------------------------------ MODULE MCSweeps ------------------------------
(***************************************************************************)
(* The periodic jobs in one run.  Two instances of Sweeps: "archive", two  *)
(* cases of one person over a full chain; "owners", one case over every    *)
(* chain whose stages all have an owner, with a deputy who leaves and      *)
(* comes back.  And Outbox, which shares no variable with them: "outbox".  *)
(* What is not running rests in one of its initial states.                 *)
(***************************************************************************)
EXTENDS Sweeps, Outbox, TLC

CONSTANTS s, d, c, h, k,   \* users
          p                \* personnel

acc(role) == [role |-> role, active |-> TRUE, personnel |-> None]
row(us, dep, ceo) == [unit_supervisor |-> us, deputy |-> dep, ceo |-> ceo]

MCAccounts == [u \in Users |->
    IF u = s THEN acc("unit_supervisor") ELSE IF u = d THEN acc("deputy")
    ELSE IF u = c THEN acc("ceo") ELSE acc("hr")]

\* The deputy may be switched off and on again.
DeputyLeaves == [u \in Users |-> IF u = d THEN {acc("deputy"), [acc("deputy") EXCEPT !.active = FALSE]} ELSE {}]

NoEdits == [u \in Users |-> {}]

OwnedChains == {row(s, d, c), row(None, d, c), row(None, None, c)}
ShortChains == {row(s, None, c)}

CONSTANT r2

VARIABLE part

SweepsInit ==
    /\ part \in {"archive", "owners", "outbox"}
    /\ SweepInit /\ OutboxInit
    /\ IF part = "outbox" THEN ~staff[p].is_manager ELSE configured = {}

ArchiveNext == SweepNext /\ account' = account /\ staff'[p].access \in {None, row(s, d, c), row(s, None, c)}
OwnersNext == SweepNext /\ rec'[r2] = rec[r2]

SweepsNext ==
    \/ part = "archive" /\ ArchiveNext /\ UNCHANGED <<outbox_vars, part>>
    \/ part = "owners" /\ OwnersNext /\ UNCHANGED <<outbox_vars, part>>
    \/ part = "outbox" /\ OutboxNext /\ UNCHANGED <<sweep_vars, part>>

\* The fairness of SweepSpec and of OutboxSpec.
SweepsFairness ==
    /\ WF_sweep_vars(part # "outbox" /\ run_all_sweeps /\ UNCHANGED <<outbox_vars, part>>)
    /\ SF_outbox_vars(part = "outbox" /\ tick /\ UNCHANGED <<sweep_vars, part>>)
    /\ WF_outbox_vars(part = "outbox" /\ (\E r \in Replicas : sweep(r)) /\ UNCHANGED <<sweep_vars, part>>)

SweepsSpec == SweepsInit /\ [][SweepsNext]_<<sweep_vars, outbox_vars, part>> /\ SweepsFairness
=============================================================================
