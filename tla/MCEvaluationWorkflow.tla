------------------------ MODULE MCEvaluationWorkflow ------------------------
(* Small instances of EvaluationWorkflow for TLC. *)
EXTENDS Notices, TLC

CONSTANTS s, d, c, h, k,   \* users
          p, q                \* personnel

acc(role, person) == [role |-> role, active |-> TRUE, personnel |-> person]
row(us, dep, ceo) == [unit_supervisor |-> us, deputy |-> dep, ceo |-> ceo]

NoEdits == [u \in Users |-> {}]

\* One supervisor, one deputy, the CEO, one of HR.  The account of k, the person evaluated, may
\* be created later.
CaseAccounts ==
    (s :> acc("unit_supervisor", None)) @@ (d :> acc("deputy", None)) @@ (c :> acc("ceo", None))
    @@ (h :> acc("hr", None)) @@ (k :> [role |-> None, active |-> FALSE, personnel |-> None])

\* Every shape of chain: full, without a deputy, the CEO as supervisor, a manager's, direct.
OfficeChains ==
    {row(s, d, c), row(s, None, c), row(c, d, c), row(c, None, c), row(None, d, c), row(None, None, c)}

\* A supervisor may become HR or be linked to p; a deputy may be switched off and on again,
\* or become a supervisor; k may join HR or be a supervisor, and may be linked to p later.
ChurnEdits ==
    (s :> {acc("unit_supervisor", None), acc("unit_supervisor", p), acc("hr", None)})
    @@ (d :> {acc("deputy", None), [acc("deputy", None) EXCEPT !.active = FALSE], acc("deputy", p),
              acc("unit_supervisor", None)})
    @@ (c :> {}) @@ (h :> {})
    @@ (k :> {acc("hr", None), acc("hr", p), acc("unit_supervisor", None)})

\* The last two are refused whatever the roles.
ChurnChains == {row(s, d, c), row(k, None, c), row(None, d, c), row(d, d, c), row(s, c, c)}

AllChains == OfficeChains \cup ChurnChains

ShortChains == {row(s, None, c)}

\* Without the deputy and the HR worker under evaluation.
ShortAccounts == [u \in Users |-> CaseAccounts[u]]
=============================================================================
