------------------------------ MODULE Settings ------------------------------
(***************************************************************************)
(* Settings that administrators change while the system runs.  A value is  *)
(* stored in integration_settings and copied into the memory of the        *)
(* process that saved it; every process of a deployment has its own copy.  *)
(*                                                                         *)
(* The session does not flush before a query (autoflush=False): the copy   *)
(* made inside the saving transaction sees the new value of a row that was *)
(* there before, and does not see a row that is only about to be inserted. *)
(***************************************************************************)
CONSTANTS
    Processes, Keys,
    Numbers,            \* values that may be submitted
    InRange,            \* those within the minimum and the maximum of their key
    EnvDefault,         \* per key, the value from the environment
    Unset

ASSUME SettingsAssumption ==
    /\ InRange \subseteq Numbers /\ Unset \notin Numbers
    /\ EnvDefault \in [Keys -> InRange]

VARIABLES
    stored,      \* integration_settings
    settings     \* per process, the values in force

settings_vars == <<stored, settings>>

effective_values(rows) == [key \in Keys |-> IF rows[key] = Unset THEN EnvDefault[key] ELSE rows[key]]

SettingsInit ==
    /\ stored = [key \in Keys |-> Unset]
    /\ settings = [process \in Processes |-> EnvDefault]

\* A value beyond the bounds of its key is refused, and with it the whole request.
acceptable(value) == value \in InRange

\* What the query inside the transaction sees.
seen_before_flush(key, value) == IF stored[key] = Unset THEN stored ELSE [stored EXCEPT ![key] = value]

save(process, key, value) ==
    /\ acceptable(value)
    /\ stored' = [stored EXCEPT ![key] = value]
    /\ settings' = [settings EXCEPT ![process] = effective_values(seen_before_flush(key, value))]

\* The transaction fails after the copy was made.
save_fails(process, key, value) ==
    /\ acceptable(value)
    /\ settings' = [settings EXCEPT ![process] = effective_values(seen_before_flush(key, value))]
    /\ UNCHANGED stored

\* At start-up, and before a test message is sent.
load(process) ==
    /\ settings' = [settings EXCEPT ![process] = effective_values(stored)]
    /\ UNCHANGED stored

SettingsNext ==
    \E process \in Processes :
        \/ load(process)      \* at start-up and in test_integration
        \/ \E key \in Keys, value \in Numbers : save(process, key, value) \/ save_fails(process, key, value)

SettingsSpec == SettingsInit /\ [][SettingsNext]_settings_vars
-----------------------------------------------------------------------------
\* "The new values must take effect right now, otherwise 'saved' is a lie until the next
\* restart" (update_integrations): what was saved is in force in the process that saved it.
SavedIsInForce ==
    [][\A process \in Processes, key \in Keys, value \in Numbers :
          save(process, key, value) => settings'[process][key] = value]_settings_vars
=============================================================================
