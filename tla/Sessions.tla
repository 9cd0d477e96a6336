------------------------------ MODULE Sessions ------------------------------
(***************************************************************************)
(* The refresh sessions of one account: logging in, rotating the refresh   *)
(* cookie from several tabs of several devices, logging out, closing one   *)
(* session from the list, changing the password, and the administrator's   *)
(* reset, switch and departure.                                            *)
(*                                                                         *)
(* A request is opened up into its database steps.  A change of password   *)
(* reads the account, revokes sessions by an UPDATE that is executed at    *)
(* once and finds the rows committed by then, and commits both after the   *)
(* audit log let it in; until then nobody sees its work, so the UPDATE's   *)
(* row locks are taken in the step that commits.  Objects are written back *)
(* from what was read: token_version is the value read plus one.  After a  *)
(* commit the account is read again (expire_on_commit) in a transaction of *)
(* its own, and the tokens carry what it then says.  The answer travels    *)
(* back to the browser and may be lost.                                    *)
(***************************************************************************)
EXTENDS Naturals, FiniteSets

CONSTANTS
    Devices, Tabs,
    DeviceOf,          \* the browser a tab is in: its tabs share one cookie jar
    Clerks,            \* HR's requests that may run at the same time
    SessionIds,        \* rows of auth_sessions that may be inserted
    MaxPassword,       \* bound: how often the password is changed or reset
    MaxClosing,        \* bound: versions that end with the departure of the person
    None

ASSUME SessionAssumption ==
    /\ DeviceOf \in [Tabs -> Devices]
    /\ Tabs \cap Clerks = {}
    /\ None \notin SessionIds \cup [session : SessionIds, version : Nat, issued_in : Nat]
    /\ \A rows \in SUBSET SessionIds : rows # None
    /\ MaxPassword \in Nat /\ MaxClosing \in Nat

Requesters == Tabs \cup Clerks
Versions == 0 .. MaxPassword + MaxClosing
Access == [version : Versions, issued_in : Versions]
Token == [session : SessionIds, version : Versions, issued_in : Versions]
SessionStates == {"unused", "live", "rotated", "stale", "ended"}

VARIABLES
    user,          \* the account; "password" counts the passwords it has had
    session,       \* state of each row: rotated is within the grace, stale beyond it,
                   \* ended is revoked or expired
    cookie,        \* per device, the refresh token in its jar
    access,        \* per tab, the access token in its memory
    request,       \* per tab and clerk, the request under way
    committed_in,  \* history: per row, the password in force when it was committed
    slipped,       \* history: rows committed between the UPDATE and the commit of a new password
    overlapped,    \* history: an account was written over a version the writer had not seen
    troubled       \* history: an answer was lost or late, or a session was ended on purpose

session_vars == <<user, session, cookie, access, request, committed_in, slipped, overlapped, troubled>>

User == [active : BOOLEAN, version : Versions, password : Versions, must_change : BOOLEAN]

idle == [op |-> "none"]

SessionsInit ==
    /\ user = [active |-> TRUE, version |-> 0, password |-> 0, must_change |-> FALSE]
    /\ session = [s \in SessionIds |-> "unused"]
    /\ cookie = [d \in Devices |-> None]
    /\ access = [t \in Tabs |-> None]
    /\ request = [r \in Requesters |-> idle]
    /\ committed_in = [s \in SessionIds |-> 0]
    /\ slipped = {}
    /\ overlapped = FALSE /\ troubled = FALSE
-----------------------------------------------------------------------------
unused == {s \in SessionIds : session[s] = "unused"}

\* The rows the UPDATE finds, and what they become when it is committed.
unrevoked == {s \in SessionIds : session[s] \in {"live", "rotated", "stale"}}

revoke_all_for_user(states, rows) ==
    [s \in SessionIds |-> IF s \in rows THEN "ended" ELSE states[s]]

\* A revoked row that is rotated all the same stays revoked.
superseded(states, old, new) ==
    [states EXCEPT ![new] = "live", ![old] = IF @ = "live" THEN "rotated" ELSE @]

\* Request x has executed its UPDATE of all sessions and not committed it.
revoking(x) == request[x].revokes # None

\* A row of session s is committed by r: history.
committed(r, s) ==
    /\ committed_in' = [committed_in EXCEPT ![s] = user'.password]
    /\ slipped' = IF \E x \in Requesters \ {r} : request[x].op \in {"change", "reset"} /\ revoking(x)
                  THEN slipped \cup {s} ELSE slipped

\* The session is committed (None: the old one was rotated before), the account not yet read again.
granted(s) == [op |-> "granted", session |-> s]

answer(s) ==
    [op |-> "answer",
     access |-> [version |-> user.version, issued_in |-> user.password],
     cookie |-> IF s = None THEN None
                ELSE [session |-> s, version |-> user.version, issued_in |-> user.password]]

get_current_user(t) ==
    access[t] # None /\ user.active /\ access[t].version = user.version

begin_login(t) ==
    /\ request[t] = idle
    /\ user.active
    /\ request' = [request EXCEPT ![t] = [op |-> "login"]]
    /\ UNCHANGED <<user, session, cookie, access, committed_in, slipped, overlapped, troubled>>

commit_login(t) ==
    /\ request[t].op = "login"
    /\ UNCHANGED user
    /\ \E s \in unused :
          /\ session' = [session EXCEPT ![s] = "live"]
          /\ committed(t, s)
          /\ request' = [request EXCEPT ![t] = granted(s)]
    /\ UNCHANGED <<cookie, access, overlapped, troubled>>

begin_refresh(t) ==
    /\ request[t] = idle
    /\ LET token == cookie[DeviceOf[t]]
       IN  /\ token # None
           /\ user.active /\ token.version = user.version
           /\ request' = [request EXCEPT ![t] = [op |-> "refresh", session |-> token.session]]
    /\ UNCHANGED <<user, session, cookie, access, committed_in, slipped, overlapped, troubled>>

\* Mutant: no grace, as soon as a token is rotated its reuse is a theft.
rotate_session_no_grace(t) ==
    /\ request[t].op = "refresh"
    /\ LET s == request[t].session
       IN  request' = [request EXCEPT ![t] =
               IF session[s] = "live" THEN [op |-> "rotate", session |-> s]
               ELSE [op |-> "theft", revokes |-> unrevoked]]
    /\ UNCHANGED <<user, session, cookie, access, committed_in, slipped, overlapped, troubled>>

\* The row is read: a dead one is taken for a stolen token and ends every session.
rotate_session(t) ==
    /\ request[t].op = "refresh"
    /\ LET s == request[t].session
       IN  request' = [request EXCEPT ![t] =
               CASE session[s] = "live" -> [op |-> "rotate", session |-> s]
                 [] session[s] = "rotated" -> granted(None)
                 [] OTHER -> [op |-> "theft", revokes |-> unrevoked]]
    /\ UNCHANGED <<user, session, cookie, access, committed_in, slipped, overlapped, troubled>>

commit_refresh(t) ==
    /\ request[t].op = "rotate"
    /\ UNCHANGED user
    /\ \E new \in unused :
          /\ session' = superseded(session, request[t].session, new)
          /\ committed(t, new)
          /\ request' = [request EXCEPT ![t] = granted(new)]
    /\ UNCHANGED <<cookie, access, overlapped, troubled>>

commit_theft(t) ==
    /\ request[t].op = "theft"
    /\ session' = revoke_all_for_user(session, request[t].revokes)
    /\ request' = [request EXCEPT ![t] = idle]
    /\ UNCHANGED <<user, cookie, access, committed_in, slipped, overlapped, troubled>>

issue_response(t) ==
    /\ request[t].op = "granted"
    /\ request' = [request EXCEPT ![t] = answer(request[t].session)]
    /\ UNCHANGED <<user, session, cookie, access, committed_in, slipped, overlapped, troubled>>

\* The browser takes the tokens; a cookie replaces the one in the jar.
receive(t) ==
    /\ request[t].op = "answer"
    /\ access' = [access EXCEPT ![t] = request[t].access]
    /\ cookie' = IF request[t].cookie = None THEN cookie
                 ELSE [cookie EXCEPT ![DeviceOf[t]] = request[t].cookie]
    /\ request' = [request EXCEPT ![t] = idle]
    /\ UNCHANGED <<user, session, committed_in, slipped, overlapped, troubled>>

lose_answer(t) ==
    /\ request[t].op = "answer"
    /\ request' = [request EXCEPT ![t] = idle]
    /\ troubled' = TRUE
    /\ UNCHANGED <<user, session, cookie, access, committed_in, slipped, overlapped>>

logout(t) ==
    /\ request[t] = idle /\ cookie[DeviceOf[t]] # None
    /\ session' = revoke_all_for_user(session, {cookie[DeviceOf[t]].session})
    /\ cookie' = [cookie EXCEPT ![DeviceOf[t]] = None]
    /\ access' = [access EXCEPT ![t] = None]
    /\ troubled' = TRUE
    /\ UNCHANGED <<user, request, committed_in, slipped, overlapped>>

\* The list shows what is neither revoked, nor expired, nor rotated.
active_sessions == {s \in SessionIds : session[s] = "live"}

revoke_my_session(t, s) ==
    /\ request[t] = idle /\ get_current_user(t) /\ ~user.must_change
    /\ s \in active_sessions
    /\ session' = [session EXCEPT ![s] = "ended"]
    /\ troubled' = TRUE
    /\ UNCHANGED <<user, cookie, access, request, committed_in, slipped, overlapped>>
-----------------------------------------------------------------------------
(* Passwords and departures.  The one who changes his password proves the  *)
(* one that was in force when the account was read.                        *)

\* A request that will revoke all sessions and write the account, with what it read of it.
to_write(op) ==
    [op |-> op, read |-> [version |-> user.version, must_change |-> user.must_change], revokes |-> None]

\* A column whose value is set to what was read is left out of the UPDATE.
assigned(column, read, value) == IF value = read THEN column ELSE value

\* Mutant: the change leaves the version as it is.
new_password_same_version(read, must_change) ==
    [user EXCEPT !.password = @ + 1, !.must_change = assigned(@, read.must_change, must_change)]

new_password(read, must_change) ==
    [user EXCEPT !.password = @ + 1, !.version = read.version + 1,
                 !.must_change = assigned(@, read.must_change, must_change)]

begin_change_password(t) ==
    /\ request[t] = idle /\ get_current_user(t)
    /\ request' = [request EXCEPT ![t] = to_write("change")]
    /\ UNCHANGED <<user, session, cookie, access, committed_in, slipped, overlapped, troubled>>

begin_reset_password(c) ==
    /\ request[c] = idle
    /\ request' = [request EXCEPT ![c] = to_write("reset")]
    /\ UNCHANGED <<user, session, cookie, access, committed_in, slipped, overlapped, troubled>>

begin_departure(c) ==
    /\ request[c] = idle /\ user.active /\ user.version < MaxClosing
    /\ request' = [request EXCEPT ![c] = to_write("departure")]
    /\ UNCHANGED <<user, session, cookie, access, committed_in, slipped, overlapped, troubled>>

\* The UPDATE of all sessions, executed before the audit log is entered and the account written.
revoke_sessions(r) ==
    /\ request[r].op \in {"change", "reset", "departure"} /\ ~revoking(r)
    /\ request' = [request EXCEPT ![r].revokes = unrevoked]
    /\ UNCHANGED <<user, session, cookie, access, committed_in, slipped, overlapped, troubled>>

\* An account read in an older version is written.
overwrites(r) == overlapped' = (overlapped \/ request[r].read.version # user.version)

commit_change_password(t) ==
    /\ request[t].op = "change" /\ revoking(t)
    /\ user.password < MaxPassword
    /\ user' = new_password(request[t].read, FALSE)
    /\ \E s \in unused :
          /\ session' = [revoke_all_for_user(session, request[t].revokes) EXCEPT ![s] = "live"]
          /\ committed(t, s)
          /\ request' = [request EXCEPT ![t] = granted(s)]
    /\ overwrites(t)
    /\ troubled' = TRUE
    /\ UNCHANGED <<cookie, access>>

commit_reset_password(c) ==
    /\ request[c].op = "reset" /\ revoking(c)
    /\ user.password < MaxPassword
    /\ user' = new_password(request[c].read, TRUE)
    /\ session' = revoke_all_for_user(session, request[c].revokes)
    /\ request' = [request EXCEPT ![c] = idle]
    /\ overwrites(c)
    /\ troubled' = TRUE
    /\ UNCHANGED <<cookie, access, committed_in, slipped>>

\* The departure of the person closes the account.
close_out_departure(c) ==
    /\ request[c].op = "departure" /\ revoking(c)
    /\ user' = [user EXCEPT !.active = FALSE, !.version = request[c].read.version + 1]
    /\ session' = revoke_all_for_user(session, request[c].revokes)
    /\ request' = [request EXCEPT ![c] = idle]
    /\ overwrites(c)
    /\ troubled' = TRUE
    /\ UNCHANGED <<cookie, access, committed_in, slipped>>

\* Switching an account off and on again ends no session.
switch_account ==
    /\ user' = [user EXCEPT !.active = ~@]
    /\ UNCHANGED <<session, cookie, access, request, committed_in, slipped, overlapped, troubled>>
-----------------------------------------------------------------------------
(* Time.  Late: the grace runs out while a tab still holds the old token   *)
(* in a request, or the new one is still on its way to the jar.            *)

grace_passes(s) ==
    /\ session[s] = "rotated"
    /\ session' = [session EXCEPT ![s] = "stale"]
    /\ troubled' = (troubled \/ \E t \in Tabs : request[t].op \in {"refresh", "rotate", "granted", "answer"})
    /\ UNCHANGED <<user, cookie, access, request, committed_in, slipped, overlapped>>

\* The row, the token and its cookie expire together, with no request of a tab under way.
expire(s) ==
    /\ session[s] \in {"live", "rotated", "stale"}
    /\ \A t \in Tabs : request[t] = idle
    /\ session' = [session EXCEPT ![s] = "ended"]
    /\ cookie' = [d \in Devices |->
                    IF cookie[d] # None /\ cookie[d].session = s THEN None ELSE cookie[d]]
    /\ UNCHANGED <<user, access, request, committed_in, slipped, overlapped, troubled>>

SessionsNext ==
    \/ \E t \in Tabs :
          \/ begin_login(t) \/ commit_login(t)
          \/ begin_refresh(t) \/ rotate_session(t) \/ commit_refresh(t) \/ commit_theft(t)
          \/ issue_response(t) \/ receive(t) \/ lose_answer(t) \/ logout(t)
          \/ begin_change_password(t) \/ commit_change_password(t)
          \/ \E s \in SessionIds : revoke_my_session(t, s)
    \/ \E c \in Clerks :
          \/ begin_reset_password(c) \/ commit_reset_password(c)
          \/ begin_departure(c) \/ close_out_departure(c)
    \/ \E r \in Requesters : revoke_sessions(r)
    \/ switch_account
    \/ \E s \in SessionIds : grace_passes(s) \/ expire(s)

SessionsSpec == SessionsInit /\ [][SessionsNext]_session_vars
-----------------------------------------------------------------------------
answers == {t \in Tabs : request[t].op = "answer"}

tokens ==
    {cookie[d] : d \in {d \in Devices : cookie[d] # None}}
    \cup {request[t].cookie : t \in {t \in answers : request[t].cookie # None}}

\* A refresh token that still brings an access token.
refreshable(token) ==
    token.version = user.version /\ session[token.session] \in {"live", "rotated"}

\* No token outlives the password it was issued under: whatever access or refresh token still works
\* was issued after the last change or reset was committed, and its session was committed after it,
\* or slipped through between the UPDATE that revokes sessions and that commit.  Two requests
\* that write the account over each other void the promise: both count from the same token_version.
NoTokenOutlivesPassword ==
    ~overlapped =>
        /\ \A t \in Tabs : get_current_user(t) => access[t].issued_in = user.password
        /\ \A token \in tokens : refreshable(token) =>
              /\ token.issued_in = user.password
              /\ committed_in[token.session] = user.password \/ token.session \in slipped

\* "All sessions and tokens made before (on all devices) become invalid": what
\* change_password says of itself.  A refresh token that works is of a session committed
\* under the password in force.
EarlierSessionsEnd ==
    ~overlapped =>
        \A token \in tokens : refreshable(token) => committed_in[token.session] = user.password

\* Tabs that share a jar never cost the user his session: as long as every answer arrives
\* within the grace and nobody ends a session, the cookie in each jar can be refreshed,
\* however the tabs' refreshes overlap.
JarStaysGood ==
    ~troubled =>
        \A d \in Devices : cookie[d] # None =>
            \/ session[cookie[d].session] = "live"
            \/ /\ session[cookie[d].session] = "rotated"
               /\ \E t \in Tabs :
                     /\ DeviceOf[t] = d
                     /\ \/ /\ request[t].op = "granted" /\ request[t].session # None
                           /\ session[request[t].session] = "live"
                        \/ /\ request[t].op = "answer" /\ request[t].cookie # None
                           /\ session[request[t].cookie.session] = "live"
=============================================================================
