----------------------------- MODULE LoginProofs -----------------------------
(***************************************************************************)
(* What holds of Sessions for any number of tabs, devices, clerks and      *)
(* sessions: no token outlives the password it was issued under, and tabs  *)
(* that share a jar never cost the user his session.  The bounds of the    *)
(* model on versions are not needed: versions are natural numbers here.    *)
(*                                                                         *)
(* Then what holds of LoginGuard for any number of logins, any quota,      *)
(* window and lockout: a lock is earned, it is kept for its time, and the  *)
(* purge forgets nothing.  The invariant says what the row of attempts     *)
(* means (Means): it counts the failures at the end of the history that    *)
(* hang together, unless it is gone, and then the history is too old to    *)
(* matter.                                                                 *)
(***************************************************************************)
EXTENDS Sessions, LoginGuard, TLAPS

Account == [active : BOOLEAN, version : Nat, password : Nat, must_change : BOOLEAN]
RefreshToken == [session : SessionIds, version : Nat, issued_in : Nat]
AccessToken == [version : Nat, issued_in : Nat]

Refreshing == [op : {"refresh", "rotate"}, session : SessionIds]
Granted == [op : {"granted"}, session : SessionIds \cup {None}]
Answer == [op : {"answer"}, access : AccessToken, cookie : RefreshToken \cup {None}]
Theft == [op : {"theft"}, revokes : SUBSET SessionIds]
Writing == [op : {"change", "reset", "departure"}, read : [version : Nat, must_change : BOOLEAN],
            revokes : (SUBSET SessionIds) \cup {None}]
RequestState == {idle} \cup [op : {"login"}] \cup Refreshing \cup Granted \cup Answer \cup Theft \cup Writing

\* Every table keeps its type.
SessionTypeOK ==
    /\ user \in Account
    /\ session \in [SessionIds -> SessionStates]
    /\ cookie \in [Devices -> RefreshToken \cup {None}]
    /\ access \in [Tabs -> AccessToken \cup {None}]
    /\ request \in [Requesters -> RequestState]
    /\ committed_in \in [SessionIds -> Nat]
    /\ slipped \in SUBSET SessionIds
    /\ overlapped \in BOOLEAN /\ troubled \in BOOLEAN

Good(s) == session[s] \in {"live", "rotated"}

\* A new password whose UPDATE of the sessions is executed and not committed.
Renews(r) == request[r].op \in {"change", "reset"} /\ revoking(r)

\* A session that can still be refreshed was committed under the password in force, or slipped through;
\* and a new password about to be committed ends it, unless it slips through.
SessionsFresh ==
    \A s \in SessionIds : Good(s) =>
        /\ committed_in[s] = user.password \/ s \in slipped
        /\ \A r \in Requesters : Renews(r) => s \in request[r].revokes \cup slipped

\* A token of the version in force was issued under the password in force; none is newer.
InForce(token) ==
    /\ token.version <= user.version
    /\ token.version = user.version => token.issued_in = user.password

\* Unless accounts were written over each other, all tokens are like that, those in the browsers and
\* those on their way.
TokensFresh ==
    ~overlapped =>
        /\ \A d \in Devices : cookie[d] # None => InForce(cookie[d])
        /\ \A t \in Tabs : access[t] # None => InForce(access[t])
        /\ \A t \in answers : /\ InForce(request[t].access)
                              /\ request[t].cookie # None => InForce(request[t].cookie)
-----------------------------------------------------------------------------
\* What a request under way can be, and what it carries.
LEMMA RequestStates ==
    /\ idle \in RequestState /\ [op |-> "login"] \in RequestState
    /\ \A s \in SessionIds : /\ [op |-> "refresh", session |-> s] \in RequestState
                             /\ [op |-> "rotate", session |-> s] \in RequestState
    /\ \A s \in SessionIds \cup {None} : granted(s) \in RequestState
    /\ \A rows \in SUBSET SessionIds : [op |-> "theft", revokes |-> rows] \in RequestState
    /\ \A q \in RequestState :
          /\ q.op \in {"refresh", "rotate"} => q.session \in SessionIds
          /\ q.op = "granted" => q.session \in SessionIds \cup {None}
          /\ q.op = "answer" => q.access \in AccessToken /\ q.cookie \in RefreshToken \cup {None}
          /\ q.op = "theft" => q.revokes \in SUBSET SessionIds
          /\ q.op \in {"change", "reset", "departure"} => q \in Writing
<1>1. \A q \in {idle} \cup [op : {"login"}] : q.op \in {"none", "login"}
  BY DEF idle
<1>2. \A q \in Refreshing : q.op \in {"refresh", "rotate"} /\ q.session \in SessionIds
  BY DEF Refreshing
<1>3. \A q \in Granted : q.op = "granted" /\ q.session \in SessionIds \cup {None}
  BY DEF Granted
<1>4. \A q \in Answer : q.op = "answer" /\ q.access \in AccessToken /\ q.cookie \in RefreshToken \cup {None}
  BY DEF Answer
<1>5. \A q \in Theft : q.op = "theft" /\ q.revokes \in SUBSET SessionIds
  BY DEF Theft
<1>6. \A q \in Writing : q.op \in {"change", "reset", "departure"}
  BY DEF Writing
<1>7. idle \in RequestState /\ [op |-> "login"] \in RequestState
  BY DEF RequestState
<1>8. \A s \in SessionIds : /\ [op |-> "refresh", session |-> s] \in Refreshing
                            /\ [op |-> "rotate", session |-> s] \in Refreshing
  BY DEF Refreshing
<1>9. \A s \in SessionIds \cup {None} : granted(s) \in Granted
  BY DEF Granted, granted
<1>10. \A rows \in SUBSET SessionIds : [op |-> "theft", revokes |-> rows] \in Theft
  BY DEF Theft
<1> HIDE DEF Refreshing, Granted, Answer, Theft, Writing
<1>11. \A q \in RequestState : \/ q \in {idle} \cup [op : {"login"}] \/ q \in Refreshing \/ q \in Granted
                               \/ q \in Answer \/ q \in Theft \/ q \in Writing
  BY DEF RequestState
<1>12. \A q : q \in Refreshing \/ q \in Granted \/ q \in Theft => q \in RequestState
  BY DEF RequestState
<1>13. ASSUME NEW q \in RequestState
       PROVE  /\ q.op \in {"refresh", "rotate"} => q.session \in SessionIds
              /\ q.op = "granted" => q.session \in SessionIds \cup {None}
              /\ q.op = "answer" => q.access \in AccessToken /\ q.cookie \in RefreshToken \cup {None}
              /\ q.op = "theft" => q.revokes \in SUBSET SessionIds
              /\ q.op \in {"change", "reset", "departure"} => q \in Writing
  BY <1>1, <1>2, <1>3, <1>4, <1>5, <1>6, <1>11
<1> QED
  BY <1>7, <1>8, <1>9, <1>10, <1>12, <1>13

\* A request that writes the account, before its UPDATE and after it.
LEMMA WritingStates ==
    /\ \A q \in Writing : /\ q.read.version \in Nat /\ q.read.must_change \in BOOLEAN
                          /\ q.revokes # None => q.revokes \in SUBSET SessionIds
    /\ user \in Account =>
          \A op \in {"change", "reset", "departure"} :
              to_write(op) \in RequestState /\ to_write(op).op = op /\ to_write(op).revokes = None
    /\ \A q \in Writing, rows \in SUBSET SessionIds :
          LET sent == [q EXCEPT !.revokes = rows]
          IN  sent \in RequestState /\ sent.op = q.op /\ sent.revokes = rows
<1>1. ASSUME NEW q \in Writing
      PROVE  /\ q.read.version \in Nat /\ q.read.must_change \in BOOLEAN
             /\ q.revokes # None => q.revokes \in SUBSET SessionIds
  BY DEF Writing
<1>2. ASSUME user \in Account, NEW op \in {"change", "reset", "departure"}
      PROVE  to_write(op) \in RequestState /\ to_write(op).op = op /\ to_write(op).revokes = None
  <2>1. user.version \in Nat /\ user.must_change \in BOOLEAN
    BY <1>2 DEF Account
  <2>2. to_write(op) \in Writing
    BY <2>1 DEF Writing, to_write
  <2>3. to_write(op).op = op /\ to_write(op).revokes = None
    BY DEF to_write
  <2> QED
    BY <2>2, <2>3 DEF RequestState
<1>3. ASSUME NEW q \in Writing, NEW rows \in SUBSET SessionIds
      PROVE  LET sent == [q EXCEPT !.revokes = rows]
             IN  sent \in RequestState /\ sent.op = q.op /\ sent.revokes = rows
  <2> DEFINE sent == [q EXCEPT !.revokes = rows]
  <2>1. sent \in Writing /\ sent.op = q.op /\ sent.revokes = rows
    BY DEF Writing
  <2> HIDE DEF sent
  <2>2. sent \in RequestState
    BY <2>1 DEF RequestState
  <2> QED
    BY <2>1, <2>2 DEF sent
<1> QED
  BY <1>1, <1>2, <1>3

\* The answer carries the tokens of the version in force, and a cookie unless the session was rotated.
LEMMA Answered ==
    ASSUME user \in Account, NEW s \in SessionIds \cup {None}
    PROVE  LET q == answer(s)
           IN  /\ q \in RequestState /\ q.op = "answer"
               /\ q.access.version = user.version /\ q.access.issued_in = user.password
               /\ q.cookie # None <=> s # None
               /\ s # None => /\ q.cookie.session = s
                              /\ q.cookie.version = user.version /\ q.cookie.issued_in = user.password
<1> DEFINE q == answer(s)
           a == [version |-> user.version, issued_in |-> user.password]
           full == [session |-> s, version |-> user.version, issued_in |-> user.password]
           token == IF s = None THEN None ELSE full
<1>1. user.version \in Nat /\ user.password \in Nat
  BY DEF Account
<1>2. q = [op |-> "answer", access |-> a, cookie |-> token]
  BY DEF answer
<1>3. a \in AccessToken /\ a.version = user.version /\ a.issued_in = user.password
  BY <1>1 DEF AccessToken
<1>4. s # None => full \in RefreshToken
  BY <1>1 DEF RefreshToken
<1>5. full.session = s /\ full.version = user.version /\ full.issued_in = user.password
  OBVIOUS
<1>6. s # None => full # None
  BY <1>1, SessionAssumption
<1> HIDE DEF q, a, full
<1>7. token \in RefreshToken \cup {None}
  BY <1>4
<1>8. token # None <=> s # None
  BY <1>6
<1>9. s # None => token = full
  OBVIOUS
<1> HIDE DEF token
<1>10. q \in Answer /\ q.op = "answer" /\ q.access = a /\ q.cookie = token
  BY <1>2, <1>3, <1>7 DEF Answer
<1>11. q \in RequestState
  BY <1>10 DEF RequestState
<1> QED
  BY <1>3, <1>5, <1>8, <1>9, <1>10, <1>11 DEF q

\* A new password leaves a well-formed account, with the version that follows the one that was read.
LEMMA NewPassword ==
    ASSUME user \in Account, NEW read, read.version \in Nat, NEW must_change \in BOOLEAN
    PROVE  LET next == new_password(read, must_change)
           IN  next \in Account /\ next.version = read.version + 1 /\ next.password = user.password + 1
<1> DEFINE must == assigned(user.must_change, read.must_change, must_change)
<1>1. must \in BOOLEAN
  BY DEF assigned, Account
<1>2. new_password(read, must_change) =
        [user EXCEPT !.password = user.password + 1, !.version = read.version + 1, !.must_change = must]
  BY DEF new_password
<1>3. read.version + 1 \in Nat /\ user.password + 1 \in Nat
  BY DEF Account
<1> HIDE DEF must
<1> QED
  BY <1>1, <1>2, <1>3 DEF Account

\* The UPDATE finds every row that can be refreshed, and ends the rows it found.
LEMMA Revoked ==
    ASSUME session \in [SessionIds -> SessionStates]
    PROVE  /\ unrevoked \in SUBSET SessionIds
           /\ \A s \in SessionIds : Good(s) => s \in unrevoked
           /\ \A rows \in SUBSET SessionIds :
                 /\ revoke_all_for_user(session, rows) \in [SessionIds -> SessionStates]
                 /\ \A s \in SessionIds :
                       revoke_all_for_user(session, rows)[s] = IF s \in rows THEN "ended" ELSE session[s]
BY DEF unrevoked, Good, revoke_all_for_user, SessionStates

\* A row is committed under the password then in force, and slips through if another request renews it.
LEMMA Committed ==
    ASSUME SessionTypeOK, user' \in Account, NEW r \in Requesters, NEW s \in SessionIds, committed(r, s)
    PROVE  /\ committed_in' \in [SessionIds -> Nat] /\ slipped' \in SUBSET SessionIds
           /\ slipped \subseteq slipped'
           /\ \A x \in SessionIds : committed_in'[x] = IF x = s THEN user'.password ELSE committed_in[x]
           /\ \A x \in Requesters : x # r /\ Renews(x) => s \in slipped'
<1>1. user'.password \in Nat
  BY DEF Account
<1>2. /\ committed_in' \in [SessionIds -> Nat]
      /\ \A x \in SessionIds : committed_in'[x] = IF x = s THEN user'.password ELSE committed_in[x]
  BY <1>1 DEF committed, SessionTypeOK
<1>3. /\ slipped' \in SUBSET SessionIds /\ slipped \subseteq slipped'
      /\ \A x \in Requesters : x # r /\ Renews(x) => s \in slipped'
  BY DEF committed, SessionTypeOK, Renews
<1> QED
  BY <1>2, <1>3
-----------------------------------------------------------------------------
SessionsSafe == SessionTypeOK /\ SessionsFresh /\ TokensFresh

\* A request that moves on without a token and without an UPDATE changes nothing that matters.
LEMMA RequestMoves ==
    ASSUME SessionsSafe, NEW r \in Requesters, NEW q \in RequestState, request' = [request EXCEPT ![r] = q],
           q.op # "answer", q.op \in {"change", "reset"} => q.revokes = None, troubled' \in BOOLEAN,
           UNCHANGED <<user, session, cookie, access, committed_in, slipped, overlapped>>
    PROVE  SessionsSafe'
<1> USE DEF SessionsSafe
<1>1. SessionTypeOK'
  BY DEF SessionTypeOK
<1>2. \A x \in Requesters : Renews(x)' => Renews(x) /\ request'[x] = request[x]
  BY DEF SessionTypeOK, Renews, revoking
<1>3. SessionsFresh'
  BY <1>2 DEF SessionsFresh, Good
<1>4. \A t \in answers' : t \in answers /\ request'[t] = request[t]
  BY DEF answers, SessionTypeOK, Requesters
<1>5. TokensFresh'
  BY <1>4 DEF TokensFresh, InForce
<1> QED
  BY <1>1, <1>3, <1>5

\* Sessions that end take nothing with them, nor do cookies that go.
LEMMA SessionsEnd ==
    ASSUME SessionsSafe, session' \in [SessionIds -> SessionStates], \A s \in SessionIds : Good(s)' => Good(s),
           cookie' \in [Devices -> RefreshToken \cup {None}], \A d \in Devices : cookie'[d] \in {cookie[d], None},
           access' \in [Tabs -> AccessToken \cup {None}], \A t \in Tabs : access'[t] \in {access[t], None},
           request' = request \/ \E r \in Requesters : request' = [request EXCEPT ![r] = idle],
           troubled' \in BOOLEAN, UNCHANGED <<user, committed_in, slipped, overlapped>>
    PROVE  SessionsSafe'
<1> USE DEF SessionsSafe
<1>1. /\ request' \in [Requesters -> RequestState]
      /\ \A x \in Requesters : request'[x] = request[x] \/ request'[x].op = "none"
  BY RequestStates DEF SessionTypeOK, idle
<1>2. SessionTypeOK'
  BY <1>1 DEF SessionTypeOK
<1>3. \A x \in Requesters : Renews(x)' => Renews(x) /\ request'[x] = request[x]
  BY <1>1 DEF Renews, revoking
<1>4. SessionsFresh'
  BY <1>3 DEF SessionsFresh
<1>5. \A t \in answers' : t \in answers /\ request'[t] = request[t]
  BY <1>1 DEF answers, Requesters
<1>6. TokensFresh'
  BY <1>5 DEF TokensFresh, InForce
<1> QED
  BY <1>2, <1>4, <1>6

\* A session granted before or after the account was written: nothing is issued yet.
LEMMA SessionGranted ==
    ASSUME SessionsSafe, NEW t \in Tabs, NEW s \in unused, ~Renews(t), UNCHANGED <<user, cookie, access, overlapped, troubled>>,
           session' \in [SessionIds -> SessionStates], \A x \in SessionIds : Good(x)' => Good(x) \/ x = s,
           committed(t, s), request' = [request EXCEPT ![t] = granted(s)]
    PROVE  SessionsSafe'
<1> USE DEF SessionsSafe
<1>1. t \in Requesters /\ s \in SessionIds /\ user \in Account /\ user' \in Account
  BY DEF Requesters, unused, SessionTypeOK
<1>2. granted(s) \in RequestState /\ granted(s).op = "granted"
  BY <1>1, RequestStates DEF granted
<1>3. /\ committed_in' \in [SessionIds -> Nat] /\ slipped' \in SUBSET SessionIds
      /\ slipped \subseteq slipped'
      /\ \A x \in SessionIds : committed_in'[x] = IF x = s THEN user'.password ELSE committed_in[x]
      /\ \A x \in Requesters : x # t /\ Renews(x) => s \in slipped'
  BY <1>1, Committed
<1>4. SessionTypeOK'
  BY <1>1, <1>2, <1>3 DEF SessionTypeOK
<1>5. \A x \in Requesters : Renews(x)' => Renews(x) /\ request'[x] = request[x] /\ x # t
  BY <1>1, <1>2 DEF SessionTypeOK, Renews, revoking
<1>6. SessionsFresh'
  BY <1>1, <1>3, <1>5 DEF SessionsFresh
<1>7. \A x \in answers' : x \in answers /\ request'[x] = request[x]
  BY <1>1, <1>2 DEF answers, SessionTypeOK, Requesters
<1>8. TokensFresh'
  BY <1>7 DEF TokensFresh, InForce
<1> QED
  BY <1>4, <1>6, <1>8

\* Requests of a tab, up to the account.
LEMMA TabSteps ==
    ASSUME SessionsSafe, NEW t \in Tabs,
           \/ begin_login(t) \/ commit_login(t) \/ begin_refresh(t) \/ rotate_session(t) \/ commit_refresh(t)
           \/ commit_theft(t) \/ lose_answer(t) \/ logout(t) \/ \E s \in SessionIds : revoke_my_session(t, s)
    PROVE  SessionsSafe'
<1> USE DEF SessionsSafe
<1>0. t \in Requesters /\ request[t] \in RequestState
  BY DEF Requesters, SessionTypeOK
<1>1. CASE begin_login(t)
  <2>1. [op |-> "login"] \in RequestState
    BY RequestStates
  <2> QED
    BY <1>0, <1>1, <2>1, RequestMoves DEF begin_login, SessionTypeOK
<1>2. CASE commit_login(t)
  <2>1. PICK s \in unused : /\ session' = [session EXCEPT ![s] = "live"]
                            /\ committed(t, s) /\ request' = [request EXCEPT ![t] = granted(s)]
    BY <1>2 DEF commit_login
  <2>2. /\ session' \in [SessionIds -> SessionStates]
        /\ \A x \in SessionIds : Good(x)' => Good(x) \/ x = s
    BY <2>1 DEF SessionTypeOK, SessionStates, unused, Good
  <2>3. ~Renews(t) /\ UNCHANGED <<user, cookie, access, overlapped, troubled>>
    BY <1>2 DEF commit_login, Renews
  <2> QED
    BY <2>1, <2>2, <2>3, SessionGranted
<1>3. CASE begin_refresh(t)
  <2> DEFINE s == cookie[DeviceOf[t]].session
             q == [op |-> "refresh", session |-> s]
  <2>1. s \in SessionIds
    BY <1>3, SessionAssumption DEF begin_refresh, SessionTypeOK, RefreshToken
  <2>2. request' = [request EXCEPT ![t] = q] /\ q.op = "refresh"
    BY <1>3 DEF begin_refresh
  <2>3. q \in RequestState
    BY <2>1, RequestStates
  <2>4. UNCHANGED <<user, session, cookie, access, committed_in, slipped, overlapped>> /\ troubled' \in BOOLEAN
    BY <1>3 DEF begin_refresh, SessionTypeOK
  <2> HIDE DEF q
  <2> QED
    BY <1>0, <2>2, <2>3, <2>4, RequestMoves
<1>4. CASE rotate_session(t)
  <2> DEFINE s == request[t].session
             q == CASE session[s] = "live" -> [op |-> "rotate", session |-> s]
                    [] session[s] = "rotated" -> granted(None)
                    [] OTHER -> [op |-> "theft", revokes |-> unrevoked]
  <2>1. s \in SessionIds
    BY <1>0, <1>4, RequestStates DEF rotate_session
  <2>2. request' = [request EXCEPT ![t] = q]
    BY <1>4 DEF rotate_session
  <2>3. q \in RequestState
    BY <2>1, RequestStates, Revoked DEF SessionTypeOK
  <2>4. q.op \in {"rotate", "granted", "theft"}
    BY DEF granted
  <2>5. UNCHANGED <<user, session, cookie, access, committed_in, slipped, overlapped>> /\ troubled' \in BOOLEAN
    BY <1>4 DEF rotate_session, SessionTypeOK
  <2> HIDE DEF q
  <2> QED
    BY <1>0, <2>2, <2>3, <2>4, <2>5, RequestMoves
<1>5. CASE commit_refresh(t)
  <2>1. PICK new \in unused : /\ session' = superseded(session, request[t].session, new)
                              /\ committed(t, new) /\ request' = [request EXCEPT ![t] = granted(new)]
    BY <1>5 DEF commit_refresh
  <2>2. /\ session' \in [SessionIds -> SessionStates]
        /\ \A x \in SessionIds : Good(x)' => Good(x) \/ x = new
    BY <2>1 DEF superseded, SessionTypeOK, SessionStates, unused, Good
  <2>3. ~Renews(t) /\ UNCHANGED <<user, cookie, access, overlapped, troubled>>
    BY <1>5 DEF commit_refresh, Renews
  <2> QED
    BY <2>1, <2>2, <2>3, SessionGranted
<1>6. CASE commit_theft(t)
  <2>1. request[t].revokes \in SUBSET SessionIds
    BY <1>0, <1>6, RequestStates DEF commit_theft
  <2>2. session' \in [SessionIds -> SessionStates] /\ \A s \in SessionIds : Good(s)' => Good(s)
    BY <1>6, <2>1, Revoked DEF commit_theft, SessionTypeOK, Good
  <2> QED
    BY <1>0, <1>6, <2>2, SessionsEnd DEF commit_theft, SessionTypeOK
<1>7. CASE lose_answer(t)
  BY <1>0, <1>7, SessionsEnd DEF lose_answer, SessionTypeOK, Good
<1>8. CASE logout(t)
  <2>1. {cookie[DeviceOf[t]].session} \in SUBSET SessionIds
    BY <1>8, SessionAssumption DEF logout, SessionTypeOK, RefreshToken
  <2>2. session' \in [SessionIds -> SessionStates] /\ \A s \in SessionIds : Good(s)' => Good(s)
    BY <1>8, <2>1, Revoked DEF logout, SessionTypeOK, Good
  <2> QED
    BY <1>8, <2>2, SessionsEnd DEF logout, SessionTypeOK
<1>9. ASSUME NEW s \in SessionIds, revoke_my_session(t, s)
      PROVE  SessionsSafe'
  <2>1. session' \in [SessionIds -> SessionStates] /\ \A x \in SessionIds : Good(x)' => Good(x)
    BY <1>9 DEF revoke_my_session, SessionTypeOK, SessionStates, Good
  <2> QED
    BY <1>9, <2>1, SessionsEnd DEF revoke_my_session, SessionTypeOK
<1> QED
  BY <1>1, <1>2, <1>3, <1>4, <1>5, <1>6, <1>7, <1>8, <1>9

\* Tokens are made of the account as it is, and taken as they were made.
LEMMA TokenSteps ==
    ASSUME SessionsSafe, NEW t \in Tabs, issue_response(t) \/ receive(t)
    PROVE  SessionsSafe'
<1> USE DEF SessionsSafe
<1>0. t \in Requesters /\ request[t] \in RequestState /\ DeviceOf[t] \in Devices
  BY SessionAssumption DEF Requesters, SessionTypeOK
<1>1. CASE issue_response(t)
  <2> DEFINE s == request[t].session
             q == answer(s)
  <2>1. s \in SessionIds \cup {None} /\ user \in Account
    BY <1>0, <1>1, RequestStates DEF issue_response, SessionTypeOK
  <2>2. /\ q \in RequestState /\ q.op = "answer"
        /\ q.access.version = user.version /\ q.access.issued_in = user.password
        /\ q.cookie # None => q.cookie.version = user.version /\ q.cookie.issued_in = user.password
    <3>1. PICK x \in SessionIds \cup {None} : x = s
      BY <2>1
    <3>2. /\ answer(x) \in RequestState /\ answer(x).op = "answer"
          /\ answer(x).access.version = user.version /\ answer(x).access.issued_in = user.password
          /\ answer(x).cookie # None =>
                answer(x).cookie.version = user.version /\ answer(x).cookie.issued_in = user.password
      BY <2>1, Answered
    <3> QED
      BY <3>1, <3>2
  <2> HIDE DEF q
  <2>3. request' = [request EXCEPT ![t] = q]
    BY <1>1 DEF issue_response, q
  <2>4. SessionTypeOK'
    BY <1>1, <2>2, <2>3 DEF issue_response, SessionTypeOK
  <2>5. \A x \in Requesters : Renews(x)' => Renews(x) /\ request'[x] = request[x]
    BY <2>2, <2>3 DEF SessionTypeOK, Renews, revoking
  <2>6. SessionsFresh'
    BY <1>1, <2>5 DEF issue_response, SessionsFresh, Good
  <2>7. user.version \in Nat
    BY <2>1 DEF Account
  <2>8. \A x \in answers' : (x \in answers /\ request'[x] = request[x]) \/ request'[x] = q
    BY <1>0, <2>3 DEF answers, SessionTypeOK, Requesters
  <2>9. TokensFresh'
    BY <1>1, <2>2, <2>7, <2>8 DEF issue_response, TokensFresh, InForce
  <2> QED
    BY <2>4, <2>6, <2>9
<1>2. CASE receive(t)
  <2>1. request[t].access \in AccessToken /\ request[t].cookie \in RefreshToken \cup {None} /\ t \in answers
    BY <1>0, <1>2, RequestStates DEF receive, answers
  <2>2. /\ access' = [access EXCEPT ![t] = request[t].access]
        /\ cookie' = IF request[t].cookie = None THEN cookie
                     ELSE [cookie EXCEPT ![DeviceOf[t]] = request[t].cookie]
        /\ request' = [request EXCEPT ![t] = idle]
        /\ UNCHANGED <<user, session, committed_in, slipped, overlapped, troubled>>
    BY <1>2 DEF receive
  <2>3. /\ request' \in [Requesters -> RequestState]
        /\ \A x \in Requesters : request'[x] = request[x] \/ request'[x].op = "none"
    BY <2>2, RequestStates DEF SessionTypeOK, idle
  <2>4. SessionTypeOK'
    BY <1>0, <2>1, <2>2, <2>3 DEF SessionTypeOK
  <2>5. \A x \in Requesters : Renews(x)' => Renews(x) /\ request'[x] = request[x]
    BY <2>3 DEF Renews, revoking
  <2>6. SessionsFresh'
    BY <2>2, <2>5 DEF SessionsFresh, Good
  <2>7. \A x \in answers' : x \in answers /\ request'[x] = request[x]
    BY <2>3 DEF answers, Requesters
  <2>8. /\ \A d \in Devices : cookie'[d] = cookie[d] \/ (cookie'[d] = request[t].cookie /\ request[t].cookie # None)
        /\ \A x \in Tabs : access'[x] = access[x] \/ access'[x] = request[t].access
    BY <2>2 DEF SessionTypeOK
  <2>9. TokensFresh'
    BY <2>1, <2>2, <2>7, <2>8 DEF TokensFresh, InForce
  <2> QED
    BY <2>4, <2>6, <2>9
<1> QED
  BY <1>1, <1>2

\* The UPDATE takes down every session that can be refreshed.
LEMMA UpdateStep ==
    ASSUME SessionsSafe, NEW r \in Requesters, revoke_sessions(r)
    PROVE  SessionsSafe'
<1> USE DEF SessionsSafe
<1> DEFINE q == [request[r] EXCEPT !.revokes = unrevoked]
<1>1. request[r] \in Writing
  BY RequestStates DEF revoke_sessions, SessionTypeOK
<1>2. unrevoked \in SUBSET SessionIds /\ \A s \in SessionIds : Good(s) => s \in unrevoked
  BY Revoked DEF SessionTypeOK
<1>3. q \in RequestState /\ q.op = request[r].op /\ q.revokes = unrevoked
  BY <1>1, <1>2, WritingStates
<1> HIDE DEF q
<1>4. request' = [request EXCEPT ![r] = q]
  BY DEF revoke_sessions, q
<1>5. SessionTypeOK'
  BY <1>3, <1>4 DEF revoke_sessions, SessionTypeOK
<1>6. \A x \in Requesters : Renews(x)' => (Renews(x) /\ request'[x] = request[x]) \/ request'[x].revokes = unrevoked
  BY <1>3, <1>4 DEF SessionTypeOK, Renews, revoking
<1>7. SessionsFresh'
  BY <1>2, <1>6 DEF revoke_sessions, SessionsFresh, Good
<1>8. \A x \in answers' : x \in answers /\ request'[x] = request[x]
  BY <1>3, <1>4 DEF revoke_sessions, answers, SessionTypeOK, Requesters
<1>9. TokensFresh'
  BY <1>8 DEF revoke_sessions, TokensFresh, InForce
<1> QED
  BY <1>5, <1>7, <1>9

\* A commit that starts a new version leaves no token of the version in force, or voids the promise.
LEMMA NewVersion ==
    ASSUME SessionTypeOK, TokensFresh, NEW r \in Requesters, request[r].read.version \in Nat, overwrites(r),
           user' \in Account, user'.version = request[r].read.version + 1, UNCHANGED <<cookie, access>>,
           \A t \in answers' : t \in answers /\ request'[t] = request[t]
    PROVE  TokensFresh'
<1>1. SUFFICES ASSUME ~overlapped' PROVE TokensFresh'
  BY DEF TokensFresh
<1>2. ~overlapped /\ user'.version = user.version + 1 /\ user.version \in Nat
  BY <1>1 DEF overwrites, SessionTypeOK, Account
<1>3. \A token : /\ token.version \in Nat /\ token.version <= user.version => token.version <= user'.version
                 /\ token.version \in Nat /\ token.version <= user.version => token.version # user'.version
  BY <1>2
<1>4. /\ \A d \in Devices : cookie[d] # None => cookie[d].version \in Nat
      /\ \A t \in Tabs : access[t] # None => access[t].version \in Nat
      /\ \A t \in answers : /\ request[t].access.version \in Nat
                            /\ request[t].cookie # None => request[t].cookie.version \in Nat
  BY RequestStates DEF SessionTypeOK, RefreshToken, AccessToken, answers, Requesters
<1> QED
  BY <1>2, <1>3, <1>4 DEF TokensFresh, InForce

\* A new password or a departure ends what its UPDATE found.
LEMMA CommitSteps ==
    ASSUME SessionsSafe,
           \/ \E t \in Tabs : commit_change_password(t)
           \/ \E c \in Clerks : commit_reset_password(c) \/ close_out_departure(c)
    PROVE  SessionsSafe'
<1> USE DEF SessionsSafe
<1>0. ASSUME NEW r \in Requesters, request[r].op \in {"change", "reset", "departure"}, revoking(r)
      PROVE  /\ request[r].read.version \in Nat /\ request[r].revokes \in SUBSET SessionIds
             /\ user \in Account
  BY <1>0, RequestStates, WritingStates DEF SessionTypeOK, revoking
<1>1. ASSUME NEW t \in Tabs, commit_change_password(t)
      PROVE  SessionsSafe'
  <2>1. PICK s \in unused :
          /\ session' = [revoke_all_for_user(session, request[t].revokes) EXCEPT ![s] = "live"]
          /\ committed(t, s) /\ request' = [request EXCEPT ![t] = granted(s)]
    BY <1>1 DEF commit_change_password
  <2>2. t \in Requesters /\ s \in SessionIds /\ Renews(t)
    BY <1>1 DEF unused, Requesters, commit_change_password, Renews
  <2>3. request[t].read.version \in Nat /\ request[t].revokes \in SUBSET SessionIds /\ user \in Account
    BY <1>0, <1>1, <2>2 DEF commit_change_password
  <2>4. user' \in Account /\ user'.version = request[t].read.version + 1
    BY <1>1, <2>3, NewPassword DEF commit_change_password
  <2>5. granted(s) \in RequestState /\ granted(s).op = "granted"
    BY <2>2, RequestStates DEF granted
  <2>6. /\ committed_in' \in [SessionIds -> Nat] /\ slipped' \in SUBSET SessionIds
        /\ slipped \subseteq slipped'
        /\ \A x \in SessionIds : committed_in'[x] = IF x = s THEN user'.password ELSE committed_in[x]
        /\ \A x \in Requesters : x # t /\ Renews(x) => s \in slipped'
    BY <2>1, <2>2, <2>4, Committed
  <2>7. /\ session' \in [SessionIds -> SessionStates]
        /\ \A x \in SessionIds : Good(x)' => x = s \/ (Good(x) /\ x \notin request[t].revokes)
    BY <2>1, <2>2, <2>3, Revoked DEF SessionTypeOK, SessionStates, Good
  <2>8. SessionTypeOK'
    <3>1. request' \in [Requesters -> RequestState]
      BY <2>1, <2>5 DEF SessionTypeOK
    <3>2. overlapped' \in BOOLEAN /\ troubled' \in BOOLEAN /\ UNCHANGED <<cookie, access>>
      BY <1>1 DEF commit_change_password, overwrites, SessionTypeOK
    <3> QED
      BY <2>4, <2>6, <2>7, <3>1, <3>2 DEF SessionTypeOK
  <2>9. \A x \in Requesters : Renews(x)' => Renews(x) /\ request'[x] = request[x] /\ x # t
    BY <2>1, <2>2, <2>5 DEF SessionTypeOK, Renews, revoking
  <2>10. SessionsFresh'
    BY <2>2, <2>6, <2>7, <2>9 DEF SessionsFresh
  <2>11. \A x \in answers' : x \in answers /\ request'[x] = request[x]
    BY <2>1, <2>2, <2>5 DEF answers, SessionTypeOK, Requesters
  <2>12. TokensFresh'
    BY <1>1, <2>2, <2>3, <2>4, <2>11, NewVersion DEF commit_change_password
  <2> QED
    BY <2>8, <2>10, <2>12
<1>2. ASSUME NEW c \in Clerks, commit_reset_password(c) \/ close_out_departure(c)
      PROVE  SessionsSafe'
  <2>1. /\ session' = revoke_all_for_user(session, request[c].revokes)
        /\ request' = [request EXCEPT ![c] = idle] /\ overwrites(c) /\ troubled' = TRUE
        /\ UNCHANGED <<cookie, access, committed_in, slipped>>
    BY <1>2 DEF commit_reset_password, close_out_departure
  <2>2. c \in Requesters /\ request[c].op \in {"reset", "departure"} /\ revoking(c)
    BY <1>2 DEF Requesters, commit_reset_password, close_out_departure
  <2>3. request[c].read.version \in Nat /\ request[c].revokes \in SUBSET SessionIds /\ user \in Account
    BY <1>0, <2>2
  <2>4. /\ user' \in Account /\ user'.version = request[c].read.version + 1
        /\ user'.password = user.password \/ Renews(c)
    <3>1. CASE commit_reset_password(c)
      BY <2>3, <3>1, NewPassword DEF commit_reset_password, Renews
    <3>2. CASE close_out_departure(c)
      <4>1. user' = [user EXCEPT !.active = FALSE, !.version = request[c].read.version + 1]
        BY <3>2, Zenon DEF close_out_departure
      <4>2. request[c].read.version + 1 \in Nat
        BY <2>3
      <4> QED
        BY <2>3, <4>1, <4>2 DEF Account
    <3> QED
      BY <1>2, <3>1, <3>2
  <2>5. /\ request' \in [Requesters -> RequestState]
        /\ \A x \in Requesters : request'[x] = request[x] \/ request'[x].op = "none"
    BY <2>1, RequestStates DEF SessionTypeOK, idle
  <2>6. /\ session' \in [SessionIds -> SessionStates]
        /\ \A x \in SessionIds : Good(x)' => Good(x) /\ x \notin request[c].revokes
    BY <2>1, <2>3, Revoked DEF SessionTypeOK, Good
  <2>7. SessionTypeOK'
    <3>1. overlapped' \in BOOLEAN /\ troubled' \in BOOLEAN
      BY <2>1 DEF overwrites, SessionTypeOK
    <3> QED
      BY <2>1, <2>4, <2>5, <2>6, <3>1 DEF SessionTypeOK
  <2>8. \A x \in Requesters : Renews(x)' => Renews(x) /\ request'[x] = request[x]
    BY <2>5 DEF Renews, revoking
  <2>9. SessionsFresh'
    BY <2>1, <2>2, <2>4, <2>6, <2>8 DEF SessionsFresh
  <2>10. \A x \in answers' : x \in answers /\ request'[x] = request[x]
    BY <2>5 DEF answers, Requesters
  <2>11. TokensFresh'
    BY <2>1, <2>2, <2>3, <2>4, <2>10, NewVersion
  <2> QED
    BY <2>7, <2>9, <2>11
<1> QED
  BY <1>1, <1>2

\* What begins to write the account, switches it, or only lets time pass.
LEMMA QuietSteps ==
    ASSUME SessionsSafe,
           \/ \E t \in Tabs : begin_change_password(t)
           \/ \E c \in Clerks : begin_reset_password(c) \/ begin_departure(c)
           \/ switch_account \/ \E s \in SessionIds : grace_passes(s) \/ expire(s)
    PROVE  SessionsSafe'
<1> USE DEF SessionsSafe
<1>0. user \in Account
  BY DEF SessionTypeOK
<1>1. ASSUME NEW r \in Requesters, NEW op \in {"change", "reset", "departure"},
             request' = [request EXCEPT ![r] = to_write(op)],
             UNCHANGED <<user, session, cookie, access, committed_in, slipped, overlapped, troubled>>
      PROVE  SessionsSafe'
  <2> DEFINE q == to_write(op)
  <2>1. q \in RequestState /\ q.op = op /\ q.revokes = None
    BY <1>0, WritingStates
  <2>2. request' = [request EXCEPT ![r] = q]
    BY <1>1
  <2>3. troubled' \in BOOLEAN
    BY <1>1 DEF SessionTypeOK
  <2> HIDE DEF q
  <2> QED
    BY <1>1, <2>1, <2>2, <2>3, RequestMoves
<1>2. ASSUME NEW t \in Tabs, begin_change_password(t) PROVE SessionsSafe'
  BY <1>1, <1>2 DEF begin_change_password, Requesters
<1>3. ASSUME NEW c \in Clerks, begin_reset_password(c) \/ begin_departure(c) PROVE SessionsSafe'
  BY <1>1, <1>3 DEF begin_reset_password, begin_departure, Requesters
<1>4. CASE switch_account
  <2>1. user' \in Account /\ user'.version = user.version /\ user'.password = user.password
    BY <1>0, <1>4 DEF switch_account, Account
  <2>2. SessionTypeOK'
    BY <1>4, <2>1 DEF switch_account, SessionTypeOK
  <2>3. SessionsFresh'
    BY <1>4, <2>1 DEF switch_account, SessionsFresh, Good, Renews, revoking
  <2>4. TokensFresh'
    BY <1>4, <2>1 DEF switch_account, TokensFresh, InForce, answers
  <2> QED
    BY <2>2, <2>3, <2>4
<1>5. ASSUME NEW s \in SessionIds, grace_passes(s) PROVE SessionsSafe'
  <2>1. session' \in [SessionIds -> SessionStates] /\ \A x \in SessionIds : Good(x)' => Good(x)
    BY <1>5 DEF grace_passes, SessionTypeOK, SessionStates, Good
  <2>2. troubled' \in BOOLEAN
    BY <1>5 DEF grace_passes, SessionTypeOK
  <2> QED
    BY <1>5, <2>1, <2>2, SessionsEnd DEF grace_passes, SessionTypeOK
<1>6. ASSUME NEW s \in SessionIds, expire(s) PROVE SessionsSafe'
  <2>1. session' \in [SessionIds -> SessionStates] /\ \A x \in SessionIds : Good(x)' => Good(x)
    BY <1>6 DEF expire, SessionTypeOK, SessionStates, Good
  <2>2. cookie' \in [Devices -> RefreshToken \cup {None}] /\ \A d \in Devices : cookie'[d] \in {cookie[d], None}
    BY <1>6 DEF expire, SessionTypeOK
  <2> QED
    BY <1>6, <2>1, <2>2, SessionsEnd DEF expire, SessionTypeOK
<1> QED
  BY <1>2, <1>3, <1>4, <1>5, <1>6

\* What works was made under the password in force.
LEMMA SessionsAreSafe == SessionsSpec => []SessionsSafe
<1>1. SessionsInit => SessionsSafe
  <2> SUFFICES ASSUME SessionsInit PROVE SessionsSafe
    OBVIOUS
  <2>1. user \in Account /\ FALSE \in BOOLEAN /\ 0 \in Nat
    BY DEF SessionsInit, Account
  <2>2. request \in [Requesters -> RequestState] /\ \A r \in Requesters : request[r].op = "none"
    BY RequestStates DEF SessionsInit, idle
  <2>3. SessionTypeOK
    BY <2>1, <2>2 DEF SessionsInit, SessionTypeOK, SessionStates
  <2>4. answers = {}
    BY <2>2 DEF answers, Requesters
  <2> QED
    BY <2>2, <2>3, <2>4 DEF SessionsInit, SessionsSafe, SessionsFresh, Good, TokensFresh
<1>2. SessionsSafe /\ [SessionsNext]_session_vars => SessionsSafe'
  <2>1. SessionsSafe /\ UNCHANGED session_vars => SessionsSafe'
    BY DEF session_vars, SessionsSafe, SessionTypeOK, SessionsFresh, Good, Renews, revoking, TokensFresh, InForce, answers
  <2>2. SessionsSafe /\ SessionsNext => SessionsSafe'
    BY TabSteps, TokenSteps, UpdateStep, CommitSteps, QuietSteps DEF SessionsNext
  <2> QED
    BY <2>1, <2>2
<1> QED
  BY <1>1, <1>2, PTL DEF SessionsSpec

\* No refresh and no access token that still works was issued before the last change or reset of the
\* password was committed, nor is its session older than that commit unless it slipped through between
\* the UPDATE of the sessions and the commit.
THEOREM TokensEndWithPassword == SessionsSpec => []NoTokenOutlivesPassword
<1>1. ASSUME SessionsSafe, ~overlapped, NEW t \in Tabs, get_current_user(t)
      PROVE  access[t].issued_in = user.password
  BY <1>1 DEF get_current_user, SessionsSafe, TokensFresh, InForce
<1>2. ASSUME SessionsSafe, ~overlapped, NEW token \in tokens, refreshable(token)
      PROVE  /\ token.issued_in = user.password
             /\ committed_in[token.session] = user.password \/ token.session \in slipped
  <2>1. token.session \in SessionIds
    BY <1>2, RequestStates DEF tokens, answers, SessionsSafe, SessionTypeOK, RefreshToken, Requesters
  <2>2. InForce(token)
    BY <1>2 DEF tokens, SessionsSafe, TokensFresh
  <2> QED
    BY <1>2, <2>1, <2>2 DEF refreshable, InForce, SessionsSafe, SessionsFresh, Good
<1>3. SessionsSafe => NoTokenOutlivesPassword
  BY <1>1, <1>2 DEF NoTokenOutlivesPassword
<1> QED
  BY <1>3, SessionsAreSafe, PTL
-----------------------------------------------------------------------------
(* Where a session is known: in the jar of a device, in a tab that is      *)
(* refreshing it, or in a request that brings it to a jar.                 *)

InJar(d, s) == cookie[d] # None /\ cookie[d].session = s
Refreshes(t, s) == request[t].op \in {"refresh", "rotate"} /\ request[t].session = s
Bringing(q, s) == \/ q.op = "granted" /\ q.session = s
                  \/ q.op = "answer" /\ q.cookie # None /\ q.cookie.session = s
Brings(t, s) == Bringing(request[t], s)

\* A session on its way to a jar is live and known nowhere else; a session in a jar is live, or was
\* rotated by a tab of the same device, which is about to bring its successor.  Nobody is taken for a thief.
Known ==
    /\ \A t \in Tabs : request[t].op # "theft"
    /\ \A t \in Tabs, s \in SessionIds : Refreshes(t, s) => session[s] \in {"live", "rotated"}
    /\ \A t \in Tabs, s \in SessionIds : Brings(t, s) =>
          /\ session[s] = "live"
          /\ \A d \in Devices : ~InJar(d, s)
          /\ \A x \in Tabs : ~Refreshes(x, s) /\ (Brings(x, s) => x = t)
    /\ \A d \in Devices, s \in SessionIds : InJar(d, s) =>
          /\ \/ session[s] = "live"
             \/ session[s] = "rotated" /\ \E t \in Tabs, new \in SessionIds : DeviceOf[t] = d /\ Brings(t, new)
          /\ \A t \in Tabs : Refreshes(t, s) => DeviceOf[t] = d
          /\ \A e \in Devices : InJar(e, s) => e = d

JarsSound == ~troubled => Known

\* A request that begins, moves on or ends without a session changes nothing of that.
LEMMA KnownStays ==
    ASSUME SessionTypeOK, Known, NEW r \in Requesters, NEW q, request' = [request EXCEPT ![r] = q],
           q.op \notin {"refresh", "rotate", "theft"}, \A s \in SessionIds : ~Bringing(q, s) /\ ~Bringing(request[r], s),
           UNCHANGED <<session, cookie>>
    PROVE  Known'
<1>1. /\ \A x \in Tabs, s \in SessionIds : /\ Refreshes(x, s)' => Refreshes(x, s)
                                           /\ Brings(x, s)' <=> Brings(x, s)
      /\ \A x \in Tabs : request'[x].op # "theft"
  <2>1. \A s \in SessionIds : ~Brings(r, s)
    BY DEF Brings
  <2>2. \A x \in Tabs : request[x].op # "theft"
    BY DEF Known
  <2> QED
    BY <2>1, <2>2 DEF SessionTypeOK, Requesters, Refreshes, Brings
<1>2. \A d \in Devices, s \in SessionIds : InJar(d, s)' <=> InJar(d, s)
  BY DEF InJar
<1> QED
  BY <1>1, <1>2 DEF Known

\* A login puts a session on its way that nobody knows yet.
LEMMA LoginKnown ==
    ASSUME SessionTypeOK, Known, NEW t \in Tabs, commit_login(t)
    PROVE  Known'
<1>1. PICK new \in unused :
        /\ session' = [session EXCEPT ![new] = "live"]
        /\ request' = [request EXCEPT ![t] = granted(new)]
  BY DEF commit_login
<1>2. new \in SessionIds /\ session[new] = "unused" /\ cookie' = cookie /\ t \in Requesters
  BY DEF unused, commit_login, Requesters
<1>3. granted(new).op = "granted" /\ \A s \in SessionIds : Bringing(granted(new), s) <=> s = new
  BY DEF granted, Bringing
<1>4. /\ \A x \in Tabs, s \in SessionIds : Refreshes(x, s)' => Refreshes(x, s)
      /\ \A x \in Tabs, s \in SessionIds : Brings(x, s)' => Brings(x, s) \/ (x = t /\ s = new)
      /\ \A x \in Tabs, s \in SessionIds : Brings(x, s) => Brings(x, s)'
      /\ \A x \in Tabs : request'[x].op # "theft"
  <2>1. \A s \in SessionIds : ~Brings(t, s)
    BY DEF commit_login, Brings, Bringing
  <2>2. \A x \in Tabs : request[x].op # "theft"
    BY DEF Known
  <2> QED
    BY <1>1, <1>2, <1>3, <2>1, <2>2 DEF SessionTypeOK, Requesters, Refreshes, Brings
<1>5. \A d \in Devices, s \in SessionIds : InJar(d, s)' <=> InJar(d, s)
  BY <1>2 DEF InJar
<1>6. /\ \A d \in Devices : ~InJar(d, new)
      /\ \A x \in Tabs : ~Refreshes(x, new) /\ ~Brings(x, new)
  BY <1>2 DEF Known
<1>7. \A s \in SessionIds : session'[s] = IF s = new THEN "live" ELSE session[s]
  BY <1>1, <1>2 DEF SessionTypeOK
<1> QED
  BY <1>2, <1>4, <1>5, <1>6, <1>7 DEF Known

\* A refresh starts from the jar of its device.
LEMMA RefreshBegun ==
    ASSUME SessionTypeOK, Known, NEW t \in Tabs, begin_refresh(t)
    PROVE  Known'
<1> DEFINE s0 == cookie[DeviceOf[t]].session
           q == [op |-> "refresh", session |-> s0]
<1>1. DeviceOf[t] \in Devices /\ InJar(DeviceOf[t], s0) /\ s0 \in SessionIds /\ t \in Requesters
  BY SessionAssumption DEF begin_refresh, InJar, SessionTypeOK, RefreshToken, Requesters
<1>2. request' = [request EXCEPT ![t] = q] /\ request[t].op = "none" /\ UNCHANGED <<session, cookie>>
  BY DEF begin_refresh, idle
<1>3. q.op = "refresh" /\ q.session = s0 /\ \A s \in SessionIds : ~Bringing(q, s)
  BY DEF Bringing
<1> HIDE DEF s0, q
<1>4. /\ \A x \in Tabs, s \in SessionIds : Refreshes(x, s)' => Refreshes(x, s) \/ (x = t /\ s = s0)
      /\ \A x \in Tabs, s \in SessionIds : Brings(x, s)' <=> Brings(x, s)
      /\ \A x \in Tabs : request'[x].op # "theft"
  <2>1. \A s \in SessionIds : ~Brings(t, s)
    BY <1>2 DEF Brings, Bringing
  <2>2. \A x \in Tabs : request[x].op # "theft"
    BY DEF Known
  <2> QED
    BY <1>1, <1>2, <1>3, <2>1, <2>2 DEF SessionTypeOK, Requesters, Refreshes, Brings
<1>5. \A d \in Devices, s \in SessionIds : InJar(d, s)' <=> InJar(d, s)
  BY <1>2 DEF InJar
<1> QED
  BY <1>1, <1>2, <1>4, <1>5 DEF Known

\* A refresh never meets a dead session.
LEMMA RotationBegun ==
    ASSUME SessionTypeOK, Known, NEW t \in Tabs, rotate_session(t)
    PROVE  Known'
<1> DEFINE s0 == request[t].session
<1>1. s0 \in SessionIds /\ Refreshes(t, s0) /\ request[t].op = "refresh" /\ t \in Requesters
  BY RequestStates DEF rotate_session, SessionTypeOK, Refreshes, Requesters
<1>2. session[s0] \in {"live", "rotated"}
  BY <1>1 DEF Known
<1>3. \A s \in SessionIds : ~Bringing(request[t], s)
  BY <1>1 DEF Bringing
<1>4. CASE session[s0] = "rotated"
  <2>1. request' = [request EXCEPT ![t] = granted(None)] /\ UNCHANGED <<session, cookie>>
    BY <1>4 DEF rotate_session
  <2>2. granted(None).op = "granted" /\ \A s \in SessionIds : ~Bringing(granted(None), s)
    BY SessionAssumption DEF granted, Bringing
  <2> QED
    BY <1>1, <1>3, <2>1, <2>2, KnownStays
<1>5. CASE session[s0] = "live"
  <2> DEFINE q == [op |-> "rotate", session |-> s0]
  <2>1. request' = [request EXCEPT ![t] = q] /\ UNCHANGED <<session, cookie>>
    BY <1>5 DEF rotate_session
  <2>2. q.op = "rotate" /\ q.session = s0 /\ \A s \in SessionIds : ~Bringing(q, s)
    BY DEF Bringing
  <2> HIDE DEF q
  <2>3. /\ \A x \in Tabs, s \in SessionIds : /\ Refreshes(x, s)' <=> Refreshes(x, s)
                                             /\ Brings(x, s)' <=> Brings(x, s)
        /\ \A x \in Tabs : request'[x].op # "theft"
    <3>1. \A x \in Tabs : request[x].op # "theft"
      BY DEF Known
    <3>2. \A s \in SessionIds : ~Brings(t, s) /\ (Refreshes(t, s) <=> s = s0)
      BY <1>1, <1>3 DEF Brings, Refreshes
    <3> QED
      BY <1>1, <2>1, <2>2, <3>1, <3>2 DEF SessionTypeOK, Requesters, Refreshes, Brings
  <2>4. \A d \in Devices, s \in SessionIds : InJar(d, s)' <=> InJar(d, s)
    BY <2>1 DEF InJar
  <2> QED
    BY <2>1, <2>3, <2>4 DEF Known
<1> QED
  BY <1>2, <1>4, <1>5

\* A rotation puts the successor on its way to the jar that holds the old session.
LEMMA RotationKnown ==
    ASSUME SessionTypeOK, Known, NEW t \in Tabs, commit_refresh(t)
    PROVE  Known'
<1> DEFINE old == request[t].session
<1>1. PICK new \in unused :
        /\ session' = superseded(session, old, new)
        /\ request' = [request EXCEPT ![t] = granted(new)]
  BY DEF commit_refresh
<1>2. new \in SessionIds /\ session[new] = "unused" /\ cookie' = cookie /\ t \in Requesters
  BY DEF unused, commit_refresh, Requesters
<1>3. old \in SessionIds /\ Refreshes(t, old) /\ session[old] \in {"live", "rotated"} /\ old # new
  <2>1. old \in SessionIds /\ Refreshes(t, old)
    BY <1>2, RequestStates DEF commit_refresh, SessionTypeOK, Refreshes
  <2> QED
    BY <1>2, <2>1 DEF Known
<1>4. granted(new).op = "granted" /\ \A s \in SessionIds : Bringing(granted(new), s) <=> s = new
  BY DEF granted, Bringing
<1>5. request[t].op = "rotate"
  BY DEF commit_refresh
<1>6. \A s \in SessionIds :
        session'[s] = IF s = new THEN "live" ELSE IF s = old THEN "rotated" ELSE session[s]
  BY <1>1, <1>2, <1>3 DEF superseded, SessionTypeOK
<1> HIDE DEF old
<1>7. /\ \A x \in Tabs, s \in SessionIds : Refreshes(x, s)' => Refreshes(x, s)
      /\ \A x \in Tabs, s \in SessionIds : Brings(x, s)' <=> Brings(x, s) \/ (x = t /\ s = new)
      /\ \A x \in Tabs : request'[x].op # "theft"
  <2>1. \A s \in SessionIds : ~Brings(t, s)
    BY <1>5 DEF Brings, Bringing
  <2>2. \A x \in Tabs : request[x].op # "theft"
    BY DEF Known
  <2> QED
    BY <1>1, <1>2, <1>4, <2>1, <2>2 DEF SessionTypeOK, Requesters, Refreshes, Brings
<1>8. \A d \in Devices, s \in SessionIds : InJar(d, s)' <=> InJar(d, s)
  BY <1>2 DEF InJar
<1>9. /\ \A d \in Devices : ~InJar(d, new)
      /\ \A x \in Tabs : ~Refreshes(x, new) /\ ~Brings(x, new) /\ ~Brings(x, old)
  BY <1>2, <1>3 DEF Known
<1>10. \A d \in Devices : InJar(d, old) => DeviceOf[t] = d
  BY <1>3 DEF Known
<1>11. \A x \in Tabs, s \in SessionIds : Refreshes(x, s)' => session'[s] \in {"live", "rotated"}
  BY <1>6, <1>7 DEF Known
<1>12. ASSUME NEW x \in Tabs, NEW s \in SessionIds, Brings(x, s)'
       PROVE  /\ session'[s] = "live"
              /\ \A d \in Devices : ~InJar(d, s)'
              /\ \A y \in Tabs : ~Refreshes(y, s)' /\ (Brings(y, s)' => y = x)
  BY <1>6, <1>7, <1>8, <1>9, <1>12 DEF Known
<1>13. ASSUME NEW d \in Devices, NEW s \in SessionIds, InJar(d, s)'
       PROVE  /\ \/ session'[s] = "live"
                 \/ session'[s] = "rotated" /\ \E x \in Tabs, n \in SessionIds : DeviceOf[x] = d /\ Brings(x, n)'
              /\ \A x \in Tabs : Refreshes(x, s)' => DeviceOf[x] = d
              /\ \A e \in Devices : InJar(e, s)' => e = d
  BY <1>2, <1>6, <1>7, <1>8, <1>9, <1>10, <1>13 DEF Known
<1> QED
  BY <1>7, <1>11, <1>12, <1>13 DEF Known

\* The tokens are made of the session that was granted.
LEMMA IssueKnown ==
    ASSUME SessionTypeOK, Known, NEW t \in Tabs, issue_response(t)
    PROVE  Known'
<1> DEFINE s0 == request[t].session
           q == answer(s0)
<1>1. t \in Requesters /\ request[t].op = "granted" /\ s0 \in SessionIds \cup {None}
  BY RequestStates DEF issue_response, SessionTypeOK, Requesters
<1>2. q.op = "answer" /\ \A s \in SessionIds : Bringing(q, s) <=> Bringing(request[t], s)
  <2>1. PICK x \in SessionIds \cup {None} : x = s0
    BY <1>1
  <2>2. /\ answer(x).op = "answer" /\ (answer(x).cookie # None <=> x # None)
        /\ x # None => answer(x).cookie.session = x
    BY Answered DEF SessionTypeOK
  <2>3. \A s \in SessionIds : Bringing(answer(x), s) <=> s = x
    BY <2>2, SessionAssumption DEF Bringing
  <2>4. \A s \in SessionIds : Bringing(request[t], s) <=> s = s0
    BY <1>1 DEF Bringing
  <2> QED
    BY <2>1, <2>2, <2>3, <2>4
<1>3. request' = [request EXCEPT ![t] = q] /\ UNCHANGED <<session, cookie>>
  BY DEF issue_response
<1> HIDE DEF s0, q
<1>4. /\ \A x \in Tabs, s \in SessionIds : /\ Refreshes(x, s)' => Refreshes(x, s)
                                           /\ Brings(x, s)' <=> Brings(x, s)
      /\ \A x \in Tabs : request'[x].op # "theft"
  <2>1. \A x \in Tabs : request[x].op # "theft"
    BY DEF Known
  <2>2. \A s \in SessionIds : Brings(t, s) <=> Bringing(request[t], s)
    BY DEF Brings
  <2> QED
    BY <1>1, <1>2, <1>3, <2>1, <2>2 DEF SessionTypeOK, Requesters, Refreshes, Brings
<1>5. \A d \in Devices, s \in SessionIds : InJar(d, s)' <=> InJar(d, s)
  BY <1>3 DEF InJar
<1> QED
  BY <1>3, <1>4, <1>5 DEF Known

\* The browser takes the answer: the jar now holds what was on its way to it.
LEMMA AnswerTaken ==
    ASSUME SessionTypeOK, Known, NEW t \in Tabs, receive(t)
    PROVE  Known'
<1>1. /\ request' = [request EXCEPT ![t] = idle] /\ session' = session /\ request[t].op = "answer"
      /\ t \in Requesters /\ idle.op = "none" /\ \A s \in SessionIds : ~Bringing(idle, s)
  BY DEF receive, Requesters, idle, Bringing
<1>2. CASE request[t].cookie = None
  <2>1. cookie' = cookie /\ \A s \in SessionIds : ~Bringing(request[t], s)
    BY <1>1, <1>2 DEF receive, Bringing
  <2> QED
    BY <1>1, <2>1, KnownStays
<1>3. CASE request[t].cookie # None
  <2> DEFINE new == request[t].cookie.session
             device == DeviceOf[t]
  <2>1. /\ cookie' = [cookie EXCEPT ![device] = request[t].cookie]
        /\ new \in SessionIds /\ device \in Devices /\ Brings(t, new)
    BY <1>1, <1>3, RequestStates, SessionAssumption DEF receive, SessionTypeOK, RefreshToken, Brings, Bringing
  <2>2. /\ \A x \in Tabs, s \in SessionIds : Refreshes(x, s)' => Refreshes(x, s)
        /\ \A x \in Tabs, s \in SessionIds : Brings(x, s)' <=> Brings(x, s) /\ x # t
        /\ \A x \in Tabs : request'[x].op # "theft"
    <3>1. \A x \in Tabs : request[x].op # "theft"
      BY DEF Known
    <3> QED
      BY <1>1, <3>1 DEF SessionTypeOK, Requesters, Refreshes, Brings
  <2>3. \A d \in Devices, s \in SessionIds :
          InJar(d, s)' <=> IF d = device THEN s = new ELSE InJar(d, s)
    BY <1>3, <2>1 DEF InJar, SessionTypeOK
  <2> HIDE DEF new, device
  <2>4. /\ session[new] = "live" /\ \A d \in Devices : ~InJar(d, new)
        /\ \A x \in Tabs : ~Refreshes(x, new) /\ (Brings(x, new) => x = t)
    BY <2>1 DEF Known
  <2>6. \A x \in Tabs, s \in SessionIds : Refreshes(x, s)' => session'[s] \in {"live", "rotated"}
    BY <1>1, <2>2 DEF Known
  <2>7. ASSUME NEW x \in Tabs, NEW s \in SessionIds, Brings(x, s)'
        PROVE  /\ session'[s] = "live"
               /\ \A d \in Devices : ~InJar(d, s)'
               /\ \A y \in Tabs : ~Refreshes(y, s)' /\ (Brings(y, s)' => y = x)
    BY <1>1, <2>2, <2>3, <2>4, <2>7 DEF Known
  <2>8. ASSUME NEW d \in Devices, NEW s \in SessionIds, InJar(d, s)'
        PROVE  /\ \/ session'[s] = "live"
                  \/ session'[s] = "rotated" /\ \E x \in Tabs, n \in SessionIds : DeviceOf[x] = d /\ Brings(x, n)'
               /\ \A x \in Tabs : Refreshes(x, s)' => DeviceOf[x] = d
               /\ \A e \in Devices : InJar(e, s)' => e = d
    <3>1. CASE d = device
      BY <1>1, <2>2, <2>3, <2>4, <2>8, <3>1
    <3>2. CASE d # device
      <4>1. InJar(d, s) /\ s # new
        BY <2>3, <2>4, <2>8, <3>2
      <4>2. \A x \in Tabs : DeviceOf[x] = d => x # t
        BY <3>2 DEF device
      <4> QED
        BY <1>1, <2>2, <2>3, <4>1, <4>2 DEF Known
    <3> QED
      BY <3>1, <3>2
  <2> QED
    BY <2>2, <2>6, <2>7, <2>8 DEF Known
<1> QED
  BY <1>2, <1>3

\* While nobody is under way, jars hold live sessions only, and an expired one leaves its jar.
LEMMA ExpiryKnown ==
    ASSUME SessionTypeOK, Known, NEW s0 \in SessionIds, expire(s0)
    PROVE  Known'
<1>1. \A t \in Tabs, s \in SessionIds : ~Refreshes(t, s) /\ ~Brings(t, s) /\ ~Refreshes(t, s)' /\ ~Brings(t, s)'
  BY DEF expire, Refreshes, Brings, Bringing, idle
<1>2. \A d \in Devices, s \in SessionIds : InJar(d, s)' <=> InJar(d, s) /\ s # s0
  BY DEF expire, InJar
<1>3. \A s \in SessionIds : s # s0 => session'[s] = session[s]
  BY DEF expire, SessionTypeOK
<1> QED
  BY <1>1, <1>2, <1>3 DEF Known, expire

\* The grace that runs out while nobody is under way is that of a session in no jar.
LEMMA GraceKnown ==
    ASSUME SessionTypeOK, Known, NEW s0 \in SessionIds, grace_passes(s0), ~troubled'
    PROVE  Known'
<1>1. \A t \in Tabs : request[t].op \notin {"refresh", "rotate", "granted", "answer"}
  BY DEF grace_passes
<1>2. \A t \in Tabs, s \in SessionIds : ~Refreshes(t, s) /\ ~Brings(t, s) /\ ~Refreshes(t, s)' /\ ~Brings(t, s)'
  BY <1>1 DEF grace_passes, Refreshes, Brings, Bringing
<1>3. \A d \in Devices, s \in SessionIds : InJar(d, s)' <=> InJar(d, s)
  BY DEF grace_passes, InJar
<1>4. session[s0] = "rotated" /\ \A s \in SessionIds : s # s0 => session'[s] = session[s]
  BY DEF grace_passes, SessionTypeOK
<1> QED
  BY <1>2, <1>3, <1>4 DEF Known, grace_passes

\* Where sessions are known, unless there was trouble.
LEMMA SessionsKnown == SessionsSpec => []JarsSound
<1>1. SessionsInit => JarsSound
  BY DEF SessionsInit, JarsSound, Known, InJar, Refreshes, Brings, Bringing, Requesters, idle
<1>2. ASSUME SessionTypeOK, JarsSound, [SessionsNext]_session_vars, ~troubled'
      PROVE  Known'
  <2>1. CASE UNCHANGED session_vars
    BY <1>2, <2>1 DEF session_vars, JarsSound, Known, InJar, Refreshes, Brings
  <2>2. ~troubled
    BY <1>2
       DEF session_vars, SessionsNext, begin_login, commit_login, begin_refresh, rotate_session, commit_refresh,
           commit_theft, issue_response, receive, lose_answer, logout, begin_change_password,
           commit_change_password, revoke_my_session, begin_reset_password, commit_reset_password,
           begin_departure, close_out_departure, revoke_sessions, switch_account, grace_passes, expire
  <2>3. Known
    BY <1>2, <2>2 DEF JarsSound
  <2>4. ASSUME NEW r \in Requesters, NEW q, request' = [request EXCEPT ![r] = q],
               q.op \in {"login", "change", "reset", "departure"},
               request[r].op \in {"none", "change", "reset", "departure"}, UNCHANGED <<session, cookie>>
        PROVE  Known'
    <3>1. \A s \in SessionIds : ~Bringing(q, s) /\ ~Bringing(request[r], s)
      BY <2>4 DEF Bringing
    <3> QED
      BY <1>2, <2>3, <2>4, <3>1, KnownStays
  <2>5. ASSUME NEW t \in Tabs, begin_login(t) PROVE Known'
    <3> DEFINE q == [op |-> "login"]
    <3>1. t \in Requesters /\ q.op = "login" /\ request[t].op = "none"
      BY <2>5 DEF begin_login, idle, Requesters
    <3>2. request' = [request EXCEPT ![t] = q] /\ UNCHANGED <<session, cookie>>
      BY <2>5 DEF begin_login
    <3> HIDE DEF q
    <3> QED
      BY <2>4, <3>1, <3>2
  <2>6. ASSUME NEW r \in Requesters, request[r] = idle, NEW op \in {"change", "reset", "departure"},
               request' = [request EXCEPT ![r] = to_write(op)], UNCHANGED <<session, cookie>>
        PROVE  Known'
    <3>1. to_write(op).op = op /\ request[r].op = "none"
      BY <2>6 DEF to_write, idle
    <3> QED
      BY <2>4, <2>6, <3>1
  <2>7. ASSUME \/ \E t \in Tabs : begin_change_password(t)
               \/ \E c \in Clerks : begin_reset_password(c) \/ begin_departure(c)
        PROVE  Known'
    BY <2>6, <2>7 DEF begin_change_password, begin_reset_password, begin_departure, Requesters
  <2>8. ASSUME NEW r \in Requesters, revoke_sessions(r) PROVE Known'
    <3>1. request[r] \in Writing /\ unrevoked \in SUBSET SessionIds
      BY <1>2, <2>8, RequestStates, Revoked DEF revoke_sessions, SessionTypeOK
    <3>2. [request[r] EXCEPT !.revokes = unrevoked].op = request[r].op
      BY <3>1, WritingStates
    <3> QED
      BY <2>4, <2>8, <3>2 DEF revoke_sessions
  <2>9. CASE switch_account
    BY <2>3, <2>9 DEF switch_account, Known, InJar, Refreshes, Brings
  <2>10. ASSUME \/ \E t \in Tabs : \/ lose_answer(t) \/ logout(t) \/ commit_change_password(t) \/ commit_theft(t)
                                    \/ \E s \in SessionIds : revoke_my_session(t, s)
                \/ \E c \in Clerks : commit_reset_password(c) \/ close_out_departure(c)
         PROVE  FALSE
    BY <1>2, <2>3, <2>10 DEF lose_answer, logout, commit_change_password, commit_theft, revoke_my_session,
                             commit_reset_password, close_out_departure, Known
  <2> QED
    BY <1>2, <2>1, <2>3, <2>5, <2>7, <2>8, <2>9, <2>10, LoginKnown, RefreshBegun, RotationBegun,
       RotationKnown, IssueKnown, AnswerTaken, ExpiryKnown, GraceKnown
       DEF SessionsNext
<1>3. SessionTypeOK /\ JarsSound /\ [SessionsNext]_session_vars => JarsSound'
  BY <1>2 DEF JarsSound
<1>4. SessionsSafe => SessionTypeOK
  BY DEF SessionsSafe
<1> QED
  BY <1>1, <1>3, <1>4, SessionsAreSafe, PTL DEF SessionsSpec

\* As long as answers arrive within the grace and nobody ends a session, the cookie in every jar can
\* be refreshed, however the refreshes of the tabs that share it overlap.
THEOREM JarsStayGood == SessionsSpec => []JarStaysGood
<1>1. ASSUME SessionTypeOK, Known, NEW t \in Tabs, NEW new \in SessionIds, Brings(t, new)
      PROVE  \/ /\ request[t].op = "granted" /\ request[t].session # None
                /\ session[request[t].session] = "live"
             \/ /\ request[t].op = "answer" /\ request[t].cookie # None
                /\ session[request[t].cookie.session] = "live"
  <2>1. session[new] = "live" /\ new # None
    BY <1>1, SessionAssumption DEF Known
  <2> QED
    BY <1>1, <2>1 DEF Brings, Bringing
<1>2. ASSUME SessionTypeOK, JarsSound, ~troubled, NEW d \in Devices, cookie[d] # None,
             session[cookie[d].session] # "live"
      PROVE  /\ session[cookie[d].session] = "rotated"
             /\ \E t \in Tabs, new \in SessionIds : DeviceOf[t] = d /\ Brings(t, new)
  <2>1. cookie[d].session \in SessionIds /\ InJar(d, cookie[d].session)
    BY <1>2 DEF SessionTypeOK, RefreshToken, InJar
  <2> QED
    BY <1>2, <2>1 DEF JarsSound, Known
<1>3. ASSUME SessionTypeOK, JarsSound PROVE JarStaysGood
  BY <1>1, <1>2, <1>3 DEF JarStaysGood, JarsSound
<1>4. SessionsSafe => SessionTypeOK
  BY DEF SessionsSafe
<1> QED
  BY <1>3, <1>4, SessionsAreSafe, SessionsKnown, PTL
-----------------------------------------------------------------------------
Attempts == [failed_count : Nat, last_failed : Nat, until : Nat]
LoginState == {away} \cup [at : {"verifying"}]
              \cup [at : {"failing"}, read : Attempts \cup {NoRow}, when : Nat]

\* Every table keeps its type.
GuardTypeOK ==
    /\ now \in Nat
    /\ attempts \in Attempts \cup {NoRow}
    /\ login \in [Logins -> LoginState]
    /\ failures \in Seq(Nat) /\ locked_by \in Seq(Nat)
    /\ crossed \in BOOLEAN

\* n failures at the end of the sequence hang together, and no more.
Run(times, n) ==
    /\ n \in 0 .. Len(times)
    /\ \A i \in Len(times) + 2 - n .. Len(times) : times[i] <= times[i - 1] + Window
    /\ n < Len(times) => n > 0 /\ times[Len(times) + 1 - n] > times[Len(times) - n] + Window

\* The last failure of the history.
last_failure == failures[Len(failures)]

\* What the row means.
Means ==
    IF attempts = NoRow
    THEN failures # <<>> => last_failure + Window < now
    ELSE /\ attempts.failed_count < MaxAttempts
         /\ attempts.last_failed <= now
         /\ attempts.until <= attempts.last_failed + Lockout
         /\ IF failures = <<>> THEN attempts.failed_count = 0
            ELSE attempts.last_failed = last_failure /\ Run(failures, attempts.failed_count)

\* What is known as long as no failure was written over a row its request had not seen.
GuardSound ==
    /\ \A l \in Logins : login[l].at = "failing" => login[l].when = now
    /\ ~crossed => Means /\ (locked_by # <<>> => Run(locked_by, MaxAttempts))
-----------------------------------------------------------------------------
\* The failures that hang together at the end of a sequence have one number.
LEMMA RunIsRunLength ==
    ASSUME NEW times \in Seq(Nat), NEW n, Run(times, n)
    PROVE  run_length(times) = n
<1>2. ASSUME NEW m, Run(times, m), NEW k, Run(times, k), m < k
      PROVE  FALSE
  <2> DEFINE L == Len(times)
             i == L + 1 - m
  <2>1. m > 0 /\ times[L + 1 - m] > times[L - m] + Window
    BY <1>2 DEF Run
  <2>2. i \in L + 2 - k .. L
    BY <1>2, <2>1 DEF Run
  <2>3. times[i] <= times[i - 1] + Window
    BY <1>2, <2>2 DEF Run
  <2>4. i \in 1 .. L /\ i - 1 \in 1 .. L /\ i - 1 = L - m
    BY <1>2, <2>1 DEF Run
  <2>5. times[i] \in Nat /\ times[i - 1] \in Nat
    BY <2>4
  <2> QED
    BY <2>1, <2>3, <2>4, <2>5, GuardAssumption
<1>3. \A m \in 0 .. Len(times) : Run(times, m) => m = n
  <2> SUFFICES ASSUME NEW m \in 0 .. Len(times), Run(times, m) PROVE m = n
    OBVIOUS
  <2>1. n \in Nat /\ m \in Nat
    BY DEF Run
  <2> QED
    BY <1>2, <2>1
<1>4. run_length(times) = CHOOSE m \in 0 .. Len(times) : Run(times, m)
  BY DEF run_length, Run
<1>5. n \in 0 .. Len(times)
  BY DEF Run
<1> QED
  BY <1>3, <1>4, <1>5

\* One more failure within the window lengthens the run; after a longer pause it starts a new one.
LEMMA RunGrows ==
    ASSUME NEW times \in Seq(Nat), NEW when \in Nat, NEW n \in Nat
    PROVE  /\ times = <<>> => Run(Append(times, when), 1)
           /\ times # <<>> /\ when > times[Len(times)] + Window => Run(Append(times, when), 1)
           /\ times # <<>> /\ when <= times[Len(times)] + Window /\ Run(times, n)
                => Run(Append(times, when), n + 1)
<1> DEFINE longer == Append(times, when)
           L == Len(times)
<1>1. /\ L \in Nat /\ Len(longer) = L + 1 /\ longer[L + 1] = when
      /\ \A i \in 1 .. L : longer[i] = times[i]
  OBVIOUS
<1> HIDE DEF longer
<1>2. ASSUME times = <<>> PROVE Run(longer, 1)
  BY <1>1, <1>2 DEF Run
<1>3. ASSUME times # <<>>, when > times[L] + Window PROVE Run(longer, 1)
  <2>1. L > 0
    BY <1>3
  <2> QED
    BY <1>1, <1>3, <2>1 DEF Run
<1>4. ASSUME times # <<>>, when <= times[L] + Window, Run(times, n) PROVE Run(longer, n + 1)
  <2>1. L > 0 /\ n > 0 /\ n <= L
    BY <1>4 DEF Run
  <2>2. ASSUME NEW i \in L + 1 + 2 - (n + 1) .. L + 1
        PROVE  longer[i] <= longer[i - 1] + Window
    <3>1. CASE i = L + 1
      <4>1. i - 1 = L /\ L \in 1 .. L
        BY <1>1, <2>1, <3>1
      <4>2. longer[i] = when /\ longer[i - 1] = times[L]
        BY <1>1, <3>1, <4>1
      <4> QED
        BY <1>4, <4>2
    <3>2. CASE i # L + 1
      <4>1. i \in L + 2 - n .. L /\ i \in 1 .. L /\ i - 1 \in 1 .. L
        BY <2>1, <3>2
      <4> QED
        BY <1>1, <1>4, <4>1 DEF Run
    <3> QED
      BY <3>1, <3>2
  <2>3. ASSUME n + 1 < L + 1
        PROVE  longer[L + 1 + 1 - (n + 1)] > longer[L + 1 - (n + 1)] + Window
    <3>1. L + 1 - n \in 1 .. L /\ L - n \in 1 .. L
      BY <2>1, <2>3
    <3>2. times[L + 1 - n] > times[L - n] + Window
      BY <1>4, <2>3 DEF Run
    <3>3. L + 1 + 1 - (n + 1) = L + 1 - n /\ L + 1 - (n + 1) = L - n
      BY <2>1
    <3> QED
      BY <1>1, <3>1, <3>2, <3>3
  <2>4. n + 1 \in 0 .. L + 1 /\ n + 1 > 0
    BY <1>1, <2>1
  <2>5. Len(longer) = L + 1 /\ L \in Nat /\ n \in Nat
    BY <1>1, <2>1, <1>4 DEF Run
  <2> HIDE DEF L
  <2> QED
    BY <2>2, <2>3, <2>4, <2>5 DEF Run
<1> QED
  BY <1>2, <1>3, <1>4 DEF longer
-----------------------------------------------------------------------------
\* The row after a failure is a row.
LEMMA AfterFailureTyped ==
    ASSUME NEW row \in Attempts \cup {NoRow}, NEW when \in Nat
    PROVE  counted(row, when) \in Attempts /\ after_failure(row, when) \in Attempts
<1>1. counted(row, when) \in Attempts
  <2>1. [failed_count |-> 1, last_failed |-> when, until |-> 0] \in Attempts
    BY DEF Attempts
  <2>2. row \in Attempts => [row EXCEPT !.failed_count = row.failed_count + 1, !.last_failed = when] \in Attempts
    <3>1. row \in Attempts => row.failed_count + 1 \in Nat
      BY DEF Attempts
    <3> QED
      BY <3>1 DEF Attempts
  <2> QED
    BY <2>1, <2>2 DEF counted
<1>2. ASSUME NEW next \in Attempts
      PROVE  [next EXCEPT !.failed_count = 0, !.until = when + Lockout] \in Attempts
  <2>1. when + Lockout \in Nat
    BY GuardAssumption
  <2> QED
    BY <1>2, <2>1 DEF Attempts
<1> QED
  BY <1>1, <1>2 DEF after_failure

\* A row written over the one that was read is the next row.
LEMMA WrittenInOrder ==
    ASSUME NEW next \in Attempts, attempts \in Attempts \cup {NoRow}
    PROVE  write(attempts, next) = next
<1>1. CASE attempts = NoRow
  BY <1>1 DEF write
<1>2. CASE attempts # NoRow
  <2>1. write(attempts, next) = [column \in DOMAIN next |-> next[column]]
    BY <1>2 DEF write
  <2>2. next = [column \in DOMAIN next |-> next[column]]
    BY DEF Attempts
  <2> QED
    BY <2>1, <2>2
<1> QED
  BY <1>1, <1>2

\* Whatever row it is written over, what a failure writes is a row.
LEMMA WrittenTyped ==
    ASSUME NEW next \in Attempts, NEW read \in Attempts \cup {NoRow}, attempts \in Attempts \cup {NoRow},
           (read = NoRow) <=> (attempts = NoRow)
    PROVE  write(read, next) \in Attempts
<1>1. CASE read = NoRow
  BY <1>1 DEF write
<1>2. CASE read # NoRow
  <2>1. attempts \in Attempts /\ read \in Attempts
    BY <1>2
  <2>2. DOMAIN next = {"failed_count", "last_failed", "until"}
    BY DEF Attempts
  <2>3. write(read, next) = [column \in {"failed_count", "last_failed", "until"} |->
                               IF next[column] = read[column] THEN attempts[column] ELSE next[column]]
    BY <1>2, <2>2 DEF write
  <2>4. \A column \in {"failed_count", "last_failed", "until"} : next[column] \in Nat /\ attempts[column] \in Nat
    BY <2>1 DEF Attempts
  <2> QED
    BY <2>3, <2>4 DEF Attempts
<1> QED
  BY <1>1, <1>2

\* One more failure: what the row says of the history it says of the longer one, and at the
\* threshold the whole history has earned the lock.
LEMMA FailureCounts ==
    ASSUME GuardTypeOK, Means
    PROVE  LET next == counted(attempts, now)
           IN  /\ Run(Append(failures, now), next.failed_count)
               /\ next.failed_count <= MaxAttempts
               /\ next.last_failed = now
               /\ next.until <= now + Lockout
<1> DEFINE next == counted(attempts, now)
<1>0. now \in Nat /\ failures \in Seq(Nat) /\ Window \in Nat /\ Lockout \in Nat /\ MaxAttempts \in Nat \ {0}
  BY GuardAssumption DEF GuardTypeOK
<1>1. CASE attempts = NoRow
  <2>1. next = [failed_count |-> 1, last_failed |-> now, until |-> 0]
    BY <1>1 DEF counted
  <2>2. failures # <<>> => now > failures[Len(failures)] + Window
    <3>1. ASSUME failures # <<>> PROVE failures[Len(failures)] \in Nat
      BY <1>0, <3>1
    <3> QED
      BY <1>0, <1>1, <3>1 DEF Means, last_failure
  <2>3. Run(Append(failures, now), 1)
    BY <1>0, <2>2, RunGrows
  <2> QED
    BY <1>0, <2>1, <2>3
<1>2. CASE attempts # NoRow /\ attempts.last_failed + Window < now
  <2>1. next = [failed_count |-> 1, last_failed |-> now, until |-> 0]
    BY <1>2 DEF counted
  <2>2. failures # <<>> => now > failures[Len(failures)] + Window
    BY <1>0, <1>2 DEF Means, last_failure
  <2>3. Run(Append(failures, now), 1)
    BY <1>0, <2>2, RunGrows
  <2> QED
    BY <1>0, <2>1, <2>3
<1>3. CASE attempts # NoRow /\ ~(attempts.last_failed + Window < now)
  <2>1. attempts \in Attempts
    BY <1>3 DEF GuardTypeOK
  <2>2. next = [attempts EXCEPT !.failed_count = @ + 1, !.last_failed = now]
    BY <1>3 DEF counted
  <2>3. /\ next.failed_count = attempts.failed_count + 1
        /\ next.last_failed = now
        /\ next.until = attempts.until
    BY <2>1, <2>2 DEF Attempts
  <2>4. next.failed_count <= MaxAttempts /\ next.until <= now + Lockout
    BY <1>0, <1>3, <2>1, <2>3 DEF Means, Attempts
  <2>5. CASE failures = <<>>
    <3>1. next.failed_count = 1
      BY <1>3, <2>3, <2>5 DEF Means
    <3> QED
      BY <1>0, <2>3, <2>4, <2>5, <3>1, RunGrows
  <2>6. CASE failures # <<>>
    <3>1. now <= failures[Len(failures)] + Window /\ Run(failures, attempts.failed_count)
      BY <1>0, <1>3, <2>1, <2>6 DEF Means, last_failure, Attempts
    <3>2. attempts.failed_count \in Nat
      BY <2>1 DEF Attempts
    <3> QED
      BY <1>0, <2>3, <2>4, <2>6, <3>1, <3>2, RunGrows
  <2> QED
    BY <2>5, <2>6
<1> QED
  BY <1>1, <1>2, <1>3

\* A failure written over the row it has read leaves a row that means what it says.
LEMMA FailureStep ==
    ASSUME GuardTypeOK, GuardSound, NEW l \in Logins, record_failure(l), ~crossed'
    PROVE  Means' /\ (locked_by' # <<>> => Run(locked_by', MaxAttempts))
<1> DEFINE next == counted(attempts, now)
<1>0. /\ now' = now /\ now \in Nat /\ Lockout \in Nat /\ MaxAttempts \in Nat \ {0}
      /\ failures \in Seq(Nat) /\ ~crossed /\ login[l].when = now
  BY GuardAssumption DEF record_failure, GuardTypeOK, GuardSound
<1>1. CASE UNCHANGED <<attempts, failures, locked_by, crossed>>
  BY <1>0, <1>1 DEF GuardSound, Means, last_failure
<1>2. CASE ~UNCHANGED <<attempts, failures, locked_by, crossed>>
  <2>1. /\ attempts' = write(login[l].read, after_failure(login[l].read, now))
        /\ failures' = IF locks(login[l].read, now) THEN <<>> ELSE Append(failures, now)
        /\ locked_by' = IF locks(login[l].read, now) THEN Append(failures, now) ELSE locked_by
        /\ login[l].read = attempts
    BY <1>0, <1>2 DEF record_failure
  <2>2. attempts' = after_failure(attempts, now) /\ attempts' \in Attempts
    BY <1>0, <2>1, AfterFailureTyped, WrittenInOrder DEF GuardTypeOK
  <2>3. next \in Attempts
    BY <1>0, AfterFailureTyped DEF GuardTypeOK
  <2>4. /\ Run(Append(failures, now), next.failed_count)
        /\ next.failed_count <= MaxAttempts
        /\ next.last_failed = now
        /\ next.until <= now + Lockout
    BY <1>0, FailureCounts DEF GuardSound
  <2>5. CASE locks(attempts, now)
    <3>1. next.failed_count = MaxAttempts
      BY <1>0, <2>3, <2>4, <2>5 DEF locks, Attempts
    <3>2. attempts' = [next EXCEPT !.failed_count = 0, !.until = now + Lockout]
      BY <2>2, <2>5 DEF locks, after_failure
    <3>3. attempts'.failed_count = 0 /\ attempts'.until = now + Lockout /\ attempts'.last_failed = now
      BY <2>3, <2>4, <3>2 DEF Attempts
    <3>4. failures' = <<>> /\ locked_by' = Append(failures, now)
      BY <2>1, <2>5
    <3>5. attempts' # NoRow
      BY <2>2, GuardAssumption DEF Attempts
    <3> QED
      BY <1>0, <2>4, <3>1, <3>3, <3>4, <3>5 DEF Means
  <2>6. CASE ~locks(attempts, now)
    <3>1. next.failed_count < MaxAttempts
      BY <1>0, <2>3, <2>6 DEF locks, Attempts
    <3>2. attempts' = next
      BY <2>2, <2>6 DEF locks, after_failure
    <3>3. failures' = Append(failures, now) /\ locked_by' = locked_by
      BY <2>1, <2>6
    <3>4. failures' # <<>> /\ last_failure' = now
      BY <1>0, <3>3 DEF last_failure
    <3>5. attempts' # NoRow
      BY <2>2, GuardAssumption DEF Attempts
    <3> QED
      BY <1>0, <2>4, <3>1, <3>2, <3>3, <3>4, <3>5 DEF Means, GuardSound
  <2> QED
    BY <2>1, <2>5, <2>6
<1> QED
  BY <1>1, <1>2

\* How far a login can be.
LEMMA LoginStates ==
    /\ away \in LoginState /\ [at |-> "verifying"] \in LoginState
    /\ \A read \in Attempts \cup {NoRow}, when \in Nat : [at |-> "failing", read |-> read, when |-> when] \in LoginState
    /\ \A state \in LoginState : state.at = "failing" => state.read \in Attempts \cup {NoRow} /\ state.when \in Nat
<1>1. \A state \in {away} \cup [at : {"verifying"}] : state.at # "failing"
  BY DEF away
<1>2. \A state \in [at : {"failing"}, read : Attempts \cup {NoRow}, when : Nat] :
        state.read \in Attempts \cup {NoRow} /\ state.when \in Nat
  OBVIOUS
<1>3. away \in LoginState /\ [at |-> "verifying"] \in LoginState
  BY DEF LoginState
<1>4. \A read \in Attempts \cup {NoRow}, when \in Nat : [at |-> "failing", read |-> read, when |-> when] \in LoginState
  BY DEF LoginState
<1> QED
  BY <1>1, <1>2, <1>3, <1>4 DEF LoginState

\* Every step keeps the types.
LEMMA GuardTypeStep ==
    ASSUME GuardTypeOK, [GuardNext]_guard_vars PROVE GuardTypeOK'
<1>1. CASE UNCHANGED guard_vars
  BY <1>1 DEF guard_vars, GuardTypeOK
<1>2. ASSUME NEW l \in Logins, arrive(l) \/ wrong_password(l) \/ clear_failures(l)
      PROVE  GuardTypeOK'
  <2>1. CASE arrive(l)
    BY <2>1, LoginStates DEF arrive, GuardTypeOK
  <2>2. CASE wrong_password(l)
    BY <2>2, LoginStates DEF wrong_password, GuardTypeOK
  <2>3. CASE clear_failures(l)
    BY <2>3, LoginStates DEF clear_failures, GuardTypeOK
  <2> QED
    BY <1>2, <2>1, <2>2, <2>3
<1>3. ASSUME NEW l \in Logins, record_failure(l)
      PROVE  GuardTypeOK'
  <2>1. login[l].read \in Attempts \cup {NoRow} /\ login[l].when \in Nat
    BY <1>3, LoginStates DEF record_failure, GuardTypeOK
  <2>2. attempts' \in Attempts \cup {NoRow}
    <3>1. after_failure(login[l].read, login[l].when) \in Attempts
      BY <2>1, AfterFailureTyped
    <3>2. CASE (login[l].read = NoRow) # (attempts = NoRow)
      BY <1>3, <3>2 DEF record_failure, GuardTypeOK
    <3>3. CASE (login[l].read = NoRow) <=> (attempts = NoRow)
      <4>1. attempts' = write(login[l].read, after_failure(login[l].read, login[l].when))
        BY <1>3, <3>3 DEF record_failure
      <4> QED
        BY <2>1, <3>1, <3>3, <4>1, WrittenTyped DEF GuardTypeOK
    <3> QED
      BY <3>2, <3>3
  <2>3. Append(failures, login[l].when) \in Seq(Nat) /\ <<>> \in Seq(Nat)
    BY <2>1 DEF GuardTypeOK
  <2>4. failures' \in Seq(Nat) /\ locked_by' \in Seq(Nat) /\ crossed' \in BOOLEAN
    BY <1>3, <2>3 DEF record_failure, GuardTypeOK
  <2> QED
    BY <1>3, <2>2, <2>4, LoginStates DEF record_failure, GuardTypeOK
<1>4. CASE purge_stale
  BY <1>4 DEF purge_stale, GuardTypeOK
<1>5. CASE tick
  BY <1>5 DEF tick, GuardTypeOK
<1> QED
  BY <1>1, <1>2, <1>3, <1>4, <1>5 DEF GuardNext

\* The row keeps its meaning.
LEMMA GuardSoundStep ==
    ASSUME GuardTypeOK, GuardSound, [GuardNext]_guard_vars PROVE GuardSound'
<1>0. now \in Nat /\ Window \in Nat
  BY GuardAssumption DEF GuardTypeOK
<1>1. CASE UNCHANGED guard_vars
  BY <1>1 DEF guard_vars, GuardSound, Means, last_failure
<1>2. ASSUME NEW l \in Logins, arrive(l) \/ wrong_password(l)
      PROVE  GuardSound'
  <2>1. Means' <=> Means
    BY <1>2 DEF arrive, wrong_password, Means, last_failure
  <2>2. \A x \in Logins : login'[x].at = "failing" => login'[x].when = now'
    BY <1>2 DEF arrive, wrong_password, GuardSound, GuardTypeOK
  <2>3. UNCHANGED <<locked_by, crossed>>
    BY <1>2 DEF arrive, wrong_password
  <2> QED
    BY <2>1, <2>2, <2>3 DEF GuardSound
<1>3. ASSUME NEW l \in Logins, record_failure(l)
      PROVE  GuardSound'
  <2>1. \A x \in Logins : login'[x].at = "failing" => login'[x].when = now'
    BY <1>3 DEF record_failure, GuardSound, GuardTypeOK, away
  <2> QED
    BY <1>3, <2>1, FailureStep DEF GuardSound
<1>4. ASSUME NEW l \in Logins, clear_failures(l)
      PROVE  GuardSound'
  <2>1. \A x \in Logins : login'[x].at = "failing" => login'[x].when = now'
    BY <1>4 DEF clear_failures, GuardSound, GuardTypeOK, away
  <2> QED
    BY <1>4, <2>1 DEF clear_failures, GuardSound, Means
<1>5. CASE purge_stale
  <2>1. ~crossed => Means'
    <3>1. attempts' = NoRow /\ attempts # NoRow /\ attempts.last_failed + Window < now
          /\ UNCHANGED <<now, failures, crossed>>
      BY <1>5 DEF purge_stale, forgotten
    <3> QED
      BY <3>1 DEF GuardSound, Means, last_failure
  <2> QED
    BY <1>5, <2>1 DEF purge_stale, GuardSound
<1>6. CASE tick
  <2>1. now' = now + 1 /\ UNCHANGED <<attempts, login, failures, locked_by, crossed>>
    BY <1>6 DEF tick
  <2>2. ASSUME ~crossed, attempts = NoRow, failures # <<>>
        PROVE  (last_failure + Window < now)'
    <3>1. last_failure \in Nat
      BY <2>2 DEF GuardTypeOK, last_failure
    <3>2. last_failure + Window < now
      BY <2>2 DEF GuardSound, Means
    <3> QED
      BY <1>0, <2>1, <3>1, <3>2 DEF last_failure
  <2>3. attempts # NoRow => attempts.last_failed \in Nat
    BY DEF GuardTypeOK, Attempts
  <2>4. ~crossed => Means'
    BY <1>0, <2>1, <2>2, <2>3 DEF GuardSound, Means, last_failure
  <2> QED
    BY <1>6, <2>1, <2>4 DEF tick, GuardSound
<1> QED
  BY <1>1, <1>2, <1>3, <1>4, <1>5, <1>6 DEF GuardNext

\* The row of attempts means what it says.
LEMMA RowMeans == GuardSpec => [](GuardTypeOK /\ GuardSound)
<1>1. GuardInit => GuardTypeOK /\ GuardSound
  <2>1. GuardInit => GuardTypeOK
    <3>1. <<>> \in Seq(Nat) /\ 1 \in Nat /\ FALSE \in BOOLEAN
      OBVIOUS
    <3>2. away \in LoginState
      BY LoginStates
    <3> QED
      BY <3>1, <3>2 DEF GuardInit, GuardTypeOK
  <2>2. GuardInit => GuardSound
    BY DEF GuardInit, GuardSound, Means, away
  <2> QED
    BY <2>1, <2>2
<1> QED
  BY <1>1, GuardTypeStep, GuardSoundStep, PTL DEF GuardSpec

\* A lock is earned by MaxAttempts failures in a row, no two of them further apart than the
\* window, whatever other logins for the name, the clock and the purge do in between.
THEOREM LocksAreEarned == GuardSpec => []LockIsEarned
<1>1. GuardTypeOK /\ GuardSound => LockIsEarned
  BY RunIsRunLength DEF GuardTypeOK, GuardSound, LockIsEarned
<1> QED
  BY <1>1, RowMeans, PTL

\* Nothing but a login that had passed the check before lifts a lock before its time, if the
\* lockout is no longer than the window: a row is not forgotten while it locks.
THEOREM LocksAreKept == ASSUME Lockout <= Window + 1 PROVE GuardSpec => LockIsKept
<1>1. ASSUME GuardTypeOK, GuardSound, [GuardNext]_guard_vars, locked(attempts), now' = now, ~crossed'
      PROVE  \/ locked(attempts)'
             \/ \E l \in Logins : login[l].at = "verifying" /\ login'[l] = away
  <2>1. attempts # NoRow /\ attempts.until > now /\ attempts \in Attempts /\ now \in Nat
    BY <1>1 DEF locked, GuardTypeOK
  <2>2. Window \in Nat /\ Lockout \in Nat
    BY GuardAssumption
  <2>3. CASE attempts' = attempts
    BY <1>1, <2>3 DEF locked
  <2>4. ASSUME NEW l \in Logins, record_failure(l), attempts' # attempts
        PROVE  locked(attempts)'
    <3>1. /\ login[l].read = attempts /\ login[l].when = now /\ ~crossed
          /\ attempts' = write(login[l].read, after_failure(login[l].read, login[l].when))
      BY <1>1, <2>4 DEF record_failure, GuardSound
    <3>2. attempts' = after_failure(attempts, now) /\ attempts' \in Attempts
      BY <2>1, <3>1, AfterFailureTyped, WrittenInOrder DEF GuardTypeOK
    <3>3. attempts.until <= attempts.last_failed + Lockout /\ attempts.last_failed <= now
      BY <1>1, <2>1, <3>1 DEF GuardSound, Means
    <3>4. Lockout > 0 /\ ~(attempts.last_failed + Window < now)
      BY <2>1, <2>2, <3>3 DEF Attempts
    <3>5. counted(attempts, now) = [attempts EXCEPT !.failed_count = @ + 1, !.last_failed = now]
      BY <2>1, <3>4 DEF counted
    <3>6. attempts'.until = IF locks(attempts, now) THEN now + Lockout ELSE attempts.until
      BY <2>1, <3>2, <3>5 DEF after_failure, locks, Attempts
    <3>7. attempts' # NoRow
      BY <3>2, GuardAssumption DEF Attempts
    <3> QED
      BY <1>1, <2>1, <2>2, <3>4, <3>6, <3>7 DEF locked
  <2>5. ASSUME NEW l \in Logins, clear_failures(l)
        PROVE  \E x \in Logins : login[x].at = "verifying" /\ login'[x] = away
    BY <1>1, <2>5 DEF clear_failures, GuardTypeOK
  <2>6. CASE purge_stale
    BY <2>1, <2>6 DEF purge_stale, Attempts
  <2> QED
    BY <1>1, <2>3, <2>4, <2>5, <2>6 DEF GuardNext, guard_vars, arrive, wrong_password, tick
<1>2. GuardTypeOK /\ GuardSound /\ [GuardNext]_guard_vars =>
        [locked(attempts) /\ now' = now /\ ~crossed' =>
            \/ locked(attempts)'
            \/ \E l \in Logins : login[l].at = "verifying" /\ login'[l] = away]_guard_vars
  BY <1>1
<1> QED
  BY <1>2, RowMeans, PTL DEF GuardSpec, LockIsKept

\* The purge removes only rows without which the next failure would be counted just the same.
THEOREM PurgeLosesNothing == GuardSpec => PurgeForgetsNothing
<1>1. ASSUME GuardTypeOK, purge_stale, NEW when \in now .. MaxTime
      PROVE  after_failure(attempts, when) = after_failure(NoRow, when)
  <2>1. attempts \in Attempts /\ now \in Nat /\ Window \in Nat /\ when \in Nat
    BY <1>1, GuardAssumption DEF purge_stale, GuardTypeOK
  <2>2. attempts.last_failed + Window < when
    BY <1>1, <2>1 DEF purge_stale, forgotten, Attempts
  <2>3. counted(attempts, when) = counted(NoRow, when)
    BY <2>2 DEF counted
  <2> QED
    BY <2>3 DEF after_failure
<1>2. GuardTypeOK =>
        [purge_stale => \A when \in now .. MaxTime :
            after_failure(attempts, when) = after_failure(NoRow, when)]_guard_vars
  BY <1>1
<1> QED
  BY <1>2, RowMeans, PTL DEF GuardSpec, PurgeForgetsNothing
==============================================================================
