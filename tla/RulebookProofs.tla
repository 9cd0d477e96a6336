--------------------------- MODULE RulebookProofs ---------------------------
(***************************************************************************)
(* The rules a case is judged by, and what its result leads to.            *)
(*                                                                         *)
(* SchemeVersions, for any number of schemes, clerks and cases: one scheme *)
(* at most is in force, and the rules of a stamped case stay what they     *)
(* were.  Questionnaire, for any indicators, cases and contracts: answers  *)
(* once submitted are whole.  ImprovementPlans, for any users, cases and   *)
(* dates: owners hear of their plans, and nobody misses a review.          *)
(***************************************************************************)
EXTENDS SchemeVersions, Questionnaire, ImprovementPlans, TLAPS

Statuses == {"none", "draft", "active", "retired", "deleted"}
SchemeRequest == [does : {"nothing", "activate", "delete"},
                  to : SchemeRows \cup {NoScheme}, over : SchemeRows \cup {NoScheme}]

\* Every table keeps its type.
SchemeTypeOK ==
    /\ scheme_status \in [SchemeRows -> Statuses]
    /\ request \in [Clerks -> SchemeRequest]
    /\ stamp \in [StampedCases -> SchemeRows \cup {NoScheme, "unopened"}]

\* A stamp is the stamp of a row that is there and has been in force.
StampsStand == \A e \in StampedCases : stamp[e] \in SchemeRows => scheme_status[stamp[e]] \in {"active", "retired"}

\* The scheme in force is one of the schemes in force, or there is none.
LEMMA ActiveScheme ==
    /\ active_scheme \in SchemeRows => scheme_status[active_scheme] = "active"
    /\ active_scheme \in SchemeRows \cup {NoScheme}
    /\ active_scheme = NoScheme => \A s \in SchemeRows : scheme_status[s] # "active"
BY SchemeAssumption DEF active_scheme

\* The index, as it is checked at an activation, leaves no room for a second one.
LEMMA IndexHolds ==
    ASSUME SchemeTypeOK, OneSchemeInForce, NEW k \in Clerks, index_allows(k),
           NEW s \in SchemeRows, scheme_status[s] = "active"
    PROVE  s \in {request[k].to, request[k].over}
<1>1. active_scheme # NoScheme
  BY ActiveScheme
<1>2. active_scheme = s
  BY <1>1, ActiveScheme DEF OneSchemeInForce
<1> QED
  BY <1>1, <1>2 DEF index_allows

\* An activation leaves one scheme in force, and turns none but drafts or schemes in force.
LEMMA ActivateStep ==
    ASSUME SchemeTypeOK, OneSchemeInForce, StampsStand, NEW k \in Clerks, activate(k)
    PROVE  SchemeTypeOK' /\ OneSchemeInForce' /\ StampsStand'
<1>1. CASE refused(k)
  BY <1>1, SchemeAssumption
     DEF refused, SchemeTypeOK, OneSchemeInForce, StampsStand, SchemeRequest, no_request
<1>2. CASE ~refused(k)
  <2> DEFINE to == request[k].to
             over == request[k].over
             next == [s \in SchemeRows |->
                        CASE s = to -> "active" [] s = over -> "retired" [] OTHER -> scheme_status[s]]
  <2>1. /\ scheme_status' = next
        /\ request' = [request EXCEPT ![k] = no_request]
        /\ stamp' = stamp
        /\ index_allows(k)
    BY <1>2 DEF activate
  <2>2. next \in [SchemeRows -> Statuses]
    BY DEF SchemeTypeOK, Statuses
  <2>3. SchemeTypeOK'
    BY <2>1, <2>2, SchemeAssumption DEF SchemeTypeOK, SchemeRequest, no_request
  <2>4. \A s \in SchemeRows : next[s] = "active" => s = to
    BY IndexHolds, <2>1
  <2>5. OneSchemeInForce'
    BY <2>1, <2>4 DEF OneSchemeInForce
  <2>6. StampsStand'
    BY <2>1 DEF StampsStand
  <2> QED
    BY <2>3, <2>5, <2>6
<1> QED
  BY <1>1, <1>2

\* A deletion takes no row that bears a stamp, and puts nothing in force.
LEMMA DeleteStep ==
    ASSUME SchemeTypeOK, OneSchemeInForce, StampsStand, NEW k \in Clerks, delete(k)
    PROVE  SchemeTypeOK' /\ OneSchemeInForce' /\ StampsStand'
<1>1. CASE refused(k)
  BY <1>1, SchemeAssumption
     DEF refused, SchemeTypeOK, OneSchemeInForce, StampsStand, SchemeRequest, no_request
<1>2. CASE ~refused(k)
  <2>1. /\ scheme_status' = [scheme_status EXCEPT ![request[k].to] = "deleted"]
        /\ request' = [request EXCEPT ![k] = no_request]
        /\ stamp' = stamp
        /\ ~is_referenced(request[k].to)
    BY <1>2 DEF delete
  <2>2. SchemeTypeOK'
    BY <2>1, SchemeAssumption DEF SchemeTypeOK, SchemeRequest, no_request, Statuses
  <2>3. OneSchemeInForce'
    BY <2>1 DEF OneSchemeInForce, SchemeTypeOK
  <2>4. StampsStand'
    BY <2>1 DEF StampsStand, SchemeTypeOK, is_referenced
  <2> QED
    BY <2>2, <2>3, <2>4
<1> QED
  BY <1>1, <1>2

\* A case is stamped with a scheme in force.
LEMMA OpenCaseStep ==
    ASSUME SchemeTypeOK, OneSchemeInForce, StampsStand, NEW e \in StampedCases, open_case(e)
    PROVE  SchemeTypeOK' /\ OneSchemeInForce' /\ StampsStand'
<1>1. SchemeTypeOK'
  BY ActiveScheme DEF open_case, SchemeTypeOK
<1>2. OneSchemeInForce'
  BY DEF open_case, OneSchemeInForce
<1>3. StampsStand'
  BY ActiveScheme DEF open_case, StampsStand, SchemeTypeOK
<1> QED
  BY <1>1, <1>2, <1>3

\* The schemes are well formed, one of them at most is in force, and stamps stand.
LEMMA SchemesSound == SchemeSpec => [](SchemeTypeOK /\ OneSchemeInForce /\ StampsStand)
<1>1. SchemeInit => SchemeTypeOK /\ OneSchemeInForce /\ StampsStand
  BY SchemeAssumption
     DEF SchemeInit, SchemeTypeOK, OneSchemeInForce, StampsStand, Statuses, SchemeRequest, no_request
<1>2. ASSUME SchemeTypeOK, OneSchemeInForce, StampsStand, [SchemeNext]_scheme_vars
      PROVE  SchemeTypeOK' /\ OneSchemeInForce' /\ StampsStand'
  <2>1. CASE UNCHANGED scheme_vars
    BY <1>2, <2>1 DEF scheme_vars, SchemeTypeOK, OneSchemeInForce, StampsStand
  <2>2. ASSUME NEW k \in Clerks, NEW s \in SchemeRows, create_scheme(k, s)
        PROVE  SchemeTypeOK' /\ OneSchemeInForce' /\ StampsStand'
    BY <1>2, <2>2 DEF create_scheme, SchemeTypeOK, OneSchemeInForce, StampsStand, Statuses
  <2>3. ASSUME NEW k \in Clerks, NEW s \in SchemeRows, activate_scheme(k, s)
        PROVE  SchemeTypeOK' /\ OneSchemeInForce' /\ StampsStand'
    BY <1>2, <2>3, ActiveScheme
       DEF activate_scheme, SchemeTypeOK, OneSchemeInForce, StampsStand, SchemeRequest
  <2>4. ASSUME NEW k \in Clerks, NEW s \in SchemeRows, delete_draft(k, s)
        PROVE  SchemeTypeOK' /\ OneSchemeInForce' /\ StampsStand'
    BY <1>2, <2>4 DEF delete_draft, SchemeTypeOK, OneSchemeInForce, StampsStand, SchemeRequest
  <2> QED
    BY <1>2, <2>1, <2>2, <2>3, <2>4, ActivateStep, DeleteStep, OpenCaseStep DEF SchemeNext
<1> QED
  BY <1>1, <1>2, PTL DEF SchemeSpec

\* However the requests of the clerks cross, one scheme at most is in force.
THEOREM OneInForce == SchemeSpec => []OneSchemeInForce
BY SchemesSound, PTL

\* A case that bears a stamp is computed by the rules it was opened under, and they stay.
THEOREM StampedRulesRemain == SchemeSpec => StampedRulesStay
<1>1. ASSUME SchemeTypeOK, StampsStand', [SchemeNext]_scheme_vars,
             NEW e \in StampedCases, stamp[e] \in SchemeRows
      PROVE  rules_for_record(e)' = rules_for_record(e) /\ scheme_status'[stamp[e]] # "deleted"
  <2>1. stamp'[e] = stamp[e]
    BY <1>1, SchemeAssumption
       DEF SchemeNext, create_scheme, activate_scheme, delete_draft, refused, activate, delete, open_case,
           scheme_vars, SchemeTypeOK
  <2> QED
    BY <1>1, <2>1 DEF rules_for_record, StampsStand
<1>2. SchemeTypeOK /\ StampsStand' /\ [SchemeNext]_scheme_vars =>
        [\A e \in StampedCases : stamp[e] \in SchemeRows =>
            rules_for_record(e)' = rules_for_record(e) /\ scheme_status'[stamp[e]] # "deleted"]_scheme_vars
  BY <1>1
<1> QED
  BY <1>2, SchemesSound, PTL DEF SchemeSpec, StampedRulesStay
-----------------------------------------------------------------------------
(* The questionnaire.                                                      *)

Answers == [state : {"none", "opened", "submitted"}, framework : Nat, answers : SUBSET Indicators]

Case == [status : {"none", "ended"} \cup open_statuses, framework : Nat,
         contract : Contracts, scores : SUBSET Indicators]

\* The tables keep their types; nothing is asked of the publication under way.
QuestionnaireTypeOK ==
    /\ frameworks \in Seq(SUBSET Indicators) /\ frameworks # <<>>
    /\ case \in [Cases -> Case]
    /\ contract \in Contracts
    /\ assessment \in [Contracts -> Answers]

\* What has been submitted names a framework that is there.
SubmittedStand ==
    \A k \in Contracts : assessment[k].state = "submitted" =>
        /\ assessment[k].framework \in 1 .. Len(frameworks)
        /\ assessment[k].answers = frameworks[assessment[k].framework]

\* At first there is one framework and no answer.
LEMMA QuestionnaireStarts ==
    QuestionnaireInit => QuestionnaireTypeOK /\ SubmittedStand
<1>1. no_case \in Case
  BY QuestionnaireAssumption DEF no_case, Case
<1> QED
  BY <1>1 DEF QuestionnaireInit, QuestionnaireTypeOK, SubmittedStand, active_in, no_assessment, Answers

\* A new framework changes none of those there are.
LEMMA FrameworkAdded ==
    ASSUME QuestionnaireTypeOK, SubmittedStand, NEW members \in SUBSET Indicators,
           frameworks' = Append(frameworks, members), UNCHANGED <<contract, assessment>>,
           case' = [c \in Cases |-> IF c \in publication.moves
                                    THEN [case[c] EXCEPT !.framework = Len(frameworks) + 1] ELSE case[c]]
    PROVE  QuestionnaireTypeOK' /\ SubmittedStand'
<1>1. PICK n \in Nat : n = Len(frameworks)
  BY DEF QuestionnaireTypeOK
<1>2. /\ frameworks' \in Seq(SUBSET Indicators) /\ Len(frameworks') = n + 1
      /\ \A v \in 1 .. n : frameworks'[v] = frameworks[v]
  BY <1>1 DEF QuestionnaireTypeOK
<1>3. QuestionnaireTypeOK'
  <2>1. n + 1 \in Nat /\ frameworks' # <<>>
    BY <1>2
  <2>2. \A c \in Cases : [case[c] EXCEPT !.framework = n + 1] \in Case
    BY <2>1 DEF QuestionnaireTypeOK, Case
  <2>3. case' \in [Cases -> Case]
    BY <1>1, <2>2 DEF QuestionnaireTypeOK
  <2> QED
    BY <1>2, <2>1, <2>3 DEF QuestionnaireTypeOK
<1>4. ASSUME NEW k \in Contracts, assessment[k].state = "submitted"
      PROVE  /\ assessment[k].framework \in 1 .. n + 1
             /\ assessment[k].answers = frameworks'[assessment[k].framework]
  BY <1>1, <1>2, <1>4 DEF SubmittedStand
<1> QED
  BY <1>2, <1>3, <1>4 DEF SubmittedStand

\* Opening the form answers nothing.
LEMMA FormOpened ==
    ASSUME QuestionnaireTypeOK, SubmittedStand, NEW version \in Nat, open_form(version)
    PROVE  QuestionnaireTypeOK' /\ SubmittedStand'
<1>1. /\ assessment' = [assessment EXCEPT ![contract] = [@ EXCEPT !.state = "opened", !.framework = version]]
      /\ UNCHANGED <<frameworks, case, contract>>
  BY DEF open_form
<1>2. QuestionnaireTypeOK'
  BY <1>1 DEF QuestionnaireTypeOK, Answers
<1>3. \A k \in Contracts : assessment'[k].state = "submitted" => assessment'[k] = assessment[k]
  BY <1>1 DEF QuestionnaireTypeOK, Answers
<1> QED
  BY <1>1, <1>2, <1>3 DEF SubmittedStand

\* Submitting answers the framework of the day.
LEMMA FormSubmitted ==
    ASSUME QuestionnaireTypeOK, SubmittedStand, submit_self_assessment
    PROVE  QuestionnaireTypeOK' /\ SubmittedStand'
<1>1. PICK n \in Nat : n = Len(frameworks) /\ n \in 1 .. n /\ frameworks[n] \in SUBSET Indicators
  BY DEF QuestionnaireTypeOK
<1>2. /\ assessment' = [assessment EXCEPT ![contract] =
           [state |-> "submitted", framework |-> n, answers |-> frameworks[n]]]
      /\ UNCHANGED <<frameworks, case, contract>>
  BY <1>1 DEF submit_self_assessment, pinned, current_framework
<1>3. QuestionnaireTypeOK'
  BY <1>1, <1>2 DEF QuestionnaireTypeOK, Answers
<1>4. \A k \in Contracts : assessment'[k] = assessment[k]
                           \/ assessment'[k] = [state |-> "submitted", framework |-> n, answers |-> frameworks[n]]
  BY <1>2 DEF QuestionnaireTypeOK
<1> QED
  BY <1>1, <1>2, <1>3, <1>4 DEF SubmittedStand

\* What happens to the cases touches no answer.
LEMMA CaseChanged ==
    ASSUME QuestionnaireTypeOK, SubmittedStand, case' \in [Cases -> Case],
           UNCHANGED <<frameworks, contract, assessment>>
    PROVE  QuestionnaireTypeOK' /\ SubmittedStand'
BY DEF QuestionnaireTypeOK, SubmittedStand

\* The invariant of the questionnaire.
LEMMA QuestionnaireStays ==
    QuestionnaireTypeOK /\ SubmittedStand /\ [QuestionnaireNext]_questionnaire_vars
        => QuestionnaireTypeOK' /\ SubmittedStand'
<1> DEFINE Inv == QuestionnaireTypeOK /\ SubmittedStand
<1> SUFFICES ASSUME QuestionnaireTypeOK, SubmittedStand, [QuestionnaireNext]_questionnaire_vars
             PROVE  Inv'
  OBVIOUS
<1>1. ASSUME NEW state, publish(state)
      PROVE  Inv'
  BY <1>1, CaseChanged DEF publish, QuestionnaireTypeOK
<1>2. ASSUME NEW i \in Indicators, create_indicator(i) \/ update_indicator(i) \/ delete_indicator(i)
      PROVE  Inv'
  BY <1>1, <1>2 DEF create_indicator, update_indicator, delete_indicator
<1>3. ASSUME NEW old \in Indicators, NEW new \in Indicators, replace_indicator(old, new)
      PROVE  Inv'
  BY <1>1, <1>3 DEF replace_indicator
<1>4. CASE commit_publication
  BY <1>4, FrameworkAdded DEF commit_publication, active_in
<1>5. CASE publication_fails
  BY <1>5, CaseChanged DEF publication_fails, QuestionnaireTypeOK
<1>6. ASSUME NEW c \in Cases, create_evaluation(c)
      PROVE  Inv'
  <2>1. PICK version \in Nat : version = IF assessment[contract].state # "none"
                                         THEN assessment[contract].framework ELSE current_framework
    BY DEF QuestionnaireTypeOK, Answers, current_framework
  <2>2. [status |-> "draft", contract |-> contract, scores |-> {}, framework |-> version] \in Case
    BY DEF QuestionnaireTypeOK, Case, open_statuses
  <2>3. case' \in [Cases -> Case]
    BY <1>6, <2>1, <2>2 DEF create_evaluation, QuestionnaireTypeOK
  <2> QED
    BY <1>6, <2>3, CaseChanged DEF create_evaluation
<1>7. ASSUME NEW c \in Cases, finalize_scoring(c) \/ decide(c)
      PROVE  Inv'
  <2>1. PICK s \in {"ended"} \cup open_statuses : case' = [case EXCEPT ![c].status = s]
    BY <1>7 DEF finalize_scoring, decide, open_statuses
  <2>2. case' \in [Cases -> Case]
    BY <2>1 DEF QuestionnaireTypeOK, Case
  <2> QED
    BY <1>7, <2>2, CaseChanged DEF finalize_scoring, decide
<1>8. ASSUME NEW c \in Cases, NEW scores \in SUBSET Indicators, replace_scores(c, scores)
      PROVE  Inv'
  <2>1. case' \in [Cases -> Case]
    BY <1>8 DEF replace_scores, QuestionnaireTypeOK, Case
  <2> QED
    BY <1>8, <2>1, CaseChanged DEF replace_scores
<1>9. ASSUME NEW version, version \in Nat, open_form(version)
      PROVE  Inv'
  BY <1>9, FormOpened
<1>10. CASE invite_to_self_assessment \/ ensure_current_assessment
  <2>1. current_framework \in Nat /\ \A c \in Cases : case[c].framework \in Nat
    BY DEF current_framework, QuestionnaireTypeOK, Case
  <2> QED
    BY <1>9, <1>10, <2>1 DEF invite_to_self_assessment, ensure_current_assessment
<1>11. CASE submit_self_assessment
  BY <1>11, FormSubmitted
<1>12. ASSUME NEW k \in Contracts, update_contract(k)
       PROVE  Inv'
  BY <1>12 DEF update_contract, QuestionnaireTypeOK, SubmittedStand
<1>13. CASE UNCHANGED questionnaire_vars
  BY <1>13, CaseChanged DEF questionnaire_vars, QuestionnaireTypeOK
<1> HIDE DEF Inv
<1> QED
  BY <1>2, <1>3, <1>4, <1>5, <1>6, <1>7, <1>8, <1>10, <1>11, <1>12, <1>13 DEF QuestionnaireNext

\* A self-assessment once submitted answers the whole of the framework it names, for ever:
\* submit_self_assessment pins the version, and published frameworks do not change.
THEOREM AnswersStayWhole ==
    QuestionnaireSpec => []AnswersAreWhole
<1>1. SubmittedStand => AnswersAreWhole
  BY DEF SubmittedStand, AnswersAreWhole
<1> QED
  BY <1>1, QuestionnaireStarts, QuestionnaireStays, PTL DEF QuestionnaireSpec

IndicatorStates == {"unused", "active", "inactive", "deleted"}

\* The questions that have a row and keep it when the publication under way is committed.
standing == existing \ being_deleted

\* No score and no answer is to a question whose row is gone, or is going.
NothingDangles ==
    /\ \A c \in Cases : case[c].scores \subseteq standing
    /\ \A k \in Contracts : assessment[k].answers \subseteq standing

\* The framework in force is the active set, and a publication never unmakes a row but by deleting it.
QuestionsSafe ==
    /\ indicator \in [Indicators -> IndicatorStates]
    /\ frameworks[Len(frameworks)] = active_in(indicator)
    /\ publication # Idle => /\ publication.indicator \in [Indicators -> IndicatorStates]
                             /\ \A i \in existing : publication.indicator[i] # "unused"
    /\ NothingDangles

\* A publication that deletes only what is neither scored nor answered leaves nothing dangling.
LEMMA PublishedStands ==
    ASSUME QuestionnaireTypeOK, QuestionsSafe, NEW state \in [Indicators -> IndicatorStates], publish(state),
           \A i \in existing : /\ state[i] # "unused"
                               /\ state[i] = "deleted" => ~scored(i) /\ ~answered(i)
    PROVE  QuestionsSafe'
<1>1. /\ publication = Idle /\ publication'.indicator = state
      /\ UNCHANGED <<indicator, frameworks, case, assessment>>
  BY DEF publish
<1>2. standing = existing /\ existing' = existing
  BY <1>1 DEF standing, being_deleted, existing
<1>3. \A i \in being_deleted' : i \in existing /\ ~scored(i) /\ ~answered(i)
  BY <1>1, <1>2 DEF being_deleted
<1>4. \A c \in Cases : case[c].scores \subseteq existing \ being_deleted'
  BY <1>2, <1>3 DEF QuestionsSafe, NothingDangles, scored
<1>5. \A k \in Contracts : assessment[k].answers \subseteq existing \ being_deleted'
  BY <1>2, <1>3 DEF QuestionsSafe, NothingDangles, answered
<1>6. NothingDangles'
  BY <1>1, <1>2, <1>4, <1>5 DEF NothingDangles, standing
<1>7. active_in(indicator)' = active_in(indicator)
  BY <1>1 DEF active_in
<1> QED
  BY <1>1, <1>2, <1>6, <1>7 DEF QuestionsSafe

\* What HR does to an indicator begins such a publication.
LEMMA IndicatorEditStands ==
    ASSUME QuestionnaireTypeOK, QuestionsSafe, NEW i \in Indicators, NEW j \in Indicators,
           create_indicator(i) \/ update_indicator(i) \/ delete_indicator(i) \/ replace_indicator(i, j)
    PROVE  QuestionsSafe'
<1>1. PICK state : /\ publish(state)
                   /\ \/ indicator[i] = "unused" /\ state = [indicator EXCEPT ![i] = "active"]
                      \/ state = [indicator EXCEPT ![i] = "inactive"]
                      \/ indicator[i] = "inactive" /\ state = [indicator EXCEPT ![i] = "active"]
                      \/ ~scored(i) /\ ~answered(i) /\ state = [indicator EXCEPT ![i] = "deleted"]
                      \/ state = [indicator EXCEPT ![i] = "inactive", ![j] = "active"]
  BY Zenon DEF create_indicator, update_indicator, delete_indicator, replace_indicator
<1>2. indicator \in [Indicators -> IndicatorStates]
  BY DEF QuestionsSafe
<1>3. state \in [Indicators -> IndicatorStates]
  BY <1>1, <1>2 DEF IndicatorStates
<1>4. ASSUME NEW x \in existing
      PROVE  state[x] # "unused" /\ (state[x] = "deleted" => ~scored(x) /\ ~answered(x))
  <2>1. x \in Indicators /\ indicator[x] \in {"active", "inactive"}
    BY DEF existing
  <2> QED
    BY <1>1, <1>2, <2>1
<1> QED
  BY <1>1, <1>3, <1>4, PublishedStands

\* The commit makes a framework of the active set, and takes away what nothing refers to.
LEMMA CommitStands ==
    ASSUME QuestionnaireTypeOK, QuestionsSafe, commit_publication
    PROVE  QuestionsSafe'
<1>1. PICK state : /\ publication # Idle /\ state = publication.indicator /\ indicator' = state
                   /\ frameworks' = Append(frameworks, active_in(state))
                   /\ publication' = Idle /\ assessment' = assessment
  BY DEF commit_publication
<1>2. /\ state \in [Indicators -> IndicatorStates]
      /\ \A i \in existing : state[i] # "unused"
  BY <1>1 DEF QuestionsSafe
<1>3. \A c \in Cases : case'[c].scores = case[c].scores
  BY DEF commit_publication, QuestionnaireTypeOK, Case
<1>4. being_deleted' = {}
  BY <1>1 DEF being_deleted
<1>5. existing' = {i \in Indicators : state[i] \in {"active", "inactive"}}
  BY <1>1 DEF existing
<1>6. standing \subseteq existing'
  <2> SUFFICES ASSUME NEW i \in existing, i \notin being_deleted
               PROVE  i \in existing'
    BY DEF standing
  <2>1. state[i] # "deleted"
    BY <1>1 DEF being_deleted
  <2>2. i \in Indicators
    BY DEF existing
  <2> QED
    BY <1>2, <1>5, <2>1, <2>2 DEF IndicatorStates
<1>7. NothingDangles'
  BY <1>1, <1>3, <1>4, <1>6 DEF QuestionsSafe, NothingDangles, standing
<1>8. frameworks'[Len(frameworks')] = active_in(state)
  <2>1. PICK members \in SUBSET Indicators : members = active_in(state)
    BY DEF active_in
  <2>2. frameworks \in Seq(SUBSET Indicators)
    BY DEF QuestionnaireTypeOK
  <2> QED
    BY <1>1, <2>1, <2>2
<1>9. active_in(indicator)' = active_in(state)
  BY <1>1 DEF active_in
<1> QED
  BY <1>1, <1>2, <1>7, <1>8, <1>9 DEF QuestionsSafe

\* Whoever writes scores or answers while the questions stand still writes them to standing ones.
LEMMA WritingStands ==
    ASSUME QuestionsSafe, UNCHANGED <<indicator, frameworks, publication>>,
           \A c \in Cases : case'[c].scores \subseteq standing,
           \A k \in Contracts : assessment'[k].answers \subseteq standing
    PROVE  QuestionsSafe'
<1>1. existing' = existing /\ being_deleted' = being_deleted
  BY DEF existing, being_deleted
<1>2. NothingDangles'
  BY <1>1 DEF NothingDangles, standing
<1>3. active_in(indicator)' = active_in(indicator)
  BY DEF active_in
<1> QED
  BY <1>1, <1>2, <1>3 DEF QuestionsSafe

\* Every step leaves the questions standing.
LEMMA QuestionsStaySafe ==
    ASSUME QuestionnaireTypeOK, QuestionsSafe, [QuestionnaireNext]_questionnaire_vars
    PROVE  QuestionsSafe'
<1>0. /\ \A c \in Cases : case[c].scores \subseteq standing
      /\ \A k \in Contracts : assessment[k].answers \subseteq standing
  BY DEF QuestionsSafe, NothingDangles
<1>1. ASSUME NEW i \in Indicators, create_indicator(i) \/ update_indicator(i) \/ delete_indicator(i)
      PROVE  QuestionsSafe'
  BY <1>1, IndicatorEditStands
<1>2. ASSUME NEW old \in Indicators, NEW new \in Indicators, replace_indicator(old, new)
      PROVE  QuestionsSafe'
  BY <1>2, IndicatorEditStands
<1>3. CASE commit_publication
  BY <1>3, CommitStands
<1>4. CASE publication_fails
  <2>1. publication' = Idle /\ UNCHANGED <<indicator, frameworks, case, assessment>>
    BY <1>4 DEF publication_fails
  <2>2. existing' = existing /\ being_deleted' = {}
    BY <2>1 DEF existing, being_deleted
  <2>3. NothingDangles'
    BY <1>0, <2>1, <2>2 DEF NothingDangles, standing
  <2>4. active_in(indicator)' = active_in(indicator)
    BY <2>1 DEF active_in
  <2> QED
    BY <2>1, <2>3, <2>4 DEF QuestionsSafe
<1>5. ASSUME NEW c \in Cases,
             create_evaluation(c) \/ finalize_scoring(c) \/ decide(c)
      PROVE  QuestionsSafe'
  <2>1. UNCHANGED <<indicator, frameworks, publication, assessment>>
    BY <1>5 DEF create_evaluation, finalize_scoring, decide
  <2>2. ASSUME NEW d \in Cases PROVE case'[d].scores \in {{}, case[d].scores}
    <3>1. CASE create_evaluation(c)
      BY <3>1 DEF create_evaluation, QuestionnaireTypeOK
    <3>2. CASE finalize_scoring(c) \/ decide(c)
      BY <3>2 DEF finalize_scoring, decide, QuestionnaireTypeOK, Case
    <3> QED
      BY <1>5, <3>1, <3>2
  <2>3. \A d \in Cases : case'[d].scores \subseteq standing
    BY <1>0, <2>2
  <2> QED
    BY <1>0, <2>1, <2>3, WritingStands
<1>6. ASSUME NEW c \in Cases, NEW scores \in SUBSET Indicators, replace_scores(c, scores)
      PROVE  QuestionsSafe'
  <2>1. UNCHANGED <<indicator, frameworks, publication, assessment>> /\ scores \subseteq standing
    BY <1>6 DEF replace_scores, indicators_for_record, standing
  <2>2. \A d \in Cases : case'[d].scores \in {scores, case[d].scores}
    BY <1>6 DEF replace_scores, QuestionnaireTypeOK, Case
  <2>3. \A d \in Cases : case'[d].scores \subseteq standing
    BY <1>0, <2>1, <2>2
  <2> QED
    BY <1>0, <2>1, <2>3, WritingStands
<1>7. ASSUME NEW version, open_form(version)
      PROVE  QuestionsSafe'
  <2>1. UNCHANGED <<indicator, frameworks, publication, case>>
    BY <1>7 DEF open_form
  <2>2. \A k \in Contracts : assessment'[k].answers = assessment[k].answers
    BY <1>7 DEF open_form, QuestionnaireTypeOK, Answers
  <2> QED
    BY <1>0, <2>1, <2>2, WritingStands
<1>8. CASE invite_to_self_assessment \/ ensure_current_assessment
  BY <1>7, <1>8 DEF invite_to_self_assessment, ensure_current_assessment
<1>9. CASE submit_self_assessment
  <2>1. UNCHANGED <<indicator, frameworks, publication, case>>
    BY <1>9 DEF submit_self_assessment
  <2>2. PICK members : /\ members = active_in(indicator) /\ members = frameworks[Len(frameworks)]
                       /\ members \cap being_deleted = {}
    BY <1>9 DEF submit_self_assessment, current_framework, QuestionsSafe
  <2>3. members \subseteq standing
    BY <2>2 DEF active_in, standing, existing
  <2>4. \A k \in Contracts : assessment'[k].answers \in {members, assessment[k].answers}
    BY <1>9, <2>2 DEF submit_self_assessment, current_framework, QuestionnaireTypeOK
  <2>5. \A k \in Contracts : assessment'[k].answers \subseteq standing
    BY <1>0, <2>3, <2>4
  <2> QED
    BY <1>0, <2>1, <2>5, WritingStands
<1>10. CASE (\E k \in Contracts : update_contract(k)) \/ UNCHANGED questionnaire_vars
  <2>1. UNCHANGED <<indicator, frameworks, publication, case, assessment>>
    BY <1>10 DEF update_contract, questionnaire_vars
  <2> QED
    BY <1>0, <2>1, WritingStands
<1> QED
  BY <1>1, <1>2, <1>3, <1>4, <1>5, <1>6, <1>8, <1>9, <1>10 DEF QuestionnaireNext

\* HR may delete a question while a form is being filled in or a publication waits for its commit:
\* no score and no answer is ever left to a question without a row, and the framework in force is
\* always the active set (delete_indicator, replace_scores, rebind_untouched_open_records).
THEOREM QuestionsStand ==
    QuestionnaireSpec => [](NothingDangles /\ frameworks[Len(frameworks)] = active_in(indicator))
<1>1. QuestionnaireInit => QuestionsSafe
  <2> SUFFICES ASSUME QuestionnaireInit PROVE QuestionsSafe
    OBVIOUS
  <2>1. indicator \in [Indicators -> IndicatorStates] /\ publication = Idle
    BY DEF QuestionnaireInit, IndicatorStates
  <2>2. frameworks[Len(frameworks)] = active_in(indicator)
    BY DEF QuestionnaireInit
  <2>3. NothingDangles
    BY DEF QuestionnaireInit, NothingDangles, no_case, no_assessment
  <2> QED
    BY <2>1, <2>2, <2>3 DEF QuestionsSafe
<1>2. QuestionsSafe => NothingDangles /\ frameworks[Len(frameworks)] = active_in(indicator)
  BY DEF QuestionsSafe
<1> QED
  BY <1>1, <1>2, QuestionnaireStarts, QuestionnaireStays, QuestionsStaySafe, PTL DEF QuestionnaireSpec
-----------------------------------------------------------------------------
(* The improvement plans.                                                  *)

Owners == PlanUsers \cup {Nobody}
Plan == [status : {"none", "open", "closed"}, owner : Owners, review : ReviewDays \cup {0}]
Edit == [case : PlanCases, owner : Owners \cup {Unchanged}, review : ReviewDays \cup {Unchanged}]

\* The tables keep their types, and a plan that was made has a date.
PlanTypeOK ==
    /\ plan \in [PlanCases -> Plan]
    /\ \A c \in PlanCases : plan[c].status # "none" => plan[c].review \in ReviewDays
    /\ edit \in Edit \cup {no_edit}
    /\ told \in [PlanCases -> Owners]
    /\ edit # no_edit => plan[edit.case].status # "none"

PlansSafe == PlanTypeOK /\ OwnerIsTold /\ DuePlanIsRemembered

\* At first there is no plan.
LEMMA PlansStart ==
    PlanInit => PlansSafe
BY DEF PlanInit, PlansSafe, PlanTypeOK, OwnerIsTold, DuePlanIsRemembered, no_plan, Plan, Owners

\* What a plan holds after it was written.
LEMMA PlanWritten ==
    ASSUME PlanTypeOK, OwnerIsTold, NEW c \in PlanCases, plan[c].status # "none",
           NEW o \in Owners \cup {Unchanged}, NEW d \in ReviewDays \cup {Unchanged}, written(c, o, d)
    PROVE  /\ plan' \in [PlanCases -> Plan] /\ told' \in [PlanCases -> Owners]
           /\ \A x \in PlanCases : plan'[x].status = plan[x].status
           /\ \A x \in PlanCases : plan'[x].status # "none" => plan'[x].review \in ReviewDays
           /\ OwnerIsTold' /\ ~swept'
<1>1. PICK owner \in Owners, review \in ReviewDays :
        /\ owner = IF o = Unchanged THEN plan[c].owner ELSE o
        /\ review = IF d = Unchanged THEN plan[c].review ELSE d
  BY DEF PlanTypeOK, Plan
<1>2. plan' = [plan EXCEPT ![c] = [plan[c] EXCEPT !.owner = owner, !.review = review]]
  BY <1>1 DEF written, PlanTypeOK, Plan
<1>3. [plan[c] EXCEPT !.owner = owner, !.review = review] \in Plan
  BY DEF PlanTypeOK, Plan
<1>4. plan' \in [PlanCases -> Plan] /\ \A x \in PlanCases \ {c} : plan'[x] = plan[x]
  BY <1>2, <1>3 DEF PlanTypeOK
<1>5. plan'[c].status = plan[c].status /\ plan'[c].owner = owner /\ plan'[c].review = review
  BY <1>2 DEF PlanTypeOK, Plan
<1>6. told' = IF o \in {Unchanged, Nobody} THEN told ELSE [told EXCEPT ![c] = o]
  BY DEF written
<1>7. told' \in [PlanCases -> Owners] /\ \A x \in PlanCases \ {c} : told'[x] = told[x]
  BY <1>6 DEF PlanTypeOK
<1>8. OwnerIsTold'
  <2>1. plan'[c].owner \in {Nobody, told'[c]}
    BY <1>1, <1>5, <1>6 DEF PlanTypeOK, OwnerIsTold
  <2>2. \A x \in PlanCases \ {c} : plan'[x].owner \in {Nobody, told'[x]}
    BY <1>4, <1>7 DEF OwnerIsTold
  <2> QED
    BY <2>1, <2>2 DEF OwnerIsTold
<1> QED
  BY <1>4, <1>5, <1>7, <1>8 DEF written, PlanTypeOK

\* A plan is made with its owner told.
LEMMA PlanCreated ==
    ASSUME PlansSafe, NEW u \in PlanUsers, NEW c \in PlanCases, NEW o \in Owners, NEW d \in ReviewDays,
           create_plan(u, c, o, d)
    PROVE  PlansSafe'
<1>1. /\ plan' = [plan EXCEPT ![c] = [status |-> "open", owner |-> o, review |-> d]]
      /\ told' = [told EXCEPT ![c] = o]
      /\ edit' = edit /\ ~swept'
  BY DEF create_plan
<1>2. [status |-> "open", owner |-> o, review |-> d] \in Plan
  BY DEF Plan
<1>3. /\ plan' \in [PlanCases -> Plan] /\ told' \in [PlanCases -> Owners]
      /\ \A x \in PlanCases \ {c} : plan'[x] = plan[x] /\ told'[x] = told[x]
      /\ plan'[c] = [status |-> "open", owner |-> o, review |-> d] /\ told'[c] = o
  BY <1>1, <1>2 DEF PlansSafe, PlanTypeOK
<1>4. PlanTypeOK'
  <2>1. ASSUME edit # no_edit PROVE plan'[edit.case].status # "none"
    BY <1>3, <2>1 DEF PlansSafe, PlanTypeOK, Edit
  <2>2. \A x \in PlanCases : plan'[x].status # "none" => plan'[x].review \in ReviewDays
    BY <1>3 DEF PlansSafe, PlanTypeOK
  <2> QED
    BY <1>1, <1>3, <2>1, <2>2 DEF PlansSafe, PlanTypeOK
<1>5. OwnerIsTold'
  BY <1>3 DEF PlansSafe, OwnerIsTold
<1> QED
  BY <1>1, <1>4, <1>5 DEF PlansSafe, DuePlanIsRemembered

\* A PATCH that is still to commit has read a plan that is there.
LEMMA EditBegun ==
    ASSUME PlansSafe, NEW u \in PlanUsers, NEW c \in PlanCases, NEW o \in Owners, NEW d \in ReviewDays,
           update_plan(u, c, o, d)
    PROVE  PlansSafe'
<1>1. /\ plan[c].status # "none" /\ ~swept' /\ UNCHANGED <<plan, told>>
      /\ edit' = [case |-> c, owner |-> IF o = plan[c].owner THEN Unchanged ELSE o,
                              review |-> IF d = plan[c].review THEN Unchanged ELSE d]
  BY DEF update_plan
<1>2. edit' \in Edit /\ edit'.case = c
  BY <1>1 DEF Edit
<1> QED
  BY <1>1, <1>2 DEF PlansSafe, PlanTypeOK, OwnerIsTold, DuePlanIsRemembered

\* It commits, whatever other edits were over before.
LEMMA EditCommitted ==
    ASSUME PlansSafe, commit_update
    PROVE  PlansSafe'
<1>1. /\ edit \in Edit /\ plan[edit.case].status # "none"
      /\ written(edit.case, edit.owner, edit.review) /\ edit' = no_edit
  BY DEF commit_update, PlansSafe, PlanTypeOK
<1>2. edit.case \in PlanCases /\ edit.owner \in Owners \cup {Unchanged} /\ edit.review \in ReviewDays \cup {Unchanged}
  BY <1>1 DEF Edit
<1>3. /\ plan' \in [PlanCases -> Plan] /\ told' \in [PlanCases -> Owners]
      /\ \A x \in PlanCases : plan'[x].status # "none" => plan'[x].review \in ReviewDays
      /\ OwnerIsTold' /\ ~swept'
  BY <1>1, <1>2, PlanWritten DEF PlansSafe
<1> QED
  BY <1>1, <1>3 DEF PlansSafe, PlanTypeOK, DuePlanIsRemembered

\* An edit that is over before the one under way, which goes on.
LEMMA EditMeanwhile ==
    ASSUME PlansSafe, NEW u \in PlanUsers, NEW c \in PlanCases, NEW o \in Owners, NEW d \in ReviewDays,
           update_plan_meanwhile(u, c, o, d)
    PROVE  PlansSafe'
<1>1. PICK owner \in Owners \cup {Unchanged}, review \in ReviewDays \cup {Unchanged} :
        written(c, owner, review)
  BY DEF update_plan_meanwhile
<1>2. plan[c].status # "none" /\ edit' = edit
  BY DEF update_plan_meanwhile
<1>3. /\ plan' \in [PlanCases -> Plan] /\ told' \in [PlanCases -> Owners]
      /\ \A x \in PlanCases : plan'[x].status = plan[x].status
      /\ \A x \in PlanCases : plan'[x].status # "none" => plan'[x].review \in ReviewDays
      /\ OwnerIsTold' /\ ~swept'
  BY <1>1, <1>2, PlanWritten DEF PlansSafe
<1>4. edit # no_edit => plan'[edit.case].status # "none"
  BY <1>3 DEF PlansSafe, PlanTypeOK, Edit
<1> QED
  BY <1>2, <1>3, <1>4 DEF PlansSafe, PlanTypeOK, DuePlanIsRemembered

\* A plan that is closed keeps its owner and its date.
LEMMA PlanClosed ==
    ASSUME PlansSafe, NEW u \in PlanUsers, NEW c \in PlanCases, close_plan(u, c)
    PROVE  PlansSafe'
<1>1. /\ plan[c].status = "open" /\ plan' = [plan EXCEPT ![c].status = "closed"]
      /\ edit' = edit /\ told' = told /\ ~swept'
  BY DEF close_plan
<1>2. /\ plan' \in [PlanCases -> Plan]
      /\ \A x \in PlanCases : plan'[x].owner = plan[x].owner /\ plan'[x].review = plan[x].review
      /\ \A x \in PlanCases : plan'[x].status = "none" <=> plan[x].status = "none"
  BY <1>1 DEF PlansSafe, PlanTypeOK, Plan
<1>3. PlanTypeOK'
  <2>1. edit # no_edit => plan'[edit.case].status # "none"
    BY <1>2 DEF PlansSafe, PlanTypeOK, Edit
  <2> QED
    BY <1>1, <1>2, <2>1 DEF PlansSafe, PlanTypeOK
<1> QED
  BY <1>1, <1>2, <1>3 DEF PlansSafe, OwnerIsTold, DuePlanIsRemembered

\* The sweep reminds whoever is to know.
LEMMA PlansSwept ==
    ASSUME PlansSafe, run_improvement_review_sweep
    PROVE  PlansSafe'
<1>1. /\ reminded' = reminded \cup review_reminders
      /\ UNCHANGED <<plan, role_of, edit, told, plan_day>>
  BY DEF run_improvement_review_sweep
<1>2. ASSUME NEW c \in PlanCases, due(c), NEW u \in recipients(c)
      PROVE  <<u, c, plan[c].review>> \in reminded'
  <2>1. u \in PlanUsers
    BY <1>2 DEF recipients, PlansSafe, PlanTypeOK, Plan, Owners
  <2>2. plan[c].review \in ReviewDays
    BY <1>2 DEF due, PlansSafe, PlanTypeOK
  <2>3. <<u, c, plan[c].review>> \in review_reminders
    BY <1>2, <2>1, <2>2 DEF review_reminders
  <2> QED
    BY <1>1, <2>3
<1>3. DuePlanIsRemembered'
  BY <1>1, <1>2 DEF DuePlanIsRemembered, due, recipients, acts_for_hr
<1> QED
  BY <1>1, <1>3 DEF PlansSafe, PlanTypeOK, OwnerIsTold

\* The invariant of the plans.
LEMMA PlansStaySafe ==
    PlansSafe /\ [PlanNext]_plan_vars => PlansSafe'
<1> SUFFICES ASSUME PlansSafe, [PlanNext]_plan_vars
             PROVE  PlansSafe'
  OBVIOUS
<1>1. CASE elsewhere
  BY <1>1 DEF elsewhere, PlansSafe, PlanTypeOK, OwnerIsTold, DuePlanIsRemembered
<1>2. CASE UNCHANGED plan_vars
  BY <1>2 DEF plan_vars, PlansSafe, PlanTypeOK, OwnerIsTold, DuePlanIsRemembered, due, recipients, acts_for_hr
<1> QED
  BY <1>1, <1>2, PlanCreated, EditBegun, EditCommitted, EditMeanwhile, PlanClosed, PlansSwept
     DEF PlanNext, Owners

\* Whoever owns a plan has heard of it, however the edits of HR cross: update_plan tells the new
\* owner of each column it writes.
THEOREM OwnersHear ==
    PlanSpec => []OwnerIsTold
<1>1. PlansSafe => OwnerIsTold
  BY DEF PlansSafe
<1> QED
  BY <1>1, PlansStart, PlansStaySafe, PTL DEF PlanSpec

\* After the sweep nobody is left who is to know of a review and was not reminded of its date:
\* run_improvement_review_sweep, whose key holds the date.
THEOREM ReviewsRemembered ==
    PlanSpec => []DuePlanIsRemembered
<1>1. PlansSafe => DuePlanIsRemembered
  BY DEF PlansSafe
<1> QED
  BY <1>1, PlansStart, PlansStaySafe, PTL DEF PlanSpec
=============================================================================
