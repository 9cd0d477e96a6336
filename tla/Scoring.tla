------------------------------- MODULE Scoring -------------------------------
(***************************************************************************)
(* The arithmetic of a result.  A form has questions of two sections, each *)
(* scored 1 to 5; the scheme of the case weighs questions and sections and *)
(* says what the result leads to.  Percentages are in tenths, bonus points *)
(* in hundredths, section weights in thousandths as their columns keep     *)
(* them; the upper end of a band is the first tenth that is not under it.  *)
(* A value half-way between two tenths, which binary floats round either   *)
(* way, is kept out of instances.                                          *)
(***************************************************************************)
EXTENDS Integers, Sequences, FiniteSetsExt

CONSTANTS
    General, Specialized,   \* questions
    Schemes,                \* general, specialized, weight, bonus_max, uppers
    Bonuses

Questions == General \cup Specialized

\* What a scheme that SchemeInput let through is stored as.  The two weights add up to 1 at six
\* decimals before each is rounded to three: 0.3335 and 0.6665 become 0.334 and 0.667.
valid_scheme(s) ==
    /\ s.general \in 0 .. 1000 /\ s.specialized \in 0 .. 1000
    /\ s.general + s.specialized \in 999 .. 1001
    /\ \A q \in Questions : s.weight[q] \in Nat \ {0}
    /\ s.bonus_max \in Nat
    /\ s.uppers \in Seq(Nat) /\ s.uppers # <<>>
    /\ \A i \in 1 .. Len(s.uppers) - 1 : s.uppers[i] <= s.uppers[i + 1]
    /\ s.uppers[Len(s.uppers)] > 1000

ASSUME SchemesAssumption ==
    /\ \A s \in Schemes : valid_scheme(s)
    /\ IsFiniteSet(Questions) /\ Bonuses \subseteq Nat

VARIABLES
    scores,   \* 0 for a question the case is not asked
    bonus,
    scheme    \* the one the case is stamped with

scoring_vars == <<scores, bonus, scheme>>

ScoringInit == scores \in [Questions -> {0, 1}] /\ bonus = 0 /\ scheme \in Schemes
-----------------------------------------------------------------------------
rounded(n, d) == (2 * n + d) \div (2 * d)

scored_in(section) == {q \in section : scores[q] # 0}

\* Mutant: the weights of the questions are left out of the maximum of the section.
section_max_unweighted(section) == 5 * Cardinality(scored_in(section))

section_max(section) == MapThenSumSet(LAMBDA q : 5 * scheme.weight[q], scored_in(section))

section_pct(section) ==
    IF section_max(section) = 0 THEN 0
    ELSE rounded(1000 * MapThenSumSet(LAMBDA q : scores[q] * scheme.weight[q], section), section_max(section))

base_pct == rounded(section_pct(General) * scheme.general + section_pct(Specialized) * scheme.specialized, 1000)

\* Mutant: a bonus that does not fit is not granted at all.
applied_bonus_or_nothing == IF bonus + 10 * base_pct > 10000 THEN 0 ELSE bonus

\* As much of the bonus as the scheme allows and as fits under 100.
applied_bonus == Max({0, Min({bonus, scheme.bonus_max, 10000 - 10 * base_pct})})

final_pct == rounded(10 * base_pct + applied_bonus, 10)

\* The first band whose upper end is above the result, or else the last.
recommendation == Min({i \in DOMAIN scheme.uppers : final_pct < scheme.uppers[i]} \cup {Len(scheme.uppers)})
-----------------------------------------------------------------------------
upsert_score(q, n) ==
    /\ scores[q] # 0
    /\ scores' = [scores EXCEPT ![q] = n]
    /\ UNCHANGED <<bonus, scheme>>

\* Refused, not cut, when it is above what the scheme allows.
upsert_bonus(b) ==
    /\ b <= scheme.bonus_max
    /\ bonus' = b
    /\ UNCHANGED <<scores, scheme>>

ScoringNext ==
    \/ \E q \in Questions, n \in 1 .. 5 : upsert_score(q, n)
    \/ \E b \in Bonuses : upsert_bonus(b)

ScoringSpec == ScoringInit /\ [][ScoringNext]_scoring_vars
-----------------------------------------------------------------------------
full_marks ==
    \A section \in {General, Specialized} :
        scored_in(section) # {} /\ \A q \in scored_in(section) : scores[q] = 5

\* A result is no more than the weights of the sections add up to, whatever the weights and the
\* number of the questions, and the whole of it for full marks; a bonus takes nothing away, and
\* brings nobody above 100.
NothingAboveTheWeights ==
    LET whole == scheme.general + scheme.specialized
    IN  /\ base_pct \in 0 .. whole
        /\ final_pct \in base_pct .. Max({1000, base_pct})
        /\ full_marks => base_pct = whole

\* "This column is a percentage everywhere in the system" (compute_result): SchemeInput makes the
\* weights add up to 1, "or else the final score is no percentage any more".
ResultIsAPercentage == base_pct \in 0 .. 1000 /\ final_pct \in 0 .. 1000

\* A better score, or more bonus, never makes the result or its consequence worse, in spite of
\* three roundings and of the caps on the bonus.
BetterIsNotWorse ==
    [][(/\ scores' # scores \/ bonus' # bonus
        /\ \A q \in Questions : scores'[q] >= scores[q]
        /\ bonus' >= bonus)
         => final_pct' >= final_pct /\ recommendation' >= recommendation]_scoring_vars
=============================================================================
