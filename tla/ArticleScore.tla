---------------------------- MODULE ArticleScore ----------------------------
(***************************************************************************)
(* The formula of ArticleConflictScoreCalculator.cs over its counts.       *)
(*                                                                         *)
(*   counts.edits          edits of the last six hours                     *)
(*   counts.reverts        non-self reverts among them                     *)
(*   counts.cleanups       cleanup reverts among those                     *)
(*   counts.pairs          reciprocal pairs of the last day                *)
(*   counts.participants   users of the last day                           *)
(*   counts.risk           HasThreeRevertRisk                              *)
(*                                                                         *)
(* A score is an exact fraction [num, den] of hundredths of a point; the   *)
(* code computes it in doubles.  DisputedFragments is never filled, so its *)
(* criterion is worth nothing.                                             *)
(***************************************************************************)
EXTENDS Points

\* Most edits the runtime state keeps: ConflictDetectorOptions as shipped.
ShippedEditWindow == 100

\* Mutant: the revert criterion counts their share of the edits.
GainsOfShare(counts) ==
    50 * Capped(counts.edits, 20)
        + (IF counts.edits = 0 THEN 0 ELSE (3000 * counts.reverts) \div counts.edits)
        + 1250 * Capped(counts.pairs, 2) + 125 * Capped(counts.participants, 8)
        + (IF counts.risk THEN 1000 ELSE 0)

Gains(counts) ==
    50 * Capped(counts.edits, 20) + 500 * Capped(counts.reverts, 6)
        + 1250 * Capped(counts.pairs, 2) + 125 * Capped(counts.participants, 8)
        + (IF counts.risk THEN 1000 ELSE 0)

\* The penalty is 20 points times the share of cleanups among the reverts.
Calculate(counts) ==
    LET den == IF counts.reverts = 0 THEN 1 ELSE counts.reverts
    IN  [num |-> Clamp(Gains(counts) * den - 2000 * counts.cleanups, 0, 10000 * den),
         den |-> den]

AtLeast(score, hundredths) == score.num >= hundredths * score.den

StatusFor(score, threeRevertRisk) ==
    IF AtLeast(score, 8000) THEN "HighRisk"
    ELSE IF threeRevertRisk THEN "ThreeRevertRisk"
    ELSE IF AtLeast(score, 6000) THEN "EditWarCandidate"
    ELSE IF AtLeast(score, 4000) THEN "Disputed"
    ELSE IF AtLeast(score, 2000) THEN "Active"
    ELSE "Normal"

\* Math.Round(score, 2) may be n hundredths: one of the nearest, as a double
\* that stands for a tie may lie on either side of it.
MayBeShownAs(score, n) ==
    2 * n * score.den - score.den <= 2 * score.num /\ 2 * score.num <= 2 * n * score.den + score.den
=============================================================================
