----------------------------- MODULE TopicScore -----------------------------
(***************************************************************************)
(* ThreeRevertWatch.Aggregator/Services/TopicScoreCalculator.cs.           *)
(*                                                                         *)
(* An article score is rounded to two decimals, and is kept in hundredths. *)
(* A topic score is a sum of fractions with denominators 6, 5 and 8, and   *)
(* is kept in units of 1/120, exactly; the code computes it in doubles.    *)
(***************************************************************************)
EXTENDS Points

ActiveAt == 3000                \* ConflictScore >= 30
HighRiskAt == 7000              \* ConflictScore >= 70

\* active, highRisk: how many articles are; reverts, participants: their sums.
RawScore(active, highRisk, reverts, participants) ==
    Capped(active, 10) * 240 + Capped(reverts, 30) * 100 + Capped(participants, 25) * 72
        + Capped(highRisk, 5) * 600 + Capped(active, 8) * 225

Calculate(active, highRisk, reverts, participants) ==
    Clamp(RawScore(active, highRisk, reverts, participants), 0, 12000)

TopicStatusFor(score) ==
    IF score >= 9600 THEN "HighRisk"
    ELSE IF score >= 7200 THEN "ActiveEditWarCandidate"
    ELSE IF score >= 4800 THEN "ActiveDispute"
    ELSE IF score >= 2400 THEN "Watching"
    ELSE "Quiet"

\* Math.Round(score, 2): the score shown, in hundredths, halves to even.
Shown(score) ==
    LET q == (5 * score) \div 6
        r == (5 * score) % 6
    IN  IF r > 3 \/ (r = 3 /\ q % 2 = 1) THEN q + 1 ELSE q
=============================================================================
