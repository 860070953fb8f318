------------------------- MODULE MCConflictDetector -------------------------
(***************************************************************************)
(* TLC instances of ConflictDetector.  Users, contents and processes are   *)
(* interchangeable, so the safety runs use their symmetry.                 *)
(***************************************************************************)
EXTENDS ConflictDetector, TLC

\* Plain edits, and edits whose comment or tags say "revert".
PlainOrRevert == {{}, {"revert"}}

\* What the score distinguishes: ordinary edits, reverts and cleanups.
Scored == {{"revert"}, {"vandalism"}}

PlainOnly == {{}}

Symmetry == Permutations(Users) \cup Permutations(Shas)
=============================================================================
