---------------------------- MODULE MCReadModel ----------------------------
(***************************************************************************)
(* TLC instances of ReadModel: two articles of a topic in an edit war.     *)
(***************************************************************************)
EXTENDS ReadModel

OnlyHot == {[score |-> 8250, reverts |-> 7, participants |-> 8]}
=============================================================================
