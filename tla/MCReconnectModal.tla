--------------------------- MODULE MCReconnectModal ---------------------------
(***************************************************************************)
(* TLC instance of ReconnectModal: two calls may race.  The theorems cover *)
(* more of them.                                                           *)
(***************************************************************************)
EXTENDS ReconnectModal
=============================================================================
