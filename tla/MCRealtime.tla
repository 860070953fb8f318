------------------------------ MODULE MCRealtime ------------------------------
(***************************************************************************)
(* TLC instance of Realtime: the bounds are in the configuration.          *)
(***************************************************************************)
EXTENDS Realtime
=============================================================================
