--------------------------- MODULE MCConsumerLoop ---------------------------
(***************************************************************************)
(* TLC instance of ConsumerLoop: two processes of a group that rebalance.  *)
(***************************************************************************)
EXTENDS ConsumerLoop
=============================================================================
