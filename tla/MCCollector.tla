---------------------------- MODULE MCCollector ----------------------------
(***************************************************************************)
(* TLC instances of Collector, on the wikis of appsettings.json.  Binding  *)
(* adds the two it lists to the default of CollectorOptions.cs, so that    *)
(* the first is polled twice in a round.                                   *)
(***************************************************************************)
EXTENDS Collector

CONSTANTS ruwiki, enwiki

BoundWikis == <<ruwiki, ruwiki, enwiki>>
=============================================================================
