------------------------------ MODULE MCCorpus ------------------------------
(* Corpus on a small instance: one window, a batch of two matches.  The first
   match has no Canonical, the second a checkpoint every other tick, and the
   third is stopped before its first tick.                                   *)
EXTENDS Corpus

CONSTANTS w, batch

MCWindows == { w }
MCCanonical == { 2, 3 }
MCEvery == << 0, 2, 0 >>
MCTicks == << 1, 2, 0 >>
=============================================================================
