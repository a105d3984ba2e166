----------------------------- MODULE MCExchange -----------------------------
(* Instances of Exchange for TLC.                                          *)
EXTENDS Exchange, TLC

\* The notify channels are interchangeable.
ChanSymmetry == Permutations(Chans)
=============================================================================
