---------------------------- MODULE MCLoadBalance ----------------------------
(* LoadBalance for TLC: lists of two and three backends.                   *)
EXTENDS LoadBalance

CONSTANTS b1, b2, b3

TwoBackends == <<b1, b2>>
ThreeBackends == <<b1, b2, b3>>
=============================================================================
