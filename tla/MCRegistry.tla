---------------------------- MODULE MCRegistry ----------------------------
EXTENDS Registry

CONSTANTS a1, a2, s1, s2

\* A server with weight 2 and one with weight 1.
MCServers == <<[alias |-> s1, weight |-> 2], [alias |-> s2, weight |-> 1]>>
=============================================================================
