------------------------------ MODULE MCTraffic ------------------------------
(***************************************************************************)
(* The traffic of a connection for TLC: its channels (Channels), the       *)
(* packets of one channel (Framing) and the count of its requests          *)
(* (Measure).  The three have no variable in common, so a property of one  *)
(* holds when it holds while the others stay where they begin: part is the *)
(* one that moves in a behaviour.                                          *)
(***************************************************************************)
EXTENDS Channels, Framing, MCMeasure

VARIABLE part

trafficVars == <<part, vars, framingVars, measureVars>>

\* One of the beginnings of Framing is enough when it does not move.
TrafficInit ==
  /\ part \in {"channels", "framing", "measure"}
  /\ Init /\ FramingInit /\ MeasureInit
  /\ part # "framing" => role = "client" /\ ~foreign

TrafficNext ==
  /\ UNCHANGED part
  /\ \/ part = "channels" /\ Next /\ UNCHANGED <<framingVars, measureVars>>
     \/ part = "framing" /\ FramingNext /\ UNCHANGED <<vars, measureVars>>
     \/ part = "measure" /\ MeasureNext /\ UNCHANGED <<vars, framingVars>>

TrafficSpec == TrafficInit /\ [][TrafficNext]_trafficVars
=============================================================================
