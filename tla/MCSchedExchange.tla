-------------------------- MODULE MCSchedExchange --------------------------
(* A small instance of SchedExchange: the TSN NIC and a switch, which has  *)
(* ports to a platoon device and to two displays of one vector.            *)
EXTENDS SchedExchange

(* Two overlapping rules; nothing matches the third packet name.           *)
MCRules ==
  << [matches |-> {"beacon"}, pcp |-> 0, destination |-> "platoonDevice"],
     [matches |-> {"beacon", "video"}, pcp |-> 1, destination |-> "display0"] >>

(* At the gate of its traffic class, which is not that of its pcp.         *)
MCStaticStreams ==
  << [pcp |-> 1, gateIndex |-> 0, destination |-> "display0", packetTime |-> 1] >>

(* The name of a module of a vector is that of all of its modules.         *)
MCGetName ==
  [d \in {"platoonDevice", "display0", "display1"} |->
     IF d = "platoonDevice" THEN d ELSE "display"]

MCNodesNamed ==
  [n \in {"platoonDevice", "display"} |->
     IF n = "display" THEN {"display0", "display1"} ELSE {n}]

MCPath ==
  [n \in {"platoonDevice", "display0", "display1"} |-> {"switch", n}]

MCGateOrder ==
  << <<"switch", 0>>, <<"switch", 1>>,
     <<"platoonDevice", 0>>, <<"platoonDevice", 1>>,
     <<"display0", 0>>, <<"display0", 1>>,
     <<"display1", 0>>, <<"display1", 1>> >>
=============================================================================
