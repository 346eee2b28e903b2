----------------------------- MODULE MCDynSched -----------------------------
(* Small instances of DynSched.                                            *)
EXTENDS DynSched

(* Two rules of which the second is shadowed for one of the packet names,  *)
(* and a name no rule matches.                                             *)
MCRules ==
  << [matches |-> {"beacon"}, pcp |-> 0, destination |-> "platoonDevice"],
     [matches |-> {"beacon", "video"}, pcp |-> 1, destination |-> "display"] >>

MCOneRule ==
  << [matches |-> {"beacon"}, pcp |-> 0, destination |-> "platoonDevice"] >>

MCStaticStreams ==
  << [pcp |-> 0, gateIndex |-> 1, destination |-> "platoonDevice", packetTime |-> 1] >>
=============================================================================
