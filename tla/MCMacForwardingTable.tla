------------------------ MODULE MCMacForwardingTable ------------------------
(* Small instances of MacForwardingTable.                                  *)
EXTENDS MacForwardingTable

CONSTANTS m1, m2, g1

MCAddresses == {m1, m2}
MCGroups == {g1}

MCAgingTimes == {-1, 1}

Rule(address, interface) == [address |-> address, interface |-> interface]

(* Rules for an address and for a group, and some that are refused: an     *)
(* interface that is not there, an address, a group entry given twice.     *)
MCForwardingTables ==
  { << >>,
    << Rule(m1, 1) >>,
    << Rule(m1, 2), Rule(g1, 1), Rule(g1, 2) >>,
    << Rule(m2, 1), Rule(m1, 3) >>,
    << Rule(m1, 1), Rule(m1, 2) >>,
    << Rule(g1, 1), Rule(g1, 1) >> }
=============================================================================
