------------------------------ MODULE MacTable ------------------------------
(***************************************************************************)
(* The data of a switch's MAC forwarding table and the operations on it    *)
(* (inet MacForwardingTable), for one VLAN.  A table maps the addresses it *)
(* knows to an interface and the time of insertion.                        *)
(***************************************************************************)
EXTENDS Integers, Functions

CONSTANTS
  AgingTime,   \* the agingTime parameter
  SimTimeMax   \* SimTime::getMaxTime(), the mark of a permanent entry

ASSUME AgingAssumption == AgingTime \in Nat /\ SimTimeMax \in Nat

Unknown == -1

EmptyTable == [a \in {} |-> 0]

Entry(interface, time) == [interface |-> interface, time |-> time]

(* Table t with v as the value of key a (insertion into a std::map).       *)
With(t, a, v) == [x \in DOMAIN t \cup {a} |-> IF x = a THEN v ELSE t[x]]

(* Fault: an entry as old as agingTime is still used.                      *)
Aged_Late(entry, horizon) == entry.time < horizon

(* Entries up to the horizon, simTime() - agingTime, are aged.             *)
Aged(entry, horizon) == entry.time <= horizon

(* getUnicastAddressForwardingInterface                                    *)
GetUnicast(table, address, horizon) ==
  IF address \in DOMAIN table /\ ~Aged(table[address], horizon)
    THEN table[address].interface ELSE Unknown

(* Fault: a second assignment renews the entry but does not fix it.        *)
SetUnicast_Ages(table, interface, address) ==
  With(table, address, Entry(interface, -1))

(* setUnicastAddressForwardingInterface: a new entry is marked with time   *)
(* -1, an existing one becomes permanent.                                  *)
SetUnicast(table, interface, address) ==
  With(table, address,
       Entry(interface, IF address \in DOMAIN table THEN SimTimeMax ELSE -1))

(* removeAgedEntriesFromAllVlans                                           *)
RemoveAged(table, horizon) ==
  Restrict(table, {a \in DOMAIN table : ~Aged(table[a], horizon)})

(* Fault: learning moves every entry and keeps the later of the two times. *)
Learned_Always(table, interface, address, now) ==
  LET known == address \in DOMAIN table /\ table[address].time > now
  IN  With(table, address,
           Entry(interface, IF known THEN table[address].time ELSE now))

(* The entry part of learnUnicastAddressForwardingInterface: permanent     *)
(* entries are left alone.                                                 *)
Learned(table, interface, address, now) ==
  IF address \in DOMAIN table /\ table[address].time = SimTimeMax
    THEN table
    ELSE With(table, address, Entry(interface, now))
=============================================================================
