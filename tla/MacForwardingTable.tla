------------------------- MODULE MacForwardingTable -------------------------
(***************************************************************************)
(* The MAC forwarding table of one switch: learning and aging of unicast   *)
(* addresses, entries set by configurators, multicast entries, and the     *)
(* forwardingTable parameter that replaces all of it.                      *)
(***************************************************************************)
EXTENDS MacTable, Sequences

CONSTANTS
  Addresses,        \* unicast MAC addresses
  Groups,           \* multicast MAC addresses
  Interfaces,       \* interface ids of the switch
  ForwardingTables, \* values the forwardingTable parameter may get
  AgingTimes,       \* arguments of setAgingTime, -1 for the parameter
  PurgeInterval,    \* at most one purge in this time (1 s)
  MaxNow            \* bound on the simulation time

ASSUME TableAssumption ==
  /\ Unknown \notin Interfaces
  /\ PurgeInterval \in Nat /\ MaxNow \in Nat /\ MaxNow < SimTimeMax
  /\ \A rules \in ForwardingTables :
       Len(rules) \in Nat /\ DOMAIN rules = 1 .. Len(rules)
  /\ AgingTimes \subseteq Nat \cup {-1}
  /\ Addresses \cap Groups = {}

VARIABLES
  table,      \* forwardingTable
  multicast,  \* multicastForwardingTable
  lastPurge,
  agingTime,
  now,        \* simulation time
  heard,      \* history: where and when an address was seen last
  assigned,   \* history: the interface assigned last to an address
  error       \* a runtime error ended the simulation

vars == <<table, multicast, lastPurge, agingTime, now, heard, assigned, error>>

NotHeard == Entry(Unknown, -1)

Horizon == now - agingTime

-----------------------------------------------------------------------------
Init ==
  /\ table = EmptyTable
  /\ multicast = EmptyTable
  /\ lastPurge = 0
  /\ agingTime = AgingTime
  /\ now = 0
  /\ heard = [a \in Addresses |-> NotHeard]
  /\ assigned = EmptyTable
  /\ error = FALSE

(* Fault: aged entries are purged a moment too early.                      *)
Purged_Early ==
  IF now >= lastPurge + PurgeInterval THEN RemoveAged(table, Horizon + 1) ELSE table

(* removeAgedEntriesIfNeeded                                               *)
Purged ==
  IF now >= lastPurge + PurgeInterval THEN RemoveAged(table, Horizon) ELSE table

(* Fault: lastPurge is set to the next purge.                              *)
Learn_NextPurge(i, a) ==
  /\ ~error
  /\ table' = Learned(Purged, i, a, now)
  /\ lastPurge' = now + PurgeInterval
  /\ heard' = [heard EXCEPT ![a] = Entry(i, now)]
  /\ UNCHANGED <<multicast, agingTime, now, assigned, error>>

(* learnUnicastAddressForwardingInterface                                  *)
Learn(i, a) ==
  /\ ~error
  /\ table' = Learned(Purged, i, a, now)
  /\ lastPurge' = now
  /\ heard' = [heard EXCEPT ![a] = Entry(i, now)]
  /\ UNCHANGED <<multicast, agingTime, now, assigned, error>>

SetUnicastAddress(i, a) ==
  /\ ~error
  /\ table' = SetUnicast(table, i, a)
  /\ assigned' = With(assigned, a, i)
  /\ UNCHANGED <<multicast, lastPurge, agingTime, now, heard, error>>

RemoveUnicastAddress(a) ==
  /\ ~error
  /\ IF a \in DOMAIN table
       THEN /\ table' = Restrict(table, DOMAIN table \ {a})
            /\ assigned' = Restrict(assigned, DOMAIN assigned \ {a})
            /\ UNCHANGED error
       ELSE /\ error' = TRUE
            /\ UNCHANGED <<table, assigned>>
  /\ UNCHANGED <<multicast, lastPurge, agingTime, now, heard>>

AddMulticastAddress(i, g) ==
  /\ ~error
  /\ IF g \in DOMAIN multicast /\ i \in multicast[g]
       THEN error' = TRUE /\ UNCHANGED multicast
       ELSE /\ multicast' = With(multicast, g,
                               {i} \cup IF g \in DOMAIN multicast
                                        THEN multicast[g] ELSE {})
            /\ UNCHANGED error
  /\ UNCHANGED <<table, lastPurge, agingTime, now, heard, assigned>>

(* removeMulticastAddressForwardingInterface throws "Cannot find           *)
(* interface" if the entry contains the interface; otherwise there is      *)
(* nothing to remove.                                                      *)
RemoveMulticastAddress(i, g) ==
  /\ ~error
  /\ error' = (g \in DOMAIN multicast => i \in multicast[g])
  /\ UNCHANGED <<table, multicast, lastPurge, agingTime, now, heard, assigned>>

RemoveForwardingInterface(i) ==
  /\ ~error
  /\ table' = Restrict(table, {a \in DOMAIN table : table[a].interface # i})
  /\ assigned' = Restrict(assigned, {a \in DOMAIN assigned : assigned[a] # i})
  /\ UNCHANGED <<multicast, lastPurge, agingTime, now, heard, error>>

ReplaceForwardingInterface(old, new) ==
  LET Moved(i) == IF i = old THEN new ELSE i IN
  /\ ~error
  /\ table' = [a \in DOMAIN table |->
                 Entry(Moved(table[a].interface), table[a].time)]
  /\ assigned' = [a \in DOMAIN assigned |-> Moved(assigned[a])]
  /\ heard' = [a \in Addresses |->
                 Entry(Moved(heard[a].interface), heard[a].time)]
  /\ UNCHANGED <<multicast, lastPurge, agingTime, now, error>>

(***************************************************************************)
(* handleParameterChange of forwardingTable: clear both tables, then set   *)
(* the entries listed.  The first one with an unknown address or interface *)
(* ends the simulation, and so does one that repeats an address (a group:  *)
(* an address and interface).                                              *)
(***************************************************************************)
Refused(rules, k) ==
  LET rule == rules[k]
  IN  \/ rule.address \notin Addresses \cup Groups
      \/ rule.interface \notin Interfaces
      \/ \E j \in 1 .. k - 1 :
           /\ rules[j].address = rule.address
           /\ rule.address \in Groups => rules[j].interface = rule.interface

Accepted(rules) ==
  {rules[k] : k \in {n \in DOMAIN rules : \A j \in 1 .. n : ~Refused(rules, j)}}

SetForwardingTable(rules) ==
  LET accepted == Accepted(rules)
      listed == {rule.address : rule \in accepted}
  IN  /\ ~error
      /\ assigned' = [a \in Addresses \cap listed |->
                        (CHOOSE rule \in accepted : rule.address = a).interface]
      /\ table' = [a \in Addresses \cap listed |-> Entry(assigned'[a], -1)]
      /\ multicast' = [g \in Groups \cap listed |->
                         {rule.interface : rule \in {x \in accepted : x.address = g}}]
      /\ error' = \E k \in DOMAIN rules : Refused(rules, k)
      /\ UNCHANGED <<lastPurge, agingTime, now, heard>>

SetAgingTime(t) ==
  /\ ~error
  /\ agingTime' = IF t = -1 THEN AgingTime ELSE t
  /\ UNCHANGED <<table, multicast, lastPurge, now, heard, assigned, error>>

(* handleStopOperation, handleCrashOperation                               *)
ClearTable ==
  /\ ~error
  /\ table' = EmptyTable
  /\ multicast' = EmptyTable
  /\ assigned' = EmptyTable
  /\ UNCHANGED <<lastPurge, agingTime, now, heard, error>>

Tick ==
  /\ ~error
  /\ now < MaxNow
  /\ now' = now + 1
  /\ UNCHANGED <<table, multicast, lastPurge, agingTime, heard, assigned, error>>

Halted == error /\ UNCHANGED vars

Next ==
  \/ \E i \in Interfaces, a \in Addresses :
       Learn(i, a) \/ SetUnicastAddress(i, a)
  \/ \E a \in Addresses : RemoveUnicastAddress(a)
  \/ \E i \in Interfaces, g \in Groups :
       AddMulticastAddress(i, g) \/ RemoveMulticastAddress(i, g)
  \/ \E i \in Interfaces : RemoveForwardingInterface(i)
  \/ \E i, j \in Interfaces : i # j /\ ReplaceForwardingInterface(i, j)
  \/ \E rules \in ForwardingTables : SetForwardingTable(rules)
  \/ \E t \in AgingTimes : SetAgingTime(t)
  \/ ClearTable
  \/ Tick
  \/ Halted

Spec == Init /\ [][Next]_vars

-----------------------------------------------------------------------------
(* Type invariant of the table.                                            *)
TypeOK ==
  /\ DOMAIN table \subseteq Addresses
  /\ \A a \in DOMAIN table :
       table[a] \in [interface: Interfaces, time: -1 .. now \cup {SimTimeMax}]
  /\ DOMAIN multicast \subseteq Groups
  /\ \A g \in DOMAIN multicast : multicast[g] \subseteq Interfaces
  /\ lastPurge \in 0 .. now /\ agingTime \in Nat

(* A lookup never returns stale knowledge: the interface it returns was    *)
(* assigned to the address, or the address was seen on it less than        *)
(* agingTime ago, whatever purges, removals and resets came between.       *)
LookupIsCurrent ==
  \A a \in Addresses :
    LET i == GetUnicast(table, a, Horizon) IN
    i # Unknown =>
      \/ heard[a].interface = i /\ heard[a].time > now - agingTime
      \/ a \in DOMAIN assigned /\ assigned[a] = i

(* Purging is housekeeping: learning one address never changes what is     *)
(* looked up for another, although it may remove entries.                  *)
PurgeIsInvisible ==
  [][ \A i \in Interfaces, b \in Addresses : Learn(i, b) =>
        \A a \in Addresses \ {b} :
          GetUnicast(table', a, Horizon') = GetUnicast(table, a, Horizon) ]_vars

(* An entry that aging never touches belongs to an assignment that is      *)
(* still in force: learning a new place for the address, or replacing and  *)
(* removing interfaces, leaves no permanent entry nobody asked for.        *)
PermanentEntriesAreAssigned ==
  \A a \in DOMAIN table :
    table[a].time = SimTimeMax =>
      a \in DOMAIN assigned /\ table[a].interface = assigned[a]
=============================================================================
