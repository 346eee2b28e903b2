--------------------- MODULE ForwardingAutoConfigurator ---------------------
(***************************************************************************)
(* Cars join and leave a running simulation.  When the TSN NIC of a car is *)
(* created it announces itself, and the configurator enters the NIC's MAC  *)
(* addresses into the switch of every other car, towards that car's own    *)
(* NIC, and theirs into its own (ForwardingAutoConfigurator, TsnNic, and   *)
(* the part of MacForwardingTableConfigurator that fills the tables).      *)
(*                                                                         *)
(* Each car has one switch.  Its table at first knows the wired interface  *)
(* of the car's own NIC, behind port NicPort.  The group of the wireless   *)
(* network may also have members among the devices of the car: by default  *)
(* it is 224.0.0.1, which every host joins.                                *)
(***************************************************************************)
EXTENDS MacTable, Sequences, FiniteSetsExt, TLC

CONSTANTS
  Cars,         \* cars that may join, each at most once
  NicInterfaces,\* interfaces of a NIC in interface table order
  Ports,        \* the ports of a car's switch
  NicPort,      \* the port of a car's switch that leads to its NIC
  Memberships,  \* sets of ports where members of the group are announced
  MaxNow        \* bound on the simulation time

(* LinkLayerNodeBase.ned declares lo, wlan and eth in this order.          *)
ASSUME NicAssumption ==
  /\ NicInterfaces \in Seq(STRING) /\ Len(NicInterfaces) >= 2
  /\ NicInterfaces[Len(NicInterfaces)] = "eth0"
  /\ NicPort \in Ports /\ Unknown \notin Ports
  /\ Memberships \subseteq SUBSET Ports

ASSUME TimeAssumption == MaxNow \in Nat /\ MaxNow < SimTimeMax

VARIABLES
  joined,     \* cars that have joined, present or not, and when
  present,    \* cars in the simulation
  registered, \* registerdNics
  table,      \* the forwarding table of each joined car's switch
  multicast,  \* the ports of the wireless group in each switch
  members,    \* the ports of that group in configurations, of each car
  reset,      \* history: <<c, d>> if the table of c was reset after d joined
  skipped,    \* history: cars whose NIC was taken for a registered one
  now,
  crashed     \* a deleted module was used

vars == <<joined, present, registered, table, multicast, members, reset,
          skipped, now, crashed>>

-----------------------------------------------------------------------------
Mac(car, interface) == <<car, interface>>

Horizon == now - AgingTime

ExternalInterfaces == {"wlan0", "eth0"}

MacsOf(cars) == cars \X ExternalInterfaces

(* The entries MacForwardingTableConfigurator computes: the wired          *)
(* interface of the NIC.  They are set once, hence marked with time -1.    *)
StaticTable(car) == SetUnicast(EmptyTable, NicPort, Mac(car, "eth0"))

(* setUnicastAddressForwardingInterface for every address of macs.         *)
SetAll(t, port, macs) ==
  [a \in DOMAIN t \cup macs |->
     IF a \in macs THEN SetUnicast(t, port, a)[a] ELSE t[a]]

(* The loop over the interfaces of the car's own NIC: every MAC address is *)
(* set to the port where that interface is found, also when it is unknown. *)
Configure(t, car, macs) ==
  LET after[i \in 0 .. Len(NicInterfaces)] ==
        IF i = 0 THEN t
        ELSE SetAll(after[i - 1],
                    GetUnicast(after[i - 1], Mac(car, NicInterfaces[i]), Horizon), macs)
  IN  after[Len(NicInterfaces)]

(* Fault: the test for an unknown interface is missing.                    *)
ConfigureMulticast_Unknown(ports, t, car) ==
  IF ports # {} THEN ports
  ELSE {GetUnicast(t, Mac(car, NicInterfaces[1]), Horizon)}

(* In the same loop the multicast address is entered at the port of the    *)
(* first interface that is known, unless it has an entry already.          *)
ConfigureMulticast(ports, t, car) ==
  LET Port(i) == GetUnicast(t, Mac(car, NicInterfaces[i]), Horizon)
      known == {i \in DOMAIN NicInterfaces : Port(i) # Unknown}
  IN  IF ports # {} \/ known = {} THEN ports ELSE {Port(Min(known))}

-----------------------------------------------------------------------------
Init ==
  /\ joined = EmptyTable
  /\ present = {}
  /\ registered = {}
  /\ table = EmptyTable
  /\ multicast = EmptyTable
  /\ members = EmptyTable
  /\ reset = {}
  /\ skipped = {}
  /\ now = 0
  /\ crashed = FALSE

(***************************************************************************)
(* A car is created, its table is filled and its NIC announces itself:     *)
(* registerNic.  It reads the interface tables of all registered NICs; for *)
(* a NIC that was deleted this is undefined and may end the simulation.    *)
(* Memberships announced between INITSTAGE_NETWORK_CONFIGURATION and       *)
(* INITSTAGE_STATIC_ROUTING precede the registration: entered.             *)
(***************************************************************************)
Join(car, entered) ==
  LET tables == With(table, car, StaticTable(car))
      groups == With(multicast, car, entered)
      News(c) == IF c = car THEN MacsOf(registered) ELSE MacsOf({car})
  IN  /\ ~crashed
      /\ car \notin DOMAIN joined
      /\ joined' = With(joined, car, now)
      /\ present' = present \cup {car}
      /\ registered' = registered \cup {car}
      /\ crashed' \in IF registered \subseteq present THEN {FALSE} ELSE BOOLEAN
      /\ table' = [c \in present' |-> Configure(tables[c], c, News(c))]
      /\ multicast' = [c \in present' |->
                         IF registered = {} THEN groups[c]
                         ELSE ConfigureMulticast(groups[c], tables[c], c)]
      /\ members' = With(members, car, entered)
      /\ UNCHANGED <<reset, skipped, now>>

(***************************************************************************)
(* registerdNics keeps the pointers of deleted NICs.  When the new NIC is  *)
(* created at the address of one of them, the insertion finds it in the    *)
(* set and registerNic returns before it configures anything.              *)
(***************************************************************************)
JoinAtOldAddress(car, old, entered) ==
  /\ ~crashed
  /\ car \notin DOMAIN joined
  /\ old \in registered \ present
  /\ joined' = With(joined, car, now)
  /\ present' = present \cup {car}
  /\ registered' = (registered \ {old}) \cup {car}
  /\ crashed' \in IF registered' \subseteq present' THEN {FALSE} ELSE BOOLEAN
  /\ table' = With(table, car, StaticTable(car))
  /\ multicast' = With(multicast, car, entered)
  /\ members' = With(members, car, entered)
  /\ skipped' = skipped \cup {car}
  /\ UNCHANGED <<reset, now>>

(* The modules of a car are finished and deleted; deleteNic does nothing.  *)
Leave(car) ==
  /\ ~crashed
  /\ car \in present
  /\ present' = present \ {car}
  /\ table' = Restrict(table, present')
  /\ multicast' = Restrict(multicast, present')
  /\ members' = Restrict(members, present')
  /\ UNCHANGED <<joined, registered, reset, skipped, now, crashed>>

(***************************************************************************)
(* A multicast membership of a device in the car changes: the group is     *)
(* entered into configurations at the port of the device, unless it is     *)
(* there already or no path leads to the interface, and the                *)
(* forwardingTable parameter of the switch is set again.  A device that    *)
(* leaves the group is entered as well, and no rule is ever removed.  What *)
(* is entered for the wireless group is entered; for any other group this  *)
(* is empty.                                                               *)
(***************************************************************************)
MulticastChange(car, entered) ==
  /\ ~crashed
  /\ car \in present
  /\ members' = [members EXCEPT ![car] = @ \cup entered]
  /\ table' = [table EXCEPT ![car] = StaticTable(car)]
  /\ multicast' = [multicast EXCEPT ![car] = members'[car]]
  /\ reset' = reset \cup {<<car, c>> : c \in DOMAIN joined}
  /\ UNCHANGED <<joined, present, registered, skipped, now, crashed>>

(* The NIC of the car sends a frame on its wired interface; the switch     *)
(* learns its address, and purges if the last purge is long enough ago.    *)
Forward(car) ==
  /\ ~crashed
  /\ car \in present
  /\ \E t \in {table[car], RemoveAged(table[car], Horizon)} :
       table' = [table EXCEPT ![car] =
                   Learned(t, NicPort, Mac(car, "eth0"), now)]
  /\ UNCHANGED <<joined, present, registered, multicast, members, reset,
                 skipped, now, crashed>>

Tick ==
  /\ ~crashed
  /\ now < MaxNow
  /\ now' = now + 1
  /\ UNCHANGED <<joined, present, registered, table, multicast, members, reset,
                 skipped, crashed>>

Halted == (crashed \/ now = MaxNow) /\ UNCHANGED vars

Next ==
  \/ \E car \in Cars, entered \in Memberships :
       \/ Join(car, entered)
       \/ \E old \in Cars : JoinAtOldAddress(car, old, entered)
       \/ MulticastChange(car, entered)
  \/ \E car \in Cars : Leave(car) \/ Forward(car)
  \/ Tick
  \/ Halted

Spec == Init /\ [][Next]_vars

-----------------------------------------------------------------------------
(* Type invariant of the fleet.                                            *)
TypeOK ==
  /\ DOMAIN joined \subseteq Cars
  /\ present \subseteq DOMAIN joined
  /\ registered \subseteq DOMAIN joined /\ present \subseteq registered
  /\ DOMAIN table = present /\ DOMAIN multicast = present
  /\ DOMAIN members = present
  /\ \A c \in present :
       /\ DOMAIN table[c] \subseteq MacsOf(Cars)
       /\ \A mac \in DOMAIN table[c] : table[c][mac].interface \in {NicPort, Unknown}
       /\ multicast[c] \subseteq Ports /\ members[c] \subseteq Ports

Reaches(c, d) ==
  \A i \in ExternalInterfaces : GetUnicast(table[c], Mac(d, i), Horizon) = NicPort

(***************************************************************************)
(* Cars that joined while configured entries are still valid (before       *)
(* agingTime - 1), and whose registration was not skipped, reach each      *)
(* other for ever: whatever joins, leaves and ages later, the switch of    *)
(* one sends frames for the other to its NIC.  A reset of its table by a   *)
(* multicast change loses the cars registered before it, and no later one. *)
(* The entries last because registerNic sets each of them once for every   *)
(* interface of the NIC, and they are right because the wired interface is *)
(* the last of these.                                                      *)
(***************************************************************************)
JoinedEarly(c) == joined[c] < AgingTime - 1 /\ c \notin skipped

EarlyCarsReachEachOther ==
  \A c \in present, d \in present :
    c # d /\ JoinedEarly(c) /\ JoinedEarly(d) /\ <<c, d>> \notin reset
    => Reaches(c, d)

(***************************************************************************)
(* Where the group of the wireless network leads.  If the car has no       *)
(* members of its own, it leads to the NIC or nowhere, and in the switch   *)
(* of an early car to the NIC as soon as there is another early car (after *)
(* a reset, as soon as another one joins).  Once a member was announced    *)
(* the group leads to the members alone, in every car and for ever: the    *)
(* tests for an empty entry keep the NIC out unless it is a member itself, *)
(* although registerNic says "add the multicast address for the wireless   *)
(* network".                                                               *)
(***************************************************************************)
Accompanied(c) ==
  \E d \in DOMAIN joined \ {c} : JoinedEarly(d) /\ <<c, d>> \notin reset

GroupLeadsToMembersOrNic ==
  \A c \in present :
    /\ members[c] # {} => multicast[c] = members[c]
    /\ members[c] = {} => multicast[c] \subseteq {NicPort}
    /\ members[c] = {} /\ JoinedEarly(c) /\ Accompanied(c)
       => multicast[c] = {NicPort}

(* ForwardingAutoConfigurator.ned, "register ... external interfaces in    *)
(* the internal network of all other nodes": every two cars reach each     *)
(* other, whenever they joined (as long as no registration was skipped).   *)
CarsReachEachOther ==
  \A c, d \in present \ skipped : c # d /\ <<c, d>> \notin reset => Reaches(c, d)
=============================================================================
