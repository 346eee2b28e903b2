----------------- MODULE ForwardingAutoConfiguratorProofs -----------------
(***************************************************************************)
(* Cars that join early reach each other, for any number of cars, any      *)
(* aging time and any number of interfaces of a NIC of which the wired one *)
(* is the last.                                                            *)
(***************************************************************************)
EXTENDS ForwardingAutoConfigurator, NaturalsLemmas

HistoryOK ==
  /\ now \in 0 .. MaxNow
  /\ DOMAIN joined # {} => registered # {}

(* What the switch of a car knows of the car's own NIC: it is right, never *)
(* permanent, and there at least until the entries set at the creation of  *)
(* the car have aged.                                                      *)
OwnEntry(c) ==
  LET own == Mac(c, "eth0")
  IN  /\ now < AgingTime - 1 => own \in DOMAIN table[c]
      /\ own \in DOMAIN table[c] => /\ table[c][own].interface = NicPort
                                    /\ table[c][own].time \in -1 .. now

OwnEntries == \A c \in present : OwnEntry(c)

(* Why early cars reach each other for ever: their entries are permanent.  *)
EarlyPairs ==
  \A c \in present, d \in present :
    c # d /\ JoinedEarly(c) /\ JoinedEarly(d) /\ <<c, d>> \notin reset
    => \A i \in ExternalInterfaces :
         /\ Mac(d, i) \in DOMAIN table[c]
         /\ table[c][Mac(d, i)] = Entry(NicPort, SimTimeMax)

FleetInv ==
  TypeOK /\ HistoryOK /\ OwnEntries /\ EarlyPairs /\ GroupLeadsToMembersOrNic

-----------------------------------------------------------------------------
(* f holds the table after each of the first n rounds of Configure.        *)
LoopOf(f, n, t, car, macs) ==
  f = [i \in 0 .. n |->
         IF i = 0 THEN t
         ELSE SetAll(f[i - 1], GetUnicast(f[i - 1], Mac(car, NicInterfaces[i]), Horizon), macs)]

(* The loop of registerNic over the interfaces is well defined.            *)
LEMMA LoopExists ==
  ASSUME NEW t, NEW car, NEW macs, NEW n \in Nat
  PROVE  \E f : LoopOf(f, n, t, car, macs)
<1> USE DEF LoopOf
<1> DEFINE Step(u, i) == SetAll(u, GetUnicast(u, Mac(car, NicInterfaces[i]), Horizon), macs)
           Loop(m, f) == f = [i \in 0 .. m |-> IF i = 0 THEN t ELSE Step(f[i - 1], i)]
           S == {m \in 0 .. n : ~ \E f : Loop(m, f)}
<1>0. n \in 0 .. n
  OBVIOUS
<1>1. SUFFICES ASSUME S # {} PROVE FALSE
  BY <1>0, Zenon
<1>2. PICK m \in S : \A y \in S : m <= y
  <2>1. S \in SUBSET Nat
    OBVIOUS
  <2> HIDE DEF S
  <2> QED BY <1>1, <2>1, SmallestElement
<1>3. m \in 0 .. n /\ ~ \E f : Loop(m, f)
  BY <1>2, Zenon
<1> HIDE DEF Step
<1>4. m # 0
  <2> DEFINE z == [i \in 0 .. 0 |-> t]
  <2>1. Loop(0, z)
    OBVIOUS
  <2> HIDE DEF z
  <2> QED BY <1>3, <2>1, Zenon
<1>5. m - 1 \in 0 .. n /\ m - 1 \notin S
  <2> HIDE DEF S
  <2> QED BY <1>2, <1>3, <1>4
<1>6. PICK f : Loop(m - 1, f)
  BY <1>5, Zenon
<1> DEFINE h == [i \in 0 .. m |-> IF i = m THEN Step(f[m - 1], m) ELSE f[i]]
<1>7. ASSUME NEW i \in 0 .. m
      PROVE  h[i] = IF i = 0 THEN t ELSE Step(h[i - 1], i)
  <2>1. \A j \in 0 .. m - 1 : f[j] = IF j = 0 THEN t ELSE Step(f[j - 1], j)
    BY <1>6
  <2> QED BY <1>3, <1>4, <2>1
<1>8. Loop(m, h)
  <2>1. h = [i \in 0 .. m |-> h[i]]
    OBVIOUS
  <2> HIDE DEF h
  <2> QED BY <1>7, <2>1
<1> QED BY <1>3, <1>8, Zenon

(* What registerNic enters: every address of macs, permanently and at the  *)
(* port of the wired interface; other entries are left alone.              *)
LEMMA ConfigureLemma ==
  ASSUME NEW t, NEW car, NEW macs,
         \A i \in 1 .. Len(NicInterfaces) : Mac(car, NicInterfaces[i]) \notin macs
  PROVE  LET u == Configure(t, car, macs)
         IN  /\ DOMAIN u = DOMAIN t \cup macs
             /\ \A a \in DOMAIN t \ macs : u[a] = t[a]
             /\ \A a \in macs :
                  u[a] = Entry(GetUnicast(t, Mac(car, "eth0"), Horizon), SimTimeMax)
<1> DEFINE n == Len(NicInterfaces)
           Port(u, i) == GetUnicast(u, Mac(car, NicInterfaces[i]), Horizon)
           Step(u, i) == SetAll(u, Port(u, i), macs)
           Loop(f) == f = [i \in 0 .. n |-> IF i = 0 THEN t ELSE Step(f[i - 1], i)]
           after == CHOOSE f : Loop(f)
           Right(i) == /\ DOMAIN after[i] = DOMAIN t \cup macs
                       /\ \A a \in DOMAIN t \ macs : after[i][a] = t[a]
           S == {m \in 1 .. n : ~Right(m)}
<1>0. n \in Nat /\ n >= 2 /\ NicInterfaces[n] = "eth0"
  BY NicAssumption
<1>1. Configure(t, car, macs) = after[n]
  BY DEF Configure
<1>2. Loop(after)
  <2>1. \E f : Loop(f)
    <3>1. \E f : LoopOf(f, n, t, car, macs)
      BY <1>0, LoopExists
    <3> QED BY <3>1, Zenon DEF LoopOf
  <2> QED BY <2>1, Zenon
<1>3. \A i \in 0 .. n : after[i] = IF i = 0 THEN t ELSE Step(after[i - 1], i)
  <2> HIDE DEF after, Step
  <2> QED BY <1>2
<1> HIDE DEF after, n
<1>4. ASSUME NEW u, NEW i
      PROVE  /\ DOMAIN Step(u, i) = DOMAIN u \cup macs
             /\ \A a \in DOMAIN u \ macs : Step(u, i)[a] = u[a]
             /\ \A a \in macs \cap DOMAIN u : Step(u, i)[a] = Entry(Port(u, i), SimTimeMax)
  <2> HIDE DEF Port
  <2> QED BY DEF SetAll, SetUnicast, With
<1>5. S = {}
  <2> SUFFICES ASSUME S # {} PROVE FALSE
    OBVIOUS
  <2>1. PICK m \in S : \A y \in S : m <= y
    <3>1. S \in SUBSET Nat
      BY <1>0
    <3> HIDE DEF S
    <3> QED BY <3>1, SmallestElement
  <2>2. m \in 1 .. n /\ ~Right(m)
    BY <2>1, Zenon
  <2>3. after[m] = Step(after[m - 1], m) /\ after[0] = t
    <3> HIDE DEF Step
    <3> QED BY <1>0, <1>3, <2>2
  <2>4. CASE m = 1
    <3>1. after[m] = Step(t, m)
      <4> HIDE DEF Step
      <4> QED BY <2>3, <2>4
    <3>2. /\ DOMAIN Step(t, m) = DOMAIN t \cup macs
          /\ \A a \in DOMAIN t \ macs : Step(t, m)[a] = t[a]
      BY <1>4, Zenon
    <3> HIDE DEF Step
    <3>3. Right(m)
      BY <3>1, <3>2, Zenon
    <3> QED BY <2>2, <3>3, Zenon
  <2>5. CASE m # 1
    <3>1. m - 1 \in 1 .. n /\ m - 1 \notin S
      <4> HIDE DEF S
      <4> QED BY <1>0, <2>1, <2>2, <2>5
    <3>2. Right(m - 1)
      BY <3>1, Zenon
    <3> DEFINE b == after[m - 1]
    <3>3. /\ DOMAIN Step(b, m) = DOMAIN b \cup macs
          /\ \A a \in DOMAIN b \ macs : Step(b, m)[a] = b[a]
      BY <1>4, Zenon
    <3> HIDE DEF Step
    <3>4. Right(m)
      BY <2>3, <3>2, <3>3
    <3> QED BY <2>2, <3>4, Zenon
  <2> QED BY <2>4, <2>5
<1>6. \A i \in 1 .. n : Right(i)
  BY <1>5, Zenon
<1>7. n \in 1 .. n /\ n - 1 \in 1 .. n /\ n \in 0 .. n /\ n # 0
  BY <1>0
<1>8. after[n] = Step(after[n - 1], n)
  <2> HIDE DEF Step
  <2> QED BY <1>3, <1>7
<1>9. Right(n) /\ Right(n - 1)
  BY <1>6, <1>7, Zenon
<1>10. Port(after[n - 1], n) = GetUnicast(t, Mac(car, "eth0"), Horizon)
  <2>1. Mac(car, "eth0") \notin macs
    BY <1>0, <1>7 DEF n
  <2> QED BY <1>0, <1>9, <2>1 DEF GetUnicast
<1>11. \A a \in macs : after[n][a] = Entry(GetUnicast(t, Mac(car, "eth0"), Horizon), SimTimeMax)
  <2> DEFINE b == after[n - 1]
  <2>1. \A a \in macs \cap DOMAIN b : Step(b, n)[a] = Entry(Port(b, n), SimTimeMax)
    BY <1>4, Zenon
  <2> HIDE DEF Step, Port
  <2> QED BY <1>8, <1>9, <1>10, <2>1
<1> QED BY <1>1, <1>9, <1>11

(* The group is entered at once if the wired interface is known, and never *)
(* at an unknown port.                                                     *)
LEMMA ConfigureMulticastLemma ==
  ASSUME NEW ports, NEW t, NEW car
  PROVE  LET groups == ConfigureMulticast(ports, t, car)
             Port(i) == GetUnicast(t, Mac(car, NicInterfaces[i]), Horizon)
         IN  /\ ports # {} => groups = ports
             /\ ports = {} =>
                  \/ groups = {} /\ GetUnicast(t, Mac(car, "eth0"), Horizon) = Unknown
                  \/ \E i \in DOMAIN NicInterfaces :
                       Port(i) # Unknown /\ groups = {Port(i)}
<1> DEFINE Port(i) == GetUnicast(t, Mac(car, NicInterfaces[i]), Horizon)
           known == {i \in DOMAIN NicInterfaces : Port(i) # Unknown}
<1>0. /\ DOMAIN NicInterfaces = 1 .. Len(NicInterfaces)
      /\ Len(NicInterfaces) \in Nat /\ Len(NicInterfaces) >= 2
      /\ NicInterfaces[Len(NicInterfaces)] = "eth0"
  BY NicAssumption
<1>1. ConfigureMulticast(ports, t, car) =
        IF ports # {} \/ known = {} THEN ports ELSE {Port(Min(known))}
  BY DEF ConfigureMulticast
<1>2. known = {} => GetUnicast(t, Mac(car, "eth0"), Horizon) = Unknown
  <2>1. Len(NicInterfaces) \in DOMAIN NicInterfaces
    BY <1>0
  <2> QED BY <1>0, <2>1, Zenon
<1>3. known # {} => Min(known) \in known
  <2>1. known \in SUBSET Nat
    BY <1>0
  <2> HIDE DEF known
  <2> QED BY <2>1, MinLemma
<1>4. known # {} => /\ Min(known) \in DOMAIN NicInterfaces
                    /\ Port(Min(known)) # Unknown
  BY <1>3, Zenon
<1> HIDE DEF known
<1> QED BY <1>1, <1>2, <1>4, Zenon

-----------------------------------------------------------------------------
(* The table of a new car knows the car's own wired interface and nothing  *)
(* else.                                                                   *)
LEMMA StaticTableLemma ==
  ASSUME NEW c
  PROVE  /\ DOMAIN StaticTable(c) = {Mac(c, "eth0")}
         /\ StaticTable(c)[Mac(c, "eth0")] = Entry(NicPort, -1)
BY DEF StaticTable, SetUnicast, With, EmptyTable

(* A table that is sound for the switch of car c: what TypeOK and OwnEntry *)
(* say of it.                                                              *)
Sound(t, c) ==
  LET own == Mac(c, "eth0")
  IN  /\ DOMAIN t \subseteq MacsOf(Cars)
      /\ \A mac \in DOMAIN t : t[mac].interface \in {NicPort, Unknown}
      /\ now < AgingTime - 1 => own \in DOMAIN t
      /\ own \in DOMAIN t => t[own].interface = NicPort /\ t[own].time \in -1 .. now

(* The tables of the cars in the simulation are sound.                     *)
LEMMA TablesAreSound ==
  ASSUME FleetInv, NEW c \in present
  PROVE  Sound(table[c], c)
BY DEF FleetInv, TypeOK, OwnEntries, OwnEntry, Sound

(* The table of a new car is sound.                                        *)
LEMMA StaticTableIsSound ==
  ASSUME FleetInv, NEW c \in Cars
  PROVE  Sound(StaticTable(c), c)
<1>1. Mac(c, "eth0") \in MacsOf(Cars)
  BY DEF Mac, MacsOf, ExternalInterfaces
<1>2. Entry(NicPort, -1).interface = NicPort /\ Entry(NicPort, -1).time = -1
  BY DEF Entry
<1>3. now \in Nat
  BY TimeAssumption DEF FleetInv, HistoryOK
<1> DEFINE own == Mac(c, "eth0")
           t == StaticTable(c)
<1>4. DOMAIN t = {own} /\ t[own].interface = NicPort /\ t[own].time = -1
  BY <1>2, StaticTableLemma
<1> HIDE DEF t
<1>5. t[own].time \in -1 .. now
  BY <1>3, <1>4
<1>6. Sound(t, c)
  BY <1>1, <1>4, <1>5, Zenon DEF Sound
<1> QED BY <1>6 DEF t

(* A lookup in a sound table finds the NIC or nothing; that of the car's   *)
(* own NIC finds it as long as the entries set at its creation are valid.  *)
LEMMA SoundLookup ==
  ASSUME NEW t, NEW c, Sound(t, c), now \in Nat
  PROVE  /\ \A a : GetUnicast(t, a, Horizon) \in {NicPort, Unknown}
         /\ now < AgingTime - 1 => GetUnicast(t, Mac(c, "eth0"), Horizon) = NicPort
<1>1. \A a : GetUnicast(t, a, Horizon) \in {NicPort, Unknown}
  BY DEF Sound, GetUnicast
<1>2. ASSUME now < AgingTime - 1
      PROVE  GetUnicast(t, Mac(c, "eth0"), Horizon) = NicPort
  <2>1. /\ Mac(c, "eth0") \in DOMAIN t
        /\ t[Mac(c, "eth0")].interface = NicPort
        /\ t[Mac(c, "eth0")].time \in -1 .. now
    BY <1>2 DEF Sound
  <2>2. ~Aged(t[Mac(c, "eth0")], Horizon)
    BY <1>2, <2>1, AgingAssumption DEF Aged, Horizon
  <2> QED BY <2>1, <2>2 DEF GetUnicast
<1> QED BY <1>1, <1>2

(* The invariant in terms of sound tables, for steps that leave the clock  *)
(* alone.                                                                  *)
LEMMA SoundTablesKeepInv ==
  ASSUME FleetInv, now' = now,
         DOMAIN joined' \subseteq Cars,
         present' \subseteq DOMAIN joined', registered' \subseteq DOMAIN joined',
         present' \subseteq registered',
         DOMAIN joined' # {} => registered' # {},
         DOMAIN table' = present', DOMAIN multicast' = present',
         DOMAIN members' = present',
         \A c \in present' : /\ Sound(table'[c], c)
                             /\ multicast'[c] \subseteq Ports /\ members'[c] \subseteq Ports,
         EarlyPairs', GroupLeadsToMembersOrNic'
  PROVE  FleetInv'
<1>1. TypeOK'
  BY DEF TypeOK, Sound
<1>2. HistoryOK'
  BY DEF FleetInv, HistoryOK
<1>3. OwnEntries'
  BY DEF OwnEntries, OwnEntry, Sound
<1> QED BY <1>1, <1>2, <1>3 DEF FleetInv

-----------------------------------------------------------------------------
(* What a registration does to the switch of car c, which had table t and  *)
(* ports group: it gets permanent entries for the addresses macs.          *)
Configured(c, t, group, macs) ==
  /\ Sound(t, c) /\ group \subseteq Ports
  /\ DOMAIN table'[c] = DOMAIN t \cup macs
  /\ \A a \in DOMAIN t \ macs : table'[c][a] = t[a]
  /\ \A a \in macs :
       table'[c][a] = Entry(GetUnicast(t, Mac(c, "eth0"), Horizon), SimTimeMax)
  /\ \A i : Mac(c, i) \notin macs
  /\ macs \subseteq MacsOf(Cars)
  /\ multicast'[c] = IF registered = {} THEN group ELSE ConfigureMulticast(group, t, c)

(* A registration as seen by the switch of car c.                          *)
LEMMA JoinConfigures ==
  ASSUME FleetInv, NEW car \in Cars, NEW entered \in Memberships,
         Join(car, entered), NEW c \in present \cup {car}
  PROVE  Configured(c, IF c = car THEN StaticTable(car) ELSE table[c],
                    IF c = car THEN entered ELSE multicast[c],
                    IF c = car THEN MacsOf(registered) ELSE MacsOf({car}))
<1> DEFINE t == IF c = car THEN StaticTable(car) ELSE table[c]
           group == IF c = car THEN entered ELSE multicast[c]
           macs == IF c = car THEN MacsOf(registered) ELSE MacsOf({car})
<1>0. TypeOK
  BY DEF FleetInv
<1>1. /\ car \notin DOMAIN joined /\ car \notin present /\ car \notin registered
      /\ registered \subseteq Cars /\ present' = present \cup {car}
  BY <1>0 DEF Join, TypeOK
<1>2. With(table, car, StaticTable(car))[c] = t
  BY <1>0, <1>1 DEF With, TypeOK
<1>3. With(multicast, car, entered)[c] = group
  BY <1>0, <1>1 DEF With, TypeOK
<1>4. Sound(t, c) /\ group \subseteq Ports
  <2>1. c = car => Sound(t, c)
    BY StaticTableIsSound
  <2>2. c # car => Sound(t, c)
    BY TablesAreSound
  <2> QED BY <1>0, <2>1, <2>2, NicAssumption DEF TypeOK
<1>5. macs \subseteq MacsOf(Cars) /\ \A i : Mac(c, i) \notin macs
  BY <1>1 DEF MacsOf, Mac
<1>6. /\ table'[c] = Configure(t, c, macs)
      /\ multicast'[c] = IF registered = {} THEN group ELSE ConfigureMulticast(group, t, c)
  <2>1. /\ table' = [e \in present' |->
                       Configure(With(table, car, StaticTable(car))[e], e,
                                 IF e = car THEN MacsOf(registered) ELSE MacsOf({car}))]
        /\ multicast' = [e \in present' |->
                           IF registered = {} THEN With(multicast, car, entered)[e]
                           ELSE ConfigureMulticast(With(multicast, car, entered)[e],
                                                   With(table, car, StaticTable(car))[e], e)]
    BY DEF Join
  <2>2. /\ table'[c] = Configure(With(table, car, StaticTable(car))[c], c, macs)
        /\ multicast'[c] = IF registered = {} THEN With(multicast, car, entered)[c]
                           ELSE ConfigureMulticast(With(multicast, car, entered)[c],
                                                   With(table, car, StaticTable(car))[c], c)
    BY <1>1, <2>1
  <2> HIDE DEF t, group, macs
  <2> QED BY <1>2, <1>3, <2>2
<1> HIDE DEF t, group, macs
<1>7. \A i \in 1 .. Len(NicInterfaces) : Mac(c, NicInterfaces[i]) \notin macs
  BY <1>5, Zenon
<1>8. /\ DOMAIN table'[c] = DOMAIN t \cup macs
      /\ \A a \in DOMAIN t \ macs : table'[c][a] = t[a]
      /\ \A a \in macs :
           table'[c][a] = Entry(GetUnicast(t, Mac(c, "eth0"), Horizon), SimTimeMax)
  <2> DEFINE u == Configure(t, c, macs)
  <2>1. /\ DOMAIN u = DOMAIN t \cup macs
        /\ \A a \in DOMAIN t \ macs : u[a] = t[a]
        /\ \A a \in macs : u[a] = Entry(GetUnicast(t, Mac(c, "eth0"), Horizon), SimTimeMax)
    BY <1>7, ConfigureLemma, Zenon
  <2>2. table'[c] = u
    BY <1>6
  <2> HIDE DEF u
  <2> QED BY <2>1, <2>2
<1>9. Configured(c, t, group, macs)
  BY <1>4, <1>5, <1>6, <1>8 DEF Configured
<1> QED BY <1>9 DEF t, group, macs

(* Where the group leads in the switch of car c after a registration, when *)
(* it led to group before: there, or else to the NIC if that is known.     *)
GroupConfigured(c, group) ==
  /\ multicast'[c] \subseteq Ports
  /\ group # {} => multicast'[c] = group
  /\ group = {} => multicast'[c] \subseteq {NicPort}
  /\ now < AgingTime - 1 /\ group = {} /\ registered # {} => multicast'[c] = {NicPort}

(* After a registration the tables are sound, and in the switches of early *)
(* cars the new addresses are permanent and the group has an entry: the    *)
(* one it had, or else the NIC.                                            *)
LEMMA JoinResult ==
  ASSUME FleetInv, NEW car \in Cars, NEW entered \in Memberships,
         Join(car, entered), NEW c \in present \cup {car}
  PROVE  /\ Sound(table'[c], c)
         /\ GroupConfigured(c, IF c = car THEN entered ELSE multicast[c])
         /\ now < AgingTime - 1 =>
              \A a \in IF c = car THEN MacsOf(registered) ELSE MacsOf({car}) :
                a \in DOMAIN table'[c] /\ table'[c][a] = Entry(NicPort, SimTimeMax)
         /\ c # car => \A a \in DOMAIN table[c] \ MacsOf({car}) :
              a \in DOMAIN table'[c] /\ table'[c][a] = table[c][a]
<1> DEFINE t == IF c = car THEN StaticTable(car) ELSE table[c]
           group == IF c = car THEN entered ELSE multicast[c]
           macs == IF c = car THEN MacsOf(registered) ELSE MacsOf({car})
           port == GetUnicast(t, Mac(c, "eth0"), Horizon)
           own == Mac(c, "eth0")
<1>0. now \in Nat /\ TypeOK
  BY TimeAssumption DEF FleetInv, HistoryOK
<1>a. Configured(c, t, group, macs)
  BY JoinConfigures
<1>2. c # car => t = table[c] /\ group = multicast[c] /\ macs = MacsOf({car}) /\ c \in registered
  BY <1>0 DEF TypeOK
<1> HIDE DEF t, group, port
<1>1. /\ Sound(t, c) /\ group \subseteq Ports
      /\ DOMAIN table'[c] = DOMAIN t \cup macs
      /\ \A a \in DOMAIN t \ macs : table'[c][a] = t[a]
      /\ \A a \in macs : table'[c][a] = Entry(port, SimTimeMax)
      /\ own \notin macs
      /\ macs \subseteq MacsOf(Cars)
      /\ multicast'[c] = IF registered = {} THEN group
                         ELSE ConfigureMulticast(group, t, c)
  <2> HIDE DEF macs
  <2> QED BY <1>a, Zenon DEF Configured, port
<1>3. /\ \A a : GetUnicast(t, a, Horizon) \in {NicPort, Unknown}
      /\ port \in {NicPort, Unknown}
      /\ now < AgingTime - 1 => port = NicPort
  BY <1>0, <1>1, SoundLookup DEF port
<1>4. /\ Entry(port, SimTimeMax).interface = port
      /\ Entry(NicPort, SimTimeMax).interface = NicPort
  BY DEF Entry
<1>5. Sound(table'[c], c)
  <2> HIDE DEF macs, own
  <2>1. DOMAIN table'[c] \subseteq MacsOf(Cars)
    BY <1>1 DEF Sound
  <2>2. \A mac \in DOMAIN table'[c] : table'[c][mac].interface \in {NicPort, Unknown}
    BY <1>1, <1>3, <1>4 DEF Sound
  <2>3. /\ now < AgingTime - 1 => own \in DOMAIN table'[c]
        /\ own \in DOMAIN table'[c] =>
             table'[c][own].interface = NicPort /\ table'[c][own].time \in -1 .. now
    BY <1>1, Zenon DEF Sound, own
  <2> QED BY <2>1, <2>2, <2>3 DEF Sound, own
<1>6. GroupConfigured(c, group)
  <2> DEFINE result == ConfigureMulticast(group, t, c)
  <2>1. /\ group # {} => result = group
        /\ group = {} =>
             \/ result = {} /\ port = Unknown
             \/ \E i \in DOMAIN NicInterfaces :
                  /\ GetUnicast(t, Mac(c, NicInterfaces[i]), Horizon) # Unknown
                  /\ result = {GetUnicast(t, Mac(c, NicInterfaces[i]), Horizon)}
    BY ConfigureMulticastLemma DEF port
  <2> HIDE DEF result
  <2>2. group = {} => (result = {} /\ port = Unknown) \/ result = {NicPort}
    BY <1>3, <2>1
  <2>3. NicPort # Unknown /\ NicPort \in Ports
    BY NicAssumption
  <2>4. group \subseteq Ports
    BY <1>1
  <2>5. multicast'[c] = IF registered = {} THEN group ELSE result
    BY <1>1 DEF result
  <2> QED BY <1>3, <2>1, <2>2, <2>3, <2>4, <2>5 DEF GroupConfigured
<1>7. now < AgingTime - 1 =>
        \A a \in macs : a \in DOMAIN table'[c] /\ table'[c][a] = Entry(NicPort, SimTimeMax)
  BY <1>1, <1>3
<1>8. c # car => \A a \in DOMAIN table[c] \ MacsOf({car}) :
        a \in DOMAIN table'[c] /\ table'[c][a] = table[c][a]
  BY <1>1, <1>2
<1> QED BY <1>5, <1>6, <1>7, <1>8 DEF group

(* registerNic keeps the invariant.                                        *)
LEMMA JoinKeepsInv ==
  ASSUME FleetInv, NEW car \in Cars, NEW entered \in Memberships, Join(car, entered)
  PROVE  FleetInv'
<1>0. TypeOK /\ HistoryOK /\ EarlyPairs /\ GroupLeadsToMembersOrNic
  BY DEF FleetInv
<1>1. /\ car \notin DOMAIN joined /\ joined' = With(joined, car, now)
      /\ present' = present \cup {car} /\ registered' = registered \cup {car}
      /\ reset' = reset /\ skipped' = skipped /\ now' = now
      /\ DOMAIN table' = present' /\ DOMAIN multicast' = present'
      /\ members' = With(members, car, entered)
  BY DEF Join
<1>2. /\ DOMAIN joined' = DOMAIN joined \cup {car}
      /\ joined'[car] = now
      /\ \A c \in DOMAIN joined : joined'[c] = joined[c]
  BY <1>1 DEF With
<1>3. /\ JoinedEarly(car)' => now < AgingTime - 1
      /\ \A c \in DOMAIN joined : JoinedEarly(c)' <=> JoinedEarly(c)
  BY <1>1, <1>2 DEF JoinedEarly
<1>4. /\ present \subseteq registered /\ registered \subseteq DOMAIN joined
      /\ DOMAIN joined \subseteq Cars /\ car \notin registered
      /\ DOMAIN joined # {} => registered # {}
  BY <1>0, <1>1 DEF TypeOK, HistoryOK
<1>5. /\ DOMAIN members' = present' /\ members'[car] = entered
      /\ \A c \in present : c # car /\ members'[c] = members[c]
      /\ entered \subseteq Ports
  BY <1>0, <1>1, <1>4, NicAssumption DEF With, TypeOK
<1>10. ASSUME NEW c \in present'
       PROVE  /\ c = car => GroupConfigured(c, entered)
              /\ c # car => GroupConfigured(c, multicast[c]) /\ registered # {}
  <2>1. c \in present \cup {car}
    BY <1>1
  <2>2. GroupConfigured(c, IF c = car THEN entered ELSE multicast[c])
    BY <2>1, JoinResult, Zenon
  <2> QED BY <1>4, <2>1, <2>2
<1>11. /\ now < AgingTime - 1 => \A a \in MacsOf(registered) :
              a \in DOMAIN table'[car] /\ table'[car][a] = Entry(NicPort, SimTimeMax)
  <2>1. car \in present \cup {car}
    OBVIOUS
  <2> QED BY <2>1, JoinResult, Zenon
<1>6. EarlyPairs'
  <2> SUFFICES ASSUME NEW c \in present', NEW d \in present', c # d,
                      JoinedEarly(c)', JoinedEarly(d)', <<c, d>> \notin reset,
                      NEW i \in ExternalInterfaces
               PROVE  /\ Mac(d, i) \in DOMAIN table'[c]
                      /\ table'[c][Mac(d, i)] = Entry(NicPort, SimTimeMax)
    BY <1>1 DEF EarlyPairs
  <2>1. CASE c = car
    <3>1. d \in registered
      BY <1>1, <1>4, <2>1
    <3>2. Mac(d, i) \in MacsOf(registered)
      BY <3>1 DEF Mac, MacsOf
    <3> QED BY <1>3, <1>11, <2>1, <3>2
  <2>2. CASE d = car
    <3>1. Mac(d, i) \in MacsOf({car})
      BY <2>2 DEF Mac, MacsOf
    <3> QED BY <1>1, <1>3, <2>2, <3>1, JoinResult
  <2>3. CASE c # car /\ d # car
    <3>1. c \in present /\ d \in present /\ JoinedEarly(c) /\ JoinedEarly(d)
      BY <1>1, <1>3, <1>4, <2>3
    <3>2. /\ Mac(d, i) \in DOMAIN table[c]
          /\ table[c][Mac(d, i)] = Entry(NicPort, SimTimeMax)
      BY <1>0, <3>1 DEF EarlyPairs
    <3>3. Mac(d, i) \notin MacsOf({car})
      BY <2>3 DEF Mac, MacsOf
    <3> QED BY <1>1, <2>3, <3>2, <3>3, JoinResult
  <2> QED BY <2>1, <2>2, <2>3
<1>7. GroupLeadsToMembersOrNic'
  <2>1. ASSUME NEW c \in present', members'[c] # {}
        PROVE  multicast'[c] = members'[c]
    <3>1. CASE c = car
      BY <1>1, <1>5, <2>1, <3>1, <1>10 DEF GroupConfigured
    <3>2. CASE c # car
      <4>1. c \in present /\ members[c] # {}
        BY <1>1, <1>5, <2>1, <3>2
      <4>2. multicast[c] = members[c]
        BY <1>0, <4>1 DEF GroupLeadsToMembersOrNic
      <4> QED BY <1>1, <1>5, <3>2, <4>1, <4>2, <1>10 DEF GroupConfigured
    <3> QED BY <3>1, <3>2
  <2>3. ASSUME NEW c \in present', members'[c] = {}
        PROVE  multicast'[c] \subseteq {NicPort}
    <3>1. CASE c = car
      BY <1>1, <1>5, <2>3, <3>1, <1>10 DEF GroupConfigured
    <3>2. CASE c # car
      <4>1. c \in present /\ members[c] = {}
        BY <1>1, <1>5, <2>3, <3>2
      <4>2. multicast[c] \subseteq {NicPort}
        BY <1>0, <4>1 DEF GroupLeadsToMembersOrNic
      <4> QED BY <1>1, <3>2, <4>1, <4>2, <1>10 DEF GroupConfigured
    <3> QED BY <3>1, <3>2
  <2>2. ASSUME NEW c \in present', members'[c] = {}, JoinedEarly(c)',
               NEW d \in DOMAIN joined' \ {c}, JoinedEarly(d)', <<c, d>> \notin reset
        PROVE  multicast'[c] = {NicPort}
    <3>1. CASE c = car
      <4>1. registered # {} /\ entered = {}
        BY <1>2, <1>4, <1>5, <2>2, <3>1
      <4> QED BY <1>1, <1>3, <2>2, <3>1, <4>1, <1>10 DEF GroupConfigured
    <3>2. CASE c # car /\ multicast[c] = {}
      <4>1. c \in present /\ members[c] = {}
        BY <1>1, <1>5, <2>2, <3>2
      <4>2. d = car
        <5> SUFFICES ASSUME d # car PROVE FALSE
          OBVIOUS
        <5>1. d \in DOMAIN joined \ {c} /\ c \in DOMAIN joined
          BY <1>2, <1>4, <2>2, <4>1
        <5>2. JoinedEarly(c) /\ JoinedEarly(d)
          BY <1>3, <2>2, <5>1
        <5>3. Accompanied(c)
          BY <2>2, <5>1, <5>2 DEF Accompanied
        <5>4. multicast[c] = {NicPort}
          BY <1>0, <4>1, <5>2, <5>3 DEF GroupLeadsToMembersOrNic
        <5> QED BY <3>2, <5>4
      <4> QED BY <1>1, <1>3, <2>2, <3>2, <4>2, <1>10 DEF GroupConfigured
    <3>3. CASE c # car /\ multicast[c] # {}
      <4>1. c \in present /\ members[c] = {} /\ multicast'[c] = multicast[c]
        BY <1>1, <1>5, <2>2, <3>3, <1>10 DEF GroupConfigured
      <4>2. multicast[c] \subseteq {NicPort}
        BY <1>0, <4>1 DEF GroupLeadsToMembersOrNic
      <4> QED BY <3>3, <4>1, <4>2
    <3> QED BY <3>1, <3>2, <3>3
  <2> QED BY <1>1, <2>1, <2>2, <2>3 DEF GroupLeadsToMembersOrNic, Accompanied
<1>8. \A c \in present' : /\ Sound(table'[c], c)
                          /\ multicast'[c] \subseteq Ports /\ members'[c] \subseteq Ports
  <2>1. \A c \in present' : Sound(table'[c], c)
    BY <1>1, JoinResult, Zenon
  <2> QED BY <1>0, <1>1, <1>5, <1>10, <2>1 DEF TypeOK, GroupConfigured
<1>9. /\ DOMAIN joined' \subseteq Cars
      /\ present' \subseteq DOMAIN joined' /\ registered' \subseteq DOMAIN joined'
      /\ present' \subseteq registered' /\ registered' # {}
  BY <1>1, <1>2, <1>4
<1> QED BY <1>1, <1>5, <1>6, <1>7, <1>8, <1>9, SoundTablesKeepInv

(* A NIC that is taken for a registered one gets its own entry only; the   *)
(* other switches do not change.                                           *)
LEMMA JoinAtOldAddressKeepsInv ==
  ASSUME FleetInv, NEW car \in Cars, NEW old \in Cars, NEW entered \in Memberships,
         JoinAtOldAddress(car, old, entered)
  PROVE  FleetInv'
<1>0. TypeOK /\ HistoryOK /\ EarlyPairs /\ GroupLeadsToMembersOrNic
  BY DEF FleetInv
<1>1. /\ car \notin DOMAIN joined /\ joined' = With(joined, car, now)
      /\ old \in registered \ present
      /\ present' = present \cup {car}
      /\ registered' = (registered \ {old}) \cup {car}
      /\ reset' = reset /\ skipped' = skipped \cup {car} /\ now' = now
      /\ table' = With(table, car, StaticTable(car))
      /\ multicast' = With(multicast, car, entered)
      /\ members' = With(members, car, entered)
  BY DEF JoinAtOldAddress
<1>2. /\ DOMAIN joined' = DOMAIN joined \cup {car}
      /\ \A c \in DOMAIN joined : joined'[c] = joined[c]
  BY <1>1 DEF With
<1>3. ~JoinedEarly(car)' /\ \A c \in DOMAIN joined : JoinedEarly(c)' => JoinedEarly(c)
  BY <1>1, <1>2 DEF JoinedEarly
<1>4. /\ present \subseteq registered /\ registered \subseteq DOMAIN joined
      /\ DOMAIN joined \subseteq Cars /\ car \notin present
      /\ DOMAIN table = present /\ DOMAIN multicast = present
      /\ DOMAIN members = present /\ entered \subseteq Ports
  BY <1>0, <1>1, NicAssumption DEF TypeOK
<1>5. /\ DOMAIN table' = present' /\ DOMAIN multicast' = present'
      /\ DOMAIN members' = present'
      /\ table'[car] = StaticTable(car)
      /\ multicast'[car] = entered /\ members'[car] = entered
      /\ \A c \in present : /\ table'[c] = table[c] /\ multicast'[c] = multicast[c]
                            /\ members'[c] = members[c]
  BY <1>1, <1>4 DEF With
<1>6. EarlyPairs'
  <2> SUFFICES ASSUME NEW c \in present', NEW d \in present', c # d,
                      JoinedEarly(c)', JoinedEarly(d)', <<c, d>> \notin reset,
                      NEW i \in ExternalInterfaces
               PROVE  /\ Mac(d, i) \in DOMAIN table'[c]
                      /\ table'[c][Mac(d, i)] = Entry(NicPort, SimTimeMax)
    BY <1>1 DEF EarlyPairs
  <2>1. c \in present /\ d \in present /\ JoinedEarly(c) /\ JoinedEarly(d)
    BY <1>1, <1>3, <1>4
  <2> QED BY <1>0, <1>5, <2>1 DEF EarlyPairs
<1>7. GroupLeadsToMembersOrNic'
  <2>1. ASSUME NEW c \in present'
        PROVE  /\ members'[c] # {} => multicast'[c] = members'[c]
               /\ members'[c] = {} => multicast'[c] \subseteq {NicPort}
    BY <1>0, <1>1, <1>5 DEF GroupLeadsToMembersOrNic
  <2>2. ASSUME NEW c \in present', members'[c] = {}, JoinedEarly(c)',
               NEW d \in DOMAIN joined' \ {c}, JoinedEarly(d)', <<c, d>> \notin reset
        PROVE  multicast'[c] = {NicPort}
    <3>1. c \in present /\ d \in DOMAIN joined \ {c} /\ JoinedEarly(c) /\ JoinedEarly(d)
      BY <1>1, <1>2, <1>3, <1>4, <2>2
    <3>2. Accompanied(c) /\ members[c] = {}
      BY <1>5, <2>2, <3>1 DEF Accompanied
    <3> QED BY <1>0, <1>5, <3>1, <3>2 DEF GroupLeadsToMembersOrNic
  <2> QED BY <1>1, <2>1, <2>2 DEF GroupLeadsToMembersOrNic, Accompanied
<1>8. \A c \in present' : /\ Sound(table'[c], c)
                          /\ multicast'[c] \subseteq Ports /\ members'[c] \subseteq Ports
  <2>1. Sound(table'[car], car)
    BY <1>5, StaticTableIsSound
  <2>2. \A c \in present : Sound(table'[c], c)
    BY <1>5, TablesAreSound
  <2> QED BY <1>0, <1>1, <1>4, <1>5, <2>1, <2>2 DEF TypeOK
<1>9. /\ DOMAIN joined' \subseteq Cars
      /\ present' \subseteq DOMAIN joined' /\ registered' \subseteq DOMAIN joined'
      /\ present' \subseteq registered' /\ registered' # {}
  BY <1>1, <1>2, <1>4
<1> QED BY <1>1, <1>5, <1>6, <1>7, <1>8, <1>9, SoundTablesKeepInv

(* A car that leaves takes its switch with it and changes no other one.    *)
LEMMA LeaveKeepsInv ==
  ASSUME FleetInv, NEW car \in Cars, Leave(car)
  PROVE  FleetInv'
<1>0. TypeOK /\ HistoryOK /\ EarlyPairs /\ GroupLeadsToMembersOrNic
  BY DEF FleetInv
<1>1. /\ present' = present \ {car} /\ table' = Restrict(table, present')
      /\ multicast' = Restrict(multicast, present')
      /\ members' = Restrict(members, present')
      /\ joined' = joined /\ registered' = registered /\ reset' = reset
      /\ skipped' = skipped /\ now' = now
  BY DEF Leave
<1>2. /\ DOMAIN table' = present' /\ DOMAIN multicast' = present'
      /\ DOMAIN members' = present'
      /\ \A c \in present' : /\ table'[c] = table[c] /\ multicast'[c] = multicast[c]
                             /\ members'[c] = members[c]
  BY <1>1 DEF Restrict
<1>3. \A c : JoinedEarly(c)' <=> JoinedEarly(c)
  BY <1>1 DEF JoinedEarly
<1>4. EarlyPairs'
  <2> SUFFICES ASSUME NEW c \in present', NEW d \in present', c # d,
                      JoinedEarly(c), JoinedEarly(d), <<c, d>> \notin reset,
                      NEW i \in ExternalInterfaces
               PROVE  /\ Mac(d, i) \in DOMAIN table'[c]
                      /\ table'[c][Mac(d, i)] = Entry(NicPort, SimTimeMax)
    BY <1>1, <1>3 DEF EarlyPairs
  <2>1. c \in present /\ d \in present
    BY <1>1
  <2> QED BY <1>0, <1>2, <2>1 DEF EarlyPairs
<1>5. GroupLeadsToMembersOrNic'
  <2>1. \A c : Accompanied(c)' <=> Accompanied(c)
    BY <1>1, <1>3 DEF Accompanied
  <2> QED BY <1>0, <1>1, <1>2, <1>3, <2>1 DEF GroupLeadsToMembersOrNic
<1>6. \A c \in present' : /\ Sound(table'[c], c)
                          /\ multicast'[c] \subseteq Ports /\ members'[c] \subseteq Ports
  <2>1. \A c \in present' : Sound(table'[c], c)
    BY <1>1, <1>2, TablesAreSound
  <2> QED BY <1>0, <1>1, <1>2, <2>1 DEF TypeOK
<1>7. /\ DOMAIN joined' \subseteq Cars
      /\ present' \subseteq DOMAIN joined' /\ registered' \subseteq DOMAIN joined'
      /\ present' \subseteq registered'
      /\ DOMAIN joined' # {} => registered' # {}
  BY <1>0, <1>1 DEF TypeOK, HistoryOK
<1> QED BY <1>1, <1>2, <1>4, <1>5, <1>6, <1>7, SoundTablesKeepInv

(* A reset loses what was registered before it, and reset records that.    *)
LEMMA MulticastChangeKeepsInv ==
  ASSUME FleetInv, NEW car \in Cars, NEW entered \in Memberships,
         MulticastChange(car, entered)
  PROVE  FleetInv'
<1>0. TypeOK /\ HistoryOK /\ EarlyPairs /\ GroupLeadsToMembersOrNic
  BY DEF FleetInv
<1>1. /\ car \in present
      /\ table' = [table EXCEPT ![car] = StaticTable(car)]
      /\ members' = [members EXCEPT ![car] = @ \cup entered]
      /\ multicast' = [multicast EXCEPT ![car] = members'[car]]
      /\ reset' = reset \cup {<<car, c>> : c \in DOMAIN joined}
      /\ joined' = joined /\ present' = present /\ registered' = registered
      /\ skipped' = skipped /\ now' = now
  BY DEF MulticastChange
<1>2. /\ DOMAIN table' = present /\ DOMAIN multicast' = present
      /\ DOMAIN members' = present
      /\ table'[car] = StaticTable(car) /\ multicast'[car] = members'[car]
      /\ members'[car] = members[car] \cup entered /\ members'[car] \subseteq Ports
      /\ \A c \in present \ {car} : /\ table'[c] = table[c] /\ multicast'[c] = multicast[c]
                                     /\ members'[c] = members[c]
  BY <1>0, <1>1, NicAssumption DEF TypeOK
<1>3. \A c : JoinedEarly(c)' <=> JoinedEarly(c)
  BY <1>1 DEF JoinedEarly
<1>4. /\ reset \subseteq reset' /\ \A d \in DOMAIN joined : <<car, d>> \in reset'
      /\ present \subseteq DOMAIN joined
  BY <1>0, <1>1 DEF TypeOK
<1>5. EarlyPairs'
  <2> SUFFICES ASSUME NEW c \in present, NEW d \in present, c # d,
                      JoinedEarly(c), JoinedEarly(d), <<c, d>> \notin reset',
                      NEW i \in ExternalInterfaces
               PROVE  /\ Mac(d, i) \in DOMAIN table'[c]
                      /\ table'[c][Mac(d, i)] = Entry(NicPort, SimTimeMax)
    BY <1>1, <1>3 DEF EarlyPairs
  <2>1. c # car /\ <<c, d>> \notin reset
    BY <1>4
  <2> QED BY <1>0, <1>2, <2>1 DEF EarlyPairs
<1>6. GroupLeadsToMembersOrNic'
  <2>1. ASSUME NEW c \in present
        PROVE  /\ members'[c] # {} => multicast'[c] = members'[c]
               /\ members'[c] = {} => multicast'[c] \subseteq {NicPort}
    BY <1>0, <1>2 DEF GroupLeadsToMembersOrNic
  <2>2. ASSUME NEW c \in present, members'[c] = {}, JoinedEarly(c),
               NEW d \in DOMAIN joined \ {c}, JoinedEarly(d), <<c, d>> \notin reset'
        PROVE  multicast'[c] = {NicPort}
    <3>1. c # car /\ <<c, d>> \notin reset
      BY <1>4, <2>2
    <3>2. Accompanied(c) /\ members[c] = {}
      BY <1>2, <2>2, <3>1 DEF Accompanied
    <3> QED BY <1>0, <1>2, <2>2, <3>1, <3>2 DEF GroupLeadsToMembersOrNic
  <2> QED BY <1>1, <1>3, <2>1, <2>2 DEF GroupLeadsToMembersOrNic, Accompanied
<1>7. \A c \in present' : /\ Sound(table'[c], c)
                          /\ multicast'[c] \subseteq Ports /\ members'[c] \subseteq Ports
  <2>1. Sound(table'[car], car)
    BY <1>2, StaticTableIsSound
  <2>2. \A c \in present \ {car} : Sound(table'[c], c)
    BY <1>2, TablesAreSound
  <2> QED BY <1>0, <1>1, <1>2, <2>1, <2>2 DEF TypeOK
<1>8. /\ DOMAIN joined' \subseteq Cars
      /\ present' \subseteq DOMAIN joined' /\ registered' \subseteq DOMAIN joined'
      /\ present' \subseteq registered'
      /\ DOMAIN joined' # {} => registered' # {}
  BY <1>0, <1>1 DEF TypeOK, HistoryOK
<1> QED BY <1>1, <1>2, <1>5, <1>6, <1>7, <1>8, SoundTablesKeepInv

(* A frame of the own NIC renews the own entry; the purge removes no       *)
(* permanent entry, because the clock never reaches SimTimeMax.            *)
LEMMA ForwardLemma ==
  ASSUME FleetInv, NEW car \in present,
         NEW t \in {table[car], RemoveAged(table[car], Horizon)}
  PROVE  LET own == Mac(car, "eth0")
             u == Learned(t, NicPort, own, now)
         IN  /\ Sound(u, car)
             /\ \A a \in DOMAIN table[car] :
                  a # own /\ table[car][a] = Entry(NicPort, SimTimeMax)
                  => a \in DOMAIN u /\ u[a] = table[car][a]
<1> DEFINE own == Mac(car, "eth0")
           u == Learned(t, NicPort, own, now)
           w == table[car]
<1>0. now \in Nat /\ now < SimTimeMax /\ AgingTime \in Nat /\ SimTimeMax \in Nat
  BY TimeAssumption, AgingAssumption DEF FleetInv, HistoryOK
<1>1. Sound(w, car)
  BY TablesAreSound
<1>2. own \in MacsOf(Cars)
  BY DEF FleetInv, TypeOK, Mac, MacsOf, ExternalInterfaces
<1>3. /\ DOMAIN t \subseteq DOMAIN w
      /\ \A a \in DOMAIN t : t[a] = w[a]
      /\ \A a \in DOMAIN w \ DOMAIN t : Aged(w[a], Horizon)
  <2>1. CASE t = w
    BY <2>1
  <2>2. CASE t = RemoveAged(w, Horizon)
    BY <2>2 DEF RemoveAged, Restrict
  <2> QED BY <2>1, <2>2
<1>4. own \in DOMAIN t => t[own].time # SimTimeMax
  BY <1>0, <1>1, <1>3 DEF Sound
<1>5. u = With(t, own, Entry(NicPort, now))
  BY <1>4, Zenon DEF Learned
<1> HIDE DEF own, u, w
<1>6. /\ DOMAIN u = DOMAIN t \cup {own} /\ u[own] = Entry(NicPort, now)
      /\ \A a \in DOMAIN t \ {own} : u[a] = t[a]
  BY <1>5 DEF With
<1>7. Entry(NicPort, now).interface = NicPort /\ Entry(NicPort, now).time = now
  BY DEF Entry
<1>8. Sound(u, car)
  <2>1. DOMAIN u \subseteq MacsOf(Cars)
    BY <1>1, <1>2, <1>3, <1>6 DEF Sound
  <2>2. \A a \in DOMAIN u : u[a].interface \in {NicPort, Unknown}
    BY <1>1, <1>3, <1>6, <1>7 DEF Sound
  <2>3. own \in DOMAIN u /\ u[own].interface = NicPort /\ u[own].time \in -1 .. now
    BY <1>0, <1>6, <1>7
  <2> QED BY <2>1, <2>2, <2>3, Zenon DEF Sound, own
<1>9. ASSUME NEW a \in DOMAIN w, a # own, w[a] = Entry(NicPort, SimTimeMax)
      PROVE  a \in DOMAIN u /\ u[a] = w[a]
  <2>1. w[a].time = SimTimeMax
    BY <1>9 DEF Entry
  <2>2. ~Aged(w[a], Horizon)
    BY <1>0, <2>1 DEF Aged, Horizon
  <2> QED BY <1>3, <1>6, <1>9, <2>2
<1> QED BY <1>8, <1>9 DEF own, u, w

(* Forwarding a frame of the car's NIC keeps the invariant.                *)
LEMMA ForwardKeepsInv ==
  ASSUME FleetInv, NEW car \in Cars, Forward(car)
  PROVE  FleetInv'
<1>0. TypeOK /\ HistoryOK /\ EarlyPairs /\ GroupLeadsToMembersOrNic
  BY DEF FleetInv
<1>1. /\ car \in present /\ joined' = joined /\ present' = present
      /\ registered' = registered /\ multicast' = multicast
      /\ members' = members /\ reset' = reset
      /\ skipped' = skipped /\ now' = now
  BY DEF Forward
<1>2. PICK t \in {table[car], RemoveAged(table[car], Horizon)} :
        table' = [table EXCEPT ![car] = Learned(t, NicPort, Mac(car, "eth0"), now)]
  BY DEF Forward
<1> DEFINE u == Learned(t, NicPort, Mac(car, "eth0"), now)
<1>3. /\ DOMAIN table' = present /\ table'[car] = u
      /\ \A c \in present \ {car} : table'[c] = table[c]
  BY <1>0, <1>1, <1>2 DEF TypeOK
<1>4. /\ Sound(u, car)
      /\ \A a \in DOMAIN table[car] :
           a # Mac(car, "eth0") /\ table[car][a] = Entry(NicPort, SimTimeMax)
           => a \in DOMAIN u /\ u[a] = table[car][a]
  BY <1>1, ForwardLemma
<1> HIDE DEF u
<1>5. \A c : JoinedEarly(c)' <=> JoinedEarly(c)
  BY <1>1 DEF JoinedEarly
<1>6. EarlyPairs'
  <2> SUFFICES ASSUME NEW c \in present, NEW d \in present, c # d,
                      JoinedEarly(c), JoinedEarly(d), <<c, d>> \notin reset,
                      NEW i \in ExternalInterfaces
               PROVE  /\ Mac(d, i) \in DOMAIN table'[c]
                      /\ table'[c][Mac(d, i)] = Entry(NicPort, SimTimeMax)
    BY <1>1, <1>5 DEF EarlyPairs
  <2>1. /\ Mac(d, i) \in DOMAIN table[c]
        /\ table[c][Mac(d, i)] = Entry(NicPort, SimTimeMax)
    BY <1>0 DEF EarlyPairs
  <2>2. Mac(d, i) # Mac(c, "eth0")
    BY DEF Mac
  <2> QED BY <1>3, <1>4, <2>1, <2>2
<1>7. GroupLeadsToMembersOrNic'
  <2>1. \A c : Accompanied(c)' <=> Accompanied(c)
    BY <1>1, <1>5 DEF Accompanied
  <2> QED BY <1>0, <1>1, <1>5, <2>1 DEF GroupLeadsToMembersOrNic
<1>8. \A c \in present' : /\ Sound(table'[c], c)
                          /\ multicast'[c] \subseteq Ports /\ members'[c] \subseteq Ports
  <2>1. \A c \in present \ {car} : Sound(table'[c], c)
    BY <1>3, TablesAreSound
  <2> QED BY <1>0, <1>1, <1>3, <1>4, <2>1 DEF TypeOK
<1>9. /\ DOMAIN joined' \subseteq Cars
      /\ present' \subseteq DOMAIN joined' /\ registered' \subseteq DOMAIN joined'
      /\ present' \subseteq registered'
      /\ DOMAIN joined' # {} => registered' # {}
      /\ DOMAIN multicast' = present' /\ DOMAIN members' = present'
  BY <1>0, <1>1 DEF TypeOK, HistoryOK
<1> QED BY <1>1, <1>3, <1>6, <1>7, <1>8, <1>9, SoundTablesKeepInv

(* Time passes: entries age, but no permanent one.                         *)
LEMMA TickKeepsInv ==
  ASSUME FleetInv, Tick
  PROVE  FleetInv'
<1>1. /\ now \in Nat /\ now < MaxNow /\ now' = now + 1 /\ MaxNow \in Nat
      /\ now' \in 0 .. MaxNow
  BY TimeAssumption DEF FleetInv, HistoryOK, Tick
<1>2. UNCHANGED <<joined, present, registered, table, multicast, members, reset, skipped>>
  BY DEF Tick
<1>3. TypeOK' /\ EarlyPairs' /\ GroupLeadsToMembersOrNic'
  BY <1>2 DEF FleetInv, TypeOK, EarlyPairs, GroupLeadsToMembersOrNic, Accompanied, JoinedEarly
<1>4. HistoryOK'
  BY <1>1, <1>2 DEF FleetInv, HistoryOK
<1>5. ASSUME NEW c \in present PROVE OwnEntry(c)'
  <2>1. OwnEntry(c)
    BY DEF FleetInv, OwnEntries
  <2> QED BY <1>1, <1>2, <2>1, AgingAssumption DEF OwnEntry
<1>6. OwnEntries'
  BY <1>2, <1>5 DEF OwnEntries
<1> QED BY <1>3, <1>4, <1>6 DEF FleetInv

-----------------------------------------------------------------------------
(* No car has joined yet.                                                  *)
LEMMA FleetInvInit == Init => FleetInv
BY TimeAssumption
DEF Init, FleetInv, TypeOK, HistoryOK, OwnEntries, EarlyPairs,
    GroupLeadsToMembersOrNic, EmptyTable

(* Every step keeps the invariant.                                         *)
LEMMA FleetInvNext == FleetInv /\ [Next]_vars => FleetInv'
<1> SUFFICES ASSUME FleetInv, [Next]_vars PROVE FleetInv'
  OBVIOUS
<1>1. CASE UNCHANGED vars
  BY <1>1 DEF vars, FleetInv, TypeOK, HistoryOK, OwnEntries, OwnEntry,
              EarlyPairs, GroupLeadsToMembersOrNic, Accompanied, JoinedEarly
<1>2. ASSUME NEW car \in Cars, NEW entered \in Memberships,
             \/ Join(car, entered)
             \/ \E old \in Cars : JoinAtOldAddress(car, old, entered)
             \/ MulticastChange(car, entered)
      PROVE  FleetInv'
  BY <1>2, JoinKeepsInv, JoinAtOldAddressKeepsInv, MulticastChangeKeepsInv
<1>3. ASSUME NEW car \in Cars, Leave(car) \/ Forward(car)
      PROVE  FleetInv'
  BY <1>3, LeaveKeepsInv, ForwardKeepsInv
<1>4. CASE Tick
  BY <1>4, TickKeepsInv
<1>5. CASE Halted
  BY <1>1, <1>5 DEF Halted
<1> QED BY <1>1, <1>2, <1>3, <1>4, <1>5 DEF Next

(* A permanent entry never ages, so early cars reach each other.           *)
LEMMA FleetInvReaches == FleetInv => EarlyCarsReachEachOther
<1> SUFFICES ASSUME FleetInv, NEW c \in present, NEW d \in present, c # d,
                    JoinedEarly(c), JoinedEarly(d), <<c, d>> \notin reset,
                    NEW i \in ExternalInterfaces
             PROVE  GetUnicast(table[c], Mac(d, i), Horizon) = NicPort
  BY DEF EarlyCarsReachEachOther, Reaches
<1>1. /\ Mac(d, i) \in DOMAIN table[c]
      /\ table[c][Mac(d, i)] = Entry(NicPort, SimTimeMax)
  BY DEF FleetInv, EarlyPairs
<1>2. table[c][Mac(d, i)].interface = NicPort /\ table[c][Mac(d, i)].time = SimTimeMax
  BY <1>1 DEF Entry
<1>3. now \in Nat /\ now < SimTimeMax
  BY TimeAssumption, AgingAssumption DEF FleetInv, HistoryOK
<1> QED BY <1>1, <1>2, <1>3, AgingAssumption DEF GetUnicast, Aged, Horizon

(* In every reachable state the switches know their own NICs rightly, and  *)
(* early cars have permanent entries for each other.                       *)
THEOREM FleetInvariance == Spec => []FleetInv
BY FleetInvInit, FleetInvNext, PTL DEF Spec

(* Tables and groups exist for exactly the cars in the simulation; the    *)
(* tables lead nowhere but to the car's own NIC.                           *)
THEOREM FleetTypeCorrect == Spec => []TypeOK
<1>1. FleetInv => TypeOK
  BY DEF FleetInv
<1> QED BY <1>1, FleetInvariance, PTL

(* Cars that join before agingTime - 1 and are not taken for a registered  *)
(* NIC reach each other for ever, whatever joins, leaves and ages later.   *)
THEOREM EarlyCarsReach == Spec => []EarlyCarsReachEachOther
BY FleetInvariance, FleetInvReaches, PTL

(* The group leads to the announced members of the car and, if there are  *)
(* none, to the NIC: in the switch of an early car as soon as another      *)
(* early car has joined.                                                   *)
THEOREM GroupLeads == Spec => []GroupLeadsToMembersOrNic
<1>1. FleetInv => GroupLeadsToMembersOrNic
  BY DEF FleetInv
<1> QED BY <1>1, FleetInvariance, PTL
=============================================================================
