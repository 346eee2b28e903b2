---------------------- MODULE MacForwardingTableProofs ----------------------
(***************************************************************************)
(* A lookup in the forwarding table is never stale, and purging is         *)
(* invisible, for any number of addresses and interfaces, any aging time   *)
(* and any purge interval.                                                 *)
(***************************************************************************)
EXTENDS MacForwardingTable, TLAPS

(* An entry that was set: unless the address was assigned anew, it is the  *)
(* interface of the last assignment.                                       *)
IsAssigned(a) ==
  /\ table[a].time \in {-1, SimTimeMax}
  /\ a \in DOMAIN assigned
  /\ table[a].interface = assigned[a]

(* An entry that was learned: it is what was heard last of the address.    *)
IsLearned(a) ==
  /\ table[a].time \in 0 .. now
  /\ heard[a].interface = table[a].interface
  /\ heard[a].time = table[a].time

HistoryTypeOK ==
  /\ now \in 0 .. MaxNow
  /\ heard \in [Addresses -> [interface: Interfaces \cup {Unknown}, time: -1 .. now]]
  /\ DOMAIN assigned \subseteq Addresses
  /\ \A a \in DOMAIN assigned : assigned[a] \in Interfaces

(* Every entry of the table is either assigned or learned; its mark tells  *)
(* which, because the simulation time never reaches SimTimeMax.            *)
EntriesHaveAnOrigin == \A a \in DOMAIN table : IsAssigned(a) \/ IsLearned(a)

TableInv == TypeOK /\ HistoryTypeOK /\ EntriesHaveAnOrigin

-----------------------------------------------------------------------------
(* Restriction of a table to some of its keys.                             *)
LEMMA RestrictLemma ==
  ASSUME NEW t, NEW S
  PROVE  DOMAIN Restrict(t, S) = S /\ \A x \in S : Restrict(t, S)[x] = t[x]
BY DEF Restrict

(* removeAgedEntriesIfNeeded only removes entries, and only aged ones.     *)
LEMMA PurgedLemma ==
  /\ DOMAIN Purged \subseteq DOMAIN table
  /\ \A a \in DOMAIN Purged : Purged[a] = table[a]
  /\ \A a \in DOMAIN table \ DOMAIN Purged : Aged(table[a], Horizon)
BY RestrictLemma DEF Purged, RemoveAged

(* The initial states satisfy the invariant.                               *)
LEMMA TableInvInit == Init => TableInv
BY TableAssumption, AgingAssumption
DEF Init, TableInv, TypeOK, HistoryTypeOK, EntriesHaveAnOrigin, EmptyTable,
    NotHeard, Entry, Unknown

(* Learning, with the purge that precedes it, keeps the invariant.         *)
LEMMA LearnKeepsInv ==
  ASSUME TableInv, NEW i \in Interfaces, NEW b \in Addresses, Learn(i, b)
  PROVE  TableInv'
<1> USE AgingAssumption, TableAssumption
<1>0. TypeOK /\ HistoryTypeOK /\ EntriesHaveAnOrigin
  BY DEF TableInv
<1>1. /\ now' = now /\ assigned' = assigned /\ multicast' = multicast
      /\ lastPurge' = now /\ agingTime' = agingTime
      /\ heard' = [heard EXCEPT ![b] = Entry(i, now)]
      /\ table' = Learned(Purged, i, b, now)
  BY DEF Learn
<1>2. now \in Nat /\ now < SimTimeMax
  BY <1>0 DEF HistoryTypeOK
<1>3. \A a \in Addresses : heard'[a] = IF a = b THEN Entry(i, now) ELSE heard[a]
  BY <1>0, <1>1 DEF HistoryTypeOK
<1>4. ASSUME NEW a \in DOMAIN table'
      PROVE  \/ a \in DOMAIN table /\ table'[a] = table[a] /\ (a = b => table[a].time = SimTimeMax)
             \/ a = b /\ table'[a] = Entry(i, now)
  <2>1. CASE b \in DOMAIN Purged /\ Purged[b].time = SimTimeMax
    BY <1>1, <1>4, <2>1, PurgedLemma DEF Learned
  <2>2. CASE ~(b \in DOMAIN Purged /\ Purged[b].time = SimTimeMax)
    <3>1. table' = With(Purged, b, Entry(i, now))
      BY <1>1, <2>2 DEF Learned
    <3>2. a \in DOMAIN Purged \cup {b}
          /\ table'[a] = IF a = b THEN Entry(i, now) ELSE Purged[a]
      BY <1>4, <3>1 DEF With
    <3> QED BY <3>2, PurgedLemma
  <2> QED BY <2>1, <2>2
<1>5. Entry(i, now).interface = i /\ Entry(i, now).time = now
      /\ Entry(i, now) \in [interface: Interfaces, time: -1 .. now]
  BY <1>2 DEF Entry
<1>6. TypeOK'
  <2>1. DOMAIN table' \subseteq Addresses
    BY <1>0, <1>4 DEF TypeOK
  <2>2. ASSUME NEW a \in DOMAIN table'
        PROVE  table'[a] \in [interface: Interfaces, time: -1 .. now \cup {SimTimeMax}]
    BY <1>0, <1>4, <1>5 DEF TypeOK
  <2> QED BY <1>0, <1>1, <1>2, <2>1, <2>2 DEF TypeOK
<1>7. HistoryTypeOK'
  <2>1. heard' \in [Addresses -> [interface: Interfaces \cup {Unknown}, time: -1 .. now]]
    BY <1>0, <1>1, <1>5 DEF HistoryTypeOK
  <2> QED BY <1>0, <1>1, <2>1 DEF HistoryTypeOK
<1>8. EntriesHaveAnOrigin'
  <2> SUFFICES ASSUME NEW a \in DOMAIN table' PROVE IsAssigned(a)' \/ IsLearned(a)'
    BY DEF EntriesHaveAnOrigin
  <2>1. CASE a = b /\ table'[a] = Entry(i, now)
    BY <1>1, <1>2, <1>3, <1>5, <2>1 DEF IsLearned
  <2>2. CASE a \in DOMAIN table /\ table'[a] = table[a] /\ (a = b => table[a].time = SimTimeMax)
    <3>1. IsAssigned(a) \/ IsLearned(a)
      BY <1>0, <2>2 DEF EntriesHaveAnOrigin
    <3>2. CASE IsAssigned(a)
      BY <1>1, <2>2, <3>2 DEF IsAssigned
    <3>3. CASE IsLearned(a)
      <4>1. a # b /\ a \in Addresses
        BY <1>0, <1>2, <2>2, <3>3 DEF IsLearned, TypeOK
      <4> QED BY <1>1, <1>3, <2>2, <3>3, <4>1 DEF IsLearned
    <3> QED BY <3>1, <3>2, <3>3
  <2> QED BY <1>4, <2>1, <2>2
<1> QED BY <1>6, <1>7, <1>8 DEF TableInv

(* Steps that leave the clock and the history of arrivals alone keep the   *)
(* invariant if every entry they leave is assigned or as it was, and they  *)
(* lose no assignment that an entry of the table rests on.                 *)
LEMMA SettingKeepsInv ==
  ASSUME TableInv, UNCHANGED <<now, heard, lastPurge, agingTime>>,
         DOMAIN multicast' \subseteq Groups,
         \A g \in DOMAIN multicast' : multicast'[g] \subseteq Interfaces,
         DOMAIN assigned' \subseteq Addresses,
         \A a \in DOMAIN assigned' : assigned'[a] \in Interfaces,
         \A a \in DOMAIN table' :
           \/ a \in DOMAIN table /\ table'[a] = table[a]
              /\ (IsAssigned(a) => a \in DOMAIN assigned' /\ assigned'[a] = assigned[a])
           \/ /\ a \in DOMAIN assigned'
              /\ \E t \in {-1, SimTimeMax} : table'[a] = Entry(assigned'[a], t)
  PROVE  TableInv'
<1> USE AgingAssumption, TableAssumption
<1>0. TypeOK /\ HistoryTypeOK /\ EntriesHaveAnOrigin
  BY DEF TableInv
<1>1. ASSUME NEW a \in DOMAIN table'
      PROVE  /\ a \in Addresses
             /\ table'[a] \in [interface: Interfaces, time: -1 .. now' \cup {SimTimeMax}]
             /\ IsAssigned(a)' \/ IsLearned(a)'
  <2>1. CASE a \in DOMAIN table /\ table'[a] = table[a]
              /\ (IsAssigned(a) => a \in DOMAIN assigned' /\ assigned'[a] = assigned[a])
    <3>1. IsAssigned(a) \/ IsLearned(a)
      BY <1>0, <2>1 DEF EntriesHaveAnOrigin
    <3>2. IsAssigned(a)' \/ IsLearned(a)'
      BY <2>1, <3>1 DEF IsAssigned, IsLearned
    <3> QED BY <1>0, <2>1, <3>2 DEF TypeOK
  <2>2. ASSUME a \in DOMAIN assigned', NEW t \in {-1, SimTimeMax},
               table'[a] = Entry(assigned'[a], t)
        PROVE  /\ a \in Addresses
               /\ table'[a] \in [interface: Interfaces, time: -1 .. now' \cup {SimTimeMax}]
               /\ IsAssigned(a)' \/ IsLearned(a)'
    <3>1. now' \in Nat
      BY <1>0 DEF HistoryTypeOK
    <3> QED BY <2>2, <3>1 DEF IsAssigned, Entry
  <2> QED BY <1>1, <2>1, <2>2
<1>2. TypeOK' BY <1>0, <1>1 DEF TypeOK
<1>3. HistoryTypeOK' BY <1>0 DEF HistoryTypeOK
<1>4. EntriesHaveAnOrigin' BY <1>1 DEF EntriesHaveAnOrigin
<1> QED BY <1>2, <1>3, <1>4 DEF TableInv

(* Moving an interface to another one keeps the invariant: entries,        *)
(* assignments and what was heard move together.                           *)
LEMMA ReplaceKeepsInv ==
  ASSUME TableInv, NEW old \in Interfaces, NEW new \in Interfaces,
         ReplaceForwardingInterface(old, new)
  PROVE  TableInv'
<1> USE AgingAssumption, TableAssumption
<1> DEFINE Moved(i) == IF i = old THEN new ELSE i
<1>0. TypeOK /\ HistoryTypeOK /\ EntriesHaveAnOrigin
  BY DEF TableInv
<1>1. /\ table' = [a \in DOMAIN table |-> Entry(Moved(table[a].interface), table[a].time)]
      /\ assigned' = [a \in DOMAIN assigned |-> Moved(assigned[a])]
      /\ heard' = [a \in Addresses |-> Entry(Moved(heard[a].interface), heard[a].time)]
      /\ UNCHANGED <<multicast, lastPurge, agingTime, now, error>>
  BY DEF ReplaceForwardingInterface
<1>2. TypeOK'
  BY <1>0, <1>1 DEF TypeOK, Entry
<1>3. HistoryTypeOK'
  BY <1>0, <1>1 DEF HistoryTypeOK, Entry
<1>4. EntriesHaveAnOrigin'
  <2> SUFFICES ASSUME NEW a \in DOMAIN table' PROVE IsAssigned(a)' \/ IsLearned(a)'
    BY DEF EntriesHaveAnOrigin
  <2>1. /\ a \in DOMAIN table /\ a \in Addresses
        /\ table'[a].interface = Moved(table[a].interface)
        /\ table'[a].time = table[a].time
        /\ heard'[a].interface = Moved(heard[a].interface)
        /\ heard'[a].time = heard[a].time
    BY <1>0, <1>1 DEF TypeOK, Entry
  <2>2. CASE IsAssigned(a)
    BY <1>1, <2>1, <2>2 DEF IsAssigned
  <2>3. CASE IsLearned(a)
    BY <1>1, <2>1, <2>3 DEF IsLearned
  <2> QED BY <1>0, <2>1, <2>2, <2>3 DEF EntriesHaveAnOrigin
<1> QED BY <1>2, <1>3, <1>4 DEF TableInv

(* What the parameter sets is assigned; a refused rule sets nothing.       *)
LEMMA SetForwardingTableKeepsInv ==
  ASSUME TableInv, NEW rules \in ForwardingTables, SetForwardingTable(rules)
  PROVE  TableInv'
<1> DEFINE accepted == Accepted(rules)
           listed == {rule.address : rule \in accepted}
           Chosen(a) == CHOOSE rule \in accepted : rule.address = a
<1>1. \A rule \in accepted : rule.interface \in Interfaces
  <2> SUFFICES ASSUME NEW k \in DOMAIN rules, \A j \in 1 .. k : ~Refused(rules, j),
                      rules[k].interface \notin Interfaces
               PROVE  FALSE
    BY DEF Accepted
  <2>1. k \in Nat \ {0}
    BY TableAssumption
  <2> QED BY <2>1 DEF Refused
<1> HIDE DEF accepted
<1>2. /\ UNCHANGED <<now, heard, lastPurge, agingTime>>
      /\ assigned' = [a \in Addresses \cap listed |-> Chosen(a).interface]
      /\ table' = [a \in Addresses \cap listed |-> Entry(assigned'[a], -1)]
      /\ multicast' = [g \in Groups \cap listed |->
                         {rule.interface : rule \in {x \in accepted : x.address = g}}]
  BY DEF SetForwardingTable, accepted
<1>3. \A a \in listed : Chosen(a) \in accepted
  OBVIOUS
<1> HIDE DEF listed, Chosen
<1>4. /\ DOMAIN assigned' = Addresses \cap listed
      /\ \A a \in DOMAIN assigned' : assigned'[a] \in Interfaces
  BY <1>1, <1>2, <1>3
<1>5. /\ DOMAIN multicast' \subseteq Groups
      /\ \A g \in DOMAIN multicast' : multicast'[g] \subseteq Interfaces
  BY <1>1, <1>2
<1>6. \A a \in DOMAIN table' :
        /\ a \in DOMAIN assigned'
        /\ \E u \in {-1, SimTimeMax} : table'[a] = Entry(assigned'[a], u)
  BY <1>2, <1>4
<1> QED BY <1>2, <1>4, <1>5, <1>6, SettingKeepsInv

(* Time passes: no entry and no arrival is from the future.                *)
LEMMA TickKeepsInv == TableInv /\ Tick => TableInv'
<1> SUFFICES ASSUME TableInv, Tick PROVE TableInv'
  OBVIOUS
<1> USE AgingAssumption, TableAssumption
<1>0. TypeOK /\ HistoryTypeOK /\ EntriesHaveAnOrigin
  BY DEF TableInv
<1>1. /\ now \in Nat /\ now < MaxNow /\ now' = now + 1
      /\ UNCHANGED <<table, multicast, lastPurge, agingTime, heard, assigned>>
  BY <1>0 DEF Tick, HistoryTypeOK
<1>2. -1 .. now \subseteq -1 .. now' /\ 0 .. now \subseteq 0 .. now'
  BY <1>1
<1>3. TypeOK'
  BY <1>0, <1>1, <1>2 DEF TypeOK
<1>4. HistoryTypeOK'
  BY <1>0, <1>1, <1>2 DEF HistoryTypeOK
<1>5. EntriesHaveAnOrigin'
  BY <1>0, <1>1, <1>2 DEF EntriesHaveAnOrigin, IsAssigned, IsLearned
<1> QED BY <1>3, <1>4, <1>5 DEF TableInv

(* Every step of the table keeps the invariant.                            *)
LEMMA TableInvNext == TableInv /\ [Next]_vars => TableInv'
<1> SUFFICES ASSUME TableInv, [Next]_vars PROVE TableInv'
  OBVIOUS
<1> USE AgingAssumption, TableAssumption
<1>0. TypeOK /\ HistoryTypeOK /\ EntriesHaveAnOrigin
  BY DEF TableInv
<1>1. ASSUME NEW i \in Interfaces, NEW a \in Addresses, Learn(i, a)
      PROVE  TableInv'
  BY <1>1, LearnKeepsInv
<1>2. ASSUME NEW i \in Interfaces, NEW a \in Addresses, SetUnicastAddress(i, a)
      PROVE  TableInv'
  <2>1. /\ UNCHANGED <<now, heard, lastPurge, agingTime, multicast>>
        /\ table' = SetUnicast(table, i, a) /\ assigned' = With(assigned, a, i)
    BY <1>2 DEF SetUnicastAddress
  <2>2. \A x \in DOMAIN table' :
          IF x = a THEN \E t \in {-1, SimTimeMax} : table'[x] = Entry(i, t)
                   ELSE x \in DOMAIN table /\ table'[x] = table[x]
    BY <2>1 DEF SetUnicast, With
  <2>3. /\ DOMAIN assigned' = DOMAIN assigned \cup {a}
        /\ \A x \in DOMAIN assigned' : assigned'[x] = IF x = a THEN i ELSE assigned[x]
    BY <2>1 DEF With
  <2>4. DOMAIN assigned' \subseteq Addresses
        /\ \A x \in DOMAIN assigned' : assigned'[x] \in Interfaces
    BY <1>0, <2>3 DEF HistoryTypeOK
  <2>5. \A x \in DOMAIN table' :
          \/ x \in DOMAIN table /\ table'[x] = table[x]
             /\ (IsAssigned(x) => x \in DOMAIN assigned' /\ assigned'[x] = assigned[x])
          \/ /\ x \in DOMAIN assigned'
             /\ \E t \in {-1, SimTimeMax} : table'[x] = Entry(assigned'[x], t)
    BY <2>2, <2>3 DEF IsAssigned
  <2> QED BY <1>0, <2>1, <2>4, <2>5, SettingKeepsInv DEF TypeOK
<1>3. ASSUME NEW a \in Addresses, RemoveUnicastAddress(a)
      PROVE  TableInv'
  <2>1. UNCHANGED <<now, heard, lastPurge, agingTime, multicast>>
    BY <1>3 DEF RemoveUnicastAddress
  <2>2. CASE a \in DOMAIN table
    <3>1. /\ DOMAIN table' = DOMAIN table \ {a} /\ \A x \in DOMAIN table' : table'[x] = table[x]
          /\ DOMAIN assigned' = DOMAIN assigned \ {a}
          /\ \A x \in DOMAIN assigned' : assigned'[x] = assigned[x]
      BY <1>3, <2>2, RestrictLemma DEF RemoveUnicastAddress
    <3>2. DOMAIN assigned' \subseteq Addresses
          /\ \A x \in DOMAIN assigned' : assigned'[x] \in Interfaces
      BY <1>0, <3>1 DEF HistoryTypeOK
    <3>3. \A x \in DOMAIN table' :
            x \in DOMAIN table /\ table'[x] = table[x]
            /\ (IsAssigned(x) => x \in DOMAIN assigned' /\ assigned'[x] = assigned[x])
      BY <3>1 DEF IsAssigned
    <3> QED BY <1>0, <2>1, <3>2, <3>3, SettingKeepsInv DEF TypeOK
  <2>3. CASE a \notin DOMAIN table
    <3>1. UNCHANGED <<table, assigned>>
      BY <1>3, <2>3 DEF RemoveUnicastAddress
    <3>2. \A x \in DOMAIN table' : IsAssigned(x) => x \in DOMAIN assigned'
      BY <3>1 DEF IsAssigned
    <3> QED BY <1>0, <2>1, <3>1, <3>2, SettingKeepsInv DEF TypeOK, HistoryTypeOK
  <2> QED BY <2>2, <2>3
<1>4. ASSUME NEW i \in Interfaces, NEW g \in Groups,
             AddMulticastAddress(i, g) \/ RemoveMulticastAddress(i, g)
      PROVE  TableInv'
  <2>1. UNCHANGED <<now, heard, lastPurge, agingTime, table, assigned>>
    BY <1>4 DEF AddMulticastAddress, RemoveMulticastAddress
  <2>2. DOMAIN multicast' \subseteq Groups
        /\ \A x \in DOMAIN multicast' : multicast'[x] \subseteq Interfaces
    BY <1>0, <1>4 DEF AddMulticastAddress, RemoveMulticastAddress, With, TypeOK
  <2>3. \A x \in DOMAIN table' : IsAssigned(x) => x \in DOMAIN assigned'
    BY <2>1 DEF IsAssigned
  <2> QED BY <1>0, <2>1, <2>2, <2>3, SettingKeepsInv DEF HistoryTypeOK
<1>5. ASSUME NEW i \in Interfaces, RemoveForwardingInterface(i)
      PROVE  TableInv'
  <2>1. /\ UNCHANGED <<now, heard, lastPurge, agingTime, multicast>>
        /\ DOMAIN table' = {a \in DOMAIN table : table[a].interface # i}
        /\ \A x \in DOMAIN table' : table'[x] = table[x]
        /\ DOMAIN assigned' = {a \in DOMAIN assigned : assigned[a] # i}
        /\ \A x \in DOMAIN assigned' : assigned'[x] = assigned[x]
    BY <1>5, RestrictLemma DEF RemoveForwardingInterface
  <2>2. DOMAIN assigned' \subseteq Addresses
        /\ \A x \in DOMAIN assigned' : assigned'[x] \in Interfaces
    BY <1>0, <2>1 DEF HistoryTypeOK
  <2>3. \A x \in DOMAIN table' :
          x \in DOMAIN table /\ table'[x] = table[x]
          /\ (IsAssigned(x) => x \in DOMAIN assigned' /\ assigned'[x] = assigned[x])
    BY <2>1 DEF IsAssigned
  <2> QED BY <1>0, <2>1, <2>2, <2>3, SettingKeepsInv DEF TypeOK
<1>6. ASSUME NEW i \in Interfaces, NEW j \in Interfaces,
             ReplaceForwardingInterface(i, j)
      PROVE  TableInv'
  BY <1>6, ReplaceKeepsInv
<1>7. ASSUME NEW rules \in ForwardingTables, SetForwardingTable(rules)
      PROVE  TableInv'
  BY <1>7, SetForwardingTableKeepsInv
<1>8. CASE ClearTable
  <2>1. UNCHANGED <<now, heard, lastPurge, agingTime>>
        /\ DOMAIN multicast' = {} /\ DOMAIN assigned' = {} /\ DOMAIN table' = {}
    BY <1>8 DEF ClearTable, EmptyTable
  <2> QED BY <2>1, SettingKeepsInv
<1>11. ASSUME NEW t \in AgingTimes, SetAgingTime(t)
       PROVE  TableInv'
  <2>1. /\ UNCHANGED <<table, multicast, lastPurge, now, heard, assigned>>
        /\ agingTime' \in Nat
    BY <1>11 DEF SetAgingTime
  <2> QED BY <1>0, <2>1 DEF TableInv, TypeOK, HistoryTypeOK, EntriesHaveAnOrigin,
        IsAssigned, IsLearned
<1>9. CASE Tick
  BY <1>9, TickKeepsInv
<1>10. CASE UNCHANGED vars
  BY <1>0, <1>10 DEF vars, TableInv, TypeOK, HistoryTypeOK, EntriesHaveAnOrigin,
     IsAssigned, IsLearned
<1> QED
  BY <1>1, <1>2, <1>3, <1>4, <1>5, <1>6, <1>7, <1>8, <1>9, <1>10, <1>11 DEF Next, Halted

-----------------------------------------------------------------------------
(* The invariant gives the properties the runs check: the interface of an  *)
(* assigned entry is the assigned one; a learned entry that is looked up   *)
(* is not aged, and it is what was heard last.                             *)
LEMMA TableInvImplies ==
  TableInv => TypeOK /\ LookupIsCurrent /\ PermanentEntriesAreAssigned
<1> SUFFICES ASSUME TableInv
             PROVE  LookupIsCurrent /\ PermanentEntriesAreAssigned
  BY DEF TableInv
<1> USE AgingAssumption, TableAssumption
<1>0. TypeOK /\ HistoryTypeOK /\ EntriesHaveAnOrigin
  BY DEF TableInv
<1>1. now \in Nat /\ now < SimTimeMax
  BY <1>0 DEF HistoryTypeOK
<1>2. LookupIsCurrent
  <2> SUFFICES ASSUME NEW a \in Addresses, GetUnicast(table, a, Horizon) # Unknown
               PROVE  LET i == GetUnicast(table, a, Horizon) IN
                      \/ heard[a].interface = i /\ heard[a].time > now - agingTime
                      \/ a \in DOMAIN assigned /\ assigned[a] = i
    BY DEF LookupIsCurrent
  <2>1. /\ a \in DOMAIN table /\ ~(table[a].time <= now - agingTime)
        /\ GetUnicast(table, a, Horizon) = table[a].interface
    BY DEF GetUnicast, Aged, Horizon
  <2>2. IsAssigned(a) \/ IsLearned(a)
    BY <1>0, <2>1 DEF EntriesHaveAnOrigin
  <2>3. agingTime \in Nat
    BY <1>0 DEF TypeOK
  <2> QED BY <1>1, <2>1, <2>2, <2>3 DEF IsAssigned, IsLearned
<1>3. PermanentEntriesAreAssigned
  BY <1>0, <1>1 DEF PermanentEntriesAreAssigned, EntriesHaveAnOrigin, IsAssigned, IsLearned
<1> QED BY <1>2, <1>3

(* In every reachable state each entry of the table comes from the last    *)
(* assignment of its address or from the last packet seen from it.         *)
THEOREM TableInvariance == Spec => []TableInv
BY TableInvInit, TableInvNext, PTL DEF Spec

(* The table, the multicast table and the purge time keep their types.     *)
THEOREM TableTypeCorrect == Spec => []TypeOK
BY TableInvariance, TableInvImplies, PTL

(* getUnicastAddressForwardingInterface never returns stale knowledge.     *)
THEOREM LookupCurrent == Spec => []LookupIsCurrent
BY TableInvariance, TableInvImplies, PTL

(* Every entry that does not age was assigned and is still in force.       *)
THEOREM PermanentAssigned == Spec => []PermanentEntriesAreAssigned
BY TableInvariance, TableInvImplies, PTL

(* Learning one address, with the purge it triggers, changes no lookup of  *)
(* another address.                                                        *)
THEOREM PurgeInvisible == Spec => PurgeIsInvisible
<1>1. ASSUME NEW i \in Interfaces, NEW b \in Addresses, Learn(i, b),
             NEW a \in Addresses \ {b}
      PROVE  GetUnicast(table', a, Horizon') = GetUnicast(table, a, Horizon)
  <2>1. now' = now /\ table' = Learned(Purged, i, b, now)
    BY <1>1 DEF Learn
  <2>2. /\ a \in DOMAIN table' <=> a \in DOMAIN Purged
        /\ a \in DOMAIN table' => table'[a] = Purged[a]
    BY <2>1 DEF Learned, With
  <2>3. Horizon' = Horizon
    BY <1>1 DEF Learn, Horizon
  <2> QED BY <2>2, <2>3, PurgedLemma DEF GetUnicast
<1>2. Next => \A i \in Interfaces, b \in Addresses : Learn(i, b) =>
                \A a \in Addresses \ {b} :
                  GetUnicast(table', a, Horizon') = GetUnicast(table, a, Horizon)
  BY <1>1
<1> QED BY <1>2, PTL DEF Spec, PurgeIsInvisible
=============================================================================
