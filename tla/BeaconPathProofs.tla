-------------------------- MODULE BeaconPathProofs --------------------------
(***************************************************************************)
(* Frames neither multiply nor come back, for any number of cars and of    *)
(* frames, whatever cars join and leave while frames are on their way.     *)
(***************************************************************************)
EXTENDS BeaconPath, FiniteSetTheorems, TLAPS

Frames == Cars \X (1 .. MaxFrames)

DeliveredTypeOK == delivered \in [Cars -> [Frames -> 0 .. 1]]

(* A frame on its way to the NIC of its sender is nowhere else, and nobody *)
(* has received it yet.                                                    *)
OutgoingIsAlone ==
  \A p \in packets : p.side = "eth0" =>
    /\ p.at = p.from
    /\ \A q \in packets : q.from = p.from /\ q.frame = p.frame => q = p
    /\ \A c \in Cars : delivered[c][<<p.from, p.frame>>] = 0

(* A car holds one packet of a frame at most, and only before the protocol *)
(* got the frame.                                                          *)
OneCopyPerCar ==
  /\ \A p, q \in packets :
       p.at = q.at /\ p.from = q.from /\ p.frame = q.frame => p = q
  /\ \A p \in packets : delivered[p.at][<<p.from, p.frame>>] = 0

(* What arrives on the wireless network comes from another car.            *)
NothingComesBack == \A p \in packets : p.side = "wlan0" => p.at # p.from

(* Numbers that are not in use yet have not been delivered.                *)
FreshFrames == \A c \in Cars : \A f \in Frames : f[2] > sent => delivered[c][f] = 0

PathInv ==
  /\ TypeOK
  /\ DeliveredTypeOK
  /\ OutgoingIsAlone
  /\ OneCopyPerCar
  /\ NothingComesBack
  /\ FreshFrames
  /\ LearnsFromOthers

-----------------------------------------------------------------------------
(* The fields of a packet.                                                 *)
LEMMA PacketLemma ==
  ASSUME NEW c, NEW s, NEW f, NEW n
  PROVE  LET p == Packet(c, s, f, n) IN
         p.at = c /\ p.side = s /\ p.from = f /\ p.frame = n
BY DEF Packet

(* A set whose elements are all equal has at most one.                     *)
LEMMA AtMostOne ==
  ASSUME NEW S, \A x, y \in S : x = y
  PROVE  Cardinality(S) \in 0 .. 1 /\ (S = {} => Cardinality(S) = 0)
<1>1. CASE S = {}
  BY <1>1, FS_EmptySet
<1>2. CASE S # {}
  <2>1. PICK x \in S : TRUE
    BY <1>2
  <2>2. S = {x}
    BY <2>1
  <2>3. Cardinality(S) = 1
    BY <2>2, FS_Singleton
  <2> QED BY <1>2, <2>3
<1> QED BY <1>1, <1>2

(* The initial states satisfy the invariant.                               *)
LEMMA PathInvInit == Init => PathInv
<1> SUFFICES ASSUME Init PROVE PathInv
  OBVIOUS
<1> USE CarsAssumption
<1>1. TypeOK
  <2>1. \A c \in Cars : DOMAIN delivered[c] = Cars \X (1 .. MaxFrames)
    BY DEF Init
  <2>2. error \in BOOLEAN
    BY DEF Init
  <2> QED BY <2>1, <2>2 DEF Init, TypeOK
<1>2. DeliveredTypeOK /\ FreshFrames
  BY DEF Init, DeliveredTypeOK, FreshFrames, Frames
<1>3. OutgoingIsAlone /\ OneCopyPerCar /\ NothingComesBack
  BY DEF Init, OutgoingIsAlone, OneCopyPerCar, NothingComesBack
<1>4. LearnsFromOthers
  BY DEF Init, LearnsFromOthers
<1> QED BY <1>1, <1>2, <1>3, <1>4 DEF PathInv

(* Cars come and go: packets only disappear, with the car that holds them. *)
LEMMA FleetKeepsInv ==
  ASSUME PathInv, NEW car \in Cars, Join(car) \/ Leave(car)
  PROVE  PathInv'
<1>0. /\ TypeOK /\ DeliveredTypeOK /\ OutgoingIsAlone /\ OneCopyPerCar
      /\ NothingComesBack /\ FreshFrames /\ LearnsFromOthers
  BY DEF PathInv
<1>1. /\ UNCHANGED <<sent, learned, delivered, error>>
      /\ packets' \subseteq packets
  BY DEF Join, Leave
<1>2. TypeOK'
  <2>1. CASE Join(car)
    BY <1>0, <2>1 DEF Join, TypeOK
  <2>2. CASE Leave(car)
    BY <1>0, <2>2 DEF Leave, TypeOK
  <2> QED BY <2>1, <2>2
<1> QED
  BY <1>0, <1>1, <1>2
  DEF PathInv, DeliveredTypeOK, OutgoingIsAlone, OneCopyPerCar, NothingComesBack,
      FreshFrames, LearnsFromOthers

(* A new frame has a number of its own; a unicast frame starts at the      *)
(* device of node[0].                                                      *)
LEMMA SendKeepsInv ==
  ASSUME PathInv, NEW car \in Cars, SendBroadcast(car) \/ SendUnicast(car)
  PROVE  PathInv'
<1> USE CarsAssumption
<1>0. /\ TypeOK /\ DeliveredTypeOK /\ OutgoingIsAlone /\ OneCopyPerCar
      /\ NothingComesBack /\ FreshFrames /\ LearnsFromOthers
  BY DEF PathInv
<1>1. /\ UNCHANGED <<created, present, learned, delivered>>
      /\ sent' = sent + 1 /\ sent \in Nat /\ sent' \in 1 .. MaxFrames
      /\ car \in present /\ car \in created
  BY <1>0 DEF SendBroadcast, SendUnicast, TypeOK
<1>e. error' \in BOOLEAN
  BY <1>0, Zenon DEF SendBroadcast, SendUnicast, TypeOK
<1>2. \A p \in packets : p.frame \in 1 .. sent /\ p.frame # sent'
  BY <1>0, <1>1 DEF TypeOK
<1>3. \A c \in Cars : delivered[c][<<car, sent'>>] = 0
  BY <1>0, <1>1 DEF FreshFrames, Frames
<1>4. PICK n \in {Packet(car, "eth0", car, sent'), Packet(First, "device", car, sent')} :
        /\ packets' \in {packets, packets \cup {n}}
        /\ packets' # packets => n.at \in present
  <2>1. CASE SendBroadcast(car)
    BY <1>1, <2>1, PacketLemma DEF SendBroadcast
  <2>2. CASE SendUnicast(car)
    BY <2>2, PacketLemma DEF SendUnicast
  <2> QED BY <2>1, <2>2
<1>5. /\ n.from = car /\ n.frame = sent' /\ n.side \in {"eth0", "device"}
      /\ n.side = "eth0" => n.at = car
      /\ n.at \in Cars
  BY <1>4, PacketLemma
<1>6. n \in [at: {n.at}, side: Sides, from: created, frame: 1 .. sent']
  BY <1>1, <1>4 DEF Packet, Sides
<1>7. TypeOK'
  <2>1. packets' \subseteq [at: present, side: Sides, from: created, frame: 1 .. sent']
    BY <1>0, <1>1, <1>4, <1>6 DEF TypeOK
  <2> QED BY <1>0, <1>1, <1>e, <2>1 DEF TypeOK
<1>8. OutgoingIsAlone'
  <2> SUFFICES ASSUME NEW p \in packets', p.side = "eth0"
               PROVE  /\ p.at = p.from
                      /\ \A q \in packets' : q.from = p.from /\ q.frame = p.frame => q = p
                      /\ \A c \in Cars : delivered[c][<<p.from, p.frame>>] = 0
    BY <1>1 DEF OutgoingIsAlone
  <2>1. CASE p \in packets
    BY <1>0, <1>2, <1>4, <1>5, <2>1 DEF OutgoingIsAlone
  <2>2. CASE p = n
    BY <1>2, <1>3, <1>4, <1>5, <2>2
  <2> QED BY <1>4, <2>1, <2>2
<1>9. OneCopyPerCar'
  BY <1>0, <1>1, <1>2, <1>3, <1>4, <1>5 DEF OneCopyPerCar
<1>10. NothingComesBack'
  BY <1>0, <1>4, <1>5 DEF NothingComesBack
<1>11. FreshFrames'
  BY <1>0, <1>1 DEF FreshFrames, Frames
<1> QED
  BY <1>0, <1>1, <1>7, <1>8, <1>9, <1>10, <1>11
  DEF PathInv, DeliveredTypeOK, LearnsFromOthers

(* The NIC of the sender hands the frame to the wireless network: the only *)
(* packet of the frame becomes one packet in each car that receives it,    *)
(* and the sender is not among them.                                       *)
LEMMA ForwardToExternalKeepsInv ==
  ASSUME PathInv, NEW p \in packets, ForwardToExternal(p)
  PROVE  PathInv'
<1>0. /\ TypeOK /\ DeliveredTypeOK /\ OutgoingIsAlone /\ OneCopyPerCar
      /\ NothingComesBack /\ FreshFrames /\ LearnsFromOthers
  BY DEF PathInv
<1>1. /\ UNCHANGED <<created, present, sent, learned, delivered, error>>
      /\ p.side = "eth0"
  BY DEF ForwardToExternal
<1>2. PICK receivers \in SUBSET (present \ {p.at}) :
        packets' = (packets \ {p})
                     \cup {Packet(c, "wlan0", p.from, p.frame) : c \in receivers}
  BY DEF ForwardToExternal
<1>3. /\ p.at = p.from
      /\ \A q \in packets : q.from = p.from /\ q.frame = p.frame => q = p
      /\ \A c \in Cars : delivered[c][<<p.from, p.frame>>] = 0
  BY <1>0, <1>1 DEF OutgoingIsAlone
<1>4. ASSUME NEW q \in packets'
      PROVE  \/ q \in packets /\ ~(q.from = p.from /\ q.frame = p.frame)
             \/ /\ q.at \in present /\ q.at # p.from /\ q.side = "wlan0"
                /\ q.from = p.from /\ q.frame = p.frame
                /\ q = Packet(q.at, "wlan0", p.from, p.frame)
  BY <1>2, <1>3, PacketLemma
<1>5. TypeOK'
  <2>1. ASSUME NEW q \in packets'
        PROVE  q \in [at: present, side: Sides, from: created, frame: 1 .. sent]
    <3>1. p.from \in created /\ p.frame \in 1 .. sent
      BY <1>0 DEF TypeOK
    <3> QED BY <1>0, <1>4, <3>1 DEF TypeOK, Packet, Sides
  <2> QED BY <1>0, <1>1, <2>1 DEF TypeOK
<1>6. OutgoingIsAlone'
  <2> SUFFICES ASSUME NEW q \in packets', q.side = "eth0"
               PROVE  /\ q.at = q.from
                      /\ \A r \in packets' : r.from = q.from /\ r.frame = q.frame => r = q
                      /\ \A c \in Cars : delivered[c][<<q.from, q.frame>>] = 0
    BY <1>1 DEF OutgoingIsAlone
  <2>1. q \in packets /\ ~(q.from = p.from /\ q.frame = p.frame)
    BY <1>4
  <2> QED BY <1>0, <1>4, <2>1 DEF OutgoingIsAlone
<1>7. OneCopyPerCar'
  <2>1. ASSUME NEW q \in packets', NEW r \in packets',
               q.at = r.at, q.from = r.from, q.frame = r.frame
        PROVE  q = r
    <3>1. CASE q.from = p.from /\ q.frame = p.frame
      BY <1>4, <2>1, <3>1
    <3>2. CASE ~(q.from = p.from /\ q.frame = p.frame)
      BY <1>0, <1>4, <2>1, <3>2 DEF OneCopyPerCar
    <3> QED BY <3>1, <3>2
  <2>2. ASSUME NEW q \in packets'
        PROVE  delivered[q.at][<<q.from, q.frame>>] = 0
    <3>1. present \subseteq Cars
      BY <1>0 DEF TypeOK
    <3> QED BY <1>0, <1>3, <1>4, <3>1 DEF OneCopyPerCar
  <2> QED BY <1>1, <2>1, <2>2 DEF OneCopyPerCar
<1>8. NothingComesBack'
  BY <1>0, <1>4 DEF NothingComesBack
<1> QED
  BY <1>0, <1>1, <1>5, <1>6, <1>7, <1>8
  DEF PathInv, DeliveredTypeOK, FreshFrames, LearnsFromOthers

(* The NIC of a receiver learns the sender, which is another car or one    *)
(* that has left, and replaces the packet by the one for the device.       *)
LEMMA ForwardToInternalKeepsInv ==
  ASSUME PathInv, NEW p \in packets, ForwardToInternal(p)
  PROVE  PathInv'
<1>0. /\ TypeOK /\ DeliveredTypeOK /\ OutgoingIsAlone /\ OneCopyPerCar
      /\ NothingComesBack /\ FreshFrames /\ LearnsFromOthers
  BY DEF PathInv
<1> DEFINE n == Packet(p.at, "device", p.from, p.frame)
<1>1. /\ UNCHANGED <<created, present, sent, delivered, error>>
      /\ p.side = "wlan0"
      /\ learned' = [learned EXCEPT ![p.at] = @ \cup {HostOf(p.from)}]
      /\ packets' = (packets \ {p}) \cup {n}
  BY DEF ForwardToInternal
<1>2. n.at = p.at /\ n.side = "device" /\ n.from = p.from /\ n.frame = p.frame
  BY PacketLemma
<1>3. /\ p.at \in present /\ p.from \in created /\ p.frame \in 1 .. sent
      /\ p.at \in Cars /\ p.from \in Cars
  BY <1>0 DEF TypeOK
<1>4. n \in [at: present, side: Sides, from: created, frame: 1 .. sent]
  BY <1>3 DEF Packet, Sides
<1> HIDE DEF n
<1>5. HostOf(p.from) \in Cars \cup {NoHost} /\ HostOf(p.from) # p.at
  BY <1>0, <1>1, <1>3, CarsAssumption DEF HostOf, NothingComesBack
<1>6. TypeOK'
  <2>1. learned' \in [Cars -> SUBSET (Cars \cup {NoHost})]
    BY <1>0, <1>1, <1>5 DEF TypeOK
  <2> QED BY <1>0, <1>1, <1>4, <2>1 DEF TypeOK
<1>7. OutgoingIsAlone'
  <2> SUFFICES ASSUME NEW q \in packets', q.side = "eth0"
               PROVE  /\ q.at = q.from
                      /\ \A r \in packets' : r.from = q.from /\ r.frame = q.frame => r = q
                      /\ \A c \in Cars : delivered[c][<<q.from, q.frame>>] = 0
    BY <1>1 DEF OutgoingIsAlone
  <2>1. q \in packets /\ q # p
    BY <1>1, <1>2
  <2> QED BY <1>0, <1>1, <1>2, <2>1 DEF OutgoingIsAlone
<1>8. OneCopyPerCar'
  BY <1>0, <1>1, <1>2 DEF OneCopyPerCar
<1>9. NothingComesBack'
  BY <1>0, <1>1, <1>2 DEF NothingComesBack
<1>10. LearnsFromOthers'
  BY <1>0, <1>1, <1>5 DEF LearnsFromOthers, TypeOK
<1> QED
  BY <1>0, <1>1, <1>6, <1>7, <1>8, <1>9, <1>10 DEF PathInv, DeliveredTypeOK, FreshFrames

(* The driver consumes the packet, and counts the frame if its sender is   *)
(* still there.                                                            *)
LEMMA DriverReceivesKeepsInv ==
  ASSUME PathInv, NEW p \in packets, DriverReceives(p)
  PROVE  PathInv'
<1>0. /\ TypeOK /\ DeliveredTypeOK /\ OutgoingIsAlone /\ OneCopyPerCar
      /\ NothingComesBack /\ FreshFrames /\ LearnsFromOthers
  BY DEF PathInv
<1> DEFINE f == <<p.from, p.frame>>
<1>1. /\ UNCHANGED <<created, present, sent, learned>>
      /\ p.side = "device" /\ packets' = packets \ {p}
      /\ \/ delivered' = delivered
         \/ delivered' = [delivered EXCEPT ![p.at][f] = @ + 1]
  BY DEF DriverReceives
<1>2. error' \in BOOLEAN
  BY <1>0, Zenon DEF DriverReceives, TypeOK
<1>3. /\ p.at \in Cars /\ f \in Frames /\ f[2] \in 1 .. sent
      /\ f[1] = p.from /\ f[2] = p.frame /\ sent \in Nat
  BY <1>0, CarsAssumption DEF TypeOK, Frames
<1> HIDE DEF f
<1>4. delivered[p.at][f] = 0
  BY <1>0 DEF OneCopyPerCar, f
<1>5. /\ delivered' \in [Cars -> [Frames -> 0 .. 1]]
      /\ \A c \in Cars, g \in Frames :
           c # p.at \/ g # f => delivered'[c][g] = delivered[c][g]
  BY <1>0, <1>1, <1>3, <1>4 DEF DeliveredTypeOK
<1>6. \A q \in packets : q.at \in Cars /\ <<q.from, q.frame>> \in Frames
  BY <1>0, CarsAssumption DEF TypeOK, Frames
<1>7. TypeOK'
  <2>1. \A c \in Cars : DOMAIN delivered'[c] = Cars \X (1 .. MaxFrames)
    BY <1>5 DEF Frames
  <2> QED BY <1>0, <1>1, <1>2, <2>1 DEF TypeOK
<1>8. OutgoingIsAlone'
  <2> SUFFICES ASSUME NEW q \in packets', q.side = "eth0"
               PROVE  /\ q.at = q.from
                      /\ \A r \in packets' : r.from = q.from /\ r.frame = q.frame => r = q
                      /\ \A c \in Cars : delivered'[c][<<q.from, q.frame>>] = 0
    BY DEF OutgoingIsAlone
  <2>1. /\ q \in packets /\ q.at = q.from
        /\ \A r \in packets : r.from = q.from /\ r.frame = q.frame => r = q
        /\ \A c \in Cars : delivered[c][<<q.from, q.frame>>] = 0
    BY <1>0, <1>1 DEF OutgoingIsAlone
  <2>2. <<q.from, q.frame>> # f
    BY <1>1, <2>1 DEF f
  <2> QED BY <1>1, <1>5, <1>6, <2>1, <2>2
<1>9. OneCopyPerCar'
  <2>1. ASSUME NEW q \in packets' PROVE delivered'[q.at][<<q.from, q.frame>>] = 0
    <3>1. q \in packets /\ ~(q.at = p.at /\ <<q.from, q.frame>> = f)
      BY <1>0, <1>1 DEF OneCopyPerCar, f
    <3> QED BY <1>0, <1>5, <1>6, <3>1 DEF OneCopyPerCar
  <2> QED BY <1>0, <1>1, <2>1 DEF OneCopyPerCar
<1>10. NothingComesBack'
  BY <1>0, <1>1 DEF NothingComesBack
<1>11. FreshFrames'
  <2> SUFFICES ASSUME NEW c \in Cars, NEW g \in Frames, g[2] > sent
               PROVE  delivered'[c][g] = 0
    BY <1>1 DEF FreshFrames
  <2>1. g # f
    BY <1>3
  <2> QED BY <1>0, <1>5, <2>1 DEF FreshFrames
<1> QED
  BY <1>0, <1>1, <1>5, <1>7, <1>8, <1>9, <1>10, <1>11
  DEF PathInv, DeliveredTypeOK, LearnsFromOthers

(* Every step of the path keeps the invariant.                             *)
LEMMA PathInvNext == PathInv /\ [Next]_vars => PathInv'
<1> SUFFICES ASSUME PathInv, [Next]_vars PROVE PathInv'
  OBVIOUS
<1>1. ASSUME NEW car \in Cars,
             Join(car) \/ Leave(car) \/ SendBroadcast(car) \/ SendUnicast(car)
      PROVE  PathInv'
  BY <1>1, FleetKeepsInv, SendKeepsInv
<1>2. CASE Forwarding
  BY <1>2, ForwardToExternalKeepsInv, ForwardToInternalKeepsInv, DriverReceivesKeepsInv
  DEF Forwarding
<1>3. CASE UNCHANGED vars
  BY <1>3 DEF vars, PathInv, TypeOK, DeliveredTypeOK, OutgoingIsAlone, OneCopyPerCar,
     NothingComesBack, FreshFrames, LearnsFromOthers
<1> QED BY <1>1, <1>2, <1>3 DEF Next, Halted

(* The invariant bounds what is delivered and still on its way.            *)
LEMMA PathInvImpliesOnce == PathInv => DeliveredOnce
<1> SUFFICES ASSUME PathInv, NEW c \in Cars, NEW f \in Frames
             PROVE  delivered[c][f]
                      + Cardinality({p \in packets : /\ p.at = c
                                                     /\ p.from = f[1] /\ p.frame = f[2]})
                    <= 1
  BY DEF DeliveredOnce, Frames
<1> DEFINE S == {p \in packets : p.at = c /\ p.from = f[1] /\ p.frame = f[2]}
<1>1. f = <<f[1], f[2]>>
  BY DEF Frames
<1>2. \A p, q \in S : p = q
  BY DEF PathInv, OneCopyPerCar
<1>3. S # {} => delivered[c][f] = 0
  BY <1>1 DEF PathInv, OneCopyPerCar
<1>4. delivered[c][f] \in 0 .. 1
  BY DEF PathInv, DeliveredTypeOK
<1> HIDE DEF S
<1>5. Cardinality(S) \in 0 .. 1 /\ (S = {} => Cardinality(S) = 0)
  BY <1>2, AtMostOne
<1>6. delivered[c][f] + Cardinality(S) <= 1
  BY <1>3, <1>4, <1>5
<1> QED BY <1>6 DEF S

-----------------------------------------------------------------------------
(* The inductive invariant of the path.                                    *)
THEOREM PathInvariance == Spec => []PathInv
BY PathInvInit, PathInvNext, PTL DEF Spec

(* Packets, learned hosts and histories keep their types; in particular no *)
(* packet is in a car that does not exist.                                 *)
THEOREM PathTypeCorrect == Spec => []TypeOK
<1>1. PathInv => TypeOK
  BY DEF PathInv
<1> QED BY <1>1, PathInvariance, PTL

(* Each driver hands a frame to its protocol at most once.                 *)
THEOREM FramesDeliveredOnce == Spec => []DeliveredOnce
BY PathInvariance, PathInvImpliesOnce, PTL

(* No NIC ever registers a stream of its own car.                          *)
THEOREM NicsLearnFromOthers == Spec => []LearnsFromOthers
<1>1. PathInv => LearnsFromOthers
  BY DEF PathInv
<1> QED BY <1>1, PathInvariance, PTL
=============================================================================
