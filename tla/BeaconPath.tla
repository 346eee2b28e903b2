----------------------------- MODULE BeaconPath -----------------------------
(***************************************************************************)
(* The way of a platooning frame from car to car: the driver of the        *)
(* sending car puts it on the car's internal network (InetDriver), the NIC *)
(* of that car sends it to the multicast group on the wireless network,    *)
(* each NIC that receives it learns from it and forwards it into its own   *)
(* car (NicForwardingApplication, DynSchedForwardingApplication), and the  *)
(* driver there hands it to the platooning protocol.                       *)
(*                                                                         *)
(* Cars join and leave at any time; the wireless network loses frames.     *)
(***************************************************************************)
EXTENDS Naturals, FiniteSets

CONSTANTS
  Cars,      \* the cars that may take part
  First,     \* node[0]
  NoHost,    \* nullptr: the host of an address that belongs to no module
  MaxFrames  \* bound on the frames sent

ASSUME CarsAssumption ==
  First \in Cars /\ NoHost \notin Cars /\ MaxFrames \in Nat

VARIABLES
  created,   \* cars that were inserted, with those that have left
  present,   \* cars that exist
  sent,      \* number of frames sent; a frame is known by its number
  packets,   \* packets on their way: [at, side, from, frame]
  learned,   \* car -> hosts for which its NIC registered a stream
  delivered, \* car -> history: <<sender, frame>> -> times handed to the protocol
  error      \* a runtime error ended the simulation

vars == <<created, present, sent, packets, learned, delivered, error>>

(***************************************************************************)
(* Where a packet arrives next in its car: at the NIC on eth0 or on wlan0, *)
(* or at the socket of the platoon device.  "from" is the sending car: the *)
(* NICs keep the source address of the platoon device.                     *)
(***************************************************************************)
Sides == {"eth0", "wlan0", "device"}

Packet(car, side, from, frame) ==
  [at |-> car, side |-> side, from |-> from, frame |-> frame]

(* findHostWithAddress for the platoon device of a car.                    *)
HostOf(car) == IF car \in present THEN car ELSE NoHost

-----------------------------------------------------------------------------
Init ==
  /\ created = {}
  /\ present = {}
  /\ sent = 0
  /\ packets = {}
  /\ learned = [c \in Cars |-> {}]
  /\ delivered = [c \in Cars |-> [f \in Cars \X (1 .. MaxFrames) |-> 0]]
  /\ error = FALSE

Join(car) ==
  /\ ~error
  /\ car \notin created
  /\ created' = created \cup {car}
  /\ present' = present \cup {car}
  /\ UNCHANGED <<sent, packets, learned, delivered, error>>

(* A car is deleted with the packets in its network.  What it has sent to  *)
(* others stays on its way.                                                *)
Leave(car) ==
  /\ ~error
  /\ car \in present
  /\ present' = present \ {car}
  /\ packets' = {p \in packets : p.at # car}
  /\ UNCHANGED <<created, sent, learned, delivered, error>>

(* handleMessage of the driver for a frame of the protocol to everyone     *)
(* (recipient -1): it is sent to the multicast group, which on the car's   *)
(* network has the NIC as its member.                                      *)
SendBroadcast(car) ==
  /\ ~error
  /\ car \in present
  /\ sent < MaxFrames
  /\ sent' = sent + 1
  /\ packets' = packets \cup {Packet(car, "eth0", car, sent')}
  /\ UNCHANGED <<created, present, learned, delivered, error>>

(* handleMessage of the driver for a frame to one recipient: whoever that  *)
(* is, the address is that of node[0], which must exist.  The networks     *)
(* between carry the packet or lose it.                                    *)
SendUnicast(car) ==
  /\ ~error
  /\ car \in present
  /\ sent < MaxFrames
  /\ sent' = sent + 1
  /\ IF First \in present
       THEN /\ packets' \in {packets,
                             packets \cup {Packet(First, "device", car, sent')}}
            /\ UNCHANGED error
       ELSE error' = TRUE /\ UNCHANGED packets
  /\ UNCHANGED <<created, present, learned, delivered>>

(* Fault: cars that have left still receive.                               *)
ForwardToExternal_Departed(p) ==
  /\ ~error
  /\ p.side = "eth0"
  /\ \E receivers \in SUBSET (created \ {p.at}) :
       packets' = (packets \ {p})
                    \cup {Packet(c, "wlan0", p.from, p.frame) : c \in receivers}
  /\ UNCHANGED <<created, present, sent, learned, delivered, error>>

(* processPacket of the NIC for a packet from eth0: it is sent to the      *)
(* multicast group on wlan0 (and not looped back); any of the other cars   *)
(* receive it.                                                             *)
ForwardToExternal(p) ==
  /\ ~error
  /\ p.side = "eth0"
  /\ \E receivers \in SUBSET (present \ {p.at}) :
       packets' = (packets \ {p})
                    \cup {Packet(c, "wlan0", p.from, p.frame) : c \in receivers}
  /\ UNCHANGED <<created, present, sent, learned, delivered, error>>

(* Fault: a packet from wlan0 is also sent on wlan0 again.                 *)
ForwardToInternal_Relay(p) ==
  /\ ~error
  /\ p.side = "wlan0"
  /\ learned' = [learned EXCEPT ![p.at] = @ \cup {HostOf(p.from)}]
  /\ \E receivers \in SUBSET (present \ {p.at}) :
       packets' = (packets \ {p})
                    \cup {Packet(p.at, "device", p.from, p.frame)}
                    \cup {Packet(c, "wlan0", p.from, p.frame) : c \in receivers}
  /\ UNCHANGED <<created, present, sent, delivered, error>>

(* Fault: the stream is learned, but the packet is not forwarded.          *)
ForwardToInternal_Drop(p) ==
  /\ ~error
  /\ p.side = "wlan0"
  /\ learned' = [learned EXCEPT ![p.at] = @ \cup {HostOf(p.from)}]
  /\ packets' = packets \ {p}
  /\ UNCHANGED <<created, present, sent, delivered, error>>

(* socketDataArrived of the NIC for a packet from wlan0: adaptSchedule     *)
(* looks for a stream of the host with the packet's source address, and    *)
(* registers one if there is none; the packet is sent on eth0 to the       *)
(* destination of its rule, the platoon device.                            *)
ForwardToInternal(p) ==
  /\ ~error
  /\ p.side = "wlan0"
  /\ learned' = [learned EXCEPT ![p.at] = @ \cup {HostOf(p.from)}]
  /\ packets' = (packets \ {p}) \cup {Packet(p.at, "device", p.from, p.frame)}
  /\ UNCHANGED <<created, present, sent, delivered, error>>

(* handleMessage of the driver for a packet from its socket.  The host of  *)
(* the sender is dereferenced for a signal's name: nullptr ends the        *)
(* simulation.                                                             *)
DriverReceives(p) ==
  /\ ~error
  /\ p.side = "device"
  /\ packets' = packets \ {p}
  /\ IF HostOf(p.from) = NoHost
       THEN error' = TRUE /\ UNCHANGED delivered
       ELSE /\ delivered' = [delivered EXCEPT ![p.at][<<p.from, p.frame>>] = @ + 1]
            /\ UNCHANGED error
  /\ UNCHANGED <<created, present, sent, learned>>

Forwarding == \E p \in packets : \/ ForwardToExternal(p)
                                 \/ ForwardToInternal(p)
                                 \/ DriverReceives(p)

(* Nothing is left to do: after an error, after the last frame, or when    *)
(* all cars have left.                                                     *)
Halted ==
  /\ error \/ (packets = {} /\ (sent = MaxFrames \/ present = {}))
  /\ UNCHANGED vars

Next ==
  \/ \E car \in Cars :
       Join(car) \/ Leave(car) \/ SendBroadcast(car) \/ SendUnicast(car)
  \/ Forwarding
  \/ Halted

Spec == Init /\ [][Next]_vars

(* The simulator delivers packets that were sent.                          *)
FairSpec == Spec /\ WF_vars(Forwarding)

-----------------------------------------------------------------------------
(* Type invariant of the path.                                             *)
TypeOK ==
  /\ created \subseteq Cars /\ present \subseteq created
  /\ sent \in 0 .. MaxFrames
  /\ packets \subseteq
       [at: present, side: Sides, from: created, frame: 1 .. sent]
  /\ learned \in [Cars -> SUBSET (Cars \cup {NoHost})]
  /\ \A c \in Cars : DOMAIN delivered[c] = Cars \X (1 .. MaxFrames)
  /\ error \in BOOLEAN

(* A frame is handed to the protocol of a car at most once, and as long as *)
(* it was not, at most one copy of it is in that car: NICs do not relay    *)
(* what they receive, so frames neither multiply nor come back.            *)
DeliveredOnce ==
  \A c \in Cars : \A f \in Cars \X (1 .. MaxFrames) :
    delivered[c][f]
      + Cardinality({p \in packets : /\ p.at = c
                                     /\ p.from = f[1] /\ p.frame = f[2]}) <= 1

(* A car learns streams of other cars only: its own frames never come back *)
(* to its NIC, where they would have slots reserved for them.              *)
LearnsFromOthers == \A c \in Cars : c \notin learned[c]

(* What is on its way arrives, or its receiver leaves, or the simulation   *)
(* ends: in a car that stays, the frame is handed to the protocol.         *)
ReceivedFrameIsDelivered ==
  \A c \in Cars : \A f \in Cars \X (1 .. MaxFrames) :
    Packet(c, "wlan0", f[1], f[2]) \in packets
      ~> (error \/ c \notin present \/ delivered[c][f] = 1)
=============================================================================
