----------------------------- MODULE NetProofs ------------------------------
(***************************************************************************)
(* Address resolution keeps its packets, for any senders, packets, times   *)
(* and tries; the card's driver keeps the frames of both directions, for   *)
(* rings of any size.                                                      *)
(***************************************************************************)
EXTENDS Arp, Ethernet, NatLemmas, TLAPS

(* ARP: the packets of one entry (netinet/if_ether.c). *)

ArpPlace == {"idle", "resolve", "free", "hold", "ask", "forgive", "flush", "clear"}

ArpTyped ==
  /\ sec \in Nat \ {0} /\ rt_expire \in Nat \ {0} /\ la_asked \in Nat
  /\ sentPkts \in 0..MaxPackets /\ la_hold \in 0..sentPkts
  /\ actor \in [ArpActor -> [at : ArpPlace, m : 0..sentPkts]]
  /\ onWire \in [Packet -> Nat] /\ freed \in [Packet -> Nat]
  /\ \A p \in Packet : p > sentPkts => onWire[p] = 0 /\ freed[p] = 0
  /\ \A a \in Sender : actor[a].at \notin {"forgive", "flush", "clear"}

Holding == \E a \in Sender : actor[a].at = "hold"
Netisr == actor["netisr"].at

(* The mix-up of la_hold has not happened yet and cannot be avoided any    *)
(* more: a sender is about to store into la_hold while the netisr thread   *)
(* sends the packet it was read from, or that thread is itself about to    *)
(* free the packet it sends.                                               *)
Doomed == Netisr = "free" \/ (Holding /\ Netisr \in {"resolve", "clear"})

(* Threads that have a packet nobody else knows of. *)
Carries(a) == actor[a].at \in {"resolve", "free", "hold"}
Carried(p) == \E a \in Sender : Carries(a) /\ actor[a].m = p

(* la_hold is the only one to know of packet p. *)
Pending(p) == la_hold = p /\ ~Holding /\ Netisr # "clear"

(* Up to the mix-up one sender at a time stores into la_hold. *)
ArpOrder ==
  /\ Netisr \in {"idle", "forgive", "flush", "resolve", "clear", "free"}
  /\ \A a, b \in Sender : actor[a].at = "hold" /\ actor[b].at = "hold" => a = b

(* Every packet is in one place. *)
ArpPackets ==
  /\ Netisr \in {"resolve", "clear"} => la_hold # 0 /\ actor["netisr"].m = la_hold
  /\ \A a \in Sender : Carries(a) =>
       /\ actor[a].m # 0 /\ actor[a].m # la_hold
       /\ \A b \in Sender : Carries(b) /\ actor[b].m = actor[a].m => a = b
  /\ \A p \in 1..sentPkts :
       onWire[p] + freed[p] = IF Pending(p) \/ Carried(p) THEN 0 ELSE 1

(* A packet that is held has been asked for, or will be. *)
ArpAsks ==
  /\ la_asked # 0 => asking \/ Netisr = "forgive"
  /\ la_hold # 0 => asking \/ reject \/ Netisr # "idle" \/ \E a \in Sender : actor[a].at = "ask"

ArpInv ==
  /\ ArpTyped /\ ArpAsks
  /\ ~overlap => ArpOrder
  /\ ~overlap /\ ~Doomed => ArpPackets
-----------------------------------------------------------------------------
(* The thread a is now at l, with its packet, and the others stay. *)
Moves(a, l) ==
  /\ actor'[a].at = l /\ actor'[a].m = actor[a].m
  /\ \A b \in ArpActor \ {a} : actor'[b] = actor[b]
  /\ actor' \in [ArpActor -> [at : ArpPlace, m : 0..sentPkts]]

LEMMA ArpGoes ==
  ASSUME ArpTyped, NEW a \in ArpActor, NEW l \in ArpPlace, GoesTo(a, l)
  PROVE  Moves(a, l)
<1>1. actor \in [ArpActor -> [at : ArpPlace, m : 0..sentPkts]]
  BY Zenon DEF ArpTyped
<1>2. actor' = [actor EXCEPT ![a].at = l]
  BY Zenon DEF GoesTo
<1>3. QED
  BY <1>1, <1>2, Zenon DEF Moves

LEMMA ArpActors ==
  /\ "netisr" \in ArpActor /\ Sender \subseteq ArpActor
  /\ \A a \in Sender : a # "netisr"
  /\ \A a \in ArpActor : a \in Sender \/ a = "netisr"
  BY ArpAssumption, Zenon DEF ArpActor

(* What a step of one thread leaves of the others' places. *)
LEMMA SenderMoves ==
  ASSUME NEW a \in Sender, NEW l, Moves(a, l)
  PROVE  /\ actor'["netisr"] = actor["netisr"] /\ Netisr' = Netisr
         /\ \A b \in Sender \ {a} : actor'[b] = actor[b]
         /\ Holding' <=> (l = "hold" \/ \E b \in Sender \ {a} : actor[b].at = "hold")
<1>1. actor'["netisr"] = actor["netisr"] /\ \A b \in Sender \ {a} : actor'[b] = actor[b]
  BY ArpActors, Zenon DEF Moves
<1>2. actor'[a].at = l
  BY Zenon DEF Moves
<1>3. QED
  BY <1>1, <1>2, Zenon DEF Netisr, Holding

LEMMA NetisrMoves ==
  ASSUME NEW l, Moves("netisr", l)
  PROVE  /\ Netisr' = l /\ actor'["netisr"].m = actor["netisr"].m
         /\ \A b \in Sender : actor'[b] = actor[b]
         /\ Holding' <=> Holding
<1>1. \A b \in Sender : actor'[b] = actor[b]
  BY ArpActors, Zenon DEF Moves
<1>2. QED
  BY <1>1, Zenon DEF Netisr, Holding, Moves

(* A step that neither takes, sends nor frees a packet. *)
LEMMA ArpSame ==
  ASSUME ArpPackets, la_hold' = la_hold, sentPkts' = sentPkts, onWire' = onWire, freed' = freed,
         Holding' <=> Holding, Netisr' = "clear" <=> Netisr = "clear",
         Netisr' \in {"resolve", "clear"} =>
           Netisr \in {"resolve", "clear"} /\ actor'["netisr"].m = actor["netisr"].m,
         \A a \in Sender : (Carries(a)' <=> Carries(a)) /\ actor'[a].m = actor[a].m
  PROVE  ArpPackets'
<1>1. \A p : (Carried(p)' <=> Carried(p)) /\ (Pending(p)' <=> Pending(p))
  BY Zenon DEF Carried, Pending
<1>2. \A p \in 1..sentPkts' :
        onWire'[p] + freed'[p] = IF Pending(p)' \/ Carried(p)' THEN 0 ELSE 1
  BY <1>1, Zenon DEF ArpPackets
<1>3. Netisr' \in {"resolve", "clear"} => la_hold' # 0 /\ actor'["netisr"].m = la_hold'
  BY Zenon DEF ArpPackets
<1>4. \A a \in Sender : Carries(a)' =>
        /\ actor'[a].m # 0 /\ actor'[a].m # la_hold'
        /\ \A b \in Sender : Carries(b)' /\ actor'[b].m = actor'[a].m => a = b
  BY Zenon DEF ArpPackets
<1>5. QED
  BY <1>2, <1>3, <1>4, Zenon DEF ArpPackets

(* From la_hold and the ask counter on, nothing but the fields themselves. *)
LEMMA ArpTypedMove ==
  ASSUME ArpTyped, NEW a \in ArpActor, NEW l \in ArpPlace, Moves(a, l),
         a \in Sender => l \notin {"forgive", "flush", "clear"},
         sec' = sec, sentPkts' = sentPkts, onWire' = onWire, freed' = freed,
         rt_expire' \in Nat \ {0}, la_asked' \in Nat, la_hold' \in 0..sentPkts
  PROVE  ArpTyped'
<1>1. \A b \in Sender : actor'[b].at \notin {"forgive", "flush", "clear"}
  BY ArpActors, Zenon DEF Moves, ArpTyped
<1>2. QED
  BY <1>1, Zenon DEF ArpTyped, Moves

LEMMA SecondKeeps ==
  ASSUME ArpInv, Second
  PROVE  ArpInv'
<1>1. /\ sec' = sec + 1 /\ rt_expire' = rt_expire /\ reject' = reject /\ la_asked' = la_asked
      /\ la_hold' = la_hold /\ actor' = actor /\ onWire' = onWire /\ freed' = freed
      /\ sentPkts' = sentPkts /\ asking' = asking /\ overlap' = overlap
  BY Zenon DEF Second
<1>2. ArpTyped'
  BY <1>1 DEF ArpInv, ArpTyped
<1>3. ArpAsks' /\ (~overlap' => ArpOrder') /\ (~overlap' /\ ~Doomed' => ArpPackets')
  BY <1>1 DEF ArpInv, ArpAsks, ArpOrder, ArpPackets, Doomed, Netisr, Holding, Carries, Carried,
              Pending
<1>4. QED
  BY <1>2, <1>3, Zenon DEF ArpInv

(* A new packet, known to its sender only. *)
LEMMA OutputKeeps ==
  ASSUME ArpInv, NEW a \in ArpActor, ether_output(a)
  PROVE  ArpInv'
<1>1. /\ actor[a].at = "idle" /\ a \in Sender /\ sentPkts < MaxPackets
      /\ sentPkts' = sentPkts + 1
      /\ actor' = [actor EXCEPT ![a] = [at |-> "resolve", m |-> sentPkts + 1]]
      /\ sec' = sec /\ rt_expire' = rt_expire /\ reject' = reject /\ la_asked' = la_asked
      /\ la_hold' = la_hold /\ onWire' = onWire /\ freed' = freed
      /\ asking' = asking /\ overlap' = overlap
  BY Zenon DEF ether_output
<1>2. ArpTyped /\ ArpAsks
  BY Zenon DEF ArpInv
<1>3. /\ sentPkts \in Nat /\ MaxPackets \in Nat /\ la_hold \in 0..sentPkts
      /\ actor \in [ArpActor -> [at : ArpPlace, m : 0..sentPkts]]
  BY <1>2, ArpAssumption DEF ArpTyped
<1>4. /\ actor'[a].at = "resolve" /\ actor'[a].m = sentPkts + 1
      /\ \A b \in ArpActor \ {a} : actor'[b] = actor[b]
      /\ \A b \in Sender \ {a} : actor'[b] = actor[b]
      /\ actor'["netisr"] = actor["netisr"]
  BY <1>1, <1>3, ArpActors, Zenon
<1>5. actor' \in [ArpActor -> [at : ArpPlace, m : 0..sentPkts']]
  <2>1. [at |-> "resolve", m |-> sentPkts + 1] \in [at : ArpPlace, m : 0..sentPkts']
    BY <1>1, <1>3 DEF ArpPlace
  <2>2. \A b \in ArpActor : actor[b] \in [at : ArpPlace, m : 0..sentPkts']
    <3>1. 0..sentPkts \subseteq 0..sentPkts'
      BY <1>1, <1>3
    <3>2. QED
      BY <1>3, <3>1, Zenon
  <2>3. QED
    BY <1>1, <1>3, <2>1, <2>2, Zenon
<1>6. ArpTyped'
  <2>1. sentPkts' \in 0..MaxPackets /\ la_hold' \in 0..sentPkts'
    BY <1>1, <1>3
  <2>2. \A p \in Packet : p > sentPkts' => onWire'[p] = 0 /\ freed'[p] = 0
    BY <1>1, <1>2, <1>3 DEF ArpTyped, Packet
  <2>3. \A b \in Sender : actor'[b].at \notin {"forgive", "flush", "clear"}
    BY <1>2, <1>4, Zenon DEF ArpTyped
  <2>4. QED
    BY <1>1, <1>2, <1>5, <2>1, <2>2, <2>3, Zenon DEF ArpTyped
<1>7. Netisr' = Netisr /\ (Holding' <=> Holding) /\ (Doomed' <=> Doomed)
  BY <1>1, <1>4, Zenon DEF Netisr, Holding, Doomed
<1>8. ArpAsks'
  <2>1. \A b \in Sender : actor[b].at = "ask" => actor'[b].at = "ask"
    BY <1>1, <1>4, Zenon
  <2>2. QED
    BY <1>1, <1>2, <1>7, <2>1, Zenon DEF ArpAsks
<1>9. ~overlap' => ArpOrder'
  BY <1>1, <1>4, <1>7, ZenonT(60) DEF ArpInv, ArpOrder
<1>10. ASSUME ~overlap', ~Doomed'
       PROVE  ArpPackets'
  <2>1. ArpPackets
    BY <1>1, <1>7, <1>10, Zenon DEF ArpInv
  <2>2. ~Carries(a) /\ Carries(a)' /\ \A b \in Sender \ {a} : Carries(b)' <=> Carries(b)
    BY <1>1, <1>4, Zenon DEF Carries
  <2>3. \A b \in Sender : actor[b].m \in 0..sentPkts
    BY <1>3, ArpActors, Zenon
  <2>4. \A p \in 1..sentPkts : (Carried(p)' <=> Carried(p)) /\ (Pending(p)' <=> Pending(p))
    BY <1>1, <1>3, <1>4, <1>7, <2>2 DEF Carried, Pending
  <2>5. \A p \in 1..sentPkts : onWire'[p] + freed'[p] = IF Pending(p)' \/ Carried(p)' THEN 0 ELSE 1
    BY <1>1, <2>1, <2>4, Zenon DEF ArpPackets
  <2>6. PICK q : q = sentPkts + 1
    BY Zenon
  <2>7. onWire'[q] = 0 /\ freed'[q] = 0 /\ Carried(q)' /\ 0 + 0 = 0
    <3>1. q \in Packet /\ q > sentPkts
      BY <1>1, <1>3, <2>6 DEF Packet
    <3>2. onWire[q] = 0 /\ freed[q] = 0
      BY <1>2, <3>1, Zenon DEF ArpTyped
    <3>3. actor'[a].m = q
      BY <1>4, <2>6, Zenon
    <3>4. QED
      BY <1>1, <2>2, <3>2, <3>3 DEF Carried
  <2>8. \A p \in 1..sentPkts' : onWire'[p] + freed'[p] = IF Pending(p)' \/ Carried(p)' THEN 0 ELSE 1
    <3>1. \A p \in 1..sentPkts' : p \in 1..sentPkts \/ p = q
      BY <1>1, <1>3, <2>6
    <3>2. onWire'[q] + freed'[q] = IF Pending(q)' \/ Carried(q)' THEN 0 ELSE 1
      BY <2>7, Zenon
    <3>3. QED
      BY <2>5, <3>1, <3>2, Zenon
  <2>9. ASSUME NEW b \in Sender, Carries(b)'
        PROVE  /\ actor'[b].m # 0 /\ actor'[b].m # la_hold'
               /\ \A c \in Sender : Carries(c)' /\ actor'[c].m = actor'[b].m => b = c
    <3>1. CASE b = a
      BY <1>1, <1>3, <1>4, <2>3, <3>1
    <3>2. CASE b # a
      BY <1>1, <1>3, <1>4, <2>1, <2>2, <2>3, <2>9, <3>2 DEF ArpPackets
    <3>3. QED
      BY <3>1, <3>2, Zenon
  <2>10. Netisr' \in {"resolve", "clear"} => la_hold' # 0 /\ actor'["netisr"].m = la_hold'
    BY <1>1, <1>4, <1>7, <2>1, Zenon DEF ArpPackets
  <2>11. QED
    BY <2>8, <2>9, <2>10, Zenon DEF ArpPackets
<1>11. QED
  BY <1>6, <1>8, <1>9, <1>10, Zenon DEF ArpInv

(* Sent once: the count of packet q goes up by one when nobody keeps it    *)
(* any longer.                                                             *)
LEMMA OnePacketLeaves ==
  ASSUME ArpTyped, ArpPackets, NEW q \in 1..sentPkts, sentPkts' = sentPkts,
         \/ onWire' = [onWire EXCEPT ![q] = @ + 1] /\ freed' = freed
         \/ onWire' = onWire /\ freed' = [freed EXCEPT ![q] = @ + 1],
         Pending(q) \/ Carried(q), ~Pending(q)', ~Carried(q)',
         \A p \in (1..sentPkts) \ {q} :
           Pending(p)' \/ Carried(p)' <=> Pending(p) \/ Carried(p)
  PROVE  \A p \in 1..sentPkts' :
           onWire'[p] + freed'[p] = IF Pending(p)' \/ Carried(p)' THEN 0 ELSE 1
<1>1. /\ onWire \in [Packet -> Nat] /\ freed \in [Packet -> Nat]
      /\ sentPkts \in Nat /\ \A p \in 1..sentPkts : p \in Packet
  BY ArpAssumption DEF ArpTyped, Packet
<1>2. onWire[q] + freed[q] = 0
  BY Zenon DEF ArpPackets
<1>3. onWire'[q] + freed'[q] = 1
  BY <1>1, <1>2
<1>4. \A p \in (1..sentPkts) \ {q} : onWire'[p] = onWire[p] /\ freed'[p] = freed[p]
  BY <1>1, Zenon
<1>5. \A p \in (1..sentPkts) \ {q} :
        onWire'[p] + freed'[p] = IF Pending(p)' \/ Carried(p)' THEN 0 ELSE 1
  BY <1>4, Zenon DEF ArpPackets
<1>6. QED
  BY <1>3, <1>5, Zenon

LEMMA CountsTyped ==
  ASSUME ArpTyped, NEW q \in 0..sentPkts, NEW c, c \in [Packet -> Nat],
         \A p \in Packet : p > sentPkts => c[p] = 0
  PROVE  /\ [c EXCEPT ![q] = @ + 1] \in [Packet -> Nat]
         /\ \A p \in Packet : p > sentPkts => [c EXCEPT ![q] = @ + 1][p] = 0
<1>1. sentPkts \in Nat /\ Packet \subseteq Nat
  BY DEF ArpTyped, Packet
<1>2. CASE q \notin Packet
  <2>1. [c EXCEPT ![q] = @ + 1] = c
    BY <1>2, Zenon
  <2>2. QED
    BY <2>1, Zenon
<1>3. CASE q \in Packet
  <2>1. /\ [c EXCEPT ![q] = @ + 1] \in [Packet -> Nat]
        /\ \A p \in Packet : p # q => [c EXCEPT ![q] = @ + 1][p] = c[p]
    BY <1>3
  <2>2. \A p \in Packet : p > sentPkts => p # q
    BY <1>1
  <2>3. QED
    BY <2>1, <2>2, Zenon
<1>4. QED
  BY <1>2, <1>3, Zenon

LEMMA ResolveKeeps ==
  ASSUME ArpInv, NEW a \in ArpActor, Resolve(a)
  PROVE  ArpInv'
<1>1. /\ sec' = sec /\ rt_expire' = rt_expire /\ reject' = reject /\ la_asked' = la_asked
      /\ la_hold' = la_hold /\ freed' = freed /\ sentPkts' = sentPkts
      /\ asking' = asking /\ overlap' = overlap /\ actor[a].at = "resolve"
  BY Zenon DEF Resolve
<1>2. ArpTyped /\ ArpAsks
  BY DEF ArpInv
<1>3. /\ actor[a].m \in 0..sentPkts /\ onWire \in [Packet -> Nat] /\ sentPkts \in Nat
      /\ \A p \in Packet : p > sentPkts => onWire[p] = 0
  BY <1>2 DEF ArpTyped
<1>4. CASE onWire' = [onWire EXCEPT ![actor[a].m] = @ + 1] /\ Returns(a) /\ a \in Sender
  <2>1. Moves(a, "idle")
    BY <1>2, <1>4, ArpGoes, ArpActors, Zenon DEF Returns, ArpPlace
  <2>2. ArpTyped'
    <3>1. /\ onWire' \in [Packet -> Nat]
          /\ \A p \in Packet : p > sentPkts => onWire'[p] = 0
      BY <1>2, <1>3, <1>4, CountsTyped, Zenon
    <3>2. \A b \in Sender : actor'[b].at \notin {"forgive", "flush", "clear"}
      BY <1>2, <2>1, ArpActors, Zenon DEF ArpTyped, Moves
    <3>3. QED
      BY <1>1, <1>2, <2>1, <3>1, <3>2, Zenon DEF ArpTyped, Moves
  <2>3. /\ Netisr' = Netisr /\ (Holding' <=> Holding) /\ (Doomed' <=> Doomed)
        /\ actor'["netisr"] = actor["netisr"]
        /\ \A b \in Sender \ {a} : actor'[b] = actor[b]
    BY <1>1, <1>4, <2>1, SenderMoves DEF Holding, Doomed
  <2>4. actor'[a].at = "idle"
    BY <2>1, Zenon DEF Moves
  <2>5. ArpAsks'
    <3>1. \A b \in Sender : actor[b].at = "ask" => actor'[b].at = "ask"
      BY <1>1, <2>3, Zenon
    <3>2. QED
      BY <1>1, <1>2, <2>3, <3>1, Zenon DEF ArpAsks
  <2>6. ~overlap' => ArpOrder'
    BY <1>1, <2>3, <2>4, Zenon DEF ArpInv, ArpOrder
  <2>7. ASSUME ~overlap', ~Doomed'
        PROVE  ArpPackets'
    <3>1. ArpPackets
      BY <1>1, <2>3, <2>7, Zenon DEF ArpInv
    <3>2. Carries(a) /\ ~Carries(a)' /\ \A b \in Sender \ {a} : Carries(b)' <=> Carries(b)
      BY <1>1, <2>3, <2>4, Zenon DEF Carries
    <3>3. actor[a].m \in 1..sentPkts /\ actor[a].m # la_hold
      BY <1>3, <1>4, <3>1, <3>2 DEF ArpPackets
    <3>4. Carried(actor[a].m)
      BY <1>4, <3>2, Zenon DEF Carried
    <3>6. \A p : Pending(p)' <=> Pending(p)
      BY <1>1, <2>3, Zenon DEF Pending
    <3>7. \A p : p # actor[a].m => (Carried(p)' <=> Carried(p))
      BY <1>4, <2>3, <3>2, Zenon DEF Carried
    <3>9. \A p \in 1..sentPkts' :
            onWire'[p] + freed'[p] = IF Pending(p)' \/ Carried(p)' THEN 0 ELSE 1
      <4> DEFINE q == actor[a].m
      <4>1. /\ q \in 1..sentPkts /\ onWire' = [onWire EXCEPT ![q] = @ + 1] /\ freed' = freed
            /\ Carried(q)
        BY <1>1, <1>4, <3>3, <3>4, Zenon
      <4>2. ~(la_hold' = q /\ ~Holding' /\ Netisr' # "clear")
        BY <1>1, <3>3, Zenon
      <4>3. ~\E b \in Sender : Carries(b)' /\ actor'[b].m = q
        BY <1>4, <2>3, <3>1, <3>2, Zenon DEF ArpPackets
      <4>4. \A p \in (1..sentPkts) \ {q} : Pending(p)' \/ Carried(p)' <=> Pending(p) \/ Carried(p)
        BY <3>6, <3>7, Zenon
      <4> HIDE DEF q
      <4>5. PICK r \in 1..sentPkts : r = q
        BY <4>1, Zenon
      <4>6. ~Pending(r)' /\ ~Carried(r)'
        BY <4>2, <4>3, <4>5, Zenon DEF Pending, Carried
      <4>7. QED
        BY <1>1, <1>2, <3>1, <4>1, <4>4, <4>5, <4>6, OnePacketLeaves, Zenon
    <3>10. \A b \in Sender : Carries(b)' =>
             /\ actor'[b].m # 0 /\ actor'[b].m # la_hold'
             /\ \A c \in Sender : Carries(c)' /\ actor'[c].m = actor'[b].m => b = c
      BY <1>1, <2>3, <3>1, <3>2, Zenon DEF ArpPackets
    <3>11. Netisr' \in {"resolve", "clear"} => la_hold' # 0 /\ actor'["netisr"].m = la_hold'
      BY <1>1, <2>3, <3>1, Zenon DEF ArpPackets
    <3>12. QED
      BY <3>9, <3>10, <3>11, Zenon DEF ArpPackets
  <2>8. QED
    BY <2>2, <2>5, <2>6, <2>7 DEF ArpInv
<1>5. CASE onWire' = [onWire EXCEPT ![actor[a].m] = @ + 1] /\ Returns(a) /\ a = "netisr"
  <2>1. Moves("netisr", "clear")
    BY <1>2, <1>5, ArpGoes, ArpActors, Zenon DEF Returns, ArpPlace
  <2>2. ArpTyped'
    <3>1. /\ onWire' \in [Packet -> Nat]
          /\ \A p \in Packet : p > sentPkts => onWire'[p] = 0
      BY <1>2, <1>3, <1>5, CountsTyped, Zenon
    <3>2. \A b \in Sender : actor'[b].at \notin {"forgive", "flush", "clear"}
      BY <1>2, <2>1, ArpActors, Zenon DEF ArpTyped, Moves
    <3>3. QED
      BY <1>1, <1>2, <2>1, <3>1, <3>2, Zenon DEF ArpTyped, Moves
  <2>3. /\ Netisr = "resolve" /\ Netisr' = "clear" /\ (Holding' <=> Holding)
        /\ actor'["netisr"].m = actor["netisr"].m
        /\ \A b \in Sender : actor'[b] = actor[b]
    BY <1>1, <1>5, <2>1, NetisrMoves, Zenon DEF Netisr
  <2>4. Doomed => Doomed'
    BY <2>3, Zenon DEF Doomed
  <2>5. ArpAsks'
    BY <1>1, <1>2, <2>3, Zenon DEF ArpAsks
  <2>6. ~overlap' => ArpOrder'
    BY <1>1, <2>3, Zenon DEF ArpInv, ArpOrder
  <2>7. ASSUME ~overlap', ~Doomed'
        PROVE  ArpPackets'
    <3>1. ArpPackets /\ ~Holding
      BY <1>1, <2>3, <2>4, <2>7, Zenon DEF ArpInv, Doomed
    <3>2. la_hold # 0 /\ actor[a].m = la_hold /\ la_hold \in 1..sentPkts
      BY <1>2, <1>3, <1>5, <2>3, <3>1 DEF ArpPackets
    <3>3. \A b \in Sender : (Carries(b)' <=> Carries(b)) /\ actor'[b].m = actor[b].m
      BY <2>3, Zenon DEF Carries
    <3>4. \A p : Carried(p)' <=> Carried(p)
      BY <3>3, Zenon DEF Carried
    <3>5. PICK q \in 1..sentPkts : q = la_hold
      BY <3>2, Zenon
    <3>6. Pending(q) /\ ~Pending(q)' /\ ~Carried(q)'
      BY <2>3, <3>1, <3>4, <3>5, Zenon DEF Pending, Carried, ArpPackets
    <3>7. \A p \in (1..sentPkts) \ {q} : Pending(p)' \/ Carried(p)' <=> Pending(p) \/ Carried(p)
      BY <1>1, <3>4, <3>5, Zenon DEF Pending
    <3>8. \A p \in 1..sentPkts' :
            onWire'[p] + freed'[p] = IF Pending(p)' \/ Carried(p)' THEN 0 ELSE 1
      BY <1>1, <1>2, <1>5, <3>1, <3>2, <3>5, <3>6, <3>7, OnePacketLeaves, Zenon
    <3>9. \A b \in Sender : Carries(b)' =>
             /\ actor'[b].m # 0 /\ actor'[b].m # la_hold'
             /\ \A c \in Sender : Carries(c)' /\ actor'[c].m = actor'[b].m => b = c
      BY <1>1, <3>1, <3>3, Zenon DEF ArpPackets
    <3>10. QED
      BY <1>1, <1>5, <2>3, <3>2, <3>8, <3>9, Zenon DEF ArpPackets
  <2>8. QED
    BY <2>2, <2>5, <2>6, <2>7 DEF ArpInv
<1>6. CASE onWire' = onWire /\ GoesTo(a, "free")
  <2>1. Moves(a, "free")
    BY <1>2, <1>6, ArpGoes, Zenon DEF ArpPlace
  <2>2. ArpTyped'
    BY <1>1, <1>2, <1>6, <2>1, ArpTypedMove, Zenon DEF ArpTyped, ArpPlace
  <2>3. CASE a \in Sender
    <3>1. /\ Netisr' = Netisr /\ actor'["netisr"] = actor["netisr"]
          /\ \A b \in Sender \ {a} : actor'[b] = actor[b]
          /\ Holding' <=> Holding
      BY <1>1, <2>1, <2>3, SenderMoves DEF Holding
    <3>2. actor'[a].at = "free" /\ actor'[a].m = actor[a].m
      BY <2>1, Zenon DEF Moves
    <3>3. ArpAsks'
      <4>1. \A b \in Sender : actor[b].at = "ask" => actor'[b].at = "ask"
        BY <1>1, <3>1, Zenon
      <4>2. QED
        BY <1>1, <1>2, <3>1, <4>1, Zenon DEF ArpAsks
    <3>4. ~overlap' => ArpOrder'
      BY <1>1, <3>1, <3>2, Zenon DEF ArpInv, ArpOrder
    <3>5. \A b \in Sender : (Carries(b)' <=> Carries(b)) /\ actor'[b].m = actor[b].m
      BY <1>1, <3>1, <3>2, Zenon DEF Carries
    <3>6. ~overlap' /\ ~Doomed' => ArpPackets'
      BY <1>1, <1>6, <3>1, <3>5, ArpSame, Zenon DEF ArpInv, Doomed
    <3>7. QED
      BY <2>2, <3>3, <3>4, <3>6, Zenon DEF ArpInv
  <2>4. CASE a = "netisr"
    <3>1. Netisr' = "free" /\ \A b \in Sender : actor'[b] = actor[b]
      BY <2>1, <2>4, NetisrMoves, Zenon
    <3>2. Doomed' /\ ArpAsks'
      BY <1>1, <1>2, <2>4, <3>1, Zenon DEF Doomed, ArpAsks, Netisr
    <3>3. ~overlap' => ArpOrder'
      BY <1>1, <3>1, Zenon DEF ArpInv, ArpOrder
    <3>4. QED
      BY <2>2, <3>2, <3>3, Zenon DEF ArpInv
  <2>5. QED
    BY <2>3, <2>4, ArpActors, Zenon
<1>7. QED
  BY <1>4, <1>5, <1>6, ArpActors, Zenon DEF Resolve

(* m_freem of the packet held before: from here on la_hold is stale. *)
LEMMA FreeKeeps ==
  ASSUME ArpInv, NEW a \in ArpActor, FreeHeld(a)
  PROVE  ArpInv'
<1>1. /\ sec' = sec /\ rt_expire' = rt_expire /\ reject' = reject /\ la_asked' = la_asked
      /\ la_hold' = la_hold /\ onWire' = onWire /\ sentPkts' = sentPkts
      /\ asking' = asking /\ actor[a].at = "free" /\ GoesTo(a, "hold")
      /\ freed' = IF la_hold = 0 THEN freed ELSE [freed EXCEPT ![la_hold] = @ + 1]
      /\ overlap' = (overlap \/ a = "netisr" \/ \E b \in ArpActor \ {a} : actor[b].at = "hold")
  BY Zenon DEF FreeHeld
<1>2. ArpTyped /\ ArpAsks
  BY DEF ArpInv
<1>3. /\ la_hold \in 0..sentPkts /\ freed \in [Packet -> Nat] /\ sentPkts \in Nat
      /\ \A p \in Packet : p > sentPkts => freed[p] = 0
  BY <1>2 DEF ArpTyped
<1>4. Moves(a, "hold")
  BY <1>1, <1>2, ArpGoes, Zenon DEF ArpPlace
<1>5. ArpTyped'
  <2>1. freed' \in [Packet -> Nat] /\ \A p \in Packet : p > sentPkts => freed'[p] = 0
    BY <1>1, <1>2, <1>3, CountsTyped, Zenon
  <2>2. \A b \in Sender : actor'[b].at \notin {"forgive", "flush", "clear"}
    BY <1>2, <1>4, ArpActors, Zenon DEF ArpTyped, Moves
  <2>3. QED
    BY <1>1, <1>2, <1>4, <2>1, <2>2, Zenon DEF ArpTyped, Moves
<1>6. CASE a = "netisr"
  <2>1. Netisr' = "hold" /\ overlap' /\ Netisr = "free"
    BY <1>1, <1>4, <1>6, NetisrMoves, Zenon DEF Netisr
  <2>2. ArpAsks'
    BY <1>1, <1>2, <2>1, Zenon DEF ArpAsks
  <2>3. QED
    BY <1>5, <2>1, <2>2, Zenon DEF ArpInv
<1>7. CASE a \in Sender
  <2>1. /\ Netisr' = Netisr /\ actor'["netisr"] = actor["netisr"] /\ Holding'
        /\ \A b \in Sender \ {a} : actor'[b] = actor[b]
    BY <1>4, <1>7, SenderMoves, Zenon
  <2>2. actor'[a].at = "hold" /\ actor'[a].m = actor[a].m
    BY <1>4, Zenon DEF Moves
  <2>3. ArpAsks'
    <3>1. \A b \in Sender : actor[b].at = "ask" => actor'[b].at = "ask"
      BY <1>1, <2>1, Zenon
    <3>2. QED
      BY <1>1, <1>2, <2>1, <3>1, Zenon DEF ArpAsks
  <2>4. ASSUME ~overlap'
        PROVE  ~overlap /\ ~Holding /\ ArpOrder'
    <3>1. ~overlap /\ \A b \in Sender \ {a} : actor[b].at # "hold"
      BY <1>1, <2>4, ArpActors, Zenon
    <3>2. ~Holding
      BY <1>1, <3>1, Zenon DEF Holding
    <3>3. ArpOrder'
      BY <2>1, <3>1, Zenon DEF ArpInv, ArpOrder
    <3>4. QED
      BY <3>1, <3>2, <3>3, Zenon
  <2>5. ASSUME ~overlap', ~Doomed'
        PROVE  ArpPackets'
    <3>1. Netisr \notin {"resolve", "clear", "free"}
      BY <2>1, <2>5, Zenon DEF Doomed
    <3>2. ArpPackets /\ ~Holding
      BY <2>4, <2>5, <3>1, Zenon DEF ArpInv, Doomed
    <3>3. \A b \in Sender : (Carries(b)' <=> Carries(b)) /\ actor'[b].m = actor[b].m
      BY <1>1, <2>1, <2>2, Zenon DEF Carries
    <3>4. \A p : (Carried(p)' <=> Carried(p)) /\ ~Pending(p)'
      BY <2>1, <3>3, Zenon DEF Carried, Pending
    <3>5. \A p : Pending(p) <=> p = la_hold
      BY <3>1, <3>2, Zenon DEF Pending
    <3>6. \A p \in 1..sentPkts' :
            onWire'[p] + freed'[p] = IF Pending(p)' \/ Carried(p)' THEN 0 ELSE 1
      <4>1. CASE la_hold = 0
        <5>1. \A p \in 1..sentPkts : ~Pending(p)
          BY <1>3, <3>5, <4>1
        <5>2. QED
          BY <1>1, <3>2, <3>4, <4>1, <5>1, Zenon DEF ArpPackets
      <4>2. CASE la_hold # 0
        <5>1. PICK q \in 1..sentPkts : q = la_hold
          BY <1>3, <4>2
        <5>2. ~Carried(q)' /\ Pending(q) /\ ~Pending(q)'
          BY <3>2, <3>4, <3>5, <5>1, Zenon DEF Carried, ArpPackets
        <5>3. \A p \in (1..sentPkts) \ {q} :
                Pending(p)' \/ Carried(p)' <=> Pending(p) \/ Carried(p)
          BY <3>4, <3>5, <5>1, Zenon
        <5>4. QED
          BY <1>1, <1>2, <3>2, <4>2, <5>1, <5>2, <5>3, OnePacketLeaves, Zenon
      <4>3. QED
        BY <4>1, <4>2, Zenon
    <3>7. \A b \in Sender : Carries(b)' =>
            /\ actor'[b].m # 0 /\ actor'[b].m # la_hold'
            /\ \A c \in Sender : Carries(c)' /\ actor'[c].m = actor'[b].m => b = c
      BY <1>1, <3>2, <3>3, Zenon DEF ArpPackets
    <3>8. QED
      BY <2>1, <3>1, <3>6, <3>7, Zenon DEF ArpPackets
  <2>6. QED
    BY <1>5, <2>3, <2>4, <2>5, Zenon DEF ArpInv
<1>8. QED
  BY <1>6, <1>7, ArpActors, Zenon

(* la->la_hold = m *)
LEMMA HoldKeeps ==
  ASSUME ArpInv, NEW a \in ArpActor, Hold(a)
  PROVE  ArpInv'
<1>1. /\ sec' = sec /\ rt_expire' = rt_expire /\ reject' = reject /\ la_asked' = la_asked
      /\ la_hold' = actor[a].m /\ onWire' = onWire /\ sentPkts' = sentPkts /\ freed' = freed
      /\ asking' = asking /\ actor[a].at = "hold" /\ GoesTo(a, "ask")
      /\ overlap' = (overlap \/ (a # "netisr" /\ Netisr \in {"resolve", "clear"}))
  BY Zenon DEF Hold, Netisr
<1>2. ArpTyped /\ ArpAsks
  BY DEF ArpInv
<1>3. Moves(a, "ask")
  BY <1>1, <1>2, ArpGoes, Zenon DEF ArpPlace
<1>4. ArpTyped'
  <2>1. actor[a].m \in 0..sentPkts
    BY <1>2, Zenon DEF ArpTyped
  <2>2. QED
    BY <1>1, <1>2, <1>3, <2>1, ArpTypedMove, Zenon DEF ArpTyped, ArpPlace
<1>5. CASE a = "netisr"
  <2>1. Netisr = "hold" /\ Netisr' = "ask"
    BY <1>1, <1>3, <1>5, NetisrMoves, Zenon DEF Netisr
  <2>2. overlap /\ overlap'
    BY <1>1, <2>1, Zenon DEF ArpInv, ArpOrder
  <2>3. ArpAsks'
    BY <1>1, <1>2, <2>1, Zenon DEF ArpAsks
  <2>4. QED
    BY <1>4, <2>2, <2>3, Zenon DEF ArpInv
<1>6. CASE a \in Sender
  <2>1. /\ Netisr' = Netisr /\ actor'["netisr"] = actor["netisr"]
        /\ \A b \in Sender \ {a} : actor'[b] = actor[b]
    BY <1>3, <1>6, SenderMoves, Zenon
  <2>2. actor'[a].at = "ask" /\ actor'[a].m = actor[a].m
    BY <1>3, Zenon DEF Moves
  <2>3. ArpAsks'
    BY <1>1, <1>2, <1>6, <2>1, <2>2, Zenon DEF ArpAsks
  <2>4. ASSUME ~overlap'
        PROVE  ~overlap /\ Netisr \notin {"resolve", "clear"} /\ ArpOrder' /\ ~Holding'
    <3>1. ~overlap /\ Netisr \notin {"resolve", "clear"}
      BY <1>1, <1>6, <2>4, ArpActors, Zenon
    <3>2. ArpOrder
      BY <3>1, Zenon DEF ArpInv
    <3>3. \A b \in Sender : actor'[b].at # "hold"
      BY <1>1, <1>6, <2>1, <2>2, <3>2, Zenon DEF ArpOrder
    <3>4. QED
      BY <2>1, <3>1, <3>2, <3>3, Zenon DEF ArpOrder, Holding
  <2>5. ASSUME ~overlap', ~Doomed'
        PROVE  ArpPackets'
    <3>1. Netisr \notin {"resolve", "clear", "free"}
      BY <2>1, <2>4, <2>5, Zenon DEF Doomed
    <3>2. ArpPackets /\ Holding /\ ~Holding'
      BY <1>1, <1>6, <2>4, <2>5, <3>1, Zenon DEF ArpInv, Doomed, Holding
    <3>3. Carries(a) /\ ~Carries(a)' /\ \A b \in Sender \ {a} : Carries(b)' <=> Carries(b)
      BY <1>1, <2>1, <2>2, Zenon DEF Carries
    <3>4. \A p : ~Pending(p) /\ (Pending(p)' <=> p = actor[a].m)
      BY <1>1, <2>1, <3>1, <3>2, Zenon DEF Pending
    <3>5. \A p : Carried(p) <=> Carried(p)' \/ p = actor[a].m
      BY <1>6, <2>1, <3>3, Zenon DEF Carried
    <3>6. \A p \in 1..sentPkts' :
            onWire'[p] + freed'[p] = IF Pending(p)' \/ Carried(p)' THEN 0 ELSE 1
      BY <1>1, <3>2, <3>4, <3>5, Zenon DEF ArpPackets
    <3>7. \A b \in Sender : Carries(b)' =>
            /\ actor'[b].m # 0 /\ actor'[b].m # la_hold'
            /\ \A c \in Sender : Carries(c)' /\ actor'[c].m = actor'[b].m => b = c
      BY <1>1, <1>6, <2>1, <3>2, <3>3, Zenon DEF ArpPackets
    <3>8. QED
      BY <2>1, <3>1, <3>6, <3>7, Zenon DEF ArpPackets
  <2>6. QED
    BY <1>4, <2>3, <2>4, <2>5, Zenon DEF ArpInv
<1>7. QED
  BY <1>5, <1>6, ArpActors

(* The request, or the host declared down: either way the packet held does *)
(* not wait for nothing.                                                   *)
LEMMA AskKeeps ==
  ASSUME ArpInv, NEW a \in ArpActor, Ask(a)
  PROVE  ArpInv'
<1> DEFINE ask == rt_expire # 0 /\ (la_asked = 0 \/ rt_expire # sec)
           down == ask /\ la_asked >= arp_maxtries
<1>1. /\ sec' = sec /\ la_hold' = la_hold /\ onWire' = onWire /\ sentPkts' = sentPkts
      /\ freed' = freed /\ overlap' = overlap /\ actor[a].at = "ask" /\ Returns(a)
      /\ reject' = IF rt_expire = 0 THEN reject ELSE down
      /\ rt_expire' = IF down THEN sec + arpt_down ELSE IF ask THEN sec ELSE rt_expire
      /\ la_asked' = IF down THEN 0 ELSE IF ask THEN la_asked + 1 ELSE la_asked
      /\ asking' = (asking \/ (ask /\ ~down))
  BY Zenon DEF Ask
<1>2. ArpTyped /\ ArpAsks
  BY DEF ArpInv
<1>3. /\ sec \in Nat \ {0} /\ rt_expire \in Nat \ {0} /\ la_asked \in Nat /\ arpt_down \in Nat
      /\ la_hold \in 0..sentPkts
  BY <1>2, ArpAssumption, Zenon DEF ArpTyped
<1>4. rt_expire' \in Nat \ {0} /\ la_asked' \in Nat
  <2>1. CASE down
    BY <1>1, <1>3, <2>1
  <2>2. CASE ~down
    BY <1>1, <1>3, <2>2
  <2>3. QED
    BY <2>1, <2>2, Zenon
<1>5. /\ la_asked' # 0 => asking' \/ Netisr = "forgive"
      /\ asking' \/ reject' \/ Netisr = "forgive"
  <2>1. CASE down
    BY <1>1, <1>3, <2>1, Zenon
  <2>2. CASE ask /\ ~down
    BY <1>1, <2>2, Zenon
  <2>3. CASE ~ask
    <3>1. la_asked # 0
      BY <1>3, <2>3, Zenon
    <3>2. QED
      BY <1>1, <1>2, <2>3, <3>1, Zenon DEF ArpAsks
  <2>4. QED
    BY <2>1, <2>2, <2>3, Zenon
<1> HIDE DEF ask, down
<1>6. CASE a = "netisr"
  <2>1. Moves("netisr", "clear")
    BY <1>1, <1>2, <1>6, ArpGoes, ArpActors, Zenon DEF Returns, ArpPlace
  <2>2. Netisr = "ask" /\ Netisr' = "clear"
    BY <1>1, <1>6, <2>1, NetisrMoves, Zenon DEF Netisr
  <2>3. overlap /\ overlap'
    BY <1>1, <2>2, Zenon DEF ArpInv, ArpOrder
  <2>4. ArpTyped'
    BY <1>1, <1>2, <1>3, <1>4, <1>6, <2>1, ArpTypedMove, ArpActors, Zenon DEF ArpPlace
  <2>5. ArpAsks'
    BY <1>5, <2>2, Zenon DEF ArpAsks
  <2>6. QED
    BY <2>3, <2>4, <2>5, Zenon DEF ArpInv
<1>7. CASE a \in Sender
  <2>1. Moves(a, "idle")
    BY <1>1, <1>2, <1>7, ArpGoes, ArpActors, Zenon DEF Returns, ArpPlace
  <2>2. ArpTyped'
    BY <1>1, <1>2, <1>3, <1>4, <2>1, ArpTypedMove, Zenon DEF ArpPlace
  <2>3. /\ Netisr' = Netisr /\ actor'["netisr"] = actor["netisr"] /\ (Holding' <=> Holding)
        /\ \A b \in Sender \ {a} : actor'[b] = actor[b]
    BY <1>1, <1>7, <2>1, SenderMoves DEF Holding
  <2>4. actor'[a].at = "idle" /\ actor'[a].m = actor[a].m
    BY <2>1, Zenon DEF Moves
  <2>5. ArpAsks'
    BY <1>5, <2>3, Zenon DEF ArpAsks
  <2>6. ~overlap' => ArpOrder'
    BY <1>1, <2>3, <2>4, Zenon DEF ArpInv, ArpOrder
  <2>7. \A b \in Sender : (Carries(b)' <=> Carries(b)) /\ actor'[b].m = actor[b].m
    BY <1>1, <2>3, <2>4, Zenon DEF Carries
  <2>8. ~overlap' /\ ~Doomed' => ArpPackets'
    BY <1>1, <2>3, <2>7, ArpSame, Zenon DEF ArpInv, Doomed
  <2>9. QED
    BY <2>2, <2>5, <2>6, <2>8 DEF ArpInv
<1>8. QED
  BY <1>6, <1>7, ArpActors

(* The netisr thread before it looks at la_hold. *)
LEMMA LearnKeeps ==
  ASSUME ArpInv, Learn \/ Forgive
  PROVE  ArpInv'
<1>1. /\ sec' = sec /\ la_hold' = la_hold /\ onWire' = onWire /\ sentPkts' = sentPkts
      /\ freed' = freed /\ overlap' = overlap
  BY Zenon DEF Learn, Forgive
<1>2. ArpTyped /\ ArpAsks
  BY Zenon DEF ArpInv
<1>3. sec \in Nat \ {0} /\ arpt_keep \in Nat
  BY <1>2, ArpAssumption, Zenon DEF ArpTyped
<1>4. rt_expire' \in Nat \ {0} /\ la_asked' \in Nat
  BY <1>2, <1>3 DEF ArpTyped, Learn, Forgive
<1>5. PICK l \in {"forgive", "flush"} : /\ GoesTo("netisr", l)
                                        /\ Netisr \in {"idle", "forgive"}
                                        /\ l = "forgive" \/ la_asked' = 0
  BY Zenon DEF Learn, Forgive, Netisr
<1>6. Moves("netisr", l)
  BY <1>2, <1>5, ArpGoes, ArpActors, Zenon DEF ArpPlace
<1>7. /\ Netisr' = l /\ (Holding' <=> Holding) /\ actor'["netisr"].m = actor["netisr"].m
      /\ \A b \in Sender : actor'[b] = actor[b]
  BY <1>6, NetisrMoves, Zenon
<1>8. ArpTyped'
  <2>1. la_hold' \in 0..sentPkts /\ l \in ArpPlace
    BY <1>1, <1>2, <1>5, Zenon DEF ArpTyped, ArpPlace
  <2>2. QED
    BY <1>1, <1>2, <1>4, <1>6, <2>1, ArpTypedMove, ArpActors, Zenon
<1>9. ArpAsks'
  BY <1>5, <1>7, Zenon DEF ArpAsks
<1>10. ~overlap' => ArpOrder'
  BY <1>1, <1>5, <1>7, Zenon DEF ArpInv, ArpOrder
<1>11. \A b \in Sender : (Carries(b)' <=> Carries(b)) /\ actor'[b].m = actor[b].m
  BY <1>7, Zenon DEF Carries
<1>12. ~overlap' /\ ~Doomed' => ArpPackets'
  BY <1>1, <1>5, <1>7, <1>11, ArpSame, Zenon DEF ArpInv, Doomed
<1>13. QED
  BY <1>8, <1>9, <1>10, <1>12, Zenon DEF ArpInv

(* It reads la_hold and sends that packet, which stays in la_hold. *)
LEMMA FlushKeeps ==
  ASSUME ArpInv, FlushHeld
  PROVE  ArpInv'
<1>1. /\ sec' = sec /\ rt_expire' = rt_expire /\ reject' = reject /\ la_asked' = la_asked
      /\ la_hold' = la_hold /\ onWire' = onWire /\ sentPkts' = sentPkts /\ freed' = freed
      /\ asking' = asking /\ Netisr = "flush"
      /\ actor' = [actor EXCEPT !["netisr"] =
                     IF la_hold = 0 THEN [at |-> "idle", m |-> 0]
                     ELSE [at |-> "resolve", m |-> la_hold]]
      /\ overlap' = (overlap \/ (la_hold # 0 /\ Holding))
  BY Zenon DEF FlushHeld, Netisr, Holding
<1>2. ArpTyped /\ ArpAsks
  BY Zenon DEF ArpInv
<1>3. /\ actor \in [ArpActor -> [at : ArpPlace, m : 0..sentPkts]] /\ la_hold \in 0..sentPkts
      /\ sentPkts \in Nat
  BY <1>2 DEF ArpTyped
<1>4. /\ actor'["netisr"] = IF la_hold = 0 THEN [at |-> "idle", m |-> 0]
                            ELSE [at |-> "resolve", m |-> la_hold]
      /\ \A b \in Sender : actor'[b] = actor[b]
  BY <1>1, <1>3, ArpActors, Zenon
<1>5. Netisr' = (IF la_hold = 0 THEN "idle" ELSE "resolve") /\ (Holding' <=> Holding)
      /\ (la_hold # 0 => actor'["netisr"].m = la_hold)
  BY <1>4 DEF Netisr, Holding
<1>6. actor' \in [ArpActor -> [at : ArpPlace, m : 0..sentPkts]]
  <2>1. [at |-> "idle", m |-> 0] \in [at : ArpPlace, m : 0..sentPkts]
    BY <1>3 DEF ArpPlace
  <2>2. [at |-> "resolve", m |-> la_hold] \in [at : ArpPlace, m : 0..sentPkts]
    BY <1>3, Zenon DEF ArpPlace
  <2>3. QED
    BY <1>1, <1>3, <2>1, <2>2, Zenon
<1>7. ArpTyped'
  BY <1>1, <1>2, <1>4, <1>6, Zenon DEF ArpTyped
<1>8. ArpAsks'
  BY <1>1, <1>2, <1>5, Zenon DEF ArpAsks
<1>9. ~overlap' => ArpOrder'
  BY <1>1, <1>4, <1>5, ZenonT(60) DEF ArpInv, ArpOrder
<1>10. ASSUME ~overlap', ~Doomed'
       PROVE  ArpPackets'
  <2>1. ArpPackets
    BY <1>1, <1>10, Zenon DEF ArpInv, Doomed
  <2>2. \A b \in Sender : (Carries(b)' <=> Carries(b)) /\ actor'[b].m = actor[b].m
    BY <1>4, Zenon DEF Carries
  <2>3. \A p : (Carried(p)' <=> Carried(p)) /\ (Pending(p)' <=> Pending(p))
    BY <1>1, <1>5, <2>2, Zenon DEF Carried, Pending
  <2>4. \A p \in 1..sentPkts' :
          onWire'[p] + freed'[p] = IF Pending(p)' \/ Carried(p)' THEN 0 ELSE 1
    BY <1>1, <2>1, <2>3, Zenon DEF ArpPackets
  <2>5. \A b \in Sender : Carries(b)' =>
          /\ actor'[b].m # 0 /\ actor'[b].m # la_hold'
          /\ \A c \in Sender : Carries(c)' /\ actor'[c].m = actor'[b].m => b = c
    BY <1>1, <2>1, <2>2, Zenon DEF ArpPackets
  <2>6. Netisr' \in {"resolve", "clear"} => la_hold' # 0 /\ actor'["netisr"].m = la_hold'
    BY <1>1, <1>5, Zenon
  <2>7. QED
    BY <2>4, <2>5, <2>6, Zenon DEF ArpPackets
<1>11. QED
  BY <1>7, <1>8, <1>9, <1>10, Zenon DEF ArpInv

(* la->la_hold = NULL, of the packet just sent. *)
LEMMA ClearKeeps ==
  ASSUME ArpInv, ClearHeld
  PROVE  ArpInv'
<1>1. /\ sec' = sec /\ rt_expire' = rt_expire /\ reject' = reject /\ la_asked' = la_asked
      /\ la_hold' = 0 /\ onWire' = onWire /\ sentPkts' = sentPkts /\ freed' = freed
      /\ asking' = asking /\ Netisr = "clear" /\ GoesTo("netisr", "idle")
      /\ overlap' = (overlap \/ Holding)
  BY Zenon DEF ClearHeld, Netisr, Holding
<1>2. ArpTyped /\ ArpAsks
  BY DEF ArpInv
<1>3. Moves("netisr", "idle")
  BY <1>1, <1>2, ArpGoes, ArpActors, Zenon DEF ArpPlace
<1>4. /\ Netisr' = "idle" /\ (Holding' <=> Holding)
      /\ \A b \in Sender : actor'[b] = actor[b]
  BY <1>3, NetisrMoves, Zenon
<1>5. ArpTyped'
  <2>1. 0 \in 0..sentPkts
    BY <1>2 DEF ArpTyped
  <2>2. QED
    BY <1>1, <1>2, <1>3, <2>1, ArpTypedMove, ArpActors, Zenon DEF ArpTyped, ArpPlace
<1>6. ArpAsks'
  BY <1>1, <1>2, <1>4, Zenon DEF ArpAsks
<1>7. ~overlap' => ArpOrder'
  BY <1>1, <1>4, Zenon DEF ArpInv, ArpOrder
<1>8. ASSUME ~overlap', ~Doomed'
      PROVE  ArpPackets'
  <2>1. ArpPackets
    BY <1>1, <1>8, Zenon DEF ArpInv, Doomed
  <2>2. \A b \in Sender : (Carries(b)' <=> Carries(b)) /\ actor'[b].m = actor[b].m
    BY <1>4, Zenon DEF Carries
  <2>3. \A p \in 1..sentPkts : (Carried(p)' <=> Carried(p)) /\ ~Pending(p)' /\ ~Pending(p)
    BY <1>1, <2>2 DEF Carried, Pending
  <2>4. \A p \in 1..sentPkts' :
          onWire'[p] + freed'[p] = IF Pending(p)' \/ Carried(p)' THEN 0 ELSE 1
    BY <1>1, <2>1, <2>3, Zenon DEF ArpPackets
  <2>5. \A b \in Sender : Carries(b)' =>
          /\ actor'[b].m # 0 /\ actor'[b].m # la_hold'
          /\ \A c \in Sender : Carries(c)' /\ actor'[c].m = actor'[b].m => b = c
    BY <1>1, <2>1, <2>2, Zenon DEF ArpPackets
  <2>6. QED
    BY <1>4, <2>4, <2>5, Zenon DEF ArpPackets
<1>9. QED
  BY <1>5, <1>6, <1>7, <1>8 DEF ArpInv

LEMMA ArpInvInit ==
  ASSUME ArpInit
  PROVE  ArpInv
<1>1. /\ \A a \in ArpActor : actor[a].at = "idle" /\ actor[a].m = 0
      /\ actor = [a \in ArpActor |-> [at |-> "idle", m |-> 0]]
      /\ la_hold = 0 /\ sentPkts = 0 /\ la_asked = 0 /\ ~overlap
  BY Zenon DEF ArpInit
<1>2. ArpTyped
  <2>1. actor \in [ArpActor -> [at : ArpPlace, m : 0..sentPkts]]
    BY <1>1 DEF ArpPlace
  <2>2. QED
    BY <1>1, <2>1, ArpAssumption, ArpActors DEF ArpInit, ArpTyped
<1>3. Netisr = "idle" /\ \A a \in Sender : actor[a].at = "idle"
  BY <1>1, ArpActors, Zenon DEF Netisr
<1>4. ArpAsks /\ ArpOrder
  BY <1>1, <1>3, Zenon DEF ArpAsks, ArpOrder
<1>5. ArpPackets
  BY <1>1, <1>3 DEF ArpPackets, Carries
<1>6. QED
  BY <1>2, <1>4, <1>5, Zenon DEF ArpInv

LEMMA ArpInvStep ==
  ASSUME ArpInv, [ArpNext]_arpVars
  PROVE  ArpInv'
<1>1. CASE UNCHANGED arpVars
  BY <1>1 DEF arpVars, ArpInv, ArpTyped, ArpAsks, ArpOrder, ArpPackets, Doomed, Netisr, Holding,
              Carries, Carried, Pending
<1>2. QED
  BY <1>1, SecondKeeps, LearnKeeps, FlushKeeps, ClearKeeps, OutputKeeps, ResolveKeeps, FreeKeeps,
     HoldKeeps, AskKeeps, Zenon DEF ArpNext

(* When every thread is idle nothing is carried, and la_hold is all there  *)
(* is to know.                                                             *)
LEMMA ArpInvIsEnough ==
  ASSUME ArpInv
  PROVE  HeldPackets
<1>1. SUFFICES ASSUME ~overlap, \A a \in ArpActor : actor[a].at = "idle"
               PROVE  /\ \A p \in 1..sentPkts : onWire[p] + freed[p] = IF la_hold = p THEN 0 ELSE 1
                      /\ la_hold # 0 => asking \/ reject
  BY Zenon DEF HeldPackets
<1>2. Netisr = "idle" /\ \A a \in Sender : actor[a].at = "idle"
  BY <1>1, ArpActors, Zenon DEF Netisr
<1>3. ~Doomed /\ ~Holding
  BY <1>2, Zenon DEF Doomed, Holding
<1>4. \A p : ~Carried(p) /\ (Pending(p) <=> la_hold = p)
  BY <1>2, <1>3, Zenon DEF Carried, Carries, Pending
<1>5. \A p \in 1..sentPkts : onWire[p] + freed[p] = IF la_hold = p THEN 0 ELSE 1
  BY <1>1, <1>3, <1>4, Zenon DEF ArpInv, ArpPackets
<1>6. la_hold # 0 => asking \/ reject
  BY <1>2, Zenon DEF ArpInv, ArpAsks
<1>7. QED
  BY <1>5, <1>6, Zenon

(* For any senders, packets, times and tries: until two threads change     *)
(* la_hold at once, arpresolve and in_arpinput send or free each packet    *)
(* once, and hold one only while the host is asked for or declared down.   *)
THEOREM PacketsHeld == ArpSpec => []HeldPackets
<1>1. ArpInit => ArpInv
  BY ArpInvInit, Zenon
<1>2. ArpInv /\ [ArpNext]_arpVars => ArpInv'
  BY ArpInvStep, Zenon
<1>3. ArpInv => HeldPackets
  BY ArpInvIsEnough, Zenon
<1>4. QED
  BY <1>1, <1>2, <1>3, PTL DEF ArpSpec
-----------------------------------------------------------------------------
(* The card's receive ring (Kernel/e1000.c).  Of the frames received, the  *)
(* driver has looked at the first h and has given back the descriptors of  *)
(* the first g; the card may fill the ring up to frame g + n - 1.          *)

RingAt(h, g) ==
  /\ h \in Nat /\ g \in Nat /\ frames \in Nat
  /\ g <= h /\ h <= frames /\ frames <= g + NUM_RX_DESCRIPTORS - 1
  /\ rdh = Wrap(frames) /\ rdt = Wrap(g + NUM_RX_DESCRIPTORS - 1)
  /\ rx = [head |-> Wrap(h), tail |-> rdt, free |-> h - g]
  /\ desc \in [Slot -> Kind \cup {NoFrame}]
  /\ \A j \in h .. h + NUM_RX_DESCRIPTORS - 1 : desc[Wrap(j)] # NoFrame <=> j < frames

(* A ring with no descriptor left has its interrupt on the way.  The       *)
(* handler that is about to give back the descriptors it emptied may find  *)
(* none, if the card filled the whole ring after it had looked: then the   *)
(* next interrupt waits.                                                   *)
RefillAt(h, g) ==
  /\ irq \in {"out", "rx", "refill"}
  /\ icr \subseteq {"RXT0", "RXDMT0"} /\ (icr # {} => "RXT0" \in icr)
  /\ frames = g + NUM_RX_DESCRIPTORS - 1 =>
       "RXDMT0" \in icr \/ (irq # "out" /\ "RXDMT0" \in cause)
  /\ irq = "refill" /\ frames = h + NUM_RX_DESCRIPTORS - 1 => "RXDMT0" \in icr

RingInv == \E h, g \in Nat : RingAt(h, g) /\ RefillAt(h, g)

LEMMA SlotCount == NUM_RX_DESCRIPTORS \in Nat \ {0} /\ NUM_RX_DESCRIPTORS > 1
  BY RingAssumption, SMT

LEMMA WrapIn == \A a \in Nat : Wrap(a) \in Slot
  BY SlotCount, DivMod, Zenon DEF Wrap, Slot

LEMMA WrapAdd == \A a, b \in Nat : Wrap(Wrap(a) + b) = Wrap(a + b)
  BY SlotCount, ModAdd, Zenon DEF Wrap

LEMMA WrapGap ==
  ASSUME NEW a \in Nat, NEW b \in Nat, a <= b, b < a + NUM_RX_DESCRIPTORS
  PROVE  Wrap(Wrap(b) + NUM_RX_DESCRIPTORS - Wrap(a)) = b - a
  BY SlotCount, ModGap, Zenon DEF Wrap

LEMMA WrapApart ==
  ASSUME NEW a \in Nat, NEW b \in Nat, a # b,
         a < b + NUM_RX_DESCRIPTORS, b < a + NUM_RX_DESCRIPTORS
  PROVE  Wrap(a) # Wrap(b)
<1>1. CASE a < b
  BY <1>1, SlotCount, ModApart, Zenon DEF Wrap
<1>2. CASE b < a
  BY <1>2, SlotCount, ModApart, Zenon DEF Wrap
<1>3. QED
  BY <1>1, <1>2, SMT

(* Place h + n is place h. *)
LEMMA WrapRound == \A a \in Nat : Wrap(a + NUM_RX_DESCRIPTORS) = Wrap(a)
  BY SlotCount, ModRound, Zenon DEF Wrap

LEMMA CardKeeps ==
  ASSUME NEW h \in Nat, NEW g \in Nat, RingAt(h, g), RefillAt(h, g), NEW k \in Kind, CardReceives(k)
  PROVE  RingAt(h, g)' /\ RefillAt(h, g)'
<1> DEFINE n == NUM_RX_DESCRIPTORS
<1>1. /\ rdh # rdt /\ desc' = [desc EXCEPT ![rdh] = k] /\ rdh' = Wrap(rdh + 1) /\ frames' = frames + 1
      /\ rdt' = rdt /\ rx' = rx /\ irq' = irq /\ cause' = cause
      /\ icr' = icr \cup {"RXT0"}
              \cup (IF Given - 1 <= NUM_RX_DESCRIPTORS \div 2 THEN {"RXDMT0"} ELSE {})
  BY Zenon DEF CardReceives
<1>2. /\ frames \in Nat /\ g <= h /\ h <= frames /\ frames <= g + n - 1
      /\ rdh = Wrap(frames) /\ rdt = Wrap(g + n - 1)
      /\ rx = [head |-> Wrap(h), tail |-> rdt, free |-> h - g]
      /\ desc \in [Slot -> Kind \cup {NoFrame}]
      /\ \A j \in h .. h + n - 1 : desc[Wrap(j)] # NoFrame <=> j < frames
  BY Zenon DEF RingAt
<1>3. n \in Nat /\ n > 1
  BY SlotCount, SMT
<1>4. frames # g + n - 1
  BY <1>1, <1>2, Zenon
<1>5. frames' \in Nat /\ h <= frames' /\ frames' <= g + n - 1
  BY <1>1, <1>2, <1>3, <1>4, SMT
<1>6. rdh' = Wrap(frames')
  BY <1>1, <1>2, WrapAdd, SMT
<1>7. desc' \in [Slot -> Kind \cup {NoFrame}]
  BY <1>1, <1>2, WrapIn, Zenon
<1>8. ASSUME NEW j \in h .. h + n - 1 PROVE desc'[Wrap(j)] # NoFrame <=> j < frames'
  <2>1. j \in Nat /\ Wrap(j) \in Slot /\ Wrap(frames) \in Slot
    <3>1. j \in Nat
      BY <1>3, SMT
    <3>2. QED
      BY <1>2, <3>1, WrapIn, Zenon
  <2>2. CASE j = frames
    <3>1. desc'[Wrap(j)] = k
      BY <1>1, <1>2, <2>1, <2>2, Zenon
    <3>2. k # NoFrame
      BY Zenon DEF Kind, NoFrame
    <3>3. j < frames'
      BY <1>1, <2>1, <2>2, SMT
    <3>4. QED
      BY <3>1, <3>2, <3>3, Zenon
  <2>3. CASE j # frames
    <3>1. j < frames + n /\ frames < j + n
      BY <1>2, <1>3, SMT
    <3>2. Wrap(j) # Wrap(frames)
      BY <1>2, <2>1, <2>3, <3>1, WrapApart, Zenon
    <3>3. desc'[Wrap(j)] = desc[Wrap(j)]
      BY <1>1, <1>2, <2>1, <3>2, Zenon
    <3>4. j < frames <=> j < frames'
      BY <1>1, <1>2, <2>1, <2>3, SMT
    <3>5. QED
      BY <1>2, <3>3, <3>4, Zenon
  <2>4. QED
    BY <2>2, <2>3, Zenon
<1>9. RingAt(h, g)'
  BY <1>1, <1>2, <1>5, <1>6, <1>7, <1>8, Zenon DEF RingAt
<1>10. frames' = g + n - 1 => "RXDMT0" \in icr'
  <2>1. SUFFICES ASSUME frames' = g + n - 1 PROVE "RXDMT0" \in icr'
    BY Zenon
  <2>2. g + n - 1 \in Nat /\ frames <= g + n - 1 /\ g + n - 1 < frames + n
    BY <1>2, <1>3, SMT
  <2>3. Given = g + n - 1 - frames
    <3>1. PICK b \in Nat : b = g + n - 1
      BY <2>2, Zenon
    <3>2. Wrap(Wrap(b) + n - Wrap(frames)) = b - frames
      BY <1>2, <2>2, <3>1, WrapGap, Zenon
    <3>3. rdt = Wrap(b) /\ rdh = Wrap(frames)
      BY <1>2, <3>1, Zenon
    <3>4. Given = b - frames
      BY <3>2, <3>3, Zenon DEF Given
    <3>5. QED
      BY <1>2, <1>3, <3>1, <3>4, SMT
  <2>4. Given - 1 <= n \div 2
    BY <1>1, <1>2, <1>3, <2>1, <2>3, SMT
  <2>5. QED
    BY <1>1, <2>4, Zenon
<1>11. frames' = h + n - 1 => frames' = g + n - 1
  BY <1>2, <1>3, <1>5, SMT
<1>12. RefillAt(h, g)'
  <2>1. irq \in {"out", "rx", "refill"} /\ icr \subseteq {"RXT0", "RXDMT0"}
    BY Zenon DEF RefillAt
  <2>2. icr' \subseteq {"RXT0", "RXDMT0"} /\ "RXT0" \in icr'
    BY <1>1, <2>1, Zenon
  <2>3. QED
    BY <1>1, <1>10, <1>11, <2>1, <2>2, Zenon DEF RefillAt
<1>13. QED
  BY <1>9, <1>12, Zenon

LEMMA IcrKeeps ==
  ASSUME NEW h \in Nat, NEW g \in Nat, RingAt(h, g), RefillAt(h, g), ReadIcr
  PROVE  RingAt(h, g)' /\ RefillAt(h, g)'
<1>1. /\ irq = "out" /\ icr # {} /\ cause' = icr /\ icr' = {}
      /\ irq' = IF "RXT0" \in icr THEN "rx" ELSE "refill"
      /\ desc' = desc /\ rdh' = rdh /\ rdt' = rdt /\ rx' = rx /\ frames' = frames
  BY Zenon DEF ReadIcr
<1>2. irq' = "rx"
  BY <1>1, Zenon DEF RefillAt
<1>3. RingAt(h, g)'
  BY <1>1, Zenon DEF RingAt
<1>4. frames = g + NUM_RX_DESCRIPTORS - 1 => "RXDMT0" \in cause'
  BY <1>1, Zenon DEF RefillAt
<1>5. RefillAt(h, g)'
  BY <1>1, <1>2, <1>4, Zenon DEF RefillAt
<1>6. QED
  BY <1>3, <1>5, Zenon

LEMMA PacketKeeps ==
  ASSUME NEW h \in Nat, NEW g \in Nat, RingAt(h, g), RefillAt(h, g), e1000_handle_rx_packet
  PROVE  RingAt(h + 1, g)' /\ RefillAt(h + 1, g)'
<1> DEFINE n == NUM_RX_DESCRIPTORS
<1>1. /\ irq = "rx" /\ desc[rx.head] # NoFrame
      /\ desc' = [desc EXCEPT ![rx.head] = NoFrame]
      /\ rx' = [rx EXCEPT !.head = Wrap(@ + 1), !.free = @ + 1]
      /\ rdh' = rdh /\ rdt' = rdt /\ icr' = icr /\ irq' = irq /\ cause' = cause /\ frames' = frames
  BY Zenon DEF e1000_handle_rx_packet
<1>2. /\ frames \in Nat /\ g <= h /\ h <= frames /\ frames <= g + n - 1
      /\ rdh = Wrap(frames) /\ rdt = Wrap(g + n - 1)
      /\ rx = [head |-> Wrap(h), tail |-> rdt, free |-> h - g]
      /\ desc \in [Slot -> Kind \cup {NoFrame}]
      /\ \A j \in h .. h + n - 1 : desc[Wrap(j)] # NoFrame <=> j < frames
  BY Zenon DEF RingAt
<1>3. n \in Nat /\ n > 1
  BY SlotCount, SMT
<1>4. h < frames
  <2>1. h \in h .. h + n - 1
    BY <1>3, SMT
  <2>2. desc[Wrap(h)] # NoFrame
    BY <1>1, <1>2, Zenon
  <2>3. QED
    BY <1>2, <2>1, <2>2, Zenon
<1>5. h + 1 \in Nat /\ g <= h + 1 /\ h + 1 <= frames
  BY <1>2, <1>4, SMT
<1>6. rx' = [head |-> Wrap(h + 1), tail |-> rdt, free |-> (h + 1) - g]
  <2>1. Wrap(Wrap(h) + 1) = Wrap(h + 1)
    BY WrapAdd, SMT
  <2>2. (h - g) + 1 = (h + 1) - g
    BY SMT
  <2>3. rx' = [head |-> Wrap(Wrap(h) + 1), tail |-> rdt, free |-> (h - g) + 1]
    BY <1>1, <1>2, Zenon
  <2>4. QED
    BY <2>1, <2>2, <2>3, Zenon
<1>7. Wrap(h) \in Slot
  BY WrapIn, Zenon
<1>8. desc' = [desc EXCEPT ![Wrap(h)] = NoFrame]
  BY <1>1, <1>2, Zenon
<1>9. desc' \in [Slot -> Kind \cup {NoFrame}]
  BY <1>2, <1>8, Zenon
<1>10. ASSUME NEW j \in h + 1 .. (h + 1) + n - 1 PROVE desc'[Wrap(j)] # NoFrame <=> j < frames
  <2>1. j \in Nat
    BY <1>3, SMT
  <2>2. Wrap(j) \in Slot
    BY <2>1, WrapIn, Zenon
  <2>3. CASE j = h + n
    <3>1. Wrap(j) = Wrap(h)
      BY <2>3, WrapRound, Zenon
    <3>2. desc'[Wrap(j)] = NoFrame
      BY <1>2, <1>7, <1>8, <3>1, Zenon
    <3>3. ~(j < frames)
      BY <1>2, <1>3, <2>3, SMT
    <3>4. QED
      BY <3>2, <3>3, Zenon
  <2>4. CASE j # h + n
    <3>1. j \in h .. h + n - 1 /\ j # h /\ j < h + n /\ h < j + n
      BY <1>3, <2>4, SMT
    <3>2. Wrap(j) # Wrap(h)
      BY <2>1, <3>1, WrapApart, Zenon
    <3>3. desc'[Wrap(j)] = desc[Wrap(j)]
      BY <1>2, <1>8, <2>2, <3>2, Zenon
    <3>4. QED
      BY <1>2, <3>1, <3>3, Zenon
  <2>5. QED
    BY <2>3, <2>4, Zenon
<1>11. RingAt(h + 1, g)'
  BY <1>1, <1>2, <1>5, <1>6, <1>9, <1>10, Zenon DEF RingAt
<1>12. RefillAt(h + 1, g)'
  BY <1>1, Zenon DEF RefillAt
<1>13. QED
  BY <1>11, <1>12, Zenon

LEMMA DoneKeeps ==
  ASSUME NEW h \in Nat, NEW g \in Nat, RingAt(h, g), RefillAt(h, g), RxDone
  PROVE  RingAt(h, g)' /\ RefillAt(h, g)'
<1>1. /\ irq = "rx" /\ desc[rx.head] = NoFrame
      /\ irq' = IF "RXDMT0" \in cause THEN "refill" ELSE "out"
      /\ desc' = desc /\ rdh' = rdh /\ rdt' = rdt /\ rx' = rx /\ frames' = frames
      /\ icr' = icr /\ cause' = cause
  BY Zenon DEF RxDone
<1>2. RingAt(h, g)'
  BY <1>1, Zenon DEF RingAt
<1>3. h \in h .. h + NUM_RX_DESCRIPTORS - 1
  BY SlotCount, SMT
<1>4. desc[Wrap(h)] = NoFrame /\ frames \in Nat
  BY <1>1, Zenon DEF RingAt
<1>5. ~(h < frames)
  BY <1>3, <1>4, Zenon DEF RingAt
<1>6. frames # h + NUM_RX_DESCRIPTORS - 1
  BY <1>4, <1>5, SlotCount, SMT
<1>7. irq' = "out" => "RXDMT0" \notin cause
  BY <1>1, Zenon
<1>8. irq' \in {"out", "rx", "refill"}
  BY <1>1, Zenon
<1>9. RefillAt(h, g)'
  BY <1>1, <1>6, <1>7, <1>8, Zenon DEF RefillAt
<1>10. QED
  BY <1>2, <1>9, Zenon

LEMMA RefillKeeps ==
  ASSUME NEW h \in Nat, NEW g \in Nat, RingAt(h, g), RefillAt(h, g), Refill
  PROVE  RingAt(h, h)' /\ RefillAt(h, h)'
<1> DEFINE n == NUM_RX_DESCRIPTORS
<1>1. /\ irq = "refill" /\ irq' = "out"
      /\ rx' = [rx EXCEPT !.tail = Wrap(@ + rx.free), !.free = 0] /\ rdt' = rx'.tail
      /\ desc' = desc /\ rdh' = rdh /\ frames' = frames /\ icr' = icr /\ cause' = cause
  BY Zenon DEF Refill
<1>2. /\ frames \in Nat /\ g <= h /\ h <= frames /\ frames <= g + n - 1
      /\ rdh = Wrap(frames) /\ rdt = Wrap(g + n - 1)
      /\ rx = [head |-> Wrap(h), tail |-> rdt, free |-> h - g]
      /\ desc \in [Slot -> Kind \cup {NoFrame}]
      /\ \A j \in h .. h + n - 1 : desc[Wrap(j)] # NoFrame <=> j < frames
  BY Zenon DEF RingAt
<1>3. n \in Nat /\ n > 1
  BY SlotCount, SMT
<1>4. Wrap(Wrap(g + n - 1) + (h - g)) = Wrap(h + n - 1)
  <2>1. g + n - 1 \in Nat /\ h - g \in Nat /\ (g + n - 1) + (h - g) = h + n - 1
    BY <1>2, <1>3, SMT
  <2>2. PICK b \in Nat, c \in Nat : b = g + n - 1 /\ c = h - g
    BY <2>1, Zenon
  <2>3. Wrap(Wrap(b) + c) = Wrap(b + c)
    BY WrapAdd, Zenon
  <2>4. QED
    BY <2>1, <2>2, <2>3, Zenon
<1>5. rx' = [head |-> Wrap(h), tail |-> Wrap(Wrap(g + n - 1) + (h - g)), free |-> 0]
  BY <1>1, <1>2, Zenon
<1>6. rdt' = Wrap(h + n - 1) /\ h - h = 0
  <2>1. PICK w : w = Wrap(Wrap(g + n - 1) + (h - g))
    BY Zenon
  <2> HIDE DEF n
  <2>2. rx'.tail = w
    BY <1>5, <2>1, Zenon
  <2>3. h - h = 0
    BY SMT
  <2>4. QED
    BY <1>1, <1>4, <2>1, <2>2, <2>3, Zenon
<1>7. rx' = [head |-> Wrap(h), tail |-> rdt', free |-> h - h]
  BY <1>4, <1>5, <1>6, Zenon
<1>8. h <= h /\ frames <= h + n - 1
  BY <1>2, <1>3, SMT
<1>9. RingAt(h, h)'
  BY <1>1, <1>2, <1>6, <1>7, <1>8, Zenon DEF RingAt
<1>10. RefillAt(h, h)'
  BY <1>1, Zenon DEF RefillAt
<1>11. QED
  BY <1>9, <1>10, Zenon

(* The netisr thread does not touch the ring. *)
LEMMA NetisrLeaves ==
  ASSUME SetAct \/ NetisrIp \/ NetisrArp \/ ClearAct \/ UNCHANGED recvVars
  PROVE  /\ desc' = desc /\ rdh' = rdh /\ rdt' = rdt /\ rx' = rx /\ icr' = icr /\ irq' = irq
         /\ cause' = cause /\ frames' = frames
<1>1. ASSUME NEW f, NEW t, LoadMask(f, t)
      PROVE  UNCHANGED <<desc, rdh, rdt, rx, icr, irq, cause, frames>>
  BY <1>1, Zenon DEF LoadMask
<1>2. ASSUME NEW f, NEW t, NEW m, StoreMask(f, t, m)
      PROVE  UNCHANGED <<desc, rdh, rdt, rx, icr, irq, cause, frames>>
  BY <1>2, Zenon DEF StoreMask
<1>3. ASSUME NEW f, NEW b, NEW y, NEW z, Test(f, b, y, z)
      PROVE  UNCHANGED <<desc, rdh, rdt, rx, icr, irq, cause, frames>>
  BY <1>3, Zenon DEF Test
<1>4. ASSUME NEW q, NEW f, NEW z, Drain(q, f, z)
      PROVE  UNCHANGED <<desc, rdh, rdt, rx, icr, irq, cause, frames>>
  BY <1>4, Zenon DEF Drain
<1>5. CASE SetAct
  BY <1>1, <1>2, <1>5, Zenon DEF SetAct
<1>6. CASE NetisrIp
  BY <1>1, <1>2, <1>3, <1>4, <1>6, Zenon DEF NetisrIp
<1>7. CASE NetisrArp
  BY <1>1, <1>2, <1>3, <1>4, <1>7, Zenon DEF NetisrArp
<1>8. CASE ClearAct
  BY <1>1, <1>2, <1>8, Zenon DEF ClearAct
<1>9. CASE UNCHANGED recvVars
  BY <1>9, Zenon DEF recvVars
<1>10. QED
  BY <1>5, <1>6, <1>7, <1>8, <1>9, Zenon

LEMMA RingInvStep ==
  ASSUME RingInv, [RecvNext]_recvVars
  PROVE  RingInv'
<1>1. PICK h, g \in Nat : RingAt(h, g) /\ RefillAt(h, g)
  BY Zenon DEF RingInv
<1>2. ASSUME NEW k \in Kind, CardReceives(k) PROVE RingInv'
  BY <1>1, <1>2, CardKeeps, Zenon DEF RingInv
<1>3. CASE ReadIcr
  BY <1>1, <1>3, IcrKeeps, Zenon DEF RingInv
<1>4. CASE e1000_handle_rx_packet
  <2>1. h + 1 \in Nat
    BY SMT
  <2>2. QED
    BY <1>1, <1>4, <2>1, PacketKeeps, Zenon DEF RingInv
<1>5. CASE RxDone
  BY <1>1, <1>5, DoneKeeps, Zenon DEF RingInv
<1>6. CASE Refill
  BY <1>1, <1>6, RefillKeeps, Zenon DEF RingInv
<1>7. CASE SetAct \/ NetisrIp \/ NetisrArp \/ ClearAct \/ UNCHANGED recvVars
  <2>1. /\ desc' = desc /\ rdh' = rdh /\ rdt' = rdt /\ rx' = rx /\ icr' = icr /\ irq' = irq
        /\ cause' = cause /\ frames' = frames
    BY <1>7, NetisrLeaves, Zenon
  <2>2. RingAt(h, g)'
    BY <1>1, <2>1, Zenon DEF RingAt
  <2>3. RefillAt(h, g)'
    BY <1>1, <2>1, Zenon DEF RefillAt
  <2>4. QED
    BY <2>2, <2>3, Zenon DEF RingInv
<1>8. QED
  BY <1>2, <1>3, <1>4, <1>5, <1>6, <1>7, Zenon DEF RecvNext

LEMMA RingInvInit ==
  ASSUME RecvInit
  PROVE  RingInv
<1> DEFINE n == NUM_RX_DESCRIPTORS
<1>1. n \in Nat /\ n > 1 /\ n - 1 \in Nat /\ 0 + n - 1 = n - 1 /\ 0 - 0 = 0
  BY SlotCount, SMT
<1>2. Wrap(0) = 0 /\ Wrap(n - 1) = n - 1
  <2>1. 0 \in 0 .. n - 1 /\ n - 1 \in 0 .. n - 1 /\ 0 * n + 0 = 0 /\ 0 * n + (n - 1) = n - 1
    BY <1>1, SMT
  <2>2. (0 * n + 0) % n = 0 /\ (0 * n + (n - 1)) % n = n - 1
    BY <2>1, SlotCount, ModIs, Zenon
  <2>3. QED
    BY <2>1, <2>2, Zenon DEF Wrap
<1>3. desc = [i \in Slot |-> NoFrame]
  BY Zenon DEF RecvInit
<1>4. ASSUME NEW j \in 0 .. 0 + n - 1 PROVE desc[Wrap(j)] # NoFrame <=> j < 0
  <2>1. j \in Nat /\ ~(j < 0)
    BY <1>1, SMT
  <2>2. desc[Wrap(j)] = NoFrame
    BY <1>3, <2>1, WrapIn, Zenon
  <2>3. QED
    BY <2>1, <2>2, Zenon
<1>5. desc \in [Slot -> Kind \cup {NoFrame}]
  BY <1>3, Zenon
<1>6. frames = 0 /\ rdh = Wrap(0) /\ rdt = Wrap(0 + n - 1)
  BY <1>1, <1>2, Zenon DEF RecvInit
<1>7. rx = [head |-> Wrap(0), tail |-> rdt, free |-> 0 - 0]
  BY <1>1, <1>2, Zenon DEF RecvInit
<1>8. 0 \in Nat /\ 0 <= 0 /\ 0 <= 0 + n - 1 /\ 0 # 0 + n - 1
  BY <1>1, SMT
<1>9. RingAt(0, 0)
  BY <1>4, <1>5, <1>6, <1>7, <1>8, Zenon DEF RingAt
<1>10. RefillAt(0, 0)
  BY <1>6, <1>8, Zenon DEF RefillAt, RecvInit
<1>11. QED
  BY <1>8, <1>9, <1>10, Zenon DEF RingInv

LEMMA RingInvIsEnough ==
  ASSUME RingInv
  PROVE  RingHolds
<1> DEFINE n == NUM_RX_DESCRIPTORS
<1>1. PICK h, g \in Nat : RingAt(h, g) /\ RefillAt(h, g)
  BY Zenon DEF RingInv
<1>2. /\ frames \in Nat /\ g <= h /\ h <= frames /\ frames <= g + n - 1
      /\ rdh = Wrap(frames) /\ rdt = Wrap(g + n - 1) /\ rx.head = Wrap(h)
      /\ \A j \in h .. h + n - 1 : desc[Wrap(j)] # NoFrame <=> j < frames
  BY <1>1, Zenon DEF RingAt
<1>3. n \in Nat /\ n > 1
  BY SlotCount, SMT
<1>4. Wrap(rdh + n - rx.head) = frames - h
  <2>1. frames < h + n
    BY <1>2, <1>3, SMT
  <2>2. QED
    BY <1>2, <2>1, WrapGap, Zenon
<1>5. ASSUME NEW i \in Slot
      PROVE  (desc[Wrap(rx.head + i)] # NoFrame) <=> i < frames - h
  <2>1. i \in Nat /\ h + i \in h .. h + n - 1 /\ (h + i < frames <=> i < frames - h)
    BY <1>2, <1>3, SMT DEF Slot
  <2>2. Wrap(rx.head + i) = Wrap(h + i)
    BY <1>2, <2>1, WrapAdd, Zenon
  <2>3. QED
    BY <1>2, <2>1, <2>2, Zenon
<1>6. ASSUME rdh = rdt PROVE frames = g + n - 1
  <2>1. SUFFICES ASSUME frames # g + n - 1 PROVE FALSE
    BY Zenon
  <2>2. g + n - 1 \in Nat /\ frames < (g + n - 1) + n /\ g + n - 1 < frames + n
    BY <1>2, <1>3, SMT
  <2>3. QED
    BY <1>2, <1>6, <2>1, <2>2, WrapApart, Zenon
<1>7. rdh = rdt => "RXDMT0" \in icr \/ (irq # "out" /\ "RXDMT0" \in cause)
  BY <1>1, <1>6, Zenon DEF RefillAt
<1>8. QED
  BY <1>4, <1>5, <1>7, Zenon DEF RingHolds
-----------------------------------------------------------------------------
(* The input queues and netisr_mask (net/netisr.c). *)

NetisrInv ==
  /\ inq \in [{"ip", "arp"} -> Nat]
  /\ NetisrSees

(* What the netisr thread does to one queue. *)
LEMMA LoadSees ==
  ASSUME NetisrInv, NEW f, NEW t, f \notin {"ip", "arp"}, LoadMask(f, t)
  PROVE  NetisrInv'
<1>1. isr = f /\ inq' = inq /\ mask' = mask /\ lostBit' = lostBit
  BY Zenon DEF LoadMask, Turn
<1>2. QED
  BY <1>1, Zenon DEF NetisrInv, NetisrSees, Awaited

LEMMA StoreSees ==
  ASSUME NetisrInv, NEW f, NEW t, f \notin {"ip", "arp"}, NEW m, StoreMask(f, t, m),
         \A q \in {"ip", "arp"} : q \in reg => q \in m \/ t = q
  PROVE  NetisrInv'
<1>1. isr = f /\ isr' = t /\ inq' = inq /\ mask' = m /\ lostBit' = (lostBit \/ mask # reg)
  BY Zenon DEF StoreMask, Turn
<1>2. ASSUME ~lostBit', NEW q \in {"ip", "arp"}, inq'[q] > 0 PROVE q \in mask' \/ isr' = q
  <2>1. ~lostBit /\ mask = reg
    BY <1>1, <1>2, Zenon
  <2>2. q \in mask
    BY <1>1, <1>2, <2>1, Zenon DEF NetisrInv, NetisrSees, Awaited
  <2>3. QED
    BY <1>1, <2>1, <2>2, Zenon
<1>3. inq' \in [{"ip", "arp"} -> Nat]
  BY <1>1, Zenon DEF NetisrInv
<1>4. QED
  BY <1>2, <1>3, Zenon DEF NetisrInv, NetisrSees, Awaited

LEMMA TestSees ==
  ASSUME NetisrInv, NEW f, NEW b, NEW y, NEW z, f \notin {"ip", "arp"}, Test(f, b, y, z)
  PROVE  NetisrInv'
<1>1. isr = f /\ inq' = inq /\ mask' = mask /\ lostBit' = lostBit
  BY Zenon DEF Test, Turn
<1>2. QED
  BY <1>1, Zenon DEF NetisrInv, NetisrSees, Awaited

LEMMA DrainSees ==
  ASSUME NetisrInv, NEW q \in {"ip", "arp"}, NEW z, Drain(q, q, z)
  PROVE  NetisrInv'
<1>1. isr = q /\ mask' = mask /\ lostBit' = lostBit
  BY Zenon DEF Drain, Turn
<1>2. inq \in [{"ip", "arp"} -> Nat]
  BY Zenon DEF NetisrInv
<1>3. CASE inq[q] = 0
  <2>1. inq' = inq
    BY <1>3, Zenon DEF Drain
  <2>2. ~(inq[q] > 0)
    BY <1>3, SMT
  <2>3. QED
    BY <1>1, <2>1, <2>2, Zenon DEF NetisrInv, NetisrSees, Awaited
<1>4. CASE inq[q] # 0
  <2>1. isr' = q /\ inq' = [inq EXCEPT ![q] = inq[q] - 1]
    BY <1>4, Zenon DEF Drain, Turn
  <2>2. inq[q] \in Nat
    BY <1>2, Zenon
  <2>3. inq[q] - 1 \in Nat
    BY <1>4, <2>2, SMT
  <2>4. inq' \in [{"ip", "arp"} -> Nat] /\ \A r \in {"ip", "arp"} \ {q} : inq'[r] = inq[r]
    BY <1>2, <2>1, <2>3, Zenon
  <2>5. QED
    BY <1>1, <2>1, <2>4, Zenon DEF NetisrInv, NetisrSees, Awaited
<1>5. QED
  BY <1>3, <1>4, Zenon

LEMMA InputSees ==
  ASSUME NetisrInv, e1000_handle_rx_packet
  PROVE  NetisrInv'
<1> DEFINE k == desc[rx.head]
<1>1. ether_input(k) /\ isr' = isr /\ lostBit' = lostBit
  BY Zenon DEF e1000_handle_rx_packet
<1>2. inq \in [{"ip", "arp"} -> Nat]
  BY Zenon DEF NetisrInv
<1>3. CASE k \in {"ip", "arp"}
  <2>1. mask' = mask \cup {k} /\ inq' = IF inq[k] >= ifq_maxlen THEN inq ELSE [inq EXCEPT ![k] = inq[k] + 1]
    BY <1>1, <1>3, Zenon DEF ether_input
  <2>2. inq[k] + 1 \in Nat
    BY <1>2, <1>3, SMT
  <2>3. inq' \in [{"ip", "arp"} -> Nat] /\ \A r \in {"ip", "arp"} \ {k} : inq'[r] = inq[r]
    <3>1. CASE inq' = inq
      BY <1>2, <3>1, Zenon
    <3>2. CASE inq' = [inq EXCEPT ![k] = inq[k] + 1]
      BY <1>2, <1>3, <2>2, <3>2, Zenon
    <3>3. QED
      BY <2>1, <3>1, <3>2, Zenon
  <2>4. k \in mask' /\ \A r : r \in mask => r \in mask'
    BY <2>1, Zenon
  <2>5. ASSUME ~lostBit', NEW r \in {"ip", "arp"}, inq'[r] > 0 PROVE r \in mask' \/ isr' = r
    BY <1>1, <2>3, <2>4, <2>5, Zenon DEF NetisrInv, NetisrSees, Awaited
  <2>6. QED
    BY <2>3, <2>5, Zenon DEF NetisrInv, NetisrSees, Awaited
<1>4. CASE k \notin {"ip", "arp"}
  <2>1. mask' = mask /\ inq' = inq
    BY <1>1, <1>4, Zenon DEF ether_input
  <2>2. QED
    BY <1>1, <2>1, Zenon DEF NetisrInv, NetisrSees, Awaited
<1>5. QED
  BY <1>3, <1>4, Zenon

LEMMA NetisrInvStep ==
  ASSUME NetisrInv, [RecvNext]_recvVars
  PROVE  NetisrInv'
<1>1. ASSUME inq' = inq, mask' = mask, isr' = isr, lostBit' = lostBit PROVE NetisrInv'
  BY <1>1, Zenon DEF NetisrInv, NetisrSees, Awaited
<1>2. ASSUME NEW k \in Kind, CardReceives(k) PROVE NetisrInv'
  BY <1>1, <1>2, Zenon DEF CardReceives
<1>3. CASE ReadIcr
  BY <1>1, <1>3, Zenon DEF ReadIcr
<1>4. CASE e1000_handle_rx_packet
  BY <1>4, InputSees, Zenon
<1>5. CASE RxDone
  BY <1>1, <1>5, Zenon DEF RxDone
<1>6. CASE Refill
  BY <1>1, <1>6, Zenon DEF Refill
<1>7. CASE SetAct
  <2>1. CASE LoadMask("act", "act2")
    BY <2>1, LoadSees, Zenon
  <2>2. CASE StoreMask("act2", "ip?", reg \cup {"ACT"})
    BY <2>2, StoreSees, Zenon
  <2>3. QED
    BY <1>7, <2>1, <2>2, Zenon DEF SetAct
<1>8. CASE NetisrIp
  <2>1. CASE Test("ip?", "ip", "ip1", "arp?")
    BY <2>1, TestSees, Zenon
  <2>2. CASE LoadMask("ip1", "ip2")
    BY <2>2, LoadSees, Zenon
  <2>3. CASE StoreMask("ip2", "ip", reg \ {"ip"})
    BY <2>3, StoreSees, Zenon
  <2>4. CASE Drain("ip", "ip", "arp?")
    BY <2>4, DrainSees, Zenon
  <2>5. QED
    BY <1>8, <2>1, <2>2, <2>3, <2>4, Zenon DEF NetisrIp
<1>9. CASE NetisrArp
  <2>1. CASE Test("arp?", "arp", "arp1", "done")
    BY <2>1, TestSees, Zenon
  <2>2. CASE LoadMask("arp1", "arp2")
    BY <2>2, LoadSees, Zenon
  <2>3. CASE StoreMask("arp2", "arp", reg \ {"arp"})
    BY <2>3, StoreSees, Zenon
  <2>4. CASE Drain("arp", "arp", "done")
    BY <2>4, DrainSees, Zenon
  <2>5. QED
    BY <1>9, <2>1, <2>2, <2>3, <2>4, Zenon DEF NetisrArp
<1>10. CASE ClearAct
  <2>1. CASE LoadMask("done", "done2")
    BY <2>1, LoadSees, Zenon
  <2>2. CASE StoreMask("done2", "act", reg \ {"ACT"})
    BY <2>2, StoreSees, Zenon
  <2>3. QED
    BY <1>10, <2>1, <2>2, Zenon DEF ClearAct
<1>11. CASE UNCHANGED recvVars
  BY <1>1, <1>11, Zenon DEF recvVars
<1>12. QED
  BY <1>2, <1>3, <1>4, <1>5, <1>6, <1>7, <1>8, <1>9, <1>10, <1>11, Zenon DEF RecvNext

LEMMA NetisrInvInit ==
  ASSUME RecvInit
  PROVE  NetisrInv
<1>1. inq = [q \in {"ip", "arp"} |-> 0]
  BY Zenon DEF RecvInit
<1>2. 0 \in Nat /\ ~(0 > 0)
  BY SMT
<1>3. QED
  BY <1>1, <1>2, Zenon DEF NetisrInv, NetisrSees
-----------------------------------------------------------------------------
(* The transmit ring (e1000_start).  The card has sent the frames on the   *)
(* wire and knows of the first t; h is 1 while a thread has the frame      *)
(* after those in its hands.                                               *)

Busy == {"loop", "copy", "tell", "end"}

LEMMA TxAlike == Busy \subseteq Within /\ Within = Busy \cup {"start"}
  BY Zenon DEF Busy, Within

TxTyped ==
  /\ if_snd \in Seq(Nat) /\ wire \in Seq(Nat) /\ queued \in Nat
  /\ ring \in [TxSlot -> Nat]
  /\ at \in [TxThread -> {"out", "test"} \cup Within]
  /\ my \in [TxThread -> [index : TxSlot, m0 : Nat]]
  /\ tx_index \in TxSlot

(* One thread at a time empties the queue, and it tells so. *)
TxAlone ==
  /\ \A s, o \in TxThread : Emptying(s) /\ Emptying(o) => s = o
  /\ active => \E s \in TxThread : at[s] \in Busy
  /\ \A s \in TxThread : at[s] = "end" => if_snd = <<>>
  /\ if_snd # <<>> => \E s \in TxThread : at[s] \in {"test", "start", "loop", "copy", "tell"}

TxAt(t, h) ==
  /\ t \in Nat /\ h \in {0, 1}
  /\ Len(wire) <= t /\ t < Len(wire) + NUM_TX_DESCRIPTORS
  /\ tdh = TxWrap(Len(wire)) /\ tdt = TxWrap(t)
  /\ h = 1 <=> \E s \in TxThread : at[s] \in {"copy", "tell"}
  /\ \A s \in TxThread : at[s] \in Busy => my[s].index = TxWrap(t)
  /\ (\A s \in TxThread : at[s] \notin Busy) => tx_index = TxWrap(t)
  /\ \A s \in TxThread : at[s] = "copy" => my[s].m0 = t + 1
  /\ \A s \in TxThread : at[s] = "tell" =>
       ring[TxWrap(t)] = t + 1 /\ t + 1 < Len(wire) + NUM_TX_DESCRIPTORS

(* The frames on the wire, in the ring and on if_snd are numbered on. *)
TxFrames(t, h) ==
  /\ \A i \in 1 .. Len(wire) : wire[i] = i
  /\ \A j \in Len(wire) + 1 .. t : ring[TxWrap(j - 1)] = j
  /\ \A i \in 1 .. Len(if_snd) : if_snd[i] = t + h + i
  /\ queued = t + h + Len(if_snd)

LEMMA TxCount == NUM_TX_DESCRIPTORS \in Nat \ {0}
  BY TxAssumption, Zenon

LEMMA TxWrapIn == \A a \in Nat : TxWrap(a) \in TxSlot
  BY TxCount, DivMod, Zenon DEF TxWrap, TxSlot

LEMMA TxWrapNext == \A a \in Nat : TxWrap(TxWrap(a) + 1) = TxWrap(a + 1)
<1>1. 1 \in Nat
  BY SMT
<1>2. QED
  BY <1>1, TxCount, ModAdd, Zenon DEF TxWrap

LEMMA TxWrapApart ==
  ASSUME NEW a \in Nat, NEW b \in Nat, a < b, b < a + NUM_TX_DESCRIPTORS
  PROVE  TxWrap(a) # TxWrap(b)
  BY TxCount, ModApart, Zenon DEF TxWrap

LEMMA TxWrapRound == \A a \in Nat : TxWrap(a + NUM_TX_DESCRIPTORS) = TxWrap(a)
  BY TxCount, ModRound, Zenon DEF TxWrap

(* A step of thread s alone, while it empties the queue. *)
LEMMA TxOne ==
  ASSUME TxTyped, TxAlone, NEW s \in TxThread, at[s] \in Within,
         NEW p \in {"out", "test"} \cup Within, at' = [at EXCEPT ![s] = p]
  PROVE  /\ at' \in [TxThread -> {"out", "test"} \cup Within]
         /\ at'[s] = p
         /\ \A o \in TxThread : o # s => at'[o] = at[o] /\ at[o] \notin Within
<1>1. at \in [TxThread -> {"out", "test"} \cup Within]
  BY Zenon DEF TxTyped
<1>2. \A o \in TxThread : o # s => at[o] \notin Within
  BY Zenon DEF TxAlone, Emptying
<1>3. QED
  BY <1>1, <1>2, Zenon

(* Then all that is said of the threads is said of it. *)
LEMMA TxAtOne ==
  ASSUME NEW s \in TxThread, at'[s] \in Busy, \A o \in TxThread : o # s => at'[o] \notin Within,
         NEW t \in Nat, NEW h \in {0, 1},
         Len(wire') <= t, t < Len(wire') + NUM_TX_DESCRIPTORS,
         tdh' = TxWrap(Len(wire')), tdt' = TxWrap(t),
         h = 1 <=> at'[s] \in {"copy", "tell"},
         my'[s].index = TxWrap(t),
         at'[s] = "copy" => my'[s].m0 = t + 1,
         at'[s] = "tell" => ring'[TxWrap(t)] = t + 1 /\ t + 1 < Len(wire') + NUM_TX_DESCRIPTORS
  PROVE  TxAt(t, h)'
<1>1. \A o \in TxThread : o # s => at'[o] \notin Busy /\ at'[o] # "copy" /\ at'[o] # "tell"
  BY Zenon DEF Busy, Within
<1>2. h = 1 <=> \E o \in TxThread : at'[o] \in {"copy", "tell"}
  BY <1>1, Zenon
<1>3. \A o \in TxThread : at'[o] \in Busy => my'[o].index = TxWrap(t)
  BY <1>1, Zenon
<1>4. \A o \in TxThread : at'[o] = "copy" => my'[o].m0 = t + 1
  BY <1>1, Zenon
<1>5. \A o \in TxThread : at'[o] = "tell" =>
        ring'[TxWrap(t)] = t + 1 /\ t + 1 < Len(wire') + NUM_TX_DESCRIPTORS
  BY <1>1, Zenon
<1>6. ~(\A o \in TxThread : at'[o] \notin Busy)
  BY Zenon
<1>7. QED
  BY <1>2, <1>3, <1>4, <1>5, <1>6, Zenon DEF TxAt

LEMMA TxAloneOne ==
  ASSUME NEW s \in TxThread, at'[s] \in Busy, \A o \in TxThread : o # s => at'[o] \notin Within,
         at'[s] = "end" => if_snd' = <<>>
  PROVE  TxAlone'
<1>1. \A a, b \in TxThread : at'[a] \in Within /\ at'[b] \in Within => a = b
  BY Zenon
<1>2. \A o \in TxThread : at'[o] = "end" => if_snd' = <<>>
  BY Zenon DEF Within
<1>3. if_snd' # <<>> => at'[s] \in {"test", "start", "loop", "copy", "tell"}
  BY Zenon DEF Busy
<1>4. QED
  BY <1>1, <1>2, <1>3, Zenon DEF TxAlone, Emptying

(* A step in which no thread goes into the loop or out of it. *)
LEMMA TxAtSame ==
  ASSUME NEW t \in Nat, NEW h \in {0, 1}, TxAt(t, h),
         \A o \in TxThread : at'[o] = at[o] \/ (at[o] \notin Busy /\ at'[o] \notin Busy),
         my' = my, ring' = ring, wire' = wire, tdh' = tdh, tdt' = tdt, tx_index' = tx_index
  PROVE  TxAt(t, h)'
<1>1. \A o \in TxThread : /\ at'[o] \in Busy <=> at[o] \in Busy
                          /\ at'[o] = "copy" <=> at[o] = "copy"
                          /\ at'[o] = "tell" <=> at[o] = "tell"
  BY Zenon DEF Busy
<1>2. h = 1 <=> \E o \in TxThread : at'[o] \in {"copy", "tell"}
  BY <1>1, Zenon DEF TxAt
<1>3. \A o \in TxThread : at'[o] \in Busy => my'[o].index = TxWrap(t)
  BY <1>1, Zenon DEF TxAt
<1>4. (\A o \in TxThread : at'[o] \notin Busy) => tx_index' = TxWrap(t)
  BY <1>1, Zenon DEF TxAt
<1>5. \A o \in TxThread : at'[o] = "copy" => my'[o].m0 = t + 1
  BY <1>1, Zenon DEF TxAt
<1>6. \A o \in TxThread : at'[o] = "tell" =>
        ring'[TxWrap(t)] = t + 1 /\ t + 1 < Len(wire') + NUM_TX_DESCRIPTORS
  BY <1>1, Zenon DEF TxAt
<1>7. QED
  BY <1>2, <1>3, <1>4, <1>5, <1>6, Zenon DEF TxAt
-----------------------------------------------------------------------------
TxGood == TxAlone /\ \E t \in Nat, h \in {0, 1} : TxAt(t, h) /\ TxFrames(t, h)

TxInv == TxSound => TxTyped /\ TxGood

LEMMA EnqueueKeeps ==
  ASSUME TxTyped, TxGood, NEW s \in TxThread, Enqueue(s), ~unseen'
  PROVE  TxTyped' /\ TxGood'
<1>1. /\ at[s] = "out" /\ queued' = queued + 1 /\ if_snd' = Append(if_snd, queued + 1)
      /\ at' = [at EXCEPT ![s] = "test"]
      /\ active' = active /\ ring' = ring /\ tdh' = tdh /\ tdt' = tdt
      /\ tx_index' = tx_index /\ my' = my /\ wire' = wire
  BY Zenon DEF Enqueue
<1>2. \A o \in TxThread : at[o] # "end"
  BY Zenon DEF Enqueue
<1>3. /\ if_snd \in Seq(Nat) /\ queued \in Nat /\ at \in [TxThread -> {"out", "test"} \cup Within]
  BY Zenon DEF TxTyped
<1>4. /\ if_snd' \in Seq(Nat) /\ queued' \in Nat /\ Len(if_snd') = Len(if_snd) + 1
      /\ \A i \in 1 .. Len(if_snd) : if_snd'[i] = if_snd[i]
      /\ if_snd'[Len(if_snd) + 1] = queued + 1 /\ Len(if_snd) \in Nat
  BY <1>1, <1>3, SMT
<1>5. at' \in [TxThread -> {"out", "test"} \cup Within] /\ at'[s] = "test"
      /\ \A o \in TxThread : o # s => at'[o] = at[o]
  BY <1>1, <1>3, Zenon
<1>6. TxTyped'
  BY <1>1, <1>4, <1>5, Zenon DEF TxTyped
<1>7. \A o \in TxThread : /\ at'[o] \in Within <=> at[o] \in Within
                          /\ at'[o] \in Busy <=> at[o] \in Busy
                          /\ at'[o] # "end"
  BY <1>1, <1>2, <1>5, Zenon DEF Within, Busy
<1>8. TxAlone'
  <2>1. \A a, b \in TxThread : at'[a] \in Within /\ at'[b] \in Within => a = b
    BY <1>7, Zenon DEF TxGood, TxAlone, Emptying
  <2>2. active' => \E o \in TxThread : at'[o] \in Busy
    BY <1>1, <1>7, Zenon DEF TxGood, TxAlone
  <2>3. QED
    BY <1>5, <1>7, <2>1, <2>2, Zenon DEF TxAlone, Emptying
<1>9. PICK t \in Nat, h \in {0, 1} : TxAt(t, h) /\ TxFrames(t, h)
  BY Zenon DEF TxGood
<1>10. \A o \in TxThread : at'[o] = at[o] \/ (at[o] \notin Busy /\ at'[o] \notin Busy)
  BY <1>1, <1>5, Zenon DEF Busy
<1>11. TxAt(t, h)'
  BY <1>1, <1>9, <1>10, TxAtSame, Zenon
<1>12. TxFrames(t, h)'
  <2>1. /\ \A i \in 1 .. Len(if_snd) : if_snd[i] = t + h + i
        /\ queued = t + h + Len(if_snd)
    BY <1>9, Zenon DEF TxFrames
  <2>2. queued' = t + h + Len(if_snd') /\ queued + 1 = t + h + (Len(if_snd) + 1)
    BY <1>1, <1>3, <1>4, <2>1, SMT
  <2>3. ASSUME NEW i \in 1 .. Len(if_snd') PROVE if_snd'[i] = t + h + i
    <3>1. i \in 1 .. Len(if_snd) \/ i = Len(if_snd) + 1
      BY <1>4, SMT
    <3>2. QED
      BY <1>4, <2>1, <2>2, <3>1, Zenon
  <2>4. QED
    BY <1>1, <1>9, <2>2, <2>3, Zenon DEF TxFrames
<1>13. QED
  BY <1>6, <1>8, <1>11, <1>12, Zenon DEF TxGood

LEMMA TestKeeps ==
  ASSUME TxTyped, TxGood, NEW s \in TxThread, TestActive(s), ~crowded'
  PROVE  TxTyped' /\ TxGood'
<1>1. /\ at[s] = "test" /\ at' = [at EXCEPT ![s] = IF active THEN "out" ELSE "start"]
      /\ if_snd' = if_snd /\ active' = active /\ ring' = ring /\ tdh' = tdh /\ tdt' = tdt
      /\ tx_index' = tx_index /\ my' = my /\ queued' = queued /\ wire' = wire
  BY Zenon DEF TestActive
<1>2. ~active => \A o \in TxThread : o # s => at[o] \notin Within
  BY Zenon DEF TestActive, Emptying
<1>3. at \in [TxThread -> {"out", "test"} \cup Within]
  BY Zenon DEF TxTyped
<1>4. PICK p : p = IF active THEN "out" ELSE "start"
  BY Zenon
<1>5. p \in {"out", "test"} \cup Within
  BY <1>4, Zenon DEF Within
<1>6. at' \in [TxThread -> {"out", "test"} \cup Within] /\ at'[s] = p
      /\ \A o \in TxThread : o # s => at'[o] = at[o]
  BY <1>1, <1>3, <1>4, <1>5, Zenon
<1>7. TxTyped'
  BY <1>1, <1>6, Zenon DEF TxTyped
<1>8. \A o \in TxThread : at'[o] = at[o] \/ (at[o] \notin Busy /\ at'[o] \notin Busy)
  BY <1>1, <1>4, <1>6, Zenon DEF Busy
<1>9. TxAlone'
  <2>1. CASE active
    <3>1. p = "out"
      BY <1>4, <2>1, Zenon
    <3>2. PICK o \in TxThread : at[o] \in Busy
      BY <2>1, Zenon DEF TxGood, TxAlone
    <3>3. at'[o] = at[o]
      BY <1>8, <3>2, Zenon
    <3>4. \A a, b \in TxThread : at'[a] \in Within /\ at'[b] \in Within => a = b
      BY <1>6, <3>1, Zenon DEF TxGood, TxAlone, Emptying, Within
    <3>5. \A a \in TxThread : at'[a] = "end" => if_snd' = <<>>
      BY <1>1, <1>6, <3>1, Zenon DEF TxGood, TxAlone
    <3>6. if_snd' # <<>> => at'[o] \in {"test", "start", "loop", "copy", "tell"}
      BY <1>1, <3>2, <3>3, Zenon DEF TxGood, TxAlone, Busy
    <3>7. QED
      BY <3>2, <3>3, <3>4, <3>5, <3>6, Zenon DEF TxAlone, Emptying
  <2>2. CASE ~active
    <3>1. at'[s] = "start" /\ \A o \in TxThread : o # s => at'[o] \notin Within
      BY <1>2, <1>4, <1>6, <2>2, Zenon
    <3>2. \A a, b \in TxThread : at'[a] \in Within /\ at'[b] \in Within => a = b
      BY <3>1, Zenon
    <3>3. \A a \in TxThread : at'[a] # "end"
      BY <3>1, Zenon DEF Within
    <3>4. ~active'
      BY <1>1, <2>2, Zenon
    <3>5. QED
      BY <3>1, <3>2, <3>3, <3>4, Zenon DEF TxAlone, Emptying
  <2>3. QED
    BY <2>1, <2>2, Zenon
<1>10. PICK t \in Nat, h \in {0, 1} : TxAt(t, h) /\ TxFrames(t, h)
  BY Zenon DEF TxGood
<1>11. TxAt(t, h)'
  BY <1>1, <1>8, <1>10, TxAtSame, Zenon
<1>12. TxFrames(t, h)'
  BY <1>1, <1>10, Zenon DEF TxFrames
<1>13. QED
  BY <1>7, <1>9, <1>11, <1>12, Zenon DEF TxGood

LEMMA StartKeeps ==
  ASSUME TxTyped, TxGood, NEW s \in TxThread, Start(s)
  PROVE  TxTyped' /\ TxGood'
<1>1. /\ at[s] = "start" /\ my' = [my EXCEPT ![s].index = tx_index]
      /\ at' = [at EXCEPT ![s] = "loop"]
      /\ if_snd' = if_snd /\ active' = active /\ ring' = ring /\ tdh' = tdh /\ tdt' = tdt
      /\ tx_index' = tx_index /\ queued' = queued /\ wire' = wire
  BY Zenon DEF Start
<1>2. at[s] \in Within /\ "loop" \in {"out", "test"} \cup Within /\ "loop" \in Busy
  BY <1>1, Zenon DEF Within, Busy
<1>3. /\ at' \in [TxThread -> {"out", "test"} \cup Within] /\ at'[s] = "loop"
      /\ \A o \in TxThread : o # s => at'[o] = at[o] /\ at[o] \notin Within
  BY <1>1, <1>2, TxOne, Zenon DEF TxGood
<1>4. my' \in [TxThread -> [index : TxSlot, m0 : Nat]] /\ my'[s].index = tx_index
  BY <1>1, Zenon DEF TxTyped
<1>5. TxTyped'
  BY <1>1, <1>3, <1>4, Zenon DEF TxTyped
<1>6. TxAlone'
  BY <1>2, <1>3, TxAloneOne, Zenon
<1>7. PICK t \in Nat, h \in {0, 1} : TxAt(t, h) /\ TxFrames(t, h)
  BY Zenon DEF TxGood
<1>8. \A o \in TxThread : at[o] \notin Busy /\ at[o] \notin {"copy", "tell"}
  BY <1>1, <1>3, Zenon DEF Within, Busy
<1>9. tx_index = TxWrap(t) /\ h # 1
  BY <1>7, <1>8, Zenon DEF TxAt
<1>10. /\ Len(wire) <= t /\ t < Len(wire) + NUM_TX_DESCRIPTORS
       /\ tdh = TxWrap(Len(wire)) /\ tdt = TxWrap(t)
  BY <1>7, Zenon DEF TxAt
<1>11. TxAt(t, h)'
  BY <1>1, <1>2, <1>3, <1>4, <1>9, <1>10, TxAtOne, Zenon
<1>12. TxFrames(t, h)'
  BY <1>1, <1>7, Zenon DEF TxFrames
<1>13. QED
  BY <1>5, <1>6, <1>11, <1>12, Zenon DEF TxGood

LEMMA DequeueKeeps ==
  ASSUME TxTyped, TxGood, NEW s \in TxThread, Dequeue(s)
  PROVE  TxTyped' /\ TxGood'
<1>1. /\ at[s] = "loop"
      /\ active' = active /\ ring' = ring /\ tdh' = tdh /\ tdt' = tdt
      /\ tx_index' = tx_index /\ queued' = queued /\ wire' = wire
  BY Zenon DEF Dequeue
<1>2. at[s] \in Within /\ at[s] \in Busy
  BY <1>1, Zenon DEF Within, Busy
<1>3. PICK t \in Nat, h \in {0, 1} : TxAt(t, h) /\ TxFrames(t, h)
  BY Zenon DEF TxGood
<1>4. /\ Len(wire) <= t /\ t < Len(wire) + NUM_TX_DESCRIPTORS
      /\ tdh = TxWrap(Len(wire)) /\ tdt = TxWrap(t) /\ my[s].index = TxWrap(t)
  BY <1>2, <1>3, Zenon DEF TxAt
<1>5. /\ if_snd \in Seq(Nat) /\ my \in [TxThread -> [index : TxSlot, m0 : Nat]]
  BY Zenon DEF TxTyped
<1>6. h = 0
  <2>1. \A o \in TxThread : o # s => at[o] \notin Within
    BY <1>2, Zenon DEF TxGood, TxAlone, Emptying
  <2>2. \A o \in TxThread : at[o] \notin {"copy", "tell"}
    BY <1>1, <2>1, Zenon DEF Within
  <2>3. QED
    BY <1>3, <2>2, Zenon DEF TxAt
<1>7. CASE if_snd = <<>>
  <2>1. at' = [at EXCEPT ![s] = "end"] /\ if_snd' = if_snd /\ my' = my
    BY <1>7, Zenon DEF Dequeue
  <2>2. "end" \in {"out", "test"} \cup Within /\ "end" \in Busy
    BY Zenon DEF Within, Busy
  <2>3. /\ at' \in [TxThread -> {"out", "test"} \cup Within] /\ at'[s] = "end"
        /\ \A o \in TxThread : o # s => at'[o] = at[o] /\ at[o] \notin Within
    BY <1>2, <2>1, <2>2, TxOne, Zenon DEF TxGood
  <2>4. TxTyped'
    BY <1>1, <2>1, <2>3, Zenon DEF TxTyped
  <2>5. TxAlone'
    BY <1>7, <2>1, <2>2, <2>3, TxAloneOne, Zenon
  <2>6. h # 1 /\ "end" # "copy" /\ "end" # "tell"
    BY <1>6, SMT
  <2>7. TxAt(t, h)'
    BY <1>1, <1>4, <2>1, <2>2, <2>3, <2>6, TxAtOne, Zenon
  <2>8. TxFrames(t, h)'
    BY <1>1, <1>3, <2>1, Zenon DEF TxFrames
  <2>9. QED
    BY <2>4, <2>5, <2>7, <2>8, Zenon DEF TxGood
<1>8. CASE if_snd # <<>>
  <2>1. /\ at' = [at EXCEPT ![s] = "copy"] /\ if_snd' = Tail(if_snd)
        /\ my' = [my EXCEPT ![s].m0 = Head(if_snd)]
    BY <1>8, Zenon DEF Dequeue
  <2>2. "copy" \in {"out", "test"} \cup Within /\ "copy" \in Busy
    BY Zenon DEF Within, Busy
  <2>3. /\ at' \in [TxThread -> {"out", "test"} \cup Within] /\ at'[s] = "copy"
        /\ \A o \in TxThread : o # s => at'[o] = at[o] /\ at[o] \notin Within
    BY <1>2, <2>1, <2>2, TxOne, Zenon DEF TxGood
  <2>4. /\ if_snd' \in Seq(Nat) /\ Len(if_snd') = Len(if_snd) - 1 /\ Len(if_snd) \in Nat \ {0}
        /\ \A i \in 1 .. Len(if_snd) - 1 : if_snd'[i] = if_snd[i + 1]
        /\ Head(if_snd) = if_snd[1] /\ Head(if_snd) \in Nat
    BY <1>5, <1>8, <2>1, SMT
  <2>5. /\ my' \in [TxThread -> [index : TxSlot, m0 : Nat]]
        /\ my'[s].index = my[s].index /\ my'[s].m0 = Head(if_snd)
    BY <1>5, <2>1, <2>4, Zenon
  <2>6. TxTyped'
    BY <1>1, <2>3, <2>4, <2>5, Zenon DEF TxTyped
  <2>7. TxAlone'
    BY <2>2, <2>3, TxAloneOne, Zenon
  <2>8. /\ \A i \in 1 .. Len(if_snd) : if_snd[i] = t + h + i
        /\ queued = t + h + Len(if_snd)
    BY <1>3, Zenon DEF TxFrames
  <2>9. Head(if_snd) = t + 1
    BY <1>6, <2>4, <2>8, SMT
  <2>10. ASSUME NEW i \in 1 .. Len(if_snd') PROVE if_snd'[i] = t + 1 + i
    <3>1. i \in 1 .. Len(if_snd) - 1 /\ i + 1 \in 1 .. Len(if_snd)
      BY <2>4, SMT
    <3>2. if_snd'[i] = t + h + (i + 1)
      BY <2>4, <2>8, <3>1, Zenon
    <3>3. QED
      BY <1>6, <3>1, <3>2, SMT
  <2>11. queued' = t + 1 + Len(if_snd')
    BY <1>1, <1>6, <2>4, <2>8, SMT
  <2>12. TxFrames(t, 1)'
    BY <1>1, <1>3, <2>10, <2>11, Zenon DEF TxFrames
  <2>13. 1 \in {0, 1} /\ "copy" # "tell"
    BY SMT
  <2>14. TxAt(t, 1)'
    BY <1>1, <1>4, <2>2, <2>3, <2>5, <2>9, <2>13, TxAtOne, Zenon
  <2>15. QED
    BY <2>6, <2>7, <2>12, <2>13, <2>14, Zenon DEF TxGood
<1>9. QED
  BY <1>7, <1>8, Zenon

LEMMA CopyKeeps ==
  ASSUME TxTyped, TxGood, NEW s \in TxThread, Copy(s), ~overrun'
  PROVE  TxTyped' /\ TxGood'
<1>1. /\ at[s] = "copy" /\ ring' = [ring EXCEPT ![my[s].index] = my[s].m0]
      /\ at' = [at EXCEPT ![s] = "tell"]
      /\ if_snd' = if_snd /\ tdh' = tdh /\ tdt' = tdt
      /\ tx_index' = tx_index /\ my' = my /\ queued' = queued /\ wire' = wire
  BY Zenon DEF Copy
<1>2. TxWrap(my[s].index + 1) # tdh
  BY Zenon DEF Copy
<1>3. at[s] \in Within /\ at[s] \in Busy /\ "tell" \in {"out", "test"} \cup Within /\ "tell" \in Busy
  BY <1>1, Zenon DEF Within, Busy
<1>4. /\ at' \in [TxThread -> {"out", "test"} \cup Within] /\ at'[s] = "tell"
      /\ \A o \in TxThread : o # s => at'[o] = at[o] /\ at[o] \notin Within
  BY <1>1, <1>3, TxOne, Zenon DEF TxGood
<1>5. PICK t \in Nat, h \in {0, 1} : TxAt(t, h) /\ TxFrames(t, h)
  BY Zenon DEF TxGood
<1>6. /\ Len(wire) <= t /\ t < Len(wire) + NUM_TX_DESCRIPTORS
      /\ tdh = TxWrap(Len(wire)) /\ tdt = TxWrap(t) /\ my[s].index = TxWrap(t) /\ my[s].m0 = t + 1
  BY <1>1, <1>3, <1>5, Zenon DEF TxAt
<1>7. h = 1
  BY <1>1, <1>5, Zenon DEF TxAt
<1>8. ring \in [TxSlot -> Nat] /\ wire \in Seq(Nat) /\ Len(wire) \in Nat
  <2>1. ring \in [TxSlot -> Nat] /\ wire \in Seq(Nat)
    BY Zenon DEF TxTyped
  <2>2. QED
    BY <2>1, SMT
<1>9. TxWrap(t) \in TxSlot /\ t + 1 \in Nat
  <2>1. TxWrap(t) \in TxSlot
    BY TxWrapIn, Zenon
  <2>2. t + 1 \in Nat
    BY SMT
  <2>3. QED
    BY <2>1, <2>2, Zenon
<1>10. ring' = [ring EXCEPT ![TxWrap(t)] = t + 1]
  BY <1>1, <1>6, Zenon
<1>11. ring' \in [TxSlot -> Nat] /\ ring'[TxWrap(t)] = t + 1
  BY <1>8, <1>9, <1>10, Zenon
<1>12. TxTyped'
  BY <1>1, <1>4, <1>11, Zenon DEF TxTyped
<1>13. TxAlone'
  BY <1>3, <1>4, TxAloneOne, Zenon
<1>14. t + 1 < Len(wire) + NUM_TX_DESCRIPTORS
  <2>1. TxWrap(t + 1) # TxWrap(Len(wire))
    BY <1>2, <1>6, TxWrapNext, Zenon
  <2>2. TxWrap(Len(wire) + NUM_TX_DESCRIPTORS) = TxWrap(Len(wire))
    BY <1>8, TxWrapRound, Zenon
  <2>3. t + 1 # Len(wire) + NUM_TX_DESCRIPTORS
    BY <2>1, <2>2, Zenon
  <2>4. QED
    BY <1>6, <1>8, <2>3, TxCount, SMT
<1>15. ASSUME NEW j \in Len(wire) + 1 .. t PROVE ring'[TxWrap(j - 1)] = j
  <2>1. j - 1 \in Nat /\ j - 1 < t /\ t < (j - 1) + NUM_TX_DESCRIPTORS
    BY <1>6, <1>8, TxCount, SMT
  <2>2. TxWrap(j - 1) # TxWrap(t) /\ TxWrap(j - 1) \in TxSlot
    BY <2>1, TxWrapApart, TxWrapIn, Zenon
  <2>3. ring'[TxWrap(j - 1)] = ring[TxWrap(j - 1)]
    BY <1>8, <1>10, <2>2, Zenon
  <2>4. QED
    BY <1>5, <2>3, Zenon DEF TxFrames
<1>16. TxFrames(t, h)'
  BY <1>1, <1>5, <1>15, Zenon DEF TxFrames
<1>17. "tell" # "copy"
  BY Zenon
<1>18. TxAt(t, h)'
  BY <1>1, <1>3, <1>4, <1>6, <1>7, <1>11, <1>14, <1>17, TxAtOne, Zenon
<1>19. QED
  BY <1>12, <1>13, <1>16, <1>18, Zenon DEF TxGood

LEMMA TellKeeps ==
  ASSUME TxTyped, TxGood, NEW s \in TxThread, Tell(s)
  PROVE  TxTyped' /\ TxGood'
<1>1. /\ at[s] = "tell"
      /\ my' = [my EXCEPT ![s] = [index |-> TxWrap(my[s].index + 1), m0 |-> NoFrm]]
      /\ tdt' = my'[s].index /\ at' = [at EXCEPT ![s] = "loop"]
      /\ if_snd' = if_snd /\ active' = active /\ ring' = ring /\ tdh' = tdh
      /\ tx_index' = tx_index /\ queued' = queued /\ wire' = wire
  BY Zenon DEF Tell
<1>2. at[s] \in Within /\ at[s] \in Busy /\ "loop" \in {"out", "test"} \cup Within /\ "loop" \in Busy
  BY <1>1, Zenon DEF Within, Busy
<1>3. /\ at' \in [TxThread -> {"out", "test"} \cup Within] /\ at'[s] = "loop"
      /\ \A o \in TxThread : o # s => at'[o] = at[o] /\ at[o] \notin Within
  BY <1>1, <1>2, TxOne, Zenon DEF TxGood
<1>4. PICK t \in Nat, h \in {0, 1} : TxAt(t, h) /\ TxFrames(t, h)
  BY Zenon DEF TxGood
<1>5. /\ Len(wire) <= t /\ t + 1 < Len(wire) + NUM_TX_DESCRIPTORS
      /\ tdh = TxWrap(Len(wire)) /\ my[s].index = TxWrap(t) /\ ring[TxWrap(t)] = t + 1
  BY <1>1, <1>2, <1>4, Zenon DEF TxAt
<1>6. h = 1
  BY <1>1, <1>4, Zenon DEF TxAt
<1>7. wire \in Seq(Nat) /\ Len(wire) \in Nat /\ t + 1 \in Nat /\ NoFrm \in Nat /\ 0 \in {0, 1} /\ 0 # 1
  <2>1. wire \in Seq(Nat)
    BY Zenon DEF TxTyped
  <2>2. QED
    BY <2>1, SMT DEF NoFrm
<1>8. TxWrap(my[s].index + 1) = TxWrap(t + 1) /\ TxWrap(t + 1) \in TxSlot
  BY <1>5, <1>7, TxWrapNext, TxWrapIn, Zenon
<1>9. my \in [TxThread -> [index : TxSlot, m0 : Nat]]
  BY Zenon DEF TxTyped
<1>10. PICK r : r = [index |-> TxWrap(t + 1), m0 |-> NoFrm]
  BY Zenon
<1>11. r \in [index : TxSlot, m0 : Nat] /\ r.index = TxWrap(t + 1) /\ my' = [my EXCEPT ![s] = r]
  BY <1>1, <1>7, <1>8, <1>10, Zenon
<1>12. my' \in [TxThread -> [index : TxSlot, m0 : Nat]] /\ my'[s] = r
  BY <1>9, <1>11, Zenon
<1>13. my'[s].index = TxWrap(t + 1) /\ tdt' = TxWrap(t + 1)
  BY <1>1, <1>11, <1>12, Zenon
<1>14. TxTyped'
  BY <1>1, <1>3, <1>12, Zenon DEF TxTyped
<1>15. TxAlone'
  BY <1>2, <1>3, TxAloneOne, Zenon
<1>16. Len(wire) <= t + 1
  BY <1>5, <1>7, SMT
<1>17. TxAt(t + 1, 0)'
  BY <1>1, <1>2, <1>3, <1>5, <1>7, <1>13, <1>16, TxAtOne, Zenon
<1>18. ASSUME NEW j \in Len(wire) + 1 .. t + 1 PROVE ring[TxWrap(j - 1)] = j
  <2>1. j \in Len(wire) + 1 .. t \/ (j = t + 1 /\ j - 1 = t)
    BY <1>7, SMT
  <2>2. QED
    BY <1>4, <1>5, <2>1, Zenon DEF TxFrames
<1>19. Len(if_snd) \in Nat
  <2>1. if_snd \in Seq(Nat)
    BY Zenon DEF TxTyped
  <2>2. QED
    BY <2>1, SMT
<1>20. ASSUME NEW i \in 1 .. Len(if_snd) PROVE if_snd[i] = (t + 1) + 0 + i
  <2>1. if_snd[i] = t + h + i
    BY <1>4, Zenon DEF TxFrames
  <2>2. QED
    BY <1>6, <1>19, <2>1, SMT
<1>21. queued = (t + 1) + 0 + Len(if_snd)
  <2>1. queued = t + h + Len(if_snd)
    BY <1>4, Zenon DEF TxFrames
  <2>2. QED
    BY <1>6, <1>19, <2>1, SMT
<1>22. TxFrames(t + 1, 0)'
  BY <1>1, <1>4, <1>18, <1>20, <1>21, Zenon DEF TxFrames
<1>23. QED
  BY <1>7, <1>14, <1>15, <1>17, <1>22, Zenon DEF TxGood

LEMMA StopKeeps ==
  ASSUME TxTyped, TxGood, NEW s \in TxThread, Stop(s)
  PROVE  TxTyped' /\ TxGood'
<1>1. /\ at[s] = "end" /\ tx_index' = my[s].index /\ ~active' /\ at' = [at EXCEPT ![s] = "out"]
      /\ if_snd' = if_snd /\ ring' = ring /\ tdh' = tdh /\ tdt' = tdt
      /\ my' = my /\ queued' = queued /\ wire' = wire
  BY Zenon DEF Stop
<1>2. at[s] \in Within /\ at[s] \in Busy /\ "out" \in {"out", "test"} \cup Within /\ "out" \notin Within
  BY <1>1, Zenon DEF Within, Busy
<1>3. /\ at' \in [TxThread -> {"out", "test"} \cup Within] /\ at'[s] = "out"
      /\ \A o \in TxThread : o # s => at'[o] = at[o] /\ at[o] \notin Within
  BY <1>1, <1>2, TxOne, Zenon DEF TxGood
<1>4. \A o \in TxThread : at'[o] \notin Within
  BY <1>2, <1>3, Zenon
<1>5. if_snd = <<>>
  BY <1>1, Zenon DEF TxGood, TxAlone
<1>6. TxAlone'
  <2>1. \A o \in TxThread : at'[o] # "end"
    BY <1>4, Zenon DEF Within
  <2>2. QED
    BY <1>1, <1>4, <1>5, <2>1, Zenon DEF TxAlone, Emptying
<1>7. PICK t \in Nat, h \in {0, 1} : TxAt(t, h) /\ TxFrames(t, h)
  BY Zenon DEF TxGood
<1>8. my[s].index = TxWrap(t) /\ TxWrap(t) \in TxSlot
  BY <1>2, <1>7, TxWrapIn, Zenon DEF TxAt
<1>9. TxTyped'
  BY <1>1, <1>3, <1>8, Zenon DEF TxTyped
<1>10. \A o \in TxThread : at[o] \notin {"copy", "tell"}
  BY <1>1, <1>3, Zenon DEF Within
<1>11. \A o \in TxThread : at'[o] \notin Busy /\ at'[o] \notin {"copy", "tell"}
  BY <1>4, Zenon DEF Within, Busy
<1>12. TxAt(t, h)'
  <2>1. h # 1
    BY <1>7, <1>10, Zenon DEF TxAt
  <2>2. QED
    BY <1>1, <1>7, <1>8, <1>11, <2>1, Zenon DEF TxAt
<1>13. TxFrames(t, h)'
  BY <1>1, <1>7, Zenon DEF TxFrames
<1>14. QED
  BY <1>6, <1>9, <1>12, <1>13, Zenon DEF TxGood

LEMMA SendKeeps ==
  ASSUME TxTyped, TxGood, CardSends
  PROVE  TxTyped' /\ TxGood'
<1>1. /\ tdh # tdt /\ wire' = Append(wire, ring[tdh]) /\ tdh' = TxWrap(tdh + 1)
      /\ if_snd' = if_snd /\ active' = active /\ ring' = ring /\ tdt' = tdt
      /\ tx_index' = tx_index /\ at' = at /\ my' = my /\ queued' = queued
  BY Zenon DEF CardSends
<1>2. PICK t \in Nat, h \in {0, 1} : TxAt(t, h) /\ TxFrames(t, h)
  BY Zenon DEF TxGood
<1>3. /\ Len(wire) <= t /\ t < Len(wire) + NUM_TX_DESCRIPTORS
      /\ tdh = TxWrap(Len(wire)) /\ tdt = TxWrap(t)
  BY <1>2, Zenon DEF TxAt
<1>4. wire \in Seq(Nat) /\ ring \in [TxSlot -> Nat]
  BY Zenon DEF TxTyped
<1>5. Len(wire) \in Nat
  BY <1>4, SMT
<1>6. Len(wire) < t /\ Len(wire) + 1 <= t /\ t < (Len(wire) + 1) + NUM_TX_DESCRIPTORS
  <2>1. Len(wire) # t
    BY <1>1, <1>3, Zenon
  <2>2. QED
    BY <1>3, <1>5, <2>1, TxCount, SMT
<1>7. ring[tdh] = Len(wire) + 1
  <2>1. Len(wire) + 1 \in Len(wire) + 1 .. t /\ (Len(wire) + 1) - 1 = Len(wire)
    BY <1>5, <1>6, SMT
  <2>2. PICK j \in Len(wire) + 1 .. t : j = Len(wire) + 1 /\ j - 1 = Len(wire)
    BY <2>1, Zenon
  <2>3. ring[TxWrap(j - 1)] = j
    BY <1>2, Zenon DEF TxFrames
  <2>4. QED
    BY <1>3, <2>2, <2>3, Zenon
<1>8. /\ wire' \in Seq(Nat) /\ Len(wire') = Len(wire) + 1
      /\ \A i \in 1 .. Len(wire) : wire'[i] = wire[i]
      /\ wire'[Len(wire) + 1] = Len(wire) + 1
  BY <1>1, <1>4, <1>5, <1>7, SMT
<1>9. TxTyped'
  BY <1>1, <1>8, Zenon DEF TxTyped
<1>10. TxAlone'
  BY <1>1, Zenon DEF TxGood, TxAlone, Emptying
<1>11. tdh' = TxWrap(Len(wire'))
  BY <1>1, <1>3, <1>5, <1>8, TxWrapNext, Zenon
<1>12. ASSUME t + 1 < Len(wire) + NUM_TX_DESCRIPTORS PROVE t + 1 < Len(wire') + NUM_TX_DESCRIPTORS
  BY <1>5, <1>8, <1>12, TxCount, SMT
<1>13. TxAt(t, h)'
  BY <1>1, <1>2, <1>6, <1>8, <1>11, <1>12, Zenon DEF TxAt
<1>14. ASSUME NEW i \in 1 .. Len(wire') PROVE wire'[i] = i
  <2>1. i \in 1 .. Len(wire) \/ i = Len(wire) + 1
    BY <1>5, <1>8, SMT
  <2>2. CASE i \in 1 .. Len(wire)
    BY <1>2, <1>8, <2>2, Zenon DEF TxFrames
  <2>3. CASE i = Len(wire) + 1
    BY <1>8, <2>3, Zenon
  <2>4. QED
    BY <2>1, <2>2, <2>3, Zenon
<1>15. ASSUME NEW j \in Len(wire') + 1 .. t PROVE ring[TxWrap(j - 1)] = j
  <2>1. j \in Len(wire) + 1 .. t
    BY <1>5, <1>8, SMT
  <2>2. QED
    BY <1>2, <2>1, Zenon DEF TxFrames
<1>16. TxFrames(t, h)'
  BY <1>1, <1>2, <1>14, <1>15, Zenon DEF TxFrames
<1>17. QED
  BY <1>9, <1>10, <1>13, <1>16, Zenon DEF TxGood

LEMMA TxInvStep ==
  ASSUME TxInv, [TxNext]_txVars
  PROVE  TxInv'
<1>1. SUFFICES ASSUME TxSound' PROVE TxTyped' /\ TxGood'
  BY Zenon DEF TxInv
<1>2. ~crowded' /\ ~unseen' /\ ~overrun'
  BY <1>1, Zenon DEF TxSound
<1>3. ASSUME TxSound, NEW s \in TxThread,
             Enqueue(s) \/ TestActive(s) \/ Start(s) \/ Dequeue(s) \/ Copy(s) \/ Tell(s) \/ Stop(s)
      PROVE  TxTyped' /\ TxGood'
  <2>1. TxTyped /\ TxGood
    BY <1>3, Zenon DEF TxInv
  <2>2. QED
    BY <1>2, <1>3, <2>1, EnqueueKeeps, TestKeeps, StartKeeps, DequeueKeeps, CopyKeeps, TellKeeps,
       StopKeeps, Zenon
<1>4. ASSUME NEW s \in TxThread,
             Enqueue(s) \/ TestActive(s) \/ Start(s) \/ Dequeue(s) \/ Copy(s) \/ Tell(s) \/ Stop(s)
      PROVE  TxSound
  BY <1>2, <1>4, Zenon DEF TxSound, Enqueue, TestActive, Start, Dequeue, Copy, Tell, Stop
<1>5. CASE CardSends
  <2>1. TxSound
    BY <1>2, <1>5, Zenon DEF TxSound, CardSends
  <2>2. QED
    BY <1>5, <2>1, SendKeeps, Zenon DEF TxInv
<1>6. CASE UNCHANGED txVars
  <2>1. /\ if_snd' = if_snd /\ active' = active /\ ring' = ring /\ tdh' = tdh /\ tdt' = tdt
        /\ tx_index' = tx_index /\ at' = at /\ my' = my /\ queued' = queued /\ wire' = wire
    BY <1>6, Zenon DEF txVars
  <2>2. TxSound
    BY <1>2, <1>6, Zenon DEF TxSound, txVars
  <2>3. TxTyped /\ TxGood
    BY <2>2, Zenon DEF TxInv
  <2>4. TxTyped'
    BY <2>1, <2>3, Zenon DEF TxTyped
  <2>5. TxAlone'
    BY <2>1, <2>3, Zenon DEF TxGood, TxAlone, Emptying
  <2>6. PICK t \in Nat, h \in {0, 1} : TxAt(t, h) /\ TxFrames(t, h)
    BY <2>3, Zenon DEF TxGood
  <2>7. TxAt(t, h)'
    BY <2>1, <2>6, TxAtSame, Zenon
  <2>8. TxFrames(t, h)'
    BY <2>1, <2>6, Zenon DEF TxFrames
  <2>9. QED
    BY <2>4, <2>5, <2>7, <2>8, Zenon DEF TxGood
<1>7. QED
  BY <1>3, <1>4, <1>5, <1>6, Zenon DEF TxNext

LEMMA TxInvInit ==
  ASSUME TxInit
  PROVE  TxInv
<1>1. /\ if_snd = <<>> /\ wire = <<>> /\ queued = 0 /\ ~active
      /\ ring = [i \in TxSlot |-> NoFrm] /\ tdh = 0 /\ tdt = 0 /\ tx_index = 0
      /\ at = [s \in TxThread |-> "out"]
      /\ my = [s \in TxThread |-> [index |-> 0, m0 |-> NoFrm]]
  BY Zenon DEF TxInit
<1>2. /\ if_snd \in Seq(Nat) /\ wire \in Seq(Nat) /\ queued \in Nat /\ Len(wire) = 0 /\ Len(if_snd) = 0
      /\ NoFrm \in Nat /\ 0 \in TxSlot
  BY <1>1, TxCount, SMT DEF NoFrm, TxSlot
<1>3. \A s \in TxThread : at[s] \notin Within /\ at[s] \notin Busy /\ at[s] = "out"
  BY <1>1, Zenon DEF Within, Busy
<1>4. TxTyped
  <2>1. [index |-> 0, m0 |-> NoFrm] \in [index : TxSlot, m0 : Nat]
    BY <1>2, Zenon
  <2>2. my \in [TxThread -> [index : TxSlot, m0 : Nat]]
    BY <1>1, <2>1, Zenon
  <2>3. QED
    BY <1>1, <1>2, <2>2, Zenon DEF TxTyped
<1>5. TxAlone
  BY <1>1, <1>3, Zenon DEF TxAlone, Emptying
<1>6. TxWrap(0) = 0
  <2>1. 0 \in Nat /\ 0 \in 0 .. NUM_TX_DESCRIPTORS - 1 /\ 0 * NUM_TX_DESCRIPTORS + 0 = 0
    BY TxCount, SMT
  <2>2. (0 * NUM_TX_DESCRIPTORS + 0) % NUM_TX_DESCRIPTORS = 0
    BY <2>1, TxCount, ModIs, Zenon
  <2>3. QED
    BY <2>1, <2>2, Zenon DEF TxWrap
<1>7. 0 \in Nat /\ 0 \in {0, 1} /\ 0 # 1 /\ 0 <= 0 /\ 0 < 0 + NUM_TX_DESCRIPTORS
  BY TxCount, SMT
<1>8. TxAt(0, 0)
  BY <1>1, <1>2, <1>3, <1>6, <1>7, Zenon DEF TxAt
<1>9. TxFrames(0, 0)
  BY <1>1, <1>2, SMT DEF TxFrames
<1>10. QED
  BY <1>4, <1>5, <1>7, <1>8, <1>9, Zenon DEF TxInv, TxGood

LEMMA TxInvIsEnough ==
  ASSUME TxInv
  PROVE  FramesOut
<1>1. SUFFICES ASSUME TxSound
               PROVE  /\ wire = [i \in 1 .. Len(wire) |-> i]
                      /\ (\A s \in TxThread : at[s] = "out") => if_snd = <<>>
                      /\ ((\A s \in TxThread : at[s] = "out") /\ tdh = tdt) => Len(wire) = queued
  BY Zenon DEF FramesOut
<1>2. TxTyped /\ TxGood
  BY <1>1, Zenon DEF TxInv
<1>3. PICK t \in Nat, h \in {0, 1} : TxAt(t, h) /\ TxFrames(t, h)
  BY <1>2, Zenon DEF TxGood
<1>4. wire \in Seq(Nat) /\ if_snd \in Seq(Nat)
  BY <1>2, Zenon DEF TxTyped
<1>5. wire = [i \in 1 .. Len(wire) |-> i]
  <2>1. \A i \in 1 .. Len(wire) : wire[i] = i
    BY <1>3, Zenon DEF TxFrames
  <2>2. QED
    BY <1>4, <2>1, SMT
<1>6. (\A s \in TxThread : at[s] = "out") => if_snd = <<>>
  BY <1>2, Zenon DEF TxGood, TxAlone
<1>7. ASSUME \A s \in TxThread : at[s] = "out", tdh = tdt PROVE Len(wire) = queued
  <2>1. if_snd = <<>>
    BY <1>6, <1>7, Zenon
  <2>2. h # 1
    BY <1>3, <1>7, Zenon DEF TxAt
  <2>3. /\ Len(wire) <= t /\ t < Len(wire) + NUM_TX_DESCRIPTORS
        /\ TxWrap(Len(wire)) = TxWrap(t)
    BY <1>3, <1>7, Zenon DEF TxAt
  <2>4. Len(wire) \in Nat /\ Len(if_snd) = 0
    BY <1>4, <2>1, SMT
  <2>5. ~(Len(wire) < t)
    BY <2>3, <2>4, TxWrapApart, Zenon
  <2>6. queued = t + h + Len(if_snd)
    BY <1>3, Zenon DEF TxFrames
  <2>7. QED
    BY <2>2, <2>3, <2>4, <2>5, <2>6, TxCount, SMT
<1>8. QED
  BY <1>5, <1>6, <1>7, Zenon

(* Every frame that e1000_interrupt_handler finds in the receive ring is   *)
(* handed to ether_input once, and the ring never runs dry unnoticed.      *)
LEMMA RingKept == RecvSpec => []RingHolds
<1>1. RecvInit => RingInv
  BY RingInvInit, Zenon
<1>2. RingInv /\ [RecvNext]_recvVars => RingInv'
  BY RingInvStep, Zenon
<1>3. RingInv => RingHolds
  BY RingInvIsEnough, Zenon
<1>4. QED
  BY <1>1, <1>2, <1>3, PTL DEF RecvSpec

(* The netisr thread has a queued packet before it. *)
LEMMA NetisrKept == RecvSpec => []NetisrSees
<1>1. RecvInit => NetisrInv
  BY NetisrInvInit, Zenon
<1>2. NetisrInv /\ [RecvNext]_recvVars => NetisrInv'
  BY NetisrInvStep, Zenon
<1>3. NetisrInv => NetisrSees
  BY Zenon DEF NetisrInv
<1>4. QED
  BY <1>1, <1>2, <1>3, PTL DEF RecvSpec

(* The frames go out in order and none stays behind. *)
LEMMA FramesKept == TxSpec => []FramesOut
<1>1. TxInit => TxInv
  BY TxInvInit, Zenon
<1>2. TxInv /\ [TxNext]_txVars => TxInv'
  BY TxInvStep, Zenon
<1>3. TxInv => FramesOut
  BY TxInvIsEnough, Zenon
<1>4. QED
  BY <1>1, <1>2, <1>3, PTL DEF TxSpec

(* The e1000 driver holds in both directions, for rings of any size, any   *)
(* senders and any number of frames.                                       *)
THEOREM DriverKept == RecvSpec /\ TxSpec => []DriverHolds
<1>1. RingHolds /\ NetisrSees /\ FramesOut => DriverHolds
  BY Zenon DEF DriverHolds
<1>2. QED
  BY <1>1, RingKept, NetisrKept, FramesKept, PTL
=============================================================================
