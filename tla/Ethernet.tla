------------------------------ MODULE Ethernet ------------------------------
(***************************************************************************)
(* How a frame gets from the card to the protocols (Kernel/e1000.c,        *)
(* net/if_le.c, net/if_ethersubr.c, net/netisr.c).  The card fills the     *)
(* receive ring by DMA at any time.  Its interrupt handler empties the     *)
(* ring into ipintrq and arpintrq, marks netisr_mask and gives the emptied *)
(* descriptors back; the netisr thread, which any interrupt may cut in on, *)
(* looks at the mask and empties the queues.  netisr_mask is changed by a  *)
(* load, an operation and a store.                                         *)
(***************************************************************************)
EXTENDS Naturals, Sequences, FiniteSets

CONSTANTS NUM_RX_DESCRIPTORS, ifq_maxlen,
          MaxFrames  \* bound on the frames the card receives

ASSUME RingAssumption == NUM_RX_DESCRIPTORS \in Nat \ {0, 1}

Slot == 0 .. NUM_RX_DESCRIPTORS - 1
Kind == {"ip", "arp", "other", "bad"}  \* other: not ours or no protocol; bad: error or no EOP
NoFrame == "none"

VARIABLES desc,       \* descriptor -> frame written (DD set), or NoFrame
          rdh, rdt,   \* the card's head and tail registers
          rx,         \* rx_head, rx_tail, rx_free of adp->rx_ring
          icr,        \* interrupt causes that wait
          irq, cause, \* the interrupt handler's place, the causes it read
          inq,        \* "ip", "arp" -> length of the input queue
          mask,       \* bits of netisr_mask
          isr, reg,   \* the netisr thread's place, the mask it loaded
          frames,     \* frames received so far
          lostBit     \* history: a store undid what an interrupt had marked

recvVars == <<desc, rdh, rdt, rx, icr, irq, cause, inq, mask, isr, reg, frames, lostBit>>

RecvInit ==
  /\ desc = [i \in Slot |-> NoFrame]
  /\ rdh = 0 /\ rdt = NUM_RX_DESCRIPTORS - 1
  /\ rx = [head |-> 0, tail |-> NUM_RX_DESCRIPTORS - 1, free |-> 0]
  /\ icr = {} /\ irq = "out" /\ cause = {}
  /\ inq = [q \in {"ip", "arp"} |-> 0] /\ mask = {}
  /\ isr = "act" /\ reg = {}
  /\ frames = 0 /\ lostBit = FALSE

Wrap(i) == i % NUM_RX_DESCRIPTORS

(* The card: it has the descriptors from RDH up to RDT. *)
Given == Wrap(rdt + NUM_RX_DESCRIPTORS - rdh)

CardReceives(k) ==
  /\ frames < MaxFrames /\ rdh # rdt
  /\ desc' = [desc EXCEPT ![rdh] = k]
  /\ rdh' = Wrap(rdh + 1)
  /\ icr' = icr \cup {"RXT0"}
              \cup (IF Given - 1 <= NUM_RX_DESCRIPTORS \div 2 THEN {"RXDMT0"} ELSE {})
  /\ frames' = frames + 1
  /\ UNCHANGED <<rdt, rx, irq, cause, inq, mask, isr, reg, lostBit>>
-----------------------------------------------------------------------------
(* e1000_interrupt_handler; the netisr thread stands still meanwhile. *)
ReadIcr ==
  /\ irq = "out" /\ icr # {}
  /\ cause' = icr /\ icr' = {}
  /\ irq' = IF "RXT0" \in icr THEN "rx" ELSE "refill"
  /\ UNCHANGED <<desc, rdh, rdt, rx, inq, mask, isr, reg, frames, lostBit>>

(* leread and ether_input: the netisr is marked before the queue is looked *)
(* at, and a full queue drops the frame.                                   *)
ether_input(k) ==
  IF k \in {"ip", "arp"}
  THEN /\ mask' = mask \cup {k}
       /\ inq' = IF inq[k] >= ifq_maxlen THEN inq ELSE [inq EXCEPT ![k] = @ + 1]
  ELSE UNCHANGED <<mask, inq>>

e1000_handle_rx_packet ==
  /\ irq = "rx" /\ desc[rx.head] # NoFrame
  /\ ether_input(desc[rx.head])
  /\ desc' = [desc EXCEPT ![rx.head] = NoFrame]
  /\ rx' = [rx EXCEPT !.head = Wrap(@ + 1), !.free = @ + 1]
  /\ UNCHANGED <<rdh, rdt, icr, irq, cause, isr, reg, frames, lostBit>>

RxDone ==
  /\ irq = "rx" /\ desc[rx.head] = NoFrame
  /\ irq' = IF "RXDMT0" \in cause THEN "refill" ELSE "out"
  /\ UNCHANGED <<desc, rdh, rdt, rx, icr, cause, inq, mask, isr, reg, frames, lostBit>>

(* A slip: the count of emptied descriptors is kept. *)
Refill_again ==
  /\ irq = "refill"
  /\ rx' = [rx EXCEPT !.tail = Wrap(@ + rx.free)]
  /\ rdt' = rx'.tail
  /\ irq' = "out"
  /\ UNCHANGED <<desc, rdh, icr, cause, inq, mask, isr, reg, frames, lostBit>>

Refill ==
  /\ irq = "refill"
  /\ rx' = [rx EXCEPT !.tail = Wrap(@ + rx.free), !.free = 0]
  /\ rdt' = rx'.tail
  /\ irq' = "out"
  /\ UNCHANGED <<desc, rdh, icr, cause, inq, mask, isr, reg, frames, lostBit>>
-----------------------------------------------------------------------------
(* The netisr thread; schedule() keeps it on the run queue. *)
Turn(from, to) == irq = "out" /\ isr = from /\ isr' = to

LoadMask(from, to) ==
  Turn(from, to) /\ reg' = mask
  /\ UNCHANGED <<desc, rdh, rdt, rx, icr, irq, cause, inq, mask, frames, lostBit>>

StoreMask(from, to, new) ==
  /\ Turn(from, to)
  /\ mask' = new
  /\ lostBit' = (lostBit \/ mask # reg)
  /\ UNCHANGED <<desc, rdh, rdt, rx, icr, irq, cause, inq, reg, frames>>

SetAct == LoadMask("act", "act2") \/ StoreMask("act2", "ip?", reg \cup {"ACT"})
ClearAct == LoadMask("done", "done2") \/ StoreMask("done2", "act", reg \ {"ACT"})

Test(from, bit, yes, no) ==
  /\ Turn(from, IF bit \in mask THEN yes ELSE no)
  /\ UNCHANGED <<desc, rdh, rdt, rx, icr, irq, cause, inq, mask, reg, frames, lostBit>>

Drain(q, from, next) ==
  /\ Turn(from, IF inq[q] = 0 THEN next ELSE from)
  /\ inq' = IF inq[q] = 0 THEN inq ELSE [inq EXCEPT ![q] = @ - 1]
  /\ UNCHANGED <<desc, rdh, rdt, rx, icr, irq, cause, mask, reg, frames, lostBit>>

(* A slip: the mark is taken away when the queue is empty. *)
NetisrIp_late ==
  \/ Test("ip?", "ip", "ip", "arp?")
  \/ Drain("ip", "ip", "ip1")
  \/ LoadMask("ip1", "ip2")
  \/ StoreMask("ip2", "arp?", reg \ {"ip"})

NetisrIp ==
  \/ Test("ip?", "ip", "ip1", "arp?")
  \/ LoadMask("ip1", "ip2")
  \/ StoreMask("ip2", "ip", reg \ {"ip"})
  \/ Drain("ip", "ip", "arp?")

NetisrArp ==
  \/ Test("arp?", "arp", "arp1", "done")
  \/ LoadMask("arp1", "arp2")
  \/ StoreMask("arp2", "arp", reg \ {"arp"})
  \/ Drain("arp", "arp", "done")

RecvNext ==
  \/ \E k \in Kind : CardReceives(k)
  \/ ReadIcr \/ e1000_handle_rx_packet \/ RxDone \/ Refill
  \/ SetAct \/ NetisrIp \/ NetisrArp \/ ClearAct

RecvSpec == RecvInit /\ [][RecvNext]_recvVars
-----------------------------------------------------------------------------
(* No frame is overwritten and none is passed over: the descriptors the    *)
(* driver has not looked at are those from rx_head to RDH, all the others  *)
(* are empty, and the ring never runs dry with no interrupt on its way to  *)
(* refill it, although RDT only moves on the low-descriptor interrupt      *)
(* (e1000.c).                                                              *)
RingHolds ==
  LET unread == Wrap(rdh + NUM_RX_DESCRIPTORS - rx.head)
  IN  /\ \A n \in Slot : (desc[Wrap(rx.head + n)] # NoFrame) <=> n < unread
      /\ (rdh = rdt => "RXDMT0" \in icr \/ (irq # "out" /\ "RXDMT0" \in cause))

(* A packet in an input queue has its mark in netisr_mask or the netisr    *)
(* thread is about to empty the queue (netisr.c, schednetisr), unless an   *)
(* interrupt came between the thread's load and its store.                 *)
Awaited(q) ==
  \/ q \in mask
  \/ isr = q

NetisrSees == ~lostBit => \A q \in {"ip", "arp"} : inq[q] > 0 => Awaited(q)

RecvSound == ~lostBit

(***************************************************************************)
(* How a frame gets to the card (the end of ether_output in                *)
(* net/if_ethersubr.c, e1000_start in Kernel/e1000.c).  Every thread that  *)
(* sends queues its frame on if_snd and, if IFF_OACTIVE is clear, empties  *)
(* the queue into the transmit ring itself.  Only the queuing is under     *)
(* local_irq_save; e1000_start does not look whether the ring is full.     *)
(***************************************************************************)
CONSTANTS TxThread, NUM_TX_DESCRIPTORS, if_snd_maxlen,
          MaxSends  \* bound on the frames queued

ASSUME TxAssumption == NUM_TX_DESCRIPTORS \in Nat \ {0}

TxSlot == 0 .. NUM_TX_DESCRIPTORS - 1
NoFrm == 0

VARIABLES if_snd,    \* the queue of frames, numbered in the order of queuing
          active,    \* IFF_OACTIVE
          ring,      \* descriptor -> frame in its buffer
          tdh, tdt,  \* the card's registers
          tx_index,  \* adp->tx_index
          at,        \* sender -> place in the code
          my,        \* sender -> its tx_index and the frame it dequeued
          queued,      \* frames numbered so far
          wire,      \* frames the card queued, in order
          crowded,   \* history: two threads were in e1000_start at once
          unseen,    \* history: a frame was queued after the thread in
                     \* e1000_start had found the queue empty
          overrun    \* history: the ring was full

txVars == <<if_snd, active, ring, tdh, tdt, tx_index, at, my, queued, wire, crowded, unseen, overrun>>

TxInit ==
  /\ if_snd = <<>> /\ active = FALSE
  /\ ring = [i \in TxSlot |-> NoFrm] /\ tdh = 0 /\ tdt = 0 /\ tx_index = 0
  /\ at = [s \in TxThread |-> "out"]
  /\ my = [s \in TxThread |-> [index |-> 0, m0 |-> NoFrm]]
  /\ queued = 0 /\ wire = <<>>
  /\ crowded = FALSE /\ unseen = FALSE /\ overrun = FALSE

TxWrap(i) == i % NUM_TX_DESCRIPTORS
Within == {"start", "loop", "copy", "tell", "end"}
Emptying(s) == at[s] \in Within

(* ether_output, from local_irq_save on; a full queue drops the frame,  *)
(* which changes nothing here.                                             *)
Enqueue(s) ==
  /\ at[s] = "out" /\ queued < MaxSends
  /\ Len(if_snd) < if_snd_maxlen
  /\ queued' = queued + 1
  /\ if_snd' = Append(if_snd, queued')
  /\ at' = [at EXCEPT ![s] = "test"]
  /\ unseen' = (unseen \/ \E o \in TxThread : at[o] = "end")
  /\ UNCHANGED <<active, ring, tdh, tdt, tx_index, my, wire, crowded, overrun>>

TestActive(s) ==
  /\ at[s] = "test"
  /\ at' = [at EXCEPT ![s] = IF active THEN "out" ELSE "start"]
  /\ crowded' = (crowded \/ (~active /\ \E o \in TxThread \ {s} : Emptying(o)))
  /\ UNCHANGED <<if_snd, active, ring, tdh, tdt, tx_index, my, queued, wire, unseen, overrun>>

(* e1000_start *)
Start(s) ==
  /\ at[s] = "start"
  /\ my' = [my EXCEPT ![s].index = tx_index]
  /\ at' = [at EXCEPT ![s] = "loop"]
  /\ UNCHANGED <<if_snd, active, ring, tdh, tdt, tx_index, queued, wire, crowded, unseen, overrun>>

Dequeue(s) ==
  /\ at[s] = "loop"
  /\ IF if_snd = <<>>
     THEN /\ at' = [at EXCEPT ![s] = "end"]
          /\ UNCHANGED <<if_snd, my>>
     ELSE /\ at' = [at EXCEPT ![s] = "copy"]
          /\ my' = [my EXCEPT ![s].m0 = Head(if_snd)]
          /\ if_snd' = Tail(if_snd)
  /\ UNCHANGED <<active, ring, tdh, tdt, tx_index, queued, wire, crowded, unseen, overrun>>

Copy(s) ==
  /\ at[s] = "copy"
  /\ active' = TRUE
  /\ ring' = [ring EXCEPT ![my[s].index] = my[s].m0]
  /\ overrun' = (overrun \/ TxWrap(my[s].index + 1) = tdh)
  /\ at' = [at EXCEPT ![s] = "tell"]
  /\ UNCHANGED <<if_snd, tdh, tdt, tx_index, my, queued, wire, crowded, unseen>>

Tell(s) ==
  /\ at[s] = "tell"
  /\ my' = [my EXCEPT ![s] = [index |-> TxWrap(@.index + 1), m0 |-> NoFrm]]
  /\ tdt' = my'[s].index
  /\ at' = [at EXCEPT ![s] = "loop"]
  /\ UNCHANGED <<if_snd, active, ring, tdh, tx_index, queued, wire, crowded, unseen, overrun>>

(* A slip: the ring's index is not stored back. *)
Stop_stale(s) ==
  /\ at[s] = "end"
  /\ active' = FALSE
  /\ at' = [at EXCEPT ![s] = "out"]
  /\ UNCHANGED <<if_snd, ring, tdh, tdt, tx_index, my, queued, wire, crowded, unseen, overrun>>

Stop(s) ==
  /\ at[s] = "end"
  /\ tx_index' = my[s].index
  /\ active' = FALSE
  /\ at' = [at EXCEPT ![s] = "out"]
  /\ UNCHANGED <<if_snd, ring, tdh, tdt, my, queued, wire, crowded, unseen, overrun>>

(* The card sends the descriptor at TDH. *)
CardSends ==
  /\ tdh # tdt
  /\ wire' = Append(wire, ring[tdh])
  /\ tdh' = TxWrap(tdh + 1)
  /\ UNCHANGED <<if_snd, active, ring, tdt, tx_index, at, my, queued, crowded, unseen, overrun>>

TxNext ==
  \/ \E s \in TxThread :
       Enqueue(s) \/ TestActive(s) \/ Start(s) \/ Dequeue(s) \/ Copy(s) \/ Tell(s) \/ Stop(s)
  \/ CardSends

TxSpec == TxInit /\ [][TxNext]_txVars
-----------------------------------------------------------------------------
TxSound == ~(crowded \/ unseen \/ overrun)

(* The card sends every queued frame, once, in the order of queuing, and a *)
(* frame never stays on if_snd with nobody about to empty it; unless two   *)
(* threads passed the test of IFF_OACTIVE together, one queued its frame   *)
(* behind the back of the thread that had just found the queue empty, or   *)
(* more than a ring of frames waited for the card (ether_output,           *)
(* e1000_start).                                                           *)
FramesOut ==
  TxSound =>
    /\ wire = [i \in 1 .. Len(wire) |-> i]
    /\ (\A s \in TxThread : at[s] = "out") => if_snd = <<>>
    /\ ((\A s \in TxThread : at[s] = "out") /\ tdh = tdt) => Len(wire) = queued

(* The driver's two directions: the ring of received frames, netisr that   *)
(* takes them on, and the frames sent.                                     *)
DriverHolds == RingHolds /\ NetisrSees /\ FramesOut
=============================================================================
