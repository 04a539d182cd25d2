-------------------------------- MODULE Arp ---------------------------------
(***************************************************************************)
(* One ARP entry (netinet/if_ether.c): threads that send to its host go    *)
(* through arpresolve, the netisr thread takes the host's ARP packets in   *)
(* in_arpinput.  Nothing locks the entry, so their steps interleave.  A    *)
(* request is a broadcast the network may lose; the host may also be heard *)
(* of unasked.  The entry was cloned from the route of the interface, so   *)
(* its rt_expire is the time the interface was configured, and not 0.      *)
(***************************************************************************)
EXTENDS Naturals, FiniteSets

CONSTANTS Sender,        \* threads that send
          MaxPackets,    \* bound on the packets sent
          MaxHeard,      \* bound on the ARP packets from the host
          MaxTime,       \* bound on the clock, in seconds
          arp_maxtries, arpt_keep, arpt_down

ASSUME ArpAssumption ==
  /\ "netisr" \notin Sender
  /\ MaxPackets \in Nat /\ MaxTime \in Nat /\ arp_maxtries \in Nat
  /\ arpt_keep \in Nat /\ arpt_down \in Nat

VARIABLES sec,           \* CURRENT_TIME_SEC
          sdl_alen,      \* whether the hardware address is known
          rt_expire, reject, la_asked,
          la_hold,       \* the packet held, 0 if none
          actor,         \* thread -> where it is, and with which packet
          onWire, freed, \* packet -> how often it was sent, freed
          sentPkts, heard, \* counters for the bounds
          asking,        \* history: a request went out since the host was last heard
          overlap        \* history: la_hold was changed under another thread

arpVars == <<sec, sdl_alen, rt_expire, reject, la_asked, la_hold, actor, onWire, freed,
             sentPkts, heard, asking, overlap>>

ArpActor == Sender \cup {"netisr"}
Packet == 1..MaxPackets

ArpInit ==
  /\ sec = 1 /\ sdl_alen = FALSE /\ rt_expire = 1 /\ reject = FALSE /\ la_asked = 0 /\ la_hold = 0
  /\ actor = [a \in ArpActor |-> [at |-> "idle", m |-> 0]]
  /\ onWire = [p \in Packet |-> 0] /\ freed = [p \in Packet |-> 0]
  /\ sentPkts = 0 /\ heard = 0
  /\ asking = FALSE /\ overlap = FALSE

GoesTo(a, l) == actor' = [actor EXCEPT ![a].at = l]
(* Back from ether_output; in_arpinput still clears la_hold. *)
Returns(a) == GoesTo(a, IF a = "netisr" THEN "clear" ELSE "idle")

Second ==
  /\ sec < MaxTime
  /\ sec' = sec + 1
  /\ UNCHANGED <<sdl_alen, rt_expire, reject, la_asked, la_hold, actor, onWire, freed, sentPkts,
                 heard, asking, overlap>>

(* The route is up, so ether_output looks at neither RTF_REJECT nor the    *)
(* gateway and calls arpresolve.                                           *)
ether_output(a) ==
  /\ actor[a].at = "idle" /\ a \in Sender /\ sentPkts < MaxPackets
  /\ sentPkts' = sentPkts + 1
  /\ actor' = [actor EXCEPT ![a] = [at |-> "resolve", m |-> sentPkts + 1]]
  /\ UNCHANGED <<sec, sdl_alen, rt_expire, reject, la_asked, la_hold, onWire, freed, heard, asking,
                 overlap>>

(* Is the address known and still good? *)
Resolve(a) ==
  /\ actor[a].at = "resolve"
  /\ \/ /\ sdl_alen /\ (rt_expire = 0 \/ rt_expire > sec)
        /\ onWire' = [onWire EXCEPT ![actor[a].m] = @ + 1]
        /\ Returns(a)
     \/ /\ ~(sdl_alen /\ (rt_expire = 0 \/ rt_expire > sec))
        /\ GoesTo(a, "free")
        /\ UNCHANGED onWire
  /\ UNCHANGED <<sec, sdl_alen, rt_expire, reject, la_asked, la_hold, freed, sentPkts, heard,
                 asking, overlap>>

(* if (la->la_hold) m_freem(la->la_hold) *)
FreeHeld(a) ==
  /\ actor[a].at = "free"
  /\ freed' = IF la_hold = 0 THEN freed ELSE [freed EXCEPT ![la_hold] = @ + 1]
  /\ GoesTo(a, "hold")
  /\ overlap' = (overlap \/ a = "netisr" \/ \E b \in ArpActor \ {a} : actor[b].at = "hold")
  /\ UNCHANGED <<sec, sdl_alen, rt_expire, reject, la_asked, la_hold, onWire, sentPkts, heard,
                 asking>>

(* la->la_hold = m *)
Hold(a) ==
  /\ actor[a].at = "hold"
  /\ la_hold' = actor[a].m
  /\ GoesTo(a, "ask")
  /\ overlap' = (overlap \/ (a # "netisr" /\ actor["netisr"].at \in {"resolve", "clear"}))
  /\ UNCHANGED <<sec, sdl_alen, rt_expire, reject, la_asked, onWire, freed, sentPkts, heard, asking>>

(* A slip: a new packet does not ask as long as the entry has not expired. *)
Ask_fresh(a) ==
  /\ actor[a].at = "ask"
  /\ Returns(a)
  /\ LET ask == rt_expire # 0 /\ rt_expire <= sec /\ (la_asked = 0 \/ rt_expire # sec)
         down == ask /\ la_asked >= arp_maxtries
     IN  /\ reject' = IF rt_expire = 0 THEN reject ELSE down
         /\ rt_expire' = IF down THEN sec + arpt_down ELSE IF ask THEN sec ELSE rt_expire
         /\ la_asked' = IF down THEN 0 ELSE IF ask THEN la_asked + 1 ELSE la_asked
         /\ asking' = (asking \/ (ask /\ ~down))
  /\ UNCHANGED <<sec, sdl_alen, la_hold, onWire, freed, sentPkts, heard, overlap>>

(* arpwhohas, once in a second and arp_maxtries times; then the host is    *)
(* declared down.                                                          *)
Ask(a) ==
  /\ actor[a].at = "ask"
  /\ Returns(a)
  /\ LET ask == rt_expire # 0 /\ (la_asked = 0 \/ rt_expire # sec)
         down == ask /\ la_asked >= arp_maxtries
     IN  /\ reject' = IF rt_expire = 0 THEN reject ELSE down
         /\ rt_expire' = IF down THEN sec + arpt_down ELSE IF ask THEN sec ELSE rt_expire
         /\ la_asked' = IF down THEN 0 ELSE IF ask THEN la_asked + 1 ELSE la_asked
         /\ asking' = (asking \/ (ask /\ ~down))
  /\ UNCHANGED <<sec, sdl_alen, la_hold, onWire, freed, sentPkts, heard, overlap>>

(* in_arpinput: an ARP packet of the host, asked for or not. *)
Learn ==
  /\ actor["netisr"].at = "idle" /\ heard < MaxHeard
  /\ heard' = heard + 1
  /\ sdl_alen' = TRUE
  /\ rt_expire' = IF rt_expire # 0 THEN sec + arpt_keep ELSE 0
  /\ asking' = FALSE
  /\ GoesTo("netisr", "forgive")
  /\ UNCHANGED <<sec, reject, la_asked, la_hold, onWire, freed, sentPkts, overlap>>

Forgive ==
  /\ actor["netisr"].at = "forgive"
  /\ reject' = FALSE /\ la_asked' = 0
  /\ GoesTo("netisr", "flush")
  /\ UNCHANGED <<sec, sdl_alen, rt_expire, la_hold, onWire, freed, sentPkts, heard, asking,
                 overlap>>

(* The held packet goes through ether_output again. *)
FlushHeld ==
  /\ actor["netisr"].at = "flush"
  /\ actor' = [actor EXCEPT !["netisr"] =
                 IF la_hold = 0 THEN [at |-> "idle", m |-> 0] ELSE [at |-> "resolve", m |-> la_hold]]
  /\ overlap' = (overlap \/ (la_hold # 0 /\ \E a \in Sender : actor[a].at = "hold"))
  /\ UNCHANGED <<sec, sdl_alen, rt_expire, reject, la_asked, la_hold, onWire, freed, sentPkts,
                 heard, asking>>

(* la->la_hold = NULL *)
ClearHeld ==
  /\ actor["netisr"].at = "clear"
  /\ la_hold' = 0
  /\ GoesTo("netisr", "idle")
  /\ overlap' = (overlap \/ \E a \in Sender : actor[a].at = "hold")
  /\ UNCHANGED <<sec, sdl_alen, rt_expire, reject, la_asked, onWire, freed, sentPkts, heard, asking>>

ArpNext ==
  \/ Second \/ Learn \/ Forgive \/ FlushHeld \/ ClearHeld
  \/ \E a \in ArpActor : ether_output(a) \/ Resolve(a) \/ FreeHeld(a) \/ Hold(a) \/ Ask(a)

ArpSpec == ArpInit /\ [][ArpNext]_arpVars
-----------------------------------------------------------------------------
ArpSound == ~overlap

(* Whenever no thread is at work on the entry, each packet given to        *)
(* ether_output went out once, or was freed once, or is the one held; and  *)
(* a packet is only held while a request has gone out since the host was   *)
(* last heard of, or while it is declared down: a packet that arpresolve   *)
(* stores after the answer came in asks again.  Unless two threads changed *)
(* la_hold at the same time.                                               *)
HeldPackets ==
  (~overlap /\ \A a \in ArpActor : actor[a].at = "idle") =>
    /\ \A p \in 1..sentPkts : onWire[p] + freed[p] = IF la_hold = p THEN 0 ELSE 1
    /\ la_hold # 0 => asking \/ reject
=============================================================================
