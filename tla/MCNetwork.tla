----------------------------- MODULE MCNetwork -----------------------------
(***************************************************************************)
(* The network, layer by layer: a frame's way from the card (part "recv")  *)
(* and to it ("send"), the routing table ("routes"), address resolution    *)
(* ("arp"), buffer chains ("mbuf"), receiving and sending on a socket      *)
(* ("receive", "socksend"), protocol control blocks ("pcbs") and IP        *)
(* fragments ("fragments").  A behaviour exercises one of them.            *)
(***************************************************************************)
EXTENDS Ethernet, Radix, Arp, Mbuf, Sockets, Pcb, IpFrag

VARIABLE part

networkVars == <<part, recvVars, txVars, radixVars, arpVars, mbufVars, sockVars, sendVars, pcbVars,
                ipVars>>

Init ==
  /\ part \in {"recv", "send", "routes", "arp", "mbuf",
               "receive", "socksend", "pcbs", "fragments"}
  /\ RecvInit /\ TxInit /\ RadixInit /\ ArpInit /\ MbufInit
  /\ SockBufInit /\ SockSendInit /\ PcbInit /\ IpInit
  /\ part # "socksend" => hiwat = CHOOSE n \in BufSizes : CanReserve(n)

Next ==
  /\ UNCHANGED part
  /\ \/ /\ part = "recv" /\ RecvNext
        /\ UNCHANGED <<txVars, radixVars, arpVars, mbufVars, sockVars, sendVars, pcbVars, ipVars>>
     \/ /\ part = "send" /\ TxNext
        /\ UNCHANGED <<recvVars, radixVars, arpVars, mbufVars, sockVars, sendVars, pcbVars, ipVars>>
     \/ /\ part = "routes" /\ RadixNext
        /\ UNCHANGED <<recvVars, txVars, arpVars, mbufVars, sockVars, sendVars, pcbVars, ipVars>>
     \/ /\ part = "arp" /\ ArpNext
        /\ UNCHANGED <<recvVars, txVars, radixVars, mbufVars, sockVars, sendVars, pcbVars, ipVars>>
     \/ /\ part = "mbuf" /\ MbufNext
        /\ UNCHANGED <<recvVars, txVars, radixVars, arpVars, sockVars, sendVars, pcbVars, ipVars>>
     \/ /\ part = "receive" /\ SockBufNext
        /\ UNCHANGED <<recvVars, txVars, radixVars, arpVars, mbufVars, sendVars, pcbVars, ipVars>>
     \/ /\ part = "socksend" /\ SockSendNext
        /\ UNCHANGED <<recvVars, txVars, radixVars, arpVars, mbufVars, sockVars, pcbVars, ipVars>>
     \/ /\ part = "pcbs" /\ PcbNext
        /\ UNCHANGED <<recvVars, txVars, radixVars, arpVars, mbufVars, sockVars, sendVars, ipVars>>
     \/ /\ part = "fragments" /\ IpNext
        /\ UNCHANGED <<recvVars, txVars, radixVars, arpVars, mbufVars, sockVars, sendVars, pcbVars>>

Spec == Init /\ [][Next]_networkVars

(* Bounds: packets that fill one to seven clusters of a socket buffer, and *)
(* datagrams of one, two and several fragments.                            *)
MCSendSizes == 1..26
MCSends == {<<20, 28>>, <<20, 36>>, <<20, 172>>, <<300, 172>>}

Sound == /\ RecvSound /\ TxSound /\ ArpSound /\ MbufSound
         /\ SockSound /\ PcbSound /\ IpSound

Symmetry == Permutations(Sender) \cup Permutations(Reader) \cup Permutations(Sock)
=============================================================================
