-------------------------------- MODULE Pcb ---------------------------------
(***************************************************************************)
(* Sockets and their protocol control blocks (Kernel/net/uipc_socket.c,    *)
(* uipc_socket2.c, Kernel/netinet/in_pcb.c, udp_usrreq.c, tcp_usrreq.c,    *)
(* tcp_subr.c, tcp_input.c up to LISTEN): creation, the search for a local *)
(* port, sendto, delivery, listening, close.                               *)
(*                                                                         *)
(* What the code makes unreachable is left out.  bind and connect pass a   *)
(* name whose m_len is 0, which the protocols refuse; tcp_template returns *)
(* 0, so no TCP connection gets past its first segment.  A UDP socket is   *)
(* connected only inside a sendto, which other threads can see.            *)
(***************************************************************************)
EXTENDS Integers, Sequences, Functions

CONSTANTS Sock,       \* socket structures
          Remote,     \* remote addresses
          Junk,       \* an uninitialized address
          Reserved, UserReserved, \* IPPORT_RESERVED, IPPORT_USERRESERVED
          PortMod     \* ports are counted modulo this (2^16)

VARIABLES sock,       \* socket -> its structure
          pcbs,       \* "udp", "tcp" -> the list udb, tcb
          lastport,   \* the list head's inp_lport
          cache,      \* udp_last_inpcb, tcp_last_inpcb
          sending,    \* socket -> laddr saved by its udp_output, or Idle
          pcbRaced,      \* history: a socket changed under a sendto
          leaked      \* buffers of tcp_template nobody frees

pcbVars == <<sock, pcbs, lastport, cache, sending, pcbRaced, leaked>>

AnyAddr == "any"
Self == "self"       \* the interface's address
Nobody == "nobody"
Idle == "idle"

ASSUME PcbAssumption ==
  /\ Reserved \in Nat /\ UserReserved \in Nat /\ PortMod \in Nat \ {0}
  /\ Nobody \notin Sock

Type == {"udp", "tcp"}
Unused == [st |-> "none", type |-> "udp", pcb |-> FALSE, tstate |-> "CLOSED",
           accepts |-> FALSE, lport |-> 0, laddr |-> AnyAddr, faddr |-> AnyAddr, fport |-> 0,
           error |-> FALSE]

PcbInit ==
  /\ sock = [s \in Sock |-> Unused]
  /\ pcbs = [t \in Type |-> <<>>] /\ lastport = [t \in Type |-> 0]
  /\ cache = [t \in Type |-> Nobody]
  /\ sending = [s \in Sock |-> Idle]
  /\ pcbRaced = FALSE /\ leaked = 0

(* in_pcblookup: how many wildcards it takes to match a block, or -1; the  *)
(* first with the fewest.                                                  *)
Wildcards(k, faddr, fport, laddr, lport) ==
  IF \/ k.lport # lport
     \/ k.laddr # AnyAddr /\ laddr # AnyAddr /\ k.laddr # laddr
     \/ k.faddr # AnyAddr /\ faddr # AnyAddr /\ (k.faddr # faddr \/ k.fport # fport)
  THEN -1
  ELSE (IF (k.laddr = AnyAddr) # (laddr = AnyAddr) THEN 1 ELSE 0)
       + (IF (k.faddr = AnyAddr) # (faddr = AnyAddr) THEN 1 ELSE 0)

Lookup(sk, list, faddr, fport, laddr, lport, wild) ==
  LET W(i) == Wildcards(sk[list[i]], faddr, fport, laddr, lport)
      fit == {i \in DOMAIN list : W(i) = 0 \/ (wild /\ W(i) > 0)}
      best == {i \in fit : \A j \in fit : W(i) <= W(j)}
  IN  IF fit = {} THEN Nobody ELSE list[CHOOSE i \in best : \A j \in best : i <= j]

(* in_pcbbind without a name: the local address comes from an              *)
(* uninitialized pointer; the port is the next one of the counter below    *)
(* Reserved or above UserReserved that no block uses.  While the counter   *)
(* is between them the port stays 0, which the block itself holds.  The    *)
(* third component tells that a port was found: the code goes on for ever  *)
(* when there is none.                                                     *)

(* A slip: the next port is taken without asking who has it. *)
FreePort_blind(sk, t, s) ==
  LET c == (lastport[t] + 1) % PortMod
  IN  <<c, IF lastport[t] < Reserved \/ c > UserReserved THEN c ELSE UserReserved + 1, TRUE>>

FreePort(sk, t, s) ==
  LET wild == t = "udp" \/ ~sk[s].accepts
      Step[k \in 0..2 * PortMod] ==
        IF k = 0 THEN <<lastport[t], 0, FALSE>>
        ELSE LET p == Step[k - 1]
                 c == (p[1] + 1) % PortMod
                 port == IF p[1] < Reserved \/ c > UserReserved THEN c ELSE p[2]
             IN  IF p[3] THEN p
                 ELSE <<c, port, Lookup(sk, pcbs[t], AnyAddr, 0, sk[s].laddr, port, wild) = Nobody>>
  IN  Step[2 * PortMod]

Bound(sk, t, s) ==
  LET sk1 == [sk EXCEPT ![s].laddr = Junk]
      p == FreePort(sk1, t, s)
  IN  [sk |-> [sk1 EXCEPT ![s].lport = p[2]], port |-> p[1], found |-> p[3]]

(* sofree, in_pcbdetach: the block leaves the list; the socket goes when   *)
(* no file and no block refers to it.                                      *)
Freed(sk, s) == IF sk[s].st = "nofd" /\ ~sk[s].pcb THEN [sk EXCEPT ![s] = Unused] ELSE sk
Without(list, s) ==
  IF s \notin Range(list) THEN list
  ELSE LET k == CHOOSE k \in DOMAIN list : list[k] = s
       IN  [i \in 1..Len(list) - 1 |-> list[IF i < k THEN i ELSE i + 1]]

(* A slip: the cache keeps pointing to the block. *)
Detached_cached(sk, s) ==
  [sk |-> Freed([sk EXCEPT ![s].pcb = FALSE], s), cache |-> cache[sk[s].type]]

(* udp_detach, tcp_close. *)
Detached(sk, s) ==
  [sk |-> Freed([sk EXCEPT ![s].pcb = FALSE], s),
   cache |-> IF cache[sk[s].type] = s THEN "head" ELSE cache[sk[s].type]]

Drop(sk, s) ==
  LET d == Detached(sk, s)
  IN  /\ sock' = d.sk
      /\ cache' = [cache EXCEPT ![sk[s].type] = d.cache]
      /\ pcbs' = [pcbs EXCEPT ![sk[s].type] = Without(@, s)]
-----------------------------------------------------------------------------
(* socreate, PRU_ATTACH: the block goes to the front of the list. *)
Socreate(s, t) ==
  /\ sock[s].st = "none"
  /\ sock' = [sock EXCEPT ![s] = [Unused EXCEPT !.st = "open", !.type = t, !.pcb = TRUE]]
  /\ pcbs' = [pcbs EXCEPT ![t] = <<s>> \o @]
  /\ UNCHANGED <<lastport, cache, sending, pcbRaced, leaked>>

(* udp_output with an address, first half: in_pcbconnect. *)
SendConnect(s, dst, fport) ==
  LET k == sock[s]
      local == IF k.laddr = AnyAddr THEN Self ELSE k.laddr
      b == IF k.laddr = AnyAddr /\ k.lport = 0 THEN Bound(sock, "udp", s)
           ELSE [sk |-> sock, port |-> lastport["udp"], found |-> TRUE]
  IN  /\ k.st = "open" /\ k.type = "udp" /\ k.pcb /\ sending[s] = Idle
      /\ Lookup(sock, pcbs["udp"], dst, fport, local, k.lport, FALSE) = Nobody
      /\ b.found
      /\ sock' = [b.sk EXCEPT ![s].laddr = local, ![s].faddr = dst, ![s].fport = fport]
      /\ lastport' = [lastport EXCEPT !["udp"] = b.port]
      /\ sending' = [sending EXCEPT ![s] = k.laddr]
      /\ pcbRaced' = (pcbRaced \/ (k.lport = 0 /\ \E q \in Sock \ {s} : sending[q] # Idle))
      /\ UNCHANGED <<pcbs, cache, leaked>>

(* Second half, after ip_output: in_pcbdisconnect and the old address.     *)
(* If the socket was closed meanwhile the block is detached again.         *)
SendDisconnect(s) ==
  /\ sending[s] # Idle
  /\ sending' = [sending EXCEPT ![s] = Idle]
  /\ sock' = [sock EXCEPT ![s].faddr = AnyAddr, ![s].fport = 0, ![s].laddr = sending[s]]
  /\ pcbRaced' = (pcbRaced \/ sock[s].st # "open")
  /\ UNCHANGED <<pcbs, lastport, cache, leaked>>

(* udp_input of a unicast datagram: the cached block if it matches in full *)
(* (the cache starts as a null pointer, taken here as no match), else the  *)
(* best one.                                                               *)
UdpInput(src, sport, dport) ==
  LET c == cache["udp"]
      hit == /\ c \in Sock
             /\ LET k == sock[c] IN /\ k.lport = dport /\ k.fport = sport
                                    /\ k.faddr = src /\ k.laddr = Self
      to == IF hit THEN c ELSE Lookup(sock, pcbs["udp"], src, sport, Self, dport, TRUE)
  IN  /\ to # Nobody
      /\ cache' = [cache EXCEPT !["udp"] = to]
      /\ UNCHANGED <<sock, pcbs, lastport, sending, pcbRaced, leaked>>

(* icmp error for a datagram just sent: in_pcbnotify, udp_notify. *)
UdpNotify(src) ==
  /\ \E i \in DOMAIN pcbs["udp"] : sock[pcbs["udp"][i]].faddr = src
  /\ sock' = [s \in Sock |-> IF sock[s].pcb /\ sock[s].type = "udp" /\ sock[s].faddr = src
                             THEN [sock[s] EXCEPT !.error = TRUE] ELSE sock[s]]
  /\ UNCHANGED <<pcbs, lastport, cache, sending, pcbRaced, leaked>>

(* solisten, PRU_LISTEN: a socket without a port gets one, and keeps the   *)
(* uninitialized address.                                                  *)
Solisten(s) ==
  LET k == sock[s]
      b == IF k.lport = 0 THEN Bound(sock, "tcp", s)
           ELSE [sk |-> sock, port |-> lastport["tcp"], found |-> TRUE]
  IN  /\ k.st = "open" /\ k.type = "tcp" /\ k.pcb /\ ~k.accepts
      /\ k.lport # 0 => k.laddr = AnyAddr \/ k.tstate # "LISTEN"
      /\ b.found
      /\ sock' = [b.sk EXCEPT ![s].tstate = "LISTEN", ![s].accepts = TRUE]
      /\ lastport' = [lastport EXCEPT !["tcp"] = b.port]
      /\ UNCHANGED <<pcbs, cache, sending, pcbRaced, leaked>>

(* PRU_CONNECT of TCP: a port is taken, then the name is refused. *)
TcpConnect(s) ==
  LET b == Bound(sock, "tcp", s)
  IN  /\ sock[s].st = "open" /\ sock[s].type = "tcp" /\ sock[s].pcb /\ sock[s].lport = 0
      /\ ~sock[s].accepts /\ b.found
      /\ sock' = b.sk /\ lastport' = [lastport EXCEPT !["tcp"] = b.port]
      /\ UNCHANGED <<pcbs, cache, sending, pcbRaced, leaked>>

(* tcp_input of a segment for a listener: sonewconn makes a child c with   *)
(* no file, queued on the listener.  A SYN connects it, takes a template   *)
(* buffer and drops it because tcp_template returns 0; any other segment   *)
(* aborts it.  Either way tcp_close detaches it, which frees it.           *)
TcpInput(c, src, sport, dst, dport, syn) ==
  LET l == Lookup(sock, pcbs["tcp"], src, sport, dst, dport, TRUE)
      child == [Unused EXCEPT !.st = "nofd", !.type = "tcp", !.pcb = TRUE, !.tstate = "LISTEN",
                              !.lport = dport, !.laddr = dst, !.faddr = IF syn THEN src ELSE AnyAddr]
      d == Detached([sock EXCEPT ![c] = child], c)
  IN  /\ l # Nobody
      /\ cache' = [cache EXCEPT !["tcp"] = l]
      /\ IF sock[l].tstate = "LISTEN" /\ sock[l].accepts
         THEN /\ sock[c].st = "none"
              /\ sock' = d.sk
              /\ leaked' = IF syn /\ leaked < 2 THEN leaked + 1 ELSE leaked
         ELSE UNCHANGED <<sock, leaked>>
      /\ UNCHANGED <<pcbs, lastport, sending, pcbRaced>>

(* PRU_SHUTDOWN of TCP: tcp_usrclosed closes the block, the file stays. *)
TcpShutdown(s) ==
  /\ sock[s].st = "open" /\ sock[s].type = "tcp" /\ sock[s].pcb
  /\ Drop(sock, s)
  /\ UNCHANGED <<lastport, sending, pcbRaced, leaked>>

(* soclose: PRU_DETACH, then SS_NOFDREF and sofree. *)
Soclose(s) ==
  /\ sock[s].st = "open"
  /\ IF sock[s].pcb THEN Drop([sock EXCEPT ![s].st = "nofd"], s)
     ELSE /\ sock' = Freed([sock EXCEPT ![s].st = "nofd"], s)
          /\ UNCHANGED <<cache, pcbs>>
  /\ pcbRaced' = (pcbRaced \/ sending[s] # Idle)
  /\ UNCHANGED <<lastport, sending, leaked>>

PcbNext ==
  \/ \E s \in Sock :
       \/ \E t \in Type : Socreate(s, t)
       \/ \E d \in Remote : SendConnect(s, d, 1)
       \/ SendDisconnect(s) \/ Solisten(s) \/ TcpConnect(s) \/ TcpShutdown(s) \/ Soclose(s)
       \/ \E d \in Remote, l \in {Self, Junk}, p \in 1..PortMod - 1, syn \in BOOLEAN :
            TcpInput(s, d, 1, l, p, syn)
  \/ \E d \in Remote, p \in 1..PortMod - 1 : UdpInput(d, 1, p)
  \/ \E d \in Remote : UdpNotify(d)

PcbSpec == PcbInit /\ [][PcbNext]_pcbVars
-----------------------------------------------------------------------------
(* Sockets and blocks agree: a listed block belongs to a socket that is    *)
(* not freed and is listed once, and a socket without file and block is    *)
(* gone.  The caches point to a listed block or to the list head.          *)
PcbsAgree ==
  ~pcbRaced =>
    /\ \A t \in Type :
         /\ \A i \in DOMAIN pcbs[t] : LET k == sock[pcbs[t][i]]
                                      IN  k.pcb /\ k.type = t /\ k.st = "open"
         /\ IsInjective(pcbs[t])
         /\ cache[t] \in Range(pcbs[t]) \cup {"head", Nobody}
    /\ \A s \in Sock : /\ sock[s].pcb => s \in Range(pcbs[sock[s].type])
                       /\ sock[s].st # "nofd"

(* The ports that the search gives out differ, unless a socket was being   *)
(* given one while another was in a sendto; and each is outside of the     *)
(* range kept for explicit binds.                                          *)
PortsDiffer ==
  ~pcbRaced =>
    \A t \in Type : \A i, j \in DOMAIN pcbs[t] :
      LET a == sock[pcbs[t][i]]  b == sock[pcbs[t][j]]
      IN  a.lport # 0 =>
            /\ a.lport \notin Reserved + 1..UserReserved
            /\ i # j => a.lport # b.lport

PcbSound == ~pcbRaced

(* Sockets, protocol control blocks and ports fit together. *)
PcbsNamed == PcbsAgree /\ PortsDiffer
=============================================================================
