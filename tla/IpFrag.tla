------------------------------- MODULE IpFrag -------------------------------
(***************************************************************************)
(* Fragmentation in ip_output (Kernel/netinet/ip_output.c), a network that *)
(* loses, repeats, reorders and splits fragments, and reassembly in        *)
(* ip_ours, ip_reass and ip_slowtimo (ip_input.c).  A datagram's data are  *)
(* the bytes 0 .. dsize - 1; a fragment carries an interval of them.        *)
(* ip_reass gets lengths and offsets in host order and applies ntohs once  *)
(* more, so that its sums are sums of swapped numbers.                     *)
(***************************************************************************)
EXTENDS Integers, Sequences, FiniteSets, SequencesExt

CONSTANTS Id,        \* identifications of datagrams
          Sends,     \* bytes of data of a datagram, MTU of the interface
          IPFRAGTTL, \* ticks a fragment waits
          MaxDup     \* copies and splits the network makes

IP_MAXPACKET == 65535
HLen == 20

(* ntohs and htons: the two bytes of a 16 bit number change places. *)
Swap(v) == (v % 256) * 256 + ((v \div 256) % 256)

VARIABLES dsize,     \* dsize of every datagram sent, 0 before
          net,      \* fragments on their way
          dups,     \* copies and splits made
          ipq,      \* reassembly queues: id -> ttl and fragments
          hand,     \* the fragment ip_ours holds, and the queue it found
          joined,  \* history: bytes that went into the queue of an id
          passed,   \* datagrams handed to the protocol: id, bytes in order?
          torn      \* history: what ip_reass or ip_slowtimo broke

ipVars == <<dsize, net, dups, ipq, hand, joined, passed, torn>>

NoPacket == [id |-> "none"]
NoQueue == [ttl |-> 0, frags |-> <<>>]

IpInit ==
  /\ dsize = [d \in Id |-> 0]
  /\ net = {}
  /\ dups = 0
  /\ ipq = [d \in Id |-> NoQueue]
  /\ hand = NoPacket
  /\ joined = [d \in Id |-> {}]
  /\ passed = {}
  /\ torn = {}

Frag(d, off, len, mf) == [id |-> d, off |-> off, len |-> len, mf |-> mf]

(* The parts of a datagram of n bytes, len at a time; the last has no MF. *)
CutUp_last(d, n, len) ==
  {Frag(d, off, IF off + len >= n THEN n - off ELSE len, TRUE) :
   off \in {k * len : k \in 0 .. (n - 1) \div len}}

CutUp(d, n, len) ==
  {Frag(d, off, IF off + len >= n THEN n - off ELSE len, off + len < n) :
   off \in {k * len : k \in 0 .. (n - 1) \div len}}

(* Sent whole if it fits; no buffer, or an MTU too small, and nothing is   *)
(* sent.                                                                   *)
ip_output(d, n, mtu) ==
  LET len == ((mtu - HLen) \div 8) * 8
  IN  /\ dsize[d] = 0 /\ (n + HLen <= mtu \/ len >= 8)
      /\ dsize' = [dsize EXCEPT ![d] = n]
      /\ net' = net \cup (IF n + HLen <= mtu THEN {Frag(d, 0, n, FALSE)} ELSE CutUp(d, n, len))
      /\ UNCHANGED <<dups, ipq, hand, joined, passed, torn>>

(* A router splits a fragment, and another copy of it stays in one piece. *)
Split(f, k) ==
  /\ dups < MaxDup
  /\ net' = net \cup {Frag(f.id, f.off, k, TRUE), Frag(f.id, f.off + k, f.len - k, f.mf)}
  /\ dups' = dups + 1
  /\ UNCHANGED <<dsize, ipq, hand, joined, passed, torn>>

-----------------------------------------------------------------------------
Entry(f) == [off |-> f.off, len |-> f.len, mf |-> f.mf, from |-> f.off, to |-> f.off + f.len]

(* m_adj from the front. *)
m_adj(e, i) == [e EXCEPT !.from = IF @ + i > e.to THEN e.to ELSE @ + i]

TrimFront(e, i) == [m_adj(e, i) EXCEPT !.off = Swap(Swap(@) + i), !.len = Swap(Swap(@) - i)]

(* A fragment that is neither MF nor behind another goes up as it is; the  *)
(* others look for their queue.  The network may have sent it twice.       *)
ip_ours(f, again) ==
  /\ hand = NoPacket
  /\ again => dups < MaxDup
  /\ dups' = IF again THEN dups + 1 ELSE dups
  /\ net' = IF again THEN net ELSE net \ {f}
  /\ IF ~f.mf /\ f.off = 0
     THEN passed' = passed \cup {<<f.id, TRUE>>} /\ UNCHANGED hand
     ELSE hand' = [id |-> f.id, f |-> f, fp |-> ipq[f.id].ttl > 0] /\ UNCHANGED passed
  /\ UNCHANGED <<dsize, ipq, joined, torn>>

End(e) == Swap(e.off) + Swap(e.len)

(* The fragments after it that it covers are taken out, and the first one  *)
(* it does not cover is trimmed.                                           *)
Covered(qs, e) ==
  LET n == {k \in 0 .. Len(qs) : \A j \in 1 .. k : End(e) - Swap(qs[j].off) >= Swap(qs[j].len)
                                                  /\ End(e) > Swap(qs[j].off)}
      k == CHOOSE k \in n : \A j \in n : j <= k
  IN  k

Rest(qs, e) ==
  LET r == SubSeq(qs, Covered(qs, e) + 1, Len(qs))
  IN  IF r # <<>> /\ End(e) > Swap(r[1].off)
      THEN <<TrimFront(r[1], End(e) - Swap(r[1].off))>> \o Tail(r)
      ELSE r

(* The new list.  Taking out the first fragment leaves the queue's pointer *)
(* to it.                                                                  *)
Insert(qs, new) ==
  LET before == SelectSeq(qs, LAMBDA x : x.off <= new.off)
      after == SelectSeq(qs, LAMBDA x : x.off > new.off)
      i == IF before = <<>> THEN 0 ELSE End(Last(before)) - Swap(new.off)
      e == IF i > 0 THEN TrimFront(new, i) ELSE new
  IN  IF i > 0 /\ i >= Swap(new.len) THEN [qs |-> qs, torn |-> {}]
      ELSE [qs |-> before \o <<e>> \o Rest(after, e),
            torn |-> {"trim" : x \in IF i > 0 \/ Rest(after, e) # SubSeq(after, Covered(after, e) + 1, Len(after))
                                     THEN {1} ELSE {}}
                     \cup {"first" : x \in IF before = <<>> /\ Covered(after, e) > 0 THEN {1} ELSE {}}]

(* Where the fragments, taken in order, stop following each other. *)
Sum(qs) ==
  LET at[k \in 0 .. Len(qs)] == IF k = 0 THEN 0 ELSE at[k - 1] + Swap(qs[k].len)
  IN  at

Complete(qs) ==
  /\ \A k \in 1 .. Len(qs) : Swap(qs[k].off) = Sum(qs)[k - 1]
  /\ ~Last(qs).mf

InOrder(d, qs) ==
  /\ qs[1].from = 0 /\ Last(qs).to = dsize[d]
  /\ \A k \in 1 .. Len(qs) - 1 : qs[k].to = qs[k + 1].from

(* Without memory the fragment is dropped.  A queue that was freed since   *)
(* it was found is used all the same.                                      *)
ip_reass ==
  LET f == hand.f
      d == f.id
      q == ipq[d]
      r == Insert(q.frags, Entry(f))
      whole == Complete(r.qs)
      bytes == joined[d] \cup (f.off .. f.off + f.len - 1)
  IN  /\ hand # NoPacket
      /\ hand' = NoPacket
      /\ \/ UNCHANGED <<ipq, joined, passed, torn>>
         \/ /\ torn' = torn \cup r.torn
                       \cup {"freed" : x \in IF hand.fp /\ q.ttl = 0 THEN {1} ELSE {}}
            /\ ipq' = [ipq EXCEPT ![d] =
                 IF whole THEN NoQueue
                 ELSE [ttl |-> IF hand.fp THEN q.ttl ELSE IPFRAGTTL, frags |-> r.qs]]
            /\ joined' = [joined EXCEPT ![d] = IF whole THEN {} ELSE bytes]
            /\ passed' = IF whole /\ Sum(r.qs)[Len(r.qs)] + HLen <= IP_MAXPACKET
                         THEN passed \cup {<<d, InOrder(d, r.qs)>>} ELSE passed
      /\ UNCHANGED <<dsize, net, dups>>

(* A tick of the slow timer frees the queues whose time is over. *)
ip_slowtimo ==
  /\ \E d \in Id : ipq[d].ttl > 0
  /\ ipq' = [d \in Id |-> IF ipq[d].ttl <= 1 THEN NoQueue ELSE [ipq[d] EXCEPT !.ttl = @ - 1]]
  /\ joined' = [d \in Id |-> IF ipq[d].ttl <= 1 THEN {} ELSE joined[d]]
  /\ UNCHANGED <<dsize, net, dups, hand, passed, torn>>

IpNext ==
  \/ \E d \in Id, s \in Sends : ip_output(d, s[1], s[2])
  \/ \E f \in net : \/ f.len > 8 /\ Split(f, 8)
                    \/ \E again \in BOOLEAN : ip_ours(f, again)
  \/ ip_reass
  \/ ip_slowtimo

IpSpec == IpInit /\ [][IpNext]_ipVars
IpSound == torn = {}

-----------------------------------------------------------------------------
(* Unless fragments overlap in part or the timer frees the queue a         *)
(* fragment is about to go to, a datagram that goes up has all its bytes   *)
(* in order, whatever the network lost, repeated, reordered or split; and  *)
(* one of less than 256 bytes goes up as soon as all its bytes are there.  *)
Reassembled ==
  torn = {} =>
    /\ \A p \in passed : p[2]
    /\ \A d \in Id : dsize[d] \in 1 .. 255 => joined[d] # 0 .. dsize[d] - 1
=============================================================================
