-------------------------------- MODULE Mbuf --------------------------------
(***************************************************************************)
(* Network buffers (Kernel/mbuf.c): a packet is a chain of buffers, small  *)
(* ones that hold their data and ones with a cluster of their own.  One    *)
(* packet goes through the operations of mbuf.c; a second chain is a       *)
(* shallow copy of it, which shares its clusters.                          *)
(***************************************************************************)
EXTENDS Integers, Sequences, SequencesExt, FiniteSets, FiniteSetsExt

CONSTANTS MLEN,       \* bytes in a small buffer (108, MHLEN 100)
          MCLBYTES,   \* bytes in a cluster (2048)
          MINCLSIZE,  \* from here m_devget takes clusters (208)
          max_linkhdr,\* room left in front for the link header
          MaxPacket,  \* bound: bytes in a received packet
          MaxBufOps   \* bound: operations on a packet

VARIABLES chain,      \* the buffers of the packet
          pktlen,     \* m_pkthdr.len of the first one
          copy,       \* the buffers of the copy
          content,    \* history: the bytes the packet must hold
          copied,     \* history: the bytes the copy must hold
          returned,      \* clusters given back to the heap
          spoiled,    \* history: an operation lost or misplaced bytes
          bufOps

mbufVars == <<chain, pktlen, copy, content, copied, returned, spoiled, bufOps>>

NoCluster == 0
(* A buffer: its cluster, its own count of the cluster's users, the free   *)
(* bytes in front, the data.                                               *)
Buffer(c, lead, d) == [ext |-> c, rc |-> 1, lead |-> lead, d |-> d]
Flat(ch) == FlattenSeq([k \in DOMAIN ch |-> ch[k].d])
Before(ch, k) == Len(Flat(SubSeq(ch, 1, k - 1)))
Room(b) == IF b.ext = NoCluster THEN MLEN ELSE MCLBYTES
Max0(n) == IF n < 0 THEN 0 ELSE n
Least(a, b) == IF a < b THEN a ELSE b
Clusters(ch) == {ch[k].ext : k \in DOMAIN ch} \ {NoCluster}
Spare == 1..4 \ (Clusters(chain) \cup Clusters(copy) \cup returned)

MbufInit ==
  /\ chain = <<>> /\ copy = <<>> /\ content = <<>> /\ copied = <<>>
  /\ pktlen = 0 /\ returned = {} /\ spoiled = FALSE /\ bufOps = 0

(* m_devget: the bytes of a received frame, off bytes into the first       *)
(* buffer.                                                                 *)
RECURSIVE Gather(_, _, _, _)
Gather(bytes, off, first, next) ==
  IF bytes = <<>> THEN <<>>
  ELSE LET tot == Len(bytes)
           big == tot + off >= MINCLSIZE
           lead == off + IF ~big /\ first /\ tot + off + max_linkhdr <= MLEN
                         THEN max_linkhdr ELSE 0
           n == Least(tot, (IF big THEN MCLBYTES ELSE MLEN) - lead)
       IN  <<Buffer(IF big THEN next ELSE NoCluster, lead, SubSeq(bytes, 1, n))>>
           \o Gather(SubSeq(bytes, n + 1, tot), 0, FALSE, IF big THEN next + 1 ELSE next)

Devget(totlen, off) ==
  /\ chain = <<>> /\ copy = <<>> /\ bufOps = 0
  /\ content' = [k \in 1..totlen |-> k]
  /\ chain' = Gather(content', off, TRUE, 1)
  /\ pktlen' = totlen
  /\ bufOps' = 1
  /\ UNCHANGED <<copy, copied, returned, spoiled>>

(* m_adj with a count that is not negative: trim the head. *)
AdjHead(ch, n) ==
  [k \in DOMAIN ch |->
     LET cut == Least(Len(ch[k].d), Max0(n - Before(ch, k)))
     IN  [ch[k] EXCEPT !.d = SubSeq(@, cut + 1, Len(@)),
                       !.lead = IF cut = Len(ch[k].d) THEN @ ELSE @ + cut]]

(* A slip: the last byte to go is kept. *)
AdjTail_one(ch, n) ==
  LET keep == Max0(Len(Flat(ch)) - n + 1)
  IN  [k \in DOMAIN ch |->
         [ch[k] EXCEPT !.d = SubSeq(@, 1, Least(Len(@), Max0(keep - Before(ch, k))))]]

(* m_adj with a negative count: find the length that stays, cut there. *)
AdjTail(ch, n) ==
  LET keep == Max0(Len(Flat(ch)) - n)
  IN  [k \in DOMAIN ch |->
         [ch[k] EXCEPT !.d = SubSeq(@, 1, Least(Len(@), Max0(keep - Before(ch, k))))]]

Adj(n, tail) ==
  /\ chain # <<>>
  /\ LET total == Len(content)
         gone == Least(n, total)
     IN  IF tail
         THEN /\ chain' = AdjTail(chain, n)
              /\ content' = SubSeq(content, 1, total - gone)
              /\ pktlen' = IF Len(Last(chain).d) >= n THEN pktlen - n
                           ELSE Max0(Len(Flat(chain)) - n)
         ELSE /\ chain' = AdjHead(chain, n)
              /\ content' = SubSeq(content, gone + 1, total)
              /\ pktlen' = pktlen - Least(n, Len(Flat(chain)))
  /\ UNCHANGED <<copy, copied, returned, spoiled>>

(* m_freem drops every buffer of a list: the cluster goes when the count   *)
(* in THIS buffer reaches zero.                                            *)
Dropped(ch) == {ch[k].ext : k \in {j \in DOMAIN ch : ch[j].rc = 1}} \ {NoCluster}

(* m_pullup: make the first n bytes contiguous.  When a later buffer is    *)
(* used up, m_freem frees it with all that follow it.                      *)
Pullup(n) ==
  /\ chain # <<>> /\ n <= Len(content)
  /\ LET h == chain[1]
         keeps == Len(chain) > 1 /\ h.lead + n < Room(h) /\ (h.ext # NoCluster => n > MLEN)
         m == IF keeps THEN h
              ELSE Buffer(IF n > MLEN /\ Spare # {} THEN Min(Spare) ELSE NoCluster, 0, <<>>)
         rest == IF keeps THEN Tail(chain) ELSE chain
         need == n - Len(m.d)
         n0 == rest[1]
         moved == [m EXCEPT !.d = @ \o SubSeq(n0.d, 1, need)]
         left == [n0 EXCEPT !.d = SubSeq(@, need + 1, Len(@)), !.lead = @ + need]
     IN  IF keeps /\ Len(h.d) >= n
         THEN UNCHANGED <<chain, pktlen, content, returned, spoiled>>
         ELSE IF Len(n0.d) > need
         THEN /\ chain' = <<moved, left>> \o Tail(rest)
              /\ UNCHANGED <<pktlen, content, returned, spoiled>>
         ELSE IF Len(n0.d) = need
                 THEN /\ chain' = <<moved>> /\ returned' = returned \cup Dropped(rest)
                      /\ spoiled' = (spoiled \/ Flat(Tail(rest)) # <<>>)
                      /\ UNCHANGED <<pktlen, content>>
                 ELSE /\ chain' = <<>> /\ returned' = returned \cup Dropped(rest) \cup Dropped(<<m>>)
                      /\ content' = <<>> /\ pktlen' = 0
                      /\ spoiled' = spoiled
  /\ UNCHANGED <<copy, copied>>

(* m_prepend: bytes 101.. go in front, into the leading space or into a    *)
(* new buffer.                                                             *)
Prepend(n) ==
  /\ chain # <<>>
  /\ LET new == [k \in 1..n |-> 100 + k]
         h == chain[1]
     IN  /\ IF h.lead >= n
            THEN /\ chain' = <<[h EXCEPT !.lead = @ - n, !.d = new \o @]>> \o Tail(chain)
            ELSE /\ chain' = <<Buffer(NoCluster, MLEN - n, new)>> \o chain
         /\ content' = new \o content
  /\ pktlen' = pktlen + n
  /\ UNCHANGED <<copy, copied, returned, spoiled>>

(* m_getptr: the buffer and the place in it of byte off (the first that    *)
(* holds it, or the end of the last).                                      *)
Getptr(ch, off) ==
  LET in == {k \in DOMAIN ch : Before(ch, k) + Len(ch[k].d) > off}
      k == IF in = {} THEN Len(ch) ELSE Min(in)
  IN  <<k, off - Before(ch, k)>>

(* m_copym, the shallow copy: small buffers are copied; a cluster is       *)
(* shared, from its start whatever the offset, and counted in the buffer   *)
(* that is copied.                                                         *)
Copied(ch, off, len) ==
  LET p == Getptr(ch, off)
      Piece(k) ==
        LET o == IF k = p[1] THEN p[2] ELSE 0
            at == IF ch[k].ext = NoCluster THEN o ELSE 0
            n == Least(off + len - Before(ch, k) - o, Len(ch[k].d) - o)
        IN  [ch[k] EXCEPT !.d = SubSeq(@, at + 1, at + n)]
      used == {k \in p[1]..Len(ch) : Before(ch, k) < off + len}
  IN  [k \in 1..Cardinality(used) |-> Piece(p[1] + k - 1)]

Copym(off, len) ==
  /\ chain # <<>> /\ copy = <<>> /\ len > 0 /\ off + len <= Len(Flat(chain))
  /\ copy' = Copied(chain, off, len)
  /\ copied' = SubSeq(content, off + 1, off + len)
  /\ LET p == Getptr(chain, off)
         used == p[1]..p[1] + Len(copy') - 1
     IN  /\ chain' = [k \in DOMAIN chain |->
                        IF k \in used /\ chain[k].ext # NoCluster
                        THEN [chain[k] EXCEPT !.rc = @ + 1] ELSE chain[k]]
         /\ spoiled' = (spoiled \/ (chain[p[1]].ext # NoCluster /\ p[2] > 0))
  /\ UNCHANGED <<pktlen, content, returned>>

(* m_freem of the packet, and of the copy. *)
FreePacket ==
  /\ chain # <<>>
  /\ returned' = returned \cup Dropped(chain)
  /\ chain' = <<>> /\ content' = <<>> /\ pktlen' = 0
  /\ UNCHANGED <<copy, copied, spoiled>>

FreeCopy ==
  /\ copy # <<>>
  /\ returned' = returned \cup Dropped(copy)
  /\ copy' = <<>> /\ copied' = <<>>
  /\ spoiled' = (spoiled \/ Clusters(copy) \cap Clusters(chain) # {})
  /\ UNCHANGED <<chain, content, pktlen>>

(* m_copydata: the scan stops at the first buffer that off reaches; from a *)
(* cluster it takes the bytes at its start.                                *)
ScanTo(ch, off) == Min({k \in DOMAIN ch : off \in Before(ch, k)..Before(ch, k) + Len(ch[k].d) - 1
                                          \/ off = Before(ch, k) \/ k = Len(ch)})
Copydata(ch, off, len) ==
  LET k == ScanTo(ch, off)
  IN  IF ch[k].ext # NoCluster THEN SubSeq(ch[k].d, 1, len)
      ELSE SubSeq(Flat(ch), off + 1, off + len)

BufStep ==
  \/ \E n \in 1..MaxPacket, tail \in BOOLEAN : Adj(n, tail)
  \/ \E n \in 1..MLEN + 1 : Pullup(n) \/ (n <= MLEN /\ Prepend(n))
  \/ \E off \in 0..MaxPacket, len \in 1..MaxPacket : Copym(off, len)
  \/ FreePacket
  \/ FreeCopy

MbufNext ==
  \/ \E n \in 1..MaxPacket, off \in 0..1 : Devget(n, off)
  \/ bufOps \in 1..MaxBufOps /\ BufStep /\ bufOps' = bufOps + 1

MbufSpec == MbufInit /\ [][MbufNext]_mbufVars
-----------------------------------------------------------------------------
(* Trimming, pulling up, prepending and copying in any order keep the      *)
(* bytes: the packet and the copy hold what they must, m_pkthdr.len is the *)
(* length, m_copydata reads the right bytes of small buffers and of        *)
(* clusters from their start, and no buffer points to a returned cluster.  *)
(* Not covered: after m_pullup used up a buffer with others behind it, a   *)
(* copy began inside a cluster, or the copy was returned before the packet.*)
ChainHolds ==
  ~spoiled =>
    /\ Flat(chain) = content /\ Flat(copy) = copied /\ pktlen = Len(content)
    /\ (Clusters(chain) \cup Clusters(copy)) \cap returned = {}
    /\ \A off, len \in 0..Len(content) :
         (/\ chain # <<>> /\ off + len <= Len(content)
          /\ LET k == ScanTo(chain, off)
             IN  chain[k].ext = NoCluster
                 \/ (off = Before(chain, k) /\ len <= Len(chain[k].d)))
         => Copydata(chain, off, len) = SubSeq(content, off + 1, off + len)

MbufSound == ~spoiled
=============================================================================
