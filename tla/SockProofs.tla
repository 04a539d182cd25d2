----------------------------- MODULE SockProofs -----------------------------
(***************************************************************************)
(* Sockets: sosend hands down what it is given, for buffers of any size;   *)
(* and the protocol control blocks of any sockets stay listed, with ports  *)
(* of their own.                                                           *)
(***************************************************************************)
EXTENDS Sockets, Pcb, NatLemmas, TLAPS

(* Sending: the pieces that sosend makes (net/uipc_socket.c). *)
(* The sums that Total goes through. *)
Sums(u, s) ==
  /\ u \in [0..Len(s) -> Nat]
  /\ u[0] = 0
  /\ \A k \in 1..Len(s) : u[k] = u[k - 1] + s[k]

(* Total adds up the lengths from the first to the last. *)
LEMMA TotalIs ==
  ASSUME NEW s \in Seq(Nat)
  PROVE  \E u : Sums(u, s) /\ Total(s) = u[Len(s)]
<1> DEFINE Upto[k \in 0..Len(s)] == IF k = 0 THEN 0 ELSE Upto[k - 1] + s[k]
           G == [x \in Nat \X Nat |-> x[2] + (IF x[1] \in 1..Len(s) THEN s[x[1]] ELSE 0)]
<1>1. Len(s) \in Nat /\ \A k \in 1..Len(s) : s[k] \in Nat
  OBVIOUS
<1>2. G \in [Nat \X Nat -> Nat] /\ \A k \in Nat, v \in Nat :
        G[<<k, v>>] = v + (IF k \in 1..Len(s) THEN s[k] ELSE 0)
  BY <1>1
<1>3. PICK f \in [0..Len(s) -> Nat] : Follows(f, Len(s), 0, G)
  <2> HIDE DEF G, Upto
  <2>1. 0 \in Nat
    BY Zenon
  <2> QED BY <1>1, <1>2, <2>1, Iterates, Zenon
<1>4. \A k \in 0..Len(s) : k # 0 => k - 1 \in 0..Len(s) /\ k \in Nat /\ k \in 1..Len(s)
  BY <1>1
<1>5. \A k \in 0..Len(s) : f[k] = IF k = 0 THEN 0 ELSE f[k - 1] + s[k]
  <2> HIDE DEF G, Upto
  <2>1. \A k \in 0..Len(s) : k # 0 => G[<<k, f[k - 1]>>] = f[k - 1] + s[k]
    BY <1>2, <1>4, Zenon
  <2> QED BY <2>1, <1>3, <1>4, Zenon DEF Follows
<1>6. f = [k \in 0..Len(s) |-> IF k = 0 THEN 0 ELSE f[k - 1] + s[k]]
  <2> HIDE DEF G, Upto
  <2>1. DOMAIN f = 0..Len(s)
    BY Zenon
  <2> QED BY <2>1, <1>5, Zenon
<1>7. Upto = [k \in 0..Len(s) |-> IF k = 0 THEN 0 ELSE Upto[k - 1] + s[k]]
  <2> HIDE DEF G
  <2> QED BY <1>6, Zenon
<1>8. Total(s) = Upto[Len(s)]
  BY Zenon DEF Total
<1> HIDE DEF Upto, G
<1> DEFINE S == {k \in Nat : Upto[k] \in Nat}
<1>9. 0 \in 0..Len(s) /\ Upto[0] = 0
  BY <1>1, <1>7
<1>10. \A k \in 1..Len(s) : Upto[k] = Upto[k - 1] + s[k]
  <2>1. \A k \in 1..Len(s) : k \in 0..Len(s) /\ k # 0
    BY <1>1
  <2> QED BY <2>1, <1>7, Zenon
<1>11. ASSUME NEW k \in Nat, k \in S, k < Len(s) PROVE k + 1 \in S
  <2>1. k + 1 \in 1..Len(s) /\ (k + 1) - 1 = k /\ k + 1 \in Nat /\ s[k + 1] \in Nat
    BY <1>1, <1>11
  <2>2. Upto[k + 1] = Upto[k] + s[k + 1]
    BY <2>1, <1>10, Zenon
  <2>3. Upto[k] \in Nat
    BY <1>11, Zenon
  <2>4. Upto[k + 1] \in Nat
    BY <2>1, <2>2, <2>3
  <2> QED BY <2>1, <2>4, Zenon
<1>12. 0 \in S
  BY <1>9
<1>13. \A k \in 0..Len(s) : k \in S
  <2> HIDE DEF S
  <2> QED BY <1>1, <1>11, <1>12, InductTo, Zenon
<1>14. Upto \in [0..Len(s) -> Nat]
  <2>1. \A k \in 0..Len(s) : Upto[k] \in Nat
    BY <1>13, Zenon
  <2> QED BY <2>1, <1>7, Zenon
<1>15. Sums(Upto, s)
  BY <1>9, <1>10, <1>14, Zenon DEF Sums
<1> QED BY <1>8, <1>15, Zenon

(* No buffers hold no bytes. *)
LEMMA TotalEmpty == Total(<<>>) = 0
<1>1. PICK u : Sums(u, <<>>) /\ Total(<<>>) = u[Len(<<>>)]
  <2>1. <<>> \in Seq(Nat)
    OBVIOUS
  <2> QED BY <2>1, TotalIs, Zenon
<1>2. Len(<<>>) = 0
  BY Zenon
<1> QED BY <1>1, <1>2, Zenon DEF Sums

(* One more buffer adds its bytes. *)
LEMMA TotalAppend ==
  ASSUME NEW s \in Seq(Nat), NEW x \in Nat
  PROVE  Total(s) \in Nat /\ Total(Append(s, x)) = Total(s) + x
<1> DEFINE t == Append(s, x)
<1>1. /\ t \in Seq(Nat) /\ Len(s) \in Nat /\ Len(t) = Len(s) + 1 /\ t[Len(s) + 1] = x
      /\ \A k \in 1..Len(s) : t[k] = s[k] /\ s[k] \in Nat
  OBVIOUS
<1> HIDE DEF t
<1>2. PICK u : Sums(u, s) /\ Total(s) = u[Len(s)]
  BY TotalIs, Zenon
<1>3. PICK w : Sums(w, t) /\ Total(t) = w[Len(t)]
  BY <1>1, TotalIs, Zenon
<1> DEFINE S == {k \in Nat : w[k] = u[k]}
<1>4. 0 \in S
  BY <1>2, <1>3, Zenon DEF Sums
<1>5. ASSUME NEW k \in Nat, k \in S, k < Len(s) PROVE k + 1 \in S
  <2>1. k + 1 \in 1..Len(s) /\ k + 1 \in 1..Len(t) /\ (k + 1) - 1 = k /\ k + 1 \in Nat
    BY <1>1, <1>5
  <2>2. u[k + 1] = u[k] + s[k + 1] /\ w[k + 1] = w[k] + t[k + 1]
    BY <2>1, <1>2, <1>3, Zenon DEF Sums
  <2>3. w[k] = u[k] /\ t[k + 1] = s[k + 1]
    BY <2>1, <1>1, <1>5, Zenon
  <2> QED BY <2>1, <2>2, <2>3, Zenon
<1>6. Len(s) \in S
  <2> HIDE DEF S
  <2>1. \A k \in 0..Len(s) : k \in S
    BY <1>1, <1>4, <1>5, InductTo, Zenon
  <2> QED BY <2>1, <1>1
<1>7. w[Len(s)] = u[Len(s)]
  BY <1>6, Zenon
<1>8. Len(t) \in 1..Len(t) /\ Len(t) - 1 = Len(s) /\ Len(s) \in 0..Len(s)
  BY <1>1
<1>9. w[Len(t)] = w[Len(s)] + t[Len(t)]
  BY <1>3, <1>8, Zenon DEF Sums
<1>10. u[Len(s)] \in Nat
  BY <1>2, <1>8, Zenon DEF Sums
<1> QED BY <1>1, <1>2, <1>3, <1>7, <1>9, <1>10, Zenon DEF t

(* sbreserve never gives more than sb_max. *)
LEMMA ReserveFits ==
  ASSUME NEW n \in Nat, CanReserve(n)
  PROVE  n <= sb_max
<1>1. sb_max \in Nat /\ MSize \in Nat /\ MClBytes \in Nat \ {0}
  BY SendAssumption, Zenon
<1> DEFINE d == MSize + MClBytes
           a == sb_max * MClBytes
<1>2. d \in Nat \ {0} /\ a \in Nat
  BY <1>1
<1>3. n <= a \div d
  BY Zenon DEF CanReserve
<1>4. a \div d \in Nat /\ (a \div d) * d <= a
  BY <1>2
<1>5. n * d <= (a \div d) * d
  BY <1>2, <1>3, <1>4
<1>6. n * d <= a /\ n * d \in Nat
  BY <1>2, <1>4, <1>5
<1>7. n * MClBytes <= n * d
  BY <1>1
<1>8. n * MClBytes <= sb_max * MClBytes
  BY <1>1, <1>2, <1>6, <1>7
<1> QED BY <1>1, <1>8

(* A buffer never takes more bytes than are left, nor more room than there *)
(* is; a first cluster takes max_hdr more room than it holds.              *)
SendTypes ==
  /\ hiwat \in Nat /\ mbmax \in Nat /\ hiwat <= mbmax
  /\ resid \in Nat /\ space \in Nat /\ size \in Nat
  /\ top \in Seq(Nat) /\ sent \in Seq(Nat)
  /\ fails \in BOOLEAN

SendInv ==
  /\ SendTypes
  /\ spc \in {"idle", "fill", "send", "done"}
  /\ spc # "idle" => Total(sent) + Total(top) + resid = size
  /\ spc = "done" => (fails \/ resid = 0) /\ top = <<>>
  /\ spc # "idle" /\ size + max_hdr <= hiwat =>
       /\ spc \in {"fill", "send"} => sent = <<>>
       /\ spc = "fill" => resid + (IF top = <<>> THEN max_hdr ELSE 0) <= space
       /\ spc = "send" => resid = 0
       /\ spc = "done" => Len(sent) = 1

(* soreserve leaves sb_mbmax at least sb_hiwat. *)
LEMMA SendStarts == SockSendInit => SendInv
<1> SUFFICES ASSUME SockSendInit PROVE SendInv
  BY Zenon
<1>1. hiwat \in Nat /\ CanReserve(hiwat) /\ sb_max \in Nat
  BY SendAssumption, Zenon DEF SockSendInit
<1>2. hiwat <= sb_max
  BY <1>1, ReserveFits, Zenon
<1>3. mbmax = (IF hiwat * 2 < sb_max THEN hiwat * 2 ELSE sb_max)
  BY Zenon DEF SockSendInit, Smaller
<1>4. mbmax \in Nat /\ hiwat <= mbmax
  BY <1>1, <1>2, <1>3
<1>5. <<>> \in Seq(Nat) /\ 0 \in Nat
  OBVIOUS
<1>6. /\ spc = "idle" /\ size = 0 /\ resid = 0 /\ space = 0 /\ top = <<>> /\ sent = <<>>
      /\ fails \in BOOLEAN
  BY Zenon DEF SockSendInit
<1>7. SendTypes
  BY <1>1, <1>4, <1>5, <1>6, Zenon DEF SendTypes
<1> QED BY <1>6, <1>7, Zenon DEF SendInv

(* A call starts with all of its bytes and the whole space. *)
LEMMA BySosend ==
  ASSUME SendInv, NEW n \in SendSizes, Sosend(n)
  PROVE  SendInv'
<1>1. /\ n <= hiwat /\ size' = n /\ resid' = n /\ sent' = <<>> /\ top' = <<>> /\ fails' = FALSE
      /\ space' = Smaller(hiwat, mbmax) /\ spc' = "fill" /\ hiwat' = hiwat /\ mbmax' = mbmax
  BY Zenon DEF Sosend
<1>2. hiwat \in Nat /\ mbmax \in Nat /\ hiwat <= mbmax /\ n \in Nat /\ max_hdr \in Nat
  BY SendAssumption, Zenon DEF SendInv, SendTypes
<1>3. space' = hiwat
  BY <1>1, <1>2 DEF Smaller
<1>4. <<>> \in Seq(Nat)
  OBVIOUS
<1>5. SendTypes'
  BY <1>1, <1>2, <1>3, <1>4, Zenon DEF SendTypes
<1>6. Total(sent') + Total(top') + resid' = size'
  BY <1>1, <1>2, TotalEmpty
<1>7. size' + max_hdr <= hiwat' => resid' + max_hdr <= space'
  BY <1>1, <1>3, Zenon
<1> QED BY <1>1, <1>5, <1>6, <1>7, Zenon DEF SendInv

(* A buffer takes bytes from those left and room from the space. *)
LEMMA ByFill ==
  ASSUME SendInv, Fill
  PROVE  SendInv'
<1> DEFINE big == resid >= MinClSize /\ space >= MClBytes
           first == top = <<>>
           len == IF big THEN Smaller(IF first THEN MClBytes - max_hdr ELSE MClBytes, resid)
                  ELSE Smaller(Smaller(IF first THEN MHLen ELSE MLen, resid), space)
<1>1. /\ spc = "fill"
      /\ space' = space - (IF big THEN MClBytes ELSE len)
      /\ top' = Append(top, len)
      /\ resid' = resid - len
      /\ spc' = (IF resid' > 0 /\ space' > 0 THEN "fill" ELSE "send")
      /\ hiwat' = hiwat /\ mbmax' = mbmax /\ size' = size /\ sent' = sent /\ fails' = fails
  BY Zenon DEF Fill
<1>2. /\ MLen \in Nat /\ MHLen \in Nat /\ MinClSize \in Nat /\ max_hdr \in Nat
      /\ MClBytes \in Nat \ {0} /\ max_hdr <= MClBytes
  BY SendAssumption, Zenon
<1>3. /\ SendTypes
      /\ Total(sent) + Total(top) + resid = size
      /\ size + max_hdr <= hiwat =>
           sent = <<>> /\ resid + (IF top = <<>> THEN max_hdr ELSE 0) <= space
  BY <1>1, Zenon DEF SendInv
<1>4. resid \in Nat /\ space \in Nat /\ size \in Nat /\ hiwat \in Nat
  BY <1>3, Zenon DEF SendTypes
<1>5. /\ len \in Nat /\ len <= resid
      /\ big => len <= MClBytes
      /\ big /\ first => len <= MClBytes - max_hdr /\ (len = MClBytes - max_hdr \/ len = resid)
      /\ big /\ ~first => len = MClBytes \/ len = resid
      /\ ~big => len <= space
  BY <1>2, <1>4 DEF Smaller
<1> HIDE DEF len
<1>6. space' \in Nat /\ resid' \in Nat
  BY <1>1, <1>2, <1>4, <1>5
<1>7. size + max_hdr <= hiwat => resid' <= space' \/ resid' = 0
  BY <1>1, <1>2, <1>3, <1>4, <1>5
<1>8. /\ top' \in Seq(Nat) /\ top' # <<>>
  <2>1. top \in Seq(Nat)
    BY <1>3, Zenon DEF SendTypes
  <2> QED BY <2>1, <1>1, <1>5
<1>9. Total(sent') + Total(top') + resid' = size'
  <2>1. top \in Seq(Nat) /\ sent \in Seq(Nat) /\ 0 \in Nat
    BY <1>3, Zenon DEF SendTypes
  <2>2. Total(top) \in Nat /\ Total(top') = Total(top) + len /\ Total(sent) \in Nat
    BY <2>1, <1>1, <1>5, TotalAppend, Zenon
  <2> QED BY <2>2, <1>1, <1>3, <1>4, <1>5
<1>10. SendTypes'
  BY <1>1, <1>3, <1>6, <1>8, Zenon DEF SendTypes
<1>11. spc' = "send" /\ size + max_hdr <= hiwat => resid' = 0
  BY <1>1, <1>6, <1>7
<1>12. spc' = "fill" => resid' > 0
  BY <1>1, Zenon
<1> HIDE DEF big, first
<1> QED BY <1>1, <1>3, <1>6, <1>7, <1>8, <1>9, <1>10, <1>11, <1>12 DEF SendInv

(* A chain that goes down takes its bytes along. *)
LEMMA ByHandDown ==
  ASSUME SendInv, NEW err \in BOOLEAN, HandDown(err)
  PROVE  SendInv'
<1>1. /\ spc = "send"
      /\ sent' = Append(sent, Total(top)) /\ top' = <<>> /\ fails' = err
      /\ IF err \/ resid = 0 THEN spc' = "done" /\ space' = space
         ELSE spc' = "fill" /\ space' = IF space > 0 THEN space ELSE Smaller(hiwat, mbmax)
      /\ hiwat' = hiwat /\ mbmax' = mbmax /\ resid' = resid /\ size' = size
  BY Zenon DEF HandDown
<1>2. /\ SendTypes
      /\ Total(sent) + Total(top) + resid = size
      /\ size + max_hdr <= hiwat => sent = <<>> /\ resid = 0
  BY <1>1, Zenon DEF SendInv
<1>3. /\ hiwat \in Nat /\ mbmax \in Nat /\ resid \in Nat /\ space \in Nat /\ size \in Nat
      /\ top \in Seq(Nat) /\ sent \in Seq(Nat) /\ hiwat <= mbmax
  BY <1>2, Zenon DEF SendTypes
<1>4. Total(top) \in Nat /\ Total(sent) \in Nat /\ Total(sent') = Total(sent) + Total(top)
  <2>1. 0 \in Nat
    BY Zenon
  <2>2. Total(top) \in Nat /\ Total(sent) \in Nat
    BY <2>1, <1>3, TotalAppend, Zenon
  <2> QED BY <2>2, <1>1, <1>3, TotalAppend, Zenon
<1>5. space' \in Nat
  BY <1>1, <1>3, Zenon DEF Smaller
<1>6. sent' \in Seq(Nat) /\ top' \in Seq(Nat) /\ (sent = <<>> => Len(sent') = 1)
  BY <1>1, <1>3, <1>4
<1>7. SendTypes'
  BY <1>1, <1>2, <1>5, <1>6, Zenon DEF SendTypes
<1>8. Total(sent') + Total(top') + resid' = size'
  BY <1>1, <1>2, <1>3, <1>4, TotalEmpty
<1>9. spc' \in {"fill", "done"} /\ (spc' = "fill" => resid # 0) /\ (spc' = "done" => fails' \/ resid' = 0)
  BY <1>1, Zenon
<1> QED BY <1>1, <1>2, <1>6, <1>7, <1>8, <1>9, Zenon DEF SendInv

(* For any sizes of buffers and send spaces. sosend hands down every byte  *)
(* once, and a datagram that leaves room for the headers in one piece.     *)
THEOREM SendsWhole == SockSendSpec => []SentWhole
<1>1. SockSendInit => SendInv
  BY SendStarts, Zenon
<1>2. SendInv /\ [SockSendNext]_sendVars => SendInv'
  <2> SUFFICES ASSUME SendInv, [SockSendNext]_sendVars PROVE SendInv'
    BY Zenon
  <2>1. CASE UNCHANGED sendVars
    BY <2>1, Zenon DEF sendVars, SendInv, SendTypes
  <2>2. CASE Return
    <3>1. /\ spc' = "idle" /\ size' = 0 /\ resid' = 0 /\ space' = 0 /\ sent' = <<>> /\ fails' = FALSE
          /\ hiwat' = hiwat /\ mbmax' = mbmax /\ top' = top
      BY <2>2, Zenon DEF Return
    <3>2. <<>> \in Seq(Nat) /\ 0 \in Nat
      OBVIOUS
    <3>3. SendTypes'
      BY <3>1, <3>2, Zenon DEF SendInv, SendTypes
    <3> QED BY <3>1, <3>3, Zenon DEF SendInv
  <2> QED BY <2>1, <2>2, BySosend, ByFill, ByHandDown, Zenon DEF SockSendNext
<1>3. SendInv => SentWhole
  <2> SUFFICES ASSUME SendInv, spc = "done", ~fails
               PROVE  Total(sent) = size /\ (size + max_hdr <= hiwat => Len(sent) = 1)
    BY Zenon DEF SentWhole
  <2>1. Total(sent) + Total(<<>>) + 0 = size
    BY Zenon DEF SendInv
  <2>2. Total(sent) \in Nat
    <3>1. sent \in Seq(Nat) /\ 0 \in Nat
      BY Zenon DEF SendInv, SendTypes
    <3> QED BY <3>1, TotalAppend, Zenon
  <2> QED BY <2>1, <2>2, TotalEmpty DEF SendInv
<1> QED BY <1>1, <1>2, <1>3, PTL DEF SockSendSpec
-----------------------------------------------------------------------------
(* Protocol control blocks (net/in_pcb.c, udp_usrreq.c, tcp_usrreq.c). *)
(* What a protocol control block holds. *)
Port == 0..PortMod - 1
Addr == {AnyAddr, Self, Junk} \cup Remote

SockRec ==
  [st : {"none", "open", "nofd"}, type : Type, pcb : BOOLEAN, tstate : {"CLOSED", "LISTEN"},
   accepts : BOOLEAN, lport : Port, laddr : Addr, faddr : Addr, fport : Nat, error : BOOLEAN]

(* The types of the variables. *)
PcbTypes ==
  /\ sock \in [Sock -> SockRec]
  /\ pcbs \in [Type -> Seq(Sock)]
  /\ lastport \in [Type -> Port]
  /\ cache \in [Type -> Sock \cup {"head", Nobody}]
  /\ sending \in [Sock -> Addr \cup {Idle}]

(* The lists are exactly the blocks, each once, of sockets in use. *)
BlocksListed ==
  /\ \A t \in Type :
       /\ IsInjective(pcbs[t])
       /\ \A s \in Sock : s \in Range(pcbs[t]) <=> sock[s].pcb /\ sock[s].type = t
       /\ cache[t] \in Range(pcbs[t]) \cup {"head", Nobody}
  /\ \A s \in Sock : sock[s].st # "nofd" /\ (sock[s].pcb => sock[s].st = "open")

(* The ports of the sockets s and q. *)
PortKept(s) == sock[s].pcb => sock[s].lport \notin (Reserved + 1)..UserReserved
PortApart(s, q) ==
  s # q /\ sock[s].pcb /\ sock[q].pcb /\ sock[s].type = sock[q].type /\ sock[s].lport # 0
    => sock[s].lport # sock[q].lport

(* A local address that the search for a port would not match is there     *)
(* only while its socket is inside a sendto.                               *)
AddrKnown(s) ==
  /\ sock[s].pcb /\ sock[s].type = "udp" =>
       sock[s].laddr = AnyAddr \/ (sock[s].laddr = Self /\ sending[s] # Idle)
  /\ sock[s].pcb /\ sock[s].type = "tcp" => sock[s].laddr \in {AnyAddr, Junk}
  /\ sending[s] # Idle =>
       sending[s] = AnyAddr /\ sock[s].pcb /\ sock[s].type = "udp" /\ sock[s].st = "open"

(* What holds until a socket changes under a sendto. *)
PcbGood ==
  /\ PcbTypes /\ BlocksListed
  /\ \A s \in Sock : PortKept(s) /\ AddrKnown(s)
  /\ \A s, q \in Sock : PortApart(s, q)

PcbInv == pcbRaced \in BOOLEAN /\ (~pcbRaced => PcbGood)

(* in_pcblookup returns a block that fits, if one does. *)
Fits(sk, list, faddr, fport, laddr, lport, wild) ==
  {i \in DOMAIN list :
     LET w == Wildcards(sk[list[i]], faddr, fport, laddr, lport) IN w = 0 \/ (wild /\ w > 0)}

(* The block that the search returns is one of those. *)
LookupOk(sk, list, faddr, fport, laddr, lport, wild) ==
  LET fit == Fits(sk, list, faddr, fport, laddr, lport, wild)
      l == Lookup(sk, list, faddr, fport, laddr, lport, wild)
  IN  (fit = {} /\ l = Nobody) \/ \E i \in fit : l = list[i]

(* in_pcblookup picks one of the blocks that fit, or none if none does. *)
LEMMA LookupIs ==
  ASSUME NEW sk, NEW list \in Seq(Sock), NEW faddr, NEW fport, NEW laddr, NEW lport,
         NEW wild \in BOOLEAN
  PROVE  LookupOk(sk, list, faddr, fport, laddr, lport, wild)
<1> DEFINE W(i) == Wildcards(sk[list[i]], faddr, fport, laddr, lport)
           fit == {i \in DOMAIN list : W(i) = 0 \/ (wild /\ W(i) > 0)}
           best == {i \in fit : \A j \in fit : W(i) <= W(j)}
           l == Lookup(sk, list, faddr, fport, laddr, lport, wild)
<1>1. l = IF fit = {} THEN Nobody ELSE list[CHOOSE i \in best : \A j \in best : i <= j]
  BY Zenon DEF Lookup
<1>2. \A i : W(i) \in {-1, 0, 1, 2}
  BY DEF Wildcards
<1>3. DOMAIN list \subseteq Nat
  OBVIOUS
<1> HIDE DEF W, l
<1>4. ASSUME fit # {} PROVE \E i \in fit : l = list[i]
  <2>1. best # {}
    <3>1. CASE \E i \in fit : W(i) = -1
      BY <3>1, <1>2
    <3>2. CASE (\A i \in fit : W(i) # -1) /\ \E i \in fit : W(i) = 0
      BY <3>2, <1>2
    <3>3. CASE (\A i \in fit : W(i) # -1 /\ W(i) # 0) /\ \E i \in fit : W(i) = 1
      BY <3>3, <1>2
    <3>4. CASE \A i \in fit : W(i) # -1 /\ W(i) # 0 /\ W(i) # 1
      BY <3>4, <1>2, <1>4
    <3> QED BY <3>1, <3>2, <3>3, <3>4, Zenon
  <2>2. best \subseteq Nat /\ best \subseteq fit
    BY <1>3, Zenon
  <2> HIDE DEF best, fit
  <2>3. \E i \in best : \A j \in best : i <= j
    BY <2>1, <2>2, Least, Zenon
  <2> DEFINE m == CHOOSE i \in best : \A j \in best : i <= j
  <2>4. m \in best
    BY <2>3, Zenon
  <2>5. l = list[m]
    BY <1>1, <1>4, Zenon
  <2> QED BY <2>2, <2>4, <2>5, Zenon
<1>5. fit = {} => l = Nobody
  BY <1>1, Zenon
<1>6. fit = Fits(sk, list, faddr, fport, laddr, lport, wild)
  BY Zenon DEF Fits, W
<1> QED BY <1>4, <1>5, <1>6, Zenon DEF l, LookupOk

(* in_pcblookup returns a block of the list it searches. *)
LEMMA LookupListed ==
  ASSUME NEW sk, NEW list \in Seq(Sock), NEW faddr, NEW fport, NEW laddr, NEW lport,
         NEW wild \in BOOLEAN, Lookup(sk, list, faddr, fport, laddr, lport, wild) # Nobody
  PROVE  Lookup(sk, list, faddr, fport, laddr, lport, wild) \in Range(list)
<1> DEFINE fit == Fits(sk, list, faddr, fport, laddr, lport, wild)
           l == Lookup(sk, list, faddr, fport, laddr, lport, wild)
<1>0. LookupOk(sk, list, faddr, fport, laddr, lport, wild)
  BY LookupIs, Zenon
<1> HIDE DEF fit
<1>1. PICK i \in fit : l = list[i]
  BY <1>0, Zenon DEF LookupOk, fit
<1>2. i \in DOMAIN list
  BY <1>1, Zenon DEF Fits, fit
<1> QED BY <1>1, <1>2, Zenon DEF Range

(* A port that the search accepts is not the port of a block whose local   *)
(* address is unset or the one asked for.                                  *)
LEMMA LookupFree ==
  ASSUME NEW sk, NEW list \in Seq(Sock), NEW lport, NEW x \in Range(list),
         Lookup(sk, list, AnyAddr, 0, Junk, lport, TRUE) = Nobody,
         sk[x].laddr \in {AnyAddr, Junk}
  PROVE  sk[x].lport # lport
<1> DEFINE W(i) == Wildcards(sk[list[i]], AnyAddr, 0, Junk, lport)
           fit == Fits(sk, list, AnyAddr, 0, Junk, lport, TRUE)
<1>1. PICK i \in DOMAIN list : list[i] = x
  BY Zenon DEF Range
<1>2. \A k \in DOMAIN list : list[k] \in Sock
  OBVIOUS
<1>3. fit = {}
  <2>1. TRUE \in BOOLEAN
    BY Zenon
  <2>2. fit = {} \/ \E k \in fit : Nobody = list[k]
    <3>1. LookupOk(sk, list, AnyAddr, 0, Junk, lport, TRUE)
      BY <2>1, LookupIs, Zenon
    <3> QED BY <3>1, Zenon DEF LookupOk
  <2>3. \A k \in fit : k \in DOMAIN list
    BY Zenon DEF Fits
  <2> QED BY <2>2, <2>3, <1>2, PcbAssumption, Zenon
<1>4. ~(W(i) = 0 \/ W(i) > 0)
  BY <1>3, Zenon DEF Fits
<1>5. Wildcards(sk[x], AnyAddr, 0, Junk, lport) = -1
  BY <1>1, <1>4 DEF Wildcards
<1> QED BY <1>5 DEF Wildcards

(* The search for a port. *)
Tried == Port \X Port \X BOOLEAN

(* The loop of in_pcbbind stops at a port that in_pcblookup does not find. *)
LEMMA FreePortIs ==
  ASSUME NEW sk, NEW t \in Type, NEW s, lastport[t] \in Port,
         sk[s].laddr = Junk, t = "udp" \/ ~sk[s].accepts,
         FreePort(sk, t, s)[3]
  PROVE  /\ FreePort(sk, t, s)[1] \in Port /\ FreePort(sk, t, s)[2] \in Port
         /\ FreePort(sk, t, s)[2] \notin (Reserved + 1)..UserReserved
         /\ Lookup(sk, pcbs[t], AnyAddr, 0, Junk, FreePort(sk, t, s)[2], TRUE) = Nobody
<1> DEFINE wild == t = "udp" \/ ~sk[s].accepts
           N == 2 * PortMod
           start == <<lastport[t], 0, FALSE>>
           C(p) == (p[1] + 1) % PortMod
           P(p) == IF p[1] < Reserved \/ C(p) > UserReserved THEN C(p) ELSE p[2]
           Go(p) == IF p[3] THEN p
                    ELSE <<C(p), P(p), Lookup(sk, pcbs[t], AnyAddr, 0, sk[s].laddr, P(p), wild) = Nobody>>
           Step[k \in 0..2 * PortMod] ==
             IF k = 0 THEN <<lastport[t], 0, FALSE>>
             ELSE LET p == Step[k - 1]
                      c == (p[1] + 1) % PortMod
                      port == IF p[1] < Reserved \/ c > UserReserved THEN c ELSE p[2]
                  IN  IF p[3] THEN p
                      ELSE <<c, port, Lookup(sk, pcbs[t], AnyAddr, 0, sk[s].laddr, port, wild) = Nobody>>
           G == [x \in Nat \X Tried |-> Go(x[2])]
           Free(n) == Lookup(sk, pcbs[t], AnyAddr, 0, sk[s].laddr, n, wild) = Nobody
           Ok == {p \in Tried : /\ p[2] \notin (Reserved + 1)..UserReserved
                                /\ p[3] => Free(p[2])}
<1>1. N \in Nat /\ PortMod \in Nat \ {0} /\ Reserved \in Nat /\ UserReserved \in Nat /\ 0 \in Port
  BY PcbAssumption DEF Port
<1>2. start \in Tried
  BY <1>1, Zenon DEF Tried
<1>3. ASSUME NEW p \in Tried PROVE C(p) \in Port /\ P(p) \in Port
  <2>1. p[1] \in Port /\ p[2] \in Port
    BY Zenon DEF Tried
  <2>2. C(p) \in Port
    BY <1>1, <2>1 DEF Port
  <2> QED BY <2>1, <2>2, Zenon
<1>4. ASSUME NEW p \in Tried PROVE Go(p) \in Tried
  <2> HIDE DEF C, P
  <2>1. CASE p[3]
    BY <2>1, Zenon
  <2>2. CASE ~p[3]
    <3>1. Go(p) = <<C(p), P(p), Free(P(p))>>
      BY <2>2, Zenon
    <3>2. Free(P(p)) \in BOOLEAN
      BY Zenon
    <3> HIDE DEF Free, Go
    <3> QED BY <3>1, <3>2, <1>3 DEF Tried
  <2> QED BY <2>1, <2>2, Zenon
<1>5. G \in [Nat \X Tried -> Tried] /\ \A k \in Nat, p \in Tried : G[<<k, p>>] = Go(p)
  <2> HIDE DEF Go
  <2>1. \A x \in Nat \X Tried : x[2] \in Tried
    BY Zenon
  <2> QED BY <2>1, <1>4, Zenon
<1>6. PICK f \in [0..N -> Tried] : Follows(f, N, start, G)
  <2> HIDE DEF G, Step, N, start
  <2> QED BY <1>1, <1>2, <1>5, Iterates, Zenon
<1>7. \A k \in 0..N : k # 0 => k - 1 \in 0..N /\ k \in Nat /\ k \in 1..N
  BY <1>1
<1>8. \A k \in 0..N : f[k] = IF k = 0 THEN start ELSE Go(f[k - 1])
  <2> HIDE DEF G, Step, N, start, Go
  <2>1. \A k \in 0..N : k # 0 => G[<<k, f[k - 1]>>] = Go(f[k - 1])
    BY <1>5, <1>7, Zenon
  <2> QED BY <2>1, <1>6, <1>7, Zenon DEF Follows
<1>9. f = [k \in 0..N |-> IF k = 0 THEN start ELSE Go(f[k - 1])]
  <2> HIDE DEF G, Step, N, start, Go
  <2>1. DOMAIN f = 0..N
    BY Zenon
  <2> QED BY <2>1, <1>8, Zenon
<1>10. Step = [k \in 0..N |-> IF k = 0 THEN start ELSE Go(Step[k - 1])]
  <2> HIDE DEF G
  <2> QED BY <1>9, Zenon
<1>11. FreePort(sk, t, s) = Step[N]
  BY Zenon DEF FreePort
<1> HIDE DEF Step, G
<1> DEFINE S == {k \in Nat : Step[k] \in Ok}
<1>12. 0 \in S
  <2>1. Step[0] = start /\ 0 \in 0..N
    <3> HIDE DEF start, Go
    <3>1. 0 \in 0..N
      BY <1>1
    <3> QED BY <3>1, <1>10, Zenon
  <2>2. start \in Ok
    <3>1. start[2] = 0 /\ start[3] = FALSE /\ 0 \notin (Reserved + 1)..UserReserved
      BY <1>1
    <3> HIDE DEF Free, start
    <3> QED BY <1>2, <3>1, Zenon
  <2> QED BY <2>1, <2>2, Zenon
<1>13. ASSUME NEW p \in Ok PROVE Go(p) \in Ok
  <2>1. CASE p[3]
    BY <2>1, Zenon
  <2>2. CASE ~p[3]
    <3> DEFINE g == Go(p)
    <3>1. Go(p) = <<C(p), P(p), Free(P(p))>>
      BY <2>2, Zenon
    <3>2. Free(P(p)) \in BOOLEAN
      BY Zenon
    <3>3. P(p) \notin (Reserved + 1)..UserReserved
      <4>1. p[1] \in Port /\ p[2] \notin (Reserved + 1)..UserReserved
        BY <1>13, Zenon DEF Tried
      <4>2. p[1] < Reserved => C(p) \notin (Reserved + 1)..UserReserved
        <5>0. p[1] \in Nat /\ p[1] < PortMod
          BY <1>1, <4>1 DEF Port
        <5>1. p[1] \in Nat /\ (p[1] + 1) % PortMod <= p[1] + 1
          <6>1. CASE p[1] + 1 = PortMod
            BY <5>0, <6>1, <1>1
          <6>2. CASE p[1] + 1 < PortMod
            BY <5>0, <6>2, <1>1
          <6> QED BY <5>0, <6>1, <6>2, <1>1
        <5> QED BY <5>1, <1>1
      <4>3. C(p) > UserReserved => C(p) \notin (Reserved + 1)..UserReserved
        BY <1>1
      <4> HIDE DEF C
      <4> QED BY <4>1, <4>2, <4>3, Zenon
    <3>4. Go(p) \in Tried
      BY <1>4, <1>13, Zenon
    <3>5. /\ Go(p)[2] = P(p) /\ Go(p)[3] = Free(P(p))
      <4> HIDE DEF Free, Go, P, C
      <4> QED BY <3>1
    <3> HIDE DEF Free, Go, P, C
    <3> QED BY <3>3, <3>4, <3>5, Zenon
  <2> QED BY <2>1, <2>2, Zenon
<1>14. ASSUME NEW k \in Nat, k \in S, k < N PROVE k + 1 \in S
  <2>1. k + 1 \in 0..N /\ k + 1 # 0 /\ (k + 1) - 1 = k /\ k + 1 \in Nat
    BY <1>1, <1>14
  <2>2. Step[k + 1] = Go(Step[k])
    <3> HIDE DEF Go, start, N
    <3> QED BY <2>1, <1>10, Zenon
  <2>3. Step[k] \in Ok
    BY <1>14, Zenon
  <2> HIDE DEF Go, Ok
  <2> QED BY <2>1, <2>2, <2>3, <1>13, Zenon
<1>15. Step[N] \in Ok
  <2> HIDE DEF S, Ok
  <2>1. \A k \in 0..N : k \in S
    <3> HIDE DEF N
    <3> QED BY <1>1, <1>12, <1>14, InductTo, Zenon
  <2>2. N \in 0..N
    BY <1>1
  <2> QED BY <2>1, <2>2, Zenon DEF S
<1> DEFINE r == FreePort(sk, t, s)
<1>16. r \in Tried /\ r[2] \notin (Reserved + 1)..UserReserved /\ Free(r[2])
  <2> HIDE DEF Free
  <2> QED BY <1>11, <1>15, Zenon
<1>17. wild = TRUE
  BY Zenon
<1> HIDE DEF r
<1>18. r[1] \in Port /\ r[2] \in Port
  BY <1>16, Zenon DEF Tried
<1> QED BY <1>16, <1>17, <1>18, Zenon DEF r

(* The search meets every other block of the list; and its outcome. *)
Seen(t, s) ==
  \A q \in Sock \ {s} : sock[q].pcb /\ sock[q].type = t => sock[q].laddr \in {AnyAddr, Junk}
GetsPort(t, s, n) ==
  /\ Bound(sock, t, s).sk = [sock EXCEPT ![s] = [sock[s] EXCEPT !.laddr = Junk, !.lport = n]]
  /\ Bound(sock, t, s).port \in Port
  /\ n # 0 /\ n \notin (Reserved + 1)..UserReserved
  /\ \A q \in Sock \ {s} : sock[q].pcb /\ sock[q].type = t => sock[q].lport # n

(* in_pcbbind gives the socket s a port that is not 0, that no other block *)
(* of its list has and that is outside of the range for explicit binds,    *)
(* unless the local address of another block is set.                       *)
LEMMA BoundIs ==
  ASSUME PcbGood, NEW t \in Type, NEW s \in Sock, sock[s].pcb, sock[s].type = t,
         sock[s].lport = 0, t = "udp" \/ ~sock[s].accepts, Bound(sock, t, s).found,
         Seen(t, s)
  PROVE  \E n \in Port : GetsPort(t, s, n)
<1> DEFINE sk1 == [sock EXCEPT ![s].laddr = Junk]
           p == FreePort(sk1, t, s)
           n == p[2]
<1>1. /\ Bound(sock, t, s).sk = [sk1 EXCEPT ![s].lport = n] /\ Bound(sock, t, s).port = p[1]
      /\ p[3]
  <2> HIDE DEF sk1
  <2>1. Bound(sock, t, s) = [sk |-> [sk1 EXCEPT ![s].lport = n], port |-> p[1], found |-> p[3]]
    BY Zenon DEF Bound, sk1
  <2> HIDE DEF p
  <2> QED BY <2>1
<1>2. /\ sock \in [Sock -> SockRec] /\ pcbs[t] \in Seq(Sock) /\ lastport[t] \in Port
      /\ \A x \in Sock : x \in Range(pcbs[t]) <=> sock[x].pcb /\ sock[x].type = t
  BY Zenon DEF PcbGood, PcbTypes, BlocksListed
<1>3. /\ sk1[s].laddr = Junk /\ sk1[s].lport = 0 /\ sk1[s].accepts = sock[s].accepts
      /\ \A q \in Sock \ {s} : sk1[q] = sock[q]
  BY <1>2, Zenon DEF SockRec
<1>4. [sk1 EXCEPT ![s].lport = n] = [sock EXCEPT ![s] = [sock[s] EXCEPT !.laddr = Junk, !.lport = n]]
  <2> HIDE DEF p
  <2> QED BY <1>2, Zenon DEF SockRec
<1> HIDE DEF sk1
<1>5. /\ p[1] \in Port /\ n \in Port /\ n \notin (Reserved + 1)..UserReserved
      /\ Lookup(sk1, pcbs[t], AnyAddr, 0, Junk, n, TRUE) = Nobody
  <2>1. t = "udp" \/ ~sk1[s].accepts
    BY <1>3, Zenon
  <2>2. FreePort(sk1, t, s)[3]
    BY <1>1, Zenon
  <2>3. sk1[s].laddr = Junk /\ lastport[t] \in Port
    BY <1>2, <1>3, Zenon
  <2>4. /\ FreePort(sk1, t, s)[1] \in Port /\ FreePort(sk1, t, s)[2] \in Port
        /\ FreePort(sk1, t, s)[2] \notin (Reserved + 1)..UserReserved
        /\ Lookup(sk1, pcbs[t], AnyAddr, 0, Junk, FreePort(sk1, t, s)[2], TRUE) = Nobody
    BY <2>1, <2>2, <2>3, FreePortIs, Zenon
  <2> QED BY <2>4, Zenon
<1> HIDE DEF p, n
<1>6. n # 0
  <2>1. s \in Range(pcbs[t]) /\ sk1[s].laddr \in {AnyAddr, Junk}
    BY <1>2, <1>3, Zenon
  <2>2. sk1[s].lport # n
    BY <2>1, <1>2, <1>5, LookupFree, Zenon
  <2> QED BY <2>2, <1>3, Zenon
<1>7. ASSUME NEW q \in Sock \ {s}, sock[q].pcb, sock[q].type = t PROVE sock[q].lport # n
  <2>1. q \in Range(pcbs[t]) /\ sk1[q].laddr \in {AnyAddr, Junk} /\ sk1[q] = sock[q]
    BY <1>2, <1>3, <1>7, Zenon DEF Seen
  <2>2. sk1[q].lport # n
    <3>1. q \in Range(pcbs[t]) /\ sk1[q].laddr \in {AnyAddr, Junk}
      BY <2>1, Zenon
    <3>2. pcbs[t] \in Seq(Sock) /\ Lookup(sk1, pcbs[t], AnyAddr, 0, Junk, n, TRUE) = Nobody
      BY <1>2, <1>5, Zenon
    <3> QED BY <3>1, <3>2, LookupFree, Zenon
  <2> QED BY <2>1, <2>2, Zenon
<1> QED BY <1>1, <1>4, <1>5, <1>6, <1>7, Zenon DEF GetsPort

(* Lists: a block put in front, and a block taken out. *)
LEMMA FrontIs ==
  ASSUME NEW l \in Seq(Sock), NEW s \in Sock, IsInjective(l), s \notin Range(l)
  PROVE  /\ <<s>> \o l \in Seq(Sock) /\ IsInjective(<<s>> \o l)
         /\ \A x : x \in Range(<<s>> \o l) <=> x = s \/ x \in Range(l)
<1> DEFINE m == <<s>> \o l
<1>1. /\ m \in Seq(Sock) /\ Len(m) = Len(l) + 1 /\ Len(l) \in Nat /\ m[1] = s
      /\ \A i \in 2..Len(l) + 1 : m[i] = l[i - 1]
      /\ DOMAIN m = 1..Len(m) /\ DOMAIN l = 1..Len(l)
  OBVIOUS
<1> HIDE DEF m
<1>2. /\ \A i \in 1..Len(m) : i = 1 \/ (i \in 2..Len(l) + 1 /\ i - 1 \in 1..Len(l))
      /\ \A i \in 1..Len(l) : i + 1 \in 2..Len(l) + 1 /\ i + 1 \in 1..Len(m) /\ (i + 1) - 1 = i
      /\ 1 \in 1..Len(m)
  BY <1>1
<1>3. \A x : x \in Range(m) <=> x = s \/ x \in Range(l)
  <2>1. ASSUME NEW x, x \in Range(m) PROVE x = s \/ x \in Range(l)
    <3>1. PICK i \in 1..Len(m) : m[i] = x
      BY <2>1, <1>1, Zenon DEF Range
    <3>2. CASE i = 1
      BY <3>1, <3>2, <1>1, Zenon
    <3>3. CASE i # 1
      <4>1. m[i] = l[i - 1] /\ i - 1 \in 1..Len(l)
        BY <3>3, <1>1, <1>2, Zenon
      <4> QED BY <3>1, <4>1, <1>1, Zenon DEF Range
    <3> QED BY <3>2, <3>3, Zenon
  <2>2. ASSUME NEW x, x \in Range(l) PROVE x \in Range(m)
    <3>1. PICK i \in 1..Len(l) : l[i] = x
      BY <2>2, <1>1, Zenon DEF Range
    <3>2. m[i + 1] = x /\ i + 1 \in 1..Len(m)
      BY <3>1, <1>1, <1>2, Zenon
    <3> QED BY <3>2, <1>1, Zenon DEF Range
  <2>3. s \in Range(m)
    BY <1>1, <1>2, Zenon DEF Range
  <2> QED BY <2>1, <2>2, <2>3, Zenon
<1>4. IsInjective(m)
  <2>1. \A i \in 1..Len(l) : l[i] # s
    BY <1>1, Zenon DEF Range
  <2>2. \A i, j \in 1..Len(l) : l[i] = l[j] => i = j
    BY <1>1, Zenon DEF IsInjective
  <2>3. ASSUME NEW i \in 1..Len(m), NEW j \in 1..Len(m), m[i] = m[j] PROVE i = j
    <3>1. CASE i = 1 \/ j = 1
      BY <2>1, <2>3, <3>1, <1>1, <1>2, Zenon
    <3>2. CASE i # 1 /\ j # 1
      <4>1. i - 1 \in 1..Len(l) /\ j - 1 \in 1..Len(l) /\ l[i - 1] = l[j - 1]
        BY <2>3, <3>2, <1>1, <1>2, Zenon
      <4>2. i - 1 = j - 1
        BY <4>1, <2>2, Zenon
      <4> QED BY <4>2, <1>1
    <3> QED BY <3>1, <3>2, Zenon
  <2> QED BY <2>3, <1>1, Zenon DEF IsInjective
<1> QED BY <1>1, <1>3, <1>4, Zenon DEF m

(* remque: the other blocks stay, in their order. *)
LEMMA WithoutIs ==
  ASSUME NEW l \in Seq(Sock), NEW s \in Sock, IsInjective(l)
  PROVE  /\ Without(l, s) \in Seq(Sock) /\ IsInjective(Without(l, s))
         /\ \A x : x \in Range(Without(l, s)) <=> x # s /\ x \in Range(l)
<1>1. CASE s \notin Range(l)
  <2>1. Without(l, s) = l
    BY <1>1, Zenon DEF Without
  <2> QED BY <2>1, <1>1, Zenon
<1>2. CASE s \in Range(l)
  <2> DEFINE k == CHOOSE k \in DOMAIN l : l[k] = s
             J(i) == IF i < k THEN i ELSE i + 1
             m == Without(l, s)
  <2>1. k \in DOMAIN l /\ l[k] = s
    BY <1>2, Zenon DEF Range
  <2>2. m = [i \in 1..Len(l) - 1 |-> l[J(i)]]
    BY <1>2, Zenon DEF Without
  <2> HIDE DEF k, m
  <2>3. /\ Len(l) \in Nat /\ DOMAIN l = 1..Len(l) /\ k \in 1..Len(l)
        /\ \A i \in 1..Len(l) : l[i] \in Sock
    BY <2>1
  <2>4. /\ \A i \in 1..Len(l) - 1 : J(i) \in 1..Len(l) /\ J(i) # k
        /\ \A i, j \in 1..Len(l) - 1 : J(i) = J(j) => i = j
        /\ \A i \in 1..Len(l) : i # k => \E j \in 1..Len(l) - 1 : J(j) = i
    <3>1. \A i \in 1..Len(l) - 1 : J(i) \in 1..Len(l) /\ J(i) # k
      BY <2>3
    <3>2. \A i, j \in 1..Len(l) - 1 : J(i) = J(j) => i = j
      BY <2>3
    <3>3. ASSUME NEW i \in 1..Len(l), i # k PROVE \E j \in 1..Len(l) - 1 : J(j) = i
      <4>1. CASE i < k
        <5>1. i \in 1..Len(l) - 1 /\ J(i) = i
          BY <4>1, <2>3
        <5> QED BY <5>1, Zenon
      <4>2. CASE i > k
        <5>1. i - 1 \in 1..Len(l) - 1 /\ J(i - 1) = i
          BY <4>2, <2>3
        <5> QED BY <5>1, Zenon
      <4> QED BY <4>1, <4>2, <3>3, <2>3
    <3> QED BY <3>1, <3>2, <3>3, Zenon
  <2> HIDE DEF J
  <2>5. m \in Seq(Sock) /\ DOMAIN m = 1..Len(l) - 1
    <3>1. m \in [1..Len(l) - 1 -> Sock] /\ Len(l) - 1 \in Nat
      BY <2>2, <2>3, <2>4
    <3>2. DOMAIN m = 1..Len(l) - 1
      BY <2>2, Zenon
    <3> QED BY <3>1, <3>2
  <2>6. \A i \in 1..Len(l) - 1 : m[i] = l[J(i)]
    BY <2>2, Zenon
  <2>7. \A i, j \in 1..Len(l) : l[i] = l[j] => i = j
    BY <2>3, Zenon DEF IsInjective
  <2>8. IsInjective(m)
    <3>1. ASSUME NEW i \in 1..Len(l) - 1, NEW j \in 1..Len(l) - 1, m[i] = m[j] PROVE i = j
      <4>1. l[J(i)] = l[J(j)]
        BY <3>1, <2>6, Zenon
      <4>2. J(i) = J(j)
        BY <4>1, <2>4, <2>7, Zenon
      <4> QED BY <4>2, <2>4, Zenon
    <3> QED BY <3>1, <2>5, Zenon DEF IsInjective
  <2>9. ASSUME NEW x PROVE x \in Range(m) <=> x # s /\ x \in Range(l)
    <3>1. ASSUME x \in Range(m) PROVE x # s /\ x \in Range(l)
      <4>1. PICK i \in 1..Len(l) - 1 : x = l[J(i)]
        BY <3>1, <2>5, <2>6, Zenon DEF Range
      <4> QED BY <4>1, <2>1, <2>3, <2>4, <2>7, Zenon DEF Range
    <3>2. ASSUME x # s, x \in Range(l) PROVE x \in Range(m)
      <4>1. PICK i \in 1..Len(l) : l[i] = x
        BY <3>2, <2>3, Zenon DEF Range
      <4>2. PICK j \in 1..Len(l) - 1 : J(j) = i
        BY <4>1, <3>2, <2>1, <2>4, Zenon
      <4> QED BY <4>1, <4>2, <2>5, <2>6, Zenon DEF Range
    <3> QED BY <3>1, <3>2, Zenon
  <2> QED BY <2>5, <2>8, <2>9, Zenon DEF m
<1> QED BY <1>1, <1>2, Zenon

(* A step that changes one socket s to k. *)
Become(s, k) ==
  /\ k \in SockRec
  /\ sock' = [sock EXCEPT ![s] = k]
  /\ k.pcb => /\ k.lport \notin (Reserved + 1)..UserReserved
              /\ \A q \in Sock \ {s} :
                   sock[q].pcb /\ sock[q].type = k.type /\ k.lport # 0 => sock[q].lport # k.lport

(* Such a step keeps all, if the lists and the ports of s are right. *)
LEMMA BecomeKeeps ==
  ASSUME PcbGood, NEW s \in Sock, NEW k, Become(s, k),
         pcbs' \in [Type -> Seq(Sock)], lastport' \in [Type -> Port],
         cache' \in [Type -> Sock \cup {"head", Nobody}],
         sending' \in [Sock -> Addr \cup {Idle}], \A q \in Sock \ {s} : sending'[q] = sending[q],
         BlocksListed', AddrKnown(s)'
  PROVE  PcbGood'
<1>1. sock \in [Sock -> SockRec]
  BY Zenon DEF PcbGood, PcbTypes
<1>2. /\ sock' \in [Sock -> SockRec] /\ sock'[s] = k /\ \A q \in Sock \ {s} : sock'[q] = sock[q]
  BY <1>1, Zenon DEF Become
<1>3. PcbTypes'
  BY <1>2, Zenon DEF PcbTypes
<1>4. ASSUME NEW q \in Sock PROVE PortKept(q)' /\ AddrKnown(q)'
  <2>1. CASE q = s
    BY <2>1, <1>2, Zenon DEF PortKept, Become
  <2>2. CASE q # s
    <3>1. sock'[q] = sock[q] /\ sending'[q] = sending[q] /\ PortKept(q) /\ AddrKnown(q)
      BY <2>2, <1>2, Zenon DEF PcbGood
    <3> QED BY <3>1, Zenon DEF PortKept, AddrKnown
  <2> QED BY <2>1, <2>2, Zenon
<1>5. ASSUME NEW a \in Sock, NEW b \in Sock PROVE PortApart(a, b)'
  <2>1. CASE a # s /\ b # s
    <3>1. sock'[a] = sock[a] /\ sock'[b] = sock[b] /\ PortApart(a, b)
      BY <2>1, <1>2, Zenon DEF PcbGood
    <3> QED BY <3>1, Zenon DEF PortApart
  <2>2. CASE a = s /\ b # s
    <3>1. sock'[a] = k /\ sock'[b] = sock[b] /\ b \in Sock \ {s}
      BY <2>2, <1>2, Zenon
    <3> QED BY <3>1, Zenon DEF PortApart, Become
  <2>3. CASE a # s /\ b = s
    <3>1. sock'[b] = k /\ sock'[a] = sock[a] /\ a \in Sock \ {s}
      BY <2>3, <1>2, Zenon
    <3> QED BY <3>1, Zenon DEF PortApart, Become
  <2>4. CASE a = s /\ b = s
    BY <2>4, Zenon DEF PortApart
  <2> QED BY <2>1, <2>2, <2>3, <2>4, Zenon
<1> QED BY <1>3, <1>4, <1>5, Zenon DEF PcbGood

(* The lists stay right when the blocks stay what they are. *)
LEMMA SameBlocks ==
  ASSUME PcbGood, NEW s \in Sock, NEW k, Become(s, k), pcbs' = pcbs,
         \A t \in Type : cache'[t] \in Range(pcbs[t]) \cup {"head", Nobody},
         k.pcb = sock[s].pcb, k.pcb => k.type = sock[s].type /\ k.st = "open", k.st # "nofd"
  PROVE  BlocksListed'
<1>1. BlocksListed /\ sock \in [Sock -> SockRec]
  BY Zenon DEF PcbGood, PcbTypes
<1>2. sock'[s] = k /\ \A q \in Sock \ {s} : sock'[q] = sock[q]
  BY <1>1, Zenon DEF Become
<1>3. ASSUME NEW q \in Sock
      PROVE  /\ sock'[q].st # "nofd" /\ (sock'[q].pcb => sock'[q].st = "open")
             /\ \A t \in Type : (sock'[q].pcb /\ sock'[q].type = t) <=> (sock[q].pcb /\ sock[q].type = t)
  <2>1. CASE q = s
    BY <2>1, <1>2, Zenon
  <2>2. CASE q # s
    <3>1. sock'[q] = sock[q]
      BY <2>2, <1>2, Zenon
    <3> QED BY <3>1, <1>1, Zenon DEF BlocksListed
  <2> QED BY <2>1, <2>2, Zenon
<1>4. ASSUME NEW t \in Type
      PROVE  /\ IsInjective(pcbs'[t])
             /\ \A q \in Sock : (q \in Range(pcbs'[t])) <=> (sock'[q].pcb /\ sock'[q].type = t)
             /\ cache'[t] \in Range(pcbs'[t]) \cup {"head", Nobody}
  <2>1. /\ IsInjective(pcbs[t])
        /\ \A q \in Sock : (q \in Range(pcbs[t])) <=> (sock[q].pcb /\ sock[q].type = t)
    BY <1>1, Zenon DEF BlocksListed
  <2>2. pcbs'[t] = pcbs[t] /\ cache'[t] \in Range(pcbs[t]) \cup {"head", Nobody}
    BY Zenon
  <2>3. ASSUME NEW q \in Sock
        PROVE  (q \in Range(pcbs'[t])) <=> (sock'[q].pcb /\ sock'[q].type = t)
    BY <2>1, <2>2, <1>3, Zenon
  <2> QED BY <2>1, <2>2, <2>3, Zenon
<1> QED BY <1>3, <1>4, Zenon DEF BlocksListed

(* What a step finds. *)
LEMMA Facts ==
  ASSUME PcbGood
  PROVE  /\ sock \in [Sock -> SockRec] /\ pcbs \in [Type -> Seq(Sock)]
         /\ lastport \in [Type -> Port] /\ cache \in [Type -> Sock \cup {"head", Nobody}]
         /\ sending \in [Sock -> Addr \cup {Idle}]
         /\ \A t \in Type : cache[t] \in Range(pcbs[t]) \cup {"head", Nobody}
         /\ \A s \in Sock : PortKept(s) /\ AddrKnown(s) /\ sock[s] \in SockRec
         /\ \A s, q \in Sock : PortApart(s, q)
         /\ 0 \in Port /\ 0 \notin (Reserved + 1)..UserReserved
<1>1. 0 \in Port /\ 0 \notin (Reserved + 1)..UserReserved
  BY PcbAssumption DEF Port
<1> QED BY <1>1, Zenon DEF PcbGood, PcbTypes, BlocksListed

(* A socket that is not in use has no block. *)
LEMMA UnusedIs ==
  /\ Unused \in SockRec /\ Unused.st = "none" /\ Unused.pcb = FALSE
  /\ Unused.lport = 0 /\ Unused.laddr = AnyAddr /\ Unused.type = "udp"
<1>1. 0 \in Port
  BY PcbAssumption DEF Port
<1> QED BY <1>1, Zenon DEF Unused, SockRec, Addr, Type

(* socreate puts a block without a port in front of its list. *)
LEMMA BySocreate ==
  ASSUME PcbGood, NEW s \in Sock, NEW t \in Type, Socreate(s, t)
  PROVE  PcbGood'
<1> DEFINE k == [Unused EXCEPT !.st = "open", !.type = t, !.pcb = TRUE]
<1>1. /\ sock[s].st = "none" /\ sock' = [sock EXCEPT ![s] = k]
      /\ pcbs' = [pcbs EXCEPT ![t] = <<s>> \o @]
      /\ lastport' = lastport /\ cache' = cache /\ sending' = sending
  BY Zenon DEF Socreate
<1>2. k \in SockRec /\ k.st = "open" /\ k.type = t /\ k.pcb = TRUE /\ k.lport = 0 /\ k.laddr = AnyAddr
  BY UnusedIs, Zenon DEF SockRec, Unused
<1> HIDE DEF k
<1>3. Become(s, k)
  BY <1>1, <1>2, Facts, Zenon DEF Become
<1>4. /\ sock \in [Sock -> SockRec] /\ pcbs \in [Type -> Seq(Sock)] /\ BlocksListed
  BY Zenon DEF PcbGood, PcbTypes
<1>5. sock'[s] = k /\ \A q \in Sock \ {s} : sock'[q] = sock[q]
  BY <1>1, <1>4, Zenon
<1>6. sock[s].pcb = FALSE
  <2>1. sock[s].pcb \in BOOLEAN
    BY <1>4, Zenon DEF SockRec
  <2>2. "none" # "open"
    BY Zenon
  <2> QED BY <2>1, <2>2, <1>1, <1>4, Zenon DEF BlocksListed
<1>7. \A u \in Type : s \notin Range(pcbs[u]) /\ IsInjective(pcbs[u]) /\ pcbs[u] \in Seq(Sock)
  BY <1>4, <1>6, Zenon DEF BlocksListed
<1> DEFINE m == <<s>> \o pcbs[t]
<1>8. m \in Seq(Sock) /\ IsInjective(m) /\ \A x : x \in Range(m) <=> x = s \/ x \in Range(pcbs[t])
  BY <1>7, FrontIs, Zenon
<1>9. pcbs'[t] = m /\ \A u \in Type : u # t => pcbs'[u] = pcbs[u]
  BY <1>1, <1>4, Zenon
<1>10. pcbs' \in [Type -> Seq(Sock)]
  BY <1>1, <1>4, <1>8, Zenon
<1> HIDE DEF m
<1>11. ASSUME NEW u \in Type
       PROVE  /\ IsInjective(pcbs'[u])
              /\ \A q \in Sock : (q \in Range(pcbs'[u])) <=> (sock'[q].pcb /\ sock'[q].type = u)
              /\ cache'[u] \in Range(pcbs'[u]) \cup {"head", Nobody}
  <2>1. /\ \A q \in Sock : (q \in Range(pcbs[u])) <=> (sock[q].pcb /\ sock[q].type = u)
        /\ cache[u] \in Range(pcbs[u]) \cup {"head", Nobody}
    BY <1>4, Zenon DEF BlocksListed
  <2>2. CASE u = t
    <3>1. pcbs'[u] = m /\ \A x : x \in Range(m) <=> x = s \/ x \in Range(pcbs[u])
      BY <2>2, <1>8, <1>9, Zenon
    <3>2. ASSUME NEW q \in Sock
          PROVE  (q \in Range(m)) <=> (sock'[q].pcb /\ sock'[q].type = u)
      <4>1. CASE q = s
        BY <4>1, <3>1, <2>2, <1>2, <1>5, Zenon
      <4>2. CASE q # s
        BY <4>2, <3>1, <2>1, <1>5, Zenon
      <4> QED BY <4>1, <4>2, Zenon
    <3> QED BY <3>1, <3>2, <2>1, <1>1, <1>8, Zenon
  <2>3. CASE u # t
    <3>1. pcbs'[u] = pcbs[u]
      BY <2>3, <1>9, Zenon
    <3>2. ASSUME NEW q \in Sock
          PROVE  (q \in Range(pcbs[u])) <=> (sock'[q].pcb /\ sock'[q].type = u)
      <4>1. CASE q = s
        BY <4>1, <2>3, <1>2, <1>5, <1>7, Zenon
      <4>2. CASE q # s
        BY <4>2, <2>1, <1>5, Zenon
      <4> QED BY <4>1, <4>2, Zenon
    <3> QED BY <3>1, <3>2, <2>1, <1>1, <1>7, Zenon
  <2> QED BY <2>2, <2>3, Zenon
<1>12. ASSUME NEW q \in Sock PROVE sock'[q].st # "nofd" /\ (sock'[q].pcb => sock'[q].st = "open")
  <2>1. CASE q = s
    BY <2>1, <1>2, <1>5, Zenon
  <2>2. CASE q # s
    BY <2>2, <1>4, <1>5, Zenon DEF BlocksListed
  <2> QED BY <2>1, <2>2, Zenon
<1>13. BlocksListed'
  BY <1>11, <1>12, Zenon DEF BlocksListed
<1>14. AddrKnown(s)'
  <2>1. AddrKnown(s)
    BY Facts, Zenon
  <2>2. sending[s] = Idle
    BY <2>1, <1>6, Zenon DEF AddrKnown
  <2> QED BY <2>2, <1>1, <1>2, <1>5, Zenon DEF AddrKnown
<1>15. /\ lastport' \in [Type -> Port] /\ cache' \in [Type -> Sock \cup {"head", Nobody}]
       /\ sending' \in [Sock -> Addr \cup {Idle}] /\ \A q \in Sock \ {s} : sending'[q] = sending[q]
  BY <1>1, Facts, Zenon
<1> QED BY <1>3, <1>10, <1>13, <1>14, <1>15, BecomeKeeps, Zenon

(* udp_detach and tcp_close take out one block. *)
LEMMA DropKeeps ==
  ASSUME PcbGood, NEW s \in Sock, NEW sk \in [Sock -> SockRec], sock[s].pcb, sending[s] = Idle,
         \A q \in Sock \ {s} : sk[q] = sock[q],
         sk[s].type = sock[s].type, sk[s].st \in {"open", "nofd"}, Drop(sk, s),
         lastport' = lastport, sending' = sending
  PROVE  PcbGood'
<1> DEFINE t == sock[s].type
           k == IF sk[s].st = "nofd" THEN Unused ELSE [sk[s] EXCEPT !.pcb = FALSE]
           d == Detached(sk, s)
           c == IF cache[t] = s THEN "head" ELSE cache[t]
           sk1 == [sk EXCEPT ![s].pcb = FALSE]
<1>1. /\ sock \in [Sock -> SockRec] /\ pcbs \in [Type -> Seq(Sock)] /\ BlocksListed
      /\ cache \in [Type -> Sock \cup {"head", Nobody}]
  BY Zenon DEF PcbGood, PcbTypes
<1>2. t \in Type
  BY <1>1, Zenon DEF SockRec
<1>3. /\ sock' = d.sk
      /\ cache' = [cache EXCEPT ![t] = d.cache]
      /\ pcbs' = [pcbs EXCEPT ![t] = Without(@, s)]
  BY Zenon DEF Drop
<1>4. d.sk = Freed(sk1, s) /\ d.cache = c
  <2>1. d = [sk |-> Freed(sk1, s), cache |-> c]
    BY Zenon DEF Detached
  <2> HIDE DEF d, c, sk1
  <2> QED BY <2>1, Zenon
<1>5. sk1[s] = [sk[s] EXCEPT !.pcb = FALSE] /\ sk1 \in [Sock -> SockRec]
      /\ \A q \in Sock \ {s} : sk1[q] = sock[q]
  <2> DEFINE e == [sk[s] EXCEPT !.pcb = FALSE]
  <2>1. e \in SockRec
    BY Zenon DEF SockRec
  <2>2. sk1 = [sk EXCEPT ![s] = e]
    BY Zenon
  <2> HIDE DEF e, sk1
  <2> QED BY <2>1, <2>2, Zenon DEF e
<1>6. sk1[s].st = sk[s].st /\ ~sk1[s].pcb
  BY <1>5, Zenon DEF SockRec
<1> HIDE DEF sk1
<1>7. Freed(sk1, s) = [sk1 EXCEPT ![s] = k]
  <2>1. CASE sk[s].st = "nofd"
    BY <2>1, <1>6, Zenon DEF Freed
  <2>2. CASE sk[s].st # "nofd"
    <3>1. Freed(sk1, s) = sk1 /\ k = sk1[s]
      BY <2>2, <1>5, <1>6, Zenon DEF Freed
    <3> HIDE DEF k
    <3> QED BY <3>1, <1>5, Zenon
  <2> QED BY <2>1, <2>2, Zenon
<1>8. /\ k \in SockRec /\ k.pcb = FALSE /\ k.st \in {"none", "open"}
  <2>1. CASE sk[s].st = "nofd"
    BY <2>1, UnusedIs, Zenon
  <2>2. CASE sk[s].st # "nofd"
    <3>1. k = sk1[s] /\ sk1[s].st = "open"
      BY <2>2, <1>5, <1>6, Zenon
    <3>2. k \in SockRec
      BY <3>1, <1>5, Zenon
    <3>3. k.pcb = FALSE
      <4>1. k = [sk[s] EXCEPT !.pcb = FALSE]
        BY <2>2, Zenon
      <4> HIDE DEF k
      <4> QED BY <4>1, Zenon DEF SockRec
    <3> QED BY <3>1, <3>2, <3>3, Zenon
  <2> QED BY <2>1, <2>2, Zenon
<1> HIDE DEF k, d, c
<1>9. sock' = [sock EXCEPT ![s] = k]
  <2>1. sock' = [sk1 EXCEPT ![s] = k]
    BY <1>3, <1>4, <1>7, Zenon
  <2> QED BY <2>1, <1>1, <1>5, Zenon
<1>10. Become(s, k)
  BY <1>8, <1>9, Zenon DEF Become
<1>11. sock'[s] = k /\ \A q \in Sock \ {s} : sock'[q] = sock[q]
  BY <1>1, <1>9, Zenon
<1> HIDE DEF t
<1>12. /\ \A u \in Type : /\ pcbs[u] \in Seq(Sock) /\ IsInjective(pcbs[u])
                          /\ cache[u] \in Range(pcbs[u]) \cup {"head", Nobody}
                          /\ \A q \in Sock : (q \in Range(pcbs[u])) <=> (sock[q].pcb /\ sock[q].type = u)
  BY <1>1, Zenon DEF BlocksListed
<1> DEFINE m == Without(pcbs[t], s)
<1>13. m \in Seq(Sock) /\ IsInjective(m) /\ \A x : x \in Range(m) <=> x # s /\ x \in Range(pcbs[t])
  BY <1>2, <1>12, WithoutIs, Zenon
<1>14. /\ pcbs'[t] = m /\ \A u \in Type : u # t => pcbs'[u] = pcbs[u]
       /\ cache'[t] = c /\ \A u \in Type : u # t => cache'[u] = cache[u]
  BY <1>1, <1>2, <1>3, <1>4, Zenon
<1>15. pcbs' \in [Type -> Seq(Sock)]
  BY <1>1, <1>3, <1>13, Zenon
<1> HIDE DEF m
<1>16. c \in Sock \cup {"head", Nobody} /\ c \in Range(m) \cup {"head", Nobody}
  BY <1>1, <1>2, <1>12, <1>13, Zenon DEF c
<1>17. cache' \in [Type -> Sock \cup {"head", Nobody}]
  BY <1>1, <1>3, <1>4, <1>16, Zenon
<1>18. ASSUME NEW u \in Type
       PROVE  /\ IsInjective(pcbs'[u])
              /\ \A q \in Sock : (q \in Range(pcbs'[u])) <=> (sock'[q].pcb /\ sock'[q].type = u)
              /\ cache'[u] \in Range(pcbs'[u]) \cup {"head", Nobody}
  <2>1. CASE u = t
    <3>1. ASSUME NEW q \in Sock PROVE (q \in Range(m)) <=> (sock'[q].pcb /\ sock'[q].type = u)
      <4>1. CASE q = s
        BY <4>1, <1>8, <1>11, <1>13, Zenon
      <4>2. CASE q # s
        <5>1. sock'[q] = sock[q] /\ ((q \in Range(m)) <=> (q \in Range(pcbs[u])))
          BY <4>2, <2>1, <1>11, <1>13, Zenon
        <5>2. (q \in Range(pcbs[u])) <=> (sock[q].pcb /\ sock[q].type = u)
          BY <1>12, Zenon
        <5> QED BY <5>1, <5>2, Zenon
      <4> QED BY <4>1, <4>2, Zenon
    <3> QED BY <3>1, <2>1, <1>13, <1>14, <1>16, Zenon
  <2>2. CASE u # t
    <3>1. ASSUME NEW q \in Sock PROVE (q \in Range(pcbs[u])) <=> (sock'[q].pcb /\ sock'[q].type = u)
      <4>1. CASE q = s
        <5>1. sock[s].type # u
          BY <2>2, Zenon DEF t
        <5> QED BY <4>1, <5>1, <1>8, <1>11, <1>12, Zenon
      <4>2. CASE q # s
        <5>1. sock'[q] = sock[q]
          BY <4>2, <1>11, Zenon
        <5>2. (q \in Range(pcbs[u])) <=> (sock[q].pcb /\ sock[q].type = u)
          BY <1>12, Zenon
        <5> QED BY <5>1, <5>2, Zenon
      <4> QED BY <4>1, <4>2, Zenon
    <3> QED BY <3>1, <2>2, <1>12, <1>14, Zenon
  <2> QED BY <2>1, <2>2, Zenon
<1>19. ASSUME NEW q \in Sock PROVE sock'[q].st # "nofd" /\ (sock'[q].pcb => sock'[q].st = "open")
  <2>1. CASE q = s
    BY <2>1, <1>8, <1>11, Zenon
  <2>2. CASE q # s
    BY <2>2, <1>1, <1>11, Zenon DEF BlocksListed
  <2> QED BY <2>1, <2>2, Zenon
<1>20. BlocksListed'
  BY <1>18, <1>19, Zenon DEF BlocksListed
<1>21. AddrKnown(s)'
  <2>1. sock'[s].pcb = FALSE /\ sending'[s] = Idle
    BY <1>8, <1>11, Zenon
  <2> QED BY <2>1, Zenon DEF AddrKnown
<1>22. /\ lastport' \in [Type -> Port] /\ sending' \in [Sock -> Addr \cup {Idle}]
       /\ \A q \in Sock \ {s} : sending'[q] = sending[q]
  BY Facts, Zenon
<1> QED BY <1>10, <1>15, <1>17, <1>20, <1>21, <1>22, BecomeKeeps, Zenon

(* shutdown takes the block away, the file stays. *)
LEMMA ByTcpShutdown ==
  ASSUME PcbGood, NEW s \in Sock, TcpShutdown(s)
  PROVE  PcbGood'
<1>1. /\ sock[s].st = "open" /\ sock[s].type = "tcp" /\ sock[s].pcb /\ Drop(sock, s)
      /\ lastport' = lastport /\ sending' = sending
  BY Zenon DEF TcpShutdown
<1>2. sending[s] = Idle
  <2>1. AddrKnown(s)
    BY Facts, Zenon
  <2>2. "tcp" # "udp"
    BY Zenon
  <2> QED BY <1>1, <2>1, <2>2, Zenon DEF AddrKnown
<1>3. sock \in [Sock -> SockRec] /\ sock[s].st \in {"open", "nofd"}
  BY <1>1, Facts, Zenon
<1> QED BY <1>1, <1>2, <1>3, DropKeeps, Zenon

(* soclose outside of a sendto frees the socket and its block. *)
LEMMA BySoclose ==
  ASSUME PcbGood, NEW s \in Sock, Soclose(s), sending[s] = Idle
  PROVE  PcbGood'
<1> DEFINE sk == [sock EXCEPT ![s].st = "nofd"]
<1>1. /\ sock[s].st = "open"
      /\ IF sock[s].pcb THEN Drop(sk, s)
         ELSE /\ sock' = Freed(sk, s) /\ cache' = cache /\ pcbs' = pcbs
      /\ lastport' = lastport /\ sending' = sending
  BY Zenon DEF Soclose
<1>2. sock \in [Sock -> SockRec]
  BY Facts, Zenon
<1>3. /\ sk \in [Sock -> SockRec] /\ sk[s].type = sock[s].type /\ sk[s].st = "nofd"
      /\ sk[s].pcb = sock[s].pcb
      /\ \A q \in Sock \ {s} : sk[q] = sock[q]
  BY <1>2 DEF SockRec
<1>4. [sk EXCEPT ![s] = Unused] = [sock EXCEPT ![s] = Unused]
  BY <1>2, Zenon
<1> HIDE DEF sk
<1>5. CASE sock[s].pcb
  <2>1. sk[s].st \in {"open", "nofd"} /\ Drop(sk, s)
    BY <1>1, <1>3, <1>5, Zenon
  <2> QED BY <2>1, <1>1, <1>3, <1>5, DropKeeps, Zenon
<1>6. CASE ~sock[s].pcb
  <2>1. sock' = [sock EXCEPT ![s] = Unused]
    <3>1. sock' = Freed(sk, s) /\ ~sk[s].pcb
      BY <1>1, <1>3, <1>6, Zenon
    <3> QED BY <3>1, <1>3, <1>4, Zenon DEF Freed
  <2>2. Become(s, Unused)
    BY <2>1, UnusedIs, Zenon DEF Become
  <2>3. Unused.pcb = sock[s].pcb /\ Unused.st # "nofd" /\ ~Unused.pcb
    <3>1. sock[s].pcb \in BOOLEAN
      BY <1>2, Zenon DEF SockRec
    <3> QED BY <3>1, <1>6, UnusedIs, Zenon
  <2>4. pcbs' = pcbs /\ cache' = cache
    BY <1>1, <1>6, Zenon
  <2>5. \A t \in Type : cache'[t] \in Range(pcbs[t]) \cup {"head", Nobody}
    BY <2>4, Facts, Zenon
  <2>6. BlocksListed'
    BY <2>2, <2>3, <2>4, <2>5, SameBlocks, Zenon
  <2>7. AddrKnown(s)'
    <3>1. sock'[s] = Unused /\ sending'[s] = Idle
      BY <2>1, <1>1, <1>2, Zenon
    <3> QED BY <3>1, <2>3, Zenon DEF AddrKnown
  <2>8. /\ pcbs' \in [Type -> Seq(Sock)] /\ lastport' \in [Type -> Port]
        /\ cache' \in [Type -> Sock \cup {"head", Nobody}]
        /\ sending' \in [Sock -> Addr \cup {Idle}] /\ \A q \in Sock \ {s} : sending'[q] = sending[q]
    BY <2>4, <1>1, Facts, Zenon
  <2> QED BY <2>2, <2>6, <2>7, <2>8, BecomeKeeps, Zenon
<1> QED BY <1>5, <1>6, Zenon

(* A step that changes the socket s but no list, port or cache of another. *)
LEMMA SockKeeps ==
  ASSUME PcbGood, NEW s \in Sock, NEW k, Become(s, k), pcbs' = pcbs, cache' = cache,
         k.pcb = sock[s].pcb, k.type = sock[s].type, k.st = sock[s].st,
         lastport' \in [Type -> Port], sending' \in [Sock -> Addr \cup {Idle}],
         \A q \in Sock \ {s} : sending'[q] = sending[q], AddrKnown(s)'
  PROVE  PcbGood'
<1>1. k.st # "nofd" /\ (k.pcb => k.type = sock[s].type /\ k.st = "open")
  BY Zenon DEF PcbGood, BlocksListed
<1>2. \A t \in Type : cache'[t] \in Range(pcbs[t]) \cup {"head", Nobody}
  BY Facts, Zenon
<1>3. BlocksListed'
  BY <1>1, <1>2, SameBlocks, Zenon
<1>4. pcbs' \in [Type -> Seq(Sock)] /\ cache' \in [Type -> Sock \cup {"head", Nobody}]
  BY Facts, Zenon
<1> QED BY <1>3, <1>4, BecomeKeeps, Zenon

(* sendto connects, with a port that no other socket has. *)
LEMMA BySendConnect ==
  ASSUME PcbGood, NEW s \in Sock, NEW dst \in Remote, SendConnect(s, dst, 1),
         ~(sock[s].lport = 0 /\ \E q \in Sock \ {s} : sending[q] # Idle)
  PROVE  PcbGood'
<1> DEFINE local == IF sock[s].laddr = AnyAddr THEN Self ELSE sock[s].laddr
           b == IF sock[s].laddr = AnyAddr /\ sock[s].lport = 0 THEN Bound(sock, "udp", s)
                ELSE [sk |-> sock, port |-> lastport["udp"], found |-> TRUE]
<1>1. /\ sock[s].st = "open" /\ sock[s].type = "udp" /\ sock[s].pcb /\ sending[s] = Idle
      /\ b.found
      /\ sock' = [b.sk EXCEPT ![s].laddr = local, ![s].faddr = dst, ![s].fport = 1]
      /\ lastport' = [lastport EXCEPT !["udp"] = b.port]
      /\ sending' = [sending EXCEPT ![s] = sock[s].laddr]
      /\ pcbs' = pcbs /\ cache' = cache
  <2> HIDE DEF local, b
  <2> QED BY Zenon DEF SendConnect, local, b
<1>2. /\ sock \in [Sock -> SockRec] /\ lastport \in [Type -> Port]
      /\ sending \in [Sock -> Addr \cup {Idle}] /\ sock[s] \in SockRec
  BY Facts, Zenon
<1>3. "udp" \in Type /\ Self \in Addr /\ AnyAddr \in Addr /\ dst \in Addr /\ 1 \in Nat /\ Junk \in Addr
  BY Zenon DEF Type, Addr
<1>4. sock[s].laddr = AnyAddr
  <2>1. AddrKnown(s)
    BY Facts, Zenon
  <2> QED BY <2>1, <1>1, Zenon DEF AddrKnown
<1>5. local = Self
  BY <1>4, Zenon
<1>6. \E n \in Port, a \in Addr :
        /\ b.sk = [sock EXCEPT ![s] = [sock[s] EXCEPT !.laddr = a, !.lport = n]]
        /\ b.port \in Port /\ n \notin (Reserved + 1)..UserReserved
        /\ \A q \in Sock \ {s} : sock[q].pcb /\ sock[q].type = "udp" => sock[q].lport # n
  <2>1. CASE sock[s].lport = 0
    <3>1. b = Bound(sock, "udp", s)
      BY <2>1, <1>4, Zenon
    <3>2. ASSUME NEW q \in Sock \ {s}, sock[q].pcb, sock[q].type = "udp"
          PROVE  sock[q].laddr \in {AnyAddr, Junk}
      <4>1. AddrKnown(q) /\ sending[q] = Idle
        BY <2>1, Facts, Zenon
      <4> QED BY <4>1, <3>2, Zenon DEF AddrKnown
    <3>3. Bound(sock, "udp", s).found
      BY <3>1, <1>1, Zenon
    <3> HIDE DEF b
    <3>4. Seen("udp", s)
      BY <3>2, Zenon DEF Seen
    <3>5. PICK n \in Port : GetsPort("udp", s, n)
      BY <3>3, <3>4, <2>1, <1>1, <1>3, BoundIs, Zenon
    <3> QED BY <3>1, <3>5, <1>3, Zenon DEF GetsPort
  <2>2. CASE sock[s].lport # 0
    <3>1. b.sk = sock /\ b.port = lastport["udp"]
      BY <2>2, Zenon
    <3>2. sock = [sock EXCEPT ![s] = [sock[s] EXCEPT !.laddr = AnyAddr, !.lport = sock[s].lport]]
      BY <1>2, <1>4, Zenon DEF SockRec
    <3>3. sock[s].lport \in Port /\ PortKept(s)
      BY <1>2, Facts, Zenon DEF SockRec
    <3>4. ASSUME NEW q \in Sock \ {s}, sock[q].pcb, sock[q].type = "udp"
          PROVE  sock[q].lport # sock[s].lport
      <4>1. PortApart(s, q)
        BY Facts, Zenon
      <4> QED BY <4>1, <3>4, <2>2, <1>1, Zenon DEF PortApart
    <3>5. lastport["udp"] \in Port /\ sock[s].lport \notin (Reserved + 1)..UserReserved
      BY <3>3, <1>1, <1>2, <1>3, Zenon DEF PortKept
    <3> HIDE DEF b
    <3> QED BY <3>1, <3>2, <3>3, <3>4, <3>5, <1>3, Zenon
  <2> QED BY <2>1, <2>2, Zenon
<1> HIDE DEF b, local
<1>7. PICK n \in Port, a \in Addr :
        /\ b.sk = [sock EXCEPT ![s] = [sock[s] EXCEPT !.laddr = a, !.lport = n]]
        /\ b.port \in Port /\ n \notin (Reserved + 1)..UserReserved
        /\ \A q \in Sock \ {s} : sock[q].pcb /\ sock[q].type = "udp" => sock[q].lport # n
  BY <1>6, Zenon
<1> DEFINE k == [sock[s] EXCEPT !.laddr = Self, !.lport = n, !.faddr = dst, !.fport = 1]
<1>8. /\ k \in SockRec /\ k.pcb = sock[s].pcb /\ k.type = sock[s].type /\ k.st = sock[s].st
      /\ k.laddr = Self /\ k.lport = n
  BY <1>2, <1>3, Zenon DEF SockRec
<1>9. sock' = [sock EXCEPT ![s] = k]
  <2>1. sock' = [[sock EXCEPT ![s] = [sock[s] EXCEPT !.laddr = a, !.lport = n]]
                 EXCEPT ![s].laddr = Self, ![s].faddr = dst, ![s].fport = 1]
    BY <1>1, <1>5, <1>7, Zenon
  <2> QED BY <2>1, <1>2, Zenon DEF SockRec
<1> HIDE DEF k
<1>10. Become(s, k)
  BY <1>1, <1>7, <1>8, <1>9, Zenon DEF Become
<1>11. lastport' \in [Type -> Port]
  BY <1>1, <1>2, <1>7, Zenon
<1>12. sending' \in [Sock -> Addr \cup {Idle}] /\ sending'[s] = AnyAddr
       /\ \A q \in Sock \ {s} : sending'[q] = sending[q]
  BY <1>1, <1>2, <1>3, <1>4, Zenon
<1>13. AddrKnown(s)'
  <2>1. sock'[s] = k
    BY <1>2, <1>9, Zenon
  <2>2. AnyAddr # Idle /\ "udp" # "tcp"
    BY Zenon DEF AnyAddr, Idle
  <2> QED BY <2>1, <2>2, <1>1, <1>8, <1>12, Zenon DEF AddrKnown
<1> QED BY <1>1, <1>8, <1>10, <1>11, <1>12, <1>13, SockKeeps, Zenon

(* The end of sendto puts the local address back. *)
LEMMA BySendDisconnect ==
  ASSUME PcbGood, NEW s \in Sock, SendDisconnect(s)
  PROVE  PcbGood'
<1>1. /\ sending[s] # Idle /\ sending' = [sending EXCEPT ![s] = Idle]
      /\ sock' = [sock EXCEPT ![s].faddr = AnyAddr, ![s].fport = 0, ![s].laddr = sending[s]]
      /\ pcbs' = pcbs /\ cache' = cache /\ lastport' = lastport
  BY Zenon DEF SendDisconnect
<1>2. /\ sock \in [Sock -> SockRec] /\ sending \in [Sock -> Addr \cup {Idle}]
      /\ sock[s] \in SockRec /\ AddrKnown(s) /\ PortKept(s) /\ \A q \in Sock : PortApart(s, q)
  BY Facts, Zenon
<1>3. sending[s] = AnyAddr /\ sock[s].pcb /\ sock[s].type = "udp"
  BY <1>1, <1>2, Zenon DEF AddrKnown
<1>4. AnyAddr \in Addr
  BY Zenon DEF Addr
<1> DEFINE k == [sock[s] EXCEPT !.faddr = AnyAddr, !.fport = 0, !.laddr = AnyAddr]
<1>5. /\ k \in SockRec /\ k.pcb = sock[s].pcb /\ k.type = sock[s].type /\ k.st = sock[s].st
      /\ k.laddr = AnyAddr /\ k.lport = sock[s].lport
  BY <1>2, <1>4, Zenon DEF SockRec
<1>6. sock' = [sock EXCEPT ![s] = k]
  <2>1. sock' = [sock EXCEPT ![s].faddr = AnyAddr, ![s].fport = 0, ![s].laddr = AnyAddr]
    BY <1>1, <1>3, Zenon
  <2> QED BY <2>1, <1>2, Zenon DEF SockRec
<1> HIDE DEF k
<1>7. Become(s, k)
  <2>1. ASSUME NEW q \in Sock \ {s}, sock[q].pcb, sock[q].type = k.type, k.lport # 0
        PROVE  sock[q].lport # k.lport
    <3>1. PortApart(s, q)
      BY <1>2, Zenon
    <3> QED BY <2>1, <3>1, <1>3, <1>5, Zenon DEF PortApart
  <2> QED BY <2>1, <1>2, <1>3, <1>5, <1>6, Zenon DEF Become, PortKept
<1>8. /\ lastport' \in [Type -> Port] /\ sending' \in [Sock -> Addr \cup {Idle}]
      /\ sending'[s] = Idle /\ \A q \in Sock \ {s} : sending'[q] = sending[q]
  BY <1>1, <1>2, Facts, Zenon
<1>9. AddrKnown(s)'
  <2>1. sock'[s] = k /\ "udp" # "tcp"
    BY <1>2, <1>6, Zenon
  <2> QED BY <2>1, <1>3, <1>5, <1>8, Zenon DEF AddrKnown
<1> QED BY <1>1, <1>5, <1>7, <1>8, <1>9, SockKeeps, Zenon

(* A TCP socket that gets a port. *)
LEMMA TcpBound ==
  ASSUME PcbGood, NEW s \in Sock, sock[s].pcb, sock[s].type = "tcp", sock[s].lport = 0,
         ~sock[s].accepts, Bound(sock, "tcp", s).found
  PROVE  \E n \in Port : GetsPort("tcp", s, n)
<1>1. "tcp" \in Type
  BY Zenon DEF Type
<1>2. ASSUME NEW q \in Sock \ {s}, sock[q].pcb, sock[q].type = "tcp"
      PROVE  sock[q].laddr \in {AnyAddr, Junk}
  <2>1. AddrKnown(q)
    BY Facts, Zenon
  <2> QED BY <2>1, <1>2, Zenon DEF AddrKnown
<1>3. Seen("tcp", s)
  BY <1>2, Zenon DEF Seen
<1> QED BY <1>1, <1>3, BoundIs, Zenon

(* connect of TCP takes a port. *)
LEMMA ByTcpConnect ==
  ASSUME PcbGood, NEW s \in Sock, TcpConnect(s)
  PROVE  PcbGood'
<1> DEFINE b == Bound(sock, "tcp", s)
<1>1. /\ sock[s].st = "open" /\ sock[s].type = "tcp" /\ sock[s].pcb /\ sock[s].lport = 0
      /\ ~sock[s].accepts /\ b.found
      /\ sock' = b.sk /\ lastport' = [lastport EXCEPT !["tcp"] = b.port]
      /\ pcbs' = pcbs /\ cache' = cache /\ sending' = sending
  BY Zenon DEF TcpConnect
<1>2. PICK n \in Port :
        /\ b.sk = [sock EXCEPT ![s] = [sock[s] EXCEPT !.laddr = Junk, !.lport = n]]
        /\ b.port \in Port
        /\ n \notin (Reserved + 1)..UserReserved
        /\ \A q \in Sock \ {s} : sock[q].pcb /\ sock[q].type = "tcp" => sock[q].lport # n
  <2>1. PICK n \in Port : GetsPort("tcp", s, n)
    BY <1>1, TcpBound, Zenon
  <2> QED BY <2>1, Zenon DEF GetsPort
<1> HIDE DEF b
<1> DEFINE k == [sock[s] EXCEPT !.laddr = Junk, !.lport = n]
<1>3. /\ sock \in [Sock -> SockRec] /\ sock[s] \in SockRec /\ AddrKnown(s)
      /\ lastport \in [Type -> Port] /\ sending \in [Sock -> Addr \cup {Idle}]
  BY Facts, Zenon
<1>4. Junk \in Addr /\ "tcp" \in Type
  BY Zenon DEF Addr, Type
<1>5. /\ k \in SockRec /\ k.pcb = sock[s].pcb /\ k.type = sock[s].type /\ k.st = sock[s].st
      /\ k.laddr = Junk /\ k.lport = n
  BY <1>3, <1>4, Zenon DEF SockRec
<1>6. sock' = [sock EXCEPT ![s] = k]
  BY <1>1, <1>2, Zenon
<1> HIDE DEF k
<1>7. Become(s, k)
  BY <1>1, <1>2, <1>5, <1>6, Zenon DEF Become
<1>8. lastport' \in [Type -> Port] /\ sending' \in [Sock -> Addr \cup {Idle}]
      /\ \A q \in Sock \ {s} : sending'[q] = sending[q]
  BY <1>1, <1>2, <1>3, Zenon
<1>9. AddrKnown(s)'
  <2>1. sock'[s] = k /\ "udp" # "tcp" /\ sending'[s] = sending[s]
    BY <1>1, <1>3, <1>6, Zenon
  <2> QED BY <2>1, <1>1, <1>3, <1>5, Zenon DEF AddrKnown
<1> QED BY <1>1, <1>5, <1>7, <1>8, <1>9, SockKeeps, Zenon

(* listen takes a port, if there is none yet. *)
LEMMA BySolisten ==
  ASSUME PcbGood, NEW s \in Sock, Solisten(s)
  PROVE  PcbGood'
<1> DEFINE b == IF sock[s].lport = 0 THEN Bound(sock, "tcp", s)
                ELSE [sk |-> sock, port |-> lastport["tcp"], found |-> TRUE]
<1>1. /\ sock[s].st = "open" /\ sock[s].type = "tcp" /\ sock[s].pcb /\ ~sock[s].accepts
      /\ b.found
      /\ sock' = [b.sk EXCEPT ![s].tstate = "LISTEN", ![s].accepts = TRUE]
      /\ lastport' = [lastport EXCEPT !["tcp"] = b.port]
      /\ pcbs' = pcbs /\ cache' = cache /\ sending' = sending
  <2> HIDE DEF b
  <2> QED BY Zenon DEF Solisten, b
<1>2. /\ sock \in [Sock -> SockRec] /\ sock[s] \in SockRec /\ AddrKnown(s) /\ PortKept(s)
      /\ lastport \in [Type -> Port] /\ sending \in [Sock -> Addr \cup {Idle}]
  BY Facts, Zenon
<1>3. Junk \in Addr /\ "tcp" \in Type /\ sock[s].laddr \in {AnyAddr, Junk} /\ sock[s].laddr \in Addr
  <2>1. Junk \in Addr /\ "tcp" \in Type /\ sock[s].laddr \in Addr
    BY <1>2, Zenon DEF Addr, Type, SockRec
  <2> QED BY <2>1, <1>1, <1>2, Zenon DEF AddrKnown
<1>4. \E n \in Port, a \in {AnyAddr, Junk} :
        /\ b.sk = [sock EXCEPT ![s] = [sock[s] EXCEPT !.laddr = a, !.lport = n]]
        /\ a \in Addr /\ b.port \in Port /\ n \notin (Reserved + 1)..UserReserved
        /\ \A q \in Sock \ {s} : sock[q].pcb /\ sock[q].type = "tcp" => sock[q].lport # n
  <2>1. CASE sock[s].lport = 0
    <3>1. b = Bound(sock, "tcp", s)
      BY <2>1, Zenon
    <3> HIDE DEF b
    <3>2. Bound(sock, "tcp", s).found
      BY <3>1, <1>1, Zenon
    <3>3. PICK n \in Port : GetsPort("tcp", s, n)
      BY <3>2, <2>1, <1>1, TcpBound, Zenon
    <3> QED BY <3>1, <3>3, <1>3, Zenon DEF GetsPort
  <2>2. CASE sock[s].lport # 0
    <3>1. b.sk = sock /\ b.port = lastport["tcp"]
      BY <2>2, Zenon
    <3>2. sock = [sock EXCEPT ![s] = [sock[s] EXCEPT !.laddr = sock[s].laddr, !.lport = sock[s].lport]]
      BY <1>2, Zenon DEF SockRec
    <3>3. sock[s].lport \in Port
      BY <1>2, Zenon DEF SockRec
    <3>4. ASSUME NEW q \in Sock \ {s}, sock[q].pcb, sock[q].type = "tcp"
          PROVE  sock[q].lport # sock[s].lport
      <4>1. PortApart(s, q)
        BY Facts, Zenon
      <4> QED BY <4>1, <3>4, <2>2, <1>1, Zenon DEF PortApart
    <3>5. lastport["tcp"] \in Port /\ sock[s].lport \notin (Reserved + 1)..UserReserved
      BY <1>1, <1>2, <1>3, Zenon DEF PortKept
    <3> HIDE DEF b
    <3> QED BY <3>1, <3>2, <3>3, <3>4, <3>5, <1>3, Zenon
  <2> QED BY <2>1, <2>2, Zenon
<1> HIDE DEF b
<1>5. PICK n \in Port, a \in {AnyAddr, Junk} :
        /\ b.sk = [sock EXCEPT ![s] = [sock[s] EXCEPT !.laddr = a, !.lport = n]]
        /\ a \in Addr /\ b.port \in Port /\ n \notin (Reserved + 1)..UserReserved
        /\ \A q \in Sock \ {s} : sock[q].pcb /\ sock[q].type = "tcp" => sock[q].lport # n
  BY <1>4, Zenon
<1> DEFINE k == [sock[s] EXCEPT !.laddr = a, !.lport = n, !.tstate = "LISTEN", !.accepts = TRUE]
<1>6. /\ k \in SockRec /\ k.pcb = sock[s].pcb /\ k.type = sock[s].type /\ k.st = sock[s].st
      /\ k.laddr = a /\ k.lport = n
  BY <1>2, <1>5, Zenon DEF SockRec
<1>7. sock' = [sock EXCEPT ![s] = k]
  <2>1. sock' = [[sock EXCEPT ![s] = [sock[s] EXCEPT !.laddr = a, !.lport = n]]
                 EXCEPT ![s].tstate = "LISTEN", ![s].accepts = TRUE]
    BY <1>1, <1>5, Zenon
  <2> QED BY <2>1, <1>2, Zenon DEF SockRec
<1> HIDE DEF k
<1>8. Become(s, k)
  BY <1>1, <1>5, <1>6, <1>7, Zenon DEF Become
<1>9. lastport' \in [Type -> Port] /\ sending' \in [Sock -> Addr \cup {Idle}]
      /\ \A q \in Sock \ {s} : sending'[q] = sending[q]
  BY <1>1, <1>2, <1>5, Zenon
<1>10. AddrKnown(s)'
  <2>1. sock'[s] = k /\ "udp" # "tcp" /\ sending'[s] = sending[s]
    BY <1>1, <1>2, <1>7, Zenon
  <2> QED BY <2>1, <1>1, <1>2, <1>5, <1>6, Zenon DEF AddrKnown
<1> QED BY <1>1, <1>6, <1>8, <1>9, <1>10, SockKeeps, Zenon

(* A segment for a listener: its child socket is made and is gone again. *)
LEMMA ByTcpInput ==
  ASSUME PcbGood, NEW c \in Sock, NEW src, NEW dst \in {Self, Junk}, NEW dport \in 1..PortMod - 1,
         NEW syn \in BOOLEAN, TcpInput(c, src, 1, dst, dport, syn)
  PROVE  PcbGood'
<1> DEFINE l == Lookup(sock, pcbs["tcp"], src, 1, dst, dport, TRUE)
           child == [Unused EXCEPT !.st = "nofd", !.type = "tcp", !.pcb = TRUE, !.tstate = "LISTEN",
                       !.lport = dport, !.laddr = dst, !.faddr = IF syn THEN src ELSE AnyAddr]
           d == Detached([sock EXCEPT ![c] = child], c)
<1>1. /\ l # Nobody /\ cache' = [cache EXCEPT !["tcp"] = l]
      /\ (sock[c].st = "none" /\ sock' = d.sk) \/ sock' = sock
      /\ pcbs' = pcbs /\ lastport' = lastport /\ sending' = sending
  <2> HIDE DEF d, l
  <2> QED BY Zenon DEF TcpInput, d, l, child
<1>2. /\ sock \in [Sock -> SockRec] /\ pcbs \in [Type -> Seq(Sock)]
      /\ cache \in [Type -> Sock \cup {"head", Nobody}] /\ "tcp" \in Type /\ TRUE \in BOOLEAN
      /\ BlocksListed
  <2>1. "tcp" \in Type /\ TRUE \in BOOLEAN
    BY Zenon DEF Type
  <2> QED BY <2>1, Zenon DEF PcbGood, PcbTypes
<1>3. l \in Range(pcbs["tcp"])
  BY <1>1, <1>2, LookupListed, Zenon
<1>4. l \in Sock
  <2>1. \A i \in DOMAIN pcbs["tcp"] : pcbs["tcp"][i] \in Sock
    BY <1>2
  <2> QED BY <2>1, <1>3, Zenon DEF Range
<1> HIDE DEF l
<1>5. /\ cache' \in [Type -> Sock \cup {"head", Nobody}]
      /\ \A t \in Type : cache'[t] \in Range(pcbs[t]) \cup {"head", Nobody}
  <2>1. cache' \in [Type -> Sock \cup {"head", Nobody}]
    BY <1>1, <1>2, <1>4, Zenon
  <2>2. ASSUME NEW t \in Type PROVE cache'[t] \in Range(pcbs[t]) \cup {"head", Nobody}
    <3>1. CASE t = "tcp"
      BY <3>1, <1>1, <1>2, <1>3, Zenon
    <3>2. CASE t # "tcp"
      <4>1. cache'[t] = cache[t]
        BY <3>2, <1>1, <1>2, Zenon
      <4> QED BY <4>1, Facts, Zenon
    <3> QED BY <3>1, <3>2, Zenon
  <2> QED BY <2>1, <2>2, Zenon
<1>6. PICK k : sock' = [sock EXCEPT ![c] = k] /\ (k = sock[c] \/ (sock[c].st = "none" /\ k = Unused))
  <2>1. CASE sock' = sock
    <3>1. sock' = [sock EXCEPT ![c] = sock[c]]
      BY <2>1, <1>2, Zenon
    <3> QED BY <3>1, Zenon
  <2>2. CASE sock[c].st = "none" /\ sock' = d.sk
    <3> DEFINE sk == [sock EXCEPT ![c] = child]
               sk1 == [sk EXCEPT ![c].pcb = FALSE]
    <3>1. child.st = "nofd"
      BY Zenon DEF Unused
    <3>2. sk[c] = child
      <4> HIDE DEF child
      <4> QED BY <1>2, Zenon
    <3>3. sk1[c].st = "nofd" /\ ~sk1[c].pcb
      <4>1. sk1[c] = [child EXCEPT !.pcb = FALSE]
        <5> HIDE DEF child
        <5> QED BY <1>2, Zenon
      <4>2. [child EXCEPT !.pcb = FALSE].st = "nofd" /\ ~[child EXCEPT !.pcb = FALSE].pcb
        BY Zenon DEF Unused
      <4> HIDE DEF child, sk1
      <4> QED BY <4>1, <4>2, Zenon
    <3>4. [sk1 EXCEPT ![c] = Unused] = [sock EXCEPT ![c] = Unused]
      <4> HIDE DEF child
      <4> QED BY <1>2, Zenon
    <3>5. d.sk = Freed(sk1, c)
      <4> DEFINE e == IF cache[sk[c].type] = c THEN "head" ELSE cache[sk[c].type]
      <4>1. d = [sk |-> Freed(sk1, c), cache |-> e]
        BY Zenon DEF Detached
      <4> HIDE DEF d, e, sk1
      <4> QED BY <4>1, Zenon
    <3> HIDE DEF sk1, d
    <3>6. sock' = [sock EXCEPT ![c] = Unused]
      BY <2>2, <3>3, <3>4, <3>5, Zenon DEF Freed
    <3> QED BY <2>2, <3>6, Zenon
  <2> QED BY <1>1, <2>1, <2>2, Zenon
<1>7. sock[c].st = "none" => sock[c].pcb = FALSE
  <2>1. sock[c].pcb \in BOOLEAN
    BY <1>2, Zenon DEF SockRec
  <2>2. "none" # "open"
    BY Zenon
  <2> QED BY <2>1, <2>2, <1>2, Zenon DEF BlocksListed
<1>8. /\ k \in SockRec /\ k.pcb = sock[c].pcb /\ k.st # "nofd"
      /\ k.pcb => k = sock[c] /\ k.type = sock[c].type /\ k.st = "open"
  <2>1. CASE k = sock[c]
    BY <2>1, <1>2, Facts, Zenon DEF BlocksListed
  <2>2. CASE sock[c].st = "none" /\ k = Unused
    BY <2>2, <1>7, UnusedIs, Zenon
  <2> QED BY <2>1, <2>2, <1>6, Zenon
<1>9. Become(c, k)
  <2>1. ASSUME k.pcb, NEW q \in Sock \ {c}, sock[q].pcb, sock[q].type = k.type, k.lport # 0
        PROVE  sock[q].lport # k.lport
    <3>1. PortApart(c, q) /\ k = sock[c]
      BY <2>1, <1>8, Facts, Zenon
    <3> QED BY <2>1, <3>1, Zenon DEF PortApart
  <2>2. k.pcb => k.lport \notin (Reserved + 1)..UserReserved
    <3>1. PortKept(c)
      BY Facts, Zenon
    <3> QED BY <3>1, <1>8, Zenon DEF PortKept
  <2> QED BY <2>1, <2>2, <1>6, <1>8, Zenon DEF Become
<1>10. BlocksListed'
  BY <1>1, <1>5, <1>8, <1>9, SameBlocks, Zenon
<1>11. AddrKnown(c)'
  <2>1. sock'[c] = k /\ sending'[c] = sending[c] /\ AddrKnown(c)
    BY <1>1, <1>2, <1>6, Facts, Zenon
  <2>2. CASE k = sock[c]
    BY <2>1, <2>2, Zenon DEF AddrKnown
  <2>3. CASE sock[c].st = "none" /\ k = Unused
    <3>1. sending[c] = Idle /\ k.pcb = FALSE
      BY <2>1, <2>3, <1>7, <1>8, Zenon DEF AddrKnown
    <3> QED BY <3>1, <2>1, Zenon DEF AddrKnown
  <2> QED BY <2>2, <2>3, <1>6, Zenon
<1>12. /\ pcbs' \in [Type -> Seq(Sock)] /\ lastport' \in [Type -> Port]
       /\ sending' \in [Sock -> Addr \cup {Idle}] /\ \A q \in Sock \ {c} : sending'[q] = sending[q]
  BY <1>1, Facts, Zenon
<1> QED BY <1>5, <1>9, <1>10, <1>11, <1>12, BecomeKeeps, Zenon

(* A datagram changes the cache, to a block of the list. *)
LEMMA ByUdpInput ==
  ASSUME PcbGood, NEW src, NEW dport, UdpInput(src, 1, dport)
  PROVE  PcbGood'
<1> DEFINE c == cache["udp"]
           l == Lookup(sock, pcbs["udp"], src, 1, Self, dport, TRUE)
<1>1. /\ cache' = [cache EXCEPT !["udp"] = c] \/ (l # Nobody /\ cache' = [cache EXCEPT !["udp"] = l])
      /\ sock' = sock /\ pcbs' = pcbs /\ lastport' = lastport /\ sending' = sending
  <2> HIDE DEF c, l
  <2> QED BY Zenon DEF UdpInput, c, l
<1>2. /\ pcbs \in [Type -> Seq(Sock)] /\ cache \in [Type -> Sock \cup {"head", Nobody}]
      /\ "udp" \in Type /\ TRUE \in BOOLEAN
      /\ \A t \in Type : cache[t] \in Range(pcbs[t]) \cup {"head", Nobody}
  <2>1. "udp" \in Type /\ TRUE \in BOOLEAN
    BY Zenon DEF Type
  <2> QED BY <2>1, Facts, Zenon
<1>3. l # Nobody => l \in Range(pcbs["udp"])
  BY <1>2, LookupListed, Zenon
<1>4. \A x \in Range(pcbs["udp"]) : x \in Sock
  <2>1. \A i \in DOMAIN pcbs["udp"] : pcbs["udp"][i] \in Sock
    BY <1>2
  <2> QED BY <2>1, Zenon DEF Range
<1> HIDE DEF l
<1>5. \E x \in Range(pcbs["udp"]) \cup {"head", Nobody} : cache' = [cache EXCEPT !["udp"] = x]
  BY <1>1, <1>2, <1>3, Zenon
<1> HIDE DEF c
<1>6. PICK x \in Range(pcbs["udp"]) \cup {"head", Nobody} : cache' = [cache EXCEPT !["udp"] = x]
  BY <1>5, Zenon
<1>7. cache' \in [Type -> Sock \cup {"head", Nobody}]
  BY <1>2, <1>4, <1>6, Zenon
<1>8. ASSUME NEW t \in Type PROVE cache'[t] \in Range(pcbs'[t]) \cup {"head", Nobody}
  <2>1. CASE t = "udp"
    BY <2>1, <1>1, <1>2, <1>6, Zenon
  <2>2. CASE t # "udp"
    BY <2>2, <1>1, <1>2, <1>6, Zenon
  <2> QED BY <2>1, <2>2, Zenon
<1>9. PcbTypes'
  BY <1>1, <1>7, Zenon DEF PcbGood, PcbTypes
<1>10. BlocksListed'
  BY <1>1, <1>8, Zenon DEF PcbGood, BlocksListed
<1> QED BY <1>1, <1>9, <1>10, Zenon DEF PcbGood, PortKept, PortApart, AddrKnown

(* An error is noted in sockets, nothing else. *)
LEMMA ByUdpNotify ==
  ASSUME PcbGood, NEW src, UdpNotify(src)
  PROVE  PcbGood'
<1>1. /\ sock' = [s \in Sock |-> IF sock[s].pcb /\ sock[s].type = "udp" /\ sock[s].faddr = src
                                 THEN [sock[s] EXCEPT !.error = TRUE] ELSE sock[s]]
      /\ pcbs' = pcbs /\ lastport' = lastport /\ cache' = cache /\ sending' = sending
  BY Zenon DEF UdpNotify
<1>2. ASSUME NEW s \in Sock
      PROVE  /\ sock'[s] \in SockRec
             /\ sock'[s].pcb = sock[s].pcb /\ sock'[s].type = sock[s].type /\ sock'[s].st = sock[s].st
             /\ sock'[s].lport = sock[s].lport /\ sock'[s].laddr = sock[s].laddr
  <2>1. sock[s] \in SockRec
    BY Facts, Zenon
  <2> DEFINE k == [sock[s] EXCEPT !.error = TRUE]
  <2>2. /\ k \in SockRec /\ k.pcb = sock[s].pcb /\ k.type = sock[s].type /\ k.st = sock[s].st
        /\ k.lport = sock[s].lport /\ k.laddr = sock[s].laddr
    BY <2>1, Zenon DEF SockRec
  <2>3. sock'[s] = k \/ sock'[s] = sock[s]
    BY <1>1, Zenon
  <2> HIDE DEF k
  <2> QED BY <2>1, <2>2, <2>3, Zenon
<1>3. sock' \in [Sock -> SockRec]
  <2>1. DOMAIN sock' = Sock /\ sock' = [s \in Sock |-> sock'[s]]
    BY <1>1, Zenon
  <2> QED BY <1>2, <2>1, Zenon
<1>4. PcbTypes'
  BY <1>1, <1>3, Zenon DEF PcbGood, PcbTypes
<1>5. BlocksListed'
  <2>1. ASSUME NEW t \in Type
        PROVE  /\ IsInjective(pcbs'[t])
               /\ \A q \in Sock : (q \in Range(pcbs'[t])) <=> (sock'[q].pcb /\ sock'[q].type = t)
               /\ cache'[t] \in Range(pcbs'[t]) \cup {"head", Nobody}
    <3>1. ASSUME NEW q \in Sock
          PROVE (q \in Range(pcbs[t])) <=> (sock'[q].pcb /\ sock'[q].type = t)
      <4>1. (q \in Range(pcbs[t])) <=> (sock[q].pcb /\ sock[q].type = t)
        BY Zenon DEF PcbGood, BlocksListed
      <4> QED BY <4>1, <1>2, Zenon
    <3>2. IsInjective(pcbs[t]) /\ cache[t] \in Range(pcbs[t]) \cup {"head", Nobody}
      BY Zenon DEF PcbGood, BlocksListed
    <3> QED BY <3>1, <3>2, <1>1, Zenon
  <2>2. ASSUME NEW q \in Sock PROVE sock'[q].st # "nofd" /\ (sock'[q].pcb => sock'[q].st = "open")
    <3>1. sock[q].st # "nofd" /\ (sock[q].pcb => sock[q].st = "open")
      BY Zenon DEF PcbGood, BlocksListed
    <3> QED BY <3>1, <1>2, Zenon
  <2> QED BY <2>1, <2>2, Zenon DEF BlocksListed
<1>6. ASSUME NEW s \in Sock PROVE PortKept(s)' /\ AddrKnown(s)'
  <2>1. PortKept(s) /\ AddrKnown(s) /\ sending'[s] = sending[s]
    BY <1>1, Facts, Zenon
  <2> QED BY <2>1, <1>2, Zenon DEF PortKept, AddrKnown
<1>7. ASSUME NEW s \in Sock, NEW q \in Sock PROVE PortApart(s, q)'
  <2>1. PortApart(s, q)
    BY Facts, Zenon
  <2> QED BY <2>1, <1>2, Zenon DEF PortApart
<1> QED BY <1>4, <1>5, <1>6, <1>7, Zenon DEF PcbGood

(* At the start there is no block. *)
LEMMA PcbStarts == PcbInit => PcbInv
<1> SUFFICES ASSUME PcbInit PROVE PcbInv
  BY Zenon
<1>1. /\ sock = [s \in Sock |-> Unused] /\ pcbs = [t \in Type |-> <<>>]
      /\ lastport = [t \in Type |-> 0] /\ cache = [t \in Type |-> Nobody]
      /\ sending = [s \in Sock |-> Idle] /\ pcbRaced = FALSE
  BY Zenon DEF PcbInit
<1>2. 0 \in Port /\ 0 \notin (Reserved + 1)..UserReserved /\ <<>> \in Seq(Sock)
  BY PcbAssumption DEF Port
<1>3. PcbTypes
  BY <1>1, <1>2, UnusedIs, Zenon DEF PcbTypes
<1>4. Range(<<>>) = {} /\ IsInjective(<<>>)
  BY DEF Range, IsInjective
<1>5. \A s \in Sock : sock[s] = Unused /\ sending[s] = Idle
  BY <1>1, Zenon
<1>6. \A t \in Type : pcbs[t] = <<>> /\ cache[t] = Nobody
  BY <1>1, Zenon
<1>7. BlocksListed
  BY <1>4, <1>5, <1>6, UnusedIs, Zenon DEF BlocksListed
<1>8. \A s \in Sock : sock[s].pcb = FALSE
  BY <1>5, UnusedIs, Zenon
<1>9. \A s \in Sock : PortKept(s) /\ AddrKnown(s)
  BY <1>5, <1>8, Zenon DEF PortKept, AddrKnown
<1>10. \A s, q \in Sock : PortApart(s, q)
  BY <1>8, Zenon DEF PortApart
<1> QED BY <1>1, <1>3, <1>7, <1>9, <1>10, Zenon DEF PcbInv, PcbGood

(* Every step keeps the lists, the addresses and the ports. *)
LEMMA PcbKeeps == PcbInv /\ [PcbNext]_pcbVars => PcbInv'
<1> SUFFICES ASSUME PcbInv, [PcbNext]_pcbVars PROVE PcbInv'
  BY Zenon
<1>1. CASE UNCHANGED pcbVars
  <2>1. /\ sock' = sock /\ pcbs' = pcbs /\ lastport' = lastport /\ cache' = cache
        /\ sending' = sending /\ pcbRaced' = pcbRaced
    BY <1>1, Zenon DEF pcbVars
  <2>2. PcbGood => PcbGood'
    BY <2>1, Zenon DEF PcbGood, PcbTypes, BlocksListed, PortKept, PortApart, AddrKnown
  <2> QED BY <2>1, <2>2, Zenon DEF PcbInv
<1>2. CASE PcbNext
  <2>1. pcbRaced' \in BOOLEAN /\ (~pcbRaced' => ~pcbRaced)
    <3>1. \/ pcbRaced' = pcbRaced
          \/ \E x \in BOOLEAN : pcbRaced' = (pcbRaced \/ x)
      <4>1. ASSUME NEW s \in Sock, NEW d \in Remote, SendConnect(s, d, 1)
            PROVE  \E x \in BOOLEAN : pcbRaced' = (pcbRaced \/ x)
        <5> DEFINE x == sock[s].lport = 0 /\ \E q \in Sock \ {s} : sending[q] # Idle
        <5>1. x \in BOOLEAN /\ pcbRaced' = (pcbRaced \/ x)
          BY <4>1, Zenon DEF SendConnect
        <5> QED BY <5>1, Zenon
      <4>2. ASSUME NEW s \in Sock, SendDisconnect(s)
            PROVE  \E x \in BOOLEAN : pcbRaced' = (pcbRaced \/ x)
        <5> DEFINE x == sock[s].st # "open"
        <5>1. x \in BOOLEAN /\ pcbRaced' = (pcbRaced \/ x)
          BY <4>2, Zenon DEF SendDisconnect
        <5> QED BY <5>1, Zenon
      <4>3. ASSUME NEW s \in Sock, Soclose(s)
            PROVE  \E x \in BOOLEAN : pcbRaced' = (pcbRaced \/ x)
        <5> DEFINE x == sending[s] # Idle
        <5>1. x \in BOOLEAN /\ pcbRaced' = (pcbRaced \/ x)
          BY <4>3, Zenon DEF Soclose
        <5> QED BY <5>1, Zenon
      <4>4. ASSUME NEW s \in Sock, NEW t \in Type, Socreate(s, t) PROVE pcbRaced' = pcbRaced
        BY <4>4, Zenon DEF Socreate
      <4>5. ASSUME NEW s \in Sock, Solisten(s) PROVE pcbRaced' = pcbRaced
        BY <4>5, Zenon DEF Solisten
      <4>6. ASSUME NEW s \in Sock, TcpConnect(s) PROVE pcbRaced' = pcbRaced
        BY <4>6, Zenon DEF TcpConnect
      <4>7. ASSUME NEW s \in Sock, TcpShutdown(s) PROVE pcbRaced' = pcbRaced
        BY <4>7, Zenon DEF TcpShutdown
      <4>8. ASSUME NEW s \in Sock, NEW d, NEW l, NEW p, NEW syn, TcpInput(s, d, 1, l, p, syn) PROVE pcbRaced' = pcbRaced
        BY <4>8, Zenon DEF TcpInput
      <4>9. ASSUME NEW d, NEW p, UdpInput(d, 1, p) PROVE pcbRaced' = pcbRaced
        BY <4>9, Zenon DEF UdpInput
      <4>10. ASSUME NEW d, UdpNotify(d) PROVE pcbRaced' = pcbRaced
        BY <4>10, Zenon DEF UdpNotify
      <4> QED BY <1>2, <4>1, <4>2, <4>3, <4>4, <4>5, <4>6, <4>7, <4>8, <4>9, <4>10, Zenon DEF PcbNext
    <3> QED BY <3>1, Zenon DEF PcbInv
  <2>2. ASSUME ~pcbRaced' PROVE PcbGood'
    <3>1. PcbGood
      BY <2>1, <2>2, Zenon DEF PcbInv
    <3>2. ASSUME NEW s \in Sock, NEW d \in Remote, SendConnect(s, d, 1) PROVE PcbGood'
      <4>1. ~(sock[s].lport = 0 /\ \E q \in Sock \ {s} : sending[q] # Idle)
        BY <2>2, <3>2, Zenon DEF SendConnect
      <4> QED BY <4>1, <3>1, <3>2, BySendConnect, Zenon
    <3>3. ASSUME NEW s \in Sock, Soclose(s) PROVE PcbGood'
      <4>1. sending[s] = Idle
        BY <2>2, <3>3, Zenon DEF Soclose
      <4> QED BY <4>1, <3>1, <3>3, BySoclose, Zenon
    <3> QED BY <1>2, <3>1, <3>2, <3>3, BySocreate, BySendDisconnect, BySolisten, ByTcpConnect,
               ByTcpShutdown, ByTcpInput, ByUdpInput, ByUdpNotify, Zenon DEF PcbNext
  <2> QED BY <2>1, <2>2, Zenon DEF PcbInv
<1> QED BY <1>1, <1>2, Zenon

(* For any sockets, remote addresses and ports.  Until a socket changes    *)
(* under a sendto, the lists udb and tcb have each block once and of a     *)
(* socket in use, the caches point into them, and in_pcbbind gives no port *)
(* twice, nor one of the range for explicit binds (socreate, in_pcbbind,   *)
(* in_pcbconnect, in_pcbdetach, sofree, tcp_close).                        *)
THEOREM PcbsAlwaysNamed == PcbSpec => []PcbsNamed
<1>1. PcbInit => PcbInv
  BY PcbStarts, Zenon
<1>2. PcbInv /\ [PcbNext]_pcbVars => PcbInv'
  BY PcbKeeps, Zenon
<1>3. PcbInv => PcbsNamed
  <2> SUFFICES ASSUME PcbInv PROVE PcbsAgree /\ PortsDiffer
    BY Zenon DEF PcbsNamed
  <2>1. CASE pcbRaced
    BY <2>1, Zenon DEF PcbsAgree, PortsDiffer
  <2>2. CASE ~pcbRaced
    <3>1. PcbGood /\ PcbTypes /\ BlocksListed
      BY <2>2, Zenon DEF PcbInv, PcbGood
    <3>2. ASSUME NEW t \in Type, NEW i \in DOMAIN pcbs[t]
          PROVE  /\ pcbs[t][i] \in Sock /\ pcbs[t][i] \in Range(pcbs[t])
                 /\ sock[pcbs[t][i]].pcb /\ sock[pcbs[t][i]].type = t /\ sock[pcbs[t][i]].st = "open"
      <4>1. pcbs[t] \in Seq(Sock)
        BY <3>1, Zenon DEF PcbTypes
      <4>2. pcbs[t][i] \in Sock
        BY <4>1
      <4>3. pcbs[t][i] \in Range(pcbs[t])
        BY Zenon DEF Range
      <4> QED BY <4>2, <4>3, <3>1, Zenon DEF BlocksListed
    <3>3. ASSUME NEW s \in Sock
          PROVE  (sock[s].pcb => s \in Range(pcbs[sock[s].type])) /\ sock[s].st # "nofd"
      <4>1. sock[s].type \in Type
        <5>1. sock[s] \in SockRec
          BY <3>1, Zenon DEF PcbTypes
        <5> QED BY <5>1, Zenon DEF SockRec
      <4> QED BY <4>1, <3>1, Zenon DEF BlocksListed
    <3>4. PcbsAgree
      BY <3>1, <3>2, <3>3, Zenon DEF PcbsAgree, BlocksListed
    <3>5. ASSUME NEW t \in Type, NEW i \in DOMAIN pcbs[t], NEW j \in DOMAIN pcbs[t],
                 sock[pcbs[t][i]].lport # 0
          PROVE  /\ sock[pcbs[t][i]].lport \notin (Reserved + 1)..UserReserved
                 /\ i # j => sock[pcbs[t][i]].lport # sock[pcbs[t][j]].lport
      <4> DEFINE a == pcbs[t][i]
                 b == pcbs[t][j]
      <4>1. /\ a \in Sock /\ sock[a].pcb /\ sock[a].type = t
            /\ b \in Sock /\ sock[b].pcb /\ sock[b].type = t
        BY <3>2, Zenon
      <4>2. i # j => a # b
        BY <3>1, Zenon DEF BlocksListed, IsInjective
      <4> HIDE DEF a, b
      <4>3. PortKept(a) /\ PortApart(a, b)
        BY <4>1, <3>1, Zenon DEF PcbGood
      <4>4. sock[a].lport # 0
        BY <3>5, Zenon DEF a
      <4>5. sock[a].lport \notin (Reserved + 1)..UserReserved /\ (i # j => sock[a].lport # sock[b].lport)
        BY <4>1, <4>2, <4>3, <4>4, Zenon DEF PortKept, PortApart
      <4> QED BY <4>5, Zenon DEF a, b
    <3>6. PortsDiffer
      BY <3>5, Zenon DEF PortsDiffer
    <3> QED BY <3>4, <3>6, Zenon
  <2> QED BY <2>1, <2>2, Zenon
<1> QED BY <1>1, <1>2, <1>3, PTL DEF PcbSpec
=============================================================================
