------------------------------ MODULE Sockets -------------------------------
(***************************************************************************)
(* The receive buffer of a datagram socket (Kernel/net/uipc_socket.c,      *)
(* uipc_socket2.c, Include/kernel/sys/socketval.h).  Readers are processes *)
(* in soreceive; the network thread appends datagrams (sbappendaddr) and   *)
(* wakes readers; a reader may shut the socket down (sorflush).  Threads   *)
(* are preempted between any two accesses to the buffer: its lock is a     *)
(* flag that is tested and then set, and its network side takes none.      *)
(***************************************************************************)
EXTENDS Integers, Sequences

CONSTANTS Reader,
          Modes,      \* recv flags: "", "DONTWAIT", "PEEK", "NBIO"
          DLen,       \* data bytes of a datagram (its name is 1)
          HiWat,      \* sb_hiwat
          MaxDgram,   \* bound: datagrams that arrive
          MaxRecv     \* bound: recv calls

VARIABLES sb_mb,      \* first record, or Nil
          m_nextpkt,  \* record -> next record
          m_len,      \* data bytes left in the record
          sb_cc, sb_mbcnt, sb_flags,
          shut,       \* SS_CANTRCVMORE
          so_error,
          npc, ntail, \* network thread: step, tail it found
          rpc, rmode, rresid, rnext, rgot, \* each reader's step and locals
          missed,     \* history: readers a wakeup passed over before they slept
          raced,      \* history: two threads were inside the chain at once
          arrived, taken, recvs

sockVars == <<sb_mb, m_nextpkt, m_len, sb_cc, sb_mbcnt, sb_flags, shut, so_error,
              npc, ntail, rpc, rmode, rresid, rnext, rgot, missed, raced,
              arrived, taken, recvs>>

Nil == 0
Dgram == 1..MaxDgram
NameLen1 == 1   \* bytes of the MT_SONAME buffer, in the unit of DLen

SockBufInit ==
  /\ sb_mb = Nil /\ m_nextpkt = [d \in Dgram |-> Nil] /\ m_len = [d \in Dgram |-> DLen]
  /\ sb_cc = 0 /\ sb_mbcnt = 0 /\ sb_flags = {} /\ shut = FALSE /\ so_error = FALSE
  /\ npc = "idle" /\ ntail = Nil
  /\ rpc = [r \in Reader |-> "idle"] /\ rmode = [r \in Reader |-> ""]
  /\ rresid = [r \in Reader |-> 0] /\ rnext = [r \in Reader |-> Nil]
  /\ rgot = [r \in Reader |-> Nil]
  /\ missed = {} /\ raced = FALSE
  /\ arrived = 0 /\ taken = <<>> /\ recvs = 0

(* Readers between sblock and sbunlock, and those with a saved pointer. *)
Inside == {r \in Reader : rpc[r] \in {"check", "name", "relink", "data", "head", "drop"}}
MidTake == {r \in Reader : rpc[r] \in {"relink", "data", "head", "drop"}}

(* The records a walk from sb_mb along m_nextpkt meets. *)
Records ==
  LET Upto[k \in 0..MaxDgram] ==
        IF k = 0 THEN IF sb_mb = Nil THEN <<>> ELSE <<sb_mb>>
        ELSE LET s == Upto[k - 1]
             IN  IF s = <<>> \/ m_nextpkt[s[Len(s)]] = Nil \/ Len(s) >= MaxDgram THEN s
                 ELSE Append(s, m_nextpkt[s[Len(s)]])
  IN  Upto[MaxDgram]

(* sb_wakeup: every thread on a wait queue runs again. *)
Woken(q) == [r \in Reader |-> IF rpc[r] = q THEN (IF q = "waitq" THEN "lock" ELSE "want")
                              ELSE rpc[r]]

(* A slip: the flag is cleared and nobody is woken. *)
Sowakeup_none(pcs, fl) == [pcs |-> pcs, flags |-> fl \ {"WAIT"}]

(* sowakeup: wake the readers if the flag says that one waits. *)
Sowakeup(pcs, fl) ==
  [pcs |-> IF "WAIT" \in fl
           THEN [r \in Reader |-> IF pcs[r] = "waitq" THEN "lock" ELSE pcs[r]] ELSE pcs,
   flags |-> fl \ {"WAIT"}]

PassedOver == {r \in Reader : rpc[r] \in {"nap", "sleep"}}

(* sbunlock, with the wakeup of those who want the lock. *)
Sbunlock(r, after) ==
  /\ sb_flags' = sb_flags \ {"LOCK", "WANT"}
  /\ rpc' = [q \in Reader |->
               IF q = r THEN after
               ELSE IF rpc[q] = "lockq" /\ "WANT" \in sb_flags THEN "want" ELSE rpc[q]]
  /\ missed' = (missed \ {r}) \cup {q \in Reader \ {r} : rpc[q] \in {"dozing", "wanted"}}
-----------------------------------------------------------------------------
(* The network thread.  sbappendaddr checks the space, counts the record   *)
(* and walks to the tail; links it; then sorwakeup.                        *)
Space == HiWat - sb_cc

AppendScan ==
  /\ npc = "idle" /\ arrived < MaxDgram
  /\ arrived' = arrived + 1
  /\ IF NameLen1 + DLen > (IF shut THEN 0 ELSE Space)
     THEN /\ taken' = Append(taken, -arrived')       \* no room: the datagram is dropped
          /\ UNCHANGED <<npc, ntail, sb_cc, sb_mbcnt, raced>>
     ELSE /\ sb_cc' = sb_cc + NameLen1 + DLen
          /\ sb_mbcnt' = sb_mbcnt + 2
          /\ ntail' = IF sb_mb = Nil THEN Nil ELSE Records[Len(Records)]
          /\ npc' = "link"
          /\ raced' = (raced \/ MidTake # {})
          /\ taken' = taken
  /\ UNCHANGED <<sb_mb, m_nextpkt, m_len, sb_flags, shut, so_error, rpc, rmode, rresid,
                 rnext, rgot, missed, recvs>>

AppendLink ==
  /\ npc = "link" /\ npc' = "wake"
  /\ IF ntail = Nil THEN sb_mb' = arrived /\ m_nextpkt' = m_nextpkt
                    ELSE m_nextpkt' = [m_nextpkt EXCEPT ![ntail] = arrived] /\ sb_mb' = sb_mb
  /\ raced' = (raced \/ MidTake # {})
  /\ UNCHANGED <<m_len, sb_cc, sb_mbcnt, sb_flags, shut, so_error, ntail, rpc, rmode, rresid,
                 rnext, rgot, missed, arrived, taken, recvs>>

AppendWake ==
  /\ npc = "wake" /\ npc' = "idle"
  /\ rpc' = Sowakeup(rpc, sb_flags).pcs
  /\ sb_flags' = Sowakeup(rpc, sb_flags).flags
  /\ missed' = missed \cup PassedOver
  /\ UNCHANGED <<sb_mb, m_nextpkt, m_len, sb_cc, sb_mbcnt, shut, so_error, ntail, rmode,
                 rresid, rnext, rgot, raced, arrived, taken, recvs>>

(* udp_notify: an ICMP error is left in so_error and both sides are woken. *)
Notify ==
  /\ npc = "idle" /\ ~so_error /\ so_error' = TRUE
  /\ rpc' = Sowakeup(rpc, sb_flags).pcs
  /\ sb_flags' = Sowakeup(rpc, sb_flags).flags
  /\ missed' = missed \cup PassedOver
  /\ UNCHANGED <<sb_mb, m_nextpkt, m_len, sb_cc, sb_mbcnt, shut, npc, ntail, rmode,
                 rresid, rnext, rgot, raced, arrived, taken, recvs>>
-----------------------------------------------------------------------------
(* soreceive.  The steps from the call to the lock: *)
Recv(r, mode, n) ==
  /\ rpc[r] = "idle" /\ recvs < MaxRecv
  /\ recvs' = recvs + 1
  /\ rpc' = [rpc EXCEPT ![r] = "lock"]
  /\ rmode' = [rmode EXCEPT ![r] = mode]
  /\ rresid' = [rresid EXCEPT ![r] = n]
  /\ UNCHANGED <<sb_mb, m_nextpkt, m_len, sb_cc, sb_mbcnt, sb_flags, shut, so_error, npc,
                 ntail, rnext, rgot, missed, raced, arrived, taken>>

(* sblock: the value of the comma expression is always 0, so a caller that *)
(* does not wait goes on without the lock.                                 *)
Sblock(r) ==
  /\ rpc[r] = "lock"
  /\ rpc' = [rpc EXCEPT ![r] = IF "LOCK" \notin sb_flags THEN "setlock"
                               ELSE IF rmode[r] = "DONTWAIT" THEN "check" ELSE "want"]
  /\ missed' = missed \ {r}
  /\ UNCHANGED <<sb_mb, m_nextpkt, m_len, sb_cc, sb_mbcnt, sb_flags, shut, so_error, npc,
                 ntail, rmode, rresid, rnext, rgot, raced, arrived, taken, recvs>>

(* sb_lock: while the lock is held, ask for a wakeup and sleep. *)
SbLockLoop(r) ==
  /\ \/ /\ rpc[r] = "want"
        /\ rpc' = [rpc EXCEPT ![r] = IF "LOCK" \in sb_flags THEN "wanted" ELSE "setlock"]
        /\ missed' = missed \ {r} /\ sb_flags' = sb_flags
     \/ /\ rpc[r] = "wanted"
        /\ rpc' = [rpc EXCEPT ![r] = "dozing"]
        /\ sb_flags' = sb_flags \cup {"WANT"} /\ missed' = missed
     \/ /\ rpc[r] = "dozing"
        /\ rpc' = [rpc EXCEPT ![r] = "lockq"]
        /\ sb_flags' = sb_flags /\ missed' = missed
  /\ UNCHANGED <<sb_mb, m_nextpkt, m_len, sb_cc, sb_mbcnt, shut, so_error, npc, ntail,
                 rmode, rresid, rnext, rgot, raced, arrived, taken, recvs>>

SetLock(r) ==
  /\ rpc[r] = "setlock"
  /\ sb_flags' = sb_flags \cup {"LOCK"}
  /\ rpc' = [rpc EXCEPT ![r] = "check"]
  /\ UNCHANGED <<sb_mb, m_nextpkt, m_len, sb_cc, sb_mbcnt, shut, so_error, npc, ntail,
                 rmode, rresid, rnext, rgot, missed, raced, arrived, taken, recvs>>

(* With the lock: an empty buffer ends the call (error, shutdown, no       *)
(* waiting) or makes the reader wait for data.                             *)
Check(r) ==
  /\ rpc[r] = "check"
  /\ IF sb_mb # Nil
     THEN /\ rpc' = [rpc EXCEPT ![r] = "name"]
          /\ rgot' = [rgot EXCEPT ![r] = sb_mb]
          /\ UNCHANGED <<sb_flags, missed, so_error>>
     ELSE /\ IF so_error \/ shut \/ rmode[r] \in {"DONTWAIT", "NBIO"}
             THEN Sbunlock(r, "idle") ELSE Sbunlock(r, "nap")
          /\ so_error' = (so_error /\ rmode[r] = "PEEK")
          /\ rgot' = rgot
  /\ raced' = (raced \/ Inside # {r})
  /\ UNCHANGED <<sb_mb, m_nextpkt, m_len, sb_cc, sb_mbcnt, shut, npc, ntail, rmode, rresid,
                 rnext, arrived, taken, recvs>>

(* sbwait: set SB_WAIT; then pt_wait_on puts the thread to sleep. *)
Sbwait(r) ==
  /\ \/ /\ rpc[r] = "nap"
        /\ rpc' = [rpc EXCEPT ![r] = "sleep"]
        /\ sb_flags' = sb_flags \cup {"WAIT"}
     \/ /\ rpc[r] = "sleep"
        /\ rpc' = [rpc EXCEPT ![r] = "waitq"]
        /\ sb_flags' = sb_flags
  /\ UNCHANGED <<sb_mb, m_nextpkt, m_len, sb_cc, sb_mbcnt, shut, so_error, npc, ntail,
                 rmode, rresid, rnext, rgot, missed, raced, arrived, taken, recvs>>

(* The receive timeout (SO_RCVTIMEO) wakes the reader; sbsleep returns 0   *)
(* and soreceive starts again.                                             *)
Timeout(r) ==
  /\ rpc[r] = "waitq"
  /\ rpc' = [rpc EXCEPT ![r] = "lock"]
  /\ UNCHANGED <<sb_mb, m_nextpkt, m_len, sb_cc, sb_mbcnt, sb_flags, shut, so_error, npc,
                 ntail, rmode, rresid, rnext, rgot, missed, raced, arrived, taken,
                 recvs>>

(* PR_ADDR: the name leaves the chain; the data buffer, whose m_nextpkt is *)
(* not yet set, becomes the head.  A peek changes nothing.                 *)
TakeName(r) ==
  /\ rpc[r] = "name"
  /\ IF rmode[r] = "PEEK"
     THEN Sbunlock(r, "idle") /\ UNCHANGED <<m_nextpkt, rnext, sb_cc, sb_mbcnt, raced>>
     ELSE /\ rnext' = [rnext EXCEPT ![r] = m_nextpkt[rgot[r]]]
          /\ m_nextpkt' = [m_nextpkt EXCEPT ![rgot[r]] = Nil]
          /\ sb_cc' = sb_cc - NameLen1 /\ sb_mbcnt' = sb_mbcnt - 1
          /\ rpc' = [rpc EXCEPT ![r] = "relink"]
          /\ raced' = (raced \/ npc = "link" \/ MidTake # {} \/ Inside # {r})
          /\ UNCHANGED <<sb_flags, missed>>
  /\ UNCHANGED <<sb_mb, m_len, shut, so_error, npc, ntail, rmode, rresid, rgot, arrived,
                 taken, recvs>>

(* A slip: the saved next record is not put back. *)
Relink_not(r) ==
  /\ rpc[r] = "relink"
  /\ rpc' = [rpc EXCEPT ![r] = "data"]
  /\ UNCHANGED <<sb_mb, m_nextpkt, m_len, sb_cc, sb_mbcnt, sb_flags, shut, so_error, npc,
                 ntail, rmode, rresid, rnext, rgot, missed, raced, arrived, taken, recvs>>

Relink(r) ==
  /\ rpc[r] = "relink"
  /\ m_nextpkt' = [m_nextpkt EXCEPT ![rgot[r]] = rnext[r]]
  /\ rpc' = [rpc EXCEPT ![r] = "data"]
  /\ UNCHANGED <<sb_mb, m_len, sb_cc, sb_mbcnt, sb_flags, shut, so_error, npc, ntail, rmode,
                 rresid, rnext, rgot, missed, raced, arrived, taken, recvs>>

(* The data: all of it frees the buffer; a part of it leaves the rest.     *)
TakeData(r) ==
  /\ rpc[r] = "data"
  /\ LET d == rgot[r]
     IN  /\ IF rresid[r] >= m_len[d]
            THEN /\ rnext' = [rnext EXCEPT ![r] = m_nextpkt[d]]
                 /\ sb_cc' = sb_cc - m_len[d] /\ sb_mbcnt' = sb_mbcnt - 1
                 /\ sb_mb' = Nil /\ m_len' = [m_len EXCEPT ![d] = 0]
                 /\ rpc' = [rpc EXCEPT ![r] = "head"]
            ELSE /\ m_len' = [m_len EXCEPT ![d] = @ - rresid[r]]
                 /\ sb_cc' = sb_cc - rresid[r]
                 /\ rpc' = [rpc EXCEPT ![r] = "drop"]
                 /\ UNCHANGED <<rnext, sb_mb, sb_mbcnt>>
         /\ taken' = Append(taken, d)
  /\ UNCHANGED <<m_nextpkt, sb_flags, shut, so_error, npc, ntail, rmode, rresid, rgot,
                 missed, raced, arrived, recvs>>

(* The first record, all of it, leaves the buffer. *)
sbdroprecord ==
  /\ sb_mb' = m_nextpkt[sb_mb]
  /\ sb_cc' = sb_cc - m_len[sb_mb] /\ sb_mbcnt' = sb_mbcnt - 1

(* The next record becomes the head; sbdroprecord first drops what a short *)
(* read left of an atomic datagram.  Then the lock is released.            *)
EndRecv(r) ==
  /\ rpc[r] \in {"head", "drop"}
  /\ IF rpc[r] = "head"
     THEN sb_mb' = rnext[r] /\ UNCHANGED <<sb_cc, sb_mbcnt>>
     ELSE sbdroprecord
  /\ Sbunlock(r, "idle")
  /\ UNCHANGED <<m_nextpkt, m_len, shut, so_error, npc, ntail, rmode, rresid, rnext, rgot,
                 raced, arrived, taken, recvs>>

(* soshutdown for reading, sorflush: with the lock, wake the readers;      *)
(* then take all buffers and clear the structure, its queues included.     *)
Sorflush(r) ==
  /\ rpc[r] = "idle" /\ ~shut /\ "LOCK" \notin sb_flags
  /\ shut' = TRUE
  /\ rpc' = Woken("waitq")
  /\ sb_flags' = {} /\ sb_mb' = Nil /\ sb_cc' = 0 /\ sb_mbcnt' = 0
  /\ taken' = taken \o [k \in DOMAIN Records |-> -Records[k]]
  /\ missed' = missed \cup PassedOver
  /\ raced' = (raced \/ npc # "idle" \/ \E q \in Reader : rpc[q] \in {"lockq", "dozing", "setlock"}
                     \/ Inside # {})
  /\ UNCHANGED <<m_nextpkt, m_len, so_error, npc, ntail, rmode, rresid, rnext, rgot,
                 arrived, recvs>>

SockBufNext ==
  \/ AppendScan \/ AppendLink \/ AppendWake \/ Notify
  \/ \E r \in Reader :
       \/ \E mode \in Modes, n \in {1, DLen} : Recv(r, mode, n)
       \/ Sblock(r) \/ SbLockLoop(r) \/ SetLock(r) \/ Check(r) \/ Sbwait(r) \/ Timeout(r)
       \/ TakeName(r) \/ Relink(r) \/ TakeData(r) \/ EndRecv(r) \/ Sorflush(r)

SockBufSpec == SockBufInit /\ [][SockBufNext]_sockVars
-----------------------------------------------------------------------------
(* Unless two threads were in the chain at once, no datagram is lost or    *)
(* read twice and none overtakes another: those taken or dropped, then the *)
(* ones in the buffer, are those that arrived, in order; and sb_cc and     *)
(* sb_mbcnt count what is there.  (sbappendaddr, soreceive, sbdroprecord,  *)
(* sorflush)                                                               *)
Delivered ==
  (~raced /\ npc # "link" /\ MidTake = {}) =>
    LET q == Records
        seen == [k \in DOMAIN taken |-> IF taken[k] < 0 THEN -taken[k] ELSE taken[k]]
    IN  /\ {seen[k] : k \in DOMAIN seen} \cup {q[k] : k \in DOMAIN q} = 1..arrived
        /\ Len(seen) + Len(q) = arrived
        /\ \A j, k \in DOMAIN taken : (j < k /\ taken[j] > 0 /\ taken[k] > 0) => taken[j] < taken[k]
        /\ \A j, k \in DOMAIN q : j < k => q[j] < q[k]
        /\ sb_cc = Len(q) * (NameLen1 + DLen) /\ sb_mbcnt = 2 * Len(q)

(* A reader sleeps for data only while there is none and more may come,    *)
(* and for the lock only while it is held, unless the wakeup came between  *)
(* its check and its sleep.  (sbwait, sb_lock, sowakeup, sbunlock)         *)
SleepsForCause ==
  ~raced =>
    \A r \in Reader \ missed :
      /\ rpc[r] = "waitq" => (sb_mb = Nil \/ npc = "wake") /\ ~shut
      /\ rpc[r] = "lockq" => "LOCK" \in sb_flags

SockSound == ~raced

(* Datagrams reach the readers whole, once and in order, and no reader     *)
(* sleeps while there is something for it.                                 *)
ReceiveHolds == Delivered /\ SleepsForCause

(***************************************************************************)
(* Sending on a datagram socket (Kernel/net/uipc_socket.c): sosend cuts    *)
(* the caller's bytes into buffers and hands a chain to the protocol,      *)
(* which for a protocol with PR_ATOMIC must get them in one piece.  The    *)
(* send buffer itself stays empty: the protocol sends at once.  Its size   *)
(* is the one soreserve gave it: ksetsockopt passes a buffer with m_len 0, *)
(* which sosetopt refuses for every option that has a value.               *)
(***************************************************************************)
CONSTANTS MLen, MHLen, MClBytes, MinClSize, max_hdr, MSize, \* buffer sizes
          sb_max,     \* SB_MAX
          SendSizes,  \* bytes of a sendto
          BufSizes    \* send space that a protocol asks for (soreserve)

ASSUME SendAssumption ==
  /\ {MLen, MHLen, MinClSize, max_hdr, MSize, sb_max} \subseteq Nat
  /\ MClBytes \in Nat \ {0} /\ max_hdr <= MClBytes
  /\ SendSizes \subseteq Nat /\ BufSizes \subseteq Nat

VARIABLES hiwat, mbmax, lowat, \* so_snd
          spc,                 \* step of sosend
          resid, space, top,   \* its locals: bytes left, room, buffer lengths so far
          size,                \* history: bytes the caller sends
          sent,                \* history: lengths of the chains handed down
          fails                \* history: the protocol refused one

sendVars == <<hiwat, mbmax, lowat, spc, resid, space, top, size, sent, fails>>

Smaller(a, b) == IF a < b THEN a ELSE b
Total(s) ==
  LET Upto[k \in 0..Len(s)] == IF k = 0 THEN 0 ELSE Upto[k - 1] + s[k]
  IN  Upto[Len(s)]

(* sbreserve: refuse what would need more than sb_max with its buffers;    *)
(* sb_mbmax allows twice the bytes.                                        *)
CanReserve(cc) == cc <= (sb_max * MClBytes) \div (MSize + MClBytes)

SockSendInit ==
  /\ hiwat \in {n \in BufSizes : CanReserve(n)} /\ mbmax = Smaller(hiwat * 2, sb_max)
  /\ lowat = Smaller(MClBytes, hiwat)
  /\ spc = "idle" /\ resid = 0 /\ space = 0 /\ top = <<>> /\ size = 0 /\ sent = <<>>
  /\ fails = FALSE

(* sosend: too large for the buffer is EMSGSIZE.  With so_snd empty the    *)
(* space is that of the limits, and no call waits.                         *)
Sosend(n) ==
  /\ spc = "idle"
  /\ n <= hiwat
  /\ size' = n /\ resid' = n /\ sent' = <<>> /\ top' = <<>> /\ fails' = FALSE
  /\ space' = Smaller(hiwat, mbmax)
  /\ spc' = "fill"
  /\ UNCHANGED <<hiwat, mbmax, lowat>>

(* A slip: the room is used up by the bytes, not by the cluster, and the   *)
(* loop ends a buffer early.                                               *)
Fill_early ==
  LET big == resid >= MinClSize /\ space >= MClBytes
      first == top = <<>>
      len == IF big THEN Smaller(IF first THEN MClBytes - max_hdr ELSE MClBytes, resid)
             ELSE Smaller(Smaller(IF first THEN MHLen ELSE MLen, resid), space)
  IN  /\ spc = "fill"
      /\ space' = space - len
      /\ top' = Append(top, len)
      /\ resid' = resid - len
      /\ spc' = IF Len(top') < 2 /\ resid' > 0 /\ space' > 0 THEN "fill" ELSE "send"
      /\ UNCHANGED <<hiwat, mbmax, lowat, size, sent, fails>>

(* One more buffer: a cluster for much data, with room in front of the     *)
(* first for the headers; else a small one.  The chain is complete when    *)
(* the bytes or the space are used up.                                     *)
Fill ==
  LET big == resid >= MinClSize /\ space >= MClBytes
      first == top = <<>>
      len == IF big THEN Smaller(IF first THEN MClBytes - max_hdr ELSE MClBytes, resid)
             ELSE Smaller(Smaller(IF first THEN MHLen ELSE MLen, resid), space)
  IN  /\ spc = "fill"
      /\ space' = space - (IF big THEN MClBytes ELSE len)
      /\ top' = Append(top, len)
      /\ resid' = resid - len
      /\ spc' = IF resid' > 0 /\ space' > 0 THEN "fill" ELSE "send"
      /\ UNCHANGED <<hiwat, mbmax, lowat, size, sent, fails>>

(* PRU_SEND.  An error ends the call; bytes that are left start over with  *)
(* new space.                                                              *)
HandDown(err) ==
  /\ spc = "send"
  /\ sent' = Append(sent, Total(top)) /\ top' = <<>>
  /\ fails' = err
  /\ IF err \/ resid = 0 THEN spc' = "done" /\ space' = space
     ELSE /\ spc' = "fill"
          /\ space' = IF space > 0 THEN space ELSE Smaller(hiwat, mbmax)
  /\ UNCHANGED <<hiwat, mbmax, lowat, resid, size>>

Return ==
  /\ spc = "done" /\ spc' = "idle"
  /\ size' = 0 /\ resid' = 0 /\ space' = 0 /\ sent' = <<>> /\ fails' = FALSE
  /\ UNCHANGED <<hiwat, mbmax, lowat, top>>

SockSendNext ==
  \/ \E n \in SendSizes : Sosend(n)
  \/ Fill
  \/ \E err \in BOOLEAN : HandDown(err)
  \/ Return

SockSendSpec == SockSendInit /\ [][SockSendNext]_sendVars
-----------------------------------------------------------------------------
(* A datagram that leaves room for the headers goes down in one piece and  *)
(* whole, whatever the send space is; one that fills the space to within   *)
(* max_hdr may be cut in two, because a first cluster takes all of its     *)
(* space and holds max_hdr bytes less.  No byte is sent twice.             *)
SentWhole ==
  (spc = "done" /\ ~fails) =>
    /\ Total(sent) = size
    /\ size + max_hdr <= hiwat => Len(sent) = 1
=============================================================================
