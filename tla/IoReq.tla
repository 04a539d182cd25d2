------------------------------- MODULE IoReq -------------------------------
(***************************************************************************)
(* The I/O requests of Kernel/io_dev.c: callers queue a request and sleep  *)
(* on its wait queue; the io_scheduler thread takes requests off           *)
(* io_request_list_head, hands each to its device and wakes the caller.    *)
(* io_schedule and io_post_request change the list with interrupts on, so  *)
(* their list operations are split into their statements.  Any thread that *)
(* is awake may take the next step (Sched.tla models who is chosen).  The  *)
(* console is the device here; Ahci.tla adds the disk.                     *)
(***************************************************************************)
EXTENDS ListOps, Integers, FiniteSets

CONSTANTS User,    \* the threads in io_request, each with one request
          Disk,    \* those in block_read or block_write: the others write a tty
          Async,   \* those with IO_AYSNC set: writers of an O_NONBLOCK tty
          Io,      \* io_scheduler
          Root     \* io_request_list_head

ASSUME IoAssumption ==
  /\ Disk \subseteq User /\ Async \subseteq User \ Disk
  /\ Io \notin User /\ Root \notin User

Thread == User \cup {Io}

VARIABLES m,         \* the pointers of io_request_list_head and of req->list
          io_state,  \* req->io_state of each caller's request; "freed" if none
          asleep,    \* the queue a thread sleeps on, or "no"
          pc,        \* where each caller is
          iopc, req, \* where io_schedule is, and its req
          torn,      \* history: a list operation ran inside another one
          missed     \* history: callers whose wake-up came before io_wait

ioVars == <<m, io_state, asleep, pc, iopc, req, torn, missed>>

IoInit ==
  /\ m = [next |-> [n \in User \cup {Root} |-> n],
          prev |-> [n \in User \cup {Root} |-> n]]
  /\ io_state = [u \in User |-> "freed"]
  /\ asleep = [t \in Thread |-> "no"]
  /\ pc = [u \in User |-> "idle"]
  /\ iopc = "top" /\ req = Root
  /\ torn = FALSE /\ missed = {}

(* A list operation of another thread is under way. *)
MidOp(t) ==
  \/ t # Io /\ iopc \in {"del2", "del3"}
  \/ \E u \in User \ {t} : pc[u] \in {"post2", "post3", "post4"}

Write(t, mem) == m' = mem /\ torn' = (torn \/ MidOp(t))

Goto(u, l) == pc' = [pc EXCEPT ![u] = l]

pt_wakeup(t) == asleep' = [asleep EXCEPT ![t] = "no"]

(* io_create_req_blk and io_create_req_chr, then the choice in io_request. *)
CreateReq(u) ==
  /\ pc[u] = "idle"
  /\ io_state' = [io_state EXCEPT ![u] = "PENDING"]
  /\ m' = SetPrev(SetNext(m, u, u), u, u)
  /\ Goto(u, IF u \in Async THEN "post1" ELSE "send")
  /\ missed' = missed \ {u}
  /\ UNCHANGED <<asleep, iopc, req, torn>>

SendWake(u) ==
  /\ pc[u] = "send"
  /\ pt_wakeup(Io)
  /\ Goto(u, "queue")
  /\ UNCHANGED <<m, io_state, iopc, req, torn, missed>>

(* A slip: the entry's predecessor is not linked to it. *)
SendQueue_half(u) ==
  /\ pc[u] = "queue"
  /\ Write(u, list_add_tail_half(m, Root, u))
  /\ asleep' = [asleep EXCEPT ![u] = "req"]
  /\ Goto(u, "sent")
  /\ UNCHANGED <<io_state, iopc, req, missed>>

(* io_send_request with interrupts off: queue the request, io_wait. *)
SendQueue(u) ==
  /\ pc[u] = "queue"
  /\ Write(u, list_add_tail(m, Root, u))
  /\ asleep' = [asleep EXCEPT ![u] = "req"]
  /\ Goto(u, "sent")
  /\ UNCHANGED <<io_state, iopc, req, missed>>

(* Back from io_wait: again if IO_PENDING, else return and io_free_req. *)
SendCheck(u) ==
  /\ pc[u] = "sent" /\ asleep[u] = "no"
  /\ IF io_state[u] = "PENDING"
     THEN Goto(u, "send") /\ UNCHANGED io_state
     ELSE Goto(u, "idle") /\ io_state' = [io_state EXCEPT ![u] = "freed"]
  /\ UNCHANGED <<m, asleep, iopc, req, torn, missed>>

(* io_post_request: list_add_tail, statement by statement. *)
PostLink(u) ==
  /\ \/ /\ pc[u] = "post1"
        /\ Write(u, SetNext(m, m.prev[Root], u))
        /\ Goto(u, "post2")
     \/ /\ pc[u] = "post2"
        /\ Write(u, SetNext(m, u, Root))
        /\ Goto(u, "post3")
     \/ /\ pc[u] = "post3"
        /\ Write(u, SetPrev(m, u, m.prev[Root]))
        /\ Goto(u, "post4")
     \/ /\ pc[u] = "post4"
        /\ Write(u, SetPrev(m, Root, u))
        /\ Goto(u, "wake")
  /\ UNCHANGED <<io_state, asleep, iopc, req, missed>>

PostWake(u) ==
  /\ pc[u] = "wake"
  /\ pt_wakeup(Io)
  /\ Goto(u, "wait")
  /\ UNCHANGED <<m, io_state, iopc, req, torn, missed>>

PostWait(u) ==
  /\ pc[u] = "wait"
  /\ asleep' = [asleep EXCEPT ![u] = "req"]
  /\ Goto(u, "posted")
  /\ UNCHANGED <<m, io_state, iopc, req, torn, missed>>

PostReturn(u) ==
  /\ pc[u] = "posted" /\ asleep[u] = "no"
  /\ Goto(u, "idle")
  /\ io_state' = [io_state EXCEPT ![u] = "freed"]
  /\ UNCHANGED <<m, asleep, iopc, req, torn, missed>>

(* io_schedule on an empty list only calls schedule() and looks again. *)
IoTop ==
  /\ iopc = "top" /\ m.next[Root] # Root
  /\ req' = m.next[Root]
  /\ iopc' = "del1"
  /\ UNCHANGED <<m, io_state, asleep, pc, torn, missed>>

(* list_del(&req->list), statement by statement. *)
IoDel ==
  /\ \/ /\ iopc = "del1"
        /\ Write(Io, SetNext(m, m.prev[req], m.next[req]))
        /\ iopc' = "del2"
     \/ /\ iopc = "del2"
        /\ Write(Io, SetPrev(m, m.next[req], m.prev[req]))
        /\ iopc' = "del3"
     \/ /\ iopc = "del3"
        /\ Write(Io, SetPrev(SetNext(m, req, req), req, req))
        /\ iopc' = "serve"
  /\ UNCHANGED <<io_state, asleep, pc, req, missed>>

(* con_io_request for IO_WRITE: con_write never fails. *)
ConIoRequest ==
  /\ iopc = "serve" /\ req \notin Disk
  /\ io_state' = [io_state EXCEPT ![req] = "COMPLETED"]
  /\ iopc' = "wake"
  /\ UNCHANGED <<m, asleep, pc, req, torn, missed>>

(* wakeup_waiters(&req->waiter): nobody may be there yet. *)
IoWake ==
  /\ iopc = "wake"
  /\ IF asleep[req] = "req"
     THEN pt_wakeup(req) /\ UNCHANGED missed
     ELSE missed' = missed \cup {req} /\ UNCHANGED asleep
  /\ iopc' = "top" /\ req' = Root
  /\ UNCHANGED <<m, io_state, pc, torn>>

Caller(u) ==
  \/ CreateReq(u)
  \/ SendQueue(u)
  \/ SendCheck(u)
  \/ PostLink(u)
  \/ PostWait(u)
  \/ PostReturn(u)

IoThread == /\ asleep[Io] = "no"
            /\ \/ IoTop
               \/ IoDel
               \/ ConIoRequest
               \/ IoWake
-----------------------------------------------------------------------------
IoTypeOK ==
  /\ m \in [next : [User \cup {Root} -> User \cup {Root}],
            prev : [User \cup {Root} -> User \cup {Root}]]
  /\ io_state \in [User -> {"freed", "PENDING", "COMPLETED", "ERROR"}]
  /\ asleep \in [Thread -> {"no", "req", "wq"}]
  /\ pc \in [User -> {"idle", "send", "queue", "sent", "post1", "post2", "post3",
                      "post4", "wake", "wait", "posted"}]
  /\ req \in User \cup {Root}
  /\ torn \in BOOLEAN
  /\ missed \subseteq User

(* The nodes io_schedule can still reach: those in every set that holds    *)
(* the head and, with a node, the one its next points to.                  *)
Reached ==
  {n \in User : \A S \in SUBSET (User \cup {Root}) :
     Root \in S /\ (\A x \in S : m.next[x] \in S) => n \in S}

(* No request is forgotten: while nobody's list operation ran inside that  *)
(* of another thread, a caller asleep in io_request with its request still *)
(* IO_PENDING is on the list or in service.                                *)
NoneForgotten ==
  ~torn => \A u \in User :
    asleep[u] = "req" /\ io_state[u] = "PENDING" => u \in Reached \/ req = u

(* io_schedule only works on live requests: the caller does not free its   *)
(* request (io_free_req) before io_schedule is done with it, unless list   *)
(* operations overlapped and left a freed request on the list.             *)
InServiceLive == ~torn /\ req \in User => io_state[req] # "freed"

(* Where the runs stop: overlapping list operations leave a broken list.   *)
StayIntact == ~torn
=============================================================================
