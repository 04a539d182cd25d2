------------------------------- MODULE Sched -------------------------------
(***************************************************************************)
(* The thread scheduler of Kernel/kthread.c and the primitives that move a *)
(* thread between lists.  One CPU runs `current'; every primitive works on *)
(* the lists with interrupts off and is one action, and interrupts (hence  *)
(* preemption on the way out of one) fall between any two actions.  Which  *)
(* primitive the running thread calls next is left open, so the module     *)
(* covers every client that only uses these primitives; the modules that   *)
(* model real clients are shown to implement it.                           *)
(***************************************************************************)
EXTENDS ThreadLists

CONSTANTS Thread,        \* the kernel_thread structures
          Sysidle,       \* sysidle_thread, made by schedule_init
          WaitQueue,     \* every wait_queue_head_t: p_wq, req->waiter, ...
          MAX_PRIORITY,  \* number of run queues
          NoThread       \* container_of(an empty run queue): not a thread

Prio == 0..(MAX_PRIORITY - 1)

ASSUME SchedAssumption ==
  /\ MAX_PRIORITY \in Nat \ {0}
  /\ Sysidle \in Thread
  /\ NoThread \notin Thread

run_queue(i) == <<"run", i>>
wait_queue(i) == <<"wait", i>>
waiter(w) == <<"waiter", w>>

RunHead == {run_queue(i) : i \in Prio}
WaitHead == {wait_queue(i) : i \in Prio} \cup {waiter(w) : w \in WaitQueue}
Head_ == RunHead \cup WaitHead

VARIABLES list,             \* the threads on each list, first to last
          current,          \* the running thread
          need_reschedule,  \* call schedule() on the way out of an interrupt
          priority,         \* kthread.priority, set once by init_thread
          threads           \* the threads kcreate_thread has made

schedVars == <<list, current, need_reschedule, priority, threads>>

(* schedule_init makes sysidle; kmain ends by jumping onto its stack. *)
SchedInit ==
  /\ list = [h \in Head_ |-> IF h = run_queue(0) THEN <<Sysidle>> ELSE <<>>]
  /\ current = Sysidle
  /\ need_reschedule = FALSE
  /\ priority = [t \in Thread |-> 0]
  /\ threads = {Sysidle}

(* Slips that the properties below tell apart from the code: scanning up   *)
(* from queue 0, taking prev for next, not moving the chosen thread to the *)
(* tail; a wake-up that skips list_del, or uses the waker's priority.      *)
schedule_low(l) ==
  /\ need_reschedule' = FALSE
  /\ \E i \in Prio :
       LET q == l[run_queue(i)] IN
       /\ \A j \in Prio : j < i => l[run_queue(j)] = <<>>
       /\ q # <<>>
       /\ current' = Head(q)
       /\ list' = [l EXCEPT ![run_queue(i)] = Append(Tail(q), Head(q))]

schedule_prev(l) ==
  /\ need_reschedule' = FALSE
  /\ \E i \in Prio :
       LET q == l[run_queue(i)] IN
       /\ \A j \in Prio : j > i => l[run_queue(j)] = <<>>
       /\ q # <<>>
       /\ current' = q[Len(q)]
       /\ list' = [l EXCEPT ![run_queue(i)] = <<q[Len(q)]>> \o SubSeq(q, 1, Len(q) - 1)]

schedule_norotate(l) ==
  /\ need_reschedule' = FALSE
  /\ \E i \in Prio :
       LET q == l[run_queue(i)] IN
       /\ \A j \in Prio : j > i => l[run_queue(j)] = <<>>
       /\ q # <<>>
       /\ current' = Head(q)
       /\ list' = l

pt_wakeup_nodel(l, t) == list_add(l, run_queue(priority[t]), t)

pt_wakeup_waker(l, t) == list_move_head(l, run_queue(priority[current]), t)

MayBlock_any == TRUE

KcreateThread_off(t, p, st) ==
  /\ t \notin threads
  /\ threads' = threads \cup {t}
  /\ priority' = [priority EXCEPT ![t] = p + 1]
  /\ list' = list_add_tail(list, run_queue(p + 1), t)
  /\ UNCHANGED <<current, need_reschedule>>

(***************************************************************************)
(* schedule(): the loop leaves i at the highest non-empty run queue, or at *)
(* 0; the first thread of that queue goes to its tail and runs.  With an   *)
(* empty queue `next' is not a thread at all.                              *)
(***************************************************************************)
schedule(l) ==
  /\ need_reschedule' = FALSE
  /\ \E i \in Prio :
       LET q == l[run_queue(i)] IN
       /\ \A j \in Prio : j > i => l[run_queue(j)] = <<>>
       /\ \/ /\ q # <<>>
             /\ current' = Head(q)
             /\ list' = [l EXCEPT ![run_queue(i)] = Append(Tail(q), Head(q))]
          \/ /\ q = <<>>
             /\ i = 0
             /\ current' = NoThread
             /\ list' = l

pt_wakeup(l, t) == list_move_head(l, run_queue(priority[t]), t)

Schedule == /\ schedule(list)
            /\ UNCHANGED <<priority, threads>>

(* general_irq_routine: preemption when an interrupt handler returns. *)
IrqExit == /\ need_reschedule
           /\ schedule(list)
           /\ UNCHANGED <<priority, threads>>

(* The running thread used up its slice, or it is sysidle. *)
SetNeedReschedule == /\ need_reschedule' = TRUE
                     /\ UNCHANGED <<list, current, priority, threads>>

PtWakeup(t) == /\ t \in threads
               /\ list' = pt_wakeup(list, t)
               /\ UNCHANGED <<current, need_reschedule, priority, threads>>

(* sysidle's loop calls no primitive, so it never takes itself off a list. *)
MayBlock == current # Sysidle

PtWaitOn(w) == /\ MayBlock
               /\ schedule(list_move_tail(list, waiter(w), current))
               /\ UNCHANGED <<priority, threads>>

(* ksleep(0). *)
KsleepYield ==
  /\ MayBlock
  /\ schedule(list_move_tail(list, run_queue(priority[current]), current))
  /\ UNCHANGED <<priority, threads>>

(* ksleep(ms): the part with interrupts off. *)
KsleepBlock ==
  /\ MayBlock
  /\ schedule(list_move_tail(list, wait_queue(priority[current]), current))
  /\ UNCHANGED <<priority, threads>>

(* kwait, and kwait_pid without a timeout: at the head of the queue. *)
KwaitBlock(w) == /\ MayBlock
                 /\ schedule(list_move_head(list, waiter(w), current))
                 /\ UNCHANGED <<priority, threads>>

(* io_wait up to local_irq_restore: its schedule() is a Schedule step.  A  *)
(* timed kwait_pid whose register_timer fails returns in the same state.   *)
IoWait(w) == /\ MayBlock
             /\ list' = list_move_tail(list, waiter(w), current)
             /\ UNCHANGED <<current, need_reschedule, priority, threads>>

(* shutdown_thread's list_del; waking the waiters and schedule() follow. *)
ShutdownThread ==
  /\ MayBlock
  /\ list' = list_del(list, current)
  /\ UNCHANGED <<current, need_reschedule, priority, threads>>

(* destroy_thread, for the threads of a process: never sysidle. *)
DestroyThread(t) ==
  /\ t \in threads \ {Sysidle}
  /\ list' = list_del(list, t)
  /\ UNCHANGED <<current, need_reschedule, priority, threads>>

(* kcreate_thread with att.priority = p and att.state = st. *)
KcreateThread(t, p, st) ==
  /\ t \notin threads
  /\ threads' = threads \cup {t}
  /\ priority' = [priority EXCEPT ![t] = p]
  /\ list' = list_add_tail(list,
               IF st \in {"SUSPEND", "STOPED", "SLEEPING"}
               THEN wait_queue(p) ELSE run_queue(p), t)
  /\ UNCHANGED <<current, need_reschedule>>

SchedNext ==
  \/ Schedule
  \/ IrqExit
  \/ SetNeedReschedule
  \/ \E t \in Thread : PtWakeup(t)
  \/ \E w \in WaitQueue : PtWaitOn(w)
  \/ KsleepYield
  \/ KsleepBlock
  \/ \E w \in WaitQueue : KwaitBlock(w)
  \/ \E w \in WaitQueue : IoWait(w)
  \/ ShutdownThread
  \/ \E t \in Thread : DestroyThread(t)
  \/ \E t \in Thread, p \in Prio, st \in {"RUNNING", "SLEEPING"} :
       KcreateThread(t, p, st)

SchedSpec == SchedInit /\ [][SchedNext]_schedVars
-----------------------------------------------------------------------------
SchedTypeOK ==
  /\ list \in [Head_ -> Seq(Thread)]
  /\ current \in Thread \cup {NoThread}
  /\ need_reschedule \in BOOLEAN
  /\ priority \in [Thread -> Prio]
  /\ threads \subseteq Thread

(* A thread has one thread_list entry, so it is linked at most once, and   *)
(* only after kcreate_thread made it: no sequence of wake-ups, waits,      *)
(* preemptions and destructions links an entry that is still linked.       *)
OnOneList ==
  /\ \A h \in Head_ : \A j, k \in 1..Len(list[h]) :
       list[h][j] = list[h][k] => j = k
  /\ \A h, g \in Head_ : \A t \in Thread :
       In(list, h, t) /\ In(list, g, t) => h = g
  /\ \A h \in Head_ : \A t \in Thread : In(list, h, t) => t \in threads

(* "here we should choose the system idle, in theory": sysidle never       *)
(* leaves run_queue[0], so schedule() never takes the head of an empty     *)
(* list for a thread.                                                      *)
IdleReady == In(list, run_queue(0), Sysidle) /\ current # NoThread

(* A thread linked on run_queue[i] or wait_queue[i] has priority i, also   *)
(* when it was woken from somebody else's queue.                           *)
OnOwnPriority ==
  \A i \in Prio : \A t \in Thread :
    In(list, run_queue(i), t) \/ In(list, wait_queue(i), t) => priority[t] = i

(* "Priority-Based Round Robin": the CPU is only ever given to the highest *)
(* priority that has a runnable thread.                                    *)
HighestRuns ==
  [][current' # current =>
       /\ current' \in Thread
       /\ In(list', run_queue(priority[current']), current')
       /\ \A j \in Prio : j > priority[current'] => list'[run_queue(j)] = <<>>
    ]_schedVars

Before(l, h, t, u) ==
  \E j, k \in 1..Len(l[h]) : j < k /\ l[h][j] = t /\ l[h][k] = u

(* Round robin keeps the order: when t is before u on a run queue, a step  *)
(* after which u is before t either ran t (t went to the tail) or woke u   *)
(* (u went to the head).                                                   *)
OrderKept ==
  [][\A h \in RunHead : \A t, u \in Thread :
       Before(list, h, t, u) /\ Before(list', h, u, t) =>
         \/ current' = t
         \/ PtWakeup(u)
         \/ KsleepYield /\ current = t
    ]_schedVars

(* The PIT keeps interrupting, so slices end and the interrupt return      *)
(* preempts: nothing is assumed of what the threads do.                    *)
SchedFairness == WF_schedVars(SetNeedReschedule) /\ WF_schedVars(IrqExit)

FairSchedSpec == SchedSpec /\ SchedFairness

TopRunnable(t) ==
  \E i \in Prio : /\ In(list, run_queue(i), t)
                  /\ \A j \in Prio : j > i => list[run_queue(j)] = <<>>

(* No starvation within the top priority: once wake-ups stop jumping the   *)
(* queue, a thread of the highest runnable priority runs again and again.  *)
RoundRobin ==
  <>[][\A t \in Thread : ~PtWakeup(t)]_schedVars =>
    \A t \in Thread : []<>(TopRunnable(t) => current = t)

(* The inductive invariant: none of its parts is inductive alone, since    *)
(* schedule() is only safe on lists that hold sysidle, a move only keeps   *)
(* them disjoint if they were, and the new run queue is the thread's own.  *)
SchedInv ==
  /\ SchedTypeOK
  /\ OnOneList
  /\ IdleReady
  /\ OnOwnPriority
  /\ current \in threads

(* Threads take turns: a preempted thread goes behind its equals, and once *)
(* wake-ups stop jumping the queue each of them runs again and again.      *)
TakeTurns == OrderKept /\ RoundRobin
=============================================================================
