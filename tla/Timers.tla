------------------------------ MODULE Timers ------------------------------
(***************************************************************************)
(* Kernel timers (Kernel/timer.c), the timer thread, and the two waits     *)
(* that use them, ksleep and kwait_pid (Kernel/kthread.c), over the        *)
(* scheduler of module Sched.  Kernel code is preempted wherever           *)
(* interrupts are on: an action is a stretch with interrupts off, or one   *)
(* access to the timer list.  Time is kept as the ticks left until a timer *)
(* expires, so it needs no bound.                                          *)
(***************************************************************************)
EXTENDS Sched, TLC

CONSTANTS TimerThread,   \* timer_isr_thread
          User,          \* threads of processes; u is also the process of u
          Sleeper,       \* the ones that call ksleep and kwait_pid
          MaxTimers,     \* timer_list blocks kzalloc can still give
          MaxMs          \* longest sleep or timeout

ASSUME TimersAssumption ==
  /\ Thread = User \cup {Sysidle, TimerThread}
  /\ {Sysidle, TimerThread} \cap User = {}
  /\ Sysidle # TimerThread
  /\ Sleeper \subseteq User
  /\ WaitQueue = User              \* waiter(u) is the p_wq of process u
  /\ MaxTimers \in Nat /\ MaxMs \in Nat

TimerId == 1..MaxTimers
Periodic == MaxTimers + 1          \* the timer domaininit registered
End == 0                           \* &timer_list_head
Unused == [owner |-> NoThread, left |-> 0, enabled |-> FALSE]

VARIABLES
  pc,         \* where each thread is in the kernel
  irq,        \* "boot", "on", "off", or a stage of the timer interrupt
  timers,     \* the blocks on timer_list_head, in order
  tm,         \* their contents: owner (data), left (expires - ticks), enabled
  timer_id,   \* the local timer_id of ksleep and kwait_pid
  walk,       \* timerisr's p
  isr_depth,
  target,     \* the process kwait_pid found
  timeout,    \* kwait_pid's ms, 0 for WAITE_INFINITE
  sys_proc,   \* the processes kopen_process can find
  missed,     \* history: the thread went to sleep after its timer had fired
  dangling    \* history: the block timerisr's p is at was freed

walkVars == <<walk, isr_depth, dangling>>
timerVars == <<timers, tm, timer_id, missed>>
procVars == <<target, timeout, sys_proc>>
kernelVars == <<pc, irq, walkVars, timerVars, procVars>>
allVars == <<schedVars, kernelVars>>

Init ==
  /\ SchedInit
  /\ pc = [t \in Thread |-> IF t = TimerThread THEN "start" ELSE "run"]
  /\ irq = "boot"
  /\ timers = <<Periodic>>
  /\ tm = [i \in TimerId \cup {Periodic} |->
             IF i = Periodic
             THEN [owner |-> NoThread, left |-> MaxMs, enabled |-> TRUE]
             ELSE Unused]
  /\ timer_id = [u \in User |-> 0]
  /\ walk = End
  /\ isr_depth = 0
  /\ target = [u \in User |-> u]
  /\ timeout = [u \in User |-> 0]
  /\ sys_proc = User
  /\ missed = [u \in User |-> FALSE]
  /\ dangling = FALSE

(* kmain, with interrupts off: the timer thread, then the first processes. *)
Boot(t) ==
  /\ irq = "boot"
  /\ t # TimerThread => TimerThread \in threads
  /\ KcreateThread(t, 0, "RUNNING")
  /\ irq' = IF Thread = threads' THEN "on" ELSE "boot"
  /\ UNCHANGED <<pc, timerVars, walkVars, procVars>>
-----------------------------------------------------------------------------
(* The timer interrupt.  timer_handler counts the tick and, unless the     *)
(* timer thread is in the middle of its list, puts it first in line.       *)
TimerIrq ==
  /\ irq = "on"
  /\ irq' = "slice"
  /\ tm' = [i \in DOMAIN tm |->
             [tm[i] EXCEPT !.left = IF @ > 0 THEN @ - 1 ELSE 0]]
  /\ \/ isr_depth = 0 /\ PtWakeup(TimerThread)
     \/ isr_depth # 0 /\ UNCHANGED schedVars
  /\ UNCHANGED <<pc, timers, timer_id, walkVars, procVars, missed>>

(* current->ticks++ == 50: the slice is over at some ticks and not others. *)
SliceOver == /\ irq = "slice"
             /\ irq' = "exit"
             /\ SetNeedReschedule
             /\ UNCHANGED <<pc, timerVars, walkVars, procVars>>

(* general_irq_routine after dispatch_irq. *)
IrqReturn ==
  /\ irq \in {"slice", "exit"}
  /\ irq' = "on"
  /\ IrqExit \/ (~need_reschedule /\ UNCHANGED schedVars)
  /\ UNCHANGED <<pc, timerVars, walkVars, procVars>>

(* sysidle's loop. *)
Idle == /\ irq = "on"
        /\ current = Sysidle
        /\ SetNeedReschedule
        /\ UNCHANGED kernelVars
-----------------------------------------------------------------------------
(* Slips: a timer that runs a tick too long, or is not enabled. *)
register_timer_late(u, ms, i) ==
  /\ i \in TimerId \ {timers[k] : k \in 1..Len(timers)}
  /\ timers' = Append(timers, i)
  /\ tm' = [tm EXCEPT ![i] = [owner |-> u, left |-> ms + 1, enabled |-> TRUE]]
  /\ timer_id' = [timer_id EXCEPT ![u] = i]

register_timer_off(u, ms, i) ==
  /\ i \in TimerId \ {timers[k] : k \in 1..Len(timers)}
  /\ timers' = Append(timers, i)
  /\ tm' = [tm EXCEPT ![i] = [owner |-> u, left |-> ms, enabled |-> FALSE]]
  /\ timer_id' = [timer_id EXCEPT ![u] = i]

(* register_timer: the block goes to the end of the list, enabled; kzalloc *)
(* may also find no memory, which the callers see as a negative id.        *)
register_timer(u, ms, i) ==
  /\ i \in TimerId \ {timers[k] : k \in 1..Len(timers)}
  /\ timers' = Append(timers, i)
  /\ tm' = [tm EXCEPT ![i] = [owner |-> u, left |-> ms, enabled |-> TRUE]]
  /\ timer_id' = [timer_id EXCEPT ![u] = i]

(* unregister_timer: list_del and kfree of the block with that id. *)
unregister_timer(u) ==
  /\ timers' = Without(timers, timer_id[u])
  /\ tm' = [tm EXCEPT ![timer_id[u]] = Unused]
  /\ timer_id' = [timer_id EXCEPT ![u] = 0]
  /\ dangling' = (dangling \/ (isr_depth = 1 /\ walk = timer_id[u]))

Runs(t) == irq = "on" /\ current = t

(* ksleep(0). *)
KsleepZero(u) == /\ Runs(u)
                 /\ pc[u] = "run"
                 /\ KsleepYield
                 /\ UNCHANGED kernelVars

(* ksleep up to local_irq_save: the timer runs before the thread sleeps.   *)
(* When register_timer fails ksleep returns at once, which changes nothing.*)
KsleepRegister(u, ms, i) ==
  /\ Runs(u)
  /\ pc[u] = "run"
  /\ register_timer(u, ms, i)
  /\ pc' = [pc EXCEPT ![u] = "sleep"]
  /\ UNCHANGED <<schedVars, irq, walkVars, procVars, missed>>

Firing(i) == pc[TimerThread] = "fire" /\ walk = i

KsleepSleep(u) ==
  /\ Runs(u)
  /\ pc[u] = "sleep"
  /\ KsleepBlock
  /\ pc' = [pc EXCEPT ![u] = "slept"]
  /\ missed' = [missed EXCEPT ![u] =
                  ~tm[timer_id[u]].enabled /\ ~Firing(timer_id[u])]
  /\ UNCHANGED <<irq, timers, tm, timer_id, walkVars, procVars>>

KsleepReturn(u) ==
  /\ Runs(u)
  /\ pc[u] = "slept"
  /\ unregister_timer(u)
  /\ missed' = [missed EXCEPT ![u] = FALSE]
  /\ pc' = [pc EXCEPT ![u] = "run"]
  /\ UNCHANGED <<schedVars, irq, walk, isr_depth, procVars>>

(* kwait_pid's kopen_process; -ESRCH and ms = 0 return without a trace. *)
KwaitPidOpen(u, p, ms) ==
  /\ Runs(u)
  /\ pc[u] = "run"
  /\ p \in sys_proc
  /\ target' = [target EXCEPT ![u] = p]
  /\ timeout' = [timeout EXCEPT ![u] = ms]
  /\ pc' = [pc EXCEPT ![u] = "found"]
  /\ UNCHANGED <<schedVars, irq, timerVars, walkVars, sys_proc>>

KwaitPidInfinite(u) ==
  /\ Runs(u)
  /\ pc[u] = "found"
  /\ timeout[u] = 0
  /\ KwaitBlock(target[u])
  /\ pc' = [pc EXCEPT ![u] = "waited"]
  /\ UNCHANGED <<irq, timerVars, walkVars, procVars>>

(* A slip: the thread is queued without coming off the run queue. *)
KwaitPidTimed_nodel(u, i) ==
  /\ Runs(u)
  /\ pc[u] = "found"
  /\ timeout[u] > 0
  /\ register_timer(u, timeout[u], i)
  /\ schedule(list_add_tail(list, waiter(target[u]), u))
  /\ UNCHANGED <<priority, threads>>
  /\ pc' = [pc EXCEPT ![u] = "waited"]
  /\ UNCHANGED <<irq, walkVars, procVars, missed>>

KwaitPidTimed(u, i) ==
  /\ Runs(u)
  /\ pc[u] = "found"
  /\ timeout[u] > 0
  /\ register_timer(u, timeout[u], i)
  /\ PtWaitOn(target[u])
  /\ pc' = [pc EXCEPT ![u] = "waited"]
  /\ UNCHANGED <<irq, walkVars, procVars, missed>>

(* The locals of kwait_pid go; what it registered stays. *)
KwaitPidEnds(u) ==
  /\ pc' = [pc EXCEPT ![u] = "run"]
  /\ timer_id' = [timer_id EXCEPT ![u] = 0]
  /\ target' = [target EXCEPT ![u] = u]
  /\ timeout' = [timeout EXCEPT ![u] = 0]
  /\ UNCHANGED <<timers, tm, missed, sys_proc>>

(* register_timer failed: -ENOBUFS, with the thread left on p_wq. *)
KwaitPidNobufs(u) ==
  /\ Runs(u)
  /\ pc[u] = "found"
  /\ timeout[u] > 0
  /\ IoWait(target[u])
  /\ KwaitPidEnds(u)
  /\ UNCHANGED <<irq, walkVars>>

(* Back from schedule(): timer_get_expired decides between WAITE_OK and    *)
(* WAITE_TIMEOUT and leaves the timer on the list.                         *)
KwaitPidReturn(u) ==
  /\ Runs(u)
  /\ pc[u] = "waited"
  /\ KwaitPidEnds(u)
  /\ UNCHANGED <<schedVars, irq, walkVars>>
-----------------------------------------------------------------------------
(* Slips: the thread is not taken off its list; only the first waiter is   *)
(* woken.                                                                  *)
KexitClose_keep(u) ==
  /\ Runs(u)
  /\ pc[u] = "run"
  /\ irq' = "off"
  /\ sys_proc' = sys_proc \ {u}
  /\ pc' = [pc EXCEPT ![u] = "exit"]
  /\ UNCHANGED <<schedVars, timerVars, walkVars, target, timeout>>

KexitSchedule_one(u) ==
  /\ irq = "off" /\ current = u /\ pc[u] = "exit"
  /\ Len(list[waiter(u)]) <= 1
  /\ Schedule
  /\ irq' = "on"
  /\ pc' = [pc EXCEPT ![u] = "dead"]
  /\ UNCHANGED <<timerVars, walkVars, procVars>>

(* kexit runs kclose_proc and schedule() with interrupts off: the thread   *)
(* comes off its list, the process out of sys_proc, ...                    *)
KexitClose(u) ==
  /\ Runs(u)
  /\ pc[u] = "run"
  /\ DestroyThread(u)
  /\ irq' = "off"
  /\ sys_proc' = sys_proc \ {u}
  /\ pc' = [pc EXCEPT ![u] = "exit"]
  /\ UNCHANGED <<timerVars, walkVars, target, timeout>>

(* ... wakeup_waiters(&proc->p_wq) wakes the waiters from the first on ... *)
KexitWakeup(u) ==
  /\ irq = "off" /\ current = u /\ pc[u] = "exit"
  /\ list[waiter(u)] # <<>>
  /\ PtWakeup(Head(list[waiter(u)]))
  /\ UNCHANGED kernelVars

(* ... and another thread gets the CPU. *)
KexitSchedule(u) ==
  /\ irq = "off" /\ current = u /\ pc[u] = "exit"
  /\ list[waiter(u)] = <<>>
  /\ Schedule
  /\ irq' = "on"
  /\ pc' = [pc EXCEPT ![u] = "dead"]
  /\ UNCHANGED <<timerVars, walkVars, procVars>>
-----------------------------------------------------------------------------
(* The timer thread.  It walks the list with interrupts on; a block that   *)
(* was freed under it makes every further access undefined, modelled by    *)
(* the thread going "wild".                                                *)
OnList(i) == \E k \in 1..Len(timers) : timers[k] = i

After(i) == LET k == CHOOSE k \in 1..Len(timers) : timers[k] = i
            IN  IF k = Len(timers) THEN End ELSE timers[k+1]

Isr(at) == Runs(TimerThread) /\ pc[TimerThread] = at
IsrGoes(to) == pc' = [pc EXCEPT ![TimerThread] = to]

IsrStart ==
  /\ Isr("start")
  /\ isr_depth' = 1
  /\ dangling' = FALSE
  /\ walk' = IF timers = <<>> THEN End ELSE Head(timers)
  /\ IsrGoes("at")
  /\ UNCHANGED <<schedVars, irq, timerVars, procVars>>

(* Slips: no test that the timer is due; the test after the flag is        *)
(* cleared; a periodic timer disabled like a one-shot one.                 *)
IsrTest_undue ==
  /\ Isr("at")
  /\ walk # End /\ OnList(walk)
  /\ IF tm[walk].enabled
     THEN /\ tm' = [tm EXCEPT ![walk].enabled = (walk = Periodic)]
          /\ IsrGoes("fire")
     ELSE UNCHANGED tm /\ IsrGoes("next")
  /\ UNCHANGED <<schedVars, irq, walkVars, timers, timer_id, missed, procVars>>

IsrTest_clear ==
  /\ Isr("at")
  /\ walk # End /\ OnList(walk)
  /\ tm' = [tm EXCEPT ![walk].enabled = (walk = Periodic)]
  /\ IsrGoes(IF tm[walk].enabled /\ tm[walk].left = 0 THEN "fire" ELSE "next")
  /\ UNCHANGED <<schedVars, irq, walkVars, timers, timer_id, missed, procVars>>

IsrTest_oneshot ==
  /\ Isr("at")
  /\ walk # End /\ OnList(walk)
  /\ IF tm[walk].enabled /\ tm[walk].left = 0
     THEN /\ tm' = [tm EXCEPT ![walk].enabled = FALSE]
          /\ IsrGoes("fire")
     ELSE UNCHANGED tm /\ IsrGoes("next")
  /\ UNCHANGED <<schedVars, irq, walkVars, timers, timer_id, missed, procVars>>

(* A due one-shot timer is disabled before its function is called. *)
IsrTest ==
  /\ Isr("at")
  /\ walk # End /\ OnList(walk)
  /\ IF tm[walk].enabled /\ tm[walk].left = 0
     THEN /\ tm' = [tm EXCEPT ![walk].enabled = (walk = Periodic)]
          /\ IsrGoes("fire")
     ELSE UNCHANGED tm /\ IsrGoes("next")
  /\ UNCHANGED <<schedVars, irq, walkVars, timers, timer_id, missed, procVars>>

(* pt_timer_callback. *)
IsrFire ==
  /\ Isr("fire")
  /\ walk # Periodic /\ OnList(walk)
  /\ PtWakeup(tm[walk].owner)
  /\ IsrGoes("next")
  /\ UNCHANGED <<irq, walkVars, timerVars, procVars>>

(* A periodic timer calls its function and starts again. *)
IsrFirePeriodic ==
  /\ Isr("fire")
  /\ walk = Periodic
  /\ tm' = [tm EXCEPT ![walk].left = MaxMs]
  /\ IsrGoes("next")
  /\ UNCHANGED <<schedVars, irq, walkVars, timers, timer_id, missed, procVars>>

IsrNext ==
  /\ Isr("next")
  /\ OnList(walk)
  /\ walk' = After(walk)
  /\ IsrGoes("at")
  /\ UNCHANGED <<schedVars, irq, isr_depth, dangling, timerVars, procVars>>

IsrWild ==
  /\ Isr("at") \/ Isr("fire") \/ Isr("next")
  /\ walk # End /\ ~OnList(walk)
  /\ IsrGoes("wild")
  /\ UNCHANGED <<schedVars, irq, walkVars, timerVars, procVars>>

IsrEnd ==
  /\ Isr("at")
  /\ walk = End
  /\ isr_depth' = 0
  /\ IsrGoes("done")
  /\ UNCHANGED <<schedVars, irq, walk, dangling, timerVars, procVars>>

IsrSchedule ==
  /\ Isr("done")
  /\ Schedule
  /\ IsrGoes("start")
  /\ UNCHANGED <<irq, walkVars, timerVars, procVars>>
-----------------------------------------------------------------------------
IrqStep == TimerIrq \/ SliceOver \/ IrqReturn

IsrStep == \/ IsrStart \/ IsrTest \/ IsrFire \/ IsrFirePeriodic \/ IsrNext
           \/ IsrWild \/ IsrEnd \/ IsrSchedule

(* What a thread does next once it is inside ksleep, kwait_pid or kexit. *)
UserContinues(u) ==
  \/ KsleepSleep(u)
  \/ KsleepReturn(u)
  \/ KwaitPidInfinite(u)
  \/ \E i \in TimerId : KwaitPidTimed(u, i)
  \/ KwaitPidNobufs(u)
  \/ KwaitPidReturn(u)
  \/ KexitWakeup(u)
  \/ KexitSchedule(u)

UserCalls(u) ==
  \/ KexitClose(u)
  \/ u \in Sleeper /\ KsleepZero(u)
  \/ /\ u \in Sleeper
     /\ \E ms \in 1..MaxMs, i \in TimerId : KsleepRegister(u, ms, i)
  \/ /\ u \in Sleeper
     /\ \E p \in User, ms \in 0..MaxMs : KwaitPidOpen(u, p, ms)

Next ==
  \/ \E t \in Thread : Boot(t)
  \/ IrqStep
  \/ Idle
  \/ IsrStep
  \/ \E u \in User : UserContinues(u) \/ UserCalls(u)

Spec == Init /\ [][Next]_allVars

(* The PIT keeps interrupting, whichever thread runs is at its 51st tick   *)
(* again and again, and a thread that has the CPU executes.  Nothing is    *)
(* assumed of what a process calls next.                                   *)
Fairness ==
  /\ WF_allVars(\E t \in Thread : Boot(t))
  /\ WF_allVars(IrqStep)
  /\ SF_allVars(SliceOver)
  /\ SF_allVars(IsrStep)
  /\ WF_allVars(\E u \in User : UserContinues(u))

FairSpec == Spec /\ Fairness
-----------------------------------------------------------------------------
TypeOK ==
  /\ pc \in [Thread -> {"run", "sleep", "slept", "found", "waited", "exit",
                        "dead", "start", "at", "fire", "next", "done", "wild"}]
  /\ irq \in {"boot", "on", "off", "slice", "exit"}
  /\ timers \in Seq(TimerId \cup {Periodic})
  /\ tm \in [TimerId \cup {Periodic} ->
              [owner : User \cup {NoThread}, left : 0..MaxMs, enabled : BOOLEAN]]
  /\ timer_id \in [User -> TimerId \cup {0}]
  /\ walk \in TimerId \cup {Periodic, End}
  /\ isr_depth \in {0, 1}
  /\ target \in [User -> User]
  /\ timeout \in [User -> 0..MaxMs]
  /\ sys_proc \subseteq User
  /\ missed \in [User -> BOOLEAN]
  /\ dangling \in BOOLEAN

Asleep(u) == In(list, wait_queue(priority[u]), u)
Waiting(u) == \E p \in User : In(list, waiter(p), u)

(* Whoever sleeps in ksleep, and whoever waits in kwait_pid with a timeout *)
(* on a queue, has a timer of its own still armed or at the point of       *)
(* firing; a ksleep that lost the race with its timer is the exception.    *)
SleeperCovered ==
  \A u \in User :
    \/ Asleep(u) /\ ~missed[u]
    \/ Waiting(u) /\ pc[u] = "waited" /\ timeout[u] > 0
    => LET i == timer_id[u] IN
       OnList(i) /\ tm[i].owner = u /\ (tm[i].enabled \/ Firing(i))

(* ksleep never returns early: a thread leaves wait_queue only when a      *)
(* timer it registered itself is due, unless the walk stands on a block    *)
(* that was freed and handed out again.                                    *)
NeverEarly ==
  [][\A u \in User : Asleep(u) /\ ~Asleep(u)' /\ ~dangling =>
       \E i \in TimerId : Firing(i) /\ tm[i].owner = u /\ tm[i].left = 0
    ]_allVars

(* Every action of the timers, the interrupt, ksleep, kwait_pid and kexit  *)
(* is one step of the scheduler, or none.                                  *)
ImplementsSched == SchedSpec

Intact == []~dangling

(* While the list the timer thread walks stays intact, a sleeping thread   *)
(* whose timer has not fired before it slept is woken, ...                 *)
SleeperWakes ==
  Intact => \A u \in User : Asleep(u) /\ ~missed[u] ~> ~Asleep(u)

(* ... a kwait_pid with a timeout comes off the queue of the process ...   *)
TimedWaitEnds ==
  Intact => \A u \in User :
    Waiting(u) /\ pc[u] = "waited" /\ timeout[u] > 0 ~> ~Waiting(u)

(* ... and the periodic protocol timeouts run again and again.             *)
PeriodicRuns == Intact => []<>Firing(Periodic)

(* kexit wakes everybody ("check for waiters, if exists, wake it up"): the *)
(* only threads on the queue of a process that has exited are those that   *)
(* looked it up before and queued themselves afterwards.                   *)
WaitersWoken ==
  [][\A u, t \in User : pc'[u] = "dead" /\ In(list', waiter(u), t) =>
       \/ pc[u] = "dead" /\ In(list, waiter(u), t)
       \/ pc[u] = "dead" /\ pc[t] = "found" /\ target[t] = u
    ]_allVars

OnAList(l, u) == \E h \in DOMAIN l : In(l, h, u)

(* "shutdown all threads": the thread of a process that has exited stays   *)
(* off every list and never runs again, but for one case: a timer that a   *)
(* timed kwait_pid left registered puts it back on a run queue.            *)
DeadStaysDown ==
  [][\A u \in User : pc'[u] = "dead" /\ OnAList(list', u) =>
       \/ pc[u] = "dead" /\ OnAList(list, u)
       \/ \E i \in TimerId : Firing(i) /\ tm[i].owner = u
    ]_allVars

(* A sleeping thread always has what will wake it: its timer, or a place   *)
(* in a wait queue (ksleep, ktime_wait, timer_callback).                   *)
TimersHold == TypeOK /\ SleeperCovered

(* What a step of the timers may never do: wake a sleeper early, leave a   *)
(* waiter behind when its queue is woken, or revive a dead thread.         *)
TimerSteps == NeverEarly /\ WaitersWoken /\ DeadStaysDown

(* Sleeps end, timed waits end, and the periodic timer runs for ever, if   *)
(* the timer list stays intact.                                            *)
TimersLive == SleeperWakes /\ TimedWaitEnds /\ PeriodicRuns

(* Processes are interchangeable. *)
UserSymmetry == Permutations(User)
=============================================================================
