-------------------------------- MODULE Ahci --------------------------------
(***************************************************************************)
(* Disk requests through Kernel/ahci.c, on top of IoReq: io_schedule runs  *)
(* sata_do_request, which puts one command in a slot, issues it and sleeps *)
(* on a wait queue `wq' on its own stack until ahci_interrupt wakes it.    *)
(* The drive (external) finishes commands and raises the interrupt.  Every *)
(* call of ahci_read_write has the same depth on io_scheduler's stack, so  *)
(* all the wq's of its life are at one address.                            *)
(***************************************************************************)
EXTENDS IoReq, TLC

CONSTANT Slots     \* command slots of the port: 32 in find_cmdslot

Slot == 0..(Slots - 1)

ASSUME SlotsAssumption == Slots \in Nat \ {0}

VARIABLES CI,        \* the port's command-issue register: commands under way
          sactive,   \* ap->sactive, the driver's record of issued slots
          cmd,       \* the request a slot's command works for
          slot, old, \* ahci_read_write: its slot, and ap->sactive as loaded
          irq,       \* interrupt pending: "no", "done" or "error" (SERR set)
          done,      \* history: requests whose transfer took place
          early,     \* history: io_scheduler was woken out of its wait for wq
          failed,    \* history: the port reported an error
          wild       \* wakeup_waiters walked a dead wq

diskVars == <<CI, sactive, cmd, slot, old, irq, done, failed, wild>>
ahciVars == <<ioVars, diskVars, early>>

AhciInit ==
  /\ IoInit
  /\ CI = {} /\ sactive = {} /\ cmd = [s \in Slot |-> Root]
  /\ slot = -1 /\ old = {}
  /\ irq = "no"
  /\ done = {} /\ early = FALSE /\ failed = FALSE /\ wild = FALSE

(* list_init(&wq) has run and ahci_read_write has not returned. *)
WqLive == iopc \in {"mark", "issue", "reset", "issued"}

(* A slip: the last slot passed over to the one after it. *)
find_cmdslot_over ==
  LET busy == sactive \cup CI
      free == {s \in 0..Slots : s \notin busy}
  IN  CHOOSE s \in free : \A t \in free : s <= t

find_cmdslot ==
  LET free == Slot \ (sactive \cup CI)
  IN  IF free = {} THEN -1 ELSE CHOOSE s \in free : \A t \in free : s <= t

(* sata_do_request, sata_read_write, sata_rw_block and ahci_read_write up  *)
(* to the load of ap->sactive; for more than 128 sectors, or without a     *)
(* free slot, the request fails.                                           *)
SataDoRequest ==
  /\ iopc = "serve" /\ req \in Disk
  /\ \E sec_cnt \in {1, 129} :
     IF sec_cnt > 128 \/ find_cmdslot = -1
     THEN /\ io_state' = [io_state EXCEPT ![req] = "ERROR"]
          /\ iopc' = "wake"
          /\ UNCHANGED <<slot, old>>
     ELSE /\ slot' = find_cmdslot
          /\ old' = sactive
          /\ iopc' = "mark"
          /\ UNCHANGED io_state
  /\ UNCHANGED <<m, asleep, pc, req, torn, missed,
                 CI, sactive, cmd, irq, done, failed, wild>>

(* A slip: the slot is not recorded in ap->sactive. *)
AhciMark_drop ==
  /\ iopc = "mark"
  /\ old' = {}
  /\ iopc' = "issue"
  /\ UNCHANGED <<m, io_state, asleep, pc, req, torn, missed,
                 CI, sactive, cmd, slot, irq, done, failed, wild>>

(* The store of ap->sactive |= 1 << slot, and the command tables. *)
AhciMark ==
  /\ iopc = "mark"
  /\ sactive' = old \cup {slot}
  /\ old' = {}
  /\ iopc' = "issue"
  /\ UNCHANGED <<m, io_state, asleep, pc, req, torn, missed,
                 CI, cmd, slot, irq, done, failed, wild>>

(* ahci_issue_cmd finds the drive busy with an earlier command and resets  *)
(* the port, which drops that command; ahci_port_reset may ksleep there.   *)
AhciPortReset ==
  /\ iopc = "issue" /\ CI # {}
  /\ CI' = {}
  /\ iopc' = "reset"
  /\ UNCHANGED <<m, io_state, asleep, pc, req, torn, missed,
                 sactive, cmd, slot, old, irq, done, failed, wild>>

(* Slips: no pt_wait_on; interrupts open between issue and pt_wait_on. *)
AhciIssue_nowait ==
  /\ iopc \in {"issue", "reset"}
  /\ CI' = CI \cup {slot}
  /\ cmd' = [cmd EXCEPT ![slot] = req]
  /\ iopc' = "issued"
  /\ UNCHANGED <<m, io_state, asleep, pc, req, torn, missed,
                 sactive, slot, old, irq, done, failed, wild>>

AhciIssue_open ==
  /\ UNCHANGED <<m, io_state, pc, req, torn, missed,
                 sactive, slot, old, irq, done, failed, wild>>
  /\ \/ /\ iopc \in {"issue", "reset"}
        /\ CI' = CI \cup {slot}
        /\ cmd' = [cmd EXCEPT ![slot] = req]
        /\ iopc' = "open"
        /\ UNCHANGED asleep
     \/ /\ iopc = "open"
        /\ asleep' = [asleep EXCEPT ![Io] = "wq"]
        /\ iopc' = "issued"
        /\ UNCHANGED <<CI, cmd>>

(* ahci_issue_cmd and pt_wait_on, with interrupts off. *)
AhciIssue ==
  /\ iopc \in {"issue", "reset"}
  /\ CI' = CI \cup {slot}
  /\ cmd' = [cmd EXCEPT ![slot] = req]
  /\ asleep' = [asleep EXCEPT ![Io] = "wq"]
  /\ iopc' = "issued"
  /\ UNCHANGED <<m, io_state, pc, req, torn, missed,
                 sactive, slot, old, irq, done, failed, wild>>

(* A slip: the caller is woken here already, and again by io_schedule. *)
AhciReturn_wake ==
  /\ iopc = "issued"
  /\ io_state' = [io_state EXCEPT ![req] = "COMPLETED"]
  /\ pt_wakeup(req)
  /\ slot' = -1
  /\ iopc' = "wake"
  /\ UNCHANGED <<m, pc, req, torn, missed,
                 CI, sactive, cmd, old, irq, done, failed, wild>>

(* pt_wait_on returned: ahci_read_write returns 0 whatever woke it. *)
AhciReturn ==
  /\ iopc = "issued"
  /\ io_state' = [io_state EXCEPT ![req] = "COMPLETED"]
  /\ slot' = -1
  /\ iopc' = "wake"
  /\ UNCHANGED <<m, asleep, pc, req, torn, missed,
                 CI, sactive, cmd, old, irq, done, failed, wild>>

(* The drive finishes a command, or the port has an error. *)
DriveDone(s) ==
  /\ s \in CI
  /\ CI' = CI \ {s}
  /\ done' = done \cup {cmd[s]}
  /\ irq' = IF irq = "error" THEN irq ELSE "done"
  /\ UNCHANGED <<ioVars, sactive, cmd, slot, old, failed, wild>>

DriveError ==
  /\ CI # {}
  /\ irq' = "error" /\ failed' = TRUE
  /\ UNCHANGED <<ioVars, CI, sactive, cmd, slot, old, done, wild>>

(* ahci_common_complete: wakeup_waiters(&wq).  When wq is dead the walk    *)
(* finds it as it was left, empty, or overwritten.                         *)
WakeWq ==
  IF WqLive
  THEN asleep' = [asleep EXCEPT ![Io] = "no"] /\ UNCHANGED wild
  ELSE wild' \in BOOLEAN /\ UNCHANGED asleep

(* ahci_interrupt and ahci_port_intr: an error resets the port and forgets *)
(* its commands; otherwise every slot in which CI and ap->sactive differ   *)
(* is taken for done.                                                      *)
AhciInterrupt ==
  LET tmp == (CI \ sactive) \cup (sactive \ CI) IN
  /\ irq # "no"
  /\ irq' = "no"
  /\ \/ /\ irq = "error"
        /\ CI' = {} /\ sactive' = {}
        /\ UNCHANGED <<asleep, wild>>
     \/ /\ irq = "done"
        /\ sactive' = sactive \ tmp
        /\ IF tmp = {} THEN UNCHANGED <<asleep, wild>> ELSE WakeWq
        /\ UNCHANGED CI
  /\ UNCHANGED <<m, io_state, pc, iopc, req, torn, missed,
                 cmd, slot, old, done, failed>>

(* Any caller's pt_wakeup(&io_scheduler->kthread) ends the wait for wq.    *)
WakeIo(u) ==
  /\ SendWake(u) \/ PostWake(u)
  /\ early' = (early \/ asleep[Io] = "wq")
  /\ UNCHANGED diskVars

UserStep(u) ==
  /\ ~wild
  /\ \/ WakeIo(u)
     \/ /\ Caller(u)
        /\ done' = IF pc[u] = "idle" THEN done \ {u} ELSE done
        /\ UNCHANGED <<CI, sactive, cmd, slot, old, irq, failed, wild, early>>

IoStep ==
  /\ ~wild
  /\ UNCHANGED early
  /\ \/ IoThread /\ UNCHANGED diskVars
     \/ /\ asleep[Io] = "no"
        /\ \/ SataDoRequest
           \/ AhciMark
           \/ AhciPortReset
           \/ AhciIssue
           \/ AhciReturn

DriveStep ==
  /\ ~wild
  /\ UNCHANGED early
  /\ \/ \E s \in Slot : DriveDone(s)
     \/ DriveError

IrqStep == ~wild /\ UNCHANGED early /\ AhciInterrupt

AhciNext == (\E u \in User : UserStep(u)) \/ IoStep \/ DriveStep \/ IrqStep

AhciSpec == AhciInit /\ [][AhciNext]_ahciVars

(* Threads that are awake get the CPU, a started transfer ends and its     *)
(* interrupt is delivered; nobody has to start another request.            *)
Fairness ==
  /\ \A u \in User : WF_ahciVars(UserStep(u) /\ pc[u] # "idle")
  /\ WF_ahciVars(IoStep)
  /\ WF_ahciVars(\E s \in Slot : ~wild /\ UNCHANGED early /\ DriveDone(s))
  /\ WF_ahciVars(IrqStep)

FairSpec == AhciSpec /\ Fairness
-----------------------------------------------------------------------------
AhciTypeOK ==
  /\ IoTypeOK
  /\ iopc \in {"top", "del1", "del2", "del3", "serve", "mark", "issue", "reset",
               "issued", "wake"}
  /\ CI \subseteq Slot /\ sactive \subseteq Slot /\ old \subseteq Slot
  /\ cmd \in [Slot -> User \cup {Root}]
  /\ slot \in Slot \cup {-1}
  /\ irq \in {"no", "done", "error"}
  /\ done \subseteq User
  /\ early \in BOOLEAN /\ failed \in BOOLEAN /\ wild \in BOOLEAN

(* "we should define an event or something like completion": pt_wait_on    *)
(* in ahci_read_write ends when the command is complete, so a disk request *)
(* reported IO_COMPLETED has had its transfer, as long as no other caller  *)
(* woke io_scheduler out of that wait and no list operations overlapped.   *)
Transferred ==
  ~(early \/ torn) => \A u \in Disk : io_state[u] = "COMPLETED" => u \in done

(* ap->sactive knows every command under way, so that an interrupt takes   *)
(* no running command for done, as long as io_scheduler was not woken out  *)
(* of its wait and so has one command at a time.                           *)
SactiveCovers == ~early => CI \subseteq sactive /\ Cardinality(CI) <= 1 /\ ~wild

(* Where the liveness run stops: what Answered excludes has happened. *)
Undisturbed == StayIntact /\ ~early /\ ~failed

(* Every request is answered: a caller in io_request returns, if list      *)
(* operations did not overlap, nobody woke io_scheduler out of its wait,   *)
(* the port had no error, and the caller was in io_wait when it was woken. *)
Answered ==
  \A u \in User :
    []~(torn \/ early \/ failed \/ u \in missed) =>
      (pc[u] # "idle" ~> pc[u] = "idle")

(* As long as list operations did not overlap no request is forgotten, the *)
(* one in service is not freed, a finished one was carried out by the      *)
(* drive, and a command on the port is marked in sactive (io_request,      *)
(* io_scheduler, ahci_issue, the interrupt).                               *)
RequestsKept == AhciTypeOK /\ NoneForgotten /\ InServiceLive /\ Transferred /\ SactiveCovers

(* Disk requests are interchangeable. *)
DiskSymmetry == Permutations(Disk)
=============================================================================
