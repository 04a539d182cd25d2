------------------------------ MODULE GfxInput ------------------------------
(***************************************************************************)
(* The way of an input from the mouse or the keyboard to a program         *)
(* (Kernel/mouse.c, keyboard.c, main.c, gfx/frame.c, gfx/kframe.c).  The   *)
(* interrupt handlers queue the input and mark gfxisr_mask; the gfx        *)
(* thread, the loop of init, takes it off and sends messages to the        *)
(* process that owns the active frame; a thread of that process takes them *)
(* in kframe_get_message.  An interrupt can come and switch threads        *)
(* between any two steps; what runs under local_irq_save is one step.      *)
(* gfxisr_mask and p_nrmsgs are changed by a load and a store.  A message  *)
(* is its number; the active frame is none, the main one or the program's. *)
(***************************************************************************)
EXTENDS Integers, Sequences

CONSTANTS QueueSize,  \* inputs a device queue holds
          MsgMax,     \* the messages a process may have waiting, 64
          MaxInputs   \* bound on the inputs

ASSUME MsgAssumption == MsgMax \in Int

MouseKind == {"move", "both", "press"}  \* to the active frame; with the right button; the left one

VARIABLES inq_ms,    \* the mouse's queue
          inq_kb,    \* keys in the keyboard's queue
          gfxmask, maskreg, \* gfxisr_mask, what the gfx thread loaded
          onrun,     \* which of the two threads is on a run queue
          gcpu,      \* the thread on the CPU, "idle" for any other
          gpc, apc,  \* where the gfx thread and the program stand
          focus,    \* the active frame
          p_msgq, p_nrmsgs, \* the messages of the process, their count
          tailp,     \* frame_sendmsg: the last message met, 0 for p_msgq
          fmnext,    \* kframe_get_message: fm_next of the first, 0 for NULL
          cntreg,    \* thread -> p_nrmsgs as it loaded it
          accepted, got, \* history: messages linked, messages received
          late,      \* history: devices whose input came too late for this turn
          msgraced,  \* history: two threads changed the messages at once
          inputs

gfxVars == <<inq_ms, inq_kb, gfxmask, maskreg, onrun, gcpu, gpc, apc, focus, p_msgq,
             p_nrmsgs, tailp, fmnext, cntreg, accepted, got, late, msgraced, inputs>>
msgVars == <<p_msgq, p_nrmsgs, tailp, fmnext, cntreg, accepted, got, msgraced>>

GfxInit ==
  /\ inq_ms = <<>> /\ inq_kb = 0
  /\ gfxmask = {"ACT"} /\ maskreg = {}
  /\ onrun = {"gfx", "app"} /\ gcpu = "idle" /\ gpc = "sleep" /\ apc = "test"
  /\ focus = "none"
  /\ p_msgq = <<>> /\ p_nrmsgs = 0 /\ tailp = 0 /\ fmnext = 0
  /\ cntreg = [t \in {"gfx", "app"} |-> 0]
  /\ accepted = 0 /\ got = 0
  /\ late = {} /\ msgraced = FALSE /\ inputs = 0
-----------------------------------------------------------------------------
(* Interrupts. *)
Switch ==
  /\ gcpu' \in (onrun \cup {"idle"}) \ {gcpu}
  /\ UNCHANGED <<inq_ms, inq_kb, gfxmask, maskreg, onrun, gpc, apc, focus, p_msgq, p_nrmsgs,
                 tailp, fmnext, cntreg, accepted, got, late, msgraced, inputs>>

(* The turn of the gfx loop that is under way will not look at d again, or *)
(* a store is about to take the mark of d away.                            *)
Past(d) ==
  \/ gpc \in {"sleep", "act2"}
  \/ d = "mouse" /\ gpc \in {"mouseclr", "mouseclr2", "kbd?", "kbd", "link", "cnt", "cnt2", "wake",
                             "kbdclr", "kbdclr2"}
  \/ d = "kbd" /\ gpc \in {"mouseclr2", "kbdclr", "kbdclr2"}

schedgfxisr(d) ==
  /\ gfxmask' = gfxmask \cup {d}
  /\ onrun' = IF "ACT" \in gfxmask THEN onrun ELSE onrun \cup {"gfx"}
  /\ late' = IF Past(d) THEN late \cup {d} ELSE late
  /\ inputs < MaxInputs /\ inputs' = inputs + 1
  /\ UNCHANGED <<maskreg, gcpu, gpc, apc, focus>> /\ UNCHANGED msgVars

ms_irq_handler(k) ==
  /\ inq_ms' = IF Len(inq_ms) < QueueSize THEN Append(inq_ms, k) ELSE inq_ms
  /\ schedgfxisr("mouse") /\ UNCHANGED inq_kb

put_queue ==
  /\ inq_kb' = IF inq_kb < QueueSize THEN inq_kb + 1 ELSE inq_kb
  /\ schedgfxisr("kbd") /\ UNCHANGED inq_ms
-----------------------------------------------------------------------------
(* The gfx thread. *)
GfxAt(from, to) == gcpu = "gfx" /\ gpc = from /\ gpc' = to
Rest == UNCHANGED <<apc, inputs>>
SameMsgs == UNCHANGED msgVars

(* list_del and GFXISR_ACT off under local_irq_save; then schedule(). *)
GfxSleep ==
  /\ GfxAt("sleep", "act")
  /\ onrun' = onrun \ {"gfx"}
  /\ gfxmask' = gfxmask \ {"ACT"}
  /\ gcpu' \in onrun' \cup {"idle"}
  /\ UNCHANGED <<inq_ms, inq_kb, maskreg, focus, late>> /\ SameMsgs /\ Rest

LoadGfxMask(from, to) ==
  /\ GfxAt(from, to) /\ maskreg' = gfxmask
  /\ UNCHANGED <<inq_ms, inq_kb, gfxmask, onrun, gcpu, focus, late>> /\ SameMsgs /\ Rest

StoreGfxMask(from, to, v) ==
  /\ GfxAt(from, to) /\ gfxmask' = v
  /\ UNCHANGED <<inq_ms, inq_kb, maskreg, onrun, gcpu, focus, late>> /\ SameMsgs /\ Rest

GfxAct == LoadGfxMask("act", "act2")
          \/ StoreGfxMask("act2", "mouse?", maskreg \cup {"ACT"})

GfxTest(d, from, no) ==
  /\ GfxAt(from, IF d \in gfxmask THEN d ELSE no)
  /\ late' = IF d \in gfxmask THEN late \ {d} ELSE late
  /\ UNCHANGED <<inq_ms, inq_kb, gfxmask, maskreg, onrun, gcpu, focus>> /\ SameMsgs /\ Rest

GfxClear(d, from, mid, to) == LoadGfxMask(from, mid) \/ StoreGfxMask(mid, to, maskreg \ {d})

(* frame_sendmsg, n times, with interrupts off; only the program's frame   *)
(* has an owner.                                                           *)
Room(n) == IF p_nrmsgs >= MsgMax THEN 0
           ELSE IF n < MsgMax - p_nrmsgs THEN n ELSE MsgMax - p_nrmsgs

Link(fm, n) ==
  LET k == IF fm = "app" THEN Room(n) ELSE 0
  IN  /\ p_msgq' = p_msgq \o [i \in 1..k |-> accepted + i]
      /\ p_nrmsgs' = p_nrmsgs + k
      /\ accepted' = accepted + k
      /\ UNCHANGED <<tailp, fmnext, cntreg, got, msgraced>>

(* A slip: the owner is not woken. *)
frame_sendmsg_quiet(fm, n) == Link(fm, n) /\ UNCHANGED onrun

frame_sendmsg(fm, n) ==
  Link(fm, n) /\ onrun' = IF accepted' > accepted THEN onrun \cup {"app"} ELSE onrun

(* A movement, with or without the left button, goes to the active frame;  *)
(* the right button is a second message; a press of the left button makes  *)
(* the frame under the cursor the active one.                              *)
frame_mouse_event(k) ==
  IF k = "press" THEN focus' \in {"main", "app"} /\ frame_sendmsg(focus', 1)
  ELSE frame_sendmsg(focus, IF k = "both" THEN 2 ELSE 1) /\ UNCHANGED focus

(* A slip: one input is read for each wake-up. *)
GfxMouse_once ==
  \/ GfxTest("mouse", "mouse?", "kbd?")
  \/ /\ inq_ms # <<>> /\ GfxAt("mouse", "mouseclr")
     /\ frame_mouse_event(Head(inq_ms)) /\ inq_ms' = Tail(inq_ms)
     /\ UNCHANGED <<inq_kb, gfxmask, maskreg, gcpu, late>> /\ Rest
  \/ /\ inq_ms = <<>> /\ GfxAt("mouse", "mouseclr")
     /\ UNCHANGED <<inq_ms, inq_kb, gfxmask, maskreg, onrun, gcpu, focus, late>> /\ SameMsgs /\ Rest
  \/ GfxClear("mouse", "mouseclr", "mouseclr2", "kbd?")

GfxMouse ==
  \/ GfxTest("mouse", "mouse?", "kbd?")
  \/ /\ inq_ms # <<>> /\ GfxAt("mouse", "mouse")
     /\ frame_mouse_event(Head(inq_ms)) /\ inq_ms' = Tail(inq_ms)
     /\ UNCHANGED <<inq_kb, gfxmask, maskreg, gcpu, late>> /\ Rest
  \/ /\ inq_ms = <<>> /\ GfxAt("mouse", "mouseclr")
     /\ UNCHANGED <<inq_ms, inq_kb, gfxmask, maskreg, onrun, gcpu, focus, late>> /\ SameMsgs /\ Rest
  \/ GfxClear("mouse", "mouseclr", "mouseclr2", "kbd?")

(* kb_read takes a second key off before it sees that there is no room for *)
(* it.  frame_kbd_event sends with interrupts on: a full queue drops the   *)
(* message, else the end of the queue is looked for.                       *)
Sends == focus = "app" /\ p_nrmsgs < MsgMax
kb_read ==
  /\ inq_kb > 0 /\ GfxAt("kbd", IF Sends THEN "link" ELSE "kbd")
  /\ inq_kb' = IF inq_kb > 1 THEN inq_kb - 2 ELSE 0
  /\ tailp' = IF Sends /\ p_msgq # <<>> THEN p_msgq[Len(p_msgq)] ELSE 0
  /\ UNCHANGED <<inq_ms, gfxmask, maskreg, onrun, gcpu, focus, late, p_msgq, p_nrmsgs,
                 fmnext, cntreg, accepted, got, msgraced>> /\ Rest

SendKey ==
  \/ /\ GfxAt("link", "cnt")
     /\ IF tailp = 0 \/ (p_msgq # <<>> /\ p_msgq[Len(p_msgq)] = tailp)
        THEN p_msgq' = Append(p_msgq, accepted + 1) /\ UNCHANGED msgraced
        ELSE msgraced' = TRUE /\ UNCHANGED p_msgq
     /\ accepted' = accepted + 1
     /\ UNCHANGED <<inq_ms, inq_kb, gfxmask, maskreg, onrun, gcpu, focus, late, p_nrmsgs, tailp,
                    fmnext, cntreg, got>> /\ Rest
  \/ /\ GfxAt("cnt", "cnt2") /\ cntreg' = [cntreg EXCEPT !["gfx"] = p_nrmsgs]
     /\ UNCHANGED <<inq_ms, inq_kb, gfxmask, maskreg, onrun, gcpu, focus, late, p_msgq, p_nrmsgs,
                    tailp, fmnext, accepted, got, msgraced>> /\ Rest
  \/ /\ GfxAt("cnt2", "wake")
     /\ p_nrmsgs' = cntreg["gfx"] + 1 /\ msgraced' = (msgraced \/ p_nrmsgs # cntreg["gfx"])
     /\ UNCHANGED <<inq_ms, inq_kb, gfxmask, maskreg, onrun, gcpu, focus, late, p_msgq, tailp,
                    fmnext, cntreg, accepted, got>> /\ Rest
  \/ /\ GfxAt("wake", "kbd") /\ onrun' = onrun \cup {"app"}
     /\ UNCHANGED <<inq_ms, inq_kb, gfxmask, maskreg, gcpu, focus, late>> /\ SameMsgs /\ Rest

GfxKbd ==
  \/ GfxTest("kbd", "kbd?", "sleep")
  \/ kb_read \/ SendKey
  \/ /\ inq_kb = 0 /\ GfxAt("kbd", "kbdclr")
     /\ UNCHANGED <<inq_ms, inq_kb, gfxmask, maskreg, onrun, gcpu, focus, late>> /\ SameMsgs /\ Rest
  \/ GfxClear("kbd", "kbdclr", "kbdclr2", "sleep")
-----------------------------------------------------------------------------
(* The program: kframe_get_message, over and over. *)
AppAt(from, to) ==
  /\ gcpu = "app" /\ apc = from /\ apc' = to
  /\ UNCHANGED <<inq_ms, inq_kb, gfxmask, maskreg, gpc, focus, tailp, accepted, late, inputs>>

TakeMsg ==
  \/ /\ AppAt("test", IF p_msgq = <<>> THEN "unlink" ELSE "next")
     /\ UNCHANGED <<onrun, gcpu, p_msgq, p_nrmsgs, fmnext, cntreg, got, msgraced>>
  \/ /\ AppAt("next", "store")
     /\ fmnext' = IF Len(p_msgq) > 1 THEN p_msgq[2] ELSE 0
     /\ UNCHANGED <<onrun, gcpu, p_msgq, p_nrmsgs, cntreg, got, msgraced>>
  \/ /\ AppAt("store", "dec")
     /\ got' = Head(p_msgq)
     /\ p_msgq' = IF fmnext = 0 THEN <<>> ELSE Tail(p_msgq)
     /\ msgraced' = (msgraced \/ (fmnext = 0 /\ Len(p_msgq) > 1))
     /\ UNCHANGED <<onrun, gcpu, p_nrmsgs, fmnext, cntreg>>
  \/ /\ AppAt("dec", "dec2") /\ cntreg' = [cntreg EXCEPT !["app"] = p_nrmsgs]
     /\ UNCHANGED <<onrun, gcpu, p_msgq, p_nrmsgs, fmnext, got, msgraced>>
  \/ /\ AppAt("dec2", "test")
     /\ p_nrmsgs' = cntreg["app"] - 1 /\ msgraced' = (msgraced \/ p_nrmsgs # cntreg["app"])
     /\ UNCHANGED <<onrun, gcpu, p_msgq, fmnext, cntreg, got>>

(* It unlinks itself with interrupts off, and links itself to its own wait *)
(* queue with interrupts on; woken in between, it is linked twice.         *)
Sleeps ==
  \/ /\ AppAt("unlink", "wait")
     /\ onrun' = onrun \ {"app"}
     /\ msgraced' = (msgraced \/ p_msgq # <<>>)
     /\ UNCHANGED <<gcpu, p_msgq, p_nrmsgs, fmnext, cntreg, got>>
  \/ /\ AppAt("wait", "sched")
     /\ msgraced' = (msgraced \/ "app" \in onrun)
     /\ UNCHANGED <<onrun, gcpu, p_msgq, p_nrmsgs, fmnext, cntreg, got>>
  \/ /\ AppAt("sched", "test") /\ gcpu' \in onrun \cup {"idle"}
     /\ UNCHANGED <<onrun, p_msgq, p_nrmsgs, fmnext, cntreg, got, msgraced>>

kframe_get_message == TakeMsg \/ Sleeps

GfxNext ==
  \/ Switch \/ put_queue \/ \E k \in MouseKind : ms_irq_handler(k)
  \/ GfxSleep \/ GfxAct \/ GfxMouse \/ GfxKbd
  \/ kframe_get_message

GfxSpec == GfxInit /\ [][GfxNext]_gfxVars
GfxSound == ~msgraced
-----------------------------------------------------------------------------
(* When the gfx thread sleeps, no input waits that came in time: the only  *)
(* inputs left in a queue are those that came after the loop of init had   *)
(* looked at the device, or while it wrote gfxisr_mask (main.c).           *)
InputSeen ==
  gpc = "act" /\ "gfx" \notin onrun =>
    /\ inq_ms # <<>> => "mouse" \in late
    /\ inq_kb > 0 => "kbd" \in late

(* Messages reach the program once, in order, with p_nrmsgs their number,  *)
(* and it sleeps only while there is none (frame_sendmsg,                  *)
(* kframe_get_message), unless two threads were in the queue at once or a  *)
(* message came between its test and its sleep.                            *)
MessagesKept ==
  ~msgraced =>
    /\ \A i \in 1..Len(p_msgq) : p_msgq[i] = got + i
    /\ got + Len(p_msgq) = accepted
    /\ gpc \notin {"cnt", "cnt2"} /\ apc \notin {"dec", "dec2"} => p_nrmsgs = Len(p_msgq)
    /\ "app" \notin onrun /\ gpc \notin {"cnt", "cnt2", "wake"} => p_msgq = <<>>

(* Between interrupt and program the gfx thread does not sleep on an input *)
(* and a message queue keeps what it accepted; the second of two waiting   *)
(* keys, which kb_read takes off without room for it, is gone before.      *)
InputKept == InputSeen /\ MessagesKept
=============================================================================
