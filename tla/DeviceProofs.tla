---------------------------- MODULE DeviceProofs ----------------------------
(***************************************************************************)
(* What the keyboard driver takes to be held, after any keys; the way of   *)
(* an input to a program; the terminal's line and the console's screen, of *)
(* any size.                                                               *)
(***************************************************************************)
EXTENDS Keyboard, GfxInput, Console, NatLemmas, TLAPS

(* The keyboard: modifiers (Kernel/keyboard.c). *)

(* Between E0 and the code of an extended key only that key is ahead of    *)
(* what the driver knows.                                                  *)
Halfway(k) ==
  /\ is_E0
  /\ sending = [code |-> Code[k], up |-> k \notin held]
  /\ ctl_keys = Set(held, k, k \in held) \cap Modifier

KbdInv ==
  ~skewed =>
    \/ sending.code = "none" /\ ~is_E0 /\ ctl_keys = held \cap Modifier
    \/ \E k \in Extended : Halfway(k)

LEMMA KeyCodes ==
  /\ Keys = {"lctrl", "rctrl", "lalt", "ralt", "lshift", "rshift", "delete", "dot", "letter"}
  /\ Code["lctrl"] = "ctrl" /\ Code["rctrl"] = "ctrl" /\ Code["lalt"] = "alt" /\ Code["ralt"] = "alt"
  /\ Code["lshift"] = "lshift" /\ Code["rshift"] = "rshift" /\ Code["delete"] = "del"
  /\ Code["dot"] = "del" /\ Code["letter"] = "x"
  BY Zenon DEF Keys, Code

(* What a code does to ctl_keys: with the right is_E0, just what its key   *)
(* does to the keys held.                                                  *)
LEMMA CodeMatches ==
  ASSUME NEW k \in Keys, NEW up \in BOOLEAN, is_E0 <=> k \in Extended
  PROVE  CtlKeys(Code[k], up) = IF k \in Modifier THEN Set(ctl_keys, k, up) ELSE ctl_keys
<1>1. CASE k \in {"lctrl", "rctrl", "lalt", "ralt"}
  BY <1>1, KeyCodes, Zenon DEF CtlKeys, Extended, Modifier
<1>2. CASE k \in {"lshift", "rshift"}
  BY <1>2, KeyCodes, Zenon DEF CtlKeys, Modifier
<1>3. CASE k \in {"delete", "dot", "letter"}
  BY <1>3, KeyCodes, Zenon DEF CtlKeys, Modifier
<1>4. QED
  BY <1>1, <1>2, <1>3, KeyCodes, Zenon

(* A code that is handled, not returned on with is_E0 set. *)
LEMMA HandleMatches ==
  ASSUME NEW k \in Keys, NEW up \in BOOLEAN, NEW s, is_E0 <=> k \in Extended,
         ctl_keys = s \cap Modifier, Handle(Code[k], up), ~skewed'
  PROVE  ~skewed /\ ~is_E0' /\ ctl_keys' = Set(s, k, up) \cap Modifier
<1>1. CASE Swallowed(Code[k], up)
  <2>1. skewed' = (skewed \/ is_E0) /\ is_E0' = is_E0 /\ ctl_keys' = ctl_keys
    BY <1>1, Zenon DEF Handle
  <2>2. Code[k] = "del"
    BY <1>1, Zenon DEF Swallowed
  <2>3. k \notin Modifier
    BY <2>2, KeyCodes, Zenon DEF Modifier
  <2>4. s \cap Modifier = Set(s, k, up) \cap Modifier
    BY <2>3, Zenon DEF Set
  <2>5. ~skewed /\ ~is_E0
    BY <2>1, Zenon
  <2>6. QED
    BY <2>1, <2>4, <2>5, Zenon
<1>2. CASE ~Swallowed(Code[k], up)
  <2>1. ctl_keys' = CtlKeys(Code[k], up) /\ ~is_E0' /\ skewed' = skewed
    BY <1>2, Zenon DEF Handle
  <2>2. ctl_keys' = IF k \in Modifier THEN Set(ctl_keys, k, up) ELSE ctl_keys
    BY <2>1, CodeMatches, Zenon
  <2>3. k \in Modifier => Set(s \cap Modifier, k, up) = Set(s, k, up) \cap Modifier
    BY Zenon DEF Set
  <2>4. k \notin Modifier => s \cap Modifier = Set(s, k, up) \cap Modifier
    BY Zenon DEF Set
  <2>5. QED
    BY <2>1, <2>2, <2>3, <2>4, Zenon
<1>3. QED
  BY <1>1, <1>2, Zenon

LEMMA ExtendedKeys == Extended \subseteq Keys /\ \A k \in Extended : Code[k] # "none"
  BY KeyCodes, Zenon DEF Extended

LEMMA KbdInvStep ==
  ASSUME KbdInv, [KbdNext]_kbdVars
  PROVE  KbdInv'
<1>1. SUFFICES ASSUME ~skewed'
               PROVE  \/ sending'.code = "none" /\ ~is_E0' /\ ctl_keys' = held' \cap Modifier
                      \/ \E k \in Extended : Halfway(k)'
  BY Zenon DEF KbdInv
<1>2. ASSUME NEW k \in Keys, KeyMoves(k)
      PROVE  \/ sending'.code = "none" /\ ~is_E0' /\ ctl_keys' = held' \cap Modifier
             \/ \E j \in Extended : Halfway(j)'
  <2>1. sending.code = "none" /\ held' = Set(held, k, k \in held)
    BY <1>2, Zenon DEF KeyMoves
  <2>2. skewed \/ (~is_E0 /\ ctl_keys = held \cap Modifier)
    BY <2>1, ExtendedKeys DEF KbdInv, Halfway
  <2>3. CASE k \in Extended
    <3>1. /\ sending' = [code |-> Code[k], up |-> k \in held] /\ is_E0'
          /\ ctl_keys' = ctl_keys /\ skewed' = skewed
      BY <1>2, <2>3, Zenon DEF KeyMoves
    <3>2. (k \notin held') = (k \in held)
      BY <2>1 DEF Set
    <3>3. Set(held', k, k \in held') = held
      BY <2>1, Zenon DEF Set
    <3>4. Halfway(k)'
      BY <1>1, <2>2, <3>1, <3>2, <3>3, Zenon DEF Halfway
    <3>5. QED
      BY <2>3, <3>4, Zenon
  <2>4. CASE k \notin Extended
    <3>1. Handle(Code[k], k \in held) /\ sending' = sending
      BY <1>2, <2>4, Zenon DEF KeyMoves
    <3>2. skewed' = skewed \/ skewed' = (skewed \/ is_E0)
      BY <3>1, Zenon DEF Handle
    <3>3. ~is_E0 /\ ctl_keys = held \cap Modifier
      BY <1>1, <2>2, <3>2, Zenon
    <3>4. (k \in held) \in BOOLEAN /\ (is_E0 <=> k \in Extended)
      BY <2>4, <3>3
    <3>5. ~is_E0' /\ ctl_keys' = Set(held, k, k \in held) \cap Modifier
      BY <1>1, <3>1, <3>3, <3>4, HandleMatches, Zenon
    <3>6. QED
      BY <2>1, <3>1, <3>5, Zenon
  <2>5. QED
    BY <2>3, <2>4, Zenon
<1>3. ASSUME SecondCode
      PROVE  sending'.code = "none" /\ ~is_E0' /\ ctl_keys' = held' \cap Modifier
  <2>1. /\ sending.code # "none" /\ Handle(sending.code, sending.up)
        /\ sending' = [code |-> "none", up |-> FALSE] /\ held' = held
    BY <1>3, Zenon DEF SecondCode
  <2>2. skewed' = skewed \/ skewed' = (skewed \/ is_E0)
    BY <2>1, Zenon DEF Handle
  <2>3. PICK k \in Extended : Halfway(k)
    BY <1>1, <2>1, <2>2, Zenon DEF KbdInv
  <2>4. /\ is_E0 /\ sending.code = Code[k] /\ sending.up = (k \notin held)
        /\ ctl_keys = Set(held, k, k \in held) \cap Modifier
    BY <2>3, Zenon DEF Halfway
  <2>5. (k \notin held) \in BOOLEAN /\ k \in Keys /\ (is_E0 <=> k \in Extended)
    BY <2>4, ExtendedKeys, Zenon
  <2>6. Handle(Code[k], k \notin held)
    BY <2>1, <2>4, Zenon
  <2>7. ~is_E0' /\ ctl_keys' = Set(Set(held, k, k \in held), k, k \notin held) \cap Modifier
    BY <1>1, <2>4, <2>5, <2>6, HandleMatches, Zenon
  <2>8. Set(Set(held, k, k \in held), k, k \notin held) = held
    BY Zenon DEF Set
  <2>9. QED
    BY <2>1, <2>7, <2>8
<1>4. ASSUME CapsLock
      PROVE  sending'.code = "none" /\ ~is_E0' /\ ctl_keys' = held' \cap Modifier
  <2>1. /\ sending.code = "none" /\ ~is_E0' /\ held' = held /\ sending' = sending
        /\ ctl_keys' = ctl_keys /\ skewed' = skewed
    BY <1>4, Zenon DEF CapsLock
  <2>2. ctl_keys = held \cap Modifier
    BY <1>1, <2>1, ExtendedKeys DEF KbdInv, Halfway
  <2>3. QED
    BY <2>1, <2>2, Zenon
<1>5. CASE UNCHANGED kbdVars
  BY <1>1, <1>5, Zenon DEF KbdInv, kbdVars, Halfway
<1>6. QED
  BY <1>2, <1>3, <1>4, <1>5, Zenon DEF KbdNext

(* keyboard_handler knows the modifier keys that are down, after any       *)
(* sequence of keys in which it did not return on Del with is_E0 set.      *)
THEOREM ModifiersKnown == KbdSpec => []ModifiersTrue
<1>1. KbdInit => KbdInv
  BY DEF KbdInit, KbdInv
<1>2. KbdInv /\ [KbdNext]_kbdVars => KbdInv'
  BY KbdInvStep, Zenon
<1>3. KbdInv => ModifiersTrue
  BY ExtendedKeys DEF KbdInv, ModifiersTrue, Halfway
<1>4. QED
  BY <1>1, <1>2, <1>3, PTL DEF KbdSpec
-----------------------------------------------------------------------------
(***************************************************************************)
(* Input on its way to a program: InputKept for queues of every length,    *)
(* every limit on the messages and any number of inputs (GfxInput.tla).    *)
(***************************************************************************)

(* The places of the gfx loop from which it will look at the device again  *)
(* with the mark in gfxisr_mask, with the mark in its register, and those  *)
(* where it is emptying the queue.                                         *)
MouseAhead == {"act", "mouse?"}
KbdAhead == {"act", "mouse?", "mouse", "mouseclr", "kbd?"}
KbdEmptying == {"kbd", "link", "cnt", "cnt2", "wake"}
GfxPlace == KbdAhead \cup KbdEmptying \cup {"sleep", "act2", "mouseclr2", "kbdclr", "kbdclr2"}

(* An input that waits and came in time is marked where the loop will find *)
(* the mark; a loop that sleeps has none, and whoever sets a mark wakes it *)
(* because GFXISR_ACT is off.                                              *)
MouseMarked ==
  inq_ms # <<>> /\ "mouse" \notin late =>
    \/ gpc = "mouse"
    \/ gpc \in MouseAhead /\ "mouse" \in gfxmask
    \/ gpc = "act2" /\ "mouse" \in maskreg

KbdMarked ==
  inq_kb > 0 /\ "kbd" \notin late =>
    \/ gpc \in KbdEmptying
    \/ gpc \in KbdAhead /\ "kbd" \in gfxmask
    \/ gpc \in {"act2", "mouseclr2"} /\ "kbd" \in maskreg

InputInv ==
  /\ gpc \in GfxPlace
  /\ gpc = "act" => "ACT" \notin gfxmask
  /\ gcpu = "gfx" => "gfx" \in onrun
  /\ MouseMarked
  /\ KbdMarked
  /\ InputSeen

(* The messages, with the one that the gfx thread has linked and not yet   *)
(* counted and the one that the program has taken and not yet counted off. *)
Uncounted == IF gpc \in {"cnt", "cnt2"} THEN 1 ELSE 0
Untaken == IF apc \in {"dec", "dec2"} THEN 1 ELSE 0

MsgInv ==
  /\ p_msgq \in Seq(Int) /\ p_nrmsgs \in Int /\ accepted \in Int /\ got \in Int
  /\ cntreg \in [{"gfx", "app"} -> Int]
  /\ msgraced \in BOOLEAN
  /\ apc \in {"next", "store"} => p_msgq # <<>>
  /\ ~msgraced =>
       /\ \A i \in 1..Len(p_msgq) : p_msgq[i] = got + i
       /\ got + Len(p_msgq) = accepted
       /\ p_nrmsgs + Uncounted = Len(p_msgq) + Untaken
       /\ "app" \notin onrun /\ gpc \notin {"cnt", "cnt2", "wake"} => p_msgq = <<>>
GfxInv == InputInv /\ MsgInv

(* What one step of the gfx thread, of an interrupt or of the program does *)
(* to the marks.                                                           *)
LEMMA MarksByIrq ==
  ASSUME InputInv, NEW k, Switch \/ put_queue \/ ms_irq_handler(k)
  PROVE  InputInv'
<1>1. CASE Switch
  BY <1>1, Zenon DEF Switch, InputInv, MouseMarked, KbdMarked, InputSeen, GfxPlace, MouseAhead, KbdAhead, KbdEmptying
<1>2. CASE put_queue
  BY <1>2, Zenon DEF put_queue, schedgfxisr, Past, InputInv, MouseMarked, KbdMarked, InputSeen, GfxPlace, MouseAhead, KbdAhead, KbdEmptying
<1>3. CASE ms_irq_handler(k)
  BY <1>3, Zenon DEF ms_irq_handler, schedgfxisr, Past, InputInv, MouseMarked, KbdMarked, InputSeen, GfxPlace, MouseAhead, KbdAhead, KbdEmptying
<1> QED BY <1>1, <1>2, <1>3, Zenon

LEMMA MarksBySleep == InputInv /\ GfxSleep => InputInv'
  BY Zenon DEF GfxSleep, GfxAt, InputInv, MouseMarked, KbdMarked, InputSeen, GfxPlace, MouseAhead, KbdAhead, KbdEmptying

LEMMA MarksByAct == InputInv /\ GfxAct => InputInv'
  BY Zenon DEF GfxAct, LoadGfxMask, StoreGfxMask, GfxAt, InputInv, MouseMarked, KbdMarked, InputSeen, GfxPlace, MouseAhead, KbdAhead, KbdEmptying

LEMMA MarksByMouse == InputInv /\ GfxMouse => InputInv'
<1> SUFFICES ASSUME InputInv, GfxMouse PROVE InputInv'
  BY Zenon
<1>1. CASE GfxTest("mouse", "mouse?", "kbd?")
  BY <1>1, Zenon DEF GfxTest, GfxAt, InputInv, MouseMarked, KbdMarked, InputSeen, GfxPlace, MouseAhead, KbdAhead, KbdEmptying
<1>2. CASE /\ inq_ms # <<>> /\ GfxAt("mouse", "mouse")
           /\ frame_mouse_event(Head(inq_ms)) /\ inq_ms' = Tail(inq_ms)
           /\ UNCHANGED <<inq_kb, gfxmask, maskreg, gcpu, late>> /\ Rest
  <2>1. "gfx" \in onrun => "gfx" \in onrun'
    BY <1>2, Zenon DEF frame_mouse_event, frame_sendmsg
  <2> QED BY <1>2, <2>1, Zenon DEF GfxAt, InputInv, MouseMarked, KbdMarked, InputSeen, GfxPlace, MouseAhead, KbdAhead, KbdEmptying
<1>3. CASE /\ inq_ms = <<>> /\ GfxAt("mouse", "mouseclr")
           /\ UNCHANGED <<inq_ms, inq_kb, gfxmask, maskreg, onrun, gcpu, focus, late>> /\ SameMsgs /\ Rest
  BY <1>3, Zenon DEF GfxAt, InputInv, MouseMarked, KbdMarked, InputSeen, GfxPlace, MouseAhead, KbdAhead, KbdEmptying
<1>4. CASE GfxClear("mouse", "mouseclr", "mouseclr2", "kbd?")
  BY <1>4, Zenon DEF GfxClear, LoadGfxMask, StoreGfxMask, GfxAt, InputInv, MouseMarked, KbdMarked, InputSeen, GfxPlace, MouseAhead, KbdAhead, KbdEmptying
<1> QED BY <1>1, <1>2, <1>3, <1>4, Zenon DEF GfxMouse

LEMMA MarksByKbd == InputInv /\ GfxKbd => InputInv'
<1> SUFFICES ASSUME InputInv, GfxKbd PROVE InputInv'
  OBVIOUS
<1>1. CASE GfxTest("kbd", "kbd?", "sleep")
  BY <1>1, Zenon DEF GfxTest, GfxAt, InputInv, MouseMarked, KbdMarked, InputSeen, GfxPlace, MouseAhead, KbdAhead, KbdEmptying
<1>2. CASE kb_read
  BY <1>2, Zenon DEF kb_read, GfxAt, InputInv, MouseMarked, KbdMarked, InputSeen, GfxPlace, MouseAhead, KbdAhead, KbdEmptying
<1>3. CASE SendKey
  BY <1>3, Zenon DEF SendKey, GfxAt, InputInv, MouseMarked, KbdMarked, InputSeen, GfxPlace, MouseAhead, KbdAhead, KbdEmptying
<1>4. CASE /\ inq_kb = 0 /\ GfxAt("kbd", "kbdclr")
           /\ UNCHANGED <<inq_ms, inq_kb, gfxmask, maskreg, onrun, gcpu, focus, late>> /\ SameMsgs /\ Rest
  BY <1>4 DEF GfxAt, InputInv, MouseMarked, KbdMarked, InputSeen, GfxPlace, MouseAhead, KbdAhead, KbdEmptying
<1>5. CASE GfxClear("kbd", "kbdclr", "kbdclr2", "sleep")
  BY <1>5, Zenon DEF GfxClear, LoadGfxMask, StoreGfxMask, GfxAt, InputInv, MouseMarked, KbdMarked, InputSeen, GfxPlace, MouseAhead, KbdAhead, KbdEmptying
<1> QED BY <1>1, <1>2, <1>3, <1>4, <1>5, Zenon DEF GfxKbd

LEMMA MarksByApp == InputInv /\ kframe_get_message => InputInv'
<1> SUFFICES ASSUME InputInv, kframe_get_message PROVE InputInv'
  OBVIOUS
<1>1. /\ UNCHANGED <<inq_ms, inq_kb, gfxmask, maskreg, gpc, late>>
      /\ "gfx" \in onrun' <=> "gfx" \in onrun
      /\ gcpu' = "gfx" => "gfx" \in onrun
  BY Zenon DEF kframe_get_message, TakeMsg, Sleeps, AppAt, InputInv
<1> QED BY <1>1, Zenon DEF InputInv, MouseMarked, KbdMarked, InputSeen, GfxPlace, MouseAhead, KbdAhead, KbdEmptying

(* Steps that leave the messages alone. *)
LEMMA MessagesAlone ==
  ASSUME MsgInv, UNCHANGED msgVars, UNCHANGED apc,
         gpc \in {"cnt", "cnt2"} <=> gpc' \in {"cnt", "cnt2"},
         "app" \in onrun => "app" \in onrun',
         gpc = "wake" => gpc' = "wake" \/ "app" \in onrun'
  PROVE  MsgInv'
BY Zenon DEF MsgInv, msgVars, Uncounted, Untaken

(* Messages put at the end: frame_sendmsg, with their count. *)
LEMMA MessagesLinked ==
  ASSUME MsgInv, NEW fm, NEW n \in Nat, MsgMax \in Int, frame_sendmsg(fm, n),
         UNCHANGED <<gpc, apc>>, gpc \notin {"cnt", "cnt2", "wake"}
  PROVE  MsgInv'
<1> DEFINE r == IF fm = "app" THEN Room(n) ELSE 0
<1>1. r \in Nat
  BY DEF MsgInv, Room
<1>2. PICK k \in Nat : k = r
  BY <1>1, Zenon
<1>3. /\ p_msgq' = p_msgq \o [i \in 1..k |-> accepted + i]
      /\ p_nrmsgs' = p_nrmsgs + k
      /\ accepted' = accepted + k
      /\ onrun' = IF accepted' > accepted THEN onrun \cup {"app"} ELSE onrun
      /\ UNCHANGED <<tailp, fmnext, cntreg, got, msgraced>>
  BY <1>2, Zenon DEF frame_sendmsg, Link
<1>4. p_msgq \in Seq(Int) /\ accepted \in Int /\ got \in Int /\ p_nrmsgs \in Int
  BY Zenon DEF MsgInv
<1>5. [i \in 1..k |-> accepted + i] \in Seq(Int) /\ Len([i \in 1..k |-> accepted + i]) = k
  BY <1>4
<1>6. /\ p_msgq' \in Seq(Int) /\ Len(p_msgq') = Len(p_msgq) + k
      /\ \A i \in 1..Len(p_msgq) : p_msgq'[i] = p_msgq[i]
      /\ \A i \in (Len(p_msgq) + 1)..(Len(p_msgq) + k) : p_msgq'[i] = accepted + (i - Len(p_msgq))
  BY <1>3, <1>4, <1>5
<1>7. p_msgq # <<>> => p_msgq' # <<>>
  BY <1>4, <1>6
<1>8. ASSUME ~msgraced
      PROVE  \A i \in 1..Len(p_msgq') : p_msgq'[i] = got + i
  <2> SUFFICES ASSUME NEW i \in 1..Len(p_msgq') PROVE p_msgq'[i] = got + i
    BY Zenon
  <2>1. got + Len(p_msgq) = accepted /\ Len(p_msgq) \in Nat
    BY <1>4, <1>8 DEF MsgInv
  <2>2. CASE i \in 1..Len(p_msgq)
    BY <2>2, <1>6, <1>8, Zenon DEF MsgInv
  <2>3. CASE i \notin 1..Len(p_msgq)
    <3>1. i \in (Len(p_msgq) + 1)..(Len(p_msgq) + k)
      BY <2>3, <2>1, <1>6
    <3>2. p_msgq'[i] = accepted + (i - Len(p_msgq))
      BY <3>1, <1>6, Zenon
    <3>3. PICK l \in Nat, g \in Int, j \in Int : l = Len(p_msgq) /\ g = got /\ j = i
      BY <2>1, <1>4, <3>1
    <3>4. (g + l) + (j - l) = g + j
      BY SMT
    <3> QED BY <3>2, <3>3, <3>4, <2>1, Zenon
  <2> QED BY <2>2, <2>3, Zenon
<1>9. "app" \notin onrun' => k = 0 /\ "app" \notin onrun
  BY <1>3, <1>4
<1>10. k = 0 => p_msgq' = p_msgq
  <2>1. p_msgq' \in Seq(Int) /\ p_msgq \in Seq(Int)
    BY <1>4, <1>6, Zenon
  <2>2. k = 0 => Len(p_msgq') = Len(p_msgq) /\ \A i \in 1..Len(p_msgq) : p_msgq'[i] = p_msgq[i]
    BY <1>4, <1>6
  <2> QED BY <2>1, <2>2
<1>11. Len(p_msgq) \in Nat
  BY <1>4
<1>12. Uncounted' = Uncounted /\ Untaken' = Untaken /\ Uncounted \in Int /\ Untaken \in Int
  BY DEF Uncounted, Untaken
<1>13. cntreg' = cntreg /\ got' = got /\ msgraced' = msgraced /\ apc' = apc /\ gpc' = gpc
  BY <1>3, Zenon
<1>14. p_nrmsgs' \in Int /\ accepted' \in Int
  BY <1>3, <1>4
<1>15. ASSUME ~msgraced
       PROVE  got + Len(p_msgq') = accepted' /\ p_nrmsgs' + Uncounted = Len(p_msgq') + Untaken
  <2>1. got + Len(p_msgq) = accepted /\ p_nrmsgs + Uncounted = Len(p_msgq) + Untaken
    BY <1>15, Zenon DEF MsgInv
  <2>2. Len(p_msgq') = Len(p_msgq) + k /\ p_nrmsgs' = p_nrmsgs + k /\ accepted' = accepted + k
    BY <1>3, <1>6, Zenon
  <2> QED BY <2>1, <2>2, <1>4, <1>11, <1>12
<1>16. ASSUME ~msgraced, "app" \notin onrun'
       PROVE  p_msgq' = <<>>
  BY <1>16, <1>9, <1>10, Zenon DEF MsgInv
<1> QED BY <1>6, <1>7, <1>8, <1>12, <1>13, <1>14, <1>15, <1>16, Zenon DEF MsgInv

(* frame_kbd_event puts one message at the end, then counts it, then wakes *)
(* the process.                                                            *)
LEMMA MessagesByKey == MsgInv /\ SendKey => MsgInv'
<1> SUFFICES ASSUME MsgInv, SendKey PROVE MsgInv'
  OBVIOUS
<1>1. CASE GfxAt("link", "cnt") /\ UNCHANGED <<onrun, p_nrmsgs, cntreg, got, apc>>
           /\ accepted' = accepted + 1
           /\ IF tailp = 0 \/ (p_msgq # <<>> /\ p_msgq[Len(p_msgq)] = tailp)
              THEN p_msgq' = Append(p_msgq, accepted + 1) /\ UNCHANGED msgraced
              ELSE msgraced' = TRUE /\ UNCHANGED p_msgq
  <2>1. CASE p_msgq' = Append(p_msgq, accepted + 1) /\ UNCHANGED msgraced
    <3>1. p_msgq \in Seq(Int) /\ accepted \in Int /\ got \in Int /\ p_nrmsgs \in Int
      BY Zenon DEF MsgInv
    <3>2. /\ p_msgq' \in Seq(Int) /\ Len(p_msgq') = Len(p_msgq) + 1 /\ p_msgq' # <<>>
          /\ \A i \in 1..Len(p_msgq) : p_msgq'[i] = p_msgq[i]
          /\ p_msgq'[Len(p_msgq) + 1] = accepted + 1
      BY <2>1, <3>1
    <3>3. ASSUME ~msgraced
          PROVE  /\ \A i \in 1..Len(p_msgq') : p_msgq'[i] = got + i
                 /\ got + Len(p_msgq') = accepted'
      <4>1. got + Len(p_msgq) = accepted /\ Len(p_msgq) \in Nat
        BY <3>1, <3>3 DEF MsgInv
      <4>2. \A i \in 1..Len(p_msgq) : p_msgq[i] = got + i
        BY <3>3, Zenon DEF MsgInv
      <4>3. accepted' = accepted + 1
        BY <1>1, Zenon
      <4>4. \A i \in 1..Len(p_msgq') : i \in 1..Len(p_msgq) \/ i = Len(p_msgq) + 1
        BY <4>1, <3>2
      <4>5. accepted + 1 = got + (Len(p_msgq) + 1)
        BY <4>1, <3>1
      <4>6. \A i \in 1..Len(p_msgq') : p_msgq'[i] = got + i
        BY <4>2, <4>4, <4>5, <3>2, Zenon
      <4> QED BY <4>1, <4>3, <4>5, <4>6, <3>2, Zenon
    <3>4. /\ Uncounted = 0 /\ Uncounted' = 1 /\ Untaken' = Untaken /\ Untaken \in Int
          /\ Len(p_msgq) \in Nat
      BY <1>1, <3>1 DEF GfxAt, Uncounted, Untaken
    <3>5. ASSUME ~msgraced
          PROVE  p_nrmsgs' + Uncounted' = Len(p_msgq') + Untaken'
      <4>1. p_nrmsgs + Uncounted = Len(p_msgq) + Untaken
        BY <3>5, Zenon DEF MsgInv
      <4> QED BY <4>1, <3>1, <3>2, <3>4, <1>1
    <3>6. gpc' = "cnt" /\ cntreg' = cntreg /\ got' = got /\ apc' = apc /\ p_nrmsgs' = p_nrmsgs
      BY <1>1, Zenon DEF GfxAt
    <3>7. accepted' \in Int
      BY <1>1, <3>1
    <3> QED BY <2>1, <3>1, <3>2, <3>3, <3>5, <3>6, <3>7, Zenon DEF MsgInv
  <2>2. CASE msgraced' = TRUE /\ UNCHANGED p_msgq
    BY <1>1, <2>2 DEF MsgInv, GfxAt
  <2> QED BY <1>1, <2>1, <2>2, Zenon
<1>2. CASE GfxAt("cnt", "cnt2") /\ cntreg' = [cntreg EXCEPT !["gfx"] = p_nrmsgs]
           /\ UNCHANGED <<onrun, p_msgq, p_nrmsgs, accepted, got, msgraced, apc>>
  BY <1>2, Zenon DEF MsgInv, GfxAt, Uncounted, Untaken
<1>3. CASE GfxAt("cnt2", "wake") /\ UNCHANGED <<onrun, p_msgq, cntreg, accepted, got, apc>>
           /\ p_nrmsgs' = cntreg["gfx"] + 1 /\ msgraced' = (msgraced \/ p_nrmsgs # cntreg["gfx"])
  <2>1. CASE msgraced'
    BY <1>3, <2>1 DEF MsgInv, GfxAt
  <2>2. CASE ~msgraced' /\ ~msgraced /\ p_nrmsgs = cntreg["gfx"]
    BY <1>3, <2>2 DEF MsgInv, GfxAt, Uncounted, Untaken
  <2> QED BY <1>3, <2>1, <2>2, Zenon
<1>4. CASE GfxAt("wake", "kbd") /\ onrun' = onrun \cup {"app"} /\ SameMsgs /\ UNCHANGED apc
  BY <1>4, MessagesAlone, Zenon DEF GfxAt, SameMsgs
<1> QED BY <1>1, <1>2, <1>3, <1>4, Zenon DEF SendKey, Rest

(* The program takes the first message and counts it off. *)
LEMMA MessagesByTake == MsgInv /\ TakeMsg => MsgInv'
<1> SUFFICES ASSUME MsgInv, TakeMsg PROVE MsgInv'
  OBVIOUS
<1>1. CASE AppAt("test", IF p_msgq = <<>> THEN "unlink" ELSE "next")
           /\ UNCHANGED <<onrun, gcpu, p_msgq, p_nrmsgs, fmnext, cntreg, got, msgraced>>
  BY <1>1, Zenon DEF MsgInv, AppAt, Uncounted, Untaken
<1>2. CASE AppAt("next", "store")
           /\ UNCHANGED <<onrun, gcpu, p_msgq, p_nrmsgs, cntreg, got, msgraced>>
  BY <1>2, Zenon DEF MsgInv, AppAt, Uncounted, Untaken
<1>3. CASE /\ AppAt("store", "dec")
           /\ got' = Head(p_msgq)
           /\ p_msgq' = IF fmnext = 0 THEN <<>> ELSE Tail(p_msgq)
           /\ msgraced' = (msgraced \/ (fmnext = 0 /\ Len(p_msgq) > 1))
           /\ UNCHANGED <<onrun, gcpu, p_nrmsgs, fmnext, cntreg>>
  <2>1. p_msgq \in Seq(Int) /\ p_msgq # <<>> /\ Len(p_msgq) > 0 /\ got' \in Int
    BY <1>3 DEF MsgInv, AppAt
  <2>2. p_msgq' \in Seq(Int)
    BY <1>3, <2>1
  <2>3. CASE msgraced'
    BY <1>3, <2>1, <2>2, <2>3, Zenon DEF MsgInv, AppAt
  <2>4. CASE ~msgraced'
    <3>1. ~msgraced /\ ~(fmnext = 0 /\ Len(p_msgq) > 1)
      BY <1>3, <2>4, Zenon
    <3>2. got' = got + 1
      BY <1>3, <2>1, <3>1 DEF MsgInv
    <3>3. p_msgq' = Tail(p_msgq)
      BY <1>3, <2>1, <3>1
    <3>4. Len(p_msgq') = Len(p_msgq) - 1 /\ \A i \in 1..Len(p_msgq') : p_msgq'[i] = p_msgq[i + 1]
      BY <3>3, <2>1
    <3>5. \A i \in 1..Len(p_msgq') : p_msgq'[i] = got' + i
      BY <3>4, <3>2, <3>1, <2>1 DEF MsgInv
    <3>6. got' + Len(p_msgq') = accepted' /\ p_nrmsgs' + Uncounted' = Len(p_msgq') + Untaken'
      <4>1. got + Len(p_msgq) = accepted /\ p_nrmsgs + Uncounted = Len(p_msgq) + Untaken
        BY <3>1, Zenon DEF MsgInv
      <4>2. /\ Uncounted' = Uncounted /\ Untaken = 0 /\ Untaken' = 1 /\ Uncounted \in Int
            /\ accepted' = accepted /\ p_nrmsgs' = p_nrmsgs
        BY <1>3 DEF AppAt, Uncounted, Untaken
      <4>3. Len(p_msgq) \in Nat /\ got \in Int /\ accepted \in Int /\ p_nrmsgs \in Int
        BY <2>1 DEF MsgInv
      <4> QED BY <4>1, <4>2, <4>3, <3>2, <3>4
    <3>7. "app" \in onrun' \/ gpc' \in {"cnt", "cnt2", "wake"}
      BY <1>3, <2>1, <3>1, Zenon DEF MsgInv, AppAt
    <3> QED BY <1>3, <2>1, <2>2, <2>4, <3>5, <3>6, <3>7, Zenon DEF MsgInv, AppAt
  <2> QED BY <2>3, <2>4, Zenon
<1>4. CASE AppAt("dec", "dec2") /\ cntreg' = [cntreg EXCEPT !["app"] = p_nrmsgs]
           /\ UNCHANGED <<onrun, gcpu, p_msgq, p_nrmsgs, fmnext, got, msgraced>>
  BY <1>4, Zenon DEF MsgInv, AppAt, Uncounted, Untaken
<1>5. CASE AppAt("dec2", "test") /\ UNCHANGED <<onrun, gcpu, p_msgq, fmnext, cntreg, got>>
           /\ p_nrmsgs' = cntreg["app"] - 1 /\ msgraced' = (msgraced \/ p_nrmsgs # cntreg["app"])
  <2>1. CASE msgraced'
    BY <1>5, <2>1 DEF MsgInv, AppAt
  <2>2. CASE ~msgraced' /\ ~msgraced /\ p_nrmsgs = cntreg["app"]
    BY <1>5, <2>2 DEF MsgInv, AppAt, Uncounted, Untaken
  <2> QED BY <1>5, <2>1, <2>2, Zenon
<1> QED BY <1>1, <1>2, <1>3, <1>4, <1>5, Zenon DEF TakeMsg

LEMMA MessagesBySleep == MsgInv /\ Sleeps => MsgInv'
<1> SUFFICES ASSUME MsgInv, Sleeps PROVE MsgInv'
  OBVIOUS
<1>1. CASE AppAt("unlink", "wait") /\ onrun' = onrun \ {"app"}
           /\ msgraced' = (msgraced \/ p_msgq # <<>>)
           /\ UNCHANGED <<gcpu, p_msgq, p_nrmsgs, fmnext, cntreg, got>>
  <2>1. CASE msgraced'
    BY <1>1, <2>1, Zenon DEF MsgInv, AppAt
  <2>2. CASE ~msgraced' /\ ~msgraced /\ p_msgq = <<>>
    BY <1>1, <2>2, Zenon DEF MsgInv, AppAt, Uncounted, Untaken
  <2> QED BY <1>1, <2>1, <2>2, Zenon
<1>2. CASE AppAt("wait", "sched") /\ msgraced' = (msgraced \/ "app" \in onrun)
           /\ UNCHANGED <<onrun, gcpu, p_msgq, p_nrmsgs, fmnext, cntreg, got>>
  <2>1. CASE msgraced'
    BY <1>2, <2>1, Zenon DEF MsgInv, AppAt
  <2>2. CASE ~msgraced' /\ ~msgraced
    BY <1>2, <2>2, Zenon DEF MsgInv, AppAt, Uncounted, Untaken
  <2> QED BY <1>2, <2>1, <2>2, Zenon
<1>3. CASE AppAt("sched", "test")
           /\ UNCHANGED <<onrun, p_msgq, p_nrmsgs, fmnext, cntreg, got, msgraced>>
  BY <1>3, Zenon DEF MsgInv, AppAt, Uncounted, Untaken
<1> QED BY <1>1, <1>2, <1>3, Zenon DEF Sleeps

LEMMA MessagesByMouse == MsgInv /\ GfxMouse => MsgInv'
<1> SUFFICES ASSUME MsgInv, GfxMouse PROVE MsgInv'
  OBVIOUS
<1>1. CASE GfxTest("mouse", "mouse?", "kbd?")
  BY <1>1, MessagesAlone, Zenon DEF GfxTest, GfxAt, SameMsgs, Rest
<1>2. CASE /\ inq_ms # <<>> /\ GfxAt("mouse", "mouse")
           /\ frame_mouse_event(Head(inq_ms)) /\ inq_ms' = Tail(inq_ms)
           /\ UNCHANGED <<inq_kb, gfxmask, maskreg, gcpu, late>> /\ Rest
  <2>1. PICK fm \in {focus, focus'}, n \in {1, 2} : frame_sendmsg(fm, n)
    BY <1>2, Zenon DEF frame_mouse_event
  <2>2. n \in Nat
    BY <2>1
  <2> QED BY <1>2, <2>1, <2>2, MessagesLinked, MsgAssumption, Zenon DEF GfxAt, Rest
<1>3. CASE /\ inq_ms = <<>> /\ GfxAt("mouse", "mouseclr")
           /\ UNCHANGED <<inq_ms, inq_kb, gfxmask, maskreg, onrun, gcpu, focus, late>> /\ SameMsgs /\ Rest
  BY <1>3, MessagesAlone, Zenon DEF GfxAt, SameMsgs, Rest
<1>4. CASE GfxClear("mouse", "mouseclr", "mouseclr2", "kbd?")
  BY <1>4, MessagesAlone, Zenon DEF GfxClear, LoadGfxMask, StoreGfxMask, GfxAt, SameMsgs, Rest
<1> QED BY <1>1, <1>2, <1>3, <1>4 DEF GfxMouse

LEMMA MessagesByKbd == MsgInv /\ GfxKbd => MsgInv'
<1> SUFFICES ASSUME MsgInv, GfxKbd PROVE MsgInv'
  OBVIOUS
<1>1. CASE GfxTest("kbd", "kbd?", "sleep")
  BY <1>1, MessagesAlone, Zenon DEF GfxTest, GfxAt, SameMsgs, Rest
<1>2. CASE kb_read
  BY <1>2, Zenon DEF kb_read, GfxAt, Rest, MsgInv, Uncounted, Untaken
<1>3. CASE /\ inq_kb = 0 /\ GfxAt("kbd", "kbdclr")
           /\ UNCHANGED <<inq_ms, inq_kb, gfxmask, maskreg, onrun, gcpu, focus, late>> /\ SameMsgs /\ Rest
  BY <1>3, MessagesAlone, Zenon DEF GfxAt, SameMsgs, Rest
<1>4. CASE GfxClear("kbd", "kbdclr", "kbdclr2", "sleep")
  BY <1>4, MessagesAlone, Zenon DEF GfxClear, LoadGfxMask, StoreGfxMask, GfxAt, SameMsgs, Rest
<1> QED BY <1>1, <1>2, <1>3, <1>4, MessagesByKey, Zenon DEF GfxKbd

LEMMA GfxStarts == GfxInit => GfxInv
<1> SUFFICES ASSUME GfxInit PROVE GfxInv
  BY Zenon
<1>1. InputInv
  BY DEF GfxInit, InputInv, MouseMarked, KbdMarked, InputSeen, GfxPlace, KbdAhead, KbdEmptying
<1>2. MsgInv
  <2>1. p_msgq \in Seq(Int) /\ Len(p_msgq) = 0 /\ cntreg \in [{"gfx", "app"} -> Int]
    BY DEF GfxInit
  <2>2. Uncounted = 0 /\ Untaken = 0
    BY Zenon DEF GfxInit, Uncounted, Untaken
  <2>3. /\ p_msgq = <<>> /\ p_nrmsgs = 0 /\ accepted = 0 /\ got = 0 /\ msgraced = FALSE
        /\ apc = "test" /\ onrun = {"gfx", "app"}
    BY Zenon DEF GfxInit
  <2>4. \A i \in 1..0 : FALSE
    OBVIOUS
  <2>5. /\ \A i \in 1..Len(p_msgq) : p_msgq[i] = got + i
        /\ got + Len(p_msgq) = accepted
        /\ p_nrmsgs + Uncounted = Len(p_msgq) + Untaken
    BY <2>1, <2>2, <2>3, <2>4
  <2>6. p_nrmsgs \in Int /\ accepted \in Int /\ got \in Int
    BY <2>3
  <2>7. apc \notin {"next", "store"}
    BY <2>3, Zenon
  <2> QED BY <2>1, <2>3, <2>5, <2>6, <2>7, Zenon DEF MsgInv
<1> QED BY <1>1, <1>2, Zenon DEF GfxInv

LEMMA GfxKeeps == GfxInv /\ [GfxNext]_gfxVars => GfxInv'
<1> SUFFICES ASSUME GfxInv, [GfxNext]_gfxVars PROVE GfxInv'
  OBVIOUS
<1>a. InputInv /\ MsgInv
  BY Zenon DEF GfxInv
<1>1. CASE Switch
  <2>1. MsgInv'
    BY <1>1, <1>a, MessagesAlone, Zenon DEF Switch, msgVars
  <2> QED BY <1>1, <1>a, <2>1, MarksByIrq, Zenon DEF GfxInv
<1>2. CASE put_queue
  <2>1. MsgInv'
    BY <1>2, <1>a, MessagesAlone, Zenon DEF put_queue, schedgfxisr
  <2> QED BY <1>2, <1>a, <2>1, MarksByIrq, Zenon DEF GfxInv
<1>3. CASE \E k \in MouseKind : ms_irq_handler(k)
  <2>1. MsgInv'
    BY <1>3, <1>a, MessagesAlone, Zenon DEF ms_irq_handler, schedgfxisr
  <2> QED BY <1>3, <1>a, <2>1, MarksByIrq, Zenon DEF GfxInv
<1>4. CASE GfxSleep
  <2>1. MsgInv'
    BY <1>4, <1>a, MessagesAlone, Zenon DEF GfxSleep, GfxAt, SameMsgs, Rest
  <2> QED BY <1>4, <1>a, <2>1, MarksBySleep, Zenon DEF GfxInv
<1>5. CASE GfxAct
  <2>1. MsgInv'
    BY <1>5, <1>a, MessagesAlone, Zenon DEF GfxAct, LoadGfxMask, StoreGfxMask, GfxAt, SameMsgs, Rest
  <2> QED BY <1>5, <1>a, <2>1, MarksByAct DEF GfxInv
<1>6. CASE GfxMouse
  BY <1>6, <1>a, MarksByMouse, MessagesByMouse, Zenon DEF GfxInv
<1>7. CASE GfxKbd
  BY <1>7, <1>a, MarksByKbd, MessagesByKbd, Zenon DEF GfxInv
<1>8. CASE kframe_get_message
  <2>1. MsgInv'
    BY <1>8, <1>a, MessagesByTake, MessagesBySleep, Zenon DEF kframe_get_message
  <2> QED BY <1>8, <1>a, <2>1, MarksByApp DEF GfxInv
<1>9. CASE UNCHANGED gfxVars
  <2>1. MsgInv'
    BY <1>9, <1>a, MessagesAlone, Zenon DEF gfxVars, msgVars
  <2>2. InputInv'
    BY <1>9, <1>a, Zenon DEF gfxVars, InputInv, MouseMarked, KbdMarked, InputSeen
  <2> QED BY <2>1, <2>2, Zenon DEF GfxInv
<1> QED BY <1>1, <1>2, <1>3, <1>4, <1>5, <1>6, <1>7, <1>8, <1>9, Zenon DEF GfxNext

(* The gfx thread does not go to sleep on an input that came in time, and  *)
(* messages reach the program once, in order and with their count, for     *)
(* device queues and message limits of every size and any number of        *)
(* inputs (init in main.c, frame_sendmsg, kframe_get_message).             *)
THEOREM InputKeptAlways == GfxSpec => []InputKept
<1>1. GfxInv => InputKept
  <2> SUFFICES ASSUME GfxInv PROVE InputKept
    BY Zenon
  <2>1. InputSeen
    BY Zenon DEF GfxInv, InputInv
  <2>2. MessagesKept
    BY DEF GfxInv, MsgInv, MessagesKept, Uncounted, Untaken
  <2> QED BY <2>1, <2>2, Zenon DEF InputKept
<1> QED BY <1>1, GfxStarts, GfxKeeps, PTL DEF GfxSpec
-----------------------------------------------------------------------------
(***************************************************************************)
(* The line of the terminal: LineKept for rings of every size and reads of *)
(* every length (Console.tla).                                             *)
(***************************************************************************)

(* The i-th slot from h on, and the slots from h to t. *)
Slot(h, i) == IF h + i - 1 < CbufSize THEN h + i - 1 ELSE h + i - 1 - CbufSize
Gap(h, t) == IF h <= t THEN t - h ELSE t + CbufSize - h

Ended == \E i \in 1..Len(typed) : typed[i] = "nl"

LineInv ==
  /\ torn \in BOOLEAN
  /\ ~torn =>
       /\ chead \in Ring /\ ctail \in Ring /\ cc \in Int /\ ccreg \in Int
       /\ cbuf = [i \in Ring |-> cbuf[i]]
       /\ typed \in Seq(Key)
       /\ Len(typed) = Gap(chead, ctail)
       /\ \A i \in 1..Len(typed) : cbuf[Slot(chead, i)] = typed[i]
       /\ cc = IF rdpc = "dec" THEN Len(typed) + 1 ELSE Len(typed)
       /\ rdpc = "dec" => ccreg = cc
       /\ asleep \in BOOLEAN /\ (asleep => rdpc = "get")
       /\ (asleep \/ rdpc = "wait") /\ Ended => missed

LEMMA NextSlot ==
  ASSUME NEW i \in Ring
  PROVE  NextIn(i) \in Ring /\ NextIn(i) = IF i + 1 < CbufSize THEN i + 1 ELSE 0
<1>1. PICK n \in Nat \ {0} : n = CbufSize
  BY CbufAssumption, Zenon
<1>2. i + 1 \in Nat /\ i + 1 < 2 * n /\ i \in Nat /\ i < n
  BY <1>1, SMT DEF Ring
<1>3. PICK a \in Nat : a = i + 1
  BY <1>2, Zenon
<1>4. a % n = IF a < n THEN a ELSE a - n
  BY <1>2, <1>3, ModTwice, Zenon
<1>5. NextIn(i) = a % n
  BY <1>1, <1>3, Zenon DEF NextIn
<1> QED BY <1>1, <1>2, <1>3, <1>4, <1>5, SMT DEF Ring

(* The slots of the ring when it grows at the end, or shrinks at either.   *)
LEMMA GapTyped ==
  ASSUME NEW h \in Ring, NEW t \in Ring
  PROVE  /\ Gap(h, t) \in Nat
         /\ \A i \in 1..Gap(h, t) : Slot(h, i) \in Ring /\ Slot(h, i) # t
  BY CbufAssumption, SMT DEF Gap, Slot, Ring

LEMMA GapGrows ==
  ASSUME NEW h \in Ring, NEW t \in Ring, NEW u, u # h,
         u = IF t + 1 < CbufSize THEN t + 1 ELSE 0
  PROVE  Gap(h, u) = Gap(h, t) + 1 /\ Slot(h, Gap(h, t) + 1) = t
  BY CbufAssumption, SMT DEF Gap, Slot, Ring

LEMMA GapShrinks ==
  ASSUME NEW h \in Ring, NEW t \in Ring, t # 0, Gap(h, t) # 0
  PROVE  t - 1 \in Ring /\ Gap(h, t - 1) = Gap(h, t) - 1
  BY CbufAssumption, SMT DEF Gap, Ring

LEMMA GapMoves ==
  ASSUME NEW h \in Ring, NEW t \in Ring, NEW u, h # t,
         u = IF h + 1 < CbufSize THEN h + 1 ELSE 0
  PROVE  /\ Gap(u, t) \in Nat /\ Gap(h, t) = Gap(u, t) + 1
         /\ \A i \in 1..Gap(u, t) : Slot(u, i) = Slot(h, i + 1)
  BY CbufAssumption, SMT DEF Gap, Slot, Ring

(* tty_putc at the end of the line. *)
LEMMA LineByPut ==
  ASSUME LineInv, ~torn, NEW c \in Key, tty_putc(c), UNCHANGED chead, NextIn(ctail) # chead
  PROVE  /\ ctail' \in Ring /\ typed' \in Seq(Key) /\ cbuf' = [i \in Ring |-> cbuf'[i]]
         /\ Len(typed') = Gap(chead', ctail') /\ Len(typed') = Len(typed) + 1
         /\ \A i \in 1..Len(typed') : cbuf'[Slot(chead', i)] = typed'[i]
         /\ \A i \in 1..Len(typed) : typed'[i] = typed[i]
         /\ typed'[Len(typed) + 1] = c
<1>1. /\ cbuf' = [cbuf EXCEPT ![ctail] = c] /\ ctail' = NextIn(ctail)
      /\ typed' = Append(typed, c)
  BY Zenon DEF tty_putc
<1>2. /\ chead \in Ring /\ ctail \in Ring /\ typed \in Seq(Key)
      /\ cbuf = [i \in Ring |-> cbuf[i]] /\ Len(typed) = Gap(chead, ctail)
      /\ \A i \in 1..Len(typed) : cbuf[Slot(chead, i)] = typed[i]
  BY Zenon DEF LineInv
<1>3. /\ typed' \in Seq(Key) /\ Len(typed') = Len(typed) + 1 /\ Len(typed) \in Nat
      /\ \A i \in 1..Len(typed) : typed'[i] = typed[i]
      /\ typed'[Len(typed) + 1] = c
  BY <1>1, <1>2
<1>4. ctail' \in Ring /\ ctail' = IF ctail + 1 < CbufSize THEN ctail + 1 ELSE 0
  BY <1>1, <1>2, NextSlot, Zenon
<1>5. /\ Gap(chead, ctail') = Gap(chead, ctail) + 1
      /\ Slot(chead, Gap(chead, ctail) + 1) = ctail
      /\ \A i \in 1..Gap(chead, ctail) : Slot(chead, i) \in Ring /\ Slot(chead, i) # ctail
  <2>1. ctail' # chead
    BY <1>1, Zenon
  <2>2. PICK h \in Ring, t \in Ring, u \in Ring : h = chead /\ t = ctail /\ u = ctail'
    BY <1>2, <1>4, Zenon
  <2>3. u # h /\ u = IF t + 1 < CbufSize THEN t + 1 ELSE 0
    BY <1>4, <2>1, <2>2, Zenon
  <2>4. Gap(h, u) = Gap(h, t) + 1 /\ Slot(h, Gap(h, t) + 1) = t
    BY <2>3, GapGrows, Zenon
  <2>5. \A i \in 1..Gap(h, t) : Slot(h, i) \in Ring /\ Slot(h, i) # t
    BY GapTyped, Zenon
  <2> QED BY <2>2, <2>4, <2>5, Zenon
<1>6. /\ cbuf' = [i \in Ring |-> cbuf'[i]]
      /\ cbuf'[ctail] = c /\ \A i \in Ring : i # ctail => cbuf'[i] = cbuf[i]
  BY <1>1, <1>2, Zenon
<1>7. \A i \in 1..Len(typed') : i \in 1..Len(typed) \/ i = Len(typed) + 1
  BY <1>3
<1>8. \A i \in 1..Len(typed') : cbuf'[Slot(chead, i)] = typed'[i]
  <2> SUFFICES ASSUME NEW i \in 1..Len(typed') PROVE cbuf'[Slot(chead, i)] = typed'[i]
    BY Zenon
  <2>1. CASE i \in 1..Len(typed)
    BY <2>1, <1>2, <1>3, <1>5, <1>6, Zenon
  <2>2. CASE i = Len(typed) + 1
    BY <2>2, <1>2, <1>3, <1>5, <1>6, Zenon
  <2> QED BY <2>1, <2>2, <1>7, Zenon
<1> QED BY <1>2, <1>3, <1>4, <1>5, <1>6, <1>8, Zenon

(* tty_erc of the last character, not at index 0. *)
LEMMA LineByErase ==
  ASSUME LineInv, ~torn, tty_erc, UNCHANGED chead, cc > 0, rdpc # "dec", ctail # 0
  PROVE  /\ ctail' \in Ring /\ typed' \in Seq(Key) /\ cbuf' = [i \in Ring |-> cbuf'[i]]
         /\ Len(typed') = Gap(chead', ctail') /\ Len(typed') = Len(typed) - 1
         /\ \A i \in 1..Len(typed') : cbuf'[Slot(chead', i)] = typed'[i]
         /\ \A i \in 1..Len(typed') : i \in 1..Len(typed) /\ typed'[i] = typed[i]
<1>1. /\ cbuf' = [cbuf EXCEPT ![ctail] = "0"] /\ ctail' = ctail - 1
      /\ typed' = SubSeq(typed, 1, Len(typed) - 1)
  BY Zenon DEF tty_erc
<1>2. /\ chead \in Ring /\ ctail \in Ring /\ typed \in Seq(Key)
      /\ cbuf = [i \in Ring |-> cbuf[i]] /\ Len(typed) = Gap(chead, ctail)
      /\ \A i \in 1..Len(typed) : cbuf[Slot(chead, i)] = typed[i]
      /\ cc = Len(typed)
  BY Zenon DEF LineInv
<1>3. /\ typed' \in Seq(Key) /\ Len(typed') = Len(typed) - 1 /\ Len(typed) \in Nat
      /\ \A i \in 1..Len(typed') : i \in 1..Len(typed) /\ typed'[i] = typed[i]
  BY <1>1, <1>2
<1>4. /\ ctail' \in Ring
      /\ Gap(chead, ctail') = Gap(chead, ctail) - 1
      /\ \A i \in 1..Gap(chead, ctail) : Slot(chead, i) \in Ring /\ Slot(chead, i) # ctail
  <2>1. Gap(chead, ctail) # 0
    BY <1>2
  <2> QED BY <1>1, <1>2, <2>1, GapShrinks, GapTyped, Zenon
<1>5. /\ cbuf' = [i \in Ring |-> cbuf'[i]]
      /\ \A i \in Ring : i # ctail => cbuf'[i] = cbuf[i]
  BY <1>1, <1>2, Zenon
<1>6. \A i \in 1..Len(typed') : cbuf'[Slot(chead, i)] = typed'[i]
  BY <1>2, <1>3, <1>4, <1>5, Zenon
<1> QED BY <1>2, <1>3, <1>4, <1>5, <1>6, Zenon

(* tty_getc of the first character. *)
LEMMA LineByGet ==
  ASSUME LineInv, ~torn, rdpc # "dec", chead # ctail, cc > 0,
         chead' = NextIn(chead), UNCHANGED <<cbuf, ctail>>,
         typed' = IF typed = <<>> THEN typed ELSE Tail(typed)
  PROVE  /\ chead' \in Ring /\ typed' \in Seq(Key)
         /\ Len(typed') = Gap(chead', ctail') /\ Len(typed) = Len(typed') + 1
         /\ \A i \in 1..Len(typed') : cbuf'[Slot(chead', i)] = typed'[i]
<1>1. /\ chead \in Ring /\ ctail \in Ring /\ typed \in Seq(Key)
      /\ Len(typed) = Gap(chead, ctail)
      /\ \A i \in 1..Len(typed) : cbuf[Slot(chead, i)] = typed[i]
      /\ cc = Len(typed)
  BY Zenon DEF LineInv
<1>2. typed # <<>>
  BY <1>1
<1>3. /\ typed' \in Seq(Key) /\ Len(typed) = Len(typed') + 1 /\ Len(typed') \in Nat
      /\ \A i \in 1..Len(typed') : i + 1 \in 1..Len(typed) /\ typed'[i] = typed[i + 1]
  BY <1>1, <1>2
<1>4. chead' \in Ring /\ chead' = IF chead + 1 < CbufSize THEN chead + 1 ELSE 0
  BY <1>1, NextSlot, Zenon
<1>5. /\ Gap(chead', ctail) \in Nat
      /\ Gap(chead, ctail) = Gap(chead', ctail) + 1
      /\ \A i \in 1..Gap(chead', ctail) : Slot(chead', i) = Slot(chead, i + 1)
  <2>1. PICK h \in Ring, t \in Ring, u \in Ring : h = chead /\ t = ctail /\ u = chead'
    BY <1>1, <1>4, Zenon
  <2>2. h # t /\ u = IF h + 1 < CbufSize THEN h + 1 ELSE 0
    BY <1>4, <2>1, Zenon
  <2>3. /\ Gap(u, t) \in Nat /\ Gap(h, t) = Gap(u, t) + 1
        /\ \A i \in 1..Gap(u, t) : Slot(u, i) = Slot(h, i + 1)
    BY <2>2, GapMoves
  <2> QED BY <2>1, <2>3, Zenon
<1>6. Len(typed') = Gap(chead', ctail)
  <2>1. PICK g \in Nat, l \in Nat : g = Gap(chead', ctail) /\ l = Len(typed')
    BY <1>3, <1>5, Zenon
  <2>2. g + 1 = l + 1
    BY <1>1, <1>3, <1>5, <2>1, Zenon
  <2>3. g = l
    BY <2>2, SMT
  <2> QED BY <2>1, <2>3, Zenon
<1>7. \A i \in 1..Len(typed') : cbuf'[Slot(chead', i)] = typed'[i]
  <2> SUFFICES ASSUME NEW i \in 1..Len(typed') PROVE cbuf[Slot(chead', i)] = typed'[i]
    BY Zenon
  <2>1. Slot(chead', i) = Slot(chead, i + 1)
    BY <1>5, <1>6, Zenon
  <2> QED BY <1>1, <1>3, <2>1, Zenon
<1>8. ctail' = ctail
  BY Zenon
<1> QED BY <1>3, <1>4, <1>6, <1>7, <1>8, Zenon

LEMMA LineStarts == TtyInit => LineInv
<1> SUFFICES ASSUME TtyInit PROVE LineInv
  OBVIOUS
<1>1. /\ typed = <<>> /\ chead = 0 /\ ctail = 0 /\ cc = 0 /\ ccreg = 0 /\ rdpc = "test"
      /\ asleep = FALSE /\ torn = FALSE /\ cbuf = [i \in Ring |-> "0"]
  BY Zenon DEF TtyInit
<1>2. 0 \in Ring /\ Gap(0, 0) = 0 /\ 0 \in Int
  BY CbufAssumption, SMT DEF Ring, Gap
<1>3. typed \in Seq(Key) /\ Len(typed) = 0 /\ \A i \in 1..Len(typed) : FALSE
  BY <1>1
<1>4. cbuf = [i \in Ring |-> cbuf[i]]
  BY <1>1, Zenon
<1>5. rdpc # "dec" /\ rdpc # "wait" /\ asleep \in BOOLEAN /\ torn \in BOOLEAN /\ ~asleep
  BY <1>1, Zenon
<1> QED BY <1>1, <1>2, <1>3, <1>4, <1>5, Zenon DEF LineInv

(* The interrupt. *)
LEMMA LineByInput ==
  ASSUME LineInv, NEW c \in Key, tty_input(c)
  PROVE  LineInv'
<1>1. /\ torn' = (torn \/ (rdpc = "dec" /\ cc' # cc) \/ (c = "bs" /\ cc > 0 /\ ctail = 0))
      /\ asleep' = (asleep /\ c # "nl")
      /\ missed' = (missed \/ (c = "nl" /\ rdpc = "wait"))
      /\ UNCHANGED <<chead, rdpc, ccreg, char, taken>>
      /\ torn \in BOOLEAN /\ torn' \in BOOLEAN
  BY Zenon DEF tty_input, LineInv
<1>2. CASE torn'
  BY <1>1, <1>2, Zenon DEF LineInv
<1>3. CASE ~torn'
  <2>1. ~torn /\ (rdpc = "dec" => cc' = cc) /\ ~(c = "bs" /\ cc > 0 /\ ctail = 0)
    BY <1>1, <1>3, Zenon
  <2>2. /\ chead \in Ring /\ ctail \in Ring /\ cc \in Int /\ ccreg \in Int
        /\ cbuf = [i \in Ring |-> cbuf[i]]
        /\ typed \in Seq(Key)
        /\ Len(typed) = Gap(chead, ctail)
        /\ \A i \in 1..Len(typed) : cbuf[Slot(chead, i)] = typed[i]
        /\ cc = IF rdpc = "dec" THEN Len(typed) + 1 ELSE Len(typed)
        /\ rdpc = "dec" => ccreg = cc
        /\ asleep \in BOOLEAN /\ (asleep => rdpc = "get")
        /\ (asleep \/ rdpc = "wait") /\ Ended => missed
    BY <2>1, Zenon DEF LineInv
  <2>a. asleep' \in BOOLEAN /\ (asleep' => rdpc' = "get" /\ asleep /\ c # "nl")
    BY <1>1, <2>2, Zenon
  <2>3. CASE UNCHANGED <<cbuf, ctail, cc, typed>>
    <3>1. (asleep' \/ rdpc' = "wait") /\ Ended' => missed'
      BY <2>3, <1>1, <2>2, Zenon DEF Ended
    <3> QED BY <3>1, <2>3, <1>1, <2>1, <2>2, <2>a, Zenon DEF LineInv
  <2>4. CASE tty_putc(c) /\ NextIn(ctail) # chead
    <3>1. /\ ctail' \in Ring /\ typed' \in Seq(Key) /\ cbuf' = [i \in Ring |-> cbuf'[i]]
          /\ Len(typed') = Gap(chead', ctail') /\ Len(typed') = Len(typed) + 1
          /\ \A i \in 1..Len(typed') : cbuf'[Slot(chead', i)] = typed'[i]
          /\ \A i \in 1..Len(typed) : typed'[i] = typed[i]
          /\ typed'[Len(typed) + 1] = c
      BY <2>1, <2>4, <1>1, LineByPut, Zenon
    <3>2. cc' = cc + 1
      BY <2>4, Zenon DEF tty_putc
    <3>3. rdpc # "dec"
      BY <3>2, <2>1, <2>2
    <3>4. cc' \in Int /\ cc' = Len(typed')
      BY <3>1, <3>2, <3>3, <2>2
    <3>5. \A i \in 1..Len(typed') : i \in 1..Len(typed) \/ i = Len(typed) + 1
      BY <3>1, <2>2
    <3>6. (asleep' \/ rdpc' = "wait") /\ Ended' => missed'
      <4> SUFFICES ASSUME asleep' \/ rdpc' = "wait", Ended' PROVE missed'
        BY Zenon
      <4>1. PICK i \in 1..Len(typed') : typed'[i] = "nl"
        BY Zenon DEF Ended
      <4>2. CASE i \in 1..Len(typed)
        BY <4>1, <4>2, <3>1, <2>2, <2>a, <1>1, Zenon DEF Ended
      <4>3. CASE i = Len(typed) + 1
        BY <4>1, <4>3, <3>1, <2>a, <1>1, Zenon
      <4> QED BY <4>2, <4>3, <3>5, Zenon
    <3>7. chead' = chead /\ rdpc' = rdpc /\ ccreg' = ccreg
      BY <1>1, Zenon
    <3> QED BY <1>1, <1>3, <3>1, <3>3, <3>4, <3>6, <3>7, <2>2, <2>a, Zenon DEF LineInv
  <2>5. CASE tty_erc /\ cc > 0 /\ c = "bs"
    <3>0. cc' = cc - 1
      BY <2>5, Zenon DEF tty_erc
    <3>1. rdpc # "dec" /\ ctail # 0
      BY <3>0, <2>1, <2>2, <2>5
    <3>2. /\ ctail' \in Ring /\ typed' \in Seq(Key) /\ cbuf' = [i \in Ring |-> cbuf'[i]]
          /\ Len(typed') = Gap(chead', ctail') /\ Len(typed') = Len(typed) - 1
          /\ \A i \in 1..Len(typed') : cbuf'[Slot(chead', i)] = typed'[i]
          /\ \A i \in 1..Len(typed') : i \in 1..Len(typed) /\ typed'[i] = typed[i]
      BY <2>1, <2>5, <3>1, <1>1, LineByErase, Zenon
    <3>3. cc' \in Int /\ cc' = Len(typed')
      BY <3>0, <3>1, <3>2, <2>2
    <3>4. (asleep' \/ rdpc' = "wait") /\ Ended' => missed'
      BY <3>2, <2>2, <2>a, <1>1, Zenon DEF Ended
    <3>5. chead' = chead /\ rdpc' = rdpc /\ ccreg' = ccreg
      BY <1>1
    <3> QED BY <1>1, <1>3, <3>1, <3>2, <3>3, <3>4, <3>5, <2>2, <2>a, Zenon DEF LineInv
  <2>6. \/ UNCHANGED <<cbuf, ctail, cc, typed>>
        \/ tty_putc(c) /\ NextIn(ctail) # chead
        \/ tty_erc /\ cc > 0 /\ c = "bs"
    BY Zenon DEF tty_input, tty_putc, tty_erc
  <2> QED BY <2>3, <2>4, <2>5, <2>6, Zenon
<1> QED BY <1>2, <1>3, Zenon

(* The reader. *)
LEMMA LineByRead ==
  ASSUME LineInv, ReadTest \/ io_wait \/ tty_getc \/ ReadChar \/ UNCHANGED ttyVars
  PROVE  LineInv'
<1>1. torn' = torn /\ torn \in BOOLEAN
  BY Zenon DEF LineInv, ReadTest, io_wait, tty_getc, ReadChar, ttyVars
<1>2. CASE torn
  BY <1>1, <1>2, Zenon DEF LineInv
<1>3. CASE ~torn
  <2>2. /\ chead \in Ring /\ ctail \in Ring /\ cc \in Int /\ ccreg \in Int
        /\ cbuf = [i \in Ring |-> cbuf[i]]
        /\ typed \in Seq(Key)
        /\ Len(typed) = Gap(chead, ctail)
        /\ \A i \in 1..Len(typed) : cbuf[Slot(chead, i)] = typed[i]
        /\ cc = IF rdpc = "dec" THEN Len(typed) + 1 ELSE Len(typed)
        /\ rdpc = "dec" => ccreg = cc
        /\ asleep \in BOOLEAN /\ (asleep => rdpc = "get")
        /\ (asleep \/ rdpc = "wait") /\ Ended => missed
    BY <1>3, Zenon DEF LineInv
  <2>3. CASE ReadTest
    <3>1. /\ cbuf' = cbuf /\ ctail' = ctail /\ chead' = chead /\ cc' = cc /\ ccreg' = ccreg
          /\ asleep' = asleep /\ typed' = typed /\ missed' = missed
          /\ rdpc = "test" /\ rdpc' = (IF cc <= 0 THEN "wait" ELSE "get") /\ ~asleep
      BY <2>3, Zenon DEF ReadTest, Reads
    <3>2. rdpc' = "wait" => ~Ended
      BY <3>1, <2>2 DEF Ended
    <3>3. Ended' <=> Ended
      BY <3>1, Zenon DEF Ended
    <3>4. rdpc' # "dec" /\ rdpc # "dec"
      BY <3>1, Zenon
    <3> QED BY <1>1, <2>2, <3>1, <3>2, <3>3, <3>4, Zenon DEF LineInv
  <2>4. CASE io_wait
    <3>1. /\ cbuf' = cbuf /\ ctail' = ctail /\ chead' = chead /\ cc' = cc /\ ccreg' = ccreg
          /\ typed' = typed /\ missed' = missed
          /\ rdpc = "wait" /\ rdpc' = "get" /\ asleep' = TRUE
      BY <2>4, Zenon DEF io_wait, Reads
    <3>2. Ended' <=> Ended
      BY <3>1, Zenon DEF Ended
    <3>3. rdpc' # "dec" /\ rdpc # "dec" /\ asleep' \in BOOLEAN
      BY <3>1, Zenon
    <3> QED BY <1>1, <1>3, <2>2, <3>1, <3>2, <3>3, Zenon DEF LineInv
  <2>5. CASE tty_getc
    <3>1. CASE /\ chead # ctail /\ cc > 0
               /\ Reads("get", "dec")
               /\ char' = cbuf[chead] /\ chead' = NextIn(chead) /\ ccreg' = cc
               /\ typed' = (IF typed = <<>> THEN typed ELSE Tail(typed))
               /\ UNCHANGED <<cc, taken, asleep, torn, missed>>
      <4>1. /\ UNCHANGED <<cbuf, ctail, cc, asleep, missed>>
            /\ rdpc = "get" /\ rdpc' = "dec" /\ ~asleep /\ ccreg' = cc
        BY <3>1, Zenon DEF Reads
      <4>2. /\ chead' \in Ring /\ typed' \in Seq(Key)
            /\ Len(typed') = Gap(chead', ctail') /\ Len(typed) = Len(typed') + 1
            /\ \A i \in 1..Len(typed') : cbuf'[Slot(chead', i)] = typed'[i]
        BY <3>1, <4>1, <1>3, LineByGet, Zenon
      <4> QED BY <1>1, <1>3, <2>2, <4>1, <4>2, Zenon DEF LineInv
    <3>2. CASE /\ Reads("get", "test") /\ missed' = FALSE
               /\ UNCHANGED <<chead, cc, ccreg, char, taken, asleep, typed, torn>>
      <4>1. /\ UNCHANGED <<cbuf, ctail, chead, cc, ccreg, asleep, typed>>
            /\ rdpc = "get" /\ rdpc' = "test" /\ ~asleep
        BY <3>2, Zenon DEF Reads
      <4> QED BY <1>1, <1>3, <2>2, <4>1, Zenon DEF LineInv
    <3> QED BY <2>5, <3>1, <3>2, Zenon DEF tty_getc
  <2>6. CASE ReadChar
    <3>1. /\ UNCHANGED <<cbuf, ctail, chead, ccreg, asleep, typed>>
          /\ rdpc = "dec" /\ rdpc' \in {"test", "get"} /\ ~asleep /\ cc' = ccreg - 1
      BY <2>6, Zenon DEF ReadChar, Reads
    <3>2. cc' \in Int /\ cc' = Len(typed)
      BY <3>1, <2>2
    <3> QED BY <1>1, <1>3, <2>2, <3>1, <3>2, Zenon DEF LineInv
  <2>7. CASE UNCHANGED ttyVars
    BY <1>1, <1>3, <2>2, <2>7, Zenon DEF LineInv, ttyVars, Ended
  <2> QED BY <2>3, <2>4, <2>5, <2>6, <2>7, Zenon
<1> QED BY <1>2, <1>3, Zenon

(* Between c_chead and c_ctail lies what was typed and neither erased nor  *)
(* taken, in order and counted by c_cc, and a reader asleep on a finished  *)
(* line had it come between its test and io_wait: for every size of the    *)
(* ring and of a read, and any number of keys (tty_putc, tty_erc,          *)
(* tty_getc, tty_read).                                                    *)
THEOREM LineAlwaysKept == TtySpec => []LineKept
<1>1. LineInv /\ [TtyNext]_ttyVars => LineInv'
  BY LineByInput, LineByRead, Zenon DEF TtyNext
<1>2. LineInv => LineKept
  <2> SUFFICES ASSUME LineInv, ~torn PROVE LineKept
    BY Zenon DEF LineKept
  <2>1. PICK n \in Nat \ {0} : n = CbufSize
    BY CbufAssumption, Zenon
  <2>2. /\ chead \in Ring /\ ctail \in Ring
        /\ Len(typed) = Gap(chead, ctail)
        /\ \A i \in 1..Len(typed) : cbuf[Slot(chead, i)] = typed[i]
        /\ cc = IF rdpc = "dec" THEN Len(typed) + 1 ELSE Len(typed)
        /\ (asleep \/ rdpc = "wait") /\ Ended => missed
    BY Zenon DEF LineInv
  <2>3. (ctail + CbufSize - chead) % CbufSize = Len(typed)
    <3>1. ctail + CbufSize - chead \in Nat /\ ctail + CbufSize - chead < 2 * n
      BY <2>1, <2>2, SMT DEF Ring
    <3>2. PICK a \in Nat : a = ctail + CbufSize - chead
      BY <3>1, Zenon
    <3>3. a % n = IF a < n THEN a ELSE a - n
      BY <3>1, <3>2, ModTwice, Zenon
    <3>4. (IF a < n THEN a ELSE a - n) = Gap(chead, ctail)
      <4>1. chead \in Ring /\ ctail \in Ring
        BY <2>2, Zenon
      <4> QED BY <2>1, <4>1, <3>2, SMT DEF Ring, Gap
    <3> QED BY <2>1, <2>2, <3>2, <3>3, <3>4, Zenon
  <2>4. ASSUME NEW i \in 1..Len(typed)
        PROVE  cbuf[(chead + i - 1) % CbufSize] = typed[i]
    <3>0. i \in 1..Gap(chead, ctail) /\ chead \in Ring /\ ctail \in Ring
      BY <2>2, <2>4, Zenon
    <3>1. chead + i - 1 \in Nat /\ chead + i - 1 < 2 * n
      BY <2>1, <3>0, SMT DEF Ring, Gap
    <3>2. PICK a \in Nat : a = chead + i - 1
      BY <3>1, Zenon
    <3>3. a % n = IF a < n THEN a ELSE a - n
      BY <3>1, <3>2, ModTwice, Zenon
    <3>4. (IF a < n THEN a ELSE a - n) = Slot(chead, i)
      BY <2>1, <3>0, <3>2, SMT DEF Ring, Slot, Gap
    <3> QED BY <2>1, <2>2, <2>4, <3>2, <3>3, <3>4, Zenon
  <2> QED BY <2>2, <2>3, <2>4, Zenon DEF LineKept, Ended
<1> QED BY <1>1, <1>2, LineStarts, PTL DEF TtySpec
-----------------------------------------------------------------------------
(***************************************************************************)
(* The screen: ScreenHolds for every number of rows and columns, tab width *)
(* and parameter of a sequence (Console.tla).                              *)
(***************************************************************************)
ScreenT == [cells : [Cell -> BOOLEAN], row : Nat, col : Nat]
OnScreen(s) == s.row < rows /\ s.col < cols
Blank(s) == \A i \in Cell : i >= At(s) => ~s.cells[i]

(* Screens with the cursor on them, blank behind it when b. *)
Tidy(b) == {s \in ScreenT : OnScreen(s) /\ (b => Blank(s))}

LEMMA RowsApart ==
  ASSUME NEW r \in Nat, NEW q \in Nat, r < q
  PROVE  r * cols + cols <= q * cols
<1>1. PICK d \in Nat : q = (r + 1) + d
  <2>1. q - (r + 1) \in Nat
    BY SMT
  <2>2. PICK d \in Nat : d = q - (r + 1)
    BY <2>1, Zenon
  <2>3. q = (r + 1) + d
    BY <2>2, SMT
  <2> QED BY <2>3, Zenon
<1>2. q * cols = r * cols + cols + d * cols /\ d * cols \in Nat
  BY <1>1, ScreenAssumption, SMT
<1>3. r * cols \in Nat /\ cols \in Nat
  BY ScreenAssumption, SMT
<1>4. PICK a \in Nat, b \in Nat, c \in Nat : a = r * cols /\ b = d * cols /\ c = cols
  BY <1>2, <1>3, Zenon
<1>5. q * cols = a + c + b
  BY <1>2, <1>4, Zenon
<1>6. a + c <= a + c + b
  BY <1>4, SMT
<1> QED BY <1>4, <1>5, <1>6, Zenon

LEMMA CellTyped ==
  ASSUME NEW s \in ScreenT
  PROVE  /\ At(s) \in Nat /\ s.row * cols \in Nat
         /\ OnScreen(s) => At(s) \in Cell
         /\ Cell \subseteq Nat
         /\ s.row \in Nat /\ s.col \in Nat /\ s.cells \in [Cell -> BOOLEAN]
<1>1. s.row \in Nat /\ s.col \in Nat /\ s.cells \in [Cell -> BOOLEAN]
  BY Zenon DEF ScreenT
<1>2. s.row * cols \in Nat /\ rows * cols \in Nat
  BY <1>1, ScreenAssumption, SMT
<1>3. OnScreen(s) => s.row * cols + cols <= rows * cols
  BY <1>1, RowsApart, ScreenAssumption, Zenon DEF OnScreen
<1>4. PICK a \in Nat, b \in Nat : a = s.row * cols /\ b = rows * cols
  BY <1>2, Zenon
<1>5. Cell = 0 .. b - 1 /\ At(s) = a + s.col
  BY <1>4, Zenon DEF Cell, At
<1>6. OnScreen(s) => a + cols <= b /\ s.col < cols
  BY <1>3, <1>4, Zenon DEF OnScreen
<1>7. PICK c \in Nat : c = s.col
  BY <1>1, Zenon
<1>8. a + c \in Nat /\ (c < cols /\ a + cols <= b => a + c \in 0 .. b - 1)
  BY ScreenAssumption, SMT
<1>9. 0 .. b - 1 \subseteq Nat
  BY SMT
<1> QED BY <1>1, <1>2, <1>5, <1>6, <1>7, <1>8, <1>9, Zenon

(* new_line keeps what is behind the cursor blank, and needs that only of  *)
(* the lines below the cursor's.                                           *)
LEMMA NewLineTidy ==
  ASSUME NEW s \in ScreenT, OnScreen(s), NEW b \in BOOLEAN,
         b => \A i \in Cell : i >= s.row * cols + cols + s.col => ~s.cells[i]
  PROVE  new_line(s) \in Tidy(b)
<1>1. s.row \in Nat /\ s.col \in Nat /\ s.cells \in [Cell -> BOOLEAN] /\ Cell \subseteq Nat
  BY CellTyped, Zenon
<1>2. CASE s.row + 1 = rows
  <2> DEFINE new == [i \in Cell |-> IF i < (rows - 1) * cols THEN s.cells[i + cols] ELSE FALSE]
  <2>1. new_line(s) = [s EXCEPT !.cells = new]
    BY <1>2, Zenon DEF new_line, scroll_up
  <2>2. \A i \in Cell : i < (rows - 1) * cols => i + cols \in Cell
    <3>1. (rows - 1) * cols + cols = rows * cols /\ rows * cols \in Nat /\ (rows - 1) * cols \in Nat
      BY ScreenAssumption, SMT
    <3>2. PICK a \in Nat, c \in Nat : a = (rows - 1) * cols /\ c = rows * cols
      BY <3>1, Zenon
    <3>3. a + cols = c /\ Cell = 0 .. c - 1
      BY <3>1, <3>2, Zenon DEF Cell
    <3>4. \A i \in Cell : i < a => i + cols \in Cell
      BY <3>3, ScreenAssumption, SMT
    <3> QED BY <3>2, <3>4, Zenon
  <2>3. new \in [Cell -> BOOLEAN]
    BY <2>2, <1>1, Zenon
  <2>4. \A i \in Cell : ~(i < (rows - 1) * cols) => ~new[i]
    BY Zenon
  <2> HIDE DEF new
  <2>5. PICK t : t = [s EXCEPT !.cells = new]
    BY Zenon
  <2>6. t \in ScreenT /\ t.row = s.row /\ t.col = s.col /\ t.cells = new
    BY <2>3, <2>5, <1>1, Zenon DEF ScreenT
  <2>7. s.row = rows - 1
    BY <1>1, <1>2, ScreenAssumption
  <2>8. At(t) = (rows - 1) * cols + s.col
    BY <2>6, <2>7, Zenon DEF At
  <2>9. PICK a \in Nat : a = (rows - 1) * cols
    <3>1. (rows - 1) * cols \in Nat
      BY ScreenAssumption, SMT
    <3> QED BY <3>1, Zenon
  <2>10. \A i \in Cell : i >= a + s.col => ~(i < a)
    BY <1>1
  <2>11. Blank(t)
    BY <2>4, <2>6, <2>8, <2>9, <2>10, Zenon DEF Blank
  <2>12. OnScreen(t)
    BY <2>6, Zenon DEF OnScreen
  <2> QED BY <2>1, <2>5, <2>6, <2>11, <2>12, Zenon DEF Tidy
<1>3. CASE s.row + 1 # rows
  <2>1. new_line(s) = [s EXCEPT !.row = @ + 1]
    BY <1>3, Zenon DEF new_line
  <2>2. PICK t : t = [s EXCEPT !.row = @ + 1]
    BY Zenon
  <2>3. t \in ScreenT /\ t.row = s.row + 1 /\ t.col = s.col /\ t.cells = s.cells
    BY <2>2, <1>1 DEF ScreenT
  <2>4. OnScreen(t)
    BY <2>3, <1>1, <1>3, ScreenAssumption DEF OnScreen
  <2>5. (s.row + 1) * cols = s.row * cols + cols
    BY <1>1, ScreenAssumption, SMT
  <2>6. At(t) = s.row * cols + cols + s.col
    BY <2>3, <2>5, Zenon DEF At
  <2>7. b => Blank(t)
    BY <2>3, <2>6, Zenon DEF Blank
  <2> QED BY <2>1, <2>2, <2>3, <2>4, <2>7, Zenon DEF Tidy
<1> QED BY <1>2, <1>3, Zenon

LEMMA NewLineTyped ==
  ASSUME NEW s \in ScreenT, OnScreen(s)
  PROVE  new_line(s) \in ScreenT /\ OnScreen(new_line(s))
<1>1. new_line(s) \in Tidy(FALSE)
  BY NewLineTidy, Zenon
<1> QED BY <1>1, Zenon DEF Tidy

(* __put_char writes under the cursor and moves it on. *)
LEMMA PutTidy ==
  ASSUME NEW b \in BOOLEAN, NEW s \in Tidy(b), NEW v \in BOOLEAN
  PROVE  __put_char(s, v) \in Tidy(b)
<1>1. s \in ScreenT /\ OnScreen(s) /\ (b => Blank(s))
  BY Zenon DEF Tidy
<1>2. /\ At(s) \in Cell /\ At(s) \in Nat /\ s.row * cols \in Nat /\ Cell \subseteq Nat
      /\ s.row \in Nat /\ s.col \in Nat /\ s.cells \in [Cell -> BOOLEAN]
  BY <1>1, CellTyped, Zenon
<1>3. PICK w : w = [s EXCEPT !.cells[At(s)] = v]
  BY Zenon
<1>4. Write(s, At(s), v) = w
  BY <1>2, <1>3, Zenon DEF Write
<1>5. /\ w \in ScreenT /\ w.row = s.row /\ w.col = s.col /\ w.cells \in [Cell -> BOOLEAN]
      /\ w.cells[At(s)] = v
      /\ \A i \in Cell : i # At(s) => w.cells[i] = s.cells[i]
  BY <1>1, <1>2, <1>3, Zenon DEF ScreenT
<1>6. PICK r \in Nat : r = s.row * cols
  BY <1>2, Zenon
<1>7. At(s) = r + s.col
  BY <1>6, Zenon DEF At
<1>8. CASE s.col < cols - 1
  <2>1. PICK t : t = [w EXCEPT !.col = @ + 1]
    BY Zenon
  <2>2. __put_char(s, v) = t
    BY <1>4, <1>8, <2>1, Zenon DEF __put_char
  <2>3. t \in ScreenT /\ t.row = s.row /\ t.col = s.col + 1 /\ t.cells = w.cells
    BY <2>1, <1>5, <1>2 DEF ScreenT
  <2>4. OnScreen(t)
    BY <2>3, <1>1, <1>2, <1>8, ScreenAssumption DEF OnScreen
  <2>5. At(t) = r + (s.col + 1)
    BY <2>3, <1>6, Zenon DEF At
  <2>6. \A i \in Cell : i >= r + (s.col + 1) => i >= r + s.col /\ i # r + s.col
    <3>1. PICK c \in Nat : c = s.col
      BY <1>2, Zenon
    <3>2. \A i \in Nat : i >= r + (c + 1) => i >= r + c /\ i # r + c
      BY SMT
    <3> QED BY <3>1, <3>2, <1>2, Zenon
  <2>7. b => Blank(t)
    BY <2>3, <2>5, <2>6, <1>1, <1>5, <1>7, Zenon DEF Blank
  <2> QED BY <2>2, <2>3, <2>4, <2>7, Zenon DEF Tidy
<1>9. CASE ~(s.col < cols - 1)
  <2>1. PICK t : t = [w EXCEPT !.col = 0]
    BY Zenon
  <2>2. __put_char(s, v) = new_line(t)
    BY <1>4, <1>9, <2>1, Zenon DEF __put_char
  <2>3. t \in ScreenT /\ t.row = s.row /\ t.col = 0 /\ t.cells = w.cells
    BY <2>1, <1>5, <1>2, Zenon DEF ScreenT
  <2>4. OnScreen(t)
    BY <2>3, <1>1, ScreenAssumption DEF OnScreen
  <2>5. \A i \in Cell : i >= r + cols + 0 => i >= r + s.col /\ i # r + s.col
    BY <1>1, <1>2, ScreenAssumption DEF OnScreen
  <2>6. b => \A i \in Cell : i >= t.row * cols + cols + t.col => ~t.cells[i]
    BY <2>3, <2>5, <1>1, <1>5, <1>6, <1>7, Zenon DEF Blank
  <2> QED BY <2>2, <2>3, <2>4, <2>6, NewLineTidy, Zenon
<1> QED BY <1>8, <1>9, Zenon

LEMMA TabTidy ==
  ASSUME NEW b \in BOOLEAN, NEW s \in Tidy(b)
  PROVE  tab(s) \in Tidy(b)
<1> DEFINE at[n \in 0..TabStop] == IF n = 0 THEN s ELSE __put_char(at[n - 1], FALSE)
           G == [p \in Nat \X Tidy(b) |-> __put_char(p[2], FALSE)]
<1>1. \A q \in Tidy(b) : __put_char(q, FALSE) \in Tidy(b)
  BY PutTidy, Zenon
<1>2. G \in [Nat \X Tidy(b) -> Tidy(b)]
  BY <1>1, Zenon
<1>3. \A k \in Nat, q \in Tidy(b) : G[<<k, q>>] = __put_char(q, FALSE)
  BY Zenon
<1>4. PICK f \in [0..TabStop -> Tidy(b)] : Follows(f, TabStop, s, G)
  <2> HIDE DEF G, at
  <2>1. TabStop \in Nat
    BY ScreenAssumption, Zenon
  <2> QED BY <1>2, <2>1, Iterates, Zenon
<1>5. f = [k \in 0..TabStop |-> IF k = 0 THEN s ELSE __put_char(f[k - 1], FALSE)]
  <2> HIDE DEF G, at
  <2>1. \A k \in 0..TabStop : k # 0 => k - 1 \in 0..TabStop /\ k \in Nat /\ k \in 1..TabStop
    BY ScreenAssumption
  <2>2. \A k \in 0..TabStop : k # 0 => G[<<k, f[k - 1]>>] = __put_char(f[k - 1], FALSE)
    BY <2>1, <1>3, Zenon
  <2>3. \A k \in 0..TabStop : f[k] = IF k = 0 THEN s ELSE __put_char(f[k - 1], FALSE)
    BY <1>4, <2>1, <2>2, Zenon DEF Follows
  <2>4. DOMAIN f = 0..TabStop
    BY Zenon
  <2> QED BY <2>3, <2>4, Zenon
<1>6. at = [k \in 0..TabStop |-> IF k = 0 THEN s ELSE __put_char(at[k - 1], FALSE)]
  <2> HIDE DEF G
  <2> QED BY <1>5, Zenon
<1>7. tab(s) = at[TabStop - (s.col % TabStop)]
  BY Zenon DEF tab
<1> HIDE DEF at, G
<1> DEFINE S == {k \in Nat : at[k] \in Tidy(b)}
<1>8. 0 \in S
  <2>1. 0 \in 0..TabStop
    BY ScreenAssumption
  <2>2. at[0] = s
    BY <1>6, <2>1, Zenon
  <2> QED BY <2>2, Zenon
<1>9. ASSUME NEW k \in Nat, k \in S, k < TabStop PROVE k + 1 \in S
  <2>1. k + 1 \in 0..TabStop /\ k + 1 # 0 /\ (k + 1) - 1 = k /\ k + 1 \in Nat
    BY <1>9, ScreenAssumption
  <2>2. at[k + 1] = __put_char(at[k], FALSE)
    BY <1>6, <2>1, Zenon
  <2> QED BY <2>1, <2>2, <1>1, <1>9, Zenon
<1>10. \A k \in 0..TabStop : k \in S
  <2> HIDE DEF S
  <2>1. TabStop \in Nat
    BY ScreenAssumption, Zenon
  <2> QED BY <2>1, <1>8, <1>9, InductTo, Zenon
<1>11. TabStop - (s.col % TabStop) \in 0..TabStop
  <2>1. s.col \in Nat
    BY Zenon DEF Tidy, ScreenT
  <2>2. s.col % TabStop \in 0 .. TabStop - 1
    BY <2>1, ScreenAssumption, DivMod, Zenon
  <2> QED BY <2>2, ScreenAssumption
<1> QED BY <1>7, <1>10, <1>11, Zenon

LEMMA LinesTyped ==
  ASSUME NEW s \in Tidy(FALSE), NEW x \in 0..MaxParam
  PROVE  lines(s, x) \in Tidy(FALSE)
<1> DEFINE at[n \in 0..MaxParam] == IF n = 0 THEN s ELSE new_line(at[n - 1])
           G == [p \in Nat \X Tidy(FALSE) |-> new_line(p[2])]
<1>1. \A q \in Tidy(FALSE) : new_line(q) \in Tidy(FALSE)
  BY NewLineTyped, Zenon DEF Tidy
<1>2. G \in [Nat \X Tidy(FALSE) -> Tidy(FALSE)]
  BY <1>1, Zenon
<1>3. \A k \in Nat, q \in Tidy(FALSE) : G[<<k, q>>] = new_line(q)
  BY Zenon
<1>4. PICK f \in [0..MaxParam -> Tidy(FALSE)] : Follows(f, MaxParam, s, G)
  <2> HIDE DEF G, at
  <2>1. MaxParam \in Nat
    BY ScreenAssumption, Zenon
  <2> QED BY <1>2, <2>1, Iterates, Zenon
<1>5. f = [k \in 0..MaxParam |-> IF k = 0 THEN s ELSE new_line(f[k - 1])]
  <2> HIDE DEF G, at
  <2>1. \A k \in 0..MaxParam : k # 0 => k - 1 \in 0..MaxParam /\ k \in Nat /\ k \in 1..MaxParam
    BY ScreenAssumption
  <2>2. \A k \in 0..MaxParam : k # 0 => G[<<k, f[k - 1]>>] = new_line(f[k - 1])
    BY <2>1, <1>3, Zenon
  <2>3. \A k \in 0..MaxParam : f[k] = IF k = 0 THEN s ELSE new_line(f[k - 1])
    BY <1>4, <2>1, <2>2, Zenon DEF Follows
  <2>4. DOMAIN f = 0..MaxParam
    BY Zenon
  <2> QED BY <2>3, <2>4, Zenon
<1>6. at = [k \in 0..MaxParam |-> IF k = 0 THEN s ELSE new_line(at[k - 1])]
  <2> HIDE DEF G
  <2> QED BY <1>5, Zenon
<1>7. lines(s, x) = at[x]
  BY Zenon DEF lines
<1> HIDE DEF at, G
<1> DEFINE S == {k \in Nat : at[k] \in Tidy(FALSE)}
<1>8. 0 \in S
  <2>1. 0 \in 0..MaxParam
    BY ScreenAssumption
  <2>2. at[0] = s
    BY <1>6, <2>1, Zenon
  <2> QED BY <2>2, Zenon
<1>9. ASSUME NEW k \in Nat, k \in S, k < MaxParam PROVE k + 1 \in S
  <2>1. k + 1 \in 0..MaxParam /\ k + 1 # 0 /\ (k + 1) - 1 = k /\ k + 1 \in Nat
    BY <1>9, ScreenAssumption
  <2>2. at[k + 1] = new_line(at[k])
    BY <1>6, <2>1, Zenon
  <2> QED BY <2>1, <2>2, <1>1, <1>9, Zenon
<1>10. \A k \in 0..MaxParam : k \in S
  <2> HIDE DEF S
  <2>1. MaxParam \in Nat
    BY ScreenAssumption, Zenon
  <2> QED BY <2>1, <1>8, <1>9, InductTo, Zenon
<1> QED BY <1>7, <1>10, Zenon

(* put_char: only a carriage return can leave something behind the cursor. *)
LEMMA CharTidy ==
  ASSUME NEW b \in BOOLEAN, NEW s \in Tidy(b), NEW c \in Plain, c = "cr" => ~b
  PROVE  put_char(s, c) \in Tidy(b)
<1>1. s \in ScreenT /\ OnScreen(s) /\ (b => Blank(s))
  BY Zenon DEF Tidy
<1>2. /\ At(s) \in Cell /\ At(s) \in Nat /\ s.row * cols \in Nat /\ Cell \subseteq Nat
      /\ s.row \in Nat /\ s.col \in Nat /\ s.cells \in [Cell -> BOOLEAN]
  BY <1>1, CellTyped, Zenon
<1>3. PICK r \in Nat : r = s.row * cols
  BY <1>2, Zenon
<1>4. At(s) = r + s.col
  BY <1>3, Zenon DEF At
<1>5. CASE c = "x"
  <2>1. put_char(s, c) = __put_char(s, TRUE)
    BY <1>5, Zenon DEF put_char
  <2> QED BY <2>1, PutTidy, Zenon
<1>6. CASE c = "nl"
  <2> DEFINE old == [i \in Cell |-> IF i \in At(s) .. (s.row + 1) * cols - 1 THEN FALSE ELSE s.cells[i]]
  <2>1. PICK w : w = [s EXCEPT !.cells = old]
    BY Zenon
  <2>2. PICK t : t = [w EXCEPT !.col = 0]
    BY Zenon
  <2>3. put_char(s, c) = new_line(t)
    <3>1. fill_to_line_end(s) = w
      BY <2>1, Zenon DEF fill_to_line_end
    <3>2. put_char(s, c) = new_line([fill_to_line_end(s) EXCEPT !.col = 0])
      BY <1>6, Zenon DEF put_char
    <3> QED BY <3>1, <3>2, <2>2, Zenon
  <2>4. old \in [Cell -> BOOLEAN] /\ \A i \in Cell : ~s.cells[i] => ~old[i]
    BY <1>2, Zenon
  <2> HIDE DEF old
  <2>5. t \in ScreenT /\ t.row = s.row /\ t.col = 0 /\ t.cells = old
    BY <2>1, <2>2, <2>4, <1>1, <1>2, Zenon DEF ScreenT
  <2>6. OnScreen(t)
    BY <2>5, <1>1, ScreenAssumption DEF OnScreen
  <2>7. \A i \in Cell : i >= r + cols + 0 => i >= r + s.col
    BY <1>1, <1>2, ScreenAssumption DEF OnScreen
  <2>8. b => \A i \in Cell : i >= t.row * cols + cols + t.col => ~t.cells[i]
    BY <2>4, <2>5, <2>7, <1>1, <1>3, <1>4, Zenon DEF Blank
  <2> QED BY <2>3, <2>5, <2>6, <2>8, NewLineTidy, Zenon
<1>7. CASE c = "cr"
  <2>1. PICK t : t = [s EXCEPT !.col = 0]
    BY Zenon
  <2>2. put_char(s, c) = t
    BY <1>7, <2>1, Zenon DEF put_char
  <2>3. t \in ScreenT /\ t.row = s.row /\ t.col = 0
    BY <2>1, <1>1, <1>2, Zenon DEF ScreenT
  <2>4. OnScreen(t)
    BY <2>3, <1>1, ScreenAssumption DEF OnScreen
  <2> QED BY <1>7, <2>2, <2>3, <2>4, Zenon DEF Tidy
<1>8. CASE c = "tab"
  <2>1. put_char(s, c) = tab(s)
    BY <1>8, Zenon DEF put_char
  <2> QED BY <2>1, TabTidy, Zenon
<1>9. CASE c = "bs"
  <2>1. CASE s.col = 0
    <3>1. put_char(s, c) = s
      BY <1>9, <2>1, Zenon DEF put_char
    <3> QED BY <3>1, Zenon
  <2>2. CASE s.col # 0
    <3>1. PICK u : u = [s EXCEPT !.col = @ - 1]
      BY Zenon
    <3>2. u \in ScreenT /\ u.row = s.row /\ u.col = s.col - 1 /\ u.cells = s.cells
      BY <3>1, <1>1, <1>2, <2>2 DEF ScreenT
    <3>3. OnScreen(u)
      BY <3>2, <1>1, <1>2, ScreenAssumption DEF OnScreen
    <3>4. At(u) \in Cell /\ At(u) = r + (s.col - 1)
      BY <3>2, <3>3, <1>3, CellTyped, Zenon DEF At
    <3>5. PICK w : w = [u EXCEPT !.cells[At(u)] = FALSE]
      BY Zenon
    <3>6. /\ w \in ScreenT /\ w.row = s.row /\ w.col = s.col - 1
          /\ w.cells \in [Cell -> BOOLEAN] /\ ~w.cells[At(u)]
          /\ \A i \in Cell : i # At(u) => w.cells[i] = s.cells[i]
      BY <3>2, <3>4, <3>5, <1>2, Zenon DEF ScreenT
    <3>7. PICK v : v = [w EXCEPT !.col = @ + 1]
      BY Zenon
    <3>8. __put_char(u, FALSE) = v
      <4>1. u.col < cols - 1
        BY <3>2, <1>1, <1>2, ScreenAssumption DEF OnScreen
      <4>2. Write(u, At(u), FALSE) = w
        BY <3>4, <3>5, Zenon DEF Write
      <4> QED BY <4>1, <4>2, <3>7, Zenon DEF __put_char
    <3>9. PICK t : t = [v EXCEPT !.col = @ - 1]
      BY Zenon
    <3>10. put_char(s, c) = t
      <4>1. put_char(s, c) = [__put_char([s EXCEPT !.col = @ - 1], FALSE) EXCEPT !.col = @ - 1]
        BY <1>9, <2>2, Zenon DEF put_char
      <4> QED BY <4>1, <3>1, <3>8, <3>9, Zenon
    <3>11. t \in ScreenT /\ t.row = s.row /\ t.col = s.col - 1 /\ t.cells = w.cells
      <4>1. s.col - 1 \in Nat /\ (s.col - 1) + 1 = s.col
        BY <1>2, <2>2
      <4>2. v \in ScreenT /\ v.row = s.row /\ v.col = s.col /\ v.cells = w.cells
        BY <3>6, <3>7, <4>1, <1>2, Zenon DEF ScreenT
      <4> QED BY <4>1, <4>2, <3>9, Zenon DEF ScreenT
    <3>12. OnScreen(t)
      BY <3>11, <3>2, <3>3, Zenon DEF OnScreen
    <3>13. At(t) = At(u)
      BY <3>11, <3>2, Zenon DEF At
    <3>14. \A i \in Cell : i >= r + (s.col - 1) /\ i # r + (s.col - 1) => i >= r + s.col
      <4>1. PICK c1 \in Nat : c1 = s.col
        BY <1>2, Zenon
      <4>2. \A i \in Nat : i >= r + (c1 - 1) /\ i # r + (c1 - 1) => i >= r + c1
        BY SMT
      <4> QED BY <4>1, <4>2, <1>2, Zenon
    <3>15. b => Blank(t)
      BY <3>4, <3>6, <3>11, <3>13, <3>14, <1>1, <1>4, Zenon DEF Blank
    <3> QED BY <3>10, <3>11, <3>12, <3>15, Zenon DEF Tidy
  <2> QED BY <2>1, <2>2, Zenon
<1>10. CASE c = "ff"
  <2>1. PICK t : t = [cells |-> [i \in Cell |-> FALSE], row |-> 0, col |-> 0]
    BY Zenon
  <2>2. put_char(s, c) = t
    BY <1>10, <2>1, Zenon DEF put_char, cls
  <2>3. t \in ScreenT /\ t.row = 0 /\ t.col = 0 /\ \A i \in Cell : ~t.cells[i]
    BY <2>1, Zenon DEF ScreenT
  <2>4. OnScreen(t) /\ Blank(t)
    BY <2>3, ScreenAssumption DEF OnScreen, Blank
  <2> QED BY <2>2, <2>3, <2>4, Zenon DEF Tidy
<1>11. CASE c \in {"NUL", "ESC"}
  <2>1. put_char(s, c) = s
    BY <1>11, Zenon DEF put_char
  <2> QED BY <2>1, Zenon
<1> QED BY <1>5, <1>6, <1>7, <1>8, <1>9, <1>10, <1>11, Zenon DEF Plain

(* A sequence may take the cursor off the screen, to places still naturals *)
(* (Far among them).                                                       *)
LEMMA FieldsTyped ==
  ASSUME NEW s \in ScreenT, NEW r \in Nat, NEW c \in Nat
  PROVE  /\ [s EXCEPT !.row = r] \in ScreenT /\ [s EXCEPT !.col = c] \in ScreenT
         /\ s.row \in Nat /\ s.col \in Nat
  BY Zenon DEF ScreenT

LEMMA ClearsTyped ==
  ASSUME NEW s \in ScreenT
  PROVE  cls(s) \in ScreenT /\ fill_to_line_end(s) \in ScreenT /\ scroll_up(s) \in ScreenT
<1>1. cls(s) \in ScreenT
  BY Zenon DEF cls, ScreenT
<1>2. fill_to_line_end(s) \in ScreenT
  <2> DEFINE new == [i \in Cell |-> IF i \in At(s) .. (s.row + 1) * cols - 1 THEN FALSE ELSE s.cells[i]]
  <2>1. new \in [Cell -> BOOLEAN]
    BY Zenon DEF ScreenT
  <2> HIDE DEF new
  <2>2. [s EXCEPT !.cells = new] \in ScreenT
    BY <2>1, Zenon DEF ScreenT
  <2> QED BY <2>2, Zenon DEF fill_to_line_end, new
<1>3. scroll_up(s) \in ScreenT
  <2> DEFINE new == [i \in Cell |-> IF i < (rows - 1) * cols THEN s.cells[i + cols] ELSE FALSE]
  <2>1. \A i \in Cell : i < (rows - 1) * cols => i + cols \in Cell
    <3>1. (rows - 1) * cols + cols = rows * cols /\ rows * cols \in Nat /\ (rows - 1) * cols \in Nat
      BY ScreenAssumption, SMT
    <3>2. PICK a \in Nat, c \in Nat : a = (rows - 1) * cols /\ c = rows * cols
      BY <3>1, Zenon
    <3>3. a + cols = c /\ Cell = 0 .. c - 1
      BY <3>1, <3>2, Zenon DEF Cell
    <3>4. \A i \in Cell : i < a => i + cols \in Cell
      BY <3>3, ScreenAssumption, SMT
    <3> QED BY <3>2, <3>4, Zenon
  <2>2. s.cells \in [Cell -> BOOLEAN]
    BY Zenon DEF ScreenT
  <2>3. new \in [Cell -> BOOLEAN]
    BY <2>1, <2>2, Zenon
  <2> HIDE DEF new
  <2>4. [s EXCEPT !.cells = new] \in ScreenT
    BY <2>3 DEF ScreenT
  <2> QED BY <2>4, Zenon DEF scroll_up, new
<1> QED BY <1>1, <1>2, <1>3, Zenon

LEMMA FarIsNat == Far \in Nat
  BY DEF Far

LEMMA SequenceTyped ==
  ASSUME NEW s \in Tidy(FALSE), NEW x \in 0..MaxParam, NEW y \in 0..MaxParam \cup {1},
         NEW ch \in Final
  PROVE  process_sequence(s, x, y, ch) \in ScreenT
<1>1. s \in ScreenT /\ OnScreen(s) /\ s.row \in Nat /\ s.col \in Nat
  BY FieldsTyped, Zenon DEF Tidy
<1>2. x \in Nat /\ y \in Nat
  BY ScreenAssumption
<1>3. CASE ch = "H"
  <2>1. process_sequence(s, x, y, ch) = gotoxy(s, Bound(x, rows), Bound(y, cols))
    BY <1>3, Zenon DEF process_sequence
  <2>2. Bound(x, rows) \in Nat /\ Bound(y, cols) \in Nat
    BY <1>2, ScreenAssumption, Zenon DEF Bound
  <2> QED BY <2>1, <2>2, <1>1, Zenon DEF gotoxy, ScreenT
<1>4. CASE ch = "J"
  <2>1. process_sequence(s, x, y, ch) = IF x = 1 THEN s ELSE cls(s)
    BY <1>4, Zenon DEF process_sequence
  <2> QED BY <2>1, <1>1, ClearsTyped, Zenon
<1>5. CASE ch = "K"
  <2>1. process_sequence(s, x, y, ch) = fill_to_line_end(s)
    BY <1>5, Zenon DEF process_sequence
  <2> QED BY <2>1, <1>1, ClearsTyped, Zenon
<1>6. CASE ch = "A"
  <2>1. process_sequence(s, x, y, ch) = [s EXCEPT !.row = IF x < @ THEN @ - x ELSE 0]
    BY <1>6, Zenon DEF process_sequence
  <2>2. (IF x < s.row THEN s.row - x ELSE 0) \in Nat
    BY <1>1, <1>2
  <2> QED BY <2>1, <2>2, <1>1, FieldsTyped, Zenon
<1>7. CASE ch = "B"
  <2>1. process_sequence(s, x, y, ch)
          = [s EXCEPT !.row = IF @ + x < rows THEN @ + x ELSE IF @ < rows THEN rows ELSE @]
    BY <1>7, Zenon DEF process_sequence
  <2>2. (IF s.row + x < rows THEN s.row + x ELSE IF s.row < rows THEN rows ELSE s.row) \in Nat
    BY <1>1, <1>2, ScreenAssumption
  <2> QED BY <2>1, <2>2, <1>1, FieldsTyped, Zenon
<1>8. CASE ch = "C"
  <2>1. process_sequence(s, x, y, ch)
          = [s EXCEPT !.col = IF @ + 2 * x > cols THEN cols - 1 ELSE @ + 2 * x]
    BY <1>8, Zenon DEF process_sequence
  <2>2. (IF s.col + 2 * x > cols THEN cols - 1 ELSE s.col + 2 * x) \in Nat
    BY <1>1, <1>2, ScreenAssumption
  <2> QED BY <2>1, <2>2, <1>1, FieldsTyped, Zenon
<1>9. CASE ch = "D"
  <2>1. process_sequence(s, x, y, ch) = [s EXCEPT !.col = IF @ < 2 * x THEN Far ELSE @ - 2 * x]
    BY <1>9, Zenon DEF process_sequence
  <2>2. (IF s.col < 2 * x THEN Far ELSE s.col - 2 * x) \in Nat
    BY <1>1, <1>2, FarIsNat
  <2> QED BY <2>1, <2>2, <1>1, FieldsTyped, Zenon
<1>10. CASE ch = "L"
  <2>1. process_sequence(s, x, y, ch) = lines(s, x)
    BY <1>10, Zenon DEF process_sequence
  <2> QED BY <2>1, LinesTyped, Zenon DEF Tidy
<1>11. CASE ch = "SGR"
  <2>1. process_sequence(s, x, y, ch) = s
    BY <1>11, Zenon DEF process_sequence
  <2> QED BY <2>1, <1>1, Zenon
<1> QED BY <1>3, <1>4, <1>5, <1>6, <1>7, <1>8, <1>9, <1>10, <1>11, Zenon DEF Final

LEMMA EscapeTyped ==
  ASSUME NEW s \in Tidy(FALSE), NEW ch \in Single
  PROVE  Escape(s, ch) \in ScreenT
<1>1. s \in ScreenT /\ OnScreen(s) /\ s.row \in Nat /\ s.col \in Nat
  BY FieldsTyped, Zenon DEF Tidy
<1>2. CASE ch = "P"
  <2>1. Escape(s, ch) = [s EXCEPT !.row = IF @ + 1 >= rows THEN rows - 1 ELSE @ + 1]
    BY <1>2, Zenon DEF Escape
  <2>2. (IF s.row + 1 >= rows THEN rows - 1 ELSE s.row + 1) \in Nat
    BY <1>1, ScreenAssumption
  <2> QED BY <2>1, <2>2, <1>1, FieldsTyped, Zenon
<1>3. CASE ch = "K"
  <2>1. Escape(s, ch) = [s EXCEPT !.col = IF @ > 1 THEN @ - 2 ELSE IF @ = 1 THEN Far ELSE @]
    BY <1>3, Zenon DEF Escape
  <2>2. (IF s.col > 1 THEN s.col - 2 ELSE IF s.col = 1 THEN Far ELSE s.col) \in Nat
    BY <1>1, FarIsNat
  <2> QED BY <2>1, <2>2, <1>1, FieldsTyped, Zenon
<1>4. CASE ch = "H"
  <2>1. Escape(s, ch) = [s EXCEPT !.row = IF @ > 0 THEN @ - 1 ELSE @]
    BY <1>4, Zenon DEF Escape
  <2>2. (IF s.row > 0 THEN s.row - 1 ELSE s.row) \in Nat
    BY <1>1
  <2> QED BY <2>1, <2>2, <1>1, FieldsTyped, Zenon
<1>5. CASE ch = "D"
  <2>1. Escape(s, ch) = scroll_up(s)
    BY <1>5, Zenon DEF Escape
  <2> QED BY <2>1, <1>1, ClearsTyped, Zenon
<1>6. CASE ch \in {"G", "c"}
  <2>1. Escape(s, ch) = [s EXCEPT !.row = 0, !.col = 0]
    BY <1>6, Zenon DEF Escape
  <2>2. PICK t : t = [s EXCEPT !.row = 0]
    BY Zenon
  <2>3. t \in ScreenT /\ Escape(s, ch) = [t EXCEPT !.col = 0]
    BY <2>1, <2>2, <1>1, Zenon DEF ScreenT
  <2> QED BY <2>3 DEF ScreenT
<1>7. CASE ch \in {"M", "("}
  <2>1. Escape(s, ch) = s
    BY <1>7, Zenon DEF Escape
  <2> QED BY <2>1, <1>1, Zenon
<1> QED BY <1>2, <1>3, <1>4, <1>5, <1>6, <1>7, Zenon DEF Single

ScreenInv ==
  /\ stray \in BOOLEAN /\ moved \in BOOLEAN
  /\ parx \in 0..MaxParam /\ pary \in 0..MaxParam
  /\ ~stray => Screen \in Tidy(~moved)

(* What Shown leaves. *)
LEMMA ShownTidy ==
  ASSUME ScreenInv, NEW t \in ScreenT, NEW seq \in BOOLEAN, NEW back \in BOOLEAN,
         Shown(t, seq, back), ~stray, ~seq => OnScreen(t), ~moved /\ ~back => Blank(t),
         parx' \in 0..MaxParam, pary' \in 0..MaxParam
  PROVE  ScreenInv'
<1>1. stray' \in BOOLEAN /\ moved' \in BOOLEAN
  BY Zenon DEF ScreenInv, Shown
<1>2. /\ cells' = t.cells /\ row' = t.row /\ col' = t.col
      /\ t.row \in Nat /\ t.col \in Nat /\ t.cells \in [Cell -> BOOLEAN]
  BY CellTyped, Zenon DEF Shown
<1>3. Screen' \in ScreenT /\ Screen'.row = t.row /\ Screen'.col = t.col /\ Screen'.cells = t.cells
  BY <1>2, Zenon DEF Screen, ScreenT
<1>4. PICK u \in ScreenT : u = Screen'
  BY <1>3, Zenon
<1>5. ASSUME ~stray' PROVE OnScreen(u)
  <2>1. OnScreen(t)
    BY <1>5, <1>2, ScreenAssumption DEF Shown, OnScreen
  <2> QED BY <2>1, <1>3, <1>4, Zenon DEF OnScreen
<1>6. ASSUME ~moved' PROVE Blank(u)
  <2>1. CASE \E i \in Cell : t.cells[i]
    <3>1. Blank(t)
      BY <1>6, <2>1, Zenon DEF Shown
    <3> QED BY <3>1, <1>3, <1>4, Zenon DEF Blank, At
  <2>2. CASE ~\E i \in Cell : t.cells[i]
    BY <2>2, <1>3, <1>4, Zenon DEF Blank
  <2> QED BY <2>1, <2>2, Zenon
<1>7. ~stray' => Screen' \in Tidy(~moved')
  BY <1>4, <1>5, <1>6, Zenon DEF Tidy
<1> QED BY <1>1, <1>7, Zenon DEF ScreenInv

LEMMA SequenceTidy ==
  ASSUME ScreenInv, NEW t \in ScreenT, ShowSeq(t), ~stray,
         parx' \in 0..MaxParam, pary' \in 0..MaxParam
  PROVE  ScreenInv'
<1>1. Shown(t, TRUE, t # Screen)
  BY Zenon DEF ShowSeq
<1>2. PICK back \in BOOLEAN : back = (t # Screen)
  BY Zenon
<1>3. Shown(t, TRUE, back)
  BY <1>1, <1>2, Zenon
<1>4. ~moved /\ ~back => Blank(t)
  BY <1>2, Zenon DEF ScreenInv, Tidy
<1> QED BY <1>3, <1>4, ShownTidy, Zenon

LEMMA ScreenKeeps == ScreenInv /\ [ConNext]_conVars => ScreenInv'
<1> SUFFICES ASSUME ScreenInv, [ConNext]_conVars PROVE ScreenInv'
  OBVIOUS
<1>0. parx \in 0..MaxParam /\ pary \in 0..MaxParam
  BY Zenon DEF ScreenInv
<1>1. parx' \in 0..MaxParam /\ pary' \in 0..MaxParam
  <2>1. CASE ConNext
    <3>1. CASE write_string
      BY <1>0, <3>1, Zenon DEF write_string
    <3>2. CASE vstate = 1 /\ UNCHANGED <<parx, pary>>
      BY <1>0, <3>2, Zenon
    <3>3. CASE (parx' \in Digit \cup {parx} \/ UNCHANGED parx) /\ UNCHANGED pary
      BY <1>0, <3>3, ScreenAssumption, Zenon
    <3>4. CASE \E d \in Digit : parx * 10 + d <= MaxParam /\ parx' = parx * 10 + d /\ UNCHANGED pary
      BY <1>0, <3>4, ScreenAssumption
    <3>5. CASE pary' = 0 /\ UNCHANGED parx
      BY <1>0, <3>5, ScreenAssumption
    <3>6. CASE \E d \in Digit : pary * 10 + d <= MaxParam /\ pary' = pary * 10 + d /\ UNCHANGED parx
      BY <1>0, <3>6, ScreenAssumption
    <3>7. CASE UNCHANGED <<parx, pary>>
      BY <1>0, <3>7, Zenon
    <3> QED BY <2>1, <3>1, <3>2, <3>3, <3>4, <3>5, <3>6, <3>7, Zenon DEF ConNext, process_multichar
  <2>2. CASE UNCHANGED conVars
    BY <1>0, <2>2, Zenon DEF conVars
  <2> QED BY <2>1, <2>2, Zenon
<1>2. CASE stray
  <2>1. stray' = TRUE /\ moved' \in BOOLEAN
    <3>1. moved \in BOOLEAN /\ stray = TRUE
      BY <1>2, Zenon DEF ScreenInv
    <3>2. CASE UNCHANGED <<stray, moved>>
      BY <3>1, <3>2, Zenon
    <3>3. CASE \E s, seq, back : Shown(s, seq, back)
      BY <3>1, <3>3, Zenon DEF Shown
    <3>4. UNCHANGED <<stray, moved>> \/ \E s, seq, back : Shown(s, seq, back)
      <4>1. CASE write_string
        BY <4>1, Zenon DEF write_string
      <4>2. CASE process_multichar
        BY <4>2, Zenon DEF process_multichar, ShowSeq
      <4>3. CASE UNCHANGED conVars
        BY <4>3, Zenon DEF conVars
      <4> QED BY <4>1, <4>2, <4>3, Zenon DEF ConNext
    <3> QED BY <3>2, <3>3, <3>4, Zenon
  <2> QED BY <2>1, <1>1, Zenon DEF ScreenInv
<1>3. CASE ~stray
  <2>1. Screen \in Tidy(~moved) /\ Screen \in Tidy(FALSE)
    BY <1>3, Zenon DEF ScreenInv, Tidy
  <2>2. CASE UNCHANGED <<cells, row, col, stray, moved>>
    <3>1. Screen' = Screen
      BY <2>2, Zenon DEF Screen
    <3>2. stray' = stray /\ moved' = moved
      BY <2>2, Zenon
    <3> QED BY <1>1, <3>1, <3>2, Zenon DEF ScreenInv
  <2>3. CASE write_string
    <3>1. PICK c \in Plain : Shown(put_char(Screen, c), FALSE, c = "cr")
      BY <2>3, Zenon DEF write_string
    <3>2. PICK b \in BOOLEAN : b = (~moved /\ c # "cr")
      BY Zenon
    <3>3. Screen \in Tidy(b)
      BY <2>1, <3>2, Zenon DEF Tidy
    <3>4. c = "cr" => ~b
      BY <3>2, Zenon
    <3>5. put_char(Screen, c) \in Tidy(b)
      BY <3>3, <3>4, CharTidy, Zenon
    <3>6. PICK t \in ScreenT, back \in BOOLEAN : t = put_char(Screen, c) /\ back = (c = "cr")
      BY <3>5, Zenon DEF Tidy
    <3>7. OnScreen(t) /\ (~moved /\ ~back => Blank(t))
      BY <3>2, <3>5, <3>6, Zenon DEF Tidy
    <3>8. Shown(t, FALSE, back)
      BY <3>1, <3>6, Zenon
    <3> QED BY <1>1, <1>3, <3>7, <3>8, ShownTidy, Zenon
  <2>4. CASE \E ch \in Single : ShowSeq(Escape(Screen, ch))
    BY <2>4, <1>1, <1>3, <2>1, EscapeTyped, SequenceTidy, Zenon
  <2>5. CASE \E x \in 0..MaxParam, y \in 0..MaxParam \cup {1}, ch \in Final :
               ShowSeq(process_sequence(Screen, x, y, ch))
    BY <2>5, <1>1, <1>3, <2>1, SequenceTyped, SequenceTidy, Zenon
  <2>6. \/ UNCHANGED <<cells, row, col, stray, moved>> \/ write_string
        \/ \E ch \in Single : ShowSeq(Escape(Screen, ch))
        \/ \E x \in 0..MaxParam, y \in 0..MaxParam \cup {1}, ch \in Final :
              ShowSeq(process_sequence(Screen, x, y, ch))
    <3>1. CASE UNCHANGED conVars
      BY <3>1, Zenon DEF conVars
    <3>2. CASE process_multichar
      <4>1. 0 \in 0..MaxParam /\ 1 \in 0..MaxParam
        BY ScreenAssumption
      <4>2. \A ch : (IF ch = "SGR" THEN 0 ELSE 1) \in 0..MaxParam
        BY <4>1, Zenon
      <4> QED BY <3>2, <4>1, <4>2, <1>0, Zenon DEF process_multichar
    <3> QED BY <3>1, <3>2, Zenon DEF ConNext
  <2> QED BY <2>2, <2>3, <2>4, <2>5, <2>6, Zenon
<1> QED BY <1>2, <1>3, Zenon

LEMMA ScreenStarts == ConInit => ScreenInv
<1> SUFFICES ASSUME ConInit PROVE ScreenInv
  OBVIOUS
<1>1. /\ cells = [i \in Cell |-> FALSE] /\ row = 0 /\ col = 0 /\ parx = 0 /\ pary = 0
      /\ stray = FALSE /\ moved = FALSE
  BY Zenon DEF ConInit
<1>2. PICK t : t = Screen
  BY Zenon
<1>3. t \in ScreenT /\ t.row = 0 /\ t.col = 0 /\ \A i \in Cell : ~t.cells[i]
  BY <1>1, <1>2, Zenon DEF Screen, ScreenT
<1>4. OnScreen(t) /\ Blank(t)
  BY <1>3, ScreenAssumption DEF OnScreen, Blank
<1>5. t \in Tidy(~moved)
  BY <1>3, <1>4, Zenon DEF Tidy
<1>6. 0 \in 0..MaxParam
  BY ScreenAssumption
<1> QED BY <1>1, <1>2, <1>5, <1>6, Zenon DEF ScreenInv

(* Text stays on the screen and the cells behind the cursor stay blank     *)
(* through tabs, line ends, wrapping and scrolling, whatever characters    *)
(* come: for every size of the screen, tab width and parameter (put_char,  *)
(* new_line, scroll_up, process_sequence in console.c).                    *)
THEOREM ScreenAlwaysHolds == ConSpec => []ScreenHolds
<1>1. ScreenInv => ScreenHolds
  <2> SUFFICES ASSUME ScreenInv, ~stray PROVE ScreenHolds
    BY Zenon DEF ScreenHolds
  <2>1. PICK t : t = Screen
    BY Zenon
  <2>2. t.row = row /\ t.col = col /\ t.cells = cells
    BY <2>1, Zenon DEF Screen
  <2>3. t \in Tidy(~moved)
    BY <2>1, Zenon DEF ScreenInv
  <2> QED BY <2>2, <2>3, Zenon DEF Tidy, OnScreen, Blank, At, ScreenHolds
<1> QED BY <1>1, ScreenStarts, ScreenKeeps, PTL DEF ConSpec
=============================================================================
