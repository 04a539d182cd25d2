------------------------------ MODULE Keyboard ------------------------------
(***************************************************************************)
(* keyboard_handler of Kernel/keyboard.c: which modifier keys it takes to  *)
(* be held, from the scan codes of the keyboard.  An extended key sends    *)
(* E0 and then its code, in two interrupts.  "x" stands for every key that *)
(* is no modifier, "del" for the code 0x53 of the Del key and the keypad's *)
(* dot; a release is the code with 0x80.                                   *)
(***************************************************************************)
EXTENDS Naturals, FiniteSets

CONSTANTS MaxHeld  \* bound on the keys held at once

(* key -> its code, and whether E0 comes before it *)
Code == [lctrl |-> "ctrl", rctrl |-> "ctrl", lalt |-> "alt", ralt |-> "alt",
         lshift |-> "lshift", rshift |-> "rshift", delete |-> "del", dot |-> "del", letter |-> "x"]
Extended == {"rctrl", "ralt", "delete"}
Keys == DOMAIN Code
Modifier == {"lctrl", "rctrl", "lalt", "ralt", "lshift", "rshift"}

VARIABLES held,      \* keys that are down
          sending,   \* the code after an E0 that was sent, or "none"
          is_E0, ctl_keys,
          caps,      \* LED_CAPS_LOCK
          kbstate,   \* the column of the key map the last code was looked up in
          skewed     \* history: a code was returned on with is_E0 set

kbdVars == <<held, sending, is_E0, ctl_keys, caps, kbstate, skewed>>

KbdInit ==
  /\ held = {} /\ sending = [code |-> "none", up |-> FALSE]
  /\ is_E0 = FALSE /\ ctl_keys = {} /\ caps = FALSE /\ kbstate = "normal" /\ skewed = FALSE

Set(s, k, up) == IF up THEN s \ {k} ELSE s \cup {k}

(* Both codes of ctrl and alt, told apart by is_E0; the shifts are not. *)
CtlKeys(code, up) ==
  CASE code = "ctrl"   -> Set(ctl_keys, IF is_E0 THEN "rctrl" ELSE "lctrl", up)
    [] code = "alt"    -> Set(ctl_keys, IF is_E0 THEN "ralt" ELSE "lalt", up)
    [] code \in {"lshift", "rshift"} -> Set(ctl_keys, code, up)
    [] OTHER           -> ctl_keys

KbState(k, c) ==
  LET shift == k \cap {"lshift", "rshift"} # {}
  IN  IF shift /\ c THEN "shiftcaps"
      ELSE IF {"lshift", "lctrl"} \subseteq k THEN "shiftctrl"
      ELSE IF shift THEN "shift"
      ELSE IF k \cap {"lctrl", "rctrl"} # {} THEN "ctrl"
      ELSE IF "lalt" \in k THEN "alt"
      ELSE IF "ralt" \in k THEN "altgr"
      ELSE IF c THEN "capslock" ELSE "normal"

(* Del with either of left ctrl and left alt returns at once. *)
Swallowed(code, up) == ctl_keys \cap {"lctrl", "lalt"} # {} /\ code = "del" /\ ~up

(* A slip: is_E0 is kept after an ordinary key. *)
Handle_E0kept(code, up) ==
  /\ ctl_keys' = CtlKeys(code, up)
  /\ kbstate' = KbState(ctl_keys', caps)
  /\ UNCHANGED <<is_E0, skewed>>

Handle(code, up) ==
  IF Swallowed(code, up)
  THEN skewed' = (skewed \/ is_E0) /\ UNCHANGED <<is_E0, ctl_keys, kbstate>>
  ELSE /\ ctl_keys' = CtlKeys(code, up)
       /\ kbstate' = KbState(ctl_keys', caps)
       /\ is_E0' = FALSE /\ UNCHANGED skewed

(* The keyboard sends the code of a key, E0 first if it is an extended one. *)
KeyMoves(k) ==
  /\ sending.code = "none"
  /\ k \in held \/ Cardinality(held) < MaxHeld
  /\ held' = Set(held, k, k \in held)
  /\ IF k \in Extended
     THEN /\ sending' = [code |-> Code[k], up |-> k \in held] /\ is_E0' = TRUE
          /\ UNCHANGED <<ctl_keys, kbstate, skewed>>
     ELSE Handle(Code[k], k \in held) /\ UNCHANGED sending
  /\ UNCHANGED caps

SecondCode ==
  /\ sending.code # "none"
  /\ Handle(sending.code, sending.up)
  /\ sending' = [code |-> "none", up |-> FALSE]
  /\ UNCHANGED <<held, caps>>

(* Caps lock; its code is also looked up in the map. *)
CapsLock ==
  /\ sending.code = "none"
  /\ caps' = ~caps /\ is_E0' = FALSE /\ kbstate' = KbState(ctl_keys, caps')
  /\ UNCHANGED <<held, sending, ctl_keys, skewed>>

KbdNext == (\E k \in Keys : KeyMoves(k)) \/ SecondCode \/ CapsLock
KbdSpec == KbdInit /\ [][KbdNext]_kbdVars
KbdSound == ~skewed
-----------------------------------------------------------------------------
(* The modifiers the driver takes to be held are those that are, so the    *)
(* next key is looked up in the right column (keyboard_handler), unless    *)
(* Del was pressed with left ctrl or left alt held: then is_E0 stays set   *)
(* and the next code is taken for an extended one.                         *)
ModifiersTrue ==
  ~skewed /\ sending.code = "none" => ctl_keys = held \cap Modifier
=============================================================================
