----------------------------- MODULE MCDevices -----------------------------
(***************************************************************************)
(* Keyboard, mouse and screen: input on its way to a process (part         *)
(* "input"), the console ("console"), the terminal's line ("tty"), the     *)
(* keys ("keys"), drawing ("draw") and windows ("frames").  A behaviour    *)
(* exercises one of them.                                                  *)
(***************************************************************************)
EXTENDS GfxInput, Console, Keyboard, Draw, Frames, TLC

VARIABLE part

deviceVars == <<part, gfxVars, conVars, ttyVars, kbdVars, drawVars, frameVars>>

Init == /\ part \in {"input", "console", "tty", "keys", "draw", "frames"}
        /\ GfxInit /\ ConInit /\ TtyInit /\ KbdInit /\ DrawInit /\ FramesInit

Next ==
  /\ UNCHANGED part
  /\ \/ /\ part = "input" /\ GfxNext
        /\ UNCHANGED <<conVars, ttyVars, kbdVars, drawVars, frameVars>>
     \/ /\ part = "console" /\ ConNext
        /\ UNCHANGED <<gfxVars, ttyVars, kbdVars, drawVars, frameVars>>
     \/ /\ part = "tty" /\ TtyNext
        /\ UNCHANGED <<gfxVars, conVars, kbdVars, drawVars, frameVars>>
     \/ /\ part = "keys" /\ KbdNext
        /\ UNCHANGED <<gfxVars, conVars, ttyVars, drawVars, frameVars>>
     \/ /\ part = "draw" /\ DrawNext
        /\ UNCHANGED <<gfxVars, conVars, ttyVars, kbdVars, frameVars>>
     \/ /\ part = "frames" /\ FramesNext
        /\ UNCHANGED <<gfxVars, conVars, ttyVars, kbdVars, drawVars>>

Spec == Init /\ [][Next]_deviceVars

(* Bounds: two windows, one below the other and at first apart, on a       *)
(* screen with room to drag either over the other and past the edge.       *)
MCWindow == <<"a", "b">>
MCWinRect == ("a" :> R(1, 1, 2, 2)) @@ ("b" :> R(1, 3, 4, 2))
MCDelta == -2..2

Sound == GfxSound /\ ConSound /\ TtySound /\ KbdSound /\ FramesSound
=============================================================================
