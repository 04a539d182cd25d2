------------------------------- MODULE Frames -------------------------------
(***************************************************************************)
(* The screen of Kernel/gfx: windows of the applications, the desktop      *)
(* behind them and the mouse cursor drawn over them by exclusive or        *)
(* (frame.c, blit.c, kframe.c).  A mouse event of the gfx loop moves the   *)
(* cursor, chooses or drags a window and repaints what the window left.    *)
(* The messages the event sends are in GfxInput.                           *)
(***************************************************************************)
EXTENDS Integers, Sequences, FiniteSets

CONSTANTS ScrW, ScrH,  \* size of the screen
          CurW,        \* the cursor is CurW by CurW
          Window,      \* windows, in the order they were created
          WinRect,     \* the place and size they were given
          Delta,       \* movements of the mouse
          MaxDrags     \* bound on the events of a behaviour

Pixel == (0 .. ScrW - 1) \X (0 .. ScrH - 1)
Desktop == "desktop"
Main == "main"

Wins == {Window[i] : i \in 1 .. Len(Window)}

R(x, y, w, h) == [x1 |-> x, y1 |-> y, width |-> w, height |-> h]
DesktopRect == R(0, 0, ScrW, ScrH)

VARIABLES rects,    \* rect of every window
          cursor,   \* rect of fm_mouse
          fm_act,   \* the window that was clicked, Main, or "none"
          shown,    \* the video memory: what every pixel shows, where the
                    \* cursor is, and whether a copy left the screen
          event,    \* the mouse event the gfx loop is in, or NoEvent
          drags,    \* events so far
          trail,    \* history: a drag was not a Simple one
          under     \* history: an application painted over the cursor

frameVars == <<rects, cursor, fm_act, shown, event, drags, trail, under>>

Area(r) == {p \in Pixel : p[1] >= r.x1 /\ p[1] < r.x1 + r.width
                           /\ p[2] >= r.y1 /\ p[2] < r.y1 + r.height}

(* The rectangle bitblt copies.  The comparisons are unsigned, and the     *)
(* clipping gives up the last column and the last row.  A width below zero *)
(* is a count of four billion.                                             *)
Clip(r) ==
  LET w == IF r.x1 + r.width \notin 0 .. ScrW - 1 THEN ScrW - r.x1 - 1 ELSE r.width
      h == IF r.y1 + r.height \notin 0 .. ScrH - 1 THEN ScrH - r.y1 - 1 ELSE r.height
  IN  R(r.x1, r.y1, w, h)

Srccopy(s, what, a) ==
  [s EXCEPT !.at = [p \in Pixel |-> IF p \in a THEN what ELSE @[p]], !.ink = @ \ a]

Srcinvert(s, a) == [s EXCEPT !.ink = (@ \ a) \cup (a \ @)]

bitblt(s, what, r, invert) ==
  LET c == Clip(r)
  IN  IF r.x1 \notin 0 .. ScrW \/ r.y1 \notin 0 .. ScrH \/ c.width = 0 \/ c.height = 0
      THEN s
      ELSE IF c.width < 0 \/ c.height < 0 THEN [s EXCEPT !.wild = TRUE]
      ELSE IF invert THEN Srcinvert(s, Area(c)) ELSE Srccopy(s, what, Area(c))

frame_show(s, w, r) == bitblt(s, w, r, FALSE)
show_cursor(s, r) == bitblt(s, "cursor", r, TRUE)

(* sx > src->width and the like are refused as well. *)
frame_update(s, w, place, r) ==
  IF r.x1 - place.x1 \notin 0 .. place.width \/ r.y1 - place.y1 \notin 0 .. place.height
  THEN s ELSE bitblt(s, w, r, FALSE)

frame_is_overlapped(a, b) ==
  /\ a.x1 < b.x1 + b.width /\ b.x1 < a.x1 + a.width
  /\ a.y1 < b.y1 + b.height /\ b.y1 < a.y1 + a.height

Hi(i, j) == IF i > j THEN i ELSE j
Lo(i, j) == IF i > j THEN j ELSE i

frame_get_clipped(a, b) ==
  LET x == Hi(a.x1, b.x1)
      y == Hi(a.y1, b.y1)
  IN  R(x, y, Lo(a.x1 + a.width, b.x1 + b.width) - x,
              Lo(a.y1 + a.height, b.y1 + b.height) - y)

(* The first window of the list that the rectangle meets. *)
frame_lookup_damaged(rs, r) ==
  LET hit == {i \in 1 .. Len(Window) : frame_is_overlapped(rs[Window[i]], r)}
  IN  IF hit = {} THEN "none" ELSE Window[CHOOSE i \in hit : \A j \in hit : i <= j]

(* The desktop is painted over what is left, cut to the screen. *)
RECURSIVE redraw_desktop(_, _)
redraw_desktop(s, r) ==
  IF ~frame_is_overlapped(DesktopRect, r) THEN s
  ELSE LET c == frame_get_clipped(DesktopRect, r)
           n == R(IF c.width < r.width /\ c.x1 = r.x1 THEN r.x1 + c.width ELSE r.x1,
                  IF c.height < r.height /\ c.y1 = r.y1 THEN r.y1 + c.height ELSE r.y1,
                  IF c.width < r.width THEN r.width - c.width ELSE r.width,
                  IF c.height < r.height THEN r.height - c.height ELSE r.height)
           t == frame_update(s, Desktop, DesktopRect, c)
       IN  IF c = n THEN t ELSE redraw_desktop(t, n)

(* Split in two, each repainted on its own; then (goto next) the desktop   *)
(* goes over left, whatever was painted there.                             *)
RECURSIVE frame_redraw_damaged(_, _, _)
frame_redraw_damaged(s, rs, r) ==
  LET d == frame_lookup_damaged(rs, r)
      c == frame_get_clipped(rs[d], r)
      Split(a, b, left) ==
        redraw_desktop(frame_redraw_damaged(frame_redraw_damaged(s, rs, a), rs, b), left)
      (* new_rect, after the part of window d was taken from it *)
      Go(t, n) == LET u == frame_update(t, d, rs[d], c)
                  IN  IF c = n THEN u ELSE frame_redraw_damaged(u, rs, n)
      wide == c.width = r.width
      tall == c.height = r.height
  IN  IF d = "none" THEN redraw_desktop(s, r)
      ELSE IF c.x1 # r.x1 /\ c.y1 # r.y1
      THEN Split(R(r.x1 + r.width - c.width, r.y1, c.width, r.height),
                 R(r.x1, r.y1, r.width - c.width, r.height), r)
      ELSE IF wide /\ c.y1 = r.y1
      THEN Go(s, R(r.x1, r.y1 + c.height, r.width, r.height - c.height))
      ELSE IF wide
      THEN Go(frame_redraw_damaged(s, rs,
                R(c.x1, c.y1 + c.height + 1, c.width,
                  r.height - c.height - (c.y1 - r.y1))),
              [r EXCEPT !.height = @ - c.height])
      ELSE IF tall /\ c.x1 = r.x1
      THEN Go(s, R(r.x1 + c.width, r.y1, r.width - c.width, r.height))
      ELSE IF tall
      THEN Go(frame_redraw_damaged(s, rs,
                R(c.x1 + c.width + 1, c.y1,
                  r.width - c.width - (c.x1 - r.x1), c.height)),
              [r EXCEPT !.width = @ - c.width])
      ELSE IF c.x1 = r.x1
      THEN Split(R(r.x1, r.y1, c.width, r.height),
                 R(r.x1 + c.width, r.y1, r.width - c.width, r.height),
                 [r EXCEPT !.width = c.width])
      ELSE Split([c EXCEPT !.height = r.height],
                 R(r.x1, r.y1, r.width - c.width, r.height),
                 [r EXCEPT !.width = c.width])

Strips_thin(old, dx, dy) ==
  LET w == old.width
      h == old.height - Hi(dy, -dy)
      y == IF dy < 0 THEN old.y1 - dy ELSE old.y1
      right == old.x1 + w + dx + 1
  IN  (IF dy < 0 THEN <<R(old.x1, old.y1, w + 1, -dy)>> ELSE <<>>)
      \o (IF dy > 0 THEN <<R(old.x1, old.y1 + h, w + 1, dy)>> ELSE <<>>)
      \o (IF dx > 0 THEN <<R(old.x1, y, dx - 1, h)>> ELSE <<>>)
      \o (IF dx < 0 THEN <<R(right, y, IF dy < 0 THEN -dx + 1 ELSE -dx, h)>> ELSE <<>>)

(* What a drag by dx, dy uncovers of the old place of the window.  (The    *)
(* mouse counts dy upwards.)                                               *)
Strips(old, dx, dy) ==
  LET w == old.width
      h == old.height - Hi(dy, -dy)
      y == IF dy < 0 THEN old.y1 - dy ELSE old.y1
      right == old.x1 + w + dx + 1
  IN  (IF dy < 0 THEN <<R(old.x1, old.y1, w + 1, -dy)>> ELSE <<>>)
      \o (IF dy > 0 THEN <<R(old.x1, old.y1 + h, w + 1, dy)>> ELSE <<>>)
      \o (IF dx > 0 THEN <<R(old.x1, y, dx, h)>> ELSE <<>>)
      \o (IF dx < 0 THEN <<R(right, y, IF dy < 0 THEN -dx + 1 ELSE -dx, h)>> ELSE <<>>)

(* The new place of the window, kept on the screen at the left and above. *)
Moved(r, dx, dy) ==
  LET x == r.x1 + dx
      x1 == IF x > ScrW THEN x - 1 ELSE x
  IN  [r EXCEPT !.x1 = Hi(x1, 0), !.y1 = Hi(@ - dy, 0)]

(* The part of the window that fits is copied to the new place. *)
frame_render(s, w, r) ==
  bitblt(s, w, R(r.x1, r.y1, IF r.x1 + r.width > ScrW THEN ScrW - r.x1 - 1 ELSE r.width,
                             IF r.y1 + r.height > ScrH THEN ScrH - r.y1 - 1 ELSE r.height),
         FALSE)

RECURSIVE redraw_all(_, _, _)
redraw_all(s, rs, strips) ==
  IF strips = <<>> THEN s
  ELSE redraw_all(frame_redraw_damaged(s, rs, Head(strips)), rs, Tail(strips))

(* The search goes on among the windows behind the one that was hit, with  *)
(* a position relative to it.                                              *)
RECURSIVE frame_from_pos(_, _, _)
frame_from_pos(i, x, y) ==
  LET hit == {j \in i + 1 .. Len(Window) :
                LET r == rects[Window[j]]
                IN  x > r.x1 /\ x < r.x1 + r.width /\ y > r.y1 /\ y < r.y1 + r.height}
  IN  IF hit # {}
      THEN LET j == CHOOSE j \in hit : \A k \in hit : j <= k
           IN  frame_from_pos(j, x - rects[Window[j]].x1, y - rects[Window[j]].y1)
      ELSE IF i = 0 THEN Main ELSE Window[i]

-----------------------------------------------------------------------------
NoEvent == [on |-> "none", dx |-> 0, dy |-> 0, left |-> FALSE]

FramesInit ==
  /\ rects = WinRect
  /\ cursor = R(0, 0, CurW, CurW)
  /\ fm_act = "none"
  /\ shown = [at |-> [p \in Pixel |->
                        IF \E w \in Wins : p \in Area(Clip(WinRect[w]))
                        THEN CHOOSE w \in Wins : p \in Area(Clip(WinRect[w]))
                        ELSE Desktop],
              ink |-> Area(R(0, 0, CurW, CurW)), wild |-> FALSE]
  /\ event = NoEvent
  /\ drags = 0
  /\ trail = FALSE
  /\ under = FALSE

(* A mouse event: the cursor is taken off the screen and moved. *)
HideCursor_late(dx, dy, left) ==
  LET x == Hi(cursor.x1 + dx, 0)
      y == Hi(cursor.y1 - dy, 0)
      new == R(IF x >= ScrW THEN ScrW - CurW ELSE x,
               IF y >= ScrH THEN ScrH - CurW ELSE y, CurW, CurW)
  IN  /\ event = NoEvent /\ drags < MaxDrags
      /\ drags' = drags + 1
      /\ event' = [on |-> "act", dx |-> dx, dy |-> dy, left |-> left]
      /\ shown' = show_cursor(shown, new)
      /\ cursor' = new
      /\ UNCHANGED <<rects, fm_act, trail, under>>

HideCursor(dx, dy, left) ==
  LET x == Hi(cursor.x1 + dx, 0)
      y == Hi(cursor.y1 - dy, 0)
  IN  /\ event = NoEvent /\ drags < MaxDrags
      /\ drags' = drags + 1
      /\ event' = [on |-> "act", dx |-> dx, dy |-> dy, left |-> left]
      /\ shown' = show_cursor(shown, cursor)
      /\ cursor' = R(IF x >= ScrW THEN ScrW - CurW ELSE x,
                     IF y >= ScrH THEN ScrH - CurW ELSE y, CurW, CurW)
      /\ UNCHANGED <<rects, fm_act, trail, under>>

(* A drag frame_redraw_damaged can cope with: not to the left, not stopped *)
(* by an edge, and every window cuts its strips in full rows from the top  *)
(* or in full columns from the left.                                       *)
Simple(old, new, rs) ==
  /\ event.dx >= 0
  /\ new.x1 = old.x1 + event.dx /\ new.y1 = old.y1 - event.dy
  /\ LET strips == Strips(old, event.dx, event.dy)
     IN  \A i \in 1 .. Len(strips), w \in Wins :
           LET r == strips[i]
               c == frame_get_clipped(rs[w], r)
           IN  frame_is_overlapped(rs[w], r) =>
                 \/ c.width = r.width /\ c.y1 = r.y1
                 \/ c.height = r.height /\ c.x1 = r.x1

(* The button is down and the mouse moves: the window follows. *)
Drag ==
  /\ event.on = "act" /\ event.left /\ <<event.dx, event.dy>> # <<0, 0>>
  /\ fm_act \in Wins
  /\ LET old == rects[fm_act]
         new == Moved(old, event.dx, event.dy)
         rs == [rects EXCEPT ![fm_act] = new]
         s == frame_render(frame_show(shown, fm_act, old), fm_act, new)
     IN  /\ rects' = rs
         /\ shown' = redraw_all(s, rs, Strips(old, event.dx, event.dy))
         /\ trail' = (trail \/ ~Simple(old, new, rs))
  /\ event' = [event EXCEPT !.on = "end"]
  /\ UNCHANGED <<cursor, fm_act, drags, under>>

(* The button is down and the mouse rests: the window below is chosen. *)
Click ==
  /\ event.on = "act" /\ event.left /\ <<event.dx, event.dy>> = <<0, 0>>
  /\ fm_act' = frame_from_pos(0, cursor.x1, cursor.y1)
  /\ shown' = IF fm_act' = Main THEN shown ELSE frame_show(shown, fm_act', rects[fm_act'])
  /\ event' = [event EXCEPT !.on = "end"]
  /\ UNCHANGED <<rects, cursor, drags, trail, under>>

(* No button, or nothing chosen: only messages are sent. *)
Hover ==
  /\ event.on = "act"
  /\ event.left => <<event.dx, event.dy>> # <<0, 0>> /\ fm_act \notin Wins
  /\ event' = [event EXCEPT !.on = "end"]
  /\ UNCHANGED <<rects, cursor, fm_act, shown, drags, trail, under>>

ShowCursor ==
  /\ event.on = "end"
  /\ shown' = show_cursor(shown, cursor)
  /\ event' = NoEvent
  /\ UNCHANGED <<rects, cursor, fm_act, drags, trail, under>>

(* An application shows its window, whatever the gfx loop is doing. *)
kframe_show(w) ==
  /\ shown' = frame_show(shown, w, rects[w])
  /\ shown' # shown
  /\ under' = (under \/ shown'.ink # shown.ink)
  /\ UNCHANGED <<rects, cursor, fm_act, event, drags, trail>>

FramesNext ==
  \/ \E dx, dy \in Delta, left \in BOOLEAN : HideCursor(dx, dy, left)
  \/ Drag \/ Click \/ Hover \/ ShowCursor
  \/ \E w \in Wins : kframe_show(w)

FramesSpec == FramesInit /\ [][FramesNext]_frameVars

(* A copy that left the screen ends the system; a trail or a spoiled       *)
(* cursor stays.                                                           *)
FramesSound == ~shown.wild /\ ~trail /\ ~under

-----------------------------------------------------------------------------
(* Between two mouse events the cursor is on the screen once, where the    *)
(* mouse is, however the windows below it were moved and painted; during   *)
(* an event it is not, unless an application painted over it.              *)
CursorOnce ==
  ~under /\ ~shown.wild =>
    shown.ink = IF event = NoEvent THEN Area(Clip(cursor)) ELSE {}

(* As long as every drag was Simple, no window is seen where it is not,    *)
(* for the strips a window leaves are repainted with what is behind it,    *)
(* and every window is seen wherever no other one covers it.               *)
WindowsShown ==
  ~trail /\ ~shown.wild =>
    \A p \in Pixel :
      /\ shown.at[p] # Desktop => p \in Area(rects[shown.at[p]])
      /\ \A w \in Wins :
           p \in Area(Clip(rects[w])) /\ (\A v \in Wins \ {w} : p \notin Area(rects[v]))
             => shown.at[p] = w

(* The screen shows the cursor and the windows where they are. *)
ScreenRight == CursorOnce /\ WindowsShown
=============================================================================
