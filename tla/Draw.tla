-------------------------------- MODULE Draw --------------------------------
(***************************************************************************)
(* The drawing operations of Kernel/gfx/draw.c, on a bitmap of width x     *)
(* height pixels, and the raster operations of blit.c.  The code has each  *)
(* figure four times, for 1, 2, 3 and 4 bytes a pixel; here they share one *)
(* definition.  canvas holds the offsets of the bytes that were written.   *)
(***************************************************************************)
EXTENDS Integers, FiniteSets

CONSTANTS width, height,
          Radius,   \* radii of the circles drawn
          Heights   \* rows of the rectangles copied

Point == (0 .. width - 1) \X (0 .. height - 1)
Bytes == {1, 2, 3, 4}

(* The bounds are unsigned and too wide by one: x = width is the next row. *)
pixel(n, p) ==
  IF p[1] < 0 \/ p[1] > width \/ p[2] < 0 \/ p[2] > height THEN {}
  ELSE {(p[2] * width + p[1]) * n + i : i \in 0 .. n - 1}

Paint(n, ps) == UNION {pixel(n, p) : p \in ps}

(* The macro ABS applied to a - b: its minus sign reaches a only. *)
ABS(a, b) == IF a - b >= 0 THEN a - b ELSE -a - b

(* From p1 to p2 in steps of one, with q following. *)
Walk_shallow(p1, q1, p2, inc, dp, dq) ==
  LET at[k \in 0 .. p2 - p1] ==
        IF k = 0 THEN [q |-> q1, d |-> 2 * dq - dp]
        ELSE LET a == at[k - 1]
             IN  IF a.d < 0 THEN [q |-> a.q, d |-> a.d + dq]
                 ELSE [q |-> a.q + inc, d |-> a.d + 2 * (dq - dp)]
  IN  {<<p1 + k, at[k].q>> : k \in 0 .. p2 - p1}

Walk(p1, q1, p2, inc, dp, dq) ==
  LET at[k \in 0 .. p2 - p1] ==
        IF k = 0 THEN [q |-> q1, d |-> 2 * dq - dp]
        ELSE LET a == at[k - 1]
             IN  IF a.d < 0 THEN [q |-> a.q, d |-> a.d + 2 * dq]
                 ELSE [q |-> a.q + inc, d |-> a.d + 2 * (dq - dp)]
  IN  {<<p1 + k, at[k].q>> : k \in 0 .. p2 - p1}

(* The end that comes first along the axis that is walked. *)
Along(a, b, dp, dq) ==
  LET s == IF b[1] < a[1] THEN b ELSE a
      e == IF b[1] < a[1] THEN a ELSE b
  IN  Walk(s[1], s[2], e[1], IF e[2] > s[2] THEN 1 ELSE -1, dp, dq)

Flip(p) == <<p[2], p[1]>>

line(a, b) ==
  LET dx == ABS(b[1], a[1])
      dy == ABS(b[2], a[2])
  IN  IF dy <= dx THEN Along(a, b, dx, dy)
      ELSE {Flip(p) : p \in Along(Flip(a), Flip(b), dy, dx)}

draw_line8(a, b) == Paint(1, line(a, b))
draw_line16(a, b) == Paint(2, line(a, b))
draw_line24(a, b) == Paint(3, line(a, b))
draw_line32(a, b) == Paint(4, line(a, b))

rect(a, b) == line(a, <<b[1], a[2]>>) \cup line(<<a[1], b[2]>>, b)
              \cup line(a, <<a[1], b[2]>>) \cup line(<<b[1], a[2]>>, b)

rect8(a, b) == Paint(1, rect(a, b))
rect16(a, b) == Paint(2, rect(a, b))
rect24(a, b) == Paint(3, rect(a, b))
rect32(a, b) == Paint(4, rect(a, b))

fill_rect(a, b) ==
  LET lo == IF a[2] > b[2] THEN b[2] ELSE a[2]
      hi == IF a[2] > b[2] THEN a[2] ELSE b[2]
  IN  UNION {line(<<a[1], y>>, <<b[1], y>>) : y \in lo .. hi}

fill_rect8(a, b) == Paint(1, fill_rect(a, b))
fill_rect16(a, b) == Paint(2, fill_rect(a, b))
fill_rect24(a, b) == Paint(3, fill_rect(a, b))
fill_rect32(a, b) == Paint(4, fill_rect(a, b))

(* The eight mirror images of one point of the arc. *)
_draw_circle(c, x, y) ==
  {<<c[1] + i * x, c[2] + j * y>> : i, j \in {-1, 1}}
  \cup {<<c[1] + i * y, c[2] + j * x>> : i, j \in {-1, 1}}

(* x runs along an eighth of the circle, y follows; the guard compares     *)
(* unsigned, so that a circle over the left or upper edge is not drawn.    *)
circle(c, r, fill) ==
  LET arc[x \in 0 .. r] ==
        IF x = 0 THEN [y |-> r, d |-> 3 - 2 * r]
        ELSE LET a == arc[x - 1]
             IN  IF a.d < 0 THEN [y |-> a.y, d |-> a.d + 4 * (x - 1) + 6]
                 ELSE [y |-> a.y - 1, d |-> a.d + 4 * (x - 1 - a.y) + 10]
      drawn == {x \in 0 .. r : x <= arc[x].y}
  IN  IF c[1] - r \notin 0 .. width - 1 \/ c[2] - r \notin 0 .. height - 1 THEN {}
      ELSE UNION {UNION {_draw_circle(c, x, y) :
                         y \in (IF fill THEN x ELSE arc[x].y) .. arc[x].y} : x \in drawn}

draw_circle8(c, r, fill) == Paint(1, circle(c, r, fill))
draw_circle16(c, r, fill) == Paint(2, circle(c, r, fill))
draw_circle24(c, r, fill) == Paint(3, circle(c, r, fill))
draw_circle32(c, r, fill) == Paint(4, circle(c, r, fill))

-----------------------------------------------------------------------------
(* bitblt combines a bit of the source with one of the destination.        *)
And(s, d) == s * d
Or(s, d) == s + d - s * d
Xor(s, d) == (s + d) % 2

(* "xorb %al, %al" leaves zero, whatever al held. *)
Cleared(b) == 0

Rop24 == [WHITENESS |-> [s, d \in 0 .. 1 |-> 1],
          BLACKNESS |-> [s, d \in 0 .. 1 |-> 0],
          SRCCOPY |-> [s, d \in 0 .. 1 |-> s],
          SRCAND |-> [s, d \in 0 .. 1 |-> And(s, d)],
          SRCPAINT |-> [s, d \in 0 .. 1 |-> Or(s, d)],
          SRCINVERT |-> [s, d \in 0 .. 1 |-> Xor(s, d)]]

Rop24_not == [DSTINVERT |-> [s, d \in 0 .. 1 |-> Cleared(d)],
              MERGEPAINT |-> [s, d \in 0 .. 1 |-> Or(Cleared(s), d)],
              NOTSRCCOPY |-> [s, d \in 0 .. 1 |-> Cleared(s)],
              NOTSRCERASE |-> [s, d \in 0 .. 1 |-> Cleared(Or(s, d))],
              SRCERASE |-> [s, d \in 0 .. 1 |-> And(Cleared(d), s)]]

Rop32 == [WHITENESS |-> [s, d \in 0 .. 1 |-> 1],
          BLACKNESS |-> [s, d \in 0 .. 1 |-> 0],
          SRCCOPY |-> [s, d \in 0 .. 1 |-> s],
          SRCPAINT |-> [s, d \in 0 .. 1 |-> Or(s, d)],
          SRCINVERT |-> [s, d \in 0 .. 1 |-> Xor(s, d)]]

(* Two of the loops over the rows of 24 bit images test the low byte of    *)
(* their counter only.                                                     *)
Rows(rop, n, h) ==
  IF rop \in {"WHITENESS", "BLACKNESS"} /\ n = 3 THEN ((h - 1) % 256) + 1 ELSE h

-----------------------------------------------------------------------------
VARIABLES drawn,   \* the operation that was carried out
          canvas   \* the bytes of the bitmap it wrote

drawVars == <<drawn, canvas>>

Blank == [op |-> "none", n |-> 1, a |-> <<0, 0>>, b |-> <<0, 0>>, r |-> 0]

DrawInit == drawn = Blank /\ canvas = {}

Line ==
  \E a, b \in Point, n \in Bytes :
    /\ drawn' = [Blank EXCEPT !.op = "line", !.n = n, !.a = a, !.b = b]
    /\ canvas' = CASE n = 1 -> draw_line8(a, b) [] n = 2 -> draw_line16(a, b)
                   [] n = 3 -> draw_line24(a, b) [] n = 4 -> draw_line32(a, b)

Rect ==
  \E a, b \in Point, n \in Bytes :
    /\ drawn' = [Blank EXCEPT !.op = "rect", !.n = n, !.a = a, !.b = b]
    /\ canvas' = CASE n = 1 -> rect8(a, b) [] n = 2 -> rect16(a, b)
                   [] n = 3 -> rect24(a, b) [] n = 4 -> rect32(a, b)

Fill ==
  \E a, b \in Point, n \in Bytes :
    /\ drawn' = [Blank EXCEPT !.op = "fill", !.n = n, !.a = a, !.b = b]
    /\ canvas' = CASE n = 1 -> fill_rect8(a, b) [] n = 2 -> fill_rect16(a, b)
                   [] n = 3 -> fill_rect24(a, b) [] n = 4 -> fill_rect32(a, b)

Circle ==
  \E c \in Point, n \in Bytes, r \in Radius, disc \in BOOLEAN :
    /\ drawn' = [Blank EXCEPT !.op = IF disc THEN "disc" ELSE "circle",
                              !.n = n, !.a = c, !.r = r]
    /\ canvas' = CASE n = 1 -> draw_circle8(c, r, disc) [] n = 2 -> draw_circle16(c, r, disc)
                   [] n = 3 -> draw_circle24(c, r, disc) [] n = 4 -> draw_circle32(c, r, disc)

(* One bit of a bitblt of r rows. *)
Blit ==
  \E s, d \in 0 .. 1, n \in {3, 4}, h \in Heights :
    \E rop \in DOMAIN Rop24 \cup DOMAIN Rop24_not :
      /\ n = 4 => rop \in DOMAIN Rop32
      /\ drawn' = [Blank EXCEPT !.op = rop, !.n = n, !.b = <<s, d>>, !.a = <<h, Rows(rop, n, h)>>]
      /\ canvas' = {CASE n = 4 -> Rop32[rop][s, d]
                      [] n = 3 /\ rop \in DOMAIN Rop24 -> Rop24[rop][s, d]
                      [] OTHER -> Rop24_not[rop][s, d]}

DrawNext == \/ drawn = Blank /\ (Line \/ Rect \/ Fill \/ Circle \/ Blit)
            \/ drawn # Blank /\ drawn' = Blank /\ canvas' = {}

DrawSpec == DrawInit /\ [][DrawNext]_drawVars

-----------------------------------------------------------------------------
Abs(i) == IF i < 0 THEN -i ELSE i

(* What a line from a to b should be: its ends, one pixel for each step of *)
(* the longer side, none further than half a pixel from the true line.     *)
Straight(ps, a, b) ==
  LET k == IF Abs(b[2] - a[2]) <= Abs(b[1] - a[1]) THEN 1 ELSE 2
      l == 3 - k
      lo == IF a[k] < b[k] THEN a[k] ELSE b[k]
      hi == IF a[k] < b[k] THEN b[k] ELSE a[k]
  IN  /\ {a, b} \subseteq ps
      /\ \A i \in lo .. hi : Cardinality({p \in ps : p[k] = i}) = 1
      /\ \A p \in ps :
           /\ p[k] \in lo .. hi
           /\ 2 * Abs((p[l] - a[l]) * (b[k] - a[k]) - (p[k] - a[k]) * (b[l] - a[l]))
                <= Abs(b[k] - a[k])

(* Closer to a circle of radius r round the origin than one pixel.         *)
Round(p, r) == Abs(p[1] * p[1] + p[2] * p[2] - r * r) <= r

Pixels == {p \in Point : pixel(drawn.n, p) \subseteq canvas}

Off(p) == <<p[1] - drawn.a[1], p[2] - drawn.a[2]>>

Forward == drawn.a[1] <= drawn.b[1] /\ drawn.a[2] <= drawn.b[2]

Inside(c, r) == {c[1] - r, c[1] + r} \subseteq 0 .. width - 1
                /\ {c[2] - r, c[2] + r} \subseteq 0 .. height - 1

(* In every depth, an operation writes whole pixels of the figure it is    *)
(* named for: a line that leads right and down (what rect and the windows  *)
(* draw) is straight from end to end, a rectangle is its border, a filled  *)
(* one is every pixel of it, a circle that fits is within a pixel of the   *)
(* true circle and closed in every row and column, a disc has no holes.    *)
(* A copied rectangle has all its rows if it has no more than 256, and one *)
(* that is inverted twice is as it was.                                    *)
FigureDrawn ==
  /\ drawn.op \in {"line", "rect", "fill"} /\ Forward => canvas = Paint(drawn.n, Pixels)
  /\ drawn.op = "line" /\ Forward => Straight(Pixels, drawn.a, drawn.b)
  /\ drawn.op = "rect" /\ Forward =>
       Pixels = {p \in Point :
                   /\ \A k \in 1 .. 2 : p[k] \in drawn.a[k] .. drawn.b[k]
                   /\ \E k \in 1 .. 2 : p[k] \in {drawn.a[k], drawn.b[k]}}
  /\ drawn.op = "fill" /\ Forward =>
       Pixels = {p \in Point : \A k \in 1 .. 2 : p[k] \in drawn.a[k] .. drawn.b[k]}
  /\ drawn.op = "circle" /\ Inside(drawn.a, drawn.r) =>
       /\ canvas = Paint(drawn.n, Pixels)
       /\ \A p \in Pixels : Round(Off(p), drawn.r)
       /\ \A k \in 1 .. 2, i \in -drawn.r .. drawn.r :
            \E p \in Pixels : Off(p)[k] = i
  /\ drawn.op \in DOMAIN Rop24 /\ drawn.a[1] <= 256 => drawn.a[2] = drawn.a[1]
  /\ drawn.op = "SRCINVERT" => \A bit \in canvas : Rop24.SRCINVERT[drawn.b[1], bit] = drawn.b[2]
  /\ drawn.op = "disc" /\ Inside(drawn.a, drawn.r) =>
       Pixels = {p \in Point : \E q \in circle(drawn.a, drawn.r, FALSE) :
                   q[1] = p[1] /\ Abs(Off(p)[2]) <= Abs(Off(q)[2])}
=============================================================================
