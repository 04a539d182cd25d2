------------------------------ MODULE Console -------------------------------
(***************************************************************************)
(* The text console (Kernel/console.c): what write_string does with each   *)
(* character.  Characters are named by what they do; colours and the       *)
(* sequences that only set them are left out (SGR stands for them and for  *)
(* every other sequence the code ignores).  row and col are unsigned, so a *)
(* cursor moved left of column 0 is far to the right: Far stands for it.   *)
(***************************************************************************)
EXTENDS Integers, Sequences

CONSTANTS rows, cols, TabStop,
          Digit,     \* digits typed in sequences
          MaxParam   \* bound on a sequence's parameters

ASSUME ScreenAssumption ==
  /\ rows \in Nat \ {0} /\ cols \in Nat \ {0} /\ TabStop \in Nat \ {0}
  /\ MaxParam \in Nat \ {0} /\ Digit \subseteq 0..MaxParam

Far == 2^30
Cell == 0 .. rows * cols - 1
Plain == {"x", "NUL", "nl", "cr", "tab", "bs", "ff", "ESC"}
Final == {"H", "J", "K", "A", "B", "C", "D", "L", "SGR"}
Single == {"P", "K", "H", "D", "M", "G", "c", "("}

VARIABLES cells,       \* cell -> something is written there
          row, col,
          vstate,      \* video_state
          parx, pary,  \* the static x, y of process_multichar
          stray,       \* history: a sequence took the cursor off the screen
          moved        \* history: the cursor was moved back, or up

conVars == <<cells, row, col, vstate, parx, pary, stray, moved>>

ConInit ==
  /\ cells = [i \in Cell |-> FALSE]
  /\ row = 0 /\ col = 0 /\ vstate = 0 /\ parx = 0 /\ pary = 0
  /\ stray = FALSE /\ moved = FALSE

At(s) == s.row * cols + s.col
Screen == [cells |-> cells, row |-> row, col |-> col]

(* What is written off the screen is not looked at any more. *)
Write(s, i, v) == IF i \in Cell THEN [s EXCEPT !.cells[i] = v] ELSE s

(* A slip: the last line is left as it was. *)
scroll_up_dirty(s) ==
  [s EXCEPT !.cells = [i \in Cell |-> IF i < (rows - 1) * cols THEN s.cells[i + cols] ELSE s.cells[i]]]

scroll_up(s) ==
  [s EXCEPT !.cells = [i \in Cell |-> IF i < (rows - 1) * cols THEN s.cells[i + cols] ELSE FALSE]]

fill_to_line_end(s) ==
  [s EXCEPT !.cells = [i \in Cell |-> IF i \in At(s) .. (s.row + 1) * cols - 1 THEN FALSE ELSE s.cells[i]]]

new_line(s) ==
  IF s.row + 1 = rows THEN scroll_up(s) ELSE [s EXCEPT !.row = @ + 1]

cls(s) == [cells |-> [i \in Cell |-> FALSE], row |-> 0, col |-> 0]

__put_char(s, v) ==
  LET w == Write(s, At(s), v)
  IN  IF s.col < cols - 1 THEN [w EXCEPT !.col = @ + 1]
      ELSE new_line([w EXCEPT !.col = 0])

tab(s) ==
  LET at[n \in 0..TabStop] == IF n = 0 THEN s ELSE __put_char(at[n - 1], FALSE)
  IN  at[TabStop - (s.col % TabStop)]

put_char(s, c) ==
  CASE c = "x"   -> __put_char(s, TRUE)
    [] c = "nl"  -> new_line([fill_to_line_end(s) EXCEPT !.col = 0])
    [] c = "cr"  -> [s EXCEPT !.col = 0]
    [] c = "tab" -> tab(s)
    [] c = "bs"  -> IF s.col = 0 THEN s
                   ELSE [__put_char([s EXCEPT !.col = @ - 1], FALSE) EXCEPT !.col = @ - 1]
    [] c = "ff"  -> cls(s)
    [] OTHER    -> s

(* gotoxy takes its arguments from 0, process_sequence bounds them from 1. *)
gotoxy(s, r, c) == IF r >= rows \/ c >= cols THEN s ELSE [s EXCEPT !.row = r, !.col = c]
Bound(n, most) == IF n < 1 THEN 1 ELSE IF n > most THEN most ELSE n

lines(s, x) ==
  LET at[n \in 0..MaxParam] == IF n = 0 THEN s ELSE new_line(at[n - 1])
  IN  at[x]

process_sequence(s, x, y, ch) ==
  CASE ch = "H" -> gotoxy(s, Bound(x, rows), Bound(y, cols))
    [] ch = "J" -> IF x = 1 THEN s ELSE cls(s)
    [] ch = "K" -> fill_to_line_end(s)
    [] ch = "A" -> [s EXCEPT !.row = IF x < @ THEN @ - x ELSE 0]
    [] ch = "B" -> [s EXCEPT !.row = IF @ + x < rows THEN @ + x ELSE IF @ < rows THEN rows ELSE @]
    [] ch = "C" -> [s EXCEPT !.col = IF @ + 2 * x > cols THEN cols - 1 ELSE @ + 2 * x]
    [] ch = "D" -> [s EXCEPT !.col = IF @ < 2 * x THEN Far ELSE @ - 2 * x]
    [] ch = "L" -> lines(s, x)
    [] OTHER    -> s

(* ESC and one character. *)
Escape(s, ch) ==
  CASE ch = "P" -> [s EXCEPT !.row = IF @ + 1 >= rows THEN rows - 1 ELSE @ + 1]
    [] ch = "K" -> [s EXCEPT !.col = IF @ > 1 THEN @ - 2 ELSE IF @ = 1 THEN Far ELSE @]
    [] ch = "H" -> [s EXCEPT !.row = IF @ > 0 THEN @ - 1 ELSE @]
    [] ch = "D" -> scroll_up(s)
    [] ch \in {"G", "c"} -> [s EXCEPT !.row = 0, !.col = 0]
    [] OTHER    -> s

(* seq: by a sequence; back: the cursor goes back to cells it has written. *)
Shown(s, seq, back) ==
  /\ cells' = s.cells /\ row' = s.row /\ col' = s.col
  /\ stray' = (stray \/ (seq /\ (s.row >= rows \/ s.col >= cols)))
  /\ moved' = ((moved \/ back) /\ \E i \in Cell : s.cells[i])

ShowSeq(s) == Shown(s, TRUE, s # Screen)

(* write_string, one character at a time; x keeps its value over ESC [ ?.  *)
process_multichar ==
  \/ /\ vstate = 1
     /\ \/ vstate' = 2 /\ UNCHANGED <<cells, row, col, stray, moved>>       \* [
        \/ \E ch \in Single : vstate' = (IF ch = "(" THEN 5 ELSE 0) /\ ShowSeq(Escape(Screen, ch))
     /\ UNCHANGED <<parx, pary>>
  \/ /\ vstate = 2
     /\ \/ vstate' = 3 /\ parx' \in Digit \cup {parx} /\ UNCHANGED <<cells, row, col, stray, moved>>
        \/ /\ \E ch \in Final : ShowSeq(process_sequence(Screen, IF ch = "SGR" THEN 0 ELSE 1, 1, ch))
           /\ vstate' = 0 /\ UNCHANGED parx
     /\ UNCHANGED pary
  \/ /\ vstate = 3
     /\ \/ \E d \in Digit : parx * 10 + d <= MaxParam /\ parx' = parx * 10 + d
           /\ UNCHANGED <<vstate, pary, cells, row, col, stray, moved>>
        \/ vstate' = 4 /\ pary' = 0 /\ UNCHANGED <<parx, cells, row, col, stray, moved>>
        \/ /\ \E ch \in Final : ShowSeq(process_sequence(Screen, parx, 1, ch))
           /\ vstate' = 0 /\ UNCHANGED <<parx, pary>>
  \/ /\ vstate = 4
     /\ \/ \E d \in Digit : pary * 10 + d <= MaxParam /\ pary' = pary * 10 + d
           /\ UNCHANGED <<vstate, parx, cells, row, col, stray, moved>>
        \/ /\ \E ch \in Final : ShowSeq(process_sequence(Screen, parx, pary, ch))
           /\ vstate' = 0 /\ UNCHANGED <<parx, pary>>
  \/ /\ vstate = 5 /\ vstate' = 0 /\ UNCHANGED <<cells, row, col, parx, pary, stray, moved>>

write_string ==
  /\ vstate = 0
  /\ \E c \in Plain : Shown(put_char(Screen, c), FALSE, c = "cr") /\ vstate' = IF c = "ESC" THEN 1 ELSE 0
  /\ UNCHANGED <<parx, pary>>

ConNext == write_string \/ process_multichar
ConSpec == ConInit /\ [][ConNext]_conVars
ConSound == ~stray
-----------------------------------------------------------------------------
(* Text stays on the screen: the cursor leaves it by no character and by   *)
(* no sequence but those that move it down, right or left past an edge     *)
(* (ESC[B, ESC[C, ESC[D, ESC K), and as long as it was not moved back, all *)
(* cells behind it are blank, through tabs, line ends, wrapping and        *)
(* scrolling (put_char, new_line, scroll_up in console.c).                 *)
ScreenHolds ==
  ~stray =>
    /\ row < rows /\ col < cols
    /\ ~moved => \A i \in Cell : i >= row * cols + col => ~cells[i]

(***************************************************************************)
(* The terminal of a kernel without graphics (Kernel/console.c,            *)
(* keyboard.c): the keyboard interrupt puts characters into t_canq or      *)
(* erases the last one (tty_input), a thread takes a line out (tty_read).  *)
(* The interrupt can come between any two steps of the thread; c_cc is     *)
(* changed by a load and a store.  Characters are told apart as far as the *)
(* code does: "nl" ends a line, "bs" erases, "hi" is negative as an s8, so *)
(* tty_getc seems to find nothing; "intr" is VINTR, VQUIT or VSUSP.        *)
(***************************************************************************)
CONSTANTS CbufSize,  \* TTY_CBUF_SIZE, 512
          EraseWrap, \* where tty_erc takes an index of 0 to, 255
          ReadSize,  \* nbytes of tty_read
          MaxKeys    \* bound on the keys typed

ASSUME CbufAssumption == CbufSize \in Nat \ {0}

Key == {"a", "nl", "bs", "hi", "intr"}
Ring == 0 .. CbufSize - 1

VARIABLES cbuf, chead, ctail, cc,  \* t_canq
          rdpc, ccreg, char,       \* the reader's place, what it loaded, its c
          taken,                    \* what this tty_read has copied
          asleep,                  \* the reader is on t_wq, off the run queue
          typed,                   \* reference: typed, not erased, not taken
          keys, torn, missed       \* history

ttyVars == <<cbuf, chead, ctail, cc, rdpc, ccreg, char, taken, asleep, typed, keys, torn, missed>>

TtyInit ==
  /\ cbuf = [i \in Ring |-> "0"] /\ chead = 0 /\ ctail = 0 /\ cc = 0
  /\ rdpc = "test" /\ ccreg = 0 /\ char = "" /\ taken = <<>> /\ asleep = FALSE
  /\ typed = <<>> /\ keys = 0 /\ torn = FALSE /\ missed = FALSE

NextIn(i) == (i + 1) % CbufSize

(* The interrupt.  A full ring drops the character, a line end too. *)
tty_putc(c) ==
  IF NextIn(ctail) = chead
  THEN UNCHANGED <<cbuf, ctail, cc, typed>>
  ELSE /\ cbuf' = [cbuf EXCEPT ![ctail] = c] /\ ctail' = NextIn(ctail) /\ cc' = cc + 1
       /\ typed' = Append(typed, c)

(* A slip: the count is kept. *)
tty_erc_kept ==
  IF cc > 0
  THEN LET t == IF ctail = 0 THEN EraseWrap ELSE ctail
       IN  /\ cbuf' = [cbuf EXCEPT ![t] = "0"] /\ ctail' = t - 1 /\ UNCHANGED cc
           /\ typed' = SubSeq(typed, 1, Len(typed) - 1)
  ELSE UNCHANGED <<cbuf, ctail, cc, typed>>

tty_erc ==
  IF cc > 0
  THEN LET t == IF ctail = 0 THEN EraseWrap ELSE ctail
       IN  /\ cbuf' = [cbuf EXCEPT ![t] = "0"] /\ ctail' = t - 1 /\ cc' = cc - 1
           /\ typed' = SubSeq(typed, 1, Len(typed) - 1)
  ELSE UNCHANGED <<cbuf, ctail, cc, typed>>

(* torn: an erase at index 0, or between the two steps of a tty_getc.      *)
(* missed: the line ends after tty_read saw an empty queue, before it is   *)
(* on t_wq.                                                                *)
tty_input(c) ==
  /\ keys < MaxKeys /\ keys' = keys + 1
  /\ IF c = "bs" THEN tty_erc
     ELSE IF c = "intr" THEN UNCHANGED <<cbuf, ctail, cc, typed>>
     ELSE tty_putc(c)
  /\ torn' = (torn \/ (rdpc = "dec" /\ cc' # cc) \/ (c = "bs" /\ cc > 0 /\ ctail = 0))
  /\ asleep' = (asleep /\ c # "nl")
  /\ missed' = (missed \/ (c = "nl" /\ rdpc = "wait"))
  /\ UNCHANGED <<chead, rdpc, ccreg, char, taken>>
-----------------------------------------------------------------------------
(* tty_read. *)
Reads(from, to) ==
  /\ ~asleep /\ rdpc = from /\ rdpc' = to
  /\ UNCHANGED <<cbuf, ctail, keys>>

ReadTest ==
  /\ Reads("test", IF cc <= 0 THEN "wait" ELSE "get") /\ taken' = <<>>
  /\ UNCHANGED <<chead, cc, ccreg, char, asleep, typed, torn, missed>>

io_wait ==
  /\ Reads("wait", "get") /\ asleep' = TRUE
  /\ UNCHANGED <<chead, cc, ccreg, char, taken, typed, torn, missed>>

(* tty_getc: c_chead moves, then c_cc is loaded and stored. *)
tty_getc ==
  \/ /\ chead # ctail /\ cc > 0
     /\ Reads("get", "dec")
     /\ char' = cbuf[chead] /\ chead' = NextIn(chead) /\ ccreg' = cc
     /\ typed' = IF typed = <<>> THEN typed ELSE Tail(typed)
     /\ UNCHANGED <<cc, taken, asleep, torn, missed>>
  \/ /\ ~(chead # ctail /\ cc > 0)
     /\ Reads("get", "test") /\ missed' = FALSE
     /\ UNCHANGED <<chead, cc, ccreg, char, taken, asleep, typed, torn>>

ReadChar ==
  LET n == Append(taken, char)
      ends == char = "hi" \/ char = "nl" \/ Len(n) = ReadSize
  IN  /\ Reads("dec", IF ends THEN "test" ELSE "get")
      /\ cc' = ccreg - 1
      /\ taken' = IF char = "hi" THEN taken ELSE n
      /\ missed' = (missed /\ ~ends)
      /\ UNCHANGED <<chead, ccreg, char, asleep, typed, torn>>

TtyNext ==
  \/ \E c \in Key : tty_input(c)
  \/ ReadTest \/ io_wait \/ tty_getc \/ ReadChar

TtySpec == TtyInit /\ [][TtyNext]_ttyVars
TtySound == ~torn
-----------------------------------------------------------------------------
(* What a reader gets is what was typed and not erased: the characters     *)
(* between c_chead and c_ctail are those, in order, and c_cc counts them   *)
(* (tty_putc, tty_erc, tty_getc), unless an erase met index 0 or the       *)
(* interrupt came inside a tty_getc.  And the reader sleeps on a line that *)
(* is there only if its end came between the test of c_cc and io_wait      *)
(* (tty_read).                                                             *)
LineKept ==
  ~torn =>
    /\ (ctail + CbufSize - chead) % CbufSize = Len(typed)
    /\ \A i \in 1..Len(typed) : cbuf[(chead + i - 1) % CbufSize] = typed[i]
    /\ cc = IF rdpc = "dec" THEN Len(typed) + 1 ELSE Len(typed)
    /\ asleep /\ (\E i \in 1..Len(typed) : typed[i] = "nl") => missed
=============================================================================
