-------------------------------- MODULE Libc --------------------------------
(***************************************************************************)
(* lib/string.c on a memory of bytes.  The string instructions are         *)
(* modelled as the processor runs them: units of one, two or four bytes,   *)
(* each read whole and then written, upwards or, after std, downwards.     *)
(* From 32 bytes on memcpy and memset first align the destination.  A call *)
(* is made on fresh memory, whose byte at address a is Fill(a) unless a    *)
(* string was put there.                                                   *)
(***************************************************************************)
EXTENDS Integers, Sequences, SequencesExt, FiniteSetsExt

CONSTANTS MemLen,    \* bytes of memory
          Counts,    \* counts given to memcpy, memset and memmove
          Text       \* strings, as sequences of characters (positive)

VARIABLE call        \* the last call: name, arguments, results

strVars == <<call>>

Src == 1
Dst == MemLen \div 2
Fill(a) == 200 + a

(* The byte at address a is element a + 1. *)
Blank == [k \in 1 .. MemLen |-> Fill(k - 1)]
Store(m, a, s) == SubSeq(m, 1, a) \o s \o SubSeq(m, a + Len(s) + 1, MemLen)
PutString(m, a, s) == Store(m, a, s \o <<0>>)

Bytes(m, a, n) == SubSeq(m, a + 1, a + n)
ByteAt(m, a) == m[a + 1]

-----------------------------------------------------------------------------
(* rep movs: k units of w bytes; dir is -1 after std. *)
Movs(st, k, w, dir) ==
  LET step == dir * w
      at[i \in 0 .. k] ==
        IF i = 0 THEN st.m
        ELSE LET m == at[i - 1] IN Store(m, st.d + (i - 1) * step, Bytes(m, st.s + (i - 1) * step, w))
  IN  [m |-> at[k], d |-> st.d + k * step, s |-> st.s + k * step]

(* What the switch on n & 3 adds to n / 4 double words. *)
MovsTail_short(st, n, dir) == Movs(Movs(st, n \div 4, 4, dir), (n % 4) \div 2, 2, dir)

MovsTail(st, n, dir) ==
  Movs(Movs(Movs(st, n \div 4, 4, dir), (n % 4) \div 2, 2, dir), n % 2, 1, dir)

(* The bytes up to the next multiple of 4. *)
Lead(a) == (4 - (a % 4)) % 4

memcpy(m, d, s, n) ==
  LET st == [m |-> m, d |-> d, s |-> s]
  IN  IF n < 32 THEN Movs(st, n, 1, 1).m
      ELSE MovsTail(Movs(st, Lead(d), 1, 1), n - Lead(d), 1).m

(* rep stos of a byte repeated in the register. *)
Stos(st, k, w, c) == [m |-> Store(st.m, st.d, [i \in 1 .. k * w |-> c]), d |-> st.d + k * w]

memset(m, a, c, n) ==
  LET st == [m |-> m, d |-> a]
      r == n - Lead(a)
  IN  IF n < 32 THEN Stos(st, n, 1, c).m
      ELSE Stos(Stos(Stos(Stos(st, Lead(a), 1, c), r \div 4, 4, c), (r % 4) \div 2, 2, c), r % 2, 1, c).m

(* Downwards the copy starts one byte too high, at the bytes behind both   *)
(* ranges.                                                                 *)
memmove(m, d, s, n) ==
  IF n = 0 THEN m
  ELSE IF d > s /\ d <= s + n
  THEN LET st == [m |-> m, d |-> d + n, s |-> s + n]
       IN  IF n < Lead(d + n) THEN m     \* the count wraps around: nothing is claimed
           ELSE MovsTail(Movs(st, Lead(d + n), 1, -1), n - Lead(d + n), -1).m
  ELSE memcpy(m, d, s, n)

-----------------------------------------------------------------------------
strlen(m, a) == CHOOSE k \in 0 .. MemLen : ByteAt(m, a + k) = 0 /\ \A j \in 0 .. k - 1 : ByteAt(m, a + j) # 0

strnlen(m, a, max) == IF strlen(m, a) <= max THEN strlen(m, a) ELSE max

strcpy(m, d, s) == Store(m, d, Bytes(m, s, strlen(m, s) + 1))

strcat(m, d, s) == strcpy(m, d + strlen(m, d), s)

(* Another zero follows, even when the source's own was copied. *)
strncat(m, d, s, n) ==
  LET k == strlen(m, s)
  IN  IF n = 0 THEN m
      ELSE Store(m, d + strlen(m, d), IF k < n THEN Bytes(m, s, k + 1) \o <<0>> ELSE Bytes(m, s, n) \o <<0>>)

(* The rest of n bytes becomes zero; if the string has n or more, one more *)
(* byte does.                                                              *)
strncpy(m, d, s, n) ==
  LET k == strlen(m, s)
  IN  IF n = 0 THEN m
      ELSE Store(m, d, IF k < n THEN Bytes(m, s, k) \o [i \in 1 .. n - k |-> 0]
                                ELSE Bytes(m, s, n) \o <<0>>)

(* Both stop at the first difference, at a zero, and strncmp after n       *)
(* bytes; both return the difference of the bytes they stop at.            *)
Stop(m, a, b, n) ==
  CHOOSE k \in 0 .. n :
    /\ k = n \/ ByteAt(m, a + k) = 0 \/ ByteAt(m, b + k) = 0 \/ ByteAt(m, a + k) # ByteAt(m, b + k)
    /\ \A j \in 0 .. k - 1 : ByteAt(m, a + j) # 0 /\ ByteAt(m, a + j) = ByteAt(m, b + j)

strcmp(m, a, b) == LET k == Stop(m, a, b, MemLen) IN ByteAt(m, a + k) - ByteAt(m, b + k)

strncmp(m, a, b, n) == LET k == Stop(m, a, b, n) IN ByteAt(m, a + k) - ByteAt(m, b + k)

memcmp(m, a, b, n) ==
  IF Bytes(m, a, n) = Bytes(m, b, n) THEN 0
  ELSE LET k == CHOOSE k \in 0 .. n - 1 : /\ ByteAt(m, a + k) # ByteAt(m, b + k)
                                          /\ \A j \in 0 .. k - 1 : ByteAt(m, a + j) = ByteAt(m, b + j)
       IN  ByteAt(m, a + k) - ByteAt(m, b + k)

strchr(m, a, c) ==
  LET at == {k \in 0 .. strlen(m, a) : ByteAt(m, a + k) = c}
  IN  IF at = {} THEN -1 ELSE a + (CHOOSE k \in at : \A j \in at : k <= j)

(* len bytes, from the zero at the end downwards: never the first one. *)
strrchr(m, a, c) ==
  LET at == {k \in 1 .. strlen(m, a) : ByteAt(m, a + k) = c}
  IN  IF at = {} THEN -1 ELSE a + (CHOOSE k \in at : \A j \in at : k >= j)

(* kmalloc and memcpy of the string with its zero. *)
strdup(m, a) == memcpy(m, Dst, a, strlen(m, a) + 1)
-----------------------------------------------------------------------------
NoCall == [fn |-> "none"]
StrInit == call = NoCall

Copies(fn, d, s, n) ==
  /\ call = NoCall
  /\ call' = [fn |-> fn, d |-> d, s |-> s, n |-> n,
              after |-> CASE fn = "memcpy" -> memcpy(Blank, d, s, n)
                          [] fn = "memmove" -> memmove(Blank, d, s, n)
                          [] fn = "memset" -> memset(Blank, d, 7, n)]

Strings(x, y, n) ==
  LET m == PutString(PutString(Blank, Src, x), Dst, y)
  IN  /\ call = NoCall
      /\ call' = [fn |-> "str", x |-> x, y |-> y, n |-> n,
                  cpy |-> strcpy(m, Dst, Src), ncpy |-> strncpy(m, Dst, Src, n),
                  cat |-> strcat(m, Dst, Src), ncat |-> strncat(m, Dst, Src, n),
                  dup |-> strdup(m, Src), len |-> strnlen(m, Src, n),
                  cmp |-> strcmp(m, Src, Dst), ncmp |-> strncmp(m, Src, Dst, n),
                  mcmp |-> memcmp(m, Src, Dst, n),
                  chr |-> strchr(m, Src, 1), rchr |-> strrchr(m, Src, 1)]

Return == call # NoCall /\ call' = NoCall

StrNext ==
  \/ \E fn \in {"memcpy", "memset"}, k \in 0 .. 3, s \in Src .. Src + 1, n \in Counts :
       Copies(fn, Dst + k, s, n)
  \/ \E d \in Src + 3 .. Src + 6, s \in {Src, Src + 2, Src + 8, Src + 9}, n \in Counts :
       Copies("memmove", d, s, n)
  \/ \E x, y \in Text, n \in 0 .. 3 : Strings(x, y, n)
  \/ Return

StrSpec == StrInit /\ [][StrNext]_strVars
-----------------------------------------------------------------------------
IsString(m, a, s) == Bytes(m, a, Len(s) + 1) = s \o <<0>>
Begin(s, n) == SubSeq(s, 1, IF Len(s) < n THEN Len(s) ELSE n)

(* The copies leave exactly the bytes asked for, whatever the alignment    *)
(* and the count, and touch no others, except memmove to a higher address  *)
(* it overlaps or touches; the string functions build the string their     *)
(* names promise, the comparisons are zero only for strings that agree,    *)
(* and the searches find the first or last place, except that strrchr      *)
(* misses the first character.                                             *)
CopiesRight ==
  CASE call.fn \in {"memcpy", "memset", "memmove"} ->
         \/ call.fn = "memmove" /\ call.d > call.s /\ call.d <= call.s + call.n
         \/ call.after = Store(Blank, call.d, IF call.fn = "memset" THEN [k \in 1 .. call.n |-> 7]
                                           ELSE Bytes(Blank, call.s, call.n))
    [] call.fn = "str" ->
         LET x == call.x
             y == call.y
             ones == {k \in 1 .. Len(x) : x[k] = 1}
         IN  /\ IsString(call.cpy, Dst, x) /\ IsString(call.dup, Dst, x) /\ IsString(call.cat, Dst, y \o x)
             /\ call.n > 0 => /\ IsString(call.ncpy, Dst, Begin(x, call.n))
                              /\ IsString(call.ncat, Dst, y \o Begin(x, call.n))
             /\ call.len = Len(Begin(x, call.n))
             /\ (call.cmp = 0) = (x = y)
             /\ call.ncmp = 0 => Begin(x, call.n) = Begin(y, call.n)
             /\ (call.mcmp = 0) = (Begin(x \o <<0>> \o [k \in 1 .. 3 |-> Fill(Src + Len(x) + k)], call.n)
                                   = Begin(y \o <<0>> \o [k \in 1 .. 3 |-> Fill(Dst + Len(y) + k)], call.n))
             /\ call.chr = IF ones = {} THEN -1 ELSE Src + (CHOOSE k \in ones : \A j \in ones : k <= j) - 1
             /\ ones \ {1} # {} => call.rchr = Src + (CHOOSE k \in ones : \A j \in ones : k >= j) - 1
    [] OTHER -> TRUE

(***************************************************************************)
(* vsnprintf and number (lib/vsprintf.c), which format everything the      *)
(* kernel prints.  A directive is a record; one step formats one           *)
(* directive.  Characters are strings of length one.  width is a variable  *)
(* of vsnprintf that no directive resets.                                  *)
(***************************************************************************)
CONSTANTS Directive,      \* directives of the formats
          BufSize,        \* sizes given to snprintf; sprintf gives a huge one
          MaxDirectives   \* directives in a format

(* [conv, flags, qual, width, prec, arg]: a width of 0 and a precision of  *)
(* -1 are not written; the argument of "s" is a sequence of characters.    *)

VARIABLES fmt,      \* directives formatted so far
          out,      \* characters written
          width,    \* vsnprintf's width
          len,      \* what it counts down from the size
          wrong     \* history: a directive it does not format like C

fmtVars == <<fmt, out, width, len, wrong>>

FmtInit ==
  /\ fmt = <<>> /\ out = <<>> /\ width = 0 /\ wrong = FALSE
  /\ len \in BufSize

digits == <<"0", "1", "2", "3", "4", "5", "6", "7", "8", "9", "A", "B", "C", "D", "E", "F">>
small == <<"0", "1", "2", "3", "4", "5", "6", "7", "8", "9", "a", "b", "c", "d", "e", "f">>

Repeat(c, n) == [k \in 1 .. (IF n > 0 THEN n ELSE 0) |-> c]
Larger(a, b) == IF a > b THEN a ELSE b

(* The digits of num, last first; the loop runs at least once. *)
Digits(num, base, low) ==
  LET d(n) == (IF low THEN small ELSE digits)[(n % base) + 1]
      at[k \in 0 .. 32] == IF k = 0 THEN <<num \div base, <<d(num)>>>>
                           ELSE LET p == at[k - 1]
                                IN  IF p[1] = 0 THEN p ELSE <<p[1] \div base, <<d(p[1])>> \o p[2]>>
  IN  at[32][2]

Sign(num, flags) ==
  IF num < 0 THEN <<"-">> ELSE IF "+" \in flags THEN <<"+">> ELSE IF " " \in flags THEN <<" ">> ELSE <<>>

Prefix(flags, base, low) ==
  IF "#" \notin flags \/ base = 10 THEN <<>>
  ELSE IF base = 8 THEN <<"0">> ELSE <<"0", IF low THEN "x" ELSE "X">>

(* What is left of the width. *)
Field_sign(ds, sign, pfx, w, prec) == w - Len(pfx) - Larger(prec, Len(ds))

Field(ds, sign, pfx, w, prec) == w - Len(sign) - Len(pfx) - Larger(prec, Len(ds))

(* The characters of a number.  With "-" and room left, the last loop of   *)
(* number never ends: Hangs.                                               *)
Hangs(ds, sign, pfx, flags, w, prec) == "-" \in flags /\ Field(ds, sign, pfx, w, prec) >= 0

number(ds, sign, pfx, flags, w, prec) ==
  LET room == Field(ds, sign, pfx, w, prec)
      zero == "0" \in flags /\ "-" \notin flags
  IN  (IF zero \/ "-" \in flags THEN <<>> ELSE Repeat(" ", room))
      \o sign \o pfx
      \o (IF zero THEN Repeat("0", room) ELSE <<>>)
      \o Repeat("0", prec - Len(ds)) \o ds

Base(conv) == IF conv \in {"x", "X", "p"} THEN 16 ELSE IF conv = "o" THEN 8 ELSE 10

(* va_arg and the casts of handle_sign and handle_nosign. *)
Cast(v, qual, signed) ==
  LET bits == IF qual = "h" THEN 65536 ELSE IF qual = "hh" THEN 256 ELSE 0
      u == IF bits = 0 THEN v ELSE v % bits
  IN  IF signed /\ bits > 0 /\ u >= bits \div 2 THEN u - bits ELSE u

Num(d) == Cast(d.arg, d.qual, d.conv = "d")
Abs(n) == IF n < 0 THEN -n ELSE n
NumParts(d) ==
  LET n == Num(d)
      low == d.conv = "x"
  IN  [ds |-> Digits(Abs(n), Base(d.conv), low),
       sign |-> IF d.conv = "d" THEN Sign(n, d.flags) ELSE <<>>,
       pfx |-> Prefix(d.flags, Base(d.conv), low)]

Numeric == {"d", "u", "x", "X", "o", "p"}
Shown(d) == IF d.prec >= 0 THEN SubSeq(d.arg, 1, IF d.prec < Len(d.arg) THEN d.prec ELSE Len(d.arg)) ELSE d.arg

(* What a directive writes when the width is w. *)
Written(d, w) ==
  LET pad(n) == Repeat(" ", w - n)
  IN  CASE d.conv \in Numeric ->
             LET p == NumParts(d) IN number(p.ds, p.sign, p.pfx, d.flags, w, d.prec)
        [] d.conv = "s" -> IF "-" \in d.flags THEN Shown(d) \o pad(Len(Shown(d))) ELSE pad(Len(Shown(d))) \o Shown(d)
        [] d.conv = "c" -> IF "-" \in d.flags THEN <<d.arg>> \o pad(1) ELSE pad(1) \o <<d.arg>>
        [] d.conv = "*" -> <<>>
        [] OTHER -> <<"%">>

(* The width after a directive: numbers get it by value, "c" and "s" count *)
(* it down, "*" sets it and is the end of its directive.                   *)
WidthAfter(d, w) ==
  CASE d.conv \in Numeric \cup {"%"} -> w
    [] d.conv = "s" -> IF w > Len(Shown(d)) THEN -1 ELSE w - Len(Shown(d))
    [] d.conv = "*" -> d.arg
    [] OTHER -> IF "-" \in d.flags THEN IF w > 1 THEN 0 ELSE w - 1
                ELSE IF w > 1 THEN -1 ELSE w - 2

(* Padding and numbers do not count, and a string may count below zero,    *)
(* which is a huge size again.                                             *)
Charge(d) == IF d.conv = "s" THEN Len(Shown(d)) ELSE IF d.conv \in {"c", "%", "*"} THEN 1 ELSE 0

Stuck(d, w) ==
  d.conv \in Numeric /\ LET p == NumParts(d) IN Hangs(p.ds, p.sign, p.pfx, d.flags, w, d.prec)

(* printf as C defines it. *)
Standard(d) ==
  IF d.conv \notin Numeric THEN Written(d, d.width)
  ELSE LET n == Num(d)
           ds == IF n = 0 /\ d.prec = 0 THEN <<>> ELSE Digits(Abs(n), Base(d.conv), d.conv = "x")
           sign == IF d.conv = "d" THEN Sign(n, d.flags) ELSE <<>>
           hex == IF "#" \in d.flags /\ n # 0 /\ d.conv \in {"x", "X"} THEN <<"0", d.conv>> ELSE <<>>
           body == Repeat("0", d.prec - Len(ds)) \o ds
           num == IF "#" \in d.flags /\ d.conv = "o" /\ (body = <<>> \/ body[1] # "0") THEN <<"0">> \o body ELSE body
           room == d.width - Len(sign \o hex \o num)
       IN  IF "-" \in d.flags THEN sign \o hex \o num \o Repeat(" ", room)
           ELSE IF "0" \in d.flags /\ d.prec < 0 THEN sign \o hex \o Repeat("0", room) \o num
           ELSE Repeat(" ", room) \o sign \o hex \o num

(* What number and the unreset width do differently from C: "*", a width   *)
(* left over from before, "0" beside a precision, "#" on zero or beside a       *)
(* precision in octal, and a zero with precision 0.                        *)
Differs(d, w) ==
  \/ d.conv = "*" \/ (d.conv # "%" /\ d.width = 0 /\ w > 0)
  \/ d.conv \in Numeric /\ \/ "0" \in d.flags /\ d.prec >= 0
                           \/ "#" \in d.flags /\ Num(d) = 0
                           \/ "#" \in d.flags /\ d.conv = "o" /\ d.prec >= 0
                           \/ Num(d) = 0 /\ d.prec = 0

vsnprintf(d) ==
  LET w == IF d.width > 0 THEN d.width ELSE width
  IN  /\ Len(fmt) < MaxDirectives /\ ~wrong
      /\ len # 0 /\ ~Stuck(d, w)
      /\ fmt' = Append(fmt, d)
      /\ out' = out \o Written(d, w)
      /\ width' = WidthAfter(d, w)
      /\ len' = len - Charge(d)
      /\ wrong' = Differs(d, w)

FmtNext == \E d \in Directive : vsnprintf(d)

FmtSpec == FmtInit /\ [][FmtNext]_fmtVars
-----------------------------------------------------------------------------
(* As long as no directive is one that vsnprintf is known to format        *)
(* differently, what it has written is what C's printf writes for the      *)
(* directives so far.                                                      *)
Printed ==
  ~wrong => out = FlattenSeq([k \in 1 .. Len(fmt) |-> Standard(fmt[k])])

(***************************************************************************)
(* in_cksum (Kernel/netinet/check_sum.c), the Internet checksum of the     *)
(* first len bytes of a chain of buffers.  The buffers may be empty, have  *)
(* an odd length and begin at an odd address; the sum is taken in 16 bit   *)
(* little endian words.  A chain is a sequence of lengths and alignments,  *)
(* over a pattern of bytes.                                                *)
(***************************************************************************)
CONSTANTS MLens,      \* lengths of buffers
          MaxChain,   \* buffers in a chain
          Pattern     \* byte patterns: <<a, b>> is (a * i + b) % 256

VARIABLES chain,      \* [len, odd] of every buffer
          pat,
          asked       \* bytes to sum

ckVars == <<chain, pat, asked>>

CkInit == chain = <<>> /\ pat \in Pattern /\ asked = 0

Byte(i) == (pat[1] * i + pat[2]) % 256
WordAt(i) == Byte(i) + 256 * Byte(i + 1)

(* REDUCE, with ADDCARRY. *)
Reduce_once(sum) == (sum % 65536) + (sum \div 65536)

Reduce(sum) ==
  LET s == (sum % 65536) + (sum \div 65536)
  IN  IF s > 65535 THEN s - 65535 ELSE s

SumWords(i, n) ==
  LET sum[k \in 0 .. n] == IF k = 0 THEN 0 ELSE sum[k - 1] + WordAt(i + 2 * (k - 1))
  IN  sum[n]

(* Up to here the state is: the sum, the place in the bytes, mlen, the     *)
(* bytes still to sum, and the byte in s_util.c[0].                        *)
Begins(st, m) ==
  IF st.mlen = -1
  THEN [st EXCEPT !.sum = @ + st.c + 256 * Byte(st.i), !.i = @ + 1, !.mlen = m.len - 1, !.len = @ - 1]
  ELSE [st EXCEPT !.mlen = m.len]

Limit(st) ==
  LET n == IF st.len < st.mlen THEN st.len ELSE st.mlen
  IN  [st EXCEPT !.mlen = n, !.len = @ - n]

(* An odd address: the first byte is kept, and the sum goes on swapped. *)
Odd(st, odd) ==
  IF odd /\ st.mlen > 0
  THEN [st EXCEPT !.sum = Reduce(@) * 256, !.c = Byte(st.i), !.i = @ + 1, !.mlen = @ - 1]
  ELSE st

(* The unrolled loops take 32 and 8 bytes at a time, then come words, then *)
(* a last byte.                                                            *)
Buffer(st0, m) ==
  LET st1 == Limit(Begins(st0, m))
      odd == m.odd # (st0.mlen = -1)
      swapped == odd /\ st1.mlen > 0
      st2 == Odd(st1, odd)
      n == st2.mlen
      unrolled == st2.sum + SumWords(st2.i, (n \div 8) * 4)
      sum == Reduce(unrolled) + SumWords(st2.i + (n \div 8) * 8, (n % 8) \div 2)
      last == st2.i + (n - (n % 2))
      one == n % 2 = 1
  IN  IF n % 8 = 0 /\ ~swapped THEN [st2 EXCEPT !.sum = unrolled, !.mlen = 0, !.i = @ + n]
      ELSE IF swapped
      THEN IF one THEN [st2 EXCEPT !.sum = Reduce(sum) * 256 + st2.c + 256 * Byte(last), !.mlen = 0, !.i = @ + n]
           ELSE [st2 EXCEPT !.sum = Reduce(sum) * 256, !.mlen = -1, !.i = @ + n]
      ELSE [st2 EXCEPT !.sum = sum, !.mlen = IF one THEN -1 ELSE -2, !.i = @ + n,
                       !.c = IF one THEN Byte(last) ELSE @]

in_cksum(ch, bytes) ==
  LET at[k \in 0 .. Len(ch)] ==
        IF k = 0 THEN [sum |-> 0, i |-> 0, mlen |-> 0, len |-> bytes, c |-> 0]
        ELSE LET p == at[k - 1] IN IF p.len = 0 \/ ch[k].len = 0 THEN p ELSE Buffer(p, ch[k])
      end == at[Len(ch)]
  IN  65535 - Reduce(IF end.mlen = -1 THEN end.sum + end.c ELSE end.sum)

Total(ch) == FoldFunction(LAMBDA m, n : m.len + n, 0, ch)

(* m_cat and the like build any chain; the callers ask for all or less. *)
Link(m) ==
  /\ Len(chain) < MaxChain
  /\ chain' = Append(chain, m)
  /\ \E k \in 0 .. 2 : asked' = Total(chain') - k /\ asked' >= 0
  /\ UNCHANGED pat

CkNext == \E n \in MLens, odd \in BOOLEAN : Link([len |-> n, odd |-> odd])

CkSpec == CkInit /\ [][CkNext]_ckVars
-----------------------------------------------------------------------------
(* The checksum is the one's complement of the one's complement sum of the *)
(* bytes taken in pairs, a missing last one being zero, however they are   *)
(* spread over buffers and addresses.                                      *)
SumRight ==
  LET words == SumWords(0, asked \div 2) + (IF asked % 2 = 1 THEN Byte(asked - 1) ELSE 0)
  IN  in_cksum(chain, asked) = 65535 - (IF words = 0 THEN 0 ELSE ((words - 1) % 65535) + 1)
=============================================================================
