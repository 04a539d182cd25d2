---------------------------- MODULE SchedProofs ----------------------------
(***************************************************************************)
(* Proofs about the scheduler for any set of threads, wait queues and      *)
(* priorities.  The list operators are first characterised by which thread *)
(* is linked on which list afterwards; the actions then follow from that.  *)
(* Then the timers, ksleep, kwait_pid and kexit: they use the scheduler    *)
(* only through its primitives, so what is shown of it holds under them    *)
(* too, and from it what a sleeping thread may rely on.                    *)
(***************************************************************************)
EXTENDS Timers, SequenceTheorems, TLAPS

NoRepeat(s) == \A j, k \in 1..Len(s) : s[j] = s[k] => j = k

Occurs(s, x) == \E k \in 1..Len(s) : s[k] = x

(* The lists a step may start from: well typed, and one link per thread. *)
Sound(l) ==
  /\ l \in [Head_ -> Seq(Thread)]
  /\ \A h \in Head_ : NoRepeat(l[h])
  /\ \A h, g \in Head_ : \A t \in Thread :
       In(l, h, t) /\ In(l, g, t) => h = g

(* Taking an element out of a sequence without repetition. *)
LEMMA WithoutFacts ==
  ASSUME NEW S, NEW s \in Seq(S), NoRepeat(s), NEW e
  PROVE  /\ Without(s, e) \in Seq(S)
         /\ NoRepeat(Without(s, e))
         /\ \A x \in S : Occurs(Without(s, e), x) <=> Occurs(s, x) /\ x # e
<1>1. CASE ~Occurs(s, e)
  BY <1>1, Zenon DEF Without, Occurs
<1>2. CASE Occurs(s, e)
  <2> DEFINE k == CHOOSE k \in 1..Len(s) : s[k] = e
             w == SubSeq(s, 1, k - 1) \o SubSeq(s, k + 1, Len(s))
  <2>1. k \in 1..Len(s) /\ s[k] = e
    BY <1>2, Zenon DEF Occurs
  <2>2. Without(s, e) = w
    BY <1>2, Zenon DEF Without, Occurs
  <2> HIDE DEF k
  <2>3. /\ SubSeq(s, 1, k - 1) \in Seq(S)
        /\ Len(SubSeq(s, 1, k - 1)) = k - 1
        /\ \A i \in 1..(k - 1) : SubSeq(s, 1, k - 1)[i] = s[i]
    BY <2>1
  <2>4. /\ SubSeq(s, k + 1, Len(s)) \in Seq(S)
        /\ Len(SubSeq(s, k + 1, Len(s))) = Len(s) - k
        /\ \A i \in 1..(Len(s) - k) : SubSeq(s, k + 1, Len(s))[i] = s[k + i]
    BY <2>1
  <2>5. /\ w \in Seq(S)
        /\ Len(w) = Len(s) - 1
        /\ \A i \in 1..(Len(s) - 1) : w[i] = IF i < k THEN s[i] ELSE s[i + 1]
    <3> DEFINE p == SubSeq(s, 1, k - 1)
               q == SubSeq(s, k + 1, Len(s))
    <3> HIDE DEF p, q
    <3>1. /\ p \in Seq(S) /\ Len(p) = k - 1
          /\ \A i \in 1..(k - 1) : p[i] = s[i]
      BY <2>3, Zenon DEF p
    <3>2. /\ q \in Seq(S) /\ Len(q) = Len(s) - k
          /\ \A i \in 1..(Len(s) - k) : q[i] = s[k + i]
      BY <2>4, Zenon DEF q
    <3>3. /\ p \o q \in Seq(S)
          /\ Len(p \o q) = Len(p) + Len(q)
          /\ \A i \in 1..(Len(p) + Len(q)) :
               (p \o q)[i] = IF i <= Len(p) THEN p[i] ELSE q[i - Len(p)]
      BY <3>1, <3>2, ConcatProperties, Zenon
    <3>4. Len(p \o q) = Len(s) - 1
      BY <2>1, <3>1, <3>2, <3>3
    <3>5. ASSUME NEW i \in 1..(Len(s) - 1)
          PROVE  (p \o q)[i] = IF i < k THEN s[i] ELSE s[i + 1]
      <4>1. CASE i < k
        BY <2>1, <3>1, <3>2, <3>3, <4>1
      <4>2. CASE ~(i < k)
        <5>1. /\ i - (k - 1) \in 1..(Len(s) - k)
              /\ k + (i - (k - 1)) = i + 1
          BY <2>1, <4>2
        <5>2. (p \o q)[i] = q[i - (k - 1)]
          BY <2>1, <3>1, <3>2, <3>3, <4>2, SMTT(40)
        <5> QED
          BY <3>2, <4>2, <5>1, <5>2, Zenon
      <4> QED
        BY <4>1, <4>2, Zenon
    <3> QED
      BY <3>3, <3>4, <3>5, Zenon DEF p, q
  <2> HIDE DEF w
  <2>6. NoRepeat(w)
    <3> SUFFICES ASSUME NEW i \in 1..Len(w), NEW j \in 1..Len(w), w[i] = w[j]
                 PROVE  i = j
      BY Zenon DEF NoRepeat
    <3> DEFINE at(n) == IF n < k THEN n ELSE n + 1
    <3>0. Len(s) \in Nat /\ Len(w) = Len(s) - 1
      BY <2>5
    <3>1. /\ at(i) \in 1..Len(s) /\ w[i] = s[at(i)]
          /\ at(j) \in 1..Len(s) /\ w[j] = s[at(j)]
      <4>1. ASSUME NEW n \in 1..Len(w)
            PROVE  at(n) \in 1..Len(s) /\ w[n] = s[at(n)]
        <5>1. k \in 1..Len(s) /\ n \in 1..(Len(s) - 1)
          BY <2>1, <3>0, Zenon
        <5>2. at(n) \in 1..Len(s)
          BY <3>0, <5>1
        <5>3. w[n] = IF n < k THEN s[n] ELSE s[n + 1]
          BY <2>5, <5>1, Zenon
        <5>4. CASE n < k
          BY <5>2, <5>3, <5>4, Zenon
        <5>5. CASE ~(n < k)
          BY <5>2, <5>3, <5>5, Zenon
        <5> QED
          BY <5>4, <5>5, Zenon
      <4> QED
        BY <4>1, Zenon
    <3>2. at(i) = at(j)
      BY <3>1, Zenon DEF NoRepeat
    <3> QED
      BY <2>1, <2>5, <3>2
  <2>7. ASSUME NEW x \in S
        PROVE  Occurs(w, x) <=> Occurs(s, x) /\ x # e
    <3>1. ASSUME Occurs(w, x) PROVE Occurs(s, x) /\ x # e
      <4>0. Len(s) \in Nat /\ Len(w) = Len(s) - 1
        BY <2>5
      <4>1. PICK i \in 1..Len(w) : w[i] = x
        BY <3>1, Zenon DEF Occurs
      <4>2. PICK j \in 1..Len(s) : j # k /\ w[i] = s[j]
        BY <2>1, <2>5, <4>0
      <4> QED
        BY <2>1, <4>1, <4>2, Zenon DEF Occurs, NoRepeat
    <3>2. ASSUME Occurs(s, x), x # e PROVE Occurs(w, x)
      <4>1. PICK i \in 1..Len(s) : s[i] = x
        BY <3>2, Zenon DEF Occurs
      <4>2. i # k
        BY <2>1, <3>2, <4>1, Zenon
      <4>3. CASE i < k
        BY <2>1, <2>5, <4>1, <4>3 DEF Occurs
      <4>4. CASE i > k
        <5>1. i - 1 \in 1..Len(w) /\ w[i - 1] = s[i]
          BY <2>1, <2>5, <4>1, <4>4
        <5> QED
          BY <4>1, <5>1, Zenon DEF Occurs
      <4> QED
        BY <2>1, <4>1, <4>2, <4>3, <4>4
    <3> QED
      BY <3>1, <3>2, Zenon
  <2> QED
    BY <2>2, <2>5, <2>6, <2>7, Zenon
<1> QED
  BY <1>1, <1>2, Zenon

(* list_del: the thread is on no list, every other one stays where it was. *)
LEMMA DelFacts ==
  ASSUME NEW l, Sound(l), NEW t \in Thread
  PROVE  /\ Sound(list_del(l, t))
         /\ \A h \in Head_, x \in Thread :
              In(list_del(l, t), h, x) <=> In(l, h, x) /\ x # t
<1> DEFINE d == list_del(l, t)
<1>0. DOMAIN l = Head_ /\ \A h \in Head_ : l[h] \in Seq(Thread) /\ NoRepeat(l[h])
  BY Zenon DEF Sound
<1>1. CASE ~\E h \in Head_ : In(l, h, t)
  BY <1>0, <1>1, Zenon DEF list_del
<1>2. CASE \E h \in Head_ : In(l, h, t)
  <2> DEFINE g == CHOOSE h \in Head_ : In(l, h, t)
  <2>1. g \in Head_ /\ In(l, g, t)
    BY <1>2, Zenon
  <2>2. d = [l EXCEPT ![g] = Without(@, t)]
    BY <1>0, <1>2, Zenon DEF list_del
  <2> HIDE DEF g, d
  <2>3. \A h \in Head_ \ {g} : ~In(l, h, t)
    BY <2>1, Zenon DEF Sound
  <2>4. /\ Without(l[g], t) \in Seq(Thread)
        /\ NoRepeat(Without(l[g], t))
        /\ \A x \in Thread :
             Occurs(Without(l[g], t), x) <=> Occurs(l[g], x) /\ x # t
    BY <1>0, <2>1, WithoutFacts, Zenon
  <2>5. /\ d \in [Head_ -> Seq(Thread)]
        /\ d[g] = Without(l[g], t)
        /\ \A h \in Head_ \ {g} : d[h] = l[h]
    BY <2>1, <2>2, <2>4, Zenon DEF Sound
  <2>6. ASSUME NEW h \in Head_, NEW x \in Thread
        PROVE  In(d, h, x) <=> In(l, h, x) /\ x # t
    <3>1. CASE h = g
      <4>1. In(d, g, x) <=> Occurs(d[g], x)
        BY Zenon DEF In, Occurs
      <4>2. In(l, g, x) <=> Occurs(l[g], x)
        BY Zenon DEF In, Occurs
      <4> QED
        BY <2>4, <2>5, <3>1, <4>1, <4>2, Zenon
    <3>2. CASE h # g
      <4>1. In(d, h, x) <=> In(l, h, x)
        BY <2>5, <3>2, Zenon DEF In
      <4> QED
        BY <2>3, <3>2, <4>1, Zenon
    <3> QED
      BY <3>1, <3>2, Zenon
  <2>7. \A h \in Head_ : NoRepeat(d[h])
    BY <1>0, <2>4, <2>5, Zenon
  <2>8. \A h, f \in Head_ : \A x \in Thread :
          In(d, h, x) /\ In(d, f, x) => h = f
    BY <2>6, Zenon DEF Sound
  <2> QED
    BY <2>5, <2>6, <2>7, <2>8, Zenon DEF Sound, d
<1> QED
  BY <1>1, <1>2, Zenon

(* list_add of a thread that is on no list. *)
LEMMA AddFacts ==
  ASSUME NEW l, Sound(l), NEW h \in Head_, NEW t \in Thread,
         \A g \in Head_ : ~In(l, g, t)
  PROVE  /\ Sound(list_add(l, h, t))
         /\ \A g \in Head_, x \in Thread :
              In(list_add(l, h, t), g, x) <=> In(l, g, x) \/ (g = h /\ x = t)
<1> DEFINE a == list_add(l, h, t)
           s == l[h]
           w == <<t>> \o s
<1>1. s \in Seq(Thread) /\ NoRepeat(s) /\ ~Occurs(s, t)
  BY Zenon DEF Sound, In, Occurs
<1>2. /\ w \in Seq(Thread)
      /\ Len(w) = Len(s) + 1
      /\ w[1] = t
      /\ \A i \in 1..Len(s) : w[i + 1] = s[i]
      /\ \A i \in 2..Len(w) : w[i] = s[i - 1]
  BY <1>1
<1>3. a = [l EXCEPT ![h] = w]
  BY Zenon DEF list_add
<1> HIDE DEF a, s, w
<1>4. NoRepeat(w)
  <2> SUFFICES ASSUME NEW i \in 1..Len(w), NEW j \in 1..Len(w), w[i] = w[j]
               PROVE  i = j
    BY Zenon DEF NoRepeat
  <2>1. CASE i = 1 \/ j = 1
    BY <1>1, <1>2, <2>1, SMTT(40) DEF Occurs
  <2>2. CASE i # 1 /\ j # 1
    <3>1. /\ i - 1 \in 1..Len(s) /\ w[i] = s[i - 1]
          /\ j - 1 \in 1..Len(s) /\ w[j] = s[j - 1]
      BY <1>1, <1>2, <2>2
    <3>2. i - 1 = j - 1
      BY <1>1, <3>1, Zenon DEF NoRepeat
    <3> QED
      BY <1>1, <1>2, <3>2
  <2> QED
    BY <2>1, <2>2, Zenon
<1>5. ASSUME NEW x \in Thread
      PROVE  Occurs(w, x) <=> Occurs(s, x) \/ x = t
  <2>1. ASSUME Occurs(w, x) PROVE Occurs(s, x) \/ x = t
    BY <1>1, <1>2, <2>1 DEF Occurs
  <2>2. ASSUME Occurs(s, x) PROVE Occurs(w, x)
    <3>1. PICK i \in 1..Len(s) : s[i] = x
      BY <2>2, Zenon DEF Occurs
    <3>2. i + 1 \in 1..Len(w) /\ w[i + 1] = x
      BY <1>1, <1>2, <3>1
    <3> QED
      BY <3>2, Zenon DEF Occurs
  <2>3. Occurs(w, t)
    BY <1>1, <1>2 DEF Occurs
  <2> QED
    BY <2>1, <2>2, <2>3, Zenon
<1>6. /\ a \in [Head_ -> Seq(Thread)]
      /\ a[h] = w
      /\ \A g \in Head_ \ {h} : a[g] = l[g]
  BY <1>2, <1>3, Zenon DEF Sound
<1>7. ASSUME NEW g \in Head_, NEW x \in Thread
      PROVE  In(a, g, x) <=> In(l, g, x) \/ (g = h /\ x = t)
  <2>1. CASE g = h
    BY <1>5, <1>6, <2>1, Zenon DEF In, Occurs, s
  <2>2. CASE g # h
    BY <1>6, <2>2, Zenon DEF In
  <2> QED
    BY <2>1, <2>2, Zenon
<1>8. \A g \in Head_ : NoRepeat(a[g])
  BY <1>4, <1>6, Zenon DEF Sound
<1>9. \A g, f \in Head_ : \A x \in Thread : In(a, g, x) /\ In(a, f, x) => g = f
  BY <1>7 DEF Sound
<1> QED
  BY <1>6, <1>7, <1>8, <1>9, Zenon DEF Sound, a

(* list_add_tail of a thread that is on no list. *)
LEMMA AddTailFacts ==
  ASSUME NEW l, Sound(l), NEW h \in Head_, NEW t \in Thread,
         \A g \in Head_ : ~In(l, g, t)
  PROVE  /\ Sound(list_add_tail(l, h, t))
         /\ \A g \in Head_, x \in Thread :
              In(list_add_tail(l, h, t), g, x)
                <=> In(l, g, x) \/ (g = h /\ x = t)
<1> DEFINE a == list_add_tail(l, h, t)
           s == l[h]
           w == Append(s, t)
<1>1. s \in Seq(Thread) /\ NoRepeat(s) /\ ~Occurs(s, t)
  BY DEF Sound, In, Occurs
<1>2. /\ w \in Seq(Thread)
      /\ Len(w) = Len(s) + 1
      /\ w[Len(s) + 1] = t
      /\ \A i \in 1..Len(s) : w[i] = s[i]
  BY <1>1
<1>3. a = [l EXCEPT ![h] = w]
  BY Zenon DEF list_add_tail
<1> HIDE DEF a, s, w
<1>4. NoRepeat(w)
  <2> SUFFICES ASSUME NEW i \in 1..Len(w), NEW j \in 1..Len(w), w[i] = w[j]
               PROVE  i = j
    BY DEF NoRepeat
  <2>1. CASE i = Len(s) + 1 \/ j = Len(s) + 1
    BY <1>1, <1>2, <2>1 DEF Occurs
  <2>2. CASE i # Len(s) + 1 /\ j # Len(s) + 1
    BY <1>1, <1>2, <2>2 DEF NoRepeat
  <2> QED
    BY <2>1, <2>2, Zenon
<1>5. ASSUME NEW x \in Thread
      PROVE  Occurs(w, x) <=> Occurs(s, x) \/ x = t
  BY <1>1, <1>2 DEF Occurs
<1>6. /\ a \in [Head_ -> Seq(Thread)]
      /\ a[h] = w
      /\ \A g \in Head_ \ {h} : a[g] = l[g]
  BY <1>2, <1>3, Zenon DEF Sound
<1>7. ASSUME NEW g \in Head_, NEW x \in Thread
      PROVE  In(a, g, x) <=> In(l, g, x) \/ (g = h /\ x = t)
  <2>1. CASE g = h
    BY <1>5, <1>6, <2>1 DEF In, Occurs, s
  <2>2. CASE g # h
    BY <1>6, <2>2 DEF In
  <2> QED
    BY <2>1, <2>2
<1>8. \A g \in Head_ : NoRepeat(a[g])
  BY <1>4, <1>6, Zenon DEF Sound
<1>9. \A g, f \in Head_ : \A x \in Thread : In(a, g, x) /\ In(a, f, x) => g = f
  BY <1>7 DEF Sound
<1> QED
  BY <1>6, <1>7, <1>8, <1>9 DEF Sound, a

(* A move ends on the new list, wherever the thread was before. *)
LEMMA MoveHeadFacts ==
  ASSUME NEW l, Sound(l), NEW h \in Head_, NEW t \in Thread
  PROVE  /\ Sound(list_move_head(l, h, t))
         /\ \A g \in Head_, x \in Thread :
              In(list_move_head(l, h, t), g, x)
                <=> (In(l, g, x) /\ x # t) \/ (g = h /\ x = t)
<1> DEFINE d == list_del(l, t)
<1>1. /\ Sound(d)
      /\ \A g \in Head_, x \in Thread : In(d, g, x) <=> In(l, g, x) /\ x # t
  BY DelFacts, Zenon
<1> HIDE DEF d
<1>2. /\ Sound(list_add(d, h, t))
      /\ \A g \in Head_, x \in Thread :
           In(list_add(d, h, t), g, x) <=> In(d, g, x) \/ (g = h /\ x = t)
  BY <1>1, AddFacts, ZenonT(60)
<1> QED
  BY <1>1, <1>2, Zenon DEF list_move_head, d

(* The same for list_move_tail. *)
LEMMA MoveTailFacts ==
  ASSUME NEW l, Sound(l), NEW h \in Head_, NEW t \in Thread
  PROVE  /\ Sound(list_move_tail(l, h, t))
         /\ \A g \in Head_, x \in Thread :
              In(list_move_tail(l, h, t), g, x)
                <=> (In(l, g, x) /\ x # t) \/ (g = h /\ x = t)
<1> DEFINE d == list_del(l, t)
<1>1. /\ Sound(d)
      /\ \A g \in Head_, x \in Thread : In(d, g, x) <=> In(l, g, x) /\ x # t
  BY DelFacts
<1> HIDE DEF d
<1>2. /\ Sound(list_add_tail(d, h, t))
      /\ \A g \in Head_, x \in Thread :
           In(list_add_tail(d, h, t), g, x) <=> In(d, g, x) \/ (g = h /\ x = t)
  BY <1>1, AddTailFacts
<1> QED
  BY <1>1, <1>2 DEF list_move_tail, d

(* Heads are told apart by their kind and index, and 0 is a priority. *)
LEMMA HeadFacts ==
  /\ \A i \in Prio : run_queue(i) \in Head_ /\ wait_queue(i) \in Head_
  /\ \A w \in WaitQueue : waiter(w) \in Head_
  /\ \A i, j \in Prio : run_queue(i) = run_queue(j) => i = j
  /\ \A i, j \in Prio : wait_queue(i) = wait_queue(j) => i = j
  /\ \A i, j \in Prio : run_queue(i) # wait_queue(j)
  /\ \A i \in Prio, w \in WaitQueue : run_queue(i) # waiter(w)
  /\ \A i \in Prio, w \in WaitQueue : wait_queue(i) # waiter(w)
  /\ 0 \in Prio
  BY SchedAssumption
  DEF Head_, RunHead, WaitHead, run_queue, wait_queue, waiter, Prio

(* Rotating a sequence by one keeps its elements and repeats none. *)
LEMMA RotateFacts ==
  ASSUME NEW s \in Seq(Thread), NoRepeat(s), Len(s) > 0,
         NEW w \in Seq(Thread), Len(w) = Len(s), w[Len(s)] = s[1],
         \A k \in 1..(Len(s) - 1) : w[k] = s[k + 1]
  PROVE  NoRepeat(w) /\ \A x \in Thread : Occurs(w, x) <=> Occurs(s, x)
<1> DEFINE n == Len(s)
           at(k) == IF k = n THEN 1 ELSE k + 1
<1>0. n \in Nat /\ n > 0 /\ n = Len(w)
  OBVIOUS
<1>1. ASSUME NEW k \in 1..n
      PROVE  at(k) \in 1..n /\ w[k] = s[at(k)]
  <2>1. CASE k = n
    BY <1>0, <2>1
  <2>2. CASE k # n
    <3>1. k \in 1..(n - 1) /\ k + 1 \in 1..n
      BY <1>0, <2>2
    <3> QED
      BY <2>2, <3>1, Zenon
  <2> QED
    BY <2>1, <2>2, Zenon
<1>2. NoRepeat(w)
  <2> SUFFICES ASSUME NEW j \in 1..n, NEW k \in 1..n, w[j] = w[k]
               PROVE  j = k
    BY <1>0, Zenon DEF NoRepeat
  <2>1. at(j) = at(k)
    BY <1>1 DEF NoRepeat
  <2> QED
    BY <1>0, <2>1
<1>3. ASSUME NEW x \in Thread, Occurs(w, x)
      PROVE  Occurs(s, x)
  BY <1>0, <1>1, <1>3, Zenon DEF Occurs
<1>4. ASSUME NEW x \in Thread, Occurs(s, x)
      PROVE  Occurs(w, x)
  <2>1. PICK k \in 1..n : s[k] = x
    BY <1>4, Zenon DEF Occurs
  <2>2. CASE k = 1
    BY <1>0, <2>1, <2>2 DEF Occurs
  <2>3. CASE k # 1
    <3>1. k - 1 \in 1..(n - 1) /\ (k - 1) + 1 = k
      BY <1>0, <2>3
    <3>2. w[k - 1] = x
      BY <2>1, <3>1, Zenon
    <3> QED
      BY <1>0, <3>1, <3>2 DEF Occurs
  <2> QED
    BY <2>2, <2>3, Zenon
<1> QED
  BY <1>2, <1>3, <1>4, Zenon

(* schedule() links and unlinks nobody: it rotates one run queue and gives *)
(* the CPU to the thread that was first there.                             *)
LEMMA ScheduleFacts ==
  ASSUME NEW l, Sound(l), schedule(l), In(l, run_queue(0), Sysidle)
  PROVE  /\ Sound(list')
         /\ \A h \in Head_, x \in Thread : In(list', h, x) <=> In(l, h, x)
         /\ need_reschedule' = FALSE
         /\ current' \in Thread
         /\ \E i \in Prio : /\ In(list', run_queue(i), current')
                            /\ \A j \in Prio : j > i => list'[run_queue(j)] = <<>>
<1>1. PICK i \in Prio :
        /\ \A j \in Prio : j > i => l[run_queue(j)] = <<>>
        /\ \/ /\ l[run_queue(i)] # <<>>
              /\ current' = Head(l[run_queue(i)])
              /\ list' = [l EXCEPT ![run_queue(i)] =
                            Append(Tail(l[run_queue(i)]), Head(l[run_queue(i)]))]
           \/ /\ l[run_queue(i)] = <<>>
              /\ i = 0
              /\ current' = NoThread
              /\ list' = l
  BY Zenon DEF schedule
<1> DEFINE h == run_queue(i)
           s == l[h]
           w == Append(Tail(s), Head(s))
<1>2. h \in Head_ /\ s \in Seq(Thread) /\ NoRepeat(s)
  BY HeadFacts, Zenon DEF Sound
<1>3. s # <<>> /\ current' = Head(s) /\ list' = [l EXCEPT ![h] = w]
  BY <1>1, <1>2 DEF In
<1>4. /\ Len(s) \in Nat /\ Len(s) > 0
      /\ Tail(s) \in Seq(Thread) /\ Len(Tail(s)) = Len(s) - 1
      /\ \A k \in 1..(Len(s) - 1) : Tail(s)[k] = s[k + 1]
      /\ Head(s) = s[1] /\ Head(s) \in Thread
  BY <1>2, <1>3
<1>5. /\ w \in Seq(Thread)
      /\ Len(w) = Len(s)
      /\ w[Len(s)] = s[1]
      /\ \A k \in 1..(Len(s) - 1) : w[k] = s[k + 1]
  BY <1>4
<1>6. \A j \in Prio : j > i => run_queue(j) # h
  BY HeadFacts DEF Prio
<1> HIDE DEF h, s, w
<1>7. NoRepeat(w) /\ \A x \in Thread : Occurs(w, x) <=> Occurs(s, x)
  BY <1>2, <1>4, <1>5, RotateFacts, SMTT(40)
<1>9. /\ list' \in [Head_ -> Seq(Thread)]
      /\ list'[h] = w
      /\ \A g \in Head_ \ {h} : list'[g] = l[g]
  BY <1>2, <1>3, <1>5, Zenon DEF Sound
<1>10. ASSUME NEW g \in Head_, NEW x \in Thread
       PROVE  In(list', g, x) <=> In(l, g, x)
  <2>1. CASE g = h
    BY <1>7, <1>9, <2>1, Zenon DEF In, Occurs, s
  <2>2. CASE g # h
    BY <1>9, <2>2, Zenon DEF In
  <2> QED
    BY <2>1, <2>2, Zenon
<1>11. Sound(list')
  BY <1>7, <1>9, <1>10, Zenon DEF Sound
<1>12. In(list', h, current') /\ current' \in Thread
  BY <1>3, <1>4, <1>5, <1>9 DEF In
<1>13. \A j \in Prio : j > i => list'[run_queue(j)] = <<>>
  BY <1>1, <1>6, <1>9, HeadFacts, Zenon
<1> QED
  BY <1>10, <1>11, <1>12, <1>13, Zenon DEF schedule, h
-----------------------------------------------------------------------------
(* What a primitive owes schedule(): lists l as good as SchedInv demands. *)
Good(l) ==
  /\ Sound(l)
  /\ In(l, run_queue(0), Sysidle)
  /\ \A h \in Head_ : \A t \in Thread : In(l, h, t) => t \in threads
  /\ \A i \in Prio : \A t \in Thread :
       In(l, run_queue(i), t) \/ In(l, wait_queue(i), t) => priority[t] = i

(* t may be put on the list with head h. *)
Fits(h, t) ==
  /\ \A i \in Prio :
       h = run_queue(i) \/ h = wait_queue(i) => priority[t] = i
  /\ t = Sysidle => h = run_queue(0)

LEMMA InvIsGood == SchedInv => Good(list)
  BY Zenon DEF SchedInv, Good, Sound, SchedTypeOK, OnOneList, IdleReady,
         OnOwnPriority, NoRepeat

(* Moving a thread to a list it fits keeps the lists good. *)
LEMMA MoveIsGood ==
  ASSUME NEW l, Good(l), NEW h \in Head_, NEW t \in threads, t \in Thread,
         Fits(h, t)
  PROVE  Good(list_move_head(l, h, t)) /\ Good(list_move_tail(l, h, t))
<1>1. ASSUME NEW a, Sound(a),
             \A g \in Head_, x \in Thread :
               In(a, g, x) <=> (In(l, g, x) /\ x # t) \/ (g = h /\ x = t)
      PROVE  Good(a)
  <2>1. In(a, run_queue(0), Sysidle)
    BY <1>1, HeadFacts, SchedAssumption, Zenon DEF Good, Fits
  <2>2. \A g \in Head_ : \A x \in Thread : In(a, g, x) => x \in threads
    BY <1>1, Zenon DEF Good
  <2>3. \A i \in Prio : \A x \in Thread :
          In(a, run_queue(i), x) \/ In(a, wait_queue(i), x) => priority[x] = i
    BY <1>1, HeadFacts DEF Good, Fits
  <2> QED
    BY <1>1, <2>1, <2>2, <2>3, Zenon DEF Good
<1>2. Sound(l)
  BY Zenon DEF Good
<1>3. Good(list_move_head(l, h, t))
  BY <1>1, <1>2, MoveHeadFacts, Zenon
<1>4. Good(list_move_tail(l, h, t))
  BY <1>1, <1>2, MoveTailFacts
<1> QED
  BY <1>3, <1>4, Zenon

(* Taking a thread other than sysidle off its list keeps the lists good. *)
LEMMA DelIsGood ==
  ASSUME NEW l, Good(l), NEW t \in Thread, t # Sysidle
  PROVE  Good(list_del(l, t))
<1>1. /\ Sound(list_del(l, t))
      /\ \A h \in Head_, x \in Thread :
           In(list_del(l, t), h, x) <=> In(l, h, x) /\ x # t
  BY DelFacts, Zenon DEF Good
<1>2. In(list_del(l, t), run_queue(0), Sysidle)
  BY <1>1, HeadFacts, SchedAssumption, Zenon DEF Good
<1>3. \A h \in Head_ : \A x \in Thread : In(list_del(l, t), h, x) => x \in threads
  BY <1>1, Zenon DEF Good
<1>4. \A i \in Prio : \A x \in Thread :
        In(list_del(l, t), run_queue(i), x) \/ In(list_del(l, t), wait_queue(i), x)
          => priority[x] = i
  BY <1>1, HeadFacts, Zenon DEF Good
<1> QED
  BY <1>1, <1>2, <1>3, <1>4, Zenon DEF Good

(* A step that leaves good lists, and schedules or not, keeps SchedInv. *)
LEMMA GoodIsInv ==
  ASSUME SchedInv, NEW l, Good(l), UNCHANGED <<priority, threads>>,
         \/ schedule(l)
         \/ list' = l /\ UNCHANGED <<current, need_reschedule>>
  PROVE  SchedInv'
<1>1. /\ Sound(list')
      /\ \A h \in Head_, x \in Thread : In(list', h, x) <=> In(l, h, x)
      /\ current' \in Thread
      /\ need_reschedule' \in BOOLEAN
  BY ScheduleFacts, Zenon DEF Good, SchedInv, SchedTypeOK, IdleReady
<1>2. SchedTypeOK'
  BY <1>1, Zenon DEF Sound, SchedInv, SchedTypeOK
<1>3. OnOneList'
  BY <1>1, Zenon DEF Sound, OnOneList, Good, NoRepeat
<1>4. IdleReady'
  BY <1>1, HeadFacts, SchedAssumption, Zenon DEF IdleReady, Good
<1>5. OnOwnPriority'
  BY <1>1, HeadFacts, Zenon DEF OnOwnPriority, Good
<1>6. (current \in threads)'
  BY <1>1, <1>3, ScheduleFacts, HeadFacts, Zenon
  DEF Good, SchedInv, OnOneList
<1> QED
  BY <1>2, <1>3, <1>4, <1>5, <1>6, Zenon DEF SchedInv

(* kcreate_thread links a thread that was on no list. *)
LEMMA CreateKeepsInv ==
  ASSUME SchedInv, NEW t \in Thread, NEW p \in Prio, NEW st,
         KcreateThread(t, p, st)
  PROVE  SchedInv'
<1> DEFINE h == IF st \in {"SUSPEND", "STOPED", "SLEEPING"}
                THEN wait_queue(p) ELSE run_queue(p)
<1>1. h \in Head_ /\ (h = wait_queue(p) \/ h = run_queue(p))
  BY HeadFacts, Zenon
<1>2. \A g \in Head_ : ~In(list, g, t)
  BY Zenon DEF KcreateThread, SchedInv, OnOneList
<1>3. t # Sysidle
  BY HeadFacts, SchedAssumption, Zenon
  DEF KcreateThread, SchedInv, OnOneList, IdleReady
<1>4. list' = list_add_tail(list, h, t)
  BY Zenon DEF KcreateThread
<1> HIDE DEF h
<1>5. Sound(list)
  BY InvIsGood, Zenon DEF Good
<1>6. /\ Sound(list')
      /\ \A g \in Head_, x \in Thread :
           In(list', g, x) <=> In(list, g, x) \/ (g = h /\ x = t)
  BY <1>1, <1>2, <1>4, <1>5, AddTailFacts, ZenonT(60)
<1>7. /\ priority' \in [Thread -> Prio] /\ priority'[t] = p
      /\ \A x \in Thread \ {t} : priority'[x] = priority[x]
      /\ threads' = threads \cup {t}
      /\ UNCHANGED <<current, need_reschedule>>
  BY Zenon DEF KcreateThread, SchedInv, SchedTypeOK
<1>8. SchedTypeOK'
  BY <1>6, <1>7, Zenon DEF Sound, SchedInv, SchedTypeOK
<1>9. OnOneList'
  BY <1>6, <1>7, Zenon DEF Sound, NoRepeat, OnOneList, SchedInv
<1>10. IdleReady'
  BY <1>6, <1>7, HeadFacts, SchedAssumption, Zenon DEF IdleReady, SchedInv
<1>11. ASSUME NEW i \in Prio, NEW x \in Thread,
              In(list', run_queue(i), x) \/ In(list', wait_queue(i), x)
       PROVE  priority'[x] = i
  <2>1. CASE x = t
    BY <1>1, <1>2, <1>6, <1>7, <1>11, <2>1, HeadFacts
  <2>2. CASE x # t
    BY <1>6, <1>7, <1>11, <2>2, HeadFacts, Zenon DEF SchedInv, OnOwnPriority
  <2> QED
    BY <2>1, <2>2, Zenon
<1>12. OnOwnPriority'
  BY <1>11, Zenon DEF OnOwnPriority
<1> QED
  BY <1>7, <1>8, <1>9, <1>10, <1>12, Zenon DEF SchedInv

(* No primitive, in whatever order threads and interrupts call them, links *)
(* a thread twice, takes sysidle off run_queue[0] or queues a thread under *)
(* somebody else's priority.                                               *)
THEOREM SchedInvariant == SchedSpec => []SchedInv
<1>1. SchedInit => SchedInv
  <2> SUFFICES ASSUME SchedInit PROVE SchedInv
    BY Zenon
  <2>1. /\ \A h \in Head_ : list[h] \in Seq(Thread)
        /\ list[run_queue(0)] = <<Sysidle>>
        /\ \A h \in Head_ : h # run_queue(0) => list[h] = <<>>
        /\ run_queue(0) \in Head_
    BY HeadFacts, SchedAssumption DEF SchedInit
  <2>2. \A h \in Head_, t \in Thread :
          In(list, h, t) <=> h = run_queue(0) /\ t = Sysidle
    <3> SUFFICES ASSUME NEW h \in Head_, NEW t \in Thread
                 PROVE  In(list, h, t) <=> h = run_queue(0) /\ t = Sysidle
      BY Zenon
    <3>1. CASE h = run_queue(0)
      <4>0. Len(<<Sysidle>>) = 1 /\ <<Sysidle>>[1] = Sysidle
        BY Zenon
      <4>1. Len(list[h]) = 1 /\ list[h][1] = Sysidle
        BY <2>1, <3>1, <4>0, Zenon
      <4> QED
        BY <3>1, <4>1 DEF In
    <3>2. CASE h # run_queue(0)
      BY <2>1, <3>2 DEF In
    <3> QED
      BY <3>1, <3>2, Zenon
  <2>3. SchedTypeOK
    BY <2>1, SchedAssumption, HeadFacts, Zenon DEF SchedInit, SchedTypeOK
  <2>4. OnOneList
    BY <2>1, <2>2 DEF OnOneList, SchedInit
  <2>5. IdleReady
    BY <2>1, <2>2, SchedAssumption, Zenon DEF IdleReady, SchedInit
  <2>6. OnOwnPriority
    BY <2>2, HeadFacts, SchedAssumption, Zenon DEF OnOwnPriority, SchedInit
  <2> QED
    BY <2>3, <2>4, <2>5, <2>6, Zenon DEF SchedInv, SchedInit
<1>2. SchedInv /\ [SchedNext]_schedVars => SchedInv'
  <2> SUFFICES ASSUME SchedInv, [SchedNext]_schedVars
               PROVE  SchedInv'
    BY Zenon
  <2>0. /\ Good(list)
        /\ current \in threads
        /\ threads \subseteq Thread
        /\ priority \in [Thread -> Prio]
        /\ priority[Sysidle] = 0
    BY InvIsGood, HeadFacts, SchedAssumption, Zenon
    DEF SchedInv, SchedTypeOK, OnOwnPriority, IdleReady
  <2>1. CASE Schedule
    BY <2>0, <2>1, GoodIsInv, Zenon DEF Schedule
  <2>2. CASE IrqExit
    BY <2>0, <2>2, GoodIsInv, Zenon DEF IrqExit
  <2>3. CASE SetNeedReschedule
    BY <2>3, Zenon DEF SetNeedReschedule, SchedInv, SchedTypeOK, OnOneList,
                IdleReady, OnOwnPriority
  <2>4. ASSUME NEW t \in Thread, PtWakeup(t)
        PROVE  SchedInv'
    <3>1. Fits(run_queue(priority[t]), t) /\ run_queue(priority[t]) \in Head_
      BY <2>0, HeadFacts, Zenon DEF Fits
    <3>2. Good(pt_wakeup(list, t))
      BY <2>0, <2>4, <3>1, MoveIsGood, Zenon DEF PtWakeup, pt_wakeup
    <3> QED
      BY <2>4, <3>2, GoodIsInv, Zenon DEF PtWakeup
  <2>5. ASSUME NEW w \in WaitQueue, PtWaitOn(w)
        PROVE  SchedInv'
    <3>1. Good(list_move_tail(list, waiter(w), current))
      BY <2>0, <2>5, HeadFacts, MoveIsGood, Zenon DEF PtWaitOn, MayBlock, Fits
    <3> QED
      BY <2>5, <3>1, GoodIsInv, Zenon DEF PtWaitOn
  <2>6. CASE KsleepYield
    <3>1. /\ Fits(run_queue(priority[current]), current)
          /\ run_queue(priority[current]) \in Head_
      BY <2>0, HeadFacts, Zenon DEF Fits
    <3>2. Good(list_move_tail(list, run_queue(priority[current]), current))
      BY <2>0, <3>1, MoveIsGood, Zenon
    <3> QED
      BY <2>6, <3>2, GoodIsInv, Zenon DEF KsleepYield
  <2>7. CASE KsleepBlock
    <3>1. /\ Fits(wait_queue(priority[current]), current)
          /\ wait_queue(priority[current]) \in Head_
      BY <2>0, <2>7, HeadFacts, Zenon DEF Fits, KsleepBlock, MayBlock
    <3>2. Good(list_move_tail(list, wait_queue(priority[current]), current))
      BY <2>0, <3>1, MoveIsGood
    <3> QED
      BY <2>7, <3>2, GoodIsInv DEF KsleepBlock
  <2>8. ASSUME NEW w \in WaitQueue, KwaitBlock(w)
        PROVE  SchedInv'
    <3>1. Good(list_move_head(list, waiter(w), current))
      BY <2>0, <2>8, HeadFacts, MoveIsGood, Zenon DEF KwaitBlock, MayBlock, Fits
    <3> QED
      BY <2>8, <3>1, GoodIsInv DEF KwaitBlock
  <2>9. ASSUME NEW w \in WaitQueue, IoWait(w)
        PROVE  SchedInv'
    <3>1. Good(list_move_tail(list, waiter(w), current))
      BY <2>0, <2>9, HeadFacts, MoveIsGood, Zenon DEF IoWait, MayBlock, Fits
    <3> QED
      BY <2>9, <3>1, GoodIsInv, Zenon DEF IoWait
  <2>10. CASE ShutdownThread
    <3>1. Good(list_del(list, current))
      BY <2>0, <2>10, DelIsGood, Zenon DEF ShutdownThread, MayBlock
    <3> QED
      BY <2>10, <3>1, GoodIsInv, Zenon DEF ShutdownThread
  <2>11. ASSUME NEW t \in Thread, DestroyThread(t)
         PROVE  SchedInv'
    <3>1. Good(list_del(list, t))
      BY <2>0, <2>11, DelIsGood, Zenon DEF DestroyThread
    <3> QED
      BY <2>11, <3>1, GoodIsInv, Zenon DEF DestroyThread
  <2>12. ASSUME NEW t \in Thread, NEW p \in Prio,
                NEW st \in {"RUNNING", "SLEEPING"}, KcreateThread(t, p, st)
         PROVE  SchedInv'
    BY <2>12, CreateKeepsInv, SMTT(40)
  <2>13. CASE UNCHANGED schedVars
    BY <2>13 DEF schedVars, SchedInv, SchedTypeOK, OnOneList, IdleReady,
                 OnOwnPriority, In
  <2> QED
    BY <2>1, <2>2, <2>3, <2>4, <2>5, <2>6, <2>7, <2>8, <2>9, <2>10, <2>11,
       <2>12, <2>13, Zenon DEF SchedNext
<1> QED
  BY <1>1, <1>2, PTL DEF SchedSpec

(* A thread is never linked on two lists, nor twice on one. *)
THEOREM OneListEach == SchedSpec => []OnOneList
  BY SchedInvariant, PTL DEF SchedInv

(* schedule() always finds a thread: sysidle stays on run_queue[0]. *)
THEOREM IdleAlwaysReady == SchedSpec => []IdleReady
  BY SchedInvariant, PTL DEF SchedInv

(* The CPU changes hands only in schedule(), which gives it to a thread of *)
(* the highest priority that has one to run.                               *)
THEOREM PriorityScheduling == SchedSpec => HighestRuns
<1> DEFINE HR == current' # current =>
             /\ current' \in Thread
             /\ In(list', run_queue(priority[current']), current')
             /\ \A j \in Prio :
                  j > priority[current'] => list'[run_queue(j)] = <<>>
<1>1. ASSUME SchedInv, SchedInv', NEW l, Good(l), schedule(l),
             UNCHANGED <<priority, threads>>
      PROVE  HR
  <2>1. PICK i \in Prio : /\ In(list', run_queue(i), current')
                          /\ current' \in Thread
                          /\ \A j \in Prio : j > i => list'[run_queue(j)] = <<>>
    BY <1>1, ScheduleFacts, Zenon DEF Good
  <2>2. priority[current'] = i
    BY <1>1, <2>1, Zenon DEF SchedInv, OnOwnPriority
  <2> QED
    BY <2>1, <2>2, Zenon
<1>2. SchedInv /\ SchedInv' /\ [SchedNext]_schedVars => [HR]_schedVars
  <2> SUFFICES ASSUME SchedInv, SchedInv', SchedNext
               PROVE  HR
    BY Zenon DEF schedVars
  <2>0. /\ Good(list)
        /\ current \in threads
        /\ threads \subseteq Thread
        /\ priority \in [Thread -> Prio]
    BY InvIsGood, Zenon DEF SchedInv, SchedTypeOK
  <2>1. CASE Schedule \/ IrqExit
    BY <2>0, <2>1, <1>1, Zenon DEF Schedule, IrqExit
  <2>2. ASSUME NEW w \in WaitQueue, PtWaitOn(w)
        PROVE  HR
    <3>1. Good(list_move_tail(list, waiter(w), current))
      BY <2>0, <2>2, HeadFacts, MoveIsGood, SMTT(40) DEF PtWaitOn, MayBlock, Fits
    <3> QED
      BY <2>2, <3>1, <1>1, Zenon DEF PtWaitOn
  <2>3. CASE KsleepYield
    <3>1. /\ Fits(run_queue(priority[current]), current)
          /\ run_queue(priority[current]) \in Head_
      BY <2>0, <2>3, HeadFacts, Zenon DEF Fits, KsleepYield, MayBlock
    <3>2. Good(list_move_tail(list, run_queue(priority[current]), current))
      BY <2>0, <3>1, MoveIsGood, Zenon
    <3> QED
      BY <2>3, <3>2, <1>1, Zenon DEF KsleepYield
  <2>4. CASE KsleepBlock
    <3>1. /\ Fits(wait_queue(priority[current]), current)
          /\ wait_queue(priority[current]) \in Head_
      BY <2>0, <2>4, HeadFacts, Zenon DEF Fits, KsleepBlock, MayBlock
    <3>2. Good(list_move_tail(list, wait_queue(priority[current]), current))
      BY <2>0, <3>1, MoveIsGood
    <3> QED
      BY <2>4, <3>2, <1>1, Zenon DEF KsleepBlock
  <2>5. ASSUME NEW w \in WaitQueue, KwaitBlock(w)
        PROVE  HR
    <3>1. Good(list_move_head(list, waiter(w), current))
      BY <2>0, <2>5, HeadFacts, MoveIsGood, Zenon DEF KwaitBlock, MayBlock, Fits
    <3> QED
      BY <2>5, <3>1, <1>1 DEF KwaitBlock
  <2>6. ASSUME UNCHANGED current
        PROVE  HR
    BY <2>6, Zenon
  <2> QED
    BY <2>1, <2>2, <2>3, <2>4, <2>5, <2>6, Zenon
    DEF SchedNext, SetNeedReschedule, PtWakeup, IoWait, ShutdownThread,
        DestroyThread, KcreateThread
<1> QED
  BY <1>2, SchedInvariant, PTL DEF SchedSpec, HighestRuns
-----------------------------------------------------------------------------
(* What the refinement needs of the timers' own state. *)
Typed == TypeOK /\ threads \subseteq Thread

LEMMA ThreadFacts ==
  /\ TimerThread \in Thread /\ TimerThread \notin User
  /\ User \subseteq Thread
  /\ Sysidle \in Thread /\ Sysidle \notin User /\ Sysidle # TimerThread
  /\ NoThread \notin Thread
  /\ WaitQueue = User
  /\ 0 \in Prio
  BY TimersAssumption, SchedAssumption DEF Prio

LEMMA IdFacts ==
  /\ MaxMs \in Nat /\ MaxTimers \in Nat
  /\ Periodic \in TimerId \cup {Periodic} /\ Periodic \notin TimerId
  /\ 0 \notin TimerId /\ End \notin TimerId \cup {Periodic}
  BY TimersAssumption DEF TimerId, Periodic, End

(* Taking one block off the list: the others stay, in their order. *)
LEMMA WithoutTyped ==
  ASSUME NEW S, NEW s \in Seq(S), NEW e
  PROVE  /\ Without(s, e) \in Seq(S)
         /\ \A x : Occurs(s, x) /\ x # e => Occurs(Without(s, e), x)
<1>1. CASE ~Occurs(s, e)
  BY <1>1, Zenon DEF Without, Occurs
<1>2. CASE Occurs(s, e)
  <2> DEFINE k == CHOOSE k \in 1..Len(s) : s[k] = e
             p == SubSeq(s, 1, k - 1)
             q == SubSeq(s, k + 1, Len(s))
  <2>1. k \in 1..Len(s) /\ s[k] = e
    BY <1>2, Zenon DEF Occurs
  <2>2. Without(s, e) = p \o q
    BY <1>2, Zenon DEF Without, Occurs
  <2> HIDE DEF k
  <2>3. /\ p \in Seq(S) /\ Len(p) = k - 1
        /\ \A i \in 1..(k - 1) : p[i] = s[i]
    BY <2>1
  <2>4. /\ q \in Seq(S) /\ Len(q) = Len(s) - k
        /\ \A i \in 1..(Len(s) - k) : q[i] = s[k + i]
    BY <2>1
  <2> HIDE DEF p, q
  <2>5. /\ p \o q \in Seq(S)
        /\ Len(p \o q) = Len(p) + Len(q)
        /\ \A i \in 1..(Len(p) + Len(q)) :
             (p \o q)[i] = IF i <= Len(p) THEN p[i] ELSE q[i - Len(p)]
    BY <2>3, <2>4, ConcatProperties, Zenon
  <2>6. ASSUME NEW x, Occurs(s, x), x # e
        PROVE  Occurs(p \o q, x)
    <3>1. PICK i \in 1..Len(s) : s[i] = x
      BY <2>6, Zenon DEF Occurs
    <3>2. CASE i < k
      <4>2. i \in 1..Len(p \o q) /\ i <= Len(p) /\ i \in 1..(Len(p) + Len(q))
        BY <2>1, <2>3, <2>4, <2>5, <3>1, <3>2
      <4>1. i \in 1..Len(p \o q) /\ (p \o q)[i] = x
        BY <2>1, <2>3, <2>5, <3>1, <3>2, <4>2
      <4> QED
        BY <4>1, Zenon DEF Occurs
    <3>3. CASE i > k
      <4>1. i - k \in 1..Len(q) /\ q[i - k] = x
        BY <2>1, <2>4, <3>1, <3>3
      <4>2. i - 1 \in 1..Len(p \o q) /\ (p \o q)[i - 1] = q[i - k]
        BY <2>1, <2>3, <2>4, <2>5, <3>1, <3>3, <4>1
      <4> QED
        BY <4>1, <4>2, Zenon DEF Occurs
    <3> QED
      BY <2>1, <2>6, <3>1, <3>2, <3>3
  <2> QED
    BY <2>2, <2>5, <2>6, Zenon
<1> QED
  BY <1>1, <1>2, Zenon

Block == [owner : User \cup {NoThread}, left : 0..MaxMs, enabled : BOOLEAN]

(* A block keeps its type when a tick is counted or its flag is cleared. *)
LEMMA BlockFacts ==
  ASSUME NEW b \in Block
  PROVE  /\ \A e \in BOOLEAN :
              /\ [b EXCEPT !.enabled = e] \in Block
              /\ [b EXCEPT !.enabled = e].owner = b.owner
              /\ [b EXCEPT !.enabled = e].left = b.left
              /\ [b EXCEPT !.enabled = e].enabled = e
         /\ \A n \in 0..MaxMs :
              /\ [b EXCEPT !.left = n] \in Block
              /\ [b EXCEPT !.left = n].owner = b.owner
              /\ [b EXCEPT !.left = n].left = n
              /\ [b EXCEPT !.left = n].enabled = b.enabled
  BY Zenon DEF Block

(* The ticks counted by timer_handler. *)
LEMMA TickFacts ==
  ASSUME Typed, TimerIrq
  PROVE  /\ tm' \in [TimerId \cup {Periodic} -> Block]
         /\ \A i \in TimerId \cup {Periodic} :
              /\ tm'[i].owner = tm[i].owner
              /\ tm'[i].enabled = tm[i].enabled
              /\ tm[i].left = 0 => tm'[i].left = 0
<1> DEFINE n(i) == IF tm[i].left > 0 THEN tm[i].left - 1 ELSE 0
<1>1. tm \in [TimerId \cup {Periodic} -> Block]
  BY Zenon DEF Typed, TypeOK, Block
<1>2. tm' = [i \in TimerId \cup {Periodic} |-> [tm[i] EXCEPT !.left = n(i)]]
  BY <1>1, Zenon DEF TimerIrq
<1>3. \A i \in TimerId \cup {Periodic} :
        tm[i] \in Block /\ tm[i].left \in 0..MaxMs /\ n(i) \in 0..MaxMs
  BY <1>1, IdFacts DEF Block
<1>4. \A i \in TimerId \cup {Periodic} :
        /\ [tm[i] EXCEPT !.left = n(i)] \in Block
        /\ [tm[i] EXCEPT !.left = n(i)].owner = tm[i].owner
        /\ [tm[i] EXCEPT !.left = n(i)].left = n(i)
        /\ [tm[i] EXCEPT !.left = n(i)].enabled = tm[i].enabled
  BY <1>3, BlockFacts
<1> QED
  BY <1>2, <1>3, <1>4

(* The state that only the callers of timers use has its type. *)
LEMMA TypedStep == Typed /\ [Next]_allVars => Typed'
<1> SUFFICES ASSUME Typed, [Next]_allVars
             PROVE  Typed'
  BY Zenon
<1> USE ThreadFacts, IdFacts
<1>1. ASSUME NEW t \in Thread, Boot(t)
      PROVE  Typed'
  BY <1>1, Zenon DEF Typed, TypeOK, Boot, KcreateThread, timerVars, walkVars, procVars
<1>2. CASE TimerIrq
  <2>1. tm' \in [TimerId \cup {Periodic} -> Block]
    BY <1>2, TickFacts, Zenon
  <2> QED
    BY <1>2, <2>1, Zenon DEF Block, Typed, TypeOK, TimerIrq, PtWakeup, walkVars, procVars, schedVars
<1>3. CASE SliceOver
  BY <1>3, Zenon DEF Typed, TypeOK, SliceOver, SetNeedReschedule, timerVars, walkVars, procVars
<1>4. CASE IrqReturn
  BY <1>4, Zenon DEF Typed, TypeOK, IrqReturn, IrqExit, timerVars, walkVars, procVars, schedVars
<1>5. CASE Idle
  BY <1>5, Zenon DEF Typed, TypeOK, Idle, SetNeedReschedule, kernelVars, timerVars, walkVars, procVars
<1>6. CASE IsrStep
  <2> USE <1>6 DEF Typed, TypeOK, Isr, IsrGoes, timerVars, walkVars, procVars, schedVars
  <2>1. CASE IsrStart
    <3>1. timers # <<>> => Head(timers) \in TimerId \cup {Periodic}
      OBVIOUS
    <3> QED
      BY <2>1, <3>1, Zenon DEF IsrStart
  <2>2. CASE IsrTest
    <3>1. tm \in [TimerId \cup {Periodic} -> Block] /\ walk \in TimerId \cup {Periodic}
      BY <2>2, Zenon DEF IsrTest, Block
    <3>4. tm[walk] \in Block /\ (walk = Periodic) \in BOOLEAN
      BY <3>1, Zenon
    <3>2. [tm[walk] EXCEPT !.enabled = (walk = Periodic)] \in Block
      BY <3>4, BlockFacts, Zenon
    <3>3. tm' \in [TimerId \cup {Periodic} -> Block]
      BY <2>2, <3>1, <3>2, ZenonT(60) DEF IsrTest
    <3> QED
      BY <2>2, <3>3, ZenonT(60) DEF IsrTest, Block
  <2>3. CASE IsrFire
    BY <2>3, Zenon DEF IsrFire, PtWakeup
  <2>4. CASE IsrFirePeriodic
    <3>1. tm \in [TimerId \cup {Periodic} -> Block]
      BY Zenon DEF Block
    <3>2. tm[Periodic] \in Block /\ MaxMs \in 0..MaxMs
      BY <3>1
    <3>4. [tm[Periodic] EXCEPT !.left = MaxMs] \in Block
      BY <3>2, BlockFacts, Zenon
    <3>3. tm' \in [TimerId \cup {Periodic} -> Block]
      BY <2>4, <3>1, <3>4, Zenon DEF IsrFirePeriodic
    <3> QED
      BY <2>4, <3>3, Zenon DEF IsrFirePeriodic, Block
  <2>5. CASE IsrNext
    <3>1. After(walk) \in TimerId \cup {Periodic, End}
      BY <2>5 DEF IsrNext, After, OnList
    <3> QED
      BY <2>5, <3>1, Zenon DEF IsrNext
  <2>6. CASE IsrWild
    BY <2>6, Zenon DEF IsrWild
  <2>7. CASE IsrEnd
    BY <2>7, Zenon DEF IsrEnd
  <2>8. CASE IsrSchedule
    BY <2>8, Zenon DEF IsrSchedule, Schedule
  <2> QED
    BY <2>1, <2>2, <2>3, <2>4, <2>5, <2>6, <2>7, <2>8, Zenon DEF IsrStep
<1>7. ASSUME NEW u \in User, UserContinues(u)
      PROVE  Typed'
  <2> USE DEF Typed, TypeOK, Runs, timerVars, walkVars, procVars, schedVars
  <2>1. CASE KsleepSleep(u)
    BY <2>1, Zenon DEF KsleepSleep, KsleepBlock
  <2>2. CASE KsleepReturn(u)
    <3>1. Without(timers, timer_id[u]) \in Seq(TimerId \cup {Periodic})
      BY WithoutTyped, Zenon
    <3>2. Unused \in Block
      BY DEF Unused, Block
    <3>3. tm' \in [TimerId \cup {Periodic} -> Block]
      BY <2>2, <3>2, Zenon DEF KsleepReturn, unregister_timer, Block
    <3> QED
      BY <2>2, <3>1, <3>3, Zenon DEF KsleepReturn, unregister_timer, Block
  <2>3. CASE KwaitPidInfinite(u)
    BY <2>3, Zenon DEF KwaitPidInfinite, KwaitBlock
  <2>4. ASSUME NEW i \in TimerId, KwaitPidTimed(u, i)
        PROVE  Typed'
    BY <2>4 DEF KwaitPidTimed, register_timer, PtWaitOn
  <2>5. CASE KwaitPidNobufs(u)
    BY <2>5 DEF KwaitPidNobufs, KwaitPidEnds, IoWait
  <2>6. CASE KwaitPidReturn(u)
    BY <2>6 DEF KwaitPidReturn, KwaitPidEnds
  <2>7. CASE KexitWakeup(u)
    BY <2>7, Zenon DEF KexitWakeup, PtWakeup, kernelVars
  <2>8. CASE KexitSchedule(u)
    BY <2>8, Zenon DEF KexitSchedule, Schedule
  <2> QED
    BY <1>7, <2>1, <2>2, <2>3, <2>4, <2>5, <2>6, <2>7, <2>8, Zenon DEF UserContinues
<1>8. ASSUME NEW u \in User, UserCalls(u)
      PROVE  Typed'
  <2> USE DEF Typed, TypeOK, Runs, timerVars, walkVars, procVars, schedVars
  <2>1. CASE KexitClose(u)
    BY <2>1, Zenon DEF KexitClose, DestroyThread
  <2>2. CASE KsleepZero(u)
    BY <2>2, Zenon DEF KsleepZero, KsleepYield, kernelVars
  <2>3. ASSUME NEW ms \in 1..MaxMs, NEW i \in TimerId, KsleepRegister(u, ms, i)
        PROVE  Typed'
    BY <2>3 DEF KsleepRegister, register_timer
  <2>4. ASSUME NEW p \in User, NEW ms \in 0..MaxMs, KwaitPidOpen(u, p, ms)
        PROVE  Typed'
    BY <2>4, Zenon DEF KwaitPidOpen
  <2> QED
    BY <1>8, <2>1, <2>2, <2>3, <2>4, Zenon DEF UserCalls
<1>9. CASE UNCHANGED allVars
  BY <1>9, Zenon DEF Typed, TypeOK, allVars, kernelVars, timerVars, walkVars, procVars, schedVars
<1> QED
  BY <1>1, <1>2, <1>3, <1>4, <1>5, <1>6, <1>7, <1>8, <1>9, Zenon DEF Next, IrqStep

LEMMA TypedInit == Init => Typed
<1> SUFFICES ASSUME Init PROVE Typed
  BY Zenon
<1> USE ThreadFacts, IdFacts
<1>1. tm \in [TimerId \cup {Periodic} -> Block]
  BY DEF Init, Block, Unused
<1>2. timers \in Seq(TimerId \cup {Periodic})
  BY DEF Init
<1>3. threads \subseteq Thread
  BY Zenon DEF Init, SchedInit
<1>4. pc \in [Thread -> {"run", "sleep", "slept", "found", "waited", "exit",
                         "dead", "start", "at", "fire", "next", "done", "wild"}]
  BY Zenon DEF Init
<1>5. timer_id \in [User -> TimerId \cup {0}] /\ timeout \in [User -> 0..MaxMs]
  BY DEF Init
<1> QED
  BY <1>1, <1>2, <1>3, <1>4, <1>5, Zenon DEF Init, Typed, TypeOK, Block

LEMMA AlwaysTyped == Spec => []Typed
  BY TypedInit, TypedStep, PTL DEF Spec

(* Every step of the timers is a step of the scheduler or leaves it alone. *)
LEMMA StepImplements == Typed /\ [Next]_allVars => [SchedNext]_schedVars
<1> SUFFICES ASSUME Typed, [Next]_allVars
             PROVE  [SchedNext]_schedVars
  BY Zenon
<1>0. threads \subseteq Thread /\ \A u \in User : target[u] \in WaitQueue
  BY ThreadFacts, Zenon DEF Typed, TypeOK
<1>1. ASSUME NEW t \in Thread, Boot(t)
      PROVE  SchedNext
  BY <1>1, ThreadFacts, Zenon DEF Boot, SchedNext
<1>2. ASSUME NEW t, PtWakeup(t)
      PROVE  SchedNext
  BY <1>0, <1>2, Zenon DEF PtWakeup, SchedNext
<1>3. CASE IrqStep
  BY <1>2, <1>3, Zenon DEF IrqStep, TimerIrq, SliceOver, IrqReturn, SchedNext
<1>4. CASE Idle
  BY <1>4, Zenon DEF Idle, SchedNext
<1>5. CASE IsrStep
  <2>1. CASE IsrFire
    BY <1>2, <2>1, Zenon DEF IsrFire
  <2>2. CASE IsrSchedule
    BY <2>2, Zenon DEF IsrSchedule, SchedNext
  <2> QED
    BY <1>5, <2>1, <2>2, Zenon
    DEF IsrStep, IsrStart, IsrTest, IsrFirePeriodic, IsrNext, IsrWild, IsrEnd
<1>6. ASSUME NEW u \in User, UserContinues(u)
      PROVE  [SchedNext]_schedVars
  <2>1. CASE KsleepSleep(u)
    BY <2>1, Zenon DEF KsleepSleep, SchedNext
  <2>2. CASE KsleepReturn(u)
    BY <2>2, Zenon DEF KsleepReturn
  <2>3. CASE KwaitPidInfinite(u)
    BY <1>0, <2>3, Zenon DEF KwaitPidInfinite, SchedNext
  <2>4. ASSUME NEW i \in TimerId, KwaitPidTimed(u, i)
        PROVE  SchedNext
    BY <1>0, <2>4, Zenon DEF KwaitPidTimed, SchedNext
  <2>5. CASE KwaitPidNobufs(u)
    BY <1>0, <2>5, Zenon DEF KwaitPidNobufs, SchedNext
  <2>6. CASE KwaitPidReturn(u)
    BY <2>6, Zenon DEF KwaitPidReturn
  <2>7. CASE KexitWakeup(u)
    BY <1>2, <2>7, Zenon DEF KexitWakeup
  <2>8. CASE KexitSchedule(u)
    BY <2>8, Zenon DEF KexitSchedule, SchedNext
  <2> QED
    BY <1>6, <2>1, <2>2, <2>3, <2>4, <2>5, <2>6, <2>7, <2>8, Zenon DEF UserContinues
<1>7. ASSUME NEW u \in User, UserCalls(u)
      PROVE  [SchedNext]_schedVars
  <2>1. CASE KexitClose(u)
    BY <2>1, ThreadFacts, Zenon DEF KexitClose, SchedNext
  <2>2. CASE KsleepZero(u)
    BY <2>2, Zenon DEF KsleepZero, SchedNext
  <2> QED
    BY <1>7, <2>1, <2>2, Zenon DEF UserCalls, KsleepRegister, KwaitPidOpen
<1>8. CASE UNCHANGED allVars
  BY <1>8, Zenon DEF allVars
<1> QED
  BY <1>1, <1>3, <1>4, <1>5, <1>6, <1>7, <1>8, Zenon DEF Next

(* The timer interrupt, the timer thread, ksleep, kwait_pid and kexit are  *)
(* clients of the scheduler: whatever they do, the lists of threads and    *)
(* the CPU behave as module Sched says.                                    *)
THEOREM TimersImplementSched == Spec => ImplementsSched
<1>1. Init => SchedInit
  BY Zenon DEF Init
<1> QED
  BY <1>1, AlwaysTyped, StepImplements, PTL DEF Spec, ImplementsSched, SchedSpec

(* So the scheduler's invariant holds under the timers too. *)
LEMMA SchedInvUnderTimers == Spec => []SchedInv
  BY TimersImplementSched, SchedInvariant, Zenon DEF ImplementsSched
-----------------------------------------------------------------------------
(* What the primitives do, in terms of who is on which list afterwards. *)
Kept == \A g \in Head_, x \in Thread : In(list', g, x) <=> In(list, g, x)

Moved(t, h) ==
  \A g \in Head_, x \in Thread :
    In(list', g, x) <=> (In(list, g, x) /\ x # t) \/ (g = h /\ x = t)

Dispatched == current' \in Thread /\ \E i \in Prio : In(list', run_queue(i), current')

LEMMA WakeupMoves ==
  ASSUME SchedInv, NEW t, PtWakeup(t)
  PROVE  /\ t \in Thread
         /\ priority[t] \in Prio
         /\ Moved(t, run_queue(priority[t]))
         /\ UNCHANGED <<current, priority, threads>>
<1>1. t \in Thread /\ priority[t] \in Prio /\ run_queue(priority[t]) \in Head_
  BY HeadFacts, Zenon DEF PtWakeup, SchedInv, SchedTypeOK
<1>2. Sound(list)
  BY InvIsGood, Zenon DEF Good
<1> QED
  BY <1>1, <1>2, MoveHeadFacts DEF Moved, PtWakeup, pt_wakeup

(* A thread that blocks goes from its list to the one given. *)
LEMMA BlockMoves ==
  ASSUME SchedInv, NEW h \in Head_, Fits(h, current),
         \/ schedule(list_move_tail(list, h, current))
         \/ schedule(list_move_head(list, h, current))
  PROVE  Moved(current, h) /\ Dispatched
<1>1. /\ current \in Thread /\ current \in threads
      /\ Good(list) /\ Sound(list)
  BY InvIsGood, Zenon DEF SchedInv, SchedTypeOK, IdleReady, Good
<1>2. ASSUME NEW l, Good(l), schedule(l),
             \A g \in Head_, x \in Thread :
               In(l, g, x) <=> (In(list, g, x) /\ x # current) \/ (g = h /\ x = current)
      PROVE  Moved(current, h) /\ Dispatched
  BY <1>2, ScheduleFacts, Zenon DEF Good, Moved, Dispatched
<1>3. /\ Good(list_move_tail(list, h, current))
      /\ Good(list_move_head(list, h, current))
  BY <1>1, MoveIsGood, Zenon
<1> QED
  BY <1>1, <1>2, <1>3, MoveTailFacts, MoveHeadFacts

LEMMA WaitMoves ==
  ASSUME SchedInv, NEW w \in WaitQueue
  PROVE  /\ PtWaitOn(w) => Moved(current, waiter(w)) /\ Dispatched
         /\ KwaitBlock(w) => Moved(current, waiter(w)) /\ Dispatched
         /\ IoWait(w) => Moved(current, waiter(w))
<1>1. current \in Thread /\ Sound(list) /\ waiter(w) \in Head_
  BY InvIsGood, HeadFacts, Zenon DEF SchedInv, SchedTypeOK, IdleReady, Good
<1>2. MayBlock => Fits(waiter(w), current)
  BY HeadFacts, Zenon DEF MayBlock, Fits
<1>3. PtWaitOn(w) => Moved(current, waiter(w)) /\ Dispatched
  BY <1>1, <1>2, BlockMoves, Zenon DEF PtWaitOn
<1>4. KwaitBlock(w) => Moved(current, waiter(w)) /\ Dispatched
  BY <1>1, <1>2, BlockMoves, Zenon DEF KwaitBlock
<1>5. IoWait(w) => Moved(current, waiter(w))
  BY <1>1, MoveTailFacts DEF IoWait, Moved
<1> QED
  BY <1>3, <1>4, <1>5, Zenon

LEMMA SleepMoves ==
  ASSUME SchedInv
  PROVE  /\ KsleepBlock => Moved(current, wait_queue(priority[current])) /\ Dispatched
         /\ KsleepYield => Moved(current, run_queue(priority[current])) /\ Dispatched
<1>1. /\ current \in Thread /\ priority[current] \in Prio
      /\ run_queue(priority[current]) \in Head_
      /\ wait_queue(priority[current]) \in Head_
  BY HeadFacts, Zenon DEF SchedInv, SchedTypeOK, IdleReady
<1>2. priority[Sysidle] = 0
  BY HeadFacts, SchedAssumption, Zenon DEF SchedInv, OnOwnPriority, IdleReady, Prio
<1>3. /\ MayBlock => Fits(wait_queue(priority[current]), current)
      /\ Fits(run_queue(priority[current]), current)
  BY <1>1, <1>2, HeadFacts, Zenon DEF MayBlock, Fits
<1> QED
  BY <1>1, <1>3, BlockMoves, Zenon DEF KsleepBlock, KsleepYield

LEMMA ScheduleKeeps ==
  ASSUME SchedInv, Schedule \/ IrqExit
  PROVE  Kept /\ Dispatched
  BY InvIsGood, ScheduleFacts, Zenon DEF Schedule, IrqExit, Good, Kept, Dispatched

LEMMA DestroyRemoves ==
  ASSUME SchedInv, NEW t \in Thread, DestroyThread(t)
  PROVE  \A g \in Head_, x \in Thread :
           In(list', g, x) <=> In(list, g, x) /\ x # t
  BY InvIsGood, DelFacts, Zenon DEF DestroyThread, Good

(* The process threads kmain makes start on a run queue. *)
LEMMA BootLinks ==
  ASSUME SchedInv, NEW t \in Thread, Boot(t)
  PROVE  /\ t \notin threads
         /\ \A g \in Head_ : ~In(list, g, t)
         /\ \A g \in Head_, x \in Thread :
              In(list', g, x) <=> In(list, g, x) \/ (g = run_queue(0) /\ x = t)
         /\ UNCHANGED current
         /\ \A x \in Thread : x # t => priority'[x] = priority[x]
<1>1. /\ t \notin threads
      /\ list' = list_add_tail(list, run_queue(0), t)
      /\ priority' = [priority EXCEPT ![t] = 0]
      /\ UNCHANGED current
  BY Zenon DEF Boot, KcreateThread
<1>2. \A g \in Head_ : ~In(list, g, t)
  BY <1>1, Zenon DEF SchedInv, OnOneList
<1>3. run_queue(0) \in Head_ /\ Sound(list)
  BY HeadFacts, ThreadFacts, InvIsGood, Zenon DEF Good
<1> QED
  BY <1>1, <1>2, <1>3, AddTailFacts DEF SchedInv, SchedTypeOK
-----------------------------------------------------------------------------
(* The two sides of SleeperCovered. *)
NeedsTimer(u) ==
  \/ Asleep(u) /\ ~missed[u]
  \/ Waiting(u) /\ pc[u] = "waited" /\ timeout[u] > 0

Covered(u) ==
  /\ OnList(timer_id[u])
  /\ tm[timer_id[u]].owner = u
  /\ tm[timer_id[u]].enabled \/ Firing(timer_id[u])

LEMMA CoveredFacts ==
  /\ SleeperCovered <=> \A u \in User : NeedsTimer(u) => Covered(u)
  /\ SleeperCovered' <=> \A u \in User : NeedsTimer(u)' => Covered(u)'
  BY Zenon DEF SleeperCovered, NeedsTimer, Covered

HasTimer(u) ==
  /\ timer_id[u] \in TimerId
  /\ OnList(timer_id[u])
  /\ tm[timer_id[u]].owner = u

(***************************************************************************)
(* What holds of one process thread: in ksleep or in a timed kwait_pid it  *)
(* has the block it registered; on a wait queue it is where ksleep left it *)
(* and does not run; SleeperCovered; and kexit keeps interrupts off, with  *)
(* the thread off every list, until it schedules.                          *)
(***************************************************************************)
OwnTimer(u) ==
  \/ pc[u] \in {"sleep", "slept"}
  \/ pc[u] = "waited" /\ timeout[u] > 0
  => HasTimer(u)

SleepsDown(u) ==
  \A i \in Prio : In(list, wait_queue(i), u) => pc[u] = "slept" /\ current # u

ExitsAlone(u) ==
  pc[u] = "exit" => /\ irq = "off" /\ current = u
                    /\ \A h \in Head_ : ~In(list, h, u)

UserInv(u) ==
  /\ OwnTimer(u)
  /\ SleepsDown(u)
  /\ NeedsTimer(u) => Covered(u)
  /\ ExitsAlone(u)

(* Before interrupts are first on nobody has run. *)
Booting == irq = "boot" => \A u \in User : pc[u] = "run"

(* The timer that the timer thread fires is due and on the list, unless it *)
(* was freed under it.                                                     *)
Walking ==
  /\ pc[TimerThread] \in {"at", "fire", "next"} => isr_depth = 1
  /\ pc[TimerThread] = "fire" /\ ~dangling => OnList(walk) /\ tm[walk].left = 0

(***************************************************************************)
(* The inductive invariant of the timers.  SleeperCovered alone is not:    *)
(* that the timer of a sleeping thread stays armed until it fires needs    *)
(* that nobody else unregisters it (OwnTimer) and that the thread itself   *)
(* does not run (SleepsDown).  The action properties rest on the others.   *)
(***************************************************************************)
TimerInv == (\A u \in User : UserInv(u)) /\ Booting /\ Walking

LEMMA AsleepFacts ==
  ASSUME NEW u \in User
  PROVE  /\ SchedInv =>
              (Asleep(u) <=> \E i \in Prio : In(list, wait_queue(i), u))
         /\ SchedInv' =>
              (Asleep(u)' <=> \E i \in Prio : In(list', wait_queue(i), u))
  BY ThreadFacts, HeadFacts, Zenon DEF Asleep, SchedInv, SchedTypeOK, OnOwnPriority

(* A step of somebody else: u stays where it is or comes off its queue,    *)
(* and its timer stays registered, and armed unless it fires.              *)
LEMMA OthersStep ==
  ASSUME SchedInv, SchedInv', NEW u \in User, UserInv(u),
         pc'[u] = pc[u], timer_id'[u] = timer_id[u],
         timeout'[u] = timeout[u], missed'[u] = missed[u],
         \A i \in TimerId : OnList(i) /\ tm[i].owner = u =>
           /\ OnList(i)'
           /\ tm'[i].owner = u
           /\ NeedsTimer(u)' /\ (tm[i].enabled \/ Firing(i)) =>
                tm'[i].enabled \/ Firing(i)',
         \A i \in Prio :
           In(list', wait_queue(i), u) => In(list, wait_queue(i), u) /\ current' # u,
         \A p \in User : In(list', waiter(p), u) => In(list, waiter(p), u)
  PROVE  OwnTimer(u)' /\ SleepsDown(u)' /\ (NeedsTimer(u)' => Covered(u)')
<1>1. OwnTimer(u)'
  BY Zenon DEF UserInv, OwnTimer, HasTimer, OnList
<1>2. SleepsDown(u)'
  BY Zenon DEF UserInv, SleepsDown
<1>3. ASSUME NeedsTimer(u)'
      PROVE  Covered(u)'
  <2>1. NeedsTimer(u)
    BY <1>3, AsleepFacts, Zenon DEF NeedsTimer, Waiting
  <2>2. Covered(u) /\ HasTimer(u)
    BY <2>1, AsleepFacts, Zenon DEF UserInv, OwnTimer, SleepsDown, NeedsTimer
  <2> QED
    BY <1>3, <2>2 DEF Covered, HasTimer, OnList, Firing
<1> QED
  BY <1>1, <1>2, <1>3, Zenon

(* Whoever schedule() chose is on no wait queue. *)
LEMMA DispatchFacts ==
  ASSUME SchedInv', Dispatched, NEW u \in Thread, NEW i \in Prio,
         In(list', wait_queue(i), u)
  PROVE  current' # u
  BY HeadFacts, Zenon DEF Dispatched, SchedInv, OnOneList

(* Blocks that are added to the list or taken off it. *)
LEMMA RegisterFacts ==
  ASSUME Typed, NEW u \in User, NEW ms \in 0..MaxMs, NEW i \in TimerId,
         register_timer(u, ms, i)
  PROVE  /\ ~OnList(i)
         /\ tm'[i] = [owner |-> u, left |-> ms, enabled |-> TRUE]
         /\ timer_id'[u] = i
         /\ OnList(i)'
         /\ \A j \in TimerId \cup {Periodic} : OnList(j) => OnList(j)' /\ tm'[j] = tm[j]
         /\ \A v \in User : v # u => timer_id'[v] = timer_id[v]
<1>1. ~OnList(i)
  BY Zenon DEF register_timer, OnList
<1>2. /\ Len(timers) \in Nat /\ Len(timers') = Len(timers) + 1
      /\ timers'[Len(timers) + 1] = i
      /\ \A k \in 1..Len(timers) : timers'[k] = timers[k]
  BY DEF register_timer, Typed, TypeOK
<1>3. OnList(i)'
  BY <1>2 DEF OnList
<1>4. \A j \in TimerId \cup {Periodic} : OnList(j) => OnList(j)'
  BY <1>2 DEF OnList
<1> QED
  BY <1>1, <1>3, <1>4, Zenon DEF register_timer, Typed, TypeOK

LEMMA UnregisterFacts ==
  ASSUME Typed, NEW u \in User, HasTimer(u), unregister_timer(u)
  PROVE  /\ \A j \in TimerId \cup {Periodic} :
              OnList(j) /\ j # timer_id[u] => OnList(j)' /\ tm'[j] = tm[j]
         /\ \A v \in User : v # u => timer_id'[v] = timer_id[v]
         /\ isr_depth = 1 /\ walk = timer_id[u] => dangling'
         /\ dangling => dangling'
<1>1. \A j : OnList(j) /\ j # timer_id[u] => OnList(j)'
  <2>1. timers \in Seq(TimerId \cup {Periodic})
    BY Zenon DEF Typed, TypeOK
  <2>2. \A j : Occurs(timers, j) /\ j # timer_id[u] => Occurs(timers', j)
    BY <2>1, WithoutTyped, Zenon DEF unregister_timer
  <2> QED
    BY <2>2, Zenon DEF OnList, Occurs
<1> QED
  BY <1>1, Zenon DEF unregister_timer, Typed, TypeOK

(* The timer interrupt and sysidle. *)
LEMMA InterruptStep ==
  ASSUME SchedInv, SchedInv', Typed, Typed', TimerInv, IrqStep \/ Idle
  PROVE  TimerInv'
<1> USE ThreadFacts, IdFacts
<1>1. /\ UNCHANGED <<pc, timers, timer_id, timeout, missed, walkVars>>
      /\ irq # "boot" /\ irq # "off" /\ irq' # "boot"
      /\ \A i \in TimerId \cup {Periodic} :
           /\ tm'[i].owner = tm[i].owner
           /\ tm'[i].enabled = tm[i].enabled
           /\ tm[i].left = 0 => tm'[i].left = 0
  BY TickFacts, Zenon DEF IrqStep, TimerIrq, SliceOver, IrqReturn, Idle, Runs, kernelVars, timerVars,
     walkVars, procVars
<1>2. \/ PtWakeup(TimerThread) /\ UNCHANGED current
      \/ IrqExit
      \/ UNCHANGED <<list, current>>
  BY Zenon DEF IrqStep, TimerIrq, SliceOver, IrqReturn, Idle, SetNeedReschedule, schedVars, PtWakeup
<1>3. ASSUME NEW u \in User
      PROVE  UserInv(u)'
  <2>1. UserInv(u) /\ pc[u] # "exit"
    BY <1>1, Zenon DEF TimerInv, UserInv, ExitsAlone
  <2>2. /\ \A i \in Prio :
             In(list', wait_queue(i), u) => In(list, wait_queue(i), u) /\ current' # u
        /\ \A p \in User : In(list', waiter(p), u) => In(list, waiter(p), u)
    <3>1. CASE PtWakeup(TimerThread) /\ UNCHANGED current
      BY <2>1, <3>1, WakeupMoves, HeadFacts DEF Moved, UserInv, SleepsDown
    <3>2. CASE IrqExit
      BY <2>1, <3>2, ScheduleKeeps, DispatchFacts, HeadFacts, Zenon DEF Kept
    <3>3. CASE UNCHANGED <<list, current>>
      BY <2>1, <3>3, Zenon DEF UserInv, SleepsDown
    <3> QED
      BY <1>2, <3>1, <3>2, <3>3, Zenon
  <2>3. OwnTimer(u)' /\ SleepsDown(u)' /\ (NeedsTimer(u)' => Covered(u)')
    BY <1>1, <2>1, <2>2, OthersStep, Zenon DEF OnList, Firing, walkVars
  <2> QED
    BY <1>1, <2>1, <2>3, Zenon DEF UserInv, ExitsAlone
<1>4. Booting'
  BY <1>1, Zenon DEF Booting
<1>5. Walking'
  BY <1>1 DEF TimerInv, Walking, OnList, walkVars, Typed, TypeOK
<1> QED
  BY <1>3, <1>4, <1>5, Zenon DEF TimerInv

(* kmain. *)
LEMMA BootStep ==
  ASSUME SchedInv, SchedInv', Typed, Typed', TimerInv, NEW t \in Thread, Boot(t)
  PROVE  TimerInv'
<1> USE ThreadFacts, IdFacts
<1>1. /\ UNCHANGED <<pc, timerVars, walkVars, procVars>>
      /\ irq = "boot" /\ \A u \in User : pc[u] = "run"
  BY Zenon DEF Boot, TimerInv, Booting
<1>2. ASSUME NEW u \in User
      PROVE  UserInv(u)'
  <2>1. UserInv(u)
    BY Zenon DEF TimerInv
  <2>2. /\ \A i \in Prio :
             In(list', wait_queue(i), u) => In(list, wait_queue(i), u) /\ current' # u
        /\ \A p \in User : In(list', waiter(p), u) => In(list, waiter(p), u)
    BY <2>1, BootLinks, HeadFacts DEF UserInv, SleepsDown
  <2>3. OwnTimer(u)' /\ SleepsDown(u)' /\ (NeedsTimer(u)' => Covered(u)')
    BY <1>1, <2>1, <2>2, OthersStep, Zenon DEF OnList, Firing, walkVars, timerVars, procVars
  <2> QED
    BY <1>1, <2>3, Zenon DEF UserInv, ExitsAlone
<1>3. Booting'
  BY <1>1, Zenon DEF Booting
<1>4. Walking'
  BY <1>1, Zenon DEF TimerInv, Walking, OnList, walkVars, timerVars
<1> QED
  BY <1>2, <1>3, <1>4, Zenon DEF TimerInv

(* timerisr disables a due timer only as it goes to call its function, and *)
(* the function takes the owner off its queue.                             *)
LEMMA IsrStepKeeps ==
  ASSUME SchedInv, SchedInv', Typed, Typed', TimerInv, IsrStep
  PROVE  TimerInv'
<1> USE ThreadFacts, IdFacts
<1>1. /\ UNCHANGED <<irq, timers, timer_id, timeout, missed>>
      /\ irq = "on" /\ current = TimerThread
      /\ \A u \in User : pc'[u] = pc[u]
  BY DEF IsrStep, IsrStart, IsrTest, IsrFire, IsrFirePeriodic, IsrNext, IsrWild, IsrEnd,
     IsrSchedule, Isr, Runs, IsrGoes, timerVars, walkVars, procVars, Typed, TypeOK
<1>2. \/ /\ Isr("fire") /\ walk \in TimerId /\ OnList(walk)
         /\ PtWakeup(tm[walk].owner)
         /\ UNCHANGED <<walk, tm>>
      \/ Schedule /\ UNCHANGED <<walk, tm>> /\ Isr("done")
      \/ /\ UNCHANGED <<list, current, priority>>
         /\ ~Isr("fire") \/ walk \notin TimerId \/ ~OnList(walk)
  <2>1. CASE IsrFire
    BY <2>1 DEF IsrFire, walkVars, timerVars, OnList, Typed, TypeOK
  <2>2. CASE IsrSchedule
    BY <2>2, Zenon DEF IsrSchedule, walkVars, timerVars
  <2>3. CASE IsrFirePeriodic
    BY <2>3, Zenon DEF IsrFirePeriodic, schedVars
  <2>4. CASE IsrWild
    BY <2>4, Zenon DEF IsrWild, schedVars
  <2> QED
    BY <2>1, <2>2, <2>3, <2>4, Zenon
    DEF IsrStep, IsrStart, IsrTest, IsrNext, IsrEnd, schedVars, Isr
<1>3. \A i \in TimerId :
        /\ tm'[i].owner = tm[i].owner
        /\ tm[i].enabled => tm'[i].enabled \/ Firing(i)'
  <2>1. CASE IsrTest
    <3>1. CASE tm[walk].enabled /\ tm[walk].left = 0
      BY <2>1, <3>1 DEF IsrTest, IsrGoes, Firing, walkVars, Typed, TypeOK
    <3>2. CASE ~(tm[walk].enabled /\ tm[walk].left = 0)
      BY <2>1, <3>2, Zenon DEF IsrTest
    <3> QED
      BY <3>1, <3>2, Zenon
  <2>2. CASE IsrFirePeriodic
    BY <2>2, Zenon DEF IsrFirePeriodic, Typed, TypeOK
  <2> QED
    BY <2>1, <2>2, Zenon DEF IsrStep, IsrStart, IsrFire, IsrNext, IsrWild, IsrEnd,
       IsrSchedule, timerVars
<1>4. ASSUME NEW u \in User
      PROVE  UserInv(u)'
  <2>1. UserInv(u) /\ pc[u] # "exit"
    BY <1>1, Zenon DEF TimerInv, UserInv, ExitsAlone
  <2>2. /\ \A i \in Prio :
             In(list', wait_queue(i), u) => In(list, wait_queue(i), u) /\ current' # u
        /\ \A p \in User : In(list', waiter(p), u) => In(list, waiter(p), u)
    <3>1. CASE PtWakeup(tm[walk].owner)
      <4>1. UNCHANGED current
        BY <3>1, Zenon DEF PtWakeup
      <4> QED
        BY <1>1, <2>1, <3>1, <4>1, WakeupMoves, HeadFacts DEF Moved
    <3>2. CASE Schedule
      BY <3>2, ScheduleKeeps, DispatchFacts, HeadFacts, Zenon DEF Kept
    <3>3. CASE UNCHANGED <<list, current>>
      BY <1>1, <3>3, Zenon
    <3> QED
      BY <1>2, <3>1, <3>2, <3>3, Zenon
  <2>3. ASSUME NEW i \in TimerId, OnList(i), tm[i].owner = u,
               NeedsTimer(u)', Firing(i), ~Firing(i)'
        PROVE  FALSE
    <3>1. /\ Isr("fire") /\ walk = i
      BY <1>1, <2>3, Zenon DEF Firing, Isr, Runs
    <3>2. PtWakeup(u)
      BY <1>2, <2>3, <3>1, Zenon DEF Isr
    <3>3. /\ \A j \in Prio : ~In(list', wait_queue(j), u)
          /\ \A p \in User : ~In(list', waiter(p), u)
      BY <3>2, WakeupMoves, HeadFacts DEF Moved
    <3> QED
      BY <2>3, <3>3, AsleepFacts, Zenon DEF NeedsTimer, Waiting
  <2>4. OwnTimer(u)' /\ SleepsDown(u)' /\ (NeedsTimer(u)' => Covered(u)')
    <3>1. \A i \in TimerId : OnList(i) /\ tm[i].owner = u =>
           /\ OnList(i)'
           /\ tm'[i].owner = u
           /\ NeedsTimer(u)' /\ (tm[i].enabled \/ Firing(i)) =>
                tm'[i].enabled \/ Firing(i)'
      BY <1>1, <1>3, <2>3, Zenon DEF OnList
    <3> QED
      BY <1>1, <2>1, <2>2, <3>1, OthersStep, Zenon
  <2> QED
    BY <1>1, <2>1, <2>4, Zenon DEF UserInv, ExitsAlone
<1>5. Booting'
  BY <1>1, Zenon DEF Booting
<1>6. Walking'
  <2>1. CASE IsrTest
    BY <1>1, <2>1 DEF TimerInv, Walking, IsrTest, Isr, IsrGoes, OnList, walkVars, Typed, TypeOK
  <2> QED
    BY <1>1, <2>1, ZenonT(60) DEF TimerInv, Walking, IsrStep, IsrStart, IsrFire, IsrFirePeriodic, IsrNext,
       IsrWild, IsrEnd, IsrSchedule, Isr, IsrGoes, walkVars, Typed, TypeOK
<1> QED
  BY <1>4, <1>5, <1>6, Zenon DEF TimerInv

(* What a step of the running process thread u leaves alone. *)
OnlyFor(u) ==
  /\ \A w \in Thread : w # u => pc'[w] = pc[w]
  /\ \A v \in User : v # u => /\ timer_id'[v] = timer_id[v]
                              /\ timeout'[v] = timeout[v]
                              /\ missed'[v] = missed[v]
  /\ UNCHANGED <<walk, isr_depth>>
  /\ \A j \in TimerId \cup {Periodic} :
       OnList(j) /\ tm[j].owner # u => OnList(j)' /\ tm'[j] = tm[j]
  /\ \A g \in WaitHead, v \in User : v # u /\ In(list', g, v) => In(list, g, v)
  /\ UNCHANGED current \/ Dispatched

LEMMA StepOfOne ==
  ASSUME SchedInv, SchedInv', TimerInv, NEW u \in User, current = u,
         irq \in {"on", "off"}, irq' \in {"on", "off"},
         OnlyFor(u), UserInv(u)',
         pc[TimerThread] = "fire" /\ ~dangling' =>
           ~dangling /\ OnList(walk)' /\ tm'[walk].left = tm[walk].left
  PROVE  TimerInv'
<1>1. ASSUME NEW v \in User, v # u
      PROVE  UserInv(v)'
  <2>1. UserInv(v) /\ pc[v] # "exit" /\ pc'[v] = pc[v]
    BY <1>1, ThreadFacts, Zenon DEF TimerInv, UserInv, ExitsAlone, OnlyFor
  <2>2. /\ \A i \in Prio :
             In(list', wait_queue(i), v) => In(list, wait_queue(i), v) /\ current' # v
        /\ \A p \in User : In(list', waiter(p), v) => In(list, waiter(p), v)
    BY <1>1, DispatchFacts, ThreadFacts, Zenon DEF OnlyFor, WaitHead
  <2>3. pc'[TimerThread] = pc[TimerThread]
    BY ThreadFacts, Zenon DEF OnlyFor
  <2>4. OwnTimer(v)' /\ SleepsDown(v)' /\ (NeedsTimer(v)' => Covered(v)')
    BY <1>1, <2>1, <2>2, <2>3, OthersStep, ZenonT(60) DEF OnlyFor, Firing
  <2> QED
    BY <2>1, <2>4, Zenon DEF UserInv, ExitsAlone
<1>2. Booting'
  BY Zenon DEF Booting
<1>3. Walking'
  BY ThreadFacts, Zenon DEF TimerInv, Walking, OnlyFor
<1> QED
  BY <1>1, <1>2, <1>3, Zenon DEF TimerInv

(* ksleep. *)
LEMMA SleepSteps ==
  ASSUME SchedInv, SchedInv', Typed, Typed', TimerInv, NEW u \in User,
         \/ KsleepZero(u)
         \/ \E ms \in 1..MaxMs, i \in TimerId : KsleepRegister(u, ms, i)
         \/ KsleepSleep(u)
         \/ KsleepReturn(u)
  PROVE  TimerInv'
<1> USE ThreadFacts, IdFacts
<1>0. UserInv(u)
  BY Zenon DEF TimerInv
<1>1. CASE KsleepZero(u)
  <2>1. /\ UNCHANGED kernelVars /\ current = u /\ irq = "on" /\ pc[u] = "run"
        /\ Moved(u, run_queue(priority[u])) /\ Dispatched
    BY <1>1, SleepMoves, Zenon DEF KsleepZero, Runs, kernelVars
  <2>0. priority[u] \in Prio
    BY Zenon DEF SchedInv, SchedTypeOK
  <2>2. /\ \A i \in Prio : ~In(list', wait_queue(i), u)
        /\ \A p \in User : ~In(list', waiter(p), u)
    BY <2>0, <2>1, HeadFacts DEF Moved
  <2>3. UserInv(u)'
    BY <1>0, <2>1, <2>2, AsleepFacts, Zenon
    DEF UserInv, OwnTimer, SleepsDown, NeedsTimer, ExitsAlone, Waiting, kernelVars
  <2>4. OnlyFor(u)
    <3>1. UNCHANGED <<pc, timers, tm, timer_id, timeout, missed, walk, isr_depth, dangling>>
      BY <2>1, Zenon DEF kernelVars, timerVars, walkVars, procVars
    <3>2. \A g \in WaitHead, v \in User : v # u /\ In(list', g, v) => In(list, g, v)
      BY <2>1, Zenon DEF Moved, Head_
    <3> QED
      BY <2>1, <3>1, <3>2, Zenon DEF OnlyFor, OnList
  <2>5. pc[TimerThread] = "fire" /\ ~dangling' =>
           ~dangling /\ OnList(walk)' /\ tm'[walk].left = tm[walk].left
    BY <2>1, Zenon DEF TimerInv, Walking, kernelVars, timerVars, walkVars, OnList
  <2> QED
    BY <2>1, <2>3, <2>4, <2>5, StepOfOne, Zenon DEF kernelVars
<1>2. ASSUME NEW ms \in 1..MaxMs, NEW i \in TimerId, KsleepRegister(u, ms, i)
      PROVE  TimerInv'
  <2>1. /\ UNCHANGED <<schedVars, irq, walkVars, procVars, missed>>
        /\ current = u /\ irq = "on" /\ pc[u] = "run" /\ pc' = [pc EXCEPT ![u] = "sleep"]
        /\ register_timer(u, ms, i)
    BY <1>2, Zenon DEF KsleepRegister, Runs
  <2>2. /\ ~OnList(i)
        /\ tm'[i] = [owner |-> u, left |-> ms, enabled |-> TRUE]
        /\ timer_id'[u] = i
        /\ OnList(i)'
        /\ \A j \in TimerId \cup {Periodic} : OnList(j) => OnList(j)' /\ tm'[j] = tm[j]
        /\ \A v \in User : v # u => timer_id'[v] = timer_id[v]
    BY <2>1, RegisterFacts
  <2>3. UserInv(u)'
    <3>a. pc'[u] = "sleep" /\ "sleep" \notin {"exit", "slept"} /\ i \in TimerId
      BY <2>1, <2>2, ThreadFacts, Zenon DEF Typed, TypeOK
    <3>b. \A j \in Prio : ~In(list, wait_queue(j), u)
      BY <1>0, <2>1, Zenon DEF UserInv, SleepsDown
    <3>c. OwnTimer(u)'
      <4>1. tm'[i].owner = u
        BY <2>2
      <4>2. timer_id'[u] \in TimerId /\ OnList(timer_id[u])' /\ tm'[timer_id'[u]].owner = u
        BY <2>2, <3>a, <4>1 DEF OnList
      <4> QED BY <4>2, Zenon DEF OwnTimer, HasTimer
    <3>1. OwnTimer(u)' /\ SleepsDown(u)' /\ ExitsAlone(u)'
      BY <2>1, <3>a, <3>b, <3>c, Zenon DEF SleepsDown, ExitsAlone, schedVars
    <3>2. ~NeedsTimer(u)'
      BY <1>0, <2>1, <3>1, AsleepFacts, Zenon DEF NeedsTimer, SleepsDown, Typed, TypeOK
    <3> QED
      BY <3>1, <3>2, ZenonT(60) DEF UserInv
  <2>4. OnlyFor(u)
    BY <2>1, <2>2, Zenon DEF OnlyFor, Typed, TypeOK, procVars, walkVars, schedVars
  <2>5. pc[TimerThread] = "fire" /\ ~dangling' =>
           ~dangling /\ OnList(walk)' /\ tm'[walk].left = tm[walk].left
    <3> SUFFICES ASSUME pc[TimerThread] = "fire", ~dangling'
                 PROVE  ~dangling /\ OnList(walk)' /\ tm'[walk].left = tm[walk].left
      BY Zenon
    <3>1. ~dangling /\ OnList(walk) /\ walk' = walk
      BY <2>1, Zenon DEF TimerInv, Walking, walkVars
    <3>2. walk \in TimerId \cup {Periodic}
      BY <3>1 DEF OnList, Typed, TypeOK
    <3> QED
      BY <2>2, <3>1, <3>2, Zenon DEF OnList
  <2> QED
    BY <2>1, <2>3, <2>4, <2>5, StepOfOne, Zenon
<1>3. CASE KsleepSleep(u)
  <2>1. /\ UNCHANGED <<irq, timers, tm, timer_id, walkVars, procVars>>
        /\ current = u /\ irq = "on" /\ pc[u] = "sleep" /\ pc' = [pc EXCEPT ![u] = "slept"]
        /\ missed' = [missed EXCEPT ![u] = ~tm[timer_id[u]].enabled /\ ~Firing(timer_id[u])]
        /\ Moved(u, wait_queue(priority[u])) /\ Dispatched
    BY <1>3, SleepMoves, Zenon DEF KsleepSleep, Runs
  <2>2. /\ wait_queue(priority[u]) \in Head_
        /\ In(list', wait_queue(priority[u]), u)
        /\ \A p \in User : ~In(list', waiter(p), u)
        /\ current' # u
    BY <2>1, HeadFacts, DispatchFacts, Zenon DEF Moved, SchedInv, SchedTypeOK
  <2>3. HasTimer(u)
    BY <1>0, <2>1, Zenon DEF UserInv, OwnTimer
  <2>4. UserInv(u)'
    <3>1. OwnTimer(u)' /\ SleepsDown(u)' /\ ExitsAlone(u)'
      BY <2>1, <2>2, <2>3, Zenon DEF OwnTimer, HasTimer, OnList, SleepsDown, ExitsAlone, Typed, TypeOK
    <3>2. NeedsTimer(u)' => Covered(u)'
      BY <2>1, <2>2, <2>3, ZenonT(60) DEF NeedsTimer, Waiting, Covered, HasTimer, OnList, Firing,
         Typed, TypeOK, walkVars
    <3> QED
      BY <3>1, <3>2, Zenon DEF UserInv
  <2>5. OnlyFor(u)
    BY <2>1, HeadFacts, ZenonT(60) DEF OnlyFor, walkVars, procVars, Moved, WaitHead, OnList, Head_,
       Typed, TypeOK
  <2> QED
    BY <2>1, <2>4, <2>5, StepOfOne, Zenon DEF TimerInv, Walking, walkVars, OnList
<1>4. CASE KsleepReturn(u)
  <2>1. /\ UNCHANGED <<schedVars, irq, walk, isr_depth, procVars>>
        /\ current = u /\ irq = "on" /\ pc[u] = "slept" /\ pc' = [pc EXCEPT ![u] = "run"]
        /\ missed' = [missed EXCEPT ![u] = FALSE]
        /\ unregister_timer(u)
    BY <1>4, Zenon DEF KsleepReturn, Runs
  <2>2. HasTimer(u)
    BY <1>0, <2>1, Zenon DEF UserInv, OwnTimer
  <2>3. /\ \A j \in TimerId \cup {Periodic} :
             OnList(j) /\ j # timer_id[u] => OnList(j)' /\ tm'[j] = tm[j]
        /\ \A v \in User : v # u => timer_id'[v] = timer_id[v]
        /\ isr_depth = 1 /\ walk = timer_id[u] => dangling'
        /\ dangling => dangling'
    BY <2>1, <2>2, UnregisterFacts, Zenon
  <2>4. UserInv(u)'
    <3>1. /\ \A i \in Prio : ~In(list', wait_queue(i), u)
          /\ pc'[u] = "run"
      BY <1>0, <2>1, Zenon DEF UserInv, SleepsDown, schedVars, Typed, TypeOK
    <3>2. ~NeedsTimer(u)'
      BY <3>1, AsleepFacts, Zenon DEF NeedsTimer
    <3> QED
      BY <3>1, <3>2, Zenon DEF UserInv, OwnTimer, SleepsDown, ExitsAlone
  <2>5. OnlyFor(u)
    BY <2>1, <2>2, <2>3, ZenonT(60) DEF OnlyFor, schedVars, procVars, HasTimer, Typed, TypeOK
  <2>6. pc[TimerThread] = "fire" /\ ~dangling' =>
           ~dangling /\ OnList(walk)' /\ tm'[walk].left = tm[walk].left
    <3> SUFFICES ASSUME pc[TimerThread] = "fire", ~dangling'
                 PROVE  ~dangling /\ OnList(walk)' /\ tm'[walk].left = tm[walk].left
      BY Zenon
    <3>1. ~dangling /\ OnList(walk) /\ walk' = walk /\ walk # timer_id[u]
      BY <2>1, <2>3, Zenon DEF TimerInv, Walking
    <3>2. walk \in TimerId \cup {Periodic}
      BY <3>1 DEF OnList, Typed, TypeOK
    <3> QED
      BY <2>3, <3>1, <3>2, Zenon DEF OnList
  <2> QED
    BY <2>1, <2>4, <2>5, <2>6, StepOfOne, Zenon
<1> QED
  BY <1>1, <1>2, <1>3, <1>4, Zenon

(* Steps that leave the blocks alone. *)
LEMMA BlocksKept ==
  ASSUME Typed, TimerInv, UNCHANGED <<timers, tm, walkVars>>
  PROVE  /\ \A j \in TimerId \cup {Periodic} : OnList(j) => OnList(j)' /\ tm'[j] = tm[j]
         /\ UNCHANGED <<walk, isr_depth>>
         /\ pc[TimerThread] = "fire" /\ ~dangling' =>
              ~dangling /\ OnList(walk)' /\ tm'[walk].left = tm[walk].left
  BY Zenon DEF OnList, walkVars, TimerInv, Walking

LEMMA BlockFields ==
  ASSUME NEW b, NEW o, NEW ms, b = [owner |-> o, left |-> ms, enabled |-> TRUE]
  PROVE  b.owner = o /\ b.enabled
  OBVIOUS

LEMMA HeadIndex ==
  ASSUME NEW S, NEW s \in Seq(S), s # <<>>
  PROVE  1 \in 1..Len(s) /\ s[1] = Head(s)
  OBVIOUS

(* A thread moved to the waiters of a process is in no queue of sleepers.   *)
LEMMA WaiterMoved ==
  ASSUME NEW u \in User, NEW w \in WaitQueue, Moved(u, waiter(w))
  PROVE  \A i \in Prio : ~In(list', wait_queue(i), u)
<1> TAKE i \in Prio
<1>1. wait_queue(i) \in Head_ /\ wait_queue(i) # waiter(w) /\ u \in Thread
  BY ThreadFacts, HeadFacts, Zenon
<1> QED
  BY <1>1, Zenon DEF Moved

(* kwait_pid. *)
LEMMA WaitSteps ==
  ASSUME SchedInv, SchedInv', Typed, Typed', TimerInv, NEW u \in User,
         \/ \E p \in User, ms \in 0..MaxMs : KwaitPidOpen(u, p, ms)
         \/ KwaitPidInfinite(u)
         \/ \E i \in TimerId : KwaitPidTimed(u, i)
         \/ KwaitPidNobufs(u)
         \/ KwaitPidReturn(u)
  PROVE  TimerInv'
<1> USE ThreadFacts, IdFacts
<1>0. UserInv(u) /\ target[u] \in WaitQueue
  BY Zenon DEF TimerInv, Typed, TypeOK
<1>1. ASSUME NEW p \in User, NEW ms \in 0..MaxMs, KwaitPidOpen(u, p, ms)
      PROVE  TimerInv'
  <2>1. /\ UNCHANGED <<schedVars, irq, timerVars, walkVars>>
        /\ current = u /\ irq = "on" /\ pc[u] = "run" /\ pc' = [pc EXCEPT ![u] = "found"]
        /\ timeout' = [timeout EXCEPT ![u] = ms]
    BY <1>1, Zenon DEF KwaitPidOpen, Runs
  <2>2. UserInv(u)'
    <3>1. pc'[u] = "found" /\ \A i \in Prio : ~In(list', wait_queue(i), u)
      BY <1>0, <2>1, Zenon DEF UserInv, SleepsDown, schedVars, Typed, TypeOK
    <3> QED
      BY <3>1, AsleepFacts, Zenon DEF UserInv, OwnTimer, SleepsDown, ExitsAlone, NeedsTimer
  <2>3. OnlyFor(u)
    <3>1. UNCHANGED <<list, current, timer_id, missed>>
      BY <2>1, Zenon DEF schedVars, timerVars
    <3>2. /\ \A v \in Thread : v # u => pc'[v] = pc[v]
          /\ \A v \in User : v # u => timeout'[v] = timeout[v]
      BY <2>1, Zenon DEF Typed, TypeOK
    <3> QED
      BY <2>1, <3>1, <3>2, BlocksKept, Zenon DEF OnlyFor, timerVars
  <2> QED
    BY <2>1, <2>2, <2>3, StepOfOne, BlocksKept, Zenon DEF timerVars
<1>2. CASE KwaitPidInfinite(u)
  <2>1. /\ UNCHANGED <<irq, timerVars, walkVars, procVars>>
        /\ current = u /\ irq = "on" /\ pc' = [pc EXCEPT ![u] = "waited"]
        /\ timeout[u] = 0
        /\ Moved(u, waiter(target[u])) /\ Dispatched
    BY <1>0, <1>2, WaitMoves, Zenon DEF KwaitPidInfinite, Runs
  <2>2. UserInv(u)'
    <3>1. \A i \in Prio : ~In(list', wait_queue(i), u)
      BY <1>0, <2>1, WaiterMoved, Zenon
    <3>2. pc'[u] = "waited" /\ timeout'[u] = 0
      BY <2>1, Zenon DEF procVars, Typed, TypeOK
    <3>3. ~(0 > 0)
      BY SMT
    <3> QED
      BY <3>1, <3>2, <3>3, AsleepFacts, Zenon
      DEF UserInv, OwnTimer, SleepsDown, ExitsAlone, NeedsTimer
  <2>3. OnlyFor(u)
    <3>1. \A g \in WaitHead, v \in User : v # u /\ In(list', g, v) => In(list, g, v)
      BY <2>1, Zenon DEF Moved, Head_
    <3> QED
      BY <2>1, <3>1, BlocksKept, Zenon DEF OnlyFor, timerVars, procVars, Typed, TypeOK
  <2> QED
    BY <2>1, <2>2, <2>3, StepOfOne, BlocksKept, Zenon DEF timerVars
<1>3. ASSUME NEW i \in TimerId, KwaitPidTimed(u, i)
      PROVE  TimerInv'
  <2>1. /\ UNCHANGED <<irq, walkVars, procVars, missed>>
        /\ current = u /\ irq = "on" /\ pc' = [pc EXCEPT ![u] = "waited"]
        /\ timeout[u] > 0 /\ timeout[u] \in 0..MaxMs
        /\ register_timer(u, timeout[u], i)
        /\ Moved(u, waiter(target[u])) /\ Dispatched
    BY <1>0, <1>3, WaitMoves, Zenon DEF KwaitPidTimed, Runs, Typed, TypeOK
  <2>2. /\ ~OnList(i)
        /\ tm'[i] = [owner |-> u, left |-> timeout[u], enabled |-> TRUE]
        /\ timer_id'[u] = i
        /\ OnList(i)'
        /\ \A j \in TimerId \cup {Periodic} : OnList(j) => OnList(j)' /\ tm'[j] = tm[j]
        /\ \A v \in User : v # u => timer_id'[v] = timer_id[v]
    BY <2>1, RegisterFacts, Zenon
  <2>3. UserInv(u)'
    <3>1. \A j \in Prio : ~In(list', wait_queue(j), u)
      BY <1>0, <2>1, WaiterMoved, Zenon
    <3>2. pc'[u] = "waited"
      BY <2>1, Zenon DEF Typed, TypeOK
    <3>5. tm'[i] = [owner |-> u, left |-> timeout[u], enabled |-> TRUE]
      BY <2>2, Zenon
    <3>3. tm'[i].owner = u /\ tm'[i].enabled
      BY <3>5, BlockFields, Zenon
    <3>4. HasTimer(u)' /\ Covered(u)'
      BY <2>2, <3>3, Zenon DEF HasTimer, Covered
    <3> QED
      BY <3>1, <3>2, <3>4, Zenon DEF UserInv, OwnTimer, SleepsDown, ExitsAlone
  <2>4. OnlyFor(u)
    <3>1. \A g \in WaitHead, v \in User : v # u /\ In(list', g, v) => In(list, g, v)
      BY <2>1, Zenon DEF Moved, Head_
    <3> QED
      BY <2>1, <2>2, <3>1, Zenon DEF OnlyFor, walkVars, procVars, Typed, TypeOK
  <2>5. pc[TimerThread] = "fire" /\ ~dangling' =>
           ~dangling /\ OnList(walk)' /\ tm'[walk].left = tm[walk].left
    <3> SUFFICES ASSUME pc[TimerThread] = "fire", ~dangling'
                 PROVE  ~dangling /\ OnList(walk)' /\ tm'[walk].left = tm[walk].left
      BY Zenon
    <3>1. ~dangling /\ OnList(walk) /\ walk' = walk
      BY <2>1, Zenon DEF TimerInv, Walking, walkVars
    <3>2. walk \in TimerId \cup {Periodic}
      BY <3>1 DEF OnList, Typed, TypeOK
    <3> QED
      BY <2>2, <3>1, <3>2, Zenon DEF OnList
  <2> QED
    BY <2>1, <2>3, <2>4, <2>5, StepOfOne, Zenon
<1>4. CASE KwaitPidNobufs(u) \/ KwaitPidReturn(u)
  <2>1. /\ UNCHANGED <<irq, walkVars, timers, tm, missed, current>>
        /\ current = u /\ irq = "on" /\ pc[u] \in {"found", "waited"}
        /\ pc' = [pc EXCEPT ![u] = "run"]
        /\ timer_id' = [timer_id EXCEPT ![u] = 0]
        /\ timeout' = [timeout EXCEPT ![u] = 0]
    BY <1>4, Zenon DEF KwaitPidNobufs, KwaitPidReturn, KwaitPidEnds, IoWait, Runs, schedVars
  <2>2. Moved(u, waiter(target[u])) \/ UNCHANGED list
    BY <1>0, <1>4, <2>1, WaitMoves, Zenon DEF KwaitPidNobufs, KwaitPidReturn, schedVars
  <2>3. UserInv(u)'
    <3>1. pc'[u] = "run" /\ \A i \in Prio : ~In(list', wait_queue(i), u)
      <4>1. \A i \in Prio : ~In(list, wait_queue(i), u)
        BY <1>0, <2>1, Zenon DEF UserInv, SleepsDown
      <4>2. pc'[u] = "run"
        BY <2>1, Zenon DEF Typed, TypeOK
      <4> QED
        BY <1>0, <2>2, <4>1, <4>2, WaiterMoved, Zenon
    <3> QED
      BY <3>1, AsleepFacts, Zenon DEF UserInv, OwnTimer, SleepsDown, ExitsAlone, NeedsTimer
  <2>4. OnlyFor(u)
    <3>1. \A g \in WaitHead, v \in User : v # u /\ In(list', g, v) => In(list, g, v)
      BY <2>2, Zenon DEF Moved, Head_
    <3>2. \A v \in Thread : v # u => pc'[v] = pc[v]
      BY <2>1, Zenon DEF Typed, TypeOK
    <3>5. /\ timeout \in [User -> 0..MaxMs] /\ timer_id \in [User -> TimerId \cup {0}]
          /\ timeout' = [timeout EXCEPT ![u] = 0] /\ timer_id' = [timer_id EXCEPT ![u] = 0]
      BY <2>1, Zenon DEF Typed, TypeOK
    <3>3. \A v \in User : v # u => timeout'[v] = timeout[v]
      BY <3>5, Zenon
    <3>4. \A v \in User : v # u => timer_id'[v] = timer_id[v]
      BY <3>5, Zenon
    <3> QED
      BY <2>1, <3>1, <3>2, <3>3, <3>4, BlocksKept, Zenon DEF OnlyFor
  <2> QED
    BY <2>1, <2>3, <2>4, StepOfOne, BlocksKept, Zenon
<1> QED
  BY <1>1, <1>2, <1>3, <1>4, Zenon

(* kexit. *)
LEMMA ExitSteps ==
  ASSUME SchedInv, SchedInv', Typed, Typed', TimerInv, NEW u \in User,
         KexitClose(u) \/ KexitWakeup(u) \/ KexitSchedule(u)
  PROVE  TimerInv'
<1> USE ThreadFacts, IdFacts
<1>0. UserInv(u) /\ waiter(u) \in Head_
  BY HeadFacts, Zenon DEF TimerInv
<1>1. /\ UNCHANGED <<timers, tm, timer_id, timeout, missed, walkVars>>
      /\ current = u /\ irq \in {"on", "off"} /\ irq' \in {"on", "off"}
      /\ \A w \in Thread : w # u => pc'[w] = pc[w]
  BY ZenonT(60) DEF KexitClose, KexitWakeup, KexitSchedule, Runs, kernelVars, timerVars, procVars,
     Typed, TypeOK
<1>2. CASE KexitClose(u)
  <2>1. /\ DestroyThread(u) /\ irq' = "off" /\ pc'[u] = "exit"
        /\ UNCHANGED current
    BY <1>2, Zenon DEF KexitClose, DestroyThread, Typed, TypeOK
  <2>2. \A g \in Head_, x \in Thread : In(list', g, x) <=> In(list, g, x) /\ x # u
    BY <2>1, DestroyRemoves, Zenon
  <2>3. UserInv(u)'
    BY <1>1, <2>1, <2>2, HeadFacts, AsleepFacts, Zenon
    DEF UserInv, OwnTimer, SleepsDown, ExitsAlone, NeedsTimer
  <2>4. OnlyFor(u)
    BY <1>1, <2>1, <2>2, BlocksKept, Zenon DEF OnlyFor, Head_
  <2> QED
    BY <1>1, <2>3, <2>4, StepOfOne, BlocksKept, Zenon
<1>3. CASE KexitWakeup(u)
  <2> DEFINE t == Head(list[waiter(u)])
  <2>1. /\ PtWakeup(t) /\ pc'[u] = "exit" /\ pc[u] = "exit" /\ irq' = irq
        /\ UNCHANGED current
        /\ list[waiter(u)] # <<>>
    BY <1>3, Zenon DEF KexitWakeup, PtWakeup, kernelVars
  <2>2. In(list, waiter(u), t)
    <3>1. list[waiter(u)] \in Seq(Thread)
      BY <1>0, Zenon DEF SchedInv, SchedTypeOK
    <3>2. 1 \in 1..Len(list[waiter(u)]) /\ list[waiter(u)][1] = t
      BY <2>1, <3>1, HeadIndex, Zenon
    <3> QED
      BY <3>2, Zenon DEF In
  <2> HIDE DEF t
  <2>3. t # u /\ t \in Thread
    BY <1>0, <2>1, <2>2, WakeupMoves, Zenon DEF UserInv, ExitsAlone
  <2>4. Moved(t, run_queue(priority[t])) /\ run_queue(priority[t]) \notin WaitHead
    BY <2>1, WakeupMoves, HeadFacts, Zenon DEF WaitHead
  <2>5. UserInv(u)'
    <3>1. \A h \in Head_ : ~In(list', h, u)
      BY <1>0, <2>1, <2>3, <2>4, Zenon DEF UserInv, ExitsAlone, Moved
    <3> QED
      BY <1>0, <1>1, <2>1, <3>1, HeadFacts, AsleepFacts, Zenon
      DEF UserInv, OwnTimer, SleepsDown, ExitsAlone, NeedsTimer
  <2>6. OnlyFor(u)
    <3>1. \A g \in WaitHead, v \in User : v # u /\ In(list', g, v) => In(list, g, v)
      BY <2>4, Zenon DEF Moved, Head_
    <3> QED
      BY <1>1, <2>1, <3>1, BlocksKept, Zenon DEF OnlyFor
  <2> QED
    BY <1>1, <2>1, <2>5, <2>6, StepOfOne, BlocksKept, Zenon
<1>4. CASE KexitSchedule(u)
  <2>1. Kept /\ Dispatched /\ pc[u] = "exit" /\ pc'[u] = "dead"
    BY <1>4, ScheduleKeeps, Zenon DEF KexitSchedule, Typed, TypeOK
  <2>2. UserInv(u)'
    <3>1. \A h \in Head_ : ~In(list', h, u)
      BY <1>0, <2>1, Zenon DEF UserInv, ExitsAlone, Kept
    <3> QED
      BY <2>1, <3>1, HeadFacts, AsleepFacts, Zenon
      DEF UserInv, OwnTimer, SleepsDown, ExitsAlone, NeedsTimer
  <2>3. OnlyFor(u)
    BY <1>1, <2>1, BlocksKept, Zenon DEF OnlyFor, Kept, Head_
  <2> QED
    BY <1>1, <2>2, <2>3, StepOfOne, BlocksKept, Zenon
<1> QED
  BY <1>2, <1>3, <1>4, Zenon

LEMMA TimerInvInit == Init => TimerInv
<1> SUFFICES ASSUME Init PROVE TimerInv
  OBVIOUS
<1> USE ThreadFacts, IdFacts
<1>1. \A u \in User, h \in Head_ : ~In(list, h, u)
  <2>1. /\ list[run_queue(0)] = <<Sysidle>>
        /\ \A h \in Head_ : h # run_queue(0) => list[h] = <<>>
    BY HeadFacts, Zenon DEF Init, SchedInit
  <2>2. ASSUME NEW u \in User, NEW h \in Head_, In(list, h, u)
        PROVE  FALSE
    <3>1. CASE h = run_queue(0)
      <4>1. Len(<<Sysidle>>) = 1 /\ <<Sysidle>>[1] = Sysidle
        BY Zenon
      <4>2. Len(list[h]) = 1 /\ list[h][1] = Sysidle
        BY <2>1, <3>1, <4>1, Zenon
      <4> QED
        BY <2>2, <4>2 DEF In
    <3>2. CASE h # run_queue(0)
      BY <2>1, <2>2, <3>2 DEF In
    <3> QED
      BY <3>1, <3>2, Zenon
  <2> QED
    BY <2>2, Zenon
<1>2. /\ pc[TimerThread] = "start"
      /\ \A u \in User : pc[u] = "run" /\ priority[u] = 0
  BY Zenon DEF Init, SchedInit
<1>3. ASSUME NEW u \in User
      PROVE  UserInv(u)
  BY <1>1, <1>2, HeadFacts, Zenon
  DEF UserInv, OwnTimer, SleepsDown, NeedsTimer, ExitsAlone, Asleep
<1> QED
  BY <1>2, <1>3, Zenon DEF TimerInv, Booting, Walking

LEMMA TimerInvStep ==
  ASSUME SchedInv, SchedInv', Typed, Typed', TimerInv, [Next]_allVars
  PROVE  TimerInv'
<1>1. CASE UNCHANGED allVars
  <2>1. /\ UNCHANGED <<list, current, priority, pc, irq, timers, tm, timer_id>>
        /\ UNCHANGED <<walk, isr_depth, dangling, timeout, missed>>
    BY <1>1, Zenon DEF allVars, schedVars, kernelVars, timerVars, walkVars, procVars
  <2> QED
    BY <2>1 DEF TimerInv, UserInv, OwnTimer, SleepsDown, NeedsTimer, ExitsAlone, Asleep,
       Waiting, Covered, HasTimer, OnList, Firing, Booting, Walking
<1>2. ASSUME NEW u \in User, UserContinues(u) \/ UserCalls(u)
      PROVE  TimerInv'
  BY <1>2, SleepSteps, WaitSteps, ExitSteps, Zenon DEF UserContinues, UserCalls
<1> QED
  BY <1>1, <1>2, BootStep, InterruptStep, IsrStepKeeps, ZenonT(60) DEF Next

LEMMA TimerInvariant == Spec => [](SchedInv /\ Typed /\ TimerInv)
  BY SchedInvUnderTimers, AlwaysTyped, TimerInvInit, TimerInvStep, PTL DEF Spec

(* Whoever sleeps in ksleep or waits in kwait_pid with a timeout has a     *)
(* timer that will wake it, for any number of processes and timers, any    *)
(* lengths of sleep and any interleaving with the timer thread.            *)
THEOREM SleepersCovered == Spec => []TimersHold
<1>1. Typed /\ TimerInv => TimersHold
  BY CoveredFacts, Zenon DEF Typed, TimerInv, UserInv, TimersHold
<1> QED
  BY <1>1, TimerInvariant, PTL
-----------------------------------------------------------------------------
(* The ways in which a step can change the lists of a process thread x: it *)
(* does so itself, in ksleep and kexit or in kwait_pid; its timer fires;   *)
(* kexit wakes it off the queue of a process; or kmain creates it.         *)
SameLists(x) == \A h \in Head_ : In(list', h, x) <=> In(list, h, x)

OwnStep(x) == /\ current = x /\ pc[x] \in {"run", "sleep"}
              /\ \A p \in User : ~In(list', waiter(p), x)

WaitsFor(x) == current = x /\ pc[x] = "found" /\ Moved(x, waiter(target[x]))

TimerFires(x) == /\ Firing(walk) /\ walk \in TimerId /\ OnList(walk)
                 /\ tm[walk].owner = x
                 /\ Moved(x, run_queue(priority[x]))

ExitWakes(x) == /\ \E p \in User : In(list, waiter(p), x)
                /\ Moved(x, run_queue(priority[x]))

LEMMA HowListsChange ==
  ASSUME SchedInv, Typed, [Next]_allVars, NEW x \in User
  PROVE  SameLists(x) \/ OwnStep(x) \/ WaitsFor(x) \/ TimerFires(x)
         \/ ExitWakes(x) \/ Boot(x)
<1> USE ThreadFacts, IdFacts
<1>0. /\ \A p \in User : waiter(p) \in Head_
      /\ \A u \in User : target[u] \in WaitQueue
      /\ \A u \in User : priority[u] \in Prio
  BY HeadFacts, Zenon DEF Typed, TypeOK, SchedInv, SchedTypeOK
<1>1. ASSUME NEW t \in Thread, Boot(t), t # x
      PROVE  SameLists(x)
  BY <1>1, BootLinks, Zenon DEF SameLists
<1>2. ASSUME NEW t \in Thread, t # x, PtWakeup(t)
      PROVE  SameLists(x)
  BY <1>2, WakeupMoves, Zenon DEF SameLists, Moved
<1>3. ASSUME Schedule \/ IrqExit
      PROVE  SameLists(x)
  BY <1>3, ScheduleKeeps, Zenon DEF SameLists, Kept
<1>4. ASSUME UNCHANGED list
      PROVE  SameLists(x)
  BY <1>4, Zenon DEF SameLists
<1>5. CASE IrqStep \/ Idle
  BY <1>2, <1>3, <1>4, <1>5, Zenon
  DEF IrqStep, TimerIrq, SliceOver, IrqReturn, Idle, SetNeedReschedule, schedVars
<1>6. CASE IsrStep
  <2>1. CASE IsrFire
    <3>1. /\ Firing(walk) /\ walk \in TimerId /\ OnList(walk)
          /\ PtWakeup(tm[walk].owner)
      BY <2>1 DEF IsrFire, Isr, Firing, OnList, Typed, TypeOK
    <3>2. tm[walk].owner \in Thread
      BY <3>1, WakeupMoves, Zenon
    <3> QED
      BY <1>2, <3>1, <3>2, WakeupMoves, Zenon DEF TimerFires
  <2>2. CASE IsrSchedule
    BY <1>3, <2>2, Zenon DEF IsrSchedule
  <2> QED
    BY <1>4, <1>6, <2>1, <2>2, Zenon DEF IsrStep, IsrStart, IsrTest, IsrFirePeriodic, IsrNext,
       IsrWild, IsrEnd, schedVars
<1>7. ASSUME NEW u \in User, UserContinues(u) \/ UserCalls(u)
      PROVE  SameLists(x) \/ OwnStep(x) \/ WaitsFor(x) \/ ExitWakes(x)
  <2>1. CASE KsleepZero(u) \/ KsleepSleep(u)
    <3>1. /\ current = u /\ pc[u] \in {"run", "sleep"}
          /\ \/ Moved(u, run_queue(priority[u]))
             \/ Moved(u, wait_queue(priority[u]))
      BY <2>1, SleepMoves, Zenon DEF KsleepZero, KsleepSleep, Runs
    <3> QED
      BY <1>0, <3>1, HeadFacts DEF OwnStep, SameLists, Moved
  <2>2. CASE KexitClose(u)
    <3>1. current = u /\ pc[u] = "run" /\ DestroyThread(u)
      BY <2>2, Zenon DEF KexitClose, Runs
    <3> QED
      BY <1>0, <3>1, DestroyRemoves, Zenon DEF OwnStep, SameLists
  <2>3. CASE KwaitPidInfinite(u) \/ (\E i \in TimerId : KwaitPidTimed(u, i)) \/ KwaitPidNobufs(u)
    <3>1. current = u /\ pc[u] = "found" /\ Moved(u, waiter(target[u]))
      BY <1>0, <2>3, WaitMoves, Zenon DEF KwaitPidInfinite, KwaitPidTimed, KwaitPidNobufs, Runs
    <3> QED
      BY <3>1, Zenon DEF WaitsFor, SameLists, Moved
  <2>4. CASE KexitWakeup(u)
    <3> DEFINE t == Head(list[waiter(u)])
    <3>1. PtWakeup(t) /\ list[waiter(u)] # <<>>
      BY <2>4, Zenon DEF KexitWakeup
    <3>2. In(list, waiter(u), t)
      <4>1. list[waiter(u)] \in Seq(Thread)
        BY <1>0, Zenon DEF SchedInv, SchedTypeOK
      <4>2. 1 \in 1..Len(list[waiter(u)]) /\ list[waiter(u)][1] = t
        BY <3>1, <4>1
      <4> QED
        BY <4>2, Zenon DEF In
    <3> HIDE DEF t
    <3> QED
      BY <1>2, <3>1, <3>2, WakeupMoves, Zenon DEF ExitWakes
  <2>5. CASE KexitSchedule(u)
    BY <1>3, <2>5, Zenon DEF KexitSchedule
  <2> QED
    BY <1>4, <1>7, <2>1, <2>2, <2>3, <2>4, <2>5, ZenonT(60)
    DEF UserContinues, UserCalls, KsleepReturn, KsleepRegister, KwaitPidOpen, KwaitPidReturn,
        schedVars
<1>8. CASE UNCHANGED allVars
  BY <1>4, <1>8, Zenon DEF allVars, schedVars
<1> QED
  BY <1>1, <1>5, <1>6, <1>7, <1>8, Zenon DEF Next

(* A process thread dies only in kexit's schedule(). *)
LEMMA HowThreadsDie ==
  ASSUME SchedInv, Typed, TimerInv, [Next]_allVars, NEW u \in User,
         pc'[u] = "dead", pc[u] # "dead"
  PROVE  /\ list[waiter(u)] = <<>> /\ Kept
         /\ \A h \in Head_ : ~In(list, h, u)
<1> USE ThreadFacts, IdFacts
<1>1. KexitSchedule(u)
  <2>0. pc \in [Thread -> {"run", "sleep", "slept", "found", "waited", "exit",
                        "dead", "start", "at", "fire", "next", "done", "wild"}]
    BY Zenon DEF Typed, TypeOK
  <2>1. ASSUME NEW v \in User, UserContinues(v) \/ UserCalls(v), ~KexitSchedule(u)
        PROVE  FALSE
    BY <2>0, <2>1, Zenon DEF UserContinues, UserCalls, KsleepSleep, KsleepReturn, KwaitPidInfinite,
       KwaitPidTimed, KwaitPidNobufs, KwaitPidReturn, KwaitPidEnds, KexitWakeup, KexitSchedule,
       KexitClose, KsleepZero, KsleepRegister, KwaitPidOpen, kernelVars
  <2>2. ASSUME NEW t \in Thread, Boot(t)
        PROVE  FALSE
    BY <2>2, Zenon DEF Boot
  <2>3. CASE IrqStep \/ Idle
    BY <2>3, Zenon DEF IrqStep, TimerIrq, SliceOver, IrqReturn, Idle, kernelVars
  <2>4. CASE IsrStep
    BY <2>0, <2>4, Zenon DEF IsrStep, IsrStart, IsrTest, IsrFire, IsrFirePeriodic, IsrNext, IsrWild,
       IsrEnd, IsrSchedule, IsrGoes
  <2>5. CASE UNCHANGED allVars
    BY <2>5, Zenon DEF allVars, kernelVars
  <2> QED
    BY <2>1, <2>2, <2>3, <2>4, <2>5, Zenon DEF Next
<1> QED
  BY <1>1, ScheduleKeeps, Zenon DEF KexitSchedule, TimerInv, UserInv, ExitsAlone

(* ksleep never returns before its time, whatever wakes and runs meanwhile *)
(* (ksleep, timerisr, pt_timer_callback), ...                              *)
LEMMA WakesInTime ==
  ASSUME SchedInv, SchedInv', Typed, TimerInv, [Next]_allVars, NEW u \in User,
         Asleep(u), ~Asleep(u)', ~dangling
  PROVE  \E i \in TimerId : Firing(i) /\ tm[i].owner = u /\ tm[i].left = 0
<1> USE ThreadFacts
<1>1. PICK j \in Prio : In(list, wait_queue(j), u) /\ ~In(list', wait_queue(j), u)
  BY AsleepFacts, Zenon
<1>2. /\ pc[u] = "slept" /\ wait_queue(j) \in Head_
      /\ \A p \in User : ~In(list, waiter(p), u)
      /\ u \in threads
  BY <1>1, HeadFacts, Zenon DEF TimerInv, UserInv, SleepsDown, SchedInv, OnOneList
<1>3. TimerFires(u)
  BY <1>1, <1>2, HowListsChange, Zenon
  DEF SameLists, OwnStep, WaitsFor, ExitWakes, Boot, KcreateThread
<1> QED
  BY <1>3, Zenon DEF TimerFires, Firing, TimerInv, Walking

(* ... kexit leaves nobody behind on the queue of its process, ... *)
LEMMA NobodyLeft ==
  ASSUME SchedInv, SchedInv', Typed, TimerInv, [Next]_allVars,
         NEW u \in User, NEW t \in User, pc'[u] = "dead", In(list', waiter(u), t)
  PROVE  \/ pc[u] = "dead" /\ In(list, waiter(u), t)
         \/ pc[u] = "dead" /\ pc[t] = "found" /\ target[t] = u
<1> USE ThreadFacts
<1>0. /\ waiter(u) \in Head_ /\ priority[t] \in Prio /\ target[t] \in User
      /\ \A p \in User : waiter(p) = waiter(u) => p = u
      /\ waiter(u) # run_queue(priority[t]) /\ waiter(u) # run_queue(0)
  <2>1. priority[t] \in Prio /\ target[t] \in User
    BY Zenon DEF SchedInv, SchedTypeOK, Typed, TypeOK
  <2>2. \A p \in User : waiter(p) = waiter(u) => p = u
    BY Zenon DEF waiter
  <2> QED
    BY <2>1, <2>2, HeadFacts, Zenon
<1>1. pc[u] = "dead"
  <2> SUFFICES ASSUME pc[u] # "dead" PROVE FALSE
    BY Zenon
  <2>1. list[waiter(u)] = <<>> /\ In(list, waiter(u), t)
    BY <1>0, HowThreadsDie, Zenon DEF Kept
  <2> QED
    BY <2>1 DEF In
<1>2. CASE Boot(t)
  BY <1>0, <1>1, <1>2, BootLinks, Zenon
<1> QED
  BY <1>0, <1>1, <1>2, HowListsChange, Zenon
  DEF SameLists, OwnStep, WaitsFor, TimerFires, ExitWakes, Moved

(* ... and a thread that has exited is linked again only by a timer that   *)
(* kwait_pid left behind.                                                  *)
LEMMA DeadIsDown ==
  ASSUME SchedInv, SchedInv', Typed, TimerInv, [Next]_allVars, NEW u \in User,
         pc'[u] = "dead", OnAList(list', u)
  PROVE  \/ pc[u] = "dead" /\ OnAList(list, u)
         \/ \E i \in TimerId : Firing(i) /\ tm[i].owner = u
<1> USE ThreadFacts
<1>1. DOMAIN list = Head_ /\ DOMAIN list' = Head_
  BY Zenon DEF SchedInv, SchedTypeOK
<1>2. PICK h \in Head_ : In(list', h, u)
  BY <1>1, Zenon DEF OnAList
<1>3. pc[u] = "dead"
  BY <1>2, HowThreadsDie, Zenon DEF Kept
<1>4. ~Boot(u)
  BY <1>3, Zenon DEF Boot, TimerInv, Booting
<1>5. \A p \in User : waiter(p) \in Head_
  BY HeadFacts, Zenon
<1> QED
  BY <1>1, <1>2, <1>3, <1>4, <1>5, HowListsChange, Zenon
  DEF SameLists, OwnStep, WaitsFor, TimerFires, ExitWakes, OnAList

(* What no step of the timers does, for any number of processes: wake a    *)
(* sleeper early, leave a waiter on the queue of a process that exits, or  *)
(* put a thread that has exited back on a list (but for a stray timer).    *)
THEOREM TimerStepsHold == Spec => TimerSteps
<1>1. SchedInv /\ SchedInv' /\ Typed /\ TimerInv /\ [Next]_allVars =>
        /\ \A u \in User : Asleep(u) /\ ~Asleep(u)' /\ ~dangling =>
             \E i \in TimerId : Firing(i) /\ tm[i].owner = u /\ tm[i].left = 0
        /\ \A u, t \in User : pc'[u] = "dead" /\ In(list', waiter(u), t) =>
             \/ pc[u] = "dead" /\ In(list, waiter(u), t)
             \/ pc[u] = "dead" /\ pc[t] = "found" /\ target[t] = u
        /\ \A u \in User : pc'[u] = "dead" /\ OnAList(list', u) =>
             \/ pc[u] = "dead" /\ OnAList(list, u)
             \/ \E i \in TimerId : Firing(i) /\ tm[i].owner = u
  BY WakesInTime, NobodyLeft, DeadIsDown, Zenon
<1> QED
  BY <1>1, TimerInvariant, PTL DEF Spec, TimerSteps, NeverEarly, WaitersWoken, DeadStaysDown
=============================================================================
