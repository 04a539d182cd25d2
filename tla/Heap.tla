-------------------------------- MODULE Heap --------------------------------
(***************************************************************************)
(* The kernel's heap: kmalloc and kfree of Kernel/malloc.c over bget, brel *)
(* and bpool of Kernel/bget.c.  Memory is counted in words of SizeQuant    *)
(* bytes; a header is two words (prevfree, bsize), the links of a free     *)
(* buffer the two words after it.  hd has the headers the heap may read: a *)
(* header that becomes part of a buffer is dropped, and reading it again   *)
(* would be an error of the model.  kmalloc adds a pool to the heap with   *)
(* interrupts enabled; bget and brel run with interrupts off.              *)
(***************************************************************************)
EXTENDS Integers, FiniteSets, Functions, TLC

CONSTANTS HThread,   \* threads of the kernel
          Request,   \* sizes asked for
          PoolLen,   \* words of a pool
          MaxPools   \* pools there are pages for

BHead == 2
SizeQ == 2
ESent == -10000
freelist == 0
PoolAt(k) == 1 + (k - 1) * PoolLen

VARIABLES hd,       \* headers: address -> prevfree and bsize
          flink,    \* links of the free buffers and of freelist
          blink,
          owned,     \* buffers handed out: address -> size asked for
          pools,    \* pools there are
          hpc,      \* where each thread is
          want,     \* the size it asks for
          newpool,  \* the pool it adds
          mixed     \* history: two threads were in the heap at a time

heapVars == <<hd, flink, blink, owned, pools, hpc, want, newpool, mixed>>

PoolHead(k, size) == (PoolAt(k) :> [prevfree |-> 0, bsize |-> size])
PoolEnd(k) == (PoolAt(k) + PoolLen - BHead :> [prevfree |-> PoolLen - BHead, bsize |-> ESent])

HeapInit ==
  /\ hd = PoolHead(1, PoolLen - BHead) @@ PoolEnd(1)
  /\ flink = (freelist :> PoolAt(1)) @@ (PoolAt(1) :> freelist)
  /\ blink = (freelist :> PoolAt(1)) @@ (PoolAt(1) :> freelist)
  /\ owned = <<>>
  /\ pools = 1
  /\ hpc = [t \in HThread |-> "idle"]
  /\ want = [t \in HThread |-> 1]
  /\ newpool = [t \in HThread |-> 0]
  /\ mixed = FALSE

(* A pool is being linked in, half of it done. *)
Linking == \E t \in HThread : hpc[t] \in {"blink", "flink", "bsize", "sent"}

Drop(f, a) == Restrict(f, DOMAIN f \ {a})

(* The free buffers in the order of the list. *)
FreeAt(k) ==
  LET at[i \in 0 .. k] == IF i = 0 THEN flink[freelist]
                          ELSE IF at[i - 1] = freelist THEN freelist
                          ELSE flink[at[i - 1]]
  IN  at[k]

Free == DOMAIN flink \ {freelist}

(* Header and quantum added to the size asked for. *)
Need(n) == (IF n < SizeQ THEN SizeQ ELSE n) + BHead

(* The best fit, the first of those in the list; freelist if there is none. *)
BestFit(size) ==
  LET fits == {i \in 0 .. Cardinality(Free) :
                 FreeAt(i) # freelist /\ hd[FreeAt(i)].bsize >= size}
      best == {i \in fits : \A j \in fits : hd[FreeAt(i)].bsize <= hd[FreeAt(j)].bsize}
  IN  IF fits = {} THEN freelist
      ELSE FreeAt(CHOOSE i \in best : \A j \in best : i <= j)

(* The upper end of a free buffer is handed out. *)
Split_first(t, b, size) ==
  LET ba == b + hd[b].bsize - size
  IN  /\ hd' = [hd EXCEPT ![b].bsize = @ - size]
               @@ (ba :> [prevfree |-> hd[b].bsize - size, bsize |-> -size])
      /\ owned' = owned @@ (ba + BHead :> want[t])
      /\ UNCHANGED <<flink, blink>>

Split(t, b, size) ==
  LET ba == b + hd[b].bsize - size
      bn == ba + size
  IN  /\ hd' = [hd EXCEPT ![b].bsize = @ - size, ![bn].prevfree = 0]
               @@ (ba :> [prevfree |-> hd[b].bsize - size, bsize |-> -size])
      /\ owned' = owned @@ (ba + BHead :> want[t])
      /\ UNCHANGED <<flink, blink>>

Unlink(b) ==
  /\ flink' = Drop([flink EXCEPT ![blink[b]] = flink[b]], b)
  /\ blink' = Drop([blink EXCEPT ![flink[b]] = blink[b]], b)

(* It is too small to be split, and handed out whole. *)
Whole(t, b) ==
  LET ba == b + hd[b].bsize
  IN  /\ hd' = [hd EXCEPT ![b].bsize = -@, ![ba].prevfree = 0]
      /\ Unlink(b)
      /\ owned' = owned @@ (b + BHead :> want[t])

bget(t) ==
  /\ hpc[t] = "again"
  /\ IF Linking
     THEN mixed' = TRUE /\ UNCHANGED <<hd, flink, blink, owned, hpc>>
     ELSE LET size == Need(want[t])
              b == BestFit(size)
          IN  /\ IF b = freelist THEN UNCHANGED <<hd, flink, blink, owned>>
                 ELSE IF hd[b].bsize - size > SizeQ + BHead THEN Split(t, b, size)
                 ELSE Whole(t, b)
              /\ hpc' = [hpc EXCEPT ![t] = IF b = freelist THEN "grow" ELSE "idle"]
              /\ UNCHANGED mixed
  /\ UNCHANGED <<pools, want, newpool>>

kmalloc(t, n) ==
  /\ hpc[t] = "idle"
  /\ want' = [want EXCEPT ![t] = n]
  /\ hpc' = [hpc EXCEPT ![t] = "again"]
  /\ UNCHANGED <<hd, flink, blink, owned, pools, newpool, mixed>>

(* Four megabytes are asked of the page allocator, or the call fails. *)
Grow(t) ==
  /\ hpc[t] = "grow"
  /\ IF pools < MaxPools
     THEN /\ pools' = pools + 1
          /\ newpool' = [newpool EXCEPT ![t] = pools + 1]
          /\ hpc' = [hpc EXCEPT ![t] = "bpool"]
     ELSE hpc' = [hpc EXCEPT ![t] = "idle"] /\ UNCHANGED <<pools, newpool>>
  /\ UNCHANGED <<hd, flink, blink, owned, want, mixed>>

(* bpool, a store at a time: the links of the new buffer ... *)
PoolLinks(t) ==
  LET b == PoolAt(newpool[t])
  IN  /\ hpc[t] = "bpool"
      /\ hd' = PoolHead(newpool[t], 0) @@ hd
      /\ flink' = (b :> freelist) @@ flink
      /\ blink' = (b :> blink[freelist]) @@ blink
      /\ hpc' = [hpc EXCEPT ![t] = "blink"]
      /\ mixed' = (mixed \/ Linking)
      /\ UNCHANGED <<owned, pools, want, newpool>>

(* ... the end of the list ... *)
PoolTail(t) ==
  /\ hpc[t] = "blink"
  /\ blink' = [blink EXCEPT ![freelist] = PoolAt(newpool[t])]
  /\ hpc' = [hpc EXCEPT ![t] = "flink"]
  /\ UNCHANGED <<hd, flink, owned, pools, want, newpool, mixed>>

(* ... the buffer that was last ... *)
PoolLast(t) ==
  LET b == PoolAt(newpool[t])
  IN  /\ hpc[t] = "flink"
      /\ flink' = [flink EXCEPT ![blink[b]] = b]
      /\ hpc' = [hpc EXCEPT ![t] = "bsize"]
      /\ UNCHANGED <<hd, blink, owned, pools, want, newpool, mixed>>

(* ... its size, and the sentinel at its end. *)
PoolSize(t) ==
  /\ hpc[t] = "bsize"
  /\ hd' = [hd EXCEPT ![PoolAt(newpool[t])].bsize = PoolLen - BHead]
  /\ hpc' = [hpc EXCEPT ![t] = "sent"]
  /\ UNCHANGED <<flink, blink, owned, pools, want, newpool, mixed>>

PoolSent(t) ==
  /\ hpc[t] = "sent"
  /\ hd' = PoolEnd(newpool[t]) @@ hd
  /\ hpc' = [hpc EXCEPT ![t] = "again"]
  /\ UNCHANGED <<flink, blink, owned, pools, want, newpool, mixed>>

bpool(t) == PoolLinks(t) \/ PoolTail(t) \/ PoolLast(t) \/ PoolSize(t) \/ PoolSent(t)

(* The buffer joins the free one before it, or goes to the end of the      *)
(* list; then the free one after it joins.                                 *)
brel(t, buf) ==
  LET b == buf - BHead
      size == -hd[b].bsize
      joins == hd[b].prevfree # 0
      start == IF joins THEN b - hd[b].prevfree ELSE b
      len == IF joins THEN hd[start].bsize + size ELSE size
      next == start + len
      more == hd[next].bsize > 0
      total == IF more THEN len + hd[next].bsize ELSE len
      after == start + total
      h == IF joins THEN Drop(hd, b) ELSE hd
      fl == IF joins THEN flink
            ELSE (b :> freelist) @@ [flink EXCEPT ![blink[freelist]] = b]
      bl == IF joins THEN blink
            ELSE (b :> blink[freelist]) @@ [blink EXCEPT ![freelist] = b]
  IN  /\ hpc[t] = "idle"
      /\ IF Linking THEN mixed' = TRUE /\ UNCHANGED <<hd, flink, blink, owned>>
         ELSE /\ hd' = [(IF more THEN Drop(h, next) ELSE h) EXCEPT
                          ![start].bsize = total, ![after].prevfree = total]
              /\ flink' = IF more THEN Drop([fl EXCEPT ![bl[next]] = fl[next]], next) ELSE fl
              /\ blink' = IF more THEN Drop([bl EXCEPT ![fl[next]] = bl[next]], next) ELSE bl
              /\ owned' = Drop(owned, buf)
              /\ UNCHANGED mixed
      /\ UNCHANGED <<pools, hpc, want, newpool>>

kfree(t) == \E buf \in DOMAIN owned : brel(t, buf)

HeapNext ==
  \E t \in HThread :
    (\E n \in Request : kmalloc(t, n)) \/ bget(t) \/ Grow(t) \/ bpool(t) \/ kfree(t)

HeapSpec == HeapInit /\ [][HeapNext]_heapVars
HeapSound == ~mixed

-----------------------------------------------------------------------------
Size(a) == IF hd[a].bsize < 0 THEN -hd[a].bsize ELSE hd[a].bsize
Buffers == {a \in DOMAIN hd : hd[a].bsize # ESent}
Before(a) == {p \in Buffers : p + Size(p) = a}

(* While no thread adds a pool as another one uses the heap: the buffers   *)
(* cover every pool without gap or overlap, two free ones are never next   *)
(* to each other, each knows whether the one before it is free, the list   *)
(* has just the free ones and reads the same both ways, and every buffer   *)
(* that was handed out is there and as large as was asked for.  (The       *)
(* assertions of bget and brel follow.)                                    *)
HeapHolds ==
  ~mixed /\ ~Linking =>
    /\ \A a \in Buffers : Size(a) > 0 /\ a + Size(a) \in DOMAIN hd
    /\ \A a \in DOMAIN hd :
         IF \E k \in 1 .. pools : a = PoolAt(k)
         THEN Before(a) = {} /\ hd[a].prevfree = 0
         ELSE \E p \in Buffers :
                /\ Before(a) = {p}
                /\ hd[a].prevfree = IF hd[p].bsize > 0 THEN hd[p].bsize ELSE 0
                /\ ~(hd[p].bsize > 0 /\ hd[a].bsize > 0)
    /\ Free = {a \in Buffers : hd[a].bsize > 0}
    /\ \A a \in DOMAIN flink : blink[flink[a]] = a /\ flink[blink[a]] = a
    /\ {FreeAt(i) : i \in 0 .. Cardinality(Free)} = Free \cup {freelist}
    /\ DOMAIN owned = {a + BHead : a \in Buffers \ Free}
    /\ \A buf \in DOMAIN owned : Size(buf - BHead) - BHead >= owned[buf]
=============================================================================
