------------------------------- MODULE Procs -------------------------------
(***************************************************************************)
(* Processes in Kernel/kthread.c: the family (p_parent, p_child and the    *)
(* ring of p_silbing), kcreate_process, kexit, kterminate_proc and kwait,  *)
(* which sleeps on a wait queue on its own stack that the children's p_w4q *)
(* point to.  A process has one thread.  kexit runs with interrupts off    *)
(* and is one action; the others are split where an interrupt can fall     *)
(* between a read and its use.  A page of a process is used once; reads of *)
(* a freed one are recorded in `dangling'.  Waiting for a pid is in        *)
(* Timers.tla.                                                             *)
(***************************************************************************)
EXTENDS ListOps, Integers, FiniteSets

CONSTANTS Proc,     \* the pages kcreate_process can get for a kprocess_t
          First,    \* the process the kernel starts: it has no parent
          None      \* NULL

ASSUME ProcAssumption == IsFiniteSet(Proc) /\ First \in Proc /\ None \notin Proc

VARIABLES state,    \* "new", "live", "closing" (threads destroyed) or "freed"
          parent,   \* p_parent
          child,    \* p_child
          sib,      \* the pointers of p_silbing
          w4q,      \* p_w4q: the process whose kwait owns the queue, or None
          asleep,   \* processes asleep in kwait
          pc,       \* where each live process is
          local,    \* its p_child or victim, read before it is used
          dangling, \* history: a freed process was dereferenced
          deadwq,   \* history: a wait queue of a finished kwait was walked
          left,     \* history: an exiting process stayed linked on a ring
          crossed   \* history: kterminate_proc was cut short, or met a kwait

procVars == <<state, parent, child, sib, w4q, asleep, pc, local,
          dangling, deadwq, left, crossed>>

ProcsInit ==
  /\ state = [p \in Proc |-> IF p = First THEN "live" ELSE "new"]
  /\ parent = [p \in Proc |-> None]
  /\ child = [p \in Proc |-> None]
  /\ sib = [next |-> [p \in Proc |-> p], prev |-> [p \in Proc |-> p]]
  /\ w4q = [p \in Proc |-> None]
  /\ asleep = {}
  /\ pc = [p \in Proc |-> "run"]
  /\ local = [p \in Proc |-> None]
  /\ dangling = FALSE /\ deadwq = FALSE /\ left = FALSE /\ crossed = FALSE

Freed(S) == \E p \in S : p # None /\ state[p] = "freed"

Runs(q, l) == state[q] = "live" /\ q \notin asleep /\ pc[q] = l

(* kcreate_process up to the test of parent->p_child: the child is built   *)
(* and p_child is read.  When it cannot be loaded nothing stays.           *)
CreateRead(q, p) ==
  /\ Runs(q, "run")
  /\ state[p] = "new" /\ parent[p] = None
  /\ parent' = [parent EXCEPT ![p] = q]
  /\ local' = [local EXCEPT ![q] = child[q]]
  /\ pc' = [pc EXCEPT ![q] = "link"]
  /\ UNCHANGED <<state, child, sib, w4q, asleep, dangling, deadwq, left, crossed>>

(* A slip: the new child replaces p_child without joining its ring. *)
CreateLink_replace(q, p) ==
  /\ Runs(q, "link")
  /\ state[p] = "new" /\ parent[p] = q
  /\ child' = [child EXCEPT ![q] = p]
  /\ state' = [state EXCEPT ![p] = "live"]
  /\ pc' = [pc EXCEPT ![q] = "run"]
  /\ local' = [local EXCEPT ![q] = None]
  /\ UNCHANGED <<parent, sib, w4q, asleep, dangling, deadwq, left, crossed>>

(* The rest of kcreate_process: join the ring of p_child or become it; the *)
(* thread is created and can run.                                          *)
CreateLink(q, p) ==
  /\ Runs(q, "link")
  /\ state[p] = "new" /\ parent[p] = q
  /\ IF local[q] = None
     THEN child' = [child EXCEPT ![q] = p] /\ UNCHANGED sib
     ELSE sib' = list_add(sib, local[q], p) /\ UNCHANGED child
  /\ dangling' = (dangling \/ Freed({local[q]}))
  /\ state' = [state EXCEPT ![p] = "live"]
  /\ pc' = [pc EXCEPT ![q] = "run"]
  /\ local' = [local EXCEPT ![q] = None]
  /\ UNCHANGED <<parent, w4q, asleep, deadwq, left, crossed>>

(* kclose_proc's wakeup_waiters(proc->p_w4q), if that kwait still runs. *)
Woken(p) == {w4q[p]} \cap asleep

DeadQueue(p) == w4q[p] # None /\ w4q[p] \notin asleep

(* A slip: the p_silbing of the process that leaves is cleared. *)
Unlink_null(p) ==
  LET par == parent[p]
      first == par # None /\ child[par] = p
      alone == sib.next[p] = p
  IN  /\ child' = IF first
                  THEN [child EXCEPT ![par] = IF alone THEN None ELSE sib.next[p]]
                  ELSE child
      /\ sib' = IF first /\ ~alone THEN list_del_null(sib, p) ELSE sib
      /\ dangling' = (\/ dangling
                      \/ Freed({p, par})
                      \/ first /\ Freed({sib.next[p], sib.prev[p]}))
      /\ left' = (left \/ (~first /\ ~alone))

(* kclose_proc's end: if proc is its parent's p_child, the next sibling    *)
(* takes its place and proc leaves the ring; otherwise it stays there.     *)
Unlink(p) ==
  LET par == parent[p]
      first == par # None /\ child[par] = p
      alone == sib.next[p] = p
  IN  /\ child' = IF first
                  THEN [child EXCEPT ![par] = IF alone THEN None ELSE sib.next[p]]
                  ELSE child
      /\ sib' = IF first /\ ~alone THEN list_del(sib, p) ELSE sib
      /\ dangling' = (\/ dangling
                      \/ Freed({p, par})
                      \/ first /\ Freed({sib.next[p], sib.prev[p]}))
      /\ left' = (left \/ (~first /\ ~alone))

(* kexit: kclose_proc of oneself, with interrupts off. *)
Kexit(p) ==
  /\ Runs(p, "run")
  /\ asleep' = asleep \ Woken(p)
  /\ deadwq' = (deadwq \/ DeadQueue(p))
  /\ Unlink(p)
  /\ state' = [state EXCEPT ![p] = "freed"]
  /\ UNCHANGED <<parent, w4q, pc, local, crossed>>

(* kterminate_proc: kopen_process finds another process. *)
KillOpen(q, p) ==
  /\ Runs(q, "run")
  /\ state[p] = "live" /\ p # q
  /\ local' = [local EXCEPT ![q] = p]
  /\ pc' = [pc EXCEPT ![q] = "kill"]
  /\ UNCHANGED <<state, parent, child, sib, w4q, asleep,
                 dangling, deadwq, left, crossed>>

(* kclose_proc of the victim destroys its threads and takes it off         *)
(* sys_proc.  A victim inside kterminate_proc never finishes it.           *)
KillShutdown(q) ==
  LET p == local[q] IN
  /\ Runs(q, "kill")
  /\ state' = [state EXCEPT ![p] = IF @ = "freed" THEN @ ELSE "closing"]
  /\ asleep' = asleep \ {p}
  /\ dangling' = (dangling \/ Freed({p}))
  /\ crossed' = (crossed \/ pc[p] \in {"kill", "wake", "unlink"})
  /\ pc' = [pc EXCEPT ![q] = "wake", ![p] = "run"]
  /\ local' = [local EXCEPT ![p] = None]
  /\ UNCHANGED <<parent, child, sib, w4q, deadwq, left>>

KillWake(q) ==
  LET p == local[q] IN
  /\ Runs(q, "wake")
  /\ asleep' = asleep \ Woken(p)
  /\ deadwq' = (deadwq \/ DeadQueue(p))
  /\ dangling' = (dangling \/ Freed({p}))
  /\ pc' = [pc EXCEPT ![q] = "unlink"]
  /\ UNCHANGED <<state, parent, child, sib, w4q, local, left, crossed>>

KillUnlink(q) ==
  /\ Runs(q, "unlink")
  /\ Unlink(local[q])
  /\ state' = [state EXCEPT ![local[q]] = "freed"]
  /\ pc' = [pc EXCEPT ![q] = "run"]
  /\ local' = [local EXCEPT ![q] = None]
  /\ UNCHANGED <<parent, w4q, asleep, deadwq, crossed>>

(* kwait reads p_child with interrupts on; without a child it returns. *)
KwaitRead(q) ==
  /\ Runs(q, "run")
  /\ child[q] # None
  /\ local' = [local EXCEPT ![q] = child[q]]
  /\ pc' = [pc EXCEPT ![q] = "kwait"]
  /\ UNCHANGED <<state, parent, child, sib, w4q, asleep,
                 dangling, deadwq, left, crossed>>

(* The processes on p's ring, p included. *)
Ring(p) ==
  LET Walk[k \in Nat] == IF k = 0 THEN p ELSE sib.next[Walk[k - 1]]
  IN  {Walk[k] : k \in 0..Cardinality(Proc)}

(* kterminate_proc has woken the waiters of one of S, and not freed it. *)
Past(S) == \E o \in Proc : pc[o] = "unlink" /\ local[o] \in S

(* A slip: only the first child knows the queue. *)
KwaitBlock_first(q) ==
  /\ Runs(q, "kwait")
  /\ w4q' = [w4q EXCEPT ![local[q]] = q]
  /\ asleep' = asleep \cup {q}
  /\ dangling' = (dangling \/ Freed(Ring(local[q])))
  /\ crossed' = (crossed \/ Past(Ring(local[q])))
  /\ pc' = [pc EXCEPT ![q] = "run"]
  /\ local' = [local EXCEPT ![q] = None]
  /\ UNCHANGED <<state, parent, child, sib, deadwq, left>>

(* With interrupts off: every process on the ring is told of the queue. *)
KwaitBlock(q) ==
  /\ Runs(q, "kwait")
  /\ w4q' = [p \in Proc |-> IF p \in Ring(local[q]) THEN q ELSE w4q[p]]
  /\ asleep' = asleep \cup {q}
  /\ dangling' = (dangling \/ Freed(Ring(local[q])))
  /\ crossed' = (crossed \/ Past(Ring(local[q])))
  /\ pc' = [pc EXCEPT ![q] = "run"]
  /\ local' = [local EXCEPT ![q] = None]
  /\ UNCHANGED <<state, parent, child, sib, deadwq, left>>

ProcsNext ==
  \E q \in Proc :
    \/ \E p \in Proc : CreateRead(q, p)
    \/ \E p \in Proc : CreateLink(q, p)
    \/ Kexit(q)
    \/ \E p \in Proc : KillOpen(q, p)
    \/ KillShutdown(q)
    \/ KillWake(q)
    \/ KillUnlink(q)
    \/ KwaitRead(q)
    \/ KwaitBlock(q)

ProcsSpec == ProcsInit /\ [][ProcsNext]_procVars
-----------------------------------------------------------------------------
ProcsTypeOK ==
  /\ state \in [Proc -> {"new", "live", "closing", "freed"}]
  /\ parent \in [Proc -> Proc \cup {None}]
  /\ child \in [Proc -> Proc \cup {None}]
  /\ sib \in [next : [Proc -> Proc], prev : [Proc -> Proc]]
  /\ w4q \in [Proc -> Proc \cup {None}]
  /\ asleep \subseteq Proc
  /\ pc \in [Proc -> {"run", "link", "kill", "wake", "unlink", "kwait"}]
  /\ local \in [Proc -> Proc \cup {None}]
  /\ {dangling, deadwq, left, crossed} \subseteq BOOLEAN

(* The processes made by q that kclose_proc has not unlinked yet. *)
Children(q) == {p \in Proc : parent[p] = q /\ state[p] \in {"live", "closing"}}

(* Creation, exit and termination keep the family right: p_child and its   *)
(* ring are exactly the children, as long as only first children ended and *)
(* no freed process was used.                                              *)
FamilyKept ==
  ~dangling /\ ~left =>
    \A q \in Proc : state[q] = "live" =>
      IF child[q] = None THEN Children(q) = {} ELSE Ring(child[q]) = Children(q)

(* No wake-up is lost: a process asleep in kwait has children, and each of *)
(* them will wake it when it ends ("we should wait for every child"), also *)
(* when children end or are terminated while kwait walks them and in       *)
(* whatever order they end, as long as no freed process was used, nobody   *)
(* died inside kterminate_proc and no kwait came between its wake-ups and  *)
(* the end of its victim.                                                  *)
EachChildWakes ==
  ~dangling /\ ~crossed =>
    \A q \in asleep : state[q] = "live" =>
      Children(q) # {} /\ \A p \in Children(q) : w4q[p] = q

(* Where the run stops: what lies behind a freed process, or a wait queue  *)
(* of a kwait that has returned, is not modelled.                          *)
StaySound == ~dangling /\ ~deadwq

(* Parents and children agree, and a parent asleep in kwait is on the wait *)
(* queue of each of its children, whatever the order in which they end     *)
(* (kcreate_process, kwait, kterminate_proc, kclose_proc).                 *)
FamiliesHold == ProcsTypeOK /\ FamilyKept /\ EachChildWakes
=============================================================================
