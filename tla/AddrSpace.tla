----------------------------- MODULE AddrSpace -----------------------------
(***************************************************************************)
(* The pages of a process: map_page and map_pages (Kernel/page.c), and in  *)
(* Kernel/kthread.c the list of everything a process allocated (vm_insert, *)
(* kproc_free_pages), setup_arg_env, setup_thread_stack, ksbrk and         *)
(* copy_to_user.  User space is UserPages pages of Page bytes, the top of  *)
(* it laid out as page.h does: two stack pages, the arguments and the      *)
(* environment.  A block of several pages counts as one frame.             *)
(***************************************************************************)
EXTENDS Integers, Sequences, FiniteSets, FiniteSetsExt, SequencesExt

CONSTANTS AProc,       \* processes
          Frames,      \* page frames, 1 .. n
          VmMax,       \* slots of a process's list of frames
          UserPages,   \* pages of user space
          TablePages,  \* pages one page table maps
          Page,        \* bytes in a page
          Segment,     \* loadable segments: [va, size]
          Incr,        \* arguments of sbrk
          MaxProcs     \* processes made

EnvPage == UserPages - 2
ArgPage == UserPages - 4
StackPages == {UserPages - 6, UserPages - 5}

VARIABLES pt,       \* frame of every user page of every process, or 0
          pgd,      \* frame of every page table, or 0
          vm,       \* mm.vm_page: the frames of a process, in order
          frames,   \* free frames
          phase,    \* how far the life of a process is
          loaded,   \* history: segments mapped
          heap,     \* where its heap began, and mm.image.brk
          halted,   \* BUG or a failed assertion stopped the kernel
          made,     \* processes made so far
          torn,     \* history: a list was read after its page was freed
          copied    \* the last copy_to_user: outcome, and whether
                    \* the probes reach to its end

spaceVars == <<pt, pgd, vm, frames, phase, loaded, heap, halted, made, torn, copied>>

NoCopy == [out |-> "none", even |-> TRUE]

SpaceInit ==
  /\ pt = [p \in AProc |-> [v \in 0 .. UserPages - 1 |-> 0]]
  /\ pgd = [p \in AProc |-> [t \in 0 .. (UserPages - 1) \div TablePages |-> 0]]
  /\ vm = [p \in AProc |-> <<>>]
  /\ frames = Frames
  /\ phase = [p \in AProc |-> "none"]
  /\ loaded = [p \in AProc |-> {}]
  /\ heap = [p \in AProc |-> <<0, 0>>]
  /\ halted = FALSE /\ torn = FALSE /\ made = 0
  /\ copied = NoCopy

-----------------------------------------------------------------------------
(* The operations work on what they change of a process.  A BUG stops      *)
(* everything: what follows it is not run.                                 *)
Space(p) == [pt |-> pt[p], pgd |-> pgd[p], vm |-> vm[p], free |-> frames, bug |-> FALSE]

Bug(s) == [s EXCEPT !.bug = TRUE]

(* get_zero_page; without a page left the callers fail their assertions. *)
NextFrame(s) == Min(s.free)
Taken(s) == [s EXCEPT !.free = @ \ {NextFrame(s)}]

vm_insert(s, f) == IF s.bug \/ Len(s.vm) = VmMax THEN Bug(s) ELSE [s EXCEPT !.vm = Append(@, f)]

(* A page for the process itself, not mapped: its descriptor, the list,    *)
(* the page directory, its files, its thread.                              *)
Own(s) == IF s.bug \/ s.free = {} THEN Bug(s) ELSE vm_insert(Taken(s), NextFrame(s))

(* A slip: the page table is not put on the list. *)
Table_lost(s, t) ==
  IF s.bug \/ s.pgd[t] # 0 THEN s
  ELSE IF s.free = {} THEN Bug(s) ELSE [Taken(s) EXCEPT !.pgd[t] = NextFrame(s)]

Table(s, t) ==
  IF s.bug \/ s.pgd[t] # 0 THEN s
  ELSE IF s.free = {} THEN Bug(s)
  ELSE vm_insert([Taken(s) EXCEPT !.pgd[t] = NextFrame(s)], NextFrame(s))

(* A page that is mapped already is a BUG, and so is one of the kernel's. *)
map_page(s, v, f) ==
  LET t == Table(s, v \div TablePages)
  IN  IF t.bug \/ v >= UserPages \/ t.pt[v] # 0 THEN Bug(t) ELSE [t EXCEPT !.pt[v] = f]

(* The two orders in which the callers map a new page and list it. *)
ListThenMap(s, v) ==
  IF s.bug \/ s.free = {} THEN Bug(s)
  ELSE map_page(vm_insert(Taken(s), NextFrame(s)), v, NextFrame(s))

MapThenList(s, v) ==
  IF s.bug \/ s.free = {} THEN Bug(s)
  ELSE vm_insert(map_page(Taken(s), v, NextFrame(s)), NextFrame(s))

Up(n) == (n + Page - 1) \div Page

(* How many pages map_pages maps: one too few for a multiple of the page   *)
(* size that does not begin at a page.                                     *)
PageCount(va, size) == Up(size) + (IF (va % Page) + (size % Page) > Page THEN 1 ELSE 0)

Run(s, first, n, Op(_, _)) ==
  LET at[k \in 0 .. n] == IF k = 0 THEN s ELSE LET q == at[k - 1] IN Op(q, first + k - 1)
  IN  at[n]

map_pages(s, va, size) == Run(s, va \div Page, PageCount(va, size), ListThenMap)

(* Put a process's pages back into the state, or stop at the BUG. *)
Commit(p, s) ==
  IF s.bug THEN halted' = TRUE /\ UNCHANGED <<pt, pgd, vm, frames>>
  ELSE /\ pt' = [pt EXCEPT ![p] = s.pt]
       /\ pgd' = [pgd EXCEPT ![p] = s.pgd]
       /\ vm' = [vm EXCEPT ![p] = s.vm]
       /\ frames' = s.free
       /\ UNCHANGED halted

-----------------------------------------------------------------------------
(* kcreate_process up to load_binary: its own pages, then setup_arg_env. *)
Create(p, args, env) ==
  LET own == Own(Own(Own(Own(Space(p)))))
      a == IF args THEN MapThenList(own, ArgPage) ELSE own
      e == IF env THEN MapThenList(a, EnvPage) ELSE a
  IN  /\ phase[p] = "none" /\ made < MaxProcs
      /\ made' = made + 1
      /\ phase' = [phase EXCEPT ![p] = "load"]
      /\ Commit(p, e)
      /\ copied' = NoCopy
      /\ UNCHANGED <<loaded, heap, torn>>

Ends(p) == {Up(g.va + g.size) : g \in loaded[p]}

(* A segment, mapped in load_elf or load_elf_shared_library. *)
Load(p, g) ==
  /\ phase[p] = "load" /\ g \notin loaded[p]
  /\ loaded' = [loaded EXCEPT ![p] = @ \cup {g}]
  /\ Commit(p, map_pages(Space(p), g.va, g.size))
  /\ copied' = NoCopy
  /\ UNCHANGED <<phase, heap, torn, made>>

(* The break, then the thread and its stack. *)
Start(p) ==
  /\ phase[p] = "load" /\ loaded[p] # {}
  /\ phase' = [phase EXCEPT ![p] = "run"]
  /\ heap' = [heap EXCEPT ![p] = <<Max(Ends(p)), Max(Ends(p))>>]
  /\ Commit(p, Run(Own(Space(p)), Min(StackPages), Cardinality(StackPages), ListThenMap))
  /\ copied' = NoCopy
  /\ UNCHANGED <<loaded, torn, made>>

(* sys_sbrk turns a negative increment down; the break stays page aligned. *)
ksbrk(p, incr) ==
  LET brk == heap[p][2]
  IN  /\ phase[p] = "run" /\ incr > 0
      /\ heap' = [heap EXCEPT ![p][2] = brk + Up(incr)]
      /\ Commit(p, Run(Space(p), brk, Up(incr), MapThenList))
      /\ copied' = NoCopy
      /\ UNCHANGED <<phase, loaded, torn, made>>

(* probe_for_write at the first byte of each run of a page; a copy that    *)
(* begins inside a page ends behind the last one probed.                   *)
copy_to_user(p, a, n) ==
  LET probed == {(a + i * Page) \div Page : i \in 0 .. Up(n) - 1}
      fits == a + Up(n) * Page <= UserPages * Page
      touched == {b \div Page : b \in a .. a + n - 1}
      ok == fits /\ \A v \in probed : pt[p][v] # 0
  IN  /\ phase[p] = "run"
      /\ copied' = [out |-> IF ~ok THEN "bug" ELSE IF \A v \in touched : pt[p][v] # 0 THEN "ok" ELSE "fault",
                    even |-> (a % Page) + n <= Up(n) * Page]
      /\ halted' = ~ok
      /\ UNCHANGED <<pt, pgd, vm, frames, phase, loaded, heap, torn, made>>

Gone(p) ==
  /\ pt' = [pt EXCEPT ![p] = [v \in DOMAIN @ |-> 0]]
  /\ pgd' = [pgd EXCEPT ![p] = [t \in DOMAIN @ |-> 0]]
  /\ loaded' = [loaded EXCEPT ![p] = {}]
  /\ heap' = [heap EXCEPT ![p] = <<0, 0>>]

(* kproc_free_pages in kexit, with interrupts off. *)
Exit(p) ==
  /\ phase[p] = "run"
  /\ Gone(p)
  /\ frames' = frames \cup ToSet(vm[p])
  /\ vm' = [vm EXCEPT ![p] = <<>>]
  /\ phase' = [phase EXCEPT ![p] = "none"]
  /\ copied' = NoCopy
  /\ UNCHANGED <<halted, torn, made>>

(* The same for a process whose program cannot be loaded, with interrupts  *)
(* on: the list's own page, the second slot, goes before the first slot,   *)
(* which is read last.                                                     *)
FreeTail(p) ==
  /\ phase[p] = "load"
  /\ Gone(p)
  /\ frames' = frames \cup ToSet(Tail(vm[p]))
  /\ vm' = [vm EXCEPT ![p] = SubSeq(@, 1, 2)]
  /\ phase' = [phase EXCEPT ![p] = "freeing"]
  /\ copied' = NoCopy
  /\ UNCHANGED <<halted, torn, made>>

FreeFirst(p) ==
  /\ phase[p] = "freeing"
  /\ IF vm[p][2] \in frames
     THEN frames' = frames \cup {vm[p][1]} /\ UNCHANGED torn
     ELSE torn' = TRUE /\ UNCHANGED frames
  /\ vm' = [vm EXCEPT ![p] = <<>>]
  /\ phase' = [phase EXCEPT ![p] = "none"]
  /\ copied' = NoCopy
  /\ UNCHANGED <<pt, pgd, loaded, heap, halted, made>>

SpaceNext ==
  /\ ~halted
  /\ \E p \in AProc :
       \/ \E args, env \in BOOLEAN : Create(p, args, env)
       \/ \E g \in Segment : Load(p, g)
       \/ Start(p) \/ Exit(p) \/ FreeTail(p) \/ FreeFirst(p)
       \/ \E incr \in Incr : ksbrk(p, incr)
       \/ \E a \in 0 .. Page + 1, n \in {1, Page, Page + 1} : copy_to_user(p, a, n)

SpaceSpec == SpaceInit /\ [][SpaceNext]_spaceVars
SpaceSound == ~torn
-----------------------------------------------------------------------------
(* The frames of a process, a page list that is being freed aside. *)
Held(p) == IF phase[p] = "freeing" THEN {vm[p][1]} ELSE ToSet(vm[p])

(* Unless a list was read after its page had been given away: every frame  *)
(* is free or on the list of exactly one process, once, so that exit gives *)
(* back all a process got and nothing of another; everything a process has *)
(* mapped is on its list; its segments (but for whole pages that begin     *)
(* inside one) and its heap are mapped; and a copy that does not run past  *)
(* its last probe does not fault.                                          *)
SpaceHolds ==
  ~torn =>
    /\ frames \cup UNION {Held(p) : p \in AProc} = Frames
    /\ \A p \in AProc : /\ Held(p) \cap frames = {}
                        /\ \A q \in AProc \ {p} : Held(p) \cap Held(q) = {}
                        /\ phase[p] # "freeing" => IsInjective(vm[p])
                        /\ {pt[p][v] : v \in DOMAIN pt[p]} \cup {pgd[p][t] : t \in DOMAIN pgd[p]} \subseteq {0} \cup Held(p)
    /\ \A p \in AProc : ~halted /\ phase[p] = "run" =>
         /\ \A g \in loaded[p] : (g.size % Page = 0 => g.va % Page = 0) =>
              \A b \in g.va .. g.va + g.size - 1 : pt[p][b \div Page] # 0
         /\ \A v \in heap[p][1] .. heap[p][2] - 1 : pt[p][v] # 0
    /\ copied.out = "fault" => ~copied.even
=============================================================================
