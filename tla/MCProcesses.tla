---------------------------- MODULE MCProcesses ----------------------------
(***************************************************************************)
(* What a process is made of, side by side: its family (part "family"),    *)
(* the pages of its address space ("space"), the modules it is linked from *)
(* ("elf"), and the resources its system calls take and return ("calls").  *)
(* A behaviour exercises one of them.                                      *)
(***************************************************************************)
EXTENDS Procs, AddrSpace, Elf, CallPaths

CONSTANTS kid1, kid2, kid3

VARIABLE part

processVars == <<part, procVars, spaceVars, elfVars, pathVars>>

Init == /\ part \in {"family", "space", "elf", "calls"}
        /\ prog \in IF part = "elf" THEN Programs ELSE {CHOOSE p \in Programs : TRUE}
        /\ ProcsInit /\ SpaceInit /\ ElfInit
        /\ \E f \in IF part = "calls" THEN Entries ELSE {CHOOSE f \in Entries : TRUE} :
             called = [f |-> f, st |-> "running"]
        /\ PathInit

Next ==
  /\ UNCHANGED part
  /\ \/ part = "family" /\ ProcsNext /\ UNCHANGED <<spaceVars, elfVars, pathVars>>
     \/ part = "space" /\ SpaceNext /\ UNCHANGED <<procVars, elfVars, pathVars>>
     \/ part = "elf" /\ ElfNext /\ UNCHANGED <<procVars, spaceVars, pathVars>>
     \/ part = "calls" /\ PathNext /\ UNCHANGED <<procVars, spaceVars, elfVars>>

Spec == Init /\ [][Next]_processVars

(* Bounds: the first process and three more; three segments, one that ends *)
(* inside a page, one that does not start at a page and one that crosses   *)
(* the reach of a page table; two libraries, in every way the executable   *)
(* and they can need each other, and three modules loaded.                 *)
MCProc == {First, kid1, kid2, kid3}
MCFrames == 1..16
MCSegment == {[va |-> 0, size |-> 3], [va |-> 5, size |-> 6], [va |-> 9, size |-> 4]}

NoPath == [rpath |-> <<>>, runpath |-> <<>>]
OwnPath == [rpath |-> <<"a", "/lib">>, runpath |-> <<"a">>]
Module == {Exe} \cup Lib

MCPrograms ==
  {[needs |-> ("exe" :> e) @@ ("l1" :> n1) @@ ("l2" :> n2),
    path |-> [x \in Module |-> p], defs |-> d,
    refs |-> [x \in Module |-> IF x = Exe THEN Sym ELSE {"f"}], hash |-> h, disk |-> k] :
     e \in {<<>>, <<"l1">>, <<"l1", "l2">>},
     n1 \in {<<>>, <<"l2">>, <<"ld-linux.so.2">>}, n2 \in {<<>>, <<"l1">>},
     p \in {NoPath, OwnPath},
     d \in {[x \in Module |-> IF x = Exe THEN {} ELSE Sym],
            [x \in Module |-> CASE x = Exe -> {} [] x = "l1" -> {"d"} [] OTHER -> {"f"}]},
     h \in {Module, {Exe, "l2"}},
     k \in {{"/lib"} \X Lib, {"a", "/usr/lib"} \X Lib}}

Sound == StaySound /\ SpaceSound /\ PathSound /\ Len(ems) <= 3

Symmetry == Permutations({kid1, kid2, kid3}) \cup Permutations(AProc)
=============================================================================
