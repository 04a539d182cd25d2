--------------------------------- MODULE Elf ---------------------------------
(***************************************************************************)
(* Loading an executable and the shared libraries it needs                 *)
(* (Kernel/elf.c): load_elf, resolv_depends and the search for a library,  *)
(* the relocation of the modules, last one first, and the binding of a     *)
(* function at its first call.  A module is named by the file it came      *)
(* from.  Two symbols are enough: the function "f" and the datum "d",      *)
(* which holds the address of f (a relocation of type R_386_32).           *)
(***************************************************************************)
EXTENDS Naturals, Sequences, FiniteSets

CONSTANTS Lib,      \* names of libraries
          Programs  \* what may be on the disk: records, see below

(* A program: needs[m], the DT_NEEDED entries of a file; path[m], its      *)
(* DT_RPATH and DT_RUNPATH; defs[m] and refs[m], the symbols it defines    *)
(* and refers to; hash, the files with a DT_HASH table; disk, the places   *)
(* where libraries are found, each a pair of directory and name.           *)
Exe == "exe"
ExeFile == <<"/bin", Exe>>
Sym == {"f", "d"}
Default == <<"/lib", "/usr/lib">>

VARIABLES prog,     \* the program
          ems,      \* list of modules: the names of their files
          progress,    \* load, reloc, run, failed or stuck
          em,       \* module whose needs are being met
          dy,       \* its DT_NEEDED entry
          dirs,     \* directories still to be searched for it
          stage,    \* which list of directories that is
          rel,      \* module being relocated
          bound,    \* relocations done
          calls,    \* functions bound at a call: module -> module
          short     \* history: a short read was taken for a library

elfVars == <<prog, ems, progress, em, dy, dirs, stage, rel, bound, calls, short>>

Name(m) == m[2]

ElfInit ==
  /\ prog \in Programs
  /\ ems = <<ExeFile>>
  /\ progress = "load"
  /\ em = 1 /\ dy = 1
  /\ dirs = <<>> /\ stage = "none"
  /\ rel = 0
  /\ bound = {}
  /\ calls = {}
  /\ short = FALSE

Needs(i) == prog.needs[Name(ems[i])]

(* The next entry, of this module or of the one after it; then the         *)
(* modules are relocated from the last to the first.                       *)
NextNeed ==
  /\ dirs' = <<>> /\ stage' = "none"
  /\ dy' = dy + 1
  /\ UNCHANGED <<progress, em, rel>>

resolv_depends ==
  /\ progress = "load" /\ stage = "none"
  /\ IF dy <= Len(Needs(em))
     THEN IF Needs(em)[dy] = "ld-linux.so.2" THEN NextNeed
          ELSE /\ stage' = "rpath" /\ dirs' = prog.path[Name(ems[em])].rpath
               /\ UNCHANGED <<progress, em, dy, rel>>
     ELSE IF em < Len(ems)
     THEN em' = em + 1 /\ dy' = 1 /\ UNCHANGED <<progress, dirs, stage, rel>>
     ELSE progress' = "reloc" /\ rel' = Len(ems) /\ UNCHANGED <<em, dy, dirs, stage>>
  /\ UNCHANGED <<prog, ems, bound, calls, short>>

search_shared_library_lax ==
  /\ progress = "load" /\ stage # "none" /\ dirs = <<>>
  /\ NextNeed
  /\ UNCHANGED <<prog, ems, bound, calls, short>>

(* One list of directories is through: DT_RPATH, DT_RUNPATH, the default. *)
search_shared_library ==
  /\ progress = "load" /\ stage # "none" /\ dirs = <<>>
  /\ CASE stage = "rpath" -> stage' = "runpath" /\ dirs' = prog.path[Name(ems[em])].runpath
                             /\ UNCHANGED progress
       [] stage = "runpath" -> stage' = "default" /\ dirs' = Default /\ UNCHANGED progress
       [] stage = "default" -> progress' = "failed" /\ UNCHANGED <<stage, dirs>>
  /\ UNCHANGED <<prog, ems, em, dy, rel, bound, calls, short>>

File == <<Head(dirs), Needs(em)[dy]>>

(* The loop that looks for the file among the modules goes on with         *)
(* em->next, not em0->next: it sees em and the module after it, and only   *)
(* ends if there is none or it is the one.                                 *)
Seen == \E i \in {em, em + 1} \cap (1 .. Len(ems)) : ems[i] = File
Loops == em < Len(ems) /\ ~Seen

load_elf_shared_library ==
  /\ progress = "load" /\ dirs # <<>>
  /\ IF File \in prog.disk
     THEN IF Loops THEN progress' = "stuck" /\ UNCHANGED <<ems, em, dy, dirs, stage, rel>>
          ELSE ems' = (IF Seen THEN ems ELSE Append(ems, File)) /\ NextNeed
     ELSE dirs' = Tail(dirs) /\ UNCHANGED <<ems, progress, em, dy, stage, rel>>
  /\ UNCHANGED <<prog, bound, calls, short>>

(* A file that cannot be read or mapped is an error and the search goes    *)
(* on; a short read of its headers returns the count, which is no error.   *)
LoadFails ==
  /\ progress = "load" /\ dirs # <<>> /\ File \in prog.disk /\ ~Loops /\ ~Seen
  /\ \/ dirs' = Tail(dirs) /\ UNCHANGED <<progress, em, dy, stage, rel, short>>
     \/ NextNeed /\ short' = TRUE
  /\ UNCHANGED <<prog, ems, bound, calls>>

-----------------------------------------------------------------------------
(* What the search for a symbol from module i on may return: the first     *)
(* module that defines it, 0 if there is none; if every module was passed  *)
(* over, the result was never set.                                         *)
elf_find_hash(i, s, type) ==
  LET looked == {j \in i .. Len(ems) :
                   /\ Name(ems[j]) \in prog.hash
                   /\ ~(type = "R_386_COPY" /\ j = 1)}
      hit == {j \in looked : s \in prog.defs[Name(ems[j])]}
  IN  IF hit # {} THEN {CHOOSE j \in hit : \A k \in hit : j <= k}
      ELSE IF looked # {} THEN {0} ELSE 0 .. Len(ems)

(* Relocations of module i: the address in its d, its references. *)
Rels(i) ==
  LET m == Name(ems[i])
  IN  {<<"R_386_32", "f">> : x \in prog.defs[m] \cap {"d"}}
      \cup {<<"R_386_GLOB_DAT", "f">> : x \in prog.refs[m] \cap {"f"}}
      \cup {<<"R_386_COPY", "d">> : x \in prog.refs[m] \cap (IF i = 1 THEN {"d"} ELSE {})}

(* A symbol that is not found leaves the word as it is.  A copy takes the  *)
(* datum as it is now: full says whether its address was already there.    *)
elf_do_reloc(i, r, to) ==
  [mod |-> i, type |-> r[1], sym |-> r[2], to |-> to,
   full |-> \E b \in bound : b.mod = to /\ b.type = "R_386_32" /\ b.to # 0]

elf_reloc_forward ==
  /\ progress = "reloc"
  /\ LET i == Len(ems) + 1 - rel
     IN  \E to \in [Rels(i) -> 0 .. Len(ems)] :
           /\ \A r \in Rels(i) : to[r] \in elf_find_hash(i, r[2], r[1])
           /\ bound' = bound \cup {elf_do_reloc(i, r, to[r]) : r \in Rels(i)}
  /\ rel' = rel - 1
  /\ progress' = IF rel = 1 THEN "run" ELSE progress
  /\ UNCHANGED <<prog, ems, em, dy, dirs, stage, calls, short>>

elf_reloc ==
  /\ progress = "reloc"
  /\ \E to \in [Rels(rel) -> 0 .. Len(ems)] :
       /\ \A r \in Rels(rel) : to[r] \in elf_find_hash(rel, r[2], r[1])
       /\ bound' = bound \cup {elf_do_reloc(rel, r, to[r]) : r \in Rels(rel)}
  /\ rel' = rel - 1
  /\ progress' = IF rel = 1 THEN "run" ELSE progress
  /\ UNCHANGED <<prog, ems, em, dy, dirs, stage, calls, short>>

(* The first call of f from module i: the search starts after it. *)
kelf_resolv(i) ==
  /\ progress = "run" /\ i \notin {c[1] : c \in calls}
  /\ "f" \in prog.refs[Name(ems[i])]
  /\ \E to \in elf_find_hash(i + 1, "f", "R_386_JMP_SLOT") : calls' = calls \cup {<<i, to>>}
  /\ UNCHANGED <<prog, ems, progress, em, dy, dirs, stage, rel, bound, short>>

ElfNext == \/ resolv_depends \/ search_shared_library \/ load_elf_shared_library
           \/ LoadFails \/ elf_reloc
           \/ \E i \in 1 .. Len(ems) : kelf_resolv(i)

ElfSpec == ElfInit /\ [][ElfNext]_elfVars

-----------------------------------------------------------------------------
(* No file needs two libraries, and none is needed round a cycle (reached  *)
(* says what a file needs, directly or not).                               *)
reached(m) ==
  LET at[k \in 0 .. Cardinality(Lib)] ==
        IF k = 0 THEN {prog.needs[m][i] : i \in 1 .. Len(prog.needs[m])}
        ELSE LET b == at[k - 1]
             IN  b \cup UNION {{prog.needs[n][i] : i \in 1 .. Len(prog.needs[n])} :
                               n \in b \cap Lib}
  IN  at[Cardinality(Lib)] \ {"ld-linux.so.2"}

Chain == \A m \in DOMAIN prog.needs : Len(prog.needs[m]) <= 1 /\ m \notin reached(m)

(* If every file needs one library at most, loading ends, with every       *)
(* library the executable reaches in the list once, after what needs it;   *)
(* otherwise it may hang in the search among the modules, or load without  *)
(* end (a short read of a library's headers passes for success).           *)
ModulesLoaded ==
  Chain =>
    /\ progress # "stuck"
    /\ \A i, j \in 1 .. Len(ems) : ems[i] = ems[j] => i = j
    /\ progress \in {"reloc", "run"} /\ ~short =>
         {Name(ems[i]) : i \in 2 .. Len(ems)} = reached(Exe)

(* When the program runs, a symbol that a module with a hash table from    *)
(* the referring one on defines is bound to the first of them, a datum is  *)
(* copied to the executable after its own address was set, and a function  *)
(* a module does not define itself has one address, whether it was bound   *)
(* at load time or at its first call.                                      *)
SymbolsBound ==
  progress = "run" =>
    /\ \A b \in bound :
         LET has == {j \in b.mod .. Len(ems) :
                       /\ Name(ems[j]) \in prog.hash /\ b.sym \in prog.defs[Name(ems[j])]
                       /\ b.type = "R_386_COPY" => j # 1}
         IN  has # {} => b.to \in has /\ \A j \in has : b.to <= j
    /\ \A b \in bound :
         /\ b.type = "R_386_COPY" /\ b.to \in 2 .. Len(ems)
         /\ "f" \in UNION {prog.defs[Name(ems[j])] : j \in {k \in b.to .. Len(ems) :
                                                           Name(ems[k]) \in prog.hash}}
         => b.full \/ "d" \notin prog.defs[Name(ems[b.to])]
    /\ \A c \in calls, b \in bound :
         /\ b.mod = c[1] /\ b.type = "R_386_GLOB_DAT"
         /\ "f" \notin prog.defs[Name(ems[c[1]])]
         /\ \E j \in c[1] + 1 .. Len(ems) : Name(ems[j]) \in prog.hash
         => c[2] = b.to

(* A program with a chain of libraries runs with all of them loaded and    *)
(* every symbol bound.                                                     *)
Linked == ModulesLoaded /\ SymbolsBound
=============================================================================
