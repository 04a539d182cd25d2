------------------------------- MODULE Files -------------------------------
(***************************************************************************)
(* File descriptors (Kernel/vfs.c, and their users in kthread.c and        *)
(* net/uipc_syscall.c): the tables of the processes, open_files, the file  *)
(* objects with their reference counts and access flags, the working       *)
(* directories, and what creating and ending a process does to them.       *)
(***************************************************************************)
EXTENDS Integers, FiniteSets, FiniteSetsExt

CONSTANTS FProc,      \* processes
          Shell,      \* the one that runs at the start
          File,       \* file objects kmalloc can hand out
          NoFile,     \* NULL
          Access,     \* the access modes files are opened with
          MaxFd,      \* bound: descriptors 0..MaxFd (1023)
          MaxRef      \* bound on f_refcnt when inheriting, and on open_files below 0

ASSUME FilesAssumption ==
  IsFiniteSet(FProc) /\ Shell \in FProc /\ NoFile \notin File /\ MaxFd \in Nat

Fd == 0..MaxFd
Dead == -1             \* the count of a freed file, in the model
Huge == 2^20          \* what the unsigned count becomes below zero

VARIABLES fdt,        \* proc->file
          nopen,      \* open_files
          ids,        \* descriptors taken in p_fd_obj
          cwd, oldcwd,
          running,    \* processes that exist
          refcnt,     \* f_refcnt of each file; Dead when it is freed
          fflags,     \* the FREAD and FWRITE bits of f_flags
          uncounted,  \* history: a reference was made that nobody counted
          stray        \* history: an uninitialized or NULL pointer was used

fileVars == <<fdt, nopen, ids, cwd, oldcwd, running, refcnt, fflags,
              uncounted, stray>>

Empty == [fd \in Fd |-> NoFile]
Live == {f \in File : refcnt[f] # Dead}

FilesInit ==
  \E root \in File :
    /\ fdt = [p \in FProc |-> Empty]
    /\ nopen = [p \in FProc |-> 0]
    /\ ids = [p \in FProc |-> {}]
    /\ cwd = [p \in FProc |-> IF p = Shell THEN root ELSE NoFile]
    /\ oldcwd = [p \in FProc |-> NoFile]
    /\ running = {Shell}
    /\ refcnt = [f \in File |-> IF f = root THEN 1 ELSE Dead]
    /\ fflags = [f \in File |-> {"r", "w"}]
    /\ uncounted = FALSE /\ stray = FALSE

(* A slip: the count is compared before it goes down. *)
Closed_late(r, f) ==
  IF f = NoFile \/ r[f] = Dead THEN r
  ELSE [r EXCEPT ![f] = IF @ = 2 THEN Dead ELSE IF @ = 0 THEN Huge ELSE @ - 1]

(* vfs_close: the last reference frees the file (ext2_close, tty_close).   *)
(* The count is unsigned: from zero it does not come back to zero.         *)
Closed(r, f) ==
  IF f = NoFile \/ r[f] = Dead THEN r
  ELSE [r EXCEPT ![f] = IF @ = 1 THEN Dead ELSE IF @ = 0 THEN Huge ELSE @ - 1]

(* vfs_open: the access mode becomes FREAD and FWRITE. *)
OpenFlags(mode) ==
  CASE mode = "O_RDWR" -> {"r", "w"}
    [] mode = "O_WRONLY" -> {"w"}
    [] mode = "O_RDONLY" -> {"r"}

(* kopen with O_CREAT: f_flags is the open flag itself, whose values are   *)
(* not those of FREAD (1) and FWRITE (2).                                  *)
CreateFlags(mode) ==
  CASE mode = "O_RDWR" -> {"w"}
    [] mode = "O_WRONLY" -> {"r"}
    [] mode = "O_RDONLY" -> {}

(* kopen's end, ksocket: the lowest free descriptor, one more open file. *)
Attach(p, f, flags, mode, count) ==
  /\ ids[p] # Fd
  /\ LET fd == Min(Fd \ ids[p])
     IN  /\ fdt' = [fdt EXCEPT ![p][fd] = f]
         /\ ids' = [ids EXCEPT ![p] = @ \cup {fd}]
  /\ refcnt' = [refcnt EXCEPT ![f] = count]
  /\ fflags' = [fflags EXCEPT ![f] = flags]

Kopen(p, mode, create) ==
  /\ p \in running
  /\ \E f \in File \ Live :
       Attach(p, f, IF create THEN CreateFlags(mode) ELSE OpenFlags(mode), mode, 1)
  /\ nopen' = [nopen EXCEPT ![p] = @ + 1]
  /\ UNCHANGED <<cwd, oldcwd, running, uncounted, stray>>

(* vfs_open when the file cannot be opened: it closes the caller's         *)
(* pointer, which was never set.                                           *)
KopenFails(p, f) ==
  /\ p \in running
  /\ refcnt' = Closed(refcnt, f)
  /\ stray' = TRUE
  /\ UNCHANGED <<fdt, nopen, ids, cwd, oldcwd, running, fflags,
                 uncounted>>

(* kaccept: the new file is not counted, nor the descriptor. *)
Kaccept(p) ==
  /\ p \in running
  /\ \E f \in File \ Live : Attach(p, f, {"r", "w"}, "O_RDWR", 0)
  /\ uncounted' = TRUE
  /\ UNCHANGED <<nopen, cwd, oldcwd, running, stray>>

Kclose(p, fd) ==
  /\ p \in running
  /\ fdt[p][fd] # NoFile
  /\ refcnt' = Closed(refcnt, fdt[p][fd])
  /\ fdt' = [fdt EXCEPT ![p][fd] = NoFile]
  /\ nopen' = [nopen EXCEPT ![p] = @ - 1]
  /\ ids' = [ids EXCEPT ![p] = @ \ {fd}]
  /\ UNCHANGED <<cwd, oldcwd, running, fflags, uncounted, stray>>

(* kfcntl, F_DUPFD: counted in the file, not in open_files. *)
DupFd(p, fd) ==
  /\ p \in running
  /\ fdt[p][fd] # NoFile /\ fflags[fdt[p][fd]] # {}
  /\ ids[p] # Fd /\ nopen[p] >= -MaxRef
  /\ LET new == Min(Fd \ ids[p])
     IN  /\ fdt' = [fdt EXCEPT ![p][new] = fdt[p][fd]]
         /\ ids' = [ids EXCEPT ![p] = @ \cup {new}]
  /\ refcnt' = [refcnt EXCEPT ![fdt[p][fd]] = IF @ = Dead THEN Dead ELSE @ + 1]
  /\ UNCHANGED <<nopen, cwd, oldcwd, running, fflags, uncounted, stray>>

(* kdup2: the old file of the new descriptor is closed; the one that takes *)
(* its place is not counted.                                               *)
Kdup2(p, old, new) ==
  /\ p \in running
  /\ fdt[p][old] # NoFile /\ fdt[p][old] # fdt[p][new]
  /\ refcnt' = Closed(refcnt, fdt[p][new])
  /\ fdt' = [fdt EXCEPT ![p][new] = fdt[p][old]]
  /\ ids' = [ids EXCEPT ![p] = @ \cup {new}]
  /\ nopen' = [nopen EXCEPT ![p] = IF fdt[p][new] = NoFile THEN @ + 1 ELSE @]
  /\ uncounted' = TRUE
  /\ UNCHANGED <<cwd, oldcwd, running, fflags, stray>>

Kchdir(p) ==
  /\ p \in running
  /\ \E f \in File \ Live :
       /\ refcnt' = [Closed(refcnt, oldcwd[p]) EXCEPT ![f] = 1]
       /\ fflags' = [fflags EXCEPT ![f] = {"r", "w"}]
       /\ cwd' = [cwd EXCEPT ![p] = f]
  /\ oldcwd' = [oldcwd EXCEPT ![p] = cwd[p]]
  /\ UNCHANGED <<fdt, nopen, ids, running, uncounted, stray>>

(* kfchdir: the directory of a descriptor, without counting it. *)
Kfchdir(p, fd) ==
  /\ p \in running
  /\ fdt[p][fd] # NoFile
  /\ cwd' = [cwd EXCEPT ![p] = fdt[p][fd]]
  /\ uncounted' = TRUE
  /\ UNCHANGED <<fdt, nopen, ids, oldcwd, running, refcnt, fflags, stray>>

(* kcreate_process, the files: the child gets the first open_files entries *)
(* of the table, each counted, but all the descriptor numbers.  A hole     *)
(* among them is a NULL pointer written through, and a negative open_files *)
(* is a huge length to copy.                                               *)
Inherit(p) ==
  LET given == 0..nopen[p] - 1
      Times(f) == Cardinality({fd \in given : fdt[p][fd] = f})
  IN  /\ \A f \in Live : refcnt[f] < MaxRef
      /\ refcnt' = [f \in File |->
           IF f \notin Live THEN Dead
           ELSE refcnt[f] + Times(f) + IF f = cwd[p] THEN 1 ELSE 0]
      /\ stray' = (stray \/ nopen[p] < 0 \/ \E fd \in given : fdt[p][fd] = NoFile)

Spawn(p, c) ==
  /\ p \in running /\ c \in FProc \ (running \cup {Shell})
  /\ Inherit(p)
  /\ fdt' = [fdt EXCEPT ![c] = [fd \in Fd |-> IF fd < nopen[p] THEN fdt[p][fd] ELSE NoFile]]
  /\ ids' = [ids EXCEPT ![c] = ids[p]]
  /\ nopen' = [nopen EXCEPT ![c] = nopen[p]]
  /\ cwd' = [cwd EXCEPT ![c] = cwd[p]]
  /\ oldcwd' = [oldcwd EXCEPT ![c] = NoFile]
  /\ running' = running \cup {c}
  /\ UNCHANGED <<fflags, uncounted>>

(* The binary cannot be loaded: the counts stay as they are. *)
CreateFails(p) ==
  /\ p \in running
  /\ Inherit(p)
  /\ UNCHANGED <<fdt, ids, nopen, cwd, oldcwd, running, fflags, uncounted>>

(* kclose_proc: the first open_files entries and the working directory are *)
(* closed; p_old_cwd is not.                                               *)
Exit(p) ==
  /\ p \in running
  /\ LET done[k \in 0..MaxFd + 1] ==
           IF k = 0 THEN refcnt
           ELSE IF k <= nopen[p] THEN Closed(done[k - 1], fdt[p][k - 1])
           ELSE done[k - 1]
     IN  refcnt' = Closed(done[MaxFd + 1], cwd[p])
  /\ running' = running \ {p}
  /\ fdt' = [fdt EXCEPT ![p] = Empty]
  /\ nopen' = [nopen EXCEPT ![p] = 0]
  /\ ids' = [ids EXCEPT ![p] = {}]
  /\ cwd' = [cwd EXCEPT ![p] = NoFile]
  /\ oldcwd' = [oldcwd EXCEPT ![p] = NoFile]
  /\ UNCHANGED <<fflags, uncounted, stray>>

FilesNext ==
  \/ \E p \in FProc :
       \/ \E mode \in Access, create \in BOOLEAN : Kopen(p, mode, create)
       \/ \E f \in File : KopenFails(p, f)
       \/ \E fd \in Fd : Kclose(p, fd) \/ DupFd(p, fd) \/ Kfchdir(p, fd)
       \/ \E old, new \in Fd : Kdup2(p, old, new)
       \/ \E c \in FProc : Spawn(p, c)
       \/ CreateFails(p) \/ Kaccept(p) \/ Kchdir(p) \/ Exit(p)

FilesSpec == FilesInit /\ [][FilesNext]_fileVars
-----------------------------------------------------------------------------
(* The references to a file that the running processes hold. *)
Refs(f) ==
  Cardinality({r \in running \X Fd : fdt[r[1]][r[2]] = f})
  + Cardinality({p \in running : cwd[p] = f})
  + Cardinality({p \in running : oldcwd[p] = f})

(* No process is left with a freed file: across opening, duplicating,      *)
(* inheriting and closing by any processes in any order, every descriptor  *)
(* and working directory is counted in its file's f_refcnt, unless kdup2,  *)
(* kfchdir or kaccept made one that is not, an open failed, or a hole in   *)
(* the table or a negative open_files was inherited.                       *)
Counted ==
  ~uncounted /\ ~stray =>
    \A f \in File : Refs(f) > 0 => f \in Live /\ refcnt[f] >= Refs(f)

(* Where the run stops: after these nothing is claimed. *)
FilesSound == ~uncounted /\ ~stray
=============================================================================
