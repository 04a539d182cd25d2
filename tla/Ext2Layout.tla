----------------------------- MODULE Ext2Layout -----------------------------
(***************************************************************************)
(* The block map of an inode (ext2_inode_rw_real_block in Kernel/ext2.c):  *)
(* direct pointers, then one, two and three levels of indirect blocks,     *)
(* allocated on the way when a pointer is set.  Table 0 stands for the     *)
(* i_block array of the inode, the others for indirect blocks on the disk. *)
(***************************************************************************)
EXTENDS Integers, Sequences, SequencesExt, FiniteSets, FiniteSetsExt, TLC

CONSTANTS NDirect,      \* direct pointers in i_block (12)
          Entries,      \* pointers in a block (one_block_entries)
          Table,        \* the blocks ext2_alloc_block hands out here
          MapData,      \* block numbers set by the callers
          MaxSets       \* bound: calls in mode 1

VARIABLES table,        \* contents of table 0 (i_block) and of the blocks
          taken,        \* how many indirect blocks were allocated
          sectors,      \* i_sector_cnt, in blocks
          stale,        \* history: an indirect block came with old contents
          mapped,       \* history: what each block number was set to
          sets

mapVars == <<table, taken, sectors, stale, mapped, sets>>

Square == Entries * Entries

LastBlock == NDirect + Entries + Square + Square * Entries - 1

Zeroed == [i \in 0..Entries - 1 |-> 0]

(* What a block can hold when it is allocated. *)
Contents == {Zeroed} \cup {[Zeroed EXCEPT ![0] = d] : d \in MapData}

Blank == [t \in {0} \cup Table \cup MapData |->
            IF t = 0 THEN [i \in 0..NDirect + 2 |-> 0] ELSE Zeroed]

MapInit ==
  /\ table = Blank /\ taken = 0 /\ sectors = 0 /\ stale = FALSE
  /\ mapped = [n \in 0..LastBlock |-> 0]
  /\ sets = 0

(* A slip: the second index of a doubly indirect block is not reduced. *)
Path_flat(n) ==
  LET single == n - NDirect
      double == single - Entries
      triple == double - Square
  IN  IF n < NDirect THEN <<n>>
      ELSE IF single < Entries THEN <<NDirect, single>>
      ELSE IF double < Square
           THEN <<NDirect + 1, 0, double % Entries>>
      ELSE <<NDirect + 2, triple \div Square,
             (triple % Square) \div Entries, triple % Entries>>

(* The index in i_block and then in each indirect block that leads to      *)
(* block number n of the file.                                             *)
Path(n) ==
  LET single == n - NDirect
      double == single - Entries
      triple == double - Square
  IN  IF n < NDirect THEN <<n>>
      ELSE IF single < Entries THEN <<NDirect, single>>
      ELSE IF double < Square
           THEN <<NDirect + 1, double \div Entries, double % Entries>>
      ELSE <<NDirect + 2, triple \div Square,
             (triple % Square) \div Entries, triple % Entries>>

(* Mode 0: the block behind number n, 0 where a pointer is missing. *)
RealBlock(n) ==
  LET Down(b, i) == IF b = 0 THEN 0 ELSE table[b][i]
  IN  FoldLeft(Down, table[0][Head(Path(n))], Tail(Path(n)))

(* Mode 1 on the way down: follow the pointer in the current cell, and     *)
(* allocate the block when there is none.  The block is not cleared: what  *)
(* the disk held (old) is read back as pointers.                           *)
Descend(path, old) ==
  LET Down(s, i) ==
        LET b == s.tab[s.at[1]][s.at[2]]
            new == s.n + 1
        IN  IF b # 0 THEN [s EXCEPT !.at = <<b, i>>]
            ELSE [tab |-> [s.tab EXCEPT ![s.at[1]][s.at[2]] = new,
                                        ![new] = old],
                  n |-> new, at |-> <<new, i>>]
  IN  FoldLeft(Down, [tab |-> table, n |-> taken, at |-> <<0, Head(path)>>],
               Tail(path))

(* Mode 1: the last cell of the path gets the block.  What lies behind     *)
(* stale pointers is not modelled.                                         *)
SetBlock(n, b, old) ==
  /\ sets < MaxSets /\ ~stale
  /\ LET s == Descend(Path(n), old)
     IN  /\ table' = [s.tab EXCEPT ![s.at[1]][s.at[2]] = b]
         /\ taken' = s.n
         /\ sectors' = sectors + (s.n - taken)
         /\ stale' = (stale \/ (old # Zeroed /\ s.n > taken))
  /\ mapped' = [mapped EXCEPT ![n] = b]
  /\ sets' = sets + 1

(* Mode 1 when reading or writing the indirect block at depth k fails: the *)
(* pointers above it are set, the caller drops the inode unwritten.        *)
SetFails(n, k) ==
  /\ sets < MaxSets /\ ~stale
  /\ Len(Path(n)) > k
  /\ LET s == Descend(SubSeq(Path(n), 1, k + 1), Zeroed)
     IN  /\ table' = [s.tab EXCEPT ![0] = table[0]]
         /\ taken' = s.n
  /\ sets' = sets + 1
  /\ UNCHANGED <<sectors, stale, mapped>>

MapNext ==
  \/ \E n \in 0..LastBlock, b \in MapData, old \in Contents : SetBlock(n, b, old)
  \/ \E n \in 0..LastBlock, k \in 1..3 : SetFails(n, k)

MapSpec == MapInit /\ [][MapNext]_mapVars
-----------------------------------------------------------------------------
(* A block number reads back as what it was last set to and the others are *)
(* untouched, through all levels of indirection, whatever I/O errors came  *)
(* in between, unless an indirect block came with old contents.            *)
ReadsBack == ~stale => \A n \in 0..LastBlock : RealBlock(n) = mapped[n]

(***************************************************************************)
(* Directories of Kernel/ext2.c: a block of entries chained by d_reclen,   *)
(* in words of four bytes.  ext2_dir_insert_entry, ext2_delete_entry,      *)
(* ext2_dir_find_entry, ext2_dir_check and ext2_create_directory.  The     *)
(* first directory was made by mkfs and already holds an entry, which its  *)
(* i_link_cnt counts if it is a directory; the other is made here, in a    *)
(* block that is still zero.  Of the names, all different, only the        *)
(* lengths matter.                                                         *)
(***************************************************************************)
CONSTANTS Words,          \* words in a block
          DirName,        \* names besides the dot names
          Old,            \* the one mkfs's owner put in the root directory
          NameLen,        \* their lengths, the dot names included
          MaxDirOps       \* bound: calls that change a directory

RootDir == "root"
Sub == "sub"
Dot == "."
DotDot == ".."
NoName == "no name"

VARIABLES dblk,      \* the block of each directory; <<>> before it is made
          link,      \* i_link_cnt of its inode
          listed,    \* history: the names insert and delete account for
          counted,   \* the entry mkfs left is counted by i_link_cnt
          crossed,   \* history: a delete walked over a deleted entry, a
                     \* name came in twice, or the block was full
          dirOps

dirVars == <<dblk, link, listed, counted, crossed, dirOps>>

Entry(ino, rec, name) == [ino |-> ino, rec |-> rec, name |-> name]
Zero == Entry(0, 0, NoName)         \* zeroed memory read as an entry
Bytes == Entry(-1, -1, NoName)      \* the inside of an entry: no header

Size(name) == IF name = NoName THEN 0 ELSE NameLen[name]

(* EXT2_DIR_REAL_LEN, in words. *)
RealLen(name) == (Size(name) + 11) \div 4

Put(b, i, e) ==
  [w \in DOMAIN b |-> IF w = i THEN e
                      ELSE IF w \in i + 1..i + RealLen(e.name) - 1 THEN Bytes
                      ELSE b[w]]

MkfsRoot ==
  LET z == [w \in 0..Words - 1 |-> Zero]
      last == RealLen(Dot) + RealLen(DotDot)
  IN  Put(Put(Put(z, 0, Entry(2, RealLen(Dot), Dot)),
              RealLen(Dot), Entry(2, RealLen(DotDot), DotDot)),
          last, Entry(3, Words - last, Old))

DirInit ==
  /\ dblk = [d \in {RootDir, Sub} |-> IF d = RootDir THEN MkfsRoot ELSE <<>>]
  /\ counted \in BOOLEAN
  /\ link = [d \in {RootDir, Sub} |-> IF d = Sub THEN 0 ELSE IF counted THEN 3 ELSE 2]
  /\ listed = [d \in {RootDir, Sub} |-> IF d = RootDir THEN {Dot, DotDot, Old} ELSE {}]
  /\ crossed = FALSE
  /\ dirOps = 0

(* The k-th entry of a walk that goes from entry to entry by step. *)
Walk(b, Step(_)) ==
  LET at[k \in 0..Words] ==
        IF k = 0 THEN 0
        ELSE LET p == at[k - 1]
             IN  IF p >= Words THEN Words ELSE p + Step(b[p])
  IN  at

ByRecLen(e) == e.rec
ByRealLen(e) == RealLen(e.name)

(* Where ext2_dir_find_entry finds a name: {} or one position. *)
Find(b, path) ==
  LET at == Walk(b, ByRecLen)
      hits == {k \in 0..Words : at[k] < Words /\ b[at[k]].name = path}
  IN  IF hits = {} THEN {} ELSE {at[Min(hits)]}

(* strcmp(d_name, path) == 0: a name that fills its words has no end when  *)
(* another entry follows it.  strncmp(path, d_name, d_name_len) == 0 means *)
(* the same: lib/string.c compares the byte behind the name as well.       *)
Strcmp(b, i, path) ==
  /\ b[i].name = path
  /\ \/ Size(path) % 4 # 0
     \/ i + RealLen(path) >= Words
     \/ b[i + RealLen(path)] \in {Zero, Bytes}

(* ext2_dir_check looks at the first i_link_cnt entries only. *)
DirCheck(d, path) ==
  LET at == Walk(dblk[d], ByRecLen)
  IN  ~ \E k \in 0..link[d] - 1 :
          /\ at[k] < Words /\ Strcmp(dblk[d], at[k], path)
          /\ \A j \in 0..k : dblk[d][at[j]].ino # 0

(* The tail of ext2_dir_insert_entry: take over a free entry, or the slack *)
(* behind one in use.                                                      *)
GotIt(b, i, ino, path) ==
  LET e == b[i]
      r == RealLen(e.name)
  IN  IF e.ino = 0 THEN Put(b, i, Entry(ino, e.rec, path))
      ELSE Put([b EXCEPT ![i].rec = r], i + r, Entry(ino, e.rec - r, path))

(* The entries at which the loop of ext2_dir_insert_entry stops. *)
Stops(b, path) ==
  LET at == Walk(b, ByRecLen)
      last == Words - RealLen(b[0].name)
      Fits(e) == \/ e.ino = 0 /\ e.rec > RealLen(path)
                 \/ e.rec > RealLen(path) + RealLen(e.name)
      S == {k \in 0..Words : /\ at[k] <= last /\ at[k] < Words
                             /\ Strcmp(b, at[k], path) \/ Fits(b[at[k]])}
  IN  IF S = {} THEN {} ELSE {at[Min(S)]}

(* The block after ext2_dir_insert_entry, unless the name exists; a dot    *)
(* name takes the place of the entry that has it.  When the block is full  *)
(* the entry goes to a fresh one, which only the lookup walks:             *)
(* ext2_dir_check and ext2_delete_entry run off the first one.             *)
Insert(b, ino, path) ==
  IF Stops(b, path) = {} THEN {b} ELSE
  {IF Strcmp(b, i, path) THEN GotIt([b EXCEPT ![i].ino = 0], i, ino, path)
   ELSE GotIt(b, i, ino, path) :
   i \in {j \in Stops(b, path) : Strcmp(b, j, path) => path \in {Dot, DotDot}}}

Strays(d, path) == path \in listed[d] \/ Stops(dblk[d], path) = {}

(* ext2_create_entry on a directory: check the name, then insert it. *)
Create(d, path, ino) ==
  /\ dirOps < MaxDirOps /\ ~crossed
  /\ dblk[d] # <<>> /\ path \notin {Dot, DotDot}
  /\ DirCheck(d, path)
  /\ \E b \in Insert(dblk[d], ino, path) : dblk' = [dblk EXCEPT ![d] = b]
  /\ link' = [link EXCEPT ![d] = @ + 1]
  /\ listed' = [listed EXCEPT ![d] = @ \cup {path}]
  /\ crossed' = Strays(d, path)
  /\ dirOps' = dirOps + 1
  /\ UNCHANGED counted

(* ext2_create_directory: the name in the parent, then the dot names in    *)
(* the new block, zeroed here, whose first d_reclen is set to its size.    *)
Mkdir(path, ino) ==
  /\ dirOps < MaxDirOps /\ ~crossed
  /\ dblk[Sub] = <<>> /\ path \notin {Dot, DotDot}
  /\ DirCheck(RootDir, path)
  /\ \E b \in Insert(dblk[RootDir], ino, path) :
     \E s1 \in Insert([w \in 0..Words - 1 |->
                         IF w = 0 THEN [Zero EXCEPT !.rec = Words] ELSE Zero],
                      ino, Dot) :
     \E s2 \in Insert(s1, 2, DotDot) :
       /\ dblk' = (RootDir :> b @@ Sub :> s2)
       /\ listed' = (RootDir :> (listed[RootDir] \cup {path}) @@ Sub :> {Dot, DotDot})
  /\ link' = [link EXCEPT ![RootDir] = @ + 1, ![Sub] = 2]
  /\ crossed' = Strays(RootDir, path)
  /\ dirOps' = dirOps + 1
  /\ UNCHANGED counted

(* A slip: the entry before keeps its length. *)
Delete_orphan(d, path) ==
  /\ dirOps < MaxDirOps /\ ~crossed /\ dblk[d] # <<>>
  /\ LET at == Walk(dblk[d], ByRealLen)
         Match(k) == at[k] < Words /\ Strcmp(dblk[d], at[k], path)
         hits == {k \in 1..link[d] - 1 : Match(k)}
         k == Min(hits)
     IN  /\ hits # {} /\ ~Match(0)
         /\ crossed' = (\E j \in 0..k : dblk[d][at[j]] \in {Zero, Bytes})
         /\ dblk' = [dblk EXCEPT ![d] =
              [w \in DOMAIN @ |->
                 IF w \in at[k]..at[k] + RealLen(path) - 1 THEN Zero ELSE @[w]]]
         /\ link' = [link EXCEPT ![d] = @ - 1]
         /\ listed' = [listed EXCEPT ![d] = @ \ {path}]
  /\ dirOps' = dirOps + 1
  /\ UNCHANGED counted

(* ext2_delete_entry walks the first i_link_cnt entries by the length of   *)
(* their names, not by d_reclen: behind an entry whose successor was       *)
(* deleted it reads what is left of that one.  The entry before takes over *)
(* the record, the name is zeroed, the inode freed.  The first entry and a *)
(* name it does not meet stay, and so does a directory that is not empty.  *)
Delete(d, path) ==
  /\ dirOps < MaxDirOps /\ ~crossed /\ dblk[d] # <<>>
  /\ LET at == Walk(dblk[d], ByRealLen)
         Match(k) == at[k] < Words /\ Strcmp(dblk[d], at[k], path)
         hits == {k \in 1..link[d] - 1 : Match(k)}
         k == Min(hits)
     IN  /\ hits # {} /\ ~Match(0)
         /\ crossed' = (\E j \in 0..k : dblk[d][at[j]] \in {Zero, Bytes})
         /\ dblk' = [dblk EXCEPT ![d] =
              [w \in DOMAIN @ |->
                 IF w \in at[k]..at[k] + RealLen(path) - 1 THEN Zero
                 ELSE IF w = at[k - 1] THEN [@[w] EXCEPT !.rec = @ + dblk[d][at[k]].rec]
                 ELSE @[w]]]
         /\ link' = [link EXCEPT ![d] = @ - 1]
         /\ listed' = [listed EXCEPT ![d] = @ \ {path}]
  /\ dirOps' = dirOps + 1
  /\ UNCHANGED counted

DirNext ==
  \/ \E d \in {RootDir, Sub}, path \in DirName : Create(d, path, 4)
  \/ \E path \in DirName : Mkdir(path, 5)
  \/ \E d \in {RootDir, Sub}, path \in DirName : Delete(d, path)

DirSpec == DirInit /\ [][DirNext]_dirVars
-----------------------------------------------------------------------------
(* Whatever names were created and deleted before, the lookup walks the    *)
(* whole block, never stands still, and finds exactly the names that are   *)
(* in the directory, unless a delete walked over what another had left, a  *)
(* name whose end the next entry hides came in twice, the block was full,  *)
(* or the directory came with an entry its i_link_cnt does not count.      *)
DirWalks ==
  ~crossed =>
    \A d \in {RootDir, Sub} : (d = RootDir => counted) /\ dblk[d] # <<>> =>
      LET at == Walk(dblk[d], ByRecLen)
      IN  /\ at[Words] = Words
          /\ \A k \in 0..Words : at[k] < Words => dblk[d][at[k]].rec > 0
          /\ \A path \in DirName : Find(dblk[d], path) # {} <=> path \in listed[d]
=============================================================================
