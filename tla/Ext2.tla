-------------------------------- MODULE Ext2 --------------------------------
(***************************************************************************)
(* The inodes, blocks and bitmaps of Kernel/ext2.c, used by several        *)
(* processes: ext2_create, ext2_open, ext2_read, ext2_write, ext2_close    *)
(* and ext2_delete with ext2_alloc_inode, ext2_alloc_block,                *)
(* ext2_free_block and ext2_free_inode.  There is no lock, and every       *)
(* block_read and block_write sleeps: a bitmap or an inode is read in one  *)
(* action and written back, whole, in a later one.  A crash keeps the disk *)
(* and loses the rest.  A file has direct blocks only (see Ext2Layout), one*)
(* directory is a function from names (see Ext2Layout); positions in a file*)
(* are blocks, and sizes are left out.                                     *)
(***************************************************************************)
EXTENDS Integers, FiniteSets, FiniteSetsExt

CONSTANTS ExtProc, FileName,
          Groups, BlkPerGroup, InodePerGroup,
          FileBlocks,     \* blocks a file can have
          MaxExtOps       \* bound: operations started

ASSUME Ext2Assumption ==
  /\ Groups \in Nat \ {0} /\ BlkPerGroup \in Nat \ {0}
  /\ InodePerGroup \in Nat \ {0}
  /\ FileBlocks \in Nat /\ MaxExtOps \in Nat
  /\ "none" \notin FileName        \* stands for a creation that is undone

Group == 0..Groups - 1
Blk == 0..Groups * BlkPerGroup - 1          \* 0 is never free
Ino == 1..Groups * InodePerGroup
NoBlocks == [k \in 0..FileBlocks - 1 |-> 0]
Idle == [at |-> "idle"]

VARIABLES bmap,       \* blocks marked in the block bitmaps on disk
          imap,       \* inodes marked in the inode bitmaps on disk
          inode,      \* i_block of the inodes on disk
          dir,        \* the directory on disk: the inode of a name, or 0
          bfree,      \* free_block_nums of each group
          ifree,      \* free_inode_nums of each group
          handle,     \* the inode of the file each process has open, or 0
          ext,        \* what each process is doing
          raced,      \* history: a write-back undid another's, or two met in a deletion
          inherited,  \* history: a new file kept its inode's old blocks
          aborted,     \* history: an aborted write freed a block still in use
          cut,        \* history: a crash fell into a deletion
          extOps

extVars == <<bmap, imap, inode, dir, bfree, ifree, handle, ext, raced,
             inherited, aborted, cut, extOps>>

BlkGroup(b) == b \div BlkPerGroup
InoGroup(i) == (i - 1) \div InodePerGroup
InGroup(g) == {b \in Blk : BlkGroup(b) = g}
InosOf(g) == {i \in Ino : InoGroup(i) = g}

Ext2Init ==
  /\ bmap = {0} /\ imap = {}
  /\ inode = [i \in Ino |-> NoBlocks]
  /\ dir = [n \in FileName |-> 0]
  /\ bfree = [g \in Group |-> Cardinality(InGroup(g) \ {0})]
  /\ ifree = [g \in Group |-> InodePerGroup]
  /\ handle = [p \in ExtProc |-> 0]
  /\ ext = [p \in ExtProc |-> Idle]
  /\ raced = FALSE /\ inherited = FALSE /\ aborted = FALSE /\ cut = FALSE
  /\ extOps = 0

Begin(p, o) ==
  /\ ext[p] = Idle
  /\ extOps < MaxExtOps
  /\ extOps' = extOps + 1
  /\ ext' = [ext EXCEPT ![p] = o]

Step(p, o) == ext' = [ext EXCEPT ![p] = o] /\ UNCHANGED extOps

(* The first group with a free block or inode; with none left the code     *)
(* returns an uninitialized number, and the model stops there.             *)
FirstFree(free) == Min({g \in Group : free[g] > 0})

(* ext2_create_entry: the name is new, ext2_alloc_inode reads a bitmap. *)
CreateRead(p, n) ==
  /\ handle[p] = 0 /\ dir[n] = 0
  /\ \E g \in Group : ifree[g] > 0
  /\ Begin(p, [at |-> "ialloc", name |-> n, g |-> FirstFree(ifree),
               copy |-> imap \cap InosOf(FirstFree(ifree))])
  /\ UNCHANGED <<bmap, imap, inode, dir, bfree, ifree, handle,
                 raced, inherited, aborted, cut>>

(* The lowest clear bit is set, the counters and the bitmap are written. *)
InodeAlloc(p) ==
  LET o == ext[p]
      i == Min(InosOf(o.g) \ o.copy)
  IN  /\ o.at = "ialloc"
      /\ InosOf(o.g) # o.copy
      /\ imap' = (imap \ InosOf(o.g)) \cup o.copy \cup {i}
      /\ raced' = (raced \/ imap \cap InosOf(o.g) # o.copy
                         \/ \E n \in FileName : dir[n] = i)
      /\ ifree' = [ifree EXCEPT ![o.g] = @ - 1]
      /\ Step(p, [at |-> "insert", name |-> o.name, ino |-> i])
      /\ UNCHANGED <<bmap, inode, dir, bfree, handle, inherited, aborted, cut>>

(* The entry is inserted and the inode written, its i_block as it was.     *)
(* When the name has come up in between, ext2_free_inode undoes it.        *)
CreateEnd(p) ==
  LET o == ext[p] IN
  /\ o.at = "insert"
  /\ IF dir[o.name] = 0
     THEN /\ dir' = [dir EXCEPT ![o.name] = o.ino]
          /\ handle' = [handle EXCEPT ![p] = o.ino]
          /\ inherited' = (inherited \/ inode[o.ino] # NoBlocks)
          /\ Step(p, Idle)
     ELSE /\ Step(p, [at |-> "free", name |-> "none", ino |-> o.ino,
                      blks |-> inode[o.ino], k |-> 0])
          /\ inherited' = (inherited \/ inode[o.ino] # NoBlocks)
          /\ UNCHANGED <<dir, handle>>
  /\ UNCHANGED <<bmap, imap, inode, bfree, ifree, raced, aborted, cut>>

Open(p, n) ==
  /\ ext[p] = Idle /\ handle[p] = 0 /\ dir[n] # 0
  /\ handle' = [handle EXCEPT ![p] = dir[n]]
  /\ UNCHANGED <<bmap, imap, inode, dir, bfree, ifree, ext, raced,
                 inherited, aborted, cut, extOps>>

Close(p) ==
  /\ ext[p] = Idle /\ handle[p] # 0
  /\ handle' = [handle EXCEPT ![p] = 0]
  /\ UNCHANGED <<bmap, imap, inode, dir, bfree, ifree, ext, raced,
                 inherited, aborted, cut, extOps>>

(* ext2_write reads the inode; a position and a length are blocks k..last. *)
WriteRead(p, k, last) ==
  /\ handle[p] # 0 /\ k <= last
  /\ Begin(p, [at |-> "map", k |-> k, last |-> last,
               old |-> inode[handle[p]], new |-> inode[handle[p]]])
  /\ UNCHANGED <<bmap, imap, inode, dir, bfree, ifree, handle,
                 raced, inherited, aborted, cut>>

(* ext2_read reads the inode, and writes it back with a new access time. *)
ReadRead(p) ==
  /\ handle[p] # 0
  /\ Begin(p, [at |-> "inode", old |-> inode[handle[p]],
               new |-> inode[handle[p]]])
  /\ UNCHANGED <<bmap, imap, inode, dir, bfree, ifree, handle,
                 raced, inherited, aborted, cut>>

(* The block behind the position, or the bitmap to find one in. *)
WriteMap(p) ==
  LET o == ext[p] IN
  /\ o.at = "map"
  /\ IF o.new[o.k] # 0
     THEN Step(p, [at |-> "data", k |-> o.k, last |-> o.last, old |-> o.old, new |-> o.new])
     ELSE /\ \E g \in Group : bfree[g] > 0
          /\ LET g == FirstFree(bfree)
             IN  Step(p, [at |-> "balloc", k |-> o.k, last |-> o.last,
                          old |-> o.old, new |-> o.new, g |-> g,
                          copy |-> bmap \cap InGroup(g)])
  /\ UNCHANGED <<bmap, imap, inode, dir, bfree, ifree, handle,
                 raced, inherited, aborted, cut>>

(* A slip: the bit is set in the copy that is not written back. *)
BlockAlloc_unwritten(p) ==
  LET o == ext[p]
      b == Min(InGroup(o.g) \ o.copy)
  IN  /\ o.at = "balloc"
      /\ InGroup(o.g) # o.copy
      /\ bmap' = (bmap \ InGroup(o.g)) \cup o.copy
      /\ raced' = (raced \/ bmap \cap InGroup(o.g) # o.copy)
      /\ bfree' = [bfree EXCEPT ![o.g] = @ - 1]
      /\ Step(p, [at |-> "data", k |-> o.k, last |-> o.last, old |-> o.old,
                  new |-> [o.new EXCEPT ![o.k] = b]])
      /\ UNCHANGED <<imap, inode, dir, ifree, handle, inherited, aborted, cut>>

(* The rest of ext2_alloc_block. *)
BlockAlloc(p) ==
  LET o == ext[p]
      b == Min(InGroup(o.g) \ o.copy)
  IN  /\ o.at = "balloc"
      /\ InGroup(o.g) # o.copy
      /\ bmap' = (bmap \ InGroup(o.g)) \cup o.copy \cup {b}
      /\ raced' = (raced \/ bmap \cap InGroup(o.g) # o.copy)
      /\ bfree' = [bfree EXCEPT ![o.g] = @ - 1]
      /\ Step(p, [at |-> "data", k |-> o.k, last |-> o.last, old |-> o.old,
                  new |-> [o.new EXCEPT ![o.k] = b]])
      /\ UNCHANGED <<imap, inode, dir, ifree, handle, inherited, aborted, cut>>

(* The block is written; the next one follows, or the inode. *)
WriteData(p) ==
  LET o == ext[p] IN
  /\ o.at = "data"
  /\ Step(p, IF o.k = o.last THEN [at |-> "inode", old |-> o.old, new |-> o.new]
             ELSE [at |-> "map", k |-> o.k + 1, last |-> o.last, old |-> o.old, new |-> o.new])
  /\ UNCHANGED <<bmap, imap, inode, dir, bfree, ifree, handle,
                 raced, inherited, aborted, cut>>

(* Writing the block fails: it is freed, new or not, and the inode is not  *)
(* written.                                                                *)
WriteFails(p) ==
  LET o == ext[p]
      b == o.new[o.k]
  IN  /\ o.at = "data"
      /\ bmap' = bmap \ {b}
      /\ bfree' = [bfree EXCEPT ![BlkGroup(b)] = @ + 1]
      /\ aborted' = (aborted \/ \E i \in Ino, k \in DOMAIN NoBlocks : inode[i][k] = b)
      /\ Step(p, Idle)
      /\ UNCHANGED <<imap, inode, dir, ifree, handle, raced, inherited, cut>>

(* The inode is written back, from the copy. *)
InodeWrite(p) ==
  LET o == ext[p] IN
  /\ o.at = "inode"
  /\ inode' = [inode EXCEPT ![handle[p]] = o.new]
  /\ raced' = (raced \/ inode[handle[p]] # o.old)
  /\ Step(p, Idle)
  /\ UNCHANGED <<bmap, imap, dir, bfree, ifree, handle, inherited, aborted, cut>>

Deleting(n) == \E p \in ExtProc :
  ext[p].at \in {"free", "bfree", "ifree", "unlink"} /\ ext[p].name = n

(* ext2_delete_entry finds the entry; ext2_free_inode reads the inode. *)
UnlinkRead(p, n) ==
  /\ dir[n] # 0
  /\ Begin(p, [at |-> "free", name |-> n, ino |-> dir[n],
               blks |-> inode[dir[n]], k |-> 0])
  /\ raced' = (raced \/ Deleting(n))
  /\ UNCHANGED <<bmap, imap, inode, dir, bfree, ifree, handle,
                 inherited, aborted, cut>>

(* The blocks up to the first hole are freed, then the inode: a bitmap is  *)
(* read for each.                                                          *)
FreeRead(p) ==
  LET o == ext[p] IN
  /\ o.at = "free"
  /\ Step(p, IF o.k < FileBlocks /\ o.blks[o.k] # 0
             THEN [at |-> "bfree", name |-> o.name, ino |-> o.ino,
                   blks |-> o.blks, k |-> o.k,
                   copy |-> bmap \cap InGroup(BlkGroup(o.blks[o.k]))]
             ELSE [at |-> "ifree", name |-> o.name, ino |-> o.ino,
                   copy |-> imap \cap InosOf(InoGroup(o.ino))])
  /\ UNCHANGED <<bmap, imap, inode, dir, bfree, ifree, handle,
                 raced, inherited, aborted, cut>>

(* ext2_free_block clears the bit and writes the bitmap and the counter. *)
BlockFree(p) ==
  LET o == ext[p]
      g == BlkGroup(o.blks[o.k])
  IN  /\ o.at = "bfree"
      /\ bmap' = (bmap \ InGroup(g)) \cup (o.copy \ {o.blks[o.k]})
      /\ raced' = (raced \/ bmap \cap InGroup(g) # o.copy)
      /\ bfree' = [bfree EXCEPT ![g] = @ + 1]
      /\ Step(p, [at |-> "free", name |-> o.name, ino |-> o.ino,
                  blks |-> o.blks, k |-> o.k + 1])
      /\ UNCHANGED <<imap, inode, dir, ifree, handle, inherited, aborted, cut>>

InodeFree(p) ==
  LET o == ext[p]
      g == InoGroup(o.ino)
  IN  /\ o.at = "ifree"
      /\ imap' = (imap \ InosOf(g)) \cup (o.copy \ {o.ino})
      /\ raced' = (raced \/ imap \cap InosOf(g) # o.copy)
      /\ ifree' = [ifree EXCEPT ![g] = @ + 1]
      /\ Step(p, IF o.name = "none" THEN Idle
                 ELSE [at |-> "unlink", name |-> o.name])
      /\ UNCHANGED <<bmap, inode, dir, bfree, handle, inherited, aborted, cut>>

(* Last of all the directory is written without the entry. *)
UnlinkEnd(p) ==
  LET o == ext[p] IN
  /\ o.at = "unlink"
  /\ dir' = [dir EXCEPT ![o.name] = 0]
  /\ Step(p, Idle)
  /\ UNCHANGED <<bmap, imap, inode, bfree, ifree, handle,
                 raced, inherited, aborted, cut>>

(* The machine stops and is started again: the disk is what is left. *)
Crash ==
  /\ \E p \in ExtProc : ext[p] # Idle
  /\ ext' = [p \in ExtProc |-> Idle]
  /\ handle' = [p \in ExtProc |-> 0]
  /\ cut' = (cut \/ \E n \in FileName : Deleting(n))
  /\ UNCHANGED <<bmap, imap, inode, dir, bfree, ifree,
                 raced, inherited, aborted, extOps>>

Ext2Next ==
  \/ \E p \in ExtProc :
       \/ \E n \in FileName : CreateRead(p, n) \/ Open(p, n) \/ UnlinkRead(p, n)
       \/ \E k, last \in 0..FileBlocks - 1 : WriteRead(p, k, last)
       \/ InodeAlloc(p) \/ CreateEnd(p) \/ Close(p) \/ ReadRead(p)
       \/ WriteMap(p) \/ BlockAlloc(p) \/ WriteData(p) \/ WriteFails(p)
       \/ InodeWrite(p) \/ FreeRead(p) \/ BlockFree(p) \/ InodeFree(p)
       \/ UnlinkEnd(p)
  \/ Crash

Ext2Spec == Ext2Init /\ [][Ext2Next]_extVars
-----------------------------------------------------------------------------
Used(n) == {inode[dir[n]][k] : k \in DOMAIN NoBlocks} \ {0}

(* No block is in two files and every block of a file is marked as used,   *)
(* with processes at work and after any crash: allocation marks a block    *)
(* before an inode names it.  Four things end this: a bitmap or inode      *)
(* written back over someone else's change, a new file in an inode whose   *)
(* old pointers nobody clears, an aborted write to an old block, a crash   *)
(* or another operation in the middle of a deletion, which frees before it *)
(* unlinks.                                                                *)
NoSharing ==
  ~raced /\ ~inherited /\ ~aborted /\ ~cut =>
    LET files == {n \in FileName : dir[n] # 0 /\ ~Deleting(n)}
    IN  \A n \in files :
          /\ Used(n) \subseteq bmap
          /\ \A m \in files : dir[m] # dir[n] => Used(n) \cap Used(m) = {}

(* Where the run stops: after the four nothing is claimed. *)
DiskSound == ~raced /\ ~inherited /\ ~aborted /\ ~cut
=============================================================================
