---------------------------- MODULE MCFilesystem ----------------------------
(***************************************************************************)
(* The layers of the file system, side by side: the blocks of a file (part *)
(* "map"), the entries of a directory ("dir"), the allocation of blocks    *)
(* and inodes ("ext2") and the file descriptors ("files").  A behaviour    *)
(* exercises one of them.                                                  *)
(***************************************************************************)
EXTENDS Ext2Layout, Ext2, Files

VARIABLE part

fsVars == <<part, mapVars, dirVars, extVars, fileVars>>

Init == /\ part \in {"map", "dir", "ext2", "files"}
        /\ MapInit /\ DirInit /\ Ext2Init /\ FilesInit
        /\ part # "dir" => ~counted

Next ==
  /\ UNCHANGED part
  /\ \/ part = "map" /\ MapNext /\ UNCHANGED <<dirVars, extVars, fileVars>>
     \/ part = "dir" /\ DirNext /\ UNCHANGED <<mapVars, extVars, fileVars>>
     \/ part = "ext2" /\ Ext2Next /\ UNCHANGED <<mapVars, dirVars, fileVars>>
     \/ part = "files" /\ FilesNext /\ UNCHANGED <<mapVars, dirVars, extVars>>

Spec == Init /\ [][Next]_fsVars

Sound == DiskSound /\ FilesSound

MCTable == 1..9
MCNameLen == "." :> 1 @@ ".." :> 2 @@ "f" :> 1 @@ "ab" :> 2 @@ "abcde" :> 5 @@ "wxyz" :> 4

Symmetry == Permutations(ExtProc) \cup Permutations(FileName) \cup Permutations(File)
=============================================================================
