--------------------------- MODULE MCFileSystems ---------------------------
(***************************************************************************)
(* The simulators of the AFS and the file system chapters, which have      *)
(* nothing in common at run time: a behaviour is one of one of them,       *)
(* picked at the start, and the other stands where it starts.              *)
(***************************************************************************)
EXTENDS MCAFS, Fsck

VARIABLES simulator

fsVars == <<simulator, vars, fsckVars>>

\* One where either bitmap can fill up first, one with as many blocks as
\* inodes, and one that starts with all blocks in use.
MCSizes == {<<5, 3>>, <<4, 4>>, <<2, 1>>}

NoFsck == FsckInit /\ <<numInodes, numData, first_fit>> = <<2, 1, TRUE>>

FileSystemsInit ==
    \/ simulator = "afs" /\ Init /\ NoFsck
    \/ simulator = "fsck" /\ FsckInit /\ Init

FileSystemsNext ==
    \/ simulator = "afs" /\ Next /\ UNCHANGED <<simulator, fsckVars>>
    \/ simulator = "fsck" /\ FsckNext /\ UNCHANGED <<simulator, vars>>

FileSystemsSpec == FileSystemsInit /\ [][FileSystemsNext]_fsVars
=============================================================================
