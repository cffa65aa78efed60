------------------------------ MODULE LogTree ------------------------------
(***************************************************************************)
(* What file-lfs/lfs.py promises: the tree of FileTree, in which a file is *)
(* a sequence of blocks that can be written again, from any block on.      *)
(***************************************************************************)
EXTENDS FileTree, Integers

CONSTANT Hole       \* what a block holds that was skipped

MaxOf(a, b) == IF a > b THEN a ELSE b

\* The blocks vs from offset on.  What lies between the end and the offset is a hole.
Overwritten(old, offset, vs) ==
    [i \in 1 .. MaxOf(Len(old), offset + Len(vs)) |->
        CASE i - offset \in DOMAIN vs -> vs[i - offset]
          [] i \in DOMAIN old /\ i - offset \notin DOMAIN vs -> old[i]
          [] OTHER -> Hole]

\* What a write writes is told apart from all that was in a file before.
WriteSome(p) ==
    /\ UNCHANGED <<directories, file>>
    /\ \E o \in {file[p]}, old \in {content}, new \in {content'} :
          /\ new = [old EXCEPT ![o] = new[o]]
          /\ \E offset \in 0 .. Len(new[o]) : \E n \in 0 .. Len(new[o]) - offset :
                LET vs == SubSeq(new[o], offset + 1, offset + n)
                IN  /\ \A f \in DOMAIN old : ToSet(vs) \cap ToSet(old[f]) = {}
                    /\ new[o] = Overwritten(old[o], offset, vs)

LogTreeNext ==
    \/ \E p \in DOMAIN file : WriteSome(p) \/ Unlink(p)
    \/ \E parent \in directories, name \in Names :
          Mkdir(parent, name) \/ Creat(parent, name)
          \/ \E target \in DOMAIN file : Link(target, parent, name)

LogTreeSpec == TreeInit /\ [][LogTreeNext]_treeVars
=============================================================================
