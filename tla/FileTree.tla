------------------------------ MODULE FileTree ------------------------------
(***************************************************************************)
(* What the file system of file-implementation/vsfs.py promises: a tree of *)
(* directories, and names for files.  A file may have several names, which *)
(* all show the same content; it is gone with its last name.               *)
(***************************************************************************)
EXTENDS Sequences, SequencesExt

CONSTANTS
    Names, Contents,
    Empty,          \* the content of a new file
    Objects         \* what tells files apart

VARIABLES
    directories,    \* a set of paths, sequences of names
    file,           \* per path of a file, the file
    content         \* per file, what is in it

treeVars == <<directories, file, content>>

FilesNamed == {file[p] : p \in DOMAIN file}

TreeInit ==
    /\ directories = {<< >>}
    /\ file = << >>
    /\ content = << >>

\* p is the name of nothing yet, in a directory that is there.
MayName(p) == p \notin directories \cup DOMAIN file

Mkdir(parent, name) ==
    /\ MayName(Append(parent, name))
    /\ directories' = directories \cup {Append(parent, name)}
    /\ UNCHANGED <<file, content>>

Named(p, o) == [q \in DOMAIN file \cup {p} |-> IF q = p THEN o ELSE file[q]]

Creat(parent, name) ==
    LET p == Append(parent, name)
    IN  /\ MayName(p)
        /\ \E o \in Objects \ FilesNamed :
              /\ file' = Named(p, o)
              /\ content' = [f \in FilesNamed \cup {o} |-> IF f = o THEN Empty ELSE content[f]]
        /\ UNCHANGED directories

Link(target, parent, name) ==
    /\ MayName(Append(parent, name))
    /\ file' = Named(Append(parent, name), file[target])
    /\ UNCHANGED <<directories, content>>

Unlink(p) ==
    /\ file' = [q \in DOMAIN file \ {p} |-> file[q]]
    /\ content' = [f \in FilesNamed' |-> content[f]]
    /\ UNCHANGED directories

\* A file holds one block: it is written once.
AppendTo(p, v) ==
    /\ content[file[p]] = Empty
    /\ content' = [content EXCEPT ![file[p]] = v]
    /\ UNCHANGED <<directories, file>>

TreeNext ==
    \/ \E parent \in directories, name \in Names :
          Mkdir(parent, name) \/ Creat(parent, name)
          \/ \E target \in DOMAIN file : Link(target, parent, name)
    \/ \E p \in DOMAIN file : Unlink(p) \/ \E v \in Contents : AppendTo(p, v)

TreeSpec == TreeInit /\ [][TreeNext]_treeVars
=============================================================================
