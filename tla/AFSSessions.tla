---------------------------- MODULE AFSSessions ----------------------------
(***************************************************************************)
(* What the caches of dist-afs/afs.py promise: they are not noticed.  A    *)
(* client that opens a file gets a copy of what the server holds then and  *)
(* keeps it until its last close; reads and writes touch that copy; a close*)
(* of a copy that was written stores it on the server.                     *)
(***************************************************************************)
EXTENDS Integers, FiniteSets

CONSTANTS
    Clients, Files, FDs, Values, NoValue, FileValue,
    Others          \* whether there are other clients, which may store anything

VARIABLES
    contents,   \* per file, the value the server holds
    opened,     \* per client, pairs of an open descriptor and its file
    copy,       \* per client and file, its copy while the file is open
    seen        \* per client, the value of its last read

sessionVars == <<contents, opened, copy, seen>>

NoCopy == [data |-> NoValue, dirty |-> FALSE]
OpensOf(c, f) == {x \in opened[c] : x[2] = f}

SessionInit ==
    /\ contents = FileValue
    /\ opened = [c \in Clients |-> {}]
    /\ copy = [c \in Clients |-> [f \in Files |-> NoCopy]]
    /\ seen = [c \in Clients |-> NoValue]

OpenFirst(c, fd, f) ==
    /\ OpensOf(c, f) = {}
    /\ opened' = [opened EXCEPT ![c] = @ \cup {<<fd, f>>}]
    /\ copy' = [copy EXCEPT ![c][f] = [data |-> contents[f], dirty |-> FALSE]]
    /\ UNCHANGED <<contents, seen>>

OpenAgain(c, fd, f) ==
    /\ OpensOf(c, f) # {}
    /\ opened' = [opened EXCEPT ![c] = @ \cup {<<fd, f>>}]
    /\ UNCHANGED <<contents, copy, seen>>

ReadCopy(c, f) ==
    /\ OpensOf(c, f) # {}
    /\ seen' = [seen EXCEPT ![c] = copy[c][f].data]
    /\ UNCHANGED <<contents, opened, copy>>

WriteCopy(c, f) ==
    /\ OpensOf(c, f) # {}
    /\ \E v \in Values : copy' = [copy EXCEPT ![c][f] = [data |-> v, dirty |-> TRUE]]
    /\ UNCHANGED <<contents, opened, seen>>

CloseCopy(c, x) ==
    LET f    == x[2]
        mine == copy[c][f]
    IN  /\ x \in opened[c]
        /\ opened' = [opened EXCEPT ![c] = @ \ {x}]
        /\ contents' = IF mine.dirty THEN [contents EXCEPT ![f] = mine.data] ELSE contents
        /\ copy' = [copy EXCEPT ![c][f] = IF OpensOf(c, f) = {x} THEN NoCopy
                                          ELSE [mine EXCEPT !.dirty = FALSE]]
        /\ UNCHANGED seen

StoreByOthers ==
    /\ Others
    /\ \E f \in Files, v \in Values : contents' = [contents EXCEPT ![f] = v]
    /\ UNCHANGED <<opened, copy, seen>>

SessionNext == StoreByOthers \/
    \E c \in Clients :
        \/ \E fd \in FDs, f \in Files : OpenFirst(c, fd, f) \/ OpenAgain(c, fd, f)
        \/ \E f \in Files : ReadCopy(c, f) \/ WriteCopy(c, f)
        \/ \E x \in FDs \X Files : CloseCopy(c, x)

SessionSpec == SessionInit /\ [][SessionNext]_sessionVars
=============================================================================
