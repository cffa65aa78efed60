---------------------------- MODULE LogicalDisk ----------------------------
(***************************************************************************)
(* What every SSD of file-ssd/ssd.py promises its user: an array of logical*)
(* pages.  A write replaces one page or fails and changes nothing, a trim  *)
(* empties one, a read returns the last value written; what the device     *)
(* does after a command changes nothing.                                   *)
(***************************************************************************)
CONSTANTS Addresses, Values, None

VARIABLES
    store,      \* per address, what a read returns: None at first and after a trim
    busy        \* after a command, until the next one can be given

diskVars == <<store, busy>>

DiskInit == store = [a \in Addresses |-> None] /\ busy = FALSE

DiskCommand ==
    /\ ~busy /\ busy' = TRUE
    /\ \/ \E a \in Addresses, v \in Values \cup {None} : store' = [store EXCEPT ![a] = v]
       \/ UNCHANGED store

Ready == busy /\ busy' = FALSE /\ UNCHANGED store

DiskSpec == DiskInit /\ [][DiskCommand \/ Ready]_diskVars
=============================================================================
