-------------------------------- MODULE AFS --------------------------------
(***************************************************************************)
(* dist-afs/afs.py: a server that holds the files and remembers which      *)
(* client fetched which (its callback lists), and clients that cache whole *)
(* files.  A step is one call of client.step(): an open, read, write or    *)
(* close, with everything it calls on the cache and on the server.         *)
(*                                                                         *)
(* A client's program is any well-formed list of -A: each descriptor is    *)
(* opened once, used while it is open and closed at most once, and the     *)
(* scheduler (-S, or random) picks any client at each step.  The programs  *)
(* the simulator makes up by itself never open a file that is open; only   *)
(* -A lets a client do that.                                               *)
(***************************************************************************)
EXTENDS Integers, FiniteSets

CONSTANTS
    Clients, Files, FDs,
    FileValue,      \* FileValue[f] is what getvalue() gave file f at the start
    MaxValue,       \* bound on the counter of getvalue()
    Reopeners       \* the clients that may open a file they have open already

ASSUME AFSAssumption ==
    /\ IsFiniteSet(Files)
    /\ MaxValue \in Nat
    /\ FileValue \in [Files -> 0 .. MaxValue]
    /\ Reopeners \subseteq Clients

NoValue == -1
Values  == 0 .. MaxValue
Entries == [data : Values \cup {NoValue}, dirty : BOOLEAN, refcnt : Int, valid : BOOLEAN]
Absent  == [data |-> NoValue, dirty |-> FALSE, refcnt |-> 0, valid |-> FALSE]

VARIABLES
    value,      \* files.value: the next value getvalue() returns
    contents,   \* server.contents
    callbacks,  \* server.cache: per client, the files it has fetched
    cache,      \* client.cache: per client and file, its entry or Absent
    opened,     \* per client, pairs of an open descriptor and its file
    used,       \* per client, the descriptors its program has opened
    seen,       \* per client, the value its last read printed
    done,       \* per client, whether its program is over
    failed      \* the client whose assert failed, which stopped the simulator

vars == <<value, contents, callbacks, cache, opened, used, seen, done, failed>>

\* files.getvalue() numbers the files first; setclients() empties the lists.
Init ==
    /\ value = Cardinality(Files)
    /\ contents = FileValue
    /\ callbacks = [c \in Clients |-> {}]
    /\ cache = [c \in Clients |-> [f \in Files |-> Absent]]
    /\ opened = [c \in Clients |-> {}]
    /\ used = [c \in Clients |-> {}]
    /\ seen = [c \in Clients |-> NoValue]
    /\ done = [c \in Clients |-> FALSE]
    /\ failed = {}

InCache(c, f)  == cache[c][f] # Absent
OpensOf(c, f)  == {x \in opened[c] : x[2] = f}
Running(c)     == failed = {} /\ ~done[c]

\* Faulty: an entry is used whether or not it is valid.
getfile_Stale(c, f) ==
    LET hit == InCache(c, f)
        e   == IF hit THEN cache[c][f]
               ELSE [data |-> contents[f], dirty |-> FALSE, refcnt |-> 0, valid |-> TRUE]
    IN  /\ callbacks' = IF hit THEN callbacks ELSE [callbacks EXCEPT ![c] = @ \cup {f}]
        /\ cache' = [cache EXCEPT ![c][f] = [e EXCEPT !.refcnt = @ + 1]]

\* client.getfile: use a valid entry, else fetch the file and start a new
\* entry; then count one more open.
getfile(c, f) ==
    LET hit == InCache(c, f) /\ cache[c][f].valid
        e   == IF hit THEN cache[c][f]
               ELSE [data |-> contents[f], dirty |-> FALSE, refcnt |-> 0, valid |-> TRUE]
    IN  /\ callbacks' = IF hit THEN callbacks ELSE [callbacks EXCEPT ![c] = @ \cup {f}]
        /\ cache' = [cache EXCEPT ![c][f] = [e EXCEPT !.refcnt = @ + 1]]

Open(c, fd, f) ==
    /\ Running(c) /\ fd \notin used[c]
    /\ c \in Reopeners \/ OpensOf(c, f) = {}
    /\ getfile(c, f)
    /\ opened' = [opened EXCEPT ![c] = @ \cup {<<fd, f>>}]
    /\ used' = [used EXCEPT ![c] = @ \cup {fd}]
    /\ UNCHANGED <<value, contents, seen, done, failed>>

\* cache.get asserts that the file is in the cache.
AssertFails(c, f) ==
    /\ ~InCache(c, f)
    /\ failed' = {c}
    /\ UNCHANGED <<value, contents, callbacks, cache, opened, used, seen, done>>

Read(c, x) ==
    /\ Running(c) /\ x \in opened[c]
    /\ \/ AssertFails(c, x[2])
       \/ /\ InCache(c, x[2])
          /\ seen' = [seen EXCEPT ![c] = cache[c][x[2]].data]
          /\ UNCHANGED <<value, contents, callbacks, cache, opened, used, done, failed>>

\* cache.update marks the entry dirty and leaves valid as it is.
Write(c, x) ==
    /\ Running(c) /\ x \in opened[c] /\ value <= MaxValue
    /\ \/ AssertFails(c, x[2])
       \/ /\ InCache(c, x[2])
          /\ cache' = [cache EXCEPT ![c][x[2]].data = value, ![c][x[2]].dirty = TRUE]
          /\ value' = value + 1
          /\ UNCHANGED <<contents, callbacks, opened, used, seen, done, failed>>

\* Faulty: the callback is skipped while the file is open.
invalidated_ClosedOnly(c, f) ==
    [d \in Clients |->
        IF d # c /\ f \in callbacks[d] /\ InCache(d, f) /\ cache[d][f].refcnt = 0
        THEN [cache[d] EXCEPT ![f].valid = FALSE]
        ELSE cache[d]]

\* Faulty: the entry is thrown away, open or not.
invalidated_Drops(c, f) ==
    [d \in Clients |->
        IF d # c /\ f \in callbacks[d] THEN [cache[d] EXCEPT ![f] = Absent] ELSE cache[d]]

\* server.put calls invalidate on every other client with the file on its list.
invalidated(c, f) ==
    [d \in Clients |->
        IF d # c /\ f \in callbacks[d] /\ InCache(d, f)
        THEN [cache[d] EXCEPT ![f].valid = FALSE]
        ELSE cache[d]]

\* cache.decref and cache.checkvalid: the last close drops an invalid entry.
dropped(e) == IF ~e.valid /\ e.refcnt - 1 = 0 THEN Absent ELSE [e EXCEPT !.refcnt = @ - 1]

putfile(c, f) ==
    /\ contents' = [contents EXCEPT ![f] = cache[c][f].data]
    /\ cache' = [invalidated(c, f) EXCEPT
                    ![c][f] = dropped([cache[c][f] EXCEPT !.dirty = FALSE, !.valid = TRUE])]

\* Faulty: the server forgets whom it has called back, the writer included.
Close_ForgetsCallbacks(c, x) ==
    /\ Running(c) /\ x \in opened[c]
    /\ \/ AssertFails(c, x[2])
       \/ /\ InCache(c, x[2])
          /\ opened' = [opened EXCEPT ![c] = @ \ {x}]
          /\ IF cache[c][x[2]].dirty
             THEN putfile(c, x[2]) /\ callbacks' = [d \in Clients |-> callbacks[d] \ {x[2]}]
             ELSE /\ cache' = [cache EXCEPT ![c][x[2]] = dropped(@)]
                  /\ UNCHANGED <<contents, callbacks>>
          /\ UNCHANGED <<value, used, seen, done, failed>>

Close(c, x) ==
    /\ Running(c) /\ x \in opened[c]
    /\ \/ AssertFails(c, x[2])
       \/ /\ InCache(c, x[2])
          /\ opened' = [opened EXCEPT ![c] = @ \ {x}]
          /\ IF cache[c][x[2]].dirty
             THEN putfile(c, x[2])
             ELSE /\ cache' = [cache EXCEPT ![c][x[2]] = dropped(@)]
                  /\ UNCHANGED contents
          /\ UNCHANGED <<value, callbacks, used, seen, done, failed>>

\* step() finds no action left; main() counts the client out.
Finish(c) ==
    /\ Running(c)
    /\ done' = [done EXCEPT ![c] = TRUE]
    /\ UNCHANGED <<value, contents, callbacks, cache, opened, used, seen, failed>>

Stopped == (failed # {} \/ \A c \in Clients : done[c]) /\ UNCHANGED vars

Step(c) ==
    \/ \E fd \in FDs, f \in Files : Open(c, fd, f)
    \/ \E x \in FDs \X Files : Read(c, x) \/ Write(c, x) \/ Close(c, x)
    \/ Finish(c)

Next == (\E c \in Clients : Step(c)) \/ Stopped

Spec == Init /\ [][Next]_vars

-----------------------------------------------------------------------------
TypeOK ==
    /\ value \in Nat
    /\ contents \in [Files -> Values]
    /\ callbacks \in [Clients -> SUBSET Files]
    /\ cache \in [Clients -> [Files -> Entries]]
    /\ opened \in [Clients -> SUBSET (FDs \X Files)]
    /\ used \in [Clients -> SUBSET FDs]
    /\ seen \in [Clients -> Values \cup {NoValue}]
    /\ done \in [Clients -> BOOLEAN]
    /\ failed \subseteq Clients

\* A valid entry that its client has not written holds what the server holds:
\* no client reads a stale copy it believes valid.
Coherent ==
    \A c \in Clients, f \in Files :
        cache[c][f].valid /\ ~cache[c][f].dirty => cache[c][f].data = contents[f]

\* The server can reach every valid copy: it is on its client's callback list.
CallbackPromise ==
    \A c \in Clients, f \in Files : cache[c][f].valid => f \in callbacks[c]

\* The clients that keep to one open of a file at a time.
Steady == Clients \ Reopeners

\* An open file is in the cache: the asserts of cache.get never fail ...
NeverFails == failed = {}

\* ... or only those of a client that opened a file it had open.  The others count their
\* opens right, whatever callbacks come between an open and its close.
SteadyNeverFail ==
    /\ failed \subseteq Reopeners
    /\ \A c \in Steady, f \in Files : cache[c][f].refcnt = Cardinality(OpensOf(c, f))

\* Refinement: with caches and callbacks the steady clients see what they would
\* see if every open fetched the file, whatever the other clients do.
Sessions == INSTANCE AFSSessions WITH
    Clients <- Steady, Others <- Reopeners # {},
    opened <- [c \in Steady |-> opened[c]],
    seen <- [c \in Steady |-> seen[c]],
    copy <- [c \in Steady |-> [f \in Files |->
                IF OpensOf(c, f) = {} THEN [data |-> NoValue, dirty |-> FALSE]
                ELSE [data |-> cache[c][f].data, dirty |-> cache[c][f].dirty]]]

ImplementsSessions == Sessions!SessionSpec
=============================================================================
