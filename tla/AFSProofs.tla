----------------------------- MODULE AFSProofs -----------------------------
(***************************************************************************)
(* The caches of afs.py are coherent for every set of clients, files and   *)
(* descriptors, also when clients open files they have open; and a client  *)
(* that does not reads and stores what it would without a cache.           *)
(***************************************************************************)
EXTENDS AFS, FiniteSetTheorems, TLAPS

\* Every entry has data and is on its client's callback list.  It stays there
\* after a callback, so an entry that is invalid, is written and is closed may
\* become valid again: the list is what keeps CallbackPromise true then.
EntryInv ==
    \A c \in Clients, f \in Files :
        cache[c][f] = Absent \/ (cache[c][f].data \in Values /\ f \in callbacks[c])

IInv == TypeOK /\ EntryInv /\ CallbackPromise /\ Coherent

USE DEF NoValue

\* Updating a function, or a function of functions, keeps its type.
LEMMA UpdateType ==
    ASSUME NEW S, NEW T, NEW h \in [S -> T], NEW k, NEW y \in T
    PROVE  [h EXCEPT ![k] = y] \in [S -> T]
  OBVIOUS

LEMMA UpdateType2 ==
    ASSUME NEW S, NEW R, NEW T, NEW h \in [S -> [R -> T]],
           NEW s \in S, NEW r \in R, NEW y \in T
    PROVE  /\ [h EXCEPT ![s][r] = y] \in [S -> [R -> T]]
           /\ \A s1 \in S, r1 \in R :
                 [h EXCEPT ![s][r] = y][s1][r1] = IF s1 = s /\ r1 = r THEN y ELSE h[s1][r1]
  OBVIOUS

\* Changing one field of an entry leaves the others alone.
LEMMA EntryFields ==
    ASSUME NEW e \in Entries
    PROVE  /\ e.data \in Values \cup {NoValue} /\ e.dirty \in BOOLEAN
           /\ e.refcnt \in Int /\ e.valid \in BOOLEAN
           /\ LET n == [e EXCEPT !.valid = FALSE]
              IN  n \in Entries /\ n.data = e.data /\ n.dirty = e.dirty /\ ~n.valid
  BY DEF Entries

LEMMA InitInv == Init => IInv
<1> SUFFICES ASSUME Init PROVE IInv
  OBVIOUS
<1>1. value \in Nat
  BY AFSAssumption, FS_CardinalityType DEF Init
<1>2. Absent \in Entries
  BY DEF Absent, Entries
<1>3. TypeOK
  BY <1>1, <1>2, AFSAssumption DEF Init, TypeOK, Values
<1>4. EntryInv /\ CallbackPromise /\ Coherent
  BY DEF Init, EntryInv, CallbackPromise, Coherent, Absent
<1> QED BY <1>3, <1>4 DEF IInv

\* What a step may do to the caches without disturbing the invariant: to each
\* entry, nothing, an invalidation, or a change that keeps its promise.
LEMMA EntriesStep ==
    ASSUME TypeOK', 
           \A c \in Clients, f \in Files :
              LET e == cache'[c][f]
              IN  /\ e = Absent \/ (e.data \in Values /\ f \in callbacks'[c])
                  /\ e.valid /\ ~e.dirty => e.data = contents'[f]
    PROVE  IInv'
  BY DEF IInv, EntryInv, CallbackPromise, Coherent, Absent

LEMMA NextInv == IInv /\ [Next]_vars => IInv'
<1> SUFFICES ASSUME IInv, [Next]_vars PROVE IInv'
  OBVIOUS
<1>t. TypeOK /\ EntryInv /\ CallbackPromise /\ Coherent
  BY DEF IInv
<1>1. ASSUME UNCHANGED vars PROVE IInv'
  BY <1>1, <1>t DEF vars, IInv, TypeOK, EntryInv, CallbackPromise, Coherent
<1>2. ASSUME NEW c \in Clients, NEW fd \in FDs, NEW f \in Files, Open(c, fd, f) PROVE IInv'
  <2> DEFINE hit == InCache(c, f) /\ cache[c][f].valid
             e   == IF hit THEN cache[c][f]
                    ELSE [data |-> contents[f], dirty |-> FALSE, refcnt |-> 0, valid |-> TRUE]
  <2>1. /\ e \in Entries /\ e.data \in Values /\ e.refcnt \in Int
        /\ e.valid /\ f \in callbacks'[c]
        /\ ~e.dirty => e.data = contents[f]
    BY <1>2, <1>t DEF Open, getfile, TypeOK, Entries, EntryInv, CallbackPromise, Coherent, InCache, Absent
  <2>2. cache' = [cache EXCEPT ![c][f] = [e EXCEPT !.refcnt = @ + 1]]
    BY <1>2 DEF Open, getfile
  <2> HIDE DEF e
  <2>3. [e EXCEPT !.refcnt = @ + 1] \in Entries
    BY <2>1 DEF Entries
  <2>4. TypeOK'
    <3>1. cache' \in [Clients -> [Files -> Entries]]
      BY <2>2, <2>3, <1>t DEF TypeOK
    <3>2. callbacks' \in [Clients -> SUBSET Files]
      BY <1>2, <1>t DEF Open, getfile, TypeOK
    <3> QED BY <1>2, <1>t, <3>1, <3>2 DEF Open, TypeOK
  <2>5. \A d \in Clients : callbacks[d] \subseteq callbacks'[d]
    BY <1>2, <1>t DEF Open, getfile, TypeOK
  <2> QED BY <1>2, <1>t, <2>1, <2>2, <2>3, <2>4, <2>5, EntriesStep
          DEF Open, TypeOK, EntryInv, CallbackPromise, Coherent, Entries
<1>3. ASSUME NEW c \in Clients, NEW x \in FDs \X Files, Read(c, x) PROVE IInv'
  <2>1. UNCHANGED <<value, contents, callbacks, cache, opened, used, done>>
    BY <1>3 DEF Read, AssertFails
  <2>2. seen' \in [Clients -> Values \cup {NoValue}] /\ failed' \subseteq Clients
    <3>1. cache[c][x[2]].data \in Values \cup {NoValue}
      BY <1>t DEF TypeOK, Entries
    <3> QED BY <1>3, <3>1, <1>t DEF Read, AssertFails, TypeOK
  <2> QED BY <2>1, <2>2, <1>t DEF IInv, TypeOK, EntryInv, CallbackPromise, Coherent
<1>4. ASSUME NEW c \in Clients, NEW x \in FDs \X Files, Write(c, x) PROVE IInv'
  <2>f. x[2] \in Files
    OBVIOUS
  <2>1. CASE AssertFails(c, x[2])
    BY <2>1, <1>t DEF AssertFails, IInv, TypeOK, EntryInv, CallbackPromise, Coherent
  <2>2. CASE ~AssertFails(c, x[2])
    <3>1. value \in Values
      BY <1>4, <1>t, AFSAssumption DEF Write, TypeOK, Values
    <3> DEFINE e == [cache[c][x[2]] EXCEPT !.data = value, !.dirty = TRUE]
    <3>2. /\ cache' = [cache EXCEPT ![c][x[2]] = e]
          /\ value' = value + 1
          /\ UNCHANGED <<contents, callbacks, opened, used, seen, done, failed>>
      BY <1>4, <2>2, <1>t DEF Write, TypeOK
    <3>3. e \in Entries /\ e.data \in Values /\ e.dirty /\ e.valid = cache[c][x[2]].valid
      <4>1. cache[c][x[2]] \in Entries
        BY <2>f, <1>t DEF TypeOK
      <4> QED BY <3>1, <4>1 DEF Entries
    <3> HIDE DEF e
    <3>4. TypeOK'
      BY <3>1, <3>2, <3>3, <1>t DEF TypeOK
    <3>5. x[2] \in callbacks[c]
      BY <1>4, <2>2, <2>f, <1>t DEF Write, InCache, EntryInv
    <3>6. \A d \in Clients, g \in Files :
             cache'[d][g] = IF d = c /\ g = x[2] THEN e ELSE cache[d][g]
      BY <3>2, <3>3, <2>f, <1>t, UpdateType2 DEF TypeOK
    <3> QED BY <3>2, <3>3, <3>4, <3>5, <3>6, <1>t, EntriesStep DEF EntryInv, Coherent
  <2> QED BY <2>1, <2>2
<1>5. ASSUME NEW c \in Clients, NEW x \in FDs \X Files, Close(c, x) PROVE IInv'
  <2> DEFINE f == x[2]
  <2>f. f \in Files
    OBVIOUS
  <2>d. ASSUME NEW e \in Entries, e.data \in Values
        PROVE  /\ dropped(e) \in Entries
               /\ dropped(e) = Absent \/ dropped(e).data \in Values
               /\ dropped(e).valid => e.valid
               /\ dropped(e).valid => dropped(e).dirty = e.dirty /\ dropped(e).data = e.data
    <3>1. CASE ~e.valid /\ e.refcnt - 1 = 0
      <4>1. dropped(e) = Absent
        BY <3>1 DEF dropped
      <4> QED BY <4>1 DEF Entries, Absent
    <3>2. CASE ~(~e.valid /\ e.refcnt - 1 = 0)
      <4>1. dropped(e) = [e EXCEPT !.refcnt = e.refcnt - 1]
        BY <3>2 DEF dropped
      <4> QED BY <2>d, <4>1 DEF Entries
    <3> QED BY <3>1, <3>2
  <2>e. ~AssertFails(c, f) => cache[c][f] \in Entries /\ cache[c][f].data \in Values /\ f \in callbacks[c]
    BY <1>5, <1>t DEF Close, InCache, EntryInv, TypeOK
  <2>g. ~AssertFails(c, f) /\ ~cache[c][f].dirty =>
          /\ cache' = [cache EXCEPT ![c][f] = dropped(cache[c][f])]
          /\ opened' = [opened EXCEPT ![c] = @ \ {x}]
          /\ UNCHANGED <<value, contents, callbacks, used, seen, done, failed>>
    BY <1>5, <2>f, <1>t DEF Close, TypeOK
  <2>h. ~AssertFails(c, f) /\ cache[c][f].dirty =>
          /\ putfile(c, f)
          /\ opened' = [opened EXCEPT ![c] = @ \ {x}]
          /\ UNCHANGED <<value, callbacks, used, seen, done, failed>>
    BY <1>5 DEF Close
  <2>i. AssertFails(c, f) => IInv'
    BY <1>t DEF AssertFails, IInv, TypeOK, EntryInv, CallbackPromise, Coherent
  <2>j. \A d \in Clients, g \in Files : cache[d][g].valid => cache[d][g] # Absent
    BY DEF Absent
  <2> HIDE DEF f
  <2>1. CASE AssertFails(c, f)
    BY <2>1, <2>i
  <2>2. CASE ~AssertFails(c, f) /\ ~cache[c][f].dirty
    <3>1. /\ cache' = [cache EXCEPT ![c][f] = dropped(cache[c][f])]
          /\ opened' = [opened EXCEPT ![c] = @ \ {x}]
          /\ UNCHANGED <<value, contents, callbacks, used, seen, done, failed>>
      BY <2>2, <2>g
    <3>2. TypeOK'
      BY <2>2, <3>1, <2>d, <2>e, <2>f, <1>t DEF TypeOK
    <3> QED BY <2>2, <3>1, <3>2, <2>d, <2>e, <2>f, <1>t, EntriesStep
            DEF TypeOK, EntryInv, CallbackPromise, Coherent
  <2>3. CASE ~AssertFails(c, f) /\ cache[c][f].dirty
    <3> DEFINE e == [cache[c][f] EXCEPT !.dirty = FALSE, !.valid = TRUE]
    <3>1. /\ contents' = [contents EXCEPT ![f] = cache[c][f].data]
          /\ cache' = [invalidated(c, f) EXCEPT ![c][f] = dropped(e)]
          /\ opened' = [opened EXCEPT ![c] = @ \ {x}]
          /\ UNCHANGED <<value, callbacks, used, seen, done, failed>>
      BY <2>3, <2>h DEF putfile
    <3>2. e \in Entries /\ e.data = cache[c][f].data /\ e.valid
      BY <2>3, <2>e DEF Entries
    <3> HIDE DEF e
    <3> DEFINE inv == invalidated(c, f)
    <3>3. /\ inv \in [Clients -> [Files -> Entries]]
          /\ \A d \in Clients, g \in Files :
                /\ inv[d][g].data = cache[d][g].data /\ inv[d][g].dirty = cache[d][g].dirty
                /\ cache[d][g] = Absent => inv[d][g] = Absent
                /\ inv[d][g].valid => cache[d][g].valid
                /\ g = f /\ d # c => ~inv[d][g].valid
      <4>1. ASSUME NEW d \in Clients, ~(d # c /\ f \in callbacks[d] /\ InCache(d, f))
            PROVE  inv[d] = cache[d]
        BY <4>1 DEF invalidated
      <4>2. ASSUME NEW d \in Clients, d # c, f \in callbacks[d], InCache(d, f)
            PROVE  inv[d] = [cache[d] EXCEPT ![f] = [cache[d][f] EXCEPT !.valid = FALSE]]
        BY <4>2, <1>t DEF invalidated, TypeOK
      <4>3. ASSUME NEW d \in Clients
            PROVE  cache[d] \in [Files -> Entries] /\ [cache[d][f] EXCEPT !.valid = FALSE] \in Entries
        BY <2>f, <1>t, EntryFields DEF TypeOK
      <4>4. inv = [d \in Clients |-> inv[d]]
        BY DEF invalidated
      <4> HIDE DEF inv
      <4>7. ASSUME NEW d \in Clients PROVE inv[d] \in [Files -> Entries]
        <5>1. CASE d # c /\ f \in callbacks[d] /\ InCache(d, f)
          <6>1. inv[d] = [cache[d] EXCEPT ![f] = [cache[d][f] EXCEPT !.valid = FALSE]]
            BY <5>1, <4>2
          <6> QED BY <6>1, <4>3, UpdateType
        <5>2. CASE ~(d # c /\ f \in callbacks[d] /\ InCache(d, f))
          BY <5>2, <4>1, <4>3
        <5> QED BY <5>1, <5>2
      <4>5. inv \in [Clients -> [Files -> Entries]]
        BY <4>4, <4>7
      <4>6. ASSUME NEW d \in Clients, NEW g \in Files
            PROVE  /\ inv[d][g].data = cache[d][g].data /\ inv[d][g].dirty = cache[d][g].dirty
                   /\ cache[d][g] = Absent => inv[d][g] = Absent
                   /\ inv[d][g].valid => cache[d][g].valid
                   /\ g = f /\ d # c => ~inv[d][g].valid
        <5>1. CASE d # c /\ f \in callbacks[d] /\ InCache(d, f)
          <6>1. inv[d] = [cache[d] EXCEPT ![f] = [cache[d][f] EXCEPT !.valid = FALSE]]
            BY <5>1, <4>2
          <6>2. CASE g = f
            <7>1. cache[d][f] \in Entries
              BY <4>3, <2>f
            <7> QED BY <5>1, <6>1, <6>2, <7>1, <4>3, <2>f, <2>j, EntryFields DEF InCache
          <6>3. CASE g # f
            BY <6>1, <6>3, <4>3
          <6> QED BY <6>2, <6>3
        <5>2. CASE ~(d # c /\ f \in callbacks[d] /\ InCache(d, f))
          BY <5>2, <4>1, <1>t DEF CallbackPromise, InCache, Absent
        <5> QED BY <5>1, <5>2
      <4> QED BY <4>5, <4>6
    <3>5. /\ cache' = [inv EXCEPT ![c][f] = dropped(e)]
          /\ dropped(e) \in Entries
      BY <2>3, <3>1, <3>2, <2>d, <2>e
    <3> HIDE DEF inv
    <3>6. /\ cache' \in [Clients -> [Files -> Entries]]
          /\ \A d \in Clients, g \in Files :
                cache'[d][g] = IF d = c /\ g = f THEN dropped(e) ELSE inv[d][g]
      BY <3>3, <3>5, <2>f, UpdateType2
    <3>7. cache[c][f].data \in Values
      BY <2>3, <2>e
    <3>4. TypeOK'
      BY <3>1, <3>6, <3>7, <2>f, <1>t DEF TypeOK
    <3>8. ASSUME NEW d \in Clients, NEW g \in Files
          PROVE  LET n == cache'[d][g]
                 IN  /\ n = Absent \/ (n.data \in Values /\ g \in callbacks'[d])
                     /\ n.valid /\ ~n.dirty => n.data = contents'[g]
      <4>1. CASE d = c /\ g = f
        <5>1. cache'[d][g] = dropped(e) /\ contents'[g] = cache[c][f].data
          BY <4>1, <3>1, <3>6, <1>t DEF TypeOK
        <5>2. g \in callbacks'[d]
          BY <2>3, <2>e, <3>1, <4>1
        <5> QED BY <5>1, <5>2, <3>2, <3>7, <2>d
      <4>2. CASE ~(d = c /\ g = f)
        <5>1. /\ cache'[d][g] = inv[d][g] /\ callbacks' = callbacks
              /\ g # f => contents'[g] = contents[g]
          BY <4>2, <3>1, <3>6, <1>t DEF TypeOK
        <5>2. inv[d][g] = Absent \/ (inv[d][g].data \in Values /\ g \in callbacks[d])
          BY <3>3, <1>t DEF EntryInv
        <5>3. inv[d][g].valid /\ ~inv[d][g].dirty => inv[d][g].data = contents'[g]
          BY <4>2, <5>1, <3>3, <1>t DEF Coherent
        <5> QED BY <5>1, <5>2, <5>3
      <4> QED BY <4>1, <4>2
    <3> QED BY <3>4, <3>8, EntriesStep
  <2> QED BY <2>1, <2>2, <2>3
<1>6. ASSUME NEW c \in Clients, Finish(c) PROVE IInv'
  BY <1>6, <1>t DEF Finish, IInv, TypeOK, EntryInv, CallbackPromise, Coherent
<1> QED BY <1>1, <1>2, <1>3, <1>4, <1>5, <1>6 DEF Next, Step, Stopped

\* No client ever holds a valid, unwritten copy that differs from the server's,
\* and the server can always call back the holder of a valid copy.
THEOREM AFSCoherent == Spec => []Coherent
<1>1. Spec => []IInv
  BY InitInv, NextInv, PTL DEF Spec
<1>2. IInv => Coherent
  BY DEF IInv
<1> QED BY <1>1, <1>2, PTL

\* The callback lists cover every valid copy.
THEOREM AFSCallbacks == Spec => []CallbackPromise
<1>1. Spec => []IInv
  BY InitInv, NextInv, PTL DEF Spec
<1>2. IInv => CallbackPromise
  BY DEF IInv
<1> QED BY <1>1, <1>2, PTL

-----------------------------------------------------------------------------
\* A client that keeps to one open of a file at a time has its file in the cache, counted
\* once, from the open to the close.  (An entry that counts 1 is not Absent.)
CountInv ==
    \A c \in Steady, f \in Files :
        \/ OpensOf(c, f) = {} /\ cache[c][f].refcnt = 0
        \/ /\ \E x \in FDs \X Files : OpensOf(c, f) = {x}
           /\ cache[c][f].refcnt = 1

SInv == IInv /\ failed \subseteq Reopeners /\ CountInv

\* So no assertion of its cache fails.
LEMMA OpenIsCached ==
    ASSUME TypeOK, CountInv, NEW c \in Steady, NEW x \in opened[c]
    PROVE  InCache(c, x[2]) /\ cache[c][x[2]].refcnt = 1 /\ OpensOf(c, x[2]) = {x}
<1>1. c \in Clients /\ x \in FDs \X Files BY DEF TypeOK, Steady
<1>2. x[2] \in Files /\ x \in OpensOf(c, x[2]) BY <1>1 DEF OpensOf
<1>3. cache[c][x[2]].refcnt = 1 /\ \E y \in FDs \X Files : OpensOf(c, x[2]) = {y}
    BY <1>2 DEF CountInv
<1> QED BY <1>2, <1>3 DEF InCache, Absent

\* A step that leaves a client's descriptors and counts alone leaves its part of CountInv.
LEMMA CountsKept ==
    ASSUME CountInv, NEW c \in Steady, NEW f \in Files,
           OpensOf(c, f)' = OpensOf(c, f), cache'[c][f].refcnt = cache[c][f].refcnt
    PROVE  \/ OpensOf(c, f)' = {} /\ cache'[c][f].refcnt = 0
           \/ /\ \E x \in FDs \X Files : OpensOf(c, f)' = {x}
              /\ cache'[c][f].refcnt = 1
  BY DEF CountInv

\* A callback touches no count.
LEMMA InvalidatedCounts ==
    ASSUME TypeOK, NEW c \in Clients, NEW f \in Files, NEW d \in Clients, NEW g \in Files
    PROVE  /\ invalidated(c, f) \in [Clients -> [Files -> Entries]]
           /\ invalidated(c, f)[d][g].refcnt = cache[d][g].refcnt
<1>1. \A b \in Clients : cache[b] \in [Files -> Entries] BY DEF TypeOK
<1>2. ASSUME NEW b \in Clients
      PROVE  /\ [cache[b] EXCEPT ![f].valid = FALSE] \in [Files -> Entries]
             /\ [cache[b] EXCEPT ![f].valid = FALSE][g].refcnt = cache[b][g].refcnt
    <2>1. cache[b][f] \in Entries BY <1>1
    <2>2. [cache[b][f] EXCEPT !.valid = FALSE] \in Entries BY <2>1, EntryFields
    <2>3. [cache[b][f] EXCEPT !.valid = FALSE].refcnt = cache[b][f].refcnt BY <2>1 DEF Entries
    <2>4. [cache[b] EXCEPT ![f].valid = FALSE]
            = [cache[b] EXCEPT ![f] = [cache[b][f] EXCEPT !.valid = FALSE]]
        BY <1>1
    <2> QED BY <1>1, <2>2, <2>3, <2>4
<1> QED BY <1>1, <1>2 DEF invalidated

\* At the start nothing is open and nothing cached.
LEMMA CountInit == Init => failed \subseteq Reopeners /\ CountInv
<1> SUFFICES ASSUME Init PROVE failed \subseteq Reopeners /\ CountInv OBVIOUS
<1>1. ASSUME NEW c \in Steady, NEW f \in Files
      PROVE  OpensOf(c, f) = {} /\ cache[c][f].refcnt = 0
    BY DEF Init, OpensOf, Absent, Steady
<1> QED BY <1>1 DEF Init, CountInv

\* Every step keeps the counts: an open of a closed file counts 1, whether it is found in the
\* cache or fetched, and its close counts 0, whether the entry stays or goes.
LEMMA CountStep == SInv /\ [Next]_vars => failed' \subseteq Reopeners /\ CountInv'
<1> SUFFICES ASSUME SInv, [Next]_vars PROVE failed' \subseteq Reopeners /\ CountInv' OBVIOUS
<1>t. TypeOK /\ TypeOK' /\ CountInv /\ failed \subseteq Reopeners
    BY NextInv DEF SInv, IInv
<1>c. Steady \subseteq Clients BY DEF Steady
<1>a. ASSUME NEW c \in Clients, NEW x \in FDs \X Files, x \in opened[c], AssertFails(c, x[2])
      PROVE  failed' \subseteq Reopeners /\ CountInv'
    <2>1. c \in Reopeners
        BY <1>a, <1>t, OpenIsCached DEF AssertFails, Steady
    <2> QED BY <1>a, <1>t, <2>1 DEF AssertFails, CountInv, OpensOf
<1>1. CASE UNCHANGED vars BY <1>1, <1>t DEF vars, CountInv, OpensOf
<1>2. ASSUME NEW c \in Clients, NEW fd \in FDs, NEW f \in Files, Open(c, fd, f)
      PROVE  failed' \subseteq Reopeners /\ CountInv'
    <2> DEFINE e == IF InCache(c, f) /\ cache[c][f].valid THEN cache[c][f]
                    ELSE [data |-> contents[f], dirty |-> FALSE, refcnt |-> 0, valid |-> TRUE]
    <2>1. cache' = [cache EXCEPT ![c][f] = [e EXCEPT !.refcnt = @ + 1]]
        BY <1>2 DEF Open, getfile
    <2>2. e \in Entries BY <1>t DEF TypeOK, Entries
    <2>3. c \in Steady => OpensOf(c, f) = {} /\ cache[c][f].refcnt = 0 /\ e.refcnt = 0
        <3>1. c \in Steady => OpensOf(c, f) = {} BY <1>2 DEF Open, Steady
        <3>2. c \in Steady => cache[c][f].refcnt = 0 BY <3>1, <1>t DEF CountInv
        <3> QED BY <3>1, <3>2
    <2> HIDE DEF e
    <2>4. [e EXCEPT !.refcnt = @ + 1].refcnt = e.refcnt + 1 /\ [e EXCEPT !.refcnt = @ + 1] \in Entries
        BY <2>2 DEF Entries
    <2>5. \A d \in Clients, g \in Files : cache'[d][g] =
             IF d = c /\ g = f THEN [e EXCEPT !.refcnt = @ + 1] ELSE cache[d][g]
        BY <1>t, <2>1, <2>4, UpdateType2 DEF TypeOK
    <2>6. \A d \in Clients : opened'[d] = IF d = c THEN opened[d] \cup {<<fd, f>>} ELSE opened[d]
        BY <1>2, <1>t DEF Open, TypeOK
    <2>7. ASSUME NEW d \in Steady, NEW g \in Files
          PROVE  \/ OpensOf(d, g)' = {} /\ cache'[d][g].refcnt = 0
                 \/ /\ \E x \in FDs \X Files : OpensOf(d, g)' = {x}
                    /\ cache'[d][g].refcnt = 1
        <3>1. CASE d = c /\ g = f
            <4>1. OpensOf(d, g)' = OpensOf(d, g) \cup {<<fd, f>>}
                <5>1. OpensOf(d, g)' = {y \in opened[d] \cup {<<fd, f>>} : y[2] = g}
                    BY <3>1, <2>6, <1>c DEF OpensOf
                <5>2. <<fd, f>>[2] = g BY <3>1
                <5> QED BY <5>1, <5>2 DEF OpensOf
            <4>2. OpensOf(d, g)' = {<<fd, f>>} BY <4>1, <3>1, <2>3
            <4>3. cache'[d][g].refcnt = 1
                <5>1. cache'[d][g] = [e EXCEPT !.refcnt = @ + 1] BY <3>1, <2>5, <1>c
                <5>2. e.refcnt = 0 BY <3>1, <2>3
                <5> QED BY <5>1, <5>2, <2>4
            <4>4. <<fd, f>> \in FDs \X Files BY <1>2
            <4> QED BY <4>2, <4>3, <4>4
        <3>2. CASE ~(d = c /\ g = f)
            <4>1. OpensOf(d, g)' = OpensOf(d, g)
                <5>1. CASE d = c
                    <6>1. OpensOf(d, g)' = {y \in opened[d] \cup {<<fd, f>>} : y[2] = g}
                        BY <5>1, <2>6, <1>c DEF OpensOf
                    <6>2. <<fd, f>>[2] # g BY <3>2, <5>1
                    <6> QED BY <6>1, <6>2 DEF OpensOf
                <5>2. CASE d # c BY <5>2, <2>6, <1>c DEF OpensOf
                <5> QED BY <5>1, <5>2
            <4>2. cache'[d][g] = cache[d][g] BY <3>2, <2>5, <1>c
            <4> QED BY <4>1, <4>2, <1>t, CountsKept
        <3> QED BY <3>1, <3>2
    <2> QED BY <2>7, <1>2, <1>t DEF CountInv, Open
<1>3. ASSUME NEW c \in Clients, NEW x \in FDs \X Files, Read(c, x)
      PROVE  failed' \subseteq Reopeners /\ CountInv'
    <2>1. CASE AssertFails(c, x[2]) BY <2>1, <1>3, <1>a DEF Read
    <2>2. CASE ~AssertFails(c, x[2])
        BY <2>2, <1>3, <1>t DEF Read, CountInv, OpensOf
    <2> QED BY <2>1, <2>2
<1>4. ASSUME NEW c \in Clients, NEW x \in FDs \X Files, Write(c, x)
      PROVE  failed' \subseteq Reopeners /\ CountInv'
    <2>1. CASE AssertFails(c, x[2]) BY <2>1, <1>4, <1>a DEF Write
    <2>2. CASE ~AssertFails(c, x[2])
        <3>f. x[2] \in Files OBVIOUS
        <3> DEFINE e == [cache[c][x[2]] EXCEPT !.data = value, !.dirty = TRUE]
        <3>1. cache' = [cache EXCEPT ![c][x[2]] = e]
            BY <1>4, <2>2, <1>t DEF Write, TypeOK
        <3>2. e.refcnt = cache[c][x[2]].refcnt
            <4>1. cache[c][x[2]] \in Entries BY <1>t, <3>f DEF TypeOK
            <4> QED BY <4>1 DEF Entries
        <3> HIDE DEF e
        <3>3. \A d \in Clients, g \in Files : cache'[d][g].refcnt = cache[d][g].refcnt
            BY <3>1, <3>2, <3>f, <1>t DEF TypeOK
        <3>4. opened' = opened /\ failed' = failed BY <1>4, <2>2 DEF Write
        <3> QED BY <3>3, <3>4, <1>t, <1>c DEF CountInv, OpensOf
    <2> QED BY <2>1, <2>2
<1>5. ASSUME NEW c \in Clients, NEW x \in FDs \X Files, Close(c, x)
      PROVE  failed' \subseteq Reopeners /\ CountInv'
    <2>1. CASE AssertFails(c, x[2]) BY <2>1, <1>5, <1>a DEF Close
    <2>2. CASE ~AssertFails(c, x[2])
        <3> DEFINE f == x[2]
        <3>f. f \in Files OBVIOUS
        <3>d. ASSUME NEW e \in Entries
              PROVE  /\ dropped(e) \in Entries
                     /\ e.refcnt = 1 => dropped(e).refcnt = 0
            BY DEF dropped, Absent, Entries
        <3>1. \E e \in Entries, h \in [Clients -> [Files -> Entries]] :
                 /\ e.refcnt = cache[c][f].refcnt
                 /\ cache' = [h EXCEPT ![c][f] = dropped(e)]
                 /\ \A d \in Clients, g \in Files : h[d][g].refcnt = cache[d][g].refcnt
            <4>1. cache[c][f] \in Entries BY <3>f, <1>t DEF TypeOK
            <4>2. CASE ~cache[c][f].dirty
                <5>1. cache' = [cache EXCEPT ![c][f] = dropped(cache[c][f])]
                    BY <1>5, <2>2, <4>2, <3>f, <1>t DEF Close, TypeOK
                <5> QED BY <4>1, <5>1, <1>t DEF TypeOK
            <4>3. CASE cache[c][f].dirty
                <5> DEFINE e == [cache[c][f] EXCEPT !.dirty = FALSE, !.valid = TRUE]
                <5>1. cache' = [invalidated(c, f) EXCEPT ![c][f] = dropped(e)]
                    BY <1>5, <2>2, <4>3 DEF Close, putfile
                <5>2. e \in Entries /\ e.refcnt = cache[c][f].refcnt
                    BY <4>1 DEF Entries
                <5> HIDE DEF e
                <5>3. invalidated(c, f) \in [Clients -> [Files -> Entries]]
                    BY <3>f, <1>t, InvalidatedCounts
                <5>4. \A d \in Clients, g \in Files :
                         invalidated(c, f)[d][g].refcnt = cache[d][g].refcnt
                    BY <3>f, <1>t, InvalidatedCounts
                <5> QED BY <5>1, <5>2, <5>3, <5>4
            <4> QED BY <4>2, <4>3
        <3>2. PICK e \in Entries, h \in [Clients -> [Files -> Entries]] :
                 /\ e.refcnt = cache[c][f].refcnt
                 /\ cache' = [h EXCEPT ![c][f] = dropped(e)]
                 /\ \A d \in Clients, g \in Files : h[d][g].refcnt = cache[d][g].refcnt
            BY <3>1
        <3>3. opened' = [opened EXCEPT ![c] = @ \ {x}] /\ failed' = failed /\ x \in opened[c]
            BY <1>5, <2>2 DEF Close
        <3>4. \A d \in Clients, g \in Files : cache'[d][g] =
                 IF d = c /\ g = f THEN dropped(e) ELSE h[d][g]
            BY <3>2, <3>d, <3>f, UpdateType2
        <3>5. \A d \in Clients : opened'[d] = IF d = c THEN opened[d] \ {x} ELSE opened[d]
            BY <3>3, <1>t DEF TypeOK
        <3>6. ASSUME NEW d \in Steady, NEW g \in Files
              PROVE  \/ OpensOf(d, g)' = {} /\ cache'[d][g].refcnt = 0
                     \/ /\ \E y \in FDs \X Files : OpensOf(d, g)' = {y}
                        /\ cache'[d][g].refcnt = 1
            <4>1. CASE d = c /\ g = f
                <5>1. OpensOf(d, g)' = OpensOf(d, g) \ {x}
                    BY <4>1, <3>5, <1>c DEF OpensOf
                <5>2. OpensOf(d, g) = {x} /\ cache[c][f].refcnt = 1
                    BY <4>1, <3>3, <1>t, OpenIsCached
                <5> QED BY <4>1, <5>1, <5>2, <3>2, <3>4, <3>d
            <4>2. CASE ~(d = c /\ g = f)
                <5>1. OpensOf(d, g)' = OpensOf(d, g)
                    BY <4>2, <3>5, <1>c DEF OpensOf
                <5>2. cache'[d][g].refcnt = cache[d][g].refcnt
                    BY <4>2, <3>2, <3>4, <1>c
                <5> QED BY <5>1, <5>2, <1>t, CountsKept
            <4> QED BY <4>1, <4>2
        <3> QED BY <3>3, <3>6, <1>t DEF CountInv
    <2> QED BY <2>1, <2>2
<1>6. ASSUME NEW c \in Clients, Finish(c) PROVE failed' \subseteq Reopeners /\ CountInv'
    BY <1>6, <1>t DEF Finish, CountInv, OpensOf
<1> QED BY <1>1, <1>2, <1>3, <1>4, <1>5, <1>6 DEF Next, Step, Stopped

\* A client that opens no file it has open never fails an assertion of its cache, and counts
\* its opens right, whatever the other clients do and whichever callbacks come between an
\* open and its close.
THEOREM AFSSteady == Spec => []SteadyNeverFail
<1>1. Init => SInv BY InitInv, CountInit DEF SInv
<1>2. SInv /\ [Next]_vars => SInv' BY NextInv, CountStep DEF SInv
<1>3. SInv => SteadyNeverFail
    <2> SUFFICES ASSUME SInv, NEW c \in Steady, NEW f \in Files
                 PROVE  cache[c][f].refcnt = Cardinality(OpensOf(c, f))
        BY DEF SInv, SteadyNeverFail
    <2>1. CASE OpensOf(c, f) = {} /\ cache[c][f].refcnt = 0 BY <2>1, FS_EmptySet
    <2>2. CASE /\ \E x \in FDs \X Files : OpensOf(c, f) = {x}
               /\ cache[c][f].refcnt = 1
        <3>1. PICK x : OpensOf(c, f) = {x} BY <2>2
        <3>2. Cardinality({x}) = 1 BY FS_Singleton
        <3> QED BY <2>2, <3>1, <3>2
    <2> QED BY <2>1, <2>2 DEF SInv, CountInv
<1> QED BY <1>1, <1>2, <1>3, PTL DEF Spec

-----------------------------------------------------------------------------
\* The refinement: a steady client does not notice its cache.

\* A file that a steady client has closed is not written, so that a valid entry of it is
\* what the server holds and can be used at the next open.
CleanInv ==
    \A c \in Steady, f \in Files : OpensOf(c, f) = {} => ~cache[c][f].dirty

\* The variables of the sessions.
OpenedNow == [c \in Steady |-> opened[c]]
SeenNow   == [c \in Steady |-> seen[c]]
CopyOf(c, f) == IF OpensOf(c, f) = {} THEN [data |-> NoValue, dirty |-> FALSE]
                ELSE [data |-> cache[c][f].data, dirty |-> cache[c][f].dirty]
CopyNow   == [c \in Steady |-> [f \in Files |-> CopyOf(c, f)]]

\* A steady client's descriptors of f are the same before and after a step.
SameOpens(c, f) == OpensOf(c, f)' = OpensOf(c, f)

\* A step that leaves a client's descriptors of a file alone, and the data of its entry
\* and whether it is written, leaves its copy alone, and the file as clean as it was.
LEMMA CopyStays ==
    ASSUME NEW c, NEW f, SameOpens(c, f),
           cache'[c][f].data = cache[c][f].data, cache'[c][f].dirty = cache[c][f].dirty
    PROVE  /\ CopyOf(c, f)' = CopyOf(c, f)
           /\ (OpensOf(c, f) = {} => ~cache[c][f].dirty)
                => (OpensOf(c, f)' = {} => ~cache'[c][f].dirty)
  BY DEF SameOpens, CopyOf

\* A function of two arguments of which one value has changed.
LEMMA OneValue ==
    ASSUME NEW S, NEW R, NEW T, NEW g \in [S -> [R -> T]], NEW h \in [S -> [R -> T]],
           NEW s0 \in S, NEW r0 \in R, NEW y \in T,
           \A s \in S, r \in R : h[s][r] = IF s = s0 /\ r = r0 THEN y ELSE g[s][r]
    PROVE  h = [g EXCEPT ![s0][r0] = y]
<1>1. PICK k : k = [g EXCEPT ![s0][r0] = y]
  OBVIOUS
<1>2. /\ k \in [S -> [R -> T]]
      /\ \A s \in S, r \in R : k[s][r] = IF s = s0 /\ r = r0 THEN y ELSE g[s][r]
  BY <1>1, UpdateType2
<1>3. \A s \in S : h[s] = k[s]
  BY <1>2
<1> QED BY <1>1, <1>2, <1>3

\* When only c's descriptors of f change, everybody else's stay.
LEMMA OpensOfOthers ==
    ASSUME TypeOK, TypeOK', NEW c \in Clients, NEW f \in Files, NEW x \in FDs \X Files, x[2] = f,
           \/ opened' = [opened EXCEPT ![c] = @ \cup {x}]
           \/ opened' = [opened EXCEPT ![c] = @ \ {x}]
    PROVE  \A d \in Clients, g \in Files : ~(d = c /\ g = f) => SameOpens(d, g)
<1> SUFFICES ASSUME NEW d \in Clients, NEW g \in Files, ~(d = c /\ g = f)
             PROVE  {y \in opened'[d] : y[2] = g} = {y \in opened[d] : y[2] = g}
  BY DEF SameOpens, OpensOf
<1>1. d # c => opened'[d] = opened[d]
  BY DEF TypeOK
<1>2. opened'[c] = opened[c] \cup {x} \/ opened'[c] = opened[c] \ {x}
  BY DEF TypeOK
<1> QED BY <1>1, <1>2

\* The copies are copies.
Copies == [data : Values \cup {NoValue}, dirty : BOOLEAN]

CopiesAre ==
    /\ CopyNow \in [Steady -> [Files -> Copies]]
    /\ \A c \in Steady, f \in Files : CopyNow[c][f] = CopyOf(c, f)

LEMMA CopyTypes == TypeOK => CopiesAre
<1> SUFFICES ASSUME TypeOK PROVE CopiesAre
  OBVIOUS
<1>1. ASSUME NEW c \in Steady, NEW f \in Files
      PROVE  CopyOf(c, f) \in Copies
  <2>1. cache[c][f] \in Entries
    BY DEF TypeOK, Steady
  <2> QED BY <2>1 DEF CopyOf, Copies, Entries
<1> QED BY <1>1 DEF CopyNow, CopiesAre

\* One descriptor and one copy change, of a steady client; or none of any.
LEMMA CopyChanges ==
    ASSUME TypeOK, TypeOK', NEW c \in Steady, NEW f \in Files, NEW y \in Copies,
           CopyOf(c, f)' = y,
           \A d \in Steady, g \in Files : ~(d = c /\ g = f) => CopyOf(d, g)' = CopyOf(d, g)
    PROVE  CopyNow' = [CopyNow EXCEPT ![c][f] = y]
<1>1. PICK g, h : g = CopyNow /\ h = CopyNow'
  OBVIOUS
<1>0. CopiesAre /\ CopiesAre'
  BY CopyTypes, PTL
<1>2. /\ g \in [Steady -> [Files -> Copies]] /\ h \in [Steady -> [Files -> Copies]]
      /\ \A d \in Steady, b \in Files : g[d][b] = CopyOf(d, b)
      /\ \A d \in Steady, b \in Files : h[d][b] = CopyOf(d, b)'
  BY <1>0, <1>1 DEF CopiesAre
<1>3. \A d \in Steady, b \in Files : h[d][b] = IF d = c /\ b = f THEN y ELSE g[d][b]
  BY <1>2
<1>4. h = [g EXCEPT ![c][f] = y]
  BY <1>2, <1>3, OneValue
<1> QED BY <1>1, <1>4

LEMMA CopiesStay ==
    ASSUME \A d \in Steady, g \in Files : CopyOf(d, g)' = CopyOf(d, g)
    PROVE  CopyNow' = CopyNow
  BY DEF CopyNow

\* Nobody's session changes.
Unseen == UNCHANGED <<contents, OpenedNow, CopyNow, SeenNow>>

\* An open of a steady client is an open of the session: what is found in the cache, if
\* it may be used, is not written, and so is what the server holds.
LEMMA OpenSession ==
    ASSUME SInv, CleanInv, TypeOK', NEW c \in Clients, NEW fd \in FDs, NEW f \in Files,
           Open(c, fd, f)
    PROVE  /\ CleanInv'
           /\ c \in Steady => Sessions!OpenFirst(c, fd, f)
           /\ c \notin Steady => Unseen
<1> DEFINE e == IF InCache(c, f) /\ cache[c][f].valid THEN cache[c][f]
                ELSE [data |-> contents[f], dirty |-> FALSE, refcnt |-> 0, valid |-> TRUE]
<1>t. TypeOK /\ Coherent /\ Steady \subseteq Clients
  BY DEF SInv, IInv, Steady
<1>1. /\ cache' = [cache EXCEPT ![c][f] = [e EXCEPT !.refcnt = @ + 1]]
      /\ opened' = [opened EXCEPT ![c] = @ \cup {<<fd, f>>}]
      /\ contents' = contents /\ seen' = seen
      /\ c \in Reopeners \/ OpensOf(c, f) = {}
  BY DEF Open, getfile
<1>2. e \in Entries
  BY <1>t DEF TypeOK, Entries
<1>3. c \in Steady => OpensOf(c, f) = {} /\ e.dirty = FALSE /\ e.data = contents[f]
  <2>1. c \in Steady => OpensOf(c, f) = {} /\ ~cache[c][f].dirty
    BY <1>1 DEF Steady, CleanInv
  <2>2. cache[c][f].dirty \in BOOLEAN
    BY <1>t DEF TypeOK, Entries
  <2> QED BY <2>1, <2>2, <1>t DEF Coherent
<1> HIDE DEF e
<1>4. PICK n : n = [e EXCEPT !.refcnt = @ + 1]
  OBVIOUS
<1>5. n \in Entries /\ n.data = e.data /\ n.dirty = e.dirty
  BY <1>2, <1>4 DEF Entries
<1>6. \A d \in Clients, g \in Files : cache'[d][g] = IF d = c /\ g = f THEN n ELSE cache[d][g]
  BY <1>t, <1>1, <1>4, <1>5, UpdateType2 DEF TypeOK
<1>7. \A d \in Clients, g \in Files : ~(d = c /\ g = f) => SameOpens(d, g)
  <2>1. PICK x : x = <<fd, f>>
    OBVIOUS
  <2>2. x \in FDs \X Files /\ x[2] = f /\ opened' = [opened EXCEPT ![c] = @ \cup {x}]
    BY <1>1, <2>1
  <2> QED BY <1>t, <2>2, OpensOfOthers
<1>8. ASSUME NEW d \in Steady, NEW g \in Files, ~(d = c /\ g = f)
      PROVE  /\ CopyOf(d, g)' = CopyOf(d, g)
             /\ OpensOf(d, g)' = {} => ~cache'[d][g].dirty
  <2>1. d \in Clients /\ cache'[d][g] = cache[d][g] /\ SameOpens(d, g)
    BY <1>t, <1>6, <1>7, <1>8
  <2>2. OpensOf(d, g) = {} => ~cache[d][g].dirty
    BY DEF CleanInv
  <2> QED BY <2>1, <2>2, CopyStays
<1>9. CASE c \in Steady
  <2>1. OpensOf(c, f)' # {}
    <3>1. <<fd, f>> \in opened'[c] /\ <<fd, f>>[2] = f
      BY <1>1, <1>t DEF TypeOK
    <3> QED BY <3>1 DEF OpensOf
  <2>2. CleanInv'
    BY <1>8, <2>1 DEF CleanInv
  <2>3. CopyOf(c, f)' = [data |-> contents[f], dirty |-> FALSE]
    BY <1>3, <1>5, <1>6, <1>9, <2>1 DEF CopyOf
  <2>4. [data |-> contents[f], dirty |-> FALSE] \in Copies
    BY <1>t DEF TypeOK, Copies
  <2>5. CopyNow' = [CopyNow EXCEPT ![c][f] = [data |-> contents[f], dirty |-> FALSE]]
    <3>1. PICK y : y = [data |-> contents[f], dirty |-> FALSE]
      OBVIOUS
    <3>2. y \in Copies /\ CopyOf(c, f)' = y
      BY <2>3, <2>4, <3>1
    <3>3. \A d \in Steady, g \in Files : ~(d = c /\ g = f) => CopyOf(d, g)' = CopyOf(d, g)
      BY <1>8
    <3>4. CopyNow' = [CopyNow EXCEPT ![c][f] = y]
      BY <1>9, <1>t, <3>2, <3>3, CopyChanges
    <3> QED BY <3>1, <3>4
  <2>6. OpenedNow' = [OpenedNow EXCEPT ![c] = @ \cup {<<fd, f>>}]
    BY <1>1, <1>9, <1>t DEF OpenedNow, TypeOK
  <2>7. SeenNow' = SeenNow
    BY <1>1 DEF SeenNow
  <2>8. {x \in OpenedNow[c] : x[2] = f} = {}
    BY <1>3, <1>9 DEF OpenedNow, OpensOf
  <2>9. Sessions!OpenFirst(c, fd, f)
    BY <1>1, <2>5, <2>6, <2>7, <2>8
       DEF Sessions!OpenFirst, Sessions!OpensOf, OpenedNow, CopyNow, SeenNow, CopyOf
  <2> QED BY <1>9, <2>2, <2>9
<1>10. CASE c \notin Steady
  <2>1. CleanInv'
    BY <1>8, <1>10 DEF CleanInv
  <2>2. CopyNow' = CopyNow
    BY <1>8, <1>10, CopiesStay
  <2>3. \A d \in Steady : opened'[d] = opened[d]
    BY <1>1, <1>10, <1>t DEF TypeOK
  <2> QED BY <1>1, <1>10, <2>1, <2>2, <2>3 DEF Unseen, OpenedNow, SeenNow
<1> QED BY <1>9, <1>10

\* A step that touches no cache and no descriptor touches no copy.
LEMMA NoCopyTouched ==
    ASSUME CleanInv, cache' = cache, opened' = opened
    PROVE  CleanInv' /\ CopyNow' = CopyNow /\ OpenedNow' = OpenedNow
<1>1. \A d \in Steady, g \in Files : SameOpens(d, g) /\ CopyOf(d, g)' = CopyOf(d, g)
  BY DEF SameOpens, OpensOf, CopyOf
<1>2. CleanInv'
  BY <1>1 DEF CleanInv, SameOpens
<1> QED BY <1>1, <1>2, CopiesStay DEF OpenedNow

\* A read of a steady client is a read of its copy.
LEMMA ReadSession ==
    ASSUME SInv, CleanInv, TypeOK', NEW c \in Clients, NEW x \in FDs \X Files, Read(c, x)
    PROVE  /\ CleanInv'
           /\ Unseen \/ (c \in Steady /\ Sessions!ReadCopy(c, x[2]))
<1>t. TypeOK /\ CountInv
  BY DEF SInv, IInv
<1>1. x \in opened[c] /\ cache' = cache /\ opened' = opened /\ contents' = contents
  BY DEF Read, AssertFails
<1>2. CleanInv' /\ CopyNow' = CopyNow /\ OpenedNow' = OpenedNow
  BY <1>1, NoCopyTouched
<1>3. CASE AssertFails(c, x[2])
  BY <1>1, <1>2, <1>3 DEF AssertFails, Unseen, SeenNow
<1>4. CASE ~AssertFails(c, x[2])
  <2>1. seen' = [seen EXCEPT ![c] = cache[c][x[2]].data]
    BY <1>4 DEF Read
  <2>2. CASE c \notin Steady
    <3>1. \A d \in Steady : seen'[d] = seen[d]
      BY <1>t, <2>1, <2>2 DEF TypeOK, Steady
    <3>2. SeenNow' = SeenNow
      BY <3>1 DEF SeenNow
    <3> QED BY <1>1, <1>2, <3>2 DEF Unseen
  <2>3. CASE c \in Steady
    <3>1. PICK f : f = x[2] /\ f \in Files
      OBVIOUS
    <3>2. OpensOf(c, f) # {}
      BY <1>1, <3>1 DEF OpensOf
    <3>3. CopyNow[c][f].data = cache[c][f].data
      <4>1. CopyNow[c][f] = CopyOf(c, f)
        BY <2>3, <3>1 DEF CopyNow
      <4> QED BY <3>2, <4>1 DEF CopyOf
    <3>4. SeenNow' = [SeenNow EXCEPT ![c] = CopyNow[c][f].data]
      BY <1>t, <2>1, <2>3, <3>1, <3>3 DEF SeenNow, TypeOK, Steady
    <3>5. {y \in OpenedNow[c] : y[2] = f} # {}
      BY <2>3, <3>2 DEF OpenedNow, OpensOf
    <3>6. Sessions!ReadCopy(c, f)
      BY <1>1, <1>2, <3>4, <3>5
         DEF Sessions!ReadCopy, Sessions!OpensOf, OpenedNow, CopyNow, SeenNow, CopyOf
    <3> QED BY <1>2, <2>3, <3>1, <3>6
  <2> QED BY <2>2, <2>3
<1> QED BY <1>3, <1>4

\* A write of a steady client is a write of its copy.
LEMMA WriteSession ==
    ASSUME SInv, CleanInv, TypeOK', NEW c \in Clients, NEW x \in FDs \X Files, Write(c, x)
    PROVE  /\ CleanInv'
           /\ Unseen \/ (c \in Steady /\ Sessions!WriteCopy(c, x[2]))
<1>t. TypeOK /\ CountInv /\ Steady \subseteq Clients
  BY DEF SInv, IInv, Steady
<1>0. PICK f : f = x[2] /\ f \in Files
  OBVIOUS
<1>1. x \in opened[c] /\ opened' = opened /\ contents' = contents /\ seen' = seen
  BY DEF Write, AssertFails
<1>2. OpenedNow' = OpenedNow /\ SeenNow' = SeenNow
  BY <1>1 DEF OpenedNow, SeenNow
<1>3. CASE AssertFails(c, f)
  <2>1. cache' = cache
    BY <1>3 DEF AssertFails
  <2> QED BY <1>1, <1>2, <2>1, NoCopyTouched DEF Unseen
<1>4. CASE ~AssertFails(c, f)
  <2>1. PICK n : n = [cache[c][f] EXCEPT !.data = value, !.dirty = TRUE]
    OBVIOUS
  <2>2. cache[c][f] \in Entries
    BY <1>t, <1>0 DEF TypeOK
  <2>3. value \in Values
    BY <1>t, AFSAssumption DEF Write, Values, TypeOK
  <2>4. n \in Entries /\ n.data = value /\ n.dirty = TRUE
    BY <2>1, <2>2, <2>3 DEF Entries
  <2>5. cache' = [cache EXCEPT ![c][f] = n]
    BY <1>0, <1>4, <1>t, <2>1 DEF Write, TypeOK
  <2>6. \A d \in Clients, g \in Files : cache'[d][g] = IF d = c /\ g = f THEN n ELSE cache[d][g]
    BY <1>0, <1>t, <2>4, <2>5, UpdateType2 DEF TypeOK
  <2>7. \A d, g : SameOpens(d, g)
    BY <1>1 DEF SameOpens, OpensOf
  <2>8. OpensOf(c, f) # {} /\ OpensOf(c, f)' # {}
    BY <1>0, <1>1 DEF OpensOf
  <2>9. \A d \in Steady, g \in Files : ~(d = c /\ g = f) => CopyOf(d, g)' = CopyOf(d, g)
    BY <1>t, <2>6, <2>7, CopyStays
  <2>10. CleanInv'
    <3> SUFFICES ASSUME NEW d \in Steady, NEW g \in Files
                 PROVE  OpensOf(d, g)' = {} => ~cache'[d][g].dirty
      BY DEF CleanInv
    <3>1. CASE d = c /\ g = f
      BY <2>8, <3>1
    <3>2. CASE ~(d = c /\ g = f)
      <4>1. cache'[d][g] = cache[d][g] /\ SameOpens(d, g)
        BY <1>t, <2>6, <2>7, <3>2
      <4> QED BY <4>1 DEF SameOpens, CleanInv
    <3> QED BY <3>1, <3>2
  <2>11. CASE c \notin Steady
    BY <1>1, <1>2, <2>9, <2>10, <2>11, CopiesStay DEF Unseen
  <2>12. CASE c \in Steady
    <3>1. PICK y : y = [data |-> value, dirty |-> TRUE]
      OBVIOUS
    <3>2. y \in Copies
      BY <2>3, <3>1 DEF Copies
    <3>3. CopyOf(c, f)' = y
      BY <1>0, <2>4, <2>6, <2>8, <3>1 DEF CopyOf
    <3>4. CopyNow' = [CopyNow EXCEPT ![c][f] = y]
      BY <1>0, <1>t, <2>9, <2>12, <3>2, <3>3, CopyChanges
    <3>5. {z \in OpenedNow[c] : z[2] = f} # {}
      BY <2>8, <2>12 DEF OpenedNow, OpensOf
    <3>6. \E v \in Values : CopyNow' = [CopyNow EXCEPT ![c][f] = [data |-> v, dirty |-> TRUE]]
      BY <2>3, <3>1, <3>4
    <3>7. Sessions!WriteCopy(c, f)
      BY <1>1, <1>2, <3>5, <3>6
         DEF Sessions!WriteCopy, Sessions!OpensOf, OpenedNow, CopyNow, SeenNow, CopyOf
    <3> QED BY <1>0, <2>10, <2>12, <3>7
  <2> QED BY <2>11, <2>12
<1> QED BY <1>0, <1>3, <1>4

\* What a close does to the caches: the entry that is closed is not written any more, and
\* what the others hold, and whether they have written it, stays as it was.
LEMMA CloseCaches ==
    ASSUME TypeOK, NEW c \in Clients, NEW x \in FDs \X Files, Close(c, x),
           ~AssertFails(c, x[2])
    PROVE  /\ ~cache'[c][x[2]].dirty
           /\ \A d \in Clients, g \in Files : ~(d = c /\ g = x[2]) =>
                /\ cache'[d][g].data = cache[d][g].data
                /\ cache'[d][g].dirty = cache[d][g].dirty
<1>1. PICK f : f = x[2] /\ f \in Files
  OBVIOUS
<1>2. cache[c][f] \in Entries
  BY <1>1 DEF TypeOK
<1>3. ASSUME NEW e \in Entries, ~e.dirty
      PROVE  dropped(e) \in Entries /\ ~dropped(e).dirty
  BY <1>3 DEF dropped, Absent, Entries
<1>4. CASE ~cache[c][f].dirty
  <2>1. PICK n : n = dropped(cache[c][f])
    OBVIOUS
  <2>2. n \in Entries /\ ~n.dirty
    BY <1>2, <1>3, <1>4, <2>1
  <2>3. cache' = [cache EXCEPT ![c][f] = n]
    BY <1>1, <1>4, <2>1 DEF Close, TypeOK
  <2>4. \A d \in Clients, g \in Files : cache'[d][g] = IF d = c /\ g = f THEN n ELSE cache[d][g]
    BY <1>1, <2>2, <2>3, UpdateType2 DEF TypeOK
  <2> QED BY <1>1, <2>2, <2>4
<1>5. CASE cache[c][f].dirty
  <2>1. PICK e : e = [cache[c][f] EXCEPT !.dirty = FALSE, !.valid = TRUE]
    OBVIOUS
  <2>2. e \in Entries /\ ~e.dirty
    BY <1>2, <2>1 DEF Entries
  <2>3. PICK h : h = invalidated(c, f)
    OBVIOUS
  <2>4. cache' = [h EXCEPT ![c][f] = dropped(e)]
    BY <1>1, <1>5, <2>1, <2>3 DEF Close, putfile
  <2>5. h \in [Clients -> [Files -> Entries]]
    BY <1>1, <2>3, InvalidatedCounts
  <2>6. \A d \in Clients, g \in Files :
           cache'[d][g] = IF d = c /\ g = f THEN dropped(e) ELSE h[d][g]
    BY <1>1, <1>3, <2>2, <2>4, <2>5, UpdateType2
  <2>7. ASSUME NEW d \in Clients, NEW g \in Files
        PROVE  h[d][g].data = cache[d][g].data /\ h[d][g].dirty = cache[d][g].dirty
    <3>1. cache[d] \in [Files -> Entries] /\ cache[d][g] \in Entries
      BY DEF TypeOK
    <3>2. h[d] = cache[d] \/ h[d] = [cache[d] EXCEPT ![f].valid = FALSE]
      BY <2>3 DEF invalidated
    <3>3. h[d][g] = cache[d][g] \/ h[d][g] = [cache[d][g] EXCEPT !.valid = FALSE]
      BY <1>1, <3>1, <3>2
    <3> QED BY <3>1, <3>3, EntryFields
  <2> QED BY <1>1, <1>3, <2>2, <2>6, <2>7
<1> QED BY <1>4, <1>5

\* A close of a steady client is the close of its session; a close of another may store a
\* value nobody expects, whatever it does to its own entry.
LEMMA CloseSession ==
    ASSUME SInv, CleanInv, TypeOK', NEW c \in Clients, NEW x \in FDs \X Files, Close(c, x)
    PROVE  /\ CleanInv'
           /\ Unseen \/ Sessions!StoreByOthers \/ (c \in Steady /\ Sessions!CloseCopy(c, x))
<1>t. TypeOK /\ CountInv /\ EntryInv /\ Steady \subseteq Clients
  BY DEF SInv, IInv, Steady
<1>0. PICK f : f = x[2] /\ f \in Files
  OBVIOUS
<1>1. CASE AssertFails(c, f)
  <2>1. UNCHANGED <<cache, opened, contents, seen>>
    BY <1>1 DEF AssertFails
  <2> QED BY <2>1, NoCopyTouched DEF Unseen, SeenNow
<1>2. CASE ~AssertFails(c, f)
  <2>1. /\ x \in opened[c] /\ opened' = [opened EXCEPT ![c] = @ \ {x}]
        /\ seen' = seen /\ InCache(c, f)
        /\ contents' = IF cache[c][f].dirty THEN [contents EXCEPT ![f] = cache[c][f].data]
                       ELSE contents
    BY <1>0, <1>2 DEF Close, putfile
  <2>2. ~cache'[c][f].dirty
    BY <1>0, <1>2, <1>t, CloseCaches
  <2>3. \A d \in Clients, g \in Files : ~(d = c /\ g = f) =>
           cache'[d][g].data = cache[d][g].data /\ cache'[d][g].dirty = cache[d][g].dirty
    BY <1>0, <1>2, <1>t, CloseCaches
  <2>4. \A d \in Clients, g \in Files : ~(d = c /\ g = f) => SameOpens(d, g)
    BY <1>0, <1>t, <2>1, OpensOfOthers
  <2>5. ASSUME NEW d \in Steady, NEW g \in Files, ~(d = c /\ g = f)
        PROVE  CopyOf(d, g)' = CopyOf(d, g) /\ (OpensOf(d, g)' = {} => ~cache'[d][g].dirty)
    <3>1. /\ cache'[d][g].data = cache[d][g].data /\ cache'[d][g].dirty = cache[d][g].dirty
          /\ SameOpens(d, g)
      BY <1>t, <2>3, <2>4, <2>5
    <3>2. OpensOf(d, g) = {} => ~cache[d][g].dirty
      BY DEF CleanInv
    <3> QED BY <3>1, <3>2, CopyStays
  <2>6. CleanInv'
    BY <2>2, <2>5 DEF CleanInv
  <2>7. SeenNow' = SeenNow
    BY <2>1 DEF SeenNow
  <2>8. CASE c \notin Steady
    <3>1. CopyNow' = CopyNow
      BY <2>5, <2>8, CopiesStay
    <3>2. \A d \in Steady : opened'[d] = opened[d]
      BY <1>t, <2>1, <2>8 DEF TypeOK
    <3>3. OpenedNow' = OpenedNow
      BY <3>2 DEF OpenedNow
    <3>4. CASE ~cache[c][f].dirty
      BY <2>1, <2>6, <2>7, <3>1, <3>3, <3>4 DEF Unseen
    <3>5. CASE cache[c][f].dirty
      <4>1. cache[c][f].data \in Values /\ Reopeners # {}
        BY <1>0, <1>t, <2>1, <2>8 DEF EntryInv, InCache, Steady
      <4>2. \E g \in Files, v \in Values : contents' = [contents EXCEPT ![g] = v]
        BY <1>0, <2>1, <3>5, <4>1
      <4>3. Sessions!StoreByOthers
        BY <2>7, <3>1, <3>3, <4>1, <4>2
           DEF Sessions!StoreByOthers, OpenedNow, CopyNow, SeenNow, CopyOf
      <4> QED BY <2>6, <4>3
    <3> QED BY <3>4, <3>5
  <2>9. CASE c \in Steady
    <3>1. OpensOf(c, f) = {x}
      BY <1>0, <1>t, <2>1, <2>9, OpenIsCached
    <3>2. OpensOf(c, f)' = {}
      <4>1. opened'[c] = opened[c] \ {x}
        BY <1>t, <2>1 DEF TypeOK
      <4> QED BY <3>1, <4>1 DEF OpensOf
    <3>3. PICK y : y = [data |-> NoValue, dirty |-> FALSE]
      OBVIOUS
    <3>4. CopyOf(c, f)' = y /\ y \in Copies
      BY <3>2, <3>3 DEF CopyOf, Copies
    <3>5. CopyNow' = [CopyNow EXCEPT ![c][f] = y]
      <4>1. \A d \in Steady, g \in Files : ~(d = c /\ g = f) => CopyOf(d, g)' = CopyOf(d, g)
        BY <2>5
      <4> QED BY <1>0, <1>t, <2>9, <3>4, <4>1, CopyChanges
    <3>6. CopyNow[c][f].data = cache[c][f].data /\ CopyNow[c][f].dirty = cache[c][f].dirty
      <4>1. CopyNow[c][f] = CopyOf(c, f)
        BY <1>0, <2>9 DEF CopyNow
      <4>2. CopyOf(c, f) = [data |-> cache[c][f].data, dirty |-> cache[c][f].dirty]
        BY <3>1 DEF CopyOf
      <4>3. PICK e : e = CopyNow[c][f]
        OBVIOUS
      <4>4. e = [data |-> cache[c][f].data, dirty |-> cache[c][f].dirty]
        BY <4>1, <4>2, <4>3
      <4>5. PICK v, w : v = cache[c][f].data /\ w = cache[c][f].dirty
        OBVIOUS
      <4>6. e = [data |-> v, dirty |-> w]
        BY <4>4, <4>5
      <4>7. e.data = v /\ e.dirty = w
        BY <4>6
      <4> QED BY <4>3, <4>5, <4>7
    <3>7. OpenedNow' = [OpenedNow EXCEPT ![c] = @ \ {x}] /\ x \in OpenedNow[c]
      BY <1>t, <2>1, <2>9 DEF OpenedNow, TypeOK
    <3>8. {z \in OpenedNow[c] : z[2] = f} = {x}
      BY <2>9, <3>1 DEF OpenedNow, OpensOf
    <3>9. contents' = IF CopyNow[c][f].dirty
                      THEN [contents EXCEPT ![f] = CopyNow[c][f].data] ELSE contents
      BY <2>1, <3>6
    <3>10. Sessions!CloseCopy(c, x)
      BY <1>0, <2>7, <3>3, <3>5, <3>7, <3>8, <3>9
         DEF Sessions!CloseCopy, Sessions!OpensOf, Sessions!NoCopy, OpenedNow, CopyNow, SeenNow, CopyOf
    <3> QED BY <2>6, <2>9, <3>10
  <2> QED BY <2>8, <2>9
<1> QED BY <1>0, <1>1, <1>2

\* The initial state and the steps of the caches are those of the sessions.
LEMMA SessionStart == Init => CleanInv /\ Sessions!SessionInit
<1> SUFFICES ASSUME Init PROVE CleanInv /\ Sessions!SessionInit
  OBVIOUS
<1>0. Steady \subseteq Clients
  BY DEF Steady
<1>1. \A c \in Clients, f \in Files : OpensOf(c, f) = {} /\ ~cache[c][f].dirty
  BY DEF Init, OpensOf, Absent
<1>2. OpenedNow = [c \in Steady |-> {}] /\ SeenNow = [c \in Steady |-> NoValue]
  BY <1>0 DEF OpenedNow, SeenNow, Init
<1>3. CopyNow = [c \in Steady |-> [f \in Files |-> [data |-> NoValue, dirty |-> FALSE]]]
  BY <1>0, <1>1 DEF CopyNow, CopyOf
<1>4. contents = FileValue
  BY DEF Init
<1>5. CleanInv
  BY <1>0, <1>1 DEF CleanInv
<1> QED BY <1>2, <1>3, <1>4, <1>5
        DEF Sessions!SessionInit, Sessions!NoCopy, OpenedNow, CopyNow, SeenNow, CopyOf

LEMMA SessionStep ==
    SInv /\ CleanInv /\ [Next]_vars => CleanInv' /\ [Sessions!SessionNext]_(Sessions!sessionVars)
<1> SUFFICES ASSUME SInv, CleanInv, [Next]_vars
             PROVE  CleanInv' /\ [Sessions!SessionNext]_(Sessions!sessionVars)
  OBVIOUS
<1>t. TypeOK'
  BY NextInv DEF SInv, IInv
<1>0. Steady \subseteq Clients
  BY DEF Steady
<1>1. Unseen => UNCHANGED Sessions!sessionVars
  BY DEF Unseen, Sessions!sessionVars, OpenedNow, CopyNow, SeenNow, CopyOf
<1>2. ASSUME NEW c \in Clients, NEW fd \in FDs, NEW f \in Files, Open(c, fd, f)
      PROVE  CleanInv' /\ [Sessions!SessionNext]_(Sessions!sessionVars)
  <2>1. CleanInv' /\ (c \in Steady => Sessions!OpenFirst(c, fd, f)) /\ (c \notin Steady => Unseen)
    BY <1>t, <1>2, OpenSession
  <2> QED BY <1>1, <2>1 DEF Sessions!SessionNext
<1>3. ASSUME NEW c \in Clients, NEW x \in FDs \X Files, Read(c, x)
      PROVE  CleanInv' /\ [Sessions!SessionNext]_(Sessions!sessionVars)
  <2>1. CleanInv' /\ (Unseen \/ (c \in Steady /\ Sessions!ReadCopy(c, x[2])))
    BY <1>t, <1>3, ReadSession
  <2>2. x[2] \in Files
    OBVIOUS
  <2> QED BY <1>1, <2>1, <2>2 DEF Sessions!SessionNext
<1>4. ASSUME NEW c \in Clients, NEW x \in FDs \X Files, Write(c, x)
      PROVE  CleanInv' /\ [Sessions!SessionNext]_(Sessions!sessionVars)
  <2>1. CleanInv' /\ (Unseen \/ (c \in Steady /\ Sessions!WriteCopy(c, x[2])))
    BY <1>t, <1>4, WriteSession
  <2>2. x[2] \in Files
    OBVIOUS
  <2> QED BY <1>1, <2>1, <2>2 DEF Sessions!SessionNext
<1>5. ASSUME NEW c \in Clients, NEW x \in FDs \X Files, Close(c, x)
      PROVE  CleanInv' /\ [Sessions!SessionNext]_(Sessions!sessionVars)
  <2>1. CleanInv' /\ (Unseen \/ Sessions!StoreByOthers
                      \/ (c \in Steady /\ Sessions!CloseCopy(c, x)))
    BY <1>t, <1>5, CloseSession
  <2> QED BY <1>1, <2>1 DEF Sessions!SessionNext
<1>6. ASSUME UNCHANGED <<cache, opened, contents, seen>>
      PROVE  CleanInv' /\ [Sessions!SessionNext]_(Sessions!sessionVars)
  <2>1. CleanInv' /\ Unseen
    BY <1>6, NoCopyTouched DEF Unseen, SeenNow
  <2> QED BY <1>1, <2>1
<1>7. ASSUME NEW c \in Clients, Finish(c)
      PROVE  CleanInv' /\ [Sessions!SessionNext]_(Sessions!sessionVars)
  BY <1>6, <1>7 DEF Finish
<1>8. CASE UNCHANGED vars
  BY <1>6, <1>8 DEF vars
<1> QED BY <1>2, <1>3, <1>4, <1>5, <1>7, <1>8 DEF Next, Step, Stopped

\* A client that keeps to one open of a file at a time does not notice the caches: it reads,
\* writes and stores what it would if every open fetched the file, whatever callbacks come
\* and whatever the other clients do.
THEOREM AFSSessionsKept == Spec => ImplementsSessions
<1>1. Init => SInv /\ CleanInv /\ Sessions!SessionInit
  BY InitInv, CountInit, SessionStart DEF SInv
<1>2. SInv /\ CleanInv /\ [Next]_vars => SInv' /\ CleanInv'
  BY NextInv, CountStep, SessionStep DEF SInv
<1> QED BY <1>1, <1>2, SessionStep, PTL DEF Spec, ImplementsSessions, Sessions!SessionSpec

=============================================================================
