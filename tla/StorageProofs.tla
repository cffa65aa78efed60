---------------------------- MODULE StorageProofs ----------------------------
(***************************************************************************)
(* Two simulators of the storage chapters.                                 *)
(*                                                                         *)
(* The animation of raid-graphics.py, for any requests, window, speed and  *)
(* kind of array: no disk of a small write to an array with parity writes  *)
(* before all its reads are done, and the count of I/Os at which the       *)
(* program stops is reached only when all requests are served.  The        *)
(* invariant is about the state as one record: the stati a request can     *)
(* have, that an arm at work has a request in a status that says so, and   *)
(* that the I/Os ended and those under way are as many as the stati say    *)
(* were begun.  Most of every step is a loop; the first lemmas say what a  *)
(* loop keeps.                                                             *)
(*                                                                         *)
(* The log of lfs.py, for any sizes, names, paths and number of commands:  *)
(* unless it is kept in memory, the checkpoint leads to what the program   *)
(* has in memory.  The invariant is about the whole disk: what the blocks  *)
(* of a directory name are inodes whose piece of the map has been written, *)
(* the map and the checkpoint point into the log, and of every inode the   *)
(* disk and the memory have copies that differ in its names at most.       *)
(***************************************************************************)
EXTENDS RaidGraphics, LFS, FiniteSetTheorems, WellFoundedInduction, TLAPS

-----------------------------------------------------------------------------
\* Loops.  A fold is a recursive function that the standard operators choose: there is
\* one, and what every step keeps holds of its result.

\* A set of natural numbers that is not empty has a least one.
LEMMA LeastExists ==
    ASSUME NEW S \in SUBSET Nat, S # {}
    PROVE  \E m \in S : \A y \in S : m <= y
<1>1. PICK m \in S : \A y \in S : ~(<<y, m>> \in OpToRel(<, Nat))
  BY NatLessThanWellFounded, WFMin
<1>2. \A y \in S : y \in Nat /\ ~(y < m)
  BY <1>1 DEF OpToRel
<1>3. m \in Nat /\ \A y \in S : m <= y
  BY <1>2
<1> QED BY <1>3

\* The last of some places in a list.
LEMMA LastPlace ==
    ASSUME NEW n \in Nat, NEW s \in SUBSET (1 .. n), s # {}
    PROVE  Max(s) \in s /\ \A y \in s : y <= Max(s)
<1>1. PICK S : S = {k \in 0 .. n : n - k \in s}
  OBVIOUS
<1>2. S \in SUBSET Nat /\ S # {}
  <2>1. PICK y \in s : TRUE
    OBVIOUS
  <2>2. n - y \in 0 .. n /\ n - (n - y) = y
    OBVIOUS
  <2> QED BY <1>1, <2>1, <2>2
<1>3. PICK k \in S : \A l \in S : k <= l
  BY <1>2, LeastExists
<1>4. n - k \in s /\ k \in 0 .. n
  BY <1>1, <1>3
<1>5. ASSUME NEW y \in s
      PROVE  n - k >= y
  <2>1. n - y \in 0 .. n /\ n - (n - y) = y
    OBVIOUS
  <2>2. n - y \in S
    BY <1>1, <2>1
  <2> QED BY <1>3, <1>4, <2>1, <2>2
<1>6. \E x \in s : \A y \in s : x >= y
  BY <1>4, <1>5
<1>7. Max(s) \in s /\ \A y \in s : Max(s) >= y
  BY <1>6 DEF Max
<1> QED BY <1>7

\* The first places, the last of them taken away.
LEMMA FirstPlaces ==
    ASSUME NEW n \in Nat, NEW k \in 1 .. n
    PROVE  /\ 1 .. k \in SUBSET (1 .. n) /\ 1 .. k # {} /\ Max(1 .. k) = k
           /\ (1 .. k) \ {Max(1 .. k)} = 1 .. k - 1 /\ 1 .. k - 1 \in SUBSET (1 .. n)
<1>1. 1 .. k \in SUBSET (1 .. n) /\ k \in 1 .. k /\ k \in Nat
  OBVIOUS
<1>2. Max(1 .. k) \in 1 .. k /\ k <= Max(1 .. k)
  BY <1>1, LastPlace
<1>3. Max(1 .. k) = k
  BY <1>2
<1> QED BY <1>1, <1>3

-----------------------------------------------------------------------------
\* A list of steps is taken by a function on the sets of places in it: what comes of
\* the steps at these places, the last of them taken last.
Takes(g, n, base, p, step) ==
    \A s \in SUBSET (1 .. n) :
        g[s] = IF s = {} THEN base ELSE step[<<g[s \ {Max(s)}], p[Max(s)]>>]

\* There is such a function for one place more whenever there is one for fewer.
LEMMA OneStepMore ==
    ASSUME NEW S, NEW T, NEW base \in S, NEW step \in [S \X T -> S], NEW n \in Nat, NEW p,
           \A k \in 1 .. n + 1 : p[k] \in T,
           NEW g \in [SUBSET (1 .. n) -> S], Takes(g, n, base, p, step)
    PROVE  \E h \in [SUBSET (1 .. n + 1) -> S] : Takes(h, n + 1, base, p, step)
<1>1. PICK h : h = [s \in SUBSET (1 .. n + 1) |->
                       IF n + 1 \in s THEN step[<<g[s \ {n + 1}], p[n + 1]>>] ELSE g[s]]
  OBVIOUS
<1>2. /\ n + 1 \in Nat /\ n + 1 \in 1 .. n + 1
      /\ \A s \in SUBSET (1 .. n + 1) : s \ {n + 1} \in SUBSET (1 .. n)
      /\ \A s \in SUBSET (1 .. n + 1) : n + 1 \notin s => s \in SUBSET (1 .. n)
  OBVIOUS
<1>3. h \in [SUBSET (1 .. n + 1) -> S]
  <2> SUFFICES ASSUME NEW s \in SUBSET (1 .. n + 1)
               PROVE  (IF n + 1 \in s THEN step[<<g[s \ {n + 1}], p[n + 1]>>] ELSE g[s]) \in S
    BY <1>1
  <2>1. CASE n + 1 \in s
    <3>1. <<g[s \ {n + 1}], p[n + 1]>> \in S \X T
      BY <1>2
    <3> QED BY <2>1, <3>1
  <2>2. CASE n + 1 \notin s
    BY <1>2, <2>2
  <2> QED BY <2>1, <2>2
<1>4. ASSUME NEW s \in SUBSET (1 .. n + 1)
      PROVE  h[s] = IF s = {} THEN base ELSE step[<<h[s \ {Max(s)}], p[Max(s)]>>]
  <2>1. CASE s = {}
    BY <1>1, <2>1 DEF Takes
  <2>2. CASE n + 1 \in s
    <3>1. Max(s) \in s /\ \A y \in s : y <= Max(s)
      BY <1>2, <2>2, LastPlace
    <3>2. Max(s) = n + 1
      <4>1. Max(s) \in 1 .. n + 1 /\ n + 1 <= Max(s)
        BY <2>2, <3>1
      <4> QED BY <4>1
    <3>3. s \ {n + 1} \in SUBSET (1 .. n + 1) /\ n + 1 \notin s \ {n + 1}
      OBVIOUS
    <3>4. h[s \ {n + 1}] = g[s \ {n + 1}]
      BY <1>1, <3>3
    <3> QED BY <1>1, <2>2, <3>2, <3>4
  <2>3. CASE s # {} /\ n + 1 \notin s
    <3>1. s \in SUBSET (1 .. n)
      BY <2>3
    <3>2. g[s] = step[<<g[s \ {Max(s)}], p[Max(s)]>>]
      BY <2>3, <3>1 DEF Takes
    <3>3. h[s \ {Max(s)}] = g[s \ {Max(s)}]
      BY <1>1, <2>3
    <3> QED BY <1>1, <2>3, <3>2, <3>3
  <2> QED BY <2>1, <2>2, <2>3
<1> QED BY <1>3, <1>4 DEF Takes

\* There is one for any number of places.
LEMMA StepsExist ==
    ASSUME NEW S, NEW T, NEW base \in S, NEW step \in [S \X T -> S], NEW n \in Nat, NEW p,
           \A k \in 1 .. n : p[k] \in T
    PROVE  \E g \in [SUBSET (1 .. n) -> S] : Takes(g, n, base, p, step)
<1>1. PICK N : N = {k \in 0 .. n : ~\E g \in [SUBSET (1 .. k) -> S] : Takes(g, k, base, p, step)}
  OBVIOUS
<1>2. N = {}
  <2> SUFFICES ASSUME N # {}
               PROVE  FALSE
    OBVIOUS
  <2>1. PICK k \in N : \A l \in N : k <= l
    <3>1. N \in SUBSET Nat
      BY <1>1
    <3> QED BY <3>1, LeastExists
  <2>2. CASE k = 0
    <3>1. PICK g : g = [s \in SUBSET (1 .. 0) |-> base]
      OBVIOUS
    <3>2. \A s \in SUBSET (1 .. 0) : s = {}
      OBVIOUS
    <3>3. g \in [SUBSET (1 .. 0) -> S] /\ Takes(g, 0, base, p, step)
      BY <3>1, <3>2 DEF Takes
    <3> QED BY <1>1, <2>1, <2>2, <3>3
  <2>3. CASE k # 0
    <3>1. PICK m : m = k - 1
      OBVIOUS
    <3>2. m \in 0 .. n /\ m \in Nat /\ k = m + 1 /\ ~(k <= m) /\ \A l \in 1 .. m + 1 : l \in 1 .. n
      BY <1>1, <2>1, <2>3, <3>1
    <3>3. PICK g \in [SUBSET (1 .. m) -> S] : Takes(g, m, base, p, step)
      BY <1>1, <2>1, <3>2
    <3>4. \E h \in [SUBSET (1 .. m + 1) -> S] : Takes(h, m + 1, base, p, step)
      <4>1. \A l \in 1 .. m + 1 : p[l] \in T
        BY <3>2
      <4>2. m \in Nat
        BY <3>2
      <4>3. PICK T1, S1, f : T1 = T /\ S1 = S /\ f = step
        OBVIOUS
      <4>4. f \in [S1 \X T1 -> S1] /\ base \in S1 /\ g \in [SUBSET (1 .. m) -> S1]
            /\ Takes(g, m, base, p, f) /\ \A l \in 1 .. m + 1 : p[l] \in T1
        BY <3>3, <4>1, <4>3
      <4>5. \E h \in [SUBSET (1 .. m + 1) -> S1] : Takes(h, m + 1, base, p, f)
        BY <4>2, <4>4, OneStepMore
      <4> QED BY <4>3, <4>5
    <3> QED BY <1>1, <2>1, <3>2, <3>4
  <2> QED BY <2>2, <2>3
<1>3. n \in 0 .. n
  OBVIOUS
<1> QED BY <1>1, <1>2, <1>3

\* What every step keeps holds in the end.
LEMMA StepsStay ==
    ASSUME NEW S, NEW n \in Nat, NEW g, g[{}] \in S,
           \A k \in 1 .. n : g[1 .. k - 1] \in S => g[1 .. k] \in S
    PROVE  g[1 .. n] \in S
<1>1. PICK N : N = {k \in 0 .. n : g[1 .. k] \notin S}
  OBVIOUS
<1>2. N = {}
  <2> SUFFICES ASSUME N # {}
               PROVE  FALSE
    OBVIOUS
  <2>1. PICK k \in N : \A l \in N : k <= l
    <3>1. N \in SUBSET Nat
      BY <1>1
    <3> QED BY <3>1, LeastExists
  <2>2. k # 0
    <3>1. 1 .. 0 = {}
      OBVIOUS
    <3> QED BY <1>1, <2>1, <3>1
  <2>3. k \in 1 .. n /\ k - 1 \in 0 .. n /\ ~(k <= k - 1)
    BY <1>1, <2>1, <2>2
  <2>4. g[1 .. k - 1] \in S
    BY <1>1, <2>1, <2>3
  <2> QED BY <1>1, <2>1, <2>3, <2>4
<1>3. n \in 0 .. n
  OBVIOUS
<1> QED BY <1>1, <1>2, <1>3

-----------------------------------------------------------------------------
Stati == {"not started", "read", "read done", "write begin", "write", "done"}
Arm == [state : {"null", "seek", "xfer"}, y : Int, delta : Int, request : Requests \cup {0},
        last : Requests \cup {0}, transfer_count : Int]
States ==
    [window : Nat \cup {-1}, status : [Requests -> [1 .. 1 -> Stati] \cup [1 .. 2 -> Stati]],
     arms : [Disks -> Arm], request_count : Int, do_animate : BOOLEAN, is_done : BOOLEAN]

\* A write to an array with parity that reads first.
Phased(i) == IsWrite(i) /\ job.mapping \in {4, 5} /\ ~ FullStripe(i)
\* A request that goes to either of its disks only.
OneOf(i) == (~ IsWrite(i) /\ job.mapping = 1) \/ (IsWrite(i) /\ FullStripe(i) /\ ~ WithParity(i))

Reads  == {"not started", "read", "read done"}
Writes == {"write begin", "write", "done"}

InPhase(s) == (\A k \in 1 .. 2 : s[k] \in Reads) \/ (\A k \in 1 .. 2 : s[k] \in Writes)
Fresh(s) == \A k, l \in DOMAIN s : s[k] = "not started" => s[l] = "not started"

\* The stati a request can have, by what it does.
Fits(i, s) ==
    /\ Phased(i) => InPhase(s)
    /\ OneOf(i) => Fresh(s)
    /\ IsWrite(i) /\ ~ Phased(i) => \A k \in DOMAIN s : s[k] \in {"not started", "write", "done"}
    /\ ~ IsWrite(i) =>
          /\ \A k \in DOMAIN s : s[k] \in {"not started", "read", "done"}
          /\ job.mapping # 1 => \A k \in DOMAIN s : k # 1 => s[k] = "not started"

\* The I/Os that a request has begun, and those it takes.
BegunOn(i, x) ==
    IF x = "not started" THEN 0 ELSE IF Phased(i) /\ x \in {"write", "done"} THEN 2 ELSE 1
Begun(i, s) ==
    IF OneOf(i) \/ job.mapping = 0 THEN IF s[1] = "not started" THEN 0 ELSE 1
    ELSE BegunOn(i, s[1]) + BegunOn(i, s[2])
Whole(i) ==
    IF ~ IsWrite(i) \/ job.mapping = 0 \/ OneOf(i) THEN 1 ELSE IF Phased(i) THEN 4 ELSE 2

\* How many arms work.
Load(arm) == IF arm.state = "null" THEN 0 ELSE 1
Busy(a) == Load(a[0]) + Load(a[1]) + Load(a[2]) + Load(a[3])

\* T[k] is the sum of the first k terms f[1], ..., f[k].
IsSum(T, f, n) == T \in [0 .. n -> Int] /\ T[0] = 0 /\ \A k \in 1 .. n : T[k] = T[k - 1] + f[k]

AllBegun(w) == [i \in Requests |-> Begun(i, w[i])]

\* The I/Os that have ended and those under way are the I/Os begun.
Counted(st) ==
    \E T : /\ IsSum(T, AllBegun(st.status), Len(job.queue))
           /\ st.request_count + Busy(st.arms) = T[Len(job.queue)]

\* An arm that works has a request, and works for it.
AtWork(st, d) ==
    st.arms[d].state # "null" =>
        /\ st.arms[d].request \in Requests
        /\ \E k \in DOMAIN DisksOf(st.arms[d].request) :
              /\ DisksOf(st.arms[d].request)[k] = d
              /\ st.status[st.arms[d].request][k] \in {"read", "write"}

\* A write with a status that says so is worked for.  (A read of an array with parity
\* keeps the status when it is done.)
WorkedFor(st, i) ==
    IsWrite(i) => \A k \in DOMAIN DisksOf(i) : st.status[i][k] \in {"read", "write"} =>
        st.arms[DisksOf(i)[k]].state # "null" /\ st.arms[DisksOf(i)[k]].request = i

\* A stripe that is full is written.
StripesWritten == \A i \in Requests : FullStripe(i) => IsWrite(i)
DoneWhenCounted(st) == StripesWritten /\ st.is_done => st.request_count = request_count_needed

\* What holds after every step of a callback.
Right == {st \in States :
            /\ \A i \in Requests : DOMAIN st.status[i] = DOMAIN DisksOf(i)
            /\ \A i \in Requests : Fits(i, st.status[i])
            /\ \A d \in Disks : AtWork(st, d)
            /\ \A i \in Requests : WorkedFor(st, i)
            /\ Counted(st)
            /\ DoneWhenCounted(st)}

JobOK ==
    /\ job.mapping \in {0, 1, 4, 5} /\ job.seek_speed \in Int /\ job.window \in Nat \cup {-1}
    /\ job.queue \in Seq([op : {"read", "write"}, logical : Nat])

-----------------------------------------------------------------------------
\* Sums.  One term changes, and the sum changes by as much.
OnlyAt(i, f, g, n) ==
    /\ i \in 1 .. n /\ g[i] \in Int
    /\ \A k \in 1 .. n : f[k] \in Int /\ (k # i => g[k] = f[k])

Moved(i, T, f, g, n) == \E U : IsSum(U, g, n) /\ U[n] = T[n] + (g[i] - f[i])

LEMMA OneTermChanges ==
    ASSUME NEW n \in Nat, NEW f, NEW g, NEW T, IsSum(T, f, n), NEW i, OnlyAt(i, f, g, n)
    PROVE  Moved(i, T, f, g, n)
<1>0. /\ i \in 1 .. n /\ g[i] \in Int
      /\ \A k \in 1 .. n : f[k] \in Int /\ (k # i => g[k] = f[k])
  BY DEF OnlyAt
<1>1. PICK c : c = g[i] - f[i] /\ c \in Int
  BY <1>0
<1>2. T \in [0 .. n -> Int] /\ T[0] = 0 /\ \A k \in 1 .. n : T[k] = T[k - 1] + f[k]
  BY DEF IsSum
<1>3. PICK U : U = [k \in 0 .. n |-> IF k < i THEN T[k] ELSE T[k] + c]
  OBVIOUS
<1>4. U \in [0 .. n -> Int] /\ U[0] = 0
  <2>1. \A k \in 0 .. n : T[k] \in Int /\ T[k] + c \in Int
    BY <1>1, <1>2
  <2>2. 0 \in 0 .. n /\ 0 < i
    BY <1>0
  <2> QED BY <1>2, <1>3, <2>1, <2>2
<1>5. ASSUME NEW k \in 1 .. n
      PROVE  U[k] = U[k - 1] + g[k]
  <2>1. k \in 0 .. n /\ k - 1 \in 0 .. n /\ T[k] \in Int /\ T[k - 1] \in Int /\ f[k] \in Int
        /\ T[k] = T[k - 1] + f[k]
    BY <1>0, <1>2
  <2>2. CASE k < i
    BY <1>0, <1>3, <2>1, <2>2
  <2>3. CASE k = i
    BY <1>0, <1>1, <1>3, <2>1, <2>3
  <2>4. CASE k > i
    <3>1. ~(k < i) /\ ~(k - 1 < i) /\ g[k] = f[k]
      BY <1>0, <2>1, <2>4
    <3> QED BY <1>1, <1>3, <2>1, <3>1
  <2> QED BY <1>0, <2>2, <2>3, <2>4
<1>6. U[n] = T[n] + c
  BY <1>0, <1>3
<1>7. IsSum(U, g, n)
  BY <1>4, <1>5 DEF IsSum
<1>8. U[n] = T[n] + (g[i] - f[i])
  BY <1>1, <1>6
<1> QED BY <1>7, <1>8 DEF Moved

\* A sum of terms that are at most those of another is at most the other sum, and if the
\* sums are equal then so are the terms.
AtMost(f, g, n) == \A k \in 1 .. n : f[k] \in Int /\ g[k] \in Int /\ f[k] <= g[k]
Equal(f, g, n) == \A k \in 1 .. n : f[k] = g[k]

LEMMA SumsCompare ==
    ASSUME NEW n \in Nat, NEW f, NEW g, AtMost(f, g, n),
           NEW T, NEW U, IsSum(T, f, n), IsSum(U, g, n)
    PROVE  /\ T[n] \in Int /\ U[n] \in Int /\ T[n] <= U[n]
           /\ T[n] = U[n] => Equal(f, g, n)
<1>0. \A k \in 1 .. n : f[k] \in Int /\ g[k] \in Int /\ f[k] <= g[k]
  BY DEF AtMost
<1>1. /\ T \in [0 .. n -> Int] /\ T[0] = 0 /\ \A k \in 1 .. n : T[k] = T[k - 1] + f[k]
      /\ U \in [0 .. n -> Int] /\ U[0] = 0 /\ \A k \in 1 .. n : U[k] = U[k - 1] + g[k]
  BY DEF IsSum
<1>2. PICK N : N = {k \in 0 .. n : ~(/\ T[k] <= U[k]
                                     /\ T[k] = U[k] => \A l \in 1 .. k : f[l] = g[l])}
  OBVIOUS
<1>3. N = {}
  <2> SUFFICES ASSUME N # {}
               PROVE  FALSE
    OBVIOUS
  <2>1. PICK k \in N : \A l \in N : k <= l
    <3>1. N \in SUBSET Nat
      BY <1>2
    <3> QED BY <3>1, LeastExists
  <2>2. k # 0
    <3>1. 1 .. 0 = {}
      OBVIOUS
    <3> QED BY <1>1, <1>2, <2>1, <3>1
  <2>3. k \in 1 .. n /\ k - 1 \in 0 .. n /\ ~(k <= k - 1)
    BY <1>2, <2>1, <2>2
  <2>4. k - 1 \notin N
    BY <2>1, <2>3
  <2>5. /\ T[k - 1] <= U[k - 1]
        /\ T[k - 1] = U[k - 1] => \A l \in 1 .. k - 1 : f[l] = g[l]
    BY <1>2, <2>3, <2>4
  <2>6. /\ T[k] = T[k - 1] + f[k] /\ U[k] = U[k - 1] + g[k] /\ f[k] <= g[k]
        /\ T[k - 1] \in Int /\ U[k - 1] \in Int /\ f[k] \in Int /\ g[k] \in Int
    BY <1>0, <1>1, <2>3
  <2>7. T[k] <= U[k] /\ (T[k] = U[k] => T[k - 1] = U[k - 1] /\ f[k] = g[k])
    BY <2>5, <2>6
  <2>8. T[k] = U[k] => \A l \in 1 .. k : f[l] = g[l]
    <3>1. \A l \in 1 .. k : l = k \/ l \in 1 .. k - 1
      BY <2>3
    <3> QED BY <2>5, <2>7, <3>1
  <2> QED BY <1>2, <2>1, <2>7, <2>8
<1>4. n \in 0 .. n /\ n \notin N
  BY <1>3
<1>5. T[n] \in Int /\ U[n] \in Int
  BY <1>1
<1> QED BY <1>2, <1>4, <1>5 DEF Equal

\* No terms, no sum.
LEMMA SumOfNothing ==
    ASSUME NEW n \in Nat, NEW f, \A k \in 1 .. n : f[k] = 0
    PROVE  \E T : IsSum(T, f, n) /\ T[n] = 0
<1>1. PICK T : T = [k \in 0 .. n |-> 0]
  OBVIOUS
<1>2. T \in [0 .. n -> Int] /\ T[0] = 0 /\ T[n] = 0
  BY <1>1
<1>3. \A k \in 1 .. n : T[k] = T[k - 1] + f[k]
  BY <1>1
<1> QED BY <1>2, <1>3 DEF IsSum

-----------------------------------------------------------------------------
\* What the two halves of a pair of disks are.
LEMMA APair ==
    ASSUME NEW x \in Disks, NEW y \in Disks, x # y, NEW s, s = <<x, y>>
    PROVE  /\ s \in Seq(Disks) /\ Len(s) = 2 /\ DOMAIN s = 1 .. 2
           /\ s[1] = x /\ s[2] = y
           /\ \A k, l \in 1 .. 2 : s[k] = s[l] => k = l
<1>1. s \in Seq(Disks) /\ Len(s) = 2 /\ DOMAIN s = 1 .. 2 /\ s[1] = x /\ s[2] = y
  OBVIOUS
<1>2. \A k \in 1 .. 2 : k = 1 \/ k = 2
  OBVIOUS
<1> QED BY <1>1, <1>2

\* The disks of a request are different ones.
LEMMA TwoDisks ==
    ASSUME JobOK, NEW i \in Requests
    PROVE  /\ DisksOf(i) \in Seq(Disks) /\ Len(DisksOf(i)) \in 1 .. 2
           /\ DOMAIN DisksOf(i) = 1 .. Len(DisksOf(i))
           /\ \A k, l \in DOMAIN DisksOf(i) : DisksOf(i)[k] = DisksOf(i)[l] => k = l
           /\ Len(DisksOf(i)) = IF job.mapping = 0 THEN 1 ELSE 2
<1>1. PICK m, b : m = job.mapping /\ b = job.queue[i].logical
  OBVIOUS
<1>2. m \in {0, 1, 4, 5} /\ b \in Nat
  <2>1. PICK q, R : q = job.queue /\ R = [op : {"read", "write"}, logical : Nat]
    OBVIOUS
  <2>2. q \in Seq(R) /\ i \in DOMAIN q /\ m \in {0, 1, 4, 5}
    BY <1>1, <2>1 DEF JobOK, Requests
  <2>3. q[i] \in R
    BY <2>2
  <2> QED BY <1>1, <2>1, <2>2, <2>3
<1>3. DisksOf(i) = PhysicalDisks(m, b)
  BY <1>1 DEF DisksOf
<1>4. PICK s : s = PhysicalDisks(m, b)
  OBVIOUS
<1>5. CASE m = 0
  <2>1. b % 4 \in 0 .. 3 /\ s = <<b % 4>>
    BY <1>2, <1>4, <1>5 DEF PhysicalDisks, disk_count
  <2>2. PICK x : x = b % 4
    OBVIOUS
  <2>3. s = <<x>> /\ x \in Disks
    BY <2>1, <2>2 DEF Disks, disk_count
  <2>4. s \in Seq(Disks) /\ Len(s) = 1 /\ DOMAIN s = 1 .. 1
    BY <2>3
  <2>5. \A k, l \in DOMAIN s : s[k] = s[l] => k = l
    BY <2>4
  <2> QED BY <1>1, <1>3, <1>4, <1>5, <2>4, <2>5
<1>6. ASSUME m # 0, NEW x \in Disks, NEW y \in Disks, x # y, s = <<x, y>>
      PROVE  /\ DisksOf(i) \in Seq(Disks) /\ Len(DisksOf(i)) \in 1 .. 2
             /\ DOMAIN DisksOf(i) = 1 .. Len(DisksOf(i))
             /\ \A k, l \in DOMAIN DisksOf(i) : DisksOf(i)[k] = DisksOf(i)[l] => k = l
             /\ Len(DisksOf(i)) = IF job.mapping = 0 THEN 1 ELSE 2
  <2>1. /\ s \in Seq(Disks) /\ Len(s) = 2 /\ DOMAIN s = 1 .. 2
        /\ \A k, l \in 1 .. 2 : s[k] = s[l] => k = l
    BY <1>6, APair
  <2> QED BY <1>1, <1>3, <1>4, <1>6, <2>1
<1>7. CASE m = 1
  <2>1. PICK x : x = 2 * (b % 2)
    OBVIOUS
  <2>2. x \in {0, 2} /\ s = <<x, x + 1>>
    <3>1. b % 2 \in 0 .. 1 /\ s = <<2 * (b % 2), 2 * (b % 2) + 1>>
      BY <1>2, <1>4, <1>7 DEF PhysicalDisks, disk_count
    <3> QED BY <2>1, <3>1
  <2>3. x \in Disks /\ x + 1 \in Disks /\ x # x + 1
    BY <2>2 DEF Disks, disk_count
  <2> QED BY <1>6, <1>7, <2>2, <2>3
<1>8. CASE m = 4
  <2>1. PICK x : x = b % 3
    OBVIOUS
  <2>2. x \in 0 .. 2 /\ s = <<x, 3>>
    BY <1>2, <1>4, <1>8, <2>1 DEF PhysicalDisks, disk_count
  <2>3. x \in Disks /\ 3 \in Disks /\ x # 3
    BY <2>2 DEF Disks, disk_count
  <2> QED BY <1>6, <1>8, <2>2, <2>3
<1>9. CASE m = 5
  <2>1. PICK c, p : c = b % 3 /\ p = 3 - (Offset(m, b) % 4)
    OBVIOUS
  <2>2. c \in 0 .. 2 /\ p \in 0 .. 3
    <3>1. c \in 0 .. 2
      BY <1>2, <2>1
    <3>2. Offset(m, b) \in Int
      BY <1>2, <1>9 DEF Offset, disk_count
    <3>3. PICK o : o = Offset(m, b)
      OBVIOUS
    <3>4. o % 4 \in 0 .. 3
      BY <3>2, <3>3
    <3> QED BY <2>1, <3>1, <3>3, <3>4
  <2>3. PICK x : x = IF c >= p THEN c + 1 ELSE c
    OBVIOUS
  <2>4. s = <<x, p>>
    BY <1>2, <1>4, <1>9, <2>1, <2>3 DEF PhysicalDisks, disk_count
  <2>5. x \in Disks /\ p \in Disks /\ x # p
    BY <2>2, <2>3 DEF Disks, disk_count
  <2> QED BY <1>6, <1>9, <2>4, <2>5
<1> QED BY <1>2, <1>5, <1>7, <1>8, <1>9

\* The place of a disk among those of a request.
LEMMA PlaceOf ==
    ASSUME JobOK, NEW i \in Requests, NEW d \in Disks, NEW k,
           k = SelectInSeq(DisksOf(i), LAMBDA e : e = d)
    PROVE  /\ k # 0 => k \in DOMAIN DisksOf(i) /\ DisksOf(i)[k] = d
           /\ \A l \in DOMAIN DisksOf(i) : DisksOf(i)[l] = d => k = l
<1>1. PICK p : p = DisksOf(i)
  OBVIOUS
<1>2. /\ Len(p) \in 1 .. 2 /\ DOMAIN p = 1 .. Len(p)
      /\ \A j, l \in 1 .. Len(p) : p[j] = p[l] => j = l
  BY <1>1, TwoDisks
<1>3. PICK I : I = {j \in 1 .. Len(p) : p[j] = d}
  OBVIOUS
<1>4. k = IF I # {} THEN Min(I) ELSE 0
  BY <1>1, <1>3 DEF SelectInSeq
<1>5. \A l \in I : I = {l} /\ Min(I) = l
  <2> SUFFICES ASSUME NEW l \in I
               PROVE  I = {l} /\ Min(I) = l
    OBVIOUS
  <2>1. I = {l} /\ l \in Nat
    BY <1>2, <1>3
  <2>2. \A x \in I : (\A y \in I : x =< y) <=> x = l
    BY <2>1
  <2> QED BY <2>1, <2>2 DEF Min
<1>6. \A l \in I : l \in 1 .. Len(p) /\ p[l] = d /\ k = l /\ l # 0
  BY <1>2, <1>3, <1>4, <1>5
<1>7. I = {} => k = 0
  BY <1>4
<1>8. k # 0 => k \in 1 .. Len(p) /\ p[k] = d
  BY <1>6, <1>7
<1>9. \A l \in 1 .. Len(p) : p[l] = d => k = l
  BY <1>3, <1>6
<1> QED BY <1>1, <1>2, <1>8, <1>9

-----------------------------------------------------------------------------
\* The status of a request, in a state that is right.
LEMMA StatusIs ==
    ASSUME JobOK, NEW st \in Right, NEW i \in Requests
    PROVE  /\ st.status[i] \in [DOMAIN DisksOf(i) -> Stati]
           /\ st.status \in [Requests -> [1 .. 1 -> Stati] \cup [1 .. 2 -> Stati]]
<1>1. PICK w : w = st.status
  OBVIOUS
<1>2. /\ w \in [Requests -> [1 .. 1 -> Stati] \cup [1 .. 2 -> Stati]]
      /\ DOMAIN w[i] = DOMAIN DisksOf(i)
  BY <1>1 DEF Right, States
<1>3. w[i] \in [1 .. 1 -> Stati] \cup [1 .. 2 -> Stati]
  BY <1>2
<1>4. w[i] \in [DOMAIN w[i] -> Stati]
  BY <1>3
<1> QED BY <1>1, <1>2, <1>4

\* How many I/Os a request has begun is a number.
LEMMA BegunIsInt == \A i, s : Begun(i, s) \in Int
<1> TAKE i, s
<1>1. \A x : BegunOn(i, x) \in Int
  BY DEF BegunOn
<1>2. PICK x, y : x = BegunOn(i, s[1]) /\ y = BegunOn(i, s[2])
  OBVIOUS
<1>3. x + y \in Int
  BY <1>1, <1>2
<1> QED BY <1>2, <1>3 DEF Begun

\* The other requests stay as they are.
Others(w, w1, i) == \A r \in Requests : r # i => w1[r] = w[r]

\* What one request more has begun is what all have begun more.
BegunMoved(i, T, w, w1, n) ==
    \E U : IsSum(U, AllBegun(w1), n) /\ U[n] = T[n] + (Begun(i, w1[i]) - Begun(i, w[i]))

LEMMA SumMoves ==
    ASSUME JobOK, NEW n, n = Len(job.queue), NEW w, NEW w1, NEW i \in Requests,
           Others(w, w1, i), NEW T, IsSum(T, AllBegun(w), n)
    PROVE  BegunMoved(i, T, w, w1, n)
<1>1. n \in Nat /\ Requests = 1 .. n
  BY DEF JobOK, Requests
<1>2. PICK f, g : f = AllBegun(w) /\ g = AllBegun(w1)
  OBVIOUS
<1>3. \A k \in 1 .. n : f[k] = Begun(k, w[k]) /\ g[k] = Begun(k, w1[k])
  BY <1>1, <1>2 DEF AllBegun
<1>4. i \in 1 .. n /\ g[i] \in Int /\ \A k \in 1 .. n : f[k] \in Int
  BY <1>1, <1>3, BegunIsInt
<1>5. OnlyAt(i, f, g, n)
  BY <1>1, <1>3, <1>4 DEF Others, OnlyAt
<1>6. IsSum(T, f, n) /\ n \in Nat
  BY <1>1, <1>2
<1>7. Moved(i, T, f, g, n)
  BY <1>5, <1>6, OneTermChanges
<1>8. PICK U : IsSum(U, g, n) /\ U[n] = T[n] + (g[i] - f[i])
  BY <1>7 DEF Moved
<1>9. g[i] = Begun(i, w1[i]) /\ f[i] = Begun(i, w[i])
  BY <1>3, <1>4
<1> QED BY <1>2, <1>8, <1>9 DEF BegunMoved

\* The arms at work, when one of them changes.
LEMMA BusyChanges ==
    ASSUME NEW a, DOMAIN a = Disks, NEW d \in Disks, NEW arm, NEW b, b = [a EXCEPT ![d] = arm]
    PROVE  Busy(a) \in Int /\ Busy(b) = Busy(a) + (Load(arm) - Load(a[d]))
<1>1. PICK x0, x1, x2, x3, y :
          x0 = Load(a[0]) /\ x1 = Load(a[1]) /\ x2 = Load(a[2]) /\ x3 = Load(a[3]) /\ y = Load(arm)
  OBVIOUS
<1>2. x0 \in Int /\ x1 \in Int /\ x2 \in Int /\ x3 \in Int /\ y \in Int
  BY <1>1 DEF Load
<1>3. Busy(a) = x0 + x1 + x2 + x3
  BY <1>1 DEF Busy
<1>4. 0 \in Disks /\ 1 \in Disks /\ 2 \in Disks /\ 3 \in Disks /\ (d = 0 \/ d = 1 \/ d = 2 \/ d = 3)
  BY DEF Disks, disk_count
<1>5. \A e \in Disks : b[e] = IF e = d THEN arm ELSE a[e]
  OBVIOUS
<1>6. Busy(b) = (IF d = 0 THEN y ELSE x0) + (IF d = 1 THEN y ELSE x1)
                + (IF d = 2 THEN y ELSE x2) + (IF d = 3 THEN y ELSE x3)
  <2>1. /\ Load(b[0]) = IF d = 0 THEN y ELSE x0
        /\ Load(b[1]) = IF d = 1 THEN y ELSE x1
        /\ Load(b[2]) = IF d = 2 THEN y ELSE x2
        /\ Load(b[3]) = IF d = 3 THEN y ELSE x3
    BY <1>1, <1>4, <1>5
  <2> QED BY <2>1 DEF Busy
<1>7. Load(a[d]) = IF d = 0 THEN x0 ELSE IF d = 1 THEN x1 ELSE IF d = 2 THEN x2 ELSE x3
  BY <1>1, <1>4
<1> QED BY <1>1, <1>2, <1>3, <1>4, <1>6, <1>7

\* A callback that changes one request and the arm of one of its disks.
LEMMA OneChange ==
    ASSUME JobOK, NEW st \in Right, NEW i \in Requests, NEW d \in Disks,
           NEW k \in DOMAIN DisksOf(i), DisksOf(i)[k] = d,
           NEW s \in [DOMAIN DisksOf(i) -> Stati], NEW arm \in Arm,
           NEW win \in Nat \cup {-1}, NEW rc \in Int, NEW an \in BOOLEAN, NEW dn \in BOOLEAN,
           Fits(i, s),
           arm.state # "null" => arm.request = i /\ s[k] \in {"read", "write"},
           \A j \in DOMAIN DisksOf(i) :
               j # k => (s[j] \in {"read", "write"} <=> st.status[i][j] \in {"read", "write"}),
           st.arms[d].state = "null" \/ st.arms[d].request = i,
           IsWrite(i) /\ s[k] \in {"read", "write"} => arm.state # "null" /\ arm.request = i,
           rc + Load(arm) - Begun(i, s)
               = st.request_count + Load(st.arms[d]) - Begun(i, st.status[i]),
           StripesWritten /\ dn => rc = request_count_needed,
           NEW t, t = [window |-> win, status |-> [st.status EXCEPT ![i] = s],
                       arms |-> [st.arms EXCEPT ![d] = arm],
                       request_count |-> rc, do_animate |-> an, is_done |-> dn]
    PROVE  t \in Right
<1>1. PICK w, a : w = st.status /\ a = st.arms
  OBVIOUS
<1>2. /\ w \in [Requests -> [1 .. 1 -> Stati] \cup [1 .. 2 -> Stati]] /\ a \in [Disks -> Arm]
      /\ \A r \in Requests : DOMAIN w[r] = DOMAIN DisksOf(r)
      /\ \A r \in Requests : Fits(r, w[r])
      /\ st.request_count \in Int
  BY <1>1 DEF Right, States
<1>3. PICK w1, a1 : w1 = [w EXCEPT ![i] = s] /\ a1 = [a EXCEPT ![d] = arm]
  OBVIOUS
<1>4. /\ t.status = w1 /\ t.arms = a1 /\ t.request_count = rc /\ t.is_done = dn
      /\ t = [window |-> win, status |-> w1, arms |-> a1,
              request_count |-> rc, do_animate |-> an, is_done |-> dn]
  BY <1>1, <1>3
<1>5. s \in [1 .. 1 -> Stati] \cup [1 .. 2 -> Stati] /\ DOMAIN s = DOMAIN DisksOf(i)
  <2>1. DOMAIN DisksOf(i) = 1 .. Len(DisksOf(i)) /\ Len(DisksOf(i)) \in 1 .. 2
    BY TwoDisks
  <2>2. PICK n, D : n = Len(DisksOf(i)) /\ D = DOMAIN DisksOf(i)
    OBVIOUS
  <2>3. n \in 1 .. 2 /\ D = 1 .. n /\ s \in [D -> Stati]
    BY <2>1, <2>2
  <2>4. n = 1 \/ n = 2
    BY <2>3
  <2> QED BY <2>2, <2>3, <2>4
<1>6. /\ w1 \in [Requests -> [1 .. 1 -> Stati] \cup [1 .. 2 -> Stati]] /\ a1 \in [Disks -> Arm]
      /\ w1[i] = s /\ \A r \in Requests : r # i => w1[r] = w[r]
      /\ a1[d] = arm /\ \A e \in Disks : e # d => a1[e] = a[e]
  BY <1>2, <1>3, <1>5
<1>7. t \in States
  BY <1>4, <1>6 DEF States
<1>8. \A r \in Requests : DOMAIN t.status[r] = DOMAIN DisksOf(r)
  BY <1>2, <1>4, <1>5, <1>6
<1>9. \A r \in Requests : Fits(r, t.status[r])
  <2> SUFFICES ASSUME NEW r \in Requests
               PROVE  Fits(r, w1[r])
    BY <1>4
  <2> QED BY <1>2, <1>6
<1>10. ASSUME NEW e \in Disks, a1[e].state # "null"
       PROVE  /\ a1[e].request \in Requests
              /\ \E l \in DOMAIN DisksOf(a1[e].request) :
                    /\ DisksOf(a1[e].request)[l] = e
                    /\ w1[a1[e].request][l] \in {"read", "write"}
  <2>1. CASE e = d
    BY <1>6, <1>10, <2>1
  <2>2. CASE e # d
    <3>1. a1[e] = a[e] /\ a[e].state # "null" /\ AtWork(st, e)
      BY <1>6, <1>10, <2>2 DEF Right
    <3>2. PICK r : r = a[e].request
      OBVIOUS
    <3>3. /\ r \in Requests
          /\ \E l \in DOMAIN DisksOf(r) : DisksOf(r)[l] = e /\ w[r][l] \in {"read", "write"}
      BY <1>1, <3>1, <3>2 DEF AtWork
    <3>4. PICK l \in DOMAIN DisksOf(r) : DisksOf(r)[l] = e /\ w[r][l] \in {"read", "write"}
      BY <3>3
    <3>5. w1[r][l] \in {"read", "write"}
      <4>1. CASE r # i
        BY <1>6, <3>3, <3>4, <4>1
      <4>2. CASE r = i
        <5>1. l # k /\ l \in DOMAIN DisksOf(i)
          BY <2>2, <3>4, <4>2
        <5> QED BY <1>1, <1>6, <3>4, <4>2, <5>1
      <4> QED BY <4>1, <4>2
    <3> QED BY <3>1, <3>2, <3>3, <3>4, <3>5
  <2> QED BY <2>1, <2>2
<1>11. \A e \in Disks : AtWork(t, e)
  BY <1>4, <1>10 DEF AtWork
<1>12. ASSUME NEW r \in Requests, IsWrite(r), NEW l \in DOMAIN DisksOf(r),
              w1[r][l] \in {"read", "write"}
       PROVE  a1[DisksOf(r)[l]].state # "null" /\ a1[DisksOf(r)[l]].request = r
  <2>1. CASE r = i /\ l = k
    BY <1>6, <1>12, <2>1
  <2>2. CASE ~(r = i /\ l = k)
    <3>1. PICK e : e = DisksOf(r)[l]
      OBVIOUS
    <3>2. e \in Disks
      <4>1. DisksOf(r) \in Seq(Disks)
        BY TwoDisks
      <4> QED BY <3>1, <4>1
    <3>3. w[r][l] \in {"read", "write"}
      <4>1. CASE r # i
        BY <1>6, <1>12, <4>1
      <4>2. CASE r = i
        BY <1>1, <1>6, <1>12, <2>2, <4>2
      <4> QED BY <4>1, <4>2
    <3>4. a[e].state # "null" /\ a[e].request = r
      <4>1. WorkedFor(st, r)
        BY DEF Right
      <4> QED BY <1>1, <1>12, <3>1, <3>3, <4>1 DEF WorkedFor
    <3>5. e # d
      <4>1. CASE r # i
        BY <1>1, <3>4, <4>1
      <4>2. CASE r = i
        <5>1. l # k /\ l \in DOMAIN DisksOf(i)
          BY <2>2, <4>2
        <5>2. DisksOf(i)[l] # DisksOf(i)[k]
          BY <5>1, TwoDisks
        <5> QED BY <3>1, <4>2, <5>2
      <4> QED BY <4>1, <4>2
    <3> QED BY <1>6, <3>1, <3>2, <3>4, <3>5
  <2> QED BY <2>1, <2>2
<1>13. \A r \in Requests : WorkedFor(t, r)
  <2> SUFFICES ASSUME NEW r \in Requests, IsWrite(r), NEW l \in DOMAIN DisksOf(r),
                      t.status[r][l] \in {"read", "write"}
               PROVE  t.arms[DisksOf(r)[l]].state # "null" /\ t.arms[DisksOf(r)[l]].request = r
    BY DEF WorkedFor
  <2>1. w1[r][l] \in {"read", "write"}
    BY <1>4
  <2> QED BY <1>4, <1>12, <2>1
<1>14. Counted(t)
  <2>1. PICK n, f, g : n = Len(job.queue) /\ f = AllBegun(w) /\ g = AllBegun(w1)
    OBVIOUS
  <2>2. PICK T : IsSum(T, f, n) /\ st.request_count + Busy(a) = T[n]
    BY <1>1, <2>1 DEF Right, Counted
  <2>3. PICK x, y : x = Begun(i, s) /\ y = Begun(i, w[i]) /\ x \in Int /\ y \in Int
    BY BegunIsInt
  <2>4. PICK U : IsSum(U, g, n) /\ U[n] = T[n] + (x - y)
    <3>1. Others(w, w1, i)
      BY <1>6 DEF Others
    <3>2. IsSum(T, AllBegun(w), n)
      BY <2>1, <2>2
    <3>3. BegunMoved(i, T, w, w1, n)
      BY <2>1, <3>1, <3>2, SumMoves
    <3> QED BY <1>6, <2>1, <2>3, <3>3 DEF BegunMoved
  <2>5. PICK b, c, l, m : b = Busy(a) /\ c = Busy(a1) /\ l = Load(arm) /\ m = Load(a[d])
    OBVIOUS
  <2>6. b \in Int /\ c = b + (l - m)
    BY <1>2, <1>3, <2>5, BusyChanges
  <2>7. l \in Int /\ m \in Int
    BY <2>5 DEF Load
  <2>8. PICK q : q = st.request_count /\ q \in Int
    BY <1>2
  <2>9. rc + l - x = q + m - y
    BY <1>1, <2>3, <2>5, <2>8
  <2>10. q + b = T[n]
    BY <2>2, <2>5, <2>8
  <2>11. rc + c = U[n]
    BY <2>3, <2>4, <2>6, <2>7, <2>8, <2>9, <2>10
  <2>12. IsSum(U, AllBegun(t.status), Len(job.queue))
    BY <1>4, <2>1, <2>4
  <2>13. t.request_count + Busy(t.arms) = U[Len(job.queue)]
    BY <1>4, <2>1, <2>5, <2>11
  <2> QED BY <2>12, <2>13 DEF Counted
<1>15. DoneWhenCounted(t)
  BY <1>4, Zenon DEF DoneWhenCounted
<1> QED BY <1>7, <1>8, <1>9, <1>11, <1>13, <1>14, <1>15 DEF Right

\* What one disk's share comes to.
LEMMA BegunOnIs ==
    \A i, x :
        /\ BegunOn(i, x) \in Int
        /\ x = "not started" => BegunOn(i, x) = 0
        /\ x # "not started" /\ ~ Phased(i) => BegunOn(i, x) = 1
        /\ x \in {"read", "read done", "write begin"} => BegunOn(i, x) = 1
        /\ x \in {"write", "done"} /\ Phased(i) => BegunOn(i, x) = 2
<1> TAKE i, x
<1>1. x = "not started" => BegunOn(i, x) = 0
  BY Zenon DEF BegunOn
<1>2. x # "not started" /\ ~ Phased(i) => BegunOn(i, x) = 1
  BY Zenon DEF BegunOn
<1>3. x \in {"read", "read done", "write begin"} => BegunOn(i, x) = 1
  <2>1. x \in {"read", "read done", "write begin"} => x # "not started" /\ x \notin {"write", "done"}
    OBVIOUS
  <2> QED BY <2>1, Zenon DEF BegunOn
<1>4. x \in {"write", "done"} /\ Phased(i) => BegunOn(i, x) = 2
  <2>1. x \in {"write", "done"} => x # "not started"
    OBVIOUS
  <2> QED BY <2>1, Zenon DEF BegunOn
<1>5. BegunOn(i, x) \in Int
  <2>1. BegunOn(i, x) = 0 \/ BegunOn(i, x) = 1 \/ BegunOn(i, x) = 2
    BY Zenon DEF BegunOn
  <2> QED BY <2>1
<1> QED BY <1>1, <1>2, <1>3, <1>4, <1>5, Zenon

\* What is begun for a request that uses all its disks, when one of them goes on.
LEMMA BegunMoves ==
    ASSUME JobOK, NEW i \in Requests, ~ OneOf(i), NEW k \in DOMAIN DisksOf(i),
           NEW s0 \in [DOMAIN DisksOf(i) -> Stati], NEW s \in [DOMAIN DisksOf(i) -> Stati],
           \A j \in DOMAIN DisksOf(i) : j # k => s[j] = s0[j]
    PROVE  Begun(i, s) = Begun(i, s0) + (BegunOn(i, s[k]) - BegunOn(i, s0[k]))
<1>1. PICK D : D = DOMAIN DisksOf(i)
  OBVIOUS
<1>2. D = 1 .. (IF job.mapping = 0 THEN 1 ELSE 2) /\ k \in D
      /\ \A j \in D : j # k => s[j] = s0[j]
  BY <1>1, TwoDisks
<1>3. CASE job.mapping = 0
  <2>1. k = 1
    BY <1>2, <1>3
  <2>2. ~ Phased(i)
    BY <1>3 DEF Phased
  <2>3. Begun(i, s) = (IF s[1] = "not started" THEN 0 ELSE 1)
        /\ Begun(i, s0) = (IF s0[1] = "not started" THEN 0 ELSE 1)
    BY <1>3 DEF Begun
  <2>4. /\ BegunOn(i, s[1]) = IF s[1] = "not started" THEN 0 ELSE 1
        /\ BegunOn(i, s0[1]) = IF s0[1] = "not started" THEN 0 ELSE 1
    BY <2>2, BegunOnIs, Zenon
  <2>5. Begun(i, s) = BegunOn(i, s[k]) /\ Begun(i, s0) = BegunOn(i, s0[k])
    BY <2>1, <2>3, <2>4, Zenon
  <2>6. PICK x, y : x = BegunOn(i, s0[k]) /\ y = BegunOn(i, s[k])
    OBVIOUS
  <2>7. x \in Int /\ y \in Int
    BY <2>6, BegunOnIs, Zenon
  <2>8. y = x + (y - x)
    BY <2>7
  <2> QED BY <2>5, <2>6, <2>8, Zenon
<1>4. CASE job.mapping # 0
  <2>1. PICK x1, x2, y1, y2 : /\ x1 = BegunOn(i, s0[1]) /\ x2 = BegunOn(i, s0[2])
                              /\ y1 = BegunOn(i, s[1]) /\ y2 = BegunOn(i, s[2])
    OBVIOUS
  <2>2. x1 \in Int /\ x2 \in Int /\ y1 \in Int /\ y2 \in Int
    BY <2>1, BegunOnIs
  <2>3. Begun(i, s0) = x1 + x2 /\ Begun(i, s) = y1 + y2
    BY <1>4, <2>1 DEF Begun
  <2>4. CASE k = 1
    <3>1. y2 = x2
      BY <1>2, <1>4, <2>1, <2>4
    <3> QED BY <2>1, <2>2, <2>3, <2>4, <3>1
  <2>5. CASE k = 2
    <3>1. y1 = x1
      BY <1>2, <1>4, <2>1, <2>5
    <3> QED BY <2>1, <2>2, <2>3, <2>5, <3>1
  <2> QED BY <1>2, <1>4, <2>4, <2>5
<1> QED BY <1>3, <1>4

\* What the scheduler makes of a request, when it makes something of it.
Goes(i, k, s0, s) ==
    \/ /\ OneOf(i) /\ s0[k] = "not started"
       /\ s = [j \in DOMAIN DisksOf(i) |->
                  IF j # k THEN "done" ELSE IF IsWrite(i) THEN "write" ELSE "read"]
    \/ /\ ~ OneOf(i) /\ s0[k] = "not started" /\ s = [s0 EXCEPT ![k] = "read"]
       /\ Phased(i) \/ (~ IsWrite(i) /\ k = 1)
    \/ /\ ~ OneOf(i) /\ ~ Phased(i) /\ IsWrite(i)
       /\ s0[k] = "not started" /\ s = [s0 EXCEPT ![k] = "write"]
    \/ s0[k] = "write begin" /\ s = [s0 EXCEPT ![k] = "write"]

LEMMA ScheduledCases ==
    ASSUME JobOK, NEW i \in Requests, NEW k \in DOMAIN DisksOf(i),
           NEW s0 \in [DOMAIN DisksOf(i) -> Stati], NEW s, s = Scheduled(i, k, s0), s # s0
    PROVE  Goes(i, k, s0, s)
<1>1. PICK D : D = DOMAIN DisksOf(i)
  OBVIOUS
<1>2. /\ s0 \in [D -> Stati] /\ DOMAIN s0 = D /\ k \in D /\ job.mapping \in {0, 1, 4, 5}
      /\ FullStripe(i) => job.mapping = 4
  BY <1>1 DEF JobOK, FullStripe
<1>3. PICK m : m = job.mapping /\ m \in {0, 1, 4, 5} /\ (FullStripe(i) => m = 4)
  BY <1>2
<1>4. CASE s0[k] = "not started" /\ ~ IsWrite(i) /\ m = 1
  <2>1. s = [j \in D |-> IF j = k THEN "read" ELSE "done"]
    BY <1>2, <1>3, <1>4 DEF Scheduled
  <2>2. s = [j \in D |-> IF j # k THEN "done" ELSE IF IsWrite(i) THEN "write" ELSE "read"]
    BY <1>4, <2>1, Zenon
  <2>3. OneOf(i)
    BY <1>3, <1>4 DEF OneOf
  <2> QED BY <1>1, <1>4, <2>2, <2>3, Zenon DEF Goes
<1>5. CASE s0[k] = "not started" /\ ~ IsWrite(i) /\ m # 1
  <2>1. s = IF k = 1 THEN [s0 EXCEPT ![k] = "read"] ELSE s0
    BY <1>3, <1>5 DEF Scheduled
  <2>2. ~ OneOf(i)
    BY <1>3, <1>5 DEF OneOf
  <2> QED BY <1>5, <2>1, <2>2 DEF Goes
<1>6. CASE s0[k] = "not started" /\ IsWrite(i) /\ m \in {0, 1} /\ m # 4 /\ m # 5 /\ ~ FullStripe(i)
  <2>1. s = [s0 EXCEPT ![k] = "write"]
    BY <1>3, <1>6 DEF Scheduled
  <2>2. ~ OneOf(i) /\ ~ Phased(i)
    BY <1>3, <1>6 DEF OneOf, Phased
  <2> QED BY <1>6, <2>1, <2>2, Zenon DEF Goes
<1>7. CASE s0[k] = "not started" /\ IsWrite(i) /\ FullStripe(i) /\ m = 4 /\ m # 0 /\ m # 1
  <2>1. s = IF WithParity(i) THEN [s0 EXCEPT ![k] = "write"]
            ELSE [j \in D |-> IF j = k THEN "write" ELSE "done"]
    BY <1>2, <1>3, <1>7 DEF Scheduled
  <2>2. ~ Phased(i) /\ (OneOf(i) <=> ~ WithParity(i))
    BY <1>3, <1>7 DEF OneOf, Phased
  <2>3. ~ WithParity(i) =>
            s = [j \in D |-> IF j # k THEN "done" ELSE IF IsWrite(i) THEN "write" ELSE "read"]
    BY <1>7, <2>1, Zenon
  <2> QED BY <1>1, <1>7, <2>1, <2>2, <2>3, Zenon DEF Goes
<1>8. CASE s0[k] = "not started" /\ IsWrite(i) /\ ~ FullStripe(i) /\ m \in {4, 5} /\ m # 0 /\ m # 1
  <2>1. s = [s0 EXCEPT ![k] = "read"]
    BY <1>3, <1>8 DEF Scheduled
  <2>2. ~ OneOf(i)
    BY <1>3, <1>8, Zenon DEF OneOf
  <2>3. Phased(i)
    BY <1>3, <1>8 DEF Phased
  <2> QED BY <1>8, <2>1, <2>2, <2>3, Zenon DEF Goes
<1>9. CASE s0[k] = "write begin"
  <2>1. s = [s0 EXCEPT ![k] = "write"]
    BY <1>9, <1>3 DEF Scheduled
  <2> QED BY <1>9, <2>1, Zenon DEF Goes
<1>10. CASE s0[k] # "not started" /\ s0[k] # "write begin"
  <2>1. s = s0
    BY <1>3, <1>10 DEF Scheduled
  <2> QED BY <2>1
<1>11. \/ m \in {0, 1} /\ m # 4 /\ m # 5 /\ ~ FullStripe(i)
       \/ FullStripe(i) /\ m = 4 /\ m # 0 /\ m # 1
       \/ ~ FullStripe(i) /\ m \in {4, 5} /\ m # 0 /\ m # 1
  BY <1>3
<1> QED BY <1>4, <1>5, <1>6, <1>7, <1>8, <1>9, <1>10, <1>11, Zenon

\* A request that is looked at and goes on: it fits, one I/O more is begun, and the other
\* disk has as much to do as it had.
LEMMA ScheduledIs ==
    ASSUME JobOK, NEW i \in Requests, NEW k \in DOMAIN DisksOf(i),
           NEW s0 \in [DOMAIN DisksOf(i) -> Stati], Fits(i, s0),
           NEW s, s = Scheduled(i, k, s0), s # s0
    PROVE  /\ s \in [DOMAIN DisksOf(i) -> Stati] /\ s[k] \in {"read", "write"}
           /\ Fits(i, s)
           /\ Begun(i, s) = Begun(i, s0) + 1
           /\ \A j \in DOMAIN DisksOf(i) :
                 j # k => (s[j] \in {"read", "write"} <=> s0[j] \in {"read", "write"})
<1>1. PICK D : D = DOMAIN DisksOf(i)
  OBVIOUS
<1>2. /\ s0 \in [D -> Stati] /\ DOMAIN s0 = D /\ k \in D /\ job.mapping \in {0, 1, 4, 5}
      /\ D = 1 .. (IF job.mapping = 0 THEN 1 ELSE 2)
      /\ FullStripe(i) => job.mapping = 4
  BY <1>1, TwoDisks DEF JobOK, FullStripe
<1>3. \/ /\ OneOf(i) /\ s0[k] = "not started"
         /\ s = [j \in D |-> IF j # k THEN "done" ELSE IF IsWrite(i) THEN "write" ELSE "read"]
      \/ /\ ~ OneOf(i) /\ s0[k] = "not started" /\ s = [s0 EXCEPT ![k] = "read"]
         /\ Phased(i) \/ (~ IsWrite(i) /\ k = 1)
      \/ /\ ~ OneOf(i) /\ ~ Phased(i) /\ IsWrite(i)
         /\ s0[k] = "not started" /\ s = [s0 EXCEPT ![k] = "write"]
      \/ s0[k] = "write begin" /\ s = [s0 EXCEPT ![k] = "write"]
  <2>1. Goes(i, k, s0, s)
    BY ScheduledCases
  <2> QED BY <1>1, <2>1, Zenon DEF Goes
<1>4. CASE /\ OneOf(i) /\ s0[k] = "not started"
           /\ s = [j \in D |-> IF j # k THEN "done" ELSE IF IsWrite(i) THEN "write" ELSE "read"]
  <2>1. PICK x : x = IF IsWrite(i) THEN "write" ELSE "read"
    OBVIOUS
  <2>2. x \in {"read", "write"} /\ (IsWrite(i) => x = "write") /\ (~ IsWrite(i) => x = "read")
    BY <2>1
  <2>3. s = [j \in D |-> IF j # k THEN "done" ELSE x]
    BY <1>4, <2>1
  <2>4. /\ s \in [D -> Stati] /\ DOMAIN s = D /\ s[k] = x
        /\ \A j \in D : j # k => s[j] = "done"
    BY <1>2, <2>2, <2>3 DEF Stati
  <2>5. \A j \in D : s0[j] = "not started"
    <3>1. Fresh(s0)
      BY <1>4 DEF Fits
    <3> QED BY <1>2, <1>4, <3>1 DEF Fresh
  <2>6. ~ Phased(i)
    BY <1>4 DEF Phased, OneOf
  <2>7. \A j \in D : s[j] # "not started" /\ (s[j] = "done" \/ s[j] = x)
    BY <2>2, <2>4
  <2>8. Fits(i, s)
    <3>1. Fresh(s)
      BY <2>4, <2>7 DEF Fresh
    <3>2. ~ IsWrite(i) => job.mapping = 1
      BY <1>4 DEF OneOf
    <3> QED BY <2>2, <2>4, <2>6, <2>7, <3>1, <3>2 DEF Fits
  <2>9. Begun(i, s) = 1 /\ Begun(i, s0) = 0
    <3>1. 1 \in D
      BY <1>2
    <3> QED BY <1>4, <2>5, <2>7, <3>1 DEF Begun
  <2>10. \A j \in D : j # k => s[j] \notin {"read", "write"} /\ s0[j] \notin {"read", "write"}
    BY <2>4, <2>5
  <2>11. Begun(i, s) = Begun(i, s0) + 1
    BY <2>9
  <2> QED BY <1>1, <2>2, <2>4, <2>8, <2>10, <2>11
<1>5. ASSUME ~ OneOf(i), NEW x \in {"read", "write"}, s = [s0 EXCEPT ![k] = x],
             BegunOn(i, x) = BegunOn(i, s0[k]) + 1, Fits(i, s)
      PROVE  /\ s \in [D -> Stati] /\ s[k] \in {"read", "write"}
             /\ Fits(i, s)
             /\ Begun(i, s) = Begun(i, s0) + 1
             /\ \A j \in D : j # k => (s[j] \in {"read", "write"} <=> s0[j] \in {"read", "write"})
  <2>1. s \in [D -> Stati] /\ s[k] = x /\ \A j \in D : j # k => s[j] = s0[j]
    BY <1>2, <1>5 DEF Stati
  <2>2. Begun(i, s) = Begun(i, s0) + 1
    <3>1. Begun(i, s) = Begun(i, s0) + (BegunOn(i, s[k]) - BegunOn(i, s0[k]))
      BY <1>1, <1>5, <2>1, BegunMoves
    <3>2. PICK b, y, z : b = Begun(i, s0) /\ y = BegunOn(i, s0[k]) /\ z = BegunOn(i, s[k])
      OBVIOUS
    <3>3. b \in Int /\ y \in Int /\ z = y + 1
      BY <1>5, <2>1, <3>2, BegunIsInt, BegunOnIs
    <3> QED BY <3>1, <3>2, <3>3
  <2> QED BY <1>5, <2>1, <2>2
<1>6. CASE /\ ~ OneOf(i) /\ s0[k] = "not started" /\ s = [s0 EXCEPT ![k] = "read"]
           /\ Phased(i) \/ (~ IsWrite(i) /\ k = 1)
  <2>1. s \in [D -> Stati] /\ DOMAIN s = D /\ s[k] = "read" /\ \A j \in D : j # k => s[j] = s0[j]
    BY <1>2, <1>6 DEF Stati
  <2>2. ASSUME Phased(i)
        PROVE  Fits(i, s)
    <3>1. D = 1 .. 2 /\ IsWrite(i)
      BY <1>2, <2>2 DEF Phased
    <3>2. InPhase(s0)
      BY <2>2 DEF Fits
    <3>3. InPhase(s)
      BY <1>2, <1>6, <2>1, <3>1, <3>2 DEF InPhase, Reads, Writes
    <3> QED BY <1>6, <2>2, <3>1, <3>3 DEF Fits
  <2>3. ASSUME ~ IsWrite(i), k = 1
        PROVE  Fits(i, s)
    <3>1. ~ Phased(i)
      BY <2>3 DEF Phased
    <3>2. /\ \A j \in D : s0[j] \in {"not started", "read", "done"}
          /\ job.mapping # 1 => \A j \in D : j # 1 => s0[j] = "not started"
      BY <1>2, <2>3 DEF Fits
    <3>3. /\ \A j \in D : s[j] \in {"not started", "read", "done"}
          /\ job.mapping # 1 => \A j \in D : j # 1 => s[j] = "not started"
      BY <2>1, <2>3, <3>2
    <3> QED BY <1>6, <2>1, <2>3, <3>1, <3>3 DEF Fits
  <2>4. BegunOn(i, "read") = BegunOn(i, s0[k]) + 1
    <3>1. BegunOn(i, "read") = 1 /\ BegunOn(i, s0[k]) = 0 /\ 1 = 0 + 1
      <4>1. 1 = 0 + 1
        OBVIOUS
      <4> QED BY <1>6, <4>1, BegunOnIs, Zenon
    <3> QED BY <3>1, Zenon
  <2>5. Fits(i, s)
    BY <1>6, <2>2, <2>3
  <2> QED BY <1>1, <1>5, <1>6, <2>4, <2>5
<1>7. CASE /\ ~ OneOf(i) /\ ~ Phased(i) /\ IsWrite(i)
           /\ s0[k] = "not started" /\ s = [s0 EXCEPT ![k] = "write"]
  <2>1. s \in [D -> Stati] /\ DOMAIN s = D /\ s[k] = "write" /\ \A j \in D : j # k => s[j] = s0[j]
    BY <1>2, <1>7 DEF Stati
  <2>2. Fits(i, s)
    <3>1. \A j \in D : s0[j] \in {"not started", "write", "done"}
      BY <1>2, <1>7 DEF Fits
    <3>2. \A j \in D : s[j] \in {"not started", "write", "done"}
      BY <2>1, <3>1
    <3> QED BY <1>7, <2>1, <3>2 DEF Fits
  <2>3. BegunOn(i, "write") = BegunOn(i, s0[k]) + 1
    <3>1. "write" # "not started"
      OBVIOUS
    <3>2. 1 = 0 + 1
      OBVIOUS
    <3>3. BegunOn(i, "write") = 1 /\ BegunOn(i, s0[k]) = 0
      BY <1>7, <3>1, BegunOnIs, Zenon
    <3> QED BY <3>2, <3>3, Zenon
  <2> QED BY <1>1, <1>5, <1>7, <2>2, <2>3
<1>8. CASE s0[k] = "write begin" /\ s = [s0 EXCEPT ![k] = "write"]
  <2>1. s \in [D -> Stati] /\ DOMAIN s = D /\ s[k] = "write" /\ \A j \in D : j # k => s[j] = s0[j]
    BY <1>2, <1>8 DEF Stati
  <2>2. Phased(i)
    BY <1>2, <1>8 DEF Fits
  <2>3. D = 1 .. 2 /\ IsWrite(i) /\ ~ OneOf(i)
    BY <1>2, <2>2 DEF Phased, OneOf
  <2>4. InPhase(s)
    <3>1. InPhase(s0)
      BY <2>2 DEF Fits
    <3> QED BY <1>2, <1>8, <2>1, <2>3, <3>1 DEF InPhase, Reads, Writes
  <2>5. Fits(i, s)
    BY <2>2, <2>3, <2>4 DEF Fits
  <2>6. BegunOn(i, "write") = BegunOn(i, s0[k]) + 1
    <3>1. 2 = 1 + 1
      OBVIOUS
    <3>2. BegunOn(i, "write") = 2 /\ BegunOn(i, s0[k]) = 1
      BY <1>8, <2>2, BegunOnIs, Zenon
    <3> QED BY <3>1, <3>2, Zenon
  <2> QED BY <1>1, <1>5, <1>8, <2>3, <2>5, <2>6
<1> QED BY <1>3, <1>4, <1>6, <1>7, <1>8

\* What the end of an I/O makes of a request: it fits, as much is begun as was, and a
\* write has done what it did.
LEMMA EndedIs ==
    ASSUME JobOK, NEW i \in Requests, NEW k \in DOMAIN DisksOf(i),
           NEW s0 \in [DOMAIN DisksOf(i) -> Stati], Fits(i, s0),
           s0[k] \in {"read", "write"}, NEW s, s = Ended(i, k, s0)
    PROVE  /\ s \in [DOMAIN DisksOf(i) -> Stati]
           /\ Fits(i, s)
           /\ Begun(i, s) = Begun(i, s0)
           /\ IsWrite(i) => s[k] \notin {"read", "write"}
           /\ \A j \in DOMAIN DisksOf(i) :
                 j # k => (s[j] \in {"read", "write"} <=> s0[j] \in {"read", "write"})
<1>1. PICK D, m : D = DOMAIN DisksOf(i) /\ m = job.mapping
  OBVIOUS
<1>2. /\ s0 \in [D -> Stati] /\ DOMAIN s0 = D /\ k \in D /\ m \in {0, 1, 4, 5}
      /\ D = 1 .. (IF m = 0 THEN 1 ELSE 2) /\ (FullStripe(i) => m = 4)
  BY <1>1, TwoDisks DEF JobOK, FullStripe
<1>3. PICK e : e = CASE s0[k] = "read" /\ m \in {4, 5} ->
                          IF IsWrite(i) THEN [s0 EXCEPT ![k] = "read done"] ELSE s0
                     [] OTHER -> [s0 EXCEPT ![k] = "done"]
  OBVIOUS
<1>4. s = IF \A j \in DOMAIN e : e[j] = "read done" THEN [j \in DOMAIN e |-> "write begin"] ELSE e
  BY <1>1, <1>3 DEF Ended
<1>5. CASE Phased(i)
  <2>1. D = 1 .. 2 /\ IsWrite(i) /\ m \in {4, 5} /\ ~ OneOf(i) /\ InPhase(s0) /\ m # 0
    <3>1. IsWrite(i) /\ m \in {4, 5} /\ ~ FullStripe(i)
      BY <1>1, <1>5 DEF Phased
    <3>2. ~ OneOf(i)
      BY <3>1 DEF OneOf
    <3>3. InPhase(s0)
      BY <1>5 DEF Fits
    <3> QED BY <1>2, <3>1, <3>2, <3>3
  <2>2. PICK l \in D : l # k /\ \A j \in D : j = k \/ j = l
    <3>1. k = 1 \/ k = 2
      BY <1>2, <2>1
    <3>2. 1 \in D /\ 2 \in D /\ \A j \in D : j = 1 \/ j = 2
      BY <2>1
    <3> QED BY <3>1, <3>2
  <2>3. \/ /\ s0[k] = "read" /\ s0[l] \in Reads /\ e = [s0 EXCEPT ![k] = "read done"]
        \/ /\ s0[k] = "write" /\ s0[l] \in Writes /\ e = [s0 EXCEPT ![k] = "done"]
    <3>1. (s0[k] \in Reads /\ s0[l] \in Reads) \/ (s0[k] \in Writes /\ s0[l] \in Writes)
      <4>1. k \in 1 .. 2 /\ l \in 1 .. 2
        BY <1>2, <2>1, <2>2
      <4> QED BY <2>1, <4>1, Zenon DEF InPhase
    <3>2. s0[k] = "read" => e = [s0 EXCEPT ![k] = "read done"]
      BY <1>3, <2>1
    <3>3. s0[k] = "write" => e = [s0 EXCEPT ![k] = "done"]
      BY <1>3
    <3> QED BY <3>1, <3>2, <3>3 DEF Reads, Writes
  <2>4. DOMAIN e = D /\ e[l] = s0[l] /\ e[k] \in {"read done", "done"}
        /\ (s0[k] = "read" => e[k] = "read done") /\ (s0[k] = "write" => e[k] = "done")
    BY <1>2, <2>2, <2>3
  <2>5. DOMAIN s = D
    BY <1>4, <2>4
  <2>6. \/ s0[k] = "read" /\ s0[l] = "read done" /\ s[k] = "write begin" /\ s[l] = "write begin"
        \/ s0[k] = "read" /\ s0[l] \in {"not started", "read"} /\ s[k] = "read done" /\ s[l] = s0[l]
        \/ s0[k] = "write" /\ s0[l] \in Writes /\ s[k] = "done" /\ s[l] = s0[l]
    <3>1. CASE s0[k] = "read" /\ s0[l] = "read done"
      <4>1. \A j \in D : e[j] = "read done"
        BY <2>2, <2>4, <3>1
      <4>2. s = [j \in D |-> "write begin"]
        BY <1>4, <2>4, <4>1
      <4> QED BY <1>2, <3>1, <4>2
    <3>2. CASE ~ (s0[k] = "read" /\ s0[l] = "read done")
      <4>1. ~ \A j \in D : e[j] = "read done"
        <5>1. e[k] # "read done" \/ e[l] # "read done"
          BY <2>3, <2>4, <3>2
        <5> QED BY <1>2, <5>1
      <4>2. s = e
        BY <1>4, <2>4, <4>1
      <4> QED BY <2>3, <2>4, <3>2, <4>2 DEF Reads
    <3> QED BY <3>1, <3>2
  <2>7. s \in [D -> Stati]
    <3>1. s[k] \in Stati /\ s[l] \in Stati
      BY <1>2, <2>6 DEF Stati, Writes
    <3>2. s = [j \in D |-> s[j]]
      <4>1. \/ s = e
            \/ s = [j \in DOMAIN e |-> "write begin"]
        BY <1>4
      <4>2. e = [j \in D |-> e[j]]
        BY <1>2, <2>3
      <4> QED BY <2>4, <4>1, <4>2
    <3>3. \A j \in D : s[j] \in Stati
      BY <2>2, <3>1
    <3> QED BY <3>2, <3>3
  <2>8. Fits(i, s)
    <3>1. \/ s[k] \in Reads /\ s[l] \in Reads
          \/ s[k] \in Writes /\ s[l] \in Writes
      BY <2>6 DEF Reads, Writes
    <3>2. InPhase(s)
      BY <2>1, <2>2, <3>1 DEF InPhase
    <3> QED BY <1>5, <2>1, <3>2 DEF Fits
  <2>9. Begun(i, s) = Begun(i, s0)
    <3>1. PICK a, b, c, d : /\ a = BegunOn(i, s0[k]) /\ b = BegunOn(i, s0[l])
                            /\ c = BegunOn(i, s[k]) /\ d = BegunOn(i, s[l])
      OBVIOUS
    <3>2. a \in Int /\ b \in Int /\ c \in Int /\ d \in Int
      BY <3>1, BegunOnIs
    <3>3. a = c /\ b = d
      BY <1>5, <2>6, <3>1, BegunOnIs
    <3>4. Begun(i, s0) = BegunOn(i, s0[1]) + BegunOn(i, s0[2])
          /\ Begun(i, s) = BegunOn(i, s[1]) + BegunOn(i, s[2])
      BY <1>1, <2>1 DEF Begun
    <3>5. (k = 1 /\ l = 2) \/ (k = 2 /\ l = 1)
      <4>1. k \in 1 .. 2 /\ l \in 1 .. 2 /\ l # k
        BY <1>2, <2>1, <2>2
      <4> QED BY <4>1
    <3> QED BY <3>1, <3>2, <3>3, <3>4, <3>5
  <2>10. \A j \in D : j # k => (s[j] \in {"read", "write"} <=> s0[j] \in {"read", "write"})
    BY <2>2, <2>6
  <2>11. s[k] \notin {"read", "write"}
    BY <2>6
  <2> QED BY <1>1, <2>7, <2>8, <2>9, <2>10, <2>11
<1>6. CASE ~ Phased(i) /\ ~ IsWrite(i) /\ m \in {4, 5}
  <2>1. s0[k] = "read" /\ \A j \in D : s0[j] # "read done"
    BY <1>2, <1>6 DEF Fits
  <2>2. e = s0
    BY <1>3, <1>6, <2>1
  <2>3. s = s0
    BY <1>2, <1>4, <2>1, <2>2
  <2> QED BY <1>1, <1>2, <1>6, <2>3
<1>7. CASE ~ Phased(i) /\ (IsWrite(i) \/ m \notin {4, 5})
  <2>1. \A j \in D : s0[j] \in {"not started", "read", "write", "done"}
        /\ (IsWrite(i) => s0[j] \in {"not started", "write", "done"})
        /\ (~ IsWrite(i) => s0[j] \in {"not started", "read", "done"})
    BY <1>2, <1>7 DEF Fits
  <2>2. e = [s0 EXCEPT ![k] = "done"]
    <3>1. ~(s0[k] = "read" /\ m \in {4, 5})
      BY <1>2, <1>7, <2>1
    <3> QED BY <1>3, <3>1
  <2>3. s = e
    <3>1. DOMAIN e = D /\ e[k] = "done"
      BY <1>2, <2>2
    <3> QED BY <1>2, <1>4, <3>1
  <2>4. s \in [D -> Stati] /\ DOMAIN s = D /\ s[k] = "done" /\ \A j \in D : j # k => s[j] = s0[j]
    BY <1>2, <2>2, <2>3 DEF Stati
  <2>5. Fits(i, s)
    <3>1. OneOf(i) => Fresh(s)
      <4>1. OneOf(i) => \A j \in D : s0[j] # "not started"
        BY <1>2 DEF Fits, Fresh
      <4>2. OneOf(i) => \A j \in D : s[j] # "not started"
        BY <2>4, <4>1
      <4> QED BY <2>4, <4>2 DEF Fresh
    <3>2. IsWrite(i) => \A j \in D : s[j] \in {"not started", "write", "done"}
      BY <2>1, <2>4
    <3>3. ~ IsWrite(i) => \A j \in D : s[j] \in {"not started", "read", "done"}
      BY <2>1, <2>4
    <3>4. ~ IsWrite(i) /\ m # 1 => \A j \in D : j # 1 => s[j] = "not started"
      <4>1. ~ IsWrite(i) /\ m # 1 => m = 0
        BY <1>2, <1>7
      <4>2. m = 0 => D = 1 .. 1
        BY <1>2
      <4>3. m = 0 => \A j \in D : j = 1
        BY <4>2
      <4> QED BY <4>1, <4>3
    <3> QED BY <1>1, <1>7, <2>4, <3>1, <3>2, <3>3, <3>4 DEF Fits
  <2>6. Begun(i, s) = Begun(i, s0)
    <3>1. CASE ~ OneOf(i)
      <4>1. Begun(i, s) = Begun(i, s0) + (BegunOn(i, s[k]) - BegunOn(i, s0[k]))
        BY <1>1, <1>2, <2>4, <3>1, BegunMoves
      <4>2. BegunOn(i, s[k]) = 1 /\ BegunOn(i, s0[k]) = 1
        BY <1>7, <2>4, BegunOnIs
      <4>3. Begun(i, s0) \in Int
        BY BegunIsInt
      <4> QED BY <4>1, <4>2, <4>3
    <3>2. CASE OneOf(i)
      <4>1. \A j \in D : s0[j] # "not started"
        BY <1>2, <3>2 DEF Fits, Fresh
      <4>2. \A j \in D : s[j] # "not started"
        BY <2>4, <4>1
      <4>3. 1 \in D
        BY <1>2
      <4> QED BY <3>2, <4>1, <4>2, <4>3 DEF Begun
    <3> QED BY <3>1, <3>2
  <2> QED BY <1>1, <2>4, <2>5, <2>6
<1>8. \/ ~ Phased(i) /\ ~ IsWrite(i) /\ m \in {4, 5}
      \/ ~ Phased(i) /\ (IsWrite(i) \/ m \notin {4, 5})
      \/ Phased(i)
  BY Zenon
<1> QED BY <1>5, <1>6, <1>7, <1>8

-----------------------------------------------------------------------------
\* When all is served.

\* No more is begun than a request takes, and when as much is, every disk has its turn.
LEMMA BegunAtMost ==
    ASSUME JobOK, NEW i \in Requests, NEW s \in [DOMAIN DisksOf(i) -> Stati], Fits(i, s)
    PROVE  /\ Whole(i) \in Int /\ Begun(i, s) <= Whole(i)
           /\ Begun(i, s) = Whole(i) =>
                 IF IsWrite(i) THEN \A k \in DOMAIN s : s[k] \in {"write", "done"}
                 ELSE s[1] # "not started"
<1>1. PICK D, m : D = DOMAIN DisksOf(i) /\ m = job.mapping
  OBVIOUS
<1>2. /\ s \in [D -> Stati] /\ DOMAIN s = D /\ m \in {0, 1, 4, 5}
      /\ D = 1 .. (IF m = 0 THEN 1 ELSE 2)
  BY <1>1, TwoDisks DEF JobOK
<1>3. /\ IsWrite(i) /\ ~ Phased(i) => \A k \in D : s[k] \in {"not started", "write", "done"}
      /\ ~ IsWrite(i) /\ m # 1 => \A k \in D : k # 1 => s[k] = "not started"
      /\ OneOf(i) => Fresh(s)
  BY <1>1, <1>2 DEF Fits
<1>4. CASE OneOf(i) \/ m = 0
  <2>1. Whole(i) = 1
    BY <1>1, <1>4, Zenon DEF Whole
  <2>2. Begun(i, s) = IF s[1] = "not started" THEN 0 ELSE 1
    BY <1>1, <1>4, Zenon DEF Begun
  <2>3. ASSUME s[1] # "not started", IsWrite(i), NEW k \in D
        PROVE  s[k] \in {"write", "done"}
    <3>1. s[k] # "not started"
      <4>1. CASE OneOf(i)
        <5>1. 1 \in D
          BY <1>2
        <5> QED BY <1>2, <1>3, <2>3, <4>1, <5>1 DEF Fresh
      <4>2. CASE m = 0
        <5>1. k = 1
          BY <1>2, <4>2
        <5> QED BY <2>3, <5>1
      <4> QED BY <1>4, <4>1, <4>2
    <3>2. ~ Phased(i)
      <4>1. m = 0 => m \notin {4, 5}
        OBVIOUS
      <4> QED BY <1>1, <1>4, <2>3, <4>1, Zenon DEF Phased, OneOf
    <3> QED BY <1>3, <2>3, <3>1, <3>2
  <2>4. /\ Begun(i, s) = 0 \/ (Begun(i, s) = 1 /\ s[1] # "not started")
        /\ Whole(i) = 1
    BY <2>1, <2>2, Zenon
  <2>5. PICK b, w : b = Begun(i, s) /\ w = Whole(i)
    OBVIOUS
  <2>6. w = 1 /\ (b = 0 \/ (b = 1 /\ s[1] # "not started"))
    BY <2>4, <2>5, Zenon
  <2>7. w = 1 /\ (b = 0 \/ b = 1)
    BY <2>6, Zenon
  <2>8. w \in Int /\ b <= w /\ (b = w => b # 0)
    BY <2>7
  <2> QED BY <1>2, <2>3, <2>5, <2>6, <2>8, Zenon
<1>5. CASE ~ OneOf(i) /\ m # 0
  <2>1. D = 1 .. 2 /\ 1 \in D /\ 2 \in D /\ \A k \in D : k = 1 \/ k = 2
    BY <1>2, <1>5
  <2>2. PICK x, y : x = BegunOn(i, s[1]) /\ y = BegunOn(i, s[2])
    OBVIOUS
  <2>3. Begun(i, s) = x + y
    BY <1>1, <1>5, <2>2, Zenon DEF Begun
  <2>4. x \in Int /\ y \in Int
    BY <2>2, BegunOnIs, Zenon
  <2>5. CASE ~ IsWrite(i)
    <3>1. Whole(i) = 1
      BY <2>5, Zenon DEF Whole
    <3>2. m # 1 /\ ~ Phased(i)
      BY <1>1, <1>5, <2>5, Zenon DEF OneOf, Phased
    <3>3. 2 # 1
      OBVIOUS
    <3>4. y = 0
      BY <1>3, <2>1, <2>2, <2>5, <3>2, <3>3, BegunOnIs, Zenon
    <3>5. (x = 0 /\ s[1] = "not started") \/ (x = 1 /\ s[1] # "not started")
      BY <2>2, <3>2, BegunOnIs, Zenon
    <3>6. PICK b, w : b = Begun(i, s) /\ w = Whole(i)
      OBVIOUS
    <3>7. w = 1 /\ b = x + y
      BY <2>3, <3>1, <3>6, Zenon
    <3>8. x = 0 \/ x = 1
      BY <3>5, Zenon
    <3>9. w \in Int /\ b <= w /\ (b = w => x # 0)
      BY <3>4, <3>7, <3>8
    <3> QED BY <2>5, <3>5, <3>6, <3>9, Zenon
  <2>6. CASE IsWrite(i) /\ Phased(i)
    <3>1. Whole(i) = 4
      BY <1>1, <1>5, <2>6, Zenon DEF Whole
    <3>2. ASSUME NEW k \in D
          PROVE  (BegunOn(i, s[k]) = 2 /\ s[k] \in {"write", "done"})
                 \/ BegunOn(i, s[k]) = 0 \/ BegunOn(i, s[k]) = 1
      <4>1. s[k] \in {"write", "done"} \/ s[k] = "not started"
            \/ s[k] \in {"read", "read done", "write begin"}
        BY <1>2 DEF Stati
      <4> QED BY <2>6, <4>1, BegunOnIs, Zenon
    <3>3. /\ (x = 2 /\ s[1] \in {"write", "done"}) \/ x = 0 \/ x = 1
          /\ (y = 2 /\ s[2] \in {"write", "done"}) \/ y = 0 \/ y = 1
      BY <2>1, <2>2, <3>2, Zenon
    <3>4. x + y <= 4 /\ (x + y = 4 => s[1] \in {"write", "done"} /\ s[2] \in {"write", "done"})
      BY <3>3
    <3> QED BY <1>2, <2>1, <2>3, <2>6, <3>1, <3>4
  <2>7. CASE IsWrite(i) /\ ~ Phased(i)
    <3>1. Whole(i) = 2
      BY <1>1, <1>5, <2>7, Zenon DEF Whole
    <3>2. ASSUME NEW k \in D
          PROVE  (BegunOn(i, s[k]) = 1 /\ s[k] \in {"write", "done"}) \/ BegunOn(i, s[k]) = 0
      <4>1. s[k] = "not started" \/ (s[k] # "not started" /\ s[k] \in {"write", "done"})
        BY <1>3, <2>7
      <4> QED BY <2>7, <4>1, BegunOnIs, Zenon
    <3>3. /\ (x = 1 /\ s[1] \in {"write", "done"}) \/ x = 0
          /\ (y = 1 /\ s[2] \in {"write", "done"}) \/ y = 0
      BY <2>1, <2>2, <3>2, Zenon
    <3>4. x + y <= 2 /\ (x + y = 2 => s[1] \in {"write", "done"} /\ s[2] \in {"write", "done"})
      BY <3>3
    <3> QED BY <1>2, <2>1, <2>3, <2>7, <3>1, <3>4
  <2> QED BY <2>5, <2>6, <2>7
<1> QED BY <1>4, <1>5

\* The count that the program waits for, as the fold it is.
NeededIOs(i) == IF ~ IsWrite(i) \/ job.mapping = 0 THEN 1 ELSE IF job.mapping = 1 THEN 2 ELSE 4
NeededLess(i) == IF FullStripe(i) /\ WithParity(i) THEN 8 ELSE 0
NeededStep(v, i) == v + NeededIOs(i) - NeededLess(i)

IsNeeded(g, base, p, D) ==
    g = [s \in SUBSET D |-> IF s = {} THEN base ELSE NeededStep(g[s \ {Max(s)}], p[Max(s)])]

LEMMA NeededIsAFold ==
    request_count_needed =
        (CHOOSE g : IsNeeded(g, 0, [i \in DOMAIN job.queue |-> i],
                             DOMAIN [i \in DOMAIN job.queue |-> i]))
            [DOMAIN [i \in DOMAIN job.queue |-> i]]
BY Zenon DEF request_count_needed, FoldLeftDomain, FoldLeft, MapThenFoldSet, IsNeeded, NeededStep,
             NeededIOs, NeededLess

\* How far the count for the first k requests is above what they take: for a part of a
\* full stripe it counts the reads of a small write, and takes them back at its end.
Above(k) ==
    IF k = 0 THEN 0
    ELSE IF ~ FullStripe(k) \/ WithParity(k) THEN 0
    ELSE IF k = FirstOfThree(k) THEN 3 ELSE 6

\* Where a request is among its three.
LEMMA Thirds ==
    ASSUME NEW k \in Nat, k # 0
    PROVE  \/ k = FirstOfThree(k) /\ (k = 1 \/ k - 1 = FirstOfThree(k - 1) + 2)
           \/ k = FirstOfThree(k) + 1 /\ FirstOfThree(k - 1) = FirstOfThree(k)
           \/ k = FirstOfThree(k) + 2 /\ FirstOfThree(k - 1) = FirstOfThree(k)
<1>1. PICK q : q = (k - 1) \div 3
  OBVIOUS
<1>2. q \in Int /\ 3 * q <= k - 1 /\ k - 1 < 3 * q + 3
  BY <1>1
<1>3. FirstOfThree(k) = 3 * q + 1
  BY <1>1, <1>2 DEF FirstOfThree
<1>4. CASE k = 3 * q + 1
  <2>1. k # 1 => (k - 2) \div 3 = q - 1
    BY <1>2, <1>4
  <2>2. k # 1 => FirstOfThree(k - 1) = 3 * (q - 1) + 1
    BY <1>2, <2>1 DEF FirstOfThree
  <2> QED BY <1>2, <1>3, <1>4, <2>2
<1>5. CASE k = 3 * q + 2 \/ k = 3 * q + 3
  <2>1. (k - 2) \div 3 = q
    BY <1>2, <1>5
  <2>2. FirstOfThree(k - 1) = 3 * q + 1
    BY <1>2, <2>1 DEF FirstOfThree
  <2> QED BY <1>2, <1>3, <1>5, <2>2
<1> QED BY <1>2, <1>4, <1>5

\* The count and what the request takes, one request on.
LEMMA NeededTerm ==
    ASSUME JobOK, StripesWritten, NEW k \in Requests
    PROVE  /\ Above(k) - Above(k - 1) = NeededIOs(k) - NeededLess(k) - Whole(k)
           /\ Whole(k) \in Int
<1>1. k \in Nat /\ k # 0 /\ k - 1 \in Nat
  BY DEF JobOK, Requests
<1>2. PICK f : f = FirstOfThree(k)
  OBVIOUS
<1>3. f \in Int
  BY <1>1, <1>2 DEF FirstOfThree
<1>4. \/ k = f /\ (k = 1 \/ k - 1 = FirstOfThree(k - 1) + 2)
      \/ k = f + 1 /\ FirstOfThree(k - 1) = f
      \/ k = f + 2 /\ FirstOfThree(k - 1) = f
  BY <1>1, <1>2, Thirds
<1>5. WithParity(k) <=> k = f + 2
  BY <1>2 DEF WithParity
<1>6. k # f => (FullStripe(k - 1) <=> FullStripe(k))
  <2>1. k # f => FirstOfThree(k - 1) = FirstOfThree(k)
    BY <1>2, <1>4
  <2> QED BY <2>1 DEF FullStripe
<1>7. /\ NeededIOs(k) \in Int
      /\ IsWrite(k) => NeededIOs(k) = (IF job.mapping = 0 THEN 1 ELSE IF job.mapping = 1 THEN 2 ELSE 4)
      /\ ~ IsWrite(k) => NeededIOs(k) = 1
  BY DEF NeededIOs
<1>8. CASE FullStripe(k)
  <2>1. IsWrite(k) /\ job.mapping = 4
    <3>1. job.mapping = 4
      BY <1>8 DEF FullStripe
    <3> QED BY <1>8, <3>1 DEF StripesWritten
  <2>2. NeededIOs(k) = 4
    BY <1>7, <2>1
  <2>3. NeededLess(k) = (IF k = f + 2 THEN 8 ELSE 0)
    BY <1>5, <1>8, Zenon DEF NeededLess
  <2>4. Whole(k) = (IF k = f + 2 THEN 2 ELSE 1)
    <3>1. ~ Phased(k) /\ (OneOf(k) <=> k # f + 2)
      BY <1>5, <1>8, <2>1, Zenon DEF Phased, OneOf
    <3>2. job.mapping # 0
      BY <2>1
    <3> QED BY <2>1, <3>1, <3>2, Zenon DEF Whole
  <2>5. Above(k) = (IF k = f + 2 THEN 0 ELSE IF k = f THEN 3 ELSE 6)
    BY <1>1, <1>2, <1>5, <1>8, Zenon DEF Above
  <2>6. Above(k - 1) = (IF k = f THEN 0 ELSE IF k = f + 1 THEN 3 ELSE 6)
    <3>1. CASE k = f
      <4>1. k - 1 = 0 \/ WithParity(k - 1)
        BY <1>1, <1>4, <3>1 DEF WithParity
      <4> QED BY <3>1, <4>1, Zenon DEF Above
    <3>2. CASE k # f
      <4>0. /\ FirstOfThree(k - 1) = f /\ f \in Nat /\ f # 0 /\ FullStripe(k - 1)
            /\ k = f + 1 \/ k = f + 2
        BY <1>1, <1>2, <1>3, <1>4, <1>6, <1>8, <3>2 DEF FirstOfThree
      <4>4. k - 1 # 0 /\ k - 1 # f + 2
        BY <1>1, <4>0
      <4>1. FirstOfThree(k - 1) = f /\ FullStripe(k - 1) /\ k - 1 # 0 /\ ~ WithParity(k - 1)
        BY <4>0, <4>4, Zenon DEF WithParity
      <4>2. Above(k - 1) = (IF k - 1 = f THEN 3 ELSE 6)
        BY <4>1, Zenon DEF Above
      <4>3. k - 1 = f <=> k = f + 1
        BY <1>1, <1>3
      <4> QED BY <3>2, <4>2, <4>3
    <3> QED BY <3>1, <3>2
  <2>7. PICK a, b, c, d, e : /\ a = Above(k) /\ b = Above(k - 1) /\ c = NeededIOs(k)
                             /\ d = NeededLess(k) /\ e = Whole(k)
    OBVIOUS
  <2>8. a - b = c - d - e /\ e \in Int
    BY <1>1, <1>3, <1>4, <2>2, <2>3, <2>4, <2>5, <2>6, <2>7
  <2> QED BY <2>7, <2>8, Zenon
<1>9. CASE ~ FullStripe(k)
  <2>1. Above(k) = 0 /\ NeededLess(k) = 0
    BY <1>9, Zenon DEF Above, NeededLess
  <2>2. Above(k - 1) = 0
    <3>1. CASE k = f
      <4>1. k - 1 = 0 \/ WithParity(k - 1)
        BY <1>1, <1>4, <3>1 DEF WithParity
      <4> QED BY <4>1, Zenon DEF Above
    <3>2. CASE k # f
      <4>1. ~ FullStripe(k - 1)
        BY <1>6, <1>9, <3>2
      <4> QED BY <4>1, Zenon DEF Above
    <3> QED BY <3>1, <3>2
  <2>3. Whole(k) = NeededIOs(k)
    <3>1. CASE ~ IsWrite(k) \/ job.mapping = 0
      BY <3>1, Zenon DEF Whole, NeededIOs
    <3>2. CASE IsWrite(k) /\ job.mapping # 0
      <4>1. job.mapping \in {4, 5} <=> job.mapping # 1
        BY <3>2 DEF JobOK
      <4>2. ~ OneOf(k) /\ (Phased(k) <=> job.mapping # 1)
        BY <1>9, <3>2, <4>1, Zenon DEF OneOf, Phased
      <4> QED BY <3>2, <4>2, Zenon DEF Whole, NeededIOs
    <3> QED BY <3>1, <3>2
  <2>4. PICK a, b, c, d, e : /\ a = Above(k) /\ b = Above(k - 1) /\ c = NeededIOs(k)
                             /\ d = NeededLess(k) /\ e = Whole(k)
    OBVIOUS
  <2>5. a - b = c - d - e /\ e \in Int
    BY <1>7, <2>1, <2>2, <2>3, <2>4
  <2> QED BY <2>4, <2>5, Zenon
<1> QED BY <1>8, <1>9

\* What the program waits for is what the requests take.
LEMMA NeededIs ==
    ASSUME JobOK, StripesWritten, NEW n, n = Len(job.queue)
    PROVE  \E U : IsSum(U, [i \in Requests |-> Whole(i)], n) /\ U[n] = request_count_needed
<1>1. n \in Nat /\ Requests = 1 .. n /\ DOMAIN job.queue = 1 .. n
  BY DEF JobOK, Requests
<1>2. PICK p : p = [i \in DOMAIN job.queue |-> i]
  OBVIOUS
<1>3. DOMAIN p = 1 .. n /\ \A k \in 1 .. n : p[k] = k
  BY <1>1, <1>2
<1>4. \A i : NeededIOs(i) \in Int /\ NeededLess(i) \in Int
  BY DEF NeededIOs, NeededLess
<1>5. \A v \in Int : \A i : NeededStep(v, i) \in Int
  BY <1>4 DEF NeededStep
<1>6. PICK step : step = [x \in Int \X (1 .. n) |-> NeededStep(x[1], x[2])]
  OBVIOUS
<1>7. /\ step \in [Int \X (1 .. n) -> Int]
      /\ \A v \in Int : \A i \in 1 .. n : step[<<v, i>>] = NeededStep(v, i)
  <2>1. \A x \in Int \X (1 .. n) : NeededStep(x[1], x[2]) \in Int
    BY <1>5
  <2>2. ASSUME NEW v \in Int, NEW i \in 1 .. n
        PROVE  step[<<v, i>>] = NeededStep(v, i)
    <3>1. <<v, i>> \in Int \X (1 .. n) /\ <<v, i>>[1] = v /\ <<v, i>>[2] = i
      OBVIOUS
    <3> QED BY <1>6, <3>1
  <2> QED BY <1>6, <2>1, <2>2
<1>8. PICK g \in [SUBSET (1 .. n) -> Int] : Takes(g, n, 0, p, step)
  <2>1. PICK S, T : S = Int /\ T = 1 .. n
    OBVIOUS
  <2>2. 0 \in S /\ step \in [S \X T -> S] /\ n \in Nat /\ \A k \in 1 .. n : p[k] \in T
    BY <1>1, <1>3, <1>7, <2>1
  <2>3. \E g \in [SUBSET (1 .. n) -> S] : Takes(g, n, 0, p, step)
    BY <2>2, StepsExist
  <2> QED BY <2>1, <2>3
<1>9. IsNeeded(g, 0, p, 1 .. n)
  <2>1. ASSUME NEW s \in SUBSET (1 .. n)
        PROVE  g[s] = IF s = {} THEN 0 ELSE NeededStep(g[s \ {Max(s)}], p[Max(s)])
    <3>1. CASE s = {}
      BY <1>8, <3>1 DEF Takes
    <3>2. CASE s # {}
      <4>1. Max(s) \in s
        BY <1>1, <3>2, LastPlace
      <4>2. g[s \ {Max(s)}] \in Int /\ p[Max(s)] \in 1 .. n
        BY <1>3, <1>8, <4>1
      <4>3. g[s] = step[<<g[s \ {Max(s)}], p[Max(s)]>>]
        BY <1>8, <3>2 DEF Takes
      <4> QED BY <1>7, <3>2, <4>2, <4>3
    <3> QED BY <3>1, <3>2
  <2> QED BY <1>8, <2>1 DEF IsNeeded
<1>10. PICK h : h = (CHOOSE f : IsNeeded(f, 0, p, 1 .. n))
  OBVIOUS
<1>11. IsNeeded(h, 0, p, 1 .. n) /\ request_count_needed = h[1 .. n]
  <2>1. IsNeeded(h, 0, p, 1 .. n)
    BY <1>9, <1>10
  <2>2. request_count_needed = (CHOOSE f : IsNeeded(f, 0, p, DOMAIN p))[DOMAIN p]
    BY <1>2, NeededIsAFold
  <2> QED BY <1>3, <1>10, <2>1, <2>2
<1>12. h[{}] = 0 /\ \A k \in 1 .. n : h[1 .. k] = NeededStep(h[1 .. k - 1], k)
  <2>1. h[{}] = 0
    BY <1>11 DEF IsNeeded
  <2>2. ASSUME NEW k \in 1 .. n
        PROVE  h[1 .. k] = NeededStep(h[1 .. k - 1], k)
    <3>1. /\ 1 .. k \in SUBSET (1 .. n) /\ 1 .. k # {} /\ Max(1 .. k) = k
          /\ (1 .. k) \ {Max(1 .. k)} = 1 .. k - 1
      BY <1>1, FirstPlaces
    <3>2. h[1 .. k] = IF 1 .. k = {} THEN 0
                      ELSE NeededStep(h[(1 .. k) \ {Max(1 .. k)}], p[Max(1 .. k)])
      BY <1>11, <3>1 DEF IsNeeded
    <3> QED BY <1>3, <3>1, <3>2
  <2> QED BY <2>1, <2>2
<1>13. \A k \in 0 .. n : h[1 .. k] \in Int
  <2> SUFFICES ASSUME NEW l \in 0 .. n
               PROVE  h[1 .. l] \in Int
    OBVIOUS
  <2>1. \A k \in 1 .. l : h[1 .. k - 1] \in Int => h[1 .. k] \in Int
    <3>1. \A k \in 1 .. l : k \in 1 .. n
      OBVIOUS
    <3> QED BY <1>5, <1>12, <3>1
  <2>2. PICK S : S = Int
    OBVIOUS
  <2>3. l \in Nat /\ h[{}] \in S /\ \A k \in 1 .. l : h[1 .. k - 1] \in S => h[1 .. k] \in S
    BY <1>12, <2>1, <2>2
  <2>4. h[1 .. l] \in S
    BY <2>3, StepsStay
  <2> QED BY <2>2, <2>4
<1>14. PICK U : U = [k \in 0 .. n |-> h[1 .. k] - Above(k)]
  OBVIOUS
<1>15. \A k : Above(k) \in Int
  BY DEF Above
<1>16. U \in [0 .. n -> Int] /\ U[0] = 0
  <2>1. 1 .. 0 = {} /\ 0 \in 0 .. n /\ Above(0) = 0
    BY <1>1 DEF Above
  <2> QED BY <1>12, <1>13, <1>14, <1>15, <2>1
<1>17. ASSUME NEW k \in 1 .. n
       PROVE  U[k] = U[k - 1] + Whole(k)
  <2>1. k \in 0 .. n /\ k - 1 \in 0 .. n
    OBVIOUS
  <2>2. PICK x, y, a, b : x = h[1 .. k - 1] /\ y = h[1 .. k] /\ a = Above(k - 1) /\ b = Above(k)
    OBVIOUS
  <2>3. x \in Int /\ y \in Int /\ a \in Int /\ b \in Int /\ y = x + NeededIOs(k) - NeededLess(k)
    BY <1>12, <1>13, <1>15, <2>1, <2>2 DEF NeededStep
  <2>4. b - a = NeededIOs(k) - NeededLess(k) - Whole(k) /\ Whole(k) \in Int
    BY <2>2, <1>1, NeededTerm
  <2>5. U[k - 1] = x - a /\ U[k] = y - b
    BY <1>14, <2>1, <2>2
  <2> QED BY <1>4, <2>3, <2>4, <2>5
<1>18. U[n] = request_count_needed
  <2>1. Above(n) = 0
    <3>1. CASE n # 0 /\ FullStripe(n)
      <4>1. FirstOfThree(n) + 2 \in 1 .. n
        BY <1>1, <3>1 DEF FullStripe
      <4>2. n = FirstOfThree(n) \/ n = FirstOfThree(n) + 1 \/ n = FirstOfThree(n) + 2
        BY <1>1, <3>1, Thirds
      <4>3. PICK f : f = FirstOfThree(n)
        OBVIOUS
      <4>4. f \in Int
        BY <1>1, <4>3 DEF FirstOfThree
      <4>5. n = f + 2
        BY <1>1, <4>1, <4>2, <4>3, <4>4
      <4>6. WithParity(n)
        BY <4>3, <4>5, Zenon DEF WithParity
      <4> QED BY <4>6, Zenon DEF Above
    <3>2. CASE ~(n # 0 /\ FullStripe(n))
      BY <3>2, Zenon DEF Above
    <3> QED BY <3>1, <3>2
  <2>2. n \in 0 .. n /\ h[1 .. n] \in Int
    BY <1>1, <1>13
  <2> QED BY <1>11, <1>14, <2>1, <2>2
<1>19. IsSum(U, [i \in Requests |-> Whole(i)], n)
  BY <1>1, <1>16, <1>17 DEF IsSum
<1> QED BY <1>18, <1>19

\* A request is served.
Served(i, s) ==
    IF IsWrite(i) THEN \A k \in DOMAIN s : s[k] = "done" ELSE s[1] # "not started"

\* No arm works when the number of arms that work is zero.
LEMMA NoneBusy ==
    ASSUME NEW a
    PROVE  /\ Busy(a) \in Nat
           /\ Busy(a) = 0 => \A d \in Disks : a[d].state = "null"
<1>1. PICK x0, x1, x2, x3 :
          x0 = Load(a[0]) /\ x1 = Load(a[1]) /\ x2 = Load(a[2]) /\ x3 = Load(a[3])
  OBVIOUS
<1>2. x0 \in {0, 1} /\ x1 \in {0, 1} /\ x2 \in {0, 1} /\ x3 \in {0, 1}
  BY <1>1 DEF Load
<1>3. Busy(a) = x0 + x1 + x2 + x3
  BY <1>1 DEF Busy
<1>4. Busy(a) \in Nat /\ (Busy(a) = 0 => x0 = 0 /\ x1 = 0 /\ x2 = 0 /\ x3 = 0)
  BY <1>2, <1>3
<1>5. \A arm : Load(arm) = 0 => arm.state = "null"
  <2>1. 1 # 0
    OBVIOUS
  <2> QED BY <2>1, Zenon DEF Load
<1>6. \A d \in Disks : d = 0 \/ d = 1 \/ d = 2 \/ d = 3
  BY DEF Disks, disk_count
<1> QED BY <1>1, <1>4, <1>5, <1>6, Zenon

\* When the count is what the program waits for, no arm works and all is served.
LEMMA AllServed ==
    ASSUME JobOK, StripesWritten, NEW st \in Right, st.request_count = request_count_needed
    PROVE  /\ \A d \in Disks : st.arms[d].state = "null"
           /\ \A i \in Requests : Served(i, st.status[i])
<1>1. PICK n, w, a : n = Len(job.queue) /\ w = st.status /\ a = st.arms
  OBVIOUS
<1>2. n \in Nat /\ Requests = 1 .. n
  BY <1>1 DEF JobOK, Requests
<1>3. PICK f, g : f = AllBegun(w) /\ g = [i \in Requests |-> Whole(i)]
  OBVIOUS
<1>4. \A i \in Requests : f[i] = Begun(i, w[i]) /\ g[i] = Whole(i)
  BY <1>3 DEF AllBegun
<1>5. ASSUME NEW i \in Requests
      PROVE  /\ w[i] \in [DOMAIN DisksOf(i) -> Stati]
             /\ Whole(i) \in Int /\ Begun(i, w[i]) \in Int /\ Begun(i, w[i]) <= Whole(i)
             /\ Begun(i, w[i]) = Whole(i) =>
                   IF IsWrite(i) THEN \A k \in DOMAIN w[i] : w[i][k] \in {"write", "done"}
                   ELSE w[i][1] # "not started"
  <2>1. PICK s : s = w[i]
    OBVIOUS
  <2>2. s \in [DOMAIN DisksOf(i) -> Stati] /\ Fits(i, s)
    BY <1>1, <2>1, StatusIs DEF Right
  <2>3. /\ Whole(i) \in Int /\ Begun(i, s) <= Whole(i)
        /\ Begun(i, s) = Whole(i) =>
              IF IsWrite(i) THEN \A k \in DOMAIN s : s[k] \in {"write", "done"}
              ELSE s[1] # "not started"
    BY <2>2, BegunAtMost
  <2> QED BY <2>1, <2>2, <2>3, BegunIsInt, Zenon
<1>6. AtMost(f, g, n)
  BY <1>2, <1>4, <1>5 DEF AtMost
<1>7. PICK T : IsSum(T, f, n) /\ st.request_count + Busy(a) = T[n]
  BY <1>1, <1>3 DEF Right, Counted
<1>8. PICK U : IsSum(U, g, n) /\ U[n] = request_count_needed
  BY <1>1, <1>3, NeededIs
<1>9. /\ T[n] \in Int /\ U[n] \in Int /\ T[n] <= U[n]
      /\ T[n] = U[n] => Equal(f, g, n)
  <2>1. n \in Nat /\ IsSum(T, f, n) /\ IsSum(U, g, n)
    BY <1>2, <1>7, <1>8
  <2> QED BY <1>6, <2>1, SumsCompare
<1>10. Busy(a) = 0 /\ T[n] = U[n]
  <2>1. PICK x, y, z : x = Busy(a) /\ y = T[n] /\ z = U[n]
    OBVIOUS
  <2>2. x \in Nat /\ y \in Int /\ z \in Int /\ y <= z /\ z + x = y
    BY <1>7, <1>8, <1>9, <2>1, NoneBusy
  <2>3. x = 0 /\ y = z
    BY <2>2
  <2> QED BY <2>1, <2>3
<1>11. \A d \in Disks : a[d].state = "null"
  BY <1>10, NoneBusy, Zenon
<1>12. ASSUME NEW i \in Requests
       PROVE  Served(i, w[i])
  <2>1. Begun(i, w[i]) = Whole(i)
    BY <1>2, <1>4, <1>9, <1>10 DEF Equal
  <2>2. CASE ~ IsWrite(i)
    BY <1>5, <2>1, <2>2, Zenon DEF Served
  <2>3. ASSUME IsWrite(i), NEW k \in DOMAIN w[i]
        PROVE  w[i][k] = "done"
    <3>1. w[i][k] \in {"write", "done"} /\ k \in DOMAIN DisksOf(i)
      BY <1>5, <2>1, <2>3
    <3>2. DisksOf(i)[k] \in Disks
      <4>1. PICK q : q = DisksOf(i)
        OBVIOUS
      <4>2. q \in Seq(Disks) /\ k \in DOMAIN q
        BY <3>1, <4>1, TwoDisks
      <4> QED BY <4>1, <4>2
    <3>3. WorkedFor(st, i)
      BY DEF Right
    <3>4. w[i][k] # "write"
      BY <1>1, <1>11, <2>3, <3>1, <3>2, <3>3 DEF WorkedFor
    <3> QED BY <3>1, <3>4
  <2> QED BY <2>2, <2>3, Zenon DEF Served
<1> QED BY <1>1, <1>11, <1>12

-----------------------------------------------------------------------------
\* A look of the scheduler at one request keeps what is right.
LEMMA LookKeeps ==
    ASSUME JobOK, NEW st \in Right, NEW d \in Disks, NEW i \in Requests
    PROVE  Look(st, d, i) \in Right
<1>1. PICK k : k = SelectInSeq(DisksOf(i), LAMBDA e : e = d)
  OBVIOUS
<1>2. k # 0 => k \in DOMAIN DisksOf(i) /\ DisksOf(i)[k] = d
  BY <1>1, PlaceOf
<1>3. PICK s0, s : s0 = st.status[i] /\ s = Scheduled(i, k, s0)
  OBVIOUS
<1>4. PICK a : a = st.arms[d]
  OBVIOUS
<1>5. PICK t : t = [st EXCEPT !.status[i] = s, !.arms[d] = SetOut(@, i)]
  OBVIOUS
<1>6. Look(st, d, i) = IF a.state # "null" \/ k = 0 THEN st ELSE IF s = s0 THEN st ELSE t
  BY <1>1, <1>3, <1>4, <1>5 DEF Look
<1>7. CASE a.state # "null" \/ k = 0 \/ s = s0
  BY <1>6, <1>7
<1>8. CASE a.state = "null" /\ k # 0 /\ s # s0
  <2>1. s0 \in [DOMAIN DisksOf(i) -> Stati] /\ Fits(i, s0)
    BY <1>3, StatusIs DEF Right
  <2>2. /\ s \in [DOMAIN DisksOf(i) -> Stati] /\ s[k] \in {"read", "write"}
        /\ Fits(i, s)
        /\ Begun(i, s) = Begun(i, s0) + 1
        /\ \A j \in DOMAIN DisksOf(i) :
              j # k => (s[j] \in {"read", "write"} <=> s0[j] \in {"read", "write"})
    BY <1>2, <1>3, <1>8, <2>1, ScheduledIs
  <2>3. st \in States
    BY DEF Right
  <2>4. a \in Arm
    BY <1>4, <2>3 DEF States
  <2>5. PICK arm : arm = SetOut(a, i)
    OBVIOUS
  <2>6. arm \in Arm /\ arm.request = i /\ arm.state = "seek"
    <3>1. PICK dl : dl = IF a.y < 20 * OffsetOf(i) THEN job.seek_speed ELSE - job.seek_speed
      OBVIOUS
    <3>2. dl \in Int
      BY <3>1 DEF JobOK
    <3>3. arm = [a EXCEPT !.state = "seek", !.last = a.request, !.request = i, !.delta = dl]
      BY <2>5, <3>1 DEF SetOut
    <3>4. PICK R : R = Requests
      OBVIOUS
    <3>5. /\ i \in R
          /\ a \in [state : {"null", "seek", "xfer"}, y : Int, delta : Int, request : R \cup {0},
                    last : R \cup {0}, transfer_count : Int]
      BY <2>4, <3>4 DEF Arm
    <3>6. /\ arm \in [state : {"null", "seek", "xfer"}, y : Int, delta : Int, request : R \cup {0},
                      last : R \cup {0}, transfer_count : Int]
          /\ arm.request = i /\ arm.state = "seek"
      BY <3>2, <3>3, <3>5
    <3> QED BY <3>4, <3>6 DEF Arm
  <2>7. /\ st.window \in Nat \cup {-1} /\ st.request_count \in Int
        /\ st.do_animate \in BOOLEAN /\ st.is_done \in BOOLEAN
    BY <2>3 DEF States
  <2>8. t = [window |-> st.window, status |-> [st.status EXCEPT ![i] = s],
             arms |-> [st.arms EXCEPT ![d] = arm], request_count |-> st.request_count,
             do_animate |-> st.do_animate, is_done |-> st.is_done]
    BY <1>4, <1>5, <2>3, <2>5 DEF States
  <2>9. st.request_count + Load(arm) - Begun(i, s)
            = st.request_count + Load(st.arms[d]) - Begun(i, st.status[i])
    <3>1. Load(arm) = 1 /\ Load(a) = 0
      BY <1>8, <2>6 DEF Load
    <3>2. PICK b0, b, rc : b0 = Begun(i, s0) /\ b = Begun(i, s) /\ rc = st.request_count
      OBVIOUS
    <3>3. b0 \in Int /\ b = b0 + 1 /\ rc \in Int
      BY <2>2, <2>7, <3>2, BegunIsInt, Zenon
    <3>4. rc + 1 - b = rc + 0 - b0
      BY <3>3
    <3> QED BY <1>3, <1>4, <3>1, <3>2, <3>4, Zenon
  <2>10. StripesWritten /\ st.is_done => st.request_count = request_count_needed
    BY DEF Right, DoneWhenCounted
  <2>11. /\ arm.state # "null" /\ arm.request = i
         /\ st.arms[d].state = "null"
         /\ \A j \in DOMAIN DisksOf(i) :
                j # k => (s[j] \in {"read", "write"} <=> st.status[i][j] \in {"read", "write"})
    BY <1>3, <1>4, <1>8, <2>2, <2>6
  <2>12. t \in Right
    BY <1>2, <1>8, <2>2, <2>6, <2>7, <2>8, <2>9, <2>10, <2>11, OneChange
  <2> QED BY <1>6, <1>8, <2>12
<1> QED BY <1>7, <1>8

-----------------------------------------------------------------------------
\* The loops over the requests and over the disks, as folds: what comes of the steps
\* at some places, the last of them taken last.
LookOnce(v, d, i) == CHOOSE r \in {Look(u, d, i) : u \in {v}} : TRUE

IsLooks(g, base, d, p, D) ==
    g = [s \in SUBSET D |-> IF s = {} THEN base ELSE LookOnce(g[s \ {Max(s)}], d, p[Max(s)])]

Looked(v, d, n) ==
    (CHOOSE g : IsLooks(g, v, d, [i \in 1 .. n |-> i], DOMAIN [i \in 1 .. n |-> i]))
        [DOMAIN [i \in 1 .. n |-> i]]

LookedOnce(v, d, n) == CHOOSE r \in {Looked(u, d, n) : u \in {v}} : TRUE

IsScan(g, base, n, p, D) ==
    g = [s \in SUBSET D |-> IF s = {} THEN base ELSE LookedOnce(g[s \ {Max(s)}], p[Max(s)], n)]

Scanned(v, n) ==
    (CHOOSE g : IsScan(g, v, n, <<0, 1, 2, 3>>, DOMAIN <<0, 1, 2, 3>>))[DOMAIN <<0, 1, 2, 3>>]

AnimatedOnce(v, d) == CHOOSE r \in {AnimateDisk(u, d) : u \in {v}} : TRUE

IsTick(g, base, p, D) ==
    g = [s \in SUBSET D |-> IF s = {} THEN base ELSE AnimatedOnce(g[s \ {Max(s)}], p[Max(s)])]

Ticked(v) ==
    (CHOOSE g : IsTick(g, v, <<0, 1, 2, 3>>, DOMAIN <<0, 1, 2, 3>>))[DOMAIN <<0, 1, 2, 3>>]

\* How far the scheduler looks.
Seen(st) == IF st.window = -1 \/ st.window > Len(job.queue) THEN Len(job.queue) ELSE st.window

\* GetNextIOs and the loop of Animate over the disks are what is said here to be folds.
LEMMA LoopsAreFolds ==
    ASSUME NEW st
    PROVE  /\ GetNextIOs(st) = IF st.request_count = request_count_needed
                               THEN [st EXCEPT !.do_animate = FALSE, !.is_done = TRUE]
                               ELSE Scanned(st, Seen(st))
           /\ Animated(st) = IF st.do_animate THEN Ticked(st) ELSE st
<1>1. GetNextIOs(st) = IF st.request_count = request_count_needed
                       THEN [st EXCEPT !.do_animate = FALSE, !.is_done = TRUE]
                       ELSE Scanned(st, Seen(st))
  BY Zenon DEF GetNextIOs, ForEach, FoldLeft, MapThenFoldSet, Scanned, IsScan, LookedOnce, Looked,
         IsLooks, LookOnce, Seen
<1>2. Animated(st) = IF st.do_animate THEN Ticked(st) ELSE st
  BY Zenon DEF Animated, ForEach, FoldLeft, MapThenFoldSet, Ticked, IsTick, AnimatedOnce
<1> QED BY <1>1, <1>2

\* The scheduler's look at the first requests for one disk.
LEMMA LooksKeep ==
    ASSUME JobOK, NEW v \in Right, NEW d \in Disks, NEW n \in 0 .. Len(job.queue)
    PROVE  Looked(v, d, n) \in Right
<1>1. PICK p : p = [i \in 1 .. n |-> i]
  OBVIOUS
<1>2. n \in Nat /\ DOMAIN p = 1 .. n /\ \A k \in 1 .. n : p[k] \in Requests
  <2>1. Len(job.queue) \in Nat /\ Requests = 1 .. Len(job.queue)
    BY DEF JobOK, Requests
  <2> QED BY <1>1, <2>1
<1>3. PICK step : step = [x \in Right \X Requests |-> Look(x[1], d, x[2])]
  OBVIOUS
<1>4. \A u \in Right : \A i \in Requests : step[<<u, i>>] = LookOnce(u, d, i) /\ LookOnce(u, d, i) \in Right
  <2> SUFFICES ASSUME NEW u \in Right, NEW i \in Requests
               PROVE  step[<<u, i>>] = LookOnce(u, d, i) /\ LookOnce(u, d, i) \in Right
    OBVIOUS
  <2>1. LookOnce(u, d, i) = Look(u, d, i)
    BY DEF LookOnce
  <2>2. Look(u, d, i) \in Right
    BY LookKeeps
  <2>3. <<u, i>> \in Right \X Requests
    OBVIOUS
  <2>4. step[<<u, i>>] = Look(<<u, i>>[1], d, <<u, i>>[2])
    BY <1>3, <2>3
  <2> QED BY <2>1, <2>2, <2>4
<1>5. step \in [Right \X Requests -> Right]
  <2> SUFFICES ASSUME NEW x \in Right \X Requests
               PROVE  Look(x[1], d, x[2]) \in Right
    BY <1>3
  <2>1. x[1] \in Right /\ x[2] \in Requests
    OBVIOUS
  <2> QED BY <2>1, LookKeeps
<1>6. PICK g \in [SUBSET (1 .. n) -> Right] : Takes(g, n, v, p, step)
  <2>1. PICK S, T : S = Right /\ T = Requests
    OBVIOUS
  <2>2. v \in S /\ step \in [S \X T -> S] /\ n \in Nat /\ \A k \in 1 .. n : p[k] \in T
    BY <1>2, <1>5, <2>1
  <2>3. \E g \in [SUBSET (1 .. n) -> S] : Takes(g, n, v, p, step)
    BY <2>2, StepsExist
  <2> QED BY <2>1, <2>3
<1>7. IsLooks(g, v, d, p, 1 .. n)
  <2>1. ASSUME NEW s \in SUBSET (1 .. n)
        PROVE  g[s] = IF s = {} THEN v ELSE LookOnce(g[s \ {Max(s)}], d, p[Max(s)])
    <3>1. CASE s = {}
      BY <1>6, <3>1 DEF Takes
    <3>2. CASE s # {}
      <4>1. Max(s) \in s
        BY <1>2, <3>2, LastPlace
      <4>2. g[s \ {Max(s)}] \in Right /\ p[Max(s)] \in Requests
        BY <1>2, <1>6, <4>1
      <4>3. g[s] = step[<<g[s \ {Max(s)}], p[Max(s)]>>]
        BY <1>6, <3>2 DEF Takes
      <4> QED BY <1>4, <3>2, <4>2, <4>3
    <3> QED BY <3>1, <3>2
  <2> QED BY <1>6, <2>1 DEF IsLooks
<1>8. PICK h : h = (CHOOSE f : IsLooks(f, v, d, p, 1 .. n))
  OBVIOUS
<1>9. IsLooks(h, v, d, p, 1 .. n)
  BY <1>7, <1>8
<1>10. ASSUME NEW k \in 1 .. n, h[1 .. k - 1] \in Right
       PROVE  h[1 .. k] \in Right
  <2>1. 1 .. k \in SUBSET (1 .. n) /\ 1 .. k # {} /\ Max(1 .. k) = k /\ (1 .. k) \ {Max(1 .. k)} = 1 .. k - 1
    BY <1>2, FirstPlaces
  <2>2. h[1 .. k] = LookOnce(h[1 .. k - 1], d, p[k])
    <3>1. h[1 .. k] = IF 1 .. k = {} THEN v ELSE LookOnce(h[(1 .. k) \ {Max(1 .. k)}], d, p[Max(1 .. k)])
      BY <1>9, <2>1 DEF IsLooks
    <3> QED BY <2>1, <3>1
  <2> QED BY <1>2, <1>4, <1>10, <2>2
<1>11. h[{}] \in Right
  BY <1>9 DEF IsLooks
<1>12. h[1 .. n] \in Right
  <2>1. \A k \in 1 .. n : h[1 .. k - 1] \in Right => h[1 .. k] \in Right
    BY <1>10
  <2>2. PICK S : S = Right
    OBVIOUS
  <2>3. h[{}] \in S /\ \A k \in 1 .. n : h[1 .. k - 1] \in S => h[1 .. k] \in S
    BY <1>11, <2>1, <2>2
  <2>4. h[1 .. n] \in S
    BY <1>2, <2>3, StepsStay
  <2> QED BY <2>2, <2>4
<1>13. Looked(v, d, n) = h[1 .. n]
  BY <1>1, <1>2, <1>8 DEF Looked
<1> QED BY <1>12, <1>13

\* The scheduler's look for all disks.
LEMMA ScanKeeps ==
    ASSUME JobOK, NEW v \in Right, NEW n \in 0 .. Len(job.queue)
    PROVE  Scanned(v, n) \in Right
<1>1. PICK p : p = <<0, 1, 2, 3>>
  OBVIOUS
<1>2. DOMAIN p = 1 .. 4 /\ \A k \in 1 .. 4 : p[k] \in Disks
  <2>1. DOMAIN p = 1 .. 4 /\ p[1] = 0 /\ p[2] = 1 /\ p[3] = 2 /\ p[4] = 3
    BY <1>1
  <2>2. \A k \in 1 .. 4 : k = 1 \/ k = 2 \/ k = 3 \/ k = 4
    OBVIOUS
  <2> QED BY <2>1, <2>2 DEF Disks, disk_count
<1>3. PICK step : step = [x \in Right \X Disks |-> Looked(x[1], x[2], n)]
  OBVIOUS
<1>4. \A u \in Right : \A d \in Disks : step[<<u, d>>] = LookedOnce(u, d, n) /\ LookedOnce(u, d, n) \in Right
  <2> SUFFICES ASSUME NEW u \in Right, NEW d \in Disks
               PROVE  step[<<u, d>>] = LookedOnce(u, d, n) /\ LookedOnce(u, d, n) \in Right
    OBVIOUS
  <2>1. LookedOnce(u, d, n) = Looked(u, d, n)
    BY DEF LookedOnce
  <2>2. Looked(u, d, n) \in Right
    BY LooksKeep
  <2>3. <<u, d>> \in Right \X Disks
    OBVIOUS
  <2>4. step[<<u, d>>] = Looked(<<u, d>>[1], <<u, d>>[2], n)
    BY <1>3, <2>3
  <2> QED BY <2>1, <2>2, <2>4
<1>5. step \in [Right \X Disks -> Right]
  <2> SUFFICES ASSUME NEW x \in Right \X Disks
               PROVE  Looked(x[1], x[2], n) \in Right
    BY <1>3
  <2>1. x[1] \in Right /\ x[2] \in Disks
    OBVIOUS
  <2> QED BY <2>1, LooksKeep
<1>6. PICK g \in [SUBSET (1 .. 4) -> Right] : Takes(g, 4, v, p, step)
  <2>1. PICK S, T : S = Right /\ T = Disks
    OBVIOUS
  <2>2. v \in S /\ step \in [S \X T -> S] /\ 4 \in Nat /\ \A k \in 1 .. 4 : p[k] \in T
    BY <1>2, <1>5, <2>1
  <2>3. \E g \in [SUBSET (1 .. 4) -> S] : Takes(g, 4, v, p, step)
    BY <2>2, StepsExist
  <2> QED BY <2>1, <2>3
<1>7. IsScan(g, v, n, p, 1 .. 4)
  <2>1. ASSUME NEW s \in SUBSET (1 .. 4)
        PROVE  g[s] = IF s = {} THEN v ELSE LookedOnce(g[s \ {Max(s)}], p[Max(s)], n)
    <3>1. CASE s = {}
      BY <1>6, <3>1 DEF Takes
    <3>2. CASE s # {}
      <4>1. Max(s) \in s
        BY <3>2, LastPlace
      <4>2. g[s \ {Max(s)}] \in Right /\ p[Max(s)] \in Disks
        BY <1>2, <1>6, <4>1
      <4>3. g[s] = step[<<g[s \ {Max(s)}], p[Max(s)]>>]
        BY <1>6, <3>2 DEF Takes
      <4> QED BY <1>4, <3>2, <4>2, <4>3
    <3> QED BY <3>1, <3>2
  <2> QED BY <1>6, <2>1 DEF IsScan
<1>8. PICK h : h = (CHOOSE f : IsScan(f, v, n, p, 1 .. 4))
  OBVIOUS
<1>9. IsScan(h, v, n, p, 1 .. 4)
  BY <1>7, <1>8
<1>10. ASSUME NEW k \in 1 .. 4, h[1 .. k - 1] \in Right
       PROVE  h[1 .. k] \in Right
  <2>1. 1 .. k \in SUBSET (1 .. 4) /\ 1 .. k # {} /\ Max(1 .. k) = k /\ (1 .. k) \ {Max(1 .. k)} = 1 .. k - 1
    <3>1. 4 \in Nat
      OBVIOUS
    <3> QED BY <3>1, FirstPlaces
  <2>2. h[1 .. k] = LookedOnce(h[1 .. k - 1], p[k], n)
    <3>1. h[1 .. k] = IF 1 .. k = {} THEN v ELSE LookedOnce(h[(1 .. k) \ {Max(1 .. k)}], p[Max(1 .. k)], n)
      BY <1>9, <2>1 DEF IsScan
    <3> QED BY <2>1, <3>1
  <2> QED BY <1>2, <1>4, <1>10, <2>2
<1>11. h[{}] \in Right
  BY <1>9 DEF IsScan
<1>12. h[1 .. 4] \in Right
  <2>1. \A k \in 1 .. 4 : h[1 .. k - 1] \in Right => h[1 .. k] \in Right
    BY <1>10
  <2>2. PICK S : S = Right
    OBVIOUS
  <2>3. h[{}] \in S /\ \A k \in 1 .. 4 : h[1 .. k - 1] \in S => h[1 .. k] \in S
    BY <1>11, <2>1, <2>2
  <2>4. h[1 .. 4] \in S
    BY <2>3, StepsStay
  <2> QED BY <2>2, <2>4
<1>13. Scanned(v, n) = h[1 .. 4]
  BY <1>1, <1>2, <1>8 DEF Scanned
<1> QED BY <1>12, <1>13

\* What is right is about the requests, the arms and the count.
LEMMA RestChanges ==
    ASSUME NEW st \in Right, NEW t \in States, t.status = st.status, t.arms = st.arms,
           t.request_count = st.request_count, DoneWhenCounted(t)
    PROVE  t \in Right
<1>1. /\ \A i \in Requests : DOMAIN t.status[i] = DOMAIN DisksOf(i)
      /\ \A i \in Requests : Fits(i, t.status[i])
  BY DEF Right
<1>2. \A d \in Disks : AtWork(t, d)
  BY DEF Right, AtWork
<1>3. \A i \in Requests : WorkedFor(t, i)
  BY DEF Right, WorkedFor
<1>4. Counted(t)
  <2>1. Counted(st)
    BY DEF Right
  <2> QED BY <2>1, Zenon DEF Counted
<1> QED BY <1>1, <1>2, <1>3, <1>4 DEF Right

\* Looking for work keeps what is right.
LEMMA GetNextKeeps ==
    ASSUME JobOK, NEW st \in Right
    PROVE  GetNextIOs(st) \in Right
<1>1. PICK t : t = [st EXCEPT !.do_animate = FALSE, !.is_done = TRUE]
  OBVIOUS
<1>2. st.request_count = request_count_needed => t \in Right
  <2> SUFFICES ASSUME st.request_count = request_count_needed
               PROVE  t \in Right
    OBVIOUS
  <2>1. st \in States
    BY DEF Right
  <2>2. /\ t \in States /\ t.status = st.status /\ t.arms = st.arms
        /\ t.request_count = st.request_count
    BY <1>1, <2>1 DEF States
  <2>3. DoneWhenCounted(t)
    BY <2>2 DEF DoneWhenCounted
  <2> QED BY <2>2, <2>3, RestChanges
<1>3. Seen(st) \in 0 .. Len(job.queue)
  <2>1. st.window \in Nat \cup {-1} /\ Len(job.queue) \in Nat
    BY DEF Right, States, JobOK
  <2> QED BY <2>1 DEF Seen
<1>4. Scanned(st, Seen(st)) \in Right
  BY <1>3, ScanKeeps
<1> QED BY <1>1, <1>2, <1>4, LoopsAreFolds

\* An arm moves on, for the same request.
LEMMA ArmMoves ==
    ASSUME JobOK, NEW st \in Right, NEW d \in Disks, NEW arm \in Arm,
           arm.request = st.arms[d].request, st.arms[d].state = "null" <=> arm.state = "null",
           NEW t, t = [st EXCEPT !.arms[d] = arm]
    PROVE  t \in Right
<1>1. PICK a, b : a = st.arms /\ b = [a EXCEPT ![d] = arm]
  OBVIOUS
<1>2. st \in States /\ a \in [Disks -> Arm]
  BY <1>1 DEF Right, States
<1>3. t = [st EXCEPT !.arms = b] /\ b \in [Disks -> Arm]
      /\ b[d] = arm /\ \A e \in Disks : e # d => b[e] = a[e]
  BY <1>1, <1>2 DEF States
<1>4. /\ t \in States /\ t.status = st.status /\ t.arms = b
      /\ t.request_count = st.request_count /\ t.is_done = st.is_done
  BY <1>2, <1>3 DEF States
<1>5. \A e \in Disks : b[e].request = a[e].request /\ (a[e].state = "null" <=> b[e].state = "null")
  BY <1>1, <1>3
<1>6. ASSUME NEW e \in Disks
      PROVE  AtWork(t, e)
  <2>1. AtWork(st, e)
    BY DEF Right
  <2> QED BY <1>1, <1>4, <1>5, <2>1 DEF AtWork
<1>7. ASSUME NEW i \in Requests
      PROVE  WorkedFor(t, i)
  <2> SUFFICES ASSUME IsWrite(i), NEW k \in DOMAIN DisksOf(i), t.status[i][k] \in {"read", "write"}
               PROVE  t.arms[DisksOf(i)[k]].state # "null" /\ t.arms[DisksOf(i)[k]].request = i
    BY DEF WorkedFor
  <2>1. PICK e : e = DisksOf(i)[k]
    OBVIOUS
  <2>2. e \in Disks
    <3>1. PICK q : q = DisksOf(i)
      OBVIOUS
    <3>2. q \in Seq(Disks) /\ k \in DOMAIN q
      BY <3>1, TwoDisks
    <3> QED BY <2>1, <3>1, <3>2
  <2>3. WorkedFor(st, i)
    BY DEF Right
  <2>4. a[e].state # "null" /\ a[e].request = i
    BY <1>1, <1>4, <2>1, <2>3 DEF WorkedFor
  <2> QED BY <1>4, <1>5, <2>1, <2>2, <2>4
<1>8. Counted(t)
  <2>1. Load(arm) = Load(a[d])
    BY <1>1 DEF Load
  <2>2. PICK x, y, z : x = Busy(a) /\ y = Load(arm) /\ z = Busy(b)
    OBVIOUS
  <2>3. x \in Int /\ z = x + (y - y) /\ y \in Int
    <3>1. DOMAIN a = Disks
      BY <1>2
    <3>2. Busy(a) \in Int /\ Busy(b) = Busy(a) + (Load(arm) - Load(a[d]))
      BY <1>1, <3>1, BusyChanges
    <3>3. Load(arm) \in Int
      BY DEF Load
    <3> QED BY <2>1, <2>2, <3>2, <3>3
  <2>4. z = x
    BY <2>3
  <2>5. Counted(st)
    BY DEF Right
  <2> QED BY <1>1, <1>4, <2>2, <2>4, <2>5, Zenon DEF Counted
<1>9. DoneWhenCounted(t)
  <2>1. DoneWhenCounted(st)
    BY DEF Right
  <2> QED BY <1>4, <2>1 DEF DoneWhenCounted
<1> QED BY <1>4, <1>6, <1>7, <1>8, <1>9 DEF Right

\* The end of an I/O keeps what is right.
LEMMA MarkDoneKeeps ==
    ASSUME JobOK, NEW st \in Right, NEW d \in Disks, st.arms[d].state # "null"
    PROVE  MarkDone(st, d) \in Right
<1>1. PICK a, i : a = st.arms[d] /\ i = a.request
  OBVIOUS
<1>2. AtWork(st, d) /\ st \in States
  BY DEF Right
<1>3. /\ i \in Requests
      /\ \E l \in DOMAIN DisksOf(i) : DisksOf(i)[l] = d /\ st.status[i][l] \in {"read", "write"}
  BY <1>1, <1>2 DEF AtWork
<1>4. PICK l \in DOMAIN DisksOf(i) : DisksOf(i)[l] = d /\ st.status[i][l] \in {"read", "write"}
  BY <1>3
<1>5. PICK k : k = SelectInSeq(DisksOf(i), LAMBDA e : e = d)
  OBVIOUS
<1>6. k \in DOMAIN DisksOf(i) /\ DisksOf(i)[k] = d /\ st.status[i][k] \in {"read", "write"}
  <2>1. k = l
    <3>1. /\ k # 0 => k \in DOMAIN DisksOf(i) /\ DisksOf(i)[k] = d
          /\ \A m \in DOMAIN DisksOf(i) : DisksOf(i)[m] = d => k = m
      BY <1>3, <1>5, PlaceOf
    <3> QED BY <1>4, <3>1
  <2> QED BY <1>4, <2>1
<1>7. PICK s0, s : s0 = st.status[i] /\ s = Ended(i, k, s0)
  OBVIOUS
<1>8. /\ s0 \in [DOMAIN DisksOf(i) -> Stati] /\ Fits(i, s0)
      /\ s0[k] \in {"read", "write"}
  BY <1>3, <1>6, <1>7, StatusIs DEF Right
<1>9. /\ s \in [DOMAIN DisksOf(i) -> Stati]
      /\ Fits(i, s)
      /\ Begun(i, s) = Begun(i, s0)
      /\ IsWrite(i) => s[k] \notin {"read", "write"}
      /\ \A j \in DOMAIN DisksOf(i) :
            j # k => (s[j] \in {"read", "write"} <=> s0[j] \in {"read", "write"})
  BY <1>3, <1>6, <1>7, <1>8, EndedIs
<1>10. PICK arm, win, rc : /\ arm = [a EXCEPT !.state = "null"]
                           /\ win = IF RequestDone(i, s) /\ st.window > 0 THEN st.window + 1 ELSE st.window
                           /\ rc = st.request_count + 1
  OBVIOUS
<1>11. arm \in Arm /\ arm.state = "null"
  <2>1. a \in Arm
    BY <1>1, <1>2 DEF States
  <2> QED BY <1>10, <2>1 DEF Arm
<1>12. win \in Nat \cup {-1} /\ rc \in Int /\ st.do_animate \in BOOLEAN /\ st.is_done \in BOOLEAN
  <2>1. st.window \in Nat \cup {-1} /\ st.request_count \in Int
        /\ st.do_animate \in BOOLEAN /\ st.is_done \in BOOLEAN
    BY <1>2 DEF States
  <2>2. win = st.window \/ (st.window > 0 /\ win = st.window + 1)
    BY <1>10
  <2> QED BY <1>10, <2>1, <2>2
<1>13. MarkDone(st, d) = [window |-> win, status |-> [st.status EXCEPT ![i] = s],
                          arms |-> [st.arms EXCEPT ![d] = arm], request_count |-> rc,
                          do_animate |-> st.do_animate, is_done |-> st.is_done]
  <2>1. MarkDone(st, d) =
            [st EXCEPT !.status[i] = s,
                       !.window = IF RequestDone(i, s) /\ @ > 0 THEN @ + 1 ELSE @,
                       !.request_count = @ + 1, !.arms[d].state = "null"]
    BY <1>1, <1>5, <1>7 DEF MarkDone
  <2>2. PICK S, A : S = [st.status EXCEPT ![i] = s] /\ A = [st.arms EXCEPT ![d] = arm]
    OBVIOUS
  <2>3. MarkDone(st, d) = [st EXCEPT !.status = S, !.window = win, !.request_count = rc, !.arms = A]
    BY <1>1, <1>2, <1>10, <2>1, <2>2 DEF States
  <2> QED BY <1>2, <2>2, <2>3 DEF States
<1>14. PICK t : t = MarkDone(st, d)
  OBVIOUS
<1>15. rc + Load(arm) - Begun(i, s)
           = st.request_count + Load(st.arms[d]) - Begun(i, st.status[i])
  <2>1. Load(arm) = 0 /\ Load(a) = 1
    BY <1>1, <1>11 DEF Load
  <2>2. PICK b, c : b = Begun(i, s0) /\ c = st.request_count
    OBVIOUS
  <2>3. b \in Int /\ c \in Int
    BY <1>2, <2>2, BegunIsInt DEF States
  <2>4. (c + 1) + 0 - b = c + 1 - b
    BY <2>3
  <2> QED BY <1>1, <1>7, <1>9, <1>10, <2>1, <2>2, <2>4, Zenon
<1>16. StripesWritten /\ st.is_done => rc = request_count_needed
  <2>1. ~(StripesWritten /\ st.is_done)
    <3> SUFFICES ASSUME StripesWritten, st.is_done
                 PROVE  FALSE
      OBVIOUS
    <3>1. st.request_count = request_count_needed
      BY DEF Right, DoneWhenCounted
    <3> QED BY <3>1, AllServed
  <2> QED BY <2>1
<1>17. /\ st.arms[d].request = i
       /\ \A j \in DOMAIN DisksOf(i) :
              j # k => (s[j] \in {"read", "write"} <=> st.status[i][j] \in {"read", "write"})
  BY <1>1, <1>7, <1>9
<1>18. t \in Right
  BY <1>3, <1>6, <1>9, <1>11, <1>12, <1>13, <1>14, <1>15, <1>16, <1>17, OneChange
<1> QED BY <1>14, <1>18

\* A tick of one disk keeps what is right.
LEMMA AnimateDiskKeeps ==
    ASSUME JobOK, NEW st \in Right, NEW d \in Disks
    PROVE  AnimateDisk(st, d) \in Right
<1>1. PICK a, arm : a = st.arms[d] /\ arm = IF a.state = "seek" THEN Seek(a) ELSE a
  OBVIOUS
<1>2. st \in States /\ a \in Arm
  BY <1>1 DEF Right, States
<1>3. arm \in Arm /\ arm.request = a.request /\ (a.state = "null" <=> arm.state = "null")
  <2>1. CASE a.state # "seek"
    BY <1>1, <1>2, <2>1
  <2>2. CASE a.state = "seek"
    <3>1. PICK tc : tc = IF OffsetOf(a.request) = (IF a.last = 0 THEN -1 ELSE OffsetOf(a.last)) + 1
                         THEN 1 ELSE 10
      OBVIOUS
    <3>2. tc \in Int
      BY <3>1
    <3>3. \/ arm = [a EXCEPT !.y = a.y + a.delta]
          \/ arm = [a EXCEPT !.state = "xfer", !.transfer_count = tc]
      BY <1>1, <1>2, <2>2, <3>1 DEF Seek, Arm
    <3>4. PICK R : R = Requests \cup {0}
      OBVIOUS
    <3>5. a \in [state : {"null", "seek", "xfer"}, y : Int, delta : Int, request : R, last : R,
                 transfer_count : Int]
      BY <1>2, <3>4 DEF Arm
    <3>6. a.y + a.delta \in Int
      BY <3>5
    <3>7. /\ arm \in [state : {"null", "seek", "xfer"}, y : Int, delta : Int, request : R, last : R,
                      transfer_count : Int]
          /\ arm.request = a.request /\ arm.state # "null"
      BY <2>2, <3>2, <3>3, <3>5, <3>6
    <3> QED BY <2>2, <3>4, <3>7 DEF Arm
  <2> QED BY <2>1, <2>2
<1>4. PICK moved : moved = [st EXCEPT !.arms[d] = arm]
  OBVIOUS
<1>5. moved \in Right /\ moved.arms[d] = arm
  <2>1. moved \in Right
    BY <1>1, <1>3, <1>4, ArmMoves
  <2>2. moved.arms[d] = arm
    BY <1>2, <1>4 DEF States
  <2> QED BY <2>1, <2>2
<1>6. PICK arm2, turned : /\ arm2 = [arm EXCEPT !.transfer_count = @ - 1]
                          /\ turned = [moved EXCEPT !.arms[d] = arm2]
  OBVIOUS
<1>7. arm2 \in Arm /\ arm2.request = arm.request /\ arm2.state = arm.state
  BY <1>3, <1>6 DEF Arm
<1>8. turned \in Right /\ turned.arms[d] = arm2
  <2>1. turned \in Right
    BY <1>5, <1>6, <1>7, ArmMoves
  <2>2. moved \in States
    BY <1>5 DEF Right
  <2>3. turned.arms[d] = arm2
    BY <1>6, <2>2 DEF States
  <2> QED BY <2>1, <2>3
<1>9. arm.state = "xfer" => GetNextIOs(MarkDone(turned, d)) \in Right
  <2> SUFFICES ASSUME arm.state = "xfer"
               PROVE  GetNextIOs(MarkDone(turned, d)) \in Right
    OBVIOUS
  <2>1. turned.arms[d].state # "null"
    BY <1>7, <1>8
  <2>2. MarkDone(turned, d) \in Right
    BY <1>8, <2>1, MarkDoneKeeps
  <2> QED BY <2>2, GetNextKeeps
<1>10. turned = [moved EXCEPT !.arms[d].transfer_count = @ - 1]
  <2>1. moved \in States
    BY <1>5 DEF Right
  <2> QED BY <1>5, <1>6, <2>1 DEF States
<1>11. AnimateDisk(st, d) = IF arm.state # "xfer" THEN moved
                            ELSE IF arm.transfer_count > 1 THEN turned
                            ELSE Given(MarkDone(turned, d), GetNextIOs)
  <2>1. AnimateDisk(st, d) = CASE arm.state # "xfer" -> moved
                               [] arm.state = "xfer" /\ arm.transfer_count > 1 -> turned
                               [] OTHER -> Given(MarkDone(turned, d), GetNextIOs)
    BY <1>1, <1>4, <1>10, Zenon DEF AnimateDisk
  <2> QED BY <2>1
<1>12. Given(MarkDone(turned, d), GetNextIOs) = GetNextIOs(MarkDone(turned, d))
  BY DEF Given
<1> QED BY <1>5, <1>8, <1>9, <1>11, <1>12

\* A tick of the whole array keeps what is right.
LEMMA TickKeeps ==
    ASSUME JobOK, NEW v \in Right
    PROVE  Ticked(v) \in Right
<1>1. PICK p : p = <<0, 1, 2, 3>>
  OBVIOUS
<1>2. DOMAIN p = 1 .. 4 /\ \A k \in 1 .. 4 : p[k] \in Disks
  <2>1. DOMAIN p = 1 .. 4 /\ p[1] = 0 /\ p[2] = 1 /\ p[3] = 2 /\ p[4] = 3
    BY <1>1
  <2>2. \A k \in 1 .. 4 : k = 1 \/ k = 2 \/ k = 3 \/ k = 4
    OBVIOUS
  <2> QED BY <2>1, <2>2 DEF Disks, disk_count
<1>3. PICK step : step = [x \in Right \X Disks |-> AnimateDisk(x[1], x[2])]
  OBVIOUS
<1>4. \A u \in Right : \A d \in Disks : step[<<u, d>>] = AnimatedOnce(u, d) /\ AnimatedOnce(u, d) \in Right
  <2> SUFFICES ASSUME NEW u \in Right, NEW d \in Disks
               PROVE  step[<<u, d>>] = AnimatedOnce(u, d) /\ AnimatedOnce(u, d) \in Right
    OBVIOUS
  <2>1. AnimatedOnce(u, d) = AnimateDisk(u, d)
    BY DEF AnimatedOnce
  <2>2. AnimateDisk(u, d) \in Right
    BY AnimateDiskKeeps
  <2>3. <<u, d>> \in Right \X Disks
    OBVIOUS
  <2>4. step[<<u, d>>] = AnimateDisk(<<u, d>>[1], <<u, d>>[2])
    BY <1>3, <2>3
  <2> QED BY <2>1, <2>2, <2>4
<1>5. step \in [Right \X Disks -> Right]
  <2> SUFFICES ASSUME NEW x \in Right \X Disks
               PROVE  AnimateDisk(x[1], x[2]) \in Right
    BY <1>3
  <2>1. x[1] \in Right /\ x[2] \in Disks
    OBVIOUS
  <2> QED BY <2>1, AnimateDiskKeeps
<1>6. PICK g \in [SUBSET (1 .. 4) -> Right] : Takes(g, 4, v, p, step)
  <2>1. PICK S, T : S = Right /\ T = Disks
    OBVIOUS
  <2>2. v \in S /\ step \in [S \X T -> S] /\ 4 \in Nat /\ \A k \in 1 .. 4 : p[k] \in T
    BY <1>2, <1>5, <2>1
  <2>3. \E g \in [SUBSET (1 .. 4) -> S] : Takes(g, 4, v, p, step)
    BY <2>2, StepsExist
  <2> QED BY <2>1, <2>3
<1>7. IsTick(g, v, p, 1 .. 4)
  <2>1. ASSUME NEW s \in SUBSET (1 .. 4)
        PROVE  g[s] = IF s = {} THEN v ELSE AnimatedOnce(g[s \ {Max(s)}], p[Max(s)])
    <3>1. CASE s = {}
      BY <1>6, <3>1 DEF Takes
    <3>2. CASE s # {}
      <4>1. Max(s) \in s
        BY <3>2, LastPlace
      <4>2. g[s \ {Max(s)}] \in Right /\ p[Max(s)] \in Disks
        BY <1>2, <1>6, <4>1
      <4>3. g[s] = step[<<g[s \ {Max(s)}], p[Max(s)]>>]
        BY <1>6, <3>2 DEF Takes
      <4> QED BY <1>4, <3>2, <4>2, <4>3
    <3> QED BY <3>1, <3>2
  <2> QED BY <1>6, <2>1 DEF IsTick
<1>8. PICK h : h = (CHOOSE f : IsTick(f, v, p, 1 .. 4))
  OBVIOUS
<1>9. IsTick(h, v, p, 1 .. 4)
  BY <1>7, <1>8
<1>10. ASSUME NEW k \in 1 .. 4, h[1 .. k - 1] \in Right
       PROVE  h[1 .. k] \in Right
  <2>1. 1 .. k \in SUBSET (1 .. 4) /\ 1 .. k # {} /\ Max(1 .. k) = k /\ (1 .. k) \ {Max(1 .. k)} = 1 .. k - 1
    <3>1. 4 \in Nat
      OBVIOUS
    <3> QED BY <3>1, FirstPlaces
  <2>2. h[1 .. k] = AnimatedOnce(h[1 .. k - 1], p[k])
    <3>1. h[1 .. k] = IF 1 .. k = {} THEN v ELSE AnimatedOnce(h[(1 .. k) \ {Max(1 .. k)}], p[Max(1 .. k)])
      BY <1>9, <2>1 DEF IsTick
    <3> QED BY <2>1, <3>1
  <2> QED BY <1>2, <1>4, <1>10, <2>2
<1>11. h[{}] \in Right
  BY <1>9 DEF IsTick
<1>12. h[1 .. 4] \in Right
  <2>1. \A k \in 1 .. 4 : h[1 .. k - 1] \in Right => h[1 .. k] \in Right
    BY <1>10
  <2>2. PICK S : S = Right
    OBVIOUS
  <2>3. h[{}] \in S /\ \A k \in 1 .. 4 : h[1 .. k - 1] \in S => h[1 .. k] \in S
    BY <1>11, <2>1, <2>2
  <2>4. h[1 .. 4] \in S
    BY <2>3, StepsStay
  <2> QED BY <2>2, <2>4
<1>13. Ticked(v) = h[1 .. 4]
  BY <1>1, <1>2, <1>8 DEF Ticked
<1> QED BY <1>12, <1>13

-----------------------------------------------------------------------------
\* The inductive invariant: the variables are right, for the job there is.
RightInv == JobOK /\ job \in Jobs /\ Now \in Right

\* It holds at first: no request is begun and no arm works.
LEMMA InitRight ==
    ASSUME RaidGraphicsAssumption, RaidGraphicsInit
    PROVE  RightInv
<1>1. JobOK /\ job \in Jobs
  <2>1. /\ job \in Jobs /\ job.mapping \in {0, 1, 4, 5} /\ job.window \in {-1} \cup (Nat \ {0})
        /\ job.seek_speed \in {1, 2, 4, 5, 10, 20}
        /\ job.queue \in Seq([op : {"read", "write"}, logical : 0 .. block_count(job.mapping) - 1])
    BY DEF RaidGraphicsAssumption, RaidGraphicsInit
  <2>2. PICK n : n = block_count(job.mapping)
    OBVIOUS
  <2>3. job.queue \in Seq([op : {"read", "write"}, logical : Nat])
    <3>1. n \in Nat
      BY <2>1, <2>2 DEF block_count
    <3>2. [op : {"read", "write"}, logical : 0 .. n - 1] \subseteq [op : {"read", "write"}, logical : Nat]
      BY <3>1
    <3>3. PICK A, B : A = [op : {"read", "write"}, logical : 0 .. n - 1]
                      /\ B = [op : {"read", "write"}, logical : Nat]
      OBVIOUS
    <3>4. A \subseteq B /\ job.queue \in Seq(A)
      BY <2>1, <2>2, <3>2, <3>3
    <3>5. job.queue \in Seq(B)
      BY <3>4
    <3> QED BY <3>3, <3>5
  <2> QED BY <2>1, <2>3 DEF JobOK
<1>2. PICK st : st = Now
  OBVIOUS
<1>3. /\ st.window = window /\ st.status = status /\ st.arms = arms /\ st.request_count = request_count
      /\ st.do_animate = do_animate /\ st.is_done = is_done
  BY <1>2 DEF Now
<1>4. ASSUME NEW i \in Requests
      PROVE  /\ status[i] = [k \in DOMAIN DisksOf(i) |-> "not started"]
             /\ status[i] \in [1 .. 1 -> Stati] \cup [1 .. 2 -> Stati]
  <2>1. status[i] = [k \in DOMAIN DisksOf(i) |-> "not started"]
    BY DEF RaidGraphicsInit
  <2>2. PICK n, D : n = Len(DisksOf(i)) /\ D = DOMAIN DisksOf(i)
    OBVIOUS
  <2>3. n \in 1 .. 2 /\ D = 1 .. n
    BY <1>1, <2>2, TwoDisks
  <2>4. n = 1 \/ n = 2
    BY <2>3
  <2> QED BY <2>1, <2>2, <2>3, <2>4 DEF Stati
<1>5. status \in [Requests -> [1 .. 1 -> Stati] \cup [1 .. 2 -> Stati]]
  <2>1. DOMAIN status = Requests /\ status = [i \in Requests |-> status[i]]
    BY DEF RaidGraphicsInit
  <2> QED BY <1>4, <2>1
<1>6. arms \in [Disks -> Arm] /\ \A d \in Disks : arms[d].state = "null"
  <2>1. PICK R, a : /\ R = Requests \cup {0}
                    /\ a = [state |-> "null", y |-> 0, delta |-> 0, request |-> 0,
                            last |-> 0, transfer_count |-> -1]
    OBVIOUS
  <2>2. arms = [d \in Disks |-> a]
    BY <2>1 DEF RaidGraphicsInit
  <2>3. 0 \in R
    BY <2>1
  <2>4. /\ a \in [state : {"null", "seek", "xfer"}, y : Int, delta : Int, request : R, last : R,
                  transfer_count : Int]
        /\ a.state = "null"
    BY <2>1, <2>3
  <2>5. a \in Arm
    BY <2>1, <2>4 DEF Arm
  <2> QED BY <2>2, <2>4, <2>5
<1>7. st \in States
  <2>1. window \in Nat \cup {-1} /\ request_count \in Int /\ do_animate \in BOOLEAN /\ is_done \in BOOLEAN
    <3>1. window = job.window /\ request_count = 0 /\ job.window \in Nat \cup {-1}
      BY <1>1 DEF RaidGraphicsInit, JobOK
    <3>2. do_animate \in BOOLEAN /\ is_done \in BOOLEAN
      BY Zenon DEF RaidGraphicsInit
    <3> QED BY <3>1, <3>2
  <2> QED BY <1>2, <1>5, <1>6, <2>1 DEF Now, States
<1>8. \A i \in Requests : DOMAIN st.status[i] = DOMAIN DisksOf(i)
  BY <1>3, <1>4
<1>9. ASSUME NEW i \in Requests
      PROVE  Fits(i, st.status[i])
  <2>1. \A k \in DOMAIN status[i] : status[i][k] = "not started"
    BY <1>4
  <2>2. Fresh(status[i])
    BY <2>1 DEF Fresh
  <2>3. Phased(i) => \A k \in 1 .. 2 : k \in DOMAIN status[i]
    <3>1. PICK D : D = DOMAIN DisksOf(i)
      OBVIOUS
    <3>2. Phased(i) => D = 1 .. 2
      BY <1>1, <3>1, TwoDisks DEF Phased
    <3>3. DOMAIN status[i] = D
      BY <1>4, <3>1
    <3> QED BY <3>2, <3>3
  <2>4. Phased(i) => InPhase(status[i])
    BY <2>1, <2>3 DEF InPhase, Reads
  <2> QED BY <1>3, <2>1, <2>2, <2>4 DEF Fits
<1>10. \A d \in Disks : AtWork(st, d)
  BY <1>3, <1>6 DEF AtWork
<1>11. ASSUME NEW i \in Requests
       PROVE  WorkedFor(st, i)
  <2>1. \A k \in DOMAIN DisksOf(i) : status[i][k] = "not started"
    BY <1>4
  <2> QED BY <1>3, <2>1 DEF WorkedFor
<1>12. Counted(st)
  <2>1. PICK n, f : n = Len(job.queue) /\ f = AllBegun(st.status)
    OBVIOUS
  <2>2. n \in Nat /\ Requests = 1 .. n
    BY <1>1, <2>1 DEF JobOK, Requests
  <2>3. ASSUME NEW i \in Requests
        PROVE  f[i] = 0
    <3>1. f[i] = Begun(i, status[i])
      BY <1>3, <2>1 DEF AllBegun
    <3>2. PICK s : s = status[i]
      OBVIOUS
    <3>3. s[1] = "not started" /\ (job.mapping # 0 => s[2] = "not started")
      <4>1. PICK D : D = DOMAIN DisksOf(i)
        OBVIOUS
      <4>2. s = [k \in D |-> "not started"] /\ D = 1 .. (IF job.mapping = 0 THEN 1 ELSE 2)
        BY <1>1, <1>4, <3>2, <4>1, TwoDisks
      <4>3. 1 \in D /\ (job.mapping # 0 => 2 \in D)
        <5>1. D = 1 .. (IF job.mapping = 0 THEN 1 ELSE 2)
          BY <4>2
        <5> QED BY <5>1
      <4> QED BY <4>2, <4>3, Zenon
    <3>4. CASE OneOf(i) \/ job.mapping = 0
      BY <3>1, <3>2, <3>3, <3>4, Zenon DEF Begun
    <3>5. CASE ~(OneOf(i) \/ job.mapping = 0)
      <4>1. BegunOn(i, s[1]) = 0 /\ BegunOn(i, s[2]) = 0
        BY <3>3, <3>5, BegunOnIs, Zenon
      <4>2. PICK x, y : x = BegunOn(i, s[1]) /\ y = BegunOn(i, s[2])
        OBVIOUS
      <4>3. x + y = 0
        BY <4>1, <4>2
      <4> QED BY <3>1, <3>2, <3>5, <4>2, <4>3, Zenon DEF Begun
    <3> QED BY <3>4, <3>5
  <2>4. \E T : IsSum(T, f, n) /\ T[n] = 0
    BY <2>2, <2>3, SumOfNothing
  <2>5. Busy(st.arms) = 0
    <3>1. \A d \in Disks : Load(st.arms[d]) = 0
      BY <1>3, <1>6 DEF Load
    <3>2. Load(st.arms[0]) = 0 /\ Load(st.arms[1]) = 0 /\ Load(st.arms[2]) = 0 /\ Load(st.arms[3]) = 0
      BY <3>1 DEF Disks, disk_count
    <3> QED BY <3>2 DEF Busy
  <2>6. st.request_count + Busy(st.arms) = 0
    <3>1. st.request_count = 0
      BY <1>3 DEF RaidGraphicsInit
    <3> QED BY <2>5, <3>1
  <2> QED BY <2>1, <2>4, <2>6, Zenon DEF Counted
<1>13. DoneWhenCounted(st)
  BY <1>3 DEF RaidGraphicsInit, DoneWhenCounted
<1> QED BY <1>1, <1>2, <1>7, <1>8, <1>9, <1>10, <1>11, <1>12, <1>13 DEF RightInv, Right

\* The count that the program waits for is that of its job.
NeededFor(j) ==
    LET Stripe(i) ==
            LET f == FirstOfThree(i)
            IN  /\ j.mapping = 4
                /\ f + 2 \in DOMAIN j.queue
                /\ \A k \in 1 .. 2 : j.queue[f + k].logical = j.queue[f].logical + k
        IOs(i) == IF ~ (j.queue[i].op = "write") \/ j.mapping = 0 THEN 1
                  ELSE IF j.mapping = 1 THEN 2 ELSE 4
        Saved(i) == IF Stripe(i) /\ WithParity(i) THEN 8 ELSE 0
    IN  FoldLeftDomain(LAMBDA n, i : n + IOs(i) - Saved(i), 0, j.queue)

LEMMA NeededOfJob == request_count_needed = NeededFor(job)
BY Zenon DEF request_count_needed, NeededFor, IsWrite, FullStripe, Requests

\* What is right is about the job and nothing else that changes.
LEMMA SameJob ==
    ASSUME job' = job
    PROVE  Right' = Right
<1>1. /\ Requests' = Requests /\ \A i : DisksOf(i)' = DisksOf(i)
      /\ \A i : IsWrite(i)' <=> IsWrite(i)
      /\ \A i : FullStripe(i)' <=> FullStripe(i)
  BY DEF Requests, DisksOf, IsWrite, FullStripe
<1>2. \A i : /\ Phased(i)' <=> Phased(i)
             /\ OneOf(i)' <=> OneOf(i)
  BY <1>1 DEF Phased, OneOf
<1>3. States' = States
  BY <1>1 DEF States, Arm
<1>4. ASSUME NEW i, NEW s
      PROVE  (Fits(i, s)' <=> Fits(i, s)) /\ Begun(i, s)' = Begun(i, s)
  <2>1. Fits(i, s)' <=> Fits(i, s)
    BY <1>1, <1>2 DEF Fits
  <2>2. BegunOn(i, s[1])' = BegunOn(i, s[1]) /\ BegunOn(i, s[2])' = BegunOn(i, s[2])
    BY <1>2, Zenon DEF BegunOn
  <2>3. Begun(i, s)' = Begun(i, s)
    <3>1. CASE OneOf(i) \/ job.mapping = 0
      BY <1>2, <3>1, Zenon DEF Begun
    <3>2. CASE ~(OneOf(i) \/ job.mapping = 0)
      <4>1. Begun(i, s) = BegunOn(i, s[1]) + BegunOn(i, s[2])
        BY <3>2, Zenon DEF Begun
      <4>2. Begun(i, s)' = BegunOn(i, s[1])' + BegunOn(i, s[2])'
        BY <1>2, <3>2, Zenon DEF Begun
      <4> QED BY <2>2, <4>1, <4>2, Zenon
    <3> QED BY <3>1, <3>2
  <2> QED BY <2>1, <2>3
<1>5. request_count_needed' = request_count_needed
  <2>1. request_count_needed' = NeededFor(job')
    BY Zenon DEF request_count_needed, NeededFor, FoldLeftDomain, FoldLeft, MapThenFoldSet, IsWrite, FullStripe, Requests
  <2> QED BY <2>1, NeededOfJob
<1>6. StripesWritten' <=> StripesWritten
  BY <1>1 DEF StripesWritten
<1>7. ASSUME NEW st
      PROVE  /\ \A d : AtWork(st, d)' <=> AtWork(st, d)
             /\ \A i : WorkedFor(st, i)' <=> WorkedFor(st, i)
             /\ Counted(st)' <=> Counted(st)
             /\ DoneWhenCounted(st)' <=> DoneWhenCounted(st)
  <2>1. \A d : AtWork(st, d)' <=> AtWork(st, d)
    BY <1>1 DEF AtWork
  <2>2. \A i : WorkedFor(st, i)' <=> WorkedFor(st, i)
    BY <1>1 DEF WorkedFor
  <2>3. AllBegun(st.status)' = AllBegun(st.status)
    BY <1>1, <1>4 DEF AllBegun
  <2>4. Counted(st)' <=> Counted(st)
    BY <2>3 DEF Counted
  <2>5. DoneWhenCounted(st)' <=> DoneWhenCounted(st)
    BY <1>5, <1>6 DEF DoneWhenCounted
  <2> QED BY <2>1, <2>2, <2>4, <2>5
<1> QED BY <1>1, <1>3, <1>4, <1>7 DEF Right

\* The variables at the end of a step.
LEMMA NextRight ==
    ASSUME RightInv, [RaidGraphicsNext]_rgVars
    PROVE  RightInv'
<1>1. Now \in Right /\ JobOK /\ job \in Jobs
  BY DEF RightInv
<1>2. ASSUME job' = job
      PROVE  Right' = Right /\ JobOK' /\ job' \in Jobs
  <2>1. JobOK'
    BY <1>1, <1>2 DEF JobOK
  <2> QED BY <1>1, <1>2, <2>1, SameJob
<1>3. ASSUME NEW st \in Right, Becomes(st)
      PROVE  Now' = st
  <2>1. st \in States
    BY DEF Right
  <2> QED BY <1>3, <2>1 DEF Becomes, Now, States
<1>4. ASSUME NEW st \in Right
      PROVE  Animated(st) \in Right
  BY <1>1, LoopsAreFolds, TickKeeps
<1>5. CASE Start
  <2>1. PICK st : st = Animated(GetNextIOs(Now)) /\ Becomes(st) /\ job' = job
    BY <1>5 DEF Start
  <2>2. st \in Right
    BY <1>1, <1>4, <2>1, GetNextKeeps
  <2>3. Now' \in Right
    BY <1>3, <2>1, <2>2
  <2> QED BY <1>2, <2>1, <2>3 DEF RightInv
<1>6. CASE Animate
  <2>1. PICK st : st = Animated(Now) /\ Becomes(st) /\ job' = job
    BY <1>6 DEF Animate
  <2>2. st \in Right
    BY <1>1, <1>4, <2>1
  <2>3. Now' \in Right
    BY <1>3, <2>1, <2>2
  <2> QED BY <1>2, <2>1, <2>3 DEF RightInv
<1>7. CASE Pause \/ UNCHANGED rgVars
  <2>1. /\ job' = job /\ window' = window /\ status' = status /\ arms' = arms
        /\ request_count' = request_count /\ is_done' = is_done
        /\ (do_animate' = ~ do_animate \/ do_animate' = do_animate)
    BY <1>7 DEF Pause, rgVars
  <2>2. PICK st, t : st = Now /\ t = Now'
    OBVIOUS
  <2>3. st \in States /\ st.do_animate \in BOOLEAN
    BY <1>1, <2>2 DEF Right, States
  <2>4. do_animate' \in BOOLEAN
    <3>1. do_animate \in BOOLEAN
      BY <2>2, <2>3 DEF Now
    <3> QED BY <2>1, <3>1, Zenon
  <2>5. t = [st EXCEPT !.do_animate = do_animate']
    BY <2>1, <2>2 DEF Now
  <2>6. /\ t \in States /\ t.status = st.status /\ t.arms = st.arms
        /\ t.request_count = st.request_count /\ t.is_done = st.is_done
    BY <2>3, <2>4, <2>5 DEF States
  <2>7. DoneWhenCounted(t)
    <3>1. DoneWhenCounted(st)
      BY <1>1, <2>2 DEF Right
    <3> QED BY <2>6, <3>1 DEF DoneWhenCounted
  <2>8. t \in Right
    BY <1>1, <2>2, <2>6, <2>7, RestChanges
  <2> QED BY <1>2, <2>1, <2>2, <2>8 DEF RightInv
<1> QED BY <1>5, <1>6, <1>7 DEF RaidGraphicsNext

\* No disk of a write to an array with parity writes before both have read, whatever
\* the window of the scheduler, the requests, and the order in which the disks end.
THEOREM RaidTwoPhases == ASSUME RaidGraphicsAssumption PROVE RaidGraphicsSpec => []TwoPhases
<1>1. RaidGraphicsInit => RightInv
  BY InitRight
<1>2. RightInv /\ [RaidGraphicsNext]_rgVars => RightInv'
  BY NextRight
<1>3. RightInv => TwoPhases
  <2> SUFFICES ASSUME RightInv, NEW i \in Requests, Phased(i)
               PROVE  InPhase(status[i])
    BY DEF TwoPhases, Phased, InPhase, Reads, Writes
  <2>1. PICK st : st = Now
    OBVIOUS
  <2>2. st \in Right /\ st.status = status
    BY <2>1 DEF RightInv, Now
  <2> QED BY <2>2 DEF Right, Fits
<1> QED BY <1>1, <1>2, <1>3, PTL DEF RaidGraphicsSpec

\* A full stripe is written, when the jobs say so.
LEMMA JobWritesStripes ==
    ASSUME FullStripesWritten, JobOK, job \in Jobs
    PROVE  StripesWritten
<1> SUFFICES ASSUME NEW i \in Requests, FullStripe(i)
             PROVE  IsWrite(i)
  BY DEF StripesWritten
<1>1. PICK q, f : q = job.queue /\ f = FirstOfThree(i)
  OBVIOUS
<1>2. PICK n : n = Len(q) /\ n \in Nat /\ DOMAIN q = 1 .. n /\ Requests = 1 .. n
  BY <1>1 DEF JobOK, Requests
<1>3. /\ job.mapping = 4 /\ f + 2 \in 1 .. n
      /\ \A k \in 1 .. 2 : q[f + k].logical = q[f].logical + k
  BY <1>1, <1>2 DEF FullStripe
<1>4. PICK d : d = (i - 1) \div 3
  OBVIOUS
<1>5. d \in Nat /\ 3 * d <= i - 1 /\ i - 1 < 3 * d + 3 /\ i \in Int
  BY <1>2, <1>4
<1>6. f = 3 * d + 1
  BY <1>1, <1>4, <1>5 DEF FirstOfThree
<1>7. f \in 1 .. n /\ f % 3 = 1 /\ (i = f + 0 \/ i = f + 1 \/ i = f + 2)
  BY <1>2, <1>3, <1>5, <1>6
<1>8. \A k \in 0 .. 2 : q[f + k].op = "write"
  BY <1>1, <1>2, <1>3, <1>7 DEF FullStripesWritten
<1>9. 0 \in 0 .. 2 /\ 1 \in 0 .. 2 /\ 2 \in 0 .. 2
  OBVIOUS
<1>10. q[i].op = "write"
  BY <1>7, <1>8, <1>9
<1> QED BY <1>1, <1>10 DEF IsWrite

\* The count of I/Os says when the program may stop: then no arm is on its way and every
\* request was served, however the I/Os of the requests took turns; and an arm that works
\* has a request that knows.
THEOREM RaidStopsWhenServed ==
    ASSUME RaidGraphicsAssumption, FullStripesWritten
    PROVE  RaidGraphicsSpec => []StopsWhenServed
<1>1. RaidGraphicsInit => RightInv
  BY InitRight
<1>2. RightInv /\ [RaidGraphicsNext]_rgVars => RightInv'
  BY NextRight
<1>3. RightInv => StopsWhenServed
  <2> SUFFICES ASSUME RightInv
               PROVE  StopsWhenServed
    OBVIOUS
  <2>1. PICK st : st = Now
    OBVIOUS
  <2>2. /\ st \in Right /\ st.status = status /\ st.arms = arms /\ st.is_done = is_done
        /\ JobOK /\ job \in Jobs
    BY <2>1 DEF RightInv, Now
  <2>3. StripesWritten
    BY <2>2, JobWritesStripes
  <2>4. is_done => /\ \A d \in Disks : arms[d].state = "null"
                   /\ \A i \in Requests :
                         IF IsWrite(i) THEN \A k \in DOMAIN status[i] : status[i][k] = "done"
                         ELSE status[i][1] # "not started"
    <3> SUFFICES ASSUME is_done
                 PROVE  /\ \A d \in Disks : arms[d].state = "null"
                        /\ \A i \in Requests : Served(i, status[i])
      BY DEF Served
    <3>1. st.request_count = request_count_needed
      BY <2>2, <2>3 DEF Right, DoneWhenCounted
    <3>2. /\ \A d \in Disks : st.arms[d].state = "null"
          /\ \A i \in Requests : Served(i, st.status[i])
      BY <2>2, <2>3, <3>1, AllServed
    <3> QED BY <2>2, <3>2
  <2>5. ASSUME NEW d \in Disks, arms[d].state # "null"
        PROVE  \E k \in DOMAIN DisksOf(arms[d].request) :
                  /\ DisksOf(arms[d].request)[k] = d
                  /\ status[arms[d].request][k] \in {"read", "write"}
    <3>1. AtWork(st, d)
      BY <2>2 DEF Right
    <3> QED BY <2>2, <2>5, <3>1 DEF AtWork
  <2> QED BY <2>4, <2>5 DEF StopsWhenServed
<1> QED BY <1>1, <1>2, <1>3, PTL DEF RaidGraphicsSpec

-----------------------------------------------------------------------------
\* The log file system.

\* The inode numbers whose piece of the map is on the disk, when c is the checkpoint.
Known(c) == {i \in Inums : c[Chunk(i) + 1] # -1}

\* What a block can be, when directories name inodes of the set K.
Slots == Names \cup {"-", ".", ".."}
DirBlocks(K) == [block_type : {"dir"}, entries : [1 .. EntriesPerBlock -> Slots \X (K \cup {-1})]]
Inodes ==
    [block_type : {"inode"}, type : {"dir", "reg"}, size : Int, refs : Int,
     pointers : [1 .. NUM_INODE_PTRS -> Int]]
ImapBlocks == [block_type : {"imap"}, entries : [1 .. NUM_INODES_PER_IMAP_CHUNK -> Int]]
OtherBlocks ==
    [block_type : {"cp"}, entries : [1 .. NUM_IMAP_PTRS_IN_CR -> Int]]
    \cup [block_type : {"data"}, contents : Nat \X Nat]
Blocks(K) == DirBlocks(K) \cup Inodes \cup ImapBlocks \cup OtherBlocks

\* The blocks of a directory are there.
Filled(b) == b.type = "dir" => b.size \in 1 .. NUM_INODE_PTRS /\ \A k \in 1 .. b.size : b.pointers[k] # -1
GoodInodes == {b \in Inodes : Filled(b)}

\* Two inodes but for the number of names of a file.
SameInodes(a, b) ==
    /\ a.type = b.type /\ a.size = b.size /\ a.pointers = b.pointers
    /\ a.type = "dir" => a.refs = b.refs

\* The map m leads to inodes on the disk d, and the checkpoint c to pieces of a map.
Mapped(d, m) ==
    /\ m \in [Inums -> Int]
    /\ \A i \in Inums : m[i] # -1 => m[i] \in 1 .. Len(d) - 1 /\ d[m[i] + 1] \in GoodInodes
Listed(d, c) ==
    /\ c \in [1 .. NUM_IMAP_PTRS_IN_CR -> Int]
    /\ \A x \in 1 .. NUM_IMAP_PTRS_IN_CR :
          c[x] # -1 => c[x] \in 1 .. Len(d) - 1 /\ d[c[x] + 1] \in ImapBlocks

\* Where the piece of the map on the disk has the inode i, and that this is as in memory.
Saved(d, c, i) == d[c[Chunk(i) + 1] + 1].entries[(i % NUM_INODES_PER_IMAP_CHUNK) + 1]
Current(d, c, m, i) ==
    IF c[Chunk(i) + 1] = -1 THEN m[i] = -1
    ELSE /\ Saved(d, c, i) = -1 <=> m[i] = -1
         /\ Saved(d, c, i) # -1 =>
               /\ Saved(d, c, i) \in 1 .. Len(d) - 1 /\ d[Saved(d, c, i) + 1] \in GoodInodes
               /\ SameInodes(d[Saved(d, c, i) + 1], d[m[i] + 1])

LogOK(d, c, m) ==
    /\ d \in Seq(Blocks(Known(c))) /\ Len(d) > 0 /\ d[1] = Checkpoint(c)
    /\ Mapped(d, m) /\ Listed(d, c) /\ ROOT_INODE \in Known(c)
    /\ \A i \in Inums : Current(d, c, m, i)

\* A number in the map: which piece has it, and where.
LEMMA ChunkIs ==
    ASSUME LFSAssumption, NEW i \in Inums
    PROVE  /\ Chunk(i) \in 0 .. NUM_IMAP_PTRS_IN_CR - 1
           /\ Chunk(i) + 1 \in 1 .. NUM_IMAP_PTRS_IN_CR
           /\ (i % NUM_INODES_PER_IMAP_CHUNK) + 1 \in 1 .. NUM_INODES_PER_IMAP_CHUNK
           /\ Chunk(i) * NUM_INODES_PER_IMAP_CHUNK + ((i % NUM_INODES_PER_IMAP_CHUNK) + 1) - 1 = i
<1>1. PICK k, p, q, r : /\ k = NUM_INODES_PER_IMAP_CHUNK /\ p = NUM_IMAP_PTRS_IN_CR
                        /\ q = i \div k /\ r = i % k
  OBVIOUS
<1>2. k \in Nat \ {0} /\ p \in Nat \ {0}
  BY <1>1 DEF LFSAssumption
<1>3. i \in Nat /\ i < p * k
  BY <1>1, <1>2 DEF Inums, NUM_INODES
<1>4. q \in Int /\ r \in 0 .. k - 1 /\ i = k * q + r
  BY <1>1, <1>2, <1>3
<1>5. q >= 0
  <2> SUFFICES ASSUME q <= -1
               PROVE  FALSE
    BY <1>4
  <2>1. k * q <= k * (-1)
    BY <1>2, <1>4
  <2> QED BY <1>2, <1>3, <1>4, <2>1
<1>6. q <= p - 1
  <2> SUFFICES ASSUME q >= p
               PROVE  FALSE
    BY <1>2, <1>4
  <2>1. k * q >= k * p
    BY <1>2, <1>4
  <2> QED BY <1>2, <1>3, <1>4, <2>1
<1>7. q * k + (r + 1) - 1 = i
  BY <1>2, <1>4
<1> QED BY <1>1, <1>2, <1>4, <1>5, <1>6, <1>7 DEF Chunk

\* A read from the disk.
LEMMA AtIs ==
    ASSUME NEW S, disk \in Seq(S), Len(disk) > 0, NEW a \in Int
    PROVE  /\ At(a) \in S
           /\ a \in 0 .. Len(disk) - 1 => At(a) = disk[a + 1]
<1>1. PICK n : n = Len(disk)
  OBVIOUS
<1>2. n \in Nat /\ n > 0
  BY <1>1
<1>3. a % n \in 0 .. n - 1
  BY <1>2
<1>4. a \in 0 .. n - 1 => a % n = a
  <2> SUFFICES ASSUME a \in 0 .. n - 1
               PROVE  a % n = a
    OBVIOUS
  <2>1. PICK q, r : q = a \div n /\ r = a % n
    OBVIOUS
  <2>2. q \in Int /\ r \in 0 .. n - 1 /\ a = n * q + r
    BY <1>2, <2>1
  <2>3. q >= 1 => n * q >= n
    BY <1>2, <2>2
  <2>4. q <= -1 => n * q <= - n
    BY <1>2, <2>2
  <2>5. q = 0
    BY <1>2, <2>2, <2>3, <2>4
  <2>6. n * q = 0
    BY <1>2, <2>5
  <2> QED BY <1>2, <2>1, <2>2, <2>6
<1>5. (a % n) + 1 \in 1 .. n /\ disk[(a % n) + 1] \in S
  BY <1>1, <1>2, <1>3
<1> QED BY <1>1, <1>4, <1>5 DEF At

\* More inodes known, more blocks there can be.
LEMMA MoreBlocks ==
    ASSUME NEW K, NEW M, K \subseteq M
    PROVE  Blocks(K) \subseteq Blocks(M) /\ DirBlocks(K) \subseteq DirBlocks(M)
<1>1. PICK A, B : A = Slots \X (K \cup {-1}) /\ B = Slots \X (M \cup {-1})
  OBVIOUS
<1>2. A \subseteq B
  BY <1>1
<1>3. [1 .. EntriesPerBlock -> A] \subseteq [1 .. EntriesPerBlock -> B]
  BY <1>2
<1>4. PICK F, G : F = [1 .. EntriesPerBlock -> A] /\ G = [1 .. EntriesPerBlock -> B]
  OBVIOUS
<1>5. [block_type : {"dir"}, entries : F] \subseteq [block_type : {"dir"}, entries : G]
  BY <1>3, <1>4
<1>6. DirBlocks(K) \subseteq DirBlocks(M)
  BY <1>1, <1>4, <1>5 DEF DirBlocks
<1> QED BY <1>6 DEF Blocks

\* Commit writes the pieces of the map in a loop over the inodes, a fold.
Updated(u, inum, map) ==
    IF Contains(u.chunks, Chunk(inum)) THEN u
    ELSE [chunks |-> Append(u.chunks, Chunk(inum)),
          disk |-> Append(u.disk, ImapChunk(map, Chunk(inum))),
          cr |-> [u.cr EXCEPT ![Chunk(inum) + 1] = Len(u.disk)]]

Begin(blocks) == [chunks |-> << >>, disk |-> disk \o blocks, cr |-> cr]

IsUpdates(g, base, map, p, D) ==
    g = [s \in SUBSET D |-> IF s = {} THEN base ELSE Updated(g[s \ {Max(s)}], p[Max(s)], map)]

Updates(blocks, map, inums) ==
    (CHOOSE g : IsUpdates(g, Begin(blocks), map, inums, DOMAIN inums))[DOMAIN inums]

LEMMA CommitIsAFold ==
    ASSUME NEW blocks, NEW map, NEW inums, Commit(blocks, map, inums)
    PROVE  /\ inode_map' = map /\ cr' = Updates(blocks, map, inums).cr
           /\ disk' = IF option.no_force THEN Updates(blocks, map, inums).disk
                      ELSE Synced(Updates(blocks, map, inums).disk, Updates(blocks, map, inums).cr)
           /\ commands' = commands + 1 /\ option' = option /\ failed' = failed
BY Zenon DEF Commit, FoldLeft, MapThenFoldSet, Updates, IsUpdates, Updated, Begin

\* The piece x of the map m is on d behind the first n blocks, and c says where.
Rewritten(d, c, m, n, x) == c[x] \in n .. Len(d) - 1 /\ d[c[x] + 1] = ImapChunk(m, x - 1)

\* What the loop has made of the blocks w and the checkpoint c: it adds to the blocks.
Underway(w, c, m, K) ==
    {u \in [chunks : Seq(Int), disk : Seq(Blocks(K)), cr : [1 .. NUM_IMAP_PTRS_IN_CR -> Int]] :
        /\ Len(u.disk) >= Len(w) /\ \A k \in 1 .. Len(w) : u.disk[k] = w[k]
        /\ \A x \in 1 .. NUM_IMAP_PTRS_IN_CR :
              \/ u.cr[x] = c[x] /\ ~ Contains(u.chunks, x - 1)
              \/ Rewritten(u.disk, u.cr, m, Len(w), x)}

\* A piece of a map is one.
LEMMA PiecesAre ==
    ASSUME LFSAssumption, NEW map \in [Inums -> Int], NEW c \in 0 .. NUM_IMAP_PTRS_IN_CR - 1
    PROVE  /\ ImapChunk(map, c) \in ImapBlocks
           /\ \A r \in 1 .. NUM_INODES_PER_IMAP_CHUNK :
                 ImapChunk(map, c).entries[r] = map[c * NUM_INODES_PER_IMAP_CHUNK + r - 1]
<1>1. PICK k, p : k = NUM_INODES_PER_IMAP_CHUNK /\ p = NUM_IMAP_PTRS_IN_CR
  OBVIOUS
<1>2. c \in 0 .. p - 1 /\ k \in Nat \ {0} /\ p \in Nat \ {0} /\ Inums = 0 .. p * k - 1
  BY <1>1 DEF LFSAssumption, Inums, NUM_INODES
<1>3. PICK e : e = [j \in 1 .. k |-> map[c * k + j - 1]]
  OBVIOUS
<1>4. ASSUME NEW j \in 1 .. k
      PROVE  c * k + j - 1 \in Inums
  <2>1. PICK q, t : q = c * k /\ t = (p - 1) * k
    OBVIOUS
  <2>2. q \in Int /\ t \in Int /\ 0 <= q /\ q <= t /\ p * k = t + k
    BY <1>2, <2>1
  <2>3. q + j - 1 \in 0 .. p * k - 1
    BY <1>2, <2>2
  <2> QED BY <1>2, <2>1, <2>3
<1>5. e \in [1 .. k -> Int]
  BY <1>2, <1>3, <1>4
<1>6. ImapChunk(map, c) = [block_type |-> "imap", entries |-> e]
  BY <1>1, <1>3 DEF ImapChunk
<1>7. ImapChunk(map, c) \in ImapBlocks /\ ImapChunk(map, c).entries = e
  BY <1>1, <1>5, <1>6 DEF ImapBlocks
<1> QED BY <1>1, <1>3, <1>7

LEMMA PieceIs ==
    ASSUME LFSAssumption, NEW map \in [Inums -> Int], NEW i \in Inums
    PROVE  /\ ImapChunk(map, Chunk(i)) \in ImapBlocks
           /\ ImapChunk(map, Chunk(i)).entries[(i % NUM_INODES_PER_IMAP_CHUNK) + 1] = map[i]
<1>1. PICK c, r, k : /\ c = Chunk(i) /\ r = (i % NUM_INODES_PER_IMAP_CHUNK) + 1
                     /\ k = NUM_INODES_PER_IMAP_CHUNK
  OBVIOUS
<1>2. c \in 0 .. NUM_IMAP_PTRS_IN_CR - 1 /\ r \in 1 .. k /\ c * k + r - 1 = i
  BY <1>1, ChunkIs
<1>3. /\ ImapChunk(map, c) \in ImapBlocks
      /\ ImapChunk(map, c).entries[r] = map[c * k + r - 1]
  BY <1>1, <1>2, PiecesAre
<1> QED BY <1>1, <1>2, <1>3

\* One turn of the loop.
LEMMA UpdatedIs ==
    ASSUME LFSAssumption, NEW K, NEW w \in Seq(Blocks(K)), NEW c, NEW map \in [Inums -> Int],
           NEW u \in Underway(w, c, map, K), NEW i \in Inums
    PROVE  /\ Updated(u, i, map) \in Underway(w, c, map, K)
           /\ Rewritten(Updated(u, i, map).disk, Updated(u, i, map).cr, map, Len(w), Chunk(i) + 1)
           /\ \A x \in 1 .. NUM_IMAP_PTRS_IN_CR :
                 Rewritten(u.disk, u.cr, map, Len(w), x)
                     => Rewritten(Updated(u, i, map).disk, Updated(u, i, map).cr, map, Len(w), x)
<1>1. PICK h, d, e, v, n, m, y, b :
          /\ h = u.chunks /\ d = u.disk /\ e = u.cr /\ v = Updated(u, i, map)
          /\ n = Len(w) /\ m = Len(d) /\ y = Chunk(i) + 1 /\ b = ImapChunk(map, Chunk(i))
  OBVIOUS
<1>2. /\ h \in Seq(Int) /\ d \in Seq(Blocks(K)) /\ e \in [1 .. NUM_IMAP_PTRS_IN_CR -> Int]
      /\ m >= n /\ \A k \in 1 .. n : d[k] = w[k]
      /\ \A x \in 1 .. NUM_IMAP_PTRS_IN_CR :
            (e[x] = c[x] /\ ~ Contains(h, x - 1)) \/ Rewritten(d, e, map, n, x)
      /\ n \in Nat /\ m \in Nat /\ DOMAIN d = 1 .. m
  BY <1>1 DEF Underway
<1>3. /\ y \in 1 .. NUM_IMAP_PTRS_IN_CR /\ y - 1 = Chunk(i) /\ Chunk(i) \in Int
      /\ b \in Blocks(K) /\ b = ImapChunk(map, y - 1)
  <2>1. y \in 1 .. NUM_IMAP_PTRS_IN_CR /\ Chunk(i) \in 0 .. NUM_IMAP_PTRS_IN_CR - 1
    BY <1>1, ChunkIs
  <2>2. y - 1 = Chunk(i) /\ Chunk(i) \in Int
    BY <1>1, <2>1
  <2>3. b \in Blocks(K)
    BY <1>1, PieceIs DEF Blocks
  <2> QED BY <1>1, <2>1, <2>2, <2>3
<1>4. CASE Contains(h, Chunk(i))
  <2>1. v = u
    BY <1>1, <1>4 DEF Updated
  <2>2. Rewritten(d, e, map, n, y)
    BY <1>2, <1>3, <1>4
  <2> QED BY <1>1, <2>1, <2>2
<1>5. CASE ~ Contains(h, Chunk(i))
  <2>1. PICK h2, d2, e2 : h2 = Append(h, Chunk(i)) /\ d2 = Append(d, b) /\ e2 = [e EXCEPT ![y] = m]
    OBVIOUS
  <2>2. v = [chunks |-> h2, disk |-> d2, cr |-> e2]
    BY <1>1, <1>5, <2>1 DEF Updated
  <2>3. v.chunks = h2 /\ v.disk = d2 /\ v.cr = e2
    BY <2>2
  <2>4. /\ h2 \in Seq(Int) /\ d2 \in Seq(Blocks(K)) /\ e2 \in [1 .. NUM_IMAP_PTRS_IN_CR -> Int]
        /\ Len(d2) = m + 1 /\ d2[m + 1] = b /\ \A k \in 1 .. m : d2[k] = d[k]
        /\ e2[y] = m /\ \A x \in 1 .. NUM_IMAP_PTRS_IN_CR : x # y => e2[x] = e[x]
        /\ Len(h2) = Len(h) + 1 /\ Len(h) \in Nat /\ h2[Len(h) + 1] = y - 1
        /\ \A k \in 1 .. Len(h) : h2[k] = h[k]
    BY <1>2, <1>3, <2>1
  <2>5. Rewritten(d2, e2, map, n, y)
    BY <1>2, <1>3, <2>4 DEF Rewritten
  <2>6. ASSUME NEW x \in 1 .. NUM_IMAP_PTRS_IN_CR, Rewritten(d, e, map, n, x)
        PROVE  Rewritten(d2, e2, map, n, x)
    <3>1. CASE x = y
      BY <2>5, <3>1
    <3>2. CASE x # y
      <4>1. e[x] \in n .. m - 1 /\ d[e[x] + 1] = ImapChunk(map, x - 1)
        BY <1>1, <2>6 DEF Rewritten
      <4>2. e2[x] = e[x] /\ e[x] + 1 \in 1 .. m
        BY <1>2, <2>4, <3>2, <4>1
      <4> QED BY <1>2, <2>4, <4>1, <4>2 DEF Rewritten
    <3> QED BY <3>1, <3>2
  <2>7. ASSUME NEW x \in 1 .. NUM_IMAP_PTRS_IN_CR
        PROVE  (e2[x] = c[x] /\ ~ Contains(h2, x - 1)) \/ Rewritten(d2, e2, map, n, x)
    <3>1. CASE x = y
      BY <2>5, <3>1
    <3>2. CASE x # y /\ ~ Rewritten(d, e, map, n, x)
      <4>1. e2[x] = c[x] /\ ~ Contains(h, x - 1)
        BY <1>2, <2>4, <3>2
      <4>2. ~ Contains(h2, x - 1)
        <5>1. y - 1 # x - 1
          BY <1>3, <3>2
        <5>2. \A k \in 1 .. Len(h) + 1 : k = Len(h) + 1 \/ k \in 1 .. Len(h)
          BY <2>4
        <5> QED BY <2>4, <4>1, <5>1, <5>2 DEF Contains
      <4> QED BY <4>1, <4>2
    <3>3. CASE Rewritten(d, e, map, n, x)
      BY <2>6, <3>3
    <3> QED BY <3>1, <3>2, <3>3
  <2>8. v \in [chunks : Seq(Int), disk : Seq(Blocks(K)), cr : [1 .. NUM_IMAP_PTRS_IN_CR -> Int]]
    BY <2>2, <2>4
  <2>9. Len(d2) >= n /\ \A k \in 1 .. n : d2[k] = w[k]
    <3>1. Len(d2) >= n
      BY <1>2, <2>4
    <3>2. ASSUME NEW k \in 1 .. n
          PROVE  d2[k] = w[k]
      <4>1. k \in 1 .. m
        BY <1>2
      <4> QED BY <1>2, <2>4, <4>1
    <3> QED BY <3>1, <3>2
  <2>10. v \in Underway(w, c, map, K)
    BY <1>1, <2>3, <2>7, <2>8, <2>9 DEF Underway
  <2> QED BY <1>1, <2>3, <2>5, <2>6, <2>10
<1> QED BY <1>4, <1>5

\* What the loop has made when it is over.
LEMMA UpdatesAre ==
    ASSUME LFSAssumption, NEW K, NEW blocks \in Seq(Blocks(K)), disk \in Seq(Blocks(K)),
           cr \in [1 .. NUM_IMAP_PTRS_IN_CR -> Int], NEW map \in [Inums -> Int],
           NEW inums \in Seq(Inums), Len(inums) \in {1, 2}
    PROVE  /\ Updates(blocks, map, inums) \in Underway(disk \o blocks, cr, map, K)
           /\ \A k \in 1 .. Len(inums) :
                 Rewritten(Updates(blocks, map, inums).disk, Updates(blocks, map, inums).cr,
                           map, Len(disk \o blocks), Chunk(inums[k]) + 1)
<1>1. PICK w, n, S, base, c :
          /\ w = disk \o blocks /\ n = Len(inums) /\ S = Underway(w, c, map, K)
          /\ base = Begin(blocks) /\ c = cr
  OBVIOUS
<1>2. /\ n \in Nat /\ n \in {1, 2} /\ DOMAIN inums = 1 .. n
      /\ \A k \in 1 .. n : inums[k] \in Inums
      /\ w \in Seq(Blocks(K)) /\ c \in [1 .. NUM_IMAP_PTRS_IN_CR -> Int]
  BY <1>1
<1>3. base \in S
  <2>1. base = [chunks |-> << >>, disk |-> w, cr |-> c]
    BY <1>1 DEF Begin
  <2>2. base.chunks = << >> /\ base.disk = w /\ base.cr = c
    BY <2>1
  <2>3. base \in [chunks : Seq(Int), disk : Seq(Blocks(K)), cr : [1 .. NUM_IMAP_PTRS_IN_CR -> Int]]
    <3>1. << >> \in Seq(Int)
      OBVIOUS
    <3> QED BY <1>2, <2>1, <3>1
  <2>4. \A x : ~ Contains(<< >>, x)
    BY DEF Contains
  <2>5. Len(w) >= Len(w)
    BY <1>2
  <2> QED BY <1>1, <2>2, <2>3, <2>4, <2>5 DEF Underway
<1>4. PICK step : step = [x \in S \X Inums |-> Updated(x[1], x[2], map)]
  OBVIOUS
<1>5. step \in [S \X Inums -> S]
  <2> SUFFICES ASSUME NEW x \in S \X Inums
               PROVE  Updated(x[1], x[2], map) \in S
    BY <1>4
  <2>1. PICK u, i : u = x[1] /\ i = x[2]
    OBVIOUS
  <2>2. u \in Underway(w, c, map, K) /\ i \in Inums
    BY <1>1, <2>1
  <2>3. Updated(u, i, map) \in Underway(w, c, map, K)
    BY <1>2, <2>2, UpdatedIs
  <2> QED BY <1>1, <2>1, <2>3
<1>6. PICK g \in [SUBSET (1 .. n) -> S] : Takes(g, n, base, inums, step)
  BY <1>2, <1>3, <1>5, StepsExist
<1>7. IsUpdates(g, base, map, inums, 1 .. n)
  <2> SUFFICES ASSUME NEW s \in SUBSET (1 .. n)
               PROVE  g[s] = IF s = {} THEN base ELSE Updated(g[s \ {Max(s)}], inums[Max(s)], map)
    BY DEF IsUpdates
  <2>1. CASE s = {}
    BY <1>6, <2>1 DEF Takes
  <2>2. CASE s # {}
    <3>1. Max(s) \in s
      BY <1>2, <2>2, LastPlace
    <3>2. PICK u, i : u = g[s \ {Max(s)}] /\ i = inums[Max(s)]
      OBVIOUS
    <3>3. u \in S /\ i \in Inums
      BY <1>2, <3>1, <3>2
    <3>4. g[s] = step[<<u, i>>]
      BY <1>6, <2>2, <3>2 DEF Takes
    <3>5. step[<<u, i>>] = Updated(u, i, map)
      BY <1>4, <3>3
    <3> QED BY <2>2, <3>2, <3>4, <3>5
  <2> QED BY <2>1, <2>2
<1>8. PICK h : h = CHOOSE f : IsUpdates(f, base, map, inums, 1 .. n)
  OBVIOUS
<1>9. IsUpdates(h, base, map, inums, 1 .. n)
  BY <1>7, <1>8, Zenon
<1>10. Updates(blocks, map, inums) = h[1 .. n]
  BY <1>1, <1>2, <1>8 DEF Updates
<1>11. ASSUME NEW k \in 1 .. n
       PROVE  h[1 .. k] = Updated(h[1 .. k - 1], inums[k], map)
  <2>1. /\ 1 .. k \in SUBSET (1 .. n) /\ 1 .. k # {} /\ Max(1 .. k) = k
        /\ (1 .. k) \ {Max(1 .. k)} = 1 .. k - 1
    BY <1>2, FirstPlaces
  <2>2. \A s \in SUBSET (1 .. n) :
           h[s] = IF s = {} THEN base ELSE Updated(h[s \ {Max(s)}], inums[Max(s)], map)
    BY <1>9, Zenon DEF IsUpdates
  <2>3. h[1 .. k] = Updated(h[(1 .. k) \ {Max(1 .. k)}], inums[Max(1 .. k)], map)
    BY <2>1, <2>2, Zenon
  <2> QED BY <2>1, <2>3, Zenon
<1>12. h[{}] = base
  <2>1. {} \in SUBSET (1 .. n)
    OBVIOUS
  <2>2. \A s \in SUBSET (1 .. n) :
           h[s] = IF s = {} THEN base ELSE Updated(h[s \ {Max(s)}], inums[Max(s)], map)
    BY <1>9, Zenon DEF IsUpdates
  <2> QED BY <2>1, <2>2
<1>13. PICK u1, i : u1 = h[1 .. 1] /\ i = inums[1]
  OBVIOUS
<1>14. u1 = Updated(base, i, map) /\ i \in Inums
  <2>1. 1 \in 1 .. n /\ 1 .. 1 - 1 = {}
    BY <1>2
  <2>2. h[1 .. 1] = Updated(h[1 .. 1 - 1], inums[1], map)
    BY <1>11, <2>1
  <2> QED BY <1>2, <1>12, <1>13, <2>1, <2>2
<1>15. u1 \in S /\ Rewritten(u1.disk, u1.cr, map, Len(w), Chunk(i) + 1)
  <2>1. base \in Underway(w, c, map, K)
    BY <1>1, <1>3
  <2>2. /\ Updated(base, i, map) \in Underway(w, c, map, K)
        /\ Rewritten(Updated(base, i, map).disk, Updated(base, i, map).cr, map, Len(w), Chunk(i) + 1)
    BY <1>2, <1>14, <2>1, UpdatedIs
  <2> QED BY <1>1, <1>14, <2>2
<1>16. CASE n = 1
  <2>1. Updates(blocks, map, inums) = u1
    BY <1>10, <1>13, <1>16
  <2>2. \A k \in 1 .. n : k = 1
    BY <1>16
  <2> QED BY <1>1, <1>13, <1>15, <2>1, <2>2
<1>17. CASE n = 2
  <2>1. PICK u2, j : u2 = h[1 .. 2] /\ j = inums[2]
    OBVIOUS
  <2>2. u2 = Updated(u1, j, map) /\ j \in Inums
    <3>1. 2 \in 1 .. n /\ 1 .. 2 - 1 = 1 .. 1
      BY <1>17
    <3>2. h[1 .. 2] = Updated(h[1 .. 2 - 1], inums[2], map)
      BY <1>11, <3>1
    <3> QED BY <1>2, <1>13, <2>1, <3>1, <3>2
  <2>3. u1 \in Underway(w, c, map, K)
    BY <1>1, <1>15
  <2>4. Chunk(i) + 1 \in 1 .. NUM_IMAP_PTRS_IN_CR
    BY <1>14, ChunkIs
  <2>5. /\ u2 \in Underway(w, c, map, K)
        /\ Rewritten(u2.disk, u2.cr, map, Len(w), Chunk(j) + 1)
        /\ \A x \in 1 .. NUM_IMAP_PTRS_IN_CR :
              Rewritten(u1.disk, u1.cr, map, Len(w), x) => Rewritten(u2.disk, u2.cr, map, Len(w), x)
    <3>1. /\ Updated(u1, j, map) \in Underway(w, c, map, K)
          /\ Rewritten(Updated(u1, j, map).disk, Updated(u1, j, map).cr, map, Len(w), Chunk(j) + 1)
          /\ \A x \in 1 .. NUM_IMAP_PTRS_IN_CR :
                Rewritten(u1.disk, u1.cr, map, Len(w), x)
                  => Rewritten(Updated(u1, j, map).disk, Updated(u1, j, map).cr, map, Len(w), x)
      BY <1>2, <2>2, <2>3, UpdatedIs
    <3> QED BY <2>2, <3>1
  <2>6. Rewritten(u2.disk, u2.cr, map, Len(w), Chunk(i) + 1)
    BY <1>15, <2>4, <2>5
  <2>7. Updates(blocks, map, inums) = u2
    BY <1>10, <1>17, <2>1
  <2>8. \A k \in 1 .. n : k = 1 \/ k = 2
    BY <1>17
  <2> QED BY <1>1, <1>13, <2>1, <2>5, <2>6, <2>7, <2>8
<1> QED BY <1>2, <1>16, <1>17

-----------------------------------------------------------------------------
\* A command writes the inode at address a.
FreshInode(blocks, a) ==
    a \in Len(disk) .. Len(disk) + Len(blocks) - 1 /\ blocks[a - Len(disk) + 1] \in GoodInodes

\* What a command may do with the entry of i in the map: leave it, change it and write
\* its piece of the map, or write the inode again.
Kept(blocks, map, inums, i) ==
    \/ map[i] = inode_map[i]
    \/ /\ \E k \in 1 .. Len(inums) : Chunk(i) = Chunk(inums[k])
       /\ map[i] = -1 \/ FreshInode(blocks, map[i])
    \/ /\ inode_map[i] # -1 /\ FreshInode(blocks, map[i])
       /\ SameInodes(disk[inode_map[i] + 1], blocks[map[i] - Len(disk) + 1])

KnownWith(inums) == Known(cr) \cup {inums[k] : k \in 1 .. Len(inums)}

\* Commit keeps the log in order.
LEMMA CommitKeeps ==
    ASSUME LFSAssumption, LogOK(disk, cr, inode_map), ~ option.no_force,
           NEW inums \in Seq(Inums), Len(inums) \in {1, 2},
           NEW blocks \in Seq(Blocks(KnownWith(inums))), NEW map \in [Inums -> Int],
           \A i \in Inums : Kept(blocks, map, inums, i),
           Commit(blocks, map, inums)
    PROVE  LogOK(disk', cr', inode_map') /\ option' = option /\ commands' = commands + 1
<1>1. PICK K, P, u, c, d, e, n, b, w :
          /\ K = KnownWith(inums) /\ u = Updates(blocks, map, inums) /\ c = u.cr /\ d = u.disk
          /\ e = Synced(d, c) /\ n = Len(disk) /\ b = Len(blocks) /\ w = disk \o blocks
          /\ P = NUM_IMAP_PTRS_IN_CR
  OBVIOUS
<1>2. /\ disk \in Seq(Blocks(Known(cr))) /\ n \in Nat /\ n > 0
      /\ Mapped(disk, inode_map) /\ Listed(disk, cr) /\ \A i \in Inums : Current(disk, cr, inode_map, i)
      /\ ROOT_INODE \in Known(cr)
  BY <1>1 DEF LogOK
<1>3. disk \in Seq(Blocks(K)) /\ cr \in [1 .. P -> Int]
  <2>1. Blocks(Known(cr)) \subseteq Blocks(K)
    BY <1>1, MoreBlocks DEF KnownWith
  <2>2. disk \in Seq(Blocks(K))
    BY <1>2, <2>1
  <2> QED BY <1>1, <1>2, <2>2 DEF Listed
<1>4. /\ u \in Underway(w, cr, map, K)
      /\ \A k \in 1 .. Len(inums) : Rewritten(d, c, map, Len(w), Chunk(inums[k]) + 1)
  <2>1. blocks \in Seq(Blocks(K)) /\ disk \in Seq(Blocks(K)) /\ cr \in [1 .. NUM_IMAP_PTRS_IN_CR -> Int]
    BY <1>1, <1>3
  <2>2. /\ Updates(blocks, map, inums) \in Underway(disk \o blocks, cr, map, K)
        /\ \A k \in 1 .. Len(inums) :
              Rewritten(Updates(blocks, map, inums).disk, Updates(blocks, map, inums).cr,
                        map, Len(disk \o blocks), Chunk(inums[k]) + 1)
    BY <2>1, UpdatesAre
  <2> QED BY <1>1, <2>2
<1>5. PICK l, m : l = Len(w) /\ m = Len(d)
  OBVIOUS
<1>6. /\ b \in Nat /\ l = n + b /\ w \in Seq(Blocks(K))
      /\ \A k \in 1 .. n : w[k] = disk[k]
      /\ \A k \in 1 .. b : w[n + k] = blocks[k]
  BY <1>1, <1>3, <1>5
<1>7. /\ d \in Seq(Blocks(K)) /\ m \in Nat /\ m >= l /\ c \in [1 .. P -> Int]
      /\ \A k \in 1 .. l : d[k] = w[k]
      /\ \A x \in 1 .. P : c[x] = cr[x] \/ Rewritten(d, c, map, l, x)
  BY <1>1, <1>4, <1>5 DEF Underway
<1>8. /\ e \in Seq(Blocks(K)) /\ Len(e) = m /\ e[1] = Checkpoint(c)
      /\ \A k \in 2 .. m : e[k] = d[k]
  <2>1. Checkpoint(c) \in Blocks(K)
    BY <1>1, <1>7 DEF Checkpoint, Blocks, OtherBlocks
  <2>2. PICK z : z = Checkpoint(c)
    OBVIOUS
  <2>3. e = [d EXCEPT ![1] = z] /\ z \in Blocks(K)
    BY <1>1, <2>1, <2>2 DEF Synced
  <2>4. 1 \in 1 .. m
    BY <1>2, <1>6, <1>7
  <2> QED BY <1>5, <1>7, <2>2, <2>3, <2>4
<1>9. \A k \in 2 .. n : e[k] = disk[k]
  <2> SUFFICES ASSUME NEW k \in 2 .. n
               PROVE  e[k] = disk[k]
    OBVIOUS
  <2>1. k \in 1 .. n /\ k \in 1 .. l /\ k \in 2 .. m
    BY <1>2, <1>6, <1>7
  <2> QED BY <1>6, <1>7, <1>8, <2>1
<1>10. ASSUME NEW a, FreshInode(blocks, a)
       PROVE  a \in 1 .. m - 1 /\ a # -1 /\ e[a + 1] \in GoodInodes /\ e[a + 1] = blocks[a - n + 1]
  <2>1. a \in n .. n + b - 1 /\ blocks[a - n + 1] \in GoodInodes
    BY <1>1, <1>10 DEF FreshInode
  <2>2. PICK k : k = a - n + 1
    OBVIOUS
  <2>3. k \in 1 .. b /\ a + 1 = n + k /\ a + 1 \in 1 .. l /\ a + 1 \in 2 .. m /\ a \in 1 .. m - 1
    BY <1>2, <1>6, <1>7, <2>1, <2>2
  <2>4. e[a + 1] = d[a + 1] /\ d[a + 1] = w[a + 1] /\ w[n + k] = blocks[k]
    BY <1>6, <1>7, <1>8, <2>3
  <2> QED BY <2>1, <2>2, <2>3, <2>4
<1>11. ASSUME NEW i \in Inums, inode_map[i] # -1
       PROVE  inode_map[i] \in 1 .. m - 1 /\ inode_map[i] \in 1 .. n - 1
              /\ e[inode_map[i] + 1] = disk[inode_map[i] + 1] /\ disk[inode_map[i] + 1] \in GoodInodes
  <2>1. PICK a : a = inode_map[i]
    OBVIOUS
  <2>2. a \in 1 .. n - 1 /\ disk[a + 1] \in GoodInodes
    BY <1>1, <1>2, <1>11, <2>1 DEF Mapped
  <2>3. a + 1 \in 2 .. n /\ a \in 1 .. m - 1
    BY <1>2, <1>6, <1>7, <2>2
  <2> QED BY <1>9, <2>1, <2>2, <2>3
<1>12. Mapped(e, map)
  <2> SUFFICES ASSUME NEW i \in Inums, map[i] # -1
               PROVE  map[i] \in 1 .. Len(e) - 1 /\ e[map[i] + 1] \in GoodInodes
    BY DEF Mapped
  <2>1. map[i] = inode_map[i] \/ FreshInode(blocks, map[i])
    BY DEF Kept
  <2>2. CASE map[i] = inode_map[i]
    BY <1>8, <1>11, <2>2
  <2>3. CASE FreshInode(blocks, map[i])
    BY <1>8, <1>10, <2>3
  <2> QED BY <2>1, <2>2, <2>3
<1>13. ASSUME NEW x \in 1 .. P, Rewritten(d, c, map, l, x)
       PROVE  c[x] \in 1 .. m - 1 /\ e[c[x] + 1] = ImapChunk(map, x - 1)
  <2>1. c[x] \in l .. m - 1 /\ d[c[x] + 1] = ImapChunk(map, x - 1)
    BY <1>5, <1>13 DEF Rewritten
  <2>2. c[x] + 1 \in 2 .. m /\ c[x] \in 1 .. m - 1
    BY <1>2, <1>6, <1>7, <2>1
  <2> QED BY <1>8, <2>1, <2>2
<1>14. ASSUME NEW x \in 1 .. P, cr[x] # -1
       PROVE  cr[x] \in 1 .. m - 1 /\ e[cr[x] + 1] = disk[cr[x] + 1] /\ disk[cr[x] + 1] \in ImapBlocks
  <2>1. PICK a : a = cr[x]
    OBVIOUS
  <2>2. a \in 1 .. n - 1 /\ disk[a + 1] \in ImapBlocks
    BY <1>1, <1>2, <1>14, <2>1 DEF Listed
  <2>3. a + 1 \in 2 .. n /\ a \in 1 .. m - 1
    BY <1>2, <1>6, <1>7, <2>2
  <2> QED BY <1>9, <2>1, <2>2, <2>3
<1>15. Listed(e, c)
  <2> SUFFICES ASSUME NEW x \in 1 .. P, c[x] # -1
               PROVE  c[x] \in 1 .. m - 1 /\ e[c[x] + 1] \in ImapBlocks
    BY <1>1, <1>7, <1>8 DEF Listed
  <2>1. CASE Rewritten(d, c, map, l, x)
    <3>1. x - 1 \in 0 .. NUM_IMAP_PTRS_IN_CR - 1
      BY <1>1 DEF LFSAssumption
    <3>2. ImapChunk(map, x - 1) \in ImapBlocks
      BY <3>1, PiecesAre
    <3> QED BY <1>13, <2>1, <3>2
  <2>2. CASE c[x] = cr[x]
    BY <1>14, <2>2
  <2> QED BY <1>7, <2>1, <2>2
<1>16. K \subseteq Known(c)
  <2> SUFFICES ASSUME NEW i \in K
               PROVE  i \in Inums /\ c[Chunk(i) + 1] # -1
    BY DEF Known
  <2>1. CASE i \in Known(cr)
    <3>1. i \in Inums /\ cr[Chunk(i) + 1] # -1
      BY <2>1 DEF Known
    <3>2. Chunk(i) + 1 \in 1 .. P
      BY <1>1, <3>1, ChunkIs
    <3>3. CASE c[Chunk(i) + 1] = cr[Chunk(i) + 1]
      BY <3>1, <3>3
    <3>4. CASE Rewritten(d, c, map, l, Chunk(i) + 1)
      BY <1>13, <3>1, <3>2, <3>4
    <3> QED BY <1>7, <3>2, <3>3, <3>4
  <2>2. CASE \E k \in 1 .. Len(inums) : i = inums[k]
    <3>1. PICK k \in 1 .. Len(inums) : i = inums[k]
      BY <2>2
    <3>2. i \in Inums
      BY <3>1
    <3>3. Chunk(i) + 1 \in 1 .. P
      BY <1>1, <3>2, ChunkIs
    <3>4. Rewritten(d, c, map, l, Chunk(i) + 1)
      BY <1>4, <1>5, <3>1
    <3> QED BY <1>13, <3>2, <3>3, <3>4
  <2> QED BY <1>1, <2>1, <2>2 DEF KnownWith
<1>17. e \in Seq(Blocks(Known(c))) /\ Len(e) > 0 /\ e[1] = Checkpoint(c)
  <2>1. Blocks(K) \subseteq Blocks(Known(c))
    BY <1>16, MoreBlocks
  <2> QED BY <1>2, <1>6, <1>7, <1>8, <2>1
<1>18. ASSUME NEW i \in Inums
       PROVE  Current(e, c, map, i)
  <2>1. PICK x, r : x = Chunk(i) + 1 /\ r = (i % NUM_INODES_PER_IMAP_CHUNK) + 1
    OBVIOUS
  <2>2. x \in 1 .. P /\ Kept(blocks, map, inums, i) /\ x - 1 = Chunk(i)
    <3>1. Chunk(i) \in 0 .. P - 1 /\ Chunk(i) + 1 \in 1 .. P
      BY <1>1, ChunkIs
    <3> QED BY <2>1, <3>1
  <2>3. Saved(e, c, i) = e[c[x] + 1].entries[r] /\ Saved(disk, cr, i) = disk[cr[x] + 1].entries[r]
    BY <2>1 DEF Saved
  <2>4. CASE Rewritten(d, c, map, l, x)
    <3>1. c[x] # -1 /\ e[c[x] + 1] = ImapChunk(map, Chunk(i))
      BY <1>13, <2>2, <2>4
    <3>2. Saved(e, c, i) = map[i]
      BY <2>1, <2>3, <3>1, PieceIs
    <3>3. map[i] # -1 => map[i] \in 1 .. Len(e) - 1 /\ e[map[i] + 1] \in GoodInodes
      BY <1>12 DEF Mapped
    <3>4. SameInodes(e[map[i] + 1], e[map[i] + 1])
      BY DEF SameInodes
    <3> QED BY <2>1, <3>1, <3>2, <3>3, <3>4 DEF Current
  <2>5. CASE ~ Rewritten(d, c, map, l, x)
    <3>1. c[x] = cr[x] /\ Current(disk, cr, inode_map, i)
      BY <1>2, <1>7, <2>2, <2>5
    <3>2. ~ \E k \in 1 .. Len(inums) : Chunk(i) = Chunk(inums[k])
      BY <1>4, <1>5, <2>1, <2>5
    <3>3. CASE c[x] = -1
      <4>1. inode_map[i] = -1
        BY <2>1, <3>1, <3>3 DEF Current
      <4>2. map[i] = -1
        BY <2>2, <3>2, <4>1 DEF Kept
      <4> QED BY <2>1, <3>3, <4>2 DEF Current
    <3>4. CASE c[x] # -1
      <4>1. PICK a : a = Saved(disk, cr, i)
        OBVIOUS
      <4>2. Saved(e, c, i) = a
        BY <1>14, <2>2, <2>3, <3>1, <3>4, <4>1
      <4>3. /\ a = -1 <=> inode_map[i] = -1
            /\ a # -1 => /\ a \in 1 .. n - 1 /\ disk[a + 1] \in GoodInodes
                         /\ SameInodes(disk[a + 1], disk[inode_map[i] + 1])
        BY <1>1, <2>1, <3>1, <3>4, <4>1 DEF Current
      <4>4. a # -1 => a \in 1 .. m - 1 /\ e[a + 1] = disk[a + 1]
        <5> SUFFICES ASSUME a # -1
                     PROVE  a \in 1 .. m - 1 /\ e[a + 1] = disk[a + 1]
          OBVIOUS
        <5>1. a \in 1 .. n - 1
          BY <4>3
        <5>2. a + 1 \in 2 .. n /\ a \in 1 .. m - 1
          BY <1>2, <1>6, <1>7, <5>1
        <5> QED BY <1>9, <5>2
      <4>5. CASE map[i] = inode_map[i]
        <5>1. a # -1 => e[map[i] + 1] = disk[inode_map[i] + 1]
          BY <1>11, <4>3, <4>5
        <5> QED BY <1>8, <2>1, <3>4, <4>2, <4>3, <4>4, <4>5, <5>1 DEF Current
      <4>6. CASE map[i] # inode_map[i]
        <5>1. /\ inode_map[i] # -1 /\ FreshInode(blocks, map[i])
              /\ SameInodes(disk[inode_map[i] + 1], blocks[map[i] - n + 1])
          BY <1>1, <2>2, <3>2, <4>6 DEF Kept
        <5>2. map[i] # -1 /\ e[map[i] + 1] = blocks[map[i] - n + 1]
          BY <1>10, <5>1
        <5>3. SameInodes(e[a + 1], e[map[i] + 1])
          BY <4>3, <4>4, <5>1, <5>2 DEF SameInodes
        <5> QED BY <1>8, <2>1, <3>4, <4>2, <4>3, <4>4, <5>1, <5>2, <5>3 DEF Current
      <4> QED BY <4>5, <4>6
    <3> QED BY <3>3, <3>4
  <2> QED BY <2>4, <2>5
<1>19. disk' = e /\ cr' = c /\ inode_map' = map /\ option' = option /\ commands' = commands + 1
  BY <1>1, CommitIsAFold
<1>20. LogOK(e, c, map)
  <2>1. ROOT_INODE \in Known(c)
    BY <1>1, <1>2, <1>16 DEF KnownWith
  <2> QED BY <1>12, <1>15, <1>17, <1>18, <2>1 DEF LogOK
<1> QED BY <1>19, <1>20

-----------------------------------------------------------------------------
\* What a command reads.

\* The inode a number of the map leads to: the same on the disk and in memory.
LEMMA InodeIs ==
    ASSUME LFSAssumption, LogOK(disk, cr, inode_map), NEW i \in Known(cr)
    PROVE  /\ OnDisk(i) = Saved(disk, cr, i)
           /\ InodeAddress(i) = -1 <=> inode_map[i] = -1
           /\ InodeAddress(i) # -1 => /\ GetInode(i) \in GoodInodes
                                      /\ SameInodes(GetInode(i), disk[inode_map[i] + 1])
<1>1. PICK x, r, K, n : /\ x = Chunk(i) + 1 /\ r = (i % NUM_INODES_PER_IMAP_CHUNK) + 1
                        /\ K = Known(cr) /\ n = Len(disk)
  OBVIOUS
<1>2. /\ i \in Inums /\ cr[x] # -1 /\ disk \in Seq(Blocks(K)) /\ n \in Nat /\ n > 0
      /\ disk[1] = Checkpoint(cr) /\ Mapped(disk, inode_map) /\ Listed(disk, cr)
      /\ Current(disk, cr, inode_map, i)
  BY <1>1 DEF Known, LogOK
<1>3. x \in 1 .. NUM_IMAP_PTRS_IN_CR
  BY <1>1, <1>2, ChunkIs
<1>4. ASSUME NEW a \in 0 .. n - 1
      PROVE  At(a) = disk[a + 1]
  BY <1>1, <1>2, AtIs
<1>5. OnDisk(i) = Saved(disk, cr, i)
  <2>1. At(0) = disk[0 + 1]
    BY <1>2, <1>4
  <2>2. At(0).entries = cr
    BY <1>2, <2>1 DEF Checkpoint
  <2>3. cr[x] \in 0 .. n - 1
    BY <1>1, <1>2, <1>3 DEF Listed
  <2>4. At(cr[x]) = disk[cr[x] + 1]
    BY <1>4, <2>3
  <2> QED BY <1>1, <2>2, <2>4 DEF OnDisk, Saved
<1>6. PICK a : a = Saved(disk, cr, i)
  OBVIOUS
<1>7. /\ a = -1 <=> inode_map[i] = -1
      /\ a # -1 => /\ a \in 1 .. n - 1 /\ disk[a + 1] \in GoodInodes
                   /\ SameInodes(disk[a + 1], disk[inode_map[i] + 1])
  BY <1>1, <1>2, <1>6 DEF Current
<1>8. inode_map[i] # -1 => inode_map[i] \in 1 .. n - 1 /\ disk[inode_map[i] + 1] \in GoodInodes
  BY <1>1, <1>2 DEF Mapped
<1>9. PICK b : b = InodeAddress(i)
  OBVIOUS
<1>10. b = a \/ b = inode_map[i]
  BY <1>5, <1>6, <1>9 DEF InodeAddress
<1>11. ASSUME b # -1
       PROVE  GetInode(i) \in GoodInodes /\ SameInodes(GetInode(i), disk[inode_map[i] + 1])
  <2>1. /\ b \in 1 .. n - 1 /\ disk[b + 1] \in GoodInodes
        /\ SameInodes(disk[b + 1], disk[inode_map[i] + 1])
    BY <1>7, <1>8, <1>10, <1>11 DEF SameInodes
  <2>2. b \in 0 .. n - 1
    BY <2>1
  <2>3. GetInode(i) = disk[b + 1]
    BY <1>4, <1>9, <2>2 DEF GetInode
  <2> QED BY <2>1, <2>3
<1> QED BY <1>5, <1>7, <1>9, <1>10, <1>11

\* An inode of a directory, all of whose blocks can be read.
DirInode(inode, K) ==
    /\ inode \in GoodInodes /\ inode.type = "dir"
    /\ \A k \in 1 .. inode.size : At(inode.pointers[k]) \in DirBlocks(K)

LEMMA GoodInodeIs ==
    ASSUME NEW b \in GoodInodes
    PROVE  /\ b.block_type = "inode" /\ b.type \in {"dir", "reg"} /\ b.size \in Int /\ b.refs \in Int
           /\ b.pointers \in [1 .. NUM_INODE_PTRS -> Int]
           /\ b.type = "dir" =>
                 b.size \in 1 .. NUM_INODE_PTRS /\ \A k \in 1 .. b.size : b.pointers[k] # -1
<1>1. b \in Inodes /\ Filled(b)
  BY DEF GoodInodes
<1>2. /\ b.block_type \in {"inode"} /\ b.type \in {"dir", "reg"} /\ b.size \in Int /\ b.refs \in Int
      /\ b.pointers \in [1 .. NUM_INODE_PTRS -> Int]
  BY <1>1 DEF Inodes
<1> QED BY <1>1, <1>2 DEF Filled

LEMMA DirectoryIs ==
    ASSUME LFSAssumption, LogOK(disk, cr, inode_map), NEW i \in Known(cr), IsDirectory(i)
    PROVE  /\ DirInode(GetInode(i), Known(cr)) /\ inode_map[i] # -1
           /\ SameInodes(GetInode(i), disk[inode_map[i] + 1])
<1>1. PICK K, b : K = Known(cr) /\ b = GetInode(i)
  OBVIOUS
<1>2. /\ InodeAddress(i) # -1 /\ b.type = "dir"
      /\ \A a \in ToSet(b.pointers) \ {-1} : At(a).block_type = "dir"
  BY <1>1 DEF IsDirectory, IsInode
<1>3. b \in GoodInodes /\ SameInodes(b, disk[inode_map[i] + 1]) /\ inode_map[i] # -1
  BY <1>1, <1>2, InodeIs
<1>4. /\ b.size \in 1 .. NUM_INODE_PTRS /\ b.pointers \in [1 .. NUM_INODE_PTRS -> Int]
      /\ \A k \in 1 .. b.size : b.pointers[k] # -1
  BY <1>2, <1>3, GoodInodeIs
<1>5. ASSUME NEW k \in 1 .. b.size
      PROVE  At(b.pointers[k]) \in DirBlocks(K)
  <2>1. k \in 1 .. NUM_INODE_PTRS
    BY <1>4 DEF LFSAssumption
  <2>2. PICK a : a = b.pointers[k]
    OBVIOUS
  <2>3. a \in Int /\ a # -1 /\ a \in ToSet(b.pointers)
    BY <1>4, <2>1, <2>2 DEF ToSet
  <2>4. At(a).block_type = "dir"
    BY <1>2, <2>3
  <2>5. At(a) \in Blocks(K)
    BY <1>1, <2>3, AtIs DEF LogOK
  <2> QED BY <2>2, <2>4, <2>5 DEF Blocks, Inodes, ImapBlocks, OtherBlocks
<1> QED BY <1>1, <1>2, <1>3, <1>5 DEF DirInode

\* Where a name is in a directory.
LEMMA SlotIs ==
    ASSUME NEW inode, inode.size \in Nat, EntriesPerBlock \in Nat, NEW name
    PROVE  \/ find_matching_dir_slot(name, inode) = NoSlot
           \/ /\ find_matching_dir_slot(name, inode) \in (1 .. inode.size) \X (1 .. EntriesPerBlock)
              /\ EntryAt(inode, find_matching_dir_slot(name, inode))[1] = name
              /\ find_matching_dir_slot(name, inode) # NoSlot
<1>1. PICK S : S = {s \in (1 .. inode.size) \X (1 .. EntriesPerBlock) : EntryAt(inode, s)[1] = name}
  OBVIOUS
<1>2. CASE S = {}
  BY <1>1, <1>2 DEF find_matching_dir_slot
<1>3. CASE S # {}
  <2>1. PICK A : A = {s[1] : s \in S}
    OBVIOUS
  <2>2. A \in SUBSET Nat /\ A # {}
    BY <1>1, <1>3, <2>1
  <2>3. PICK a \in A : \A y \in A : a <= y
    BY <2>2, LeastExists
  <2>4. PICK B : B = {s[2] : s \in {t \in S : t[1] = a}}
    OBVIOUS
  <2>5. B \in SUBSET Nat /\ B # {}
    BY <1>1, <2>1, <2>3, <2>4
  <2>6. PICK b \in B : \A y \in B : b <= y
    BY <2>5, LeastExists
  <2>7. PICK s \in S : s[1] = a /\ s[2] = b
    BY <2>4, <2>6
  <2>8. ASSUME NEW t \in S
        PROVE  s[1] < t[1] \/ (s[1] = t[1] /\ s[2] <= t[2])
    <3>1. a <= t[1] /\ a \in Nat /\ t[1] \in Nat
      BY <1>1, <2>1, <2>2, <2>3
    <3>2. CASE t[1] = a
      <4>1. t[2] \in B
        BY <2>4, <3>2
      <4> QED BY <2>6, <2>7, <3>2, <4>1
    <3>3. CASE t[1] # a
      BY <2>7, <3>1, <3>3
    <3> QED BY <3>2, <3>3
  <2>9. PICK z : z = CHOOSE s1 \in S : \A t \in S : s1[1] < t[1] \/ (s1[1] = t[1] /\ s1[2] <= t[2])
    OBVIOUS
  <2>10. z \in S
    BY <2>7, <2>8, <2>9
  <2>11. find_matching_dir_slot(name, inode) = z
    BY <1>1, <1>3, <2>9 DEF find_matching_dir_slot
  <2>12. z # NoSlot
    BY <1>1, <2>10 DEF NoSlot
  <2> QED BY <1>1, <2>10, <2>11, <2>12
<1> QED BY <1>2, <1>3

\* An entry of a directory.
LEMMA EntryIs ==
    ASSUME NEW K, NEW inode, DirInode(inode, K),
           NEW s \in (1 .. inode.size) \X (1 .. EntriesPerBlock)
    PROVE  /\ EntryAt(inode, s) \in Slots \X (K \cup {-1})
           /\ At(inode.pointers[s[1]]) \in DirBlocks(K)
<1>1. PICK b, k, e : b = At(inode.pointers[s[1]]) /\ k = s[2] /\ e = s[1]
  OBVIOUS
<1>2. e \in 1 .. inode.size /\ k \in 1 .. EntriesPerBlock
  BY <1>1
<1>3. b \in DirBlocks(K)
  BY <1>1, <1>2 DEF DirInode
<1>4. b.entries \in [1 .. EntriesPerBlock -> Slots \X (K \cup {-1})]
  BY <1>3 DEF DirBlocks
<1>5. b.entries[k] \in Slots \X (K \cup {-1})
  BY <1>2, <1>4
<1> QED BY <1>1, <1>3, <1>5 DEF EntryAt

\* What a name in a directory leads to.
LEMMA LookupIs ==
    ASSUME LFSAssumption, NEW K, NEW i, DirInode(GetInode(i), K), NEW name
    PROVE  /\ Lookup(i, name) \in K \cup {-1}
           /\ Lookup(i, name) # -1 =>
                 find_matching_dir_slot(name, GetInode(i))
                    \in (1 .. GetInode(i).size) \X (1 .. EntriesPerBlock)
<1>1. PICK b, s : b = GetInode(i) /\ s = find_matching_dir_slot(name, b)
  OBVIOUS
<1>2. b.size \in Nat /\ EntriesPerBlock \in Nat
  <2>1. b \in GoodInodes /\ b.type = "dir"
    BY <1>1 DEF DirInode
  <2>2. b.size \in 1 .. NUM_INODE_PTRS
    BY <2>1, GoodInodeIs
  <2> QED BY <2>2 DEF LFSAssumption
<1>3. s = NoSlot \/ (s \in (1 .. b.size) \X (1 .. EntriesPerBlock) /\ s # NoSlot)
  BY <1>1, <1>2, SlotIs
<1>4. CASE s = NoSlot
  BY <1>1, <1>4 DEF Lookup
<1>5. CASE s \in (1 .. b.size) \X (1 .. EntriesPerBlock) /\ s # NoSlot
  <2>1. EntryAt(b, s) \in Slots \X (K \cup {-1})
    BY <1>1, <1>5, EntryIs
  <2>2. Lookup(i, name) = EntryAt(b, s)[2]
    BY <1>1, <1>5 DEF Lookup
  <2>3. PICK e : e = EntryAt(b, s)
    OBVIOUS
  <2>4. e[2] \in K \cup {-1}
    BY <2>1, <2>3
  <2> QED BY <1>1, <1>5, <2>2, <2>3, <2>4
<1> QED BY <1>3, <1>4, <1>5

-----------------------------------------------------------------------------
\* The walk along a path is a fold as well.
Entering(w, name) ==
    CASE w.result # "ok" -> w
      [] w.result = "ok" /\ w.inum = -1 -> [w EXCEPT !.result = "error"]
      [] w.result = "ok" /\ w.inum # -1 /\ ~ IsDirectory(w.inum) -> [w EXCEPT !.result = "fails"]
      [] OTHER -> [w EXCEPT !.parent = w.inum, !.inum = Lookup(w.inum, name)]

AtRoot == [result |-> "ok", parent |-> ROOT_INODE, inum |-> ROOT_INODE]

IsEnterings(g, p, D) ==
    g = [s \in SUBSET D |-> IF s = {} THEN AtRoot ELSE Entering(g[s \ {Max(s)}], p[Max(s)])]

LEMMA WalkIsAFold ==
    ASSUME NEW path
    PROVE  Walk(path) = (CHOOSE g : IsEnterings(g, path, DOMAIN path))[DOMAIN path]
BY Zenon DEF Walk, FoldLeft, MapThenFoldSet, IsEnterings, Entering, AtRoot

\* Where a walk can be.
Walks(K) == [result : {"ok", "error", "fails"}, parent : K, inum : K \cup {-1}]

LEMMA EnteringIs ==
    ASSUME LFSAssumption, LogOK(disk, cr, inode_map), NEW w \in Walks(Known(cr)), NEW name
    PROVE  /\ Entering(w, name) \in Walks(Known(cr))
           /\ Entering(w, name).result = "ok" =>
                 /\ IsDirectory(Entering(w, name).parent)
                 /\ Entering(w, name).inum = Lookup(Entering(w, name).parent, name)
<1>1. PICK K : K = Known(cr)
  OBVIOUS
<1>2. /\ w.result \in {"ok", "error", "fails"} /\ w.parent \in K /\ w.inum \in K \cup {-1}
      /\ w \in [result : {"ok", "error", "fails"}, parent : K, inum : K \cup {-1}]
  BY <1>1 DEF Walks
<1>3. CASE w.result # "ok"
  BY <1>3 DEF Entering
<1>4. CASE w.result = "ok" /\ w.inum = -1
  <2>1. Entering(w, name) = [w EXCEPT !.result = "error"]
    BY <1>4 DEF Entering
  <2> QED BY <1>1, <1>2, <2>1 DEF Walks
<1>5. CASE w.result = "ok" /\ w.inum # -1 /\ ~ IsDirectory(w.inum)
  <2>1. Entering(w, name) = [w EXCEPT !.result = "fails"]
    BY <1>5 DEF Entering
  <2> QED BY <1>1, <1>2, <2>1 DEF Walks
<1>6. CASE w.result = "ok" /\ w.inum # -1 /\ IsDirectory(w.inum)
  <2>1. PICK i, j : i = w.inum /\ j = Lookup(w.inum, name)
    OBVIOUS
  <2>2. Entering(w, name) = [w EXCEPT !.parent = i, !.inum = j]
    BY <1>6, <2>1 DEF Entering
  <2>3. i \in Known(cr) /\ IsDirectory(i)
    BY <1>1, <1>2, <1>6, <2>1
  <2>4. DirInode(GetInode(i), Known(cr))
    BY <2>3, DirectoryIs
  <2>5. j \in K \cup {-1} /\ j = Lookup(i, name)
    BY <1>1, <2>1, <2>4, LookupIs
  <2>6. PICK v : v = Entering(w, name)
    OBVIOUS
  <2>7. v \in [result : {"ok", "error", "fails"}, parent : K, inum : K \cup {-1}]
        /\ v.parent = i /\ v.inum = j
    BY <1>1, <1>2, <2>2, <2>3, <2>5, <2>6
  <2> QED BY <1>1, <2>3, <2>5, <2>6, <2>7 DEF Walks
<1> QED BY <1>2, <1>3, <1>4, <1>5, <1>6

\* A walk that succeeds ends in a directory, with what its last name leads to there.
LEMMA WalkIs ==
    ASSUME LFSAssumption, LogOK(disk, cr, inode_map), NEW path \in Seq(Names), path # << >>
    PROVE  /\ Walk(path) \in Walks(Known(cr))
           /\ Walk(path).result = "ok" =>
                 /\ IsDirectory(Walk(path).parent)
                 /\ Walk(path).inum = Lookup(Walk(path).parent, Last(path))
<1>1. PICK n, S : n = Len(path) /\ S = Walks(Known(cr))
  OBVIOUS
<1>2. /\ n \in Nat /\ n > 0 /\ DOMAIN path = 1 .. n /\ \A k \in 1 .. n : path[k] \in Names
      /\ Last(path) = path[n]
  BY <1>1 DEF Last
<1>3. AtRoot \in S
  BY <1>1 DEF AtRoot, Walks, LogOK
<1>4. PICK step : step = [x \in S \X Names |-> Entering(x[1], x[2])]
  OBVIOUS
<1>5. step \in [S \X Names -> S]
  <2> SUFFICES ASSUME NEW x \in S \X Names
               PROVE  Entering(x[1], x[2]) \in S
    BY <1>4
  <2>1. PICK w, name : w = x[1] /\ name = x[2]
    OBVIOUS
  <2>2. w \in Walks(Known(cr))
    BY <1>1, <2>1
  <2>3. Entering(w, name) \in Walks(Known(cr))
    BY <2>2, EnteringIs
  <2> QED BY <1>1, <2>1, <2>3
<1>6. PICK g \in [SUBSET (1 .. n) -> S] : Takes(g, n, AtRoot, path, step)
  BY <1>2, <1>3, <1>5, StepsExist
<1>7. IsEnterings(g, path, 1 .. n)
  <2> SUFFICES ASSUME NEW s \in SUBSET (1 .. n)
               PROVE  g[s] = IF s = {} THEN AtRoot ELSE Entering(g[s \ {Max(s)}], path[Max(s)])
    BY DEF IsEnterings
  <2>1. CASE s = {}
    BY <1>6, <2>1 DEF Takes
  <2>2. CASE s # {}
    <3>1. Max(s) \in s
      BY <1>2, <2>2, LastPlace
    <3>2. PICK u, name : u = g[s \ {Max(s)}] /\ name = path[Max(s)]
      OBVIOUS
    <3>3. u \in S /\ name \in Names
      BY <1>2, <3>1, <3>2
    <3>4. g[s] = step[<<u, name>>]
      BY <1>6, <2>2, <3>2 DEF Takes
    <3>5. step[<<u, name>>] = Entering(u, name)
      BY <1>4, <3>3
    <3> QED BY <2>2, <3>2, <3>4, <3>5
  <2> QED BY <2>1, <2>2
<1>8. PICK h : h = CHOOSE f : IsEnterings(f, path, 1 .. n)
  OBVIOUS
<1>9. IsEnterings(h, path, 1 .. n)
  BY <1>7, <1>8, Zenon
<1>10. Walk(path) = h[1 .. n]
  BY <1>2, <1>8, WalkIsAFold
<1>11. \A s \in SUBSET (1 .. n) :
          h[s] = IF s = {} THEN AtRoot ELSE Entering(h[s \ {Max(s)}], path[Max(s)])
  BY <1>9, Zenon DEF IsEnterings
<1>12. h[{}] \in S
  <2>1. {} \in SUBSET (1 .. n)
    OBVIOUS
  <2> QED BY <1>3, <1>11, <2>1
<1>13. ASSUME NEW k \in 1 .. n
       PROVE  h[1 .. k] = Entering(h[1 .. k - 1], path[k])
  <2>1. /\ 1 .. k \in SUBSET (1 .. n) /\ 1 .. k # {} /\ Max(1 .. k) = k
        /\ (1 .. k) \ {Max(1 .. k)} = 1 .. k - 1
    BY <1>2, FirstPlaces
  <2>2. h[1 .. k] = Entering(h[(1 .. k) \ {Max(1 .. k)}], path[Max(1 .. k)])
    BY <1>11, <2>1, Zenon
  <2> QED BY <2>1, <2>2, Zenon
<1>14. \A k \in 1 .. n : h[1 .. k - 1] \in S => h[1 .. k] \in S
  BY <1>1, <1>13, EnteringIs
<1>15. h[1 .. n - 1] \in S
  <2>1. PICK m : m = n - 1
    OBVIOUS
  <2>2. m \in Nat /\ \A k \in 1 .. m : h[1 .. k - 1] \in S => h[1 .. k] \in S
    BY <1>2, <1>14, <2>1
  <2>3. h[1 .. m] \in S
    BY <1>12, <2>2, StepsStay
  <2> QED BY <2>1, <2>3
<1>16. PICK w : w = h[1 .. n - 1]
  OBVIOUS
<1>17. Walk(path) = Entering(w, Last(path))
  <2>1. n \in 1 .. n
    BY <1>2
  <2> QED BY <1>2, <1>10, <1>13, <1>16, <2>1
<1>18. w \in Walks(Known(cr))
  BY <1>1, <1>15, <1>16
<1> QED BY <1>17, <1>18, EnteringIs

-----------------------------------------------------------------------------
\* What a command writes.

LEMMA FreshIs ==
    ASSUME NEW S, disk \in Seq(S), NEW T, NEW blocks \in Seq(T), NEW k \in 1 .. Len(blocks),
           blocks[k] \in GoodInodes
    PROVE  /\ FreshInode(blocks, AddressOf(k)) /\ AddressOf(k) \in Int
           /\ AddressOf(k) - Len(disk) + 1 = k
<1>1. PICK n, b : n = Len(disk) /\ b = Len(blocks)
  OBVIOUS
<1>2. n \in Nat /\ b \in Nat /\ k \in 1 .. b
  BY <1>1
<1>3. PICK a : a = n + k - 1
  OBVIOUS
<1>4. a \in n .. n + b - 1 /\ a - n + 1 = k /\ a \in Int
  BY <1>2, <1>3
<1>5. AddressOf(k) = a
  BY <1>1, <1>3 DEF AddressOf
<1> QED BY <1>1, <1>4, <1>5 DEF FreshInode

LEMMA AddressIs ==
    ASSUME NEW S, disk \in Seq(S), Len(disk) > 0, NEW k \in Nat \ {0}
    PROVE  AddressOf(k) \in Int /\ AddressOf(k) # -1
BY DEF AddressOf

\* A directory block with one entry changed.
LEMMA ChangedIs ==
    ASSUME NEW K, NEW M, K \subseteq M, NEW b \in DirBlocks(K), NEW k, NEW e \in Slots \X (M \cup {-1})
    PROVE  [b EXCEPT !.entries[k] = e] \in DirBlocks(M)
<1>1. b \in DirBlocks(M)
  BY MoreBlocks
<1>2. PICK T : T = Slots \X (M \cup {-1})
  OBVIOUS
<1>3. b \in [block_type : {"dir"}, entries : [1 .. EntriesPerBlock -> T]] /\ e \in T
  BY <1>1, <1>2 DEF DirBlocks
<1>4. [b EXCEPT !.entries[k] = e] \in [block_type : {"dir"}, entries : [1 .. EntriesPerBlock -> T]]
  BY <1>3
<1> QED BY <1>2, <1>4 DEF DirBlocks

\* New blocks of a directory.
LEMMA NewBlocksAre ==
    ASSUME NEW M, NEW e \in Slots \X (M \cup {-1})
    PROVE  DirBlock([EmptyEntries EXCEPT ![1] = e]) \in DirBlocks(M)
<1>1. PICK T : T = Slots \X (M \cup {-1})
  OBVIOUS
<1>2. Free \in T
  BY <1>1 DEF Free, Slots
<1>3. [EmptyEntries EXCEPT ![1] = e] \in [1 .. EntriesPerBlock -> T]
  BY <1>1, <1>2 DEF EmptyEntries
<1> QED BY <1>1, <1>3 DEF DirBlock, DirBlocks

LEMMA NewDirBlockIs ==
    ASSUME NEW M, NEW p \in M, NEW i \in M
    PROVE  NewDirBlock(p, i) \in DirBlocks(M)
<1>1. PICK T, d, f : T = Slots \X (M \cup {-1}) /\ d = <<".", i>> /\ f = <<"..", p>>
  OBVIOUS
<1>2. Free \in T /\ d \in T /\ f \in T
  BY <1>1 DEF Free, Slots
<1>3. PICK E : E = [[i1 \in 1 .. EntriesPerBlock |-> Free] EXCEPT ![1] = d, ![2] = f]
  OBVIOUS
<1>4. E \in [1 .. EntriesPerBlock -> T]
  BY <1>2, <1>3
<1>5. NewDirBlock(p, i) = DirBlock(E)
  BY <1>1, <1>3 DEF NewDirBlock, EmptyEntries
<1> QED BY <1>1, <1>4, <1>5 DEF DirBlock, DirBlocks

\* The block with a new entry.
LEMMA AddDirEntryIs ==
    ASSUME LFSAssumption, NEW K, NEW M, K \subseteq M, NEW inode, DirInode(inode, K),
           NEW name \in Names, NEW new \in M, NEW add \in ToSet(AddDirEntry(inode, name, new))
    PROVE  /\ add.block \in DirBlocks(M) /\ add.size \in 1 .. NUM_INODE_PTRS
           /\ add.index \in 1 .. add.size
           /\ \A k \in 1 .. add.size : k = add.index \/ k \in 1 .. inode.size
<1>1. PICK s, e, N : /\ s = find_matching_dir_slot("-", inode) /\ e = <<name, new>>
                     /\ N = NUM_INODE_PTRS
  OBVIOUS
<1>2. inode.size \in 1 .. N /\ inode.size \in Nat /\ EntriesPerBlock \in Nat /\ N \in Nat
  <2>1. inode \in GoodInodes /\ inode.type = "dir"
    BY DEF DirInode
  <2>2. inode.size \in 1 .. NUM_INODE_PTRS
    BY <2>1, GoodInodeIs
  <2> QED BY <1>1, <2>2 DEF LFSAssumption
<1>3. e \in Slots \X (M \cup {-1})
  BY <1>1 DEF Slots
<1>4. CASE s # NoSlot
  <2>1. s \in (1 .. inode.size) \X (1 .. EntriesPerBlock)
    BY <1>1, <1>2, <1>4, SlotIs
  <2>2. PICK b, k, x : b = At(inode.pointers[s[1]]) /\ k = s[2] /\ x = s[1]
    OBVIOUS
  <2>3. b \in DirBlocks(K) /\ x \in 1 .. inode.size
    BY <2>1, <2>2, EntryIs
  <2>4. PICK c : c = [b EXCEPT !.entries[k] = e]
    OBVIOUS
  <2>5. c \in DirBlocks(M)
    BY <1>3, <2>3, <2>4, ChangedIs
  <2>6. AddDirEntry(inode, name, new) = <<[index |-> x, size |-> inode.size, block |-> c]>>
    BY <1>1, <1>4, <2>2, <2>4 DEF AddDirEntry
  <2>7. add = [index |-> x, size |-> inode.size, block |-> c]
    BY <2>6 DEF ToSet
  <2>8. add.index = x /\ add.size = inode.size /\ add.block = c
    BY <2>7
  <2> QED BY <1>1, <1>2, <2>3, <2>5, <2>8
<1>5. CASE s = NoSlot /\ inode.size # N
  <2>1. PICK c : c = DirBlock([EmptyEntries EXCEPT ![1] = e])
    OBVIOUS
  <2>2. c \in DirBlocks(M)
    BY <1>3, <2>1, NewBlocksAre
  <2>3. AddDirEntry(inode, name, new)
          = <<[index |-> inode.size + 1, size |-> inode.size + 1, block |-> c]>>
    BY <1>1, <1>5, <2>1 DEF AddDirEntry
  <2>4. add = [index |-> inode.size + 1, size |-> inode.size + 1, block |-> c]
    BY <2>3 DEF ToSet
  <2>5. add.index = inode.size + 1 /\ add.size = inode.size + 1 /\ add.block = c
    BY <2>4
  <2>6. inode.size + 1 \in 1 .. N /\ inode.size + 1 \in 1 .. inode.size + 1
        /\ \A k \in 1 .. inode.size + 1 : k = inode.size + 1 \/ k \in 1 .. inode.size
    BY <1>2, <1>5
  <2> QED BY <1>1, <2>2, <2>5, <2>6
<1>6. CASE s = NoSlot /\ inode.size = N
  <2>1. AddDirEntry(inode, name, new) = << >>
    BY <1>1, <1>6 DEF AddDirEntry
  <2>2. ToSet(<< >>) = {}
    BY DEF ToSet
  <2> QED BY <2>1, <2>2
<1> QED BY <1>4, <1>5, <1>6

\* A directory of which one block has moved.
LEMMA DirMoves ==
    ASSUME NEW b \in GoodInodes, b.type = "dir", NEW size \in 1 .. NUM_INODE_PTRS,
           NEW index \in 1 .. size, NEW a \in Int, a # -1,
           NUM_INODE_PTRS \in Nat,
           \A k \in 1 .. size : k = index \/ k \in 1 .. b.size,
           NEW v \in Inodes, v.size = size, v.type = "dir", v.pointers = [b.pointers EXCEPT ![index] = a]
    PROVE  v \in GoodInodes
<1>1. /\ b.pointers \in [1 .. NUM_INODE_PTRS -> Int] /\ b.size \in 1 .. NUM_INODE_PTRS
      /\ \A k \in 1 .. b.size : b.pointers[k] # -1
  BY GoodInodeIs
<1>2. ASSUME NEW k \in 1 .. size
      PROVE  v.pointers[k] # -1
  <2>1. k \in 1 .. NUM_INODE_PTRS
    OBVIOUS
  <2>2. PICK p, q : p = b.pointers /\ q = v.pointers
    OBVIOUS
  <2>3. q = [p EXCEPT ![index] = a] /\ p \in [1 .. NUM_INODE_PTRS -> Int]
    BY <1>1, <2>2
  <2>4. CASE k = index
    BY <2>1, <2>2, <2>3, <2>4
  <2>5. CASE k # index
    <3>1. k \in 1 .. b.size /\ q[k] = p[k]
      BY <2>1, <2>3, <2>5
    <3> QED BY <1>1, <2>2, <3>1
  <2> QED BY <2>4, <2>5
<1> QED BY <1>2 DEF GoodInodes, Filled

\* The inode of an empty file or directory.
LEMMA NewInodesAre ==
    ASSUME LFSAssumption, NEW a \in Int, a # -1
    PROVE  /\ Inode("reg", 0, 1, NoPointers) \in GoodInodes
           /\ Inode("dir", 1, 2, [NoPointers EXCEPT ![1] = a]) \in GoodInodes
<1>1. PICK N, p, q : N = NUM_INODE_PTRS /\ p = NoPointers /\ q = [p EXCEPT ![1] = a]
  OBVIOUS
<1>2. N \in Nat \ {0} /\ p \in [1 .. N -> Int]
  BY <1>1 DEF LFSAssumption, NoPointers
<1>3. q \in [1 .. N -> Int] /\ \A k \in 1 .. 1 : q[k] # -1
  BY <1>1, <1>2
<1>4. 1 \in 1 .. N
  BY <1>2
<1> QED BY <1>1, <1>2, <1>3, <1>4 DEF Inode, GoodInodes, Filled, Inodes

-----------------------------------------------------------------------------
\* The commands.  Two entries of the map change, and both their pieces are written ...
LEMMA BothAreKept ==
    ASSUME LogOK(disk, cr, inode_map), NEW p \in Inums, NEW q \in Inums,
           NEW a \in Int, NEW b \in Int, NEW blocks,
           a = -1 \/ FreshInode(blocks, a), b = -1 \/ FreshInode(blocks, b)
    PROVE  /\ [inode_map EXCEPT ![p] = a, ![q] = b] \in [Inums -> Int]
           /\ \A i \in Inums : Kept(blocks, [inode_map EXCEPT ![p] = a, ![q] = b], <<p, q>>, i)
<1>1. PICK m, s : m = [inode_map EXCEPT ![p] = a, ![q] = b] /\ s = <<p, q>>
  OBVIOUS
<1>2. inode_map \in [Inums -> Int]
  BY DEF LogOK, Mapped
<1>3. m \in [Inums -> Int] /\ m[q] = b /\ (p # q => m[p] = a)
      /\ \A i \in Inums : i # p /\ i # q => m[i] = inode_map[i]
  BY <1>1, <1>2
<1>4. Len(s) = 2 /\ s[1] = p /\ s[2] = q
  BY <1>1
<1>5. 1 \in 1 .. Len(s) /\ 2 \in 1 .. Len(s)
  BY <1>4
<1>6. ASSUME NEW i \in Inums
      PROVE  Kept(blocks, m, s, i)
  <2>1. CASE i = q
    BY <1>3, <1>4, <1>5, <2>1 DEF Kept
  <2>2. CASE i = p /\ i # q
    BY <1>3, <1>4, <1>5, <2>2 DEF Kept
  <2>3. CASE i # p /\ i # q
    BY <1>3, <2>3 DEF Kept
  <2> QED BY <2>1, <2>2, <2>3
<1> QED BY <1>1, <1>3, <1>6

\* ... or the second is that of an inode that is written again.
LEMMA OtherIsKept ==
    ASSUME LogOK(disk, cr, inode_map), NEW p \in Inums, NEW q \in Inums, p # q,
           NEW a \in Int, NEW b \in Int, NEW blocks,
           FreshInode(blocks, a), FreshInode(blocks, b), inode_map[q] # -1,
           SameInodes(disk[inode_map[q] + 1], blocks[b - Len(disk) + 1])
    PROVE  /\ [inode_map EXCEPT ![p] = a, ![q] = b] \in [Inums -> Int]
           /\ \A i \in Inums : Kept(blocks, [inode_map EXCEPT ![p] = a, ![q] = b], <<p>>, i)
<1>1. PICK m, s : m = [inode_map EXCEPT ![p] = a, ![q] = b] /\ s = <<p>>
  OBVIOUS
<1>2. inode_map \in [Inums -> Int]
  BY DEF LogOK, Mapped
<1>3. m \in [Inums -> Int] /\ m[q] = b /\ m[p] = a
      /\ \A i \in Inums : i # p /\ i # q => m[i] = inode_map[i]
  BY <1>1, <1>2
<1>4. Len(s) = 1 /\ s[1] = p
  BY <1>1
<1>5. 1 \in 1 .. Len(s)
  BY <1>4
<1>6. ASSUME NEW i \in Inums
      PROVE  Kept(blocks, m, s, i)
  <2>1. CASE i = q
    BY <1>3, <2>1 DEF Kept
  <2>2. CASE i = p
    BY <1>3, <1>4, <1>5, <2>2 DEF Kept
  <2>3. CASE i # p /\ i # q
    BY <1>3, <2>3 DEF Kept
  <2> QED BY <2>1, <2>2, <2>3
<1> QED BY <1>1, <1>3, <1>6

\* A number that is allocated is free.
LEMMA AllocatableIs ==
    ASSUME NEW i \in Allocatable
    PROVE  i \in Inums /\ inode_map[i] = -1
<1>1. PICK F : F = {j \in Inums : inode_map[j] = -1}
  OBVIOUS
<1>2. CASE option.random \/ F = {}
  BY <1>1, <1>2 DEF Allocatable
<1>3. CASE ~ option.random /\ F # {}
  <2>1. F \in SUBSET Nat
    BY <1>1 DEF Inums
  <2>2. PICK m \in F : \A y \in F : m <= y
    BY <1>3, <2>1, LeastExists
  <2>3. Min(F) \in F
    BY <2>2 DEF Min
  <2>4. i = Min(F)
    BY <1>1, <1>3 DEF Allocatable
  <2> QED BY <1>1, <2>3, <2>4
<1> QED BY <1>2, <1>3

\* What file_create writes.
Created(w, command, parent, new, add) ==
    LET is_file == command = "c"
        above == [parent EXCEPT
                    !.size = add.size,
                    !.refs = IF is_file THEN @ ELSE @ + 1,
                    !.pointers[add.index] = AddressOf(1)]
        blocks == IF is_file
                  THEN <<add.block, above, Inode("reg", 0, 1, NoPointers)>>
                  ELSE <<add.block, NewDirBlock(w.parent, new), above,
                         Inode("dir", 1, 2, [NoPointers EXCEPT ![1] = AddressOf(2)])>>
        n == IF is_file THEN 3 ELSE 4
    IN  Commit(blocks,
               [inode_map EXCEPT ![w.parent] = AddressOf(n - 1), ![new] = AddressOf(n)],
               <<w.parent, new>>)

LEMMA CreateKeeps ==
    ASSUME LFSAssumption, LogOK(disk, cr, inode_map), ~ option.no_force, commands \in Nat,
           NEW command \in {"c", "d"}, NEW path \in Paths, file_create(command, path)
    PROVE  LogOK(disk', cr', inode_map') /\ option' = option /\ commands' \in Nat
<1>1. path \in Seq(Names) /\ path # << >>
  BY DEF LFSAssumption
<1>2. PICK w : w = Walk(path)
  OBVIOUS
<1>3. CASE Fails(command, {path})
  <2>1. disk' = disk /\ cr' = cr /\ inode_map' = inode_map /\ option' = option /\ commands' = commands
    BY <1>3 DEF Fails
  <2> QED BY <2>1
<1>4. CASE ~ Fails(command, {path})
  <2>1. PICK new \in Allocatable, parent \in {GetInode(w.parent)} :
        \E add \in ToSet(AddDirEntry(parent, Last(path), new)) :
           w.result = "ok" /\ w.inum = -1 /\ Created(w, command, parent, new, add)
    <3>1. \E v \in {Walk(path)} :
             \/ v.result = "fails" /\ Fails(command, {path})
             \/ /\ v.result = "ok" /\ v.inum = -1
                /\ \E new \in Allocatable, parent \in {GetInode(v.parent)} :
                   \E add \in ToSet(AddDirEntry(parent, Last(path), new)) :
                      Created(v, command, parent, new, add)
      BY Zenon DEF file_create, Created
    <3> QED BY <1>2, <1>4, <3>1
  <2>2. PICK add \in ToSet(AddDirEntry(parent, Last(path), new)) :
           w.result = "ok" /\ w.inum = -1 /\ Created(w, command, parent, new, add)
    BY <2>1
  <2>3. PICK p, K, M : p = w.parent /\ K = Known(cr) /\ M = KnownWith(<<p, new>>)
    OBVIOUS
  <2>4. p \in K /\ IsDirectory(p) /\ Last(path) \in Names
    <3>1. w \in Walks(K) /\ IsDirectory(p)
      BY <1>1, <1>2, <2>2, <2>3, WalkIs
    <3>2. Last(path) \in Names
      BY <1>1 DEF Last
    <3> QED BY <2>3, <3>1, <3>2 DEF Walks
  <2>5. DirInode(parent, K) /\ inode_map[p] # -1 /\ parent \in GoodInodes /\ parent.type = "dir"
    BY <2>1, <2>3, <2>4, DirectoryIs DEF DirInode
  <2>6. new \in Inums /\ inode_map[new] = -1 /\ p \in Inums /\ p # new
    BY <2>1, <2>3, <2>4, <2>5, AllocatableIs DEF Known
  <2>7. K \subseteq M /\ p \in M /\ new \in M
    <3>1. PICK s : s = <<p, new>>
      OBVIOUS
    <3>2. Len(s) = 2 /\ s[2] = new
      BY <3>1
    <3>3. 2 \in 1 .. Len(s)
      BY <3>2
    <3>4. new \in {s[k] : k \in 1 .. Len(s)}
      BY <3>2, <3>3
    <3> QED BY <2>3, <2>4, <3>1, <3>4 DEF KnownWith
  <2>8. /\ add.block \in DirBlocks(M) /\ add.size \in 1 .. NUM_INODE_PTRS
        /\ add.index \in 1 .. add.size
        /\ \A k \in 1 .. add.size : k = add.index \/ k \in 1 .. parent.size
    BY <2>2, <2>4, <2>5, <2>7, AddDirEntryIs
  <2>9. PICK above : above = [parent EXCEPT !.size = add.size,
                                !.refs = IF command = "c" THEN @ ELSE @ + 1,
                                !.pointers[add.index] = AddressOf(1)]
    OBVIOUS
  <2>10. \A k \in Nat \ {0} : AddressOf(k) \in Int /\ AddressOf(k) # -1
    BY AddressIs DEF LogOK
  <2>11. above \in GoodInodes
    <3>1. PICK a, r : a = AddressOf(1) /\ r = IF command = "c" THEN parent.refs ELSE parent.refs + 1
      OBVIOUS
    <3>2. a \in Int /\ a # -1 /\ r \in Int /\ parent.refs \in Int /\ parent \in Inodes
          /\ NUM_INODE_PTRS \in Nat
      BY <2>5, <2>10, <3>1, GoodInodeIs DEF GoodInodes, LFSAssumption
    <3>3. above = [parent EXCEPT !.size = add.size, !.refs = r, !.pointers[add.index] = a]
      BY <2>9, <3>1, <3>2 DEF Inodes
    <3>4. PICK N, x, z : N = NUM_INODE_PTRS /\ x = add.index /\ z = add.size
      OBVIOUS
    <3>5. parent \in [block_type : {"inode"}, type : {"dir", "reg"}, size : Int, refs : Int,
                      pointers : [1 .. N -> Int]]
          /\ z \in Int /\ x \in 1 .. N /\ N \in Nat
      BY <2>8, <3>2, <3>4 DEF Inodes
    <3>6. /\ above \in [block_type : {"inode"}, type : {"dir", "reg"}, size : Int, refs : Int,
                        pointers : [1 .. N -> Int]]
          /\ above.size = z /\ above.type = "dir" /\ above.pointers = [parent.pointers EXCEPT ![x] = a]
      BY <2>5, <3>2, <3>3, <3>4, <3>5
    <3>7. /\ above \in Inodes /\ above.size = add.size /\ above.type = "dir"
          /\ above.pointers = [parent.pointers EXCEPT ![add.index] = a]
      BY <3>4, <3>6 DEF Inodes
    <3> QED BY <2>5, <2>8, <3>2, <3>7, DirMoves
  <2>12. PICK inums : inums = <<p, new>>
    OBVIOUS
  <2>13. inums \in Seq(Inums) /\ Len(inums) = 2
    BY <2>6, <2>12
  <2>14. /\ DirBlocks(M) \subseteq Blocks(M) /\ GoodInodes \subseteq Blocks(M)
    BY DEF Blocks, GoodInodes
  <2>15. CASE command = "c"
    <3>1. PICK b1, b2, b3, blocks :
             /\ b1 = add.block /\ b2 = above /\ b3 = Inode("reg", 0, 1, NoPointers)
             /\ blocks = <<b1, b2, b3>>
      OBVIOUS
    <3>2. b3 \in GoodInodes
      <4>1. AddressOf(1) \in Int /\ AddressOf(1) # -1
        BY <2>10
      <4> QED BY <3>1, <4>1, NewInodesAre
    <3>3. b1 \in Blocks(M) /\ b2 \in Blocks(M) /\ b3 \in Blocks(M)
      BY <2>8, <2>11, <2>14, <3>1, <3>2
    <3>4. blocks \in Seq(Blocks(M)) /\ Len(blocks) = 3 /\ blocks[2] = b2 /\ blocks[3] = b3
      BY <3>1, <3>3
    <3>5. FreshInode(blocks, AddressOf(2)) /\ FreshInode(blocks, AddressOf(3))
      <4>1. 2 \in 1 .. Len(blocks) /\ 3 \in 1 .. Len(blocks)
        BY <3>4
      <4>2. blocks[2] \in GoodInodes /\ blocks[3] \in GoodInodes
        BY <2>11, <3>1, <3>2, <3>4
      <4> QED BY <3>4, <4>1, <4>2, FreshIs DEF LogOK
    <3>6. PICK map, x, y : /\ map = [inode_map EXCEPT ![p] = x, ![new] = y]
                           /\ x = AddressOf(2) /\ y = AddressOf(3)
      OBVIOUS
    <3>7. map \in [Inums -> Int] /\ \A i \in Inums : Kept(blocks, map, inums, i)
      <4>1. x \in Int /\ y \in Int /\ FreshInode(blocks, x) /\ FreshInode(blocks, y)
        BY <2>10, <3>5, <3>6
      <4> QED BY <2>6, <2>12, <3>6, <4>1, BothAreKept
    <3>8. Commit(blocks, map, inums)
      <4>1. command = "c" /\ 3 - 1 = 2
        BY <2>15
      <4>2. above = [parent EXCEPT !.size = add.size, !.refs = IF command = "c" THEN @ ELSE @ + 1,
                                   !.pointers[add.index] = AddressOf(1)]
        BY <2>9
      <4>3. Commit(<<add.block, above, Inode("reg", 0, 1, NoPointers)>>,
                   [inode_map EXCEPT ![p] = AddressOf(3 - 1), ![new] = AddressOf(3)], <<p, new>>)
        BY <2>2, <2>3, <4>1, <4>2, Zenon DEF Created
      <4> QED BY <2>12, <3>1, <3>6, <4>1, <4>3, Zenon
    <3>9. blocks \in Seq(Blocks(KnownWith(inums)))
      BY <2>3, <2>12, <3>4
    <3>10. LogOK(disk', cr', inode_map') /\ option' = option /\ commands' = commands + 1
      BY <2>13, <3>7, <3>8, <3>9, CommitKeeps
    <3> QED BY <3>10
  <2>16. CASE command = "d"
    <3>1. PICK b1, b2, b3, b4, blocks :
             /\ b1 = add.block /\ b2 = NewDirBlock(p, new) /\ b3 = above
             /\ b4 = Inode("dir", 1, 2, [NoPointers EXCEPT ![1] = AddressOf(2)])
             /\ blocks = <<b1, b2, b3, b4>>
      OBVIOUS
    <3>2. b4 \in GoodInodes /\ b2 \in DirBlocks(M)
      <4>1. AddressOf(2) \in Int /\ AddressOf(2) # -1
        BY <2>10
      <4>2. b4 \in GoodInodes
        BY <3>1, <4>1, NewInodesAre
      <4> QED BY <2>7, <3>1, <4>2, NewDirBlockIs
    <3>3. b1 \in Blocks(M) /\ b2 \in Blocks(M) /\ b3 \in Blocks(M) /\ b4 \in Blocks(M)
      BY <2>8, <2>11, <2>14, <3>1, <3>2
    <3>4. blocks \in Seq(Blocks(M)) /\ Len(blocks) = 4 /\ blocks[3] = b3 /\ blocks[4] = b4
      BY <3>1, <3>3
    <3>5. FreshInode(blocks, AddressOf(3)) /\ FreshInode(blocks, AddressOf(4))
      <4>1. 3 \in 1 .. Len(blocks) /\ 4 \in 1 .. Len(blocks)
        BY <3>4
      <4>2. blocks[3] \in GoodInodes /\ blocks[4] \in GoodInodes
        BY <2>11, <3>1, <3>2, <3>4
      <4> QED BY <3>4, <4>1, <4>2, FreshIs DEF LogOK
    <3>6. PICK map, x, y : /\ map = [inode_map EXCEPT ![p] = x, ![new] = y]
                           /\ x = AddressOf(3) /\ y = AddressOf(4)
      OBVIOUS
    <3>7. map \in [Inums -> Int] /\ \A i \in Inums : Kept(blocks, map, inums, i)
      <4>1. x \in Int /\ y \in Int /\ FreshInode(blocks, x) /\ FreshInode(blocks, y)
        BY <2>10, <3>5, <3>6
      <4> QED BY <2>6, <2>12, <3>6, <4>1, BothAreKept
    <3>8. Commit(blocks, map, inums)
      <4>1. ~ (command = "c") /\ 4 - 1 = 3
        BY <2>16
      <4>2. above = [parent EXCEPT !.size = add.size, !.refs = IF command = "c" THEN @ ELSE @ + 1,
                                   !.pointers[add.index] = AddressOf(1)]
        BY <2>9
      <4>3. Commit(<<add.block, NewDirBlock(p, new), above,
                     Inode("dir", 1, 2, [NoPointers EXCEPT ![1] = AddressOf(2)])>>,
                   [inode_map EXCEPT ![p] = AddressOf(4 - 1), ![new] = AddressOf(4)], <<p, new>>)
        BY <2>2, <2>3, <4>1, <4>2, Zenon DEF Created
      <4> QED BY <2>12, <3>1, <3>6, <4>1, <4>3, Zenon
    <3>9. blocks \in Seq(Blocks(KnownWith(inums)))
      BY <2>3, <2>12, <3>4
    <3>10. LogOK(disk', cr', inode_map') /\ option' = option /\ commands' = commands + 1
      BY <2>13, <3>7, <3>8, <3>9, CommitKeeps
    <3> QED BY <3>10
  <2> QED BY <2>15, <2>16
<1> QED BY <1>3, <1>4

\* A path to a file.
LEMMA FileIs ==
    ASSUME LFSAssumption, LogOK(disk, cr, inode_map), NEW w \in Walks(Known(cr)), TypeOf(w) = "reg"
    PROVE  /\ w.result = "ok" /\ w.inum \in Known(cr) /\ w.inum # -1 /\ inode_map[w.inum] # -1
           /\ GetInode(w.inum) \in GoodInodes /\ GetInode(w.inum).type = "reg"
           /\ SameInodes(GetInode(w.inum), disk[inode_map[w.inum] + 1])
<1>1. w.result = "ok" /\ w.inum # -1 /\ IsInode(w.inum) /\ GetInode(w.inum).type = "reg"
  BY DEF TypeOf
<1>2. w.inum \in Known(cr)
  BY <1>1 DEF Walks
<1>3. InodeAddress(w.inum) # -1
  BY <1>1 DEF IsInode
<1> QED BY <1>1, <1>2, <1>3, InodeIs

\* The inode of a file written again.
LEMMA FileMoves ==
    ASSUME NEW b \in GoodInodes, b.type = "reg", NEW v \in Inodes, v.type = "reg"
    PROVE  v \in GoodInodes
BY DEF GoodInodes, Filled

\* A directory of which one block, that at index, has moved to a.
LEMMA ParentMoves ==
    ASSUME LFSAssumption, NEW K, NEW b, DirInode(b, K), NEW size \in 1 .. NUM_INODE_PTRS,
           NEW index \in 1 .. size, NEW a \in Int, a # -1,
           \A k \in 1 .. size : k = index \/ k \in 1 .. b.size
    PROVE  [b EXCEPT !.size = size, !.pointers[index] = a] \in GoodInodes
<1>1. PICK N, v : N = NUM_INODE_PTRS /\ v = [b EXCEPT !.size = size, !.pointers[index] = a]
  OBVIOUS
<1>2. b \in GoodInodes /\ b.type = "dir" /\ N \in Nat /\ size \in Int /\ index \in 1 .. N
  BY <1>1 DEF DirInode, LFSAssumption
<1>3. b \in [block_type : {"inode"}, type : {"dir", "reg"}, size : Int, refs : Int,
             pointers : [1 .. N -> Int]]
  BY <1>1, <1>2 DEF GoodInodes, Inodes
<1>4. /\ v \in [block_type : {"inode"}, type : {"dir", "reg"}, size : Int, refs : Int,
                pointers : [1 .. N -> Int]]
      /\ v.size = size /\ v.type = "dir" /\ v.pointers = [b.pointers EXCEPT ![index] = a]
  BY <1>1, <1>2, <1>3
<1>5. v \in Inodes /\ NUM_INODE_PTRS \in Nat
  BY <1>1, <1>2, <1>4 DEF Inodes
<1>6. v \in GoodInodes
  BY <1>2, <1>4, <1>5, DirMoves
<1> QED BY <1>1, <1>6

\* What file_link writes.
Linked(s, d, parent, add) ==
    Commit(<<add.block,
             [parent EXCEPT !.size = add.size, !.pointers[add.index] = AddressOf(1)],
             [GetInode(s.inum) EXCEPT !.refs = @ + 1]>>,
           [inode_map EXCEPT ![d.parent] = AddressOf(2), ![s.inum] = AddressOf(3)],
           <<d.parent>>)

LEMMA LinkKeeps ==
    ASSUME LFSAssumption, LogOK(disk, cr, inode_map), ~ option.no_force, commands \in Nat,
           NEW src \in Paths, NEW dst \in Paths, file_link(src, dst)
    PROVE  LogOK(disk', cr', inode_map') /\ option' = option /\ commands' \in Nat
<1>1. src \in Seq(Names) /\ src # << >> /\ dst \in Seq(Names) /\ dst # << >>
  BY DEF LFSAssumption
<1>2. PICK s, d : s = Walk(src) /\ d = Walk(dst)
  OBVIOUS
<1>3. CASE Fails("l", {src, dst})
  <2>1. disk' = disk /\ cr' = cr /\ inode_map' = inode_map /\ option' = option /\ commands' = commands
    BY <1>3 DEF Fails
  <2> QED BY <2>1
<1>4. CASE ~ Fails("l", {src, dst})
  <2>1. PICK parent \in {GetInode(d.parent)} :
        \E add \in ToSet(AddDirEntry(parent, Last(dst), s.inum)) :
           TypeOf(s) = "reg" /\ d.result = "ok" /\ Linked(s, d, parent, add)
    <3>1. \E s1 \in {Walk(src)}, d1 \in {Walk(dst)} : \E type \in {TypeOf(s1)} :
             \/ /\ \/ s1.result = "fails" \/ type = "no inode"
                   \/ type = "reg" /\ d1.result \in {"fails", "error"}
                /\ Fails("l", {src, dst})
             \/ /\ type = "reg" /\ d1.result = "ok" /\ d1.inum = -1
                /\ \E parent \in {GetInode(d1.parent)} :
                   \E add \in ToSet(AddDirEntry(parent, Last(dst), s1.inum)) :
                      Linked(s1, d1, parent, add)
      BY Zenon DEF file_link, Linked
    <3> QED BY <1>2, <1>4, <3>1
  <2>2. PICK add \in ToSet(AddDirEntry(parent, Last(dst), s.inum)) :
           TypeOf(s) = "reg" /\ d.result = "ok" /\ Linked(s, d, parent, add)
    BY <2>1
  <2>3. PICK p, q, K, M : p = d.parent /\ q = s.inum /\ K = Known(cr) /\ M = KnownWith(<<p>>)
    OBVIOUS
  <2>4. p \in K /\ IsDirectory(p) /\ Last(dst) \in Names /\ s \in Walks(K)
    <3>1. d \in Walks(K) /\ IsDirectory(p) /\ s \in Walks(K)
      BY <1>1, <1>2, <2>2, <2>3, WalkIs
    <3>2. Last(dst) \in Names
      BY <1>1 DEF Last
    <3> QED BY <2>3, <3>1, <3>2 DEF Walks
  <2>5. DirInode(parent, K) /\ inode_map[p] # -1 /\ parent = GetInode(p) /\ parent.type = "dir"
    BY <2>1, <2>3, <2>4, DirectoryIs DEF DirInode
  <2>6. /\ q \in K /\ inode_map[q] # -1 /\ GetInode(q) \in GoodInodes /\ GetInode(q).type = "reg"
        /\ SameInodes(GetInode(q), disk[inode_map[q] + 1])
    BY <2>2, <2>3, <2>4, FileIs
  <2>7. K \subseteq M /\ q \in M /\ p \in Inums /\ q \in Inums /\ p # q
    BY <2>3, <2>4, <2>5, <2>6 DEF KnownWith, Known
  <2>8. /\ add.block \in DirBlocks(M) /\ add.size \in 1 .. NUM_INODE_PTRS
        /\ add.index \in 1 .. add.size
        /\ \A k \in 1 .. add.size : k = add.index \/ k \in 1 .. parent.size
    <3>1. PICK name : name = Last(dst)
      OBVIOUS
    <3>2. name \in Names /\ add \in ToSet(AddDirEntry(parent, name, q)) /\ DirInode(parent, K)
          /\ K \subseteq M /\ q \in M
      BY <2>2, <2>3, <2>4, <2>5, <2>7, <3>1, Zenon
    <3> QED BY <3>2, AddDirEntryIs
  <2>9. \A k \in Nat \ {0} : AddressOf(k) \in Int /\ AddressOf(k) # -1
    BY AddressIs DEF LogOK
  <2>10. PICK b1, b2, b3, blocks :
            /\ b1 = add.block
            /\ b2 = [parent EXCEPT !.size = add.size, !.pointers[add.index] = AddressOf(1)]
            /\ b3 = [GetInode(q) EXCEPT !.refs = @ + 1]
            /\ blocks = <<b1, b2, b3>>
    OBVIOUS
  <2>11. b2 \in GoodInodes
    <3>1. AddressOf(1) \in Int /\ AddressOf(1) # -1
      BY <2>9
    <3>2. [parent EXCEPT !.size = add.size, !.pointers[add.index] = AddressOf(1)] \in GoodInodes
      BY <2>5, <2>8, <3>1, ParentMoves
    <3> QED BY <2>10, <3>2
  <2>12. b3 \in GoodInodes /\ SameInodes(disk[inode_map[q] + 1], b3)
    <3>1. PICK g, r : g = GetInode(q) /\ r = g.refs + 1
      OBVIOUS
    <3>2. g \in Inodes /\ g.type = "reg" /\ g.refs \in Int /\ r \in Int /\ b3 = [g EXCEPT !.refs = r]
      BY <2>6, <2>10, <3>1, GoodInodeIs DEF GoodInodes, Inodes
    <3>3. b3 \in Inodes /\ b3.type = "reg" /\ b3.size = g.size /\ b3.pointers = g.pointers
      BY <3>2 DEF Inodes
    <3>4. b3 \in GoodInodes
      BY <2>6, <3>3, FileMoves
    <3> QED BY <2>6, <3>1, <3>2, <3>3, <3>4 DEF SameInodes
  <2>13. PICK inums : inums = <<p>>
    OBVIOUS
  <2>14. inums \in Seq(Inums) /\ Len(inums) = 1
    BY <2>7, <2>13
  <2>15. b1 \in Blocks(M) /\ b2 \in Blocks(M) /\ b3 \in Blocks(M)
    <3>1. DirBlocks(M) \subseteq Blocks(M) /\ GoodInodes \subseteq Blocks(M)
      BY DEF Blocks, GoodInodes
    <3> QED BY <2>8, <2>10, <2>11, <2>12, <3>1
  <2>16. blocks \in Seq(Blocks(M)) /\ Len(blocks) = 3 /\ blocks[2] = b2 /\ blocks[3] = b3
    BY <2>10, <2>15
  <2>17. PICK map, x, y : /\ map = [inode_map EXCEPT ![p] = x, ![q] = y]
                          /\ x = AddressOf(2) /\ y = AddressOf(3)
    OBVIOUS
  <2>18. /\ x \in Int /\ y \in Int /\ FreshInode(blocks, x) /\ FreshInode(blocks, y)
         /\ blocks[y - Len(disk) + 1] = b3
    <3>1. 2 \in 1 .. Len(blocks) /\ 3 \in 1 .. Len(blocks)
      BY <2>16
    <3>2. blocks[2] \in GoodInodes /\ blocks[3] \in GoodInodes
      BY <2>11, <2>12, <2>16
    <3>3. /\ FreshInode(blocks, AddressOf(2)) /\ FreshInode(blocks, AddressOf(3))
          /\ AddressOf(3) - Len(disk) + 1 = 3
      BY <2>16, <3>1, <3>2, FreshIs DEF LogOK
    <3> QED BY <2>9, <2>16, <2>17, <3>3
  <2>19. map \in [Inums -> Int] /\ \A i \in Inums : Kept(blocks, map, inums, i)
    <3>1. SameInodes(disk[inode_map[q] + 1], blocks[y - Len(disk) + 1])
      BY <2>12, <2>18
    <3> QED BY <2>6, <2>7, <2>13, <2>17, <2>18, <3>1, OtherIsKept
  <2>20. Commit(blocks, map, inums)
    <3>1. Commit(<<b1, b2, b3>>, [inode_map EXCEPT ![p] = AddressOf(2), ![q] = AddressOf(3)], <<p>>)
      BY <2>2, <2>3, <2>10, Zenon DEF Linked
    <3> QED BY <2>10, <2>13, <2>17, <3>1, Zenon
  <2>21. blocks \in Seq(Blocks(KnownWith(inums)))
    BY <2>3, <2>13, <2>16
  <2>22. LogOK(disk', cr', inode_map') /\ option' = option /\ commands' = commands + 1
    BY <2>14, <2>19, <2>20, <2>21, CommitKeeps
  <2> QED BY <2>22
<1> QED BY <1>3, <1>4

\* The number of an inode that is written again alone.
LEMMA OneIsKept ==
    ASSUME LogOK(disk, cr, inode_map), NEW p \in Inums, NEW a \in Int, NEW blocks,
           FreshInode(blocks, a)
    PROVE  /\ [inode_map EXCEPT ![p] = a] \in [Inums -> Int]
           /\ \A i \in Inums : Kept(blocks, [inode_map EXCEPT ![p] = a], <<p>>, i)
<1>1. PICK m, s : m = [inode_map EXCEPT ![p] = a] /\ s = <<p>>
  OBVIOUS
<1>2. inode_map \in [Inums -> Int]
  BY DEF LogOK, Mapped
<1>3. m \in [Inums -> Int] /\ m[p] = a /\ \A i \in Inums : i # p => m[i] = inode_map[i]
  BY <1>1, <1>2
<1>4. Len(s) = 1 /\ s[1] = p
  BY <1>1
<1>5. 1 \in 1 .. Len(s)
  BY <1>4
<1>6. ASSUME NEW i \in Inums
      PROVE  Kept(blocks, m, s, i)
  <2>1. CASE i = p
    BY <1>3, <1>4, <1>5, <2>1 DEF Kept
  <2>2. CASE i # p
    BY <1>3, <2>2 DEF Kept
  <2> QED BY <2>1, <2>2
<1> QED BY <1>1, <1>3, <1>6

LEMMA MinMaxOfTwo ==
    ASSUME NEW a \in Int, NEW b \in Int
    PROVE  /\ Min({a, b}) \in {a, b} /\ Min({a, b}) <= a /\ Min({a, b}) <= b
           /\ Max({a, b}) \in {a, b}
<1>1. \E x \in {a, b} : \A y \in {a, b} : x <= y
  OBVIOUS
<1>2. \E x \in {a, b} : \A y \in {a, b} : x >= y
  OBVIOUS
<1>3. Min({a, b}) \in {a, b} /\ \A y \in {a, b} : Min({a, b}) <= y
  BY <1>1 DEF Min
<1>4. Max({a, b}) \in {a, b}
  BY <1>2 DEF Max
<1> QED BY <1>3, <1>4

\* What file_write writes.
Wrote(w, offset, inode, end) ==
    LET n == end - offset
        pointers == [i \in 1 .. NUM_INODE_PTRS |->
                        IF i - offset \in 1 .. n THEN AddressOf(i - offset)
                        ELSE inode.pointers[i]]
    IN  Commit([i \in 1 .. n |-> DataBlock(<<commands, i>>)]
               \o <<[inode EXCEPT !.size = Max({end, @}), !.pointers = pointers]>>,
               [inode_map EXCEPT ![w.inum] = AddressOf(n + 1)],
               <<w.inum>>)

LEMMA WriteKeeps ==
    ASSUME LFSAssumption, LogOK(disk, cr, inode_map), ~ option.no_force, commands \in Nat,
           NEW path \in Paths, NEW offset \in 0 .. NUM_INODE_PTRS - 1,
           NEW num_blks \in 0 .. NUM_INODE_PTRS, file_write(path, offset, num_blks)
    PROVE  LogOK(disk', cr', inode_map') /\ option' = option /\ commands' \in Nat
<1>1. path \in Seq(Names) /\ path # << >>
  BY DEF LFSAssumption
<1>2. PICK w : w = Walk(path)
  OBVIOUS
<1>3. CASE Fails("w", {path})
  <2>1. disk' = disk /\ cr' = cr /\ inode_map' = inode_map /\ option' = option /\ commands' = commands
    BY <1>3 DEF Fails
  <2> QED BY <2>1
<1>4. CASE ~ Fails("w", {path})
  <2>1. PICK inode \in {GetInode(w.inum)}, end \in {Min({offset + num_blks, NUM_INODE_PTRS})} :
           TypeOf(w) = "reg" /\ Wrote(w, offset, inode, end)
    <3>1. \E w1 \in {Walk(path)} : \E type \in {TypeOf(w1)} :
             \/ /\ w1.result = "fails" \/ type = "no inode"
                /\ Fails("w", {path})
             \/ /\ type = "reg"
                /\ \E inode \in {GetInode(w1.inum)},
                      end \in {Min({offset + num_blks, NUM_INODE_PTRS})} :
                      Wrote(w1, offset, inode, end)
      BY Zenon DEF file_write, Wrote
    <3> QED BY <1>2, <1>4, <3>1
  <2>2. PICK q, K, M, N, n : /\ q = w.inum /\ K = Known(cr) /\ M = KnownWith(<<q>>)
                             /\ N = NUM_INODE_PTRS /\ n = end - offset
    OBVIOUS
  <2>3. /\ N \in Nat \ {0} /\ offset \in 0 .. N - 1 /\ end \in Int /\ n \in Nat
        /\ commands \in Nat
    <3>1. N \in Nat \ {0}
      BY <2>2 DEF LFSAssumption
    <3>2. offset \in 0 .. N - 1 /\ num_blks \in 0 .. N /\ offset + num_blks \in Int
      BY <2>2, <3>1
    <3>3. PICK a : a = offset + num_blks
      OBVIOUS
    <3>4. end = Min({a, N})
      BY <2>2, <3>3
    <3>5. end \in {a, N}
      <4>1. a \in Int /\ N \in Int
        BY <3>1, <3>2, <3>3
      <4>2. Min({a, N}) \in {a, N}
        BY <4>1, MinMaxOfTwo
      <4> QED BY <3>4, <4>2, Zenon
    <3> QED BY <2>2, <3>1, <3>2, <3>3, <3>5
  <2>4. w \in Walks(K)
    BY <1>1, <1>2, <2>2, WalkIs
  <2>5. q \in K /\ inode \in GoodInodes /\ inode.type = "reg" /\ q \in Inums
    BY <2>1, <2>2, <2>4, FileIs DEF Known
  <2>6. \A k \in Nat \ {0} : AddressOf(k) \in Int /\ AddressOf(k) # -1
    BY AddressIs DEF LogOK
  <2>7. PICK pointers : pointers = [i \in 1 .. NUM_INODE_PTRS |->
                                      IF i - offset \in 1 .. n THEN AddressOf(i - offset)
                                      ELSE inode.pointers[i]]
    OBVIOUS
  <2>8. /\ inode.pointers \in [1 .. N -> Int] /\ inode.size \in Int
        /\ inode \in [block_type : {"inode"}, type : {"dir", "reg"}, size : Int, refs : Int,
                      pointers : [1 .. N -> Int]]
    BY <2>2, <2>5, GoodInodeIs DEF GoodInodes, Inodes
  <2>9. pointers \in [1 .. N -> Int]
    <3> SUFFICES ASSUME NEW i \in 1 .. N
                 PROVE  (IF i - offset \in 1 .. n THEN AddressOf(i - offset) ELSE inode.pointers[i]) \in Int
      BY <2>2, <2>7
    <3>1. CASE i - offset \in 1 .. n
      <4>1. i - offset \in Nat \ {0}
        BY <2>3, <3>1
      <4> QED BY <2>6, <3>1, <4>1
    <3>2. CASE ~ (i - offset \in 1 .. n)
      BY <2>8, <3>2
    <3> QED BY <3>1, <3>2
  <2>10. PICK size, new, D, blocks :
            /\ size = Max({end, inode.size})
            /\ new = [inode EXCEPT !.size = Max({end, @}), !.pointers = pointers]
            /\ D = [i \in 1 .. n |-> DataBlock(<<commands, i>>)]
            /\ blocks = D \o <<new>>
    OBVIOUS
  <2>11. size \in Int
    <3>1. PICK z : z = inode.size
      OBVIOUS
    <3>2. z \in Int /\ size = Max({end, z})
      BY <2>8, <2>10, <3>1
    <3>3. size \in {end, z}
      BY <2>3, <3>2, MinMaxOfTwo
    <3> QED BY <2>3, <3>2, <3>3
  <2>12. new \in GoodInodes
    <3>1. new = [inode EXCEPT !.size = size, !.pointers = pointers]
      BY <2>10, Zenon
    <3>2. /\ new \in [block_type : {"inode"}, type : {"dir", "reg"}, size : Int, refs : Int,
                      pointers : [1 .. N -> Int]]
          /\ new.type = "reg"
      BY <2>5, <2>8, <2>9, <2>11, <3>1
    <3>3. new \in Inodes
      BY <2>2, <3>2 DEF Inodes
    <3> QED BY <2>5, <3>2, <3>3, FileMoves
  <2>13. PICK inums : inums = <<q>>
    OBVIOUS
  <2>14. inums \in Seq(Inums) /\ Len(inums) = 1
    BY <2>5, <2>13
  <2>15. D \in Seq(Blocks(M)) /\ Len(D) = n
    <3>1. ASSUME NEW i \in 1 .. n
          PROVE  DataBlock(<<commands, i>>) \in Blocks(M)
      <4>1. i \in Nat
        BY <2>3
      <4> QED BY <2>3, <4>1 DEF DataBlock, Blocks, OtherBlocks
    <3>2. D \in [1 .. n -> Blocks(M)]
      BY <2>10, <3>1
    <3> QED BY <2>3, <3>2
  <2>16. new \in Blocks(M)
    BY <2>12 DEF Blocks, GoodInodes
  <2>17. blocks \in Seq(Blocks(M)) /\ Len(blocks) = n + 1 /\ blocks[n + 1] = new
    BY <2>3, <2>10, <2>15, <2>16
  <2>18. PICK map, x : map = [inode_map EXCEPT ![q] = x] /\ x = AddressOf(n + 1)
    OBVIOUS
  <2>19. x \in Int /\ FreshInode(blocks, x)
    <3>1. n + 1 \in Nat \ {0} /\ n + 1 \in 1 .. Len(blocks) /\ blocks[n + 1] \in GoodInodes
      BY <2>3, <2>12, <2>17
    <3>2. FreshInode(blocks, AddressOf(n + 1))
      BY <2>17, <3>1, FreshIs DEF LogOK
    <3> QED BY <2>6, <2>18, <3>1, <3>2
  <2>20. map \in [Inums -> Int] /\ \A i \in Inums : Kept(blocks, map, inums, i)
    BY <2>5, <2>13, <2>18, <2>19, OneIsKept
  <2>21. Commit(blocks, map, inums)
    <3>1. Commit([i \in 1 .. n |-> DataBlock(<<commands, i>>)]
                 \o <<[inode EXCEPT !.size = Max({end, @}), !.pointers = pointers]>>,
                 [inode_map EXCEPT ![q] = AddressOf(n + 1)], <<q>>)
      BY <2>1, <2>2, <2>7, Zenon DEF Wrote
    <3> QED BY <2>10, <2>13, <2>18, <3>1, Zenon
  <2>22. blocks \in Seq(Blocks(KnownWith(inums)))
    BY <2>2, <2>13, <2>17
  <2>23. LogOK(disk', cr', inode_map') /\ option' = option /\ commands' = commands + 1
    BY <2>14, <2>20, <2>21, <2>22, CommitKeeps
  <2> QED BY <2>23
<1> QED BY <1>3, <1>4

\* What file_delete writes.
Deleted(w, inode, parent, s) ==
    LET lastName == GetInode(w.inum).refs = 1
        blocks == <<[At(parent.pointers[s[1]]) EXCEPT !.entries[s[2]] = Free],
                    [parent EXCEPT !.pointers[s[1]] = AddressOf(1)]>>
    IN  Commit(IF lastName THEN blocks
               ELSE blocks \o <<[inode EXCEPT !.refs = @ - 1]>>,
               [inode_map EXCEPT
                    ![w.inum] = IF lastName THEN -1 ELSE AddressOf(3),
                    ![w.parent] = AddressOf(2)],
               <<w.inum, w.parent>>)

\* Two blocks and one more.
LEMMA ThreeBlocks ==
    ASSUME NEW B, NEW b1 \in B, NEW b2 \in B, NEW b3 \in B
    PROVE  /\ <<b1, b2>> \o <<b3>> \in Seq(B) /\ Len(<<b1, b2>> \o <<b3>>) = 3
           /\ (<<b1, b2>> \o <<b3>>)[2] = b2 /\ (<<b1, b2>> \o <<b3>>)[3] = b3
<1>1. PICK n, m, c, d : c = <<b1, b2>> /\ d = <<b3>> /\ n = 2 /\ m = 1
  OBVIOUS
<1>2. c \in Seq(B) /\ d \in Seq(B) /\ n \in Nat /\ m \in Nat /\ Len(c) = n /\ Len(d) = m
  BY <1>1
<1>3. c \o d \in Seq(B) /\ Len(c \o d) = n + m
  BY <1>2
<1>4. \A k \in 1 .. n : (c \o d)[k] = c[k]
  BY <1>2
<1>5. \A k \in 1 .. m : (c \o d)[n + k] = d[k]
  BY <1>2
<1>6. 2 \in 1 .. n /\ 1 \in 1 .. m /\ n + 1 = 3 /\ n + m = 3 /\ c[2] = b2 /\ d[1] = b3
  BY <1>1
<1>7. (c \o d)[2] = b2 /\ (c \o d)[3] = b3
  BY <1>4, <1>5, <1>6, Zenon
<1> QED BY <1>1, <1>3, <1>6, <1>7, Zenon

LEMMA DeleteKeeps ==
    ASSUME LFSAssumption, LogOK(disk, cr, inode_map), ~ option.no_force, commands \in Nat,
           NEW path \in Paths, file_delete(path)
    PROVE  LogOK(disk', cr', inode_map') /\ option' = option /\ commands' \in Nat
<1>1. path \in Seq(Names) /\ path # << >>
  BY DEF LFSAssumption
<1>2. PICK w : w = Walk(path)
  OBVIOUS
<1>3. CASE Fails("r", {path})
  <2>1. disk' = disk /\ cr' = cr /\ inode_map' = inode_map /\ option' = option /\ commands' = commands
    BY <1>3 DEF Fails
  <2> QED BY <2>1
<1>4. CASE ~ Fails("r", {path})
  <2>1. PICK inode \in {GetInode(w.inum)}, parent \in {GetInode(w.parent)} :
        \E s \in {find_matching_dir_slot(Last(path), parent)} :
           TypeOf(w) = "reg" /\ Deleted(w, inode, parent, s)
    <3>1. \E w1 \in {Walk(path)} : \E type \in {TypeOf(w1)} :
             \/ Fails("r", {path})
             \/ /\ type = "reg"
                /\ \E inode \in {GetInode(w1.inum)}, parent \in {GetInode(w1.parent)} :
                   \E s \in {find_matching_dir_slot(Last(path), parent)} :
                      Deleted(w1, inode, parent, s)
      BY Zenon DEF file_delete, Deleted
    <3> QED BY <1>2, <1>4, <3>1
  <2>2. PICK s \in {find_matching_dir_slot(Last(path), parent)} :
           TypeOf(w) = "reg" /\ Deleted(w, inode, parent, s)
    BY <2>1
  <2>3. PICK p, q, K, M : p = w.parent /\ q = w.inum /\ K = Known(cr) /\ M = KnownWith(<<q, p>>)
    OBVIOUS
  <2>4. w \in Walks(K) /\ w.result = "ok"
    BY <1>1, <1>2, <2>2, <2>3, WalkIs DEF TypeOf
  <2>5. /\ q \in K /\ q # -1 /\ inode \in GoodInodes /\ inode.type = "reg"
        /\ inode = GetInode(q)
    BY <2>1, <2>2, <2>3, <2>4, FileIs
  <2>6. p \in K /\ IsDirectory(p) /\ q = Lookup(p, Last(path))
    BY <1>1, <1>2, <2>3, <2>4, WalkIs DEF Walks
  <2>7. DirInode(parent, K) /\ parent = GetInode(p)
    BY <2>1, <2>3, <2>6, DirectoryIs
  <2>8. K \subseteq M /\ p \in Inums /\ q \in Inums
    BY <2>3, <2>5, <2>6 DEF KnownWith, Known
  <2>9. s \in (1 .. parent.size) \X (1 .. EntriesPerBlock)
    <3>1. PICK name : name = Last(path)
      OBVIOUS
    <3>2. s = find_matching_dir_slot(name, GetInode(p)) /\ Lookup(p, name) # -1
          /\ DirInode(GetInode(p), K)
      BY <2>2, <2>5, <2>6, <2>7, <3>1
    <3>3. s \in (1 .. GetInode(p).size) \X (1 .. EntriesPerBlock)
      BY <3>2, LookupIs
    <3> QED BY <2>7, <3>3
  <2>10. \A k \in Nat \ {0} : AddressOf(k) \in Int /\ AddressOf(k) # -1
    BY AddressIs DEF LogOK
  <2>11. PICK b1, b2, b3 :
            /\ b1 = [At(parent.pointers[s[1]]) EXCEPT !.entries[s[2]] = Free]
            /\ b2 = [parent EXCEPT !.pointers[s[1]] = AddressOf(1)]
            /\ b3 = [inode EXCEPT !.refs = @ - 1]
    OBVIOUS
  <2>12. b1 \in DirBlocks(M)
    <3>1. PICK b, k, e : b = At(parent.pointers[s[1]]) /\ k = s[2] /\ e = Free
      OBVIOUS
    <3>2. b \in DirBlocks(K)
      BY <2>7, <2>9, <3>1, EntryIs
    <3>3. e \in Slots \X (M \cup {-1})
      BY <3>1 DEF Free, Slots
    <3>4. [b EXCEPT !.entries[k] = e] \in DirBlocks(M)
      BY <2>8, <3>2, <3>3, ChangedIs
    <3> QED BY <2>11, <3>1, <3>4
  <2>13. b2 \in GoodInodes
    <3>1. PICK x, a, z : x = s[1] /\ a = AddressOf(1) /\ z = parent.size
      OBVIOUS
    <3>2. x \in 1 .. z /\ a \in Int /\ a # -1
      BY <2>9, <2>10, <3>1
    <3>3. z \in 1 .. NUM_INODE_PTRS /\ parent \in GoodInodes
      BY <2>7, <3>1, GoodInodeIs DEF DirInode
    <3>4. [parent EXCEPT !.size = z, !.pointers[x] = a] \in GoodInodes
      <4>1. \A k \in 1 .. z : k = x \/ k \in 1 .. parent.size
        BY <3>1
      <4> QED BY <2>7, <3>2, <3>3, <4>1, ParentMoves
    <3>5. [parent EXCEPT !.size = z, !.pointers[x] = a] = [parent EXCEPT !.pointers[x] = a]
      BY <3>1, <3>3 DEF GoodInodes, Inodes
    <3> QED BY <2>11, <3>1, <3>4, <3>5
  <2>14. b3 \in GoodInodes
    <3>1. PICK r : r = inode.refs - 1
      OBVIOUS
    <3>2. inode \in Inodes /\ r \in Int /\ b3 = [inode EXCEPT !.refs = r]
      BY <2>5, <2>11, <3>1, GoodInodeIs DEF GoodInodes, Inodes
    <3>3. b3 \in Inodes /\ b3.type = "reg"
      BY <2>5, <3>2 DEF Inodes
    <3> QED BY <2>5, <3>3, FileMoves
  <2>15. b1 \in Blocks(M) /\ b2 \in Blocks(M) /\ b3 \in Blocks(M)
    BY <2>12, <2>13, <2>14 DEF Blocks, GoodInodes
  <2>16. PICK inums, l : inums = <<q, p>> /\ l = (GetInode(q).refs = 1)
    OBVIOUS
  <2>17. inums \in Seq(Inums) /\ Len(inums) = 2
    BY <2>8, <2>16
  <2>18. Commit(IF l THEN <<b1, b2>> ELSE <<b1, b2>> \o <<b3>>,
                [inode_map EXCEPT ![q] = IF l THEN -1 ELSE AddressOf(3), ![p] = AddressOf(2)],
                <<q, p>>)
    BY <2>2, <2>3, <2>11, <2>16, Zenon DEF Deleted
  <2>19. PICK blocks, x, y, map :
            /\ blocks = IF l THEN <<b1, b2>> ELSE <<b1, b2>> \o <<b3>>
            /\ x = IF l THEN -1 ELSE AddressOf(3)
            /\ y = AddressOf(2) /\ map = [inode_map EXCEPT ![q] = x, ![p] = y]
    OBVIOUS
  <2>20. /\ blocks \in Seq(Blocks(M)) /\ blocks[2] = b2 /\ 2 \in 1 .. Len(blocks)
         /\ ~ l => blocks[3] = b3 /\ 3 \in 1 .. Len(blocks)
    <3>1. CASE l
      <4>1. blocks = <<b1, b2>>
        BY <2>19, <3>1
      <4>2. blocks \in Seq(Blocks(M)) /\ blocks[2] = b2 /\ Len(blocks) = 2
        BY <2>15, <4>1
      <4> QED BY <3>1, <4>2
    <3>2. CASE ~ l
      <4>1. blocks = <<b1, b2>> \o <<b3>>
        BY <2>19, <3>2
      <4>2. blocks \in Seq(Blocks(M)) /\ Len(blocks) = 3 /\ blocks[2] = b2 /\ blocks[3] = b3
        BY <2>15, <4>1, ThreeBlocks
      <4>3. 2 \in 1 .. Len(blocks) /\ 3 \in 1 .. Len(blocks)
        BY <4>2
      <4> QED BY <3>2, <4>2, <4>3
    <3> QED BY <3>1, <3>2
  <2>21. x \in Int /\ y \in Int /\ FreshInode(blocks, y) /\ (x = -1 \/ FreshInode(blocks, x))
    <3>1. FreshInode(blocks, y)
      BY <2>13, <2>19, <2>20, FreshIs DEF LogOK
    <3>2. ~ l => FreshInode(blocks, x)
      BY <2>14, <2>19, <2>20, FreshIs DEF LogOK
    <3> QED BY <2>10, <2>19, <3>1, <3>2
  <2>22. map \in [Inums -> Int] /\ \A i \in Inums : Kept(blocks, map, inums, i)
    BY <2>8, <2>16, <2>19, <2>21, BothAreKept
  <2>23. Commit(blocks, map, inums)
    BY <2>16, <2>18, <2>19, Zenon
  <2>24. blocks \in Seq(Blocks(KnownWith(inums)))
    BY <2>3, <2>16, <2>20
  <2>25. LogOK(disk', cr', inode_map') /\ option' = option /\ commands' = commands + 1
    BY <2>17, <2>22, <2>23, <2>24, CommitKeeps
  <2> QED BY <2>25
<1> QED BY <1>3, <1>4

-----------------------------------------------------------------------------
\* The log is in order from the beginning on ...
LEMMA FormattedLog ==
    ASSUME LFSAssumption, LFSInit
    PROVE  LogOK(disk, cr, inode_map) /\ commands \in Nat
<1>1. PICK map, first, new, node, piece, P, N :
         /\ map = [i \in Inums |-> IF i = ROOT_INODE THEN 2 ELSE -1]
         /\ first = [c \in 1 .. NUM_IMAP_PTRS_IN_CR |-> IF c = 1 THEN 3 ELSE -1]
         /\ new = NewDirBlock(ROOT_INODE, ROOT_INODE)
         /\ node = Inode("dir", 1, 2, [NoPointers EXCEPT ![1] = 1])
         /\ piece = ImapChunk(map, 0)
         /\ P = NUM_IMAP_PTRS_IN_CR /\ N = NUM_INODES_PER_IMAP_CHUNK
  OBVIOUS
<1>2. /\ cr = first /\ inode_map = map /\ commands = 0
      /\ disk = <<Checkpoint(first), new, node, piece>>
  BY <1>1 DEF LFSInit
<1>3. P \in Nat \ {0} /\ N \in Nat \ {0} /\ ROOT_INODE = 0 /\ Inums = 0 .. P * N - 1
  BY <1>1 DEF LFSAssumption, ROOT_INODE, Inums, NUM_INODES
<1>4. 0 \in Inums /\ Chunk(0) = 0
  <2>1. P * N >= 1
    BY <1>3
  <2>2. 0 \in Inums
    BY <1>3, <2>1
  <2>3. PICK q, r : q = Chunk(0) /\ r = (0 % NUM_INODES_PER_IMAP_CHUNK) + 1
    OBVIOUS
  <2>4. q \in 0 .. P - 1 /\ r \in 1 .. N /\ q * N + r - 1 = 0
    BY <1>1, <2>2, <2>3, ChunkIs
  <2>5. q >= 1 => q * N >= N
    BY <1>3, <2>4
  <2>6. q = 0
    BY <1>3, <2>4, <2>5
  <2> QED BY <2>2, <2>3, <2>6
<1>5. /\ map \in [Inums -> Int] /\ map[0] = 2 /\ \A i \in Inums : i # 0 => map[i] = -1
      /\ first \in [1 .. P -> Int] /\ first[1] = 3 /\ \A x \in 1 .. P : x # 1 => first[x] = -1
      /\ 1 \in 1 .. P
  BY <1>1, <1>3, <1>4
<1>6. ROOT_INODE \in Known(first)
  BY <1>3, <1>4, <1>5 DEF Known
<1>7. node \in GoodInodes /\ new \in DirBlocks(Known(first)) /\ piece \in ImapBlocks
  <2>1. node \in GoodInodes
    BY <1>1, NewInodesAre
  <2>2. new \in DirBlocks(Known(first))
    BY <1>1, <1>6, NewDirBlockIs
  <2>3. piece \in ImapBlocks
    BY <1>1, <1>4, <1>5, PieceIs
  <2> QED BY <2>1, <2>2, <2>3
<1>8. Checkpoint(first) \in Blocks(Known(first))
  BY <1>1, <1>5 DEF Checkpoint, Blocks, OtherBlocks
<1>9. /\ disk \in Seq(Blocks(Known(first))) /\ Len(disk) = 4 /\ disk[1] = Checkpoint(first)
      /\ disk[3] = node /\ disk[4] = piece
  <2>1. PICK b1, b2, b3, b4, B : /\ b1 = Checkpoint(first) /\ b2 = new /\ b3 = node /\ b4 = piece
                                 /\ B = Blocks(Known(first))
    OBVIOUS
  <2>2. b1 \in B /\ b2 \in B /\ b3 \in B /\ b4 \in B
    BY <1>7, <1>8, <2>1 DEF Blocks, GoodInodes
  <2>3. disk = <<b1, b2, b3, b4>>
    BY <1>2, <2>1
  <2>4. disk \in Seq(B) /\ Len(disk) = 4 /\ disk[1] = b1 /\ disk[3] = b3 /\ disk[4] = b4
    BY <2>2, <2>3
  <2> QED BY <2>1, <2>4
<1>10. Mapped(disk, map)
  <2> SUFFICES ASSUME NEW i \in Inums, map[i] # -1
               PROVE  map[i] \in 1 .. Len(disk) - 1 /\ disk[map[i] + 1] \in GoodInodes
    BY <1>5 DEF Mapped
  <2>1. map[i] = 2
    BY <1>5
  <2> QED BY <1>7, <1>9, <2>1
<1>11. Listed(disk, first)
  <2> SUFFICES ASSUME NEW x \in 1 .. P, first[x] # -1
               PROVE  first[x] \in 1 .. Len(disk) - 1 /\ disk[first[x] + 1] \in ImapBlocks
    BY <1>1, <1>5 DEF Listed
  <2>1. first[x] = 3
    BY <1>5
  <2> QED BY <1>7, <1>9, <2>1
<1>12. ASSUME NEW i \in Inums
       PROVE  Current(disk, first, map, i)
  <2>1. Chunk(i) + 1 \in 1 .. P /\ Chunk(i) \in Int
    BY <1>1, ChunkIs
  <2>2. CASE Chunk(i) = 0
    <3>1. first[Chunk(i) + 1] = 3
      BY <1>5, <2>2
    <3>2. ImapChunk(map, Chunk(i)) = piece
      BY <1>1, <2>2
    <3>3. piece.entries[(i % NUM_INODES_PER_IMAP_CHUNK) + 1] = map[i]
      BY <1>5, <3>2, PieceIs
    <3>4. disk[first[Chunk(i) + 1] + 1] = piece
      BY <1>9, <3>1
    <3>5. Saved(disk, first, i) = map[i]
      BY <3>3, <3>4, Zenon DEF Saved
    <3>6. map[i] # -1 => map[i] \in 1 .. Len(disk) - 1 /\ disk[map[i] + 1] \in GoodInodes
      BY <1>10 DEF Mapped
    <3>7. SameInodes(disk[map[i] + 1], disk[map[i] + 1])
      BY DEF SameInodes
    <3> QED BY <3>1, <3>5, <3>6, <3>7 DEF Current
  <2>3. CASE Chunk(i) # 0
    <3>1. first[Chunk(i) + 1] = -1
      BY <1>5, <2>1, <2>3
    <3>2. map[i] = -1
      BY <1>4, <1>5, <2>3
    <3> QED BY <3>1, <3>2 DEF Current
  <2> QED BY <2>2, <2>3
<1>13. LogOK(disk, first, map)
  BY <1>6, <1>9, <1>10, <1>11, <1>12 DEF LogOK
<1> QED BY <1>2, <1>13

\* ... and every step keeps it so, unless the checkpoint stays in memory.
LogInOrder ==
    /\ ~ option.no_force => LogOK(disk, cr, inode_map)
    /\ commands \in Nat

LEMMA SyncKeeps ==
    ASSUME LogOK(disk, cr, inode_map), sync
    PROVE  LogOK(disk', cr', inode_map') /\ option' = option /\ commands' = commands
<1>1. PICK z : z = Checkpoint(cr)
  OBVIOUS
<1>2. disk' = [disk EXCEPT ![1] = z] /\ disk[1] = z /\ disk \in Seq(Blocks(Known(cr))) /\ Len(disk) > 0
  BY <1>1 DEF sync, Synced, LogOK
<1>3. disk' = disk
  BY <1>2
<1> QED BY <1>3 DEF sync

\* A command is counted once, and the options are those of the start.
CommandCount(n) == option' = option /\ commands' = n

LEMMA CommandsAreCounted ==
    ASSUME LFSNext
    PROVE  CommandCount(commands) \/ CommandCount(commands + 1)
<1>1. ASSUME NEW blocks, NEW map, NEW inums, Commit(blocks, map, inums)
      PROVE  CommandCount(commands + 1)
  BY <1>1, CommitIsAFold DEF CommandCount
<1>2. ASSUME NEW command, NEW paths, Fails(command, paths)
      PROVE  CommandCount(commands)
  BY <1>2 DEF Fails, CommandCount
<1>3. ASSUME NEW command, NEW path, file_create(command, path)
      PROVE  CommandCount(commands) \/ CommandCount(commands + 1)
  BY <1>1, <1>2, <1>3, Zenon DEF file_create
<1>4. ASSUME NEW path, file_delete(path)
      PROVE  CommandCount(commands) \/ CommandCount(commands + 1)
  BY <1>1, <1>2, <1>4, Zenon DEF file_delete
<1>5. ASSUME NEW path, NEW offset, NEW n, file_write(path, offset, n)
      PROVE  CommandCount(commands) \/ CommandCount(commands + 1)
  BY <1>1, <1>2, <1>5, Zenon DEF file_write
<1>6. ASSUME NEW src, NEW dst, file_link(src, dst)
      PROVE  CommandCount(commands) \/ CommandCount(commands + 1)
  BY <1>1, <1>2, <1>6, Zenon DEF file_link
<1>7. ASSUME sync
      PROVE  CommandCount(commands)
  BY <1>7 DEF sync, CommandCount
<1> QED BY <1>3, <1>4, <1>5, <1>6, <1>7, Zenon DEF LFSNext

LEMMA LogStays ==
    ASSUME LFSAssumption, LogInOrder, [LFSNext]_lfsVars
    PROVE  LogInOrder'
<1>1. commands \in Nat
  BY DEF LogInOrder
<1>2. CASE UNCHANGED lfsVars
  <2>1. disk' = disk /\ cr' = cr /\ inode_map' = inode_map /\ option' = option /\ commands' = commands
    BY <1>2 DEF lfsVars
  <2> QED BY <2>1 DEF LogInOrder
<1>3. CASE LFSNext
  <2>1. option' = option /\ commands' \in Nat
    BY <1>1, <1>3, CommandsAreCounted DEF CommandCount
  <2>2. ASSUME ~ option.no_force
        PROVE  LogOK(disk', cr', inode_map')
    <3>1. LogOK(disk, cr, inode_map)
      BY <2>2 DEF LogInOrder
    <3>2. ASSUME NEW path \in Paths, file_create("c", path)
          PROVE  LogOK(disk', cr', inode_map')
      BY <1>1, <2>2, <3>1, <3>2, CreateKeeps
    <3>3. ASSUME NEW path \in Paths, file_create("d", path)
          PROVE  LogOK(disk', cr', inode_map')
      BY <1>1, <2>2, <3>1, <3>3, CreateKeeps
    <3>4. ASSUME NEW path \in Paths, file_delete(path)
          PROVE  LogOK(disk', cr', inode_map')
      BY <1>1, <2>2, <3>1, <3>4, DeleteKeeps
    <3>5. ASSUME NEW path \in Paths, NEW offset \in 0 .. NUM_INODE_PTRS - 1,
                 NEW n \in 0 .. NUM_INODE_PTRS, file_write(path, offset, n)
          PROVE  LogOK(disk', cr', inode_map')
      BY <1>1, <2>2, <3>1, <3>5, WriteKeeps
    <3>6. ASSUME NEW path \in Paths, NEW dst \in Paths, file_link(path, dst)
          PROVE  LogOK(disk', cr', inode_map')
      BY <1>1, <2>2, <3>1, <3>6, LinkKeeps
    <3>7. ASSUME sync
          PROVE  LogOK(disk', cr', inode_map')
      BY <3>1, <3>7, SyncKeeps
    <3> QED BY <1>3, <3>2, <3>3, <3>4, <3>5, <3>6, <3>7, Zenon DEF LFSNext
  <2> QED BY <2>1, <2>2 DEF LogInOrder
<1> QED BY <1>2, <1>3

\* A program that starts from block 0 finds what the one that runs has in memory.
LEMMA OrderIsCurrent ==
    ASSUME LFSAssumption, LogInOrder
    PROVE  CheckpointCurrent
<1> SUFFICES ASSUME ~ option.no_force, NEW i \in Inums
             PROVE  IF At(0).entries[Chunk(i) + 1] = -1 THEN inode_map[i] = -1
                    ELSE /\ (OnDisk(i) = -1) <=> (inode_map[i] = -1)
                         /\ OnDisk(i) # -1 =>
                              /\ At(OnDisk(i)).type = At(inode_map[i]).type
                              /\ At(OnDisk(i)).size = At(inode_map[i]).size
                              /\ At(OnDisk(i)).pointers = At(inode_map[i]).pointers
                              /\ At(OnDisk(i)).type = "dir" => At(OnDisk(i)).refs = At(inode_map[i]).refs
                              /\ Pointed(At(OnDisk(i))) \subseteq Live
  BY Zenon DEF CheckpointCurrent
<1>1. LogOK(disk, cr, inode_map)
  BY DEF LogInOrder
<1>2. PICK n, x : n = Len(disk) /\ x = Chunk(i) + 1
  OBVIOUS
<1>3. /\ disk \in Seq(Blocks(Known(cr))) /\ n > 0 /\ n \in Nat /\ disk[1] = Checkpoint(cr)
      /\ Mapped(disk, inode_map) /\ Current(disk, cr, inode_map, i)
  BY <1>1, <1>2 DEF LogOK
<1>4. ASSUME NEW a \in 0 .. n - 1
      PROVE  At(a) = disk[a + 1]
  BY <1>2, <1>3, AtIs
<1>5. At(0).entries = cr
  <2>1. At(0) = disk[0 + 1]
    BY <1>3, <1>4
  <2> QED BY <1>3, <2>1 DEF Checkpoint
<1>6. CASE cr[x] = -1
  <2>1. inode_map[i] = -1
    BY <1>2, <1>3, <1>6 DEF Current
  <2> QED BY <1>2, <1>5, <1>6, <2>1
<1>7. CASE cr[x] # -1
  <2>1. i \in Known(cr)
    BY <1>2, <1>7 DEF Known
  <2>2. PICK a, m : a = OnDisk(i) /\ m = inode_map[i]
    OBVIOUS
  <2>3. /\ a = -1 <=> m = -1
        /\ a # -1 => a \in 1 .. n - 1 /\ SameInodes(disk[a + 1], disk[m + 1])
    BY <1>1, <1>2, <1>3, <1>7, <2>1, <2>2, InodeIs DEF Current
  <2>4. m # -1 => m \in 1 .. n - 1
    BY <1>2, <1>3, <2>2 DEF Mapped
  <2>5. ASSUME a # -1
        PROVE  /\ At(a).type = At(m).type /\ At(a).size = At(m).size
               /\ At(a).pointers = At(m).pointers
               /\ At(a).type = "dir" => At(a).refs = At(m).refs
               /\ Pointed(At(a)) \subseteq Live
    <3>1. a \in 0 .. n - 1 /\ m \in 0 .. n - 1
      BY <2>3, <2>4, <2>5
    <3>2. At(a) = disk[a + 1] /\ At(m) = disk[m + 1]
      BY <1>4, <3>1
    <3>3. SameInodes(At(a), At(m))
      BY <2>3, <2>5, <3>2
    <3>4. Pointed(At(a)) = Pointed(At(m))
      BY <3>3 DEF SameInodes, Pointed
    <3>5. m \in {inode_map[j] : j \in Inums} \ {-1}
      BY <2>2, <2>3, <2>5
    <3>6. Pointed(At(m)) \subseteq Live
      BY <3>5 DEF Live
    <3> QED BY <3>3, <3>4, <3>6 DEF SameInodes
  <2> QED BY <1>2, <1>5, <1>7, <2>2, <2>3, <2>5
<1> QED BY <1>6, <1>7

THEOREM CheckpointIsCurrent ==
    ASSUME LFSAssumption
    PROVE  LFSSpec => []CheckpointCurrent
<1>1. LFSInit => LogInOrder
  BY FormattedLog DEF LogInOrder
<1>2. LogInOrder /\ [LFSNext]_lfsVars => LogInOrder'
  BY LogStays
<1>3. LogInOrder => CheckpointCurrent
  BY OrderIsCurrent
<1> QED BY <1>1, <1>2, <1>3, PTL DEF LFSSpec
=============================================================================
