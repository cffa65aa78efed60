---------------------------- MODULE BoundedFifo ----------------------------
(***************************************************************************)
(* What a correct producer/consumer program of threads-cv/ promises: one   *)
(* FIFO channel of bounded capacity.  Every source puts its items in order,*)
(* the closing source puts the end-of-stream markers after all the others  *)
(* have put everything, and a sink takes items from the head until the item*)
(* it takes is a marker.                                                   *)
(***************************************************************************)
EXTENDS Naturals, Sequences

CONSTANTS
    Capacity,       \* number of items the channel can hold
    Sources,        \* who puts
    Closer,         \* the source that puts the markers
    Sinks,          \* who takes
    Quota(_),       \* number of items a source puts
    Item(_, _),     \* Item(s, n) is the n-th item of source s, from 0
    End             \* the end-of-stream marker

VARIABLES
    queue,          \* items put and not yet taken
    put,            \* per source, number of items put
    got             \* per sink, the items taken, in order

fifoVars == <<queue, put, got>>

FifoInit ==
    /\ queue = << >>
    /\ put = [s \in Sources |-> 0]
    /\ got = [c \in Sinks |-> << >>]

Put(s) ==
    /\ Len(queue) < Capacity
    /\ put[s] < Quota(s)
    /\ s = Closer => \A r \in Sources \ {Closer} : put[r] = Quota(r)
    /\ queue' = Append(queue, Item(s, put[s]))
    /\ put' = [put EXCEPT ![s] = @ + 1]
    /\ UNCHANGED got

Closed(c) == got[c] # << >> /\ got[c][Len(got[c])] = End

Take(c) ==
    /\ ~Closed(c)
    /\ queue # << >>
    /\ got' = [got EXCEPT ![c] = Append(@, Head(queue))]
    /\ queue' = Tail(queue)
    /\ UNCHANGED put

FifoNext == (\E s \in Sources : Put(s)) \/ (\E c \in Sinks : Take(c))

FifoSafe == FifoInit /\ [][FifoNext]_fifoVars

\* The channel keeps moving as long as anything can be put or taken.
FifoSpec == FifoSafe /\ WF_fifoVars(FifoNext)
=============================================================================
