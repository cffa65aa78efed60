------------------------------- MODULE Steps -------------------------------
(***************************************************************************)
(* Handlers that change their state in a loop.                             *)
(***************************************************************************)
EXTENDS SequencesExt

\* Op of a value.  The set makes TLC evaluate the value once, and not at every place
\* where Op mentions it.
Given(value, Op(_)) == CHOOSE r \in {Op(v) : v \in {value}} : TRUE

\* for x in seq: state = Op(state, x)
ForEach(Op(_, _), state, seq) ==
    FoldLeft(LAMBDA s, x : CHOOSE r \in {Op(v, x) : v \in {s}} : TRUE, state, seq)
=============================================================================
