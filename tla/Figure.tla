------------------------------- MODULE Figure -------------------------------
(***************************************************************************)
(* What the pages are promised of a slot's "reachable now" figure: it      *)
(* follows from a state the slot was really in, and each new figure from a *)
(* later state than the one before.  How results are computed, queued,     *)
(* cached and shared is Reachable's concern, which implements this.        *)
(***************************************************************************)
EXTENDS Integers

CONSTANTS
    Slots,
    MaxProgress,  \* bound: states of a slot
    Never         \* the figure of a slot nothing was computed of

VARIABLES
    progress,     \* per slot, the number of its present state
    figure        \* per slot, the state whose figure is shown

vars == <<progress, figure>>

Init ==
    /\ progress = [s \in Slots |-> 0]
    /\ figure = [s \in Slots |-> Never]

\* The slot goes on to its next state.
Play(s) ==
    /\ progress[s] < MaxProgress
    /\ progress' = [progress EXCEPT ![s] = @ + 1]
    /\ UNCHANGED figure

\* A newer figure is shown, of the present state or one on the way to it.
Renew(s) ==
    /\ \E k \in 0..progress[s] : /\ k > figure[s]
                                 /\ figure' = [figure EXCEPT ![s] = k]
    /\ UNCHANGED progress

Next == \E s \in Slots : Play(s) \/ Renew(s)

Spec == Init /\ [][Next]_vars
=============================================================================
