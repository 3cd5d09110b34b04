------------------------------ MODULE MCObjects -------------------------------
(***************************************************************************)
(* What Rust's handles keep alive: the C objects that belong to each       *)
(* other, and the listeners in the list of one of them.  A behaviour is    *)
(* about the one or the other.                                             *)
(***************************************************************************)
EXTENDS Lifetimes, Listeners, TLC

VARIABLE about

MCInit == LifetimesInit /\ Init /\ about \in {"lifetimes", "listeners"}
MCNext == /\ UNCHANGED about
          /\ \/ about = "lifetimes" /\ LifetimesNext /\ UNCHANGED vars
             \/ about = "listeners" /\ Next /\ UNCHANGED lifetimesVars
MCSpec == MCInit /\ [][MCNext]_<<vars, lifetimesVars, about>>

\* Objects of a kind are interchangeable, and so are hooks; some of the handles
\* bear the hooks' names, so that a permutation exchanges both.
Symmetry == Permutations(Contexts) \cup Permutations(Cores) \cup Permutations(Hooks)
==============================================================================
