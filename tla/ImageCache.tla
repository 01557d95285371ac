----------------------------- MODULE ImageCache -----------------------------
(***************************************************************************)
(* What an image cache promises its callers, whatever its files: a set of  *)
(* images that only grows, references mapped to images of that set, and    *)
(* answers to callers, each an image of that set.                          *)
(***************************************************************************)
CONSTANTS Images, Refs, Procs, NoHash

VARIABLES
    complete,  \* the images that can be read in full
    mapping,   \* the image each reference is known by, or NoHash
    answer     \* the image each caller was given last, or NoHash

vars == <<complete, mapping, answer>>

Init ==
    /\ complete = {}
    /\ mapping = [r \in Refs |-> NoHash]
    /\ answer = [p \in Procs |-> NoHash]

\* Writing one blob can complete several images, for they share layers.
Publish ==
    /\ \E S \in SUBSET Images : complete' = complete \cup S
    /\ UNCHANGED <<mapping, answer>>

Map(r, d) ==
    /\ d \in complete
    /\ mapping' = [mapping EXCEPT ![r] = d]
    /\ UNCHANGED <<complete, answer>>

Unmap(r) ==
    /\ mapping' = [mapping EXCEPT ![r] = NoHash]
    /\ UNCHANGED <<complete, answer>>

Answer(p, d) ==
    /\ answer[p] = NoHash
    /\ d \in complete
    /\ answer' = [answer EXCEPT ![p] = d]
    /\ UNCHANGED <<complete, mapping>>

\* The caller calls again.
Ask(p) ==
    /\ answer' = [answer EXCEPT ![p] = NoHash]
    /\ UNCHANGED <<complete, mapping>>

Next ==
    \/ Publish
    \/ \E r \in Refs : Unmap(r) \/ \E d \in Images : Map(r, d)
    \/ \E p \in Procs : Ask(p) \/ \E d \in Images : Answer(p, d)

Spec == Init /\ [][Next]_vars
=============================================================================
