----------------------------- MODULE LayerCache -----------------------------
(***************************************************************************)
(* What the overlay store promises, whatever its processes do and however  *)
(* they fail: layers that are whole once they are there and that stay as   *)
(* they are, and root filesystems that are overlays of such layers, in     *)
(* their image's order, from the mount until it is taken down.             *)
(***************************************************************************)
EXTENDS Overlay

CONSTANTS Procs, Images, LayersOf

VARIABLES
    cached, \* the directory of each layer, or Missing
    image,  \* the image each process was asked for last
    root    \* the root filesystem it has mounted, or Missing

vars == <<cached, image, root>>

Init ==
    /\ cached = [l \in Layers |-> Missing]
    /\ image \in [Procs -> Images]
    /\ root = [p \in Procs |-> Missing]

\* An empty directory says nothing of its layer's parents; another takes its
\* place.
Publish(l) ==
    /\ cached[l] \in {Missing, EmptyDir}
    /\ \E d \in Dirs : IsWhole(l, d) /\ cached' = [cached EXCEPT ![l] = d]
    /\ UNCHANGED <<image, root>>

\* A process of that name is new: what the last one had mounted is gone.
Ask(p, i) ==
    /\ image' = [image EXCEPT ![p] = i]
    /\ root' = [root EXCEPT ![p] = Missing]
    /\ UNCHANGED cached

Mount(p) ==
    LET layers == LayersOf[image[p]]
    IN  /\ root[p] = Missing
        /\ \A k \in DOMAIN layers : cached[layers[k]] # Missing
        /\ root' = [root EXCEPT ![p] =
                      Show([k \in DOMAIN layers |-> cached[layers[k]]])]
        /\ UNCHANGED <<cached, image>>

\* It is unmounted, or its process is gone.
Release(p) ==
    /\ root' = [root EXCEPT ![p] = Missing]
    /\ UNCHANGED <<cached, image>>

Next ==
    \/ \E l \in Layers : Publish(l)
    \/ \E p \in Procs : Mount(p) \/ Release(p) \/ \E i \in Images : Ask(p, i)

Spec == Init /\ [][Next]_vars
=============================================================================
