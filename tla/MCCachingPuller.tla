--------------------------- MODULE MCCachingPuller ---------------------------
(***************************************************************************)
(* Instances of CachingPuller for TLC.                                     *)
(***************************************************************************)
EXTENDS CachingPuller, TLC

CONSTANTS p1, p2, app, tool, big, base, top, latest, multi

\* Two images that share their base layer; app has a second layer.
TwoImages == app :> <<base, top>> @@ tool :> <<base>>

\* One image of two layers.
OneImage == app :> <<base, top>>

\* An image of three layers, two of them in app and one of them twice.
WithBig == app :> <<base, top>> @@ big :> <<base, top, base>>

MultiIsApp == multi :> app

NoPlatform == <<>>

ProcSymmetry == Permutations(Procs)
=============================================================================
