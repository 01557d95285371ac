-------------------------- MODULE MCOverlayBundler --------------------------
(***************************************************************************)
(* Instances of OverlayBundler for TLC.                                    *)
(***************************************************************************)
EXTENDS OverlayBundler, TLC

CONSTANTS p1, p2, f1, f2, base, lean, top, del, app, slim, lone, big, bare

\* base holds two files, lean one of them; top replaces and del deletes the other.
LayerAdds == base :> {f1, f2} @@ lean :> {f2} @@ top :> {f1} @@ del :> {}
LayerDels == base :> {}  @@ lean :> {}  @@ top :> {}  @@ del :> {f1}

\* Two images whose last layer has the same diff ID, over different parents.
SharedTop == app :> <<base, del>> @@ slim :> <<lean, del>>

\* One image that replaces a file of its base layer.
Replaced == app :> <<base, top>>

\* Images of two layers and of one, which share that one: extracted on its
\* own it is empty.  And one of too many layers, and one of none.
Numbers == app :> <<base, del>> @@ lone :> <<del>>
           @@ big :> <<base, lean, del>> @@ bare :> <<>>
=============================================================================
