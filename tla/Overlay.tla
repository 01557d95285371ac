------------------------------ MODULE Overlay ------------------------------
(***************************************************************************)
(* OCI layers and overlayfs, as far as internal/oci/store/overlay relies   *)
(* on them: what a layer's tarball does to a filesystem, what an overlay   *)
(* mount shows, and what is left in its upper directory.                   *)
(*                                                                         *)
(* A filesystem maps each file to the layer it came from.  Files are       *)
(* independent of each other here; paths that nest are the subject of      *)
(* layer.go, not of the overlay store.                                     *)
(***************************************************************************)
EXTENDS Naturals, Sequences

CONSTANTS
    Files,    \* the files layers speak of
    Layers,   \* diff IDs
    Adds,     \* the files each layer's tarball holds
    Dels,     \* the files for which it holds a whiteout
    Nothing,  \* a file that is not there
    Whiteout, \* an overlayfs whiteout, a device in a directory
    Missing   \* a directory that is not there

ASSUME ContentAssumption ==
    /\ Adds \in [Layers -> SUBSET Files]
    /\ Dels \in [Layers -> SUBSET Files]
    /\ Nothing \notin Layers /\ Whiteout \notin Layers /\ Nothing # Whiteout

Dirs     == [Files -> Layers \cup {Nothing, Whiteout}]
EmptyDir == [f \in Files |-> Nothing]

ASSUME MissingAssumption == Missing \notin Dirs

\* What an overlay of a sequence of directories shows.  The kernel stacks
\* `lowerdir=a:b:c' from the right: the first one is the topmost.
Show(stack) ==
    [f \in Files |->
        LET has == {i \in DOMAIN stack : stack[i][f] # Nothing}
            first == {i \in has : \A j \in has : i <= j}
        IN  IF \E i \in first : stack[i][f] # Whiteout
            THEN stack[CHOOSE i \in first : TRUE][f]
            ELSE Nothing]

\* The upper directory after the tarball of layer l was extracted into a
\* mount over these lower directories.  WhiteoutHandler deletes what is
\* visible, unless the same tarball holds it, and deleting a file of a lower
\* directory makes a whiteout.
Upper(l, lower) ==
    [f \in Files |->
        IF f \in Adds[l] THEN l
        ELSE IF f \in Dels[l] /\ Show(lower)[f] # Nothing THEN Whiteout
        ELSE Nothing]

\* All files of a layer's tarball, and besides them only whiteouts it asks for.
IsWhole(l, dir) ==
    \A f \in Files :
        /\ dir[f] = l <=> f \in Adds[l]
        /\ dir[f] \in {l, Nothing, Whiteout}
        /\ dir[f] = Whiteout => f \in Dels[l]

\* The image's `flattened' filesystem: its layers applied in order.
Touches(l)      == Adds[l] \cup Dels[l]
Flatten(layers) ==
    [f \in Files |->
        LET at   == {i \in DOMAIN layers : f \in Touches(layers[i])}
            last == CHOOSE i \in at : \A j \in at : j <= i
        IN  IF at # {} /\ f \in Adds[layers[last]] THEN layers[last]
                                                   ELSE Nothing]
=============================================================================
