----------------------------- MODULE ImageStore -----------------------------
(***************************************************************************)
(* The image store of internal/oci/store/store.go: the directory i/ in     *)
(* which the config file of an image is stored under the image's digest    *)
(* and a layer, as an uncompressed tarball, under its diff ID.  A file is  *)
(* written to a temporary name next to its own and renamed onto it.        *)
(*                                                                         *)
(* This module holds the disk and the operators that read and change it.   *)
(* CachingPuller.tla holds the calls that use them.                        *)
(***************************************************************************)
EXTENDS Naturals, Sequences

CONSTANTS
    Images,     \* digests of the images a registry can serve
    Layers,     \* diff IDs of their layers
    LayersOf,   \* the layers of each image, base layer first
    MaxLayers   \* the most layers an image may have

ASSUME ImagesAssumption    == Images \cap Layers = {}
ASSUME LayersOfAssumption  == LayersOf \in [Images -> Seq(Layers)]
ASSUME MaxLayersAssumption == MaxLayers \in Nat

VARIABLE file   \* what the directory i/ holds under each digest

Blobs   == Images \cup Layers
Content == {"none", "partial", "whole"}

\* Position 0 is an image's config file, position n its n-th layer.
Positions(d) == 0 .. Len(LayersOf[d])
Blob(d, n)   == IF n = 0 THEN d ELSE LayersOf[d][n]

\* layer.Exists: a stat, which says nothing about the content.
Exists(b) == file[b] # "none"

\* Image.Image succeeds: the config file reads and parses, and every layer
\* exists.  (validate.Fast does not look into the layers.)
Stored(d) ==
    /\ d \in Images
    /\ file[d] = "whole"
    /\ \A n \in 1 .. Len(LayersOf[d]) : Exists(LayersOf[d][n])

\* Every byte of the image is there: what a caller of Image.Image counts on.
Complete(d) ==
    /\ d \in Images
    /\ \A n \in Positions(d) : file[Blob(d, n)] = "whole"

\* Validate succeeds.
Valid(d) == Len(LayersOf[d]) <= MaxLayers

\* os.Rename of a temporary file with content c onto the name of blob b.
RenameOnto(b, c) == file' = [file EXCEPT ![b] = c]
=============================================================================
