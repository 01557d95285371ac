------------------------------ MODULE Extraction ------------------------------
(***************************************************************************)
(* internal/oci/layer: what the entries of a layer's tarball do to a       *)
(* directory, one after the other, and what the image specification says   *)
(* that the layers of an image mean.                                       *)
(*                                                                         *)
(* A path is the sequence of its names, a tree maps each path to what is   *)
(* there, a tarball is a sequence of entries.  The name of a whiteout is   *)
(* the path it deletes, that of an opaque whiteout its directory.          *)
(***************************************************************************)
EXTENDS Naturals, SequencesExt

CONSTANTS
    Names,   \* of files
    Depth,   \* of paths
    MaxLinks \* bound: how many links are followed from one name

ASSUME DepthAssumption == Depth \in Nat /\ MaxLinks \in Nat

Paths == UNION {[1 .. n -> Names] : n \in 1 .. Depth}

\* What is at a path.  A file has content, of which we keep the layer it is
\* from, and a mode.
None          == [kind |-> "none"]
Dir           == [kind |-> "dir"]
Fifo          == [kind |-> "fifo"]
File(from, m) == [kind |-> "file", from |-> from, mode |-> m]
Link(to, b)   == [kind |-> "link", to |-> to, beside |-> b]

\* A link is to a name in the root, or to one beside it, in its directory.
Modes == {"rw", "rwx"}
Nodes == {None, Dir, Fifo} \cup [kind : {"file"}, from : Nat, mode : Modes]
                           \cup [kind : {"link"}, to : Names, beside : BOOLEAN]

\* A hard link is to a file in the root, as names in tarballs are.
AllEntries ==
    [kind : {"dir", "fifo", "device", "whiteout", "opaque"}, path : Paths]
        \cup [kind : {"file"}, path : Paths, mode : Modes]
        \cup [kind : {"symlink"}, path : Paths, to : Names, beside : BOOLEAN]
        \cup [kind : {"hardlink"}, path : Paths, to : Names]

Empty         == [p \in Paths |-> None]
Kind(t, p)    == IF p = <<>> THEN "dir" ELSE t[p].kind
Parent(p)     == Front(p)
Above(p, q)   == IsStrictPrefix(p, q)

\* What is there, is in a directory.
IsTree(t) ==
    /\ t \in [Paths -> Nodes]
    /\ \A p \in Paths : Kind(t, p) # "none" => Kind(t, Parent(p)) = "dir"

\* One link further, and so on: Chain(t, p)[n] is n links further.
Hop(t, p) ==
    IF Kind(t, p) # "link" THEN p
    ELSE IF t[p].beside THEN Append(Parent(p), t[p].to)
    ELSE <<t[p].to>>
Chain(t, p) ==
    LET at[n \in 0 .. MaxLinks] == IF n = 0 THEN p ELSE Hop(t, at[n - 1])
    IN  at
Follow(t, p) == IF Kind(t, p) = "link" THEN Chain(t, p)[MaxLinks] ELSE p

\* SecureJoin: the path is followed through links, the last name's too.
\* Way(t, p)[n] is where its first n names lead.  (It counts the links of all
\* names together.)
Way(t, p) ==
    LET at[n \in 0 .. Len(p)] ==
            IF n = 0 THEN <<>> ELSE Follow(t, Append(at[n - 1], p[n]))
    IN  at
Join(t, p) == Way(t, p)[Len(p)]

\* The paths that are looked at, the links that are followed from them, and
\* that these are too many.
Steps(t, p) == {Append(Way(t, p)[n - 1], p[n]) : n \in 1 .. Len(p)}
Followed(t, p) ==
    {q \in {Chain(t, f)[k] : f \in Steps(t, p), k \in 0 .. MaxLinks} :
        Kind(t, q) = "link"}
Loops(t, p) == \E n \in 1 .. Len(p) : Kind(t, Way(t, p)[n]) = "link"

\* os.RemoveAll of each of these paths.
RemoveAll(t, gone) ==
    [p \in Paths |-> IF \E q \in gone : IsPrefix(q, p) THEN None ELSE t[p]]

\* os.MkdirAll of a path's parent.
MakeParents(t, p) ==
    [q \in Paths |-> IF Above(q, p) /\ Kind(t, q) = "none" THEN Dir ELSE t[q]]

\* ENOTDIR: there is something above the path that is no directory.
Blocked(t, p) ==
    \E q \in Paths : Above(q, p) /\ Kind(t, q) \notin {"none", "dir"}

-----------------------------------------------------------------------------
(* The handlers.  l is the layer an entry is of.                           *)

IsWhiteout(e) == e.kind \in {"whiteout", "opaque"}

\* The path an entry is handled at, and that a whiteout deletes: the name of
\* a whiteout is no link.  All other names are followed.
Target(t, e) ==
    IF e.kind = "whiteout" THEN Append(Join(t, Parent(e.path)), Last(e.path))
                           ELSE Join(t, e.path)
TooManyLinks(t, e) ==
    Loops(t, IF e.kind = "whiteout" THEN Parent(e.path) ELSE e.path)

\* ExtractFile opens a file that is there as it is, and writes into a fifo,
\* which we take to hold it.
ExtractFile(t, p, l, m) ==
    CASE Kind(t, p) = "none" -> File(l, m)
      [] Kind(t, p) = "file" -> File(l, t[p].mode)
      [] OTHER               -> t[p]

\* Symlink and Mknod want nothing there, OpenFile no directory, ExtractDir
\* nothing or a directory; devices are unsupported.
CannotExtract(t, e) ==
    LET k == Kind(t, Target(t, e))
    IN  \/ e.kind = "device"
        \/ e.kind \in {"symlink", "hardlink", "fifo"} /\ k # "none"
        \/ e.kind = "file" /\ k = "dir"
        \/ e.kind = "dir" /\ k \notin {"none", "dir"}

\* ExtractHandler.Handle.  A hard link is extracted as a symlink, by its name
\* in the tarball, which leads beside it.
Extract(t, e, l) ==
    LET p == Target(t, e)
    IN  [MakeParents(t, p) EXCEPT ![p] =
            CASE e.kind = "file"     -> ExtractFile(t, p, l, e.mode)
              [] e.kind = "symlink"  -> Link(e.to, e.beside)
              [] e.kind = "hardlink" -> Link(e.to, TRUE)
              [] e.kind = "fifo"     -> Fifo
              [] OTHER               -> Dir]

\* What an opaque whiteout of directory d walks over and deletes: whatever
\* was not handled, even if what is below it was.
Opaque(t, handled, d) ==
    RemoveAll(t, {r \in Paths : Above(d, r) /\ r \notin handled})

\* Mutant of Whiteout: it deletes what was handled, too.
DeleteAlways(t, handled, e) ==
    IF e.kind = "opaque" THEN Opaque(t, handled, Target(t, e))
                         ELSE RemoveAll(t, {Target(t, e)})

\* WhiteoutHandler.Handle, of a whiteout.
Whiteout(t, handled, e) ==
    IF e.kind = "opaque" THEN Opaque(t, handled, Target(t, e))
    ELSE IF Target(t, e) \in handled THEN t ELSE RemoveAll(t, {Target(t, e)})

\* Mutant of Remember: nothing is.
RememberNothing(t, handled, e) == handled

\* WhiteoutHandler.Handle, which remembers what it has passed on ...
Handle(t, handled, e, l) ==
    IF IsWhiteout(e) THEN Whiteout(t, handled, e) ELSE Extract(t, e, l)
Remember(t, handled, e) ==
    IF IsWhiteout(e) THEN handled ELSE handled \cup {Target(t, e)}

\* ... and when it fails.  A deletion does where it finds a file for a
\* directory, unless it is to delete nothing.
Refuses(t, handled, e) ==
    \/ TooManyLinks(t, e)
    \/ /\ Blocked(t, Target(t, e)) \/ (~ IsWhiteout(e) /\ CannotExtract(t, e))
       /\ ~ (e.kind = "whiteout" /\ Target(t, e) \in handled)

-----------------------------------------------------------------------------
(* The image specification.  Whiteouts delete what is below their layer,   *)
(* wherever they are in the tarball; entries replace what they find, save  *)
(* directories, which merge; a hard link is the file it is a name of.      *)

WhitedOut(lower, e) ==
    IF e.kind = "whiteout" THEN {Target(lower, e)}
                           ELSE {r \in Paths : Above(Target(lower, e), r)}

\* What the whiteouts among the first n entries delete.
Gone(lower, tarball, n) ==
    UNION {WhitedOut(lower, tarball[k]) : k \in {k \in 1 .. n : IsWhiteout(tarball[k])}}

\* The path of an entry, whose own name is not followed.
PutAt(t, e) == Append(Join(t, Parent(e.path)), Last(e.path))

Put(t, e, l) ==
    LET p == PutAt(t, e)
        s == MakeParents(t, p)
        At(v) == [RemoveAll(s, {p}) EXCEPT ![p] = v]
    IN  CASE e.kind = "file"     -> At(File(l, e.mode))
          [] e.kind = "symlink"  -> At(Link(e.to, e.beside))
          [] e.kind = "hardlink" -> At(s[<<e.to>>])
          [] e.kind = "fifo"     -> At(Fifo)
          [] OTHER               -> [s EXCEPT ![p] = Dir]

\* Puts(t, tarball, l)[n] has the first n entries.
Puts(t, tarball, l) ==
    LET at[n \in 0 .. Len(tarball)] ==
            IF n = 0 THEN t
            ELSE IF IsWhiteout(tarball[n]) THEN at[n - 1]
            ELSE Put(at[n - 1], tarball[n], l)
    IN  at

\* Where the first n entries were put, and that the k-th was put through
\* directories, and through no links but its own layer's and those given, and
\* was no hard link.
Own(puts, tarball, n) ==
    {PutAt(puts[k - 1], tarball[k]) : k \in {k \in 1 .. n : ~ IsWhiteout(tarball[k])}}
Clean(puts, tarball, k, links) ==
    LET t == puts[k - 1]
        e == tarball[k]
    IN  /\ IsTree(t)
        /\ ~ IsWhiteout(e) =>
              /\ e.kind # "hardlink"
              /\ ~ Blocked(t, PutAt(t, e))
              /\ Followed(t, Parent(e.path)) \subseteq
                    links \cup Own(puts, tarball, k - 1)

ApplyLayer(lower, tarball, l) ==
    LET n == Len(tarball)
    IN  Puts(RemoveAll(lower, Gone(lower, tarball, n)), tarball, l)[n]

\* Stacked(image)[n] has the first n layers; with all it is the image's
\* `flattened' filesystem.
Stacked(image) ==
    LET at[n \in 0 .. Len(image)] ==
            IF n = 0 THEN Empty ELSE ApplyLayer(at[n - 1], image[n], n)
    IN  at
Flattened(image) == Stacked(image)[Len(image)]
=============================================================================
