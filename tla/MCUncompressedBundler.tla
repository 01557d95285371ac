------------------------ MODULE MCUncompressedBundler ------------------------
(***************************************************************************)
(* Instances of UncompressedBundler for TLC.                               *)
(***************************************************************************)
EXTENDS UncompressedBundler

CONSTANT TopEntries \* in a tarball on top

On(kind, path)     == [kind |-> kind, path |-> path]
FileAt(path, mode) == [kind |-> "file", path |-> path, mode |-> mode]
LinkAt(path, to)   == [kind |-> "symlink", path |-> path, to |-> to, beside |-> FALSE]
Beside(path, to)   == [kind |-> "symlink", path |-> path, to |-> to, beside |-> TRUE]
HardAt(path, to)   == [kind |-> "hardlink", path |-> path, to |-> to]

a == <<"a">>   ab == <<"a", "b">>   aba == <<"a", "b", "a">>
b == <<"b">>   ba == <<"b", "a">>   abb == <<"a", "b", "b">>
aa == <<"a", "a">>   bb == <<"b", "b">>   aab == <<"a", "a", "b">>

\* Files in nested directories, one of which is no entry; a link to b; two links
\* on one way; a link to a link.
Nested == <<On("dir", a), FileAt(aba, "rw"), FileAt(abb, "rw"), FileAt(ba, "rw")>>
Linked == <<On("dir", b), LinkAt(ab, "b"), FileAt(ba, "rw")>>
Twice  == <<On("dir", b), LinkAt(a, "b"), LinkAt(ba, "b")>>
Chained == <<On("dir", b), Beside(a, "b"), LinkAt(bb, "a")>>
Mixed  == <<FileAt(ab, "rw"), On("fifo", b)>>

\* All kinds of entries, on and below what is there, and whiteouts of that.
Entries == {On("dir", a), On("dir", ab), FileAt(aba, "rw"), FileAt(ab, "rwx"),
            FileAt(b, "rw"), FileAt(aab, "rw"), LinkAt(ba, "a"),
            HardAt(aa, "b"), On("fifo", ba), On("device", b),
            On("whiteout", a), On("whiteout", ab), On("whiteout", aba),
            On("whiteout", ba), On("opaque", a), On("opaque", b)}

Tops      == UNION {[1 .. n -> Entries] : n \in 0 .. TopEntries}
TwoLayers == {<<base, top>> : base \in {Nested, Chained, Mixed}, top \in Tops}

\* A third layer deletes what the second has put there, or puts it anew.
ThreeLayers ==
    {<<Nested, top, <<e>> >> : top \in {<<e>> : e \in Entries}, e \in Entries}

\* Two links to each other.
Loop     == <<Beside(a, "b"), LinkAt(b, "a")>>
OneEntry == {<<base, <<e>> >> : base \in {Linked, Twice, Loop}, e \in Entries}

TooMany == {<<Nested, Mixed, Mixed, Mixed>>}

Small == TwoLayers \cup ThreeLayers \cup OneEntry \cup TooMany \cup {<<>>}

\* A file, and its whiteout.
Deleted == {<< <<FileAt(a, "rw"), FileAt(b, "rw")>>, <<On("whiteout", a)>> >>}
=============================================================================
