--------------------------- MODULE MCRecoveryCopy ---------------------------
EXTENDS RecoveryCopy, TLC

CONSTANTS boot, good, bad, d1, e1, e2, c1

MCLineOrder == <<<<"pass1", boot>>, <<"pass2", boot>>>>

\* d1 and e2 are on the same disk.
MCDiskOf == [x \in Dirs \cup Roots |-> IF x = e1 THEN "usb" ELSE "internal"]

Directory(first, second, listing, manifest) ==
    (<<"pass1", boot>> :> first) @@ (<<"pass2", boot>> :> second)
        @@ (SumsFile :> listing) @@ (ManifestFile :> manifest)

Line(pass, hash) == [path |-> <<pass, boot>>, hash |-> hash]

GoodListing == <<Line("pass1", good), Line("pass2", good)>>

GoodDirectory == Directory(good, good, GoodListing, boot :> good)

GoodStores == {[d \in Dirs |-> GoodDirectory]}

\* Hand-edited, truncated, duplicated and mismatched metadata over any files.
AnyListing == {Absent, Partial} \cup
    UNION {[1 .. n -> {Line(pass, hash) : pass \in Passes, hash \in Bytes}] : n \in 0 .. 3}

AnyStores ==
    {[d \in Dirs |-> Directory(first, second, listing, manifest)] :
        first \in Bytes \cup {Absent}, second \in Bytes \cup {Absent},
        listing \in AnyListing,
        manifest \in {Absent, Partial, boot :> good, <<>>}}

\* Copiers overlap only where the metadata are what a capture writes.
OverlapOnCapturedMetadata ==
    \A d \in Dirs :
        \/ store[d][SumsFile] = GoodListing /\ store[d][ManifestFile] = boot :> good
        \/ Cardinality({c \in Copiers : cpc[c] # "begin"}) <= 1

CopierSymmetry == Permutations(Copiers)
=============================================================================
