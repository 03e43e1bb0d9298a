----------------------------- MODULE MCGptSpans -----------------------------
EXTENDS GptSpans

Entry(first, last, name) == [first |-> first, last |-> last, name |-> name]

\* One partition of one sector, next to the first usable LBA.
OneEntry(firstUsable) == <<Entry(firstUsable, firstUsable, "boot")>>

Layout(g, table) ==
    [firstUsable |-> g.firstUsable, lastUsable |-> g.lastUsable, backupLba |-> g.backupLba,
     entryLba |-> g.entryLba, backupEntryLba |-> g.backupEntryLba,
     count |-> g.array[1], size |-> g.array[2], table |-> table]

\* Small geometries on both sides of every boundary; entry arrays of less than
\* a sector, one, two, and a fraction more.
Geometries ==
    [firstUsable : 0 .. 5, lastUsable : 2 .. 6, backupLba : 4 .. 9, entryLba : 1 .. 3,
     backupEntryLba : 3 .. 8, array : {<<1, 128>>, <<4, 128>>, <<8, 128>>, <<3, 344>>}]

\* A standard geometry with room for partitions, and arrays that are no arrays.
Roomy(array) ==
    [firstUsable |-> 4, lastUsable |-> 6, backupLba |-> 9, entryLba |-> 2,
     backupEntryLba |-> 7, array |-> array]

\* The tables a tool may write: none, one, two, overlapping ones, and with
\* each of the faults parse_gpt_entries looks for.
Tables ==
    {<<>>, <<Entry(4, 4, "boot")>>,
     <<Entry(4, 5, "boot"), Entry(6, 6, "lk")>>, <<Entry(4, 5, "boot"), Entry(5, 6, "lk")>>,
     <<Entry(5, 4, "boot")>>, <<Entry(3, 4, "boot")>>, <<Entry(6, 7, "boot")>>,
     <<Entry(4, 4, "none")>>, <<Entry(4, 4, "boot"), Entry(5, 5, "boot")>>}

Plain == {Layout(g, OneEntry(g.firstUsable)) : g \in Geometries}

WithTables == {Layout(Roomy(<<4, 128>>), t) : t \in Tables}

WithOddArrays == {Layout(Roomy(a), <<>>) : a \in {<<0, 128>>, <<4, 120>>, <<3, 132>>}}

\* Re-partitions of the roomy layout: another table, a shorter usable area,
\* longer and moved arrays, a larger reserve, another end of the flash.
Moved ==
    LET g == Roomy(<<4, 128>>)
        t == <<Entry(4, 4, "boot")>>
    IN {Layout(g, t), Layout(g, <<Entry(4, 5, "boot")>>),
        Layout([g EXCEPT !.lastUsable = 5], t),
        Layout([g EXCEPT !.array = <<8, 128>>], t),
        Layout([g EXCEPT !.entryLba = 3], t),
        Layout([g EXCEPT !.backupEntryLba = 8], t),
        Layout([g EXCEPT !.firstUsable = 5, !.lastUsable = 5], <<Entry(5, 5, "boot")>>),
        Layout([g EXCEPT !.backupLba = 8, !.lastUsable = 5, !.backupEntryLba = 6], t)}

MCLayouts == Plain \cup WithTables \cup WithOddArrays \cup Moved

MCRepartitions ==
    {<<l, l>> : l \in MCLayouts} \cup (Moved \X Moved)

MCLeftovers == {Layout(Roomy(<<4, 128>>), <<>>),
                Layout([Roomy(<<4, 128>>) EXCEPT !.firstUsable = 32, !.backupLba = 79], <<>>)}

MCFlashSizes == {8 * 512, 10 * 512, 10 * 4096}
=============================================================================
