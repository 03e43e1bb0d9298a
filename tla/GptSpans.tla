------------------------------ MODULE GptSpans ------------------------------
(***************************************************************************)
(* The two GPT spans of a capture.  The patched mtkclient command da_gpt   *)
(* computes them from the primary header and reads them from the flash;    *)
(* parse_gpt_pair of scripts/capture-recovery-baseline.py later recomputes *)
(* the same geometry from the bytes alone, looks for both headers and both *)
(* entry arrays in them, and insists that they describe one table.         *)
(*                                                                         *)
(* What lies on the flash was written by a tool that was cut off in the    *)
(* middle of a re-partition, or was not: each part is of the old layout or *)
(* of the new one.  What was read may be damaged or cut short afterwards.  *)
(***************************************************************************)
EXTENDS Integers, Sequences

CONSTANTS
    Repartitions,   \* pairs of layouts: the one before and the one after
    Leftovers,      \* what a header in the first sector may claim
    FlashSizes,     \* sizes of the flash, in bytes
    Names, NoName   \* partition names

SectorSizes == {512, 4096}

\* GPT_HEADER.size
HeaderSize == 92

\* A used entry of the partition array.
EntryType == [first : Nat, last : Nat, name : Names \cup {NoName}]

\* first_usable_lba, last_usable_lba, backup_lba; partition_entry_start_lba of
\* the primary and of the backup header; num_partition_entries and
\* partition_entry_size; and the array itself, which its CRC stands for.
HeaderType == [firstUsable : Nat, lastUsable : Nat, backupLba : Nat,
               entryLba : Nat, backupEntryLba : Nat,
               count : Nat, size : Nat, table : Seq(EntryType)]

ASSUME GptAssumption ==
    /\ Repartitions \subseteq HeaderType \X HeaderType
    /\ Leftovers \subseteq HeaderType
    /\ FlashSizes \subseteq Nat

\* The parts a tool writes one after the other.
Parts == {"mbr", "header", "entries", "backup entries", "backup header"}

Arrays == {"entries", "backup entries"}

VARIABLES
    phase,       \* "header", "captured", "parsed", "rejected" or "failed"
    old, new,    \* the layouts of the flash
    fresh,       \* the parts that are of the new one
    leftover,    \* a header in a first sector of 4096 bytes, at byte 512, if any
    sectorSize,
    flash,
    primary,     \* gpt.bin: where it was read from, and its length
    backup,      \* gpt_backup.bin
    truncated,   \* whether a file lost its end after it was read
    damaged      \* the parts whose bytes in the files are not those of the flash

\* What the tablet has.
tabletVars == <<old, new, fresh, leftover, sectorSize, flash>>

gptVars == <<phase, tabletVars, primary, backup, truncated, damaged>>

NoSpan == [start |-> 0, bytes |-> 0]

GptInit ==
    /\ phase = "header"
    /\ \E r \in Repartitions : old = r[1] /\ new = r[2]
    /\ fresh \in IF old = new THEN {Parts} ELSE SUBSET Parts
    /\ sectorSize \in SectorSizes
    /\ leftover \in {{}} \cup IF sectorSize = 512 THEN {} ELSE {{h} : h \in Leftovers}
    /\ flash \in FlashSizes
    /\ primary = NoSpan
    /\ backup = NoSpan
    /\ truncated = FALSE
    /\ damaged = {}
-----------------------------------------------------------------------------
\* The flash (external).

\* The primary header.
header == IF "header" \in fresh THEN new ELSE old

EntryBytes(h) == h.count * h.size

\* Where a part of layout h lies, in bytes.
Extent(part, h) ==
    CASE part = "mbr" -> [start |-> 0, bytes |-> 512]
      [] part = "header" -> [start |-> sectorSize, bytes |-> HeaderSize]
      [] part = "entries" -> [start |-> h.entryLba * sectorSize, bytes |-> EntryBytes(h)]
      [] part = "backup entries" -> [start |-> h.backupEntryLba * sectorSize, bytes |-> EntryBytes(h)]
      [] part = "backup header" -> [start |-> h.backupLba * sectorSize, bytes |-> HeaderSize]

\* The last byte of a span, plus one.
EndOf(span) == span.start + span.bytes

Overlap(s, t) == s.start < EndOf(t) /\ t.start < EndOf(s)

\* The parts that can still be read, each with its layout: the fresh ones, and
\* those of the old layout that no fresh one was written over.
Written ==
    {<<part, new>> : part \in fresh}
    \cup {<<part, old>> : part \in {p \in Parts :
              \A q \in fresh : ~Overlap(Extent(p, old), Extent(q, new))}}
-----------------------------------------------------------------------------
\* da_gpt.

PrimarySectors == header.firstUsable

BackupSectors == PrimarySectors - 1

\* Slip: the backup header's own sector is not counted.
BackupStartMutant == header.backupLba - BackupSectors

BackupStart == header.backupLba - BackupSectors + 1

\* Slip: a header with no room for entries is read all the same.
SafeGeometryNoMinimum ==
    /\ BackupStart > header.lastUsable
    /\ (header.backupLba + 1) * sectorSize <= flash

\* Slip: what is behind the usable area is not looked at.
SafeGeometryMutant ==
    /\ PrimarySectors >= 3
    /\ BackupSectors >= 2
    /\ (header.backupLba + 1) * sectorSize <= flash

\* What da_gpt insists on before it reads.
SafeGeometry ==
    /\ PrimarySectors >= 3
    /\ BackupSectors >= 2
    /\ BackupStart > header.lastUsable
    /\ (header.backupLba + 1) * sectorSize <= flash

\* Both spans are read completely, then written.
CaptureGpt ==
    /\ phase = "header"
    /\ SafeGeometry
    /\ primary' = [start |-> 0, bytes |-> PrimarySectors * sectorSize]
    /\ backup' = [start |-> BackupStart * sectorSize, bytes |-> BackupSectors * sectorSize]
    /\ phase' = "captured"
    /\ UNCHANGED <<tabletVars, truncated, damaged>>

\* Unsafe geometry, or a short read: RuntimeError, nothing is written.
CaptureFails ==
    /\ phase = "header"
    /\ phase' = "failed"
    /\ UNCHANGED <<tabletVars, primary, backup, truncated, damaged>>

\* A file loses a sector before it is parsed (external).
Truncate ==
    /\ phase = "captured"
    /\ ~truncated
    /\ truncated' = TRUE
    /\ \/ /\ primary' = [primary EXCEPT !.bytes = @ - sectorSize]
          /\ UNCHANGED backup
       \/ /\ backup' = [backup EXCEPT !.bytes = @ - sectorSize]
          /\ UNCHANGED primary
    /\ UNCHANGED <<phase, tabletVars, damaged>>

\* A part was not read as it is, or a file changed since (external).
Damage ==
    /\ phase = "captured"
    /\ damaged = {}
    /\ \E part \in Parts : damaged' = {part}
    /\ UNCHANGED <<phase, tabletVars, primary, backup, truncated>>
-----------------------------------------------------------------------------
\* parse_gpt_pair, on the bytes of the two files.

\* Bytes offset .. offset + length - 1 lie in a file.
Within(offset, length, file) == offset >= 0 /\ offset + length <= file.bytes

\* What can be read from a place of a file: <<part, layout>>, if anything.
ReadAt(file, offset, length) ==
    {w \in Written : /\ w[1] \notin damaged
                     /\ Extent(w[1], w[2]) = [start |-> file.start + offset, bytes |-> length]}

\* The sector size is that of the first place where a signature is found.
SeenSize == IF leftover # {} THEN 512 ELSE sectorSize

\* parse_gpt_header: there is a header with a right CRC at that offset, and it
\* gives this place as its own LBA.
HeadersAt(part, file, offset) ==
    IF Within(offset, HeaderSize, file)
    THEN {h \in {old, new} : <<part, h>> \in ReadAt(file, offset, HeaderSize)}
    ELSE {}

PrimaryHeaders == IF leftover # {} THEN leftover ELSE HeadersAt("header", primary, SeenSize)

\* The LBA the backup file starts at, by its own reckoning.
ParsedBackupStart(h) == h.backupLba - (h.firstUsable - 1) + 1

\* Where it looks for the backup header in that file.
BackupHeaderOffset(h) == (h.backupLba - ParsedBackupStart(h)) * SeenSize

\* Where parse_gpt_entries looks for an array, from a file's first LBA.
EntriesOffset(lba, startLba) == (lba - startLba) * SeenSize

LengthsMatch(h) ==
    /\ primary.bytes = h.firstUsable * SeenSize
    /\ backup.bytes = (h.firstUsable - 1) * SeenSize

\* Slip: headers agree when their arrays do.
HeadersMirrorMutant(h, b) ==
    /\ <<h.count, h.size, h.table>> = <<b.count, b.size, b.table>>
    /\ h.backupLba = b.backupLba

\* mirrored_fields, and the two addresses that mirror each other.
HeadersMirror(h, b) ==
    /\ <<h.firstUsable, h.lastUsable>> = <<b.firstUsable, b.lastUsable>>
    /\ <<h.count, h.size, h.table>> = <<b.count, b.size, b.table>>
    /\ h.backupLba = b.backupLba

\* Slip: a partition may end anywhere.
EntriesAreGoodMutant(h) ==
    LET used == h.table
    IN /\ \A i \in DOMAIN used : h.firstUsable <= used[i].first /\ used[i].first <= used[i].last
       /\ \A i \in DOMAIN used : used[i].name # NoName
       /\ \A i, j \in DOMAIN used : i # j => used[i].name # used[j].name

\* The loop of parse_gpt_entries.  Ranges may overlap each other.
EntriesAreGood(h) ==
    LET used == h.table
    IN /\ \A i \in DOMAIN used : /\ h.firstUsable <= used[i].first
                                 /\ used[i].first <= used[i].last
                                 /\ used[i].last <= h.lastUsable
       /\ \A i \in DOMAIN used : used[i].name # NoName
       /\ \A i, j \in DOMAIN used : i # j => used[i].name # used[j].name

EntryGeometryIsGood(h) == h.count \in 1 .. 4096 /\ h.size >= 128 /\ h.size % 8 = 0

\* parse_gpt_entries: the array lies in the file and has the header's CRC.
ArrayIsGood(h, file, offset) ==
    /\ EntryGeometryIsGood(h)
    /\ Within(offset, EntryBytes(h), file)
    /\ \E w \in ReadAt(file, offset, EntryBytes(h)) :
           w[1] \in Arrays /\ w[2].table = h.table
    /\ EntriesAreGood(h)

PairIsGood ==
    /\ "mbr" \notin damaged
    /\ \E h \in PrimaryHeaders :
          /\ LengthsMatch(h)
          /\ \E b \in HeadersAt("backup header", backup, BackupHeaderOffset(h)) :
                /\ HeadersMirror(h, b)
                /\ ArrayIsGood(h, primary, EntriesOffset(h.entryLba, 0))
                /\ ArrayIsGood(b, backup, EntriesOffset(b.backupEntryLba, ParsedBackupStart(h)))

ParsePair ==
    /\ phase = "captured"
    /\ phase' = IF PairIsGood THEN "parsed" ELSE "rejected"
    /\ UNCHANGED <<tabletVars, primary, backup, truncated, damaged>>

GptNext == CaptureGpt \/ CaptureFails \/ Truncate \/ Damage \/ ParsePair

GptSpec == GptInit /\ [][GptNext]_gptVars
-----------------------------------------------------------------------------
Spans == [start : Nat, bytes : Nat]

GptTypeOK ==
    /\ phase \in {"header", "captured", "parsed", "rejected", "failed"}
    /\ {old, new} \subseteq HeaderType
    /\ fresh \subseteq Parts
    /\ leftover \subseteq Leftovers
    /\ sectorSize \in SectorSizes
    /\ flash \in FlashSizes
    /\ {primary, backup} \subseteq Spans
    /\ truncated \in BOOLEAN
    /\ damaged \subseteq Parts

\* What is read stays inside the flash and clear of the partitions, and when
\* the header's usable area is a proper one the two spans do not overlap.
SpansAreSafe ==
    phase # "header" /\ phase # "failed" =>
        /\ EndOf(primary) <= header.firstUsable * sectorSize
        /\ backup.start >= (header.lastUsable + 1) * sectorSize
        /\ EndOf(backup) <= flash
        /\ header.firstUsable <= header.lastUsable + 1 => EndOf(primary) <= backup.start

\* What a header says of the disk, apart from where the copies are.
Meaning(h) == <<h.firstUsable, h.lastUsable, h.count, h.size, h.table>>

\* The array of h lies on the flash at that LBA, and what was read of it was not
\* damaged.
ArrayOnFlash(h, lba) ==
    \E w \in Written :
        /\ w[1] \in Arrays \ damaged
        /\ Extent(w[1], w[2]) = [start |-> lba * sectorSize, bytes |-> EntryBytes(h)]
        /\ w[2].table = h.table

\* A pair that parses was read as it is, in sectors of the right size, from a
\* flash on which both headers and both arrays are whole, lie where they say,
\* and mean the same, even if a re-partition was cut off: either copy can be
\* restored; and the files still have all that was read.
ParsedMeansOneTable ==
    phase = "parsed" =>
        /\ ~truncated /\ SeenSize = sectorSize
        /\ damaged \cap {"mbr", "header", "backup header"} = {}
        /\ ArrayOnFlash(header, header.entryLba)
        /\ \E b \in {old, new} :
              /\ <<"backup header", b>> \in Written
              /\ b.backupLba = header.backupLba
              /\ Meaning(b) = Meaning(header)
              /\ ArrayOnFlash(b, b.backupEntryLba)

\* The partitions of a pair that parses lie between the two spans, so that no
\* byte is both of a captured partition and of a captured table; and a name
\* stands for one of them.
PartitionsLieBetween ==
    phase = "parsed" =>
        /\ \A i \in DOMAIN header.table :
              /\ EndOf(primary) <= header.table[i].first * sectorSize
              /\ (header.table[i].last + 1) * sectorSize <= backup.start
        /\ \A i, j \in DOMAIN header.table :
              header.table[i].name = header.table[j].name => i = j

\* The layout of the GPT specification: entries between a header and the
\* usable area, on both ends of the flash.
StandardLayout ==
    /\ header.entryLba * sectorSize + EntryBytes(header) <= header.firstUsable * sectorSize
    /\ header.lastUsable < header.backupEntryLba
    /\ header.backupEntryLba * sectorSize + EntryBytes(header) <= header.backupLba * sectorSize
    /\ header.backupLba - header.backupEntryLba <= header.firstUsable - 2
    /\ EntryGeometryIsGood(header)
    /\ EntriesAreGood(header)

\* Two spans captured whole from a standard layout, of which every part was
\* written, are never rejected: what da_gpt reads is exactly what
\* parse_gpt_pair asks for.
StandardLayoutParses ==
    phase = "rejected" /\ StandardLayout /\ fresh = Parts =>
        truncated \/ damaged # {} \/ leftover # {}
=============================================================================
