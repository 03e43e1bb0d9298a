--------------------------- MODULE GptSpansProofs ---------------------------
(***************************************************************************)
(* Proofs about GptSpans, for every pair of layouts, flash size and sector *)
(* size, wherever a re-partition was cut off and whatever was damaged.     *)
(*                                                                         *)
(* One inductive invariant serves all the theorems: the lengths and starts *)
(* of the two files follow from the header until a file is truncated, and  *)
(* the verdict on them is the one PairIsGood gives of the files there are. *)
(***************************************************************************)
EXTENDS GptSpans, TLAPS

\* The files exist.
Read == phase \in {"captured", "parsed", "rejected"}

\* What the files are after they were read, whole or with an end missing.
FilesFollowHeader ==
    Read =>
        /\ SafeGeometry
        /\ primary.start = 0
        /\ backup.start = BackupStart * sectorSize
        /\ \/ /\ ~truncated
              /\ primary.bytes = PrimarySectors * sectorSize
              /\ backup.bytes = BackupSectors * sectorSize
           \/ /\ truncated
              /\ primary.bytes = (PrimarySectors - 1) * sectorSize
              /\ backup.bytes = BackupSectors * sectorSize
           \/ /\ truncated
              /\ primary.bytes = PrimarySectors * sectorSize
              /\ backup.bytes = (BackupSectors - 1) * sectorSize

VerdictIsTheirs ==
    /\ phase = "parsed" => PairIsGood
    /\ phase = "rejected" => ~PairIsGood

GptInv ==
    /\ GptTypeOK
    /\ phase = "header" => ~truncated
    /\ sectorSize = 512 => leftover = {}
    /\ FilesFollowHeader
    /\ VerdictIsTheirs

\* The fields of a layout are numbers.
LEMMA LayoutFields ==
    ASSUME NEW h \in HeaderType
    PROVE  /\ h.firstUsable \in Nat
           /\ h.lastUsable \in Nat
           /\ h.backupLba \in Nat
           /\ h.entryLba \in Nat
           /\ h.backupEntryLba \in Nat
           /\ EntryBytes(h) \in Nat
  <1>1. h.count \in Nat /\ h.size \in Nat
    BY DEF HeaderType
  <1>2. EntryBytes(h) \in Nat
    BY <1>1 DEF EntryBytes
  <1>3. QED
    BY <1>2 DEF HeaderType

LEMMA HeaderIsALayout ==
    ASSUME GptTypeOK
    PROVE  header \in HeaderType /\ header \in {old, new}
  BY DEF GptTypeOK, header

\* What a safe geometry gives: two spans of at least three and two sectors,
\* the second of which starts behind the usable area.
LEMMA SafeGeometryNumbers ==
    ASSUME GptTypeOK, SafeGeometry
    PROVE  /\ sectorSize = 512 \/ sectorSize = 4096
           /\ flash \in Nat
           /\ PrimarySectors \in Nat /\ PrimarySectors >= 3
           /\ BackupSectors \in Nat /\ BackupSectors = PrimarySectors - 1
           /\ BackupStart \in Nat /\ BackupStart > header.lastUsable
           /\ BackupStart + BackupSectors = header.backupLba + 1
           /\ (header.backupLba + 1) * sectorSize <= flash
  <1>1. /\ header.firstUsable \in Nat
        /\ header.lastUsable \in Nat
        /\ header.backupLba \in Nat
    BY HeaderIsALayout, LayoutFields
  <1>2. sectorSize \in SectorSizes /\ flash \in Nat
    BY GptAssumption DEF GptTypeOK
  <1>3. QED
    BY <1>1, <1>2 DEF SafeGeometry, PrimarySectors, BackupSectors, BackupStart, SectorSizes

\* The verdict and the geometry depend on nothing but the tablet, the files and
\* the damage.
LEMMA VerdictDependsOn ==
    ASSUME UNCHANGED <<tabletVars, primary, backup, truncated, damaged>>
    PROVE  PairIsGood' <=> PairIsGood
  BY DEF tabletVars, PairIsGood, PrimaryHeaders, HeadersAt, ReadAt, Written, Extent, Overlap, EndOf,
         EntryBytes, Within, LengthsMatch, HeadersMirror, ArrayIsGood, EntryGeometryIsGood,
         EntriesAreGood, EntriesOffset, BackupHeaderOffset, ParsedBackupStart, SeenSize

LEMMA GeometryDependsOn ==
    ASSUME UNCHANGED tabletVars
    PROVE  /\ SafeGeometry' <=> SafeGeometry
           /\ BackupStart' = BackupStart
           /\ PrimarySectors' = PrimarySectors
           /\ BackupSectors' = BackupSectors
  BY DEF tabletVars, SafeGeometry, BackupStart, PrimarySectors, BackupSectors, header

LEMMA GptInvInit == GptInit => GptInv
  <1> SUFFICES ASSUME GptInit PROVE GptInv
    OBVIOUS
  <1>1. NoSpan \in Spans
    BY DEF NoSpan, Spans
  <1>2. {old, new} \subseteq HeaderType
    BY GptAssumption DEF GptInit
  <1>3. leftover \subseteq Leftovers /\ (sectorSize = 512 => leftover = {})
    BY DEF GptInit
  <1>4. fresh \subseteq Parts
    BY DEF GptInit
  <1>5. GptTypeOK
    BY <1>1, <1>2, <1>3, <1>4 DEF GptInit, GptTypeOK
  <1>6. phase = "header" /\ ~truncated /\ ~Read
    BY DEF GptInit, Read
  <1>7. QED
    BY <1>3, <1>5, <1>6 DEF GptInv, FilesFollowHeader, VerdictIsTheirs

LEMMA GptInvStep == GptInv /\ [GptNext]_gptVars => GptInv'
  <1> SUFFICES ASSUME GptInv, [GptNext]_gptVars
               PROVE  GptInv'
    OBVIOUS
  <1>1. CASE CaptureGpt
    <2>1. /\ SafeGeometry /\ GptTypeOK
          /\ phase = "header" /\ ~truncated /\ phase' = "captured"
          /\ UNCHANGED <<tabletVars, truncated, damaged>>
          /\ primary' = [start |-> 0, bytes |-> PrimarySectors * sectorSize]
          /\ backup' = [start |-> BackupStart * sectorSize, bytes |-> BackupSectors * sectorSize]
      BY <1>1 DEF CaptureGpt, GptInv
    <2>2. /\ PrimarySectors * sectorSize \in Nat
          /\ BackupSectors * sectorSize \in Nat
          /\ BackupStart * sectorSize \in Nat
      BY <2>1, SafeGeometryNumbers
    <2>3. {primary', backup'} \subseteq Spans
      BY <2>1, <2>2 DEF Spans
    <2>4. GptTypeOK'
      BY <2>1, <2>3 DEF GptTypeOK, tabletVars
    <2>5. FilesFollowHeader'
      <3>1. sectorSize' = sectorSize
        BY <2>1 DEF tabletVars
      <3>2. QED
        BY <2>1, <3>1, GeometryDependsOn DEF FilesFollowHeader
    <2>6. QED
      BY <2>1, <2>4, <2>5 DEF GptInv, VerdictIsTheirs, tabletVars
  <1>2. CASE CaptureFails
    BY <1>2 DEF CaptureFails, tabletVars, GptInv, GptTypeOK, FilesFollowHeader, VerdictIsTheirs, Read
  <1>3. CASE Truncate
    <2>1. /\ phase = "captured" /\ ~truncated
          /\ phase' = phase /\ truncated' = TRUE
          /\ UNCHANGED <<tabletVars, damaged>>
      BY <1>3 DEF Truncate
    <2>2. /\ GptTypeOK
          /\ SafeGeometry
          /\ primary.start = 0
          /\ backup.start = BackupStart * sectorSize
          /\ primary.bytes = PrimarySectors * sectorSize
          /\ backup.bytes = BackupSectors * sectorSize
      BY <2>1 DEF GptInv, FilesFollowHeader, Read
    <2>3. /\ sectorSize = 512 \/ sectorSize = 4096
          /\ PrimarySectors \in Nat /\ PrimarySectors >= 3
          /\ BackupSectors \in Nat /\ BackupSectors >= 2
      BY <2>2, SafeGeometryNumbers
    <2>4. primary \in Spans /\ backup \in Spans
      BY <2>2 DEF GptTypeOK
    <2>5. /\ PrimarySectors * sectorSize - sectorSize = (PrimarySectors - 1) * sectorSize
          /\ (PrimarySectors - 1) * sectorSize \in Nat
          /\ BackupSectors * sectorSize - sectorSize = (BackupSectors - 1) * sectorSize
          /\ (BackupSectors - 1) * sectorSize \in Nat
      BY <2>3
    <2>6. \/ /\ primary' = [primary EXCEPT !.bytes = @ - sectorSize]
             /\ backup' = backup
          \/ /\ backup' = [backup EXCEPT !.bytes = @ - sectorSize]
             /\ primary' = primary
      BY <1>3 DEF Truncate
    <2>7. \/ /\ primary' \in Spans /\ backup' = backup
             /\ primary'.start = primary.start
             /\ primary'.bytes = (PrimarySectors - 1) * sectorSize
          \/ /\ backup' \in Spans /\ primary' = primary
             /\ backup'.start = backup.start
             /\ backup'.bytes = (BackupSectors - 1) * sectorSize
      BY <2>2, <2>4, <2>5, <2>6 DEF Spans
    <2>8. GptTypeOK'
      BY <2>1, <2>2, <2>4, <2>7 DEF GptTypeOK, tabletVars
    <2>9. FilesFollowHeader'
      <3>1. sectorSize' = sectorSize
        BY <2>1 DEF tabletVars
      <3>2. QED
        BY <2>1, <2>2, <2>7, <3>1, GeometryDependsOn DEF FilesFollowHeader
    <2>10. QED
      BY <2>1, <2>8, <2>9 DEF GptInv, VerdictIsTheirs, tabletVars
  <1>4. CASE Damage
    <2>1. /\ phase = "captured" /\ phase' = phase
          /\ UNCHANGED <<tabletVars, primary, backup, truncated>>
          /\ damaged' \subseteq Parts
      BY <1>4 DEF Damage
    <2>2. GptTypeOK'
      BY <2>1 DEF GptInv, GptTypeOK, tabletVars
    <2>3. FilesFollowHeader'
      <3>1. sectorSize' = sectorSize
        BY <2>1 DEF tabletVars
      <3>2. QED
        BY <2>1, <3>1, GeometryDependsOn DEF GptInv, FilesFollowHeader, Read
    <2>4. QED
      BY <2>1, <2>2, <2>3 DEF GptInv, VerdictIsTheirs, tabletVars
  <1>5. CASE ParsePair
    <2>1. /\ phase = "captured"
          /\ phase' = IF PairIsGood THEN "parsed" ELSE "rejected"
          /\ UNCHANGED <<tabletVars, primary, backup, truncated, damaged>>
      BY <1>5 DEF ParsePair
    <2>2. PairIsGood' <=> PairIsGood
      BY <2>1, VerdictDependsOn
    <2>3. FilesFollowHeader'
      <3>1. sectorSize' = sectorSize
        BY <2>1 DEF tabletVars
      <3>2. QED
        BY <2>1, <3>1, GeometryDependsOn DEF GptInv, FilesFollowHeader, Read
    <2>4. GptTypeOK'
      BY <2>1 DEF GptInv, GptTypeOK, tabletVars
    <2>5. QED
      BY <2>1, <2>2, <2>3, <2>4 DEF GptInv, VerdictIsTheirs, tabletVars
  <1>6. CASE UNCHANGED gptVars
    <2>1. UNCHANGED <<phase, tabletVars, primary, backup, truncated, damaged>>
      BY <1>6 DEF gptVars
    <2>2. PairIsGood' <=> PairIsGood
      BY <2>1, VerdictDependsOn
    <2>3. FilesFollowHeader'
      <3>1. sectorSize' = sectorSize
        BY <2>1 DEF tabletVars
      <3>2. QED
        BY <2>1, <3>1, GeometryDependsOn DEF GptInv, FilesFollowHeader, Read
    <2>4. GptTypeOK'
      BY <2>1 DEF GptInv, GptTypeOK, tabletVars
    <2>5. QED
      BY <2>1, <2>2, <2>3, <2>4 DEF GptInv, VerdictIsTheirs, tabletVars
  <1>7. QED
    BY <1>1, <1>2, <1>3, <1>4, <1>5, <1>6 DEF GptNext

\* The invariant holds in every reachable state.
THEOREM GptInvHolds == GptSpec => []GptInv
  BY GptInvInit, GptInvStep, PTL DEF GptSpec
-----------------------------------------------------------------------------
\* The files never get a negative length or start, whatever the header claims:
\* da_gpt refuses what would make them so.
THEOREM GptTyping == GptSpec => []GptTypeOK
  <1>1. GptInv => GptTypeOK
    BY DEF GptInv
  <1>2. QED
    BY <1>1, GptInvHolds, PTL

\* What da_gpt reads (mtkclient-gpt-capture.patch:39-46) stays inside the flash
\* and clear of the partitions, for every header.
THEOREM SpansAreSafeAlways == GptSpec => []SpansAreSafe
  <1>1. GptInv => SpansAreSafe
    <2> SUFFICES ASSUME GptInv, phase # "header", phase # "failed"
                 PROVE  /\ EndOf(primary) <= header.firstUsable * sectorSize
                        /\ backup.start >= (header.lastUsable + 1) * sectorSize
                        /\ EndOf(backup) <= flash
                        /\ header.firstUsable <= header.lastUsable + 1
                             => EndOf(primary) <= backup.start
      BY DEF SpansAreSafe
    <2>1. Read
      BY DEF GptInv, GptTypeOK, Read
    <2>2. SafeGeometry /\ GptTypeOK /\ FilesFollowHeader
      BY <2>1 DEF GptInv, FilesFollowHeader
    <2>3. /\ header.firstUsable \in Nat
          /\ header.lastUsable \in Nat
          /\ header.backupLba \in Nat
      BY <2>2, HeaderIsALayout, LayoutFields
    <2>4. PrimarySectors = header.firstUsable
      BY DEF PrimarySectors
    <2>5. CASE sectorSize = 512
      BY <2>1, <2>2, <2>3, <2>4, <2>5, SafeGeometryNumbers DEF FilesFollowHeader, EndOf
    <2>6. CASE sectorSize = 4096
      BY <2>1, <2>2, <2>3, <2>4, <2>6, SafeGeometryNumbers DEF FilesFollowHeader, EndOf
    <2>7. QED
      BY <2>2, <2>5, <2>6, SafeGeometryNumbers
  <1>2. QED
    BY <1>1, GptInvHolds, PTL
-----------------------------------------------------------------------------
\* Lengths that match rule out a wrong guess of the sector size, and a file cut
\* short: both lengths are a number of sectors that differ by one.
LEMMA LengthsTell ==
    ASSUME GptInv, Read, NEW h \in HeaderType, LengthsMatch(h)
    PROVE  ~truncated /\ leftover = {} /\ SeenSize = sectorSize
  <1>1. GptTypeOK /\ SafeGeometry /\ FilesFollowHeader /\ (sectorSize = 512 => leftover = {})
    BY DEF GptInv, FilesFollowHeader
  <1>2. h.firstUsable \in Nat
    BY LayoutFields
  <1>3. /\ PrimarySectors \in Nat /\ PrimarySectors >= 3
        /\ BackupSectors = PrimarySectors - 1
        /\ sectorSize = 512 \/ sectorSize = 4096
    BY <1>1, SafeGeometryNumbers
  <1>4. /\ primary.bytes = h.firstUsable * SeenSize
        /\ backup.bytes = (h.firstUsable - 1) * SeenSize
    BY DEF LengthsMatch
  <1>5. CASE sectorSize = 512
    <2>1. leftover = {} /\ SeenSize = 512
      BY <1>1, <1>5 DEF SeenSize
    <2>2. QED
      BY <1>1, <1>2, <1>3, <1>4, <1>5, <2>1 DEF FilesFollowHeader
  <1>6. CASE sectorSize = 4096 /\ leftover = {}
    <2>1. SeenSize = 4096
      BY <1>6 DEF SeenSize
    <2>2. QED
      BY <1>1, <1>2, <1>3, <1>4, <1>6, <2>1 DEF FilesFollowHeader
  <1>7. CASE sectorSize = 4096 /\ leftover # {}
    <2>1. SeenSize = 512
      BY <1>7 DEF SeenSize
    <2>2. FALSE
      BY <1>1, <1>2, <1>3, <1>4, <1>7, <2>1 DEF FilesFollowHeader
    <2>3. QED
      BY <2>2
  <1>8. QED
    BY <1>3, <1>5, <1>6, <1>7

\* The only primary header there is on the flash is the one da_gpt went by: a
\* fresh one was written over the old one.
LEMMA OnePrimaryHeader ==
    ASSUME GptTypeOK, NEW h, <<"header", h>> \in Written
    PROVE  h = header
  <1>1. CASE "header" \in fresh
    <2>1. Extent("header", old) = [start |-> sectorSize, bytes |-> HeaderSize]
          /\ Extent("header", new) = [start |-> sectorSize, bytes |-> HeaderSize]
      BY DEF Extent
    <2>2. Overlap(Extent("header", old), Extent("header", new))
      BY <2>1 DEF Overlap, EndOf, HeaderSize, GptTypeOK, SectorSizes
    <2>3. <<"header", h>> \in {<<part, new>> : part \in fresh}
      BY <1>1, <2>2 DEF Written
    <2>4. QED
      BY <1>1, <2>3 DEF header
  <1>2. CASE "header" \notin fresh
    <2>1. <<"header", h>> \notin {<<part, new>> : part \in fresh}
      BY <1>2
    <2>2. QED
      BY <1>2, <2>1 DEF Written, header
  <1>3. QED
    BY <1>1, <1>2

\* What a good pair is, in terms of the flash: nothing was guessed wrong, and
\* the header da_gpt went by is the header the parser went by.
LEMMA GoodPair ==
    ASSUME GptInv, Read, PairIsGood
    PROVE  /\ ~truncated /\ SeenSize = sectorSize
           /\ {"mbr", "header"} \cap damaged = {}
           /\ LengthsMatch(header)
           /\ \E b \in HeadersAt("backup header", backup, BackupHeaderOffset(header)) :
                 /\ HeadersMirror(header, b)
                 /\ ArrayIsGood(header, primary, EntriesOffset(header.entryLba, 0))
                 /\ ArrayIsGood(b, backup, EntriesOffset(b.backupEntryLba, ParsedBackupStart(header)))
  <1>1. PICK h \in PrimaryHeaders :
          /\ LengthsMatch(h)
          /\ \E b \in HeadersAt("backup header", backup, BackupHeaderOffset(h)) :
                /\ HeadersMirror(h, b)
                /\ ArrayIsGood(h, primary, EntriesOffset(h.entryLba, 0))
                /\ ArrayIsGood(b, backup, EntriesOffset(b.backupEntryLba, ParsedBackupStart(h)))
    BY DEF PairIsGood
  <1>2. GptTypeOK
    BY DEF GptInv
  <1>3. h \in HeaderType
    BY <1>1, <1>2, GptAssumption DEF PrimaryHeaders, HeadersAt, GptTypeOK
  <1>4. ~truncated /\ leftover = {} /\ SeenSize = sectorSize
    BY <1>1, <1>3, LengthsTell
  <1>5. <<"header", h>> \in ReadAt(primary, SeenSize, HeaderSize)
    BY <1>1, <1>4 DEF PrimaryHeaders, HeadersAt
  <1>6. <<"header", h>> \in Written /\ "header" \notin damaged
    BY <1>5 DEF ReadAt
  <1>7. h = header
    BY <1>2, <1>6, OnePrimaryHeader
  <1>8. QED
    BY <1>1, <1>4, <1>6, <1>7 DEF PairIsGood

\* The addresses of the parser are those of the flash: an offset in the backup
\* file, counted from the LBA the parser takes it to start at, is where the
\* flash has that LBA.
LEMMA AddressesAgree ==
    ASSUME GptInv, Read, SeenSize = sectorSize, NEW lba \in Nat
    PROVE  /\ primary.start + EntriesOffset(lba, 0) = lba * sectorSize
           /\ backup.start + EntriesOffset(lba, ParsedBackupStart(header)) = lba * sectorSize
           /\ backup.start + BackupHeaderOffset(header) = header.backupLba * sectorSize
  <1>1. GptTypeOK /\ SafeGeometry /\ FilesFollowHeader
    BY DEF GptInv, FilesFollowHeader
  <1>2. /\ header.firstUsable \in Nat
        /\ header.backupLba \in Nat
        /\ sectorSize = 512 \/ sectorSize = 4096
    BY <1>1, HeaderIsALayout, LayoutFields, SafeGeometryNumbers
  <1>3. /\ primary.start = 0
        /\ backup.start = BackupStart * sectorSize
        /\ BackupStart = header.backupLba - (header.firstUsable - 1) + 1
        /\ ParsedBackupStart(header) = header.backupLba - (header.firstUsable - 1) + 1
    BY <1>1 DEF FilesFollowHeader, BackupStart, BackupSectors, PrimarySectors, ParsedBackupStart
  <1>4. CASE sectorSize = 512
    BY <1>2, <1>3, <1>4 DEF EntriesOffset, BackupHeaderOffset
  <1>5. CASE sectorSize = 4096
    BY <1>2, <1>3, <1>5 DEF EntriesOffset, BackupHeaderOffset
  <1>6. QED
    BY <1>2, <1>4, <1>5

\* An array that is good in a file is on the flash, undamaged, at that LBA.
LEMMA GoodArrayIsOnFlash ==
    ASSUME NEW h, NEW file, NEW offset, NEW lba, ArrayIsGood(h, file, offset),
           file.start + offset = lba * sectorSize
    PROVE  ArrayOnFlash(h, lba)
  <1>1. PICK w \in ReadAt(file, offset, EntryBytes(h)) : w[1] \in Arrays /\ w[2].table = h.table
    BY DEF ArrayIsGood
  <1>2. /\ w \in Written
        /\ w[1] \in Arrays \ damaged
        /\ Extent(w[1], w[2]) = [start |-> lba * sectorSize, bytes |-> EntryBytes(h)]
    BY <1>1 DEF ReadAt
  <1>3. QED
    BY <1>1, <1>2 DEF ArrayOnFlash

\* A pair that parses comes from two copies that are both whole and mean the
\* same, wherever a re-partition was cut off and whatever was damaged or lost.
THEOREM ParsedMeansOneTableAlways == GptSpec => []ParsedMeansOneTable
  <1>1. GptInv => ParsedMeansOneTable
    <2> SUFFICES ASSUME GptInv, phase = "parsed"
                 PROVE  /\ ~truncated /\ SeenSize = sectorSize
                        /\ damaged \cap {"mbr", "header", "backup header"} = {}
                        /\ ArrayOnFlash(header, header.entryLba)
                        /\ \E b \in {old, new} :
                              /\ <<"backup header", b>> \in Written
                              /\ b.backupLba = header.backupLba
                              /\ Meaning(b) = Meaning(header)
                              /\ ArrayOnFlash(b, b.backupEntryLba)
      BY DEF ParsedMeansOneTable
    <2>1. PairIsGood /\ Read /\ GptTypeOK
      BY DEF GptInv, VerdictIsTheirs, Read
    <2>2. ~truncated /\ SeenSize = sectorSize /\ {"mbr", "header"} \cap damaged = {}
      BY <2>1, GoodPair
    <2>3. PICK b \in HeadersAt("backup header", backup, BackupHeaderOffset(header)) :
            /\ HeadersMirror(header, b)
            /\ ArrayIsGood(header, primary, EntriesOffset(header.entryLba, 0))
            /\ ArrayIsGood(b, backup, EntriesOffset(b.backupEntryLba, ParsedBackupStart(header)))
      BY <2>1, GoodPair
    <2>4. /\ b \in {old, new}
          /\ <<"backup header", b>> \in ReadAt(backup, BackupHeaderOffset(header), HeaderSize)
      BY <2>3 DEF HeadersAt
    <2>5. <<"backup header", b>> \in Written /\ "backup header" \notin damaged
      BY <2>4 DEF ReadAt
    <2>6. b.backupLba = header.backupLba /\ Meaning(b) = Meaning(header)
      BY <2>3 DEF HeadersMirror, Meaning
    <2>7. header.entryLba \in Nat /\ b.backupEntryLba \in Nat
      BY <2>1, <2>4, HeaderIsALayout, LayoutFields DEF GptTypeOK
    <2>8. /\ primary.start + EntriesOffset(header.entryLba, 0) = header.entryLba * sectorSize
          /\ backup.start + EntriesOffset(b.backupEntryLba, ParsedBackupStart(header))
               = b.backupEntryLba * sectorSize
      BY <2>1, <2>2, <2>7, AddressesAgree
    <2>9. ArrayOnFlash(header, header.entryLba) /\ ArrayOnFlash(b, b.backupEntryLba)
      BY <2>3, <2>8, GoodArrayIsOnFlash
    <2>10. QED
      BY <2>2, <2>4, <2>5, <2>6, <2>9
  <1>2. QED
    BY <1>1, GptInvHolds, PTL

\* The partitions of a pair that parses lie between the spans da_gpt read, and
\* their names tell them apart.
THEOREM PartitionsLieBetweenAlways == GptSpec => []PartitionsLieBetween
  <1>1. GptInv => PartitionsLieBetween
    <2> SUFFICES ASSUME GptInv, phase = "parsed"
                 PROVE  /\ \A i \in DOMAIN header.table :
                              /\ EndOf(primary) <= header.table[i].first * sectorSize
                              /\ (header.table[i].last + 1) * sectorSize <= backup.start
                        /\ \A i, j \in DOMAIN header.table :
                              header.table[i].name = header.table[j].name => i = j
      BY DEF PartitionsLieBetween
    <2>1. PairIsGood /\ Read /\ GptTypeOK /\ SafeGeometry /\ FilesFollowHeader
      BY DEF GptInv, VerdictIsTheirs, Read, FilesFollowHeader
    <2>2. EntriesAreGood(header) /\ ~truncated
      BY <2>1, GoodPair DEF ArrayIsGood
    <2>3. /\ \A i \in DOMAIN header.table : /\ header.firstUsable <= header.table[i].first
                                            /\ header.table[i].last <= header.lastUsable
          /\ \A i, j \in DOMAIN header.table :
                i # j => header.table[i].name # header.table[j].name
      BY <2>2 DEF EntriesAreGood
    <2>4. /\ header.firstUsable \in Nat
          /\ header.lastUsable \in Nat
          /\ header.backupLba \in Nat
          /\ header.table \in Seq(EntryType)
      BY <2>1, HeaderIsALayout DEF HeaderType
    <2>5. /\ EndOf(primary) = header.firstUsable * sectorSize
          /\ backup.start = BackupStart * sectorSize
          /\ BackupStart \in Nat /\ BackupStart > header.lastUsable
          /\ sectorSize = 512 \/ sectorSize = 4096
      <3>1. primary.start = 0 /\ primary.bytes = PrimarySectors * sectorSize
        BY <2>1, <2>2 DEF FilesFollowHeader
      <3>2. PrimarySectors = header.firstUsable
        BY DEF PrimarySectors
      <3>3. sectorSize = 512 \/ sectorSize = 4096
        BY <2>1, SafeGeometryNumbers
      <3>4. EndOf(primary) = header.firstUsable * sectorSize
        BY <3>1, <3>2, <3>3, <2>4 DEF EndOf
      <3>5. QED
        BY <2>1, <3>4, SafeGeometryNumbers DEF FilesFollowHeader
    <2>6. ASSUME NEW i \in DOMAIN header.table
          PROVE  /\ EndOf(primary) <= header.table[i].first * sectorSize
                 /\ (header.table[i].last + 1) * sectorSize <= backup.start
      <3>1. header.table[i] \in EntryType
        BY <2>4
      <3>2. header.table[i].first \in Nat /\ header.table[i].last \in Nat
        BY <3>1 DEF EntryType
      <3>3. header.firstUsable <= header.table[i].first /\ header.table[i].last <= header.lastUsable
        BY <2>3
      <3>4. CASE sectorSize = 512
        BY <2>4, <2>5, <3>2, <3>3, <3>4
      <3>5. CASE sectorSize = 4096
        BY <2>4, <2>5, <3>2, <3>3, <3>5
      <3>6. QED
        BY <2>5, <3>4, <3>5
    <2>7. QED
      BY <2>3, <2>6
  <1>2. QED
    BY <1>1, GptInvHolds, PTL

\* Every part of a layout that was written as a whole can be read where it lies.
LEMMA FreshPartsAreRead ==
    ASSUME fresh = Parts, damaged = {}, NEW part \in Parts, NEW file, NEW offset, NEW length,
           Extent(part, header) = [start |-> file.start + offset, bytes |-> length]
    PROVE  <<part, header>> \in ReadAt(file, offset, length)
  <1>1. header = new
    BY DEF header, Parts
  <1>2. <<part, new>> \in Written
    BY DEF Written
  <1>3. QED
    BY <1>1, <1>2 DEF ReadAt

\* Whole spans captured from a standard layout always parse: what the flash
\* side reads is what the file side asks for, at every geometry.
THEOREM StandardLayoutParsesAlways == GptSpec => []StandardLayoutParses
  <1>1. GptInv => StandardLayoutParses
    <2> SUFFICES ASSUME GptInv, phase = "rejected", StandardLayout, fresh = Parts,
                        ~truncated, damaged = {}, leftover = {}
                 PROVE  PairIsGood
      BY DEF StandardLayoutParses, GptInv, VerdictIsTheirs
    <2>1. GptTypeOK /\ SafeGeometry /\ FilesFollowHeader /\ Read
      BY DEF GptInv, FilesFollowHeader, Read
    <2>2. /\ header.firstUsable \in Nat
          /\ header.lastUsable \in Nat
          /\ header.backupLba \in Nat
          /\ header.entryLba \in Nat
          /\ header.backupEntryLba \in Nat
          /\ EntryBytes(header) \in Nat
          /\ header.firstUsable >= 3
      BY <2>1, HeaderIsALayout, LayoutFields DEF SafeGeometry, PrimarySectors
    <2>3. /\ SeenSize = sectorSize
          /\ sectorSize = 512 \/ sectorSize = 4096
      BY <2>1, SafeGeometryNumbers DEF SeenSize
    <2>4. /\ primary.start = 0
          /\ primary.bytes = header.firstUsable * sectorSize
          /\ backup.bytes = (header.firstUsable - 1) * sectorSize
          /\ ParsedBackupStart(header) = header.backupLba - (header.firstUsable - 1) + 1
      BY <2>1 DEF FilesFollowHeader, PrimarySectors, BackupSectors, ParsedBackupStart
    <2>5. LengthsMatch(header)
      BY <2>3, <2>4 DEF LengthsMatch
    <2>6. /\ primary.start + EntriesOffset(header.entryLba, 0) = header.entryLba * sectorSize
          /\ backup.start + EntriesOffset(header.backupEntryLba, ParsedBackupStart(header))
               = header.backupEntryLba * sectorSize
          /\ backup.start + BackupHeaderOffset(header) = header.backupLba * sectorSize
      BY <2>1, <2>2, <2>3, AddressesAgree
    <2>7. /\ Within(sectorSize, HeaderSize, primary)
          /\ Within(BackupHeaderOffset(header), HeaderSize, backup)
          /\ Within(EntriesOffset(header.entryLba, 0), EntryBytes(header), primary)
          /\ Within(EntriesOffset(header.backupEntryLba, ParsedBackupStart(header)),
                    EntryBytes(header), backup)
      <3>1. CASE sectorSize = 512
        BY <2>2, <2>3, <2>4, <3>1
          DEF StandardLayout, Within, HeaderSize, BackupHeaderOffset, EntriesOffset
      <3>2. CASE sectorSize = 4096
        BY <2>2, <2>3, <2>4, <3>2
          DEF StandardLayout, Within, HeaderSize, BackupHeaderOffset, EntriesOffset
      <3>3. QED
        BY <2>3, <3>1, <3>2
    <2>8. header \in {old, new}
      BY <2>1, HeaderIsALayout
    <2>9. header \in HeadersAt("header", primary, sectorSize)
      <3>1. Extent("header", header) = [start |-> primary.start + sectorSize, bytes |-> HeaderSize]
        BY <2>3, <2>4 DEF Extent
      <3>2. <<"header", header>> \in ReadAt(primary, sectorSize, HeaderSize)
        BY <3>1, FreshPartsAreRead DEF Parts
      <3>3. QED
        BY <2>7, <2>8, <3>2 DEF HeadersAt
    <2>10. header \in PrimaryHeaders
      BY <2>3, <2>9 DEF PrimaryHeaders
    <2>11. header \in HeadersAt("backup header", backup, BackupHeaderOffset(header))
      <3>1. Extent("backup header", header)
              = [start |-> backup.start + BackupHeaderOffset(header), bytes |-> HeaderSize]
        BY <2>6 DEF Extent
      <3>2. <<"backup header", header>> \in ReadAt(backup, BackupHeaderOffset(header), HeaderSize)
        BY <3>1, FreshPartsAreRead DEF Parts
      <3>3. QED
        BY <2>7, <2>8, <3>2 DEF HeadersAt
    <2>12. ArrayIsGood(header, primary, EntriesOffset(header.entryLba, 0))
      <3>1. Extent("entries", header)
              = [start |-> primary.start + EntriesOffset(header.entryLba, 0), bytes |-> EntryBytes(header)]
        BY <2>6 DEF Extent
      <3>2. <<"entries", header>> \in ReadAt(primary, EntriesOffset(header.entryLba, 0), EntryBytes(header))
        BY <3>1, FreshPartsAreRead DEF Parts
      <3>3. QED
        BY <2>7, <3>2 DEF ArrayIsGood, StandardLayout, Arrays
    <2>13. ArrayIsGood(header, backup, EntriesOffset(header.backupEntryLba, ParsedBackupStart(header)))
      <3> DEFINE offset == EntriesOffset(header.backupEntryLba, ParsedBackupStart(header))
      <3>1. Extent("backup entries", header)
              = [start |-> backup.start + offset, bytes |-> EntryBytes(header)]
        BY <2>6 DEF Extent
      <3>2. <<"backup entries", header>> \in ReadAt(backup, offset, EntryBytes(header))
        BY <3>1, FreshPartsAreRead DEF Parts
      <3>3. QED
        BY <2>7, <3>2 DEF ArrayIsGood, StandardLayout, Arrays
    <2>14. HeadersMirror(header, header)
      BY DEF HeadersMirror
    <2>15. QED
      BY <2>5, <2>10, <2>11, <2>12, <2>13, <2>14 DEF PairIsGood
  <1>2. QED
    BY <1>1, GptInvHolds, PTL
=============================================================================
