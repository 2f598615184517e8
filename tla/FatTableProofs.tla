-------------------------- MODULE FatTableProofs --------------------------
(***************************************************************************)
(* Proofs about FatTable, for tables of any size and any number of copies. *)
(*                                                                         *)
(* The inductive invariant adds to TypeOK what each statement of the       *)
(* driver relies on: what sector_buf holds while it is written out, how    *)
(* far the copies are written, and what the cache holds before it is       *)
(* tagged.  For the refinement of FatMap it also says what each call has   *)
(* found out of the first copy when it goes on.                            *)
(***************************************************************************)
EXTENDS FatTable, FiniteSetTheorems, TLAPS

(* A call that has not yet returned counts its tries below the limit.      *)
TriesInv ==
  op = "alloc" /\ pc \in {"check", "fill", "tag", "load", "got"} => tries < TotalClusters

(* sector_buf is the sector of the first copy but for the entry being set, *)
(* if it could be read.                                                    *)
BufInv ==
  pc = "write" =>
    /\ buf[OffsetOf(cl)] = val
    /\ ~ misread =>
         \A i \in Index : SectorOf(i) = SectorOf(cl) /\ i # cl => buf[OffsetOf(i)] = disk[1][i]

(* The copies written so far have the new entry; the others agree but for  *)
(* that entry.                                                             *)
CopyInv ==
  crashes = 0 =>
    /\ \A f, g \in Copies, i \in Index : ~ (pc = "write" /\ i = cl) => disk[f][i] = disk[g][i]
    /\ pc = "write" => \A f \in Copies : f < copy => disk[f][cl] = val

PrimaryInv ==
  \/ pc = "write" /\ copy > 1
  \/ pc = "patch"
  => disk[1][cl] = val

FillInv ==
  pc = "tag" => \A i \in Index : SectorOf(i) = SectorOf(cl) => cache[OffsetOf(i)] = disk[1][i]

CacheInv ==
  pc # "tag" =>
    \A i \in Index : SectorOf(i) = tag => cache[OffsetOf(i)] = disk[1][i] \/ Unpatched(i)

PatchInv == pc = "patch" => tag = SectorOf(cl)

TypeInv == TypeOK /\ TriesInv

Ind ==
  /\ TypeInv
  /\ BufInv
  /\ misread => faults # 0
  /\ disturbed = 0 => FillInv /\ PatchInv
  /\ faults = 0 => PrimaryInv /\ CopyInv
  /\ faults = 0 /\ disturbed = 0 => CacheInv

-----------------------------------------------------------------------------
(* Sectors and offsets.                                                    *)
LEMMA Division ==
  ASSUME NEW n \in Nat \ {0}, NEW i \in Nat
  PROVE  /\ i \div n \in Nat /\ i % n \in 0 .. n - 1
         /\ i = (i \div n) * n + (i % n)
  OBVIOUS

LEMMA Quotient ==
  ASSUME NEW n \in Nat \ {0}, NEW s \in Nat, NEW o \in 0 .. n - 1
  PROVE  (s * n + o) \div n = s /\ (s * n + o) % n = o
  OBVIOUS

LEMMA ProductBound ==
  ASSUME NEW n \in Nat \ {0}, NEW m \in Nat, NEW s \in Nat, NEW o \in 0 .. n - 1
  PROVE  s * n + o < m * n <=> s < m
  OBVIOUS

(* An entry of the table is found at the offset of its sector, and nowhere *)
(* else.                                                                   *)
LEMMA Geometry ==
  /\ Clusters \subseteq Index
  /\ 1 \in Copies
  /\ Index \subseteq Nat
  /\ \A i \in Index : /\ SectorOf(i) \in Sectors /\ OffsetOf(i) \in Offsets
                      /\ At(SectorOf(i), OffsetOf(i)) = i
  /\ \A s \in Sectors, o \in Offsets : /\ At(s, o) \in Index
                                       /\ SectorOf(At(s, o)) = s /\ OffsetOf(At(s, o)) = o
<1>1. Clusters \subseteq Index /\ 1 \in Copies /\ Index \subseteq Nat
  BY GeometryAssumption DEF Clusters, Index, Copies
<1>2. ASSUME NEW i \in Index
      PROVE  /\ SectorOf(i) \in Sectors /\ OffsetOf(i) \in Offsets
             /\ At(SectorOf(i), OffsetOf(i)) = i
  <2> DEFINE n == EntriesPerSector
  <2>1. n \in Nat \ {0} /\ FatSectors \in Nat /\ i \in Nat /\ i < FatSectors * n
    BY GeometryAssumption DEF Index
  <2>2. /\ i \div n \in Nat /\ i % n \in 0 .. n - 1
        /\ i = (i \div n) * n + (i % n)
    BY <2>1, Division
  <2>3. i \div n < FatSectors
    <3> DEFINE s == i \div n  o == i % n
    <3>1. s * n + o < FatSectors * n <=> s < FatSectors
      <4> HIDE DEF s, o
      <4> QED BY <2>1, <2>2, ProductBound DEF s, o
    <3> QED BY <2>1, <2>2, <3>1
  <2> QED BY <2>1, <2>2, <2>3 DEF SectorOf, OffsetOf, Sectors, Offsets, At
<1>3. ASSUME NEW s \in Sectors, NEW o \in Offsets
      PROVE  /\ At(s, o) \in Index
             /\ SectorOf(At(s, o)) = s /\ OffsetOf(At(s, o)) = o
  <2>1. EntriesPerSector \in Nat \ {0} /\ FatSectors \in Nat
    BY GeometryAssumption
  <2>2. s \in Nat /\ s < FatSectors /\ o \in 0 .. EntriesPerSector - 1
    BY <2>1 DEF Sectors, Offsets
  <2>3. s * EntriesPerSector + o < FatSectors * EntriesPerSector
    BY <2>1, <2>2, ProductBound
  <2>4. (s * EntriesPerSector + o) \div EntriesPerSector = s
        /\ (s * EntriesPerSector + o) % EntriesPerSector = o
    BY <2>1, <2>2, Quotient
  <2>5. s * EntriesPerSector + o \in Nat /\ FatSectors * EntriesPerSector \in Nat
    BY <2>1, <2>2
  <2> QED BY <2>3, <2>4, <2>5 DEF At, SectorOf, OffsetOf, Index
<1> QED BY <1>1, <1>2, <1>3

(* Two entries of a sector have different offsets.                         *)
LEMMA Distinct ==
  \A i, j \in Index : SectorOf(i) = SectorOf(j) /\ OffsetOf(i) = OffsetOf(j) => i = j
  BY Geometry
-----------------------------------------------------------------------------
(* Types.                                                                  *)
LEMMA Constants ==
  /\ TotalClusters \in Nat \ {0} /\ FatCount \in Nat \ {0}
  /\ MaxMishaps \in Nat /\ AudioClusters \subseteq Clusters
  /\ Free \in Links /\ Eoc \in Links /\ 0 \in Links
  /\ Clusters \subseteq Links /\ Clusters \subseteq Nat
  /\ \A c \in Links : InChain(c) => c \in Clusters
  /\ \A c \in Clusters : InChain(c) /\ After(c) \in Clusters
  BY GeometryAssumption, BoundAssumption DEF Links, Clusters, Free, Eoc, EocMin, InChain, After

LEMMA SectorDataType ==
  ASSUME disk \in [Copies -> [Index -> Links]], NEW c \in Clusters
  PROVE  SectorData(1, SectorOf(c)) \in [Offsets -> Links]
<1>1. c \in Index /\ SectorOf(c) \in Sectors
  BY Geometry
<1>2. \A o \in Offsets : At(SectorOf(c), o) \in Index
  BY <1>1, Geometry
<1>3. disk[1] \in [Index -> Links]
  BY Geometry
<1> QED BY <1>2, <1>3 DEF SectorData

LEMMA TypeInit == Init => TypeInv
<1> SUFFICES ASSUME Init PROVE TypeInv
  OBVIOUS
<1>1. disk \in [Copies -> [Index -> Links]]
  <2>1. PICK t \in [Clusters -> Links] :
          disk = [f \in Copies |-> [i \in Index |-> IF i \in Clusters THEN t[i] ELSE Eoc]]
    BY DEF Init
  <2>2. [i \in Index |-> IF i \in Clusters THEN t[i] ELSE Eoc] \in [Index -> Links]
    BY <2>1, Constants
  <2> QED BY <2>1, <2>2
<1>2. hint \in Clusters
  BY GeometryAssumption DEF Init, Clusters
<1>3. /\ cache \in [Offsets -> Links] /\ buf \in [Offsets -> Links]
      /\ val \in Links /\ next \in Links /\ reply \in Links
  BY Constants DEF Init
<1>4. /\ tag \in Sectors \cup {NoSector} /\ pc \in PCs /\ op \in {"none", "get", "set", "alloc", "free"}
      /\ cl \in Clusters \cup {0} /\ (pc \notin {"idle", "try"} => cl \in Clusters)
  BY DEF Init, PCs
<1>5. /\ copy \in 1 .. FatCount + 1 /\ tries \in 0 .. TotalClusters
      /\ crashes \in 0 .. MaxMishaps /\ faults \in 0 .. MaxMishaps
  BY Constants DEF Init
<1>7. disturbed \in 0 .. MaxMishaps /\ misread \in BOOLEAN
  <2>1. disturbed \in 0 .. MaxMishaps
    BY Constants DEF Init
  <2>2. misread \in BOOLEAN
    BY Zenon DEF Init
  <2> QED BY <2>1, <2>2
<1>6. TriesInv
  BY DEF Init, TriesInv
<1> QED BY <1>1, <1>2, <1>3, <1>4, <1>5, <1>6, <1>7 DEF TypeOK, TypeInv

LEMMA ReturnType ==
  ASSUME TypeInv, ClearLocals, reply' \in Links,
         disk' \in [Copies -> [Index -> Links]], tag' \in Sectors \cup {NoSector},
         UNCHANGED <<faults, misread>>, cache' \in [Offsets -> Links], hint' \in Clusters, crashes' \in 0 .. MaxMishaps, disturbed' \in 0 .. MaxMishaps
  PROVE  TypeInv'
  BY Constants DEF TypeInv, TypeOK, TriesInv, ClearLocals, PCs

LEMMA TypeStep == TypeInv /\ [Next]_vars => TypeInv'
<1> SUFFICES ASSUME TypeInv, [Next]_vars PROVE TypeInv'
  OBVIOUS
<1> USE DEF TypeInv
<1>0. CASE UNCHANGED vars
  BY <1>0 DEF vars, call, history, TypeOK, TriesInv
<1>1. ASSUME NEW c \in Clusters, CallGet(c) \/ CallFree(c)
      PROVE TypeInv'
  BY <1>1, Constants DEF CallGet, CallFree, history, TypeOK, TriesInv, PCs
<1>2. ASSUME NEW c \in Clusters, NEW v \in Clusters \cup {Eoc}, CallSet(c, v)
      PROVE TypeInv'
  BY <1>2, Constants DEF CallSet, history, TypeOK, TriesInv, PCs
<1>3. CASE CallAlloc
  BY <1>3, Constants DEF CallAlloc, history, TypeOK, TriesInv, PCs
<1>4. CASE GetCheck
  BY <1>4 DEF GetCheck, call, history, TypeOK, TriesInv, PCs
<1>5. CASE GetFill
  <2>1. cache' \in [Offsets -> Links] /\ disturbed' \in 0 .. MaxMishaps
    BY <1>5, SectorDataType, Constants DEF GetFill, Mishaps, TypeOK
  <2> QED BY <1>5, <2>1 DEF GetFill, call, TypeOK, TriesInv, PCs
<1>6. CASE GetTag
  BY <1>6, Geometry DEF GetTag, call, history, TypeOK, TriesInv, PCs
<1>7. CASE GetLoad
  BY <1>7, Geometry DEF GetLoad, history, TypeOK, TriesInv, PCs
<1>8. CASE GotGet
  BY <1>8, ReturnType DEF GotGet, Return, history, TypeOK
<1>9. CASE GotFree
  BY <1>9, Constants DEF GotFree, history, TypeOK, TriesInv, PCs
<1>10. CASE GotAlloc
  BY <1>10, Constants DEF GotAlloc, history, TypeOK, TriesInv, PCs
<1>11. CASE Try
  BY <1>11, Constants DEF Try, history, TypeOK, TriesInv, PCs
<1>12. CASE TryNoMore
  BY <1>12, ReturnType, Constants DEF TryNoMore, Return, history, TypeOK
<1>13. CASE SetRead
  <2>1. SectorData(1, SectorOf(cl)) \in [Offsets -> Links]
    BY <1>13, SectorDataType DEF SetRead, TypeOK
  <2>2. buf' \in [Offsets -> Links]
    <3>1. PICK g \in [Offsets -> Links] : buf' = [g EXCEPT ![OffsetOf(cl)] = val]
      BY <1>13, <2>1, Zenon DEF SetRead
    <3>2. val \in Links
      BY DEF TypeOK
    <3> QED BY <3>1, <3>2
  <2>3. misread' \in BOOLEAN
    BY <1>13, Zenon DEF SetRead, TypeOK
  <2>4. faults' \in 0 .. MaxMishaps
    BY <1>13, Constants DEF SetRead, Mishaps, TypeOK
  <2> QED BY <1>13, <2>2, <2>3, <2>4, Constants DEF SetRead, TypeOK, TriesInv, PCs
<1>14. CASE SetWrite
  <2>1. Written(disk[copy], SectorOf(cl)) \in [Index -> Links]
    <3>1. copy \in Copies
      BY <1>14, Constants DEF SetWrite, TypeOK, Copies
    <3>2. disk[copy] \in [Index -> Links]
      BY <3>1 DEF TypeOK
    <3>3. \A i \in Index : buf[OffsetOf(i)] \in Links
      BY Geometry DEF TypeOK
    <3> QED BY <3>2, <3>3 DEF Written
  <2>2. disk' \in [Copies -> [Index -> Links]]
    BY <1>14, <2>1 DEF SetWrite, TypeOK
  <2>3. copy' \in 1 .. FatCount + 1 /\ faults' \in 0 .. MaxMishaps
    BY <1>14, Constants DEF SetWrite, Mishaps, TypeOK
  <2> QED BY <1>14, <2>2, <2>3 DEF SetWrite, TypeOK, TriesInv
<1>15. CASE SetTest
  BY <1>15 DEF SetTest, call, history, TypeOK, TriesInv, PCs
<1>16. CASE SetPatch
  BY <1>16, Constants DEF SetPatch, call, history, TypeOK, TriesInv, PCs
<1>17. CASE DoneFree
  BY <1>17, Constants DEF DoneFree, history, TypeOK, TriesInv, PCs
<1>18. CASE Done
  BY <1>18, ReturnType, Constants DEF Done, Return, history, TypeOK
<1>19. CASE AudioInterrupt
  <2>1. /\ cache' \in [Offsets -> Links] /\ tag' \in Sectors
        /\ UNCHANGED <<disk, hint, pc, call, reply, crashes, faults, misread>>
    BY <1>19, SectorDataType, Constants, Geometry DEF AudioInterrupt, TypeOK
  <2>2. disturbed' \in 0 .. MaxMishaps
    BY <1>19, Constants DEF AudioInterrupt, Mishaps, TypeOK
  <2> QED BY <2>1, <2>2 DEF call, TypeOK, TriesInv
<1>20. CASE Crash
  <2>1. hint' \in Clusters /\ crashes' \in 0 .. MaxMishaps
    BY <1>20, GeometryAssumption, Constants DEF Crash, Mishaps, Clusters, TypeOK
  <2>2. disturbed' \in 0 .. MaxMishaps /\ cache' \in [Offsets -> Links]
    BY <1>20, Constants DEF Crash
  <2> QED BY <1>20, <2>1, <2>2, ReturnType, Constants DEF Crash, Return, TypeOK
<1> QED
  BY <1>0, <1>1, <1>2, <1>3, <1>4, <1>5, <1>6, <1>7, <1>8, <1>9, <1>10, <1>11, <1>12, <1>13,
     <1>14, <1>15, <1>16, <1>17, <1>18, <1>19, <1>20 DEF Next, Call, Step

(* Every variable of the driver stays in its range, whatever the size of   *)
(* the table, with crashes, failing reads and writes, and interrupts.      *)
THEOREM TypeCorrect == Spec => []TypeOK
<1>1. Init => TypeInv BY TypeInit
<1>2. TypeInv /\ [Next]_vars => TypeInv' BY TypeStep
<1>3. TypeInv => TypeOK BY DEF TypeInv
<1> QED BY <1>1, <1>2, <1>3, PTL DEF Spec

-----------------------------------------------------------------------------
(* The cache and the copies.                                               *)
LEMMA IndInit == Init => Ind
<1> SUFFICES ASSUME Init PROVE Ind
  OBVIOUS
<1>1. TypeInv BY TypeInit
<1>2. \A f, g \in Copies : disk[f] = disk[g]
  BY DEF Init
<1>3. CopyInv /\ CacheInv /\ FillInv
  BY <1>2, Geometry DEF Init, CopyInv, CacheInv, FillInv, NoSector, Sectors
<1> QED BY <1>1, <1>3 DEF Ind, Init, BufInv, PatchInv, PrimaryInv

(* A step that leaves the table alone and does not enter the middle of a   *)
(* set keeps the facts about sector_buf and the copies.                    *)
LEMMA QuietStep ==
  ASSUME Ind, UNCHANGED <<disk, tag, cache, faults, crashes, misread, disturbed>>,
         pc \notin {"write", "patch", "tag"}, pc' \notin {"write", "patch", "tag"}
  PROVE  (BufInv /\ FillInv /\ PatchInv /\ (misread => faults # 0)
          /\ (faults = 0 => PrimaryInv /\ CopyInv) /\ (faults = 0 /\ disturbed = 0 => CacheInv))'
  BY DEF Ind, BufInv, FillInv, PatchInv, PrimaryInv, CopyInv, CacheInv, Unpatched

LEMMA IndStep == Ind /\ [Next]_vars => Ind'
<1> SUFFICES ASSUME Ind, [Next]_vars PROVE Ind'
  OBVIOUS
<1>t. TypeInv' /\ TypeInv
  BY TypeStep DEF Ind
<1>0. CASE UNCHANGED vars
  BY <1>0, <1>t DEF vars, call, history, Ind, BufInv, FillInv, PatchInv, PrimaryInv, CopyInv,
     CacheInv, Unpatched
<1>1. CASE Call \/ GetCheck \/ GetLoad \/ GotGet \/ GotFree \/ GotAlloc \/ Try \/ TryNoMore
           \/ DoneFree \/ Done
  <2>1. /\ UNCHANGED <<disk, tag, cache, faults, crashes, misread, disturbed>>
        /\ pc \notin {"write", "patch", "tag"} /\ pc' \notin {"write", "patch", "tag"}
    BY <1>1 DEF Call, CallGet, CallSet, CallFree, CallAlloc, GetCheck, GetLoad, GotGet, GotFree,
       GotAlloc, Try, TryNoMore, DoneFree, Done, Return, ClearLocals, call, history
  <2> QED BY <2>1, <1>t, QuietStep DEF Ind
<1>2. CASE GetFill
  <2>1. /\ UNCHANGED <<disk, tag, faults, crashes, misread, cl>> /\ pc = "fill" /\ pc' = "tag"
        /\ cl \in Index
    BY <1>2, <1>t, Geometry DEF GetFill, call, TypeInv, TypeOK
  <2>2. disturbed' = 0 => cache' = SectorData(1, SectorOf(cl)) /\ disturbed = 0
    BY <1>2, <1>t DEF GetFill, TypeInv, TypeOK
  <2>3. disturbed' = 0 => FillInv'
    BY <2>1, <2>2, Geometry DEF FillInv, SectorData
  <2> QED BY <2>1, <2>2, <2>3, <1>t DEF Ind, BufInv, PatchInv, PrimaryInv, CopyInv, CacheInv
<1>3. CASE GetTag
  <2>1. /\ UNCHANGED <<disk, cache, faults, crashes, misread, cl, disturbed>> /\ pc = "tag" /\ pc' = "load"
        /\ tag' = SectorOf(cl)
    BY <1>3 DEF GetTag, call, history
  <2>2. disturbed = 0 => CacheInv'
    BY <2>1 DEF CacheInv, FillInv, Ind
  <2> QED BY <2>1, <2>2, <1>t DEF Ind, BufInv, PatchInv, FillInv, PrimaryInv, CopyInv
<1>4. CASE SetRead
  <2>1. /\ UNCHANGED <<disk, tag, cache, crashes, cl, val, disturbed>> /\ pc = "read" /\ pc' = "write"
        /\ copy' = 1 /\ cl \in Index
    BY <1>4, <1>t, Geometry DEF SetRead, TypeInv, TypeOK
  <2>2. BufInv' /\ (misread' => faults' # 0) /\ (faults' = 0 => faults = 0)
    <3>1. CASE buf' = [SectorData(1, SectorOf(cl)) EXCEPT ![OffsetOf(cl)] = val] /\ UNCHANGED <<faults, misread>>
      <4>1. BufInv'
        BY <2>1, <3>1, Geometry DEF BufInv, SectorData
      <4> QED BY <3>1, <4>1 DEF Ind
    <3>2. CASE /\ faults' = faults + 1 /\ misread' = TRUE
               /\ \E garbage \in [Offsets -> Links] : buf' = [garbage EXCEPT ![OffsetOf(cl)] = val]
      <4>1. buf'[OffsetOf(cl)] = val
        BY <2>1, <3>2, Geometry
      <4>2. faults' # 0
        BY <1>t, <3>2 DEF TypeInv, TypeOK
      <4> QED BY <2>1, <3>2, <4>1, <4>2 DEF BufInv
    <3> QED BY <1>4, <3>1, <3>2 DEF SetRead
  <2>3. PrimaryInv' /\ (faults' = 0 => CopyInv') /\ PatchInv' /\ FillInv'
    BY <2>1, <2>2, Geometry DEF Ind, PrimaryInv, CopyInv, PatchInv, FillInv, Copies
  <2>4. faults' = 0 /\ disturbed = 0 => CacheInv'
    BY <2>1, <2>2 DEF Ind, CacheInv, Unpatched
  <2> QED BY <2>1, <2>2, <2>3, <2>4, <1>t DEF Ind
<1>5. CASE SetWrite
  <2>1. /\ UNCHANGED <<tag, cache, crashes, misread, cl, val, buf, pc, disturbed>> /\ pc = "write"
        /\ copy \in Copies /\ copy' = copy + 1 /\ cl \in Index
        /\ BufInv
    BY <1>5, <1>t, Geometry, Constants DEF SetWrite, TypeInv, TypeOK, Copies, Ind
  <2>2. FillInv' /\ PatchInv'
    BY <2>1 DEF FillInv, PatchInv
  <2>3. CASE disk' = [disk EXCEPT ![copy] = Written(disk[copy], SectorOf(cl))] /\ faults' = faults
    <3>1. \A f \in Copies, i \in Index :
            disk'[f][i] = IF f = copy /\ SectorOf(i) = SectorOf(cl) THEN buf[OffsetOf(i)] ELSE disk[f][i]
      BY <2>3, <2>1, <1>t DEF Written, TypeInv, TypeOK
    <3>2. ~ misread => \A i \in Index : i # cl => disk'[1][i] = disk[1][i]
      BY <3>1, <2>1, Geometry DEF BufInv
    <3>3. disk'[copy][cl] = val
      BY <3>1, <2>1 DEF BufInv
    <3>4. BufInv'
      BY <3>2, <2>1 DEF BufInv
    <3>5. faults = 0 => PrimaryInv'
      BY <3>1, <3>3, <2>1, Geometry DEF PrimaryInv, Ind, Copies
    <3>6. faults = 0 => CopyInv'
      <4> SUFFICES ASSUME faults = 0, crashes = 0 PROVE CopyInv'
        BY <2>1 DEF CopyInv
      <4>1. CopyInv /\ ~ misread BY DEF Ind
      <4>2. \A f \in Copies, i \in Index : i # cl => disk'[f][i] = disk[f][i]
        BY <3>1, <4>1, <2>1, Geometry DEF CopyInv, BufInv
      <4>3. \A f \in Copies : f < copy + 1 => disk'[f][cl] = val
        <5> SUFFICES ASSUME NEW f \in Copies, f < copy + 1 PROVE disk'[f][cl] = val
          OBVIOUS
        <5>1. CASE f = copy BY <5>1, <3>3
        <5>2. CASE f < copy BY <5>2, <3>1, <4>1, <2>1 DEF CopyInv, Copies
        <5> QED BY <5>1, <5>2, <2>1 DEF Copies
      <4> QED BY <4>1, <4>2, <4>3, <2>1 DEF CopyInv
    <3>7. faults = 0 /\ disturbed = 0 => CacheInv'
      BY <3>2, <2>1 DEF CacheInv, Unpatched, Ind
    <3> QED BY <2>1, <2>2, <2>3, <3>4, <3>5, <3>6, <3>7, <1>t DEF Ind
  <2>4. CASE disk' = disk /\ faults' = faults + 1
    <3>1. faults' # 0
      BY <2>4, <1>t DEF TypeInv, TypeOK
    <3>2. BufInv'
      BY <2>4, <2>1 DEF BufInv
    <3> QED BY <2>2, <3>1, <3>2, <1>t DEF Ind
  <2> QED BY <1>5, <2>3, <2>4 DEF SetWrite
<1>6. CASE SetTest
  <2>1. /\ UNCHANGED <<disk, tag, cache, faults, crashes, misread, cl, val, copy, disturbed>> /\ pc = "write"
        /\ copy > FatCount
        /\ pc' = IF tag = SectorOf(cl) THEN "patch" ELSE "done"
    BY <1>6 DEF SetTest, call, history
  <2>2. copy > 1 /\ \A f \in Copies : f < copy
    BY <2>1, <1>t, Constants DEF TypeInv, TypeOK, Copies
  <2>3. BufInv' /\ FillInv' /\ PatchInv'
    BY <2>1 DEF BufInv, FillInv, PatchInv
  <2>4. faults = 0 => PrimaryInv'
    BY <2>1, <2>2 DEF PrimaryInv, Ind
  <2>5. faults = 0 => CopyInv'
    BY <2>1, <2>2 DEF CopyInv, Ind
  <2>6. faults = 0 /\ disturbed = 0 => CacheInv'
    BY <2>1 DEF CacheInv, Unpatched, Ind
  <2> QED BY <2>1, <2>3, <2>4, <2>5, <2>6, <1>t DEF Ind
<1>7. CASE SetPatch
  <2>1. /\ UNCHANGED <<disk, tag, faults, crashes, misread, cl, val, disturbed>> /\ pc = "patch" /\ pc' = "done"
        /\ cache' = [cache EXCEPT ![OffsetOf(cl)] = val]
        /\ cl \in Index /\ cache \in [Offsets -> Links]
    BY <1>7, <1>t, Geometry DEF SetPatch, call, history, TypeInv, TypeOK
  <2>2. BufInv' /\ FillInv' /\ PatchInv' /\ PrimaryInv' /\ (faults = 0 => CopyInv')
    BY <2>1 DEF BufInv, FillInv, PatchInv, PrimaryInv, CopyInv, Ind
  <2>3. faults = 0 /\ disturbed = 0 => CacheInv'
    <3> SUFFICES ASSUME faults = 0, disturbed = 0, NEW i \in Index, SectorOf(i) = tag
                 PROVE  cache'[OffsetOf(i)] = disk[1][i]
      BY <2>1 DEF CacheInv
    <3>1. disk[1][cl] = val /\ tag = SectorOf(cl)
      BY <2>1 DEF Ind, PrimaryInv, PatchInv
    <3>2. CASE i = cl
      BY <3>1, <3>2, <2>1, Geometry
    <3>3. CASE i # cl
      <4>1. OffsetOf(i) # OffsetOf(cl) /\ OffsetOf(i) \in Offsets
        BY <3>3, <3>1, <2>1, Distinct, Geometry
      <4>2. cache[OffsetOf(i)] = disk[1][i]
        BY <3>3, <2>1 DEF Ind, CacheInv, Unpatched
      <4> QED BY <4>1, <4>2, <2>1
    <3> QED BY <3>2, <3>3
  <2> QED BY <2>1, <2>2, <2>3, <1>t DEF Ind
<1>8. CASE AudioInterrupt
  <2>1. UNCHANGED <<disk, pc, cl, val, buf, copy, faults, crashes, misread>>
    BY <1>8 DEF AudioInterrupt, call
  <2>2. PICK c \in AudioClusters :
          /\ tag' = SectorOf(c)
          /\ IF pc = "idle" /\ cache' = SectorData(1, SectorOf(c))
             THEN UNCHANGED disturbed ELSE disturbed' = disturbed + 1
    BY <1>8 DEF AudioInterrupt
  <2>3. disturbed' = 0 => pc = "idle" /\ disturbed = 0 /\ cache' = SectorData(1, SectorOf(c))
    BY <2>2, <1>t DEF TypeInv, TypeOK
  <2>4. disturbed' = 0 => CacheInv'
    BY <2>1, <2>2, <2>3, Geometry DEF CacheInv, SectorData
  <2> QED BY <2>1, <2>3, <2>4, <1>t DEF Ind, BufInv, FillInv, PatchInv, PrimaryInv, CopyInv
<1>9. CASE Crash
  <2>1. /\ pc' = "idle" /\ tag' = NoSector /\ disk' = disk /\ crashes' = crashes + 1
        /\ UNCHANGED <<faults, misread>>
    BY <1>9 DEF Crash, Return, ClearLocals
  <2>2. CacheInv'
    <3>1. \A i \in Index : SectorOf(i) # NoSector
      BY Geometry DEF NoSector, Sectors
    <3> QED BY <2>1, <3>1 DEF CacheInv
  <2>3. crashes' # 0
    BY <2>1, <1>t DEF TypeInv, TypeOK
  <2>4. BufInv' /\ FillInv' /\ PatchInv' /\ PrimaryInv'
    BY <2>1 DEF BufInv, FillInv, PatchInv, PrimaryInv
  <2>5. CopyInv'
    BY <2>3 DEF CopyInv
  <2> QED BY <2>1, <2>2, <2>4, <2>5, <1>t DEF Ind
<1> QED
  BY <1>0, <1>1, <1>2, <1>3, <1>4, <1>5, <1>6, <1>7, <1>8, <1>9 DEF Next, Step

(* While no interrupt has refilled the cache in the middle of a call and   *)
(* no sector read or write has failed, the cache shows the sector of the   *)
(* first copy it is tagged with; without power losses and failing accesses *)
(* of fat32_set_fat_entry the copies of the table agree between calls.     *)
THEOREM TableCoherent == Spec => []Coherent
<1>1. Ind => CacheCoherent
  BY DEF Ind, CacheCoherent, CacheInv
<1>2. Ind => MirrorsAgree
  BY DEF Ind, MirrorsAgree, CopyInv
<1> QED BY <1>1, <1>2, IndInit, IndStep, PTL DEF Spec, Coherent

-----------------------------------------------------------------------------
(* How far the copies drift apart: outside the entries Spoiled the copies  *)
(* agree, but for the entry being set, and there the copies written so far *)
(* have the new value.                                                     *)
Agree(i) == \A f, g \in Copies : disk[f][i] = disk[g][i]
SpoiledOnly(S) ==
  /\ \A i \in Index : i \notin S /\ ~ (pc = "write" /\ i = cl) => Agree(i)
  /\ pc = "write" /\ cl \notin S => \A f \in Copies : f < copy => disk[f][cl] = val
FewSpoiled ==
  ~ misread => \E S \in SUBSET Index :
    IsFiniteSet(S) /\ Cardinality(S) <= crashes + faults /\ SpoiledOnly(S)

LEMMA OneMore ==
  ASSUME NEW S \in SUBSET Index, NEW n \in Nat, NEW c \in Index,
         IsFiniteSet(S), Cardinality(S) <= n
  PROVE  /\ IsFiniteSet(S \cup {c}) /\ Cardinality(S \cup {c}) <= n + 1
         /\ S \cup {c} \in SUBSET Index
<1>1. IsFiniteSet(S \cup {c}) /\ Cardinality(S) \in Nat
      /\ (Cardinality(S \cup {c}) = Cardinality(S) \/ Cardinality(S \cup {c}) = Cardinality(S) + 1)
  BY FS_AddElement, FS_CardinalityType
<1> QED BY <1>1

LEMMA SpoiledInit == Init => FewSpoiled
<1> SUFFICES ASSUME Init PROVE FewSpoiled
  OBVIOUS
<1>1. \A f, g \in Copies : disk[f] = disk[g]
  BY DEF Init
<1>2. SpoiledOnly({})
  BY <1>1 DEF Init, SpoiledOnly, Agree
<1>3. IsFiniteSet({}) /\ Cardinality({}) = 0
  BY FS_EmptySet
<1>4. crashes + faults = 0
  BY DEF Init
<1>5. {} \in SUBSET Index
  OBVIOUS
<1> QED BY <1>2, <1>3, <1>4, <1>5 DEF FewSpoiled

LEMMA MisreadStays == ASSUME [Next]_vars, misread PROVE misread'
  BY DEF Next, Step, Call, CallGet, CallSet, CallFree, CallAlloc, GetCheck, GetFill, GetTag, GetLoad, GotGet,
     GotFree, GotAlloc, Try, TryNoMore, SetRead, SetWrite, SetTest, SetPatch, DoneFree, Done, AudioInterrupt,
     Crash, history, vars

LEMMA SpoiledStep == FewSpoiled /\ Ind /\ [Next]_vars => FewSpoiled'
<1> SUFFICES ASSUME FewSpoiled, Ind, [Next]_vars, ~ misread' PROVE FewSpoiled'
  BY DEF FewSpoiled
<1>0. ~ misread
  BY MisreadStays
<1>t. TypeInv /\ TypeInv' /\ crashes \in Nat /\ faults \in Nat
  BY TypeStep, BoundAssumption DEF Ind, TypeInv, TypeOK
<1>s. PICK S \in SUBSET Index :
        IsFiniteSet(S) /\ Cardinality(S) <= crashes + faults /\ SpoiledOnly(S)
  BY <1>0 DEF FewSpoiled
<1>k. ASSUME SpoiledOnly(S)', crashes' + faults' = crashes + faults
      PROVE  FewSpoiled'
  BY <1>s, <1>k DEF FewSpoiled
<1>m. ASSUME NEW c \in Index, SpoiledOnly(S \cup {c})', crashes' + faults' = crashes + faults + 1
      PROVE  FewSpoiled'
  <2>1. /\ IsFiniteSet(S \cup {c}) /\ Cardinality(S \cup {c}) <= crashes + faults + 1
        /\ S \cup {c} \in SUBSET Index
    BY <1>s, <1>t, OneMore
  <2> QED BY <1>m, <2>1 DEF FewSpoiled
<1>1. CASE UNCHANGED vars
  BY <1>1, <1>s, <1>k DEF vars, call, history, SpoiledOnly, Agree
<1>2. CASE Call \/ GetCheck \/ GetFill \/ GetTag \/ GetLoad \/ GotGet \/ GotFree \/ GotAlloc \/ Try
           \/ TryNoMore \/ SetPatch \/ DoneFree \/ Done
  <2>1. UNCHANGED <<disk, crashes, faults>> /\ pc # "write" /\ pc' # "write"
    BY <1>2 DEF Call, CallGet, CallSet, CallFree, CallAlloc, GetCheck, GetFill, GetTag, GetLoad,
       GotGet, GotFree, GotAlloc, Try, TryNoMore, SetPatch, DoneFree, Done, Return, ClearLocals,
       call, history
  <2> QED BY <2>1, <1>s, <1>k DEF SpoiledOnly, Agree
<1>3. CASE SetRead
  <2>1. UNCHANGED <<disk, crashes, faults, cl>> /\ pc # "write" /\ copy' = 1
    BY <1>3 DEF SetRead
  <2>2. SpoiledOnly(S)'
    BY <2>1, <1>s DEF SpoiledOnly, Agree, Copies
  <2> QED BY <2>1, <2>2, <1>k
<1>4. CASE SetWrite
  <2>1. /\ UNCHANGED <<crashes, cl, val, pc>> /\ pc = "write" /\ copy' = copy + 1
        /\ copy \in Copies /\ cl \in Index /\ BufInv
    BY <1>4, <1>t, Geometry, Constants DEF SetWrite, TypeInv, TypeOK, Copies, Ind
  <2>2. CASE disk' = [disk EXCEPT ![copy] = Written(disk[copy], SectorOf(cl))] /\ faults' = faults
    <3>1. \A f \in Copies, i \in Index :
            disk'[f][i] = IF f = copy /\ SectorOf(i) = SectorOf(cl) THEN buf[OffsetOf(i)] ELSE disk[f][i]
      BY <2>2, <2>1, <1>t DEF Written, TypeInv, TypeOK
    <3>2. \A i \in Index : i # cl /\ i \notin S => Agree(i)'
      <4> SUFFICES ASSUME NEW i \in Index, i # cl, i \notin S, NEW f \in Copies
                   PROVE  disk'[f][i] = disk[1][i]
        BY DEF Agree
      <4>1. disk[f][i] = disk[1][i]
        BY <1>s, Geometry DEF SpoiledOnly, Agree
      <4>2. SectorOf(i) = SectorOf(cl) => buf[OffsetOf(i)] = disk[1][i]
        BY <1>0, <2>1 DEF BufInv
      <4> QED BY <3>1, <4>1, <4>2
    <3>3. cl \notin S => \A f \in Copies : f < copy + 1 => disk'[f][cl] = val
      <4> SUFFICES ASSUME cl \notin S, NEW f \in Copies, f < copy + 1 PROVE disk'[f][cl] = val
        OBVIOUS
      <4>1. buf[OffsetOf(cl)] = val
        BY <2>1 DEF BufInv
      <4>2. CASE f = copy BY <4>2, <3>1, <4>1, <2>1
      <4>3. CASE f < copy BY <4>3, <3>1, <1>s, <2>1 DEF SpoiledOnly, Copies
      <4> QED BY <4>2, <4>3, <2>1 DEF Copies
    <3>4. SpoiledOnly(S)'
      BY <3>2, <3>3, <2>1 DEF SpoiledOnly
    <3> QED BY <3>4, <2>1, <2>2, <1>k
  <2>3. CASE disk' = disk /\ faults' = faults + 1
    <3>1. SpoiledOnly(S \cup {cl})'
      BY <2>1, <2>3, <1>s DEF SpoiledOnly, Agree
    <3>2. crashes' + faults' = crashes + faults + 1
      BY <2>1, <2>3, <1>t
    <3> QED BY <2>1, <3>1, <3>2, <1>m
  <2> QED BY <1>4, <2>2, <2>3 DEF SetWrite
<1>5. CASE SetTest
  <2>1. UNCHANGED <<disk, crashes, faults, cl, val, copy>> /\ pc = "write" /\ pc' # "write"
        /\ copy > FatCount
    BY <1>5 DEF SetTest, call, history
  <2>2. \A f \in Copies : f < copy
    BY <2>1, <1>t, Constants DEF TypeInv, TypeOK, Copies
  <2>3. cl \in Index /\ cl \notin S => Agree(cl)
    BY <2>1, <2>2, <1>s DEF SpoiledOnly, Agree
  <2>4. SpoiledOnly(S)'
    BY <2>1, <2>3, <1>s DEF SpoiledOnly, Agree
  <2> QED BY <2>1, <2>4, <1>k
<1>6. CASE AudioInterrupt
  <2>1. UNCHANGED <<disk, crashes, faults, pc, cl, copy, val>>
    BY <1>6 DEF AudioInterrupt, call
  <2> QED BY <2>1, <1>s, <1>k DEF SpoiledOnly, Agree
<1>7. CASE Crash
  <2>1. UNCHANGED <<disk, faults>> /\ pc' = "idle" /\ crashes' = crashes + 1
    BY <1>7 DEF Crash, Return, ClearLocals
  <2>2. crashes' + faults' = crashes + faults + 1
    BY <2>1, <1>t
  <2>3. PICK c \in Index : pc = "write" => c = cl
    <3>1. 2 \in Index BY GeometryAssumption DEF Index
    <3>2. pc = "write" => cl \in Index BY <1>t, Geometry DEF TypeInv, TypeOK
    <3> QED BY <3>1, <3>2
  <2>4. SpoiledOnly(S \cup {c})'
    BY <2>1, <2>3, <1>s DEF SpoiledOnly, Agree
  <2> QED BY <2>2, <2>4, <1>m
<1> QED
  BY <1>1, <1>2, <1>3, <1>4, <1>5, <1>6, <1>7 DEF Next, Step

(* However many power losses, failing writes and failing reads into the    *)
(* cache there are, each of the first two leaves at most one entry         *)
(* different between the copies of the table, and the reads none, until    *)
(* fat32_set_fat_entry fails to read the sector it then writes.            *)
THEOREM MirrorsStayClose == Spec => []MirrorsDifferLittle
<1>1. ASSUME FewSpoiled, Ind PROVE MirrorsDifferLittle
  <2> SUFFICES ASSUME ~ misread
               PROVE  Cardinality(Differing) <= crashes + faults + (IF pc = "write" THEN 1 ELSE 0)
    BY DEF MirrorsDifferLittle
  <2> DEFINE n == crashes + faults
  <2>t. n \in Nat
    BY <1>1, BoundAssumption DEF Ind, TypeInv, TypeOK
  <2>s. PICK S \in SUBSET Index : IsFiniteSet(S) /\ Cardinality(S) <= n /\ SpoiledOnly(S)
    BY <1>1 DEF FewSpoiled
  <2>1. CASE pc = "write"
    <3>1. cl \in Index
      BY <1>1, <2>1, Geometry DEF Ind, TypeInv, TypeOK
    <3>2. IsFiniteSet(S \cup {cl}) /\ Cardinality(S \cup {cl}) <= n + 1
      BY <2>s, <2>t, <3>1, OneMore
    <3>3. Differing \subseteq S \cup {cl}
      BY <2>s DEF Differing, SpoiledOnly, Agree
    <3>4. Cardinality(Differing) <= Cardinality(S \cup {cl}) /\ Cardinality(Differing) \in Nat
          /\ Cardinality(S \cup {cl}) \in Nat
      BY <3>2, <3>3, FS_Subset, FS_CardinalityType
    <3> QED BY <2>1, <2>t, <3>2, <3>4
  <2>2. CASE pc # "write"
    <3>3. Differing \subseteq S
      BY <2>2, <2>s DEF Differing, SpoiledOnly, Agree
    <3>4. Cardinality(Differing) <= Cardinality(S) /\ Cardinality(Differing) \in Nat
          /\ Cardinality(S) \in Nat
      BY <2>s, <3>3, FS_Subset, FS_CardinalityType
    <3> QED BY <2>2, <2>t, <2>s, <3>4
  <2> QED BY <2>1, <2>2
<1> QED BY <1>1, IndInit, IndStep, SpoiledInit, SpoiledStep, PTL DEF Spec

-----------------------------------------------------------------------------
(* The table as one map.  What each call has found out of the first copy   *)
(* when it goes on, while nothing disturbs it: the entry it got, the       *)
(* cluster it follows or takes, and for an allocation that the clusters    *)
(* already tried, which lie just before the hint, are in use.              *)
OpInv ==
  /\ pc = "idle" <=> op = "none"
  /\ pc \in {"check", "fill", "tag", "load", "got"} => op \in {"get", "free", "alloc"}
  /\ pc = "try" => op = "alloc"
  /\ pc \in {"read", "write", "patch", "done"} => op \in {"set", "free", "alloc"}
  /\ pc = "idle" => tries = 0

Back(h, c) == IF c < h THEN h - 1 - c ELSE h - 1 - c + TotalClusters
Before == pc \in {"read", "write"} /\ (pc = "write" => copy = 1)
TryInv ==
  op = "alloc" =>
    /\ pc = "try" => \A c \in Clusters : Back(hint, c) < tries => disk[1][c] # Free
    /\ pc \in {"check", "fill", "tag", "load", "got"} =>
         \A c \in Clusters : c # cl /\ Back(hint, c) <= tries => disk[1][c] # Free
Progress ==
  /\ pc = "load" => tag = SectorOf(cl)
  /\ pc = "got" => val = disk[1][cl]
  /\ Before /\ op = "free" => val = Free /\ next = disk[1][cl]
  /\ Before /\ op = "alloc" => val = Eoc /\ disk[1][cl] = Free
  /\ pc = "done" /\ op = "set" => disk[1][cl] = val
  /\ TryInv

MapInv == Ind /\ OpInv /\ (faults = 0 /\ disturbed = 0 => Progress)

(* The clusters are tried in a circle.                                     *)
LEMMA Circle ==
  ASSUME NEW h \in Clusters, NEW c \in Clusters
  PROVE  /\ Back(h, c) \in 0 .. TotalClusters - 1
         /\ c # h => Back(After(h), c) = Back(h, c) + 1
<1>1. TotalClusters \in Nat \ {0} /\ h \in 2 .. TotalClusters + 1 /\ c \in 2 .. TotalClusters + 1
  BY GeometryAssumption DEF Clusters
<1> QED BY <1>1 DEF Back, After

LEMMA MapInvInit == Init => MapInv
<1> SUFFICES ASSUME Init PROVE MapInv
  OBVIOUS
<1>1. pc = "idle" /\ op = "none" /\ tries = 0
  BY DEF Init
<1> QED BY <1>1, IndInit DEF MapInv, OpInv, Progress, Before, TryInv

LEMMA OpStep == OpInv /\ [Next]_vars => OpInv'
<1> SUFFICES ASSUME OpInv, [Next]_vars PROVE OpInv'
  OBVIOUS
<1>1. CASE UNCHANGED vars
  BY <1>1 DEF vars, call, OpInv
<1>2. CASE Call
  BY <1>2 DEF Call, CallGet, CallSet, CallFree, CallAlloc, OpInv
<1>3. CASE GetCheck \/ GetFill \/ GetTag \/ GetLoad \/ GotGet \/ GotFree \/ GotAlloc \/ Try \/ TryNoMore
  BY <1>3 DEF GetCheck, GetFill, GetTag, GetLoad, GotGet, GotFree, GotAlloc, Try, TryNoMore, Return, ClearLocals,
              call, OpInv
<1>4. CASE SetRead \/ SetWrite \/ SetTest \/ SetPatch \/ DoneFree \/ Done
  BY <1>4 DEF SetRead, SetWrite, SetTest, SetPatch, DoneFree, Done, Return, ClearLocals, call, OpInv
<1>5. CASE AudioInterrupt \/ Crash
  BY <1>5 DEF AudioInterrupt, Crash, Return, ClearLocals, call, OpInv
<1> QED BY <1>1, <1>2, <1>3, <1>4, <1>5 DEF Next, Step

(* The first write of a set changes one entry of the first copy.           *)
LEMMA FirstWrite ==
  ASSUME Ind, SetWrite, faults' = 0
  PROVE  \A i \in Index : disk'[1][i] = IF copy = 1 /\ i = cl THEN val ELSE disk[1][i]
<1>1. /\ pc = "write" /\ copy \in Copies /\ cl \in Index /\ BufInv /\ faults \in Nat
      /\ ~ misread' /\ misread' = misread /\ disk \in [Copies -> [Index -> Links]]
  BY Geometry, Constants DEF SetWrite, Ind, TypeInv, TypeOK, Copies
<1>2. disk' = [disk EXCEPT ![copy] = Written(disk[copy], SectorOf(cl))]
  BY <1>1 DEF SetWrite
<1>3. \A i \in Index :
        disk'[1][i] = IF copy = 1 /\ SectorOf(i) = SectorOf(cl) THEN buf[OffsetOf(i)] ELSE disk[1][i]
  BY <1>1, <1>2, Geometry DEF Written
<1> QED BY <1>1, <1>3 DEF BufInv

LEMMA ProgressStep ==
  ASSUME MapInv, [Next]_vars, faults' = 0, disturbed' = 0
  PROVE  Progress'
<1>t. /\ TypeOK /\ TriesInv /\ faults \in Nat /\ disturbed \in Nat /\ OpInv /\ Ind
      /\ disk \in [Copies -> [Index -> Links]] /\ 1 \in Copies /\ Clusters \subseteq Index
  BY Geometry, Constants DEF MapInv, Ind, TypeInv, TypeOK
<1>1. CASE Crash
  BY <1>1 DEF Crash, Return, ClearLocals, Progress, Before, TryInv
<1>2. CASE AudioInterrupt
  <2>1. pc = "idle" /\ UNCHANGED <<pc, op>>
    BY <1>2, <1>t DEF AudioInterrupt, call
  <2>2. op = "none"
    BY <2>1, <1>t DEF OpInv
  <2> QED BY <2>1, <2>2 DEF Progress, Before, TryInv
<1> SUFFICES ASSUME ~ Crash, ~ AudioInterrupt PROVE Progress'
  BY <1>1, <1>2
<1>p. faults = 0 /\ disturbed = 0 /\ Progress
  <2>1. faults = 0 /\ disturbed = 0
    BY <1>t DEF Next, Step, Call, CallGet, CallSet, CallFree, CallAlloc, GetCheck, GetFill, GetTag, GetLoad, GotGet,
       GotFree, GotAlloc, Try, TryNoMore, SetRead, SetWrite, SetTest, SetPatch, DoneFree, Done, history, vars
  <2> QED BY <2>1 DEF MapInv
<1>3. CASE UNCHANGED vars
  BY <1>p, <1>3 DEF vars, call, Progress, Before, TryInv
<1>4. CASE Call
  <2>1. pc' # "load" /\ pc' # "got" /\ pc' # "done" /\ pc' # "write" /\ op' # "none"
        /\ (op' = "alloc" => pc' = "try" /\ tries' = 0)
        /\ (pc' = "read" => op' = "set")
    BY <1>4, <1>t DEF Call, CallGet, CallSet, CallFree, CallAlloc, OpInv
  <2>2. hint' = hint /\ hint \in Clusters
    BY <1>4, <1>t DEF Call, CallGet, CallSet, CallFree, CallAlloc, TypeOK
  <2>3. \A c \in Clusters : ~ (Back(hint, c) < 0)
    BY <2>2, Circle, Constants
  <2> QED BY <2>1, <2>2, <2>3 DEF Progress, Before, TryInv
<1>5. CASE GetCheck \/ GetFill \/ GetTag
  BY <1>5, <1>p DEF GetCheck, GetFill, GetTag, call, Progress, Before, TryInv
<1>6. CASE GetLoad
  <2>1. /\ pc = "load" /\ pc' = "got" /\ val' = cache[OffsetOf(cl)] /\ cl \in Index
        /\ UNCHANGED <<disk, tag, hint, op, cl, tries>>
    BY <1>6, <1>t DEF GetLoad, TypeOK
  <2>2. cache[OffsetOf(cl)] = disk[1][cl]
    BY <2>1, <1>p, <1>t DEF Progress, Ind, CacheInv, Unpatched
  <2> QED BY <1>p, <2>1, <2>2 DEF Progress, Before, TryInv
<1>7. CASE GotGet \/ TryNoMore \/ Done
  <2>1. pc' = "idle" /\ op' = "none"
    BY <1>7 DEF GotGet, TryNoMore, Done, Return, ClearLocals
  <2> QED BY <2>1 DEF Progress, Before, TryInv
<1>8. CASE GotFree
  BY <1>8, <1>p DEF GotFree, Progress, Before, TryInv
<1>9. CASE GotAlloc
  <2>1. /\ pc = "got" /\ op = "alloc" /\ UNCHANGED <<disk, hint, op, cl>> /\ val = disk[1][cl] /\ tries \in Nat
        /\ \A c \in Clusters : c # cl /\ Back(hint, c) <= tries => disk[1][c] # Free
    BY <1>9, <1>p, <1>t DEF GotAlloc, Progress, TryInv, TypeOK
  <2>2. CASE val = Free
    BY <1>9, <2>1, <2>2 DEF GotAlloc, Progress, Before, TryInv
  <2>3. CASE val # Free
    <3>1. pc' = "try" /\ tries' = tries + 1
      BY <1>9, <2>3 DEF GotAlloc
    <3>2. ASSUME NEW c \in Clusters, Back(hint, c) < tries + 1 PROVE disk[1][c] # Free
      <4>1. Back(hint, c) \in Nat
        BY <1>t, Circle, Constants DEF TypeOK
      <4>2. Back(hint, c) <= tries
        BY <2>1, <3>2, <4>1
      <4> QED BY <2>1, <2>3, <4>2
    <3> QED BY <2>1, <3>1, <3>2 DEF Progress, Before, TryInv
  <2> QED BY <2>2, <2>3
<1>10. CASE Try
  <2>1. /\ pc = "try" /\ pc' = "check" /\ cl' = hint /\ hint' = After(hint) /\ UNCHANGED <<disk, op, tries>>
        /\ op = "alloc" /\ hint \in Clusters /\ tries \in Nat
        /\ \A c \in Clusters : Back(hint, c) < tries => disk[1][c] # Free
    BY <1>10, <1>p, <1>t DEF Try, Progress, TryInv, OpInv, TypeOK
  <2>2. ASSUME NEW c \in Clusters, c # hint, Back(hint', c) <= tries PROVE disk[1][c] # Free
    <3>1. Back(After(hint), c) = Back(hint, c) + 1 /\ Back(hint, c) \in Nat
      BY <2>1, <2>2, Circle, Constants
    <3> QED BY <2>1, <2>2, <3>1
  <2> QED BY <2>1, <2>2 DEF Progress, Before, TryInv
<1>11. CASE SetRead
  BY <1>11, <1>p DEF SetRead, Progress, Before, TryInv
<1>12. CASE SetWrite
  <2>1. pc' = "write" /\ copy' = copy + 1 /\ copy \in Nat \ {0}
    BY <1>12, <1>t, Constants DEF SetWrite, TypeOK
  <2> QED BY <2>1 DEF Progress, Before, TryInv
<1>13. CASE SetTest \/ SetPatch
  <2>1. /\ pc' \in {"patch", "done"} /\ UNCHANGED <<disk, op, cl, val>>
        /\ pc = "patch" \/ (pc = "write" /\ copy > 1)
    BY <1>13, <1>t, Constants DEF SetTest, SetPatch, call, TypeOK
  <2>2. disk[1][cl] = val
    BY <2>1, <1>p, <1>t DEF Ind, PrimaryInv
  <2> QED BY <2>1, <2>2 DEF Progress, Before, TryInv
<1>14. CASE DoneFree
  BY <1>14 DEF DoneFree, Progress, Before, TryInv
<1> QED BY <1>3, <1>4, <1>5, <1>6, <1>7, <1>8, <1>9, <1>10, <1>11, <1>12, <1>13, <1>14 DEF Next, Step

LEMMA MapInvStep == MapInv /\ [Next]_vars => MapInv'
BY IndStep, OpStep, ProgressStep DEF MapInv

(* The abstract call and table, with the names of FatMap.                  *)
MapNow  == [c \in Clusters |-> disk[1][c]]
CallNow ==
  CASE op = "none" -> [op |-> "none"]
    [] op = "get" -> [op |-> "get", arg |-> cl]
    [] op = "set" -> [op |-> "set", arg |-> cl, val |-> val]
    [] op = "alloc" -> IF Effective THEN [op |-> "taken", arg |-> cl] ELSE [op |-> "alloc"]
    [] op = "free" -> [op |-> "free", arg |-> IF Effective THEN next ELSE cl]
Damaged == disturbed > 0 \/ faults > 0

LEMMA CallShown ==
  /\ op = "none" => CallNow = [op |-> "none"]
  /\ op = "get" => CallNow = [op |-> "get", arg |-> cl]
  /\ op = "set" => CallNow = [op |-> "set", arg |-> cl, val |-> val]
  /\ op = "alloc" /\ Effective => CallNow = [op |-> "taken", arg |-> cl]
  /\ op = "alloc" /\ ~ Effective => CallNow = [op |-> "alloc"]
  /\ op = "free" /\ Effective => CallNow = [op |-> "free", arg |-> next]
  /\ op = "free" /\ ~ Effective => CallNow = [op |-> "free", arg |-> cl]
BY DEF CallNow

Quiet == UNCHANGED <<MapNow, CallNow, reply>>
Starts ==
  /\ CallNow = [op |-> "none"] /\ reply' = 0 /\ MapNow' = MapNow
  /\ CallNow' \in [op : {"get", "free"}, arg : Clusters]
       \cup [op : {"set"}, arg : Clusters, val : Links] \cup [op : {"alloc"}]
Ends(r) == CallNow' = [op |-> "none"] /\ reply' = r /\ MapNow' = MapNow
Returns ==
  \/ CallNow.op = "get" /\ Ends(MapNow[CallNow.arg])
  \/ CallNow.op = "set" /\ MapNow[CallNow.arg] = CallNow.val /\ Ends(0)
  \/ CallNow.op = "free" /\ CallNow.arg \notin Clusters /\ Ends(0)
  \/ CallNow.op = "taken" /\ Ends(CallNow.arg)
  \/ CallNow.op = "alloc" /\ (\A c \in Clusters : MapNow[c] # Free) /\ Ends(0)
Writes ==
  \/ /\ CallNow.op = "set" /\ MapNow' = [MapNow EXCEPT ![CallNow.arg] = CallNow.val]
     /\ UNCHANGED <<CallNow, reply>>
  \/ /\ CallNow.op = "free" /\ CallNow.arg \in Clusters
     /\ MapNow' = [MapNow EXCEPT ![CallNow.arg] = Free]
     /\ CallNow' = [CallNow EXCEPT !.arg = MapNow[CallNow.arg]]
     /\ UNCHANGED reply
  \/ /\ CallNow.op = "alloc"
     /\ \E c \in Clusters : /\ MapNow[c] = Free
                            /\ MapNow' = [MapNow EXCEPT ![c] = Eoc]
                            /\ CallNow' = [op |-> "taken", arg |-> c]
     /\ UNCHANGED reply

(* These are the steps of FatMap.                                          *)
LEMMA Shown ==
  Starts \/ Writes \/ Returns \/ Ends(0) => Map!Next
BY DEF Starts, Writes, Returns, Ends, MapNow, CallNow, Map!Next, Map!Begin, Map!Put, Map!Release, Map!Take,
   Map!Return, Map!End, Map!PowerLoss, Map!NoCall

LEMMA StepShown ==
  ASSUME MapInv, [Next]_vars, ~ Damaged, ~ Damaged'
  PROVE  Quiet \/ Starts \/ Writes \/ Returns \/ Ends(0)
<1>t. /\ TypeOK /\ TriesInv /\ OpInv /\ Ind
      /\ disk \in [Copies -> [Index -> Links]] /\ 1 \in Copies /\ Clusters \subseteq Index
  BY Geometry, Constants DEF MapInv, Ind, TypeInv, TypeOK
<1>f. faults = 0 /\ disturbed = 0 /\ faults' = 0 /\ disturbed' = 0 /\ Progress
  <2>1. faults \in Nat /\ disturbed \in Nat /\ faults' \in Nat /\ disturbed' \in Nat
    BY <1>t, IndStep, Constants DEF Ind, TypeInv, TypeOK
  <2>2. faults = 0 /\ disturbed = 0 /\ faults' = 0 /\ disturbed' = 0
    BY <2>1 DEF Damaged
  <2> QED BY <2>2 DEF MapInv
<1>m. disk' = disk => MapNow' = MapNow
  BY DEF MapNow
<1>1. CASE UNCHANGED vars
  BY <1>1 DEF vars, call, Quiet, MapNow, CallNow, Effective
<1>2. ASSUME NEW c \in Clusters, CallGet(c) \/ CallFree(c)
      PROVE  Starts
  <2>1. /\ op = "none" /\ op' \in {"get", "free"} /\ cl' = c /\ ~ Effective' /\ reply' = 0 /\ disk' = disk
    BY <1>2, <1>t DEF CallGet, CallFree, OpInv, Effective
  <2>2. CallNow' = [op |-> op', arg |-> c] /\ CallNow = [op |-> "none"]
    BY <2>1 DEF CallNow
  <2> QED BY <2>1, <2>2, <1>m DEF Starts
<1>3. ASSUME NEW c \in Clusters, NEW v \in Clusters \cup {Eoc}, CallSet(c, v)
      PROVE  Starts
  <2>1. /\ op = "none" /\ op' = "set" /\ cl' = c /\ val' = v /\ reply' = 0 /\ disk' = disk
    BY <1>3, <1>t DEF CallSet, OpInv
  <2>2. CallNow' = [op |-> "set", arg |-> c, val |-> v] /\ CallNow = [op |-> "none"] /\ v \in Links
    BY <2>1, Constants DEF CallNow
  <2> QED BY <2>1, <2>2, <1>m DEF Starts
<1>4. CASE CallAlloc
  <2>1. /\ op = "none" /\ op' = "alloc" /\ ~ Effective' /\ reply' = 0 /\ disk' = disk
    BY <1>4, <1>t DEF CallAlloc, OpInv, Effective
  <2>2. CallNow' = [op |-> "alloc"] /\ CallNow = [op |-> "none"]
    BY <2>1 DEF CallNow
  <2> QED BY <2>1, <2>2, <1>m DEF Starts
<1>5. CASE GetCheck \/ GetFill \/ GetTag \/ GetLoad \/ GotFree \/ GotAlloc \/ Try \/ SetRead
  <2>1. /\ disk' = disk /\ op' = op /\ reply' = reply /\ ~ Effective /\ ~ Effective'
        /\ op \in {"get", "free"} => cl' = cl
        /\ op = "set" => cl' = cl /\ val' = val
        /\ op # "none"
    BY <1>5, <1>t DEF GetCheck, GetFill, GetTag, GetLoad, GotFree, GotAlloc, Try, SetRead, call, Effective, OpInv
  <2>2. op \in {"get", "set", "alloc", "free"}
    BY <2>1, <1>t DEF TypeOK
  <2>3. CallNow' = CallNow
    BY <2>1, <2>2 DEF CallNow
  <2> QED BY <2>1, <2>3, <1>m DEF Quiet
<1>6. CASE GotGet
  <2>1. /\ disk' = disk /\ op = "get" /\ op' = "none" /\ reply' = val /\ pc = "got" /\ cl \in Clusters
    BY <1>6, <1>t DEF GotGet, Return, ClearLocals, TypeOK
  <2>2. CallNow = [op |-> "get", arg |-> cl] /\ CallNow' = [op |-> "none"] /\ MapNow[cl] = val
    BY <2>1, <1>f DEF CallNow, MapNow, Progress
  <2> QED BY <2>1, <2>2, <1>m DEF Returns, Ends
<1>7. CASE TryNoMore
  <2>1. /\ disk' = disk /\ op = "alloc" /\ op' = "none" /\ reply' = 0 /\ pc = "try" /\ ~ Effective
        /\ hint \in Clusters /\ tries >= TotalClusters /\ tries \in Nat
    BY <1>7, <1>t, Constants DEF TryNoMore, Return, ClearLocals, OpInv, Effective, TypeOK
  <2>2. CallNow = [op |-> "alloc"] /\ CallNow' = [op |-> "none"]
    BY <2>1 DEF CallNow
  <2>3. ASSUME NEW c \in Clusters PROVE MapNow[c] # Free
    <3>1. Back(hint, c) \in 0 .. TotalClusters - 1
      BY <2>1, Circle
    <3>2. Back(hint, c) < tries
      BY <2>1, <3>1, Constants
    <3>3. disk[1][c] # Free
      BY <2>1, <3>2, <1>f DEF Progress, TryInv
    <3> QED BY <3>3 DEF MapNow
  <2> QED BY <2>1, <2>2, <2>3, <1>m DEF Returns, Ends
<1>8. CASE SetWrite
  <2>1. /\ pc = "write" /\ op' = op /\ cl' = cl /\ val' = val /\ next' = next /\ reply' = reply
        /\ pc' = pc /\ copy' = copy + 1 /\ copy \in Nat \ {0} /\ Effective' /\ cl \in Clusters
    BY <1>8, <1>t, Constants DEF SetWrite, Effective, TypeOK
  <2>2. \A i \in Index : disk'[1][i] = IF copy = 1 /\ i = cl THEN val ELSE disk[1][i]
    BY <1>8, <1>f, <1>t, FirstWrite
  <2>3. CASE copy # 1
    <3>1. MapNow' = MapNow /\ Effective
      BY <2>1, <2>2, <2>3, <1>t DEF MapNow, Effective
    <3>2. CallNow' = CallNow
      BY <2>1, <3>1 DEF CallNow
    <3> QED BY <2>1, <3>1, <3>2 DEF Quiet
  <2>4. CASE copy = 1
    <3>1. MapNow' = [MapNow EXCEPT ![cl] = val] /\ ~ Effective
      <4>1. \A c \in Clusters : disk'[1][c] = IF c = cl THEN val ELSE disk[1][c]
        BY <2>2, <2>4, <1>t
      <4>2. [c \in Clusters |-> disk'[1][c]] = [[c \in Clusters |-> disk[1][c]] EXCEPT ![cl] = val]
        BY <2>1, <4>1
      <4>3. ~ Effective
        BY <2>1, <2>4 DEF Effective
      <4> QED BY <4>2, <4>3 DEF MapNow
    <3>2. op \in {"set", "free", "alloc"}
      BY <2>1, <1>t DEF OpInv
    <3>3. CASE op = "set"
      <4>1. CallNow = [op |-> "set", arg |-> cl, val |-> val] /\ CallNow' = CallNow
        BY <2>1, <3>3 DEF CallNow
      <4> QED BY <2>1, <3>1, <4>1 DEF Writes
    <3>4. CASE op = "free"
      <4>1. CallNow = [op |-> "free", arg |-> cl] /\ CallNow' = [op |-> "free", arg |-> next]
        BY <2>1, <3>1, <3>4 DEF CallNow
      <4>2. val = Free /\ next = MapNow[cl]
        BY <2>1, <2>4, <3>4, <1>f DEF Progress, Before, MapNow
      <4> QED BY <2>1, <3>1, <4>1, <4>2 DEF Writes
    <3>5. CASE op = "alloc"
      <4>1. CallNow = [op |-> "alloc"] /\ CallNow' = [op |-> "taken", arg |-> cl]
        BY <2>1, <3>1, <3>5 DEF CallNow
      <4>2. val = Eoc /\ MapNow[cl] = Free
        BY <2>1, <2>4, <3>5, <1>f DEF Progress, Before, MapNow
      <4> QED BY <2>1, <3>1, <4>1, <4>2 DEF Writes
    <3> QED BY <3>2, <3>3, <3>4, <3>5
  <2> QED BY <2>3, <2>4
<1>9. CASE SetTest \/ SetPatch \/ DoneFree
  <2>1. /\ disk' = disk /\ op' = op /\ reply' = reply /\ Effective
        /\ \/ Effective' /\ cl' = cl /\ val' = val /\ next' = next
           \/ ~ Effective' /\ cl' = next /\ op = "free"
    BY <1>9, <1>t, Constants DEF SetTest, SetPatch, DoneFree, call, Effective, TypeOK
  <2>2. CallNow' = CallNow
    BY <2>1 DEF CallNow
  <2> QED BY <2>1, <2>2, <1>m DEF Quiet
<1>10. CASE Done
  <2>1. /\ disk' = disk /\ op' = "none" /\ pc = "done" /\ Effective /\ cl \in Clusters /\ next \in Links
        /\ op \in {"set", "free", "alloc"} /\ (op = "free" => ~ InChain(next))
        /\ reply' = IF op = "alloc" THEN cl ELSE 0
    BY <1>10, <1>t DEF Done, Return, ClearLocals, Effective, OpInv, TypeOK
  <2>2. CallNow' = [op |-> "none"]
    BY <2>1 DEF CallNow
  <2>3. CASE op = "set"
    <3>1. CallNow = [op |-> "set", arg |-> cl, val |-> val] /\ MapNow[cl] = val
      BY <2>1, <2>3, <1>f DEF CallNow, MapNow, Progress
    <3> QED BY <2>1, <2>2, <2>3, <3>1, <1>m DEF Returns, Ends
  <2>4. CASE op = "free"
    <3>1. CallNow = [op |-> "free", arg |-> next] /\ next \notin Clusters
      BY <2>1, <2>4, Constants DEF CallNow
    <3> QED BY <2>1, <2>2, <2>4, <3>1, <1>m DEF Returns, Ends
  <2>5. CASE op = "alloc"
    <3>1. CallNow = [op |-> "taken", arg |-> cl]
      BY <2>1, <2>5 DEF CallNow
    <3> QED BY <2>1, <2>2, <2>5, <3>1, <1>m DEF Returns, Ends
  <2> QED BY <2>1, <2>3, <2>4, <2>5
<1>11. CASE AudioInterrupt
  BY <1>11, <1>m DEF AudioInterrupt, call, Quiet, CallNow, Effective
<1>12. CASE Crash
  <2>1. disk' = disk /\ op' = "none" /\ reply' = 0
    BY <1>12 DEF Crash, Return, ClearLocals
  <2>2. CallNow' = [op |-> "none"]
    BY <2>1 DEF CallNow
  <2> QED BY <2>1, <2>2, <1>m DEF Ends
<1> QED BY <1>1, <1>2, <1>3, <1>4, <1>5, <1>6, <1>7, <1>8, <1>9, <1>10, <1>11, <1>12 DEF Next, Call, Step

LEMMA MapInit == Init => Map!Init
<1> SUFFICES ASSUME Init PROVE Map!Init
  OBVIOUS
<1>1. op = "none" /\ reply = 0 /\ disturbed = 0 /\ faults = 0
  BY DEF Init
<1>2. disk \in [Copies -> [Index -> Links]] /\ 1 \in Copies /\ Clusters \subseteq Index
  BY TypeInit, Geometry DEF TypeInv, TypeOK
<1>3. [c \in Clusters |-> disk[1][c]] \in [Clusters -> Links]
  BY <1>2
<1>4. CallNow = [op |-> "none"]
  BY <1>1 DEF CallNow
<1> QED BY <1>1, <1>3, <1>4 DEF Map!Init, Map!NoCall, CallNow

(* While no read or write fails and no interrupt disturbs a lookup, the    *)
(* calls of the driver read and change one map, an entry at a time, at any *)
(* power loss, with any number of copies (fat32.c:142-230).                *)
THEOREM TableIsMap == Spec => ImplementsMap
<1>1. Init => MapInv /\ Map!Init
  BY MapInvInit, MapInit
<1>2. MapInv /\ [Next]_vars => MapInv'
  BY MapInvStep
<1>3. MapInv /\ [Next]_vars => [(disturbed > 0 \/ faults > 0) \/ (disturbed > 0 \/ faults > 0)' \/ Map!Next]_Map!vars
  <2> SUFFICES ASSUME MapInv, [Next]_vars, ~ Damaged, ~ Damaged'
               PROVE  Map!Next \/ UNCHANGED Map!vars
    BY DEF Damaged
  <2>1. Quiet \/ Starts \/ Writes \/ Returns \/ Ends(0)
    BY StepShown
  <2>2. CASE Quiet
    BY <2>2 DEF Quiet, Damaged, MapNow, CallNow, Map!vars
  <2>3. CASE ~ Quiet
    BY <2>1, <2>3, Shown
  <2> QED BY <2>2, <2>3
<1> QED BY <1>1, <1>2, <1>3, PTL DEF Spec, ImplementsMap, Map!Spec

-----------------------------------------------------------------------------
(* How long a call may still take.  How many statements are left of one    *)
(* turn of the loop of an allocation or a free:                            *)
Rest ==
  IF pc = "idle" THEN 0
  ELSE IF pc = "done" THEN 1
  ELSE IF pc = "patch" THEN 2
  ELSE IF pc = "write" THEN FatCount + 4 - copy
  ELSE IF pc = "read" THEN FatCount + 4
  ELSE IF pc = "got" THEN FatCount + 5
  ELSE IF pc = "load" THEN FatCount + 6
  ELSE IF pc = "tag" THEN FatCount + 7
  ELSE IF pc = "fill" THEN FatCount + 8
  ELSE IF pc = "check" THEN FatCount + 9
  ELSE FatCount + 10
Turn == FatCount + 11

(* and how many turns there may be: an allocation tries each cluster once, *)
(* and a free goes on only from a cluster that was in use, which it has    *)
(* set free by then.                                                       *)
InUse == {c \in Clusters : disk[1][c] # Free}
Onward == Effective /\ InChain(next)
Turns ==
  IF op = "alloc" THEN TotalClusters - tries
  ELSE IF op = "free" THEN Cardinality(InUse) + (IF Onward THEN 1 ELSE 0)
  ELSE 0
Work == Turns * Turn + Rest

(* The loops use up whole turns before they use up statements.             *)
LEMMA Falls ==
  ASSUME NEW m \in Nat, NEW a \in Nat, NEW b \in Nat, NEW r \in Nat, NEW s \in Nat,
         \/ b <= a /\ s < r
         \/ b < a /\ s < r + m
  PROVE  b * m + s < a * m + r
<1>1. CASE b <= a /\ s < r
  <2>1. b * m <= a * m
    BY <1>1
  <2>2. a * m \in Nat /\ b * m \in Nat
    OBVIOUS
  <2> QED BY <1>1, <2>1, <2>2
<1>2. CASE b < a /\ s < r + m
  <2>1. (b + 1) * m <= a * m
    <3>1. b + 1 <= a /\ b + 1 \in Nat
      BY <1>2
    <3> QED BY <3>1
  <2>2. (b + 1) * m = b * m + m
    OBVIOUS
  <2>3. a * m \in Nat /\ b * m \in Nat
    OBVIOUS
  <2> QED BY <1>2, <2>1, <2>2, <2>3
<1> QED BY <1>1, <1>2

LEMMA InUseFinite == TypeOK => IsFiniteSet(InUse) /\ Cardinality(InUse) \in Nat
<1>1. IsFiniteSet(Clusters)
  BY Constants, FS_Interval DEF Clusters
<1>2. InUse \in SUBSET Clusters
  BY DEF InUse
<1> QED BY <1>1, <1>2, FS_Subset, FS_CardinalityType

LEMMA WorkType ==
  ASSUME TypeInv
  PROVE  /\ Rest \in 0 .. FatCount + 10 /\ Turns \in Nat /\ Turn \in Nat /\ FatCount \in Nat
         /\ Work \in Nat
<1>1. FatCount \in Nat /\ TotalClusters \in Nat
  BY GeometryAssumption
<1>2. copy \in 1 .. FatCount + 1 /\ tries \in 0 .. TotalClusters /\ TypeOK
  BY DEF TypeInv, TypeOK
<1>3. Rest \in 0 .. FatCount + 10
  BY <1>1, <1>2 DEF Rest
<1>4. Turns \in Nat
  <2>1. Cardinality(InUse) \in Nat /\ Cardinality(InUse) + 1 \in Nat
    BY <1>2, InUseFinite
  <2> QED BY <1>1, <1>2, <2>1 DEF Turns
<1>5. Turn \in Nat
  BY <1>1 DEF Turn
<1>6. Turns * Turn + Rest \in Nat
  <2> HIDE DEF Turn, Turns, Rest
  <2> QED BY <1>1, <1>3, <1>4, <1>5
<1> QED BY <1>1, <1>3, <1>4, <1>5, <1>6 DEF Work

(* A step that ends a call, that goes on through one turn, or that begins  *)
(* the next.                                                               *)
LEMMA WorkFalls ==
  ASSUME TypeInv, TypeInv',
         \/ Turns' <= Turns /\ Rest' < Rest
         \/ Turns' < Turns
  PROVE  Work' < Work
<1>1. /\ Rest \in 0 .. FatCount + 10 /\ Turns \in Nat /\ Turn \in Nat /\ FatCount \in Nat
  BY WorkType
<1>2. (TypeInv => Rest \in 0 .. FatCount + 10 /\ Turns \in Nat)'
  BY WorkType, PTL
<1>3. Rest' < Rest \/ Rest' < Rest + Turn
  BY <1>1, <1>2 DEF Turn
<1>4. Work = Turns * Turn + Rest /\ Work' = Turns' * Turn + Rest'
  BY DEF Work, Turn
<1> DEFINE a == Turns  b == Turns'  r == Rest  s == Rest'  m == Turn
<1>5. /\ m \in Nat /\ a \in Nat /\ b \in Nat /\ r \in Nat /\ s \in Nat
      /\ \/ b <= a /\ s < r
         \/ b < a /\ s < r + m
  BY <1>1, <1>2, <1>3 DEF Turn
<1> HIDE DEF a, b, r, s, m
<1>6. b * m + s < a * m + r
  BY <1>5, Falls
<1> QED BY <1>4, <1>6 DEF a, b, r, s, m

(* A step that leaves the first copy and the loop's variables alone goes   *)
(* on through the turn.                                                    *)
LEMMA SameTurn ==
  ASSUME TypeInv, TypeInv', UNCHANGED <<disk, op, tries>>, Onward' = Onward, Rest' < Rest
  PROVE  Work' < Work
<1>1. Turns' = Turns /\ Turns \in Nat
  BY WorkType DEF Turns, InUse
<1> QED BY <1>1, WorkFalls

(* A step that returns: nothing is left of an idle call.                   *)
LEMMA NothingLeft ==
  ASSUME TypeInv, TypeInv', pc # "idle", ClearLocals
  PROVE  Work' < Work
<1>1. Turns' = 0 /\ Rest' = 0
  BY DEF ClearLocals, Turns, Rest
<1>2. Rest \in Nat /\ Rest # 0
  <2>1. FatCount \in Nat /\ copy \in 1 .. FatCount + 1
    BY GeometryAssumption DEF TypeInv, TypeOK
  <2>2. FatCount + 4 - copy # 0
    BY <2>1
  <2>3. Rest # 0
    BY <2>1, <2>2 DEF Rest
  <2> QED BY <2>3, WorkType
<1>3. Turns \in Nat
  BY WorkType
<1> QED BY <1>1, <1>2, <1>3, WorkFalls

(* The first write of a free takes the cluster out of use; the chain goes  *)
(* on only from a cluster that was in use.                                 *)
LEMMA WriteFalls ==
  ASSUME MapInv, TypeInv', SetWrite, op = "free" => faults' = 0 /\ disturbed = 0
  PROVE  Work' < Work
<1>t. TypeInv /\ TypeOK /\ TypeOK' /\ OpInv /\ Ind
  BY DEF MapInv, Ind, TypeInv
<1>1. /\ pc = "write" /\ pc' = "write" /\ copy' = copy + 1 /\ copy \in 1 .. FatCount
      /\ UNCHANGED <<op, tries, next, cl, val, disturbed>>
      /\ FatCount \in Nat
  BY <1>t, GeometryAssumption DEF SetWrite, TypeOK
<1>2. Rest' < Rest
  BY <1>1 DEF Rest
<1>3. CASE op # "free"
  <2>1. Turns' = Turns /\ Turns \in Nat
    BY <1>t, <1>1, <1>3, WorkType DEF Turns
  <2> QED BY <1>t, <1>2, <2>1, WorkFalls
<1>4. CASE op = "free" /\ copy # 1
  <2>1. \A i \in Index : disk'[1][i] = disk[1][i]
    BY <1>t, <1>4, FirstWrite
  <2>2. InUse' = InUse
    BY <2>1, Geometry DEF InUse
  <2>3. Onward' = Onward
    BY <1>1, <1>4 DEF Onward, Effective
  <2>4. Turns' = Turns /\ Turns \in Nat
    BY <1>t, <1>1, <2>2, <2>3, WorkType DEF Turns
  <2> QED BY <1>t, <1>2, <2>4, WorkFalls
<1>5. CASE op = "free" /\ copy = 1
  <2>1. faults = 0 /\ Progress
    <3>1. faults = 0
      BY <1>t, <1>5 DEF SetWrite, TypeOK
    <3> QED BY <1>5, <3>1 DEF MapInv
  <2>2. val = Free /\ next = disk[1][cl] /\ cl \in Clusters
    BY <1>t, <1>1, <1>5, <2>1 DEF Progress, Before, TypeOK
  <2>3. \A i \in Index : disk'[1][i] = IF i = cl THEN Free ELSE disk[1][i]
    BY <1>t, <1>5, <2>2, FirstWrite
  <2>4. InUse' = InUse \ {cl}
    BY <2>3, Geometry DEF InUse
  <2>5. ~ Onward /\ (Onward' <=> InChain(next))
    BY <1>1, <1>5 DEF Onward, Effective, InChain
  <2>6. IsFiniteSet(InUse) /\ Cardinality(InUse) \in Nat
    BY <1>t, InUseFinite
  <2>7. Cardinality(InUse') = IF cl \in InUse THEN Cardinality(InUse) - 1 ELSE Cardinality(InUse)
    BY <2>4, <2>6, FS_RemoveElement
  <2>8. InChain(next) => cl \in InUse
    BY <2>2 DEF InUse, InChain, Free
  <2>9. Turns = Cardinality(InUse) /\ Turns' = Cardinality(InUse') + (IF InChain(next) THEN 1 ELSE 0)
    BY <1>1, <1>5, <2>5, <2>6 DEF Turns
  <2>10. Turns' <= Turns
    BY <2>6, <2>7, <2>8, <2>9
  <2> QED BY <1>t, <1>2, <2>10, WorkFalls
<1> QED BY <1>3, <1>4, <1>5

LEMMA StepFalls ==
  ASSUME MapInv, TypeInv', Step, op = "free" => faults' = 0 /\ disturbed = 0
  PROVE  Work' < Work
<1>t. TypeInv /\ OpInv /\ FatCount \in Nat /\ TotalClusters \in Nat
      /\ copy \in 1 .. FatCount + 1 /\ tries \in 0 .. TotalClusters
  BY GeometryAssumption DEF MapInv, Ind, TypeInv, TypeOK
<1>1. CASE GotGet \/ TryNoMore \/ Done
  <2>1. pc # "idle" /\ ClearLocals
    BY <1>1 DEF GotGet, TryNoMore, Done, Return
  <2> QED BY <1>t, <2>1, NothingLeft
<1>2. CASE GetCheck \/ GetFill \/ GetTag \/ GetLoad \/ GotFree \/ Try
  <2>1. UNCHANGED <<disk, op, tries>> /\ Onward' = Onward
    BY <1>2 DEF GetCheck, GetFill, GetTag, GetLoad, GotFree, Try, call, Onward, Effective
  <2>2. Rest' < Rest
    BY <1>t, <1>2 DEF GetCheck, GetFill, GetTag, GetLoad, GotFree, Try, Rest
  <2> QED BY <1>t, <2>1, <2>2, SameTurn
<1>3. CASE GotAlloc
  <2>1. CASE val = Free
    <3>1. UNCHANGED <<disk, op, tries>> /\ Onward' = Onward
      BY <1>3, <2>1 DEF GotAlloc, Onward, Effective
    <3>2. Rest' < Rest
      BY <1>t, <1>3, <2>1 DEF GotAlloc, Rest
    <3> QED BY <1>t, <3>1, <3>2, SameTurn
  <2>2. CASE val # Free
    <3>1. op = "alloc" /\ op' = "alloc" /\ tries' = tries + 1
      BY <1>3, <2>2 DEF GotAlloc
    <3>2. Turns' < Turns
      BY <1>t, <3>1 DEF Turns
    <3> QED BY <1>t, <3>2, WorkFalls
  <2> QED BY <2>1, <2>2
<1>4. CASE SetRead
  <2>1. UNCHANGED <<disk, op, tries>> /\ Onward' = Onward
    BY <1>4 DEF SetRead, Onward, Effective
  <2>2. Rest' < Rest
    BY <1>t, <1>4 DEF SetRead, Rest
  <2> QED BY <1>t, <2>1, <2>2, SameTurn
<1>5. CASE SetWrite
  BY <1>5, WriteFalls
<1>6. CASE SetTest \/ SetPatch
  <2>1. UNCHANGED <<disk, op, tries>> /\ Onward' = Onward
    BY <1>t, <1>6, GeometryAssumption DEF SetTest, SetPatch, call, Onward, Effective
  <2>2. Rest' < Rest
    BY <1>t, <1>6 DEF SetTest, SetPatch, call, Rest
  <2> QED BY <1>t, <2>1, <2>2, SameTurn
<1>7. CASE DoneFree
  <2>1. op = "free" /\ op' = "free" /\ disk' = disk /\ Onward /\ ~ Onward'
    BY <1>7 DEF DoneFree, Onward, Effective
  <2>2. Cardinality(InUse) \in Nat /\ InUse' = InUse
    BY <1>t, <2>1, InUseFinite DEF TypeInv, InUse
  <2>3. Turns' < Turns
    BY <2>1, <2>2 DEF Turns
  <2> QED BY <1>t, <2>3, WorkFalls
<1> QED BY <1>1, <1>2, <1>3, <1>4, <1>5, <1>6, <1>7 DEF Step

LessIsLeft ==
  /\ Step /\ (op = "free" => faults' = 0 /\ disturbed = 0) => Work' < Work
  /\ AudioInterrupt => Work' = Work

(* Every call takes finitely many steps, on any table, cyclic chains       *)
(* included: each statement lowers a natural number that the interrupts of *)
(* the music leave as it is, an allocation because it tries each cluster   *)
(* once, a free because it clears the entry it goes on from.  For a free   *)
(* this needs that no read or write of a sector has failed and that no     *)
(* interrupt refilled the cache in the middle of a call: it goes on from   *)
(* the entry it has read, which is then still the one it clears            *)
(* (fat32.c:142-230).                                                      *)
THEOREM CallsAreFinite ==
  Spec => /\ [](Work \in Nat)
          /\ [][LessIsLeft]_vars
<1>1. MapInv => Work \in Nat
  BY WorkType DEF MapInv, Ind
<1>2. AudioInterrupt => Work' = Work
  BY DEF AudioInterrupt, call, Work, Turns, Turn, Rest, InUse, Onward, Effective
<1>3. MapInv /\ MapInv' /\ [Next]_vars => [LessIsLeft]_vars
  BY <1>2, StepFalls DEF MapInv, Ind, LessIsLeft
<1> QED BY <1>1, <1>3, MapInvInit, MapInvStep, PTL DEF Spec
=============================================================================
