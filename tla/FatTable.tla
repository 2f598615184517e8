----------------------------- MODULE FatTable -----------------------------
(***************************************************************************)
(* The allocation table of kernel/fat32.c: fat32_get_next_cluster,         *)
(* fat32_set_fat_entry, fat32_alloc_cluster and fat32_free_chain, one step *)
(* for each sector they read or write and each global they test or set.    *)
(*                                                                         *)
(* The table lies on the disk in several copies, sector by sector.  Reads  *)
(* go through a cache of one sector of the first copy, g_fat_cache, with   *)
(* the sector's number in g_fat_cache_sector; a write reads the sector     *)
(* afresh, changes one entry, writes it to every copy, and patches the     *)
(* cache if that sector is in it.                                          *)
(*                                                                         *)
(* While a WAV file plays, the Sound Blaster interrupts between any two of *)
(* these steps, and sb16_irq5_handler reads the table through the same     *)
(* cache to find the next cluster of the file.                             *)
(***************************************************************************)
EXTENDS Integers, FiniteSets

CONSTANTS
  TotalClusters,     \* g_total_clusters
  EntriesPerSector,  \* g_bytes_per_sector / 4
  FatSectors,        \* g_sectors_per_fat32
  FatCount,          \* g_fat_count
  AudioClusters,     \* the clusters of the WAV file that may be playing
  MaxMishaps         \* bound on the power losses, the failing reads and writes
                     \* and the interrupts during a call of one behaviour

Free   == 0            \* FAT32_FREE_CLUSTER
Eoc    == 268435455    \* 0x0FFFFFFF
EocMin == 268435448    \* FAT32_EOC_MIN
NoSector == -1         \* 0xFFFFFFFF

Clusters == 2 .. TotalClusters + 1
Copies   == 1 .. FatCount
Sectors  == 0 .. FatSectors - 1
Offsets  == 0 .. EntriesPerSector - 1
Index    == 0 .. FatSectors * EntriesPerSector - 1
Links    == Clusters \cup {Free, Eoc}

ASSUME GeometryAssumption ==
  /\ TotalClusters \in Nat \ {0}
  /\ EntriesPerSector \in Nat \ {0}
  /\ FatSectors \in Nat \ {0}
  /\ FatCount \in Nat \ {0}
  /\ TotalClusters + 1 < FatSectors * EntriesPerSector
  /\ TotalClusters + 1 < EocMin

ASSUME BoundAssumption ==
  /\ AudioClusters \subseteq Clusters
  /\ MaxMishaps \in Nat

VARIABLES
  disk,      \* the copies of the table
  tag,       \* g_fat_cache_sector
  cache,     \* g_fat_cache
  hint,      \* g_alloc_hint
  pc,        \* the statement that comes next
  op,        \* the function that was called: get, set, alloc or free
  cl,        \* its cluster
  val,       \* the value to set, or the one fat32_get_next_cluster read
  buf,       \* sector_buf of fat32_set_fat_entry
  copy,      \* f, the copy to write next
  tries,     \* tries of fat32_alloc_cluster
  next,      \* next of fat32_free_chain
  reply,     \* what the last call returned
  crashes,   \* number of power losses so far
  faults,    \* number of sector accesses of fat32_set_fat_entry that failed
  misread,   \* one of those was the read of the sector it then wrote
  disturbed  \* how often since power-on an interrupt refilled the cache during
             \* a call, or a read into it failed

call    == <<op, cl, val, buf, copy, tries, next>>
Mishaps == crashes + faults + disturbed

history == <<crashes, faults, misread, disturbed>>
vars    == <<disk, tag, cache, hint, pc, call, reply, history>>

SectorOf(c) == c \div EntriesPerSector
OffsetOf(c) == c % EntriesPerSector
At(s, o)    == s * EntriesPerSector + o
SectorData(f, s) == [o \in Offsets |-> disk[f][At(s, o)]]

InChain(c) == c >= 2 /\ c < EocMin
After_NoWrap(c) == c + 1
After(c)   == IF c + 1 >= TotalClusters + 2 THEN 2 ELSE c + 1

-----------------------------------------------------------------------------
(* A mounted volume whose copies agree, with any table: the chains need    *)
(* not be well formed.  What lies beyond the last cluster is not used.     *)
Init ==
  /\ \E t \in [Clusters -> Links] :
       disk = [f \in Copies |-> [i \in Index |-> IF i \in Clusters THEN t[i] ELSE Eoc]]
  /\ tag = NoSector
  /\ cache = [o \in Offsets |-> 0]
  /\ hint = 2
  /\ pc = "idle" /\ op = "none"
  /\ cl = 0 /\ val = 0 /\ buf = [o \in Offsets |-> 0] /\ copy = 1
  /\ tries = 0 /\ next = 0
  /\ reply = 0
  /\ crashes = 0 /\ faults = 0 /\ misread = FALSE /\ disturbed = 0

(* The locals of a call are dead once it has returned.                     *)
ClearLocals ==
  /\ pc' = "idle" /\ op' = "none"
  /\ cl' = 0 /\ val' = 0 /\ buf' = [o \in Offsets |-> 0] /\ copy' = 1
  /\ tries' = 0 /\ next' = 0
Return(r) == ClearLocals /\ reply' = r

(* The four functions, as the rest of the driver calls them: it links a    *)
(* cluster to another or ends a chain in it.                               *)
CallGet(c) ==
  /\ pc = "idle"
  /\ pc' = "check" /\ op' = "get" /\ cl' = c /\ reply' = 0
  /\ UNCHANGED <<disk, tag, cache, hint, val, buf, copy, tries, next, history>>
CallSet(c, v) ==
  /\ pc = "idle" /\ v # c
  /\ pc' = "read" /\ op' = "set" /\ cl' = c /\ val' = v /\ reply' = 0
  /\ UNCHANGED <<disk, tag, cache, hint, buf, copy, tries, next, history>>
CallFree(c) ==
  /\ pc = "idle"
  /\ pc' = "check" /\ op' = "free" /\ cl' = c /\ reply' = 0
  /\ UNCHANGED <<disk, tag, cache, hint, val, buf, copy, tries, next, history>>
CallAlloc ==
  /\ pc = "idle"
  /\ pc' = "try" /\ op' = "alloc" /\ reply' = 0
  /\ UNCHANGED <<disk, tag, cache, hint, cl, val, buf, copy, tries, next, history>>

-----------------------------------------------------------------------------
(* fat32_get_next_cluster(cl): the test of the cache, the read into it,    *)
(* the new number, and the load of the entry.  read_sector may give up     *)
(* (fat12.c:26-41) and does not say so: what the cache held is then taken  *)
(* for the sector.                                                         *)
GetCheck ==
  /\ pc = "check"
  /\ pc' = IF tag # SectorOf(cl) THEN "fill" ELSE "load"
  /\ UNCHANGED <<disk, tag, cache, hint, call, reply, history>>
GetFill ==
  /\ pc = "fill"
  /\ \/ cache' = SectorData(1, SectorOf(cl)) /\ UNCHANGED disturbed
     \/ Mishaps < MaxMishaps /\ disturbed' = disturbed + 1 /\ UNCHANGED cache
  /\ pc' = "tag"
  /\ UNCHANGED <<disk, tag, hint, call, reply, crashes, faults, misread>>
GetTag ==
  /\ pc = "tag"
  /\ tag' = SectorOf(cl)
  /\ pc' = "load"
  /\ UNCHANGED <<disk, cache, hint, call, reply, history>>
GetLoad ==
  /\ pc = "load"
  /\ val' = cache[OffsetOf(cl)]
  /\ pc' = "got"
  /\ UNCHANGED <<disk, tag, cache, hint, op, cl, buf, copy, tries, next, reply, history>>

(* What the caller of fat32_get_next_cluster does with the result.         *)
GotGet == pc = "got" /\ op = "get" /\ Return(val) /\ UNCHANGED <<disk, tag, cache, hint, history>>
GotFree ==
  /\ pc = "got" /\ op = "free"
  /\ next' = val /\ val' = Free
  /\ pc' = "read"
  /\ UNCHANGED <<disk, tag, cache, hint, op, cl, buf, copy, tries, reply, history>>
GotAlloc_Uncounted ==
  /\ pc = "got" /\ op = "alloc"
  /\ IF val = Free THEN pc' = "read" /\ val' = Eoc ELSE pc' = "try" /\ val' = 0
  /\ UNCHANGED <<disk, tag, cache, hint, op, cl, buf, copy, tries, next, reply, history>>
GotAlloc ==
  /\ pc = "got" /\ op = "alloc"
  /\ IF val = Free
     THEN pc' = "read" /\ val' = Eoc /\ UNCHANGED tries
     ELSE pc' = "try" /\ val' = 0 /\ tries' = tries + 1
  /\ UNCHANGED <<disk, tag, cache, hint, op, cl, buf, copy, next, reply, history>>

(* fat32_alloc_cluster: one turn of its loop up to the read of the entry,  *)
(* and its end.                                                            *)
Try ==
  /\ pc = "try" /\ tries < TotalClusters
  /\ cl' = hint
  /\ hint' = After(hint)
  /\ pc' = "check"
  /\ UNCHANGED <<disk, tag, cache, op, val, buf, copy, tries, next, reply, history>>
TryNoMore ==
  /\ pc = "try" /\ tries >= TotalClusters
  /\ Return(0)
  /\ UNCHANGED <<disk, tag, cache, hint, history>>

-----------------------------------------------------------------------------
(* fat32_set_fat_entry(cl, val): read the sector of the first copy, write  *)
(* it with the new entry to every copy, patch the cache.                   *)
SetRead_Cached ==
  /\ pc = "read"
  /\ buf' = [cache EXCEPT ![OffsetOf(cl)] = val]
  /\ copy' = 1
  /\ pc' = "write"
  /\ UNCHANGED <<disk, tag, cache, hint, op, cl, val, tries, next, reply, history>>
(* If read_sector gives up, sector_buf is what was on the stack, and the   *)
(* entries next to the one being set are any (here: any of the volume).    *)
SetRead ==
  /\ pc = "read"
  /\ \/ /\ buf' = [SectorData(1, SectorOf(cl)) EXCEPT ![OffsetOf(cl)] = val]
        /\ UNCHANGED <<faults, misread>>
     \/ /\ Mishaps < MaxMishaps
        /\ faults' = faults + 1 /\ misread' = TRUE
        /\ \E garbage \in [Offsets -> Links] : buf' = [garbage EXCEPT ![OffsetOf(cl)] = val]
  /\ copy' = 1
  /\ pc' = "write"
  /\ UNCHANGED <<disk, tag, cache, hint, op, cl, val, tries, next, reply, crashes, disturbed>>

Written(t, s) == [i \in Index |-> IF SectorOf(i) = s THEN buf[OffsetOf(i)] ELSE t[i]]
SetWrite_FirstOnly ==
  /\ pc = "write" /\ copy <= FatCount
  /\ disk' = [disk EXCEPT ![1] = Written(disk[1], SectorOf(cl))]
  /\ copy' = copy + 1
  /\ UNCHANGED <<tag, cache, hint, pc, op, cl, val, buf, tries, next, reply, history>>
SetWrite ==
  /\ pc = "write" /\ copy <= FatCount
  /\ \/ /\ disk' = [disk EXCEPT ![copy] = Written(disk[copy], SectorOf(cl))]
        /\ UNCHANGED faults
     \/ /\ Mishaps < MaxMishaps
        /\ faults' = faults + 1
        /\ UNCHANGED disk
  /\ copy' = copy + 1
  /\ UNCHANGED <<tag, cache, hint, pc, op, cl, val, buf, tries, next, reply, crashes, misread, disturbed>>
SetTest_NoPatch ==
  /\ pc = "write" /\ copy > FatCount
  /\ pc' = "done"
  /\ UNCHANGED <<disk, tag, cache, hint, call, reply, history>>
SetTest ==
  /\ pc = "write" /\ copy > FatCount
  /\ pc' = IF tag = SectorOf(cl) THEN "patch" ELSE "done"
  /\ UNCHANGED <<disk, tag, cache, hint, call, reply, history>>
SetPatch ==
  /\ pc = "patch"
  /\ cache' = [cache EXCEPT ![OffsetOf(cl)] = val]
  /\ pc' = "done"
  /\ UNCHANGED <<disk, tag, hint, call, reply, history>>

(* Back in the caller of fat32_set_fat_entry; fat32_free_chain goes on     *)
(* while the cluster that followed is one.                                 *)
DoneFree ==
  /\ pc = "done" /\ op = "free" /\ InChain(next)
  /\ cl' = next /\ next' = 0 /\ val' = 0 /\ copy' = 1 /\ buf' = [o \in Offsets |-> 0]
  /\ pc' = "check"
  /\ UNCHANGED <<disk, tag, cache, hint, op, tries, reply, history>>
Done ==
  /\ pc = "done" /\ ~ (op = "free" /\ InChain(next))
  /\ Return(IF op = "alloc" THEN cl ELSE 0)
  /\ UNCHANGED <<disk, tag, cache, hint, history>>

-----------------------------------------------------------------------------
(* sb16_irq5_handler calls fat32_get_next_cluster for a cluster of the     *)
(* file it plays; it runs to its end before the interrupted call goes on.  *)
AudioInterrupt ==
  /\ \E c \in AudioClusters :
       /\ tag # SectorOf(c)
       /\ cache' \in {SectorData(1, SectorOf(c)), cache}
       /\ tag' = SectorOf(c)
       /\ IF pc = "idle" /\ cache' = SectorData(1, SectorOf(c))
          THEN UNCHANGED disturbed
          ELSE Mishaps < MaxMishaps /\ disturbed' = disturbed + 1
  /\ UNCHANGED <<disk, hint, pc, call, reply, crashes, faults, misread>>

(* Power loss between any two steps; fat32_init starts with no cache.       *)
Crash ==
  /\ Mishaps < MaxMishaps
  /\ crashes' = crashes + 1
  /\ tag' = NoSector /\ cache' = [o \in Offsets |-> 0] /\ disturbed' = 0
  /\ hint' = 2
  /\ Return(0)
  /\ UNCHANGED <<disk, faults, misread>>

-----------------------------------------------------------------------------
Step ==
  \/ GetCheck \/ GetFill \/ GetTag \/ GetLoad
  \/ GotGet \/ GotFree \/ GotAlloc
  \/ Try \/ TryNoMore
  \/ SetRead \/ SetWrite \/ SetTest \/ SetPatch
  \/ DoneFree \/ Done

Call ==
  \/ \E c \in Clusters : CallGet(c) \/ CallFree(c) \/ \E v \in Clusters \cup {Eoc} : CallSet(c, v)
  \/ CallAlloc

Next == Call \/ Step \/ AudioInterrupt \/ Crash

Spec == Init /\ [][Next]_vars

(* The processor runs on: interrupts take a bounded part of its time.      *)
FairSpec == Spec /\ WF_vars(Step)

-----------------------------------------------------------------------------
PCs == {"idle", "check", "fill", "tag", "load", "got", "try", "read", "write",
        "patch", "done"}

(* Every variable stays in its range; with it, no table index outside the  *)
(* volume is ever read or written (as long as what SetRead finds on the    *)
(* stack after a failing read is of the volume).                           *)
TypeOK ==
  /\ disk \in [Copies -> [Index -> Links]]
  /\ tag \in Sectors \cup {NoSector}
  /\ cache \in [Offsets -> Links]
  /\ hint \in Clusters
  /\ pc \in PCs
  /\ op \in {"none", "get", "set", "alloc", "free"}
  /\ cl \in Clusters \cup {0}
  /\ (pc \notin {"idle", "try"} => cl \in Clusters)
  /\ val \in Links
  /\ buf \in [Offsets -> Links]
  /\ copy \in 1 .. FatCount + 1
  /\ tries \in 0 .. TotalClusters
  /\ next \in Links
  /\ reply \in Links
  /\ crashes \in 0 .. MaxMishaps
  /\ faults \in 0 .. MaxMishaps
  /\ misread \in BOOLEAN
  /\ disturbed \in 0 .. MaxMishaps

(* The cache shows the sector of the first copy it is tagged with, except  *)
(* while it is being filled, and in the entry a call in progress has       *)
(* written and not yet patched.  A read or write that fails leaves it      *)
(* wrong.                                                                  *)
Unpatched(i) == (pc = "write" \/ pc = "patch") /\ i = cl
CacheCoherent ==
  disturbed = 0 /\ faults = 0 =>
    \A i \in Index : SectorOf(i) = tag /\ pc # "tag" =>
      \/ cache[OffsetOf(i)] = disk[1][i]
      \/ Unpatched(i)

(* The copies of the table agree between calls, and in the middle of one   *)
(* they differ in no more than the entry it is setting.                    *)
MirrorsAgree ==
  crashes = 0 /\ faults = 0 =>
    \A f, g \in Copies : \A i \in Index :
      disk[f][i] # disk[g][i] => pc = "write" /\ i = cl

(* The cache and the copies show one table, as far as the faults and the   *)
(* music allow: an interrupt between two calls does no harm                *)
(* (fat32_get_next_cluster and fat32_set_fat_entry, fat32.c:142-178).      *)
Coherent == CacheCoherent /\ MirrorsAgree

(* A power loss or a failing write leaves the copies of the table          *)
(* different in at most one entry, and nothing done later spreads the      *)
(* difference, whatever the interrupt handler reads meanwhile and however  *)
(* often a read into the cache fails: a set starts from the first copy and *)
(* writes it to all (fat32.c:161-173). That ends when a set could not read *)
(* that sector and writes out what it has in its place.                    *)
Differing == {i \in Index : \E f, g \in Copies : disk[f][i] # disk[g][i]}
MirrorsDifferLittle ==
  ~ misread =>
    Cardinality(Differing) <= crashes + faults + (IF pc = "write" THEN 1 ELSE 0)

(* Every call returns, on any table, cyclic chains included.               *)
CallsReturn == (pc # "idle") ~> (pc = "idle")

-----------------------------------------------------------------------------
(* The one map this implements: the first copy.  An allocation takes       *)
(* effect when it writes that copy, and so does a free of one cluster.     *)
Effective == pc \in {"write", "patch", "done"} /\ (pc = "write" => copy > 1)
Map == INSTANCE FatMap WITH
  map <- [c \in Clusters |-> disk[1][c]],
  damaged <- disturbed > 0 \/ faults > 0,
  call <- CASE op = "none" -> [op |-> "none"]
            [] op = "get" -> [op |-> "get", arg |-> cl]
            [] op = "set" -> [op |-> "set", arg |-> cl, val |-> val]
            [] op = "alloc" -> IF Effective THEN [op |-> "taken", arg |-> cl] ELSE [op |-> "alloc"]
            [] op = "free" -> [op |-> "free", arg |-> IF Effective THEN next ELSE cl]

(* The table behaves as one map, of which a power loss loses nothing.      *)
ImplementsMap == Map!Spec
=============================================================================
