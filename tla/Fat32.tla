------------------------------- MODULE Fat32 -------------------------------
(***************************************************************************)
(* The FAT32 driver of AiraOS, kernel/fat32.c: fat32_write_file,           *)
(* fat32_make_directory and fat32_change_directory over one mounted        *)
(* volume.                                                                 *)
(*                                                                         *)
(* The unit of atomicity is one write to the disk: between any two of them *)
(* the machine may lose power, and nothing in the driver orders them with  *)
(* a journal.  The three calls are therefore cut into steps, one for each  *)
(* FAT entry or cluster they write, with pc naming the statement that      *)
(* comes next.  Reads need no steps of their own, but a walk along a       *)
(* cluster chain takes one step per cluster, like the loops of the code.   *)
(*                                                                         *)
(* The allocation table is there twice: table, the copy on the disk that   *)
(* is read, and fat, what the driver reads, which differs from it when a   *)
(* write of the table failed and the cache was patched all the same        *)
(* (FatTable models the copies and the cache).  slot holds the 32-byte     *)
(* records that make up the clusters.  A record means what the last writer *)
(* put there: a cluster that is reused keeps its old records until it is   *)
(* overwritten.                                                            *)
(***************************************************************************)
EXTENDS Integers, FiniteSets

CONSTANTS
  TotalClusters,    \* g_total_clusters
  SlotsPerCluster,  \* g_cluster_size / 32: records in one cluster
  RootCluster,      \* g_root_cluster
  Names,            \* the names a user types
  ShortNames,       \* the 11-byte names a directory entry holds
  ShortOf,          \* to_short_name: Names -> ShortNames
  ExactNames,       \* names that read the same after to_short_name
  Sizes,            \* sizes of written files, in records
  Values,           \* contents of written files
  MaxCrashes,       \* bound on the number of power losses
  MaxFaults         \* bound on the number of failing sector writes

Free    == 0            \* FAT32_FREE_CLUSTER
Eoc     == 268435455    \* 0x0FFFFFFF
EocMin  == 268435448    \* FAT32_EOC_MIN
Dot     == "."
DotDot  == ".."

Clusters == 2 .. TotalClusters + 1
Indices  == 1 .. SlotsPerCluster
SlotIds  == Clusters \X Indices
NoSlot   == <<0, 0>>
NoCall   == [op |-> "none", name |-> Dot, key |-> Dot, size |-> 0, val |-> Dot]

ASSUME VolumeAssumption ==
  /\ TotalClusters \in Nat \ {0}
  /\ TotalClusters + 1 < EocMin
  /\ SlotsPerCluster \in Nat /\ SlotsPerCluster >= 2
  /\ RootCluster \in Clusters

ASSUME NameAssumption ==
  /\ ShortOf \in [Names -> ShortNames]
  /\ ExactNames \subseteq Names
  /\ Dot \notin ShortNames /\ DotDot \notin ShortNames

ASSUME InputAssumption ==
  /\ Sizes \subseteq Nat
  /\ MaxCrashes \in Nat
  /\ MaxFaults \in Nat

VARIABLES
  fat,     \* what fat32_get_next_cluster returns for each cluster
  table,   \* the first copy of the table on the disk
  slot,    \* the records of every cluster
  cwd,     \* g_current_dir_cluster
  hint,    \* g_alloc_hint
  pc,      \* the statement the running call executes next
  req,     \* the arguments of the running call
  ret,     \* what the call that has just ended returned
  found,   \* existing_lba/existing_off: the entry being overwritten
  target,  \* target_lba/target_off: where the new entry goes
  cur,     \* the cluster variable of the loop in progress
  last,    \* last_cluster_in_dir
  head,    \* first_cluster, or new_cluster of fat32_make_directory
  prev,    \* prev_cluster
  left,    \* clusters still to allocate, then records still to write
  torn,    \* history: a chain was freed under an entry that still names it,
           \* a directory was left with a cluster that was never cleared, or
           \* a write of the table failed
  crashes, \* number of power losses so far
  faults   \* number of failed sector writes so far

disk    == <<fat, table, slot>>
memory  == <<cwd, hint>>
locals  == <<found, target, cur, last, head, prev, left>>
history == <<torn, crashes, faults>>
vars    == <<disk, memory, pc, req, ret, locals, history>>

-----------------------------------------------------------------------------
(* Records of a cluster.                                                   *)

End            == [kind |-> "end"]       \* first byte 0x00
Deleted        == [kind |-> "deleted"]   \* first byte 0xE5
Chunk(v, i)    == [kind |-> "chunk", val |-> v, pos |-> i]
Entry(k, n, c, z) == [kind |-> k, name |-> n, first |-> c, size |-> z]

IsEntry(r) == r.kind \in {"file", "dir"}
IsVacant(r) == r.kind \in {"end", "deleted"}

Links   == Clusters \cup {Free, Eoc}
Records ==
  {End, Deleted}
    \cup [kind : {"chunk"}, val : Values, pos : Nat]
    \cup [kind : {"file", "dir"}, name : ShortNames \cup {Dot, DotDot},
          first : Clusters \cup {0}, size : Nat]

(* The loop condition of every walk: cluster >= 2 && cluster < EOC_MIN.    *)
InChain(c) == c >= 2 /\ c < EocMin

ClustersNeeded(size) == (size + SlotsPerCluster - 1) \div SlotsPerCluster

(* fat32_alloc_cluster tries the clusters from g_alloc_hint on, wrapping   *)
(* at the end of the volume: the one it takes is the nearest free one.     *)
Distance(c) == IF c >= hint THEN c - hint ELSE c - hint + TotalClusters
FreeClusters == {c \in Clusters : fat[c] = Free}
NearestFree == {c \in FreeClusters : \A d \in FreeClusters : Distance(c) <= Distance(d)}
After_NoWrap(c) == c + 1
After(c) == IF c + 1 >= TotalClusters + 2 THEN 2 ELSE c + 1

(* The entry of cluster c a scan stops at: the first one the call looks    *)
(* for, unless an end mark comes before it.                                *)
Sought(r) == IsEntry(r) /\ r.name = req.key
Hits(c) ==
  {m \in Indices : /\ Sought(slot[<<c, m>>])
                   /\ \A j \in 1 .. m - 1 : /\ slot[<<c, j>>].kind # "end"
                                            /\ ~ Sought(slot[<<c, j>>])}
Ended(c) == \E m \in Indices : slot[<<c, m>>].kind = "end"

(* The record of cluster c that fat32_scan_dir_raw returns in mode 1.      *)
Vacancies(c) ==
  {m \in Indices : /\ IsVacant(slot[<<c, m>>])
                   /\ \A j \in 1 .. m - 1 : ~ IsVacant(slot[<<c, j>>])}

(* The entry being overwritten names a chain that is no longer its own.    *)
Invalidated ==
  /\ found # NoSlot
  /\ IsEntry(slot[found]) /\ slot[found].first # 0
  /\ \/ pc = "free" /\ cur # slot[found].first
     \/ pc \in {"alloc", "link", "undo", "data", "entry"}

-----------------------------------------------------------------------------
(* The volume as mkfs.fat leaves it, mounted by fat32_init.  The first     *)
(* records of the root directory may be entries deleted elsewhere.         *)
Init ==
  /\ fat = [c \in Clusters |-> IF c = RootCluster THEN Eoc ELSE Free]
  /\ table = fat
  /\ \E d \in 0 .. SlotsPerCluster :
       slot = [s \in SlotIds |->
                 IF s[1] = RootCluster /\ s[2] <= d THEN Deleted ELSE End]
  /\ cwd = RootCluster
  /\ hint = 2
  /\ pc = "idle"
  /\ req = NoCall
  /\ ret = "none"
  /\ found = NoSlot /\ target = NoSlot
  /\ cur = 0 /\ last = 0 /\ head = 0 /\ prev = 0 /\ left = 0
  /\ torn = FALSE
  /\ crashes = 0
  /\ faults = 0

(* The C locals of a call are dead once it has returned.                   *)
ClearLocals ==
  /\ req' = NoCall
  /\ found' = NoSlot /\ target' = NoSlot
  /\ cur' = 0 /\ last' = 0 /\ head' = 0 /\ prev' = 0 /\ left' = 0

Return(r) ==
  /\ pc' = "idle"
  /\ ret' = r
  /\ ClearLocals

(* fat32_set_fat_entry: it does not look at what write_sector returns.     *)
(* When the write of the first copy fails, the entry is not on the disk,   *)
(* and the driver still reads the new value if the sector is in its cache. *)
SetFat(c, v) ==
  \/ /\ fat' = [fat EXCEPT ![c] = v] /\ table' = [table EXCEPT ![c] = v]
     /\ UNCHANGED <<torn, faults>>
  \/ /\ faults < MaxFaults
     /\ faults' = faults + 1
     /\ torn' = TRUE
     /\ fat' \in {fat, [fat EXCEPT ![c] = v]} /\ UNCHANGED table

(* fat32_write_cluster: the records of cluster c are replaced, or a sector *)
(* write fails, nothing after it is written, and the caller goes on.       *)
WriteCluster(c, new) ==
  \E k \in 0 .. SlotsPerCluster :
    /\ slot' = [s \in SlotIds |-> IF s[1] = c /\ s[2] <= k THEN new[s[2]] ELSE slot[s]]
    /\ IF k = SlotsPerCluster
       THEN UNCHANGED faults
       ELSE faults < MaxFaults /\ faults' = faults + 1

-----------------------------------------------------------------------------
(* fat32_write_file: arguments, short name, scan for an existing entry.    *)
WriteCall(n, z, v) ==
  /\ pc = "idle"
  /\ req' = [op |-> "write", name |-> n, key |-> ShortOf[n], size |-> z, val |-> v]
  /\ pc' = "find"
  /\ cur' = cwd
  /\ left' = ClustersNeeded(z)
  /\ ret' = "none"
  /\ UNCHANGED <<disk, memory, found, target, last, head, prev, history>>

(* fat32_change_directory: "." returns at once, ".." and other names are   *)
(* looked up.  The lookup compares the name as typed, so that a name       *)
(* to_short_name would alter matches no short entry.                       *)
CdCall(n) ==
  /\ pc = "idle"
  /\ \/ /\ n \in Names
        /\ req' = [op |-> "cd", name |-> n, key |-> IF n \in ExactNames THEN ShortOf[n] ELSE "",
                   size |-> 0, val |-> Dot]
     \/ /\ n = DotDot
        /\ req' = [op |-> "up", name |-> n, key |-> DotDot, size |-> 0, val |-> Dot]
  /\ pc' = "find"
  /\ cur' = cwd
  /\ ret' = "none"
  /\ UNCHANGED <<disk, memory, found, target, last, head, prev, left, history>>

EntersInto(e) == req.op = "up" \/ (req.op = "cd" /\ e.kind = "dir")

(* One cluster of the walk, in fat32_scan_dir_raw (mode 0) for a write and *)
(* in fat32_walk_dir for a change of directory: the entry is there.        *)
FindHit ==
  /\ pc = "find" /\ InChain(cur)
  /\ \E m \in Hits(cur) :
       LET e == slot[<<cur, m>>] IN
       \/ /\ req.op = "write"
          /\ found' = <<cur, m>>
          /\ IF e.first >= 2
             THEN pc' = "free" /\ cur' = e.first
             ELSE pc' = "alloc" /\ cur' = 0
          /\ UNCHANGED <<cwd, req, ret, target, last, head, prev, left>>
       \/ /\ EntersInto(e)
          /\ cwd' = IF e.first = 0 THEN RootCluster ELSE e.first
          /\ Return("ok")
       \/ /\ req.op # "write" /\ ~ EntersInto(e)
          /\ Return("fail")
          /\ UNCHANGED cwd
  /\ UNCHANGED <<disk, hint, history>>

FindNext_Stays ==
  /\ pc = "find" /\ InChain(cur)
  /\ Hits(cur) = {} /\ ~ Ended(cur)
  /\ last' = IF last = cur THEN 0 ELSE cur
  /\ UNCHANGED <<disk, memory, pc, req, ret, found, target, cur, head, prev, left, history>>

(* Neither the entry nor an end mark in this cluster: on to the next.      *)
FindNext ==
  /\ pc = "find" /\ InChain(cur)
  /\ Hits(cur) = {} /\ ~ Ended(cur)
  /\ cur' = fat[cur]
  /\ UNCHANGED <<disk, memory, pc, req, ret, found, target, last, head, prev, left, history>>

FindMiss ==
  /\ pc = "find"
  /\ InChain(cur) => Hits(cur) = {} /\ Ended(cur)
  /\ \/ /\ req.op = "write"
        /\ pc' = "alloc"
        /\ cur' = 0
        /\ UNCHANGED <<req, ret, found, target, last, head, prev, left>>
     \/ /\ req.op # "write"
        /\ Return("fail")
  /\ UNCHANGED <<disk, memory, history>>

(* fat32_free_chain, one cluster: the chain of an overwritten file, or the *)
(* new chain of a call that cannot be completed.                           *)
FreeStep ==
  /\ pc \in {"free", "undo"} /\ InChain(cur)
  /\ SetFat(cur, Free)
  /\ cur' = fat[cur]
  /\ UNCHANGED <<slot, memory, pc, req, ret, found, target, last, head, prev, left, crashes>>

FreeDone ==
  /\ pc \in {"free", "undo"} /\ ~ InChain(cur)
  /\ \/ /\ pc = "free"
        /\ pc' = "alloc"
        /\ cur' = 0
        /\ UNCHANGED <<req, ret, found, target, last, head, prev, left, torn>>
     \/ /\ pc = "undo"
        /\ Return("fail")
        /\ torn' = (torn \/ Invalidated)
  /\ UNCHANGED <<disk, memory, crashes, faults>>

(* The allocation loop: fat32_alloc_cluster, then the link from the        *)
(* previous cluster of the file.                                           *)
AllocFile ==
  /\ pc = "alloc" /\ left > 0
  /\ \E c \in NearestFree :
       /\ SetFat(c, Eoc)
       /\ hint' = After(c)
       /\ head' = IF head = 0 THEN c ELSE head
       /\ left' = left - 1
       /\ IF prev # 0
          THEN pc' = "link" /\ cur' = c /\ prev' = prev
          ELSE pc' = "alloc" /\ cur' = 0 /\ prev' = c
  /\ UNCHANGED <<slot, cwd, req, ret, found, target, last, crashes>>

LinkFile ==
  /\ pc = "link"
  /\ SetFat(prev, cur)
  /\ prev' = cur
  /\ pc' = "alloc"
  /\ cur' = 0
  /\ UNCHANGED <<slot, memory, req, ret, found, target, last, head, left, crashes>>

AllocFull_NoUndo ==
  /\ pc \in {"alloc", "extend"}
  /\ pc = "alloc" => left > 0
  /\ FreeClusters = {}
  /\ Return("fail")
  /\ torn' = (torn \/ Invalidated)
  /\ UNCHANGED <<disk, memory, crashes, faults>>

(* No free cluster: give back what this call allocated and return 0.       *)
AllocFull ==
  /\ \/ pc = "alloc" /\ left > 0
     \/ pc = "extend"
  /\ FreeClusters = {}
  /\ \/ /\ head # 0
        /\ pc' = "undo"
        /\ cur' = head
        /\ UNCHANGED <<req, ret, found, target, last, head, prev, left, torn>>
     \/ /\ head = 0
        /\ Return("fail")
        /\ torn' = (torn \/ Invalidated)
  /\ UNCHANGED <<disk, memory, crashes, faults>>

(* The chain is complete: its last entry is marked, and the data follows.  *)
SealFile ==
  /\ pc = "alloc" /\ left = 0
  /\ IF prev # 0 THEN SetFat(prev, Eoc) ELSE UNCHANGED <<fat, table, torn, faults>>
  /\ pc' = "data"
  /\ cur' = head
  /\ left' = req.size
  /\ UNCHANGED <<slot, memory, req, ret, found, target, last, head, prev, crashes>>

(* What fat32_get_next_cluster returns: of what is no cluster, after a     *)
(* failed write of the table, whatever the bytes off the table make.       *)
Following(c) == IF c \in Clusters THEN {fat[c]} ELSE Links

WriteData_FromStart ==
  /\ pc = "data" /\ cur >= 2 /\ left > 0
  /\ WriteCluster(cur, [i \in Indices |-> IF i <= left THEN Chunk(req.val, i) ELSE End])
  /\ left' = IF left < SlotsPerCluster THEN 0 ELSE left - SlotsPerCluster
  /\ cur' \in Following(cur)
  /\ UNCHANGED <<fat, table, memory, pc, req, ret, found, target, last, head, prev, torn, crashes>>

(* One cluster of data, padded with zeros, which read as end marks.  The   *)
(* loop goes on past an end of chain that a lost write left in the middle: *)
(* what it writes then lies outside the clusters.                          *)
WriteData ==
  /\ pc = "data" /\ cur >= 2 /\ left > 0
  /\ WriteCluster(cur, [i \in Indices |->
       IF i <= left THEN Chunk(req.val, req.size - left + i) ELSE End])
  /\ left' = IF left < SlotsPerCluster THEN 0 ELSE left - SlotsPerCluster
  /\ cur' \in Following(cur)
  /\ UNCHANGED <<fat, table, memory, pc, req, ret, found, target, last, head, prev, torn, crashes>>

DataDone_NewEntry ==
  /\ pc = "data" /\ ~ (cur >= 2 /\ left > 0)
  /\ pc' = "slot" /\ target' = NoSlot /\ cur' = cwd /\ last' = cwd
  /\ UNCHANGED <<disk, memory, req, ret, found, head, prev, left, history>>
DataDone ==
  /\ pc = "data" /\ ~ (cur >= 2 /\ left > 0)
  /\ IF found # NoSlot
     THEN pc' = "entry" /\ target' = found /\ cur' = 0 /\ last' = 0
     ELSE pc' = "slot" /\ target' = NoSlot /\ cur' = cwd /\ last' = cwd
  /\ UNCHANGED <<disk, memory, req, ret, found, head, prev, left, history>>

-----------------------------------------------------------------------------
(* fat32_make_directory: a cluster for the directory, marked as the end of *)
(* its chain (by fat32_alloc_cluster, and once more by the caller), ...    *)
MkdirCall(n) ==
  /\ pc = "idle"
  /\ \/ /\ FreeClusters = {}
        /\ Return("fail")
        /\ UNCHANGED <<fat, table, hint, torn, faults>>
     \/ \E c \in NearestFree :
          /\ SetFat(c, Eoc)
          /\ hint' = After(c)
          /\ head' = c
          /\ req' = [op |-> "mkdir", name |-> n, key |-> ShortOf[n], size |-> 0, val |-> Dot]
          /\ ret' = "none"
          /\ pc' = "dots"
          /\ UNCHANGED <<found, target, cur, last, prev, left>>
  /\ UNCHANGED <<slot, cwd, crashes>>

(* ... then its "." and ".." entries.                                      *)
WriteDots ==
  /\ pc = "dots"
  /\ WriteCluster(head, [i \in Indices |->
       CASE i = 1 -> Entry("dir", Dot, head, 0)
         [] i = 2 -> Entry("dir", DotDot, IF cwd = RootCluster THEN 0 ELSE cwd, 0)
         [] OTHER -> End])
  /\ torn' = (torn \/ faults' # faults)
  /\ pc' = "slot"
  /\ cur' = cwd /\ last' = cwd
  /\ UNCHANGED <<fat, table, memory, req, ret, found, target, head, prev, left, crashes>>

-----------------------------------------------------------------------------
(* Both calls: fat32_scan_dir_raw in mode 1, one cluster per step.         *)
SlotHit ==
  /\ pc = "slot" /\ InChain(cur)
  /\ \E m \in Vacancies(cur) : target' = <<cur, m>>
  /\ last' = cur
  /\ pc' = "entry"
  /\ UNCHANGED <<disk, memory, req, ret, found, cur, head, prev, left, history>>

SlotNext ==
  /\ pc = "slot" /\ InChain(cur)
  /\ Vacancies(cur) = {}
  /\ last' = cur
  /\ cur' = fat[cur]
  /\ UNCHANGED <<disk, memory, pc, req, ret, found, target, head, prev, left, history>>

SlotMiss ==
  /\ pc = "slot" /\ ~ InChain(cur)
  /\ pc' = "extend"
  /\ cur' = 0
  /\ UNCHANGED <<disk, memory, req, ret, found, target, last, head, prev, left, history>>

(* The directory is full: allocate a cluster, append it to the chain of    *)
(* the directory, and only then clear it.                                  *)
Extend ==
  /\ pc = "extend"
  /\ \E c \in NearestFree :
       /\ SetFat(c, Eoc)
       /\ hint' = After(c)
       /\ cur' = c
  /\ pc' = "elink"
  /\ UNCHANGED <<slot, cwd, req, ret, found, target, last, head, prev, left, crashes>>

(* Each of the two entries may fail to be written, like SetFat's.          *)
Linked(f, but) ==
  [f EXCEPT ![last] = IF last \in but THEN @ ELSE cur, ![cur] = IF cur \in but THEN @ ELSE Eoc]
LinkDir ==
  /\ pc = "elink"
  /\ \E lost \in SUBSET {last, cur} :
       /\ faults' = faults + Cardinality(lost) /\ faults' <= MaxFaults
       /\ torn' = (torn \/ lost # {})
       /\ table' = Linked(table, lost)
       /\ \E unseen \in SUBSET lost : fat' = Linked(fat, unseen)
  /\ pc' = "clear"
  /\ UNCHANGED <<slot, memory, req, ret, locals, crashes>>

ClearDir ==
  /\ pc = "clear"
  /\ WriteCluster(cur, [i \in Indices |-> End])
  /\ torn' = (torn \/ faults' # faults)
  /\ target' = <<cur, 1>>
  /\ pc' = "entry"
  /\ UNCHANGED <<fat, table, memory, req, ret, found, cur, last, head, prev, left, crashes>>

(* The entry is written into its sector; the other records of the sector   *)
(* were just read and are written back.  A failing write goes unnoticed.   *)
WriteEntry ==
  /\ pc = "entry"
  /\ LET new == Entry(IF req.op = "mkdir" THEN "dir" ELSE "file", req.key, head, req.size) IN
     \/ /\ slot' = [slot EXCEPT ![target] = new]
        /\ UNCHANGED <<torn, faults>>
     \/ /\ faults < MaxFaults
        /\ faults' = faults + 1
        /\ torn' = (torn \/ Invalidated)
        /\ UNCHANGED slot
  /\ Return("ok")
  /\ UNCHANGED <<fat, table, memory, crashes>>

(* The cached sector makes room for another, by a lookup here or for the   *)
(* music: when it is read again, it is what is on the disk.                *)
Reload ==
  /\ fat # table
  /\ fat' = table
  /\ UNCHANGED <<table, slot, memory, pc, req, ret, locals, history>>

(* Power loss or reset at any moment: memory is gone, and fat32_init       *)
(* mounts what is on the disk.                                             *)
Crash ==
  /\ crashes < MaxCrashes
  /\ crashes' = crashes + 1
  /\ cwd' = RootCluster
  /\ hint' = 2
  /\ torn' = (torn \/ Invalidated \/ pc = "clear")
  /\ Return("none")
  /\ fat' = table
  /\ UNCHANGED <<table, slot, faults>>

-----------------------------------------------------------------------------
Step ==
  \/ FindHit \/ FindNext \/ FindMiss
  \/ FreeStep \/ FreeDone
  \/ AllocFile \/ LinkFile \/ AllocFull \/ SealFile
  \/ WriteData \/ DataDone
  \/ WriteDots
  \/ SlotHit \/ SlotNext \/ SlotMiss
  \/ Extend \/ LinkDir \/ ClearDir
  \/ WriteEntry

Call ==
  \/ \E n \in Names, z \in Sizes, v \in Values : WriteCall(n, z, v)
  \/ \E n \in Names : MkdirCall(n)
  \/ \E n \in Names \cup {DotDot} : CdCall(n)

Next == Call \/ Step \/ Reload \/ Crash

Spec == Init /\ [][Next]_vars

(* The kernel is single-threaded here: a call in progress keeps executing. *)
FairSpec == Spec /\ WF_vars(Step)

-----------------------------------------------------------------------------
PCs == {"idle", "find", "free", "alloc", "link", "undo", "data", "dots",
        "slot", "extend", "elink", "clear", "entry"}

(* Every variable stays in its range: in particular every FAT entry is a   *)
(* cluster of the volume, free, or an end of chain, and every record is    *)
(* one the driver wrote.                                                   *)
TypeOK ==
  /\ fat \in [Clusters -> Links]
  /\ table \in [Clusters -> Links]
  /\ slot \in [SlotIds -> Records]
  /\ cwd \in Clusters
  /\ hint \in Clusters
  /\ pc \in PCs
  /\ req \in [op : {"none", "write", "mkdir", "cd", "up"}, name : Names \cup {Dot, DotDot},
             key : ShortNames \cup {"", Dot, DotDot}, size : Nat, val : Values \cup {Dot}]
  /\ ret \in {"none", "ok", "fail"}
  /\ found \in SlotIds \cup {NoSlot}
  /\ target \in SlotIds \cup {NoSlot}
  /\ cur \in Links
  /\ last \in Clusters \cup {0}
  /\ head \in Clusters \cup {0}
  /\ prev \in Clusters \cup {0}
  /\ left \in Nat
  /\ torn \in BOOLEAN
  /\ crashes \in 0 .. MaxCrashes
  /\ faults \in 0 .. MaxFaults
=============================================================================
