---------------------------- MODULE Fat32Proofs ----------------------------
(***************************************************************************)
(* The volumes of kernel/fat32.c stay sound, for any number of clusters,   *)
(* records in a cluster, names, sizes, power losses and failing writes of  *)
(* data and entries, until an overwrite is cut short or a write of the     *)
(* table fails.                                                            *)
(*                                                                         *)
(* The argument has four layers.  TypeInv: where the call is, what its     *)
(* locals are, and that a file being written has the clusters it needs.    *)
(* Heads: the chains that records name and those the call holds begin at   *)
(* different clusters, no table entry leads to a beginning or, with        *)
(* another, to the same cluster, so chains are apart and have ends.        *)
(* DirInv, CwdReach: each directory is filled from its start, has its dots *)
(* and is what the dots of its subdirectories lead back to, so that cd and *)
(* cd .. stay below the root.  Walks: the loops of the call are on the     *)
(* current directory and have passed nothing that they look for.           *)
(* Together they are inductive up to the step that tears the volume, and   *)
(* so is OneTable, that the driver reads what the disk holds; VolumeSound  *)
(* follows from them.                                                      *)
(*                                                                         *)
(* LeakOnlyBy follows as well: what is allocated after a step belongs to   *)
(* the tree of directories (Use) or was allocated and not used before.     *)
(*                                                                         *)
(* Last, the calls implement the store of FileStore while every write      *)
(* succeeds.  Quest adds what the call knows of the entry it overwrites    *)
(* and of the data it has written; Shows, what lookups show in each        *)
(* directory they lead to, is the store (StoreIs); then there is one lemma *)
(* for each action.                                                        *)
(*                                                                         *)
(* At the end, that calls are finite: Ahead and Rounds are what is left.   *)
(***************************************************************************)
EXTENDS Fat32Files, FiniteSetTheorems, WellFoundedInduction, TLAPS

-----------------------------------------------------------------------------
(* A row of n clusters from a to b in table f, each leading to the next.   *)
Row(f, n, a, b) ==
  \E q \in [1 .. n -> Clusters] :
    /\ q[1] = a /\ q[n] = b
    /\ \A i \in 1 .. n - 1 : f[q[i]] = q[i + 1]

(* The file that is being written has as many clusters as it needs, save   *)
(* the ones that are left, while no write of the table has failed.         *)
Fresh ==
  /\ ~ torn /\ pc = "alloc" =>
       \E n \in Nat :
         /\ n + left = ClustersNeeded(req.size)
         /\ IF n = 0 THEN head = 0 /\ prev = 0
                     ELSE Row(fat, n, head, prev) /\ fat[prev] = Eoc
  /\ ~ torn /\ pc = "link" =>
       \E n \in Nat \ {0} :
         /\ n + 1 + left = ClustersNeeded(req.size)
         /\ Row(fat, n, head, prev) /\ fat[prev] = Eoc
         /\ cur # prev /\ fat[cur] = Eoc
  /\ ~ torn /\ pc = "data" /\ left > 0 =>
       \E n \in Nat : left <= n * SlotsPerCluster /\ \E b \in Clusters : Row(fat, n, cur, b)

(* What the call at each statement asks for, and which of its locals are   *)
(* clusters there.                                                         *)
Asked ==
  /\ req.op = "none" => req = NoCall
  /\ req.op = "write" => req.key \in ShortNames /\ req.val \in Values
  /\ req.op = "mkdir" => req.key \in ShortNames
  /\ req.op = "up" => req.key = DotDot
  /\ req.op = "cd" => req.key \in ShortNames \cup {""}

Stage ==
  /\ pc = "idle" => req.op = "none" /\ head = 0 /\ prev = 0 /\ cur = 0 /\ last = 0 /\ left = 0
  /\ pc = "find" => req.op \in {"write", "cd", "up"} /\ head = 0 /\ prev = 0 
  /\ pc = "find" /\ req.op = "write" => left = ClustersNeeded(req.size)
  /\ pc = "free" => head = 0 /\ prev = 0 /\ left = ClustersNeeded(req.size)
  /\ pc \in {"free", "alloc", "link", "data"} => req.op = "write"
  /\ pc = "dots" => req.op = "mkdir"
  /\ pc \in {"undo", "slot", "extend", "elink", "clear", "entry"} => req.op \in {"write", "mkdir"}
  /\ req.op = "mkdir" => head # 0
  /\ pc = "undo" => head # 0
  /\ pc \in {"alloc", "link"} => (head = 0) = (prev = 0)
  /\ pc \in {"link", "elink", "clear"} => cur \in Clusters
  /\ pc = "link" => prev # 0
  /\ pc \in {"extend", "elink", "clear"} => last \in Clusters
  /\ pc = "data" => left <= req.size
  /\ pc = "slot" => last \in Clusters
  /\ pc = "entry" => target \in SlotIds
  /\ found # NoSlot => pc \in {"free", "alloc", "link", "undo", "data", "entry"}
  /\ pc = "entry" /\ found # NoSlot => target = found

(* The parts of TypeOK.                                                    *)
Requests == [op : {"none", "write", "mkdir", "cd", "up"}, name : Names \cup {Dot, DotDot},
             key : ShortNames \cup {"", Dot, DotDot}, size : Nat, val : Values \cup {Dot}]
DiskOK == fat \in [Clusters -> Links] /\ table \in [Clusters -> Links] /\ slot \in [SlotIds -> Records]
KeptOK == cwd \in Clusters /\ hint \in Clusters
CallOK == pc \in PCs /\ req \in Requests /\ ret \in {"none", "ok", "fail"}
LocalsOK ==
  /\ found \in SlotIds \cup {NoSlot} /\ target \in SlotIds \cup {NoSlot}
  /\ cur \in Links /\ last \in Clusters \cup {0} /\ head \in Clusters \cup {0}
  /\ prev \in Clusters \cup {0} /\ left \in Nat
PastOK == torn \in BOOLEAN /\ crashes \in 0 .. MaxCrashes /\ faults \in 0 .. MaxFaults

(* A directory has a cluster.                                              *)
DirHasCluster == \A s \in SlotIds : Named(slot[s]) /\ slot[s].kind = "dir" => slot[s].first # 0

(* The driver reads what is on the disk, while no write of the table has   *)
(* failed.                                                                 *)
OneTable == ~ torn => table = fat

TypeInv ==
  /\ DiskOK /\ KeptOK /\ CallOK /\ LocalsOK /\ PastOK /\ Asked /\ Stage /\ DirHasCluster /\ Fresh
  /\ OneTable

-----------------------------------------------------------------------------
(* The marks are apart from the clusters.                                  *)
LEMMA Apart ==
  /\ Clusters \subseteq Nat /\ RootCluster \in Clusters
  /\ \A c \in Clusters : c >= 2 /\ c < EocMin /\ c # Free /\ c # Eoc /\ c # 0
  /\ \A c \in Links : InChain(c) <=> c \in Clusters
  /\ Clusters \subseteq Links /\ Free \in Links /\ Eoc \in Links /\ 0 \in Links
  /\ 1 \in Indices /\ 2 \in Indices /\ Indices \subseteq Nat
BY VolumeAssumption DEF Clusters, EocMin, Eoc, Free, Links, InChain, Indices

(* The clusters a file needs hold all its chunks (fat32.c:412).            *)
LEMMA NeededEnough ==
  ASSUME NEW z \in Nat
  PROVE  ClustersNeeded(z) \in Nat /\ z <= ClustersNeeded(z) * SlotsPerCluster
<1>1. PICK S \in Nat \ {0} : S = SlotsPerCluster
  BY VolumeAssumption
<1>2. PICK q \in Nat, r \in 0 .. S - 1 : z + S - 1 = S * q + r /\ q = (z + S - 1) \div S
  BY <1>1
<1>3. z <= q * S
  BY <1>1, <1>2
<1> QED BY <1>1, <1>2, <1>3 DEF ClustersNeeded

(* alloc_cluster goes round the volume and stays on it.                    *)
LEMMA AfterIn ==
  ASSUME NEW c \in Clusters
  PROVE  After(c) \in Clusters
BY VolumeAssumption DEF After, Clusters

(* Everything the driver writes is a record.                               *)
LEMMA RecordsIn ==
  /\ End \in Records /\ Deleted \in Records
  /\ \A v \in Values, i \in Nat : Chunk(v, i) \in Records
  /\ \A k \in {"file", "dir"}, n \in ShortNames \cup {Dot, DotDot}, c \in Clusters \cup {0}, z \in Nat :
        Entry(k, n, c, z) \in Records
BY DEF Records, End, Deleted, Chunk, Entry

(* What an entry names is a short name and a cluster, or none.             *)
LEMMA EntryIn ==
  ASSUME NEW r \in Records, IsEntry(r)
  PROVE  /\ r.first \in Clusters \cup {0}
         /\ r.name \in ShortNames \cup {Dot, DotDot}
BY DEF Records, IsEntry, End, Deleted

(* A cluster write leaves the records typed.                               *)
LEMMA ClusterTyped ==
  ASSUME slot \in [SlotIds -> Records], NEW c, NEW new \in [Indices -> Records], faults \in 0 .. MaxFaults,
         WriteCluster(c, new)
  PROVE  slot' \in [SlotIds -> Records] /\ faults' \in 0 .. MaxFaults
<1>1. \A s \in SlotIds : s[2] \in Indices
  BY DEF SlotIds
<1>2. PICK k \in 0 .. SlotsPerCluster :
         /\ slot' = [s \in SlotIds |-> IF s[1] = c /\ s[2] <= k THEN new[s[2]] ELSE slot[s]]
         /\ IF k = SlotsPerCluster THEN UNCHANGED faults ELSE faults < MaxFaults /\ faults' = faults + 1
  BY DEF WriteCluster
<1>3. slot' \in [SlotIds -> Records]
  BY <1>1, <1>2
<1>4. faults' \in 0 .. MaxFaults
  BY <1>2, InputAssumption
<1> QED BY <1>3, <1>4

(* A write of a table entry leaves the table typed; unless it tears the    *)
(* volume, the entry has its value on the disk and for the driver.         *)
LEMMA SetFatTyped ==
  ASSUME DiskOK, PastOK, NEW c \in Clusters, NEW v \in Links, SetFat(c, v)
  PROVE  /\ fat' \in [Clusters -> Links] /\ table' \in [Clusters -> Links]
         /\ torn' \in BOOLEAN /\ faults' \in 0 .. MaxFaults
         /\ ~ torn' => /\ fat' = [fat EXCEPT ![c] = v] /\ table' = [table EXCEPT ![c] = v]
                       /\ ~ torn /\ UNCHANGED <<torn, faults>>
<1>1. faults \in Nat /\ MaxFaults \in Nat
  BY InputAssumption DEF PastOK
<1>2. CASE /\ fat' = [fat EXCEPT ![c] = v] /\ table' = [table EXCEPT ![c] = v]
           /\ UNCHANGED <<torn, faults>>
  BY <1>2 DEF DiskOK, PastOK
<1>3. CASE /\ faults < MaxFaults
           /\ faults' = faults + 1
           /\ torn' = TRUE
           /\ fat' \in {fat, [fat EXCEPT ![c] = v]} /\ UNCHANGED table
  BY <1>1, <1>3 DEF DiskOK
<1> QED BY <1>2, <1>3 DEF SetFat

(* TypeOK in the parts the proofs use.                                     *)
LEMMA TypeParts == TypeOK <=> DiskOK /\ KeptOK /\ CallOK /\ LocalsOK /\ PastOK
BY DEF TypeOK, DiskOK, KeptOK, CallOK, LocalsOK, PastOK, Requests

(* A volume that has just been mounted is typed and at rest.               *)
LEMMA TypeInit == Init => TypeInv
<1> SUFFICES ASSUME Init PROVE TypeInv
  OBVIOUS
<1>7. PastOK
  <2>1. torn = FALSE /\ crashes = 0 /\ faults = 0
    BY DEF Init
  <2>2. crashes \in 0 .. MaxCrashes /\ faults \in 0 .. MaxFaults
    BY <2>1, InputAssumption
  <2> QED BY <2>1, <2>2 DEF PastOK
<1> USE Apart, RecordsIn, NameAssumption DEF Init
<1>1. KeptOK
  BY VolumeAssumption DEF Clusters, KeptOK
<1>2. DiskOK
  BY DEF DiskOK
<1>3. CallOK
  BY DEF CallOK, PCs, NoCall, Requests
<1>4. LocalsOK
  BY DEF LocalsOK
<1>5. Asked /\ Stage /\ Fresh /\ OneTable
  BY DEF Asked, Stage, Fresh, OneTable, NoCall
<1>6. DirHasCluster
  BY DEF DirHasCluster, Named, IsEntry, Deleted, End
<1> QED BY <1>1, <1>2, <1>3, <1>4, <1>5, <1>6, <1>7 DEF TypeInv

(* The driver reads on what is on the disk.                                *)
LEMMA OneTableStep == TypeInv /\ [Next]_vars => OneTable'
<1> SUFFICES ASSUME TypeInv, [Next]_vars, ~ torn' PROVE table' = fat'
  BY DEF OneTable
<1> USE DEF TypeInv, OneTable
<1>1. CASE UNCHANGED <<fat, table>> /\ ~ torn
  BY <1>1
<1>2. CASE Call
  <2>1. CASE \E n \in Names : MkdirCall(n)
    BY <2>1, <1>1 DEF MkdirCall, SetFat
  <2> QED BY <1>1, <1>2, <2>1 DEF Call, WriteCall, CdCall, disk, history
<1>3. CASE FreeStep \/ AllocFile \/ LinkFile \/ SealFile \/ Extend
  BY <1>3 DEF FreeStep, AllocFile, LinkFile, SealFile, Extend, SetFat
<1>4. CASE LinkDir
  <2>1. PICK lost \in SUBSET {last, cur} :
         /\ torn' = (torn \/ lost # {})
         /\ table' = Linked(table, lost)
         /\ \E unseen \in SUBSET lost : fat' = Linked(fat, unseen)
    BY <1>4 DEF LinkDir
  <2>2. lost = {} /\ ~ torn
    BY <2>1 DEF PastOK
  <2> QED BY <2>1, <2>2
<1>5. CASE \/ FindHit \/ FindNext \/ FindMiss \/ FreeDone \/ AllocFull \/ WriteData \/ DataDone \/ WriteDots
           \/ SlotHit \/ SlotNext \/ SlotMiss \/ ClearDir \/ WriteEntry
  BY <1>1, <1>5 DEF FindHit, FindNext, FindMiss, FreeDone, AllocFull, WriteData, DataDone, WriteDots,
       SlotHit, SlotNext, SlotMiss, ClearDir, WriteEntry, disk, history
<1>6. CASE Crash \/ Reload
  BY <1>6 DEF Crash, Reload
<1>7. CASE UNCHANGED vars
  BY <1>1, <1>7 DEF vars, disk, history
<1> QED BY <1>2, <1>3, <1>4, <1>5, <1>6, <1>7 DEF Next, Step

(* Where neither the table nor the records change, only the locals count.  *)
LEMMA TypeSameDisk ==
  ASSUME TypeInv, UNCHANGED disk
  PROVE  DirHasCluster' /\ DiskOK'
BY DEF TypeInv, DiskOK, DirHasCluster, disk, Named

(* fat32_write_file is called: the volume stays typed.                     *)
LEMMA WriteCallType ==
  ASSUME TypeInv, NEW n \in Names, NEW z \in Sizes, NEW v \in Values, WriteCall(n, z, v), OneTable'
  PROVE  TypeInv'
<1> USE DEF WriteCall, TypeInv
<1>1. DirHasCluster' /\ DiskOK'
  BY TypeSameDisk
<1>2. z \in Nat /\ ClustersNeeded(z) \in Nat /\ ShortOf[n] \in ShortNames
  BY InputAssumption, NameAssumption, NeededEnough
<1>3. KeptOK' /\ PastOK'
  BY DEF KeptOK, PastOK, memory, history
<1>4. LocalsOK'
  BY <1>2, Apart DEF LocalsOK, KeptOK
<1>5. CallOK'
  BY <1>2 DEF CallOK, PCs, Requests
<1>6. Asked'
  BY <1>2 DEF Asked
<1>7. Stage'
  BY <1>2 DEF Stage
<1>8. Fresh'
  BY DEF Fresh
<1> QED BY <1>1, <1>3, <1>4, <1>5, <1>6, <1>7, <1>8

(* fat32_change_dir is called: the volume stays typed.                     *)
LEMMA CdCallType ==
  ASSUME TypeInv, NEW n \in Names \cup {DotDot}, CdCall(n), OneTable'
  PROVE  TypeInv'
<1> USE DEF TypeInv
<1>1. DirHasCluster' /\ DiskOK'
  BY TypeSameDisk DEF CdCall
<1>2. PICK o, k : /\ (o = "cd" /\ k \in ShortNames \cup {""}) \/ (o = "up" /\ k = DotDot)
                  /\ req' = [op |-> o, name |-> n, key |-> k, size |-> 0, val |-> Dot]
  <2>1. n \in ExactNames => ShortOf[n] \in ShortNames
    BY NameAssumption
  <2>2. CASE req' = [op |-> "up", name |-> n, key |-> DotDot, size |-> 0, val |-> Dot]
    BY <2>2
  <2>3. CASE req' = [op |-> "cd", name |-> n, key |-> IF n \in ExactNames THEN ShortOf[n] ELSE "",
                     size |-> 0, val |-> Dot]
    <3>1. (IF n \in ExactNames THEN ShortOf[n] ELSE "") \in ShortNames \cup {""}
      BY <2>1
    <3>2. PICK k \in ShortNames \cup {""} : k = IF n \in ExactNames THEN ShortOf[n] ELSE ""
      BY <3>1
    <3>3. req' = [op |-> "cd", name |-> n, key |-> k, size |-> 0, val |-> Dot]
      BY <2>3, <3>2
    <3> QED BY <3>2, <3>3
  <2> QED BY <2>2, <2>3 DEF CdCall
<1>3. /\ pc = "idle" /\ pc' = "find" /\ cur' = cwd /\ ret' = "none"
      /\ UNCHANGED <<disk, memory, found, target, last, head, prev, left, history>>
  BY DEF CdCall
<1>4. KeptOK' /\ PastOK'
  BY <1>3 DEF KeptOK, PastOK, memory, history
<1>5. LocalsOK'
  BY <1>3, Apart DEF LocalsOK, KeptOK
<1>6. CallOK'
  BY <1>2, <1>3 DEF CallOK, PCs, Requests
<1>7. Asked'
  BY <1>2 DEF Asked
<1>8. Stage'
  BY <1>2, <1>3 DEF Stage
<1>9. Fresh'
  BY <1>3 DEF Fresh
<1> QED BY <1>1, <1>4, <1>5, <1>6, <1>7, <1>8, <1>9

(* A call that ends leaves no locals.                                      *)
LEMMA ReturnType ==
  ASSUME NEW r \in {"none", "ok", "fail"}, Return(r), DiskOK', DirHasCluster', KeptOK', PastOK',
         OneTable'
  PROVE  TypeInv'
<1> USE DEF Return, ClearLocals
<1>1. CallOK'
  BY DEF CallOK, PCs, NoCall, Requests
<1>2. LocalsOK'
  BY Apart DEF LocalsOK
<1>3. Asked' /\ Stage' /\ Fresh'
  BY DEF Asked, Stage, Fresh, NoCall
<1> QED BY <1>1, <1>2, <1>3 DEF TypeInv

(* The lookup finds the name: the volume stays typed.                      *)
LEMMA FindHitType == TypeInv /\ FindHit /\ OneTable' => TypeInv'
<1> SUFFICES ASSUME TypeInv, FindHit, OneTable' PROVE TypeInv'
  OBVIOUS
<1> USE DEF TypeInv
<1>1. DirHasCluster' /\ DiskOK'
  BY TypeSameDisk DEF FindHit
<1>2. pc = "find" /\ cur \in Clusters /\ UNCHANGED <<fat, slot, hint, torn, crashes, faults>>
  BY Apart DEF FindHit, LocalsOK, disk, history
<1>3. PICK m \in Hits(cur) :
       LET e == slot[<<cur, m>>] IN
       \/ /\ req.op = "write"
          /\ found' = <<cur, m>>
          /\ IF e.first >= 2
             THEN pc' = "free" /\ cur' = e.first
             ELSE pc' = "alloc" /\ cur' = 0
          /\ UNCHANGED <<cwd, req, ret, target, last, head, prev, left>>
       \/ /\ EntersInto(e)
          /\ cwd' = IF e.first = 0 THEN RootCluster ELSE e.first
          /\ Return("ok")
       \/ /\ req.op # "write" /\ ~ EntersInto(e)
          /\ Return("fail")
          /\ UNCHANGED cwd
  BY DEF FindHit
<1> DEFINE e == slot[<<cur, m>>]
<1>4. <<cur, m>> \in SlotIds /\ e \in Records /\ IsEntry(e)
  BY <1>2, <1>3 DEF Hits, SlotIds, Sought, DiskOK
<1>5. e.first \in Clusters \cup {0}
  BY <1>4, EntryIn
<1>6. PastOK' /\ hint' \in Clusters
  BY <1>2 DEF PastOK, KeptOK
<1> HIDE DEF e
<1>7. CASE /\ req.op = "write"
           /\ found' = <<cur, m>>
           /\ IF e.first >= 2
              THEN pc' = "free" /\ cur' = e.first
              ELSE pc' = "alloc" /\ cur' = 0
           /\ UNCHANGED <<cwd, req, ret, target, last, head, prev, left>>
  <2>1. KeptOK' /\ CallOK'
    BY <1>6, <1>7 DEF KeptOK, CallOK, PCs
  <2>2. LocalsOK'
    BY <1>4, <1>5, <1>7, Apart DEF LocalsOK
  <2>3. Asked' /\ Stage'
    BY <1>2, <1>7 DEF Asked, Stage
  <2>4. left' = ClustersNeeded(req'.size) /\ left' \in Nat /\ head' = 0 /\ prev' = 0
    BY <1>2, <1>7 DEF Stage, LocalsOK
  <2>5. Fresh'
    BY <1>7, <2>4 DEF Fresh
  <2> QED BY <1>1, <1>6, <2>1, <2>2, <2>3, <2>5
<1>8. CASE /\ cwd' = (IF e.first = 0 THEN RootCluster ELSE e.first) \/ UNCHANGED cwd
           /\ Return("ok") \/ Return("fail")
  <2>1. KeptOK'
    BY <1>5, <1>6, <1>8, Apart DEF KeptOK
  <2> QED BY <1>1, <1>6, <1>8, <2>1, ReturnType
<1> QED BY <1>3, <1>7, <1>8 DEF e

(* The lookup goes to the next cluster: the volume stays typed.            *)
LEMMA FindNextType == TypeInv /\ FindNext /\ OneTable' => TypeInv'
<1> SUFFICES ASSUME TypeInv, FindNext, OneTable' PROVE TypeInv'
  OBVIOUS
<1> USE DEF TypeInv, FindNext
<1>1. DirHasCluster' /\ DiskOK'
  BY TypeSameDisk
<1>2. cur \in Clusters /\ cur' \in Links
  BY Apart DEF LocalsOK, DiskOK
<1>3. KeptOK' /\ CallOK' /\ LocalsOK' /\ PastOK'
  BY <1>2 DEF KeptOK, CallOK, LocalsOK, PastOK, memory, history
<1>4. Asked' /\ Stage' /\ Fresh'
  BY DEF Asked, Stage, Fresh
<1> QED BY <1>1, <1>3, <1>4

(* The lookup ends without the name: the volume stays typed.               *)
LEMMA FindMissType == TypeInv /\ FindMiss /\ OneTable' => TypeInv'
<1> SUFFICES ASSUME TypeInv, FindMiss, OneTable' PROVE TypeInv'
  OBVIOUS
<1> USE DEF TypeInv
<1>1. DirHasCluster' /\ DiskOK'
  BY TypeSameDisk DEF FindMiss
<1>2. pc = "find" /\ UNCHANGED <<disk, memory, history>>
  BY DEF FindMiss
<1>3. KeptOK' /\ PastOK'
  BY <1>2 DEF KeptOK, PastOK, memory, history
<1>4. CASE /\ req.op = "write"
           /\ pc' = "alloc"
           /\ cur' = 0
           /\ UNCHANGED <<req, ret, found, target, last, head, prev, left>>
  <2>1. CallOK' /\ LocalsOK'
    BY <1>4, Apart DEF CallOK, LocalsOK, PCs
  <2>2. Asked' /\ Stage'
    BY <1>2, <1>4 DEF Asked, Stage
  <2>3. left' = ClustersNeeded(req'.size) /\ left' \in Nat /\ head' = 0 /\ prev' = 0
    BY <1>2, <1>4 DEF Stage, LocalsOK
  <2>4. 0 \in Nat /\ 0 + left' = ClustersNeeded(req'.size) /\ pc' = "alloc"
    BY <1>4, <2>3
  <2>5. Fresh'
    BY <2>3, <2>4 DEF Fresh
  <2> QED BY <1>1, <1>3, <2>1, <2>2, <2>5
<1>5. CASE Return("fail")
  BY <1>1, <1>3, <1>5, ReturnType
<1> QED BY <1>4, <1>5 DEF FindMiss

(* The old chain loses one more cluster: the volume stays typed.           *)
LEMMA FreeStepType == TypeInv /\ FreeStep /\ OneTable' => TypeInv'
<1> SUFFICES ASSUME TypeInv, FreeStep, OneTable' PROVE TypeInv'
  OBVIOUS
<1> USE DEF TypeInv, FreeStep
<1>1. cur \in Clusters /\ cur' \in Links
  BY Apart DEF LocalsOK, DiskOK
<1>2. DiskOK' /\ DirHasCluster' /\ PastOK'
  BY <1>1, Apart, SetFatTyped DEF DiskOK, DirHasCluster, Named, PastOK
<1>3. KeptOK' /\ CallOK' /\ LocalsOK'
  BY <1>1 DEF KeptOK, CallOK, LocalsOK, memory
<1>4. Asked' /\ Stage' /\ Fresh'
  BY DEF Asked, Stage, Fresh
<1> QED BY <1>2, <1>3, <1>4

(* The old chain is freed: the volume stays typed.                         *)
LEMMA FreeDoneType == TypeInv /\ FreeDone /\ OneTable' => TypeInv'
<1> SUFFICES ASSUME TypeInv, FreeDone, OneTable' PROVE TypeInv'
  OBVIOUS
<1> USE DEF TypeInv
<1>1. DirHasCluster' /\ DiskOK'
  BY TypeSameDisk DEF FreeDone
<1>2. UNCHANGED <<disk, memory, crashes, faults>> /\ KeptOK'
  BY DEF FreeDone, KeptOK, memory
<1>3. CASE /\ pc = "free"
           /\ pc' = "alloc"
           /\ cur' = 0
           /\ UNCHANGED <<req, ret, found, target, last, head, prev, left, torn>>
  <2>1. CallOK' /\ LocalsOK' /\ PastOK'
    BY <1>2, <1>3, Apart DEF CallOK, LocalsOK, PCs, PastOK
  <2>2. Asked' /\ Stage'
    BY <1>2, <1>3 DEF Asked, Stage
  <2>3. left' = ClustersNeeded(req'.size) /\ left' \in Nat /\ head' = 0 /\ prev' = 0
    BY <1>2, <1>3 DEF Stage, LocalsOK
  <2>4. 0 \in Nat /\ 0 + left' = ClustersNeeded(req'.size) /\ pc' = "alloc"
    BY <1>3, <2>3
  <2>5. Fresh'
    BY <2>3, <2>4 DEF Fresh
  <2> QED BY <1>1, <1>2, <2>1, <2>2, <2>5
<1>4. CASE Return("fail") /\ torn' = (torn \/ Invalidated)
  <2>1. PastOK'
    BY <1>2, <1>4 DEF PastOK
  <2> QED BY <1>1, <1>2, <1>4, <2>1, ReturnType
<1> QED BY <1>3, <1>4 DEF FreeDone

(* A cluster that was free is in no row.                                   *)
LEMMA RowKept ==
  ASSUME NEW f, NEW g, NEW n \in Nat, NEW a, NEW b, Row(f, n, a, b),
         \A x \in Clusters : f[x] \in Clusters => g[x] = f[x]
  PROVE  Row(g, n, a, b)
<1>1. PICK q \in [1 .. n -> Clusters] :
    /\ q[1] = a /\ q[n] = b
    /\ \A i \in 1 .. n - 1 : f[q[i]] = q[i + 1]
  BY DEF Row
<1>2. \A i \in 1 .. n - 1 : i \in 1 .. n /\ i + 1 \in 1 .. n
  OBVIOUS
<1>3. \A i \in 1 .. n - 1 : g[q[i]] = q[i + 1]
  BY <1>1, <1>2
<1> QED BY <1>1, <1>3 DEF Row

(* A row gets one cluster longer.                                          *)
LEMMA RowLonger ==
  ASSUME NEW f, NEW g, NEW n \in Nat \ {0}, NEW a, NEW b, NEW c \in Clusters, Row(f, n, a, b),
         \A x \in Clusters : f[x] \in Clusters => g[x] = f[x],
         g[b] = c
  PROVE  Row(g, n + 1, a, c)
<1>1. PICK q \in [1 .. n -> Clusters] :
    /\ q[1] = a /\ q[n] = b
    /\ \A i \in 1 .. n - 1 : f[q[i]] = q[i + 1]
  BY DEF Row
<1> DEFINE r == [i \in 1 .. n + 1 |-> IF i = n + 1 THEN c ELSE q[i]]
<1>2. \A i \in 1 .. n : r[i] = q[i] /\ r[i] \in Clusters
  BY <1>1
<1>3. r[n + 1] = c /\ r[1] = a
  BY <1>1
<1>4. r \in [1 .. n + 1 -> Clusters]
  BY <1>1
<1> HIDE DEF r
<1>5. ASSUME NEW i \in 1 .. (n + 1) - 1 PROVE g[r[i]] = r[i + 1]
  <2>1. CASE i = n
    BY <1>1, <1>2, <1>3, <2>1
  <2>2. CASE i # n
    <3>1. i \in 1 .. n - 1 /\ i \in 1 .. n /\ i + 1 \in 1 .. n
      BY <2>2
    <3> QED BY <1>1, <1>2, <3>1
  <2> QED BY <2>1, <2>2
<1> QED BY <1>3, <1>4, <1>5 DEF Row

(* A single cluster is a row.                                              *)
LEMMA RowOne ==
  ASSUME NEW f, NEW a \in Clusters
  PROVE  Row(f, 1, a, a)
<1> DEFINE q == [i \in 1 .. 1 |-> a]
<1>1. q \in [1 .. 1 -> Clusters] /\ q[1] = a
  OBVIOUS
<1>2. \A i \in 1 .. 1 - 1 : f[q[i]] = q[i + 1]
  OBVIOUS
<1> HIDE DEF q
<1> QED BY <1>1, <1>2 DEF Row

(* A cluster is taken for the file: the volume stays typed.                *)
LEMMA AllocFileType == TypeInv /\ AllocFile /\ OneTable' => TypeInv'
<1> SUFFICES ASSUME TypeInv, AllocFile, OneTable' PROVE TypeInv'
  OBVIOUS
<1> USE DEF TypeInv
<1>1. PICK c \in NearestFree :
       /\ SetFat(c, Eoc)
       /\ hint' = After(c)
       /\ head' = IF head = 0 THEN c ELSE head
       /\ left' = left - 1
       /\ IF prev # 0
          THEN pc' = "link" /\ cur' = c /\ prev' = prev
          ELSE pc' = "alloc" /\ cur' = 0 /\ prev' = c
  BY DEF AllocFile
<1>2. c \in Clusters /\ fat[c] = Free /\ left \in Nat /\ left > 0 /\ pc = "alloc"
  BY DEF NearestFree, FreeClusters, AllocFile, LocalsOK
<1>3. ~ torn' => /\ fat' = [fat EXCEPT ![c] = Eoc] /\ fat'[c] = Eoc /\ ~ torn
                 /\ \A x \in Clusters : fat[x] # Free => fat'[x] = fat[x]
  BY <1>1, <1>2, SetFatTyped, Apart DEF DiskOK
<1>4. UNCHANGED <<slot, cwd, req, ret, found, target, last, crashes>>
  BY DEF AllocFile
<1>5. DiskOK' /\ DirHasCluster' /\ PastOK'
  BY <1>1, <1>2, <1>4, Apart, SetFatTyped DEF DiskOK, DirHasCluster, Named, PastOK
<1>6. KeptOK'
  BY <1>1, <1>2, <1>4, AfterIn DEF KeptOK
<1>7. CallOK'
  BY <1>1, <1>4 DEF CallOK, PCs
<1>8. LocalsOK'
  BY <1>1, <1>2, <1>4, Apart DEF LocalsOK
<1>9. Asked' /\ Stage'
  <2>1. c # 0 /\ (head = 0) = (prev = 0) /\ req.op = "write"
    BY <1>2, Apart DEF Stage
  <2>2. Asked'
    BY <1>4 DEF Asked
  <2> QED BY <1>1, <1>2, <1>4, <2>1, <2>2 DEF Stage
<1>10. Fresh'
  <2> SUFFICES ASSUME ~ torn' PROVE Fresh'
    BY DEF Fresh
  <2>1. PICK n \in Nat : /\ n + left = ClustersNeeded(req.size)
                         /\ IF n = 0 THEN head = 0 /\ prev = 0
                            ELSE Row(fat, n, head, prev) /\ fat[prev] = Eoc
    BY <1>2, <1>3 DEF Fresh
  <2>2. \A x \in Clusters : fat[x] \in Clusters => fat'[x] = fat[x]
    BY <1>3, Apart
  <2>3. CASE n = 0
    <3>1. pc' = "alloc" /\ head' = c /\ prev' = c /\ 1 + left' = ClustersNeeded(req'.size)
      BY <1>1, <1>2, <1>4, <2>1, <2>3
    <3>2. Row(fat', 1, c, c)
      BY <1>2, RowOne
    <3>3. Row(fat', 1, head', prev') /\ fat'[prev'] = Eoc
      BY <1>3, <3>1, <3>2
    <3> QED BY <3>1, <3>3 DEF Fresh
  <2>4. CASE n # 0
    <3>1. prev \in Clusters
      BY <2>1, <2>4 DEF Row
    <3>2. prev # 0 /\ head # 0 /\ prev # c /\ fat[prev] = Eoc
      BY <1>2, <2>1, <2>4, <3>1, Apart DEF Stage, Eoc, Free
    <3>3. Row(fat', n, head', prev')
      <4>1. Row(fat', n, head, prev)
        BY <2>1, <2>2, <2>4, RowKept
      <4>2. head' = head /\ prev' = prev
        BY <1>1, <3>2
      <4> QED BY <4>1, <4>2
    <3>4. pc' = "link" /\ cur' = c /\ prev' = prev /\ n + 1 + left' = ClustersNeeded(req'.size)
      BY <1>1, <1>2, <1>4, <2>1, <3>2
    <3>5. fat'[prev] = Eoc
      BY <1>3, <3>1, <3>2, <2>1 DEF Eoc, Free
    <3> QED BY <1>3, <2>4, <3>2, <3>3, <3>4, <3>5 DEF Fresh
  <2> QED BY <2>3, <2>4
<1> QED BY <1>5, <1>6, <1>7, <1>8, <1>9, <1>10

(* The cluster is linked behind the file: the volume stays typed.          *)
LEMMA LinkFileType == TypeInv /\ LinkFile /\ OneTable' => TypeInv'
<1> SUFFICES ASSUME TypeInv, LinkFile, OneTable' PROVE TypeInv'
  OBVIOUS
<1> USE DEF TypeInv
<1>1. /\ pc = "link" /\ SetFat(prev, cur) /\ prev' = cur /\ pc' = "alloc" /\ cur' = 0
      /\ UNCHANGED <<slot, memory, req, ret, found, target, last, head, left, crashes>>
  BY DEF LinkFile
<1>2. cur \in Clusters /\ prev \in Clusters /\ cur \in Nat /\ left \in Nat /\ head # 0
  BY <1>1, Apart DEF Stage, LocalsOK
<1>3. DiskOK' /\ DirHasCluster' /\ PastOK'
  BY <1>1, <1>2, Apart, SetFatTyped DEF DiskOK, DirHasCluster, Named, PastOK
<1>4. KeptOK' /\ CallOK'
  BY <1>1 DEF KeptOK, CallOK, PCs, memory
<1>5. LocalsOK'
  BY <1>1, <1>2, Apart DEF LocalsOK
<1>6. Asked' /\ Stage'
  <2>1. cur # 0 /\ req.op = "write"
    BY <1>1, <1>2, Apart DEF Stage
  <2>2. Asked'
    BY <1>1 DEF Asked
  <2> QED BY <1>1, <1>2, <2>1, <2>2 DEF Stage
<1>7. Fresh'
  <2> SUFFICES ASSUME ~ torn' PROVE Fresh'
    BY DEF Fresh
  <2>0. ~ torn /\ fat' = [fat EXCEPT ![prev] = cur]
    BY <1>1, <1>2, Apart, SetFatTyped
  <2>1. PICK n \in Nat \ {0} :
         /\ n + 1 + left = ClustersNeeded(req.size)
         /\ Row(fat, n, head, prev) /\ fat[prev] = Eoc
         /\ cur # prev /\ fat[cur] = Eoc
    BY <1>1, <2>0 DEF Fresh
  <2>2. \A x \in Clusters : fat[x] \in Clusters => fat'[x] = fat[x]
    BY <1>2, <2>0, <2>1, Apart DEF DiskOK
  <2>3. fat'[prev] = cur /\ fat'[cur] = Eoc
    BY <1>2, <2>0, <2>1 DEF DiskOK
  <2>4. Row(fat', n + 1, head, cur)
    BY <1>2, <2>1, <2>2, <2>3, RowLonger
  <2>5. Row(fat', n + 1, head', prev')
    BY <1>1, <2>4
  <2>6. n + 1 \in Nat /\ n + 1 # 0 /\ (n + 1) + left' = ClustersNeeded(req'.size)
    BY <1>1, <2>1
  <2>7. pc' = "alloc" /\ fat'[prev'] = Eoc
    BY <1>1, <2>3
  <2> QED BY <2>5, <2>6, <2>7 DEF Fresh
<1> QED BY <1>3, <1>4, <1>5, <1>6, <1>7

(* No cluster is free: the volume stays typed.                             *)
LEMMA AllocFullType == TypeInv /\ AllocFull /\ OneTable' => TypeInv'
<1> SUFFICES ASSUME TypeInv, AllocFull, OneTable' PROVE TypeInv'
  OBVIOUS
<1> USE DEF TypeInv
<1>1. DirHasCluster' /\ DiskOK'
  BY TypeSameDisk DEF AllocFull
<1>2. pc \in {"alloc", "extend"} /\ UNCHANGED <<disk, memory, crashes, faults>> /\ KeptOK'
  BY DEF AllocFull, KeptOK, memory
<1>3. CASE /\ head # 0
           /\ pc' = "undo"
           /\ cur' = head
           /\ UNCHANGED <<req, ret, found, target, last, head, prev, left, torn>>
  <2>1. CallOK' /\ LocalsOK' /\ PastOK'
    BY <1>2, <1>3, Apart DEF CallOK, LocalsOK, PCs, PastOK
  <2>2. Asked' /\ Stage' /\ Fresh'
    BY <1>2, <1>3 DEF Asked, Stage, Fresh
  <2> QED BY <1>1, <1>2, <2>1, <2>2
<1>4. CASE Return("fail") /\ torn' = (torn \/ Invalidated)
  <2>1. PastOK'
    BY <1>2, <1>4 DEF PastOK
  <2> QED BY <1>1, <1>2, <1>4, <2>1, ReturnType
<1> QED BY <1>3, <1>4 DEF AllocFull

(* The file has all its clusters: the volume stays typed.                  *)
LEMMA SealFileType == TypeInv /\ SealFile /\ OneTable' => TypeInv'
<1> SUFFICES ASSUME TypeInv, SealFile, OneTable' PROVE TypeInv'
  OBVIOUS
<1> USE DEF TypeInv
<1>1. /\ pc = "alloc" /\ left = 0
      /\ pc' = "data" /\ cur' = head /\ left' = req.size
      /\ UNCHANGED <<slot, memory, req, ret, found, target, last, head, prev, crashes>>
      /\ IF prev # 0 THEN SetFat(prev, Eoc) ELSE UNCHANGED <<fat, table, torn, faults>>
  BY DEF SealFile
<1>4. DiskOK' /\ DirHasCluster' /\ PastOK'
  <2>1. fat' \in [Clusters -> Links] /\ table' \in [Clusters -> Links]
        /\ torn' \in BOOLEAN /\ faults' \in 0 .. MaxFaults
    BY <1>1, Apart, SetFatTyped DEF LocalsOK, DiskOK, PastOK
  <2> QED BY <1>1, <2>1 DEF DiskOK, DirHasCluster, Named, PastOK
<1>5. req.size \in Nat
  BY DEF CallOK, Requests
<1>6. KeptOK' /\ CallOK'
  BY <1>1 DEF KeptOK, CallOK, PCs, memory
<1>7. LocalsOK'
  BY <1>1, <1>5, Apart DEF LocalsOK
<1>8. Asked' /\ Stage'
  <2>1. left' <= req'.size
    BY <1>1, <1>5
  <2>2. Asked'
    BY <1>1 DEF Asked
  <2> QED BY <1>1, <2>1, <2>2 DEF Stage
<1>9. Fresh'
  <2> SUFFICES ASSUME ~ torn' PROVE Fresh'
    BY DEF Fresh
  <2>0. ~ torn /\ fat' = IF prev # 0 THEN [fat EXCEPT ![prev] = Eoc] ELSE fat
    BY <1>1, Apart, SetFatTyped DEF LocalsOK
  <2>5. PICK n \in Nat : /\ n + left = ClustersNeeded(req.size)
                         /\ IF n = 0 THEN head = 0 /\ prev = 0
                            ELSE Row(fat, n, head, prev) /\ fat[prev] = Eoc
    BY <1>1, <2>0 DEF Fresh
  <2>6. fat' = fat
    BY <2>0, <2>5 DEF DiskOK, LocalsOK
  <2>1. n = ClustersNeeded(req.size) /\ req.size <= n * SlotsPerCluster
    BY <1>1, <2>5, <1>5, NeededEnough
  <2>2. ASSUME left' > 0 PROVE n # 0
    BY <1>1, <1>5, <2>1, <2>2, VolumeAssumption
  <2>3. ASSUME n # 0 PROVE prev \in Clusters /\ Row(fat', n, cur', prev)
    BY <1>1, <2>5, <2>6, <2>3 DEF Row
  <2>4. pc' = "data" /\ left' <= n * SlotsPerCluster
    BY <1>1, <2>1
  <2> QED BY <2>2, <2>3, <2>4 DEF Fresh
<1> QED BY <1>4, <1>6, <1>7, <1>8, <1>9

(* What follows the first cluster of a row.                                *)
LEMMA RowNext ==
  ASSUME NEW f, NEW n \in Nat, NEW a, NEW b, Row(f, n, a, b), n > 1
  PROVE  Row(f, n - 1, f[a], b)
<1>1. PICK q \in [1 .. n -> Clusters] :
    /\ q[1] = a /\ q[n] = b
    /\ \A i \in 1 .. n - 1 : f[q[i]] = q[i + 1]
  BY DEF Row
<1> DEFINE r == [i \in 1 .. n - 1 |-> q[i + 1]]
<1>2. r \in [1 .. n - 1 -> Clusters]
  BY <1>1
<1>3. r[1] = f[a] /\ r[n - 1] = b
  BY <1>1
<1>4. ASSUME NEW i \in 1 .. (n - 1) - 1 PROVE f[r[i]] = r[i + 1]
  <2>1. i + 1 \in 1 .. n - 1 /\ i \in 1 .. n - 1
    OBVIOUS
  <2>2. r[i] = q[i + 1] /\ r[i + 1] = q[(i + 1) + 1]
    BY <2>1
  <2> QED BY <1>1, <2>1, <2>2
<1> HIDE DEF r
<1> QED BY <1>2, <1>3, <1>4 DEF Row

(* A cluster of the file is written: the volume stays typed.               *)
LEMMA WriteDataType == TypeInv /\ WriteData /\ OneTable' => TypeInv'
<1> SUFFICES ASSUME TypeInv, WriteData, OneTable' PROVE TypeInv'
  OBVIOUS
<1> USE DEF TypeInv
<1> DEFINE new == [i \in Indices |-> IF i <= left THEN Chunk(req.val, req.size - left + i) ELSE End]
<1>1. /\ pc = "data" /\ left > 0 /\ cur >= 2
      /\ WriteCluster(cur, new)
      /\ left' = IF left < SlotsPerCluster THEN 0 ELSE left - SlotsPerCluster
      /\ cur' \in Following(cur)
      /\ UNCHANGED <<fat, table, memory, pc, req, ret, found, target, last, head, prev, torn, crashes>>
  BY DEF WriteData
<1>2. req.op = "write" /\ req.val \in Values /\ req.size \in Nat /\ left \in Nat /\ left <= req.size
  BY <1>1 DEF Stage, Asked, CallOK, Requests, LocalsOK
<1>5. SlotsPerCluster \in Nat \ {0}
  BY VolumeAssumption
<1>7. new \in [Indices -> Records]
  <2>1. \A i \in Indices : req.size - left + i \in Nat
    BY <1>2, Apart
  <2> QED BY <1>2, <2>1, RecordsIn
<1>8. slot' \in [SlotIds -> Records] /\ faults' \in 0 .. MaxFaults
  <2> HIDE DEF new
  <2> QED BY <1>1, <1>7, ClusterTyped DEF DiskOK, PastOK
<1>9. DirHasCluster'
  <2>1. PICK k \in 0 .. SlotsPerCluster :
          slot' = [s \in SlotIds |-> IF s[1] = cur /\ s[2] <= k THEN new[s[2]] ELSE slot[s]]
    BY <1>1 DEF WriteCluster
  <2>2. \A s \in SlotIds : s[2] \in Indices
    BY DEF SlotIds
  <2>3. \A i \in Indices : ~ IsEntry(new[i])
    BY DEF IsEntry, Chunk, End
  <2> HIDE DEF new
  <2> QED BY <2>1, <2>2, <2>3 DEF DirHasCluster, Named
<1> HIDE DEF new
<1>10. DiskOK' /\ PastOK'
  BY <1>1, <1>8 DEF DiskOK, PastOK
<1>11. KeptOK' /\ CallOK'
  BY <1>1 DEF KeptOK, CallOK, memory
<1>12. LocalsOK'
  <2>1. left' \in Nat /\ cur' \in Links
    BY <1>1, <1>2, <1>5 DEF DiskOK, Following
  <2> QED BY <1>1, <2>1 DEF LocalsOK
<1>13. Asked'
  BY <1>1 DEF Asked
<1>14. Stage'
  <2>1. left' <= left /\ left' \in Nat
    BY <1>1, <1>2, <1>5
  <2>2. left' <= req'.size
    BY <1>1, <1>2, <2>1
  <2> QED BY <1>1, <1>2, <2>2 DEF Stage
<1>15. Fresh'
  <2> SUFFICES ASSUME ~ torn' PROVE Fresh'
    BY DEF Fresh
  <2>4. PICK n \in Nat : left <= n * SlotsPerCluster /\ \E b \in Clusters : Row(fat, n, cur, b)
    BY <1>1 DEF Fresh
  <2>5. PICK b \in Clusters : Row(fat, n, cur, b)
    BY <2>4
  <2>6. n # 0
    BY <1>1, <1>2, <1>5, <2>4
  <2>7. cur' = fat[cur]
    BY <1>1, <2>5, <2>6 DEF Row, Following
  <2>1. ASSUME left' > 0 PROVE n - 1 \in Nat /\ left' <= (n - 1) * SlotsPerCluster /\ n > 1
    <3>1. left > SlotsPerCluster /\ left' = left - SlotsPerCluster
      BY <1>1, <1>2, <1>5, <2>1
    <3>2. n > 1
      BY <1>2, <2>4, <1>5, <3>1
    <3>3. (n - 1) * SlotsPerCluster = n * SlotsPerCluster - SlotsPerCluster
      BY <1>5
    <3>4. n * SlotsPerCluster \in Nat
      BY <1>5
    <3> QED BY <1>2, <2>4, <1>5, <3>1, <3>2, <3>3, <3>4
  <2>2. ASSUME n > 1 PROVE Row(fat', n - 1, cur', b)
    BY <1>1, <2>5, <2>7, <2>2, RowNext
  <2>3. pc' = "data"
    BY <1>1
  <2> QED BY <2>1, <2>2, <2>3 DEF Fresh
<1> QED BY <1>9, <1>10, <1>11, <1>12, <1>13, <1>14, <1>15

(* The file is written: the volume stays typed.                            *)
LEMMA DataDoneType == TypeInv /\ DataDone /\ OneTable' => TypeInv'
<1> SUFFICES ASSUME TypeInv, DataDone, OneTable' PROVE TypeInv'
  OBVIOUS
<1> USE DEF TypeInv, DataDone
<1>1. DirHasCluster' /\ DiskOK'
  BY TypeSameDisk
<1>2. KeptOK' /\ PastOK' /\ CallOK'
  BY DEF KeptOK, PastOK, CallOK, PCs, memory, history
<1>3. LocalsOK'
  BY Apart DEF LocalsOK, KeptOK
<1>4. cwd # 0 /\ cwd \in Clusters
  BY Apart DEF KeptOK
<1>5. Asked' /\ Stage' /\ Fresh'
  BY <1>4 DEF Asked, Stage, Fresh, LocalsOK
<1> QED BY <1>1, <1>2, <1>3, <1>5

(* fat32_mkdir is called: the volume stays typed.                          *)
LEMMA MkdirCallType ==
  ASSUME TypeInv, NEW n \in Names, MkdirCall(n), OneTable'
  PROVE  TypeInv'
<1> USE DEF TypeInv
<1>1. pc = "idle" /\ UNCHANGED <<slot, cwd, crashes>>
  BY DEF MkdirCall
<1>3. CASE Return("fail") /\ UNCHANGED <<fat, table, hint, torn, faults>>
  <2>1. DiskOK' /\ DirHasCluster'
    BY <1>1, <1>3, TypeSameDisk DEF disk
  <2>2. KeptOK'
    BY <1>1, <1>3 DEF KeptOK
  <2>3. PastOK'
    BY <1>1, <1>3 DEF PastOK
  <2> QED BY <1>3, <2>1, <2>2, <2>3, ReturnType
<1>4. CASE \E c \in NearestFree :
          /\ SetFat(c, Eoc)
          /\ hint' = After(c)
          /\ head' = c
          /\ req' = [op |-> "mkdir", name |-> n, key |-> ShortOf[n], size |-> 0, val |-> Dot]
          /\ ret' = "none"
          /\ pc' = "dots"
          /\ UNCHANGED <<found, target, cur, last, prev, left>>
  <2>1. PICK c \in NearestFree :
          /\ SetFat(c, Eoc)
          /\ hint' = After(c)
          /\ head' = c
          /\ req' = [op |-> "mkdir", name |-> n, key |-> ShortOf[n], size |-> 0, val |-> Dot]
          /\ ret' = "none"
          /\ pc' = "dots"
          /\ UNCHANGED <<found, target, cur, last, prev, left>>
    BY <1>4
  <2>2. c \in Clusters
    BY DEF NearestFree, FreeClusters
  <2>3. DiskOK' /\ DirHasCluster' /\ PastOK'
    BY <1>1, <2>1, <2>2, Apart, SetFatTyped DEF DiskOK, DirHasCluster, Named, PastOK
  <2>4. KeptOK'
    BY <1>1, <2>1, <2>2, AfterIn DEF KeptOK
  <2>5. ShortOf[n] \in ShortNames
    BY NameAssumption
  <2>6. CallOK'
    BY <2>1, <2>5 DEF CallOK, PCs, Requests
  <2>7. LocalsOK'
    BY <2>1, <2>2 DEF LocalsOK
  <2>8. Asked' /\ Stage' /\ Fresh'
    BY <1>1, <2>1, <2>2, <2>5, Apart DEF Asked, Stage, Fresh
  <2> QED BY <2>3, <2>4, <2>6, <2>7, <2>8
<1> QED BY <1>3, <1>4 DEF MkdirCall

(* The dots of a new directory are written: the volume stays typed.        *)
LEMMA WriteDotsType == TypeInv /\ WriteDots /\ OneTable' => TypeInv'
<1> SUFFICES ASSUME TypeInv, WriteDots, OneTable' PROVE TypeInv'
  OBVIOUS
<1> USE DEF TypeInv
<1> DEFINE up  == IF cwd = RootCluster THEN 0 ELSE cwd
           new == [i \in Indices |->
       CASE i = 1 -> Entry("dir", Dot, head, 0)
         [] i = 2 -> Entry("dir", DotDot, up, 0)
         [] OTHER -> End]
<1>1. /\ pc = "dots"
      /\ WriteCluster(head, new)
      /\ torn' = (torn \/ faults' # faults)
      /\ pc' = "slot"
      /\ cur' = cwd /\ last' = cwd
      /\ UNCHANGED <<fat, table, memory, req, ret, found, target, head, prev, left, crashes>>
  BY DEF WriteDots
<1>2. head \in Clusters \cup {0} /\ up \in Clusters \cup {0} /\ 0 \in Nat
  BY DEF LocalsOK, KeptOK
<1> HIDE DEF up
<1>3. new \in [Indices -> Records]
  <2>1. Entry("dir", Dot, head, 0) \in Records /\ Entry("dir", DotDot, up, 0) \in Records /\ End \in Records
    BY <1>2, RecordsIn
  <2> QED BY <2>1
<1>4. slot' \in [SlotIds -> Records] /\ faults' \in 0 .. MaxFaults
  <2> HIDE DEF new
  <2> QED BY <1>1, <1>3, ClusterTyped DEF DiskOK, PastOK
<1>5. DirHasCluster'
  <2>1. PICK k \in 0 .. SlotsPerCluster :
          slot' = [s \in SlotIds |-> IF s[1] = head /\ s[2] <= k THEN new[s[2]] ELSE slot[s]]
    BY <1>1 DEF WriteCluster
  <2>2. \A s \in SlotIds : s[2] \in Indices
    BY DEF SlotIds
  <2>3. \A i \in Indices : ~ Named(new[i])
    BY NameAssumption DEF Named, IsEntry, Entry, End
  <2> HIDE DEF new
  <2> QED BY <2>1, <2>2, <2>3 DEF DirHasCluster
<1> HIDE DEF new
<1>6. DiskOK'
  BY <1>1, <1>4 DEF DiskOK
<1>7. PastOK'
  BY <1>1, <1>4 DEF PastOK
<1>8. KeptOK' /\ CallOK'
  BY <1>1 DEF KeptOK, CallOK, PCs, memory
<1>9. LocalsOK'
  BY <1>1, Apart DEF LocalsOK, KeptOK
<1>10. Asked' /\ Stage' /\ Fresh'
  BY <1>1 DEF Asked, Stage, Fresh, KeptOK
<1> QED BY <1>5, <1>6, <1>7, <1>8, <1>9, <1>10

(* A vacant record is found: the volume stays typed.                       *)
LEMMA SlotHitType == TypeInv /\ SlotHit /\ OneTable' => TypeInv'
<1> SUFFICES ASSUME TypeInv, SlotHit, OneTable' PROVE TypeInv'
  OBVIOUS
<1> USE DEF TypeInv, SlotHit
<1>1. DirHasCluster' /\ DiskOK'
  BY TypeSameDisk
<1>2. KeptOK' /\ PastOK' /\ CallOK'
  BY DEF KeptOK, PastOK, CallOK, PCs, memory, history
<1>3. cur \in Clusters
  BY Apart DEF LocalsOK
<1>4. target' \in SlotIds
  BY <1>3 DEF Vacancies, SlotIds
<1>5. LocalsOK'
  BY <1>3, <1>4 DEF LocalsOK
<1>6. Asked' /\ Stage' /\ Fresh'
  BY <1>4 DEF Asked, Stage, Fresh, LocalsOK
<1> QED BY <1>1, <1>2, <1>5, <1>6

(* The search goes to the next cluster of the directory: the volume stays  *)
(* typed.                                                                  *)
LEMMA SlotNextType == TypeInv /\ SlotNext /\ OneTable' => TypeInv'
<1> SUFFICES ASSUME TypeInv, SlotNext, OneTable' PROVE TypeInv'
  OBVIOUS
<1> USE DEF TypeInv, SlotNext
<1>1. DirHasCluster' /\ DiskOK'
  BY TypeSameDisk
<1>2. KeptOK' /\ PastOK' /\ CallOK'
  BY DEF KeptOK, PastOK, CallOK, PCs, memory, history
<1>3. cur \in Clusters /\ fat[cur] \in Links
  BY Apart DEF LocalsOK, DiskOK
<1>5. LocalsOK'
  BY <1>3 DEF LocalsOK
<1>6. Asked' /\ Stage' /\ Fresh'
  BY <1>3 DEF Asked, Stage, Fresh, LocalsOK
<1> QED BY <1>1, <1>2, <1>5, <1>6

(* The directory is full: the volume stays typed.                          *)
LEMMA SlotMissType == TypeInv /\ SlotMiss /\ OneTable' => TypeInv'
<1> SUFFICES ASSUME TypeInv, SlotMiss, OneTable' PROVE TypeInv'
  OBVIOUS
<1> USE DEF TypeInv, SlotMiss
<1>1. DirHasCluster' /\ DiskOK'
  BY TypeSameDisk
<1>2. KeptOK' /\ PastOK' /\ CallOK'
  BY DEF KeptOK, PastOK, CallOK, PCs, memory, history
<1>5. LocalsOK'
  BY Apart DEF LocalsOK
<1>6. Asked' /\ Stage' /\ Fresh'
  BY DEF Asked, Stage, Fresh, LocalsOK
<1> QED BY <1>1, <1>2, <1>5, <1>6

(* A cluster is taken for the directory: the volume stays typed.           *)
LEMMA ExtendType == TypeInv /\ Extend /\ OneTable' => TypeInv'
<1> SUFFICES ASSUME TypeInv, Extend, OneTable' PROVE TypeInv'
  OBVIOUS
<1> USE DEF TypeInv
<1>1. PICK c \in NearestFree : SetFat(c, Eoc) /\ hint' = After(c) /\ cur' = c
  BY DEF Extend
<1>2. /\ pc = "extend" /\ pc' = "elink" /\ c \in Clusters
      /\ UNCHANGED <<slot, cwd, req, ret, found, target, last, head, prev, left, crashes>>
  BY DEF Extend, NearestFree, FreeClusters
<1>3. DiskOK' /\ DirHasCluster' /\ PastOK'
  BY <1>1, <1>2, Apart, SetFatTyped DEF DiskOK, DirHasCluster, Named, PastOK
<1>4. KeptOK' /\ CallOK'
  BY <1>1, <1>2, AfterIn DEF KeptOK, CallOK, PCs
<1>5. LocalsOK'
  BY <1>1, <1>2, Apart DEF LocalsOK
<1>6. Asked' /\ Stage' /\ Fresh'
  BY <1>1, <1>2 DEF Asked, Stage, Fresh
<1> QED BY <1>3, <1>4, <1>5, <1>6

(* The two entries that link it: what they leave of the table.             *)
LEMMA LinkDirTable ==
  ASSUME TypeInv, LinkDir
  PROVE  /\ fat' \in [Clusters -> Links] /\ table' \in [Clusters -> Links]
         /\ torn' \in BOOLEAN /\ faults' \in 0 .. MaxFaults
         /\ ~ torn' => /\ fat' = [fat EXCEPT ![last] = cur, ![cur] = Eoc]
                       /\ table' = [table EXCEPT ![last] = cur, ![cur] = Eoc]
                       /\ ~ torn /\ UNCHANGED <<torn, faults>>
<1>1. cur \in Clusters /\ last \in Clusters /\ faults \in Nat
  BY DEF LinkDir, TypeInv, Stage, PastOK
<1>2. PICK lost \in SUBSET {last, cur} :
       /\ faults' = faults + Cardinality(lost) /\ faults' <= MaxFaults
       /\ torn' = (torn \/ lost # {})
       /\ table' = Linked(table, lost)
       /\ \E unseen \in SUBSET lost : fat' = Linked(fat, unseen)
  BY DEF LinkDir
<1>3. PICK unseen \in SUBSET lost : fat' = Linked(fat, unseen)
  BY <1>2
<1>4. ASSUME NEW f \in [Clusters -> Links], NEW but
      PROVE  /\ Linked(f, but) \in [Clusters -> Links]
             /\ but = {} => Linked(f, but) = [f EXCEPT ![last] = cur, ![cur] = Eoc]
  <2>1. ASSUME NEW x \in Links, NEW y \in Links
        PROVE  [f EXCEPT ![last] = x, ![cur] = y] \in [Clusters -> Links]
    BY <1>1
  <2>2. ASSUME NEW x, NEW B
        PROVE  (IF B THEN f[last] ELSE cur) \in Links
    BY <1>1, Apart
  <2> QED BY <1>1, <2>1, Apart DEF Linked
<1>5. IsFiniteSet(lost)
  <2>1. IsFiniteSet({last}) /\ {last, cur} = {last} \cup {cur}
    BY FS_Singleton
  <2>2. IsFiniteSet({last, cur})
    BY <2>1, FS_AddElement
  <2> QED BY <2>2, FS_Subset
<1>6. Cardinality(lost) \in Nat /\ (lost = {} => Cardinality(lost) = 0)
  BY <1>5, FS_CardinalityType, FS_EmptySet
<1>7. torn' \in BOOLEAN /\ faults' \in 0 .. MaxFaults
  BY <1>1, <1>2, <1>6, InputAssumption DEF TypeInv, PastOK
<1>8. fat' \in [Clusters -> Links] /\ table' \in [Clusters -> Links]
  BY <1>2, <1>3, <1>4 DEF TypeInv, DiskOK
<1>9. ASSUME ~ torn' PROVE lost = {} /\ unseen = {} /\ ~ torn
  BY <1>2, <1>9 DEF TypeInv, PastOK
<1> QED BY <1>1, <1>2, <1>3, <1>4, <1>6, <1>7, <1>8, <1>9 DEF TypeInv, DiskOK, PastOK

(* It is linked behind the directory: the volume stays typed.              *)
LEMMA LinkDirType == TypeInv /\ LinkDir /\ OneTable' => TypeInv'
<1> SUFFICES ASSUME TypeInv, LinkDir, OneTable' PROVE TypeInv'
  OBVIOUS
<1> USE DEF TypeInv, LinkDir
<1>1. cur \in Clusters /\ last \in Clusters
  BY DEF Stage
<1>2. DiskOK' /\ DirHasCluster' /\ PastOK'
  BY <1>1, LinkDirTable DEF DiskOK, DirHasCluster, Named, PastOK
<1>3. KeptOK' /\ CallOK' /\ LocalsOK'
  BY DEF KeptOK, CallOK, PCs, LocalsOK, memory, locals
<1>4. Asked' /\ Stage' /\ Fresh'
  BY DEF Asked, Stage, Fresh, locals
<1> QED BY <1>2, <1>3, <1>4

(* It is cleared: the volume stays typed.                                  *)
LEMMA ClearDirType == TypeInv /\ ClearDir /\ OneTable' => TypeInv'
<1> SUFFICES ASSUME TypeInv, ClearDir, OneTable' PROVE TypeInv'
  OBVIOUS
<1> USE DEF TypeInv
<1> DEFINE new == [i \in Indices |-> End]
<1>1. /\ pc = "clear"
      /\ WriteCluster(cur, new)
      /\ torn' = (torn \/ faults' # faults)
      /\ target' = <<cur, 1>>
      /\ pc' = "entry"
      /\ UNCHANGED <<fat, table, memory, req, ret, found, cur, last, head, prev, left, crashes>>
  BY DEF ClearDir
<1>2. new \in [Indices -> Records]
  BY RecordsIn
<1>3. slot' \in [SlotIds -> Records] /\ faults' \in 0 .. MaxFaults
  <2> HIDE DEF new
  <2> QED BY <1>1, <1>2, ClusterTyped DEF DiskOK, PastOK
<1>4. DirHasCluster'
  <2>1. PICK k \in 0 .. SlotsPerCluster :
          slot' = [s \in SlotIds |-> IF s[1] = cur /\ s[2] <= k THEN new[s[2]] ELSE slot[s]]
    BY <1>1 DEF WriteCluster
  <2>2. \A s \in SlotIds : s[2] \in Indices
    BY DEF SlotIds
  <2>3. \A i \in Indices : ~ Named(new[i])
    BY DEF Named, IsEntry, End
  <2> HIDE DEF new
  <2> QED BY <2>1, <2>2, <2>3 DEF DirHasCluster
<1> HIDE DEF new
<1>5. DiskOK'
  BY <1>1, <1>3 DEF DiskOK
<1>6. PastOK'
  BY <1>1, <1>3 DEF PastOK
<1>7. KeptOK' /\ CallOK'
  BY <1>1 DEF KeptOK, CallOK, PCs, memory
<1>8. target' \in SlotIds
  BY <1>1, Apart DEF Stage, SlotIds
<1>9. LocalsOK'
  BY <1>1, <1>8 DEF LocalsOK
<1>10. found = NoSlot
  BY <1>1 DEF Stage
<1>11. Asked' /\ Stage' /\ Fresh'
  BY <1>1, <1>8, <1>10 DEF Asked, Stage, Fresh
<1> QED BY <1>4, <1>5, <1>6, <1>7, <1>9, <1>11

(* The entry is written: the volume stays typed.                           *)
LEMMA WriteEntryType == TypeInv /\ WriteEntry /\ OneTable' => TypeInv'
<1> SUFFICES ASSUME TypeInv, WriteEntry, OneTable' PROVE TypeInv'
  OBVIOUS
<1> USE DEF TypeInv
<1> DEFINE kind == IF req.op = "mkdir" THEN "dir" ELSE "file"
           new  == Entry(kind, req.key, head, req.size)
<1>1. /\ pc = "entry"
      /\ \/ slot' = [slot EXCEPT ![target] = new] /\ UNCHANGED <<torn, faults>>
         \/ faults < MaxFaults /\ faults' = faults + 1 /\ torn' = (torn \/ Invalidated) /\ UNCHANGED slot
      /\ Return("ok")
      /\ UNCHANGED <<fat, table, memory, crashes>>
  BY DEF WriteEntry
<1>2. kind \in {"file", "dir"} /\ req.key \in ShortNames /\ head \in Clusters \cup {0} /\ req.size \in Nat
  BY <1>1 DEF Stage, Asked, LocalsOK, CallOK, Requests
<1>3. new \in Records
  <2> HIDE DEF kind
  <2> QED BY <1>2, RecordsIn
<1>4. Named(new) /\ new.kind = "dir" => new.first # 0
  BY DEF Entry, Stage
<1> HIDE DEF new
<1>5. DiskOK' /\ DirHasCluster'
  BY <1>1, <1>3, <1>4 DEF DiskOK, DirHasCluster, Named
<1>6. KeptOK'
  BY <1>1 DEF KeptOK, memory
<1>7. PastOK'
  <2>1. faults' \in 0 .. MaxFaults
    BY <1>1, InputAssumption DEF PastOK
  <2> QED BY <1>1, <2>1 DEF PastOK
<1> QED BY <1>1, <1>5, <1>6, <1>7, ReturnType

(* The machine stops and mounts the volume again: the volume stays typed.  *)
LEMMA CrashType == TypeInv /\ Crash /\ OneTable' => TypeInv'
<1> SUFFICES ASSUME TypeInv, Crash, OneTable' PROVE TypeInv'
  OBVIOUS
<1> USE DEF TypeInv, Crash
<1>1. DirHasCluster' /\ DiskOK'
  BY DEF DirHasCluster, DiskOK, Named
<1>2. KeptOK'
  BY VolumeAssumption DEF KeptOK, Clusters
<1>3. PastOK'
  <2>1. crashes' \in 0 .. MaxCrashes
    BY InputAssumption DEF PastOK
  <2> QED BY <2>1 DEF PastOK
<1> QED BY <1>1, <1>2, <1>3, ReturnType

(* The cached sector is read again: the volume stays typed.                *)
LEMMA ReloadType == TypeInv /\ Reload /\ OneTable' => TypeInv'
<1> SUFFICES ASSUME TypeInv, Reload, OneTable' PROVE TypeInv'
  OBVIOUS
<1> USE DEF TypeInv, Reload, memory, locals, history
<1>1. DirHasCluster' /\ DiskOK' /\ KeptOK' /\ CallOK'
  BY DEF DirHasCluster, DiskOK, Named, KeptOK, CallOK
<1>2. LocalsOK' /\ PastOK'
  BY DEF LocalsOK, PastOK
<1>3. Asked' /\ Stage'
  BY DEF Asked, Stage
<1>4. torn /\ Fresh'
  BY DEF Fresh, OneTable
<1> QED BY <1>1, <1>2, <1>3, <1>4

(* The typing invariant is inductive.                                      *)
LEMMA TypeStep == TypeInv /\ [Next]_vars => TypeInv'
<1> SUFFICES ASSUME TypeInv, [Next]_vars PROVE TypeInv'
  OBVIOUS
<1>0. OneTable'
  BY OneTableStep
<1>1. CASE Call
  BY <1>0, <1>1, WriteCallType, MkdirCallType, CdCallType DEF Call
<1>2. CASE Step
  BY <1>0, <1>2, FindHitType, FindNextType, FindMissType, FreeStepType, FreeDoneType, AllocFileType, LinkFileType,
     AllocFullType, SealFileType, WriteDataType, DataDoneType, WriteDotsType, SlotHitType, SlotNextType,
     SlotMissType, ExtendType, LinkDirType, ClearDirType, WriteEntryType DEF Step
<1>3. CASE Crash
  BY <1>0, <1>3, CrashType
<1>5. CASE Reload
  BY <1>0, <1>5, ReloadType
<1>4. CASE UNCHANGED vars
  <2> USE <1>4 DEF vars, disk, memory, locals, history, TypeInv
  <2>1. DiskOK' /\ KeptOK' /\ CallOK' /\ DirHasCluster'
    BY DEF DiskOK, KeptOK, CallOK, DirHasCluster, Named
  <2>2. LocalsOK' /\ PastOK'
    BY DEF LocalsOK, PastOK
  <2>3. Asked' /\ Stage'
    BY DEF Asked, Stage
  <2>4. Fresh'
    BY DEF Fresh
  <2> QED BY <1>0, <2>1, <2>2, <2>3, <2>4
<1> QED BY <1>1, <1>2, <1>3, <1>4, <1>5 DEF Next

(* What is torn stays so.                                                  *)
LEMMA TornStays == TypeInv /\ [Next]_vars /\ ~ torn' => ~ torn
<1> SUFFICES ASSUME TypeInv, [Next]_vars, ~ torn' PROVE ~ torn
  OBVIOUS
<1>1. CASE Call
  <2>1. CASE \E n \in Names : MkdirCall(n)
    BY <2>1 DEF MkdirCall, SetFat
  <2> QED BY <1>1, <2>1 DEF Call, WriteCall, CdCall, history
<1>2. CASE FreeStep \/ AllocFile \/ LinkFile \/ SealFile \/ Extend
  BY <1>2 DEF FreeStep, AllocFile, LinkFile, SealFile, Extend, SetFat
<1>3. CASE LinkDir
  BY <1>3, LinkDirTable
<1>4. CASE \/ FindHit \/ FindNext \/ FindMiss \/ FreeDone \/ AllocFull \/ WriteData \/ DataDone \/ WriteDots
           \/ SlotHit \/ SlotNext \/ SlotMiss \/ ClearDir \/ WriteEntry
  BY <1>4 DEF FindHit, FindNext, FindMiss, FreeDone, AllocFull, WriteData, DataDone, WriteDots,
       SlotHit, SlotNext, SlotMiss, ClearDir, WriteEntry, history
<1>5. CASE Crash \/ Reload
  BY <1>5 DEF Crash, Reload, history
<1>6. CASE UNCHANGED vars
  BY <1>6 DEF vars, history
<1> QED BY <1>1, <1>2, <1>3, <1>4, <1>5, <1>6 DEF Next, Step

(* The last entry of the new chain is an end mark already.                 *)
LEMMA SealSame ==
  ASSUME TypeInv, SealFile, ~ torn'
  PROVE  UNCHANGED fat
<1>0. ~ torn
  BY DEF SealFile, SetFat
<1>1. CASE prev = 0
  BY <1>1 DEF SealFile
<1>2. CASE prev # 0
  <2>1. fat[prev] = Eoc
    <3>1. pc = "alloc" /\ left = 0
      BY DEF SealFile
    <3>2. PICK n \in Nat : IF n = 0 THEN head = 0 /\ prev = 0
                           ELSE Row(fat, n, head, prev) /\ fat[prev] = Eoc
      BY <1>0, <3>1 DEF TypeInv, Fresh
    <3> QED BY <1>2, <3>2
  <2>2. fat \in [Clusters -> Links] /\ fat' = [fat EXCEPT ![prev] = Eoc]
    BY <1>2 DEF SealFile, SetFat, TypeInv, DiskOK
  <2> QED BY <2>1, <2>2
<1> QED BY <1>1, <1>2

(* The data goes to clusters of the file.                                  *)
LEMMA DataInside ==
  ASSUME TypeInv, WriteData, ~ torn
  PROVE  cur \in Clusters /\ cur' = fat[cur]
<1>1. pc = "data" /\ left > 0 /\ cur' \in Following(cur)
  BY DEF WriteData
<1>2. PICK n \in Nat : left <= n * SlotsPerCluster /\ \E b \in Clusters : Row(fat, n, cur, b)
  BY <1>1 DEF TypeInv, Fresh
<1>3. n # 0
  BY <1>1, <1>2, VolumeAssumption DEF TypeInv, LocalsOK
<1>4. cur \in Clusters
  BY <1>2, <1>3 DEF Row
<1> QED BY <1>1, <1>4 DEF Following

(* Every variable stays in its range; in particular the data of a file     *)
(* never runs past the clusters allocated for it (fat32.c:412).            *)
THEOREM TypeCorrect == Spec => []TypeOK
<1>1. TypeInv => TypeOK
  BY TypeParts DEF TypeInv
<1> QED BY <1>1, TypeInit, TypeStep, PTL DEF Spec

-----------------------------------------------------------------------------
(* Sets of clusters that no table entry leads out of, and the least one    *)
(* that holds c: that is the chain of c.                                   *)
Closed(f, S) == \A x \in S : f[x] \in Clusters => f[x] \in S
Orbit(f, c) == {b \in Clusters : \A S \in SUBSET Clusters : c \in S /\ Closed(f, S) => b \in S}

(* A set of natural numbers has a least one.                               *)
LEMMA Least ==
  ASSUME NEW S \in SUBSET Nat, S # {}
  PROVE  \E m \in S : \A k \in S : m <= k
<1>1. IsWellFoundedOn(OpToRel(<, Nat), Nat)
  BY NatLessThanWellFounded
<1>2. PICK m \in S : \A k \in S : ~ (<<k, m>> \in OpToRel(<, Nat))
  BY <1>1, WFMin
<1>3. \A k \in S : ~ (k < m)
  BY <1>2 DEF OpToRel
<1> QED BY <1>3

(* The first m turns of the loop over the chain of c in table f.           *)
Turns(f, c, m, w) ==
  w = [k \in 0 .. m |-> IF k = 0 THEN {c} ELSE UNION {{b, f[b]} : b \in w[k - 1] \cap Clusters}]

(* The loop over a chain has turns of any number.                          *)
LEMMA TurnsExist ==
  ASSUME NEW f, NEW c, NEW n \in Nat
  PROVE  \E w : Turns(f, c, n, w)
<1> DEFINE Missing == {m \in Nat : m <= n /\ ~ \E w : Turns(f, c, m, w)}
<1>1. SUFFICES ASSUME Missing # {} PROVE FALSE
  <2>1. SUFFICES ASSUME ~ \E w : Turns(f, c, n, w) PROVE Missing # {}
    OBVIOUS
  <2>2. n \in Missing
    BY <2>1
  <2> QED BY <2>2
<1>2. PICK m \in Missing : \A k \in Missing : m <= k
  BY <1>1, Least
<1>3. m # 0
  <2>1. Turns(f, c, 0, [k \in 0 .. 0 |-> {c}])
    BY DEF Turns
  <2> QED BY <2>1
<1>4. PICK w : Turns(f, c, m - 1, w)
  <2>1. m - 1 \in Nat /\ m - 1 \notin Missing
    BY <1>2, <1>3
  <2> QED BY <2>1
<1> DEFINE new == UNION {{b, f[b]} : b \in w[m - 1] \cap Clusters}
           v == [k \in 0 .. m |-> IF k = m THEN new ELSE w[k]]
<1>5. m \in Nat \ {0}
  BY <1>3
<1>6. \A k \in 0 .. m - 1 : v[k] = w[k]
  BY <1>5
<1>7. \A k \in 0 .. m - 1 : w[k] = IF k = 0 THEN {c} ELSE UNION {{b, f[b]} : b \in w[k - 1] \cap Clusters}
  BY <1>4, <1>5 DEF Turns
<1>8. v[m] = UNION {{b, f[b]} : b \in v[m - 1] \cap Clusters}
  <2>1. v[m] = new
    BY <1>5
  <2>2. v[m - 1] = w[m - 1]
    BY <1>5, <1>6
  <2> QED BY <2>1, <2>2
<1>9. v = [k \in 0 .. m |-> v[k]]
  OBVIOUS
<1> HIDE DEF v, new
<1>10. ASSUME NEW k \in 0 .. m
       PROVE  v[k] = IF k = 0 THEN {c} ELSE UNION {{b, f[b]} : b \in v[k - 1] \cap Clusters}
  <2>1. CASE k = m
    BY <1>5, <1>8, <2>1
  <2>2. CASE k # m
    <3>1. k \in 0 .. m - 1 /\ (k # 0 => k - 1 \in 0 .. m - 1)
      BY <1>5, <2>2
    <3> QED BY <1>6, <1>7, <3>1
  <2> QED BY <2>1, <2>2
<1>11. Turns(f, c, m, v)
  BY <1>9, <1>10 DEF Turns
<1> QED BY <1>2, <1>11

(* The clusters come to within k turns.                                    *)
LEMMA TurnsStep ==
  ASSUME NEW f, NEW c, NEW w, Turns(f, c, TotalClusters, w)
  PROVE  /\ w[0] = {c}
         /\ \A k \in 0 .. TotalClusters - 1 :
              w[k + 1] = UNION {{b, f[b]} : b \in w[k] \cap Clusters}
<1>1. TotalClusters \in Nat
  BY VolumeAssumption
<1>2. w[0] = {c}
  BY <1>1 DEF Turns
<1>3. ASSUME NEW k \in 0 .. TotalClusters - 1
      PROVE  w[k + 1] = UNION {{b, f[b]} : b \in w[k] \cap Clusters}
  <2>1. k + 1 \in 0 .. TotalClusters /\ k + 1 # 0 /\ (k + 1) - 1 = k
    BY <1>1
  <2> QED BY <2>1 DEF Turns
<1> QED BY <1>2, <1>3

(* There are as many clusters as the volume says.                          *)
LEMMA ClusterCount == IsFiniteSet(Clusters) /\ Cardinality(Clusters) = TotalClusters
<1>1. 2 \in Int /\ TotalClusters + 1 \in Int /\ TotalClusters \in Nat \ {0}
  BY VolumeAssumption
<1>2. IsFiniteSet(2 .. TotalClusters + 1)
      /\ Cardinality(2 .. TotalClusters + 1) = IF 2 > TotalClusters + 1 THEN 0 ELSE (TotalClusters + 1) - 2 + 1
  BY <1>1, FS_Interval
<1> QED BY <1>1, <1>2 DEF Clusters

(* As many turns as there are clusters leave nothing out: what the loop    *)
(* has come to then is closed.                                             *)
LEMMA TurnsClosed ==
  ASSUME NEW f, NEW c \in Clusters, NEW w, Turns(f, c, TotalClusters, w)
  PROVE  c \in w[TotalClusters] /\ Closed(f, w[TotalClusters] \cap Clusters)
<1> DEFINE W(k) == w[k] \cap Clusters
           Good(k) == c \in w[k] /\ (Closed(f, W(k)) \/ Cardinality(W(k)) >= k + 1)
           Bad == {k \in Nat : k <= TotalClusters /\ ~ Good(k)}
<1>1. TotalClusters \in Nat
  BY VolumeAssumption
<1>2. \A k \in Nat : k <= TotalClusters => Good(k)
  <2>1. SUFFICES ASSUME Bad # {} PROVE FALSE
    OBVIOUS
  <2>2. PICK m \in Bad : \A k \in Bad : m <= k
    BY <2>1, Least
  <2>3. m # 0
    <3>1. W(0) = {c} /\ c \in w[0]
      BY TurnsStep
    <3>2. Cardinality({c}) = 1
      BY FS_Singleton
    <3> QED BY <2>2, <3>1, <3>2
  <2> DEFINE k == m - 1
  <2>4. k \in Nat /\ k \in 0 .. TotalClusters - 1 /\ k <= TotalClusters /\ k + 1 = m /\ k \notin Bad
    BY <1>1, <2>2, <2>3
  <2>5. Good(k)
    BY <2>4
  <2> HIDE DEF k
  <2>6. w[m] = UNION {{b, f[b]} : b \in W(k)}
    BY <2>4, TurnsStep
  <2>7. W(k) \subseteq W(m) /\ c \in w[m]
    BY <2>5, <2>6
  <2>8. CASE Closed(f, W(k))
    <3>1. Closed(f, W(m))
      BY <2>6, <2>8 DEF Closed
    <3> QED BY <2>2, <2>7, <3>1
  <2>9. CASE ~ Closed(f, W(k))
    <3>1. PICK x \in W(k) : f[x] \in Clusters /\ f[x] \notin W(k)
      BY <2>9 DEF Closed
    <3>2. f[x] \in W(m)
      BY <2>6, <3>1
    <3>3. IsFiniteSet(W(k)) /\ IsFiniteSet(W(m))
      <4>1. W(k) \in SUBSET Clusters /\ W(m) \in SUBSET Clusters
        OBVIOUS
      <4> HIDE DEF W
      <4> QED BY <4>1, ClusterCount, FS_Subset
    <3>4. Cardinality(W(k) \cup {f[x]}) = Cardinality(W(k)) + 1 /\ IsFiniteSet(W(k) \cup {f[x]})
      BY <3>1, <3>3, FS_AddElement
    <3>5. W(k) \cup {f[x]} \in SUBSET W(m)
      BY <2>7, <3>2
    <3>6. Cardinality(W(k) \cup {f[x]}) <= Cardinality(W(m))
      BY <3>3, <3>5, FS_Subset
    <3>7. Cardinality(W(k)) >= k + 1
      BY <2>5, <2>9
    <3>8. Cardinality(W(k)) \in Nat /\ Cardinality(W(m)) \in Nat
      BY <3>3, FS_CardinalityType
    <3>9. Cardinality(W(m)) >= m + 1
      BY <2>4, <3>4, <3>6, <3>7, <3>8
    <3> QED BY <2>2, <2>7, <3>9
  <2> QED BY <2>8, <2>9
<1>3. Good(TotalClusters)
  BY <1>1, <1>2
<1>4. ~ (Cardinality(W(TotalClusters)) >= TotalClusters + 1)
  <2>1. W(TotalClusters) \in SUBSET Clusters
    OBVIOUS
  <2> HIDE DEF W
  <2>2. Cardinality(W(TotalClusters)) <= TotalClusters /\ Cardinality(W(TotalClusters)) \in Nat
    BY <2>1, ClusterCount, FS_Subset, FS_CardinalityType
  <2> QED BY <1>1, <2>2
<1> QED BY <1>3, <1>4

(* The loop comes to nothing outside of a closed set it begins in.         *)
LEMMA TurnsWithin ==
  ASSUME NEW f, NEW c, NEW w, Turns(f, c, TotalClusters, w),
         NEW S \in SUBSET Clusters, c \in S, Closed(f, S)
  PROVE  w[TotalClusters] \cap Clusters \subseteq S
<1> DEFINE Bad == {k \in Nat : k <= TotalClusters /\ ~ (w[k] \cap Clusters \subseteq S)}
<1>1. TotalClusters \in Nat
  BY VolumeAssumption
<1>2. SUFFICES ASSUME Bad # {} PROVE FALSE
  BY <1>1
<1>3. PICK m \in Bad : \A k \in Bad : m <= k
  BY <1>2, Least
<1>4. m # 0
  BY <1>3, TurnsStep
<1>5. PICK k \in Nat : k \in 0 .. TotalClusters - 1 /\ k <= TotalClusters /\ k + 1 = m
  <2>1. m - 1 \in Nat /\ m - 1 \in 0 .. TotalClusters - 1 /\ m - 1 <= TotalClusters /\ (m - 1) + 1 = m
    BY <1>1, <1>3, <1>4
  <2> QED BY <2>1
<1>6. w[k] \cap Clusters \subseteq S
  BY <1>3, <1>5
<1>7. w[m] = UNION {{b, f[b]} : b \in w[k] \cap Clusters}
  BY <1>5, TurnsStep
<1>8. w[m] \cap Clusters \subseteq S
  BY <1>6, <1>7 DEF Closed
<1> QED BY <1>3, <1>8

(* From a mark the loop goes nowhere.                                      *)
LEMMA TurnsNone ==
  ASSUME NEW f, NEW c, c \notin Clusters, NEW w, Turns(f, c, TotalClusters, w)
  PROVE  w[TotalClusters] \cap Clusters = {}
<1>1. {} \in SUBSET Clusters /\ TotalClusters \in Nat \ {0} /\ 0 \in 0 .. TotalClusters - 1
  BY VolumeAssumption
<1> DEFINE Bad == {k \in Nat : k <= TotalClusters /\ w[k] \cap Clusters # {}}
<1>2. SUFFICES ASSUME Bad # {} PROVE FALSE
  BY <1>1
<1>3. PICK m \in Bad : \A k \in Bad : m <= k
  BY <1>2, Least
<1>4. m # 0
  BY <1>3, TurnsStep
<1>5. PICK k \in Nat : k \in 0 .. TotalClusters - 1 /\ k <= TotalClusters /\ k + 1 = m
  <2>1. m - 1 \in Nat /\ m - 1 \in 0 .. TotalClusters - 1 /\ m - 1 <= TotalClusters /\ (m - 1) + 1 = m
    BY <1>1, <1>3, <1>4
  <2> QED BY <2>1
<1>6. w[k] \cap Clusters = {}
  BY <1>3, <1>5
<1>7. w[m] = UNION {{b, f[b]} : b \in w[k] \cap Clusters}
  BY <1>5, TurnsStep
<1> QED BY <1>3, <1>6, <1>7

(* The chain of a cluster, in any table.                                   *)
Trail(f, c) ==
  LET within[k \in 0 .. TotalClusters] ==
        IF k = 0 THEN {c} ELSE UNION {{b, f[b]} : b \in within[k - 1] \cap Clusters}
  IN within[TotalClusters] \cap Clusters

(* A chain is what the loop comes to in as many turns as there are         *)
(* clusters.                                                               *)
LEMMA TrailTurns ==
  ASSUME NEW f, NEW c
  PROVE  \E w : Turns(f, c, TotalClusters, w) /\ Trail(f, c) = w[TotalClusters] \cap Clusters
<1> DEFINE w == CHOOSE w : Turns(f, c, TotalClusters, w)
<1>1. Turns(f, c, TotalClusters, w)
  BY TurnsExist, VolumeAssumption
<1>2. Trail(f, c) = w[TotalClusters] \cap Clusters
  BY DEF Trail, Turns
<1> QED BY <1>1, <1>2

(* So it is the least closed set with its first cluster.                   *)
LEMMA TrailIs ==
  ASSUME NEW f, NEW c
  PROVE  Trail(f, c) = IF c \in Clusters THEN Orbit(f, c) ELSE {}
<1>1. PICK w : Turns(f, c, TotalClusters, w) /\ Trail(f, c) = w[TotalClusters] \cap Clusters
  BY TrailTurns
<1>2. CASE c \in Clusters
  <2>1. c \in w[TotalClusters] /\ Closed(f, w[TotalClusters] \cap Clusters)
    BY <1>1, <1>2, TurnsClosed
  <2>2. \A S \in SUBSET Clusters : c \in S /\ Closed(f, S) => w[TotalClusters] \cap Clusters \subseteq S
    BY <1>1, TurnsWithin
  <2> QED BY <1>1, <1>2, <2>1, <2>2 DEF Orbit
<1>3. CASE c \notin Clusters
  BY <1>1, <1>3, TurnsNone
<1> QED BY <1>2, <1>3

(* The chains of the model are those of the table, before and after a      *)
(* step.                                                                   *)
LEMMA ChainIs ==
  /\ \A c : Chain(c) = Trail(fat, c)
  /\ \A c : Chain(c)' = Trail(fat', c)
BY DEF Chain, Trail

(* A chain is made of clusters and holds its first.                        *)
LEMMA TrailHas ==
  ASSUME NEW f, NEW c
  PROVE  /\ Trail(f, c) \subseteq Clusters
         /\ c \in Clusters => c \in Trail(f, c)
         /\ c \notin Clusters => Trail(f, c) = {}
BY TrailIs DEF Orbit

(* Nothing in a chain leads out of it.                                     *)
LEMMA TrailNext ==
  ASSUME NEW f, NEW c
  PROVE  Closed(f, Trail(f, c))
BY TrailIs DEF Orbit, Closed

(* A closed set holds the chains of its clusters.                          *)
LEMMA TrailLeast ==
  ASSUME NEW f, NEW S \in SUBSET Clusters, NEW c \in S, Closed(f, S)
  PROVE  Trail(f, c) \subseteq S
BY TrailIs DEF Orbit

(* What is in a chain is its first cluster or follows one that is.         *)
LEMMA TrailPred ==
  ASSUME NEW f, NEW c \in Clusters, NEW x \in Trail(f, c)
  PROVE  x = c \/ \E y \in Trail(f, c) : f[y] = x
<1> DEFINE S == {y \in Trail(f, c) : y = c \/ \E z \in Trail(f, c) : f[z] = y}
<1>1. S \in SUBSET Clusters /\ c \in S
  BY TrailHas
<1>2. Closed(f, S)
  BY TrailNext DEF Closed
<1> HIDE DEF S
<1>3. x \in S
  BY <1>1, <1>2, TrailLeast
<1> QED BY <1>3 DEF S

(* The chain of a cluster of a chain is part of it.                        *)
LEMMA TrailSub ==
  ASSUME NEW f, NEW c, NEW x \in Trail(f, c)
  PROVE  Trail(f, x) \subseteq Trail(f, c)
BY TrailHas, TrailNext, TrailLeast

(* A chain is its first cluster and the chain of the next one.             *)
LEMMA TrailSplit ==
  ASSUME NEW f, NEW c \in Clusters
  PROVE  Trail(f, c) = {c} \cup Trail(f, f[c])
<1> DEFINE S == {c} \cup Trail(f, f[c])
<1>1. S \in SUBSET Clusters /\ c \in S
  BY TrailHas
<1>2. Closed(f, S)
  BY TrailNext, TrailHas DEF Closed
<1>3. Trail(f, c) \subseteq S
  <2> HIDE DEF S
  <2> QED BY <1>1, <1>2, TrailLeast
<1>4. c \in Trail(f, c)
  BY TrailHas
<1>5. Trail(f, f[c]) \subseteq Trail(f, c)
  <2>1. CASE f[c] \in Clusters
    <3>1. f[c] \in Trail(f, c)
      BY <1>4, <2>1, TrailNext DEF Closed
    <3> QED BY <3>1, TrailSub
  <2>2. CASE f[c] \notin Clusters
    BY <2>2, TrailHas
  <2> QED BY <2>1, <2>2
<1> QED BY <1>3, <1>4, <1>5

(* A table that agrees on the chain has the same chain.                    *)
LEMMA TrailSame ==
  ASSUME NEW f, NEW g, NEW c, \A x \in Trail(f, c) : g[x] = f[x]
  PROVE  Trail(g, c) = Trail(f, c)
<1>1. CASE c \notin Clusters
  BY <1>1, TrailHas
<1>2. CASE c \in Clusters
  <2> DEFINE A == Trail(f, c)
             B == Trail(g, c)
  <2>1. A \in SUBSET Clusters /\ B \in SUBSET Clusters /\ c \in A /\ c \in B
    BY <1>2, TrailHas
  <2>2. Closed(f, A) /\ Closed(g, B)
    BY TrailNext
  <2>3. Closed(g, A)
    BY <2>2 DEF Closed
  <2>4. Closed(f, A \cap B)
    BY <2>2 DEF Closed
  <2> HIDE DEF A, B
  <2>5. B \subseteq A
    BY <2>1, <2>3, TrailLeast DEF B
  <2>6. A \subseteq A \cap B
    <3>1. A \cap B \in SUBSET Clusters /\ c \in A \cap B
      BY <2>1
    <3> QED BY <2>4, <3>1, TrailLeast DEF A
  <2> QED BY <2>5, <2>6 DEF A, B
<1> QED BY <1>1, <1>2

(* A cluster linked to the end of a chain is one more in it.               *)
LEMMA TrailLink ==
  ASSUME NEW f, NEW g, NEW c \in Clusters, NEW l \in Trail(f, c), NEW x \in Clusters,
         f[l] \notin Clusters, x # l,
         g[l] = x, g[x] \notin Clusters, \A y \in Trail(f, c) \ {l, x} : g[y] = f[y],
         f[x] \notin Clusters
  PROVE  Trail(g, c) = Trail(f, c) \cup {x}
<1> DEFINE A == Trail(f, c)
           B == Trail(g, c)
<1>1. A \in SUBSET Clusters /\ B \in SUBSET Clusters /\ c \in A /\ c \in B
  BY TrailHas
<1>2. Closed(f, A) /\ Closed(g, B)
  BY TrailNext
<1>3. Closed(g, A \cup {x})
  BY <1>2 DEF Closed
<1>4. Closed(f, A \cap B)
  BY <1>2 DEF Closed
<1> HIDE DEF A, B
<1>5. B \subseteq A \cup {x}
  <2>1. A \cup {x} \in SUBSET Clusters /\ c \in A \cup {x}
    BY <1>1
  <2> QED BY <1>3, <2>1, TrailLeast DEF B
<1>6. A \subseteq B
  <2>1. A \cap B \in SUBSET Clusters /\ c \in A \cap B
    BY <1>1
  <2>2. A \subseteq A \cap B
    BY <1>4, <2>1, TrailLeast DEF A
  <2> QED BY <2>2
<1>7. x \in B
  BY <1>2, <1>6 DEF A, Closed
<1> QED BY <1>5, <1>6, <1>7 DEF A, B

-----------------------------------------------------------------------------
(* Tables in which no two clusters lead to the same one, clusters that no  *)
(* other leads to, and tables that lead to no free cluster.                *)
Single(f) == \A x, y \in Clusters : f[x] = f[y] /\ f[x] \in Clusters => x = y
NoPred(f, h) == \A x \in Clusters : f[x] # h
Safe(f) == \A x \in Clusters : f[x] \in Clusters => f[f[x]] # Free

(* The chains of two such clusters have nothing in common.                 *)
LEMMA TrailApart ==
  ASSUME NEW f, Single(f), NEW c \in Clusters, NEW d \in Clusters, NoPred(f, c), NoPred(f, d), c # d
  PROVE  Trail(f, c) \cap Trail(f, d) = {}
<1> DEFINE S == Clusters \ Trail(f, d)
<1>1. Trail(f, d) \subseteq Clusters
  BY TrailHas
<1>2. \A y \in Trail(f, d) : y = d \/ \E z \in Trail(f, d) : f[z] = y
  BY TrailPred
<1>3. c \in S
  BY <1>1, <1>2 DEF NoPred
<1>4. Closed(f, S)
  <2> SUFFICES ASSUME NEW x \in S, f[x] \in Clusters PROVE f[x] \in S
    BY DEF Closed
  <2>1. f[x] # d
    BY DEF NoPred
  <2>2. ASSUME NEW z \in Trail(f, d), f[z] = f[x] PROVE FALSE
    BY <1>1, <2>2 DEF Single
  <2> QED BY <1>2, <2>1, <2>2
<1> HIDE DEF S
<1>5. S \in SUBSET Clusters
  BY DEF S
<1>6. Trail(f, c) \subseteq S
  BY <1>3, <1>4, <1>5, TrailLeast
<1> QED BY <1>6 DEF S

(* Such a chain has no cycle.                                              *)
LEMMA TrailAcyclic ==
  ASSUME NEW f, Single(f), NEW h \in Clusters, NoPred(f, h), NEW b \in Trail(f, h)
  PROVE  b \notin Trail(f, f[b])
<1> DEFINE Y == Trail(f, f[b])
           S == Clusters \ Y
<1>1. SUFFICES ASSUME b \in Y PROVE FALSE
  OBVIOUS
<1>2. f[b] \in Clusters /\ Y \subseteq Clusters /\ b \in Clusters
  BY <1>1, TrailHas
<1>3. \A y \in Y : \E z \in Y : f[z] = y
  BY <1>1, <1>2, TrailPred
<1>4. h \in S
  BY <1>2, <1>3 DEF NoPred
<1>5. Closed(f, S)
  <2> SUFFICES ASSUME NEW x \in S, f[x] \in Y, f[x] \in Clusters PROVE FALSE
    BY DEF Closed
  <2>1. PICK z \in Y : f[z] = f[x]
    BY <1>3
  <2> QED BY <1>2, <2>1 DEF Single
<1> HIDE DEF S
<1>6. S \in SUBSET Clusters
  BY DEF S
<1>7. Trail(f, h) \subseteq S
  BY <1>4, <1>5, <1>6, TrailLeast
<1> QED BY <1>1, <1>7 DEF S

(* No cluster of a chain is free where no table entry leads to a free one. *)
LEMMA TrailTaken ==
  ASSUME NEW f, Safe(f), NEW h \in Clusters, f[h] # Free
  PROVE  \A x \in Trail(f, h) : f[x] # Free
<1> DEFINE S == {x \in Clusters : f[x] # Free}
<1>1. S \in SUBSET Clusters /\ h \in S
  OBVIOUS
<1>2. Closed(f, S)
  BY DEF Closed, Safe
<1> HIDE DEF S
<1>3. Trail(f, h) \subseteq S
  BY <1>1, <1>2, TrailLeast
<1> QED BY <1>3 DEF S

(* Such a chain ends, and at an end mark.                                  *)
LEMMA TrailEnds ==
  ASSUME NEW f \in [Clusters -> Links], Single(f), Safe(f), NEW h \in Clusters, NoPred(f, h), f[h] # Free
  PROVE  {f[b] : b \in Trail(f, h)} \ Clusters = {Eoc}
<1> DEFINE T == Trail(f, h)
<1>1. T \subseteq Clusters /\ h \in T /\ Closed(f, T)
  BY TrailHas, TrailNext
<1>2. \A b \in T : f[b] \in Clusters \/ f[b] = Eoc
  BY <1>1, TrailTaken DEF Links
<1>3. Eoc \notin Clusters
  BY Apart
<1>4. ASSUME \A b \in T : f[b] \in Clusters PROVE FALSE
  <2> DEFINE g == [b \in T |-> f[b]]
             U == T \ {h}
  <2>1. g \in [T -> U]
    BY <1>1, <1>4 DEF Closed, NoPred
  <2>2. IsFiniteSet(T) /\ Cardinality(T) \in Nat
    <3>1. T \in SUBSET Clusters
      BY <1>1
    <3> HIDE DEF T
    <3>2. IsFiniteSet(T)
      BY <3>1, ClusterCount, FS_Subset
    <3> QED BY <3>2, FS_CardinalityType
  <2> HIDE DEF T
  <2>3. IsFiniteSet(U) /\ Cardinality(U) = Cardinality(T) - 1
    BY <1>1, <2>2, FS_RemoveElement
  <2>4. Cardinality(U) < Cardinality(T)
    BY <2>2, <2>3
  <2> HIDE DEF g, U
  <2>5. PICK x, y \in T : x # y /\ g[x] = g[y]
    BY <2>1, <2>2, <2>3, <2>4, FS_PigeonHole
  <2>6. f[x] = f[y] /\ f[x] \in Clusters
    BY <1>4, <2>5 DEF g
  <2> QED BY <1>1, <2>5, <2>6 DEF Single
<1> QED BY <1>2, <1>3, <1>4

-----------------------------------------------------------------------------
(* The names of the volume, each with the first cluster of its chain; not  *)
(* the one that is being overwritten.                                      *)
Refs == {s \in SlotIds \ {found} : Named(slot[s]) /\ slot[s].first # 0}
NamesNow == {<<s, slot[s].first>> : s \in Refs}

(* The chains that only the running call knows of.                         *)
Holding ==
  (IF pc = "undo" THEN {} ELSE {head})
    \cup (IF pc \in {"free", "undo", "link", "elink"} THEN {cur} ELSE {})

(* A table f with named chains N, a set of pairs of a slot and a cluster,  *)
(* and held chains H: their first clusters are taken, different, and none  *)
(* is in the middle of a chain.                                            *)
HeadsOK(f, N, H) ==
  /\ Single(f) /\ Safe(f)
  /\ \A x \in N : x[2] \in Clusters /\ x[2] # RootCluster /\ x[2] \notin H
  /\ \A x, y \in N : x[2] = y[2] => x = y
  /\ RootCluster \notin H
  /\ \A h \in ({RootCluster} \cup {x[2] : x \in N} \cup H) \cap Clusters :
       f[h] # Free /\ NoPred(f, h)

Heads ==
  /\ HeadsOK(fat, NamesNow, Holding)
  /\ pc \in {"link", "elink"} => cur # head
  /\ pc = "undo" => cur = head \/ fat[head] = Free


(* Fewer names and fewer held chains are as well apart.                    *)
LEMMA HeadsFewer ==
  ASSUME NEW f, NEW N, NEW H, HeadsOK(f, N, H), NEW M, M \subseteq N, NEW G, G \cap Clusters \subseteq H
  PROVE  HeadsOK(f, M, G)
BY Apart DEF HeadsOK

(* A free cluster becomes a chain that is held.                            *)
LEMMA HeadsAlloc ==
  ASSUME NEW f \in [Clusters -> Links], NEW N, NEW H, HeadsOK(f, N, H),
         NEW c \in Clusters, f[c] = Free, NEW g, g = [f EXCEPT ![c] = Eoc]
  PROVE  HeadsOK(g, N, H \cup {c}) /\ c \notin H
<1>1. g[c] = Eoc /\ \A x \in Clusters : x # c => g[x] = f[x]
  OBVIOUS
<1>2. Eoc # Free /\ Eoc \notin Clusters /\ Free \notin Clusters
  BY Apart DEF Eoc, Free
<1>3. \A x \in Clusters : f[x] # c
  BY DEF HeadsOK, Safe
<1>4. Single(g)
  BY <1>1, <1>2 DEF HeadsOK, Single
<1>5. Safe(g)
  BY <1>1, <1>2 DEF HeadsOK, Safe
<1>6. c \notin H /\ c # RootCluster /\ \A x \in N : x[2] # c
  BY Apart DEF HeadsOK
<1>7. \A h \in Clusters : NoPred(f, h) => NoPred(g, h)
  BY <1>1, <1>2 DEF NoPred
<1>8. NoPred(g, c)
  BY <1>1, <1>2, <1>3 DEF NoPred
<1>9. \A h \in ({RootCluster} \cup {x[2] : x \in N} \cup (H \cup {c})) \cap Clusters : g[h] # Free /\ NoPred(g, h)
  BY <1>1, <1>2, <1>7, <1>8 DEF HeadsOK
<1> QED BY <1>4, <1>5, <1>6, <1>9 DEF HeadsOK

(* A named chain is held instead, or the other way round.                  *)
LEMMA HeadsTake ==
  ASSUME NEW f, NEW N, NEW H, HeadsOK(f, N, H), NEW x \in N, NEW h, h = x[2]
  PROVE  HeadsOK(f, N \ {x}, H \cup {h})
<1>1. \A y \in N \ {x} : y[2] # h /\ y \in N
  BY DEF HeadsOK
<1>2. h # RootCluster /\ h \in {y[2] : y \in N}
  BY DEF HeadsOK
<1> QED BY <1>1, <1>2 DEF HeadsOK

(* A held chain is named.                                                  *)
LEMMA HeadsName ==
  ASSUME NEW f, NEW N, NEW H, HeadsOK(f, N, H), NEW h \in H \cap Clusters, NEW s,
         NEW G, G \subseteq H \ {h}
  PROVE  HeadsOK(f, N \cup {<<s, h>>}, G)
<1>1. \A x \in N : x[2] # h
  BY DEF HeadsOK
<1>2. h # RootCluster
  BY DEF HeadsOK
<1>3. \A x \in N \cup {<<s, h>>} : x \in N \/ (x = <<s, h>> /\ x[2] = h)
  OBVIOUS
<1>4. \A x, y \in N \cup {<<s, h>>} : x[2] = y[2] => x = y
  BY <1>1, <1>3 DEF HeadsOK
<1>5. \A x \in N \cup {<<s, h>>} : x[2] \in Clusters /\ x[2] # RootCluster /\ x[2] \notin G
  BY <1>2, <1>3 DEF HeadsOK
<1>6. \A k \in ({RootCluster} \cup {x[2] : x \in N \cup {<<s, h>>}} \cup G) \cap Clusters : f[k] # Free /\ NoPred(f, k)
  <2> SUFFICES ASSUME NEW k \in ({RootCluster} \cup {x[2] : x \in N \cup {<<s, h>>}} \cup G) \cap Clusters
               PROVE  k \in ({RootCluster} \cup {x[2] : x \in N} \cup H) \cap Clusters
    BY DEF HeadsOK
  <2> QED BY <1>3
<1> QED BY <1>4, <1>5, <1>6 DEF HeadsOK

(* A held chain is appended to another one.                                *)
LEMMA HeadsLink ==
  ASSUME NEW f \in [Clusters -> Links], NEW N, NEW H, HeadsOK(f, N, H), NEW h \in H \cap Clusters,
         NEW l \in Clusters, l # h, NEW g \in [Clusters -> Links],
         g[l] = h, g[h] = f[h] \/ g[h] = Eoc, \A x \in Clusters \ {l, h} : g[x] = f[x]
  PROVE  HeadsOK(g, N, H \ {h})
<1>1. f[h] # Free /\ NoPred(f, h) /\ h # RootCluster /\ \A x \in N : x[2] # h
  BY DEF HeadsOK
<1>2. Eoc # Free /\ Eoc \notin Clusters /\ Free \notin Clusters /\ h # Free
  BY Apart DEF Eoc, Free
<1>3. \A x, y \in Clusters : g[x] = g[y] /\ g[x] \in Clusters /\ x # l /\ y # l => x = y
  BY <1>2 DEF HeadsOK, Single
<1>4. \A x \in Clusters : x # l => g[x] # h
  BY <1>1, <1>2 DEF NoPred
<1>5. Single(g)
  BY <1>3, <1>4 DEF Single
<1>6. \A x \in Clusters : f[x] # Free => g[x] # Free
  BY <1>2
<1>7. Safe(g)
  BY <1>1, <1>2, <1>6 DEF Safe, HeadsOK
<1>8. \A k \in Clusters : k # h /\ NoPred(f, k) => NoPred(g, k)
  BY <1>2 DEF NoPred
<1>9. \A k \in ({RootCluster} \cup {x[2] : x \in N} \cup (H \ {h})) \cap Clusters : g[k] # Free /\ NoPred(g, k)
  BY <1>1, <1>6, <1>8 DEF HeadsOK
<1> QED BY <1>5, <1>7, <1>9 DEF HeadsOK

(* The first cluster of a held chain is freed, and the rest is held.       *)
LEMMA HeadsFree ==
  ASSUME NEW f \in [Clusters -> Links], NEW N, NEW H, HeadsOK(f, N, H), NEW h \in H \cap Clusters,
         NEW g, g = [f EXCEPT ![h] = Free]
  PROVE  /\ HeadsOK(g, N, (H \ {h}) \cup {f[h]})
         /\ f[h] # h
<1>1. g[h] = Free /\ \A x \in Clusters : x # h => g[x] = f[x]
  OBVIOUS
<1>2. Free \notin Clusters
  BY Apart
<1>3. NoPred(f, h) /\ h # RootCluster /\ \A x \in N : x[2] # h
  BY DEF HeadsOK
<1>4. Single(g)
  BY <1>1, <1>2 DEF HeadsOK, Single
<1>5. Safe(g)
  BY <1>1, <1>2, <1>3 DEF HeadsOK, Safe, NoPred
<1>6. f[h] # h
  BY <1>3 DEF NoPred
<1>7. \A k \in Clusters : NoPred(f, k) => NoPred(g, k)
  BY <1>1, <1>2 DEF NoPred
<1>8. f[h] \in Clusters => g[f[h]] # Free /\ NoPred(g, f[h])
  BY <1>1, <1>2, <1>6 DEF HeadsOK, Single, Safe, NoPred
<1>9. \A k \in ({RootCluster} \cup {x[2] : x \in N} \cup H) \cap Clusters : f[k] # Free /\ NoPred(f, k) /\ f[h] # k
  BY DEF HeadsOK, NoPred
<1>10. f[h] # RootCluster /\ \A x \in N : x[2] # f[h]
  BY <1>9, VolumeAssumption DEF HeadsOK
<1>11. \A k \in ({RootCluster} \cup {x[2] : x \in N} \cup ((H \ {h}) \cup {f[h]})) \cap Clusters :
          g[k] # Free /\ NoPred(g, k)
  BY <1>1, <1>3, <1>7, <1>8, <1>9
<1> QED BY <1>4, <1>5, <1>6, <1>10, <1>11 DEF HeadsOK

(* No slot is none.                                                        *)
LEMMA NoSlotApart == NoSlot \notin SlotIds
BY Apart DEF NoSlot, SlotIds

(* The call goes on, and only entries of its own are gone.                 *)
LEMMA NamesFewer ==
  ASSUME \A s \in SlotIds : Named(slot'[s]) => slot'[s] = slot[s], found' = found
  PROVE  NamesNow' \subseteq NamesNow
BY DEF NamesNow, Refs

(* The names are in the records alone.                                     *)
LEMMA NamesSame ==
  ASSUME UNCHANGED <<slot, found>>
  PROVE  NamesNow' = NamesNow
BY DEF NamesNow, Refs

(* The call ends: an entry that is not overwritten keeps its chain.        *)
LEMMA NamesReturn ==
  ASSUME TypeInv, UNCHANGED slot, found' = NoSlot, ~ Invalidated, pc # "free"
  PROVE  NamesNow' = NamesNow
<1>1. found # NoSlot => pc \in {"alloc", "link", "undo", "data", "entry"}
  BY DEF TypeInv, Stage
<1>2. found # NoSlot => ~ (Named(slot[found]) /\ slot[found].first # 0)
  BY <1>1 DEF Invalidated, Named
<1>3. Refs' = Refs
  BY <1>2, NoSlotApart DEF Refs
<1> QED BY <1>3 DEF NamesNow

(* Every name is a slot and the cluster its record holds.                  *)
LEMMA NamesIn ==
  ASSUME TypeInv
  PROVE  \A x \in NamesNow : x[1] \in SlotIds /\ x[2] = slot[x[1]].first /\ x[2] \in Clusters
<1>1. \A s \in SlotIds : Named(slot[s]) => slot[s].first \in Clusters \cup {0}
  BY EntryIn DEF TypeInv, DiskOK, Named
<1> QED BY <1>1 DEF NamesNow, Refs

(* The call goes on, holds no more chains and changes no table entry.      *)
LEMMA HeadsGoOn ==
  ASSUME Heads, UNCHANGED fat, NamesNow' \subseteq NamesNow, Holding' \cap Clusters \subseteq Holding,
         pc' \notin {"link", "elink", "undo"}
  PROVE  Heads'
<1>1. HeadsOK(fat', NamesNow', Holding')
  BY HeadsFewer DEF Heads
<1> QED BY <1>1 DEF Heads

(* The call ends.                                                          *)
LEMMA HeadsReturn ==
  ASSUME TypeInv, Heads, UNCHANGED <<fat, slot>>, NEW r, Return(r), ~ Invalidated, pc # "free"
  PROVE  Heads'
<1>1. NamesNow' = NamesNow
  BY NamesReturn DEF Return, ClearLocals
<1>2. Holding' \cap Clusters = {}
  BY Apart DEF Return, ClearLocals, Holding
<1> QED BY <1>1, <1>2, HeadsGoOn DEF Return

(* On a new volume only the root has a chain.                              *)
LEMMA HeadsInit == Init => Heads
<1> SUFFICES ASSUME Init PROVE Heads
  OBVIOUS
<1>1. NamesNow = {}
  BY DEF Init, NamesNow, Refs, Named, IsEntry, Deleted, End
<1>2. Holding = {0} /\ pc = "idle"
  BY DEF Init, Holding
<1>3. fat = [c \in Clusters |-> IF c = RootCluster THEN Eoc ELSE Free]
  BY DEF Init
<1>4. Eoc # Free /\ Eoc \notin Clusters /\ Free \notin Clusters /\ 0 \notin Clusters /\ RootCluster \in Clusters
  BY Apart DEF Eoc, Free
<1>5. \A c \in Clusters : fat[c] \notin Clusters
  BY <1>3, <1>4
<1>6. HeadsOK(fat, {}, {0})
  BY <1>3, <1>4, <1>5 DEF HeadsOK, Single, Safe, NoPred
<1> QED BY <1>1, <1>2, <1>6 DEF Heads

(* A call begins: chains stay apart.                                       *)
LEMMA CallHeads == TypeInv /\ Heads /\ Call /\ ~ torn' => Heads'
<1> SUFFICES ASSUME TypeInv, Heads, Call, ~ torn' PROVE Heads'
  OBVIOUS
<1>1. ASSUME NEW n \in Names, NEW z \in Sizes, NEW v \in Values, WriteCall(n, z, v)
      PROVE  Heads'
  <2>1. NamesNow' = NamesNow /\ Holding' = Holding /\ UNCHANGED fat /\ pc' = "find"
    BY <1>1, NamesSame DEF WriteCall, disk, Holding
  <2> QED BY <2>1, HeadsGoOn
<1>2. ASSUME NEW n \in Names \cup {DotDot}, CdCall(n)
      PROVE  Heads'
  <2>1. NamesNow' = NamesNow /\ Holding' = Holding /\ UNCHANGED fat /\ pc' = "find"
    BY <1>2, NamesSame DEF CdCall, disk, Holding
  <2> QED BY <2>1, HeadsGoOn
<1>3. ASSUME NEW n \in Names, MkdirCall(n)
      PROVE  Heads'
  <2>1. pc = "idle" /\ UNCHANGED slot /\ found = NoSlot
    BY <1>3 DEF MkdirCall, TypeInv, Stage
  <2>2. CASE Return("fail") /\ UNCHANGED <<fat, table, hint, torn, faults>>
    <3>1. ~ Invalidated
      BY <2>1 DEF Invalidated
    <3> QED BY <2>1, <2>2, <3>1, HeadsReturn
  <2>3. CASE \E c \in NearestFree : SetFat(c, Eoc) /\ head' = c /\ pc' = "dots" /\ UNCHANGED found
    <3>1. PICK c \in NearestFree : SetFat(c, Eoc) /\ head' = c /\ pc' = "dots" /\ UNCHANGED found
      BY <2>3
    <3>2. c \in Clusters /\ fat[c] = Free /\ fat' = [fat EXCEPT ![c] = Eoc] /\ fat \in [Clusters -> Links]
      BY <3>1 DEF NearestFree, FreeClusters, SetFat, TypeInv, DiskOK
    <3>3. HeadsOK(fat', NamesNow, Holding \cup {c})
      BY <3>2, HeadsAlloc DEF Heads
    <3>4. NamesNow' = NamesNow /\ Holding' = {c}
      BY <2>1, <3>1, NamesSame DEF Holding
    <3>5. HeadsOK(fat', NamesNow', Holding')
      BY <3>3, <3>4, HeadsFewer
    <3> QED BY <3>1, <3>5 DEF Heads
  <2> QED BY <1>3, <2>2, <2>3 DEF MkdirCall
<1> QED BY <1>1, <1>2, <1>3 DEF Call

(* The lookup finds the name: chains stay apart.                           *)
LEMMA FindHitHeads == TypeInv /\ Heads /\ FindHit => Heads'
<1> SUFFICES ASSUME TypeInv, Heads, FindHit PROVE Heads'
  OBVIOUS
<1>1. /\ pc = "find" /\ cur \in Clusters /\ UNCHANGED <<fat, slot>> /\ found = NoSlot /\ head = 0
      /\ slot \in [SlotIds -> Records]
  BY Apart DEF FindHit, LocalsOK, disk, TypeInv, Stage, DiskOK
<1>2. ~ Invalidated
  BY <1>1 DEF Invalidated
<1>3. CASE \E r : Return(r)
  BY <1>1, <1>2, <1>3, HeadsReturn
<1>4. CASE req.op = "write" /\ \E m \in Hits(cur) :
             /\ found' = <<cur, m>>
             /\ IF slot[<<cur, m>>].first >= 2
                THEN pc' = "free" /\ cur' = slot[<<cur, m>>].first
                ELSE pc' = "alloc" /\ cur' = 0
             /\ UNCHANGED head
  <2>1. PICK m \in Hits(cur) :
             /\ found' = <<cur, m>>
             /\ IF slot[<<cur, m>>].first >= 2
                THEN pc' = "free" /\ cur' = slot[<<cur, m>>].first
                ELSE pc' = "alloc" /\ cur' = 0
             /\ UNCHANGED head
    BY <1>4
  <2> DEFINE s == <<cur, m>>
             e == slot[s]
  <2>2. s \in SlotIds /\ IsEntry(e) /\ e.name = req.key /\ e \in Records
    BY <1>1, <2>1 DEF Hits, SlotIds, Sought
  <2>3. Named(e) /\ e.first \in Clusters \cup {0}
    BY <1>4, <2>2, EntryIn DEF Named, TypeInv, Asked
  <2> HIDE DEF s
  <2>4. Refs' = Refs \ {s}
    BY <1>1, <2>1, <2>2, NoSlotApart DEF Refs, s
  <2>5. CASE e.first = 0
    <3>1. NamesNow' \subseteq NamesNow
      BY <1>1, <2>4 DEF NamesNow
    <3>2. pc' = "alloc" /\ Holding' = Holding
      BY <1>1, <2>1, <2>5 DEF Holding, s
    <3> QED BY <1>1, <3>1, <3>2, HeadsGoOn
  <2>6. CASE e.first # 0
    <3>1. e.first \in Clusters /\ e.first >= 2
      BY <2>3, <2>6, Apart
    <3>2. <<s, e.first>> \in NamesNow
      BY <1>1, <2>2, <2>3, <2>6, NoSlotApart DEF NamesNow, Refs
    <3>3. NamesNow' = NamesNow \ {<<s, e.first>>}
      BY <1>1, <2>4 DEF NamesNow
    <3>4. HeadsOK(fat, NamesNow \ {<<s, e.first>>}, Holding \cup {e.first})
      BY <3>2, HeadsTake DEF Heads
    <3>5. pc' = "free" /\ Holding' = Holding \cup {e.first}
      BY <1>1, <2>1, <3>1 DEF Holding, s
    <3> QED BY <1>1, <3>3, <3>4, <3>5 DEF Heads
  <2> QED BY <2>3, <2>5, <2>6
<1> QED BY <1>3, <1>4 DEF FindHit

(* The lookup ends without the name: chains stay apart.                    *)
LEMMA FindMissHeads == TypeInv /\ Heads /\ FindMiss => Heads'
<1> SUFFICES ASSUME TypeInv, Heads, FindMiss PROVE Heads'
  OBVIOUS
<1>1. pc = "find" /\ UNCHANGED <<fat, slot>> /\ found = NoSlot
  BY DEF FindMiss, disk, TypeInv, Stage
<1>2. ~ Invalidated
  BY <1>1 DEF Invalidated
<1>3. CASE Return("fail")
  BY <1>1, <1>2, <1>3, HeadsReturn
<1>4. CASE pc' = "alloc" /\ UNCHANGED <<found, head>>
  <2>1. NamesNow' = NamesNow /\ Holding' = Holding
    BY <1>1, <1>4, NamesSame DEF Holding
  <2> QED BY <1>1, <1>4, <2>1, HeadsGoOn
<1> QED BY <1>3, <1>4 DEF FindMiss

(* The old chain loses one more cluster: chains stay apart.                *)
LEMMA FreeStepHeads == TypeInv /\ Heads /\ FreeStep /\ ~ torn' => Heads'
<1> SUFFICES ASSUME TypeInv, Heads, FreeStep, ~ torn' PROVE Heads'
  OBVIOUS
<1>1. /\ pc \in {"free", "undo"} /\ pc' = pc /\ UNCHANGED <<slot, found, head>>
      /\ fat' = [fat EXCEPT ![cur] = Free] /\ cur' = fat[cur]
      /\ cur \in Clusters /\ fat \in [Clusters -> Links] /\ (pc = "free" => head = 0)
  BY Apart DEF FreeStep, SetFat, TypeInv, DiskOK, LocalsOK, Stage
<1>2. cur \in Holding
  BY <1>1 DEF Holding
<1>3. HeadsOK(fat', NamesNow, (Holding \ {cur}) \cup {fat[cur]}) /\ fat[cur] # cur
  BY <1>1, <1>2, HeadsFree DEF Heads
<1>4. NamesNow' = NamesNow
  BY <1>1, NamesSame
<1>5. Holding' \cap Clusters \subseteq (Holding \ {cur}) \cup {fat[cur]}
  BY <1>1, Apart DEF Holding
<1>6. HeadsOK(fat', NamesNow', Holding')
  BY <1>3, <1>4, <1>5, HeadsFewer
<1>7. pc' = "undo" => fat'[head'] = Free
  BY <1>1 DEF Heads, TypeInv, LocalsOK, Stage
<1> QED BY <1>1, <1>6, <1>7 DEF Heads

(* The old chain is freed: chains stay apart.                              *)
LEMMA FreeDoneHeads == TypeInv /\ Heads /\ FreeDone /\ ~ torn' => Heads'
<1> SUFFICES ASSUME TypeInv, Heads, FreeDone, ~ torn' PROVE Heads'
  OBVIOUS
<1>1. UNCHANGED <<fat, slot>>
  BY DEF FreeDone, disk
<1>2. CASE pc = "undo" /\ Return("fail") /\ torn' = (torn \/ Invalidated)
  BY <1>1, <1>2, HeadsReturn
<1>3. CASE pc = "free" /\ pc' = "alloc" /\ UNCHANGED <<found, head>>
  <2>1. NamesNow' = NamesNow /\ Holding' \subseteq Holding
    BY <1>1, <1>3, NamesSame DEF Holding
  <2> QED BY <1>1, <1>3, <2>1, HeadsGoOn
<1> QED BY <1>2, <1>3 DEF FreeDone

(* A cluster is taken for the file: chains stay apart.                     *)
LEMMA AllocFileHeads == TypeInv /\ Heads /\ AllocFile /\ ~ torn' => Heads'
<1> SUFFICES ASSUME TypeInv, Heads, AllocFile, ~ torn' PROVE Heads'
  OBVIOUS
<1>1. PICK c \in NearestFree :
       /\ SetFat(c, Eoc)
       /\ head' = IF head = 0 THEN c ELSE head
       /\ IF prev # 0
          THEN pc' = "link" /\ cur' = c /\ prev' = prev
          ELSE pc' = "alloc" /\ cur' = 0 /\ prev' = c
  BY DEF AllocFile
<1>2. /\ pc = "alloc" /\ c \in Clusters /\ fat[c] = Free /\ fat' = [fat EXCEPT ![c] = Eoc]
      /\ fat \in [Clusters -> Links] /\ UNCHANGED <<slot, found>> /\ (head = 0) = (prev = 0)
  BY <1>1 DEF AllocFile, NearestFree, FreeClusters, SetFat, TypeInv, DiskOK, Stage
<1>3. HeadsOK(fat', NamesNow, Holding \cup {c}) /\ c \notin Holding
  BY <1>2, HeadsAlloc DEF Heads
<1>4. NamesNow' = NamesNow
  BY <1>2, NamesSame
<1>5. Holding' \subseteq Holding \cup {c} /\ pc' # "undo"
  BY <1>1, <1>2 DEF Holding
<1>6. HeadsOK(fat', NamesNow', Holding')
  BY <1>3, <1>4, <1>5, HeadsFewer
<1>7. pc' \in {"link", "elink"} => cur' # head'
  BY <1>1, <1>2, <1>3 DEF Holding
<1> QED BY <1>5, <1>6, <1>7 DEF Heads

(* The cluster is linked behind the file: chains stay apart.               *)
LEMMA LinkFileHeads == TypeInv /\ Heads /\ LinkFile /\ ~ torn' => Heads'
<1> SUFFICES ASSUME TypeInv, Heads, LinkFile, ~ torn' PROVE Heads'
  OBVIOUS
<1>1. /\ pc = "link" /\ fat' = [fat EXCEPT ![prev] = cur] /\ pc' = "alloc"
      /\ UNCHANGED <<slot, found, head>> /\ fat \in [Clusters -> Links]
      /\ cur \in Clusters /\ prev \in Clusters
  BY DEF LinkFile, SetFat, TypeInv, DiskOK, Stage, LocalsOK
<1>2. cur # prev
  BY <1>1 DEF LinkFile, SetFat, TypeInv, Fresh
<1>3. fat' \in [Clusters -> Links] /\ cur \in Holding
  BY <1>1, Apart DEF Holding
<1>4. HeadsOK(fat', NamesNow, Holding \ {cur})
  BY <1>1, <1>2, <1>3, HeadsLink DEF Heads
<1>5. NamesNow' = NamesNow
  BY <1>1, NamesSame
<1>6. Holding' \subseteq Holding \ {cur}
  BY <1>1 DEF Holding, Heads
<1>7. HeadsOK(fat', NamesNow', Holding')
  BY <1>4, <1>5, <1>6, HeadsFewer
<1> QED BY <1>1, <1>7 DEF Heads

(* No cluster is free: chains stay apart.                                  *)
LEMMA AllocFullHeads == TypeInv /\ Heads /\ AllocFull /\ ~ torn' => Heads'
<1> SUFFICES ASSUME TypeInv, Heads, AllocFull, ~ torn' PROVE Heads'
  OBVIOUS
<1>1. UNCHANGED <<fat, slot>> /\ pc \in {"alloc", "extend"}
  BY DEF AllocFull, disk
<1>2. CASE Return("fail") /\ torn' = (torn \/ Invalidated)
  BY <1>1, <1>2, HeadsReturn
<1>3. CASE pc' = "undo" /\ cur' = head /\ UNCHANGED <<found, head>>
  <2>1. NamesNow' = NamesNow /\ Holding' \subseteq Holding
    BY <1>1, <1>3, NamesSame DEF Holding
  <2>2. HeadsOK(fat', NamesNow', Holding')
    BY <1>1, <2>1, HeadsFewer DEF Heads
  <2> QED BY <1>3, <2>2 DEF Heads
<1> QED BY <1>2, <1>3 DEF AllocFull

(* A cluster is overwritten by records that name nothing.                  *)
LEMMA NamesWrite ==
  ASSUME NEW c, NEW new, WriteCluster(c, new), \A i \in Indices : ~ Named(new[i]), found' = found
  PROVE  NamesNow' \subseteq NamesNow
<1>1. PICK k \in 0 .. SlotsPerCluster :
        slot' = [s \in SlotIds |-> IF s[1] = c /\ s[2] <= k THEN new[s[2]] ELSE slot[s]]
  BY DEF WriteCluster
<1>2. \A s \in SlotIds : s[2] \in Indices
  BY DEF SlotIds
<1>3. \A s \in SlotIds : Named(slot'[s]) => slot'[s] = slot[s]
  BY <1>1, <1>2
<1> QED BY <1>3, NamesFewer

(* A cluster is written: chains stay apart.                                *)
LEMMA WriteHeads == TypeInv /\ Heads /\ (WriteData \/ WriteDots \/ ClearDir) /\ ~ torn' => Heads'
<1> SUFFICES ASSUME TypeInv, Heads, WriteData \/ WriteDots \/ ClearDir, ~ torn' PROVE Heads'
  OBVIOUS
<1>1. CASE WriteData
  <2> DEFINE new == [i \in Indices |-> IF i <= left THEN Chunk(req.val, req.size - left + i) ELSE End]
  <2>1. pc = "data" /\ pc' = "data" /\ UNCHANGED <<fat, found, head>> /\ WriteCluster(cur, new)
    BY <1>1 DEF WriteData
  <2>2. \A i \in Indices : ~ Named(new[i])
    BY DEF Named, IsEntry, Chunk, End
  <2> HIDE DEF new
  <2>3. NamesNow' \subseteq NamesNow /\ Holding' = Holding
    BY <2>1, <2>2, NamesWrite DEF Holding
  <2> QED BY <2>1, <2>3, HeadsGoOn
<1>2. CASE WriteDots
  <2> DEFINE up == IF cwd = RootCluster THEN 0 ELSE cwd
             new == [i \in Indices |->
               CASE i = 1 -> Entry("dir", Dot, head, 0)
                 [] i = 2 -> Entry("dir", DotDot, up, 0)
                 [] OTHER -> End]
  <2>1. pc = "dots" /\ pc' = "slot" /\ UNCHANGED <<fat, found, head>> /\ WriteCluster(head, new)
    BY <1>2 DEF WriteDots
  <2> HIDE DEF up
  <2>2. \A i \in Indices : ~ Named(new[i])
    BY NameAssumption DEF Named, IsEntry, Entry, End
  <2> HIDE DEF new
  <2>3. NamesNow' \subseteq NamesNow /\ Holding' = Holding
    BY <2>1, <2>2, NamesWrite DEF Holding
  <2> QED BY <2>1, <2>3, HeadsGoOn
<1>3. CASE ClearDir
  <2> DEFINE new == [i \in Indices |-> End]
  <2>1. pc = "clear" /\ pc' = "entry" /\ UNCHANGED <<fat, found, head>> /\ WriteCluster(cur, new)
    BY <1>3 DEF ClearDir
  <2>2. \A i \in Indices : ~ Named(new[i])
    BY DEF Named, IsEntry, End
  <2> HIDE DEF new
  <2>3. NamesNow' \subseteq NamesNow /\ Holding' = Holding
    BY <2>1, <2>2, NamesWrite DEF Holding
  <2> QED BY <2>1, <2>3, HeadsGoOn
<1> QED BY <1>1, <1>2, <1>3

(* Steps that only move along.                                             *)
LEMMA MoveHeads ==
  TypeInv /\ Heads /\ (FindNext \/ SealFile \/ DataDone \/ SlotHit \/ SlotNext \/ SlotMiss) /\ ~ torn' => Heads'
<1> SUFFICES ASSUME TypeInv, Heads, FindNext \/ SealFile \/ DataDone \/ SlotHit \/ SlotNext \/ SlotMiss, ~ torn'
             PROVE  Heads'
  OBVIOUS
<1>1. UNCHANGED fat
  <2>1. CASE SealFile
    BY <2>1, SealSame
  <2> QED BY <2>1 DEF FindNext, DataDone, SlotHit, SlotNext, SlotMiss, disk
<1>2. /\ UNCHANGED <<slot, found, head>>
      /\ pc \in {"find", "alloc", "data", "slot"} /\ pc' \in {"find", "data", "entry", "slot", "extend"}
  BY DEF FindNext, SealFile, DataDone, SlotHit, SlotNext, SlotMiss, disk
<1>3. NamesNow' = NamesNow /\ Holding' = Holding
  BY <1>2, NamesSame DEF Holding
<1> QED BY <1>1, <1>2, <1>3, HeadsGoOn

(* A cluster is taken for the directory: chains stay apart.                *)
LEMMA ExtendHeads == TypeInv /\ Heads /\ Extend /\ ~ torn' => Heads'
<1> SUFFICES ASSUME TypeInv, Heads, Extend, ~ torn' PROVE Heads'
  OBVIOUS
<1>1. PICK c \in NearestFree : SetFat(c, Eoc) /\ cur' = c
  BY DEF Extend
<1>2. /\ pc = "extend" /\ pc' = "elink" /\ c \in Clusters /\ fat[c] = Free /\ fat' = [fat EXCEPT ![c] = Eoc]
      /\ fat \in [Clusters -> Links] /\ UNCHANGED <<slot, found, head>>
  BY <1>1 DEF Extend, NearestFree, FreeClusters, SetFat, TypeInv, DiskOK
<1>3. HeadsOK(fat', NamesNow, Holding \cup {c}) /\ c \notin Holding
  BY <1>2, HeadsAlloc DEF Heads
<1>4. NamesNow' = NamesNow /\ Holding' = Holding \cup {c} /\ c # head
  BY <1>1, <1>2, <1>3, NamesSame DEF Holding
<1> QED BY <1>1, <1>2, <1>3, <1>4 DEF Heads

(* It is linked behind the directory: chains stay apart.                   *)
LEMMA LinkDirHeads == TypeInv /\ Heads /\ last # cur /\ LinkDir /\ ~ torn' => Heads'
<1> SUFFICES ASSUME TypeInv, Heads, last # cur, LinkDir, ~ torn' PROVE Heads'
  OBVIOUS
<1>1. /\ pc = "elink" /\ pc' = "clear" /\ fat' = [fat EXCEPT ![last] = cur, ![cur] = Eoc]
      /\ UNCHANGED <<slot, found, head>> /\ fat \in [Clusters -> Links]
      /\ cur \in Clusters /\ last \in Clusters
  BY LinkDirTable DEF LinkDir, TypeInv, DiskOK, Stage, locals
<1>2. fat' \in [Clusters -> Links] /\ cur \in Holding
  BY <1>1, Apart DEF Holding
<1>3. HeadsOK(fat', NamesNow, Holding \ {cur})
  BY <1>1, <1>2, HeadsLink DEF Heads
<1>4. NamesNow' = NamesNow
  BY <1>1, NamesSame
<1>5. Holding' \subseteq Holding \ {cur}
  BY <1>1 DEF Holding, Heads
<1>6. HeadsOK(fat', NamesNow', Holding')
  BY <1>3, <1>4, <1>5, HeadsFewer
<1> QED BY <1>1, <1>6 DEF Heads

(* The entry is written: chains stay apart.                                *)
LEMMA WriteEntryHeads == TypeInv /\ Heads /\ WriteEntry /\ ~ torn' => Heads'
<1> SUFFICES ASSUME TypeInv, Heads, WriteEntry, ~ torn' PROVE Heads'
  OBVIOUS
<1> DEFINE kind == IF req.op = "mkdir" THEN "dir" ELSE "file"
           new  == Entry(kind, req.key, head, req.size)
<1>1. /\ pc = "entry" /\ Return("ok") /\ UNCHANGED fat
      /\ \/ slot' = [slot EXCEPT ![target] = new]
         \/ torn' = (torn \/ Invalidated) /\ UNCHANGED slot
  BY DEF WriteEntry, memory
<1>2. CASE torn' = (torn \/ Invalidated) /\ UNCHANGED slot
  BY <1>1, <1>2, HeadsReturn
<1>3. CASE slot' = [slot EXCEPT ![target] = new]
  <2>1. /\ target \in SlotIds /\ (found # NoSlot => target = found) /\ head \in Clusters \cup {0}
        /\ slot \in [SlotIds -> Records]
    BY <1>1 DEF TypeInv, Stage, LocalsOK, DiskOK
  <2>2. new.first = head
    BY DEF Entry
  <2> HIDE DEF new
  <2>3. slot'[target] = new /\ \A s \in SlotIds \ {target} : slot'[s] = slot[s]
    BY <1>3, <2>1
  <2>4. Refs' \ {target} \subseteq Refs /\ (head = 0 => target \notin Refs')
    BY <1>1, <2>1, <2>2, <2>3 DEF Refs, Return, ClearLocals
  <2>5. \A s \in Refs' : s \in SlotIds
    BY DEF Refs
  <2>6. NamesNow' \subseteq NamesNow \cup {<<target, head>>} /\ (head = 0 => NamesNow' \subseteq NamesNow)
    BY <2>2, <2>3, <2>4, <2>5 DEF NamesNow
  <2>7. Holding' = {0} /\ Holding = {head} /\ pc' = "idle"
    BY <1>1 DEF Return, ClearLocals, Holding
  <2>8. CASE head = 0
    BY <1>1, <2>6, <2>7, <2>8, HeadsGoOn
  <2>9. CASE head # 0
    <3>1. head \in Holding \cap Clusters /\ {0} \cap Clusters = {}
      BY <2>1, <2>7, <2>9, Apart
    <3>2. HeadsOK(fat, NamesNow \cup {<<target, head>>}, {})
      BY <2>7, <3>1, HeadsName DEF Heads
    <3>3. HeadsOK(fat, NamesNow', Holding')
      BY <2>6, <2>7, <3>1, <3>2, HeadsFewer
    <3> QED BY <1>1, <2>7, <3>3 DEF Heads
  <2> QED BY <2>8, <2>9
<1> QED BY <1>1, <1>2, <1>3

(* The machine stops and mounts the volume again: chains stay apart.       *)
LEMMA CrashHeads == TypeInv /\ Heads /\ Crash /\ ~ torn' => Heads'
<1> SUFFICES ASSUME TypeInv, Heads, Crash, ~ torn' PROVE Heads'
  OBVIOUS
<1>1. UNCHANGED <<fat, slot>> /\ ~ Invalidated /\ Return("none")
  BY DEF Crash, TypeInv, OneTable
<1>2. CASE pc # "free"
  BY <1>1, <1>2, HeadsReturn
<1>3. CASE pc = "free" /\ NamesNow' \subseteq NamesNow
  <2>1. Holding' \cap Clusters = {} /\ pc' = "idle"
    BY <1>1, Apart DEF Return, ClearLocals, Holding
  <2> QED BY <1>1, <1>3, <2>1, HeadsGoOn
<1>4. CASE pc = "free" /\ ~ (NamesNow' \subseteq NamesNow)
  <2>1. found' = NoSlot /\ pc' = "idle" /\ Holding' = {0}
    BY <1>1 DEF Return, ClearLocals, Holding
  <2>2. Refs' \subseteq Refs \cup {found}
    BY <1>1, <2>1 DEF Refs
  <2>3. found \in Refs' /\ found # NoSlot
    BY <1>1, <1>4, <2>2, NoSlotApart DEF NamesNow, Refs
  <2>4. Named(slot[found]) /\ slot[found].first # 0 /\ found \in SlotIds
    BY <1>1, <2>3 DEF Refs
  <2>5. slot[found].first = cur
    BY <1>1, <1>4, <2>3, <2>4 DEF Invalidated, Named
  <2>6. NamesNow' \subseteq NamesNow \cup {<<found, cur>>}
    BY <1>1, <2>2, <2>5 DEF NamesNow
  <2>7. cur \in Clusters
    BY <2>4, <2>5, EntryIn DEF TypeInv, DiskOK, Named
  <2>8. cur \in Holding \cap Clusters /\ {0} \cap Clusters = {}
    BY <1>4, <2>7, Apart DEF Holding
  <2>9. HeadsOK(fat, NamesNow \cup {<<found, cur>>}, {})
    BY <2>8, HeadsName DEF Heads
  <2>10. HeadsOK(fat, NamesNow', Holding')
    BY <2>1, <2>6, <2>8, <2>9, HeadsFewer
  <2> QED BY <1>1, <2>1, <2>10 DEF Heads
<1> QED BY <1>2, <1>3, <1>4

-----------------------------------------------------------------------------
(* The records as View gives them, and directories in a table f with       *)
(* records v: p is well formed if nothing follows a vacant record, its     *)
(* dots are in place (the root has none) and those of its subdirectories   *)
(* lead back to it, save through the slots of G.                           *)
view == [s \in SlotIds |-> View(s)]
Cells(f, d) == Trail(f, d) \X Indices
Up(p) == IF p = RootCluster THEN 0 ELSE p
IsDir(r) == Named(r) /\ r.kind = "dir"

Tidy(f, v, p) ==
  \A c \in Trail(f, p), m \in Indices :
     IsVacant(v[<<c, m>>]) => /\ f[c] \notin Clusters
                              /\ \A k \in Indices : k > m => IsVacant(v[<<c, k>>])
Dotted(f, v, p) ==
  IF p = RootCluster
  THEN \A s \in Cells(f, p) : IsEntry(v[s]) => Named(v[s])
  ELSE /\ IsEntry(v[<<p, 1>>]) /\ v[<<p, 1>>].name = Dot
       /\ IsEntry(v[<<p, 2>>]) /\ v[<<p, 2>>].name = DotDot
LedBack(f, v, G, p) == \A s \in Cells(f, p) \ G : IsDir(v[s]) => v[<<v[s].first, 2>>].first = Up(p)
DirOK(f, v, G, p) == Tidy(f, v, p) /\ Dotted(f, v, p) /\ LedBack(f, v, G, p)

(* The directories some slot names, one of G apart, and the root.          *)
DirHeads(v, G) == {RootCluster} \cup {v[s].first : s \in {t \in SlotIds \ G : IsDir(v[t])}}

(* The directories that a lookup in d leads to, not through G.             *)
First(f, v, d, t) ==
  \A u \in Cells(f, d) :
     IsEntry(v[u]) /\ v[u].name = v[t].name =>
       /\ u[1] = t[1] => t[2] <= u[2]
       /\ t[1] \notin Trail(f, f[u[1]])
Doors(f, v, G, d) == {v[s].first : s \in {t \in Cells(f, d) \ G : IsDir(v[t]) /\ First(f, v, d, t)}}
Ways(f, v, G) == UNION {{d} \X Doors(f, v, G, d) : d \in Clusters}

(* What lies below the root.                                               *)
Reach(R) ==
  {d \in Clusters :
     \A S \in SUBSET Clusters :
       RootCluster \in S /\ (\A r \in R : r[1] \in S => r[2] \in S) => d \in S}

Gone == IF Invalidated THEN {found} ELSE {}
DirInv == \A p \in DirHeads(view, Gone) : DirOK(fat, view, Gone, p)
CwdReach == cwd \in Reach(Ways(fat, view, {found}))

(* Where the locals of the call are, and what its loops have passed.       *)
Full(c) == \A m \in Indices : ~ IsVacant(slot[<<c, m>>])
WalkFind ==
  pc = "find" =>
    /\ cur \in Clusters => cur \in Trail(fat, cwd)
    /\ \A b \in Trail(fat, cwd) \ Trail(fat, cur), m \in Indices : ~ Sought(slot[<<b, m>>])
    /\ req.op = "up" /\ cwd # RootCluster => cur = cwd
WalkFound ==
  /\ found # NoSlot => found[1] \in Trail(fat, cwd) /\ Named(slot[found])
  /\ pc = "free" => /\ found # NoSlot /\ slot[found].first \in Clusters
                    /\ cur = slot[found].first \/ fat[slot[found].first] = Free
WalkFile ==
  /\ pc \in {"alloc", "link"} /\ prev # 0 => prev \in Trail(fat, head)
  /\ pc = "data" /\ cur \in Clusters => cur \in Trail(fat, head)
WalkSlot ==
  /\ pc = "slot" => (cur = cwd /\ last = cwd) \/ (last \in Trail(fat, cwd) /\ Full(last) /\ cur = fat[last])
  /\ pc \in {"extend", "elink"} => last \in Trail(fat, cwd) /\ Full(last) /\ fat[last] \notin Clusters
  /\ pc = "elink" => fat[cur] \notin Clusters
  /\ pc = "clear" => cur \in Trail(fat, cwd) /\ fat[last] = cur /\ fat[cur] \notin Clusters
  /\ pc = "entry" => target[1] \in Trail(fat, cwd)
  /\ pc = "entry" /\ found = NoSlot =>
       IsVacant(slot[target]) /\ \A m \in 1 .. target[2] - 1 : ~ IsVacant(slot[<<target[1], m>>])
NewDir ==
  req.op = "mkdir" =>
    /\ pc # "undo" => fat[head] = Eoc
    /\ pc \in {"slot", "extend", "elink", "clear", "entry"} =>
         slot[<<head, 1>>] = Entry("dir", Dot, head, 0) /\ slot[<<head, 2>>] = Entry("dir", DotDot, Up(cwd), 0)
         /\ \A m \in Indices : m > 2 => slot[<<head, m>>] = End

VolumeParts == Heads /\ DirInv /\ CwdReach /\ WalkFind /\ WalkFound /\ WalkFile /\ WalkSlot /\ NewDir
VolumeInv == ~ torn => VolumeParts

(* A cluster stays in a chain when no other entry of the chain changes.    *)
LEMMA TrailKept ==
  ASSUME NEW f, NEW g, NEW c, NEW x \in Trail(f, c), \A y \in Trail(f, c) \ {x} : g[y] = f[y]
  PROVE  x \in Trail(g, c)
<1> DEFINE A == Trail(f, c)
           B == Trail(g, c)
<1>1. SUFFICES ASSUME x \notin B PROVE FALSE
  OBVIOUS
<1>2. A \in SUBSET Clusters /\ B \in SUBSET Clusters /\ c \in A /\ c \in B
  BY TrailHas
<1>3. Closed(f, A) /\ Closed(g, B)
  BY TrailNext
<1>4. Closed(f, A \cap B)
  BY <1>1, <1>3 DEF Closed
<1> HIDE DEF A, B
<1>5. A \cap B \in SUBSET Clusters /\ c \in A \cap B
  BY <1>2
<1>6. A \subseteq A \cap B
  BY <1>4, <1>5, TrailLeast DEF A
<1> QED BY <1>1, <1>6 DEF A, B

(* A cluster linked somewhere is the only one a chain can gain.            *)
LEMMA TrailMore ==
  ASSUME NEW f, NEW g, NEW l, NEW x \in Clusters, \A y \in Clusters \ {l, x} : g[y] = f[y],
         g[l] = x, g[x] \notin Clusters, NEW c
  PROVE  Trail(g, c) \subseteq Trail(f, c) \cup {x}
<1>1. CASE c \notin Clusters
  BY <1>1, TrailHas
<1>2. CASE c \in Clusters
  <2> DEFINE S == Trail(f, c) \cup {x}
  <2>1. S \in SUBSET Clusters /\ c \in S
    BY <1>2, TrailHas
  <2>2. Closed(g, S)
    BY TrailNext, TrailHas DEF Closed
  <2> HIDE DEF S
  <2>3. Trail(g, c) \subseteq S
    BY <2>1, <2>2, TrailLeast
  <2> QED BY <2>3 DEF S
<1> QED BY <1>1, <1>2

(* What comes after a cluster of a chain.                                  *)
LEMMA TrailRest ==
  ASSUME NEW f, NEW c, NEW x \in Trail(f, c)
  PROVE  Trail(f, f[x]) \subseteq Trail(f, c)
<1>1. CASE f[x] \in Clusters
  <2>1. f[x] \in Trail(f, c)
    BY <1>1, TrailNext DEF Closed
  <2> QED BY <2>1, TrailSub
<1>2. CASE f[x] \notin Clusters
  BY <1>2, TrailHas
<1> QED BY <1>1, <1>2

-----------------------------------------------------------------------------
(* What lies below the root: the root, what follows something that does,   *)
(* and nothing else.                                                       *)
Pairs == Clusters \X Clusters

(* The root is reached.                                                    *)
LEMMA ReachHas == \A R : RootCluster \in Reach(R)
BY Apart DEF Reach

(* What a way leads to from what is reached is reached.                    *)
LEMMA ReachNext ==
  ASSUME NEW R \in SUBSET Pairs, NEW r \in R, r[1] \in Reach(R)
  PROVE  r[2] \in Reach(R)
BY DEF Reach, Pairs

(* Nothing else is.                                                        *)
LEMMA ReachLeast ==
  ASSUME NEW R, NEW S \in SUBSET Clusters, RootCluster \in S, \A r \in R : r[1] \in S => r[2] \in S
  PROVE  Reach(R) \subseteq S
BY DEF Reach

(* What is reached is the root or has a last way to it.                    *)
LEMMA ReachLast ==
  ASSUME NEW R \in SUBSET Pairs, NEW x \in Reach(R), x # RootCluster
  PROVE  \E r \in R : r[1] \in Reach(R) /\ r[2] = x
<1>1. SUFFICES ASSUME \A r \in R : r[1] \in Reach(R) => r[2] # x PROVE FALSE
  OBVIOUS
<1> DEFINE S == Reach(R) \ {x}
<1>2. S \in SUBSET Clusters /\ RootCluster \in S
  <2>1. Reach(R) \subseteq Clusters
    BY DEF Reach
  <2> QED BY <2>1, ReachHas
<1>3. \A r \in R : r[1] \in S => r[2] \in S
  BY <1>1, ReachNext
<1> HIDE DEF S
<1>4. Reach(R) \subseteq S
  BY <1>2, <1>3, ReachLeast
<1> QED BY <1>4 DEF S

(* What is reached stays so when only ways out of it itself are lost.      *)
LEMMA ReachKept ==
  ASSUME NEW R \in SUBSET Pairs, NEW Q, NEW x \in Reach(R),
         \A r \in R : r[1] \in Reach(R) /\ r[1] # x => r \in Q
  PROVE  x \in Reach(Q)
<1> DEFINE L == Reach(R)
<1>0. L \subseteq Clusters /\ RootCluster \in L
  BY ReachHas DEF Reach
<1>1. ASSUME NEW S \in SUBSET Clusters, RootCluster \in S, \A r \in Q : r[1] \in S => r[2] \in S, x \notin S
      PROVE  FALSE
  <2>1. \A r \in R : r[1] \in S \cap L => r[2] \in S \cap L
    BY <1>1, ReachNext
  <2> HIDE DEF L
  <2>2. S \cap L \in SUBSET Clusters /\ RootCluster \in S \cap L
    BY <1>0, <1>1
  <2>3. L \subseteq S \cap L
    BY <2>1, <2>2, ReachLeast DEF L
  <2> QED BY <1>1, <2>3 DEF L
<1> QED BY <1>0, <1>1 DEF Reach

(* The fixed point that TLC computes is what is reached.                   *)
LEMMA ReachIs ==
  ASSUME NEW R \in SUBSET Pairs
  PROVE  Reached[R] = Reach(R)
BY DEF Reached, Reach, Pairs

-----------------------------------------------------------------------------
(* A directory is what its chain and its records make it.                  *)
LEMMA FirstSame ==
  ASSUME NEW f, NEW g, NEW v, NEW w, NEW d,
         \A x \in Trail(f, d) : g[x] = f[x], \A s \in Cells(f, d) : w[s] = v[s]
  PROVE  /\ Trail(g, d) = Trail(f, d) /\ Cells(g, d) = Cells(f, d)
         /\ \A t \in Cells(f, d) : First(g, w, d, t) <=> First(f, v, d, t)
<1>1. Trail(g, d) = Trail(f, d) /\ Cells(g, d) = Cells(f, d)
  BY TrailSame DEF Cells
<1>2. ASSUME NEW c \in Trail(f, d)
      PROVE  Trail(g, g[c]) = Trail(f, f[c])
  <2>1. \A x \in Trail(f, f[c]) : g[x] = f[x]
    BY TrailRest
  <2>2. g[c] = f[c]
    OBVIOUS
  <2> QED BY <2>1, <2>2, TrailSame
<1>3. \A u \in Cells(f, d) : u[1] \in Trail(f, d)
  BY DEF Cells
<1>4. ASSUME NEW t \in Cells(f, d)
      PROVE  First(g, w, d, t) <=> First(f, v, d, t)
  BY <1>1, <1>2, <1>3 DEF First
<1> QED BY <1>1, <1>4

(* What a lookup finds depends on the chain of the directory and its       *)
(* records only.                                                           *)
LEMMA DoorsSame ==
  ASSUME NEW f, NEW g, NEW v, NEW w, NEW d, NEW G,
         \A x \in Trail(f, d) : g[x] = f[x], \A s \in Cells(f, d) : w[s] = v[s]
  PROVE  Doors(g, w, G, d) = Doors(f, v, G, d)
<1>1. /\ Cells(g, d) = Cells(f, d)
      /\ \A t \in Cells(f, d) : First(g, w, d, t) <=> First(f, v, d, t)
  BY FirstSame
<1> QED BY <1>1 DEF Doors

(* So does whether the directory is well formed, up to the dots of its     *)
(* subdirectories.                                                         *)
LEMMA DirSame ==
  ASSUME NEW f, NEW g, NEW v, NEW w, NEW p \in Clusters, NEW G, NEW H, G \subseteq H,
         \A x \in Trail(f, p) : g[x] = f[x], \A s \in Cells(f, p) : w[s] = v[s],
         \A s \in Cells(f, p) \ H : IsDir(v[s]) => w[<<v[s].first, 2>>] = v[<<v[s].first, 2>>],
         DirOK(f, v, G, p)
  PROVE  DirOK(g, w, H, p)
<1>1. Trail(g, p) = Trail(f, p) /\ Cells(g, p) = Cells(f, p)
  BY FirstSame
<1>2. \A c \in Trail(f, p), m \in Indices : w[<<c, m>>] = v[<<c, m>>]
  BY DEF Cells
<1>3. Tidy(g, w, p)
  BY <1>1, <1>2 DEF DirOK, Tidy
<1>4. Dotted(g, w, p)
  <2>1. p \in Trail(f, p) /\ 1 \in Indices /\ 2 \in Indices
    BY TrailHas, Apart
  <2> QED BY <1>1, <1>2, <2>1 DEF DirOK, Dotted
<1>5. LedBack(g, w, H, p)
  BY <1>1 DEF DirOK, LedBack
<1> QED BY <1>3, <1>4, <1>5 DEF DirOK

-----------------------------------------------------------------------------
(* What the records of a running volume are.                               *)
LEMMA ViewIn ==
  ASSUME TypeInv
  PROVE  /\ \A s \in SlotIds : view[s] \in Records
         /\ \A s \in SlotIds : view[s] = IF pc = "clear" /\ s[1] = cur THEN End ELSE slot[s]
         /\ \A s \in SlotIds : IsEntry(view[s]) => view[s] = slot[s]
         /\ \A s \in SlotIds : IsDir(view[s]) => view[s].first \in Clusters
         /\ \A s \in SlotIds : IsDir(view[s]) => slot[s].first # 0
<1>1. \A s \in SlotIds : view[s] = IF pc = "clear" /\ s[1] = cur THEN End ELSE slot[s]
  BY DEF view, View
<1>2. \A s \in SlotIds : view[s] \in Records
  BY <1>1, RecordsIn DEF TypeInv, DiskOK
<1>3. \A s \in SlotIds : IsEntry(view[s]) => view[s] = slot[s]
  BY <1>1 DEF IsEntry, End
<1>4. \A s \in SlotIds : IsDir(view[s]) => slot[s].first # 0 /\ view[s].first # 0
  BY <1>3 DEF IsDir, Named, TypeInv, DirHasCluster
<1>5. \A s \in SlotIds : IsDir(view[s]) => view[s].first \in Clusters
  BY <1>2, <1>4, EntryIn DEF IsDir, Named
<1> QED BY <1>1, <1>2, <1>3, <1>4, <1>5

(* The records of a directory are slots of the volume.                     *)
LEMMA CellsIn == \A f, d : Cells(f, d) \subseteq SlotIds
BY TrailHas DEF Cells, SlotIds

(* Ways lead from clusters to clusters.                                    *)
LEMMA WaysIn ==
  ASSUME TypeInv
  PROVE  \A G : Ways(fat, view, G) \in SUBSET Pairs
<1>1. \A G, d : Doors(fat, view, G, d) \subseteq Clusters
  BY ViewIn, CellsIn DEF Doors
<1> QED BY <1>1 DEF Ways, Pairs

(* Directories that are not being overwritten are heads of chains.         *)
LEMMA DirHead ==
  ASSUME TypeInv, Heads
  PROVE  /\ \A p \in DirHeads(view, {found}) :
              p \in Clusters /\ fat[p] # Free /\ NoPred(fat, p) /\ p \notin Holding
         /\ \A s, t \in SlotIds \ {found} :
              IsDir(view[s]) /\ IsDir(view[t]) /\ view[s].first = view[t].first => s = t
         /\ \A s \in SlotIds \ {found} : IsDir(view[s]) => view[s].first # RootCluster
<1>1. \A s \in SlotIds \ {found} : IsDir(view[s]) => <<s, view[s].first>> \in NamesNow
  BY ViewIn DEF IsDir, Named, NamesNow, Refs
<1>2. HeadsOK(fat, NamesNow, Holding)
  BY DEF Heads
<1>3. \A s, t \in SlotIds \ {found} :
        IsDir(view[s]) /\ IsDir(view[t]) /\ view[s].first = view[t].first => s = t
  BY <1>1, <1>2 DEF HeadsOK
<1>4. ASSUME NEW p \in DirHeads(view, {found}), p # RootCluster
      PROVE  \E x \in NamesNow : p = x[2]
  BY <1>1, <1>4 DEF DirHeads
<1>5. ASSUME NEW p \in DirHeads(view, {found})
      PROVE  p \in Clusters /\ fat[p] # Free /\ NoPred(fat, p) /\ p \notin Holding
  <2>1. CASE p = RootCluster
    BY <1>2, <2>1, Apart DEF HeadsOK
  <2>2. CASE p # RootCluster
    BY <1>2, <1>4, <2>2 DEF HeadsOK
  <2> QED BY <2>1, <2>2
<1>6. \A s \in SlotIds \ {found} : IsDir(view[s]) => view[s].first # RootCluster
  BY <1>1, <1>2 DEF HeadsOK
<1> QED BY <1>3, <1>5, <1>6

(* No cluster is of two directories, or of one and a chain the call holds. *)
LEMMA DirsApart ==
  ASSUME TypeInv, Heads, NEW p \in DirHeads(view, {found})
  PROVE  /\ \A q \in DirHeads(view, {found}) : p # q => Trail(fat, p) \cap Trail(fat, q) = {}
         /\ \A h \in Holding \cap Clusters : Trail(fat, p) \cap Trail(fat, h) = {}
<1>1. p \in Clusters /\ NoPred(fat, p) /\ p \notin Holding /\ Single(fat)
  BY DirHead DEF Heads, HeadsOK
<1>2. \A q \in DirHeads(view, {found}) : q \in Clusters /\ NoPred(fat, q)
  BY DirHead
<1>3. \A h \in Holding \cap Clusters : NoPred(fat, h) /\ p # h
  BY <1>1 DEF Heads, HeadsOK
<1> QED BY <1>1, <1>2, <1>3, TrailApart

(* Only the entry being overwritten can name freed clusters.               *)
LEMMA GoneIn == Gone \subseteq {found}
BY DEF Gone

(* Outside of the loop that frees them, the entry is set aside or names no *)
(* directory any more.                                                     *)
LEMMA DirsNow ==
  ASSUME TypeInv, pc # "free"
  PROVE  DirHeads(view, Gone) = DirHeads(view, {found})
<1>1. ASSUME NEW s \in SlotIds, s = found, IsDir(view[s])
      PROVE  s \in Gone
  <2>1. found # NoSlot
    BY <1>1, NoSlotApart
  <2>2. pc \in {"alloc", "link", "undo", "data", "entry"}
    BY <2>1 DEF TypeInv, Stage
  <2>3. IsEntry(slot[found]) /\ slot[found].first # 0
    BY <1>1, ViewIn DEF IsDir, Named
  <2>4. Invalidated
    BY <2>1, <2>2, <2>3 DEF Invalidated
  <2> QED BY <1>1, <2>4 DEF Gone
<1>2. \A s \in SlotIds : IsDir(view[s]) => (s \in Gone <=> s \in {found})
  BY <1>1, GoneIn
<1> QED BY <1>2 DEF DirHeads

(* Setting the entry aside leaves no directory out but its own.            *)
LEMMA DirsMost == DirHeads(view, {found}) \subseteq DirHeads(view, Gone)
BY GoneIn DEF DirHeads

(* What is below the root is a directory, the current one too.             *)
LEMMA ReachDirs ==
  ASSUME TypeInv, Heads
  PROVE  Reach(Ways(fat, view, {found})) \subseteq DirHeads(view, {found})
<1> DEFINE S == DirHeads(view, {found})
<1>1. S \in SUBSET Clusters /\ RootCluster \in S
  BY DirHead DEF DirHeads
<1>2. \A d : Doors(fat, view, {found}, d) \subseteq S
  BY CellsIn DEF Doors, DirHeads
<1>3. \A r \in Ways(fat, view, {found}) : r[2] \in S
  BY <1>2 DEF Ways
<1> HIDE DEF S
<1>4. Reach(Ways(fat, view, {found})) \subseteq S
  BY <1>1, <1>3, ReachLeast
<1> QED BY <1>4 DEF S

(* The current directory is a directory (fat32.c:612).                     *)
LEMMA CwdDir ==
  ASSUME TypeInv, Heads, CwdReach
  PROVE  cwd \in DirHeads(view, {found})
BY ReachDirs DEF CwdReach

(* The directories stay as they are when the step is outside of them.      *)
LEMMA DirsOutside ==
  ASSUME TypeInv, Heads, DirInv, CwdReach, UNCHANGED <<found, cwd>>,
         Gone \subseteq Gone', DirHeads(view', Gone') \subseteq DirHeads(view, {found}),
         \A p \in DirHeads(view, {found}) :
            /\ \A x \in Trail(fat, p) : fat'[x] = fat[x]
            /\ \A s \in Cells(fat, p) : view'[s] = view[s]
  PROVE  DirInv' /\ CwdReach'
<1>1. ASSUME NEW p \in DirHeads(view', Gone')
      PROVE  DirOK(fat', view', Gone', p)
  <2>1. p \in DirHeads(view, {found}) /\ p \in Clusters /\ DirOK(fat, view, Gone, p)
    BY DirHead, DirsMost DEF DirInv
  <2>2. \A x \in Trail(fat, p) : fat'[x] = fat[x]
    BY <2>1
  <2>3. \A s \in Cells(fat, p) : view'[s] = view[s]
    BY <2>1
  <2>4. ASSUME NEW s \in Cells(fat, p) \ Gone', IsDir(view[s])
        PROVE  view'[<<view[s].first, 2>>] = view[<<view[s].first, 2>>]
    <3> DEFINE q == view[s].first
    <3>1. q \in DirHeads(view', Gone')
      BY <2>3, <2>4, CellsIn DEF DirHeads
    <3>2. q \in DirHeads(view, {found}) /\ q \in Trail(fat, q)
      BY <3>1, DirHead, TrailHas
    <3>3. <<q, 2>> \in Cells(fat, q)
      BY <3>2, Apart DEF Cells
    <3> QED BY <3>2, <3>3
  <2> QED BY <2>1, <2>2, <2>3, <2>4, DirSame
<1>2. DirInv'
  BY <1>1 DEF DirInv
<1>3. ASSUME NEW r \in Ways(fat, view, {found}), r[1] \in Reach(Ways(fat, view, {found}))
      PROVE  r \in Ways(fat', view', {found})
  <2>1. PICK d \in Clusters : r \in {d} \X Doors(fat, view, {found}, d)
    BY <1>3 DEF Ways
  <2>2. r[1] = d /\ d \in DirHeads(view, {found})
    BY <1>3, <2>1, ReachDirs
  <2>3. (\A x \in Trail(fat, d) : fat'[x] = fat[x]) /\ (\A s \in Cells(fat, d) : view'[s] = view[s])
    BY <2>2
  <2>4. Doors(fat', view', {found}, d) = Doors(fat, view, {found}, d)
    BY <2>3, DoorsSame
  <2> QED BY <2>1, <2>4 DEF Ways
<1>4. cwd \in Reach(Ways(fat', view', {found}))
  BY <1>3, WaysIn, ReachKept DEF CwdReach
<1> QED BY <1>2, <1>4 DEF CwdReach

(* Records look the same while none is written.                            *)
LEMMA ViewSame ==
  ASSUME UNCHANGED slot, pc # "clear", pc' # "clear"
  PROVE  view' = view
BY DEF view, View

(* A step that writes nothing and goes on keeps the directories.           *)
LEMMA DirsGoOn ==
  ASSUME DirInv, CwdReach, UNCHANGED <<fat, slot, found, cwd>>, pc # "clear", pc' # "clear", Gone' = Gone
  PROVE  DirInv' /\ CwdReach'
<1>1. view' = view
  BY ViewSame
<1> QED BY <1>1 DEF DirInv, CwdReach

(* So does one that returns with nothing invalidated, to the same current  *)
(* directory or the root.                                                  *)
LEMMA DirsReturn ==
  ASSUME TypeInv, DirInv, CwdReach, UNCHANGED <<fat, slot>>, pc # "clear", ~ Invalidated,
         NEW r, Return(r), cwd' \in {cwd, RootCluster}
  PROVE  DirInv' /\ CwdReach'
<1>1. pc' = "idle" /\ found' = NoSlot
  BY DEF Return, ClearLocals
<1>2. view' = view /\ Gone = {} /\ Gone' = {}
  BY <1>1, ViewSame DEF Gone, Invalidated
<1>3. DirInv'
  BY <1>2 DEF DirInv
<1>4. \A d : Doors(fat, view, {found}, d) \subseteq Doors(fat, view, {NoSlot}, d)
  BY CellsIn, NoSlotApart DEF Doors
<1>5. Ways(fat, view, {found}) \subseteq Ways(fat, view, {NoSlot})
  BY <1>4 DEF Ways
<1>6. cwd \in Reach(Ways(fat, view, {NoSlot}))
  BY <1>5, WaysIn, ReachKept DEF CwdReach
<1>7. CwdReach'
  BY <1>1, <1>2, <1>6, ReachHas DEF CwdReach
<1> QED BY <1>3, <1>7

-----------------------------------------------------------------------------
(* The directories through each step.                                      *)
LEMMA CallDirs == TypeInv /\ VolumeParts /\ Call /\ ~ torn' => DirInv' /\ CwdReach'
<1> SUFFICES ASSUME TypeInv, VolumeParts, Call, ~ torn' PROVE DirInv' /\ CwdReach'
  OBVIOUS
<1>0. Heads /\ DirInv /\ CwdReach
  BY DEF VolumeParts
<1>1. CASE (\E n \in Names, z \in Sizes, v \in Values : WriteCall(n, z, v))
           \/ (\E n \in Names \cup {DotDot} : CdCall(n))
  <2>1. pc = "idle" /\ pc' = "find" /\ UNCHANGED <<fat, slot, found, cwd>>
    BY <1>1 DEF WriteCall, CdCall, disk, memory
  <2>2. Gone' = Gone
    BY <2>1 DEF Gone, Invalidated
  <2> QED BY <1>0, <2>1, <2>2, DirsGoOn
<1>2. CASE \E n \in Names : MkdirCall(n)
  <2>1. pc = "idle" /\ UNCHANGED <<slot, cwd>> /\ found = NoSlot /\ Gone = {}
    BY <1>2 DEF MkdirCall, TypeInv, Stage, Gone, Invalidated
  <2>2. CASE Return("fail") /\ UNCHANGED fat
    <3>1. ~ Invalidated
      BY <2>1 DEF Invalidated
    <3> QED BY <1>0, <2>1, <2>2, <3>1, DirsReturn
  <2>3. CASE \E c \in NearestFree : SetFat(c, Eoc) /\ pc' = "dots" /\ UNCHANGED found
    <3>1. PICK c \in NearestFree : SetFat(c, Eoc) /\ pc' = "dots" /\ UNCHANGED found
      BY <2>3
    <3>2. c \in Clusters /\ fat[c] = Free /\ \A x \in Clusters \ {c} : fat'[x] = fat[x]
      BY <3>1 DEF NearestFree, FreeClusters, SetFat, TypeInv, DiskOK
    <3>3. view' = view /\ Gone' = {}
      BY <2>1, <3>1, ViewSame DEF Gone, Invalidated
    <3>4. ASSUME NEW p \in DirHeads(view, {found}), NEW x \in Trail(fat, p) PROVE fat'[x] = fat[x]
      <4>1. p \in Clusters /\ fat[p] # Free /\ Safe(fat)
        BY <1>0, DirHead DEF Heads, HeadsOK
      <4>2. fat[x] # Free /\ x \in Clusters
        BY <4>1, TrailTaken, TrailHas
      <4> QED BY <3>2, <4>2
    <3>5. DirHeads(view', Gone') \subseteq DirHeads(view, {found}) /\ Gone \subseteq Gone'
      BY <2>1, <3>3, DirsNow
    <3> QED BY <1>0, <2>1, <3>1, <3>3, <3>4, <3>5, DirsOutside
  <2> QED BY <1>2, <2>2, <2>3 DEF MkdirCall
<1> QED BY <1>1, <1>2 DEF Call

(* Steps that only move along, and those that only return.                 *)
LEMMA MoveDirs ==
  TypeInv /\ VolumeParts /\ (FindNext \/ SealFile \/ DataDone \/ SlotHit \/ SlotNext \/ SlotMiss)
    /\ ~ torn' => DirInv' /\ CwdReach'
<1> SUFFICES ASSUME TypeInv, VolumeParts, FindNext \/ SealFile \/ DataDone \/ SlotHit \/ SlotNext \/ SlotMiss, ~ torn'
             PROVE  DirInv' /\ CwdReach'
  OBVIOUS
<1>0. DirInv /\ CwdReach
  BY DEF VolumeParts
<1>1. UNCHANGED fat
  <2>1. CASE SealFile
    BY <2>1, SealSame
  <2> QED BY <2>1 DEF FindNext, DataDone, SlotHit, SlotNext, SlotMiss, disk
<1>2. /\ UNCHANGED <<slot, found, cwd>>
      /\ \/ pc = "find" /\ pc' = "find"
         \/ pc = "alloc" /\ pc' = "data"
         \/ pc = "data" /\ pc' = "entry"
         \/ pc = "data" /\ pc' = "slot" /\ found = NoSlot
         \/ pc = "slot" /\ pc' \in {"entry", "slot", "extend"} /\ found = NoSlot
  BY DEF FindNext, SealFile, DataDone, SlotHit, SlotNext, SlotMiss, disk, memory, TypeInv, Stage
<1>3. Gone' = Gone
  BY <1>2 DEF Gone, Invalidated
<1> QED BY <1>0, <1>1, <1>2, <1>3, DirsGoOn

(* The lookup ends without the name: directories stay well formed and      *)
(* reached.                                                                *)
LEMMA FindMissDirs == TypeInv /\ VolumeParts /\ FindMiss => DirInv' /\ CwdReach'
<1> SUFFICES ASSUME TypeInv, VolumeParts, FindMiss PROVE DirInv' /\ CwdReach'
  OBVIOUS
<1>0. DirInv /\ CwdReach
  BY DEF VolumeParts
<1>1. pc = "find" /\ UNCHANGED <<fat, slot, cwd>> /\ found = NoSlot
  BY DEF FindMiss, disk, memory, TypeInv, Stage
<1>2. ~ Invalidated
  BY <1>1 DEF Invalidated
<1>3. CASE Return("fail")
  BY <1>0, <1>1, <1>2, <1>3, DirsReturn
<1>4. CASE pc' = "alloc" /\ UNCHANGED found
  <2>1. Gone' = Gone
    BY <1>1, <1>4 DEF Gone, Invalidated
  <2> QED BY <1>0, <1>1, <1>4, <2>1, DirsGoOn
<1> QED BY <1>3, <1>4 DEF FindMiss

(* The old chain is freed: directories stay well formed and reached.       *)
LEMMA FreeDoneDirs == TypeInv /\ VolumeParts /\ FreeDone /\ ~ torn' => DirInv' /\ CwdReach'
<1> SUFFICES ASSUME TypeInv, VolumeParts, FreeDone, ~ torn' PROVE DirInv' /\ CwdReach'
  OBVIOUS
<1>0. DirInv /\ CwdReach
  BY DEF VolumeParts
<1>1. UNCHANGED <<fat, slot, cwd>> /\ cur \notin Clusters
  BY Apart DEF FreeDone, disk, memory
<1>2. CASE pc = "undo" /\ Return("fail") /\ torn' = (torn \/ Invalidated)
  BY <1>0, <1>1, <1>2, DirsReturn
<1>3. CASE pc = "free" /\ pc' = "alloc" /\ UNCHANGED found
  <2>1. found # NoSlot /\ IsEntry(slot[found]) /\ slot[found].first \in Clusters /\ slot[found].first # 0
    BY <1>3, Apart DEF VolumeParts, WalkFound, Named
  <2>2. Invalidated /\ Invalidated'
    BY <1>1, <1>3, <2>1 DEF Invalidated
  <2>3. Gone' = Gone
    BY <1>3, <2>2 DEF Gone
  <2> QED BY <1>0, <1>1, <1>3, <2>3, DirsGoOn
<1> QED BY <1>2, <1>3 DEF FreeDone

(* No cluster is free: directories stay well formed and reached.           *)
LEMMA AllocFullDirs == TypeInv /\ VolumeParts /\ AllocFull /\ ~ torn' => DirInv' /\ CwdReach'
<1> SUFFICES ASSUME TypeInv, VolumeParts, AllocFull, ~ torn' PROVE DirInv' /\ CwdReach'
  OBVIOUS
<1>0. DirInv /\ CwdReach
  BY DEF VolumeParts
<1>1. UNCHANGED <<fat, slot, cwd>> /\ (pc = "alloc" \/ (pc = "extend" /\ found = NoSlot))
  BY DEF AllocFull, disk, memory, TypeInv, Stage
<1>2. CASE Return("fail") /\ torn' = (torn \/ Invalidated)
  BY <1>0, <1>1, <1>2, DirsReturn
<1>3. CASE pc' = "undo" /\ UNCHANGED found
  <2>1. Gone' = Gone
    BY <1>1, <1>3 DEF Gone, Invalidated
  <2> QED BY <1>0, <1>1, <1>3, <2>1, DirsGoOn
<1> QED BY <1>2, <1>3 DEF AllocFull

(* The machine stops and mounts the volume again: directories stay well    *)
(* formed and reached.                                                     *)
LEMMA CrashDirs == TypeInv /\ VolumeParts /\ Crash /\ ~ torn' => DirInv' /\ CwdReach'
<1> SUFFICES ASSUME TypeInv, VolumeParts, Crash, ~ torn' PROVE DirInv' /\ CwdReach'
  OBVIOUS
<1>0. DirInv /\ CwdReach
  BY DEF VolumeParts
<1>1. UNCHANGED <<fat, slot>> /\ cwd' = RootCluster /\ ~ Invalidated /\ pc # "clear" /\ Return("none")
  BY DEF Crash, TypeInv, OneTable
<1> QED BY <1>0, <1>1, DirsReturn

-----------------------------------------------------------------------------
(* Steps that write to the table or to records, but not in a directory.    *)
LEMMA FreeStepDirs == TypeInv /\ VolumeParts /\ FreeStep /\ ~ torn' => DirInv' /\ CwdReach'
<1> SUFFICES ASSUME TypeInv, VolumeParts, FreeStep, ~ torn' PROVE DirInv' /\ CwdReach'
  OBVIOUS
<1>0. Heads /\ DirInv /\ CwdReach /\ WalkFound
  BY DEF VolumeParts
<1>1. /\ pc \in {"free", "undo"} /\ pc' = pc /\ UNCHANGED <<slot, found, cwd>>
      /\ fat' = [fat EXCEPT ![cur] = Free] /\ cur' = fat[cur]
      /\ cur \in Clusters /\ fat \in [Clusters -> Links]
  BY Apart DEF FreeStep, SetFat, TypeInv, DiskOK, LocalsOK, memory
<1>2. cur \in Holding \cap Clusters
  BY <1>1 DEF Holding
<1>3. view' = view
  BY <1>1, ViewSame
<1>4. pc = "free" => Gone' = {found}
  <2> SUFFICES ASSUME pc = "free" PROVE Gone' = {found}
    OBVIOUS
  <2> DEFINE q == slot[found].first
  <2>1. found # NoSlot /\ Named(slot[found]) /\ q \in Clusters /\ (cur = q \/ fat[q] = Free)
    BY <1>0 DEF WalkFound
  <2>2. cur = q => fat[cur] # q
    BY <1>0, <1>2 DEF Heads, HeadsOK, NoPred
  <2>3. fat[q] = Free => fat[cur] # q
    BY <1>0, <1>1, <2>1 DEF Heads, HeadsOK, Safe
  <2>4. q # 0
    BY <2>1, Apart
  <2>5. Invalidated'
    BY <1>1, <2>1, <2>2, <2>3, <2>4 DEF Invalidated, Named
  <2> QED BY <1>1, <2>5 DEF Gone
<1>5. pc = "undo" => Gone' = Gone
  BY <1>1 DEF Gone, Invalidated
<1>6. Gone \subseteq Gone' /\ DirHeads(view', Gone') \subseteq DirHeads(view, {found})
  <2>1. CASE pc = "free"
    BY <1>3, <1>4, <2>1, GoneIn
  <2>2. CASE pc = "undo"
    BY <1>3, <1>5, <2>2, DirsNow
  <2> QED BY <1>1, <2>1, <2>2
<1>7. ASSUME NEW p \in DirHeads(view, {found}), NEW x \in Trail(fat, p) PROVE fat'[x] = fat[x]
  <2>1. cur \in Trail(fat, cur) /\ x \in Clusters
    BY <1>1, TrailHas
  <2>2. x # cur
    BY <1>0, <1>2, <2>1, DirsApart
  <2> QED BY <1>1, <2>1, <2>2
<1> QED BY <1>0, <1>1, <1>3, <1>6, <1>7, DirsOutside

(* A cluster is taken: directories stay well formed and reached.           *)
LEMMA AllocDirs == TypeInv /\ VolumeParts /\ (AllocFile \/ Extend) /\ ~ torn' => DirInv' /\ CwdReach'
<1> SUFFICES ASSUME TypeInv, VolumeParts, AllocFile \/ Extend, ~ torn' PROVE DirInv' /\ CwdReach'
  OBVIOUS
<1>0. Heads /\ DirInv /\ CwdReach
  BY DEF VolumeParts
<1>1. PICK c \in NearestFree : SetFat(c, Eoc)
  BY DEF AllocFile, Extend
<1>2. c \in Clusters /\ fat[c] = Free /\ \A x \in Clusters \ {c} : fat'[x] = fat[x]
  BY <1>1 DEF NearestFree, FreeClusters, SetFat, TypeInv, DiskOK
<1>3. /\ UNCHANGED <<slot, found, cwd>>
      /\ \/ pc = "alloc" /\ pc' \in {"alloc", "link"}
         \/ pc = "extend" /\ pc' = "elink" /\ found = NoSlot
  BY DEF AllocFile, Extend, TypeInv, Stage
<1>4. view' = view /\ Gone' = Gone
  BY <1>3, ViewSame DEF Gone, Invalidated
<1>5. ASSUME NEW p \in DirHeads(view, {found}), NEW x \in Trail(fat, p) PROVE fat'[x] = fat[x]
  <2>1. p \in Clusters /\ fat[p] # Free /\ Safe(fat)
    BY <1>0, DirHead DEF Heads, HeadsOK
  <2>2. fat[x] # Free /\ x \in Clusters
    BY <2>1, TrailTaken, TrailHas
  <2> QED BY <1>2, <2>2
<1>6. DirHeads(view', Gone') \subseteq DirHeads(view, {found})
  BY <1>3, <1>4, DirsNow
<1> QED BY <1>0, <1>3, <1>4, <1>5, <1>6, DirsOutside

(* The cluster is linked behind the file: directories stay well formed and *)
(* reached.                                                                *)
LEMMA LinkFileDirs == TypeInv /\ VolumeParts /\ LinkFile /\ ~ torn' => DirInv' /\ CwdReach'
<1> SUFFICES ASSUME TypeInv, VolumeParts, LinkFile, ~ torn' PROVE DirInv' /\ CwdReach'
  OBVIOUS
<1>0. Heads /\ DirInv /\ CwdReach
  BY DEF VolumeParts
<1>1. /\ pc = "link" /\ fat' = [fat EXCEPT ![prev] = cur] /\ pc' = "alloc"
      /\ UNCHANGED <<slot, found, cwd>> /\ fat \in [Clusters -> Links]
      /\ prev # 0
  BY DEF LinkFile, SetFat, TypeInv, DiskOK, Stage, memory
<1>2. view' = view /\ Gone' = Gone
  BY <1>1, ViewSame DEF Gone, Invalidated
<1>3. prev \in Trail(fat, head) /\ head \in Clusters /\ head \in Holding
  <2>1. prev \in Trail(fat, head)
    BY <1>1 DEF VolumeParts, WalkFile
  <2> QED BY <1>1, <2>1, TrailHas DEF Holding
<1>4. ASSUME NEW p \in DirHeads(view, {found}), NEW x \in Trail(fat, p) PROVE fat'[x] = fat[x]
  <2>1. x # prev
    BY <1>0, <1>3, DirsApart
  <2> QED BY <1>1, <2>1, TrailHas
<1>5. DirHeads(view', Gone') \subseteq DirHeads(view, {found})
  BY <1>1, <1>2, DirsNow
<1> QED BY <1>0, <1>1, <1>2, <1>4, <1>5, DirsOutside

(* A cluster is overwritten that is in the chain of head.                  *)
LEMMA WriteOutside ==
  ASSUME TypeInv, VolumeParts, NEW c \in Trail(fat, head), NEW new, WriteCluster(c, new),
         \A i \in Indices : ~ Named(new[i]), UNCHANGED <<fat, found, cwd>>,
         pc \notin {"clear", "free", "undo"}, pc' # "clear",
         found # NoSlot => pc' \in {"alloc", "link", "undo", "data", "entry"}
  PROVE  DirInv' /\ CwdReach'
<1>0. Heads /\ DirInv /\ CwdReach
  BY DEF VolumeParts
<1>1. PICK k \in 0 .. SlotsPerCluster :
        slot' = [s \in SlotIds |-> IF s[1] = c /\ s[2] <= k THEN new[s[2]] ELSE slot[s]]
  BY DEF WriteCluster
<1>2. head \in Holding \cap Clusters
  BY TrailHas DEF Holding
<1>3. (\A s \in SlotIds : view[s] = slot[s]) /\ (\A s \in SlotIds : view'[s] = slot'[s])
  BY DEF view, View
<1>4. \A s \in SlotIds : s[1] # c => view'[s] = view[s]
  BY <1>1, <1>3
<1>5. \A s \in SlotIds : s[2] \in Indices
  BY DEF SlotIds
<1>6. \A s \in SlotIds : IsDir(view'[s]) => view'[s] = view[s]
  BY <1>1, <1>3, <1>5 DEF IsDir
<1>7. ASSUME NEW p \in DirHeads(view, {found}), NEW s \in Cells(fat, p)
      PROVE  view'[s] = view[s]
  <2>1. s[1] \in Trail(fat, p) /\ s \in SlotIds
    BY CellsIn DEF Cells
  <2>2. s[1] # c
    BY <1>0, <1>2, <2>1, DirsApart
  <2> QED BY <1>4, <2>1, <2>2
<1>8. Gone \subseteq Gone'
  <2>1. CASE Invalidated
    <3>1. found # NoSlot /\ IsEntry(slot[found]) /\ slot[found].first # 0
      BY <2>1 DEF Invalidated
    <3>2. found[1] \in Trail(fat, cwd) /\ found \in SlotIds
      BY <3>1 DEF VolumeParts, WalkFound, TypeInv, LocalsOK
    <3>3. cwd \in DirHeads(view, {found})
      BY <1>0, CwdDir
    <3>4. found[1] # c
      BY <1>0, <1>2, <3>2, <3>3, DirsApart
    <3>5. slot'[found] = slot[found]
      BY <1>1, <3>2, <3>4
    <3>6. Invalidated'
      BY <3>1, <3>5 DEF Invalidated
    <3> QED BY <3>6 DEF Gone
  <2>2. CASE ~ Invalidated
    BY <2>2 DEF Gone
  <2> QED BY <2>1, <2>2
<1>9. DirHeads(view', Gone') \subseteq DirHeads(view, Gone)
  BY <1>6, <1>8 DEF DirHeads
<1>10. DirHeads(view', Gone') \subseteq DirHeads(view, {found})
  BY <1>9, DirsNow
<1>11. \A p \in DirHeads(view, {found}) :
            /\ \A x \in Trail(fat, p) : fat'[x] = fat[x]
            /\ \A s \in Cells(fat, p) : view'[s] = view[s]
  BY <1>7
<1> HIDE DEF Gone
<1> QED BY <1>0, <1>8, <1>10, <1>11, DirsOutside

(* A cluster of the file is written: directories stay well formed and      *)
(* reached.                                                                *)
LEMMA WriteDataDirs == TypeInv /\ VolumeParts /\ WriteData /\ ~ torn' => DirInv' /\ CwdReach'
<1> SUFFICES ASSUME TypeInv, VolumeParts, WriteData, ~ torn' PROVE DirInv' /\ CwdReach'
  OBVIOUS
<1> DEFINE new == [i \in Indices |-> IF i <= left THEN Chunk(req.val, req.size - left + i) ELSE End]
<1>1. /\ pc = "data" /\ pc' = "data" /\ left > 0 /\ UNCHANGED <<fat, found, cwd>>
      /\ WriteCluster(cur, new)
  BY DEF WriteData, memory
<1>2. cur \in Clusters
  BY DataInside DEF WriteData
<1>3. cur \in Trail(fat, head)
  BY <1>1, <1>2 DEF VolumeParts, WalkFile
<1>4. \A i \in Indices : ~ Named(new[i])
  BY DEF Named, IsEntry, Chunk, End
<1> HIDE DEF new
<1> QED BY <1>1, <1>3, <1>4, WriteOutside

(* The dots of a new directory are written: directories stay well formed   *)
(* and reached.                                                            *)
LEMMA WriteDotsDirs == TypeInv /\ VolumeParts /\ WriteDots => DirInv' /\ CwdReach'
<1> SUFFICES ASSUME TypeInv, VolumeParts, WriteDots PROVE DirInv' /\ CwdReach'
  OBVIOUS
<1> DEFINE up == IF cwd = RootCluster THEN 0 ELSE cwd
           new == [i \in Indices |->
             CASE i = 1 -> Entry("dir", Dot, head, 0)
               [] i = 2 -> Entry("dir", DotDot, up, 0)
               [] OTHER -> End]
<1>1. /\ pc = "dots" /\ pc' = "slot" /\ UNCHANGED <<fat, found, cwd>> /\ found = NoSlot
      /\ WriteCluster(head, new) /\ head \in Clusters
  BY DEF WriteDots, memory, TypeInv, Stage, LocalsOK
<1>2. head \in Trail(fat, head)
  BY <1>1, TrailHas
<1> HIDE DEF up
<1>3. \A i \in Indices : ~ Named(new[i])
  BY NameAssumption DEF Named, IsEntry, Entry, End
<1> HIDE DEF new
<1> QED BY <1>1, <1>2, <1>3, WriteOutside

(* It is cleared: directories stay well formed and reached.                *)
LEMMA ClearDirDirs == TypeInv /\ VolumeParts /\ ClearDir /\ ~ torn' => DirInv' /\ CwdReach'
<1> SUFFICES ASSUME TypeInv, VolumeParts, ClearDir, ~ torn' PROVE DirInv' /\ CwdReach'
  OBVIOUS
<1>1. /\ pc = "clear" /\ pc' = "entry" /\ UNCHANGED <<fat, found, cwd>> /\ found = NoSlot
      /\ WriteCluster(cur, [i \in Indices |-> End]) /\ faults' = faults /\ faults \in 0 .. MaxFaults
  BY DEF ClearDir, memory, TypeInv, Stage, PastOK
<1>2. slot' = [s \in SlotIds |-> IF s[1] = cur THEN End ELSE slot[s]]
  <2>1. PICK k \in 0 .. SlotsPerCluster :
          /\ slot' = [s \in SlotIds |-> IF s[1] = cur /\ s[2] <= k THEN [i \in Indices |-> End][s[2]] ELSE slot[s]]
          /\ k # SlotsPerCluster => faults' = faults + 1
    BY <1>1 DEF WriteCluster
  <2>2. k = SlotsPerCluster
    BY <1>1, <2>1, InputAssumption
  <2>3. \A s \in SlotIds : s[2] \in Indices /\ s[2] <= SlotsPerCluster
    BY VolumeAssumption DEF SlotIds, Indices
  <2> QED BY <2>1, <2>2, <2>3
<1>3. \A s \in SlotIds : View(s) = IF s[1] = cur THEN End ELSE slot[s]
  BY <1>1 DEF View
<1>4. \A s \in SlotIds : View(s)' = slot'[s]
  BY <1>1 DEF View
<1>5. view' = view
  BY <1>2, <1>3, <1>4 DEF view
<1>6. Gone' = Gone
  BY <1>1 DEF Gone, Invalidated
<1> QED BY <1>1, <1>5, <1>6 DEF VolumeParts, DirInv, CwdReach

-----------------------------------------------------------------------------
(* Steps that change a directory.                                          *)
LEMMA LinkDirDirs == TypeInv /\ VolumeParts /\ LinkDir /\ ~ torn' => last # cur /\ DirInv' /\ CwdReach'
<1> SUFFICES ASSUME TypeInv, VolumeParts, LinkDir, ~ torn' PROVE last # cur /\ DirInv' /\ CwdReach'
  OBVIOUS
<1>0. Heads /\ DirInv /\ CwdReach
  BY DEF VolumeParts
<1>1. /\ pc = "elink" /\ pc' = "clear" /\ fat' = [fat EXCEPT ![last] = cur, ![cur] = Eoc]
      /\ UNCHANGED <<slot, found, cwd, cur>> /\ fat \in [Clusters -> Links]
      /\ cur \in Clusters /\ last \in Clusters /\ found = NoSlot
  BY LinkDirTable DEF LinkDir, TypeInv, DiskOK, Stage, locals, memory
<1>2. last \in Trail(fat, cwd) /\ Full(last) /\ fat[last] \notin Clusters /\ fat[cur] \notin Clusters
  BY <1>1 DEF VolumeParts, WalkSlot
<1>3. cwd \in DirHeads(view, {found}) /\ cwd \in Clusters
  BY <1>0, CwdDir DEF TypeInv, KeptOK
<1>4. cur \in Holding \cap Clusters /\ cur \in Trail(fat, cur)
  BY <1>1, TrailHas DEF Holding
<1>5. \A p \in DirHeads(view, {found}) : cur \notin Trail(fat, p)
  BY <1>0, <1>4, DirsApart
<1>6. last # cur
  BY <1>2, <1>3, <1>5
<1>7. /\ fat'[last] = cur /\ fat'[cur] = Eoc /\ Eoc \notin Clusters
      /\ \A x \in Clusters \ {last, cur} : fat'[x] = fat[x]
  BY <1>1, <1>6, Apart
<1>8. Gone = {} /\ Gone' = {} /\ found' = NoSlot
  BY <1>1 DEF Gone, Invalidated
<1>9. \A s \in SlotIds : view[s] = slot[s] /\ view'[s] = IF s[1] = cur THEN End ELSE slot[s]
  BY <1>1 DEF view, View
<1>10. \A s \in SlotIds : IsEntry(view'[s]) => view'[s] = view[s]
  BY <1>9 DEF IsEntry, End
<1>11. DirHeads(view', {}) \subseteq DirHeads(view, {found})
  <2>1. DirHeads(view', {}) \subseteq DirHeads(view, {})
    BY <1>10 DEF DirHeads, IsDir, Named
  <2> QED BY <1>1, <1>8, <2>1, DirsNow
<1>12. \A q \in DirHeads(view, {found}) : <<q, 2>> \in SlotIds /\ view'[<<q, 2>>] = view[<<q, 2>>]
  <2> SUFFICES ASSUME NEW q \in DirHeads(view, {found})
               PROVE  <<q, 2>> \in SlotIds /\ view'[<<q, 2>>] = view[<<q, 2>>]
    OBVIOUS
  <2>1. q \in Clusters /\ q # cur /\ <<q, 2>>[1] = q
    BY <1>0, <1>4, DirHead
  <2>2. <<q, 2>> \in SlotIds
    BY <2>1, Apart DEF SlotIds
  <2> QED BY <1>9, <2>1, <2>2
<1>13. ASSUME NEW p \in DirHeads(view, {found}), p # cwd
       PROVE  /\ \A x \in Trail(fat, p) : fat'[x] = fat[x]
              /\ \A s \in Cells(fat, p) : view'[s] = view[s]
  <2>1. last \notin Trail(fat, p) /\ cur \notin Trail(fat, p)
    BY <1>0, <1>2, <1>3, <1>5, <1>13, DirsApart
  <2>2. \A x \in Trail(fat, p) : fat'[x] = fat[x]
    BY <1>7, <2>1, TrailHas
  <2>3. \A s \in Cells(fat, p) : s \in SlotIds /\ s[1] # cur
    BY <2>1, CellsIn DEF Cells
  <2> QED BY <1>9, <2>2, <2>3
<1>14. ASSUME NEW p \in DirHeads(view', {}), p # cwd
       PROVE  DirOK(fat', view', {}, p)
  <2>1. p \in DirHeads(view, {found}) /\ p \in Clusters /\ DirOK(fat, view, {}, p)
    BY <1>0, <1>8, <1>11, DirHead, DirsMost DEF DirInv
  <2>2. /\ \A x \in Trail(fat, p) : fat'[x] = fat[x]
        /\ \A s \in Cells(fat, p) : view'[s] = view[s]
    BY <1>13, <1>14, <2>1
  <2>3. \A s \in Cells(fat, p) \ {} : IsDir(view[s]) => view'[<<view[s].first, 2>>] = view[<<view[s].first, 2>>]
    <3> SUFFICES ASSUME NEW s \in Cells(fat, p), IsDir(view[s])
                 PROVE  view'[<<view[s].first, 2>>] = view[<<view[s].first, 2>>]
      OBVIOUS
    <3>1. s \in SlotIds /\ s # found
      BY <1>1, CellsIn, NoSlotApart
    <3>2. view[s].first \in DirHeads(view, {found})
      BY <3>1 DEF DirHeads
    <3> QED BY <1>12, <3>2
  <2>4. {} \subseteq {}
    OBVIOUS
  <2> QED BY ONLY <2>1, <2>2, <2>3, <2>4, DirSame
<1>15. DirOK(fat', view', {}, cwd)
  <2>1. Trail(fat', cwd) = Trail(fat, cwd) \cup {cur}
    <3>1. \A y \in Trail(fat, cwd) \ {last, cur} : fat'[y] = fat[y]
      BY <1>7, TrailHas
    <3>2. fat'[last] = cur /\ fat'[cur] \notin Clusters /\ cur \in Clusters
      BY <1>1, <1>7
    <3> QED BY <1>2, <1>3, <1>6, <3>1, <3>2, TrailLink
  <2>2. DirOK(fat, view, {}, cwd)
    BY <1>0, <1>3, <1>8, DirsMost DEF DirInv
  <2>3. \A s \in Cells(fat', cwd) : IsEntry(view'[s]) => s \in Cells(fat, cwd) /\ view'[s] = view[s]
    <3> SUFFICES ASSUME NEW s \in Cells(fat', cwd), IsEntry(view'[s])
                 PROVE  s \in Cells(fat, cwd) /\ view'[s] = view[s]
      OBVIOUS
    <3>1. s \in SlotIds /\ s \in (Trail(fat, cwd) \cup {cur}) \X Indices
      BY <2>1, CellsIn DEF Cells
    <3>2. s[1] # cur
      BY <1>9, <3>1 DEF IsEntry, End
    <3> QED BY <1>9, <3>1, <3>2 DEF Cells
  <2>4. Tidy(fat', view', cwd)
    <3> SUFFICES ASSUME NEW c \in Trail(fat', cwd), NEW m \in Indices, IsVacant(view'[<<c, m>>])
                 PROVE  fat'[c] \notin Clusters /\ \A k \in Indices : k > m => IsVacant(view'[<<c, k>>])
      BY DEF Tidy
    <3>1. c \in Clusters /\ \A k \in Indices : <<c, k>> \in SlotIds /\ <<c, k>>[1] = c
      BY TrailHas DEF SlotIds
    <3>2. CASE c = cur
      BY <1>7, <1>9, <3>1, <3>2 DEF IsVacant, End
    <3>3. CASE c # cur
      <4>1. c \in Trail(fat, cwd) /\ \A k \in Indices : view'[<<c, k>>] = view[<<c, k>>] /\ view[<<c, k>>] = slot[<<c, k>>]
        BY <1>9, <2>1, <3>1, <3>3
      <4>2. fat[c] \notin Clusters /\ \A k \in Indices : k > m => IsVacant(view[<<c, k>>])
        BY <2>2, <4>1 DEF DirOK, Tidy
      <4>3. c # last
        BY <1>2, <4>1 DEF Full
      <4> QED BY <1>7, <3>1, <3>3, <4>1, <4>2, <4>3
    <3> QED BY <3>2, <3>3
  <2>5. Dotted(fat', view', cwd)
    <3>1. CASE cwd = RootCluster
      BY <2>2, <2>3, <3>1 DEF DirOK, Dotted
    <3>2. CASE cwd # RootCluster
      <4>1. cwd # cur /\ <<cwd, 1>> \in SlotIds /\ <<cwd, 2>> \in SlotIds
        BY <1>0, <1>3, <1>4, DirHead, Apart DEF SlotIds
      <4>2. view'[<<cwd, 1>>] = view[<<cwd, 1>>] /\ view'[<<cwd, 2>>] = view[<<cwd, 2>>]
        BY <1>9, <4>1
      <4> QED BY <2>2, <3>2, <4>2 DEF DirOK, Dotted
    <3> QED BY <3>1, <3>2
  <2>6. LedBack(fat', view', {}, cwd)
    <3> SUFFICES ASSUME NEW s \in Cells(fat', cwd), IsDir(view'[s])
                 PROVE  view'[<<view'[s].first, 2>>].first = Up(cwd)
      BY DEF LedBack
    <3>1. s \in Cells(fat, cwd) /\ view'[s] = view[s] /\ s \in SlotIds /\ s # found
      BY <1>1, <2>3, CellsIn, NoSlotApart DEF IsDir, Named
    <3>2. view[<<view[s].first, 2>>].first = Up(cwd)
      BY <2>2, <3>1 DEF DirOK, LedBack
    <3>3. view[s].first \in DirHeads(view, {found})
      BY <3>1 DEF DirHeads
    <3> QED BY <1>12, <3>1, <3>2, <3>3
  <2> QED BY <2>4, <2>5, <2>6 DEF DirOK
<1>16. DirInv'
  <2> SUFFICES ASSUME NEW p \in DirHeads(view', {}) PROVE DirOK(fat', view', {}, p)
    BY <1>8 DEF DirInv
  <2> QED BY <1>14, <1>15
<1>17. ASSUME NEW r \in Ways(fat, view, {found}), r[1] \in Reach(Ways(fat, view, {found})), r[1] # cwd
       PROVE  r \in Ways(fat', view', {found})
  <2>1. PICK d \in Clusters : r \in {d} \X Doors(fat, view, {found}, d)
    BY DEF Ways
  <2>2. r[1] = d /\ d \in DirHeads(view, {found}) /\ d # cwd
    BY <1>0, <1>17, <2>1, ReachDirs
  <2>3. (\A x \in Trail(fat, d) : fat'[x] = fat[x]) /\ (\A s \in Cells(fat, d) : view'[s] = view[s])
    BY <1>13, <2>2
  <2>4. Doors(fat', view', {found}, d) = Doors(fat, view, {found}, d)
    BY <2>3, DoorsSame
  <2> QED BY <2>1, <2>4 DEF Ways
<1>18. cwd \in Reach(Ways(fat', view', {found}))
  BY <1>0, <1>17, WaysIn, ReachKept DEF CwdReach
<1>19. CwdReach'
  BY <1>1, <1>18 DEF CwdReach
<1> QED BY <1>6, <1>16, <1>19

(* The entry is written: directories stay well formed and reached.         *)
LEMMA WriteEntryDirs == TypeInv /\ VolumeParts /\ WriteEntry /\ ~ torn' => DirInv' /\ CwdReach'
<1> SUFFICES ASSUME TypeInv, VolumeParts, WriteEntry, ~ torn' PROVE DirInv' /\ CwdReach'
  OBVIOUS
<1> DEFINE new == Entry(IF req.op = "mkdir" THEN "dir" ELSE "file", req.key, head, req.size)
<1>0. Heads /\ DirInv /\ CwdReach
  BY DEF VolumeParts
<1>1. /\ pc = "entry" /\ Return("ok") /\ UNCHANGED <<fat, cwd>>
      /\ \/ slot' = [slot EXCEPT ![target] = new]
         \/ torn' = (torn \/ Invalidated) /\ UNCHANGED slot
  BY DEF WriteEntry, memory
<1>2. CASE torn' = (torn \/ Invalidated) /\ UNCHANGED slot
  BY <1>0, <1>1, <1>2, DirsReturn
<1>3. CASE slot' = [slot EXCEPT ![target] = new]
  <2>1. /\ IsEntry(new) /\ ~ IsVacant(new) /\ new.first = head /\ new.name = req.key
        /\ Named(new) /\ (IsDir(new) => req.op = "mkdir")
    <3>1. req.key \in ShortNames
      BY <1>1 DEF TypeInv, Stage, Asked
    <3> QED BY <3>1 DEF Entry, IsEntry, IsVacant, Named, IsDir
  <2> HIDE DEF new
  <2>2. /\ target \in SlotIds /\ target[1] \in Trail(fat, cwd) /\ slot \in [SlotIds -> Records]
        /\ (found # NoSlot => target = found)
        /\ (found = NoSlot => /\ IsVacant(slot[target])
                              /\ \A m \in 1 .. target[2] - 1 : ~ IsVacant(slot[<<target[1], m>>]))
    BY <1>1 DEF TypeInv, Stage, DiskOK, VolumeParts, WalkSlot
  <2>3. /\ \A s \in SlotIds : view[s] = slot[s]
        /\ \A s \in SlotIds : view'[s] = IF s = target THEN new ELSE slot[s]
    <3>1. pc' = "idle"
      BY <1>1 DEF Return
    <3> QED BY <1>1, <1>3, <2>2, <3>1 DEF view, View
  <2>4. found' = NoSlot /\ Gone' = {}
    BY <1>1 DEF Return, ClearLocals, Gone, Invalidated
  <2>5. cwd \in DirHeads(view, {found}) /\ cwd \in Clusters
    BY <1>0, CwdDir DEF TypeInv, KeptOK
  <2>6. IsVacant(view[target]) \/ Named(view[target])
    BY <2>2, <2>3 DEF VolumeParts, WalkFound
  <2>7. cwd # RootCluster => target # <<cwd, 1>> /\ target # <<cwd, 2>>
    <3> SUFFICES ASSUME cwd # RootCluster PROVE target # <<cwd, 1>> /\ target # <<cwd, 2>>
      OBVIOUS
    <3>1. Dotted(fat, view, cwd)
      BY <1>0, <2>5, DirsMost DEF DirInv, DirOK
    <3>2. /\ IsEntry(view[<<cwd, 1>>]) /\ view[<<cwd, 1>>].name = Dot
          /\ IsEntry(view[<<cwd, 2>>]) /\ view[<<cwd, 2>>].name = DotDot
      BY <3>1 DEF Dotted
    <3> QED BY <2>6, <3>2, NameAssumption DEF IsVacant, IsEntry, Named
  <2>8. \A q \in DirHeads(view, {found}) \ {RootCluster} :
           <<q, 2>> \in SlotIds /\ view'[<<q, 2>>] = view[<<q, 2>>]
    <3> SUFFICES ASSUME NEW q \in DirHeads(view, {found}) \ {RootCluster}
                 PROVE  <<q, 2>> \in SlotIds /\ view'[<<q, 2>>] = view[<<q, 2>>]
      OBVIOUS
    <3>1. q \in Clusters /\ q \in Trail(fat, q)
      BY <1>0, DirHead, TrailHas
    <3>2. <<q, 2>> \in SlotIds
      BY <3>1, Apart DEF SlotIds
    <3>3. target # <<q, 2>>
      <4>1. CASE q = cwd
        BY <2>7, <4>1
      <4>2. CASE q # cwd
        <5>1. target[1] # q
          BY <1>0, <2>2, <2>5, <3>1, <4>2, DirsApart
        <5> QED BY <5>1
      <4> QED BY <4>1, <4>2
    <3> QED BY <2>3, <3>2, <3>3
  <2>9. \A s \in SlotIds \ {found} : IsDir(view[s]) =>
           /\ view[s].first \in DirHeads(view, {found}) \ {RootCluster}
           /\ view'[<<view[s].first, 2>>] = view[<<view[s].first, 2>>]
    <3>1. \A s \in SlotIds \ {found} : IsDir(view[s]) => view[s].first \in DirHeads(view, {found}) \ {RootCluster}
      BY <1>0, DirHead DEF DirHeads
    <3> QED BY <2>8, <3>1
  <2>10. \A p \in DirHeads(view, {found}) : p # cwd => \A s \in Cells(fat, p) : view'[s] = view[s] /\ s # target /\ s # found
    <3> SUFFICES ASSUME NEW p \in DirHeads(view, {found}), p # cwd, NEW s \in Cells(fat, p)
                 PROVE  view'[s] = view[s] /\ s # target /\ s # found
      OBVIOUS
    <3>1. s[1] \in Trail(fat, p) /\ s \in SlotIds
      BY CellsIn DEF Cells
    <3>2. s # target
      BY <1>0, <2>2, <2>5, <3>1, DirsApart
    <3>3. s # found
      BY <2>2, <3>1, <3>2, NoSlotApart
    <3> QED BY <2>3, <3>1, <3>2, <3>3
  <2>11. ASSUME NEW p \in DirHeads(view, {found}), p # cwd
         PROVE  DirOK(fat', view', {}, p)
    <3>1. p \in Clusters /\ DirOK(fat, view, Gone, p)
      BY <1>0, <2>11, DirHead, DirsMost DEF DirInv
    <3>2. \A s \in Cells(fat, p) : s \in SlotIds \ {found} /\ s \notin Gone
      BY <2>10, <2>11, CellsIn, GoneIn
    <3>3. DirOK(fat, view, {}, p)
      BY <3>1, <3>2 DEF DirOK, LedBack
    <3>4. /\ \A x \in Trail(fat, p) : fat'[x] = fat[x]
          /\ \A s \in Cells(fat, p) : view'[s] = view[s]
      BY <1>1, <2>10, <2>11
    <3>5. \A s \in Cells(fat, p) \ {} : IsDir(view[s]) => view'[<<view[s].first, 2>>] = view[<<view[s].first, 2>>]
      BY <2>9, <3>2
    <3> QED BY <3>1, <3>3, <3>4, <3>5, DirSame
  <2>12. DirOK(fat, view', {}, cwd)
    <3>1. DirOK(fat, view, Gone, cwd)
      BY <1>0, <2>5, DirsMost DEF DirInv
    <3>2. Tidy(fat, view', cwd)
      <4> SUFFICES ASSUME NEW c \in Trail(fat, cwd), NEW m \in Indices, IsVacant(view'[<<c, m>>])
                   PROVE  fat[c] \notin Clusters /\ \A k \in Indices : k > m => IsVacant(view'[<<c, k>>])
        BY DEF Tidy
      <4>1. c \in Clusters /\ \A k \in Indices : <<c, k>> \in SlotIds /\ k \in Nat
        BY TrailHas, Apart DEF SlotIds
      <4>2. <<c, m>> # target /\ view'[<<c, m>>] = slot[<<c, m>>] /\ view[<<c, m>>] = slot[<<c, m>>]
        BY <2>1, <2>3, <4>1
      <4>3. fat[c] \notin Clusters /\ \A k \in Indices : k > m => IsVacant(view[<<c, k>>])
        BY <3>1, <4>2 DEF DirOK, Tidy
      <4>4. ASSUME NEW k \in Indices, k > m, <<c, k>> = target PROVE FALSE
        <5>1. IsVacant(slot[target])
          BY <2>2, <2>3, <4>3, <4>4
        <5>2. found = NoSlot
          BY <2>2, <5>1 DEF VolumeParts, WalkFound, Named, IsVacant, IsEntry
        <5>3. target[1] = c /\ target[2] = k /\ m \in 1 .. k - 1
          BY <4>1, <4>4 DEF Indices
        <5> QED BY <2>2, <4>2, <5>2, <5>3
      <4> QED BY <2>3, <4>1, <4>3, <4>4
    <3>3. Dotted(fat, view', cwd)
      <4>1. CASE cwd = RootCluster
        <5>1. \A s \in Cells(fat, cwd) : s \in SlotIds
          BY CellsIn
        <5> QED BY <2>1, <2>3, <3>1, <4>1, <5>1 DEF DirOK, Dotted
      <4>2. CASE cwd # RootCluster
        <5>1. <<cwd, 1>> \in SlotIds /\ <<cwd, 2>> \in SlotIds
          BY <2>5, Apart DEF SlotIds
        <5> QED BY <2>3, <2>7, <3>1, <4>2, <5>1 DEF DirOK, Dotted
      <4> QED BY <4>1, <4>2
    <3>4. LedBack(fat, view', {}, cwd)
      <4> SUFFICES ASSUME NEW s \in Cells(fat, cwd), IsDir(view'[s])
                   PROVE  view'[<<view'[s].first, 2>>].first = Up(cwd)
        BY DEF LedBack
      <4>1. s \in SlotIds
        BY CellsIn
      <4>2. CASE s # target
        <5>1. view'[s] = view[s] /\ s # found /\ s \notin Gone
          BY <2>2, <2>3, <4>1, <4>2, NoSlotApart, GoneIn
        <5>2. view[<<view[s].first, 2>>].first = Up(cwd)
          BY <3>1, <5>1 DEF DirOK, LedBack
        <5> QED BY <2>9, <4>1, <5>1, <5>2
      <4>3. CASE s = target
        <5>1. view'[s] = new /\ req.op = "mkdir"
          BY <2>1, <2>3, <4>1, <4>3
        <5>2. head \in Clusters /\ head \in Holding /\ head \in Trail(fat, head)
          BY <1>1, <5>1, TrailHas DEF TypeInv, Stage, LocalsOK, Holding
        <5>3. head \notin Trail(fat, cwd)
          BY <1>0, <2>5, <5>2, DirsApart
        <5>4. <<head, 2>> \in SlotIds /\ <<head, 2>> # target
          BY <2>2, <5>2, <5>3, Apart DEF SlotIds
        <5>5. slot[<<head, 2>>] = Entry("dir", DotDot, Up(cwd), 0)
          BY <1>1, <5>1 DEF VolumeParts, NewDir
        <5>6. view'[<<head, 2>>].first = Up(cwd)
          BY <2>3, <5>4, <5>5 DEF Entry
        <5> QED BY <2>1, <5>1, <5>6
      <4> QED BY <4>2, <4>3
    <3> QED BY <3>2, <3>3, <3>4 DEF DirOK
  <2>13. ASSUME req.op = "mkdir"
         PROVE  DirOK(fat, view', {}, head)
    <3>1. head \in Clusters /\ head \in Holding /\ head \in Trail(fat, head)
      BY <1>1, <2>13, TrailHas DEF TypeInv, Stage, LocalsOK, Holding
    <3>2. head \notin Trail(fat, cwd) /\ head # RootCluster
      <4>1. head # RootCluster
        BY <1>0, <3>1 DEF Heads, HeadsOK
      <4> QED BY <1>0, <2>5, <3>1, <4>1, DirsApart
    <3>3. fat[head] = Eoc /\ slot[<<head, 1>>] = Entry("dir", Dot, head, 0)
          /\ slot[<<head, 2>>] = Entry("dir", DotDot, Up(cwd), 0)
          /\ \A m \in Indices : m > 2 => slot[<<head, m>>] = End
      BY <1>1, <2>13 DEF VolumeParts, NewDir
    <3>4. Trail(fat, head) = {head} /\ fat[head] \notin Clusters
      BY <3>1, <3>3, TrailSplit, TrailHas, Apart
    <3>5. \A m \in Indices : <<head, m>> \in SlotIds /\ view'[<<head, m>>] = slot[<<head, m>>]
      <4> SUFFICES ASSUME NEW m \in Indices
                   PROVE  <<head, m>> \in SlotIds /\ view'[<<head, m>>] = slot[<<head, m>>]
        OBVIOUS
      <4>1. <<head, m>> \in SlotIds /\ <<head, m>> # target
        BY <2>2, <3>1, <3>2 DEF SlotIds
      <4> QED BY <2>3, <4>1
    <3>6. \A m \in Indices : m = 1 \/ m = 2 \/ m > 2
      BY DEF Indices
    <3>7. ~ IsVacant(slot[<<head, 1>>]) /\ ~ IsVacant(slot[<<head, 2>>])
      BY <3>3 DEF Entry, IsVacant
    <3>8. Tidy(fat, view', head)
      <4> SUFFICES ASSUME NEW m \in Indices, IsVacant(view'[<<head, m>>])
                   PROVE  \A k \in Indices : k > m => IsVacant(view'[<<head, k>>])
        BY <3>4 DEF Tidy
      <4>1. m > 2
        BY <3>5, <3>6, <3>7
      <4>2. \A k \in Indices : k > m => k > 2
        BY <4>1 DEF Indices
      <4> QED BY <3>3, <3>5, <4>2 DEF IsVacant, End
    <3>9. Dotted(fat, view', head)
      BY <3>2, <3>3, <3>5, Apart DEF Dotted, IsEntry, Entry
    <3>10. \A s \in Cells(fat, head) : ~ IsDir(view'[s])
      <4> SUFFICES ASSUME NEW m \in Indices PROVE ~ IsDir(slot[<<head, m>>])
        BY <3>4, <3>5 DEF Cells
      <4> QED BY <3>3, <3>6, NameAssumption DEF IsDir, Named, IsEntry, Entry, End
    <3> QED BY <3>8, <3>9, <3>10 DEF DirOK, LedBack
  <2>14. ASSUME NEW p \in DirHeads(view', {}) PROVE DirOK(fat', view', {}, p)
    <3>1. p \in DirHeads(view, {found}) \/ (p = head /\ req.op = "mkdir")
      <4>1. CASE p = RootCluster
        BY <4>1 DEF DirHeads
      <4>2. CASE p # RootCluster
        <5>1. PICK s \in SlotIds : IsDir(view'[s]) /\ p = view'[s].first
          BY <4>2 DEF DirHeads
        <5>2. CASE s = target
          BY <2>1, <2>3, <5>1, <5>2
        <5>3. CASE s # target
          <6>1. view'[s] = view[s] /\ s # found
            BY <2>2, <2>3, <5>1, <5>3, NoSlotApart
          <6> QED BY <5>1, <6>1 DEF DirHeads
        <5> QED BY <5>2, <5>3
      <4> QED BY <4>1, <4>2
    <3> QED BY <1>1, <2>11, <2>12, <2>13, <3>1
  <2>15. DirInv'
    BY <2>4, <2>14 DEF DirInv
  <2>16. ASSUME NEW r \in Ways(fat, view, {found}), r[1] \in Reach(Ways(fat, view, {found})), r[1] # cwd
         PROVE  r \in Ways(fat', view', {NoSlot})
    <3>1. PICK d \in Clusters : r \in {d} \X Doors(fat, view, {found}, d)
      BY DEF Ways
    <3>2. r[1] = d /\ d \in DirHeads(view, {found}) /\ d # cwd
      BY <1>0, <2>16, <3>1, ReachDirs
    <3>3. (\A x \in Trail(fat, d) : fat'[x] = fat[x]) /\ (\A s \in Cells(fat, d) : view'[s] = view[s])
      BY <1>1, <2>10, <3>2
    <3>4. Doors(fat', view', {found}, d) = Doors(fat, view, {found}, d)
      BY <3>3, DoorsSame
    <3>5. Doors(fat', view', {found}, d) \subseteq Doors(fat', view', {NoSlot}, d)
      BY CellsIn, NoSlotApart DEF Doors
    <3> QED BY <3>1, <3>4, <3>5 DEF Ways
  <2>17. cwd \in Reach(Ways(fat', view', {NoSlot}))
    BY <1>0, <2>16, WaysIn, ReachKept DEF CwdReach
  <2>18. CwdReach'
    BY <1>1, <2>4, <2>17 DEF CwdReach
  <2> QED BY <2>15, <2>18
<1> QED BY <1>1, <1>2, <1>3

(* The entry a scan stops at is the one a lookup finds.                    *)
LEMMA HitFirst ==
  ASSUME TypeInv, VolumeParts, pc = "find", cur \in Clusters, NEW m \in Hits(cur)
  PROVE  /\ <<cur, m>> \in Cells(fat, cwd) /\ Sought(slot[<<cur, m>>])
         /\ First(fat, view, cwd, <<cur, m>>)
<1>1. /\ m \in Indices /\ Sought(slot[<<cur, m>>])
      /\ \A j \in 1 .. m - 1 : ~ Sought(slot[<<cur, j>>])
  BY DEF Hits
<1>2. /\ cur \in Trail(fat, cwd)
      /\ \A b \in Trail(fat, cwd) \ Trail(fat, cur), j \in Indices : ~ Sought(slot[<<b, j>>])
  BY DEF VolumeParts, WalkFind
<1>3. <<cur, m>> \in Cells(fat, cwd)
  BY <1>1, <1>2 DEF Cells
<1>4. \A s \in SlotIds : view[s] = slot[s]
  BY DEF view, View
<1>5. cwd \in Clusters /\ NoPred(fat, cwd) /\ Single(fat)
  BY CwdDir, DirHead DEF VolumeParts, Heads, HeadsOK
<1>6. cur \notin Trail(fat, fat[cur])
  BY <1>2, <1>5, TrailAcyclic
<1>7. ASSUME NEW u \in Cells(fat, cwd), IsEntry(view[u]), view[u].name = view[<<cur, m>>].name
      PROVE  (u[1] = cur => m <= u[2]) /\ cur \notin Trail(fat, fat[u[1]])
  <2>1. u = <<u[1], u[2]>> /\ u[1] \in Trail(fat, cwd) /\ u[2] \in Indices /\ u \in SlotIds
    BY CellsIn DEF Cells
  <2>2. Sought(slot[u])
    BY <1>1, <1>3, <1>4, <1>7, <2>1, CellsIn DEF Sought
  <2>3. u[1] \in Trail(fat, cur)
    BY <1>2, <2>1, <2>2
  <2>4. u[1] = cur => m <= u[2]
    <3>1. u[1] = cur => u[2] \notin 1 .. m - 1
      BY <1>1, <2>1, <2>2
    <3> QED BY <1>1, <2>1, <3>1 DEF Indices
  <2>5. cur \notin Trail(fat, fat[u[1]])
    <3>1. CASE u[1] = cur
      BY <1>6, <3>1
    <3>2. CASE u[1] # cur
      <4>1. u[1] \in Trail(fat, fat[cur])
        BY <2>3, <3>2, TrailSplit
      <4>2. Trail(fat, fat[u[1]]) \subseteq Trail(fat, fat[cur])
        BY <4>1, TrailRest
      <4> QED BY <1>6, <4>2
    <3> QED BY <3>1, <3>2
  <2> QED BY <2>4, <2>5
<1>8. First(fat, view, cwd, <<cur, m>>)
  <2>1. <<cur, m>>[1] = cur /\ <<cur, m>>[2] = m
    OBVIOUS
  <2> QED BY <1>7, <2>1 DEF First
<1> QED BY <1>1, <1>3, <1>8

(* The entry found leads to the parent, or down.                           *)
LEMMA UpReached ==
  ASSUME TypeInv, VolumeParts, pc = "find", cur \in Clusters, NEW m \in Hits(cur), req.op = "up",
         NEW q, q = slot[<<cur, m>>].first
  PROVE  \E d \in Reach(Ways(fat, view, {found})) :
           cwd \in Doors(fat, view, {found}, d) /\ d = IF q = 0 THEN RootCluster ELSE q
<1>1. /\ m \in Indices /\ Sought(slot[<<cur, m>>])
      /\ \A j \in 1 .. m - 1 : ~ Sought(slot[<<cur, j>>])
  BY DEF Hits
<1>2. req.key = DotDot
  BY DEF TypeInv, Asked
<1>3. \A s \in SlotIds : view[s] = slot[s]
  BY DEF view, View
<1>4. <<cur, m>> \in Cells(fat, cwd)
  BY HitFirst
<1>5. Heads /\ cwd \in DirHeads(view, {found}) /\ cwd \in Reach(Ways(fat, view, {found}))
  BY CwdDir DEF VolumeParts, CwdReach
<1>6. cwd \in Clusters /\ DirOK(fat, view, Gone, cwd)
  BY <1>5, DirHead, DirsMost DEF VolumeParts, DirInv
<1>7. cwd # RootCluster
  <2> SUFFICES ASSUME cwd = RootCluster PROVE FALSE
    OBVIOUS
  <2>1. Named(view[<<cur, m>>])
    BY <1>1, <1>3, <1>4, <1>6, CellsIn DEF DirOK, Dotted, Sought
  <2> QED BY <1>1, <1>2, <1>3, <1>4, <2>1, CellsIn, NameAssumption DEF Named, Sought
<1>8. cur = cwd
  BY <1>7 DEF VolumeParts, WalkFind
<1>9. <<cwd, 1>> \in SlotIds /\ <<cwd, 2>> \in SlotIds
  BY <1>6, Apart DEF SlotIds
<1>10. slot[<<cwd, 1>>].name = Dot /\ Sought(slot[<<cwd, 2>>])
  BY <1>2, <1>3, <1>6, <1>7, <1>9 DEF DirOK, Dotted, Sought
<1>11. m = 2
  <2>1. m # 1
    BY <1>1, <1>2, <1>8, <1>10 DEF Sought, Dot, DotDot
  <2>2. ~ (2 \in 1 .. m - 1)
    BY <1>1, <1>8, <1>10
  <2> QED BY <1>1, <2>1, <2>2 DEF Indices
<1>12. PICK r \in Ways(fat, view, {found}) : r[1] \in Reach(Ways(fat, view, {found})) /\ r[2] = cwd
  BY <1>5, <1>7, WaysIn, ReachLast
<1>13. PICK d \in Clusters : r \in {d} \X Doors(fat, view, {found}, d)
  BY DEF Ways
<1>14. d \in DirHeads(view, {found}) /\ d \in Reach(Ways(fat, view, {found})) /\ cwd \in Doors(fat, view, {found}, d)
  BY <1>5, <1>12, <1>13, ReachDirs
<1>15. PICK s \in Cells(fat, d) \ {found} : IsDir(view[s]) /\ view[s].first = cwd
  BY <1>14 DEF Doors
<1>16. view[<<cwd, 2>>].first = Up(d)
  <2>1. LedBack(fat, view, Gone, d) /\ s \notin Gone
    BY <1>14, DirsMost, GoneIn DEF VolumeParts, DirInv, DirOK
  <2> QED BY <1>15, <2>1 DEF LedBack
<1>17. q = Up(d) /\ d # 0
  BY <1>3, <1>8, <1>9, <1>11, <1>13, <1>16, Apart
<1>18. d = IF q = 0 THEN RootCluster ELSE q
  BY <1>17 DEF Up
<1> QED BY <1>14, <1>18

(* cd enters what a lookup in a reached directory finds (fat32.c:612).     *)
LEMMA DownReached ==
  ASSUME TypeInv, VolumeParts, pc = "find", cur \in Clusters, NEW m \in Hits(cur), req.op = "cd",
         slot[<<cur, m>>].kind = "dir", NEW q, q = slot[<<cur, m>>].first
  PROVE  q # 0 /\ q \in Doors(fat, view, {found}, cwd) /\ q \in Reach(Ways(fat, view, {found}))
<1> DEFINE s == <<cur, m>>
<1>1. s \in Cells(fat, cwd) /\ Sought(slot[s]) /\ First(fat, view, cwd, s)
  BY HitFirst
<1> HIDE DEF s
<1>2. s \in SlotIds /\ view[s] = slot[s] /\ s # found
  BY <1>1, CellsIn, NoSlotApart DEF view, View, TypeInv, Stage
<1>3. Named(slot[s])
  <2>1. req.key \in ShortNames \cup {""}
    BY DEF TypeInv, Asked
  <2>2. IsEntry(slot[s]) /\ slot[s].name = req.key /\ slot[s] \in Records
    BY <1>1, <1>2 DEF Sought, TypeInv, DiskOK
  <2>3. slot[s].name \in ShortNames \cup {Dot, DotDot}
    BY <2>2, EntryIn
  <2> QED BY <2>1, <2>2, <2>3 DEF Named, Dot, DotDot
<1>4. IsDir(view[s]) /\ q = view[s].first /\ q # 0
  BY <1>2, <1>3 DEF IsDir, TypeInv, DirHasCluster, s
<1>5. q \in Doors(fat, view, {found}, cwd)
  BY <1>1, <1>2, <1>4 DEF Doors
<1>6. <<cwd, q>> \in Ways(fat, view, {found}) /\ cwd \in Clusters
  BY <1>5 DEF Ways, TypeInv, KeptOK
<1>7. q \in Reach(Ways(fat, view, {found}))
  <2>1. <<cwd, q>>[1] \in Reach(Ways(fat, view, {found})) /\ <<cwd, q>>[2] = q
    BY DEF VolumeParts, CwdReach
  <2> QED BY <1>6, <2>1, WaysIn, ReachNext
<1> QED BY <1>4, <1>5, <1>7

(* The lookup finds the name: directories stay well formed and reached.    *)
LEMMA FindHitDirs == TypeInv /\ VolumeParts /\ FindHit => DirInv' /\ CwdReach'
<1> SUFFICES ASSUME TypeInv, VolumeParts, FindHit PROVE DirInv' /\ CwdReach'
  OBVIOUS
<1>0. Heads /\ DirInv /\ CwdReach
  BY DEF VolumeParts
<1>1. pc = "find" /\ cur \in Clusters /\ UNCHANGED <<fat, slot>> /\ found = NoSlot
  BY Apart DEF FindHit, LocalsOK, disk, TypeInv, Stage
<1>2. ~ Invalidated /\ Gone = {}
  BY <1>1 DEF Invalidated, Gone
<1>3. PICK m \in Hits(cur) :
       LET e == slot[<<cur, m>>] IN
       \/ /\ req.op = "write"
          /\ found' = <<cur, m>>
          /\ IF e.first >= 2
             THEN pc' = "free" /\ cur' = e.first
             ELSE pc' = "alloc" /\ cur' = 0
          /\ UNCHANGED cwd
       \/ /\ EntersInto(e)
          /\ cwd' = IF e.first = 0 THEN RootCluster ELSE e.first
          /\ Return("ok")
       \/ Return("fail") /\ UNCHANGED cwd
  BY DEF FindHit
<1> DEFINE s == <<cur, m>>
           e == slot[s]
<1>4. CASE Return("fail") /\ UNCHANGED cwd
  BY <1>0, <1>1, <1>2, <1>4, DirsReturn
<1>5. CASE EntersInto(e) /\ cwd' = (IF e.first = 0 THEN RootCluster ELSE e.first) /\ Return("ok")
  <2>1. cwd' \in Reach(Ways(fat, view, {found}))
    <3>1. CASE req.op = "up"
      <4>1. \E d \in Reach(Ways(fat, view, {found})) : d = cwd'
        BY <1>1, <1>5, <3>1, UpReached
      <4> QED BY <4>1
    <3>2. CASE req.op = "cd" /\ e.kind = "dir"
      BY <1>1, <1>5, <3>2, DownReached
    <3> QED BY <1>5, <3>1, <3>2 DEF EntersInto
  <2>2. pc' = "idle" /\ found' = found
    BY <1>1, <1>5 DEF Return, ClearLocals
  <2>3. view' = view /\ Gone' = Gone
    BY <1>1, <1>2, <2>2, ViewSame DEF Gone, Invalidated
  <2> QED BY <1>0, <1>1, <2>1, <2>2, <2>3 DEF DirInv, CwdReach
<1>6. CASE /\ found' = s
           /\ IF e.first >= 2
              THEN pc' = "free" /\ cur' = e.first
              ELSE pc' = "alloc" /\ cur' = 0
           /\ UNCHANGED cwd
  <2>1. s \in Cells(fat, cwd) /\ Sought(e) /\ s \in SlotIds
    BY <1>1, CellsIn, HitFirst
  <2>2. e.first \in Clusters \cup {0}
    BY <2>1, EntryIn DEF TypeInv, DiskOK, Sought
  <2>3. view' = view /\ Gone' = {}
    <3>1. ~ Invalidated'
      <4>1. CASE pc' = "free" /\ cur' = e.first
        BY <1>1, <1>6, <4>1 DEF Invalidated
      <4>2. CASE pc' = "alloc" /\ ~ (e.first >= 2)
        <5>1. e.first = 0
          BY <2>2, <4>2, Apart
        <5> QED BY <1>1, <1>6, <5>1 DEF Invalidated
      <4> QED BY <1>6, <4>1, <4>2
    <3>2. pc' # "clear"
      BY <1>6
    <3> QED BY <1>1, <3>1, <3>2, ViewSame DEF Gone
  <2> HIDE DEF s
  <2>4. DirInv'
    BY <1>0, <1>1, <1>2, <2>3 DEF DirInv
  <2>5. ASSUME NEW r \in Ways(fat, view, {found}), r[1] \in Reach(Ways(fat, view, {found})), r[1] # cwd
        PROVE  r \in Ways(fat, view, {s})
    <3>1. PICK d \in Clusters : r \in {d} \X Doors(fat, view, {found}, d)
      BY DEF Ways
    <3>2. d \in DirHeads(view, {found}) /\ d # cwd /\ cwd \in DirHeads(view, {found})
      BY <1>0, <2>5, <3>1, ReachDirs, CwdDir
    <3>3. s \notin Cells(fat, d)
      BY <1>0, <2>1, <3>2, DirsApart DEF Cells
    <3>4. Doors(fat, view, {found}, d) \subseteq Doors(fat, view, {s}, d)
      BY <3>3 DEF Doors
    <3> QED BY <3>1, <3>4 DEF Ways
  <2>6. cwd \in Reach(Ways(fat, view, {s}))
    BY <1>0, <2>5, WaysIn, ReachKept DEF CwdReach
  <2>7. CwdReach'
    BY <1>1, <1>6, <2>3, <2>6 DEF CwdReach
  <2> QED BY <2>4, <2>7
<1> QED BY <1>3, <1>4, <1>5, <1>6

-----------------------------------------------------------------------------
(* The locals through each step.                                           *)
Walks == WalkFind /\ WalkFound /\ WalkFile /\ WalkSlot /\ NewDir

(* A call that has returned has no locals left.                            *)
LEMMA WalksReturn ==
  ASSUME NEW r, Return(r)
  PROVE  Walks'
BY DEF Return, ClearLocals, NoCall, Walks, WalkFind, WalkFound, WalkFile, WalkSlot, NewDir

(* A call begins: the locals are where they should be.                     *)
LEMMA CallWalks == TypeInv /\ VolumeParts /\ Call /\ ~ torn' => Walks'
<1> SUFFICES ASSUME TypeInv, VolumeParts, Call, ~ torn' PROVE Walks'
  OBVIOUS
<1>1. CASE (\E n \in Names, z \in Sizes, v \in Values : WriteCall(n, z, v))
           \/ (\E n \in Names \cup {DotDot} : CdCall(n))
  <2>1. /\ pc = "idle" /\ pc' = "find" /\ UNCHANGED <<fat, slot, found, cwd>> /\ cur' = cwd
        /\ req'.op \in {"write", "cd", "up"} /\ found = NoSlot /\ cwd \in Clusters
    <3>1. pc = "idle" => found = NoSlot /\ cwd \in Clusters
      BY DEF TypeInv, Stage, KeptOK
    <3>2. ASSUME NEW n, NEW z, NEW v, WriteCall(n, z, v)
          PROVE  /\ pc = "idle" /\ pc' = "find" /\ UNCHANGED <<fat, slot, found, cwd>> /\ cur' = cwd
                 /\ req'.op \in {"write", "cd", "up"}
      BY <3>2 DEF WriteCall, disk, memory
    <3>3. ASSUME NEW n, CdCall(n)
          PROVE  /\ pc = "idle" /\ pc' = "find" /\ UNCHANGED <<fat, slot, found, cwd>> /\ cur' = cwd
                 /\ req'.op \in {"write", "cd", "up"}
      <4> DEFINE k == IF n \in ExactNames THEN ShortOf[n] ELSE ""
      <4>1. /\ pc = "idle" /\ pc' = "find" /\ UNCHANGED <<fat, slot, found, cwd>> /\ cur' = cwd
            /\ \/ req' = [op |-> "cd", name |-> n, key |-> k, size |-> 0, val |-> Dot]
               \/ req' = [op |-> "up", name |-> n, key |-> DotDot, size |-> 0, val |-> Dot]
        BY <3>3 DEF CdCall, disk, memory
      <4> HIDE DEF k
      <4> QED BY <4>1
    <3> QED BY <1>1, <3>1, <3>2, <3>3
  <2>2. WalkFind'
    BY <2>1, TrailHas DEF WalkFind
  <2> QED BY <2>1, <2>2 DEF Walks, WalkFound, WalkFile, WalkSlot, NewDir
<1>2. CASE \E n \in Names : MkdirCall(n)
  <2>1. CASE Return("fail")
    BY <2>1, WalksReturn
  <2>2. CASE \E c \in NearestFree : SetFat(c, Eoc) /\ head' = c /\ pc' = "dots" /\ UNCHANGED found
    <3>1. fat'[head'] = Eoc /\ pc' = "dots" /\ found' = NoSlot
      BY <1>2, <2>2 DEF NearestFree, FreeClusters, SetFat, TypeInv, DiskOK, Stage, MkdirCall
    <3> QED BY <3>1 DEF Walks, WalkFind, WalkFound, WalkFile, WalkSlot, NewDir
  <2> QED BY <1>2, <2>1, <2>2 DEF MkdirCall
<1> QED BY <1>1, <1>2 DEF Call

(* The lookup finds the name: the locals are where they should be.         *)
LEMMA FindHitWalks == TypeInv /\ VolumeParts /\ FindHit => Walks'
<1> SUFFICES ASSUME TypeInv, VolumeParts, FindHit PROVE Walks'
  OBVIOUS
<1>1. pc = "find" /\ cur \in Clusters /\ UNCHANGED <<fat, slot>> /\ prev = 0
  BY Apart DEF FindHit, LocalsOK, disk, TypeInv, Stage
<1>2. CASE \E r : Return(r)
  BY <1>2, WalksReturn
<1>3. CASE req.op = "write" /\ \E m \in Hits(cur) :
             /\ found' = <<cur, m>>
             /\ IF slot[<<cur, m>>].first >= 2
                THEN pc' = "free" /\ cur' = slot[<<cur, m>>].first
                ELSE pc' = "alloc" /\ cur' = 0
             /\ UNCHANGED <<cwd, req, prev>>
  <2>1. PICK m \in Hits(cur) :
             /\ found' = <<cur, m>>
             /\ IF slot[<<cur, m>>].first >= 2
                THEN pc' = "free" /\ cur' = slot[<<cur, m>>].first
                ELSE pc' = "alloc" /\ cur' = 0
             /\ UNCHANGED <<cwd, req, prev>>
    BY <1>3
  <2> DEFINE s == <<cur, m>>
  <2>2. s \in Cells(fat, cwd) /\ Sought(slot[s]) /\ s \in SlotIds
    BY <1>1, HitFirst, CellsIn
  <2>3. Named(slot[s]) /\ slot[s].first \in Clusters \cup {0}
    BY <1>3, <2>2, EntryIn DEF Sought, Named, TypeInv, Asked, DiskOK
  <2>4. cur \in Trail(fat, cwd) /\ s # NoSlot /\ s[1] = cur
    BY <2>2, NoSlotApart DEF Cells
  <2> HIDE DEF s
  <2>5. pc' = "free" => slot'[s].first \in Clusters /\ cur' = slot'[s].first
    <3>1. CASE slot[s].first = 0
      BY <2>1, <3>1 DEF s
    <3>2. CASE slot[s].first \in Clusters
      BY <1>1, <2>1, <3>2 DEF s
    <3> QED BY <2>3, <3>1, <3>2
  <2>6. WalkFound'
    BY <1>1, <2>1, <2>3, <2>4, <2>5 DEF WalkFound, s
  <2> QED BY <1>1, <1>3, <2>1, <2>6 DEF Walks, WalkFind, WalkFile, WalkSlot, NewDir
<1> QED BY <1>2, <1>3 DEF FindHit, memory

(* A scan that finds nothing has passed every record.                      *)
LEMMA NoHit ==
  ASSUME NEW c, Hits(c) = {}, ~ Ended(c)
  PROVE  \A m \in Indices : ~ Sought(slot[<<c, m>>])
<1> DEFINE S == {m \in Indices : Sought(slot[<<c, m>>])}
<1>1. SUFFICES ASSUME S # {} PROVE FALSE
  OBVIOUS
<1>2. S \in SUBSET Nat
  BY Apart
<1> HIDE DEF S
<1>3. PICK m \in S : \A k \in S : m <= k
  BY <1>1, <1>2, Least
<1>4. m \in Indices /\ Sought(slot[<<c, m>>])
  BY <1>3 DEF S
<1>5. \A j \in 1 .. m - 1 : j \in Indices /\ j \notin S
  BY <1>2, <1>3, <1>4, VolumeAssumption DEF Indices
<1>6. \A j \in 1 .. m - 1 : slot[<<c, j>>].kind # "end" /\ ~ Sought(slot[<<c, j>>])
  BY <1>5 DEF Ended, S
<1> QED BY <1>4, <1>6 DEF Hits

(* A cluster the search for a slot goes past is full.                      *)
LEMMA NoVacancy ==
  ASSUME NEW c, Vacancies(c) = {}
  PROVE  Full(c)
<1> DEFINE S == {m \in Indices : IsVacant(slot[<<c, m>>])}
<1>1. SUFFICES ASSUME S # {} PROVE FALSE
  BY DEF Full
<1>2. S \in SUBSET Nat
  BY Apart
<1> HIDE DEF S
<1>3. PICK m \in S : \A k \in S : m <= k
  BY <1>1, <1>2, Least
<1>4. m \in Indices /\ IsVacant(slot[<<c, m>>])
  BY <1>3 DEF S
<1>5. \A j \in 1 .. m - 1 : j \in Indices /\ j \notin S
  BY <1>2, <1>3, <1>4, VolumeAssumption DEF Indices
<1>6. \A j \in 1 .. m - 1 : ~ IsVacant(slot[<<c, j>>])
  BY <1>5 DEF S
<1> QED BY <1>4, <1>6 DEF Vacancies

(* The lookup goes to the next cluster: the locals are where they should   *)
(* be.                                                                     *)
LEMMA FindNextWalks == TypeInv /\ VolumeParts /\ FindNext => Walks'
<1> SUFFICES ASSUME TypeInv, VolumeParts, FindNext PROVE Walks'
  OBVIOUS
<1>1. /\ pc = "find" /\ pc' = "find" /\ cur \in Clusters /\ Hits(cur) = {} /\ ~ Ended(cur)
      /\ cur' = fat[cur] /\ UNCHANGED <<fat, slot, found, cwd, req>>
  BY Apart DEF FindNext, LocalsOK, disk, memory, TypeInv
<1>2. \A m \in Indices : ~ Sought(slot[<<cur, m>>])
  BY <1>1, NoHit
<1>3. /\ cur \in Trail(fat, cwd)
      /\ \A b \in Trail(fat, cwd) \ Trail(fat, cur), m \in Indices : ~ Sought(slot[<<b, m>>])
      /\ req.op = "up" /\ cwd # RootCluster => cur = cwd
  BY <1>1 DEF VolumeParts, WalkFind
<1>4. fat[cur] \in Clusters => fat[cur] \in Trail(fat, cwd)
  BY <1>3, TrailNext DEF Closed
<1>5. \A b \in Trail(fat, cwd) \ Trail(fat, fat[cur]), m \in Indices : ~ Sought(slot[<<b, m>>])
  <2>1. Trail(fat, cur) = {cur} \cup Trail(fat, fat[cur])
    BY <1>1, TrailSplit
  <2> QED BY <1>2, <1>3, <2>1
<1>6. ~ (req.op = "up" /\ cwd # RootCluster)
  <2> SUFFICES ASSUME req.op = "up", cwd # RootCluster PROVE FALSE
    OBVIOUS
  <2>1. DirOK(fat, view, Gone, cwd) /\ cwd \in Clusters
    BY CwdDir, DirsMost DEF VolumeParts, DirInv, TypeInv, KeptOK
  <2>2. view[<<cwd, 2>>] = slot[<<cwd, 2>>]
    BY <1>1, <2>1, Apart DEF view, View, SlotIds
  <2>3. Sought(slot[<<cwd, 2>>])
    BY <2>1, <2>2 DEF DirOK, Dotted, Sought, TypeInv, Asked
  <2> QED BY <1>2, <1>3, <2>3, Apart
<1>7. \A r : Sought(r)' = Sought(r)
  BY <1>1 DEF Sought
<1>8. WalkFind'
  BY <1>1, <1>4, <1>5, <1>6 DEF WalkFind, Sought
<1> QED BY <1>1, <1>8 DEF VolumeParts, Walks, WalkFound, WalkFile, WalkSlot, NewDir, TypeInv, Stage

(* The lookup ends without the name: the locals are where they should be.  *)
LEMMA FindMissWalks == TypeInv /\ VolumeParts /\ FindMiss => Walks'
<1> SUFFICES ASSUME TypeInv, VolumeParts, FindMiss PROVE Walks'
  OBVIOUS
<1>1. pc = "find" /\ found = NoSlot /\ prev = 0
  BY DEF FindMiss, TypeInv, Stage
<1>2. CASE Return("fail")
  BY <1>2, WalksReturn
<1>3. CASE req.op = "write" /\ pc' = "alloc" /\ UNCHANGED <<req, found, prev>>
  BY <1>1, <1>3 DEF Walks, WalkFind, WalkFound, WalkFile, WalkSlot, NewDir
<1> QED BY <1>2, <1>3 DEF FindMiss

(* The chain of the current directory is not the call's to change.         *)
LEMMA CwdSame ==
  ASSUME TypeInv, VolumeParts, NEW g,
         \/ \E c \in Clusters : fat[c] = Free /\ \A x \in Clusters \ {c} : g[x] = fat[x]
         \/ \E h \in Holding \cap Clusters : \E c \in Trail(fat, h) : \A x \in Clusters \ {c} : g[x] = fat[x]
  PROVE  /\ Trail(g, cwd) = Trail(fat, cwd)
         /\ \A x \in Trail(fat, cwd) : g[x] = fat[x]
<1>1. cwd \in DirHeads(view, {found}) /\ Heads
  BY CwdDir DEF VolumeParts
<1>2. cwd \in Clusters /\ fat[cwd] # Free /\ Safe(fat)
  BY <1>1, DirHead DEF Heads, HeadsOK
<1>3. \A x \in Trail(fat, cwd) : x \in Clusters /\ fat[x] # Free
  BY <1>2, TrailTaken, TrailHas
<1>4. \A h \in Holding \cap Clusters : Trail(fat, cwd) \cap Trail(fat, h) = {}
  BY <1>1, DirsApart
<1>5. \A x \in Trail(fat, cwd) : g[x] = fat[x]
  BY <1>3, <1>4
<1> QED BY <1>5, TrailSame

(* The old chain loses one more cluster: the locals are where they should  *)
(* be.                                                                     *)
LEMMA FreeStepWalks == TypeInv /\ VolumeParts /\ FreeStep /\ ~ torn' => Walks'
<1> SUFFICES ASSUME TypeInv, VolumeParts, FreeStep, ~ torn' PROVE Walks'
  OBVIOUS
<1>1. /\ pc \in {"free", "undo"} /\ pc' = pc /\ UNCHANGED <<slot, found, cwd, req>>
      /\ fat' = [fat EXCEPT ![cur] = Free] /\ cur' = fat[cur]
      /\ cur \in Clusters /\ fat \in [Clusters -> Links] /\ (pc = "free" => req.op = "write")
  BY Apart DEF FreeStep, SetFat, TypeInv, DiskOK, LocalsOK, memory, Stage
<1>2. Trail(fat', cwd) = Trail(fat, cwd)
  <2>1. cur \in Holding \cap Clusters /\ cur \in Trail(fat, cur)
    BY <1>1, TrailHas DEF Holding
  <2>2. \A x \in Clusters \ {cur} : fat'[x] = fat[x]
    BY <1>1
  <2> QED BY <2>1, <2>2, CwdSame
<1>3. WalkFound'
  BY <1>1, <1>2 DEF VolumeParts, WalkFound
<1> QED BY <1>1, <1>3 DEF Walks, WalkFind, WalkFile, WalkSlot, NewDir

(* The old chain is freed: the locals are where they should be.            *)
LEMMA FreeDoneWalks == TypeInv /\ VolumeParts /\ FreeDone => Walks'
<1> SUFFICES ASSUME TypeInv, VolumeParts, FreeDone PROVE Walks'
  OBVIOUS
<1>1. CASE Return("fail")
  BY <1>1, WalksReturn
<1>2. CASE pc = "free" /\ pc' = "alloc" /\ UNCHANGED <<req, found, prev>>
  <2>1. prev = 0 /\ req.op = "write" /\ UNCHANGED <<fat, slot, cwd>>
    BY <1>2 DEF TypeInv, Stage, FreeDone, disk, memory
  <2> QED BY <1>2, <2>1 DEF VolumeParts, Walks, WalkFind, WalkFound, WalkFile, WalkSlot, NewDir
<1> QED BY <1>1, <1>2 DEF FreeDone

(* No cluster is free: the locals are where they should be.                *)
LEMMA AllocFullWalks == TypeInv /\ VolumeParts /\ AllocFull => Walks'
<1> SUFFICES ASSUME TypeInv, VolumeParts, AllocFull PROVE Walks'
  OBVIOUS
<1>1. CASE Return("fail")
  BY <1>1, WalksReturn
<1>2. CASE pc' = "undo" /\ UNCHANGED <<req, found>>
  <2>1. UNCHANGED <<fat, slot, cwd>>
    BY DEF AllocFull, disk, memory
  <2> QED BY <1>2, <2>1 DEF VolumeParts, Walks, WalkFind, WalkFound, WalkFile, WalkSlot, NewDir
<1> QED BY <1>1, <1>2 DEF AllocFull

(* A cluster is taken for the file: the locals are where they should be.   *)
LEMMA AllocFileWalks == TypeInv /\ VolumeParts /\ AllocFile /\ ~ torn' => Walks'
<1> SUFFICES ASSUME TypeInv, VolumeParts, AllocFile, ~ torn' PROVE Walks'
  OBVIOUS
<1>1. PICK c \in NearestFree :
       /\ SetFat(c, Eoc)
       /\ head' = IF head = 0 THEN c ELSE head
       /\ IF prev # 0
          THEN pc' = "link" /\ cur' = c /\ prev' = prev
          ELSE pc' = "alloc" /\ cur' = 0 /\ prev' = c
  BY DEF AllocFile
<1>2. /\ pc = "alloc" /\ c \in Clusters /\ fat[c] = Free /\ fat' = [fat EXCEPT ![c] = Eoc]
      /\ fat \in [Clusters -> Links] /\ UNCHANGED <<slot, found, cwd, req>> /\ (head = 0) = (prev = 0)
      /\ req.op = "write" /\ head \in Clusters \cup {0}
  BY <1>1 DEF AllocFile, NearestFree, FreeClusters, SetFat, TypeInv, DiskOK, Stage, LocalsOK
<1>3. \A x \in Clusters \ {c} : fat'[x] = fat[x]
  BY <1>2
<1>4. Trail(fat', cwd) = Trail(fat, cwd)
  BY <1>2, <1>3, CwdSame
<1>5. WalkFound'
  BY <1>1, <1>2, <1>4 DEF VolumeParts, WalkFound
<1>6. CASE prev = 0
  <2>1. head' = c /\ prev' = c /\ pc' = "alloc" /\ c \in Trail(fat', c)
    BY <1>1, <1>2, <1>6, TrailHas
  <2> QED BY <1>2, <1>5, <2>1 DEF Walks, WalkFind, WalkFile, WalkSlot, NewDir
<1>7. CASE prev # 0
  <2>1. head' = head /\ prev' = prev /\ pc' = "link" /\ head \in Clusters /\ head \in Holding
    BY <1>1, <1>2, <1>7 DEF Holding
  <2>2. prev \in Trail(fat, head)
    BY <1>2, <1>7 DEF VolumeParts, WalkFile
  <2>3. fat[head] # Free /\ Safe(fat)
    BY <2>1 DEF VolumeParts, Heads, HeadsOK
  <2>4. \A x \in Trail(fat, head) : fat'[x] = fat[x]
    BY <1>2, <1>3, <2>1, <2>3, TrailTaken, TrailHas
  <2>5. prev \in Trail(fat', head)
    BY <2>2, <2>4, TrailSame
  <2> QED BY <1>2, <1>5, <2>1, <2>5 DEF Walks, WalkFind, WalkFile, WalkSlot, NewDir
<1> QED BY <1>6, <1>7

(* The cluster is linked behind the file: the locals are where they should *)
(* be.                                                                     *)
LEMMA LinkFileWalks == TypeInv /\ VolumeParts /\ LinkFile /\ ~ torn' => Walks'
<1> SUFFICES ASSUME TypeInv, VolumeParts, LinkFile, ~ torn' PROVE Walks'
  OBVIOUS
<1>1. /\ pc = "link" /\ fat' = [fat EXCEPT ![prev] = cur] /\ pc' = "alloc" /\ prev' = cur
      /\ UNCHANGED <<slot, found, cwd, req, head>> /\ fat \in [Clusters -> Links]
      /\ prev # 0 /\ cur \in Clusters /\ req.op = "write"
  BY DEF LinkFile, SetFat, TypeInv, DiskOK, Stage, memory
<1>2. prev \in Trail(fat, head) /\ head \in Holding \cap Clusters
  <2>1. prev \in Trail(fat, head)
    BY <1>1 DEF VolumeParts, WalkFile
  <2> QED BY <1>1, <2>1, TrailHas DEF Holding
<1>3. \A x \in Clusters \ {prev} : fat'[x] = fat[x]
  BY <1>1
<1>4. Trail(fat', cwd) = Trail(fat, cwd)
  BY <1>2, <1>3, CwdSame
<1>5. prev \in Trail(fat', head) /\ fat'[prev] = cur
  <2>1. \A y \in Trail(fat, head) \ {prev} : fat'[y] = fat[y]
    BY <1>3, TrailHas
  <2>2. prev \in Trail(fat', head)
    BY <1>2, <2>1, TrailKept
  <2> QED BY <1>1, <1>2, <2>2, TrailHas
<1>6. cur \in Trail(fat', head)
  <2>1. Closed(fat', Trail(fat', head)) /\ fat'[prev] \in Clusters
    BY <1>1, <1>5, TrailNext
  <2> QED BY <1>5, <2>1 DEF Closed
<1>7. WalkFound'
  BY <1>1, <1>4 DEF VolumeParts, WalkFound
<1> QED BY <1>1, <1>6, <1>7 DEF Walks, WalkFind, WalkFile, WalkSlot, NewDir

(* The file has all its clusters: the locals are where they should be.     *)
LEMMA SealFileWalks == TypeInv /\ VolumeParts /\ SealFile /\ ~ torn' => Walks'
<1> SUFFICES ASSUME TypeInv, VolumeParts, SealFile, ~ torn' PROVE Walks'
  OBVIOUS
<1>1. UNCHANGED fat
  BY SealSame
<1>2. /\ pc' = "data" /\ cur' = head /\ UNCHANGED <<slot, found, cwd, req, head>>
      /\ req.op = "write"
  BY DEF SealFile, memory, TypeInv, Stage
<1>3. WalkFound'
  BY <1>1, <1>2 DEF VolumeParts, WalkFound
<1> QED BY <1>1, <1>2, <1>3, TrailHas DEF Walks, WalkFind, WalkFile, WalkSlot, NewDir

(* A cluster of the file is written: the locals are where they should be.  *)
LEMMA WriteDataWalks == TypeInv /\ VolumeParts /\ WriteData /\ ~ torn' => Walks'
<1> SUFFICES ASSUME TypeInv, VolumeParts, WriteData, ~ torn' PROVE Walks'
  OBVIOUS
<1> DEFINE new == [i \in Indices |-> IF i <= left THEN Chunk(req.val, req.size - left + i) ELSE End]
<1>1. /\ pc = "data" /\ pc' = "data" /\ left > 0 /\ UNCHANGED <<fat, found, cwd, req, head>>
      /\ WriteCluster(cur, new) /\ cur' = fat[cur] /\ req.op = "write"
  BY DataInside DEF WriteData, memory, TypeInv, Stage
<1> HIDE DEF new
<1>2. cur \in Clusters
  BY DataInside DEF WriteData
<1>3. cur \in Trail(fat, head) /\ head \in Holding \cap Clusters
  <2>1. cur \in Trail(fat, head)
    BY <1>1, <1>2 DEF VolumeParts, WalkFile
  <2> QED BY <1>1, <2>1, TrailHas DEF Holding
<1>4. cur' \in Clusters => cur' \in Trail(fat, head)
  BY <1>1, <1>3, TrailNext DEF Closed
<1>5. found # NoSlot => slot'[found] = slot[found]
  <2> SUFFICES ASSUME found # NoSlot PROVE slot'[found] = slot[found]
    OBVIOUS
  <2>1. found[1] \in Trail(fat, cwd) /\ found \in SlotIds
    BY DEF VolumeParts, WalkFound, TypeInv, LocalsOK
  <2>2. cwd \in DirHeads(view, {found}) /\ Heads
    BY CwdDir DEF VolumeParts
  <2>3. found[1] # cur
    BY <1>3, <2>1, <2>2, DirsApart
  <2> QED BY <1>1, <2>1, <2>3 DEF WriteCluster
<1>6. WalkFound'
  BY <1>1, <1>5 DEF VolumeParts, WalkFound
<1> QED BY <1>1, <1>4, <1>6 DEF Walks, WalkFind, WalkFile, WalkSlot, NewDir

(* The file is written: the locals are where they should be.               *)
LEMMA DataDoneWalks == TypeInv /\ VolumeParts /\ DataDone => Walks'
<1> SUFFICES ASSUME TypeInv, VolumeParts, DataDone PROVE Walks'
  OBVIOUS
<1>1. /\ pc = "data" /\ UNCHANGED <<fat, slot, found, cwd, req>> /\ req.op = "write"
      /\ \/ found # NoSlot /\ pc' = "entry" /\ target' = found
         \/ found = NoSlot /\ pc' = "slot" /\ cur' = cwd /\ last' = cwd
  BY DEF DataDone, disk, memory, TypeInv, Stage
<1>2. WalkFound'
  BY <1>1 DEF VolumeParts, WalkFound
<1>3. WalkSlot'
  BY <1>1 DEF VolumeParts, WalkFound, WalkSlot
<1> QED BY <1>1, <1>2, <1>3 DEF Walks, WalkFind, WalkFile, NewDir

(* The dots of a new directory are written: the locals are where they      *)
(* should be.                                                              *)
LEMMA WriteDotsWalks == TypeInv /\ VolumeParts /\ WriteDots /\ ~ torn' => Walks'
<1> SUFFICES ASSUME TypeInv, VolumeParts, WriteDots, ~ torn' PROVE Walks'
  OBVIOUS
<1> DEFINE up == IF cwd = RootCluster THEN 0 ELSE cwd
           new == [i \in Indices |->
             CASE i = 1 -> Entry("dir", Dot, head, 0)
               [] i = 2 -> Entry("dir", DotDot, up, 0)
               [] OTHER -> End]
<1>1. /\ pc = "dots" /\ pc' = "slot" /\ UNCHANGED <<fat, found, cwd, req, head>> /\ found = NoSlot
      /\ cur' = cwd /\ last' = cwd
      /\ WriteCluster(head, new) /\ head \in Clusters /\ faults' = faults /\ faults \in 0 .. MaxFaults
      /\ req.op = "mkdir"
  BY DEF WriteDots, memory, TypeInv, Stage, LocalsOK, PastOK
<1>2. fat[head] = Eoc
  BY <1>1 DEF VolumeParts, NewDir
<1>3. up = Up(cwd)
  BY DEF Up
<1> HIDE DEF up
<1>4. /\ new[1] = Entry("dir", Dot, head, 0) /\ new[2] = Entry("dir", DotDot, up, 0)
      /\ \A m \in Indices : m > 2 => new[m] = End
  BY Apart
<1> HIDE DEF new
<1>5. \A m \in Indices : slot'[<<head, m>>] = new[m]
  <2>1. PICK k \in 0 .. SlotsPerCluster :
          /\ slot' = [s \in SlotIds |-> IF s[1] = head /\ s[2] <= k THEN new[s[2]] ELSE slot[s]]
          /\ k # SlotsPerCluster => faults' = faults + 1
    BY <1>1 DEF WriteCluster
  <2>2. k = SlotsPerCluster
    BY <1>1, <2>1, InputAssumption
  <2>3. \A m \in Indices : <<head, m>> \in SlotIds /\ <<head, m>>[1] = head /\ <<head, m>>[2] = m /\ m <= SlotsPerCluster
    BY <1>1, VolumeAssumption DEF SlotIds, Indices
  <2> QED BY <2>1, <2>2, <2>3
<1>6. NewDir'
  BY <1>1, <1>2, <1>3, <1>4, <1>5, Apart DEF NewDir
<1>7. WalkSlot' /\ WalkFound'
  BY <1>1 DEF WalkSlot, WalkFound
<1> QED BY <1>1, <1>6, <1>7 DEF Walks, WalkFind, WalkFile

(* The search for a vacant record moves on: the locals are where they      *)
(* should be.                                                              *)
LEMMA SlotWalks == TypeInv /\ VolumeParts /\ (SlotHit \/ SlotNext \/ SlotMiss) => Walks'
<1> SUFFICES ASSUME TypeInv, VolumeParts, SlotHit \/ SlotNext \/ SlotMiss PROVE Walks'
  OBVIOUS
<1>1. /\ pc = "slot" /\ pc' \in {"slot", "entry", "extend"} /\ UNCHANGED <<fat, slot, found, cwd, req, head>>
      /\ found = NoSlot /\ cwd \in Clusters
  BY DEF SlotHit, SlotNext, SlotMiss, disk, memory, TypeInv, Stage, KeptOK
<1>2. (cur = cwd /\ last = cwd) \/ (last \in Trail(fat, cwd) /\ Full(last) /\ cur = fat[last])
  BY <1>1 DEF VolumeParts, WalkSlot
<1>3. cur \in Clusters => cur \in Trail(fat, cwd)
  BY <1>1, <1>2, TrailHas, TrailNext DEF Closed
<1>4. NewDir'
  BY <1>1 DEF VolumeParts, NewDir
<1>5. CASE SlotHit
  <2>1. PICK m \in Vacancies(cur) : target' = <<cur, m>>
    BY <1>5 DEF SlotHit
  <2>2. cur \in Clusters /\ pc' = "entry"
    BY <1>5, Apart DEF SlotHit, TypeInv, LocalsOK
  <2>3. IsVacant(slot[<<cur, m>>]) /\ \A j \in 1 .. m - 1 : ~ IsVacant(slot[<<cur, j>>])
    BY DEF Vacancies
  <2>4. target'[1] = cur /\ target'[2] = m
    BY <2>1
  <2>5. WalkSlot'
    BY <1>1, <1>3, <2>1, <2>2, <2>3, <2>4 DEF WalkSlot
  <2> QED BY <1>1, <1>4, <2>2, <2>5 DEF Walks, WalkFind, WalkFound, WalkFile
<1>6. CASE SlotNext
  <2>1. cur \in Clusters /\ pc' = "slot" /\ last' = cur /\ cur' = fat[cur] /\ Full(cur)
    BY <1>6, Apart, NoVacancy DEF SlotNext, TypeInv, LocalsOK
  <2>2. WalkSlot'
    BY <1>1, <1>3, <2>1 DEF WalkSlot, Full
  <2> QED BY <1>1, <1>4, <2>1, <2>2 DEF Walks, WalkFind, WalkFound, WalkFile
<1>7. CASE SlotMiss
  <2>1. cur \notin Clusters /\ pc' = "extend" /\ last' = last
    BY <1>7, Apart DEF SlotMiss, TypeInv, LocalsOK
  <2>2. last \in Trail(fat, cwd) /\ Full(last) /\ fat[last] \notin Clusters
    BY <1>1, <1>2, <2>1
  <2>3. WalkSlot'
    BY <1>1, <2>1, <2>2 DEF WalkSlot, Full
  <2> QED BY <1>1, <1>4, <2>1, <2>3 DEF Walks, WalkFind, WalkFound, WalkFile
<1> QED BY <1>5, <1>6, <1>7

(* A cluster is taken for the directory: the locals are where they should  *)
(* be.                                                                     *)
LEMMA ExtendWalks == TypeInv /\ VolumeParts /\ Extend /\ ~ torn' => Walks'
<1> SUFFICES ASSUME TypeInv, VolumeParts, Extend, ~ torn' PROVE Walks'
  OBVIOUS
<1>1. PICK c \in NearestFree : SetFat(c, Eoc) /\ cur' = c
  BY DEF Extend
<1>2. /\ pc = "extend" /\ pc' = "elink" /\ c \in Clusters /\ fat[c] = Free /\ fat' = [fat EXCEPT ![c] = Eoc]
      /\ fat \in [Clusters -> Links] /\ UNCHANGED <<slot, found, head, cwd, req, last>> /\ found = NoSlot
      /\ (req.op = "mkdir" => head \in Clusters)
  BY <1>1 DEF Extend, NearestFree, FreeClusters, SetFat, TypeInv, DiskOK, Stage, LocalsOK
<1>3. \A x \in Clusters \ {c} : fat'[x] = fat[x]
  BY <1>2
<1>4. Trail(fat', cwd) = Trail(fat, cwd) /\ \A x \in Trail(fat, cwd) : fat'[x] = fat[x]
  BY <1>2, <1>3, CwdSame
<1>5. last \in Trail(fat, cwd) /\ Full(last) /\ fat[last] \notin Clusters
  BY <1>2 DEF VolumeParts, WalkSlot
<1>6. fat'[c] \notin Clusters /\ Eoc # Free
  BY <1>2, Apart DEF Eoc, Free
<1>7. WalkSlot'
  BY <1>1, <1>2, <1>4, <1>5, <1>6 DEF WalkSlot, Full
<1>8. NewDir'
  <2>1. req.op = "mkdir" => fat[head] = Eoc
    BY <1>2 DEF VolumeParts, NewDir
  <2>2. req.op = "mkdir" => fat'[head] = Eoc
    BY <1>2, <1>3, <1>6, <2>1
  <2> QED BY <1>2, <2>2 DEF VolumeParts, NewDir
<1> QED BY <1>2, <1>7, <1>8 DEF Walks, WalkFind, WalkFound, WalkFile

(* It is linked behind the directory: the locals are where they should be. *)
LEMMA LinkDirWalks == TypeInv /\ VolumeParts /\ LinkDir /\ ~ torn' => Walks'
<1> SUFFICES ASSUME TypeInv, VolumeParts, LinkDir, ~ torn' PROVE Walks'
  OBVIOUS
<1>1. /\ pc = "elink" /\ pc' = "clear" /\ fat' = [fat EXCEPT ![last] = cur, ![cur] = Eoc]
      /\ UNCHANGED <<slot, found, cwd, cur, last, head, req>> /\ fat \in [Clusters -> Links]
      /\ cur \in Clusters /\ last \in Clusters /\ found = NoSlot
      /\ (req.op = "mkdir" => head \in Clusters)
  BY LinkDirTable DEF LinkDir, TypeInv, DiskOK, Stage, locals, memory, LocalsOK
<1>2. last # cur
  BY LinkDirDirs
<1>3. last \in Trail(fat, cwd) /\ fat[last] \notin Clusters /\ fat[cur] \notin Clusters
  BY <1>1 DEF VolumeParts, WalkSlot
<1>4. /\ fat'[last] = cur /\ fat'[cur] = Eoc /\ Eoc \notin Clusters
      /\ \A x \in Clusters \ {last, cur} : fat'[x] = fat[x]
  BY <1>1, <1>2, Apart
<1>5. cwd \in DirHeads(view, {found}) /\ cwd \in Clusters /\ Heads
  BY CwdDir DEF VolumeParts, TypeInv, KeptOK
<1>6. Trail(fat', cwd) = Trail(fat, cwd) \cup {cur}
  <2>1. \A y \in Trail(fat, cwd) \ {last, cur} : fat'[y] = fat[y]
    BY <1>4, TrailHas
  <2>2. fat'[last] = cur /\ fat'[cur] \notin Clusters /\ cur \in Clusters
    BY <1>1, <1>4
  <2> QED BY <1>2, <1>3, <1>5, <2>1, <2>2, TrailLink
<1>7. WalkSlot'
  BY <1>1, <1>4, <1>6 DEF WalkSlot
<1>8. req.op = "mkdir" => head # last /\ head # cur
  <2> SUFFICES ASSUME req.op = "mkdir" PROVE head # last /\ head # cur
    OBVIOUS
  <2>1. head \in Holding \cap Clusters /\ head \in Trail(fat, head)
    BY <1>1, TrailHas DEF Holding
  <2>2. head # last
    BY <1>3, <1>5, <2>1, DirsApart
  <2>3. head # cur
    BY <1>1, <1>5 DEF Heads
  <2> QED BY <2>2, <2>3
<1>9. NewDir'
  BY <1>1, <1>4, <1>8 DEF VolumeParts, NewDir
<1> QED BY <1>1, <1>7, <1>9 DEF Walks, WalkFind, WalkFound, WalkFile

(* It is cleared: the locals are where they should be.                     *)
LEMMA ClearDirWalks == TypeInv /\ VolumeParts /\ ClearDir /\ ~ torn' => Walks'
<1> SUFFICES ASSUME TypeInv, VolumeParts, ClearDir, ~ torn' PROVE Walks'
  OBVIOUS
<1>1. /\ pc = "clear" /\ pc' = "entry" /\ UNCHANGED <<fat, found, cwd, head, req>> /\ found = NoSlot
      /\ WriteCluster(cur, [i \in Indices |-> End]) /\ faults' = faults /\ faults \in 0 .. MaxFaults
      /\ target' = <<cur, 1>> /\ cur \in Clusters /\ last \in Clusters
      /\ (req.op = "mkdir" => head \in Clusters)
  BY DEF ClearDir, memory, TypeInv, Stage, PastOK, LocalsOK
<1>2. slot' = [s \in SlotIds |-> IF s[1] = cur THEN End ELSE slot[s]]
  <2>1. PICK k \in 0 .. SlotsPerCluster :
          /\ slot' = [s \in SlotIds |-> IF s[1] = cur /\ s[2] <= k THEN [i \in Indices |-> End][s[2]] ELSE slot[s]]
          /\ k # SlotsPerCluster => faults' = faults + 1
    BY <1>1 DEF WriteCluster
  <2>2. k = SlotsPerCluster
    BY <1>1, <2>1, InputAssumption
  <2>3. \A s \in SlotIds : s[2] \in Indices /\ s[2] <= SlotsPerCluster
    BY VolumeAssumption DEF SlotIds, Indices
  <2> QED BY <2>1, <2>2, <2>3
<1>3. cur \in Trail(fat, cwd) /\ fat[last] = cur
  BY <1>1 DEF VolumeParts, WalkSlot
<1>4. target' \in SlotIds /\ target'[1] = cur /\ target'[2] = 1
  BY <1>1, Apart DEF SlotIds
<1>5. slot'[target'] = End
  BY <1>2, <1>4
<1>6. WalkSlot'
  BY <1>1, <1>3, <1>4, <1>5 DEF WalkSlot, IsVacant, End
<1>7. req.op = "mkdir" => head # cur
  <2> SUFFICES ASSUME req.op = "mkdir" PROVE head # cur
    OBVIOUS
  <2>1. head \in Holding \cap Clusters
    BY <1>1 DEF Holding
  <2>2. NoPred(fat, head)
    BY <2>1 DEF VolumeParts, Heads, HeadsOK
  <2> QED BY <1>1, <1>3, <2>2 DEF NoPred
<1>8. req.op = "mkdir" => \A m \in Indices : slot'[<<head, m>>] = slot[<<head, m>>]
  BY <1>1, <1>2, <1>7 DEF SlotIds
<1>9. NewDir'
  BY <1>1, <1>8, Apart DEF VolumeParts, NewDir
<1> QED BY <1>1, <1>6, <1>9 DEF Walks, WalkFind, WalkFound, WalkFile

-----------------------------------------------------------------------------
(* Together.                                                               *)
LEMMA VolumeIs ==
  /\ VolumeParts <=> (Heads /\ DirInv /\ CwdReach /\ Walks)
  /\ VolumeParts' <=> (Heads' /\ DirInv' /\ CwdReach' /\ Walks')
BY DEF VolumeParts, Walks

(* A new volume is sound.                                                  *)
LEMMA VolumeInit == TypeInv /\ Init => VolumeParts
<1> SUFFICES ASSUME TypeInv, Init PROVE VolumeParts
  OBVIOUS
<1>1. /\ pc = "idle" /\ found = NoSlot /\ req = NoCall /\ cwd = RootCluster
      /\ fat = [c \in Clusters |-> IF c = RootCluster THEN Eoc ELSE Free]
  BY DEF Init
<1>2. \A s \in SlotIds : view[s] = slot[s] /\ slot[s] \in {Deleted, End}
  <2>1. \A s \in SlotIds : view[s] = slot[s]
    BY <1>1 DEF view, View
  <2> QED BY <2>1 DEF Init
<1>3. \A s \in SlotIds : IsVacant(view[s]) /\ ~ IsEntry(view[s])
  BY <1>2 DEF Deleted, End, IsVacant, IsEntry
<1>4. fat[RootCluster] = Eoc /\ Trail(fat, RootCluster) = {RootCluster} /\ Eoc \notin Clusters
  BY <1>1, Apart, TrailSplit, TrailHas
<1>5. DirHeads(view, Gone) = {RootCluster}
  BY <1>3 DEF DirHeads, IsDir, Named
<1>6. \A s \in Cells(fat, RootCluster) : IsVacant(view[s]) /\ ~ IsEntry(view[s])
  BY <1>3, CellsIn
<1>7. \A m \in Indices : IsVacant(view[<<RootCluster, m>>])
  BY <1>3, Apart DEF SlotIds
<1>8. DirOK(fat, view, Gone, RootCluster)
  BY <1>4, <1>6, <1>7 DEF DirOK, Tidy, Dotted, LedBack, IsDir, Named
<1>9. DirInv
  BY <1>5, <1>8 DEF DirInv
<1>10. CwdReach
  BY <1>1, ReachHas DEF CwdReach
<1>11. Walks
  BY <1>1 DEF NoCall, Walks, WalkFind, WalkFound, WalkFile, WalkSlot, NewDir
<1> QED BY <1>9, <1>10, <1>11, HeadsInit, VolumeIs

(* It stays so while nothing moves.                                        *)
LEMMA VolumeStutter == VolumeParts /\ UNCHANGED vars => VolumeParts'
<1> SUFFICES ASSUME VolumeParts, UNCHANGED vars PROVE VolumeParts'
  OBVIOUS
<1>1. /\ UNCHANGED <<fat, slot, cwd, pc, req, found, target, cur, last, head, prev>>
  BY DEF vars, disk, memory, locals
<1>2. view' = view /\ Gone' = Gone /\ NamesNow' = NamesNow /\ Holding' = Holding
  BY <1>1 DEF view, View, Gone, Invalidated, NamesNow, Refs, Holding
<1>3. Heads'
  BY <1>1, <1>2 DEF VolumeParts, Heads
<1>4. DirInv' /\ CwdReach'
  BY <1>1, <1>2 DEF VolumeParts, DirInv, CwdReach
<1>5. WalkFind' /\ WalkFound'
  BY <1>1 DEF VolumeParts, WalkFind, WalkFound, Sought
<1>6. WalkFile' /\ WalkSlot' /\ NewDir'
  BY <1>1 DEF VolumeParts, WalkFile, WalkSlot, Full, NewDir
<1> QED BY <1>3, <1>4, <1>5, <1>6 DEF VolumeParts

(* One step, whichever it is, that does not tear the volume keeps it       *)
(* sound.                                                                  *)
LEMMA VolumeStep == TypeInv /\ VolumeParts /\ [Next]_vars /\ ~ torn' => VolumeParts'
<1> SUFFICES ASSUME TypeInv, VolumeParts, [Next]_vars, ~ torn' PROVE VolumeParts'
  OBVIOUS
<1>0. Heads
  BY DEF VolumeParts
<1>1. CASE Call
  BY <1>0, <1>1, CallHeads, CallDirs, CallWalks, VolumeIs
<1>2. CASE FindHit
  BY <1>0, <1>2, FindHitHeads, FindHitDirs, FindHitWalks, VolumeIs
<1>3. CASE FindNext
  BY <1>0, <1>3, MoveHeads, MoveDirs, FindNextWalks, VolumeIs
<1>4. CASE FindMiss
  BY <1>0, <1>4, FindMissHeads, FindMissDirs, FindMissWalks, VolumeIs
<1>5. CASE FreeStep
  BY <1>0, <1>5, FreeStepHeads, FreeStepDirs, FreeStepWalks, VolumeIs
<1>6. CASE FreeDone
  BY <1>0, <1>6, FreeDoneHeads, FreeDoneDirs, FreeDoneWalks, VolumeIs
<1>7. CASE AllocFile
  BY <1>0, <1>7, AllocFileHeads, AllocDirs, AllocFileWalks, VolumeIs
<1>8. CASE LinkFile
  BY <1>0, <1>8, LinkFileHeads, LinkFileDirs, LinkFileWalks, VolumeIs
<1>9. CASE AllocFull
  BY <1>0, <1>9, AllocFullHeads, AllocFullDirs, AllocFullWalks, VolumeIs
<1>10. CASE SealFile
  BY <1>0, <1>10, MoveHeads, MoveDirs, SealFileWalks, VolumeIs
<1>11. CASE WriteData
  BY <1>0, <1>11, WriteHeads, WriteDataDirs, WriteDataWalks, VolumeIs
<1>12. CASE DataDone
  BY <1>0, <1>12, MoveHeads, MoveDirs, DataDoneWalks, VolumeIs
<1>13. CASE WriteDots
  BY <1>0, <1>13, WriteHeads, WriteDotsDirs, WriteDotsWalks, VolumeIs
<1>14. CASE SlotHit \/ SlotNext \/ SlotMiss
  BY <1>0, <1>14, MoveHeads, MoveDirs, SlotWalks, VolumeIs
<1>15. CASE Extend
  BY <1>0, <1>15, ExtendHeads, AllocDirs, ExtendWalks, VolumeIs
<1>16. CASE LinkDir
  BY <1>0, <1>16, LinkDirHeads, LinkDirDirs, LinkDirWalks, VolumeIs
<1>17. CASE ClearDir
  BY <1>0, <1>17, WriteHeads, ClearDirDirs, ClearDirWalks, VolumeIs
<1>18. CASE WriteEntry
  <2>1. Walks'
    BY <1>18, WalksReturn DEF WriteEntry
  <2> QED BY <1>0, <1>18, <2>1, WriteEntryHeads, WriteEntryDirs, VolumeIs
<1>19. CASE Crash
  <2>1. Walks'
    BY <1>19, WalksReturn DEF Crash
  <2> QED BY <1>0, <1>19, <2>1, CrashHeads, CrashDirs, VolumeIs
<1>20. CASE UNCHANGED vars
  BY <1>20, VolumeStutter
<1>21. ~ Reload
  BY DEF Reload, TypeInv, OneTable, history
<1> QED BY <1>1, <1>2, <1>3, <1>4, <1>5, <1>6, <1>7, <1>8, <1>9, <1>10, <1>11, <1>12, <1>13, <1>14,
           <1>15, <1>16, <1>17, <1>18, <1>19, <1>20, <1>21 DEF Next, Step

-----------------------------------------------------------------------------
(* What the invariant says of the files.                                   *)
LEMMA ListedIn ==
  /\ \A d : Listed(d) \subseteq Cells(fat, d)
  /\ \A d : Listed(d) \subseteq SlotIds
<1>1. \A d : Listed(d) \subseteq Cells(fat, d)
  BY ChainIs DEF Listed, Cells
<1> QED BY <1>1, CellsIn

(* Every entry some lookup can find is a name.                             *)
LEMMA EntrySlotsIn ==
  ASSUME TypeInv
  PROVE  \A s \in EntrySlots : /\ s \in SlotIds
                               /\ View(s).first # 0 => <<s, View(s).first>> \in NamesNow
<1> SUFFICES ASSUME NEW s \in EntrySlots
             PROVE  s \in SlotIds /\ (View(s).first # 0 => <<s, View(s).first>> \in NamesNow)
  OBVIOUS
<1>1. s \in SlotIds \ {found} /\ Named(View(s))
  <2>1. PICK d \in DirSet : s \in Entries(d) /\ s # found
    BY DEF EntrySlots
  <2> QED BY <2>1, ListedIn DEF Entries
<1>2. View(s) = slot[s]
  BY <1>1 DEF View, Named, IsEntry, End
<1> QED BY <1>1, <1>2 DEF NamesNow, Refs

(* What a record calls a directory has a cluster of the volume.            *)
LEMMA DirectoriesIn ==
  ASSUME TypeInv
  PROVE  Directories \subseteq Clusters /\ DirHeads(view, {found}) \subseteq Directories
<1>1. \A s \in SlotIds : Named(slot[s]) => slot[s].first \in Clusters \cup {0}
  BY EntryIn DEF TypeInv, DiskOK, Named
<1>2. Directories \subseteq Clusters
  BY <1>1, Apart DEF TypeInv, DirHasCluster, Directories
<1>3. \A s \in SlotIds : IsDir(view[s]) => view[s] = slot[s]
  BY ViewIn DEF IsDir, Named
<1> QED BY <1>2, <1>3 DEF DirHeads, Directories, IsDir

(* Every directory that can be walked to is the chain of a name, or the    *)
(* root.                                                                   *)
LEMMA DirSetIn ==
  ASSUME TypeInv, Heads
  PROVE  DirSet \subseteq DirHeads(view, {found})
<1> DEFINE S == DirHeads(view, {found})
           R == UNION {{d} \X Subdirs(d) : d \in Directories}
<1>1. S \in SUBSET Clusters /\ RootCluster \in S
  BY DirHead DEF DirHeads
<1>2. \A d : Subdirs(d) \subseteq S
  <2> SUFFICES ASSUME NEW d, NEW s \in Entries(d) \ {found}, View(s).kind = "dir"
               PROVE  View(s).first \in S
    BY DEF Subdirs
  <2>1. s \in SlotIds \ {found} /\ IsDir(View(s)) /\ view[s] = View(s)
    BY ListedIn DEF Entries, IsDir, view
  <2> QED BY <2>1 DEF DirHeads
<1>3. R \in SUBSET Pairs /\ \A r \in R : r[2] \in S
  BY <1>1, <1>2, DirectoriesIn DEF Pairs
<1> HIDE DEF S
<1>4. Reach(R) \subseteq S
  BY <1>1, <1>3, ReachLeast
<1>5. DirSet = Reach(R)
  BY <1>3, ReachIs DEF DirSet
<1> QED BY <1>4, <1>5 DEF S

(* Chains that a name or the call leads to.                                *)
LEMMA RootedIn ==
  ASSUME TypeInv, Heads
  PROVE  \A c \in Rooted \cap Clusters : fat[c] # Free /\ NoPred(fat, c)
<1> SUFFICES ASSUME NEW c \in Rooted \cap Clusters
             PROVE  fat[c] # Free /\ NoPred(fat, c)
  OBVIOUS
<1>1. c = RootCluster \/ \E x \in NamesNow : c = x[2]
  <2>1. CASE \E s \in EntrySlots : c = View(s).first
    <3>1. PICK s \in EntrySlots : c = View(s).first
      BY <2>1
    <3>2. <<s, c>> \in NamesNow
      BY <3>1, EntrySlotsIn, Apart
    <3> QED BY <3>2
  <2> QED BY <2>1 DEF Rooted
<1> QED BY <1>1 DEF Heads, HeadsOK

(* Different names share no cluster (fat32.c:292, 330, 440).               *)
LEMMA CrossLinkFree ==
  ASSUME TypeInv, Heads
  PROVE  NoCrossLink
<1>1. ASSUME NEW s \in EntrySlots, View(s).first # 0
      PROVE  /\ View(s).first # RootCluster
             /\ View(s).first = head => fat[head] = Free
             /\ \A t \in EntrySlots : View(s).first = View(t).first => s = t
  <2>1. <<s, View(s).first>> \in NamesNow
    BY <1>1, EntrySlotsIn
  <2>2. View(s).first # RootCluster /\ View(s).first \notin Holding
    <3>1. \A x \in NamesNow : x[2] # RootCluster /\ x[2] \notin Holding
      BY DEF Heads, HeadsOK
    <3> HIDE DEF NamesNow
    <3> QED BY <2>1, <3>1
  <2>3. View(s).first = head => fat[head] = Free
    BY <2>2 DEF Heads, Holding
  <2>4. ASSUME NEW t \in EntrySlots, View(s).first = View(t).first PROVE s = t
    <3>1. <<t, View(t).first>> \in NamesNow
      BY <1>1, <2>4, EntrySlotsIn
    <3>2. \A a, b \in NamesNow : a[2] = b[2] => a = b
      BY DEF Heads, HeadsOK
    <3> HIDE DEF NamesNow
    <3>3. <<s, View(s).first>> = <<t, View(t).first>>
      BY <2>1, <2>4, <3>1, <3>2
    <3> QED BY <3>3
  <2> QED BY <2>2, <2>3, <2>4
<1>2. ASSUME NEW c \in (Rooted \cup {head}) \cap Clusters
      PROVE  \/ fat[c] # Free /\ NoPred(fat, c)
             \/ c = head /\ fat[c] = Free /\ Trail(fat, c) = {c}
  <2>1. CASE c \in Rooted
    BY <2>1, RootedIn
  <2>2. CASE c = head /\ c \in Holding
    BY <2>2 DEF Heads, HeadsOK
  <2>3. CASE c = head /\ c \notin Holding
    <3>1. fat[c] = Free
      BY <2>3 DEF Heads, Holding
    <3>2. fat[c] \notin Clusters
      BY <3>1, Apart
    <3>3. Trail(fat, fat[c]) = {}
      BY <3>2, TrailHas
    <3>4. Trail(fat, c) = {c}
      BY <3>3, TrailSplit
    <3> QED BY <2>3, <3>1, <3>4
  <2> QED BY <2>1, <2>2, <2>3
<1>3. ASSUME NEW c \in (Rooted \cup {head}) \cap Clusters, NEW d \in (Rooted \cup {head}) \cap Clusters, c # d
      PROVE  Trail(fat, c) \cap Trail(fat, d) = {}
  <2>1. Single(fat) /\ Safe(fat)
    BY DEF Heads, HeadsOK
  <2>2. CASE fat[c] # Free /\ NoPred(fat, c) /\ fat[d] # Free /\ NoPred(fat, d)
    BY <1>3, <2>1, <2>2, TrailApart
  <2>3. CASE fat[d] # Free /\ c = head /\ fat[c] = Free /\ Trail(fat, c) = {c}
    BY <2>1, <2>3, TrailTaken
  <2>4. CASE fat[c] # Free /\ d = head /\ fat[d] = Free /\ Trail(fat, d) = {d}
    BY <2>1, <2>4, TrailTaken
  <2> QED BY <1>2, <1>3, <2>2, <2>3, <2>4
<1>4. RootCluster \in Clusters /\ 0 \notin Clusters /\ fat[RootCluster] # Free
  BY Apart, RootedIn DEF Rooted
<1>5. ASSUME NEW x \in Holders, NEW y \in Holders, x # y, x[2] \in Clusters, x[2] = y[2]
      PROVE  FALSE
  <2>1. x[2] \in Clusters /\ x[2] # 0
    BY <1>4, <1>5
  <2>2. CASE x[1] = NoSlot \/ y[1] = NoSlot
    BY <1>1, <1>4, <1>5, <2>1, <2>2, EntrySlotsIn, NoSlotApart, RootedIn DEF Holders, Rooted
  <2>3. PICK s \in EntrySlots, t \in EntrySlots : x = <<s, View(s).first>> /\ y = <<t, View(t).first>>
    BY <2>2 DEF Holders
  <2> QED BY <1>1, <1>5, <2>1, <2>3
<1>6. ASSUME NEW x \in {<<h, Chain(h[2])>> : h \in Holders}, NEW y \in {<<h, Chain(h[2])>> : h \in Holders}, x # y
      PROVE  x[2] \cap y[2] = {}
  <2>1. PICK g \in Holders : x = <<g, Trail(fat, g[2])>>
    BY ChainIs
  <2>2. PICK h \in Holders : y = <<h, Trail(fat, h[2])>>
    BY ChainIs
  <2>3. \A z \in Holders : z[2] \in Rooted \cup {head}
    BY DEF Holders, Rooted
  <2>4. CASE g[2] \notin Clusters \/ h[2] \notin Clusters
    BY <2>1, <2>2, <2>4, TrailHas
  <2>5. CASE g[2] \in Clusters /\ h[2] \in Clusters
    BY <1>3, <1>5, <1>6, <2>1, <2>2, <2>3, <2>5
  <2> QED BY <2>4, <2>5
<1> QED BY <1>6 DEF NoCrossLink

(* No name or local of the call leads to a free cluster.                   *)
LEMMA DanglingFree ==
  ASSUME TypeInv, Heads
  PROVE  NoDangling
<1> SUFFICES ASSUME NEW x \in Chains(Rooted)
             PROVE  {fat[b] : b \in x[2]} \ Clusters = {Eoc}
  BY DEF NoDangling
<1>1. PICK c \in Rooted \cap Clusters : x = <<c, Trail(fat, c)>>
  BY ChainIs DEF Chains
<1>2. fat[c] # Free /\ NoPred(fat, c) /\ Single(fat) /\ Safe(fat) /\ fat \in [Clusters -> Links]
  BY RootedIn DEF Heads, HeadsOK, TypeInv, DiskOK
<1>3. {fat[b] : b \in Trail(fat, c)} \ Clusters = {Eoc}
  BY <1>2, TrailEnds
<1> QED BY <1>1, <1>3

(* In a tidy directory every entry is listed.                              *)
LEMMA TidyListed ==
  ASSUME NEW d, Tidy(fat, view, d)
  PROVE  \A s \in Cells(fat, d) : IsEntry(View(s)) => s \in Listed(d)
<1>1. \A s \in SlotIds : view[s] = View(s)
  BY DEF view
<1>2. ASSUME NEW c \in Trail(fat, d), Ends(c)
      PROVE  fat[c] \notin Clusters
  <2>1. PICK m \in Indices : View(<<c, m>>).kind = "end"
    BY <1>2 DEF Ends
  <2>2. IsVacant(view[<<c, m>>])
    BY <1>1, <2>1, TrailHas DEF IsVacant, SlotIds
  <2> QED BY <2>2 DEF Tidy
<1>3. Behind({c \in Chain(d) : Ends(c)}) = {}
  BY <1>2, ChainIs DEF Behind
<1>4. ASSUME NEW s \in Cells(fat, d), IsEntry(View(s)), NEW m \in 1 .. s[2]
      PROVE  View(<<s[1], m>>).kind # "end"
  <2>1. s[1] \in Trail(fat, d) /\ s[2] \in Indices /\ s = <<s[1], s[2]>> /\ s[1] \in Clusters
    BY TrailHas DEF Cells
  <2>2. m \in Indices /\ <<s[1], m>> \in SlotIds /\ s \in SlotIds
    BY <2>1, VolumeAssumption DEF Indices, SlotIds
  <2>3. SUFFICES ASSUME IsVacant(view[<<s[1], m>>]) PROVE FALSE
    BY <1>1, <2>2 DEF IsVacant
  <2>4. m = s[2] \/ s[2] > m
    BY <2>1 DEF Indices
  <2>5. IsVacant(view[<<s[1], s[2]>>])
    BY <2>1, <2>2, <2>3, <2>4 DEF Tidy
  <2>6. IsVacant(View(s))
    BY <1>1, <2>1, <2>2, <2>5
  <2> QED BY <1>4, <2>6 DEF IsVacant, IsEntry
<1> SUFFICES ASSUME NEW s \in Cells(fat, d), IsEntry(View(s)) PROVE s \in Listed(d)
  OBVIOUS
<1>5. s \in (Chain(d) \ {}) \X Indices
  BY ChainIs DEF Cells
<1> QED BY <1>3, <1>4, <1>5 DEF Listed

(* Nothing a directory names lies behind its end mark.                     *)
LEMMA AllVisible ==
  ASSUME TypeInv, Heads, DirInv
  PROVE  EntryVisible
<1> SUFFICES ASSUME NEW d \in DirSet, NEW s \in InDir(d) \ Listed(d), IsEntry(View(s)) PROVE FALSE
  BY DEF EntryVisible
<1>1. Tidy(fat, view, d)
  BY DirSetIn, DirsMost DEF DirInv, DirOK
<1>2. s \in Cells(fat, d)
  BY ChainIs DEF InDir, Cells
<1> QED BY <1>1, <1>2, TidyListed

(* A lookup finds what is first of its name.                               *)
LEMMA FirstFound ==
  ASSUME NEW d, Tidy(fat, view, d), NEW s \in Cells(fat, d), IsEntry(view[s]), First(fat, view, d, s)
  PROVE  s \in Lookup(d, view[s].name)
<1> DEFINE n == view[s].name
           S == {t \in Listed(d) : Matches(t, n)}
<1>1. \A t \in SlotIds : view[t] = View(t)
  BY DEF view
<1>2. S \in SUBSET SlotIds /\ s \in S
  BY <1>1, CellsIn, ListedIn, TidyListed DEF Matches
<1>3. \A t \in S : t \in Cells(fat, d) /\ IsEntry(view[t]) /\ view[t].name = n
  BY <1>1, <1>2, ListedIn DEF Matches
<1>4. \A t \in S : t[1] = s[1] => s[2] <= t[2]
  BY <1>3 DEF First
<1>5. \A t \in S : s[1] \notin Chain(fat[t[1]])
  BY <1>3, ChainIs DEF First
<1> HIDE DEF S, n
<1>6. s[1] \notin Behind({t[1] : t \in S})
  BY <1>5 DEF Behind
<1>7. s \in FirstOf[S]
  BY <1>2, <1>4, <1>6 DEF FirstOf
<1> QED BY <1>7 DEF Lookup, S, n

(* The current directory can still be walked to.                           *)
LEMMA CwdIsLive ==
  ASSUME TypeInv, Heads, DirInv, CwdReach
  PROVE  CwdLive
<1> DEFINE R == UNION {{d} \X Enters(d) : d \in Directories}
<1>2. ASSUME NEW d, NEW q \in Enters(d) PROVE q \in Clusters
  <2>1. PICK s \in Entries(d) : View(s).kind = "dir" /\ q = View(s).first
    BY DEF Enters
  <2>2. s \in SlotIds /\ IsDir(view[s]) /\ q = view[s].first
    BY <2>1, ListedIn DEF Entries, IsDir, view
  <2> QED BY <2>2, ViewIn
<1>3. R \in SUBSET Pairs
  BY <1>2, DirectoriesIn DEF Pairs
<1>4. ASSUME NEW d \in DirHeads(view, {found}), NEW q \in Doors(fat, view, {found}, d)
      PROVE  q \in Enters(d)
  <2>1. PICK s \in Cells(fat, d) : IsDir(view[s]) /\ First(fat, view, d, s) /\ q = view[s].first
    BY DEF Doors
  <2>2. Tidy(fat, view, d)
    BY DirsMost DEF DirInv, DirOK
  <2>3. view[s] = View(s) /\ view[s].name \in ShortNames /\ IsEntry(view[s])
    BY <2>1, CellsIn DEF view, IsDir, Named
  <2>4. s \in Lookup(d, view[s].name)
    BY <2>1, <2>2, <2>3, FirstFound
  <2>5. s \in Entries(d) /\ View(s).kind = "dir"
    BY <2>1, <2>2, <2>3, TidyListed DEF IsDir, Entries
  <2> QED BY <2>1, <2>3, <2>4, <2>5 DEF Enters
<1>5. ASSUME NEW r \in Ways(fat, view, {found}), r[1] \in Reach(Ways(fat, view, {found}))
      PROVE  r \in R
  <2>1. PICK d \in Clusters : r \in {d} \X Doors(fat, view, {found}, d)
    BY DEF Ways
  <2>2. d \in DirHeads(view, {found})
    BY <1>5, <2>1, ReachDirs
  <2>3. r \in {d} \X Enters(d) /\ d \in Directories
    BY <1>4, <2>1, <2>2, DirectoriesIn
  <2> QED BY <2>3
<1>6. LiveDirs = Reach(R)
  BY <1>3, ReachIs DEF LiveDirs
<1> HIDE DEF R
<1>7. cwd \in Reach(R)
  BY <1>5, WaysIn, ReachKept DEF CwdReach
<1> QED BY <1>6, <1>7 DEF CwdLive

(* The invariant has VolumeSound as a consequence.                         *)
LEMMA SoundWhole == TypeInv /\ VolumeInv => VolumeSound
<1> SUFFICES ASSUME TypeInv, VolumeInv PROVE VolumeSound
  OBVIOUS
<1>1. CASE torn
  BY <1>1 DEF VolumeSound, NoCrossLink, NoDangling, EntryVisible, CwdLive
<1>2. CASE ~ torn
  BY <1>2, CrossLinkFree, DanglingFree, AllVisible, CwdIsLive DEF VolumeSound, VolumeInv, VolumeParts
<1> QED BY <1>1, <1>2

(* As long as no overwrite is cut short, no directory is left with a       *)
(* cluster that was not cleared and no write of the allocation table       *)
(* fails, whatever calls are made or give up, power is lost and data or    *)
(* entries are not written: no two names share a cluster, no chain leads   *)
(* to a free one, a lookup finds every entry and the current directory     *)
(* exists (fat32_write_file, fat32.c:379; fat32_make_directory,            *)
(* fat32.c:467). A failing write of the table is no small exception:       *)
(* fat32_set_fat_entry goes on as if the entry were there (fat32.c:172),   *)
(* so that a cluster can be given away twice.                              *)
THEOREM VolumeCorrect == Spec => []VolumeSound
<1>1. Init => TypeInv /\ VolumeInv
  BY TypeInit, VolumeInit DEF VolumeInv
<1>2. TypeInv /\ VolumeInv /\ [Next]_vars => (TypeInv /\ VolumeInv)'
  BY TypeStep, TornStays, VolumeStep DEF VolumeInv
<1>3. TypeInv /\ VolumeInv => VolumeSound
  BY SoundWhole
<1> QED BY <1>1, <1>2, <1>3, PTL DEF Spec

-----------------------------------------------------------------------------
(* What is kept: the directories below the root of table f and records v,  *)
(* not through the slots of G, the chains that their entries name, and     *)
(* what those and the chains of H hold.                                    *)
Sub(f, v, G, d) == {v[s].first : s \in {t \in Cells(f, d) \ G : IsDir(v[t])}}
Subs(f, v, G) == UNION {{d} \X Sub(f, v, G, d) : d \in Clusters}
Tree(f, v, G) == Reach(Subs(f, v, G))
Within(f, v, G) == {t \in SlotIds \ G : Named(v[t]) /\ \E d \in Tree(f, v, G) : t \in Cells(f, d)}
Kept(f, v, G) == {RootCluster} \cup {v[s].first : s \in Within(f, v, G)}
Use(f, v, G, H) == UNION {Trail(f, c) : c \in Kept(f, v, G) \cup H}

(* Subdirectories are clusters.                                            *)
LEMMA SubsIn ==
  TypeInv => \A G : Subs(fat, view, G) \in SUBSET Pairs
<1> SUFFICES ASSUME TypeInv, NEW G, NEW d \in Clusters, NEW q \in Sub(fat, view, G, d)
             PROVE  q \in Clusters
  BY DEF Subs, Pairs
<1> QED BY ViewIn, CellsIn DEF Sub

(* The directories are kept.                                               *)
LEMMA TreeIn ==
  ASSUME NEW f, NEW v, NEW G, Subs(f, v, G) \in SUBSET Pairs
  PROVE  Tree(f, v, G) \subseteq Kept(f, v, G) \cap Clusters
<1>1. Tree(f, v, G) \subseteq Clusters
  BY DEF Tree, Reach
<1>2. ASSUME NEW x \in Tree(f, v, G), x # RootCluster
      PROVE  x \in Kept(f, v, G)
  <2>1. PICK r \in Subs(f, v, G) : r[1] \in Tree(f, v, G) /\ r[2] = x
    BY <1>2, ReachLast DEF Tree
  <2>2. PICK d \in Clusters : r \in {d} \X Sub(f, v, G, d)
    BY <2>1 DEF Subs
  <2>3. d \in Tree(f, v, G) /\ x \in Sub(f, v, G, d)
    BY <2>1, <2>2
  <2>4. PICK s \in Cells(f, d) \ G : IsDir(v[s]) /\ x = v[s].first
    BY <2>3 DEF Sub
  <2>5. s \in Within(f, v, G)
    BY <2>3, <2>4, CellsIn DEF Within, IsDir
  <2> QED BY <2>4, <2>5 DEF Kept
<1> QED BY <1>1, <1>2 DEF Kept

(* What is walked to from the root is this tree, and what is owned is what *)
(* it keeps.                                                               *)
LEMMA OwnedIs ==
  TypeInv /\ Heads /\ DirInv =>
    Owned = Use(fat, view, {found}, Held)
<1> SUFFICES ASSUME TypeInv, Heads, DirInv PROVE Owned = Use(fat, view, {found}, Held)
  OBVIOUS
<1> DEFINE R == UNION {{d} \X Subdirs(d) : d \in Directories}
           V == {found}
<1>1. \A s \in SlotIds : view[s] = View(s)
  BY DEF view
<1>2. \A d : Entries(d) \subseteq {s \in Cells(fat, d) : Named(view[s])}
  BY <1>1, ListedIn DEF Entries
<1>3. \A d : Subdirs(d) \subseteq Sub(fat, view, V, d)
  <2> SUFFICES ASSUME NEW d, NEW s \in Entries(d) \ {found}, View(s).kind = "dir"
               PROVE  View(s).first \in Sub(fat, view, V, d)
    BY DEF Subdirs
  <2>1. s \in Cells(fat, d) /\ Named(view[s]) /\ view[s] = View(s) /\ s \notin V
    BY <1>1, <1>2, CellsIn
  <2> QED BY <2>1 DEF Sub, IsDir
<1>4. R \subseteq Subs(fat, view, V)
  BY <1>3, DirectoriesIn DEF Subs
<1>5. ASSUME NEW d \in DirSet
      PROVE  Entries(d) = {s \in Cells(fat, d) : Named(view[s])}
  <2>1. Tidy(fat, view, d)
    BY DirSetIn, DirsMost DEF DirInv, DirOK
  <2>2. \A s \in Cells(fat, d) : Named(view[s]) => s \in Entries(d)
    <3> SUFFICES ASSUME NEW s \in Cells(fat, d), Named(view[s]) PROVE s \in Entries(d)
      OBVIOUS
    <3>1. Named(View(s)) /\ IsEntry(View(s))
      BY <1>1, CellsIn DEF Named
    <3> QED BY <2>1, <3>1, TidyListed DEF Entries
  <2> QED BY <1>2, <2>2
<1>6. ASSUME NEW d \in DirSet
      PROVE  Sub(fat, view, V, d) \subseteq Subdirs(d)
  <2> SUFFICES ASSUME NEW s \in Cells(fat, d) \ V, IsDir(view[s])
               PROVE  view[s].first \in Subdirs(d)
    BY DEF Sub
  <2>1. s \in Entries(d) \ {found} /\ view[s] = View(s)
    BY <1>1, <1>5, CellsIn DEF IsDir
  <2> QED BY <2>1 DEF Subdirs, IsDir
<1>7. DirSet = Reach(R)
  BY <1>4, SubsIn, ReachIs DEF DirSet
<1>8. DirSet = Tree(fat, view, V)
  <2>1. DirSet \subseteq Clusters /\ RootCluster \in DirSet
    BY <1>7, ReachHas DEF Reach
  <2>2. ASSUME NEW r \in Subs(fat, view, V), r[1] \in DirSet PROVE r[2] \in DirSet
    <3>1. PICK d \in Clusters : r \in {d} \X Sub(fat, view, V, d)
      BY DEF Subs
    <3>2. d \in DirSet /\ d \in Directories
      BY <2>2, <3>1, DirSetIn, DirectoriesIn
    <3>3. r \in R
      BY <1>6, <3>1, <3>2
    <3>4. R \in SUBSET Pairs
      BY <1>4, SubsIn
    <3> HIDE DEF R
    <3> QED BY <1>7, <2>2, <3>3, <3>4, ReachNext
  <2>3. Tree(fat, view, V) \subseteq DirSet
    BY <2>1, <2>2, ReachLeast DEF Tree
  <2>4. RootCluster \in Tree(fat, view, V) /\ Tree(fat, view, V) \in SUBSET Clusters
    BY ReachHas DEF Tree, Reach
  <2>5. ASSUME NEW r \in R, r[1] \in Tree(fat, view, V) PROVE r[2] \in Tree(fat, view, V)
    <3>1. r \in Subs(fat, view, V) /\ Subs(fat, view, V) \in SUBSET Pairs
      BY <1>4, SubsIn
    <3> QED BY <2>5, <3>1, ReachNext DEF Tree
  <2> HIDE DEF R
  <2>6. Reach(R) \subseteq Tree(fat, view, V)
    BY <2>4, <2>5, ReachLeast
  <2> QED BY <1>7, <2>3, <2>6
<1>9. EntrySlots = Within(fat, view, V)
  <2>1. EntrySlots = (UNION {{s \in Cells(fat, d) : Named(view[s])} : d \in DirSet}) \ {found}
    BY <1>5 DEF EntrySlots
  <2>2. EntrySlots = {s \in SlotIds \ V : Named(view[s]) /\ \E d \in DirSet : s \in Cells(fat, d)}
    BY <2>1, CellsIn
  <2> QED BY <1>8, <2>2 DEF Within
<1>10. Rooted = Kept(fat, view, V)
  <2>1. \A s \in EntrySlots : View(s) = view[s]
    BY <1>1, <1>9 DEF Within
  <2> QED BY <1>9, <2>1 DEF Rooted, Kept
<1>11. Owned = UNION {Trail(fat, c) : c \in (Rooted \cup Held) \cap Clusters}
  BY ChainIs DEF Owned
<1>12. \A c : c \notin Clusters => Trail(fat, c) = {}
  BY TrailHas
<1> QED BY <1>10, <1>11, <1>12 DEF Use

(* Directories that stay keep what their entries name, but for L.          *)
LEMMA TreeStays ==
  ASSUME NEW f, NEW g, NEW v, NEW w, NEW G, NEW I, NEW L,
         Subs(f, v, G) \in SUBSET Pairs, Subs(g, w, I) \in SUBSET Pairs,
         \A d \in Tree(f, v, G) :
            /\ Trail(f, d) \subseteq Trail(g, d)
            /\ \A s \in Cells(f, d) \ G : Named(v[s]) =>
                 (s \notin I /\ w[s] = v[s]) \/ (v[s].kind # "dir" /\ v[s].first \in L)
  PROVE  /\ Tree(f, v, G) \subseteq Tree(g, w, I)
         /\ Kept(f, v, G) \subseteq Kept(g, w, I) \cup L
<1> DEFINE S == {d \in Tree(f, v, G) : d \in Tree(g, w, I)}
<1>1. S \in SUBSET Clusters /\ RootCluster \in S
  BY ReachHas DEF Tree, Reach
<1>2. \A d \in Tree(f, v, G) : Cells(f, d) \subseteq Cells(g, d)
  BY DEF Cells
<1>3. ASSUME NEW r \in Subs(f, v, G), r[1] \in S PROVE r[2] \in S
  <2>1. PICK d \in Clusters : r \in {d} \X Sub(f, v, G, d)
    BY DEF Subs
  <2>2. d \in Tree(f, v, G) /\ d \in Tree(g, w, I) /\ r[1] = d
    BY <1>3, <2>1
  <2>3. PICK s \in Cells(f, d) \ G : IsDir(v[s]) /\ r[2] = v[s].first
    BY <2>1 DEF Sub
  <2>4. s \notin I /\ w[s] = v[s] /\ s \in Cells(g, d)
    BY <1>2, <2>2, <2>3 DEF IsDir
  <2>5. r[2] \in Sub(g, w, I, d)
    BY <2>3, <2>4 DEF Sub
  <2>6. <<d, r[2]>> \in Subs(g, w, I)
    BY <2>5 DEF Subs
  <2>7. r[2] \in Tree(g, w, I)
    BY <2>2, <2>6, ReachNext DEF Tree
  <2>8. r[2] \in Tree(f, v, G)
    BY <2>2, ReachNext DEF Tree
  <2> QED BY <2>7, <2>8
<1> HIDE DEF S
<1>4. Tree(f, v, G) \subseteq S
  BY <1>1, <1>3, ReachLeast DEF Tree
<1>5. Tree(f, v, G) \subseteq Tree(g, w, I)
  BY <1>4 DEF S
<1>6. ASSUME NEW s \in Within(f, v, G) PROVE v[s].first \in Kept(g, w, I) \cup L
  <2>1. PICK d \in Tree(f, v, G) : s \in Cells(f, d)
    BY DEF Within
  <2>2. Named(v[s]) /\ s \in Cells(f, d) \ G /\ s \in SlotIds
    BY <2>1 DEF Within
  <2>3. CASE v[s].first \in L
    BY <2>3
  <2>4. CASE s \notin I /\ w[s] = v[s]
    <3>1. s \in Within(g, w, I)
      BY <1>2, <1>5, <2>1, <2>2, <2>4 DEF Within
    <3> QED BY <2>4, <3>1 DEF Kept
  <2> QED BY <2>1, <2>2, <2>3, <2>4
<1> QED BY <1>5, <1>6 DEF Kept

(* Kept chains begin at clusters that nothing leads to and the call does   *)
(* not hold.                                                               *)
LEMMA KeptHeads ==
  ASSUME TypeInv, Heads
  PROVE  /\ \A h \in Kept(fat, view, {found}) \cap Clusters :
              fat[h] # Free /\ NoPred(fat, h) /\ h \notin Holding
         /\ Kept(fat, view, {found}) \subseteq Clusters \cup {0}
<1>1. ASSUME NEW s \in Within(fat, view, {found}), view[s].first # 0
      PROVE  <<s, view[s].first>> \in NamesNow
  <2>1. s \in SlotIds \ {found} /\ Named(view[s]) /\ view[s] = slot[s]
    BY ViewIn DEF Within, Named
  <2> QED BY <1>1, <2>1 DEF NamesNow, Refs
<1>2. ASSUME NEW h \in Kept(fat, view, {found}), h # 0, h # RootCluster
      PROVE  \E s : <<s, h>> \in NamesNow
  <2>1. PICK s \in Within(fat, view, {found}) : h = view[s].first
    BY <1>2 DEF Kept
  <2> QED BY <1>1, <1>2, <2>1
<1>3. \A s, h : <<s, h>> \in NamesNow => h \in Clusters /\ h \notin Holding /\ fat[h] # Free /\ NoPred(fat, h)
  <2> SUFFICES ASSUME NEW s, NEW h, <<s, h>> \in NamesNow
               PROVE  h \in Clusters /\ h \notin Holding /\ fat[h] # Free /\ NoPred(fat, h)
    OBVIOUS
  <2>1. <<s, h>>[2] = h
    OBVIOUS
  <2> QED BY <2>1 DEF Heads, HeadsOK
<1>4. RootCluster \in Clusters /\ RootCluster \notin Holding /\ fat[RootCluster] # Free /\ NoPred(fat, RootCluster)
  BY Apart DEF Heads, HeadsOK
<1> QED BY <1>2, <1>3, <1>4, Apart

(* No cluster is of two kept chains, or of one and a chain the call holds. *)
LEMMA KeptApart ==
  ASSUME TypeInv, Heads, NEW h \in Kept(fat, view, {found}) \cap Clusters
  PROVE  /\ \A k \in Kept(fat, view, {found}) \cap Clusters : k # h => Trail(fat, h) \cap Trail(fat, k) = {}
         /\ \A k \in Holding \cap Clusters : Trail(fat, h) \cap Trail(fat, k) = {}
         /\ \A x \in Trail(fat, h) : fat[x] # Free
<1>1. Single(fat) /\ Safe(fat)
  BY DEF Heads, HeadsOK
<1>2. \A k \in Holding \cap Clusters : NoPred(fat, k)
  BY DEF Heads, HeadsOK
<1>3. fat[h] # Free /\ NoPred(fat, h) /\ h \notin Holding
  BY KeptHeads
<1>4. \A k \in Kept(fat, view, {found}) \cap Clusters : k # h => Trail(fat, h) \cap Trail(fat, k) = {}
  BY <1>1, <1>3, KeptHeads, TrailApart
<1>5. \A k \in Holding \cap Clusters : Trail(fat, h) \cap Trail(fat, k) = {}
  BY <1>1, <1>2, <1>3, TrailApart
<1>6. \A x \in Trail(fat, h) : fat[x] # Free
  BY <1>1, <1>3, TrailTaken
<1> QED BY <1>4, <1>5, <1>6

(* They stay as they are when the entries that change are of a free        *)
(* cluster or of a chain that the call holds.                              *)
LEMMA KeptSame ==
  ASSUME TypeInv, Heads, NEW g,
         \/ \E c \in Clusters : fat[c] = Free /\ \A x \in Clusters \ {c} : g[x] = fat[x]
         \/ \E h \in Holding \cap Clusters : \E c \in Trail(fat, h) : \A x \in Clusters \ {c} : g[x] = fat[x]
  PROVE  \A h \in Kept(fat, view, {found}) : Trail(g, h) = Trail(fat, h)
<1> SUFFICES ASSUME NEW h \in Kept(fat, view, {found}), h \in Clusters
             PROVE  Trail(g, h) = Trail(fat, h)
  BY TrailHas
<1>1. /\ \A x \in Trail(fat, h) : x \in Clusters /\ fat[x] # Free
      /\ \A k \in Holding \cap Clusters : Trail(fat, h) \cap Trail(fat, k) = {}
  BY KeptApart, TrailHas
<1>2. \A x \in Trail(fat, h) : g[x] = fat[x]
  BY <1>1
<1> QED BY <1>2, TrailSame

(* The current directory is one of the tree.                               *)
LEMMA CwdInTree ==
  TypeInv /\ CwdReach => cwd \in Tree(fat, view, {found})
<1> SUFFICES ASSUME TypeInv, CwdReach PROVE cwd \in Tree(fat, view, {found})
  OBVIOUS
<1>1. Ways(fat, view, {found}) \subseteq Subs(fat, view, {found})
  BY DEF Ways, Subs, Doors, Sub
<1> QED BY <1>1, WaysIn, ReachKept DEF CwdReach, Tree

(* The same after a step.                                                  *)
LEMMA KeptAfter ==
  /\ TypeInv' => Subs(fat', view', {found'}) \in SUBSET Pairs
  /\ TypeInv' /\ CwdReach' => cwd' \in Tree(fat', view', {found'})
  /\ TypeInv' /\ Heads' /\ DirInv' => Owned' = Use(fat', view', {found'}, Held')
<1>1. (TypeInv => \A G : Subs(fat, view, G) \in SUBSET Pairs)'
  BY SubsIn, PTL
<1>2. (TypeInv /\ CwdReach => cwd \in Tree(fat, view, {found}))'
  BY CwdInTree, PTL
<1>3. (TypeInv /\ Heads /\ DirInv => Owned = Use(fat, view, {found}, Held))'
  BY OwnedIs, PTL
<1> QED BY <1>1, <1>2, <1>3

(* What a step leaves below the root is below it afterwards.               *)
LEMMA KeptOn ==
  ASSUME TypeInv, TypeInv', NEW L,
         \A h \in Kept(fat, view, {found}) : Trail(fat, h) \subseteq Trail(fat', h),
         \A s \in Within(fat, view, {found}) :
            (s # found' /\ view'[s] = view[s]) \/ (view[s].kind # "dir" /\ view[s].first \in L)
  PROVE  /\ Tree(fat, view, {found}) \subseteq Tree(fat', view', {found'})
         /\ Kept(fat, view, {found}) \subseteq Kept(fat', view', {found'}) \cup L
<1> DEFINE v == view
           w == view'
           I == {found'}
           G == {found}
           g == fat'
<1>1. Subs(fat, v, G) \in SUBSET Pairs /\ Subs(g, w, I) \in SUBSET Pairs
  BY SubsIn, KeptAfter
<1>2. \A d \in Tree(fat, v, G) : Trail(fat, d) \subseteq Trail(g, d)
  BY <1>1, TreeIn
<1>3. ASSUME NEW d \in Tree(fat, v, G), NEW s \in Cells(fat, d) \ G, Named(v[s])
      PROVE  (s \notin I /\ w[s] = v[s]) \/ (v[s].kind # "dir" /\ v[s].first \in L)
  <2>1. s \in Within(fat, v, G)
    BY <1>3, CellsIn DEF Within
  <2> QED BY <2>1
<1> HIDE DEF v, w, I, G, g
<1>4. Tree(fat, v, G) \subseteq Tree(g, w, I) /\ Kept(fat, v, G) \subseteq Kept(g, w, I) \cup L
  BY <1>1, <1>2, <1>3, TreeStays
<1> QED BY <1>4 DEF v, w, I, G, g

(* What the files, the directories and the running call use.               *)
NowUsed == Use(fat, view, {found}, Held)

(* Nothing leaks in a step that keeps or frees what was owned and takes    *)
(* clusters only for what is owned.                                        *)
LEMMA LeakLess ==
  ASSUME TypeInv, TypeInv', VolumeParts, VolumeParts', NEW L,
         Kept(fat, view, {found}) \subseteq Kept(fat', view', {found'}) \cup L,
         \A h \in Kept(fat, view, {found}) : Trail(fat, h) \subseteq Trail(fat', h),
         \A x \in Clusters : fat[x] = Free /\ fat'[x] # Free => x \in NowUsed',
         \A h \in Held \cup L : \A x \in Trail(fat, h) : fat'[x] = Free \/ x \in NowUsed'
  PROVE  Leaked' \subseteq Leaked
<1> DEFINE K == Kept(fat, view, {found})
           M == Kept(fat', view', {found'})
<1>1. Owned = UNION {Trail(fat, c) : c \in K \cup Held}
  BY OwnedIs DEF VolumeParts, Use
<1>2. NowUsed' = UNION {Trail(fat', c) : c \in M \cup Held'} /\ Owned' = NowUsed'
  BY KeptAfter DEF VolumeParts, Use, NowUsed
<1>3. ASSUME NEW x \in Owned PROVE fat'[x] = Free \/ x \in NowUsed'
  <2>1. PICK c \in K \cup Held : x \in Trail(fat, c)
    BY <1>1
  <2>2. CASE c \in Held \cup L
    BY <2>1, <2>2
  <2>3. CASE c \in K /\ c \notin L
    <3>1. c \in M /\ x \in Trail(fat', c)
      BY <2>1, <2>3
    <3> QED BY <1>2, <3>1
  <2> QED BY <2>1, <2>2, <2>3
<1>4. Leaked' = {c \in Clusters : fat'[c] # Free} \ NowUsed'
  BY <1>2 DEF Leaked
<1> QED BY <1>3, <1>4 DEF Leaked

(* The entries below the root stay as they are and are not overwritten.    *)
Lasting == \A s \in Within(fat, view, {found}) : s # found' /\ view'[s] = view[s]

(* Nothing leaks in a step that leaves them and the table as they are and  *)
(* goes on holding what it holds.                                          *)
LEMMA LeakGoOn ==
  ASSUME TypeInv, TypeInv', VolumeParts, VolumeParts', Lasting, UNCHANGED fat,
         Held \cap Clusters \subseteq Held'
  PROVE  Leaked' \subseteq Leaked
<1>1. Kept(fat, view, {found}) \subseteq Kept(fat', view', {found'}) \cup {}
  BY KeptOn DEF Lasting
<1>2. \A h \in Held \cup {} : \A x \in Trail(fat, h) : x \in NowUsed'
  <2> SUFFICES ASSUME NEW h \in Held, NEW x \in Trail(fat, h) PROVE x \in NowUsed'
    OBVIOUS
  <2>1. h \in Held' /\ x \in Trail(fat', h)
    BY TrailHas
  <2> QED BY <2>1 DEF NowUsed, Use
<1> QED BY <1>1, <1>2, LeakLess

(* The entries stay while no record changes.                               *)
LEMMA LastingSame ==
  ASSUME TypeInv, UNCHANGED slot, pc # "clear", pc' # "clear", found' \in {found, NoSlot}
  PROVE  Lasting
<1>1. view' = view
  BY ViewSame
<1> QED BY <1>1, NoSlotApart DEF Lasting, Within

(* A call that begins leaks nothing.                                       *)
LEMMA CallLeaks ==
  ASSUME ~ torn', TypeInv, TypeInv', VolumeParts, VolumeParts', Call
  PROVE  Leaked' \subseteq Leaked
<1>1. pc = "idle" /\ UNCHANGED slot /\ pc' \in {"idle", "find", "dots"} /\ found' \in {found, NoSlot}
  BY DEF Call, WriteCall, MkdirCall, CdCall, disk, ClearLocals, Return
<1>2. Lasting /\ Held = {}
  BY <1>1, LastingSame DEF Held
<1>3. CASE UNCHANGED fat
  BY <1>2, <1>3, LeakGoOn
<1>4. CASE \E c \in NearestFree : fat' = [fat EXCEPT ![c] = Eoc] /\ head' = c /\ pc' = "dots"
  <2>1. PICK c \in NearestFree : fat' = [fat EXCEPT ![c] = Eoc] /\ head' = c /\ pc' = "dots"
    BY <1>4
  <2>2. c \in Clusters /\ fat[c] = Free /\ fat \in [Clusters -> Links]
    BY DEF NearestFree, FreeClusters, TypeInv, DiskOK
  <2>3. \A x \in Clusters \ {c} : fat'[x] = fat[x]
    BY <2>1, <2>2
  <2>4. \A h \in Kept(fat, view, {found}) : Trail(fat, h) \subseteq Trail(fat', h)
    BY <2>2, <2>3, KeptSame DEF VolumeParts
  <2>5. Kept(fat, view, {found}) \subseteq Kept(fat', view', {found'}) \cup {}
    BY <1>2, <2>4, KeptOn DEF Lasting
  <2>6. c \in NowUsed'
    BY <2>1, <2>2, TrailHas DEF NowUsed, Use, Held
  <2>7. \A x \in Clusters : fat[x] = Free /\ fat'[x] # Free => x \in NowUsed'
    BY <2>3, <2>6
  <2> QED BY <1>2, <2>4, <2>5, <2>7, LeakLess
<1> QED BY <1>3, <1>4 DEF Call, WriteCall, MkdirCall, CdCall, disk, SetFat

(* Nor does a step that only moves along or returns.                       *)
LEMMA MoveLeaks ==
  ASSUME ~ torn', TypeInv, TypeInv', VolumeParts, VolumeParts',
         FindNext \/ FindMiss \/ SealFile \/ DataDone \/ SlotHit \/ SlotNext \/ SlotMiss
  PROVE  Leaked' \subseteq Leaked
<1>1. UNCHANGED slot /\ pc # "clear" /\ pc' # "clear" /\ found' \in {found, NoSlot}
  BY DEF FindNext, FindMiss, SealFile, DataDone, SlotHit, SlotNext, SlotMiss, disk, Return, ClearLocals
<1>2. UNCHANGED fat
  <2>1. CASE SealFile
    BY <2>1, SealSame
  <2>2. CASE ~ SealFile
    BY <2>2 DEF FindNext, FindMiss, DataDone, SlotHit, SlotNext, SlotMiss, disk
  <2> QED BY <2>1, <2>2
<1>3. Held \cap Clusters \subseteq Held'
  <2>1. CASE FindMiss
    BY <2>1, Apart DEF FindMiss, Held, TypeInv, Stage
  <2>2. CASE ~ FindMiss
    BY <2>2 DEF FindNext, SealFile, DataDone, SlotHit, SlotNext, SlotMiss, Held
  <2> QED BY <2>1, <2>2
<1> QED BY <1>1, <1>2, <1>3, LastingSame, LeakGoOn

(* An entry of a file is found and its chain is the call's to free.        *)
LEMMA FindHitLeaks ==
  ASSUME TypeInv, TypeInv', VolumeParts, VolumeParts', FindHit,
         ~ (found' # NoSlot /\ slot[found'].kind = "dir")
  PROVE  Leaked' \subseteq Leaked
<1>1. /\ pc = "find" /\ cur \in Clusters /\ UNCHANGED <<fat, slot>> /\ head = 0 /\ found = NoSlot
      /\ pc' # "clear"
  BY Apart DEF FindHit, TypeInv, Stage, LocalsOK, disk, Return
<1>2. Held \cap Clusters = {}
  BY <1>1, Apart DEF Held
<1>3. CASE found' = NoSlot
  BY <1>1, <1>2, <1>3, LastingSame, LeakGoOn
<1>4. CASE found' # NoSlot
  <2>1. PICK m \in Hits(cur) :
          /\ found' = <<cur, m>>
          /\ LET e == slot[<<cur, m>>] IN
             IF e.first >= 2 THEN pc' = "free" /\ cur' = e.first ELSE pc' = "alloc" /\ cur' = 0
    BY <1>4 DEF FindHit, Return, ClearLocals
  <2>2. found' \in SlotIds /\ IsEntry(slot[found'])
    BY <1>1, <2>1 DEF Hits, Sought, SlotIds
  <2> DEFINE q == slot[found'].first
  <2>3. q \in Clusters \cup {0}
    BY <2>2, EntryIn DEF TypeInv, DiskOK
  <2>4. view' = view
    BY <1>1, ViewSame
  <2>5. view[found'] = slot[found']
    BY <1>1, <2>2 DEF view, View
  <2>6. \A s \in Within(fat, view, {found}) :
            (s # found' /\ view'[s] = view[s]) \/ (view[s].kind # "dir" /\ view[s].first \in {q})
    BY <1>4, <2>4, <2>5
  <2>7. Kept(fat, view, {found}) \subseteq Kept(fat', view', {found'}) \cup {q}
    BY <1>1, <2>6, KeptOn
  <2>8. \A x \in Trail(fat, q) : x \in NowUsed'
    <3>1. CASE q \in Clusters
      <4>1. pc' = "free" /\ cur' = q
        BY <2>1, <3>1, Apart
      <4> QED BY <1>1, <4>1 DEF NowUsed, Use, Held
    <3>2. CASE q \notin Clusters
      BY <3>2, TrailHas
    <3> QED BY <3>1, <3>2
  <2>9. \A h \in Held \cup {q} : \A x \in Trail(fat, h) : fat'[x] = Free \/ x \in NowUsed'
    BY <1>2, <2>8, TrailHas
  <2> HIDE DEF q
  <2> QED BY <1>1, <2>7, <2>9, LeakLess
<1> QED BY <1>3, <1>4

(* What follows a freed cluster is still held.                             *)
LEMMA FreeStepLeaks ==
  ASSUME ~ torn', TypeInv, TypeInv', VolumeParts, VolumeParts', FreeStep
  PROVE  Leaked' \subseteq Leaked
<1>0. Heads
  BY DEF VolumeParts
<1>1. /\ pc \in {"free", "undo"} /\ pc' = pc /\ UNCHANGED <<slot, found, head>>
      /\ fat' = [fat EXCEPT ![cur] = Free] /\ cur' = fat[cur]
      /\ cur \in Clusters /\ fat \in [Clusters -> Links] /\ (pc = "free" => head = 0)
  BY Apart DEF FreeStep, SetFat, TypeInv, DiskOK, LocalsOK, memory, Stage
<1>2. /\ cur \in Holding \cap Clusters /\ cur \in Trail(fat, cur)
      /\ fat'[cur] = Free /\ \A x \in Clusters \ {cur} : fat'[x] = fat[x]
  BY <1>1, TrailHas DEF Holding
<1>3. \A h \in Kept(fat, view, {found}) : Trail(fat, h) \subseteq Trail(fat', h)
  BY <1>0, <1>2, KeptSame
<1>4. Lasting
  BY <1>1, LastingSame
<1>5. Kept(fat, view, {found}) \subseteq Kept(fat', view', {found'}) \cup {}
  BY <1>3, <1>4, KeptOn DEF Lasting
<1>6. Trail(fat', fat[cur]) = Trail(fat, fat[cur])
  <2>1. Single(fat) /\ NoPred(fat, cur)
    BY <1>0, <1>2 DEF Heads, HeadsOK
  <2>2. cur \notin Trail(fat, fat[cur])
    BY <1>2, <2>1, TrailAcyclic
  <2>3. \A x \in Trail(fat, fat[cur]) : fat'[x] = fat[x]
    BY <1>2, <2>2, TrailHas
  <2> QED BY <2>3, TrailSame
<1>7. \A x \in Trail(fat, fat[cur]) : x \in NowUsed'
  BY <1>1, <1>6 DEF NowUsed, Use, Held
<1>8. \A x \in Trail(fat, cur) : fat'[x] = Free \/ x \in NowUsed'
  <2>1. Trail(fat, cur) = {cur} \cup Trail(fat, fat[cur])
    BY <1>1, TrailSplit
  <2> QED BY <1>2, <1>7, <2>1
<1>9. \A x \in Trail(fat, head) : fat'[x] = Free \/ x \in NowUsed'
  <2>1. CASE head \notin Clusters
    BY <2>1, TrailHas
  <2>2. CASE head = cur
    BY <1>8, <2>2
  <2>3. CASE head \in Clusters /\ head # cur
    <3>1. fat[head] = Free
      BY <1>0, <1>1, <2>3, Apart DEF Heads
    <3>2. Trail(fat, head) = {head}
      BY <2>3, <3>1, TrailSplit, TrailHas, Apart
    <3> QED BY <1>2, <2>3, <3>1, <3>2
  <2> QED BY <2>1, <2>2, <2>3
<1>10. \A h \in Held \cup {} : \A x \in Trail(fat, h) : fat'[x] = Free \/ x \in NowUsed'
  BY <1>1, <1>8, <1>9 DEF Held
<1>11. \A x \in Clusters : fat[x] = Free /\ fat'[x] # Free => x \in NowUsed'
  BY <1>2
<1> QED BY <1>3, <1>5, <1>10, <1>11, LeakLess

(* A chain that is freed to its end leaves nothing held.                   *)
LEMMA FreeDoneLeaks ==
  ASSUME TypeInv, TypeInv', VolumeParts, VolumeParts', FreeDone
  PROVE  Leaked' \subseteq Leaked
<1>1. /\ pc \in {"free", "undo"} /\ cur \notin Clusters /\ UNCHANGED <<slot, fat>>
      /\ pc' # "clear" /\ found' \in {found, NoSlot}
      /\ (pc = "free" => head = 0) /\ (pc = "undo" => head \in Clusters)
  BY Apart DEF FreeDone, Return, ClearLocals, TypeInv, LocalsOK, disk, Stage
<1>2. Lasting
  BY <1>1, LastingSame
<1>3. Kept(fat, view, {found}) \subseteq Kept(fat', view', {found'}) \cup {}
  BY <1>1, <1>2, KeptOn DEF Lasting
<1>4. \A x \in Trail(fat, head) : fat'[x] = Free
  <2>1. CASE pc = "free"
    BY <1>1, <2>1, Apart, TrailHas
  <2>2. CASE pc = "undo"
    <3>1. fat[head] = Free /\ head \in Clusters
      BY <1>1, <2>2 DEF VolumeParts, Heads
    <3>2. Trail(fat, head) = {head}
      BY <3>1, TrailSplit, TrailHas, Apart
    <3> QED BY <1>1, <3>1, <3>2
  <2> QED BY <1>1, <2>1, <2>2
<1>5. \A h \in Held \cup {} : \A x \in Trail(fat, h) : fat'[x] = Free
  BY <1>1, <1>4, TrailHas DEF Held
<1> QED BY <1>1, <1>3, <1>5, LeakLess

(* What no cluster is left for is held still, to be given back.            *)
LEMMA AllocFullLeaks ==
  ASSUME TypeInv, TypeInv', VolumeParts, VolumeParts', AllocFull
  PROVE  Leaked' \subseteq Leaked
<1>1. /\ pc \in {"alloc", "extend"} /\ UNCHANGED <<slot, fat>> /\ pc' # "clear" /\ found' \in {found, NoSlot}
  BY DEF AllocFull, Return, ClearLocals, disk
<1>2. Held \cap Clusters \subseteq Held'
  BY <1>1, Apart DEF AllocFull, Held
<1> QED BY <1>1, <1>2, LastingSame, LeakGoOn

(* A cluster that is taken is held.                                        *)
LEMMA AllocLeaks ==
  ASSUME ~ torn', TypeInv, TypeInv', VolumeParts, VolumeParts', AllocFile \/ Extend
  PROVE  Leaked' \subseteq Leaked
<1>0. Heads
  BY DEF VolumeParts
<1>1. /\ pc \in {"alloc", "extend"} /\ pc' \in {"alloc", "link", "elink"}
      /\ UNCHANGED <<slot, found>> /\ fat \in [Clusters -> Links]
  BY DEF AllocFile, Extend, TypeInv, DiskOK
<1>2. PICK c \in NearestFree :
        /\ fat' = [fat EXCEPT ![c] = Eoc] /\ c \in Held'
        /\ head = 0 \/ head' = head
  <2>1. CASE AllocFile
    <3>1. PICK c \in NearestFree :
            /\ fat' = [fat EXCEPT ![c] = Eoc] /\ head' = IF head = 0 THEN c ELSE head
            /\ (prev # 0 => pc' = "link" /\ cur' = c)
      BY <2>1 DEF AllocFile, SetFat
    <3>2. prev = 0 => head = 0
      BY <2>1 DEF AllocFile, TypeInv, Stage
    <3> QED BY <1>1, <3>1, <3>2 DEF Held
  <2>2. CASE Extend
    BY <2>2 DEF Extend, SetFat, Held
  <2> QED BY <2>1, <2>2
<1>3. c \in Clusters /\ fat[c] = Free
  BY DEF NearestFree, FreeClusters
<1>4. \A x \in Clusters \ {c} : fat'[x] = fat[x]
  BY <1>1, <1>2
<1>5. \A h \in Kept(fat, view, {found}) : Trail(fat, h) \subseteq Trail(fat', h)
  BY <1>0, <1>3, <1>4, KeptSame
<1>6. Kept(fat, view, {found}) \subseteq Kept(fat', view', {found'}) \cup {}
  BY <1>1, <1>5, LastingSame, KeptOn DEF Lasting
<1>7. \A x \in Trail(fat, head) : x \in NowUsed'
  <2>1. CASE head \in Clusters
    <3>1. head' = head /\ head \in Held'
      BY <1>1, <1>2, <2>1, Apart DEF Held
    <3>2. fat[head] # Free /\ Safe(fat)
      BY <1>0, <1>1, <2>1 DEF Heads, HeadsOK, Holding
    <3>3. \A x \in Trail(fat, head) : x \in Clusters /\ fat[x] # Free
      BY <2>1, <3>2, TrailTaken, TrailHas
    <3>4. Trail(fat', head) = Trail(fat, head)
      BY <1>3, <1>4, <3>3, TrailSame
    <3> QED BY <3>1, <3>4 DEF NowUsed, Use
  <2>2. CASE head \notin Clusters
    BY <2>2, TrailHas
  <2> QED BY <2>1, <2>2
<1>8. \A h \in Held \cup {} : \A x \in Trail(fat, h) : x \in NowUsed'
  BY <1>1, <1>7 DEF Held
<1>9. c \in NowUsed'
  BY <1>2, <1>3, TrailHas DEF NowUsed, Use
<1>10. \A x \in Clusters : fat[x] = Free /\ fat'[x] # Free => x \in NowUsed'
  BY <1>4, <1>9
<1> QED BY <1>5, <1>6, <1>8, <1>10, LeakLess

(* A held cluster is linked behind the file.                               *)
LEMMA LinkFileLeaks ==
  ASSUME ~ torn', TypeInv, TypeInv', VolumeParts, VolumeParts', LinkFile
  PROVE  Leaked' \subseteq Leaked
<1>0. Heads
  BY DEF VolumeParts
<1>1. /\ pc = "link" /\ pc' = "alloc" /\ UNCHANGED <<slot, found, head>>
      /\ fat' = [fat EXCEPT ![prev] = cur] /\ fat \in [Clusters -> Links]
      /\ cur \in Clusters /\ prev \in Clusters /\ cur # prev /\ fat[cur] = Eoc /\ fat[prev] = Eoc
  BY DEF LinkFile, SetFat, TypeInv, DiskOK, LocalsOK, Stage, Fresh
<1>2. prev \in Trail(fat, head) /\ head \in Clusters
  BY <1>1, TrailHas DEF VolumeParts, WalkFile, TypeInv, LocalsOK, Stage, Apart
<1>3. head \in Holding \cap Clusters
  BY <1>1, <1>2 DEF Holding
<1>4. \A x \in Clusters \ {prev} : fat'[x] = fat[x]
  BY <1>1
<1>5. \A h \in Kept(fat, view, {found}) : Trail(fat, h) \subseteq Trail(fat', h)
  BY <1>0, <1>2, <1>3, <1>4, KeptSame
<1>6. Kept(fat, view, {found}) \subseteq Kept(fat', view', {found'}) \cup {}
  BY <1>1, <1>5, LastingSame, KeptOn DEF Lasting
<1>7. Trail(fat', head) = Trail(fat, head) \cup {cur}
  <2>1. fat'[prev] = cur /\ fat'[cur] \notin Clusters /\ fat[prev] \notin Clusters /\ fat[cur] \notin Clusters
    BY <1>1, Apart
  <2>2. \A y \in Trail(fat, head) \ {prev, cur} : fat'[y] = fat[y]
    BY <1>4, TrailHas
  <2>3. cur \in Clusters /\ cur # prev
    BY <1>1
  <2> QED BY <1>2, <2>1, <2>2, <2>3, TrailLink
<1>8. Trail(fat, cur) = {cur}
  BY <1>1, TrailSplit, TrailHas, Apart
<1>9. \A x \in Trail(fat, head) \cup {cur} : x \in NowUsed'
  BY <1>1, <1>7 DEF NowUsed, Use, Held
<1>10. \A h \in Held \cup {} : \A x \in Trail(fat, h) : x \in NowUsed'
  BY <1>1, <1>8, <1>9 DEF Held
<1>11. \A x \in Clusters : fat[x] = Free /\ fat'[x] # Free => x \in NowUsed'
  BY <1>1, <1>4 DEF Free, Eoc
<1> QED BY <1>5, <1>6, <1>10, <1>11, LeakLess

(* A held chain is overwritten and stays held; its records are no entries  *)
(* of the tree.                                                            *)
LEMMA WriteLeaks ==
  ASSUME ~ torn, TypeInv, TypeInv', VolumeParts, VolumeParts', WriteData \/ WriteDots
  PROVE  Leaked' \subseteq Leaked
<1>0. Heads
  BY DEF VolumeParts
<1>1. /\ pc \in {"data", "dots"} /\ pc' \in {"data", "slot"} /\ UNCHANGED <<fat, found, head>>
  BY DEF WriteData, WriteDots
<1>2. \E c \in Trail(fat, head) : \A s \in SlotIds : s[1] # c => slot'[s] = slot[s]
  <2>1. CASE WriteData
    <3>1. cur \in Clusters
      BY <2>1, DataInside
    <3>2. cur \in Trail(fat, head)
      BY <2>1, <3>1 DEF WriteData, VolumeParts, WalkFile
    <3> QED BY <2>1, <3>2 DEF WriteData, WriteCluster
  <2>2. CASE WriteDots
    <3>1. head \in Clusters
      BY <2>2, Apart DEF WriteDots, TypeInv, Stage, LocalsOK
    <3> QED BY <2>2, <3>1, TrailHas DEF WriteDots, WriteCluster
  <2> QED BY <2>1, <2>2
<1>3. PICK c \in Trail(fat, head) : \A s \in SlotIds : s[1] # c => slot'[s] = slot[s]
  BY <1>2
<1>4. head \in Holding \cap Clusters
  BY <1>1, TrailHas DEF Holding
<1>5. \A s \in SlotIds : s[1] # c => view'[s] = view[s]
  BY <1>1, <1>3 DEF view, View
<1>6. ASSUME NEW s \in Within(fat, view, {found}) PROVE s # found' /\ view'[s] = view[s]
  <2>1. PICK d \in Tree(fat, view, {found}) : s \in Cells(fat, d)
    BY DEF Within
  <2>2. d \in Kept(fat, view, {found}) \cap Clusters
    BY SubsIn, TreeIn
  <2>3. s[1] # c
    BY <1>0, <1>4, <2>1, <2>2, KeptApart DEF Cells
  <2> QED BY <1>1, <1>5, <2>3 DEF Within
<1>7. Held \cap Clusters \subseteq Held'
  BY <1>1 DEF Held
<1> QED BY <1>1, <1>6, <1>7, LeakGoOn DEF Lasting

(* A cleared cluster looks as it did.                                      *)
LEMMA ClearDirLeaks ==
  ASSUME TypeInv, TypeInv', VolumeParts, VolumeParts', ClearDir, UNCHANGED faults
  PROVE  Leaked' \subseteq Leaked
<1>1. /\ pc = "clear" /\ pc' = "entry" /\ UNCHANGED <<fat, found, head, cur>>
      /\ cur \in Clusters
  BY DEF ClearDir, TypeInv, Stage
<1>2. slot' = [s \in SlotIds |-> IF s[1] = cur THEN End ELSE slot[s]]
  <2>1. PICK k \in 0 .. SlotsPerCluster :
          /\ slot' = [s \in SlotIds |-> IF s[1] = cur /\ s[2] <= k THEN [i \in Indices |-> End][s[2]] ELSE slot[s]]
          /\ IF k = SlotsPerCluster THEN UNCHANGED faults ELSE faults < MaxFaults /\ faults' = faults + 1
    BY DEF ClearDir, WriteCluster
  <2>2. faults \in Nat
    BY InputAssumption DEF TypeInv, PastOK
  <2>3. k = SlotsPerCluster
    BY <2>1, <2>2
  <2>4. \A s \in SlotIds : s[2] \in Indices /\ s[2] <= k
    BY <2>3, VolumeAssumption DEF SlotIds, Indices
  <2> QED BY <2>1, <2>4
<1>3. view' = view
  BY <1>1, <1>2 DEF view, View
<1>4. Lasting
  BY <1>1, <1>3 DEF Lasting, Within
<1>5. Held \cap Clusters \subseteq Held'
  BY <1>1 DEF Held
<1> QED BY <1>1, <1>4, <1>5, LeakGoOn

(* A held cluster is linked behind the current directory.                  *)
LEMMA LinkDirLeaks ==
  ASSUME ~ torn', TypeInv, TypeInv', VolumeParts, VolumeParts', LinkDir
  PROVE  Leaked' \subseteq Leaked
<1>0. Heads /\ CwdReach
  BY DEF VolumeParts
<1>1. /\ pc = "elink" /\ pc' = "clear" /\ fat' = [fat EXCEPT ![last] = cur, ![cur] = Eoc]
      /\ UNCHANGED <<slot, found, cwd, cur, head>> /\ fat \in [Clusters -> Links]
      /\ cur \in Clusters /\ last \in Clusters
  BY LinkDirTable DEF LinkDir, TypeInv, DiskOK, Stage, locals, memory
<1>2. last \in Trail(fat, cwd) /\ fat[last] \notin Clusters /\ fat[cur] \notin Clusters
  BY <1>1 DEF VolumeParts, WalkSlot
<1>3. last # cur
  BY <1>0, LinkDirDirs
<1>4. cur \in Holding \cap Clusters /\ cur \in Trail(fat, cur) /\ Trail(fat, cur) = {cur}
  BY <1>1, <1>2, TrailHas, TrailSplit DEF Holding
<1>5. cwd \in Tree(fat, view, {found})
  BY <1>0, CwdInTree
<1>6. cwd \in Kept(fat, view, {found}) \cap Clusters
  BY <1>5, SubsIn, TreeIn
<1>7. /\ fat'[last] = cur /\ fat'[cur] = Eoc /\ Eoc \notin Clusters
      /\ \A x \in Clusters \ {last, cur} : fat'[x] = fat[x]
  BY <1>1, <1>3, Apart
<1>8. Trail(fat', cwd) = Trail(fat, cwd) \cup {cur}
  <2>1. \A y \in Trail(fat, cwd) \ {last, cur} : fat'[y] = fat[y]
    BY <1>7, TrailHas
  <2>2. fat'[last] = cur /\ fat'[cur] \notin Clusters /\ cur \in Clusters
    BY <1>1, <1>7
  <2> QED BY <1>2, <1>3, <1>6, <2>1, <2>2, TrailLink
<1>9. ASSUME NEW h \in Kept(fat, view, {found}) PROVE Trail(fat, h) \subseteq Trail(fat', h)
  <2>1. CASE h = cwd
    BY <1>8, <2>1
  <2>2. CASE h \notin Clusters
    BY <2>2, TrailHas
  <2>3. CASE h # cwd /\ h \in Clusters
    <3>1. last \notin Trail(fat, h) /\ cur \notin Trail(fat, h)
      BY <1>0, <1>2, <1>4, <1>6, <2>3, KeptApart
    <3>2. \A x \in Trail(fat, h) : fat'[x] = fat[x]
      BY <1>7, <3>1, TrailHas
    <3> QED BY <3>2, TrailSame
  <2> QED BY <2>1, <2>2, <2>3
<1>10. \A s \in SlotIds : view[s] = slot[s] /\ view'[s] = IF s[1] = cur THEN End ELSE slot[s]
  BY <1>1 DEF view, View
<1>11. ASSUME NEW s \in Within(fat, view, {found}) PROVE s # found' /\ view'[s] = view[s]
  <2>1. PICK d \in Tree(fat, view, {found}) : s \in Cells(fat, d)
    BY DEF Within
  <2>2. d \in Kept(fat, view, {found}) \cap Clusters
    BY SubsIn, TreeIn
  <2>3. s[1] # cur
    BY <1>0, <1>4, <2>1, <2>2, KeptApart DEF Cells
  <2> QED BY <1>1, <1>10, <2>3 DEF Within
<1>12. /\ Kept(fat, view, {found}) \subseteq Kept(fat', view', {found'}) \cup {}
       /\ cwd \in Kept(fat', view', {found'})
  BY <1>6, <1>9, <1>11, KeptOn
<1>13. cur \in NowUsed'
  BY <1>8, <1>12 DEF NowUsed, Use
<1>14. \A x \in Trail(fat, head) : x \in NowUsed'
  <2>1. CASE head \in Clusters
    <3>1. head \in Holding \cap Clusters /\ head # cur /\ NoPred(fat, head) /\ NoPred(fat, cur) /\ Single(fat)
      BY <1>0, <1>1, <1>4, <2>1 DEF Heads, HeadsOK, Holding
    <3>2. last \notin Trail(fat, head)
      BY <1>0, <1>2, <1>6, <3>1, KeptApart
    <3>3. cur \notin Trail(fat, head)
      BY <1>1, <1>4, <3>1, TrailApart
    <3>4. \A x \in Trail(fat, head) : fat'[x] = fat[x]
      BY <1>7, <3>2, <3>3, TrailHas
    <3>5. Trail(fat', head) = Trail(fat, head)
      BY <3>4, TrailSame
    <3>6. head \in Held'
      BY <1>1 DEF Held
    <3> QED BY <3>5, <3>6 DEF NowUsed, Use
  <2>2. CASE head \notin Clusters
    BY <2>2, TrailHas
  <2> QED BY <2>1, <2>2
<1>15. \A h \in Held \cup {} : \A x \in Trail(fat, h) : x \in NowUsed'
  BY <1>1, <1>4, <1>13, <1>14 DEF Held
<1>16. \A x \in Clusters : fat[x] = Free /\ fat'[x] # Free => x \in NowUsed'
  <2>1. fat[last] # Free
    BY <1>0, <1>2, <1>6, KeptApart
  <2> QED BY <1>7, <1>13, <2>1
<1> QED BY <1>9, <1>12, <1>15, <1>16, LeakLess

(* The entry names what the call held.                                     *)
LEMMA WriteEntryLeaks ==
  ASSUME TypeInv, TypeInv', VolumeParts, VolumeParts', WriteEntry, UNCHANGED faults
  PROVE  Leaked' \subseteq Leaked
<1>0. Heads /\ CwdReach /\ CwdReach'
  BY DEF VolumeParts
<1> DEFINE k == IF req.op = "mkdir" THEN "dir" ELSE "file"
           new == Entry(k, req.key, head, req.size)
<1>1. /\ pc = "entry" /\ pc' = "idle" /\ UNCHANGED <<fat, cwd>> /\ found' = NoSlot
      /\ slot' = [slot EXCEPT ![target] = new]
      /\ target \in SlotIds /\ slot \in [SlotIds -> Records]
  <2>1. faults \in Nat
    BY InputAssumption DEF TypeInv, PastOK
  <2>2. slot' = [slot EXCEPT ![target] = new]
    BY <2>1 DEF WriteEntry
  <2> QED BY <2>2 DEF WriteEntry, Return, ClearLocals, memory, TypeInv, Stage, DiskOK
<1>2. Named(new) /\ new.first = head
  <2>1. req.key \in ShortNames
    BY <1>1 DEF TypeInv, Stage, Asked
  <2> QED BY <2>1 DEF Named, IsEntry, Entry
<1> HIDE DEF new, k
<1>3. \A s \in SlotIds : view[s] = slot[s] /\ view'[s] = slot'[s]
  BY <1>1 DEF view, View
<1>4. \A s \in Within(fat, view, {found}) : s # target
  <2>1. CASE found = NoSlot
    <3>1. IsVacant(view[target])
      BY <1>1, <1>3, <2>1 DEF VolumeParts, WalkSlot
    <3> QED BY <3>1 DEF Within, Named, IsEntry, IsVacant
  <2>2. CASE found # NoSlot
    BY <1>1, <2>2 DEF Within, TypeInv, Stage
  <2> QED BY <2>1, <2>2
<1>5. \A s \in Within(fat, view, {found}) : s # found' /\ view'[s] = view[s]
  BY <1>1, <1>3, <1>4, NoSlotApart DEF Within
<1>6. Lasting
  BY <1>5 DEF Lasting
<1>7. Kept(fat, view, {found}) \subseteq Kept(fat', view', {found'}) \cup {}
  BY <1>1, <1>5, KeptOn
<1>8. head \in Kept(fat', view', {found'})
  <2>1. cwd' \in Tree(fat', view', {found'})
    BY <1>0, KeptAfter
  <2>2. target \in Cells(fat', cwd')
    BY <1>1 DEF VolumeParts, WalkSlot, Cells, SlotIds
  <2>3. view'[target] = new /\ target \notin {found'}
    BY <1>1, <1>3, NoSlotApart
  <2>4. target \in Within(fat', view', {found'})
    BY <1>1, <1>2, <2>1, <2>2, <2>3 DEF Within
  <2> QED BY <1>2, <2>3, <2>4 DEF Kept
<1>9. \A x \in Trail(fat, head) : x \in NowUsed'
  BY <1>1, <1>8 DEF NowUsed, Use
<1>10. \A h \in Held \cup {} : \A x \in Trail(fat, h) : x \in NowUsed'
  BY <1>1, <1>9 DEF Held
<1> QED BY <1>1, <1>7, <1>10, LeakLess

(* One step, whichever it is, save the exceptions.                         *)
LEMMA LeakStep ==
  ASSUME TypeInv, VolumeInv, TypeInv', VolumeInv', [Next]_vars
  PROVE  \/ <<crashes, faults>>' # <<crashes, faults>>
         \/ torn'
         \/ found' # NoSlot /\ slot[found'].kind = "dir"
         \/ Leaked' \subseteq Leaked
<1> SUFFICES ASSUME ~ torn', UNCHANGED <<crashes, faults>>,
                    ~ (found' # NoSlot /\ slot[found'].kind = "dir")
             PROVE  Leaked' \subseteq Leaked
  OBVIOUS
<1>0. VolumeParts /\ VolumeParts' /\ ~ torn
  BY TornStays DEF VolumeInv
<1>1. CASE Call
  BY <1>0, <1>1, CallLeaks
<1>2. CASE FindHit
  BY <1>0, <1>2, FindHitLeaks
<1>3. CASE FindNext \/ FindMiss \/ SealFile \/ DataDone \/ SlotHit \/ SlotNext \/ SlotMiss
  BY <1>0, <1>3, MoveLeaks
<1>4. CASE FreeStep
  BY <1>0, <1>4, FreeStepLeaks
<1>5. CASE FreeDone
  BY <1>0, <1>5, FreeDoneLeaks
<1>6. CASE AllocFile \/ Extend
  BY <1>0, <1>6, AllocLeaks
<1>7. CASE LinkFile
  BY <1>0, <1>7, LinkFileLeaks
<1>8. CASE AllocFull
  BY <1>0, <1>8, AllocFullLeaks
<1>9. CASE WriteData \/ WriteDots
  BY <1>0, <1>9, WriteLeaks
<1>10. CASE ClearDir
  BY <1>0, <1>10, ClearDirLeaks
<1>11. CASE LinkDir
  BY <1>0, <1>11, LinkDirLeaks
<1>12. CASE WriteEntry
  BY <1>0, <1>12, WriteEntryLeaks
<1>13. CASE Crash
  <2>1. crashes \in Nat
    BY InputAssumption DEF TypeInv, PastOK
  <2> QED BY <1>13, <2>1 DEF Crash
<1>14. CASE UNCHANGED vars
  <2>1. /\ UNCHANGED <<fat, slot, pc, found, cur, head>>
    BY <1>14 DEF vars, disk, locals
  <2>2. view' = view /\ Held' = Held
    BY <2>1 DEF view, View, Held
  <2>3. Lasting
    BY <2>1, <2>2 DEF Lasting, Within
  <2> QED BY <1>0, <2>1, <2>2, <2>3, LeakGoOn
<1>15. ~ Reload
  BY <1>0 DEF Reload, TypeInv, OneTable
<1> QED BY <1>1, <1>2, <1>3, <1>4, <1>5, <1>6, <1>7, <1>8, <1>9, <1>10, <1>11, <1>12, <1>13, <1>14, <1>15
        DEF Next, Step

(* No call loses space: what was allocated belongs to a file, a directory  *)
(* or the running call afterwards, or is free again, also when the call    *)
(* fails halfway (fat32_write_file, fat32.c:403; fat32_make_directory,     *)
(* fat32.c:503), unless the machine stops, a write fails or a directory is *)
(* overwritten.                                                            *)
THEOREM LeaksOnly == Spec => LeakOnlyBy
<1>1. Init => TypeInv /\ VolumeInv
  BY TypeInit, VolumeInit DEF VolumeInv
<1>2. TypeInv /\ VolumeInv /\ [Next]_vars => (TypeInv /\ VolumeInv)'
  BY TypeStep, TornStays, VolumeStep DEF VolumeInv
<1> DEFINE Losing == \/ <<crashes, faults>>' # <<crashes, faults>>
                     \/ torn'
                     \/ found' # NoSlot /\ slot[found'].kind = "dir"
                     \/ Leaked' \subseteq Leaked
<1>3. TypeInv /\ VolumeInv /\ (TypeInv /\ VolumeInv)' /\ [Next]_vars => Losing
  BY LeakStep
<1> QED BY <1>1, <1>2, <1>3, PTL DEF Spec, LeakOnlyBy

-----------------------------------------------------------------------------
(* The entry being overwritten is what a lookup of the name finds; a file  *)
(* that is not overwritten is new.                                         *)
FoundKey ==
  found # NoSlot =>
    req.op = "write" /\ slot[found].name = req.key /\ First(fat, view, cwd, found)
KeyAbsent ==
  req.op = "write" /\ found = NoSlot /\ pc \notin {"idle", "find"} =>
    \A s \in Cells(fat, cwd) : ~ (IsEntry(view[s]) /\ view[s].name = req.key)

(* The first k chunks of x, or more, are in the records r of the chain of  *)
(* c, in order.                                                            *)
Has(f, r, c, k, x) ==
  \A i \in 1 .. k : \E b \in Trail(f, c) :
    /\ Cardinality(Trail(f, c) \ Trail(f, b)) = (i - 1) \div SlotsPerCluster
    /\ r[<<b, ((i - 1) % SlotsPerCluster) + 1>>] = Chunk(x, i)
DataInv ==
  /\ pc = "data" =>
       /\ Has(fat, slot, head, req.size - left, req.val)
       /\ left > 0 =>
            Cardinality(Trail(fat, head) \ Trail(fat, cur)) * SlotsPerCluster = req.size - left
  /\ req.op = "write" /\ pc \in {"slot", "extend", "elink", "clear", "entry"} =>
       Has(fat, slot, head, req.size, req.val)

(* All of it holds until the volume is torn.                               *)
Quest == FoundKey /\ KeyAbsent /\ DataInv
QuestInv == ~ torn => Quest

-----------------------------------------------------------------------------
(* The volume as its user sees it, in a table f with records v as a walk   *)
(* sees them and r as they are: the directories that lookups lead to, not  *)
(* through the slots of G, what a lookup finds and what that means.        *)
Near(f, v, G) == Reach(Ways(f, v, G))
Finds(f, v, d, n) == {s \in Cells(f, d) : IsEntry(v[s]) /\ v[s].name = n /\ First(f, v, d, s)}
(* One of the elements of S, the same one wherever it is taken.            *)
Pick(S) == CHOOSE s \in S : TRUE
(* What the entry e stands for: its directory, or the text its clusters    *)
(* hold, if they hold one.                                                 *)
Texts(f, r, e) == {x \in Values : Has(f, r, e.first, e.size, x)}
Means(f, r, e) ==
  IF e.kind = "dir" THEN Dir(e.first)
  ELSE IF e.size = 0 THEN File(Dot, 0)
  ELSE IF Texts(f, r, e) = {} THEN Lost
  ELSE File(Pick(Texts(f, r, e)), e.size)
(* What the names of directory d stand for; Blank is what those of a       *)
(* cluster that no lookup leads to stand for.                              *)
Shows(f, v, r, d) ==
  [n \in ShortNames |->
     IF Finds(f, v, d, n) = {} THEN Absent ELSE Means(f, r, v[Pick(Finds(f, v, d, n))])]
Blank == [n \in ShortNames |-> Absent]

(* No directory is being overwritten.                                      *)
Calm == found = NoSlot \/ ~ IsDir(view[found])

(* In a tidy directory a lookup finds what is first of its name.           *)
LEMMA LookupIs ==
  ASSUME NEW d, Tidy(fat, view, d), NEW n
  PROVE  Lookup(d, n) = Finds(fat, view, d, n)
<1> DEFINE S == {t \in Listed(d) : Matches(t, n)}
<1>1. \A t \in SlotIds : view[t] = View(t)
  BY DEF view
<1>2. S = {t \in Cells(fat, d) : IsEntry(view[t]) /\ view[t].name = n}
  BY <1>1, CellsIn, ListedIn, TidyListed DEF Matches
<1>3. S \in SUBSET SlotIds
  BY <1>2, CellsIn
<1>4. \A s \in S : First(fat, view, d, s) <=>
                     \A u \in S : (u[1] = s[1] => s[2] <= u[2]) /\ s[1] \notin Trail(fat, fat[u[1]])
  BY <1>2 DEF First
<1> HIDE DEF S
<1>5. \A s : s \in Behind({t[1] : t \in S}) <=> \E u \in S : s \in Trail(fat, fat[u[1]])
  BY ChainIs, TrailHas DEF Behind
<1>6. FirstOf[S] = {s \in S : First(fat, view, d, s)}
  BY <1>3, <1>4, <1>5 DEF FirstOf
<1>7. FirstOf[S] = Finds(fat, view, d, n)
  BY <1>2, <1>6 DEF Finds
<1> QED BY <1>7 DEF Lookup, S

(* What an entry means, for the model.                                     *)
LEMMA ContentIs ==
  \A e : Content(e) = Means(fat, slot, e)
<1> SUFFICES ASSUME NEW e PROVE Content(e) = Means(fat, slot, e)
  OBVIOUS
<1>1. \A x : Reads(e, x) <=> Has(fat, slot, e.first, e.size, x)
  BY ChainIs DEF Reads, Has
<1>2. {x \in Values : Reads(e, x)} = Texts(fat, slot, e)
  BY <1>1 DEF Texts
<1>3. (CHOOSE x \in {y \in Values : Reads(e, y)} : TRUE) = Pick({y \in Values : Reads(e, y)})
  BY DEF Pick
<1> QED BY <1>2, <1>3 DEF Content, Means

(* What a tidy directory shows.                                            *)
LEMMA ShownIs ==
  ASSUME NEW d, Tidy(fat, view, d)
  PROVE  Shown(d) = Shows(fat, view, slot, d)
<1>1. \A n : Lookup(d, n) = Finds(fat, view, d, n)
  BY LookupIs
<1>2. ASSUME NEW n, Finds(fat, view, d, n) # {}
      PROVE  View(CHOOSE s \in Lookup(d, n) : TRUE) = view[Pick(Finds(fat, view, d, n))]
  <2>1. Pick(Finds(fat, view, d, n)) \in Finds(fat, view, d, n)
    BY <1>2 DEF Pick
  <2>2. Pick(Finds(fat, view, d, n)) \in SlotIds
    BY <2>1, CellsIn DEF Finds
  <2>3. (CHOOSE s \in Lookup(d, n) : TRUE) = Pick(Lookup(d, n))
    BY DEF Pick
  <2>4. Pick(Lookup(d, n)) = Pick(Finds(fat, view, d, n))
    BY <1>1
  <2>5. \A s \in SlotIds : View(s) = view[s]
    BY DEF view
  <2> QED BY <2>2, <2>3, <2>4, <2>5
<1> QED BY <1>1, <1>2, ContentIs DEF Shown, Shows

(* Directories near the root are heads of chains and tidy.                 *)
LEMMA NearIn ==
  ASSUME TypeInv, Heads, DirInv
  PROVE  /\ Near(fat, view, {found}) \subseteq Tree(fat, view, {found})
         /\ \A d \in Near(fat, view, {found}) :
              /\ d \in Clusters /\ d \in DirHeads(view, {found}) /\ d \in Directories
              /\ Tidy(fat, view, d)
<1>1. Near(fat, view, {found}) \subseteq Tree(fat, view, {found})
  <2>1. Ways(fat, view, {found}) \subseteq Subs(fat, view, {found})
    BY DEF Ways, Subs, Doors, Sub
  <2>2. Near(fat, view, {found}) \in SUBSET Clusters
    BY DEF Near, Reach
  <2> QED BY <2>1, <2>2, WaysIn, ReachKept DEF Near, Tree
<1>2. \A d \in Near(fat, view, {found}) : d \in DirHeads(view, {found})
  BY ReachDirs DEF Near
<1>3. \A d \in DirHeads(view, {found}) : d \in Clusters /\ d \in Directories /\ Tidy(fat, view, d)
  BY DirHead, DirectoriesIn, DirsMost DEF DirInv, DirOK
<1> QED BY <1>1, <1>2, <1>3

(* The entry doors of a directory that is not being overwritten.           *)
LEMMA DoorsMost ==
  ASSUME TypeInv, NEW d
  PROVE  /\ Doors(fat, view, {found}, d) \subseteq Doors(fat, view, {}, d)
         /\ Calm => Doors(fat, view, {found}, d) = Doors(fat, view, {}, d)
<1>1. Doors(fat, view, {found}, d) \subseteq Doors(fat, view, {}, d)
  BY DEF Doors
<1>2. ASSUME Calm, NEW s \in Cells(fat, d), IsDir(view[s]) PROVE s # found
  BY <1>2, CellsIn, NoSlotApart DEF Calm
<1> QED BY <1>1, <1>2 DEF Doors

(* What the model calls live is near the root, or below a directory that   *)
(* is being overwritten.                                                   *)
LEMMA LiveIs ==
  ASSUME TypeInv, Heads, DirInv
  PROVE  /\ Near(fat, view, {found}) \subseteq LiveDirs
         /\ Calm => LiveDirs = Near(fat, view, {found})
         /\ LiveDirs \in SUBSET Clusters
<1> DEFINE R == UNION {{d} \X Enters(d) : d \in Directories}
           W == Ways(fat, view, {found})
           N == Near(fat, view, {found})
<1>1. ASSUME NEW d, Tidy(fat, view, d)
      PROVE  Enters(d) = Doors(fat, view, {}, d)
  <2>1. ASSUME NEW s \in Entries(d), View(s).kind = "dir", s \in Lookup(d, View(s).name)
        PROVE  View(s).first \in Doors(fat, view, {}, d)
    <3>1. s \in Cells(fat, d) /\ view[s] = View(s) /\ IsDir(view[s])
      BY <2>1, ListedIn DEF Entries, view, IsDir
    <3>2. First(fat, view, d, s)
      BY <1>1, <2>1, LookupIs DEF Finds
    <3> QED BY <3>1, <3>2 DEF Doors
  <2>2. ASSUME NEW s \in Cells(fat, d), IsDir(view[s]), First(fat, view, d, s)
        PROVE  view[s].first \in Enters(d)
    <3>1. view[s] = View(s) /\ IsEntry(View(s)) /\ Named(View(s)) /\ View(s).kind = "dir"
      BY <2>2, CellsIn DEF view, IsDir, Named
    <3>2. s \in Entries(d)
      BY <1>1, <3>1, TidyListed DEF Entries
    <3>3. s \in Lookup(d, View(s).name)
      BY <1>1, <2>2, <3>1, LookupIs DEF Finds
    <3> QED BY <3>1, <3>2, <3>3 DEF Enters
  <2> QED BY <2>1, <2>2 DEF Enters, Doors
<1>2. ASSUME NEW d, NEW q \in Enters(d) PROVE q \in Clusters
  <2>1. PICK s \in Entries(d) : View(s).kind = "dir" /\ q = View(s).first
    BY DEF Enters
  <2>2. s \in SlotIds /\ IsDir(view[s]) /\ q = view[s].first
    BY <2>1, ListedIn DEF Entries, IsDir, view
  <2> QED BY <2>2, ViewIn
<1>3. R \in SUBSET Pairs /\ W \in SUBSET Pairs
  BY <1>2, DirectoriesIn, WaysIn DEF Pairs
<1>4. LiveDirs = Reach(R)
  BY <1>3, ReachIs DEF LiveDirs
<1>5. ASSUME NEW r \in W, r[1] \in N PROVE r \in R
  <2>1. PICK d \in Clusters : r \in {d} \X Doors(fat, view, {found}, d)
    BY DEF Ways
  <2>2. r[1] = d /\ d \in N /\ d \in Directories /\ Tidy(fat, view, d)
    BY <1>5, <2>1, NearIn
  <2>3. r[2] \in Enters(d)
    BY <1>1, <2>1, <2>2, DoorsMost
  <2> QED BY <2>1, <2>2, <2>3
<1>6. ASSUME Calm, NEW r \in R, r[1] \in N PROVE r \in W
  <2>1. PICK d \in Directories : r \in {d} \X Enters(d)
    OBVIOUS
  <2>2. d \in N /\ d \in Clusters /\ Tidy(fat, view, d)
    BY <1>6, <2>1, NearIn
  <2>3. r \in {d} \X Doors(fat, view, {found}, d)
    BY <1>1, <1>6, <2>1, <2>2, DoorsMost
  <2> QED BY <2>2, <2>3 DEF Ways
<1>7. N \in SUBSET Clusters /\ RootCluster \in N
  BY ReachHas DEF Near, Reach
<1> HIDE DEF R, W
<1>8. N = Reach(W)
  BY DEF Near, W
<1>9. N \subseteq Reach(R)
  BY <1>3, <1>5, <1>8, ReachKept
<1>10. ASSUME Calm PROVE Reach(R) \subseteq N
  <2>1. \A r \in R : r[1] \in N => r[2] \in N
    BY <1>3, <1>6, <1>8, <1>10, ReachNext
  <2> HIDE DEF N
  <2> QED BY <1>7, <2>1, ReachLeast
<1>11. Reach(R) \in SUBSET Clusters
  BY DEF Reach
<1> QED BY <1>4, <1>9, <1>10, <1>11

(* The volume the model shows its user.                                    *)
LEMMA StoreIs ==
  TypeInv /\ Heads /\ DirInv =>
    /\ \A d \in Near(fat, view, {found}) : Store[d] = Shows(fat, view, slot, d)
    /\ Calm => \A d \in Clusters \ Near(fat, view, {found}) : Store[d] = Blank
    /\ Store = [d \in Clusters |-> Store[d]]
<1> SUFFICES ASSUME TypeInv, Heads, DirInv
             PROVE  /\ \A d \in Near(fat, view, {found}) : Store[d] = Shows(fat, view, slot, d)
                    /\ Calm => \A d \in Clusters \ Near(fat, view, {found}) : Store[d] = Blank
                    /\ Store = [d \in Clusters |-> Store[d]]
  OBVIOUS
<1>1. LiveDirs \in SUBSET Clusters
  BY LiveIs
<1>2. Store = [d \in Clusters |-> IF d \in LiveDirs THEN Shown(d) ELSE Blank]
  BY <1>1 DEF Store, Blank
<1>3. \A d \in Near(fat, view, {found}) : Store[d] = Shows(fat, view, slot, d)
  BY <1>2, LiveIs, NearIn, ShownIs
<1>4. Calm => \A d \in Clusters \ Near(fat, view, {found}) : Store[d] = Blank
  BY <1>2, LiveIs
<1> QED BY <1>2, <1>3, <1>4

-----------------------------------------------------------------------------
(* Of two clusters of a chain one comes after the other.                   *)
LEMMA TrailLinear ==
  ASSUME NEW f, NEW d \in Clusters, NEW x \in Trail(f, d), NEW y \in Trail(f, d), x # y
  PROVE  x \in Trail(f, f[y]) \/ y \in Trail(f, f[x])
<1> DEFINE S == {z \in Trail(f, d) : z \in Trail(f, y) \/ y \in Trail(f, z)}
<1>1. d \in S /\ S \in SUBSET Clusters
  BY TrailHas
<1>2. ASSUME NEW z \in S, f[z] \in Clusters PROVE f[z] \in S
  <2>1. f[z] \in Trail(f, d)
    BY <1>2, TrailNext DEF Closed
  <2>2. CASE z \in Trail(f, y)
    BY <1>2, <2>1, <2>2, TrailNext DEF Closed
  <2>3. CASE y \in Trail(f, z) /\ y # z
    <3>1. y \in Trail(f, f[z])
      BY <2>3, TrailSplit, TrailHas
    <3> QED BY <2>1, <3>1
  <2>4. CASE y = z
    <3>1. f[z] \in Trail(f, z)
      BY <1>2, TrailHas, TrailNext DEF Closed
    <3> QED BY <2>1, <2>4, <3>1
  <2> QED BY <2>2, <2>3, <2>4
<1> HIDE DEF S
<1>3. Trail(f, d) \subseteq S
  BY <1>1, <1>2, TrailLeast DEF Closed
<1>4. x \in Clusters /\ y \in Clusters /\ (x \in Trail(f, y) \/ y \in Trail(f, x))
  BY <1>3, TrailHas DEF S
<1> QED BY <1>4, TrailSplit

(* No two entries of a directory are the first of their name.              *)
LEMMA FindsOne ==
  ASSUME NEW f, NEW v, NEW d, NEW n, NEW s \in Finds(f, v, d, n), NEW t \in Finds(f, v, d, n)
  PROVE  s = t
<1>1. /\ s[1] \in Trail(f, d) /\ s[2] \in Indices /\ s = <<s[1], s[2]>>
      /\ t[1] \in Trail(f, d) /\ t[2] \in Indices /\ t = <<t[1], t[2]>>
  BY DEF Finds, Cells
<1>2. /\ s[1] = t[1] => s[2] <= t[2] /\ t[2] <= s[2]
      /\ s[1] \notin Trail(f, f[t[1]]) /\ t[1] \notin Trail(f, f[s[1]])
  BY DEF Finds, First
<1>3. d \in Clusters
  BY <1>1, TrailHas
<1>4. s[1] = t[1]
  BY <1>1, <1>2, <1>3, TrailLinear
<1>5. s[2] = t[2]
  BY <1>1, <1>2, <1>4, Apart
<1> QED BY <1>1, <1>4, <1>5

(* What is found is the one there is.                                      *)
LEMMA FindsIs ==
  ASSUME NEW f, NEW v, NEW r, NEW d, NEW n \in ShortNames, NEW s \in Finds(f, v, d, n)
  PROVE  Finds(f, v, d, n) = {s} /\ Shows(f, v, r, d)[n] = Means(f, r, v[s])
<1>1. Finds(f, v, d, n) = {s}
  BY FindsOne
<1>2. Pick({s}) = s
  <2>1. Pick({s}) \in {s}
    BY DEF Pick
  <2> QED BY <2>1
<1> QED BY <1>1, <1>2 DEF Shows

(* Where some entry has the name, one is found.                            *)
LEMMA FindsSome ==
  ASSUME NEW f, Single(f), NEW d \in Clusters, NoPred(f, d), NEW v, NEW n,
         NEW s \in Cells(f, d), IsEntry(v[s]), v[s].name = n
  PROVE  Finds(f, v, d, n) # {}
<1> DEFINE M == {t \in Cells(f, d) : IsEntry(v[t]) /\ v[t].name = n}
           L(t) == Cardinality(Trail(f, d) \ Trail(f, t[1]))
           K == {L(t) : t \in M}
<1>1. \A c : IsFiniteSet(Trail(f, d) \ Trail(f, c))
  BY ClusterCount, TrailHas, FS_Subset
<1>2. K \in SUBSET Nat /\ K # {}
  BY <1>1, FS_CardinalityType
<1>3. PICK k \in K : \A j \in K : k <= j
  <2> HIDE DEF K
  <2> QED BY <1>2, Least
<1>4. PICK t \in M : L(t) = k
  BY <1>3
<1>5. t \in Cells(f, d) /\ t[1] \in Trail(f, d) /\ t[2] \in Indices
  BY DEF Cells
<1>6. ASSUME NEW u \in M PROVE t[1] \notin Trail(f, f[u[1]])
  <2> SUFFICES ASSUME t[1] \in Trail(f, f[u[1]]) PROVE FALSE
    OBVIOUS
  <2>1. u[1] \in Trail(f, d) /\ u[1] \in Clusters
    BY TrailHas DEF Cells
  <2>2. u[1] \notin Trail(f, f[u[1]])
    BY <2>1, TrailAcyclic
  <2>3. Trail(f, t[1]) \subseteq Trail(f, f[u[1]])
    BY TrailSub
  <2>4. Trail(f, f[u[1]]) \subseteq Trail(f, u[1]) /\ u[1] \in Trail(f, u[1])
    BY <2>1, TrailHas, TrailRest
  <2> DEFINE A == Trail(f, d) \ Trail(f, u[1])
             B == Trail(f, d) \ Trail(f, t[1])
  <2>5. A \subseteq B /\ u[1] \in B /\ u[1] \notin A
    BY <2>1, <2>2, <2>3, <2>4
  <2>6. t[1] \in Trail(f, u[1])
    BY <2>4
  <2>7. IsFiniteSet(B) /\ IsFiniteSet(A)
    BY <1>1
  <2> HIDE DEF A, B
  <2>8. Cardinality(A) < Cardinality(B)
    <3>1. Cardinality(A) <= Cardinality(B) /\ (Cardinality(A) = Cardinality(B) => A = B)
      BY <2>5, <2>7, FS_Subset
    <3> QED BY <2>5, <2>7, <3>1, FS_CardinalityType
  <2>9. L(u) \in K /\ L(u) = Cardinality(A) /\ L(t) = Cardinality(B)
    BY DEF A, B
  <2>10. L(t) <= L(u)
    BY <1>3, <1>4, <2>9
  <2>11. Cardinality(A) \in Nat /\ Cardinality(B) \in Nat
    BY <2>7, FS_CardinalityType
  <2>12. Cardinality(B) <= Cardinality(A)
    BY <2>9, <2>10
  <2> HIDE DEF L, K, M
  <2> QED BY <2>8, <2>11, <2>12
<1> DEFINE I == {m \in Indices : <<t[1], m>> \in M}
<1>7. I \in SUBSET Nat /\ I # {}
  BY <1>4, <1>5, Apart DEF Cells
<1>8. PICK m \in I : \A j \in I : m <= j
  <2> HIDE DEF I
  <2> QED BY <1>7, Least
<1> DEFINE w == <<t[1], m>>
<1>9. w \in M /\ w[1] = t[1] /\ w[2] = m
  OBVIOUS
<1>10. ASSUME NEW u \in M PROVE u[1] = w[1] => w[2] <= u[2]
  <2>1. u = <<u[1], u[2]>> /\ u[2] \in Indices
    BY DEF Cells
  <2> QED BY <1>8, <1>9, <2>1
<1>11. First(f, v, d, w)
  BY <1>6, <1>9, <1>10 DEF First
<1>12. w \in Finds(f, v, d, n)
  BY <1>9, <1>11 DEF Finds
<1> QED BY <1>12

-----------------------------------------------------------------------------
(* The place of a record within its cluster.                               *)
LEMMA PlaceIn ==
  ASSUME NEW i \in Nat \ {0}
  PROVE  ((i - 1) % SlotsPerCluster) + 1 \in Indices /\ (i - 1) \div SlotsPerCluster \in Nat
BY VolumeAssumption DEF Indices

(* Data stays where neither the chain nor its records change.              *)
LEMMA HasSame ==
  ASSUME NEW f, NEW g, NEW r, NEW q, NEW c,
         \A x \in Trail(f, c) : g[x] = f[x], \A s \in Cells(f, c) : q[s] = r[s]
  PROVE  \A k \in Nat : \A x : Has(g, q, c, k, x) <=> Has(f, r, c, k, x)
<1>1. Trail(g, c) = Trail(f, c)
  BY TrailSame
<1>2. \A b \in Trail(f, c) : Trail(g, b) = Trail(f, b)
  <2> SUFFICES ASSUME NEW b \in Trail(f, c) PROVE Trail(g, b) = Trail(f, b)
    OBVIOUS
  <2>1. Trail(f, b) \subseteq Trail(f, c)
    BY TrailSub
  <2> QED BY <2>1, TrailSame
<1>3. ASSUME NEW b \in Trail(f, c), NEW i \in Nat \ {0}
      PROVE  q[<<b, ((i - 1) % SlotsPerCluster) + 1>>] = r[<<b, ((i - 1) % SlotsPerCluster) + 1>>]
  BY PlaceIn DEF Cells
<1> SUFFICES ASSUME NEW k \in Nat, NEW x PROVE Has(g, q, c, k, x) <=> Has(f, r, c, k, x)
  OBVIOUS
<1>4. \A i \in 1 .. k : i \in Nat \ {0}
  OBVIOUS
<1> QED BY <1>1, <1>2, <1>3, <1>4 DEF Has

(* So does what an entry means.                                            *)
LEMMA MeansSame ==
  ASSUME NEW f, NEW g, NEW r, NEW q, NEW e, e.size \in Nat,
         e.kind # "dir" => /\ \A x \in Trail(f, e.first) : g[x] = f[x]
                           /\ \A s \in Cells(f, e.first) : q[s] = r[s]
  PROVE  Means(g, q, e) = Means(f, r, e)
<1>1. CASE e.kind = "dir"
  BY <1>1 DEF Means
<1>2. CASE e.kind # "dir"
  <2>1. Texts(g, q, e) = Texts(f, r, e)
    BY <1>2, HasSame DEF Texts
  <2> QED BY <2>1 DEF Means
<1> QED BY <1>1, <1>2

(* Some value is always meant.                                             *)
LEMMA MeansSome ==
  ASSUME NEW f, NEW r, NEW e
  PROVE  /\ Means(f, r, e) # Absent
         /\ Means(f, r, e).kind = "dir" => e.kind = "dir" /\ Means(f, r, e) = Dir(e.first)
BY DEF Means, Absent, Dir, File, Lost

(* The same pairs lead to the same places.                                 *)
LEMMA ReachSame ==
  ASSUME NEW R \in SUBSET Pairs, NEW Q, \A r \in R : r[1] \in Reach(R) => r \in Q,
         \A r \in Q : r[1] \in Reach(R) => r \in R
  PROVE  Reach(Q) = Reach(R)
<1>1. Reach(R) \subseteq Reach(Q)
  BY ReachKept
<1>2. Reach(R) \in SUBSET Clusters
  BY DEF Reach
<1>3. \A r \in Q : r[1] \in Reach(R) => r[2] \in Reach(R)
  BY ReachNext
<1>4. Reach(Q) \subseteq Reach(R)
  BY <1>2, <1>3, ReachHas, ReachLeast
<1> QED BY <1>1, <1>4

(* The volume shown does not change while the disk stays as the walks see  *)
(* it.                                                                     *)
LEMMA StoreSame ==
  ASSUME UNCHANGED <<fat, slot>>, (pc # "clear" /\ pc' # "clear") \/ UNCHANGED <<pc, cur>>
  PROVE  Store' = Store
<1>1. \A s : View(s)' = View(s)
  BY DEF View
<1>2. \A c : Chain(c)' = Chain(c)
  BY ChainIs
<1>3. \A S : Behind(S)' = Behind(S)
  BY <1>2 DEF Behind
<1>4. \A c : Ends(c)' = Ends(c)
  BY <1>1 DEF Ends
<1>5. \A d : Listed(d)' = Listed(d)
  BY <1>1, <1>2, <1>3, <1>4 DEF Listed
<1>6. \A d : Entries(d)' = Entries(d)
  BY <1>1, <1>5 DEF Entries
<1>7. \A d, n : Lookup(d, n)' = Lookup(d, n)
  BY <1>1, <1>3, <1>5 DEF Lookup, Matches, FirstOf
<1>8. \A d : Shown(d)' = Shown(d)
  <2> SUFFICES ASSUME NEW d PROVE Shown(d)' = Shown(d)
    OBVIOUS
  <2>1. (\A e : Content(e) = Means(fat, slot, e))'
    BY ContentIs, PTL
  <2>2. \A e : Content(e)' = Content(e)
    BY <2>1, ContentIs
  <2>3. \A n : Pick(Lookup(d, n))' = Pick(Lookup(d, n))
    BY <1>7
  <2>4. \A n : /\ (CHOOSE s \in Lookup(d, n) : TRUE) = Pick(Lookup(d, n))
               /\ (CHOOSE s \in Lookup(d, n)' : TRUE) = Pick(Lookup(d, n)')
    BY DEF Pick
  <2>5. \A n : Content(View(CHOOSE s \in Lookup(d, n) : TRUE))' = Content(View(CHOOSE s \in Lookup(d, n) : TRUE))
    BY <1>1, <2>2, <2>3, <2>4
  <2>6. \A n : (Lookup(d, n) = {})' <=> Lookup(d, n) = {}
    BY <1>7
  <2> QED BY <2>5, <2>6 DEF Shown
<1>9. \A d : Enters(d)' = Enters(d)
  BY <1>1, <1>6, <1>7 DEF Enters
<1>10. Directories' = Directories
  BY DEF Directories, Named
<1>11. LiveDirs' = LiveDirs
  BY <1>9, <1>10 DEF LiveDirs
<1> QED BY <1>8, <1>11 DEF Store

-----------------------------------------------------------------------------
(* Table g, with records w as a walk sees them and q as they are, agrees   *)
(* with the volume on the directories and files of the tree.               *)
Agrees(g, q, c) ==
  (\A x \in Trail(fat, c) : g[x] = fat[x]) /\ (\A s \in Cells(fat, c) : q[s] = slot[s])
Around(g, w, q) ==
  /\ \A d \in Tree(fat, view, {found}) :
       (\A x \in Trail(fat, d) : g[x] = fat[x]) /\ (\A s \in Cells(fat, d) : w[s] = view[s])
  /\ \A t \in Within(fat, view, {found}) : view[t].kind # "dir" => Agrees(g, q, view[t].first)

(* A lookup finds the same in a directory that is the same.                *)
LEMMA FindsSame ==
  ASSUME NEW f, NEW g, NEW v, NEW w, NEW d,
         \A x \in Trail(f, d) : g[x] = f[x], \A s \in Cells(f, d) : w[s] = v[s]
  PROVE  \A n : Finds(g, w, d, n) = Finds(f, v, d, n)
<1>1. /\ Cells(g, d) = Cells(f, d)
      /\ \A t \in Cells(f, d) : First(g, w, d, t) <=> First(f, v, d, t)
  BY FirstSame
<1> QED BY <1>1 DEF Finds

(* Then it shows the same, but for the name that is being overwritten.     *)
LEMMA AroundShows ==
  ASSUME TypeInv, Heads, DirInv, NEW g, NEW w, NEW q, Around(g, w, q)
  PROVE  /\ Near(g, w, {found}) = Near(fat, view, {found})
         /\ \A d \in Near(fat, view, {found}), n \in ShortNames :
              /\ Finds(g, w, d, n) = Finds(fat, view, d, n)
              /\ found \notin Finds(fat, view, d, n) => Shows(g, w, q, d)[n] = Shows(fat, view, slot, d)[n]
<1> DEFINE N == Near(fat, view, {found})
           W == Ways(fat, view, {found})
           V == Ways(g, w, {found})
<1>1. \A d \in N : /\ d \in Clusters
                   /\ \A x \in Trail(fat, d) : g[x] = fat[x]
                   /\ \A s \in Cells(fat, d) : w[s] = view[s]
  BY NearIn DEF Around
<1>2. \A d \in N : Doors(g, w, {found}, d) = Doors(fat, view, {found}, d)
  BY <1>1, DoorsSame
<1>3. \A r : r[1] \in N => (r \in W <=> r \in V)
  BY <1>2 DEF Ways
<1>4. Near(g, w, {found}) = N
  <2>1. W \in SUBSET Pairs
    BY WaysIn
  <2> HIDE DEF W, V
  <2>2. N = Reach(W) /\ Near(g, w, {found}) = Reach(V)
    BY DEF Near, W, V
  <2> HIDE DEF N
  <2> QED BY <1>3, <2>1, <2>2, ReachSame
<1>5. ASSUME NEW d \in N, NEW n \in ShortNames
      PROVE  Finds(g, w, d, n) = Finds(fat, view, d, n)
  <2>1. /\ \A x \in Trail(fat, d) : g[x] = fat[x]
        /\ \A s \in Cells(fat, d) : w[s] = view[s]
    BY <1>1
  <2>2. \A m : Finds(g, w, d, m) = Finds(fat, view, d, m)
    BY <2>1, FindsSame
  <2> QED BY <2>2
<1>6. ASSUME NEW d \in N, NEW n \in ShortNames, found \notin Finds(fat, view, d, n)
      PROVE  Shows(g, w, q, d)[n] = Shows(fat, view, slot, d)[n]
  <2>1. CASE Finds(fat, view, d, n) = {}
    BY <1>5, <2>1 DEF Shows
  <2>2. ASSUME NEW s \in Finds(fat, view, d, n)
        PROVE  Shows(g, w, q, d)[n] = Shows(fat, view, slot, d)[n]
    <3>1. s \in Cells(fat, d) /\ s \in SlotIds /\ s # found /\ Named(view[s])
      BY <1>6, CellsIn DEF Finds, Named
    <3>2. s \in Within(fat, view, {found}) /\ w[s] = view[s]
      BY <1>1, <3>1, NearIn DEF Within
    <3>3. view[s].size \in Nat
      BY <3>1, ViewIn DEF Named, IsEntry, Records, End, Deleted
    <3>4. Means(g, q, view[s]) = Means(fat, slot, view[s])
      <4>1. view[s].kind # "dir" => Agrees(g, q, view[s].first)
        BY <3>2 DEF Around
      <4> QED BY <3>3, <4>1, MeansSame DEF Agrees
    <3>5. s \in Finds(g, w, d, n)
      BY <1>5
    <3>6. Shows(g, w, q, d)[n] = Means(g, q, w[s])
      BY <3>5, FindsIs
    <3>7. Shows(fat, view, slot, d)[n] = Means(fat, slot, view[s])
      BY FindsIs
    <3> QED BY <3>2, <3>4, <3>6, <3>7
  <2> QED BY <2>1, <2>2
<1> QED BY <1>4, <1>5, <1>6

(* A volume where lookups find the same shows the same, but for what the   *)
(* name k holds, if that leads nowhere before and after.                   *)
Alike(g, w, q, G, k) ==
  /\ \A d \in Near(fat, view, {found}), n \in ShortNames : <<d, n>> # k =>
       /\ Finds(g, w, d, n) = Finds(fat, view, d, n)
       /\ \A s \in Finds(fat, view, d, n) : s # found /\ s \notin G /\ w[s] = view[s]
  /\ \A d \in Near(fat, view, {found}), n \in ShortNames : <<d, n>> = k =>
       /\ Finds(fat, view, d, n) \subseteq {found}
       /\ \A s \in Finds(g, w, d, n) : s \in G \/ ~ IsDir(w[s])
  /\ \A t \in Within(fat, view, {found}) : view[t].kind # "dir" => Agrees(g, q, view[t].first)

(* Lookups lead to the same directories and, except for the key k, show    *)
(* the same in them when the volume is alike.                              *)
LEMMA SameShows ==
  ASSUME TypeInv, Heads, DirInv, NEW g, NEW w, NEW q, NEW G, NEW k, Alike(g, w, q, G, k)
  PROVE  /\ Near(g, w, G) = Near(fat, view, {found})
         /\ \A d \in Near(fat, view, {found}), n \in ShortNames : <<d, n>> # k =>
              Shows(g, w, q, d)[n] = Shows(fat, view, slot, d)[n]
<1> USE DEF Alike
<1> DEFINE N == Near(fat, view, {found})
           W == Ways(fat, view, {found})
           V == Ways(g, w, G)
<1>1. ASSUME NEW f, NEW v, NEW H, NEW d, NEW c
      PROVE  c \in Doors(f, v, H, d) <=>
               \E n \in ShortNames : \E s \in Finds(f, v, d, n) : s \notin H /\ IsDir(v[s]) /\ c = v[s].first
  <2>1. ASSUME NEW s \in Cells(f, d) \ H, IsDir(v[s]), First(f, v, d, s)
        PROVE  v[s].name \in ShortNames /\ s \in Finds(f, v, d, v[s].name)
    BY <2>1 DEF Finds, IsDir, Named
  <2>2. ASSUME NEW n \in ShortNames, NEW s \in Finds(f, v, d, n) PROVE s \in Cells(f, d) /\ First(f, v, d, s)
    BY DEF Finds
  <2> QED BY <2>1, <2>2 DEF Doors
<1>2. ASSUME NEW d \in N, NEW c PROVE c \in Doors(g, w, G, d) <=> c \in Doors(fat, view, {found}, d)
  <2>1. ASSUME NEW n \in ShortNames
        PROVE  (\E s \in Finds(g, w, d, n) : s \notin G /\ IsDir(w[s]) /\ c = w[s].first) <=>
               (\E s \in Finds(fat, view, d, n) : s \notin {found} /\ IsDir(view[s]) /\ c = view[s].first)
    <3>1. CASE <<d, n>> = k
      BY <3>1
    <3>2. CASE <<d, n>> # k
      BY <3>2
    <3> QED BY <3>1, <3>2
  <2> QED BY <1>1, <2>1
<1>3. \A r : r[1] \in N => (r \in W <=> r \in V)
  <2>1. \A d \in N : Doors(g, w, G, d) = Doors(fat, view, {found}, d)
    BY <1>2
  <2> QED BY <2>1 DEF Ways
<1>4. Near(g, w, G) = N
  <2>1. W \in SUBSET Pairs
    BY WaysIn
  <2> HIDE DEF W, V
  <2>2. N = Reach(W) /\ Near(g, w, G) = Reach(V)
    BY DEF Near, W, V
  <2> HIDE DEF N
  <2> QED BY <1>3, <2>1, <2>2, ReachSame
<1>5. ASSUME NEW d \in N, NEW n \in ShortNames, <<d, n>> # k
      PROVE  Shows(g, w, q, d)[n] = Shows(fat, view, slot, d)[n]
  <2>1. Finds(g, w, d, n) = Finds(fat, view, d, n)
    BY <1>5
  <2>2. CASE Finds(fat, view, d, n) = {}
    BY <2>1, <2>2 DEF Shows
  <2>3. ASSUME NEW s \in Finds(fat, view, d, n)
        PROVE  Shows(g, w, q, d)[n] = Shows(fat, view, slot, d)[n]
    <3>1. s \in Cells(fat, d) /\ s \in SlotIds /\ s # found /\ Named(view[s]) /\ w[s] = view[s]
      BY <1>5, CellsIn DEF Finds, Named
    <3>2. s \in Within(fat, view, {found})
      BY <3>1, NearIn DEF Within
    <3>3. view[s].size \in Nat
      BY <3>1, ViewIn DEF Named, IsEntry, Records, End, Deleted
    <3>4. Means(g, q, view[s]) = Means(fat, slot, view[s])
      <4>1. view[s].kind # "dir" => Agrees(g, q, view[s].first)
        BY <3>2
      <4> QED BY <3>3, <4>1, MeansSame DEF Agrees
    <3>5. Shows(g, w, q, d)[n] = Means(g, q, w[s])
      BY <2>1, FindsIs
    <3>6. Shows(fat, view, slot, d)[n] = Means(fat, slot, view[s])
      BY FindsIs
    <3> QED BY <3>1, <3>4, <3>5, <3>6
  <2> QED BY <2>2, <2>3
<1> QED BY <1>4, <1>5

(* A cluster that is free, or of a chain that the call holds.              *)
Spare(c) == c \in Clusters /\ (fat[c] = Free \/ \E h \in Holding \cap Clusters : c \in Trail(fat, h))

(* It is of no chain on the volume.                                        *)
LEMMA SpareApart ==
  ASSUME TypeInv, Heads, NEW c, Spare(c), NEW h \in Kept(fat, view, {found})
  PROVE  c \notin Trail(fat, h)
<1>1. h \in Clusters \/ Trail(fat, h) = {}
  BY TrailHas
<1>2. h \in Clusters => c \notin Trail(fat, h)
  BY KeptApart DEF Spare
<1> QED BY <1>1, <1>2

(* So the volume is the same without it.                                   *)
LEMMA SpareAround ==
  ASSUME TypeInv, Heads, NEW c, Spare(c), NEW g, NEW w, NEW q,
         \A x \in Clusters \ {c} : g[x] = fat[x],
         \A s \in SlotIds : s[1] # c => q[s] = slot[s] /\ w[s] = view[s]
  PROVE  /\ Around(g, w, q)
         /\ \A d \in Tree(fat, view, {found}) : Agrees(g, q, d)
<1>1. ASSUME NEW h \in Kept(fat, view, {found})
      PROVE  /\ \A x \in Trail(fat, h) : g[x] = fat[x]
             /\ \A s \in Cells(fat, h) : q[s] = slot[s] /\ w[s] = view[s]
  <2>1. c \notin Trail(fat, h)
    BY SpareApart
  <2>2. \A s \in Cells(fat, h) : s \in SlotIds /\ s[1] # c
    BY <2>1, CellsIn DEF Cells
  <2> QED BY <2>1, <2>2, TrailHas
<1>2. Tree(fat, view, {found}) \subseteq Kept(fat, view, {found})
  BY SubsIn, TreeIn
<1>3. \A t \in Within(fat, view, {found}) : view[t].first \in Kept(fat, view, {found})
  BY DEF Kept
<1> QED BY <1>1, <1>2, <1>3 DEF Around, Agrees

(* Only the name that is being overwritten leads to its entry.             *)
LEMMA FoundOnly ==
  ASSUME TypeInv, VolumeParts, FoundKey, found # NoSlot
  PROVE  /\ found \in Finds(fat, view, cwd, req.key)
         /\ \A d \in Near(fat, view, {found}), n \in ShortNames :
              found \in Finds(fat, view, d, n) => d = cwd /\ n = req.key
         /\ found \in SlotIds /\ view[found] = slot[found] /\ req.key \in ShortNames
<1>1. pc # "clear" /\ found \in SlotIds /\ req.key \in ShortNames
  BY DEF TypeInv, Stage, LocalsOK, Asked, FoundKey
<1>2. view[found] = slot[found]
  BY <1>1 DEF view, View
<1>3. found \in Cells(fat, cwd) /\ IsEntry(slot[found])
  <2>1. found[1] \in Trail(fat, cwd) /\ Named(slot[found])
    BY DEF VolumeParts, WalkFound
  <2> QED BY <1>1, <2>1 DEF Cells, SlotIds, Named
<1>4. found \in Finds(fat, view, cwd, req.key)
  BY <1>2, <1>3 DEF Finds, FoundKey
<1>5. ASSUME NEW d \in Near(fat, view, {found}), NEW n \in ShortNames, found \in Finds(fat, view, d, n)
      PROVE  d = cwd /\ n = req.key
  <2>1. Heads /\ DirInv /\ cwd \in DirHeads(view, {found})
    BY CwdDir DEF VolumeParts
  <2>2. d \in DirHeads(view, {found})
    BY <2>1, NearIn
  <2>3. found[1] \in Trail(fat, d) /\ found[1] \in Trail(fat, cwd) /\ view[found].name = n
    BY <1>3, <1>5 DEF Finds, Cells
  <2>4. d = cwd
    BY <2>1, <2>2, <2>3, DirsApart
  <2> QED BY <1>2, <2>3, <2>4 DEF FoundKey
<1> QED BY <1>1, <1>2, <1>4, <1>5

-----------------------------------------------------------------------------
(* A record that shows a directory leads on, unless it is the one being    *)
(* overwritten.                                                            *)
LEMMA ShowsWay ==
  ASSUME TypeInv, Heads, DirInv, NEW d \in Near(fat, view, {found}), NEW n \in ShortNames,
         Shows(fat, view, slot, d)[n] # Absent, Shows(fat, view, slot, d)[n].kind = "dir",
         found \notin Finds(fat, view, d, n)
  PROVE  Shows(fat, view, slot, d)[n].at \in Near(fat, view, {found})
<1>1. PICK s : s \in Finds(fat, view, d, n)
  BY DEF Shows
<1>2. Shows(fat, view, slot, d)[n] = Means(fat, slot, view[s])
  BY <1>1, FindsIs
<1>3. view[s].kind = "dir" /\ Shows(fat, view, slot, d)[n] = Dir(view[s].first)
  BY <1>2, MeansSome
<1>4. Shows(fat, view, slot, d)[n].at = view[s].first
  BY <1>3 DEF Dir
<1>5. s \in Cells(fat, d) /\ s # found /\ First(fat, view, d, s) /\ IsDir(view[s])
  BY <1>1, <1>3 DEF Finds, IsDir, Named
<1>6. d \in Clusters /\ <<d, view[s].first>> \in Ways(fat, view, {found})
  BY <1>5, NearIn DEF Ways, Doors
<1>7. view[s].first \in Near(fat, view, {found})
  <2>1. <<d, view[s].first>>[1] = d /\ <<d, view[s].first>>[2] = view[s].first
    OBVIOUS
  <2> QED BY <1>6, <2>1, WaysIn, ReachNext DEF Near
<1> QED BY <1>4, <1>7

(* What a user comes to without the running call's name is near the root.  *)
LEMMA OthersNear ==
  ASSUME TypeInv, VolumeParts, FoundKey, found # NoSlot
  PROVE  Abstract!Others(Store) \subseteq Near(fat, view, {found})
<1> DEFINE N == Near(fat, view, {found})
<1>1. Heads /\ DirInv /\ Running
  BY DEF VolumeParts, TypeInv, Stage, Running, FoundKey
<1>2. N \in SUBSET Clusters /\ RootCluster \in N
  BY ReachHas DEF Near, Reach
<1>3. ASSUME NEW p \in N, NEW n \in ShortNames, <<p, n>> # <<cwd, req.key>>,
             Store[p][n] # Absent, Store[p][n].kind = "dir"
      PROVE  Store[p][n].at \in N
  <2>1. found \notin Finds(fat, view, p, n)
    BY <1>3, FoundOnly
  <2>2. Store[p][n] = Shows(fat, view, slot, p)[n]
    BY <1>1, StoreIs
  <2> QED BY <1>1, <1>3, <2>1, <2>2, ShowsWay
<1> HIDE DEF N
<1>4. ASSUME NEW e \in Abstract!Others(Store) PROVE e \in N
  BY <1>1, <1>2, <1>3 DEF Abstract!Others, Abstract!IsDir
<1> QED BY <1>4 DEF N

(* What the running call's name holds.                                     *)
LEMMA HeldIs ==
  ASSUME TypeInv, Heads, DirInv, CwdReach, Running
  PROVE  /\ Abstract!Held(Store, <<cwd, req.key>>) = Shows(fat, view, slot, cwd)[req.key]
         /\ cwd \in Near(fat, view, {found}) /\ cwd \in Clusters /\ req.key \in ShortNames
<1>1. cwd \in Near(fat, view, {found}) /\ cwd \in Clusters
  BY DEF CwdReach, Near, TypeInv, KeptOK
<1>2. Store[cwd] = Shows(fat, view, slot, cwd)
  BY <1>1, StoreIs
<1>3. req.key \in ShortNames
  BY DEF TypeInv, Asked, Running
<1>4. Abstract!Held(Store, <<cwd, req.key>>) = Store[cwd][req.key]
  BY DEF Abstract!Held
<1> QED BY <1>1, <1>2, <1>3, <1>4

(* The key being overwritten stands for the entry that was found, so it    *)
(* is present.                                                             *)
LEMMA HeldFound ==
  ASSUME TypeInv, VolumeParts, FoundKey, found # NoSlot
  PROVE  /\ Running /\ Abstract!Held(Store, <<cwd, req.key>>) = Means(fat, slot, slot[found])
         /\ Abstract!Held(Store, <<cwd, req.key>>) # Absent
<1>1. Running /\ Heads /\ DirInv /\ CwdReach
  BY DEF VolumeParts, TypeInv, Stage, Running, FoundKey
<1>2. found \in Finds(fat, view, cwd, req.key) /\ view[found] = slot[found] /\ req.key \in ShortNames
  BY FoundOnly
<1>3. Abstract!Held(Store, <<cwd, req.key>>) = Means(fat, slot, slot[found])
  BY <1>1, <1>2, HeldIs, FindsIs
<1> QED BY <1>1, <1>3, MeansSome

-----------------------------------------------------------------------------
(* What a call leaves alone: the names of the directories near the root    *)
(* but its own, and the rest, unless it is overwriting a directory.        *)
LEMMA ElsewhereIs ==
  ASSUME TypeInv, VolumeParts, FoundKey, Running,
         \A d \in Near(fat, view, {found}), n \in ShortNames :
           <<d, n>> # <<cwd, req.key>> => Store'[d][n] = Store[d][n],
         Calm => \A d \in Clusters \ Near(fat, view, {found}) : Store'[d] = Store[d]
  PROVE  Abstract!Elsewhere
<1>1. ASSUME NEW d \in Clusters, d \notin Near(fat, view, {found}), ~ Calm
      PROVE  Abstract!IsDir(Abstract!Held(Store, <<cwd, req.key>>)) /\ d \notin Abstract!Others(Store)
  <2>1. found # NoSlot /\ IsDir(view[found])
    BY <1>1 DEF Calm
  <2>2. view[found] = slot[found] /\ slot[found].kind = "dir"
    BY <2>1, FoundOnly DEF IsDir
  <2>3. Abstract!Held(Store, <<cwd, req.key>>) = Means(fat, slot, slot[found])
    BY <2>1, HeldFound
  <2>4. Abstract!IsDir(Means(fat, slot, slot[found]))
    BY <2>2, MeansSome DEF Abstract!IsDir, Means, Dir
  <2>5. d \notin Abstract!Others(Store)
    BY <1>1, <2>1, OthersNear
  <2> QED BY <2>3, <2>4, <2>5
<1>2. ASSUME NEW d \in Clusters
      PROVE  \/ \A n \in ShortNames : <<d, n>> # <<cwd, req.key>> => Store'[d][n] = Store[d][n]
             \/ Abstract!IsDir(Abstract!Held(Store, <<cwd, req.key>>)) /\ d \notin Abstract!Others(Store)
  BY <1>1
<1> QED BY <1>2 DEF Abstract!Elsewhere

(* The shown volume is a function of the clusters, and for a cluster near  *)
(* the root one of the names.                                              *)
LEMMA StoreNext ==
  ASSUME TypeInv', Heads', DirInv'
  PROVE  /\ \A d \in Near(fat', view', {found'}) : Store'[d] = Shows(fat', view', slot', d)
         /\ Calm' => \A d \in Clusters \ Near(fat', view', {found'}) : Store'[d] = Blank
         /\ Store' = [d \in Clusters |-> Store'[d]]
<1>1. (TypeInv /\ Heads /\ DirInv =>
        /\ \A d \in Near(fat, view, {found}) : Store[d] = Shows(fat, view, slot, d)
        /\ Calm => \A d \in Clusters \ Near(fat, view, {found}) : Store[d] = Blank
        /\ Store = [d \in Clusters |-> Store[d]])'
  BY StoreIs, PTL
<1> QED BY <1>1 DEF Near, Blank, Shows

(* The store is unchanged when lookups lead to the same directories and    *)
(* show the same in them.                                                  *)
LEMMA StoreEqual ==
  ASSUME TypeInv, Heads, DirInv, TypeInv', Heads', DirInv', Calm, Calm',
         Near(fat', view', {found'}) = Near(fat, view, {found}),
         \A d \in Near(fat, view, {found}), n \in ShortNames :
           Shows(fat', view', slot', d)[n] = Shows(fat, view, slot, d)[n]
  PROVE  Store' = Store
<1>1. \A d \in Near(fat, view, {found}) : Shows(fat', view', slot', d) = Shows(fat, view, slot, d)
  BY DEF Shows
<1>2. \A d \in Clusters : Store'[d] = Store[d]
  BY <1>1, StoreIs, StoreNext
<1>3. Store = [d \in Clusters |-> Store[d]] /\ Store' = [d \in Clusters |-> Store'[d]]
  BY StoreIs, StoreNext
<1> QED BY <1>2, <1>3

(* A step that leaves the surroundings of its name alone.                  *)
LEMMA AroundStep ==
  ASSUME TypeInv, VolumeParts, TypeInv', VolumeParts', FoundKey, UNCHANGED <<found, cwd>>,
         Around(fat', view', slot')
  PROVE  /\ found = NoSlot => Store' = Store
         /\ found # NoSlot => /\ Abstract!Elsewhere
                              /\ Abstract!Held(Store', <<cwd, req.key>>) # Absent
<1> DEFINE N == Near(fat, view, {found})
<1>1. /\ Heads /\ DirInv /\ CwdReach /\ Heads' /\ DirInv'
      /\ cwd \in Tree(fat, view, {found}) /\ cwd \in N /\ N \in SUBSET Clusters
  BY CwdInTree DEF VolumeParts, CwdReach, Near, Reach
<1>2. /\ Near(fat', view', {found'}) = N
      /\ \A d \in N, n \in ShortNames :
           /\ Finds(fat', view', d, n) = Finds(fat, view, d, n)
           /\ found \notin Finds(fat, view, d, n) =>
                Shows(fat', view', slot', d)[n] = Shows(fat, view, slot, d)[n]
  <2>1. Near(fat', view', {found}) = N
    BY <1>1, AroundShows
  <2>2. \A d \in N, n \in ShortNames :
           /\ Finds(fat', view', d, n) = Finds(fat, view, d, n)
           /\ found \notin Finds(fat, view, d, n) =>
                Shows(fat', view', slot', d)[n] = Shows(fat, view, slot, d)[n]
    BY <1>1, AroundShows
  <2> QED BY <2>1, <2>2
<1>3. CASE found = NoSlot
  <2>1. Calm /\ Calm'
    BY <1>3 DEF Calm
  <2>2. \A d, n : found \notin Finds(fat, view, d, n)
    BY <1>3, CellsIn, NoSlotApart DEF Finds
  <2>3. Store' = Store
    BY <1>1, <1>2, <2>1, <2>2, StoreEqual
  <2> QED BY <1>3, <2>3
<1>4. CASE found # NoSlot
  <2>1. Running /\ found \in Finds(fat, view, cwd, req.key) /\ req.key \in ShortNames
    BY <1>4, HeldFound, FoundOnly
  <2>2. view'[found] = view[found]
    <3>1. found \in Cells(fat, cwd)
      BY <2>1 DEF Finds
    <3> QED BY <1>1, <3>1 DEF Around
  <2>3. Calm' <=> Calm
    BY <2>2 DEF Calm
  <2>4. \A d \in N, n \in ShortNames : <<d, n>> # <<cwd, req.key>> => Store'[d][n] = Store[d][n]
    <3>1. \A d \in N, n \in ShortNames : <<d, n>> # <<cwd, req.key>> => found \notin Finds(fat, view, d, n)
      BY <1>4, FoundOnly
    <3>2. \A d \in N : Store[d] = Shows(fat, view, slot, d) /\ Store'[d] = Shows(fat', view', slot', d)
      BY <1>1, <1>2, StoreIs, StoreNext
    <3> QED BY <1>2, <3>1, <3>2
  <2>5. Calm => \A d \in Clusters \ N : Store'[d] = Store[d]
    BY <1>1, <1>2, <2>3, StoreIs, StoreNext
  <2>6. Abstract!Elsewhere
    BY <2>1, <2>4, <2>5, ElsewhereIs
  <2>7. Store'[cwd][req.key] # Absent
    <3>1. found \in Finds(fat', view', cwd, req.key)
      BY <1>1, <1>2, <2>1
    <3>2. Shows(fat', view', slot', cwd)[req.key] = Means(fat', slot', view'[found])
      BY <2>1, <3>1, FindsIs
    <3>3. Store'[cwd] = Shows(fat', view', slot', cwd)
      BY <1>1, <1>2, StoreNext
    <3> QED BY <3>2, <3>3, MeansSome
  <2>8. Abstract!Held(Store', <<cwd, req.key>>) # Absent
    BY <2>7 DEF Abstract!Held
  <2> QED BY <1>4, <2>6, <2>8
<1> QED BY <1>3, <1>4

-----------------------------------------------------------------------------
(* A step that touches nothing the user sees.                              *)
LEMMA QuietStep ==
  ASSUME UNCHANGED <<fat, slot, cwd, req, ret, torn>>, pc \notin {"idle", "clear"}, pc' \notin {"idle", "clear"},
         req.op = "mkdir" => head' = head
  PROVE  UNCHANGED Abstract!vars
<1>1. Store' = Store
  BY StoreSame
<1>2. Running' <=> Running
  BY DEF Running
<1>3. (IF Running THEN <<cwd, req.key>> ELSE <<>>)' = IF Running THEN <<cwd, req.key>> ELSE <<>>
  BY <1>2
<1>4. (IF ~ Running THEN Absent
       ELSE IF req.op = "write" THEN File(req.val, req.size) ELSE Dir(head))'
      = IF ~ Running THEN Absent
        ELSE IF req.op = "write" THEN File(req.val, req.size) ELSE Dir(head)
  <2>1. Running => req.op \in {"write", "mkdir"}
    BY DEF Running
  <2> QED BY <1>2, <2>1 DEF File, Dir, Absent
<1> QED BY <1>1, <1>3, <1>4 DEF Abstract!vars

(* A step of an overwrite, or of a call for a name that is not in use.     *)
LEMMA WorkStep ==
  ASSUME TypeInv, VolumeParts, TypeInv', VolumeParts', FoundKey, UNCHANGED <<found, cwd, req, ret, torn>>,
         pc \notin {"idle", "clear"}, pc' \notin {"idle", "clear"},
         req.op \in {"write", "mkdir"}, req.op = "mkdir" => head' = head,
         Around(fat', view', slot')
  PROVE  Abstract!Work \/ UNCHANGED Abstract!vars
<1>1. Running /\ Running'
  BY DEF Running
<1>2. (IF Running THEN <<cwd, req.key>> ELSE <<>>)' = IF Running THEN <<cwd, req.key>> ELSE <<>>
  BY <1>1
<1>3. (IF ~ Running THEN Absent
       ELSE IF req.op = "write" THEN File(req.val, req.size) ELSE Dir(head))'
      = IF ~ Running THEN Absent
        ELSE IF req.op = "write" THEN File(req.val, req.size) ELSE Dir(head)
  BY <1>1 DEF File, Dir
<1>4. CASE found = NoSlot
  <2>1. Store' = Store
    BY <1>4, AroundStep
  <2> QED BY <1>2, <1>3, <2>1 DEF Abstract!vars
<1>5. CASE found # NoSlot
  <2>1. Abstract!Elsewhere /\ Abstract!Held(Store', <<cwd, req.key>>) # Absent
    BY <1>5, AroundStep
  <2>2. Abstract!Held(Store, <<cwd, req.key>>) # Absent
    BY <1>5, HeldFound
  <2>3. <<cwd, req.key>> # <<>>
    OBVIOUS
  <2> QED BY <1>1, <1>2, <1>3, <2>1, <2>2, <2>3 DEF Abstract!Work, Abstract!NoKey
<1> QED BY <1>4, <1>5

-----------------------------------------------------------------------------
(* Steps that change the table or the records of one cluster only, which   *)
(* is free or of a chain that the call holds.                              *)
Touches(c) ==
  /\ Spare(c)
  /\ \A x \in Clusters \ {c} : fat'[x] = fat[x]
  /\ \A s \in SlotIds : s[1] # c => slot'[s] = slot[s]

(* Such a write leaves every directory and every file of the tree alone.   *)
LEMMA TouchAround ==
  ASSUME TypeInv, Heads, NEW c, Touches(c), pc # "clear", pc' # "clear"
  PROVE  /\ Around(fat', view', slot')
         /\ \A d \in Tree(fat, view, {found}) : Agrees(fat', slot', d)
<1>1. \A s \in SlotIds : view[s] = slot[s] /\ view'[s] = slot'[s]
  BY DEF view, View
<1>2. /\ Spare(c)
      /\ \A x \in Clusters \ {c} : fat'[x] = fat[x]
      /\ \A s \in SlotIds : s[1] # c => slot'[s] = slot[s] /\ view'[s] = view[s]
  BY <1>1 DEF Touches
<1> QED BY <1>2, SpareAround

(* A cluster that is being written.                                        *)
LEMMA WriteTouches ==
  ASSUME NEW c, Spare(c), NEW new, WriteCluster(c, new), UNCHANGED fat
  PROVE  Touches(c)
BY DEF Touches, WriteCluster

(* Each step of a call that writes the disk, up to the one that writes     *)
(* the entry and the two that enlarge a directory, touches one such        *)
(* cluster.                                                                *)
LEMMA DiskStep ==
  ASSUME ~ torn', TypeInv, VolumeParts,
         FreeStep \/ AllocFile \/ LinkFile \/ WriteData \/ WriteDots \/ Extend
  PROVE  \E c : Touches(c)
<1>0. fat \in [Clusters -> Links] /\ slot \in [SlotIds -> Records] /\ head \in Clusters \cup {0}
      /\ prev \in Clusters \cup {0} /\ cur \in Links
  BY DEF TypeInv, DiskOK, LocalsOK
<1>1. CASE FreeStep
  <2>1. cur \in Clusters /\ cur \in Holding
    BY <1>0, <1>1, Apart DEF FreeStep, Holding
  <2>2. Spare(cur)
    BY <2>1, TrailHas DEF Spare
  <2> QED BY <1>0, <1>1, <2>2 DEF Touches, FreeStep, SetFat
<1>2. CASE AllocFile \/ Extend
  <2>1. PICK c \in NearestFree : SetFat(c, Eoc)
    BY <1>2 DEF AllocFile, Extend
  <2>2. Spare(c)
    BY DEF NearestFree, FreeClusters, Spare
  <2>3. UNCHANGED slot
    BY <1>2 DEF AllocFile, Extend
  <2> QED BY <1>0, <2>1, <2>2, <2>3 DEF Touches, SetFat
<1>3. CASE LinkFile
  <2>1. prev \in Clusters /\ prev \in Trail(fat, head) /\ head \in Holding
    BY <1>0, <1>3 DEF TypeInv, Stage, VolumeParts, WalkFile, LinkFile, Holding
  <2>2. Spare(prev)
    BY <2>1, <1>0, TrailHas, Apart DEF Spare
  <2> QED BY <1>0, <1>3, <2>2 DEF Touches, LinkFile, SetFat
<1>4. CASE WriteData
  <2>1. cur \in Clusters /\ cur \in Trail(fat, head) /\ head \in Holding
    <3>1. pc = "data" /\ cur \in Clusters
      <4>1. ~ torn
        BY <1>4 DEF WriteData
      <4> QED BY <1>4, <4>1, DataInside DEF WriteData
    <3> QED BY <3>1 DEF VolumeParts, WalkFile, Holding
  <2>2. Spare(cur)
    BY <2>1, <1>0, TrailHas, Apart DEF Spare
  <2> QED BY <1>4, <2>2, WriteTouches DEF WriteData
<1>5. CASE WriteDots
  <2>1. head \in Clusters /\ head \in Holding
    BY <1>0, <1>5 DEF TypeInv, Stage, WriteDots, Holding
  <2>2. Spare(head)
    BY <2>1, TrailHas DEF Spare
  <2> QED BY <1>5, <2>2, WriteTouches DEF WriteDots
<1> QED BY <1>1, <1>2, <1>3, <1>4, <1>5

(* They are work on the name of the running call.                          *)
LEMMA DiskRefines ==
  ASSUME ~ torn', TypeInv, VolumeParts, TypeInv', VolumeParts', FoundKey, UNCHANGED faults, ~ torn,
         FreeStep \/ AllocFile \/ LinkFile \/ WriteData \/ WriteDots \/ Extend
  PROVE  Abstract!Work \/ UNCHANGED Abstract!vars
<1>1. PICK c : Touches(c)
  BY DiskStep
<1>2. /\ UNCHANGED <<found, cwd, req, ret>>
      /\ pc \notin {"idle", "clear"} /\ pc' \notin {"idle", "clear"}
  BY DEF FreeStep, AllocFile, LinkFile, WriteData, WriteDots, Extend, memory
<1>3. req.op \in {"write", "mkdir"} /\ (req.op = "mkdir" => head' = head)
  BY DEF FreeStep, AllocFile, LinkFile, WriteData, WriteDots, Extend, TypeInv, Stage
<1>4. UNCHANGED torn
  BY DEF TypeInv, PastOK
<1>5. Around(fat', view', slot')
  BY <1>1, <1>2, TouchAround DEF VolumeParts
<1> QED BY <1>2, <1>3, <1>4, <1>5, WorkStep

-----------------------------------------------------------------------------
(* Steps that only move on.                                                *)
LEMMA MoveRefines ==
  ASSUME ~ torn', TypeInv, FindNext \/ SealFile \/ DataDone \/ SlotHit \/ SlotNext \/ SlotMiss
  PROVE  UNCHANGED Abstract!vars
<1>1. UNCHANGED fat
  BY SealSame DEF FindNext, DataDone, SlotHit, SlotNext, SlotMiss, disk
<1>2. UNCHANGED <<slot, cwd, req, ret, torn>>
  BY DEF FindNext, SealFile, DataDone, SlotHit, SlotNext, SlotMiss, disk, memory, history, SetFat
<1>3. pc \notin {"idle", "clear"} /\ pc' \notin {"idle", "clear"} /\ head' = head
  BY DEF FindNext, SealFile, DataDone, SlotHit, SlotNext, SlotMiss
<1> QED BY <1>1, <1>2, <1>3, QuietStep

(* A call begins, or asks for another directory, or finds no cluster free. *)
LEMMA WriteCallRefines ==
  ASSUME TypeInv, NEW n \in Names, NEW z \in Sizes, NEW v \in Values, WriteCall(n, z, v)
  PROVE  Abstract!Begin
<1>1. /\ Store' = Store /\ ~ Running /\ Running' /\ UNCHANGED <<cwd, torn>> /\ ret' = "none"
      /\ pc # "clear" /\ pc' # "clear" /\ cwd \in Clusters
  BY StoreSame DEF WriteCall, Running, disk, memory, history, TypeInv, KeptOK
<1>2. req'.op = "write" /\ req'.key \in ShortNames
  BY NameAssumption DEF WriteCall
<1>3. (IF Running THEN <<cwd, req.key>> ELSE <<>>)' \in {cwd} \X ShortNames
  BY <1>1, <1>2
<1>4. (IF ~ Running THEN Absent
       ELSE IF req.op = "write" THEN File(req.val, req.size) ELSE Dir(head))' # Absent
  BY <1>1, <1>2 DEF File, Absent
<1> QED BY <1>1, <1>3, <1>4 DEF Abstract!Begin, Abstract!NoKey

(* Calling fat32_change_directory only reads.                              *)
LEMMA CdCallRefines ==
  ASSUME TypeInv, NEW n \in Names \cup {DotDot}, CdCall(n)
  PROVE  Abstract!Ask
<1>1. /\ Store' = Store /\ ~ Running /\ UNCHANGED <<cwd, torn>> /\ ret' = "none"
      /\ pc # "clear" /\ pc' # "clear"
  BY StoreSame DEF CdCall, Running, disk, memory, history
<1>2. ~ Running'
  <2>1. CASE req' = [op |-> "up", name |-> n, key |-> DotDot, size |-> 0, val |-> Dot]
    BY <2>1 DEF Running
  <2>2. CASE req' = [op |-> "cd", name |-> n, key |-> IF n \in ExactNames THEN ShortOf[n] ELSE "",
                     size |-> 0, val |-> Dot]
    <3>1. req'.op = "cd"
      BY <2>2
    <3> QED BY <3>1 DEF Running
  <2> QED BY <2>1, <2>2 DEF CdCall
<1> QED BY <1>1, <1>2 DEF Abstract!Ask, Abstract!NoKey

(* fat32_make_directory begins a change of one absent name, or refuses     *)
(* when no cluster is free (fat32.c:503).                                  *)
LEMMA MkdirCallRefines ==
  ASSUME ~ torn', TypeInv, VolumeParts, TypeInv', VolumeParts', FoundKey, NEW n \in Names, MkdirCall(n)
  PROVE  Abstract!Begin \/ Abstract!Refuse
<1>1. ~ Running /\ UNCHANGED <<slot, cwd, torn>> /\ pc = "idle" /\ found = NoSlot /\ cwd \in Clusters
  BY DEF MkdirCall, SetFat, Running, history, TypeInv, Stage, KeptOK
<1>2. CASE FreeClusters = {} /\ Return("fail") /\ UNCHANGED <<fat, table, hint, torn, faults>>
  <2>1. ~ Running' /\ ret' = "fail" /\ pc' # "clear"
    BY <1>2 DEF Return, Running
  <2>2. Store' = Store
    BY <1>1, <1>2, <2>1, StoreSame
  <2> QED BY <1>1, <2>1, <2>2 DEF Abstract!Refuse, Abstract!NoKey
<1>3. ASSUME NEW c \in NearestFree, SetFat(c, Eoc), ret' = "none", pc' = "dots", found' = found,
             req' = [op |-> "mkdir", name |-> n, key |-> ShortOf[n], size |-> 0, val |-> Dot]
      PROVE  Abstract!Begin
  <2>1. fat \in [Clusters -> Links] /\ Spare(c)
    BY DEF TypeInv, DiskOK, NearestFree, FreeClusters, Spare
  <2>2. Touches(c)
    BY <1>1, <1>3, <2>1 DEF Touches, SetFat
  <2>3. Around(fat', view', slot')
    BY <1>1, <1>3, <2>2, TouchAround DEF VolumeParts
  <2>4. Store' = Store
    BY <1>1, <1>3, <2>3, AroundStep
  <2>5. Running' /\ req'.op = "mkdir" /\ req'.key \in ShortNames
    BY <1>3, NameAssumption DEF Running
  <2>6. (IF Running THEN <<cwd, req.key>> ELSE <<>>)' \in {cwd} \X ShortNames
    BY <1>1, <2>5
  <2>7. (IF ~ Running THEN Absent
         ELSE IF req.op = "write" THEN File(req.val, req.size) ELSE Dir(head))' # Absent
    BY <2>5 DEF Dir, Absent
  <2> QED BY <1>1, <1>3, <2>4, <2>6, <2>7 DEF Abstract!Begin, Abstract!NoKey
<1> QED BY <1>2, <1>3 DEF MkdirCall

(* A call that gives up.                                                   *)
LEMMA FailRefines ==
  ASSUME TypeInv, VolumeParts, FoundKey, UNCHANGED <<fat, slot, cwd>>, Running, pc # "clear",
         Return("fail"), torn' = (torn \/ Invalidated)
  PROVE  Abstract!Fail
<1>1. ~ Running' /\ ret' = "fail" /\ pc' # "clear"
  BY DEF Return, Running
<1>2. Store' = Store
  BY <1>1, StoreSame
<1>3. Invalidated => Abstract!Held(Store, <<cwd, req.key>>) # Absent
  BY HeldFound DEF Invalidated
<1>4. <<cwd, req.key>> # <<>>
  OBVIOUS
<1> QED BY <1>1, <1>2, <1>3, <1>4 DEF Abstract!Fail, Abstract!NoKey, Abstract!End

(* When the old or the given back clusters are freed the call goes on, or  *)
(* fails and leaves the store as the abstract failure may.                 *)
LEMMA FreeDoneRefines ==
  ASSUME TypeInv, VolumeParts, FoundKey, FreeDone
  PROVE  Abstract!Fail \/ UNCHANGED Abstract!vars
<1>1. CASE pc = "free"
  <2>1. pc' = "alloc" /\ UNCHANGED <<fat, slot, cwd, req, ret, torn, head>>
    BY <1>1 DEF FreeDone, disk, memory
  <2> QED BY <1>1, <2>1, QuietStep
<1>2. CASE pc = "undo"
  <2>1. UNCHANGED <<fat, slot, cwd>> /\ Return("fail") /\ torn' = (torn \/ Invalidated) /\ Running
    BY <1>2 DEF FreeDone, disk, memory, Running, TypeInv, Stage
  <2> QED BY <1>2, <2>1, FailRefines
<1> QED BY <1>1, <1>2 DEF FreeDone

(* So it is when no cluster is left (alloc_cluster, fat32.c).              *)
LEMMA AllocFullRefines ==
  ASSUME TypeInv, VolumeParts, FoundKey, AllocFull
  PROVE  Abstract!Fail \/ UNCHANGED Abstract!vars
<1>1. UNCHANGED <<fat, slot, cwd>> /\ pc \in {"alloc", "extend"} /\ Running
  BY DEF AllocFull, disk, memory, Running, TypeInv, Stage
<1>2. CASE head # 0
  <2>1. pc' = "undo" /\ UNCHANGED <<req, ret, torn, head>>
    BY <1>2 DEF AllocFull
  <2> QED BY <1>1, <2>1, QuietStep
<1>3. CASE head = 0
  <2>1. Return("fail") /\ torn' = (torn \/ Invalidated)
    BY <1>3 DEF AllocFull
  <2> QED BY <1>1, <2>1, FailRefines
<1> QED BY <1>2, <1>3

(* Power loss.                                                             *)
LEMMA CrashRefines ==
  ASSUME TypeInv, VolumeParts, FoundKey, ~ torn, Crash
  PROVE  Abstract!Restart
<1>1. cwd' = RootCluster /\ ~ Running' /\ ret' = "none" /\ pc' = "idle" /\ UNCHANGED <<fat, slot>>
  BY DEF Crash, Return, Running, TypeInv, OneTable
<1>2. torn' = (Invalidated \/ pc = "clear")
  BY DEF Crash
<1>3. CASE pc = "clear"
  BY <1>1, <1>2, <1>3 DEF Abstract!Restart, Abstract!End, Abstract!NoKey
<1>4. CASE pc # "clear" /\ Invalidated
  <2>1. Running /\ Abstract!Held(Store, <<cwd, req.key>>) # Absent
    BY <1>4, HeldFound DEF Invalidated
  <2>2. <<cwd, req.key>> # <<>>
    OBVIOUS
  <2> QED BY <1>1, <1>2, <1>4, <2>1, <2>2 DEF Abstract!Restart, Abstract!End, Abstract!NoKey
<1>5. CASE pc # "clear" /\ ~ Invalidated
  <2>1. Store' = Store
    BY <1>1, <1>5, StoreSame
  <2>2. UNCHANGED torn
    BY <1>2, <1>5 DEF TypeInv, PastOK
  <2> QED BY <1>1, <2>1, <2>2 DEF Abstract!Restart, Abstract!End, Abstract!NoKey
<1> QED BY <1>3, <1>4, <1>5

-----------------------------------------------------------------------------
(* A lookup finds the same in a directory that a cluster of end marks is   *)
(* appended to.                                                            *)
LEMMA TrailLonger ==
  ASSUME NEW f, NEW g, NEW z, \A y \in Clusters : f[y] \in Clusters => g[y] = f[y]
  PROVE  Trail(f, z) \subseteq Trail(g, z)
<1>1. CASE z \notin Clusters
  BY <1>1, TrailHas
<1>2. CASE z \in Clusters
  <2>1. z \in Trail(g, z) /\ Trail(g, z) \in SUBSET Clusters
    BY <1>2, TrailHas
  <2>2. Closed(f, Trail(g, z))
    BY <2>1, TrailNext DEF Closed
  <2> QED BY <2>1, <2>2, TrailLeast
<1> QED BY <1>1, <1>2

(* Table g is f with cluster x, full of end marks, added behind l, the     *)
(* last of directory d.                                                    *)
Grown(f, g, v, w, d, l, x) ==
  /\ d \in Clusters /\ l \in Trail(f, d) /\ x \in Clusters \ Trail(f, d)
  /\ f[l] \notin Clusters /\ f[x] \notin Clusters
  /\ g[l] = x /\ g[x] \notin Clusters /\ \A y \in Clusters \ {l, x} : g[y] = f[y]
  /\ \A s \in SlotIds : w[s] = IF s[1] = x THEN End ELSE v[s]

(* Lookups find the same in a directory that has grown.                    *)
LEMMA GrownFinds ==
  ASSUME NEW f, NEW g, NEW v, NEW w, NEW d, NEW l, NEW x, Grown(f, g, v, w, d, l, x)
  PROVE  \A n : Finds(g, w, d, n) = Finds(f, v, d, n)
<1> USE DEF Grown
<1>1. x # l
  OBVIOUS
<1>2. Trail(g, d) = Trail(f, d) \cup {x}
  <2>1. \A y \in Trail(f, d) \ {l, x} : g[y] = f[y]
    BY TrailHas
  <2> QED BY <1>1, <2>1, TrailLink
<1>3. \A s \in Cells(f, d) : s \in SlotIds /\ s[1] \in Trail(f, d) /\ s[1] \in Clusters /\ s[1] # x /\ w[s] = v[s]
  <2> SUFFICES ASSUME NEW s \in Cells(f, d)
               PROVE  s \in SlotIds /\ s[1] \in Trail(f, d) /\ s[1] \in Clusters /\ s[1] # x /\ w[s] = v[s]
    OBVIOUS
  <2>1. s \in SlotIds /\ s[1] \in Trail(f, d)
    BY CellsIn DEF Cells
  <2> QED BY <2>1, TrailHas
<1>4. \A s \in Cells(g, d) : IsEntry(w[s]) => s \in Cells(f, d)
  <2> SUFFICES ASSUME NEW s \in Cells(g, d), IsEntry(w[s]) PROVE s \in Cells(f, d)
    OBVIOUS
  <2>1. s \in SlotIds /\ s \in (Trail(f, d) \cup {x}) \X Indices
    BY <1>2, CellsIn DEF Cells
  <2>2. s[1] # x
    BY <2>1 DEF IsEntry, End
  <2> QED BY <2>1, <2>2 DEF Cells
<1>5. Cells(f, d) \subseteq Cells(g, d)
  BY <1>2 DEF Cells
<1>6. ASSUME NEW t \in Cells(f, d), NEW u \in Cells(f, d)
      PROVE  t[1] \in Trail(g, g[u[1]]) <=> t[1] \in Trail(f, f[u[1]])
  <2>1. CASE u[1] = l
    <3>1. Trail(g, x) = {x} \cup Trail(g, g[x]) /\ Trail(g, g[x]) = {} /\ Trail(f, f[l]) = {}
      BY TrailSplit, TrailHas
    <3> QED BY <1>3, <2>1, <3>1
  <2>2. CASE u[1] # l
    <3>1. g[u[1]] = f[u[1]]
      BY <1>3, <2>2
    <3>2. Trail(g, g[u[1]]) \subseteq Trail(f, g[u[1]]) \cup {x}
      BY TrailMore
    <3>3. Trail(f, f[u[1]]) \subseteq Trail(g, f[u[1]])
      BY TrailLonger
    <3> QED BY <1>3, <3>1, <3>2, <3>3
  <2> QED BY <2>1, <2>2
<1>7. \A t \in Cells(f, d) : IsEntry(v[t]) => (First(g, w, d, t) <=> First(f, v, d, t))
  BY <1>3, <1>4, <1>5, <1>6 DEF First
<1> QED BY <1>3, <1>4, <1>5, <1>7 DEF Finds

(* No file has the chain of a directory.                                   *)
LEMMA FileApart ==
  ASSUME TypeInv, Heads, NEW d \in Tree(fat, view, {found}),
         NEW t \in Within(fat, view, {found}), view[t].kind # "dir"
  PROVE  view[t].first # d
<1>1. t \in SlotIds \ {found} /\ Named(view[t])
  BY DEF Within
<1>2. ASSUME NEW s \in SlotIds \ {found}, Named(view[s]), view[s].first # 0
      PROVE  <<s, view[s].first>> \in NamesNow
  <2>1. view[s] = slot[s]
    BY <1>2, ViewIn DEF Named
  <2> QED BY <1>2, <2>1 DEF NamesNow, Refs
<1>3. d \in DirHeads(view, {found}) /\ d \in Clusters
  <2>1. Subs(fat, view, {found}) \in SUBSET Pairs
    BY SubsIn
  <2>2. CASE d = RootCluster
    BY <2>2, Apart DEF DirHeads
  <2>3. CASE d # RootCluster
    <3>1. PICK r \in Subs(fat, view, {found}) : r[2] = d
      BY <2>1, <2>3, ReachLast DEF Tree
    <3>2. \E s \in SlotIds \ {found} : IsDir(view[s]) /\ view[s].first = d
      BY <3>1, CellsIn DEF Subs, Sub
    <3> QED BY <3>2, ViewIn DEF DirHeads
  <2> QED BY <2>2, <2>3
<1> SUFFICES ASSUME view[t].first = d PROVE FALSE
  OBVIOUS
<1>4. d # 0 /\ <<t, d>> \in NamesNow
  BY <1>1, <1>2, <1>3, Apart
<1>5. d # RootCluster
  <2>1. <<t, d>>[2] = d
    OBVIOUS
  <2> QED BY <1>4, <2>1 DEF Heads, HeadsOK
<1>6. PICK s \in SlotIds \ {found} : IsDir(view[s]) /\ view[s].first = d
  BY <1>3, <1>5 DEF DirHeads
<1>7. <<s, d>> \in NamesNow
  BY <1>2, <1>4, <1>6 DEF IsDir
<1>8. <<s, d>> = <<t, d>>
  <2>1. <<s, d>>[2] = <<t, d>>[2]
    OBVIOUS
  <2> QED BY <1>4, <1>7, <2>1 DEF Heads, HeadsOK
<1>9. s = t
  <2>1. <<s, d>>[1] = s /\ <<t, d>>[1] = t
    OBVIOUS
  <2> QED BY <1>8, <2>1
<1> QED BY <1>6, <1>9 DEF IsDir

(* The directory is linked to its new cluster, which no walk sees yet.     *)
LEMMA LinkDirRefines ==
  ASSUME ~ torn', TypeInv, VolumeParts, TypeInv', VolumeParts', LinkDir
  PROVE  Abstract!Grow
<1>0. Heads /\ DirInv /\ CwdReach /\ Heads' /\ DirInv'
  BY DEF VolumeParts
<1>1. /\ pc = "elink" /\ pc' = "clear" /\ fat' = [fat EXCEPT ![last] = cur, ![cur] = Eoc]
      /\ UNCHANGED <<slot, found, cwd, cur, req, ret, head, torn>> /\ fat \in [Clusters -> Links]
      /\ cur \in Clusters /\ last \in Clusters /\ found = NoSlot /\ Running
  BY LinkDirTable DEF LinkDir, TypeInv, DiskOK, Stage, locals, memory, Running, history
<1>2. last \in Trail(fat, cwd) /\ fat[last] \notin Clusters /\ fat[cur] \notin Clusters
  BY <1>1 DEF VolumeParts, WalkSlot
<1>3. cwd \in DirHeads(view, {found}) /\ cwd \in Clusters /\ cwd \in Tree(fat, view, {found})
  BY <1>0, CwdDir, CwdInTree DEF TypeInv, KeptOK
<1>4. Spare(cur) /\ cur \in Trail(fat, cur) /\ cur \in Holding
  BY <1>1, TrailHas DEF Holding, Spare
<1>5. \A h \in Kept(fat, view, {found}) : cur \notin Trail(fat, h)
  BY <1>0, <1>4, SpareApart
<1>6. Tree(fat, view, {found}) \subseteq Kept(fat, view, {found}) \cap Clusters
  BY SubsIn, TreeIn
<1>7. /\ last # cur /\ fat'[last] = cur /\ fat'[cur] \notin Clusters
      /\ \A x \in Clusters \ {last, cur} : fat'[x] = fat[x]
  <2>1. last # cur
    BY <1>2, <1>3, <1>5, <1>6
  <2> QED BY <1>1, <2>1, Apart
<1>8. \A s \in SlotIds : view[s] = slot[s] /\ view'[s] = IF s[1] = cur THEN End ELSE slot[s]
  BY <1>1 DEF view, View
<1>9. \A h \in Kept(fat, view, {found}) \ {cwd} :
        /\ \A x \in Trail(fat, h) : fat'[x] = fat[x]
        /\ \A s \in Cells(fat, h) : slot'[s] = slot[s] /\ view'[s] = view[s]
  <2> SUFFICES ASSUME NEW h \in Kept(fat, view, {found}), h # cwd, h \in Clusters
               PROVE  /\ \A x \in Trail(fat, h) : fat'[x] = fat[x]
                      /\ \A s \in Cells(fat, h) : slot'[s] = slot[s] /\ view'[s] = view[s]
    BY TrailHas DEF Cells
  <2>1. last \notin Trail(fat, h) /\ cur \notin Trail(fat, h)
    BY <1>0, <1>2, <1>3, <1>5, <1>6, KeptApart
  <2>2. \A s \in Cells(fat, h) : s \in SlotIds /\ s[1] # cur
    BY <2>1, CellsIn DEF Cells
  <2> QED BY <1>1, <1>7, <1>8, <2>1, <2>2, TrailHas
<1>10. Calm /\ Calm'
  BY <1>1 DEF Calm
<1>11. Near(fat, view, {found}) \subseteq Kept(fat, view, {found}) \cap Clusters
  BY <1>0, <1>6, NearIn
<1>12. ASSUME NEW d \in Near(fat, view, {found}), NEW n \in ShortNames
       PROVE  /\ Finds(fat', view', d, n) = Finds(fat, view, d, n)
              /\ \A s \in Finds(fat, view, d, n) : s # found /\ view'[s] = view[s]
  <2>1. ASSUME NEW s \in Finds(fat, view, d, n) PROVE s # found /\ view'[s] = view[s]
    <3>1. s \in SlotIds /\ s[1] \in Trail(fat, d)
      BY CellsIn DEF Finds, Cells
    <3> QED BY <1>1, <1>5, <1>8, <1>11, <3>1, NoSlotApart
  <2>2. CASE d = cwd
    <3>1. /\ cur \in Clusters /\ cur \notin Trail(fat, cwd) /\ last \in Trail(fat, cwd) /\ cwd \in Clusters
          /\ fat[last] \notin Clusters /\ fat[cur] \notin Clusters
      BY <1>1, <1>2, <1>3, <1>5, <1>6
    <3>2. \A s \in SlotIds : view'[s] = IF s[1] = cur THEN End ELSE view[s]
      BY <1>8
    <3>3. /\ fat'[last] = cur /\ fat'[cur] \notin Clusters
          /\ \A y \in Clusters \ {last, cur} : fat'[y] = fat[y]
      BY <1>7
    <3>4. \A m : Finds(fat', view', cwd, m) = Finds(fat, view, cwd, m)
      <4>1. Grown(fat, fat', view, view', cwd, last, cur)
        BY <3>1, <3>2, <3>3 DEF Grown
      <4> QED BY <4>1, GrownFinds
    <3> QED BY <2>1, <2>2, <3>4
  <2>3. CASE d # cwd
    <3>1. /\ \A x \in Trail(fat, d) : fat'[x] = fat[x]
          /\ \A s \in Cells(fat, d) : view'[s] = view[s]
      BY <1>9, <1>11, <2>3
    <3> QED BY <2>1, <3>1, FindsSame
  <2> QED BY <2>1, <2>2, <2>3
<1>13. \A t \in Within(fat, view, {found}) : view[t].kind # "dir" => Agrees(fat', slot', view[t].first)
  <2> SUFFICES ASSUME NEW t \in Within(fat, view, {found}), view[t].kind # "dir"
               PROVE  Agrees(fat', slot', view[t].first)
    OBVIOUS
  <2>1. view[t].first \in Kept(fat, view, {found})
    BY DEF Kept
  <2>2. view[t].first # cwd
    BY <1>0, <1>3, FileApart
  <2> QED BY <1>9, <2>1, <2>2 DEF Agrees
<1>14. \A d, n : <<d, n>> # <<>>
  OBVIOUS
<1>15. /\ Near(fat', view', {found}) = Near(fat, view, {found})
       /\ \A d \in Near(fat, view, {found}), n \in ShortNames :
            Shows(fat', view', slot', d)[n] = Shows(fat, view, slot, d)[n]
  <2>1. PICK k : \A d, n : <<d, n>> # k
    BY <1>14
  <2>2. Alike(fat', view', slot', {found}, k)
    BY <1>12, <1>13, <2>1 DEF Alike
  <2>3. /\ Near(fat', view', {found}) = Near(fat, view, {found})
        /\ \A d \in Near(fat, view, {found}), n \in ShortNames : <<d, n>> # k =>
             Shows(fat', view', slot', d)[n] = Shows(fat, view, slot, d)[n]
    <3>1. TypeInv /\ Heads /\ DirInv
      BY <1>0
    <3> QED BY ONLY <2>2, <3>1, SameShows
  <2> QED BY <2>1, <2>3
<1>16. Store' = Store
  BY <1>0, <1>1, <1>10, <1>15, StoreEqual
<1>17. /\ (IF Running THEN <<cwd, req.key>> ELSE <<>>)' = IF Running THEN <<cwd, req.key>> ELSE <<>>
       /\ (IF ~ Running THEN Absent
           ELSE IF req.op = "write" THEN File(req.val, req.size) ELSE Dir(head))'
          = IF ~ Running THEN Absent
            ELSE IF req.op = "write" THEN File(req.val, req.size) ELSE Dir(head)
  BY <1>1 DEF Running, File, Dir
<1> QED BY <1>1, <1>14, <1>16, <1>17 DEF Abstract!Grow, Abstract!NoKey

(* A cluster is written as a whole unless a sector write fails.            *)
LEMMA WriteWhole ==
  ASSUME TypeInv, UNCHANGED faults, NEW c, NEW new, WriteCluster(c, new)
  PROVE  \A s \in SlotIds : slot'[s] = IF s[1] = c THEN new[s[2]] ELSE slot[s]
<1>1. PICK k \in 0 .. SlotsPerCluster :
        /\ slot' = [s \in SlotIds |-> IF s[1] = c /\ s[2] <= k THEN new[s[2]] ELSE slot[s]]
        /\ k # SlotsPerCluster => faults' = faults + 1
  BY DEF WriteCluster
<1>2. faults \in Nat
  BY InputAssumption DEF TypeInv, PastOK
<1>3. k = SlotsPerCluster
  BY <1>1, <1>2
<1>4. \A s \in SlotIds : s[2] <= SlotsPerCluster
  BY VolumeAssumption DEF SlotIds, Indices
<1> QED BY <1>1, <1>3, <1>4

(* The new cluster is cleared, and from now on the walks see it.           *)
LEMMA ClearDirRefines ==
  ASSUME TypeInv, VolumeParts, TypeInv', VolumeParts', FoundKey, ~ torn, UNCHANGED faults, ClearDir
  PROVE  Abstract!Grow
<1>0. Heads /\ DirInv /\ CwdReach
  BY DEF VolumeParts
<1>1. /\ pc = "clear" /\ pc' = "entry" /\ UNCHANGED <<fat, found, cwd, cur, req, ret, head>>
      /\ WriteCluster(cur, [i \in Indices |-> End])
      /\ cur \in Clusters /\ found = NoSlot /\ Running
  BY DEF ClearDir, TypeInv, Stage, memory, Running
<1>2. UNCHANGED torn
  BY DEF ClearDir, TypeInv, PastOK
<1>3. cur \in Trail(fat, cwd) /\ cwd \in Tree(fat, view, {found}) /\ cwd \in Clusters
  BY <1>0, <1>1, CwdInTree DEF VolumeParts, WalkSlot, TypeInv, KeptOK
<1>4. \A s \in SlotIds : slot'[s] = IF s[1] = cur THEN End ELSE slot[s]
  <2> DEFINE new == [i \in Indices |-> End]
  <2>1. \A s \in SlotIds : new[s[2]] = End
    BY DEF SlotIds
  <2>2. WriteCluster(cur, new)
    BY <1>1
  <2> HIDE DEF new
  <2> QED BY <2>1, <2>2, WriteWhole
<1>5. \A s \in SlotIds : view'[s] = view[s]
  BY <1>1, <1>4 DEF view, View
<1>6. Around(fat', view', slot')
  <2>1. ASSUME NEW d \in Tree(fat, view, {found})
        PROVE  /\ \A x \in Trail(fat, d) : fat'[x] = fat[x]
               /\ \A s \in Cells(fat, d) : view'[s] = view[s]
    BY <1>1, <1>5, CellsIn
  <2>2. ASSUME NEW t \in Within(fat, view, {found}), view[t].kind # "dir"
        PROVE  Agrees(fat', slot', view[t].first)
    <3> DEFINE h == view[t].first
    <3>1. h \in Kept(fat, view, {found}) /\ cwd \in Kept(fat, view, {found})
      <4>1. Tree(fat, view, {found}) \subseteq Kept(fat, view, {found})
        BY SubsIn, TreeIn
      <4> QED BY <1>3, <4>1 DEF Kept
    <3>2. h # cwd
      BY <1>0, <1>3, <2>2, FileApart
    <3> HIDE DEF h
    <3>3. cur \notin Trail(fat, h)
      <4>1. h \in Clusters \/ Trail(fat, h) = {}
        BY TrailHas
      <4> QED BY <1>0, <1>3, <3>1, <3>2, <4>1, KeptApart
    <3>4. \A s \in Cells(fat, h) : s \in SlotIds /\ s[1] # cur
      BY <3>3, CellsIn DEF Cells
    <3>5. Agrees(fat', slot', h)
      BY <1>1, <1>4, <3>4 DEF Agrees
    <3> QED BY <3>5 DEF h
  <2> QED BY <2>1, <2>2 DEF Around
<1>7. Store' = Store
  BY <1>1, <1>6, AroundStep
<1>8. /\ (IF Running THEN <<cwd, req.key>> ELSE <<>>)' = IF Running THEN <<cwd, req.key>> ELSE <<>>
      /\ (IF ~ Running THEN Absent
          ELSE IF req.op = "write" THEN File(req.val, req.size) ELSE Dir(head))'
         = IF ~ Running THEN Absent
           ELSE IF req.op = "write" THEN File(req.val, req.size) ELSE Dir(head)
  BY <1>1 DEF Running, File, Dir
<1>9. <<cwd, req.key>> # <<>>
  OBVIOUS
<1> QED BY <1>1, <1>2, <1>7, <1>8, <1>9 DEF Abstract!Grow, Abstract!NoKey

-----------------------------------------------------------------------------
(* A directory that leads to another one shows it.                         *)
LEMMA DoorShown ==
  ASSUME TypeInv, Heads, DirInv, NEW d \in Near(fat, view, {found}), NEW c \in Doors(fat, view, {found}, d)
  PROVE  \E n \in ShortNames : Store[d][n] = Dir(c)
<1>1. PICK s \in Cells(fat, d) \ {found} : IsDir(view[s]) /\ First(fat, view, d, s) /\ c = view[s].first
  BY DEF Doors
<1>2. s \in Finds(fat, view, d, view[s].name) /\ view[s].name \in ShortNames
  BY <1>1 DEF Finds, IsDir, Named
<1>3. Shows(fat, view, slot, d)[view[s].name] = Means(fat, slot, view[s])
  BY <1>2, FindsIs
<1>4. Means(fat, slot, view[s]) = Dir(c)
  BY <1>1 DEF Means, IsDir
<1>5. Store[d] = Shows(fat, view, slot, d)
  BY StoreIs
<1> QED BY <1>2, <1>3, <1>4, <1>5

(* cd ends in a directory that the current one shows, or that shows it.    *)
LEMMA FindHitRefines ==
  ASSUME TypeInv, VolumeParts, FindHit
  PROVE  Abstract!ChangeDir \/ Abstract!Refuse \/ UNCHANGED Abstract!vars
<1>0. Heads /\ DirInv /\ CwdReach /\ cwd \in Clusters
  BY DEF VolumeParts, TypeInv, KeptOK
<1>1. /\ pc = "find" /\ cur \in Clusters /\ UNCHANGED <<fat, slot, torn>> /\ req.op \in {"write", "cd", "up"}
  BY Apart DEF FindHit, TypeInv, Stage, LocalsOK, disk, history
<1>2. PICK m \in Hits(cur) :
        \/ /\ req.op = "write" /\ pc' \in {"free", "alloc"} /\ UNCHANGED <<cwd, req, ret>>
        \/ /\ EntersInto(slot[<<cur, m>>])
           /\ cwd' = IF slot[<<cur, m>>].first = 0 THEN RootCluster ELSE slot[<<cur, m>>].first
           /\ Return("ok")
        \/ /\ req.op # "write" /\ ~ EntersInto(slot[<<cur, m>>]) /\ Return("fail") /\ UNCHANGED cwd
  BY DEF FindHit
<1>3. CASE req.op = "write" /\ pc' \in {"free", "alloc"} /\ UNCHANGED <<cwd, req, ret>>
  BY <1>1, <1>3, QuietStep
<1>4. ASSUME req.op # "write" PROVE ~ Running
  BY <1>1, <1>4 DEF Running
<1>5. CASE req.op # "write" /\ ~ EntersInto(slot[<<cur, m>>]) /\ Return("fail") /\ UNCHANGED cwd
  <2>1. ~ Running /\ ~ Running' /\ ret' = "fail" /\ pc' # "clear" /\ pc # "clear"
    BY <1>1, <1>4, <1>5 DEF Return, Running
  <2>2. Store' = Store
    BY <1>1, <2>1, StoreSame
  <2> QED BY <1>1, <1>5, <2>1, <2>2 DEF Abstract!Refuse, Abstract!NoKey
<1>6. CASE /\ EntersInto(slot[<<cur, m>>])
           /\ cwd' = IF slot[<<cur, m>>].first = 0 THEN RootCluster ELSE slot[<<cur, m>>].first
           /\ Return("ok")
  <2>1. ~ Running /\ ~ Running' /\ ret' = "ok" /\ pc' # "clear" /\ pc # "clear"
    BY <1>1, <1>4, <1>6 DEF Return, Running, EntersInto
  <2>2. Store' = Store
    BY <1>1, <2>1, StoreSame
  <2>3. cwd \in Near(fat, view, {found})
    BY <1>0 DEF CwdReach, Near
  <2>4. \/ \E n \in ShortNames : Abstract!IsDir(Store[cwd][n]) /\ cwd' = Store[cwd][n].at
        \/ \E d \in Clusters, n \in ShortNames : Store[d][n] = Abstract!DirAt(cwd) /\ cwd' = d
    <3>1. CASE req.op = "up"
      <4>1. PICK d \in Near(fat, view, {found}) : cwd \in Doors(fat, view, {found}, d) /\ cwd' = d
        BY <1>1, <1>6, <3>1, UpReached DEF Near
      <4>2. d \in Clusters /\ \E n \in ShortNames : Store[d][n] = Dir(cwd)
        BY <1>0, <4>1, DoorShown, NearIn
      <4> QED BY <4>1, <4>2 DEF Abstract!DirAt, Dir
    <3>2. CASE req.op = "cd" /\ slot[<<cur, m>>].kind = "dir"
      <4>1. cwd' \in Doors(fat, view, {found}, cwd)
        BY <1>1, <1>6, <3>2, DownReached
      <4>2. PICK n \in ShortNames : Store[cwd][n] = Dir(cwd')
        BY <1>0, <2>3, <4>1, DoorShown
      <4> QED BY <4>2 DEF Abstract!IsDir, Dir, Absent
    <3> QED BY <1>6, <3>1, <3>2 DEF EntersInto
  <2> QED BY <1>1, <2>1, <2>2, <2>4 DEF Abstract!ChangeDir, Abstract!NoKey
<1> QED BY <1>2, <1>3, <1>5, <1>6

(* No such name.                                                           *)
LEMMA FindMissRefines ==
  ASSUME TypeInv, FindMiss
  PROVE  Abstract!Refuse \/ UNCHANGED Abstract!vars
<1>1. pc = "find" /\ UNCHANGED <<fat, slot, cwd, torn>> /\ req.op \in {"write", "cd", "up"}
  BY DEF FindMiss, TypeInv, Stage, disk, memory, history
<1>2. CASE req.op = "write"
  <2>1. pc' = "alloc" /\ UNCHANGED <<req, ret>>
    BY <1>2 DEF FindMiss
  <2> QED BY <1>1, <1>2, <2>1, QuietStep
<1>3. CASE req.op # "write"
  <2>1. ~ Running /\ ~ Running' /\ ret' = "fail" /\ pc' # "clear"
    BY <1>1, <1>3 DEF FindMiss, Return, Running
  <2>2. Store' = Store
    BY <1>1, <2>1, StoreSame
  <2> QED BY <1>1, <2>1, <2>2 DEF Abstract!Refuse, Abstract!NoKey
<1> QED BY <1>2, <1>3

-----------------------------------------------------------------------------
(* Quest is kept by every step on whose writes no sector failed.           *)
LEMMA QuestReturn ==
  ASSUME NEW r, Return(r)
  PROVE  Quest'
BY DEF Return, ClearLocals, Quest, FoundKey, KeyAbsent, DataInv, NoCall

(* The current directory and the request are the same.                     *)
LEMMA KeySame ==
  ASSUME UNCHANGED <<cwd, req, found>>, FoundKey, KeyAbsent, pc \notin {"idle", "find"},
         found # NoSlot => slot'[found] = slot[found],
         \A x \in Trail(fat, cwd) : fat'[x] = fat[x], \A s \in Cells(fat, cwd) : view'[s] = view[s],
         found # NoSlot => found \in Cells(fat, cwd)
  PROVE  FoundKey' /\ KeyAbsent'
<1>1. Cells(fat', cwd) = Cells(fat, cwd)
  BY FirstSame
<1>2. \A t \in Cells(fat, cwd) : First(fat', view', cwd, t) <=> First(fat, view, cwd, t)
  BY FirstSame
<1>3. FoundKey'
  BY <1>2 DEF FoundKey
<1>4. KeyAbsent'
  BY <1>1 DEF KeyAbsent
<1> QED BY <1>3, <1>4

(* The entry being overwritten is in the current directory.                *)
LEMMA FoundCell ==
  ASSUME TypeInv, VolumeParts, found # NoSlot
  PROVE  found \in Cells(fat, cwd)
<1>1. found \in SlotIds /\ found[1] \in Trail(fat, cwd)
  BY DEF TypeInv, LocalsOK, VolumeParts, WalkFound
<1> QED BY <1>1 DEF Cells, SlotIds

(* A call begins with nothing found and nothing written.                   *)
LEMMA CallQuest == TypeInv /\ Call => Quest'
<1> SUFFICES ASSUME TypeInv, Call PROVE Quest'
  OBVIOUS
<1>1. ASSUME NEW n \in Names, NEW z \in Sizes, NEW v \in Values, WriteCall(n, z, v) PROVE Quest'
  BY <1>1 DEF WriteCall, TypeInv, Stage, Quest, FoundKey, KeyAbsent, DataInv
<1>2. ASSUME NEW n \in Names \cup {DotDot}, CdCall(n) PROVE Quest'
  BY <1>2 DEF CdCall, TypeInv, Stage, Quest, FoundKey, KeyAbsent, DataInv
<1>3. ASSUME NEW n \in Names, MkdirCall(n) PROVE Quest'
  <2>1. CASE Return("fail")
    BY <2>1, QuestReturn
  <2>2. CASE pc' = "dots" /\ req'.op = "mkdir" /\ found' = found /\ found = NoSlot
    BY <2>2 DEF Quest, FoundKey, KeyAbsent, DataInv
  <2> QED BY <1>3, <2>1, <2>2 DEF MkdirCall, TypeInv, Stage
<1> QED BY <1>1, <1>2, <1>3 DEF Call

(* The loop over the names of a directory stops at the first entry of the  *)
(* name, which is what a lookup finds.                                     *)
LEMMA FindHitQuest ==
  ASSUME TypeInv, VolumeParts, FindHit
  PROVE  Quest'
<1>1. pc = "find" /\ cur \in Clusters /\ UNCHANGED <<fat, slot>>
  BY Apart DEF FindHit, TypeInv, LocalsOK, disk
<1>2. PICK m \in Hits(cur) :
        \/ /\ req.op = "write" /\ pc' \in {"free", "alloc"} /\ UNCHANGED <<cwd, req>> /\ found' = <<cur, m>>
        \/ Return("ok")
        \/ Return("fail")
  BY DEF FindHit
<1>3. CASE /\ req.op = "write" /\ pc' \in {"free", "alloc"} /\ UNCHANGED <<cwd, req>> /\ found' = <<cur, m>>
  <2>1. view' = view
    BY <1>1, <1>3, ViewSame
  <2>2. <<cur, m>> \in Cells(fat, cwd) /\ Sought(slot[<<cur, m>>]) /\ First(fat, view, cwd, <<cur, m>>)
    BY <1>1, HitFirst
  <2>3. <<cur, m>> # NoSlot
    BY <2>2, CellsIn, NoSlotApart
  <2>4. FoundKey'
    BY <1>1, <1>3, <2>1, <2>2 DEF FoundKey, Sought
  <2>5. KeyAbsent' /\ DataInv'
    BY <1>3, <2>3 DEF KeyAbsent, DataInv
  <2> QED BY <2>4, <2>5 DEF Quest
<1> QED BY <1>2, <1>3, QuestReturn

(* The lookup has come to the end of the directory: the name is not there. *)
LEMMA FindMissQuest ==
  ASSUME TypeInv, VolumeParts, FindMiss
  PROVE  Quest'
<1>1. CASE Return("fail")
  BY <1>1, QuestReturn
<1>2. CASE req.op = "write" /\ pc' = "alloc" /\ UNCHANGED <<fat, slot, cwd, req, found>>
  <2>0. /\ pc = "find" /\ found = NoSlot /\ cur \in Links /\ Heads /\ DirInv /\ CwdReach
        /\ InChain(cur) => Hits(cur) = {} /\ Ended(cur)
    BY DEF FindMiss, TypeInv, Stage, LocalsOK, VolumeParts
  <2>1. view' = view /\ \A s \in SlotIds : view[s] = slot[s]
    BY <1>2, <2>0, ViewSame DEF view, View
  <2>2. Tidy(fat, view, cwd) /\ cwd \in Clusters
    BY <2>0, NearIn DEF CwdReach, Near
  <2>3. \A b \in Trail(fat, cwd) \ Trail(fat, cur), m \in Indices : ~ Sought(slot[<<b, m>>])
    BY <2>0 DEF VolumeParts, WalkFind
  <2>4. ASSUME cur \in Clusters
        PROVE  /\ Trail(fat, cur) = {cur}
               /\ \A m \in Indices : ~ Sought(slot[<<cur, m>>])
    <3>1. Hits(cur) = {} /\ Ended(cur) /\ cur \in Trail(fat, cwd)
      BY <2>0, <2>4, Apart DEF VolumeParts, WalkFind
    <3>2. PICK e \in Indices : slot[<<cur, e>>].kind = "end"
      BY <3>1 DEF Ended
    <3>3. \A m \in Indices : <<cur, m>> \in SlotIds
      BY <2>4 DEF SlotIds
    <3>4. fat[cur] \notin Clusters /\ \A k \in Indices : k > e => IsVacant(slot[<<cur, k>>])
      BY <2>1, <2>2, <3>1, <3>2, <3>3 DEF Tidy, IsVacant
    <3>5. Trail(fat, cur) = {cur}
      BY <2>4, <3>4, TrailSplit, TrailHas
    <3>6. ASSUME NEW m \in Indices, Sought(slot[<<cur, m>>]) PROVE FALSE
      <4> DEFINE I == {i \in Indices : Sought(slot[<<cur, i>>])}
      <4>1. I \in SUBSET Nat /\ m \in I
        BY <3>6, Apart
      <4> HIDE DEF I
      <4>2. PICK i \in I : \A k \in I : i <= k
        BY <4>1, Least
      <4>3. i \in Indices /\ Sought(slot[<<cur, i>>]) /\ \A k \in Indices : Sought(slot[<<cur, k>>]) => i <= k
        BY <4>2 DEF I
      <4>4. \A j \in 1 .. i - 1 : j \in Indices /\ j < i /\ ~ (i <= j)
        BY <4>3, VolumeAssumption DEF Indices
      <4>5. ASSUME NEW j \in 1 .. i - 1, slot[<<cur, j>>].kind = "end" PROVE FALSE
        <5>1. j \in Indices /\ j < i /\ IsVacant(slot[<<cur, j>>])
          BY <4>4, <4>5 DEF IsVacant
        <5>2. IsVacant(slot[<<cur, i>>])
          BY <2>1, <2>2, <3>1, <3>3, <4>3, <5>1, Apart DEF Tidy
        <5> QED BY <4>3, <5>2 DEF Sought, IsEntry, IsVacant
      <4>6. \A j \in 1 .. i - 1 : ~ Sought(slot[<<cur, j>>])
        BY <4>3, <4>4
      <4>7. i \in Hits(cur)
        BY <4>3, <4>5, <4>6 DEF Hits
      <4> QED BY <3>1, <4>7
    <3> QED BY <3>5, <3>6
  <2>5. \A b \in Trail(fat, cwd), m \in Indices : ~ Sought(slot[<<b, m>>])
    BY <2>3, <2>4, TrailHas
  <2>6. \A s \in Cells(fat, cwd) : ~ (IsEntry(view[s]) /\ view[s].name = req.key)
    <3> SUFFICES ASSUME NEW s \in Cells(fat, cwd) PROVE ~ Sought(view[s])
      BY DEF Sought
    <3>1. s[1] \in Trail(fat, cwd) /\ s[2] \in Indices /\ s = <<s[1], s[2]>> /\ s \in SlotIds
      BY CellsIn DEF Cells
    <3> QED BY <2>1, <2>5, <3>1
  <2>7. KeyAbsent'
    BY <1>2, <2>1, <2>6 DEF KeyAbsent
  <2> QED BY <1>2, <2>0, <2>7 DEF Quest, FoundKey, DataInv
<1> QED BY <1>1, <1>2 DEF FindMiss, disk, memory

(* The chain that the call has made is apart from what else it touches.    *)
LEMMA HeadApart ==
  ASSUME TypeInv, VolumeParts, pc # "undo"
  PROVE  /\ \A x \in Trail(fat, head) : fat[x] # Free
         /\ Trail(fat, head) \cap Trail(fat, cwd) = {}
         /\ pc = "elink" => cur \notin Trail(fat, head)
<1> SUFFICES ASSUME head \in Clusters
             PROVE  /\ \A x \in Trail(fat, head) : fat[x] # Free
                    /\ Trail(fat, head) \cap Trail(fat, cwd) = {}
                    /\ pc = "elink" => cur \notin Trail(fat, head)
  BY TrailHas
<1>1. Heads /\ CwdReach /\ head \in Holding
  BY DEF VolumeParts, Holding
<1>2. Single(fat) /\ Safe(fat) /\ fat[head] # Free /\ NoPred(fat, head)
  BY <1>1 DEF Heads, HeadsOK
<1>3. \A x \in Trail(fat, head) : fat[x] # Free
  BY <1>2, TrailTaken
<1>4. Trail(fat, head) \cap Trail(fat, cwd) = {}
  BY <1>1, CwdDir, DirsApart
<1>5. ASSUME pc = "elink" PROVE cur \notin Trail(fat, head)
  <2>1. cur \in Clusters /\ cur \in Holding /\ cur # head /\ cur \in Trail(fat, cur)
    BY <1>1, <1>5, TrailHas DEF TypeInv, Stage, Holding, Heads
  <2>2. NoPred(fat, cur)
    BY <1>1, <2>1 DEF Heads, HeadsOK
  <2> QED BY <1>2, <2>1, <2>2, TrailApart
<1> QED BY <1>3, <1>4, <1>5

(* Data that is all there stays there.                                     *)
LEMMA DataKept ==
  ASSUME TypeInv, DataInv, UNCHANGED <<head, req>>, pc \in {"slot", "extend", "elink", "clear", "entry"},
         pc' # "data",
         \A x \in Trail(fat, head) : fat'[x] = fat[x], \A s \in Cells(fat, head) : slot'[s] = slot[s]
  PROVE  DataInv'
<1>1. req.size \in Nat
  BY DEF TypeInv, CallOK, Requests
<1>2. Has(fat', slot', head, req.size, req.val) <=> Has(fat, slot, head, req.size, req.val)
  BY <1>1, HasSame
<1> QED BY <1>2 DEF DataInv

(* Steps that only move on over the disk keep what is known.               *)
LEMMA MoveQuest ==
  ASSUME ~ torn', TypeInv, VolumeParts, Quest,
         FindNext \/ SealFile \/ DataDone \/ SlotHit \/ SlotNext \/ SlotMiss
  PROVE  Quest'
<1>1. UNCHANGED fat
  BY SealSame DEF FindNext, DataDone, SlotHit, SlotNext, SlotMiss, disk
<1>2. UNCHANGED <<slot, found, cwd, req, head>> /\ pc \notin {"clear", "idle"} /\ pc' # "clear"
  BY DEF FindNext, SealFile, DataDone, SlotHit, SlotNext, SlotMiss, disk, memory
<1>3. view' = view
  BY <1>2, ViewSame
<1>4. FoundKey' /\ KeyAbsent'
  <2>1. CASE pc = "find"
    <3>1. found = NoSlot /\ pc' = "find"
      BY <2>1 DEF TypeInv, Stage, FindNext, SealFile, DataDone, SlotHit, SlotNext, SlotMiss
    <3> QED BY <1>2, <3>1 DEF FoundKey, KeyAbsent
  <2>2. CASE pc # "find"
    BY <1>1, <1>2, <1>3, <2>2, KeySame, FoundCell DEF Quest
  <2> QED BY <2>1, <2>2
<1>5. DataInv'
  <2>1. CASE FindNext
    <3>1. pc' = "find"
      BY <2>1 DEF FindNext
    <3> QED BY <3>1 DEF DataInv
  <2>2. CASE SealFile
    <3>1. pc' = "data" /\ cur' = head /\ left' = req.size /\ req.size \in Nat
      BY <2>2 DEF SealFile, TypeInv, CallOK, Requests
    <3>2. Has(fat, slot, head, req.size - left', req.val)
      <4>1. req.size - left' = 0
        BY <3>1
      <4>2. Has(fat, slot, head, 0, req.val)
        BY DEF Has
      <4> QED BY <4>1, <4>2
    <3>3. Cardinality(Trail(fat, head) \ Trail(fat, head)) * SlotsPerCluster = req.size - left'
      <4>1. Trail(fat, head) \ Trail(fat, head) = {}
        OBVIOUS
      <4>2. Cardinality(Trail(fat, head) \ Trail(fat, head)) = 0
        BY <4>1, FS_EmptySet
      <4>3. req.size - left' = 0 /\ 0 * SlotsPerCluster = 0
        BY <3>1, VolumeAssumption
      <4> QED BY <4>2, <4>3
    <3> QED BY <1>1, <1>2, <3>1, <3>2, <3>3 DEF DataInv
  <2>3. CASE DataDone
    <3>1. pc = "data" /\ ~ (cur >= 2 /\ left > 0) /\ pc' \in {"slot", "entry"} /\ left \in Nat /\ req.size \in Nat
      BY <2>3 DEF DataDone, TypeInv, LocalsOK, CallOK, Requests
    <3>2. left = 0
      <4> SUFFICES ASSUME left > 0 PROVE FALSE
        BY <3>1
      <4>0. ~ torn
        BY <2>3 DEF DataDone, history
      <4>1. PICK n \in Nat : left <= n * SlotsPerCluster /\ \E b \in Clusters : Row(fat, n, cur, b)
        BY <3>1, <4>0 DEF TypeInv, Fresh
      <4>2. n >= 1
        BY <3>1, <4>1, VolumeAssumption
      <4>3. cur \in Clusters
        BY <4>1, <4>2 DEF Row
      <4> QED BY <3>1, <4>3, Apart
    <3>3. req.size - left = req.size
      BY <3>1, <3>2
    <3> QED BY <1>1, <1>2, <3>1, <3>3 DEF Quest, DataInv
  <2>4. CASE SlotHit \/ SlotNext \/ SlotMiss
    <3>1. pc = "slot" /\ pc' \in {"slot", "extend", "entry"}
      BY <2>4 DEF SlotHit, SlotNext, SlotMiss
    <3> QED BY <1>1, <1>2, <3>1, DataKept DEF Quest
  <2> QED BY <2>1, <2>2, <2>3, <2>4
<1> QED BY <1>4, <1>5 DEF Quest

(* So do those that end freeing or allocating.                             *)
LEMMA EndQuest ==
  ASSUME TypeInv, VolumeParts, Quest, FreeDone \/ AllocFull
  PROVE  Quest'
<1>1. CASE Return("fail")
  BY <1>1, QuestReturn
<1>2. CASE pc' \in {"alloc", "undo"} /\ UNCHANGED <<req, found>>
  <2>1. UNCHANGED <<fat, slot, cwd>> /\ pc \notin {"idle", "find", "clear"}
    BY DEF FreeDone, AllocFull, disk, memory
  <2>2. view' = view
    BY <1>2, <2>1, ViewSame
  <2>3. FoundKey' /\ KeyAbsent'
    BY <1>2, <2>1, <2>2, KeySame, FoundCell DEF Quest
  <2> QED BY <1>2, <2>3 DEF Quest, DataInv
<1> QED BY <1>1, <1>2 DEF FreeDone, AllocFull

(* Numbers in the K-th row of S places.                                    *)
LEMMA DivPlace ==
  ASSUME NEW S \in Nat, S >= 1, NEW K \in Nat, NEW m \in Nat, m >= 1, m <= S, NEW i, i = K * S + m
  PROVE  (i - 1) \div S = K /\ (i - 1) % S = m - 1
<1>1. i - 1 = K * S + (m - 1) /\ i - 1 \in Nat
  OBVIOUS
<1> QED BY <1>1

(* No earlier chunk is in the next cluster.                                *)
LEMMA DivLess ==
  ASSUME NEW S \in Nat, S >= 1, NEW K \in Nat, NEW i \in Nat \ {0}, i <= K * S
  PROVE  (i - 1) \div S # K
OBVIOUS

(* The data of one more cluster is in its place.                           *)
LEMMA WriteDataData ==
  ASSUME ~ torn, TypeInv, VolumeParts, DataInv, WriteData, UNCHANGED faults
  PROVE  DataInv'
<1> DEFINE T == Trail(fat, head)
           K == Cardinality(T \ Trail(fat, cur))
           done == req.size - left
           S == SlotsPerCluster
<1>0. cur \in Clusters /\ cur' = fat[cur]
  BY DataInside
<1>1. /\ pc = "data" /\ pc' = "data" /\ left > 0 /\ left \in Nat /\ req.size \in Nat /\ left <= req.size
      /\ UNCHANGED <<fat, req, head>> /\ cur' = fat[cur]
      /\ left' = IF left < S THEN 0 ELSE left - S
      /\ S \in Nat /\ S >= 2 /\ Indices = 1 .. S
  BY <1>0, VolumeAssumption DEF WriteData, TypeInv, LocalsOK, CallOK, Requests, Stage, Indices
<1>2. cur \in Clusters /\ cur \in T /\ head \in Clusters
  <2>3. cur \in Clusters
    BY <1>0
  <2>4. cur \in T
    BY <1>1, <2>3 DEF VolumeParts, WalkFile
  <2> QED BY <2>3, <2>4, TrailHas
<1>3. \A s \in SlotIds :
        slot'[s] = IF s[1] = cur
                   THEN (IF s[2] <= left THEN Chunk(req.val, done + s[2]) ELSE End)
                   ELSE slot[s]
  <2> DEFINE new == [i \in Indices |-> IF i <= left THEN Chunk(req.val, done + i) ELSE End]
  <2>1. WriteCluster(cur, new)
    BY DEF WriteData
  <2>2. \A i \in Indices : new[i] = IF i <= left THEN Chunk(req.val, done + i) ELSE End
    OBVIOUS
  <2>3. \A s \in SlotIds : s[2] \in Indices
    BY DEF SlotIds
  <2> HIDE DEF new, done
  <2> QED BY <2>1, <2>2, <2>3, WriteWhole
<1>4. Has(fat, slot, head, done, req.val) /\ K * S = done
  BY <1>1 DEF DataInv
<1>5. \A c : IsFiniteSet(T \ Trail(fat, c)) /\ Cardinality(T \ Trail(fat, c)) \in Nat
  BY ClusterCount, TrailHas, FS_Subset, FS_CardinalityType
<1>6. done \in Nat /\ K \in Nat /\ req.size = done + left
  <2>1. K \in Nat
    BY <1>5
  <2>2. done \in Nat /\ req.size = done + left
    BY <1>1
  <2> QED BY <2>1, <2>2
<1>7. ASSUME NEW i \in 1 .. req.size - left'
      PROVE  \E b \in T : /\ Cardinality(T \ Trail(fat, b)) = (i - 1) \div S
                          /\ slot'[<<b, ((i - 1) % S) + 1>>] = Chunk(req.val, i)
  <2>0. req.size - left' \in Nat /\ i \in Nat \ {0}
    BY <1>1
  <2>1. ((i - 1) % S) + 1 \in Indices /\ (i - 1) \div S \in Nat
    BY <2>0, PlaceIn
  <2>2. CASE i <= done
    <3>1. i \in 1 .. done
      BY <1>6, <2>0, <2>2
    <3>2. PICK b \in T : /\ Cardinality(T \ Trail(fat, b)) = (i - 1) \div S
                         /\ slot[<<b, ((i - 1) % S) + 1>>] = Chunk(req.val, i)
      BY <1>4, <3>1 DEF Has
    <3>3. b # cur
      <4>1. (i - 1) \div S # K
        <5> HIDE DEF done, K, S
        <5> QED BY <1>1, <1>4, <1>6, <2>0, <2>2, DivLess
      <4> QED BY <3>2, <4>1
    <3>4. b \in Clusters /\ <<b, ((i - 1) % S) + 1>> \in SlotIds
      BY <2>1, TrailHas DEF SlotIds
    <3>5. slot'[<<b, ((i - 1) % S) + 1>>] = slot[<<b, ((i - 1) % S) + 1>>]
      BY <1>3, <3>3, <3>4
    <3> QED BY <3>2, <3>5
  <2>3. CASE i > done
    <3> DEFINE m == i - done
    <3>1. m \in Nat /\ m >= 1 /\ m <= S /\ m <= left /\ i = K * S + m
      <4>1. i \in Nat /\ i <= req.size - left'
        BY <2>0
      <4>2. K * S = done
        BY <1>4
      <4>3. m \in Nat /\ m >= 1 /\ i = done + m
        <5> HIDE DEF done
        <5> QED BY <1>6, <2>3, <4>1
      <4>4. m <= left /\ m <= S
        <5> HIDE DEF done, m, K
        <5> QED BY <1>1, <1>6, <4>1, <4>3
      <4> HIDE DEF K, S, m, done
      <4> QED BY <4>2, <4>3, <4>4
    <3>2. (i - 1) \div S = K /\ (i - 1) % S = m - 1
      <4>1. S \in Nat /\ S >= 1 /\ K \in Nat /\ m \in Nat /\ m >= 1 /\ m <= S /\ i = K * S + m
        BY <1>1, <1>6, <3>1
      <4> HIDE DEF K, S, m
      <4> QED BY <4>1, DivPlace
    <3>3. ((i - 1) % S) + 1 = m
      BY <3>1, <3>2
    <3>4. <<cur, m>> \in SlotIds
      BY <1>1, <1>2, <3>1 DEF SlotIds
    <3>5. slot'[<<cur, m>>] = Chunk(req.val, done + m) /\ done + m = i
      <4>1. <<cur, m>>[1] = cur /\ <<cur, m>>[2] = m
        OBVIOUS
      <4>2. slot'[<<cur, m>>] = Chunk(req.val, done + m)
        <5> HIDE DEF m, done
        <5> QED BY <1>3, <3>1, <3>4, <4>1
      <4> QED BY <1>6, <2>0, <4>2
    <3> QED BY <1>2, <3>2, <3>3, <3>5
  <2>4. i <= done \/ i > done
    <3> HIDE DEF done
    <3> QED BY <1>6, <2>0
  <2> QED BY <2>2, <2>3, <2>4
<1>8. Has(fat', slot', head', req'.size - left', req'.val)
  BY <1>1, <1>7 DEF Has
<1>9. ASSUME left' > 0
      PROVE  Cardinality(T \ Trail(fat, fat[cur])) * S = req.size - left'
  <2>1. left' = left - S /\ left > S
    BY <1>1, <1>9
  <2>2. T \ Trail(fat, fat[cur]) = (T \ Trail(fat, cur)) \cup {cur}
    <3>1. cur \notin Trail(fat, fat[cur])
      <4>1. Single(fat) /\ NoPred(fat, head)
        <5>1. head \in Holding
          BY <1>1 DEF Holding
        <5> QED BY <1>2, <5>1 DEF VolumeParts, Heads, HeadsOK
      <4> QED BY <1>2, <4>1, TrailAcyclic
    <3>2. Trail(fat, cur) = {cur} \cup Trail(fat, fat[cur])
      BY <1>2, TrailSplit
    <3> HIDE DEF T
    <3> QED BY <1>2, <3>1, <3>2
  <2>3. cur \notin T \ Trail(fat, cur)
    BY <1>2, TrailHas
  <2>4. Cardinality((T \ Trail(fat, cur)) \cup {cur}) = K + 1
    BY <1>5, <2>3, FS_AddElement
  <2>5. Cardinality(T \ Trail(fat, fat[cur])) = K + 1
    BY <2>2, <2>4
  <2>6. (K + 1) * S = done + S
    <3> HIDE DEF K, S, done
    <3> QED BY <1>1, <1>4, <1>6
  <2>7. done + S = req.size - left'
    BY <1>1, <2>1
  <2> QED BY <2>5, <2>6, <2>7
<1>10. pc' \notin {"slot", "extend", "elink", "clear", "entry"}
  BY <1>1
<1> QED BY <1>1, <1>8, <1>9, <1>10 DEF DataInv

(* What the call knows of its entry and its data survives every write      *)
(* that succeeds: to a spare cluster,                                      *)
LEMMA DiskQuest ==
  ASSUME ~ torn', TypeInv, VolumeParts, Quest, UNCHANGED faults,
         FreeStep \/ AllocFile \/ LinkFile \/ WriteData \/ WriteDots \/ Extend
  PROVE  Quest'
<1>1. PICK c : Touches(c)
  BY DiskStep
<1>2. UNCHANGED <<found, cwd, req>> /\ pc \notin {"idle", "find", "clear"} /\ pc' # "clear"
  BY DEF FreeStep, AllocFile, LinkFile, WriteData, WriteDots, Extend, memory
<1>3. FoundKey' /\ KeyAbsent'
  <2>1. Heads /\ cwd \in Tree(fat, view, {found})
    BY CwdInTree DEF VolumeParts
  <2>2. /\ \A x \in Trail(fat, cwd) : fat'[x] = fat[x]
        /\ \A s \in Cells(fat, cwd) : view'[s] = view[s]
        /\ \A s \in Cells(fat, cwd) : slot'[s] = slot[s]
    BY <1>1, <1>2, <2>1, TouchAround DEF Around, Agrees
  <2> QED BY <1>2, <2>2, KeySame, FoundCell DEF Quest
<1>4. DataInv'
  <2>1. CASE FreeStep \/ AllocFile \/ LinkFile
    <3>1. pc' \in {"free", "undo", "alloc", "link"}
      BY <2>1 DEF FreeStep, AllocFile, LinkFile
    <3> QED BY <3>1 DEF DataInv
  <2>2. CASE WriteData
    BY <2>2, WriteDataData DEF Quest, WriteData
  <2>3. CASE WriteDots
    <3>1. req'.op = "mkdir" /\ pc' = "slot"
      BY <2>3 DEF WriteDots, TypeInv, Stage
    <3> QED BY <3>1 DEF DataInv
  <2>4. CASE Extend
    <3>1. PICK b \in NearestFree : SetFat(b, Eoc)
      BY <2>4 DEF Extend
    <3>2. /\ pc = "extend" /\ pc' = "elink" /\ UNCHANGED <<slot, head>>
          /\ fat[b] = Free /\ fat \in [Clusters -> Links] /\ fat' = [fat EXCEPT ![b] = Eoc]
      BY <2>4, <3>1 DEF Extend, TypeInv, DiskOK, NearestFree, FreeClusters, SetFat
    <3>3. \A x \in Trail(fat, head) : fat'[x] = fat[x]
      BY <3>2, HeadApart, TrailHas
    <3> QED BY <1>2, <3>2, <3>3, DataKept DEF Quest
  <2> QED BY <2>1, <2>2, <2>3, <2>4
<1> QED BY <1>3, <1>4 DEF Quest

(* of the link that enlarges the directory,                                *)
LEMMA LinkDirQuest ==
  ASSUME ~ torn', TypeInv, VolumeParts, Quest, LinkDir
  PROVE  Quest'
<1>1. /\ pc = "elink" /\ pc' = "clear" /\ fat' = [fat EXCEPT ![last] = cur, ![cur] = Eoc]
      /\ UNCHANGED <<slot, found, cwd, cur, req, head>> /\ fat \in [Clusters -> Links]
      /\ cur \in Clusters /\ last \in Clusters /\ found = NoSlot
  BY LinkDirTable DEF LinkDir, TypeInv, DiskOK, Stage, locals, memory
<1>2. last \in Trail(fat, cwd) /\ fat[last] \notin Clusters /\ fat[cur] \notin Clusters
  BY <1>1 DEF VolumeParts, WalkSlot
<1>3. DataInv'
  <2>1. last \notin Trail(fat, head) /\ cur \notin Trail(fat, head)
    BY <1>1, <1>2, HeadApart
  <2>2. \A x \in Trail(fat, head) : fat'[x] = fat[x]
    BY <1>1, <2>1, TrailHas
  <2> QED BY <1>1, <2>2, DataKept DEF Quest
<1>4. KeyAbsent'
  <2>1. Trail(fat', cwd) \subseteq Trail(fat, cwd) \cup {cur}
    <3>1. last # cur
      BY LinkDirDirs
    <3>2. fat'[last] = cur /\ fat'[cur] \notin Clusters
      BY <1>1, <3>1, Apart
    <3>3. \A y \in Clusters \ {last, cur} : fat'[y] = fat[y]
      BY <1>1
    <3>4. cur \in Clusters
      BY <1>1
    <3> QED BY <3>2, <3>3, <3>4, TrailMore
  <2>2. \A s \in SlotIds : view[s] = slot[s] /\ view'[s] = IF s[1] = cur THEN End ELSE slot[s]
    BY <1>1 DEF view, View
  <2> SUFFICES ASSUME req'.op = "write", NEW s \in Cells(fat', cwd'), IsEntry(view'[s])
               PROVE  view'[s].name # req'.key
    BY DEF KeyAbsent
  <2>3. s \in SlotIds /\ s[1] \in Trail(fat', cwd) /\ s[2] \in Indices /\ s = <<s[1], s[2]>>
    BY <1>1, CellsIn DEF Cells
  <2>4. s[1] # cur
    BY <2>2, <2>3 DEF IsEntry, End
  <2>5. s \in Cells(fat, cwd)
    BY <2>1, <2>3, <2>4 DEF Cells
  <2>6. view'[s] = view[s]
    BY <2>2, <2>3, <2>4
  <2> QED BY <1>1, <2>5, <2>6 DEF Quest, KeyAbsent
<1> QED BY <1>1, <1>3, <1>4 DEF Quest, FoundKey

(* and of the end marks in the new cluster.                                *)
LEMMA ClearDirQuest ==
  ASSUME TypeInv, VolumeParts, Quest, UNCHANGED faults, ClearDir
  PROVE  Quest'
<1>1. /\ pc = "clear" /\ pc' = "entry" /\ UNCHANGED <<fat, found, cwd, cur, req, head>>
      /\ WriteCluster(cur, [i \in Indices |-> End]) /\ found = NoSlot /\ cur \in Trail(fat, cwd)
  BY DEF ClearDir, TypeInv, Stage, memory, VolumeParts, WalkSlot
<1>2. \A s \in SlotIds : slot'[s] = IF s[1] = cur THEN End ELSE slot[s]
  <2> DEFINE new == [i \in Indices |-> End]
  <2>1. \A s \in SlotIds : new[s[2]] = End
    BY DEF SlotIds
  <2>2. WriteCluster(cur, new)
    BY <1>1
  <2> HIDE DEF new
  <2> QED BY <2>1, <2>2, WriteWhole
<1>3. DataInv'
  <2>1. cur \notin Trail(fat, head)
    BY <1>1, HeadApart
  <2>2. \A s \in Cells(fat, head) : s \in SlotIds /\ s[1] # cur
    BY <2>1, CellsIn DEF Cells
  <2>3. \A s \in Cells(fat, head) : slot'[s] = slot[s]
    BY <1>2, <2>2
  <2> QED BY <1>1, <2>3, DataKept DEF Quest
<1>4. KeyAbsent'
  <2>1. \A s \in SlotIds : IsEntry(view'[s]) => view'[s] = view[s]
    <3> SUFFICES ASSUME NEW s \in SlotIds, IsEntry(view'[s]) PROVE view'[s] = view[s]
      OBVIOUS
    <3>1. view'[s] = slot'[s] /\ view[s] = IF s[1] = cur THEN End ELSE slot[s]
      BY <1>1 DEF view, View
    <3> QED BY <1>2, <3>1 DEF IsEntry, End
  <2> QED BY <1>1, <2>1, CellsIn DEF Quest, KeyAbsent
<1> QED BY <1>1, <1>3, <1>4 DEF Quest, FoundKey

(* While every write succeeds, each step keeps what the call knows of its  *)
(* entry and its data.                                                     *)
LEMMA QuestStep ==
  ASSUME ~ torn, ~ torn', TypeInv, VolumeParts, Quest, UNCHANGED faults, [Next]_vars
  PROVE  Quest'
<1>1. CASE Call
  BY <1>1, CallQuest
<1>2. CASE FindHit \/ FindMiss
  BY <1>2, FindHitQuest, FindMissQuest
<1>3. CASE FindNext \/ SealFile \/ DataDone \/ SlotHit \/ SlotNext \/ SlotMiss
  BY <1>3, MoveQuest
<1>4. CASE FreeDone \/ AllocFull
  BY <1>4, EndQuest
<1>5. CASE FreeStep \/ AllocFile \/ LinkFile \/ WriteData \/ WriteDots \/ Extend
  BY <1>5, DiskQuest
<1>6. CASE LinkDir
  BY <1>6, LinkDirQuest
<1>7. CASE ClearDir
  BY <1>7, ClearDirQuest
<1>8. CASE WriteEntry \/ Crash
  BY <1>8, QuestReturn DEF WriteEntry, Crash
<1>9. CASE UNCHANGED vars
  <2> USE <1>9 DEF vars, disk, memory, locals, history
  <2>1. view' = view
    BY DEF view, View
  <2>2. FoundKey'
    BY <2>1 DEF Quest, FoundKey, First, Cells
  <2>3. KeyAbsent'
    BY <2>1 DEF Quest, KeyAbsent, Cells
  <2>4. DataInv'
    BY DEF Quest, DataInv, Has
  <2> QED BY <2>2, <2>3, <2>4 DEF Quest
<1>10. ~ Reload
  BY DEF Reload, TypeInv, OneTable
<1> QED BY <1>1, <1>2, <1>3, <1>4, <1>5, <1>6, <1>7, <1>8, <1>9, <1>10 DEF Next, Step

-----------------------------------------------------------------------------
(* What a lookup finds after an entry has been written: the same where     *)
(* names stay, and a new entry only where there was none of its name.      *)
LEMMA RenamedFinds ==
  ASSUME NEW f, NEW v, NEW w,
         \A s \in SlotIds : (IsEntry(w[s]) <=> IsEntry(v[s])) /\ (IsEntry(v[s]) => w[s].name = v[s].name)
  PROVE  \A d, n : Finds(f, w, d, n) = Finds(f, v, d, n)
<1> SUFFICES ASSUME NEW d, NEW n PROVE Finds(f, w, d, n) = Finds(f, v, d, n)
  OBVIOUS
<1>1. \A s \in Cells(f, d) : s \in SlotIds
  BY CellsIn
<1>2. \A t \in Cells(f, d) : IsEntry(v[t]) => (First(f, w, d, t) <=> First(f, v, d, t))
  BY <1>1 DEF First
<1> QED BY <1>1, <1>2 DEF Finds

(* The records w are v with an entry written to the vacant record a of     *)
(* directory d, behind its other entries.                                  *)
Added(f, v, w, d, a) ==
  /\ d \in Clusters /\ a \in Cells(f, d) /\ Tidy(f, v, d)
  /\ IsVacant(v[a]) /\ IsEntry(w[a])
  /\ \A s \in SlotIds : s # a => w[s] = v[s]

(* A lookup of its name then finds the new entry, and lookups of other     *)
(* names find what they found.                                             *)
LEMMA AddedFinds ==
  ASSUME NEW f, NEW v, NEW w, NEW d, NEW a, Added(f, v, w, d, a)
  PROVE  \A n : \/ Finds(f, w, d, n) = Finds(f, v, d, n)
                \/ /\ n = w[a].name /\ Finds(f, w, d, n) = {a}
                   /\ \A s \in Cells(f, d) : ~ (IsEntry(v[s]) /\ v[s].name = n)
<1> USE DEF Added
<1>1. a \in SlotIds /\ a[1] \in Trail(f, d) /\ a[2] \in Indices /\ a = <<a[1], a[2]>> /\ ~ IsEntry(v[a])
  BY CellsIn DEF Cells, IsEntry, IsVacant
<1>2. Trail(f, f[a[1]]) = {} /\ \A k \in Indices : k > a[2] => IsVacant(v[<<a[1], k>>])
  BY <1>1, TrailHas DEF Tidy
<1>3. ASSUME NEW s \in Cells(f, d)
      PROVE  s \in SlotIds /\ s[1] \in Trail(f, d) /\ s[2] \in Indices /\ s = <<s[1], s[2]>>
  BY CellsIn DEF Cells
<1>4. ASSUME NEW s \in Cells(f, d), IsEntry(v[s])
      PROVE  /\ s # a /\ w[s] = v[s]
             /\ a[1] = s[1] => s[2] < a[2]
             /\ a[1] = s[1] \/ a[1] \in Trail(f, f[s[1]])
  <2>1. s # a /\ w[s] = v[s]
    BY <1>1, <1>3, <1>4
  <2>2. ASSUME a[1] = s[1] PROVE s[2] < a[2]
    <3>1. s[2] # a[2]
      BY <1>1, <1>3, <2>1, <2>2
    <3>2. ~ (s[2] > a[2])
      BY <1>2, <1>3, <1>4, <2>2 DEF IsVacant, IsEntry
    <3>3. s[2] \in Nat /\ a[2] \in Nat
      BY <1>1, <1>3, Apart
    <3> QED BY <3>1, <3>2, <3>3
  <2>3. a[1] # s[1] => a[1] \in Trail(f, f[s[1]])
    BY <1>1, <1>2, <1>3, TrailLinear
  <2> QED BY <2>1, <2>2, <2>3
<1>5. ASSUME NEW t \in Cells(f, d), IsEntry(v[t])
      PROVE  First(f, w, d, t) <=> First(f, v, d, t)
  <2>1. ASSUME NEW u \in Cells(f, d), u # a
        PROVE  w[u] = v[u]
    BY <1>3, <2>1
  <2>2. w[t] = v[t] /\ (a[1] = t[1] => t[2] <= a[2]) /\ t[1] \notin Trail(f, f[a[1]])
    <3>1. t[2] \in Nat /\ a[2] \in Nat
      BY <1>1, <1>3, Apart
    <3> QED BY <1>2, <1>4, <1>5, <3>1
  <2> QED BY <1>1, <2>1, <2>2 DEF First
<1>6. ASSUME NEW s \in Cells(f, d), IsEntry(v[s]), v[s].name = w[a].name
      PROVE  ~ First(f, w, d, a)
  <2>1. IsEntry(w[s]) /\ w[s].name = w[a].name
    BY <1>4, <1>6
  <2>2. s[2] \in Nat /\ a[2] \in Nat
    BY <1>1, <1>3, Apart
  <2>3. (s[1] = a[1] /\ ~ (a[2] <= s[2])) \/ a[1] \in Trail(f, f[s[1]])
    BY <1>4, <1>6, <2>2
  <2> QED BY <2>1, <2>3 DEF First
<1> SUFFICES ASSUME NEW n
             PROVE  \/ Finds(f, w, d, n) = Finds(f, v, d, n)
                    \/ /\ n = w[a].name /\ Finds(f, w, d, n) = {a}
                       /\ \A s \in Cells(f, d) : ~ (IsEntry(v[s]) /\ v[s].name = n)
  OBVIOUS
<1>7. \A s \in Cells(f, d) : s # a =>
         (s \in Finds(f, w, d, n) <=> s \in Finds(f, v, d, n))
  BY <1>3, <1>5 DEF Finds
<1>8. a \notin Finds(f, v, d, n)
  BY <1>1 DEF Finds
<1>9. Finds(f, w, d, n) \subseteq Cells(f, d) /\ Finds(f, v, d, n) \subseteq Cells(f, d)
  BY DEF Finds
<1>10. CASE a \notin Finds(f, w, d, n)
  BY <1>7, <1>8, <1>9, <1>10
<1>11. CASE a \in Finds(f, w, d, n)
  <2>1. n = w[a].name /\ First(f, w, d, a)
    BY <1>11 DEF Finds
  <2>2. \A s \in Cells(f, d) : ~ (IsEntry(v[s]) /\ v[s].name = n)
    BY <1>6, <2>1
  <2>3. Finds(f, w, d, n) = {a}
    BY <1>11, FindsOne
  <2> QED BY <2>1, <2>2, <2>3
<1> QED BY <1>10, <1>11

(* Where there was none of its name, the new entry is found.               *)
LEMMA AddedFound ==
  ASSUME NEW f, NEW v, NEW w, NEW d, NEW a, Added(f, v, w, d, a),
         \A s \in Cells(f, d) : ~ (IsEntry(v[s]) /\ v[s].name = w[a].name)
  PROVE  Finds(f, w, d, w[a].name) = {a} /\ Finds(f, v, d, w[a].name) = {}
<1> USE DEF Added
<1>1. a \in SlotIds /\ a[1] \in Trail(f, d) /\ a[2] \in Indices /\ a = <<a[1], a[2]>>
  BY CellsIn DEF Cells
<1>2. Trail(f, f[a[1]]) = {}
  BY <1>1, TrailHas DEF Tidy
<1>3. \A s \in Cells(f, d) : IsEntry(w[s]) /\ w[s].name = w[a].name => s = a
  BY CellsIn
<1>4. First(f, w, d, a)
  BY <1>1, <1>2, <1>3, Apart DEF First
<1> QED BY <1>3, <1>4 DEF Finds

-----------------------------------------------------------------------------
(* A file whose data is all there reads as what was written.               *)
LEMMA TextIs ==
  ASSUME NEW f, NEW r, NEW c, NoPred(f, c), NEW k \in Nat \ {0}, NEW x \in Values, Has(f, r, c, k, x)
  PROVE  \A e : e.kind # "dir" /\ e.first = c /\ e.size = k => Means(f, r, e) = File(x, k)
<1>1. 1 \in 1 .. k /\ (1 - 1) \div SlotsPerCluster = 0 /\ (1 - 1) % SlotsPerCluster = 0
  BY VolumeAssumption
<1>2. \A b : IsFiniteSet(Trail(f, c) \ Trail(f, b))
  BY ClusterCount, TrailHas, FS_Subset
<1>3. ASSUME NEW y, Has(f, r, c, k, y)
      PROVE  r[<<c, 1>>] = Chunk(y, 1)
  <2>1. PICK b \in Trail(f, c) : /\ Cardinality(Trail(f, c) \ Trail(f, b)) = (1 - 1) \div SlotsPerCluster
                                 /\ r[<<b, ((1 - 1) % SlotsPerCluster) + 1>>] = Chunk(y, 1)
    BY <1>1, <1>3 DEF Has
  <2>2. Cardinality(Trail(f, c) \ Trail(f, b)) = 0 /\ r[<<b, 1>>] = Chunk(y, 1)
    BY <1>1, <2>1
  <2>3. Trail(f, c) \ Trail(f, b) = {}
    BY <1>2, <2>2, FS_EmptySet
  <2>4. b \in Clusters /\ c \in Clusters
    BY TrailHas
  <2>5. c \in Trail(f, b)
    BY <2>3, <2>4, TrailHas
  <2>6. c = b
    BY <2>4, <2>5, TrailPred, TrailHas DEF NoPred
  <2> QED BY <2>2, <2>6
<1>4. ASSUME NEW y, Has(f, r, c, k, y) PROVE y = x
  <2>1. r[<<c, 1>>] = Chunk(y, 1)
    BY <1>3, <1>4
  <2>2. r[<<c, 1>>] = Chunk(x, 1)
    BY <1>3
  <2>3. Chunk(x, 1).val = x /\ Chunk(y, 1).val = y
    BY DEF Chunk
  <2> QED BY <2>1, <2>2, <2>3
<1> SUFFICES ASSUME NEW e, e.kind # "dir", e.first = c, e.size = k PROVE Means(f, r, e) = File(x, k)
  OBVIOUS
<1>5. Texts(f, r, e) = {x}
  BY <1>4 DEF Texts
<1>6. Pick({x}) = x
  <2>1. Pick({x}) \in {x}
    BY DEF Pick
  <2> QED BY <2>1
<1> QED BY <1>5, <1>6 DEF Means

(* The entry that ends a call (fat32.c:453, fat32.c:546) and the step that *)
(* writes it.                                                              *)
NewEntry == Entry(IF req.op = "mkdir" THEN "dir" ELSE "file", req.key, head, req.size)
Written ==
  /\ pc = "entry" /\ pc' = "idle" /\ ret' = "ok" /\ found' = NoSlot /\ UNCHANGED <<fat, cwd, torn>>
  /\ Running /\ ~ Running'
  /\ target \in SlotIds /\ target \in Cells(fat, cwd)
  /\ \A s \in SlotIds : view[s] = slot[s] /\ view'[s] = slot'[s]
  /\ slot'[target] = NewEntry
  /\ \A s \in SlotIds : s # target => slot'[s] = slot[s]
  /\ found # NoSlot => target = found
  /\ found = NoSlot => IsVacant(slot[target])
  /\ Named(NewEntry) /\ NewEntry.name = req.key /\ NewEntry.first = head /\ NewEntry.size = req.size
  /\ NewEntry.kind = IF req.op = "mkdir" THEN "dir" ELSE "file"
  /\ req.op \in {"write", "mkdir"}

(* WriteEntry is such a step when its write succeeds.                      *)
LEMMA WriteEntryIs ==
  ASSUME TypeInv, VolumeParts, WriteEntry, UNCHANGED faults
  PROVE  Written
<1>1. faults \in Nat /\ slot \in [SlotIds -> Records]
  BY InputAssumption DEF TypeInv, PastOK, DiskOK
<1>2. slot' = [slot EXCEPT ![target] = NewEntry] /\ UNCHANGED torn
  BY <1>1 DEF WriteEntry, NewEntry
<1>3. /\ pc = "entry" /\ pc' = "idle" /\ ret' = "ok" /\ found' = NoSlot /\ UNCHANGED <<fat, cwd>>
      /\ req' = NoCall
  BY DEF WriteEntry, Return, ClearLocals, memory
<1>4. target \in SlotIds /\ (found # NoSlot => target = found) /\ req.op \in {"write", "mkdir"} /\ req.key \in ShortNames
  BY <1>3 DEF TypeInv, Stage, Asked
<1>5. target[1] \in Trail(fat, cwd) /\ (found = NoSlot => IsVacant(slot[target]))
  BY <1>3 DEF VolumeParts, WalkSlot
<1>6. target \in Cells(fat, cwd)
  BY <1>4, <1>5 DEF Cells, SlotIds
<1>7. \A s \in SlotIds : view[s] = slot[s] /\ view'[s] = slot'[s]
  BY <1>3 DEF view, View
<1>8. slot'[target] = NewEntry /\ \A s \in SlotIds : s # target => slot'[s] = slot[s]
  BY <1>1, <1>2, <1>4
<1>9. Running /\ ~ Running'
  BY <1>3, <1>4 DEF Running
<1>10. /\ Named(NewEntry) /\ NewEntry.name = req.key /\ NewEntry.first = head /\ NewEntry.size = req.size
       /\ NewEntry.kind = IF req.op = "mkdir" THEN "dir" ELSE "file"
  BY <1>4 DEF NewEntry, Entry, Named, IsEntry
<1> QED BY <1>2, <1>3, <1>4, <1>5, <1>6, <1>7, <1>8, <1>9, <1>10 DEF Written

(* It means what the call was asked for.                                   *)
LEMMA WrittenMeans ==
  ASSUME TypeInv, VolumeParts, DataInv, Written
  PROVE  Means(fat, slot', NewEntry) = IF req.op = "write" THEN File(req.val, req.size) ELSE Dir(head)
<1> USE DEF Written
<1>1. CASE req.op = "mkdir"
  BY <1>1 DEF Means
<1>2. CASE req.op = "write"
  <2>1. NewEntry.kind # "dir" /\ req.size \in Nat /\ req.val \in Values
    BY <1>2 DEF TypeInv, CallOK, Requests, Asked
  <2>2. CASE req.size = 0
    BY <1>2, <2>1, <2>2 DEF Means, File
  <2>3. CASE req.size # 0
    <3>1. Has(fat, slot, head, req.size, req.val)
      BY <1>2 DEF DataInv
    <3>2. head \in Clusters
      <4>1. 1 \in 1 .. req.size
        BY <2>1, <2>3
      <4>2. PICK b \in Trail(fat, head) : TRUE
        BY <3>1, <4>1 DEF Has
      <4> QED BY <4>2, TrailHas
    <3>3. \A s \in Cells(fat, head) : s \in SlotIds /\ s # target
      <4>1. Trail(fat, head) \cap Trail(fat, cwd) = {} /\ target[1] \in Trail(fat, cwd)
        BY HeadApart DEF Cells
      <4>2. \A s \in Cells(fat, head) : s[1] \in Trail(fat, head)
        BY DEF Cells
      <4> QED BY <4>1, <4>2, CellsIn
    <3>4. Has(fat, slot', head, req.size, req.val)
      BY <2>1, <3>1, <3>3, HasSame
    <3>5. NoPred(fat, head)
      <4>1. head \in Holding \cap Clusters
        BY <3>2 DEF Holding
      <4> QED BY <4>1 DEF VolumeParts, Heads, HeadsOK
    <3>6. Means(fat, slot', NewEntry) = File(req.val, req.size)
      BY <2>1, <2>3, <3>4, <3>5, TextIs
    <3> QED BY <1>2, <3>6
  <2> QED BY <2>2, <2>3
<1> QED BY <1>1, <1>2

(* Files stay as they are.                                                 *)
LEMMA WrittenFiles ==
  ASSUME TypeInv, VolumeParts, Written
  PROVE  \A t \in Within(fat, view, {found}) : view[t].kind # "dir" => Agrees(fat, slot', view[t].first)
<1> USE DEF Written
<1>1. Heads /\ cwd \in Tree(fat, view, {found}) /\ cwd \in Clusters /\ target[1] \in Trail(fat, cwd)
  BY CwdInTree DEF VolumeParts, TypeInv, KeptOK, Cells
<1> SUFFICES ASSUME NEW t \in Within(fat, view, {found}), view[t].kind # "dir"
             PROVE  Agrees(fat, slot', view[t].first)
  OBVIOUS
<1> DEFINE h == view[t].first
<1>2. h \in Kept(fat, view, {found}) /\ cwd \in Kept(fat, view, {found})
  <2>1. Tree(fat, view, {found}) \subseteq Kept(fat, view, {found})
    BY SubsIn, TreeIn
  <2> QED BY <1>1, <2>1 DEF Kept
<1>3. h # cwd
  BY <1>1, FileApart
<1> HIDE DEF h
<1>4. target[1] \notin Trail(fat, h)
  <2>1. h \in Clusters \/ Trail(fat, h) = {}
    BY TrailHas
  <2> QED BY <1>1, <1>2, <1>3, <2>1, KeptApart
<1>5. \A s \in Cells(fat, h) : s \in SlotIds /\ s # target
  BY <1>4, CellsIn DEF Cells
<1>6. Agrees(fat, slot', h)
  BY <1>5 DEF Agrees
<1> QED BY <1>6 DEF h

(* Where lookups find what they did, but for the call's own name.          *)
Replaced(G) ==
  /\ \A d \in Near(fat, view, {found}), n \in ShortNames : <<d, n>> # <<cwd, req.key>> =>
       /\ Finds(fat, view', d, n) = Finds(fat, view, d, n)
       /\ \A s \in Finds(fat, view, d, n) : s # found /\ s # target
  /\ Finds(fat, view, cwd, req.key) \subseteq {found}
  /\ Finds(fat, view', cwd, req.key) = {target}
  /\ G \subseteq {NoSlot, target} /\ (target \in G \/ req.op = "write")

(* Then everything but the key shows what it showed.                       *)
LEMMA WrittenShows ==
  ASSUME TypeInv, VolumeParts, Written, NEW G, Replaced(G)
  PROVE  /\ Near(fat, view', G) = Near(fat, view, {found})
         /\ \A d \in Near(fat, view, {found}), n \in ShortNames : <<d, n>> # <<cwd, req.key>> =>
              Shows(fat, view', slot', d)[n] = Shows(fat, view, slot, d)[n]
<1> USE DEF Written, Replaced
<1> DEFINE N == Near(fat, view, {found})
           k == <<cwd, req.key>>
<1>1. ASSUME NEW d \in N, NEW n \in ShortNames, <<d, n>> # k
      PROVE  /\ Finds(fat, view', d, n) = Finds(fat, view, d, n)
             /\ \A s \in Finds(fat, view, d, n) : s # found /\ s \notin G /\ view'[s] = view[s]
  <2>1. \A s \in Finds(fat, view, d, n) : s # found /\ s # target
    BY <1>1
  <2>2. \A s \in Finds(fat, view, d, n) : s \in SlotIds
    BY CellsIn DEF Finds
  <2>3. \A s \in Finds(fat, view, d, n) : s \notin G /\ view'[s] = view[s]
    BY <2>1, <2>2, NoSlotApart
  <2> QED BY <1>1, <2>1, <2>3
<1>2. ASSUME NEW d \in N, NEW n \in ShortNames, <<d, n>> = k
      PROVE  /\ Finds(fat, view, d, n) \subseteq {found}
             /\ \A s \in Finds(fat, view', d, n) : s \in G \/ ~ IsDir(view'[s])
  <2>1. d = cwd /\ n = req.key
    BY <1>2
  <2>2. target \in G \/ ~ IsDir(view'[target])
    BY DEF IsDir
  <2> QED BY <2>1, <2>2
<1>3. \A t \in Within(fat, view, {found}) : view[t].kind # "dir" => Agrees(fat, slot', view[t].first)
  BY WrittenFiles
<1>4. Alike(fat, view', slot', G, k)
  <2> HIDE DEF k, Written, Replaced
  <2> QED BY <1>1, <1>2, <1>3 DEF Alike
<1>5. Heads /\ DirInv
  BY DEF VolumeParts
<1>6. Near(fat, view', G) = N
  <2> HIDE DEF k, Written
  <2> QED BY <1>4, <1>5, SameShows
<1>7. \A d \in N, n \in ShortNames : <<d, n>> # k => Shows(fat, view', slot', d)[n] = Shows(fat, view, slot, d)[n]
  <2> HIDE DEF k, Written
  <2> QED BY <1>4, <1>5, SameShows
<1> QED BY <1>6, <1>7

(* The call ends as it should if it leaves the rest as it was.             *)
LEMMA WrittenSucceeds ==
  ASSUME TypeInv, VolumeParts, Quest, Written,
         \A d \in Near(fat, view, {found}), n \in ShortNames :
           <<d, n>> # <<cwd, req.key>> => Store'[d][n] = Store[d][n],
         Calm => \A d \in Clusters \ Near(fat, view, {found}) : Store'[d] = Store[d],
         \/ Store'[cwd][req.key] = Means(fat, slot', NewEntry)
         \/ req.op = "mkdir" /\ Store' = Store /\ Abstract!Held(Store, <<cwd, req.key>>) # Absent
  PROVE  Abstract!Succeed
<1> USE DEF Written
<1>1. Abstract!Elsewhere
  BY ElsewhereIs DEF Quest
<1>2. Means(fat, slot', NewEntry) = IF req.op = "write" THEN File(req.val, req.size) ELSE Dir(head)
  BY WrittenMeans DEF Quest
<1>3. <<cwd, req.key>> # <<>>
  OBVIOUS
<1>4. CASE Store'[cwd][req.key] = Means(fat, slot', NewEntry)
  <2>1. Abstract!Held(Store', <<cwd, req.key>>) = IF req.op = "write" THEN File(req.val, req.size) ELSE Dir(head)
    BY <1>2, <1>4 DEF Abstract!Held
  <2> QED BY <1>1, <1>3, <2>1 DEF Abstract!Succeed, Abstract!NoKey, Abstract!End
<1>5. CASE req.op = "mkdir" /\ Store' = Store /\ Abstract!Held(Store, <<cwd, req.key>>) # Absent
  <2>1. Abstract!IsDir(Dir(head))
    BY DEF Abstract!IsDir, Dir, Absent
  <2>2. req.op # "write"
    BY <1>5
  <2> QED BY <1>1, <1>3, <1>5, <2>1, <2>2 DEF Abstract!Succeed, Abstract!NoKey, Abstract!End
<1> QED BY <1>4, <1>5

(* No other directory has the slot.                                        *)
LEMMA WrittenOthers ==
  ASSUME TypeInv, VolumeParts, Written
  PROVE  \A d \in Near(fat, view, {found}) : d # cwd =>
           /\ \A n : Finds(fat, view', d, n) = Finds(fat, view, d, n)
           /\ target \notin Cells(fat, d)
<1> USE DEF Written
<1> SUFFICES ASSUME NEW d \in Near(fat, view, {found}), d # cwd
             PROVE  /\ \A n : Finds(fat, view', d, n) = Finds(fat, view, d, n)
                    /\ target \notin Cells(fat, d)
  OBVIOUS
<1>1. Heads /\ DirInv /\ CwdReach
  BY DEF VolumeParts
<1>2. d \in DirHeads(view, {found}) /\ cwd \in DirHeads(view, {found})
  BY <1>1, NearIn, CwdDir
<1>3. target \notin Cells(fat, d)
  <2>1. Trail(fat, d) \cap Trail(fat, cwd) = {}
    BY <1>1, <1>2, DirsApart
  <2> QED BY <2>1 DEF Cells
<1>4. \A s \in Cells(fat, d) : view'[s] = view[s]
  BY <1>3, CellsIn
<1>5. \A n : Finds(fat, view', d, n) = Finds(fat, view, d, n)
  BY <1>4, FindsSame
<1> QED BY <1>3, <1>5

(* A file is overwritten: its entry keeps its place and its name.          *)
LEMMA OverwriteRefines ==
  ASSUME TypeInv, VolumeParts, TypeInv', VolumeParts', Quest, Written, found # NoSlot
  PROVE  Abstract!Succeed
<1> USE DEF Written
<1> DEFINE N == Near(fat, view, {found})
<1>1. /\ Heads /\ DirInv /\ CwdReach /\ Heads' /\ DirInv' /\ FoundKey /\ req.op = "write"
      /\ cwd \in N /\ req.key \in ShortNames
  BY HeldIs DEF VolumeParts, Quest, FoundKey
<1>2. target = found /\ target \in Finds(fat, view, cwd, req.key)
  BY <1>1, FoundOnly
<1>3. \A s \in SlotIds : /\ IsEntry(view'[s]) <=> IsEntry(view[s])
                         /\ IsEntry(view[s]) => view'[s].name = view[s].name
  <2>1. IsEntry(view[target]) /\ IsEntry(view'[target]) /\ view'[target].name = view[target].name
    BY <1>2 DEF Finds, Named
  <2> QED BY <2>1
<1>4. \A d, n : Finds(fat, view', d, n) = Finds(fat, view, d, n)
  BY <1>3, RenamedFinds
<1>5. \A d \in N, n \in ShortNames : <<d, n>> # <<cwd, req.key>> =>
        \A s \in Finds(fat, view, d, n) : s # found /\ s # target
  BY <1>1, <1>2, FoundOnly
<1>6. Finds(fat, view, cwd, req.key) = {target} /\ Finds(fat, view', cwd, req.key) = {target}
  <2>1. Finds(fat, view, cwd, req.key) = {target}
    BY <1>2, FindsOne
  <2> QED BY <1>4, <2>1
<1>7. /\ Near(fat, view', {NoSlot}) = N
      /\ \A d \in N, n \in ShortNames : <<d, n>> # <<cwd, req.key>> =>
           Shows(fat, view', slot', d)[n] = Shows(fat, view, slot, d)[n]
  <2>1. Replaced({NoSlot})
    BY <1>1, <1>2, <1>4, <1>5, <1>6 DEF Replaced
  <2> HIDE DEF Written
  <2>2. Near(fat, view', {NoSlot}) = N
    BY <2>1, WrittenShows
  <2>3. \A d \in N, n \in ShortNames : <<d, n>> # <<cwd, req.key>> =>
          Shows(fat, view', slot', d)[n] = Shows(fat, view, slot, d)[n]
    BY <2>1, WrittenShows
  <2> QED BY <2>2, <2>3
<1>8. Near(fat', view', {found'}) = N /\ Calm'
  BY <1>7 DEF Calm
<1>9. \A d \in N : Store[d] = Shows(fat, view, slot, d) /\ Store'[d] = Shows(fat, view', slot', d)
  BY <1>1, <1>8, StoreIs, StoreNext
<1>10. \A d \in N, n \in ShortNames : <<d, n>> # <<cwd, req.key>> => Store'[d][n] = Store[d][n]
  BY <1>7, <1>9
<1>11. Calm => \A d \in Clusters \ N : Store'[d] = Store[d]
  BY <1>1, <1>8, StoreIs, StoreNext
<1>12. Store'[cwd][req.key] = Means(fat, slot', NewEntry)
  <2>1. Shows(fat, view', slot', cwd)[req.key] = Means(fat, slot', view'[target])
    BY <1>1, <1>6, FindsIs
  <2> QED BY <1>1, <1>9, <2>1
<1> QED BY <1>10, <1>11, <1>12, WrittenSucceeds

(* A new name, which lookups in its directory find.                        *)
LEMMA NewNameReplaced ==
  ASSUME TypeInv, VolumeParts, Written, found = NoSlot,
         NEW G, G \subseteq {NoSlot, target}, target \in G \/ req.op = "write",
         \A s \in Cells(fat, cwd) : ~ (IsEntry(view[s]) /\ view[s].name = req.key)
  PROVE  Replaced(G)
<1> USE DEF Written
<1>1. Added(fat, view, view', cwd, target)
  <2>1. Tidy(fat, view, cwd) /\ cwd \in Clusters
    BY NearIn DEF VolumeParts, CwdReach, Near
  <2> QED BY <2>1 DEF Added, Named
<1>2. view'[target].name = req.key
  OBVIOUS
<1>3. Finds(fat, view', cwd, req.key) = {target}
  BY <1>1, <1>2, AddedFound
<1>4. Finds(fat, view, cwd, req.key) = {}
  BY DEF Finds
<1>5. ASSUME NEW d \in Near(fat, view, {found}), NEW n \in ShortNames, <<d, n>> # <<cwd, req.key>>
      PROVE  Finds(fat, view', d, n) = Finds(fat, view, d, n)
  <2>1. CASE d # cwd
    BY <2>1, WrittenOthers
  <2>2. CASE d = cwd
    <3>1. n # req.key
      BY <1>5, <2>2
    <3> HIDE DEF Written
    <3> QED BY <1>1, <1>2, <2>2, <3>1, AddedFinds
  <2> QED BY <2>1, <2>2
<1>6. \A d, n : \A s \in Finds(fat, view, d, n) : s # found /\ s # target
  <2>1. ~ IsEntry(view[target])
    BY DEF IsEntry, IsVacant
  <2> QED BY <2>1, CellsIn, NoSlotApart DEF Finds
<1> QED BY <1>3, <1>4, <1>5, <1>6 DEF Replaced

(* A new file.                                                             *)
LEMMA NewFileRefines ==
  ASSUME TypeInv, VolumeParts, TypeInv', VolumeParts', Quest, Written, found = NoSlot, req.op = "write"
  PROVE  Abstract!Succeed
<1> USE DEF Written
<1> DEFINE N == Near(fat, view, {found})
<1>1. /\ Heads /\ DirInv /\ CwdReach /\ Heads' /\ DirInv'
      /\ cwd \in N /\ req.key \in ShortNames
  BY HeldIs DEF VolumeParts
<1>2. \A s \in Cells(fat, cwd) : ~ (IsEntry(view[s]) /\ view[s].name = req.key)
  BY DEF Quest, KeyAbsent
<1>3. Replaced({NoSlot})
  BY <1>2, NewNameReplaced
<1>4. Near(fat, view', {NoSlot}) = N
  <2> HIDE DEF Written
  <2> QED BY <1>3, WrittenShows
<1>5. \A d \in N, n \in ShortNames : <<d, n>> # <<cwd, req.key>> =>
        Shows(fat, view', slot', d)[n] = Shows(fat, view, slot, d)[n]
  <2> HIDE DEF Written
  <2> QED BY <1>3, WrittenShows
<1>6. Near(fat', view', {found'}) = N /\ Calm' /\ Calm
  BY <1>4 DEF Calm
<1>7. \A d \in N : Store[d] = Shows(fat, view, slot, d) /\ Store'[d] = Shows(fat, view', slot', d)
  BY <1>1, <1>6, StoreIs, StoreNext
<1>8. \A d \in N, n \in ShortNames : <<d, n>> # <<cwd, req.key>> => Store'[d][n] = Store[d][n]
  <2> HIDE DEF Written, N
  <2> QED BY <1>5, <1>7
<1>9. \A d \in Clusters \ N : Store'[d] = Store[d]
  BY <1>1, <1>6, StoreIs, StoreNext
<1>10. Store'[cwd][req.key] = Means(fat, slot', NewEntry)
  <2>1. target \in Finds(fat, view', cwd, req.key)
    BY <1>3 DEF Replaced
  <2>2. Shows(fat, view', slot', cwd)[req.key] = Means(fat, slot', view'[target])
    BY <1>1, <2>1, FindsIs
  <2> QED BY <1>1, <1>7, <2>2
<1> QED BY <1>8, <1>9, <1>10, WrittenSucceeds

(* A directory whose name is taken: what the name holds stays to be found. *)
LEMMA TakenRefines ==
  ASSUME TypeInv, VolumeParts, TypeInv', VolumeParts', Quest, Written, found = NoSlot, req.op = "mkdir",
         NEW t \in Cells(fat, cwd), IsEntry(view[t]), view[t].name = req.key
  PROVE  Abstract!Succeed
<1> USE DEF Written
<1> DEFINE N == Near(fat, view, {found})
<1>1. /\ Heads /\ DirInv /\ CwdReach /\ Heads' /\ DirInv' /\ Calm /\ Calm'
      /\ cwd \in N /\ cwd \in Clusters /\ req.key \in ShortNames
  BY HeldIs DEF VolumeParts, Calm
<1>2. Added(fat, view, view', cwd, target)
  <2>1. Tidy(fat, view, cwd)
    BY <1>1, NearIn
  <2> QED BY <1>1, <2>1 DEF Added, Named
<1>3. view'[target].name = req.key
  OBVIOUS
<1>4. ASSUME NEW d \in N, NEW n \in ShortNames
      PROVE  /\ Finds(fat, view', d, n) = Finds(fat, view, d, n)
             /\ \A s \in Finds(fat, view, d, n) : s # found /\ s \notin {NoSlot} /\ view'[s] = view[s]
  <2>1. Finds(fat, view', d, n) = Finds(fat, view, d, n)
    <3>1. CASE d # cwd
      BY <3>1, WrittenOthers
    <3>2. CASE d = cwd
      <4> HIDE DEF Written
      <4> QED BY <1>2, <1>3, <3>2, AddedFinds
    <3> QED BY <3>1, <3>2
  <2>2. ~ IsEntry(view[target])
    BY DEF IsEntry, IsVacant
  <2>3. \A s \in Finds(fat, view, d, n) : s \in SlotIds /\ s # target
    BY <2>2, CellsIn DEF Finds
  <2>4. \A s \in Finds(fat, view, d, n) : s # found /\ s \notin {NoSlot} /\ view'[s] = view[s]
    BY <2>3, NoSlotApart
  <2> QED BY <2>1, <2>4
<1>5. PICK k : \A d, n : <<d, n>> # k
  <2>1. \A d, n : <<d, n>> # <<>>
    OBVIOUS
  <2> QED BY <2>1
<1>6. Alike(fat, view', slot', {NoSlot}, k)
  <2>1. \A s \in Within(fat, view, {found}) : view[s].kind # "dir" => Agrees(fat, slot', view[s].first)
    BY WrittenFiles
  <2> HIDE DEF Written
  <2> QED BY <1>4, <1>5, <2>1 DEF Alike
<1>7. Near(fat, view', {NoSlot}) = N
  <2> HIDE DEF Written
  <2> QED BY <1>1, <1>6, SameShows
<1>8. \A d \in N, n \in ShortNames : Shows(fat, view', slot', d)[n] = Shows(fat, view, slot, d)[n]
  <2> HIDE DEF Written
  <2>1. \A d \in N, n \in ShortNames : <<d, n>> # k => Shows(fat, view', slot', d)[n] = Shows(fat, view, slot, d)[n]
    BY <1>1, <1>6, SameShows
  <2> QED BY <1>5, <2>1
<1>9. Store' = Store
  BY <1>1, <1>7, <1>8, StoreEqual
<1>10. Abstract!Held(Store, <<cwd, req.key>>) # Absent
  <2>1. Single(fat) /\ NoPred(fat, cwd)
    BY <1>1, NearIn, DirHead DEF Heads, HeadsOK
  <2>2. Finds(fat, view, cwd, req.key) # {}
    BY <1>1, <2>1, FindsSome
  <2>3. Shows(fat, view, slot, cwd)[req.key] = Means(fat, slot, view[Pick(Finds(fat, view, cwd, req.key))])
    BY <1>1, <2>2 DEF Shows
  <2> QED BY <1>1, <2>3, HeldIs, MeansSome
<1> QED BY <1>9, <1>10, WrittenSucceeds

(* A new directory holds nothing but its dots.                             *)
LEMMA HeadBlank ==
  ASSUME TypeInv, VolumeParts, Written, req.op = "mkdir"
  PROVE  /\ head \in Clusters \ Near(fat, view, {found})
         /\ \A s \in Cells(fat, head) : ~ Named(view'[s])
<1> USE DEF Written
<1>1. Heads /\ DirInv /\ CwdReach
  BY DEF VolumeParts
<1>2. head \in Clusters /\ head \in Holding
  BY DEF TypeInv, Stage, LocalsOK, Holding
<1>3. \A p \in DirHeads(view, {found}) : head \notin Trail(fat, p)
  <2>1. head \in Trail(fat, head)
    BY <1>2, TrailHas
  <2> QED BY <1>1, <1>2, <2>1, DirsApart
<1>4. head \notin Near(fat, view, {found})
  <2> SUFFICES ASSUME head \in Near(fat, view, {found}) PROVE FALSE
    OBVIOUS
  <2>1. head \in DirHeads(view, {found})
    BY <1>1, NearIn
  <2> QED BY <1>1, <1>2, <2>1, DirHead
<1>5. /\ fat[head] = Eoc
      /\ slot[<<head, 1>>] = Entry("dir", Dot, head, 0) /\ slot[<<head, 2>>] = Entry("dir", DotDot, Up(cwd), 0)
      /\ \A m \in Indices : m > 2 => slot[<<head, m>>] = End
  BY DEF VolumeParts, NewDir
<1>6. Trail(fat, head) = {head}
  BY <1>2, <1>5, TrailSplit, TrailHas, Apart
<1>7. ASSUME NEW m \in Indices
      PROVE  view'[<<head, m>>] = slot[<<head, m>>] /\ ~ Named(slot[<<head, m>>])
  <2>1. <<head, m>> \in SlotIds /\ <<head, m>> # target
    <3>1. target[1] \in Trail(fat, cwd) /\ cwd \in DirHeads(view, {found})
      BY <1>1, CwdDir DEF Cells
    <3>2. target[1] # head
      BY <1>3, <3>1
    <3> QED BY <1>2, <3>2 DEF SlotIds
  <2>2. m = 1 \/ m = 2 \/ m > 2
    BY DEF Indices
  <2>3. ~ Named(slot[<<head, m>>])
    BY <1>5, <2>2, NameAssumption DEF Named, IsEntry, Entry, End
  <2> QED BY <2>1, <2>3
<1>8. ASSUME NEW s \in Cells(fat, head) PROVE ~ Named(view'[s])
  <2>1. s = <<head, s[2]>> /\ s[2] \in Indices
    BY <1>6 DEF Cells
  <2> QED BY <1>7, <2>1
<1> QED BY <1>2, <1>4, <1>8

(* Lookups now lead to the new directory too, and to nothing else.         *)
LEMMA NewDirNear ==
  ASSUME TypeInv, VolumeParts, Written, req.op = "mkdir", found = NoSlot,
         Near(fat, view', {target}) = Near(fat, view, {found})
  PROVE  /\ Near(fat, view, {found}) \subseteq Near(fat, view', {NoSlot})
         /\ Near(fat, view', {NoSlot}) \subseteq Near(fat, view, {found}) \cup {head}
<1> USE DEF Written
<1> DEFINE N == Near(fat, view, {found})
           W == Ways(fat, view', {target})
           V == Ways(fat, view', {NoSlot})
<1>1. \A d : Doors(fat, view', {target}, d) \subseteq Doors(fat, view', {NoSlot}, d)
  BY CellsIn, NoSlotApart DEF Doors
<1>2. W \subseteq V
  BY <1>1 DEF Ways
<1>3. N = Reach(W) /\ Near(fat, view', {NoSlot}) = Reach(V) /\ N \in SUBSET Clusters /\ RootCluster \in N
  BY ReachHas DEF Near, Reach
<1>4. N \subseteq Near(fat, view', {NoSlot})
  <2> HIDE DEF N, W, V, Written
  <2>1. Reach(W) \subseteq Reach(V)
    BY <1>2 DEF Reach
  <2> QED BY <1>3, <2>1
<1>5. \A s \in SlotIds \ {target} : IsDir(view'[s]) => view'[s].first \in Clusters
  BY ViewIn
<1>6. W \in SUBSET Pairs
  <2>1. \A d : Doors(fat, view', {target}, d) \subseteq Clusters
    BY <1>5, CellsIn DEF Doors
  <2> QED BY <2>1 DEF Ways, Pairs
<1>7. ASSUME NEW r \in V, r[1] \in N \cup {head} PROVE r[2] \in N \cup {head}
  <2>1. PICK d \in Clusters : r \in {d} \X Doors(fat, view', {NoSlot}, d)
    BY DEF Ways
  <2>2. r[1] = d /\ r[2] \in Doors(fat, view', {NoSlot}, d)
    BY <2>1
  <2>3. PICK s \in Cells(fat, d) : IsDir(view'[s]) /\ First(fat, view', d, s) /\ r[2] = view'[s].first
    BY <2>2 DEF Doors
  <2>4. d # head
    BY <2>3, HeadBlank DEF IsDir
  <2>5. CASE s = target
    BY <2>3, <2>5
  <2>6. CASE s # target
    <3>1. r[2] \in Doors(fat, view', {target}, d)
      BY <2>3, <2>6 DEF Doors
    <3>2. r \in W
      BY <2>1, <3>1 DEF Ways
    <3>3. r[1] \in N
      BY <1>7, <2>2, <2>4
    <3> HIDE DEF N, W, V, Written
    <3> QED BY <1>3, <1>6, <3>2, <3>3, ReachNext
  <2> QED BY <2>5, <2>6
<1>8. Near(fat, view', {NoSlot}) \subseteq N \cup {head}
  <2>1. N \cup {head} \in SUBSET Clusters /\ RootCluster \in N \cup {head}
    BY <1>3, HeadBlank
  <2>2. \A r \in V : r[1] \in N \cup {head} => r[2] \in N \cup {head}
    BY <1>7
  <2> HIDE DEF N, W, V, Written
  <2>3. Reach(V) \subseteq N \cup {head}
    BY <2>1, <2>2, ReachLeast
  <2> QED BY <1>3, <2>3
<1> QED BY <1>4, <1>8

(* A new directory under a new name.                                       *)
LEMMA NewDirRefines ==
  ASSUME TypeInv, VolumeParts, TypeInv', VolumeParts', Quest, Written, found = NoSlot, req.op = "mkdir",
         \A s \in Cells(fat, cwd) : ~ (IsEntry(view[s]) /\ view[s].name = req.key)
  PROVE  Abstract!Succeed
<1> USE DEF Written
<1> DEFINE N == Near(fat, view, {found})
           M == Near(fat', view', {found'})
<1>1. /\ Heads /\ DirInv /\ CwdReach /\ Heads' /\ DirInv' /\ Calm /\ Calm'
      /\ cwd \in N /\ req.key \in ShortNames
  BY HeldIs DEF VolumeParts, Calm
<1>2. Replaced({target})
  BY NewNameReplaced
<1>3. Near(fat, view', {target}) = N
  <2> HIDE DEF Written
  <2> QED BY <1>2, WrittenShows
<1>4. \A d \in N, n \in ShortNames : <<d, n>> # <<cwd, req.key>> =>
        Shows(fat, view', slot', d)[n] = Shows(fat, view, slot, d)[n]
  <2> HIDE DEF Written
  <2> QED BY <1>2, WrittenShows
<1>5. N \subseteq M /\ M \subseteq N \cup {head}
  BY <1>3, NewDirNear
<1>6. \A d \in N : Store[d] = Shows(fat, view, slot, d) /\ Store'[d] = Shows(fat, view', slot', d)
  BY <1>1, <1>5, StoreIs, StoreNext
<1>7. \A d \in N, n \in ShortNames : <<d, n>> # <<cwd, req.key>> => Store'[d][n] = Store[d][n]
  <2> HIDE DEF Written, N, M
  <2> QED BY <1>4, <1>6
<1>8. ASSUME NEW d \in Clusters \ N PROVE Store'[d] = Store[d]
  <2>1. Store[d] = Blank
    BY <1>1, StoreIs
  <2>2. CASE d \notin M
    BY <1>1, <2>1, <2>2, StoreNext
  <2>3. CASE d \in M
    <3>1. d = head /\ Store'[d] = Shows(fat, view', slot', d)
      BY <1>1, <1>5, <2>3, StoreNext
    <3>2. \A n \in ShortNames : Finds(fat, view', head, n) = {}
      BY HeadBlank DEF Finds, Named
    <3>3. Shows(fat, view', slot', head) = Blank
      BY <3>2 DEF Shows, Blank
    <3> QED BY <2>1, <3>1, <3>3
  <2> QED BY <2>2, <2>3
<1>9. Store'[cwd][req.key] = Means(fat, slot', NewEntry)
  <2>1. target \in Finds(fat, view', cwd, req.key)
    BY <1>2 DEF Replaced
  <2>2. Shows(fat, view', slot', cwd)[req.key] = Means(fat, slot', view'[target])
    BY <1>1, <2>1, FindsIs
  <2> QED BY <1>1, <1>6, <2>2
<1> QED BY <1>7, <1>8, <1>9, WrittenSucceeds

(* The entry is written and the call has succeeded.                        *)
LEMMA WriteEntryRefines ==
  ASSUME TypeInv, VolumeParts, TypeInv', VolumeParts', Quest, UNCHANGED faults, WriteEntry
  PROVE  Abstract!Succeed
<1>1. Written
  BY WriteEntryIs
<1>2. CASE found # NoSlot
  BY <1>1, <1>2, OverwriteRefines
<1>3. CASE found = NoSlot /\ req.op = "write"
  BY <1>1, <1>3, NewFileRefines
<1>4. CASE found = NoSlot /\ req.op = "mkdir"
  BY <1>1, <1>4, TakenRefines, NewDirRefines
<1> QED BY <1>1, <1>2, <1>3, <1>4 DEF Written

-----------------------------------------------------------------------------
(* The new volume is empty.                                                *)
LEMMA RefineInit == TypeInv /\ VolumeParts /\ Init => Abstract!Init /\ Quest
<1> SUFFICES ASSUME TypeInv, VolumeParts, Init PROVE Abstract!Init /\ Quest
  OBVIOUS
<1>1. /\ pc = "idle" /\ found = NoSlot /\ req = NoCall /\ cwd = RootCluster /\ ret = "none" /\ torn = FALSE
      /\ Heads /\ DirInv /\ Calm /\ ~ Running
  BY DEF Init, VolumeParts, Calm, Running
<1>2. \A s \in SlotIds : ~ IsEntry(view[s])
  <2>1. \A s \in SlotIds : view[s] = slot[s]
    BY <1>1 DEF view, View
  <2>2. \A s \in SlotIds : slot[s] \in {Deleted, End}
    BY DEF Init
  <2> QED BY <2>1, <2>2 DEF Deleted, End, IsEntry
<1>3. \A d, n : Finds(fat, view, d, n) = {}
  BY <1>2, CellsIn DEF Finds
<1>4. \A d \in Clusters : Store[d] = Blank
  <2>1. \A d : Shows(fat, view, slot, d) = Blank
    BY <1>3 DEF Shows, Blank
  <2> QED BY <1>1, <2>1, StoreIs
<1>5. Store = [d \in Clusters |-> [n \in ShortNames |-> Absent]]
  <2>1. Store = [d \in Clusters |-> Store[d]]
    BY <1>1, StoreIs
  <2> QED BY <1>4, <2>1 DEF Blank
<1>6. Quest
  BY <1>1 DEF Quest, FoundKey, KeyAbsent, DataInv, NoCall
<1> QED BY <1>1, <1>5, <1>6 DEF Abstract!Init, Abstract!NoKey

(* Nothing moves.                                                          *)
LEMMA StutterRefines == UNCHANGED vars => UNCHANGED Abstract!vars
<1> SUFFICES ASSUME UNCHANGED vars PROVE UNCHANGED Abstract!vars
  OBVIOUS
<1>1. UNCHANGED <<fat, slot, cwd, pc, req, ret, cur, head, torn>>
  BY DEF vars, disk, memory, locals, history
<1>2. Store' = Store
  BY <1>1, StoreSame
<1>3. Running' <=> Running
  BY <1>1 DEF Running
<1>4. (IF Running THEN <<cwd, req.key>> ELSE <<>>)' = IF Running THEN <<cwd, req.key>> ELSE <<>>
  BY <1>1, <1>3
<1>5. (IF ~ Running THEN Absent
       ELSE IF req.op = "write" THEN File(req.val, req.size) ELSE Dir(head))'
      = IF ~ Running THEN Absent
        ELSE IF req.op = "write" THEN File(req.val, req.size) ELSE Dir(head)
  BY <1>1, <1>3 DEF File, Dir, Absent
<1> QED BY <1>1, <1>2, <1>4, <1>5 DEF Abstract!vars

(* Every step of the driver on which no sector write fails is a step of    *)
(* FileStore, or none.                                                     *)
(* Where no write fails, none tears the volume.                            *)
LEMMA NoFault ==
  ASSUME TypeInv, ~ torn, UNCHANGED faults,
         \/ FreeStep \/ AllocFile \/ LinkFile \/ SealFile \/ WriteData \/ WriteDots \/ Extend \/ LinkDir
         \/ \E n \in Names : MkdirCall(n)
  PROVE  ~ torn'
<1>1. faults \in Nat
  BY InputAssumption DEF TypeInv, PastOK
<1>2. CASE FreeStep \/ AllocFile \/ LinkFile \/ SealFile \/ Extend
  BY <1>1, <1>2 DEF FreeStep, AllocFile, LinkFile, SealFile, Extend, SetFat
<1>3. CASE WriteData \/ WriteDots
  BY <1>3 DEF WriteData, WriteDots
<1>4. CASE LinkDir
  <2>1. PICK lost \in SUBSET {last, cur} :
          faults' = faults + Cardinality(lost) /\ torn' = (torn \/ lost # {})
    BY <1>4 DEF LinkDir
  <2>2. IsFiniteSet(lost)
    <3>1. IsFiniteSet({last, cur})
      <4>1. IsFiniteSet({last}) /\ {last, cur} = {last} \cup {cur}
        BY FS_Singleton
      <4> QED BY <4>1, FS_AddElement
    <3> QED BY <3>1, FS_Subset
  <2>3. Cardinality(lost) = 0
    BY <1>1, <2>1, <2>2, FS_CardinalityType
  <2>4. lost = {}
    BY <2>2, <2>3, FS_EmptySet
  <2> QED BY <2>1, <2>4
<1>5. CASE \E n \in Names : MkdirCall(n)
  BY <1>1, <1>5 DEF MkdirCall, SetFat
<1> QED BY <1>2, <1>3, <1>4, <1>5

LEMMA RefineStep ==
  ASSUME TypeInv, VolumeInv, QuestInv, TypeInv', VolumeInv', UNCHANGED faults, [Next]_vars
  PROVE  Abstract!Next \/ UNCHANGED Abstract!vars
<1>1. CASE torn
  <2>1. torn'
    BY <1>1, TornStays
  <2> QED BY <1>1, <2>1 DEF Abstract!Next, Abstract!Wreck
<1>2. CASE ~ torn
  <2>1. VolumeParts /\ Quest /\ FoundKey
    BY <1>2 DEF VolumeInv, QuestInv, Quest
  <2>2. ~ torn' => VolumeParts'
    BY DEF VolumeInv
  <2>3. ASSUME NEW n \in Names, NEW z \in Sizes, NEW v \in Values, WriteCall(n, z, v) PROVE Abstract!Next
    BY <2>3, WriteCallRefines DEF Abstract!Next
  <2>4. ASSUME NEW n \in Names, MkdirCall(n) PROVE Abstract!Next
    <3>1. ~ torn'
      BY <1>2, <2>4, NoFault
    <3> QED BY <2>1, <2>2, <2>4, <3>1, MkdirCallRefines DEF Abstract!Next
  <2>5. ASSUME NEW n \in Names \cup {DotDot}, CdCall(n) PROVE Abstract!Next
    BY <2>5, CdCallRefines DEF Abstract!Next
  <2>6. CASE FindHit
    BY <2>1, <2>6, FindHitRefines DEF Abstract!Next
  <2>7. CASE FindMiss
    BY <2>7, FindMissRefines DEF Abstract!Next
  <2>8. CASE FindNext \/ SealFile \/ DataDone \/ SlotHit \/ SlotNext \/ SlotMiss
    <3>1. ~ torn'
      BY <1>2, <2>8, NoFault DEF FindNext, DataDone, SlotHit, SlotNext, SlotMiss, history
    <3> QED BY <2>8, <3>1, MoveRefines
  <2>9. CASE FreeStep \/ AllocFile \/ LinkFile \/ WriteData \/ WriteDots \/ Extend
    <3>1. ~ torn'
      BY <1>2, <2>9, NoFault
    <3>2. VolumeParts'
      BY <2>2, <3>1
    <3> QED BY <1>2, <2>1, <2>9, <3>1, <3>2, DiskRefines DEF Abstract!Next
  <2>10. CASE FreeDone
    BY <2>1, <2>10, FreeDoneRefines DEF Abstract!Next
  <2>11. CASE AllocFull
    BY <2>1, <2>11, AllocFullRefines DEF Abstract!Next
  <2>12. CASE LinkDir
    <3>1. ~ torn'
      BY <1>2, <2>12, NoFault
    <3> QED BY <2>1, <2>2, <2>12, <3>1, LinkDirRefines DEF Abstract!Next
  <2>13. CASE ClearDir
    <3>1. ~ torn'
      BY <1>2, <2>13 DEF ClearDir
    <3> QED BY <1>2, <2>1, <2>2, <2>13, <3>1, ClearDirRefines DEF Abstract!Next
  <2>14. CASE WriteEntry
    <3>1. ~ torn'
      <4>1. Written
        BY <2>1, <2>14, WriteEntryIs
      <4> QED BY <1>2, <4>1 DEF Written
    <3> QED BY <2>1, <2>2, <2>14, <3>1, WriteEntryRefines DEF Abstract!Next
  <2>15. CASE Crash
    BY <1>2, <2>1, <2>15, CrashRefines DEF Abstract!Next
  <2>16. CASE UNCHANGED vars
    BY <2>16, StutterRefines
  <2>17. ~ Reload
    BY <1>2 DEF Reload, TypeInv, OneTable
  <2> QED BY <2>3, <2>4, <2>5, <2>6, <2>7, <2>8, <2>9, <2>10, <2>11, <2>12, <2>13, <2>14, <2>15, <2>16, <2>17
          DEF Next, Call, Step
<1> QED BY <1>1, <1>2

(* The driver keeps the promises of FileStore as long as no sector write   *)
(* fails, for volumes, names and files of every size and after power       *)
(* losses at every moment (fat32_write_file, fat32.c:379;                  *)
(* fat32_make_directory, fat32.c:467; fat32_change_directory,              *)
(* fat32.c:612).                                                           *)
THEOREM Implemented == Spec /\ [](faults = 0) => Implements
<1>1. Init => TypeInv /\ VolumeInv /\ QuestInv /\ Abstract!Init
  BY TypeInit, VolumeInit, RefineInit DEF VolumeInv, QuestInv
<1>2. TypeInv /\ VolumeInv /\ [Next]_vars => (TypeInv /\ VolumeInv)'
  BY TypeStep, TornStays, VolumeStep DEF VolumeInv
<1>3. TypeInv /\ VolumeInv /\ QuestInv /\ [Next]_vars /\ faults = 0 /\ (faults = 0)' => QuestInv'
  BY TornStays, QuestStep DEF VolumeInv, QuestInv
<1>4. TypeInv /\ VolumeInv /\ QuestInv /\ (TypeInv /\ VolumeInv)' /\ [Next]_vars /\ faults = 0 /\ (faults = 0)'
      => [Abstract!Next]_(Abstract!vars)
  BY RefineStep
<1> QED BY <1>1, <1>2, <1>3, <1>4, PTL DEF Spec, Implements, Abstract!Spec

-----------------------------------------------------------------------------
(* How much of a call is left: the statements still to come, in the order  *)
(* in which a call can reach them, and how often the loop at one of them   *)
(* goes round before it is left.                                           *)
Statements ==
  [find |-> 9, free |-> 8, alloc |-> 7, link |-> 7, data |-> 6, dots |-> 6, slot |-> 5,
   extend |-> 4, elink |-> 3, clear |-> 2, undo |-> 1, entry |-> 1, idle |-> 0]
Ahead == Statements[pc]

Taken(f) == {c \in Clusters : f[c] # Free}
Rounds ==
  IF pc \in {"find", "slot"} THEN Cardinality(Trail(fat, cur))
  ELSE IF pc \in {"free", "undo"} THEN Cardinality(Taken(fat)) + (IF InChain(cur) THEN 1 ELSE 0)
  ELSE IF pc = "alloc" THEN 2 * left
  ELSE IF pc = "link" THEN 2 * left + 1
  ELSE IF pc = "data" THEN left
  ELSE 0

LessIsLeft == Ahead' < Ahead \/ (Ahead' = Ahead /\ Rounds' < Rounds)

(* No walk along the current directory stays where it is.                  *)
Onward == pc \in {"find", "slot"} /\ cur \in Clusters => fat[cur] # cur

LEMMA TrailFinite ==
  ASSUME NEW f, NEW c
  PROVE  IsFiniteSet(Trail(f, c)) /\ Cardinality(Trail(f, c)) \in Nat
<1>1. IsFiniteSet(Trail(f, c))
  BY TrailHas, ClusterCount, FS_Subset
<1> QED BY <1>1, FS_CardinalityType

LEMMA TakenFinite ==
  ASSUME NEW f
  PROVE  IsFiniteSet(Taken(f)) /\ Cardinality(Taken(f)) \in Nat
<1>1. IsFiniteSet(Taken(f))
  BY ClusterCount, FS_Subset DEF Taken
<1> QED BY <1>1, FS_CardinalityType

(* What is left is counted by natural numbers.                             *)
LEMMA LeftType == TypeInv => Ahead \in Nat /\ Rounds \in Nat
<1> SUFFICES ASSUME TypeInv PROVE Ahead \in Nat /\ Rounds \in Nat
  OBVIOUS
<1>1. pc \in PCs /\ left \in Nat
  BY DEF TypeInv, CallOK, LocalsOK
<1>2. Ahead \in Nat
  BY <1>1 DEF Ahead, Statements, PCs
<1>3. Rounds \in Nat
  BY <1>1, TrailFinite, TakenFinite DEF Rounds
<1> QED BY <1>2, <1>3

(* In a chain without a cycle the rest is shorter by one.                  *)
LEMMA TrailShorter ==
  ASSUME NEW f, Single(f), NEW h \in Clusters, NoPred(f, h), NEW b \in Trail(f, h)
  PROVE  Cardinality(Trail(f, f[b])) < Cardinality(Trail(f, b)) /\ f[b] # b
<1>1. b \in Clusters /\ b \notin Trail(f, f[b])
  BY TrailHas, TrailAcyclic
<1>2. Trail(f, b) = Trail(f, f[b]) \cup {b}
  BY <1>1, TrailSplit
<1>3. Cardinality(Trail(f, b)) = Cardinality(Trail(f, f[b])) + 1
  BY <1>1, <1>2, TrailFinite, FS_AddElement
<1>4. Cardinality(Trail(f, f[b])) \in Nat
  BY TrailFinite
<1>5. f[b] # b
  BY <1>1, TrailHas
<1> QED BY <1>3, <1>4, <1>5

(* The walks of a call are on the chain of the current directory, which    *)
(* has no cycle (fat32.c:612).                                             *)
LEMMA WalkShorter ==
  ASSUME TypeInv, VolumeParts, pc \in {"find", "slot"}, cur \in Clusters
  PROVE  Cardinality(Trail(fat, fat[cur])) < Cardinality(Trail(fat, cur)) /\ fat[cur] # cur
<1>1. Single(fat) /\ cwd \in Clusters /\ NoPred(fat, cwd)
  BY CwdDir, DirHead DEF VolumeParts, Heads, HeadsOK
<1>2. cur \in Trail(fat, cwd)
  <2>1. CASE pc = "find"
    BY <2>1 DEF VolumeParts, WalkFind
  <2>2. CASE pc = "slot"
    <3>1. cwd \in Trail(fat, cwd) /\ Closed(fat, Trail(fat, cwd))
      BY <1>1, TrailHas, TrailNext
    <3> QED BY <2>2, <3>1 DEF VolumeParts, WalkSlot, Closed
  <2> QED BY <2>1, <2>2
<1> QED BY <1>1, <1>2, TrailShorter

(* Freeing a cluster leaves one fewer taken, or none to go on to.          *)
LEMMA TakenFewer ==
  ASSUME NEW f \in [Clusters -> Links], NEW c \in Clusters
  PROVE  /\ f[c] # Free => Cardinality(Taken([f EXCEPT ![c] = Free])) = Cardinality(Taken(f)) - 1
         /\ f[c] = Free => Taken([f EXCEPT ![c] = Free]) = Taken(f)
<1>1. Taken([f EXCEPT ![c] = Free]) = Taken(f) \ {c}
  BY DEF Taken
<1>2. f[c] # Free => c \in Taken(f)
  BY DEF Taken
<1>3. f[c] = Free => c \notin Taken(f)
  BY DEF Taken
<1>4. f[c] # Free => Cardinality(Taken([f EXCEPT ![c] = Free])) = Cardinality(Taken(f)) - 1
  BY <1>1, <1>2, TakenFinite, FS_RemoveElement
<1> QED BY <1>1, <1>3, <1>4

LEMMA FreeStepLess == TypeInv /\ FreeStep /\ UNCHANGED faults => LessIsLeft
<1> SUFFICES ASSUME TypeInv, FreeStep, UNCHANGED faults PROVE LessIsLeft
  OBVIOUS
<1>1. fat \in [Clusters -> Links] /\ cur \in Links
  BY DEF TypeInv, DiskOK, LocalsOK
<1>0. faults \in Nat
  BY InputAssumption DEF TypeInv, PastOK
<1>2. /\ pc \in {"free", "undo"} /\ pc' = pc /\ InChain(cur)
      /\ fat' = [fat EXCEPT ![cur] = Free] /\ cur' = fat[cur]
  BY <1>0 DEF FreeStep, SetFat
<1>3. cur \in Clusters
  BY <1>1, <1>2, Apart
<1>4. Ahead' = Ahead
  BY <1>2 DEF Ahead
<1>5. Rounds = Cardinality(Taken(fat)) + 1
  BY <1>2 DEF Rounds
<1>6. Rounds' = Cardinality(Taken(fat')) + (IF InChain(fat[cur]) THEN 1 ELSE 0)
  BY <1>2 DEF Rounds
<1>7. Cardinality(Taken(fat)) \in Nat /\ Cardinality(Taken(fat')) \in Nat
  BY TakenFinite
<1>8. CASE fat[cur] # Free
  <2>1. Cardinality(Taken(fat')) = Cardinality(Taken(fat)) - 1
    BY <1>1, <1>2, <1>3, <1>8, TakenFewer
  <2>2. Rounds' < Rounds
    BY <1>5, <1>6, <1>7, <2>1
  <2> QED BY <1>4, <2>2 DEF LessIsLeft
<1>9. CASE fat[cur] = Free
  <2>1. Taken(fat') = Taken(fat)
    BY <1>1, <1>2, <1>3, <1>9, TakenFewer
  <2>2. ~ InChain(fat[cur])
    BY <1>9 DEF InChain, Free
  <2>3. Rounds' < Rounds
    BY <1>5, <1>6, <1>7, <2>1, <2>2
  <2> QED BY <1>4, <2>3 DEF LessIsLeft
<1> QED BY <1>8, <1>9

LEMMA WalkLess ==
  TypeInv /\ VolumeParts /\ (FindNext \/ SlotNext) => LessIsLeft
<1> SUFFICES ASSUME TypeInv, VolumeParts, FindNext \/ SlotNext PROVE LessIsLeft
  OBVIOUS
<1>1. /\ pc \in {"find", "slot"} /\ pc' = pc /\ InChain(cur)
      /\ fat' = fat /\ cur' = fat[cur]
  BY DEF FindNext, SlotNext, disk
<1>2. cur \in Clusters
  BY <1>1, Apart DEF TypeInv, LocalsOK
<1>3. Rounds = Cardinality(Trail(fat, cur))
  BY <1>1 DEF Rounds
<1>4. Rounds' = Cardinality(Trail(fat, fat[cur]))
  BY <1>1 DEF Rounds
<1>5. Ahead' = Ahead
  BY <1>1 DEF Ahead
<1> QED BY <1>1, <1>2, <1>3, <1>4, <1>5, WalkShorter DEF LessIsLeft

LEMMA AllocLess == TypeInv /\ (AllocFile \/ LinkFile) => LessIsLeft
<1> SUFFICES ASSUME TypeInv, AllocFile \/ LinkFile PROVE LessIsLeft
  OBVIOUS
<1>1. left \in Nat
  BY DEF TypeInv, LocalsOK
<1>2. CASE AllocFile
  <2>1. pc = "alloc" /\ pc' \in {"alloc", "link"} /\ left > 0 /\ left' = left - 1
    BY <1>2 DEF AllocFile
  <2>2. Rounds = 2 * left /\ Rounds' <= 2 * (left - 1) + 1 /\ Rounds' \in Int
    BY <1>1, <2>1 DEF Rounds
  <2>3. Ahead' = Ahead
    BY <2>1 DEF Ahead, Statements
  <2> QED BY <1>1, <2>2, <2>3 DEF LessIsLeft
<1>3. CASE LinkFile
  <2>1. pc = "link" /\ pc' = "alloc" /\ left' = left
    BY <1>3 DEF LinkFile
  <2>2. Rounds = 2 * left + 1 /\ Rounds' = 2 * left
    BY <2>1 DEF Rounds
  <2>3. Ahead' = Ahead
    BY <2>1 DEF Ahead, Statements
  <2> QED BY <1>1, <2>2, <2>3 DEF LessIsLeft
<1> QED BY <1>2, <1>3

LEMMA DataLess == TypeInv /\ WriteData => LessIsLeft
<1> SUFFICES ASSUME TypeInv, WriteData PROVE LessIsLeft
  OBVIOUS
<1>1. left \in Nat /\ SlotsPerCluster \in Nat /\ SlotsPerCluster >= 2
  BY VolumeAssumption DEF TypeInv, LocalsOK
<1>2. /\ pc = "data" /\ pc' = "data" /\ left > 0
      /\ left' = IF left < SlotsPerCluster THEN 0 ELSE left - SlotsPerCluster
  BY DEF WriteData
<1>3. left' < left
  BY <1>1, <1>2
<1>4. Rounds = left /\ Rounds' = left' /\ Ahead' = Ahead
  BY <1>2 DEF Rounds, Ahead
<1> QED BY <1>3, <1>4 DEF LessIsLeft

(* The other steps go on to a later statement.                             *)
LEMMA OnLess ==
  TypeInv /\ (FindHit \/ FindMiss \/ FreeDone \/ AllocFull \/ SealFile \/ DataDone \/ WriteDots
              \/ SlotHit \/ SlotMiss \/ Extend \/ LinkDir \/ ClearDir \/ WriteEntry) => LessIsLeft
<1> SUFFICES ASSUME TypeInv,
                    FindHit \/ FindMiss \/ FreeDone \/ AllocFull \/ SealFile \/ DataDone \/ WriteDots
                      \/ SlotHit \/ SlotMiss \/ Extend \/ LinkDir \/ ClearDir \/ WriteEntry
             PROVE  LessIsLeft
  OBVIOUS
<1>1. CASE FindHit \/ FindMiss
  <2>1. pc = "find" /\ pc' \in {"free", "alloc", "idle"}
    BY <1>1 DEF FindHit, FindMiss, Return
  <2> QED BY <2>1 DEF LessIsLeft, Ahead, Statements
<1>2. CASE FreeDone
  <2>1. \/ pc = "free" /\ pc' = "alloc"
        \/ pc = "undo" /\ pc' = "idle"
    BY <1>2 DEF FreeDone, Return
  <2> QED BY <2>1 DEF LessIsLeft, Ahead, Statements
<1>3. CASE AllocFull
  <2>1. pc \in {"alloc", "extend"} /\ pc' \in {"undo", "idle"}
    BY <1>3 DEF AllocFull, Return
  <2> QED BY <2>1 DEF LessIsLeft, Ahead, Statements
<1>4. CASE SealFile \/ DataDone \/ WriteDots
  <2>1. \/ pc = "alloc" /\ pc' = "data"
        \/ pc \in {"data", "dots"} /\ pc' \in {"slot", "entry"}
    BY <1>4 DEF SealFile, DataDone, WriteDots
  <2> QED BY <2>1 DEF LessIsLeft, Ahead, Statements
<1>5. CASE SlotHit \/ SlotMiss
  <2>1. pc = "slot" /\ pc' \in {"extend", "entry"}
    BY <1>5 DEF SlotHit, SlotMiss
  <2> QED BY <2>1 DEF LessIsLeft, Ahead, Statements
<1>6. CASE Extend \/ LinkDir
  <2>1. \/ pc = "extend" /\ pc' = "elink"
        \/ pc = "elink" /\ pc' = "clear"
    BY <1>6 DEF Extend, LinkDir
  <2> QED BY <2>1 DEF LessIsLeft, Ahead, Statements
<1>7. CASE ClearDir \/ WriteEntry
  <2>1. \/ pc = "clear" /\ pc' = "entry"
        \/ pc = "entry" /\ pc' = "idle"
    BY <1>7 DEF ClearDir, WriteEntry, Return
  <2> QED BY <2>1 DEF LessIsLeft, Ahead, Statements
<1> QED BY <1>1, <1>2, <1>3, <1>4, <1>5, <1>6, <1>7

Finite == Ahead \in Nat /\ Rounds \in Nat /\ (~ torn => Onward)
Goes ==
  /\ Step
  /\ pc \in {"find", "slot"} => ~ torn
  /\ pc \in {"free", "undo"} => UNCHANGED faults
  => LessIsLeft

(* Every call ends: each statement goes on to a later one or leaves its    *)
(* loop with fewer rounds, whatever power losses and failing writes there  *)
(* were, in two places under a condition. The walks along the current      *)
(* directory need a volume that is not torn, as their loops end only       *)
(* because its chain has no cycle (fat32_scan_dir_raw and fat32_walk_dir   *)
(* have no bound). Freeing a chain needs its writes of the table to        *)
(* succeed: each entry that is cleared is one less, and a cycle ends where *)
(* it began (fat32_free_chain, fat32.c:196); an entry that was not cleared *)
(* is one more round. Every other loop counts clusters or records          *)
(* (fat32_write_file, fat32.c:379).                                        *)
THEOREM CallsAreFinite == Spec => []Finite /\ [][Goes]_vars
<1>1. Init => TypeInv /\ VolumeInv
  BY TypeInit, VolumeInit DEF VolumeInv
<1>2. TypeInv /\ VolumeInv /\ [Next]_vars => (TypeInv /\ VolumeInv)'
  BY TypeStep, TornStays, VolumeStep DEF VolumeInv
<1>3. TypeInv /\ VolumeInv => Finite
  BY LeftType, WalkShorter DEF Finite, VolumeInv, Onward
<1>4. TypeInv /\ VolumeInv => Goes
  <2> SUFFICES ASSUME TypeInv, VolumeInv, Step, pc \in {"find", "slot"} => ~ torn,
                      pc \in {"free", "undo"} => UNCHANGED faults
               PROVE  LessIsLeft
    BY DEF Goes
  <2>1. CASE FindNext \/ SlotNext
    <3>1. VolumeParts
      BY <2>1 DEF FindNext, SlotNext, VolumeInv
    <3> QED BY <2>1, <3>1, WalkLess
  <2>2. CASE FreeStep
    BY <2>2, FreeStepLess DEF FreeStep
  <2> QED BY <2>1, <2>2, AllocLess, DataLess, OnLess DEF Step
<1>5. TypeInv /\ VolumeInv /\ [Next]_vars => [Goes]_vars
  BY <1>4
<1> QED BY <1>1, <1>2, <1>3, <1>5, PTL DEF Spec
=============================================================================
