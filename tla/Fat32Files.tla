---------------------------- MODULE Fat32Files ----------------------------
(***************************************************************************)
(* What the records and chains of Fat32 amount to: which clusters belong   *)
(* to which file or directory, what a lookup finds and what reading a file *)
(* returns; and the properties of the driver stated in those terms.        *)
(***************************************************************************)
EXTENDS Fat32

(* The clusters that a loop over fat32_get_next_cluster comes to from      *)
(* cluster c; more turns than there are clusters bring no new one.         *)
Chain(c) ==
  LET within[k \in 0 .. TotalClusters] ==
        IF k = 0 THEN {c} ELSE UNION {{b, fat[b]} : b \in within[k - 1] \cap Clusters}
  IN within[TotalClusters] \cap Clusters
Chains(S) == {<<c, Chain(c)>> : c \in S \cap Clusters}

(* The clusters of a chain that come after one of the clusters of S.       *)
Behind(S) == UNION {Chain(c) : c \in {fat[b] : b \in S} \cap Clusters}

(* The records as a walk would see them.  A cluster that is linked into a  *)
(* directory and about to be cleared is seen by no walk.                   *)
View(s) == IF pc = "clear" /\ s[1] = cur THEN End ELSE slot[s]

(* The records of directory d, and those before the first end mark, where  *)
(* fat32_walk_dir stops.                                                   *)
InDir(d) == Chain(d) \X Indices
Ends(c) == \E m \in Indices : View(<<c, m>>).kind = "end"
Listed(d) ==
  {s \in (Chain(d) \ Behind({c \in Chain(d) : Ends(c)})) \X Indices :
     \A m \in 1 .. s[2] : View(<<s[1], m>>).kind # "end"}
Named(r) == IsEntry(r) /\ r.name \in ShortNames
Entries(d) == {s \in Listed(d) : Named(View(s))}

(* fat32_walk_dir in mode 0: the first entry of a name.                    *)
Matches(s, n) == IsEntry(View(s)) /\ View(s).name = n
FirstOf[S \in SUBSET SlotIds] ==
  {s \in S : /\ s[1] \notin Behind({t[1] : t \in S})
             /\ \A t \in S : t[1] = s[1] => s[2] <= t[2]}
Lookup(d, n) == FirstOf[{s \in Listed(d) : Matches(s, n)}]

(* fat32_load_file, fat32_cat_file: what is read for entry e, if that is   *)
(* what some call wrote.                                                   *)
Absent == [kind |-> "absent"]
Lost   == [kind |-> "lost"]
File(v, z) == [kind |-> "file", val |-> IF z = 0 THEN Dot ELSE v, size |-> z]
Dir(d) == [kind |-> "dir", at |-> d]

Reads(e, v) ==
  \A i \in 1 .. e.size : \E c \in Chain(e.first) :
    /\ Cardinality(Chain(e.first) \ Chain(c)) = (i - 1) \div SlotsPerCluster
    /\ slot[<<c, ((i - 1) % SlotsPerCluster) + 1>>] = Chunk(v, i)
Content(e) ==
  IF e.kind = "dir" THEN Dir(e.first)
  ELSE IF e.size = 0 THEN File(Dot, 0)
  ELSE LET S == {v \in Values : Reads(e, v)} IN
       IF S = {} THEN Lost ELSE File(CHOOSE v \in S : TRUE, e.size)

(* What directory d shows its user for each name.                          *)
Shown(d) ==
  [n \in ShortNames |->
     LET S == Lookup(d, n) IN IF S = {} THEN Absent ELSE Content(View(CHOOSE s \in S : TRUE))]

-----------------------------------------------------------------------------
(* What lies below the root, if the pairs of R are a directory and one     *)
(* that is in it: the least set of that kind.                              *)
Reached[R \in SUBSET (Clusters \X Clusters)] ==
  {d \in Clusters :
     \A S \in SUBSET Clusters :
       RootCluster \in S /\ (\A r \in R : r[1] \in S => r[2] \in S) => d \in S}

(* The clusters that some record calls a directory.                        *)
Directories ==
  {RootCluster} \cup {slot[s].first : s \in {t \in SlotIds : Named(slot[t]) /\ slot[t].kind = "dir"}}

(* The directories a user can get to.                                      *)
Enters(d) ==
  {View(s).first : s \in {t \in Entries(d) : View(t).kind = "dir" /\ t \in Lookup(d, View(t).name)}}
LiveDirs == Reached[UNION {{d} \X Enters(d) : d \in Directories}]

(* Those through any entry but the one being overwritten.                  *)
Subdirs(d) == {View(s).first : s \in {t \in Entries(d) \ {found} : View(t).kind = "dir"}}
DirSet == Reached[UNION {{d} \X Subdirs(d) : d \in Directories}]

(* Entries other than the dots and the one being overwritten.              *)
EntrySlots == (UNION {Entries(d) : d \in DirSet}) \ {found}

(* The chains the running call holds besides those on the volume.          *)
Held == IF pc = "idle" THEN {}
        ELSE {head} \cup (IF pc \in {"free", "undo", "link", "elink"} THEN {cur} ELSE {})
Holders == {<<s, View(s).first>> : s \in EntrySlots} \cup {<<NoSlot, RootCluster>>, <<NoSlot, head>>}
Rooted == {RootCluster} \cup {View(s).first : s \in EntrySlots}
Owned == UNION {Chain(c) : c \in (Rooted \cup Held) \cap Clusters}
Leaked == {c \in Clusters : fat[c] # Free} \ Owned

-----------------------------------------------------------------------------
(* No cluster belongs to two files, or to a file and a directory, unless   *)
(* the volume is torn: what one file holds, writing another cannot change. *)
NoCrossLink ==
  ~ torn =>
    \A x, y \in {<<h, Chain(h[2])>> : h \in Holders} : x # y => x[2] \cap y[2] = {}

(* A chain that an entry names leads to its end mark through allocated     *)
(* clusters only, so that the allocator never gives them away again.       *)
NoDangling ==
  ~ torn => \A x \in Chains(Rooted) : {fat[b] : b \in x[2]} \ Clusters = {Eoc}

(* No entry lies behind the end mark of its directory, where no lookup     *)
(* would ever find it.                                                     *)
EntryVisible ==
  ~ torn => \A d \in DirSet : \A s \in InDir(d) \ Listed(d) : ~ IsEntry(View(s))

(* The current directory is one that can be reached from the root.         *)
CwdLive == ~ torn => cwd \in LiveDirs

(* The volume is sound: files and directories are apart, whole and to be   *)
(* found, the current one too, whatever calls, power losses and failing    *)
(* writes of data and entries came before, until it is torn: an overwrite  *)
(* was cut short, a directory was left with a cluster that was not         *)
(* cleared, or a write of the allocation table failed, after which the     *)
(* driver goes on with an entry that may not be there (fat32.c:172;        *)
(* fat32_write_file, fat32.c:379; fat32_make_directory, fat32.c:467).      *)
VolumeSound == NoCrossLink /\ NoDangling /\ EntryVisible /\ CwdLive

(* Space is lost only by a power loss, a failing write or overwriting a    *)
(* directory, whose contents stay allocated; every other call, failing     *)
(* ones too, gives back what it does not keep.                             *)
LeakOnlyBy ==
  [][ \/ <<crashes, faults>>' # <<crashes, faults>>
      \/ torn'
      \/ found' # NoSlot /\ slot[found'].kind = "dir"
      \/ Leaked' \subseteq Leaked ]_vars

(* Every call returns, on a volume whose chains are sound.                 *)
CallsReturn == (pc # "idle") ~> (pc = "idle" \/ torn)

-----------------------------------------------------------------------------
(* The abstract volume these records represent.                            *)
Store ==
  LET of[live \in SUBSET Clusters] ==
        [d \in Clusters |-> IF d \in live THEN Shown(d) ELSE [n \in ShortNames |-> Absent]]
  IN of[LiveDirs]
Running == pc # "idle" /\ req.op \in {"write", "mkdir"}

Abstract == INSTANCE FileStore WITH
  Dirs <- Clusters, Names <- ShortNames, Root <- RootCluster, Absent <- Absent,
  store <- Store,
  at <- cwd,
  target <- IF Running THEN <<cwd, req.key>> ELSE <<>>,
  goal <- IF ~ Running THEN Absent
          ELSE IF req.op = "write" THEN File(req.val, req.size) ELSE Dir(head),
  result <- ret, growing <- (pc = "clear"), damaged <- torn

(* The driver keeps the promises of FileStore.                             *)
Implements == Abstract!Spec
=============================================================================
