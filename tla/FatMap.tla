------------------------------ MODULE FatMap ------------------------------
(***************************************************************************)
(* The allocation table as the rest of the FAT32 driver (module Fat32)     *)
(* takes it to be: one map from clusters to what follows them, read and    *)
(* changed one entry at a time, that survives a power loss.  FatTable, with*)
(* its copies and its cache, implements this specification.                *)
(***************************************************************************)
EXTENDS Integers

CONSTANTS Clusters, Links, Free, Eoc

VARIABLES
  map,     \* what follows each cluster
  call,    \* the call in progress
  reply,   \* what the last call returned
  damaged  \* a write was lost or a lookup disturbed: nothing is promised

vars == <<map, call, reply, damaged>>

NoCall == [op |-> "none"]

Init ==
  /\ map \in [Clusters -> Links]
  /\ call = NoCall
  /\ reply = 0
  /\ damaged = FALSE

Begin ==
  /\ call = NoCall
  /\ call' \in [op : {"get", "free"}, arg : Clusters]
       \cup [op : {"set"}, arg : Clusters, val : Links] \cup [op : {"alloc"}]
  /\ reply' = 0
  /\ UNCHANGED map

(* The one moment at which a set, or a free of one cluster, takes effect.  *)
Put ==
  /\ call.op = "set" /\ map' = [map EXCEPT ![call.arg] = call.val]
  /\ UNCHANGED <<call, reply>>
Release ==
  /\ call.op = "free" /\ call.arg \in Clusters
  /\ map' = [map EXCEPT ![call.arg] = Free]
  /\ call' = [call EXCEPT !.arg = map[call.arg]]
  /\ UNCHANGED reply

(* An allocation takes a free cluster and marks it as an end of chain.     *)
Take ==
  /\ call.op = "alloc"
  /\ \E c \in Clusters : /\ map[c] = Free
                         /\ map' = [map EXCEPT ![c] = Eoc]
                         /\ call' = [op |-> "taken", arg |-> c]
  /\ UNCHANGED reply

End(r) == call' = NoCall /\ reply' = r /\ UNCHANGED map
Return ==
  \/ call.op = "get" /\ End(map[call.arg])
  \/ call.op = "set" /\ map[call.arg] = call.val /\ End(0)
  \/ call.op = "free" /\ call.arg \notin Clusters /\ End(0)
  \/ call.op = "taken" /\ End(call.arg)
  \/ call.op = "alloc" /\ (\A c \in Clusters : map[c] # Free) /\ End(0)

PowerLoss == End(0)

Next == Begin \/ Put \/ Release \/ Take \/ Return \/ PowerLoss

Spec == Init /\ [][damaged \/ damaged' \/ Next]_vars
=============================================================================
