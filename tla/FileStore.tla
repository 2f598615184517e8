----------------------------- MODULE FileStore -----------------------------
(***************************************************************************)
(* What the user of AiraOS may expect of the volume: a tree of directories *)
(* that maps names to contents, a current directory in it, and calls that  *)
(* concern one name each.  Fat32Files shows that the driver of Fat32       *)
(* implements this specification.                                          *)
(*                                                                         *)
(* A call does not take effect at once.  A name that is not in use stays   *)
(* so until the call ends, but a file that is being overwritten is in no   *)
(* definite state in between; if the call fails there, or the machine      *)
(* stops, the volume is damaged and nothing more is promised.  The same    *)
(* holds while a full directory is being enlarged.                         *)
(***************************************************************************)
CONSTANTS Dirs, Names, Root, Absent

VARIABLES
  store,    \* what each name of each directory holds
  at,       \* the current directory
  target,   \* the name the running call concerns, or NoKey
  goal,     \* what it is to hold
  result,   \* how the call that has just ended went
  growing,  \* the directory is being enlarged
  damaged   \* an overwrite was cut short

NoKey == <<>>
vars  == <<store, at, target, goal, result, growing, damaged>>

DirAt(d) == [kind |-> "dir", at |-> d]
IsDir(x) == x # Absent /\ x.kind = "dir"

Held(v, k) == v[k[1]][k[2]]

(* The directories of volume v that a user comes to from the root without  *)
(* the name that the running call concerns.                                *)
Others(v) ==
  {e \in Dirs : \A S \in SUBSET Dirs :
     /\ Root \in S
     /\ \A p \in S, n \in Names : <<p, n>> # target /\ IsDir(v[p][n]) => v[p][n].at \in S
     => e \in S}

(* What a call may change: what its own name holds, and when that is a     *)
(* directory, which goes with everything below it, all that is not among   *)
(* the others.                                                             *)
Elsewhere ==
  \A d \in Dirs :
    \/ \A n \in Names : <<d, n>> # target => store'[d][n] = store[d][n]
    \/ IsDir(Held(store, target)) /\ d \notin Others(store)

-----------------------------------------------------------------------------
Init ==
  /\ store = [d \in Dirs |-> [n \in Names |-> Absent]]
  /\ at = Root
  /\ target = NoKey
  /\ goal = Absent
  /\ result = "none"
  /\ growing = FALSE
  /\ damaged = FALSE

Begin ==
  /\ target = NoKey
  /\ target' \in {at} \X Names
  /\ goal' # Absent
  /\ result' = "none"
  /\ UNCHANGED <<store, at, growing, damaged>>

(* A step of an overwrite.                                                 *)
Work ==
  /\ target # NoKey
  /\ Held(store, target) # Absent /\ Held(store', target) # Absent
  /\ Elsewhere
  /\ UNCHANGED <<at, target, goal, result, growing, damaged>>

(* Enlarging the directory begins, or ends.                                *)
Grow ==
  /\ target # NoKey
  /\ growing' = ~ growing
  /\ UNCHANGED <<store, at, target, goal, result, damaged>>

End(r) == target' = NoKey /\ goal' = Absent /\ result' = r /\ growing' = FALSE

(* The call succeeds: the name holds what was asked for.  A directory is   *)
(* also made when the name is taken, and then either of the two is found.  *)
Succeed ==
  /\ target # NoKey
  /\ \/ Held(store', target) = goal
     \/ IsDir(goal) /\ Held(store, target) # Absent /\ UNCHANGED store
  /\ Elsewhere
  /\ End("ok")
  /\ UNCHANGED <<at, damaged>>

(* The call gives up: no name has changed, or the overwritten one is gone. *)
Fail ==
  /\ target # NoKey
  /\ UNCHANGED <<store, at>>
  /\ damaged' => damaged \/ Held(store, target) # Absent
  /\ End("fail")

(* A change of directory, to a subdirectory or to the parent, or not; one  *)
(* step asks for it and another one answers.                               *)
Ask == target = NoKey /\ result' = "none" /\ UNCHANGED <<store, at, target, goal, growing, damaged>>
Refuse == target = NoKey /\ result' = "fail" /\ UNCHANGED <<store, at, target, goal, growing, damaged>>
ChangeDir ==
  /\ target = NoKey
  /\ result' = "ok"
  /\ \/ \E n \in Names : IsDir(store[at][n]) /\ at' = store[at][n].at
     \/ \E d \in Dirs, n \in Names : store[d][n] = DirAt(at) /\ at' = d
  /\ UNCHANGED <<store, target, goal, growing, damaged>>

(* Power loss: as if the call had failed, and the root is current again.   *)
Restart ==
  /\ at' = Root
  /\ \/ UNCHANGED <<store, damaged>>
     \/ damaged' /\ (growing \/ (target # NoKey /\ Held(store, target) # Absent))
  /\ End("none")

Wreck == damaged /\ damaged'

Next == Begin \/ Work \/ Grow \/ Succeed \/ Fail \/ Ask \/ Refuse \/ ChangeDir \/ Restart \/ Wreck

Spec == Init /\ [][Next]_vars
=============================================================================
