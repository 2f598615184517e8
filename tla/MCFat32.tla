------------------------------ MODULE MCFat32 ------------------------------
(***************************************************************************)
(* Small volumes for Fat32Files: the names typed, the entry names that     *)
(* to_short_name makes of them, and the bound on what is explored.         *)
(***************************************************************************)
EXTENDS Fat32Files, TLC

MCNames2   == {"a", "b"}
MCShortOf2 == ("a" :> "A") @@ ("b" :> "B")

(* A name of more than eight characters that is cut to the same short one. *)
MCNames3   == MCNames2 \cup {"b-and-more"}
MCShortOf3 == MCShortOf2 @@ ("b-and-more" :> "B")

(* Nothing is promised of a volume once it is torn: where the properties   *)
(* say so, its further life is not explored.                               *)
Sound == ~ torn

(* One power loss or one failing write, not both; a call that tears the    *)
(* volume runs to its end.                                                 *)
OneMishap == (Sound \/ pc # "idle") /\ crashes + faults <= 1

(* The driver does not look at the contents of files.                      *)
Symmetry == Permutations(Values)
=============================================================================
