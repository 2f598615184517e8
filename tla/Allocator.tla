----------------------------- MODULE Allocator -----------------------------
(***************************************************************************)
(* What malloc and free promise their callers: blocks that are theirs      *)
(* alone until they give them back.                                        *)
(***************************************************************************)
EXTENDS Integers

CONSTANTS First, Last, Sizes

VARIABLES
  held,    \* the size asked for of every block handed out, by its address
  answer   \* what the call that has just ended returned

vars == <<held, answer>>

Region(p, n) == p .. p + n - 1
Restricted(f, S) == [p \in S |-> f[p]]

Init == held = [p \in {} |-> 0] /\ answer = 0

(* A block of no bytes may begin where the memory ends.                    *)
Grant(n) ==
  \E p \in First .. Last + 1 :
    /\ Region(p, n) \subseteq First .. Last
    /\ p \notin DOMAIN held
    /\ \A q \in DOMAIN held : Region(p, n) \cap Region(q, held[q]) = {}
    /\ held' = [q \in DOMAIN held \cup {p} |-> IF q = p THEN n ELSE held[q]]
    /\ answer' = p
Refuse == answer' = 0 /\ UNCHANGED held
GiveBack(p) == held' = Restricted(held, DOMAIN held \ {p}) /\ answer' = 0

Next == (\E n \in Sizes : Grant(n)) \/ Refuse \/ \E p \in DOMAIN held : GiveBack(p)

Spec == Init /\ [][Next]_vars
=============================================================================
