------------------------------- MODULE Heap -------------------------------
(***************************************************************************)
(* malloc and free of kernel/memory.c.  The heap is a list of blocks, each *)
(* a header followed by its bytes; malloc takes the first free block that  *)
(* is large enough and splits it, free merges the block with the free      *)
(* blocks that follow it.  One step is one turn of the loop of either.     *)
(***************************************************************************)
EXTENDS Integers

CONSTANTS
  Base,      \* free_mem_addr
  Limit,     \* mem_limit
  Header,    \* sizeof(heap_block_t)
  MinSplit,  \* MIN_SPLIT_REMAINDER
  Align,     \* HEAP_ALIGN
  Word,      \* 2^32: sizes are computed modulo this
  Sizes      \* sizes callers ask for

ASSUME HeapAssumption ==
  /\ Base \in Nat \ {0} /\ Limit \in Nat /\ Header \in Nat \ {0} /\ MinSplit \in Nat
  /\ Base + Header <= Limit /\ Limit < Word
  /\ Header < MinSplit
  /\ Align \in Nat \ {0} /\ Word \in Nat /\ Align < Word
  /\ Limit - Base + MinSplit < Word
  /\ Sizes \subseteq 0 .. Word - 1

Addresses == Base .. Limit
Null == 0

VARIABLES
  hdr,    \* the headers on the list: address -> size, free, next
  live,   \* the blocks in use: address of the header -> size asked for
  pc,     \* where the running call is
  blk,    \* the block its loop has reached
  asked,  \* the size asked for
  size,   \* that size, aligned
  ret     \* what the call that has just ended returned

vars == <<hdr, live, pc, blk, asked, size, ret>>

Heads == DOMAIN hdr
Block(n, f, x) == [size |-> n, free |-> f, next |-> x]

(* align_up(n, HEAP_ALIGN) on 32-bit numbers.                              *)
AlignUp(n) == LET m == (n + (Align - 1)) % Word IN m - (m % Align)

Fits_Used(b) == hdr[b].size >= size
Fits(b) == hdr[b].free /\ hdr[b].size >= size
Splits_Tight(b) == hdr[b].size >= size
Splits(b) == hdr[b].size >= size + MinSplit
Follower(b) == hdr[b].next

(* The block the rest of a split one becomes, and a block grown by the one *)
(* that follows it.                                                        *)
RestAt(b) == b + Header + size
Rest(b) == Block(hdr[b].size - size - Header, TRUE, hdr[b].next)
Merged_NoHeader(b) == Block(hdr[b].size + hdr[Follower(b)].size, hdr[b].free, hdr[Follower(b)].next)
Merged(b) == Block(hdr[b].size + Header + hdr[Follower(b)].size, hdr[b].free, hdr[Follower(b)].next)

Init ==
  /\ hdr = [b \in {} |-> Block(0, FALSE, Null)]
  /\ live = [b \in {} |-> 0]
  /\ pc = "idle"
  /\ blk = Null /\ asked = 0 /\ size = 0
  /\ ret = Null

Return(p) ==
  /\ pc' = "idle" /\ ret' = p
  /\ blk' = Null /\ asked' = 0 /\ size' = 0

(* malloc(n): heap_init on the first call, then 0 for 0, then the list.    *)
MallocCall(n) ==
  /\ pc = "idle"
  /\ hdr' = IF Heads = {} THEN [b \in {Base} |-> Block(Limit - Base - Header, TRUE, Null)] ELSE hdr
  /\ IF n = 0
     THEN Return(Null)
     ELSE /\ pc' = "malloc"
          /\ asked' = n
          /\ size' = AlignUp(n)
          /\ blk' = Base
          /\ ret' = Null
  /\ UNCHANGED live

(* The block fits: cut off the rest if it is worth a block of its own.     *)
MallocTake ==
  /\ pc = "malloc" /\ blk # Null /\ Fits(blk)
  /\ hdr' = IF Splits(blk)
            THEN [b \in Heads \cup {RestAt(blk)} |->
                    IF b = blk THEN Block(size, FALSE, RestAt(blk))
                    ELSE IF b = RestAt(blk) THEN Rest(blk) ELSE hdr[b]]
            ELSE [hdr EXCEPT ![blk].free = FALSE]
  /\ live' = [b \in DOMAIN live \cup {blk} |-> IF b = blk THEN asked ELSE live[b]]
  /\ Return(blk + Header)
MallocNext ==
  /\ pc = "malloc" /\ blk # Null /\ ~ Fits(blk)
  /\ blk' = Follower(blk)
  /\ UNCHANGED <<hdr, live, pc, asked, size, ret>>
MallocFull ==
  /\ pc = "malloc" /\ blk = Null
  /\ Return(Null)
  /\ UNCHANGED <<hdr, live>>

(* free(p) of a block in use: mark it, then merge.  free(0) does nothing.  *)
FreeCall(b) ==
  /\ pc = "idle"
  /\ b \in DOMAIN live
  /\ hdr' = [hdr EXCEPT ![b].free = TRUE]
  /\ live' = [c \in DOMAIN live \ {b} |-> live[c]]
  /\ pc' = "free" /\ blk' = b /\ ret' = Null
  /\ UNCHANGED <<asked, size>>
Mergeable(b) == Follower(b) # Null /\ hdr[Follower(b)].free
FreeMerge ==
  /\ pc = "free"
  /\ Mergeable(blk)
  /\ hdr' = [b \in Heads \ {Follower(blk)} |-> IF b = blk THEN Merged(b) ELSE hdr[b]]
  /\ UNCHANGED <<live, pc, blk, asked, size, ret>>
FreeDone ==
  /\ pc = "free"
  /\ ~ Mergeable(blk)
  /\ Return(Null)
  /\ UNCHANGED <<hdr, live>>

Next ==
  \/ \E n \in Sizes : MallocCall(n)
  \/ \E b \in Addresses : FreeCall(b)
  \/ MallocTake \/ MallocNext \/ MallocFull \/ FreeMerge \/ FreeDone

Spec == Init /\ [][Next]_vars

-----------------------------------------------------------------------------
BlockType == [size : 0 .. Limit - Base, free : BOOLEAN, next : Addresses \cup {Null}]

(* The list is made of addresses of the heap.                              *)
TypeOK ==
  /\ Heads \subseteq Addresses
  /\ hdr \in [Heads -> BlockType]
  /\ DOMAIN live \subseteq Heads
  /\ live \in [DOMAIN live -> Sizes]
  /\ pc \in {"idle", "malloc", "free"}
  /\ blk \in Heads \cup {Null}
  /\ asked \in Sizes \cup {0}
  /\ size \in 0 .. Word - 1
  /\ ret \in Addresses \cup {Null}

(* The blocks on the list tile the heap: each begins where the one before  *)
(* it ends, the first at the start of the heap and the last up to its end. *)
BlockEnd(b) == b + Header + hdr[b].size
Tiled ==
  /\ Heads # {} => Base \in Heads
  /\ \A b \in Heads : BlockEnd(b) = IF hdr[b].next = Null THEN Limit ELSE hdr[b].next
  /\ \A b \in Heads : hdr[b].next # Null => hdr[b].next \in Heads
  /\ \A b, c \in Heads : b < c => hdr[b].next # Null /\ hdr[b].next <= c

(* What a caller may use: the bytes it asked for; of the last sizes of a   *)
(* word, which align_up makes 0, no byte at all.                           *)
Usable(n) == IF n <= Word - Align THEN n ELSE 0

(* What callers hold are blocks on the list that are not free, as large    *)
(* as they may use.                                                        *)
HeldBlocks == \A b \in DOMAIN live : ~ hdr[b].free /\ Usable(live[b]) <= hdr[b].size

(* No two blocks in use overlap, and none covers a header or reaches out   *)
(* of the heap.                                                            *)
Bytes(b) == b + Header .. b + Header + Usable(live[b]) - 1
NoOverlap ==
  \A b \in DOMAIN live :
    /\ Bytes(b) \subseteq Base .. Limit - 1
    /\ \A c \in Heads : c # b => Bytes(b) \cap (c .. BlockEnd(c) - 1) = {}

(* malloc gives up only if no free block is large enough.                  *)
FirstFit == pc = "malloc" => \A b \in Heads : blk = Null \/ b < blk => ~ Fits(b)

(* The heap is well formed between any two steps of malloc and free, in    *)
(* whatever order blocks were split, freed and merged, and no block that   *)
(* would have done is passed over (memory.c:27-63).                        *)
WellFormed == Tiled /\ HeldBlocks /\ NoOverlap /\ FirstFit

Exclusive == INSTANCE Allocator WITH
  First <- Base, Last <- Limit - 1, Sizes <- {Usable(n) : n \in Sizes},
  held <- [p \in {b + Header : b \in DOMAIN live} |-> Usable(live[p - Header])],
  answer <- ret

(* malloc and free keep the promises of Allocator, those of a block of no  *)
(* bytes where rounding up wrapped around (memory.c:23-63).                *)
ImplementsAllocator == Exclusive!Spec
=============================================================================
