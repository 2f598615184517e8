---------------------------- MODULE MemoryProofs ----------------------------
(***************************************************************************)
(* Memory and who holds it.  First the heap: the blocks of kernel/memory.c *)
(* tile it and callers never share a byte, for a heap, a header and        *)
(* requests of any size.  Then the tasks, whose stacks malloc hands out:   *)
(* slots, stacks and the count of tasks agree, for any number of slots,    *)
(* any size of a stack and any heap.                                       *)
(***************************************************************************)
EXTENDS Heap, Tasks, FiniteSetTheorems, WellFoundedInduction, TLAPS

(* What a running call may count on: malloc looks for the size it was      *)
(* asked, rounded up; free has already marked its block.                   *)
Running ==
  /\ pc = "malloc" => asked \in Sizes \ {0} /\ size = AlignUp(asked)
  /\ pc = "free" => blk \in Heads /\ hdr[blk].free

Inv == TypeOK /\ Tiled /\ HeldBlocks /\ Running

(* align_up stays in a word, and rounds up unless the sum wraps around.    *)
LEMMA AlignUpRange == ASSUME NEW n \in 0 .. Word - 1
                      PROVE  AlignUp(n) \in 0 .. Word - 1
  BY HeapAssumption DEF AlignUp
LEMMA AlignUpRounds == ASSUME NEW n \in 0 .. Word - 1, n <= Word - Align
                       PROVE  n <= AlignUp(n)
<1>1. (n + (Align - 1)) % Word = n + (Align - 1)
  BY HeapAssumption
<1>2. (n + (Align - 1)) % Align \in 0 .. Align - 1
  BY HeapAssumption
<1> QED BY <1>1, <1>2, HeapAssumption DEF AlignUp

(* The bytes that may be used are no more than align_up leaves.            *)
LEMMA UsableFits == ASSUME NEW n \in 0 .. Word - 1
                    PROVE  Usable(n) \in Nat /\ Usable(n) <= AlignUp(n)
<1>1. CASE n <= Word - Align
  BY <1>1, AlignUpRounds DEF Usable
<1>2. CASE ~ (n <= Word - Align)
  <2>1. Usable(n) = 0
    BY <1>2 DEF Usable
  <2> QED BY <2>1, AlignUpRange, HeapAssumption
<1> QED BY <1>1, <1>2

(* A block of the list lies inside the heap, its header included.          *)
LEMMA BlockInside == ASSUME TypeOK, Tiled, NEW b \in Heads
                     PROVE  BlockEnd(b) <= Limit /\ b + Header <= BlockEnd(b)
  BY HeapAssumption DEF TypeOK, Tiled, BlockEnd, BlockType, Addresses, Null

(* A block ends before the next one on the list begins.                    *)
LEMMA BlockTyped == ASSUME TypeOK, NEW b \in Heads
                    PROVE  /\ b \in Nat \ {0} /\ Base <= b /\ b <= Limit
                           /\ hdr[b] \in BlockType
                           /\ hdr[b].size \in Nat /\ hdr[b].next \in Nat
  BY HeapAssumption DEF TypeOK, BlockType, Addresses, Null
LEMMA BlockBefore == ASSUME TypeOK, Tiled, NEW b \in Heads, NEW c \in Heads, b < c
                     PROVE  BlockEnd(b) = hdr[b].next /\ BlockEnd(b) <= c
  BY DEF Tiled

LEMMA InitInv == Init => Inv
  BY HeapAssumption DEF Init, Inv, TypeOK, Tiled, HeldBlocks, Running, Heads, BlockEnd, Null

LEMMA MallocCallInv == ASSUME Inv, NEW n \in Sizes, MallocCall(n) PROVE Inv'
<1> USE HeapAssumption DEF Inv, MallocCall, Null
<1>h. Heads' = IF Heads = {} THEN {Base} ELSE Heads
  BY DEF Heads
<1>t. TypeOK'
  <2>1. hdr' \in [Heads' -> BlockType] /\ Heads' \subseteq Addresses
    BY <1>h DEF TypeOK, Block, BlockType, Addresses, Heads
  <2>2. DOMAIN live' \subseteq Heads' /\ live' \in [DOMAIN live' -> Sizes]
    BY <1>h DEF TypeOK
  <2>3. CASE n = 0
    BY <2>1, <2>2, <2>3 DEF TypeOK, Return
  <2>4. CASE n # 0
    <3>1. Base \in Heads'
      BY <1>h DEF Tiled
    <3>2. AlignUp(n) \in 0 .. Word - 1
      BY AlignUpRange
    <3> QED BY <2>1, <2>2, <2>4, <3>1, <3>2 DEF TypeOK
  <2> QED BY <2>3, <2>4
<1>2. Tiled'
  BY <1>h DEF TypeOK, Tiled, Heads, Block, BlockEnd, BlockType, Addresses
<1>3. HeldBlocks'
  BY <1>h DEF TypeOK, HeldBlocks, Heads
<1>4. Running'
  BY <1>h DEF Running, Return
<1> QED BY <1>t, <1>2, <1>3, <1>4

LEMMA MallocTakeInv == ASSUME Inv, MallocTake PROVE Inv'
<1> USE HeapAssumption DEF Null
<1>a. TypeOK /\ Tiled /\ HeldBlocks /\ Running
  BY DEF Inv
<1>b. /\ pc' = "idle" /\ ret' = blk + Header
      /\ blk' = 0 /\ asked' = 0 /\ size' = 0
      /\ live' = [b \in DOMAIN live \cup {blk} |-> IF b = blk THEN asked ELSE live[b]]
  BY DEF MallocTake, Return
<1> DEFINE rest == RestAt(blk)
<1>0. /\ blk \in Heads /\ blk \in Addresses /\ hdr[blk].free /\ hdr[blk].size >= size
      /\ hdr[blk] \in BlockType /\ size \in 0 .. Word - 1 /\ asked \in Sizes
      /\ blk \notin DOMAIN live /\ size = AlignUp(asked)
  BY <1>a DEF TypeOK, MallocTake, Fits, Running, HeldBlocks
<1>1. CASE Splits(blk)
  <2>1. /\ blk < rest /\ rest + Header <= BlockEnd(blk) /\ rest \in Addresses
        /\ hdr[blk].size - size - Header \in 0 .. Limit - Base
        /\ size \in 0 .. Limit - Base
    BY <1>0, <1>1, <1>a, BlockInside DEF Splits, RestAt, BlockEnd, BlockType, Addresses
  <2>2. rest \notin Heads
    BY <1>0, <1>a, <2>1, BlockTyped, BlockBefore DEF BlockEnd
  <2>3. /\ Heads' = Heads \cup {rest}
        /\ hdr'[blk] = Block(size, FALSE, rest)
        /\ hdr'[rest] = Block(hdr[blk].size - size - Header, TRUE, hdr[blk].next)
        /\ \A b \in Heads \ {blk} : hdr'[b] = hdr[b]
    BY <1>0, <1>1, <2>1, <2>2 DEF MallocTake, Heads, Rest
  <2>4. hdr' \in [Heads' -> BlockType]
    <3>1. hdr[blk].next \in Addresses \cup {Null}
      BY <1>0 DEF BlockType
    <3>2. hdr'[blk] \in BlockType /\ hdr'[rest] \in BlockType
      BY <2>1, <2>3, <3>1 DEF Block, BlockType
    <3>3. \E f : hdr' = [b \in Heads' |-> f[b]]
      BY <1>1, <2>3 DEF MallocTake
    <3>4. \A b \in Heads' : hdr'[b] \in BlockType
      BY <1>a, <2>3, <3>2 DEF TypeOK
    <3> QED BY <3>3, <3>4
  <2>5. TypeOK'
    <3>1. Heads' \subseteq Addresses /\ DOMAIN live' \subseteq Heads'
      BY <1>0, <1>a, <1>b, <2>1, <2>3 DEF TypeOK
    <3>2. live' \in [DOMAIN live' -> Sizes]
      BY <1>0, <1>a, <1>b DEF TypeOK
    <3>3. blk + Header \in Addresses
      BY <1>0, <2>1 DEF Addresses, RestAt
    <3> QED BY <1>b, <2>4, <3>1, <3>2, <3>3 DEF TypeOK
  <2>6. Tiled'
    <3>1. /\ \A b \in Heads' : BlockEnd(b)' = IF hdr'[b].next = Null THEN Limit ELSE hdr'[b].next
          /\ Base \in Heads'
      <4>1. Base \in Heads'
        BY <1>0, <1>a, <2>3 DEF Tiled
      <4>2. blk + Header + hdr'[blk].size = rest /\ hdr'[blk].next = rest /\ rest # Null
        BY <1>0, <2>1, <2>3 DEF BlockEnd, Block, RestAt, Addresses
      <4>3. rest + Header + hdr'[rest].size = BlockEnd(blk) /\ hdr'[rest].next = hdr[blk].next
        BY <1>0, <2>1, <2>3 DEF BlockEnd, Block, RestAt, Addresses, BlockType
      <4>4. \A b \in Heads \ {blk} : b + Header + hdr'[b].size = BlockEnd(b) /\ hdr'[b] = hdr[b]
        BY <2>3 DEF BlockEnd
      <4>5. \A b \in Heads' : b + Header + hdr'[b].size = IF hdr'[b].next = Null THEN Limit ELSE hdr'[b].next
        BY <1>0, <1>a, <2>3, <4>2, <4>3, <4>4 DEF Tiled
      <4> QED BY <4>1, <4>5 DEF BlockEnd
    <3>2. \A b \in Heads' : hdr'[b].next # Null => hdr'[b].next \in Heads'
      BY <1>0, <1>a, <1>b, <2>1, <2>3 DEF TypeOK, Tiled, Block
    <3>3. ASSUME NEW b \in Heads', NEW c \in Heads', b < c
          PROVE  hdr'[b].next # Null /\ hdr'[b].next <= c
      <4>1. CASE b = blk
        BY <1>0, <1>a, <1>b, <2>1, <2>3, <3>3, <4>1 DEF TypeOK, Tiled, Block, BlockEnd, Addresses, BlockType
      <4>2. CASE b = rest
        BY <1>0, <1>a, <1>b, <2>1, <2>2, <2>3, <3>3, <4>2 DEF TypeOK, Tiled, Block, Addresses
      <4>3. CASE b \notin {blk, rest}
        <5>0. b \in Heads /\ hdr'[b] = hdr[b]
          BY <2>3, <4>3
        <5>1. CASE c = rest
          <6>1. b < blk
            BY <1>0, <1>a, <1>b, <2>1, <3>3, <4>3, <5>0, <5>1, BlockTyped, BlockBefore DEF RestAt, BlockEnd
          <6>2. hdr[b].next # Null /\ hdr[b].next <= blk
            BY <1>0, <1>a, <1>b, <5>0, <6>1 DEF Tiled
          <6>3. hdr[b].next \in Nat /\ blk \in Nat /\ rest \in Nat
            BY <1>0, <1>a, <2>1, <5>0, BlockTyped DEF Addresses
          <6> QED BY <2>1, <5>0, <5>1, <6>2, <6>3
        <5>2. CASE c # rest
          BY <1>a, <2>3, <3>3, <5>0, <5>2 DEF Tiled
        <5> QED BY <5>1, <5>2
      <4> QED BY <4>1, <4>2, <4>3
    <3> QED BY <3>1, <3>2, <3>3 DEF Tiled
  <2>7. HeldBlocks'
    <3>1. Usable(asked) <= size
      BY <1>0, UsableFits
    <3> QED BY <1>0, <1>a, <1>b, <2>1, <2>3, <3>1 DEF TypeOK, HeldBlocks, Block
  <2>8. Running'
    BY <1>b DEF Running
  <2> QED BY <2>5, <2>6, <2>7, <2>8 DEF Inv
<1>2. CASE ~ Splits(blk)
  <2>1. /\ Heads' = Heads
        /\ hdr'[blk] = [hdr[blk] EXCEPT !.free = FALSE]
        /\ \A b \in Heads \ {blk} : hdr'[b] = hdr[b]
        /\ \A b \in Heads : hdr'[b].next = hdr[b].next /\ hdr'[b].size = hdr[b].size
        /\ hdr' \in [Heads -> BlockType]
    BY <1>0, <1>a, <1>2 DEF MallocTake, Heads, TypeOK, BlockType
  <2>2. TypeOK'
    <3>1. live' \in [DOMAIN live' -> Sizes] /\ DOMAIN live' \subseteq Heads'
      BY <1>0, <1>a, <1>b, <2>1 DEF TypeOK
    <3>2. blk + Header \in Addresses
      BY <1>0, <1>a, <1>b, BlockInside, BlockTyped DEF Addresses, BlockEnd
    <3>3. Heads' \subseteq Addresses /\ hdr' \in [Heads' -> BlockType]
      BY <1>a, <2>1 DEF TypeOK
    <3> QED BY <1>b, <3>1, <3>2, <3>3 DEF TypeOK
  <2>3. Tiled'
    <3>1. /\ Heads' # {} => Base \in Heads'
          /\ \A b \in Heads' : hdr'[b].next # Null => hdr'[b].next \in Heads'
      BY <1>a, <2>1 DEF Tiled
    <3>2. \A b, c \in Heads' : b < c => hdr'[b].next # Null /\ hdr'[b].next <= c
      BY <1>a, <2>1 DEF Tiled
    <3>3. \A b \in Heads' : BlockEnd(b)' = IF hdr'[b].next = Null THEN Limit ELSE hdr'[b].next
      BY <1>a, <2>1 DEF Tiled, BlockEnd
    <3> QED BY <3>1, <3>2, <3>3 DEF Tiled
  <2>4. HeldBlocks'
    <3>1. Usable(asked) <= hdr[blk].size
      <4>1. Usable(asked) <= size
        BY <1>0, UsableFits
      <4>2. Usable(asked) \in Nat /\ size \in Nat /\ hdr[blk].size \in Nat
        BY <1>0, UsableFits DEF BlockType
      <4> QED BY <1>0, <4>1, <4>2
    <3>2. ~ hdr'[blk].free
      BY <1>0, <1>a, <1>b, <2>1 DEF BlockType
    <3> QED BY <1>0, <1>a, <1>b, <2>1, <3>1, <3>2 DEF HeldBlocks, TypeOK
  <2>5. Running'
    BY <1>b DEF Running
  <2> QED BY <2>2, <2>3, <2>4, <2>5 DEF Inv
<1> QED BY <1>1, <1>2

LEMMA FreeCallInv == ASSUME Inv, NEW b \in Addresses, FreeCall(b) PROVE Inv'
<1> USE HeapAssumption DEF Inv, FreeCall, Null
<1>1. /\ Heads' = Heads /\ b \in Heads
      /\ hdr'[b].free
      /\ \A c \in Heads : hdr'[c].next = hdr[c].next /\ hdr'[c].size = hdr[c].size
      /\ \A c \in Heads \ {b} : hdr'[c] = hdr[c]
  BY DEF TypeOK, BlockType, Heads
<1>2. TypeOK'
  BY <1>1 DEF TypeOK, Heads, BlockType, Addresses
<1>3. Tiled'
  BY <1>1 DEF Tiled, BlockEnd
<1>4. HeldBlocks'
  BY <1>1 DEF HeldBlocks, TypeOK
<1>5. Running'
  BY <1>1 DEF Running
<1> QED BY <1>2, <1>3, <1>4, <1>5

LEMMA FreeMergeInv == ASSUME Inv, FreeMerge PROVE Inv'
<1> USE HeapAssumption DEF Inv, FreeMerge, Mergeable, Follower, Null
<1> DEFINE f == hdr[blk].next
<1>0. /\ blk \in Heads /\ f \in Heads /\ hdr[blk].free /\ hdr[f].free
      /\ f \notin DOMAIN live /\ blk \in Addresses /\ f \in Addresses
      /\ hdr[blk] \in BlockType /\ hdr[f] \in BlockType
  BY DEF TypeOK, Tiled, Running, HeldBlocks
<1>1. BlockEnd(blk) = f /\ blk < f
  BY <1>0 DEF Tiled, BlockEnd, BlockType, Addresses
<1>2. /\ Heads' = Heads \ {f}
      /\ hdr'[blk] = Block(hdr[blk].size + Header + hdr[f].size, TRUE, hdr[f].next)
      /\ \A b \in Heads \ {f, blk} : hdr'[b] = hdr[b]
  <2>1. blk # f /\ Merged(blk) = Block(hdr[blk].size + Header + hdr[f].size, TRUE, hdr[f].next)
    BY <1>0, <1>1 DEF Merged, BlockType, Addresses
  <2> QED BY <1>0, <2>1 DEF Heads
<1>3. blk + Header + (hdr[blk].size + Header + hdr[f].size) = BlockEnd(f)
  BY <1>0, <1>1 DEF BlockEnd, BlockType, Addresses
<1>4. hdr[blk].size + Header + hdr[f].size \in 0 .. Limit - Base
  BY <1>0, <1>3, BlockInside DEF BlockType, Addresses, BlockEnd
<1>5. hdr[f].next \notin {f, blk}
  <2>1. hdr[f].next # Null => hdr[f].next > f
    BY <1>0 DEF Tiled, BlockEnd, BlockType, Addresses
  <2> QED BY <1>0, <1>1, <2>1 DEF Addresses
<1>6. TypeOK'
  <2>1. hdr' \in [Heads' -> BlockType]
    <3>1. hdr'[blk] \in BlockType
      <4>1. hdr[f].next \in Addresses \cup {Null}
        BY <1>0 DEF BlockType
      <4>2. hdr'[blk] = Block(hdr[blk].size + Header + hdr[f].size, TRUE, hdr[f].next)
        BY <1>2
      <4> HIDE DEF f
      <4> QED BY ONLY <1>4, <4>1, <4>2 DEF Block, BlockType
    <3>2. DOMAIN hdr' = Heads' /\ \A b \in Heads' : hdr'[b] \in BlockType
      BY <1>2, <3>1 DEF Heads, TypeOK
    <3> QED BY <1>2, <3>2 DEF TypeOK
  <2> QED BY <1>0, <1>1, <1>2, <2>1 DEF TypeOK, Addresses
<1>7. Tiled'
  <2>1. \A b \in Heads' : BlockEnd(b)' = IF hdr'[b].next = Null THEN Limit ELSE hdr'[b].next
    BY <1>0, <1>2, <1>3 DEF Tiled, BlockEnd, Block, TypeOK
  <2>2. \A b \in Heads' : hdr'[b].next # Null => hdr'[b].next \in Heads'
    <3>1. ASSUME NEW b \in Heads \ {f, blk} PROVE hdr[b].next # f
      <4>1. CASE b < blk
        BY <1>0, <1>1, <4>1, BlockTyped DEF Tiled
      <4>2. CASE blk < b
        BY <1>0, <1>1, <3>1, <4>2, BlockTyped, BlockBefore DEF Tiled, BlockEnd
      <4> QED BY <1>0, <3>1, <4>1, <4>2, BlockTyped
    <3> QED BY <1>0, <1>2, <1>5, <3>1 DEF Tiled, Block
  <2>3. ASSUME NEW b \in Heads', NEW c \in Heads', b < c
        PROVE  hdr'[b].next # Null /\ hdr'[b].next <= c
    <3>1. CASE b = blk
      BY <1>0, <1>1, <1>2, <2>3, <3>1 DEF TypeOK, Tiled, Block, Addresses
    <3>2. CASE b # blk
      BY <1>2, <2>3, <3>2 DEF Tiled
    <3> QED BY <3>1, <3>2
  <2>4. Base \in Heads'
    BY <1>0, <1>1, <1>2 DEF Tiled, Addresses
  <2> QED BY <2>1, <2>2, <2>3, <2>4 DEF Tiled
<1>8. HeldBlocks'
  BY <1>0, <1>2 DEF HeldBlocks, TypeOK, Block
<1>9. Running'
  <2>1. blk \in Heads' /\ hdr'[blk].free
    BY <1>0, <1>1, <1>2 DEF Block, Addresses
  <2> QED BY <2>1 DEF Running
<1> QED BY <1>6, <1>7, <1>8, <1>9

LEMMA NextInv == Inv /\ [Next]_vars => Inv'
<1> SUFFICES ASSUME Inv, [Next]_vars PROVE Inv'
  OBVIOUS
<1>1. CASE \E n \in Sizes : MallocCall(n)
  BY <1>1, MallocCallInv
<1>2. CASE MallocTake
  BY <1>2, MallocTakeInv
<1>3. CASE MallocNext
  BY <1>3, HeapAssumption DEF Inv, MallocNext, TypeOK, Tiled, HeldBlocks, Running, BlockEnd, Heads,
     Follower, Null
<1>4. CASE MallocFull
  BY <1>4, HeapAssumption DEF Inv, MallocFull, Return, TypeOK, Tiled, HeldBlocks, Running, BlockEnd,
     Heads, Null
<1>5. CASE \E b \in Addresses : FreeCall(b)
  BY <1>5, FreeCallInv
<1>6. CASE FreeMerge
  BY <1>6, FreeMergeInv
<1>7. CASE FreeDone
  BY <1>7, HeapAssumption DEF Inv, FreeDone, Return, TypeOK, Tiled, HeldBlocks, Running, BlockEnd,
     Heads, Null
<1>8. CASE UNCHANGED vars
  BY <1>8 DEF Inv, vars, TypeOK, Tiled, HeldBlocks, Running, BlockEnd, Heads
<1> QED BY <1>1, <1>2, <1>3, <1>4, <1>5, <1>6, <1>7, <1>8 DEF Next

(* The blocks malloc has passed do not fit: the list goes up the addresses.*)
LEMMA FirstFitStep == Inv /\ FirstFit /\ [Next]_vars => FirstFit'
<1> SUFFICES ASSUME Inv, FirstFit, [Next]_vars, pc' = "malloc",
                    NEW b \in Heads', blk' = Null \/ b < blk'
             PROVE  ~ Fits(b)'
  BY DEF FirstFit
<1>t. TypeOK /\ Tiled /\ TypeOK'
  BY NextInv DEF Inv
<1>1. CASE UNCHANGED vars
  BY <1>1 DEF vars, FirstFit, Fits, Heads
<1>2. ASSUME NEW n \in Sizes, MallocCall(n) PROVE FALSE
  <2>1. blk' = Base
    BY <1>2 DEF MallocCall, Return
  <2>2. b \in Base .. Limit
    BY <1>t DEF TypeOK, Addresses
  <2> QED BY <2>1, <2>2, HeapAssumption DEF Null
<1>3. CASE MallocNext
  <2>1. /\ Heads' = Heads /\ hdr' = hdr /\ size' = size /\ pc = "malloc"
        /\ blk \in Heads /\ blk' = hdr[blk].next /\ ~ Fits(blk)
    BY <1>3, <1>t DEF MallocNext, Follower, Heads, TypeOK
  <2>2. CASE b < blk
    BY <2>1, <2>2 DEF FirstFit, Fits
  <2>3. CASE b = blk
    BY <2>1, <2>3 DEF Fits
  <2>4. CASE blk < b
    <3>1. hdr[blk].next # Null /\ hdr[blk].next <= b
      BY <1>t, <2>1, <2>4 DEF Tiled
    <3>2. hdr[blk].next \in Nat /\ b \in Nat
      BY <1>t, <2>1, BlockTyped
    <3> QED BY <2>1, <3>1, <3>2
  <2>5. b \in Nat /\ blk \in Nat
    BY <1>t, <2>1, BlockTyped
  <2> QED BY <2>2, <2>3, <2>4, <2>5
<1> QED BY <1>1, <1>2, <1>3 DEF Next, MallocTake, MallocFull, FreeCall, FreeMerge, FreeDone, Return

(* The invariant holds in every state, and with it that malloc has passed  *)
(* no block that fits (memory.c:27-63).                                    *)
THEOREM Invariance == Spec => [](Inv /\ FirstFit)
<1>1. Init => FirstFit
  BY DEF Init, FirstFit
<1> QED BY <1>1, InitInv, NextInv, FirstFitStep, PTL DEF Spec

LEMMA InvSeparates == Inv => NoOverlap
<1> SUFFICES ASSUME Inv, NEW b \in DOMAIN live
             PROVE  /\ Bytes(b) \subseteq Base .. Limit - 1
                    /\ \A c \in Heads : c # b => Bytes(b) \cap (c .. BlockEnd(c) - 1) = {}
  BY DEF NoOverlap
<1> USE HeapAssumption DEF Inv, Null
<1>1. /\ b \in Heads /\ b \in Addresses /\ hdr[b] \in BlockType
      /\ Usable(live[b]) \in Nat /\ Usable(live[b]) <= hdr[b].size
  <2>1. live[b] \in 0 .. Word - 1
    BY DEF TypeOK
  <2> QED BY <2>1, UsableFits DEF TypeOK, HeldBlocks
<1>2. \A i \in Bytes(b) : i \in Int /\ b + Header <= i /\ i < BlockEnd(b)
  BY <1>1 DEF Bytes, BlockEnd, Addresses, BlockType
<1>3. Bytes(b) \subseteq Base .. Limit - 1
  BY <1>1, <1>2, BlockInside DEF Addresses, BlockEnd, BlockType
<1>4. ASSUME NEW c \in Heads, c # b, NEW i \in Bytes(b), i \in c .. BlockEnd(c) - 1
      PROVE  FALSE
  <2>1. c \in Addresses /\ hdr[c] \in BlockType
    BY DEF TypeOK
  <2>2. CASE c < b
    BY <1>1, <1>2, <1>4, <2>1, <2>2 DEF Tiled, BlockEnd, Addresses, BlockType
  <2>3. CASE b < c
    BY <1>1, <1>2, <1>4, <2>1, <2>3 DEF Tiled, BlockEnd, Addresses, BlockType
  <2> QED BY <1>1, <1>4, <2>1, <2>2, <2>3 DEF Addresses
<1> QED BY <1>3, <1>4

(* The headers, the blocks in use and the running call stay well formed:   *)
(* the blocks tile the heap from its start to its end, and no byte handed  *)
(* out by malloc belongs to a header, to another block or to memory        *)
(* outside the heap; and malloc passes over no block that would do.  Of a  *)
(* size that rounding up wraps around no byte is handed out.               *)
THEOREM HeapWellFormed == Spec => []WellFormed
<1>1. Inv /\ FirstFit => WellFormed
  BY InvSeparates DEF Inv, WellFormed
<1> QED BY <1>1, Invariance, PTL

(* The list is made of addresses of the heap, and sizes never leave it     *)
(* (memory.c:27-63).                                                       *)
THEOREM HeapTyped == Spec => []TypeOK
BY Invariance, PTL DEF Inv

(* The headers a running call has still to look at: those from blk on in   *)
(* malloc, those after blk in free.                                        *)
Ahead == {b \in Heads : /\ pc = "malloc" => blk # Null /\ blk <= b
                        /\ pc = "free" => blk < b}

(* The list goes up the addresses.                                         *)
Onward == \A b \in Heads : Follower(b) # Null => Follower(b) \in Heads /\ b < Follower(b)

LEMMA InvOnward == Inv => Onward
<1> SUFFICES ASSUME Inv, NEW b \in Heads, Follower(b) # Null
             PROVE  Follower(b) \in Heads /\ b < Follower(b)
  BY DEF Onward
<1>1. Follower(b) \in Heads /\ BlockEnd(b) = Follower(b)
  BY DEF Inv, Tiled, Follower
<1>2. b \in Nat /\ hdr[b].size \in Nat /\ Header \in Nat \ {0}
  BY BlockTyped, HeapAssumption DEF Inv
<1> QED BY <1>1, <1>2 DEF BlockEnd

(* A turn of a loop leaves a header behind it.                             *)
TurnOrReturn ==
  \/ pc' = "idle"
  \/ pc' = pc /\ Ahead' \subseteq Ahead /\ Ahead' # Ahead

LEMMA StepLeavesBehind ==
  ASSUME Inv, [Next]_vars, ~ UNCHANGED vars, pc # "idle"
  PROVE  TurnOrReturn
<1>t. TypeOK /\ Onward /\ pc \in {"malloc", "free"}
  BY InvOnward DEF Inv, TypeOK
<1>1. CASE MallocTake \/ MallocFull \/ FreeDone
  BY <1>1 DEF MallocTake, MallocFull, FreeDone, Return, TurnOrReturn
<1>2. CASE MallocNext
  <2>1. /\ pc = "malloc" /\ pc' = "malloc" /\ Heads' = Heads /\ blk \in Heads /\ blk' = Follower(blk)
        /\ blk # Null
    BY <1>t, <1>2 DEF MallocNext, Heads, TypeOK
  <2>2. blk' = Null \/ blk < blk'
    BY <1>t, <2>1 DEF Onward
  <2>3. blk \in Nat /\ blk' \in Nat /\ \A b \in Heads : b \in Nat
    BY <1>t, <2>1, BlockTyped DEF Follower
  <2>4. blk \in Ahead /\ blk \notin Ahead'
    BY <2>1, <2>2, <2>3 DEF Ahead
  <2>5. Ahead' \subseteq Ahead
    <3>1. Ahead = {b \in Heads : blk <= b} /\ Ahead' = {b \in Heads : blk' # Null /\ blk' <= b}
      BY <2>1 DEF Ahead
    <3>2. \A b \in Heads : blk' # Null /\ blk' <= b => blk <= b
      BY <2>2, <2>3
    <3> QED BY <3>1, <3>2
  <2> QED BY <2>1, <2>4, <2>5 DEF TurnOrReturn
<1>3. CASE FreeMerge
  <2>1. /\ pc = "free" /\ pc' = "free" /\ blk' = blk /\ Heads' = Heads \ {Follower(blk)} /\ blk \in Heads
        /\ Follower(blk) # Null
    BY <1>3 DEF FreeMerge, Mergeable, Heads, Inv, Running
  <2>2. Follower(blk) \in Heads /\ blk < Follower(blk)
    BY <1>t, <2>1 DEF Onward
  <2>3. Follower(blk) \in Ahead /\ Follower(blk) \notin Ahead'
    BY <2>1, <2>2 DEF Ahead
  <2>4. Ahead' \subseteq Ahead
    BY <2>1 DEF Ahead
  <2> QED BY <2>1, <2>3, <2>4 DEF TurnOrReturn
<1>4. ~ (\E n \in Sizes : MallocCall(n)) /\ ~ (\E b \in Addresses : FreeCall(b))
  BY DEF MallocCall, FreeCall
<1> QED BY <1>1, <1>2, <1>3, <1>4 DEF Next

(* Every call of malloc and free ends: the list it walks goes strictly up  *)
(* the addresses, so no step stays where it is, and each turn of the loop  *)
(* leaves one of finitely many headers behind, malloc by going on to the   *)
(* next block and free by merging it, whatever calls came before           *)
(* (memory.c:33-48, 59-62).                                                *)
THEOREM CallsEnd ==
  Spec => /\ [](Onward /\ IsFiniteSet(Ahead))
          /\ [][pc # "idle" => TurnOrReturn]_vars
<1>1. Inv => IsFiniteSet(Ahead)
  <2>1. IsFiniteSet(Addresses)
    BY HeapAssumption, FS_Interval DEF Addresses
  <2> QED BY <2>1, FS_Subset DEF Inv, TypeOK, Ahead
<1>2. Inv /\ [Next]_vars => [pc # "idle" => TurnOrReturn]_vars
  BY StepLeavesBehind
<1> QED BY <1>1, <1>2, InvOnward, Invariance, PTL DEF Spec

-----------------------------------------------------------------------------
(* What callers see, with blocks named by the address malloc returned.     *)
Seen(f) == [p \in {b + Header : b \in DOMAIN f} |-> Usable(f[p - Header])]

LEMMA SeenOf == ASSUME NEW f, DOMAIN f \subseteq Addresses, NEW b \in DOMAIN f
                PROVE  b + Header \in DOMAIN Seen(f) /\ Seen(f)[b + Header] = Usable(f[b])
<1>1. (b + Header) - Header = b
  BY HeapAssumption DEF Addresses
<1>2. b + Header \in {c + Header : c \in DOMAIN f}
  OBVIOUS
<1>3. Seen(f)[b + Header] = Usable(f[(b + Header) - Header])
  BY <1>2 DEF Seen
<1> QED BY <1>1, <1>2, <1>3 DEF Seen

(* A block malloc takes is a new one, within the heap, apart from those    *)
(* handed out before.                                                      *)
LEMMA TakeGrants ==
  ASSUME Inv, Inv', MallocTake
  PROVE  \E n \in {Usable(m) : m \in Sizes} : Exclusive!Grant(n)
<1> DEFINE p == blk + Header
           use == Usable(asked)
<1>1. /\ asked \in Sizes /\ asked # 0 /\ asked \in Nat
      /\ live' = [b \in DOMAIN live \cup {blk} |-> IF b = blk THEN asked ELSE live[b]]
      /\ ret' = p /\ blk \in Heads /\ hdr[blk].free
  BY HeapAssumption DEF Inv, TypeOK, Running, MallocTake, Fits, Return
<1>2. /\ DOMAIN live \subseteq Addresses /\ DOMAIN live' \subseteq Addresses /\ DOMAIN live' \subseteq Heads'
      /\ blk \in Addresses /\ blk \notin DOMAIN live /\ live' \in [DOMAIN live' -> Sizes]
  BY <1>1 DEF Inv, TypeOK, HeldBlocks
<1>3. NoOverlap' /\ TypeOK' /\ HeldBlocks' /\ Tiled'
  <2>1. Inv' => NoOverlap'
    BY InvSeparates, PTL
  <2> QED BY <2>1 DEF Inv
<1>x. PICK x : x = blk
  OBVIOUS
<1>0. use \in Nat /\ use \in {Usable(m) : m \in Sizes}
  BY <1>1, UsableFits, HeapAssumption
<1>4. Exclusive!Region(p, use) = Bytes(x)' /\ x \in DOMAIN live' /\ live'[x] = asked
  <2>1. live'[x] = asked /\ x \in DOMAIN live'
    BY <1>1, <1>x
  <2> QED BY <1>1, <1>x, <2>1 DEF Exclusive!Region, Bytes
<1>5. Exclusive!Region(p, use) \subseteq Base .. Limit - 1
  BY <1>3, <1>4 DEF NoOverlap
<1>6. p \in Base .. (Limit - 1) + 1
  <2>1. p \in Addresses /\ p # Null
    BY <1>1, <1>2, HeapAssumption DEF Inv, TypeOK, Addresses, Null
  <2> QED BY <2>1, HeapAssumption DEF Addresses
<1>7. p \notin DOMAIN Seen(live)
  BY <1>2, HeapAssumption DEF Seen, Addresses
<1>8. ASSUME NEW q \in DOMAIN Seen(live)
      PROVE  Exclusive!Region(p, use) \cap Exclusive!Region(q, Seen(live)[q]) = {}
  <2>1. PICK c \in DOMAIN live : q = c + Header
    BY DEF Seen
  <2>2. c # blk /\ c \in DOMAIN live' /\ live'[c] = live[c] /\ Seen(live)[q] = Usable(live'[c])
    BY <1>1, <1>2, <2>1, SeenOf
  <2>3. c \in Heads' /\ Usable(live'[c]) \in Nat /\ Usable(live'[c]) <= hdr'[c].size
    <3>1. live'[c] \in 0 .. Word - 1
      BY <1>2, <2>2, HeapAssumption
    <3> QED BY <1>2, <1>3, <2>2, <3>1, UsableFits DEF HeldBlocks
  <2>4. BlockEnd(c)' = c + Header + hdr'[c].size /\ c \in Nat /\ hdr'[c].size \in Nat
    <3>1. TypeOK /\ c \in Heads => c \in Nat /\ hdr[c].size \in Nat
      BY BlockTyped
    <3>2. (TypeOK /\ c \in Heads)' => c \in Nat /\ hdr'[c].size \in Nat
      BY <1>2, <1>3, <2>2, <2>3, HeapAssumption DEF TypeOK, BlockType, Addresses
    <3> QED BY <1>3, <2>3, <3>2 DEF BlockEnd
  <2>5. Exclusive!Region(q, Usable(live'[c])) \subseteq c .. BlockEnd(c)' - 1
    <3>1. PICK n \in Nat : n = Usable(live'[c])
      BY <2>3
    <3>2. PICK z \in Nat : z = hdr'[c].size
      BY <2>4
    <3>3. n \in Nat /\ n <= z /\ Header \in Nat /\ c \in Nat
      BY <2>3, <2>4, <3>1, <3>2, HeapAssumption
    <3>4. \A i \in c + Header .. c + Header + n - 1 : i \in c .. c + Header + z - 1
      BY <3>3, <3>2
    <3>5. BlockEnd(c)' = c + Header + z
      BY <2>4, <3>2
    <3> QED BY <2>1, <3>1, <3>4, <3>5 DEF Exclusive!Region
  <2>6. Bytes(x)' \cap (c .. BlockEnd(c)' - 1) = {}
    <3> QED BY <1>x, <1>3, <1>4, <2>2, <2>3 DEF NoOverlap
  <2> QED BY <1>4, <2>2, <2>5, <2>6
<1>9. Seen(live') = [q \in DOMAIN Seen(live) \cup {p} |-> IF q = p THEN use ELSE Seen(live)[q]]
  <2>1. DOMAIN Seen(live') = DOMAIN Seen(live) \cup {p}
    BY <1>1 DEF Seen
  <2>2. ASSUME NEW q \in DOMAIN Seen(live')
        PROVE  Seen(live')[q] = IF q = p THEN use ELSE Seen(live)[q]
    <3>1. PICK c \in DOMAIN live' : q = c + Header
      BY DEF Seen
    <3>2. Seen(live')[q] = Usable(live'[c])
      BY <1>2, <3>1, SeenOf
    <3>3. CASE c = blk
      BY <1>1, <3>1, <3>2, <3>3
    <3>4. CASE c # blk
      <4>1. c \in DOMAIN live /\ live'[c] = live[c]
        BY <1>1, <3>4
      <4>2. Seen(live)[q] = Usable(live[c])
        BY <1>2, <3>1, <4>1, SeenOf
      <4>3. q # p
        BY <1>2, <3>1, <3>4, HeapAssumption DEF Addresses
      <4> QED BY <3>2, <4>1, <4>2, <4>3
    <3> QED BY <3>3, <3>4
  <2>3. Seen(live') = [q \in DOMAIN Seen(live') |-> Seen(live')[q]]
    BY DEF Seen
  <2> QED BY <2>1, <2>2, <2>3
<1> QED BY <1>0, <1>1, <1>5, <1>6, <1>7, <1>8, <1>9 DEF Exclusive!Grant, Seen

LEMMA StepImplements ==
  Inv /\ Inv' /\ [Next]_vars => [Exclusive!Next]_(Exclusive!vars)
<1> SUFFICES ASSUME Inv, Inv', [Next]_vars PROVE [Exclusive!Next]_(Exclusive!vars)
  OBVIOUS
<1>u. UNCHANGED <<live, ret>> => UNCHANGED Exclusive!vars
  BY DEF Exclusive!vars
<1>r. UNCHANGED live /\ ret' = Null => Exclusive!Next
  BY DEF Exclusive!Next, Exclusive!Refuse, Null
<1>1. CASE UNCHANGED vars
  BY <1>1, <1>u DEF vars
<1>2. ASSUME NEW n \in Sizes, MallocCall(n) PROVE Exclusive!Next
  BY <1>2, <1>r DEF MallocCall, Return
<1>3. CASE MallocTake
  BY <1>3, TakeGrants DEF Exclusive!Next
<1>4. CASE MallocNext
  BY <1>4, <1>u DEF MallocNext
<1>5. CASE MallocFull
  BY <1>5, <1>r DEF MallocFull, Return
<1>6. ASSUME NEW b \in Addresses, FreeCall(b) PROVE Exclusive!Next
  <2>1. /\ b \in DOMAIN live /\ live' = [c \in DOMAIN live \ {b} |-> live[c]] /\ ret' = Null
        /\ DOMAIN live \subseteq Addresses /\ DOMAIN live' \subseteq Addresses
    BY <1>6 DEF FreeCall, Inv, TypeOK
  <2>2. b + Header \in DOMAIN Seen(live)
    BY <2>1, SeenOf
  <2>3. DOMAIN Seen(live') = DOMAIN Seen(live) \ {b + Header}
    <3>1. \A c \in DOMAIN live : c # b <=> c + Header # b + Header
      BY <2>1, HeapAssumption DEF Addresses
    <3> QED BY <2>1, <3>1 DEF Seen
  <2>4. \A q \in DOMAIN Seen(live') : Seen(live')[q] = Seen(live)[q]
    <3> SUFFICES ASSUME NEW q \in DOMAIN Seen(live') PROVE Seen(live')[q] = Seen(live)[q]
      OBVIOUS
    <3>1. PICK c \in DOMAIN live' : q = c + Header
      BY DEF Seen
    <3>2. Seen(live')[q] = Usable(live'[c]) /\ Seen(live)[q] = Usable(live[c]) /\ live'[c] = live[c]
      BY <2>1, <3>1, SeenOf
    <3> QED BY <3>2
  <2>5. Seen(live') = [q \in DOMAIN Seen(live) \ {b + Header} |-> Seen(live)[q]]
    <3>1. Seen(live') = [q \in DOMAIN Seen(live') |-> Seen(live')[q]]
      BY DEF Seen
    <3> QED BY <2>3, <2>4, <3>1
  <2> QED BY <2>1, <2>2, <2>5 DEF Exclusive!Next, Exclusive!GiveBack, Exclusive!Restricted, Seen, Null
<1>7. CASE FreeMerge
  BY <1>7, <1>u DEF FreeMerge
<1>8. CASE FreeDone
  BY <1>8, <1>r DEF FreeDone, Return
<1> QED BY <1>1, <1>2, <1>3, <1>4, <1>5, <1>6, <1>7, <1>8 DEF Next

(* malloc and free are an allocator of blocks that are the caller's alone, *)
(* for every heap and all sizes; a size that rounding up takes out of the  *)
(* word gets a block of which not one byte is the caller's                 *)
(* (memory.c:23-63).                                                       *)
THEOREM HeapIsAllocator == Spec => ImplementsAllocator
<1>1. Init => Exclusive!Init
  BY DEF Init, Exclusive!Init, Null
<1>2. Inv /\ Inv' /\ [Next]_vars => [Exclusive!Next]_(Exclusive!vars)
  BY StepImplements
<1> QED BY <1>1, <1>2, Invariance, PTL DEF Spec, ImplementsAllocator, Exclusive!Spec

-----------------------------------------------------------------------------
(* The tasks.  A task that yield may choose:                                *)
Live == {t \in Slots : state[t] \in {"ready", "running"}}
HeldStacks == \A p \in DOMAIN held : held[p] = StackSize

TaskInv == TaskTypeOK /\ Counted /\ StacksApart /\ HeldStacks

LEMMA TaskConstants == /\ MaxTasks \in Nat \ {0} /\ StackSize \in Nat \ {0} /\ Memory \in Nat
                    /\ None \notin Slots /\ Slots \subseteq Nat /\ 0 \in Slots
BY TasksAssumption DEF Slots, None

(* A set of natural numbers has a least one: the loops that look for the   *)
(* first slot find it.                                                     *)
LEMMA Least ==
  ASSUME NEW S \in SUBSET Nat, S # {}
  PROVE  \E m \in S : \A k \in S : m <= k
<1>1. IsWellFoundedOn(OpToRel(<, Nat), Nat)
  BY NatLessThanWellFounded
<1>2. PICK m \in S : \A k \in S : ~ (<<k, m>> \in OpToRel(<, Nat))
  BY <1>1, WFMin
<1>3. \A k \in S : ~ (k < m)
  BY <1>2 DEF OpToRel
<1> QED BY <1>3

LEMMA FirstIsFree == FreeSlots # {} => FirstFree \in FreeSlots
<1> SUFFICES ASSUME FreeSlots # {} PROVE FirstFree \in FreeSlots
  OBVIOUS
<1>1. FreeSlots \in SUBSET Nat
  BY TaskConstants DEF FreeSlots
<1>2. \E t \in FreeSlots : \A u \in FreeSlots : t <= u
  BY <1>1, Least
<1> QED BY <1>2 DEF FirstFree

LEMMA DistanceRange ==
  ASSUME current_task \in Slots \cup {None}, NEW t \in Slots
  PROVE  Distance(t) \in Nat
<1> DEFINE start == IF current_task = None THEN 0 ELSE current_task
<1>1. start \in Nat /\ t \in Nat /\ MaxTasks \in Nat \ {0}
  BY TaskConstants
<1>2. t - start \in Int
  BY <1>1
<1>3. (t - start) % MaxTasks \in Nat
  BY <1>1, <1>2
<1> QED BY <1>1, <1>3 DEF Distance

(* yield goes on with a task that can run, or with none.                   *)
LEMMA NextIsLive == current_task \in Slots \cup {None} /\ find_next_task # None => find_next_task \in Live
<1> SUFFICES ASSUME current_task \in Slots \cup {None}, find_next_task # None
             PROVE  find_next_task \in Live
  OBVIOUS
<1>1. Live # {} /\ ~ (task_count = 0 \/ \A t \in Slots : ~ Runnable(t))
  BY DEF find_next_task, Live, Runnable
<1> DEFINE S == {Distance(t) : t \in Live}
<1>2. S \in SUBSET Nat /\ S # {}
  BY <1>1, DistanceRange DEF Live
<1>3. PICK m \in S : \A k \in S : m <= k
  BY <1>2, Least
<1>4. PICK t \in Live : Distance(t) = m
  BY <1>3
<1>5. t \in Slots /\ Runnable(t) /\ \A u \in Slots : Runnable(u) => Distance(t) <= Distance(u)
  BY <1>3, <1>4 DEF Live, Runnable
<1> HIDE DEF S
<1>6. \E v \in Slots : Runnable(v) /\ \A u \in Slots : Runnable(u) => Distance(v) <= Distance(u)
  BY <1>5
<1>7. find_next_task \in Slots /\ Runnable(find_next_task)
  BY <1>1, <1>6 DEF find_next_task
<1> QED BY <1>7 DEF Live, Runnable

LEMMA LiveFinite == /\ IsFiniteSet(Live) /\ Cardinality(Live) \in 0 .. MaxTasks
                    /\ \A t \in Slots \ Live : Cardinality(Live) < MaxTasks
<1>1. IsFiniteSet(Slots) /\ Cardinality(Slots) = MaxTasks
  BY TaskConstants, FS_Interval DEF Slots
<1>2. Live \in SUBSET Slots
  BY DEF Live
<1>3. IsFiniteSet(Live) /\ Cardinality(Live) <= MaxTasks /\ (MaxTasks = Cardinality(Live) => Slots = Live)
  BY <1>1, <1>2, FS_Subset
<1>4. Cardinality(Live) \in Nat
  BY <1>3, FS_CardinalityType
<1> QED BY <1>3, <1>4, TaskConstants

-----------------------------------------------------------------------------
LEMMA TaskInitInv == TaskInit => TaskInv
<1> SUFFICES ASSUME TaskInit PROVE TaskInv
  OBVIOUS
<1>1. Live = {} /\ OnStack = {}
  BY TaskConstants DEF TaskInit, Live, OnStack
<1>2. TaskTypeOK
  BY TaskConstants DEF TaskInit, TaskTypeOK, Heap!Init, States
<1>3. Counted
  BY <1>1, FS_EmptySet DEF TaskInit, Counted, Live
<1>4. StacksApart
  BY <1>1 DEF TaskInit, StacksApart, Live
<1>5. HeldStacks
  BY DEF TaskInit, HeldStacks, Heap!Init
<1> QED BY <1>2, <1>3, <1>4, <1>5 DEF TaskInv

(* The code that calls task_create runs on a live task's stack, or on the  *)
(* boot stack.                                                             *)
LEMMA ActingOnLive == TaskInv /\ Acting => OnStack = Live
<1> SUFFICES ASSUME TaskInv, Acting, NEW t \in Slots, t = current_task PROVE state[t] \in {"ready", "running"}
  BY DEF OnStack, Live
<1> QED BY TaskConstants DEF Acting

LEMMA CreateInv == TaskInv /\ Create => TaskInv'
<1> SUFFICES ASSUME TaskInv, Create PROVE TaskInv'
  OBVIOUS
<1>t. TaskTypeOK /\ Counted /\ StacksApart /\ HeldStacks
  BY DEF TaskInv
<1>s. PICK s \in FreeSlots : s = FirstFree
  BY FirstIsFree DEF Create
<1>p. PICK p \in 1 .. Memory :
        /\ p .. p + StackSize - 1 \subseteq 1 .. Memory /\ p \notin DOMAIN held
        /\ \A q \in DOMAIN held : (p .. p + StackSize - 1) \cap (q .. q + held[q] - 1) = {}
        /\ held' = [q \in DOMAIN held \cup {p} |-> IF q = p THEN StackSize ELSE held[q]]
        /\ answer' = p
  <2>1. PICK p \in 1 .. Memory + 1 :
          /\ p .. p + StackSize - 1 \subseteq 1 .. Memory /\ p \notin DOMAIN held
          /\ \A q \in DOMAIN held : (p .. p + StackSize - 1) \cap (q .. q + held[q] - 1) = {}
          /\ held' = [q \in DOMAIN held \cup {p} |-> IF q = p THEN StackSize ELSE held[q]]
          /\ answer' = p
    BY DEF Create, Heap!Grant, Heap!Region
  <2>2. p \in p .. p + StackSize - 1
    BY TaskConstants
  <2> QED BY <2>1, <2>2
<1>1. /\ state' = [state EXCEPT ![s] = "ready"] /\ base' = [base EXCEPT ![s] = p]
      /\ frame' = [frame EXCEPT ![s] = "entry"] /\ task_count' = task_count + 1
      /\ current_task' = current_task /\ Acting
  BY <1>s, <1>p DEF Create, Created
<1>2. s \in Slots /\ state[s] = "unused" /\ s \notin Live
  BY <1>s DEF FreeSlots, Free, Live
<1>3. Live' = Live \cup {s}
  BY <1>t, <1>1, <1>2 DEF TaskTypeOK, Live
<1>4. /\ task_count = Cardinality(Live) /\ Cardinality(Live') = Cardinality(Live) + 1
      /\ Cardinality(Live) \in Nat /\ Cardinality(Live) < MaxTasks
  <2>1. task_count = Cardinality(Live)
    BY <1>t DEF Counted, Live
  <2>2. Cardinality(Live') = Cardinality(Live) + 1
    <3>1. PICK L : L = Live
      OBVIOUS
    <3>2. IsFiniteSet(L) /\ s \notin L /\ Live' = L \cup {s}
      BY <1>2, <1>3, <3>1, LiveFinite
    <3>3. Cardinality(L \cup {s}) = Cardinality(L) + 1
      BY <3>2, FS_AddElement
    <3> QED BY <3>1, <3>2, <3>3
  <2>3. Cardinality(Live) \in 0 .. MaxTasks /\ Cardinality(Live) < MaxTasks
    BY <1>2, LiveFinite
  <2> QED BY <2>1, <2>2, <2>3
<1>5. TaskTypeOK'
  <2>1. task_count' \in 0 .. MaxTasks
    BY <1>1, <1>4, TaskConstants
  <2> QED BY <1>t, <1>1, <1>2, <1>p, <2>1 DEF TaskTypeOK, States
<1>6. Counted'
  <2>1. task_count' = Cardinality(Live')
    BY <1>1, <1>4
  <2>2. current_task # s
    BY <1>t, <1>2, TaskConstants DEF Counted
  <2> QED BY <1>t, <1>1, <1>2, <2>1, <2>2 DEF Counted, Live, TaskTypeOK
<1>7. OnStack' = Live \cup {s}
  <2>1. OnStack = Live
    BY <1>1, ActingOnLive
  <2> QED BY <1>t, <1>1, <1>2, <2>1 DEF TaskTypeOK, OnStack, Live
<1>8. StacksApart'
  <2>1. \A t \in Live : t # s /\ base'[t] = base[t] /\ frame'[t] = frame[t] /\ base[t] \in DOMAIN held /\ frame[t] # "none"
    BY <1>t, <1>1, <1>2 DEF TaskTypeOK, StacksApart, Live
  <2>2. base'[s] = p /\ frame'[s] = "entry"
    BY <1>t, <1>1, <1>2 DEF TaskTypeOK
  <2>3. \A t \in Live : Stack(t)' = Stack(t) /\ Stack(t)' \cap Stack(s)' = {}
    <3>1. \A t \in Live : Stack(t)' = base[t] .. base[t] + StackSize - 1
      BY <2>1 DEF Stack
    <3>2. Stack(s)' = p .. p + StackSize - 1
      BY <2>2 DEF Stack
    <3>3. \A q \in DOMAIN held : held[q] = StackSize
      BY <1>t DEF HeldStacks
    <3> QED BY <1>p, <2>1, <3>1, <3>2, <3>3 DEF Stack
  <2>4. \A t \in Live' : base'[t] \in DOMAIN held' /\ frame'[t] # "none"
    BY <1>3, <1>p, <2>1, <2>2
  <2>5. \A t, u \in Live : t # u => Stack(t) \cap Stack(u) = {}
    BY <1>t DEF StacksApart, OnStack, Live
  <2>6. \A t, u \in OnStack' : t # u => Stack(t)' \cap Stack(u)' = {}
    BY <1>7, <2>3, <2>5
  <2>7. ASSUME NEW t \in Slots, state'[t] \in {"ready", "running"} PROVE t \in Live'
    BY <2>7 DEF Live
  <2> QED BY <2>4, <2>6, <2>7 DEF StacksApart
<1>9. HeldStacks'
  BY <1>t, <1>p DEF HeldStacks
<1> QED BY <1>5, <1>6, <1>8, <1>9 DEF TaskInv

LEMMA RefusedInv == TaskInv /\ CreateNoMemory => TaskInv'
BY DEF TaskInv, CreateNoMemory, Heap!Refuse, TaskTypeOK, Counted, StacksApart, OnStack, Stack, HeldStacks

LEMMA YieldInv == TaskInv /\ yield => TaskInv'
<1> SUFFICES ASSUME TaskInv, yield PROVE TaskInv'
  OBVIOUS
<1>t. TaskTypeOK /\ Counted /\ StacksApart /\ HeldStacks
  BY DEF TaskInv
<1>1. CASE UNCHANGED taskVars
  BY <1>1 DEF taskVars, TaskInv, TaskTypeOK, Counted, StacksApart, OnStack, Stack, HeldStacks
<1>2. CASE ~ UNCHANGED taskVars
  <2>1. PICK next \in Live : next = find_next_task
    BY <1>t, <1>2, NextIsLive DEF TaskTypeOK, yield
  <2>2. /\ state' = [t \in Slots |-> IF t = next THEN "running"
                                     ELSE IF t = current_task /\ state[t] = "running" THEN "ready"
                                     ELSE state[t]]
        /\ current_task' = next
        /\ frame' = [t \in Slots |-> IF t = current_task THEN "yield" ELSE frame[t]]
        /\ UNCHANGED <<base, task_count, held, answer>>
        /\ next # current_task
    BY <1>2, <2>1 DEF yield
  <2>3. next \in Slots /\ state[next] \in {"ready", "running"}
    BY <2>1 DEF Live
  <2>4. Live' = Live /\ OnStack' = Live
    BY <1>t, <2>2, <2>3 DEF TaskTypeOK, Live, OnStack
  <2>5. TaskTypeOK'
    BY <1>t, <2>2, <2>3 DEF TaskTypeOK, States
  <2>6. Counted'
    <3>1. task_count' = Cardinality(Live')
      BY <1>t, <2>2, <2>4 DEF Counted, Live
    <3>2. state'[next] = "running" /\ \A t \in Slots : state'[t] = "running" => t = next
      BY <1>t, <2>2, <2>3 DEF TaskTypeOK, Counted
    <3> QED BY <2>2, <3>1, <3>2 DEF Counted, Live
  <2>7. StacksApart'
    <3>1. \A t \in Live : base[t] \in DOMAIN held /\ frame'[t] # "none"
      BY <1>t, <2>2 DEF TaskTypeOK, StacksApart, Live
    <3>2. \A t, u \in Live : t # u => Stack(t) \cap Stack(u) = {}
      BY <1>t DEF StacksApart, OnStack, Live
    <3>3. \A t, u \in OnStack' : t # u => Stack(t)' \cap Stack(u)' = {}
      BY <2>2, <2>4, <3>2 DEF Stack
    <3>4. ASSUME NEW t \in Slots, state'[t] \in {"ready", "running"} PROVE t \in Live
      BY <2>4, <3>4 DEF Live
    <3> QED BY <2>2, <3>1, <3>3, <3>4 DEF StacksApart
  <2>8. HeldStacks'
    BY <1>t, <2>2 DEF HeldStacks
  <2> QED BY <2>5, <2>6, <2>7, <2>8 DEF TaskInv
<1> QED BY <1>1, <1>2

LEMMA ExitInv == TaskInv /\ task_exit => TaskInv'
<1> SUFFICES ASSUME TaskInv, task_exit PROVE TaskInv'
  OBVIOUS
<1>t. TaskTypeOK /\ Counted /\ StacksApart /\ HeldStacks
  BY DEF TaskInv
<1>c. PICK c \in Slots : c = current_task /\ state[c] = "running"
  BY <1>t DEF task_exit, Acting, TaskTypeOK
<1>1. /\ state' = [state EXCEPT ![c] = "dead"] /\ task_count' = task_count - 1
      /\ held' = [q \in DOMAIN held \ {base[c]} |-> held[q]]
      /\ UNCHANGED <<base, frame, current_task>>
  BY <1>c DEF task_exit, Heap!GiveBack, Heap!Restricted
<1>2. c \in Live /\ Live' = Live \ {c} /\ OnStack' = OnStack /\ OnStack = Live
  BY <1>t, <1>c, <1>1 DEF TaskTypeOK, Live, OnStack
<1>3. /\ task_count = Cardinality(Live) /\ Cardinality(Live') = Cardinality(Live) - 1 /\ Cardinality(Live) \in 0 .. MaxTasks
      /\ Cardinality(Live') \in Nat
  <2>1. IsFiniteSet(Live) /\ IsFiniteSet(Live')
    BY <1>2, LiveFinite, FS_RemoveElement
  <2> QED BY <1>t, <1>2, <2>1, LiveFinite, FS_RemoveElement, FS_CardinalityType DEF Counted, Live
<1>4. TaskTypeOK'
  <2>1. task_count' \in 0 .. MaxTasks
    BY <1>1, <1>3, TaskConstants
  <2> QED BY <1>t, <1>1, <2>1 DEF TaskTypeOK, States
<1>5. Counted'
  <2>1. task_count' = Cardinality(Live')
    BY <1>1, <1>3
  <2> QED BY <1>t, <1>c, <1>1, <2>1 DEF Counted, Live, TaskTypeOK
<1>6. StacksApart'
  <2>1. \A t, u \in Live : t # u => Stack(t) \cap Stack(u) = {}
    BY <1>t, <1>2 DEF StacksApart
  <2>2. \A t \in Live : base[t] \in Nat /\ base[t] \in Stack(t)
    BY <1>t, TaskConstants DEF TaskTypeOK, Live, Stack
  <2>3. \A t \in Live' : base[t] # base[c]
    BY <1>2, <2>1, <2>2
  <2>4. \A t \in Live' : base'[t] \in DOMAIN held' /\ frame'[t] # "none"
    BY <1>t, <1>1, <1>2, <2>3 DEF StacksApart, Live
  <2>5. \A t, u \in OnStack' : t # u => Stack(t)' \cap Stack(u)' = {}
    BY <1>1, <1>2, <2>1 DEF Stack
  <2>6. ASSUME NEW t \in Slots, state'[t] \in {"ready", "running"} PROVE t \in Live'
    BY <2>6 DEF Live
  <2> QED BY <2>4, <2>5, <2>6 DEF StacksApart
<1>7. HeldStacks'
  BY <1>t, <1>1 DEF HeldStacks
<1> QED BY <1>4, <1>5, <1>6, <1>7 DEF TaskInv

LEMMA TaskInvariance == TaskSpec => []TaskInv
<1>1. TaskInv /\ UNCHANGED taskVars => TaskInv'
  BY DEF taskVars, TaskInv, TaskTypeOK, Counted, StacksApart, OnStack, Stack, HeldStacks
<1>2. TaskInv /\ [TaskNext]_taskVars => TaskInv'
  BY <1>1, CreateInv, RefusedInv, YieldInv, ExitInv DEF TaskNext
<1> QED BY TaskInitInv, <1>2, PTL DEF TaskSpec

(* Slots, saved frames and the count stay in their ranges, for any number  *)
(* of slots.                                                               *)
THEOREM TasksTyped == TaskSpec => []TaskTypeOK
BY TaskInvariance, PTL DEF TaskInv

(* The count agrees with the slots and no stack of a task that can still   *)
(* run is freed or shared, however many tasks are created and end.         *)
THEOREM TasksStaySound == TaskSpec => []TasksSound
<1>1. TaskInv => TasksSound
  BY DEF TaskInv, TasksSound
<1> QED BY <1>1, TaskInvariance, PTL

-----------------------------------------------------------------------------
(* The ring.  A remainder of a number from -MaxTasks to MaxTasks:           *)
LEMMA TurnsOnward == ASSUME NEW m \in Nat \ {0}, NEW d \in 0 .. m - 1 PROVE d % m = d
OBVIOUS

LEMMA TurnsAround == ASSUME NEW m \in Nat \ {0}, NEW d \in 1 .. m - 1 PROVE (0 - d) % m = m - d
OBVIOUS

(* Where find_next_task starts its search.                                 *)
Start == IF current_task = None THEN 0 ELSE current_task

(* The loop of find_next_task counts up to a later slot, and around the    *)
(* end of the ring to an earlier one.                                      *)
LEMMA DistanceValue ==
  ASSUME current_task \in Slots \cup {None}, NEW t \in Slots
  PROVE  /\ t > Start => Distance(t) = t - Start
         /\ t <= Start => Distance(t) = MaxTasks - (Start - t)
<1> DEFINE s == Start
<1>1. s \in 0 .. MaxTasks - 1 /\ t \in 0 .. MaxTasks - 1 /\ MaxTasks \in Nat \ {0}
  BY TaskConstants DEF Start, Slots
<1>2. Distance(t) = IF t = s THEN MaxTasks ELSE (t - s) % MaxTasks
  BY DEF Distance, Start
<1> HIDE DEF s
<1>3. CASE t > s
  <2>1. t - s \in 0 .. MaxTasks - 1
    BY <1>1, <1>3
  <2>2. (t - s) % MaxTasks = t - s
    BY <1>1, <2>1, TurnsOnward
  <2> QED BY <1>1, <1>2, <1>3, <2>2 DEF s
<1>4. CASE t = s
  BY <1>1, <1>2, <1>4 DEF s
<1>5. CASE t < s
  <2>1. s - t \in 1 .. MaxTasks - 1 /\ t - s = 0 - (s - t)
    BY <1>1, <1>5
  <2>2. (0 - (s - t)) % MaxTasks = MaxTasks - (s - t)
    BY <1>1, <2>1, TurnsAround
  <2> QED BY <1>1, <1>2, <1>5, <2>1, <2>2 DEF s
<1> QED BY <1>1, <1>3, <1>4, <1>5

(* No slot is further away than a whole turn of the ring.                  *)
LEMMA DistanceBound ==
  ASSUME current_task \in Slots \cup {None}, NEW t \in Slots
  PROVE  Distance(t) \in 1 .. MaxTasks
<1>1. Start \in 0 .. MaxTasks - 1 /\ t \in 0 .. MaxTasks - 1 /\ MaxTasks \in Nat \ {0}
  BY TaskConstants DEF Start, Slots
<1>2. /\ t > Start => Distance(t) = t - Start
      /\ t <= Start => Distance(t) = MaxTasks - (Start - t)
  BY DistanceValue
<1> QED BY <1>1, <1>2

(* While a task is ready, find_next_task finds another task than the       *)
(* current one, and none that lies behind the ready task.                  *)
LEMMA NextIsNearest ==
  ASSUME TaskInv, NEW t \in Slots, state[t] = "ready"
  PROVE  /\ find_next_task \in Slots \ {current_task}
         /\ find_next_task # None
         /\ Distance(find_next_task) <= Distance(t)
<1>1. current_task \in Slots \cup {None} /\ task_count = Cardinality(Live)
  BY DEF TaskInv, TaskTypeOK, Counted, Live
<1>2. t \in Live /\ Runnable(t) /\ t # current_task
  BY TaskConstants DEF TaskInv, Counted, Live, Runnable
<1>3. task_count # 0
  BY <1>1, <1>2, LiveFinite, FS_EmptySet
<1>4. PICK v \in Slots : Runnable(v) /\ \A u \in Slots : Runnable(u) => Distance(v) <= Distance(u)
  <2> DEFINE S == {Distance(u) : u \in Live}
  <2>1. S \in SUBSET Nat /\ S # {}
    BY <1>1, <1>2, DistanceRange DEF Live
  <2>2. PICK m \in S : \A k \in S : m <= k
    BY <2>1, Least
  <2> QED BY <2>2 DEF Live, Runnable
<1>5. /\ find_next_task \in Slots /\ Runnable(find_next_task)
      /\ \A u \in Slots : Runnable(u) => Distance(find_next_task) <= Distance(u)
  BY <1>2, <1>3, <1>4 DEF find_next_task
<1>6. Distance(find_next_task) <= Distance(t)
  BY <1>2, <1>5
<1>7. ASSUME current_task \in Slots PROVE Distance(t) < Distance(current_task)
  <2>1. Distance(t) # MaxTasks
    <3>1. Start = current_task /\ t # Start
      BY <1>2, <1>7, TaskConstants DEF Start
    <3>2. Start \in 0 .. MaxTasks - 1 /\ t \in 0 .. MaxTasks - 1 /\ MaxTasks \in Nat \ {0}
      BY <1>1, TaskConstants DEF Start, Slots
    <3>3. /\ t > Start => Distance(t) = t - Start
          /\ t <= Start => Distance(t) = MaxTasks - (Start - t)
      BY <1>1, DistanceValue
    <3> QED BY <3>1, <3>2, <3>3
  <2>2. Distance(current_task) = MaxTasks
    BY <1>7, TaskConstants DEF Distance
  <2>3. Distance(t) \in 1 .. MaxTasks /\ MaxTasks \in Nat
    BY <1>1, DistanceBound, TaskConstants
  <2> QED BY <2>1, <2>2, <2>3
<1>8. find_next_task # current_task
  <2>1. Distance(t) \in Nat /\ Distance(find_next_task) \in Nat
    BY <1>1, <1>5, DistanceRange
  <2> QED BY <1>5, <1>6, <1>7, <2>1
<1> QED BY <1>5, <1>6, <1>8, TaskConstants

(* A switch to a task that is not behind t brings t nearer.                *)
LEMMA SwitchComesNearer ==
  ASSUME current_task \in Slots \cup {None}, NEW t \in Slots, NEW n \in Slots, n # t,
         current_task' = n, Distance(n) <= Distance(t)
  PROVE  Distance(t)' = Distance(t) - Distance(n)
<1>1. /\ Start \in 0 .. MaxTasks - 1 /\ t \in 0 .. MaxTasks - 1 /\ n \in 0 .. MaxTasks - 1
      /\ MaxTasks \in Nat \ {0} /\ Start' = n
  BY TaskConstants DEF Start, Slots
<1>2. /\ t > Start => Distance(t) = t - Start
      /\ t <= Start => Distance(t) = MaxTasks - (Start - t)
  BY DistanceValue
<1>3. /\ n > Start => Distance(n) = n - Start
      /\ n <= Start => Distance(n) = MaxTasks - (Start - n)
  BY DistanceValue
<1>4. (current_task \in Slots \cup {None} /\ t \in Slots =>
        /\ t > Start => Distance(t) = t - Start
        /\ t <= Start => Distance(t) = MaxTasks - (Start - t))'
  BY DistanceValue, PTL
<1>5. /\ t > n => Distance(t)' = t - n
      /\ t <= n => Distance(t)' = MaxTasks - (n - t)
  BY <1>1, <1>4
<1> QED BY <1>1, <1>2, <1>3, <1>5

(* What a step does to a task that is ready.                               *)
InTurn(t) ==
  /\ find_next_task \notin {None, current_task}
  /\ Distance(t) \in 1 .. MaxTasks
  /\ \/ state'[t] = "running"
     \/ /\ state'[t] = "ready"
        /\ yield => Distance(t)' < Distance(t)
        /\ ~ yield => Distance(t)' = Distance(t)

LEMMA StepInTurn ==
  ASSUME TaskInv, TaskNext, NEW t \in Slots, state[t] = "ready"
  PROVE  InTurn(t)
<1>1. current_task \in Slots \cup {None} /\ state \in [Slots -> States] /\ t # current_task
  BY TaskConstants DEF TaskInv, TaskTypeOK, Counted
<1>2. find_next_task \notin {None, current_task}
  BY NextIsNearest
<1>3. Distance(t) \in 1 .. MaxTasks
  BY <1>1, DistanceBound
<1>4. CASE yield
  <2>1. PICK n \in Slots : n = find_next_task /\ Distance(n) <= Distance(t)
    BY NextIsNearest
  <2>2. state'[t] = (IF t = n THEN "running" ELSE "ready") /\ current_task' = n
    BY <1>1, <1>2, <1>4, <2>1 DEF yield
  <2>3. CASE t = n
    BY <1>2, <1>3, <2>2, <2>3 DEF InTurn
  <2>4. CASE t # n
    <3>1. Distance(t)' = Distance(t) - Distance(n)
      BY <1>1, <2>1, <2>2, <2>4, SwitchComesNearer
    <3>2. Distance(n) \in 1 .. MaxTasks
      BY <1>1, DistanceBound
    <3>3. Distance(t)' < Distance(t)
      BY <1>3, <3>1, <3>2, TaskConstants
    <3> QED BY <1>2, <1>3, <1>4, <2>2, <2>4, <3>3 DEF InTurn
  <2> QED BY <2>3, <2>4
<1>5. CASE ~ yield
  <2>1. current_task' = current_task /\ state'[t] = "ready"
    <3>1. CASE Create
      <4>1. FirstFree # t /\ state' = [state EXCEPT ![FirstFree] = "ready"] /\ current_task' = current_task
        BY <3>1, FirstIsFree DEF Create, Created, FreeSlots, Free
      <4> QED BY <1>1, <4>1
    <3>2. CASE CreateNoMemory
      BY <3>2 DEF CreateNoMemory
    <3>3. CASE task_exit
      BY <1>1, <3>3 DEF task_exit
    <3> QED BY <1>5, <3>1, <3>2, <3>3 DEF TaskNext
  <2>2. Distance(t)' = Distance(t)
    BY <2>1 DEF Distance
  <2> QED BY <1>2, <1>3, <1>5, <2>1, <2>2 DEF InTurn
<1> QED BY <1>4, <1>5

(* While a task is ready, yield does switch, and either goes on with that  *)
(* task or brings the ring at least one slot nearer to it; no creation and *)
(* no exit moves it away again.  So fewer than MAX_TASKS other tasks run   *)
(* before it does, whatever the tasks create and however they end          *)
(* (find_next_task and yield, task.c:59-91).                               *)
THEOREM ReadyTasksInTurn ==
  TaskSpec => [][\A t \in Slots : state[t] = "ready" => InTurn(t)]_taskVars
<1>1. TaskInv /\ [TaskNext]_taskVars => [\A t \in Slots : state[t] = "ready" => InTurn(t)]_taskVars
  BY StepInTurn
<1> QED BY <1>1, TaskInvariance, PTL DEF TaskSpec
=============================================================================
