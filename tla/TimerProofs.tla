---------------------------- MODULE TimerProofs -----------------------------
(***************************************************************************)
(* Interrupts are answered by a routine, acknowledged in full, and a sleep *)
(* is short by less than one period of the timer: for any devices on the   *)
(* sixteen lines, and a counter of any size.                               *)
(***************************************************************************)
EXTENDS Timer, TLAPS

Started == (at = "boot") <=> (pc = "off")

(* What is in service while the handler of a line runs.                    *)
Serving ==
  /\ pc \in {"off", "run"} => isr = {}
  /\ pc = "dispatch" => isr = {irq, Level(irq)} \/ isr = {Level(irq)} \ {irq}
  /\ pc = "eoi2" => irq >= 8 /\ (isr = {irq, Cascade} \/ isr = {Cascade})
  /\ pc = "eoi1" => isr \subseteq {Level(irq)}

(* A line is unmasked only while it has a routine; the mask function in    *)
(* progress will not change that.                                          *)
NewMask ==
  IF call.set THEN (imr \cap Own(call.line)) \cup {call.line}
              ELSE (imr \cap Own(call.line)) \ {call.line}
Masks ==
  /\ pc # "off" => Lines \ imr \subseteq irq_routines
  /\ at \in {"inb", "outb"} /\ ~ call.set => call.line \in irq_routines
  /\ value = IF at = "outb" THEN NewMask ELSE {}

(* The ticks counted since sleep_ms was called, and those on their way,    *)
(* are no more than the periods that have ended.                           *)
Ended == IF begun THEN slept + 1 ELSE 0
Waiting == IF 0 \in irr /\ 0 \notin imr THEN 1 ELSE 0
InHand == IF pc = "dispatch" /\ irq = 0 THEN 1 ELSE 0
Ticks == Sleeping /\ Ended < ms /\ target >= ms => g_ticks + Waiting + InHand <= (target - ms) + Ended

(* What NeverEarly says of a step that ends a sleep.                       *)
LongEnough == ms = 0 \/ (begun /\ slept >= ms - 1) \/ target < ms

Inv == TypeOK /\ Started /\ Serving /\ Masks /\ NoneUnheard /\ Ticks

LEMMA Constants_ == /\ Lines \subseteq 0 .. 15 /\ 2 \notin Lines /\ 0 \in Lines /\ 5 \in Lines
                    /\ TickMod \in Nat \ {0} /\ Sleeps \subseteq 0 .. TickMod - 1
BY LinesAssumption, TimerAssumption

LEMMA OwnLines == \A l \in Lines : l \in Own(l) /\ Own(l) \subseteq Lines \cup {Cascade}
BY DEF Own

LEMMA Levels == \A l \in Lines \cup Spurious : Level(l) \in 0 .. 7 /\ (l < 8 => Level(l) = l) /\ (l >= 8 => Level(l) = 2)
BY Constants_ DEF Level, Spurious, Cascade

LEMMA Numbers == TypeOK => /\ g_ticks \in 0 .. TickMod - 1 /\ target \in 0 .. TickMod - 1
                           /\ ms \in 0 .. TickMod - 1 /\ slept \in 0 .. TickMod
                           /\ Ended \in Int
<1>1. TypeOK => slept \in 0 .. TickMod
  BY DEF TypeOK
<1> QED BY <1>1, Constants_ DEF TypeOK, Ended

LEMMA InitInv == Init => Inv
<1> SUFFICES ASSUME Init PROVE Inv
  OBVIOUS
<1>0. begun \in BOOLEAN
  BY Zenon DEF Init
<1>1. TypeOK
  BY <1>0, Constants_ DEF Init, PicInit, TypeOK, PicTypeOK, NoCall, Own
<1> QED
  BY <1>1 DEF Init, PicInit, Inv, Started, Serving, Masks, NoneUnheard, Ticks, Sleeping

-----------------------------------------------------------------------------
(* The handler.                                                            *)
LEMMA TakeInv == Inv /\ Take => Inv'
<1> SUFFICES ASSUME Inv, Take PROVE Inv'
  OBVIOUS
<1>t. TypeOK /\ Started /\ Serving /\ Masks /\ NoneUnheard /\ Ticks
  BY DEF Inv
<1>u. UNCHANGED <<at, call, value, g_ticks, ms, target, begun, slept, imr, irq_routines>> /\ pc = "run" /\ pc' = "dispatch"
  BY DEF Take, timer, Accept, AcceptSpurious, Answer
<1>m. Masks' /\ Started'
  BY <1>t, <1>u DEF Masks, Started, NewMask, Own
<1>1. ASSUME NEW l \in Lines, Accept(l) PROVE Inv'
  <2>1. /\ l \in irr /\ ~ Masked(l) /\ irr' = irr \ {l} /\ isr' = {l, Level(l)} /\ irq' = l
        /\ quiet' = quiet \cup {l}
    BY <1>1, <1>t, <1>u DEF Accept, Answer, Ready, Serving
  <2>2. TypeOK'
    BY <1>t, <1>u, <2>1, Levels DEF TypeOK, PicTypeOK, Level, Own
  <2>3. Serving'
    BY <1>u, <2>1 DEF Serving, Level
  <2>4. NoneUnheard'
    BY <1>t, <1>u, <2>1 DEF NoneUnheard, Masks, Masked
  <2>5. Ticks'
    <3>1. Waiting' + InHand' = Waiting + InHand
      BY <1>u, <2>1 DEF Waiting, InHand, Masked
    <3>2. Waiting \in Nat /\ InHand \in Nat /\ Waiting' \in Nat /\ InHand' \in Nat
      BY DEF Waiting, InHand
    <3>3. g_ticks \in Int /\ target \in Int /\ ms \in Int /\ Ended \in Int
      BY <1>t, Numbers, Constants_
    <3>4. (Sleeping' <=> Sleeping) /\ UNCHANGED <<g_ticks, target, ms, begun, slept>>
      BY <1>u DEF Sleeping
    <3>5. g_ticks + Waiting' + InHand' = g_ticks + Waiting + InHand
      <4>1. PICK w \in Nat, h \in Nat, v \in Nat, k \in Nat : Waiting = w /\ InHand = h /\ Waiting' = v /\ InHand' = k
        BY <3>2
      <4>2. v + k = w + h
        BY <3>1, <4>1
      <4> QED BY <3>3, <4>1, <4>2
    <3>6. Ended' = Ended
      BY <3>4 DEF Ended
    <3> QED BY <1>t, <3>4, <3>5, <3>6 DEF Ticks
  <2> QED BY <1>m, <2>2, <2>3, <2>4, <2>5 DEF Inv
<1>2. ASSUME NEW l \in Spurious, AcceptSpurious(l) PROVE Inv'
  <2>1. /\ irr' = irr /\ isr' = {Level(l)} \ {l} /\ irq' = l /\ quiet' = quiet \cup {l} /\ l # 0
    BY <1>2, <1>t, <1>u DEF AcceptSpurious, Answer, Serving, Spurious
  <2>2. TypeOK'
    <3>1. Level(l) \in Lines \cup {Cascade} \/ {Level(l)} \ {l} = {}
      BY DEF Level, Spurious
    <3> QED BY <1>t, <1>u, <2>1, <3>1 DEF TypeOK, PicTypeOK, Own
  <2>3. Serving'
    BY <1>u, <2>1 DEF Serving, Level
  <2>4. NoneUnheard'
    BY <1>u, <2>1 DEF NoneUnheard
  <2>5. Ticks'
    <3>1. Waiting' = Waiting /\ InHand' = 0 /\ InHand = 0
      BY <1>u, <2>1 DEF Waiting, InHand
    <3>2. Waiting \in Nat
      BY DEF Waiting
    <3>3. Ended' = Ended /\ g_ticks \in Int
      BY <1>t, <1>u, Numbers, Constants_ DEF Ended
    <3> QED BY <1>t, <1>u, <3>1, <3>2, <3>3 DEF Ticks, Sleeping
  <2> QED BY <1>m, <2>2, <2>3, <2>4, <2>5 DEF Inv
<1> QED BY <1>1, <1>2 DEF Take

LEMMA RoutineInv == Inv /\ Routine => Inv'
<1> SUFFICES ASSUME Inv, Routine PROVE Inv'
  OBVIOUS
<1>t. TypeOK /\ Started /\ Serving /\ Masks /\ NoneUnheard /\ Ticks
  BY DEF Inv
<1>1. /\ pc = "dispatch" /\ pc' = IF irq >= 8 THEN "eoi2" ELSE "eoi1"
      /\ UNCHANGED <<imr, irr, isr, irq_routines, irq, quiet, at, call, value, ms, target, begun, slept>>
      /\ g_ticks' = IF irq = 0 /\ irq \in irq_routines THEN (g_ticks + 1) % TickMod ELSE g_ticks
  BY DEF Routine, Dispatch, pic_send_eoi, NextTick
<1>g. g_ticks' \in 0 .. TickMod - 1 /\ g_ticks' <= g_ticks + InHand
  <2>1. g_ticks \in 0 .. TickMod - 1 /\ TickMod \in Nat \ {0}
    BY <1>t, Constants_ DEF TypeOK
  <2>2. (g_ticks + 1) % TickMod \in 0 .. TickMod - 1 /\ (g_ticks + 1) % TickMod <= g_ticks + 1
    <3>1. CASE g_ticks + 1 < TickMod
      BY <2>1, <3>1
    <3>2. CASE g_ticks + 1 = TickMod
      BY <2>1, <3>2
    <3> QED BY <2>1, <3>1, <3>2
  <2>3. CASE irq = 0 /\ irq \in irq_routines
    <3>1. InHand = 1 /\ g_ticks' = (g_ticks + 1) % TickMod
      BY <1>1, <2>3 DEF InHand
    <3> QED BY <2>2, <3>1
  <2>4. CASE ~ (irq = 0 /\ irq \in irq_routines)
    <3>1. InHand \in Nat /\ g_ticks' = g_ticks
      BY <1>1, <2>4 DEF InHand
    <3> QED BY <2>1, <3>1
  <2> QED BY <2>3, <2>4
<1>2. TypeOK'
  BY <1>t, <1>1, <1>g DEF TypeOK, PicTypeOK, Own
<1>3. Serving'
  <2>1. irq \in Lines \cup Spurious
    BY <1>t DEF TypeOK, PicTypeOK
  <2>2. CASE irq >= 8
    BY <1>t, <1>1, <2>1, <2>2, Levels DEF Serving, Cascade
  <2>3. CASE ~ (irq >= 8)
    BY <1>t, <1>1, <2>1, <2>3, Levels, Constants_ DEF Serving, Spurious, Level
  <2> QED BY <2>2, <2>3
<1>4. Started' /\ Masks' /\ NoneUnheard'
  BY <1>t, <1>1 DEF Started, Masks, NewMask, Own, NoneUnheard
<1>5. Ticks'
  <2>1. InHand' = 0 /\ Waiting' = Waiting
    BY <1>1 DEF InHand, Waiting
  <2>2. InHand \in Nat /\ Waiting \in Nat
    BY DEF InHand, Waiting
  <2>3. g_ticks \in Int /\ g_ticks' \in Int /\ target \in Int /\ Ended \in Int /\ ms \in Int /\ Ended' = Ended
    BY <1>t, <1>1, <1>g, Constants_, Numbers DEF Ended
  <2> QED BY <1>t, <1>1, <1>g, <2>1, <2>2, <2>3 DEF Ticks, Sleeping
<1> QED BY <1>2, <1>3, <1>4, <1>5 DEF Inv

LEMMA EoiInv == Inv /\ (Acknowledge \/ Resume) => Inv'
<1> SUFFICES ASSUME Inv, Acknowledge \/ Resume PROVE Inv'
  OBVIOUS
<1>t. TypeOK /\ Started /\ Serving /\ Masks /\ NoneUnheard /\ Ticks
  BY DEF Inv
<1>u. UNCHANGED <<imr, irr, irq_routines, quiet, call, value, g_ticks, ms, target, begun, slept>>
  BY DEF Acknowledge, Resume, Eoi2, Eoi1, timer
<1>i. irq \in Lines \cup Spurious /\ isr \subseteq Lines \cup {Cascade} /\ Lines \subseteq 0 .. 15
  BY <1>t, Constants_ DEF TypeOK, PicTypeOK
<1>1. CASE Acknowledge
  <2>1. /\ pc = "eoi2" /\ pc' = "eoi1" /\ irq' = irq /\ at' = at
        /\ isr' = isr \ {s \in Own(8) : \A k \in isr \cap Own(8) : s <= k}
    BY <1>1 DEF Acknowledge, Eoi2, Eoi
  <2>2. irq >= 8 /\ (isr = {irq, Cascade} \/ isr = {Cascade}) /\ Level(irq) = 2
    BY <1>t, <1>i, <2>1, Levels DEF Serving
  <2>3. \A s \in isr : s # Cascade => s = irq /\ s \in Own(8) /\ \A k \in isr \cap Own(8) : s <= k
    BY <1>i, <2>2 DEF Own, Cascade, Spurious
  <2>4. isr' \subseteq {Level(irq)} /\ isr' \subseteq isr
    BY <2>1, <2>2, <2>3 DEF Cascade
  <2>5. Serving'
    BY <2>1, <2>4 DEF Serving, Level
  <2>6. TypeOK'
    BY <1>t, <1>u, <2>1, <2>4 DEF TypeOK, PicTypeOK, Own
  <2>7. Started' /\ Masks' /\ NoneUnheard'
    BY <1>t, <1>u, <2>1 DEF Started, Masks, NewMask, Own, NoneUnheard
  <2>8. Ticks'
    BY <1>t, <1>u, <2>1 DEF Ticks, Sleeping, Waiting, InHand, Ended
  <2> QED BY <2>5, <2>6, <2>7, <2>8 DEF Inv
<1>2. CASE Resume
  <2>1. /\ pc = "eoi1" /\ pc' = "run" /\ irq' = 0 /\ at' = (IF at = "halted" THEN "while" ELSE at)
        /\ isr' = isr \ {s \in Own(0) : \A k \in isr \cap Own(0) : s <= k}
    BY <1>2 DEF Resume, Eoi1, Eoi
  <2>2. isr \subseteq {Level(irq)} /\ Level(irq) \in 0 .. 7
    BY <1>t, <1>i, <2>1, Levels DEF Serving
  <2>3. \A s \in isr : s \in Own(0) /\ \A k \in isr \cap Own(0) : s <= k
    BY <1>i, <2>2 DEF Own, Cascade
  <2>4. isr' = {}
    BY <2>1, <2>3
  <2>5. Serving'
    BY <2>1, <2>4 DEF Serving
  <2>6. TypeOK'
    BY <1>t, <1>u, <2>1, <2>4, Constants_ DEF TypeOK, PicTypeOK, Own
  <2>7. Started' /\ Masks' /\ NoneUnheard'
    BY <1>t, <1>u, <2>1 DEF Started, Masks, NewMask, Own, NoneUnheard
  <2>8. Ticks'
    BY <1>t, <1>u, <2>1 DEF Ticks, Sleeping, Waiting, InHand, Ended
  <2> QED BY <2>5, <2>6, <2>7, <2>8 DEF Inv
<1> QED BY <1>1, <1>2

-----------------------------------------------------------------------------
(* The devices.                                                            *)
LEMMA Later ==
  ASSUME NEW g \in Int, NEW w \in Int, NEW h \in Int, NEW t \in Int, NEW m \in Int, NEW e \in Int,
         NEW v \in Int, NEW f \in Int,
         e < m => g + w + h <= (t - m) + e,
         (f = e /\ v <= w) \/ (f >= e + 1 /\ v <= w + 1), f < m
  PROVE  g + v + h <= (t - m) + f
OBVIOUS

LEMMA RequestInv == Inv /\ (Tick \/ \E l \in Lines : Device(l)) => Inv'
<1> SUFFICES ASSUME Inv, Tick \/ \E l \in Lines : Device(l) PROVE Inv'
  OBVIOUS
<1>t. TypeOK /\ Started /\ Serving /\ Masks /\ NoneUnheard /\ Ticks
  BY DEF Inv
<1>u. UNCHANGED <<imr, isr, irq_routines, pc, irq, quiet, at, call, value, g_ticks, ms, target>>
  BY DEF Tick, Device, Request, timer
<1>1. /\ irr' \subseteq irr \cup Lines
      /\ slept' \in 0 .. TickMod /\ begun' \in BOOLEAN
      /\ \/ Ended' = Ended /\ (0 \in irr' => 0 \in irr)
         \/ ~ Sleeping
         \/ Ended' >= Ended + 1
         \/ Ended' >= TickMod
  <2>1. CASE Tick
    <3>1. irr' = irr \cup {0} /\ begun' = Sleeping /\ slept' = IF begun /\ slept < TickMod THEN slept + 1 ELSE slept
      BY <2>1 DEF Tick, Request
    <3>2. irr' \subseteq irr \cup Lines /\ begun' \in BOOLEAN
      BY <3>1, Constants_ DEF Sleeping
    <3>3. slept' \in 0 .. TickMod
      BY <1>t, <3>1, Numbers, Constants_
    <3>4. CASE Sleeping
      BY <1>t, <3>1, <3>3, <3>4, Numbers, Constants_ DEF Ended
    <3> QED BY <3>2, <3>3, <3>4
  <2>2. ASSUME NEW l \in Lines, Device(l)
        PROVE  irr' = irr \cup {l} /\ l # 0 /\ slept' = slept /\ begun' = begun
    BY <2>2 DEF Device, Request, timer
  <2>3. CASE \E l \in Lines : Device(l)
    <3>1. Ended' = Ended /\ begun \in BOOLEAN /\ slept \in 0 .. TickMod
      BY <1>t, <2>2, <2>3 DEF Ended, TypeOK
    <3> QED BY <2>2, <2>3, <3>1
  <2> QED BY <2>1, <2>3
<1>2. TypeOK'
  BY <1>t, <1>u, <1>1 DEF TypeOK, PicTypeOK, Own
<1>3. Started' /\ Serving' /\ Masks' /\ NoneUnheard'
  BY <1>t, <1>u DEF Started, Serving, Level, Masks, NewMask, Own, NoneUnheard
<1>4. Ticks'
  <2>1. Waiting \in Nat /\ Waiting' \in {0, 1} /\ InHand' = InHand /\ InHand \in Nat
    BY <1>u DEF Waiting, InHand
  <2>2. (0 \in irr' => 0 \in irr) => Waiting' <= Waiting
    BY <1>u DEF Waiting
  <2>3. Sleeping' <=> Sleeping
    BY <1>u DEF Sleeping
  <2>4. ms < TickMod
    BY <1>t, Numbers, Constants_
  <2>5. Ended \in Int /\ Ended' \in Int /\ ms \in Int /\ target \in Int /\ g_ticks \in Int /\ TickMod \in Int
    <3>1. Ended' \in Int
      BY <1>1, Constants_ DEF Ended
    <3> QED BY <1>t, <3>1, Numbers, Constants_
  <2>f. ASSUME Sleeping, Ended' < ms, target >= ms,
               (Ended' = Ended /\ Waiting' <= Waiting) \/ (Ended' >= Ended + 1 /\ Waiting' <= Waiting + 1)
        PROVE  g_ticks + Waiting' + InHand <= (target - ms) + Ended'
    <3>1. Ended < ms => g_ticks + Waiting + InHand <= (target - ms) + Ended
      BY <1>t, <2>f DEF Ticks
    <3>2. Waiting \in Int /\ Waiting' \in Int /\ InHand \in Int
      BY <2>1
    <3> QED BY ONLY <2>5, <2>f, <3>1, <3>2, Later
  <2>6. CASE Ended' = Ended /\ (0 \in irr' => 0 \in irr)
    <3>1. Waiting' <= Waiting
      BY <2>2, <2>6
    <3> QED BY <1>u, <2>1, <2>3, <2>6, <2>f, <3>1 DEF Ticks
  <2>7. CASE Ended' >= Ended + 1
    <3>1. Waiting' <= Waiting + 1
      BY <2>1
    <3> QED BY <1>u, <2>1, <2>3, <2>7, <2>f, <3>1 DEF Ticks
  <2>8. CASE ~ Sleeping \/ Ended' >= TickMod
    BY <1>u, <2>3, <2>4, <2>5, <2>8 DEF Ticks
  <2> QED BY <1>1, <2>6, <2>7, <2>8
<1> QED BY <1>2, <1>3, <1>4 DEF Inv

-----------------------------------------------------------------------------
(* The program.  Between the interrupts nothing is in service and no       *)
(* request of an unmasked line waits.                                      *)
LEMMA NothingWaits ==
  ASSUME Inv, pc = "run", Ready = {}
  PROVE  isr = {} /\ Waiting = 0 /\ InHand = 0
<1>1. isr = {}
  BY DEF Inv, Serving
<1>2. 0 \in irr /\ 0 \notin imr => 0 \in Ready
  BY <1>1 DEF Ready, Masked, Blocked
<1> QED BY <1>1, <1>2 DEF Waiting, InHand

LEMMA BootInv == Inv /\ Boot => Inv'
<1> SUFFICES ASSUME Inv, Boot PROVE Inv'
  OBVIOUS
<1>t. TypeOK /\ Started /\ Serving /\ Masks /\ NoneUnheard /\ Ticks
  BY DEF Inv
<1>1. /\ at = "boot" /\ pc = "off" /\ pc' = "run" /\ imr' = Lines /\ irr' = {} /\ isr' = {} /\ at' = "install"
      /\ call' = [line |-> 5, set |-> FALSE]
      /\ UNCHANGED <<irq_routines, irq, quiet, value, g_ticks, ms, target, begun, slept>>
  BY DEF Boot, idt_init, timer
<1>2. TypeOK'
  BY <1>t, <1>1, Constants_ DEF TypeOK, PicTypeOK, Masks
<1>3. Started' /\ Serving' /\ Masks' /\ NoneUnheard' /\ Ticks'
  BY <1>t, <1>1 DEF Started, Serving, Masks, NewMask, NoneUnheard, Ticks, Sleeping
<1> QED BY <1>2, <1>3 DEF Inv

(* The statements that change no register of the controllers and no clock. *)
LEMMA RunsInv ==
  ASSUME Inv, Runs, UNCHANGED <<imr, g_ticks>>, at # "boot", at' # "boot",
         at \notin {"inb", "outb"},
         at' \in {"install", "inb", "free", "while", "hlt", "halted"},
         call' \in [line : Lines, set : BOOLEAN], value' = {},
         at' = "inb" /\ ~ call'.set => call'.line \in irq_routines',
         Lines \ imr \subseteq irq_routines', irq_routines' \subseteq Lines,
         ms' \in Sleeps \cup {0}, target' \in 0 .. TickMod - 1, begun' \in BOOLEAN, slept' \in 0 .. TickMod,
         Sleeping' /\ Ended' < ms' /\ target' >= ms' => g_ticks <= (target' - ms') + Ended'
  PROVE  Inv'
<1>t. TypeOK /\ Started /\ Serving /\ Masks /\ NoneUnheard /\ Ticks
  BY DEF Inv
<1>1. /\ pc = "run" /\ pc' = "run" /\ Ready = {} /\ quiet' = {} /\ UNCHANGED <<irr, isr, irq>>
      /\ isr = {} /\ Waiting = 0
  BY NothingWaits DEF Runs
<1>2. TypeOK'
  BY <1>t, <1>1 DEF TypeOK, PicTypeOK
<1>3. Started' /\ Serving' /\ NoneUnheard'
  BY <1>t, <1>1 DEF Started, Serving, NoneUnheard
<1>4. Masks'
  BY <1>1 DEF Masks
<1>5. Ticks'
  <2>1. Waiting' = 0 /\ InHand' = 0
    BY <1>1 DEF Waiting, InHand
  <2>2. g_ticks \in Int
    BY <1>t, Numbers, Constants_
  <2> QED BY <2>1, <2>2 DEF Ticks
<1> QED BY <1>2, <1>3, <1>4, <1>5 DEF Inv

LEMMA MaskInv == Inv /\ (Install \/ Inb \/ Outb) => Inv'
<1> SUFFICES ASSUME Inv, Install \/ Inb \/ Outb PROVE Inv'
  OBVIOUS
<1>t. TypeOK /\ Started /\ Serving /\ Masks /\ NoneUnheard /\ Ticks
  BY DEF Inv
<1>c. /\ call \in [line : Lines, set : BOOLEAN] /\ call.line \in Lines
      /\ call.line \in Own(call.line) /\ Own(call.line) \subseteq Lines \cup {Cascade}
      /\ imr \subseteq Lines \cup {Cascade} /\ irq_routines \subseteq Lines
  BY <1>t, OwnLines DEF TypeOK, PicTypeOK
<1>u. /\ pc = "run" /\ pc' = "run" /\ quiet' = {} /\ isr = {}
      /\ UNCHANGED <<irr, isr, irq, g_ticks, ms, target, begun, slept>>
  BY NothingWaits DEF Install, Inb, Outb, irq_install_handler, ElseRuns, SetPort, Runs, timer
<1>1. CASE Install
  <2>1. /\ at = "install" /\ at' = "inb" /\ irq_routines' = irq_routines \cup {call.line} /\ UNCHANGED <<imr, call, value>>
    BY <1>1 DEF Install, irq_install_handler
  <2>2. TypeOK'
    BY <1>t, <1>c, <1>u, <2>1 DEF TypeOK, PicTypeOK
  <2>3. Started' /\ Serving' /\ NoneUnheard' /\ Masks'
    BY <1>t, <1>u, <2>1 DEF Started, Serving, NoneUnheard, Masks
  <2>4. Ticks'
    BY <2>1 DEF Ticks, Sleeping
  <2> QED BY <2>2, <2>3, <2>4 DEF Inv
<1>2. CASE Inb
  <2>1. at = "inb" /\ at' = "outb" /\ value' = NewMask /\ UNCHANGED <<imr, irq_routines, call>>
    BY <1>2 DEF Inb, ElseRuns, NewMask
  <2>2. value' \subseteq Own(call.line)
    BY <1>c, <2>1 DEF NewMask
  <2>3. TypeOK'
    BY <1>t, <1>u, <2>1, <2>2 DEF TypeOK, PicTypeOK, Own
  <2>4. Started' /\ Serving' /\ NoneUnheard' /\ Masks'
    BY <1>t, <1>u, <2>1 DEF Started, Serving, NoneUnheard, Masks, NewMask, Own
  <2>5. Ticks'
    BY <2>1 DEF Ticks, Sleeping
  <2> QED BY <2>3, <2>4, <2>5 DEF Inv
<1>3. CASE Outb
  <2>1. /\ at = "outb" /\ at' = "free" /\ call' = NoCall /\ value' = {} /\ irq_routines' = irq_routines
        /\ imr' = (imr \ Own(call.line)) \cup value
    BY <1>3 DEF Outb, SetPort
  <2>2. value = NewMask /\ value \subseteq Own(call.line) /\ (~ call.set => call.line \in irq_routines)
    BY <1>t, <2>1 DEF Masks, TypeOK
  <2>3. Lines \ imr' \subseteq irq_routines
    <3>1. Lines \ imr \subseteq irq_routines
      BY <1>t, <1>u DEF Masks
    <3>2. CASE call.set
      BY <2>1, <2>2, <3>1, <3>2 DEF NewMask
    <3>3. CASE ~ call.set
      BY <2>1, <2>2, <3>1, <3>3 DEF NewMask
    <3> QED BY <3>2, <3>3
  <2>4. TypeOK'
    <3>1. NoCall \in [line : Lines, set : BOOLEAN]
      BY Constants_ DEF NoCall
    <3> QED BY <1>t, <1>c, <1>u, <2>1, <2>2, <3>1 DEF TypeOK, PicTypeOK
  <2>5. Started' /\ Serving' /\ NoneUnheard' /\ Masks'
    BY <1>t, <1>u, <2>1, <2>3 DEF Started, Serving, NoneUnheard, Masks
  <2>6. Ticks'
    BY <2>1 DEF Ticks, Sleeping
  <2> QED BY <2>4, <2>5, <2>6 DEF Inv
<1> QED BY <1>1, <1>2, <1>3

LEMMA CallsInv == Inv /\ (Calls \/ Idle) => Inv'
<1> SUFFICES ASSUME Inv, Calls \/ Idle PROVE Inv'
  OBVIOUS
<1>t. /\ at = "free" /\ Runs /\ UNCHANGED imr /\ value' = value
      /\ call \in [line : Lines, set : BOOLEAN] /\ irq_routines \subseteq Lines
      /\ value = {} /\ Lines \ imr \subseteq irq_routines
      /\ ms \in Sleeps \cup {0} /\ target \in 0 .. TickMod - 1 /\ begun \in BOOLEAN /\ slept \in 0 .. TickMod /\ g_ticks \in 0 .. TickMod - 1
  <2>1. at = "free" /\ Runs /\ UNCHANGED imr /\ value' = value
    BY DEF Calls, Idle, CallInstall, CallUninstall, CallMask, pit_init, sleep_ms, irq_install_handler,
           irq_uninstall_handler, ElseRuns
  <2>2. TypeOK /\ Masks /\ pc = "run"
    BY <2>1 DEF Inv, Runs
  <2> QED BY <2>1, <2>2 DEF TypeOK, PicTypeOK, Masks
<1>1. ASSUME NEW l \in Lines, CallInstall(l) \/ CallUninstall(l) PROVE Inv'
  <2>1. /\ UNCHANGED <<at, call, g_ticks, ms, target, begun, slept>> /\ Lines \ imr \subseteq irq_routines' /\ irq_routines' \subseteq Lines
    BY <1>t, <1>1 DEF CallInstall, CallUninstall, irq_install_handler, irq_uninstall_handler, timer
  <2>2. ~ Sleeping'
    BY <1>t, <2>1 DEF Sleeping
  <2> QED BY <1>t, <2>1, <2>2, RunsInv
<1>2. ASSUME NEW l \in Lines, NEW set \in BOOLEAN, CallMask(l, set) PROVE Inv'
  <2>1. /\ UNCHANGED <<irq_routines, g_ticks, ms, target, begun, slept>> /\ at' = "inb"
        /\ call' = [line |-> l, set |-> set] /\ l \in irq_routines
    BY <1>2 DEF CallMask, ElseRuns, timer
  <2>2. ~ Sleeping'
    BY <2>1 DEF Sleeping
  <2> QED BY <1>t, <2>1, <2>2, RunsInv
<1>3. CASE Idle
  <2>1. UNCHANGED <<irq_routines, at, call, g_ticks, ms, target, begun, slept>>
    BY <1>3 DEF Idle, ElseRuns, timer
  <2>2. ~ Sleeping'
    BY <1>t, <2>1 DEF Sleeping
  <2> QED BY <1>t, <2>1, <2>2, RunsInv
<1>4. CASE pit_init
  <2>1. /\ UNCHANGED <<irq_routines, irr, isr, irq, ms, target, begun, slept>> /\ g_ticks' = 0 /\ at' = "install"
        /\ call' = [line |-> 0, set |-> FALSE] /\ pc = "run" /\ pc' = "run" /\ quiet' = {}
    BY <1>4 DEF pit_init, ElseRuns, Runs, After_pit_init
  <2>2. TypeOK'
    BY <1>t, <2>1, Constants_ DEF Inv, TypeOK, PicTypeOK
  <2>3. Started' /\ Serving' /\ Masks' /\ NoneUnheard' /\ Ticks'
    BY <1>t, <2>1 DEF Inv, Started, Serving, Masks, NoneUnheard, Ticks, Sleeping
  <2> QED BY <2>2, <2>3 DEF Inv
<1>5. ASSUME NEW m \in Sleeps, sleep_ms(m) PROVE Inv'
  <2>1. /\ UNCHANGED <<irq_routines, call, g_ticks>> /\ at' = "while"
        /\ ms' = m /\ target' = (g_ticks + m) % TickMod /\ begun' = FALSE /\ slept' = 0
    BY <1>5 DEF sleep_ms, ElseRuns, get_ticks_ms
  <2>2. m \in 0 .. TickMod - 1 /\ target' \in 0 .. TickMod - 1
    BY <1>t, <2>1, Constants_
  <2>3. target' >= m => g_ticks <= target' - m
    <3>1. CASE g_ticks + m < TickMod
      BY <1>t, <2>1, <2>2, <3>1, Constants_
    <3>2. CASE g_ticks + m >= TickMod
      <4>1. g_ticks + m = TickMod * 1 + (g_ticks + m - TickMod) /\ g_ticks + m - TickMod \in 0 .. TickMod - 1
        BY <1>t, <2>2, <3>2, Constants_
      <4>2. (g_ticks + m) % TickMod = g_ticks + m - TickMod
        BY <1>t, <2>2, <4>1, Constants_
      <4> QED BY <1>t, <2>1, <2>2, <4>2, Constants_
    <3>3. g_ticks + m < TickMod \/ g_ticks + m >= TickMod
      <4>1. g_ticks \in Int /\ m \in Int /\ TickMod \in Int
        BY <1>t, <2>2, Constants_
      <4> QED BY <4>1
    <3> QED BY <3>1, <3>2, <3>3
  <2>0. Ended' = 0
    BY <2>1 DEF Ended
  <2>4. Sleeping' /\ Ended' < ms' /\ target' >= ms' => g_ticks <= (target' - ms') + Ended'
    BY <1>t, <2>0, <2>1, <2>2, <2>3, Constants_
  <2>5. begun' \in BOOLEAN
    BY <2>1, Zenon
  <2>6. UNCHANGED <<irq_routines, call, g_ticks>> /\ at' = "while" /\ ms' \in Sleeps \cup {0} /\ slept' \in 0 .. TickMod
    BY <2>1, Constants_
  <2> QED BY <1>t, <2>2, <2>4, <2>5, <2>6, RunsInv
<1> QED BY <1>1, <1>2, <1>3, <1>4, <1>5 DEF Calls

LEMMA SleepInv == Inv /\ (While \/ Hlt) => Inv' /\ (Sleeping /\ ~ Sleeping' => LongEnough)
<1> SUFFICES ASSUME Inv, While \/ Hlt
             PROVE  Inv' /\ (Sleeping /\ ~ Sleeping' => LongEnough)
  OBVIOUS
<1>t. TypeOK /\ Masks /\ Ticks
  BY DEF Inv
<1>u. /\ at \in {"while", "hlt"} /\ Runs /\ UNCHANGED <<imr, irq_routines, call, value, g_ticks>>
      /\ Waiting = 0 /\ InHand = 0 /\ pc = "run"
  BY NothingWaits DEF While, Hlt, ElseRuns, Runs, timer
<1>c. call \in [line : Lines, set : BOOLEAN] /\ irq_routines \subseteq Lines /\ value = {} /\ Lines \ imr \subseteq irq_routines
  BY <1>t, <1>u DEF TypeOK, PicTypeOK, Masks
<1>n. /\ g_ticks \in 0 .. TickMod - 1 /\ target \in 0 .. TickMod - 1 /\ ms \in 0 .. TickMod - 1 /\ slept \in 0 .. TickMod
      /\ ms \in Sleeps \cup {0} /\ begun \in BOOLEAN /\ Ended \in Int
  BY <1>t, Numbers DEF TypeOK
<1>s. Ended < ms /\ target >= ms => g_ticks <= (target - ms) + Ended
  BY <1>t, <1>u, <1>n, Constants_ DEF Ticks, Sleeping
<1>1. CASE While /\ ~ Again
  <2>1. at' = "free" /\ ms' = 0 /\ target' = 0 /\ begun' = FALSE /\ slept' = 0
    BY <1>1 DEF While
  <2>0. Ended >= ms \/ target < ms
    BY <1>1, <1>n, <1>s, Constants_ DEF Again, get_ticks_ms
  <2>2. LongEnough
    BY <1>n, <2>0, Constants_ DEF LongEnough, Ended
  <2>3. ~ Sleeping'
    BY <2>1 DEF Sleeping
  <2>4. Inv'
    <3>1. begun' \in BOOLEAN
      BY <2>1, Zenon
    <3>2. at' = "free" /\ ms' = 0 /\ target' = 0 /\ slept' = 0
      BY <2>1
    <3> QED BY <1>u, <1>c, <2>3, <3>1, <3>2, RunsInv, Constants_
  <2> QED BY <2>2, <2>4
<1>2. CASE Hlt \/ (While /\ Again)
  <2>1. at' \in {"hlt", "halted"} /\ UNCHANGED <<ms, target, begun, slept>>
    BY <1>2 DEF Hlt, While, timer
  <2>0. Ended' = Ended
    BY <2>1 DEF Ended
  <2>2. Inv'
    BY <1>u, <1>c, <1>n, <1>s, <2>0, <2>1, RunsInv
  <2> QED BY <2>1, <2>2 DEF Sleeping
<1> QED BY <1>1, <1>2

-----------------------------------------------------------------------------
LEMMA NextInv == Inv /\ [Next]_vars => Inv' /\ (Sleeping /\ ~ Sleeping' => LongEnough)
<1> SUFFICES ASSUME Inv, [Next]_vars
             PROVE  Inv' /\ (Sleeping /\ ~ Sleeping' => LongEnough)
  OBVIOUS
<1>1. CASE UNCHANGED vars
  <2>1. UNCHANGED <<imr, irr, isr, irq_routines, pc, irq, quiet, at, call, value, g_ticks, ms, target, begun, slept>>
    BY <1>1 DEF vars, pic, timer
  <2>2. TypeOK' /\ Started' /\ Serving' /\ Masks' /\ NoneUnheard' /\ Ticks'
    BY <2>1 DEF Inv, TypeOK, PicTypeOK, Own, Started, Serving, Level, Masks, NewMask, NoneUnheard, Ticks,
                Sleeping, Waiting, InHand, Ended
  <2> QED BY <2>1, <2>2 DEF Inv, Sleeping
<1>2. CASE Handler
  <2>1. Inv'
    BY <1>2, TakeInv, RoutineInv, EoiInv DEF Handler
  <2>2. at' = at \/ (at = "halted" /\ at' = "while")
    BY <1>2 DEF Handler, Take, Routine, Acknowledge, Resume
  <2> QED BY <2>1, <2>2 DEF Sleeping
<1>3. CASE Boot
  <2>1. ~ Sleeping
    BY <1>3 DEF Boot, Sleeping
  <2> QED BY <1>3, <2>1, BootInv
<1>4. CASE Install \/ Inb \/ Outb
  <2>1. ~ Sleeping
    BY <1>4 DEF Install, Inb, Outb, Sleeping
  <2> QED BY <1>4, <2>1, MaskInv
<1>5. CASE While \/ Hlt
  BY <1>5, SleepInv
<1>6. CASE Calls \/ Idle
  <2>1. ~ Sleeping
    BY <1>6 DEF Calls, Idle, CallInstall, CallUninstall, CallMask, pit_init, sleep_ms, Sleeping
  <2> QED BY <1>6, <2>1, CallsInv
<1>7. CASE Tick \/ \E l \in Lines : Device(l)
  <2>1. at' = at
    BY <1>7 DEF Tick, Device
  <2> QED BY <1>7, <2>1, RequestInv DEF Sleeping
<1> QED BY <1>1, <1>2, <1>3, <1>4, <1>5, <1>6, <1>7 DEF Next, Step

LEMMA Invariance == Spec => []Inv
BY InitInv, NextInv, PTL DEF Spec

(* The state of the controllers, the masks and the clock, for any lines.   *)
THEOREM TypeCorrect == Spec => []TypeOK
BY Invariance, PTL DEF Inv

(* Every interrupt finds a routine, and none stays in service when the     *)
(* program goes on, whatever lines have devices and whenever they ask.     *)
THEOREM AllAttended == Spec => []Attended
<1>1. Inv => Attended
  BY DEF Inv, Serving, Attended, NothingInService
<1> QED BY <1>1, Invariance, PTL

(* A sleep of ms milliseconds whose target does not wrap around lasts for  *)
(* the rest of the period it is called in and ms - 1 whole ones: it is     *)
(* short of ms milliseconds by less than one, for a counter of 32 bits as  *)
(* for any other.                                                          *)
THEOREM SleepNotShort == Spec => NeverEarly
<1>1. Inv /\ [Next]_vars => [Sleeping /\ ~ Sleeping' => LongEnough]_vars
  BY NextInv
<1> QED BY <1>1, Invariance, PTL DEF Spec, NeverEarly, LongEnough
=============================================================================
