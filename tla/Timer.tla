------------------------------- MODULE Timer --------------------------------
(***************************************************************************)
(* The program between the interrupts: kernel_main's start (kernel.c:94),  *)
(* the mask registers read and written back (idt.c:52-64), and the clock   *)
(* of pit.c, which counts the interrupts of line 0 and sleeps until it has *)
(* counted enough.                                                         *)
(***************************************************************************)
EXTENDS Pic

CONSTANTS
  TickMod,   \* g_ticks counts modulo 2^32
  Sleeps     \* the arguments of sleep_ms

ASSUME TimerAssumption ==
  TickMod \in Nat \ {0} /\ Sleeps \subseteq 0 .. TickMod - 1

VARIABLES
  at,        \* the statement the program comes to next
  call,      \* the mask function in progress: its line and what it does to it
  value,     \* value of irq_set_mask and irq_clear_mask
  g_ticks,
  ms,        \* argument of sleep_ms
  target,    \* target of sleep_ms
  begun,     \* history: a period of the timer has begun since sleep_ms was called
  slept      \* history: whole periods since then

timer == <<g_ticks, ms, target, begun, slept>>
vars == <<pic, at, call, value, timer>>

NoCall == [line |-> 0, set |-> FALSE]

Init ==
  /\ PicInit
  /\ at = "boot" /\ call = NoCall /\ value = {}
  /\ g_ticks = 0 /\ ms = 0 /\ target = 0 /\ begun = FALSE /\ slept = 0

-----------------------------------------------------------------------------
(* kernel_main: the routine of the Sound Blaster, then its mask.           *)
Boot ==
  /\ at = "boot" /\ idt_init /\ at' = "install"
  /\ call' = [line |-> 5, set |-> FALSE]
  /\ UNCHANGED <<value, timer>>
Install ==
  /\ at = "install" /\ irq_install_handler(call.line)
  /\ at' = "inb"
  /\ UNCHANGED <<call, value, timer>>

(* irq_set_mask and irq_clear_mask: inb, then outb.                        *)
Inb ==
  /\ at = "inb" /\ ElseRuns
  /\ value' = IF call.set THEN (imr \cap Own(call.line)) \cup {call.line}
                          ELSE (imr \cap Own(call.line)) \ {call.line}
  /\ at' = "outb"
  /\ UNCHANGED <<call, timer>>
Outb ==
  /\ at = "outb" /\ SetPort(call.line, value)
  /\ at' = "free" /\ call' = NoCall /\ value' = {}
  /\ UNCHANGED timer

(* What a driver may call once the kernel is up: it has a routine before   *)
(* it unmasks its line, and masks the line before it takes it away.        *)
CallMask(l, set) ==
  /\ at = "free" /\ l \in irq_routines /\ ElseRuns
  /\ at' = "inb" /\ call' = [line |-> l, set |-> set]
  /\ UNCHANGED <<value, timer>>
CallInstall(l) ==
  /\ at = "free" /\ l \notin irq_routines /\ irq_install_handler(l)
  /\ UNCHANGED <<at, call, value, timer>>
CallUninstall(l) ==
  /\ at = "free" /\ l \in imr /\ irq_uninstall_handler(l)
  /\ UNCHANGED <<at, call, value, timer>>
Idle ==
  /\ at = "free" /\ quiet # {} /\ ElseRuns
  /\ UNCHANGED <<at, call, value, timer>>

-----------------------------------------------------------------------------
(* pit.c.  Nothing in the kernel calls it yet; the order of its own        *)
(* statements is kept.                                                     *)
After_pit_init_MaskFirst == "inb"
After_pit_init == "install"
pit_init ==
  /\ at = "free" /\ ElseRuns
  /\ g_ticks' = 0
  /\ at' = After_pit_init /\ call' = [line |-> 0, set |-> FALSE]
  /\ UNCHANGED <<value, ms, target, begun, slept>>

get_ticks_ms == g_ticks
sleep_ms(m) ==
  /\ at = "free" /\ ElseRuns
  /\ ms' = m /\ target' = (get_ticks_ms + m) % TickMod
  /\ begun' = FALSE /\ slept' = 0
  /\ at' = "while"
  /\ UNCHANGED <<call, value, g_ticks>>
Again_NotEqual == get_ticks_ms # target
Again_Early == get_ticks_ms + 1 < target
Again == get_ticks_ms < target
While ==
  /\ at = "while" /\ ElseRuns
  /\ IF Again THEN at' = "hlt" /\ UNCHANGED <<ms, target, begun, slept>>
              ELSE at' = "free" /\ ms' = 0 /\ target' = 0 /\ begun' = FALSE /\ slept' = 0
  /\ UNCHANGED <<call, value, g_ticks>>
Hlt ==
  /\ at = "hlt" /\ ElseRuns
  /\ at' = "halted"
  /\ UNCHANGED <<call, value, timer>>

(* A period of the timer ends and the next begins: another request on line *)
(* 0, which is lost if the last one is still waiting.  The period in which *)
(* sleep_ms was called had begun before, and may have been almost over.    *)
Sleeping == at \in {"while", "hlt", "halted"}
Tick ==
  /\ Request(0)
  /\ begun' = Sleeping
  /\ slept' = IF begun /\ slept < TickMod THEN slept + 1 ELSE slept
  /\ UNCHANGED <<at, call, value, g_ticks, ms, target>>
Device(l) == l # 0 /\ l \notin irr /\ Request(l) /\ UNCHANGED <<at, call, value, timer>>

-----------------------------------------------------------------------------
Take ==
  /\ \/ \E l \in Lines : Accept(l)
     \/ \E l \in Spurious : AcceptSpurious(l)
  /\ UNCHANGED <<at, call, value, timer>>
(* The routine: pit_irq0_handler, or the one of another driver.            *)
NextTick_NoWrap == g_ticks + 1
NextTick == (g_ticks + 1) % TickMod
Routine ==
  /\ Dispatch
  /\ g_ticks' = IF irq = 0 /\ irq \in irq_routines THEN NextTick ELSE g_ticks
  /\ UNCHANGED <<at, call, value, ms, target, begun, slept>>
Acknowledge == Eoi2 /\ UNCHANGED <<at, call, value, timer>>
Resume ==
  /\ Eoi1
  /\ at' = IF at = "halted" THEN "while" ELSE at
  /\ UNCHANGED <<call, value, timer>>

Handler == Take \/ Routine \/ Acknowledge \/ Resume
Step == Handler \/ Boot \/ Install \/ Inb \/ Outb \/ While \/ Hlt \/ Idle
Calls ==
  \/ \E l \in Lines : CallInstall(l) \/ CallUninstall(l) \/ \E set \in BOOLEAN : CallMask(l, set)
  \/ pit_init \/ \E m \in Sleeps : sleep_ms(m)
Next == Step \/ Calls \/ Tick \/ \E l \in Lines : Device(l)

Spec == Init /\ [][Next]_vars

(* The processor runs on, and the timer's crystal does not stop.           *)
FairSpec == Spec /\ WF_vars(Step) /\ WF_vars(Tick)

-----------------------------------------------------------------------------
TypeOK ==
  /\ PicTypeOK
  /\ at \in {"boot", "install", "inb", "outb", "free", "while", "hlt", "halted"}
  /\ call \in [line : Lines, set : BOOLEAN] /\ value \subseteq Own(call.line)
  /\ g_ticks \in 0 .. TickMod - 1 /\ target \in 0 .. TickMod - 1
  /\ ms \in Sleeps \cup {0} /\ begun \in BOOLEAN /\ slept \in 0 .. TickMod

(* Whenever the program runs no line is left in service, spurious requests *)
(* and requests of the second controller included: a line left there would *)
(* block itself and all below it for ever (pic_send_eoi, idt.c:66-69).     *)
NothingInService == pc = "run" => isr = {}

(* A request is never answered by an empty table: lines are masked until   *)
(* they have a routine (idt_init, idt.c:86-88; kernel.c:95-96; pit_init,   *)
(* pit.c:22-24).                                                           *)
NoneUnheard == pc = "dispatch" /\ irq \in isr => irq \in irq_routines

(* Every interrupt is heard, and taken out of service.                     *)
Attended == NothingInService /\ NoneUnheard

(* Every request of an unmasked line is answered, or the line masked       *)
(* (idt.c:66-76).                                                          *)
Served == \A l \in Lines : (pc # "off" /\ l \in irr /\ ~ Masked(l)) ~> (l \notin irr \/ Masked(l))

(* sleep_ms(ms) waits for ms ends of periods, the first of them that of    *)
(* the period it was called in: what is left of that one, however little,  *)
(* and ms - 1 whole milliseconds have passed when it returns.  Called just *)
(* before a tick, sleep_ms(1) returns at once.  A target beyond 2^32 ends  *)
(* the sleep sooner still (pit.c:31-36).                                   *)
NeverEarly ==
  [][Sleeping /\ ~ Sleeping' => ms = 0 \/ (begun /\ slept >= ms - 1) \/ target < ms]_vars

(* sleep_ms returns while the timer is heard; only a target at the very    *)
(* last value of the counter may be missed, between the test and hlt.  No  *)
(* other value is, because at most one tick comes in between: no routine   *)
(* runs for a whole period of the timer (Request).                         *)
SleepEnds ==
  (Sleeping /\ 0 \in irq_routines /\ ~ Masked(0) /\ target # TickMod - 1) ~> ~ Sleeping
=============================================================================
