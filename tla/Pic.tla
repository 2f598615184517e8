-------------------------------- MODULE Pic ---------------------------------
(***************************************************************************)
(* How an interrupt is taken: the two 8259 controllers as idt_init sets    *)
(* them up, the gates and stubs that lead to irq_handler_dispatch, the     *)
(* table of routines and the end-of-interrupt commands (idt.c,             *)
(* isr_stubs.s).  The second controller is on line 2 of the first.         *)
(*                                                                         *)
(* A request is an edge: it is remembered once, masked or not.  The gates  *)
(* are interrupt gates, so nothing interrupts a handler; the processor     *)
(* takes an interrupt before the next instruction of the program.          *)
(***************************************************************************)
EXTENDS Integers

CONSTANT Lines   \* the lines with a device

ASSUME LinesAssumption == Lines \subseteq (0 .. 15) \ {2} /\ {0, 5} \subseteq Lines

Cascade == 2
Spurious == {7, 15}   \* what a controller answers when the request is gone

VARIABLES
  imr,           \* the masked lines
  irr,           \* the lines with a request that is not yet answered
  isr,           \* the lines in service
  irq_routines,  \* the lines with a routine
  pc,            \* "off" before sti, "run" in the program, else the statement
                 \* of irq_handler_dispatch or pic_send_eoi that comes next
  irq,           \* its argument
  quiet          \* the lines answered since the program last took a step

pic == <<imr, irr, isr, irq_routines, pc, irq, quiet>>

(* A device that is served sends its next request only after the program   *)
(* has run: handlers take a small part of the time.                        *)
Request(l) ==
  /\ l \notin quiet
  /\ irr' = irr \cup {l}
  /\ UNCHANGED <<imr, isr, irq_routines, pc, irq, quiet>>

-----------------------------------------------------------------------------
(* The controllers: fully nested, non-specific end of interrupt.           *)
Own(l) == {k \in Lines \cup {Cascade} : (k < 8) = (l < 8)}
Level(l) == IF l < 8 THEN l ELSE Cascade
Masked(l) == l \in imr \/ (l >= 8 /\ Cascade \in imr)
Blocked(l) == \E s \in isr : s <= (IF s < 8 THEN Level(l) ELSE l)
Ready == {l \in irr : ~ Masked(l) /\ ~ Blocked(l)}
Before(l, k) == Level(l) < Level(k) \/ (Level(l) = Level(k) /\ l <= k)

Answer(l) ==
  /\ pc = "run"
  /\ irq' = l /\ pc' = "dispatch"
  /\ quiet' = quiet \cup {l}
  /\ UNCHANGED <<imr, irq_routines>>
Accept(l) ==
  /\ l \in Ready /\ \A k \in Ready : Before(l, k)
  /\ irr' = irr \ {l} /\ isr' = isr \cup {l, Level(l)}
  /\ Answer(l)
(* The request was withdrawn: of the controller it came from, no line is   *)
(* in service.                                                             *)
AcceptSpurious(l) ==
  /\ Ready = {} /\ l \notin quiet /\ ~ (l = 15 /\ Cascade \in imr)
  /\ isr' = isr \cup ({Level(l)} \ {l}) /\ UNCHANGED irr
  /\ Answer(l)

-----------------------------------------------------------------------------
(* irq_handler_dispatch, after the routine, and pic_send_eoi.              *)
pic_send_eoi_MasterOnly == "eoi1"
pic_send_eoi == IF irq >= 8 THEN "eoi2" ELSE "eoi1"
Dispatch ==
  /\ pc = "dispatch" /\ pc' = pic_send_eoi
  /\ UNCHANGED <<imr, irr, isr, irq_routines, irq, quiet>>
Eoi(controller) == isr' = isr \ {s \in controller : \A k \in isr \cap controller : s <= k}
Eoi2 ==
  /\ pc = "eoi2" /\ Eoi(Own(8)) /\ pc' = "eoi1"
  /\ UNCHANGED <<imr, irr, irq_routines, irq, quiet>>
(* The command to the first controller, and iret.                          *)
Eoi1 ==
  /\ pc = "eoi1" /\ Eoi(Own(0)) /\ pc' = "run" /\ irq' = 0
  /\ UNCHANGED <<imr, irr, irq_routines, quiet>>

-----------------------------------------------------------------------------
(* What the program does to them.  Nothing of idt_init is interrupted:     *)
(* sti is its last statement, and the remap drops what was requested.      *)
idt_init ==
  /\ pc = "off" /\ pc' = "run"
  /\ imr' = Lines /\ irr' = {} /\ isr' = {}
  /\ UNCHANGED <<irq_routines, irq, quiet>>
Runs == pc = "run" /\ Ready = {} /\ quiet' = {} /\ UNCHANGED <<irr, isr, pc, irq>>
irq_install_handler(l)   == Runs /\ irq_routines' = irq_routines \cup {l} /\ UNCHANGED imr
irq_uninstall_handler(l) == Runs /\ irq_routines' = irq_routines \ {l} /\ UNCHANGED imr
ElseRuns == Runs /\ UNCHANGED <<imr, irq_routines>>
SetPort(l, value) == Runs /\ imr' = (imr \ Own(l)) \cup value /\ UNCHANGED irq_routines

PicInit ==
  /\ imr \in SUBSET (Lines \cup {Cascade}) /\ irr \in SUBSET Lines /\ isr = {}
  /\ irq_routines = {} /\ pc = "off" /\ irq = 0 /\ quiet = {}
PicTypeOK ==
  /\ imr \subseteq Lines \cup {Cascade} /\ irr \subseteq Lines /\ isr \subseteq Lines \cup {Cascade}
  /\ irq_routines \subseteq Lines
  /\ pc \in {"off", "run", "dispatch", "eoi2", "eoi1"}
  /\ irq \in Lines \cup Spurious /\ quiet \subseteq Lines \cup Spurious
=============================================================================
