------------------------------- MODULE AtaPio -------------------------------
(***************************************************************************)
(* Reading and writing one sector through the ports of an ATA drive,       *)
(* kernel/fat12.c.  Every access to a port is a step, the drive works      *)
(* beside the driver, and the audio interrupt, which reads sectors itself, *)
(* may come between any two accesses and runs until its read returns.      *)
(***************************************************************************)
EXTENDS Integers

CONSTANTS
  Bytes,      \* values of the ports of a sector number, of which two are kept
  Words,      \* the last of the words 0 .. Words of a sector
  ReadPolls,  \* turns of the polling loop: 1000 in the code
  WritePolls, \* 100000 in the code
  Asked       \* the sectors the shell and the interrupt handler ask for

ASSUME AtaAssumption ==
  /\ Bytes # {} /\ Words \in Nat /\ ReadPolls \in Nat \ {0} /\ WritePolls \in Nat \ {0}
  /\ \A c \in {"shell", "irq"} : Asked[c] \subseteq Bytes \X Bytes

Sectors == Bytes \X Bytes
Index == 0 .. Words
(* What a word is: of which sector, and whether it was written since.      *)
Old(l) == [i \in Index |-> <<"old", l, i>>]
New(l) == [i \in Index |-> <<"new", l, i>>]
Junk == <<"junk">>
Word == {"old", "new"} \X Sectors \X Index
Contents == [Index -> Word \cup {Junk}]

VARIABLES
  disk,   \* the sectors
  port,   \* the ports that hold a sector number: low and high byte
  drive,  \* the command the drive is at, its sector, the next word, its buffer
  error,  \* the ERR bit
  call,   \* the call of the shell and of the interrupt handler
  trouble \* history: "failed", the drive did since the shell's call began;
          \* "late", it still was at a command when a polling loop ended

vars == <<disk, port, drive, error, call, trouble>>

Callers == {"shell", "irq"}
NoCall == [op |-> "none", lba |-> CHOOSE l \in Sectors : TRUE, pc |-> "idle", n |-> 0, buf |-> [i \in Index |-> Junk], ret |-> "none"]
Idle == [phase |-> "ready", lba |-> CHOOSE l \in Sectors : TRUE, ptr |-> 0, buf |-> [i \in Index |-> Junk]]

Init ==
  /\ disk = [l \in Sectors |-> Old(l)]
  /\ port = CHOOSE l \in Sectors : TRUE
  /\ drive = Idle
  /\ error = FALSE
  /\ call = [c \in Callers |-> NoCall]
  /\ trouble = {}

BSY == drive.phase \in {"read", "prepare", "write"}
DRQ == drive.phase \in {"data_out", "data_in"}

-----------------------------------------------------------------------------
(* The drive: it fetches a sector, makes ready to take one, or stores it.  *)
DriveFetch ==
  /\ drive.phase = "read"
  /\ drive' = [drive EXCEPT !.phase = "data_out", !.ptr = 0, !.buf = disk[drive.lba]]
  /\ UNCHANGED <<disk, port, error, call>>
DrivePrepare ==
  /\ drive.phase = "prepare"
  /\ drive' = [drive EXCEPT !.phase = "data_in", !.ptr = 0]
  /\ UNCHANGED <<disk, port, error, call>>
DriveStore ==
  /\ drive.phase = "write"
  /\ disk' = [disk EXCEPT ![drive.lba] = drive.buf]
  /\ drive' = Idle
  /\ UNCHANGED <<port, error, call>>
DriveFails ==
  /\ BSY
  /\ drive' = Idle /\ error' = TRUE
  /\ UNCHANGED <<disk, port, call>>
Drive == DriveFetch \/ DrivePrepare \/ DriveStore \/ DriveFails

-----------------------------------------------------------------------------
(* Whose turn it is: the handler runs until it returns.                    *)
Runs(c) == call[c].pc # "idle" /\ (c = "shell" => call["irq"].pc = "idle")
Call(op, l) == [NoCall EXCEPT !.op = op, !.lba = l, !.pc = "wait", !.buf = IF op = "write" THEN New(l) ELSE @]

Begin(op, l) ==
  /\ call["shell"].pc = "idle" /\ call["irq"].pc = "idle"
  /\ call' = [call EXCEPT !["shell"] = Call(op, l)]
  /\ UNCHANGED <<disk, port, drive, error>>
Interrupt(l) ==
  /\ call["irq"].pc = "idle"
  /\ call' = [call EXCEPT !["irq"] = Call("read", l)]
  /\ UNCHANGED <<disk, port, drive, error>>

Goto(c, pc) == call' = [call EXCEPT ![c].pc = pc]
Return(c, r) == call' = [call EXCEPT ![c].pc = "idle", ![c].n = 0, ![c].ret = r]

(* while (inb(0x1F7) & 0x80);                                              *)
WaitReady_NoData(c) ==
  /\ Runs(c) /\ call[c].pc = "wait"
  /\ IF BSY \/ DRQ THEN UNCHANGED call ELSE Goto(c, "low")
  /\ UNCHANGED <<disk, port, drive, error>>
WaitReady(c) ==
  /\ Runs(c) /\ call[c].pc = "wait" /\ ~ BSY
  /\ Goto(c, "low")
  /\ UNCHANGED <<disk, port, drive, error>>
(* The ports of the sector number, which a busy drive ignores.             *)
SetLow(c) ==
  /\ Runs(c) /\ call[c].pc = "low"
  /\ port' = IF BSY THEN port ELSE <<call[c].lba[1], port[2]>>
  /\ Goto(c, "high")
  /\ UNCHANGED <<disk, drive, error>>
SetHigh_Forgets(c) ==
  /\ Runs(c) /\ call[c].pc = "high"
  /\ Goto(c, "command")
  /\ UNCHANGED <<disk, port, drive, error>>
SetHigh(c) ==
  /\ Runs(c) /\ call[c].pc = "high"
  /\ port' = IF BSY THEN port ELSE <<port[1], call[c].lba[2]>>
  /\ Goto(c, "command")
  /\ UNCHANGED <<disk, drive, error>>
(* A command is ignored by a busy drive, and may be by one that has data   *)
(* to transfer.                                                            *)
Command(c) ==
  /\ Runs(c) /\ call[c].pc = "command"
  /\ \/ /\ ~ BSY
        /\ drive' = [Idle EXCEPT !.phase = IF call[c].op = "read" THEN "read" ELSE "prepare", !.lba = port]
        /\ error' = FALSE
     \/ /\ BSY \/ DRQ
        /\ UNCHANGED <<drive, error>>
  /\ Goto(c, "poll")
  /\ UNCHANGED <<disk, port>>

(* The polling loops: reads look for data first, writes for an error.      *)
Polls(c) == IF call[c].op = "read" THEN ReadPolls ELSE WritePolls
Seen(c) == DRQ /\ ~ (call[c].op = "write" /\ error)
PollData(c) ==
  /\ Runs(c) /\ call[c].pc = "poll" /\ Seen(c)
  /\ call' = [call EXCEPT ![c].pc = "data", ![c].n = 0]
  /\ UNCHANGED <<disk, port, drive, error>>
PollError(c) ==
  /\ Runs(c) /\ call[c].pc = "poll" /\ ~ Seen(c) /\ error
  /\ Return(c, "failed")
  /\ UNCHANGED <<disk, port, drive, error>>
PollAgain_OnceMore(c) ==
  /\ Runs(c) /\ call[c].pc = "poll" /\ ~ Seen(c) /\ ~ error
  /\ IF call[c].n < Polls(c)
     THEN call' = [call EXCEPT ![c].n = @ + 1]
     ELSE Return(c, "nothing")
  /\ UNCHANGED <<disk, port, drive, error>>
PollAgain(c) ==
  /\ Runs(c) /\ call[c].pc = "poll" /\ ~ Seen(c) /\ ~ error
  /\ IF call[c].n + 1 < Polls(c)
     THEN call' = [call EXCEPT ![c].n = @ + 1]
     ELSE Return(c, IF call[c].op = "read" THEN "nothing" ELSE "failed")
  /\ UNCHANGED <<disk, port, drive, error>>

(* inw and outw of word n.                                                 *)
NextWord(c, buf) ==
  [call[c] EXCEPT !.buf = buf, !.n = IF @ = Words THEN 0 ELSE @ + 1,
                  !.pc = IF call[c].n < Words THEN "data" ELSE IF call[c].op = "read" THEN "idle" ELSE "flush",
                  !.ret = IF call[c].n = Words /\ call[c].op = "read" THEN "done" ELSE @]
ReadWord(c) ==
  LET word == IF drive.phase = "data_out" THEN drive.buf[drive.ptr] ELSE Junk IN
  /\ Runs(c) /\ call[c].pc = "data" /\ call[c].op = "read"
  /\ drive' = IF drive.phase # "data_out" THEN drive
              ELSE IF drive.ptr = Words THEN Idle ELSE [drive EXCEPT !.ptr = @ + 1]
  /\ call' = [call EXCEPT ![c] = NextWord(c, [call[c].buf EXCEPT ![call[c].n] = word])]
  /\ UNCHANGED <<disk, port, error>>
WriteWord(c) ==
  /\ Runs(c) /\ call[c].pc = "data" /\ call[c].op = "write"
  /\ drive' = IF drive.phase # "data_in" THEN drive
              ELSE [drive EXCEPT !.buf[drive.ptr] = call[c].buf[call[c].n],
                                 !.phase = IF drive.ptr = Words THEN "write" ELSE @,
                                 !.ptr = IF drive.ptr = Words THEN 0 ELSE @ + 1]
  /\ call' = [call EXCEPT ![c] = NextWord(c, call[c].buf)]
  /\ UNCHANGED <<disk, port, error>>

(* The flush command comes while the drive is storing the sector and is    *)
(* then ignored; the wait after it ends when the drive is ready, and       *)
(* nobody looks at the error bit again.                                    *)
Flush(c) ==
  /\ Runs(c) /\ call[c].pc = "flush"
  /\ \/ ~ BSY /\ drive' = Idle /\ error' = FALSE
     \/ (BSY \/ DRQ) /\ UNCHANGED <<drive, error>>
  /\ Goto(c, "drain")
  /\ UNCHANGED <<disk, port>>
Drain_Not(c) ==
  /\ Runs(c) /\ call[c].pc = "drain"
  /\ Return(c, "done")
  /\ UNCHANGED <<disk, port, drive, error>>
Drain(c) ==
  /\ Runs(c) /\ call[c].pc = "drain" /\ ~ BSY
  /\ Return(c, "done")
  /\ UNCHANGED <<disk, port, drive, error>>

Step(c) ==
  \/ WaitReady(c) \/ SetLow(c) \/ SetHigh(c) \/ Command(c)
  \/ PollData(c) \/ PollError(c) \/ PollAgain(c)
  \/ ReadWord(c) \/ WriteWord(c) \/ Flush(c) \/ Drain(c)

GivesUp(c) == call[c].pc = "poll" /\ call'[c].pc = "idle" /\ ~ error
Remember ==
  trouble' = (trouble \ {t \in {"failed"} : call["shell"].pc = "idle" /\ call'["shell"].pc # "idle"})
               \cup {t \in {"failed"} : error' /\ ~ error}
               \cup {t \in {"late"} : BSY /\ \E c \in Callers : GivesUp(c)}
Next ==
  /\ \/ \E op \in {"read", "write"}, l \in Asked["shell"] : Begin(op, l)
     \/ \E l \in Asked["irq"] : Interrupt(l)
     \/ \E c \in Callers : Step(c)
     \/ Drive
  /\ Remember

Spec == Init /\ [][Next]_vars
(* The processor runs on, and the drive answers in the end.                *)
FairSpec == Spec /\ (\A c \in Callers : WF_vars(Step(c) /\ Remember)) /\ WF_vars(Drive /\ Remember)

-----------------------------------------------------------------------------
CallType ==
  [op : {"none", "read", "write"}, lba : Sectors, n : Nat,
   pc : {"idle", "wait", "low", "high", "command", "poll", "data", "flush", "drain"},
   buf : Contents, ret : {"none", "done", "failed", "nothing"}]
TypeOK ==
  /\ disk \in [Sectors -> Contents]
  /\ port \in Sectors
  /\ drive \in [phase : {"ready", "read", "prepare", "write", "data_out", "data_in"}, lba : Sectors, ptr : Index, buf : Contents]
  /\ error \in BOOLEAN /\ trouble \subseteq {"failed", "late"}
  /\ call \in [Callers -> CallType]
  /\ \A c \in Callers : call[c].pc = "poll" => call[c].n < Polls(c)

(* Before the first song plays, and as long as the drive answers within    *)
(* the limits of the polling loops, a read that delivers a sector delivers *)
(* the one it was asked for, also after calls that failed (read_sector_ex, *)
(* fat12.c:17-41).                                                         *)
Delivered(c) == call[c].pc = "idle" /\ call[c].ret = "done"
Quiet == call["irq"].op = "none" /\ "late" \notin trouble
ReadsTheSector ==
  \A c \in Callers :
    Quiet /\ Delivered(c) /\ call[c].op = "read" => call[c].buf = disk[call[c].lba]

(* A write that returns 1 has stored its sector, if the drive did not fail *)
(* (write_sector_ex, fat12.c:43-71).                                       *)
WritesTheSector ==
  \A c \in Callers :
    Quiet /\ "failed" \notin trouble /\ Delivered(c) /\ call[c].op = "write" => disk[call[c].lba] = call[c].buf

(* Up to the first song and the first late answer, what is called read or  *)
(* written was.  FatTable and Fat32 suppose just this of the calls that    *)
(* succeed.  Those that fail are failing steps there, reads and writes in  *)
(* FatTable, writes in Fat32.                                              *)
Delivers == ReadsTheSector /\ WritesTheSector

(* Before the first song plays, and as long as the drive answers within    *)
(* the limits of the polling loops: the disk changes only in the sector of *)
(* the write that runs, and only to the whole of what is written there,    *)
(* whatever command failed.  A song's reads move a write of the shell's to *)
(* another sector, and the sector of a late answer may be taken for the    *)
(* next: of both nothing is promised (write_sector_ex, fat12.c:43-71).     *)
OnlyAsked ==
  [][\A l \in Sectors : Quiet /\ disk'[l] # disk[l] =>
       /\ call["shell"].op = "write" /\ call["shell"].lba = l /\ call["shell"].pc # "idle"
       /\ disk'[l] = call["shell"].buf]_vars

(* No call waits for the drive for ever, however often it fails or is late *)
(* and whatever the call before left behind (the loops of fat12.c:18, 26,  *)
(* 53 and 66): not the shell's, until the first song interrupts it, and    *)
(* not the interrupt handler's, in the middle of whatever call it came:    *)
(* with interrupts off nobody would end its wait (sound.c:206-222).        *)
CallsReturn ==
  /\ (call["shell"].pc # "idle") ~> (call["shell"].pc = "idle" \/ call["irq"].op # "none")
  /\ (call["irq"].pc # "idle") ~> (call["irq"].pc = "idle")
=============================================================================
