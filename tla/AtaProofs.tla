----------------------------- MODULE AtaProofs ------------------------------
(***************************************************************************)
(* The sector functions read and write the sector they are asked for until *)
(* the first song plays or the first answer comes late, for sectors of any *)
(* length, any limits of the polling loops and a drive that fails whenever *)
(* it likes.                                                               *)
(***************************************************************************)
EXTENDS AtaPio, TLAPS

(* The driver and the drive while nobody interrupts the shell.             *)
Follows ==
  LET s == call["shell"]  l == s.lba IN
  /\ s.pc \in {"idle", "wait", "low", "high", "command"} => drive.phase = "ready"
  /\ s.pc = "high" => port[1] = l[1]
  /\ s.pc = "command" => port = l
  /\ s.pc = "poll" =>
       \/ drive.phase = "ready" /\ error
       \/ /\ s.op = "read" /\ drive.lba = l
          /\ drive.phase = "read" \/ (drive.phase = "data_out" /\ drive.ptr = 0 /\ drive.buf = disk[l])
       \/ /\ s.op = "write" /\ drive.lba = l
          /\ drive.phase = "prepare" \/ (drive.phase = "data_in" /\ drive.ptr = 0)
  /\ s.pc = "data" /\ s.op = "read" =>
       /\ drive.phase = "data_out" /\ drive.lba = l /\ drive.ptr = s.n /\ drive.buf = disk[l]
       /\ \A i \in Index : i < s.n => s.buf[i] = disk[l][i]
  /\ s.pc = "data" /\ s.op = "write" =>
       /\ drive.phase = "data_in" /\ drive.lba = l /\ drive.ptr = s.n
       /\ \A i \in Index : i < s.n => drive.buf[i] = s.buf[i]
  /\ s.pc \in {"flush", "drain"} =>
       /\ s.op = "write"
       /\ \/ drive.phase = "write" /\ drive.lba = l /\ drive.buf = s.buf
          \/ drive.phase = "ready" /\ (disk[l] = s.buf \/ "failed" \in trouble)
  /\ s.pc = "idle" /\ s.ret = "done" =>
       /\ s.op = "read" => s.buf = disk[l]
       /\ s.op = "write" => disk[l] = s.buf \/ "failed" \in trouble

Counts ==
  \A c \in Callers :
    /\ call[c].pc \in {"wait", "low", "high", "command"} => call[c].n = 0
    /\ call[c].pc = "data" => call[c].n \in Index
    /\ call[c].pc # "idle" => call[c].op # "none"
Typed == TypeOK /\ Counts

(* The drive reports an error only when it has stopped.                    *)
Stopped == error => drive.phase = "ready"

Inv == Typed /\ Stopped /\ (Quiet => Follows)

LEMMA Constants_ ==
  /\ Bytes # {} /\ Words \in Nat /\ ReadPolls \in Nat \ {0} /\ WritePolls \in Nat \ {0}
  /\ \A c \in Callers : Asked[c] \subseteq Sectors
  /\ 0 \in Index /\ Words \in Index /\ Index \subseteq Nat /\ Callers = {"shell", "irq"}
BY AtaAssumption DEF Callers, Sectors, Index

LEMMA ASector == (CHOOSE l \in Sectors : TRUE) \in Sectors
<1>1. PICK b \in Bytes : TRUE
  BY Constants_
<1>2. <<b, b>> \in Sectors
  BY <1>1 DEF Sectors
<1> QED BY <1>2

LEMMA SectorContents ==
  /\ [i \in Index |-> Junk] \in Contents
  /\ \A l \in Sectors : Old(l) \in Contents /\ New(l) \in Contents
BY DEF Contents, Word, Old, New

(* Words of sectors stay words of sectors.                                 *)
LEMMA OneWord ==
  ASSUME NEW f \in Contents, NEW g \in Contents, NEW i \in Index, NEW j \in Index
  PROVE  [f EXCEPT ![i] = g[j]] \in Contents /\ [f EXCEPT ![i] = Junk] \in Contents
BY DEF Contents

LEMMA Calls_ ==
  ASSUME NEW op \in {"read", "write"}, NEW l \in Sectors
  PROVE  /\ Call(op, l) \in CallType /\ NoCall \in CallType
         /\ Call(op, l).pc = "wait" /\ Call(op, l).n = 0 /\ Call(op, l).op = op /\ Call(op, l).lba = l
         /\ Call(op, l).ret = "none"
BY ASector, SectorContents DEF Call, NoCall, CallType

LEMMA IdleType == Idle \in [phase : {"ready", "read", "prepare", "write", "data_out", "data_in"}, lba : Sectors, ptr : Index, buf : Contents]
                  /\ Idle.phase = "ready" /\ Idle.ptr = 0
BY ASector, SectorContents, Constants_ DEF Idle

-----------------------------------------------------------------------------
LEMMA InitInv == Init => Inv
<1> SUFFICES ASSUME Init PROVE Inv
  OBVIOUS
<1>1. NoCall \in CallType /\ NoCall.pc = "idle" /\ NoCall.ret = "none"
  BY ASector, SectorContents DEF NoCall, CallType
<1>2. TypeOK
  BY <1>1, ASector, SectorContents, IdleType DEF Init, TypeOK
<1>3. Counts /\ Stopped
  BY <1>1 DEF Init, Counts, Stopped
<1>4. Follows
  BY <1>1, IdleType, Constants_ DEF Init, Follows
<1> QED BY <1>2, <1>3, <1>4 DEF Inv, Typed

-----------------------------------------------------------------------------
(* The values of the variables.                                            *)
DriveType == [phase : {"ready", "read", "prepare", "write", "data_out", "data_in"}, lba : Sectors, ptr : Index, buf : Contents]

LEMMA Remembered == TypeOK /\ Remember => trouble' \subseteq {"failed", "late"}
BY DEF TypeOK, Remember

(* A call goes on as k.                                                    *)
GoesOn(c, k) ==
  /\ k \in CallType /\ call' = [call EXCEPT ![c] = k]
  /\ k.pc \in {"wait", "low", "high", "command"} => k.n = 0
  /\ k.pc = "data" => k.n \in Index
  /\ k.pc # "idle" => k.op # "none"
  /\ k.pc = "poll" => k.n < IF k.op = "read" THEN ReadPolls ELSE WritePolls

LEMMA TypedCall ==
  ASSUME Typed, Remember, NEW c \in Callers, NEW k, GoesOn(c, k), UNCHANGED disk,
         port' \in Sectors, drive' \in DriveType, error' \in BOOLEAN
  PROVE  Typed' /\ call'[c] = k /\ \A d \in Callers : d # c => call'[d] = call[d]
<1>1. call'[c] = k /\ \A d \in Callers : d # c => call'[d] = call[d]
  BY DEF Typed, TypeOK, GoesOn
<1>2. Counts'
  BY <1>1 DEF Typed, Counts, GoesOn
<1>3. \A d \in Callers : call'[d].pc = "poll" => call'[d].n < Polls(d)'
  BY <1>1 DEF Typed, TypeOK, GoesOn, Polls
<1>4. TypeOK'
  BY <1>3, Remembered DEF Typed, TypeOK, GoesOn, DriveType
<1> QED BY <1>1, <1>2, <1>4 DEF Typed

LEMMA CallTyped ==
  ASSUME Typed, NEW c \in Callers
  PROVE  /\ call[c] \in CallType /\ call[c].lba \in Sectors /\ call[c].buf \in Contents /\ call[c].n \in Nat
         /\ port \in Sectors /\ drive \in DriveType /\ error \in BOOLEAN
BY DEF Typed, TypeOK, CallType, DriveType

LEMMA BeginTyped ==
  ASSUME Typed, Remember, NEW op \in {"read", "write"}, NEW l \in Sectors, Begin(op, l)
  PROVE  Typed' /\ call'["shell"] = Call(op, l) /\ call'["irq"] = call["irq"]
<1>1. GoesOn("shell", Call(op, l))
  BY Calls_ DEF Begin, GoesOn
<1> QED BY <1>1, TypedCall, CallTyped DEF Begin, Callers

LEMMA InterruptTyped ==
  ASSUME Typed, Remember, NEW l \in Sectors, Interrupt(l)
  PROVE  Typed' /\ call'["irq"].op = "read"
<1>1. GoesOn("irq", Call("read", l))
  BY Calls_ DEF Interrupt, GoesOn
<1> QED BY <1>1, TypedCall, CallTyped, Calls_ DEF Interrupt, Callers

LEMMA GotoTyped ==
  ASSUME Typed, Remember, NEW c \in Callers, call[c].pc # "idle", UNCHANGED disk,
         NEW pc \in {"low", "high", "command", "poll", "drain"}, call[c].n = 0 \/ pc = "drain", Goto(c, pc),
         port' \in Sectors, drive' \in DriveType, error' \in BOOLEAN
  PROVE  Typed' /\ call'[c] = [call[c] EXCEPT !.pc = pc] /\ \A d \in Callers : d # c => call'[d] = call[d]
<1>1. call[c].op # "none"
  BY DEF Typed, Counts
<1>2. GoesOn(c, [call[c] EXCEPT !.pc = pc])
  BY <1>1, CallTyped, Constants_ DEF Goto, GoesOn, CallType, Typed, TypeOK
<1> QED BY <1>2, TypedCall

LEMMA ReturnTyped ==
  ASSUME Typed, Remember, NEW c \in Callers, UNCHANGED <<disk, port, drive, error>>,
         NEW r \in {"done", "failed", "nothing"}, Return(c, r)
  PROVE  /\ Typed' /\ call'[c] = [call[c] EXCEPT !.pc = "idle", !.n = 0, !.ret = r]
         /\ \A d \in Callers : d # c => call'[d] = call[d]
<1>1. GoesOn(c, [call[c] EXCEPT !.pc = "idle", !.n = 0, !.ret = r])
  BY CallTyped DEF Return, GoesOn, CallType, Typed, TypeOK
<1> QED BY <1>1, TypedCall, CallTyped

-----------------------------------------------------------------------------
(* Who takes a step while nobody interrupts the shell.                     *)
LEMMA OnlyShell ==
  ASSUME Inv, Remember, NEW c \in Callers, Runs(c), call'[c].op = call[c].op,
         \A d \in Callers : d # c => call'[d] = call[d], Quiet'
  PROVE  c = "shell" /\ Quiet /\ Follows /\ ("failed" \in trouble => "failed" \in trouble')
<1>1. c = "shell"
  BY Constants_ DEF Inv, Typed, Counts, Runs, Quiet
<1>2. Quiet
  BY <1>1, Constants_ DEF Quiet, Remember
<1>3. "failed" \in trouble => "failed" \in trouble'
  BY <1>1 DEF Remember, Runs
<1> QED BY <1>1, <1>2, <1>3 DEF Inv

LEMMA BeginInv ==
  ASSUME Inv, Remember, NEW op \in {"read", "write"}, NEW l \in Sectors, Begin(op, l)
  PROVE  Inv'
<1>1. Typed' /\ call'["shell"] = Call(op, l) /\ call'["irq"] = call["irq"] /\ UNCHANGED <<disk, port, drive, error>>
  BY BeginTyped DEF Inv, Begin
<1>2. Stopped'
  BY <1>1 DEF Inv, Stopped
<1>3. ASSUME Quiet' PROVE Follows'
  <2>1. Follows
    BY <1>1, <1>3 DEF Inv, Quiet, Remember
  <2>2. drive.phase = "ready"
    BY <2>1 DEF Follows, Begin
  <2> QED BY <1>1, <2>2, Calls_ DEF Follows
<1> QED BY <1>1, <1>2, <1>3 DEF Inv

LEMMA InterruptInv ==
  ASSUME Inv, Remember, NEW l \in Sectors, Interrupt(l)
  PROVE  Inv'
<1>1. Typed' /\ call'["irq"].op = "read" /\ UNCHANGED <<drive, error>>
  BY InterruptTyped DEF Inv, Interrupt
<1> QED BY <1>1 DEF Inv, Stopped, Quiet

LEMMA PortsInv ==
  ASSUME Inv, Remember, NEW c \in Callers, WaitReady(c) \/ SetLow(c) \/ SetHigh(c)
  PROVE  Inv'
<1>t. /\ call[c] \in CallType /\ call[c].lba \in Sectors /\ port \in Sectors /\ drive \in DriveType /\ error \in BOOLEAN
  BY CallTyped DEF Inv
<1>1. /\ Runs(c) /\ call[c].pc \in {"wait", "low", "high"} /\ UNCHANGED <<disk, drive, error>>
      /\ \E pc \in {"low", "high", "command"} : Goto(c, pc)
  BY DEF WaitReady, SetLow, SetHigh
<1>2. PICK pc \in {"low", "high", "command"} :
        /\ Goto(c, pc)
        /\ pc = "high" => port' = IF BSY THEN port ELSE <<call[c].lba[1], port[2]>>
        /\ pc = "command" => call[c].pc = "high" /\ port' = IF BSY THEN port ELSE <<port[1], call[c].lba[2]>>
        /\ pc = "low" => port' = port
  BY DEF WaitReady, SetLow, SetHigh
<1>3. port' \in Sectors
  BY <1>t, <1>2 DEF Sectors
<1>4. Typed' /\ call'[c] = [call[c] EXCEPT !.pc = pc] /\ \A d \in Callers : d # c => call'[d] = call[d]
  <2>1. call[c].n = 0
    BY <1>1 DEF Inv, Typed, Counts
  <2> QED BY <1>t, <1>1, <1>2, <1>3, <2>1, GotoTyped DEF Inv
<1>5. call'[c].op = call[c].op /\ call'[c].lba = call[c].lba /\ call'[c].pc = pc
  BY <1>t, <1>4 DEF CallType
<1>6. Stopped'
  BY <1>1 DEF Inv, Stopped
<1>7. ASSUME Quiet' PROVE Follows'
  <2>1. c = "shell" /\ Follows
    BY <1>1, <1>4, <1>5, <1>7, OnlyShell
  <2>2. drive.phase = "ready" /\ ~ BSY
    BY <1>1, <2>1 DEF Follows, BSY
  <2>3. pc = "high" => port'[1] = call[c].lba[1]
    BY <1>t, <1>2, <2>2 DEF Sectors
  <2>4. pc = "command" => port' = call[c].lba
    BY <1>t, <1>2, <2>1, <2>2 DEF Sectors, Follows
  <2> QED BY <1>1, <1>5, <2>1, <2>2, <2>3, <2>4 DEF Follows
<1> QED BY <1>4, <1>6, <1>7 DEF Inv

LEMMA CommandInv ==
  ASSUME Inv, Remember, NEW c \in Callers, Command(c)
  PROVE  Inv'
<1>t. /\ call[c] \in CallType /\ call[c].lba \in Sectors /\ port \in Sectors /\ drive \in DriveType /\ error \in BOOLEAN
  BY CallTyped DEF Inv
<1>1. /\ Runs(c) /\ call[c].pc = "command" /\ Goto(c, "poll") /\ UNCHANGED <<disk, port>>
      /\ \/ /\ drive' = [Idle EXCEPT !.phase = IF call[c].op = "read" THEN "read" ELSE "prepare", !.lba = port]
            /\ error' = FALSE
         \/ (BSY \/ DRQ) /\ UNCHANGED <<drive, error>>
  BY DEF Command
<1>2. drive' \in DriveType /\ error' \in BOOLEAN
  BY <1>t, <1>1, IdleType DEF DriveType
<1>3. call[c].n = 0
  BY <1>1 DEF Inv, Typed, Counts
<1>4. Typed' /\ call'[c] = [call[c] EXCEPT !.pc = "poll"] /\ \A d \in Callers : d # c => call'[d] = call[d]
  BY <1>t, <1>1, <1>2, <1>3, GotoTyped DEF Inv
<1>5. call'[c].op = call[c].op /\ call'[c].lba = call[c].lba /\ call'[c].pc = "poll"
  BY <1>t, <1>4 DEF CallType
<1>6. Stopped'
  BY <1>1 DEF Inv, Stopped
<1>7. ASSUME Quiet' PROVE Follows'
  <2>1. c = "shell" /\ Follows
    BY <1>1, <1>4, <1>5, <1>7, OnlyShell
  <2>2. drive.phase = "ready" /\ port = call[c].lba
    BY <1>1, <2>1 DEF Follows
  <2>3. drive'.phase = (IF call[c].op = "read" THEN "read" ELSE "prepare") /\ drive'.lba = call[c].lba
    BY <1>1, <2>2, IdleType DEF BSY, DRQ
  <2>4. call[c].op \in {"read", "write"}
    BY <1>t, <1>1 DEF CallType, Inv, Typed, Counts
  <2> QED BY <1>5, <2>1, <2>3, <2>4 DEF Follows
<1> QED BY <1>4, <1>6, <1>7 DEF Inv

LEMMA PollInv ==
  ASSUME Inv, Remember, NEW c \in Callers, PollData(c) \/ PollError(c) \/ PollAgain(c)
  PROVE  Inv'
<1>t. call[c] \in CallType /\ drive \in DriveType /\ error \in BOOLEAN /\ port \in Sectors
  BY CallTyped DEF Inv
<1>u. UNCHANGED <<disk, port, drive, error>> /\ Runs(c) /\ call[c].pc = "poll"
  BY DEF PollData, PollError, PollAgain
<1>o. call[c].op \in {"read", "write"}
  BY <1>t, <1>u DEF CallType, Inv, Typed, Counts
<1>s. Stopped'
  BY <1>u DEF Inv, Stopped
<1>1. CASE PollData(c)
  <2>1. GoesOn(c, [call[c] EXCEPT !.pc = "data", !.n = 0])
    <3>1. call' = [call EXCEPT ![c] = [call[c] EXCEPT !.pc = "data", !.n = 0]]
      BY <1>1 DEF PollData, Inv, Typed, TypeOK
    <3> QED BY <1>t, <1>o, <3>1, Constants_ DEF GoesOn, CallType
  <2>2. Typed' /\ call'[c] = [call[c] EXCEPT !.pc = "data", !.n = 0] /\ \A d \in Callers : d # c => call'[d] = call[d]
    BY <1>t, <1>u, <2>1, TypedCall DEF Inv
  <2>3. call'[c].op = call[c].op /\ call'[c].lba = call[c].lba /\ call'[c].pc = "data" /\ call'[c].n = 0
    BY <1>t, <2>2 DEF CallType
  <2>4. ASSUME Quiet' PROVE Follows'
    <3>1. c = "shell" /\ Follows
      BY <1>u, <2>2, <2>3, <2>4, OnlyShell
    <3>2. DRQ
      BY <1>1 DEF PollData, Seen
    <3>3. /\ drive.lba = call[c].lba /\ drive.ptr = 0
          /\ call[c].op = "read" => drive.phase = "data_out" /\ drive.buf = disk[call[c].lba]
          /\ call[c].op = "write" => drive.phase = "data_in"
      BY <1>u, <3>1, <3>2 DEF Follows, DRQ
    <3> QED BY <1>u, <2>3, <3>1, <3>3, Constants_ DEF Follows
  <2> QED BY <1>s, <2>2, <2>4 DEF Inv
<1>2. CASE PollError(c)
  <2>1. error /\ Return(c, "failed")
    BY <1>2 DEF PollError
  <2>2. /\ Typed' /\ call'[c] = [call[c] EXCEPT !.pc = "idle", !.n = 0, !.ret = "failed"]
        /\ \A d \in Callers : d # c => call'[d] = call[d]
    BY <1>u, <2>1, ReturnTyped DEF Inv
  <2>3. call'[c].op = call[c].op /\ call'[c].pc = "idle" /\ call'[c].ret = "failed"
    BY <1>t, <2>2 DEF CallType
  <2>4. ASSUME Quiet' PROVE Follows'
    <3>1. c = "shell" /\ Follows
      BY <1>u, <2>2, <2>3, <2>4, OnlyShell
    <3>2. drive.phase = "ready"
      BY <2>1 DEF Inv, Stopped
    <3> QED BY <1>u, <2>3, <3>1, <3>2 DEF Follows
  <2> QED BY <1>s, <2>2, <2>4 DEF Inv
<1>3. CASE PollAgain(c) /\ call[c].n + 1 < Polls(c)
  <2>1. GoesOn(c, [call[c] EXCEPT !.n = call[c].n + 1])
    <3>1. call' = [call EXCEPT ![c] = [call[c] EXCEPT !.n = call[c].n + 1]]
      BY <1>3 DEF PollAgain, Inv, Typed, TypeOK
    <3>2. call[c].n + 1 \in Nat
      BY CallTyped DEF Inv
    <3> QED BY <1>t, <1>o, <1>u, <1>3, <3>1, <3>2 DEF GoesOn, CallType, Polls
  <2>2. Typed' /\ call'[c] = [call[c] EXCEPT !.n = call[c].n + 1] /\ \A d \in Callers : d # c => call'[d] = call[d]
    BY <1>t, <1>u, <2>1, TypedCall DEF Inv
  <2>3. call'[c].op = call[c].op /\ call'[c].lba = call[c].lba /\ call'[c].pc = "poll"
    BY <1>t, <1>u, <2>2 DEF CallType
  <2>4. ASSUME Quiet' PROVE Follows'
    <3>1. c = "shell" /\ Follows
      BY <1>u, <2>2, <2>3, <2>4, OnlyShell
    <3> QED BY <1>u, <2>3, <3>1 DEF Follows
  <2> QED BY <1>s, <2>2, <2>4 DEF Inv
<1>4. CASE PollAgain(c) /\ ~ (call[c].n + 1 < Polls(c))
  <2>1. PICK r \in {"done", "failed", "nothing"} : Return(c, r)
    BY <1>4 DEF PollAgain
  <2>2. /\ Typed' /\ call'[c] = [call[c] EXCEPT !.pc = "idle", !.n = 0, !.ret = r]
        /\ \A d \in Callers : d # c => call'[d] = call[d]
    BY <1>u, <2>1, ReturnTyped DEF Inv
  <2>3. call'[c].op = call[c].op /\ call'[c].pc = "idle"
    BY <1>t, <2>2 DEF CallType
  <2>4. ASSUME Quiet' PROVE FALSE
    <3>1. c = "shell" /\ Quiet /\ Follows
      BY <1>u, <2>2, <2>3, <2>4, OnlyShell
    <3>2. ~ Seen(c) /\ ~ error
      BY <1>4 DEF PollAgain
    <3>3. BSY
      BY <1>u, <1>o, <3>1, <3>2 DEF Follows, Seen, DRQ, BSY
    <3>4. "late" \in trouble'
      BY <1>u, <2>3, <3>2, <3>3 DEF Remember, GivesUp
    <3> QED BY <2>4, <3>4 DEF Quiet
  <2> QED BY <1>s, <2>2, <2>4 DEF Inv
<1> QED BY <1>1, <1>2, <1>3, <1>4

LEMMA ReadWordInv ==
  ASSUME Inv, Remember, NEW c \in Callers, ReadWord(c)
  PROVE  Inv'
<1> DEFINE word == IF drive.phase = "data_out" THEN drive.buf[drive.ptr] ELSE Junk
           buf == [call[c].buf EXCEPT ![call[c].n] = word]
<1>t. /\ call[c] \in CallType /\ call[c].buf \in Contents /\ drive \in DriveType /\ error \in BOOLEAN /\ port \in Sectors
      /\ drive.ptr \in Index /\ drive.buf \in Contents
  BY CallTyped DEF Inv, DriveType
<1>u. /\ UNCHANGED <<disk, port, error>> /\ Runs(c) /\ call[c].pc = "data" /\ call[c].op = "read"
      /\ drive' = IF drive.phase # "data_out" THEN drive
                  ELSE IF drive.ptr = Words THEN Idle ELSE [drive EXCEPT !.ptr = @ + 1]
      /\ call' = [call EXCEPT ![c] = NextWord(c, buf)]
  BY DEF ReadWord
<1>n. call[c].n \in Index
  BY <1>u DEF Inv, Typed, Counts
<1>b. buf \in Contents
  BY <1>t, <1>n, OneWord
<1>d. drive' \in DriveType
  <2>1. drive.ptr # Words => drive.ptr + 1 \in Index
    BY <1>t, Constants_ DEF Index
  <2> QED BY <1>t, <1>u, <2>1, IdleType DEF DriveType
<1>k. /\ NextWord(c, buf) \in CallType
      /\ NextWord(c, buf).buf = buf /\ NextWord(c, buf).op = "read" /\ NextWord(c, buf).lba = call[c].lba
      /\ call[c].n = Words => NextWord(c, buf).pc = "idle"
      /\ call[c].n # Words => NextWord(c, buf).pc = "data" /\ NextWord(c, buf).n = call[c].n + 1
  <2>1. (call[c].n < Words <=> call[c].n # Words) /\ call[c].n + 1 \in Nat
    BY <1>n, Constants_ DEF Index
  <2> HIDE DEF buf
  <2> QED BY <1>t, <1>u, <1>b, <2>1 DEF NextWord, CallType
<1> HIDE DEF buf
<1>1. GoesOn(c, NextWord(c, buf))
  <2>1. call[c].n # Words => call[c].n + 1 \in Index
    BY <1>n, Constants_ DEF Index
  <2> QED BY <1>u, <1>k, <2>1 DEF GoesOn
<1>2. Typed' /\ call'[c] = NextWord(c, buf) /\ \A d \in Callers : d # c => call'[d] = call[d]
  BY <1>u, <1>t, <1>d, <1>1, TypedCall DEF Inv
<1>3. Stopped'
  BY <1>u, IdleType DEF Inv, Stopped
<1>4. ASSUME Quiet' PROVE Follows'
  <2>1. c = "shell" /\ Follows
    BY <1>u, <1>k, <1>2, <1>4, OnlyShell
  <2>2. /\ drive.phase = "data_out" /\ drive.lba = call[c].lba /\ drive.ptr = call[c].n /\ drive.buf = disk[call[c].lba]
        /\ \A i \in Index : i < call[c].n => call[c].buf[i] = disk[call[c].lba][i]
    BY <1>u, <2>1 DEF Follows
  <2>3. \A i \in Index : i < call[c].n + 1 => buf[i] = disk[call[c].lba][i]
    <3>1. buf[call[c].n] = disk[call[c].lba][call[c].n]
      BY <1>t, <1>n, <2>2 DEF buf, Contents
    <3>2. \A i \in Index : i # call[c].n => buf[i] = call[c].buf[i]
      BY <1>t DEF buf, Contents
    <3>3. \A i \in Index : i < call[c].n + 1 => i = call[c].n \/ i < call[c].n
      BY <1>n, Constants_
    <3> QED BY <2>2, <3>1, <3>2, <3>3
  <2>4. CASE call[c].n = Words
    <3>1. \A i \in Index : i < Words + 1
      BY Constants_ DEF Index
    <3>2. \A i \in Index : buf[i] = disk[call[c].lba][i]
      BY <2>3, <2>4, <3>1
    <3>3. buf = disk[call[c].lba]
      BY <1>b, <1>t, <2>2, <3>2 DEF Contents
    <3>4. drive'.phase = "ready"
      BY <1>u, <2>2, <2>4, IdleType
    <3> QED BY <1>u, <1>k, <1>2, <2>1, <2>4, <3>3, <3>4 DEF Follows
  <2>5. CASE call[c].n # Words
    <3>1. /\ drive'.phase = "data_out" /\ drive'.lba = call[c].lba /\ drive'.ptr = call[c].n + 1
          /\ drive'.buf = disk[call[c].lba]
      BY <1>t, <1>u, <2>2, <2>5 DEF DriveType
    <3> QED BY <1>u, <1>k, <1>2, <2>1, <2>3, <2>5, <3>1 DEF Follows
  <2> QED BY <2>4, <2>5
<1> QED BY <1>2, <1>3, <1>4 DEF Inv

LEMMA WriteWordInv ==
  ASSUME Inv, Remember, NEW c \in Callers, WriteWord(c)
  PROVE  Inv'
<1> DEFINE k == NextWord(c, call[c].buf)
           filled == [drive.buf EXCEPT ![drive.ptr] = call[c].buf[call[c].n]]
<1>t. /\ call[c] \in CallType /\ call[c].buf \in Contents /\ drive \in DriveType /\ error \in BOOLEAN /\ port \in Sectors
      /\ drive.ptr \in Index /\ drive.buf \in Contents
  BY CallTyped DEF Inv, DriveType
<1>u. /\ UNCHANGED <<disk, port, error>> /\ Runs(c) /\ call[c].pc = "data" /\ call[c].op = "write"
      /\ call' = [call EXCEPT ![c] = k]
      /\ drive.phase # "data_in" => drive' = drive
      /\ drive.phase = "data_in" =>
           drive' = [drive EXCEPT !.buf = filled,
                                  !.phase = IF drive.ptr = Words THEN "write" ELSE @,
                                  !.ptr = IF drive.ptr = Words THEN 0 ELSE @ + 1]
  BY <1>t DEF WriteWord, DriveType
<1>n. call[c].n \in Index
  BY <1>u DEF Inv, Typed, Counts
<1>b. filled \in Contents
  BY <1>t, <1>n, OneWord
<1>d. drive' \in DriveType
  <2>1. drive.ptr # Words => drive.ptr + 1 \in Index
    BY <1>t, Constants_ DEF Index
  <2> HIDE DEF filled
  <2> QED BY <1>t, <1>u, <1>b, <2>1, Constants_ DEF DriveType
<1>k. /\ k \in CallType /\ k.buf = call[c].buf /\ k.op = "write" /\ k.lba = call[c].lba
      /\ call[c].n = Words => k.pc = "flush"
      /\ call[c].n # Words => k.pc = "data" /\ k.n = call[c].n + 1
  <2>1. (call[c].n < Words <=> call[c].n # Words) /\ call[c].n + 1 \in Nat
    BY <1>n, Constants_ DEF Index
  <2> QED BY <1>t, <1>u, <2>1 DEF NextWord, CallType
<1> HIDE DEF k, filled
<1>1. GoesOn(c, k)
  <2>1. call[c].n # Words => call[c].n + 1 \in Index
    BY <1>n, Constants_ DEF Index
  <2> QED BY <1>u, <1>k, <2>1 DEF GoesOn
<1>2. Typed' /\ call'[c] = k /\ \A d \in Callers : d # c => call'[d] = call[d]
  BY <1>u, <1>t, <1>d, <1>1, TypedCall DEF Inv
<1>3. Stopped'
  BY <1>u DEF Inv, Stopped
<1>4. ASSUME Quiet' PROVE Follows'
  <2>1. c = "shell" /\ Follows
    BY <1>u, <1>k, <1>2, <1>4, OnlyShell
  <2>2. /\ drive.phase = "data_in" /\ drive.lba = call[c].lba /\ drive.ptr = call[c].n
        /\ \A i \in Index : i < call[c].n => drive.buf[i] = call[c].buf[i]
    BY <1>u, <2>1 DEF Follows
  <2>3. \A i \in Index : i < call[c].n + 1 => filled[i] = call[c].buf[i]
    <3>1. filled[call[c].n] = call[c].buf[call[c].n]
      BY <1>t, <1>n, <2>2 DEF filled, Contents
    <3>2. \A i \in Index : i # call[c].n => filled[i] = drive.buf[i]
      BY <1>t, <2>2 DEF filled, Contents
    <3>3. \A i \in Index : i < call[c].n + 1 => i = call[c].n \/ i < call[c].n
      BY <1>n, Constants_
    <3> QED BY <2>2, <3>1, <3>2, <3>3
  <2>4. CASE call[c].n = Words
    <3>1. \A i \in Index : i < Words + 1
      BY Constants_ DEF Index
    <3>2. \A i \in Index : filled[i] = call[c].buf[i]
      BY <2>3, <2>4, <3>1
    <3>3. filled = call[c].buf
      BY <1>b, <1>t, <3>2 DEF Contents
    <3>4. drive'.phase = "write" /\ drive'.lba = call[c].lba /\ drive'.buf = filled
      BY <1>t, <1>u, <2>2, <2>4 DEF DriveType
    <3> QED BY <1>u, <1>k, <1>2, <2>1, <2>4, <3>3, <3>4 DEF Follows
  <2>5. CASE call[c].n # Words
    <3>1. /\ drive'.phase = "data_in" /\ drive'.lba = call[c].lba /\ drive'.ptr = call[c].n + 1
          /\ drive'.buf = filled
      BY <1>t, <1>u, <2>2, <2>5 DEF DriveType
    <3> QED BY <1>u, <1>k, <1>2, <2>1, <2>3, <2>5, <3>1 DEF Follows
  <2> QED BY <2>4, <2>5
<1> QED BY <1>2, <1>3, <1>4 DEF Inv

LEMMA FlushInv ==
  ASSUME Inv, Remember, NEW c \in Callers, Flush(c)
  PROVE  Inv'
<1>t. call[c] \in CallType /\ drive \in DriveType /\ error \in BOOLEAN /\ port \in Sectors
  BY CallTyped DEF Inv
<1>1. /\ Runs(c) /\ call[c].pc = "flush" /\ Goto(c, "drain") /\ UNCHANGED <<disk, port>>
      /\ (~ BSY /\ drive' = Idle /\ error' = FALSE) \/ ((BSY \/ DRQ) /\ UNCHANGED <<drive, error>>)
  BY DEF Flush
<1>2. drive' \in DriveType /\ error' \in BOOLEAN
  BY <1>t, <1>1, IdleType DEF DriveType
<1>3. Typed' /\ call'[c] = [call[c] EXCEPT !.pc = "drain"] /\ \A d \in Callers : d # c => call'[d] = call[d]
  BY <1>t, <1>1, <1>2, GotoTyped DEF Inv
<1>4. UNCHANGED <<call[c].op, call[c].lba, call[c].buf>> /\ call'[c].pc = "drain"
  BY <1>t, <1>3 DEF CallType
<1>5. Stopped'
  BY <1>1 DEF Inv, Stopped
<1>6. ASSUME Quiet' PROVE Follows'
  <2>1. c = "shell" /\ Follows /\ ("failed" \in trouble => "failed" \in trouble')
    BY <1>1, <1>3, <1>4, <1>6, OnlyShell
  <2>2. /\ call[c].op = "write"
        /\ \/ drive.phase = "write" /\ drive.lba = call[c].lba /\ drive.buf = call[c].buf
           \/ drive.phase = "ready" /\ (disk[call[c].lba] = call[c].buf \/ "failed" \in trouble)
    BY <1>1, <2>1 DEF Follows
  <2>3. CASE drive.phase = "write"
    BY <1>1, <1>4, <2>1, <2>2, <2>3 DEF Follows, BSY
  <2>4. CASE drive.phase = "ready"
    <3>1. drive'.phase = "ready"
      BY <1>1, <2>4, IdleType
    <3> QED BY <1>1, <1>4, <2>1, <2>2, <2>4, <3>1 DEF Follows
  <2> QED BY <2>2, <2>3, <2>4
<1> QED BY <1>3, <1>5, <1>6 DEF Inv

LEMMA DrainInv ==
  ASSUME Inv, Remember, NEW c \in Callers, Drain(c)
  PROVE  Inv'
<1>t. call[c] \in CallType
  BY CallTyped DEF Inv
<1>1. Runs(c) /\ call[c].pc = "drain" /\ ~ BSY /\ Return(c, "done") /\ UNCHANGED <<disk, port, drive, error>>
  BY DEF Drain
<1>2. /\ Typed' /\ call'[c] = [call[c] EXCEPT !.pc = "idle", !.n = 0, !.ret = "done"]
      /\ \A d \in Callers : d # c => call'[d] = call[d]
  BY <1>1, ReturnTyped DEF Inv
<1>3. UNCHANGED <<call[c].op, call[c].lba, call[c].buf>> /\ call'[c].pc = "idle"
  BY <1>t, <1>2 DEF CallType
<1>4. Stopped'
  BY <1>1 DEF Inv, Stopped
<1>5. ASSUME Quiet' PROVE Follows'
  <2>1. c = "shell" /\ Follows /\ ("failed" \in trouble => "failed" \in trouble')
    BY <1>1, <1>2, <1>3, <1>5, OnlyShell
  <2>2. call[c].op = "write" /\ drive.phase = "ready" /\ (disk[call[c].lba] = call[c].buf \/ "failed" \in trouble)
    BY <1>1, <2>1 DEF Follows, BSY
  <2> QED BY <1>1, <1>3, <2>1, <2>2 DEF Follows
<1> QED BY <1>2, <1>4, <1>5 DEF Inv

-----------------------------------------------------------------------------
(* The drive stores what it was given where it was told to.                *)
LEMMA StoresTheAsked ==
  ASSUME Inv, Quiet, drive.phase = "write"
  PROVE  /\ call["shell"].pc \in {"flush", "drain"} /\ call["shell"].op = "write"
         /\ drive.lba = call["shell"].lba /\ drive.buf = call["shell"].buf
<1>1. Follows /\ call["shell"] \in CallType
  BY CallTyped, Constants_ DEF Inv
<1>2. call["shell"].pc = "data" => call["shell"].op \in {"read", "write"}
  BY <1>1, Constants_ DEF Inv, Typed, Counts, CallType
<1> QED BY <1>1, <1>2 DEF Follows, CallType

LEMMA DriveInv ==
  ASSUME Inv, Remember, Drive
  PROVE  Inv'
<1>t. /\ drive \in DriveType /\ drive.lba \in Sectors /\ drive.buf \in Contents /\ disk \in [Sectors -> Contents]
      /\ call["shell"] \in CallType /\ call["shell"].lba \in Sectors
  BY CallTyped, Constants_ DEF Inv, Typed, TypeOK, DriveType
<1>u. UNCHANGED <<port, call>>
  BY DEF Drive, DriveFetch, DrivePrepare, DriveStore, DriveFails
<1>e. BSY
  BY DEF Drive, DriveFetch, DrivePrepare, DriveStore, DriveFails, BSY
<1>1. drive' \in DriveType /\ disk' \in [Sectors -> Contents] /\ error' \in BOOLEAN
  BY <1>t, IdleType, Constants_ DEF Drive, DriveFetch, DrivePrepare, DriveStore, DriveFails, DriveType, Inv, Typed, TypeOK
<1>2. Typed'
  <2>1. Counts'
    BY <1>u DEF Inv, Typed, Counts
  <2>2. TypeOK'
    BY <1>u, <1>1, Remembered DEF Inv, Typed, TypeOK, DriveType, Polls
  <2> QED BY <2>1, <2>2 DEF Typed
<1>3. ~ error
  BY <1>e DEF Inv, Stopped, BSY
<1>4. Stopped'
  BY <1>3, IdleType DEF Drive, DriveFetch, DrivePrepare, DriveStore, DriveFails, Stopped
<1>5. ASSUME Quiet' PROVE Follows'
  <2>1. Quiet /\ Follows
    BY <1>u, <1>5 DEF Quiet, Remember, Inv
  <2>2. "failed" \in trouble => "failed" \in trouble'
    BY <1>u DEF Remember
  <2>3. CASE DriveFetch
    <3>1. /\ drive.phase = "read" /\ drive'.phase = "data_out" /\ drive'.ptr = 0 /\ drive'.lba = drive.lba
          /\ drive'.buf = disk[drive.lba] /\ UNCHANGED <<disk, error>>
      BY <1>t, <2>3 DEF DriveFetch, DriveType
    <3> QED BY <1>u, <2>1, <3>1 DEF Follows
  <2>4. CASE DrivePrepare
    <3>1. /\ drive.phase = "prepare" /\ drive'.phase = "data_in" /\ drive'.ptr = 0 /\ drive'.lba = drive.lba
          /\ UNCHANGED <<disk, error>>
      BY <1>t, <2>4 DEF DrivePrepare, DriveType
    <3> QED BY <1>u, <2>1, <3>1 DEF Follows
  <2>5. CASE DriveStore
    <3>1. /\ call["shell"].pc \in {"flush", "drain"} /\ call["shell"].op = "write"
          /\ drive.lba = call["shell"].lba /\ drive.buf = call["shell"].buf
      BY <2>1, <2>5, StoresTheAsked DEF DriveStore
    <3>2. drive'.phase = "ready" /\ disk'[call["shell"].lba] = call["shell"].buf
      BY <1>t, <2>5, <3>1, IdleType DEF DriveStore
    <3> QED BY <1>u, <3>1, <3>2 DEF Follows
  <2>6. CASE DriveFails
    <3>1. drive'.phase = "ready" /\ error' /\ UNCHANGED disk
      BY <2>6, IdleType DEF DriveFails
    <3>2. "failed" \in trouble'
      BY <1>3, <3>1 DEF Remember
    <3>3. call["shell"].pc # "data" /\ call["shell"].pc \notin {"idle", "wait", "low", "high", "command"}
      <4>1. call["shell"].pc = "data" => call["shell"].op \in {"read", "write"}
        BY <1>t, Constants_ DEF Inv, Typed, Counts, CallType
      <4> QED BY <1>e, <2>1, <4>1 DEF Follows, BSY
    <3>4. call["shell"].pc \in {"flush", "drain"} => call["shell"].op = "write"
      BY <2>1 DEF Follows
    <3> QED BY <1>u, <3>1, <3>2, <3>3, <3>4 DEF Follows
  <2> QED BY <2>3, <2>4, <2>5, <2>6 DEF Drive
<1> QED BY <1>2, <1>4, <1>5 DEF Inv

LEMMA NextInv == Inv /\ [Next]_vars => Inv'
<1>1. ASSUME Inv, UNCHANGED vars PROVE Inv'
  BY <1>1 DEF vars, Inv, Typed, TypeOK, Counts, Stopped, Quiet, Follows, Polls
<1>2. ASSUME Inv, Next PROVE Inv'
  <2>r. Remember
    BY <1>2 DEF Next
  <2>1. ASSUME NEW op \in {"read", "write"}, NEW l \in Asked["shell"], Begin(op, l) PROVE Inv'
    BY <1>2, <2>r, <2>1, BeginInv, Constants_
  <2>2. ASSUME NEW l \in Asked["irq"], Interrupt(l) PROVE Inv'
    BY <1>2, <2>r, <2>2, InterruptInv, Constants_
  <2>3. ASSUME NEW c \in Callers, Step(c) PROVE Inv'
    BY <1>2, <2>r, <2>3, PortsInv, CommandInv, PollInv, ReadWordInv, WriteWordInv, FlushInv, DrainInv DEF Step
  <2>4. ASSUME Drive PROVE Inv'
    BY <1>2, <2>r, <2>4, DriveInv
  <2> QED BY <1>2, <2>1, <2>2, <2>3, <2>4 DEF Next
<1> QED BY <1>1, <1>2

LEMMA Invariance == Spec => []Inv
BY InitInv, NextInv, PTL DEF Spec

(* The ports, the drive and the calls, with interrupts and failures.       *)
THEOREM TypeCorrect == Spec => []TypeOK
BY Invariance, PTL DEF Inv, Typed

(* Until the first song plays and while no answer comes late (Quiet), what *)
(* is called read or written was, whatever command of the drive failed.    *)
THEOREM SectorsDelivered == Spec => []Delivers
<1>1. Inv => Delivers
  <2> SUFFICES ASSUME Inv PROVE Delivers
    OBVIOUS
  <2>1. ASSUME NEW c \in Callers, Quiet, Delivered(c) PROVE (c = "shell" /\ Follows) \/ call[c].op = "none"
    BY <2>1, Constants_ DEF Inv, Quiet
  <2>2. ReadsTheSector
    BY <2>1 DEF ReadsTheSector, Delivered, Follows
  <2>3. WritesTheSector
    BY <2>1 DEF WritesTheSector, Delivered, Follows
  <2> QED BY <2>2, <2>3 DEF Delivers
<1> QED BY <1>1, Invariance, PTL

(* Until the first song plays and while no answer comes late (Quiet), no   *)
(* sector is touched but that of the write that runs, and it not in part,  *)
(* whatever command of the drive failed.  With a song, or after a late     *)
(* answer, the model writes elsewhere.                                     *)
THEOREM OthersUntouched == Spec => OnlyAsked
<1> DEFINE Touched(l) ==
      /\ call["shell"].op = "write" /\ call["shell"].lba = l /\ call["shell"].pc # "idle"
      /\ disk'[l] = call["shell"].buf
<1>1. Inv /\ [Next]_vars => [\A l \in Sectors : Quiet /\ disk'[l] # disk[l] => Touched(l)]_vars
  <2> SUFFICES ASSUME Inv, Next, NEW l \in Sectors, Quiet, disk'[l] # disk[l] PROVE Touched(l)
    OBVIOUS
  <2>1. DriveStore
    BY DEF Next, Begin, Interrupt, Step, WaitReady, SetLow, SetHigh, Command, PollData, PollError, PollAgain,
           ReadWord, WriteWord, Flush, Drain, Drive, DriveFetch, DrivePrepare, DriveFails
  <2>2. drive.phase = "write" /\ disk' = [disk EXCEPT ![drive.lba] = drive.buf]
    BY <2>1 DEF DriveStore
  <2>3. disk \in [Sectors -> Contents]
    BY DEF Inv, Typed, TypeOK
  <2> QED BY <2>2, <2>3, StoresTheAsked
<1> QED BY <1>1, Invariance, PTL DEF Spec, OnlyAsked

-----------------------------------------------------------------------------
(* What a call has ahead of it: its statements, one after the other, with  *)
(* the turns of its polling loop and the words of the sector.              *)
Ahead(c) ==
  LET k == call[c] IN
  IF k.pc = "idle" THEN 0
  ELSE IF k.pc = "drain" THEN 1
  ELSE IF k.pc = "flush" THEN 2
  ELSE IF k.pc = "data" THEN Words + 3 - k.n
  ELSE IF k.pc = "poll" THEN Words + 4 + Polls(c) - k.n
  ELSE Words + Polls(c) + (IF k.pc = "command" THEN 5 ELSE IF k.pc = "high" THEN 6 ELSE IF k.pc = "low" THEN 7 ELSE 8)
(* A command makes the drive busy, and what the drive does ends that.      *)
Left(c) == 2 * Ahead(c) + (IF BSY THEN 1 ELSE 0)

LEMMA AheadType ==
  ASSUME Typed, NEW c \in Callers
  PROVE  Ahead(c) \in Nat /\ Left(c) \in Nat /\ Polls(c) \in Nat
<1>1. call[c] \in CallType /\ Words \in Nat /\ Polls(c) \in Nat
  BY Constants_ DEF Typed, TypeOK, Polls
<1>2. call[c].n \in Nat
  BY <1>1 DEF CallType
<1>3. call[c].pc = "data" => call[c].n <= Words
  BY DEF Typed, Counts, Index
<1>4. call[c].pc = "poll" => call[c].n < Polls(c)
  BY DEF Typed, TypeOK
<1>5. Ahead(c) \in Nat
  BY <1>1, <1>2, <1>3, <1>4 DEF Ahead
<1> QED BY <1>1, <1>5 DEF Left

AheadTyped == \A c \in Callers : Ahead(c) \in Nat
LEMMA AheadTypes == Typed => AheadTyped
BY AheadType DEF AheadTyped

(* Every statement leaves less ahead.                                      *)
LEMMA StatementFalls ==
  ASSUME Typed, Typed', NEW c \in Callers, Step(c)
  PROVE  Ahead(c)' < Ahead(c)
<1> DEFINE k == call[c]
           next == call'[c]
<1>1. k \in CallType /\ next \in CallType /\ call \in [Callers -> CallType] /\ Words \in Nat /\ Polls(c) \in Nat
  <2>1. call \in [Callers -> CallType] /\ call' \in [Callers -> CallType]
    BY DEF Typed, TypeOK, CallType
  <2> QED BY <2>1, AheadType, Constants_
<1>2. k.n \in Nat /\ next.n \in Nat
  BY <1>1 DEF CallType
<1>3. k.pc \in {"wait", "low", "high", "command"} => k.n = 0
  BY DEF Typed, Counts
<1>4. k.pc = "data" => k.n <= Words
  BY DEF Typed, Counts, Index
<1>5. k.pc = "poll" => k.n < Polls(c)
  BY DEF Typed, TypeOK
<1>6. ASSUME next.op = k.op PROVE Polls(c)' = Polls(c)
  BY <1>6 DEF Polls
<1>7. CASE WaitReady(c) \/ SetLow(c) \/ SetHigh(c) \/ Command(c)
  <2>1. \E p \in {<<"wait", "low">>, <<"low", "high">>, <<"high", "command">>, <<"command", "poll">>} :
          k.pc = p[1] /\ next = [k EXCEPT !.pc = p[2]]
    BY <1>1, <1>7, Zenon DEF WaitReady, SetLow, SetHigh, Command, Goto
  <2>2. next.op = k.op /\ next.n = k.n
    BY <1>1, <2>1 DEF CallType
  <2>3. \/ k.pc = "wait" /\ next.pc = "low"
        \/ k.pc = "low" /\ next.pc = "high"
        \/ k.pc = "high" /\ next.pc = "command"
        \/ k.pc = "command" /\ next.pc = "poll"
    BY <1>1, <2>1 DEF CallType
  <2> HIDE DEF k, next
  <2> QED BY <1>1, <1>2, <1>3, <1>6, <2>2, <2>3 DEF Ahead, k, next
<1>8. CASE PollData(c)
  <2>1. k.pc = "poll" /\ next.pc = "data" /\ next.n = 0
    BY <1>1, <1>8 DEF PollData, CallType
  <2> QED BY <1>1, <1>2, <1>5, <2>1 DEF Ahead
<1>9. CASE PollAgain(c) /\ next.pc # "idle"
  <2>1. k.pc = "poll" /\ next.pc = "poll" /\ next.n = k.n + 1 /\ next.op = k.op
    BY <1>1, <1>9 DEF PollAgain, Return, CallType
  <2> QED BY <1>1, <1>2, <1>5, <1>6, <2>1 DEF Ahead
<1>10. CASE (ReadWord(c) \/ WriteWord(c)) /\ next.pc = "data"
  <2>1. k.pc = "data" /\ k.op \in {"read", "write"} /\ \E b : next = NextWord(c, b)
    BY <1>1, <1>10 DEF ReadWord, WriteWord
  <2>2. next.n = IF k.n = Words THEN 0 ELSE k.n + 1
    BY <1>1, <2>1 DEF NextWord, CallType
  <2>3. next.pc = IF k.n < Words THEN "data" ELSE IF k.op = "read" THEN "idle" ELSE "flush"
    BY <1>1, <2>1 DEF NextWord, CallType
  <2>4. k.n < Words /\ next.n = k.n + 1
    BY <1>1, <1>2, <1>4, <1>10, <2>2, <2>3
  <2> QED BY <1>1, <1>2, <1>10, <2>1, <2>4 DEF Ahead
<1>11. CASE (ReadWord(c) \/ WriteWord(c)) /\ next.pc # "data"
  <2>1. k.pc = "data" /\ next.pc \in {"idle", "flush"}
    <3>1. k.pc = "data" /\ \E b : next = NextWord(c, b)
      BY <1>1, <1>11 DEF ReadWord, WriteWord
    <3>2. next.pc = IF k.n < Words THEN "data" ELSE IF k.op = "read" THEN "idle" ELSE "flush"
      BY <1>1, <3>1 DEF NextWord, CallType
    <3> QED BY <1>11, <3>1, <3>2
  <2> QED BY <1>1, <1>2, <1>4, <2>1 DEF Ahead
<1>12. CASE Flush(c)
  <2>1. k.pc = "flush" /\ next.pc = "drain"
    BY <1>1, <1>12 DEF Flush, Goto, CallType
  <2> QED BY <2>1 DEF Ahead
<1>13. CASE (PollError(c) \/ PollAgain(c) \/ Drain(c)) /\ next.pc = "idle"
  <2>1. k.pc \in {"poll", "drain"}
    BY <1>13 DEF PollError, PollAgain, Drain
  <2> QED BY <1>1, <1>2, <1>5, <1>13, <2>1 DEF Ahead
<1>14. PollError(c) \/ Drain(c) => next.pc = "idle"
  BY <1>1 DEF PollError, Drain, Return, CallType
<1> QED BY <1>7, <1>8, <1>9, <1>10, <1>11, <1>12, <1>13, <1>14 DEF Step

LessIsLeft ==
  /\ call["irq"].pc # "idle" => Left("irq")' < Left("irq")
  /\ call["shell"].pc # "idle" /\ call["irq"].pc = "idle" /\ call'["irq"].pc = "idle" => Left("shell")' < Left("shell")
  /\ call["irq"].pc # "idle" \/ call'["irq"].pc # "idle" => Ahead("shell")' = Ahead("shell")

LEMMA NextFalls == Inv /\ Inv' /\ Next => LessIsLeft
<1> SUFFICES ASSUME Inv, Inv', Next PROVE LessIsLeft
  OBVIOUS
<1>1. Typed /\ Typed' /\ call \in [Callers -> CallType] /\ "shell" \in Callers /\ "irq" \in Callers
  BY DEF Inv, Typed, TypeOK, Callers
<1>2. \A c \in Callers : Ahead(c) \in Nat /\ Ahead(c)' \in Nat
  <2>1. \A c \in Callers : Ahead(c) \in Nat
    BY <1>1, AheadType
  <2>2. \A c \in Callers : Ahead(c)' \in Nat
    <3>1. AheadTyped'
      BY <1>1, AheadTypes, PTL
    <3> QED BY <3>1 DEF AheadTyped
  <2> QED BY <2>1, <2>2
<1>3. ASSUME NEW op \in {"read", "write"}, NEW l \in Asked["shell"], Begin(op, l) PROVE LessIsLeft
  <2>1. call["shell"].pc = "idle" /\ call["irq"].pc = "idle" /\ call'["irq"] = call["irq"]
    BY <1>1, <1>3 DEF Begin
  <2> QED BY <2>1 DEF LessIsLeft
<1>4. ASSUME NEW l \in Asked["irq"], Interrupt(l) PROVE LessIsLeft
  <2>1. call["irq"].pc = "idle" /\ call'["shell"] = call["shell"] /\ call'["irq"].pc = "wait"
    <3>1. call["irq"].pc = "idle" /\ call'["shell"] = call["shell"] /\ call'["irq"] = Call("read", l)
      BY <1>1, <1>4 DEF Interrupt
    <3>2. Call("read", l).pc = "wait"
      BY DEF Call, NoCall
    <3> QED BY <3>1, <3>2
  <2>2. Ahead("shell")' = Ahead("shell")
    BY <2>1 DEF Ahead, Polls
  <2> QED BY <2>1, <2>2 DEF LessIsLeft
<1>5. ASSUME NEW c \in Callers, Step(c) PROVE LessIsLeft
  <2>1. Ahead(c)' < Ahead(c)
    BY <1>1, <1>5, StatementFalls
  <2>2. Left(c)' < Left(c)
    BY <1>2, <2>1 DEF Left
  <2>3. \A d \in Callers \ {c} : call'[d] = call[d]
    BY <1>1, <1>5 DEF Step, WaitReady, SetLow, SetHigh, Command, PollData, PollError, PollAgain, ReadWord, WriteWord,
                      Flush, Drain, Goto, Return
  <2>4. \A d \in Callers \ {c} : Ahead(d)' = Ahead(d)
    BY <2>3 DEF Ahead, Polls
  <2>5. c = "shell" => call["irq"].pc = "idle"
    BY <1>5 DEF Step, Runs, WaitReady, SetLow, SetHigh, Command, PollData, PollError, PollAgain, ReadWord, WriteWord, Flush, Drain
  <2>6. c = "irq" => call["irq"].pc # "idle"
    BY <1>5 DEF Step, Runs, WaitReady, SetLow, SetHigh, Command, PollData, PollError, PollAgain, ReadWord, WriteWord, Flush, Drain
  <2> QED BY <1>1, <2>2, <2>3, <2>4, <2>5, <2>6 DEF LessIsLeft, Callers
<1>6. ASSUME Drive PROVE LessIsLeft
  <2>1. call' = call
    BY <1>6 DEF Drive, DriveFetch, DrivePrepare, DriveStore, DriveFails
  <2>2. \A c \in Callers : Ahead(c)' = Ahead(c)
    BY <2>1 DEF Ahead, Polls
  <2>3. BSY /\ ~ BSY'
    <3>1. BSY
      BY <1>6 DEF Drive, DriveFetch, DrivePrepare, DriveStore, DriveFails, BSY
    <3>2. drive'.phase \in {"data_out", "data_in", "ready"}
      <4>1. drive \in [phase : {"ready", "read", "prepare", "write", "data_out", "data_in"}, lba : Sectors, ptr : Index, buf : Contents]
        BY <1>1 DEF Typed, TypeOK
      <4>2. Idle.phase = "ready"
        BY DEF Idle
      <4> QED BY <1>6, <4>1, <4>2 DEF Drive, DriveFetch, DrivePrepare, DriveStore, DriveFails
    <3> QED BY <3>1, <3>2 DEF BSY
  <2>4. \A c \in Callers : Left(c)' < Left(c)
    BY <1>2, <2>2, <2>3 DEF Left
  <2> QED BY <1>1, <2>2, <2>4 DEF LessIsLeft
<1> QED BY <1>3, <1>4, <1>5, <1>6 DEF Next

(* No call takes forever, however often the drive fails, is late or is     *)
(* left busy by the call before (read_sector_ex and write_sector_ex,       *)
(* fat12.c:17-71): until the handler's call returns every step of anybody  *)
(* lowers a natural number, until the shell's does every step but those of *)
(* an interrupt, and these leave it the statements it had ahead.           *)
THEOREM CallsAreFinite ==
  Spec => /\ [](\A c \in Callers : Left(c) \in Nat)
          /\ [][LessIsLeft]_vars
<1>1. Inv => \A c \in Callers : Left(c) \in Nat
  BY AheadType DEF Inv
<1>2. Inv /\ Inv' /\ [Next]_vars => [LessIsLeft]_vars
  BY NextFalls
<1> QED BY <1>1, <1>2, Invariance, PTL DEF Spec
=============================================================================
