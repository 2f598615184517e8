---------------------------- MODULE Sb16Stream ----------------------------
(***************************************************************************)
(* Streaming a WAV file through the Sound Blaster, kernel/sound.c.  The    *)
(* shell reads the first chunk of the file, moves its audio to the start   *)
(* of buffer 0, has the card play it and fills buffer 1; from then on each *)
(* interrupt starts the buffer that is full and fills the one just played. *)
(* The code is interrupted between any two sectors it reads; the handler   *)
(* runs with interrupts off and is one step.  A cluster is one sector      *)
(* here: FatTable has the lookups of the chain.                            *)
(***************************************************************************)
EXTENDS Integers, Sequences

CONSTANTS
  Chunk,     \* DMA_CHUNK_SIZE
  Sector,    \* 512
  Songs,     \* names of WAV files
  Info,      \* their start of audio, data_size, size of the file, size of a frame
  Word       \* 2^32: remaining is an unsigned int

ASSUME StreamAssumption ==
  /\ Sector \in Nat \ {0} /\ Chunk \in Nat \ {0} /\ Chunk % Sector = 0
  /\ Word \in Nat \ {0} /\ Chunk < Word
  /\ Info \in [Songs -> [start : Nat, data : 0 .. Word - 1, size : Nat, frame : Nat \ {0}]]
  /\ \A f \in Songs : Chunk % Info[f].frame = 0   \* of 1, 2 or 4 bytes

Cells == 0 .. 2 * Chunk - 1
Silence == <<>>
Buffer(i) == i * Chunk

VARIABLES
  sound_buffer,  \* both buffers: what byte of which file each cell holds
  stream,        \* the sb16_stream_t
  song,          \* the file the cluster of stream belongs to
  pc, s, len,    \* where the shell is: sectors read, bytes to read
  card,          \* the transfer: next cell and bytes left
  pending,       \* interrupt 5 is raised
  onair, heard,  \* history: the song started last and what was heard of it
  upset          \* history: "late", the card was done with the first chunk
                 \* before buffer 1 was full; "mixed", it took up, or still
                 \* played, what an earlier song had left

shell == <<pc, s, len>>
vars == <<sound_buffer, stream, song, shell, card, pending, onair, heard, upset>>

Least(a, b) == IF a < b THEN a ELSE b
SectorsFor(n) == (n + Sector - 1) \div Sector

Init ==
  /\ sound_buffer = [a \in Cells |-> Silence]
  /\ stream = [sector |-> 0, remaining |-> 0, playing |-> FALSE, frame |-> 1, cur_buf |-> 0, next_len |-> 0]
  /\ song \in Songs
  /\ pc = "idle" /\ s = 0 /\ len = 0
  /\ card = [at |-> 0, left |-> 0]
  /\ pending = FALSE
  /\ onair = song /\ heard = <<>> /\ upset = "no"

-----------------------------------------------------------------------------
(* read_stream_sectors: n sectors into the cells from dst on, zeros beyond *)
(* the end of the chain.                                                   *)
SectorsOf(f) == SectorsFor(Info[f].size)
Byte(f, sec, i) == IF sec < SectorsOf(f) THEN <<f, sec * Sector + i>> ELSE Silence
Filled(dst, n) ==
  [a \in Cells |->
     IF a \in dst .. dst + n * Sector - 1
     THEN Byte(song, stream.sector + ((a - dst) \div Sector), (a - dst) % Sector)
     ELSE sound_buffer[a]]
Advanced(n) == Least(stream.sector + n, SectorsOf(song))

(* What sb16_fill_buffer asks for.                                         *)
FillLength_NoLimit(t) == t.remaining - (t.remaining % t.frame)
FillLength_Whole(t) == IF t.remaining < Chunk THEN 0 ELSE Chunk
FillLength(t) ==
  LET n == Least(t.remaining, Chunk) IN n - (n % t.frame)

(* sb16_start_chunk_fmt: the controller counts length - 1 down, in 16 bits *)
(* like the two buffers together.                                          *)
StartCard(a, length) ==
  card' = [at |-> a, left |-> ((length - (length % stream'.frame) - 1) % (2 * Chunk)) + 1]

-----------------------------------------------------------------------------
Silent == card.left = 0 /\ ~ pending

(* "stopsound", reset_sb16: the card falls silent, and stream is not told. *)
(* An interrupt that is raised is served before.                           *)
Stopsound ==
  /\ pc = "idle" /\ ~ pending
  /\ card' = [card EXCEPT !.left = 0]
  /\ UNCHANGED <<sound_buffer, stream, song, shell, pending, onair, heard, upset>>

(* The shell: play_wav_stream_cluster.  It neither waits for an earlier    *)
(* song to end nor stops it.                                               *)
Play(f) ==
  /\ pc = "idle"
  /\ song' = f
  /\ stream' = [stream EXCEPT !.sector = 0]
  /\ pc' = "first" /\ s' = 0 /\ len' = Chunk
  /\ upset' = IF Silent THEN upset ELSE "mixed"
  /\ UNCHANGED <<sound_buffer, card, pending, onair, heard>>

ReadSector(idx) ==
  /\ s < SectorsFor(len)
  /\ sound_buffer' = Filled(Buffer(idx) + s * Sector, 1)
  /\ stream' = [stream EXCEPT !.sector = Advanced(1)]
  /\ s' = s + 1
  /\ UNCHANGED <<song, pc, len, card, pending, onair, heard, upset>>
ReadFirst == pc = "first" /\ ReadSector(0)

(* find_data_chunk in what was read, if the header is there.               *)
Header(f) == sound_buffer[0] = <<f, 0>> /\ Info[f].start \in 1 .. Chunk
GiveUp ==
  /\ pc = "first" /\ s = SectorsFor(len) /\ ~ Header(song)
  /\ pc' = "idle"
  /\ UNCHANGED <<sound_buffer, stream, song, s, len, card, pending, onair, heard, upset>>
FirstLength_FromZero(f) ==
  LET n == Least(Least(Info[f].data, Info[f].size), Chunk) IN n - (n % Info[f].frame)
FirstLength(f) ==
  LET n == Least(Least(Info[f].data, Info[f].size), Chunk - Info[f].start) IN n - (n % Info[f].frame)
Format ==
  /\ pc = "first" /\ s = SectorsFor(len) /\ Header(song)
  /\ stream' = [stream EXCEPT !.remaining = Least(Info[song].data, Info[song].size) - FirstLength(song),
                              !.playing = TRUE, !.frame = Info[song].frame, !.cur_buf = 0]
  /\ pc' = "move" /\ len' = FirstLength(song)
  /\ UNCHANGED <<sound_buffer, song, s, card, pending, onair, heard, upset>>
Move ==
  /\ pc = "move"
  /\ sound_buffer' = [a \in Cells |-> IF a < len THEN sound_buffer[Info[song].start + a] ELSE sound_buffer[a]]
  /\ pc' = "start"
  /\ UNCHANGED <<stream, song, s, len, card, pending, onair, heard, upset>>
Start ==
  /\ pc = "start"
  /\ UNCHANGED stream
  /\ StartCard(Buffer(0), len)
  /\ onair' = song /\ heard' = <<>>
  /\ upset' = IF upset = "mixed" THEN upset ELSE "no"
  /\ pc' = "fill"
  /\ UNCHANGED <<sound_buffer, song, s, len, pending>>
FillBegin ==
  /\ pc = "fill"
  /\ s' = 0
  /\ IF stream.remaining = 0
     THEN /\ stream' = [stream EXCEPT !.next_len = 0]
          /\ pc' = "idle" /\ len' = 0
     ELSE /\ len' = FillLength(stream)
          /\ pc' = "second"
          /\ UNCHANGED stream
  /\ UNCHANGED <<sound_buffer, song, card, pending, onair, heard, upset>>
ReadSecond == pc = "second" /\ ReadSector(1)
FillEnd ==
  /\ pc = "second" /\ s = SectorsFor(len)
  /\ stream' = [stream EXCEPT !.remaining = (@ - len) % Word, !.next_len = len]
  /\ pc' = "idle" /\ s' = 0 /\ len' = 0
  /\ UNCHANGED <<sound_buffer, song, card, pending, onair, heard, upset>>

ShellStep == ReadFirst \/ GiveUp \/ Format \/ Move \/ Start \/ FillBegin \/ ReadSecond \/ FillEnd

(* sb16_irq5_handler.                                                      *)
RefillIndex_Playing(play_idx) == play_idx
RefillIndex(play_idx) == 1 - play_idx
IrqIdle == ~ stream.playing /\ UNCHANGED <<sound_buffer, stream, card>>
IrqStop ==
  /\ stream.playing /\ stream.next_len = 0
  /\ stream' = [stream EXCEPT !.playing = FALSE]
  /\ UNCHANGED <<sound_buffer, card>>
IrqNext ==
  LET play_idx == 1 - stream.cur_buf
      n == FillLength(stream)
  IN  /\ stream.playing /\ stream.next_len # 0
      /\ stream' = [stream EXCEPT !.cur_buf = play_idx, !.next_len = n, !.remaining = (@ - n) % Word,
                                  !.sector = Advanced(SectorsFor(n))]
      /\ StartCard(Buffer(play_idx), stream.next_len)
      /\ sound_buffer' = Filled(Buffer(RefillIndex(play_idx)), SectorsFor(n))
Irq ==
  /\ pending /\ pending' = FALSE
  /\ IrqIdle \/ IrqStop \/ IrqNext
  /\ UNCHANGED <<song, shell, onair, heard, upset>>

(* The card plays a byte; the last one raises the interrupt.               *)
CardPlays ==
  /\ card.left > 0
  /\ card.left = 1 => ~ pending
  /\ heard' = Append(heard, sound_buffer[card.at])
  /\ card' = [at |-> (card.at + 1) % (2 * Chunk), left |-> card.left - 1]
  /\ pending' = (pending \/ card.left = 1)
  /\ upset' = IF upset # "no" \/ card.left > 1 \/ pc \notin {"fill", "second"} THEN upset
              ELSE IF stream.next_len = 0 THEN "late" ELSE "mixed"
  /\ UNCHANGED <<sound_buffer, stream, song, shell, onair>>

Next == (\E f \in Songs : Play(f)) \/ Stopsound \/ ShellStep \/ Irq \/ CardPlays

Spec == Init /\ [][Next]_vars
(* The card plays on, interrupts are served and the shell runs between     *)
(* them.                                                                   *)
FairSpec == Spec /\ WF_vars(ShellStep) /\ WF_vars(Irq) /\ WF_vars(CardPlays)

-----------------------------------------------------------------------------
(* A song that holds at least a frame of audio.                            *)
HasAudio(f) == Least(Info[f].data, Info[f].size) >= Info[f].frame
StreamType == [sector : Nat, remaining : 0 .. Word - 1, playing : BOOLEAN, frame : Nat \ {0}, cur_buf : {0, 1},
               next_len : 0 .. Chunk]
TypeOK ==
  /\ sound_buffer \in [Cells -> ({Silence} \cup (Songs \X Nat))]
  /\ stream \in StreamType
  /\ song \in Songs /\ onair \in Songs
  /\ pc \in {"idle", "first", "move", "start", "fill", "second"}
  /\ s \in 0 .. Chunk \div Sector /\ len \in 0 .. Chunk
  /\ card \in [at : Cells, left : 0 .. 2 * Chunk]
  /\ pending \in BOOLEAN /\ upset \in {"no", "late", "mixed"}

(* What is heard of a song is its audio from the start on, nothing left    *)
(* out, played twice or out of order, and nothing after its end: if its    *)
(* header ends at a frame, and the card neither takes up what an earlier,  *)
(* stopped song left in buffer 1 nor still plays another song.             *)
Aligned(f) == (Chunk - Info[f].start) % Info[f].frame = 0
HeardIsAudio ==
  upset # "mixed" /\ Aligned(onair) /\ HasAudio(onair) =>
    /\ \A i \in 1 .. Len(heard) : heard[i] = <<onair, Info[onair].start + i - 1>>
    /\ Len(heard) <= Info[onair].data

(* No cell the card has still to play, or is about to, is overwritten.     *)
ToPlay == {a \in Cells : a >= card.at /\ a < card.at + card.left}
NeverOverwritten ==
  [][upset # "mixed" /\ upset' # "mixed" => \A a \in ToPlay \cup ToPlay' : sound_buffer'[a] = sound_buffer[a]]_vars

(* Each song is heard to the end, up to a last part of a frame, unless it  *)
(* is stopped or the disk is slower than the first chunk                   *)
(* (sb16_irq5_handler, sound.c:206-222; reset_sb16, 63-75).                *)
Frames(f) == Info[f].data - (Info[f].data % Info[f].frame)
Stopped == stream.playing /\ Silent /\ pc = "idle"
HeardToTheEnd ==
  \A f \in Songs :
    (pc = "start" /\ song = f /\ Aligned(f) /\ HasAudio(f))
      ~> ((onair = f /\ Len(heard) = Frames(f) /\ ~ stream.playing) \/ Stopped \/ upset # "no")

(* However late the first refill comes, playing ends, and the shell can    *)
(* start the next song in silence (sb16_irq5_handler, sound.c:206-222).    *)
Stops == stream.playing ~> ((Silent /\ pc = "idle") \/ upset = "mixed")

(* A song ends, and not before its end.                                    *)
PlaysToTheEnd == HeardToTheEnd /\ Stops
=============================================================================
