---------------------------- MODULE Sb16Proofs ------------------------------
(***************************************************************************)
(* What is heard of a song is its audio, and no cell is overwritten before *)
(* it is played, for chunks and sectors of any size and songs of any       *)
(* length, if the header ends a frame before the first chunk does and the  *)
(* file holds all the audio it announces.                                  *)
(***************************************************************************)
EXTENDS Sb16Stream, TLAPS

K == Chunk \div Sector
Total(f) == Least(Info[f].data, Info[f].size)

(* What the theorems on what is heard ask of the files: find_data_chunk    *)
(* takes a header of any length, and data_size as it stands there.         *)
Sensible ==
  \A f \in Songs : Info[f].start # 0 =>
    Info[f].start + Info[f].frame <= Chunk /\ Info[f].start + Info[f].data <= Info[f].size

-----------------------------------------------------------------------------
(* Whole and partial divisions.                                            *)
LEMMA Divide ==
  ASSUME NEW x \in Nat, NEW m \in Nat \ {0}
  PROVE  x = ((x \div m) * m) + (x % m) /\ x \div m \in Nat /\ x % m \in 0 .. m - 1
<1>1. x \div m \in Nat
  OBVIOUS
<1>2. x % m \in 0 .. m - 1
  OBVIOUS
<1>3. x - (x % m) = m * (x \div m)
  BY SMTT(60)
<1>4. m * (x \div m) = (x \div m) * m /\ m * (x \div m) \in Nat
  BY <1>1
<1> QED BY <1>1, <1>2, <1>3, <1>4

LEMMA Small ==
  ASSUME NEW m \in Nat \ {0}, NEW r \in 0 .. m - 1
  PROVE  r \div m = 0 /\ r % m = r
OBVIOUS

LEMMA Times ==
  ASSUME NEW a \in Nat, NEW b \in Nat, NEW m \in Nat \ {0}
  PROVE  /\ a * m \in Nat /\ (a + 1) * m = a * m + m /\ (a + b) * m = a * m + b * m
         /\ a <= b <=> a * m <= b * m
         /\ a < b <=> a * m < b * m
         /\ a < b => (a + 1) * m <= b * m
OBVIOUS

LEMMA Parts ==
  ASSUME NEW q \in Nat, NEW m \in Nat \ {0}, NEW r \in 0 .. m - 1
  PROVE  (q * m + r) \div m = q /\ (q * m + r) % m = r
OBVIOUS

LEMMA Rounded ==
  ASSUME NEW n \in Nat, NEW m \in Nat \ {0}
  PROVE  /\ n - (n % m) \in 0 .. n /\ n - (n - (n % m)) < m
         /\ n < m => n - (n % m) = 0
         /\ n >= m => n - (n % m) > 0
         /\ (n - (n % m)) % m = 0
<1>1. n = ((n \div m) * m) + (n % m) /\ n \div m \in Nat /\ n % m \in 0 .. m - 1
  BY Divide
<1>2. n < m => n % m = n
  BY Small
<1>3. (n - (n % m)) % m = 0
  <2>1. (n \div m) * m \in Nat /\ n - (n % m) = (n \div m) * m + 0
    BY <1>1
  <2>2. 0 \in 0 .. m - 1
    OBVIOUS
  <2>3. ((n \div m) * m + 0) % m = 0
    BY <1>1, <2>2, Parts
  <2> QED BY <2>1, <2>3
<1> QED BY <1>1, <1>2, <1>3

LEMMA Constants_ ==
  /\ Sector \in Nat \ {0} /\ Chunk \in Nat \ {0} /\ Word \in Nat \ {0} /\ Chunk < Word
  /\ K \in Nat /\ K * Sector = Chunk
<1>1. Chunk = ((Chunk \div Sector) * Sector) + (Chunk % Sector) /\ Chunk \div Sector \in Nat
  BY StreamAssumption, Divide
<1>2. (Chunk \div Sector) * Sector \in Nat
  BY <1>1, StreamAssumption
<1> QED BY <1>1, <1>2, StreamAssumption DEF K

LEMMA Facts ==
  ASSUME NEW f \in Songs
  PROVE  /\ Info[f].start \in Nat /\ Info[f].data \in 0 .. Word - 1 /\ Info[f].size \in Nat /\ Info[f].frame \in Nat \ {0}
         /\ Chunk % Info[f].frame = 0
         /\ Total(f) \in 0 .. Word - 1 /\ Total(f) <= Info[f].size /\ Total(f) <= Info[f].data
BY StreamAssumption DEF Total, Least

(* The sectors that hold n bytes.                                          *)
LEMMA Sectors_ ==
  ASSUME NEW n \in Nat
  PROVE  /\ SectorsFor(n) \in Nat /\ SectorsFor(n) * Sector >= n
         /\ n = 0 => SectorsFor(n) = 0
         /\ n <= Chunk => SectorsFor(n) <= K
         /\ n = Chunk => SectorsFor(n) = K
<1>1. n + Sector - 1 \in Nat /\ Sector \in Nat \ {0}
  BY Constants_
<1> DEFINE q == (n + Sector - 1) \div Sector
<1>2. n + Sector - 1 = (q * Sector) + ((n + Sector - 1) % Sector) /\ q \in Nat /\ (n + Sector - 1) % Sector \in 0 .. Sector - 1
  BY <1>1, Divide
<1>3. SectorsFor(n) = q
  BY DEF SectorsFor
<1> HIDE DEF q
<1>4. q * Sector \in Nat /\ q * Sector >= n /\ q * Sector < n + Sector
  BY <1>1, <1>2
<1>5. n = 0 => q = 0
  BY <1>1, <1>2, <1>4
<1>6. n <= Chunk => q <= K
  <2>1. n <= Chunk => q * Sector < (K + 1) * Sector
    BY <1>1, <1>4, Constants_, Times
  <2>2. q < K + 1 <=> q * Sector < (K + 1) * Sector
    BY <1>1, <1>2, Constants_, Times
  <2> QED BY <2>1, <2>2, <1>2, Constants_
<1>7. n = Chunk => q >= K
  <2>1. n = Chunk => K * Sector <= q * Sector
    BY <1>4, Constants_
  <2>2. K <= q <=> K * Sector <= q * Sector
    BY <1>1, <1>2, Constants_, Times
  <2> QED BY <2>1, <2>2, <1>2, Constants_
<1> QED BY <1>2, <1>3, <1>4, <1>5, <1>6, <1>7, Constants_

(* How much is put into a buffer.                                          *)
LEMMA Fills ==
  ASSUME NEW t \in StreamType
  PROVE  /\ FillLength(t) \in 0 .. Chunk /\ FillLength(t) <= t.remaining
         /\ FillLength(t) % t.frame = 0
         /\ t.remaining < t.frame /\ t.frame <= Chunk => FillLength(t) = 0
         /\ Chunk % t.frame = 0 /\ FillLength(t) # Chunk => t.remaining - FillLength(t) < t.frame
<1> DEFINE n == Least(t.remaining, Chunk)
<1>1. t.remaining \in Nat /\ t.frame \in Nat \ {0}
  BY Constants_ DEF StreamType
<1>2. n \in Nat /\ n <= t.remaining /\ n <= Chunk /\ (n = t.remaining \/ n = Chunk)
  BY <1>1, Constants_ DEF Least
<1>3. FillLength(t) = n - (n % t.frame)
  BY DEF FillLength
<1> HIDE DEF n
<1>4. /\ n - (n % t.frame) \in 0 .. n /\ n - (n - (n % t.frame)) < t.frame
      /\ n < t.frame => n - (n % t.frame) = 0
      /\ (n - (n % t.frame)) % t.frame = 0
  BY <1>1, <1>2, Rounded
<1>5. Chunk % t.frame = 0 /\ n = Chunk => n - (n % t.frame) = Chunk
  BY Constants_
<1> QED BY <1>1, <1>2, <1>3, <1>4, <1>5, Constants_

LEMMA FirstFills ==
  ASSUME NEW f \in Songs, Info[f].start \in 1 .. Chunk
  PROVE  /\ FirstLength(f) \in 0 .. Chunk - Info[f].start /\ FirstLength(f) <= Total(f)
         /\ FirstLength(f) % Info[f].frame = 0
         /\ Total(f) < Info[f].frame => FirstLength(f) = 0
         /\ Total(f) >= Info[f].frame /\ Info[f].start + Info[f].frame <= Chunk => FirstLength(f) > 0
         /\ FirstLength(f) # Chunk - Info[f].start /\ Aligned(f) => Total(f) - FirstLength(f) < Info[f].frame
<1> DEFINE n == Least(Total(f), Chunk - Info[f].start)
<1>1. /\ Info[f].start \in Nat /\ Info[f].frame \in Nat \ {0} /\ Total(f) \in Nat /\ Chunk \in Nat
      /\ Chunk - Info[f].start \in Nat
  BY Facts, Constants_
<1>2. /\ n \in Nat /\ n <= Total(f) /\ n <= Chunk - Info[f].start
      /\ n = Total(f) \/ n = Chunk - Info[f].start
  BY <1>1 DEF Least
<1>3. FirstLength(f) = n - (n % Info[f].frame)
  BY DEF FirstLength, Total
<1> HIDE DEF n
<1>4. /\ n - (n % Info[f].frame) \in 0 .. n /\ n - (n - (n % Info[f].frame)) < Info[f].frame
      /\ n < Info[f].frame => n - (n % Info[f].frame) = 0
      /\ n >= Info[f].frame => n - (n % Info[f].frame) > 0
      /\ (n - (n % Info[f].frame)) % Info[f].frame = 0
  BY <1>1, <1>2, Rounded
<1>5. Aligned(f) /\ n = Chunk - Info[f].start => n - (n % Info[f].frame) = Chunk - Info[f].start
  BY <1>1 DEF Aligned
<1>6. FirstLength(f) # Chunk - Info[f].start /\ Aligned(f) => Total(f) - FirstLength(f) < Info[f].frame
  BY <1>1, <1>2, <1>3, <1>4, <1>5
<1>7. Total(f) < Info[f].frame => FirstLength(f) = 0
  <2>1. Total(f) < Info[f].frame => n < Info[f].frame
    BY <1>1, <1>2
  <2> QED BY <1>3, <1>4, <2>1
<1>8. Total(f) >= Info[f].frame /\ Info[f].start + Info[f].frame <= Chunk => FirstLength(f) > 0
  <2>1. Total(f) >= Info[f].frame /\ Info[f].start + Info[f].frame <= Chunk => n >= Info[f].frame
    BY <1>1, <1>2
  <2> QED BY <1>3, <1>4, <2>1
<1>9. FirstLength(f) \in 0 .. Chunk - Info[f].start /\ FirstLength(f) <= Total(f)
  <2>1. FirstLength(f) \in 0 .. n
    BY <1>3, <1>4
  <2> QED BY <1>1, <1>2, <2>1
<1> QED BY <1>3, <1>4, <1>6, <1>7, <1>8, <1>9

-----------------------------------------------------------------------------
(* The values of the variables.                                            *)
Audio == {Silence} \cup (Songs \X Nat)
CardType == [at : Cells, left : 0 .. 2 * Chunk]
Typed == TypeOK /\ (pc = "move" => Info[song].start + len <= Chunk)

LEMMA Cells_ == /\ \A a \in Cells : a \in Nat /\ a < 2 * Chunk
                /\ \A a \in Nat : a < 2 * Chunk => a \in Cells
                /\ 0 \in Cells /\ Buffer(0) = 0 /\ Buffer(1) = Chunk /\ Buffer(0) \in Cells /\ Buffer(1) \in Cells
BY Constants_ DEF Cells, Buffer

LEMMA SectorsOfFile ==
  ASSUME NEW f \in Songs
  PROVE  SectorsOf(f) \in Nat /\ SectorsOf(f) * Sector >= Info[f].size
BY Facts, Sectors_ DEF SectorsOf

LEMMA Contents_ ==
  ASSUME NEW f \in Songs, NEW q \in Nat, NEW i \in Nat
  PROVE  Byte(f, q, i) \in Audio
<1>1. q * Sector + i \in Nat
  BY Constants_, Times
<1> QED BY <1>1 DEF Byte, Audio

LEMMA FilledTyped ==
  ASSUME TypeOK, NEW dst \in Nat, NEW n \in Nat
  PROVE  Filled(dst, n) \in [Cells -> Audio]
<1>1. song \in Songs /\ stream.sector \in Nat /\ sound_buffer \in [Cells -> Audio]
  BY DEF TypeOK, StreamType, Audio
<1>2. ASSUME NEW a \in Cells, a \in dst .. dst + n * Sector - 1
      PROVE  Byte(song, stream.sector + ((a - dst) \div Sector), (a - dst) % Sector) \in Audio
  <2>1. a - dst \in Nat
    BY <1>2, Cells_
  <2>2. (a - dst) \div Sector \in Nat /\ (a - dst) % Sector \in Nat
    BY <2>1, Constants_, Divide
  <2>3. stream.sector + ((a - dst) \div Sector) \in Nat
    BY <1>1, <2>2
  <2> QED BY <1>1, <2>2, <2>3, Contents_
<1> QED BY <1>1, <1>2 DEF Filled

LEMMA AdvancedTyped == TypeOK => \A n \in Nat : Advanced(n) \in Nat
BY SectorsOfFile DEF TypeOK, StreamType, Advanced, Least

(* What the card is started with.                                          *)
LEMMA Started ==
  ASSUME NEW n \in 0 .. Chunk, stream'.frame \in Nat \ {0}, NEW a \in Cells, StartCard(a, n)
  PROVE  /\ card' \in CardType /\ card'.at = a
         /\ n % stream'.frame = 0 => card'.left = IF n = 0 THEN 2 * Chunk ELSE n
<1> DEFINE k == n - (n % stream'.frame)
<1>1. k \in 0 .. n
  BY Rounded
<1>2. card' = [at |-> a, left |-> ((k - 1) % (2 * Chunk)) + 1]
  BY DEF StartCard
<1>3. n % stream'.frame = 0 => k = n
  OBVIOUS
<1> HIDE DEF k
<1>4. (k - 1) % (2 * Chunk) \in 0 .. 2 * Chunk - 1
  BY <1>1, Constants_
<1>5. k > 0 => (k - 1) % (2 * Chunk) = k - 1
  <2>1. 2 * Chunk \in Nat \ {0} /\ (k > 0 => k - 1 \in 0 .. 2 * Chunk - 1)
    BY <1>1, Constants_
  <2>2. ASSUME k > 0 PROVE (k - 1) % (2 * Chunk) = k - 1
    BY <2>1, <2>2, Small
  <2> QED BY <2>2
<1>6. k = 0 => (k - 1) % (2 * Chunk) = 2 * Chunk - 1
  <2>1. (0 - 1) % (2 * Chunk) = 2 * Chunk - 1
    BY Constants_
  <2> QED BY <2>1
<1> QED BY <1>1, <1>2, <1>3, <1>4, <1>5, <1>6, Constants_ DEF CardType

LEMMA InitTyped == Init => Typed
BY Cells_, Constants_ DEF Init, Typed, TypeOK, StreamType

LEMMA TypedStep == Typed /\ [Next]_vars => Typed'
<1> SUFFICES ASSUME Typed, [Next]_vars PROVE Typed'
  OBVIOUS
<1>t. /\ TypeOK /\ sound_buffer \in [Cells -> Audio] /\ stream \in StreamType /\ song \in Songs /\ onair \in Songs
      /\ s \in 0 .. K /\ len \in 0 .. Chunk /\ card \in CardType /\ pending \in BOOLEAN /\ upset \in {"no", "late", "mixed"}
      /\ stream.frame \in Nat \ {0} /\ stream.remaining \in 0 .. Word - 1 /\ stream.next_len \in 0 .. Chunk
  BY DEF Typed, TypeOK, StreamType, CardType, Audio, K
<1>0. CASE UNCHANGED vars
  BY <1>0 DEF Typed, TypeOK, vars, shell, StreamType
<1>1. ASSUME NEW f \in Songs, Play(f) PROVE Typed'
  <2>1. /\ song' = f /\ stream' = [stream EXCEPT !.sector = 0] /\ pc' = "first" /\ s' = 0 /\ len' = Chunk
        /\ upset' \in {"no", "late", "mixed"} /\ UNCHANGED <<sound_buffer, card, pending, onair>>
    BY <1>t, <1>1 DEF Play
  <2>2. stream' \in StreamType
    BY <1>t, <2>1 DEF StreamType
  <2> QED BY <1>t, <2>1, <2>2, Constants_ DEF Typed, TypeOK, K
<1>2. CASE Stopsound
  <2>1. card' \in CardType /\ UNCHANGED <<sound_buffer, stream, song, pc, s, len, pending, onair, upset>>
    BY <1>t, <1>2, Constants_ DEF Stopsound, CardType, shell
  <2> QED BY <1>t, <2>1 DEF Typed, TypeOK, StreamType, CardType
<1>3. CASE ReadFirst \/ ReadSecond
  <2>1. PICK i \in {0, 1} : ReadSector(i) /\ pc # "move"
    BY <1>3 DEF ReadFirst, ReadSecond
  <2>2. Buffer(i) + s * Sector \in Nat
    BY <1>t, <2>1, Cells_, Constants_, Times
  <2>3. sound_buffer' \in [Cells -> Audio] /\ stream' \in StreamType
    <3>1. sound_buffer' = Filled(Buffer(i) + s * Sector, 1) /\ stream' = [stream EXCEPT !.sector = Advanced(1)]
      BY <2>1 DEF ReadSector
    <3> QED BY <1>t, <2>2, <3>1, FilledTyped, AdvancedTyped DEF StreamType
  <2>4. s' \in 0 .. K
    <3>1. s' = s + 1 /\ s < SectorsFor(len) /\ SectorsFor(len) <= K /\ SectorsFor(len) \in Nat
      BY <1>t, <2>1, Sectors_ DEF ReadSector
    <3> QED BY <1>t, <3>1, Constants_
  <2>5. UNCHANGED <<song, pc, len, card, pending, onair, upset>>
    BY <2>1 DEF ReadSector
  <2> QED BY <1>t, <2>1, <2>3, <2>4, <2>5 DEF Typed, TypeOK, K, Audio, CardType
<1>4. CASE GiveUp
  BY <1>t, <1>4 DEF GiveUp, Typed, TypeOK, StreamType
<1>5. CASE Format
  <2>1. Info[song].start \in 1 .. Chunk
    BY <1>5 DEF Format, Header
  <2>2. /\ FirstLength(song) \in 0 .. Chunk - Info[song].start /\ FirstLength(song) <= Total(song)
        /\ Total(song) \in 0 .. Word - 1 /\ Info[song].frame \in Nat \ {0} /\ Info[song].start \in Nat
    BY <1>t, <2>1, FirstFills, Facts
  <2>3. Total(song) - FirstLength(song) \in 0 .. Word - 1
    BY <2>2, Constants_
  <2>4. /\ stream' = [stream EXCEPT !.remaining = Total(song) - FirstLength(song),
                                    !.playing = TRUE, !.frame = Info[song].frame, !.cur_buf = 0]
        /\ pc' = "move" /\ len' = FirstLength(song)
        /\ UNCHANGED <<sound_buffer, song, s, card, pending, onair, upset>>
    BY <1>5 DEF Format, Total
  <2>5. stream' \in StreamType
    BY <1>t, <2>2, <2>3, <2>4 DEF StreamType
  <2>6. len' \in 0 .. Chunk /\ Info[song'].start + len' <= Chunk
    BY <2>2, <2>4, Constants_
  <2> QED BY <1>t, <2>4, <2>5, <2>6 DEF Typed, TypeOK, K, Audio, CardType
<1>6. CASE Move
  <2>1. Info[song].start + len <= Chunk /\ Info[song].start \in Nat
    BY <1>t, <1>6, Facts DEF Move, Typed
  <2>2. \A a \in Cells : a < len => Info[song].start + a \in Cells
    BY <1>t, <2>1, Cells_, Constants_
  <2>3. sound_buffer' \in [Cells -> Audio]
    BY <1>t, <1>6, <2>2 DEF Move
  <2>4. UNCHANGED <<stream, song, s, len, card, pending, onair, upset>> /\ pc' = "start"
    BY <1>6 DEF Move
  <2> QED BY <1>t, <2>3, <2>4 DEF Typed, TypeOK, K, Audio, CardType
<1>7. CASE Start
  <2>1. /\ UNCHANGED <<sound_buffer, stream, song, s, len, pending>> /\ StartCard(Buffer(0), len) /\ pc' = "fill"
        /\ onair' = song /\ upset' \in {"no", "mixed"}
    BY <1>7 DEF Start
  <2>2. card' \in CardType
    BY <1>t, <2>1, Started, Cells_
  <2> QED BY <1>t, <2>1, <2>2 DEF Typed, TypeOK, K, Audio, CardType
<1>8. CASE FillBegin
  <2>1. /\ s' = 0 /\ pc' \in {"idle", "second"} /\ UNCHANGED <<sound_buffer, song, card, pending, onair, upset>>
        /\ len' \in {0, FillLength(stream)}
        /\ stream' \in {stream, [stream EXCEPT !.next_len = 0]}
    BY <1>8 DEF FillBegin
  <2>2. len' \in 0 .. Chunk /\ stream' \in StreamType
    BY <1>t, <2>1, Fills, Constants_ DEF StreamType
  <2> QED BY <1>t, <2>1, <2>2, Constants_ DEF Typed, TypeOK, K, Audio, CardType
<1>9. CASE FillEnd
  <2>1. /\ stream' = [stream EXCEPT !.remaining = (@ - len) % Word, !.next_len = len]
        /\ pc' = "idle" /\ s' = 0 /\ len' = 0 /\ UNCHANGED <<sound_buffer, song, card, pending, onair, upset>>
    BY <1>9 DEF FillEnd
  <2>2. (stream.remaining - len) % Word \in 0 .. Word - 1
    BY <1>t, Constants_
  <2>3. stream' \in StreamType
    BY <1>t, <2>1, <2>2 DEF StreamType
  <2> QED BY <1>t, <2>1, <2>3, Constants_ DEF Typed, TypeOK, K, Audio, CardType
<1>10. CASE Irq
  <2>1. UNCHANGED <<song, pc, s, len, onair, upset>> /\ pending' = FALSE
    BY <1>10 DEF Irq, shell
  <2>2. sound_buffer' \in [Cells -> Audio] /\ stream' \in StreamType /\ card' \in CardType
    <3>1. CASE IrqIdle
      BY <1>t, <3>1 DEF IrqIdle
    <3>2. CASE IrqStop
      BY <1>t, <3>2 DEF IrqStop, StreamType
    <3>3. CASE IrqNext
      <4> DEFINE n == FillLength(stream)
                 play == 1 - stream.cur_buf
      <4>1. /\ stream' = [stream EXCEPT !.cur_buf = play, !.next_len = n, !.remaining = (stream.remaining - n) % Word,
                                        !.sector = Advanced(SectorsFor(n))]
            /\ StartCard(Buffer(play), stream.next_len)
            /\ sound_buffer' = Filled(Buffer(RefillIndex(play)), SectorsFor(n))
        BY <1>t, <3>3 DEF IrqNext, StreamType
      <4>2. n \in 0 .. Chunk /\ SectorsFor(n) \in Nat
        BY <1>t, Fills, Sectors_
      <4>3. play \in {0, 1} /\ RefillIndex(play) \in {0, 1}
        BY <1>t DEF StreamType, RefillIndex
      <4>4. (stream.remaining - n) % Word \in 0 .. Word - 1
        BY <1>t, <4>2, Constants_
      <4>5. Advanced(SectorsFor(n)) \in Nat
        BY <1>t, <4>2, AdvancedTyped
      <4>6. Buffer(play) \in Cells /\ Buffer(RefillIndex(play)) \in Nat
        BY <4>3, Cells_
      <4> HIDE DEF n, play
      <4>7. stream' \in StreamType /\ stream'.frame = stream.frame
        BY <1>t, <4>1, <4>2, <4>3, <4>4, <4>5 DEF StreamType
      <4>8. card' \in CardType
        BY <1>t, <4>1, <4>6, <4>7, Started
      <4>9. sound_buffer' \in [Cells -> Audio]
        BY <1>t, <4>1, <4>2, <4>6, FilledTyped
      <4> QED BY <4>7, <4>8, <4>9
    <3> QED BY <1>10, <3>1, <3>2, <3>3 DEF Irq
  <2> QED BY <1>t, <2>1, <2>2 DEF Typed, TypeOK, K, Audio, CardType
<1>11. CASE CardPlays
  <2>1. card' \in CardType
    <3>1. card.at \in Cells /\ card.left \in 0 .. 2 * Chunk /\ card.left > 0
      BY <1>t, <1>11 DEF CardPlays, CardType
    <3>2. (card.at + 1) % (2 * Chunk) \in Cells
      BY <3>1, Constants_ DEF Cells
    <3>3. card.left - 1 \in 0 .. 2 * Chunk
      BY <3>1, Constants_
    <3> QED BY <1>11, <3>2, <3>3 DEF CardPlays, CardType
  <2>2. UNCHANGED <<sound_buffer, stream, song, pc, s, len, onair>> /\ upset' \in {"no", "late", "mixed"}
    BY <1>t, <1>11 DEF CardPlays, shell
  <2>3. pending' \in BOOLEAN
    BY <1>11 DEF CardPlays
  <2> QED BY <1>t, <2>1, <2>2, <2>3 DEF Typed, TypeOK, K, Audio, CardType
<1> QED BY <1>0, <1>1, <1>2, <1>3, <1>4, <1>5, <1>6, <1>7, <1>8, <1>9, <1>10, <1>11 DEF Next, ShellStep

LEMMA HeardTyped == Typed /\ heard \in Seq(Audio) /\ [Next]_vars => heard' \in Seq(Audio)
<1> SUFFICES ASSUME Typed, heard \in Seq(Audio), [Next]_vars PROVE heard' \in Seq(Audio)
  OBVIOUS
<1>1. CASE CardPlays
  <2>1. sound_buffer[card.at] \in Audio
    BY DEF Typed, TypeOK, Audio
  <2> QED BY <1>1, <2>1 DEF CardPlays
<1>2. CASE Start
  BY <1>2 DEF Start
<1>3. CASE ~ CardPlays /\ ~ Start
  BY <1>3 DEF Next, ShellStep, Play, Stopsound, ReadFirst, ReadSecond, ReadSector, GiveUp, Format, Move, FillBegin,
              FillEnd, Irq, vars
<1> QED BY <1>1, <1>2, <1>3

-----------------------------------------------------------------------------
(* What is read into the buffers.                                          *)
LEMMA Outside ==
  ASSUME TypeOK, NEW dst \in Nat, NEW n \in Nat, NEW a \in Cells, a < dst \/ a >= dst + n * Sector
  PROVE  Filled(dst, n)[a] = sound_buffer[a]
<1>1. n * Sector \in Nat /\ a \in Nat
  BY Constants_, Times, Cells_
<1>2. ~ (a \in dst .. dst + n * Sector - 1)
  BY <1>1
<1> QED BY <1>2 DEF Filled

LEMMA Inside ==
  ASSUME TypeOK, NEW dst \in Nat, NEW n \in Nat, NEW j \in Nat, dst + j \in Cells, j < n * Sector,
         stream.sector * Sector + j < SectorsOf(song) * Sector
  PROVE  Filled(dst, n)[dst + j] = <<song, stream.sector * Sector + j>>
<1>1. n * Sector \in Nat /\ Sector \in Nat \ {0} /\ stream.sector \in Nat /\ SectorsOf(song) \in Nat
  BY Constants_, Times, SectorsOfFile DEF TypeOK, StreamType
<1>2. dst + j \in dst .. dst + n * Sector - 1 /\ (dst + j) - dst = j
  BY <1>1
<1>3. Filled(dst, n)[dst + j] = Byte(song, stream.sector + (j \div Sector), j % Sector)
  BY <1>2 DEF Filled
<1>4. PICK q \in Nat, r \in 0 .. Sector - 1 : q = j \div Sector /\ r = j % Sector /\ j = (q * Sector) + r
  BY <1>1, Divide
<1>5. PICK p \in Nat : p = stream.sector
  BY <1>1
<1>6. (p + q) * Sector = p * Sector + q * Sector /\ p * Sector \in Nat /\ q * Sector \in Nat
  BY <1>1, Times
<1>7. p + q < SectorsOf(song)
  <2>1. (p + q) * Sector < SectorsOf(song) * Sector
    <3>1. SectorsOf(song) * Sector \in Nat
      BY <1>1, Times
    <3> QED BY <1>4, <1>5, <1>6, <3>1
  <2>2. p + q \in Nat
    OBVIOUS
  <2> QED BY <1>1, <2>1, <2>2, Times
<1>8. (p + q) * Sector + r = p * Sector + j
  BY <1>4, <1>6
<1> QED BY <1>3, <1>4, <1>5, <1>7, <1>8 DEF Byte

(* One sector more of the file, at its place.                              *)
LEMMA Reads ==
  ASSUME TypeOK, NEW q \in Nat, stream.sector = Least(q, SectorsOf(song))
  PROVE  /\ Advanced(1) = Least(q + 1, SectorsOf(song))
         /\ \A a \in Cells :
              /\ a < q * Sector \/ a >= (q + 1) * Sector => Filled(q * Sector, 1)[a] = sound_buffer[a]
              /\ q * Sector <= a /\ a < (q + 1) * Sector /\ a < SectorsOf(song) * Sector =>
                   Filled(q * Sector, 1)[a] = <<song, a>>
<1>1. SectorsOf(song) \in Nat /\ Sector \in Nat \ {0}
  BY Constants_, SectorsOfFile DEF TypeOK
<1>2. q * Sector \in Nat /\ (q + 1) * Sector = q * Sector + Sector /\ 1 * Sector = Sector /\ SectorsOf(song) * Sector \in Nat
  BY <1>1, Times
<1>3. Advanced(1) = Least(q + 1, SectorsOf(song))
  BY <1>1 DEF Advanced, Least
<1>4. ASSUME NEW a \in Cells, a < q * Sector \/ a >= (q + 1) * Sector
      PROVE  Filled(q * Sector, 1)[a] = sound_buffer[a]
  BY <1>2, <1>4, Outside
<1>5. ASSUME NEW a \in Cells, q * Sector <= a, a < (q + 1) * Sector, a < SectorsOf(song) * Sector
      PROVE  Filled(q * Sector, 1)[a] = <<song, a>>
  <2>1. PICK j \in Nat : a = q * Sector + j /\ j < 1 * Sector
    <3>1. PICK x \in Nat : x = q * Sector
      BY <1>2
    <3>2. a \in Nat /\ x <= a /\ a < x + Sector
      BY <1>1, <1>2, <1>5, <3>1, Cells_
    <3>3. a - x \in Nat /\ a = x + (a - x) /\ a - x < Sector
      BY <1>1, <3>2
    <3> QED BY <1>2, <3>1, <3>3
  <2>2. q < SectorsOf(song)
    <3>1. PICK x \in Nat, y \in Nat : x = q * Sector /\ y = SectorsOf(song) * Sector
      BY <1>2
    <3>2. x <= a /\ a < y /\ a \in Nat
      BY <1>5, <3>1, Cells_
    <3>3. x < y
      BY <3>2
    <3> QED BY <1>1, <3>1, <3>3, Times
  <2>3. stream.sector = q
    BY <1>1, <2>2 DEF Least
  <2> QED BY <1>5, <2>1, <2>3, <1>2, Inside
<1> QED BY <1>3, <1>4, <1>5

-----------------------------------------------------------------------------
(* The shell, the card and the handler while only one song is under way:   *)
(* which part of which buffer is played, and what it holds.                *)
Good(f) == Aligned(f) /\ HasAudio(f)
Active == card.left > 0 \/ pending
End == Len(heard) + card.left

Formatted ==
  /\ Info[song].start \in 1 .. Chunk /\ stream.frame = Info[song].frame /\ stream.cur_buf = 0
  /\ stream.remaining = Total(song) - FirstLength(song)

Layout ==
  /\ pending => card.left = 0
  /\ pc \in {"first", "move", "start"} => ~ Active
  /\ pc \in {"move", "start"} => Formatted /\ stream.playing /\ len = FirstLength(song)
  /\ pc \in {"fill", "second"} =>
       /\ Formatted /\ song = onair
       /\ card.left > 0 => card.at + card.left = IF FirstLength(song) = 0 THEN 2 * Chunk ELSE FirstLength(song)
       /\ upset = "no" => ~ pending
       /\ upset = "late" => card.left = 0 /\ (pending => stream.next_len = 0)
       /\ Active => stream.playing
  /\ pc = "second" => len = FillLength(stream)
  /\ pc = "idle" /\ Active =>
       /\ song = onair /\ stream.playing /\ stream.frame = Info[song].frame
       /\ stream.next_len % stream.frame = 0
       /\ card.left > 0 =>
            /\ card.at + card.left <= 2 * Chunk
            /\ stream.next_len = 0 \/ (Buffer(stream.cur_buf) <= card.at
                                        /\ card.at + card.left <= Buffer(stream.cur_buf) + Chunk)

Playing == \A a \in ToPlay : sound_buffer[a] = <<song, Info[song].start + Len(heard) + (a - card.at)>>

InFirst ==
  /\ len = Chunk /\ stream.sector = Least(s, SectorsOf(song))
  /\ \A a \in Cells : a < s * Sector /\ a < SectorsOf(song) * Sector => sound_buffer[a] = <<song, a>>
InMove ==
  /\ stream.sector = Least(K, SectorsOf(song))
  /\ \A a \in Cells : a < Chunk /\ a < SectorsOf(song) * Sector => sound_buffer[a] = <<song, a>>
InStart ==
  /\ stream.sector = Least(K, SectorsOf(song))
  /\ \A a \in Cells : a < len => sound_buffer[a] = <<song, Info[song].start + a>>
InFill == stream.sector = Least(K, SectorsOf(song))
InSecond ==
  /\ stream.sector = Least(K + s, SectorsOf(song))
  /\ \A a \in Cells : Chunk <= a /\ a < (K + s) * Sector /\ a < SectorsOf(song) * Sector => sound_buffer[a] = <<song, a>>
InIdle ==
  /\ End + stream.next_len + stream.remaining = Total(song)
  /\ \A j \in Nat : j < stream.next_len =>
       sound_buffer[Buffer(1 - stream.cur_buf) + j] = <<song, Info[song].start + End + j>>
  /\ FillLength(stream) > 0 => stream.sector * Sector = Info[song].start + End + stream.next_len

Content ==
  /\ pc = "first" => InFirst
  /\ pc = "move" => InMove
  /\ pc = "start" => InStart
  /\ pc \in {"fill", "second"} => End = FirstLength(song) /\ Playing
  /\ pc = "fill" => InFill
  /\ pc = "second" => InSecond
  /\ pc = "idle" /\ Active => Playing /\ InIdle /\ Info[song].start \in 1 .. Chunk

Fine == Layout /\ (Good(song) => Content)
Known == Typed /\ heard \in Seq(Audio)
Inv == Known /\ HeardIsAudio /\ (upset # "mixed" => Fine)

LEMMA KnownTypes ==
  ASSUME Known
  PROVE  /\ TypeOK /\ sound_buffer \in [Cells -> Audio] /\ stream \in StreamType /\ song \in Songs /\ onair \in Songs
         /\ s \in 0 .. K /\ len \in 0 .. Chunk /\ card \in CardType /\ pending \in BOOLEAN
         /\ card.at \in Cells /\ card.left \in 0 .. 2 * Chunk /\ upset \in {"no", "late", "mixed"}
         /\ stream.frame \in Nat \ {0} /\ stream.remaining \in 0 .. Word - 1 /\ stream.next_len \in 0 .. Chunk
         /\ stream.sector \in Nat /\ stream.cur_buf \in {0, 1} /\ heard \in Seq(Audio) /\ Len(heard) \in Nat
         /\ Info[song].start \in Nat /\ Info[song].frame \in Nat \ {0} /\ SectorsOf(song) \in Nat
<1>1. /\ TypeOK /\ sound_buffer \in [Cells -> Audio] /\ stream \in StreamType /\ song \in Songs /\ onair \in Songs
      /\ s \in 0 .. K /\ len \in 0 .. Chunk /\ card \in CardType /\ pending \in BOOLEAN
      /\ upset \in {"no", "late", "mixed"} /\ heard \in Seq(Audio)
  BY DEF Known, Typed, TypeOK, CardType, Audio, K
<1>2. Info[song].start \in Nat /\ Info[song].frame \in Nat \ {0} /\ SectorsOf(song) \in Nat
  BY <1>1, Facts, SectorsOfFile
<1> QED BY <1>1, <1>2 DEF StreamType, CardType

LEMMA InitFine == Init => Inv
<1> SUFFICES ASSUME Init PROVE Inv
  OBVIOUS
<1>1. pc = "idle" /\ card.left = 0 /\ ~ pending /\ heard = <<>> /\ ~ Active /\ onair \in Songs
  BY DEF Init, Active
<1>2. Fine
  BY <1>1 DEF Fine, Layout, Content
<1>3. HeardIsAudio
  <2>1. Len(heard) = 0 /\ Info[onair].data \in Nat
    BY <1>1, Facts
  <2> QED BY <2>1 DEF HeardIsAudio
<1> QED BY <1>1, <1>2, <1>3, InitTyped DEF Inv, Known

-----------------------------------------------------------------------------
(* What an action keeps and brings about, one lemma for each.              *)
Quiet == \A a \in ToPlay \cup ToPlay' : sound_buffer'[a] = sound_buffer[a]

LEMMA PlayFine ==
  ASSUME Known, Fine, NEW f \in Songs, Play(f), upset' # "mixed"
  PROVE  Fine' /\ Quiet
<1>1. /\ song' = f /\ stream' = [stream EXCEPT !.sector = 0] /\ pc' = "first" /\ s' = 0 /\ len' = Chunk
      /\ UNCHANGED <<sound_buffer, card, pending, heard>>
  BY DEF Play
<1>2. card.left = 0 /\ ~ pending
  BY DEF Play, Silent
<1>3. Layout'
  BY <1>1, <1>2 DEF Layout, Active
<1>4. stream'.sector = 0
  BY <1>1, KnownTypes DEF StreamType
<1>5. InFirst'
  <2>1. SectorsOf(song') \in Nat
    BY <1>1, SectorsOfFile
  <2>2. stream'.sector = Least(s', SectorsOf(song'))
    BY <1>1, <1>4, <2>1 DEF Least
  <2>3. s' * Sector = 0
    BY <1>1, Constants_
  <2> QED BY <1>1, <2>2, <2>3, Cells_ DEF InFirst
<1>6. Content'
  BY <1>1, <1>5 DEF Content
<1> QED BY <1>1, <1>3, <1>6 DEF Fine, Quiet

LEMMA StopsoundFine == Known /\ Fine /\ Stopsound => Fine' /\ Quiet
<1> SUFFICES ASSUME Known, Stopsound PROVE Fine' /\ Quiet
  OBVIOUS
<1>1. pc' = "idle" /\ ~ pending' /\ card'.left = 0 /\ sound_buffer' = sound_buffer
  BY KnownTypes DEF Stopsound, shell, CardType
<1>2. Fine'
  BY <1>1 DEF Fine, Layout, Content, Active
<1> QED BY <1>1, <1>2 DEF Quiet

LEMMA GiveUpFine == Fine /\ GiveUp => Fine' /\ Quiet
<1> SUFFICES ASSUME Fine, GiveUp PROVE Fine' /\ Quiet
  OBVIOUS
<1>1. pc' = "idle" /\ pc = "first" /\ UNCHANGED <<sound_buffer, card, pending>>
  BY DEF GiveUp
<1>2. ~ Active
  BY <1>1 DEF Fine, Layout
<1>3. ~ Active' /\ ~ pending'
  BY <1>1, <1>2 DEF Active
<1>4. Fine'
  BY <1>1, <1>3 DEF Fine, Layout, Content
<1> QED BY <1>1, <1>4 DEF Quiet

LEMMA Inactive == Known /\ ~ Active => card.left = 0 /\ ~ pending
BY KnownTypes DEF Active

LEMMA ReadFirstFine == Known /\ Fine /\ ReadFirst => Fine' /\ Quiet
<1> SUFFICES ASSUME Known, Fine, ReadFirst PROVE Fine' /\ Quiet
  OBVIOUS
<1>1. /\ pc = "first" /\ pc' = "first" /\ sound_buffer' = Filled(Buffer(0) + s * Sector, 1)
      /\ stream' = [stream EXCEPT !.sector = Advanced(1)] /\ s' = s + 1
      /\ UNCHANGED <<song, len, card, pending, heard>>
  BY DEF ReadFirst, ReadSector
<1>2. ~ Active /\ card.left = 0 /\ ~ pending
  BY <1>1, Inactive DEF Fine, Layout
<1>3. Layout'
  BY <1>1, <1>2 DEF Layout, Active
<1>4. Quiet
  BY <1>1, <1>2, KnownTypes, Cells_ DEF Quiet, ToPlay
<1>5. Good(song') => InFirst'
  <2> SUFFICES ASSUME Good(song) PROVE InFirst'
    BY <1>1
  <2>1. InFirst
    BY <1>1 DEF Fine, Content
  <2>2. PICK q \in Nat : q = s /\ s \in Nat
    BY KnownTypes, Constants_
  <2>3. PICK x \in Nat : x = q * Sector /\ Buffer(0) + s * Sector = x
    BY <2>2, Constants_, Cells_, Times
  <2>4. /\ Advanced(1) = Least(q + 1, SectorsOf(song))
        /\ \A a \in Cells :
             /\ (a < q * Sector \/ a >= (q + 1) * Sector) => Filled(q * Sector, 1)[a] = sound_buffer[a]
             /\ (q * Sector <= a /\ a < (q + 1) * Sector /\ a < SectorsOf(song) * Sector) =>
                  Filled(q * Sector, 1)[a] = <<song, a>>
    BY <2>1, <2>2, KnownTypes, Reads DEF InFirst
  <2>5. sound_buffer' = Filled(x, 1) /\ s' = q + 1
    BY <1>1, <2>2, <2>3
  <2>6. stream'.sector = Least(s', SectorsOf(song))
    BY <1>1, <2>4, <2>5, KnownTypes DEF StreamType
  <2>7. ASSUME NEW a \in Cells, a < (q + 1) * Sector, a < SectorsOf(song) * Sector
        PROVE  sound_buffer'[a] = <<song, a>>
    <3>1. CASE a < x
      <4>1. sound_buffer[a] = <<song, a>>
        BY <2>1, <2>2, <2>3, <2>7, <3>1 DEF InFirst
      <4> QED BY <2>3, <2>4, <2>5, <3>1, <4>1
    <3>2. CASE x <= a
      BY <2>3, <2>4, <2>5, <2>7, <3>2
    <3> QED BY <3>1, <3>2, Cells_
  <2> QED BY <1>1, <2>1, <2>5, <2>6, <2>7 DEF InFirst
<1> QED BY <1>1, <1>3, <1>4, <1>5 DEF Fine, Content

LEMMA FormatFine == Known /\ Fine /\ Format => Fine' /\ Quiet
<1> SUFFICES ASSUME Known, Fine, Format PROVE Fine' /\ Quiet
  OBVIOUS
<1>1. /\ pc = "first" /\ pc' = "move" /\ len' = FirstLength(song) /\ s = SectorsFor(len)
      /\ stream' = [stream EXCEPT !.remaining = Total(song) - FirstLength(song),
                                  !.playing = TRUE, !.frame = Info[song].frame, !.cur_buf = 0]
      /\ UNCHANGED <<sound_buffer, song, s, card, pending, heard>>
      /\ Info[song].start \in 1 .. Chunk
  BY DEF Format, Total, Header
<1>2. ~ Active /\ ~ pending
  BY <1>1 DEF Fine, Layout, Active
<1>3. ~ Active' /\ ~ pending'
  BY <1>1, <1>2 DEF Active
<1>4. /\ stream'.remaining = Total(song) - FirstLength(song) /\ stream'.playing
      /\ stream'.frame = Info[song].frame /\ stream'.cur_buf = 0 /\ stream'.sector = stream.sector
  BY <1>1, KnownTypes DEF StreamType
<1>5. Formatted'
  BY <1>1, <1>4 DEF Formatted, Total, FirstLength
<1>6. Layout'
  BY <1>1, <1>3, <1>4, <1>5 DEF Layout
<1>7. Good(song') => InMove'
  <2> SUFFICES ASSUME Good(song) PROVE InMove'
    BY <1>1
  <2>1. InFirst
    BY <1>1 DEF Fine, Content
  <2>2. s = K
    BY <1>1, <2>1, Sectors_, Constants_ DEF InFirst
  <2>3. \A a \in Cells : a < Chunk /\ a < SectorsOf(song) * Sector => sound_buffer[a] = <<song, a>>
    BY <2>1, <2>2, Constants_ DEF InFirst
  <2> QED BY <1>1, <1>4, <2>1, <2>2, <2>3 DEF InFirst, InMove
<1> QED BY <1>1, <1>6, <1>7 DEF Fine, Content, Quiet, ToPlay

(* How far the audio of a song reaches into its file.                      *)
LEMMA Reaches ==
  ASSUME Sensible, NEW f \in Songs, Info[f].start # 0
  PROVE  Info[f].start + Total(f) <= SectorsOf(f) * Sector /\ SectorsOf(f) * Sector \in Nat
         /\ Total(f) \in Nat /\ Info[f].frame <= Chunk
<1>1. PICK x \in Nat : x = SectorsOf(f) * Sector /\ x >= Info[f].size
  BY SectorsOfFile, Constants_, Times
<1>2. /\ Info[f].start \in Nat /\ Info[f].size \in Nat /\ Info[f].data \in Nat /\ Total(f) \in Nat /\ Total(f) <= Info[f].data
      /\ Info[f].frame \in Nat /\ Info[f].start + Info[f].frame <= Chunk /\ Info[f].start + Info[f].data <= Info[f].size
  BY Facts DEF Sensible
<1> QED BY <1>1, <1>2, Constants_

LEMMA MoveFine == Sensible /\ Known /\ Fine /\ Move => Fine' /\ Quiet
<1> SUFFICES ASSUME Sensible, Known, Fine, Move PROVE Fine' /\ Quiet
  OBVIOUS
<1>1. /\ pc = "move" /\ pc' = "start"
      /\ sound_buffer' = [a \in Cells |-> IF a < len THEN sound_buffer[Info[song].start + a] ELSE sound_buffer[a]]
      /\ UNCHANGED <<stream, song, s, len, card, pending, heard>>
  BY DEF Move
<1>2. ~ Active /\ card.left = 0 /\ ~ pending /\ Formatted /\ stream.playing /\ len = FirstLength(song)
  <2>1. ~ Active /\ Formatted /\ stream.playing /\ len = FirstLength(song)
    BY <1>1 DEF Fine, Layout
  <2> QED BY <2>1, Inactive
<1>3. ~ Active' /\ ~ pending' /\ Formatted'
  BY <1>1, <1>2 DEF Active, Formatted, Total, FirstLength
<1>4. Layout'
  BY <1>1, <1>2, <1>3 DEF Layout, FirstLength
<1>5. Quiet
  BY <1>1, <1>2, KnownTypes, Cells_ DEF Quiet, ToPlay
<1>6. Good(song') => InStart'
  <2> SUFFICES ASSUME Good(song) PROVE InStart'
    BY <1>1
  <2>1. InMove
    BY <1>1 DEF Fine, Content
  <2>2. Info[song].start \in 1 .. Chunk
    BY <1>2 DEF Formatted
  <2>3. len \in 0 .. Chunk - Info[song].start /\ len <= Total(song)
    BY <1>2, <2>2, FirstFills, KnownTypes
  <2>4. PICK e \in Nat : e = SectorsOf(song) * Sector /\ Info[song].start + Total(song) <= e /\ Total(song) \in Nat
    BY <2>2, Reaches, KnownTypes
  <2>5. ASSUME NEW a \in Cells, a < len PROVE sound_buffer'[a] = <<song, Info[song].start + a>>
    <3>1. a \in Nat /\ Chunk \in Nat
      BY Cells_, Constants_
    <3>2. Info[song].start + a \in Nat /\ Info[song].start + a < Chunk /\ Info[song].start + a < e
      BY <2>2, <2>3, <2>4, <2>5, <3>1
    <3>3. Info[song].start + a \in Cells
      BY <3>1, <3>2, Cells_
    <3>4. sound_buffer[Info[song].start + a] = <<song, Info[song].start + a>>
      BY <2>1, <2>4, <3>2, <3>3 DEF InMove
    <3> QED BY <1>1, <2>5, <3>4
  <2> QED BY <1>1, <2>1, <2>5 DEF InMove, InStart
<1> QED BY <1>1, <1>4, <1>5, <1>6 DEF Fine, Content

LEMMA StartFine ==
  ASSUME Sensible, Known, Fine, Start, upset' # "mixed"
  PROVE  Fine' /\ Quiet
<1>1. /\ pc = "start" /\ pc' = "fill" /\ StartCard(Buffer(0), len) /\ onair' = song /\ heard' = <<>> /\ upset' = "no"
      /\ UNCHANGED <<sound_buffer, stream, song, s, len, pending>>
  BY DEF Start
<1>2. ~ Active /\ card.left = 0 /\ ~ pending /\ Formatted /\ stream.playing /\ len = FirstLength(song)
  <2>1. ~ Active /\ Formatted /\ stream.playing /\ len = FirstLength(song)
    BY <1>1 DEF Fine, Layout
  <2> QED BY <2>1, Inactive
<1>3. Info[song].start \in 1 .. Chunk /\ stream.frame = Info[song].frame
  BY <1>2 DEF Formatted
<1>4. /\ len % stream.frame = 0 /\ len \in 0 .. Chunk
      /\ Good(song) => len > 0
  <2>1. /\ FirstLength(song) % Info[song].frame = 0
        /\ Total(song) >= Info[song].frame /\ Info[song].start + Info[song].frame <= Chunk => FirstLength(song) > 0
    BY <1>3, FirstFills, KnownTypes
  <2>2. Info[song].start + Info[song].frame <= Chunk
    BY <1>3, KnownTypes DEF Sensible
  <2>3. Good(song) => Total(song) >= Info[song].frame
    BY DEF Good, HasAudio, Total
  <2> QED BY <1>2, <1>3, <2>1, <2>2, <2>3, KnownTypes
<1>5. card'.at = 0 /\ card'.left = IF len = 0 THEN 2 * Chunk ELSE len
  <2>1. stream'.frame \in Nat \ {0} /\ len % stream'.frame = 0
    BY <1>1, <1>4, KnownTypes
  <2> QED BY <1>1, <1>4, <2>1, Started, Cells_
<1>6. Formatted' /\ card'.at + card'.left = IF FirstLength(song') = 0 THEN 2 * Chunk ELSE FirstLength(song')
  <2>1. card'.at + card'.left = IF len = 0 THEN 2 * Chunk ELSE len
    BY <1>4, <1>5, Constants_
  <2>2. Formatted'
    BY <1>1, <1>2 DEF Formatted, Total, FirstLength
  <2> QED BY <1>1, <1>2, <2>1, <2>2
<1>7. Layout'
  BY <1>1, <1>2, <1>6 DEF Layout
<1>8. Good(song') => (End' = FirstLength(song') /\ Playing' /\ InFill')
  <2> SUFFICES ASSUME Good(song) PROVE End' = FirstLength(song) /\ Playing' /\ InFill'
    BY <1>1
  <2>1. InStart
    BY <1>1 DEF Fine, Content
  <2>2. card'.left = len /\ Len(heard') = 0
    BY <1>1, <1>4, <1>5
  <2>3. ASSUME NEW a \in ToPlay' PROVE sound_buffer'[a] = <<song', Info[song'].start + Len(heard') + (a - card'.at)>>
    <3>1. a \in Cells /\ a \in Nat /\ a < len
      BY <1>4, <1>5, <2>2, <2>3, Cells_ DEF ToPlay
    <3>2. sound_buffer[a] = <<song, Info[song].start + a>>
      BY <2>1, <3>1 DEF InStart
    <3>3. Info[song].start + 0 + (a - 0) = Info[song].start + a
      BY <1>3, <3>1
    <3> QED BY <1>1, <1>5, <2>2, <3>2, <3>3
  <2>4. InFill'
    BY <1>1, <2>1 DEF InFill, InStart
  <2> QED BY <1>1, <1>2, <1>4, <2>2, <2>3, <2>4 DEF End, Playing
<1> QED BY <1>1, <1>7, <1>8 DEF Fine, Content, Quiet

(* While buffer 1 is filled for the first time.                            *)
LEMMA Filling ==
  ASSUME Sensible, Known, Fine, pc \in {"fill", "second"}
  PROVE  /\ Formatted /\ song = onair /\ Info[song].start \in 1 .. Chunk
         /\ FirstLength(song) \in 0 .. Chunk - Info[song].start
         /\ card.left > 0 => card.at + card.left = IF FirstLength(song) = 0 THEN 2 * Chunk ELSE FirstLength(song)
         /\ FirstLength(song) = 0 => FillLength(stream) = 0
         /\ Good(song) => FirstLength(song) > 0
         /\ Good(song) /\ FillLength(stream) > 0 => Info[song].start + FirstLength(song) = Chunk
         /\ upset # "mixed" => (upset = "no" /\ ~ pending) \/ (card.left = 0 /\ (pending => stream.next_len = 0))
<1>1. /\ Formatted /\ song = onair
      /\ card.left > 0 => card.at + card.left = IF FirstLength(song) = 0 THEN 2 * Chunk ELSE FirstLength(song)
      /\ upset = "no" => ~ pending
      /\ upset = "late" => card.left = 0 /\ (pending => stream.next_len = 0)
  BY DEF Fine, Layout
<1>2. /\ Info[song].start \in 1 .. Chunk /\ stream.frame = Info[song].frame
      /\ stream.remaining = Total(song) - FirstLength(song)
  BY <1>1 DEF Formatted
<1>3. /\ FirstLength(song) \in 0 .. Chunk - Info[song].start /\ FirstLength(song) <= Total(song)
      /\ Total(song) >= Info[song].frame /\ Info[song].start + Info[song].frame <= Chunk => FirstLength(song) > 0
      /\ FirstLength(song) # Chunk - Info[song].start /\ Aligned(song) => Total(song) - FirstLength(song) < Info[song].frame
  BY <1>2, FirstFills, KnownTypes
<1>4. Info[song].start + Info[song].frame <= Chunk /\ Info[song].frame <= Chunk
  BY <1>2, KnownTypes, Constants_ DEF Sensible
<1>5. stream.remaining < stream.frame => FillLength(stream) = 0
  BY <1>2, <1>4, KnownTypes, Fills
<1>6. FillLength(stream) \in Nat /\ Total(song) \in Nat
  BY KnownTypes, Fills, Facts, Constants_
<1>7. FirstLength(song) = 0 => FillLength(stream) = 0
  BY <1>2, <1>3, <1>4, <1>5, <1>6, KnownTypes
<1>8. Good(song) => FirstLength(song) > 0
  <2>1. Good(song) => Total(song) >= Info[song].frame
    BY DEF Good, HasAudio, Total
  <2> QED BY <1>3, <1>4, <2>1
<1>9. Good(song) /\ FillLength(stream) > 0 => Info[song].start + FirstLength(song) = Chunk
  <2> SUFFICES ASSUME Good(song), FillLength(stream) > 0 PROVE Info[song].start + FirstLength(song) = Chunk
    OBVIOUS
  <2>1. FirstLength(song) = Chunk - Info[song].start
    BY <1>2, <1>3, <1>5, <1>6 DEF Good
  <2> QED BY <1>2, <2>1, Constants_
<1>10. upset # "mixed" => (upset = "no" /\ ~ pending) \/ (card.left = 0 /\ (pending => stream.next_len = 0))
  BY <1>1, KnownTypes
<1> QED BY <1>1, <1>2, <1>3, <1>7, <1>8, <1>9, <1>10

LEMMA FillBeginFine ==
  ASSUME Sensible, Known, Fine, FillBegin
  PROVE  Fine' /\ Quiet
<1>1. pc = "fill" /\ s' = 0 /\ UNCHANGED <<sound_buffer, song, card, pending, onair, heard, upset>>
  BY DEF FillBegin
<1>2. /\ Formatted /\ song = onair /\ Info[song].start \in 1 .. Chunk
      /\ FirstLength(song) \in 0 .. Chunk - Info[song].start
      /\ card.left > 0 => card.at + card.left = IF FirstLength(song) = 0 THEN 2 * Chunk ELSE FirstLength(song)
  BY <1>1, Filling
<1>3. /\ pending => card.left = 0
      /\ Active => stream.playing
      /\ upset = "no" => ~ pending
      /\ upset = "late" => card.left = 0 /\ (pending => stream.next_len = 0)
  BY <1>1 DEF Fine, Layout
<1>4. Good(song) => End = FirstLength(song) /\ Playing /\ InFill
  BY <1>1 DEF Fine, Content
<1>5. (Active' <=> Active) /\ End' = End /\ (Playing' <=> Playing) /\ (Good(song') <=> Good(song))
  BY <1>1 DEF Active, End, Playing, ToPlay, Good
<1>6. Quiet
  BY <1>1 DEF Quiet
<1>7. CASE stream.remaining = 0
  <2>1. pc' = "idle" /\ stream' = [stream EXCEPT !.next_len = 0]
    BY <1>7 DEF FillBegin
  <2>2. /\ stream'.next_len = 0 /\ stream'.playing = stream.playing /\ stream'.frame = stream.frame
        /\ stream'.remaining = 0
    BY <2>1, <1>7, KnownTypes DEF StreamType
  <2>3. card.left > 0 => card.at + card.left <= 2 * Chunk
    BY <1>2, Constants_
  <2>4. stream'.next_len % stream'.frame = 0
    BY <2>2, KnownTypes
  <2>5. stream.frame = Info[song].frame
    BY <1>2 DEF Formatted
  <2>6. Layout'
    BY <1>1, <1>2, <1>3, <1>5, <2>1, <2>2, <2>3, <2>4, <2>5 DEF Layout
  <2>7. ASSUME Good(song) PROVE InIdle'
    <3>1. Total(song) = FirstLength(song)
      BY <1>2, <1>7, KnownTypes, FirstFills, Facts DEF Formatted
    <3>2. End' + stream'.next_len + stream'.remaining = Total(song')
      BY <1>1, <1>2, <1>4, <1>5, <2>2, <2>7, <3>1
    <3>3. FillLength(stream') = 0
      <4>1. stream' \in StreamType
        <5>1. stream \in StreamType /\ 0 \in 0 .. Chunk
          BY KnownTypes, Constants_
        <5> QED BY <2>1, <5>1 DEF StreamType
      <4> QED BY <4>1, <2>2, Fills, Constants_
    <3> QED BY <2>2, <3>2, <3>3 DEF InIdle
  <2> QED BY <1>1, <1>2, <1>4, <1>5, <1>6, <2>1, <2>6, <2>7 DEF Fine, Content
<1>8. CASE stream.remaining # 0
  <2>1. pc' = "second" /\ len' = FillLength(stream) /\ stream' = stream
    BY <1>8 DEF FillBegin
  <2>2. Formatted'
    BY <1>1, <1>2, <2>1 DEF Formatted, Total, FirstLength
  <2>3. Layout'
    BY <1>1, <1>2, <1>3, <1>5, <2>1, <2>2 DEF Layout, FirstLength
  <2>4. ASSUME Good(song) PROVE InSecond'
    <3>1. stream'.sector = Least(K + s', SectorsOf(song')) /\ (K + s') * Sector = Chunk
      BY <1>1, <1>4, <2>1, <2>4, Constants_ DEF InFill
    <3> QED BY <3>1, Cells_, Constants_ DEF InSecond
  <2> QED BY <1>1, <1>4, <1>5, <1>6, <2>1, <2>3, <2>4 DEF Fine, Content, FirstLength
<1> QED BY <1>7, <1>8

LEMMA CardPlaysFine ==
  ASSUME Sensible, Known, Fine, CardPlays, upset # "mixed", upset' # "mixed"
  PROVE  /\ Fine' /\ Quiet /\ song = onair
         /\ Good(song) => /\ sound_buffer[card.at] = <<song, Info[song].start + Len(heard)>>
                          /\ Len(heard) + 1 <= Total(song)
<1>1. /\ card.left > 0 /\ Len(heard') = Len(heard) + 1
      /\ card' = [at |-> (card.at + 1) % (2 * Chunk), left |-> card.left - 1]
      /\ pending' = (pending \/ card.left = 1)
      /\ UNCHANGED <<sound_buffer, stream, song, pc, s, len, onair>>
  BY KnownTypes DEF CardPlays, shell
<1>2. Active /\ ~ pending /\ pc \in {"fill", "second", "idle"} /\ stream.playing /\ song = onair
  <2>1. Active
    BY <1>1 DEF Active
  <2>2. ~ (pc \in {"first", "move", "start"})
    BY <2>1 DEF Fine, Layout
  <2>3. pc \in {"fill", "second", "idle"}
    BY <2>2, KnownTypes DEF TypeOK
  <2>4. ~ pending
    BY <1>1, KnownTypes DEF Fine, Layout
  <2>5. stream.playing /\ song = onair
    BY <2>1, <2>3 DEF Fine, Layout
  <2> QED BY <2>1, <2>3, <2>4, <2>5
<1>3. card.at \in Nat /\ card.left \in Nat /\ card.at + card.left <= 2 * Chunk
  <2>1. card.at \in Nat /\ card.left \in Nat /\ Chunk \in Nat
    BY KnownTypes, Cells_, Constants_
  <2>2. CASE pc \in {"fill", "second"}
    <3>1. /\ card.at + card.left = IF FirstLength(song) = 0 THEN 2 * Chunk ELSE FirstLength(song)
          /\ FirstLength(song) \in 0 .. Chunk - Info[song].start /\ Info[song].start \in 1 .. Chunk
      BY <1>1, <2>2, Filling
    <3> QED BY <2>1, <3>1
  <2>3. CASE pc = "idle"
    BY <1>1, <1>2, <2>3, <2>1 DEF Fine, Layout
  <2> QED BY <1>2, <2>1, <2>2, <2>3
<1>4. /\ card'.left = card.left - 1 /\ card'.at \in Nat
      /\ card.left > 1 => card'.at = card.at + 1
  <2>1. 2 * Chunk \in Nat \ {0} /\ (card.left > 1 => card.at + 1 \in 0 .. 2 * Chunk - 1)
    BY <1>3, Constants_
  <2>2. ASSUME card.left > 1 PROVE (card.at + 1) % (2 * Chunk) = card.at + 1
    BY <2>1, <2>2, Small
  <2>3. (card.at + 1) % (2 * Chunk) \in Nat
    BY <1>3, <2>1
  <2> QED BY <1>1, <2>2, <2>3
<1>5. card'.left > 0 => card'.at = card.at + 1 /\ card'.at + card'.left = card.at + card.left
  BY <1>3, <1>4
<1>6. pending' <=> card.left = 1
  BY <1>1, <1>2
<1>7. pending' => card'.left = 0
  BY <1>3, <1>4, <1>6
<1>8. pc \in {"fill", "second"} =>
        /\ upset = "no"
        /\ card.left = 1 => stream.next_len = 0 /\ upset' = "late"
        /\ card.left > 1 => upset' = "no"
  <2> SUFFICES ASSUME pc \in {"fill", "second"}
               PROVE  /\ upset = "no"
                      /\ card.left = 1 => stream.next_len = 0 /\ upset' = "late"
                      /\ card.left > 1 => upset' = "no"
    OBVIOUS
  <2>1. upset = "no"
    BY <1>1, KnownTypes, Filling
  <2> QED BY <2>1 DEF CardPlays
<1>9. Layout'
  <2>1. pc \in {"fill", "second"} => Formatted /\ Formatted'
    BY <1>1 DEF Fine, Layout, Formatted, Total, FirstLength
  <2>2. ASSUME pc' \in {"fill", "second"}
        PROVE  /\ Formatted' /\ song' = onair'
               /\ card'.left > 0 => card'.at + card'.left = IF FirstLength(song') = 0 THEN 2 * Chunk ELSE FirstLength(song')
               /\ upset' = "no" => ~ pending'
               /\ upset' = "late" => card'.left = 0 /\ (pending' => stream'.next_len = 0)
               /\ Active' => stream'.playing
    <3>1. card.at + card.left = IF FirstLength(song) = 0 THEN 2 * Chunk ELSE FirstLength(song)
      BY <1>1, <2>2, Filling
    <3>2. card.left = 1 \/ card.left > 1
      BY <1>1, <1>3
    <3>3. upset' = "no" => ~ pending'
      BY <1>1, <1>6, <1>8, <2>2
    <3>4. upset' = "late" => card'.left = 0 /\ (pending' => stream'.next_len = 0)
      BY <1>1, <1>3, <1>4, <1>6, <1>8, <2>2, <3>2
    <3> QED BY <1>1, <1>2, <1>5, <2>1, <2>2, <3>1, <3>3, <3>4
  <2>3. pc' = "second" => len' = FillLength(stream')
    BY <1>1 DEF Fine, Layout
  <2>4. ASSUME pc' = "idle"
        PROVE  /\ song' = onair' /\ stream'.playing /\ stream'.frame = Info[song'].frame
               /\ stream'.next_len % stream'.frame = 0
               /\ card'.left > 0 =>
                    /\ card'.at + card'.left <= 2 * Chunk
                    /\ stream'.next_len = 0 \/ (Buffer(stream'.cur_buf) <= card'.at
                                                 /\ card'.at + card'.left <= Buffer(stream'.cur_buf) + Chunk)
    <3>1. /\ stream.frame = Info[song].frame /\ stream.next_len % stream.frame = 0
          /\ stream.next_len = 0 \/ (Buffer(stream.cur_buf) <= card.at /\ card.at + card.left <= Buffer(stream.cur_buf) + Chunk)
      BY <1>1, <1>2, <2>4 DEF Fine, Layout
    <3>2. Buffer(stream.cur_buf) \in Nat
      BY KnownTypes, Cells_
    <3>3. card'.left > 0 /\ Buffer(stream.cur_buf) <= card.at => Buffer(stream.cur_buf) <= card'.at
      BY <1>3, <1>5, <3>2
    <3> QED BY <1>1, <1>2, <1>3, <1>5, <3>1, <3>3
  <2> QED BY <1>1, <1>2, <1>7, <2>2, <2>3, <2>4 DEF Layout
<1>10. Quiet
  BY <1>1 DEF Quiet
<1>11. ASSUME Good(song)
       PROVE  /\ Content'
              /\ sound_buffer[card.at] = <<song, Info[song].start + Len(heard)>>
              /\ Len(heard) + 1 <= Total(song)
  <2>1. Playing
    BY <1>2, <1>11 DEF Fine, Content
  <2>2. End' = End /\ End >= Len(heard) + 1
    <3>1. Len(heard) \in Nat
      BY KnownTypes
    <3>2. End' = (Len(heard) + 1) + (card.left - 1)
      BY <1>1, <1>4 DEF End
    <3> QED BY <1>1, <1>3, <3>1, <3>2 DEF End
  <2>3. Playing'
    <3> SUFFICES ASSUME NEW a \in ToPlay'
                 PROVE  sound_buffer[a] = <<song, Info[song].start + (Len(heard) + 1) + (a - card'.at)>>
      BY <1>1 DEF Playing
    <3>1. a \in Nat /\ a >= card'.at /\ a < card'.at + card'.left /\ a \in Cells
      BY Cells_ DEF ToPlay
    <3>2. card'.left > 0 /\ card'.at = card.at + 1
      BY <1>3, <1>4, <1>5, <3>1
    <3>3. a \in ToPlay
      BY <1>3, <1>4, <3>1, <3>2 DEF ToPlay
    <3>4. sound_buffer[a] = <<song, Info[song].start + Len(heard) + (a - card.at)>>
      BY <2>1, <3>3 DEF Playing
    <3>5. Info[song].start + Len(heard) + (a - card.at) = Info[song].start + (Len(heard) + 1) + (a - card'.at)
      <4>1. PICK x \in Nat, y \in Nat : x = Info[song].start /\ y = Len(heard)
        BY KnownTypes
      <4>2. PICK c \in Nat : c = card.at /\ card'.at = c + 1
        BY <1>3, <3>2
      <4>3. x + y + (a - c) = x + (y + 1) + (a - (c + 1))
        BY <3>1
      <4> QED BY <4>1, <4>2, <4>3
    <3> QED BY <3>4, <3>5
  <2>4. sound_buffer[card.at] = <<song, Info[song].start + Len(heard)>>
    <3>1. card.at \in ToPlay
      BY <1>1, <1>3, KnownTypes DEF ToPlay
    <3>2. Info[song].start + Len(heard) + (card.at - card.at) = Info[song].start + Len(heard)
      BY <1>3, KnownTypes
    <3> QED BY <2>1, <3>1, <3>2 DEF Playing
  <2>5. CASE pc \in {"fill", "second"}
    <3>1. End = FirstLength(song) /\ (pc = "fill" => InFill) /\ (pc = "second" => InSecond)
      BY <1>11, <2>5 DEF Fine, Content
    <3>2. FirstLength(song) <= Total(song) /\ Total(song) \in Nat /\ FirstLength(song) \in Nat
      <4>1. Info[song].start \in 1 .. Chunk
        BY <2>5, Filling
      <4> QED BY <4>1, KnownTypes, FirstFills, Facts
    <3>3. Len(heard) + 1 <= Total(song)
      BY <2>2, <3>1, <3>2, KnownTypes
    <3>4. FirstLength(song') = FirstLength(song) /\ (InFill' <=> InFill) /\ (InSecond' <=> InSecond)
      BY <1>1 DEF FirstLength, InFill, InSecond
    <3> QED BY <1>1, <2>2, <2>3, <2>4, <2>5, <3>1, <3>3, <3>4 DEF Content
  <2>6. CASE pc = "idle"
    <3>1. InIdle /\ Info[song].start \in 1 .. Chunk
      BY <1>2, <1>11, <2>6 DEF Fine, Content
    <3>2. End + stream.next_len + stream.remaining = Total(song) /\ End \in Nat
      BY <1>3, <3>1, KnownTypes DEF InIdle, End
    <3>3. Len(heard) + 1 <= Total(song)
      <4>1. stream.next_len \in Nat /\ stream.remaining \in Nat /\ Len(heard) \in Nat
        BY KnownTypes, Constants_
      <4> QED BY <2>2, <3>2, <4>1
    <3>4. InIdle'
      BY <1>1, <2>2, <3>1 DEF InIdle
    <3> QED BY <1>1, <2>3, <2>4, <2>6, <3>1, <3>3, <3>4 DEF Content
  <2> QED BY <1>2, <2>5, <2>6
<1>12. Good(song') <=> Good(song)
  BY <1>1
<1> QED BY <1>2, <1>9, <1>10, <1>11, <1>12 DEF Fine

LEMMA ReadSecondFine ==
  ASSUME Sensible, Known, Fine, ReadSecond
  PROVE  Fine' /\ Quiet
<1>1. /\ pc = "second" /\ pc' = "second" /\ s < SectorsFor(len)
      /\ sound_buffer' = Filled(Buffer(1) + s * Sector, 1)
      /\ stream' = [stream EXCEPT !.sector = Advanced(1)] /\ s' = s + 1
      /\ UNCHANGED <<song, pc, len, card, pending, onair, heard, upset>>
  BY DEF ReadSecond, ReadSector
<1>2. /\ stream'.remaining = stream.remaining /\ stream'.frame = stream.frame /\ stream'.playing = stream.playing
      /\ stream'.cur_buf = stream.cur_buf /\ stream'.next_len = stream.next_len /\ stream'.sector = Advanced(1)
  BY <1>1, KnownTypes DEF StreamType
<1>3. FillLength(stream') = FillLength(stream)
  BY <1>2 DEF FillLength
<1>4. /\ card.left > 0 => card.at + card.left = IF FirstLength(song) = 0 THEN 2 * Chunk ELSE FirstLength(song)
      /\ FirstLength(song) \in 0 .. Chunk - Info[song].start /\ Info[song].start \in 1 .. Chunk
      /\ FirstLength(song) = 0 => FillLength(stream) = 0
  BY <1>1, Filling
<1>5. Layout'
  <2>1. Formatted' <=> Formatted
    BY <1>1, <1>2 DEF Formatted, Total, FirstLength
  <2>2. Active' <=> Active
    BY <1>1 DEF Active
  <2> QED BY <1>1, <1>2, <1>3, <2>1, <2>2 DEF Fine, Layout, FirstLength
<1>6. len = FillLength(stream)
  BY <1>1 DEF Fine, Layout
<1>7. FirstLength(song) # 0
  BY <1>1, <1>4, <1>6, Sectors_, KnownTypes
<1>8. PICK q \in Nat, x \in Nat : q = K + s /\ x = q * Sector /\ x = Buffer(1) + s * Sector /\ x >= Chunk
  <2>1. s \in Nat /\ K + s \in Nat /\ s * Sector \in Nat
    <3>1. s \in Nat /\ K \in Nat
      BY KnownTypes, Constants_
    <3> QED BY <3>1, Constants_, Times
  <2>2. (K + s) * Sector = K * Sector + s * Sector
    BY <2>1, Constants_, Times
  <2>3. (K + s) * Sector = Buffer(1) + s * Sector /\ (K + s) * Sector \in Nat /\ (K + s) * Sector >= Chunk
    BY <2>1, <2>2, Constants_, Cells_
  <2> QED BY <2>1, <2>3
<1>9. (q + 1) * Sector = x + Sector
  BY <1>8, Constants_, Times
<1>10. sound_buffer' = Filled(x, 1)
  BY <1>1, <1>8
<1>11. ASSUME NEW a \in Cells, a < x PROVE sound_buffer'[a] = sound_buffer[a]
  BY <1>8, <1>10, <1>11, KnownTypes, Outside
<1>12. ASSUME NEW a \in ToPlay PROVE a < Chunk /\ a \in Cells /\ a < x
  <2>1. a \in Nat /\ a >= card.at /\ a < card.at + card.left /\ card.left > 0 /\ a \in Cells
    BY KnownTypes, Cells_ DEF ToPlay
  <2>2. a < FirstLength(song)
    BY <1>4, <1>7, <2>1
  <2> QED BY <1>4, <1>8, <2>1, <2>2, Constants_
<1>13. ToPlay' = ToPlay
  BY <1>1 DEF ToPlay
<1>14. Quiet
  BY <1>11, <1>12, <1>13 DEF Quiet
<1>15. ASSUME Good(song) PROVE End' = FirstLength(song') /\ Playing' /\ InSecond'
  <2>1. End = FirstLength(song) /\ Playing /\ InSecond
    BY <1>1, <1>15 DEF Fine, Content
  <2>2. End' = FirstLength(song')
    BY <1>1, <2>1 DEF End, FirstLength
  <2>3. Playing'
    BY <1>1, <1>11, <1>12, <1>13, <2>1 DEF Playing
  <2>4. /\ Advanced(1) = Least(q + 1, SectorsOf(song))
        /\ \A a \in Cells : (q * Sector <= a /\ a < (q + 1) * Sector /\ a < SectorsOf(song) * Sector) =>
                              Filled(q * Sector, 1)[a] = <<song, a>>
    BY <1>8, <2>1, KnownTypes, Reads DEF InSecond
  <2>5. K + s' = q + 1
    BY <1>1, <1>8, KnownTypes, Constants_
  <2>6. stream'.sector = Least(K + s', SectorsOf(song'))
    BY <1>1, <1>2, <2>4, <2>5
  <2>7. ASSUME NEW a \in Cells, Chunk <= a, a < (q + 1) * Sector, a < SectorsOf(song) * Sector
        PROVE  sound_buffer'[a] = <<song, a>>
    <3>1. CASE a < x
      <4>1. sound_buffer[a] = <<song, a>>
        BY <1>8, <2>1, <2>7, <3>1 DEF InSecond
      <4> QED BY <1>11, <3>1, <4>1
    <3>2. CASE x <= a
      BY <1>8, <1>10, <2>4, <2>7, <3>2
    <3> QED BY <1>8, <3>1, <3>2, Cells_
  <2>8. InSecond'
    BY <1>1, <2>5, <2>6, <2>7 DEF InSecond
  <2> QED BY <2>2, <2>3, <2>8
<1>16. (Good(song') <=> Good(song))
  BY <1>1
<1> QED BY <1>1, <1>5, <1>14, <1>15, <1>16 DEF Fine, Content

LEMMA FillEndFine ==
  ASSUME Sensible, Known, Fine, FillEnd
  PROVE  Fine' /\ Quiet
<1>1. /\ pc = "second" /\ pc' = "idle" /\ s = SectorsFor(len)
      /\ stream' = [stream EXCEPT !.remaining = (stream.remaining - len) % Word, !.next_len = len]
      /\ UNCHANGED <<sound_buffer, song, card, pending, onair, heard, upset>>
  BY KnownTypes DEF FillEnd, StreamType
<1>2. /\ Formatted /\ song = onair /\ Info[song].start \in 1 .. Chunk
      /\ FirstLength(song) \in 0 .. Chunk - Info[song].start
      /\ card.left > 0 => card.at + card.left = IF FirstLength(song) = 0 THEN 2 * Chunk ELSE FirstLength(song)
      /\ FirstLength(song) = 0 => FillLength(stream) = 0
      /\ Good(song) /\ FillLength(stream) > 0 => Info[song].start + FirstLength(song) = Chunk
  BY <1>1, Filling
<1>3. len = FillLength(stream)
  BY <1>1 DEF Fine, Layout
<1>4. Quiet
  BY <1>1 DEF Quiet
<1>5. /\ len \in 0 .. Chunk /\ len <= stream.remaining /\ len % stream.frame = 0
      /\ Chunk % stream.frame = 0
      /\ len # Chunk => stream.remaining - len < stream.frame
      /\ stream.frame <= Chunk
  <2>1. stream.frame = Info[song].frame /\ Info[song].start + Info[song].frame <= Chunk
    BY <1>2, KnownTypes DEF Formatted, Sensible
  <2>2. Chunk % stream.frame = 0 /\ stream.frame <= Chunk
    <3>1. Chunk % Info[song].frame = 0
      BY KnownTypes, Facts
    <3>2. Info[song].frame <= Chunk
      <4>1. Info[song].start \in Nat /\ Info[song].frame \in Nat /\ Chunk \in Nat
        BY KnownTypes, Constants_
      <4> QED BY <2>1, <4>1
    <3> QED BY <2>1, <3>1, <3>2
  <2> QED BY <1>3, <2>2, KnownTypes, Fills
<1>6. (stream.remaining - len) % Word = stream.remaining - len /\ stream.remaining - len \in Nat
  <2>1. PICK d \in 0 .. Word - 1 : d = stream.remaining - len
    BY <1>5, KnownTypes, Constants_
  <2>2. d % Word = d
    BY Small, Constants_
  <2> QED BY <2>1, <2>2, Constants_
<1>7. /\ stream'.remaining = stream.remaining - len /\ stream'.next_len = len /\ stream'.frame = stream.frame
      /\ stream'.playing = stream.playing /\ stream'.cur_buf = stream.cur_buf /\ stream'.sector = stream.sector
  BY <1>1, <1>6, KnownTypes DEF StreamType
<1>8. stream.cur_buf = 0 /\ stream.frame = Info[song].frame /\ stream.remaining = Total(song) - FirstLength(song)
  BY <1>2 DEF Formatted
<1>9. Active' = Active /\ (Active => stream.playing) /\ (pending => card.left = 0)
  BY <1>1 DEF Active, Fine, Layout
<1>10. card.left > 0 =>
         /\ card.at + card.left <= 2 * Chunk
         /\ len = 0 \/ (Buffer(0) <= card.at /\ card.at + card.left <= Buffer(0) + Chunk)
  <2>1. Chunk \in Nat /\ Buffer(0) = 0 /\ card.at \in Nat /\ card.left \in Nat
    BY KnownTypes, Cells_, Constants_
  <2>2. FirstLength(song) \in Nat /\ FirstLength(song) <= Chunk
    BY <1>2, <2>1
  <2> QED BY <1>2, <1>3, <2>1, <2>2
<1>11. Layout'
  BY <1>1, <1>2, <1>5, <1>7, <1>8, <1>9, <1>10 DEF Layout
<1>12. ASSUME Good(song) PROVE Playing' /\ InIdle'
  <2>1. End = FirstLength(song) /\ Playing /\ InSecond
    BY <1>1, <1>12 DEF Fine, Content
  <2>2. Playing'
    BY <1>1, <2>1 DEF Playing, ToPlay
  <2>3. End' = FirstLength(song)
    BY <1>1, <2>1 DEF End
  <2>4. PICK e \in Nat : e = SectorsOf(song) * Sector /\ Info[song].start + Total(song) <= e /\ Total(song) \in Nat
    BY <1>2, Reaches, KnownTypes
  <2>5. FirstLength(song) \in Nat /\ Info[song].start \in Nat /\ Chunk \in Nat /\ len \in Nat
    BY <1>2, <1>5, Constants_
  <2>6. End' + stream'.next_len + stream'.remaining = Total(song)
    BY <1>6, <1>7, <1>8, <2>3, <2>4, <2>5, KnownTypes
  <2>7. s \in Nat /\ K \in Nat /\ K + s \in Nat /\ (K + s) * Sector = Chunk + s * Sector /\ s * Sector \in Nat
    <3>1. s \in Nat /\ K \in Nat /\ K * Sector = Chunk
      BY KnownTypes, Constants_
    <3> QED BY <3>1, Constants_, Times
  <2>8. s * Sector >= len
    BY <1>1, <2>5, Sectors_
  <2>9. ASSUME NEW j \in Nat, j < len
        PROVE  sound_buffer[Chunk + j] = <<song, Info[song].start + FirstLength(song) + j>>
    <3>1. Info[song].start + FirstLength(song) = Chunk
      BY <1>2, <1>3, <1>12, <2>9, <2>5
    <3>2. Chunk + j \in Cells /\ Chunk + j >= Chunk
      BY <1>5, <2>9, Cells_, Constants_
    <3>3. Chunk + j < (K + s) * Sector
      BY <2>5, <2>7, <2>8, <2>9
    <3>4. Chunk + j < e
      <4>1. stream.remaining \in Nat /\ len <= stream.remaining
        BY <1>5, KnownTypes, Constants_
      <4> QED BY <1>8, <2>4, <2>5, <2>9, <3>1, <4>1
    <3>5. sound_buffer[Chunk + j] = <<song, Chunk + j>>
      BY <2>1, <2>4, <3>2, <3>3, <3>4 DEF InSecond
    <3> QED BY <3>1, <3>5
  <2>10. Buffer(1 - stream'.cur_buf) = Chunk
    BY <1>7, <1>8, Cells_
  <2>11. FillLength(stream') > 0 => stream'.sector * Sector = Info[song].start + FirstLength(song) + len
    <3> SUFFICES ASSUME FillLength(stream') > 0
                 PROVE  stream.sector * Sector = Info[song].start + FirstLength(song) + len
      BY <1>7
    <3>1. stream' \in StreamType
      <4>1. stream \in StreamType /\ stream.remaining - len \in 0 .. Word - 1
        BY <1>5, <1>6, KnownTypes, Constants_
      <4> QED BY <1>1, <1>5, <1>6, <4>1 DEF StreamType
    <3>2. ~ (stream'.remaining < stream'.frame)
      BY <1>5, <1>7, <3>1, Fills
    <3>3. len = Chunk
      BY <1>5, <1>7, <3>2, KnownTypes
    <3>4. Info[song].start + FirstLength(song) = Chunk /\ s = K
      BY <1>1, <1>2, <1>3, <1>12, <3>3, Sectors_, Constants_
    <3>5. (K + K) * Sector = Chunk + Chunk
      BY Constants_, Times
    <3>6. Chunk + Chunk <= e
      BY <1>5, <1>8, <2>4, <2>5, <3>3, <3>4, KnownTypes
    <3>7. K + K <= SectorsOf(song)
      <4>1. (K + K) * Sector <= SectorsOf(song) * Sector
        BY <2>4, <3>5, <3>6
      <4>2. K + K \in Nat /\ SectorsOf(song) \in Nat
        BY Constants_, KnownTypes
      <4> QED BY <4>1, <4>2, Times, Constants_
    <3>8. stream.sector = K + K
      <4>1. stream.sector = Least(K + K, SectorsOf(song))
        BY <2>1, <3>4 DEF InSecond
      <4>2. K + K \in Nat /\ SectorsOf(song) \in Nat
        BY Constants_, KnownTypes
      <4> QED BY <3>7, <4>1, <4>2 DEF Least
    <3> QED BY <3>3, <3>4, <3>5, <3>8
  <2> QED BY <1>1, <1>7, <2>2, <2>3, <2>6, <2>9, <2>10, <2>11 DEF InIdle
<1>13. (Good(song') <=> Good(song)) /\ Info[song'].start \in 1 .. Chunk
  BY <1>1, <1>2
<1> QED BY <1>1, <1>4, <1>11, <1>12, <1>13 DEF Fine, Content

(* The handler: with nothing to play next it stops the song.               *)
LEMMA IrqStopsFine ==
  ASSUME Sensible, Known, Fine, Irq, IrqIdle \/ IrqStop
  PROVE  Fine' /\ Quiet
<1>1. /\ pending /\ ~ pending' /\ UNCHANGED <<song, pc, s, len, onair, heard, upset>>
      /\ sound_buffer' = sound_buffer /\ card' = card
  BY DEF Irq, IrqIdle, IrqStop, shell
<1>2. card.left = 0 /\ Active
  BY <1>1 DEF Fine, Layout, Active
<1>3. ~ Active'
  BY <1>1, <1>2 DEF Active
<1>4. /\ stream'.remaining = stream.remaining /\ stream'.frame = stream.frame
      /\ stream'.cur_buf = stream.cur_buf /\ stream'.next_len = stream.next_len /\ stream'.sector = stream.sector
  BY KnownTypes DEF StreamType, IrqIdle, IrqStop
<1>5. pc \notin {"first", "move", "start"}
  BY <1>2 DEF Fine, Layout
<1>6. Formatted' <=> Formatted
  BY <1>1, <1>4 DEF Formatted, Total, FirstLength
<1>7. FillLength(stream') = FillLength(stream)
  BY <1>4 DEF FillLength
<1>8. Layout'
  BY <1>1, <1>2, <1>3, <1>4, <1>5, <1>6, <1>7 DEF Fine, Layout
<1>9. Content => Content'
  <2>1. End' = End /\ FirstLength(song') = FirstLength(song) /\ (Playing' <=> Playing) /\ (InFill' <=> InFill)
    BY <1>1, <1>4 DEF End, FirstLength, Playing, ToPlay, InFill
  <2>2. InSecond' <=> InSecond
    BY <1>1, <1>4 DEF InSecond
  <2> QED BY <1>1, <1>3, <1>5, <2>1, <2>2 DEF Content
<1>10. (Good(song') <=> Good(song)) /\ Quiet
  BY <1>1 DEF Quiet
<1> QED BY <1>8, <1>9, <1>10 DEF Fine

LEMMA IrqNextFine ==
  ASSUME Sensible, Known, Fine, Irq, IrqNext, upset # "mixed"
  PROVE  Fine' /\ Quiet
<1> DEFINE n == FillLength(stream)
           play == 1 - stream.cur_buf
<1>1. /\ pending /\ ~ pending' /\ UNCHANGED <<song, pc, s, len, onair, heard, upset>>
      /\ stream' = [stream EXCEPT !.cur_buf = play, !.next_len = n, !.remaining = (stream.remaining - n) % Word,
                                  !.sector = Advanced(SectorsFor(n))]
      /\ StartCard(Buffer(play), stream.next_len)
      /\ sound_buffer' = Filled(Buffer(1 - play), SectorsFor(n))
      /\ stream.playing /\ stream.next_len # 0
  BY KnownTypes DEF Irq, IrqNext, RefillIndex, shell, StreamType
<1>2. card.left = 0 /\ Active
  BY <1>1 DEF Fine, Layout, Active
<1>3. pc = "idle"
  <2>1. pc \notin {"first", "move", "start"}
    BY <1>2 DEF Fine, Layout
  <2>2. pc \notin {"fill", "second"}
    BY <1>1, Filling
  <2> QED BY <2>1, <2>2, KnownTypes DEF TypeOK
<1>4. song = onair /\ stream.frame = Info[song].frame /\ stream.next_len % stream.frame = 0
  BY <1>2, <1>3 DEF Fine, Layout
<1>5. /\ n \in 0 .. Chunk /\ n <= stream.remaining /\ n % stream.frame = 0
      /\ n # Chunk => stream.remaining - n < stream.frame
  <2>1. Chunk % stream.frame = 0
    BY <1>4, KnownTypes, Facts
  <2> QED BY <2>1, KnownTypes, Fills
<1>6. /\ play \in {0, 1} /\ Buffer(play) \in Cells /\ Buffer(1 - play) \in Cells /\ 1 - play = stream.cur_buf
      /\ Buffer(play) \in Nat /\ Buffer(1 - play) \in Nat
      /\ (Buffer(play) = 0 /\ Buffer(1 - play) = Chunk) \/ (Buffer(play) = Chunk /\ Buffer(1 - play) = 0)
  <2>1. stream.cur_buf \in {0, 1} /\ Chunk \in Nat
    BY KnownTypes, Constants_
  <2> QED BY <2>1, Cells_
<1> HIDE DEF n, play
<1>7. (stream.remaining - n) % Word = stream.remaining - n /\ stream.remaining - n \in 0 .. Word - 1
  <2>1. PICK d \in 0 .. Word - 1 : d = stream.remaining - n
    BY <1>5, KnownTypes, Constants_
  <2>2. d % Word = d
    BY Small, Constants_
  <2> QED BY <2>1, <2>2, Constants_
<1>8. /\ stream'.remaining = stream.remaining - n /\ stream'.next_len = n /\ stream'.frame = stream.frame
      /\ stream'.playing /\ stream'.cur_buf = play /\ stream'.sector = Advanced(SectorsFor(n))
  BY <1>1, <1>7, KnownTypes DEF StreamType
<1>9. card'.at = Buffer(play) /\ card'.left = stream.next_len
  <2>1. stream'.frame \in Nat \ {0} /\ stream.next_len % stream'.frame = 0 /\ stream.next_len \in 0 .. Chunk
    BY <1>4, <1>8, KnownTypes
  <2> QED BY <1>1, <1>6, <2>1, Started
<1>10. stream.next_len \in 1 .. Chunk /\ Chunk \in Nat
  BY <1>1, KnownTypes, Constants_
<1>11. card'.at + card'.left <= 2 * Chunk /\ Buffer(play) <= card'.at /\ card'.at + card'.left <= Buffer(play) + Chunk
  BY <1>6, <1>9, <1>10
<1>12. Layout'
  BY <1>1, <1>3, <1>4, <1>5, <1>8, <1>11 DEF Layout
<1>13. SectorsFor(n) \in Nat /\ SectorsFor(n) * Sector \in Nat /\ SectorsFor(n) * Sector >= n /\ SectorsFor(n) * Sector <= Chunk
  <2>1. SectorsFor(n) \in Nat /\ SectorsFor(n) * Sector >= n /\ SectorsFor(n) <= K
    BY <1>5, Sectors_
  <2>2. SectorsFor(n) * Sector <= K * Sector /\ SectorsFor(n) * Sector \in Nat
    BY <2>1, Constants_, Times
  <2> QED BY <2>1, <2>2, Constants_
<1>14. ASSUME NEW a \in ToPlay' PROVE sound_buffer'[a] = sound_buffer[a]
  <2>1. a \in Cells /\ a \in Nat /\ a >= Buffer(play) /\ a < Buffer(play) + Chunk
    BY <1>9, <1>10, <1>6, Cells_ DEF ToPlay
  <2>2. a < Buffer(1 - play) \/ a >= Buffer(1 - play) + SectorsFor(n) * Sector
    BY <1>6, <1>10, <1>13, <2>1
  <2> QED BY <1>1, <1>6, <1>13, <2>1, <2>2, KnownTypes, Outside
<1>15. Quiet
  <2>1. ToPlay = {}
    BY <1>2, KnownTypes, Cells_ DEF ToPlay
  <2> QED BY <1>14, <2>1 DEF Quiet
<1>16. ASSUME Good(song) PROVE Playing' /\ InIdle' /\ Info[song].start \in 1 .. Chunk
  <2>1. InIdle /\ Info[song].start \in 1 .. Chunk
    BY <1>2, <1>3, <1>16 DEF Fine, Content
  <2>2. PICK l \in Nat, b \in Nat, r \in Nat, x \in Nat :
          l = Len(heard) /\ b = stream.next_len /\ r = stream.remaining /\ x = Info[song].start
    <3>1. Len(heard) \in Nat /\ stream.next_len \in Nat /\ stream.remaining \in Nat /\ Info[song].start \in Nat
      BY KnownTypes, Constants_
    <3> QED BY <3>1
  <2>3. End = l /\ End' = l + b
    BY <1>1, <1>2, <1>9, <2>2 DEF End
  <2>4. PICK e \in Nat : e = SectorsOf(song) * Sector /\ x + Total(song) <= e /\ Total(song) \in Nat
    BY <2>1, <2>2, Reaches, KnownTypes
  <2>5. l + b + r = Total(song)
    BY <2>1, <2>2, <2>3 DEF InIdle
  <2>6. ASSUME NEW j \in Nat, j < b PROVE sound_buffer[Buffer(play) + j] = <<song, x + l + j>>
    <3>1. 1 - stream.cur_buf = play
      BY DEF play
    <3> QED BY <2>1, <2>2, <2>3, <2>6, <3>1 DEF InIdle
  <2>7. n > 0 => stream.sector * Sector = x + l + b
    BY <2>1, <2>2, <2>3 DEF InIdle, n
  <2>8. Playing'
    <3> SUFFICES ASSUME NEW a \in ToPlay'
                 PROVE  sound_buffer'[a] = <<song, x + l + (a - Buffer(play))>>
      BY <1>1, <1>9, <2>2 DEF Playing
    <3>1. a - Buffer(play) \in Nat /\ a - Buffer(play) < b /\ Buffer(play) + (a - Buffer(play)) = a
      BY <1>6, <1>9, <2>2, Cells_ DEF ToPlay
    <3> QED BY <1>14, <2>6, <3>1
  <2>9. ASSUME NEW j \in Nat, j < n PROVE sound_buffer'[Buffer(1 - play) + j] = <<song, x + (l + b) + j>>
    <3>1. n > 0 /\ n \in Nat
      BY <1>5, <2>9
    <3>2. PICK y \in Nat : y = stream.sector * Sector /\ y = x + l + b
      BY <2>7, <3>1
    <3>3. y + j < e
      <4>1. n <= r
        BY <1>5, <2>2
      <4> QED BY <2>4, <2>5, <2>9, <3>1, <3>2, <4>1
    <3>4. Buffer(1 - play) + j \in Cells /\ j < SectorsFor(n) * Sector
      BY <1>5, <1>6, <1>10, <1>13, <2>9, Cells_
    <3>5. sound_buffer'[Buffer(1 - play) + j] = <<song, y + j>>
      <4>1. stream.sector * Sector + j < SectorsOf(song) * Sector
        BY <2>4, <3>2, <3>3
      <4>2. Filled(Buffer(1 - play), SectorsFor(n))[Buffer(1 - play) + j] = <<song, stream.sector * Sector + j>>
        <5>1. PICK d \in Nat, m \in Nat : d = Buffer(1 - play) /\ m = SectorsFor(n)
          BY <1>6, <1>13
        <5>2. TypeOK /\ d + j \in Cells /\ j < m * Sector
          BY <3>4, <5>1, KnownTypes
        <5>3. Filled(d, m)[d + j] = <<song, stream.sector * Sector + j>>
          BY <4>1, <5>2, Inside
        <5> QED BY <5>1, <5>3
      <4> QED BY <1>1, <3>2, <4>2
    <3> QED BY <3>2, <3>5
  <2>10. FillLength(stream') > 0 => stream'.sector * Sector = x + (l + b) + n
    <3> SUFFICES ASSUME FillLength(stream') > 0
                 PROVE  stream'.sector * Sector = x + (l + b) + n
      OBVIOUS
    <3>1. stream' \in StreamType
      <4>1. stream \in StreamType /\ Advanced(SectorsFor(n)) \in Nat
        BY <1>13, KnownTypes, AdvancedTyped
      <4> QED BY <1>1, <1>5, <1>6, <1>7, <4>1 DEF StreamType
    <3>2. stream.frame <= Chunk
      BY <1>4, <2>1, KnownTypes, Reaches
    <3>3. ~ (stream'.remaining < stream'.frame)
      BY <1>8, <3>1, <3>2, Fills
    <3>4. n = Chunk
      BY <1>5, <1>8, <3>3
    <3>5. SectorsFor(n) = K /\ K \in Nat /\ K * Sector = Chunk
      BY <3>4, Sectors_, Constants_
    <3>6. PICK q \in Nat, y \in Nat : q = stream.sector /\ y = q * Sector /\ y = x + l + b
      BY <1>10, <2>7, <3>4, KnownTypes
    <3>7. (q + K) * Sector = y + Chunk
      BY <3>5, <3>6, Constants_, Times
    <3>8. y + Chunk <= e
      <4>1. n <= r
        BY <1>5, <2>2
      <4> QED BY <1>10, <2>4, <2>5, <3>4, <3>6, <4>1
    <3>9. q + K <= SectorsOf(song)
      <4>1. (q + K) * Sector <= SectorsOf(song) * Sector
        BY <2>4, <3>7, <3>8
      <4>2. q + K \in Nat /\ SectorsOf(song) \in Nat
        BY <3>5, KnownTypes
      <4> QED BY <4>1, <4>2, Times, Constants_
    <3>10. stream'.sector = q + K
      <4>1. stream'.sector = Least(q + K, SectorsOf(song))
        BY <1>8, <3>5, <3>6 DEF Advanced
      <4>2. q + K \in Nat /\ SectorsOf(song) \in Nat
        BY <3>5, KnownTypes
      <4> QED BY <3>9, <4>1, <4>2 DEF Least
    <3> QED BY <3>4, <3>6, <3>7, <3>10
  <2>11. End' + stream'.next_len + stream'.remaining = Total(song)
    BY <1>5, <1>8, <2>2, <2>3, <2>5
  <2>12. 1 - stream'.cur_buf = 1 - play
    BY <1>8
  <2>13. InIdle'
    BY <1>1, <1>8, <2>2, <2>3, <2>9, <2>10, <2>11, <2>12 DEF InIdle
  <2> QED BY <2>1, <2>8, <2>13
<1>17. (Good(song') <=> Good(song)) /\ song' = song
  BY <1>1
<1> QED BY <1>1, <1>3, <1>12, <1>15, <1>16, <1>17 DEF Fine, Content

-----------------------------------------------------------------------------
LEMMA FineStep ==
  ASSUME Sensible, Known, Fine, [Next]_vars, upset # "mixed", upset' # "mixed"
  PROVE  Fine' /\ Quiet
<1>0. CASE UNCHANGED vars
  <2>1. /\ (Layout' <=> Layout) /\ (Content' <=> Content) /\ (Good(song') <=> Good(song))
    <3>1. /\ UNCHANGED <<sound_buffer, stream, song, pc, s, len, card, pending, onair, heard, upset>>
          /\ (Active' <=> Active) /\ End' = End /\ (Formatted' <=> Formatted)
      BY <1>0 DEF vars, shell, Active, End, Formatted, Total, FirstLength
    <3>2. Layout' <=> Layout
      BY <3>1 DEF Layout, FirstLength, FillLength
    <3>3. /\ (Playing' <=> Playing) /\ (InFirst' <=> InFirst) /\ (InMove' <=> InMove) /\ (InStart' <=> InStart)
          /\ (InFill' <=> InFill) /\ (InSecond' <=> InSecond) /\ (InIdle' <=> InIdle)
      BY <3>1 DEF Playing, ToPlay, InFirst, InMove, InStart, InFill, InSecond, InIdle
    <3> QED BY <3>1, <3>2, <3>3 DEF Content, FirstLength
  <2> QED BY <1>0, <2>1 DEF Fine, Quiet, vars
<1>1. ASSUME NEW f \in Songs, Play(f) PROVE Fine' /\ Quiet
  BY <1>1, PlayFine
<1>2. CASE Irq
  <2>1. CASE IrqNext
    BY <1>2, <2>1, IrqNextFine
  <2>2. CASE IrqIdle \/ IrqStop
    BY <1>2, <2>2, IrqStopsFine
  <2> QED BY <1>2, <2>1, <2>2 DEF Irq
<1>3. CASE ShellStep
  BY <1>3, ReadFirstFine, GiveUpFine, FormatFine, MoveFine, StartFine, FillBeginFine, ReadSecondFine, FillEndFine
     DEF ShellStep
<1> QED BY <1>0, <1>1, <1>2, <1>3, StopsoundFine, CardPlaysFine DEF Next

(* What is heard so far stays the start of the audio.                      *)
LEMMA HeardStep ==
  ASSUME Sensible, Known, Fine, HeardIsAudio, [Next]_vars, upset # "mixed", upset' # "mixed"
  PROVE  HeardIsAudio'
<1>1. CASE Start
  <2>1. heard' = <<>> /\ Len(heard') = 0 /\ onair' \in Songs
    BY <1>1, KnownTypes DEF Start
  <2>2. Info[onair'].data \in Nat
    BY <2>1, Facts
  <2> QED BY <2>1, <2>2 DEF HeardIsAudio
<1>2. CASE CardPlays
  <2>1. /\ song = onair
        /\ Good(song) => /\ sound_buffer[card.at] = <<song, Info[song].start + Len(heard)>>
                         /\ Len(heard) + 1 <= Total(song)
    BY <1>2, CardPlaysFine
  <2>2. heard' = Append(heard, sound_buffer[card.at]) /\ onair' = onair
    BY <1>2 DEF CardPlays
  <2>3. heard \in Seq(Audio) /\ sound_buffer[card.at] \in Audio /\ Len(heard) \in Nat
    BY KnownTypes
  <2>4. /\ Len(heard') = Len(heard) + 1
        /\ \A i \in 1 .. Len(heard) : heard'[i] = heard[i]
        /\ heard'[Len(heard) + 1] = sound_buffer[card.at]
    BY <2>2, <2>3
  <2> SUFFICES ASSUME Good(onair)
               PROVE  /\ \A i \in 1 .. Len(heard') : heard'[i] = <<onair, Info[onair].start + i - 1>>
                      /\ Len(heard') <= Info[onair].data
    BY <2>2 DEF HeardIsAudio, Good
  <2>5. \A i \in 1 .. Len(heard) : heard[i] = <<onair, Info[onair].start + i - 1>>
    BY DEF HeardIsAudio, Good
  <2>6. PICK l \in Nat, x \in Nat : l = Len(heard) /\ x = Info[onair].start
    BY <2>1, KnownTypes
  <2>7. ASSUME NEW i \in 1 .. l + 1 PROVE heard'[i] = <<onair, x + i - 1>>
    <3>1. CASE i = l + 1
      <4>1. x + i - 1 = x + l
        BY <3>1
      <4> QED BY <2>1, <2>4, <2>6, <3>1, <4>1
    <3>2. CASE i # l + 1
      <4>1. i \in 1 .. l
        BY <2>7, <3>2
      <4> QED BY <2>4, <2>5, <2>6, <4>1
    <3> QED BY <3>1, <3>2
  <2>8. Len(heard') <= Info[onair].data
    <3>1. Total(onair) \in Nat /\ Total(onair) <= Info[onair].data /\ Info[onair].data \in Nat
      BY KnownTypes, Facts, Constants_
    <3> QED BY <2>1, <2>3, <2>4, <3>1
  <2> QED BY <2>4, <2>6, <2>7, <2>8
<1>3. CASE ~ Start /\ ~ CardPlays
  <2>1. heard' = heard /\ onair' = onair
    BY <1>3 DEF Next, ShellStep, Play, Stopsound, ReadFirst, ReadSecond, ReadSector, GiveUp, Format, Move, FillBegin,
                FillEnd, Irq, vars
  <2> QED BY <2>1 DEF HeardIsAudio
<1> QED BY <1>1, <1>2, <1>3

(* Once songs are mixed up they stay so.                                   *)
LEMMA MixedStays == upset = "mixed" /\ [Next]_vars => upset' = "mixed"
BY DEF Next, ShellStep, Play, Stopsound, ReadFirst, ReadSecond, ReadSector, GiveUp, Format, Move, Start, FillBegin,
       FillEnd, Irq, CardPlays, vars

LEMMA InvStep == Sensible /\ Inv /\ [Next]_vars => Inv'
<1> SUFFICES ASSUME Sensible, Inv, [Next]_vars PROVE Inv'
  OBVIOUS
<1>1. Known'
  BY TypedStep, HeardTyped DEF Inv, Known
<1>2. CASE upset' = "mixed"
  BY <1>1, <1>2 DEF Inv, HeardIsAudio
<1>3. CASE upset' # "mixed"
  BY <1>1, <1>3, MixedStays, FineStep, HeardStep DEF Inv
<1> QED BY <1>2, <1>3

-----------------------------------------------------------------------------
(* The variables keep their types, through any mixture of songs, stops and *)
(* late interrupts, and whatever the headers announce                      *)
(* (play_wav_stream_cluster and sb16_irq5_handler, sound.c).               *)
THEOREM TypeCorrect == Spec => []TypeOK
<1>1. Typed => TypeOK
  BY DEF Typed
<1> QED BY InitTyped, TypedStep, <1>1, PTL DEF Spec

LEMMA Invariant == ASSUME Sensible PROVE Spec => []Inv
<1>1. Inv /\ [Next]_vars => Inv'
  BY InvStep
<1> QED BY InitFine, <1>1, PTL DEF Spec

(* What is heard of a song is its audio from the start on, in order and    *)
(* nothing after its end (sb16_fill_buffer and sb16_irq5_handler,          *)
(* sound.c:188-222).                                                       *)
THEOREM HeardIsTheAudio == ASSUME Sensible PROVE Spec => []HeardIsAudio
<1>1. Inv => HeardIsAudio
  BY DEF Inv
<1> QED BY Invariant, <1>1, PTL

(* No cell is overwritten while the card has still to play it              *)
(* (sb16_irq5_handler, sound.c:206-222).                                   *)
THEOREM NothingOverwritten == ASSUME Sensible PROVE Spec => NeverOverwritten
<1>1. Inv /\ [Next]_vars =>
        [upset # "mixed" /\ upset' # "mixed" => \A a \in ToPlay \cup ToPlay' : sound_buffer'[a] = sound_buffer[a]]_vars
  BY FineStep DEF Inv, Quiet
<1> QED BY Invariant, <1>1, PTL DEF Spec, NeverOverwritten

-----------------------------------------------------------------------------
(* What is left of the songs that were started: the shell's statements,    *)
(* each of which may leave a whole song more to play, and what is to play  *)
(* of the file, in the buffers and on the card.                            *)
Stage ==
  IF pc = "first" THEN K - s + K + 5
  ELSE IF pc = "move" THEN K + 4
  ELSE IF pc = "start" THEN K + 3
  ELSE IF pc = "fill" THEN K + 2
  ELSE IF pc = "second" THEN K - s + 1
  ELSE 0
Load == stream.remaining + stream.next_len
Sounding == Load * (4 * Chunk) + 2 * card.left + (IF pending THEN 1 ELSE 0)
OneSong == (Word + Chunk) * (4 * Chunk) + 2
Left == Stage * OneSong + Sounding

LEMMA LeftType ==
  ASSUME Typed
  PROVE  /\ Stage \in Nat /\ Load \in Nat /\ Sounding \in Nat /\ Left \in Nat
         /\ OneSong \in Nat \ {0} /\ Sounding < OneSong
<1>1. /\ stream.remaining \in 0 .. Word - 1 /\ stream.next_len \in 0 .. Chunk /\ card.left \in 0 .. 2 * Chunk
      /\ s \in 0 .. K
  BY DEF Typed, TypeOK, StreamType, K
<1>2. Stage \in Nat
  BY <1>1, Constants_ DEF Stage
<1>3. Load \in Nat /\ Load + 1 <= Word + Chunk /\ Word + Chunk \in Nat /\ 4 * Chunk \in Nat \ {0}
  BY <1>1, Constants_ DEF Load
<1>4. Load * (4 * Chunk) \in Nat /\ (Load + 1) * (4 * Chunk) = Load * (4 * Chunk) + 4 * Chunk
      /\ (Load + 1) * (4 * Chunk) <= (Word + Chunk) * (4 * Chunk)
  <2>1. Load + 1 \in Nat
    BY <1>3
  <2> QED BY <1>3, <2>1, Times
<1>5. (Word + Chunk) * (4 * Chunk) \in Nat
  BY <1>3, Times
<1>6. OneSong \in Nat \ {0}
  BY <1>5 DEF OneSong
<1>7. Sounding \in Nat /\ Sounding < OneSong
  <2> DEFINE all == (Word + Chunk) * (4 * Chunk)
             load == Load * (4 * Chunk)
             one == IF pending THEN 1 ELSE 0
  <2>1. all \in Nat /\ load \in Nat /\ load + 4 * Chunk <= all
    BY <1>4, <1>5
  <2>2. one \in {0, 1}
    OBVIOUS
  <2>3. Sounding = load + 2 * card.left + one /\ OneSong = all + 2
    BY DEF Sounding, OneSong
  <2> HIDE DEF all, load, one
  <2> QED BY <1>1, <2>1, <2>2, <2>3, Constants_
<1>8. Stage * OneSong \in Nat
  BY <1>2, <1>6, Times
<1> QED BY <1>2, <1>3, <1>6, <1>7, <1>8 DEF Left

Finite == Stage \in Nat /\ Load \in Nat /\ Sounding \in Nat /\ Left \in Nat /\ Sounding < OneSong
LEMMA AlwaysFinite == Typed => Finite
BY LeftType DEF Finite

(* A statement of the shell costs more than a song.                        *)
LEMMA Cheaper ==
  ASSUME NEW a \in Nat, NEW b \in Nat, NEW x \in Nat, NEW y \in Nat, NEW m \in Nat \ {0}, a < b, x < m
  PROVE  a * m + x < b * m + y
<1>1. a * m \in Nat /\ b * m \in Nat /\ (a + 1) * m = a * m + m /\ (a + 1) * m <= b * m
  BY Times
<1> QED BY <1>1

LEMMA StageFalls ==
  ASSUME Typed, Typed', ShellStep
  PROVE  Stage' < Stage
<1>1. s \in 0 .. K /\ s' \in 0 .. K /\ K \in Nat
  BY Constants_ DEF Typed, TypeOK, K
<1>2. CASE ReadFirst
  <2>1. pc = "first" /\ pc' = pc /\ s' = s + 1
    BY <1>2 DEF ReadFirst, ReadSector
  <2> QED BY <1>1, <2>1 DEF Stage, K
<1>3. CASE ReadSecond
  <2>1. pc = "second" /\ pc' = pc /\ s' = s + 1
    BY <1>3 DEF ReadSecond, ReadSector
  <2> QED BY <1>1, <2>1 DEF Stage, K
<1>4. CASE GiveUp \/ Format
  <2>1. pc = "first" /\ pc' \in {"idle", "move"}
    BY <1>4 DEF GiveUp, Format
  <2> QED BY <1>1, <2>1 DEF Stage, K
<1>5. CASE Move \/ Start
  <2>1. \/ pc = "move" /\ pc' = "start"
        \/ pc = "start" /\ pc' = "fill"
    BY <1>5 DEF Move, Start
  <2> QED BY <1>1, <2>1 DEF Stage, K
<1>6. CASE FillBegin
  <2>1. pc = "fill" /\ pc' \in {"idle", "second"} /\ s' = 0
    BY <1>6 DEF FillBegin
  <2> QED BY <1>1, <2>1 DEF Stage, K
<1>7. CASE FillEnd
  <2>1. pc = "second" /\ pc' = "idle"
    BY <1>7 DEF FillEnd
  <2> QED BY <1>1, <2>1 DEF Stage, K
<1> QED BY <1>2, <1>3, <1>4, <1>5, <1>6, <1>7 DEF ShellStep

LEMMA SoundingFalls ==
  ASSUME Typed, Typed', Stopsound \/ Irq \/ CardPlays
  PROVE  Stage' = Stage /\ (Sounding' < Sounding \/ UNCHANGED vars)
<1>1. /\ stream \in StreamType /\ card \in CardType /\ card' \in CardType /\ pending \in BOOLEAN
      /\ stream.remaining \in 0 .. Word - 1 /\ stream.next_len \in 0 .. Chunk /\ stream.frame \in Nat \ {0}
      /\ card.left \in 0 .. 2 * Chunk /\ card'.left \in 0 .. 2 * Chunk
  BY DEF Typed, TypeOK, StreamType, CardType
<1>2. UNCHANGED <<pc, s>>
  BY DEF Stopsound, Irq, CardPlays, shell
<1>3. Stage' = Stage
  BY <1>2 DEF Stage, K
<1>4. Load \in Nat /\ Load * (4 * Chunk) \in Nat
  BY LeftType, Constants_, Times
<1>5. CASE Stopsound
  <2>1. /\ card' = [card EXCEPT !.left = 0] /\ pending' = pending /\ stream' = stream
        /\ UNCHANGED <<sound_buffer, stream, song, shell, pending, onair, heard, upset>>
    BY <1>5 DEF Stopsound
  <2>2. card'.left = 0
    BY <1>1, <2>1 DEF CardType
  <2>3. CASE card.left = 0
    BY <1>1, <2>1, <2>3, <1>3 DEF vars, CardType
  <2>4. CASE card.left > 0
    <3>1. Load' = Load
      BY <2>1 DEF Load
    <3> QED BY <1>1, <1>3, <1>4, <2>1, <2>2, <2>4, <3>1 DEF Sounding
  <2> QED BY <1>1, <2>3, <2>4
<1>6. CASE CardPlays
  <2>1. /\ card.left > 0 /\ (card.left = 1 => ~ pending) /\ stream' = stream
        /\ card' = [at |-> (card.at + 1) % (2 * Chunk), left |-> card.left - 1]
        /\ pending' = (pending \/ card.left = 1)
    BY <1>6 DEF CardPlays
  <2>2. card'.left = card.left - 1 /\ Load' = Load
    BY <2>1 DEF Load
  <2>3. (IF pending' THEN 1 ELSE 0) <= (IF pending THEN 1 ELSE 0) + 1
    OBVIOUS
  <2> QED BY <1>1, <1>3, <1>4, <2>1, <2>2, <2>3 DEF Sounding
<1>7. CASE Irq /\ ~ IrqNext
  <2>1. pending /\ pending' = FALSE /\ card' = card
    BY <1>7 DEF Irq, IrqIdle, IrqStop
  <2>2. stream'.remaining = stream.remaining /\ stream'.next_len = stream.next_len
    BY <1>1, <1>7 DEF Irq, IrqIdle, IrqStop, StreamType
  <2> QED BY <1>1, <1>3, <1>4, <2>1, <2>2 DEF Sounding, Load
<1>8. CASE Irq /\ IrqNext
  <2> DEFINE n == FillLength(stream)
  <2>1. pending /\ pending' = FALSE /\ stream.next_len > 0
    BY <1>1, <1>8 DEF Irq, IrqNext
  <2>2. stream'.next_len = n /\ stream'.remaining = (stream.remaining - n) % Word
    BY <1>1, <1>8 DEF IrqNext, StreamType
  <2>3. n \in 0 .. Chunk /\ n <= stream.remaining
    BY <1>1, Fills
  <2> HIDE DEF n
  <2>4. (stream.remaining - n) % Word = stream.remaining - n
    <3>1. stream.remaining - n \in 0 .. Word - 1 /\ Word \in Nat \ {0}
      BY <1>1, <2>3, Constants_
    <3> QED BY <3>1, Small
  <2>5. Load' \in Nat /\ Load' < Load
    BY <1>1, <2>1, <2>2, <2>3, <2>4, Constants_ DEF Load
  <2>6. (Load' + 1) * (4 * Chunk) = Load' * (4 * Chunk) + 4 * Chunk /\ (Load' + 1) * (4 * Chunk) <= Load * (4 * Chunk)
        /\ Load' * (4 * Chunk) \in Nat
    <3>1. 4 * Chunk \in Nat \ {0}
      BY Constants_
    <3> QED BY <1>4, <2>5, <3>1, Times
  <2> QED BY <1>1, <1>3, <1>4, <2>1, <2>6, Constants_ DEF Sounding
<1> QED BY <1>5, <1>6, <1>7, <1>8

LessIsLeft == Left' < Left \/ \E f \in Songs : Play(f)

(* Every song ends, also one that starts over another, that comes late or  *)
(* whose header announces what it likes: until the next one is started     *)
(* each step of the shell, the card and the interrupt handler lowers a     *)
(* natural number (play_wav_stream_cluster and sb16_irq5_handler,          *)
(* sound.c:206-222).                                                       *)
THEOREM SongsAreFinite ==
  Spec => /\ [](Left \in Nat)
          /\ [][LessIsLeft]_vars
<1>1. Typed => Left \in Nat
  BY LeftType
<1>2. ASSUME Typed, Typed', Next PROVE LessIsLeft \/ UNCHANGED vars
  <2>1. Finite /\ Finite' /\ OneSong \in Nat \ {0} /\ OneSong' = OneSong
    <3>1. Finite'
      BY <1>2, AlwaysFinite, PTL
    <3> QED BY <1>2, <3>1, LeftType DEF Finite, OneSong
  <2>2. CASE ShellStep
    BY <1>2, <2>1, <2>2, StageFalls, Cheaper DEF LessIsLeft, Left, Finite
  <2>3. CASE Stopsound \/ Irq \/ CardPlays
    <3>1. Stage' = Stage /\ (Sounding' < Sounding \/ UNCHANGED vars) /\ Stage * OneSong \in Nat
      BY <1>2, <2>1, <2>3, SoundingFalls, Times DEF Finite
    <3>2. Left = Stage * OneSong + Sounding /\ Left' = Stage * OneSong + Sounding'
      BY <2>1, <3>1 DEF Left
    <3>3. Sounding \in Nat /\ Sounding' \in Nat
      BY <2>1 DEF Finite
    <3> QED BY <3>1, <3>2, <3>3 DEF LessIsLeft
  <2> QED BY <1>2, <2>2, <2>3 DEF Next, LessIsLeft
<1>3. Typed /\ Typed' /\ [Next]_vars => [LessIsLeft]_vars
  BY <1>2
<1> QED BY InitTyped, TypedStep, <1>1, <1>3, PTL DEF Spec
=============================================================================
