--------------------------- MODULE MCSb16Stream ---------------------------
(* Songs of less than a chunk to a little more than three, in frames of    *)
(* one, two and four bytes, for chunks of eight bytes.                     *)
EXTENDS Sb16Stream

Song(b, d, n) == [start |-> b, data |-> d, size |-> b + d, frame |-> n]

(* "none" has no data chunk, "empty" no audio in it; the header of "shift" *)
(* ends inside a frame, as the 78 bytes do that ffmpeg writes before the   *)
(* audio of a stereo file of 16 bits.                                      *)
MCSongs == {"short", "middle", "long", "frames", "pairs", "none", "empty", "shift"}
MCInfo ==
  [f \in MCSongs |->
     CASE f = "none"   -> [start |-> 0, data |-> 4, size |-> 9, frame |-> 1]
       [] f = "empty"  -> Song(4, 1, 2)
       [] f = "shift"  -> Song(2, 12, 4)
       [] f = "short"  -> Song(4, 3, 1)
       [] f = "middle" -> Song(4, 11, 1)
       [] f = "long"   -> Song(4, 20, 1)
       [] f = "frames" -> Song(4, 26, 4)
       [] f = "pairs"  -> Song(4, 9, 2)]

(* Nothing is promised once the card plays what an earlier song left       *)
(* behind, or two songs are under way; that life is not explored further.  *)
NotMixed == upset # "mixed"
=============================================================================
