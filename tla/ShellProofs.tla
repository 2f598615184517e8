---------------------------- MODULE ShellProofs -----------------------------
(***************************************************************************)
(* Proofs about what is typed and the programs it runs.  First Shell and   *)
(* Keyboard, for lines, names and texts of any length, any number of files *)
(* and a keyboard buffer of any size.  The shell's files are exactly what  *)
(* nano said it saved, in the order of the slots; that is the inductive    *)
(* invariant behind what compile finds.                                    *)
(*                                                                         *)
(* Then the interpreter of AiraLang, for programs, texts and a buffer of   *)
(* any length and an int of any width.  Nothing is ever written behind     *)
(* Edge, so that what is read from there on ends every number; that keeps  *)
(* the interpreter inside the buffer.                                      *)
(*                                                                         *)
(* Last, a program whose loops do not nest does what its source says.  The *)
(* invariant puts the interpreter at a place of the source and its world   *)
(* in the state that the n statements before that place leave.             *)
(***************************************************************************)
EXTENDS Keyboard, AiraPrograms, FiniteSetTheorems, SequenceTheorems, WellFoundedInduction, TLAPS

Chars == Keys \cup {"$", ":"}
Limit == CASE mode = "shell" -> CmdMax [] mode = "nano" -> TextMax
           [] mode = "name" -> NameMax [] mode = "view" -> 0

LineInv ==
  /\ mode \in {"shell", "nano", "name", "view"}
  /\ line \in Seq(Keys) /\ Len(line) <= Limit
  /\ text \in Seq(Keys) /\ Len(text) <= TextMax
  /\ row \in Seq(Chars)

Saved(q, n) == [active |-> TRUE, name |-> q[n][1], content |-> q[n][2]]
SavesInv ==
  /\ saves \in Seq(Seq(Keys) \X Seq(Keys)) /\ Len(saves) <= FileSlots
  /\ \A n \in 1 .. Len(saves) : Len(saves[n][1]) <= NameMax /\ Len(saves[n][2]) <= TextMax
  /\ files = [f \in Slots |-> IF f <= Len(saves) THEN Saved(saves, f) ELSE NoFile]

ShellInv == LineInv /\ SavesInv /\ RowShowsLine

-----------------------------------------------------------------------------
(* Sequences.                                                              *)
LEMMA FrontAppend ==
  ASSUME NEW S, NEW s \in Seq(S), NEW e \in S
  PROVE  Front(Append(s, e)) = s
<1> DEFINE t == Append(s, e)
<1>1. t \in Seq(S) /\ Len(t) = Len(s) + 1 /\ (\A pos \in 1 .. Len(s) : t[pos] = s[pos]) /\ Len(s) \in Nat
  BY AppendProperties, LenProperties
<1>2. \A pos \in 1 .. Len(s) : t[pos] \in S
  BY <1>1, ElementOfSeq
<1>3. /\ SubSeq(t, 1, Len(s)) \in Seq(S)
      /\ Len(SubSeq(t, 1, Len(s))) = IF 1 <= Len(s) THEN Len(s) - 1 + 1 ELSE 0
      /\ \A pos \in 1 .. Len(s) - 1 + 1 : SubSeq(t, 1, Len(s))[pos] = t[1 + pos - 1]
  <2> HIDE DEF t
  <2> QED BY <1>1, <1>2, SubSeqProperties
<1>4. SubSeq(t, 1, Len(s)) = s
  <2>1. Len(SubSeq(t, 1, Len(s))) = Len(s)
    BY <1>1, <1>3
  <2>2. \A pos \in 1 .. Len(s) : SubSeq(t, 1, Len(s))[pos] = s[pos]
    BY <1>1, <1>3
  <2> HIDE DEF t
  <2> QED BY <1>3, <2>1, <2>2, SeqEqual
<1>5. Len(t) - 1 = Len(s)
  BY <1>1
<1> QED BY <1>4, <1>5 DEF Front

LEMMA ConcatAppend ==
  ASSUME NEW S, NEW p \in Seq(S), NEW s \in Seq(S), NEW e \in S
  PROVE  p \o Append(s, e) = Append(p \o s, e)
<1>1. p \o s \in Seq(S) /\ <<e>> \in Seq(S)
  BY ConcatProperties
<1>2. Append(s, e) = s \o <<e>> /\ Append(p \o s, e) = (p \o s) \o <<e>>
  BY <1>1, AppendIsConcat
<1> QED BY <1>1, <1>2, ConcatAssociative

LEMMA FrontProperties ==
  ASSUME NEW S, NEW s \in Seq(S), s # <<>>
  PROVE  /\ Front(s) \in Seq(S) /\ Len(Front(s)) = Len(s) - 1
         /\ \A p \in Seq(S) : p \o s # <<>> /\ Front(p \o s) = p \o Front(s)
<1>1. PICK t \in Seq(S), e \in S : s = Append(t, e)
  BY SequenceEmptyOrAppend
<1>2. Front(s) = t
  BY <1>1, FrontAppend
<1>3. Len(s) = Len(t) + 1 /\ Len(t) \in Nat
  BY <1>1, AppendProperties, LenProperties
<1>4. ASSUME NEW p \in Seq(S) PROVE p \o s # <<>> /\ Front(p \o s) = p \o t
  <2>1. p \o t \in Seq(S)
    BY ConcatProperties
  <2>2. p \o s = Append(p \o t, e)
    BY <1>1, ConcatAppend
  <2>3. Front(Append(p \o t, e)) = p \o t
    BY <2>1, FrontAppend
  <2>4. Append(p \o t, e) # <<>>
    BY <2>1, AppendProperties
  <2> QED BY <2>2, <2>3, <2>4
<1> QED BY <1>2, <1>3, <1>4

LEMMA Prompts_ ==
  /\ Prompt \in Seq(Chars) /\ SavePrompt \in Seq(Chars) /\ <<>> \in Seq(Chars) /\ <<>> \in Seq(Keys)
  /\ Len(<<>>) = 0 /\ Prompt \o <<>> = Prompt /\ SavePrompt \o <<>> = SavePrompt
<1>1. Prompt \in Seq(Chars) /\ SavePrompt \in Seq(Chars)
  BY DEF Prompt, SavePrompt, Chars
<1> QED BY <1>1, EmptySeq, ConcatEmptySeq

-----------------------------------------------------------------------------
(* One key more: the line stays within its limit, and the row keeps        *)
(* showing it.                                                             *)
LEMMA TypeLine ==
  ASSUME NEW k \in Keys, NEW max \in Nat, line \in Seq(Keys), row \in Seq(Chars),
         Len(line) <= max, Type(k, max)
  PROVE  /\ line' \in Seq(Keys) /\ Len(line') <= max /\ row' \in Seq(Chars)
         /\ \A p \in Seq(Chars) :
              k # "enter" /\ ~ (k = "backspace" /\ line = <<>>) /\ row = p \o line
                => row' = p \o line'
<1>t. Keys \subseteq Chars /\ line \in Seq(Chars) /\ Len(line) \in Nat
  BY SeqMonotonic, LenProperties DEF Chars
<1>c. put_char(k) => row' \in Seq(Chars)
  <2>1. row # <<>> => Front(row) \in Seq(Chars)
    BY FrontProperties
  <2>2. Append(row, k) \in Seq(Chars)
    BY <1>t, AppendProperties
  <2> QED BY <2>1, <2>2, Prompts_ DEF put_char
<1>1. CASE k = "backspace" /\ line # <<>>
  <2>1. line' = Front(line) /\ put_char(k)
    BY <1>1 DEF Type, Erase
  <2>2. /\ Front(line) \in Seq(Keys) /\ Len(Front(line)) = Len(line) - 1
        /\ \A p \in Seq(Chars) : p \o line # <<>> /\ Front(p \o line) = p \o Front(line)
    BY <1>1, <1>t, FrontProperties
  <2>3. row' = IF row = <<>> THEN row ELSE Front(row)
    BY <1>1, <2>1 DEF put_char
  <2>4. line' \in Seq(Keys) /\ Len(line') <= max
    BY <1>t, <2>1, <2>2
  <2>5. \A p \in Seq(Chars) : row = p \o line => row' = p \o line'
    BY <2>1, <2>2, <2>3
  <2>6. row' \in Seq(Chars)
    BY <1>c, <2>1
  <2> QED BY <2>4, <2>5, <2>6
<1>2. CASE ~ (k = "backspace" /\ line # <<>>) /\ Fits(max)
  <2>1. line' = Append(line, k) /\ put_char(k) /\ Len(line) < max
    BY <1>2 DEF Type, Fits
  <2>2. Append(line, k) \in Seq(Keys) /\ Len(Append(line, k)) = Len(line) + 1
    BY AppendProperties
  <2>3. k # "enter" /\ ~ (k = "backspace" /\ line = <<>>) => row' = Append(row, k)
    BY <1>2, <2>1 DEF put_char
  <2>4. \A p \in Seq(Chars) : p \o Append(line, k) = Append(p \o line, k)
    BY <1>t, ConcatAppend
  <2>5. line' \in Seq(Keys) /\ Len(line') <= max
    BY <1>t, <2>1, <2>2
  <2>6. \A p \in Seq(Chars) :
          k # "enter" /\ ~ (k = "backspace" /\ line = <<>>) /\ row = p \o line => row' = p \o line'
    BY <2>1, <2>3, <2>4
  <2>7. row' \in Seq(Chars)
    BY <1>c, <2>1
  <2> QED BY <2>5, <2>6, <2>7
<1>3. CASE ~ (k = "backspace" /\ line # <<>>) /\ ~ Fits(max)
  BY <1>3 DEF Type
<1> QED BY <1>1, <1>2, <1>3

-----------------------------------------------------------------------------
LEMMA Initially == Init => ShellInv
<1> SUFFICES ASSUME Init PROVE ShellInv
  OBVIOUS
<1>1. LineInv
  BY Prompts_, ShellAssumption DEF Init, LineInv, Limit
<1>2. SavesInv
  <2>1. saves \in Seq(Seq(Keys) \X Seq(Keys)) /\ Len(saves) = 0
    BY EmptySeq DEF Init
  <2> QED BY <2>1, ShellAssumption DEF Init, SavesInv, Slots
<1>3. RowShowsLine
  BY Prompts_ DEF Init, RowShowsLine, Shows
<1> QED BY <1>1, <1>2, <1>3 DEF ShellInv

(* A step that starts a new line: the prompt is what the row shows.        *)
LEMMA NewLine ==
  ASSUME NEW p \in {Prompt, SavePrompt, <<>>}, Prompts(p),
         mode' \in {"shell", "nano", "name", "view"},
         mode' = "shell" => p = Prompt, mode' = "name" => p = SavePrompt,
         text' \in Seq(Keys), Len(text') <= TextMax
  PROVE  LineInv' /\ RowShowsLine'
<1>1. line' = <<>> /\ row' = p
  BY DEF Prompts
<1>2. LineInv'
  <2>1. Limit' \in Nat /\ Len(line') = 0 /\ line' \in Seq(Keys)
    BY <1>1, Prompts_, ShellAssumption DEF Limit
  <2>2. row' \in Seq(Chars)
    BY <1>1, Prompts_
  <2>3. Len(line') <= Limit'
    BY <2>1
  <2> QED BY <2>1, <2>2, <2>3 DEF LineInv
<1>3. RowShowsLine'
  BY <1>1, Prompts_ DEF RowShowsLine, Shows
<1> QED BY <1>2, <1>3

LEMMA SaveStep ==
  ASSUME ShellInv, NEW entered \in BOOLEAN, Save(entered)
  PROVE  SavesInv'
<1> DEFINE n == Len(saves)
<1>1. n \in Nat /\ line \in Seq(Keys) /\ Len(line) <= NameMax /\ text \in Seq(Keys) /\ Len(text) <= TextMax
  BY LenProperties DEF ShellInv, SavesInv, LineInv, Limit, Save
<1>2. CASE ~ (line # <<>> /\ FreeSlots # {})
  BY <1>2 DEF Save, ShellInv, SavesInv, Saved
<1>3. CASE line # <<>> /\ FreeSlots # {}
  <2>1. \A f \in Slots : files[f].active <=> f <= n
    BY DEF ShellInv, SavesInv, Saved, NoFile
  <2>2. n + 1 \in FreeSlots /\ \A f \in FreeSlots : n + 1 <= f
    BY <1>1, <1>3, <2>1, ShellAssumption DEF FreeSlots, Slots
  <2>3. n + 1 = CHOOSE f \in FreeSlots : \A g \in FreeSlots : f <= g
    <3>1. \A f \in FreeSlots : (\A g \in FreeSlots : f <= g) => f = n + 1
      BY <1>1, <2>2, ShellAssumption DEF FreeSlots, Slots
    <3> QED BY <2>2, <3>1
  <2>4. /\ files' = [files EXCEPT ![n + 1] = [active |-> TRUE, name |-> line, content |-> text]]
        /\ saves' = Append(saves, <<line, text>>)
    BY <1>3, <2>3 DEF Save
  <2>5. /\ saves' \in Seq(Seq(Keys) \X Seq(Keys)) /\ Len(saves') = n + 1
        /\ \A pos \in 1 .. n : saves'[pos] = saves[pos]
        /\ saves'[n + 1] = <<line, text>>
    <3>1. <<line, text>> \in Seq(Keys) \X Seq(Keys) /\ saves \in Seq(Seq(Keys) \X Seq(Keys))
      BY <1>1 DEF ShellInv, SavesInv
    <3> QED BY <2>4, <3>1, AppendProperties
  <2>6. n + 1 <= FileSlots
    BY <1>1, <2>2, ShellAssumption DEF FreeSlots, Slots
  <2>7. files' = [f \in Slots |-> IF f <= n + 1 THEN Saved(saves', f) ELSE NoFile]
    <3>1. files = [f \in Slots |-> IF f <= n THEN Saved(saves, f) ELSE NoFile]
      BY DEF ShellInv, SavesInv
    <3>2. \A f \in Slots : f <= n => Saved(saves', f) = Saved(saves, f)
      <4>1. \A f \in Slots : f <= n => saves'[f] = saves[f]
        BY <1>1, <2>5, ShellAssumption DEF Slots
      <4> QED BY <4>1 DEF Saved
    <3>3. Saved(saves', n + 1) = [active |-> TRUE, name |-> line, content |-> text]
      BY <2>5 DEF Saved
    <3>4. \A f \in Slots : f <= n + 1 => f = n + 1 \/ f <= n
      BY <1>1, ShellAssumption DEF Slots
    <3>5. n + 1 \in Slots /\ ~ (n + 1 <= n)
      BY <1>1, <2>6, ShellAssumption DEF Slots
    <3> HIDE DEF n
    <3>6. files' = [f \in Slots |-> IF f = n + 1 THEN Saved(saves', n + 1) ELSE files[f]]
      BY <2>4, <3>1, <3>3, <3>5
    <3>7. \A f \in Slots : (IF f = n + 1 THEN Saved(saves', n + 1) ELSE files[f])
                             = IF f <= n + 1 THEN Saved(saves', f) ELSE NoFile
      BY <1>1, <3>1, <3>2, <3>4, <3>5, ShellAssumption DEF Slots
    <3> QED BY <3>6, <3>7
  <2>8. \A pos \in 1 .. n + 1 : Len(saves'[pos][1]) <= NameMax /\ Len(saves'[pos][2]) <= TextMax
    <3> SUFFICES ASSUME NEW pos \in 1 .. n + 1
                 PROVE  Len(saves'[pos][1]) <= NameMax /\ Len(saves'[pos][2]) <= TextMax
      OBVIOUS
    <3>1. CASE pos = n + 1
      BY <3>1, <1>1, <2>5
    <3>2. CASE pos \in 1 .. n
      BY <3>2, <2>5 DEF ShellInv, SavesInv
    <3> QED BY <3>1, <3>2, <1>1
  <2> QED BY <2>5, <2>6, <2>7, <2>8 DEF SavesInv
<1> QED BY <1>2, <1>3

LEMMA Preserved == ShellInv /\ [Next]_vars => ShellInv'
<1> SUFFICES ASSUME ShellInv, [Next]_vars PROVE ShellInv'
  OBVIOUS
<1>t. LineInv /\ SavesInv /\ RowShowsLine
  BY DEF ShellInv
<1>k. UNCHANGED <<files, saves>> => SavesInv'
  BY <1>t DEF SavesInv, Saved
<1>0. CASE UNCHANGED vars
  BY <1>0, <1>t, <1>k DEF vars, ShellInv, LineInv, Limit, RowShowsLine, Shows
<1>1. ASSUME NEW k \in Keys, Type_Shell(k) PROVE ShellInv'
  <2>1. /\ mode = "shell" /\ mode' = "shell" /\ k # "enter" /\ Type(k, CmdMax) /\ text' = text
        /\ pushed' = (pushed \/ (k = "backspace" /\ line = <<>>)) /\ UNCHANGED <<files, saves>>
    BY <1>1 DEF Type_Shell, Pushes
  <2>2. /\ line' \in Seq(Keys) /\ Len(line') <= CmdMax /\ row' \in Seq(Chars)
        /\ ~ (k = "backspace" /\ line = <<>>) /\ row = Prompt \o line => row' = Prompt \o line'
    BY <2>1, <1>t, TypeLine, Prompts_, ShellAssumption DEF LineInv, Limit
  <2>3. RowShowsLine'
    BY <2>1, <2>2, <1>t DEF RowShowsLine, Shows
  <2>4. LineInv'
    BY <2>1, <2>2, <1>t DEF LineInv, Limit
  <2> QED BY <2>1, <2>3, <2>4, <1>k DEF ShellInv
<1>2. ASSUME NEW k \in Keys, Type_Nano(k) PROVE ShellInv'
  <2>1. /\ mode = "nano" /\ mode' = "nano" /\ Type(k, TextMax) /\ text' = text /\ UNCHANGED <<files, saves>>
    BY <1>2 DEF Type_Nano
  <2>2. line' \in Seq(Keys) /\ Len(line') <= TextMax /\ row' \in Seq(Chars)
    BY <2>1, <1>t, TypeLine, ShellAssumption DEF LineInv, Limit
  <2>3. LineInv' /\ RowShowsLine'
    BY <2>1, <2>2, <1>t DEF LineInv, Limit, RowShowsLine
  <2> QED BY <2>1, <2>3, <1>k DEF ShellInv
<1>3. ASSUME NEW k \in Keys, Type_Name(k) PROVE ShellInv'
  <2>1. /\ mode = "name" /\ mode' = "name" /\ k # "enter" /\ Type(k, NameMax) /\ text' = text
        /\ pushed' = (pushed \/ (k = "backspace" /\ line = <<>>)) /\ UNCHANGED <<files, saves>>
    BY <1>3 DEF Type_Name, Pushes
  <2>2. /\ line' \in Seq(Keys) /\ Len(line') <= NameMax /\ row' \in Seq(Chars)
        /\ ~ (k = "backspace" /\ line = <<>>) /\ row = SavePrompt \o line => row' = SavePrompt \o line'
    BY <2>1, <1>t, TypeLine, Prompts_, ShellAssumption DEF LineInv, Limit
  <2>3. RowShowsLine'
    BY <2>1, <2>2, <1>t DEF RowShowsLine, Shows
  <2>4. LineInv'
    BY <2>1, <2>2, <1>t DEF LineInv, Limit
  <2> QED BY <2>1, <2>3, <2>4, <1>k DEF ShellInv
<1>4. ASSUME NEW k \in Keys, Type_View(k) PROVE ShellInv'
  <2>1. text' = text /\ UNCHANGED <<files, saves>> /\ mode = "view"
    BY <1>4 DEF Type_View
  <2>2. CASE k = "esc"
    <3>1. mode' = "shell" /\ Prompts(Prompt)
      BY <1>4, <2>2 DEF Type_View
    <3> QED BY <2>1, <3>1, <1>t, <1>k, NewLine DEF ShellInv, LineInv
  <2>3. CASE k # "esc"
    BY <1>4, <2>1, <2>3, <1>t, <1>k DEF Type_View, ShellInv, LineInv, Limit, RowShowsLine
  <2> QED BY <2>2, <2>3
<1>5. CASE Nano
  BY <1>5, <1>t, <1>k, NewLine DEF Nano, ShellInv, LineInv
<1>6. CASE Compile
  BY <1>6, <1>t, <1>k, NewLine DEF Compile, ShellInv, LineInv
<1>7. CASE View
  BY <1>7, <1>t, <1>k, NewLine DEF View, ShellInv, LineInv
<1>8. CASE OtherCommand
  BY <1>8, <1>t, <1>k, NewLine DEF OtherCommand, ShellInv, LineInv
<1>9. CASE Leave
  <2>1. text' \in Seq(Keys) /\ Len(text') <= TextMax
    BY <1>9, <1>t DEF Leave, LineInv, Limit
  <2> QED BY <1>9, <2>1, <1>k, NewLine DEF Leave, ShellInv
<1>10. ASSUME NEW entered \in BOOLEAN, Save(entered) PROVE ShellInv'
  <2>1. SavesInv'
    BY <1>10, SaveStep
  <2>2. mode' = "shell" /\ Prompts(Prompt) /\ text' = <<>>
    BY <1>10 DEF Save
  <2>3. LineInv' /\ RowShowsLine'
    BY <2>2, NewLine, Prompts_, ShellAssumption
  <2> QED BY <2>1, <2>3 DEF ShellInv
<1> QED
  BY <1>0, <1>1, <1>2, <1>3, <1>4, <1>5, <1>6, <1>7, <1>8, <1>9, <1>10 DEF Next, Press

-----------------------------------------------------------------------------
(* A set of naturals has a least element.                                  *)
LEMMA Smallest ==
  ASSUME NEW S \in SUBSET Nat, S # {}
  PROVE  \E n \in S : \A k \in S : n <= k
<1>1. IsWellFoundedOn(OpToRel(<, Nat), Nat)
  BY NatLessThanWellFounded
<1>2. PICK x \in S : \A y \in S : ~ (<<y, x>> \in OpToRel(<, Nat))
  BY <1>1, WFMin
<1>3. \A y \in S : ~ (y < x)
  BY <1>2 DEF OpToRel
<1> QED BY <1>3

LEMMA Implied == ShellInv => TypeOK /\ RowShowsLine /\ SavedIsFound
<1> SUFFICES ASSUME ShellInv PROVE TypeOK /\ RowShowsLine /\ SavedIsFound
  OBVIOUS
<1>t. LineInv /\ SavesInv /\ RowShowsLine /\ Len(saves) \in Nat
  BY LenProperties DEF ShellInv, SavesInv
<1>1. TypeOK
  <2>1. \A n \in 1 .. Len(line) : line[n] \in Keys
    BY <1>t, ElementOfSeq DEF LineInv
  <2>2. \A f \in Slots : Len(files[f].name) <= NameMax /\ Len(files[f].content) <= TextMax
    BY <1>t, Prompts_, ShellAssumption DEF SavesInv, Saved, NoFile, Slots
  <2> QED BY <1>t, <2>1, <2>2 DEF TypeOK, LineInv, SavesInv, Limit
<1>2. SavedIsFound
  <2> SUFFICES ASSUME NEW n \in 1 .. Len(saves)
               PROVE  /\ \E f \in Named(saves[n][1]) : files[f].content = saves[n][2]
                      /\ \E k \in 1 .. Len(saves) : saves[k] = <<saves[n][1], Lookup(saves[n][1]).content>>
    BY DEF SavedIsFound
  <2> DEFINE name == saves[n][1]
  <2>1. n \in Slots /\ files[n] = Saved(saves, n) /\ files[n].active = TRUE
    BY <1>t, ShellAssumption DEF SavesInv, Slots, Saved
  <2>2. n \in Named(name) /\ files[n].content = saves[n][2]
    BY <2>1 DEF Named, Saved
  <2>3. Named(name) \in SUBSET Nat
    BY ShellAssumption DEF Named, Slots
  <2>4. Found(Named(name)) \in Named(name)
    BY <2>2, <2>3, Smallest DEF Found
  <2>5. PICK k \in Slots : k = Found(Named(name)) /\ files[k].active /\ files[k].name = name
    BY <2>4 DEF Named
  <2>6. k \in 1 .. Len(saves) /\ files[k] = Saved(saves, k)
    BY <1>t, <2>5, ShellAssumption DEF SavesInv, Slots, NoFile
  <2>7. Lookup(name).content = files[k].content
    BY <2>2, <2>5 DEF Lookup
  <2>8. saves[k] = <<name, saves[k][2]>>
    <3>1. saves[k] \in Seq(Keys) \X Seq(Keys)
      BY <1>t, <2>6, ElementOfSeq DEF SavesInv
    <3>2. saves[k][1] = name
      BY <2>5, <2>6 DEF Saved
    <3> QED BY <3>1, <3>2
  <2>9. files[k].content = saves[k][2]
    BY <2>6 DEF Saved
  <2> QED BY <2>2, <2>6, <2>7, <2>8, <2>9
<1> QED BY <1>t, <1>1, <1>2

-----------------------------------------------------------------------------
(* The buffer.  The shift key a letter is read with is the last one before *)
(* it in the buffer, or the one already read.                              *)
Codes == [code : Keys \cup {"shift"}, released : BOOLEAN, meant : SUBSET Keys]
NoShift(q, pos) == \A m \in 1 .. pos - 1 : q[m].code # "shift"
LastShift(q, pos, j) ==
  j \in 1 .. pos - 1 /\ q[j].code = "shift" /\ \A m \in j + 1 .. pos - 1 : q[m].code # "shift"

Meant(q, g) ==
  \A pos \in 1 .. Len(q) :
    q[pos].code # "shift" /\ ~ q[pos].released
      => /\ NoShift(q, pos) => Char(q[pos].code, g) \in q[pos].meant
         /\ \A j \in 1 .. pos - 1 : LastShift(q, pos, j) => Char(q[pos].code, ~ q[j].released) \in q[pos].meant
Tells(q, g, h) ==
  /\ NoShift(q, Len(q) + 1) => (g <=> h > 0)
  /\ \A j \in 1 .. Len(q) : LastShift(q, Len(q) + 1, j) => (~ q[j].released <=> h > 0)

QueueInv ==
  /\ queue \in Seq(Codes) /\ held \in 0 .. 2
  /\ g_shift_pressed \in BOOLEAN /\ sure \in BOOLEAN
  /\ Meant(queue, g_shift_pressed)
  /\ sure => Tells(queue, g_shift_pressed, held)

LEMMA CharIsKey ==
  ASSUME NEW c \in Keys, NEW g PROVE Char(c, g) \in Keys
BY KeyboardAssumption DEF Char, keyboard_map, keyboard_map_shift, Keys

LEMMA QueueInit == KeyboardInit => QueueInv
<1> SUFFICES ASSUME KeyboardInit PROVE QueueInv
  OBVIOUS
<1>1. queue = <<>> /\ held = 0 /\ g_shift_pressed = FALSE /\ sure = TRUE
  BY DEF KeyboardInit
<1>2. queue \in Seq(Codes) /\ Len(queue) = 0
  BY <1>1, EmptySeq
<1>3. Meant(queue, g_shift_pressed)
  BY <1>2 DEF Meant
<1>4. Tells(queue, g_shift_pressed, held)
  <2>1. ~ (held > 0) /\ ~ g_shift_pressed
    BY <1>1
  <2>2. \A j \in 1 .. Len(queue) : FALSE
    BY <1>2
  <2> QED BY <2>1, <2>2 DEF Tells
<1>5. held \in 0 .. 2
  BY <1>1
<1>6. g_shift_pressed \in BOOLEAN /\ sure \in BOOLEAN
  BY <1>1
<1> QED BY <1>2, <1>3, <1>4, <1>5, <1>6 DEF QueueInv

(* One code more at the end of the buffer.                                 *)
LEMMA AppendCode ==
  ASSUME NEW q \in Seq(Codes), NEW e \in Codes, NEW g, Meant(q, g),
         e.code # "shift" /\ ~ e.released
           => /\ NoShift(q, Len(q) + 1) => Char(e.code, g) \in e.meant
              /\ \A j \in 1 .. Len(q) :
                   LastShift(q, Len(q) + 1, j) => Char(e.code, ~ q[j].released) \in e.meant
  PROVE  /\ Append(q, e) \in Seq(Codes) /\ Meant(Append(q, e), g)
         /\ \A h : e.code # "shift" /\ Tells(q, g, h) => Tells(Append(q, e), g, h)
         /\ \A h : e.code = "shift" /\ (~ e.released <=> h > 0) => Tells(Append(q, e), g, h)
<1> DEFINE r == Append(q, e)
           n == Len(q)
<1>1. /\ r \in Seq(Codes) /\ n \in Nat /\ Len(r) = n + 1 /\ r[n + 1] = e
      /\ \A pos \in 1 .. n : r[pos] = q[pos]
  BY AppendProperties, LenProperties
<1> HIDE DEF r
<1>2. \A pos \in 1 .. n + 1 : NoShift(r, pos) => NoShift(q, pos)
  BY <1>1 DEF NoShift
<1>3. \A pos \in 1 .. n + 1 : \A j \in 1 .. pos - 1 : LastShift(r, pos, j) => LastShift(q, pos, j)
  BY <1>1 DEF LastShift
<1>4. Meant(r, g)
  <2> SUFFICES ASSUME NEW pos \in 1 .. n + 1, r[pos].code # "shift", ~ r[pos].released
               PROVE  /\ NoShift(r, pos) => Char(r[pos].code, g) \in r[pos].meant
                      /\ \A j \in 1 .. pos - 1 :
                           LastShift(r, pos, j) => Char(r[pos].code, ~ r[j].released) \in r[pos].meant
    BY <1>1 DEF Meant
  <2>1. CASE pos = n + 1
    BY <2>1, <1>1, <1>2, <1>3
  <2>2. CASE pos \in 1 .. n
    <3>1. r[pos] = q[pos] /\ \A j \in 1 .. pos - 1 : r[j] = q[j]
      BY <1>1, <2>2
    <3> QED BY <2>2, <3>1, <1>1, <1>2, <1>3 DEF Meant
  <2> QED BY <1>1, <2>1, <2>2
<1>5. ASSUME NEW h, e.code # "shift", Tells(q, g, h) PROVE Tells(r, g, h)
  <2>1. NoShift(r, n + 2) => NoShift(q, n + 1)
    BY <1>1 DEF NoShift
  <2>2. \A j \in 1 .. n + 1 : LastShift(r, n + 2, j) => j \in 1 .. n /\ LastShift(q, n + 1, j)
    BY <1>1, <1>5 DEF LastShift
  <2>3. Len(r) + 1 = n + 2
    BY <1>1
  <2> QED BY <1>1, <1>5, <2>1, <2>2, <2>3 DEF Tells
<1>6. ASSUME NEW h, e.code = "shift", ~ e.released <=> h > 0 PROVE Tells(r, g, h)
  <2>1. ~ NoShift(r, n + 2)
    BY <1>1, <1>6 DEF NoShift
  <2>2. \A j \in 1 .. n + 1 : LastShift(r, n + 2, j) => j = n + 1
    BY <1>1, <1>6 DEF LastShift
  <2>3. Len(r) + 1 = n + 2
    BY <1>1
  <2> QED BY <1>1, <1>6, <2>1, <2>2, <2>3 DEF Tells
<1> QED BY <1>1, <1>4, <1>5, <1>6 DEF r

(* One code fewer at its front.                                            *)
LEMMA TailCode ==
  ASSUME NEW q \in Seq(Codes), q # <<>>, NEW g, NEW f,
         f = IF Head(q).code = "shift" THEN ~ Head(q).released ELSE g,
         Meant(q, g)
  PROVE  /\ Tail(q) \in Seq(Codes) /\ Meant(Tail(q), f)
         /\ \A h : Tells(q, g, h) => Tells(Tail(q), f, h)
<1> DEFINE r == Tail(q)
           n == Len(r)
<1>1. /\ r \in Seq(Codes) /\ n \in Nat /\ Len(q) = n + 1 /\ Head(q) = q[1]
      /\ \A pos \in 1 .. n : r[pos] = q[pos + 1]
  BY HeadTailProperties, LenProperties
<1> HIDE DEF r
<1>2. \A pos \in 1 .. n + 1 : NoShift(r, pos) /\ q[1].code # "shift" => NoShift(q, pos + 1)
  <2> SUFFICES ASSUME NEW pos \in 1 .. n + 1, NoShift(r, pos), q[1].code # "shift",
                      NEW m \in 1 .. pos
               PROVE  q[m].code # "shift"
    BY <1>1 DEF NoShift
  <2>1. CASE m = 1
    BY <2>1
  <2>2. CASE m # 1
    <3>1. m - 1 \in 1 .. pos - 1 /\ m - 1 \in 1 .. n /\ q[m] = r[m - 1]
      BY <1>1, <2>2
    <3> QED BY <3>1 DEF NoShift
  <2> QED BY <2>1, <2>2
<1>3. \A pos \in 1 .. n + 1 : NoShift(r, pos) /\ q[1].code = "shift" => LastShift(q, pos + 1, 1)
  <2> SUFFICES ASSUME NEW pos \in 1 .. n + 1, NoShift(r, pos), q[1].code = "shift",
                      NEW m \in 2 .. pos
               PROVE  q[m].code # "shift"
    BY <1>1 DEF LastShift
  <2>1. m - 1 \in 1 .. pos - 1 /\ m - 1 \in 1 .. n /\ q[m] = r[m - 1]
    BY <1>1
  <2> QED BY <2>1 DEF NoShift
<1>4. \A pos \in 1 .. n + 1 : \A j \in 1 .. pos - 1 : LastShift(r, pos, j) => LastShift(q, pos + 1, j + 1)
  <2> SUFFICES ASSUME NEW pos \in 1 .. n + 1, NEW j \in 1 .. pos - 1, LastShift(r, pos, j)
               PROVE  LastShift(q, pos + 1, j + 1)
    OBVIOUS
  <2>1. \A m \in j + 2 .. pos : q[m].code # "shift"
    <3> SUFFICES ASSUME NEW m \in j + 2 .. pos PROVE q[m].code # "shift"
      OBVIOUS
    <3>1. m - 1 \in j + 1 .. pos - 1 /\ m - 1 \in 1 .. n /\ q[m] = r[m - 1]
      BY <1>1
    <3> QED BY <3>1 DEF LastShift
  <2>2. j + 1 \in 1 .. pos /\ q[j + 1].code = "shift"
    BY <1>1 DEF LastShift
  <2> QED BY <2>1, <2>2, <1>1 DEF LastShift
<1>5. Meant(r, f)
  <2> SUFFICES ASSUME NEW pos \in 1 .. n, r[pos].code # "shift", ~ r[pos].released
               PROVE  /\ NoShift(r, pos) => Char(r[pos].code, f) \in r[pos].meant
                      /\ \A j \in 1 .. pos - 1 :
                           LastShift(r, pos, j) => Char(r[pos].code, ~ r[j].released) \in r[pos].meant
    BY DEF Meant
  <2>1. r[pos] = q[pos + 1] /\ pos + 1 \in 1 .. Len(q)
    BY <1>1
  <2>2. ASSUME NoShift(r, pos) PROVE Char(r[pos].code, f) \in r[pos].meant
    <3>1. CASE q[1].code = "shift"
      <4>1. LastShift(q, pos + 1, 1) /\ 1 \in 1 .. (pos + 1) - 1
        BY <1>1, <1>3, <2>2, <3>1
      <4>2. f = ~ q[1].released
        BY <1>1, <3>1
      <4> QED BY <2>1, <4>1, <4>2 DEF Meant
    <3>2. CASE q[1].code # "shift"
      <4>1. NoShift(q, pos + 1) /\ f = g
        BY <1>1, <1>2, <2>2, <3>2
      <4> QED BY <2>1, <4>1 DEF Meant
    <3> QED BY <3>1, <3>2
  <2>3. ASSUME NEW j \in 1 .. pos - 1, LastShift(r, pos, j)
        PROVE  Char(r[pos].code, ~ r[j].released) \in r[pos].meant
    <3>1. LastShift(q, pos + 1, j + 1) /\ j + 1 \in 1 .. (pos + 1) - 1 /\ r[j] = q[j + 1]
      BY <1>1, <1>4, <2>3
    <3> QED BY <2>1, <3>1 DEF Meant
  <2> QED BY <2>2, <2>3
<1>6. ASSUME NEW h, Tells(q, g, h) PROVE Tells(r, f, h)
  <2>1. Len(q) + 1 = (n + 1) + 1 /\ n + 1 \in 1 .. n + 1
    BY <1>1
  <2>2. ASSUME NoShift(r, n + 1) PROVE f <=> h > 0
    <3>1. CASE q[1].code = "shift"
      <4>1. LastShift(q, Len(q) + 1, 1) /\ 1 \in 1 .. Len(q)
        BY <1>1, <1>3, <2>1, <2>2, <3>1
      <4>2. f = ~ q[1].released
        BY <1>1, <3>1
      <4> QED BY <1>6, <4>1, <4>2 DEF Tells
    <3>2. CASE q[1].code # "shift"
      <4>1. NoShift(q, Len(q) + 1) /\ f = g
        BY <1>1, <1>2, <2>1, <2>2, <3>2
      <4> QED BY <1>6, <4>1 DEF Tells
    <3> QED BY <3>1, <3>2
  <2>3. ASSUME NEW j \in 1 .. n, LastShift(r, n + 1, j) PROVE ~ r[j].released <=> h > 0
    <3>1. LastShift(q, Len(q) + 1, j + 1) /\ j + 1 \in 1 .. Len(q) /\ r[j] = q[j + 1]
      BY <1>1, <1>4, <2>1, <2>3
    <3> QED BY <1>6, <3>1 DEF Tells
  <2> QED BY <2>2, <2>3 DEF Tells
<1> QED BY <1>1, <1>5, <1>6 DEF r

LEMMA SendStep ==
  ASSUME QueueInv, NEW code \in Keys \cup {"shift"}, NEW released \in BOOLEAN, NEW meant \in SUBSET Keys,
         Send(code, released, meant), UNCHANGED g_shift_pressed,
         code # "shift" /\ ~ released
           => /\ NoShift(queue, Len(queue) + 1) => Char(code, g_shift_pressed) \in meant
              /\ \A j \in 1 .. Len(queue) :
                   LastShift(queue, Len(queue) + 1, j) => Char(code, ~ queue[j].released) \in meant,
         held' \in 0 .. 2, sure' \in BOOLEAN,
         code # "shift" => UNCHANGED <<held, sure>>,
         code = "shift" /\ sure' => Room /\ (~ released <=> held' > 0)
  PROVE  QueueInv'
<1> DEFINE e == [code |-> code, released |-> released, meant |-> meant]
<1>1. e \in Codes /\ e.code = code /\ e.released = released /\ e.meant = meant
  BY DEF Codes
<1>2. /\ queue \in Seq(Codes) /\ g_shift_pressed \in BOOLEAN /\ Meant(queue, g_shift_pressed)
      /\ sure => Tells(queue, g_shift_pressed, held)
  BY DEF QueueInv
<1> HIDE DEF e
<1>3. CASE Room
  <2>1. queue' = Append(queue, e)
    BY <1>3 DEF Send, e
  <2>2. /\ queue' \in Seq(Codes) /\ Meant(queue', g_shift_pressed)
        /\ \A h : e.code # "shift" /\ Tells(queue, g_shift_pressed, h) => Tells(queue', g_shift_pressed, h)
        /\ \A h : e.code = "shift" /\ (~ e.released <=> h > 0) => Tells(queue', g_shift_pressed, h)
    BY <1>1, <1>2, <2>1, AppendCode
  <2>3. sure' => Tells(queue', g_shift_pressed, held')
    <3>1. CASE code = "shift"
      BY <3>1, <1>1, <2>2
    <3>2. CASE code # "shift"
      BY <3>2, <1>1, <1>2, <2>2
    <3> QED BY <3>1, <3>2
  <2> QED BY <1>2, <2>2, <2>3 DEF QueueInv
<1>4. CASE ~ Room
  <2>1. queue' = queue
    BY <1>4 DEF Send
  <2>2. sure' => sure /\ held' = held
    BY <1>4
  <2> QED BY <1>2, <2>1, <2>2 DEF QueueInv
<1> QED BY <1>3, <1>4

LEMMA QueueStep == QueueInv /\ [KeyboardNext]_<<keyboard, vars>> => QueueInv'
<1> SUFFICES ASSUME QueueInv, [KeyboardNext]_<<keyboard, vars>> PROVE QueueInv'
  OBVIOUS
<1>t. queue \in Seq(Codes) /\ held \in 0 .. 2 /\ g_shift_pressed \in BOOLEAN /\ sure \in BOOLEAN
  BY DEF QueueInv
<1>k. "a" \in Keys /\ Letters \subseteq Keys /\ {} \in SUBSET Keys
  BY KeyboardAssumption DEF Keys
<1>0. CASE UNCHANGED keyboard
  BY <1>0 DEF keyboard, QueueInv
<1>1. CASE DownLetter
  <2> DEFINE m == IF sure THEN {Char("a", held > 0)} ELSE Letters
  <2>1. Send("a", FALSE, m) /\ UNCHANGED <<held, g_shift_pressed, sure>>
    BY <1>1 DEF DownLetter
  <2>2. m \in SUBSET Keys
    BY <1>k, CharIsKey
  <2>3. \A b : Char("a", b) \in Letters
    BY KeyboardAssumption DEF Char, keyboard_map, keyboard_map_shift
  <2>4. /\ NoShift(queue, Len(queue) + 1) => Char("a", g_shift_pressed) \in m
        /\ \A j \in 1 .. Len(queue) :
             LastShift(queue, Len(queue) + 1, j) => Char("a", ~ queue[j].released) \in m
    <3>1. CASE sure
      <4>1. Tells(queue, g_shift_pressed, held)
        BY <3>1 DEF QueueInv
      <4>2. \A b \in BOOLEAN : (b <=> held > 0) => Char("a", b) = Char("a", held > 0)
        BY DEF Char
      <4>3. \A j \in 1 .. Len(queue) : (~ queue[j].released) \in BOOLEAN
        OBVIOUS
      <4> QED BY <3>1, <4>1, <4>2, <4>3, <1>t DEF Tells
    <3>2. CASE ~ sure
      BY <3>2, <2>3
    <3> QED BY <3>1, <3>2
  <2> HIDE DEF m
  <2> QED BY <1>t, <1>k, <2>1, <2>2, <2>4, SendStep
<1>2. CASE UpLetter
  BY <1>2, <1>t, <1>k, SendStep DEF UpLetter
<1>3. CASE DownShift
  <2>1. /\ Send("shift", FALSE, {}) /\ UNCHANGED g_shift_pressed
        /\ held' = held + 1 /\ held < 2 /\ sure' = Room
    BY <1>3 DEF DownShift
  <2>2. held' \in 0 .. 2 /\ held' > 0
    BY <2>1, <1>t
  <2>3. sure' \in BOOLEAN
    BY <2>1 DEF Room
  <2> QED BY <1>t, <1>k, <2>1, <2>2, <2>3, SendStep
<1>4. CASE UpShift
  <2>1. /\ Send("shift", TRUE, {}) /\ UNCHANGED g_shift_pressed
        /\ held' = held - 1 /\ held > 0 /\ sure' = (Room /\ held' = 0)
    BY <1>4 DEF UpShift
  <2>2. held' \in 0 .. 2 /\ (held' = 0 => ~ (held' > 0))
    BY <2>1, <1>t
  <2>3. sure' \in BOOLEAN /\ (sure' => Room /\ held' = 0)
    BY <2>1 DEF Room
  <2> QED BY <1>t, <1>k, <2>1, <2>2, <2>3, SendStep
<1>5. ASSUME NEW k \in Keys \ Letters, DownOther(k) PROVE QueueInv'
  <2>1. /\ Send(k, FALSE, {k}) /\ queue = <<>> /\ UNCHANGED <<held, g_shift_pressed, sure>>
    BY <1>5 DEF DownOther
  <2>2. \A b : Char(k, b) = k
    BY KeyboardAssumption DEF Char, keyboard_map, keyboard_map_shift
  <2>3. k \in Keys /\ k # "shift" /\ {k} \in SUBSET Keys
    BY KeyboardAssumption DEF Keys, CommandWords
  <2>4. /\ Char(k, g_shift_pressed) \in {k}
        /\ \A j \in 1 .. Len(queue) : Char(k, ~ queue[j].released) \in {k}
    BY <2>2
  <2> QED BY <1>t, <2>1, <2>3, <2>4, SendStep
<1>6. CASE poll_keyboard
  <2>1. queue # <<>> /\ queue' = Tail(queue) /\ UNCHANGED <<held, sure>>
    BY <1>6 DEF poll_keyboard
  <2>2. g_shift_pressed' = IF Head(queue).code = "shift" THEN ~ Head(queue).released ELSE g_shift_pressed
    BY <1>6 DEF poll_keyboard, Shift
  <2>3. /\ queue' \in Seq(Codes) /\ Meant(queue', g_shift_pressed')
        /\ \A h : Tells(queue, g_shift_pressed, h) => Tells(queue', g_shift_pressed', h)
    BY <2>1, <2>2, TailCode DEF QueueInv
  <2>4. g_shift_pressed' \in BOOLEAN
    BY <1>t, <2>2
  <2> QED BY <2>1, <2>3, <2>4, <1>t DEF QueueInv
<1> QED
  BY <1>0, <1>1, <1>2, <1>3, <1>4, <1>5, <1>6 DEF KeyboardNext

-----------------------------------------------------------------------------
(* What the keyboard does to the shell is a step of the shell.             *)
LEMMA ShellStep == QueueInv /\ [KeyboardNext]_<<keyboard, vars>> => [Next]_vars
<1> SUFFICES ASSUME QueueInv, [KeyboardNext]_<<keyboard, vars>>, ~ UNCHANGED vars PROVE Next
  OBVIOUS
<1>1. ~ (DownLetter \/ UpLetter \/ DownShift \/ UpShift \/ (\E k \in Keys \ Letters : DownOther(k)))
  BY DEF DownLetter, UpLetter, DownShift, UpShift, DownOther
<1>2. ASSUME poll_keyboard PROVE Next
  <2>1. Head(queue).code # "shift" /\ Press(Char(Head(queue).code, g_shift_pressed))
    BY <1>2 DEF poll_keyboard
  <2>2. Head(queue) \in Codes
    BY <1>2, HeadTailProperties DEF poll_keyboard, QueueInv
  <2>3. Char(Head(queue).code, g_shift_pressed) \in Keys
    BY <2>1, <2>2, CharIsKey DEF Codes
  <2> QED BY <2>1, <2>3 DEF Next
<1> QED BY <1>1, <1>2 DEF KeyboardNext, Next

(* The keyboard in front of the shell adds nothing to what the shell does  *)
(* (kernel_main hands each character on, kernel.c:105-290).                *)
THEOREM KeyboardDrivesShell == KeyboardSpec => Spec
<1>1. KeyboardInit => Init /\ QueueInv
  BY QueueInit DEF KeyboardInit
<1> QED BY <1>1, QueueStep, ShellStep, PTL DEF KeyboardSpec, Spec

LEMMA Invariant == Spec => []ShellInv
BY Initially, Preserved, PTL DEF Spec

(* The line never outgrows its buffer, nor a name or text of a file.       *)
THEOREM TypeCorrect == KeyboardSpec => []TypeOK
BY KeyboardDrivesShell, Invariant, Implied, PTL

(* What the row shows is what enter hands on, for a line of any length.    *)
THEOREM RowIsTheLine == KeyboardSpec => []RowShowsLine
BY KeyboardDrivesShell, Invariant, Implied, PTL

(* No text that nano saved is lost, and compile finds one that was saved   *)
(* under the name it is given, for any number of files and of saves.       *)
THEOREM SavedFilesFound == KeyboardSpec => []SavedIsFound
BY KeyboardDrivesShell, Invariant, Implied, PTL

(* A key is read as it was meant, however many codes wait before it.       *)
THEOREM ReadAsMeant == KeyboardSpec => []TypedAsMeant
<1>1. QueueInv => TypedAsMeant
  <2> SUFFICES ASSUME QueueInv, queue # <<>>, Head(queue).code # "shift", ~ Head(queue).released
               PROVE  Char(Head(queue).code, g_shift_pressed) \in Head(queue).meant
    BY DEF TypedAsMeant
  <2>1. Head(queue) = queue[1] /\ 1 \in 1 .. Len(queue)
    BY LenProperties, EmptySeq, HeadTailProperties DEF QueueInv
  <2>2. NoShift(queue, 1)
    BY DEF NoShift
  <2> QED BY <2>1, <2>2 DEF QueueInv, Meant
<1>2. KeyboardSpec => []QueueInv
  BY QueueInit, QueueStep, PTL DEF KeyboardSpec
<1> QED BY <1>1, <1>2, PTL

-----------------------------------------------------------------------------
(* A program ends before Edge; nothing is ever written behind it, so that  *)
(* every number that the interpreter reads ends there.                     *)
Edge == BufLen - StringMax - 4
Variable ==
  [active : BOOLEAN, name : Names \cup {NoName}, type : {"int", "string"}, ival : Int32, sval : Seq(Words)]
BufferInv ==
  /\ file_system_buffer \in [0 .. BufLen - 1 -> Words]
  /\ \A j \in Edge .. BufLen - 1 : file_system_buffer[j] = Nul
  /\ file_size \in 0 .. Edge
TableInv ==
  /\ var_table \in [VarIds -> Variable]
  /\ \A s \in VarIds : Len(var_table[s].sval) <= StringMax
  /\ \A r, s \in VarIds :
       var_table[r].active /\ var_table[s].active /\ var_table[r].name = var_table[s].name => r = s
PlaceInv ==
  /\ i \in 0 .. BufLen
  /\ loop_count \in Int32 /\ loop_start_index \in 0 .. Edge
  /\ status \in {"shell", "running", "fault", "lost"}
AiraInv == BufferInv /\ TableInv /\ PlaceInv

(* What the proofs use of the constants.                                   *)
LEMMA Bounds ==
  /\ Half \in Nat \ {0} /\ VarSlots \in Nat \ {0} /\ StringMax \in Nat /\ BufLen \in Nat
  /\ Edge \in Nat /\ Edge + StringMax + 4 = BufLen
  /\ \A p \in Programs : p \in Seq(Words) /\ Len(p) \in 0 .. Edge
<1>1. \A p \in Programs : Len(p) + StringMax + 4 <= BufLen /\ p \in Seq(Words)
  BY AiraAssumption
<1>2. Half \in Nat \ {0} /\ VarSlots \in Nat \ {0} /\ StringMax \in Nat /\ BufLen \in Nat
      /\ StringMax + 4 <= BufLen
  BY AiraAssumption
<1> HIDE DEF Words
<1>3. ASSUME NEW p \in Programs PROVE Len(p) \in Nat
  <2>1. p \in Seq(Words)
    BY <1>1
  <2> QED BY <2>1
<1> QED BY <1>1, <1>2, <1>3 DEF Edge

(* What every word of the buffer has.                                      *)
LEMMA WordParts ==
  ASSUME NEW w \in Words
  PROVE  w.k \in Names \cup {NoName} /\ w.d \in Nat
<1>1. CASE \E n \in 0 .. 9 : w = Digit(n)
  BY <1>1 DEF Digit
<1>2. CASE ~ \E n \in 0 .. 9 : w = Digit(n)
  <2>1. w.k \in Names \cup {NoName} /\ w.d \in {0}
    BY <1>2 DEF Words
  <2> QED BY <2>1
<1> QED BY <1>1, <1>2

(* The first characters of a name are a name.                              *)
LEMMA KeyOfName ==
  ASSUME NEW n \in Names \cup {NoName}
  PROVE  Key(n) \in Names \cup {NoName}
BY AiraAssumption

(* Arithmetic wraps into the range of an int (process_math).               *)
LEMMA WrapInt ==
  ASSUME NEW n \in Int
  PROVE  Wrap(n) \in Int32 /\ Wrap(n) \in Int
<1>1. Half \in Nat \ {0}
  BY AiraAssumption
<1> DEFINE m == 2 * Half
<1>2. (n + Half) % m \in 0 .. m - 1
  BY <1>1
<1> QED BY <1>1, <1>2 DEF Wrap, Int32, IntMin

(* The ends of the range of an int; zero is in it.                         *)
LEMMA Int32Int ==
  ASSUME NEW n \in Int32
  PROVE  n \in Int /\ -Half <= n /\ n <= Half - 1 /\ Half \in Nat \ {0}
BY Bounds DEF Int32, IntMin

LEMMA ZeroInt32 == 0 \in Int32
BY Bounds DEF Int32, IntMin

(* A quotient is no further from 0 than the dividend, and nearer to it for *)
(* a divisor other than 1 and -1.                                          *)
LEMMA DivBelow ==
  ASSUME NEW a \in Nat, NEW b \in Nat \ {0}
  PROVE  a \div b \in 0 .. a /\ (b > 1 /\ a > 0 => a \div b < a)
<1> DEFINE q == a \div b
<1>1. q \in Nat /\ a = b * q + (a % b) /\ a % b \in 0 .. b - 1
  OBVIOUS
<1>2. b * q <= a
  BY <1>1
<1>3. q <= b * q
  BY <1>1
<1>4. ASSUME b > 1, a > 0 PROVE q < a
  <2>1. CASE q = 0
    BY <2>1, <1>4
  <2>2. CASE q > 0
    <3>1. q < b * q
      BY <1>1, <1>4, <2>2
    <3> QED BY <1>1, <1>2, <3>1
  <2> QED BY <1>1, <2>1, <2>2
<1> QED BY <1>1, <1>2, <1>3, <1>4

(* So only the least int divided by -1 leaves the range.                   *)
LEMMA QuotientInt ==
  ASSUME NEW a \in Int32, NEW b \in Int, b # 0, ~ (a = IntMin /\ b = -1)
  PROVE  Quotient(a, b) \in Int32
<1>1. a \in Int /\ -Half <= a /\ a <= Half - 1 /\ Half \in Nat \ {0}
  BY Int32Int
<1>2. Abs(a) \in Nat /\ Abs(b) \in Nat \ {0} /\ Abs(a) <= Half
  BY <1>1 DEF Abs
<1> DEFINE q == Abs(a) \div Abs(b)
<1>3. q \in 0 .. Abs(a) /\ (Abs(b) > 1 /\ Abs(a) > 0 => q < Abs(a))
  BY <1>2, DivBelow
<1>4. CASE q = Half
  <2>1. Abs(a) = Half /\ a = IntMin /\ a < 0
    BY <1>1, <1>2, <1>3, <1>4 DEF Abs, IntMin
  <2>2. Abs(b) = 1
    BY <1>1, <1>2, <1>3, <1>4, <2>1
  <2>3. b = 1
    BY <2>1, <2>2 DEF Abs
  <2>4. Quotient(a, b) = -q
    BY <2>1, <2>3 DEF Quotient
  <2> QED BY <1>1, <1>4, <2>4 DEF Int32, IntMin
<1>5. CASE q < Half
  <2>1. Quotient(a, b) = q \/ Quotient(a, b) = -q
    BY DEF Quotient
  <2> HIDE DEF q
  <2> QED BY <1>1, <1>2, <1>3, <1>5, <2>1 DEF Int32, IntMin
<1> HIDE DEF q
<1> QED BY <1>1, <1>2, <1>3, <1>4, <1>5

(* What add, sub, mul and div leave in a variable is an int                *)
(* (aira_lang.c:77-82).                                                    *)
LEMMA ResultInt ==
  ASSUME NEW op \in {"add", "sub", "mul", "div"}, NEW a \in Int32, NEW b \in Int, ~ Overflows(op, a, b)
  PROVE  Result(op, a, b) \in Int32
<1>1. a \in Int
  BY Int32Int
<1>2. Wrap(a + b) \in Int32 /\ Wrap(a - b) \in Int32 /\ Wrap(a * b) \in Int32
  BY <1>1, WrapInt
<1>3. CASE op = "div"
  <2>1. CASE b = 0
    BY <1>3, <2>1 DEF Result
  <2>2. CASE b # 0
    BY <1>3, <2>2, QuotientInt DEF Result, Overflows
  <2> QED BY <2>1, <2>2
<1> QED BY <1>2, <1>3 DEF Result

(* A number ends at or before Edge (process_math, aira_lang.c:70-74).      *)
LEMMA NumberEnds ==
  ASSUME AiraInv, NEW j \in 0 .. Edge
  PROVE  NumberEnd(j) \in j .. Edge
<1>1. Edge \in Nat /\ BufLen \in Nat /\ Edge \in 0 .. BufLen - 1
  BY Bounds
<1>2. At(Edge) # "digit"
  BY <1>1 DEF AiraInv, BufferInv, At, Nul, Word
<1> DEFINE Ends(e) == (e < BufLen => At(e) # "digit") /\ \A h \in j .. e - 1 : At(h) = "digit"
           S == {e \in j .. Edge : At(e) # "digit"}
<1>3. Edge \in S
  BY <1>1, <1>2
<1>4. PICK e \in S : \A h \in S : e <= h
  <2>1. S \in SUBSET Nat /\ S # {}
    BY <1>1, <1>3
  <2> HIDE DEF S
  <2> QED BY <2>1, Smallest
<1>5. e \in j .. BufLen /\ Ends(e)
  BY <1>1, <1>4
<1>6. NumberEnd(j) \in j .. BufLen /\ Ends(NumberEnd(j))
  <2> HIDE DEF Ends
  <2>1. (CHOOSE x \in j .. BufLen : Ends(x)) \in j .. BufLen /\ Ends(CHOOSE x \in j .. BufLen : Ends(x))
    BY <1>5
  <2> QED BY <2>1 DEF NumberEnd, Ends
<1>7. ~ NumberEnd(j) > Edge
  <2> SUFFICES ASSUME NumberEnd(j) > Edge PROVE FALSE
    OBVIOUS
  <2>1. Edge \in j .. NumberEnd(j) - 1
    BY <1>1, <1>6
  <2> QED BY <1>2, <1>6, <2>1
<1> QED BY <1>1, <1>6, <1>7

(* The characters of a number are added up, each in the range of an int.   *)
Sum(j, h, v) == IF h = j THEN 0 ELSE Wrap(v[h - 1] * 10 + file_system_buffer[h - 1].d)
LEMMA SumExists ==
  ASSUME AiraInv, NEW j \in Nat, NEW e \in Nat, j <= e, e <= BufLen
  PROVE  \E v : v = [h \in j .. e |-> Sum(j, h, v)]
<1> DEFINE OK(n, v) == v \in [j .. j + n -> Int] /\ \A h \in j .. j + n : v[h] = Sum(j, h, v)
           S == {n \in Nat : j + n <= e /\ ~ \E v : OK(n, v)}
<1>1. \A h \in j + 1 .. e : file_system_buffer[h - 1].d \in Nat
  <2> SUFFICES ASSUME NEW h \in j + 1 .. e PROVE file_system_buffer[h - 1].d \in Nat
    OBVIOUS
  <2>1. h - 1 \in 0 .. BufLen - 1
    BY Bounds
  <2>2. file_system_buffer[h - 1] \in Words
    BY <2>1 DEF AiraInv, BufferInv
  <2> QED BY <2>2, WordParts
<1>2. S = {}
  <2> SUFFICES ASSUME S # {} PROVE FALSE
    OBVIOUS
  <2>1. PICK n \in S : \A k \in S : n <= k
    <3>1. S \in SUBSET Nat
      OBVIOUS
    <3> HIDE DEF S
    <3> QED BY <3>1, Smallest
  <2>2. CASE n = 0
    <3> DEFINE f == [h \in j .. j |-> 0]
    <3>1. OK(0, f)
      BY DEF Sum
    <3> QED BY <2>1, <2>2, <3>1
  <2>3. CASE n > 0
    <3>0. n \in Nat /\ j + n <= e
      BY <2>1
    <3>1. n - 1 \in Nat /\ n - 1 \notin S /\ j + (n - 1) <= e
      <4> HIDE DEF S
      <4> QED BY <2>1, <2>3, <3>0
    <3>2. PICK f : OK(n - 1, f)
      BY <3>1
    <3> DEFINE x == Wrap(f[j + n - 1] * 10 + file_system_buffer[j + n - 1].d)
               g == [h \in j .. j + n |-> IF h = j + n THEN x ELSE f[h]]
    <3>3. x \in Int
      <4>1. f[j + n - 1] \in Int /\ file_system_buffer[j + n - 1].d \in Nat
        <5>1. j + n - 1 \in j .. j + (n - 1) /\ j + n \in j + 1 .. e /\ (j + n) - 1 = j + n - 1
          BY <2>1, <2>3
        <5> QED BY <1>1, <3>2, <5>1
      <4>2. f[j + n - 1] * 10 + file_system_buffer[j + n - 1].d \in Int
        BY <4>1
      <4> QED BY <4>2, WrapInt
    <3>4. g \in [j .. j + n -> Int]
      <4>1. \A h \in j .. j + n : h # j + n => h \in j .. j + (n - 1)
        BY <2>1
      <4> HIDE DEF x
      <4> QED BY <3>2, <3>3, <4>1
    <3>5. ASSUME NEW h \in j .. j + n PROVE g[h] = Sum(j, h, g)
      <4>1. CASE h = j + n
        <5>1. h # j /\ h - 1 = j + n - 1 /\ h - 1 \in j .. j + n /\ h - 1 # j + n
          <6>1. n \in Nat
            BY <2>1
          <6> HIDE DEF g, x, S, OK
          <6> QED BY <2>3, <4>1, <6>1
        <5>2. g[h] = x /\ g[h - 1] = f[j + n - 1]
          BY <4>1, <5>1
        <5> QED BY <5>1, <5>2 DEF Sum
      <4>2. CASE h # j + n
        <5>1. h \in j .. j + (n - 1) /\ g[h] = f[h] /\ f[h] = Sum(j, h, f)
          BY <2>1, <3>2, <4>2
        <5>2. CASE h = j
          BY <5>1, <5>2 DEF Sum
        <5>3. CASE h # j
          <6>1. h - 1 \in j .. j + n /\ h - 1 # j + n
            BY <2>1, <5>1, <5>3
          <6>2. g[h - 1] = f[h - 1]
            BY <6>1
          <6> QED BY <5>1, <5>3, <6>2 DEF Sum
        <5> QED BY <5>2, <5>3
      <4> QED BY <4>1, <4>2
    <3> HIDE DEF g
    <3>6. OK(n, g)
      BY <3>4, <3>5
    <3> QED BY <2>1, <3>6
  <2> QED BY <2>1, <2>2, <2>3
<1>3. PICK v : OK(e - j, v)
  <2>1. e - j \in Nat /\ j + (e - j) <= e
    OBVIOUS
  <2> QED BY <1>2, <2>1
<1>4. v = [h \in j .. e |-> Sum(j, h, v)]
  <2>1. j + (e - j) = e
    OBVIOUS
  <2>2. v \in [j .. e -> Int] /\ \A h \in j .. e : v[h] = Sum(j, h, v)
    BY <1>3, <2>1
  <2> QED BY <2>2
<1> QED BY <1>4

(* So a number read is an int, however many digits it has.                 *)
LEMMA NumberInt ==
  ASSUME AiraInv, NEW j \in 0 .. Edge
  PROVE  Number(j) \in Int32
<1> DEFINE e == NumberEnd(j)
<1>1. e \in j .. Edge /\ j \in Nat /\ e \in Nat /\ j <= e /\ e <= BufLen
  BY NumberEnds, Bounds
<1> HIDE DEF e
<1> DEFINE v == CHOOSE v : v = [h \in j .. e |-> Sum(j, h, v)]
<1>2. v = [h \in j .. e |-> Sum(j, h, v)]
  BY <1>1, SumExists
<1>3. Number(j) = v[e]
  BY DEF Number, e, Sum
<1> HIDE DEF v
<1>4. \A h \in j .. e : v[h] = Sum(j, h, v)
  BY <1>2
<1> DEFINE S == {h \in j .. e : v[h] \notin Int32}
<1>5. S = {}
  <2> SUFFICES ASSUME S # {} PROVE FALSE
    OBVIOUS
  <2>1. PICK h \in S : \A k \in S : h <= k
    <3>1. S \in SUBSET Nat
      BY <1>1
    <3> HIDE DEF S
    <3> QED BY <3>1, Smallest
  <2>2. h # j
    BY <1>4, <2>1, ZeroInt32 DEF Sum
  <2>3. h \in j .. e /\ h - 1 \in j .. e /\ h \in Nat
    BY <1>1, <2>1, <2>2
  <2>4. v[h - 1] \in Int
    <3>1. h - 1 \notin S
      <4> HIDE DEF S
      <4> QED BY <1>1, <2>1, <2>3
    <3> QED BY <2>3, <3>1, Int32Int
  <2>5. file_system_buffer[h - 1].d \in Nat
    <3>1. h - 1 \in 0 .. BufLen - 1
      BY <1>1, <2>2, <2>3, Bounds
    <3>2. file_system_buffer[h - 1] \in Words
      BY <3>1 DEF AiraInv, BufferInv
    <3> QED BY <3>2, WordParts
  <2>6. v[h] = Wrap(v[h - 1] * 10 + file_system_buffer[h - 1].d)
    BY <1>4, <2>2, <2>3 DEF Sum
  <2>7. v[h] \in Int32
    BY <2>4, <2>5, <2>6, WrapInt
  <2> QED BY <2>1, <2>7
<1> QED BY <1>1, <1>3, <1>5

(* A text ends after StringMax words or before (aira_lang.c).              *)
LEMMA TextEnds ==
  ASSUME NEW j \in Nat
  PROVE  TextEnd(j) \in j .. j + StringMax
<1>1. StringMax \in Nat
  BY Bounds
<1> DEFINE Ends(e) == (e = j + StringMax \/ At(e) = "quote") /\ \A h \in j .. e - 1 : At(h) # "quote"
           S == {e \in j .. j + StringMax : e = j + StringMax \/ At(e) = "quote"}
<1>2. PICK e \in S : \A h \in S : e <= h
  <2>1. S \in SUBSET Nat /\ j + StringMax \in S
    BY <1>1
  <2> HIDE DEF S
  <2> QED BY <2>1, Smallest
<1>3. e \in j .. j + StringMax /\ Ends(e)
  <2>1. ASSUME NEW h \in j .. e - 1 PROVE At(h) # "quote"
    <3>1. h \in j .. j + StringMax /\ ~ (e <= h)
      BY <1>1, <1>2
    <3> QED BY <1>2, <3>1
  <2> QED BY <1>2, <2>1
<1> HIDE DEF Ends
<1>4. (CHOOSE x \in j .. j + StringMax : Ends(x)) \in j .. j + StringMax
  BY <1>3
<1> QED BY <1>4 DEF TextEnd, Ends

(* The text of print ends with the file or before (aira_lang.c:99-106).    *)
LEMMA PrintEnds ==
  ASSUME NEW j \in Nat, NEW k \in Nat, j <= k
  PROVE  (CHOOSE e \in j .. k : /\ e = k \/ At(e) = "quote"
                                /\ \A h \in j .. e - 1 : At(h) # "quote") \in j .. k
<1> DEFINE Ends(e) == /\ e = k \/ At(e) = "quote"
                      /\ \A h \in j .. e - 1 : At(h) # "quote"
           S == {e \in j .. k : e = k \/ At(e) = "quote"}
<1>2. PICK e \in S : \A h \in S : e <= h
  <2>1. S \in SUBSET Nat /\ k \in S
    OBVIOUS
  <2> HIDE DEF S
  <2> QED BY <2>1, Smallest
<1>3. e \in j .. k /\ Ends(e)
  <2>1. ASSUME NEW h \in j .. e - 1 PROVE At(h) # "quote"
    <3>1. h \in j .. k /\ ~ (e <= h)
      BY <1>2
    <3> QED BY <1>2, <3>1
  <2> QED BY <1>2, <2>1
<1> HIDE DEF Ends
<1>4. (CHOOSE x \in j .. k : Ends(x)) \in j .. k
  BY <1>3
<1> QED BY <1>4 DEF Ends

(* find_var finds a slot in use with the name, if there is one; set takes  *)
(* one not in use (aira_lang.c:33-40, 206-211).                            *)
LEMMA FirstSlot ==
  ASSUME NEW S \in SUBSET VarIds, S # {}
  PROVE  (CHOOSE s \in S : \A r \in S : s <= r) \in S
<1>1. S \in SUBSET Nat
  BY Bounds DEF VarIds
<1>2. \E s \in S : \A r \in S : s <= r
  BY <1>1, Smallest
<1> QED BY <1>2

(* find_var returns the slot of the name, or -1 when no slot in use has    *)
(* it.                                                                     *)
LEMMA FindVar ==
  ASSUME NEW n
  PROVE  \/ /\ find_var(n) \in VarIds
            /\ var_table[find_var(n)].active /\ var_table[find_var(n)].name = n
         \/ find_var(n) = -1 /\ \A s \in VarIds : ~ (var_table[s].active /\ var_table[s].name = n)
<1> DEFINE S == {s \in VarIds : var_table[s].active /\ var_table[s].name = n}
<1>1. CASE S = {}
  BY <1>1 DEF find_var
<1>2. CASE S # {}
  <2>1. find_var(n) = CHOOSE s \in S : \A r \in S : s <= r
    BY <1>2 DEF find_var
  <2>2. find_var(n) \in S
    <3>1. S \in SUBSET VarIds
      OBVIOUS
    <3> HIDE DEF S
    <3> QED BY <1>2, <2>1, <3>1, FirstSlot
  <2> QED BY <2>2
<1> QED BY <1>1, <1>2

(* The free slot of set is not in use.                                     *)
LEMMA FreeVar ==
  FreeSlot = -1 \/ (FreeSlot \in VarIds /\ ~ var_table[FreeSlot].active)
<1> DEFINE S == {s \in VarIds : ~ var_table[s].active}
<1>1. CASE S = {}
  BY <1>1 DEF FreeSlot
<1>2. CASE S # {}
  <2>1. FreeSlot = CHOOSE s \in S : \A r \in S : s <= r
    BY <1>2 DEF FreeSlot
  <2>2. FreeSlot \in S
    <3>1. S \in SUBSET VarIds
      OBVIOUS
    <3> HIDE DEF S
    <3> QED BY <1>2, <2>1, <3>1, FirstSlot
  <2> QED BY <2>2
<1> QED BY <1>1, <1>2

-----------------------------------------------------------------------------
(* The buffer, the variables and the place in the program begin well.      *)
LEMMA InterpreterInit == AiraInit => AiraInv
<1> SUFFICES ASSUME AiraInit PROVE AiraInv
  OBVIOUS
<1>1. Nul \in Words
  BY DEF Nul, Word, Words
<1>2. Free \in Variable /\ Len(Free.sval) = 0 /\ ~ Free.active
  <2>1. <<>> \in Seq(Words) /\ Len(<<>>) = 0
    OBVIOUS
  <2> QED BY <2>1, ZeroInt32 DEF Free, Variable
<1>3. BufferInv
  BY <1>1, Bounds DEF AiraInit, BufferInv
<1>4. TableInv
  <2>1. \A s \in VarIds : var_table[s] = Free
    BY DEF AiraInit
  <2>2. var_table \in [VarIds -> Variable]
    BY <1>2 DEF AiraInit
  <2> QED BY <1>2, <2>1, <2>2, Bounds DEF TableInv
<1>5. PlaceInv
  BY Bounds, ZeroInt32 DEF AiraInit, PlaceInv
<1> QED BY <1>3, <1>4, <1>5 DEF AiraInv

(* A shorter program leaves the rest of a longer one behind it.            *)
LEMMA LoadInv ==
  ASSUME AiraInv, NEW p \in Programs, Load(p)
  PROVE  AiraInv'
<1>1. p \in Seq(Words) /\ Len(p) \in 0 .. Edge /\ Edge \in Nat /\ BufLen \in Nat /\ Edge < BufLen
  BY Bounds
<1>2. BufferInv'
  <2>1. file_system_buffer' \in [0 .. BufLen - 1 -> Words]
    <3>1. ASSUME NEW j \in 0 .. BufLen - 1
          PROVE  (IF j < Len(p) THEN p[j + 1] ELSE file_system_buffer[j]) \in Words
      <4>1. CASE j < Len(p)
        <5>1. j + 1 \in 1 .. Len(p)
          BY <1>1, <4>1
        <5>2. p[j + 1] \in Words
          BY <1>1, <5>1
        <5> QED BY <4>1, <5>2
      <4>2. CASE ~ (j < Len(p))
        BY <4>2 DEF AiraInv, BufferInv
      <4> QED BY <4>1, <4>2
    <3> QED BY <3>1 DEF Load
  <2>2. ASSUME NEW j \in Edge .. BufLen - 1 PROVE file_system_buffer'[j] = Nul
    <3>1. j \in 0 .. BufLen - 1 /\ ~ (j < Len(p))
      BY <1>1
    <3> QED BY <3>1 DEF Load, AiraInv, BufferInv
  <2>3. file_size' \in 0 .. Edge
    BY <1>1 DEF Load
  <2> QED BY <2>1, <2>2, <2>3 DEF BufferInv
<1>3. TableInv'
  BY DEF Load, AiraInv, TableInv
<1>4. PlaceInv'
  BY <1>1 DEF Load, AiraInv, PlaceInv
<1> QED BY <1>2, <1>3, <1>4 DEF AiraInv

(* A statement that ends behind the place it began at.                     *)
LEMMA MoveInv ==
  ASSUME AiraInv, UNCHANGED <<Loaded, var_table>>, i' \in 0 .. BufLen,
         loop_count' \in Int32, loop_start_index' \in 0 .. Edge, status' \in {"shell", "running", "fault", "lost"}
  PROVE  AiraInv'
BY DEF AiraInv, BufferInv, TableInv, PlaceInv, Loaded

(* A statement being read is in the file, and the word behind it in the    *)
(* buffer.                                                                 *)
LEMMA Place ==
  ASSUME AiraInv, i < file_size
  PROVE  /\ i \in Nat /\ i + 1 \in 0 .. Edge /\ Edge \in Nat /\ Edge < BufLen /\ BufLen \in Nat
         /\ loop_count \in Int32 /\ loop_start_index \in 0 .. Edge
         /\ file_size \in 0 .. Edge
         /\ file_system_buffer[i] \in Words /\ file_system_buffer[i].k \in Names \cup {NoName}
<1>1. i \in Nat /\ file_size \in 0 .. Edge /\ Edge \in Nat /\ Edge < BufLen /\ BufLen \in Nat
      /\ loop_count \in Int32 /\ loop_start_index \in 0 .. Edge
  BY Bounds DEF AiraInv, BufferInv, PlaceInv
<1>2. i \in 0 .. BufLen - 1
  BY <1>1
<1>3. file_system_buffer[i] \in Words
  BY <1>2 DEF AiraInv, BufferInv
<1> QED BY <1>1, <1>3, WordParts

(* One lemma for each statement of run_interper.                           *)
LEMMA PrintTextInv ==
  ASSUME AiraInv, PrintText
  PROVE  AiraInv'
<1>1. i < file_size /\ status = "running"
  BY DEF PrintText, Reading
<1> DEFINE e == CHOOSE j \in i + 1 .. file_size :
                  /\ j = file_size \/ At(j) = "quote"
                  /\ \A h \in i + 1 .. j - 1 : At(h) # "quote"
<1>2. e \in i + 1 .. file_size
  <2>1. i + 1 \in Nat /\ file_size \in Nat /\ i + 1 <= file_size
    BY <1>1, Place
  <2> QED BY <2>1, PrintEnds
<1>3. i' = AfterClose(e + 1)
  BY DEF PrintText
<1> HIDE DEF e
<1>4. AfterClose(e + 1) \in {e + 1, e + 2}
  BY <1>1, <1>2, Place DEF AfterClose
<1>5. i' \in 0 .. BufLen
  BY <1>1, <1>2, <1>3, <1>4, Place, Bounds
<1> QED BY <1>1, <1>5, Place, MoveInv DEF PrintText, Looping

LEMMA PrintVarInv ==
  ASSUME AiraInv, PrintVar
  PROVE  AiraInv'
<1>1. i < file_size /\ status = "running"
  BY DEF PrintVar, Reading
<1>2. i' \in {i + 1, (i + 1) + 1}
  BY DEF PrintVar, AfterClose
<1>3. i' \in 0 .. BufLen
  BY <1>1, <1>2, Place, Bounds
<1> QED BY <1>1, <1>3, Place, MoveInv DEF PrintVar, Looping

(* Where the name of an argument ends: at a stop or behind a keyword, so   *)
(* not behind Edge, or nowhere in the buffer.                              *)
Stops == SUBSET {"comma", "close", "space"}
LEMMA NameEnds ==
  ASSUME AiraInv, NEW j \in 0 .. Edge, NEW stops \in Stops
  PROVE  /\ NameEnd(j, stops) \in j .. BufLen
         /\ NameEnd(j, stops) < BufLen => EndsName(j, NameEnd(j, stops), stops)
         /\ \A h \in j .. NameEnd(j, stops) - 1 : ~ EndsName(j, h, stops)
         /\ NameEnd(j, stops) # BufLen => NameEnd(j, stops) \in j .. Edge
<1>1. Edge \in Nat /\ BufLen \in Nat /\ Edge < BufLen
  BY Bounds
<1> DEFINE Ends(e) == (e < BufLen => EndsName(j, e, stops)) /\ \A h \in j .. e - 1 : ~ EndsName(j, h, stops)
           S == {e \in j .. BufLen : e = BufLen \/ EndsName(j, e, stops)}
<1>2. PICK e \in S : \A h \in S : e <= h
  <2>1. S \in SUBSET Nat /\ BufLen \in S
    BY <1>1
  <2> HIDE DEF S
  <2> QED BY <2>1, Smallest
<1>3. e \in j .. BufLen /\ Ends(e)
  <2>1. ASSUME NEW h \in j .. e - 1 PROVE ~ EndsName(j, h, stops)
    <3>1. h \in j .. BufLen /\ h < e
      BY <1>1, <1>2
    <3>2. h \notin S
      BY <1>1, <1>2, <3>1
    <3> QED BY <3>1, <3>2
  <2> QED BY <1>1, <1>2, <2>1
<1> DEFINE n == NameEnd(j, stops)
<1>4. n \in j .. BufLen /\ Ends(n)
  <2> HIDE DEF Ends
  <2>1. (CHOOSE x \in j .. BufLen : Ends(x)) \in j .. BufLen /\ Ends(CHOOSE x \in j .. BufLen : Ends(x))
    BY <1>3
  <2> QED BY <2>1 DEF NameEnd, Ends
<1>5. \A h \in Edge .. BufLen - 1 : At(h) = "nul"
  BY DEF AiraInv, BufferInv, At, Nul, Word
<1>6. n # BufLen => n <= Edge
  <2> SUFFICES ASSUME n # BufLen, n > Edge PROVE FALSE
    BY <1>1, <1>4
  <2> HIDE DEF n
  <2>1. n \in Edge .. BufLen - 1 /\ n - 1 \in Edge .. BufLen - 1 /\ n < BufLen
    BY <1>1, <1>4
  <2>2. At(n) = "nul" /\ At(n - 1) = "nul"
    BY <1>5, <2>1
  <2>3. ~ EndsName(j, n, stops)
    BY <2>2 DEF EndsName, Spaced, Stops
  <2> QED BY <1>4, <2>1, <2>3
<1> QED BY <1>1, <1>4, <1>6

(* A name of one word ends at the stop behind it.                          *)
LEMMA NameAlone ==
  ASSUME AiraInv, NEW j \in Nat, j + 1 <= Edge, NEW stops \in Stops, At(j) = "name", At(j + 1) \in stops
  PROVE  NameEnd(j, stops) = j + 1
<1>1. j \in 0 .. Edge /\ Edge < BufLen /\ BufLen \in Nat /\ Edge \in Nat
  BY Bounds
<1> DEFINE n == NameEnd(j, stops)
<1>2. n \in j .. BufLen /\ (n < BufLen => EndsName(j, n, stops)) /\ \A h \in j .. n - 1 : ~ EndsName(j, h, stops)
  BY <1>1, NameEnds
<1> HIDE DEF n
<1>3. EndsName(j, j + 1, stops) /\ ~ EndsName(j, j, stops)
  BY DEF EndsName, Stops
<1>4. n # j
  BY <1>1, <1>2, <1>3
<1>5. ~ (n > j + 1)
  <2>1. n > j + 1 => j + 1 \in j .. n - 1
    BY <1>1, <1>2
  <2> QED BY <1>2, <1>3, <2>1
<1> QED BY <1>1, <1>2, <1>4, <1>5 DEF n

(* The commas and spaces behind a frequency end before Edge.               *)
LEMMA CommasEnd ==
  ASSUME AiraInv, NEW j \in 0 .. Edge
  PROVE  /\ AfterCommas(j) \in j .. Edge /\ At(AfterCommas(j)) \notin {"comma", "space"}
         /\ \A h \in j .. AfterCommas(j) - 1 : At(h) \in {"comma", "space"}
<1>1. Edge \in Nat /\ BufLen \in Nat /\ Edge \in 0 .. BufLen - 1
  BY Bounds
<1>2. At(Edge) \notin {"comma", "space"}
  BY <1>1 DEF AiraInv, BufferInv, At, Nul, Word
<1> DEFINE Ends(e) == (e < BufLen => At(e) \notin {"comma", "space"}) /\ \A h \in j .. e - 1 : At(h) \in {"comma", "space"}
           S == {e \in j .. Edge : At(e) \notin {"comma", "space"}}
<1>3. Edge \in S
  BY <1>1, <1>2
<1>4. PICK e \in S : \A h \in S : e <= h
  <2>1. S \in SUBSET Nat /\ S # {}
    BY <1>1, <1>3
  <2> HIDE DEF S
  <2> QED BY <2>1, Smallest
<1>5. e \in j .. BufLen /\ Ends(e)
  BY <1>1, <1>4
<1>6. AfterCommas(j) \in j .. BufLen /\ Ends(AfterCommas(j))
  <2> HIDE DEF Ends
  <2>1. (CHOOSE x \in j .. BufLen : Ends(x)) \in j .. BufLen /\ Ends(CHOOSE x \in j .. BufLen : Ends(x))
    BY <1>5
  <2> QED BY <2>1 DEF AfterCommas, Ends
<1>7. ~ AfterCommas(j) > Edge
  <2> SUFFICES ASSUME AfterCommas(j) > Edge PROVE FALSE
    OBVIOUS
  <2>1. Edge \in j .. AfterCommas(j) - 1
    BY <1>1, <1>6
  <2> QED BY <1>2, <1>6, <2>1
<1> QED BY <1>1, <1>6, <1>7

(* The arguments of beep are before Edge, as everything read from it is.   *)
LEMMA ArgumentEnds ==
  ASSUME AiraInv, NEW j \in 0 .. Edge, NEW stops \in Stops, NEW a \in Arguments(j, stops)
  PROVE  a.next \in j .. Edge
<1>1. CASE At(j) = "digit"
  <2>1. a.next = NumberEnd(j)
    <3>1. Arguments(j, stops) = {[value |-> Number(j), next |-> NumberEnd(j)]}
      BY <1>1 DEF Arguments
    <3> QED BY <3>1
  <2> QED BY <2>1, NumberEnds
<1>2. CASE At(j) # "digit"
  <2>1. PICK n \in Values(j, stops) : a = [value |-> n, next |-> NameEnd(j, stops)]
    BY <1>2 DEF Arguments
  <2>2. NameEnd(j, stops) # BufLen
    BY <2>1 DEF Values
  <2> QED BY <2>1, <2>2, NameEnds
<1> QED BY <1>1, <1>2

LEMMA DurationEnds ==
  ASSUME AiraInv, NEW j \in 0 .. Edge, NEW a \in Durations(j)
  PROVE  a.next \in j .. Edge
<1>1. CASE At(j) = "close"
  <2>1. Durations(j) = {[value |-> 0, next |-> j]}
    BY <1>1 DEF Durations
  <2> QED BY <2>1, Bounds
<1>2. CASE At(j) # "close"
  <2>1. a \in Arguments(j, TimeStops) /\ TimeStops \in Stops
    BY <1>2 DEF Durations, TimeStops, Stops
  <2> QED BY <2>1, ArgumentEnds
<1> QED BY <1>1, <1>2

(* So a beep goes on behind the keyword, and before Edge.                  *)
LEMMA BeepMoves ==
  ASSUME AiraInv, Beep
  PROVE  i' \in i + 1 .. Edge + 1 /\ status' \in {"fault", status} /\ UNCHANGED <<Loaded, var_table, Looping>>
<1>1. i < file_size /\ status = "running"
  BY DEF Beep, Reading
<1>2. PICK freq \in Arguments(i + 1, FreqStops) : \E duration \in Durations(AfterCommas(freq.next)) :
        i' = AfterClose(duration.next) /\ status' \in {"fault", status}
  BY DEF Beep
<1>3. PICK duration \in Durations(AfterCommas(freq.next)) :
        i' = AfterClose(duration.next) /\ status' \in {"fault", status}
  BY <1>2
<1>4. i \in Nat /\ i + 1 \in 0 .. Edge /\ Edge \in Nat
  BY <1>1, Place
<1>5. freq.next \in i + 1 .. Edge
  <2>1. FreqStops \in Stops
    BY DEF FreqStops, Stops
  <2> QED BY <1>2, <1>4, <2>1, ArgumentEnds
<1>6. AfterCommas(freq.next) \in freq.next .. Edge
  <2>1. freq.next \in 0 .. Edge
    BY <1>4, <1>5
  <2> QED BY <2>1, CommasEnd
<1>7. duration.next \in AfterCommas(freq.next) .. Edge
  <2>1. AfterCommas(freq.next) \in 0 .. Edge
    BY <1>4, <1>5, <1>6
  <2> QED BY <1>3, <2>1, DurationEnds
<1>8. i' \in {duration.next, duration.next + 1}
  BY <1>3 DEF AfterClose
<1>9. i' \in i + 1 .. Edge + 1
  BY <1>4, <1>5, <1>6, <1>7, <1>8
<1>10. UNCHANGED <<Loaded, var_table, Looping>>
  BY DEF Beep
<1> QED BY <1>3, <1>9, <1>10

LEMMA BeepInv ==
  ASSUME AiraInv, Beep \/ BeepOverrun
  PROVE  AiraInv'
<1>1. i < file_size /\ status = "running"
  BY DEF Beep, BeepOverrun, Reading
<1>2. CASE Beep
  <2>1. i' \in 0 .. BufLen
    BY <1>1, <1>2, BeepMoves, Place
  <2> QED BY <1>1, <1>2, <2>1, BeepMoves, Place, MoveInv DEF Looping
<1>3. CASE BeepOverrun
  BY <1>1, <1>3, Place, MoveInv DEF BeepOverrun, Looping
<1> QED BY <1>2, <1>3

(* A variable takes a slot of its own, or keeps the one it has.            *)
LEMMA AssignInv ==
  ASSUME TableInv, NEW v \in VarIds, NEW x \in Variable, Len(x.sval) <= StringMax,
         var_table' = [var_table EXCEPT ![v] = x],
         \A s \in VarIds \ {v} : var_table[s].active => var_table[s].name # x.name
  PROVE  TableInv'
<1>1. var_table' \in [VarIds -> Variable]
  BY DEF TableInv
<1>2. \A s \in VarIds : var_table'[s] = IF s = v THEN x ELSE var_table[s]
  BY DEF TableInv
<1> QED BY <1>1, <1>2 DEF TableInv

(* The slot of a name: its own, or a free one if it has none.              *)
LEMMA SlotOfName ==
  ASSUME TableInv, NEW n, NEW v \in VarIds, v = IF find_var(n) = -1 THEN FreeSlot ELSE find_var(n)
  PROVE  \A s \in VarIds \ {v} : var_table[s].active => var_table[s].name # n
<1>0. -1 \notin VarIds
  BY Bounds DEF VarIds
<1>1. CASE find_var(n) = -1
  BY <1>0, <1>1, FindVar
<1>2. CASE find_var(n) # -1
  <2>1. var_table[v].active /\ var_table[v].name = n
    BY <1>2, FindVar
  <2> QED BY <2>1 DEF TableInv
<1> QED BY <1>1, <1>2

(* set reads a number or a text and gives it to the slot of its name.      *)
LEMMA SetInv ==
  ASSUME AiraInv, Set
  PROVE  AiraInv'
<1> DEFINE name == file_system_buffer[i].k
           found == find_var(Key(name))
           v == IF found = -1 THEN FreeSlot ELSE found
           isText == At(i + 1) = "quote" /\ ~Cut(name)
           chars == [n \in 1 .. TextEnd(i + 2) - i - 2 |-> file_system_buffer[i + 1 + n]]
           number == IF Cut(name) THEN 0 ELSE Number(i + 1)
           slot == IF isText
                   THEN [var_table[v] EXCEPT !.active = TRUE, !.name = Key(name),
                                             !.type = "string", !.sval = chars]
                   ELSE [var_table[v] EXCEPT !.active = TRUE, !.name = Key(name),
                                             !.type = "int", !.ival = number]
<1>1. i < file_size /\ status = "running"
  BY DEF Set, Reading
<1>2. /\ i \in Nat /\ i + 1 \in 0 .. Edge /\ Edge \in Nat /\ StringMax \in Nat
      /\ Edge + StringMax + 4 = BufLen
      /\ loop_count \in Int32 /\ loop_start_index \in 0 .. Edge
      /\ name \in Names \cup {NoName}
  BY <1>1, Place, Bounds
<1>3. UNCHANGED <<Loaded, Looping, screen, status>>
  BY DEF Set
<1>4. \/ v = -1 /\ i' = i + 1 /\ UNCHANGED var_table
      \/ /\ v # -1 /\ var_table' = [var_table EXCEPT ![v] = slot]
         /\ i' = IF Cut(name) THEN i + 1 ELSE IF isText THEN TextEnd(i + 2) + 1 ELSE NumberEnd(i + 1)
  BY DEF Set
<1> HIDE DEF name
<1>5. TextEnd(i + 2) \in i + 2 .. i + 2 + StringMax
  <2>1. i + 2 \in Nat
    BY <1>2
  <2> QED BY <2>1, TextEnds
<1>6. NumberEnd(i + 1) \in 0 .. Edge
  BY <1>2, NumberEnds
<1>7. i' \in 0 .. BufLen
  <2>1. i' \in {i + 1, TextEnd(i + 2) + 1, NumberEnd(i + 1)}
    BY <1>4
  <2> QED BY <1>2, <1>5, <1>6, <2>1
<1>8. Key(name) \in Names \cup {NoName}
  BY <1>2, KeyOfName
<1>9. chars \in Seq(Words) /\ Len(chars) <= StringMax
  <2> DEFINE k == TextEnd(i + 2) - i - 2
  <2>1. k \in 0 .. StringMax
    BY <1>2, <1>5
  <2>2. ASSUME NEW n \in 1 .. k PROVE file_system_buffer[i + 1 + n] \in Words
    <3>1. i + 1 + n \in 0 .. BufLen - 1
      <4> HIDE DEF k
      <4> QED BY <1>2, <2>1
    <3> QED BY <3>1 DEF AiraInv, BufferInv
  <2> HIDE DEF k
  <2>3. [n \in 1 .. k |-> file_system_buffer[i + 1 + n]] \in Seq(Words)
        /\ Len([n \in 1 .. k |-> file_system_buffer[i + 1 + n]]) = k
    BY <1>2, <2>1, <2>2
  <2> QED BY <1>2, <2>1, <2>3 DEF k
<1>10. number \in Int32
  BY <1>2, NumberInt, ZeroInt32
<1> HIDE DEF number, chars
<1>11. TableInv'
  <2>1. CASE UNCHANGED var_table
    BY <2>1 DEF AiraInv, TableInv
  <2>2. CASE v # -1 /\ var_table' = [var_table EXCEPT ![v] = slot]
    <3>1. v \in VarIds
      BY <2>2, FindVar, FreeVar
    <3> HIDE DEF v
    <3>2. var_table[v] \in Variable /\ Len(var_table[v].sval) <= StringMax
      BY <3>1 DEF AiraInv, TableInv
    <3>3. slot \in Variable /\ slot.name = Key(name) /\ Len(slot.sval) <= StringMax
      BY <1>8, <1>9, <1>10, <3>2 DEF Variable
    <3>4. \A s \in VarIds \ {v} : var_table[s].active => var_table[s].name # Key(name)
      BY <3>1, SlotOfName DEF AiraInv, v
    <3> HIDE DEF slot
    <3>5. \A s \in VarIds \ {v} : var_table[s].active => var_table[s].name # slot.name
      BY <3>3, <3>4
    <3>6. TableInv /\ var_table' = [var_table EXCEPT ![v] = slot]
      BY <2>2 DEF AiraInv
    <3> QED BY <3>1, <3>3, <3>5, <3>6, AssignInv
  <2> QED BY <1>4, <2>1, <2>2
<1>12. BufferInv' /\ PlaceInv'
  BY <1>1, <1>2, <1>3, <1>7 DEF AiraInv, BufferInv, PlaceInv, Loaded, Looping
<1> QED BY <1>11, <1>12 DEF AiraInv

(* add, sub, mul and div leave the name of the variable alone.             *)
LEMMA MathInv ==
  ASSUME AiraInv, NEW op \in {"add", "sub", "mul", "div"}, process_math(op)
  PROVE  AiraInv'
<1> DEFINE name == file_system_buffer[i].k
           val == IF Cut(name) THEN 0 ELSE Number(i + 1)
           v == find_var(Key(name))
           counts == v # -1 /\ var_table[v].type = "int"
<1>1. i < file_size /\ status = "running"
  BY DEF process_math, Reading
<1>2. /\ i \in Nat /\ i + 1 \in 0 .. Edge /\ Edge \in Nat /\ Edge < BufLen /\ BufLen \in Nat
      /\ loop_count \in Int32 /\ loop_start_index \in 0 .. Edge
  BY <1>1, Place
<1>3. UNCHANGED <<Loaded, Looping, screen>>
  BY DEF process_math
<1>4. /\ i' = IF Cut(name) THEN i + 1 ELSE NumberEnd(i + 1)
      /\ \/ status' = "fault" /\ UNCHANGED var_table
         \/ UNCHANGED <<status, var_table>>
         \/ /\ UNCHANGED status /\ counts /\ ~ Overflows(op, var_table[v].ival, val)
            /\ var_table' = [var_table EXCEPT ![v].ival = Result(op, @, val)]
  BY DEF process_math
<1> HIDE DEF name
<1>5. NumberEnd(i + 1) \in 0 .. Edge
  BY <1>2, NumberEnds
<1>6. i' \in 0 .. BufLen
  BY <1>2, <1>4, <1>5
<1>7. val \in Int32 /\ val \in Int
  <2>1. val \in Int32
    BY <1>2, NumberInt, ZeroInt32
  <2> HIDE DEF val
  <2> QED BY <2>1, Int32Int
<1> HIDE DEF val
<1>8. TableInv'
  <2>1. CASE UNCHANGED var_table
    BY <2>1 DEF AiraInv, TableInv
  <2>2. CASE /\ counts /\ ~ Overflows(op, var_table[v].ival, val)
             /\ var_table' = [var_table EXCEPT ![v].ival = Result(op, @, val)]
    <3>1. v \in VarIds
      BY <2>2, FindVar
    <3> HIDE DEF v
    <3>2. var_table[v] \in Variable /\ Len(var_table[v].sval) <= StringMax
      BY <3>1 DEF AiraInv, TableInv
    <3> DEFINE r == Result(op, var_table[v].ival, val)
               x == [var_table[v] EXCEPT !.ival = r]
    <3>3. r \in Int32
      BY <1>7, <2>2, <3>2, ResultInt DEF Variable
    <3>4. var_table' = [var_table EXCEPT ![v] = x]
      BY <2>2
    <3> HIDE DEF r
    <3>5. /\ x \in Variable /\ x.sval = var_table[v].sval
          /\ x.name = var_table[v].name /\ x.active = var_table[v].active
      BY <3>2, <3>3 DEF Variable
    <3> HIDE DEF x
    <3>6. \A s \in VarIds : var_table'[s] = IF s = v THEN x ELSE var_table[s]
      BY <3>4 DEF AiraInv, TableInv
    <3>7. var_table' \in [VarIds -> Variable]
      BY <3>4, <3>5 DEF AiraInv, TableInv
    <3> QED BY <3>2, <3>5, <3>6, <3>7 DEF AiraInv, TableInv
  <2> QED BY <1>4, <2>1, <2>2
<1>9. status' \in {"shell", "running", "fault", "lost"}
  BY <1>1, <1>4
<1>10. BufferInv' /\ PlaceInv'
  BY <1>2, <1>3, <1>6, <1>9 DEF AiraInv, BufferInv, PlaceInv, Loaded, Looping
<1> QED BY <1>8, <1>10 DEF AiraInv

(* The loop statements, and what is passed over.                           *)
LEMMA LoopInv ==
  ASSUME AiraInv, Loop \/ EndLoop \/ Skip
  PROVE  AiraInv'
<1>1. i < file_size /\ status = "running"
  BY DEF Loop, EndLoop, Skip, Reading
<1>2. /\ i \in Nat /\ i + 1 \in 0 .. Edge /\ Edge \in Nat /\ Edge < BufLen /\ BufLen \in Nat
      /\ loop_count \in Int32 /\ loop_start_index \in 0 .. Edge
  BY <1>1, Place
<1>3. CASE Loop
  <2>1. NumberEnd(i + 1) \in 0 .. Edge /\ Number(i + 1) \in Int32
    BY <1>2, NumberEnds, NumberInt
  <2> QED BY <1>1, <1>2, <1>3, <2>1, MoveInv DEF Loop
<1>4. CASE EndLoop
  <2>1. loop_count' \in Int32
    <3>1. loop_count \in Int /\ -Half <= loop_count /\ loop_count <= Half - 1 /\ Half \in Nat \ {0}
      BY <1>2, Int32Int
    <3>2. loop_count' = loop_count \/ (loop_count > 1 /\ loop_count' = loop_count - 1)
      BY <1>4 DEF EndLoop
    <3> QED BY <3>1, <3>2 DEF Int32, IntMin
  <2>2. i' \in {loop_start_index, i + 1}
    BY <1>4 DEF EndLoop
  <2>3. i' \in 0 .. BufLen
    BY <1>2, <2>2
  <2> QED BY <1>1, <1>2, <1>4, <2>1, <2>3, MoveInv DEF EndLoop
<1>5. CASE Skip
  BY <1>1, <1>2, <1>5, MoveInv DEF Skip, Looping
<1> QED BY <1>3, <1>4, <1>5

(* The end of a program and the restart after a fault.                     *)
LEMMA ReturnInv ==
  ASSUME AiraInv, Return \/ Restart
  PROVE  AiraInv'
<1>1. CASE Return
  BY <1>1 DEF Return, AiraInv, BufferInv, TableInv, PlaceInv, Loaded, Looping
<1>2. CASE Restart
  <2>1. AiraInit'
    BY <1>2 DEF Restart, AiraInit
  <2>2. (AiraInit => AiraInv)'
    BY InterpreterInit, PTL
  <2> QED BY <2>1, <2>2
<1> QED BY <1>1, <1>2

(* Every turn of the loop of run_interper keeps the invariant.             *)
LEMMA InterpreterStep == AiraInv /\ [AiraNext]_airaVars => AiraInv'
<1> SUFFICES ASSUME AiraInv, [AiraNext]_airaVars PROVE AiraInv'
  OBVIOUS
<1>1. ASSUME NEW p \in Programs, Load(p) PROVE AiraInv'
  BY <1>1, LoadInv
<1>2. ASSUME NEW op \in {"add", "sub", "mul", "div"}, process_math(op) PROVE AiraInv'
  BY <1>2, MathInv
<1>3. CASE UNCHANGED airaVars
  BY <1>3 DEF airaVars, AiraInv, BufferInv, TableInv, PlaceInv
<1> QED BY <1>1, <1>2, <1>3, PrintTextInv, PrintVarInv, BeepInv, SetInv, LoopInv, ReturnInv
        DEF AiraNext, run_interper

(* Whatever programs run, one after the other: the interpreter reads and   *)
(* writes inside the buffer, loop counts and variables are in the range    *)
(* of an int, texts within their length, and no name has two variables,    *)
(* until a name given to beep overruns the stack, which ends what the      *)
(* model follows (run_interper and process_math, aira_lang.c:64-286).      *)
THEOREM InterpreterTyped == AiraSpec => []AiraTypeOK
<1>1. AiraInv => AiraTypeOK
  <2>1. AiraInv => file_size \in 0 .. BufLen /\ loop_start_index \in 0 .. BufLen
    BY Bounds DEF AiraInv, BufferInv, PlaceInv
  <2> QED BY <2>1 DEF AiraInv, BufferInv, TableInv, PlaceInv, AiraTypeOK, Variable
<1> QED BY <1>1, InterpreterInit, InterpreterStep, PTL DEF AiraSpec

-----------------------------------------------------------------------------
(* How far a program has still to go.  It never comes back before Floor:   *)
(* every loop statement it meets from now on stands there or behind it.    *)
Floor == IF i < loop_start_index THEN i ELSE loop_start_index
Turns == IF loop_count > 0 THEN loop_count ELSE 0
Rounds == (BufLen - Floor) * Half + Turns
Left == Rounds * (BufLen + 1) + (BufLen - i)

(* What is counted first is used up before what is counted last.           *)
LEMMA Falls ==
  ASSUME NEW m \in Nat, NEW a \in Nat, NEW b \in Nat, NEW r \in Nat, NEW s \in Nat,
         \/ b <= a /\ s < r
         \/ b < a /\ s < r + m
  PROVE  b * m + s < a * m + r
<1>1. CASE b <= a /\ s < r
  <2>1. b * m <= a * m
    BY <1>1
  <2>2. a * m \in Nat /\ b * m \in Nat
    OBVIOUS
  <2> QED BY <1>1, <2>1, <2>2
<1>2. CASE b < a /\ s < r + m
  <2>1. (b + 1) * m <= a * m
    <3>1. b + 1 <= a /\ b + 1 \in Nat
      BY <1>2
    <3> QED BY <3>1
  <2>2. (b + 1) * m = b * m + m
    OBVIOUS
  <2>3. a * m \in Nat /\ b * m \in Nat
    OBVIOUS
  <2> QED BY <1>2, <2>1, <2>2, <2>3
<1> QED BY <1>1, <1>2

LEMMA FallsTwice ==
  ASSUME NEW h \in Nat \ {0}, NEW n \in Nat,
         NEW p \in 0 .. n, NEW q \in 0 .. n, NEW t \in 0 .. h - 1, NEW u \in 0 .. h - 1,
         NEW x \in 0 .. n, NEW y \in 0 .. n,
         \/ q >= p /\ u = t /\ y > x
         \/ q > p
         \/ q >= p /\ u < t
  PROVE  ((n - q) * h + u) * (n + 1) + (n - y) < ((n - p) * h + t) * (n + 1) + (n - x)
<1> DEFINE a == (n - p) * h + t  b == (n - q) * h + u
<1>1. /\ n - p \in Nat /\ n - q \in Nat /\ n - x \in Nat /\ n - y \in Nat /\ n + 1 \in Nat
      /\ n - y < n + 1 /\ t \in Nat /\ u \in Nat /\ h \in Nat
  OBVIOUS
<1>2. (n - p) * h \in Nat /\ (n - q) * h \in Nat
  BY <1>1
<1>3. a \in Nat /\ b \in Nat
  BY <1>1, <1>2
<1>4. CASE q >= p /\ u = t /\ y > x
  <2>1. n - q <= n - p /\ n - y < n - x
    BY <1>4
  <2>2. (n - q) * h <= (n - p) * h
    BY <1>1, <2>1
  <2>3. b <= a
    BY <1>1, <1>2, <1>4, <2>2
  <2> HIDE DEF a, b
  <2>4. b * (n + 1) + (n - y) < a * (n + 1) + (n - x)
    BY <1>1, <1>3, <2>1, <2>3, Falls
  <2> QED BY <2>4 DEF a, b
<1>5. CASE q > p \/ (q >= p /\ u < t)
  <2>1. \/ n - q <= n - p /\ u < t
        \/ n - q < n - p /\ u < t + h
    BY <1>5
  <2>2. b < a
    BY <1>1, <2>1, Falls
  <2>3. n - y < (n - x) + (n + 1)
    BY <1>1
  <2> HIDE DEF a, b
  <2>4. b * (n + 1) + (n - y) < a * (n + 1) + (n - x)
    BY <1>1, <1>3, <2>2, <2>3, Falls
  <2> QED BY <2>4 DEF a, b
<1> QED BY <1>4, <1>5

LEMMA LeftType ==
  ASSUME AiraInv
  PROVE  /\ Half \in Nat \ {0} /\ BufLen \in Nat /\ i \in 0 .. BufLen
         /\ loop_start_index \in 0 .. BufLen /\ loop_count \in Int
         /\ Floor \in 0 .. BufLen /\ Turns \in 0 .. Half - 1 /\ Rounds \in Nat /\ Left \in Nat
<1>1. /\ Half \in Nat \ {0} /\ BufLen \in Nat /\ i \in 0 .. BufLen /\ loop_start_index \in 0 .. BufLen
  BY Bounds DEF AiraInv, PlaceInv
<1>2. loop_count \in Int /\ loop_count <= Half - 1
  BY Int32Int DEF AiraInv, PlaceInv
<1>3. Floor \in 0 .. BufLen /\ Turns \in 0 .. Half - 1
  BY <1>1, <1>2 DEF Floor, Turns
<1>4. Rounds \in Nat
  <2>1. BufLen - Floor \in Nat
    BY <1>1, <1>3
  <2>2. (BufLen - Floor) * Half \in Nat
    BY <1>1, <2>1
  <2> QED BY <1>1, <1>3, <2>2 DEF Rounds
<1>5. Left \in Nat
  <2>1. BufLen - i \in Nat /\ BufLen + 1 \in Nat
    BY <1>1
  <2>2. Rounds * (BufLen + 1) \in Nat
    BY <1>4, <2>1
  <2> QED BY <2>1, <2>2 DEF Left
<1> QED BY <1>1, <1>2, <1>3, <1>4, <1>5

(* Every statement but endloop moves on; loop sets its own place behind    *)
(* it, and endloop goes back only for a turn that it counts.               *)
Moves ==
  \/ i' > i /\ UNCHANGED Looping
  \/ i' > i /\ loop_start_index' > i
  \/ /\ i' = loop_start_index /\ loop_start_index' = loop_start_index
     /\ loop_count > 1 /\ loop_count' = loop_count - 1

LEMMA StatementMoves ==
  ASSUME AiraInv, run_interper, ~ Return, ~ BeepOverrun
  PROVE  Moves
<1>1. i < file_size
  BY DEF run_interper, PrintText, PrintVar, Beep, BeepOverrun, Set, Loop, EndLoop, Skip, process_math, Reading
<1>2. i \in Nat /\ i + 1 \in 0 .. Edge /\ Edge \in Nat /\ file_size \in 0 .. Edge
  BY <1>1, Place
<1>3. NumberEnd(i + 1) \in i + 1 .. Edge
  BY <1>2, NumberEnds
<1>4. CASE PrintText
  <2> DEFINE e == CHOOSE j \in i + 1 .. file_size :
                    /\ j = file_size \/ At(j) = "quote"
                    /\ \A h \in i + 1 .. j - 1 : At(h) # "quote"
  <2>1. e \in i + 1 .. file_size
    <3>1. i + 1 \in Nat /\ file_size \in Nat /\ i + 1 <= file_size
      BY <1>1, <1>2
    <3> QED BY <3>1, PrintEnds
  <2>2. i' = AfterClose(e + 1) /\ UNCHANGED Looping
    BY <1>4 DEF PrintText
  <2> HIDE DEF e
  <2>3. i' \in {e + 1, e + 2}
    BY <1>2, <2>1, <2>2 DEF AfterClose
  <2> QED BY <1>2, <2>1, <2>2, <2>3 DEF Moves
<1>5. CASE PrintVar
  <2>1. i' \in {i + 1, i + 2} /\ UNCHANGED Looping
    BY <1>2, <1>5 DEF PrintVar, AfterClose
  <2> QED BY <1>2, <2>1 DEF Moves
<1>6. CASE Beep
  BY <1>2, <1>6, BeepMoves DEF Moves
<1>7. CASE Set
  <2>1. i' \in {i + 1, TextEnd(i + 2) + 1, NumberEnd(i + 1)} /\ UNCHANGED Looping
    BY <1>7 DEF Set
  <2>2. TextEnd(i + 2) \in i + 2 .. i + 2 + StringMax /\ StringMax \in Nat
    <3>1. i + 2 \in Nat
      BY <1>2
    <3> QED BY <3>1, TextEnds, Bounds
  <2> QED BY <1>2, <1>3, <2>1, <2>2 DEF Moves
<1>8. CASE \E op \in {"add", "sub", "mul", "div"} : process_math(op)
  <2>1. i' \in {i + 1, NumberEnd(i + 1)} /\ UNCHANGED Looping
    BY <1>8 DEF process_math
  <2> QED BY <1>2, <1>3, <2>1 DEF Moves
<1>9. CASE Loop
  BY <1>2, <1>3, <1>9 DEF Loop, Moves
<1>10. CASE EndLoop
  BY <1>2, <1>10 DEF EndLoop, Moves, Looping
<1>11. CASE Skip
  BY <1>2, <1>11 DEF Skip, Moves
<1> QED BY <1>4, <1>5, <1>6, <1>7, <1>8, <1>9, <1>10, <1>11 DEF run_interper

LEMMA MoveFalls ==
  ASSUME AiraInv, AiraInv', Moves
  PROVE  Left' < Left
<1>1. /\ Half \in Nat \ {0} /\ BufLen \in Nat /\ i \in 0 .. BufLen
      /\ loop_start_index \in 0 .. BufLen /\ loop_count \in Int
      /\ Floor \in 0 .. BufLen /\ Turns \in 0 .. Half - 1 /\ Rounds \in Nat
  BY LeftType
<1>2. /\ i' \in 0 .. BufLen
      /\ loop_start_index' \in 0 .. BufLen /\ loop_count' \in Int
      /\ Floor' \in 0 .. BufLen /\ Turns' \in 0 .. Half - 1 /\ Rounds' \in Nat
  <2>1. (AiraInv => /\ i \in 0 .. BufLen
                    /\ loop_start_index \in 0 .. BufLen /\ loop_count \in Int
                    /\ Floor \in 0 .. BufLen /\ Turns \in 0 .. Half - 1 /\ Rounds \in Nat)'
    BY LeftType, PTL
  <2> QED BY <2>1
<1>3. \/ Floor' >= Floor /\ Turns' = Turns /\ i' > i
      \/ Floor' > Floor
      \/ Floor' >= Floor /\ Turns' < Turns
  <2>1. CASE i' > i /\ UNCHANGED Looping
    BY <1>1, <1>2, <2>1 DEF Looping, Floor, Turns
  <2>2. CASE i' > i /\ loop_start_index' > i
    BY <1>1, <1>2, <2>2 DEF Floor
  <2>3. CASE /\ i' = loop_start_index /\ loop_start_index' = loop_start_index
             /\ loop_count > 1 /\ loop_count' = loop_count - 1
    BY <1>1, <1>2, <2>3 DEF Floor, Turns
  <2> QED BY <2>1, <2>2, <2>3 DEF Moves
<1>4. /\ Left = ((BufLen - Floor) * Half + Turns) * (BufLen + 1) + (BufLen - i)
      /\ Left' = ((BufLen - Floor') * Half + Turns') * (BufLen + 1) + (BufLen - i')
  BY DEF Left, Rounds
<1>5. ((BufLen - Floor') * Half + Turns') * (BufLen + 1) + (BufLen - i')
      < ((BufLen - Floor) * Half + Turns) * (BufLen + 1) + (BufLen - i)
  BY ONLY <1>1, <1>2, <1>3, FallsTwice
<1> QED BY <1>4, <1>5

(* Every program comes to its end, to a fault or to a name that overruns   *)
(* the stack in finitely many statements, whatever it says and whatever    *)
(* loop an earlier one left open: each statement lowers a natural number, because a loop statement  *)
(* moves the place endloop goes back to behind itself, and endloop goes    *)
(* back only for a turn it takes off the count (run_interper,              *)
(* aira_lang.c:92-286).                                                    *)
THEOREM ProgramsAreFinite ==
  AiraSpec => /\ [](Left \in Nat)
              /\ [][run_interper => status' \in {"shell", "lost"} \/ Left' < Left]_airaVars
<1>1. AiraInv => Left \in Nat
  BY LeftType
<1>2. ASSUME AiraInv, AiraInv', run_interper, status' \notin {"shell", "lost"} PROVE Left' < Left
  <2>1. ~ Return /\ ~ BeepOverrun
    BY <1>2 DEF Return, BeepOverrun
  <2> QED BY <1>2, <2>1, StatementMoves, MoveFalls
<1>3. AiraInv /\ AiraInv' /\ [AiraNext]_airaVars => [run_interper => status' \in {"shell", "lost"} \/ Left' < Left]_airaVars
  BY <1>2
<1> QED BY <1>1, <1>3, InterpreterInit, InterpreterStep, PTL DEF AiraSpec

-----------------------------------------------------------------------------
(* What a source means, and that the interpreter does it.                  *)

(* Where the parts of a sequence q made of the sequences of S begin.       *)
Layout(S, q, o) ==
  /\ o \in [0 .. Len(S) -> Nat] /\ o[0] = 0 /\ Len(q) = o[Len(S)]
  /\ \A k \in 1 .. Len(S) : o[k] = o[k - 1] + Len(S[k]) /\ o[k] <= o[Len(S)]
  /\ \A k \in 1 .. Len(S) : \A j \in 1 .. Len(S[k]) : q[o[k - 1] + j] = S[k][j]

(* The first n of the sequences of S put together, one after the other.    *)
Begin(f, k) == IF k = 1 THEN 0 ELSE Len(f[k - 1])
Joined(T, S, n, f) ==
  /\ f \in [1 .. n -> Seq(T)]
  /\ \A h \in 1 .. n : f[h] = IF h = 1 THEN S[h] ELSE f[h - 1] \o S[h]
Placed(S, n, f) ==
  \A k \in 1 .. n, m \in 1 .. n :
    k <= m => /\ Begin(f, k) + Len(S[k]) <= Len(f[m])
              /\ \A j \in 1 .. Len(S[k]) : f[m][Begin(f, k) + j] = S[k][j]

LEMMA Together ==
  ASSUME NEW T, NEW a \in Seq(T), NEW b \in Seq(T)
  PROVE  /\ a \o b \in Seq(T) /\ Len(a \o b) = Len(a) + Len(b)
         /\ Len(a) \in Nat /\ Len(b) \in Nat
         /\ \A j \in 1 .. Len(a) : (a \o b)[j] = a[j]
         /\ \A j \in 1 .. Len(b) : (a \o b)[Len(a) + j] = b[j]
<1>1. a \o b \in Seq(T) /\ Len(a \o b) = Len(a) + Len(b) /\ Len(a) \in Nat /\ Len(b) \in Nat
  BY ConcatProperties, LenProperties
<1>2. \A j \in 1 .. Len(a) + Len(b) : (a \o b)[j] = IF j <= Len(a) THEN a[j] ELSE b[j - Len(a)]
  BY ConcatProperties
<1>3. ASSUME NEW j \in 1 .. Len(a) PROVE (a \o b)[j] = a[j]
  <2>1. j \in 1 .. Len(a) + Len(b) /\ j <= Len(a)
    BY <1>1
  <2> QED BY <1>2, <2>1
<1>4. ASSUME NEW j \in 1 .. Len(b) PROVE (a \o b)[Len(a) + j] = b[j]
  <2>1. Len(a) + j \in 1 .. Len(a) + Len(b) /\ ~ (Len(a) + j <= Len(a)) /\ (Len(a) + j) - Len(a) = j
    BY <1>1
  <2> QED BY <1>2, <2>1
<1> QED BY <1>1, <1>3, <1>4

LEMMA SumMore ==
  ASSUME NEW a \in Nat, NEW b \in Nat, NEW c, c = a + b
  PROVE  c >= a /\ c \in Nat /\ a + b <= c /\ \A d \in Nat : d <= a => d <= c
OBVIOUS

LEMMA JoinNext ==
  ASSUME NEW T, NEW S \in Seq(Seq(T)), NEW n \in Nat, n >= 1, n + 1 <= Len(S),
         NEW f, Joined(T, S, n, f), Placed(S, n, f)
  PROVE  \E g : Joined(T, S, n + 1, g) /\ Placed(S, n + 1, g)
<1> DEFINE g == [h \in 1 .. n + 1 |-> IF h = n + 1 THEN f[n] \o S[n + 1] ELSE f[h]]
<1>1. n \in 1 .. n /\ n + 1 \in 1 .. Len(S) /\ f[n] \in Seq(T) /\ S[n + 1] \in Seq(T)
  BY ElementOfSeq DEF Joined
<1> DEFINE q == f[n] \o S[n + 1]
<1>2. /\ q \in Seq(T) /\ Len(q) = Len(f[n]) + Len(S[n + 1])
      /\ Len(f[n]) \in Nat /\ Len(S[n + 1]) \in Nat
      /\ \A j \in 1 .. Len(f[n]) : q[j] = f[n][j]
      /\ \A j \in 1 .. Len(S[n + 1]) : q[Len(f[n]) + j] = S[n + 1][j]
  <2> DEFINE a == f[n]
             b == S[n + 1]
  <2>1. a \in Seq(T) /\ b \in Seq(T)
    BY <1>1
  <2> HIDE DEF a, b
  <2>2. /\ a \o b \in Seq(T) /\ Len(a \o b) = Len(a) + Len(b)
        /\ Len(a) \in Nat /\ Len(b) \in Nat
        /\ \A j \in 1 .. Len(a) : (a \o b)[j] = a[j]
        /\ \A j \in 1 .. Len(b) : (a \o b)[Len(a) + j] = b[j]
    BY <2>1, Together
  <2> QED BY <2>2 DEF a, b
<1> HIDE DEF q
<1>10. Len(q) = Len(f[n]) + Len(S[n + 1]) /\ Len(f[n]) \in Nat /\ Len(S[n + 1]) \in Nat
  BY <1>2
<1>11. Len(q) >= Len(f[n]) /\ Len(q) \in Nat
  BY ONLY <1>10, SumMore
<1>3. /\ n + 1 \in 1 .. n + 1
      /\ \A h \in 1 .. n : h \in 1 .. n + 1 /\ h # n + 1
      /\ \A h \in 1 .. n + 1 : h # n + 1 => h \in 1 .. n
  OBVIOUS
<1>4. g[n + 1] = q /\ \A h \in 1 .. n : g[h] = f[h]
  BY <1>3 DEF q
<1>5. Joined(T, S, n + 1, g)
  <2>1. g \in [1 .. n + 1 -> Seq(T)]
    BY <1>2, <1>3 DEF Joined, q
  <2>2. ASSUME NEW h \in 1 .. n + 1 PROVE g[h] = IF h = 1 THEN S[h] ELSE g[h - 1] \o S[h]
    <3>1. CASE h = n + 1
      <4>1. h # 1 /\ h - 1 = n
        BY <3>1
      <4> QED BY <1>1, <1>4, <3>1, <4>1 DEF q
    <3>2. CASE h # n + 1
      <4>1. h \in 1 .. n /\ (h # 1 => h - 1 \in 1 .. n)
        BY <3>2
      <4> HIDE DEF g
      <4> QED BY <1>4, <4>1 DEF Joined
    <3> QED BY <3>1, <3>2
  <2> HIDE DEF g
  <2> QED BY <2>1, <2>2 DEF Joined
<1> HIDE DEF g
<1>6. \A k \in 1 .. n + 1 : Begin(g, k) = IF k = n + 1 THEN Len(f[n]) ELSE Begin(f, k)
  <2> SUFFICES ASSUME NEW k \in 1 .. n + 1
               PROVE  Begin(g, k) = IF k = n + 1 THEN Len(f[n]) ELSE Begin(f, k)
    OBVIOUS
  <2>1. k # 1 => k - 1 \in 1 .. n /\ (k = n + 1 => k - 1 = n)
    OBVIOUS
  <2> QED BY <1>4, <2>1 DEF Begin
<1>7. ASSUME NEW k \in 1 .. n
      PROVE  Begin(f, k) \in Nat /\ Len(S[k]) \in Nat /\ Begin(f, k) + Len(S[k]) <= Len(f[n])
  <2>1. Begin(f, k) + Len(S[k]) <= Len(f[n])
    BY <1>1 DEF Placed
  <2>2. S[k] \in Seq(T) /\ Len(S[k]) \in Nat
    BY ElementOfSeq
  <2>3. k # 1 => k - 1 \in 1 .. n /\ f[k - 1] \in Seq(T) /\ Len(f[k - 1]) \in Nat
    BY DEF Joined
  <2> QED BY <2>1, <2>2, <2>3 DEF Begin
<1>8. ASSUME NEW k \in 1 .. n + 1, NEW m \in 1 .. n + 1, k <= m
      PROVE  /\ Begin(g, k) + Len(S[k]) <= Len(g[m])
             /\ \A j \in 1 .. Len(S[k]) : g[m][Begin(g, k) + j] = S[k][j]
  <2>1. CASE m # n + 1
    <3>1. k \in 1 .. n /\ m \in 1 .. n
      BY <1>8, <2>1
    <3>2. Begin(g, k) = Begin(f, k) /\ g[m] = f[m]
      BY <1>4, <1>6, <3>1
    <3> QED BY <1>8, <3>1, <3>2 DEF Placed
  <2>2. CASE m = n + 1 /\ k = n + 1
    <3>1. Begin(g, n + 1) = Len(f[n]) /\ g[n + 1] = q
      BY <1>3, <1>4, <1>6
    <3>2. Begin(g, n + 1) + Len(S[n + 1]) <= Len(g[n + 1])
      <4>1. Len(f[n]) + Len(S[n + 1]) <= Len(q)
        BY ONLY <1>10, SumMore
      <4> QED BY ONLY <3>1, <4>1, Zenon
    <3>3. \A j \in 1 .. Len(S[n + 1]) : g[n + 1][Begin(g, n + 1) + j] = S[n + 1][j]
      BY <1>2, <3>1
    <3> QED BY <2>2, <3>2, <3>3
  <2>3. CASE m = n + 1 /\ k # n + 1
    <3>1. k \in 1 .. n
      BY <2>3
    <3>2. Begin(g, k) = Begin(f, k) /\ g[m] = q
      BY <1>4, <1>6, <2>3, <3>1
    <3>3. Begin(f, k) \in Nat /\ Len(S[k]) \in Nat /\ Begin(f, k) + Len(S[k]) <= Len(f[n])
      BY <1>7, <3>1
    <3>4. Begin(f, k) + Len(S[k]) <= Len(q)
      <4>1. Begin(f, k) + Len(S[k]) \in Nat
        BY ONLY <3>3
      <4> QED BY ONLY <1>10, <3>3, <4>1, SumMore
    <3>5. ASSUME NEW j \in 1 .. Len(S[k]) PROVE q[Begin(f, k) + j] = S[k][j]
      <4>1. Begin(f, k) + j \in 1 .. Len(f[n])
        BY <1>2, <3>3
      <4>2. q[Begin(f, k) + j] = f[n][Begin(f, k) + j]
        BY <1>2, <4>1
      <4>3. f[n][Begin(f, k) + j] = S[k][j]
        BY <1>1, <3>1 DEF Placed
      <4> QED BY <4>2, <4>3
    <3> QED BY <3>2, <3>4, <3>5
  <2> QED BY <2>1, <2>2, <2>3
<1>9. Placed(S, n + 1, g)
  BY <1>8 DEF Placed
<1> QED BY <1>5, <1>9

LEMMA JoinExists ==
  ASSUME NEW T, NEW S \in Seq(Seq(T)), NEW n \in Nat, n >= 1, n <= Len(S)
  PROVE  \E f : Joined(T, S, n, f) /\ Placed(S, n, f)
<1> DEFINE Bad == {k \in Nat : k >= 1 /\ k <= Len(S) /\ ~ \E f : Joined(T, S, k, f) /\ Placed(S, k, f)}
<1>1. SUFFICES ASSUME Bad # {} PROVE FALSE
  OBVIOUS
<1>2. PICK m \in Bad : \A k \in Bad : m <= k
  <2>1. Bad \in SUBSET Nat
    OBVIOUS
  <2> HIDE DEF Bad
  <2> QED BY <1>1, <2>1, Smallest
<1>3. m \in Nat /\ m >= 1 /\ m <= Len(S) /\ Len(S) \in Nat
  BY <1>2
<1>4. CASE m = 1
  <2> DEFINE f == [h \in 1 .. 1 |-> S[1]]
  <2>1. S[1] \in Seq(T) /\ Len(S[1]) \in Nat
    <3>1. 1 \in 1 .. Len(S)
      BY <1>3
    <3>2. S[1] \in Seq(T)
      BY <3>1, ElementOfSeq
    <3> QED BY <3>2
  <2>2. Joined(T, S, 1, f)
    BY <2>1 DEF Joined
  <2>3. \A k \in 1 .. 1 : k = 1
    OBVIOUS
  <2>4. Begin(f, 1) = 0 /\ f[1] = S[1]
    BY DEF Begin
  <2> HIDE DEF f
  <2>5. Placed(S, 1, f)
    BY <2>1, <2>3, <2>4 DEF Placed
  <2> QED BY <1>2, <1>4, <2>2, <2>5
<1>5. CASE m # 1
  <2>1. m - 1 \in Nat /\ m - 1 >= 1 /\ m - 1 <= Len(S) /\ (m - 1) + 1 = m
    BY <1>3, <1>5
  <2>2. m - 1 \notin Bad
    <3> HIDE DEF Bad
    <3> QED BY <1>2, <1>3, <2>1
  <2>3. PICK f : Joined(T, S, m - 1, f) /\ Placed(S, m - 1, f)
    BY <2>1, <2>2
  <2>4. \E g : Joined(T, S, (m - 1) + 1, g) /\ Placed(S, (m - 1) + 1, g)
    <3>1. (m - 1) + 1 <= Len(S)
      BY <1>3
    <3> QED BY <2>1, <2>3, <3>1, JoinNext
  <2> QED BY <1>2, <2>1, <2>4
<1> QED BY <1>4, <1>5

(* Sequences put together lie one behind the other.                        *)
LEMMA FlattenLayout ==
  ASSUME NEW T, NEW S \in Seq(Seq(T))
  PROVE  FlattenSeq(S) \in Seq(T) /\ \E o : Layout(S, FlattenSeq(S), o)
<1> DEFINE L == Len(S)
<1>0. L \in Nat
  OBVIOUS
<1>1. CASE L = 0
  <2>1. FlattenSeq(S) = S /\ S = <<>>
    BY <1>1 DEF FlattenSeq
  <2> DEFINE o == [k \in 0 .. 0 |-> 0]
  <2>2. o \in [0 .. 0 -> Nat] /\ o[0] = 0
    OBVIOUS
  <2>3. <<>> \in Seq(T) /\ Len(<<>>) = 0 /\ 1 .. 0 = {}
    OBVIOUS
  <2> HIDE DEF o
  <2>4. Layout(<<>>, <<>>, o)
    BY <2>2, <2>3 DEF Layout
  <2> QED BY <2>1, <2>3, <2>4
<1>2. CASE L # 0
  <2>1. L >= 1
    BY <1>0, <1>2
  <2> DEFINE f == CHOOSE f : f = [h \in 1 .. L |-> IF h = 1 THEN S[h] ELSE f[h - 1] \o S[h]]
  <2>2. FlattenSeq(S) = f[L]
    BY <1>2 DEF FlattenSeq
  <2>3. f = [h \in 1 .. L |-> IF h = 1 THEN S[h] ELSE f[h - 1] \o S[h]]
    <3>1. PICK g : Joined(T, S, L, g)
      BY <1>0, <2>1, JoinExists
    <3>2. g = [h \in 1 .. L |-> IF h = 1 THEN S[h] ELSE g[h - 1] \o S[h]]
      BY <3>1 DEF Joined
    <3> QED BY <3>2
  <2> HIDE DEF f
  <2>4. PICK g : Joined(T, S, L, g) /\ Placed(S, L, g)
    BY <1>0, <2>1, JoinExists
  <2>5. \A h \in 1 .. L : f[h] = g[h]
    <3> DEFINE Bad == {h \in 1 .. L : f[h] # g[h]}
    <3>1. SUFFICES ASSUME Bad # {} PROVE FALSE
      OBVIOUS
    <3>2. PICK m \in Bad : \A k \in Bad : m <= k
      <4>1. Bad \in SUBSET Nat
        OBVIOUS
      <4> HIDE DEF Bad
      <4> QED BY <3>1, <4>1, Smallest
    <3>3. m \in 1 .. L /\ (m # 1 => m - 1 \in 1 .. L)
      BY <1>0, <3>2
    <3>4. m # 1 => m - 1 \notin Bad
      <4> HIDE DEF Bad
      <4> QED BY <1>0, <3>2, <3>3
    <3>5. m # 1 => f[m - 1] = g[m - 1]
      BY <3>3, <3>4
    <3>6. f[m] = IF m = 1 THEN S[m] ELSE f[m - 1] \o S[m]
      BY <2>3, <3>3
    <3>7. g[m] = IF m = 1 THEN S[m] ELSE g[m - 1] \o S[m]
      BY <2>4, <3>3 DEF Joined
    <3> QED BY <3>2, <3>5, <3>6, <3>7
  <2> DEFINE o == [k \in 0 .. L |-> IF k = 0 THEN 0 ELSE Len(g[k])]
  <2>6. \A k \in 1 .. L : g[k] \in Seq(T) /\ Len(g[k]) \in Nat /\ S[k] \in Seq(T) /\ Len(S[k]) \in Nat
    <3> SUFFICES ASSUME NEW k \in 1 .. L
                 PROVE  g[k] \in Seq(T) /\ Len(g[k]) \in Nat /\ S[k] \in Seq(T) /\ Len(S[k]) \in Nat
      OBVIOUS
    <3>1. g[k] \in Seq(T)
      BY <2>4 DEF Joined
    <3>2. S[k] \in Seq(T)
      BY ElementOfSeq
    <3> QED BY <3>1, <3>2
  <2>7. o \in [0 .. L -> Nat] /\ o[0] = 0 /\ \A k \in 1 .. L : o[k] = Len(g[k])
    BY <1>0, <2>6
  <2>8. L \in 1 .. L
    BY <1>0, <2>1
  <2>9. \A k \in 1 .. L : o[k - 1] = Begin(g, k)
    <3> SUFFICES ASSUME NEW k \in 1 .. L PROVE o[k - 1] = Begin(g, k)
      OBVIOUS
    <3> HIDE DEF o
    <3>1. CASE k = 1
      <4>1. k - 1 = 0
        BY <3>1
      <4> QED BY <2>7, <3>1, <4>1 DEF Begin
    <3>2. CASE k # 1
      <4>1. k - 1 \in 1 .. L
        BY <1>0, <3>2
      <4> QED BY <2>7, <3>2, <4>1 DEF Begin
    <3> QED BY <3>1, <3>2
  <2> HIDE DEF o
  <2>10. ASSUME NEW k \in 1 .. L PROVE o[k] = o[k - 1] + Len(S[k])
    <3>1. CASE k = 1
      <4>1. g[k] = S[k]
        BY <2>4, <3>1 DEF Joined
      <4> QED BY <2>6, <2>7, <3>1, <4>1
    <3>2. CASE k # 1
      <4>1. g[k] = g[k - 1] \o S[k]
        BY <2>4, <3>2 DEF Joined
      <4>0. k - 1 \in 1 .. L
        BY <1>0, <3>2
      <4>2. Len(g[k]) = Len(g[k - 1]) + Len(S[k])
        BY <2>6, <4>0, <4>1, Together
      <4> QED BY <2>7, <4>0, <4>2
    <3> QED BY <3>1, <3>2
  <2>11. ASSUME NEW k \in 1 .. L PROVE o[k] <= o[L]
    <3>1. Begin(g, k) + Len(S[k]) <= Len(g[L])
      BY <2>4, <2>8 DEF Placed
    <3> QED BY <2>7, <2>8, <2>9, <2>10, <3>1
  <2>12. ASSUME NEW k \in 1 .. L, NEW j \in 1 .. Len(S[k]) PROVE f[L][o[k - 1] + j] = S[k][j]
    <3>1. g[L][Begin(g, k) + j] = S[k][j]
      BY <2>4, <2>8 DEF Placed
    <3> QED BY <2>5, <2>8, <2>9, <3>1
  <2>13. f[L] = g[L] /\ Len(f[L]) = o[L]
    BY <2>5, <2>7, <2>8
  <2>14. Layout(S, f[L], o)
    BY <2>7, <2>10, <2>11, <2>12, <2>13 DEF Layout
  <2> QED BY <2>2, <2>6, <2>8, <2>13, <2>14
<1> QED BY <1>1, <1>2

-----------------------------------------------------------------------------
(* Numbers as they are written and read.                                   *)
LEMMA ModShift ==
  ASSUME NEW m \in Nat \ {0}, NEW y \in Int, NEW k \in Int
  PROVE  (y - m * k) % m = y % m
<1> DEFINE z == y - m * k
           q == y \div m
           p == z \div m
<1>1. y = m * q + (y % m) /\ q \in Int /\ y % m \in 0 .. m - 1
  OBVIOUS
<1>2. z \in Int /\ z = y - m * k
  OBVIOUS
<1> HIDE DEF z
<1>3. z = m * p + (z % m) /\ p \in Int /\ z % m \in 0 .. m - 1
  BY <1>2
<1>4. \A d \in Int, e \in 0 .. m - 1, f \in 0 .. m - 1 : e = m * d + f => d = 0
  OBVIOUS
<1> HIDE DEF p, q
<1>5. m * (p + k - q) = m * p + m * k - m * q
  BY <1>1, <1>3
<1>6. y % m = m * (p + k - q) + (z % m)
  BY <1>1, <1>2, <1>3, <1>5
<1>7. p + k - q = 0
  <2>1. p + k - q \in Int
    BY <1>1, <1>3
  <2> QED BY <1>1, <1>3, <1>4, <1>6, <2>1
<1>8. y % m = z % m
  <2>1. m * (p + k - q) = 0
    BY <1>7
  <2> QED BY <1>1, <1>3, <1>6, <2>1
<1> QED BY <1>8 DEF z

LEMMA WrapTen ==
  ASSUME NEW a \in Int, NEW b \in Int
  PROVE  Wrap(Wrap(a) * 10 + b) = Wrap(a * 10 + b)
<1> DEFINE m == 2 * Half
           k == (a + Half) \div m
<1>1. Half \in Nat \ {0} /\ m \in Nat \ {0}
  BY AiraAssumption
<1> HIDE DEF m
<1>2. a + Half = m * k + ((a + Half) % m) /\ k \in Int /\ (a + Half) % m \in Int
  BY <1>1
<1> HIDE DEF k
<1>3. Wrap(a) = a - m * k
  BY <1>1, <1>2 DEF Wrap, m
<1>4. Wrap(a) * 10 + b + Half = (a * 10 + b + Half) - m * (k * 10)
  <2>1. m * k \in Int /\ m * (k * 10) = (m * k) * 10
    BY <1>1, <1>2
  <2> DEFINE x == m * k
  <2>2. x \in Int /\ m * (k * 10) = x * 10 /\ Wrap(a) = a - x
    BY <1>3, <2>1
  <2> HIDE DEF x
  <2> QED BY <1>1, <2>2
<1>5. ((a * 10 + b + Half) - m * (k * 10)) % m = (a * 10 + b + Half) % m
  <2>1. a * 10 + b + Half \in Int /\ k * 10 \in Int
    BY <1>1, <1>2
  <2> QED BY <1>1, <2>1, ModShift
<1>6. Wrap(a) * 10 + b + Half = (Wrap(a) * 10 + b) + Half /\ a * 10 + b + Half = (a * 10 + b) + Half
  BY <1>1
<1> QED BY <1>4, <1>5, <1>6 DEF Wrap, m

LEMMA WrapSame ==
  ASSUME NEW n \in Nat, n < Half
  PROVE  Wrap(n) = n
<1>1. Half \in Nat \ {0}
  BY AiraAssumption
<1>2. (n + Half) % (2 * Half) = n + Half
  BY <1>1
<1> QED BY <1>1, <1>2 DEF Wrap

(* Every digit read so far goes into the number.                           *)
LEMMA NumberSum ==
  ASSUME AiraInv, NEW j \in 0 .. Edge
  PROVE  \E v : /\ \A h \in j .. NumberEnd(j) : v[h] = Sum(j, h, v)
                /\ Number(j) = v[NumberEnd(j)]
<1> DEFINE e == NumberEnd(j)
<1>1. e \in j .. Edge /\ j \in Nat /\ e \in Nat /\ j <= e /\ e <= BufLen
  BY NumberEnds, Bounds
<1> HIDE DEF e
<1> DEFINE v == CHOOSE v : v = [h \in j .. e |-> Sum(j, h, v)]
<1>2. v = [h \in j .. e |-> Sum(j, h, v)]
  BY <1>1, SumExists
<1>3. Number(j) = v[e]
  BY DEF Number, e, Sum
<1> HIDE DEF v
<1>4. \A h \in j .. e : v[h] = Sum(j, h, v)
  BY <1>2
<1> QED BY <1>3, <1>4 DEF e

(* Where digits end a number ends.                                         *)
LEMMA NumberEndIs ==
  ASSUME AiraInv, NEW j \in 0 .. Edge, NEW e \in j .. Edge, At(e) # "digit", \A h \in j .. e - 1 : At(h) = "digit"
  PROVE  NumberEnd(j) = e
<1>1. Edge \in Nat /\ BufLen \in Nat /\ Edge < BufLen
  BY Bounds
<1> DEFINE Ends(x) == (x < BufLen => At(x) # "digit") /\ \A h \in j .. x - 1 : At(h) = "digit"
<1>2. e \in j .. BufLen /\ Ends(e)
  BY <1>1
<1>3. \A x \in j .. BufLen : Ends(x) => x = e
  <2> SUFFICES ASSUME NEW x \in j .. BufLen, Ends(x), x # e PROVE FALSE
    OBVIOUS
  <2>1. CASE x < e
    <3>1. x \in j .. e - 1 /\ x < BufLen
      BY <1>1, <2>1
    <3> QED BY <3>1
  <2>2. CASE x > e
    <3>1. e \in j .. x - 1
      BY <1>1, <2>2
    <3> QED BY <3>1
  <2> QED BY <1>1, <2>1, <2>2
<1> HIDE DEF Ends
<1>4. NumberEnd(j) = CHOOSE x \in j .. BufLen : Ends(x)
  BY DEF NumberEnd, Ends
<1> QED BY <1>2, <1>3, <1>4

(* A number of a source is read as it is written.                          *)
LEMMA DigitsIs ==
  ASSUME NEW n \in 0 .. 99
  PROVE  /\ n <= 9 => Digits(n) = <<Digit(n)>>
         /\ n > 9 => /\ Digits(n) = <<Digit(n \div 10), Digit(n % 10)>>
                     /\ n \div 10 \in 0 .. 9 /\ n % 10 \in 0 .. 9 /\ n = (n \div 10) * 10 + (n % 10)
BY DEF Digits

LEMMA NumberRead ==
  ASSUME AiraInv, NEW j \in 0 .. Edge, NEW n \in 0 .. 99, j + Len(Digits(n)) <= Edge,
         \A h \in 1 .. Len(Digits(n)) : file_system_buffer[j + h - 1] = Digits(n)[h],
         At(j + Len(Digits(n))) # "digit"
  PROVE  NumberEnd(j) = j + Len(Digits(n)) /\ Number(j) = Wrap(n)
<1>1. Edge \in Nat /\ j \in Nat
  BY Bounds
<1>2. PICK v : /\ \A h \in j .. NumberEnd(j) : v[h] = Sum(j, h, v)
               /\ Number(j) = v[NumberEnd(j)]
  BY NumberSum
<1>3. CASE n <= 9
  <2>1. Digits(n) = <<Digit(n)>> /\ Len(Digits(n)) = 1 /\ Digits(n)[1] = Digit(n)
    <3>1. Digits(n) = <<Digit(n)>>
      BY <1>3, DigitsIs
    <3> QED BY <3>1
  <2>2. file_system_buffer[j] = Digit(n)
    <3>1. 1 \in 1 .. Len(Digits(n)) /\ j + 1 - 1 = j
      BY <1>1, <2>1
    <3> QED BY <2>1, <3>1
  <2>3. At(j) = "digit" /\ file_system_buffer[j].d = n
    BY <2>2 DEF At, Digit
  <2>4. NumberEnd(j) = j + 1
    <3>1. j + 1 \in j .. Edge /\ \A h \in j .. (j + 1) - 1 : h = j
      BY <1>1, <2>1
    <3> QED BY <2>1, <2>3, <3>1, NumberEndIs
  <2>5. v[j] = 0 /\ v[j + 1] = Wrap(v[j] * 10 + n)
    <3>1. j \in j .. NumberEnd(j) /\ j + 1 \in j .. NumberEnd(j) /\ j + 1 # j /\ (j + 1) - 1 = j
      BY <1>1, <2>4
    <3>2. v[j] = 0
      BY <1>2, <3>1 DEF Sum
    <3>3. v[j + 1] = Wrap(v[j] * 10 + n)
      BY <1>2, <2>3, <3>1 DEF Sum
    <3> QED BY <3>2, <3>3
  <2>6. v[j] * 10 + n = n
    BY <2>5
  <2> QED BY <1>2, <2>1, <2>4, <2>5, <2>6
<1>4. CASE n > 9
  <2> DEFINE a == n \div 10
             b == n % 10
  <2>1. /\ Digits(n) = <<Digit(a), Digit(b)>> /\ a \in 0 .. 9 /\ b \in 0 .. 9 /\ n = a * 10 + b
    BY <1>4, DigitsIs
  <2> HIDE DEF a, b
  <2>2. Len(Digits(n)) = 2 /\ Digits(n)[1] = Digit(a) /\ Digits(n)[2] = Digit(b)
    BY <2>1
  <2>3. file_system_buffer[j] = Digit(a) /\ file_system_buffer[j + 1] = Digit(b)
    <3>1. 1 \in 1 .. Len(Digits(n)) /\ j + 1 - 1 = j /\ 2 \in 1 .. Len(Digits(n)) /\ j + 2 - 1 = j + 1
      BY <1>1, <2>2
    <3> QED BY <2>2, <3>1
  <2>4. At(j) = "digit" /\ file_system_buffer[j].d = a /\ At(j + 1) = "digit" /\ file_system_buffer[j + 1].d = b
    BY <2>3 DEF At, Digit
  <2>5. NumberEnd(j) = j + 2
    <3>1. j + 2 \in j .. Edge /\ \A h \in j .. (j + 2) - 1 : h = j \/ h = j + 1
      BY <1>1, <2>2
    <3> QED BY <2>2, <2>4, <3>1, NumberEndIs
  <2>6. v[j] = 0 /\ v[j + 1] = Wrap(v[j] * 10 + a) /\ v[j + 2] = Wrap(v[j + 1] * 10 + b)
    <3>1. /\ j \in j .. NumberEnd(j) /\ j + 1 \in j .. NumberEnd(j) /\ j + 1 # j /\ (j + 1) - 1 = j
          /\ j + 2 \in j .. NumberEnd(j) /\ j + 2 # j /\ (j + 2) - 1 = j + 1
      BY <1>1, <2>5
    <3>2. v[j] = 0
      BY <1>2, <3>1 DEF Sum
    <3>3. v[j + 1] = Wrap(v[j] * 10 + a)
      BY <1>2, <2>4, <3>1 DEF Sum
    <3>4. v[j + 2] = Wrap(v[j + 1] * 10 + b)
      BY <1>2, <2>4, <3>1 DEF Sum
    <3> QED BY <3>2, <3>3, <3>4
  <2>7. v[j] * 10 + a = a
    BY <2>1, <2>6
  <2>8. v[j + 2] = Wrap(Wrap(a) * 10 + b)
    BY <2>6, <2>7
  <2>9. a \in Int /\ b \in Int
    BY <2>1
  <2> QED BY <1>2, <2>1, <2>2, <2>5, <2>8, <2>9, WrapTen
<1> QED BY <1>3, <1>4

-----------------------------------------------------------------------------
(* The variables by name.                                                  *)
World == [env |-> Env, screen |-> screen, fault |-> FALSE]
Content(x) == IF x.type = "int" THEN Num(x.ival) ELSE Text(x.ival, x.sval)
AllNames == Names \cup {NoName}

LEMMA NoSlot == -1 \notin VarIds
BY Bounds DEF VarIds

(* find_var finds the one variable in use that has the name.               *)
Finds(n) ==
  IF find_var(n) = -1 THEN \A s \in VarIds : ~ (var_table[s].active /\ var_table[s].name = n)
  ELSE find_var(n) \in VarIds /\ var_table[find_var(n)].active /\ var_table[find_var(n)].name = n
FindsAll == \A n \in AllNames : Finds(n)
LEMMA FindsName == FindsAll
BY FindVar, NoSlot DEF Finds, FindsAll

LEMMA FindIs ==
  TableInv => \A n \in AllNames, s \in VarIds : var_table[s].active /\ var_table[s].name = n => find_var(n) = s
<1> SUFFICES ASSUME TableInv, NEW n \in AllNames, NEW s \in VarIds, var_table[s].active, var_table[s].name = n
             PROVE  find_var(n) = s
  OBVIOUS
<1> QED BY FindsName DEF TableInv, Finds, FindsAll

ByName == \A n \in AllNames : Env[n] = IF find_var(n) = -1 THEN Unset ELSE Content(var_table[find_var(n)])
LEMMA EnvIs == ByName
BY DEF Env, Content, AllNames, ByName

(* What a statement gives to the slot of a name, the name has; the other   *)
(* names keep what they have.                                              *)
LEMMA EnvSet ==
  ASSUME TableInv, TableInv', NEW k \in AllNames, NEW v \in VarIds, NEW x,
         v = IF find_var(k) = -1 THEN FreeSlot ELSE find_var(k),
         x.active, x.name = k, var_table' = [var_table EXCEPT ![v] = x]
  PROVE  Env' = [Env EXCEPT ![k] = Content(x)]
<1>1. \A s \in VarIds : var_table'[s] = IF s = v THEN x ELSE var_table[s]
  BY DEF TableInv
<1>2. ASSUME NEW s \in VarIds, var_table[s].active, var_table[s].name # k PROVE s # v
  <2>1. find_var(k) # -1 => var_table[find_var(k)].name = k
    BY FindVar
  <2>2. find_var(k) = -1 => ~ var_table[v].active
    BY FreeVar, NoSlot
  <2> QED BY <1>2, <2>1, <2>2
<1>3. \A n \in AllNames, s \in VarIds : var_table'[s].active /\ var_table'[s].name = n => find_var(n)' = s
  <2>1. (TableInv => \A n \in AllNames, s \in VarIds : var_table[s].active /\ var_table[s].name = n => find_var(n) = s)'
    BY FindIs, PTL
  <2> QED BY <2>1
<1>4. find_var(k)' = v
  BY <1>1, <1>3
<1>5. ASSUME NEW n \in AllNames, n # k, find_var(n) # -1
      PROVE  find_var(n)' = find_var(n) /\ find_var(n) \in VarIds /\ find_var(n) # v
  <2> DEFINE s == find_var(n)
  <2>1. s \in VarIds /\ var_table[s].active /\ var_table[s].name = n
    BY <1>5, FindVar
  <2>0. find_var(n)' = find_var(n) <=> find_var(n)' = s
    OBVIOUS
  <2> HIDE DEF s
  <2>2. s # v
    BY <1>2, <1>5, <2>1
  <2>3. var_table'[s].active /\ var_table'[s].name = n
    BY <1>1, <2>1, <2>2
  <2>4. find_var(n)' = s
    BY <1>3, <2>1, <2>3
  <2> QED BY <2>0, <2>1, <2>2, <2>4 DEF s
<1>6. ASSUME NEW n \in AllNames, n # k, find_var(n) = -1
      PROVE  find_var(n)' = -1
  <2>1. FindsAll'
    BY FindsName, PTL
  <2>2. \/ find_var(n)' = -1
        \/ \E r \in VarIds : var_table'[r].active /\ var_table'[r].name = n
    BY <2>1 DEF Finds, FindsAll
  <2>3. \A r \in VarIds : ~ (var_table[r].active /\ var_table[r].name = n)
    BY <1>6, FindVar, NoSlot
  <2> QED BY <1>1, <1>6, <2>2, <2>3
<1>7. ASSUME NEW n \in AllNames
      PROVE  Env'[n] = IF n = k THEN Content(x) ELSE Env[n]
  <2>1. Env'[n] = IF find_var(n)' = -1 THEN Unset ELSE Content(var_table'[find_var(n)'])
    <3>1. ByName'
      BY EnvIs, PTL
    <3> QED BY <3>1 DEF ByName, Content, Num, Text, Unset
  <2>2. CASE n = k
    BY <1>1, <1>4, <2>1, <2>2, NoSlot
  <2>3. CASE n # k /\ find_var(n) = -1
    BY <1>6, <2>1, <2>3, EnvIs DEF ByName
  <2>4. CASE n # k /\ find_var(n) # -1
    <3>1. find_var(n)' = find_var(n) /\ find_var(n) \in VarIds /\ find_var(n) # v
      BY <1>5, <2>4
    <3>2. var_table'[find_var(n)] = var_table[find_var(n)]
      BY <1>1, <3>1
    <3> QED BY <2>1, <2>4, <3>1, <3>2, EnvIs DEF ByName
  <2> QED BY <2>2, <2>3, <2>4
<1>8. Env = [n \in AllNames |-> Env[n]]
  BY DEF Env, AllNames
<1>9. Env' = [n \in AllNames |-> Env'[n]]
  BY DEF Env, AllNames
<1> QED BY <1>7, <1>8, <1>9

(* A variable that is not in use has no number yet.                        *)
Spare == \A s \in VarIds : ~ var_table[s].active => var_table[s].ival = 0

(* There is a slot left for a variable that a program sets.                *)
LEMMA NamesFinite ==
  ASSUME FreeSlot = -1, TableInv
  PROVE  IsFiniteSet(Defined) /\ Cardinality(Defined) = VarSlots
<1> DEFINE f == [s \in VarIds |-> var_table[s].name]
<1>1. \A s \in VarIds : var_table[s].active
  BY NoSlot, FirstSlot DEF FreeSlot
<1>2. \A s \in VarIds : var_table[s].name \in AllNames
  BY DEF TableInv, Variable, AllNames
<1>3. f \in [VarIds -> Defined]
  <2>1. ASSUME NEW s \in VarIds PROVE var_table[s].name \in Defined
    <3>1. find_var(var_table[s].name) = s
      BY <1>1, <1>2, FindIs
    <3> QED BY <1>2, <3>1, NoSlot DEF Defined, AllNames
  <2> QED BY <2>1
<1>4. \A r, s \in VarIds : r # s => f[r] # f[s]
  BY <1>1 DEF TableInv
<1>5. ASSUME NEW n \in Defined PROVE \E s \in VarIds : f[s] = n
  <2>1. n \in AllNames /\ find_var(n) # -1
    BY DEF Defined, AllNames
  <2>2. find_var(n) \in VarIds /\ var_table[find_var(n)].name = n
    BY <2>1, FindsName DEF FindsAll, Finds
  <2> QED BY <2>2
<1> HIDE DEF f
<1>6. f \in Bijection(VarIds, Defined)
  BY <1>3, <1>4, <1>5 DEF Bijection, Injection, Surjection, IsInjective
<1>7. IsFiniteSet(VarIds) /\ Cardinality(VarIds) = VarSlots
  <2>1. VarSlots \in Nat \ {0}
    BY Bounds
  <2>2. 0 \in Int /\ VarSlots - 1 \in Int /\ ~ (0 > VarSlots - 1) /\ (VarSlots - 1) - 0 + 1 = VarSlots
    BY <2>1
  <2>3. IsFiniteSet(0 .. VarSlots - 1) /\ Cardinality(0 .. VarSlots - 1) = VarSlots
    BY <2>2, FS_Interval
  <2> QED BY <2>3 DEF VarIds
<1> QED BY <1>6, <1>7, FS_Bijection DEF ExistsBijection

LEMMA RoomLeft ==
  ASSUME TableInv, NEW p \in Seq(Words), SlotsSuffice(p), NEW k \in Sets(p), find_var(k) = -1
  PROVE  FreeSlot \in VarIds
<1> SUFFICES ASSUME FreeSlot = -1 PROVE FALSE
  BY FreeVar
<1>1. IsFiniteSet(Defined) /\ Cardinality(Defined) = VarSlots /\ VarSlots \in Nat
  BY NamesFinite, Bounds
<1>2. IsFiniteSet(Sets(p))
  <2> DEFINE S == {h \in 1 .. Len(p) : p[h].t = "set"}
             f == [n \in S |-> Key(p[n].k)]
  <2>1. IsFiniteSet(S)
    <3>1. Len(p) \in Nat
      OBVIOUS
    <3>2. IsFiniteSet(1 .. Len(p))
      BY <3>1, FS_Interval
    <3> QED BY <3>2, FS_Subset
  <2>2. Sets(p) = {Key(p[n].k) : n \in S}
    BY DEF Sets
  <2> HIDE DEF S
  <2>3. f \in Surjection(S, Sets(p))
    BY <2>2 DEF Surjection
  <2> HIDE DEF f
  <2> QED BY <2>1, <2>3, FS_Surjection
<1>3. IsFiniteSet(Defined \cup Sets(p))
  BY <1>1, <1>2, FS_Union
<1>4. k \notin Defined
  BY DEF Defined
<1>5. IsFiniteSet(Defined \cup {k}) /\ Cardinality(Defined \cup {k}) = VarSlots + 1
  BY <1>1, <1>4, FS_AddElement
<1>6. Cardinality(Defined \cup {k}) <= Cardinality(Defined \cup Sets(p))
  <2>1. Defined \cup {k} \in SUBSET (Defined \cup Sets(p))
    OBVIOUS
  <2> QED BY <1>3, <2>1, FS_Subset
<1>7. Cardinality(Defined \cup Sets(p)) <= VarSlots /\ Cardinality(Defined \cup Sets(p)) \in Nat
  BY <1>3, FS_CardinalityType DEF SlotsSuffice
<1> QED BY <1>1, <1>5, <1>6, <1>7

-----------------------------------------------------------------------------
(* What is written for a statement, and what it does.                      *)
LEMMA WrittenIs ==
  ASSUME NEW st
  PROVE  /\ st.t = "print(" => Written(st) = <<Word("print(", st.k), Word("close", NoName), Sep>>
         /\ st.t = "print\"" =>
              Written(st) = <<Word("print\"", NoName)>> \o st.text \o <<Word("quote", NoName), Word("close", NoName), Sep>>
         /\ st.t = "setstr" =>
              Written(st) = <<Word("set", st.k), Word("quote", NoName)>> \o st.text \o <<Word("quote", NoName), Sep>>
         /\ st.t = "beep(" =>
              Written(st) = <<Word("beep(", NoName)>> \o Digits(st.n[1]) \o <<Word("comma", NoName)>>
                             \o (IF st.k = NoName THEN Digits(st.n[2]) ELSE <<Word("name", st.k)>>) \o <<Word("close", NoName), Sep>>
         /\ st.t \in {"set", "add", "sub", "mul", "div"} => Written(st) = <<Word(st.t, st.k)>> \o Digits(st.n[1]) \o <<Sep>>
<1>1. ASSUME st.t = "print(" PROVE Written(st) = <<Word("print(", st.k), Word("close", NoName), Sep>>
  BY <1>1, Zenon DEF Written
<1>2. ASSUME st.t = "print\""
      PROVE  Written(st) = <<Word("print\"", NoName)>> \o st.text \o <<Word("quote", NoName), Word("close", NoName), Sep>>
  BY <1>2, Zenon DEF Written
<1>3. ASSUME st.t = "setstr"
      PROVE  Written(st) = <<Word("set", st.k), Word("quote", NoName)>> \o st.text \o <<Word("quote", NoName), Sep>>
  BY <1>3, Zenon DEF Written
<1>4. ASSUME st.t = "beep("
      PROVE  Written(st) = <<Word("beep(", NoName)>> \o Digits(st.n[1]) \o <<Word("comma", NoName)>>
                             \o (IF st.k = NoName THEN Digits(st.n[2]) ELSE <<Word("name", st.k)>>) \o <<Word("close", NoName), Sep>>
  BY <1>4, Zenon DEF Written
<1>5. ASSUME st.t \in {"set", "add", "sub", "mul", "div"}
      PROVE  Written(st) = <<Word(st.t, st.k)>> \o Digits(st.n[1]) \o <<Sep>>
  <2>1. st.t # "print(" /\ st.t # "print\"" /\ st.t # "setstr" /\ st.t # "beep("
    BY <1>5
  <2> QED BY <2>1, Zenon DEF Written
<1> QED BY <1>1, <1>2, <1>3, <1>4, <1>5, Zenon

LEMMA DoSet ==
  ASSUME NEW w, NEW st, ~ w.fault
  PROVE  /\ st.t = "set" => Do(w, st) = [w EXCEPT !.env[st.k] = Num(IF Len(st.n) > 0 THEN Wrap(st.n[1]) ELSE 0)]
         /\ st.t = "setstr" => Do(w, st) = [w EXCEPT !.env[st.k] = Text(w.env[st.k].ival, st.text)]
<1>1. ASSUME st.t = "set" PROVE Do(w, st) = [w EXCEPT !.env[st.k] = Num(IF Len(st.n) > 0 THEN Wrap(st.n[1]) ELSE 0)]
  BY <1>1, Zenon DEF Do
<1>2. ASSUME st.t = "setstr" PROVE Do(w, st) = [w EXCEPT !.env[st.k] = Text(w.env[st.k].ival, st.text)]
  BY <1>2, Zenon DEF Do
<1> QED BY <1>1, <1>2, Zenon

LEMMA DoPrint ==
  ASSUME NEW w, NEW st, ~ w.fault
  PROVE  /\ st.t = "print\"" => Do(w, st) = [w EXCEPT !.screen = Append(@, Shown("text", st.text, 0, 0))]
         /\ st.t = "print(" =>
              Do(w, st) = [w EXCEPT !.screen = Append(@,
                IF w.env[st.k].type = "none" THEN Shown("undefined", <<>>, 0, 0)
                ELSE IF w.env[st.k].type = "int" THEN Shown("int", <<>>, w.env[st.k].ival, 0) ELSE Shown("text", w.env[st.k].sval, 0, 0))]
<1>1. ASSUME st.t = "print\"" PROVE Do(w, st) = [w EXCEPT !.screen = Append(@, Shown("text", st.text, 0, 0))]
  BY <1>1, Zenon DEF Do
<1>2. ASSUME st.t = "print("
      PROVE  Do(w, st) = [w EXCEPT !.screen = Append(@,
                IF w.env[st.k].type = "none" THEN Shown("undefined", <<>>, 0, 0)
                ELSE IF w.env[st.k].type = "int" THEN Shown("int", <<>>, w.env[st.k].ival, 0) ELSE Shown("text", w.env[st.k].sval, 0, 0))]
  BY <1>2, Zenon DEF Do
<1> QED BY <1>1, <1>2, Zenon

LEMMA DoTone ==
  ASSUME NEW w, NEW st, ~ w.fault, st.t = "beep("
  PROVE  Do(w, st) =
           IF (IF Len(st.n) > 0 THEN Wrap(st.n[1]) ELSE 0) = 0 THEN [w EXCEPT !.fault = TRUE]
           ELSE [env |-> w.env,
                 screen |-> Append(w.screen, Shown("tone", <<>>, IF Len(st.n) > 0 THEN Wrap(st.n[1]) ELSE 0,
                                                   IF st.k = NoName THEN Wrap(st.n[2]) ELSE w.env[st.k].ival)),
                 fault |-> (IF st.k = NoName THEN Wrap(st.n[2]) ELSE w.env[st.k].ival) <= 0]
BY Zenon DEF Do

LEMMA DoBeep ==
  ASSUME NEW w, NEW st, ~ w.fault, st.t = "beep(", Len(st.n) > 0,
         NEW n, n = Wrap(st.n[1]),
         NEW d, d = IF st.k = NoName THEN Wrap(st.n[2]) ELSE w.env[st.k].ival
  PROVE  Do(w, st) = IF n = 0 THEN [w EXCEPT !.fault = TRUE]
                     ELSE [env |-> w.env, screen |-> Append(w.screen, Shown("tone", <<>>, n, d)), fault |-> d <= 0]
BY DoTone

LEMMA DoMath ==
  ASSUME NEW w, NEW st, ~ w.fault, st.t \in {"add", "sub", "mul", "div"}, Len(st.n) > 0,
         NEW n, n = Wrap(st.n[1]), NEW x, x = w.env[st.k]
  PROVE  Do(w, st) = IF x.type # "int" THEN w
                     ELSE IF Overflows(st.t, x.ival, n) THEN [w EXCEPT !.fault = TRUE]
                     ELSE [w EXCEPT !.env[st.k] = Num(Result(st.t, x.ival, n))]
<1>1. st.t # "set" /\ st.t # "setstr" /\ st.t # "print\"" /\ st.t # "print(" /\ st.t # "beep("
  OBVIOUS
<1> QED BY <1>1, Zenon DEF Do

(* After a fault nothing more happens.                                     *)
LEMMA DoFault ==
  ASSUME NEW w, NEW st, w.fault
  PROVE  Do(w, st) = w
BY Zenon DEF Do

(* The word that is read decides what run_interper does.                   *)
LEMMA Which ==
  ASSUME run_interper, status = "running", i < file_size, i \in Nat, file_size \in Nat
  PROVE  /\ At(i) = "print\"" => PrintText
         /\ At(i) = "print(" => PrintVar
         /\ At(i) = "beep(" => Beep \/ BeepOverrun
         /\ At(i) = "set" => Set
         /\ At(i) = "loop" => Loop
         /\ At(i) = "endloop" => EndLoop
         /\ At(i) = "sep" => Skip
         /\ At(i) \in {"add", "sub", "mul", "div"} => process_math(At(i))
<1>1. ~ Return
  BY DEF Return
<1>2. /\ PrintText => At(i) = "print\""
      /\ PrintVar => At(i) = "print("
      /\ Beep \/ BeepOverrun => At(i) = "beep("
      /\ Set => At(i) = "set"
      /\ Loop => At(i) = "loop"
      /\ EndLoop => At(i) = "endloop"
      /\ Skip => At(i) \in {"nul", "sep", "space", "quote", "close", "comma", "text", "name", "digit"}
      /\ \A op \in {"add", "sub", "mul", "div"} : process_math(op) => At(i) = op
  BY DEF PrintText, PrintVar, Beep, BeepOverrun, Set, Loop, EndLoop, Skip, process_math, Reading
<1> QED BY <1>1, <1>2 DEF run_interper

(* What is in the buffer from a place on.                                  *)
Spells(p, q) == \A j \in 1 .. Len(q) : file_system_buffer[p + j - 1] = q[j]

LEMMA SpellsBoth ==
  ASSUME NEW a \in Seq(Words), NEW b \in Seq(Words), NEW p \in Nat, Spells(p, a \o b)
  PROVE  /\ a \o b \in Seq(Words) /\ Len(a \o b) = Len(a) + Len(b) /\ Len(a) \in Nat /\ Len(b) \in Nat
         /\ Spells(p, a) /\ Spells(p + Len(a), b)
<1> HIDE DEF Words
<1>1. /\ a \o b \in Seq(Words) /\ Len(a \o b) = Len(a) + Len(b)
      /\ Len(a) \in Nat /\ Len(b) \in Nat
      /\ \A j \in 1 .. Len(a) : (a \o b)[j] = a[j]
      /\ \A j \in 1 .. Len(b) : (a \o b)[Len(a) + j] = b[j]
  BY Together
<1>2. ASSUME NEW j \in 1 .. Len(a) PROVE file_system_buffer[p + j - 1] = a[j]
  <2>1. j \in 1 .. Len(a \o b)
    BY <1>1
  <2> QED BY <1>1, <2>1 DEF Spells
<1>3. ASSUME NEW j \in 1 .. Len(b) PROVE file_system_buffer[p + Len(a) + j - 1] = b[j]
  <2>1. Len(a) + j \in 1 .. Len(a \o b) /\ p + (Len(a) + j) - 1 = p + Len(a) + j - 1
    BY <1>1
  <2>2. file_system_buffer[p + (Len(a) + j) - 1] = (a \o b)[Len(a) + j]
    BY <2>1 DEF Spells
  <2> QED BY <1>1, <2>1, <2>2
<1> QED BY <1>1, <1>2, <1>3 DEF Spells

LEMMA SpellsWords ==
  ASSUME NEW p \in Nat
  PROVE  /\ \A a : Spells(p, <<a>>) => file_system_buffer[p] = a
         /\ \A a, b : Spells(p, <<a, b>>) => file_system_buffer[p] = a /\ file_system_buffer[p + 1] = b
         /\ \A a, b, c : Spells(p, <<a, b, c>>) =>
              file_system_buffer[p] = a /\ file_system_buffer[p + 1] = b /\ file_system_buffer[p + 2] = c
<1>0. p + 1 - 1 = p /\ p + 2 - 1 = p + 1 /\ p + 3 - 1 = p + 2
  OBVIOUS
<1>1. ASSUME NEW a, Spells(p, <<a>>) PROVE file_system_buffer[p] = a
  <2>1. \A j \in 1 .. 1 : file_system_buffer[p + j - 1] = <<a>>[j]
    BY <1>1 DEF Spells
  <2> QED BY <1>0, <2>1
<1>2. ASSUME NEW a, NEW b, Spells(p, <<a, b>>) PROVE file_system_buffer[p] = a /\ file_system_buffer[p + 1] = b
  <2>1. \A j \in 1 .. 2 : file_system_buffer[p + j - 1] = <<a, b>>[j]
    BY <1>2 DEF Spells
  <2> QED BY <1>0, <2>1
<1>3. ASSUME NEW a, NEW b, NEW c, Spells(p, <<a, b, c>>)
      PROVE file_system_buffer[p] = a /\ file_system_buffer[p + 1] = b /\ file_system_buffer[p + 2] = c
  <2>1. \A j \in 1 .. 3 : file_system_buffer[p + j - 1] = <<a, b, c>>[j]
    BY <1>3 DEF Spells
  <2> QED BY <1>0, <2>1
<1> QED BY <1>1, <1>2, <1>3

(* The words of a source are words.                                        *)
Kinds == {"quote", "close", "comma", "name", "print(", "beep(", "set", "add", "sub", "mul", "div", "loop", "endloop"}
LEMMA AreWords ==
  /\ Sep \in Words /\ Sep.t = "sep"
  /\ \A k \in AllNames, t \in Kinds : Word(t, k) \in Words /\ Word(t, k).t = t /\ Word(t, k).k = k
  /\ NoName \in AllNames
BY DEF Words, Word, Sep, AllNames, Kinds

LEMMA QuoteWords ==
  /\ Word("print\"", NoName) \in Words /\ Word("print\"", NoName).t = "print\""
  /\ Word("quote", NoName) \in Words /\ Word("quote", NoName).t = "quote"
  /\ Word("close", NoName) \in Words /\ Word("close", NoName).t = "close"
  /\ Word("comma", NoName) \in Words /\ Word("comma", NoName).t = "comma"
  /\ Word("beep(", NoName) \in Words /\ Word("beep(", NoName).t = "beep("
  /\ Word("loop", NoName) \in Words /\ Word("loop", NoName).t = "loop"
  /\ Word("endloop", NoName) \in Words /\ Word("endloop", NoName).t = "endloop"
BY DEF Words, Word

LEMMA ShortSeqs ==
  ASSUME NEW T, NEW a \in T, NEW b \in T, NEW c \in T
  PROVE  /\ <<a>> \in Seq(T) /\ Len(<<a>>) = 1
         /\ <<a, b>> \in Seq(T) /\ Len(<<a, b>>) = 2
         /\ <<a, b, c>> \in Seq(T) /\ Len(<<a, b, c>>) = 3
OBVIOUS

LEMMA SpellsThree ==
  ASSUME NEW a \in Seq(Words), NEW b \in Seq(Words), NEW c \in Seq(Words), NEW p \in Nat, Spells(p, a \o b \o c)
  PROVE  /\ Len(a \o b \o c) = Len(a) + Len(b) + Len(c)
         /\ Spells(p, a) /\ Spells(p + Len(a), b) /\ Spells(p + Len(a) + Len(b), c)
<1> HIDE DEF Words
<1> DEFINE d == a \o b
<1>1. d \in Seq(Words) /\ Len(d) = Len(a) + Len(b) /\ Len(a) \in Nat /\ Len(b) \in Nat
  BY Together
<1>2. Spells(p, d \o c)
  OBVIOUS
<1>3. Spells(p, d) <=> Spells(p, a \o b)
  OBVIOUS
<1>4. Len(a \o b \o c) = Len(d \o c)
  OBVIOUS
<1> HIDE DEF d
<1>5. Len(d \o c) = Len(d) + Len(c) /\ Spells(p, d) /\ Spells(p + Len(d), c)
  BY <1>1, <1>2, SpellsBoth
<1>6. Spells(p, a) /\ Spells(p + Len(a), b)
  BY <1>3, <1>5, SpellsBoth
<1>7. p + Len(d) = p + Len(a) + Len(b)
  BY <1>1
<1> QED BY <1>1, <1>4, <1>5, <1>6, <1>7

LEMMA DigitsWords ==
  ASSUME NEW n \in 0 .. 99
  PROVE  /\ Digits(n) \in Seq(Words) /\ Len(Digits(n)) \in {1, 2} /\ \A j \in 1 .. Len(Digits(n)) : Digits(n)[j].t = "digit"
         /\ Digits(n)[1].t = "digit" /\ 1 \in 1 .. Len(Digits(n)) /\ Len(Digits(n)) \in Nat
<1>0. \A m \in 0 .. 9 : Digit(m) \in Words /\ Digit(m).t = "digit"
  BY DEF Words, Digit
<1> HIDE DEF Words
<1>1. CASE n <= 9
  <2>1. Digits(n) = <<Digit(n)>> /\ Digit(n) \in Words /\ Digit(n).t = "digit"
    BY <1>0, <1>1, DigitsIs
  <2> QED BY <2>1
<1>2. CASE n > 9
  <2> DEFINE a == n \div 10
             b == n % 10
  <2>1. Digits(n) = <<Digit(a), Digit(b)>> /\ a \in 0 .. 9 /\ b \in 0 .. 9
    BY <1>2, DigitsIs
  <2> HIDE DEF a, b
  <2>2. Digit(a) \in Words /\ Digit(a).t = "digit" /\ Digit(b) \in Words /\ Digit(b).t = "digit"
    BY <1>0, <2>1
  <2> QED BY <2>1, <2>2
<1> QED BY <1>1, <1>2

(* What a statement of a source is made of.                                *)
LEMMA Parts ==
  ASSUME NEW st \in Statements
  PROVE  /\ st.t \in {"print(", "print\"", "set", "setstr", "add", "sub", "mul", "div", "beep("}
         /\ st.k \in AllNames
         /\ st.t \in {"print(", "set", "setstr", "add", "sub", "mul", "div", "beep("} => Key(st.k) = st.k
         /\ st.t \in {"set", "add", "sub", "mul", "div", "beep("} => Len(st.n) > 0 /\ st.n[1] \in 0 .. 99
         /\ st.t = "beep(" /\ st.k = NoName => st.n[2] \in 0 .. 99
         /\ st.t \in {"print\"", "setstr"} => st.text \in Seq(Unquoted)
         /\ st.t = "setstr" => Len(st.text) <= StringMax
<1>1. \A f \in Few(1) : Len(f) = 1 /\ f[1] \in 0 .. 99
  BY DEF Few
<1>2. \A f \in Few(2) : Len(f) = 2 /\ f[1] \in 0 .. 99 /\ f[2] \in 0 .. 99
  BY DEF Few
<1>3. \A k \in Short : k \in AllNames /\ Key(k) = k
  BY DEF Short, AllNames
<1>4. /\ NoName \in AllNames /\ Key(NoName) = NoName
      /\ \A k \in Short \ {NoName} : k \in AllNames /\ k # NoName /\ Key(k) = k
  BY AiraAssumption DEF AllNames, Short
<1> HIDE DEF Few, Short, Unquoted, NoName
<1>6. CASE st \in [t : {"print("}, k : Short, n : {<<>>}, text : {<<>>}]
  BY <1>3, <1>6
<1>7. CASE st \in [t : {"set", "add", "sub", "mul", "div"}, k : Short, n : Few(1), text : {<<>>}]
  <2>1. st.t \in {"set", "add", "sub", "mul", "div"} /\ st.k \in Short /\ st.n \in Few(1)
    BY <1>7
  <2>2. Len(st.n) = 1 /\ st.n[1] \in 0 .. 99 /\ st.k \in AllNames /\ Key(st.k) = st.k
    BY <1>1, <1>3, <2>1
  <2>3. Len(st.n) > 0
    BY <2>2
  <2>4. st.t # "print(" /\ st.t # "beep(" /\ st.t # "setstr" /\ st.t # "print\""
    BY <2>1
  <2> QED BY <2>1, <2>2, <2>3, <2>4
<1>8. CASE st \in [t : {"beep("}, k : Short \ {NoName}, n : Few(1), text : {<<>>}]
  <2>1. st.t = "beep(" /\ st.k \in Short \ {NoName} /\ st.n \in Few(1)
    BY <1>8
  <2> QED BY <1>1, <1>4, <2>1
<1>9. CASE st \in [t : {"beep("}, k : {NoName}, n : Few(2), text : {<<>>}]
  <2>1. st.t = "beep(" /\ st.k = NoName /\ st.n \in Few(2)
    BY <1>9
  <2>2. Len(st.n) = 2 /\ st.n[1] \in 0 .. 99 /\ st.n[2] \in 0 .. 99
    BY <1>2, <2>1
  <2> QED BY <1>4, <2>1, <2>2
<1>10. CASE st \in [t : {"print\""}, k : {NoName}, n : {<<>>}, text : Seq(Unquoted)]
  <2>1. st.t = "print\"" /\ st.k = NoName /\ st.text \in Seq(Unquoted)
    BY <1>10
  <2> QED BY <1>4, <2>1
<1>11. CASE st \in [t : {"setstr"}, k : Short, n : {<<>>}, text : {x \in Seq(Unquoted) : Len(x) <= StringMax}]
  <2>1. st.t = "setstr" /\ st.k \in Short /\ st.text \in {x \in Seq(Unquoted) : Len(x) <= StringMax}
    BY <1>11
  <2> QED BY <1>3, <2>1
<1> QED BY <1>6, <1>7, <1>8, <1>9, <1>10, <1>11 DEF Statements

-----------------------------------------------------------------------------
(* The interpreter does what each statement of a source means.             *)
Went(st) ==
  /\ UNCHANGED <<Loaded, Looping>>
  /\ file_system_buffer[i + Len(Written(st)) - 1] = Sep
  /\ \/ status' = "running" /\ World' = Do(World, st) /\ i' = i + Len(Written(st)) - 1
     \/ status' = "fault" /\ Do(World, st).fault = TRUE /\ screen' = Do(World, st).screen

LEMMA WorldShows ==
  ASSUME UNCHANGED var_table, NEW x, screen' = Append(screen, x)
  PROVE  World' = [World EXCEPT !.screen = Append(@, x)]
<1>0. PICK no : no = FALSE
  OBVIOUS
<1>1. Env' = Env
  BY DEF Env, find_var
<1>2. World' = [env |-> Env, screen |-> Append(screen, x), fault |-> no]
  BY <1>0, <1>1 DEF World
<1>3. World = [env |-> Env, screen |-> screen, fault |-> no]
  BY <1>0 DEF World
<1>4. PICK all : all = Append(screen, x) /\ all = Append(World.screen, x)
  BY <1>3
<1>5. World' = [env |-> Env, screen |-> all, fault |-> no]
  BY <1>2, <1>4
<1>6. World' = [World EXCEPT !.screen = all]
  BY ONLY <1>3, <1>5
<1> QED BY ONLY <1>4, <1>6

LEMMA WorldSets ==
  ASSUME TableInv, TableInv', NEW k \in AllNames, NEW v \in VarIds, NEW x,
         v = IF find_var(k) = -1 THEN FreeSlot ELSE find_var(k),
         x.active, x.name = k, var_table' = [var_table EXCEPT ![v] = x], UNCHANGED screen
  PROVE  World' = [World EXCEPT !.env[k] = Content(x)]
<1>0. PICK no : no = FALSE
  OBVIOUS
<1>1. Env' = [Env EXCEPT ![k] = Content(x)]
  BY EnvSet
<1>2. World' = [env |-> [Env EXCEPT ![k] = Content(x)], screen |-> screen, fault |-> no]
  BY <1>0, <1>1 DEF World
<1>3. World = [env |-> Env, screen |-> screen, fault |-> no]
  BY <1>0 DEF World
<1> QED BY ONLY <1>2, <1>3

LEMMA InUse ==
  ASSUME TableInv, NEW k \in AllNames, find_var(k) # -1
  PROVE  /\ find_var(k) \in VarIds /\ var_table[find_var(k)] \in Variable
         /\ var_table[find_var(k)].active /\ var_table[find_var(k)].name = k
         /\ var_table[find_var(k)].type \in {"int", "string"}
<1>1. find_var(k) \in VarIds /\ var_table[find_var(k)].active /\ var_table[find_var(k)].name = k
  BY FindsName DEF FindsAll, Finds
<1>2. var_table[find_var(k)] \in Variable
  BY <1>1 DEF TableInv
<1>3. var_table[find_var(k)].type \in {"int", "string"}
  BY <1>2 DEF Variable
<1> QED BY <1>1, <1>2, <1>3

LEMMA GoesPrintVar ==
  ASSUME AiraInv, NEW st \in Statements, st.t = "print(", Spells(i, Written(st)), i + Len(Written(st)) <= file_size,
         status = "running", run_interper
  PROVE  Went(st)
<1>1. Written(st) = <<Word("print(", st.k), Word("close", NoName), Sep>> /\ Len(Written(st)) = 3
  <2>1. Written(st) = <<Word("print(", st.k), Word("close", NoName), Sep>>
    BY WrittenIs
  <2> QED BY <2>1
<1>2. i \in Nat /\ file_size \in Nat /\ i < file_size
  BY <1>1, Bounds DEF AiraInv, PlaceInv, BufferInv
<1>3. /\ file_system_buffer[i] = Word("print(", st.k)
      /\ file_system_buffer[i + 1] = Word("close", NoName)
      /\ file_system_buffer[i + 2] = Sep
  <2> DEFINE a == Word("print(", st.k)
             b == Word("close", NoName)
  <2>1. Spells(i, <<a, b, Sep>>)
    BY <1>1
  <2> HIDE DEF a, b
  <2>2. file_system_buffer[i] = a /\ file_system_buffer[i + 1] = b /\ file_system_buffer[i + 2] = Sep
    BY <1>2, <2>1, SpellsWords
  <2> QED BY <2>2 DEF a, b
<1>4. st.k \in AllNames /\ Key(st.k) = st.k
  BY Parts
<1>5. At(i) = "print(" /\ file_system_buffer[i].k = st.k /\ At(i + 1) = "close"
  <2>1. /\ Word("print(", st.k).t = "print(" /\ Word("print(", st.k).k = st.k
        /\ Word("close", NoName).t = "close"
    BY <1>4, AreWords DEF Kinds
  <2> QED BY <1>3, <2>1 DEF At
<1>6. PrintVar
  BY <1>2, <1>5, Which
<1> DEFINE v == find_var(st.k)
           x == IF v = -1 THEN Shown("undefined", <<>>, 0, 0)
                ELSE IF var_table[v].type = "string" THEN Shown("text", var_table[v].sval, 0, 0)
                ELSE Shown("int", <<>>, var_table[v].ival, 0)
           e == Env[st.k]
<1>7. screen' = Append(screen, x) /\ i' = i + 2 /\ UNCHANGED <<Loaded, var_table, Looping, status>>
  <2>1. AfterClose(i + 1) = i + 2
    BY <1>2, <1>5 DEF AfterClose
  <2> QED BY <1>4, <1>5, <1>6, <2>1 DEF PrintVar, Cut
<1>8. x = IF e.type = "none" THEN Shown("undefined", <<>>, 0, 0)
          ELSE IF e.type = "int" THEN Shown("int", <<>>, e.ival, 0) ELSE Shown("text", e.sval, 0, 0)
  <2>1. e = IF v = -1 THEN Unset ELSE Content(var_table[v])
    BY <1>4, EnvIs DEF ByName
  <2>2. v # -1 => var_table[v].type \in {"int", "string"}
    BY <1>4, InUse DEF AiraInv
  <2> QED BY <2>1, <2>2 DEF Unset, Content, Num, Text
<1> HIDE DEF x
<1>9. World' = [World EXCEPT !.screen = Append(@, x)]
  BY <1>7, WorldShows
<1>10. ~ World.fault /\ World.env[st.k] = e
  BY DEF World
<1> HIDE DEF e, v
<1>11. World' = Do(World, st)
  BY <1>8, <1>9, <1>10, DoPrint
<1>12. i + Len(Written(st)) - 1 = i + 2
  BY <1>1, <1>2
<1> QED BY <1>3, <1>7, <1>11, <1>12 DEF Went

(* Where a quote ends a text the text ends.                                *)
LEMMA PrintEndIs ==
  ASSUME NEW j \in Nat, NEW k \in Nat, NEW e \in j .. k, At(e) = "quote", \A h \in j .. e - 1 : At(h) # "quote"
  PROVE  (CHOOSE x \in j .. k : /\ x = k \/ At(x) = "quote"
                                /\ \A h \in j .. x - 1 : At(h) # "quote") = e
<1> DEFINE Ends(x) == /\ x = k \/ At(x) = "quote"
                      /\ \A h \in j .. x - 1 : At(h) # "quote"
<1>1. Ends(e)
  OBVIOUS
<1>2. \A x \in j .. k : Ends(x) => x = e
  <2> SUFFICES ASSUME NEW x \in j .. k, Ends(x), x # e PROVE FALSE
    OBVIOUS
  <2>1. CASE x < e
    <3>1. x \in j .. e - 1 /\ x # k
      BY <2>1
    <3> QED BY <3>1
  <2>2. CASE x > e
    <3>1. e \in j .. x - 1
      BY <2>2
    <3> QED BY <3>1
  <2> QED BY <2>1, <2>2
<1> HIDE DEF Ends
<1>3. (CHOOSE x \in j .. k : Ends(x)) = e
  BY <1>1, <1>2
<1> QED BY <1>3 DEF Ends

LEMMA TextEndIs ==
  ASSUME NEW j \in Nat, NEW e \in j .. j + StringMax, At(e) = "quote", \A h \in j .. e - 1 : At(h) # "quote"
  PROVE  TextEnd(j) = e
<1>0. StringMax \in Nat
  BY Bounds
<1> DEFINE Ends(x) == (x = j + StringMax \/ At(x) = "quote") /\ \A h \in j .. x - 1 : At(h) # "quote"
<1>1. Ends(e)
  OBVIOUS
<1>2. \A x \in j .. j + StringMax : Ends(x) => x = e
  <2> SUFFICES ASSUME NEW x \in j .. j + StringMax, Ends(x), x # e PROVE FALSE
    OBVIOUS
  <2>1. CASE x < e
    <3>1. x \in j .. e - 1 /\ x # j + StringMax
      BY <1>0, <2>1
    <3> QED BY <3>1
  <2>2. CASE x > e
    <3>1. e \in j .. x - 1
      BY <1>0, <2>2
    <3> QED BY <3>1
  <2> QED BY <1>0, <2>1, <2>2
<1> HIDE DEF Ends
<1>3. (CHOOSE x \in j .. j + StringMax : Ends(x)) = e
  BY <1>1, <1>2
<1> QED BY <1>3 DEF Ends, TextEnd

(* A text without quotes as it lies in the buffer.                         *)
LEMMA TextWords ==
  ASSUME NEW x \in Seq(Unquoted)
  PROVE  x \in Seq(Words) /\ Len(x) \in Nat /\ \A h \in 1 .. Len(x) : x[h].t # "quote"
<1>1. Unquoted \subseteq Words /\ \A w \in Unquoted : w.t # "quote"
  BY DEF Unquoted
<1> HIDE DEF Unquoted, Words
<1>2. \A h \in 1 .. Len(x) : x[h] \in Unquoted
  BY ElementOfSeq
<1> QED BY <1>1, <1>2

LEMMA TextRead ==
  ASSUME NEW p \in Nat, NEW x \in Seq(Unquoted), Spells(p, x)
  PROVE  /\ \A h \in p .. p + Len(x) - 1 : At(h) # "quote"
         /\ [n \in 1 .. Len(x) |-> file_system_buffer[p - 1 + n]] = x
<1>1. Len(x) \in Nat /\ x \in Seq(Words) /\ \A h \in 1 .. Len(x) : x[h].t # "quote"
  BY TextWords
<1>2. ASSUME NEW h \in p .. p + Len(x) - 1 PROVE At(h) # "quote"
  <2>1. h - p + 1 \in 1 .. Len(x) /\ p + (h - p + 1) - 1 = h
    BY <1>1
  <2>2. file_system_buffer[p + (h - p + 1) - 1] = x[h - p + 1]
    BY <2>1 DEF Spells
  <2> QED BY <1>1, <2>1, <2>2 DEF At
<1>3. \A n \in 1 .. Len(x) : file_system_buffer[p - 1 + n] = x[n]
  <2> SUFFICES ASSUME NEW n \in 1 .. Len(x) PROVE file_system_buffer[p - 1 + n] = x[n]
    OBVIOUS
  <2>1. p - 1 + n = p + n - 1
    OBVIOUS
  <2> QED BY <2>1 DEF Spells
<1> HIDE DEF Words
<1>4. x = [n \in 1 .. Len(x) |-> x[n]]
  BY <1>1
<1> QED BY <1>2, <1>3, <1>4

LEMMA AtPlace ==
  ASSUME AiraInv
  PROVE  i \in Nat /\ file_size \in Nat /\ file_size <= Edge /\ Edge \in Nat
BY Bounds DEF AiraInv, PlaceInv, BufferInv

LEMMA TextPlaces ==
  ASSUME NEW p \in Nat, NEW L \in Nat, NEW m, m = 1 + L + 3, NEW z \in Nat, p + m <= z,
         NEW e, e = p + 1 + L
  PROVE  /\ p < z /\ e \in p + 1 .. z /\ p + 1 \in Nat /\ e \in Nat
         /\ e - p - 1 = L /\ e + 1 + 1 = p + m - 1 /\ e + 2 = e + 1 + 1
         /\ (p + 1) + L - 1 = e - 1 /\ (p + 1) - 1 = p
OBVIOUS

LEMMA GoesPrintText ==
  ASSUME AiraInv, NEW st \in Statements, st.t = "print\"", Spells(i, Written(st)), i + Len(Written(st)) <= file_size,
         status = "running", run_interper
  PROVE  Went(st)
<1> DEFINE a == Word("print\"", NoName)
           q == Word("quote", NoName)
           c == Word("close", NoName)
           L == Len(st.text)
           e == i + 1 + L
<1>1. Written(st) = <<a>> \o st.text \o <<q, c, Sep>>
  BY WrittenIs
<1>2. st.text \in Seq(Unquoted) /\ st.text \in Seq(Words) /\ L \in Nat
  BY Parts, TextWords
<1>3. a \in Words /\ a.t = "print\"" /\ q \in Words /\ q.t = "quote" /\ c \in Words /\ c.t = "close" /\ Sep \in Words
  BY QuoteWords, AreWords
<1>4. i \in Nat /\ file_size \in Nat
  BY AtPlace
<1> HIDE DEF a, q, c, Words
<1>5. <<a>> \in Seq(Words) /\ Len(<<a>>) = 1 /\ <<q, c, Sep>> \in Seq(Words) /\ Len(<<q, c, Sep>>) = 3
  BY <1>3, ShortSeqs
<1>6. /\ Spells(i, <<a>>) /\ Spells(i + 1, st.text) /\ Spells(i + 1 + L, <<q, c, Sep>>)
      /\ Len(Written(st)) = 1 + L + 3
  <2> DEFINE u == <<a>>
             x == st.text
             y == <<q, c, Sep>>
  <2>1. u \in Seq(Words) /\ x \in Seq(Words) /\ y \in Seq(Words) /\ Spells(i, u \o x \o y) /\ Len(Written(st)) = Len(u \o x \o y)
    BY <1>1, <1>2, <1>5
  <2>2. Len(u) = 1 /\ Len(x) = L /\ Len(y) = 3
    BY <1>5
  <2> HIDE DEF u, x, y
  <2>3. Len(u \o x \o y) = Len(u) + Len(x) + Len(y) /\ Spells(i, u) /\ Spells(i + Len(u), x) /\ Spells(i + Len(u) + Len(x), y)
    BY <1>4, <2>1, SpellsThree
  <2> QED BY <2>1, <2>2, <2>3 DEF u, x, y
<1> HIDE DEF L
<1>7. /\ i < file_size /\ e \in i + 1 .. file_size /\ i + 1 \in Nat /\ e \in Nat
      /\ e - i - 1 = L /\ e + 1 + 1 = i + Len(Written(st)) - 1 /\ e + 2 = e + 1 + 1
      /\ (i + 1) + L - 1 = e - 1 /\ (i + 1) - 1 = i
  <2>1. i + Len(Written(st)) <= file_size
    OBVIOUS
  <2> QED BY ONLY <1>2, <1>4, <1>6, <2>1, TextPlaces
<1>9. file_system_buffer[i] = a /\ file_system_buffer[e] = q /\ file_system_buffer[e + 1] = c /\ file_system_buffer[e + 2] = Sep
  <2>1. file_system_buffer[i] = a
    BY <1>4, <1>6, SpellsWords
  <2>2. Spells(e, <<q, c, Sep>>)
    BY <1>6
  <2> HIDE DEF e
  <2> QED BY <1>7, <2>1, <2>2, SpellsWords
<1>8. [n \in 1 .. L |-> file_system_buffer[(i + 1) - 1 + n]] = st.text /\ \A h \in i + 1 .. (i + 1) + L - 1 : At(h) # "quote"
  BY <1>2, <1>6, <1>7, TextRead DEF L
<1> HIDE DEF e
<1>10. At(i) = "print\"" /\ At(e) = "quote" /\ At(e + 1) = "close"
  BY <1>3, <1>9 DEF At
<1>11. /\ \A h \in i + 1 .. e - 1 : At(h) # "quote"
       /\ [n \in 1 .. L |-> file_system_buffer[i + n]] = st.text
  BY <1>7, <1>8
<1>12. PrintText
  BY <1>4, <1>7, <1>10, Which
<1> DEFINE f == CHOOSE j \in i + 1 .. file_size :
                  /\ j = file_size \/ At(j) = "quote"
                  /\ \A h \in i + 1 .. j - 1 : At(h) # "quote"
<1>13. f = e
  BY <1>4, <1>7, <1>10, <1>11, PrintEndIs
<1>14. /\ screen' = Append(screen, Shown("text", [n \in 1 .. f - i - 1 |-> file_system_buffer[i + n]], 0, 0))
       /\ i' = AfterClose(f + 1) /\ UNCHANGED <<Loaded, var_table, Looping, status>>
  BY <1>12 DEF PrintText
<1> HIDE DEF f
<1>15. screen' = Append(screen, Shown("text", st.text, 0, 0))
  BY <1>7, <1>11, <1>13, <1>14
<1>16. i' = e + 1 + 1
  BY <1>10, <1>13, <1>14 DEF AfterClose
<1>17. World' = [World EXCEPT !.screen = Append(@, Shown("text", st.text, 0, 0))]
  BY <1>14, <1>15, WorldShows
<1>18. World' = Do(World, st)
  <2>1. ~ World.fault
    BY DEF World
  <2> QED BY <1>17, <2>1, DoPrint
<1> QED BY <1>7, <1>9, <1>14, <1>16, <1>18 DEF Went

(* A word and its number.                                                  *)
Numbered(p, w, n, z) ==
  /\ file_system_buffer[p] = w /\ file_system_buffer[p + 1 + Len(Digits(n))] = z
  /\ At(p + 1) = "digit"
  /\ NumberEnd(p + 1) = p + 1 + Len(Digits(n)) /\ Number(p + 1) = Wrap(n)
LEMMA NumberSpelled ==
  ASSUME AiraInv, NEW w \in Words, NEW n \in 0 .. 99, NEW z \in Words, z.t # "digit", NEW p \in Nat,
         Spells(p, <<w>> \o Digits(n) \o <<z>>), p + 1 + Len(Digits(n)) < Edge
  PROVE  Numbered(p, w, n, z)
<1> HIDE DEF Words
<1>1. Digits(n) \in Seq(Words) /\ Len(Digits(n)) \in {1, 2} /\ Digits(n)[1].t = "digit"
  BY DigitsWords
<1>2. <<w>> \in Seq(Words) /\ Len(<<w>>) = 1 /\ <<z>> \in Seq(Words) /\ Len(<<z>>) = 1
  BY ShortSeqs
<1>3. /\ Spells(p, <<w>>) /\ Spells(p + 1, Digits(n)) /\ Spells(p + 1 + Len(Digits(n)), <<z>>)
      /\ Len(<<w>> \o Digits(n) \o <<z>>) = 1 + Len(Digits(n)) + 1
  <2> DEFINE u == <<w>>
             x == Digits(n)
             y == <<z>>
  <2>1. u \in Seq(Words) /\ x \in Seq(Words) /\ y \in Seq(Words) /\ Spells(p, u \o x \o y) /\ Len(u) = 1 /\ Len(y) = 1
    BY <1>1, <1>2
  <2> HIDE DEF u, x, y
  <2>2. Len(u \o x \o y) = Len(u) + Len(x) + Len(y) /\ Spells(p, u) /\ Spells(p + Len(u), x) /\ Spells(p + Len(u) + Len(x), y)
    BY <2>1, SpellsThree
  <2> QED BY <2>1, <2>2 DEF u, x, y
<1> DEFINE L == Len(Digits(n))
<1>4. L \in 1 .. 2 /\ p + 1 \in Nat /\ p + 1 + L \in Nat /\ p + 1 + L <= Edge /\ Edge \in Nat /\ p + 1 \in 0 .. Edge
  BY <1>1, Bounds
<1>5. file_system_buffer[p] = w /\ file_system_buffer[p + 1 + L] = z
  BY <1>3, <1>4, SpellsWords
<1>6. file_system_buffer[p + 1] = Digits(n)[1]
  <2>1. 1 \in 1 .. Len(Digits(n)) /\ p + 1 + 1 - 1 = p + 1
    BY <1>4
  <2> QED BY <1>3, <2>1 DEF Spells
<1>7. At(p + 1) = "digit" /\ At(p + 1 + L) # "digit"
  BY <1>1, <1>5, <1>6 DEF At
<1>8. NumberEnd(p + 1) = p + 1 + L /\ Number(p + 1) = Wrap(n)
  <2>1. \A h \in 1 .. Len(Digits(n)) : file_system_buffer[(p + 1) + h - 1] = Digits(n)[h]
    BY <1>3 DEF Spells
  <2> QED BY <1>4, <1>7, <2>1, NumberRead
<1> QED BY <1>5, <1>7, <1>8 DEF Numbered

LEMMA NumberPlaces ==
  ASSUME NEW p \in Nat, NEW L \in Nat, NEW m, m = 1 + L + 1, NEW z \in Nat, p + m <= z, NEW g \in Nat, z <= g
  PROVE  /\ p < z /\ p + 1 + L < g /\ p + 1 \in Nat /\ p + m - 1 = p + 1 + L
OBVIOUS

LEMMA MathSpelled ==
  ASSUME AiraInv, NEW st \in Statements, st.t \in {"set", "add", "sub", "mul", "div"}, Spells(i, Written(st)),
         i + Len(Written(st)) <= file_size
  PROVE  /\ file_system_buffer[i] = Word(st.t, st.k) /\ At(i) = st.t /\ file_system_buffer[i].k = st.k
         /\ file_system_buffer[i + Len(Written(st)) - 1] = Sep
         /\ At(i + 1) = "digit"
         /\ NumberEnd(i + 1) = i + Len(Written(st)) - 1 /\ Number(i + 1) = Wrap(st.n[1])
         /\ i < file_size
<1> DEFINE w == Word(st.t, st.k)
           n == st.n[1]
           L == Len(Digits(n))
<1>1. n \in 0 .. 99 /\ Written(st) = <<w>> \o Digits(n) \o <<Sep>>
  BY Parts, WrittenIs
<1>2. w \in Words /\ w.t = st.t /\ w.k = st.k /\ Sep \in Words /\ Sep.t # "digit"
  <2>1. st.k \in AllNames
    BY Parts
  <2>2. w \in Words /\ w.t = st.t /\ w.k = st.k
    BY <2>1, AreWords DEF Kinds
  <2>3. Sep \in Words /\ Sep.t = "sep"
    BY AreWords
  <2> QED BY <2>2, <2>3
<1> HIDE DEF w, n, Words
<1>3. i \in Nat /\ file_size \in Nat /\ file_size <= Edge /\ Edge \in Nat
  BY AtPlace
<1>4. Len(Written(st)) = 1 + L + 1 /\ L \in Nat
  <2> DEFINE u == <<w>>
             x == Digits(n)
             y == <<Sep>>
  <2>1. u \in Seq(Words) /\ x \in Seq(Words) /\ y \in Seq(Words) /\ Spells(i, u \o x \o y) /\ Len(u) = 1 /\ Len(y) = 1
        /\ Len(Written(st)) = Len(u \o x \o y)
    BY <1>1, <1>2, ShortSeqs, DigitsWords
  <2>3. Len(x) \in Nat
    BY <1>1, DigitsWords
  <2> HIDE DEF u, x, y
  <2>2. Len(u \o x \o y) = Len(u) + Len(x) + Len(y)
    BY <1>3, <2>1, SpellsThree
  <2> QED BY <2>1, <2>2, <2>3 DEF u, x, y
<1>5. i < file_size /\ i + 1 + L < Edge /\ i + Len(Written(st)) - 1 = i + 1 + L
  <2>1. i + Len(Written(st)) <= file_size
    OBVIOUS
  <2> QED BY ONLY <1>3, <1>4, <2>1, NumberPlaces
<1>6. /\ file_system_buffer[i] = w /\ file_system_buffer[i + 1 + L] = Sep
      /\ At(i + 1) = "digit"
      /\ NumberEnd(i + 1) = i + 1 + L /\ Number(i + 1) = Wrap(n)
  <2>1. Spells(i, <<w>> \o Digits(n) \o <<Sep>>)
    BY <1>1
  <2>2. i + 1 + Len(Digits(n)) < Edge
    BY <1>5
  <2> HIDE DEF L
  <2>3. Numbered(i, w, n, Sep)
    <3>1. AiraInv /\ w \in Words /\ n \in 0 .. 99 /\ Sep \in Words /\ Sep.t # "digit" /\ i \in Nat
      BY <1>1, <1>2, <1>3
    <3> QED BY ONLY <2>1, <2>2, <3>1, NumberSpelled
  <2> QED BY <2>3 DEF L, Numbered
<1> HIDE DEF L
<1>7. At(i) = st.t /\ file_system_buffer[i].k = st.k
  BY <1>2, <1>6 DEF At
<1> QED BY <1>5, <1>6, <1>7 DEF w, n

(* add, sub, mul and div.                                                  *)
LEMMA GoesMath ==
  ASSUME AiraInv, AiraInv', NEW st \in Statements, st.t \in {"add", "sub", "mul", "div"}, Spells(i, Written(st)),
         i + Len(Written(st)) <= file_size, status = "running", run_interper
  PROVE  Went(st)
<1> DEFINE k == st.k
           op == st.t
           n == Wrap(st.n[1])
           v == find_var(k)
           x == Env[k]
           counts == v # -1 /\ var_table[v].type = "int"
           y == [var_table[v] EXCEPT !.ival = Result(op, @, n)]
<1>1. k \in AllNames /\ Key(k) = k /\ Len(st.n) > 0 /\ op \in {"add", "sub", "mul", "div"}
  BY Parts
<1>2. /\ At(i) = op /\ file_system_buffer[i].k = k
      /\ file_system_buffer[i + Len(Written(st)) - 1] = Sep
      /\ NumberEnd(i + 1) = i + Len(Written(st)) - 1 /\ Number(i + 1) = n
      /\ i < file_size
  BY MathSpelled
<1>3. process_math(op)
  <2>1. i \in Nat /\ file_size \in Nat
    BY AtPlace
  <2> QED BY <1>1, <1>2, <2>1, Which
<1> HIDE DEF n, k, op
<1>4. /\ i' = NumberEnd(i + 1) /\ UNCHANGED <<Loaded, Looping, screen>>
      /\ IF counts /\ Overflows(op, var_table[v].ival, n)
         THEN status' = "fault" /\ UNCHANGED var_table
         ELSE /\ UNCHANGED status
              /\ var_table' = IF counts THEN [var_table EXCEPT ![v].ival = Result(op, @, n)] ELSE var_table
  BY <1>1, <1>2, <1>3 DEF process_math, Cut
<1>5. ~ World.fault /\ World.env[k] = x /\ World.screen = screen
  BY DEF World
<1>6. x = IF v = -1 THEN Unset ELSE Content(var_table[v])
  BY <1>1, EnvIs DEF ByName
<1>7. Do(World, st) = IF x.type # "int" THEN World
                      ELSE IF Overflows(op, x.ival, n) THEN [World EXCEPT !.fault = TRUE]
                      ELSE [World EXCEPT !.env[k] = Num(Result(op, x.ival, n))]
  BY <1>1, <1>5, DoMath DEF n, k, op
<1>8. CASE ~ counts
  <2>1. x.type # "int"
    BY <1>6, <1>8 DEF Content, Num, Text, Unset
  <2>2. UNCHANGED <<var_table, status, screen>>
    BY <1>4, <1>8
  <2>3. World' = World
    BY <2>2 DEF World, Env, find_var
  <2> QED BY <1>2, <1>4, <1>7, <2>1, <2>2, <2>3 DEF Went
<1>9. CASE counts
  <2>1. x.type = "int" /\ x.ival = var_table[v].ival
    BY <1>6, <1>9 DEF Content, Num
  <2>2. CASE Overflows(op, var_table[v].ival, n)
    <3>1. Do(World, st) = [World EXCEPT !.fault = TRUE]
      BY <1>7, <2>1, <2>2
    <3>2. Do(World, st).fault = TRUE /\ Do(World, st).screen = screen
      BY <3>1 DEF World
    <3>3. status' = "fault" /\ screen' = screen
      BY <1>4, <1>9, <2>2
    <3> QED BY <1>2, <1>4, <3>2, <3>3 DEF Went
  <2>3. CASE ~ Overflows(op, var_table[v].ival, n)
    <3>1. var_table' = [var_table EXCEPT ![v] = y] /\ UNCHANGED <<status, screen>>
      BY <1>4, <1>9, <2>3
    <3>2. v \in VarIds /\ var_table[v] \in Variable /\ var_table[v].active /\ var_table[v].name = k
      BY <1>1, <1>9, InUse DEF AiraInv
    <3>3. y.active /\ y.name = k /\ Content(y) = Num(Result(op, x.ival, n))
      BY <1>9, <2>1, <3>2 DEF Content, Num, Variable
    <3> HIDE DEF y
    <3>4. World' = [World EXCEPT !.env[k] = Content(y)]
      <4>1. TableInv /\ TableInv' /\ v = IF find_var(k) = -1 THEN FreeSlot ELSE find_var(k)
        BY <1>9 DEF AiraInv
      <4> HIDE DEF v
      <4> QED BY <1>1, <3>1, <3>2, <3>3, <4>1, WorldSets
    <3>5. World' = Do(World, st)
      BY <1>7, <2>1, <2>3, <3>3, <3>4
    <3> QED BY <1>2, <1>4, <3>1, <3>5 DEF Went
  <2> QED BY <2>2, <2>3
<1> QED BY <1>8, <1>9

(* set with a number.                                                      *)
LEMMA GoesSet ==
  ASSUME AiraInv, AiraInv', NEW st \in Statements, st.t = "set", Spells(i, Written(st)),
         i + Len(Written(st)) <= file_size, status = "running", run_interper,
         find_var(st.k) = -1 => FreeSlot \in VarIds
  PROVE  Went(st)
<1> DEFINE k == st.k
           n == Wrap(st.n[1])
           v == IF find_var(k) = -1 THEN FreeSlot ELSE find_var(k)
           y == [var_table[v] EXCEPT !.active = TRUE, !.name = k, !.type = "int", !.ival = n]
<1>1. k \in AllNames /\ Key(k) = k /\ Len(st.n) > 0
  BY Parts
<1>2. /\ At(i) = "set" /\ file_system_buffer[i].k = k
      /\ file_system_buffer[i + Len(Written(st)) - 1] = Sep
      /\ NumberEnd(i + 1) = i + Len(Written(st)) - 1 /\ Number(i + 1) = n
      /\ At(i + 1) = "digit" /\ i < file_size
  BY MathSpelled
<1>3. Set
  <2>1. i \in Nat /\ file_size \in Nat
    BY AtPlace
  <2> QED BY <1>2, <2>1, Which
<1> HIDE DEF n
<1>4. v \in VarIds
  BY <1>1, InUse DEF AiraInv
<1>5. /\ i' = NumberEnd(i + 1) /\ UNCHANGED <<Loaded, Looping, screen, status>>
      /\ var_table' = [var_table EXCEPT ![v] = y]
  <2>1. v # -1
    BY <1>4, NoSlot
  <2>2. ~ Cut(k)
    BY <1>1 DEF Cut
  <2>3. file_system_buffer[i].k = k /\ At(i + 1) # "quote" /\ Key(k) = k
    BY <1>1, <1>2
  <2>4. v = IF find_var(k) = -1 THEN FreeSlot ELSE find_var(k)
    OBVIOUS
  <2>5. y = [var_table[v] EXCEPT !.active = TRUE, !.name = k, !.type = "int", !.ival = Number(i + 1)]
    BY <1>2
  <2> HIDE DEF v, y, k
  <2>6. /\ i' = NumberEnd(i + 1) /\ UNCHANGED <<Loaded, Looping, screen, status>>
        /\ var_table' = [var_table EXCEPT ![v] =
             [var_table[v] EXCEPT !.active = TRUE, !.name = k, !.type = "int", !.ival = Number(i + 1)]]
    BY <1>3, <2>1, <2>2, <2>3, <2>4 DEF Set
  <2> QED BY <2>5, <2>6
<1>6. y.active /\ y.name = k /\ Content(y) = Num(n)
  <2>1. var_table[v] \in Variable
    BY <1>4 DEF AiraInv, TableInv
  <2> HIDE DEF v
  <2> QED BY <2>1 DEF Content, Variable
<1>7. World' = [World EXCEPT !.env[k] = Content(y)]
  <2>1. TableInv /\ TableInv' /\ v = IF find_var(k) = -1 THEN FreeSlot ELSE find_var(k)
    BY DEF AiraInv
  <2> HIDE DEF v, y
  <2> QED BY <1>1, <1>4, <1>5, <1>6, <2>1, WorldSets
<1>8. Do(World, st) = [World EXCEPT !.env[k] = Num(n)]
  <2>1. ~ World.fault
    BY DEF World
  <2>2. Num(IF Len(st.n) > 0 THEN Wrap(st.n[1]) ELSE 0) = Num(n)
    BY <1>1 DEF n
  <2>3. Do(World, st) = [World EXCEPT !.env[k] = Num(IF Len(st.n) > 0 THEN Wrap(st.n[1]) ELSE 0)]
    BY <2>1, DoSet
  <2> QED BY <2>2, <2>3
<1> HIDE DEF y
<1> QED BY <1>2, <1>5, <1>6, <1>7, <1>8 DEF Went

(* set with a text.                                                        *)
LEMMA SetTextPlaces ==
  ASSUME NEW p \in Nat, NEW L \in Nat, NEW m, m = 2 + L + 2, NEW z \in Nat, p + m <= z,
         NEW e, e = p + 2 + L, NEW s \in Nat, L <= s
  PROVE  /\ p < z /\ p + 2 \in Nat /\ e \in Nat /\ e \in p + 2 .. p + 2 + s
         /\ e - p - 2 = L /\ e + 1 = p + m - 1
         /\ (p + 2) + L - 1 = e - 1 /\ (p + 2) - 1 = p + 1
OBVIOUS

LEMMA GoesSetText ==
  ASSUME AiraInv, AiraInv', Spare, NEW st \in Statements, st.t = "setstr", Spells(i, Written(st)),
         i + Len(Written(st)) <= file_size, status = "running", run_interper,
         find_var(st.k) = -1 => FreeSlot \in VarIds
  PROVE  Went(st)
<1> DEFINE k == st.k
           a == Word("set", k)
           q == Word("quote", NoName)
           L == Len(st.text)
           e == i + 2 + L
           v == IF find_var(k) = -1 THEN FreeSlot ELSE find_var(k)
           y == [var_table[v] EXCEPT !.active = TRUE, !.name = k, !.type = "string", !.sval = st.text]
<1>1. Written(st) = <<a, q>> \o st.text \o <<q, Sep>>
  BY WrittenIs
<1>2. /\ st.text \in Seq(Unquoted) /\ st.text \in Seq(Words) /\ L \in Nat /\ L <= StringMax
      /\ k \in AllNames /\ Key(k) = k
  BY Parts, TextWords
<1>3. a \in Words /\ a.t = "set" /\ a.k = k /\ q \in Words /\ q.t = "quote" /\ Sep \in Words
  BY <1>2, QuoteWords, AreWords DEF Kinds
<1>4. i \in Nat /\ file_size \in Nat /\ StringMax \in Nat
  BY AtPlace, Bounds
<1> HIDE DEF a, q, k, Words
<1>5. <<a, q>> \in Seq(Words) /\ Len(<<a, q>>) = 2 /\ <<q, Sep>> \in Seq(Words) /\ Len(<<q, Sep>>) = 2
  BY <1>3, ShortSeqs
<1>6. /\ Spells(i, <<a, q>>) /\ Spells(i + 2, st.text) /\ Spells(i + 2 + L, <<q, Sep>>)
      /\ Len(Written(st)) = 2 + L + 2
  <2> DEFINE u == <<a, q>>
             x == st.text
             z == <<q, Sep>>
  <2>1. u \in Seq(Words) /\ x \in Seq(Words) /\ z \in Seq(Words) /\ Spells(i, u \o x \o z) /\ Len(Written(st)) = Len(u \o x \o z)
    BY <1>1, <1>2, <1>5
  <2>2. Len(u) = 2 /\ Len(x) = L /\ Len(z) = 2
    BY <1>5
  <2> HIDE DEF u, x, z
  <2>3. Len(u \o x \o z) = Len(u) + Len(x) + Len(z) /\ Spells(i, u) /\ Spells(i + Len(u), x) /\ Spells(i + Len(u) + Len(x), z)
    BY <1>4, <2>1, SpellsThree
  <2> QED BY <2>1, <2>2, <2>3 DEF u, x, z
<1>8. [n \in 1 .. L |-> file_system_buffer[(i + 2) - 1 + n]] = st.text /\ \A h \in i + 2 .. (i + 2) + L - 1 : At(h) # "quote"
  <2> DEFINE p == i + 2
             x == st.text
  <2>1. p \in Nat /\ x \in Seq(Unquoted) /\ Spells(p, x)
    BY <1>2, <1>4, <1>6
  <2> HIDE DEF p, x
  <2>2. [n \in 1 .. Len(x) |-> file_system_buffer[p - 1 + n]] = x /\ \A h \in p .. p + Len(x) - 1 : At(h) # "quote"
    BY <2>1, TextRead
  <2> QED BY <2>2 DEF p, x
<1> HIDE DEF L
<1>7. /\ i < file_size /\ i + 2 \in Nat /\ e \in Nat /\ e \in i + 2 .. i + 2 + StringMax
      /\ e - i - 2 = L /\ e + 1 = i + Len(Written(st)) - 1
      /\ (i + 2) + L - 1 = e - 1 /\ (i + 2) - 1 = i + 1
  <2>1. i + Len(Written(st)) <= file_size
    OBVIOUS
  <2> QED BY ONLY <1>2, <1>4, <1>6, <2>1, SetTextPlaces
<1>9. file_system_buffer[i] = a /\ file_system_buffer[i + 1] = q /\ file_system_buffer[e] = q /\ file_system_buffer[e + 1] = Sep
  <2>1. file_system_buffer[i] = a /\ file_system_buffer[i + 1] = q
    BY <1>4, <1>6, SpellsWords
  <2>2. Spells(e, <<q, Sep>>)
    BY <1>6
  <2> HIDE DEF e
  <2> QED BY <1>7, <2>1, <2>2, SpellsWords
<1> HIDE DEF e
<1>10. At(i) = "set" /\ file_system_buffer[i].k = k /\ At(i + 1) = "quote" /\ At(e) = "quote"
  BY <1>3, <1>9 DEF At
<1>11. /\ \A h \in i + 2 .. e - 1 : At(h) # "quote"
       /\ [n \in 1 .. L |-> file_system_buffer[i + 1 + n]] = st.text
  BY <1>7, <1>8
<1>12. TextEnd(i + 2) = e
  BY <1>7, <1>10, <1>11, TextEndIs
<1>13. Set
  BY <1>4, <1>7, <1>10, Which
<1>14. v \in VarIds /\ v # -1
  BY <1>2, InUse, NoSlot DEF AiraInv, k
<1>15. /\ i' = e + 1 /\ UNCHANGED <<Loaded, Looping, screen, status>>
       /\ var_table' = [var_table EXCEPT ![v] = y]
  <2>1. ~ Cut(k)
    BY <1>2 DEF Cut
  <2>2. v = IF find_var(k) = -1 THEN FreeSlot ELSE find_var(k)
    OBVIOUS
  <2>3. y = [var_table[v] EXCEPT !.active = TRUE, !.name = k, !.type = "string", !.sval = st.text]
    OBVIOUS
  <2> HIDE DEF v, y
  <2>4. /\ i' = TextEnd(i + 2) + 1 /\ UNCHANGED <<Loaded, Looping, screen, status>>
        /\ var_table' = [var_table EXCEPT ![v] =
             [var_table[v] EXCEPT !.active = TRUE, !.name = k, !.type = "string",
                !.sval = [n \in 1 .. TextEnd(i + 2) - i - 2 |-> file_system_buffer[i + 1 + n]]]]
    BY <1>2, <1>10, <1>13, <1>14, <2>1, <2>2 DEF Set
  <2>5. [n \in 1 .. TextEnd(i + 2) - i - 2 |-> file_system_buffer[i + 1 + n]] = st.text
    BY <1>7, <1>11, <1>12
  <2> QED BY <1>12, <2>3, <2>4, <2>5
<1>16. y.active /\ y.name = k /\ Content(y) = Text(var_table[v].ival, st.text)
  <2>1. var_table[v] \in Variable
    BY <1>14 DEF AiraInv, TableInv
  <2> HIDE DEF v
  <2> QED BY <2>1 DEF Content, Variable
<1>17. Env[k].ival = var_table[v].ival
  <2>1. Env[k] = IF find_var(k) = -1 THEN Unset ELSE Content(var_table[find_var(k)])
    BY <1>2, EnvIs DEF ByName
  <2>2. CASE find_var(k) = -1
    <3>1. ~ var_table[v].active
      BY <1>14, <2>2, FreeVar
    <3> QED BY <1>14, <2>1, <2>2, <3>1 DEF Spare, Unset
  <2>3. CASE find_var(k) # -1
    BY <2>1, <2>3 DEF Content, Num, Text
  <2> QED BY <2>2, <2>3
<1>18. World' = [World EXCEPT !.env[k] = Content(y)]
  <2>1. TableInv /\ TableInv' /\ v = IF find_var(k) = -1 THEN FreeSlot ELSE find_var(k)
    BY DEF AiraInv
  <2> HIDE DEF v, y
  <2> QED BY <1>2, <1>14, <1>15, <1>16, <2>1, WorldSets
<1>19. Do(World, st) = [World EXCEPT !.env[k] = Text(World.env[k].ival, st.text)]
  <2>1. ~ World.fault
    BY DEF World
  <2> QED BY <2>1, DoSet DEF k
<1>20. World.env[k].ival = var_table[v].ival
  BY <1>17 DEF World
<1> HIDE DEF y, v
<1> QED BY <1>7, <1>9, <1>15, <1>16, <1>18, <1>19, <1>20 DEF Went

(* beep.                                                                   *)
Five(p, a, b, c, d, e) ==
  /\ Len(a \o b \o c \o d \o e) = Len(a) + Len(b) + Len(c) + Len(d) + Len(e)
  /\ Spells(p, a) /\ Spells(p + Len(a), b) /\ Spells(p + Len(a) + Len(b), c)
  /\ Spells(p + Len(a) + Len(b) + Len(c), d)
  /\ Spells(p + Len(a) + Len(b) + Len(c) + Len(d), e)
LEMMA SpellsFive ==
  ASSUME NEW a \in Seq(Words), NEW b \in Seq(Words), NEW c \in Seq(Words), NEW d \in Seq(Words), NEW e \in Seq(Words),
         NEW p \in Nat, Spells(p, a \o b \o c \o d \o e)
  PROVE  Five(p, a, b, c, d, e)
<1> HIDE DEF Words
<1> DEFINE x == a \o b \o c
<1>1. x \in Seq(Words) /\ Len(a) \in Nat /\ Len(b) \in Nat /\ Len(c) \in Nat
  <2> DEFINE y == a \o b
  <2>1. y \in Seq(Words) /\ x = y \o c /\ Len(a) \in Nat /\ Len(b) \in Nat
    BY Together
  <2> HIDE DEF y, x
  <2> QED BY <2>1, Together
<1>2. Spells(p, x \o d \o e) /\ (Spells(p, x) <=> Spells(p, a \o b \o c)) /\ Len(x \o d \o e) = Len(a \o b \o c \o d \o e)
      /\ Len(x) = Len(a \o b \o c)
  OBVIOUS
<1> HIDE DEF x
<1>3. /\ Len(x \o d \o e) = Len(x) + Len(d) + Len(e)
      /\ Spells(p, x) /\ Spells(p + Len(x), d) /\ Spells(p + Len(x) + Len(d), e)
  BY <1>1, <1>2, SpellsThree
<1>4. /\ Len(a \o b \o c) = Len(a) + Len(b) + Len(c)
      /\ Spells(p, a) /\ Spells(p + Len(a), b) /\ Spells(p + Len(a) + Len(b), c)
  BY <1>2, <1>3, SpellsThree
<1>5. p + Len(x) = p + Len(a) + Len(b) + Len(c)
  BY <1>1, <1>2, <1>4
<1> QED BY <1>2, <1>3, <1>4, <1>5 DEF Five

(* An argument is heard one way only, and not as "no duration".            *)
Heard(p, x, q) ==
  /\ At(p) # "close"
  /\ \A stops \in {FreqStops, TimeStops} :
       Arguments(p, stops) = {[value |-> x, next |-> q]} /\ ~ Overruns(p, stops)

LEMMA NumberHeard ==
  ASSUME NEW j, At(j) = "digit"
  PROVE  Heard(j, Number(j), NumberEnd(j))
BY DEF Heard, Arguments, Overruns

LEMMA NameHeard ==
  ASSUME AiraInv, NEW j \in Nat, j + 1 <= Edge, At(j) = "name", At(j + 1) = "close", ~ Cut(file_system_buffer[j].k)
  PROVE  Heard(j, Value(file_system_buffer[j].k), j + 1)
<1> SUFFICES ASSUME NEW stops \in {FreqStops, TimeStops}
             PROVE  Arguments(j, stops) = {[value |-> Value(file_system_buffer[j].k), next |-> j + 1]} /\ ~ Overruns(j, stops)
  BY DEF Heard
<1>1. stops \in Stops /\ "close" \in stops
  BY DEF FreqStops, TimeStops, Stops
<1>2. NameEnd(j, stops) = j + 1
  BY <1>1, NameAlone
<1>3. j + 1 # BufLen
  BY Bounds
<1>4. OneName(j, stops)
  BY <1>2 DEF OneName
<1>5. Values(j, stops) = {Value(file_system_buffer[j].k)}
  BY <1>2, <1>3, <1>4 DEF Values
<1>6. At(j) # "digit"
  OBVIOUS
<1> QED BY <1>2, <1>4, <1>5, <1>6 DEF Arguments, Overruns

LEMMA DigitsHeard ==
  ASSUME AiraInv, NEW n \in 0 .. 99, NEW p \in Nat, Spells(p, Digits(n)), p + Len(Digits(n)) < Edge,
         At(p + Len(Digits(n))) # "digit"
  PROVE  Heard(p, Wrap(n), p + Len(Digits(n)))
<1>1. 1 \in 1 .. Len(Digits(n)) /\ Digits(n)[1].t = "digit" /\ Len(Digits(n)) \in Nat /\ Edge \in Nat
  BY DigitsWords, Bounds
<1>2. At(p) = "digit"
  <2>1. p + 1 - 1 = p
    OBVIOUS
  <2> QED BY <1>1, <2>1 DEF Spells, At
<1>3. NumberEnd(p) = p + Len(Digits(n)) /\ Number(p) = Wrap(n)
  <2>1. \A h \in 1 .. Len(Digits(n)) : file_system_buffer[p + h - 1] = Digits(n)[h]
    BY DEF Spells
  <2>2. p \in 0 .. Edge /\ p + Len(Digits(n)) <= Edge
    BY <1>1
  <2> QED BY <2>1, <2>2, NumberRead
<1> QED BY <1>2, <1>3, NumberHeard

(* How long a beep plays, and the words that say so.                       *)
Lasts(st) == IF st.k = NoName THEN Wrap(st.n[2]) ELSE Env[st.k].ival
Lasting(st) == IF st.k = NoName THEN Digits(st.n[2]) ELSE <<Word("name", st.k)>>

LEMMA LastsHeard ==
  ASSUME AiraInv, NEW st \in Statements, st.t = "beep(", NEW p \in Nat, Spells(p, Lasting(st)), p + Len(Lasting(st)) < Edge,
         At(p + Len(Lasting(st))) = "close"
  PROVE  Heard(p, Lasts(st), p + Len(Lasting(st)))
<1>1. CASE st.k = NoName
  <2>1. Lasts(st) = Wrap(st.n[2]) /\ Lasting(st) = Digits(st.n[2]) /\ st.n[2] \in 0 .. 99
    BY <1>1, Parts DEF Lasts, Lasting
  <2> QED BY <2>1, DigitsHeard
<1>2. CASE st.k # NoName
  <2> DEFINE k == st.k
             w == Word("name", k)
  <2>1. k \in AllNames
    BY Parts
  <2>2. w \in Words /\ w.t = "name" /\ w.k = k
    BY <2>1, AreWords DEF Kinds
  <2>3. Lasts(st) = Env[k].ival /\ Lasting(st) = <<w>>
    BY <1>2 DEF Lasts, Lasting
  <2> HIDE DEF w, k
  <2>4. file_system_buffer[p] = w /\ Len(<<w>>) = 1
    <3>1. Spells(p, <<w>>)
      BY <2>3
    <3> QED BY <3>1, SpellsWords
  <2>5. At(p) = "name" /\ file_system_buffer[p].k = k
    BY <2>2, <2>4 DEF At
  <2>6. Env[k].ival = IF find_var(k) = -1 THEN 0 ELSE var_table[find_var(k)].ival
    <3>1. Env[k] = IF find_var(k) = -1 THEN Unset ELSE Content(var_table[find_var(k)])
      BY <2>1, EnvIs DEF ByName
    <3> QED BY <3>1 DEF Unset, Content, Num, Text
  <2>8. Len(Lasting(st)) = 1
    BY <2>3, <2>4
  <2>7. Heard(p, Value(k), p + 1)
    <3>1. p + 1 <= Edge /\ At(p + 1) = "close"
      BY <2>8, Bounds
    <3>2. ~ Cut(k)
      BY Parts DEF Cut, k
    <3> QED BY <2>5, <3>1, <3>2, NameHeard
  <2> QED BY <2>3, <2>6, <2>7, <2>8 DEF Value
<1> QED BY <1>1, <1>2

LEMMA LastingWords ==
  ASSUME NEW st \in Statements, st.t = "beep("
  PROVE  Lasting(st) \in Seq(Words) /\ Len(Lasting(st)) \in Nat \ {0} /\ Lasting(st)[1].t \in {"digit", "name"}
<1>1. CASE st.k = NoName
  <2>1. Lasting(st) = Digits(st.n[2]) /\ st.n[2] \in 0 .. 99
    BY <1>1, Parts DEF Lasting
  <2> HIDE DEF Words
  <2>2. Digits(st.n[2]) \in Seq(Words) /\ Len(Digits(st.n[2])) \in {1, 2} /\ Digits(st.n[2])[1].t = "digit"
    BY <2>1, DigitsWords
  <2> QED BY <2>1, <2>2
<1>2. CASE st.k # NoName
  <2> DEFINE w == Word("name", st.k)
  <2>1. w \in Words /\ w.t = "name"
    <3>1. st.k \in AllNames
      BY Parts
    <3> QED BY <3>1, AreWords DEF Kinds
  <2>2. Lasting(st) = <<w>>
    BY <1>2 DEF Lasting
  <2> HIDE DEF w, Words
  <2>3. <<w>> \in Seq(Words) /\ Len(<<w>>) = 1 /\ <<w>>[1] = w
    BY <2>1, ShortSeqs
  <2> QED BY <2>1, <2>2, <2>3
<1> QED BY <1>1, <1>2

LEMMA LastsInt ==
  ASSUME AiraInv, NEW st \in Statements, st.t = "beep("
  PROVE  Lasts(st) \in Int
<1>1. CASE st.k = NoName
  <2>1. st.n[2] \in 0 .. 99
    BY <1>1, Parts
  <2> QED BY <1>1, <2>1, WrapInt DEF Lasts
<1>2. CASE st.k # NoName
  <2> DEFINE k == st.k
  <2>1. k \in AllNames
    BY Parts
  <2> HIDE DEF k
  <2>2. Env[k] = IF find_var(k) = -1 THEN Unset ELSE Content(var_table[find_var(k)])
    BY <2>1, EnvIs DEF ByName
  <2>3. find_var(k) # -1 => var_table[find_var(k)].ival \in Int
    BY <2>1, InUse, Int32Int DEF Variable, AiraInv
  <2>4. Env[k].ival \in Int
    BY <2>2, <2>3 DEF Content, Num, Text, Unset
  <2> QED BY <1>2, <2>4 DEF Lasts, k
<1> QED BY <1>1, <1>2

LEMMA BeepPlaces ==
  ASSUME NEW p \in Nat, NEW L \in Nat, NEW M \in Nat, NEW m, m = 1 + L + 1 + M + 2, NEW z \in Nat, p + m <= z, NEW g \in Nat, z <= g
  PROVE  /\ p < z /\ p + 1 \in Nat /\ p + 1 + L \in Nat /\ p + 1 + L + 1 \in Nat /\ p + 1 + L + 1 + M \in Nat
         /\ p + 1 + L < g /\ p + 1 + L + 1 + M < g
         /\ p + m - 1 = p + 1 + L + 1 + M + 1
OBVIOUS

(* The words of a beep: its frequency at f, its duration at d, closed at e.*)
Beeped(st, f, d, e) ==
  /\ file_system_buffer[i] = Word("beep(", NoName) /\ f = i + 1
  /\ file_system_buffer[d - 1] = Word("comma", NoName) /\ d \in Nat /\ d - 1 \in 0 .. Edge
  /\ At(d) \in {"digit", "name"}
  /\ Heard(f, Wrap(st.n[1]), d - 1) /\ Heard(d, Lasts(st), e)
  /\ file_system_buffer[e] = Word("close", NoName) /\ file_system_buffer[e + 1] = Sep
  /\ e \in Nat /\ e + 1 = i + Len(Written(st)) - 1 /\ i < file_size

LEMMA BeepSpelled ==
  ASSUME AiraInv, NEW st \in Statements, st.t = "beep(", Spells(i, Written(st)), i + Len(Written(st)) <= file_size
  PROVE  \E f, d, e : Beeped(st, f, d, e)
<1> DEFINE a == Word("beep(", NoName)
           b == Digits(st.n[1])
           c == Word("comma", NoName)
           x == Lasting(st)
           z == Word("close", NoName)
           L == Len(b)
           M == Len(x)
<1>1. Written(st) = <<a>> \o b \o <<c>> \o x \o <<z, Sep>>
  BY WrittenIs DEF Lasting
<1>2. st.n[1] \in 0 .. 99 /\ b \in Seq(Words) /\ x \in Seq(Words) /\ L \in Nat /\ M \in Nat
  <2>1. st.n[1] \in 0 .. 99
    BY Parts
  <2> HIDE DEF Words
  <2>2. Digits(st.n[1]) \in Seq(Words) /\ Len(Digits(st.n[1])) \in Nat
    BY <2>1, DigitsWords
  <2>3. x \in Seq(Words) /\ M \in Nat
    BY LastingWords
  <2> QED BY <2>1, <2>2, <2>3
<1>3. a \in Words /\ c \in Words /\ z \in Words /\ Sep \in Words /\ c.t = "comma" /\ z.t = "close"
  BY QuoteWords, AreWords
<1> HIDE DEF a, b, c, x, z, Words
<1>4. <<a>> \in Seq(Words) /\ Len(<<a>>) = 1 /\ <<c>> \in Seq(Words) /\ Len(<<c>>) = 1
      /\ <<z, Sep>> \in Seq(Words) /\ Len(<<z, Sep>>) = 2
  BY <1>3, ShortSeqs
<1>5. i \in Nat /\ file_size \in Nat /\ file_size <= Edge /\ Edge \in Nat
  BY AtPlace
<1>6. /\ Len(Written(st)) = 1 + L + 1 + M + 2
      /\ Spells(i, <<a>>) /\ Spells(i + 1, b) /\ Spells(i + 1 + L, <<c>>) /\ Spells(i + 1 + L + 1, x)
      /\ Spells(i + 1 + L + 1 + M, <<z, Sep>>)
  <2> DEFINE u == <<a>>
             v == <<c>>
             w == <<z, Sep>>
  <2>1. /\ u \in Seq(Words) /\ b \in Seq(Words) /\ v \in Seq(Words) /\ x \in Seq(Words) /\ w \in Seq(Words)
        /\ Spells(i, u \o b \o v \o x \o w) /\ Len(Written(st)) = Len(u \o b \o v \o x \o w)
        /\ Len(u) = 1 /\ Len(v) = 1 /\ Len(w) = 2
    BY <1>1, <1>2, <1>4
  <2> HIDE DEF u, v, w
  <2>2. Five(i, u, b, v, x, w)
    BY <1>5, <2>1, SpellsFive
  <2>3. /\ Len(u \o b \o v \o x \o w) = Len(u) + Len(b) + Len(v) + Len(x) + Len(w)
        /\ Spells(i, u) /\ Spells(i + Len(u), b) /\ Spells(i + Len(u) + Len(b), v)
        /\ Spells(i + Len(u) + Len(b) + Len(v), x)
        /\ Spells(i + Len(u) + Len(b) + Len(v) + Len(x), w)
    BY <2>2 DEF Five
  <2> QED BY <2>1, <2>3 DEF u, v, w
<1> HIDE DEF L, M
<1> DEFINE d == i + 1 + L + 1
           e == i + 1 + L + 1 + M
<1>7. /\ i < file_size /\ i + 1 \in Nat /\ i + 1 + L \in Nat /\ d \in Nat /\ e \in Nat
      /\ i + 1 + L < Edge /\ e < Edge /\ i + Len(Written(st)) - 1 = e + 1 /\ d - 1 = i + 1 + L
  <2>1. i + Len(Written(st)) <= file_size
    OBVIOUS
  <2>2. /\ i < file_size /\ i + 1 \in Nat /\ i + 1 + L \in Nat /\ d \in Nat /\ e \in Nat
        /\ i + 1 + L < Edge /\ e < Edge /\ i + Len(Written(st)) - 1 = e + 1
    BY ONLY <1>2, <1>5, <1>6, <2>1, BeepPlaces
  <2>3. d - 1 = i + 1 + L
    BY <1>2, <1>5
  <2> QED BY <2>2, <2>3
<1>8. /\ file_system_buffer[i] = a /\ file_system_buffer[i + 1 + L] = c
      /\ file_system_buffer[e] = z /\ file_system_buffer[e + 1] = Sep
  <2>1. Spells(i + 1 + L, <<c>>) /\ Spells(e, <<z, Sep>>) /\ Spells(i, <<a>>)
    BY <1>6
  <2> DEFINE h == i + 1 + L
  <2> HIDE DEF e, h
  <2>2. file_system_buffer[h] = c
    BY <1>7, <2>1, SpellsWords DEF h
  <2>3. file_system_buffer[e] = z /\ file_system_buffer[e + 1] = Sep
    BY <1>7, <2>1, SpellsWords
  <2>4. file_system_buffer[i] = a
    BY <1>5, <2>1, SpellsWords
  <2> QED BY <2>2, <2>3, <2>4 DEF h
<1>9. Heard(i + 1, Wrap(st.n[1]), d - 1)
  <2> DEFINE p == i + 1
             n == st.n[1]
  <2>1. At(p + L) # "digit"
    BY <1>3, <1>8 DEF At
  <2>2. p \in Nat /\ n \in 0 .. 99 /\ Spells(p, Digits(n)) /\ p + Len(Digits(n)) < Edge /\ At(p + Len(Digits(n))) # "digit"
    BY <1>2, <1>6, <1>7, <2>1 DEF b, L
  <2>3. d - 1 = p + Len(Digits(n))
    BY <1>7 DEF b, L
  <2> HIDE DEF p, n, d
  <2>4. Heard(p, Wrap(n), p + Len(Digits(n)))
    BY <2>2, DigitsHeard
  <2>5. Heard(p, Wrap(n), d - 1)
    BY <2>3, <2>4
  <2> QED BY <2>5 DEF p, n
<1>10. Heard(d, Lasts(st), e)
  <2>1. At(e) = "close"
    BY <1>3, <1>8 DEF At
  <2>2. Spells(d, Lasting(st)) /\ e = d + Len(Lasting(st))
    BY <1>6 DEF x, M
  <2> HIDE DEF d, e
  <2> QED BY <1>7, <2>1, <2>2, LastsHeard
<1>11. Beeped(st, i + 1, d, e)
  <2> HIDE DEF d, e
  <2>1. e + 1 = i + Len(Written(st)) - 1 /\ file_system_buffer[d - 1] = c
    BY <1>7, <1>8
  <2>2. d - 1 \in 0 .. Edge
    BY <1>7, Bounds
  <2>3. At(d) \in {"digit", "name"}
    <3>1. x[1].t \in {"digit", "name"} /\ 1 \in 1 .. Len(x)
      BY LastingWords DEF x
    <3>2. file_system_buffer[d + 1 - 1] = x[1]
      BY <1>6, <3>1 DEF Spells, d, L
    <3>3. d + 1 - 1 = d
      BY <1>7
    <3> QED BY <3>1, <3>2, <3>3 DEF At
  <2> QED BY <1>7, <1>8, <1>9, <1>10, <2>1, <2>2, <2>3 DEF Beeped, a, c, z
<1> QED BY <1>11

LEMMA ToneShown ==
  ASSUME UNCHANGED var_table, NEW x, NEW d \in Int, NEW D,
         D = [env |-> World.env, screen |-> Append(World.screen, x), fault |-> d <= 0], screen' = Append(screen, x)
  PROVE  /\ d <= 0 => D.fault = TRUE
         /\ ~ (d <= 0) => World' = D
         /\ screen' = D.screen
<1>1. Env' = Env
  BY DEF Env, find_var
<1>2. World.env = Env /\ World.screen = screen
  BY DEF World
<1>3. D = [env |-> Env, screen |-> Append(screen, x), fault |-> d <= 0]
  BY <1>2
<1>4. World' = [env |-> Env, screen |-> Append(screen, x), fault |-> FALSE]
  BY <1>1 DEF World
<1>5. D.screen = screen'
  <2>1. PICK all : all = Append(screen, x)
    OBVIOUS
  <2>2. PICK b : b = (d <= 0)
    OBVIOUS
  <2>3. D = [env |-> Env, screen |-> all, fault |-> b]
    BY <1>3, <2>1, <2>2, Zenon
  <2> QED BY ONLY <2>1, <2>3, screen' = Append(screen, x)
<1>6. d <= 0 => D.fault = TRUE
  <2>1. ASSUME d <= 0 PROVE (d <= 0) = TRUE
    BY <2>1
  <2>2. ASSUME d <= 0 PROVE D = [env |-> Env, screen |-> Append(screen, x), fault |-> TRUE]
    BY <1>3, <2>1, <2>2, Zenon
  <2> QED BY <2>2
<1>7. ~ (d <= 0) => World' = D
  <2>1. ASSUME ~ (d <= 0) PROVE (d <= 0) = FALSE
    BY <2>1
  <2>2. ASSUME ~ (d <= 0) PROVE D = [env |-> Env, screen |-> Append(screen, x), fault |-> FALSE]
    BY <1>3, <2>1, <2>2, Zenon
  <2> QED BY <1>4, <2>2, Zenon
<1> QED BY <1>5, <1>6, <1>7

(* The one comma between the arguments is passed over.                     *)
LEMMA OneComma ==
  ASSUME AiraInv, NEW st \in Statements, NEW f, NEW d, NEW e, Beeped(st, f, d, e)
  PROVE  AfterCommas(d - 1) = d
<1>1. At(d - 1) = "comma" /\ d \in Nat
  BY QuoteWords DEF Beeped, At
<1>2. At(d) \in {"digit", "name"} /\ d - 1 \in 0 .. Edge
  BY DEF Beeped
<1> DEFINE q == AfterCommas(d - 1)
<1>3. q \in d - 1 .. Edge /\ At(q) \notin {"comma", "space"} /\ \A h \in d - 1 .. q - 1 : At(h) \in {"comma", "space"}
  BY <1>2, CommasEnd
<1> HIDE DEF q
<1>4. q # d - 1
  BY <1>1, <1>3
<1>5. ~ (q > d)
  <2>1. q > d => d \in d - 1 .. q - 1
    BY <1>1, <1>3
  <2> QED BY <1>2, <1>3, <2>1
<1> QED BY <1>1, <1>3, <1>4, <1>5, Bounds DEF q

LEMMA GoesBeep ==
  ASSUME AiraInv, NEW st \in Statements, st.t = "beep(", Spells(i, Written(st)), i + Len(Written(st)) <= file_size,
         status = "running", run_interper
  PROVE  Went(st)
<1> DEFINE n == Wrap(st.n[1])
           D == Do(World, st)
<1>1. PICK f, d, e : Beeped(st, f, d, e)
  BY BeepSpelled
<1>2. At(i) = "beep(" /\ At(d - 1) = "comma" /\ At(e) = "close"
  BY <1>1, QuoteWords DEF Beeped, At
<1>4. AfterCommas(d - 1) = d /\ AfterClose(e) = e + 1
  <2>1. AfterClose(e) = e + 1
    BY <1>2 DEF AfterClose
  <2> QED BY <1>1, <2>1, OneComma
<1>5. /\ Arguments(i + 1, FreqStops) = {[value |-> n, next |-> d - 1]} /\ ~ Overruns(i + 1, FreqStops)
      /\ Durations(d) = {[value |-> Lasts(st), next |-> e]}
      /\ ~ (At(d) # "close" /\ Overruns(d, TimeStops))
  BY <1>1 DEF Beeped, Heard, Durations
<1>3. Beep
  <2>1. i \in Nat /\ file_size \in Nat /\ i < file_size
    BY <1>1, AtPlace DEF Beeped
  <2>2. ~ BeepOverrun
    <3> HIDE DEF n
    <3>1. \A freq \in Arguments(i + 1, FreqStops) : AfterCommas(freq.next) = d
      BY <1>4, <1>5
    <3> QED BY <1>5, <3>1 DEF BeepOverrun
  <2> QED BY <1>2, <2>1, <2>2, Which
<1> HIDE DEF n, D
<1> DEFINE dur == Lasts(st)
           x == Shown("tone", <<>>, n, dur)
<1>6. /\ i' = e + 1
      /\ screen' = IF n = 0 THEN screen ELSE Append(screen, x)
      /\ status' = IF n = 0 \/ dur <= 0 THEN "fault" ELSE status
      /\ UNCHANGED <<Loaded, var_table, Looping>>
  <2> HIDE DEF dur
  <2>1. \A freq \in Arguments(i + 1, FreqStops) : freq.value = n /\ AfterCommas(freq.next) = d
    BY <1>4, <1>5
  <2>2. \A duration \in Durations(d) : duration.value = dur /\ AfterClose(duration.next) = e + 1
    BY <1>4, <1>5 DEF dur
  <2> QED BY <1>3, <2>1, <2>2 DEF Beep, PlaysZero
<1>7. D = IF n = 0 THEN [World EXCEPT !.fault = TRUE]
          ELSE [env |-> World.env, screen |-> Append(World.screen, x), fault |-> dur <= 0]
  <2>1. ~ World.fault /\ dur = IF st.k = NoName THEN Wrap(st.n[2]) ELSE World.env[st.k].ival
    BY DEF World, Lasts
  <2>2. Len(st.n) > 0
    BY Parts
  <2>3. /\ st.t = "beep("
        /\ n = Wrap(st.n[1])
    BY DEF n
  <2> HIDE DEF dur
  <2>4. Do(World, st) = IF n = 0 THEN [World EXCEPT !.fault = TRUE]
                        ELSE [env |-> World.env, screen |-> Append(World.screen, Shown("tone", <<>>, n, dur)), fault |-> dur <= 0]
    BY ONLY <2>1, <2>2, <2>3, DoBeep
  <2> QED BY <2>4, Zenon DEF D
<1>8. /\ UNCHANGED <<Loaded, Looping>>
      /\ file_system_buffer[i + Len(Written(st)) - 1] = Sep /\ i' = i + Len(Written(st)) - 1
  BY <1>1, <1>6 DEF Beeped
<1>11. dur \in Int
  BY LastsInt
<1> HIDE DEF dur
<1>9. CASE n = 0
  <2>1. status' = "fault" /\ screen' = screen
    BY <1>6, <1>9
  <2>2. D.fault = TRUE /\ D.screen = screen
    <3>1. D = [World EXCEPT !.fault = TRUE]
      BY <1>7, <1>9
    <3> QED BY <3>1 DEF World
  <2> QED BY <1>8, <2>1, <2>2 DEF Went, D
<1>10. CASE n # 0
  <2>1. D = [env |-> World.env, screen |-> Append(World.screen, x), fault |-> dur <= 0] /\ screen' = Append(screen, x)
    BY <1>6, <1>7, <1>10
  <2> HIDE DEF x
  <2>2. (dur <= 0 => D.fault = TRUE) /\ (~ (dur <= 0) => World' = D) /\ screen' = D.screen
    BY <1>6, <2>1, <1>11, ToneShown
  <2>3. CASE dur <= 0
    BY <1>6, <1>8, <2>2, <2>3 DEF Went, D
  <2>4. CASE ~ (dur <= 0)
    BY <1>6, <1>8, <1>10, <2>2, <2>4 DEF Went, D
  <2> QED BY <2>3, <2>4
<1> QED BY <1>9, <1>10

(* No step takes a name away, and the one it may add is one that the       *)
(* program sets.                                                           *)
DefinedBySlot == Defined = {n \in AllNames : \E s \in VarIds : var_table[s].active /\ var_table[s].name = n}
LEMMA DefinedSlots == DefinedBySlot
<1>1. ASSUME NEW n \in AllNames
      PROVE  find_var(n) # -1 <=> \E s \in VarIds : var_table[s].active /\ var_table[s].name = n
  <2>1. Finds(n)
    BY FindsName DEF FindsAll
  <2>2. -1 \notin VarIds
    BY NoSlot
  <2> QED BY <2>1, <2>2 DEF Finds
<1> QED BY <1>1 DEF DefinedBySlot, Defined, AllNames

LEMMA WordOfFile ==
  ASSUME NEW p \in Seq(Words), Spells(0, p), Len(p) = file_size, i \in Nat, i < file_size
  PROVE  i + 1 \in 1 .. Len(p) /\ p[i + 1] = file_system_buffer[i]
<1>1. Len(p) \in Nat
  BY LenProperties
<1>2. i + 1 \in 1 .. Len(p) /\ 0 + (i + 1) - 1 = i
  BY <1>1
<1> QED BY <1>2 DEF Spells

LEMMA NamesKept ==
  ASSUME AiraInv, Spare, run_interper, NEW p \in Seq(Words), Spells(0, p), Len(p) = file_size
  PROVE  Spare' /\ (Defined \cup Sets(p))' = Defined \cup Sets(p)
<1>1. DefinedBySlot /\ DefinedBySlot'
  BY DefinedSlots, PTL
<1>2. CASE UNCHANGED var_table
  BY <1>2, <1>1 DEF Spare, DefinedBySlot
<1>3. CASE Set /\ ~ UNCHANGED var_table
  <2> DEFINE name == file_system_buffer[i].k
             k == Key(name)
             v == IF find_var(k) = -1 THEN FreeSlot ELSE find_var(k)
             z == var_table'[v]
  <2>1. i \in Nat /\ i < file_size /\ file_system_buffer[i].t = "set" /\ v # -1 /\ k \in AllNames
    <3>1. i < file_size /\ At(i) = "set"
      BY <1>3 DEF Set, Reading
    <3>2. i \in Nat /\ name \in AllNames
      BY <3>1, Place DEF AllNames
    <3>3. v # -1
      BY <1>3 DEF Set
    <3> QED BY <3>1, <3>2, <3>3, KeyOfName DEF At, AllNames
  <2>2. k \in Sets(p)
    <3>1. i + 1 \in 1 .. Len(p) /\ p[i + 1] = file_system_buffer[i]
      BY <2>1, WordOfFile
    <3> QED BY <2>1, <3>1 DEF Sets
  <2>3. PICK y : var_table' = [var_table EXCEPT ![v] = y] /\ y.active /\ y.name = k
    <3> DEFINE quoted == At(i + 1) = "quote" /\ ~Cut(name)
               y == IF quoted
                    THEN [var_table[v] EXCEPT !.active = TRUE, !.name = k, !.type = "string",
                            !.sval = [n \in 1 .. TextEnd(i + 2) - i - 2 |-> file_system_buffer[i + 1 + n]]]
                    ELSE [var_table[v] EXCEPT !.active = TRUE, !.name = k, !.type = "int",
                            !.ival = IF Cut(name) THEN 0 ELSE Number(i + 1)]
    <3>1. var_table' = [var_table EXCEPT ![v] = y]
      BY <1>3, <2>1 DEF Set
    <3>2. v \in VarIds
      BY <2>1, FindVar, FreeVar
    <3>3. var_table[v] \in Variable
      BY <3>2 DEF AiraInv, TableInv
    <3>4. y.active /\ y.name = k
      <4> HIDE DEF quoted, v, k
      <4> QED BY <3>3 DEF Variable
    <3> QED BY <3>1, <3>4
  <2>4. v \in VarIds /\ (var_table[v].active => var_table[v].name = k)
    BY <2>1, FindVar, FreeVar
  <2> HIDE DEF v, k
  <2>5. /\ \A s \in VarIds : s # v => var_table'[s] = var_table[s]
        /\ var_table'[v].active /\ var_table'[v].name = k
    BY <2>3, <2>4 DEF AiraInv, TableInv
  <2>6. Spare'
    BY <2>5 DEF Spare
  <2>7. Defined' \subseteq Defined \cup {k}
    BY <1>1, <2>5 DEF DefinedBySlot
  <2>8. Defined \subseteq Defined'
    BY <1>1, <2>4, <2>5 DEF DefinedBySlot
  <2> QED BY <2>2, <2>6, <2>7, <2>8
<1>4. ASSUME NEW op \in {"add", "sub", "mul", "div"}, process_math(op), ~ UNCHANGED var_table
      PROVE  Spare' /\ Defined' = Defined
  <2> DEFINE v == find_var(Key(file_system_buffer[i].k))
             c == Result(op, var_table[v].ival, IF Cut(file_system_buffer[i].k) THEN 0 ELSE Number(i + 1))
  <2>1. v # -1 /\ var_table' = [var_table EXCEPT ![v].ival = c]
    BY <1>4 DEF process_math
  <2>2. v \in VarIds /\ var_table[v].active
    BY <2>1, FindVar
  <2> HIDE DEF v, c
  <2>3. /\ \A s \in VarIds : s # v => var_table'[s] = var_table[s]
        /\ var_table'[v] = [var_table[v] EXCEPT !.ival = c]
    BY <2>1, <2>2 DEF AiraInv, TableInv
  <2>4. var_table'[v].active = var_table[v].active /\ var_table'[v].name = var_table[v].name
    <3>1. var_table[v] \in Variable
      BY <2>2 DEF AiraInv, TableInv
    <3> QED BY ONLY <2>3, <3>1 DEF Variable
  <2>5. Spare'
    BY <2>2, <2>3, <2>4 DEF Spare
  <2> QED BY <1>1, <2>3, <2>4, <2>5 DEF DefinedBySlot
<1>5. UNCHANGED var_table \/ Set \/ \E op \in {"add", "sub", "mul", "div"} : process_math(op)
  BY DEF run_interper, PrintText, PrintVar, Beep, BeepOverrun, Loop, EndLoop, Skip, Return
<1> QED BY <1>2, <1>3, <1>4, <1>5 DEF Sets

LEMMA SetTextBegins ==
  ASSUME AiraInv, NEW st \in Statements, st.t = "setstr", Spells(i, Written(st)), i + Len(Written(st)) <= file_size
  PROVE  i < file_size /\ file_system_buffer[i].t = "set" /\ file_system_buffer[i].k = st.k
<1> DEFINE a == Word("set", st.k)
           q == Word("quote", NoName)
<1>1. Written(st) = <<a, q>> \o st.text \o <<q, Sep>>
  BY WrittenIs
<1>2. st.text \in Seq(Words) /\ a \in Words /\ a.t = "set" /\ a.k = st.k /\ q \in Words /\ Sep \in Words
  <2>1. st.text \in Seq(Unquoted) /\ st.k \in AllNames
    BY Parts
  <2> QED BY <2>1, TextWords, QuoteWords, AreWords DEF Kinds
<1>3. i \in Nat /\ file_size \in Nat
  BY AtPlace
<1> HIDE DEF a, q, Words
<1> DEFINE u == <<a, q>>
           x == st.text
           z == <<q, Sep>>
<1>4. /\ u \in Seq(Words) /\ x \in Seq(Words) /\ z \in Seq(Words) /\ Spells(i, u \o x \o z) /\ Len(Written(st)) = Len(u \o x \o z)
      /\ Len(u) = 2 /\ Len(z) = 2 /\ Len(x) \in Nat
  BY <1>1, <1>2, ShortSeqs, LenProperties
<1> HIDE DEF u, x, z
<1>5. Len(u \o x \o z) = Len(u) + Len(x) + Len(z) /\ Spells(i, u)
  BY <1>3, <1>4, SpellsThree
<1>6. i < file_size
  BY <1>3, <1>4, <1>5
<1>7. file_system_buffer[i] = a
  <2>1. Spells(i, <<a, q>>)
    BY <1>5 DEF u
  <2> QED BY <1>3, <2>1, SpellsWords
<1> QED BY <1>2, <1>6, <1>7

LEMMA Statement ==
  ASSUME AiraInv, AiraInv', Spare, status = "running", run_interper,
         NEW p \in Seq(Words), Spells(0, p), Len(p) = file_size, SlotsSuffice(p),
         NEW st \in Statements, Spells(i, Written(st)), i + Len(Written(st)) <= file_size
  PROVE  Went(st)
<1>1. st.t \in {"print(", "print\"", "set", "setstr", "add", "sub", "mul", "div", "beep("}
  BY Parts
<1>2. st.t \in {"set", "setstr"} /\ find_var(st.k) = -1 => FreeSlot \in VarIds
  <2> SUFFICES ASSUME st.t \in {"set", "setstr"}, find_var(st.k) = -1
               PROVE  FreeSlot \in VarIds
    OBVIOUS
  <2>1. i < file_size /\ file_system_buffer[i].t = "set" /\ file_system_buffer[i].k = st.k
    <3>1. CASE st.t = "set"
      BY <3>1, MathSpelled DEF At
    <3>2. CASE st.t = "setstr"
      BY <3>2, SetTextBegins
    <3> QED BY <3>1, <3>2
  <2>2. i + 1 \in 1 .. Len(p) /\ p[i + 1] = file_system_buffer[i]
    BY <2>1, AtPlace, WordOfFile
  <2>3. Key(st.k) = st.k
    BY Parts
  <2>4. st.k \in Sets(p)
    BY <2>1, <2>2, <2>3 DEF Sets
  <2> QED BY <2>4, RoomLeft DEF AiraInv
<1> QED BY <1>1, <1>2, GoesPrintVar, GoesPrintText, GoesSet, GoesSetText, GoesMath, GoesBeep

-----------------------------------------------------------------------------
(* A source as a file and as the statements it runs.                       *)
Turn(b) == IF b.times = 0 THEN 1 ELSE b.times
Piece(b) ==
  IF b.times = 0 THEN Body(b)
  ELSE <<Word("loop", NoName)>> \o Digits(b.times) \o <<Sep>> \o Body(b) \o <<Word("endloop", NoName), Sep>>
Pieces(src) == [n \in 1 .. Len(src) |-> Piece(src[n])]
Lines(b) == [n \in 1 .. Len(b.body) |-> Written(b.body[n])]
Repeats(b) == [turn \in 1 .. Turn(b) |-> b.body]
Rounded(src) == [n \in 1 .. Len(src) |-> FlattenSeq(Repeats(src[n]))]
Off(S) == CHOOSE o : Layout(S, FlattenSeq(S), o)

LEMMA OffIs ==
  ASSUME NEW T, NEW S \in Seq(Seq(T))
  PROVE  FlattenSeq(S) \in Seq(T) /\ Layout(S, FlattenSeq(S), Off(S))
<1>1. FlattenSeq(S) \in Seq(T) /\ \E o : Layout(S, FlattenSeq(S), o)
  BY FlattenLayout
<1> QED BY <1>1 DEF Off

LEMMA SourceParts ==
  ASSUME NEW src
  PROVE  /\ File(src) = FlattenSeq(Pieces(src))
         /\ Unrolled(src) = FlattenSeq(Rounded(src))
         /\ \A b : Body(b) = FlattenSeq(Lines(b))
<1>1. File(src) = FlattenSeq(Pieces(src))
  BY DEF File, Pieces, Piece
<1>2. Unrolled(src) = FlattenSeq(Rounded(src))
  BY DEF Unrolled, Rounded, Repeats, Turn
<1> QED BY <1>1, <1>2 DEF Body, Lines

LEMMA BlockParts ==
  ASSUME NEW b \in Blocks
  PROVE  /\ b.times \in 0 .. 99 /\ b.times < Half /\ b.body \in Seq(Statements)
         /\ b.times = 0 => b.body # <<>> /\ Len(b.body) > 0
         /\ Turn(b) \in Nat /\ Turn(b) >= 1 /\ Len(b.body) \in Nat
<1>1. b.times \in 0 .. 99 /\ b.times < Half /\ b.body \in Seq(Statements) /\ (b.times = 0 => b.body # <<>>)
  BY DEF Blocks
<1> HIDE DEF Statements
<1>2. Len(b.body) \in Nat /\ (b.body # <<>> => Len(b.body) > 0)
  BY <1>1, EmptySeq, LenProperties
<1>3. Turn(b) \in Nat /\ Turn(b) >= 1
  <2>1. b.times \in 0 .. 99
    BY <1>1
  <2> QED BY ONLY <2>1 DEF Turn
<1> QED BY <1>1, <1>2, <1>3

LEMMA ThreeWords ==
  ASSUME NEW a \in Seq(Words), NEW b \in Seq(Words), NEW c \in Seq(Words)
  PROVE  a \o b \o c \in Seq(Words) /\ Len(a \o b \o c) = Len(a) + Len(b) + Len(c)
<1> HIDE DEF Words
<1> DEFINE d == a \o b
<1>1. d \in Seq(Words) /\ Len(d) = Len(a) + Len(b)
  BY Together
<1> HIDE DEF d
<1>2. d \o c \in Seq(Words) /\ Len(d \o c) = Len(d) + Len(c)
  BY <1>1, Together
<1> QED BY <1>1, <1>2 DEF d

LEMMA FiveWords ==
  ASSUME NEW a \in Seq(Words), NEW b \in Seq(Words), NEW c \in Seq(Words), NEW d \in Seq(Words), NEW e \in Seq(Words)
  PROVE  a \o b \o c \o d \o e \in Seq(Words)
<1> HIDE DEF Words
<1> DEFINE x == a \o b \o c
<1>1. x \in Seq(Words)
  BY ThreeWords
<1> HIDE DEF x
<1>2. x \o d \o e \in Seq(Words)
  BY <1>1, ThreeWords
<1> QED BY <1>2 DEF x

FiveLong(a, b, c, d, e) == Len(a \o b \o c \o d \o e) = Len(a) + Len(b) + Len(c) + Len(d) + Len(e)
LEMMA FiveLen ==
  ASSUME NEW a \in Seq(Words), NEW b \in Seq(Words), NEW c \in Seq(Words), NEW d \in Seq(Words), NEW e \in Seq(Words)
  PROVE  FiveLong(a, b, c, d, e)
<1> HIDE DEF Words
<1> DEFINE x == a \o b \o c
<1>1. x \in Seq(Words) /\ Len(x) = Len(a) + Len(b) + Len(c)
  BY ThreeWords
<1> HIDE DEF x
<1>2. Len(x \o d \o e) = Len(x) + Len(d) + Len(e)
  BY <1>1, ThreeWords
<1> QED BY <1>1, <1>2 DEF x, FiveLong

LEMMA WrittenWords ==
  ASSUME NEW st \in Statements
  PROVE  Written(st) \in Seq(Words) /\ Len(Written(st)) >= 1
<1> DEFINE k == st.k
           q == Word("quote", NoName)
           c == Word("close", NoName)
           m == Word("comma", NoName)
<1>1. st.t \in {"print(", "print\"", "set", "setstr", "add", "sub", "mul", "div", "beep("} /\ k \in AllNames
  BY Parts
<1>2. q \in Words /\ c \in Words /\ m \in Words /\ Sep \in Words
  BY QuoteWords, AreWords
<1> HIDE DEF k, q, c, m, Words
<1>3. CASE st.t = "print("
  <2> DEFINE a == Word("print(", k)
  <2>1. a \in Words
    BY <1>1, AreWords DEF Kinds
  <2>2. Written(st) = <<a, c, Sep>>
    BY <1>3, WrittenIs DEF k, c
  <2> HIDE DEF a
  <2> QED BY <1>2, <2>1, <2>2, ShortSeqs
<1>4. CASE st.t = "print\""
  <2> DEFINE a == Word("print\"", NoName)
             x == <<a>>
             y == st.text
             z == <<q, c, Sep>>
  <2>1. a \in Words
    BY QuoteWords
  <2>2. Written(st) = x \o y \o z
    BY <1>4, WrittenIs DEF q, c
  <2>3. y \in Seq(Words) /\ Len(y) \in Nat
    BY <1>4, Parts, TextWords
  <2> HIDE DEF a
  <2>4. x \in Seq(Words) /\ Len(x) \in Nat /\ Len(x) >= 1 /\ z \in Seq(Words) /\ Len(z) \in Nat
    BY <1>2, <2>1, ShortSeqs
  <2> HIDE DEF x, y, z
  <2>6. x \o y \o z \in Seq(Words) /\ Len(x \o y \o z) = Len(x) + Len(y) + Len(z)
    BY <2>3, <2>4, ThreeWords
  <2> QED BY <2>2, <2>3, <2>4, <2>6
<1>5. CASE st.t = "setstr"
  <2> DEFINE a == Word("set", k)
             x == <<a, q>>
             y == st.text
             z == <<q, Sep>>
  <2>1. a \in Words
    BY <1>1, AreWords DEF Kinds
  <2>2. Written(st) = x \o y \o z
    BY <1>5, WrittenIs DEF q, k
  <2>3. y \in Seq(Words) /\ Len(y) \in Nat
    BY <1>5, Parts, TextWords
  <2> HIDE DEF a
  <2>4. x \in Seq(Words) /\ Len(x) \in Nat /\ Len(x) >= 1 /\ z \in Seq(Words) /\ Len(z) \in Nat
    BY <1>2, <2>1, ShortSeqs
  <2> HIDE DEF x, y, z
  <2>6. x \o y \o z \in Seq(Words) /\ Len(x \o y \o z) = Len(x) + Len(y) + Len(z)
    BY <2>3, <2>4, ThreeWords
  <2> QED BY <2>2, <2>3, <2>4, <2>6
<1>6. CASE st.t \in {"set", "add", "sub", "mul", "div"}
  <2> DEFINE a == Word(st.t, k)
             x == <<a>>
             y == Digits(st.n[1])
             z == <<Sep>>
  <2>1. a \in Words
    BY <1>1, <1>6, AreWords DEF Kinds
  <2>2. Written(st) = x \o y \o z
    BY <1>6, WrittenIs DEF k
  <2>3. y \in Seq(Words) /\ Len(y) \in Nat
    BY <1>6, Parts, DigitsWords
  <2> HIDE DEF a
  <2>4. x \in Seq(Words) /\ Len(x) \in Nat /\ Len(x) >= 1 /\ z \in Seq(Words) /\ Len(z) \in Nat
    BY <1>2, <2>1, ShortSeqs
  <2> HIDE DEF x, y, z
  <2>6. x \o y \o z \in Seq(Words) /\ Len(x \o y \o z) = Len(x) + Len(y) + Len(z)
    BY <2>3, <2>4, ThreeWords
  <2> QED BY <2>2, <2>3, <2>4, <2>6
<1>7. CASE st.t = "beep("
  <2> DEFINE a == Word("beep(", NoName)
             u == <<a>>
             v == Digits(st.n[1])
             x == <<m>>
             y == Lasting(st)
             z == <<c, Sep>>
  <2>1. a \in Words
    BY QuoteWords
  <2>2. Written(st) = u \o v \o x \o y \o z
    BY <1>7, WrittenIs DEF c, m, Lasting
  <2>3. v \in Seq(Words) /\ Len(v) \in Nat
    BY <1>7, Parts, DigitsWords
  <2>4. y \in Seq(Words) /\ Len(y) \in Nat
    BY <1>7, LastingWords
  <2> HIDE DEF a
  <2>5. u \in Seq(Words) /\ x \in Seq(Words) /\ Len(x) \in Nat /\ Len(x) >= 1 /\ z \in Seq(Words) /\ Len(z) \in Nat
    BY <1>2, <2>1, ShortSeqs
  <2> HIDE DEF u, v, x, y, z
  <2>6. u \o v \o x \o y \o z \in Seq(Words) /\ FiveLong(u, v, x, y, z)
    BY <2>3, <2>4, <2>5, FiveWords, FiveLen
  <2> QED BY <2>2, <2>3, <2>4, <2>5, <2>6 DEF FiveLong
<1> QED BY <1>1, <1>3, <1>4, <1>5, <1>6, <1>7

LEMMA AreSeq ==
  ASSUME NEW T, NEW n \in Nat
  PROVE  \A f \in [1 .. n -> T] : f \in Seq(T) /\ Len(f) = n
OBVIOUS

LEMMA BlockWords ==
  ASSUME NEW b \in Blocks
  PROVE  /\ Lines(b) \in Seq(Seq(Words)) /\ Len(Lines(b)) = Len(b.body)
         /\ \A m \in 1 .. Len(b.body) : b.body[m] \in Statements /\ Lines(b)[m] = Written(b.body[m])
         /\ Body(b) \in Seq(Words) /\ Piece(b) \in Seq(Words)
<1> HIDE DEF Statements, Words, Blocks
<1>1. b.body \in Seq(Statements) /\ b.times \in 0 .. 99
  BY BlockParts
<1>2. \A m \in 1 .. Len(b.body) : b.body[m] \in Statements /\ Written(b.body[m]) \in Seq(Words)
  BY <1>1, ElementOfSeq, WrittenWords
<1>3. Lines(b) \in Seq(Seq(Words)) /\ Len(Lines(b)) = Len(b.body)
  <2>1. Len(b.body) \in Nat /\ Lines(b) \in [1 .. Len(b.body) -> Seq(Words)]
    BY <1>1, <1>2, LenProperties DEF Lines
  <2> QED BY <2>1, AreSeq
<1>4. Body(b) \in Seq(Words)
  BY <1>3, OffIs, SourceParts
<1>5. Piece(b) \in Seq(Words)
  <2>1. CASE b.times = 0
    BY <1>4, <2>1 DEF Piece
  <2>2. CASE b.times # 0
    <3> DEFINE l == Word("loop", NoName)
               e == Word("endloop", NoName)
               u == <<l>>
               v == Digits(b.times)
               x == <<Sep>>
               y == Body(b)
               z == <<e, Sep>>
    <3>1. l \in Words /\ e \in Words /\ Sep \in Words
      BY QuoteWords, AreWords
    <3>2. Piece(b) = u \o v \o x \o y \o z
      BY <2>2 DEF Piece
    <3>3. v \in Seq(Words)
      BY <1>1, DigitsWords
    <3> HIDE DEF l, e
    <3>4. u \in Seq(Words) /\ x \in Seq(Words) /\ z \in Seq(Words)
      BY <3>1, ShortSeqs
    <3> HIDE DEF u, v, x, y, z
    <3>5. y \in Seq(Words)
      BY <1>4 DEF y
    <3> QED BY <3>2, <3>3, <3>4, <3>5, FiveWords
  <2> QED BY <2>1, <2>2
<1> QED BY <1>2, <1>3, <1>4, <1>5 DEF Lines

LEMMA RepeatsSeq ==
  ASSUME NEW b \in Blocks
  PROVE  /\ Repeats(b) \in Seq(Seq(Statements)) /\ Len(Repeats(b)) = Turn(b)
         /\ \A t \in 1 .. Turn(b) : Repeats(b)[t] = b.body
         /\ FlattenSeq(Repeats(b)) \in Seq(Statements)
<1> HIDE DEF Statements, Blocks
<1>1. b.body \in Seq(Statements) /\ Turn(b) \in Nat
  BY BlockParts
<1>2. Repeats(b) \in Seq(Seq(Statements)) /\ Len(Repeats(b)) = Turn(b)
  <2>1. Repeats(b) \in [1 .. Turn(b) -> Seq(Statements)]
    BY <1>1 DEF Repeats
  <2> QED BY <1>1, <2>1, AreSeq
<1>3. FlattenSeq(Repeats(b)) \in Seq(Statements)
  BY <1>2, OffIs
<1> QED BY <1>2, <1>3 DEF Repeats

LEMMA SourceSeqs ==
  ASSUME NEW src \in Seq(Blocks)
  PROVE  /\ Len(src) \in Nat /\ \A k \in 1 .. Len(src) : src[k] \in Blocks
         /\ Pieces(src) \in Seq(Seq(Words)) /\ Len(Pieces(src)) = Len(src)
         /\ \A k \in 1 .. Len(src) : Pieces(src)[k] = Piece(src[k])
         /\ Rounded(src) \in Seq(Seq(Statements)) /\ Len(Rounded(src)) = Len(src)
         /\ \A k \in 1 .. Len(src) : Rounded(src)[k] = FlattenSeq(Repeats(src[k]))
         /\ File(src) \in Seq(Words) /\ Unrolled(src) \in Seq(Statements)
<1> HIDE DEF Statements, Words, Blocks
<1>1. Len(src) \in Nat /\ \A k \in 1 .. Len(src) : src[k] \in Blocks
  BY ElementOfSeq, LenProperties
<1>2. \A k \in 1 .. Len(src) : Piece(src[k]) \in Seq(Words)
  BY <1>1, BlockWords
<1>3. Pieces(src) \in Seq(Seq(Words)) /\ Len(Pieces(src)) = Len(src)
  <2>1. Pieces(src) \in [1 .. Len(src) -> Seq(Words)]
    BY <1>2 DEF Pieces
  <2> QED BY <1>1, <2>1, AreSeq
<1>4. \A k \in 1 .. Len(src) : FlattenSeq(Repeats(src[k])) \in Seq(Statements)
  BY <1>1, RepeatsSeq
<1>5. Rounded(src) \in Seq(Seq(Statements)) /\ Len(Rounded(src)) = Len(src)
  <2>1. Rounded(src) \in [1 .. Len(src) -> Seq(Statements)]
    BY <1>4 DEF Rounded
  <2> QED BY <1>1, <2>1, AreSeq
<1>6. File(src) \in Seq(Words) /\ Unrolled(src) \in Seq(Statements)
  BY <1>3, <1>5, OffIs, SourceParts
<1> QED BY <1>1, <1>3, <1>5, <1>6 DEF Pieces, Rounded

(* The places of a source in its file, and in the statements it runs:      *)
(* where block k begins, its line m, and line m in turn t.                 *)
Start(src, k) == Off(Pieces(src))[k - 1]
Lead(b) == IF b.times = 0 THEN 0 ELSE 2 + Len(Digits(b.times))
Line(src, k, m) == Start(src, k) + Lead(src[k]) + Off(Lines(src[k]))[m]
Begun(src, k) == Off(Rounded(src))[k - 1]
Code(src, k, t, m) == Begun(src, k) + Off(Repeats(src[k]))[t - 1] + m

LEMMA PartPlaces ==
  ASSUME NEW T, NEW S \in Seq(Seq(T))
  PROVE  /\ Off(S)[0] = 0 /\ Off(S)[Len(S)] = Len(FlattenSeq(S)) /\ Len(S) \in Nat
         /\ \A k \in 0 .. Len(S) : Off(S)[k] \in Nat /\ Off(S)[k] <= Len(FlattenSeq(S))
         /\ \A k \in 1 .. Len(S) : Off(S)[k] = Off(S)[k - 1] + Len(S[k])
         /\ \A k \in 1 .. Len(S) : \A j \in 1 .. Len(S[k]) : FlattenSeq(S)[Off(S)[k - 1] + j] = S[k][j]
<1>1. Layout(S, FlattenSeq(S), Off(S)) /\ Len(S) \in Nat
  BY OffIs, LenProperties
<1>2. \A k \in 0 .. Len(S) : Off(S)[k] \in Nat /\ Off(S)[k] <= Len(FlattenSeq(S))
  BY <1>1 DEF Layout
<1> QED BY <1>1, <1>2 DEF Layout

LEMMA PartOfPart ==
  ASSUME NEW o \in Nat, NEW l \in Nat, NEW f \in Nat, o + l <= f, NEW j \in 1 .. l, NEW q \in Nat
  PROVE  o + j \in 1 .. f /\ (q + o) + j - 1 = q + (o + j) - 1
OBVIOUS

LEMMA SpellsPart ==
  ASSUME NEW S \in Seq(Seq(Words)), NEW q \in Nat, Spells(q, FlattenSeq(S)), NEW k \in 1 .. Len(S)
  PROVE  Spells(q + Off(S)[k - 1], S[k])
<1> HIDE DEF Words
<1> DEFINE o == Off(S)[k - 1]
           F == FlattenSeq(S)
<1>1. /\ o \in Nat /\ Off(S)[k] = o + Len(S[k]) /\ Off(S)[k] <= Len(F) /\ Off(S)[k] \in Nat
      /\ \A j \in 1 .. Len(S[k]) : F[o + j] = S[k][j]
  <2>1. k \in 0 .. Len(S) /\ k - 1 \in 0 .. Len(S) /\ Len(S) \in Nat
    BY LenProperties
  <2> QED BY <2>1, PartPlaces
<1>2. Len(S[k]) \in Nat /\ Len(F) \in Nat
  <2>1. S[k] \in Seq(Words)
    BY ElementOfSeq
  <2>2. F \in Seq(Words)
    BY OffIs
  <2> HIDE DEF F
  <2> QED BY <2>1, <2>2, LenProperties
<1> HIDE DEF o
<1>3. ASSUME NEW j \in 1 .. Len(S[k])
      PROVE  file_system_buffer[(q + o) + j - 1] = S[k][j]
  <2>1. o + j \in 1 .. Len(F) /\ (q + o) + j - 1 = q + (o + j) - 1
    <3>1. o + Len(S[k]) <= Len(F)
      BY <1>1
    <3> QED BY ONLY <1>1, <1>2, <3>1, PartOfPart
  <2> QED BY <1>1, <2>1 DEF Spells
<1> QED BY <1>3 DEF Spells, o

Starts(src) ==
  /\ Len(src) \in Nat /\ Len(File(src)) \in Nat
  /\ Start(src, 1) = 0 /\ Start(src, Len(src) + 1) = Len(File(src))
  /\ \A k \in 1 .. Len(src) + 1 : Start(src, k) \in Nat /\ Start(src, k) <= Len(File(src))
  /\ \A k \in 1 .. Len(src) : Start(src, k + 1) = Start(src, k) + Len(Piece(src[k]))
LEMMA StartsAre ==
  ASSUME NEW src \in Seq(Blocks)
  PROVE  Starts(src)
<1> DEFINE S == Pieces(src)
<1> HIDE DEF Blocks, Words, S
<1>1. /\ S \in Seq(Seq(Words)) /\ Len(S) = Len(src) /\ Len(src) \in Nat
      /\ \A k \in 1 .. Len(src) : S[k] = Piece(src[k])
      /\ FlattenSeq(S) = File(src)
  BY SourceSeqs, SourceParts DEF S
<1>2. Len(File(src)) \in Nat
  <2>1. File(src) \in Seq(Words)
    BY SourceSeqs
  <2> QED BY <2>1, LenProperties
<1>3. /\ Off(S)[0] = 0 /\ Off(S)[Len(S)] = Len(FlattenSeq(S))
      /\ \A k \in 0 .. Len(S) : Off(S)[k] \in Nat /\ Off(S)[k] <= Len(FlattenSeq(S))
      /\ \A k \in 1 .. Len(S) : Off(S)[k] = Off(S)[k - 1] + Len(S[k])
  BY <1>1, PartPlaces
<1>4. \A k : Start(src, k) = Off(S)[k - 1]
  BY DEF Start, S
<1>5. Start(src, 1) = 0 /\ Start(src, Len(src) + 1) = Len(File(src))
  BY <1>1, <1>3, <1>4
<1>6. ASSUME NEW k \in 1 .. Len(src) + 1 PROVE Start(src, k) \in Nat /\ Start(src, k) <= Len(File(src))
  BY <1>1, <1>3, <1>4
<1>7. ASSUME NEW k \in 1 .. Len(src) PROVE Start(src, k + 1) = Start(src, k) + Len(Piece(src[k]))
  <2>1. (k + 1) - 1 = k
    BY <1>1
  <2> QED BY <1>1, <1>3, <1>4, <2>1
<1> QED BY <1>1, <1>2, <1>5, <1>6, <1>7 DEF Starts

LEMMA PieceSpelled ==
  ASSUME NEW src \in Seq(Blocks), Spells(0, File(src)), NEW k \in 1 .. Len(src)
  PROVE  Spells(Start(src, k), Piece(src[k]))
<1> DEFINE S == Pieces(src)
<1> HIDE DEF Blocks, Words, S
<1>1. /\ S \in Seq(Seq(Words)) /\ Len(S) = Len(src) /\ Len(src) \in Nat
      /\ S[k] = Piece(src[k]) /\ FlattenSeq(S) = File(src)
  BY SourceSeqs, SourceParts DEF S
<1>2. Spells(0 + Off(S)[k - 1], S[k])
  BY <1>1, SpellsPart
<1>3. Start(src, k) \in Nat /\ Start(src, k) = Off(S)[k - 1]
  <2>1. k \in 1 .. Len(src) + 1
    BY <1>1
  <2> QED BY <2>1, StartsAre DEF Starts, Start, S
<1>4. 0 + Off(S)[k - 1] = Start(src, k)
  BY <1>3
<1> QED BY <1>1, <1>2, <1>4

CodesOf(src, k) ==
  LET b == src[k]
  IN /\ Code(src, k, 1, 0) = Begun(src, k)
     /\ Code(src, k, Turn(b), Len(b.body)) = Begun(src, k + 1)
     /\ \A t \in 1 .. Turn(b), m \in 0 .. Len(b.body) : Code(src, k, t, m) \in Nat
     /\ \A t \in 1 .. Turn(b), m \in 0 .. Len(b.body) - 1 :
          /\ Code(src, k, t, m) + 1 \in 1 .. Len(Unrolled(src))
          /\ Unrolled(src)[Code(src, k, t, m) + 1] = b.body[m + 1]
          /\ Code(src, k, t, m + 1) = Code(src, k, t, m) + 1
     /\ \A t \in 1 .. Turn(b) - 1 : Code(src, k, t, Len(b.body)) = Code(src, k, t + 1, 0)
Deep(B, R, U, o, l, m) ==
  /\ o + (m + 1) \in 1 .. R /\ m + 1 \in 1 .. l /\ B + (o + (m + 1)) = (B + o + m) + 1
  /\ (B + o + m) + 1 \in 1 .. U /\ B + o + (m + 1) = (B + o + m) + 1
LEMMA TwoLevels ==
  ASSUME NEW B \in Nat, NEW R \in Nat, NEW U \in Nat, NEW o \in Nat, NEW l \in Nat, NEW m \in 0 .. l - 1,
         o + l <= R, B + R <= U
  PROVE  Deep(B, R, U, o, l, m)
BY DEF Deep

LEMMA CodesAre ==
  ASSUME NEW src \in Seq(Blocks), NEW k \in 1 .. Len(src)
  PROVE  CodesOf(src, k) /\ Begun(src, 1) = 0 /\ Begun(src, Len(src) + 1) = Len(Unrolled(src))
<1> DEFINE S == Rounded(src)
           b == src[k]
           R == Repeats(b)
           F == FlattenSeq(R)
           B == Begun(src, k)
           U == Unrolled(src)
           l == Len(b.body)
           n == Turn(b)
<1> HIDE DEF Blocks, Words, Statements, S, R, F, U
<1>1. /\ S \in Seq(Seq(Statements)) /\ Len(S) = Len(src) /\ Len(src) \in Nat /\ S[k] = F /\ FlattenSeq(S) = U
      /\ b \in Blocks
  BY SourceSeqs, SourceParts DEF S, F, R, U
<1>2. R \in Seq(Seq(Statements)) /\ Len(R) = n /\ (\A t \in 1 .. n : R[t] = b.body) /\ F \in Seq(Statements)
  BY <1>1, RepeatsSeq DEF R, F
<1>3. n \in Nat /\ n >= 1 /\ l \in Nat /\ Len(F) \in Nat
  BY <1>1, <1>2, BlockParts, LenProperties
<1> HIDE DEF b, l, n
<1>4. /\ Off(S)[0] = 0 /\ Off(S)[Len(S)] = Len(U)
      /\ \A h \in 0 .. Len(S) : Off(S)[h] \in Nat /\ Off(S)[h] <= Len(U)
      /\ \A h \in 1 .. Len(S) : Off(S)[h] = Off(S)[h - 1] + Len(S[h])
      /\ \A h \in 1 .. Len(S) : \A j \in 1 .. Len(S[h]) : U[Off(S)[h - 1] + j] = S[h][j]
  BY <1>1, PartPlaces
<1>5. /\ Off(R)[0] = 0 /\ Off(R)[n] = Len(F)
      /\ \A t \in 0 .. n : Off(R)[t] \in Nat /\ Off(R)[t] <= Len(F)
      /\ \A t \in 1 .. n : Off(R)[t] = Off(R)[t - 1] + l
      /\ \A t \in 1 .. n : \A j \in 1 .. l : F[Off(R)[t - 1] + j] = b.body[j]
  <2>1. /\ Off(R)[0] = 0 /\ Off(R)[Len(R)] = Len(F)
        /\ \A t \in 0 .. Len(R) : Off(R)[t] \in Nat /\ Off(R)[t] <= Len(F)
        /\ \A t \in 1 .. Len(R) : Off(R)[t] = Off(R)[t - 1] + Len(R[t])
        /\ \A t \in 1 .. Len(R) : \A j \in 1 .. Len(R[t]) : F[Off(R)[t - 1] + j] = R[t][j]
    BY <1>2, PartPlaces DEF F
  <2>2. \A t \in 1 .. n : Len(R[t]) = l
    BY <1>2 DEF l
  <2> QED BY <1>2, <2>1, <2>2
<1>6. \A h : Begun(src, h) = Off(S)[h - 1]
  BY DEF Begun, S
<1>7. \A t, m : Code(src, k, t, m) = B + Off(R)[t - 1] + m
  BY DEF Code, R, b
<1>8. B = Off(S)[k - 1] /\ B \in Nat /\ B + Len(F) = Off(S)[k] /\ B + Len(F) <= Len(U) /\ Begun(src, k + 1) = B + Len(F)
  <2>1. (k + 1) - 1 = k /\ k \in 1 .. Len(S) /\ k \in 0 .. Len(S) /\ k - 1 \in 0 .. Len(S)
    BY <1>1
  <2> QED BY <1>1, <1>4, <1>6, <2>1
<1>9. Begun(src, 1) = 0 /\ Begun(src, Len(src) + 1) = Len(U)
  BY <1>1, <1>4, <1>6
<1> HIDE DEF B
<1>10. Code(src, k, 1, 0) = B
  BY <1>3, <1>5, <1>7, <1>8
<1>11. Code(src, k, n, l) = Begun(src, k + 1)
  <2>1. n \in 1 .. n /\ n - 1 \in 0 .. n
    BY <1>3
  <2>2. Off(R)[n] = Off(R)[n - 1] + l /\ Off(R)[n - 1] \in Nat
    BY <1>5, <2>1
  <2> QED BY <1>3, <1>5, <1>7, <1>8, <2>2
<1>12. ASSUME NEW t \in 1 .. n, NEW m \in 0 .. l PROVE Code(src, k, t, m) \in Nat
  <2> DEFINE o == Off(R)[t - 1]
  <2>1. o \in Nat
    BY <1>3, <1>5
  <2>2. Code(src, k, t, m) = B + o + m
    BY <1>7
  <2> HIDE DEF o
  <2> QED BY <1>3, <1>8, <2>1, <2>2
<1>13. ASSUME NEW t \in 1 .. n, NEW m \in 0 .. l - 1
       PROVE  /\ Code(src, k, t, m) + 1 \in 1 .. Len(U)
              /\ U[Code(src, k, t, m) + 1] = b.body[m + 1]
              /\ Code(src, k, t, m + 1) = Code(src, k, t, m) + 1
  <2> DEFINE o == Off(R)[t - 1]
  <2>1. o \in Nat /\ o + l <= Len(F)
    BY <1>3, <1>5
  <2> HIDE DEF o
  <2>2. Len(U) \in Nat
    <3>1. U \in Seq(Statements)
      BY SourceSeqs DEF U
    <3> QED BY <3>1, LenProperties
  <2>7. Deep(B, Len(F), Len(U), o, l, m)
    BY <1>3, <1>8, <2>1, <2>2, TwoLevels
  <2>3. /\ o + (m + 1) \in 1 .. Len(F) /\ m + 1 \in 1 .. l /\ B + (o + (m + 1)) = (B + o + m) + 1
        /\ (B + o + m) + 1 \in 1 .. Len(U) /\ B + o + (m + 1) = (B + o + m) + 1
    BY <2>7 DEF Deep
  <2>4. Code(src, k, t, m) = B + o + m /\ Code(src, k, t, m + 1) = B + o + (m + 1)
    BY <1>7 DEF o
  <2>5. F[o + (m + 1)] = b.body[m + 1]
    BY <1>5, <2>3 DEF o
  <2>6. U[B + (o + (m + 1))] = F[o + (m + 1)]
    BY <1>1, <1>4, <1>8, <2>3
  <2> QED BY <2>3, <2>4, <2>5, <2>6
<1>14. ASSUME NEW t \in 1 .. n - 1 PROVE Code(src, k, t, l) = Code(src, k, t + 1, 0)
  <2>1. t \in 1 .. n /\ t \in 0 .. n /\ t - 1 \in 0 .. n /\ (t + 1) - 1 = t
    BY <1>3
  <2>2. Off(R)[t] = Off(R)[t - 1] + l /\ Off(R)[t - 1] \in Nat /\ Off(R)[t] \in Nat
    BY <1>5, <2>1
  <2>3. Code(src, k, t, l) = B + Off(R)[t - 1] + l /\ Code(src, k, t + 1, 0) = B + Off(R)[t] + 0
    BY <1>7, <2>1
  <2> DEFINE o == Off(R)[t - 1]
             p == Off(R)[t]
  <2>4. p = o + l /\ o \in Nat /\ p \in Nat /\ Code(src, k, t, l) = B + o + l /\ Code(src, k, t + 1, 0) = B + p + 0
    BY <2>2, <2>3
  <2> HIDE DEF o, p
  <2> QED BY <1>3, <1>8, <2>4
<1> QED BY <1>9, <1>10, <1>11, <1>12, <1>13, <1>14 DEF CodesOf, b, l, n, B, U

LinesOf(src, k) ==
  LET b == src[k]
      l == Len(b.body)
  IN /\ Line(src, k, 0) = Start(src, k) + Lead(b)
     /\ \A m \in 0 .. l : Line(src, k, m) \in Nat /\ Line(src, k, m) <= Len(File(src))
     /\ \A m \in 0 .. l - 1 : Line(src, k, m + 1) = Line(src, k, m) + Len(Written(b.body[m + 1]))
     /\ b.times = 0 => Line(src, k, l) = Start(src, k + 1)
     /\ b.times # 0 => Line(src, k, l) + 2 = Start(src, k + 1)

LEMMA LoopWords ==
  ASSUME NEW b \in Blocks, b.times # 0
  PROVE  /\ Piece(b) = <<Word("loop", NoName)>> \o Digits(b.times) \o <<Sep>> \o Body(b) \o <<Word("endloop", NoName), Sep>>
         /\ <<Word("loop", NoName)>> \in Seq(Words) /\ Len(<<Word("loop", NoName)>>) = 1
         /\ Digits(b.times) \in Seq(Words) /\ Len(Digits(b.times)) \in Nat
         /\ <<Sep>> \in Seq(Words) /\ Len(<<Sep>>) = 1
         /\ <<Word("endloop", NoName), Sep>> \in Seq(Words) /\ Len(<<Word("endloop", NoName), Sep>>) = 2
<1> DEFINE a == Word("loop", NoName)
           e == Word("endloop", NoName)
<1>1. a \in Words /\ e \in Words /\ Sep \in Words
  BY QuoteWords, AreWords
<1>2. b.times \in 0 .. 99
  BY BlockParts
<1>3. Piece(b) = <<a>> \o Digits(b.times) \o <<Sep>> \o Body(b) \o <<e, Sep>>
  BY DEF Piece
<1> HIDE DEF a, e, Words, Blocks
<1>4. Digits(b.times) \in Seq(Words) /\ Len(Digits(b.times)) \in Nat
  BY <1>2, DigitsWords
<1>5. /\ <<a>> \in Seq(Words) /\ Len(<<a>>) = 1 /\ <<Sep>> \in Seq(Words) /\ Len(<<Sep>>) = 1
      /\ <<e, Sep>> \in Seq(Words) /\ Len(<<e, Sep>>) = 2
  BY <1>1, ShortSeqs
<1> QED BY <1>3, <1>4, <1>5 DEF a, e

LEMMA PieceLength ==
  ASSUME NEW b \in Blocks
  PROVE  Lead(b) \in Nat /\ Len(Body(b)) \in Nat
         /\ Len(Piece(b)) = Lead(b) + Len(Body(b)) + (IF b.times = 0 THEN 0 ELSE 2)
<1> HIDE DEF Words, Blocks
<1>1. Body(b) \in Seq(Words) /\ Len(Body(b)) \in Nat
  BY BlockWords, LenProperties
<1>2. CASE b.times = 0
  <2>1. Lead(b) = 0 /\ Piece(b) = Body(b)
    BY <1>2 DEF Lead, Piece
  <2> QED BY <1>1, <1>2, <2>1
<1>3. CASE b.times # 0
  <2> DEFINE u == <<Word("loop", NoName)>>
             v == Digits(b.times)
             x == <<Sep>>
             y == Body(b)
             z == <<Word("endloop", NoName), Sep>>
  <2>1. /\ Piece(b) = u \o v \o x \o y \o z
        /\ u \in Seq(Words) /\ Len(u) = 1 /\ v \in Seq(Words) /\ Len(v) \in Nat
        /\ x \in Seq(Words) /\ Len(x) = 1 /\ z \in Seq(Words) /\ Len(z) = 2
    BY <1>3, LoopWords
  <2>2. y \in Seq(Words) /\ Len(y) \in Nat
    BY <1>1
  <2>3. Lead(b) = 2 + Len(v)
    BY <1>3 DEF Lead
  <2> HIDE DEF u, v, x, y, z
  <2>4. Len(Piece(b)) = Len(u) + Len(v) + Len(x) + Len(y) + Len(z)
    <3>1. FiveLong(u, v, x, y, z)
      BY <2>1, <2>2, FiveLen
    <3> QED BY <2>1, <3>1 DEF FiveLong
  <2>5. Len(Piece(b)) = Lead(b) + Len(y) + 2 /\ Lead(b) \in Nat
    BY <2>1, <2>2, <2>3, <2>4
  <2> QED BY <1>1, <1>3, <2>5 DEF y
<1> QED BY <1>2, <1>3

LEMMA LinesAre ==
  ASSUME NEW src \in Seq(Blocks), NEW k \in 1 .. Len(src)
  PROVE  LinesOf(src, k)
<1> DEFINE b == src[k]
           l == Len(b.body)
           R == Lines(b)
           s == Start(src, k)
           h == Lead(b)
           c == Len(Body(b))
           z == Len(File(src))
           w == IF b.times = 0 THEN 0 ELSE 2
<1> HIDE DEF Blocks, Words, Statements, R
<1>1. b \in Blocks /\ l \in Nat
  BY SourceSeqs, BlockParts
<1>2. /\ R \in Seq(Seq(Words)) /\ Len(R) = l /\ FlattenSeq(R) = Body(b)
      /\ \A m \in 1 .. l : R[m] = Written(b.body[m])
  BY <1>1, BlockWords, SourceParts DEF R
<1>3. /\ Off(R)[0] = 0 /\ Off(R)[l] = c
      /\ \A m \in 0 .. l : Off(R)[m] \in Nat /\ Off(R)[m] <= c
      /\ \A m \in 1 .. l : Off(R)[m] = Off(R)[m - 1] + Len(Written(b.body[m]))
  <2>1. /\ Off(R)[0] = 0 /\ Off(R)[Len(R)] = Len(FlattenSeq(R))
        /\ \A m \in 0 .. Len(R) : Off(R)[m] \in Nat /\ Off(R)[m] <= Len(FlattenSeq(R))
        /\ \A m \in 1 .. Len(R) : Off(R)[m] = Off(R)[m - 1] + Len(R[m])
    BY <1>2, PartPlaces
  <2> QED BY <1>2, <2>1
<1>4. h \in Nat /\ c \in Nat /\ Len(Piece(b)) = h + c + w
  BY <1>1, PieceLength
<1>5. s \in Nat /\ z \in Nat /\ Start(src, k + 1) = s + Len(Piece(b)) /\ Start(src, k + 1) <= z
  <2>1. k \in 1 .. Len(src) + 1 /\ k + 1 \in 1 .. Len(src) + 1
    BY StartsAre DEF Starts
  <2> QED BY <2>1, StartsAre DEF Starts
<1>6. \A m : Line(src, k, m) = s + h + Off(R)[m]
  BY DEF Line, R
<1>7. w \in Nat /\ (b.times = 0 => w = 0) /\ (b.times # 0 => w = 2)
  OBVIOUS
<1> HIDE DEF s, h, c, z, w, l
<1>8. s + h + c + w <= z /\ Start(src, k + 1) = s + h + c + w
  BY <1>4, <1>5, <1>7
<1>9. Line(src, k, 0) = s + h
  BY <1>3, <1>4, <1>5, <1>6
<1>10. ASSUME NEW m \in 0 .. l PROVE Line(src, k, m) \in Nat /\ Line(src, k, m) <= z
  BY <1>3, <1>4, <1>5, <1>6, <1>7, <1>8
<1>11. ASSUME NEW m \in 0 .. l - 1 PROVE Line(src, k, m + 1) = Line(src, k, m) + Len(Written(b.body[m + 1]))
  <2> DEFINE o == Off(R)[m]
             p == Off(R)[m + 1]
             g == Len(Written(b.body[m + 1]))
  <2>1. m + 1 \in 1 .. l /\ m \in 0 .. l /\ (m + 1) - 1 = m
    BY <1>1
  <2>2. p = o + g /\ o \in Nat
    BY <1>3, <2>1
  <2>4. g \in Nat
    <3>1. b.body[m + 1] \in Statements
      BY <1>1, <2>1, BlockWords DEF l
    <3>2. Written(b.body[m + 1]) \in Seq(Words)
      BY <3>1, WrittenWords
    <3> QED BY <3>2, LenProperties
  <2>3. Line(src, k, m) = s + h + o /\ Line(src, k, m + 1) = s + h + p
    BY <1>6
  <2> HIDE DEF o, p, g
  <2>5. Line(src, k, m + 1) = Line(src, k, m) + g
    BY <1>4, <1>5, <2>2, <2>3, <2>4
  <2> QED BY <2>5 DEF g
<1>12. Line(src, k, l) + w = Start(src, k + 1)
  <2>1. Line(src, k, l) = s + h + c
    BY <1>3, <1>6
  <2> QED BY <1>8, <2>1
<1>13. Line(src, k, l) \in Nat
  BY <1>1, <1>10
<1>14. (b.times = 0 => Line(src, k, l) = Start(src, k + 1)) /\ (b.times # 0 => Line(src, k, l) + 2 = Start(src, k + 1))
  BY <1>7, <1>12, <1>13
<1> QED BY <1>9, <1>10, <1>11, <1>14 DEF LinesOf, b, l, s, h, z

Spelt(src, k) ==
  LET b == src[k]
      s == Start(src, k)
      l == Len(b.body)
      n == Line(src, k, 0) - 1
      e == Line(src, k, l)
  IN /\ \A m \in 0 .. l - 1 : Spells(Line(src, k, m), Written(b.body[m + 1]))
     /\ b.times # 0 =>
          /\ file_system_buffer[s] = Word("loop", NoName)
          /\ Spells(s + 1, Digits(b.times)) /\ n = s + 1 + Len(Digits(b.times))
          /\ file_system_buffer[n] = Sep
          /\ file_system_buffer[e] = Word("endloop", NoName) /\ file_system_buffer[e + 1] = Sep
LEMMA BlockSpelt ==
  ASSUME NEW src \in Seq(Blocks), Spells(0, File(src)), NEW k \in 1 .. Len(src)
  PROVE  Spelt(src, k)
<1> DEFINE b == src[k]
           l == Len(b.body)
           R == Lines(b)
           s == Start(src, k)
           h == Lead(b)
           q == s + h
<1> HIDE DEF Blocks, Words, Statements, R
<1>1. b \in Blocks /\ l \in Nat
  BY SourceSeqs, BlockParts
<1>2. /\ R \in Seq(Seq(Words)) /\ Len(R) = l /\ FlattenSeq(R) = Body(b)
      /\ \A m \in 1 .. l : R[m] = Written(b.body[m])
  BY <1>1, BlockWords, SourceParts DEF R
<1>3. s \in Nat /\ h \in Nat /\ q \in Nat
  <2>1. k \in 1 .. Len(src) + 1
    BY StartsAre DEF Starts
  <2>2. s \in Nat
    BY <2>1, StartsAre DEF Starts
  <2>3. h \in Nat
    BY <1>1, PieceLength
  <2> HIDE DEF s, h
  <2> QED BY <2>2, <2>3
<1>4. Spells(s, Piece(b))
  BY PieceSpelled
<1>5. /\ Line(src, k, 0) = q
      /\ Line(src, k, l) = q + Len(Body(b)) /\ Len(Body(b)) \in Nat
  <2>1. Line(src, k, 0) = q
    BY LinesAre DEF LinesOf
  <2>2. Off(R)[Len(R)] = Len(FlattenSeq(R))
    BY <1>2, PartPlaces
  <2>3. Line(src, k, l) = q + Off(R)[l]
    BY DEF Line, R
  <2>4. Len(Body(b)) \in Nat
    BY <1>1, PieceLength
  <2> QED BY <1>2, <2>1, <2>2, <2>3, <2>4
<1> HIDE DEF s, h, b, l
<1>6. /\ Spells(q, Body(b))
      /\ b.times # 0 =>
           /\ file_system_buffer[s] = Word("loop", NoName)
           /\ Spells(s + 1, Digits(b.times)) /\ q - 1 = s + 1 + Len(Digits(b.times))
           /\ file_system_buffer[q - 1] = Sep
           /\ file_system_buffer[q + Len(Body(b))] = Word("endloop", NoName)
           /\ file_system_buffer[q + Len(Body(b)) + 1] = Sep
  <2>1. CASE b.times = 0
    <3>1. Piece(b) = Body(b) /\ h = 0
      BY <2>1 DEF Piece, Lead, h
    <3>2. q = s
      BY <1>3, <3>1
    <3> QED BY <1>4, <2>1, <3>1, <3>2
  <2>2. CASE b.times # 0
    <3> DEFINE a == Word("loop", NoName)
               e == Word("endloop", NoName)
               u == <<a>>
               v == Digits(b.times)
               x == <<Sep>>
               y == Body(b)
               z == <<e, Sep>>
               V == Len(v)
               Y == Len(y)
    <3>1. /\ Piece(b) = u \o v \o x \o y \o z
          /\ u \in Seq(Words) /\ Len(u) = 1 /\ v \in Seq(Words) /\ V \in Nat
          /\ x \in Seq(Words) /\ Len(x) = 1 /\ z \in Seq(Words) /\ Len(z) = 2
      BY <1>1, <2>2, LoopWords
    <3>2. y \in Seq(Words) /\ Y \in Nat
      BY <1>1, <1>5, BlockWords
    <3>3. h = 2 + V
      BY <2>2 DEF Lead, h
    <3> HIDE DEF u, v, x, y, z, V, Y, a, e
    <3>4. Five(s, u, v, x, y, z)
      BY <1>3, <1>4, <3>1, <3>2, SpellsFive
    <3>5. /\ Spells(s, u) /\ Spells(s + 1, v) /\ Spells(s + 1 + V, x)
          /\ Spells(s + 1 + V + 1, y) /\ Spells(s + 1 + V + 1 + Y, z)
      BY <3>1, <3>4 DEF Five, V, Y
    <3>6. /\ s + 1 + V \in Nat /\ s + 1 + V + 1 + Y \in Nat /\ q = s + 1 + V + 1 /\ q - 1 = s + 1 + V
          /\ q + Y \in Nat
      BY <1>3, <3>1, <3>2, <3>3
    <3> HIDE DEF q
    <3>7. Spells(s, <<a>>) /\ Spells(q - 1, <<Sep>>) /\ Spells(q, y) /\ Spells(q + Y, <<e, Sep>>)
      BY <3>5, <3>6 DEF u, x, z
    <3>8. file_system_buffer[s] = a
      BY <1>3, <3>7, SpellsWords
    <3> DEFINE n == q - 1
               o == q + Y
    <3>9. n \in Nat /\ o \in Nat /\ Spells(n, <<Sep>>) /\ Spells(o, <<e, Sep>>)
      BY <3>6, <3>7
    <3> HIDE DEF n, o
    <3>10. file_system_buffer[n] = Sep /\ file_system_buffer[o] = e /\ file_system_buffer[o + 1] = Sep
      BY <3>9, SpellsWords
    <3> QED BY <2>2, <3>5, <3>6, <3>7, <3>8, <3>10 DEF n, o, a, e, y, Y, v, V
  <2> QED BY <2>1, <2>2
<1>7. ASSUME NEW m \in 0 .. l - 1 PROVE Spells(Line(src, k, m), Written(b.body[m + 1]))
  <2>1. m + 1 \in 1 .. Len(R) /\ (m + 1) - 1 = m /\ R[m + 1] = Written(b.body[m + 1])
    BY <1>1, <1>2
  <2> DEFINE j == m + 1
  <2>2. j \in 1 .. Len(R) /\ Off(R)[j - 1] = Off(R)[m] /\ R[j] = Written(b.body[m + 1])
    BY <2>1
  <2> HIDE DEF q, j
  <2>3. Spells(q + Off(R)[j - 1], R[j])
    BY <1>2, <1>3, <1>6, <2>2, SpellsPart
  <2>4. Line(src, k, m) = q + Off(R)[m]
    BY DEF Line, R, q, s, h, b
  <2> QED BY <2>2, <2>3, <2>4
<1> QED BY <1>5, <1>6, <1>7 DEF Spelt, s, b, l

-----------------------------------------------------------------------------
(* Where the interpreter is in a source: n statements have run.  It is     *)
(* before block k, or in turn t of block k before its line m.              *)
Reaches(p) == i = p \/ (i + 1 = p /\ file_system_buffer[i] = Sep)
Between(src, n, k) == Reaches(Start(src, k)) /\ n = Begun(src, k)
Within(src, n, k, t, m) ==
  /\ Reaches(Line(src, k, m)) /\ n = Code(src, k, t, m)
  /\ IF src[k].times = 0 THEN m < Len(src[k].body)
     ELSE loop_count = src[k].times - t + 1 /\ loop_start_index = Line(src, k, 0) - 1
Here(src, n) ==
  \/ \E k \in 1 .. Len(src) + 1 : Between(src, n, k)
  \/ \E k \in 1 .. Len(src) : \E t \in 1 .. Turn(src[k]), m \in 0 .. Len(src[k].body) : Within(src, n, k, t, m)
Holds(src) == Len(File(src)) = file_size /\ Spells(0, File(src))

Outcome(src, n) ==
  \/ status' = "running" /\ UNCHANGED Loaded /\ World' = World /\ Here(src, n)'
  \/ /\ n + 1 \in 1 .. Len(Unrolled(src))
     /\ LET st == Unrolled(src)[n + 1]
        IN \/ status' = "running" /\ UNCHANGED Loaded /\ World' = Do(World, st) /\ Here(src, n + 1)'
           \/ status' = "fault" /\ Do(World, st).fault = TRUE /\ screen' = Do(World, st).screen
  \/ status' = "shell" /\ n = Len(Unrolled(src)) /\ World' = World

LEMMA WorldStays ==
  ASSUME UNCHANGED <<var_table, screen>>
  PROVE  World' = World
BY DEF World, Env, find_var

LEMMA PassesSep ==
  ASSUME AiraInv, run_interper, status = "running", NEW p \in Nat, p <= file_size, i + 1 = p, file_system_buffer[i] = Sep
  PROVE  i' = p /\ UNCHANGED <<Loaded, Looping, var_table, screen, status>>
<1>1. i \in Nat /\ file_size \in Nat /\ i < file_size
  BY AtPlace
<1>2. At(i) = "sep"
  BY AreWords DEF At
<1>3. Skip
  BY <1>1, <1>2, Which
<1> QED BY <1>1, <1>3 DEF Skip

LEMMA GoesOn ==
  ASSUME AiraInv, run_interper, status = "running", NEW src \in Seq(Blocks), Holds(src), NEW n, Here(src, n),
         \A k \in 1 .. Len(src) + 1 : Between(src, n, k) => i # Start(src, k),
         \A k \in 1 .. Len(src) : \A t \in 1 .. Turn(src[k]), m \in 0 .. Len(src[k].body) :
           Within(src, n, k, t, m) => i # Line(src, k, m)
  PROVE  Outcome(src, n)
<1> HIDE DEF Blocks, Words, Statements
<1>1. CASE \E k \in 1 .. Len(src) + 1 : Between(src, n, k)
  <2>1. PICK k \in 1 .. Len(src) + 1 : Between(src, n, k)
    BY <1>1
  <2> DEFINE p == Start(src, k)
  <2>2. p \in Nat /\ p <= file_size /\ i + 1 = p /\ file_system_buffer[i] = Sep
    BY <2>1, StartsAre DEF Starts, Holds, Between, Reaches
  <2>3. i' = p /\ UNCHANGED <<Loaded, Looping, var_table, screen, status>>
    <3> HIDE DEF p
    <3> QED BY <2>2, PassesSep
  <2>4. Between(src, n, k)'
    BY <2>1, <2>3 DEF Between, Reaches
  <2>5. Here(src, n)'
    BY <2>4 DEF Here
  <2> QED BY <2>3, <2>5, WorldStays DEF Outcome
<1>2. CASE \E k \in 1 .. Len(src) : \E t \in 1 .. Turn(src[k]), m \in 0 .. Len(src[k].body) : Within(src, n, k, t, m)
  <2>0. PICK k \in 1 .. Len(src) : \E t \in 1 .. Turn(src[k]), m \in 0 .. Len(src[k].body) : Within(src, n, k, t, m)
    BY <1>2
  <2>1. PICK t \in 1 .. Turn(src[k]), m \in 0 .. Len(src[k].body) : Within(src, n, k, t, m)
    BY <2>0
  <2> DEFINE p == Line(src, k, m)
  <2>2. p \in Nat /\ p <= file_size /\ i + 1 = p /\ file_system_buffer[i] = Sep
    BY <2>1, LinesAre DEF LinesOf, Holds, Within, Reaches
  <2>3. i' = p /\ UNCHANGED <<Loaded, Looping, var_table, screen, status>>
    <3> HIDE DEF p
    <3> QED BY <2>2, PassesSep
  <2>4. Within(src, n, k, t, m)'
    BY <2>1, <2>3 DEF Within, Reaches, Looping
  <2>5. Here(src, n)'
    BY <2>4 DEF Here
  <2> QED BY <2>3, <2>5, WorldStays DEF Outcome
<1> QED BY <1>1, <1>2 DEF Here

LEMMA BegunEnds ==
  ASSUME NEW src \in Seq(Blocks)
  PROVE  Begun(src, 1) = 0 /\ Begun(src, Len(src) + 1) = Len(Unrolled(src)) /\ Len(Unrolled(src)) \in Nat
<1> DEFINE S == Rounded(src)
<1> HIDE DEF Blocks, Words, Statements, S
<1>1. /\ S \in Seq(Seq(Statements)) /\ Len(S) = Len(src) /\ Len(src) \in Nat /\ FlattenSeq(S) = Unrolled(src)
      /\ Unrolled(src) \in Seq(Statements)
  BY SourceSeqs, SourceParts DEF S
<1>2. Off(S)[0] = 0 /\ Off(S)[Len(S)] = Len(FlattenSeq(S))
  BY <1>1, PartPlaces
<1>3. Begun(src, 1) = Off(S)[0] /\ Begun(src, Len(src) + 1) = Off(S)[Len(src)]
  BY <1>1 DEF Begun, S
<1> QED BY <1>1, <1>2, <1>3, LenProperties

LEMMA GoesHome ==
  ASSUME AiraInv, run_interper, status = "running", NEW src \in Seq(Blocks), Holds(src), i = Start(src, Len(src) + 1)
  PROVE  Outcome(src, Begun(src, Len(src) + 1))
<1> HIDE DEF Blocks, Words, Statements
<1>1. i = file_size
  BY StartsAre DEF Starts, Holds
<1>2. Return
  <2>1. i \in Nat /\ ~ (i < file_size)
    BY <1>1, AtPlace
  <2> QED BY <2>1 DEF run_interper, PrintText, PrintVar, Beep, BeepOverrun, Set, process_math, Loop, EndLoop, Skip, Reading
<1>3. status' = "shell" /\ UNCHANGED <<var_table, screen>>
  BY <1>2 DEF Return
<1>4. Begun(src, Len(src) + 1) = Len(Unrolled(src))
  BY BegunEnds
<1> QED BY <1>3, <1>4, WorldStays DEF Outcome

Remain(c, t, x) ==
  /\ t < c => x > 1 /\ x - 1 = c - (t + 1) + 1 /\ t + 1 \in 1 .. c /\ t \in 1 .. c - 1
  /\ t = c => ~ (x > 1)
  /\ t < c \/ t = c
LEMMA TurnsLeft ==
  ASSUME NEW c \in 0 .. 99, NEW t \in 1 .. c
  PROVE  Remain(c, t, c - t + 1)
BY DEF Remain

LEMMA SmallNumber ==
  ASSUME NEW d \in 0 .. 99, d < Half
  PROVE  Wrap(d) = d /\ d - 1 + 1 = d
<1>1. d \in Nat
  OBVIOUS
<1> QED BY <1>1, WrapSame

LEMMA GoesLoop ==
  ASSUME AiraInv, run_interper, status = "running", NEW src \in Seq(Blocks), Holds(src), NEW k \in 1 .. Len(src),
         src[k].times # 0, i = Start(src, k)
  PROVE  Outcome(src, Begun(src, k))
<1> DEFINE b == src[k]
           r == Line(src, k, 0) - 1
           l == Len(Digits(b.times))
<1> HIDE DEF Blocks, Words, Statements
<1>1. b \in Blocks /\ b.times \in 0 .. 99 /\ b.times < Half
  BY SourceSeqs, BlockParts
<1>2. /\ file_system_buffer[i] = Word("loop", NoName) /\ Spells(i + 1, Digits(b.times))
      /\ r = i + 1 + l /\ file_system_buffer[r] = Sep
  BY BlockSpelt DEF Spelt, Holds
<1>3. Line(src, k, 0) \in Nat /\ Line(src, k, 0) <= file_size
  <2>1. 0 \in 0 .. Len(b.body)
    BY <1>1, BlockParts
  <2> QED BY <2>1, LinesAre DEF LinesOf, Holds
<1>4. l \in Nat /\ i \in Nat /\ file_size \in Nat /\ file_size <= Edge /\ Edge \in Nat
  BY <1>1, DigitsWords, AtPlace
<1> HIDE DEF r, l
<1>5. r \in Nat /\ r + 1 = Line(src, k, 0) /\ i < file_size /\ i + 1 \in 0 .. Edge /\ i + 1 + l <= Edge
  BY <1>2, <1>3, <1>4 DEF r
<1>6. At(i) = "loop" /\ At(r) # "digit"
  BY <1>2, QuoteWords, AreWords DEF At
<1>7. NumberEnd(i + 1) = r /\ Number(i + 1) = b.times
  <2> DEFINE j == i + 1
             d == b.times
  <2>1. \A h \in 1 .. Len(Digits(d)) : file_system_buffer[j + h - 1] = Digits(d)[h]
    BY <1>2 DEF Spells
  <2>2. j \in 0 .. Edge /\ j + Len(Digits(d)) <= Edge /\ At(j + Len(Digits(d))) # "digit" /\ j + Len(Digits(d)) = r
    BY <1>2, <1>5, <1>6 DEF l
  <2>3. d \in 0 .. 99 /\ Wrap(d) = d
    BY <1>1, SmallNumber
  <2> HIDE DEF j, d
  <2>4. NumberEnd(j) = r /\ Number(j) = d
    BY <2>1, <2>2, <2>3, NumberRead
  <2> QED BY <2>4 DEF j, d
<1>8. Loop
  BY <1>4, <1>5, <1>6, Which
<1>9. /\ loop_count' = b.times /\ loop_start_index' = r /\ i' = r
      /\ UNCHANGED <<Loaded, var_table, screen, status>>
  BY <1>7, <1>8 DEF Loop
<1>10. Code(src, k, 1, 0) = Begun(src, k)
  BY CodesAre DEF CodesOf
<1>11. 1 \in 1 .. Turn(b) /\ 0 \in 0 .. Len(b.body)
  BY <1>1, BlockParts
<1>12. loop_count' = b.times - 1 + 1 /\ loop_start_index' = Line(src, k, 0) - 1
  <2>1. b.times - 1 + 1 = b.times
    BY <1>1, SmallNumber
  <2> QED BY <1>9, <2>1 DEF r
<1>13. i' + 1 = Line(src, k, 0) /\ file_system_buffer'[i'] = Sep
  BY <1>2, <1>5, <1>9 DEF Loaded
<1>14. Within(src, Begun(src, k), k, 1, 0)'
  BY <1>10, <1>12, <1>13 DEF Within, Reaches
<1>15. Here(src, Begun(src, k))'
  BY <1>11, <1>14 DEF Here
<1> QED BY <1>9, <1>15, WorldStays DEF Outcome

LEMMA GoesLine ==
  ASSUME AiraInv, AiraInv', Spare, run_interper, status = "running", NEW src \in Seq(Blocks), Holds(src),
         SlotsSuffice(File(src)), NEW k \in 1 .. Len(src), NEW t \in 1 .. Turn(src[k]), NEW m \in 0 .. Len(src[k].body),
         NEW n, Within(src, n, k, t, m), i = Line(src, k, m), m < Len(src[k].body)
  PROVE  Outcome(src, n)
<1> DEFINE b == src[k]
           l == Len(b.body)
           st == b.body[m + 1]
           p == File(src)
<1> HIDE DEF Blocks, Words, Statements
<1>1. b \in Blocks /\ l \in Nat /\ m \in 0 .. l - 1 /\ m + 1 \in 1 .. l
  BY SourceSeqs, BlockParts
<1>2. st \in Statements
  BY <1>1, BlockWords
<1>3. Spells(i, Written(st))
  BY <1>1, BlockSpelt DEF Spelt, Holds
<1>4. Line(src, k, m + 1) = i + Len(Written(st)) /\ Line(src, k, m + 1) <= file_size /\ Line(src, k, m + 1) \in Nat
  BY <1>1, LinesAre DEF LinesOf, Holds
<1>5. p \in Seq(Words) /\ Spells(0, p) /\ Len(p) = file_size /\ SlotsSuffice(p)
  BY SourceSeqs DEF Holds
<1>6. /\ n + 1 \in 1 .. Len(Unrolled(src)) /\ Unrolled(src)[n + 1] = st
      /\ Code(src, k, t, m + 1) = n + 1 /\ n = Code(src, k, t, m)
  BY <1>1, CodesAre DEF CodesOf, Within
<1> HIDE DEF p, st
<1>7. Went(st)
  BY <1>2, <1>3, <1>4, <1>5, Statement
<1>8. UNCHANGED <<Loaded, Looping>>
  BY <1>7 DEF Went
<1>9. CASE status' = "running" /\ World' = Do(World, st) /\ i' = i + Len(Written(st)) - 1
  <2> DEFINE q == Line(src, k, m + 1)
             g == Len(Written(st))
  <2>1. q = i + g /\ q \in Nat /\ i \in Nat /\ g \in Nat
    <3>1. Written(st) \in Seq(Words)
      BY <1>2, WrittenWords
    <3> QED BY <1>4, <3>1, AtPlace, LenProperties
  <2>2. i' + 1 = q /\ file_system_buffer'[i'] = Sep
    <3>1. file_system_buffer[i + g - 1] = Sep /\ i' = i + g - 1
      BY <1>7, <1>9 DEF Went
    <3> HIDE DEF g, q
    <3>2. i' + 1 = q
      BY <2>1, <3>1
    <3> QED BY <1>8, <3>1, <3>2 DEF Loaded
  <2>3. Here(src, n + 1)'
    <3>1. CASE b.times # 0 \/ m + 1 < l
      <4>1. IF b.times = 0 THEN m + 1 < l
            ELSE loop_count = b.times - t + 1 /\ loop_start_index = Line(src, k, 0) - 1
        BY <3>1 DEF Within
      <4>2. Within(src, n + 1, k, t, m + 1)'
        BY <1>6, <1>8, <2>2, <4>1 DEF Within, Reaches, Looping
      <4>3. m + 1 \in 0 .. l
        BY <1>1
      <4> QED BY <4>2, <4>3 DEF Here
    <3>2. CASE b.times = 0 /\ m + 1 = l
      <4>1. t = 1 /\ Turn(b) = 1
        BY <3>2 DEF Turn
      <4>2. n + 1 = Begun(src, k + 1)
        BY <1>6, <3>2, <4>1, CodesAre DEF CodesOf
      <4>3. q = Start(src, k + 1)
        BY <3>2, LinesAre DEF LinesOf
      <4>4. Between(src, n + 1, k + 1)'
        BY <2>2, <4>2, <4>3 DEF Between, Reaches
      <4>5. k + 1 \in 1 .. Len(src) + 1
        BY SourceSeqs
      <4> QED BY <4>4, <4>5 DEF Here
    <3>3. m + 1 < l \/ m + 1 = l
      BY <1>1
    <3> QED BY <3>1, <3>2, <3>3
  <2> QED BY <1>6, <1>8, <1>9, <2>3 DEF Outcome
<1>10. CASE status' = "fault" /\ Do(World, st).fault = TRUE /\ screen' = Do(World, st).screen
  BY <1>6, <1>10 DEF Outcome
<1> QED BY <1>7, <1>9, <1>10 DEF Went

LEMMA GoesRound ==
  ASSUME AiraInv, run_interper, status = "running", NEW src \in Seq(Blocks), Holds(src),
         NEW k \in 1 .. Len(src), NEW t \in 1 .. Turn(src[k]),
         NEW n, Within(src, n, k, t, Len(src[k].body)), i = Line(src, k, Len(src[k].body))
  PROVE  Outcome(src, n)
<1> DEFINE b == src[k]
           l == Len(b.body)
           r == Line(src, k, 0) - 1
<1> HIDE DEF Blocks, Words, Statements
<1>1. b \in Blocks /\ l \in Nat /\ b.times \in 0 .. 99
  BY SourceSeqs, BlockParts
<1>2. b.times # 0 /\ loop_count = b.times - t + 1 /\ loop_start_index = r /\ n = Code(src, k, t, l)
  BY <1>1 DEF Within
<1>3. Turn(b) = b.times /\ t \in 1 .. b.times
  BY <1>2 DEF Turn
<1>4. /\ file_system_buffer[r] = Sep /\ file_system_buffer[i] = Word("endloop", NoName) /\ file_system_buffer[i + 1] = Sep
  BY <1>2, BlockSpelt DEF Spelt, Holds
<1>5. i + 2 = Start(src, k + 1) /\ Start(src, k + 1) <= file_size /\ i \in Nat /\ file_size \in Nat
  <2>1. i + 2 = Start(src, k + 1)
    BY <1>2, LinesAre DEF LinesOf
  <2>2. k + 1 \in 1 .. Len(src) + 1
    BY SourceSeqs
  <2> QED BY <2>1, <2>2, StartsAre, AtPlace DEF Starts, Holds
<1>6. EndLoop
  <2>1. At(i) = "endloop"
    BY <1>4, QuoteWords DEF At
  <2>2. i < file_size
    BY <1>5
  <2> QED BY <1>5, <2>1, <2>2, Which
<1>7. /\ IF loop_count > 1
         THEN i' = loop_start_index /\ loop_count' = loop_count - 1
         ELSE i' = i + 1 /\ UNCHANGED loop_count
      /\ UNCHANGED <<Loaded, var_table, loop_start_index, screen, status>>
  BY <1>6 DEF EndLoop
<1>8. Here(src, n)'
  <2>3. Remain(b.times, t, loop_count)
    <3> DEFINE c == b.times
    <3>1. c \in 0 .. 99 /\ t \in 1 .. c /\ loop_count = c - t + 1
      BY <1>1, <1>2, <1>3
    <3> HIDE DEF c
    <3>2. Remain(c, t, c - t + 1)
      BY ONLY <3>1, TurnsLeft
    <3> QED BY <3>1, <3>2 DEF c
  <2>1. CASE t < b.times
    <3>1. loop_count > 1 /\ loop_count - 1 = b.times - (t + 1) + 1
      BY <1>2, <2>1, <2>3 DEF Remain
    <3>2. i' = r /\ loop_count' = b.times - (t + 1) + 1 /\ loop_start_index' = r
      BY <1>2, <1>7, <3>1
    <3>3. t + 1 \in 1 .. Turn(b) /\ t \in 1 .. Turn(b) - 1 /\ 0 \in 0 .. l
      <4>1. t + 1 \in 1 .. b.times /\ t \in 1 .. b.times - 1
        BY <2>1, <2>3 DEF Remain
      <4>2. 0 \in 0 .. l
        BY <1>1
      <4> QED BY <1>3, <4>1, <4>2
    <3>4. n = Code(src, k, t + 1, 0)
      BY <1>2, <3>3, CodesAre DEF CodesOf
    <3>5. i' + 1 = Line(src, k, 0) /\ file_system_buffer'[i'] = Sep
      <4>1. Line(src, k, 0) \in Nat
        BY <3>3, LinesAre DEF LinesOf
      <4> QED BY <1>4, <1>7, <3>2, <4>1 DEF Loaded
    <3>6. Within(src, n, k, t + 1, 0)'
      BY <1>2, <3>2, <3>4, <3>5 DEF Within, Reaches
    <3> QED BY <3>3, <3>6 DEF Here
  <2>2. CASE t = b.times
    <3>1. ~ (loop_count > 1)
      BY <2>2, <2>3 DEF Remain
    <3>2. i' = i + 1
      BY <1>7, <3>1
    <3>3. n = Begun(src, k + 1)
      BY <1>2, <1>3, <2>2, CodesAre DEF CodesOf
    <3>4. i' + 1 = Start(src, k + 1) /\ file_system_buffer'[i'] = Sep
      BY <1>4, <1>5, <1>7, <3>2 DEF Loaded
    <3>5. Between(src, n, k + 1)'
      BY <3>3, <3>4 DEF Between, Reaches
    <3>6. k + 1 \in 1 .. Len(src) + 1
      BY SourceSeqs
    <3> QED BY <3>5, <3>6 DEF Here
  <2> QED BY <2>1, <2>2, <2>3 DEF Remain
<1> QED BY <1>7, <1>8, WorldStays DEF Outcome

LEMMA GoesRight ==
  ASSUME AiraInv, AiraInv', Spare, run_interper, status = "running", NEW src \in Seq(Blocks), Holds(src),
         SlotsSuffice(File(src)), NEW n, Here(src, n)
  PROVE  Outcome(src, n)
<1> HIDE DEF Blocks, Words, Statements
<1>1. ASSUME NEW k \in 1 .. Len(src), NEW t \in 1 .. Turn(src[k]), NEW m \in 0 .. Len(src[k].body),
             Within(src, n, k, t, m), i = Line(src, k, m)
      PROVE  Outcome(src, n)
  <2>1. CASE m < Len(src[k].body)
    BY <1>1, <2>1, GoesLine
  <2>2. CASE m = Len(src[k].body)
    BY <1>1, <2>2, GoesRound
  <2>3. src[k] \in Blocks /\ Len(src[k].body) \in Nat
    BY SourceSeqs, BlockParts
  <2> QED BY <2>1, <2>2, <2>3
<1>2. ASSUME NEW k \in 1 .. Len(src) + 1, Between(src, n, k), i = Start(src, k)
      PROVE  Outcome(src, n)
  <2>1. CASE k = Len(src) + 1
    BY <1>2, <2>1, GoesHome DEF Between
  <2>2. CASE k \in 1 .. Len(src) /\ src[k].times # 0
    BY <1>2, <2>2, GoesLoop DEF Between
  <2>3. CASE k \in 1 .. Len(src) /\ src[k].times = 0
    <3>1. src[k] \in Blocks /\ Len(src[k].body) \in Nat /\ 0 < Len(src[k].body) /\ Turn(src[k]) = 1
      BY <2>3, SourceSeqs, BlockParts DEF Turn
    <3>2. Line(src, k, 0) = Start(src, k)
      <4>1. Line(src, k, 0) = Start(src, k) + Lead(src[k])
        BY <2>3, LinesAre DEF LinesOf
      <4>2. Lead(src[k]) = 0 /\ Start(src, k) \in Nat
        BY <2>3, StartsAre DEF Lead, Starts
      <4> QED BY <4>1, <4>2
    <3>3. Code(src, k, 1, 0) = Begun(src, k)
      BY <2>3, CodesAre DEF CodesOf
    <3>4. Within(src, n, k, 1, 0)
      BY <1>2, <2>3, <3>1, <3>2, <3>3 DEF Within, Between
    <3>5. 1 \in 1 .. Turn(src[k]) /\ 0 \in 0 .. Len(src[k].body)
      BY <3>1
    <3> QED BY <1>1, <1>2, <2>3, <3>2, <3>4, <3>5
  <2>4. k = Len(src) + 1 \/ k \in 1 .. Len(src)
    BY SourceSeqs
  <2> QED BY <2>1, <2>2, <2>3, <2>4
<1> QED BY <1>1, <1>2, GoesOn

-----------------------------------------------------------------------------
(* The world after each statement of a source.                             *)
Follows(src, after) == \A n \in 1 .. Len(Unrolled(src)) : after[n] = Do(after[n - 1], Unrolled(src)[n])

LEMMA AfterExists ==
  ASSUME NEW w, NEW code, NEW l \in Nat
  PROVE  \E f : f = [h \in 0 .. l |-> IF h = 0 THEN w ELSE Do(f[h - 1], code[h])]
<1> DEFINE OK(n, f) == f = [h \in 0 .. n |-> IF h = 0 THEN w ELSE Do(f[h - 1], code[h])]
           S == {n \in Nat : ~ \E f : OK(n, f)}
<1>1. S = {}
  <2> SUFFICES ASSUME S # {} PROVE FALSE
    OBVIOUS
  <2>1. PICK n \in S : \A k \in S : n <= k
    <3>1. S \in SUBSET Nat
      OBVIOUS
    <3> HIDE DEF S
    <3> QED BY <3>1, Smallest
  <2>2. CASE n = 0
    <3> DEFINE f == [h \in 0 .. 0 |-> w]
    <3>1. OK(0, f)
      OBVIOUS
    <3> HIDE DEF f
    <3> QED BY <2>1, <2>2, <3>1
  <2>3. CASE n > 0
    <3>1. n \in Nat /\ n - 1 \in Nat /\ n - 1 \notin S
      <4>1. n \in Nat
        BY <2>1
      <4> HIDE DEF S
      <4> QED BY <2>1, <2>3, <4>1
    <3>2. PICK f : OK(n - 1, f)
      BY <3>1
    <3> DEFINE x == Do(f[n - 1], code[n])
               g == [h \in 0 .. n |-> IF h = n THEN x ELSE f[h]]
    <3>3. ASSUME NEW h \in 0 .. n PROVE g[h] = IF h = 0 THEN w ELSE Do(g[h - 1], code[h])
      <4>1. CASE h = n
        <5>1. h # 0 /\ h - 1 \in 0 .. n /\ h - 1 # n
          BY <2>3, <3>1, <4>1
        <5>2. g[h] = x /\ g[h - 1] = f[n - 1]
          BY <4>1, <5>1
        <5> QED BY <4>1, <5>1, <5>2
      <4>2. CASE h # n
        <5>1. h \in 0 .. n - 1 /\ g[h] = f[h]
          BY <3>1, <4>2
        <5>2. f[h] = IF h = 0 THEN w ELSE Do(f[h - 1], code[h])
          BY <3>2, <5>1
        <5>3. h # 0 => h - 1 \in 0 .. n /\ h - 1 # n /\ g[h - 1] = f[h - 1]
          BY <3>1, <5>1
        <5> QED BY <5>1, <5>2, <5>3
      <4> QED BY <4>1, <4>2
    <3>4. OK(n, g)
      BY <3>3
    <3> HIDE DEF g
    <3> QED BY <2>1, <3>4
  <2>4. n \in Nat
    BY <2>1
  <2> HIDE DEF S
  <2> QED BY <2>2, <2>3, <2>4
<1>2. l \notin S
  BY <1>1
<1> QED BY <1>2

LEMMA MeaningIs ==
  ASSUME NEW src \in Seq(Blocks), NEW env
  PROVE  \E after : /\ Follows(src, after) /\ Meaning(src, env) = after[Len(Unrolled(src))]
                    /\ after[0] = [env |-> env, screen |-> <<>>, fault |-> FALSE]
<1> DEFINE code == Unrolled(src)
           w == [env |-> env, screen |-> <<>>, fault |-> FALSE]
           after == CHOOSE f : f = [n \in 0 .. Len(code) |-> IF n = 0 THEN w ELSE Do(f[n - 1], code[n])]
<1>1. Len(code) \in Nat
  BY BegunEnds
<1>2. Meaning(src, env) = after[Len(code)]
  BY DEF Meaning
<1> HIDE DEF code, w
<1>3. after = [n \in 0 .. Len(code) |-> IF n = 0 THEN w ELSE Do(after[n - 1], code[n])]
  BY <1>1, AfterExists
<1> HIDE DEF after
<1>4. after[0] = w
  BY <1>1, <1>3
<1>5. ASSUME NEW n \in 1 .. Len(code) PROVE after[n] = Do(after[n - 1], code[n])
  <2>1. n \in 0 .. Len(code) /\ n # 0
    BY <1>1
  <2> QED BY <1>3, <2>1
<1> QED BY <1>2, <1>4, <1>5 DEF Follows, code, w

(* After a fault nothing more happens.                                     *)
LEMMA FaultStays ==
  ASSUME NEW src \in Seq(Blocks), NEW after, Follows(src, after), NEW n \in 0 .. Len(Unrolled(src)), after[n].fault = TRUE
  PROVE  after[Len(Unrolled(src))] = after[n]
<1> DEFINE l == Len(Unrolled(src))
           S == {m \in Nat : n <= m /\ m <= l /\ after[m] # after[n]}
<1>1. l \in Nat
  BY BegunEnds
<1> HIDE DEF l
<1>2. n \in Nat /\ n <= l
  BY <1>1 DEF l
<1>3. S = {}
  <2> SUFFICES ASSUME S # {} PROVE FALSE
    OBVIOUS
  <2>1. PICK m \in S : \A k \in S : m <= k
    <3>1. S \in SUBSET Nat
      OBVIOUS
    <3> HIDE DEF S
    <3> QED BY <3>1, Smallest
  <2>2. m \in Nat /\ n <= m /\ m <= l /\ after[m] # after[n] /\ m # n
    BY <2>1
  <2>3. m - 1 \in Nat /\ n <= m - 1 /\ m - 1 <= l /\ m \in 1 .. l
    BY <1>1, <1>2, <2>2
  <2>4. after[m - 1] = after[n]
    <3>1. m - 1 \notin S
      <4> HIDE DEF S
      <4> QED BY <2>1, <2>2
    <3> QED BY <2>3, <3>1
  <2>5. after[m] = Do(after[m - 1], Unrolled(src)[m])
    BY <2>3 DEF Follows, l
  <2>6. after[m] = after[m - 1]
    BY <2>4, <2>5, DoFault
  <2> QED BY <2>2, <2>4, <2>6
<1> QED BY <1>1, <1>2, <1>3 DEF l

(* The invariant: a plain program is at a statement of its source with     *)
(* the world that the statements before it leave.                          *)
Plainly(src, after) ==
  LET end == after[Len(Unrolled(src))]
  IN /\ Follows(src, after) /\ started.result = end
     /\ status = "running" =>
          /\ Holds(src) /\ SlotsSuffice(File(src))
          /\ \E n \in 0 .. Len(Unrolled(src)) : World = after[n] /\ Here(src, n)
     /\ status = "shell" => World = end
     /\ status = "fault" => end.fault = TRUE /\ screen = end.screen
     /\ status # "lost"
PlainInv == AiraInv /\ Spare /\ (started.plain => \E src \in Sources : \E after : Plainly(src, after))

LEMMA PlainInit == InitPrograms => PlainInv
<1> SUFFICES ASSUME InitPrograms PROVE PlainInv
  OBVIOUS
<1>1. AiraInv
  BY InterpreterInit DEF InitPrograms
<1>2. Spare
  BY DEF InitPrograms, AiraInit, Spare, Free
<1>3. ~ started.plain
  BY DEF InitPrograms, Nothing
<1> QED BY <1>1, <1>2, <1>3 DEF PlainInv

LEMMA SpareKept ==
  ASSUME AiraInv, Spare, run_interper
  PROVE  Spare'
<1> DEFINE p == [j \in 1 .. file_size |-> file_system_buffer[j - 1]]
<1>1. file_size \in Nat /\ file_size <= BufLen
  BY Bounds DEF AiraInv, BufferInv
<1> HIDE DEF Words
<1>2. p \in [1 .. file_size -> Words]
  <2> SUFFICES ASSUME NEW j \in 1 .. file_size PROVE file_system_buffer[j - 1] \in Words
    OBVIOUS
  <2>1. j - 1 \in 0 .. BufLen - 1
    BY <1>1, Bounds
  <2> QED BY <2>1 DEF AiraInv, BufferInv
<1>3. p \in Seq(Words) /\ Len(p) = file_size
  BY <1>1, <1>2, AreSeq
<1>4. Spells(0, p)
  <2> SUFFICES ASSUME NEW j \in 1 .. file_size PROVE file_system_buffer[0 + j - 1] = p[j]
    BY <1>3 DEF Spells
  <2>1. 0 + j - 1 = j - 1
    BY <1>1
  <2> QED BY <2>1
<1> HIDE DEF p
<1> QED BY <1>3, <1>4, NamesKept

LEMMA EmptyFile ==
  ASSUME NEW src \in Seq(Blocks), File(src) = <<>>
  PROVE  Len(Unrolled(src)) = 0
<1> HIDE DEF Blocks, Words, Statements
<1>1. Len(File(src)) = 0 /\ Len(src) \in Nat
  BY SourceSeqs
<1>2. CASE Len(src) = 0
  <2>1. Len(src) + 1 = 1
    BY <1>2
  <2>2. Begun(src, 1) = 0 /\ Begun(src, Len(src) + 1) = Len(Unrolled(src))
    BY BegunEnds
  <2> QED BY ONLY <2>1, <2>2
<1>3. CASE Len(src) # 0
  <2> DEFINE b == src[1]
             l == Len(b.body)
  <2>1. 1 \in 1 .. Len(src) /\ 1 \in 1 .. Len(src) + 1 /\ 2 \in 1 .. Len(src) + 1
    BY <1>1, <1>3
  <2>2. b \in Blocks /\ l \in Nat /\ (b.times = 0 => l > 0)
    BY <2>1, SourceSeqs, BlockParts
  <2>3. Start(src, 1) \in Nat /\ Start(src, 2) \in Nat /\ Start(src, 2) <= 0
    BY <1>1, <2>1, StartsAre DEF Starts
  <2>4. CASE b.times # 0
    <3>1. Line(src, 1, l) + 2 = Start(src, 1 + 1) /\ Line(src, 1, l) \in Nat
      BY <2>1, <2>2, <2>4, LinesAre DEF LinesOf
    <3> QED BY <2>3, <3>1
  <2>5. CASE b.times = 0
    <3>1. /\ Line(src, 1, 0) \in Nat /\ Line(src, 1, 1) <= 0
          /\ Line(src, 1, 0 + 1) = Line(src, 1, 0) + Len(Written(b.body[0 + 1]))
      <4>1. 0 \in 0 .. l /\ 0 \in 0 .. l - 1 /\ 1 \in 0 .. l
        BY <2>2, <2>5
      <4> QED BY <1>1, <2>1, <4>1, LinesAre DEF LinesOf
    <3>2. Len(Written(b.body[1])) \in Nat /\ Len(Written(b.body[1])) >= 1
      <4>1. b.body[1] \in Statements
        BY <2>2, <2>5, BlockWords
      <4>2. Written(b.body[1]) \in Seq(Words) /\ Len(Written(b.body[1])) >= 1
        BY <4>1, WrittenWords
      <4> QED BY <4>2, LenProperties
    <3> QED BY <3>1, <3>2
  <2> QED BY <2>4, <2>5
<1> QED BY <1>2, <1>3

LEMMA PlainLoad ==
  ASSUME PlainInv, StartProgram
  PROVE  PlainInv'
<1> HIDE DEF Blocks, Words, Statements
<1>1. PICK p \in Programs : Load(p) /\ started' = Started(p)
  BY DEF StartProgram
<1>2. AiraInv'
  BY <1>1, LoadInv DEF PlainInv
<1>3. UNCHANGED var_table /\ screen' = <<>> /\ i' = 0 /\ status = "shell"
  BY <1>1 DEF Load
<1>4. Spare'
  BY <1>3 DEF PlainInv, Spare
<1>5. Env' = Env /\ Defined' = Defined
  BY <1>3 DEF Env, Defined, find_var
<1>6. ASSUME started'.plain
      PROVE  \E src \in Sources : \E after : Plainly(src, after)'
  <2> DEFINE S == {s \in Sources : File(s) = p}
             src == CHOOSE s \in S : TRUE
  <2>1. S # {} /\ SlotsSuffice(p) /\ started'.result = Meaning(src, Env)
    BY <1>1, <1>6 DEF Started
  <2>2. src \in Sources /\ File(src) = p
    BY <2>1
  <2> HIDE DEF src, S
  <2>3. src \in Seq(Blocks)
    BY <2>2, SourceAssumption
  <2>4. PICK after : /\ Follows(src, after) /\ Meaning(src, Env) = after[Len(Unrolled(src))]
                     /\ after[0] = [env |-> Env, screen |-> <<>>, fault |-> FALSE]
    BY <2>3, MeaningIs
  <2>5. World' = after[0]
    BY <1>3, <1>5, <2>4 DEF World
  <2>6. CASE p = <<>>
    <3>1. Len(Unrolled(src)) = 0 /\ status' = "shell"
      BY <1>1, <2>2, <2>3, <2>6, EmptyFile DEF Load
    <3>2. Plainly(src, after)'
      BY <2>1, <2>4, <2>5, <3>1 DEF Plainly
    <3> QED BY <2>2, <3>2
  <2>7. CASE p # <<>>
    <3>1. status' = "running"
      BY <1>1, <2>7 DEF Load
    <3>2. Holds(src)'
      <4>1. p \in Seq(Words) /\ Len(p) \in 0 .. Edge /\ Edge + StringMax + 4 = BufLen /\ StringMax \in Nat /\ Edge \in Nat
        BY <1>1, Bounds
      <4>2. file_size' = Len(p)
        BY <1>1 DEF Load
      <4>3. ASSUME NEW j \in 1 .. Len(p) PROVE file_system_buffer'[0 + j - 1] = p[j]
        <5>1. 0 + j - 1 \in 0 .. BufLen - 1 /\ 0 + j - 1 < Len(p) /\ (0 + j - 1) + 1 = j
          BY <4>1
        <5> QED BY <1>1, <5>1 DEF Load
      <4> QED BY <2>2, <4>2, <4>3 DEF Holds, Spells
    <3>3. SlotsSuffice(File(src))'
      BY <1>5, <2>1, <2>2 DEF SlotsSuffice
    <3>4. Here(src, 0)'
      <4>1. Between(src, 0, 1)'
        BY <1>3, <2>3, StartsAre, BegunEnds DEF Between, Reaches, Starts
      <4>2. 1 \in 1 .. Len(src) + 1
        BY <2>3, SourceSeqs
      <4> QED BY <4>1, <4>2 DEF Here
    <3>5. 0 \in 0 .. Len(Unrolled(src))
      BY <2>3, BegunEnds
    <3>6. Plainly(src, after)'
      BY <2>1, <2>4, <2>5, <3>1, <3>2, <3>3, <3>4, <3>5 DEF Plainly
    <3> QED BY <2>2, <3>6
  <2> QED BY <2>6, <2>7
<1> QED BY <1>2, <1>4, <1>6 DEF PlainInv

LEMMA PlainRun ==
  ASSUME PlainInv, RunProgram
  PROVE  PlainInv'
<1> HIDE DEF Blocks, Words, Statements
<1>1. run_interper /\ started' = started /\ AiraInv /\ Spare
  BY DEF RunProgram, PlainInv
<1>2. status = "running"
  BY <1>1 DEF run_interper, PrintText, PrintVar, Beep, BeepOverrun, Set, process_math, Loop, EndLoop, Skip, Return, Reading
<1>3. AiraInv'
  BY <1>1, InterpreterStep DEF AiraNext
<1>4. Spare'
  BY <1>1, SpareKept
<1>5. ASSUME started.plain
      PROVE  \E src \in Sources : \E after : Plainly(src, after)'
  <2>1. PICK src \in Sources : \E after : Plainly(src, after)
    BY <1>5 DEF PlainInv
  <2>2. PICK after : Plainly(src, after)
    BY <2>1
  <2> DEFINE code == Unrolled(src)
             l == Len(code)
             end == after[l]
  <2>3. src \in Seq(Blocks) /\ l \in Nat
    BY SourceAssumption, BegunEnds
  <2>4. Follows(src, after) /\ started.result = end /\ Holds(src) /\ SlotsSuffice(File(src))
    BY <1>2, <2>2 DEF Plainly
  <2>5. PICK n \in 0 .. l : World = after[n] /\ Here(src, n)
    BY <1>2, <2>2 DEF Plainly
  <2>6. Outcome(src, n)
    BY <1>1, <1>2, <1>3, <2>3, <2>4, <2>5, GoesRight
  <2>7. ASSUME UNCHANGED Loaded PROVE Holds(src)' /\ SlotsSuffice(File(src))'
    <3>1. Holds(src)'
      BY <2>4, <2>7 DEF Holds, Spells, Loaded
    <3>2. (Defined \cup Sets(File(src)))' = Defined \cup Sets(File(src))
      <4>1. File(src) \in Seq(Words) /\ Spells(0, File(src)) /\ Len(File(src)) = file_size
        BY <2>3, <2>4, SourceSeqs DEF Holds
      <4> QED BY <1>1, <4>1, NamesKept
    <3>3. SlotsSuffice(File(src))'
      BY <2>4, <3>2 DEF SlotsSuffice
    <3> QED BY <3>1, <3>3
  <2>8. CASE status' = "running" /\ UNCHANGED Loaded /\ World' = World /\ Here(src, n)'
    <3>1. Plainly(src, after)'
      BY <1>1, <2>4, <2>5, <2>7, <2>8 DEF Plainly
    <3> QED BY <3>1
  <2>9. CASE status' = "shell" /\ n = l /\ World' = World
    <3>1. Plainly(src, after)'
      BY <1>1, <2>4, <2>5, <2>9 DEF Plainly
    <3> QED BY <3>1
  <2>10. CASE n + 1 \in 1 .. l /\ status' = "running" /\ UNCHANGED Loaded /\ World' = Do(World, code[n + 1]) /\ Here(src, n + 1)'
    <3>1. after[n + 1] = Do(World, code[n + 1]) /\ n + 1 \in 0 .. l
      <4>1. (n + 1) - 1 = n
        BY <2>3
      <4> QED BY <2>3, <2>4, <2>5, <2>10, <4>1 DEF Follows
    <3>2. World' = after[n + 1]
      BY <2>10, <3>1
    <3> DEFINE m == n + 1
    <3>3. m \in 0 .. l /\ World' = after[m] /\ Here(src, m)'
      BY <2>10, <3>1, <3>2
    <3>4. Plainly(src, after)'
      BY <1>1, <2>4, <2>7, <2>10, <3>3 DEF Plainly
    <3> QED BY <3>4
  <2>11. CASE /\ n + 1 \in 1 .. l /\ status' = "fault"
              /\ Do(World, code[n + 1]).fault = TRUE /\ screen' = Do(World, code[n + 1]).screen
    <3>1. after[n + 1] = Do(World, code[n + 1]) /\ n + 1 \in 0 .. l
      <4>1. (n + 1) - 1 = n
        BY <2>3
      <4> QED BY <2>3, <2>4, <2>5, <2>11, <4>1 DEF Follows
    <3>2. after[n + 1].fault = TRUE /\ screen' = after[n + 1].screen
      BY <2>11, <3>1
    <3> DEFINE m == n + 1
    <3>3. end = after[m]
      <4>1. m \in 0 .. l /\ after[m].fault = TRUE
        BY <3>1, <3>2
      <4> HIDE DEF m
      <4> QED BY <2>3, <2>4, <4>1, FaultStays
    <3>4. Plainly(src, after)'
      BY <1>1, <2>4, <2>11, <3>2, <3>3 DEF Plainly
    <3> QED BY <3>4
  <2> QED BY <2>6, <2>8, <2>9, <2>10, <2>11 DEF Outcome
<1> QED BY <1>1, <1>3, <1>4, <1>5 DEF PlainInv

LEMMA PlainLose ==
  ASSUME PlainInv, LoseProgram
  PROVE  PlainInv'
<1>1. Restart /\ ~ started'.plain
  BY DEF LoseProgram, Nothing
<1>2. AiraInv'
  BY <1>1, ReturnInv DEF PlainInv
<1>3. Spare'
  BY <1>1 DEF Restart, Spare, Free
<1> QED BY <1>1, <1>2, <1>3 DEF PlainInv

LEMMA PlainStep == PlainInv /\ [NextPrograms]_<<airaVars, started>> => PlainInv'
<1> SUFFICES ASSUME PlainInv, [NextPrograms]_<<airaVars, started>> PROVE PlainInv'
  OBVIOUS
<1>1. CASE NextPrograms
  BY <1>1, PlainLoad, PlainRun, PlainLose DEF NextPrograms
<1>2. CASE UNCHANGED <<airaVars, started>>
  <2>1. AiraInv'
    BY <1>2, InterpreterStep DEF PlainInv
  <2>2. /\ UNCHANGED <<Loaded, Looping, i, var_table, screen, status, started>>
    BY <1>2 DEF airaVars, Loaded, Looping
  <2>3. Spare'
    BY <2>2 DEF PlainInv, Spare
  <2>4. World' = World /\ Defined' = Defined
    BY <2>2 DEF World, Env, Defined, find_var
  <2>5. ASSUME NEW src, NEW after, Plainly(src, after) PROVE Plainly(src, after)'
    <3>1. Holds(src) => Holds(src)'
      BY <2>2 DEF Holds, Spells, Loaded
    <3>2. SlotsSuffice(File(src)) => SlotsSuffice(File(src))'
      BY <2>4 DEF SlotsSuffice
    <3>3. ASSUME NEW n, Here(src, n) PROVE Here(src, n)'
      BY <2>2, <3>3 DEF Here, Between, Within, Reaches, Loaded, Looping
    <3> QED BY <2>2, <2>4, <2>5, <3>1, <3>2, <3>3 DEF Plainly
  <2> QED BY <2>1, <2>2, <2>3, <2>5 DEF PlainInv
<1> QED BY <1>1, <1>2

LEMMA PlainMeans == PlainInv => RunsAsWritten
<1> SUFFICES ASSUME PlainInv, status # "running", started.plain
             PROVE  /\ started.result.fault = (status = "fault")
                    /\ screen = started.result.screen
                    /\ status = "shell" => Env = started.result.env
  BY DEF RunsAsWritten
<1>2. PICK src \in Sources : \E after : Plainly(src, after)
  BY DEF PlainInv
<1>3. PICK after : Plainly(src, after)
  BY <1>2
<1>1. status \in {"shell", "fault"}
  BY <1>3 DEF PlainInv, AiraInv, PlaceInv, Plainly
<1>4. CASE status = "shell"
  <2>1. started.result = World
    BY <1>3, <1>4 DEF Plainly
  <2>2. started.result.fault = FALSE /\ started.result.screen = screen /\ started.result.env = Env
    BY <2>1 DEF World
  <2> QED BY <1>4, <2>2
<1>5. CASE status = "fault"
  <2>1. started.result.fault = TRUE /\ started.result.screen = screen
    BY <1>3, <1>5 DEF Plainly
  <2> QED BY <1>5, <2>1
<1> QED BY <1>1, <1>4, <1>5

(* Every plain program of every set of sources, over whatever programs ran *)
(* before it, shows and leaves what its statements mean (run_interper,     *)
(* aira_lang.c:86-286).                                                    *)
THEOREM ProgramsRunAsWritten == SpecPrograms => []RunsAsWritten
<1>1. InitPrograms => PlainInv
  BY PlainInit
<1>2. PlainInv /\ [NextPrograms]_<<airaVars, started>> => PlainInv'
  BY PlainStep
<1>3. PlainInv => RunsAsWritten
  BY PlainMeans
<1> QED BY <1>1, <1>2, <1>3, PTL DEF SpecPrograms
=============================================================================
