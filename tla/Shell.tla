------------------------------- MODULE Shell --------------------------------
(***************************************************************************)
(* What is typed: the line of the shell (kernel_main, kernel.c), the text  *)
(* of the editor nano and the name it asks for (run_nano, get_string,      *)
(* aira_lang.c), with the ten files of memory that nano writes and         *)
(* "compile" reads, and the picture of "view" and "aira", which waits for  *)
(* a key.  A key is a character; the word of a command is one key, and     *)
(* typed to the shell only.  The other commands are in the modules of what *)
(* they call.                                                              *)
(***************************************************************************)
EXTENDS Integers, Sequences, SequencesExt

CONSTANTS
  Letters,    \* keys that are only characters
  CmdMax,     \* characters of a line of the shell: 63
  NameMax,    \* of a file name: 31
  TextMax,    \* of a text: 1023
  FileSlots   \* 10

ASSUME ShellAssumption ==
  /\ CmdMax \in Nat \ {0} /\ NameMax \in Nat \ {0} /\ TextMax \in Nat /\ FileSlots \in Nat
  /\ Letters \cap {"nano", "compile", "view", "enter", "backspace", "esc"} = {}

CommandWords == {"nano", "compile", "view"}
Keys == Letters \cup CommandWords \cup {"enter", "backspace", "esc"}
Slots == 1 .. FileSlots

VARIABLES
  mode,    \* "shell", "nano", "name" or "view": who reads the keyboard
  line,    \* cmd, temp_buffer or fname, up to its index
  text,    \* temp_buffer while the name is typed
  files,   \* the files in memory
  row,     \* the row of the screen up to the cursor
  ran,     \* the file compile found, until the next key
  saves,   \* history: what nano said it saved, in order
  pushed   \* history: since the prompt, a backspace was typed at an empty line

vars == <<mode, line, text, files, row, ran, saves, pushed>>

Prompt == <<"$">>
SavePrompt == <<":">>
NoFile == [active |-> FALSE, name |-> <<>>, content |-> <<>>]

Init ==
  /\ mode = "shell" /\ line = <<>> /\ text = <<>>
  /\ files = [f \in Slots |-> NoFile]
  /\ row = Prompt
  /\ ran = NoFile /\ saves = <<>> /\ pushed = FALSE

(* put_char: a backspace goes no further than the start of the row.        *)
put_char(k) ==
  row' = CASE k = "enter"     -> <<>>
           [] k = "backspace" -> IF row = <<>> THEN row ELSE Front(row)
           [] OTHER           -> Append(row, k)

(* All three take a character so: a backspace deletes the last one, but as *)
(* the first one it is a character like any other.                         *)
Fits_Full(max) == Len(line) <= max
Fits(max) == Len(line) < max
Erase_NotShown == line' = Front(line) /\ UNCHANGED row
Erase == line' = Front(line) /\ put_char("backspace")
Type(k, max) ==
  IF k = "backspace" /\ line # <<>> THEN Erase
  ELSE IF Fits(max) THEN line' = Append(line, k) /\ put_char(k) ELSE UNCHANGED <<line, row>>

Pushes(k) == pushed' = (pushed \/ (k = "backspace" /\ line = <<>>))
Forget == ran' = NoFile
Prompts(p) == line' = <<>> /\ row' = p /\ pushed' = FALSE

-----------------------------------------------------------------------------
Type_Shell(k) ==
  /\ mode = "shell" /\ k # "enter"
  /\ Type(k, CmdMax) /\ Pushes(k)
  /\ UNCHANGED <<mode, text, files, saves>> /\ Forget

(* The first file of the name.                                             *)
Named(name) == {f \in Slots : files[f].active /\ files[f].name = name}
Found(found) == CHOOSE f \in found : \A g \in found : f <= g
Lookup(name) == IF Named(name) = {} THEN NoFile ELSE files[Found(Named(name))]

Nano ==
  /\ mode = "shell" /\ line = <<"nano">>
  /\ mode' = "nano" /\ Prompts(<<>>)
  /\ UNCHANGED <<text, files, saves>> /\ Forget
Compile ==
  /\ mode = "shell" /\ Len(line) > 0 /\ line[1] = "compile"
  /\ ran' = Lookup(Tail(line))
  /\ Prompts(Prompt)
  /\ UNCHANGED <<mode, text, files, saves>>
View ==
  /\ mode = "shell" /\ Len(line) > 0 /\ line[1] = "view"
  /\ mode' = "view" /\ Prompts(<<>>)
  /\ UNCHANGED <<text, files, saves>> /\ Forget
OtherCommand ==
  /\ mode = "shell" /\ line # <<"nano">> /\ ~(Len(line) > 0 /\ line[1] \in {"compile", "view"})
  /\ Prompts(Prompt)
  /\ UNCHANGED <<mode, text, files, saves>> /\ Forget

(* The picture stays until the key that ends it.                           *)
Type_View(k) ==
  /\ mode = "view"
  /\ IF k = "esc" THEN mode' = "shell" /\ Prompts(Prompt) ELSE UNCHANGED <<mode, line, row, pushed>>
  /\ UNCHANGED <<text, files, saves>> /\ Forget

Type_Nano(k) ==
  /\ mode = "nano" /\ k \notin CommandWords \cup {"esc"}
  /\ Type(k, TextMax)
  /\ UNCHANGED <<mode, text, files, saves, pushed>> /\ Forget
Leave ==
  /\ mode = "nano"
  /\ text' = line
  /\ mode' = "name" /\ Prompts(SavePrompt)
  /\ UNCHANGED <<files, saves>> /\ Forget

(* The name is read to the end of the line or until it is full.            *)
Type_Name(k) ==
  /\ mode = "name" /\ Len(line) < NameMax /\ k \notin CommandWords \cup {"enter"}
  /\ Type(k, NameMax) /\ Pushes(k)
  /\ UNCHANGED <<mode, text, files, saves>> /\ Forget
FreeSlots_Any == Slots
FreeSlots == {f \in Slots : ~files[f].active}
Save(entered) ==
  /\ mode = "name"
  /\ entered = (Len(line) < NameMax)
  /\ IF line # <<>> /\ FreeSlots # {}
     THEN LET f == CHOOSE f \in FreeSlots : \A g \in FreeSlots : f <= g
          IN /\ files' = [files EXCEPT ![f] = [active |-> TRUE, name |-> line, content |-> text]]
             /\ saves' = Append(saves, <<line, text>>)
     ELSE UNCHANGED <<files, saves>>
  /\ mode' = "shell" /\ text' = <<>> /\ Prompts(Prompt)
  /\ Forget

Press(k) ==
  \/ Type_Shell(k) \/ Type_Nano(k) \/ Type_Name(k) \/ Type_View(k)
  \/ k = "enter" /\ (Nano \/ Compile \/ View \/ OtherCommand \/ Save(TRUE))
  \/ k = "esc" /\ Leave
Next == (\E k \in Keys : Press(k)) \/ Save(FALSE)
Spec == Init /\ [][Next]_vars

-----------------------------------------------------------------------------
TypeOK ==
  /\ mode \in {"shell", "nano", "name", "view"}
  /\ \A n \in 1 .. Len(line) : line[n] \in Keys
  /\ Len(line) <= (CASE mode = "shell" -> CmdMax [] mode = "nano" -> TextMax [] mode = "name" -> NameMax [] mode = "view" -> 0)
  /\ Len(text) <= TextMax
  /\ \A f \in Slots : Len(files[f].name) <= NameMax /\ Len(files[f].content) <= TextMax
  /\ Len(saves) <= FileSlots

(* However much is typed, deleted and typed beyond the limit: unless a     *)
(* backspace was typed at the empty line, the row shows behind its prompt  *)
(* exactly the line that enter will hand on (kernel.c:285-290,             *)
(* get_string, aira_lang.c:45-60; put_char, graphics.c:89-110).            *)
Shows(prompt) == ~pushed => row = prompt \o line
RowShowsLine == (mode = "shell" => Shows(Prompt)) /\ (mode = "name" => Shows(SavePrompt))

(* Whatever is typed and saved later, every text nano said it saved stays  *)
(* in a file of its name, and what a name finds was saved under exactly    *)
(* that name: the text itself, if the name was used once (run_nano,        *)
(* aira_lang.c:315-326; compile, kernel.c:140-149).  Nothing is promised   *)
(* of which text a name finds that was used twice: it is the first, for    *)
(* ever, and nano says "File saved successfully!" of the others too.       *)
SavedIsFound ==
  \A n \in 1 .. Len(saves) : LET name == saves[n][1] IN
    /\ \E f \in Named(name) : files[f].content = saves[n][2]
    /\ \E k \in 1 .. Len(saves) : saves[k] = <<name, Lookup(name).content>>
=============================================================================
