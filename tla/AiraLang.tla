------------------------------ MODULE AiraLang ------------------------------
(***************************************************************************)
(* The interpreter of the Aira language, kernel/aira_lang.c, and the       *)
(* command "compile" that runs it, kernel.c.  A program is read in place   *)
(* from file_system_buffer, word by word; the variables, the loop counter  *)
(* and the rest of an earlier and longer program survive from one run to   *)
(* the next.                                                               *)
(*                                                                         *)
(* A word stands for the characters the interpreter takes at once: a       *)
(* keyword with the name after it and the spaces in it, a digit, a quote,  *)
(* a separator (the end of a line), a space.                               *)
(*                                                                         *)
(* The names that beep is given are copied without a limit.  One that does *)
(* not fit runs over the stack; the machine is then "lost": what it does   *)
(* until it is switched off is not followed.                               *)
(***************************************************************************)
EXTENDS Integers, Sequences

CONSTANTS
  Programs,   \* the files: sequences of words
  BufLen,     \* words of file_system_buffer
  Names,      \* names as written in a program
  Key(_),     \* the first 15 characters of a name, all that is compared
  VarSlots,   \* slots of var_table: 50
  StringMax,  \* words of text a variable holds: 63 characters
  Half        \* 2^31: an int is from -Half to Half - 1

VARIABLES
  file_system_buffer, file_size,
  i,                             \* the word the interpreter is at
  var_table,
  loop_count, loop_start_index,
  screen,                        \* what the run printed and played
  status                         \* "shell", "running", "fault" or "lost"

airaVars == <<file_system_buffer, file_size, i, var_table, loop_count, loop_start_index, screen, status>>

Word(t, k) == [t |-> t, k |-> k, d |-> 0]
NoName == ""
Digit(n) == [t |-> "digit", k |-> NoName, d |-> n]
Nul == Word("nul", NoName)
Words == [t : {"nul", "sep", "space", "quote", "close", "comma", "text", "name", "print(", "print\"", "beep(", "set", "add",
               "sub", "mul", "div", "loop", "endloop"}, k : Names \cup {NoName}, d : {0}]
         \cup {Digit(n) : n \in 0 .. 9}

ASSUME AiraAssumption ==
  /\ VarSlots \in Nat \ {0} /\ StringMax \in Nat /\ Half \in Nat \ {0}
  /\ BufLen \in Nat /\ StringMax + 4 <= BufLen
  /\ Programs \subseteq Seq(Words)
  /\ \A p \in Programs : Len(p) + StringMax + 4 <= BufLen
  /\ Key(NoName) = NoName /\ \A n \in Names : Key(n) \in Names /\ Key(Key(n)) = Key(n)

(* A 32-bit int wraps; division truncates.                                 *)
IntMin == -Half
Int32 == IntMin .. Half - 1
Wrap(n) == ((n + Half) % (2 * Half)) - Half
Abs(n) == IF n < 0 THEN -n ELSE n
Quotient(a, b) == IF (a < 0) = (b < 0) THEN Abs(a) \div Abs(b) ELSE -(Abs(a) \div Abs(b))

(* What the program shows: a line of text, an integer, "Undefined          *)
(* Variable", or a tone.                                                   *)
Shown(what, text, n, m) == [what |-> what, text |-> text, n |-> n, m |-> m]

At(j) == file_system_buffer[j].t
(* The first word from j on that is not a digit, and the number before it. *)
NumberEnd(j) == CHOOSE e \in j .. BufLen : (e < BufLen => At(e) # "digit") /\ \A h \in j .. e - 1 : At(h) = "digit"
Number(j) ==
  LET e == NumberEnd(j)
      val[h \in j .. e] == IF h = j THEN 0 ELSE Wrap(val[h - 1] * 10 + file_system_buffer[h - 1].d)
  IN val[e]

(* A name of more than 15 characters is read only as far: what follows the *)
(* keyword is then the rest of the name, not the value.                    *)
Cut(n) == Key(n) # n

Free == [active |-> FALSE, name |-> NoName, type |-> "int", ival |-> 0, sval |-> <<>>]
VarIds == 0 .. VarSlots - 1
find_var(name) ==
  LET S == {s \in VarIds : var_table[s].active /\ var_table[s].name = name}
  IN IF S = {} THEN -1 ELSE CHOOSE s \in S : \A r \in S : s <= r
FreeSlot ==
  LET S == {s \in VarIds : ~var_table[s].active}
  IN IF S = {} THEN -1 ELSE CHOOSE s \in S : \A r \in S : s <= r

AiraInit ==
  /\ file_system_buffer = [j \in 0 .. BufLen - 1 |-> Nul]
  /\ file_size = 0
  /\ i = 0
  /\ var_table = [s \in VarIds |-> Free]
  /\ loop_count = 0 /\ loop_start_index = 0
  /\ screen = <<>>
  /\ status = "shell"

(* "compile": the file goes over the start of the buffer.  What an earlier *)
(* and longer file left behind it stays, and no zero ends the new one.     *)
Load(p) ==
  /\ status = "shell"
  /\ file_system_buffer' = [j \in 0 .. BufLen - 1 |-> IF j < Len(p) THEN p[j + 1] ELSE file_system_buffer[j]]
  /\ file_size' = Len(p)
  /\ i' = 0
  /\ screen' = <<>>
  /\ status' = IF p = <<>> THEN "shell" ELSE "running"
  /\ UNCHANGED <<var_table, loop_count, loop_start_index>>

-----------------------------------------------------------------------------
(* The statements: each is one turn of the loop of run_interper.           *)
Reading(t) == status = "running" /\ i < file_size /\ At(i) = t
Loaded == <<file_system_buffer, file_size>>
Looping == <<loop_count, loop_start_index>>

AfterClose(j) == IF At(j) = "close" THEN j + 1 ELSE j

(* Text between quotes, up to the end of the file if no quote closes it.   *)
PrintText ==
  /\ Reading("print\"")
  /\ LET e == CHOOSE j \in i + 1 .. file_size :
                /\ j = file_size \/ At(j) = "quote"
                /\ \A h \in i + 1 .. j - 1 : At(h) # "quote"
     IN /\ screen' = Append(screen, Shown("text", [n \in 1 .. e - i - 1 |-> file_system_buffer[i + n]], 0, 0))
        /\ i' = AfterClose(e + 1)
  /\ UNCHANGED <<Loaded, var_table, Looping, status>>

PrintVar ==
  /\ Reading("print(")
  /\ LET name == file_system_buffer[i].k
         v == find_var(Key(name))
     IN /\ screen' = Append(screen,
             IF v = -1 THEN Shown("undefined", <<>>, 0, 0)
             ELSE IF var_table[v].type = "string" THEN Shown("text", var_table[v].sval, 0, 0)
             ELSE Shown("int", <<>>, var_table[v].ival, 0))
        /\ i' = IF Cut(name) THEN i + 1 ELSE AfterClose(i + 1)
  /\ UNCHANGED <<Loaded, var_table, Looping, status>>

(* The name that an argument of beep begins with ends before a stop, or at *)
(* the space in a keyword; BufLen if neither comes.                        *)
Spaced == {"set", "add", "sub", "mul", "div", "loop"}
EndsName(j, e, stops) == At(e) \in stops \/ (e > j /\ At(e - 1) \in Spaced)
NameEnd(j, stops) ==
  CHOOSE e \in j .. BufLen : (e < BufLen => EndsName(j, e, stops)) /\ \A h \in j .. e - 1 : ~ EndsName(j, h, stops)
(* One word, or none at all.                                               *)
OneName(j, stops) == NameEnd(j, stops) <= j + 1 /\ At(j) \in stops \cup {"name"}

Value(name) == LET v == find_var(name) IN IF v = -1 THEN 0 ELSE var_table[v].ival
(* Several words make a name that may be any variable's, or nobody's.      *)
Values(j, stops) ==
  IF NameEnd(j, stops) = BufLen \/ Cut(file_system_buffer[j].k) THEN {}
  ELSE IF OneName(j, stops) THEN {Value(file_system_buffer[j].k)}
  ELSE {0} \cup {var_table[s].ival : s \in VarIds}

(* What an argument of beep may be taken for: a number, or the number of   *)
(* the variable it names.                                                  *)
Arguments(j, stops) ==
  IF At(j) = "digit" THEN {[value |-> Number(j), next |-> NumberEnd(j)]}
  ELSE {[value |-> n, next |-> NameEnd(j, stops)] : n \in Values(j, stops)}
(* A name of more than 15 characters overruns vname[16], and so may one    *)
(* that goes on for several words because nothing ends the first.          *)
Overruns(j, stops) == At(j) # "digit" /\ (~ OneName(j, stops) \/ Cut(file_system_buffer[j].k))

FreqStops == {"comma", "close", "space"}
TimeStops == {"close", "space"}
AfterCommas(j) ==
  CHOOSE e \in j .. BufLen :
    (e < BufLen => At(e) \notin {"comma", "space"}) /\ \A h \in j .. e - 1 : At(h) \in {"comma", "space"}
Durations(j) == IF At(j) = "close" THEN {[value |-> 0, next |-> j]} ELSE Arguments(j, TimeStops)

(* play_sound divides by the frequency.  Without a duration the tone is    *)
(* ended by one of frequency 0.                                            *)
PlaysZero(freq, duration) == freq = 0 \/ duration <= 0
Beep ==
  /\ Reading("beep(")
  /\ \E freq \in Arguments(i + 1, FreqStops) : \E duration \in Durations(AfterCommas(freq.next)) :
       /\ i' = AfterClose(duration.next)
       /\ screen' = IF freq.value = 0 THEN screen ELSE Append(screen, Shown("tone", <<>>, freq.value, duration.value))
       /\ status' = IF PlaysZero(freq.value, duration.value) THEN "fault" ELSE status
  /\ UNCHANGED <<Loaded, var_table, Looping>>

BeepOverrun ==
  /\ Reading("beep(")
  /\ \/ Overruns(i + 1, FreqStops)
     \/ \E freq \in Arguments(i + 1, FreqStops) :
          LET j == AfterCommas(freq.next) IN At(j) # "close" /\ Overruns(j, TimeStops)
  /\ status' = "lost"
  /\ UNCHANGED <<Loaded, i, var_table, Looping, screen>>

(* The value of an assignment: text, of which StringMax words fit, or a    *)
(* number.  Where the text is cut the rest of it is read as statements.    *)
TextEnd(j) ==
  CHOOSE e \in j .. j + StringMax : (e = j + StringMax \/ At(e) = "quote") /\ \A h \in j .. e - 1 : At(h) # "quote"
Set ==
  /\ Reading("set")
  /\ LET name == file_system_buffer[i].k
         found == find_var(Key(name))
         v == IF found = -1 THEN FreeSlot ELSE found
         text == At(i + 1) = "quote" /\ ~Cut(name)
         slot == IF text
                 THEN [var_table[v] EXCEPT !.active = TRUE, !.name = Key(name), !.type = "string",
                         !.sval = [n \in 1 .. TextEnd(i + 2) - i - 2 |-> file_system_buffer[i + 1 + n]]]
                 ELSE [var_table[v] EXCEPT !.active = TRUE, !.name = Key(name), !.type = "int",
                         !.ival = IF Cut(name) THEN 0 ELSE Number(i + 1)]
     IN IF v = -1
        THEN i' = i + 1 /\ UNCHANGED var_table
        ELSE /\ var_table' = [var_table EXCEPT ![v] = slot]
             /\ i' = IF Cut(name) THEN i + 1 ELSE IF text THEN TextEnd(i + 2) + 1 ELSE NumberEnd(i + 1)
  /\ UNCHANGED <<Loaded, Looping, screen, status>>

(* add, sub, mul, div.  The one quotient no int holds faults the processor.*)
Overflows(op, a, b) == op = "div" /\ a = IntMin /\ b = -1
Result_NoWrap(op, a, b) ==
  CASE op = "add" -> a + b
    [] op = "sub" -> Wrap(a - b)
    [] op = "mul" -> Wrap(a * b)
    [] op = "div" -> IF b = 0 THEN a ELSE Quotient(a, b)
Result(op, a, b) ==
  CASE op = "add" -> Wrap(a + b)
    [] op = "sub" -> Wrap(a - b)
    [] op = "mul" -> Wrap(a * b)
    [] op = "div" -> IF b = 0 THEN a ELSE Quotient(a, b)
process_math(op) ==
  /\ Reading(op)
  /\ LET name == file_system_buffer[i].k
         val == IF Cut(name) THEN 0 ELSE Number(i + 1)
         v == find_var(Key(name))
         counts == v # -1 /\ var_table[v].type = "int"
     IN /\ i' = IF Cut(name) THEN i + 1 ELSE NumberEnd(i + 1)
        /\ IF counts /\ Overflows(op, var_table[v].ival, val)
           THEN status' = "fault" /\ UNCHANGED var_table
           ELSE /\ UNCHANGED status
                /\ var_table' = IF counts THEN [var_table EXCEPT ![v].ival = Result(op, @, val)] ELSE var_table
  /\ UNCHANGED <<Loaded, Looping, screen>>

Loop ==
  /\ Reading("loop")
  /\ loop_count' = Number(i + 1)
  /\ loop_start_index' = NumberEnd(i + 1)
  /\ i' = NumberEnd(i + 1)
  /\ UNCHANGED <<Loaded, var_table, screen, status>>

EndLoop_Always ==
  /\ Reading("endloop")
  /\ i' = loop_start_index
  /\ UNCHANGED <<Loaded, var_table, loop_count, loop_start_index, screen, status>>
EndLoop_FromZero ==
  /\ Reading("endloop")
  /\ IF loop_count > 0
     THEN i' = loop_start_index /\ loop_count' = loop_count - 1
     ELSE i' = i + 1 /\ UNCHANGED loop_count
  /\ UNCHANGED <<Loaded, var_table, loop_start_index, screen, status>>
EndLoop ==
  /\ Reading("endloop")
  /\ IF loop_count > 1
     THEN i' = loop_start_index /\ loop_count' = loop_count - 1
     ELSE i' = i + 1 /\ UNCHANGED loop_count
  /\ UNCHANGED <<Loaded, var_table, loop_start_index, screen, status>>

(* Anything else is passed over, a colour, a pause and a clear screen too. *)
Skip ==
  /\ status = "running" /\ i < file_size
  /\ At(i) \in {"nul", "sep", "space", "quote", "close", "comma", "text", "name", "digit"}
  /\ i' = i + 1
  /\ UNCHANGED <<Loaded, var_table, Looping, screen, status>>

Return ==
  /\ status = "running" /\ i >= file_size
  /\ status' = "shell"
  /\ UNCHANGED <<Loaded, i, var_table, Looping, screen>>

(* No gate of the table handles an exception: the machine starts again.    *)
(* One that is lost has to be switched off.                                *)
Restart ==
  /\ status \in {"fault", "lost"}
  /\ file_system_buffer' = [j \in 0 .. BufLen - 1 |-> Nul]
  /\ file_size' = 0
  /\ i' = 0
  /\ var_table' = [s \in VarIds |-> Free]
  /\ loop_count' = 0 /\ loop_start_index' = 0
  /\ screen' = <<>>
  /\ status' = "shell"

run_interper ==
  \/ PrintText \/ PrintVar \/ Beep \/ BeepOverrun \/ Set \/ Loop \/ EndLoop \/ Skip \/ Return
  \/ \E op \in {"add", "sub", "mul", "div"} : process_math(op)
AiraNext == (\E p \in Programs : Load(p)) \/ run_interper \/ Restart

AiraSpec == AiraInit /\ [][AiraNext]_airaVars

-----------------------------------------------------------------------------
(* Every value is in its range, and a name has one variable, whatever      *)
(* programs ran and in whatever order (find_var and the free slot of set,  *)
(* aira_lang.c:33-40, 206-211) - until the name of a beep has overrun its  *)
(* sixteen bytes (status = "lost", aira_lang.c:165, 179), after which the  *)
(* model only keeps what was there before.                                 *)
AiraTypeOK ==
  /\ file_system_buffer \in [0 .. BufLen - 1 -> Words]
  /\ file_size \in 0 .. BufLen
  /\ i \in 0 .. BufLen
  /\ \A s \in VarIds : /\ var_table[s].active \in BOOLEAN
                      /\ var_table[s].name \in Names \cup {NoName}
                      /\ var_table[s].type \in {"int", "string"}
                      /\ var_table[s].ival \in Int32
                      /\ Len(var_table[s].sval) <= StringMax
  /\ \A r, s \in VarIds : var_table[r].active /\ var_table[s].active /\ var_table[r].name = var_table[s].name => r = s
  /\ loop_count \in Int32 /\ loop_start_index \in 0 .. BufLen
  /\ status \in {"shell", "running", "fault", "lost"}

(* Every program comes back to the shell, faults or runs over the stack,   *)
(* also one with loops that do not nest or close, over whatever loop an    *)
(* earlier one left (the loop of run_interper and the jump of endloop,     *)
(* aira_lang.c:92, 271-278): no count is set again before its endloop has  *)
(* run it out.                                                             *)
ProgramsEnd == status = "running" ~> status # "running"

(* A beep that is given a frequency sounds it and the program goes on      *)
(* (README.md:164-168: "beep(440)", "beep(440,10)", "beeps freq or freq    *)
(* and duration"; run_interper, aira_lang.c:186-193).                      *)
BeepReturns == [][Reading("beep(") /\ At(i + 1) = "digit" /\ Number(i + 1) > 0 => status' # "fault"]_airaVars
=============================================================================
