---------------------------- MODULE AiraPrograms ----------------------------
(***************************************************************************)
(* What a program of the Aira language means, and the interpreter held     *)
(* against it.  A source is a sequence of blocks: statements that run once *)
(* (times = 0) or in a loop.  started remembers which program the shell    *)
(* compiled last and what it should show and leave in the variables.       *)
(***************************************************************************)
EXTENDS AiraLang, SequencesExt, FiniteSets

CONSTANT Sources  \* programs whose loops do not nest, as blocks

VARIABLE started

Stmt(t, k, n) == [t |-> t, k |-> k, n |-> n, text |-> <<>>]
Say(text) == [t |-> "print\"", k |-> NoName, n |-> <<>>, text |-> text]
SetText(k, text) == [t |-> "setstr", k |-> k, n |-> <<>>, text |-> text]
Block(times, body) == [times |-> times, body |-> body]

(* The statements of a source: names no longer than the interpreter reads, *)
(* numbers of at most two digits, texts without a quote that fit.          *)
Short == {n \in Names \cup {NoName} : Key(n) = n}
Unquoted == {w \in Words : w.t # "quote"}
Few(n) == [1 .. n -> 0 .. 99]
Statements ==
  [t : {"print("}, k : Short, n : {<<>>}, text : {<<>>}]
    \cup [t : {"set", "add", "sub", "mul", "div"}, k : Short, n : Few(1), text : {<<>>}]
    \cup [t : {"beep("}, k : Short \ {NoName}, n : Few(1), text : {<<>>}]
    \cup [t : {"beep("}, k : {NoName}, n : Few(2), text : {<<>>}]
    \cup [t : {"print\""}, k : {NoName}, n : {<<>>}, text : Seq(Unquoted)]
    \cup [t : {"setstr"}, k : Short, n : {<<>>}, text : {x \in Seq(Unquoted) : Len(x) <= StringMax}]
Blocks == {b \in [times : 0 .. 99, body : Seq(Statements)] : b.times < Half /\ (b.times = 0 => b.body # <<>>)}

ASSUME SourceAssumption == Sources \subseteq Seq(Blocks)

Sep == Word("sep", NoName)
Digits(n) == IF n > 9 THEN <<Digit(n \div 10), Digit(n % 10)>> ELSE <<Digit(n)>>
(* A statement as the words of a file; n holds the numbers it is given.    *)
Written(st) ==
  CASE st.t = "print("  -> <<Word("print(", st.k), Word("close", NoName), Sep>>
    [] st.t = "print\"" -> <<Word("print\"", NoName)>> \o st.text \o <<Word("quote", NoName), Word("close", NoName), Sep>>
    [] st.t = "setstr"  -> <<Word("set", st.k), Word("quote", NoName)>> \o st.text \o <<Word("quote", NoName), Sep>>
    [] st.t = "beep("   -> <<Word("beep(", NoName)>> \o Digits(st.n[1]) \o <<Word("comma", NoName)>>
                             \o (IF st.k = NoName THEN Digits(st.n[2]) ELSE <<Word("name", st.k)>>) \o <<Word("close", NoName), Sep>>
    [] OTHER            -> <<Word(st.t, st.k)>> \o Digits(st.n[1]) \o <<Sep>>
Body(b) == FlattenSeq([n \in 1 .. Len(b.body) |-> Written(b.body[n])])
File(src) ==
  FlattenSeq([n \in 1 .. Len(src) |->
    IF src[n].times = 0 THEN Body(src[n])
    ELSE <<Word("loop", NoName)>> \o Digits(src[n].times) \o <<Sep>> \o Body(src[n]) \o <<Word("endloop", NoName), Sep>>])

(* The statements in the order they run.                                   *)
Unrolled(src) ==
  FlattenSeq([n \in 1 .. Len(src) |->
    FlattenSeq([turn \in 1 .. (IF src[n].times = 0 THEN 1 ELSE src[n].times) |-> src[n].body])])

Unset == [type |-> "none", ival |-> 0, sval |-> <<>>]
Num(n) == [type |-> "int", ival |-> n, sval |-> <<>>]
(* A text leaves the number of its variable, which a beep plays.           *)
Text(n, x) == [type |-> "string", ival |-> n, sval |-> x]
(* What a statement does to a world of variables, screen and fault.        *)
Do(w, st) ==
  LET x == w.env[st.k]
      n == IF Len(st.n) > 0 THEN Wrap(st.n[1]) ELSE 0
      duration == IF st.k = NoName THEN Wrap(st.n[2]) ELSE x.ival
      Show(s) == [w EXCEPT !.screen = Append(@, s)]
  IN IF w.fault THEN w
     ELSE CASE st.t = "set"     -> [w EXCEPT !.env[st.k] = Num(n)]
            [] st.t = "setstr"  -> [w EXCEPT !.env[st.k] = Text(x.ival, st.text)]
            [] st.t = "print\"" -> Show(Shown("text", st.text, 0, 0))
            [] st.t = "print("  -> Show(IF x.type = "none" THEN Shown("undefined", <<>>, 0, 0)
                                        ELSE IF x.type = "int" THEN Shown("int", <<>>, x.ival, 0) ELSE Shown("text", x.sval, 0, 0))
            [] st.t = "beep("   -> IF n = 0 THEN [w EXCEPT !.fault = TRUE]
                                   ELSE [env |-> w.env, screen |-> Append(w.screen, Shown("tone", <<>>, n, duration)),
                                         fault |-> duration <= 0]
            [] st.t \in {"add", "sub", "mul", "div"} ->
                 IF x.type # "int" THEN w
                 ELSE IF Overflows(st.t, x.ival, n) THEN [w EXCEPT !.fault = TRUE]
                 ELSE [w EXCEPT !.env[st.k] = Num(Result(st.t, x.ival, n))]
Meaning(src, env) ==
  LET code == Unrolled(src)
      after[n \in 0 .. Len(code)] ==
        IF n = 0 THEN [env |-> env, screen |-> <<>>, fault |-> FALSE] ELSE Do(after[n - 1], code[n])
  IN after[Len(code)]

(* The variables by name.                                                  *)
Env ==
  [n \in Names \cup {NoName} |->
     LET v == find_var(n)
     IN IF v = -1 THEN Unset ELSE IF var_table[v].type = "int" THEN Num(var_table[v].ival) ELSE Text(var_table[v].ival, var_table[v].sval)]
Defined == {n \in Names \cup {NoName} : find_var(n) # -1}

(* A program is plain if its names and texts are within their lengths and  *)
(* there are slots for its variables.                                      *)
Sets(p) == {Key(p[n].k) : n \in {h \in 1 .. Len(p) : p[h].t = "set"}}
SlotsSuffice(p) == Cardinality(Defined \cup Sets(p)) <= VarSlots
Nothing == [plain |-> FALSE, result |-> [env |-> <<>>, screen |-> <<>>, fault |-> FALSE]]
Started(p) ==
  LET S == {s \in Sources : File(s) = p}
  IN [plain |-> S # {} /\ SlotsSuffice(p),
      result |-> IF S = {} THEN Nothing.result ELSE Meaning(CHOOSE s \in S : TRUE, Env)]

InitPrograms == AiraInit /\ started = Nothing
StartProgram == \E p \in Programs : Load(p) /\ started' = Started(p)
RunProgram == run_interper /\ UNCHANGED started
LoseProgram == Restart /\ started' = Nothing
NextPrograms == StartProgram \/ RunProgram \/ LoseProgram

SpecPrograms == InitPrograms /\ [][NextPrograms]_<<airaVars, started>>
FairPrograms == SpecPrograms /\ WF_<<airaVars, started>>(RunProgram)

-----------------------------------------------------------------------------
(* A plain program shows and leaves in the variables what its statements   *)
(* do in order, each loop repeated as often as it says, or faults where    *)
(* they do: whatever programs ran before it, whatever loop they left open  *)
(* and whatever longer file lies behind it in the buffer (run_interper,    *)
(* aira_lang.c:86-286; compile, kernel.c:137-150).                         *)
RunsAsWritten ==
  status # "running" /\ started.plain =>
    /\ started.result.fault = (status = "fault")
    /\ screen = started.result.screen
    /\ status = "shell" => Env = started.result.env

=============================================================================
