---------------------------- MODULE MCAiraLang ------------------------------
(* Programs for TLC: plain ones, and ones that nest loops, leave one open  *)
(* or close none, end in a digit, use long names or texts, give beep a     *)
(* long name, none or one without an end, or run out of variables.         *)
EXTENDS AiraPrograms

MCNames == {"x", "y", "z", "long1", "long2", "long"}
MCKey(n) == IF n \in {"long1", "long2"} THEN "long" ELSE n

T == Word("text", "")
LoopWord == Word("loop", "")
EndWord == Word("endloop", "")
Quote == Word("quote", "")

Telling == <<Block(0, <<SetText("y", <<T, T>>), Stmt("add", "y", <<1>>), Stmt("print(", "y", <<>>),
                        Say(<<LoopWord, Digit(5), EndWord>>)>>)>>
Sounding == <<Block(0, <<Stmt("set", "y", <<2>>), SetText("y", <<T>>), Stmt("beep(", "y", <<1>>), Stmt("set", "y", <<2>>)>>), Block(2, <<Stmt("beep(", "y", <<4>>), Stmt("sub", "y", <<1>>), Stmt("print(", "z", <<>>)>>)>>
Dividing == <<Block(0, <<Stmt("div", "x", <<2>>), Stmt("set", "y", <<4>>), Stmt("div", "y", <<15>>), Stmt("print(", "y", <<>>)>>)>>
ThirdName == <<Block(0, <<Stmt("set", "z", <<1>>), Stmt("div", "z", <<0>>)>>),
               Block(1, <<Stmt("mul", "x", <<3>>), Stmt("print(", "x", <<>>)>>), Block(2, <<Stmt("sub", "z", <<1>>)>>)>>
MCSources == {Telling, Sounding, Dividing, ThirdName}

InLoops == <<LoopWord, Digit(2), Sep, LoopWord, Digit(3), Sep, Word("add", "x"), Digit(1), Sep, EndWord, Sep, T, EndWord>>

Odd == {
  InLoops,
  <<LoopWord, Digit(3), Sep, Word("set", ""), Digit(1), Sep>>, \* a loop left open, a variable without a name
  <<T, EndWord, Sep, LoopWord, Digit(2), Sep, T, EndWord, EndWord>>,
  <<Word("set", "x"), Digit(1)>>,                              \* ends in a digit
  <<Word("set", "long1"), Digit(7), Sep, Word("mul", "long2"), Digit(2), Sep, Word("print(", "long1"), Word("close", "")>>,
  <<Word("set", "z"), Quote, T, T, T, LoopWord, Digit(4), EndWord, Quote, Sep>>,
  <<Word("print\"", ""), T, EndWord, T>>,                      \* text without a closing quote
  <<Word("beep(", ""), Digit(3), Word("close", ""), Sep>>,
  <<Word("beep(", ""), Word("name", "long1"), Word("close", "")>>,
  <<Word("beep(", ""), Word("comma", ""), Word("space", ""), Word("name", "x")>>,  \* no name, no end
  <<>>}
MCPrograms == {File(s) : s \in MCSources} \cup Odd
=============================================================================
