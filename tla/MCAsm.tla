------------------------------- MODULE MCAsm --------------------------------
(* Sources for TLC: three lines, each with or without a label, in every    *)
(* order; "long" and "longer" are labels of more than 15 characters.       *)
EXTENDS Asm

MCNames == {"a", "b", "long", "longer"}
MCKey(l) == IF l \in {"long", "longer"} THEN "longer" ELSE l

Number(v) == [label |-> NoName, num |-> v]
Name(l) == [label |-> l, num |-> 0]
Ins(op, reg, val, bytes, chars) == [op |-> op, reg |-> reg, val |-> val, bytes |-> bytes, chars |-> chars]
Instructions == {
  Ins("db", 0, Number(0), [k \in 1 .. 7 |-> k % 4], 8),
  Ins("mov", 1, Name("b"), <<>>, 6), Ins("pushv", 0, Number(77), <<>>, 6), Ins("push", 3, Number(0), <<>>, 5),
  Ins("jmp", 0, Name("a"), <<>>, 5), Ins("jmp", 0, Name("long"), <<>>, 5), Ins("jmp", 0, Name("longer"), <<>>, 5),
  Ins("add", 0, Number(5), <<>>, 5), Ins("ret", 0, Number(0), <<>>, 4),
  Ins("call", 2, Number(0), <<>>, 4), Ins("int", 0, Number(9), <<>>, 4),
  Ins("blank", 0, Number(0), <<>>, 3), Ins("bad", 0, Number(0), <<>>, 3)}
At(label, ins, start) ==
  [label |-> label, op |-> ins.op, reg |-> ins.reg, val |-> ins.val, bytes |-> ins.bytes, start |-> start, chars |-> ins.chars]
MCSources ==
  {<<At(l[1], x, 0), At(l[2], y, x.chars), At(l[3], z, x.chars + y.chars)>> :
      l \in {<<NoName, "a", NoName>>, <<"a", NoName, "b">>, <<"b", "a", "a">>, <<NoName, "long", "a">>},
      x \in Instructions, y \in Instructions, z \in Instructions}
=============================================================================
