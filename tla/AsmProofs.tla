----------------------------- MODULE AsmProofs ------------------------------
(***************************************************************************)
(* The two passes of the assembler agree on the address of every line, the *)
(* output fits its buffer, jumps land on their labels and what is refused  *)
(* has a fault, for every source.                                          *)
(***************************************************************************)
EXTENDS Asm, FiniteSetTheorems, WellFoundedInduction, TLAPS

OpNames == {"byte", "mov", "push", "pushv", "group5", "call", "imm8", "add", "sub", "int", "jmp"} \cup Plain
Elements == [op : OpNames, v : Bytes \cup Registers]

LEMMA ByteElement == ASSUME NEW x \in Int PROVE Byte(x % Base) \in Elements
<1>1. x % Base \in Bytes
  BY AsmAssumption DEF Bytes
<1> QED BY <1>1 DEF Byte, Elements, OpNames

LEMMA DataLength == ASSUME NEW s \in Seq(Bytes) PROVE Data(s) \in Seq(Elements) /\ Len(Data(s)) = Len(s)
<1>1. \A b \in Bytes : Byte(b) \in Elements
  BY AsmAssumption DEF Byte, Elements, OpNames, Bytes
<1>2. \A k \in 1 .. Len(s) : Byte(s[k]) \in Elements
  BY <1>1
<1> QED BY <1>2 DEF Data

LEMMA LowLength == ASSUME NEW v \in Int PROVE Low(v) \in Seq(Elements) /\ Len(Low(v)) = 1
  BY ByteElement DEF Low
LEMMA DwordLength == ASSUME NEW v \in Int PROVE Dword(v) \in Seq(Elements) /\ Len(Dword(v)) = 4
<1>1. Base \in Nat \ {0} /\ Base * Base \in Nat \ {0} /\ Base * Base * Base \in Nat \ {0}
  BY AsmAssumption
<1>2. \A d \in Nat \ {0} : v \div d \in Int
  OBVIOUS
<1>3. v \div Base \in Int /\ v \div (Base * Base) \in Int /\ v \div (Base * Base * Base) \in Int
  BY <1>1, <1>2
<1> QED BY <1>3, ByteElement DEF Dword
LEMMA OpLength == ASSUME NEW name \in OpNames, NEW reg \in Registers
                  PROVE  Op(name, reg) \in Seq(Elements) /\ Len(Op(name, reg)) = 1
  BY DEF Op, Elements, Registers
LEMMA JoinLength == ASSUME NEW s \in Seq(Elements), NEW t \in Seq(Elements)
                    PROVE  s \o t \in Seq(Elements) /\ Len(s \o t) = Len(s) + Len(t)
  OBVIOUS

(* The shapes of an instruction.                                           *)
LEMMA OpDword == ASSUME NEW name \in OpNames, NEW reg \in Registers, NEW v \in Int
                 PROVE  Op(name, reg) \o Dword(v) \in Seq(Elements) /\ Len(Op(name, reg) \o Dword(v)) = 5
<1>1. Op(name, reg) \in Seq(Elements) /\ Len(Op(name, reg)) = 1
  BY OpLength
<1>2. Dword(v) \in Seq(Elements) /\ Len(Dword(v)) = 4
  BY DwordLength
<1>3. /\ Op(name, reg) \o Dword(v) \in Seq(Elements)
      /\ Len(Op(name, reg) \o Dword(v)) = Len(Op(name, reg)) + Len(Dword(v))
  BY <1>1, <1>2, JoinLength
<1> QED BY <1>1, <1>2, <1>3
LEMMA OpOp == ASSUME NEW name \in OpNames, NEW reg \in Registers, NEW other \in OpNames, NEW r \in Registers
              PROVE  /\ Op(name, reg) \o Op(other, r) \in Seq(Elements)
                     /\ Len(Op(name, reg) \o Op(other, r)) = 2
<1>1. Op(name, reg) \in Seq(Elements) /\ Len(Op(name, reg)) = 1
  BY OpLength
<1>2. Op(other, r) \in Seq(Elements) /\ Len(Op(other, r)) = 1
  BY OpLength
<1>3. /\ Op(name, reg) \o Op(other, r) \in Seq(Elements)
      /\ Len(Op(name, reg) \o Op(other, r)) = Len(Op(name, reg)) + Len(Op(other, r))
  BY <1>1, <1>2, JoinLength
<1> QED BY <1>1, <1>2, <1>3
LEMMA ThenLow == ASSUME NEW s \in Seq(Elements), NEW v \in Int
                 PROVE  s \o Low(v) \in Seq(Elements) /\ Len(s \o Low(v)) = Len(s) + 1
  BY LowLength, JoinLength

LEMMA ModulusPositive == Modulus \in Nat \ {0} /\ Org \in Addresses
  BY AsmAssumption DEF Modulus, Addresses
LEMMA SizeNat == ASSUME NEW line \in Lines PROVE Size(line) \in Nat
  BY DEF Size, Lines

(* The bytes of a line are as many as either pass counts (process_line,    *)
(* asm.c:172-269).                                                         *)
LEMMA EncodeSize ==
  ASSUME NEW line \in Lines, NEW v \in Int, addr \in Int
  PROVE  Encode(line, v) \in Seq(Elements) /\ Len(Encode(line, v)) = Size(line)
<1>0. line.reg \in Registers /\ 0 \in Registers /\ line.bytes \in Seq(Bytes)
  BY DEF Lines, Registers
<1>1. CASE line.op = "db"
  <2>1. Encode(line, v) = Data(line.bytes)
    BY <1>1, SMTT(30) DEF Encode, Plain
  <2>2. Size(line) = Len(line.bytes)
    BY <1>0, <1>1 DEF Size, Plain
  <2> QED BY <1>0, <2>1, <2>2, DataLength
<1>2. CASE line.op = "mov"
  <2>1. Encode(line, v) = Op("mov", line.reg) \o Dword(v)
    BY <1>2, SMTT(30) DEF Encode, Plain
  <2>2. Size(line) = 5
    BY <1>2 DEF Size, Plain
  <2>3. (Op("mov", line.reg) \o Dword(v)) \in Seq(Elements) /\ Len((Op("mov", line.reg) \o Dword(v))) = 5
    BY <1>0, OpDword DEF OpNames
  <2> QED BY <2>1, <2>2, <2>3
<1>3. CASE line.op = "push"
  <2>1. Encode(line, v) = Op("push", line.reg)
    BY <1>3, SMTT(30) DEF Encode, Plain
  <2>2. Size(line) = 1
    BY <1>3 DEF Size, Plain
  <2>3. Op("push", line.reg) \in Seq(Elements) /\ Len(Op("push", line.reg)) = 1
    BY <1>0, OpLength DEF OpNames
  <2> QED BY <2>1, <2>2, <2>3
<1>4. CASE line.op = "pushv"
  <2>1. Encode(line, v) = Op("pushv", 0) \o Dword(v)
    BY <1>4, SMTT(30) DEF Encode, Plain
  <2>2. Size(line) = 5
    BY <1>4 DEF Size, Plain
  <2>3. (Op("pushv", 0) \o Dword(v)) \in Seq(Elements) /\ Len((Op("pushv", 0) \o Dword(v))) = 5
    BY OpDword DEF OpNames, Registers
  <2> QED BY <2>1, <2>2, <2>3
<1>5. CASE line.op = "call"
  <2>1. Encode(line, v) = Op("group5", 0) \o Op("call", line.reg)
    BY <1>5, SMTT(30) DEF Encode, Plain
  <2>2. Size(line) = 2
    BY <1>5 DEF Size, Plain
  <2>3. (Op("group5", 0) \o Op("call", line.reg)) \in Seq(Elements) /\ Len((Op("group5", 0) \o Op("call", line.reg))) = 2
    <3>1. \A r \in Registers : /\ Op("group5", 0) \o Op("call", r) \in Seq(Elements)
                        /\ Len(Op("group5", 0) \o Op("call", r)) = 2
      BY <1>0, OpOp DEF OpNames
    <3> QED BY <1>0, <3>1
  <2> QED BY <2>1, <2>2, <2>3
<1>6. CASE line.op = "add"
  <2>1. Encode(line, v) = (Op("imm8", 0) \o Op("add", 0)) \o Low(v)
    BY <1>6, SMTT(30) DEF Encode, Plain
  <2>2. Size(line) = 3
    BY <1>6 DEF Size, Plain
  <2>3. (Op("imm8", 0) \o Op("add", 0)) \in Seq(Elements) /\ Len((Op("imm8", 0) \o Op("add", 0))) = 2
    BY OpOp DEF OpNames, Registers
  <2>4. (Op("imm8", 0) \o Op("add", 0)) \o Low(v) \in Seq(Elements) /\ Len((Op("imm8", 0) \o Op("add", 0)) \o Low(v)) = Len((Op("imm8", 0) \o Op("add", 0))) + 1
    BY <2>3, ThenLow
  <2>5. ((Op("imm8", 0) \o Op("add", 0)) \o Low(v)) \in Seq(Elements) /\ Len(((Op("imm8", 0) \o Op("add", 0)) \o Low(v))) = 3
    BY <2>3, <2>4
  <2> QED BY <2>1, <2>2, <2>5
<1>7. CASE line.op = "sub"
  <2>1. Encode(line, v) = (Op("imm8", 0) \o Op("sub", 0)) \o Low(v)
    BY <1>7, SMTT(30) DEF Encode, Plain
  <2>2. Size(line) = 3
    BY <1>7 DEF Size, Plain
  <2>3. (Op("imm8", 0) \o Op("sub", 0)) \in Seq(Elements) /\ Len((Op("imm8", 0) \o Op("sub", 0))) = 2
    BY OpOp DEF OpNames, Registers
  <2>4. (Op("imm8", 0) \o Op("sub", 0)) \o Low(v) \in Seq(Elements) /\ Len((Op("imm8", 0) \o Op("sub", 0)) \o Low(v)) = Len((Op("imm8", 0) \o Op("sub", 0))) + 1
    BY <2>3, ThenLow
  <2>5. ((Op("imm8", 0) \o Op("sub", 0)) \o Low(v)) \in Seq(Elements) /\ Len(((Op("imm8", 0) \o Op("sub", 0)) \o Low(v))) = 3
    BY <2>3, <2>4
  <2> QED BY <2>1, <2>2, <2>5
<1>8. CASE line.op = "int"
  <2>1. Encode(line, v) = Op("int", 0) \o Low(v)
    BY <1>8, SMTT(30) DEF Encode, Plain
  <2>2. Size(line) = 2
    BY <1>8 DEF Size, Plain
  <2>3. Op("int", 0) \in Seq(Elements) /\ Len(Op("int", 0)) = 1
    BY OpLength DEF OpNames, Registers
  <2>4. Op("int", 0) \o Low(v) \in Seq(Elements) /\ Len(Op("int", 0) \o Low(v)) = Len(Op("int", 0)) + 1
    BY <2>3, ThenLow
  <2>5. (Op("int", 0) \o Low(v)) \in Seq(Elements) /\ Len((Op("int", 0) \o Low(v))) = 2
    BY <2>3, <2>4
  <2> QED BY <2>1, <2>2, <2>5
<1>9. CASE line.op = "jmp"
  <2>1. Encode(line, v) = Op("jmp", 0) \o Dword(((v - (addr + 5)) % Modulus))
    BY <1>9, SMTT(30) DEF Encode, Plain
  <2>2. Size(line) = 5
    BY <1>9 DEF Size, Plain
  <2>3. ((v - (addr + 5)) % Modulus) \in Int
    BY ModulusPositive
  <2>4. (Op("jmp", 0) \o Dword(((v - (addr + 5)) % Modulus))) \in Seq(Elements) /\ Len((Op("jmp", 0) \o Dword(((v - (addr + 5)) % Modulus)))) = 5
    <3>1. \A w \in Int : Op("jmp", 0) \o Dword(w) \in Seq(Elements) /\ Len(Op("jmp", 0) \o Dword(w)) = 5
      BY OpDword DEF OpNames, Registers
    <3> QED BY <2>3, <3>1
  <2> QED BY <2>1, <2>2, <2>4
<1>10. CASE line.op \in Plain
  <2>1. Encode(line, v) = Op(line.op, 0)
    BY <1>10 DEF Encode, Plain
  <2>2. Size(line) = 1
    BY <1>10 DEF Size, Plain
  <2>3. Op(line.op, 0) \in Seq(Elements) /\ Len(Op(line.op, 0)) = 1
    <3>1. line.op \in OpNames
      BY <1>10 DEF OpNames, Registers
    <3> QED BY <1>0, <3>1, OpLength
  <2> QED BY <2>1, <2>2, <2>3
<1>11. CASE line.op \in {"blank", "bad"}
  BY <1>11 DEF Encode, Size, Plain
<1> QED BY <1>1, <1>2, <1>3, <1>4, <1>5, <1>6, <1>7, <1>8, <1>9, <1>10, <1>11 DEF Lines, OfRegister, OfValue, Plain

(* Sums may be reduced early.                                              *)
LEMMA ModSum == ASSUME NEW m \in Nat \ {0}, NEW a \in Int, NEW b \in Int
                PROVE  ((a % m) + b) % m = (a + b) % m
<1> DEFINE q == a \div m
           r == a % m
           s == r + b
<1>1. a = m * q + r /\ q \in Int /\ r \in 0 .. m - 1
  OBVIOUS
<1>2. s = m * (s \div m) + (s % m) /\ s \div m \in Int /\ s % m \in 0 .. m - 1
  BY <1>1
<1>3. a + b = m * ((a + b) \div m) + ((a + b) % m) /\ (a + b) \div m \in Int /\ (a + b) % m \in 0 .. m - 1
  OBVIOUS
<1>4. \A d \in Int, e \in 0 .. m - 1, f \in 0 .. m - 1 : e = m * d + f => d = 0
  OBVIOUS
<1>5. \A x, y, z \in Int : m * (x - y - z) = m * x - m * y - m * z
  OBVIOUS
<1> DEFINE x == (a + b) \div m
           z == s \div m
<1>6. m * (x - q - z) = m * x - m * q - m * z
  BY <1>1, <1>2, <1>3, <1>5
<1>7. s % m = m * (x - q - z) + ((a + b) % m)
  BY <1>1, <1>2, <1>3, <1>6
<1>8. x - q - z = 0
  BY <1>1, <1>2, <1>3, <1>4, <1>7
<1> QED BY <1>1, <1>2, <1>3, <1>6, <1>7, <1>8

(***************************************************************************)
(* The invariant.  Pass one has given every line before the one it is at   *)
(* the address after the line before it; pass two follows, and has put out *)
(* no more bytes than the lines behind it have characters.                 *)
(***************************************************************************)
Typed ==
  /\ src \in Sources \cup {<<>>}
  /\ pass \in {"idle", "one", "two", "ok", "failed"}
  /\ n \in 1 .. Len(src) + 1
  /\ addr \in Addresses
  /\ labels \in Seq([name : Names, addr : Addresses]) /\ Len(labels) <= MaxLabels
  /\ at \in Seq(Addresses)
  /\ out \in Seq(Elements)
After(k) == (at[k] + Size(src[k])) % Modulus
Starts == Len(at) > 0 => at[1] = Org
Chained == \A k \in 1 .. Len(at) - 1 : at[k + 1] = After(k)
Nothing == pass = "idle" => src = <<>> /\ at = <<>> /\ out = <<>> /\ addr = Org
Counting == pass = "one" => Len(at) = n - 1 /\ addr = (IF n = 1 THEN Org ELSE After(n - 1)) /\ out = <<>>
Putting ==
  pass = "two" =>
    /\ Len(at) = Len(src)
    /\ n <= Len(src) => addr = at[n] /\ Len(out) <= src[n].start
    /\ (Org + Len(out)) % Modulus = addr
Inv == Typed /\ Starts /\ Chained /\ Nothing /\ Counting /\ Putting /\ OutputFits

LEMMA SourceTyped ==
  ASSUME Typed
  PROVE  /\ src \in Seq(Lines)
         /\ \A k \in 1 .. Len(src) :
              /\ src[k] \in Lines /\ Size(src[k]) \in Nat /\ src[k].start \in Nat /\ src[k].chars \in Nat
              /\ Size(src[k]) <= src[k].chars
              /\ src[k].start + src[k].chars <= MaxOut
              /\ k < Len(src) => src[k].start + src[k].chars <= src[k + 1].start
<1>1. src \in Seq(Lines)
  <2>1. Sources \subseteq Seq(Lines) /\ <<>> \in Seq(Lines)
    BY AsmAssumption
  <2> QED BY <2>1 DEF Typed
<1>2. \A k \in 1 .. Len(src) : src[k] \in Lines
  BY <1>1
<1>3. \A k \in 1 .. Len(src) : src[k].start \in Nat /\ src[k].chars \in Nat
  BY <1>2 DEF Lines
<1>4. \A k \in 1 .. Len(src) : Size(src[k]) \in Nat
  BY <1>2, SizeNat
<1>5. CASE src = <<>>
  BY <1>1, <1>5
<1>6. CASE src \in Sources
  BY <1>1, <1>2, <1>3, <1>4, <1>6, WrittenAssumption
<1> QED BY <1>5, <1>6 DEF Typed

LEMMA ResolveTyped == ASSUME Typed, NEW val \in Values, Resolves(val) PROVE resolve_value(val) \in Int
<1>1. CASE val.label = NoName
  BY <1>1 DEF resolve_value, Values, Addresses
<1>2. CASE val.label # NoName
  <2>1. PICK k \in Found(val.label) : k = CHOOSE j \in Found(val.label) : TRUE
    BY <1>2 DEF Resolves
  <2>2. k \in 1 .. Len(labels)
    BY DEF Found
  <2>3. labels[k] \in [name : Names, addr : Addresses]
    <3>1. labels \in Seq([name : Names, addr : Addresses])
      BY DEF Typed
    <3>2. \A E : \A s \in Seq(E) : \A j \in 1 .. Len(s) : s[j] \in E
      OBVIOUS
    <3> QED BY <2>2, <3>1, <3>2
  <2>4. labels[k].addr \in Addresses
    BY <2>3
  <2> QED BY <1>2, <2>1, <2>4 DEF resolve_value, Addresses
<1> QED BY <1>1, <1>2

LEMMA InitInv == Init => Inv
  BY AsmAssumption, ModulusPositive DEF Init, Inv, Typed, Starts, Chained, Nothing, Counting, Putting, OutputFits

LEMMA NextInv == Inv /\ [Next]_vars => Inv'
<1> SUFFICES ASSUME Inv, [Next]_vars PROVE Inv'
  OBVIOUS
<1>0. Typed /\ Starts /\ Chained /\ Nothing /\ Counting /\ Putting /\ OutputFits
  BY DEF Inv
<1>a. Modulus \in Nat \ {0} /\ Org \in Addresses /\ MaxOut \in Nat
  BY ModulusPositive, AsmAssumption
<1>b. src \in Seq(Lines) /\ \A k \in 1 .. Len(src) : src[k] \in Lines /\ Size(src[k]) \in Nat
  BY <1>0, SourceTyped
<1>1. CASE \E s \in Sources : Assemble(s)
  <2>1. PICK s \in Sources : Assemble(s)
    BY <1>1
  <2>2. src' = s /\ pass' = "one" /\ n' = 1 /\ addr' = Org /\ labels' = <<>> /\ out' = <<>> /\ at' = <<>>
    BY <1>0, <2>1 DEF Assemble, Nothing
  <2>3. Len(s) \in Nat
    BY AsmAssumption
  <2>4. Typed'
    BY <1>a, <2>2, <2>3, AsmAssumption DEF Typed
  <2> QED BY <1>a, <2>2, <2>4 DEF Inv, Starts, Chained, Nothing, Counting, Putting, OutputFits
<1>p. ASSUME Typed, Labelled, ~TooManyLabels, n \in 1 .. Len(src)
      PROVE  /\ Append(labels, [name |-> Key(Line.label), addr |-> addr]) \in Seq([name : Names, addr : Addresses])
             /\ Len(Append(labels, [name |-> Key(Line.label), addr |-> addr])) <= MaxLabels
  <2>1. Line \in Lines
    BY <1>p, <1>b DEF Line
  <2>2. Key(Line.label) \in Names
    BY <1>p, <2>1, AsmAssumption DEF Lines, Labelled
  <2>3. [name |-> Key(Line.label), addr |-> addr] \in [name : Names, addr : Addresses]
    BY <1>p, <2>2 DEF Typed
  <2>4. Len(labels) < MaxLabels /\ labels \in Seq([name : Names, addr : Addresses])
    BY <1>p, AsmAssumption DEF TooManyLabels, Typed
  <2> QED BY <2>3, <2>4, AsmAssumption
<1>2. CASE PassOneFails
  <2>1. labels' \in Seq([name : Names, addr : Addresses]) /\ Len(labels') <= MaxLabels
    <3>1. n \in 1 .. Len(src)
      BY <1>0, <1>2, <1>b DEF PassOneFails, Typed
    <3>2. labels \in Seq([name : Names, addr : Addresses]) /\ Len(labels) <= MaxLabels
      BY <1>0 DEF Typed
    <3>3. CASE Labelled /\ ~TooManyLabels
      BY <1>0, <1>2, <1>p, <3>1, <3>3 DEF PassOneFails
    <3>4. CASE ~(Labelled /\ ~TooManyLabels)
      BY <1>2, <3>2, <3>4 DEF PassOneFails
    <3> QED BY <3>3, <3>4
  <2>2. Typed'
    BY <1>0, <1>2, <2>1 DEF PassOneFails, Typed
  <2> QED BY <1>0, <1>2, <2>2 DEF PassOneFails, Inv, Starts, Chained, Nothing, Counting, Putting, OutputFits, After
<1>3. CASE PassOne
  <2>0. /\ pass = "one" /\ pass' = "one" /\ n \in 1 .. Len(src) /\ n' = n + 1 /\ src' = src /\ out' = out
        /\ at' = Append(at, addr) /\ addr' = (addr + Size(src[n])) % Modulus
    BY <1>0, <1>3, <1>b DEF PassOne, Line, Typed
  <2>1. labels' \in Seq([name : Names, addr : Addresses]) /\ Len(labels') <= MaxLabels
    BY <1>0, <1>3, <1>p, <2>0 DEF PassOne, Typed
  <2>2. addr \in Addresses /\ addr' \in Addresses /\ addr \in Int
    BY <1>0, <1>a, <1>b, <2>0 DEF Typed, Addresses
  <2>3. at \in Seq(Addresses) /\ Len(at) = n - 1 /\ out = <<>>
    BY <1>0, <2>0 DEF Typed, Counting
  <2>4. /\ at' \in Seq(Addresses) /\ Len(at') = n /\ at'[n] = addr
        /\ \A k \in 1 .. n - 1 : at'[k] = at[k]
    BY <2>0, <2>2, <2>3
  <2>5. Typed'
    BY <1>0, <1>b, <2>0, <2>1, <2>2, <2>4 DEF Typed
  <2>6. Starts'
    BY <1>0, <2>0, <2>3, <2>4 DEF Starts, Counting
  <2>7. Chained'
    <3>1. \A k \in 1 .. n - 2 : at[k + 1] = (at[k] + Size(src[k])) % Modulus
      BY <1>0, <2>0, <2>3 DEF Chained, After
    <3>2. n > 1 => addr = (at[n - 1] + Size(src[n - 1])) % Modulus
      BY <1>0, <2>0 DEF Counting, After
    <3>3. \A k \in 1 .. n - 1 : at'[k + 1] = (at'[k] + Size(src[k])) % Modulus
      <4> SUFFICES ASSUME NEW k \in 1 .. n - 1 PROVE at'[k + 1] = (at'[k] + Size(src[k])) % Modulus
        OBVIOUS
      <4>1. CASE k = n - 1
        BY <2>0, <2>4, <3>2, <4>1
      <4>2. CASE k # n - 1
        <5>1. k \in 1 .. n - 2 /\ k + 1 \in 1 .. n - 1
          BY <2>0, <4>2
        <5> QED BY <2>4, <3>1, <5>1
      <4> QED BY <4>1, <4>2
    <3> QED BY <2>0, <2>4, <3>3 DEF Chained, After
  <2>8. Counting'
    BY <2>0, <2>3, <2>4 DEF Counting, After
  <2> QED BY <1>0, <2>0, <2>5, <2>6, <2>7, <2>8 DEF Inv, Nothing, Putting, OutputFits
<1>4. CASE BeginPassTwo
  <2>0. /\ pass = "one" /\ pass' = "two" /\ n = Len(src) + 1 /\ n' = 1 /\ addr' = Org /\ src' = src /\ at' = at
        /\ out = <<>> /\ out' = <<>> /\ labels' = labels
    BY <1>0, <1>4, <1>b DEF BeginPassTwo, Typed, Counting
  <2>1. Len(at) = Len(src)
    BY <1>0, <1>b, <2>0 DEF Counting
  <2>2. (Org + Len(out')) % Modulus = Org
    BY <1>a, <2>0 DEF Addresses
  <2>3. 1 <= Len(src) => Org = at[1] /\ 0 <= src[1].start
    BY <1>0, <1>b, <2>1, SourceTyped DEF Starts
  <2>4. Putting'
    BY <1>b, <2>0, <2>1, <2>2, <2>3 DEF Putting
  <2>5. Typed'
    BY <1>0, <1>a, <1>b, <2>0 DEF Typed
  <2> QED BY <1>0, <2>0, <2>4, <2>5 DEF Inv, Starts, Chained, Nothing, Counting, OutputFits, After
<1>5. CASE PassTwoFails
  BY <1>0, <1>5 DEF PassTwoFails, Inv, Typed, Starts, Chained, Nothing, Counting, Putting, OutputFits, After
<1>6. CASE PassTwo
  <2> DEFINE v == IF Line.op \in OfValue THEN resolve_value(Line.val) ELSE 0
  <2>0. /\ pass = "two" /\ pass' = "two" /\ n \in 1 .. Len(src) /\ n' = n + 1 /\ src' = src /\ at' = at /\ labels' = labels
        /\ out' = out \o Encode(src[n], v) /\ addr' = (addr + Size(src[n])) % Modulus
    BY <1>0, <1>6, <1>b DEF PassTwo, Line, Typed
  <2>1. src[n] \in Lines /\ Size(src[n]) \in Nat
    BY <1>b, <2>0
  <2>2. v \in Int
    <3>1. Line.op \in OfValue => Line.op # "blank" /\ Line.val \in Values
      BY <2>1 DEF Line, Lines, OfValue
    <3>2. Line.op \in OfValue => Resolves(Line.val)
      BY <1>6, <3>1 DEF PassTwo, CannotPut
    <3> QED BY <1>0, <3>1, <3>2, ResolveTyped
  <2> HIDE DEF v
  <2>3. addr \in Addresses /\ addr \in Int /\ addr' \in Addresses
    BY <1>0, <1>a, <2>0, <2>1 DEF Typed, Addresses
  <2>4. Encode(src[n], v) \in Seq(Elements) /\ Len(Encode(src[n], v)) = Size(src[n])
    BY <2>1, <2>2, <2>3, EncodeSize
  <2>5. out' \in Seq(Elements) /\ Len(out') = Len(out) + Len(Encode(src[n], v)) /\ Len(out) \in Nat
    <3>1. out \in Seq(Elements)
      BY <1>0 DEF Typed
    <3>2. out \o Encode(src[n], v) \in Seq(Elements) /\ Len(out \o Encode(src[n], v)) = Len(out) + Len(Encode(src[n], v))
      BY <2>4, <3>1, JoinLength
    <3> QED BY <2>0, <3>1, <3>2
  <2>6. Len(out') = Len(out) + Size(src[n])
    BY <2>4, <2>5
  <2>7. Typed'
    BY <1>0, <1>b, <2>0, <2>3, <2>5 DEF Typed
  <2>8. Len(out) <= src[n].start /\ addr = at[n] /\ (Org + Len(out)) % Modulus = addr /\ Len(at) = Len(src)
    BY <1>0, <2>0 DEF Putting
  <2>9. OutputFits'
    <3>1. /\ Size(src[n]) \in Nat /\ src[n].start \in Nat /\ src[n].chars \in Nat
          /\ Size(src[n]) <= src[n].chars /\ src[n].start + src[n].chars <= MaxOut
      BY <1>0, <2>0, <2>1, SourceTyped
    <3>2. MaxOut \in Nat /\ Len(out) \in Nat /\ Len(out) <= src[n].start
      BY <2>5, <2>8, AsmAssumption
    <3>3. Len(out) + Size(src[n]) <= MaxOut
      BY <3>1, <3>2
    <3> QED BY <2>6, <3>3 DEF OutputFits
  <2>10. (Org + Len(out')) % Modulus = addr'
    <3>1. (((Org + Len(out)) % Modulus) + Size(src[n])) % Modulus = (Org + Len(out) + Size(src[n])) % Modulus
      <4>1. Org + Len(out) \in Int
        BY <1>a, <2>5 DEF Addresses
      <4>2. \A a, b \in Int : ((a % Modulus) + b) % Modulus = (a + b) % Modulus
        BY <1>a, ModSum
      <4> QED BY <2>1, <4>1, <4>2
    <3>2. Org + Len(out) + Size(src[n]) = Org + Len(out')
      BY <1>a, <2>1, <2>5, <2>6 DEF Addresses
    <3> QED BY <2>0, <2>8, <3>1, <3>2
  <2>11. n + 1 <= Len(src) => addr' = at[n + 1] /\ Len(out') <= src[n + 1].start
    <3> SUFFICES ASSUME n + 1 <= Len(src) PROVE addr' = at[n + 1] /\ Len(out') <= src[n + 1].start
      OBVIOUS
    <3>1. at[n + 1] = After(n)
      BY <1>0, <1>b, <2>0, <2>8 DEF Chained
    <3>2. src[n].start + src[n].chars <= src[n + 1].start /\ Size(src[n]) <= src[n].chars
      BY <1>0, <1>b, <2>0, SourceTyped
    <3>3. src[n].start \in Nat /\ src[n].chars \in Nat /\ src[n + 1].start \in Nat
      BY <1>0, <1>b, <2>0, SourceTyped
    <3> QED BY <2>0, <2>1, <2>5, <2>6, <2>8, <3>1, <3>2, <3>3 DEF After
  <2>12. Putting'
    BY <2>0, <2>8, <2>10, <2>11 DEF Putting
  <2> QED BY <1>0, <2>0, <2>7, <2>9, <2>12 DEF Inv, Starts, Chained, Nothing, Counting, After
<1>7. CASE Finish
  BY <1>0, <1>7 DEF Finish, Inv, Typed, Starts, Chained, Nothing, Counting, Putting, OutputFits, After
<1>8. CASE Return
  BY <1>0, <1>8, <1>a DEF Return, Inv, Typed, Starts, Chained, Nothing, Counting, Putting, OutputFits, After
<1>9. CASE UNCHANGED vars
  BY <1>0, <1>9 DEF vars, Inv, Typed, Starts, Chained, Nothing, Counting, Putting, OutputFits, After
<1> QED BY <1>1, <1>2, <1>3, <1>4, <1>5, <1>6, <1>7, <1>8, <1>9 DEF Next

(* The invariant of the two passes holds in every state (assemble_source,  *)
(* asm.c:291-362).                                                         *)
THEOREM InvHolds == Spec => []Inv
  BY InitInv, NextInv, PTL DEF Spec

(* Whatever is assembled, the output stays in its buffer, and no check at  *)
(* run time is what keeps it there: a line puts out no more bytes than it  *)
(* has characters (assemble_source, asm.c:346-349).                        *)
THEOREM OutputStaysInside == Spec => []OutputFits
  BY InvHolds, PTL DEF Inv

(* Pass two comes to each line at the address pass one gave it, with as    *)
(* many bytes put out, modulo the size of the address space                *)
(* (process_line, asm.c:172-269; assemble_source, asm.c:291-362).          *)
THEOREM PassesStayTogether == Spec => []PassesAgree
<1>1. Inv => PassesAgree
  BY DEF Inv, Putting, PassesAgree
<1> QED BY <1>1, InvHolds, PTL

(* Every variable of the assembler has its type, the table of labels its   *)
(* 32 entries at most (asm.c:17-19, 309-315).                              *)
THEOREM AsmTyped == Spec => []TypeOK
<1>1. Inv => TypeOK
  <2> SUFFICES ASSUME Inv PROVE TypeOK
    OBVIOUS
  <2>1. Typed
    BY DEF Inv
  <2>2. src \in Seq(Lines)
    BY <2>1, SourceTyped
  <2>3. \A k \in 1 .. Len(out) : out[k] \in Elements
    BY <2>1 DEF Typed
  <2>4. \A k \in 1 .. Len(out) : out[k].v \in Bytes \cup Registers
    BY <2>3 DEF Elements
  <2> QED BY <2>1, <2>2, <2>4 DEF Typed, TypeOK
<1> QED BY <1>1, InvHolds, PTL

-----------------------------------------------------------------------------
(* Where the lines of a source are put.                                   *)
(* A set of natural numbers has a least one.                               *)
LEMMA Least ==
  ASSUME NEW S \in SUBSET Nat, S # {}
  PROVE  \E m \in S : \A k \in S : m <= k
<1>1. IsWellFoundedOn(OpToRel(<, Nat), Nat)
  BY NatLessThanWellFounded
<1>2. PICK m \in S : \A k \in S : ~ (<<k, m>> \in OpToRel(<, Nat))
  BY <1>1, WFMin
<1>3. \A k \in S : ~ (k < m)
  BY <1>2 DEF OpToRel
<1> QED BY <1>3

(* The places of the first m lines of a source.                            *)
PlacesTo(s, m, f) == f = [k \in 1 .. m |-> IF k = 1 THEN 0 ELSE f[k - 1] + Size(s[k - 1])]

LEMMA PlacesExist ==
  ASSUME NEW s \in Seq(Lines)
  PROVE  \E f : PlacesTo(s, Len(s) + 1, f)
<1> DEFINE Missing == {m \in Nat : m <= Len(s) /\ ~ \E f : PlacesTo(s, m + 1, f)}
<1>1. Len(s) \in Nat
  OBVIOUS
<1>2. SUFFICES ASSUME Missing # {} PROVE FALSE
  <2>1. SUFFICES ASSUME ~ \E f : PlacesTo(s, Len(s) + 1, f) PROVE Missing # {}
    OBVIOUS
  <2>2. Len(s) \in Missing
    BY <1>1, <2>1
  <2> QED BY <2>2
<1>3. PICK m \in Missing : \A k \in Missing : m <= k
  BY <1>2, Least
<1>4. m # 0
  <2>1. PlacesTo(s, 1, [k \in 1 .. 1 |-> 0])
    BY DEF PlacesTo
  <2> QED BY <2>1
<1>5. PICK f : PlacesTo(s, m, f)
  <2>1. m - 1 \in Nat /\ m - 1 \notin Missing /\ (m - 1) + 1 = m
    BY <1>3, <1>4
  <2> QED BY <2>1
<1> DEFINE g == [k \in 1 .. m + 1 |-> IF k = m + 1 THEN f[m] + Size(s[m]) ELSE f[k]]
<1>6. m \in Nat \ {0}
  BY <1>4
<1>7. \A k \in 1 .. m : g[k] = f[k] /\ f[k] = IF k = 1 THEN 0 ELSE f[k - 1] + Size(s[k - 1])
  BY <1>5, <1>6 DEF PlacesTo
<1>8. g[m + 1] = g[m] + Size(s[m])
  BY <1>6
<1>9. \A k \in 1 .. m + 1 : g[k] = IF k = 1 THEN 0 ELSE g[k - 1] + Size(s[k - 1])
  <2> SUFFICES ASSUME NEW k \in 1 .. m + 1 PROVE g[k] = IF k = 1 THEN 0 ELSE g[k - 1] + Size(s[k - 1])
    OBVIOUS
  <2> HIDE DEF g
  <2>1. CASE k = m + 1
    BY <1>6, <1>8, <2>1
  <2>2. CASE k # m + 1
    <3>1. k \in 1 .. m /\ (k # 1 => k - 1 \in 1 .. m)
      BY <1>6, <2>2
    <3> QED BY <1>7, <3>1
  <2> QED BY <2>1, <2>2
<1>10. PlacesTo(s, m + 1, g)
  BY <1>9 DEF PlacesTo
<1> QED BY <1>3, <1>10

LEMMA PlacesRule ==
  ASSUME NEW s \in Seq(Lines)
  PROVE  PlacesTo(s, Len(s) + 1, Places(s))
<1>1. Places(s) = CHOOSE f : PlacesTo(s, Len(s) + 1, f)
  BY DEF Places, PlacesTo
<1> QED BY <1>1, PlacesExist

(* The first line is put out at the start, each other after the one before.*)
LEMMA PlacesStep ==
  ASSUME NEW s \in Seq(Lines)
  PROVE  /\ Places(s)[1] = 0
         /\ \A k \in 1 .. Len(s) : Places(s)[k + 1] = Places(s)[k] + Size(s[k])
<1> DEFINE p == Places(s)
<1>1. p = [k \in 1 .. Len(s) + 1 |-> IF k = 1 THEN 0 ELSE p[k - 1] + Size(s[k - 1])]
  BY PlacesRule DEF PlacesTo
<1> HIDE DEF p
<1>2. Len(s) \in Nat
  OBVIOUS
<1>3. p[1] = 0
  BY <1>1, <1>2
<1>4. ASSUME NEW k \in 1 .. Len(s) PROVE p[k + 1] = p[k] + Size(s[k])
  <2>1. k + 1 \in 1 .. Len(s) + 1 /\ k + 1 # 1 /\ (k + 1) - 1 = k
    BY <1>2
  <2> QED BY <1>1, <2>1
<1> QED BY <1>3, <1>4 DEF p

LEMMA PlacesNat ==
  ASSUME NEW s \in Seq(Lines), NEW k \in 1 .. Len(s) + 1
  PROVE  Places(s)[k] \in Nat
<1> DEFINE Wrong == {j \in Nat : j \in 1 .. Len(s) + 1 /\ Places(s)[j] \notin Nat}
<1>1. SUFFICES ASSUME Wrong # {} PROVE FALSE
  OBVIOUS
<1>2. PICK m \in Wrong : \A j \in Wrong : m <= j
  BY <1>1, Least
<1>3. Len(s) \in Nat /\ m \in 1 .. Len(s) + 1 /\ Places(s)[m] \notin Nat
  BY <1>2
<1>4. m # 1
  BY <1>3, PlacesStep
<1>5. m - 1 \in 1 .. Len(s) /\ (m - 1) + 1 = m
  BY <1>3, <1>4
<1>6. Places(s)[m - 1] \in Nat
  BY <1>2, <1>5
<1>7. Places(s)[m] = Places(s)[m - 1] + Size(s[m - 1])
  BY <1>5, PlacesStep
<1>8. Size(s[m - 1]) \in Nat
  BY <1>5, SizeNat
<1> QED BY <1>3, <1>6, <1>7, <1>8
(* A quotient of a quotient.                                               *)
LEMMA QuotientTwice ==
  ASSUME NEW b \in Nat \ {0}, NEW d \in Nat \ {0}, NEW w \in Nat
  PROVE  w \div (b * d) = (w \div d) \div b
<1> DEFINE q == w \div d
           r == w % d
           p == q \div b
           t == q % b
<1>1. w = d * q + r /\ q \in Nat /\ r \in 0 .. d - 1
  OBVIOUS
<1>2. q = b * p + t /\ p \in Nat /\ t \in 0 .. b - 1
  BY <1>1
<1> HIDE DEF q, r, p, t
<1>3. PICK u \in Nat \ {0} : u = b * d
  OBVIOUS
<1>4. w = u * p + (d * t + r)
  <2>1. d * q = d * (b * p) + d * t
    BY <1>1, <1>2
  <2>2. d * (b * p) = (b * d) * p
    BY <1>2
  <2>3. d * t \in Nat /\ u * p \in Nat
    BY <1>2, <1>3
  <2> QED BY <1>1, <1>2, <1>3, <2>1, <2>2, <2>3
<1>5. d * t + r \in 0 .. u - 1
  <2>1. d * t <= d * (b - 1) /\ d * t \in Nat
    BY <1>2
  <2>2. d * (b - 1) = u - d
    BY <1>3
  <2> QED BY <1>1, <1>3, <2>1, <2>2
<1>6. PICK e \in 0 .. u - 1 : e = d * t + r
  BY <1>5
<1>7. (u * p + e) \div u = p
  BY <1>2, <1>3, <1>6
<1>8. w \div (b * d) = p
  BY <1>3, <1>4, <1>6, <1>7
<1> QED BY <1>8 DEF p, q

LEMMA Digits ==
  ASSUME NEW w \in Addresses
  PROVE  (w % Base) + Base * (((w \div Base) % Base) + Base * (((w \div (Base * Base)) % Base)
         + Base * ((w \div (Base * Base * Base)) % Base))) = w
<1>1. PICK b \in Nat \ {0} : b = Base
  BY AsmAssumption
<1>2. w \in Nat /\ w < b * b * b * b
  BY <1>1, AsmAssumption DEF Addresses, Modulus
<1> DEFINE q1 == w \div b
           q2 == q1 \div b
           q3 == q2 \div b
           q4 == q3 \div b
<1>d. \A x \in Nat : x = b * (x \div b) + (x % b) /\ x \div b \in Nat /\ x % b \in Nat
  OBVIOUS
<1>3. w = b * q1 + (w % b) /\ q1 \in Nat /\ w % b \in Nat
  BY <1>2, <1>d
<1>4. q1 = b * q2 + (q1 % b) /\ q2 \in Nat /\ q1 % b \in Nat
  BY <1>3, <1>d
<1>5. q2 = b * q3 + (q2 % b) /\ q3 \in Nat /\ q2 % b \in Nat
  BY <1>4, <1>d
<1>6. q3 = b * q4 + (q3 % b) /\ q4 \in Nat /\ q3 % b \in Nat
  BY <1>5, <1>d
<1>7. w \div (b * b) = q2
  BY <1>2, QuotientTwice
<1>8. w \div (b * b * b) = q3
  <2>1. b * b \in Nat \ {0} /\ b * (b * b) = b * b * b
    OBVIOUS
  <2>2. w \div (b * (b * b)) = (w \div (b * b)) \div b
    BY <1>2, <2>1, QuotientTwice
  <2> QED BY <1>7, <2>1, <2>2
<1>9. w \div (b * b * b * b) = q4
  <2>1. b * b * b \in Nat \ {0} /\ b * (b * b * b) = b * b * b * b
    OBVIOUS
  <2>2. w \div (b * (b * b * b)) = (w \div (b * b * b)) \div b
    BY <1>2, <2>1, QuotientTwice
  <2> QED BY <1>8, <2>1, <2>2
<1>10. q4 = 0
  <2>1. PICK u \in Nat \ {0} : u = b * b * b * b
    OBVIOUS
  <2>2. w \div u = 0
    BY <1>2, <2>1
  <2> QED BY <1>9, <2>1, <2>2
<1> HIDE DEF q1, q2, q3, q4
<1>11. (w % b) + b * ((q1 % b) + b * ((q2 % b) + b * (q3 % b))) = w
  <2>1. q3 % b = q3
    BY <1>6, <1>10
  <2> QED BY <1>3, <1>4, <1>5, <2>1
<1>12. (w % b) + b * (((w \div b) % b) + b * (((w \div (b * b)) % b) + b * ((w \div (b * b * b)) % b))) = w
  BY <1>7, <1>8, <1>11 DEF q1
<1> QED BY <1>1, <1>12
LEMMA DwordRead ==
  ASSUME NEW w \in Addresses
  PROVE  Dword(w)[1].v + Base * (Dword(w)[2].v + Base * (Dword(w)[3].v + Base * Dword(w)[4].v)) = w
<1>1. /\ Dword(w)[1].v = w % Base /\ Dword(w)[2].v = (w \div Base) % Base
      /\ Dword(w)[3].v = (w \div (Base * Base)) % Base
      /\ Dword(w)[4].v = (w \div (Base * Base * Base)) % Base
  BY DEF Dword, Byte
<1> QED BY <1>1, Digits

LEMMA ModMultiple ==
  ASSUME NEW m \in Nat \ {0}, NEW q \in Int, NEW z \in Int
  PROVE  (q + m * z) % m = q % m
<1> DEFINE r == q % m
           x == q \div m
           y == (q + m * z) \div m
           e == (q + m * z) % m
<1>1. q = m * x + r /\ x \in Int /\ r \in 0 .. m - 1
  OBVIOUS
<1>2. q + m * z \in Int
  OBVIOUS
<1>3. q + m * z = m * y + e /\ y \in Int /\ e \in 0 .. m - 1
  BY <1>2
<1> HIDE DEF r, x, y, e
<1>4. \A d \in Int, f \in 0 .. m - 1, g \in 0 .. m - 1 : g = m * d + f => d = 0
  OBVIOUS
<1>5. m * (x + z - y) = m * x + m * z - m * y
  BY <1>1, <1>3
<1>6. e = m * (x + z - y) + r
  BY <1>1, <1>3, <1>5
<1>7. x + z - y = 0
  BY <1>1, <1>3, <1>4, <1>6
<1>8. e = r
  BY <1>1, <1>3, <1>6, <1>7
<1> QED BY <1>8 DEF e, r

(* A jump from the end of five bytes at p, by the difference of the        *)
(* addresses, ends at q.                                                   *)
LEMMA JumpLands ==
  ASSUME NEW m \in Nat \ {0}, NEW o \in Int, NEW p \in Int, NEW q \in Int
  PROVE  (p + 5 + ((((o + q) % m) - (((o + p) % m) + 5)) % m)) % m = q % m
<1> DEFINE a == (o + p) % m
           v == (o + q) % m
           z == (o + p) \div m
<1>1. o + p = m * z + a /\ z \in Int /\ a \in Int /\ v \in Int
  <2>1. o + p \in Int /\ o + q \in Int
    OBVIOUS
  <2>2. \A i \in Int : i = m * (i \div m) + (i % m) /\ i \div m \in Int /\ i % m \in Int
    OBVIOUS
  <2> QED BY <2>1, <2>2
<1>2. \A i, j \in Int : ((i % m) + j) % m = (i + j) % m
  BY ModSum
<1> HIDE DEF a, v, z
<1>3. ((v - (a + 5)) % m) + (p + 5) = p + 5 + ((v - (a + 5)) % m)
  BY <1>1
<1>4. (((v - (a + 5)) % m) + (p + 5)) % m = ((v - (a + 5)) + (p + 5)) % m
  <2>1. v - (a + 5) \in Int /\ p + 5 \in Int
    BY <1>1
  <2> QED BY <1>2, <2>1
<1>5. (v - (a + 5)) + (p + 5) = v + (p - a)
  BY <1>1
<1>6. (v + (p - a)) % m = ((o + q) + (p - a)) % m
  <2>1. o + q \in Int /\ p - a \in Int
    BY <1>1
  <2> QED BY <1>2, <2>1 DEF v
<1>7. (o + q) + (p - a) = q + m * z
  BY <1>1
<1>8. (q + m * z) % m = q % m
  BY <1>1, ModMultiple
<1> QED BY <1>3, <1>4, <1>5, <1>6, <1>7, <1>8 DEF a, v

-----------------------------------------------------------------------------
(* The second invariant.  In the table of labels the first entry of a name *)
(* has the address of the first line of that label, there is an entry for  *)
(* every labelled line, and what is put out of a line is what it says.     *)
IsFirst(l, name) ==
  /\ src[l].label # NoName /\ Key(src[l].label) = name
  /\ \A j \in 1 .. l - 1 : src[j].label # NoName => Key(src[j].label) # name
WithLabel(m) == {l \in 1 .. m : src[l].label # NoName}
Labels(m) ==
  /\ \A name \in Names : \A k \in Found(name) : \E l \in 1 .. m : IsFirst(l, name) /\ labels[k].addr = at[l]
  /\ \A l \in 1 .. m : src[l].label # NoName => \E k \in 1 .. Len(labels) : labels[k].name = Key(src[l].label)
  /\ Cardinality(WithLabel(m)) = Len(labels)
  /\ \A l \in 1 .. m : src[l].op # "bad"
Kept ==
  /\ pass = "one" => Labels(n - 1)
  /\ pass = "two" => Labels(Len(src))
Jump(k) ==
  /\ Place(k) + 5 <= Len(out)
  /\ Long(Place(k) + 2) = (resolve_value(src[k].val) - (at[k] + 5)) % Modulus
Put(k) ==
  /\ src[k].op \in OfValue => Resolves(src[k].val)
  /\ src[k].op # "blank" => Place(k) + 8 <= MaxOut
  /\ (Org + Place(k)) % Modulus = at[k]
  /\ src[k].op = "jmp" => Jump(k)
Emitted == pass = "two" => Len(out) = Place(n) /\ \A k \in 1 .. n - 1 : Put(k)
Inv2 == Inv /\ Kept /\ Emitted /\ AssembledRight

LEMMA FoundSome ==
  ASSUME labels \in Seq([name : Names, addr : Addresses]), NEW name, NEW k \in 1 .. Len(labels),
         labels[k].name = name
  PROVE  Found(name) # {}
<1> DEFINE S == {j \in Nat : j \in 1 .. Len(labels) /\ labels[j].name = name}
<1>1. S \in SUBSET Nat /\ k \in S
  OBVIOUS
<1>2. PICK m \in S : \A j \in S : m <= j
  BY <1>1, Least
<1>3. \A j \in 1 .. m - 1 : j \notin S
  BY <1>2
<1>4. m \in 1 .. Len(labels) /\ labels[m].name = name /\ \A j \in 1 .. m - 1 : labels[j].name # name
  BY <1>2, <1>3
<1> QED BY <1>4 DEF Found

LEMMA LabelsMore ==
  ASSUME Typed, NEW m \in Nat, m < Len(src), Len(at) = m, Labels(m),
         src[m + 1].op # "bad", src' = src, at' = Append(at, addr),
         labels' = IF src[m + 1].label # NoName
                   THEN Append(labels, [name |-> Key(src[m + 1].label), addr |-> addr]) ELSE labels
  PROVE  Labels(m + 1)'
<1>1. /\ labels \in Seq([name : Names, addr : Addresses]) /\ at \in Seq(Addresses) /\ addr \in Addresses
      /\ Len(labels) \in Nat /\ Len(src) \in Nat
  BY SourceTyped DEF Typed
<1>2. \A l \in 1 .. m : at'[l] = at[l]
  BY <1>1
<1>3. at'[m + 1] = addr
  BY <1>1
<1>4. \A l, name : IsFirst(l, name)' <=> IsFirst(l, name)
  BY DEF IsFirst
<1>5. \A l \in 1 .. m + 1 : l \in 1 .. m \/ l = m + 1
  OBVIOUS
<1>6. \A l \in 1 .. m + 1 : (src[l].op # "bad")'
  BY <1>5 DEF Labels
<1>7. IsFiniteSet(WithLabel(m)) /\ m + 1 \notin WithLabel(m)
  <2>1. IsFiniteSet(1 .. m)
    BY FS_Interval
  <2>2. WithLabel(m) \in SUBSET (1 .. m)
    BY DEF WithLabel
  <2> QED BY <2>1, <2>2, FS_Subset
<1>8. CASE src[m + 1].label = NoName
  <2>1. labels' = labels
    BY <1>8
  <2>2. \A name : Found(name)' = Found(name)
    BY <2>1 DEF Found
  <2>3. \A name \in Names : \A k \in Found(name)' :
          \E l \in 1 .. m + 1 : IsFirst(l, name)' /\ labels'[k].addr = at'[l]
    BY <1>2, <1>4, <2>1, <2>2 DEF Labels
  <2>4. \A l \in 1 .. m + 1 : src[l].label # NoName =>
          \E k \in 1 .. Len(labels) : labels[k].name = Key(src[l].label)
    BY <1>5, <1>8 DEF Labels
  <2>5. WithLabel(m + 1) = WithLabel(m)
    BY <1>5, <1>8 DEF WithLabel
  <2>6. Cardinality(WithLabel(m + 1)') = Len(labels)
    BY <2>5 DEF Labels, WithLabel
  <2> QED BY <1>6, <2>1, <2>3, <2>4, <2>6 DEF Labels
<1>9. CASE src[m + 1].label # NoName
  <2> DEFINE key == Key(src[m + 1].label)
             len == Len(labels)
  <2>1. key \in Names /\ labels' = Append(labels, [name |-> key, addr |-> addr])
    <3>1. src[m + 1] \in Lines
      BY <1>1, SourceTyped
    <3>2. src[m + 1].label \in Names
      BY <1>9, <3>1 DEF Lines
    <3> QED BY <1>9, <3>2, AsmAssumption
  <2> HIDE DEF key
  <2>2. /\ Len(labels') = len + 1 /\ labels'[len + 1] = [name |-> key, addr |-> addr]
        /\ \A k \in 1 .. len : labels'[k] = labels[k]
    BY <1>1, <2>1
  <2>3. len \in Nat
    BY <1>1
  <2> HIDE DEF len
  <2>4. \A name \in Names : \A k \in Found(name)' :
          \E l \in 1 .. m + 1 : IsFirst(l, name)' /\ labels'[k].addr = at'[l]
    <3> SUFFICES ASSUME NEW name \in Names, NEW k \in Found(name)'
                 PROVE  \E l \in 1 .. m + 1 : IsFirst(l, name) /\ labels'[k].addr = at'[l]
      BY <1>4
    <3>1. k \in 1 .. len + 1 /\ labels'[k].name = name /\ \A j \in 1 .. k - 1 : labels'[j].name # name
      BY <2>2 DEF Found
    <3>2. CASE k \in 1 .. len
      <4>1. k \in Found(name)
        BY <2>2, <2>3, <3>1, <3>2 DEF Found, len
      <4>2. PICK l \in 1 .. m : IsFirst(l, name) /\ labels[k].addr = at[l]
        BY <4>1 DEF Labels
      <4>3. labels'[k].addr = labels[k].addr
        BY <2>2, <3>2
      <4>4. at'[l] = at[l]
        BY <1>2
      <4>5. l \in 1 .. m + 1
        OBVIOUS
      <4> QED BY <4>2, <4>3, <4>4, <4>5
    <3>3. CASE k = len + 1
      <4>1. name = key /\ labels'[k].addr = addr
        BY <2>2, <3>1, <3>3
      <4>2. \A j \in 1 .. len : labels[j].name # key
        BY <2>2, <2>3, <3>1, <3>3, <4>1
      <4>3. \A l \in 1 .. m : src[l].label # NoName => Key(src[l].label) # key
        BY <4>2 DEF Labels, len
      <4>4. IsFirst(m + 1, name)
        <5>1. (m + 1) - 1 = m
          OBVIOUS
        <5> QED BY <1>9, <4>1, <4>3, <5>1 DEF IsFirst, key
      <4>5. m + 1 \in 1 .. m + 1
        OBVIOUS
      <4> QED BY <1>3, <4>1, <4>4, <4>5
    <3>4. k \in 1 .. len \/ k = len + 1
      BY <2>3, <3>1
    <3> QED BY <3>2, <3>3, <3>4
  <2>5. \A l \in 1 .. m + 1 : src[l].label # NoName =>
          \E k \in 1 .. len + 1 : labels'[k].name = Key(src[l].label)
    <3> SUFFICES ASSUME NEW l \in 1 .. m + 1, src[l].label # NoName
                 PROVE  \E k \in 1 .. len + 1 : labels'[k].name = Key(src[l].label)
      OBVIOUS
    <3>1. CASE l \in 1 .. m
      <4>1. PICK k \in 1 .. len : labels[k].name = Key(src[l].label)
        BY <3>1 DEF Labels, len
      <4>2. k \in 1 .. len + 1 /\ labels'[k].name = Key(src[l].label)
        BY <2>2, <2>3, <4>1
      <4> QED BY <4>2
    <3>2. CASE l = m + 1
      <4>1. len + 1 \in 1 .. len + 1 /\ labels'[len + 1].name = Key(src[l].label)
        BY <2>2, <2>3, <3>2 DEF key
      <4> QED BY <4>1
    <3> QED BY <1>5, <3>1, <3>2
  <2>6. WithLabel(m + 1) = WithLabel(m) \cup {m + 1}
    BY <1>5, <1>9 DEF WithLabel
  <2>7. Cardinality(WithLabel(m + 1)') = len + 1
    <3>1. Cardinality(WithLabel(m + 1)) = Cardinality(WithLabel(m)) + 1
      BY <1>7, <2>6, FS_AddElement
    <3>2. Cardinality(WithLabel(m)) = len
      BY DEF Labels, len
    <3>3. WithLabel(m + 1)' = WithLabel(m + 1)
      BY DEF WithLabel
    <3> QED BY <3>1, <3>2, <3>3
  <2>8. \A l \in 1 .. m + 1 : src'[l].label # NoName =>
          \E k \in 1 .. Len(labels') : labels'[k].name = Key(src'[l].label)
    BY <2>2, <2>5
  <2> QED BY <1>6, <2>2, <2>4, <2>7, <2>8 DEF Labels
<1> QED BY <1>8, <1>9

LEMMA KeptStep == Inv /\ Kept /\ [Next]_vars => Kept'
<1> SUFFICES ASSUME Inv, Kept, [Next]_vars PROVE Kept'
  OBVIOUS
<1>0. Typed /\ Nothing /\ Counting /\ Len(src) \in Nat
  <2>1. Typed
    BY DEF Inv
  <2> QED BY <2>1, SourceTyped DEF Inv
<1>1. CASE \E s \in Sources : Assemble(s)
  <2>1. pass' = "one" /\ n' = 1 /\ labels' = <<>>
    BY <1>1 DEF Assemble
  <2>2. Labels(0)'
    <3>1. WithLabel(0)' = {}
      BY DEF WithLabel
    <3>2. \A name : Found(name)' = {}
      BY <2>1 DEF Found
    <3> QED BY <2>1, <3>1, <3>2, FS_EmptySet DEF Labels
  <2>3. n' - 1 = 0
    BY <2>1
  <2> QED BY <2>1, <2>2, <2>3 DEF Kept
<1>2. CASE PassOne
  <2>1. /\ pass = "one" /\ pass' = "one" /\ n \in 1 .. Len(src) /\ n' = n + 1 /\ src' = src
        /\ at' = Append(at, addr) /\ src[n].op # "bad"
        /\ labels' = IF src[n].label # NoName
                     THEN Append(labels, [name |-> Key(src[n].label), addr |-> addr]) ELSE labels
    BY <1>0, <1>2 DEF PassOne, Line, Labelled, Typed
  <2>2. PICK m \in Nat : m = n - 1
    BY <2>1
  <2>3. m + 1 = n /\ m < Len(src) /\ Len(at) = m /\ Labels(m)
    BY <1>0, <2>1, <2>2 DEF Counting, Kept
  <2>4. Labels(m + 1)'
    BY <1>0, <2>1, <2>3, LabelsMore
  <2>5. m + 1 = n' - 1
    BY <2>1, <2>3
  <2> QED BY <2>1, <2>4, <2>5 DEF Kept
<1>3. CASE BeginPassTwo
  <2>1. pass = "one" /\ pass' = "two" /\ n - 1 = Len(src) /\ UNCHANGED <<src, labels, at>>
    BY <1>0, <1>3 DEF BeginPassTwo, Typed
  <2>2. Labels(Len(src))
    BY <2>1 DEF Kept
  <2>3. Labels(Len(src))'
    <3>1. \A name : Found(name)' = Found(name)
      BY <2>1 DEF Found
    <3>2. \A l, name : IsFirst(l, name)' <=> IsFirst(l, name)
      BY <2>1 DEF IsFirst
    <3>3. Cardinality(WithLabel(Len(src))') = Len(labels')
      BY <2>1, <2>2 DEF Labels, WithLabel
    <3>4. /\ \A name \in Names : \A k \in Found(name)' :
               \E l \in 1 .. Len(src') : IsFirst(l, name)' /\ labels'[k].addr = at'[l]
          /\ \A l \in 1 .. Len(src') : src'[l].label # NoName =>
               \E k \in 1 .. Len(labels') : labels'[k].name = Key(src'[l].label)
          /\ \A l \in 1 .. Len(src') : src'[l].op # "bad"
      BY <2>1, <2>2, <3>1, <3>2 DEF Labels
    <3> QED BY <3>3, <3>4 DEF Labels
  <2> QED BY <2>1, <2>3 DEF Kept
<1>4. CASE PassTwo \/ UNCHANGED vars
  <2>1. UNCHANGED <<src, labels, at, pass>> /\ (pass = "one" => n' = n)
    BY <1>4 DEF PassTwo, vars
  <2>2. \A m : Labels(m) => Labels(m)'
    BY <2>1 DEF Labels, Found, IsFirst, WithLabel
  <2> QED BY <2>1, <2>2 DEF Kept
<1>5. CASE PassOneFails \/ PassTwoFails \/ Finish \/ Return
  <2>1. pass' \notin {"one", "two"}
    BY <1>5 DEF PassOneFails, PassTwoFails, Finish, Return
  <2> QED BY <2>1 DEF Kept
<1> QED BY <1>1, <1>2, <1>3, <1>4, <1>5 DEF Next

LEMMA PlaceTyped ==
  ASSUME Typed
  PROVE  /\ Place(1) = 0
         /\ \A k \in 1 .. Len(src) + 1 : Place(k) \in Nat
         /\ \A k \in 1 .. Len(src) : Place(k + 1) = Place(k) + Size(src[k])
<1>1. src \in Seq(Lines)
  BY SourceTyped
<1> QED BY <1>1, PlacesStep, PlacesNat DEF Place

LEMMA JoinAt ==
  ASSUME NEW s \in Seq(Elements), NEW t \in Seq(Elements), NEW i \in 1 .. Len(t)
  PROVE  (s \o t)[Len(s) + i] = t[i]
  OBVIOUS

(* The bytes of a jump, where they are put out.                            *)
LEMMA JumpPut ==
  ASSUME NEW v \in Int, src[n].op = "jmp", out \in Seq(Elements), addr \in Int,
         NEW p \in Nat, p = Len(out), out' = out \o Encode(src[n], v)
  PROVE  Len(out') = p + 5 /\ Long(p + 2)' = (v - (addr + 5)) % Modulus
<1> DEFINE w == (v - (addr + 5)) % Modulus
           e == Encode(src[n], v)
<1>1. e = Op("jmp", 0) \o Dword(w)
  BY SMTT(30) DEF Encode, Plain
<1>2. w \in Addresses
  <2>1. v - (addr + 5) \in Int
    OBVIOUS
  <2> QED BY <2>1, ModulusPositive DEF Addresses
<1>3. w \in Int
  BY <1>2 DEF Addresses
<1> HIDE DEF w, e
<1>4. /\ Op("jmp", 0) \in Seq(Elements) /\ Len(Op("jmp", 0)) = 1
      /\ Dword(w) \in Seq(Elements) /\ Len(Dword(w)) = 4
      /\ e \in Seq(Elements) /\ Len(e) = 5
  <2>1. "jmp" \in OpNames /\ 0 \in Registers
    BY DEF OpNames, Registers
  <2>2. Op("jmp", 0) \in Seq(Elements) /\ Len(Op("jmp", 0)) = 1
    BY <2>1, OpLength
  <2>3. Dword(w) \in Seq(Elements) /\ Len(Dword(w)) = 4
    BY <1>3, DwordLength
  <2>4. (Op("jmp", 0) \o Dword(w)) \in Seq(Elements) /\ Len(Op("jmp", 0) \o Dword(w)) = 5
    BY <1>3, <2>1, OpDword
  <2> QED BY <1>1, <2>2, <2>3, <2>4
<1>5. e[2] = Dword(w)[1] /\ e[3] = Dword(w)[2] /\ e[4] = Dword(w)[3] /\ e[5] = Dword(w)[4]
  <2> DEFINE s == Op("jmp", 0)
             t == Dword(w)
  <2>1. e = s \o t /\ s \in Seq(Elements) /\ Len(s) = 1 /\ t \in Seq(Elements) /\ Len(t) = 4
    BY <1>1, <1>4
  <2> HIDE DEF s, t
  <2>2. \A i \in 1 .. 4 : e[1 + i] = t[i]
    <3> SUFFICES ASSUME NEW i \in 1 .. 4 PROVE (s \o t)[1 + i] = t[i]
      BY <2>1
    <3>1. (s \o t)[Len(s) + i] = t[i]
      BY <2>1, JoinAt
    <3> QED BY <2>1, <3>1
  <2>3. e[2] = t[1] /\ e[3] = t[2] /\ e[4] = t[3] /\ e[5] = t[4]
    <3>1. 1 + 1 = 2 /\ 1 + 2 = 3 /\ 1 + 3 = 4 /\ 1 + 4 = 5
      OBVIOUS
    <3>2. e[1 + 1] = t[1] /\ e[1 + 2] = t[2] /\ e[1 + 3] = t[3] /\ e[1 + 4] = t[4]
      BY <2>2
    <3> QED BY <3>1, <3>2
  <2> QED BY <2>3 DEF t
<1>6. out' = out \o e
  BY DEF e
<1>7. Len(out') = p + 5
  BY <1>4, <1>6, JoinLength
<1>8. out'[p + 2] = e[2] /\ out'[p + 3] = e[3] /\ out'[p + 4] = e[4] /\ out'[p + 5] = e[5]
  <2>1. \A s, t \in Seq(Elements) : \A i \in 1 .. Len(t) : (s \o t)[Len(s) + i] = t[i]
    OBVIOUS
  <2> QED BY <1>4, <1>6, <2>1
<1>9. /\ out'[p + 2] = Dword(w)[1] /\ out'[(p + 2) + 1] = Dword(w)[2]
      /\ out'[(p + 2) + 2] = Dword(w)[3] /\ out'[(p + 2) + 3] = Dword(w)[4]
  <2>1. (p + 2) + 1 = p + 3 /\ (p + 2) + 2 = p + 4 /\ (p + 2) + 3 = p + 5
    OBVIOUS
  <2> QED BY <1>5, <1>8, <2>1
<1>10. Long(p + 2)' =
         Dword(w)[1].v + Base * (Dword(w)[2].v + Base * (Dword(w)[3].v + Base * Dword(w)[4].v))
  BY <1>9 DEF Long
<1>11. Long(p + 2)' = w
  BY <1>2, <1>10, DwordRead
<1> QED BY <1>7, <1>11 DEF w

(* A line ends no later than a line behind it begins.                      *)
LEMMA PlacesGrow ==
  ASSUME Typed, NEW j \in 1 .. Len(src) + 1, NEW k \in 1 .. j - 1
  PROVE  Place(k) + Size(src[k]) <= Place(j)
<1> DEFINE Wrong == {i \in Nat : i \in k + 1 .. Len(src) + 1 /\ ~ (Place(k) + Size(src[k]) <= Place(i))}
<1>1. SUFFICES ASSUME Wrong # {} PROVE FALSE
  BY SourceTyped
<1>2. PICK i \in Wrong : \A h \in Wrong : i <= h
  BY <1>1, Least
<1>3. Len(src) \in Nat /\ i \in k + 1 .. Len(src) + 1 /\ ~ (Place(k) + Size(src[k]) <= Place(i))
  BY <1>2, SourceTyped
<1>4. k \in 1 .. Len(src) /\ Size(src[k]) \in Nat /\ Place(k) \in Nat
  BY <1>3, SourceTyped, PlaceTyped
<1>5. i # k + 1
  <2>1. Place(k + 1) = Place(k) + Size(src[k])
    BY <1>4, PlaceTyped
  <2> QED BY <1>3, <1>4, <2>1
<1>6. i - 1 \in k + 1 .. Len(src) /\ (i - 1) + 1 = i /\ i - 1 \in Nat
  BY <1>3, <1>5
<1>7. Place(k) + Size(src[k]) <= Place(i - 1)
  BY <1>2, <1>3, <1>6
<1>8. Place(i) = Place(i - 1) + Size(src[i - 1])
  BY <1>3, <1>4, <1>6, PlaceTyped
<1>9. Size(src[i - 1]) \in Nat /\ Place(i - 1) \in Nat
  BY <1>3, <1>4, <1>6, SourceTyped, PlaceTyped
<1> QED BY <1>3, <1>4, <1>7, <1>8, <1>9

(* What is put out of the lines before is left as it is.                   *)
LEMMA PutKept ==
  ASSUME Typed, NEW k \in 1 .. Len(src), Put(k), out' = out \/ \E e \in Seq(Elements) : out' = out \o e,
         UNCHANGED <<src, labels, at>>, Place(k) + Size(src[k]) <= Len(out)
  PROVE  Put(k)'
<1>1. /\ Place(k)' = Place(k) /\ Resolves(src[k].val)' = Resolves(src[k].val)
      /\ resolve_value(src[k].val)' = resolve_value(src[k].val)
  BY DEF Place, Resolves, resolve_value, Found
<1>2. PICK p \in Nat : p = Place(k)
  BY PlaceTyped
<1>3. out \in Seq(Elements)
  BY DEF Typed
<1>4. src[k].op = "jmp" => Jump(k)'
  <2> SUFFICES ASSUME src[k].op = "jmp" PROVE Jump(k)'
    OBVIOUS
  <2>1. p + 5 <= Len(out) /\ Long(p + 2) = (resolve_value(src[k].val) - (at[k] + 5)) % Modulus
    BY <1>2 DEF Put, Jump
  <2>2. Len(out) <= Len(out') /\ \A i \in 1 .. Len(out) : out'[i] = out[i]
    BY <1>3
  <2>3. /\ p + 2 \in 1 .. Len(out) /\ (p + 2) + 1 \in 1 .. Len(out)
        /\ (p + 2) + 2 \in 1 .. Len(out) /\ (p + 2) + 3 \in 1 .. Len(out)
    BY <1>3, <2>1
  <2>4. Long(p + 2)' = Long(p + 2)
    BY <2>2, <2>3 DEF Long
  <2>5. Place(k)' + 5 <= Len(out')
    BY <1>1, <1>2, <1>3, <2>1, <2>2
  <2>6. Long(Place(k) + 2)' = Long(p + 2)'
    BY <1>1, <1>2 DEF Long
  <2> QED BY <1>1, <2>1, <2>4, <2>5, <2>6 DEF Jump
<1> QED BY <1>1, <1>4 DEF Put

LEMMA EmittedStep == Inv /\ Kept /\ Emitted /\ [Next]_vars => Emitted'
<1> SUFFICES ASSUME Inv, Kept, Emitted, [Next]_vars PROVE Emitted'
  OBVIOUS
<1>0. Typed /\ Nothing /\ Counting /\ Putting /\ Len(src) \in Nat
  <2>1. Typed
    BY DEF Inv
  <2> QED BY <2>1, SourceTyped DEF Inv
<1>1. CASE BeginPassTwo
  <2>1. pass = "one" /\ pass' = "two" /\ n' = 1 /\ src' = src /\ out' = <<>>
    BY <1>0, <1>1 DEF BeginPassTwo, Counting
  <2>2. Place(1) = 0
    BY <1>0, PlaceTyped
  <2>3. Place(1)' = Place(1)
    BY <2>1 DEF Place
  <2>4. Place(n)' = 0
    BY <2>1, <2>2 DEF Place
  <2> QED BY <2>1, <2>4 DEF Emitted
<1>2. CASE PassTwo
  <2> DEFINE v == IF Line.op \in OfValue THEN resolve_value(Line.val) ELSE 0
             e == Encode(src[n], v)
  <2>1. /\ pass = "two" /\ pass' = "two" /\ n \in 1 .. Len(src) /\ n' = n + 1
        /\ UNCHANGED <<src, labels, at>> /\ out' = out \o e
    BY <1>0, <1>2 DEF PassTwo, Line, Typed
  <2>2. src[n] \in Lines /\ Size(src[n]) \in Nat
    BY <1>0, <2>1, SourceTyped
  <2>3. /\ src[n].op \in OfValue => Resolves(src[n].val)
        /\ src[n].op # "blank" => Len(out) + 8 <= MaxOut
    <3>1. src[n].op \in OfValue => src[n].op # "blank"
      BY DEF OfValue
    <3>2. Len(out) \in Nat /\ MaxOut \in Nat
      BY <1>0, AsmAssumption DEF Typed
    <3> QED BY <1>2, <3>1, <3>2 DEF PassTwo, CannotPut, OutputFull, Line
  <2>4. v \in Int
    <3>1. src[n].op \in OfValue => src[n].val \in Values
      BY <2>2 DEF Lines
    <3> QED BY <1>0, <2>3, <3>1, ResolveTyped DEF Line
  <2>5. addr \in Int /\ addr = at[n] /\ (Org + Len(out)) % Modulus = at[n]
    BY <1>0, <2>1 DEF Putting, Typed, Addresses
  <2>6. e \in Seq(Elements) /\ Len(e) = Size(src[n])
    BY <2>2, <2>4, <2>5, EncodeSize
  <2>7. v = (IF src[n].op \in OfValue THEN resolve_value(src[n].val) ELSE 0)
    BY DEF Line
  <2>8. out \in Seq(Elements) /\ Len(out') = Len(out) + Size(src[n]) /\ Len(out) = Place(n)
    <3>1. out \in Seq(Elements)
      BY <1>0 DEF Typed
    <3>2. Len(out \o e) = Len(out) + Len(e)
      BY <2>6, <3>1, JoinLength
    <3> QED BY <2>1, <2>6, <3>1, <3>2 DEF Emitted
  <2> HIDE DEF v
  <2>9. Len(out') = Place(n + 1)
    <3>1. Place(n + 1) = Place(n) + Size(src[n])
      BY <1>0, <2>1, PlaceTyped
    <3> QED BY <2>8, <3>1
  <2>10. \A k \in 1 .. n - 1 : Put(k)'
    <3> SUFFICES ASSUME NEW k \in 1 .. n - 1 PROVE Put(k)'
      OBVIOUS
    <3>1. Put(k)
      BY <2>1 DEF Emitted
    <3>2. k \in 1 .. Len(src)
      BY <1>0, <2>1
    <3>3. Place(k) + Size(src[k]) <= Len(out)
      BY <1>0, <2>1, <2>8, PlacesGrow
    <3>4. \E f \in Seq(Elements) : out' = out \o f
      BY <2>1, <2>6
    <3> QED BY <1>0, <2>1, <3>1, <3>2, <3>3, <3>4, PutKept
  <2>11. \A k \in {n} : Put(k)'
    <3> SUFFICES ASSUME NEW k, k = n PROVE Put(k)'
      OBVIOUS
    <3>1. /\ Place(k)' = Place(k) /\ Resolves(src[k].val)' = Resolves(src[k].val)
          /\ resolve_value(src[k].val)' = resolve_value(src[k].val)
      BY <2>1 DEF Place, Resolves, resolve_value, Found
    <3>2. PICK p \in Nat : p = Len(out)
      BY <2>8
    <3>3. src[k].op = "jmp" => Jump(k)'
      <4> SUFFICES ASSUME src[k].op = "jmp" PROVE Jump(k)'
        OBVIOUS
      <4>1. Len(out') = p + 5 /\ Long(p + 2)' = (v - (addr + 5)) % Modulus
        BY <2>1, <2>4, <2>5, <2>8, <3>2, JumpPut
      <4>2. v = resolve_value(src[k].val)
        BY <2>7 DEF OfValue
      <4>3. Long(Place(k) + 2)' = Long(p + 2)'
        BY <2>8, <3>1, <3>2 DEF Long
      <4>4. Place(k)' + 5 <= Len(out')
        BY <2>8, <3>1, <3>2, <4>1
      <4> QED BY <2>1, <2>5, <3>1, <4>1, <4>2, <4>3, <4>4 DEF Jump
    <3> QED BY <2>1, <2>3, <2>5, <2>8, <3>1, <3>3 DEF Put
  <2>12. \A k \in 1 .. n : k \in 1 .. n - 1 \/ k \in {n}
    BY <2>1
  <2>13. Len(out') = Place(n)'
    BY <2>1, <2>9 DEF Place
  <2>14. \A k \in 1 .. n' - 1 : Put(k)'
    BY <2>1, <2>10, <2>11, <2>12
  <2> QED BY <2>13, <2>14 DEF Emitted
<1>3. CASE (\E s \in Sources : Assemble(s)) \/ PassOneFails \/ PassOne \/ PassTwoFails \/ Finish \/ Return
  <2>1. pass' # "two"
    BY <1>3 DEF Assemble, PassOneFails, PassOne, PassTwoFails, Finish, Return
  <2> QED BY <2>1 DEF Emitted
<1>4. CASE UNCHANGED vars
  <2>1. UNCHANGED <<src, labels, at, out, pass, n>>
    BY <1>4 DEF vars
  <2>2. \A k : /\ Place(k)' = Place(k) /\ Long(k)' = Long(k)
               /\ Resolves(src[k].val)' = Resolves(src[k].val)
               /\ resolve_value(src[k].val)' = resolve_value(src[k].val)
    BY <2>1 DEF Place, Long, Resolves, resolve_value, Found
  <2>3. \A k : Long(Place(k) + 2)' = Long(Place(k) + 2)
    BY <2>1, <2>2 DEF Long
  <2>4. \A k : Put(k) => Put(k)'
    BY <2>1, <2>2, <2>3 DEF Put, Jump
  <2>5. Place(n)' = Place(n)
    BY <2>1 DEF Place
  <2> QED BY <2>1, <2>4, <2>5 DEF Emitted
<1> QED BY <1>1, <1>2, <1>3, <1>4 DEF Next

(* A label that resolves has a first line, and the address of that line.   *)
LEMMA Resolved ==
  ASSUME Labels(Len(src)), NEW name \in Names, Found(name) # {}
  PROVE  \E l \in 1 .. Len(src) :
           /\ IsFirst(l, name) /\ Home(name) = l
           /\ labels[CHOOSE h \in Found(name) : TRUE].addr = at[l]
<1>1. PICK h \in Found(name) : h = CHOOSE j \in Found(name) : TRUE
  OBVIOUS
<1>2. PICK l \in 1 .. Len(src) : IsFirst(l, name) /\ labels[h].addr = at[l]
  BY DEF Labels
<1>3. \A j \in 1 .. Len(src) : IsFirst(j, name) => j = l
  <2> SUFFICES ASSUME NEW j \in 1 .. Len(src), IsFirst(j, name), j # l PROVE FALSE
    OBVIOUS
  <2>1. j \in 1 .. l - 1 \/ l \in 1 .. j - 1
    OBVIOUS
  <2> QED BY <1>2, <2>1 DEF IsFirst
<1>4. Home(name) = CHOOSE j \in 1 .. Len(src) : IsFirst(j, name)
  BY DEF Home, IsFirst
<1> QED BY <1>1, <1>2, <1>3, <1>4

LEMMA AtTheEnd ==
  ASSUME Inv, Kept, Emitted, pass = "two", n > Len(src)
  PROVE  /\ \A k \in 1 .. Len(src) :
              src[k].op = "jmp" /\ src[k].val.label # NoName =>
                (Place(k) + 5 + Long(Place(k) + 2)) % Modulus = Place(Home(src[k].val.label)) % Modulus
         /\ ~(Unknown \/ Crowded \/ Dangling \/ Lengthy)
<1>0. /\ Typed /\ Len(src) \in Nat /\ Labels(Len(src)) /\ n - 1 = Len(src)
      /\ \A k \in 1 .. Len(src) : src[k] \in Lines /\ Put(k) /\ Place(k) \in Nat
  <2>1. Typed
    BY DEF Inv
  <2>2. Len(src) \in Nat /\ n - 1 = Len(src)
    BY <2>1, SourceTyped DEF Typed
  <2>3. \A k \in 1 .. Len(src) : k \in 1 .. Len(src) + 1
    BY <2>2
  <2> QED BY <2>1, <2>2, <2>3, SourceTyped, PlaceTyped DEF Kept, Emitted
<1>1. \A k \in 1 .. Len(src) : src[k].val.label \in Names \cup {NoName}
  BY <1>0 DEF Lines, Values
<1>2. ASSUME NEW k \in 1 .. Len(src), src[k].op = "jmp", src[k].val.label # NoName
      PROVE  (Place(k) + 5 + Long(Place(k) + 2)) % Modulus = Place(Home(src[k].val.label)) % Modulus
  <2>1. PICK name \in Names : name = src[k].val.label
    BY <1>1, <1>2
  <2>2. Put(k) /\ Jump(k) /\ Resolves(src[k].val)
    BY <1>0, <1>2 DEF Put, OfValue
  <2>3. Found(name) # {}
    BY <1>2, <2>1, <2>2 DEF Resolves
  <2>4. PICK l \in 1 .. Len(src) :
          Home(name) = l /\ labels[CHOOSE h \in Found(name) : TRUE].addr = at[l]
    BY <1>0, <2>3, Resolved
  <2>5. resolve_value(src[k].val) = at[l]
    BY <1>2, <2>1, <2>4 DEF resolve_value
  <2>6. at[l] = (Org + Place(l)) % Modulus /\ at[k] = (Org + Place(k)) % Modulus
    BY <1>0 DEF Put
  <2>7. Long(Place(k) + 2) = (((Org + Place(l)) % Modulus) - (((Org + Place(k)) % Modulus) + 5)) % Modulus
    BY <2>2, <2>5, <2>6 DEF Jump
  <2>8. Modulus \in Nat \ {0} /\ Org \in Int /\ Place(k) \in Int /\ Place(l) \in Int
    BY <1>0, ModulusPositive, AsmAssumption
  <2>9. (Place(k) + 5 + Long(Place(k) + 2)) % Modulus = Place(l) % Modulus
    <3>1. \A m \in Nat \ {0} : \A o, p, q \in Int :
            (p + 5 + ((((o + q) % m) - (((o + p) % m) + 5)) % m)) % m = q % m
      BY JumpLands
    <3>2. (Place(k) + 5 + ((((Org + Place(l)) % Modulus) - (((Org + Place(k)) % Modulus) + 5)) % Modulus)) % Modulus
          = Place(l) % Modulus
      BY <2>8, <3>1
    <3> QED BY <2>7, <3>2
  <2> QED BY <2>1, <2>4, <2>9
<1>3. ~Unknown
  BY <1>0 DEF Unknown, Labels
<1>4. ~Crowded
  <2>1. Len(labels) \in Nat /\ Len(labels) <= MaxLabels /\ MaxLabels \in Nat
    BY <1>0, AsmAssumption DEF Typed
  <2>2. Cardinality(WithLabel(Len(src))) = Len(labels)
    BY <1>0 DEF Labels
  <2> QED BY <2>1, <2>2 DEF Crowded, WithLabel
<1>5. ~Dangling
  <2> SUFFICES ASSUME NEW k \in 1 .. Len(src), src[k].op \in OfValue, src[k].val.label # NoName
               PROVE  \E l \in 1 .. Len(src) : src[l].label # NoName /\ Key(src[l].label) = src[k].val.label
    BY DEF Dangling
  <2>1. src[k].val.label \in Names /\ Found(src[k].val.label) # {}
    BY <1>0, <1>1 DEF Put, Resolves
  <2>2. PICK l \in 1 .. Len(src) : IsFirst(l, src[k].val.label)
    BY <1>0, <2>1, Resolved
  <2> QED BY <2>2 DEF IsFirst
<1>6. ~Lengthy
  <2> SUFFICES ASSUME NEW k \in 1 .. Len(src), src[k].op # "blank", Place(k) + 8 > MaxOut
               PROVE  FALSE
    BY DEF Lengthy
  <2>1. Place(k) + 8 <= MaxOut /\ Place(k) \in Nat /\ MaxOut \in Nat
    BY <1>0, AsmAssumption DEF Put
  <2> QED BY <2>1
<1> QED BY <1>2, <1>3, <1>4, <1>5, <1>6

LEMMA RefusedInOne ==
  ASSUME Inv, Kept, PassOneFails
  PROVE  Unknown \/ Crowded
<1>0. Typed /\ Len(src) \in Nat /\ pass = "one" /\ n \in 1 .. Len(src)
  <2>1. Typed
    BY DEF Inv
  <2>2. Len(src) \in Nat
    BY <2>1, SourceTyped
  <2> QED BY <2>1, <2>2 DEF Typed, PassOneFails
<1>1. CASE Line.op = "bad"
  BY <1>0, <1>1 DEF Unknown, Line
<1>2. CASE TooManyLabels
  <2>1. src[n].label # NoName /\ Len(labels) >= MaxLabels /\ Len(labels) \in Nat /\ MaxLabels \in Nat
    BY <1>0, <1>2, AsmAssumption DEF TooManyLabels, Labelled, Line, Typed
  <2>2. Cardinality(WithLabel(n - 1)) = Len(labels)
    BY <1>0 DEF Kept, Labels
  <2> DEFINE before == WithLabel(n - 1)
             all == WithLabel(Len(src))
  <2>3. IsFiniteSet(1 .. Len(src)) /\ before \in SUBSET (1 .. Len(src)) /\ all \in SUBSET (1 .. Len(src))
    <3>1. IsFiniteSet(1 .. Len(src))
      BY <1>0, FS_Interval
    <3>2. \A l \in 1 .. n - 1 : l \in 1 .. Len(src)
      BY <1>0
    <3> QED BY <3>1, <3>2 DEF WithLabel
  <2>4. IsFiniteSet(before) /\ IsFiniteSet(all)
    BY <2>3, FS_Subset
  <2>5. n \notin before /\ before \cup {n} \in SUBSET all
    BY <1>0, <2>1 DEF WithLabel
  <2> HIDE DEF before, all
  <2>6. Cardinality(before \cup {n}) = Cardinality(before) + 1
    BY <2>4, <2>5, FS_AddElement
  <2>7. Cardinality(before \cup {n}) <= Cardinality(all)
    BY <2>4, <2>5, FS_Subset
  <2>8. Cardinality(all) \in Nat
    BY <2>4, FS_CardinalityType
  <2>9. Cardinality(all) > MaxLabels
    BY <2>1, <2>2, <2>6, <2>7, <2>8 DEF before
  <2> QED BY <2>9 DEF Crowded, WithLabel, all
<1> QED BY <1>1, <1>2 DEF PassOneFails

LEMMA RefusedInTwo ==
  ASSUME Inv, Kept, Emitted, PassTwoFails
  PROVE  Dangling \/ Lengthy
<1>0. /\ Typed /\ pass = "two" /\ n \in 1 .. Len(src) /\ Labels(Len(src))
      /\ Len(out) = Place(n) /\ src[n] \in Lines /\ labels \in Seq([name : Names, addr : Addresses])
  <2>1. Typed
    BY DEF Inv
  <2>2. Len(src) \in Nat /\ pass = "two" /\ n \in 1 .. Len(src)
    BY <2>1, SourceTyped DEF Typed, PassTwoFails
  <2> QED BY <2>1, <2>2, SourceTyped DEF Typed, Kept, Emitted
<1>1. CASE src[n].op # "blank" /\ OutputFull
  BY <1>0, <1>1 DEF OutputFull, Lengthy
<1>2. CASE src[n].op \in OfValue /\ ~Resolves(src[n].val)
  <2>1. src[n].val.label # NoName /\ Found(src[n].val.label) = {}
    BY <1>2 DEF Resolves
  <2>2. \A j \in 1 .. Len(labels) : labels[j].name # src[n].val.label
    BY <1>0, <2>1, FoundSome
  <2>3. \A j \in 1 .. Len(src) : src[j].label # NoName => Key(src[j].label) # src[n].val.label
    BY <1>0, <2>2 DEF Labels
  <2> QED BY <1>0, <1>2, <2>1, <2>3 DEF Dangling
<1> QED BY <1>1, <1>2 DEF PassTwoFails, CannotPut, Line

LEMMA RightStep == Inv2 /\ [Next]_vars => AssembledRight'
<1> SUFFICES ASSUME Inv2, [Next]_vars PROVE AssembledRight'
  OBVIOUS
<1>0. Inv /\ Kept /\ Emitted /\ AssembledRight
  BY DEF Inv2
<1>k. ASSUME src' = src
      PROVE  (Unknown \/ Crowded \/ Dangling \/ Lengthy)' <=> (Unknown \/ Crowded \/ Dangling \/ Lengthy)
  <2>1. \A k : Place(k)' = Place(k)
    BY <1>k DEF Place
  <2> QED BY <1>k, <2>1 DEF Unknown, Crowded, Dangling, Lengthy
<1>j. ASSUME src' = src, out' = out, NEW k
      PROVE  /\ Long(Place(k) + 2)' = Long(Place(k) + 2) /\ Place(k)' = Place(k)
             /\ Place(Home(src[k].val.label))' = Place(Home(src[k].val.label))
  BY <1>j DEF Place, Long, Home
<1>1. CASE Finish
  <2>1. pass = "two" /\ n > Len(src) /\ pass' = "ok" /\ src' = src /\ out' = out
    BY <1>1 DEF Finish
  <2>2. RefusesFaults'
    BY <1>0, <1>k, <2>1, AtTheEnd DEF RefusesFaults
  <2>3. JumpsLand'
    <3> SUFFICES ASSUME NEW k \in 1 .. Len(src), src[k].op = "jmp", src[k].val.label # NoName
                 PROVE  (Place(k)' + 5 + Long(Place(k) + 2)') % Modulus
                        = Place(Home(src[k].val.label))' % Modulus
      BY <2>1 DEF JumpsLand
    <3>1. (Place(k) + 5 + Long(Place(k) + 2)) % Modulus = Place(Home(src[k].val.label)) % Modulus
      BY <1>0, <2>1, AtTheEnd
    <3> QED BY <1>j, <2>1, <3>1
  <2> QED BY <2>2, <2>3 DEF AssembledRight
<1>2. CASE PassOneFails
  <2>1. pass' = "failed" /\ src' = src
    BY <1>2 DEF PassOneFails
  <2> QED BY <1>0, <1>2, <1>k, <2>1, RefusedInOne DEF AssembledRight, JumpsLand, RefusesFaults
<1>3. CASE PassTwoFails
  <2>1. pass' = "failed" /\ src' = src
    BY <1>3 DEF PassTwoFails
  <2> QED BY <1>0, <1>3, <1>k, <2>1, RefusedInTwo DEF AssembledRight, JumpsLand, RefusesFaults
<1>4. CASE (\E s \in Sources : Assemble(s)) \/ PassOne \/ BeginPassTwo \/ PassTwo \/ Return
  <2>1. pass' \notin {"ok", "failed"}
    BY <1>0, <1>4 DEF Assemble, PassOne, BeginPassTwo, PassTwo, Return
  <2> QED BY <2>1 DEF AssembledRight, JumpsLand, RefusesFaults
<1>5. CASE UNCHANGED vars
  <2>1. src' = src /\ out' = out /\ pass' = pass
    BY <1>5 DEF vars
  <2>2. RefusesFaults'
    BY <1>0, <1>k, <2>1 DEF AssembledRight, RefusesFaults
  <2>3. JumpsLand'
    <3> SUFFICES ASSUME pass = "ok", NEW k \in 1 .. Len(src), src[k].op = "jmp", src[k].val.label # NoName
                 PROVE  (Place(k)' + 5 + Long(Place(k) + 2)') % Modulus
                        = Place(Home(src[k].val.label))' % Modulus
      BY <2>1 DEF JumpsLand
    <3>1. (Place(k) + 5 + Long(Place(k) + 2)) % Modulus = Place(Home(src[k].val.label)) % Modulus
      BY <1>0 DEF AssembledRight, JumpsLand
    <3> QED BY <1>j, <2>1, <3>1
  <2> QED BY <2>2, <2>3 DEF AssembledRight
<1> QED BY <1>1, <1>2, <1>3, <1>4, <1>5 DEF Next

(* For every source: a program that is put out has each of its jumps land  *)
(* on the first line of the label it names, and a source is refused        *)
(* exactly when it has a fault (resolve_value, asm.c:86-95; jmp,           *)
(* asm.c:248-262; assemble_source, asm.c:301-357).                         *)
THEOREM AssemblesRight == Spec => []AssembledRight
<1>1. Init => Inv2
  <2> SUFFICES ASSUME Init PROVE Inv2
    OBVIOUS
  <2>1. pass = "idle"
    BY DEF Init
  <2> QED BY <2>1, InitInv DEF Inv2, Kept, Emitted, AssembledRight, JumpsLand, RefusesFaults
<1>2. Inv2 /\ [Next]_vars => Inv2'
  <2> SUFFICES ASSUME Inv2, [Next]_vars PROVE Inv2'
    OBVIOUS
  <2> QED BY NextInv, KeptStep, EmittedStep, RightStep DEF Inv2
<1>3. Inv2 => AssembledRight
  BY DEF Inv2
<1> QED BY <1>1, <1>2, <1>3, PTL DEF Spec
=============================================================================
