-------------------------------- MODULE Asm ---------------------------------
(***************************************************************************)
(* The assembler, kernel/asm.c, and the command "asm" of the shell: a pass *)
(* over the lines of a source that gives every label its address, and a    *)
(* second that puts out the bytes.  What a line is (its label, its         *)
(* instruction, its operands, the characters it takes) is data.            *)
(***************************************************************************)
EXTENDS Integers, Sequences, FiniteSets

CONSTANTS
  Sources,    \* sources, as sequences of lines
  Names,      \* labels as written
  Key(_),     \* the first 15 characters of a label, all that is kept
  Org,        \* the address the program is loaded at: 0x300000
  MaxLabels,  \* 32
  MaxOut,     \* bytes of the output buffer: 1024
  Base        \* values of a byte; an address has four

Modulus == Base * Base * Base * Base
Bytes == 0 .. Base - 1
Addresses == 0 .. Modulus - 1
NoName == "none"
Values == [label : Names \cup {NoName}, num : Addresses]
Registers == 0 .. 7
OfRegister == {"mov", "push", "call"}
OfValue == {"mov", "pushv", "add", "sub", "int", "jmp"}
Plain == {"ret", "hlt", "nop", "cli"}
(* A line begins at character start and takes chars of them.  "blank" is a *)
(* line of no instruction, "bad" one that process_line does not know.      *)
Lines == [label : Names \cup {NoName}, op : OfRegister \cup OfValue \cup Plain \cup {"db", "blank", "bad"},
          reg : Registers, val : Values, bytes : Seq(Bytes), start : Nat, chars : Nat]

(* The bytes of a line, as counted in either pass.                         *)
Size_PushShort(line) ==
  CASE line.op = "db"                             -> Len(line.bytes)
    [] line.op \in {"mov", "jmp"}                 -> 5
    [] line.op \in {"add", "sub"}                 -> 3
    [] line.op \in {"call", "int"}                -> 2
    [] line.op \in {"push", "pushv"} \cup Plain   -> 1
    [] OTHER                                      -> 0
Size(line) ==
  CASE line.op = "db"                       -> Len(line.bytes)
    [] line.op \in {"mov", "pushv", "jmp"}  -> 5
    [] line.op \in {"add", "sub"}           -> 3
    [] line.op \in {"call", "int"}          -> 2
    [] line.op \in {"push"} \cup Plain      -> 1
    [] OTHER                                -> 0

ASSUME AsmAssumption ==
  /\ Org \in Nat /\ MaxLabels \in Nat /\ MaxOut \in Nat /\ Base \in Nat \ {0, 1} /\ Org < Modulus
  /\ NoName \notin Names
  /\ \A n \in Names : Key(n) \in Names
  /\ Sources \subseteq Seq(Lines)

(* A source has at most MaxOut characters (1023 and a zero in a file of    *)
(* the shell), and no instruction is written in fewer characters than it   *)
(* has bytes ("jmp 1", five for five, is the shortest).                    *)
ASSUME WrittenAssumption ==
  \A s \in Sources : \A n \in 1 .. Len(s) :
    /\ Size(s[n]) <= s[n].chars
    /\ s[n].start + s[n].chars <= MaxOut
    /\ n < Len(s) => s[n].start + s[n].chars <= s[n + 1].start

VARIABLES
  src,      \* the source being assembled
  pass,     \* "idle", "one", "two", "ok", "failed"
  n,        \* the line the pass is at
  addr,     \* the address it stands for: addr in pass one, cur in pass two
  labels,   \* g_labels
  out,      \* g_asm_out, up to its length
  at        \* history: the address of each line in pass one

vars == <<src, pass, n, addr, labels, out, at>>

Init ==
  /\ src = <<>> /\ pass = "idle" /\ n = 1 /\ addr = Org
  /\ labels = <<>> /\ out = <<>> /\ at = <<>>

(* asm: of a file of the shell.  The table of labels is static.            *)
Assemble(s) ==
  /\ pass = "idle"
  /\ src' = s /\ pass' = "one" /\ n' = 1 /\ addr' = Org
  /\ labels' = <<>>
  /\ UNCHANGED <<out, at>>

Line == src[n]
Labelled == Line.label # NoName

-----------------------------------------------------------------------------
(* Pass one: a line adds its label and counts its bytes.                   *)
TooManyLabels_Late == Labelled /\ Len(labels) > MaxLabels
TooManyLabels == Labelled /\ Len(labels) >= MaxLabels
PassOneFails ==
  /\ pass = "one" /\ n <= Len(src)
  /\ TooManyLabels \/ Line.op = "bad"
  /\ pass' = "failed"
  /\ labels' = IF Labelled /\ ~TooManyLabels THEN Append(labels, [name |-> Key(Line.label), addr |-> addr]) ELSE labels
  /\ UNCHANGED <<src, n, addr, out, at>>
PassOne ==
  /\ pass = "one" /\ n <= Len(src)
  /\ ~TooManyLabels /\ Line.op # "bad"
  /\ labels' = IF Labelled THEN Append(labels, [name |-> Key(Line.label), addr |-> addr]) ELSE labels
  /\ at' = Append(at, addr)
  /\ addr' = (addr + Size(Line)) % Modulus
  /\ n' = n + 1
  /\ UNCHANGED <<src, pass, out>>

BeginPassTwo ==
  /\ pass = "one" /\ n > Len(src)
  /\ pass' = "two" /\ n' = 1 /\ addr' = Org
  /\ UNCHANGED <<src, labels, out, at>>

-----------------------------------------------------------------------------
(* Pass two.  A value is a number or the first label of its name.          *)
Found(name) == {k \in 1 .. Len(labels) : labels[k].name = name /\ \A j \in 1 .. k - 1 : labels[j].name # name}
Resolves(val) == val.label = NoName \/ Found(val.label) # {}
resolve_value(val) == IF val.label = NoName THEN val.num ELSE labels[CHOOSE k \in Found(val.label) : TRUE].addr

Byte(b) == [op |-> "byte", v |-> b]
Op(name, reg) == <<[op |-> name, v |-> reg]>>
(* An address, its low byte first.                                         *)
Dword(v) == <<Byte(v % Base), Byte((v \div Base) % Base), Byte((v \div (Base * Base)) % Base),
              Byte((v \div (Base * Base * Base)) % Base)>>
Low(v) == <<Byte(v % Base)>>
Data(bytes) == [k \in 1 .. Len(bytes) |-> Byte(bytes[k])]
Encode_FromStart(line, v) ==
  CASE line.op = "db"                -> Data(line.bytes)
    [] line.op = "mov"               -> Op("mov", line.reg) \o Dword(v)
    [] line.op = "push"              -> Op("push", line.reg)
    [] line.op = "pushv"             -> Op("pushv", 0) \o Dword(v)
    [] line.op = "call"              -> Op("group5", 0) \o Op("call", line.reg)
    [] line.op \in {"add", "sub"}    -> Op("imm8", 0) \o Op(line.op, 0) \o Low(v)
    [] line.op = "int"               -> Op("int", 0) \o Low(v)
    [] line.op = "jmp"               -> Op("jmp", 0) \o Dword((v - addr) % Modulus)
    [] line.op \in Plain             -> Op(line.op, 0)
    [] OTHER                         -> <<>>
Encode_DbWords(line, v) ==
  CASE line.op = "db"                -> Data(line.bytes) \o Data(line.bytes)
    [] line.op \in {"mov", "pushv", "jmp"} -> Op(line.op, line.reg) \o Dword(v)
    [] line.op \in {"call", "int"}  -> Op(line.op, 0) \o Low(v)
    [] line.op \in {"add", "sub"}    -> Op("imm8", 0) \o Op(line.op, 0) \o Low(v)
    [] line.op \in {"push"} \cup Plain -> Op(line.op, 0)
    [] OTHER                         -> <<>>
Encode(line, v) ==
  CASE line.op = "db"                -> Data(line.bytes)
    [] line.op = "mov"               -> Op("mov", line.reg) \o Dword(v)
    [] line.op = "push"              -> Op("push", line.reg)
    [] line.op = "pushv"             -> Op("pushv", 0) \o Dword(v)
    [] line.op = "call"              -> Op("group5", 0) \o Op("call", line.reg)
    [] line.op \in {"add", "sub"}    -> Op("imm8", 0) \o Op(line.op, 0) \o Low(v)
    [] line.op = "int"               -> Op("int", 0) \o Low(v)
    [] line.op = "jmp"               -> Op("jmp", 0) \o Dword((v - (addr + 5)) % Modulus)
    [] line.op \in Plain             -> Op(line.op, 0)
    [] OTHER                         -> <<>>

(* The room checked before a line is that of the longest instruction, but  *)
(* a line of db may be longer.                                             *)
OutputFull == Len(out) + 8 > MaxOut
CannotPut == Line.op # "blank" /\ (OutputFull \/ (Line.op \in OfValue /\ ~Resolves(Line.val)))
PassTwoFails ==
  /\ pass = "two" /\ n <= Len(src)
  /\ CannotPut
  /\ pass' = "failed"
  /\ UNCHANGED <<src, n, addr, labels, out, at>>
PassTwo ==
  /\ pass = "two" /\ n <= Len(src)
  /\ ~CannotPut
  /\ out' = out \o Encode(Line, IF Line.op \in OfValue THEN resolve_value(Line.val) ELSE 0)
  /\ addr' = (addr + Size(Line)) % Modulus
  /\ n' = n + 1
  /\ UNCHANGED <<src, pass, labels, at>>
Finish ==
  /\ pass = "two" /\ n > Len(src)
  /\ pass' = "ok"
  /\ UNCHANGED <<src, n, addr, labels, out, at>>
(* The shell writes the output to the disk, or says why there is none.     *)
Return ==
  /\ pass \in {"ok", "failed"}
  /\ src' = <<>> /\ pass' = "idle" /\ n' = 1 /\ addr' = Org
  /\ out' = <<>> /\ at' = <<>>
  /\ UNCHANGED labels

Next ==
  \/ \E s \in Sources : Assemble(s)
  \/ PassOneFails \/ PassOne \/ BeginPassTwo \/ PassTwoFails \/ PassTwo \/ Finish \/ Return
Spec == Init /\ [][Next]_vars

-----------------------------------------------------------------------------
TypeOK ==
  /\ src \in Seq(Lines)
  /\ pass \in {"idle", "one", "two", "ok", "failed"}
  /\ n \in 1 .. Len(src) + 1
  /\ addr \in Addresses
  /\ labels \in Seq([name : Names, addr : Addresses]) /\ Len(labels) <= MaxLabels
  /\ at \in Seq(Addresses)
  /\ \A k \in 1 .. Len(out) : out[k].v \in Bytes \cup Registers

(* The output fits its buffer, and the check before a line, which does not *)
(* know the length of a db, is not what ensures it: the bytes put out are  *)
(* no more than the characters read (assemble_source, asm.c:346-349;       *)
(* process_db, asm.c:141-170).                                             *)
OutputFits == Len(out) <= MaxOut

(* The second pass is at every line where the first was, and the bytes put *)
(* out reach to there: what the passes count is what they emit             *)
(* (process_line, asm.c:172-269).                                          *)
PassesAgree ==
  pass = "two" =>
    /\ n <= Len(src) => addr = at[n]
    /\ (Org + Len(out)) % Modulus = addr

(* In a finished program each jump to a label, decoded as the processor    *)
(* does, lands on the bytes of the first line of that label; and those are *)
(* the line's own (resolve_value, asm.c:86-95; jmp, asm.c:248-262).        *)
Places(s) ==
  LET place[k \in 1 .. Len(s) + 1] == IF k = 1 THEN 0 ELSE place[k - 1] + Size(s[k - 1]) IN place
Place(k) == Places(src)[k]
Long(k) == out[k].v + Base * (out[k + 1].v + Base * (out[k + 2].v + Base * out[k + 3].v))
Home(name) == CHOOSE k \in 1 .. Len(src) :
  /\ src[k].label # NoName /\ Key(src[k].label) = name
  /\ \A j \in 1 .. k - 1 : src[j].label # NoName => Key(src[j].label) # name
JumpsLand ==
  pass = "ok" => \A k \in 1 .. Len(src) :
    src[k].op = "jmp" /\ src[k].val.label # NoName =>
      (Place(k) + 5 + Long(Place(k) + 2)) % Modulus = Place(Home(src[k].val.label)) % Modulus

(* A source is refused exactly when a line is unknown, a label is one too  *)
(* many, a label used is not among the labels as kept, or the output is    *)
(* full (assemble_source, asm.c:301-357).                                  *)
Unknown == \E k \in 1 .. Len(src) : src[k].op = "bad"
Crowded == Cardinality({k \in 1 .. Len(src) : src[k].label # NoName}) > MaxLabels
Dangling == \E k \in 1 .. Len(src) : /\ src[k].op \in OfValue /\ src[k].val.label # NoName
                                     /\ \A j \in 1 .. Len(src) : src[j].label # NoName => Key(src[j].label) # src[k].val.label
Lengthy == \E k \in 1 .. Len(src) : src[k].op # "blank" /\ Place(k) + 8 > MaxOut
RefusesFaults ==
  /\ pass = "ok" => ~(Unknown \/ Crowded \/ Dangling \/ Lengthy)
  /\ pass = "failed" => Unknown \/ Crowded \/ Dangling \/ Lengthy

(* What is refused had to be, and what is not goes where it says.          *)
AssembledRight == JumpsLand /\ RefusesFaults
=============================================================================
