------------------------------ MODULE VmProofs ------------------------------
(***************************************************************************)
(* Vm's theorems.  The emitter keeps the code a sequence of whole          *)
(* instructions that ends in HALT, and the texts it names in the table;    *)
(* what the loader accepts of the file is what was emitted; the            *)
(* interpreter steps from one instruction to the next and, in the code of  *)
(* a well-formed tree, takes the values of an instruction's own operands.  *)
(***************************************************************************)
EXTENDS Vm, SequenceFacts

Texts ==
  Literal \cup Ident \cup OperatorName
    \cup {"", "$set", "$call", "<anonymous>", "<none>", "backend", "morphl-vm-bytecode",
          "format_version", "1.0", "operators", "runtime-verbatim"}

Cell == [op : Opcode \cup {"OPERAND"}, arg : Nat]
Instruction(op, arg) == [op |-> op, arg |-> arg]
Spans == Seq(Int \X Int)
Meaning == [text : Texts, spans : Spans]
EmitFrame == [kind : NodeKind \cup {"file"}, name : Texts, left : Nat, from : Int, spans : Spans]

(* The open calls of emit_node: every one but the innermost is at a child. *)
FramesOK ==
  /\ frames \in Seq(EmitFrame)
  /\ budget \in 0 .. MaxNodes
  /\ \A i \in DOMAIN frames :
       /\ i = 1 <=> frames[i].kind = "file"
       /\ i < Len(frames) => frames[i].left > 0

CodeTypeOK ==
  /\ strings \in Seq(Texts)
  /\ code \in Seq(Cell)
  /\ source \in Seq(Meaning) /\ Len(source) = Len(code)

(* The bytes that emit_opcode, emit_opcode_u32 or emit_node_meta append. *)
EmittedWidth(op) == IF op \in BareOp THEN 1 ELSE IF op = "NODE_META" THEN 10 ELSE 5

(* The instruction at cell i is whole, and the next one begins behind it. *)
Whole(c, i) ==
  LET next == i + EmittedWidth(c[i].op)
  IN  /\ next <= Len(c) + 1
      /\ \A j \in i + 1 .. next - 1 : c[j].op = "OPERAND"
      /\ next <= Len(c) => c[next].op # "OPERAND"

Layout(c) ==
  /\ c # << >> => c[1].op # "OPERAND"
  /\ \A i \in DOMAIN c : c[i].op # "OPERAND" => Whole(c, i)

(* What an instruction's text is. *)
TextFits(op, text) ==
  /\ op = "PUSH_LITERAL" => text \in Literal
  /\ op = "PUSH_IDENT" => text \in Ident

TextsFit == \A i \in DOMAIN code : TextFits(code[i].op, source[i].text)

HaltIsLast ==
  \A i \in DOMAIN code : code[i].op = "HALT" => frames = << >> /\ i = Len(code)

EndsInHalt == frames = << >> => code # << >> /\ code[Len(code)].op = "HALT"

CodeInv ==
  CodeTypeOK /\ Layout(code) /\ InstructionsKeepMeaning /\ TextsFit /\ HaltIsLast /\ EndsInHalt

-----------------------------------------------------------------------------
(* Instructions and texts *)

LEMMA OpcodeFacts ==
  /\ "OPERAND" \notin Opcode
  /\ \A op \in Opcode : EmittedWidth(op) \in {1, 5, 10} /\ (op # "NODE_META" => EmittedWidth(op) = Width(op))
  /\ "HALT" \in BareOp /\ "HALT" \notin TextOp
  BY DEF Opcode, TextOp, CountOp, BareOp, EmittedWidth, Width

LEMMA SingleFacts ==
  ASSUME NEW S, NEW e \in S
  PROVE  << e >> \in Seq(S) /\ Len(<< e >>) = 1 /\ << e >>[1] = e
  OBVIOUS

LEMMA CellsFacts ==
  ASSUME NEW op \in Opcode, NEW arg \in Nat
  PROVE  /\ Cells(op, arg) \in Seq(Cell)
         /\ Len(Cells(op, arg)) = EmittedWidth(op)
         /\ Cells(op, arg)[1] = Instruction(op, arg)
         /\ \A j \in 2 .. EmittedWidth(op) : Cells(op, arg)[j] = Operand
<1> DEFINE n == CASE op \in BareOp -> 0
                  [] op = "NODE_META" -> 9
                  [] OTHER -> 4
           tail == [i \in 1 .. n |-> Operand]
           first == << Instruction(op, arg) >>
<1>1. n = EmittedWidth(op) - 1 /\ n \in Nat
  BY DEF BareOp, EmittedWidth
<1>2. Operand \in Cell
  BY DEF Operand, Cell
<1>3. Instruction(op, arg) \in Cell
  BY DEF Cell, Instruction
<1>4. Cells(op, arg) = first \o tail
  BY DEF Cells, Instruction
<1> HIDE DEF n
<1>5. tail \in Seq(Cell) /\ Len(tail) = n /\ \A i \in 1 .. n : tail[i] = Operand
  BY <1>1, <1>2
<1>6. first \in Seq(Cell) /\ Len(first) = 1 /\ first[1] = Instruction(op, arg)
  BY <1>3, SingleFacts
<1> HIDE DEF tail, first
<1>7. /\ first \o tail \in Seq(Cell) /\ Len(first \o tail) = 1 + n
      /\ \A i \in 1 .. 1 + n : (first \o tail)[i] = IF i <= 1 THEN first[i] ELSE tail[i - 1]
  <2>1. /\ first \o tail \in Seq(Cell) /\ Len(first \o tail) = Len(first) + Len(tail)
        /\ \A i \in 1 .. Len(first) + Len(tail) :
             (first \o tail)[i] = IF i <= Len(first) THEN first[i] ELSE tail[i - Len(first)]
    BY <1>5, <1>6, ConcatProperties
  <2> QED BY <1>5, <1>6, <2>1
<1>8. (first \o tail)[1] = first[1]
  BY <1>1, <1>7
<1>9. \A j \in 2 .. 1 + n : (first \o tail)[j] = Operand
  BY <1>1, <1>5, <1>7
<1>10. 1 + n = EmittedWidth(op)
  BY <1>1, OpcodeFacts
<1> QED BY <1>4, <1>6, <1>7, <1>8, <1>9, <1>10

(* string_table_add answers an index of the text and keeps the others. *)
LEMMA AddStringFacts ==
  ASSUME NEW table \in Seq(Texts), NEW text \in Texts
  PROVE  /\ AddString(table, text) \in Seq(Texts)
         /\ Len(table) <= Len(AddString(table, text))
         /\ \A i \in DOMAIN table : AddString(table, text)[i] = table[i]
         /\ StringIndex(table, text) \in DOMAIN AddString(table, text)
         /\ AddString(table, text)[StringIndex(table, text)] = text
<1> DEFINE after == AddString(table, text)
<1>1. CASE text \in Range(table)
  <2>1. after = table
    BY <1>1 DEF AddString
  <2>2. \E i \in DOMAIN after : after[i] = text
    BY <1>1, <2>1 DEF Range
  <2>3. StringIndex(table, text) \in DOMAIN after /\ after[StringIndex(table, text)] = text
    BY <2>2 DEF StringIndex
  <2> QED BY <2>1, <2>3
<1>2. CASE text \notin Range(table)
  <2>1. after = Append(table, text)
    BY <1>2 DEF AddString
  <2>2. /\ after \in Seq(Texts) /\ Len(after) = Len(table) + 1
        /\ \A i \in 1 .. Len(table) : after[i] = table[i]
        /\ after[Len(table) + 1] = text
    BY <2>1, AppendFacts
  <2>3. Len(table) \in Nat /\ DOMAIN table = 1 .. Len(table)
    OBVIOUS
  <2>4. \E i \in DOMAIN after : after[i] = text
    BY <2>2, <2>3
  <2>5. StringIndex(table, text) \in DOMAIN after /\ after[StringIndex(table, text)] = text
    BY <2>4 DEF StringIndex
  <2> QED BY <2>2, <2>3, <2>5
<1> QED BY <1>1, <1>2

Extends(table, longer) ==
  /\ longer \in Seq(Texts)
  /\ Len(table) <= Len(longer)
  /\ \A i \in DOMAIN table : longer[i] = table[i]

LEMMA AddMetadataExtends ==
  ASSUME NEW table \in Seq(Texts)
  PROVE  Extends(table, AddMetadata(table))
<1>1. ASSUME NEW t \in Seq(Texts), NEW key \in Texts, NEW value \in Texts
      PROVE  Extends(t, AddPair(t, key, value))
  <2> DEFINE u == AddString(t, key)
  <2>1. u \in Seq(Texts) /\ Len(t) <= Len(u) /\ \A i \in DOMAIN t : u[i] = t[i]
    BY AddStringFacts
  <2>2. AddPair(t, key, value) = AddString(u, value)
    BY DEF AddPair
  <2> HIDE DEF u
  <2>3. /\ AddString(u, value) \in Seq(Texts) /\ Len(u) <= Len(AddString(u, value))
        /\ \A i \in DOMAIN u : AddString(u, value)[i] = u[i]
    BY <2>1, AddStringFacts
  <2>4. DOMAIN t \subseteq DOMAIN u
    BY <2>1
  <2> QED BY <2>1, <2>2, <2>3, <2>4 DEF Extends
<1>2. ASSUME NEW a \in Seq(Texts), NEW b, NEW c, Extends(a, b), Extends(b, c)
      PROVE  Extends(a, c)
  BY <1>2 DEF Extends
<1> DEFINE a == AddPair(table, "backend", "morphl-vm-bytecode")
           b == AddPair(a, "format_version", "1.0")
           c == AddPair(b, "operators", "runtime-verbatim")
<1>3. {"backend", "morphl-vm-bytecode", "format_version", "1.0", "operators", "runtime-verbatim"} \subseteq Texts
  BY DEF Texts
<1>4. Extends(table, a) /\ a \in Seq(Texts)
  BY <1>1, <1>3 DEF Extends
<1>5. AddMetadata(table) = c
  BY DEF AddMetadata
<1> HIDE DEF a
<1>6. Extends(a, b) /\ b \in Seq(Texts)
  BY <1>1, <1>3, <1>4 DEF Extends
<1> HIDE DEF b
<1>7. Extends(b, c)
  BY <1>1, <1>3, <1>6
<1> HIDE DEF c
<1>8. Extends(table, b)
  BY <1>2, <1>4, <1>6
<1> QED BY <1>2, <1>5, <1>7, <1>8

-----------------------------------------------------------------------------
(* The emitter *)

LEMMA CellsAppended ==
  ASSUME NEW c \in Seq(Cell), NEW op \in Opcode, NEW arg \in Nat
  PROVE  \A d : d = c \o Cells(op, arg) =>
           /\ d \in Seq(Cell)
           /\ Len(d) = Len(c) + EmittedWidth(op)
           /\ \A i \in 1 .. Len(c) : d[i] = c[i]
           /\ d[Len(c) + 1] = Instruction(op, arg)
           /\ \A i \in Len(c) + 2 .. Len(d) : d[i] = Operand
<1> DEFINE e == Cells(op, arg)
           d == c \o e
           n == Len(c)
           w == EmittedWidth(op)
<1>1. n \in Nat /\ w \in {1, 5, 10}
  BY OpcodeFacts
<1>2. /\ e \in Seq(Cell) /\ Len(e) = w /\ e[1] = Instruction(op, arg)
      /\ \A j \in 2 .. w : e[j] = Operand
  BY CellsFacts
<1> HIDE DEF e, w
<1>3. /\ d \in Seq(Cell) /\ Len(d) = n + w
      /\ \A i \in 1 .. n + w : d[i] = IF i <= n THEN c[i] ELSE e[i - n]
  BY <1>2, ConcatProperties
<1> HIDE DEF d
<1>4. \A i \in 1 .. n : d[i] = c[i]
  BY <1>1, <1>3
<1>5. d[n + 1] = Instruction(op, arg)
  BY <1>1, <1>2, <1>3
<1>6. \A i \in n + 2 .. n + w : d[i] = Operand
  BY <1>1, <1>2, <1>3
<1>7. d = c \o Cells(op, arg)
  BY DEF d, e
<1> QED BY <1>3, <1>4, <1>5, <1>6, <1>7 DEF w

(* Appending a whole instruction to whole instructions. *)
LEMMA LayoutGrows ==
  ASSUME NEW c \in Seq(Cell), Layout(c), NEW op \in Opcode, NEW arg, NEW d \in Seq(Cell),
         Len(d) = Len(c) + EmittedWidth(op), \A i \in 1 .. Len(c) : d[i] = c[i],
         d[Len(c) + 1] = Instruction(op, arg),
         \A i \in Len(c) + 2 .. Len(d) : d[i] = Operand
  PROVE  Layout(d)
<1> DEFINE n == Len(c)
           w == EmittedWidth(op)
<1>1. n \in Nat /\ w \in {1, 5, 10}
  BY OpcodeFacts
<1> HIDE DEF w
<1>3. d \in Seq(Cell) /\ Len(d) = n + w
  BY DEF w
<1>4. \A i \in 1 .. n : d[i] = c[i]
  OBVIOUS
<1>5. d[n + 1] = Instruction(op, arg)
  OBVIOUS
<1>6. \A i \in n + 2 .. n + w : d[i] = Operand
  BY <1>3
<1>7. d[n + 1].op = op /\ op # "OPERAND" /\ Operand.op = "OPERAND"
  BY <1>5, OpcodeFacts DEF Operand, Instruction
<1>8. d[1].op # "OPERAND"
  <2>1. CASE n = 0
    BY <1>7, <2>1
  <2>2. CASE n # 0
    <3>1. c # << >> /\ 1 \in 1 .. n
      BY <1>1, <2>2
    <3>2. d[1] = c[1] /\ c[1].op # "OPERAND"
      BY <1>4, <3>1 DEF Layout
    <3> QED BY <3>2
  <2> QED BY <2>1, <2>2
<1>9. ASSUME NEW i \in DOMAIN d, d[i].op # "OPERAND"
      PROVE  Whole(d, i)
  <2>1. i \in 1 .. n + w
    BY <1>3
  <2>2. CASE i <= n
    <3> DEFINE next == i + EmittedWidth(c[i].op)
    <3>1. i \in DOMAIN c /\ i \in 1 .. n
      BY <1>1, <2>1, <2>2
    <3>2. d[i] = c[i] /\ c[i].op \in Opcode
      <4>1. d[i] = c[i]
        BY <1>4, <3>1
      <4>2. c[i] \in Cell
        BY <3>1
      <4>3. c[i].op \in Opcode \cup {"OPERAND"}
        BY <4>2 DEF Cell
      <4> QED BY <1>9, <4>1, <4>3
    <3>3. Whole(c, i)
      BY <1>9, <3>1, <3>2 DEF Layout
    <3>4. next \in Int
      BY <1>1, <2>1, <3>2, OpcodeFacts
    <3>5. /\ next <= n + 1 /\ \A j \in i + 1 .. next - 1 : c[j].op = "OPERAND"
          /\ next <= n => c[next].op # "OPERAND"
      BY <3>3 DEF Whole
    <3>6. next >= 1
      BY <2>1, <3>2, OpcodeFacts
    <3> HIDE DEF next
    <3>7. \A j \in i + 1 .. next - 1 : d[j].op = "OPERAND"
      <4> SUFFICES ASSUME NEW j \in i + 1 .. next - 1
                   PROVE  d[j].op = "OPERAND"
        OBVIOUS
      <4>1. j \in 1 .. n
        BY <1>1, <2>1, <3>4, <3>5
      <4>2. c[j].op = "OPERAND"
        BY <3>5
      <4> QED BY <1>4, <4>1, <4>2
    <3>8. d[next].op # "OPERAND"
      <4>1. CASE next <= n
        BY <1>1, <1>4, <3>4, <3>5, <3>6, <4>1
      <4>2. CASE next = n + 1
        BY <1>7, <4>2
      <4> QED BY <1>1, <3>4, <3>5, <4>1, <4>2
    <3>9. next <= Len(d) + 1
      BY <1>1, <1>3, <3>4, <3>5
    <3>10. next = i + EmittedWidth(d[i].op)
      BY <3>2 DEF next
    <3> QED BY <3>7, <3>8, <3>9, <3>10 DEF Whole
  <2>3. CASE i = n + 1
    <3>1. EmittedWidth(d[i].op) = w
      BY <1>7, <2>3 DEF w
    <3>2. \A j \in i + 1 .. i + w - 1 : d[j].op = "OPERAND"
      BY <1>1, <1>6, <1>7, <2>3
    <3> QED BY <1>1, <1>3, <2>3, <3>1, <3>2 DEF Whole
  <2>4. CASE i >= n + 2
    BY <1>1, <1>6, <1>7, <1>9, <2>1, <2>4
  <2> QED BY <1>1, <2>1, <2>2, <2>3, <2>4
<1> QED BY <1>8, <1>9 DEF Layout

(* emit_opcode, emit_opcode_u32, emit_node_meta: one more instruction. *)
LEMMA EmitKeeps ==
  ASSUME CodeInv, frames # << >>,
         NEW op \in Opcode, NEW arg \in Nat, NEW text \in Texts, NEW spans \in Spans,
         Emit(op, arg, text, spans), Extends(strings, strings'), TextFits(op, text),
         op \in TextOp => arg \in DOMAIN strings' /\ strings'[arg] = text,
         frames' = << >> <=> op = "HALT"
  PROVE  CodeInv'
<1> DEFINE n == Len(code)
           w == EmittedWidth(op)
           new == [text |-> text, spans |-> spans]
           more == [i \in 1 .. Len(Cells(op, arg)) |-> new]
<1>1. /\ strings \in Seq(Texts) /\ code \in Seq(Cell) /\ source \in Seq(Meaning)
      /\ Len(source) = n /\ n \in Nat /\ Layout(code)
  BY DEF CodeInv, CodeTypeOK
<1>2. w \in {1, 5, 10} /\ (op = "HALT" => w = 1)
  BY OpcodeFacts DEF EmittedWidth
<1>3. code' = code \o Cells(op, arg) /\ source' = source \o more
  BY DEF Emit
<1>4. /\ code' \in Seq(Cell) /\ Len(code') = n + w
      /\ \A i \in 1 .. n : code'[i] = code[i]
      /\ code'[n + 1] = Instruction(op, arg)
      /\ \A i \in n + 2 .. Len(code') : code'[i] = Operand
  <2>1. \A d : d = code \o Cells(op, arg) =>
          /\ d \in Seq(Cell)
          /\ Len(d) = Len(code) + EmittedWidth(op)
          /\ \A i \in 1 .. Len(code) : d[i] = code[i]
          /\ d[Len(code) + 1] = Instruction(op, arg)
          /\ \A i \in Len(code) + 2 .. Len(d) : d[i] = Operand
    <3>1. code \in Seq(Cell)
      BY <1>1
    <3> QED BY <3>1, CellsAppended, Zenon
  <2> QED BY <1>3, <2>1
<1>5. new \in Meaning /\ Len(Cells(op, arg)) = w
  BY CellsFacts DEF Meaning
<1> HIDE DEF w
<1>6. more \in Seq(Meaning) /\ Len(more) = w /\ \A i \in 1 .. w : more[i] = new
  BY <1>2, <1>5
<1> HIDE DEF more
<1>7. /\ source' \in Seq(Meaning) /\ Len(source') = n + w
      /\ \A i \in 1 .. n + w : source'[i] = IF i <= n THEN source[i] ELSE more[i - n]
  <2>1. /\ source \o more \in Seq(Meaning) /\ Len(source \o more) = Len(source) + Len(more)
        /\ \A i \in 1 .. Len(source) + Len(more) :
             (source \o more)[i] = IF i <= Len(source) THEN source[i] ELSE more[i - Len(source)]
    BY <1>1, <1>6, ConcatProperties
  <2>2. Len(source) = n /\ Len(more) = w
    BY <1>1, <1>6
  <2> HIDE DEF n
  <2> QED BY <1>3, <2>1, <2>2
<1>8. (\A i \in 1 .. n : source'[i] = source[i]) /\ source'[n + 1] = new
  <2>1. n \in Nat /\ more[1] = new /\ n + 1 \in 1 .. n + w /\ (n + 1) - n = 1
    BY <1>1, <1>2, <1>6
  <2> HIDE DEF n
  <2>2. source'[n + 1] = more[1]
    BY <1>7, <2>1
  <2>3. \A i \in 1 .. n : i \in 1 .. n + w
    BY <1>2, <2>1
  <2> QED BY <1>7, <2>1, <2>2, <2>3
<1>9. strings' \in Seq(Texts) /\ \A i \in DOMAIN strings : i \in DOMAIN strings' /\ strings'[i] = strings[i]
  BY <1>1 DEF Extends
<1>10. CodeTypeOK'
  BY <1>4, <1>7, <1>9 DEF CodeTypeOK
<1>11. ASSUME NEW i \in DOMAIN code'
       PROVE  \/ i \in DOMAIN code /\ code'[i] = code[i] /\ source'[i] = source[i]
              \/ i = n + 1 /\ code'[i].op = op /\ code'[i].arg = arg /\ source'[i].text = text
              \/ i \in n + 2 .. n + w /\ code'[i].op = "OPERAND"
  <2>1. i \in 1 .. n + w
    BY <1>4
  <2>2. CASE i <= n
    BY <1>1, <1>4, <1>8, <2>1, <2>2
  <2>3. CASE i = n + 1
    BY <1>4, <1>8, <2>3 DEF Instruction
  <2>4. CASE i > n + 1
    BY <1>1, <1>4, <2>1, <2>4 DEF Operand
  <2> QED BY <1>1, <2>1, <2>2, <2>3, <2>4
<1>12. "OPERAND" \notin TextOp
  BY DEF TextOp
<1>13. InstructionsKeepMeaning'
  <2> SUFFICES ASSUME NEW i \in DOMAIN code', code'[i].op \in TextOp
               PROVE  code'[i].arg \in DOMAIN strings' /\ strings'[code'[i].arg] = source'[i].text
    BY DEF InstructionsKeepMeaning
  <2>1. CASE i \in DOMAIN code /\ code'[i] = code[i] /\ source'[i] = source[i]
    BY <1>9, <2>1 DEF CodeInv, InstructionsKeepMeaning
  <2>2. CASE i = n + 1 /\ code'[i].op = op /\ code'[i].arg = arg /\ source'[i].text = text
    BY <2>2
  <2> QED BY <1>11, <1>12, <2>1, <2>2
<1>14. TextsFit'
  <2> SUFFICES ASSUME NEW i \in DOMAIN code'
               PROVE  TextFits(code'[i].op, source'[i].text)
    BY DEF TextsFit
  <2>1. CASE i \in DOMAIN code /\ code'[i] = code[i] /\ source'[i] = source[i]
    BY <2>1 DEF CodeInv, TextsFit
  <2>2. CASE i = n + 1 /\ code'[i].op = op /\ code'[i].arg = arg /\ source'[i].text = text
    BY <2>2
  <2>3. CASE i \in n + 2 .. n + w /\ code'[i].op = "OPERAND"
    BY <2>3 DEF TextFits
  <2> QED BY <1>11, <2>1, <2>2, <2>3
<1>15. HaltIsLast'
  <2> SUFFICES ASSUME NEW i \in DOMAIN code', code'[i].op = "HALT"
               PROVE  frames' = << >> /\ i = Len(code')
    BY DEF HaltIsLast
  <2>1. CASE i \in DOMAIN code /\ code'[i] = code[i] /\ source'[i] = source[i]
    BY <2>1 DEF CodeInv, HaltIsLast
  <2>2. CASE i = n + 1 /\ code'[i].op = op /\ code'[i].arg = arg /\ source'[i].text = text
    BY <1>2, <1>4, <2>2
  <2> QED BY <1>11, <2>1, <2>2
<1>16. EndsInHalt'
  <2> SUFFICES ASSUME frames' = << >>
               PROVE  code' # << >> /\ code'[Len(code')].op = "HALT"
    BY DEF EndsInHalt
  <2>1. op = "HALT" /\ w = 1
    BY <1>2
  <2>2. Len(code') = n + 1 /\ code'[n + 1].op = "HALT"
    BY <1>4, <2>1 DEF Instruction
  <2> QED BY <1>1, <2>2
<1>17. Layout(code)'
  <2>1. Layout(code')
    BY <1>1, <1>4, LayoutGrows DEF w
  <2> QED BY <2>1 DEF Layout, Whole
<1> QED BY <1>10, <1>13, <1>14, <1>15, <1>16, <1>17 DEF CodeInv

(* Nothing emitted. *)
LEMMA NothingEmitted ==
  ASSUME CodeInv, frames # << >>, frames' # << >>, UNCHANGED << strings, code, source >>
  PROVE  CodeInv'
<1>1. CodeTypeOK' /\ Layout(code)' /\ InstructionsKeepMeaning' /\ TextsFit'
  BY DEF CodeInv, CodeTypeOK, InstructionsKeepMeaning, TextsFit
<1>2. HaltIsLast' /\ EndsInHalt'
  BY DEF CodeInv, HaltIsLast, EndsInHalt
<1> QED BY <1>1, <1>2 DEF CodeInv

(* emit_opcode_u32 with an index of the string table. *)
LEMMA EmitTextKeeps ==
  ASSUME CodeInv, frames # << >>, frames' # << >>,
         NEW op \in TextOp, NEW text \in Texts, NEW spans \in Spans,
         EmitText(op, text, spans), TextFits(op, text)
  PROVE  CodeInv'
<1>1. strings \in Seq(Texts)
  BY DEF CodeInv, CodeTypeOK
<1>2. strings' = AddString(strings, text) /\ Emit(op, StringIndex(strings, text), text, spans)
  BY DEF EmitText
<1>3. Extends(strings, strings')
  BY <1>1, <1>2, AddStringFacts DEF Extends
<1>4. /\ StringIndex(strings, text) \in DOMAIN strings'
      /\ strings'[StringIndex(strings, text)] = text
  BY <1>1, <1>2, AddStringFacts
<1>5. StringIndex(strings, text) \in Nat
  BY <1>3, <1>4 DEF Extends
<1>6. op \in Opcode /\ op # "HALT"
  BY OpcodeFacts DEF Opcode
<1> QED BY <1>2, <1>3, <1>4, <1>5, <1>6, EmitKeeps

LEMMA EmitPlainKeeps ==
  ASSUME CodeInv, frames # << >>, frames' # << >>,
         NEW op \in {"MAKE_GROUP", "PUSH_NULL", "RET"}, NEW arg \in Nat, NEW spans \in Spans,
         EmitPlain(op, arg, spans)
  PROVE  CodeInv'
<1>1. op \in Opcode /\ op \notin TextOp /\ op # "HALT"
  BY DEF Opcode, TextOp, CountOp, BareOp
<1>2. Emit(op, arg, "", spans) /\ strings' = strings
  BY DEF EmitPlain
<1>3. Extends(strings, strings')
  <2>1. strings \in Seq(Texts)
    BY DEF CodeInv, CodeTypeOK
  <2>2. Extends(strings, strings)
    BY <2>1 DEF Extends
  <2> QED BY <1>2, <2>2
<1>4. "" \in Texts /\ TextFits(op, "")
  BY DEF Texts, TextFits
<1> QED BY <1>1, <1>2, <1>3, <1>4, EmitKeeps

(* The frames when the innermost one's child, or the innermost one itself, *)
(* is done.                                                                *)
LEMMA FrameUpdate ==
  ASSUME NEW f \in EmitFrame, NEW left \in Nat, NEW spans \in Spans
  PROVE  \A g : g = [f EXCEPT !.left = left, !.spans = spans] =>
           g \in EmitFrame /\ g.kind = f.kind
  BY DEF EmitFrame

LEMMA ChildDoneFacts ==
  ASSUME NEW s \in Seq(EmitFrame), s # << >>, Last(s).left > 0, NEW from \in Int, Len(code') \in Int
  PROVE  LET t == ChildDone(s, from)
         IN  /\ t \in Seq(EmitFrame) /\ Len(t) = Len(s)
             /\ \A i \in 1 .. Len(s) - 1 : t[i] = s[i]
             /\ t[Len(s)].kind = s[Len(s)].kind
<1> DEFINE top == Last(s)
           new == [top EXCEPT !.left = top.left - 1,
                              !.spans = Append(top.spans, << from, Len(code') >>)]
<1>1. top \in EmitFrame /\ top = s[Len(s)]
  BY LastInSet DEF Last
<1>2. Append(top.spans, << from, Len(code') >>) \in Spans
  <2>1. top.spans \in Seq(Int \X Int) /\ << from, Len(code') >> \in Int \X Int
    BY <1>1 DEF EmitFrame, Spans
  <2> QED BY <2>1, AppendFacts DEF Spans
<1>3. new \in EmitFrame /\ new.kind = top.kind
  <2>1. top.left - 1 \in Nat
    BY <1>1 DEF EmitFrame
  <2>2. top \in EmitFrame
    BY <1>1
  <2>3. PICK left \in Nat, spans \in Spans :
           left = top.left - 1 /\ spans = Append(top.spans, << from, Len(code') >>)
    BY <1>2, <2>1
  <2>4. new = [top EXCEPT !.left = left, !.spans = spans]
    BY <2>3
  <2> HIDE DEF top, new
  <2> QED BY <2>2, <2>4, FrameUpdate
<1>4. ChildDone(s, from) = Append(Front(s), new)
  BY DEF ChildDone
<1> HIDE DEF new, top
<1>5. /\ Append(Front(s), new) \in Seq(EmitFrame)
      /\ Len(Append(Front(s), new)) = Len(s)
      /\ \A i \in 1 .. Len(s) - 1 : Append(Front(s), new)[i] = s[i]
      /\ Append(Front(s), new)[Len(s)] = new
  BY <1>3, ReplaceLast
<1> QED BY <1>1, <1>3, <1>4, <1>5

LEMMA FrameFacts ==
  ASSUME FramesOK, frames # << >>
  PROVE  /\ Len(frames) \in Nat /\ Len(frames) > 0 /\ DOMAIN frames = 1 .. Len(frames)
         /\ Last(frames) \in EmitFrame /\ Last(frames) = frames[Len(frames)]
  BY LastInSet DEF FramesOK, Last

(* A child of the innermost call is done. *)
LEMMA TurnToNext ==
  ASSUME FramesOK, AtChild, NEW from \in Int, Len(code') \in Int,
         frames' = ChildDone(frames, from), budget' = budget
  PROVE  FramesOK' /\ frames' # << >>
<1> DEFINE n == Len(frames)
<1>1. frames \in Seq(EmitFrame) /\ frames # << >> /\ Last(frames).left > 0
  BY DEF FramesOK, AtChild
<1>2. n \in Nat /\ n > 0 /\ DOMAIN frames = 1 .. n
  BY <1>1
<1>3. /\ frames' \in Seq(EmitFrame) /\ Len(frames') = n
      /\ \A i \in 1 .. n - 1 : frames'[i] = frames[i]
      /\ frames'[n].kind = frames[n].kind
  BY <1>1, ChildDoneFacts
<1> n = Len(frames)
  OBVIOUS
<1> HIDE DEF n
<1>4. ASSUME NEW i \in 1 .. n
      PROVE  /\ i = 1 <=> frames'[i].kind = "file"
             /\ i < n => frames'[i].left > 0
  <2>1. CASE i = n
    BY <1>2, <1>3, <2>1 DEF FramesOK
  <2>2. CASE i # n
    <3>1. frames'[i] = frames[i] /\ i \in DOMAIN frames /\ i < Len(frames)
      <4>1. i \in 1 .. n - 1 /\ i < n /\ i \in DOMAIN frames
        BY <1>1, <1>2, <2>2
      <4> QED BY <1>3, <4>1
    <3>2. (i = 1 <=> frames[i].kind = "file") /\ frames[i].left > 0
      BY <3>1 DEF FramesOK
    <3> QED BY <3>1, <3>2
  <2> QED BY <2>1, <2>2
<1>5. DOMAIN frames' = 1 .. n /\ frames' # << >>
  BY <1>2, <1>3
<1> QED BY <1>3, <1>4, <1>5 DEF FramesOK

(* The innermost call, not of the root, is done: its caller was at a child. *)
LEMMA TurnBack ==
  ASSUME FramesOK, frames # << >>, Last(frames).kind # "file", NEW from \in Int, Len(code') \in Int,
         frames' = ChildDone(Front(frames), from), budget' = budget
  PROVE  FramesOK' /\ frames' # << >>
<1> DEFINE n == Len(frames)
           s == Front(frames)
<1>1. /\ frames \in Seq(EmitFrame) /\ n \in Nat /\ n > 0 /\ DOMAIN frames = 1 .. n
      /\ Last(frames) = frames[n]
  BY FrameFacts DEF FramesOK
<1>2. n > 1
  BY <1>1 DEF FramesOK
<1>3. s \in Seq(EmitFrame) /\ Len(s) = n - 1 /\ \A i \in 1 .. n - 1 : s[i] = frames[i]
  BY <1>1, FrontFacts
<1> HIDE DEF s
<1>4. s # << >> /\ Last(s) = frames[n - 1]
  BY <1>1, <1>2, <1>3 DEF Last
<1>5. frames[n - 1].left > 0
  BY <1>1, <1>2 DEF FramesOK
<1>6. frames' = ChildDone(s, from)
  BY DEF s
<1>7. /\ frames' \in Seq(EmitFrame) /\ Len(frames') = n - 1
      /\ \A i \in 1 .. n - 2 : frames'[i] = s[i]
      /\ frames'[n - 1].kind = s[n - 1].kind
  <2>1. Last(s).left > 0
    BY <1>4, <1>5
  <2>2. /\ ChildDone(s, from) \in Seq(EmitFrame) /\ Len(ChildDone(s, from)) = Len(s)
        /\ \A i \in 1 .. Len(s) - 1 : ChildDone(s, from)[i] = s[i]
        /\ ChildDone(s, from)[Len(s)].kind = s[Len(s)].kind
    BY <1>3, <1>4, <2>1, ChildDoneFacts
  <2> QED BY <1>1, <1>3, <1>6, <2>2
<1>8. ASSUME NEW i \in 1 .. n - 1
      PROVE  /\ i = 1 <=> frames'[i].kind = "file"
             /\ i < n - 1 => frames'[i].left > 0
  <2>1. i \in 1 .. n /\ s[i] = frames[i]
    BY <1>1, <1>3
  <2>2. CASE i = n - 1
    BY <1>1, <1>7, <2>1, <2>2 DEF FramesOK
  <2>3. CASE i # n - 1
    <3>1. i \in DOMAIN frames /\ i < Len(frames)
      BY <1>1, <2>1
    <3>2. i \in 1 .. n - 2
      <4>1. n \in Nat
        BY <1>1
      <4> HIDE DEF n
      <4> QED BY <2>3, <4>1
    <3>3. frames'[i] = s[i]
      BY <1>7, <3>2
    <3>4. frames'[i] = frames[i]
      BY <2>1, <3>3
    <3>5. (i = 1 <=> frames[i].kind = "file") /\ frames[i].left > 0
      BY <3>1 DEF FramesOK
    <3> QED BY <3>4, <3>5
  <2> QED BY <2>2, <2>3
<1>9. DOMAIN frames' = 1 .. n - 1 /\ frames' # << >>
  BY <1>1, <1>2, <1>7
<1> QED BY <1>7, <1>8, <1>9 DEF FramesOK

LEMMA ChildDoneSome ==
  ASSUME NEW s \in Seq(EmitFrame), s # << >>, NEW from
  PROVE  ChildDone(s, from) # << >>
<1>1. PICK e : ChildDone(s, from) = Append(Front(s), e)
  BY DEF ChildDone
<1>2. Front(s) \in Seq(EmitFrame \cup {e}) /\ e \in EmitFrame \cup {e}
  <2>1. Front(s) \in Seq(EmitFrame)
    BY FrontFacts
  <2> QED BY <2>1
<1>3. Len(Append(Front(s), e)) = Len(Front(s)) + 1 /\ Len(Front(s)) \in Nat
  BY <1>2, AppendFacts
<1> QED BY <1>1, <1>3

LEMMA CodeLength ==
  ASSUME CodeInv
  PROVE  Len(code) \in Nat
  BY DEF CodeInv, CodeTypeOK

EmitInv == CodeInv /\ FramesOK

LEMMA EmitLeafKeeps ==
  ASSUME EmitInv,
         \/ EmitLeaf("literal", "PUSH_LITERAL", Literal)
         \/ EmitLeaf("ident", "PUSH_IDENT", Ident)
  PROVE  EmitInv' /\ frames' # << >>
<1>1. /\ AtChild /\ frames # << >> /\ frames \in Seq(EmitFrame)
      /\ frames' = ChildDone(frames, Len(code) + 1) /\ budget' = budget
  BY DEF EmitLeaf, AtChild, EmitInv, FramesOK
<1>2. PICK op \in {"PUSH_LITERAL", "PUSH_IDENT"}, text \in Literal \cup Ident :
        EmitText(op, text, << >>) /\ TextFits(op, text)
  BY DEF EmitLeaf, TextFits
<1>3. op \in TextOp /\ text \in Texts /\ << >> \in Spans
  <2>1. op \in TextOp
    BY DEF TextOp
  <2>2. text \in Texts
    BY DEF Texts
  <2>3. << >> \in Spans
    BY DEF Spans
  <2> QED BY <2>1, <2>2, <2>3
<1>4. frames' # << >>
  BY <1>1, ChildDoneSome
<1>5. CodeInv'
  BY <1>1, <1>2, <1>3, <1>4, EmitTextKeeps DEF EmitInv
<1>6. Len(code) + 1 \in Int /\ Len(code') \in Int
  <2>1. Len(code) \in Nat
    BY CodeLength DEF EmitInv
  <2>2. Len(code') \in Nat
    BY <1>5 DEF CodeInv, CodeTypeOK
  <2> QED BY <2>1, <2>2
<1>7. FramesOK'
  BY <1>1, <1>6, TurnToNext DEF EmitInv
<1> QED BY <1>4, <1>5, <1>7 DEF EmitInv

LEMMA NamesAreTexts ==
  ASSUME NEW kind \in InnerKind
  PROVE  NameOf(kind) \subseteq Texts
  BY DEF NameOf, Texts

LEMMA EnterNodeKeeps ==
  ASSUME EmitInv, EnterNode
  PROVE  EmitInv' /\ frames' # << >>
<1> DEFINE n == Len(frames)
<1>1. /\ frames \in Seq(EmitFrame) /\ n \in Nat /\ n > 0 /\ DOMAIN frames = 1 .. n
      /\ frames # << >> /\ frames[n].left > 0
  <2>1. AtChild /\ frames # << >>
    BY DEF EnterNode, AtChild
  <2> QED BY <2>1, FrameFacts DEF AtChild, EmitInv, FramesOK
<1>2. PICK kind, name, children :
        /\ kind \in InnerKind /\ name \in NameOf(kind) /\ children \in Arity[kind]
        /\ Emitted(kind, children) <= budget
        /\ budget' = budget - Emitted(kind, children)
        /\ frames' = Append(frames, Frame(kind, name, Emitted(kind, children)))
        /\ \/ EmitText("NODE_META", "<none>", << >>)
           \/ EmitPlain("PUSH_NULL", 0, << >>)
           \/ UNCHANGED << strings, code, source >>
  BY DEF EnterNode
<1>3. Emitted(kind, children) \in Nat
  <2>1. children \in Nat
    BY <1>2, KindAssumption
  <2> QED BY <2>1 DEF Emitted
<1>4. Frame(kind, name, Emitted(kind, children)) \in EmitFrame
  <2>1. name \in Texts /\ kind \in NodeKind
    BY <1>2, NamesAreTexts DEF NodeKind
  <2>2. Len(code) + 1 \in Int
    BY CodeLength DEF EmitInv
  <2>3. << >> \in Spans
    BY DEF Spans
  <2> QED BY <1>3, <2>1, <2>2, <2>3 DEF Frame, EmitFrame
<1>5. Frame(kind, name, Emitted(kind, children)).kind # "file"
  BY <1>2 DEF Frame, InnerKind
<1>6. PICK f : f = Frame(kind, name, Emitted(kind, children))
  OBVIOUS
<1>7. /\ frames' \in Seq(EmitFrame) /\ Len(frames') = n + 1
      /\ \A i \in 1 .. n : frames'[i] = frames[i]
      /\ frames'[n + 1] = f
  <2>1. frames' = Append(frames, f) /\ f \in EmitFrame
    BY <1>2, <1>4, <1>6
  <2> QED BY <1>1, <2>1, AppendFacts
<1> n = Len(frames)
  OBVIOUS
<1> HIDE DEF n
<1>8. frames' # << >> /\ DOMAIN frames' = 1 .. n + 1
  BY <1>1, <1>7
<1>9. ASSUME NEW i \in 1 .. n + 1
      PROVE  /\ i = 1 <=> frames'[i].kind = "file"
             /\ i < n + 1 => frames'[i].left > 0
  <2>1. CASE i = n + 1
    BY <1>1, <1>5, <1>6, <1>7, <2>1
  <2>2. CASE i # n + 1
    <3>1. i \in 1 .. n /\ i \in DOMAIN frames
      BY <1>1, <2>2
    <3>2. frames'[i] = frames[i]
      BY <1>7, <3>1
    <3>3. i = 1 <=> frames[i].kind = "file"
      BY <3>1 DEF EmitInv, FramesOK
    <3>4. frames[i].left > 0
      <4>1. CASE i = n
        BY <1>1, <4>1
      <4>2. CASE i # n
        <5>1. i < Len(frames)
          BY <1>1, <3>1, <4>2
        <5> QED BY <3>1, <5>1 DEF EmitInv, FramesOK
      <4> QED BY <4>1, <4>2
    <3> QED BY <3>2, <3>3, <3>4
  <2> QED BY <2>1, <2>2
<1>10. budget' \in 0 .. MaxNodes
  <2>1. budget \in 0 .. MaxNodes
    BY DEF EmitInv, FramesOK
  <2> QED BY <1>2, <1>3, <2>1, KindAssumption
<1>11. FramesOK'
  BY <1>7, <1>8, <1>9, <1>10 DEF FramesOK
<1>12. CodeInv'
  <2>1. << >> \in Spans /\ "NODE_META" \in TextOp /\ "<none>" \in Texts /\ TextFits("NODE_META", "<none>")
    BY DEF Spans, TextOp, Texts, TextFits
  <2>2. CASE EmitText("NODE_META", "<none>", << >>)
    BY <1>1, <1>8, <2>1, <2>2, EmitTextKeeps DEF EmitInv
  <2>3. CASE EmitPlain("PUSH_NULL", 0, << >>)
    BY <1>1, <1>8, <2>1, <2>3, EmitPlainKeeps DEF EmitInv
  <2>4. CASE UNCHANGED << strings, code, source >>
    BY <1>1, <1>8, <2>4, NothingEmitted DEF EmitInv
  <2> QED BY <1>2, <2>2, <2>3, <2>4
<1> QED BY <1>8, <1>11, <1>12 DEF EmitInv

LEMMA LeaveNodeKeeps ==
  ASSUME EmitInv, LeaveNode
  PROVE  EmitInv' /\ frames' # << >>
<1> DEFINE top == Last(frames)
<1>1. frames # << >> /\ top.kind # "file" /\ frames \in Seq(EmitFrame)
  BY DEF LeaveNode, AtEnd, EmitInv, FramesOK
<1>2. /\ top \in EmitFrame /\ top.name \in Texts /\ top.from \in Int /\ top.spans \in Spans
  BY <1>1, LastInSet DEF EmitFrame
<1>3. /\ frames' = ChildDone(Front(frames), top.from) /\ budget' = budget
      /\ CASE top.kind = "group" -> EmitPlain("MAKE_GROUP", Len(top.spans), top.spans)
           [] top.kind = "call" -> EmitText("CALL", top.name, top.spans)
           [] top.kind = "decl" ->
                EmitText("SET_SLOT", top.name,
                         IF top.spans = << >> THEN << << top.from, Len(code) >> >> ELSE top.spans)
           [] top.kind \in {"set", "builtin"} -> EmitText("OPERATOR", top.name, top.spans)
           [] top.kind = "ret" -> EmitPlain("RET", 0, top.spans)
           [] OTHER -> UNCHANGED << strings, code, source >>
  BY DEF LeaveNode
<1> HIDE DEF top
<1>4. Len(code) \in Nat /\ Len(top.spans) \in Nat
  BY <1>2, CodeLength DEF EmitInv, Spans
<1>5. PICK spans \in Spans :
        spans = IF top.spans = << >> THEN << << top.from, Len(code) >> >> ELSE top.spans
  <2>1. << << top.from, Len(code) >> >> \in Spans
    BY <1>2, <1>4, SingleFacts DEF Spans
  <2> QED BY <1>2, <2>1
<1>6. \/ EmitPlain("MAKE_GROUP", Len(top.spans), top.spans)
      \/ EmitPlain("RET", 0, top.spans)
      \/ \E op \in {"CALL", "SET_SLOT", "OPERATOR"}, sp \in {top.spans, spans} :
           EmitText(op, top.name, sp)
      \/ UNCHANGED << strings, code, source >>
  BY <1>3, <1>5
<1>7. frames' # << >>
  <2> DEFINE s == Front(frames)
  <2>1. Len(frames) \in Nat /\ Len(frames) > 0 /\ DOMAIN frames = 1 .. Len(frames) /\ top = frames[Len(frames)]
    BY <1>1, FrameFacts DEF EmitInv, top
  <2>2. Len(frames) # 1
    BY <1>1, <2>1 DEF EmitInv, FramesOK
  <2>3. s \in Seq(EmitFrame) /\ Len(s) = Len(frames) - 1
    BY <1>1, FrontFacts
  <2>4. s # << >>
    BY <2>1, <2>2, <2>3
  <2> HIDE DEF s
  <2>5. ChildDone(s, top.from) # << >>
    BY <2>3, <2>4, ChildDoneSome
  <2> QED BY <1>3, <2>5 DEF s
<1>8. CodeInv'
  <2>1. CASE EmitPlain("MAKE_GROUP", Len(top.spans), top.spans)
    BY <1>1, <1>2, <1>4, <1>7, <2>1, EmitPlainKeeps DEF EmitInv
  <2>2. CASE EmitPlain("RET", 0, top.spans)
    BY <1>1, <1>2, <1>7, <2>2, EmitPlainKeeps DEF EmitInv
  <2>3. ASSUME NEW op \in {"CALL", "SET_SLOT", "OPERATOR"}, NEW sp \in {top.spans, spans},
               EmitText(op, top.name, sp)
        PROVE  CodeInv'
    <3>1. op \in TextOp /\ TextFits(op, top.name)
      BY DEF TextOp, TextFits
    <3> QED BY <1>1, <1>2, <1>5, <1>7, <2>3, <3>1, EmitTextKeeps DEF EmitInv
  <2>4. CASE UNCHANGED << strings, code, source >>
    BY <1>1, <1>7, <2>4, NothingEmitted DEF EmitInv
  <2> QED BY <1>6, <2>1, <2>2, <2>3, <2>4
<1>9. Len(code') \in Int
  BY <1>8 DEF CodeInv, CodeTypeOK
<1>10. FramesOK'
  <2>1. Last(frames).kind # "file" /\ frames' = ChildDone(Front(frames), top.from)
    BY <1>1, <1>3 DEF top
  <2> QED BY <1>1, <1>2, <1>3, <1>9, <2>1, TurnBack DEF EmitInv
<1> QED BY <1>7, <1>8, <1>10 DEF EmitInv

(* The root is done: HALT and the metadata. *)
LEMMA EmitTrailerKeeps ==
  ASSUME EmitInv, EmitTrailer
  PROVE  EmitInv' /\ frames' = << >>
<1>1. /\ frames # << >> /\ frames' = << >> /\ budget' = budget
      /\ Emit("HALT", 0, "", << >>) /\ strings' = AddMetadata(strings)
  BY DEF EmitTrailer, AtEnd
<1>2. Extends(strings, strings')
  BY <1>1, AddMetadataExtends DEF EmitInv, CodeInv, CodeTypeOK
<1>3. "HALT" \in Opcode /\ "HALT" \notin TextOp
  BY DEF Opcode, BareOp, TextOp
<1>4. "" \in Texts /\ TextFits("HALT", "")
  BY DEF Texts, TextFits
<1>5. << >> \in Spans
  BY DEF Spans
<1>6. CodeInv'
  BY <1>1, <1>2, <1>3, <1>4, <1>5, EmitKeeps DEF EmitInv
<1>7. FramesOK'
  <2>1. frames' \in Seq(EmitFrame) /\ DOMAIN frames' = {}
    <3>1. << >> \in Seq(EmitFrame) /\ Len(<< >>) = 0
      OBVIOUS
    <3>2. frames' \in Seq(EmitFrame) /\ Len(frames') = 0
      BY <1>1, <3>1
    <3> QED BY <3>2
  <2>2. budget' \in 0 .. MaxNodes
    BY <1>1 DEF EmitInv, FramesOK
  <2> QED BY <2>1, <2>2 DEF FramesOK
<1> QED BY <1>1, <1>6, <1>7 DEF EmitInv

LEMMA EmitNextKeeps ==
  ASSUME EmitInv, EmitNext
  PROVE  EmitInv'
  BY EmitLeafKeeps, EnterNodeKeeps, LeaveNodeKeeps, EmitTrailerKeeps
  DEF EmitNext, EmitLiteral, EmitIdent

LEMMA EmitStarts ==
  ASSUME EmitInit
  PROVE  EmitInv /\ frames # << >>
<1>1. PICK m \in 0 .. MaxNodes :
        /\ budget = MaxNodes - m
        /\ frames = << [kind |-> "file", name |-> "", left |-> m, from |-> 1, spans |-> << >>] >>
  BY DEF EmitInit
<1>2. PICK f : f = [kind |-> "file", name |-> "", left |-> m, from |-> 1, spans |-> << >>]
  OBVIOUS
<1>3. f \in EmitFrame /\ f.kind = "file"
  <2>1. << >> \in Spans
    BY DEF Spans
  <2>2. "" \in Texts
    BY DEF Texts
  <2>3. m \in Nat
    BY KindAssumption
  <2>4. "file" \in NodeKind \cup {"file"} /\ 1 \in Int
    OBVIOUS
  <2>5. f \in EmitFrame
    BY <1>2, <2>1, <2>2, <2>3, <2>4 DEF EmitFrame
  <2> QED BY <1>2, <2>5
<1>4. frames \in Seq(EmitFrame) /\ Len(frames) = 1 /\ frames[1] = f
  BY <1>1, <1>2, <1>3, SingleFacts
<1>5. frames # << >> /\ DOMAIN frames = {1}
  BY <1>4
<1>6. budget \in 0 .. MaxNodes
  <2>1. budget = MaxNodes - m /\ m \in 0 .. MaxNodes /\ MaxNodes \in Nat
    BY <1>1, KindAssumption
  <2> QED BY <2>1
<1>7. FramesOK
  BY <1>3, <1>4, <1>5, <1>6 DEF FramesOK
<1>8. strings = << >> /\ code = << >> /\ source = << >>
  BY DEF EmitInit
<1>9. CodeInv
  BY <1>5, <1>8
  DEF CodeInv, CodeTypeOK, Layout, InstructionsKeepMeaning, TextsFit, HaltIsLast, EndsInHalt
<1> QED BY <1>5, <1>7, <1>9 DEF EmitInv
-----------------------------------------------------------------------------
(* The file *)

Unit == Texts \cup Nat \cup Cell \cup {"MVMB", "pair"}

(* A part of a sequence, known by its elements. *)
LEMMA SubSeqIs ==
  ASSUME NEW S, NEW u \in Seq(S), NEW t \in Seq(S), NEW from \in Nat, from > 0,
         from + Len(t) - 1 <= Len(u), \A i \in 1 .. Len(t) : u[from + i - 1] = t[i]
  PROVE  SubSeq(u, from, from + Len(t) - 1) = t
<1> DEFINE to == from + Len(t) - 1
           v == SubSeq(u, from, to)
<1>1. Len(t) \in Nat /\ Len(u) \in Nat /\ to \in Int
  OBVIOUS
<1>2. \A i \in from .. to : u[i] \in S
  BY <1>1
<1> to = from + Len(t) - 1
  OBVIOUS
<1> HIDE DEF to
<1>3. /\ v \in Seq(S) /\ Len(v) = IF from <= to THEN to - from + 1 ELSE 0
      /\ \A i \in 1 .. to - from + 1 : v[i] = u[from + i - 1]
  BY <1>1, <1>2, SubSeqProperties
<1> HIDE DEF v
<1>4. Len(v) = Len(t) /\ to - from + 1 = Len(t)
  BY <1>1, <1>3
<1>5. \A i \in 1 .. Len(v) : v[i] = t[i]
  BY <1>3, <1>4
<1>6. v = t
  BY <1>3, <1>4, <1>5, SeqEqual
<1> QED BY <1>6 DEF v, to

(* What is where in the file that morphl_backend_func_vm writes. *)
LEMMA ImageFacts ==
  ASSUME CodeTypeOK
  PROVE  /\ FileImage \in Seq(Unit)
         /\ Len(FileImage) = 7 + Len(strings) + Len(code)
         /\ FileImage[2] = Len(strings)
         /\ FileImage[3 + Len(strings)] = 3
         /\ FileImage[7 + Len(strings)] = Len(code)
         /\ \A i \in 1 .. Len(strings) : FileImage[2 + i] = strings[i]
         /\ \A i \in 1 .. Len(code) : FileImage[7 + Len(strings) + i] = code[i]
<1> DEFINE n == Len(strings)
           m == Len(code)
           head == << "MVMB", n >>
           a == head \o strings
           b == a \o << 3 >>
           pairs == [i \in 1 .. 3 |-> "pair"]
           c == b \o pairs
           d == c \o << m >>
           e == d \o code
<1>1. strings \in Seq(Unit) /\ code \in Seq(Unit)
  BY DEF CodeTypeOK, Unit
<1>2. n \in Nat /\ m \in Nat
  BY <1>1
<1>3. FileImage = e
  BY DEF FileImage, MetadataCount
<1> HIDE DEF n, m
<1>4. head \in Seq(Unit) /\ Len(head) = 2 /\ head[2] = n
  BY <1>2 DEF Unit
<1>5. << 3 >> \in Seq(Unit) /\ Len(<< 3 >>) = 1 /\ << 3 >>[1] = 3
  BY DEF Unit
<1>6. pairs \in Seq(Unit) /\ Len(pairs) = 3
  BY DEF Unit
<1>7. << m >> \in Seq(Unit) /\ Len(<< m >>) = 1 /\ << m >>[1] = m
  BY <1>2 DEF Unit
<1>8. Len(strings) = n /\ Len(code) = m
  BY DEF n, m
<1> HIDE DEF head, pairs, e
<1>9. /\ a \in Seq(Unit) /\ Len(a) = 2 + n /\ a[2] = n
      /\ \A i \in 1 .. n : a[2 + i] = strings[i]
  <2>1. /\ a \in Seq(Unit) /\ Len(a) = Len(head) + Len(strings)
        /\ \A i \in 1 .. Len(head) + Len(strings) :
             a[i] = IF i <= Len(head) THEN head[i] ELSE strings[i - Len(head)]
    BY <1>1, <1>4, ConcatProperties
  <2> HIDE DEF a
  <2> QED BY <1>2, <1>4, <1>8, <2>1
<1> HIDE DEF a
<1>10. /\ b \in Seq(Unit) /\ Len(b) = 3 + n /\ b[3 + n] = 3
       /\ \A i \in 1 .. 2 + n : b[i] = a[i]
  <2>1. /\ b \in Seq(Unit) /\ Len(b) = Len(a) + Len(<< 3 >>)
        /\ \A i \in 1 .. Len(a) + Len(<< 3 >>) :
             b[i] = IF i <= Len(a) THEN a[i] ELSE << 3 >>[i - Len(a)]
    BY <1>5, <1>9, ConcatProperties
  <2> HIDE DEF b
  <2> QED BY <1>2, <1>5, <1>9, <2>1
<1> HIDE DEF b
<1>11. c \in Seq(Unit) /\ Len(c) = 6 + n /\ \A i \in 1 .. 3 + n : c[i] = b[i]
  <2>1. /\ c \in Seq(Unit) /\ Len(c) = Len(b) + Len(pairs)
        /\ \A i \in 1 .. Len(b) + Len(pairs) :
             c[i] = IF i <= Len(b) THEN b[i] ELSE pairs[i - Len(b)]
    BY <1>6, <1>10, ConcatProperties
  <2> HIDE DEF c
  <2> QED BY <1>2, <1>6, <1>10, <2>1
<1> HIDE DEF c
<1>12. /\ d \in Seq(Unit) /\ Len(d) = 7 + n /\ d[7 + n] = m
       /\ \A i \in 1 .. 6 + n : d[i] = c[i]
  <2>1. /\ d \in Seq(Unit) /\ Len(d) = Len(c) + Len(<< m >>)
        /\ \A i \in 1 .. Len(c) + Len(<< m >>) :
             d[i] = IF i <= Len(c) THEN c[i] ELSE << m >>[i - Len(c)]
    BY <1>7, <1>11, ConcatProperties
  <2> HIDE DEF d
  <2> QED BY <1>2, <1>7, <1>11, <2>1
<1> HIDE DEF d
<1>13. /\ e \in Seq(Unit) /\ Len(e) = 7 + n + m
       /\ \A i \in 1 .. 7 + n : e[i] = d[i]
       /\ \A i \in 1 .. m : e[7 + n + i] = code[i]
  <2>1. /\ e \in Seq(Unit) /\ Len(e) = Len(d) + Len(code)
        /\ \A i \in 1 .. Len(d) + Len(code) :
             e[i] = IF i <= Len(d) THEN d[i] ELSE code[i - Len(d)]
    BY <1>1, <1>12, ConcatProperties DEF e
  <2> QED BY <1>2, <1>8, <1>12, <2>1
<1>14. e[2] = n
  BY <1>2, <1>9, <1>10, <1>11, <1>12, <1>13
<1>15. e[3 + n] = 3
  BY <1>2, <1>10, <1>11, <1>12, <1>13
<1>16. e[7 + n] = m
  BY <1>2, <1>12, <1>13
<1>17. ASSUME NEW i \in 1 .. n
       PROVE  e[2 + i] = strings[i]
  <2>1. e[2 + i] = a[2 + i]
    BY <1>2, <1>10, <1>11, <1>12, <1>13
  <2> QED BY <1>9, <2>1
<1> QED BY <1>3, <1>8, <1>13, <1>14, <1>15, <1>16, <1>17

(* A file cut short. *)
Prefix(units) ==
  /\ units \in Seq(Unit) /\ Len(units) <= Len(FileImage)
  /\ \A i \in 1 .. Len(units) : units[i] = FileImage[i]

LEMMA CutIsPrefix ==
  ASSUME CodeTypeOK, NEW lost \in Nat, lost <= Len(FileImage)
  PROVE  Prefix(SubSeq(FileImage, 1, Len(FileImage) - lost))
<1> DEFINE k == Len(FileImage) - lost
           units == SubSeq(FileImage, 1, k)
<1>1. FileImage \in Seq(Unit) /\ Len(FileImage) \in Nat
  BY ImageFacts
<1>2. k \in Nat /\ k <= Len(FileImage)
  BY <1>1
<1> HIDE DEF k
<1>3. \A i \in 1 .. k : FileImage[i] \in Unit
  BY <1>1, <1>2
<1>4. /\ units \in Seq(Unit) /\ Len(units) = IF 1 <= k THEN k - 1 + 1 ELSE 0
      /\ \A i \in 1 .. k - 1 + 1 : units[i] = FileImage[1 + i - 1]
  BY <1>2, <1>3, SubSeqProperties
<1> HIDE DEF units
<1>5. Len(units) = k
  BY <1>2, <1>4
<1>6. \A i \in 1 .. k : units[i] = FileImage[i]
  BY <1>2, <1>4
<1>7. Prefix(units)
  BY <1>2, <1>4, <1>5, <1>6 DEF Prefix
<1> QED BY <1>7 DEF units, k

(* What the loader accepts of the file is all of it. *)
LEMMA LoadableIsWhole ==
  ASSUME CodeTypeOK, NEW units, Prefix(units), Loadable(units)
  PROVE  Loaded(units) = [strings |-> strings, code |-> code]
<1> DEFINE n == Len(strings)
           m == Len(code)
           k == Len(units)
<1>1. /\ FileImage \in Seq(Unit) /\ Len(FileImage) = 7 + n + m
      /\ FileImage[2] = n /\ FileImage[3 + n] = 3 /\ FileImage[7 + n] = m
      /\ \A i \in 1 .. n : FileImage[2 + i] = strings[i]
      /\ \A i \in 1 .. m : FileImage[7 + n + i] = code[i]
  BY ImageFacts
<1>2. /\ strings \in Seq(Unit) /\ code \in Seq(Unit) /\ n \in Nat /\ m \in Nat
      /\ n = Len(strings) /\ m = Len(code)
  BY DEF CodeTypeOK, Unit
<1> HIDE DEF n, m
<1>3. /\ units \in Seq(Unit) /\ k \in Nat /\ k <= Len(FileImage)
      /\ \A i \in 1 .. k : units[i] = FileImage[i]
  BY DEF Prefix
<1>4. k >= 2 /\ units[2] = n
  BY <1>1, <1>3 DEF Loadable
<1>5. k >= 3 + n /\ units[3 + n] = 3
  BY <1>1, <1>2, <1>3, <1>4 DEF Loadable
<1>6. 4 + units[2] + units[3 + units[2]] = 7 + n
  <2>1. 4 + n + 3 = 7 + n
    BY <1>2
  <2> QED BY <1>4, <1>5, <2>1
<1>7. k >= 7 + n /\ units[7 + n] = m
  BY <1>1, <1>2, <1>3, <1>6 DEF Loadable
<1>8. k >= 7 + n + m
  BY <1>6, <1>7 DEF Loadable
<1>9. SubSeq(units, 3, 2 + units[2]) = strings
  <2>1. ASSUME NEW i \in 1 .. n
        PROVE  units[3 + i - 1] = strings[i]
    <3>1. 3 + i - 1 = 2 + i /\ 2 + i \in 1 .. k
      BY <1>2, <1>3, <1>5
    <3>2. units[2 + i] = FileImage[2 + i]
      BY <1>3, <3>1
    <3> QED BY <1>1, <3>1, <3>2
  <2>2. 3 + Len(strings) - 1 <= Len(units) /\ 3 + Len(strings) - 1 = 2 + units[2]
    BY <1>2, <1>3, <1>4, <1>5
  <2>3. SubSeq(units, 3, 3 + Len(strings) - 1) = strings
    BY <1>2, <1>3, <2>1, <2>2, SubSeqIs
  <2> QED BY <2>2, <2>3
<1>10. SubSeq(units, 7 + n + 1, 7 + n + m) = code
  <2> DEFINE from == 7 + n + 1
  <2>1. ASSUME NEW i \in 1 .. m
        PROVE  units[from + i - 1] = code[i]
    <3>1. from + i - 1 = 7 + n + i /\ 7 + n + i \in 1 .. k
      BY <1>2, <1>3, <1>8
    <3>2. units[7 + n + i] = FileImage[7 + n + i]
      BY <1>3, <3>1
    <3> QED BY <1>1, <3>1, <3>2
  <2>2. /\ from + Len(code) - 1 <= Len(units) /\ from + Len(code) - 1 = 7 + n + m
        /\ from \in Nat /\ from > 0
    BY <1>2, <1>3, <1>8
  <2> HIDE DEF from
  <2>3. SubSeq(units, from, from + Len(code) - 1) = code
    BY <1>2, <1>3, <2>1, <2>2, SubSeqIs
  <2> QED BY <2>2, <2>3 DEF from
<1> QED BY <1>6, <1>7, <1>9, <1>10 DEF Loaded
-----------------------------------------------------------------------------
(* The interpreter *)

Slot == [name : Texts, value : ValueSet]

RunTypeOK ==
  /\ stack \in Seq(ValueSet)
  /\ origins \in Seq(Int) /\ Len(origins) = Len(stack)
  /\ slots \in Seq(Slot)
  /\ callFrames \in Seq([base : Nat, returnIp : Nat])
  /\ exitCode \in {Running} \cup 0 .. 255
  /\ ip \in Nat

(* The slots are a function of their names, and hold what was assigned. *)
SlotsOK ==
  /\ \A i, j \in DOMAIN slots : slots[i].name = slots[j].name => i = j
  /\ \A i \in DOMAIN slots :
       slots[i].name \in DOMAIN assigned /\ assigned[slots[i].name] = slots[i].value
  /\ \A name \in DOMAIN assigned : \E i \in DOMAIN slots : slots[i].name = name

RunInv ==
  /\ RunTypeOK
  /\ phase \in {"emit", "write", "load", "run", "done"}
  /\ phase = "emit" => frames # << >>
  /\ phase \in {"write", "load", "run"} => frames = << >>
  /\ phase # "done" => exitCode = Running /\ SlotsOK
  /\ phase = "load" => Prefix(file)
  /\ phase \in {"emit", "write", "load"} => ip = 1
  /\ phase = "run" => callFrames # << >>
  /\ accepted = (phase = "done" /\ exitCode = 0)
  /\ LoadedIsEmitted
  /\ AtInstruction

(* Behind an instruction that does not end the run there is another one. *)
LEMMA NextInstruction ==
  ASSUME CodeInv, frames = << >>, NEW i \in DOMAIN code,
         code[i].op \notin {"OPERAND", "HALT", "NODE_META"}
  PROVE  /\ i + Width(code[i].op) \in DOMAIN code
         /\ code[i + Width(code[i].op)].op # "OPERAND"
<1> DEFINE n == Len(code)
           w == Width(code[i].op)
<1>1. code \in Seq(Cell) /\ n \in Nat /\ DOMAIN code = 1 .. n /\ i \in 1 .. n
  BY DEF CodeInv, CodeTypeOK
<1>2. code[i] \in Cell
  BY <1>1
<1>3. code[i].op \in Opcode
  BY <1>2 DEF Cell
<1>4. w = EmittedWidth(code[i].op) /\ w \in {1, 5, 10}
  BY <1>3, OpcodeFacts
<1>5. Whole(code, i)
  BY DEF CodeInv, Layout
<1> HIDE DEF w
<1>6. /\ i + w <= n + 1
      /\ \A j \in i + 1 .. i + w - 1 : code[j].op = "OPERAND"
      /\ i + w <= n => code[i + w].op # "OPERAND"
  BY <1>4, <1>5 DEF Whole
<1>7. n > 0 /\ code[n].op = "HALT"
  BY <1>1 DEF CodeInv, EndsInHalt
<1>8. i + w # n + 1
  <2> SUFFICES ASSUME i + w = n + 1
               PROVE  FALSE
    OBVIOUS
  <2>1. i # n
    BY <1>7
  <2>2. n \in i + 1 .. i + w - 1
    BY <1>1, <1>4, <2>1
  <2>3. code[n].op = "OPERAND"
    BY <1>6, <2>2
  <2> QED BY <1>7, <2>3
<1>9. i + w \in 1 .. n
  BY <1>1, <1>4, <1>6, <1>8
<1> QED BY <1>1, <1>6, <1>9 DEF w

(* While the program runs, what is fetched is what was emitted. *)
LEMMA FetchedFacts ==
  ASSUME CodeInv, RunInv, phase = "run"
  PROVE  /\ program.code = code /\ program.strings = strings
         /\ ip \in DOMAIN code /\ code \in Seq(Cell) /\ Fetched = code[ip]
         /\ Fetched.op \in Opcode /\ Fetched.arg \in Nat
         /\ frames = << >> /\ exitCode = Running /\ SlotsOK
<1>1. program = [strings |-> strings, code |-> code]
  BY DEF RunInv, LoadedIsEmitted
<1>2. program.code = code /\ program.strings = strings
  BY <1>1
<1>3. ip \in DOMAIN code /\ Fetched = code[ip] /\ Fetched.op # "OPERAND"
  BY <1>2 DEF RunInv, AtInstruction, Fetched
<1>4. code \in Seq(Cell)
  BY DEF CodeInv, CodeTypeOK
<1>5. code[ip] \in Cell
  BY <1>3, <1>4
<1>6. Fetched.op \in Opcode /\ Fetched.arg \in Nat
  BY <1>3, <1>5 DEF Cell
<1>7. frames = << >> /\ exitCode = Running /\ SlotsOK
  BY DEF RunInv
<1> QED BY <1>2, <1>3, <1>4, <1>6, <1>7

LEMMA TextFacts ==
  ASSUME CodeInv, RunInv, phase = "run", Fetched.op \in TextOp
  PROVE  /\ Text \in Texts
         /\ Fetched.op = "PUSH_LITERAL" => Text \in Literal
         /\ Fetched.op = "PUSH_IDENT" => Text \in Ident
<1>1. /\ program.strings = strings /\ ip \in DOMAIN code /\ Fetched = code[ip]
  BY FetchedFacts
<1>2. Text = strings[code[ip].arg] /\ code[ip].arg \in DOMAIN strings /\ Text = source[ip].text
  BY <1>1 DEF Text, CodeInv, InstructionsKeepMeaning
<1>3. TextFits(code[ip].op, source[ip].text)
  BY <1>1 DEF CodeInv, TextsFit
<1>4. strings \in Seq(Texts)
  BY DEF CodeInv, CodeTypeOK
<1>5. Text \in Texts
  <2>1. \A i \in DOMAIN strings : strings[i] \in Texts
    BY <1>4
  <2> QED BY <1>2, <2>1
<1> QED BY <1>1, <1>2, <1>3, <1>5 DEF TextFits

LEMMA ValueFacts ==
  /\ NullValue \in ValueSet /\ GroupValue \in ValueSet
  /\ \A n \in Nat \cup {NotANumber} : LiteralValue(n) \in ValueSet
  /\ \A t \in Ident : IdentValue(t) \in ValueSet
  /\ \A v \in ValueSet : v.num \in Nat \cup {NotANumber} /\ v.text \in Texts
<1>1. NotANumber \in Int /\ "" \in Literal \cup Ident \cup {""}
  BY DEF NotANumber
<1>2. NullValue \in ValueSet /\ GroupValue \in ValueSet
  BY <1>1 DEF NullValue, GroupValue, ValueSet
<1>3. \A n \in Nat \cup {NotANumber} : LiteralValue(n) \in ValueSet
  BY <1>1 DEF LiteralValue, ValueSet
<1>4. \A t \in Ident : IdentValue(t) \in ValueSet
  BY <1>1 DEF IdentValue, ValueSet
<1>5. \A v \in ValueSet : v.num \in Nat \cup {NotANumber}
  BY DEF ValueSet
<1>6. \A v \in ValueSet : v.text \in Literal \cup Ident \cup {""}
  BY DEF ValueSet
<1>7. Literal \cup Ident \cup {""} \subseteq Texts
  BY DEF Texts
<1> QED BY <1>2, <1>3, <1>4, <1>5, <1>6, <1>7

(* vm_resolve_value finds the only slot of a name. *)
LEMMA ResolveFinds ==
  ASSUME RunTypeOK, SlotsOK, NEW v, v.kind = "ident", NEW i \in DOMAIN slots, slots[i].name = v.text
  PROVE  Resolve(v) = slots[i].value
<1>1. DOMAIN slots \subseteq Nat
  BY DEF RunTypeOK
<1>2. SlotOf(v.text) = {i}
  BY DEF SlotOf, SlotsOK
<1>3. i \in SlotOf(v.text) /\ \A j \in SlotOf(v.text) : j = i /\ i <= j
  BY <1>1, <1>2
<1>4. (CHOOSE k \in SlotOf(v.text) : \A j \in SlotOf(v.text) : k <= j) = i
  BY <1>3
<1> QED BY <1>2, <1>4 DEF Resolve

LEMMA ResolveInSet ==
  ASSUME RunTypeOK, SlotsOK, NEW v \in ValueSet
  PROVE  Resolve(v) \in ValueSet
<1>1. CASE v.kind = "ident" /\ SlotOf(v.text) # {}
  <2>1. PICK i \in DOMAIN slots : slots[i].name = v.text
    BY <1>1 DEF SlotOf
  <2>2. Resolve(v) = slots[i].value
    BY <1>1, <2>1, ResolveFinds
  <2>3. slots[i] \in Slot
    BY DEF RunTypeOK
  <2> QED BY <2>2, <2>3 DEF Slot
<1>2. CASE ~(v.kind = "ident" /\ SlotOf(v.text) # {})
  BY <1>2 DEF Resolve
<1> QED BY <1>1, <1>2

(* The topmost values of a stack are dropped. *)
LEMMA DroppedFacts ==
  ASSUME NEW S, NEW s \in Seq(S), NEW n \in 0 .. Len(s)
  PROVE  Dropped(s, n) \in Seq(S) /\ Len(Dropped(s, n)) = Len(s) - n
<1> DEFINE k == Len(s) - n
<1>1. k \in Int /\ k >= 0 /\ k <= Len(s) /\ Len(s) \in Nat
  OBVIOUS
<1>2. \A i \in 1 .. k : s[i] \in S
  BY <1>1
<1> HIDE DEF k
<1>3. /\ SubSeq(s, 1, k) \in Seq(S)
      /\ Len(SubSeq(s, 1, k)) = IF 1 <= k THEN k - 1 + 1 ELSE 0
  BY <1>1, <1>2, SubSeqProperties
<1>4. Len(SubSeq(s, 1, k)) = k
  BY <1>1, <1>3
<1>5. Dropped(s, n) = SubSeq(s, 1, k)
  BY DEF Dropped, k
<1> QED BY <1>3, <1>4, <1>5 DEF k

StackOK == stack \in Seq(ValueSet) /\ origins \in Seq(Int) /\ Len(origins) = Len(stack)

LEMMA ReplaceKeeps ==
  ASSUME RunTypeOK, NEW n \in 0 .. Len(stack), NEW v \in ValueSet, Replace(n, v)
  PROVE  StackOK'
<1>1. stack \in Seq(ValueSet) /\ origins \in Seq(Int) /\ Len(origins) = Len(stack) /\ ip \in Int
  BY DEF RunTypeOK
<1>2. n \in 0 .. Len(origins)
  BY <1>1
<1>3. Dropped(stack, n) \in Seq(ValueSet) /\ Len(Dropped(stack, n)) = Len(stack) - n
  BY <1>1, DroppedFacts
<1>4. Dropped(origins, n) \in Seq(Int) /\ Len(Dropped(origins, n)) = Len(origins) - n
  BY <1>1, <1>2, DroppedFacts
<1>5. stack' = Append(Dropped(stack, n), v) /\ origins' = Append(Dropped(origins, n), ip)
  BY DEF Replace
<1>6. stack' \in Seq(ValueSet) /\ Len(stack') = Len(Dropped(stack, n)) + 1
  BY <1>3, <1>5, AppendFacts
<1>7. origins' \in Seq(Int) /\ Len(origins') = Len(Dropped(origins, n)) + 1
  BY <1>1, <1>4, <1>5, AppendFacts
<1> QED BY <1>1, <1>3, <1>4, <1>6, <1>7 DEF StackOK

LEMMA DropKeeps ==
  ASSUME RunTypeOK, Len(stack) > 0, stack' = Dropped(stack, 1), origins' = Dropped(origins, 1)
  PROVE  StackOK'
<1>1. stack \in Seq(ValueSet) /\ origins \in Seq(Int) /\ Len(origins) = Len(stack)
  BY DEF RunTypeOK
<1>2. 1 \in 0 .. Len(origins) /\ 1 \in 0 .. Len(stack)
  BY <1>1
<1>3. Dropped(stack, 1) \in Seq(ValueSet) /\ Len(Dropped(stack, 1)) = Len(stack) - 1
  BY <1>1, <1>2, DroppedFacts
<1>4. Dropped(origins, 1) \in Seq(Int) /\ Len(Dropped(origins, 1)) = Len(origins) - 1
  BY <1>1, <1>2, DroppedFacts
<1> QED BY <1>1, <1>3, <1>4 DEF StackOK

LEMMA TopInSet ==
  ASSUME RunTypeOK, NEW n \in 1 .. Len(stack)
  PROVE  Top(n) \in ValueSet
<1>1. stack \in Seq(ValueSet) /\ Len(stack) \in Nat
  BY DEF RunTypeOK
<1>2. Len(stack) - n + 1 \in 1 .. Len(stack)
  BY <1>1
<1> QED BY <1>1, <1>2 DEF Top

(* vm_set_slot: one slot for each name, with the value assigned last. *)
LEMMA SetSlotKeeps ==
  ASSUME RunTypeOK, SlotsOK, NEW name \in Texts, NEW v \in ValueSet, SetSlot(name, v)
  PROVE  slots' \in Seq(Slot) /\ SlotsOK'
<1> DEFINE new == [name |-> name, value |-> v]
<1>1. slots \in Seq(Slot) /\ Len(slots) \in Nat /\ DOMAIN slots = 1 .. Len(slots)
  BY DEF RunTypeOK
<1>2. new \in Slot
  BY DEF Slot
<1>3. /\ DOMAIN assigned' = DOMAIN assigned \cup {name}
      /\ assigned'[name] = v
      /\ \A n \in DOMAIN assigned : n # name => assigned'[n] = assigned[n]
  BY DEF SetSlot
<1>4. CASE SlotOf(name) # {}
  <2>1. PICK k \in DOMAIN slots : slots[k].name = name
    BY <1>4 DEF SlotOf
  <2>2. SlotOf(name) = {k}
    BY <2>1 DEF SlotOf, SlotsOK
  <2>3. slots' = [i \in DOMAIN slots |->
                    IF i \in SlotOf(name) THEN [slots[i] EXCEPT !.value = v] ELSE slots[i]]
    BY <1>4 DEF SetSlot
  <2>4. slots[k] \in Slot
    BY <1>1
  <2>5. [slots[k] EXCEPT !.value = v] = new
    BY <2>1, <2>4 DEF Slot
  <2>6. slots' = [i \in 1 .. Len(slots) |-> IF i = k THEN new ELSE slots[i]]
    BY <1>1, <2>2, <2>3, <2>5
  <2>7. slots' \in Seq(Slot) /\ DOMAIN slots' = DOMAIN slots
    BY <1>1, <1>2, <2>6
  <2>8. \A i \in DOMAIN slots : slots'[i] = IF i = k THEN new ELSE slots[i]
    BY <1>1, <2>6
  <2>9. \A i \in DOMAIN slots : slots'[i].name = slots[i].name
    BY <2>1, <2>8
  <2>10. \A i, j \in DOMAIN slots' : slots'[i].name = slots'[j].name => i = j
    BY <2>7, <2>9 DEF SlotsOK
  <2>11. ASSUME NEW i \in DOMAIN slots'
         PROVE  slots'[i].name \in DOMAIN assigned' /\ assigned'[slots'[i].name] = slots'[i].value
    <3>1. CASE i = k
      BY <1>3, <2>1, <2>8, <3>1
    <3>2. CASE i # k
      <4>1. i \in DOMAIN slots /\ slots'[i] = slots[i]
        BY <2>7, <2>8, <3>2
      <4>2. slots[i].name # name
        BY <2>1, <3>2, <4>1 DEF SlotsOK
      <4>3. slots[i].name \in DOMAIN assigned /\ assigned[slots[i].name] = slots[i].value
        BY <4>1 DEF SlotsOK
      <4> QED BY <1>3, <4>1, <4>2, <4>3
    <3> QED BY <3>1, <3>2
  <2>12. \A n \in DOMAIN assigned' : \E i \in DOMAIN slots' : slots'[i].name = n
    BY <1>3, <2>1, <2>7, <2>9 DEF SlotsOK
  <2> QED BY <2>7, <2>10, <2>11, <2>12 DEF SlotsOK
<1>5. CASE SlotOf(name) = {}
  <2>1. slots' = Append(slots, new)
    BY <1>5 DEF SetSlot
  <2>2. \A i \in DOMAIN slots : slots[i].name # name
    BY <1>5 DEF SlotOf
  <2> DEFINE m == Len(slots) + 1
  <2>3. /\ slots' \in Seq(Slot) /\ Len(slots') = m
        /\ \A i \in 1 .. Len(slots) : slots'[i] = slots[i]
        /\ slots'[m] = new
    BY <1>1, <1>2, <2>1, AppendFacts
  <2>4. m \in DOMAIN slots' /\ m \notin DOMAIN slots /\ DOMAIN slots' = DOMAIN slots \cup {m}
    BY <1>1, <2>3
  <2>5. \A i \in DOMAIN slots : slots'[i] = slots[i]
    BY <1>1, <2>3
  <2> HIDE DEF m
  <2>6. new.name = name /\ new.value = v
    OBVIOUS
  <2>7. \A i, j \in DOMAIN slots' : slots'[i].name = slots'[j].name => i = j
    BY <2>2, <2>3, <2>4, <2>5, <2>6 DEF SlotsOK
  <2>8. ASSUME NEW i \in DOMAIN slots'
        PROVE  slots'[i].name \in DOMAIN assigned' /\ assigned'[slots'[i].name] = slots'[i].value
    <3>1. CASE i = m
      BY <1>3, <2>3, <2>6, <3>1
    <3>2. CASE i # m
      <4>1. i \in DOMAIN slots /\ slots'[i] = slots[i] /\ slots[i].name # name
        BY <2>2, <2>4, <2>5, <3>2
      <4>2. slots[i].name \in DOMAIN assigned /\ assigned[slots[i].name] = slots[i].value
        BY <4>1 DEF SlotsOK
      <4> QED BY <1>3, <4>1, <4>2
    <3> QED BY <3>1, <3>2
  <2>9. ASSUME NEW n \in DOMAIN assigned'
        PROVE  \E i \in DOMAIN slots' : slots'[i].name = n
    <3>1. CASE n = name
      BY <2>3, <2>4, <2>6, <3>1
    <3>2. CASE n # name
      <4>1. PICK i \in DOMAIN slots : slots[i].name = n
        BY <1>3, <3>2 DEF SlotsOK
      <4> QED BY <2>4, <2>5, <4>1
    <3> QED BY <3>1, <3>2
  <2> QED BY <2>3, <2>7, <2>8, <2>9 DEF SlotsOK
<1> QED BY <1>4, <1>5

(* An instruction either ends the run or leaves the cursor behind itself. *)
Advanced ==
  /\ ip' = ip + Width(Fetched.op)
  /\ exitCode' = exitCode
  /\ Fetched.op \notin {"HALT", "NODE_META"}
  /\ SlotsOK'
  /\ callFrames' # << >>

Kept == program' = program /\ RunTypeOK' /\ (exitCode' # Running \/ Advanced)

LEMMA CursorMoves ==
  ASSUME RunTypeOK, ip' = ip + Width(Fetched.op)
  PROVE  ip' \in Nat
<1>1. Width(Fetched.op) \in {1, 5}
  BY DEF Width
<1> QED BY <1>1 DEF RunTypeOK

(* An exit leaves the stack, the slots and the frames as they were. *)
LEMMA ExitKeeps ==
  ASSUME CodeInv, RunInv, phase = "run", NEW status \in 0 .. 255, Exit(status),
         UNCHANGED <<program, stack, slots, callFrames, origins>>
  PROVE  Kept
<1>1. RunTypeOK
  BY DEF RunInv
<1>2. ip' \in Nat
  BY <1>1, CursorMoves DEF Exit
<1>3. exitCode' = status /\ status # Running
  BY DEF Exit, Running
<1> QED BY <1>1, <1>2, <1>3 DEF Kept, RunTypeOK

LEMMA FailsKeeps ==
  ASSUME CodeInv, RunInv, phase = "run", Fails, UNCHANGED program
  PROVE  Kept
<1>1. Failure \in 0 .. 255
  BY DEF Failure
<1> QED BY <1>1, ExitKeeps DEF Fails

(* The cursor moves on with a stack that is still one. *)
LEMMA AdvanceKeeps ==
  ASSUME CodeInv, RunInv, phase = "run", Advance, UNCHANGED program,
         Fetched.op \notin {"HALT", "NODE_META"}, StackOK', slots' \in Seq(Slot), SlotsOK',
         callFrames' \in Seq([base : Nat, returnIp : Nat]), callFrames' # << >>
  PROVE  Kept
<1>1. RunTypeOK
  BY DEF RunInv
<1>2. ip' \in Nat
  BY <1>1, CursorMoves DEF Advance
<1>3. exitCode' = exitCode /\ ip' = ip + Width(Fetched.op)
  BY DEF Advance
<1>4. RunTypeOK'
  BY <1>1, <1>2, <1>3 DEF RunTypeOK, StackOK
<1> QED BY <1>3, <1>4 DEF Kept, Advanced

LEMMA FramesSlotsStay ==
  ASSUME CodeInv, RunInv, phase = "run"
  PROVE  /\ RunTypeOK /\ SlotsOK
         /\ UNCHANGED callFrames =>
              callFrames' \in Seq([base : Nat, returnIp : Nat]) /\ callFrames' # << >>
         /\ UNCHANGED <<slots, assigned>> => slots' \in Seq(Slot) /\ SlotsOK'
<1>1. RunTypeOK /\ SlotsOK /\ callFrames # << >>
  BY FetchedFacts DEF RunInv
<1>2. UNCHANGED <<slots, assigned>> => slots' \in Seq(Slot) /\ SlotsOK'
  BY <1>1 DEF SlotsOK, RunTypeOK
<1> QED BY <1>1, <1>2 DEF RunTypeOK

LEMMA PushKeeps ==
  ASSUME CodeInv, RunInv, phase = "run", NEW op, NEW v \in ValueSet, ExecPush(op, v),
         op \notin {"HALT", "NODE_META"}
  PROVE  Kept
<1>1. /\ Fetched.op = op /\ Replace(0, v) /\ Advance
      /\ UNCHANGED program /\ UNCHANGED <<slots, assigned>> /\ UNCHANGED callFrames
  BY DEF ExecPush, At
<1>2. RunTypeOK /\ 0 \in 0 .. Len(stack)
  BY FramesSlotsStay DEF RunTypeOK
<1>3. StackOK'
  BY <1>1, <1>2, ReplaceKeeps
<1> QED BY <1>1, <1>3, FramesSlotsStay, AdvanceKeeps

LEMMA PushesKeep ==
  ASSUME CodeInv, RunInv, phase = "run", PushNull \/ PushLiteral \/ PushIdent
  PROVE  Kept
<1>1. CASE PushNull
  BY <1>1, ValueFacts, PushKeeps DEF PushNull
<1>2. CASE PushLiteral
  <2>1. Fetched.op = "PUSH_LITERAL" /\ "PUSH_LITERAL" \in TextOp
    BY <1>2 DEF PushLiteral, ExecPush, At, TextOp
  <2>2. NumberOf[Text] \in Nat \cup {NotANumber}
    BY <2>1, TextFacts, NumberAssumption
  <2>3. LiteralValue(NumberOf[Text]) \in ValueSet
    BY <2>2, ValueFacts
  <2> QED BY <1>2, <2>3, PushKeeps DEF PushLiteral
<1>3. CASE PushIdent
  <2>1. Fetched.op = "PUSH_IDENT" /\ "PUSH_IDENT" \in TextOp
    BY <1>3 DEF PushIdent, ExecPush, At, TextOp
  <2>2. IdentValue(Text) \in ValueSet
    BY <2>1, TextFacts, ValueFacts
  <2> QED BY <1>3, <2>2, PushKeeps DEF PushIdent
<1> QED BY <1>1, <1>2, <1>3

LEMMA MakeGroupKeeps ==
  ASSUME CodeInv, RunInv, phase = "run", MakeGroup
  PROVE  Kept
<1>1. CASE Fails
  BY <1>1, FailsKeeps DEF MakeGroup
<1>2. CASE ~Fails
  <2>1. /\ Fetched.op = "MAKE_GROUP" /\ Fetched.arg <= Len(stack)
        /\ Replace(Fetched.arg, GroupValue) /\ Advance
        /\ UNCHANGED program /\ UNCHANGED <<slots, assigned>> /\ UNCHANGED callFrames
    BY <1>2 DEF MakeGroup, At
  <2>2. RunTypeOK /\ Len(stack) \in Nat
    BY FramesSlotsStay DEF RunTypeOK
  <2>3. Fetched.arg \in 0 .. Len(stack)
    BY <2>1, <2>2, FetchedFacts
  <2>4. StackOK'
    BY <2>1, <2>2, <2>3, ValueFacts, ReplaceKeeps
  <2> QED BY <2>1, <2>4, FramesSlotsStay, AdvanceKeeps
<1> QED BY <1>1, <1>2

LEMMA ExecSetSlotKeeps ==
  ASSUME CodeInv, RunInv, phase = "run", ExecSetSlot
  PROVE  Kept
<1>1. CASE Fails
  BY <1>1, FailsKeeps DEF ExecSetSlot
<1>2. CASE ~Fails
  <2>1. /\ Fetched.op = "SET_SLOT" /\ Len(stack) > 0
        /\ SetSlot(Text, Top(1)) /\ Replace(1, Top(1)) /\ Advance
        /\ UNCHANGED program /\ UNCHANGED callFrames
    BY <1>2 DEF ExecSetSlot, At
  <2>2. RunTypeOK /\ SlotsOK /\ Len(stack) \in Nat
    BY FramesSlotsStay DEF RunTypeOK
  <2>3. 1 \in 1 .. Len(stack) /\ 1 \in 0 .. Len(stack)
    BY <2>1, <2>2
  <2>4. Top(1) \in ValueSet
    BY <2>2, <2>3, TopInSet
  <2>5. Fetched.op \in TextOp
    BY <2>1 DEF TextOp
  <2>6. Text \in Texts
    BY <2>5, TextFacts
  <2>7. StackOK'
    BY <2>1, <2>2, <2>3, <2>4, ReplaceKeeps
  <2>8. slots' \in Seq(Slot) /\ SlotsOK'
    BY <2>1, <2>2, <2>4, <2>6, SetSlotKeeps
  <2> QED BY <2>1, <2>7, <2>8, FramesSlotsStay, AdvanceKeeps
<1> QED BY <1>1, <1>2

LEMMA ExecAddKeeps ==
  ASSUME CodeInv, RunInv, phase = "run", ExecAdd
  PROVE  Kept
<1>1. CASE Fails
  BY <1>1, FailsKeeps DEF ExecAdd
<1>2. CASE ~Fails
  <2> DEFINE sum == Resolve(Top(2)).num + Resolve(Top(1)).num
  <2>1. /\ Fetched.op = "OPERATOR" /\ CanAdd
        /\ Replace(2, LiteralValue(sum)) /\ Advance
        /\ UNCHANGED program /\ UNCHANGED <<slots, assigned>> /\ UNCHANGED callFrames
    BY <1>2 DEF ExecAdd, At
  <2>2. RunTypeOK /\ SlotsOK /\ Len(stack) \in Nat
    BY FramesSlotsStay DEF RunTypeOK
  <2>3. 1 \in 1 .. Len(stack) /\ 2 \in 1 .. Len(stack) /\ 2 \in 0 .. Len(stack)
    BY <2>1, <2>2 DEF CanAdd
  <2>4. Resolve(Top(1)) \in ValueSet /\ Resolve(Top(2)) \in ValueSet
    BY <2>2, <2>3, TopInSet, ResolveInSet
  <2>5. Resolve(Top(1)).num \in Nat /\ Resolve(Top(2)).num \in Nat
    BY <2>1, <2>4, ValueFacts DEF CanAdd, IsNumber
  <2>6. sum \in Nat
    BY <2>5
  <2>7. LiteralValue(sum) \in ValueSet
    BY <2>6, ValueFacts
  <2> HIDE DEF sum
  <2>8. StackOK'
    BY <2>1, <2>2, <2>3, <2>7, ReplaceKeeps
  <2> QED BY <2>1, <2>8, FramesSlotsStay, AdvanceKeeps
<1> QED BY <1>1, <1>2

LEMMA ExecSetKeeps ==
  ASSUME CodeInv, RunInv, phase = "run", ExecSet
  PROVE  Kept
<1>1. CASE Fails
  BY <1>1, FailsKeeps DEF ExecSet
<1>2. CASE ~Fails
  <2>1. /\ Fetched.op = "OPERATOR" /\ CanSet
        /\ SetSlot(Top(2).text, Top(1)) /\ Replace(2, Top(1)) /\ Advance
        /\ UNCHANGED program /\ UNCHANGED callFrames
    BY <1>2 DEF ExecSet, At
  <2>2. RunTypeOK /\ SlotsOK /\ Len(stack) \in Nat
    BY FramesSlotsStay DEF RunTypeOK
  <2>3. 1 \in 1 .. Len(stack) /\ 2 \in 1 .. Len(stack) /\ 2 \in 0 .. Len(stack)
    BY <2>1, <2>2 DEF CanSet
  <2>4. Top(1) \in ValueSet /\ Top(2) \in ValueSet
    BY <2>2, <2>3, TopInSet
  <2>5. Top(2).text \in Texts
    BY <2>4, ValueFacts
  <2>6. StackOK'
    BY <2>1, <2>2, <2>3, <2>4, ReplaceKeeps
  <2>7. slots' \in Seq(Slot) /\ SlotsOK'
    BY <2>1, <2>2, <2>4, <2>5, SetSlotKeeps
  <2> QED BY <2>1, <2>6, <2>7, FramesSlotsStay, AdvanceKeeps
<1> QED BY <1>1, <1>2

LEMMA CallKeeps ==
  ASSUME CodeInv, RunInv, phase = "run", Call
  PROVE  Kept
<1> DEFINE Record == [base : Nat, returnIp : Nat]
<1>1. RunTypeOK /\ SlotsOK
  BY FramesSlotsStay
<1>2. /\ Fetched.op = "CALL" /\ Advance /\ UNCHANGED program
      /\ UNCHANGED <<slots, assigned>> /\ UNCHANGED <<stack, origins>>
  BY DEF Call, At
<1>3. PICK frame \in Record : callFrames' = Append(callFrames, frame)
  <2>1. Len(stack) \in Nat /\ ip + Width("CALL") + 4 \in Nat
    BY <1>1 DEF RunTypeOK, Width
  <2>2. [base |-> Len(stack), returnIp |-> ip + Width("CALL") + 4] \in Record
    BY <2>1
  <2> QED BY <2>2 DEF Call
<1>4. callFrames \in Seq(Record)
  BY <1>1 DEF RunTypeOK
<1> HIDE DEF Record
<1>5. callFrames' \in Seq(Record) /\ Len(callFrames') = Len(callFrames) + 1
  BY <1>3, <1>4, AppendFacts
<1>6. callFrames' # << >>
  BY <1>4, <1>5
<1>7. StackOK'
  BY <1>1, <1>2 DEF RunTypeOK, StackOK
<1> QED BY <1>2, <1>5, <1>6, <1>7, FramesSlotsStay, AdvanceKeeps DEF Record

LEMMA RetFromMainKeeps ==
  ASSUME CodeInv, RunInv, phase = "run", RetFromMain
  PROVE  Kept
<1>1. CASE Fails
  BY <1>1, FailsKeeps DEF RetFromMain
<1>2. CASE ~Fails
  <2>1. /\ CanExit /\ Exit(Top(1).num) /\ stack' = Dropped(stack, 1) /\ origins' = Dropped(origins, 1)
        /\ UNCHANGED <<slots, callFrames>> /\ UNCHANGED program
    BY <1>2 DEF RetFromMain
  <2>2. RunTypeOK /\ Len(stack) \in Nat
    BY FramesSlotsStay DEF RunTypeOK
  <2>3. 1 \in 1 .. Len(stack)
    BY <2>1, <2>2 DEF CanExit
  <2>4. Top(1) \in ValueSet
    BY <2>2, <2>3, TopInSet
  <2>5. Top(1).num \in Nat /\ Top(1).num <= 255
    BY <2>1, <2>4, ValueFacts DEF CanExit, IsStatus, IsNumber
  <2>6. StackOK'
    BY <2>1, <2>2, DropKeeps DEF CanExit
  <2>7. ip' \in Nat
    BY <2>1, <2>2, CursorMoves DEF Exit
  <2>8. exitCode' = Top(1).num
    BY <2>1 DEF Exit
  <2>9. exitCode' \in 0 .. 255 /\ exitCode' # Running
    BY <2>5, <2>8 DEF Running
  <2> QED BY <2>1, <2>2, <2>6, <2>7, <2>9 DEF Kept, RunTypeOK, StackOK
<1> QED BY <1>1, <1>2

(* vm_return only ever shortens the slots, and the run is over. *)
LEMMA RetFromCallKeeps ==
  ASSUME CodeInv, RunInv, phase = "run", RetFromCall
  PROVE  Kept
<1> DEFINE Record == [base : Nat, returnIp : Nat]
<1>1. CASE Fails
  BY <1>1, FailsKeeps DEF RetFromCall
<1>2. CASE ~Fails
  <2> DEFINE m == IF Len(slots) < Last(callFrames).base THEN Len(slots) ELSE Last(callFrames).base
  <2>1. /\ Len(stack) > 0 /\ slots' = [i \in 1 .. m |-> slots[i]] /\ callFrames' = Front(callFrames)
        /\ ip' = Last(callFrames).returnIp /\ origins' = Append(Dropped(origins, 1), ip)
        /\ exitCode' = Failure /\ UNCHANGED stack /\ UNCHANGED program
    BY <1>2 DEF RetFromCall
  <2>2. /\ stack \in Seq(ValueSet) /\ origins \in Seq(Int) /\ Len(origins) = Len(stack)
        /\ slots \in Seq(Slot) /\ callFrames \in Seq(Record) /\ ip \in Nat /\ callFrames # << >>
    BY FramesSlotsStay DEF RunTypeOK, RunInv
  <2> HIDE DEF Record
  <2>3. Last(callFrames) \in Record /\ Front(callFrames) \in Seq(Record)
    BY <2>2, LastInSet, FrontFacts
  <2>4. Last(callFrames).base \in Nat /\ Last(callFrames).returnIp \in Nat
    BY <2>3 DEF Record
  <2>5. m \in Nat /\ m <= Len(slots)
    BY <2>2, <2>4
  <2> HIDE DEF m
  <2>6. slots' \in Seq(Slot)
    BY <2>1, <2>2, <2>5
  <2>7. 1 \in 0 .. Len(origins)
    BY <2>1, <2>2
  <2>8. Dropped(origins, 1) \in Seq(Int) /\ Len(Dropped(origins, 1)) = Len(origins) - 1
    BY <2>2, <2>7, DroppedFacts
  <2>9. origins' \in Seq(Int) /\ Len(origins') = Len(Dropped(origins, 1)) + 1
    <3>1. ip \in Int
      BY <2>2
    <3> QED BY <2>1, <2>8, <3>1, AppendFacts
  <2>10. stack' \in Seq(ValueSet) /\ Len(origins') = Len(stack')
    BY <2>1, <2>2, <2>8, <2>9
  <2>11. callFrames' \in Seq(Record) /\ ip' \in Nat
    BY <2>1, <2>3, <2>4
  <2>12. exitCode' \in 0 .. 255 /\ exitCode' # Running
    BY <2>1 DEF Failure, Running
  <2> QED BY <2>1, <2>6, <2>9, <2>10, <2>11, <2>12 DEF Kept, RunTypeOK, Record
<1> QED BY <1>1, <1>2

LEMMA RunNextKeeps ==
  ASSUME CodeInv, RunInv, phase = "run", RunNext
  PROVE  Kept
<1>1. CASE ExecHalt
  BY <1>1, ExitKeeps DEF ExecHalt
<1>2. CASE ExecUnsupported \/ ExecUnknown \/ OutOfMemory
  BY <1>2, FailsKeeps DEF ExecUnsupported, ExecUnknown, OutOfMemory
<1> QED BY <1>1, <1>2, PushesKeep, MakeGroupKeeps, ExecSetSlotKeeps, ExecAddKeeps, ExecSetKeeps,
           CallKeeps, RetFromMainKeeps, RetFromCallKeeps DEF RunNext

-----------------------------------------------------------------------------
(* The compiler *)

VmInv == EmitInv /\ RunInv

LEMMA VmInvInit == Init => VmInv
<1> SUFFICES ASSUME Init
             PROVE  VmInv
  OBVIOUS
<1>1. EmitInv /\ frames # << >>
  BY EmitStarts DEF Init
<1>2. /\ ip = 1 /\ stack = << >> /\ slots = << >> /\ callFrames = << >> /\ exitCode = Running
      /\ origins = << >> /\ assigned = << >> /\ phase = "emit" /\ accepted = FALSE
  BY DEF Init, RunInit
<1>3. RunTypeOK
  BY <1>2 DEF RunTypeOK
<1>4. SlotsOK
  BY <1>2 DEF SlotsOK
<1>5. accepted = (phase = "done" /\ exitCode = 0)
  BY <1>2
<1>6. LoadedIsEmitted /\ AtInstruction
  BY <1>2 DEF LoadedIsEmitted, AtInstruction
<1> QED BY <1>1, <1>2, <1>3, <1>4, <1>5, <1>6 DEF VmInv, RunInv

(* What the run leaves alone stays as it was. *)
LEMMA RunVarsStay ==
  ASSUME UNCHANGED runVars
  PROVE  /\ RunTypeOK => RunTypeOK'
         /\ SlotsOK => SlotsOK'
         /\ exitCode' = exitCode /\ ip' = ip /\ callFrames' = callFrames
         /\ program' = program
  BY DEF runVars, RunTypeOK, SlotsOK

LEMMA EmitVarsStay ==
  ASSUME EmitInv, UNCHANGED emitVars
  PROVE  EmitInv' /\ frames' = frames /\ code' = code /\ strings' = strings /\ FileImage' = FileImage
<1>1. /\ UNCHANGED strings /\ UNCHANGED code /\ UNCHANGED frames /\ UNCHANGED budget
      /\ UNCHANGED source
  BY DEF emitVars
<1>2. CodeInv'
  BY <1>1 DEF EmitInv, CodeInv, CodeTypeOK, Layout, Whole, InstructionsKeepMeaning, TextsFit,
              HaltIsLast, EndsInHalt
<1>3. FramesOK'
  BY <1>1 DEF EmitInv, FramesOK
<1> QED BY <1>1, <1>2, <1>3 DEF EmitInv, FileImage

LEMMA EmittingKeeps ==
  ASSUME VmInv, Emitting
  PROVE  VmInv'
<1>1. EmitInv'
  BY EmitNextKeeps DEF VmInv, Emitting
<1>2. /\ RunTypeOK /\ exitCode = Running /\ SlotsOK /\ ip = 1 /\ phase = "emit"
      /\ accepted = (phase = "done" /\ exitCode = 0)
  BY DEF VmInv, RunInv, Emitting
<1>3. UNCHANGED runVars /\ UNCHANGED accepted
  BY DEF Emitting
<1>4. phase' \in {"emit", "write"} /\ (phase' = "emit" => frames' # << >>)
      /\ (phase' = "write" => frames' = << >>)
  BY DEF Emitting
<1>5. RunTypeOK' /\ exitCode' = Running /\ SlotsOK' /\ ip' = 1
  BY <1>2, <1>3, RunVarsStay
<1>6. accepted' = (phase' = "done" /\ exitCode' = 0)
  <2>1. ~accepted
    BY <1>2
  <2>2. accepted = FALSE
    BY <1>2
  <2> QED BY <1>3, <1>4, <2>2
<1> QED BY <1>1, <1>4, <1>5, <1>6 DEF VmInv, RunInv, LoadedIsEmitted, AtInstruction

LEMMA GiveUpKeeps ==
  ASSUME VmInv, GiveUp
  PROVE  VmInv'
<1>1. /\ RunTypeOK /\ exitCode = Running /\ accepted = (phase = "done" /\ exitCode = 0)
      /\ phase # "done" /\ EmitInv
  BY DEF VmInv, RunInv, GiveUp
<1>2. UNCHANGED emitVars /\ UNCHANGED runVars /\ UNCHANGED accepted /\ phase' = "done"
  BY DEF GiveUp
<1>3. EmitInv'
  BY <1>1, <1>2, EmitVarsStay
<1>4. RunTypeOK' /\ exitCode' = Running
  BY <1>1, <1>2, RunVarsStay
<1>5. accepted' = (phase' = "done" /\ exitCode' = 0)
  BY <1>1, <1>2, <1>4 DEF Running
<1> QED BY <1>2, <1>3, <1>4, <1>5 DEF VmInv, RunInv, LoadedIsEmitted, AtInstruction

LEMMA WriteKeeps ==
  ASSUME VmInv, Write
  PROVE  VmInv'
<1>1. /\ RunTypeOK /\ exitCode = Running /\ accepted = (phase = "done" /\ exitCode = 0)
      /\ phase = "write" /\ EmitInv /\ SlotsOK /\ frames = << >> /\ ip = 1
  BY DEF VmInv, RunInv, Write
<1>2. UNCHANGED emitVars /\ UNCHANGED runVars /\ UNCHANGED accepted
  BY DEF Write
<1>3. PICK lost \in Lost \cup {0} :
        /\ lost <= Len(FileImage)
        /\ file' = SubSeq(FileImage, 1, Len(FileImage) - lost)
        /\ phase' \in {"load", "done"}
  BY DEF Write
<1>4. EmitInv' /\ frames' = << >> /\ FileImage' = FileImage
  BY <1>1, <1>2, EmitVarsStay
<1>5. RunTypeOK' /\ exitCode' = Running /\ SlotsOK' /\ ip' = 1
  BY <1>1, <1>2, RunVarsStay
<1>6. Prefix(file)'
  <2>1. lost \in Nat /\ CodeTypeOK
    BY <1>1, LostAssumption DEF EmitInv, CodeInv
  <2>2. Prefix(SubSeq(FileImage, 1, Len(FileImage) - lost))
    BY <1>3, <2>1, CutIsPrefix
  <2> QED BY <1>3, <1>4, <2>2 DEF Prefix
<1>7. accepted' = (phase' = "done" /\ exitCode' = 0)
  BY <1>1, <1>2, <1>5 DEF Running
<1> QED BY <1>3, <1>4, <1>5, <1>6, <1>7 DEF VmInv, RunInv, LoadedIsEmitted, AtInstruction

LEMMA LoadKeeps ==
  ASSUME VmInv, Load
  PROVE  VmInv'
<1>1. /\ RunTypeOK /\ exitCode = Running /\ accepted = (phase = "done" /\ exitCode = 0)
      /\ phase = "load" /\ EmitInv /\ SlotsOK /\ frames = << >> /\ ip = 1 /\ Prefix(file)
  BY DEF VmInv, RunInv, Load
<1>2. /\ UNCHANGED emitVars /\ UNCHANGED accepted /\ ip' = ip
      /\ UNCHANGED <<stack, origins>> /\ UNCHANGED <<slots, assigned>>
  BY DEF Load
<1>3. EmitInv' /\ frames' = << >> /\ code' = code /\ strings' = strings
  BY <1>1, <1>2, EmitVarsStay
<1>4. SlotsOK'
  BY <1>1, <1>2 DEF SlotsOK
<1>5. CASE /\ Loadable(file) /\ program' = Loaded(file) /\ phase' = "run" /\ UNCHANGED exitCode
           /\ callFrames' = <<[base |-> 0, returnIp |-> 0]>>
  <2>1. CodeTypeOK /\ EndsInHalt /\ Layout(code)
    BY <1>1 DEF EmitInv, CodeInv
  <2>2. program' = [strings |-> strings, code |-> code]
    BY <1>1, <1>5, <2>1, LoadableIsWhole
  <2>3. LoadedIsEmitted'
    BY <1>3, <2>2 DEF LoadedIsEmitted
  <2>4. code \in Seq(Cell) /\ code # << >> /\ code[1].op # "OPERAND"
    BY <1>1, <2>1 DEF CodeTypeOK, EndsInHalt, Layout
  <2>5. 1 \in DOMAIN code
    BY <2>4
  <2>6. program'.code = code
    BY <2>2
  <2>7. AtInstruction'
    BY <1>1, <1>2, <2>4, <2>5, <2>6 DEF AtInstruction, Fetched
  <2>8. [base |-> 0, returnIp |-> 0] \in [base : Nat, returnIp : Nat]
    OBVIOUS
  <2>9. callFrames' \in Seq([base : Nat, returnIp : Nat]) /\ Len(callFrames') = 1
    BY <1>5, <2>8, SingleFacts
  <2>10. callFrames' # << >>
    BY <2>9
  <2>11. RunTypeOK'
    BY <1>1, <1>2, <1>5, <2>9 DEF RunTypeOK
  <2>12. exitCode' = Running /\ accepted' = (phase' = "done" /\ exitCode' = 0)
    BY <1>1, <1>2, <1>5
  <2> QED BY <1>3, <1>4, <1>5, <2>3, <2>7, <2>10, <2>11, <2>12 DEF VmInv, RunInv
<1>6. CASE exitCode' = Failure /\ phase' = "done" /\ UNCHANGED callFrames
  <2>1. RunTypeOK'
    BY <1>1, <1>2, <1>6 DEF RunTypeOK, Failure
  <2>2. accepted' = (phase' = "done" /\ exitCode' = 0)
    BY <1>1, <1>2, <1>6 DEF Failure
  <2> QED BY <1>3, <1>6, <2>1, <2>2 DEF VmInv, RunInv, LoadedIsEmitted, AtInstruction
<1> QED BY <1>5, <1>6 DEF Load

LEMMA ExecutingKeeps ==
  ASSUME VmInv, Executing
  PROVE  VmInv'
<1>1. CodeInv /\ RunInv /\ phase = "run" /\ EmitInv
  BY DEF VmInv, EmitInv, Executing
<1>2. Kept
  BY <1>1, RunNextKeeps DEF Executing
<1>3. /\ UNCHANGED emitVars
      /\ phase' = IF exitCode' = Running THEN "run" ELSE "done"
      /\ accepted' = (exitCode' = 0)
  BY DEF Executing
<1>4. /\ program.code = code /\ program.strings = strings /\ frames = << >>
      /\ ip \in DOMAIN code /\ Fetched = code[ip] /\ exitCode = Running
      /\ Fetched.op # "OPERAND" /\ program = [strings |-> strings, code |-> code]
  BY <1>1, FetchedFacts DEF RunInv, AtInstruction, LoadedIsEmitted
<1>5. EmitInv' /\ frames' = << >> /\ code' = code /\ strings' = strings
  BY <1>1, <1>3, <1>4, EmitVarsStay
<1>6. RunTypeOK' /\ program' = program
  BY <1>2 DEF Kept
<1>7. LoadedIsEmitted'
  BY <1>4, <1>5, <1>6 DEF LoadedIsEmitted
<1>8. accepted' = (phase' = "done" /\ exitCode' = 0)
  BY <1>3 DEF Running
<1>9. CASE exitCode' # Running
  <2>1. phase' = "done"
    BY <1>3, <1>9
  <2> QED BY <1>5, <1>6, <1>7, <1>8, <2>1 DEF VmInv, RunInv, AtInstruction
<1>10. CASE exitCode' = Running
  <2>1. phase' = "run" /\ Advanced
    BY <1>2, <1>3, <1>10 DEF Kept
  <2>2. /\ ip' = ip + Width(code[ip].op) /\ code[ip].op \notin {"OPERAND", "HALT", "NODE_META"}
        /\ SlotsOK' /\ callFrames' # << >>
    BY <1>4, <2>1 DEF Advanced
  <2>3. ip' \in DOMAIN code /\ code[ip'].op # "OPERAND"
    BY <1>1, <1>4, <2>2, NextInstruction
  <2>4. AtInstruction'
    BY <1>4, <1>6, <2>3 DEF AtInstruction, Fetched
  <2> QED BY <1>5, <1>6, <1>7, <1>8, <1>10, <2>1, <2>2, <2>4 DEF VmInv, RunInv
<1> QED BY <1>9, <1>10

LEMMA StutterKeeps ==
  ASSUME VmInv, UNCHANGED vars
  PROVE  VmInv'
<1>1. /\ UNCHANGED emitVars /\ UNCHANGED runVars /\ UNCHANGED phase
      /\ UNCHANGED file /\ UNCHANGED accepted
  BY DEF vars
<1>2. EmitInv' /\ frames' = frames /\ code' = code /\ strings' = strings /\ FileImage' = FileImage
  BY <1>1, EmitVarsStay DEF VmInv
<1>3. /\ RunTypeOK' /\ (SlotsOK => SlotsOK') /\ exitCode' = exitCode /\ ip' = ip
      /\ callFrames' = callFrames /\ program' = program
  BY <1>1, RunVarsStay DEF VmInv, RunInv
<1>4. Prefix(file) => Prefix(file)'
  BY <1>1, <1>2 DEF Prefix
<1>5. LoadedIsEmitted' /\ AtInstruction'
  BY <1>1, <1>2, <1>3 DEF VmInv, RunInv, LoadedIsEmitted, AtInstruction, Fetched
<1>6. accepted' = (phase' = "done" /\ exitCode' = 0)
  <2>1. accepted = (phase = "done" /\ exitCode = 0)
    BY DEF VmInv, RunInv
  <2> QED BY <1>1, <1>3, <2>1
<1> QED BY <1>1, <1>2, <1>3, <1>4, <1>5, <1>6 DEF VmInv, RunInv

LEMMA VmInvNext == VmInv /\ [Next]_vars => VmInv'
  BY EmittingKeeps, GiveUpKeeps, WriteKeeps, LoadKeeps, ExecutingKeeps, StutterKeeps
  DEF Next, Stopped

(* Emitter, file and interpreter keep the invariant from the first node to the *)
(* exit status (vm.c, vm_runtime.c, main.c).                                  *)
THEOREM VmKept == Spec => []VmInv
  BY VmInvInit, VmInvNext, PTL DEF Spec

(* The history of the stack and of the code lines up with what it records,   *)
(* and an exit status is a byte (vm_runtime.c morphl_vm_execute).            *)
THEOREM VmTyped == Spec => []TypeOK
<1>1. VmInv => TypeOK
  <2> SUFFICES ASSUME VmInv
               PROVE  TypeOK
    OBVIOUS
  <2>1. /\ CodeTypeOK /\ FramesOK /\ RunTypeOK
        /\ phase \in {"emit", "write", "load", "run", "done"}
        /\ accepted = (phase = "done" /\ exitCode = 0)
    BY DEF VmInv, EmitInv, CodeInv, RunInv
  <2>2. \A i \in DOMAIN code : code[i].op \in Opcode \cup {"OPERAND"}
    <3>1. \A i \in DOMAIN code : code[i] \in Cell
      BY <2>1 DEF CodeTypeOK
    <3> QED BY <3>1 DEF Cell
  <2>3. /\ \A i \in DOMAIN stack : stack[i] \in ValueSet
        /\ Len(origins) = Len(stack) /\ exitCode \in {Running} \cup 0 .. 255
    BY <2>1 DEF RunTypeOK
  <2>4. \A i \in DOMAIN slots : slots[i].value \in ValueSet
    <3>1. \A i \in DOMAIN slots : slots[i] \in Slot
      BY <2>1 DEF RunTypeOK
    <3> QED BY <3>1 DEF Slot
  <2>5. Len(source) = Len(code) /\ budget \in 0 .. MaxNodes
    BY <2>1 DEF CodeTypeOK, FramesOK
  <2> QED BY <2>1, <2>2, <2>3, <2>4, <2>5 DEF TypeOK
<1> QED BY <1>1, VmKept, PTL

(* A string index in the code names the text it was emitted for, whatever the *)
(* table was given since (vm.c string_table_add).                            *)
THEOREM TextsKept == Spec => []InstructionsKeepMeaning
<1>1. VmInv => InstructionsKeepMeaning
  BY DEF VmInv, EmitInv, CodeInv
<1> QED BY <1>1, VmKept, PTL

(* A file that was cut short anywhere is refused: what runs is what was       *)
(* emitted (vm.c morphl_backend_func_vm, vm_runtime.c morphl_vm_program_load). *)
THEOREM RunsWhatWasEmitted == Spec => []LoadedIsEmitted
<1>1. VmInv => LoadedIsEmitted
  BY DEF VmInv, RunInv
<1> QED BY <1>1, VmKept, PTL

(* The interpreter's cursor goes from instruction to instruction and never    *)
(* past the end of the code (vm_runtime.c morphl_vm_execute).                 *)
THEOREM CursorAtInstruction == Spec => []AtInstruction
<1>1. VmInv => AtInstruction
  BY DEF VmInv, RunInv
<1> QED BY <1>1, VmKept, PTL

(* An identifier resolves to the value assigned to its name last             *)
(* (vm_runtime.c vm_set_slot, vm_resolve_value).                              *)
THEOREM SlotsHoldLast == Spec => []SlotHoldsLast
<1>1. VmInv => SlotHoldsLast
  <2> SUFFICES ASSUME VmInv, phase = "run", NEW name \in DOMAIN assigned
               PROVE  Resolve(IdentValue(name)) = assigned[name]
    BY DEF SlotHoldsLast
  <2>1. RunTypeOK /\ SlotsOK
    BY DEF VmInv, RunInv
  <2>2. PICK i \in DOMAIN slots : slots[i].name = name
    BY <2>1 DEF SlotsOK
  <2>3. IdentValue(name).kind = "ident" /\ IdentValue(name).text = name
    BY DEF IdentValue
  <2>4. Resolve(IdentValue(name)) = slots[i].value
    BY <2>1, <2>2, <2>3, ResolveFinds
  <2> QED BY <2>1, <2>2, <2>4 DEF SlotsOK
<1> QED BY <1>1, VmKept, PTL

-----------------------------------------------------------------------------
(* Heights *)

(* What a stretch of code adds to the height of the stack. *)
Net(c) == FoldLeft(LAMBDA h, cell : h + Height(cell), 0, c)

(* Net is computed by a function on the sets of cells. *)
FoldsOver(c, S, g) ==
  g = [s \in SUBSET S |-> IF s = {} THEN 0 ELSE g[s \ {Max(s)}] + Height(c[Max(s)])]

(* The function that the fold computes. *)
LEMMA NetIs ==
  ASSUME NEW c
  PROVE  Net(c) = (CHOOSE g : FoldsOver(c, DOMAIN c, g))[DOMAIN c]
  BY DEF Net, FoldLeft, MapThenFoldSet, FoldsOver

(* The function of one cell more. *)
LEMMA FoldGrows ==
  ASSUME NEW c, NEW m \in Nat, NEW f, FoldsOver(c, 1 .. m, f)
  PROVE  \E g : FoldsOver(c, 1 .. m + 1, g)
<1>0. ASSUME NEW s \in SUBSET (1 .. m + 1), s # {}
      PROVE  Max(s) \in s /\ \A y \in s : Max(s) >= y
  <2>1. m + 1 \in Nat
    OBVIOUS
  <2> QED BY <1>0, <2>1, MaxInSet
<1> DEFINE g == [s \in SUBSET (1 .. m + 1) |->
                   IF m + 1 \in s THEN f[s \ {m + 1}] + Height(c[m + 1]) ELSE f[s]]
<1>1. ASSUME NEW s \in SUBSET (1 .. m + 1)
      PROVE  g[s] = IF s = {} THEN 0 ELSE g[s \ {Max(s)}] + Height(c[Max(s)])
  <2>1. CASE s = {}
    <3>1. {} \in SUBSET (1 .. m) /\ f[{}] = 0
      BY DEF FoldsOver
    <3> QED BY <2>1, <3>1
  <2>2. CASE m + 1 \in s
    <3>1. Max(s) = m + 1
      <4>1. Max(s) \in s /\ Max(s) >= m + 1
        BY <1>0, <2>2
      <4>2. Max(s) \in 1 .. m + 1
        BY <4>1
      <4> QED BY <4>1, <4>2
    <3>2. s \ {m + 1} \in SUBSET (1 .. m + 1) /\ m + 1 \notin s \ {m + 1}
      OBVIOUS
    <3>3. g[s \ {m + 1}] = f[s \ {m + 1}]
      BY <3>2
    <3>4. g[s] = f[s \ {m + 1}] + Height(c[m + 1])
      BY <2>2
    <3> HIDE DEF g
    <3> QED BY <2>2, <3>1, <3>3, <3>4
  <2>3. CASE s # {} /\ m + 1 \notin s
    <3>1. s \in SUBSET (1 .. m)
      <4>1. \A x \in 1 .. m + 1 : x = m + 1 \/ x \in 1 .. m
        OBVIOUS
      <4> QED BY <2>3, <4>1
    <3>2. Max(s) \in s
      BY <1>0, <2>3
    <3>3. f[s] = f[s \ {Max(s)}] + Height(c[Max(s)])
      BY <2>3, <3>1 DEF FoldsOver
    <3>4. g[s] = f[s] /\ g[s \ {Max(s)}] = f[s \ {Max(s)}]
      BY <2>3
    <3> HIDE DEF g
    <3> QED BY <2>3, <3>3, <3>4
  <2> QED BY <2>1, <2>2, <2>3
<1>2. \E d : d = g
  OBVIOUS
<1>3. g = [s \in SUBSET (1 .. m + 1) |-> g[s]]
  OBVIOUS
<1> HIDE DEF g
<1>4. FoldsOver(c, 1 .. m + 1, g)
  BY <1>1, <1>3 DEF FoldsOver
<1> QED BY <1>4

(* So there is one for every code. *)
LEMMA FoldExists ==
  ASSUME NEW c, NEW n \in Nat
  PROVE  \E g : FoldsOver(c, 1 .. n, g)
<1> DEFINE S == {m \in Nat : \E g : FoldsOver(c, 1 .. m, g)}
<1>1. 0 \in S
  <2> DEFINE g == [s \in SUBSET (1 .. 0) |-> 0]
  <2>1. \A s \in SUBSET (1 .. 0) : s = {}
    OBVIOUS
  <2>2. FoldsOver(c, 1 .. 0, g)
    BY <2>1 DEF FoldsOver
  <2> QED BY <2>2
<1>2. \A m \in Nat : m \in S => m + 1 \in S
  BY FoldGrows
<1> HIDE DEF S
<1>3. n \in S
  BY <1>1, <1>2, SetInduction
<1> QED BY <1>3 DEF S

(* The height of the stack behind each cell, as a function. *)
IsHeights(c, h) ==
  /\ h \in [0 .. Len(c) -> Int]
  /\ h[0] = 0
  /\ \A i \in 1 .. Len(c) : h[i] = h[i - 1] + Height(c[i])

(* A cell has a height. *)
LEMMA HeightIsInt ==
  ASSUME NEW cell \in Cell
  PROVE  Height(cell) \in Int
<1>1. cell.arg \in Nat
  BY DEF Cell
<1> QED BY <1>1 DEF Height

(* Every code has a function of heights, which ends at its net height. *)
LEMMA NetHeights ==
  ASSUME NEW c \in Seq(Cell)
  PROVE  \E h : IsHeights(c, h) /\ Net(c) = h[Len(c)]
<1> DEFINE n == Len(c)
           g == CHOOSE f : FoldsOver(c, DOMAIN c, f)
           h == [i \in 0 .. n |-> g[1 .. i]]
<1>1. n \in Nat /\ DOMAIN c = 1 .. n /\ \A i \in 1 .. n : Height(c[i]) \in Int
  BY HeightIsInt
<1>2. FoldsOver(c, 1 .. n, g)
  BY <1>1, FoldExists
<1>3. Net(c) = g[1 .. n]
  BY <1>1, NetIs
<1> HIDE DEF g
<1>4. h[0] = 0
  <2>1. 1 .. 0 = {} /\ {} \in SUBSET (1 .. n) /\ 0 \in 0 .. n
    BY <1>1
  <2> QED BY <1>2, <2>1 DEF FoldsOver
<1>5. ASSUME NEW i \in 1 .. n
      PROVE  h[i] = h[i - 1] + Height(c[i])
  <2>1. 1 .. i \in SUBSET (1 .. n) /\ i \in 1 .. i /\ 1 .. i # {} /\ i \in Nat
    BY <1>1
  <2>2. Max(1 .. i) = i
    <3>1. Max(1 .. i) \in 1 .. i /\ Max(1 .. i) >= i
      BY <2>1, MaxInSet
    <3> QED BY <2>1, <3>1
  <2>3. (1 .. i) \ {i} = 1 .. i - 1
    BY <2>1
  <2>4. g[1 .. i] = g[1 .. i - 1] + Height(c[i])
    BY <1>2, <2>1, <2>2, <2>3 DEF FoldsOver
  <2>5. i \in 0 .. n /\ i - 1 \in 0 .. n
    BY <1>1
  <2> QED BY <2>4, <2>5
<1>6. DOMAIN h = 0 .. n /\ h[n] = g[1 .. n] /\ h = [i \in 0 .. n |-> h[i]]
  BY <1>1
<1> HIDE DEF h
<1>7. \A i \in 0 .. n : h[i] \in Int
  <2> DEFINE S == {i \in Nat : i <= n => h[i] \in Int}
  <2>1. 0 \in S
    BY <1>4
  <2>2. ASSUME NEW i \in Nat, i \in S
        PROVE  i + 1 \in S
    <3>1. CASE i + 1 <= n
      <4>1. i + 1 \in 1 .. n /\ (i + 1) - 1 = i /\ i <= n
        BY <1>1, <3>1
      <4>2. h[i + 1] = h[i] + Height(c[i + 1])
        BY <1>5, <4>1
      <4> QED BY <1>1, <2>2, <4>1, <4>2
    <3>2. CASE ~(i + 1 <= n)
      BY <3>2
    <3> QED BY <3>1, <3>2
  <2> HIDE DEF S
  <2>3. \A i \in Nat : i \in S
    BY <2>1, <2>2, SetInduction
  <2> QED BY <1>1, <2>3 DEF S
<1>8. IsHeights(c, h)
  BY <1>4, <1>5, <1>6, <1>7 DEF IsHeights
<1> QED BY <1>3, <1>6, <1>8

-----------------------------------------------------------------------------
(* The tree behind the code *)

(* The spans of an instruction's operands, or of the children emitted for  *)
(* a node so far, lie side by side and end where it begins.                *)
Joined(spans, end) ==
  \A k \in 1 .. Len(spans) :
    /\ 1 <= spans[k][1] /\ spans[k][1] <= spans[k][2] + 1 /\ spans[k][2] + 1 <= end
    /\ spans[k][2] + 1 = IF k = Len(spans) THEN end ELSE spans[k + 1][1]

FrameEnd(m) == IF m = Len(frames) THEN Len(code) + 1 ELSE frames[m + 1].from

(* Where a span starts, and where one of an open call of emit_node does. *)
Starts(spans, a) == \E k \in 1 .. Len(spans) : a = spans[k][1]
Pending(m, a) == a = frames[m].from \/ Starts(frames[m].spans, a)
SomePending(a) == \E m \in 1 .. Len(frames) : Pending(m, a)

(* A span that starts before an instruction holds its operands too. *)
Around(a, i) == a <= i => \A f \in Int : Starts(source[i].spans, f) => a <= f

FramePlaced(m) ==
  /\ Joined(frames[m].spans, FrameEnd(m))
  /\ \A a : Pending(m, a) => /\ a \in Nat /\ frames[m].from <= a /\ 1 <= a /\ a <= Len(code) + 1
                             /\ \A l \in m + 1 .. Len(frames) : a <= frames[l].from

LaterAround(i) ==
  \A j \in i + 1 .. Len(code) : code[j].op # "OPERAND" =>
    \A a : Starts(source[j].spans, a) => Around(a, i)

InstructionPlaced(i) ==
  /\ Joined(source[i].spans, i)
  /\ LaterAround(i)
  /\ \A a : SomePending(a) => Around(a, i)

TreeInv ==
  /\ \A m \in 1 .. Len(frames) : FramePlaced(m)
  /\ \A i \in 1 .. Len(code) : code[i].op # "OPERAND" => InstructionPlaced(i)

(* How a step of the emitter changes the code and its open calls. *)
CodeSame == code' = code /\ source' = source

Grown(spans) ==
  /\ Len(code') \in Nat /\ Len(code') > Len(code)
  /\ \A i \in 1 .. Len(code) : code'[i] = code[i] /\ source'[i] = source[i]
  /\ code'[Len(code) + 1].op # "OPERAND" /\ source'[Len(code) + 1].spans = spans
  /\ \A i \in Len(code) + 2 .. Len(code') : code'[i].op = "OPERAND"

SpanAdded(m, a) ==
  /\ Len(frames') = m
  /\ \A l \in 1 .. m - 1 : frames'[l] = frames[l]
  /\ frames'[m].from = frames[m].from
  /\ frames'[m].spans = Append(frames[m].spans, << a, Len(code') >>)

CallOpened ==
  /\ Len(frames') = Len(frames) + 1
  /\ \A l \in 1 .. Len(frames) : frames'[l] = frames[l]
  /\ frames'[Len(frames) + 1].from = Len(code) + 1
  /\ frames'[Len(frames) + 1].spans = << >>

ClosingSpans(spans) ==
  \/ spans = frames[Len(frames)].spans
  \/ /\ frames[Len(frames)].spans = << >>
     /\ spans = << << frames[Len(frames)].from, Len(code) >> >>

(* emit_opcode and its operand: one instruction more. *)
LEMMA EmitGrows ==
  ASSUME CodeInv, NEW op \in Opcode, NEW arg \in Nat, NEW text, NEW spans,
         Emit(op, arg, text, spans)
  PROVE  Grown(spans)
<1> DEFINE n == Len(code)
           w == EmittedWidth(op)
           new == [text |-> text, spans |-> spans]
           more == [i \in 1 .. Len(Cells(op, arg)) |-> new]
<1>1. /\ code \in Seq(Cell) /\ source \in Seq(Meaning \cup {new})
      /\ Len(source) = n /\ n \in Nat
  BY DEF CodeInv, CodeTypeOK
<1>2. w \in {1, 5, 10}
  BY OpcodeFacts DEF EmittedWidth
<1>3. code' = code \o Cells(op, arg) /\ source' = source \o more
  BY DEF Emit
<1>4. /\ Len(code') = n + w
      /\ \A i \in 1 .. n : code'[i] = code[i]
      /\ code'[n + 1] = Instruction(op, arg)
      /\ \A i \in n + 2 .. Len(code') : code'[i] = Operand
  <2>1. \A d : d = code \o Cells(op, arg) =>
          /\ d \in Seq(Cell)
          /\ Len(d) = Len(code) + EmittedWidth(op)
          /\ \A i \in 1 .. Len(code) : d[i] = code[i]
          /\ d[Len(code) + 1] = Instruction(op, arg)
          /\ \A i \in Len(code) + 2 .. Len(d) : d[i] = Operand
    <3>1. code \in Seq(Cell)
      BY <1>1
    <3> QED BY <3>1, CellsAppended, Zenon
  <2> QED BY <1>3, <2>1
<1>5. Len(Cells(op, arg)) = w
  BY CellsFacts
<1>6. more \in Seq(Meaning \cup {new}) /\ Len(more) = w /\ \A i \in 1 .. w : more[i] = new
  BY <1>2, <1>5
<1> HIDE DEF more, w, new
<1>7. \A i \in 1 .. n + w : source'[i] = IF i <= n THEN source[i] ELSE more[i - n]
  <2>1. \A i \in 1 .. Len(source) + Len(more) :
             (source \o more)[i] = IF i <= Len(source) THEN source[i] ELSE more[i - Len(source)]
    BY <1>1, <1>6, ConcatProperties
  <2>2. Len(source) = n /\ Len(more) = w
    BY <1>1, <1>6
  <2> HIDE DEF n
  <2> QED BY <1>3, <2>1, <2>2
<1> HIDE DEF n
<1>8. \A i \in 1 .. n : source'[i] = source[i]
  BY <1>1, <1>2, <1>7
<1>9. source'[n + 1] = new
  <2>1. n + 1 \in 1 .. n + w /\ ~(n + 1 <= n) /\ (n + 1) - n = 1 /\ 1 \in 1 .. w
    BY <1>1, <1>2
  <2>2. source'[n + 1] = more[(n + 1) - n]
    BY <1>7, <2>1
  <2> QED BY <1>6, <2>1, <2>2
<1>10. code'[n + 1].op # "OPERAND" /\ \A i \in n + 2 .. Len(code') : code'[i].op = "OPERAND"
  <2>1. Instruction(op, arg).op = op /\ op # "OPERAND"
    BY OpcodeFacts DEF Instruction, Opcode, TextOp, CountOp, BareOp
  <2> QED BY <1>4, <2>1 DEF Operand
<1>11. source'[n + 1].spans = spans
  BY <1>9 DEF new
<1>12. Len(code') \in Nat /\ Len(code') > n
  BY <1>1, <1>2, <1>4
<1> QED BY <1>4, <1>8, <1>10, <1>11, <1>12 DEF Grown, n

(* So it is with an instruction that carries a text, *)
LEMMA TextGrows ==
  ASSUME CodeInv, NEW op \in TextOp, NEW text \in Texts, NEW spans, EmitText(op, text, spans)
  PROVE  Grown(spans)
<1>1. strings \in Seq(Texts)
  BY DEF CodeInv, CodeTypeOK
<1>2. StringIndex(strings, text) \in Nat
  <2>1. /\ AddString(strings, text) \in Seq(Texts)
        /\ StringIndex(strings, text) \in DOMAIN AddString(strings, text)
    BY <1>1, AddStringFacts
  <2> QED BY <2>1
<1>3. op \in Opcode /\ Emit(op, StringIndex(strings, text), text, spans)
  BY DEF Opcode, EmitText
<1> QED BY <1>2, <1>3, EmitGrows

(* and with one that carries none. *)
LEMMA PlainGrows ==
  ASSUME CodeInv, NEW op \in {"MAKE_GROUP", "PUSH_NULL", "RET"}, NEW arg \in Nat, NEW spans,
         EmitPlain(op, arg, spans)
  PROVE  Grown(spans)
<1>1. op \in Opcode /\ Emit(op, arg, "", spans)
  BY DEF Opcode, CountOp, BareOp, EmitPlain
<1> QED BY <1>1, EmitGrows

(* A child's span is added to its parent's.                                *)
LEMMA ChildSpan ==
  ASSUME NEW s \in Seq(EmitFrame), s # << >>, NEW a
  PROVE  LET t == ChildDone(s, a)
         IN  /\ Len(t) = Len(s)
             /\ \A i \in 1 .. Len(s) - 1 : t[i] = s[i]
             /\ t[Len(s)].from = s[Len(s)].from
             /\ t[Len(s)].spans = Append(s[Len(s)].spans, << a, Len(code') >>)
<1> DEFINE top == Last(s)
           new == [top EXCEPT !.left = top.left - 1,
                              !.spans = Append(top.spans, << a, Len(code') >>)]
           W == EmitFrame \cup {new}
<1>1. top \in EmitFrame /\ top = s[Len(s)]
  BY LastInSet DEF Last
<1>2. new.from = top.from /\ new.spans = Append(top.spans, << a, Len(code') >>)
  BY <1>1 DEF EmitFrame
<1>3. ChildDone(s, a) = Append(Front(s), new)
  BY DEF ChildDone
<1> HIDE DEF new, top
<1>4. s \in Seq(W) /\ new \in W
  OBVIOUS
<1>5. /\ Len(Append(Front(s), new)) = Len(s)
      /\ \A i \in 1 .. Len(s) - 1 : Append(Front(s), new)[i] = s[i]
      /\ Append(Front(s), new)[Len(s)] = new
  BY <1>4, ReplaceLast
<1> QED BY <1>1, <1>2, <1>3, <1>5

(* A leaf adds its instruction, and its span to its parent's. *)
LEMMA LeafShape ==
  ASSUME EmitInv,
         \/ EmitLeaf("literal", "PUSH_LITERAL", Literal)
         \/ EmitLeaf("ident", "PUSH_IDENT", Ident)
  PROVE  frames # << >> /\ SpanAdded(Len(frames), Len(code) + 1) /\ Grown(<< >>)
<1>1. frames # << >> /\ frames \in Seq(EmitFrame) /\ frames' = ChildDone(frames, Len(code) + 1)
  BY DEF EmitLeaf, AtChild, EmitInv, FramesOK
<1>2. SpanAdded(Len(frames), Len(code) + 1)
  BY <1>1, ChildSpan DEF SpanAdded
<1>3. PICK op \in TextOp, text \in Texts : EmitText(op, text, << >>)
  BY DEF EmitLeaf, TextOp, Texts
<1> QED BY <1>1, <1>2, <1>3, TextGrows DEF EmitInv

(* emit_node enters a node: an instruction at most, and a call more. *)
LEMMA EnterShape ==
  ASSUME EmitInv, EnterNode
  PROVE  CallOpened /\ (CodeSame \/ Grown(<< >>))
<1>1. PICK kind, name, left :
        /\ frames' = Append(frames, Frame(kind, name, left))
        /\ \/ EmitText("NODE_META", "<none>", << >>)
           \/ EmitPlain("PUSH_NULL", 0, << >>)
           \/ UNCHANGED << strings, code, source >>
  BY DEF EnterNode
<1>2. PICK f : f = Frame(kind, name, left)
  OBVIOUS
<1>3. f.from = Len(code) + 1 /\ f.spans = << >>
  BY <1>2 DEF Frame
<1>4. CallOpened
  <2>1. frames' = Append(frames, f) /\ frames \in Seq(EmitFrame \cup {f}) /\ f \in EmitFrame \cup {f}
    BY <1>1, <1>2 DEF EmitInv, FramesOK
  <2>2. /\ Len(frames') = Len(frames) + 1
        /\ \A l \in 1 .. Len(frames) : frames'[l] = frames[l]
        /\ frames'[Len(frames) + 1] = f
    BY <2>1, AppendFacts
  <2> QED BY <1>3, <2>2 DEF CallOpened
<1>5. CASE EmitText("NODE_META", "<none>", << >>)
  <2>1. "NODE_META" \in TextOp /\ "<none>" \in Texts
    BY DEF TextOp, Texts
  <2> QED BY <1>4, <1>5, <2>1, TextGrows DEF EmitInv
<1>6. CASE EmitPlain("PUSH_NULL", 0, << >>)
  BY <1>4, <1>6, PlainGrows DEF EmitInv
<1>7. CASE UNCHANGED << strings, code, source >>
  BY <1>4, <1>7 DEF CodeSame
<1> QED BY <1>1, <1>5, <1>6, <1>7

(* It leaves it: the node's instruction, if it has one, and its span. *)
LEMMA LeaveShape ==
  ASSUME EmitInv, LeaveNode
  PROVE  /\ Len(frames) - 1 \in Nat \ {0}
         /\ SpanAdded(Len(frames) - 1, frames[Len(frames)].from)
         /\ CodeSame \/ \E spans : Grown(spans) /\ ClosingSpans(spans)
<1> DEFINE top == Last(frames)
           n == Len(frames)
           s == Front(frames)
<1>1. frames # << >> /\ top.kind # "file" /\ frames \in Seq(EmitFrame)
  BY DEF LeaveNode, AtEnd, EmitInv, FramesOK
<1>2. n \in Nat /\ n > 0 /\ DOMAIN frames = 1 .. n /\ top = frames[n] /\ top \in EmitFrame
  BY <1>1, FrameFacts DEF EmitInv
<1>3. n # 1
  BY <1>1, <1>2 DEF EmitInv, FramesOK
<1>4. top.name \in Texts /\ Len(top.spans) \in Nat
  BY <1>2 DEF EmitFrame, Spans
<1>5. /\ frames' = ChildDone(Front(frames), top.from)
      /\ CASE top.kind = "group" -> EmitPlain("MAKE_GROUP", Len(top.spans), top.spans)
           [] top.kind = "call" -> EmitText("CALL", top.name, top.spans)
           [] top.kind = "decl" ->
                EmitText("SET_SLOT", top.name,
                         IF top.spans = << >> THEN << << top.from, Len(code) >> >> ELSE top.spans)
           [] top.kind \in {"set", "builtin"} -> EmitText("OPERATOR", top.name, top.spans)
           [] top.kind = "ret" -> EmitPlain("RET", 0, top.spans)
           [] OTHER -> UNCHANGED << strings, code, source >>
  BY DEF LeaveNode
<1>6. n - 1 \in Nat \ {0}
  BY <1>2, <1>3
<1>7. SpanAdded(n - 1, frames[n].from)
  <2>1. s \in Seq(EmitFrame) /\ Len(s) = n - 1 /\ \A i \in 1 .. n - 1 : s[i] = frames[i]
    BY <1>1, FrontFacts
  <2>2. frames' = ChildDone(s, frames[n].from)
    BY <1>2, <1>5
  <2> HIDE DEF s
  <2>3. s # << >> /\ n - 1 \in 1 .. n - 1 /\ \A i \in 1 .. (n - 1) - 1 : i \in 1 .. n - 1
    BY <1>6, <2>1
  <2>4. /\ Len(frames') = Len(s)
        /\ \A i \in 1 .. Len(s) - 1 : frames'[i] = s[i]
        /\ frames'[Len(s)].from = s[Len(s)].from
        /\ frames'[Len(s)].spans = Append(s[Len(s)].spans, << frames[n].from, Len(code') >>)
    BY <2>1, <2>2, <2>3, ChildSpan
  <2> HIDE DEF n
  <2> QED BY <2>1, <2>3, <2>4 DEF SpanAdded
<1> HIDE DEF top
<1>8. CodeSame \/ \E spans : Grown(spans) /\ ClosingSpans(spans)
  <2>1. \E spans : /\ spans = top.spans \/ (top.spans = << >> /\ spans = << << top.from, Len(code) >> >>)
                   /\ \/ EmitPlain("MAKE_GROUP", Len(top.spans), spans)
                      \/ EmitPlain("RET", 0, spans)
                      \/ \E op \in {"CALL", "SET_SLOT", "OPERATOR"} : EmitText(op, top.name, spans)
                      \/ UNCHANGED << code, source >>
    <3>1. CASE top.kind = "decl" /\ top.spans = << >>
      BY <1>5, <3>1
    <3>2. CASE ~(top.kind = "decl" /\ top.spans = << >>)
      BY <1>5, <3>2
    <3> QED BY <3>1, <3>2
  <2>2. PICK spans : /\ spans = top.spans \/ (top.spans = << >> /\ spans = << << top.from, Len(code) >> >>)
                     /\ \/ EmitPlain("MAKE_GROUP", Len(top.spans), spans)
                        \/ EmitPlain("RET", 0, spans)
                        \/ \E op \in {"CALL", "SET_SLOT", "OPERATOR"} : EmitText(op, top.name, spans)
                        \/ UNCHANGED << code, source >>
    BY <2>1
  <2>3. ClosingSpans(spans)
    BY <1>2, <2>2 DEF ClosingSpans
  <2>4. CASE EmitPlain("MAKE_GROUP", Len(top.spans), spans) \/ EmitPlain("RET", 0, spans)
    BY <1>4, <2>3, <2>4, PlainGrows DEF EmitInv
  <2>5. ASSUME NEW op \in {"CALL", "SET_SLOT", "OPERATOR"}, EmitText(op, top.name, spans)
        PROVE  Grown(spans)
    BY <1>4, <2>5, TextGrows DEF EmitInv, TextOp
  <2>6. CASE UNCHANGED << code, source >>
    BY <2>6 DEF CodeSame
  <2> QED BY <2>2, <2>3, <2>4, <2>5, <2>6
<1> QED BY <1>6, <1>7, <1>8

(* HALT comes after the root. *)
LEMMA TrailerShape ==
  ASSUME EmitInv, EmitTrailer
  PROVE  frames' = << >> /\ Grown(<< >>)
<1>1. "HALT" \in Opcode
  BY DEF Opcode, BareOp
<1> QED BY <1>1, EmitGrows DEF EmitTrailer, EmitInv

(* What the tree is made of. *)
LEMMA TreeTypes ==
  ASSUME EmitInv
  PROVE  /\ Len(code) \in Nat /\ Len(frames) \in Nat
         /\ \A m \in 1 .. Len(frames) : frames[m].from \in Int /\ frames[m].spans \in Spans
         /\ \A i \in 1 .. Len(code) : source[i].spans \in Spans
         /\ \A m \in 1 .. Len(frames) : \A a : Pending(m, a) => a \in Int
         /\ \A i \in 1 .. Len(code) : \A a : Starts(source[i].spans, a) => a \in Int
<1>1. /\ Len(code) \in Nat /\ Len(frames) \in Nat
      /\ \A m \in 1 .. Len(frames) : frames[m].from \in Int /\ frames[m].spans \in Spans
  <2>1. frames \in Seq(EmitFrame) /\ code \in Seq(Cell)
    BY DEF EmitInv, CodeInv, CodeTypeOK, FramesOK
  <2>2. \A m \in 1 .. Len(frames) : frames[m] \in EmitFrame
    BY <2>1
  <2>3. Len(code) \in Nat /\ Len(frames) \in Nat
    BY <2>1
  <2> QED BY <2>2, <2>3 DEF EmitFrame
<1>2. \A i \in 1 .. Len(code) : source[i].spans \in Spans
  <2>1. source \in Seq(Meaning) /\ Len(source) = Len(code)
    BY DEF EmitInv, CodeInv, CodeTypeOK
  <2>2. \A i \in 1 .. Len(source) : source[i] \in Meaning
    BY <2>1
  <2> QED BY <2>1, <2>2 DEF Meaning
<1>3. \A spans \in Spans : \A a : Starts(spans, a) => a \in Int
  BY DEF Spans, Starts
<1> QED BY <1>1, <1>2, <1>3 DEF Pending

(* New code: it stands behind everything, and its operands, if it has any, *)
(* are spans that were open.                                               *)
LEMMA CodePlaced ==
  ASSUME EmitInv, TreeInv, Len(frames') \in Nat,
         \A a : SomePending(a)' => a = Len(code) + 1 \/ SomePending(a),
         \/ CodeSame
         \/ \E spans : /\ Grown(spans) /\ Joined(spans, Len(code) + 1)
                       /\ \A a : Starts(spans, a) => SomePending(a)
                       /\ \A a, f : SomePending(a)' /\ a <= Len(code) + 1 /\ Starts(spans, f) => a <= f
  PROVE  \A i \in 1 .. Len(code') : code'[i].op # "OPERAND" => InstructionPlaced(i)'
<1> DEFINE n == Len(code)
<1>1. n \in Nat
  BY TreeTypes
<1>2. ASSUME NEW i \in 1 .. n, code[i].op # "OPERAND"
      PROVE  /\ Joined(source[i].spans, i) /\ LaterAround(i)
             /\ \A a : SomePending(a) => Around(a, i)
             /\ Around(n + 1, i)
  <2>1. InstructionPlaced(i)
    BY <1>2 DEF TreeInv
  <2>2. Around(n + 1, i)
    BY <1>1 DEF Around
  <2> QED BY <2>1, <2>2 DEF InstructionPlaced
<1>3. CASE CodeSame
  <2> SUFFICES ASSUME NEW i \in 1 .. n, code[i].op # "OPERAND"
               PROVE  InstructionPlaced(i)'
    BY <1>3 DEF CodeSame
  <2>1. Joined(source[i].spans, i)'
    BY <1>2, <1>3 DEF CodeSame, Joined
  <2>2. \A a : Around(a, i)' <=> Around(a, i)
    BY <1>3 DEF CodeSame, Around, Starts
  <2>3. LaterAround(i)'
    BY <1>2, <1>3, <2>2 DEF CodeSame, LaterAround, Starts
  <2>4. \A a : SomePending(a)' => Around(a, i)'
    BY <1>2, <2>2
  <2> QED BY <2>1, <2>3, <2>4 DEF InstructionPlaced
<1>4. ASSUME NEW spans, Grown(spans), Joined(spans, n + 1),
             \A a : Starts(spans, a) => SomePending(a),
             \A a, f : SomePending(a)' /\ a <= n + 1 /\ Starts(spans, f) => a <= f,
             NEW i \in 1 .. Len(code'), code'[i].op # "OPERAND"
      PROVE  InstructionPlaced(i)'
  <2>1. /\ Len(code') \in Nat /\ Len(code') > n
        /\ \A j \in 1 .. n : code'[j] = code[j] /\ source'[j] = source[j]
        /\ code'[n + 1].op # "OPERAND" /\ source'[n + 1].spans = spans
        /\ \A j \in n + 2 .. Len(code') : code'[j].op = "OPERAND"
    BY <1>4 DEF Grown
  <2> HIDE DEF n
  <2>2. \A j \in 1 .. Len(code') : code'[j].op # "OPERAND" => j \in 1 .. n \/ j = n + 1
    <3>1. \A j \in 1 .. Len(code') : j \in 1 .. n \/ j = n + 1 \/ j \in n + 2 .. Len(code')
      BY <1>1, <2>1
    <3> QED BY <2>1, <3>1
  <2>3. CASE i \in 1 .. n
    <3>1. code[i].op # "OPERAND" /\ source'[i] = source[i]
      BY <1>4, <2>1, <2>3
    <3>2. /\ Joined(source[i].spans, i) /\ LaterAround(i)
          /\ \A a : SomePending(a) => Around(a, i)
          /\ Around(n + 1, i)
      BY <1>2, <2>3, <3>1
    <3>3. Joined(source[i].spans, i)'
      BY <3>1, <3>2 DEF Joined
    <3>4. \A a : Around(a, i)' <=> Around(a, i)
      BY <3>1 DEF Around, Starts
    <3>5. LaterAround(i)'
      <4> SUFFICES ASSUME NEW j \in i + 1 .. Len(code'), code'[j].op # "OPERAND",
                          NEW a, Starts(source'[j].spans, a)
                   PROVE  Around(a, i)
        BY <3>4 DEF LaterAround, Starts
      <4>1. CASE j = n + 1
        <5>1. SomePending(a)
          BY <1>4, <2>1, <4>1
        <5> QED BY <3>2, <5>1
      <4>2. CASE j # n + 1
        <5>1. j \in 1 .. n
          <6>1. j \in 1 .. Len(code')
            BY <1>1, <2>1, <2>3
          <6> QED BY <2>2, <4>2, <6>1
        <5>2. j \in i + 1 .. Len(code) /\ code[j].op # "OPERAND" /\ Starts(source[j].spans, a)
          BY <2>1, <5>1 DEF n
        <5> QED BY <3>2, <5>2 DEF LaterAround
      <4> QED BY <4>1, <4>2
    <3>6. \A a : SomePending(a)' => Around(a, i)'
      BY <3>2, <3>4 DEF n
    <3> QED BY <3>3, <3>5, <3>6 DEF InstructionPlaced
  <2>4. CASE i = n + 1
    <3>1. \A k : k = n + 1 => Joined(source[k].spans, k)'
      BY <1>4, <2>1 DEF Joined
    <3>2. \A k : k = n + 1 => LaterAround(k)'
      <4> SUFFICES ASSUME NEW k, k = n + 1, NEW j \in k + 1 .. Len(code'), code'[j].op # "OPERAND"
                   PROVE  FALSE
        BY DEF LaterAround
      <4>1. j \in n + 2 .. Len(code')
        BY <1>1
      <4> QED BY <2>1, <4>1
    <3>3. \A k : k = n + 1 => \A a : SomePending(a)' => Around(a, k)'
      BY <1>4, <2>1 DEF Around, Starts
    <3> QED BY <2>4, <3>1, <3>2, <3>3 DEF InstructionPlaced
  <2> QED BY <1>4, <2>2, <2>3, <2>4
<1> QED BY <1>3, <1>4

(* One more span.                                                          *)
LEMMA JoinedAdded ==
  ASSUME NEW spans \in Spans, NEW b \in Int, NEW e \in Int,
         Joined(spans, b), 1 <= b, b <= e + 1
  PROVE  \A t : t = Append(spans, << b, e >>) =>
           /\ Joined(t, e + 1)
           /\ \A a : Starts(t, a) => Starts(spans, a) \/ a = b
<1> SUFFICES ASSUME NEW t, t = Append(spans, << b, e >>)
             PROVE  Joined(t, e + 1) /\ \A a : Starts(t, a) => Starts(spans, a) \/ a = b
  OBVIOUS
<1> DEFINE n == Len(spans)
<1>1. n \in Nat /\ Len(t) = n + 1 /\ (\A k \in 1 .. n : t[k] = spans[k]) /\ t[n + 1] = << b, e >>
  BY AppendFacts DEF Spans
<1>2. \A k \in 1 .. n : spans[k] \in Int \X Int
  BY DEF Spans
<1>3. \A k \in 1 .. n : spans[k][1] \in Int /\ spans[k][2] \in Int
  BY <1>2
<1>4. t[n + 1][1] = b /\ t[n + 1][2] = e
  BY <1>1
<1> n = Len(spans)
  OBVIOUS
<1> HIDE DEF n
<1>5. \A k \in 1 .. n + 1 : k \in 1 .. n \/ k = n + 1
  BY <1>1
<1>6. \A a : Starts(t, a) => Starts(spans, a) \/ a = b
  BY <1>1, <1>4, <1>5 DEF Starts
<1>7. ASSUME NEW k \in 1 .. n + 1
      PROVE  /\ 1 <= t[k][1] /\ t[k][1] <= t[k][2] + 1 /\ t[k][2] + 1 <= e + 1
             /\ t[k][2] + 1 = IF k = n + 1 THEN e + 1 ELSE t[k + 1][1]
  <2>1. CASE k = n + 1
    BY <1>4, <2>1
  <2>2. CASE k \in 1 .. n
    <3>1. /\ 1 <= spans[k][1] /\ spans[k][1] <= spans[k][2] + 1 /\ spans[k][2] + 1 <= b
          /\ spans[k][2] + 1 = IF k = n THEN b ELSE spans[k + 1][1]
      BY <2>2 DEF Joined
    <3>2. t[k] = spans[k] /\ k # n + 1
      BY <1>1, <2>2
    <3>3. k # n => k + 1 \in 1 .. n
      BY <1>1, <2>2
    <3>4. t[k + 1][1] = IF k = n THEN b ELSE spans[k + 1][1]
      BY <1>1, <1>4, <3>3
    <3>5. spans[k][1] \in Int /\ spans[k][2] \in Int
      BY <1>3, <2>2
    <3> QED BY <3>1, <3>2, <3>4, <3>5
  <2> QED BY <1>5, <2>1, <2>2
<1> QED BY <1>1, <1>6, <1>7 DEF Joined

(* What is known of an open call of emit_node.                             *)
LEMMA FramePlacedFacts ==
  ASSUME TreeInv, NEW m \in 1 .. Len(frames)
  PROVE  /\ Joined(frames[m].spans, FrameEnd(m))
         /\ \A a : Pending(m, a) => /\ a \in Nat /\ frames[m].from <= a /\ 1 <= a /\ a <= Len(code) + 1
                                    /\ \A l \in m + 1 .. Len(frames) : a <= frames[l].from
         /\ frames[m].from \in Nat /\ 1 <= frames[m].from /\ frames[m].from <= Len(code) + 1
  BY DEF TreeInv, FramePlaced, Pending

(* A child is done: its span ends the ones of its parent, which becomes    *)
(* the innermost call.                                                     *)
LEMMA SpanPlaced ==
  ASSUME EmitInv, TreeInv, NEW M \in 1 .. Len(frames), NEW b \in Nat, SpanAdded(M, b),
         FrameEnd(M) = b, Len(code') \in Nat, Len(code) <= Len(code'),
         1 <= b, b <= Len(code) + 1, frames[M].from <= b, \A l \in 1 .. M - 1 : \A a : Pending(l, a) => a <= b
  PROVE  /\ \A m \in 1 .. Len(frames') : FramePlaced(m)'
         /\ \A a : SomePending(a)' => a = b \/ \E m \in 1 .. M : Pending(m, a)
<1> DEFINE n == Len(code)
           N == Len(frames)
<1>1. n \in Nat /\ N \in Nat /\ M \in Nat /\ frames[M].spans \in Spans
  BY TreeTypes
<1>2. /\ Len(frames') = M
      /\ \A l \in 1 .. M - 1 : frames'[l] = frames[l]
      /\ frames'[M].from = frames[M].from
      /\ frames'[M].spans = Append(frames[M].spans, << b, Len(code') >>)
  BY DEF SpanAdded
<1> HIDE DEF n, N
<1>3. /\ Joined(frames[M].spans, b)
      /\ \A a : Pending(M, a) => a \in Nat /\ frames[M].from <= a /\ 1 <= a /\ a <= n + 1
  BY FramePlacedFacts DEF n
<1>4. /\ Joined(frames'[M].spans, Len(code') + 1)
      /\ \A a : Starts(frames'[M].spans, a) => Starts(frames[M].spans, a) \/ a = b
  <2>1. b <= Len(code') + 1 /\ b \in Int /\ Len(code') \in Int
    BY <1>1 DEF n
  <2>2. \A t : t = Append(frames[M].spans, << b, Len(code') >>) =>
          /\ Joined(t, Len(code') + 1)
          /\ \A a : Starts(t, a) => Starts(frames[M].spans, a) \/ a = b
    <3>1. frames[M].spans \in Spans /\ Joined(frames[M].spans, b)
      BY <1>1, <1>3
    <3>2. b \in Int /\ Len(code') \in Int /\ 1 <= b /\ b <= Len(code') + 1
      BY <2>1
    <3> QED BY <3>1, <3>2, JoinedAdded
  <2> QED BY <1>2, <2>2
<1>5. \A a : Pending(M, a)' => Pending(M, a) \/ a = b
  BY <1>2, <1>4 DEF Pending
<1>6. \A l \in 1 .. M - 1 : \A a : Pending(l, a)' <=> Pending(l, a)
  BY <1>2 DEF Pending
<1>7. \A m \in 1 .. M : m \in 1 .. M - 1 \/ m = M
  BY <1>1
<1>8. ASSUME NEW m \in 1 .. M - 1
      PROVE  FramePlaced(m)'
  <2>1. m \in 1 .. Len(frames) /\ m # M /\ m + 1 \in 1 .. M
    BY <1>1
  <2>2. /\ Joined(frames[m].spans, FrameEnd(m))
        /\ \A a : Pending(m, a) => /\ a \in Nat /\ frames[m].from <= a /\ 1 <= a /\ a <= n + 1
                                   /\ \A l \in m + 1 .. Len(frames) : a <= frames[l].from
    BY <2>1, FramePlacedFacts DEF n
  <2>3. frames'[m] = frames[m] /\ \A l \in 1 .. M : frames'[l].from = frames[l].from
    BY <1>2, <1>7
  <2>4. m # Len(frames) /\ m # Len(frames')
    BY <1>1, <1>2, <2>1
  <2>5. FrameEnd(m)' = FrameEnd(m)
    BY <2>1, <2>3, <2>4 DEF FrameEnd
  <2>6. Joined(frames[m].spans, FrameEnd(m))'
    BY <2>2, <2>3, <2>5 DEF Joined
  <2>7. \A l \in m + 1 .. M : l \in m + 1 .. Len(frames) /\ l \in 1 .. M
    BY <1>1
  <2>8. \A a : Pending(m, a)' => /\ a \in Nat /\ frames'[m].from <= a /\ 1 <= a /\ a <= Len(code') + 1
                                 /\ \A l \in m + 1 .. Len(frames') : a <= frames'[l].from
    <3> SUFFICES ASSUME NEW a, Pending(m, a)'
                 PROVE  /\ a \in Nat /\ frames'[m].from <= a /\ 1 <= a /\ a <= Len(code') + 1
                        /\ \A l \in m + 1 .. Len(frames') : a <= frames'[l].from
      OBVIOUS
    <3>1. Pending(m, a)
      BY <1>6
    <3>2. a \in Nat /\ frames[m].from <= a /\ 1 <= a /\ a <= n + 1
      BY <2>2, <3>1, Zenon
    <3>3. \A l \in m + 1 .. Len(frames) : a <= frames[l].from
      BY <2>2, <3>1, Zenon
    <3>4. a <= Len(code') + 1
      BY <1>1, <3>2 DEF n
    <3>5. \A l \in m + 1 .. M : a <= frames'[l].from
      BY <2>3, <2>7, <3>3, Zenon
    <3> QED BY <1>2, <2>3, <3>2, <3>4, <3>5, Zenon
  <2> QED BY <2>6, <2>8 DEF FramePlaced
<1>9. \A m : m = M => FramePlaced(m)'
  <2>1. FrameEnd(M)' = Len(code') + 1
    BY <1>2 DEF FrameEnd
  <2>2. Joined(frames[M].spans, FrameEnd(M))'
    BY <1>4, <2>1 DEF Joined
  <2>3. \A a : Pending(M, a)' => a \in Nat /\ frames'[M].from <= a /\ 1 <= a /\ a <= Len(code') + 1
    BY <1>1, <1>2, <1>3, <1>5 DEF n
  <2>4. \A l \in M + 1 .. Len(frames') : FALSE
    BY <1>1, <1>2
  <2> QED BY <2>2, <2>3, <2>4 DEF FramePlaced
<1>10. \A a : SomePending(a)' => a = b \/ \E m \in 1 .. M : Pending(m, a)
  BY <1>2, <1>5, <1>6, <1>7 DEF SomePending
<1>11. ASSUME NEW m \in 1 .. Len(frames')
       PROVE  FramePlaced(m)'
  BY <1>2, <1>7, <1>8, <1>9
<1> QED BY <1>10, <1>11

(* A call of emit_node starts with no spans, at the end of the code. *)
LEMMA CallPlaced ==
  ASSUME EmitInv, TreeInv, CallOpened, Len(code') \in Nat, Len(code) <= Len(code')
  PROVE  /\ \A m \in 1 .. Len(frames') : FramePlaced(m)'
         /\ \A a : SomePending(a)' => a = Len(code) + 1 \/ SomePending(a)
<1> DEFINE n == Len(code)
           N == Len(frames)
<1>1. n \in Nat /\ N \in Nat
  BY TreeTypes
<1>2. /\ Len(frames') = N + 1
      /\ \A l \in 1 .. N : frames'[l] = frames[l]
      /\ frames'[N + 1].from = n + 1 /\ frames'[N + 1].spans = << >>
  BY DEF CallOpened
<1> HIDE DEF n, N
<1> PICK M : M = N + 1
  OBVIOUS
<1>0. frames'[M].from = n + 1 /\ frames'[M].spans = << >> /\ Len(frames') = M
  BY <1>2
<1>3. \A m \in 1 .. M : m \in 1 .. N \/ m = M
  BY <1>1
<1>10. \A a : ~Starts(<< >>, a)
  BY DEF Starts
<1>4. \A a : Pending(M, a)' => a = n + 1
  <2>1. \A a : ~Starts(frames[M].spans, a)'
    <3>1. Len(frames'[M].spans) = 0
      BY <1>0
    <3> QED BY <3>1 DEF Starts
  <2> QED BY <1>0, <2>1 DEF Pending
<1>5. \A m \in 1 .. N : \A a : Pending(m, a)' <=> Pending(m, a)
  BY <1>2 DEF Pending
<1>6. ASSUME NEW m \in 1 .. N
      PROVE  FramePlaced(m)'
  <2>1. /\ Joined(frames[m].spans, FrameEnd(m))
        /\ \A a : Pending(m, a) => /\ a \in Nat /\ frames[m].from <= a /\ 1 <= a /\ a <= n + 1
                                   /\ \A l \in m + 1 .. N : a <= frames[l].from
    BY FramePlacedFacts DEF n, N
  <2>2. FrameEnd(m)' = FrameEnd(m)
    <3>1. m # Len(frames')
      BY <1>1, <1>2
    <3>2. CASE m = N
      BY <1>0, <3>1, <3>2 DEF FrameEnd, N, n
    <3>3. CASE m # N
      <4>1. m + 1 \in 1 .. N
        BY <1>1, <3>3
      <4> QED BY <1>2, <3>1, <3>3, <4>1 DEF FrameEnd, N
    <3> QED BY <3>2, <3>3
  <2>3. Joined(frames[m].spans, FrameEnd(m))'
    BY <1>2, <2>1, <2>2 DEF Joined
  <2>4. \A l \in m + 1 .. N + 1 : l \in m + 1 .. N \/ l = N + 1
    BY <1>1
  <2>5. \A l \in m + 1 .. N : frames'[l] = frames[l]
    BY <1>1, <1>2
  <2>6. \A a : Pending(m, a) => /\ a \in Nat /\ frames'[m].from <= a /\ 1 <= a /\ a <= Len(code') + 1
    BY <1>1, <1>2, <2>1 DEF n
  <2>7. \A a : Pending(m, a) => \A l \in m + 1 .. N + 1 : a <= frames'[l].from
    BY <1>2, <2>1, <2>4, <2>5
  <2> QED BY <1>2, <1>5, <2>3, <2>6, <2>7 DEF FramePlaced
<1>7. FramePlaced(M)'
  <2>1. \A l \in M + 1 .. Len(frames') : FALSE
    BY <1>0, <1>1
  <2>2. Joined(frames[M].spans, FrameEnd(M))'
    <3>1. Len(frames'[M].spans) = 0
      BY <1>0
    <3> QED BY <3>1 DEF Joined
  <2>3. \A a : Pending(M, a)' => /\ a \in Nat /\ frames'[M].from <= a /\ 1 <= a /\ a <= Len(code') + 1
    BY <1>0, <1>1, <1>4 DEF n
  <2> QED BY <2>1, <2>2, <2>3 DEF FramePlaced
<1>8. \A a : SomePending(a)' => a = n + 1 \/ SomePending(a)
  <2>1. \A a, m : m \in 1 .. M /\ Pending(m, a)' => a = n + 1 \/ (m \in 1 .. N /\ Pending(m, a))
    BY <1>3, <1>4, <1>5
  <2> QED BY <1>0, <2>1 DEF SomePending, N
<1>9. ASSUME NEW m \in 1 .. Len(frames')
      PROVE  FramePlaced(m)'
  BY <1>0, <1>3, <1>6, <1>7
<1> QED BY <1>8, <1>9 DEF n

(* A code that grows, or does not, stays a sequence no shorter.            *)
LEMMA GrownLength ==
  ASSUME EmitInv, CodeSame \/ \E spans : Grown(spans)
  PROVE  Len(code') \in Nat /\ Len(code) <= Len(code')
<1>1. Len(code) \in Nat
  BY TreeTypes
<1>2. CASE CodeSame
  BY <1>1, <1>2 DEF CodeSame
<1>3. CASE \E spans : Grown(spans)
  BY <1>1, <1>3 DEF Grown
<1> QED BY <1>2, <1>3

(* An instruction without operands. *)
LEMMA NoSpans == \A e : Joined(<< >>, e) /\ \A a : ~Starts(<< >>, a)
<1>1. Len(<< >>) = 0
  OBVIOUS
<1> QED BY <1>1 DEF Joined, Starts

(* A literal or an identifier keeps the tree.                              *)
LEMMA LeafTree ==
  ASSUME EmitInv, TreeInv,
         \/ EmitLeaf("literal", "PUSH_LITERAL", Literal)
         \/ EmitLeaf("ident", "PUSH_IDENT", Ident)
  PROVE  TreeInv'
<1> DEFINE n == Len(code)
           M == Len(frames)
<1>1. frames # << >> /\ SpanAdded(M, n + 1) /\ Grown(<< >>)
  BY LeafShape
<1>2. n \in Nat /\ M \in Nat /\ Len(code') \in Nat /\ n <= Len(code')
  BY <1>1, TreeTypes, GrownLength
<1>3. M \in 1 .. M
  <2>1. M # 0
    BY <1>1 DEF EmitInv, FramesOK
  <2> QED BY <1>2, <2>1
<1>4. FrameEnd(M) = n + 1
  BY DEF FrameEnd
<1>5. frames[M].from <= n + 1 /\ \A l \in 1 .. M - 1 : \A a : Pending(l, a) => a <= n + 1
  <2>1. \A l \in 1 .. M - 1 : l \in 1 .. M
    BY <1>2
  <2> QED BY <1>3, <2>1, FramePlacedFacts
<1> PICK b : b = n + 1
  OBVIOUS
<1> HIDE DEF n, M
<1>6. /\ \A m \in 1 .. Len(frames') : FramePlaced(m)'
      /\ \A a : SomePending(a)' => a = b \/ \E m \in 1 .. M : Pending(m, a)
  <2>1. b \in Nat /\ 1 <= b /\ b <= Len(code) + 1 /\ frames[M].from <= b
    BY <1>2, <1>5 DEF n
  <2>2. M \in 1 .. Len(frames) /\ Len(code) <= Len(code') /\ Len(code') \in Nat
    BY <1>2, <1>3 DEF M, n
  <2>3. SpanAdded(M, b) /\ FrameEnd(M) = b /\ \A l \in 1 .. M - 1 : \A a : Pending(l, a) => a <= b
    BY <1>1, <1>4, <1>5
  <2> QED BY <2>1, <2>2, <2>3, SpanPlaced
<1>7. \A a : SomePending(a)' => a = Len(code) + 1 \/ SomePending(a)
  BY <1>6 DEF SomePending, M, n
<1>8. Len(frames') \in Nat
  BY <1>1, <1>2 DEF SpanAdded
<1>9. \A i \in 1 .. Len(code') : code'[i].op # "OPERAND" => InstructionPlaced(i)'
  <2>1. \E spans : /\ Grown(spans) /\ Joined(spans, Len(code) + 1)
                   /\ \A a : Starts(spans, a) => SomePending(a)
                   /\ \A a, f : SomePending(a)' /\ a <= Len(code) + 1 /\ Starts(spans, f) => a <= f
    BY <1>1, NoSpans
  <2> QED BY <1>7, <1>8, <2>1, CodePlaced
<1> QED BY <1>6, <1>9 DEF TreeInv

(* So does the beginning of a call of emit_node.                           *)
LEMMA EnterTree ==
  ASSUME EmitInv, TreeInv, EnterNode
  PROVE  TreeInv'
<1>1. CallOpened /\ (CodeSame \/ Grown(<< >>))
  BY EnterShape
<1>2. Len(code') \in Nat /\ Len(code) <= Len(code')
  BY <1>1, GrownLength
<1>3. /\ \A m \in 1 .. Len(frames') : FramePlaced(m)'
      /\ \A a : SomePending(a)' => a = Len(code) + 1 \/ SomePending(a)
  BY <1>1, <1>2, CallPlaced
<1>4. Len(frames') \in Nat
  BY <1>1, TreeTypes DEF CallOpened
<1>5. \/ CodeSame
      \/ \E spans : /\ Grown(spans) /\ Joined(spans, Len(code) + 1)
                    /\ \A a : Starts(spans, a) => SomePending(a)
                    /\ \A a, f : SomePending(a)' /\ a <= Len(code) + 1 /\ Starts(spans, f) => a <= f
  BY <1>1, NoSpans
<1>6. \A i \in 1 .. Len(code') : code'[i].op # "OPERAND" => InstructionPlaced(i)'
  BY <1>3, <1>4, <1>5, CodePlaced
<1> QED BY <1>3, <1>6 DEF TreeInv

(* And its end.                                                            *)
LEMMA LeaveTree ==
  ASSUME EmitInv, TreeInv, LeaveNode
  PROVE  TreeInv'
<1> DEFINE n == Len(code)
           N == Len(frames)
<1>1. /\ N - 1 \in Nat \ {0}
      /\ SpanAdded(N - 1, frames[N].from)
      /\ CodeSame \/ \E spans : Grown(spans) /\ ClosingSpans(spans)
  BY LeaveShape
<1>2. n \in Nat /\ N \in Nat /\ Len(code') \in Nat /\ n <= Len(code')
  BY <1>1, TreeTypes, GrownLength
<1> PICK M, b : M = N - 1 /\ b = frames[N].from
  OBVIOUS
<1>3. /\ M \in 1 .. N /\ N \in 1 .. N /\ M # N /\ M + 1 = N
      /\ \A l \in 1 .. M : l \in 1 .. N /\ N \in l + 1 .. N
  BY <1>1, <1>2
<1>4. /\ b \in Nat /\ 1 <= b /\ b <= n + 1
      /\ Joined(frames[N].spans, n + 1)
      /\ \A a : Pending(N, a) => b <= a
      /\ \A l \in 1 .. M : \A a : Pending(l, a) => a \in Nat /\ a <= b
  <2>1. FrameEnd(N) = n + 1
    BY DEF FrameEnd
  <2>2. /\ Joined(frames[N].spans, n + 1)
        /\ \A a : Pending(N, a) => frames[N].from <= a
        /\ frames[N].from \in Nat /\ 1 <= frames[N].from /\ frames[N].from <= n + 1
    BY <1>3, <2>1, FramePlacedFacts
  <2>3. \A l \in 1 .. M : \A a : Pending(l, a) => a \in Nat /\ a <= frames[N].from
    <3>1. \A l \in 1 .. N : \A a : Pending(l, a) => /\ a \in Nat
                                                 /\ \A k \in l + 1 .. N : a <= frames[k].from
      BY FramePlacedFacts
    <3> HIDE DEF N
    <3> QED BY <1>3, <3>1
  <2> QED BY <2>2, <2>3
<1>5. FrameEnd(M) = b
  BY <1>3 DEF FrameEnd
<1>6. SpanAdded(M, b) /\ Len(frames') = M
  BY <1>1 DEF SpanAdded
<1>7. frames[M].from <= b
  BY <1>3, <1>4 DEF Pending
<1>8. /\ \A m \in 1 .. Len(frames') : FramePlaced(m)'
      /\ \A a : SomePending(a)' => a = b \/ \E m \in 1 .. M : Pending(m, a)
  <2>1. b \in Nat /\ 1 <= b /\ b <= Len(code) + 1 /\ frames[M].from <= b
    BY <1>4, <1>7
  <2>2. M \in 1 .. Len(frames) /\ Len(code) <= Len(code') /\ Len(code') \in Nat
    BY <1>2, <1>3
  <2>3. SpanAdded(M, b) /\ FrameEnd(M) = b /\ \A l \in 1 .. M - 1 : \A a : Pending(l, a) => a <= b
    <3>1. \A l \in 1 .. M - 1 : l \in 1 .. M
      BY <1>1, <1>2
    <3> QED BY <1>4, <1>5, <1>6, <3>1
  <2> HIDE DEF n, N
  <2> QED BY <2>1, <2>2, <2>3, SpanPlaced
<1> HIDE DEF n
<1>9. \A a : SomePending(a)' => SomePending(a) /\ a <= b
  <2>1. Pending(N, b)
    BY DEF Pending
  <2>2. \A a : a = b \/ (\E m \in 1 .. M : Pending(m, a)) => \E m \in 1 .. N : Pending(m, a)
    <3> HIDE DEF N
    <3> QED BY <1>3, <2>1
  <2>3. \A a : a = b \/ (\E m \in 1 .. M : Pending(m, a)) => a <= b
    <3> HIDE DEF N
    <3> QED BY <1>4
  <2> QED BY <1>8, <2>2, <2>3 DEF SomePending
<1>10. ASSUME NEW spans, ClosingSpans(spans)
       PROVE  /\ Joined(spans, n + 1)
              /\ \A f : Starts(spans, f) => Pending(N, f)
  <2>1. CASE spans = frames[N].spans
    BY <1>4, <2>1 DEF Pending
  <2>2. CASE spans = << << b, n >> >>
    <3>1. Len(spans) = 1 /\ spans[1][1] = b /\ spans[1][2] = n
      BY <2>2
    <3>2. Joined(spans, n + 1)
      BY <1>2, <1>4, <3>1 DEF Joined
    <3>3. \A f : Starts(spans, f) => f = b
      BY <3>1 DEF Starts
    <3> QED BY <3>2, <3>3 DEF Pending
  <2> QED BY <1>10, <2>1, <2>2 DEF ClosingSpans, n
<1>11. \A i \in 1 .. Len(code') : code'[i].op # "OPERAND" => InstructionPlaced(i)'
  <2>1. \/ CodeSame
        \/ \E spans : /\ Grown(spans) /\ Joined(spans, Len(code) + 1)
                      /\ \A a : Starts(spans, a) => SomePending(a)
                      /\ \A a, f : SomePending(a)' /\ a <= Len(code) + 1 /\ Starts(spans, f) => a <= f
    <3> SUFFICES ASSUME NEW spans, Grown(spans), ClosingSpans(spans)
                 PROVE  /\ Joined(spans, n + 1)
                        /\ \A a : Starts(spans, a) => SomePending(a)
                        /\ \A a, f : SomePending(a)' /\ Starts(spans, f) => a <= f
      BY <1>1 DEF n
    <3>1. Joined(spans, n + 1) /\ \A f : Starts(spans, f) => Pending(N, f)
      BY <1>10
    <3>2. \A a : Starts(spans, a) => SomePending(a)
      BY <1>3, <3>1 DEF SomePending
    <3>3. \A a, f : SomePending(a)' /\ Starts(spans, f) => a <= b /\ b <= f /\ a \in Nat /\ f \in Nat
      <4>1. \A f : Pending(N, f) => f \in Nat /\ b <= f
        BY <1>3, <1>4, FramePlacedFacts
      <4>2. \A a : SomePending(a) => a \in Nat
        BY FramePlacedFacts DEF SomePending
      <4> QED BY <1>9, <3>1, <4>1, <4>2
    <3>4. \A a, f : SomePending(a)' /\ Starts(spans, f) => a <= f
      <4>1. \A a, f \in Nat : a <= b /\ b <= f => a <= f
        BY <1>4
      <4> QED BY <3>3, <4>1
    <3> QED BY <3>1, <3>2, <3>4
  <2>2. Len(frames') \in Nat
    BY <1>3, <1>6
  <2>3. \A a : SomePending(a)' => a = Len(code) + 1 \/ SomePending(a)
    BY <1>9
  <2> QED BY <2>1, <2>2, <2>3, CodePlaced
<1> QED BY <1>8, <1>11 DEF TreeInv

(* After the root there is no open call.                                   *)
LEMMA TrailerTree ==
  ASSUME EmitInv, TreeInv, EmitTrailer
  PROVE  TreeInv'
<1>1. frames' = << >> /\ Grown(<< >>)
  BY TrailerShape
<1>2. Len(frames') = 0
  BY <1>1
<1>3. \A a : ~SomePending(a)'
  BY <1>2 DEF SomePending
<1>4. \E spans : /\ Grown(spans) /\ Joined(spans, Len(code) + 1)
                 /\ \A a : Starts(spans, a) => SomePending(a)
                 /\ \A a, f : SomePending(a)' /\ a <= Len(code) + 1 /\ Starts(spans, f) => a <= f
  BY <1>1, NoSpans
<1>5. \A i \in 1 .. Len(code') : code'[i].op # "OPERAND" => InstructionPlaced(i)'
  <2>1. Len(frames') \in Nat
    BY <1>2
  <2>2. \A a : SomePending(a)' => a = Len(code) + 1 \/ SomePending(a)
    BY <1>3
  <2> QED BY <1>4, <2>1, <2>2, CodePlaced
<1>6. \A m \in 1 .. Len(frames') : FramePlaced(m)'
  BY <1>2
<1> QED BY <1>5, <1>6 DEF TreeInv

(* A step of the emitter keeps the tree.                                   *)
LEMMA TreeStep ==
  ASSUME EmitInv, TreeInv, EmitNext
  PROVE  TreeInv'
<1>1. CASE EmitLiteral \/ EmitIdent
  BY <1>1, LeafTree DEF EmitLiteral, EmitIdent
<1>2. CASE EnterNode
  BY <1>2, EnterTree
<1>3. CASE LeaveNode
  BY <1>3, LeaveTree
<1>4. CASE EmitTrailer
  BY <1>4, TrailerTree
<1> QED BY <1>1, <1>2, <1>3, <1>4 DEF EmitNext

(* The empty code and the call for the root.                               *)
LEMMA TreeStarts == EmitInit => TreeInv
<1> SUFFICES ASSUME EmitInit
             PROVE  TreeInv
  OBVIOUS
<1>1. /\ Len(code) = 0 /\ Len(frames) = 1
      /\ frames[1].from = 1 /\ frames[1].spans = << >>
  <2>1. PICK n \in 0 .. MaxNodes :
          frames = << [kind |-> "file", name |-> "", left |-> n, from |-> 1, spans |-> << >>] >>
    BY DEF EmitInit
  <2>2. code = << >>
    BY DEF EmitInit
  <2>3. \A f : frames = << f >> => Len(frames) = 1 /\ frames[1] = f
    OBVIOUS
  <2>4. PICK f : f = [kind |-> "file", name |-> "", left |-> n, from |-> 1, spans |-> << >>]
    OBVIOUS
  <2>5. Len(frames) = 1 /\ frames[1] = f
    BY <2>1, <2>3, <2>4, Zenon
  <2>6. f.from = 1 /\ f.spans = << >>
    BY <2>4
  <2> QED BY <2>2, <2>5, <2>6
<1>2. \A a : Pending(1, a) => a = 1
  BY <1>1, NoSpans DEF Pending
<1>3. FramePlaced(1)
  BY <1>1, <1>2, NoSpans DEF FramePlaced
<1>4. \A m \in 1 .. Len(frames) : FramePlaced(m)
  BY <1>1, <1>3
<1> QED BY <1>1, <1>4 DEF TreeInv

(* What stands behind the tree once it is emitted.                         *)
LEMMA TreeStays ==
  ASSUME TreeInv, UNCHANGED emitVars
  PROVE  TreeInv'
<1>1. /\ code' = code /\ source' = source /\ frames' = frames
  BY DEF emitVars
<1> QED BY <1>1 DEF TreeInv, FramePlaced, FrameEnd, InstructionPlaced, Joined, LaterAround, Around,
                   SomePending, Pending, Starts

(* The compiler keeps the tree until the run is over. *)
LEMMA TreeKept ==
  ASSUME VmInv, TreeInv, [Next]_vars
  PROVE  TreeInv'
<1>1. CASE Emitting
  <2>1. EmitInv /\ EmitNext
    BY <1>1 DEF Emitting, VmInv
  <2> QED BY <2>1, TreeStep
<1>2. CASE GiveUp \/ Write \/ Load \/ Executing \/ Stopped \/ UNCHANGED vars
  <2>1. UNCHANGED emitVars
    BY <1>2 DEF GiveUp, Write, Load, Executing, Stopped, vars
  <2> QED BY <2>1, TreeStays
<1> QED BY <1>1, <1>2 DEF Next

-----------------------------------------------------------------------------
(* What operands leave *)

(* What an operand's code leaves on the stack is the difference of the     *)
(* heights at its ends.                                                    *)
LEMMA SpanNet ==
  ASSUME NEW c \in Seq(Cell), NEW h, IsHeights(c, h), NEW a \in Nat, NEW b \in Int,
         1 <= a, a <= b + 1, b <= Len(c)
  PROVE  Net(SubSeq(c, a, b)) = h[b] - h[a - 1]
<1> DEFINE d == SubSeq(c, a, b)
           m == b - a + 1
<1>1. Len(c) \in Nat /\ m \in Nat /\ \A i \in a .. b : c[i] \in Cell
  OBVIOUS
<1>2. d \in Seq(Cell) /\ Len(d) = m /\ \A i \in 1 .. m : d[i] = c[a + i - 1]
  <2>1. /\ d \in Seq(Cell)
        /\ Len(d) = (IF a <= b THEN b - a + 1 ELSE 0)
        /\ \A i \in 1 .. b - a + 1 : d[i] = c[a + i - 1]
    BY <1>1, SubSeqProperties
  <2>2. m = IF a <= b THEN b - a + 1 ELSE 0
    BY <1>1
  <2> HIDE DEF d
  <2> QED BY <2>1, <2>2
<1> m = b - a + 1
  OBVIOUS
<1> HIDE DEF d, m
<1>3. PICK g : IsHeights(d, g) /\ Net(d) = g[Len(d)]
  BY <1>2, NetHeights
<1>4. /\ g[0] = 0 /\ \A i \in 1 .. m : g[i] = g[i - 1] + Height(d[i])
  BY <1>2, <1>3 DEF IsHeights
<1>5. /\ \A i \in 0 .. Len(c) : h[i] \in Int
      /\ \A i \in 1 .. Len(c) : h[i] = h[i - 1] + Height(c[i]) /\ Height(c[i]) \in Int
  <2>1. \A i \in 1 .. Len(c) : Height(c[i]) \in Int
    BY HeightIsInt
  <2> QED BY <2>1 DEF IsHeights
<1> DEFINE S == {i \in Nat : i <= m => g[i] = h[(a - 1) + i] - h[a - 1]}
<1>6. 0 \in S
  <2>1. a - 1 \in 0 .. Len(c) /\ (a - 1) + 0 = a - 1
    BY <1>1
  <2>2. h[a - 1] \in Int
    BY <1>5, <2>1
  <2> QED BY <1>4, <2>1, <2>2
<1>7. ASSUME NEW i \in Nat, i \in S
      PROVE  i + 1 \in S
  <2> SUFFICES ASSUME i + 1 <= m
               PROVE  g[i + 1] = h[(a - 1) + (i + 1)] - h[a - 1]
    OBVIOUS
  <2>1. i <= m /\ i + 1 \in 1 .. m /\ (i + 1) - 1 = i
    BY <1>1
  <2>2. g[i] = h[(a - 1) + i] - h[a - 1]
    BY <1>7, <2>1
  <2> HIDE DEF S
  <2>3. g[i + 1] = g[i] + Height(d[i + 1])
    BY <1>4, <2>1
  <2>4. /\ a + (i + 1) - 1 = a + i /\ (a - 1) + (i + 1) = a + i /\ (a - 1) + i = (a + i) - 1
        /\ a + i \in 1 .. Len(c) /\ (a + i) - 1 \in 0 .. Len(c) /\ a - 1 \in 0 .. Len(c)
    BY <1>1, <2>1
  <2>5. d[i + 1] = c[a + i]
    BY <1>2, <2>1, <2>4
  <2>6. h[a + i] = h[(a + i) - 1] + Height(c[a + i])
    BY <1>5, <2>4
  <2>7. h[(a + i) - 1] \in Int /\ h[a - 1] \in Int /\ Height(c[a + i]) \in Int
    BY <1>5, <2>4
  <2>8. \A x, y, z \in Int : (x - y) + z = (x + z) - y
    OBVIOUS
  <2>9. g[i] = h[(a + i) - 1] - h[a - 1]
    BY <2>2, <2>4, Zenon
  <2>10. g[i + 1] = g[i] + Height(c[a + i])
    BY <2>3, <2>5, Zenon
  <2>11. g[i + 1] = h[a + i] - h[a - 1]
    <3>1. g[i + 1] = (h[(a + i) - 1] - h[a - 1]) + Height(c[a + i])
      BY <2>9, <2>10, Zenon
    <3>2. (h[(a + i) - 1] - h[a - 1]) + Height(c[a + i])
            = (h[(a + i) - 1] + Height(c[a + i])) - h[a - 1]
      BY <2>7, <2>8, Zenon
    <3> QED BY <2>6, <3>1, <3>2, Zenon
  <2> QED BY <2>4, <2>11, Zenon
<1> HIDE DEF S
<1>8. \A i \in Nat : i \in S
  BY <1>6, <1>7, SetInduction
<1>9. g[m] = h[(a - 1) + m] - h[a - 1]
  BY <1>1, <1>8 DEF S
<1>10. (a - 1) + m = b
  BY <1>1
<1> QED BY <1>2, <1>3, <1>9, <1>10 DEF d

HeightsOf(c) == CHOOSE h : IsHeights(c, h)

(* Every code has its heights. *)
LEMMA HeightsOfCode ==
  ASSUME NEW c \in Seq(Cell)
  PROVE  IsHeights(c, HeightsOf(c))
<1>1. \E h : IsHeights(c, h)
  BY NetHeights
<1> QED BY <1>1 DEF HeightsOf

(* The cells of an operand that follows an opcode leave the height alone.  *)
LEMMA FlatStretch ==
  ASSUME NEW c, Len(c) \in Nat, NEW h, IsHeights(c, h), NEW i \in 0 .. Len(c), NEW j \in i .. Len(c),
         \A k \in i + 1 .. j : Height(c[k]) = 0
  PROVE  h[j] = h[i]
<1> DEFINE S == {m \in Nat : i + m <= j => h[i + m] = h[i]}
<1>1. \A k \in 0 .. Len(c) : h[k] \in Int
  BY DEF IsHeights
<1>2. 0 \in S
  OBVIOUS
<1>3. ASSUME NEW m \in Nat, m \in S
      PROVE  m + 1 \in S
  <2> SUFFICES ASSUME i + (m + 1) <= j
               PROVE  h[i + (m + 1)] = h[i]
    OBVIOUS
  <2>1. h[i + m] = h[i]
    BY <1>3
  <2> HIDE DEF S
  <2>2. /\ i + (m + 1) \in 1 .. Len(c) /\ i + (m + 1) \in i + 1 .. j
        /\ (i + (m + 1)) - 1 = i + m /\ i + m \in 0 .. Len(c)
    OBVIOUS
  <2>3. h[i + (m + 1)] = h[(i + (m + 1)) - 1] + Height(c[i + (m + 1)])
    BY <2>2 DEF IsHeights
  <2> QED BY <1>1, <2>1, <2>2, <2>3
<1> HIDE DEF S
<1>4. \A m \in Nat : m \in S
  BY <1>2, <1>3, SetInduction
<1>5. j - i \in Nat /\ i + (j - i) = j
  OBVIOUS
<1> QED BY <1>4, <1>5 DEF S

(* The heights at which an instruction's operands begin, when each leaves  *)
(* one value.                                                              *)
LEMMA OperandHeights ==
  ASSUME NEW spans \in Spans, NEW e \in Nat, NEW h, Joined(spans, e), Len(spans) > 0,
         \A i \in 0 .. e - 1 : h[i] \in Int,
         \A k \in 1 .. Len(spans) : h[spans[k][2]] = h[spans[k][1] - 1] + 1
  PROVE  \A k \in 1 .. Len(spans) : h[spans[k][1] - 1] = h[e - 1] - Len(spans) + (k - 1)
<1> DEFINE n == Len(spans)
<1>1. n \in Nat /\ n > 0 /\ \A k \in 1 .. n : spans[k][1] \in Int /\ spans[k][2] \in Int
  BY DEF Spans
<1> n = Len(spans)
  OBVIOUS
<1> HIDE DEF n
<1>2. \A k \in 1 .. n :
        /\ 1 <= spans[k][1] /\ spans[k][1] <= spans[k][2] + 1 /\ spans[k][2] + 1 <= e
        /\ spans[k][2] + 1 = IF k = n THEN e ELSE spans[k + 1][1]
  BY DEF Joined
<1>3. \A k \in 1 .. n : h[spans[k][1] - 1] \in Int
  <2>1. \A k \in 1 .. n : spans[k][1] - 1 \in 0 .. e - 1
    BY <1>1, <1>2
  <2> QED BY <2>1
<1>4. h[e - 1] \in Int
  <2>1. e - 1 \in 0 .. e - 1
    <3>1. 1 \in 1 .. n
      BY <1>1
    <3> QED BY <1>1, <1>2, <3>1
  <2> QED BY <2>1
<1> DEFINE S == {m \in Nat : m < n => h[spans[n - m][1] - 1] = h[e - 1] - m - 1}
<1>5. 0 \in S
  <2>1. n \in 1 .. n /\ n - 0 = n
    BY <1>1
  <2>2. spans[n][2] + 1 = e /\ spans[n][2] \in Int
    BY <1>1, <1>2, <2>1
  <2>3. spans[n][2] = e - 1
    BY <2>2
  <2>4. h[e - 1] = h[spans[n][1] - 1] + 1
    BY <2>1, <2>3
  <2>5. h[spans[n][1] - 1] \in Int
    BY <1>3, <2>1
  <2>6. h[spans[n][1] - 1] = h[e - 1] - 0 - 1
    BY <1>4, <2>4, <2>5
  <2> QED BY <2>1, <2>6
<1>6. ASSUME NEW m \in Nat, m \in S
      PROVE  m + 1 \in S
  <2> SUFFICES ASSUME m + 1 < n
               PROVE  h[spans[n - (m + 1)][1] - 1] = h[e - 1] - (m + 1) - 1
    OBVIOUS
  <2>1. h[spans[n - m][1] - 1] = h[e - 1] - m - 1
    BY <1>1, <1>6
  <2> HIDE DEF S
  <2> PICK k : k = n - (m + 1)
    OBVIOUS
  <2>2. k \in 1 .. n /\ k + 1 = n - m /\ k + 1 \in 1 .. n /\ k # n
    BY <1>1
  <2>3. spans[k][2] + 1 = spans[k + 1][1]
    BY <1>2, <2>2
  <2>4. spans[k][2] = spans[k + 1][1] - 1
    BY <1>1, <2>2, <2>3
  <2>5. h[spans[k + 1][1] - 1] = h[spans[k][1] - 1] + 1
    BY <2>2, <2>4
  <2>6. h[spans[k][1] - 1] \in Int
    BY <1>3, <2>2
  <2>7. h[spans[k + 1][1] - 1] = h[e - 1] - m - 1
    BY <2>1, <2>2
  <2>8. \A x, y, z \in Int : x = y + 1 /\ x = z - m - 1 => y = z - (m + 1) - 1
    OBVIOUS
  <2>9. h[spans[k + 1][1] - 1] \in Int
    BY <1>3, <2>2
  <2>10. h[spans[k][1] - 1] = h[e - 1] - (m + 1) - 1
    BY <1>4, <2>5, <2>6, <2>7, <2>8, <2>9, Zenon
  <2> QED BY <2>10, Zenon
<1> HIDE DEF S
<1>7. \A m \in Nat : m \in S
  BY <1>5, <1>6, SetInduction
<1>8. ASSUME NEW k \in 1 .. n
      PROVE  h[spans[k][1] - 1] = h[e - 1] - n + (k - 1)
  <2>1. n - k \in Nat /\ n - k < n /\ n - (n - k) = k
    BY <1>1
  <2>2. h[spans[k][1] - 1] = h[e - 1] - (n - k) - 1
    BY <1>7, <2>1 DEF S
  <2>3. \A x : x \in Int => x - (n - k) - 1 = x - n + (k - 1)
    BY <1>1
  <2> QED BY <1>4, <2>2, <2>3, Zenon
<1> QED BY <1>8 DEF n

-----------------------------------------------------------------------------
(* The stack *)

(* A value in the place of the topmost ones. *)
LEMMA DroppedElements ==
  ASSUME NEW s \in Seq(Int), NEW n \in 0 .. Len(s), NEW x \in Int
  PROVE  LET t == Append(Dropped(s, n), x)
         IN  /\ t \in Seq(Int) /\ Len(t) = (Len(s) - n) + 1
             /\ \A i \in 1 .. Len(s) - n : t[i] = s[i]
             /\ t[(Len(s) - n) + 1] = x
<1> DEFINE k == Len(s) - n
           d == Dropped(s, n)
<1>1. k \in Nat /\ k <= Len(s) /\ Len(s) \in Nat
  OBVIOUS
<1>2. d \in Seq(Int) /\ Len(d) = k
  BY DroppedFacts
<1>3. \A i \in 1 .. k : d[i] = s[i]
  <2>1. \A i \in 1 .. k : s[i] \in Int
    BY <1>1
  <2>2. \A i \in 1 .. k - 1 + 1 : SubSeq(s, 1, k)[i] = s[1 + i - 1]
    <3> HIDE DEF k
    <3> QED BY <1>1, <2>1, SubSeqProperties
  <2>3. d = SubSeq(s, 1, k)
    BY DEF Dropped
  <2>4. \A i \in 1 .. k : i \in 1 .. k - 1 + 1 /\ 1 + i - 1 = i
    BY <1>1
  <2> HIDE DEF d, k
  <2> QED BY <2>2, <2>3, <2>4
<1> HIDE DEF d, k
<1>4. /\ Append(d, x) \in Seq(Int) /\ Len(Append(d, x)) = k + 1
      /\ \A i \in 1 .. k : Append(d, x)[i] = d[i]
      /\ Append(d, x)[k + 1] = x
  BY <1>2, AppendFacts
<1> QED BY <1>3, <1>4 DEF d, k

(* The values pushed from cell a on are those above a height.              *)
Cut(pushed, a, height) ==
  /\ height \in 0 .. Len(pushed)
  /\ \A k \in 1 .. Len(pushed) : pushed[k] >= a <=> k > height

(* A value pushed in the place of some above the cut keeps it.             *)
LEMMA CutKept ==
  ASSUME NEW s \in Seq(Int), NEW n \in 0 .. Len(s), NEW x \in Int, NEW a \in Int, NEW height,
         Cut(s, a, height), a <= x, height <= Len(s) - n
  PROVE  Cut(Append(Dropped(s, n), x), a, height)
<1> DEFINE k == Len(s) - n
<1> PICK t : t = Append(Dropped(s, n), x)
  OBVIOUS
<1>1. /\ t \in Seq(Int) /\ Len(t) = k + 1
      /\ \A i \in 1 .. k : t[i] = s[i]
      /\ t[k + 1] = x
  BY DroppedElements
<1>2. k \in Nat /\ k <= Len(s) /\ Len(s) \in Nat /\ height <= k
  OBVIOUS
<1> HIDE DEF k
<1>3. height \in 0 .. Len(s) /\ \A i \in 1 .. Len(s) : s[i] >= a <=> i > height
  BY DEF Cut
<1>4. ASSUME NEW i \in 1 .. k + 1
      PROVE  t[i] >= a <=> i > height
  <2>1. CASE i = k + 1
    BY <1>1, <1>2, <1>3, <2>1
  <2>2. CASE i # k + 1
    <3>1. i \in 1 .. k /\ i \in 1 .. Len(s)
      BY <1>2, <2>2
    <3> QED BY <1>1, <1>3, <3>1
  <2> QED BY <2>1, <2>2
<1>5. height \in 0 .. k + 1
  BY <1>2, <1>3
<1> QED BY <1>1, <1>4, <1>5 DEF Cut

(* The cut at an earlier cell is not higher.                               *)
LEMMA CutsOrdered ==
  ASSUME NEW s \in Seq(Int), NEW a \in Int, NEW f \in Int, a <= f, NEW low, NEW high,
         Cut(s, a, low), Cut(s, f, high)
  PROVE  low <= high
<1>1. /\ Len(s) \in Nat /\ low \in 0 .. Len(s) /\ high \in 0 .. Len(s)
      /\ \A k \in 1 .. Len(s) : (s[k] >= a <=> k > low) /\ (s[k] >= f <=> k > high) /\ s[k] \in Int
  BY DEF Cut
<1>2. SUFFICES ASSUME high < low
               PROVE  FALSE
  BY <1>1
<1>3. low \in 1 .. Len(s) /\ low > high /\ ~(low > low)
  BY <1>1, <1>2
<1>4. s[low] >= f /\ ~(s[low] >= a) /\ s[low] \in Int
  BY <1>1, <1>3
<1> QED BY <1>4

(* What an instruction that does not end the run does to the stack.        *)
Took(n) ==
  /\ n \in 0 .. Len(stack) /\ n = Pops(Fetched, Text) /\ Height(Fetched) = 1 - n
  /\ origins' = Append(Dropped(origins, n), ip)

TookNothing == Pops(Fetched, Text) = 0 /\ Height(Fetched) = 0 /\ origins' = origins

(* An instruction that does not end the run takes what Pops says and adds *)
(* what Height says, and the cursor is behind it (morphl_vm_execute). *)
LEMMA GoingOn ==
  ASSUME CodeInv, RunInv, phase = "run", RunNext, exitCode' = Running
  PROVE  ip' = ip + Width(Fetched.op) /\ (TookNothing \/ \E n : Took(n))
<1>1. ~Fails
  BY DEF Fails, Exit, Failure, Running
<1>2. Len(stack) \in Nat /\ Fetched.arg \in Nat /\ Len(origins) = Len(stack)
  BY FetchedFacts DEF RunInv, RunTypeOK
<1>3. CASE PushNull \/ PushLiteral \/ PushIdent
  <2>1. /\ Fetched.op \in {"PUSH_NULL", "PUSH_LITERAL", "PUSH_IDENT"} /\ Advance
        /\ \E v : Replace(0, v)
    BY <1>3 DEF PushNull, PushLiteral, PushIdent, ExecPush, At
  <2>2. Pops(Fetched, Text) = 0 /\ Height(Fetched) = 1
    BY <2>1 DEF Pops, Height
  <2>3. Took(0)
    BY <1>2, <2>1, <2>2 DEF Took, Replace
  <2> QED BY <2>1, <2>3 DEF Advance
<1>4. CASE MakeGroup
  <2>1. /\ Fetched.op = "MAKE_GROUP" /\ Fetched.arg <= Len(stack) /\ Advance
        /\ Replace(Fetched.arg, GroupValue)
    BY <1>1, <1>4 DEF MakeGroup, At
  <2>2. Pops(Fetched, Text) = Fetched.arg /\ Height(Fetched) = 1 - Fetched.arg
    BY <2>1 DEF Pops, Height
  <2>3. Took(Fetched.arg)
    BY <1>2, <2>1, <2>2 DEF Took, Replace
  <2> QED BY <2>1, <2>3 DEF Advance
<1>5. CASE ExecSetSlot
  <2>1. /\ Fetched.op = "SET_SLOT" /\ Len(stack) > 0 /\ Advance /\ Replace(1, Top(1))
    BY <1>1, <1>5 DEF ExecSetSlot, At
  <2>2. Pops(Fetched, Text) = 1 /\ Height(Fetched) = 0
    BY <2>1 DEF Pops, Height
  <2>3. Took(1)
    BY <1>2, <2>1, <2>2 DEF Took, Replace
  <2> QED BY <2>1, <2>3 DEF Advance
<1>6. CASE ExecAdd \/ ExecSet
  <2>1. /\ Fetched.op = "OPERATOR" /\ Text \in {"$add", "$set"} /\ Len(stack) > 1 /\ Advance
        /\ \E v : Replace(2, v)
    BY <1>1, <1>6 DEF ExecAdd, ExecSet, At, CanAdd, CanSet
  <2>2. Pops(Fetched, Text) = 2 /\ Height(Fetched) = -1
    BY <2>1 DEF Pops, Height
  <2>3. Took(2)
    BY <1>2, <2>1, <2>2 DEF Took, Replace
  <2> QED BY <2>1, <2>3 DEF Advance
<1>7. CASE Call
  <2>1. Fetched.op = "CALL" /\ Advance /\ origins' = origins
    BY <1>7 DEF Call, At
  <2>2. Pops(Fetched, Text) = 0 /\ Height(Fetched) = 0
    BY <2>1 DEF Pops, Height
  <2> QED BY <2>1, <2>2 DEF Advance, TookNothing
<1>8. CASE ExecHalt \/ RetFromMain \/ RetFromCall
  <2>1. exitCode' # Running
    BY <1>1, <1>8 DEF ExecHalt, RetFromMain, RetFromCall, Exit, CanExit, IsStatus, IsNumber,
                      Running, NotANumber, Failure
  <2> QED BY <2>1
<1>9. ~(ExecUnsupported \/ ExecUnknown \/ OutOfMemory)
  BY <1>1 DEF ExecUnsupported, ExecUnknown, OutOfMemory
<1> QED BY <1>3, <1>4, <1>5, <1>6, <1>7, <1>8, <1>9 DEF RunNext

-----------------------------------------------------------------------------
(* The run of a well-formed tree *)

HeightAt(i) == HeightsOf(code)[i]
CutAt(a) == Cut(origins, a, HeightAt(a - 1))

(* The stack is as high as the code says, everything on it was pushed by   *)
(* code that was executed, and an operand that has begun still has what    *)
(* was pushed since, and that only, above the height at which it began.    *)
RunTree ==
  /\ phase \in {"emit", "write", "load"} => origins = << >>
  /\ phase = "run" /\ WellFormed =>
       /\ HeightAt(ip - 1) = Len(origins)
       /\ \A k \in 1 .. Len(origins) : origins[k] < ip
       /\ \A j \in ip .. Len(code) : code[j].op # "OPERAND" =>
            \A a : Starts(source[j].spans, a) /\ a <= ip => CutAt(a)

(* While the program runs, the text of an operator is the one it was       *)
(* emitted for.                                                            *)
LEMMA PopsTheSame ==
  ASSUME CodeInv, RunInv, phase = "run"
  PROVE  Pops(Fetched, Text) = Pops(code[ip], source[ip].text)
<1>1. /\ program.strings = strings /\ ip \in DOMAIN code /\ Fetched = code[ip]
  BY FetchedFacts
<1>2. CASE Fetched.op = "OPERATOR"
  <2>1. code[ip].op \in TextOp
    BY <1>1, <1>2 DEF TextOp
  <2>2. Text = source[ip].text
    BY <1>1, <2>1 DEF Text, CodeInv, InstructionsKeepMeaning
  <2> QED BY <1>1, <2>2
<1>3. CASE Fetched.op # "OPERATOR"
  BY <1>1, <1>3 DEF Pops
<1> QED BY <1>2, <1>3

(* The operands of the instruction that is about to take them.             *)
LEMMA TheOperands ==
  ASSUME VmInv, TreeInv, RunTree, phase = "run", WellFormed, Pops(Fetched, Text) > 0
  PROVE  LET spans == source[ip].spans
             n == Pops(Fetched, Text)
         IN  /\ n \in Nat /\ Len(spans) = n /\ Joined(spans, ip) /\ spans \in Spans
             /\ \A k \in 1 .. n : /\ spans[k][1] \in Nat
                                  /\ HeightAt(spans[k][1] - 1) = Len(origins) - n + (k - 1)
                                  /\ CutAt(spans[k][1])
<1> DEFINE spans == source[ip].spans
           n == Pops(Fetched, Text)
           h == HeightsOf(code)
<1>1. /\ CodeInv /\ RunInv /\ EmitInv
  BY DEF VmInv, EmitInv
<1>2. /\ ip \in DOMAIN code /\ Fetched = code[ip] /\ code \in Seq(Cell)
      /\ Fetched.op \in Opcode /\ Fetched.arg \in Nat
  BY <1>1, FetchedFacts
<1>3. ip \in 1 .. Len(code) /\ Len(code) \in Nat /\ ip \in Nat /\ Len(origins) \in Nat
  BY <1>1, <1>2 DEF RunInv, RunTypeOK
<1>4. code[ip].op # "OPERAND"
  BY <1>2, OpcodeFacts
<1>5. n = Pops(code[ip], source[ip].text)
  BY <1>1, PopsTheSame
<1>6. Fetched.op \in {"MAKE_GROUP", "SET_SLOT", "RET", "OPERATOR"} /\ n \in Nat
  <2>1. Pops(Fetched, Text) > 0 => Fetched.op \in {"MAKE_GROUP", "SET_SLOT", "RET", "OPERATOR"}
    BY DEF Pops
  <2>2. Pops(Fetched, Text) \in Nat
    BY <1>2 DEF Pops
  <2> QED BY <2>1, <2>2
<1>7. Len(spans) = n /\ \A s \in Range(spans) : LeavesOneValue(s)
  BY <1>2, <1>4, <1>5, <1>6 DEF WellFormed
<1>8. Joined(spans, ip) /\ spans \in Spans
  <2>1. InstructionPlaced(ip)
    BY <1>3, <1>4 DEF TreeInv
  <2> QED BY <1>1, <1>3, <2>1, TreeTypes DEF InstructionPlaced
<1> HIDE DEF spans, n
<1>9. \A k \in 1 .. n : spans[k][1] \in Int /\ spans[k][2] \in Int
  BY <1>7, <1>8 DEF Spans
<1>10. ASSUME NEW k \in 1 .. n
       PROVE  /\ 1 <= spans[k][1] /\ spans[k][1] <= spans[k][2] + 1 /\ spans[k][2] + 1 <= ip
              /\ spans[k][1] \in Nat
              /\ h[spans[k][2]] = h[spans[k][1] - 1] + 1
  <2>1. 1 <= spans[k][1] /\ spans[k][1] <= spans[k][2] + 1 /\ spans[k][2] + 1 <= ip
    BY <1>7, <1>8 DEF Joined
  <2>2. spans[k][1] \in Nat /\ spans[k][2] <= Len(code) /\ spans[k][2] \in 0 .. Len(code)
        /\ spans[k][1] - 1 \in 0 .. Len(code)
    <3>1. \A x, y \in Int : 1 <= x /\ x <= y + 1 /\ y + 1 <= ip =>
            x \in Nat /\ y <= Len(code) /\ y \in 0 .. Len(code) /\ x - 1 \in 0 .. Len(code)
      BY <1>3
    <3>2. spans[k][1] \in Int /\ spans[k][2] \in Int
      BY <1>9
    <3> QED BY <2>1, <3>1, <3>2, Zenon
  <2>3. LeavesOneValue(spans[k])
    <3>1. spans[k] \in Range(spans)
      <4>1. DOMAIN spans = 1 .. n
        BY <1>7, <1>8 DEF Spans
      <4> QED BY <4>1 DEF Range
    <3> QED BY <1>7, <3>1
  <2>4. Net(SubSeq(code, spans[k][1], spans[k][2])) = 1
    BY <2>3 DEF LeavesOneValue, Net
  <2>5. IsHeights(code, h)
    BY <1>2, HeightsOfCode
  <2> HIDE DEF h
  <2>6. Net(SubSeq(code, spans[k][1], spans[k][2])) = h[spans[k][2]] - h[spans[k][1] - 1]
    BY <1>2, <1>9, <2>1, <2>2, <2>5, SpanNet
  <2>7. h[spans[k][2]] \in Int /\ h[spans[k][1] - 1] \in Int
    BY <2>2, <2>5 DEF IsHeights
  <2>8. h[spans[k][2]] = h[spans[k][1] - 1] + 1
    <3>1. \A x, y \in Int : x - y = 1 => x = y + 1
      OBVIOUS
    <3>2. h[spans[k][2]] - h[spans[k][1] - 1] = 1
      BY <2>4, <2>6, Zenon
    <3> QED BY <2>7, <3>1, <3>2, Zenon
  <2> QED BY <2>1, <2>2, <2>8
<1>11. \A i \in 0 .. ip - 1 : h[i] \in Int
  <2>1. IsHeights(code, h)
    BY <1>2, HeightsOfCode
  <2>2. \A i \in 0 .. ip - 1 : i \in 0 .. Len(code)
    BY <1>3
  <2> HIDE DEF h
  <2> QED BY <2>1, <2>2 DEF IsHeights
<1>12. n > 0
  BY DEF n
<1>13. \A k \in 1 .. n : h[spans[k][1] - 1] = h[ip - 1] - n + (k - 1)
  <2>1. Len(spans) > 0 /\ \A k \in 1 .. Len(spans) : h[spans[k][2]] = h[spans[k][1] - 1] + 1
    BY <1>7, <1>10, <1>12
  <2>2. \A k \in 1 .. Len(spans) : h[spans[k][1] - 1] = h[ip - 1] - Len(spans) + (k - 1)
    <3> HIDE DEF h
    <3> QED BY <1>3, <1>8, <1>11, <2>1, OperandHeights
  <2> HIDE DEF h
  <2> QED BY <1>7, <2>2
<1>14. h[ip - 1] = Len(origins)
  BY DEF RunTree, HeightAt
<1>15. ASSUME NEW k \in 1 .. n
       PROVE  CutAt(spans[k][1])
  <2>1. Starts(spans, spans[k][1])
    BY <1>7 DEF Starts
  <2>2. spans[k][1] <= ip
    BY <1>3, <1>9, <1>10
  <2>3. ip \in ip .. Len(code)
    BY <1>3
  <2> QED BY <1>4, <2>1, <2>2, <2>3 DEF RunTree, spans
<1>16. \A k \in 1 .. n : HeightAt(spans[k][1] - 1) = Len(origins) - n + (k - 1)
  <2> HIDE DEF h
  <2>1. \A k \in 1 .. n : h[spans[k][1] - 1] = Len(origins) - n + (k - 1)
    BY <1>13, <1>14
  <2> QED BY <2>1 DEF HeightAt, h
<1> QED BY <1>6, <1>7, <1>8, <1>10, <1>15, <1>16 DEF spans, n

(* Every operand taken was pushed by the code of its own expression.       *)
LEMMA OwnOperands ==
  ASSUME VmInv, TreeInv, RunTree, phase = "run", WellFormed
  PROVE  TakesItsOperands
<1> DEFINE spans == source[ip].spans
           n == Pops(Fetched, Text)
           L == Len(origins)
<1>1. /\ RunTypeOK /\ CodeInv /\ RunInv
  BY DEF VmInv, EmitInv, RunInv
<1>2. /\ L \in Nat /\ Len(stack) = L /\ \A k \in 1 .. L : origins[k] \in Int
  BY <1>1 DEF RunTypeOK
<1>3. n \in Nat
  <2>1. Fetched.arg \in Nat
    BY <1>1, FetchedFacts
  <2> QED BY <2>1 DEF Pops
<1>4. CASE n = 0
  <2> HIDE DEF n
  <2>1. n <= Len(stack) /\ \A k \in 1 .. n : FALSE
    BY <1>2, <1>4
  <2> QED BY <2>1 DEF TakesItsOperands, n
<1>5. CASE n > 0
  <2>1. /\ Len(spans) = n /\ Joined(spans, ip) /\ spans \in Spans
        /\ \A k \in 1 .. n : /\ spans[k][1] \in Nat
                             /\ HeightAt(spans[k][1] - 1) = L - n + (k - 1)
                             /\ Cut(origins, spans[k][1], HeightAt(spans[k][1] - 1))
    BY <1>5, TheOperands DEF CutAt
  <2>2. \A k \in 1 .. L : origins[k] < ip
    BY DEF RunTree
  <2> HIDE DEF n, spans
  <2>3. \A k \in 1 .. n : /\ spans[k][2] + 1 = IF k = n THEN ip ELSE spans[k + 1][1]
                          /\ spans[k][1] \in Int /\ spans[k][2] \in Int
    BY <2>1 DEF Joined, Spans
  <2>4. ip \in Int
    BY <1>1 DEF RunTypeOK
  <2>5. \A k \in 1 .. n : /\ L - n + (k - 1) \in 0 .. L
                          /\ \A p \in 1 .. L : origins[p] >= spans[k][1] <=> p > L - n + (k - 1)
    BY <2>1 DEF Cut
  <2>6. n <= L
    <3>1. 1 \in 1 .. n
      BY <1>3, <1>5
    <3>2. L - n + (1 - 1) \in 0 .. L
      BY <2>5, <3>1
    <3> HIDE DEF L
    <3> QED BY <1>2, <1>3, <3>2
  <2> HIDE DEF L
  <2>7. ASSUME NEW k \in 1 .. n
        PROVE  origins[L - n + k] \in spans[k][1] .. spans[k][2]
    <3> PICK p : p = L - n + k
      OBVIOUS
    <3>1. p \in 1 .. L /\ p > L - n + (k - 1) /\ ~(p > L - n + ((k + 1) - 1))
      BY <1>2, <1>3, <2>6
    <3>2. origins[p] \in Int /\ origins[p] >= spans[k][1]
      BY <1>2, <2>5, <3>1
    <3>3. origins[p] < spans[k][2] + 1
      <4>1. CASE k = n
        BY <2>2, <2>3, <3>1, <4>1
      <4>2. CASE k # n
        <5>1. k + 1 \in 1 .. n
          BY <1>3, <4>2
        <5>2. ~(origins[p] >= spans[k + 1][1]) /\ spans[k + 1][1] \in Int
          BY <2>3, <2>5, <3>1, <5>1
        <5> QED BY <2>3, <3>2, <4>2, <5>2
      <4> QED BY <4>1, <4>2
    <3>4. origins[p] \in spans[k][1] .. spans[k][2]
      BY <2>3, <3>2, <3>3
    <3> QED BY <3>4, Zenon
  <2> QED BY <1>2, <2>6, <2>7 DEF TakesItsOperands, n, spans, L
<1> QED BY <1>3, <1>4, <1>5

-----------------------------------------------------------------------------
(* The steps of a run *)

(* Between an instruction and the next one there are only its operand cells. *)
LEMMA CellsBetween ==
  ASSUME VmInv, phase = "run", NEW j \in ip + 1 .. ip + Width(Fetched.op) - 1,
         Fetched.op # "NODE_META"
  PROVE  j <= Len(code) => code[j].op = "OPERAND"
<1>1. CodeInv /\ RunInv
  BY DEF VmInv, EmitInv
<1>2. ip \in DOMAIN code /\ Fetched = code[ip] /\ Fetched.op \in Opcode
  BY <1>1, FetchedFacts
<1>3. Whole(code, ip)
  BY <1>1, <1>2, OpcodeFacts DEF CodeInv, Layout
<1>4. EmittedWidth(code[ip].op) = Width(code[ip].op)
  BY <1>2 DEF EmittedWidth, Width
<1>5. \A k \in ip + 1 .. (ip + EmittedWidth(code[ip].op)) - 1 : code[k].op = "OPERAND"
  BY <1>3 DEF Whole
<1>6. ip \in Int /\ Width(Fetched.op) \in Int
  BY <1>1 DEF RunInv, RunTypeOK, Width
<1>7. j \in ip + 1 .. (ip + EmittedWidth(code[ip].op)) - 1
  BY <1>2, <1>4, <1>6
<1> QED BY <1>5, <1>7

LeavesNet == \A s : LeavesOneValue(s) <=> Net(SubSeq(code, s[1], s[2])) = 1

(* What an operand leaves, in terms of Net. *)
LEMMA LeavesByNet == LeavesNet
  BY DEF LeavesNet, LeavesOneValue, Net

(* A tree is well-formed by its code and its spans.                        *)
LEMMA WellFormedStays ==
  ASSUME code' = code, source' = source
  PROVE  WellFormed' <=> WellFormed
<1>1. \A s : LeavesOneValue(s) <=> Net(SubSeq(code, s[1], s[2])) = 1
  BY LeavesByNet DEF LeavesNet
<1>2. \A s : LeavesOneValue(s)' <=> Net(SubSeq(code', s[1], s[2])) = 1
  <2>1. LeavesNet'
    BY LeavesByNet, PTL
  <2> QED BY <2>1 DEF LeavesNet
<1>3. \A s : LeavesOneValue(s)' <=> LeavesOneValue(s)
  BY <1>1, <1>2
<1> QED BY <1>3 DEF WellFormed

(* The run goes on with the next instruction.                              *)
LEMMA RunGoesOn ==
  ASSUME VmInv, VmInv', TreeInv, RunTree, WellFormed, phase = "run", RunNext, exitCode' = Running,
         UNCHANGED emitVars
  PROVE  /\ HeightAt(ip - 1)' = Len(origins')
         /\ \A k \in 1 .. Len(origins') : origins'[k] < ip'
         /\ \A j \in ip' .. Len(code') : code'[j].op # "OPERAND" =>
              \A a : Starts(source'[j].spans, a) /\ a <= ip' => CutAt(a)'
<1> DEFINE h == HeightsOf(code)
           L == Len(origins)
           next == ip + Width(Fetched.op)
<1>1. /\ CodeInv /\ RunInv /\ EmitInv /\ RunTypeOK /\ RunTypeOK'
      /\ code' = code /\ source' = source
  BY DEF VmInv, EmitInv, RunInv, emitVars
<1>2. /\ ip \in DOMAIN code /\ Fetched = code[ip] /\ code \in Seq(Cell) /\ Fetched.op \in Opcode
  BY <1>1, FetchedFacts
<1>3. ip' = next /\ (TookNothing \/ \E n : Took(n))
  BY <1>1, GoingOn
<1>4. Width(Fetched.op) \in {1, 5} /\ Len(code) \in Nat /\ ip \in 1 .. Len(code) /\ ip \in Nat
  <2>1. Width(Fetched.op) \in {1, 5}
    BY DEF Width
  <2>2. ip \in Nat
    BY <1>1 DEF RunTypeOK
  <2>3. Len(code) \in Nat /\ DOMAIN code = 1 .. Len(code)
    BY <1>2
  <2> QED BY <1>2, <2>1, <2>2, <2>3
<1>5. /\ L \in Nat /\ Len(stack) = L /\ origins \in Seq(Int) /\ \A k \in 1 .. L : origins[k] \in Int
  BY <1>1 DEF RunTypeOK
<1>6. next \in Nat /\ next > ip /\ Fetched.op # "OPERAND"
  BY <1>2, <1>4, OpcodeFacts
<1>7. Fetched.op \notin {"HALT", "NODE_META"}
  <2>1. Kept
    BY <1>1, RunNextKeeps
  <2> QED BY <2>1 DEF Kept, Advanced
<1>8. IsHeights(code, h)
  BY <1>2, HeightsOfCode
<1> HIDE DEF h, L
<1>9. h[ip] = h[ip - 1] + Height(Fetched) /\ h[ip] \in Int
  BY <1>2, <1>4, <1>8 DEF IsHeights
<1>10. \A i \in ip .. next - 1 : i <= Len(code) => h[i] = h[ip]
  <2> SUFFICES ASSUME NEW i \in ip .. next - 1, i <= Len(code)
               PROVE  h[i] = h[ip]
    OBVIOUS
  <2>1. \A k \in ip + 1 .. i : Height(code[k]) = 0
    <3> SUFFICES ASSUME NEW k \in ip + 1 .. i
                 PROVE  Height(code[k]) = 0
      OBVIOUS
    <3>1. k \in ip + 1 .. ip + Width(Fetched.op) - 1 /\ k <= Len(code)
      BY <1>4
    <3>2. code[k].op = "OPERAND"
      BY <1>7, <3>1, CellsBetween
    <3> QED BY <3>2 DEF Height
  <2>2. ip \in 0 .. Len(code) /\ i \in ip .. Len(code)
    BY <1>4
  <2> QED BY <1>4, <1>8, <2>1, <2>2, FlatStretch
<1>11. next \in 1 .. Len(code)
  <2>1. ip + Width(code[ip].op) \in DOMAIN code
    BY <1>1, <1>2, <1>6, <1>7, FetchedFacts, NextInstruction
  <2> QED BY <1>2, <1>4, <2>1
<1> next = ip + Width(Fetched.op)
  OBVIOUS
<1> HIDE DEF next
<1>12. h[next - 1] = h[ip]
  <2>1. next - 1 \in ip .. next - 1 /\ next - 1 <= Len(code)
    BY <1>4, <1>6, <1>11
  <2> QED BY <1>10, <2>1
<1>13. h[ip - 1] = L
  BY DEF RunTree, HeightAt, h, L
<1>14. /\ Len(origins') \in Nat /\ h[ip] = Len(origins')
       /\ \A k \in 1 .. Len(origins') : origins'[k] \in Int /\ origins'[k] <= ip
  <2>1. \A k \in 1 .. L : origins[k] <= ip
    <3>1. \A k \in 1 .. L : origins[k] < ip
      BY DEF RunTree, L
    <3> QED BY <1>4, <1>5, <3>1
  <2>2. CASE TookNothing
    BY <1>5, <1>9, <1>13, <2>1, <2>2 DEF TookNothing, L
  <2>3. ASSUME NEW n, Took(n)
        PROVE  /\ Len(origins') \in Nat /\ h[ip] = Len(origins')
               /\ \A k \in 1 .. Len(origins') : origins'[k] \in Int /\ origins'[k] <= ip
    <3>1. n \in 0 .. L /\ Height(Fetched) = 1 - n /\ origins' = Append(Dropped(origins, n), ip)
      BY <1>5, <2>3 DEF Took
    <3>2. /\ Len(origins') = (L - n) + 1
          /\ \A i \in 1 .. L - n : origins'[i] = origins[i]
          /\ origins'[(L - n) + 1] = ip
      <4>1. origins \in Seq(Int) /\ n \in 0 .. Len(origins) /\ ip \in Int /\ L = Len(origins)
        BY <1>4, <1>5, <3>1 DEF L
      <4>2. LET t == Append(Dropped(origins, n), ip)
            IN  /\ t \in Seq(Int) /\ Len(t) = (Len(origins) - n) + 1
                /\ \A i \in 1 .. Len(origins) - n : t[i] = origins[i]
                /\ t[(Len(origins) - n) + 1] = ip
        BY <4>1, DroppedElements
      <4> QED BY <3>1, <4>1, <4>2, Zenon
    <3>3. h[ip] = Len(origins') /\ Len(origins') \in Nat
      <4>1. L + (1 - n) = (L - n) + 1 /\ (L - n) + 1 \in Nat
        BY <1>5, <3>1
      <4>2. h[ip] = L + (1 - n)
        BY <1>9, <1>13, <3>1, Zenon
      <4> QED BY <3>2, <4>1, <4>2, Zenon
    <3>4. \A k \in 1 .. (L - n) + 1 : (k \in 1 .. L - n /\ k \in 1 .. L) \/ k = (L - n) + 1
      BY <1>5, <3>1
    <3>5. \A k \in 1 .. (L - n) + 1 : origins'[k] \in Int /\ origins'[k] <= ip
      BY <1>4, <1>5, <2>1, <3>2, <3>4
    <3> QED BY <3>2, <3>3, <3>5
  <2> QED BY <1>3, <2>2, <2>3
<1>15. ASSUME NEW j \in next .. Len(code), code[j].op # "OPERAND",
              NEW a, Starts(source[j].spans, a), a <= next
       PROVE  Cut(origins', a, h[a - 1])
  <2>1. j \in ip .. Len(code) /\ j \in 1 .. Len(code) /\ j \in ip + 1 .. Len(code) /\ j \in Int
    BY <1>4, <1>6
  <2>2. a \in Int /\ 1 <= a
    <3>1. a \in Int
      BY <1>1, <1>15, <2>1, TreeTypes
    <3>2. Joined(source[j].spans, j)
      BY <1>15, <2>1 DEF TreeInv, InstructionPlaced
    <3> QED BY <1>15, <3>1, <3>2 DEF Joined, Starts
  <2>3. CASE a > ip
    <3>1. a - 1 \in ip .. next - 1 /\ a - 1 <= Len(code)
      BY <1>4, <1>6, <1>11, <1>15, <2>2, <2>3
    <3>2. h[a - 1] = Len(origins')
      BY <1>10, <1>14, <3>1
    <3>3. \A k \in 1 .. Len(origins') : ~(origins'[k] >= a) /\ ~(k > Len(origins'))
      BY <1>4, <1>14, <2>2, <2>3
    <3> QED BY <1>14, <3>2, <3>3 DEF Cut
  <2>4. CASE a <= ip
    <3>1. Cut(origins, a, h[a - 1])
      BY <1>15, <2>1, <2>4 DEF RunTree, CutAt, HeightAt, h
    <3>2. CASE TookNothing
      BY <3>1, <3>2 DEF TookNothing
    <3>3. ASSUME NEW n, Took(n)
          PROVE  Cut(origins', a, h[a - 1])
      <4>1. /\ n \in 0 .. L /\ n = Pops(Fetched, Text)
            /\ origins' = Append(Dropped(origins, n), ip)
        BY <1>5, <3>3 DEF Took
      <4>2. h[a - 1] \in 0 .. L
        BY <3>1 DEF Cut, L
      <4>3. h[a - 1] <= L - n
        <5>1. CASE n = 0
          BY <1>5, <4>2, <5>1
        <5>2. CASE n # 0
          <6> DEFINE f == source[ip].spans[1][1]
          <6>1. 1 \in 1 .. n /\ n > 0
            BY <1>5, <4>1, <5>2
          <6>2. /\ f \in Nat /\ HeightAt(f - 1) = L - n + (1 - 1) /\ CutAt(f)
                /\ Len(source[ip].spans) = n
            BY <4>1, <6>1, TheOperands DEF L
          <6>3. Starts(source[ip].spans, f)
            BY <6>1, <6>2 DEF Starts
          <6> HIDE DEF f
          <6>4. a <= f
            <7>1. LaterAround(ip)
              BY <1>2, <1>4, <1>6 DEF TreeInv, InstructionPlaced
            <7>2. Around(a, ip)
              BY <1>15, <2>1, <7>1 DEF LaterAround
            <7>3. f \in Int
              BY <6>2
            <7> QED BY <2>4, <6>3, <7>2, <7>3 DEF Around
          <6>5. Cut(origins, f, HeightAt(f - 1))
            BY <6>2 DEF CutAt
          <6>6. f \in Int
            BY <6>2
          <6>7. h[a - 1] <= HeightAt(f - 1)
            BY <1>5, <2>2, <3>1, <6>4, <6>5, <6>6, CutsOrdered
          <6>8. L - n + (1 - 1) = L - n
            BY <1>5, <4>1
          <6> QED BY <6>2, <6>7, <6>8
        <5> QED BY <5>1, <5>2
      <4>4. n \in 0 .. Len(origins) /\ h[a - 1] <= Len(origins) - n /\ ip \in Int
        BY <1>4, <4>1, <4>3 DEF L
      <4>5. Cut(Append(Dropped(origins, n), ip), a, h[a - 1])
        BY <1>5, <2>2, <2>4, <3>1, <4>4, CutKept
      <4> QED BY <4>1, <4>5
    <3> QED BY <1>3, <3>2, <3>3
  <2> QED BY <1>4, <2>2, <2>3, <2>4
<1>16. \A k \in 1 .. Len(origins') : origins'[k] < next
  BY <1>4, <1>6, <1>14
<1>17. \A i : HeightAt(i)' = h[i]
  BY <1>1 DEF HeightAt, h
<1>18. HeightAt(ip - 1)' = Len(origins')
  <2>1. HeightAt(ip - 1)' = HeightsOf(code')[ip' - 1]
    BY DEF HeightAt
  <2>2. HeightAt(ip - 1)' = h[next - 1]
    BY <1>1, <1>3, <2>1 DEF h
  <2> QED BY <1>12, <1>14, <2>2
<1>19. \A a : CutAt(a)' <=> Cut(origins', a, h[a - 1])
  BY <1>1 DEF CutAt, HeightAt, h
<1>20. \A j \in ip' .. Len(code') : code'[j].op # "OPERAND" =>
         \A a : Starts(source'[j].spans, a) /\ a <= ip' => CutAt(a)'
  BY <1>1, <1>3, <1>15, <1>19
<1> QED BY <1>3, <1>16, <1>18, <1>20

(* A program that was just loaded has an empty stack.                      *)
LEMMA RunBegins ==
  ASSUME VmInv, VmInv', TreeInv, RunTree, Load
  PROVE  RunTree'
<1>1. /\ RunTypeOK /\ EmitInv /\ CodeInv /\ ip = 1 /\ phase = "load" /\ origins = << >>
  BY DEF VmInv, EmitInv, RunInv, RunTree, Load
<1>2. /\ code' = code /\ source' = source /\ origins' = origins /\ ip' = 1
      /\ phase' \in {"run", "done"}
  BY <1>1 DEF Load, emitVars
<1>3. Len(origins') = 0
  BY <1>1, <1>2
<1>4. code \in Seq(Cell) /\ IsHeights(code, HeightsOf(code))
  BY <1>1, HeightsOfCode DEF CodeInv, CodeTypeOK
<1>5. \A i : i = 0 => HeightAt(i)' = 0
  BY <1>2, <1>4 DEF HeightAt, IsHeights
<1>6. ASSUME NEW j \in 1 .. Len(code), code[j].op # "OPERAND", NEW a,
             Starts(source[j].spans, a), a <= 1
      PROVE  CutAt(a)'
  <2>1. a = 1
    <3>1. a \in Int
      BY <1>1, <1>6, TreeTypes
    <3>2. Joined(source[j].spans, j)
      BY <1>6 DEF TreeInv, InstructionPlaced
    <3> QED BY <1>6, <3>1, <3>2 DEF Joined, Starts
  <2>2. \A b : b = 1 => CutAt(b)'
    <3>1. \A b : b = 1 => HeightAt(b - 1)' = 0
      BY <1>5
    <3> QED BY <1>3, <3>1 DEF CutAt, Cut
  <2> QED BY <2>1, <2>2
<1>7. HeightAt(ip - 1)' = 0
  BY <1>2, <1>5 DEF HeightAt
<1>8. \A j \in ip' .. Len(code') : code'[j].op # "OPERAND" =>
        \A a : Starts(source'[j].spans, a) /\ a <= ip' => CutAt(a)'
  BY <1>2, <1>6
<1>9. phase' \notin {"emit", "write", "load"}
  BY <1>2
<1>10. \A k \in 1 .. Len(origins') : origins'[k] < ip'
  BY <1>3
<1> QED BY <1>3, <1>7, <1>8, <1>9, <1>10 DEF RunTree

(* The compiler keeps the invariant of the run. *)
LEMMA RunTreeKept ==
  ASSUME VmInv, VmInv', TreeInv, RunTree, [Next]_vars
  PROVE  RunTree'
<1>1. CASE Emitting \/ GiveUp \/ Write
  <2>1. UNCHANGED runVars /\ phase \in {"emit", "write"} /\ phase' # "run"
    BY <1>1 DEF Emitting, GiveUp, Write
  <2>2. origins' = << >>
    BY <2>1 DEF RunTree, runVars
  <2> QED BY <2>1, <2>2 DEF RunTree
<1>2. CASE Load
  BY <1>2, RunBegins
<1>3. CASE Executing
  <2>1. phase = "run" /\ RunNext /\ UNCHANGED emitVars /\ phase' \in {"run", "done"}
        /\ (phase' = "run" => exitCode' = Running)
    BY <1>3 DEF Executing
  <2>2. WellFormed' <=> WellFormed
    <3>1. code' = code /\ source' = source
      BY <2>1 DEF emitVars
    <3> QED BY <3>1, WellFormedStays
  <2>3. CASE phase' = "run" /\ WellFormed'
    <3>1. /\ HeightAt(ip - 1)' = Len(origins')
          /\ \A k \in 1 .. Len(origins') : origins'[k] < ip'
          /\ \A j \in ip' .. Len(code') : code'[j].op # "OPERAND" =>
               \A a : Starts(source'[j].spans, a) /\ a <= ip' => CutAt(a)'
      BY <2>1, <2>2, <2>3, RunGoesOn
    <3> QED BY <2>3, <3>1 DEF RunTree
  <2>4. CASE ~(phase' = "run" /\ WellFormed')
    BY <2>1, <2>4 DEF RunTree
  <2> QED BY <2>3, <2>4
<1>4. CASE Stopped \/ UNCHANGED vars
  <2>1. /\ UNCHANGED code /\ UNCHANGED source /\ UNCHANGED phase /\ UNCHANGED origins /\ UNCHANGED ip
    BY <1>4 DEF Stopped, vars, emitVars, runVars
  <2>2. (WellFormed' <=> WellFormed) /\ (\A a : CutAt(a)' <=> CutAt(a)) /\ HeightAt(ip - 1)' = HeightAt(ip - 1)
    BY <2>1, WellFormedStays DEF CutAt, HeightAt
  <2> QED BY <2>1, <2>2 DEF RunTree
<1> QED BY <1>1, <1>2, <1>3, <1>4 DEF Next

(* In a well-formed tree no instruction ever takes a value that belongs to  *)
(* another expression, although the statements before it left theirs on the *)
(* stack (vm.c emit_node, vm_runtime.c morphl_vm_execute).                  *)
THEOREM OperandsOwned == Spec => []OperandsBelong
<1> DEFINE I == VmInv /\ TreeInv /\ RunTree
<1>1. Init => I
  <2> SUFFICES ASSUME Init
               PROVE  I
    OBVIOUS
  <2>1. VmInv
    BY VmInvInit
  <2>2. TreeInv
    BY TreeStarts DEF Init
  <2>3. RunTree
    BY DEF Init, RunInit, RunTree
  <2> QED BY <2>1, <2>2, <2>3
<1>2. I /\ [Next]_vars => I'
  <2> SUFFICES ASSUME I, [Next]_vars
               PROVE  I'
    OBVIOUS
  <2>1. VmInv'
    BY VmInvNext
  <2>2. TreeInv'
    BY TreeKept
  <2>3. RunTree'
    BY <2>1, RunTreeKept
  <2> QED BY <2>1, <2>2, <2>3
<1>3. I => OperandsBelong
  BY OwnOperands DEF OperandsBelong
<1> QED BY <1>1, <1>2, <1>3, PTL DEF Spec

=============================================================================
