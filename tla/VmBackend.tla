----------------------------- MODULE VmBackend -----------------------------
(***************************************************************************)
(* The bytecode emitter (src/src/backend/vm.c): a depth-first walk of the  *)
(* syntax tree that appends instructions to `code` and interns every text  *)
(* they name in a deduplicated string table.                               *)
(*                                                                         *)
(* The tree is chosen while it is walked: `frames` holds the nodes whose   *)
(* children are being emitted, `budget` bounds the nodes of the tree.  A   *)
(* string index counts from 1 here, from 0 in the code.                    *)
(***************************************************************************)
EXTENDS Naturals, Sequences, SequencesExt, Functions

CONSTANTS
  Literal,        \* texts of the literal tokens
  Ident,          \* texts of the identifier tokens
  OperatorName,   \* builtin operators lowered to OPERATOR, $set apart
  StatementKind,  \* node kinds that stand as a statement of a file or block
  OperandKind,    \* node kinds that stand as an operand
  Arity,          \* child counts the parser gives a kind (it enforces none)
  MaxNodes        \* bound: nodes emitted for one tree

InnerKind == {"group", "call", "decl", "set", "builtin", "comptime", "ret",
              "block", "meta"}
NodeKind == {"literal", "ident"} \union InnerKind

ASSUME KindAssumption ==
  /\ StatementKind \subseteq NodeKind
  /\ OperandKind \subseteq NodeKind
  /\ Arity \in [InnerKind -> SUBSET Nat]
  /\ 0 \notin Arity["ret"]  \* emit_node reads a $ret's first child unchecked
  /\ MaxNodes \in Nat

VARIABLES
  strings,  \* VmStringTable: texts in the order they were first needed
  code,     \* VmBytes: one cell per byte, the instruction in its first
  frames,   \* open calls of emit_node, innermost last
  budget,   \* nodes that may still be emitted
  source    \* history: for each cell, what its instruction stands for

emitVars == <<strings, code, frames, budget, source>>

---------------------------------------------------------------------------
(* Instructions.                                                           *)

TextOp == {"PUSH_LITERAL", "PUSH_IDENT", "SET_SLOT", "OPERATOR", "CALL",
           "NODE_META"}
CountOp == {"MAKE_GROUP"}
BareOp == {"HALT", "PUSH_NULL", "RET"}
Opcode == TextOp \union CountOp \union BareOp

Operand == [op |-> "OPERAND", arg |-> 0]  \* a byte of an instruction's operand

\* emit_opcode and emit_opcode_u32; NODE_META has three fields (1 + 4 + 4 bytes).
Cells(op, arg) ==
  LET operands == CASE op \in BareOp -> 0
                    [] op = "NODE_META" -> 9
                    [] OTHER -> 4
  IN  <<[op |-> op, arg |-> arg]>> \o [i \in 1..operands |-> Operand]

\* string_table_add: the table after the call, and the index it answers.
AddString(table, text) ==
  IF text \in Range(table) THEN table ELSE Append(table, text)

\* Variant of StringIndex: the answer for a text already there is the table's last index.
StringIndexOfLast(table, text) == Len(AddString(table, text))

StringIndex(table, text) ==
  LET after == AddString(table, text)
  IN  CHOOSE i \in DOMAIN after : after[i] = text

\* One instruction at the end of the code.  `spans` are the cells its operands
\* were emitted to, in order.
Emit(op, arg, text, spans) ==
  /\ code' = code \o Cells(op, arg)
  /\ source' = source \o [i \in 1..Len(Cells(op, arg)) |->
                            [text |-> text, spans |-> spans]]

EmitText(op, text, spans) ==
  /\ strings' = AddString(strings, text)
  /\ Emit(op, StringIndex(strings, text), text, spans)

EmitPlain(op, arg, spans) ==
  /\ Emit(op, arg, "", spans)
  /\ UNCHANGED strings

---------------------------------------------------------------------------
(* The walk.                                                               *)

Frame(kind, name, left) ==
  [kind |-> kind, name |-> name, left |-> left, from |-> Len(code) + 1,
   spans |-> <<>>]

\* The frames once the child that began at cell `from` is emitted: its parent
\* turns to the next one.
ChildDone(stack, from) ==
  IF stack = <<>> THEN stack
  ELSE LET top == Last(stack)
       IN  Append(Front(stack),
                  [top EXCEPT !.left = top.left - 1,
                              !.spans = Append(top.spans, <<from, Len(code')>>)])

AtChild == frames # <<>> /\ Last(frames).left > 0
AtEnd == frames # <<>> /\ Last(frames).left = 0

ChildKind == IF Last(frames).kind \in {"file", "block"} THEN StatementKind
             ELSE OperandKind

\* AST_LITERAL and AST_IDENT.
EmitLeaf(kind, op, Texts) ==
  /\ AtChild
  /\ kind \in ChildKind
  /\ \E text \in Texts : EmitText(op, text, <<>>)
  /\ frames' = ChildDone(frames, Len(code) + 1)
  /\ UNCHANGED budget

EmitLiteral == EmitLeaf("literal", "PUSH_LITERAL", Literal)
EmitIdent == EmitLeaf("ident", "PUSH_IDENT", Ident)

\* The text an inner node carries to its instruction.
NameOf(kind) ==
  CASE kind = "decl" -> Ident \union {"<anonymous>"}
    [] kind = "set" -> {"$set"}
    [] kind = "call" -> {"$call"}
    [] kind = "builtin" -> OperatorName
    [] OTHER -> {""}

\* Of a $decl only the second child is emitted, of a $ret the first.
Emitted(kind, children) ==
  CASE kind = "decl" -> IF children > 1 THEN 1 ELSE 0
    [] kind = "ret" -> 1
    [] OTHER -> children

\* Entering an inner node.  The missing value of a $decl is emitted as NULL; a
\* node kind that is not lowered announces itself before its children.
EnterNode ==
  /\ AtChild
  /\ \E kind \in ChildKind \intersect InnerKind :
       \E name \in NameOf(kind), children \in Arity[kind] :
         /\ Emitted(kind, children) <= budget
         /\ budget' = budget - Emitted(kind, children)
         /\ frames' = Append(frames, Frame(kind, name, Emitted(kind, children)))
         /\ \/ /\ kind = "meta"
               /\ EmitText("NODE_META", "<none>", <<>>)
            \/ /\ kind = "decl" /\ children < 2
               /\ EmitPlain("PUSH_NULL", 0, <<>>)
            \/ /\ kind # "meta" /\ ~(kind = "decl" /\ children < 2)
               /\ UNCHANGED <<strings, code, source>>

\* Leaving it: the instruction that consumes its operands, if it has one.
LeaveNode ==
  /\ AtEnd
  /\ Last(frames).kind # "file"
  /\ LET top == Last(frames)
     IN  /\ CASE top.kind = "group" ->
                   EmitPlain("MAKE_GROUP", Len(top.spans), top.spans)
              [] top.kind = "call" -> EmitText("CALL", top.name, top.spans)
              [] top.kind = "decl" ->
                   EmitText("SET_SLOT", top.name,
                            IF top.spans = <<>> THEN <<<<top.from, Len(code)>>>>
                            ELSE top.spans)
              [] top.kind \in {"set", "builtin"} ->
                   EmitText("OPERATOR", top.name, top.spans)
              [] top.kind = "ret" -> EmitPlain("RET", 0, top.spans)
              [] OTHER -> UNCHANGED <<strings, code, source>>
         /\ frames' = ChildDone(Front(frames), top.from)
  /\ UNCHANGED budget

\* emit_metadata: the keys and values it adds to the table, pair by pair.
AddPair(table, key, value) == AddString(AddString(table, key), value)

AddMetadata(table) ==
  LET backend == AddPair(table, "backend", "morphl-vm-bytecode")
      version == AddPair(backend, "format_version", "1.0")
  IN  AddPair(version, "operators", "runtime-verbatim")

\* After the root: HALT, then the metadata's texts.
EmitTrailer ==
  /\ AtEnd
  /\ Last(frames).kind = "file"
  /\ Emit("HALT", 0, "", <<>>)
  /\ strings' = AddMetadata(strings)
  /\ frames' = <<>>
  /\ UNCHANGED budget

EmitInit ==
  /\ strings = <<>>
  /\ code = <<>>
  /\ source = <<>>
  /\ \E n \in 0..MaxNodes :
       /\ budget = MaxNodes - n
       /\ frames = <<[kind |-> "file", name |-> "", left |-> n, from |-> 1,
                      spans |-> <<>>]>>

EmitNext == EmitLiteral \/ EmitIdent \/ EnterNode \/ LeaveNode \/ EmitTrailer

---------------------------------------------------------------------------
(* The file: morphl_backend_func_vm lays out header, string table, metadata *)
(* and code, each table after its count.  One unit stands for the bytes of  *)
(* a count, a text, a metadata pair or a code cell.                        *)

MetadataCount == 3

FileImage ==
  <<"MVMB", Len(strings)>> \o strings
    \o <<MetadataCount>> \o [i \in 1..MetadataCount |-> "pair"]
    \o <<Len(code)>> \o code
=============================================================================
