-------------------------------- MODULE Vm --------------------------------
(***************************************************************************)
(* `morphlc --backend vm --run`: the emitter writes a bytecode file and    *)
(* the runtime loads and executes it (src/src/main.c).                     *)
(***************************************************************************)
EXTENDS VmRuntime

CONSTANT Lost  \* bound: how many units at the end of the file a write may lose

ASSUME LostAssumption == Lost \subseteq Nat \ {0}

VARIABLES
  phase,    \* what the compiler is doing
  file,     \* the bytecode file on disk, in units
  accepted  \* the compiler's own exit status is 0

vars == <<emitVars, runVars, phase, file, accepted>>

Init ==
  /\ EmitInit
  /\ RunInit
  /\ phase = "emit"
  /\ file = <<>>
  /\ accepted = FALSE

Emitting ==
  /\ phase = "emit"
  /\ EmitNext
  /\ phase' = IF frames' = <<>> THEN "write" ELSE "emit"
  /\ UNCHANGED <<runVars, file, accepted>>

\* An allocation fails somewhere in the walk, or the file cannot be opened.
GiveUp ==
  /\ phase \in {"emit", "write"}
  /\ phase' = "done"
  /\ UNCHANGED <<emitVars, runVars, file, accepted>>

\* fwrite and fclose put some prefix of the image on disk.  A short count from
\* fwrite is reported; a prefix that fclose left short is not, for its result is
\* ignored.
Write ==
  /\ phase = "write"
  /\ \E lost \in Lost \union {0}, reported \in BOOLEAN :
       /\ lost <= Len(FileImage)
       /\ lost = 0 => ~reported
       /\ file' = SubSeq(FileImage, 1, Len(FileImage) - lost)
       /\ phase' = IF reported THEN "done" ELSE "load"
  /\ UNCHANGED <<emitVars, runVars, accepted>>

\* Variant of Load: the rest of the file is the code, whatever its count says.
LoadRest ==
  /\ phase = "load"
  /\ LET codeAt == 4 + file[2] + file[3 + file[2]]
         counted == Len(file) >= 2 /\ Len(file) >= 3 + file[2] /\ Len(file) >= codeAt
     IN  \/ /\ counted
            /\ program' = [strings |-> SubSeq(file, 3, 2 + file[2]),
                           code |-> SubSeq(file, codeAt + 1, Len(file))]
            /\ callFrames' = <<[base |-> 0, returnIp |-> 0]>>
            /\ phase' = "run"
            /\ UNCHANGED exitCode
         \/ /\ ~counted
            /\ exitCode' = Failure
            /\ phase' = "done"
            /\ UNCHANGED <<program, callFrames>>
  /\ UNCHANGED <<emitVars, ip, stack, slots, origins, assigned, file, accepted>>

\* A file that was cut short is refused; any file may be, when it cannot be
\* opened or there is no memory for it.
Load ==
  /\ phase = "load"
  /\ \/ /\ Loadable(file)
        /\ program' = Loaded(file)
        /\ callFrames' = <<[base |-> 0, returnIp |-> 0]>>
        /\ phase' = "run"
        /\ UNCHANGED exitCode
     \/ /\ exitCode' = Failure
        /\ phase' = "done"
        /\ UNCHANGED <<program, callFrames>>
  /\ UNCHANGED <<emitVars, ip, stack, slots, origins, assigned, file, accepted>>

Executing ==
  /\ phase = "run"
  /\ RunNext
  /\ phase' = IF exitCode' = Running THEN "run" ELSE "done"
  /\ accepted' = (exitCode' = 0)
  /\ UNCHANGED <<emitVars, file>>

Stopped == phase = "done" /\ UNCHANGED vars

Next == Emitting \/ GiveUp \/ Write \/ Load \/ Executing \/ Stopped

Spec == Init /\ [][Next]_vars

---------------------------------------------------------------------------
(* Properties.                                                             *)

ValueSet == [kind : {"null", "literal", "ident", "group"},
             text : Literal \union Ident \union {""},
             num : Nat \union {NotANumber}]

\* Types: the history lines up with what it records, and the stack with the
\* cells that pushed its values.
TypeOK ==
  /\ phase \in {"emit", "write", "load", "run", "done"}
  /\ \A i \in DOMAIN code : code[i].op \in Opcode \union {"OPERAND"}
  /\ Len(source) = Len(code)
  /\ budget \in 0..MaxNodes
  /\ \A i \in DOMAIN stack : stack[i] \in ValueSet
  /\ Len(origins) = Len(stack)
  /\ \A i \in DOMAIN slots : slots[i].value \in ValueSet
  /\ exitCode \in {Running} \union 0..255
  /\ accepted = (phase = "done" /\ exitCode = 0)

\* A string index in the code still names the text it was emitted for, however
\* the table grew or deduplicated afterwards (vm.c string_table_add): the
\* metadata's own texts and an identifier spelled like an operator included.
InstructionsKeepMeaning ==
  \A i \in DOMAIN code :
    code[i].op \in TextOp => /\ code[i].arg \in DOMAIN strings
                             /\ strings[code[i].arg] = source[i].text

\* The runtime executes what was emitted or nothing: a file that was cut short
\* behind the compiler's back is refused by the loader's bounds checks
\* (vm_runtime.c morphl_vm_program_load; vm.c ignores fclose's result).
LoadedIsEmitted ==
  phase = "run" => program = [strings |-> strings, code |-> code]

\* The cursor never enters an operand or leaves the code while the program runs:
\* emitter and interpreter agree on the width of every instruction, so the
\* "program terminated without HALT" exit is never taken.
AtInstruction ==
  phase = "run" => /\ ip \in DOMAIN program.code
                   /\ Fetched.op # "OPERAND"

\* Values an instruction takes off the stack.
Pops(cell, text) ==
  CASE cell.op = "MAKE_GROUP" -> cell.arg
    [] cell.op \in {"SET_SLOT", "RET"} -> 1
    [] cell.op = "OPERATOR" /\ text \in {"$add", "$set"} -> 2
    [] OTHER -> 0

\* What an instruction adds to the height of the stack.
Height(cell) ==
  CASE cell.op \in {"PUSH_NULL", "PUSH_LITERAL", "PUSH_IDENT"} -> 1
    [] cell.op = "MAKE_GROUP" -> 1 - cell.arg
    [] cell.op \in {"OPERATOR", "RET"} -> -1
    [] OTHER -> 0

LeavesOneValue(span) ==
  FoldLeft(LAMBDA h, cell : h + Height(cell), 0, SubSeq(code, span[1], span[2])) = 1

\* A tree in which every operand leaves one value and every operator has the
\* operands it takes.
WellFormed ==
  \A i \in DOMAIN code :
    code[i].op # "OPERAND" =>
      /\ Pops(code[i], source[i].text) > 0 =>
           Len(source[i].spans) = Pops(code[i], source[i].text)
      /\ code[i].op \notin {"CALL", "NODE_META"} =>
           \A s \in Range(source[i].spans) : LeavesOneValue(s)

\* The values an instruction is about to take were pushed by the code of its own
\* operands, in their order.
TakesItsOperands ==
  LET n == Pops(Fetched, Text)
  IN  /\ n <= Len(stack)
      /\ \A k \in 1..n :
           LET span == source[ip].spans[k]
           IN  origins[Len(origins) - n + k] \in span[1]..span[2]

\* In a well-formed tree no instruction ever takes a value that belongs to
\* another expression, whatever statements before it left on the stack (the
\* runtime never drops a statement's value: vm.c emits no pop).
OperandsBelong ==
  phase = "run" /\ WellFormed /\ Fetched.op \in Opcode => TakesItsOperands

\* An identifier resolves to the value last assigned to it, by its $decl or by a
\* later $set that names it from the stack (vm_runtime.c vm_set_slot,
\* vm_resolve_value).
SlotHoldsLast ==
  phase = "run" =>
    \A name \in DOMAIN assigned : Resolve(IdentValue(name)) = assigned[name]

\* vm_runtime.c: "otherwise, return from current function": a RET in a called
\* frame hands control back to the caller.
RetResumesCaller ==
  [][phase = "run" /\ Fetched.op = "RET" /\ Len(callFrames) > 1 /\ Len(stack) > 0
       => phase' = "run"]_vars
=============================================================================
