----------------------------- MODULE VmRuntime -----------------------------
(***************************************************************************)
(* The bytecode runtime (src/src/runtime/vm_runtime.c): the loader of a    *)
(* bytecode file and the interpreter loop.                                 *)
(*                                                                         *)
(* The text of a literal is only ever read by strtod, so a literal value   *)
(* keeps the number its text spells; a group's items are never read.       *)
(***************************************************************************)
EXTENDS VmBackend, Integers

CONSTANT NumberOf  \* strtod of a literal's text; NotANumber if it rejects it

NotANumber == -1

ASSUME NumberAssumption == NumberOf \in [Literal -> Nat \union {NotANumber}]

VARIABLES
  program,     \* MorphlVmProgram: the string table and the code loaded
  ip,          \* offset of the next cell, from 1
  stack,       \* value stack
  slots,       \* named slots, in the order they were created
  callFrames,  \* call frames, the main one first
  exitCode,    \* what morphl_vm_execute returned; Running before
  origins,     \* history: for each stack value, the cell that pushed it
  assigned     \* history: the value last assigned to each slot name

runVars == <<program, ip, stack, slots, callFrames, exitCode, origins, assigned>>

Running == -1
Failure == 1

---------------------------------------------------------------------------
(* Loading: every count is checked against what the file still holds.      *)

Loadable(units) ==
  /\ Len(units) >= 2
  /\ Len(units) >= 3 + units[2]
  /\ LET codeAt == 4 + units[2] + units[3 + units[2]]
     IN  Len(units) >= codeAt /\ Len(units) >= codeAt + units[codeAt]

Loaded(units) ==
  LET codeAt == 4 + units[2] + units[3 + units[2]]
  IN  [strings |-> SubSeq(units, 3, 2 + units[2]),
       code |-> SubSeq(units, codeAt + 1, codeAt + units[codeAt])]

---------------------------------------------------------------------------
(* Values and slots.                                                       *)

NullValue == [kind |-> "null", text |-> "", num |-> NotANumber]
LiteralValue(n) == [kind |-> "literal", text |-> "", num |-> n]
IdentValue(t) == [kind |-> "ident", text |-> t, num |-> NotANumber]
GroupValue == [kind |-> "group", text |-> "", num |-> NotANumber]

SlotOf(name) == {i \in DOMAIN slots : slots[i].name = name}

\* vm_resolve_value: one step through the slots, never further.
Resolve(v) ==
  IF v.kind = "ident" /\ SlotOf(v.text) # {}
  THEN slots[CHOOSE i \in SlotOf(v.text) : \A j \in SlotOf(v.text) : i <= j].value
  ELSE v

IsNumber(v) == v.kind = "literal" /\ v.num # NotANumber

\* Variant of SetSlot: every assignment opens a slot of its own.
SetSlotAppending(name, v) ==
  /\ slots' = Append(slots, [name |-> name, value |-> v])
  /\ assigned' = [n \in DOMAIN assigned \union {name} |->
                    IF n = name THEN v ELSE assigned[n]]

\* vm_set_slot
SetSlot(name, v) ==
  /\ slots' = IF SlotOf(name) # {}
              THEN [i \in DOMAIN slots |->
                      IF i \in SlotOf(name) THEN [slots[i] EXCEPT !.value = v]
                      ELSE slots[i]]
              ELSE Append(slots, [name |-> name, value |-> v])
  /\ assigned' = [n \in DOMAIN assigned \union {name} |->
                    IF n = name THEN v ELSE assigned[n]]

---------------------------------------------------------------------------
(* The interpreter loop.                                                   *)

Fetched == program.code[ip]
At(op) == exitCode = Running /\ ip <= Len(program.code) /\ Fetched.op = op
Text == program.strings[Fetched.arg]

\* Variant of Width: the operand of CALL is left in the way.
WidthOfBareCall(op) == IF op \in BareOp \union {"CALL"} THEN 1 ELSE 5

\* Bytes the loop consumes for an instruction before the next one.
Width(op) == IF op \in BareOp THEN 1 ELSE 5

Top(n) == stack[Len(stack) - n + 1]
Dropped(s, n) == SubSeq(s, 1, Len(s) - n)

Advance == ip' = ip + Width(Fetched.op) /\ UNCHANGED exitCode
Exit(status) == exitCode' = status /\ ip' = ip + Width(Fetched.op)

\* The topmost n values give way to v, pushed by this instruction.
Replace(n, v) ==
  /\ stack' = Append(Dropped(stack, n), v)
  /\ origins' = Append(Dropped(origins, n), ip)

\* A failing instruction ends the run with status 1; what it had popped by then
\* is never looked at again.
Fails ==
  /\ Exit(Failure)
  /\ UNCHANGED <<stack, slots, callFrames, origins, assigned>>

ExecHalt ==
  /\ At("HALT")
  /\ Exit(0)
  /\ UNCHANGED <<program, stack, slots, callFrames, origins, assigned>>

ExecPush(op, v) ==
  /\ At(op)
  /\ Replace(0, v)
  /\ Advance
  /\ UNCHANGED <<program, slots, callFrames, assigned>>

PushNull == ExecPush("PUSH_NULL", NullValue)
PushLiteral == ExecPush("PUSH_LITERAL", LiteralValue(NumberOf[Text]))
PushIdent == ExecPush("PUSH_IDENT", IdentValue(Text))

MakeGroup ==
  /\ At("MAKE_GROUP")
  /\ \/ /\ Fetched.arg <= Len(stack)
        /\ Replace(Fetched.arg, GroupValue)
        /\ Advance
        /\ UNCHANGED <<slots, callFrames, assigned>>
     \/ Fetched.arg > Len(stack) /\ Fails
  /\ UNCHANGED program

\* Variant of ExecSetSlot: SET_SLOT consumes the value.
ExecSetSlotPopping ==
  /\ At("SET_SLOT")
  /\ \/ /\ Len(stack) > 0
        /\ SetSlot(Text, Top(1))
        /\ stack' = Dropped(stack, 1)
        /\ origins' = Dropped(origins, 1)
        /\ Advance
        /\ UNCHANGED callFrames
     \/ Len(stack) = 0 /\ Fails
  /\ UNCHANGED program

\* SET_SLOT leaves the value on the stack.
ExecSetSlot ==
  /\ At("SET_SLOT")
  /\ \/ /\ Len(stack) > 0
        /\ SetSlot(Text, Top(1))
        /\ Replace(1, Top(1))
        /\ Advance
        /\ UNCHANGED callFrames
     \/ Len(stack) = 0 /\ Fails
  /\ UNCHANGED program

CanAdd == Len(stack) > 1 /\ IsNumber(Resolve(Top(2))) /\ IsNumber(Resolve(Top(1)))

ExecAdd ==
  /\ At("OPERATOR") /\ Text = "$add"
  /\ \/ /\ CanAdd
        /\ Replace(2, LiteralValue(Resolve(Top(2)).num + Resolve(Top(1)).num))
        /\ Advance
        /\ UNCHANGED <<slots, callFrames, assigned>>
     \/ ~CanAdd /\ Fails
  /\ UNCHANGED program

CanSet == Len(stack) > 1 /\ Top(2).kind = "ident"

ExecSet ==
  /\ At("OPERATOR") /\ Text = "$set"
  /\ \/ /\ CanSet
        /\ SetSlot(Top(2).text, Top(1))
        /\ Replace(2, Top(1))
        /\ Advance
        /\ UNCHANGED callFrames
     \/ ~CanSet /\ Fails
  /\ UNCHANGED program

ExecUnsupported ==
  /\ At("OPERATOR") /\ Text \notin {"$add", "$set"}
  /\ Fails
  /\ UNCHANGED program

\* vm_call: a frame and nothing else; there is no jump and no argument is moved.
\* The cursor is already past the operand when four is added to it again.
Call ==
  /\ At("CALL")
  /\ callFrames' = Append(callFrames, [base |-> Len(stack),
                                       returnIp |-> ip + Width("CALL") + 4])
  /\ Advance
  /\ UNCHANGED <<program, stack, slots, origins, assigned>>

\* Variant of IsStatus: the upper bound of an exit status is forgotten.
IsStatusUnbounded(v) == IsNumber(v)

\* RET in the main frame: the top value, not resolved, is the exit status. (No
\* text is below zero: a minus sign is a token of its own, and strtod rejects the
\* quotes of a string.)
IsStatus(v) == IsNumber(v) /\ 0 <= v.num /\ v.num <= 255

CanExit == Len(stack) > 0 /\ IsStatus(Top(1))

RetFromMain ==
  /\ At("RET") /\ Len(callFrames) = 1
  /\ \/ /\ CanExit
        /\ Exit(Top(1).num)
        /\ stack' = Dropped(stack, 1)
        /\ origins' = Dropped(origins, 1)
        /\ UNCHANGED <<slots, callFrames, assigned>>
     \/ ~CanExit /\ Fails
  /\ UNCHANGED program

\* RET in a called frame: vm_return trims the slots to the frame's stack base,
\* pops the frame and goes to its return address; the branch has no `continue`,
\* so the loop body falls through to "unknown opcode" and the run ends.
RetFromCall ==
  /\ At("RET") /\ Len(callFrames) > 1
  /\ \/ /\ Len(stack) > 0
        /\ slots' = [i \in 1..(IF Len(slots) < Last(callFrames).base
                               THEN Len(slots) ELSE Last(callFrames).base)
                       |-> slots[i]]
        /\ callFrames' = Front(callFrames)
        /\ ip' = Last(callFrames).returnIp
        /\ origins' = Append(Dropped(origins, 1), ip)
        /\ exitCode' = Failure
        /\ UNCHANGED <<stack, assigned>>
     \/ Len(stack) = 0 /\ Fails
  /\ UNCHANGED program

\* NODE_META is refused, and so is any byte that is no opcode.  The loop's last
\* exit, code that ends without HALT, is left out: AtInstruction shows that the
\* cursor never gets there, and a run that did would be a deadlock here.
ExecUnknown ==
  /\ exitCode = Running /\ ip <= Len(program.code)
  /\ Fetched.op \notin Opcode \ {"NODE_META"}
  /\ Fails
  /\ UNCHANGED program

\* Any instruction that copies a value or grows an array may find no memory.
OutOfMemory ==
  /\ exitCode = Running /\ ip <= Len(program.code)
  /\ Fetched.op \in Opcode \ {"HALT", "RET", "NODE_META"}
  /\ Fails
  /\ UNCHANGED program

RunInit ==
  /\ program = [strings |-> <<>>, code |-> <<>>]
  /\ ip = 1
  /\ stack = <<>>
  /\ slots = <<>>
  /\ callFrames = <<>>
  /\ exitCode = Running
  /\ origins = <<>>
  /\ assigned = <<>>

RunNext ==
  \/ ExecHalt \/ PushNull \/ PushLiteral \/ PushIdent \/ MakeGroup
  \/ ExecSetSlot \/ ExecAdd \/ ExecSet \/ ExecUnsupported
  \/ Call \/ RetFromMain \/ RetFromCall \/ ExecUnknown
  \/ OutOfMemory
=============================================================================
