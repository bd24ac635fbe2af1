----------------------------- MODULE Inference -----------------------------
(***************************************************************************)
(* morphl_infer_type_of_ast (src/src/typing/inference.c): the recursive    *)
(* walk that types a program while it opens and closes the scopes of       *)
(* TypeContext.  The program is not given: each step of the walk chooses   *)
(* the next node, so a behaviour is one program and its typing, and the    *)
(* C call stack is the sequence `calls`.                                   *)
(*                                                                         *)
(* Expressions that only read the context (literals, identifiers, calls)   *)
(* are leaves and are typed in one step; nodes that change the context     *)
(* while a child is being typed have a frame on `calls`.                   *)
(***************************************************************************)
EXTENDS TypeContext

CONSTANTS
  Leaf,       \* the leaf expressions of the programs, a subset of AnyLeaf
  Construct,  \* the other constructs of the programs, a subset of AnyConstruct
  MaxNodes    \* bound on the number of constructs of a program

AnyLeaf ==
  [op : {"int", "string", "mutint"}, name : {NoName}] \cup [op : {"ident", "call"}, name : Name]

AnyConstruct ==
  {"decl", "declfunc", "forward", "block", "curried", "paramdecl", "paramfunc",
   "ret", "set", "overload", "import", "parseimport", "file", "global", "this"}

ASSUME LeafAssumption == Leaf \subseteq AnyLeaf
ASSUME ConstructAssumption == Construct \subseteq AnyConstruct
ASSUME MaxNodesAssumption == MaxNodes \in Nat

VARIABLES
  calls,      \* activations of morphl_infer_type_of_ast, innermost last
  mode,       \* "idle" between walks, "eval" a node, "return" a value
  value,      \* the value returned: a type (Null on failure) and, for a
              \* declaration, the name it declares
  silenced,   \* whether the global error sink swallows what it is given
  pass,       \* "parse" while the file is parsed, "typing", then "done"
  fuel,       \* nodes the program may still have
  loaded,     \* modules loaded while parsing and not yet met again
  returned,   \* history: the types returned so far by each open function
  bodies,     \* history: bodies accepted for each $forward stub
  reports     \* history: "missing body" reports for each stub

vars == << ctxVars, calls, mode, value, silenced, pass, fuel, loaded, returned, bodies, reports >>

walkHistory == << returned, bodies, reports >>

-----------------------------------------------------------------------------
(* Activations *)

(* The depths of the context's stacks when an activation starts. *)
Depths == [scopes : Nat \ {0}, this : Nat, funcs : Nat, files : Nat]

CurrentDepths ==
  [scopes |-> Len(scopes), this |-> Len(thisStack),
   funcs |-> Len(funcStack), files |-> Len(fileStack)]

(* self: the block's or the function's own type object, a declaration's    *)
(* placeholder, or the type of a candidate's first operand; param: the     *)
(* type of a function's parameter expression; sink: whether errors were    *)
(* silenced when the activation started; P the pointers there are.         *)
Call(P) ==
  {c \in [node : {"block", "func", "decl", "forward", "import", "overload"},
          stage : {"statements", "init", "param", "body", "module", "operand"},
          name : Name \cup {NoName}, self : P, param : P, entry : Depths, sink : BOOLEAN] :
     c.node \in {"decl", "forward"} => c.name \in Name}

NewCall(node, stage, name, self) ==
  [node |-> node, stage |-> stage, name |-> name, self |-> self,
   param |-> Null, entry |-> CurrentDepths, sink |-> silenced]

Top == Last(calls)

At(node, stage) ==
  /\ calls # << >>
  /\ Top.node = node
  /\ Top.stage = stage

(* Positions at which the walk visits a node. *)
AtStatement == mode = "eval" /\ At("block", "statements")
AtInit == mode = "eval" /\ At("decl", "init") /\ Top.self = Null
AtFuncInit == mode = "eval" /\ At("decl", "init") /\ Top.self # Null
AtStub == mode = "eval" /\ At("forward", "init")
AtParam == mode = "eval" /\ At("func", "param")
AtBody == mode = "eval" /\ At("func", "body")
AtModule == mode = "eval" /\ At("import", "module")
AtOperand == mode = "eval" /\ At("overload", "operand")
AtRoot == mode = "eval" /\ calls = << >>

Spend(construct) ==
  /\ construct \in Construct
  /\ fuel > 0
  /\ fuel' = fuel - 1

Return(t) == /\ mode' = "return"
             /\ value' = [type |-> t, name |-> NoName]

ReturnDeclared(t, n) == /\ mode' = "return"
                        /\ value' = [type |-> t, name |-> n]

Fail == Return(Null)

(* type_context_pop_scope reports every stub of the scope without a body.  *)
ReportOnPop ==
  reports' = [s \in DOMAIN reports |->
                IF s \in ReportedOnPop(Last(scopes)) THEN reports[s] + 1 ELSE reports[s]]

-----------------------------------------------------------------------------
(* Leaves *)

(* The type of a call of t, Null unless t is a function.  The argument is  *)
(* not checked against the parameter.                                      *)
CallType(t) ==
  LET f == Unwrap(t)
  IN  IF f # Null /\ KindOf(f) = "func" THEN ReturnOf(heap, f) ELSE Null

(* The type of a leaf, Null when inference reports an error.  (A module    *)
(* that could not be loaded leaves its path, a string literal, under the   *)
(* $import node.)                                                          *)
LeafType(l) ==
  CASE l.op = "int" -> IntType
    [] l.op = "string" -> StringType
    [] l.op = "mutint" -> MutIntType
    [] l.op = "ident" -> LookupVar(l.name)
    [] l.op = "call" -> CallType(LookupVar(l.name))

VisitLeaf(l) ==
  /\ \/ AtInit \/ AtStub \/ AtParam \/ AtBody \/ AtOperand
     \/ AtModule /\ l.op = "string"
  /\ Return(LeafType(l))
  /\ UNCHANGED << ctxVars, calls, pass, silenced, loaded, fuel, walkHistory >>

(* $this, $file or $global as a statement of its own. *)
VisitSpecial(op) ==
  /\ AtStatement
  /\ Spend(op)
  /\ Return(CASE op = "this" -> IF thisStack = << >> THEN Null ELSE Last(thisStack)
              [] op = "file" -> fileType
              [] op = "global" -> globalType)
  /\ UNCHANGED << ctxVars, calls, pass, silenced, loaded, walkHistory >>

(* The return type of the function being typed becomes known, both in the  *)
(* context and in the function object that recursive calls see.            *)
EstablishReturn(t) ==
  /\ heap' = IF funcStack = << >> THEN heap ELSE SetPart(heap, Last(funcStack), 2, t)
  /\ expectedRet' = t

(* Variant of RetAgrees: a later $ret is not compared with the first. *)
RetAgreesAlways(t) == TRUE

RetAgrees(t) == TypeEquals(heap, Unwrap(t), Unwrap(expectedRet))

(* $ret of a value of type t: the first known type establishes the return  *)
(* type; later ones must agree with it, and it is an error outside a       *)
(* function.                                                               *)
RetKnown(t) == t # Null /\ expectedRet # Null /\ KindOf(t) # "unknown"
RetFirst(t) == RetKnown(t) /\ KindOf(expectedRet) = "unknown"
RetAccepted(t) == RetFirst(t) \/ (RetKnown(t) /\ RetAgrees(t))
RetFails(t) == t = Null \/ expectedRet = Null \/ (RetKnown(t) /\ ~RetAccepted(t))

RecordReturn(t) ==
  /\ IF RetFirst(t) THEN EstablishReturn(t) ELSE UNCHANGED << heap, expectedRet >>
  /\ returned' = IF RetAccepted(t) /\ returned # << >>
                 THEN [returned EXCEPT ![Len(returned)] = @ \cup {t}]
                 ELSE returned
  /\ UNCHANGED << scopes, functions, thisStack, funcStack, fileType, globalType,
                  fileStack, globalStack, pendingFunc, bodies, reports >>

VisitRet(l) ==
  /\ AtStatement
  /\ Spend("ret")
  /\ LET t == LeafType(l)
     IN  /\ IF RetFails(t) THEN Fail ELSE Return(VoidType)
         /\ RecordReturn(t)
  /\ UNCHANGED << calls, pass, silenced, loaded >>

(* $set of a variable: a reference must be mutable and its target must     *)
(* have the value's type; any other target only needs the same type.       *)
VisitSet(n, l) ==
  /\ AtStatement
  /\ Spend("set")
  /\ LET t == LookupVar(n)
         v == LeafType(l)
     IN  IF \/ t = Null \/ v = Null
            \/ KindOf(t) = "ref" /\ ~heap[t].mut
            \/ KindOf(t) = "ref" /\ ~TypeEquals(heap, heap[t].parts[1], v)
            \/ KindOf(t) # "ref" /\ ~TypeEquals(heap, t, v)
         THEN Fail
         ELSE Return(v)
  /\ UNCHANGED << ctxVars, calls, pass, silenced, loaded, walkHistory >>

-----------------------------------------------------------------------------
(* Blocks and files *)

(* Open a scope and a block type that $this names until the block ends;    *)
(* the first block typed without a file also becomes $file and $global.    *)
OpenBlock ==
  /\ heap' = Append(heap, Obj("block", << >>))
  /\ scopes' = PushScope
  /\ thisStack' = Append(thisStack, NextType)
  /\ fileType' = IF fileType = Null THEN NextType ELSE fileType
  /\ globalType' = IF globalType = Null THEN NextType ELSE globalType
  /\ calls' = Append(calls, NewCall("block", "statements", NoName, NextType))
  /\ mode' = "eval"
  /\ UNCHANGED << functions, funcStack, fileStack, globalStack, expectedRet,
                  pendingFunc, value, walkHistory >>

VisitBlock ==
  /\ AtStatement \/ AtInit \/ AtBody \/ AtOperand
  /\ Spend("block")
  /\ OpenBlock
  /\ UNCHANGED << pass, silenced, loaded >>

VisitModule ==
  /\ AtModule
  /\ IF pass = "typing" /\ Len(fileStack) = 1
     THEN loaded > 0 /\ loaded' = loaded - 1
     ELSE UNCHANGED loaded
  /\ OpenBlock
  /\ UNCHANGED << pass, silenced, fuel >>

VisitFileRoot ==
  /\ AtRoot
  /\ OpenBlock
  /\ UNCHANGED << pass, silenced, loaded, fuel >>

LeaveBlock ==
  /\ thisStack' = Front(thisStack)
  /\ scopes' = PopScope
  /\ ReportOnPop
  /\ calls' = Front(calls)
  /\ UNCHANGED << heap, functions, funcStack, fileType, globalType, fileStack,
                  globalStack, expectedRet, pendingFunc, pass, silenced, loaded, fuel, returned, bodies >>

EndBlock ==
  /\ AtStatement
  /\ Return(Top.self)
  /\ LeaveBlock

StatementFails ==
  /\ mode = "return" /\ At("block", "statements")
  /\ value.type = Null
  /\ Fail
  /\ LeaveBlock

(* A declaration adds a field to the block's type, so $this grows as the   *)
(* block is typed.                                                         *)
StatementDone ==
  /\ mode = "return" /\ At("block", "statements")
  /\ value.type # Null
  /\ heap' = IF value.name = NoName THEN heap
             ELSE AddField(heap, Top.self, value.name, value.type)
  /\ mode' = "eval"
  /\ UNCHANGED << scopes, functions, thisStack, funcStack, fileType, globalType, fileStack,
                  globalStack, expectedRet, pendingFunc, calls, value, pass, silenced, loaded, fuel, walkHistory >>

-----------------------------------------------------------------------------
(* Functions *)

OpenFunc ==
  /\ scopes' = PushScope
  /\ calls' = Append(calls, NewCall("func", "param", NoName, Null))
  /\ UNCHANGED << heap, functions, thisStack, funcStack, fileType, globalType, fileStack,
                  globalStack, expectedRet, pendingFunc, mode, value, pass, silenced, loaded, walkHistory >>

VisitFuncInit ==
  /\ AtFuncInit \/ AtStub
  /\ OpenFunc
  /\ UNCHANGED fuel

VisitFunc ==
  /\ \/ AtParam /\ Spend("paramfunc")
     \/ (AtBody \/ AtOperand) /\ Spend("curried")
  /\ OpenFunc

(* Close the scope of the function being typed, and forget the expected    *)
(* return type.                                                            *)
LeaveFunc ==
  /\ funcStack' = Front(funcStack)
  /\ returned' = Front(returned)
  /\ scopes' = PopScope
  /\ ReportOnPop
  /\ expectedRet' = Null
  /\ calls' = Front(calls)
  /\ UNCHANGED << functions, thisStack, fileType, globalType, fileStack, globalStack,
                  pendingFunc, pass, silenced, loaded, fuel, bodies >>

(* Variant of ParamFails: the error path of a failed body, which also      *)
(* leaves a function that has not been entered.                            *)
ParamFailsLeavingFunc ==
  /\ mode = "return" /\ At("func", "param")
  /\ value.type = Null
  /\ scopes' = PopScope
  /\ funcStack' = Front(funcStack)
  /\ ReportOnPop
  /\ calls' = Front(calls)
  /\ Fail
  /\ UNCHANGED << heap, functions, thisStack, fileType, globalType, fileStack,
                  globalStack, expectedRet, pendingFunc, pass, silenced, loaded, fuel, returned, bodies >>

ParamFails ==
  /\ mode = "return" /\ At("func", "param")
  /\ value.type = Null
  /\ scopes' = PopScope
  /\ ReportOnPop
  /\ calls' = Front(calls)
  /\ Fail
  /\ UNCHANGED << heap, functions, thisStack, funcStack, fileType, globalType, fileStack,
                  globalStack, expectedRet, pendingFunc, pass, silenced, loaded, fuel, returned, bodies >>

(* Variant of ParamDone: the placeholder taken stays pending. *)
ParamDoneKeepingPending ==
  /\ mode = "return" /\ At("func", "param")
  /\ value.type # Null
  /\ LET current == IF pendingFunc = Null THEN NextType ELSE pendingFunc
     IN  /\ heap' = IF pendingFunc = Null
                    THEN Append(heap, FuncType(value.type, UnknownType))
                    ELSE SetPart(heap, current, 1, value.type)
         /\ funcStack' = Append(funcStack, current)
         /\ expectedRet' = ReturnOf(heap', current)
         /\ calls' = [calls EXCEPT ![Len(calls)].stage = "body",
                                   ![Len(calls)].self = current,
                                   ![Len(calls)].param = value.type]
  /\ returned' = Append(returned, {})
  /\ mode' = "eval"
  /\ UNCHANGED << scopes, functions, thisStack, fileType, globalType, fileStack,
                  globalStack, pendingFunc, value, pass, silenced, loaded, fuel, bodies, reports >>

(* The pending placeholder, when there is one, becomes the function being  *)
(* typed: calls in the body see the return type established so far.        *)
ParamDone ==
  /\ mode = "return" /\ At("func", "param")
  /\ value.type # Null
  /\ LET current == IF pendingFunc = Null THEN NextType ELSE pendingFunc
     IN  /\ heap' = IF pendingFunc = Null
                    THEN Append(heap, FuncType(value.type, UnknownType))
                    ELSE SetPart(heap, current, 1, value.type)
         /\ funcStack' = Append(funcStack, current)
         /\ expectedRet' = ReturnOf(heap', current)
         /\ calls' = [calls EXCEPT ![Len(calls)].stage = "body",
                                   ![Len(calls)].self = current,
                                   ![Len(calls)].param = value.type]
  /\ pendingFunc' = Null
  /\ returned' = Append(returned, {})
  /\ mode' = "eval"
  /\ UNCHANGED << scopes, functions, thisStack, fileType, globalType, fileStack,
                  globalStack, value, pass, silenced, loaded, fuel, bodies, reports >>

(* The return type the body established: what $ret recorded, or the type   *)
(* of the body when no $ret did.                                           *)
BodyReturnType ==
  IF expectedRet # Null /\ KindOf(expectedRet) = "unknown" THEN value.type ELSE expectedRet

BodyFails ==
  /\ mode = "return" /\ At("func", "body")
  /\ value.type = Null \/ BodyReturnType = Null
  /\ Fail
  /\ LeaveFunc
  /\ UNCHANGED heap

BodyDone ==
  /\ mode = "return" /\ At("func", "body")
  /\ value.type # Null /\ BodyReturnType # Null
  /\ heap' = Append(SetPart(heap, Top.self, 2, BodyReturnType),
                    FuncType(Top.param, BodyReturnType))
  /\ Return(NextType)
  /\ LeaveFunc

-----------------------------------------------------------------------------
(* Declarations *)

(* A file of a single statement has that statement as its root. *)
MayDeclare ==
  \/ AtStatement \/ AtOperand
  \/ AtRoot /\ pass = "typing"
  \/ AtParam /\ "paramdecl" \in Construct

VisitDecl(n) ==
  /\ MayDeclare
  /\ Spend("decl")
  /\ calls' = Append(calls, NewCall("decl", "init", n, Null))
  /\ UNCHANGED << ctxVars, mode, value, pass, silenced, loaded, walkHistory >>

(* A declaration initialised by a function literal first binds its name to *)
(* a placeholder, which the literal takes over when its body is typed.     *)
VisitDeclFunc(n) ==
  /\ MayDeclare
  /\ Spend("declfunc")
  /\ heap' = Append(heap, FuncType(UnknownType, UnknownType))
  /\ functions' = DefineFunc(n, NextType)
  /\ scopes' = DefineVar(scopes, n, NextType)
  /\ pendingFunc' = NextType
  /\ calls' = Append(calls, NewCall("decl", "init", n, NextType))
  /\ UNCHANGED << thisStack, funcStack, fileType, globalType, fileStack, globalStack,
                  expectedRet, mode, value, pass, silenced, loaded, walkHistory >>

InitFails ==
  /\ mode = "return" /\ At("decl", "init")
  /\ value.type = Null
  /\ pendingFunc' = IF Top.self # Null THEN Null ELSE pendingFunc
  /\ Fail
  /\ calls' = Front(calls)
  /\ UNCHANGED << heap, scopes, functions, thisStack, funcStack, fileType, globalType,
                  fileStack, globalStack, expectedRet, pass, silenced, loaded, fuel, walkHistory >>

(* A declaration whose name has a stub in this scope supplies the stub's   *)
(* body, once, and must have the stub's type.                              *)
DefinesBody ==
  /\ mode = "return" /\ At("decl", "init")
  /\ value.type # Null
  /\ LookupForward(Top.name) # 0
  /\ LET k == LookupForward(Top.name)
         s == Last(scopes).forwards[k].stub
     IN  IF CanDefineBody(k, value.type)
         THEN /\ scopes' = DefineForwardBody(k)
              /\ bodies' = [bodies EXCEPT ![s] = @ + 1]
              /\ ReturnDeclared(value.type, Top.name)
         ELSE /\ Fail
              /\ UNCHANGED << scopes, bodies >>
  /\ pendingFunc' = IF Top.self # Null THEN Null ELSE pendingFunc
  /\ calls' = Front(calls)
  /\ UNCHANGED << heap, functions, thisStack, funcStack, fileType, globalType, fileStack,
                  globalStack, expectedRet, pass, silenced, loaded, fuel, returned, reports >>

(* Any other declaration of a function rebinds the placeholder's name.     *)
DefinesFunc ==
  /\ mode = "return" /\ At("decl", "init")
  /\ value.type # Null
  /\ LookupForward(Top.name) = 0
  /\ Top.self # Null
  /\ scopes' = UpdateVar(scopes, Top.name, value.type)
  /\ functions' = UpdateFunc(Top.name, value.type)
  /\ pendingFunc' = Null
  /\ ReturnDeclared(value.type, Top.name)
  /\ calls' = Front(calls)
  /\ UNCHANGED << heap, thisStack, funcStack, fileType, globalType, fileStack,
                  globalStack, expectedRet, pass, silenced, loaded, fuel, walkHistory >>

(* Any other declaration binds a new variable; declaring it again is       *)
(* accepted when the type is the same.                                     *)
DefinesVar ==
  /\ mode = "return" /\ At("decl", "init")
  /\ value.type # Null
  /\ LookupForward(Top.name) = 0
  /\ Top.self = Null
  /\ LET n == Top.name
     IN  IF DuplicateVar(scopes, n)
         THEN /\ UNCHANGED scopes
              /\ IF TypeEquals(heap, LookupVar(n), value.type)
                 THEN ReturnDeclared(LookupVar(n), n)
                 ELSE Fail
         ELSE /\ scopes' = DefineVar(scopes, n, value.type)
              /\ ReturnDeclared(value.type, n)
  /\ calls' = Front(calls)
  /\ UNCHANGED << heap, functions, thisStack, funcStack, fileType, globalType, fileStack,
                  globalStack, expectedRet, pendingFunc, pass, silenced, loaded, fuel, walkHistory >>

-----------------------------------------------------------------------------
(* Forward stubs *)

VisitForward(n) ==
  /\ MayDeclare
  /\ Spend("forward")
  /\ calls' = Append(calls, NewCall("forward", "init", n, Null))
  /\ UNCHANGED << ctxVars, mode, value, pass, silenced, loaded, walkHistory >>

StubDone ==
  /\ mode = "return" /\ At("forward", "init")
  /\ LET n == Top.name
         t == value.type
     IN  IF \/ t = Null
            \/ KindOf(t) # "func"
            \/ DuplicateVar(scopes, n)
            \/ LookupForward(n) # 0
         THEN /\ Fail
              /\ UNCHANGED << scopes, functions, bodies, reports >>
         ELSE /\ scopes' = DefineVar(DefineForward(scopes, n, t, Len(bodies) + 1), n, t)
              /\ functions' = DefineFunc(n, t)
              /\ bodies' = Append(bodies, 0)
              /\ reports' = Append(reports, 0)
              /\ ReturnDeclared(t, n)
  /\ calls' = Front(calls)
  /\ UNCHANGED << heap, thisStack, funcStack, fileType, globalType, fileStack, globalStack,
                  expectedRet, pendingFunc, pass, silenced, loaded, fuel, returned >>

-----------------------------------------------------------------------------
(* Imports *)

(* Variant of PushFile: a null file keeps the one that is open. *)
PushFileUnlessNull(t) ==
  /\ fileStack' = Append(fileStack, fileType)
  /\ fileType' = IF t = Null THEN fileType ELSE t

PushFile(t) ==
  /\ fileStack' = Append(fileStack, fileType)
  /\ fileType' = t

PushGlobal(t) ==
  /\ globalStack' = Append(globalStack, globalType)
  /\ globalType' = t

(* $import while typing: the module is typed with no $file and no $global  *)
(* of its own yet, and the importer's are put back afterwards.             *)
VisitImport ==
  /\ AtInit
  /\ Spend("import")
  /\ PushFile(Null)
  /\ PushGlobal(Null)
  /\ calls' = Append(calls, NewCall("import", "module", NoName, Null))
  /\ UNCHANGED << heap, scopes, functions, thisStack, funcStack, expectedRet, pendingFunc,
                  mode, value, pass, silenced, loaded, walkHistory >>

ImportDone ==
  /\ mode = "return" /\ At("import", "module")
  /\ fileType' = Last(fileStack)
  /\ globalType' = Last(globalStack)
  /\ fileStack' = Front(fileStack)
  /\ globalStack' = Front(globalStack)
  /\ Return(IF value.type # Null /\ KindOf(value.type) = "block" THEN value.type ELSE Null)
  /\ calls' = Front(calls)
  /\ UNCHANGED << heap, scopes, functions, thisStack, funcStack, expectedRet, pendingFunc,
                  pass, silenced, loaded, fuel, walkHistory >>

-----------------------------------------------------------------------------
(* Overloads *)

(* An overload has the operators that a grammar's templates made of the    *)
(* same operands.  The operands of each are typed in turn, with errors     *)
(* silenced, until an operator accepts the types of its own.  What the     *)
(* operands of rejected candidates did to the context stays done.          *)
VisitOverload ==
  /\ AtStatement \/ AtInit \/ AtBody \/ AtOperand
  /\ Spend("overload")
  /\ calls' = Append(calls, NewCall("overload", "operand", NoName, Null))
  /\ silenced' = TRUE
  /\ UNCHANGED << ctxVars, mode, value, pass, loaded, walkHistory >>

(* Variant of EndOverload: the first sink of all is put back. *)
EndOverloadLoud(t) ==
  /\ Return(t)
  /\ calls' = Front(calls)
  /\ silenced' = FALSE

(* The sink that was in use before is put back. *)
EndOverload(t) ==
  /\ Return(t)
  /\ calls' = Front(calls)
  /\ silenced' = Top.sink

NextOperand(first) ==
  /\ mode' = "eval"
  /\ calls' = [calls EXCEPT ![Len(calls)].self = first]
  /\ UNCHANGED << value, silenced >>

NextCandidate == NextOperand(Null)

OperandTyped == mode = "return" /\ At("overload", "operand") /\ value.type # Null

OperandFails ==
  /\ mode = "return" /\ At("overload", "operand") /\ value.type = Null
  /\ NextCandidate
  /\ UNCHANGED << ctxVars, pass, loaded, fuel, walkHistory >>

OperandDone ==
  /\ OperandTyped /\ Top.self = Null
  /\ NextOperand(value.type)
  /\ UNCHANGED << ctxVars, pass, loaded, fuel, walkHistory >>

CandidateRet ==
  /\ OperandTyped /\ Top.self = Null
  /\ IF RetFails(value.type) THEN NextCandidate ELSE EndOverload(VoidType)
  /\ RecordReturn(value.type)
  /\ UNCHANGED << pass, loaded, fuel >>

(* Operators of two ints, and operators of two floats: no type is a float. *)
ArithmeticType(op, a, b) ==
  IF op = "add" /\ Unwrap(a) = IntType /\ Unwrap(b) = IntType THEN IntType ELSE Null

(* morphl_infer_type_for_op of two operands; $func makes a type of its     *)
(* operands, which have been typed without a scope.                        *)
OperatorType(op, a, b) ==
  CASE op \in {"add", "fadd"} -> ArithmeticType(op, a, b)
    [] op = "call" -> CallType(a)
    [] op = "func" -> NextType
    [] op = "group" -> VoidType

CandidateTyped(op) ==
  /\ OperandTyped /\ Top.self # Null
  /\ LET t == OperatorType(op, Top.self, value.type)
     IN  IF t = Null THEN NextCandidate ELSE EndOverload(t)
  /\ heap' = IF op = "func" THEN Append(heap, FuncType(Top.self, value.type)) ELSE heap
  /\ UNCHANGED << scopes, functions, thisStack, funcStack, fileType, globalType, fileStack,
                  globalStack, expectedRet, pendingFunc, pass, loaded, fuel, walkHistory >>

NoCandidate ==
  /\ AtOperand /\ Top.self = Null
  /\ EndOverload(Null)
  /\ UNCHANGED << ctxVars, pass, loaded, fuel, walkHistory >>

-----------------------------------------------------------------------------
(* The walks over one file's context *)

(* While the file is parsed, the $import hook types the imported module's  *)
(* root in the importer's context.                                         *)
ParseImport ==
  /\ pass = "parse" /\ mode = "idle"
  /\ Spend("parseimport")
  /\ loaded' = loaded + 1
  /\ mode' = "eval"
  /\ UNCHANGED << ctxVars, calls, value, pass, silenced, walkHistory >>

ParseImportDone ==
  /\ pass = "parse" /\ mode = "return" /\ calls = << >>
  /\ mode' = "idle"
  /\ UNCHANGED << ctxVars, calls, value, pass, silenced, loaded, fuel, walkHistory >>

(* After parsing, the root is typed once; its result is ignored.           *)
TypingPass ==
  /\ pass = "parse" /\ mode = "idle"
  /\ pass' = "typing"
  /\ mode' = "eval"
  /\ UNCHANGED << ctxVars, calls, value, silenced, fuel, loaded, walkHistory >>

(* type_context_check_unresolved_forwards on the scopes still open. *)
FinalCheck ==
  /\ pass = "typing" /\ mode = "return" /\ calls = << >>
  /\ pass' = "done"
  /\ mode' = "idle"
  /\ reports' = [s \in DOMAIN reports |->
                   IF s \in ReportedAtEnd THEN reports[s] + 1 ELSE reports[s]]
  /\ UNCHANGED << ctxVars, calls, value, silenced, fuel, loaded, returned, bodies >>

Done == pass = "done" /\ UNCHANGED vars

Init ==
  /\ ContextInit
  /\ calls = << >>
  /\ mode = "idle"
  /\ value = [type |-> Null, name |-> NoName]
  /\ silenced = FALSE
  /\ pass = "parse"
  /\ fuel = MaxNodes
  /\ loaded = 0
  /\ returned = << >>
  /\ bodies = << >>
  /\ reports = << >>

Next ==
  \/ \E l \in Leaf : VisitLeaf(l) \/ VisitRet(l) \/ \E n \in Name : VisitSet(n, l)
  \/ \E op \in {"this", "file", "global"} : VisitSpecial(op)
  \/ \E n \in Name : VisitDecl(n) \/ VisitDeclFunc(n) \/ VisitForward(n)
  \/ VisitBlock \/ VisitModule \/ VisitFileRoot
  \/ StatementDone \/ StatementFails \/ EndBlock
  \/ VisitFuncInit \/ VisitFunc
  \/ ParamFails \/ ParamDone \/ BodyFails \/ BodyDone
  \/ InitFails \/ DefinesBody \/ DefinesFunc \/ DefinesVar \/ StubDone
  \/ VisitOverload \/ OperandFails \/ OperandDone \/ CandidateRet \/ NoCandidate
  \/ \E op \in {"add", "fadd", "call", "func", "group"} : CandidateTyped(op)
  \/ VisitImport \/ ImportDone
  \/ ParseImport \/ ParseImportDone \/ TypingPass \/ FinalCheck \/ Done

Spec == Init /\ [][Next]_vars

-----------------------------------------------------------------------------
(* Properties *)

(* Every variable has its type. *)
TypeOK ==
  /\ ContextTypeOK
  /\ calls \in Seq(Call(Pointer))
  /\ mode \in {"idle", "eval", "return"}
  /\ value \in [type : Pointer, name : Name \cup {NoName}]
  /\ silenced \in BOOLEAN
  /\ pass \in {"parse", "typing", "done"}
  /\ fuel \in Nat
  /\ loaded \in Nat
  /\ returned \in Seq(SUBSET Pointer)
  /\ bodies \in Seq(Nat)
  /\ reports \in Seq(Nat)

(* The depths of the context once activation c has opened what it opens. *)
DepthsInside(c) ==
  [scopes |-> c.entry.scopes + (IF c.node \in {"block", "func"} THEN 1 ELSE 0),
   this |-> c.entry.this + (IF c.node = "block" THEN 1 ELSE 0),
   funcs |-> c.entry.funcs + (IF c.node = "func" /\ c.stage = "body" THEN 1 ELSE 0),
   files |-> c.entry.files + (IF c.node = "import" THEN 1 ELSE 0)]

(* Each activation sees the scopes, $this, function and file stacks at the *)
(* depth its caller left them, on success and on every error path, so that *)
(* nothing is left behind when the walk is over.                           *)
StacksBalanced ==
  /\ Len(calls) > 0 =>
       calls[1].entry = [scopes |-> 1, this |-> 0, funcs |-> 0, files |-> 0]
  /\ \A i \in 1 .. Len(calls) - 1 : calls[i + 1].entry = DepthsInside(calls[i])
  /\ CurrentDepths = IF calls = << >>
                     THEN [scopes |-> 1, this |-> 0, funcs |-> 0, files |-> 0]
                     ELSE DepthsInside(Top)

(* Errors are swallowed while the operands of an overload's candidates are *)
(* typed, and heard again afterwards: an overload inside another one must  *)
(* not let them be heard, and no error path may leave them silenced.       *)
ErrorsSilencedInOverloads ==
  silenced = \E i \in DOMAIN calls : calls[i].node = "overload"

(* $this is the innermost block being typed, and the function whose return *)
(* type $ret writes is the innermost function whose body is being typed.   *)
StacksNameActivations ==
  \A i \in DOMAIN calls :
    /\ calls[i].node = "block" =>
         /\ calls[i].entry.this < Len(thisStack)
         /\ thisStack[calls[i].entry.this + 1] = calls[i].self
    /\ calls[i].node = "func" /\ calls[i].stage = "body" =>
         /\ calls[i].entry.funcs < Len(funcStack)
         /\ funcStack[calls[i].entry.funcs + 1] = calls[i].self

(* Every $forward stub is given one body of its type in its own scope or   *)
(* reported once as missing: never both, and not neither once its scope    *)
(* has closed.  When the file is done an open scope may have more than one *)
(* stub without a body, and one of them has been reported.                 *)
StubsSettledOnce ==
  LET open == UNION {{f.stub : f \in ToSet(sc.forwards)} : sc \in ToSet(scopes)}
      settled(s) == bodies[s] + reports[s] = 1
  IN  \A s \in DOMAIN bodies :
        /\ bodies[s] + reports[s] <= 1
        /\ s \notin open => settled(s)
        /\ pass = "done" => settled(s) \/ \E e \in open : reports[e] = 1

(* What the bodies of a scope's stubs leave in the scope: calls resolve to *)
(* the stub's type before and after the body, whatever the body is.        *)
CallsSeeStubType ==
  \A sc \in ToSet(scopes) : \A f \in ToSet(sc.forwards) :
    sc.vars[SelectInSeq(sc.vars, LAMBDA v : v.name = f.name)].type = f.type

(* All the types a function's $rets returned are its return type. *)
ReturnsAgree ==
  [][ \A t \in (IF At("func", "body") /\ value'.type # Null THEN Last(returned) ELSE {}) :
        Len(calls') < Len(calls) =>
          TypeEquals(heap', Unwrap(t), Unwrap(ReturnOf(heap', value'.type))) ]_vars

(* A call that resolves to a function whose body is being typed, wherever  *)
(* it stands, has an unknown type or one that a $ret of that very function *)
(* returned: functions nested in the body, or typed while the body's       *)
(* function was waiting to be, do not write its return type.               *)
RecursionSeesOwnReturn ==
  \A n \in Name : \A k \in DOMAIN funcStack :
    LookupVar(n) = funcStack[k] => CallType(LookupVar(n)) \in {UnknownType} \cup returned[k]

(* "recursive call sees UNKNOWN matching UNKNOWN" (inference.c, FUNC): in  *)
(* the body of a declared function a call of the function, where its name  *)
(* is declared once and nothing hides it, has an unknown type or the type  *)
(* that the body's $rets are expected to return.                           *)
RecursiveCallMatches ==
  \A i \in 1 .. Len(calls) - 1 :
    LET d == calls[i]
        f == calls[i + 1]
        outer == d.entry.scopes
        typingBody == /\ mode = "eval" /\ f.node = "func" /\ f.stage = "body"
                      /\ Len(funcStack) = f.entry.funcs + 1 /\ expectedRet # Null
        entries == {e \in DOMAIN scopes[outer].vars : scopes[outer].vars[e].name = d.name}
        hidden == \E s \in outer + 1 .. Len(scopes) :
                    \E v \in ToSet(scopes[s].vars) : v.name = d.name
    IN  d.node = "decl" /\ d.self # Null /\ typingBody /\ Cardinality(entries) = 1 /\ ~hidden =>
          CallType(LookupVar(d.name)) \in {UnknownType, expectedRet}

(* The activation of the outermost block of the file or module being typed. *)
ModuleRoot ==
  LET m == SelectLastInSeq(calls, LAMBDA c : c.node = "import")
  IN  m + 1

(* Inside an imported module $file and $global are that module's block,    *)
(* also after a module that it imports has been typed.                     *)
ModuleNamesItself ==
  fileStack # << >> /\ mode = "eval" /\ ModuleRoot <= Len(calls) =>
    fileType = calls[ModuleRoot].self /\ globalType = calls[ModuleRoot].self

(* While a function's body is typed there is an expected return type for   *)
(* its $ret statements.                                                    *)
ReturnTypeKnown == mode = "eval" /\ funcStack # << >> => expectedRet # Null

(* Only a declaration that supplies a function may change the type of a    *)
(* name already declared in its scope.                                     *)
NamesKeepTheirType ==
  [][ Len(scopes') >= Len(scopes) =>
        \A s \in DOMAIN scopes : \A v \in DOMAIN scopes[s].vars :
          scopes'[s].vars[v] = scopes[s].vars[v] \/ DefinesFunc ]_vars

=============================================================================
