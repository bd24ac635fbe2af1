---------------------------- MODULE TypeContext ----------------------------
(***************************************************************************)
(* The typing context of the MorphL compiler (src/src/typing/              *)
(* type_context.c): a stack of lexical scopes holding variables and        *)
(* $forward stubs, the global function registry, the stacks behind $this,  *)
(* $file and $global, the stack of functions being typed, the return type  *)
(* expected of the innermost one, and the placeholder that a declaration   *)
(* leaves for the function literal it is about to type.                    *)
(*                                                                         *)
(* A MorphlType* is a position of `heap`, and 0 is the null pointer: two   *)
(* names may share one type object, and assigning a field of the object    *)
(* is seen through every alias.  The objects of the scalar types never     *)
(* change and are only compared by content, so one shared object stands    *)
(* for each of them.                                                       *)
(***************************************************************************)
EXTENDS Naturals, SequencesExt

CONSTANTS
  Name,       \* identifiers (interned symbols) a program may use
  NoName,     \* the absence of an identifier
  EqDepth     \* nesting depth up to which type comparison descends

ASSUME NameAssumption == NoName \notin Name
ASSUME EqDepthAssumption == EqDepth \in Nat

VARIABLES
  heap,          \* every MorphlType allocated so far
  scopes,        \* ctx->scopes[0 .. scope_count - 1]
  functions,     \* ctx->functions
  thisStack,     \* ctx->this_stack
  funcStack,     \* ctx->func_stack
  fileType,      \* ctx->file_type
  globalType,    \* ctx->global_type
  fileStack,     \* ctx->file_stack
  globalStack,   \* ctx->global_stack
  expectedRet,   \* ctx->expected_return_type
  pendingFunc    \* ctx->pending_func_type

ctxVars == << heap, scopes, functions, thisStack, funcStack, fileType,
              globalType, fileStack, globalStack, expectedRet, pendingFunc >>

-----------------------------------------------------------------------------
(* Types *)

TypeKind == {"int", "string", "void", "unknown", "ref", "func", "block"}

(* A pointer to a type: null or an object of the heap. *)
Pointer == 0 .. Len(heap)

(* A function's parts are <<parameter, return>>, a reference's its target, *)
(* a block's its field types, named by `names`.                            *)
TypeObject(n) == [kind : TypeKind, parts : Seq(0 .. n), names : Seq(Name), mut : BOOLEAN]

Arity(kind) == CASE kind = "func" -> 2 [] kind = "ref" -> 1 [] OTHER -> 0

Null == 0
IntType == 1
StringType == 2
VoidType == 3
UnknownType == 4
MutIntType == 5

(* The scalar types are there, no object has a dangling part, and function *)
(* and reference types have the parts that their kind needs.               *)
HeapOK(h) ==
  /\ h \in Seq(TypeObject(Len(h)))
  /\ Len(h) >= MutIntType
  /\ \A t \in DOMAIN h : Len(h[t].parts) >= Arity(h[t].kind)

Obj(kind, parts) == [kind |-> kind, parts |-> parts, names |-> << >>, mut |-> FALSE]

InitialHeap ==
  << Obj("int", << >>), Obj("string", << >>), Obj("void", << >>), Obj("unknown", << >>),
     [kind |-> "ref", parts |-> << IntType >>, names |-> << >>, mut |-> TRUE] >>

FuncType(param, result) == Obj("func", << param, result >>)

(* Variant of NextType: the object past the one allocated. *)
NextTypeOffByOne == Len(heap) + 2

(* The pointer the next allocation returns. *)
NextType == Len(heap) + 1

(* Assigning a part of an object, and adding a field to a block type. *)
SetPart(h, t, i, p) == [h EXCEPT ![t].parts[i] = p]

AddField(h, t, n, p) ==
  [h EXCEPT ![t] = [h[t] EXCEPT !.names = Append(@, n), !.parts = Append(@, p)]]

KindOf(t) == heap[t].kind
ParamOf(h, t) == h[t].parts[1]
ReturnOf(h, t) == h[t].parts[2]

(* References to references cannot be written with the leaves modelled, so *)
(* one step reaches what the loop of unwrap_ref reaches.                   *)
Unwrap(t) == IF t # Null /\ heap[t].kind = "ref" THEN heap[t].parts[1] ELSE t

(* morphl_type_equals: same kind, and equal parts one by one. *)
TypeEquals(h, a, b) ==
  LET T == 0 .. Len(h)
      eq[c \in (0 .. EqDepth) \X T \X T] ==
        LET d == c[1]
            x == c[2]
            y == c[3]
        IN  IF x = Null \/ y = Null THEN x = y
            ELSE /\ h[x].kind = h[y].kind
                 /\ h[x].names = h[y].names
                 /\ h[x].mut = h[y].mut
                 /\ Len(h[x].parts) = Len(h[y].parts)
                 /\ d > 0 => \A i \in DOMAIN h[x].parts :
                                eq[<< d - 1, h[x].parts[i], h[y].parts[i] >>]
  IN  eq[<< EqDepth, a, b >>]

-----------------------------------------------------------------------------
(* Scopes *)

(* Entries and scopes whose types are in P; `stub` numbers the stubs of a  *)
(* program in the order they are met.                                      *)
VarEntry(P) == [name : Name, type : P]
ForwardEntry(P) == [name : Name, type : P, resolved : BOOLEAN, stub : Nat]
Scope(P) == [vars : Seq(VarEntry(P)), forwards : Seq(ForwardEntry(P))]

NewScope == [vars |-> << >>, forwards |-> << >>]

PushScope == Append(scopes, NewScope)

(* Variant of PopScope: an off-by-one keeps the last scope but one open. *)
PopScopeTooFew == IF Len(scopes) <= 2 THEN scopes ELSE Front(scopes)

(* The global scope is never popped. *)
PopScope == IF Len(scopes) <= 1 THEN scopes ELSE Front(scopes)

(* The first entry of that name in the innermost scope is rewritten. *)
UpdateVar(scs, n, t) ==
  LET k == SelectInSeq(scs[Len(scs)].vars, LAMBDA v : v.name = n)
  IN  [scs EXCEPT ![Len(scs)].vars =
         [j \in DOMAIN @ |-> IF j = k THEN [@[j] EXCEPT !.type = t] ELSE @[j]]]

DuplicateVar(scs, n) == \E v \in ToSet(scs[Len(scs)].vars) : v.name = n

(* Variant of DefineVar: a name that is already there gets the new type. *)
DefineVarOverwriting(scs, n, t) ==
  IF DuplicateVar(scs, n) THEN UpdateVar(scs, n, t)
  ELSE [scs EXCEPT ![Len(scs)].vars = Append(@, [name |-> n, type |-> t])]

(* A second entry of the same name is added behind the first. *)
DefineVar(scs, n, t) ==
  [scs EXCEPT ![Len(scs)].vars = Append(@, [name |-> n, type |-> t])]

(* Innermost scope first; within a scope, the earliest entry. *)
LookupVar(n) ==
  LET s == SelectLastInSeq(scopes, LAMBDA sc : \E v \in ToSet(sc.vars) : v.name = n)
  IN  IF s = 0 THEN Null
      ELSE LET vars == scopes[s].vars
           IN  vars[SelectInSeq(vars, LAMBDA v : v.name = n)].type

DefineFunc(n, t) == Append(functions, [name |-> n, type |-> t])

UpdateFunc(n, t) ==
  LET k == SelectInSeq(functions, LAMBDA f : f.name = n)
  IN  [j \in DOMAIN functions |->
         IF j = k THEN [functions[j] EXCEPT !.type = t] ELSE functions[j]]

-----------------------------------------------------------------------------
(* Forward declarations *)

(* Position of the stub named n in the innermost scope, 0 if it has none. *)
LookupForward(n) == SelectInSeq(scopes[Len(scopes)].forwards, LAMBDA f : f.name = n)

DefineForward(scs, n, t, id) ==
  [scs EXCEPT ![Len(scs)].forwards =
     Append(@, [name |-> n, type |-> t, resolved |-> FALSE, stub |-> id])]

CanDefineBody(k, t) ==
  LET f == scopes[Len(scopes)].forwards[k]
  IN  ~f.resolved /\ TypeEquals(heap, f.type, t)

(* Variant of DefineForwardBody: the stub is not marked as resolved. *)
DefineForwardBodyUnmarked(k) == [scopes EXCEPT ![Len(scopes)].forwards[k].resolved = @]

DefineForwardBody(k) == [scopes EXCEPT ![Len(scopes)].forwards[k].resolved = TRUE]

(* The stubs type_context_pop_scope reports as missing a body. *)
ReportedOnPop(scope) == {f.stub : f \in {g \in ToSet(scope.forwards) : ~g.resolved}}

(* The stubs the final scan reports: the first unresolved one of every     *)
(* scope that is still open.                                               *)
ReportedAtEnd ==
  UNION { LET k == SelectInSeq(sc.forwards, LAMBDA f : ~f.resolved)
          IN  IF k = 0 THEN {} ELSE {sc.forwards[k].stub}
        : sc \in ToSet(scopes) }

-----------------------------------------------------------------------------

(* Every pointer of the context is null or names an allocated type. *)
ContextTypeOK ==
  /\ HeapOK(heap)
  /\ scopes \in Seq(Scope(Pointer)) /\ scopes # << >>
  /\ functions \in Seq(VarEntry(Pointer))
  /\ thisStack \in Seq(Pointer)
  /\ funcStack \in Seq(Pointer)
  /\ fileType \in Pointer /\ fileStack \in Seq(Pointer)
  /\ globalType \in Pointer /\ globalStack \in Seq(Pointer)
  /\ Len(globalStack) = Len(fileStack)
  /\ expectedRet \in Pointer
  /\ pendingFunc \in Pointer
  /\ pendingFunc # Null => KindOf(pendingFunc) = "func"

ContextInit ==
  /\ heap = InitialHeap
  /\ scopes = << NewScope >>
  /\ functions = << >>
  /\ thisStack = << >>
  /\ funcStack = << >>
  /\ fileType = Null
  /\ globalType = Null
  /\ fileStack = << >>
  /\ globalStack = << >>
  /\ expectedRet = Null
  /\ pendingFunc = Null

=============================================================================
