-------------------------- MODULE InferenceProofs ---------------------------
(***************************************************************************)
(* The walk of Inference never leaves a dangling type or an unbalanced     *)
(* stack behind, for every program: every set of names, leaves and         *)
(* constructs, and every number of nodes.  The two facts support each      *)
(* other (a stack may be popped because the activation on top of `calls`   *)
(* pushed it), so they are proved together as IInv.  On top of them: the   *)
(* error sink, the stacks that name activations, what a recursive call     *)
(* sees of its own function, and what the $rets of a function agree on.    *)
(***************************************************************************)
EXTENDS Inference, SequenceFacts, TLAPS, SequenceTheorems

-----------------------------------------------------------------------------
(* The heap of types *)

(* The objects of h have the same kinds in g. *)
SameKinds(h, g) == \A t \in 1 .. Len(h) : g[t].kind = h[t].kind

(* The heap may grow: what was a type object stays one. *)
LEMMA TypeObjectGrows ==
  ASSUME NEW m \in Nat, NEW n \in Nat, m <= n
  PROVE  TypeObject(m) \subseteq TypeObject(n)
<1>1. Seq(0 .. m) \subseteq Seq(0 .. n)
  <2>1. 0 .. m \subseteq 0 .. n
    OBVIOUS
  <2> QED BY <2>1
<1> QED BY <1>1 DEF TypeObject

(* Allocating an object whose parts are allocated keeps the heap sound. *)
LEMMA HeapAppend ==
  ASSUME NEW h, HeapOK(h), NEW o \in TypeObject(Len(h)), Len(o.parts) >= Arity(o.kind)
  PROVE  /\ HeapOK(Append(h, o))
         /\ Len(Append(h, o)) = Len(h) + 1
         /\ SameKinds(h, Append(h, o))
         /\ Append(h, o)[Len(h) + 1] = o
<1> DEFINE g == Append(h, o)
<1>1. h \in Seq(TypeObject(Len(h)))
  BY DEF HeapOK
<1>2. /\ g \in Seq(TypeObject(Len(h)))
      /\ Len(g) = Len(h) + 1
      /\ \A t \in 1 .. Len(h) : g[t] = h[t]
      /\ g[Len(h) + 1] = o
  BY <1>1
<1>3. TypeObject(Len(h)) \subseteq TypeObject(Len(g))
  BY <1>1, <1>2, TypeObjectGrows
<1>4. g \in Seq(TypeObject(Len(g)))
  BY <1>2, <1>3
<1>5. \A t \in DOMAIN g : Len(g[t].parts) >= Arity(g[t].kind)
  BY <1>1, <1>2 DEF HeapOK
<1>6. Len(g) >= MutIntType
  BY <1>1, <1>2 DEF HeapOK, MutIntType
<1> HIDE DEF g
<1>7. HeapOK(g)
  BY <1>4, <1>5, <1>6 DEF HeapOK
<1> QED BY <1>2, <1>7 DEF g, SameKinds

(* Replacing an object by one of its kind with no fewer parts keeps the    *)
(* heap sound.                                                             *)
LEMMA HeapReplace ==
  ASSUME NEW h, HeapOK(h), NEW t, NEW o,
         t \in DOMAIN h => /\ o \in TypeObject(Len(h))
                           /\ o.kind = h[t].kind
                           /\ Len(o.parts) >= Len(h[t].parts)
  PROVE  \A g : g = [h EXCEPT ![t] = o] =>
           /\ HeapOK(g)
           /\ Len(g) = Len(h)
           /\ SameKinds(h, g)
<1> DEFINE f == [h EXCEPT ![t] = o]
<1>1. h \in Seq(TypeObject(Len(h)))
  BY DEF HeapOK
<1>2. /\ f = [u \in 1 .. Len(h) |-> f[u]]
      /\ \A u \in 1 .. Len(h) : f[u] = IF u = t THEN o ELSE h[u]
  BY <1>1
<1>3. \A u \in 1 .. Len(h) : f[u] \in TypeObject(Len(h)) /\ f[u].kind = h[u].kind
  BY <1>1, <1>2
<1>4. f = [h EXCEPT ![t] = o]
  OBVIOUS
<1> HIDE DEF f
<1>5. f \in Seq(TypeObject(Len(h))) /\ Len(f) = Len(h)
  BY <1>1, <1>2, <1>3
<1>6. \A u \in 1 .. Len(h) : Len(f[u].parts) >= Arity(f[u].kind)
  <2>1. \A k : Arity(k) \in Nat
    BY DEF Arity
  <2>2. \A u \in 1 .. Len(h) : h[u] \in TypeObject(Len(h)) /\ f[u] \in TypeObject(Len(h))
    BY <1>1, <1>3
  <2>3. \A u \in 1 .. Len(h) : Len(f[u].parts) \in Nat /\ Len(h[u].parts) \in Nat
    BY <2>2 DEF TypeObject
  <2>4. \A u \in 1 .. Len(h) : Len(f[u].parts) >= Len(h[u].parts)
    BY <1>1, <1>2, <2>3
  <2> QED BY <1>1, <1>3, <2>1, <2>3, <2>4 DEF HeapOK
<1>7. HeapOK(f)
  BY <1>1, <1>5, <1>6 DEF HeapOK
<1> QED BY <1>3, <1>4, <1>5, <1>7 DEF SameKinds

(* Writing a pointer into a part of an object keeps the heap sound. *)
LEMMA HeapSetPart ==
  ASSUME NEW h, HeapOK(h), NEW t, NEW i, NEW p \in 0 .. Len(h)
  PROVE  /\ HeapOK(SetPart(h, t, i, p))
         /\ Len(SetPart(h, t, i, p)) = Len(h)
         /\ SameKinds(h, SetPart(h, t, i, p))
<1> DEFINE s == [h[t].parts EXCEPT ![i] = p]
           o == [h[t] EXCEPT !.parts = s]
<1>1. ASSUME t \in DOMAIN h
      PROVE  o \in TypeObject(Len(h)) /\ o.kind = h[t].kind /\ Len(o.parts) = Len(h[t].parts)
  <2>1. h[t] \in TypeObject(Len(h))
    BY <1>1 DEF HeapOK
  <2>2. h[t].parts \in Seq(0 .. Len(h))
    BY <2>1 DEF TypeObject
  <2>3. s \in Seq(0 .. Len(h)) /\ Len(s) = Len(h[t].parts)
    <3>1. s \in Seq(0 .. Len(h))
      BY <2>2, ExceptInSeq
    <3>2. Len(s) = Len(h[t].parts)
      BY <2>2, ExceptInSeq
    <3> QED BY <3>1, <3>2
  <2> HIDE DEF s
  <2> QED BY <2>1, <2>3 DEF TypeObject
<1>2. t \in DOMAIN h => Len(h[t].parts) \in Nat
  BY DEF HeapOK, TypeObject
<1>3. SetPart(h, t, i, p) = [h EXCEPT ![t] = o]
  BY DEF SetPart
<1> HIDE DEF o
<1>4. t \in DOMAIN h => /\ o \in TypeObject(Len(h))
                        /\ o.kind = h[t].kind
                        /\ Len(o.parts) >= Len(h[t].parts)
  BY <1>1, <1>2
<1> QED BY <1>3, <1>4, HeapReplace

(* Adding a named field to a block type keeps the heap sound. *)
LEMMA HeapAddField ==
  ASSUME NEW h, HeapOK(h), NEW t, NEW n \in Name, NEW p \in 0 .. Len(h)
  PROVE  /\ HeapOK(AddField(h, t, n, p))
         /\ Len(AddField(h, t, n, p)) = Len(h)
         /\ SameKinds(h, AddField(h, t, n, p))
<1> DEFINE o == [h[t] EXCEPT !.names = Append(@, n), !.parts = Append(@, p)]
<1>1. ASSUME t \in DOMAIN h
      PROVE  o \in TypeObject(Len(h)) /\ o.kind = h[t].kind /\ Len(o.parts) >= Len(h[t].parts)
  <2>1. h[t] \in TypeObject(Len(h))
    BY <1>1 DEF HeapOK
  <2>2. /\ Append(h[t].parts, p) \in Seq(0 .. Len(h))
        /\ Len(h[t].parts) \in Nat
        /\ Len(Append(h[t].parts, p)) = Len(h[t].parts) + 1
        /\ Append(h[t].names, n) \in Seq(Name)
    BY <2>1 DEF TypeObject
  <2>3. /\ o \in TypeObject(Len(h))
        /\ o.kind = h[t].kind
        /\ o.parts = Append(h[t].parts, p)
    BY <2>1, <2>2 DEF TypeObject
  <2> QED BY <2>2, <2>3
<1>2. AddField(h, t, n, p) = [h EXCEPT ![t] = o]
  BY DEF AddField
<1> HIDE DEF o
<1> QED BY <1>1, <1>2, HeapReplace

(* The parameter and the return type of a function type are allocated. *)
LEMMA FuncParts ==
  ASSUME NEW h, HeapOK(h), NEW t \in 1 .. Len(h), h[t].kind = "func"
  PROVE  ReturnOf(h, t) \in 0 .. Len(h)
<1>1. h[t] \in TypeObject(Len(h)) /\ Len(h[t].parts) >= 2
  BY DEF HeapOK, Arity
<1> QED BY <1>1 DEF TypeObject, ReturnOf

-----------------------------------------------------------------------------
(* Scopes *)

(* Scopes stay well typed when more types are allocated. *)
LEMMA ScopeGrows ==
  ASSUME NEW P, NEW Q, P \subseteq Q
  PROVE  Seq(Scope(P)) \subseteq Seq(Scope(Q)) /\ Seq(VarEntry(P)) \subseteq Seq(VarEntry(Q))
<1>1. VarEntry(P) \subseteq VarEntry(Q) /\ ForwardEntry(P) \subseteq ForwardEntry(Q)
  BY DEF VarEntry, ForwardEntry
<1>2. Seq(VarEntry(P)) \subseteq Seq(VarEntry(Q)) /\ Seq(ForwardEntry(P)) \subseteq Seq(ForwardEntry(Q))
  BY <1>1
<1>3. Scope(P) \subseteq Scope(Q)
  BY <1>2 DEF Scope
<1> QED BY <1>2, <1>3

(* Replacing the innermost scope keeps the others and their number. *)
LEMMA ReplaceInnermost ==
  ASSUME NEW P, NEW scs \in Seq(Scope(P)), scs # << >>, NEW sc \in Scope(P)
  PROVE  \A g : g = [scs EXCEPT ![Len(scs)] = sc] =>
           g \in Seq(Scope(P)) /\ Len(g) = Len(scs) /\ g # << >>
<1>1. \A g : g = [scs EXCEPT ![Len(scs)] = sc] => g \in Seq(Scope(P)) /\ Len(g) = Len(scs)
  BY ExceptInSeq
<1>2. Len(scs) > 0
  OBVIOUS
<1> QED BY <1>1, <1>2

(* type_context_define_var adds an entry to the innermost scope. *)
LEMMA DefineVarOK ==
  ASSUME NEW P, NEW scs \in Seq(Scope(P)), scs # << >>, NEW n \in Name, NEW t \in P
  PROVE  /\ DefineVar(scs, n, t) \in Seq(Scope(P))
         /\ Len(DefineVar(scs, n, t)) = Len(scs)
         /\ DefineVar(scs, n, t) # << >>
<1> DEFINE i == Len(scs)
           vs == Append(scs[i].vars, [name |-> n, type |-> t])
           sc == [scs[i] EXCEPT !.vars = vs]
<1>1. scs[i] \in Scope(P)
  OBVIOUS
<1>2. vs \in Seq(VarEntry(P))
  <2>1. [name |-> n, type |-> t] \in VarEntry(P)
    BY DEF VarEntry
  <2> QED BY <1>1, <2>1 DEF Scope
<1>3. sc \in Scope(P)
  <2> HIDE DEF vs
  <2> QED BY <1>1, <1>2 DEF Scope
<1>4. DefineVar(scs, n, t) = [scs EXCEPT ![Len(scs)] = sc]
  BY DEF DefineVar
<1> HIDE DEF sc, i
<1> QED BY <1>3, <1>4, ReplaceInnermost

(* type_context_define_forward adds a stub to the innermost scope. *)
LEMMA DefineForwardOK ==
  ASSUME NEW P, NEW scs \in Seq(Scope(P)), scs # << >>,
         NEW n \in Name, NEW t \in P, NEW id \in Nat
  PROVE  /\ DefineForward(scs, n, t, id) \in Seq(Scope(P))
         /\ Len(DefineForward(scs, n, t, id)) = Len(scs)
         /\ DefineForward(scs, n, t, id) # << >>
<1> DEFINE i == Len(scs)
           e == [name |-> n, type |-> t, resolved |-> FALSE, stub |-> id]
           fs == Append(scs[i].forwards, e)
           sc == [scs[i] EXCEPT !.forwards = fs]
<1>1. scs[i] \in Scope(P)
  OBVIOUS
<1>2. fs \in Seq(ForwardEntry(P))
  <2>1. e \in ForwardEntry(P)
    BY DEF ForwardEntry
  <2> QED BY <1>1, <2>1 DEF Scope
<1>3. sc \in Scope(P)
  <2> HIDE DEF fs
  <2> QED BY <1>1, <1>2 DEF Scope
<1>4. DefineForward(scs, n, t, id) = [scs EXCEPT ![Len(scs)] = sc]
  BY DEF DefineForward
<1> HIDE DEF sc, i
<1> QED BY <1>3, <1>4, ReplaceInnermost

(* type_context_update_var rewrites one entry of the innermost scope. *)
LEMMA UpdateVarOK ==
  ASSUME NEW P, NEW scs \in Seq(Scope(P)), scs # << >>, NEW n \in Name, NEW t \in P
  PROVE  /\ UpdateVar(scs, n, t) \in Seq(Scope(P))
         /\ Len(UpdateVar(scs, n, t)) = Len(scs)
         /\ UpdateVar(scs, n, t) # << >>
<1> DEFINE i == Len(scs)
           vs == scs[i].vars
           k == SelectInSeq(vs, LAMBDA v : v.name = n)
           ws == [j \in DOMAIN vs |-> IF j = k THEN [vs[j] EXCEPT !.type = t] ELSE vs[j]]
           sc == [scs[i] EXCEPT !.vars = ws]
<1>1. scs[i] \in Scope(P)
  OBVIOUS
<1>2. vs \in Seq(VarEntry(P))
  BY <1>1 DEF Scope
<1>3. UpdateVar(scs, n, t) = [scs EXCEPT ![Len(scs)] = sc]
  BY DEF UpdateVar
<1> HIDE DEF i, k, vs
<1>4. \A e \in VarEntry(P) : [e EXCEPT !.type = t] \in VarEntry(P)
  BY DEF VarEntry
<1>5. ws \in Seq(VarEntry(P))
  BY <1>2, <1>4
<1>6. sc \in Scope(P)
  <2> HIDE DEF ws
  <2> QED BY <1>1, <1>5 DEF Scope
<1> HIDE DEF sc
<1> QED BY <1>3, <1>6, ReplaceInnermost

(* The empty scope that type_context_push_scope adds is well typed. *)
LEMMA PushScopeOK ==
  ASSUME NEW P, scopes \in Seq(Scope(P)), scopes # << >>
  PROVE  /\ PushScope \in Seq(Scope(P))
         /\ Len(PushScope) = Len(scopes) + 1
         /\ PushScope # << >>
<1>1. NewScope \in Scope(P)
  BY DEF NewScope, Scope
<1> QED BY <1>1 DEF PushScope

(* type_context_pop_scope closes one scope, and never the global one. *)
LEMMA PopScopeOK ==
  ASSUME NEW P, scopes \in Seq(Scope(P)), scopes # << >>
  PROVE  /\ PopScope \in Seq(Scope(P))
         /\ PopScope # << >>
         /\ Len(scopes) > 1 => Len(PopScope) = Len(scopes) - 1
<1>1. Len(scopes) \in Nat /\ Len(scopes) > 0
  OBVIOUS
<1>2. CASE Len(scopes) <= 1
  BY <1>1, <1>2 DEF PopScope
<1>3. CASE Len(scopes) > 1
  <2>1. PopScope = Front(scopes)
    BY <1>1, <1>3 DEF PopScope
  <2>2. Front(scopes) \in Seq(Scope(P)) /\ Len(Front(scopes)) = Len(scopes) - 1
    BY FrontFacts
  <2> QED BY <1>1, <1>3, <2>1, <2>2
<1> QED BY <1>1, <1>2, <1>3

(* type_context_define_forward_body marks one stub of the innermost scope. *)
LEMMA DefineForwardBodyOK ==
  ASSUME NEW P, scopes \in Seq(Scope(P)), scopes # << >>, NEW k
  PROVE  /\ DefineForwardBody(k) \in Seq(Scope(P))
         /\ Len(DefineForwardBody(k)) = Len(scopes)
         /\ DefineForwardBody(k) # << >>
<1> DEFINE i == Len(scopes)
           fs == scopes[i].forwards
           gs == [fs EXCEPT ![k].resolved = TRUE]
           sc == [scopes[i] EXCEPT !.forwards = gs]
<1>1. scopes[i] \in Scope(P)
  OBVIOUS
<1>2. fs \in Seq(ForwardEntry(P))
  BY <1>1 DEF Scope
<1>3. DefineForwardBody(k) = [scopes EXCEPT ![Len(scopes)] = sc]
  BY DEF DefineForwardBody
<1> HIDE DEF i, fs
<1>4. \A e \in ForwardEntry(P) : [e EXCEPT !.resolved = TRUE] \in ForwardEntry(P)
  BY DEF ForwardEntry
<1>5. gs \in Seq(ForwardEntry(P))
  <2>1. gs = [j \in DOMAIN fs |-> IF j = k THEN [fs[j] EXCEPT !.resolved = TRUE] ELSE fs[j]]
    BY <1>2
  <2>2. [j \in DOMAIN fs |-> IF j = k THEN [fs[j] EXCEPT !.resolved = TRUE] ELSE fs[j]]
          \in Seq(ForwardEntry(P))
    BY <1>2, <1>4
  <2> QED BY <2>1, <2>2
<1>6. sc \in Scope(P)
  <2> HIDE DEF gs
  <2> QED BY <1>1, <1>5 DEF Scope
<1> HIDE DEF sc
<1> QED BY <1>3, <1>6, ReplaceInnermost

(* type_context_update_func rewrites one entry of the registry. *)
LEMMA UpdateFuncOK ==
  ASSUME NEW P, functions \in Seq(VarEntry(P)), NEW n, NEW t \in P
  PROVE  UpdateFunc(n, t) \in Seq(VarEntry(P))
<1> DEFINE k == SelectInSeq(functions, LAMBDA f : f.name = n)
           ws == [j \in DOMAIN functions |->
                    IF j = k THEN [functions[j] EXCEPT !.type = t] ELSE functions[j]]
<1>1. UpdateFunc(n, t) = ws
  BY DEF UpdateFunc
<1>2. \A e \in VarEntry(P) : [e EXCEPT !.type = t] \in VarEntry(P)
  BY DEF VarEntry
<1> HIDE DEF k
<1>3. ws \in Seq(VarEntry(P))
  BY <1>2
<1> QED BY <1>1, <1>3

(* type_context_define_func adds an entry to the registry. *)
LEMMA DefineFuncOK ==
  ASSUME NEW P, functions \in Seq(VarEntry(P)), NEW n \in Name, NEW t \in P
  PROVE  DefineFunc(n, t) \in Seq(VarEntry(P))
<1>1. [name |-> n, type |-> t] \in VarEntry(P)
  BY DEF VarEntry
<1> QED BY <1>1 DEF DefineFunc

(* The type a name is bound to is one of the context's types, or null when *)
(* no open scope binds the name.                                           *)
LEMMA LookupVarOK ==
  ASSUME NEW P, scopes \in Seq(Scope(P)), Null \in P, NEW n
  PROVE  LookupVar(n) \in P
<1> DEFINE binds(sc) == \E v \in ToSet(sc.vars) : v.name = n
           I == {i \in 1 .. Len(scopes) : binds(scopes[i])}
           s == IF I # {} THEN Max(I) ELSE 0
<1>1. SelectLastInSeq(scopes, LAMBDA sc : \E v \in ToSet(sc.vars) : v.name = n) = s
  BY DEF SelectLastInSeq
<1>2. CASE I = {}
  BY <1>1, <1>2 DEF LookupVar
<1>3. CASE I # {}
  <2>1. I \in SUBSET (1 .. Len(scopes)) /\ Len(scopes) \in Nat
    OBVIOUS
  <2>2. Max(I) \in I
    <3> HIDE DEF I
    <3> QED BY <1>3, <2>1, MaxInSet
  <2>3. s \in 1 .. Len(scopes) /\ binds(scopes[s]) /\ s # 0
    BY <1>3, <2>2
  <2> DEFINE vs == scopes[s].vars
             J == {i \in 1 .. Len(vs) : vs[i].name = n}
  <2>4. SelectInSeq(vs, LAMBDA v : v.name = n) = IF J # {} THEN Min(J) ELSE 0
    BY DEF SelectInSeq
  <2>5. LookupVar(n) = vs[SelectInSeq(vs, LAMBDA v : v.name = n)].type
    BY <1>1, <2>3 DEF LookupVar
  <2> HIDE DEF s
  <2>6. vs \in Seq(VarEntry(P))
    <3>1. scopes[s] \in Scope(P)
      BY <2>3
    <3> QED BY <3>1 DEF Scope
  <2>7. \E i \in 1 .. Len(vs) : vs[i].name = n
    BY <2>3, <2>6 DEF ToSet
  <2>8. J \in SUBSET Nat /\ J # {}
    BY <2>7
  <2>9. Min(J) \in J
    <3> HIDE DEF J
    <3> QED BY <2>8, MinInSet
  <2>10. vs[Min(J)].type \in P
    <3>1. Min(J) \in 1 .. Len(vs)
      BY <2>9
    <3> HIDE DEF vs, J
    <3>2. vs[Min(J)] \in VarEntry(P)
      BY <2>6, <3>1
    <3> QED BY <3>2 DEF VarEntry
  <2> HIDE DEF vs, J
  <2> QED BY <2>4, <2>5, <2>8, <2>10
<1> QED BY <1>2, <1>3

-----------------------------------------------------------------------------
(* The walk *)

IInv == TypeOK /\ StacksBalanced

(* A walk keeps the heap sound, and neither frees nor changes the kind of  *)
(* a type.                                                                 *)
HeapKept == HeapOK(heap') /\ Len(heap) <= Len(heap') /\ SameKinds(heap, heap')

(* What was well typed stays so in a heap that has grown. *)
LEMMA StillTyped ==
  ASSUME TypeOK, HeapKept
  PROVE  /\ Pointer \subseteq Pointer' /\ Null \in Pointer'
         /\ scopes \in Seq(Scope(Pointer')) /\ scopes # << >>
         /\ functions \in Seq(VarEntry(Pointer'))
         /\ thisStack \in Seq(Pointer') /\ funcStack \in Seq(Pointer')
         /\ fileStack \in Seq(Pointer') /\ globalStack \in Seq(Pointer')
         /\ calls \in Seq(Call(Pointer'))
         /\ returned \in Seq(SUBSET (Pointer'))
         /\ pendingFunc # Null => heap'[pendingFunc].kind = "func"
         /\ fileType \in Pointer' /\ globalType \in Pointer'
         /\ expectedRet \in Pointer' /\ pendingFunc \in Pointer'
         /\ value \in [type : Pointer', name : Name \cup {NoName}]
<1>1. Pointer \subseteq Pointer' /\ Null \in Pointer'
  BY DEF TypeOK, ContextTypeOK, HeapOK, HeapKept, Pointer, Null
<1>2. Call(Pointer) \subseteq Call(Pointer')
  BY <1>1 DEF Call
<1>3. SUBSET Pointer \subseteq SUBSET (Pointer')
  BY <1>1
<1>4. /\ scopes \in Seq(Scope(Pointer)) /\ scopes # << >>
      /\ functions \in Seq(VarEntry(Pointer))
      /\ thisStack \in Seq(Pointer) /\ funcStack \in Seq(Pointer)
      /\ fileStack \in Seq(Pointer) /\ globalStack \in Seq(Pointer)
      /\ calls \in Seq(Call(Pointer))
      /\ returned \in Seq(SUBSET Pointer)
  BY DEF TypeOK, ContextTypeOK
<1>5. scopes \in Seq(Scope(Pointer')) /\ functions \in Seq(VarEntry(Pointer'))
  BY <1>1, <1>4, ScopeGrows
<1>6. /\ thisStack \in Seq(Pointer') /\ funcStack \in Seq(Pointer')
      /\ fileStack \in Seq(Pointer') /\ globalStack \in Seq(Pointer')
      /\ calls \in Seq(Call(Pointer'))
      /\ returned \in Seq(SUBSET (Pointer'))
  BY <1>1, <1>2, <1>3, <1>4, SeqMonotonic
<1>7. pendingFunc # Null => heap'[pendingFunc].kind = "func"
  <2>1. pendingFunc # Null => pendingFunc \in 1 .. Len(heap) /\ heap[pendingFunc].kind = "func"
    BY DEF TypeOK, ContextTypeOK, HeapOK, Pointer, Null, KindOf
  <2> QED BY <2>1 DEF HeapKept, SameKinds
<1>8. /\ fileType \in Pointer' /\ globalType \in Pointer'
      /\ expectedRet \in Pointer' /\ pendingFunc \in Pointer'
      /\ value \in [type : Pointer', name : Name \cup {NoName}]
  BY <1>1 DEF TypeOK, ContextTypeOK
<1> QED BY <1>1, <1>4, <1>5, <1>6, <1>7, <1>8

(* An unchanged heap is a heap that has grown by nothing. *)
LEMMA HeapUnchanged ==
  ASSUME TypeOK, UNCHANGED heap
  PROVE  HeapKept
<1>1. HeapOK(heap') /\ Len(heap) \in Nat
  BY DEF TypeOK, ContextTypeOK, HeapOK
<1> QED BY <1>1 DEF HeapKept, SameKinds

(* A call has the allocated type its function returns, or fails. *)
LEMMA CallTypeOK ==
  ASSUME TypeOK, NEW t \in Pointer
  PROVE  CallType(t) \in Pointer
<1>1. HeapOK(heap) /\ Null \in Pointer
  BY DEF TypeOK, ContextTypeOK, HeapOK, Pointer, Null
<1> DEFINE f == Unwrap(t)
<1>2. f \in Pointer
  <2>1. CASE t # Null /\ heap[t].kind = "ref"
    <3>1. t \in 1 .. Len(heap)
      BY <1>1, <2>1 DEF Pointer, Null, HeapOK
    <3>2. heap[t] \in TypeObject(Len(heap)) /\ Len(heap[t].parts) >= 1
      BY <1>1, <2>1, <3>1 DEF HeapOK, Arity
    <3>3. heap[t].parts[1] \in 0 .. Len(heap)
      BY <3>2 DEF TypeObject
    <3>4. f = heap[t].parts[1]
      BY <2>1 DEF Unwrap
    <3> QED BY <3>3, <3>4 DEF Pointer
  <2>2. CASE ~ (t # Null /\ heap[t].kind = "ref")
    <3>1. f = t
      BY <2>2 DEF Unwrap
    <3> QED BY <3>1
  <2> QED BY <2>1, <2>2
<1>3. f # Null /\ KindOf(f) = "func" => ReturnOf(heap, f) \in Pointer
  <2> HIDE DEF f
  <2>1. SUFFICES ASSUME f # Null, heap[f].kind = "func"
                 PROVE  ReturnOf(heap, f) \in 0 .. Len(heap)
    BY DEF KindOf, Pointer
  <2>2. f \in 1 .. Len(heap)
    BY <1>1, <1>2, <2>1 DEF Pointer, Null, HeapOK
  <2> QED BY <1>1, <2>1, <2>2, FuncParts
<1> HIDE DEF f
<1>4. CallType(t) = Null \/ (CallType(t) = ReturnOf(heap, f) /\ f # Null /\ KindOf(f) = "func")
  BY DEF CallType, f
<1> QED BY <1>1, <1>3, <1>4

(* A leaf has an allocated type or fails. *)
LEMMA LeafTypeOK ==
  ASSUME TypeOK, NEW l \in Leaf
  PROVE  LeafType(l) \in Pointer
<1>1. scopes \in Seq(Scope(Pointer)) /\ Null \in Pointer /\ HeapOK(heap)
  BY DEF TypeOK, ContextTypeOK, HeapOK, Pointer, Null
<1>2. LookupVar(l.name) \in Pointer
  BY <1>1, LookupVarOK
<1>3. CallType(LookupVar(l.name)) \in Pointer
  BY <1>2, CallTypeOK
<1>4. {IntType, StringType, MutIntType} \subseteq Pointer
  BY <1>1 DEF HeapOK, Pointer, IntType, StringType, MutIntType
<1>5. l.op \in {"int", "string", "mutint", "ident", "call"}
  BY LeafAssumption DEF AnyLeaf
<1> QED BY <1>2, <1>3, <1>4, <1>5 DEF LeafType

-----------------------------------------------------------------------------
(* The balance of the stacks *)

(* The stacks are as deep as the activation on top left them. *)
LEMMA DepthsAtTop ==
  ASSUME IInv, calls # << >>
  PROVE  /\ Len(calls) \in Nat \ {0} /\ Top \in Call(Pointer)
         /\ Len(scopes) = Top.entry.scopes + (IF Top.node \in {"block", "func"} THEN 1 ELSE 0)
         /\ Len(thisStack) = Top.entry.this + (IF Top.node = "block" THEN 1 ELSE 0)
         /\ Len(funcStack) =
              Top.entry.funcs + (IF Top.node = "func" /\ Top.stage = "body" THEN 1 ELSE 0)
         /\ Len(fileStack) = Top.entry.files + (IF Top.node = "import" THEN 1 ELSE 0)
         /\ Top.entry \in Depths
<1>1. calls \in Seq(Call(Pointer))
  BY DEF IInv, TypeOK
<1>2. Len(calls) \in Nat \ {0} /\ Top \in Call(Pointer)
  BY <1>1 DEF Top, Last
<1>3. CurrentDepths = DepthsInside(Top)
  BY DEF IInv, StacksBalanced
<1>4. Top.entry \in Depths
  BY <1>2 DEF Call
<1> HIDE DEF Top
<1> QED BY <1>2, <1>3, <1>4 DEF CurrentDepths, DepthsInside

(* An activation starts. *)
LEMMA PushBalanced ==
  ASSUME IInv, NEW c, c.entry = CurrentDepths, calls' = Append(calls, c),
         CurrentDepths' = DepthsInside(c)
  PROVE  StacksBalanced'
<1>1. calls \in Seq(Call(Pointer))
  BY DEF IInv, TypeOK
<1>2. /\ Len(calls') = Len(calls) + 1 /\ Len(calls) \in Nat
      /\ \A i \in 1 .. Len(calls) : calls'[i] = calls[i]
      /\ calls'[Len(calls) + 1] = c
      /\ calls' # << >>
  BY <1>1
<1>3. Top' = c
  BY <1>2 DEF Top, Last
<1>4. ASSUME NEW i \in 1 .. Len(calls') - 1
      PROVE  calls'[i + 1].entry = DepthsInside(calls'[i])
  <2>1. CASE i < Len(calls)
    BY <1>2, <2>1 DEF IInv, StacksBalanced
  <2>2. CASE i = Len(calls)
    <3>1. calls # << >> /\ calls[i] = Top
      BY <1>1, <2>2 DEF Top, Last
    <3>2. CurrentDepths = DepthsInside(calls[i])
      BY <3>1 DEF IInv, StacksBalanced
    <3>3. calls'[i + 1].entry = CurrentDepths /\ calls'[i] = calls[i]
      BY <1>2, <2>2
    <3> QED BY <3>2, <3>3
  <2> QED BY <1>2, <2>1, <2>2
<1>5. calls'[1].entry = [scopes |-> 1, this |-> 0, funcs |-> 0, files |-> 0]
  <2>1. CASE calls = << >>
    <3>1. calls'[1] = c
      BY <1>2, <2>1
    <3> QED BY <2>1, <3>1 DEF IInv, StacksBalanced
  <2>2. CASE calls # << >>
    <3>1. Len(calls) > 0 /\ calls'[1] = calls[1]
      BY <1>1, <1>2, <2>2
    <3> QED BY <3>1 DEF IInv, StacksBalanced
  <2> QED BY <2>1, <2>2
<1> QED BY <1>2, <1>3, <1>4, <1>5 DEF StacksBalanced

(* An activation returns, having closed what it opened. *)
LEMMA PopBalanced ==
  ASSUME IInv, calls # << >>, calls' = Front(calls), CurrentDepths' = Top.entry
  PROVE  StacksBalanced'
<1>1. calls \in Seq(Call(Pointer)) /\ Len(calls) > 0 /\ Len(calls) \in Nat
  BY DEF IInv, TypeOK
<1>2. /\ calls' \in Seq(Call(Pointer))
      /\ Len(calls') = Len(calls) - 1
      /\ \A i \in 1 .. Len(calls) - 1 : calls'[i] = calls[i]
  BY <1>1, FrontFacts
<1>3. \A i \in 1 .. Len(calls') - 1 : calls'[i + 1].entry = DepthsInside(calls'[i])
  BY <1>1, <1>2 DEF IInv, StacksBalanced
<1>4. Len(calls') > 0 =>
        calls'[1].entry = [scopes |-> 1, this |-> 0, funcs |-> 0, files |-> 0]
  BY <1>1, <1>2 DEF IInv, StacksBalanced
<1>5. CASE Len(calls) = 1
  <2>1. calls' = << >>
    BY <1>2, <1>5
  <2>2. Top.entry = [scopes |-> 1, this |-> 0, funcs |-> 0, files |-> 0]
    BY <1>1, <1>5 DEF IInv, StacksBalanced, Top, Last
  <2> QED BY <1>3, <1>4, <2>1, <2>2 DEF StacksBalanced
<1>6. CASE Len(calls) > 1
  <2>1. calls' # << >> /\ Top' = calls[Len(calls) - 1]
    BY <1>1, <1>2, <1>6 DEF Top, Last
  <2>2. Top.entry = DepthsInside(calls[Len(calls) - 1])
    <3>1. Len(calls) - 1 \in 1 .. Len(calls) - 1 /\ Len(calls) - 1 + 1 = Len(calls)
      BY <1>1, <1>6
    <3> QED BY <3>1 DEF IInv, StacksBalanced, Top, Last
  <2> QED BY <1>3, <1>4, <2>1, <2>2 DEF StacksBalanced
<1>7. Len(calls) = 1 \/ Len(calls) > 1
  BY <1>1
<1> QED BY <1>5, <1>6, <1>7

(* A step within an activation. *)
LEMMA SameBalanced ==
  ASSUME IInv, UNCHANGED calls, CurrentDepths' = CurrentDepths
  PROVE  StacksBalanced'
<1>1. Top' = Top
  BY DEF Top
<1> QED BY <1>1 DEF IInv, StacksBalanced

-----------------------------------------------------------------------------
(* Leaves *)

LEMMA VisitLeafStep ==
  ASSUME IInv, NEW l \in Leaf, VisitLeaf(l)
  PROVE  IInv'
<1> USE DEF VisitLeaf, ctxVars, walkHistory, Return
<1>1. HeapKept
  BY HeapUnchanged DEF IInv
<1>2. LeafType(l) \in Pointer
  BY LeafTypeOK DEF IInv
<1>3. TypeOK'
  BY <1>1, <1>2, StillTyped DEF IInv, TypeOK, ContextTypeOK, KindOf, HeapKept
<1>4. StacksBalanced'
  BY SameBalanced DEF CurrentDepths
<1> QED BY <1>3, <1>4 DEF IInv

(* $this, $file and $global return a type the context already holds. *)
LEMMA VisitSpecialStep ==
  ASSUME IInv, NEW op \in {"this", "file", "global"}, VisitSpecial(op)
  PROVE  IInv'
<1> USE DEF VisitSpecial, ctxVars, walkHistory, Return
<1>1. HeapKept
  BY HeapUnchanged DEF IInv
<1>2. value' \in [type : Pointer, name : {NoName}]
  <2>1. /\ thisStack # << >> => Last(thisStack) \in Pointer
        /\ fileType \in Pointer /\ globalType \in Pointer /\ Null \in Pointer
    BY LastInSet, SMTT(30) DEF IInv, TypeOK, ContextTypeOK, Pointer, Null, HeapOK
  <2>2. CASE op = "this"
    <3>1. value' = [type |-> IF thisStack = << >> THEN Null ELSE Last(thisStack), name |-> NoName]
      BY <2>2
    <3> QED BY <2>1, <3>1
  <2>3. CASE op = "file"
    BY <2>1, <2>3
  <2>4. CASE op = "global"
    BY <2>1, <2>4
  <2> QED BY <2>2, <2>3, <2>4
<1>3. TypeOK'
  BY <1>1, <1>2, StillTyped DEF IInv, TypeOK, ContextTypeOK, KindOf, HeapKept, Spend
<1>4. StacksBalanced'
  BY SameBalanced DEF CurrentDepths
<1> QED BY <1>3, <1>4 DEF IInv

(* $set returns the type of its value or fails; it writes nothing. *)
LEMMA VisitSetStep ==
  ASSUME IInv, NEW n \in Name, NEW l \in Leaf, VisitSet(n, l)
  PROVE  IInv'
<1> USE DEF VisitSet, ctxVars, walkHistory, Return, Fail
<1>1. HeapKept
  BY HeapUnchanged DEF IInv
<1>2. LeafType(l) \in Pointer
  BY LeafTypeOK DEF IInv
<1>3. value' \in [type : Pointer, name : {NoName}]
  BY <1>2 DEF IInv, TypeOK, ContextTypeOK, HeapOK, Pointer, Null
<1>4. TypeOK'
  BY <1>1, <1>3, StillTyped DEF IInv, TypeOK, ContextTypeOK, KindOf, HeapKept, Spend
<1>5. StacksBalanced'
  BY SameBalanced DEF CurrentDepths
<1> QED BY <1>4, <1>5 DEF IInv

-----------------------------------------------------------------------------
(* Blocks *)

(* The stubs reported when a scope is closed are counted. *)
LEMMA ReportsTyped ==
  ASSUME TypeOK, ReportOnPop
  PROVE  reports' \in Seq(Nat)
<1>1. reports \in Seq(Nat)
  BY DEF TypeOK
<1> QED BY <1>1 DEF ReportOnPop

(* Opening a block allocates its type and pushes it as $this. *)
LEMMA OpenBlockStep ==
  ASSUME IInv, OpenBlock, UNCHANGED << pass, silenced >>, fuel' \in Nat, loaded' \in Nat
  PROVE  IInv'
<1> DEFINE o == Obj("block", << >>)
           c == NewCall("block", "statements", NoName, NextType)
<1>1. HeapOK(heap) /\ Len(heap) \in Nat
  BY DEF IInv, TypeOK, ContextTypeOK, HeapOK
<1>2. heap' = Append(heap, o)
  BY DEF OpenBlock
<1>3. HeapKept /\ Len(heap') = Len(heap) + 1
  <2>1. o \in TypeObject(Len(heap)) /\ Len(o.parts) >= Arity(o.kind)
    BY <1>1 DEF Obj, TypeObject, TypeKind, Arity
  <2> HIDE DEF o
  <2> QED BY <1>1, <1>2, <2>1, HeapAppend DEF HeapKept
<1>4. NextType \in Pointer'
  BY <1>1, <1>3 DEF NextType, Pointer
<1>5. CurrentDepths \in Depths /\ Null \in Pointer' /\ NoName \in Name \cup {NoName}
  <2>1. Len(scopes) \in Nat \ {0} /\ Len(thisStack) \in Nat /\ Len(funcStack) \in Nat
        /\ Len(fileStack) \in Nat
    BY DEF IInv, TypeOK, ContextTypeOK
  <2> QED BY <2>1, <1>1, <1>3 DEF CurrentDepths, Depths, Pointer, Null
<1>6. c \in Call(Pointer') /\ c.entry = CurrentDepths
  BY <1>4, <1>5 DEF Call, NewCall, IInv, TypeOK
<1>7. PushScope \in Seq(Scope(Pointer')) /\ Len(PushScope) = Len(scopes) + 1 /\ PushScope # << >>
  BY <1>3, StillTyped, PushScopeOK DEF IInv
<1>8. Len(Append(thisStack, NextType)) = Len(thisStack) + 1
  BY <1>4 DEF IInv, TypeOK, ContextTypeOK
<1>9. TypeOK'
  <2>1. calls' \in Seq(Call(Pointer')) /\ thisStack' \in Seq(Pointer')
    BY <1>3, <1>4, <1>6, StillTyped, AppendFacts DEF IInv, OpenBlock
  <2> QED BY <1>3, <1>4, <1>7, <2>1, StillTyped
          DEF IInv, OpenBlock, walkHistory, TypeOK, ContextTypeOK, KindOf, HeapKept
<1>10. StacksBalanced'
  <2>1. calls' = Append(calls, c)
    BY DEF OpenBlock
  <2>2. c.node = "block"
    BY DEF NewCall
  <2> HIDE DEF c
  <2>3. CurrentDepths' = DepthsInside(c)
    BY <1>6, <1>7, <1>8, <2>2 DEF OpenBlock, CurrentDepths, DepthsInside
  <2> QED BY <1>6, <2>1, <2>3, PushBalanced
<1> QED BY <1>9, <1>10 DEF IInv

(* Leaving a block, by its end or by an error, undoes what opening did. *)
LEMMA LeaveBlockStep ==
  ASSUME IInv, At("block", "statements"), LeaveBlock, mode' = "return",
         value' \in [type : Pointer, name : {NoName}]
  PROVE  IInv'
<1>1. HeapKept
  BY HeapUnchanged DEF IInv, LeaveBlock
<1>2. calls # << >> /\ Top.node = "block"
  BY DEF At
<1>3. Len(scopes) > 1 /\ Len(thisStack) > 0 /\ Len(scopes) \in Nat /\ Len(thisStack) \in Nat
  BY <1>2, DepthsAtTop DEF Depths
<1>4. /\ PopScope \in Seq(Scope(Pointer')) /\ PopScope # << >>
      /\ Len(PopScope) = Len(scopes) - 1
  BY <1>1, <1>3, StillTyped, PopScopeOK DEF IInv
<1>5. Front(thisStack) \in Seq(Pointer') /\ Len(Front(thisStack)) = Len(thisStack) - 1
  <2>1. thisStack \in Seq(Pointer') /\ thisStack # << >>
    BY <1>1, <1>3, StillTyped DEF IInv
  <2> QED BY <2>1, FrontFacts
<1>6. Front(calls) \in Seq(Call(Pointer'))
  BY <1>1, StillTyped, FrontFacts DEF IInv
<1>7. reports' \in Seq(Nat)
  BY ReportsTyped DEF IInv, LeaveBlock
<1>8. TypeOK'
  BY <1>1, <1>4, <1>5, <1>6, <1>7, StillTyped
     DEF IInv, LeaveBlock, TypeOK, ContextTypeOK, KindOf, HeapKept
<1>9. CurrentDepths' = Top.entry
  BY <1>2, <1>4, <1>5, DepthsAtTop DEF LeaveBlock, CurrentDepths, Depths
<1>10. StacksBalanced'
  BY <1>2, <1>9, PopBalanced DEF LeaveBlock
<1> QED BY <1>8, <1>10 DEF IInv

(* A declared statement adds a field of an allocated type to the block. *)
LEMMA StatementDoneStep ==
  ASSUME IInv, StatementDone
  PROVE  IInv'
<1> USE DEF StatementDone, walkHistory
<1>1. HeapKept
  <2>1. HeapOK(heap) /\ value.type \in 0 .. Len(heap) /\ value.name \in Name \cup {NoName}
        /\ Len(heap) \in Nat
    BY DEF IInv, TypeOK, ContextTypeOK, Pointer, HeapOK
  <2>2. CASE value.name = NoName
    BY <2>2, HeapUnchanged DEF IInv
  <2>3. CASE value.name # NoName
    <3>1. heap' = AddField(heap, Top.self, value.name, value.type)
      BY <2>3
    <3>2. value.name \in Name
      BY <2>1, <2>3
    <3> QED BY <2>1, <3>1, <3>2, HeapAddField DEF HeapKept
  <2> QED BY <2>2, <2>3
<1>2. TypeOK'
  BY <1>1, StillTyped DEF IInv, TypeOK, ContextTypeOK, KindOf, HeapKept
<1>3. StacksBalanced'
  BY SameBalanced DEF CurrentDepths
<1> QED BY <1>2, <1>3 DEF IInv

-----------------------------------------------------------------------------
(* Functions *)

(* What a new activation records about the context. *)
LEMMA NewCallTyped ==
  ASSUME IInv, HeapKept,
         NEW node \in {"block", "func", "decl", "forward", "import", "overload"},
         NEW stage \in {"statements", "init", "param", "body", "module", "operand"},
         NEW n \in Name \cup {NoName}, node \in {"decl", "forward"} => n \in Name,
         NEW t \in Pointer'
  PROVE  \A c : c = NewCall(node, stage, n, t) =>
           /\ c \in Call(Pointer')
           /\ c.entry = CurrentDepths
           /\ c.node = node /\ c.stage = stage
           /\ Append(calls, c) \in Seq(Call(Pointer'))
<1> TAKE c
<1> HAVE c = NewCall(node, stage, n, t)
<1>1. CurrentDepths \in Depths
  <2>1. /\ Len(scopes) \in Nat \ {0} /\ Len(thisStack) \in Nat
        /\ Len(funcStack) \in Nat /\ Len(fileStack) \in Nat
    BY DEF IInv, TypeOK, ContextTypeOK
  <2> QED BY <2>1 DEF CurrentDepths, Depths
<1>2. Null \in Pointer' /\ calls \in Seq(Call(Pointer')) /\ silenced \in BOOLEAN
  BY StillTyped DEF IInv, TypeOK
<1>3. c \in Call(Pointer') /\ c.entry = CurrentDepths /\ c.node = node /\ c.stage = stage
  BY <1>1, <1>2 DEF Call, NewCall
<1>4. Append(calls, c) \in Seq(Call(Pointer'))
  BY <1>2, <1>3
<1> QED BY <1>3, <1>4

(* A function literal first opens a scope for its parameters. *)
LEMMA OpenFuncStep ==
  ASSUME IInv, OpenFunc, fuel' \in Nat
  PROVE  IInv'
<1> DEFINE c == NewCall("func", "param", NoName, Null)
<1>1. HeapKept
  BY HeapUnchanged DEF IInv, OpenFunc
<1>2. /\ c.entry = CurrentDepths /\ c.node = "func" /\ c.stage = "param"
      /\ Append(calls, c) \in Seq(Call(Pointer'))
  <2>1. Null \in Pointer' /\ NoName \in Name \cup {NoName}
    BY <1>1, StillTyped DEF IInv
  <2>2. c = NewCall("func", "param", NoName, Null)
    OBVIOUS
  <2> HIDE DEF c
  <2> QED BY <1>1, <2>1, <2>2, NewCallTyped
<1>3. PushScope \in Seq(Scope(Pointer')) /\ Len(PushScope) = Len(scopes) + 1 /\ PushScope # << >>
  BY <1>1, StillTyped, PushScopeOK DEF IInv
<1>4. calls' = Append(calls, c)
  BY DEF OpenFunc
<1> HIDE DEF c
<1>5. TypeOK'
  BY <1>1, <1>2, <1>3, <1>4, StillTyped
     DEF IInv, OpenFunc, walkHistory, TypeOK, ContextTypeOK, KindOf, HeapKept
<1>6. CurrentDepths' = DepthsInside(c)
  BY <1>2, <1>3 DEF OpenFunc, CurrentDepths, DepthsInside
<1>7. StacksBalanced'
  BY <1>2, <1>4, <1>6, PushBalanced
<1> QED BY <1>5, <1>7 DEF IInv

(* The error path of a parameter pops the scope, and only that. *)
LEMMA ParamFailsStep ==
  ASSUME IInv, ParamFails
  PROVE  IInv'
<1>1. HeapKept
  BY HeapUnchanged DEF IInv, ParamFails
<1>2. calls # << >> /\ Top.node = "func" /\ Top.stage = "param"
  BY DEF At, ParamFails
<1>3. Len(scopes) > 1 /\ Len(scopes) \in Nat
  BY <1>2, DepthsAtTop DEF Depths
<1>4. /\ PopScope \in Seq(Scope(Pointer')) /\ PopScope # << >>
      /\ Len(PopScope) = Len(scopes) - 1
  BY <1>1, <1>3, StillTyped, PopScopeOK DEF IInv
<1>5. Front(calls) \in Seq(Call(Pointer'))
  BY <1>1, StillTyped, FrontFacts DEF IInv
<1>6. reports' \in Seq(Nat)
  BY ReportsTyped DEF IInv, ParamFails
<1>7. value' \in [type : Pointer', name : Name \cup {NoName}] /\ mode' = "return"
  BY <1>1, StillTyped DEF IInv, ParamFails, Fail, Return
<1>8. TypeOK'
  BY <1>1, <1>4, <1>5, <1>6, <1>7, StillTyped
     DEF IInv, ParamFails, TypeOK, ContextTypeOK, KindOf, HeapKept
<1>9. CurrentDepths' = Top.entry
  BY <1>2, <1>4, DepthsAtTop DEF ParamFails, CurrentDepths, Depths
<1>10. StacksBalanced'
  BY <1>2, <1>9, PopBalanced DEF ParamFails
<1> QED BY <1>8, <1>10 DEF IInv

(* Leaving a function pops its scope and its entry of func_stack. *)
LEMMA LeaveFuncStep ==
  ASSUME IInv, At("func", "body"), LeaveFunc, HeapKept, mode' = "return",
         value' \in [type : Pointer', name : Name \cup {NoName}]
  PROVE  IInv'
<1>1. calls # << >> /\ Top.node = "func" /\ Top.stage = "body"
  BY DEF At
<1>2. /\ Len(scopes) > 1 /\ Len(funcStack) > 0
      /\ Len(scopes) \in Nat /\ Len(funcStack) \in Nat
  BY <1>1, DepthsAtTop DEF Depths
<1>3. /\ PopScope \in Seq(Scope(Pointer')) /\ PopScope # << >>
      /\ Len(PopScope) = Len(scopes) - 1
  BY <1>2, StillTyped, PopScopeOK DEF IInv
<1>4. Front(funcStack) \in Seq(Pointer') /\ Len(Front(funcStack)) = Len(funcStack) - 1
  <2>1. funcStack \in Seq(Pointer') /\ funcStack # << >>
    BY <1>2, StillTyped DEF IInv
  <2> QED BY <2>1, FrontFacts
<1>5. Front(calls) \in Seq(Call(Pointer')) /\ Front(returned) \in Seq(SUBSET (Pointer'))
  BY StillTyped, FrontFacts DEF IInv
<1>6. reports' \in Seq(Nat)
  BY ReportsTyped DEF IInv, LeaveFunc
<1>7. TypeOK'
  BY <1>3, <1>4, <1>5, <1>6, StillTyped
     DEF IInv, LeaveFunc, TypeOK, ContextTypeOK, KindOf, HeapKept
<1>8. CurrentDepths' = Top.entry
  BY <1>1, <1>3, <1>4, DepthsAtTop DEF LeaveFunc, CurrentDepths, Depths
<1>9. StacksBalanced'
  BY <1>1, <1>8, PopBalanced DEF LeaveFunc
<1> QED BY <1>7, <1>9 DEF IInv

(* The error path of a body leaves the function. *)
LEMMA BodyFailsStep ==
  ASSUME IInv, BodyFails
  PROVE  IInv'
<1>1. HeapKept
  BY HeapUnchanged DEF IInv, BodyFails
<1>2. value' \in [type : Pointer', name : Name \cup {NoName}] /\ mode' = "return"
  BY <1>1, StillTyped DEF IInv, BodyFails, Fail, Return
<1> QED BY <1>1, <1>2, LeaveFuncStep DEF BodyFails

(* A function type whose parts are allocated can be allocated. *)
LEMMA AllocateFunc ==
  ASSUME NEW h, HeapOK(h), NEW p \in 0 .. Len(h), NEW r \in 0 .. Len(h)
  PROVE  /\ HeapOK(Append(h, FuncType(p, r)))
         /\ Len(Append(h, FuncType(p, r))) = Len(h) + 1
         /\ SameKinds(h, Append(h, FuncType(p, r)))
         /\ Append(h, FuncType(p, r))[Len(h) + 1] = FuncType(p, r)
<1> DEFINE o == FuncType(p, r)
<1>1. o \in TypeObject(Len(h)) /\ Len(o.parts) >= Arity(o.kind)
  BY DEF FuncType, Obj, TypeObject, TypeKind, Arity
<1> HIDE DEF o
<1>2. HeapOK(Append(h, o)) /\ Len(Append(h, o)) = Len(h) + 1
  BY <1>1, HeapAppend
<1>3. SameKinds(h, Append(h, o)) /\ Append(h, o)[Len(h) + 1] = o
  BY <1>1, HeapAppend
<1> QED BY <1>2, <1>3 DEF o

(* A typed body returns a new function type and leaves the function. *)
LEMMA BodyDoneStep ==
  ASSUME IInv, BodyDone
  PROVE  IInv'
<1> DEFINE g == SetPart(heap, Top.self, 2, BodyReturnType)
           f == FuncType(Top.param, BodyReturnType)
<1>1. HeapOK(heap) /\ Len(heap) \in Nat
  BY DEF IInv, TypeOK, ContextTypeOK, HeapOK
<1>2. BodyReturnType \in 0 .. Len(heap)
  BY DEF IInv, TypeOK, ContextTypeOK, Pointer, BodyReturnType
<1>3. Top.param \in 0 .. Len(heap)
  BY DepthsAtTop DEF BodyDone, At, Call, Pointer
<1>4. HeapOK(g) /\ Len(g) = Len(heap) /\ SameKinds(heap, g)
  BY <1>1, <1>2, HeapSetPart
<1>5. heap' = Append(g, f)
  BY DEF BodyDone
<1> HIDE DEF g
<1>6. HeapOK(heap') /\ Len(heap') = Len(heap) + 1 /\ SameKinds(g, heap')
  BY <1>2, <1>3, <1>4, <1>5, AllocateFunc
<1>7. HeapKept
  BY <1>1, <1>4, <1>6 DEF HeapKept, SameKinds
<1>8. NextType \in Pointer'
  BY <1>1, <1>6 DEF NextType, Pointer
<1>9. value' \in [type : Pointer', name : Name \cup {NoName}] /\ mode' = "return"
  BY <1>8 DEF BodyDone, Return
<1> QED BY <1>7, <1>9, LeaveFuncStep DEF BodyDone

(* A typed parameter makes the placeholder, or a new type, the current function. *)
LEMMA ParamDoneStep ==
  ASSUME IInv, ParamDone
  PROVE  IInv'
<1> DEFINE current == IF pendingFunc = Null THEN NextType ELSE pendingFunc
           c == [Top EXCEPT !.stage = "body", !.self = current, !.param = value.type]
<1>1. /\ HeapOK(heap) /\ Len(heap) \in Nat /\ value.type \in 0 .. Len(heap)
      /\ UnknownType \in 0 .. Len(heap) /\ pendingFunc \in 0 .. Len(heap)
  BY DEF IInv, TypeOK, ContextTypeOK, Pointer, HeapOK, UnknownType, MutIntType
<1>2. calls # << >> /\ Top.node = "func" /\ Top.stage = "param"
  BY DEF At, ParamDone
<1>3. HeapKept /\ current \in 1 .. Len(heap') /\ heap'[current].kind = "func"
  <2>1. CASE pendingFunc = Null
    <3>1. heap' = Append(heap, FuncType(value.type, UnknownType)) /\ current = Len(heap) + 1
      BY <2>1 DEF ParamDone, NextType
    <3>2. /\ HeapOK(heap') /\ Len(heap') = Len(heap) + 1 /\ SameKinds(heap, heap')
          /\ heap'[Len(heap) + 1] = FuncType(value.type, UnknownType)
      BY <1>1, <3>1, AllocateFunc
    <3> QED BY <1>1, <3>1, <3>2 DEF HeapKept, FuncType, Obj
  <2>2. CASE pendingFunc # Null
    <3>1. heap' = SetPart(heap, pendingFunc, 1, value.type) /\ current = pendingFunc
      BY <2>2 DEF ParamDone
    <3>2. HeapOK(heap') /\ Len(heap') = Len(heap) /\ SameKinds(heap, heap')
      BY <1>1, <3>1, HeapSetPart
    <3>3. heap[pendingFunc].kind = "func" /\ pendingFunc \in 1 .. Len(heap)
      BY <1>1, <2>2 DEF IInv, TypeOK, ContextTypeOK, KindOf, Null
    <3> QED BY <1>1, <3>1, <3>2, <3>3 DEF HeapKept, SameKinds
  <2> QED BY <2>1, <2>2
<1>4. ReturnOf(heap', current) \in Pointer' /\ current \in Pointer'
  <2>1. HeapOK(heap') /\ Len(heap') \in Nat
    BY <1>3 DEF HeapKept, HeapOK
  <2> HIDE DEF current
  <2>2. ReturnOf(heap', current) \in 0 .. Len(heap')
    BY <1>3, <2>1, FuncParts
  <2> QED BY <1>3, <2>1, <2>2 DEF Pointer
<1>5. /\ funcStack' = Append(funcStack, current)
      /\ expectedRet' = ReturnOf(heap', current)
      /\ calls' = [calls EXCEPT ![Len(calls)] = c]
      /\ UNCHANGED << scopes, functions, thisStack, fileType, globalType, fileStack,
                      globalStack, value, pass, silenced, loaded, fuel, bodies, reports >>
      /\ pendingFunc' = Null /\ mode' = "eval" /\ returned' = Append(returned, {})
  BY DEF ParamDone, Top, Last
<1>6. Top \in Call(Pointer') /\ value.type \in Pointer' /\ calls \in Seq(Call(Pointer'))
  BY <1>2, <1>3, StillTyped, LastInSet DEF IInv, Top
<1> HIDE DEF current
<1>7. c \in Call(Pointer') /\ c.node = "func" /\ c.stage = "body" /\ c.entry = Top.entry
  BY <1>2, <1>4, <1>6 DEF Call
<1>8. /\ calls' \in Seq(Call(Pointer'))
      /\ Len(calls') = Len(calls) /\ Len(calls) \in Nat \ {0}
      /\ \A i \in 1 .. Len(calls) : calls'[i] = IF i = Len(calls) THEN c ELSE calls[i]
  <2> HIDE DEF c
  <2> QED BY <1>2, <1>5, <1>6, <1>7, ExceptSeq
<1>9. /\ funcStack' \in Seq(Pointer') /\ Len(funcStack') = Len(funcStack) + 1
      /\ returned' \in Seq(SUBSET (Pointer'))
  BY <1>3, <1>4, <1>5, StillTyped DEF IInv
<1> HIDE DEF c
<1>10. TypeOK'
  BY <1>3, <1>4, <1>5, <1>8, <1>9, StillTyped
     DEF IInv, TypeOK, ContextTypeOK, KindOf, HeapKept
<1>11. Top' = c /\ calls' # << >>
  BY <1>8 DEF Top, Last
<1>12. CurrentDepths' = DepthsInside(Top')
  <2>1. /\ Len(scopes) = Top.entry.scopes + 1 /\ Len(thisStack) = Top.entry.this + 0
        /\ Len(funcStack) = Top.entry.funcs + 0 /\ Len(fileStack) = Top.entry.files + 0
        /\ Top.entry \in Depths
    BY <1>2, DepthsAtTop
  <2>2. CurrentDepths' = [scopes |-> Len(scopes), this |-> Len(thisStack),
                          funcs |-> Len(funcStack) + 1, files |-> Len(fileStack)]
    BY <1>5, <1>9 DEF CurrentDepths
  <2>3. DepthsInside(c) = [scopes |-> Top.entry.scopes + 1, this |-> Top.entry.this + 0,
                           funcs |-> Top.entry.funcs + 1, files |-> Top.entry.files + 0]
    BY <1>7 DEF DepthsInside
  <2>4. Top.entry.funcs \in Nat
    BY <2>1 DEF Depths
  <2> HIDE DEF Top, c
  <2> QED BY <1>11, <2>1, <2>2, <2>3, <2>4
<1>13. \A i \in 1 .. Len(calls) : calls'[i].entry = calls[i].entry
  BY <1>7, <1>8 DEF Top, Last
<1>14. ASSUME NEW i \in 1 .. Len(calls') - 1
       PROVE  calls'[i + 1].entry = DepthsInside(calls'[i])
  <2>1. i \in 1 .. Len(calls) - 1 /\ calls'[i] = calls[i]
    BY <1>8
  <2>2. calls'[i + 1].entry = calls[i + 1].entry
    BY <1>8, <1>13
  <2> QED BY <2>1, <2>2 DEF IInv, StacksBalanced
<1>15. calls'[1].entry = [scopes |-> 1, this |-> 0, funcs |-> 0, files |-> 0]
  BY <1>8, <1>13 DEF IInv, StacksBalanced
<1>16. StacksBalanced'
  BY <1>11, <1>12, <1>14, <1>15 DEF StacksBalanced
<1> QED BY <1>10, <1>16 DEF IInv

(* $ret writes the return type of the current function, if any. *)
LEMMA RecordReturnKeeps ==
  ASSUME IInv, NEW t \in Pointer, RecordReturn(t)
  PROVE  /\ HeapKept /\ expectedRet' \in Pointer' /\ VoidType \in Pointer'
         /\ returned' \in Seq(SUBSET (Pointer'))
         /\ UNCHANGED << scopes, functions, thisStack, funcStack, fileType, globalType,
                         fileStack, globalStack, pendingFunc, bodies, reports >>
<1>1. HeapOK(heap)
  BY DEF IInv, TypeOK, ContextTypeOK
<1>2. UNCHANGED << heap, expectedRet >> \/ EstablishReturn(t)
  BY DEF RecordReturn
<1>3. HeapKept
  <2>1. heap' = heap \/ heap' = SetPart(heap, Last(funcStack), 2, t)
    BY <1>2 DEF EstablishReturn
  <2>2. CASE heap' = heap
    BY <2>2, HeapUnchanged DEF IInv
  <2>3. CASE heap' = SetPart(heap, Last(funcStack), 2, t)
    <3>1. HeapOK(heap') /\ Len(heap') = Len(heap) /\ SameKinds(heap, heap')
      BY <1>1, <2>3, HeapSetPart DEF Pointer
    <3>2. Len(heap) \in Nat
      BY <1>1 DEF HeapOK
    <3> QED BY <3>1, <3>2 DEF HeapKept
  <2> QED BY <2>1, <2>2, <2>3
<1>4. expectedRet' \in Pointer' /\ t \in Pointer' /\ VoidType \in Pointer'
  <2>1. t \in Pointer' /\ expectedRet \in Pointer'
    BY <1>3, StillTyped DEF IInv
  <2>2. VoidType \in Pointer'
    BY <1>3 DEF HeapKept, HeapOK, Pointer, VoidType, MutIntType
  <2> QED BY <1>2, <2>1, <2>2 DEF EstablishReturn
<1>5. returned' \in Seq(SUBSET (Pointer'))
  <2>1. returned \in Seq(SUBSET (Pointer'))
    BY <1>3, StillTyped DEF IInv
  <2>2. CASE returned' = returned
    BY <2>1, <2>2
  <2>3. CASE returned # << >> /\ returned' = [returned EXCEPT ![Len(returned)] = @ \cup {t}]
    <3>1. returned[Len(returned)] \cup {t} \in SUBSET (Pointer')
      BY <1>4, <2>1, <2>3
    <3> QED BY <2>1, <2>3, <3>1, ExceptInSeq
  <2> QED BY <2>2, <2>3 DEF RecordReturn
<1> QED BY <1>3, <1>4, <1>5 DEF RecordReturn

(* A $ret statement leaves the activations alone. *)
LEMMA VisitRetStep ==
  ASSUME IInv, NEW l \in Leaf, VisitRet(l)
  PROVE  IInv'
<1> DEFINE t == LeafType(l)
<1>1. t \in Pointer
  BY LeafTypeOK DEF IInv
<1>2. RecordReturn(t)
  BY DEF VisitRet
<1>3. value' \in [type : {Null, VoidType}, name : {NoName}] /\ mode' = "return"
  BY DEF VisitRet, Fail, Return
<1>4. UNCHANGED << calls, pass, silenced, loaded >> /\ fuel' \in Nat
  BY DEF VisitRet, Spend, IInv, TypeOK
<1> HIDE DEF t
<1>5. TypeOK'
  BY <1>1, <1>2, <1>3, <1>4, RecordReturnKeeps, StillTyped
     DEF IInv, TypeOK, ContextTypeOK, KindOf, HeapKept
<1>6. StacksBalanced'
  BY <1>1, <1>2, <1>4, RecordReturnKeeps, SameBalanced DEF CurrentDepths
<1> QED BY <1>5, <1>6 DEF IInv

-----------------------------------------------------------------------------
(* Declarations and stubs *)

(* A declaration or a stub starts to type its initialiser, or an overload  *)
(* the operands of its candidates.                                         *)
LEMMA PushPlainCall ==
  ASSUME IInv, NEW node \in {"decl", "forward", "overload"}, NEW stage \in {"init", "operand"},
         NEW n \in Name \cup {NoName}, node \in {"decl", "forward"} => n \in Name,
         UNCHANGED ctxVars, calls' = Append(calls, NewCall(node, stage, n, Null)),
         UNCHANGED << mode, value, pass, loaded, walkHistory >>,
         silenced' \in BOOLEAN, fuel' \in Nat
  PROVE  IInv'
<1> DEFINE c == NewCall(node, stage, n, Null)
<1> USE DEF ctxVars, walkHistory
<1>1. HeapKept
  BY HeapUnchanged DEF IInv
<1>2. /\ c.entry = CurrentDepths /\ c.node = node
      /\ Append(calls, c) \in Seq(Call(Pointer')) /\ calls' = Append(calls, c)
  <2>1. Null \in Pointer'
    BY <1>1, StillTyped DEF IInv
  <2>2. c = NewCall(node, stage, n, Null) /\ calls' = Append(calls, c)
    OBVIOUS
  <2> HIDE DEF c
  <2> QED BY <1>1, <2>1, <2>2, NewCallTyped
<1> HIDE DEF c
<1>3. TypeOK'
  BY <1>1, <1>2, StillTyped DEF IInv, TypeOK, ContextTypeOK, KindOf, HeapKept
<1>4. CurrentDepths' = DepthsInside(c)
  BY <1>2, DepthsAtTop DEF CurrentDepths, DepthsInside
<1>5. StacksBalanced'
  BY <1>2, <1>4, PushBalanced
<1> QED BY <1>3, <1>5 DEF IInv

(* A declaration starts by typing its initialiser. *)
LEMMA VisitDeclStep ==
  ASSUME IInv, NEW n \in Name, VisitDecl(n)
  PROVE  IInv'
<1>1. fuel' \in Nat /\ silenced' \in BOOLEAN
  BY DEF VisitDecl, Spend, IInv, TypeOK
<1> QED BY <1>1, PushPlainCall DEF VisitDecl

(* A stub starts by typing its function type. *)
LEMMA VisitForwardStep ==
  ASSUME IInv, NEW n \in Name, VisitForward(n)
  PROVE  IInv'
<1>1. fuel' \in Nat /\ silenced' \in BOOLEAN
  BY DEF VisitForward, Spend, IInv, TypeOK
<1> QED BY <1>1, PushPlainCall DEF VisitForward

(* The placeholder of a declared function is a function type. *)
LEMMA VisitDeclFuncStep ==
  ASSUME IInv, NEW n \in Name, VisitDeclFunc(n)
  PROVE  IInv'
<1> DEFINE c == NewCall("decl", "init", n, NextType)
           o == FuncType(UnknownType, UnknownType)
<1>1. HeapOK(heap) /\ Len(heap) \in Nat /\ UnknownType \in 0 .. Len(heap)
  BY DEF IInv, TypeOK, ContextTypeOK, HeapOK, UnknownType, MutIntType
<1>2. heap' = Append(heap, o)
  BY DEF VisitDeclFunc
<1>3. /\ HeapOK(heap') /\ Len(heap') = Len(heap) + 1 /\ SameKinds(heap, heap')
      /\ heap'[Len(heap) + 1] = o
  BY <1>1, <1>2, AllocateFunc
<1>4. HeapKept
  BY <1>1, <1>3 DEF HeapKept
<1>5. NextType \in Pointer' /\ heap'[NextType].kind = "func"
  BY <1>1, <1>3 DEF NextType, Pointer, FuncType, Obj
<1> HIDE DEF o
<1>6. /\ c.entry = CurrentDepths /\ c.node = "decl"
      /\ Append(calls, c) \in Seq(Call(Pointer')) /\ calls' = Append(calls, c)
  <2>1. c = NewCall("decl", "init", n, NextType) /\ calls' = Append(calls, c)
    BY DEF VisitDeclFunc
  <2>2. n \in Name \cup {NoName}
    OBVIOUS
  <2> HIDE DEF c
  <2> QED BY <1>4, <1>5, <2>1, <2>2, NewCallTyped
<1> HIDE DEF c
<1>7. /\ scopes' \in Seq(Scope(Pointer')) /\ Len(scopes') = Len(scopes) /\ scopes' # << >>
      /\ functions' \in Seq(VarEntry(Pointer'))
  <2>1. /\ scopes \in Seq(Scope(Pointer')) /\ scopes # << >>
        /\ functions \in Seq(VarEntry(Pointer'))
    BY <1>4, StillTyped DEF IInv
  <2>2. scopes' = DefineVar(scopes, n, NextType) /\ functions' = DefineFunc(n, NextType)
    BY DEF VisitDeclFunc
  <2> QED BY <1>5, <2>1, <2>2, DefineVarOK, DefineFuncOK
<1>8. /\ UNCHANGED << thisStack, funcStack, fileType, globalType, fileStack, globalStack,
                      expectedRet, mode, value, pass, silenced, loaded, returned, bodies, reports >>
      /\ pendingFunc' = NextType /\ fuel' \in Nat
  BY DEF VisitDeclFunc, walkHistory, Spend, IInv, TypeOK
<1>9. TypeOK'
  BY <1>4, <1>5, <1>6, <1>7, <1>8, StillTyped
     DEF IInv, TypeOK, ContextTypeOK, KindOf, HeapKept
<1>10. CurrentDepths' = DepthsInside(c)
  BY <1>6, <1>7, <1>8 DEF CurrentDepths, DepthsInside
<1>11. StacksBalanced'
  BY <1>6, <1>10, PushBalanced
<1> QED BY <1>9, <1>11 DEF IInv

(* A declaration or a stub returns: it opened no scope and pushed nothing  *)
(* but its own activation.                                                 *)
LEMMA PopPlainCall ==
  ASSUME IInv, calls # << >>, Top.node \in {"decl", "forward"}, calls' = Front(calls),
         mode' = "return", value' \in [type : Pointer, name : Name \cup {NoName}],
         scopes' \in Seq(Scope(Pointer)), scopes' # << >>, Len(scopes') = Len(scopes),
         functions' \in Seq(VarEntry(Pointer)),
         pendingFunc' \in {Null, pendingFunc},
         bodies' \in Seq(Nat), reports' \in Seq(Nat),
         UNCHANGED << heap, thisStack, funcStack, fileType, globalType, fileStack,
                      globalStack, expectedRet, pass, silenced, loaded, fuel, returned >>
  PROVE  IInv'
<1>1. HeapKept
  BY HeapUnchanged DEF IInv
<1>2. Pointer' = Pointer
  BY DEF Pointer
<1>3. Front(calls) \in Seq(Call(Pointer'))
  BY <1>1, StillTyped, FrontFacts DEF IInv
<1>4. TypeOK'
  BY <1>1, <1>2, <1>3, StillTyped DEF IInv, TypeOK, ContextTypeOK, KindOf, HeapKept
<1>5. CurrentDepths' = Top.entry
  <2>1. /\ Top.entry \in Depths
        /\ Len(scopes) = Top.entry.scopes + (IF Top.node \in {"block", "func"} THEN 1 ELSE 0)
        /\ Len(thisStack) = Top.entry.this + (IF Top.node = "block" THEN 1 ELSE 0)
        /\ Len(funcStack) =
             Top.entry.funcs + (IF Top.node = "func" /\ Top.stage = "body" THEN 1 ELSE 0)
        /\ Len(fileStack) = Top.entry.files + (IF Top.node = "import" THEN 1 ELSE 0)
    BY DepthsAtTop, Zenon
  <2>2. /\ Len(scopes') = Top.entry.scopes /\ Len(thisStack') = Top.entry.this
        /\ Len(funcStack') = Top.entry.funcs /\ Len(fileStack') = Top.entry.files
    BY <2>1 DEF Depths
  <2> QED BY <2>1, <2>2 DEF CurrentDepths, Depths
<1>6. StacksBalanced'
  BY <1>5, PopBalanced
<1> QED BY <1>4, <1>6 DEF IInv

(* What these steps know of the state they start in. *)
LEMMA DeclarationTyped ==
  ASSUME IInv, calls # << >>
  PROVE  /\ scopes \in Seq(Scope(Pointer)) /\ scopes # << >>
         /\ functions \in Seq(VarEntry(Pointer))
         /\ Null \in Pointer /\ value.type \in Pointer
         /\ Top.node \in {"decl", "forward"} => Top.name \in Name
         /\ bodies \in Seq(Nat) /\ reports \in Seq(Nat)
<1>1. Top \in Call(Pointer)
  BY DepthsAtTop
<1> QED BY <1>1 DEF IInv, TypeOK, ContextTypeOK, HeapOK, Pointer, Null, Call

(* A failed initialiser drops the placeholder. *)
LEMMA InitFailsStep ==
  ASSUME IInv, InitFails
  PROVE  IInv'
<1>1. calls # << >> /\ Top.node = "decl"
  BY DEF InitFails, At
<1>2. value' \in [type : Pointer, name : Name \cup {NoName}] /\ mode' = "return"
  BY <1>1, DeclarationTyped DEF InitFails, Fail, Return
<1> QED BY <1>1, <1>2, DeclarationTyped, PopPlainCall DEF InitFails, walkHistory

(* A body marks a stub of the innermost scope. *)
LEMMA DefinesBodyStep ==
  ASSUME IInv, DefinesBody
  PROVE  IInv'
<1> DEFINE k == LookupForward(Top.name)
           s == Last(scopes).forwards[k].stub
<1>1. calls # << >> /\ Top.node = "decl"
  BY DEF DefinesBody, At
<1>2. value' \in [type : Pointer, name : Name \cup {NoName}] /\ mode' = "return"
  BY <1>1, DeclarationTyped DEF DefinesBody, Fail, Return, ReturnDeclared
<1>3. /\ scopes' \in {scopes, DefineForwardBody(k)}
      /\ bodies' \in {bodies, [bodies EXCEPT ![s] = @ + 1]}
  BY DEF DefinesBody
<1>4. bodies' \in Seq(Nat)
  <2>1. bodies \in Seq(Nat)
    BY <1>1, DeclarationTyped
  <2> HIDE DEF s
  <2>2. [bodies EXCEPT ![s] = @ + 1] =
          [j \in DOMAIN bodies |-> IF j = s THEN bodies[j] + 1 ELSE bodies[j]]
    BY <2>1
  <2>3. [j \in DOMAIN bodies |-> IF j = s THEN bodies[j] + 1 ELSE bodies[j]] \in Seq(Nat)
    BY <2>1
  <2> QED BY <1>3, <2>1, <2>2, <2>3
<1> HIDE DEF k
<1>5. scopes' \in Seq(Scope(Pointer)) /\ scopes' # << >> /\ Len(scopes') = Len(scopes)
  BY <1>1, <1>3, DeclarationTyped, DefineForwardBodyOK
<1>6. /\ UNCHANGED << heap, functions, thisStack, funcStack, fileType, globalType, fileStack,
                      globalStack, expectedRet, pass, silenced, loaded, fuel, returned, reports >>
      /\ pendingFunc' \in {Null, pendingFunc} /\ calls' = Front(calls)
  BY DEF DefinesBody
<1> QED BY <1>1, <1>2, <1>4, <1>5, <1>6, DeclarationTyped, PopPlainCall

(* A declared function rebinds its placeholder. *)
LEMMA DefinesFuncStep ==
  ASSUME IInv, DefinesFunc
  PROVE  IInv'
<1>1. calls # << >> /\ Top.node = "decl"
  BY DEF DefinesFunc, At
<1>2. value' \in [type : Pointer, name : Name \cup {NoName}] /\ mode' = "return"
  BY <1>1, DeclarationTyped DEF DefinesFunc, ReturnDeclared
<1>3. /\ scopes' \in Seq(Scope(Pointer)) /\ scopes' # << >> /\ Len(scopes') = Len(scopes)
      /\ functions' \in Seq(VarEntry(Pointer))
  BY <1>1, DeclarationTyped, UpdateVarOK, UpdateFuncOK DEF DefinesFunc
<1> QED BY <1>1, <1>2, <1>3, DeclarationTyped, PopPlainCall DEF DefinesFunc, walkHistory

(* A declared variable is bound once in the innermost scope. *)
LEMMA DefinesVarStep ==
  ASSUME IInv, DefinesVar
  PROVE  IInv'
<1> DEFINE n == Top.name
<1>1. calls # << >> /\ Top.node = "decl"
  BY DEF DefinesVar, At
<1>2. n \in Name /\ scopes \in Seq(Scope(Pointer)) /\ Null \in Pointer
  BY <1>1, DeclarationTyped
<1>3. LookupVar(n) \in Pointer
  BY <1>2, LookupVarOK
<1>4. value' \in [type : Pointer, name : Name \cup {NoName}] /\ mode' = "return"
  BY <1>1, <1>2, <1>3, DeclarationTyped DEF DefinesVar, Fail, Return, ReturnDeclared
<1>5. scopes' \in {scopes, DefineVar(scopes, n, value.type)}
  BY DEF DefinesVar
<1>6. scopes' \in Seq(Scope(Pointer)) /\ scopes' # << >> /\ Len(scopes') = Len(scopes)
  BY <1>1, <1>2, <1>5, DeclarationTyped, DefineVarOK
<1>7. /\ UNCHANGED << heap, functions, thisStack, funcStack, fileType, globalType, fileStack,
                      globalStack, expectedRet, pendingFunc, pass, silenced, loaded, fuel,
                      returned, bodies, reports >>
      /\ calls' = Front(calls)
  BY DEF DefinesVar, walkHistory
<1> QED BY <1>1, <1>4, <1>6, <1>7, DeclarationTyped, PopPlainCall

(* A stub is bound as a forward and as a variable of the scope. *)
LEMMA StubDoneStep ==
  ASSUME IInv, StubDone
  PROVE  IInv'
<1> DEFINE n == Top.name
           t == value.type
           id == Len(bodies) + 1
<1>1. calls # << >> /\ Top.node = "forward"
  BY DEF StubDone, At
<1>2. /\ n \in Name /\ t \in Pointer /\ Null \in Pointer /\ id \in Nat
      /\ scopes \in Seq(Scope(Pointer)) /\ scopes # << >>
      /\ bodies \in Seq(Nat) /\ reports \in Seq(Nat)
  BY <1>1, DeclarationTyped
<1>3. value' \in [type : Pointer, name : Name \cup {NoName}] /\ mode' = "return"
  BY <1>2 DEF StubDone, Fail, Return, ReturnDeclared
<1>4. /\ scopes' \in {scopes, DefineVar(DefineForward(scopes, n, t, id), n, t)}
      /\ functions' \in {functions, DefineFunc(n, t)}
      /\ bodies' \in {bodies, Append(bodies, 0)} /\ reports' \in {reports, Append(reports, 0)}
  BY DEF StubDone
<1>5. /\ UNCHANGED << heap, thisStack, funcStack, fileType, globalType, fileStack, globalStack,
                      expectedRet, pendingFunc, pass, silenced, loaded, fuel, returned >>
      /\ calls' = Front(calls)
  BY DEF StubDone
<1> HIDE DEF id
<1>6. scopes' \in Seq(Scope(Pointer)) /\ scopes' # << >> /\ Len(scopes') = Len(scopes)
  <2> DEFINE scs == DefineForward(scopes, n, t, id)
  <2>1. scs \in Seq(Scope(Pointer)) /\ scs # << >> /\ Len(scs) = Len(scopes)
    BY <1>2, DefineForwardOK
  <2> HIDE DEF scs
  <2>2. /\ DefineVar(scs, n, t) \in Seq(Scope(Pointer)) /\ DefineVar(scs, n, t) # << >>
        /\ Len(DefineVar(scs, n, t)) = Len(scopes)
    BY <1>2, <2>1, DefineVarOK
  <2> QED BY <1>2, <1>4, <2>2 DEF scs
<1>7. functions' \in Seq(VarEntry(Pointer))
  BY <1>1, <1>2, <1>4, DeclarationTyped, DefineFuncOK
<1>8. bodies' \in Seq(Nat) /\ reports' \in Seq(Nat)
  <2>1. Append(bodies, 0) \in Seq(Nat) /\ Append(reports, 0) \in Seq(Nat)
    <3>1. 0 \in Nat
      OBVIOUS
    <3> QED BY <1>2, <3>1, AppendProperties
  <2>2. /\ bodies' = bodies \/ bodies' = Append(bodies, 0)
        /\ reports' = reports \/ reports' = Append(reports, 0)
    BY <1>4
  <2> HIDE DEF n, t
  <2> QED BY <1>2, <2>1, <2>2
<1> QED BY <1>1, <1>2, <1>3, <1>5, <1>6, <1>7, <1>8, PopPlainCall

-----------------------------------------------------------------------------
(* Overloads *)

LEMMA VisitOverloadStep ==
  ASSUME IInv, VisitOverload
  PROVE  IInv'
<1>1. fuel' \in Nat /\ silenced' \in BOOLEAN
  BY DEF VisitOverload, Spend, IInv, TypeOK
<1> QED BY <1>1, PushPlainCall DEF VisitOverload

(* An overload returns: its candidates opened nothing that is still open.  *)
LEMMA EndOverloadStep ==
  ASSUME IInv, At("overload", "operand"), HeapKept, NEW t \in Pointer', EndOverload(t),
         expectedRet' \in Pointer', returned' \in Seq(SUBSET (Pointer')),
         UNCHANGED << scopes, functions, thisStack, funcStack, fileType, globalType,
                      fileStack, globalStack, pendingFunc, pass, loaded, fuel, bodies, reports >>
  PROVE  IInv'
<1>1. calls # << >> /\ Top.node = "overload" /\ Top.sink \in BOOLEAN
  BY DepthsAtTop DEF At, Call
<1>2. silenced' \in BOOLEAN
  BY <1>1 DEF EndOverload
<1>3. Front(calls) \in Seq(Call(Pointer')) /\ calls' = Front(calls)
  BY <1>1, StillTyped, FrontFacts DEF IInv, EndOverload
<1>4. value' \in [type : Pointer', name : Name \cup {NoName}] /\ mode' = "return"
  BY DEF EndOverload, Return
<1>5. TypeOK'
  BY <1>2, <1>3, <1>4, StillTyped DEF IInv, TypeOK, ContextTypeOK, KindOf, HeapKept
<1>6. CurrentDepths' = Top.entry
  BY <1>1, DepthsAtTop DEF CurrentDepths, Depths
<1> QED BY <1>1, <1>3, <1>5, <1>6, PopBalanced DEF IInv

(* An overload goes on with its next operand. *)
LEMMA NextOperandStep ==
  ASSUME IInv, At("overload", "operand"), HeapKept, NEW t \in Pointer', NextOperand(t),
         expectedRet' \in Pointer', returned' \in Seq(SUBSET (Pointer')),
         UNCHANGED << scopes, functions, thisStack, funcStack, fileType, globalType,
                      fileStack, globalStack, pendingFunc, pass, loaded, fuel, bodies, reports >>
  PROVE  IInv'
<1> DEFINE c == [Top EXCEPT !.self = t]
<1>1. calls # << >> /\ Top.node = "overload"
  BY DEF At
<1>2. Top \in Call(Pointer') /\ calls \in Seq(Call(Pointer'))
  BY <1>1, StillTyped, LastInSet DEF IInv, Top
<1>3. /\ calls' = [calls EXCEPT ![Len(calls)] = c] /\ mode' = "eval"
      /\ UNCHANGED << value, silenced >>
  BY DEF NextOperand, Top, Last
<1>4. c \in Call(Pointer') /\ c.entry = Top.entry /\ DepthsInside(c) = DepthsInside(Top)
  BY <1>1, <1>2 DEF Call, DepthsInside
<1>5. /\ calls' \in Seq(Call(Pointer'))
      /\ Len(calls') = Len(calls) /\ Len(calls) \in Nat \ {0}
      /\ \A i \in 1 .. Len(calls) : calls'[i] = IF i = Len(calls) THEN c ELSE calls[i]
  <2> HIDE DEF c
  <2> QED BY <1>1, <1>2, <1>3, <1>4, ExceptSeq
<1> HIDE DEF c
<1>6. TypeOK'
  BY <1>3, <1>5, StillTyped DEF IInv, TypeOK, ContextTypeOK, KindOf, HeapKept
<1>7. Top' = c /\ calls' # << >>
  BY <1>5 DEF Top, Last
<1>8. CurrentDepths' = DepthsInside(Top')
  BY <1>1, <1>4, <1>7 DEF CurrentDepths, IInv, StacksBalanced
<1>9. \A i \in 1 .. Len(calls) : calls'[i].entry = calls[i].entry
  BY <1>4, <1>5 DEF Top, Last
<1>10. ASSUME NEW i \in 1 .. Len(calls') - 1
       PROVE  calls'[i + 1].entry = DepthsInside(calls'[i])
  <2>1. i \in 1 .. Len(calls) - 1 /\ calls'[i] = calls[i]
    BY <1>5
  <2>2. calls'[i + 1].entry = calls[i + 1].entry
    BY <1>5, <1>9
  <2> QED BY <2>1, <2>2 DEF IInv, StacksBalanced
<1>11. calls'[1].entry = [scopes |-> 1, this |-> 0, funcs |-> 0, files |-> 0]
  BY <1>5, <1>9 DEF IInv, StacksBalanced
<1>12. StacksBalanced'
  BY <1>7, <1>8, <1>10, <1>11 DEF StacksBalanced
<1> QED BY <1>6, <1>12 DEF IInv

(* The steps of an overload (inference.c, the OVERLOAD node). *)
LEMMA OverloadSteps ==
  ASSUME IInv,
         \/ VisitOverload \/ OperandFails \/ OperandDone \/ CandidateRet \/ NoCandidate
         \/ \E op \in {"add", "fadd", "call", "func", "group"} : CandidateTyped(op)
  PROVE  IInv'
<1>1. HeapOK(heap) /\ Len(heap) \in Nat /\ value.type \in Pointer /\ Null \in Pointer
  BY DEF IInv, TypeOK, ContextTypeOK, HeapOK, Pointer, Null
<1>2. UNCHANGED ctxVars /\ UNCHANGED walkHistory =>
        /\ HeapKept /\ expectedRet' \in Pointer' /\ returned' \in Seq(SUBSET (Pointer'))
        /\ Null \in Pointer' /\ Pointer \subseteq Pointer'
  BY HeapUnchanged, StillTyped DEF IInv, ctxVars, walkHistory
<1>3. CASE OperandFails \/ OperandDone \/ NoCandidate
  <2>1. At("overload", "operand") /\ UNCHANGED << ctxVars, pass, loaded, fuel, walkHistory >>
    BY <1>3 DEF OperandFails, OperandDone, OperandTyped, NoCandidate, AtOperand
  <2>2. \E t \in Pointer : NextOperand(t) \/ EndOverload(t)
    BY <1>1, <1>3 DEF OperandFails, NextCandidate, OperandDone, NoCandidate
  <2> QED BY <1>2, <2>1, <2>2, EndOverloadStep, NextOperandStep DEF ctxVars, walkHistory
<1>4. CASE CandidateRet
  <2>1. At("overload", "operand") /\ RecordReturn(value.type) /\ UNCHANGED << pass, loaded, fuel >>
    BY <1>4 DEF CandidateRet, OperandTyped
  <2>2. /\ HeapKept /\ expectedRet' \in Pointer' /\ VoidType \in Pointer'
        /\ returned' \in Seq(SUBSET (Pointer'))
        /\ UNCHANGED << scopes, functions, thisStack, funcStack, fileType, globalType,
                        fileStack, globalStack, pendingFunc, bodies, reports >>
    BY <1>1, <2>1, RecordReturnKeeps
  <2>3. Null \in Pointer'
    BY <2>2, StillTyped DEF IInv
  <2>4. NextOperand(Null) \/ EndOverload(VoidType)
    BY <1>4 DEF CandidateRet, NextCandidate
  <2> QED BY <2>1, <2>2, <2>3, <2>4, EndOverloadStep, NextOperandStep
<1>5. ASSUME NEW op \in {"add", "fadd", "call", "func", "group"}, CandidateTyped(op)
      PROVE  IInv'
  <2> DEFINE t == OperatorType(op, Top.self, value.type)
  <2>1. /\ At("overload", "operand")
        /\ UNCHANGED << scopes, functions, thisStack, funcStack, fileType, globalType, fileStack,
                        globalStack, expectedRet, pendingFunc, pass, loaded, fuel, returned,
                        bodies, reports >>
        /\ heap' = IF op = "func" THEN Append(heap, FuncType(Top.self, value.type)) ELSE heap
        /\ NextOperand(Null) \/ EndOverload(t)
    BY <1>5 DEF CandidateTyped, OperandTyped, NextCandidate, walkHistory
  <2>2. Top.self \in Pointer
    BY <2>1, DepthsAtTop DEF At, Call
  <2>3. HeapKept /\ (op = "func" => NextType \in Pointer')
    <3>1. CASE op = "func"
      <4>1. heap' = Append(heap, FuncType(Top.self, value.type))
        BY <2>1, <3>1
      <4>2. HeapOK(heap') /\ Len(heap') = Len(heap) + 1 /\ SameKinds(heap, heap')
        BY <1>1, <2>2, <4>1, AllocateFunc DEF Pointer
      <4> QED BY <1>1, <4>2 DEF HeapKept, NextType, Pointer
    <3>2. CASE op # "func"
      <4>1. UNCHANGED heap
        BY <2>1, <3>2
      <4> QED BY <3>2, <4>1, HeapUnchanged DEF IInv
    <3> QED BY <3>1, <3>2
  <2>4. /\ expectedRet' \in Pointer' /\ returned' \in Seq(SUBSET (Pointer'))
        /\ Null \in Pointer' /\ Pointer \subseteq Pointer'
    BY <2>1, <2>3, StillTyped DEF IInv
  <2>5. t \in Pointer'
    <3>1. CallType(Top.self) \in Pointer'
      BY <2>2, <2>4, CallTypeOK DEF IInv
    <3>2. IntType \in Pointer' /\ VoidType \in Pointer'
      BY <2>3 DEF HeapKept, HeapOK, Pointer, IntType, VoidType, MutIntType
    <3> QED BY <2>3, <2>4, <3>1, <3>2 DEF OperatorType, ArithmeticType
  <2> HIDE DEF t
  <2> QED BY <2>1, <2>3, <2>4, <2>5, EndOverloadStep, NextOperandStep
<1> QED BY <1>3, <1>4, <1>5, VisitOverloadStep

-----------------------------------------------------------------------------
(* Imports and the walks over a file *)

LEMMA VisitImportStep ==
  ASSUME IInv, VisitImport
  PROVE  IInv'
<1> DEFINE c == NewCall("import", "module", NoName, Null)
<1>1. HeapKept
  BY HeapUnchanged DEF IInv, VisitImport
<1>2. /\ c.entry = CurrentDepths /\ c.node = "import"
      /\ Append(calls, c) \in Seq(Call(Pointer')) /\ calls' = Append(calls, c)
  <2>1. Null \in Pointer' /\ NoName \in Name \cup {NoName}
    BY <1>1, StillTyped DEF IInv
  <2>2. c = NewCall("import", "module", NoName, Null) /\ calls' = Append(calls, c)
    BY DEF VisitImport
  <2> HIDE DEF c
  <2> QED BY <1>1, <2>1, <2>2, NewCallTyped
<1> HIDE DEF c
<1>3. /\ fileStack' = Append(fileStack, fileType) /\ fileType' = Null
      /\ globalStack' = Append(globalStack, globalType) /\ globalType' = Null
      /\ UNCHANGED << heap, scopes, functions, thisStack, funcStack, expectedRet, pendingFunc,
                      mode, value, pass, silenced, loaded, returned, bodies, reports >>
      /\ fuel' \in Nat
  BY DEF VisitImport, PushFile, PushGlobal, walkHistory, Spend, IInv, TypeOK
<1>4. /\ fileStack' \in Seq(Pointer') /\ globalStack' \in Seq(Pointer')
      /\ Len(fileStack') = Len(fileStack) + 1 /\ Len(globalStack') = Len(fileStack')
  <2>1. /\ fileStack \in Seq(Pointer') /\ globalStack \in Seq(Pointer')
        /\ fileType \in Pointer' /\ globalType \in Pointer'
    BY <1>1, StillTyped DEF IInv
  <2>2. Len(globalStack) = Len(fileStack)
    BY DEF IInv, TypeOK, ContextTypeOK
  <2> QED BY <1>3, <2>1, <2>2
<1>5. TypeOK'
  BY <1>1, <1>2, <1>3, <1>4, StillTyped DEF IInv, TypeOK, ContextTypeOK, KindOf, HeapKept
<1>6. CurrentDepths' = DepthsInside(c)
  BY <1>2, <1>3, <1>4 DEF CurrentDepths, DepthsInside
<1>7. StacksBalanced'
  BY <1>2, <1>6, PushBalanced
<1> QED BY <1>5, <1>7 DEF IInv

(* The end of an import restores the importer's $file and $global. *)
LEMMA ImportDoneStep ==
  ASSUME IInv, ImportDone
  PROVE  IInv'
<1>1. HeapKept
  BY HeapUnchanged DEF IInv, ImportDone
<1>2. calls # << >> /\ Top.node = "import"
  BY DEF At, ImportDone
<1>3. Len(fileStack) > 0 /\ Len(fileStack) \in Nat /\ Len(globalStack) = Len(fileStack)
  BY <1>2, DepthsAtTop DEF Depths, IInv, TypeOK, ContextTypeOK
<1>4. /\ fileStack \in Seq(Pointer') /\ fileStack # << >>
      /\ globalStack \in Seq(Pointer') /\ globalStack # << >>
  BY <1>1, <1>3, StillTyped DEF IInv
<1>5. /\ fileType' \in Pointer' /\ globalType' \in Pointer'
      /\ fileStack' \in Seq(Pointer') /\ globalStack' \in Seq(Pointer')
      /\ Len(fileStack') = Len(fileStack) - 1 /\ Len(globalStack') = Len(fileStack')
  BY <1>3, <1>4, FrontFacts, LastInSet DEF ImportDone
<1>6. Front(calls) \in Seq(Call(Pointer'))
  BY <1>1, StillTyped, FrontFacts DEF IInv
<1>7. value' \in [type : Pointer', name : Name \cup {NoName}] /\ mode' = "return"
  BY <1>1, StillTyped DEF IInv, ImportDone, Return
<1>8. /\ UNCHANGED << heap, scopes, functions, thisStack, funcStack, expectedRet, pendingFunc,
                      pass, silenced, loaded, fuel, returned, bodies, reports >>
      /\ calls' = Front(calls)
  BY DEF ImportDone, walkHistory
<1>9. TypeOK'
  BY <1>1, <1>5, <1>6, <1>7, <1>8, StillTyped DEF IInv, TypeOK, ContextTypeOK, KindOf, HeapKept
<1>10. CurrentDepths' = Top.entry
  BY <1>2, <1>5, <1>8, DepthsAtTop DEF CurrentDepths, Depths
<1>11. StacksBalanced'
  BY <1>2, <1>8, <1>10, PopBalanced
<1> QED BY <1>9, <1>11 DEF IInv

(* The steps between two walks leave the context and the activations alone. *)
LEMMA BetweenWalksStep ==
  ASSUME IInv, UNCHANGED << ctxVars, calls, value, silenced, returned, bodies >>,
         mode' \in {"idle", "eval"}, pass' \in {"parse", "typing", "done"},
         fuel' \in Nat, loaded' \in Nat, reports' \in Seq(Nat)
  PROVE  IInv'
<1>1. HeapKept
  BY HeapUnchanged DEF IInv, ctxVars
<1>2. TypeOK'
  BY <1>1, StillTyped DEF IInv, TypeOK, ContextTypeOK, KindOf, HeapKept, ctxVars
<1>3. StacksBalanced'
  BY SameBalanced DEF CurrentDepths, ctxVars
<1> QED BY <1>2, <1>3 DEF IInv

(* The final scan for missing bodies only reports. *)
LEMMA FinalCheckStep ==
  ASSUME IInv, FinalCheck
  PROVE  IInv'
<1>1. reports \in Seq(Nat) /\ fuel \in Nat /\ loaded \in Nat
  BY DEF IInv, TypeOK
<1>2. reports' \in Seq(Nat)
  BY <1>1 DEF FinalCheck
<1> QED BY <1>1, <1>2, BetweenWalksStep DEF FinalCheck

-----------------------------------------------------------------------------
(* The whole walk *)

(* The steps of a block: it is opened, each statement is typed, and it is  *)
(* left at its end or when a statement fails (inference.c, BLOCK).         *)
LEMMA BlockSteps ==
  ASSUME IInv,
         \/ VisitBlock \/ VisitModule \/ VisitFileRoot
         \/ StatementDone \/ StatementFails \/ EndBlock
  PROVE  IInv'
<1>1. fuel \in Nat /\ loaded \in Nat /\ Null \in Pointer
  BY DEF IInv, TypeOK, ContextTypeOK, HeapOK, Pointer, Null
<1>2. CASE VisitBlock
  BY <1>1, <1>2, OpenBlockStep DEF VisitBlock, Spend
<1>3. CASE VisitModule
  <2>1. OpenBlock /\ UNCHANGED << pass, silenced, fuel >>
    BY <1>3 DEF VisitModule
  <2>2. \/ loaded > 0 /\ loaded' = loaded - 1
        \/ loaded' = loaded
    BY <1>3 DEF VisitModule
  <2> QED BY <1>1, <2>1, <2>2, OpenBlockStep
<1>4. CASE VisitFileRoot
  BY <1>1, <1>4, OpenBlockStep DEF VisitFileRoot
<1>5. CASE StatementDone
  BY <1>5, StatementDoneStep
<1>6. CASE StatementFails
  BY <1>1, <1>6, LeaveBlockStep DEF StatementFails, Fail, Return
<1>7. CASE EndBlock
  <2>1. calls # << >> /\ At("block", "statements") /\ LeaveBlock
    BY <1>7 DEF EndBlock, AtStatement, At
  <2>2. Top.self \in Pointer
    BY <2>1, DepthsAtTop DEF Call
  <2> QED BY <1>7, <2>1, <2>2, LeaveBlockStep DEF EndBlock, Return
<1> QED BY <1>2, <1>3, <1>4, <1>5, <1>6, <1>7

(* The steps of a function literal, from its scope to its return type      *)
(* (inference.c, FUNC).                                                    *)
LEMMA FuncSteps ==
  ASSUME IInv,
         VisitFuncInit \/ VisitFunc \/ ParamFails \/ ParamDone \/ BodyFails \/ BodyDone
  PROVE  IInv'
<1>1. fuel \in Nat
  BY DEF IInv, TypeOK
<1>2. CASE VisitFuncInit
  BY <1>1, <1>2, OpenFuncStep DEF VisitFuncInit
<1>3. CASE VisitFunc
  BY <1>1, <1>3, OpenFuncStep DEF VisitFunc, Spend
<1> QED BY <1>2, <1>3, ParamFailsStep, ParamDoneStep, BodyFailsStep, BodyDoneStep

(* The steps of a declaration or a stub once its initialiser is typed      *)
(* (inference.c, DECL and $forward).                                       *)
LEMMA DeclarationSteps ==
  ASSUME IInv, InitFails \/ DefinesBody \/ DefinesFunc \/ DefinesVar \/ StubDone
  PROVE  IInv'
BY InitFailsStep, DefinesBodyStep, DefinesFuncStep, DefinesVarStep, StubDoneStep

(* The steps between two walks over the context (scoped_parser.c).         *)
LEMMA PassSteps ==
  ASSUME IInv, ParseImport \/ ParseImportDone \/ TypingPass \/ FinalCheck
  PROVE  IInv'
<1>1. fuel \in Nat /\ loaded \in Nat /\ pass \in {"parse", "typing", "done"} /\ reports \in Seq(Nat)
  BY DEF IInv, TypeOK
<1>2. CASE ParseImport
  BY <1>1, <1>2, BetweenWalksStep DEF ParseImport, Spend, walkHistory
<1>3. CASE ParseImportDone
  BY <1>1, <1>3, BetweenWalksStep DEF ParseImportDone, walkHistory
<1>4. CASE TypingPass
  BY <1>1, <1>4, BetweenWalksStep DEF TypingPass, walkHistory
<1> QED BY <1>2, <1>3, <1>4, FinalCheckStep

(* A step that changes nothing keeps the invariant. *)
LEMMA StutterStep ==
  ASSUME IInv, UNCHANGED vars
  PROVE  IInv'
BY DEF IInv, TypeOK, ContextTypeOK, Pointer, KindOf, StacksBalanced, CurrentDepths, DepthsInside,
       Top, vars, ctxVars, walkHistory

(* A sequence written out with five elements. *)
LEMMA FiveInSeq ==
  ASSUME NEW S, NEW a \in S, NEW b \in S, NEW c \in S, NEW d \in S, NEW e \in S
  PROVE  /\ << a, b, c, d, e >> \in Seq(S)
         /\ Len(<< a, b, c, d, e >>) = 5
         /\ \A t \in 1 .. 5 : << a, b, c, d, e >>[t] \in {a, b, c, d, e}
OBVIOUS

(* type_context_new starts with the basic types, one scope and no activation. *)
LEMMA InitEstablishes == Init => IInv
<1> SUFFICES ASSUME Init PROVE IInv
  OBVIOUS
<1>1. Len(heap) = MutIntType /\ HeapOK(heap)
  <2> DEFINE cell == [kind |-> "ref", parts |-> << IntType >>, names |-> << >>, mut |-> TRUE]
  <2>1. heap = << Obj("int", << >>), Obj("string", << >>), Obj("void", << >>),
                  Obj("unknown", << >>), cell >>
    BY DEF Init, ContextInit, InitialHeap
  <2>2. ASSUME NEW k \in {"int", "string", "void", "unknown"}
        PROVE  /\ Obj(k, << >>) \in TypeObject(5)
               /\ Len(Obj(k, << >>).parts) >= Arity(Obj(k, << >>).kind)
    <3>1. /\ << >> \in Seq(0 .. 5) /\ << >> \in Seq(Name) /\ Len(<< >>) = 0
          /\ k \in TypeKind /\ Arity(k) = 0
      BY DEF Arity, TypeKind
    <3>2. /\ Obj(k, << >>) \in TypeObject(5)
          /\ Obj(k, << >>).parts = << >> /\ Obj(k, << >>).kind = k
      BY <3>1 DEF Obj, TypeObject
    <3> QED BY <3>1, <3>2
  <2>3. cell \in TypeObject(5) /\ Len(cell.parts) >= Arity(cell.kind)
    <3>1. /\ IntType \in 0 .. 5
          /\ << IntType >> \in Seq(0 .. 5) /\ Len(<< IntType >>) = 1
      BY DEF IntType
    <3>2. << >> \in Seq(Name) /\ "ref" \in TypeKind /\ Arity("ref") = 1
      BY DEF TypeKind, Arity
    <3> QED BY <3>1, <3>2 DEF TypeObject
  <2> HIDE DEF cell
  <2>4. heap \in Seq(TypeObject(5)) /\ Len(heap) = 5
    BY <2>1, <2>2, <2>3, FiveInSeq
  <2>5. \A t \in 1 .. 5 : heap[t] \in {Obj(k, << >>) : k \in {"int", "string", "void", "unknown"}}
                                       \cup {cell}
    BY <2>1, FiveInSeq
  <2>6. \A t \in 1 .. 5 : Len(heap[t].parts) >= Arity(heap[t].kind)
    BY <2>2, <2>3, <2>5
  <2> QED BY <2>4, <2>6 DEF HeapOK, MutIntType
<1>2. ContextTypeOK
  BY <1>1 DEF Init, ContextInit, ContextTypeOK, Pointer, Null, Scope, NewScope
<1>3. TypeOK
  <2>1. silenced \in BOOLEAN
    BY DEF Init
  <2> QED BY <1>1, <1>2, <2>1, MaxNodesAssumption DEF Init, TypeOK, Pointer, Null
<1>4. StacksBalanced
  BY DEF Init, ContextInit, StacksBalanced, CurrentDepths
<1> QED BY <1>3, <1>4 DEF IInv

(* No step of the walk breaks the invariant. *)
THEOREM StepKeepsInvariant == IInv /\ [Next]_vars => IInv'
<1> SUFFICES ASSUME IInv, [Next]_vars PROVE IInv'
  OBVIOUS
<1>1. ASSUME NEW l \in Leaf, VisitLeaf(l) \/ VisitRet(l) \/ \E n \in Name : VisitSet(n, l)
      PROVE  IInv'
  BY <1>1, VisitLeafStep, VisitRetStep, VisitSetStep
<1>2. ASSUME NEW op \in {"this", "file", "global"}, VisitSpecial(op)
      PROVE  IInv'
  BY <1>2, VisitSpecialStep
<1>3. ASSUME NEW n \in Name, VisitDecl(n) \/ VisitDeclFunc(n) \/ VisitForward(n)
      PROVE  IInv'
  BY <1>3, VisitDeclStep, VisitDeclFuncStep, VisitForwardStep
<1>4. CASE Done \/ UNCHANGED vars
  BY <1>4, StutterStep DEF Done
<1>5. ASSUME NEW op \in {"add", "fadd", "call", "func", "group"}, CandidateTyped(op)
      PROVE  IInv'
  BY <1>5, OverloadSteps
<1> QED BY <1>1, <1>2, <1>3, <1>4, <1>5, BlockSteps, FuncSteps, DeclarationSteps, OverloadSteps,
           VisitImportStep, ImportDoneStep, PassSteps DEF Next

(* The walk never hands out or keeps a type that was not allocated, and    *)
(* every stack of the context keeps its type (type_context.c).             *)
THEOREM TypesAllocated == Spec => []TypeOK
<1>1. IInv => TypeOK
  BY DEF IInv
<1> QED BY <1>1, InitEstablishes, StepKeepsInvariant, PTL DEF Spec

(* Every activation of morphl_infer_type_of_ast returns with the scope,    *)
(* $this, function and file stacks as it found them, on success and on     *)
(* every error path (inference.c, BLOCK, FUNC, DECL and $import).          *)
THEOREM StacksStayBalanced == Spec => []StacksBalanced
<1>1. IInv => StacksBalanced
  BY DEF IInv
<1> QED BY <1>1, InitEstablishes, StepKeepsInvariant, PTL DEF Spec

-----------------------------------------------------------------------------
(* The error sink *)

(* An activation remembers whether an overload was open when it started,   *)
(* so that the sink it puts back is the one its caller had.                *)
SinkInv ==
  /\ silenced \in BOOLEAN
  /\ silenced <=> \E i \in 1 .. Len(calls) : calls[i].node = "overload"
  /\ \A i \in 1 .. Len(calls) :
       calls[i].sink <=> \E j \in 1 .. i - 1 : calls[j].node = "overload"

(* How a step changes the activations: it starts one, ends the innermost   *)
(* one, enters the body of the innermost function, or leaves what each of  *)
(* them is.                                                                *)
StartsCall ==
  \E c : /\ calls' = Append(calls, c)
         /\ c.sink <=> silenced
         /\ silenced' <=> silenced \/ c.node = "overload"
         /\ c.entry = CurrentDepths
         /\ c.stage # "body"
         /\ thisStack' = IF c.node = "block" THEN Append(thisStack, c.self) ELSE thisStack
         /\ funcStack' = funcStack

EndsCall ==
  /\ calls # << >>
  /\ calls' = Front(calls)
  /\ silenced' <=> IF Top.node = "overload" THEN Top.sink ELSE silenced
  /\ thisStack' = IF Top.node = "block" THEN Front(thisStack) ELSE thisStack
  /\ funcStack' = IF Top.node = "func" /\ Top.stage = "body" THEN Front(funcStack) ELSE funcStack

KeepsKinds ==
  /\ Len(calls') = Len(calls)
  /\ \A i \in 1 .. Len(calls) :
       /\ calls'[i].node = calls[i].node
       /\ calls'[i].sink = calls[i].sink
       /\ calls'[i].entry = calls[i].entry
  /\ silenced' = silenced
  /\ thisStack' = thisStack

EntersBody ==
  /\ KeepsKinds
  /\ calls # << >> /\ Top.node = "func"
  /\ funcStack' = Append(funcStack, calls'[Len(calls)].self)
  /\ \A i \in 1 .. Len(calls) - 1 : calls'[i] = calls[i]

KeepsCalls ==
  /\ KeepsKinds
  /\ funcStack' = funcStack
  /\ \A i \in 1 .. Len(calls) :
       /\ calls'[i].stage = calls[i].stage
       /\ calls[i].node \in {"block", "func"} => calls'[i].self = calls[i].self

LEMMA StartsCallSink ==
  ASSUME TypeOK, TypeOK', SinkInv, StartsCall
  PROVE  SinkInv'
<1>1. PICK c : /\ calls' = Append(calls, c)
               /\ c.sink <=> silenced
               /\ silenced' <=> silenced \/ c.node = "overload"
  BY DEF StartsCall
<1>2. /\ Len(calls) \in Nat /\ Len(calls') = Len(calls) + 1
      /\ \A i \in 1 .. Len(calls) : calls'[i] = calls[i]
      /\ calls'[Len(calls) + 1] = c
  <2>1. calls \in Seq(Call(Pointer))
    BY DEF TypeOK
  <2> QED BY <1>1, <2>1
<1>3. silenced' <=> \E i \in 1 .. Len(calls') : calls'[i].node = "overload"
  BY <1>1, <1>2 DEF SinkInv
<1>4. ASSUME NEW i \in 1 .. Len(calls')
      PROVE  calls'[i].sink <=> \E j \in 1 .. i - 1 : calls'[j].node = "overload"
  <2>1. \A j \in 1 .. i - 1 : calls'[j] = calls[j] /\ j \in 1 .. Len(calls)
    BY <1>2
  <2>2. CASE i \in 1 .. Len(calls)
    BY <1>2, <2>1, <2>2 DEF SinkInv
  <2>3. CASE i = Len(calls) + 1
    BY <1>1, <1>2, <2>1, <2>3 DEF SinkInv
  <2> QED BY <1>2, <2>2, <2>3
<1>5. silenced' \in BOOLEAN
  BY DEF TypeOK
<1> QED BY <1>3, <1>4, <1>5 DEF SinkInv

LEMMA EndsCallSink ==
  ASSUME TypeOK, TypeOK', SinkInv, EndsCall
  PROVE  SinkInv'
<1>1. /\ Len(calls) \in Nat \ {0} /\ Len(calls') = Len(calls) - 1
      /\ \A i \in 1 .. Len(calls) - 1 : calls'[i] = calls[i]
      /\ Top = calls[Len(calls)]
  <2>1. calls \in Seq(Call(Pointer)) /\ calls # << >>
    BY DEF TypeOK, EndsCall
  <2> QED BY <2>1, FrontFacts DEF EndsCall, Top, Last
<1>2. silenced' <=> \E i \in 1 .. Len(calls') : calls'[i].node = "overload"
  BY <1>1 DEF SinkInv, EndsCall
<1>3. ASSUME NEW i \in 1 .. Len(calls')
      PROVE  calls'[i].sink <=> \E j \in 1 .. i - 1 : calls'[j].node = "overload"
  <2>1. /\ i \in 1 .. Len(calls) /\ calls'[i] = calls[i]
        /\ \A j \in 1 .. i - 1 : calls'[j] = calls[j]
    BY <1>1
  <2> QED BY <2>1 DEF SinkInv
<1>4. silenced' \in BOOLEAN
  BY DEF TypeOK
<1> QED BY <1>2, <1>3, <1>4 DEF SinkInv

LEMMA KeepsKindsSink ==
  ASSUME TypeOK, SinkInv, KeepsKinds
  PROVE  SinkInv'
<1>1. Len(calls) \in Nat
  BY DEF TypeOK
<1>2. silenced' <=> \E i \in 1 .. Len(calls') : calls'[i].node = "overload"
  BY <1>1 DEF SinkInv, KeepsKinds
<1>3. ASSUME NEW i \in 1 .. Len(calls')
      PROVE  calls'[i].sink <=> \E j \in 1 .. i - 1 : calls'[j].node = "overload"
  <2>1. /\ i \in 1 .. Len(calls) /\ calls'[i].sink = calls[i].sink
        /\ \A j \in 1 .. i - 1 : calls'[j].node = calls[j].node
    BY <1>1 DEF KeepsKinds
  <2> QED BY <2>1 DEF SinkInv
<1> QED BY <1>2, <1>3 DEF SinkInv, KeepsKinds

(* Changing the innermost activation's stage or types keeps what it is. *)
LEMMA TopChanged ==
  ASSUME TypeOK, calls # << >>, NEW c, c.node = Top.node, c.sink = Top.sink, c.entry = Top.entry,
         calls' = [calls EXCEPT ![Len(calls)] = c], UNCHANGED << silenced, thisStack >>
  PROVE  /\ KeepsKinds
         /\ Len(calls) \in Nat \ {0} /\ calls'[Len(calls)] = c
         /\ \A i \in 1 .. Len(calls) - 1 : calls'[i] = calls[i]
<1>1. calls \in Seq(Call(Pointer)) /\ Len(calls) \in Nat \ {0}
  BY DEF TypeOK
<1>2. /\ Len(calls') = Len(calls)
      /\ \A i \in 1 .. Len(calls) : calls'[i] = IF i = Len(calls) THEN c ELSE calls[i]
  BY <1>1
<1>3. Top = calls[Len(calls)]
  BY DEF Top, Last
<1>4. KeepsKinds
  <2> HIDE DEF Top
  <2> QED BY <1>1, <1>2, <1>3 DEF KeepsKinds
<1>5. calls'[Len(calls)] = c /\ \A i \in 1 .. Len(calls) - 1 : calls'[i] = calls[i]
  <2>1. /\ Len(calls) \in 1 .. Len(calls)
        /\ \A i \in 1 .. Len(calls) - 1 : i \in 1 .. Len(calls) /\ i # Len(calls)
    BY <1>1
  <2> QED BY <1>2, <2>1, Zenon
<1> QED BY <1>1, <1>4, <1>5

(* Every step of the walk is one of the four. *)
LEMMA StepShapes ==
  ASSUME TypeOK, [Next]_vars
  PROVE  StartsCall \/ EndsCall \/ EntersBody \/ KeepsCalls
<1>1. \A node, stage, n, t :
        /\ NewCall(node, stage, n, t).sink = silenced
        /\ NewCall(node, stage, n, t).node = node
        /\ NewCall(node, stage, n, t).stage = stage
        /\ NewCall(node, stage, n, t).entry = CurrentDepths
        /\ NewCall(node, stage, n, t).self = t
  BY DEF NewCall
<1>2. ASSUME NEW node, NEW stage, NEW n, NEW t, node \notin {"overload", "block"}, stage # "body",
             calls' = Append(calls, NewCall(node, stage, n, t)),
             UNCHANGED << silenced, thisStack, funcStack >>
      PROVE  StartsCall
  <2> DEFINE c == NewCall(node, stage, n, t)
  <2>1. /\ c.sink = silenced /\ c.node \notin {"overload", "block"} /\ c.stage # "body"
        /\ c.entry = CurrentDepths
        /\ calls' = Append(calls, c) /\ silenced' = silenced
        /\ thisStack' = thisStack /\ funcStack' = funcStack
    BY <1>1, <1>2
  <2> HIDE DEF c
  <2> QED BY <2>1 DEF StartsCall
<1>3. ASSUME UNCHANGED << calls, silenced, thisStack, funcStack >>
      PROVE  KeepsCalls
  BY <1>3 DEF KeepsCalls, KeepsKinds
<1>4. ASSUME NEW node, NEW stage, node \notin {"overload", "block", "func"}, At(node, stage),
             calls' = Front(calls), UNCHANGED << silenced, thisStack, funcStack >>
      PROVE  EndsCall
  BY <1>4 DEF EndsCall, At
<1>5. ASSUME NEW l \in Leaf, VisitLeaf(l) \/ VisitRet(l) \/ \E n \in Name : VisitSet(n, l)
      PROVE  KeepsCalls
  BY <1>3, <1>5 DEF VisitLeaf, VisitRet, RecordReturn, VisitSet, ctxVars
<1>6. ASSUME NEW n \in Name, VisitDecl(n) \/ VisitDeclFunc(n) \/ VisitForward(n)
      PROVE  StartsCall
  BY <1>2, <1>6 DEF VisitDecl, VisitDeclFunc, VisitForward, ctxVars
<1>7. ASSUME VisitBlock \/ VisitModule \/ VisitFileRoot
      PROVE  StartsCall
  <2> DEFINE c == NewCall("block", "statements", NoName, NextType)
  <2>1. /\ calls' = Append(calls, c)
        /\ thisStack' = Append(thisStack, NextType)
        /\ UNCHANGED << silenced, funcStack >>
    BY <1>7 DEF VisitBlock, VisitModule, VisitFileRoot, OpenBlock
  <2>2. /\ c.sink = silenced /\ c.node = "block" /\ c.stage # "body"
        /\ c.entry = CurrentDepths /\ c.self = NextType
    BY <1>1
  <2> HIDE DEF c
  <2> QED BY <2>1, <2>2 DEF StartsCall
<1>8. ASSUME VisitFuncInit \/ VisitFunc \/ VisitImport
      PROVE  StartsCall
  BY <1>2, <1>8 DEF VisitFuncInit, VisitFunc, OpenFunc, VisitImport
<1>9. ASSUME StatementFails \/ EndBlock \/ ParamFails \/ BodyFails \/ BodyDone
      PROVE  EndsCall
  <2>1. CASE StatementFails \/ EndBlock
    BY <2>1 DEF StatementFails, EndBlock, AtStatement, LeaveBlock, At, EndsCall
  <2>2. CASE ParamFails
    BY <2>2 DEF ParamFails, At, EndsCall
  <2>3. CASE BodyFails \/ BodyDone
    BY <2>3 DEF BodyFails, BodyDone, LeaveFunc, At, EndsCall
  <2> QED BY <1>9, <2>1, <2>2, <2>3
<1>10. ASSUME InitFails \/ DefinesBody \/ DefinesFunc \/ DefinesVar \/ StubDone \/ ImportDone
       PROVE  EndsCall
  BY <1>4, <1>10 DEF InitFails, DefinesBody, DefinesFunc, DefinesVar, StubDone, ImportDone
<1>11. ASSUME StatementDone
       PROVE  KeepsCalls
  BY <1>3, <1>11 DEF StatementDone
<1>12. ASSUME ParamDone
       PROVE  EntersBody
  <2> DEFINE current == IF pendingFunc = Null THEN NextType ELSE pendingFunc
             c == [Top EXCEPT !.stage = "body", !.self = current, !.param = value.type]
  <2>1. calls # << >> /\ Top.node = "func" /\ Top \in Call(Pointer)
    BY <1>12, LastInSet DEF ParamDone, At, TypeOK, Top
  <2>2. /\ calls' = [calls EXCEPT ![Len(calls)] = c] /\ UNCHANGED << silenced, thisStack >>
        /\ funcStack' = Append(funcStack, current)
    BY <1>12 DEF ParamDone, Top, Last
  <2> HIDE DEF current
  <2>3. /\ c.node = Top.node /\ c.sink = Top.sink /\ c.entry = Top.entry /\ c.self = current
    BY <2>1 DEF Call
  <2> HIDE DEF c
  <2>4. /\ KeepsKinds /\ calls'[Len(calls)] = c
        /\ \A i \in 1 .. Len(calls) - 1 : calls'[i] = calls[i]
    BY <2>1, <2>2, <2>3, TopChanged
  <2> QED BY <2>1, <2>2, <2>3, <2>4 DEF EntersBody
<1>13. ASSUME VisitOverload
       PROVE  StartsCall
  <2> DEFINE c == NewCall("overload", "operand", NoName, Null)
  <2>1. c.sink = silenced /\ c.node = "overload" /\ c.stage # "body" /\ c.entry = CurrentDepths
    BY <1>1
  <2>2. calls' = Append(calls, c) /\ silenced' = TRUE /\ UNCHANGED << thisStack, funcStack >>
    BY <1>13 DEF VisitOverload, ctxVars
  <2> HIDE DEF c
  <2> QED BY <2>1, <2>2 DEF StartsCall
<1>14. ASSUME NEW t, At("overload", "operand"), EndOverload(t), UNCHANGED << thisStack, funcStack >>
       PROVE  EndsCall
  BY <1>14 DEF EndOverload, EndsCall, At
<1>15. ASSUME NEW t, At("overload", "operand"), NextOperand(t), UNCHANGED << thisStack, funcStack >>
       PROVE  KeepsCalls
  <2> DEFINE c == [Top EXCEPT !.self = t]
  <2>1. calls # << >> /\ Top \in Call(Pointer) /\ Top.node = "overload"
    BY <1>15, LastInSet DEF At, TypeOK, Top
  <2>2. calls' = [calls EXCEPT ![Len(calls)] = c] /\ UNCHANGED silenced
    BY <1>15 DEF NextOperand, Top, Last
  <2>3. c.node = Top.node /\ c.sink = Top.sink /\ c.entry = Top.entry /\ c.stage = Top.stage
    BY <2>1 DEF Call
  <2> HIDE DEF c
  <2>4. /\ KeepsKinds /\ Len(calls) \in Nat \ {0} /\ calls'[Len(calls)] = c
        /\ \A i \in 1 .. Len(calls) - 1 : calls'[i] = calls[i]
    BY <1>15, <2>1, <2>2, <2>3, TopChanged
  <2> QED BY <1>15, <2>1, <2>3, <2>4 DEF KeepsCalls, Top, Last
<1>16. ASSUME \/ OperandFails \/ OperandDone \/ CandidateRet \/ NoCandidate
              \/ \E op \in {"add", "fadd", "call", "func", "group"} : CandidateTyped(op)
       PROVE  EndsCall \/ KeepsCalls
  <2>1. At("overload", "operand")
    BY <1>16 DEF OperandFails, OperandDone, CandidateRet, NoCandidate, CandidateTyped,
                 OperandTyped, AtOperand
  <2>2. \E t : NextOperand(t) \/ EndOverload(t)
    BY <1>16 DEF OperandFails, OperandDone, CandidateRet, NoCandidate, CandidateTyped,
                 NextCandidate
  <2>3. UNCHANGED << thisStack, funcStack >>
    BY <1>16 DEF OperandFails, OperandDone, CandidateRet, NoCandidate, CandidateTyped,
                 RecordReturn, ctxVars
  <2> QED BY <1>14, <1>15, <2>1, <2>2, <2>3
<1>17. ASSUME \/ ParseImport \/ ParseImportDone \/ TypingPass \/ FinalCheck \/ Done
              \/ UNCHANGED vars \/ \E op \in {"this", "file", "global"} : VisitSpecial(op)
       PROVE  KeepsCalls
  BY <1>3, <1>17 DEF ParseImport, ParseImportDone, TypingPass, FinalCheck, Done, vars,
                     VisitSpecial, ctxVars
<1> QED BY <1>5, <1>6, <1>7, <1>8, <1>9, <1>10, <1>11, <1>12, <1>13, <1>16, <1>17 DEF Next

(* Errors are swallowed exactly while an operand of some overload's        *)
(* candidates is being typed: no overload, nested or failed, leaves the    *)
(* sink changed (inference.c, the OVERLOAD node and its three returns).    *)
THEOREM SinkRestored == Spec => []ErrorsSilencedInOverloads
<1>1. Init => SinkInv
  <2> SUFFICES ASSUME Init PROVE SinkInv
    OBVIOUS
  <2>1. calls = << >> /\ Len(calls) = 0 /\ silenced = FALSE
    BY DEF Init
  <2>2. \A i \in 1 .. Len(calls) : FALSE
    BY <2>1
  <2> QED BY <2>1, <2>2, Zenon DEF SinkInv
<1>2. SinkInv /\ IInv /\ IInv' /\ [Next]_vars => SinkInv'
  BY StepShapes, StartsCallSink, EndsCallSink, KeepsKindsSink DEF IInv, EntersBody, KeepsCalls
<1>3. SinkInv /\ IInv => ErrorsSilencedInOverloads
  <2> SUFFICES ASSUME SinkInv, IInv
               PROVE  silenced = \E i \in DOMAIN calls : calls[i].node = "overload"
    BY DEF ErrorsSilencedInOverloads
  <2>1. DOMAIN calls = 1 .. Len(calls)
    BY DEF IInv, TypeOK
  <2> QED BY <2>1 DEF SinkInv
<1> QED BY <1>1, <1>2, <1>3, InitEstablishes, StepKeepsInvariant, PTL DEF Spec

-----------------------------------------------------------------------------
(* What the stacks of the context name *)

(* The depths of the $this and function stacks inside an activation. *)
ThisInside(c) == c.entry.this + (IF c.node = "block" THEN 1 ELSE 0)
FuncsInside(c) == c.entry.funcs + (IF c.node = "func" /\ c.stage = "body" THEN 1 ELSE 0)

(* The blocks and functions of the activations are on the stacks, each at  *)
(* its own depth: an activation that started later found them there.       *)
NamesInv ==
  \A i \in 1 .. Len(calls) :
    /\ ThisInside(calls[i]) <= Len(thisStack)
    /\ FuncsInside(calls[i]) <= Len(funcStack)
    /\ \A j \in i + 1 .. Len(calls) :
         /\ ThisInside(calls[i]) <= calls[j].entry.this
         /\ FuncsInside(calls[i]) <= calls[j].entry.funcs
    /\ calls[i].node = "block" => thisStack[ThisInside(calls[i])] = calls[i].self
    /\ calls[i].node = "func" /\ calls[i].stage = "body" =>
         funcStack[FuncsInside(calls[i])] = calls[i].self

(* What the steps below know of the activations and the stacks. *)
LEMMA StacksTyped ==
  ASSUME IInv
  PROVE  /\ Len(calls) \in Nat /\ Len(thisStack) \in Nat /\ Len(funcStack) \in Nat
         /\ \E P : thisStack \in Seq(P) /\ funcStack \in Seq(P)
         /\ \A i \in 1 .. Len(calls) :
              /\ calls[i].entry.this \in Nat /\ calls[i].entry.funcs \in Nat
              /\ ThisInside(calls[i]) \in Nat /\ FuncsInside(calls[i]) \in Nat
              /\ calls[i].node = "block" => ThisInside(calls[i]) > 0
              /\ calls[i].node = "func" /\ calls[i].stage = "body" => FuncsInside(calls[i]) > 0
<1>1. /\ calls \in Seq(Call(Pointer)) /\ thisStack \in Seq(Pointer) /\ funcStack \in Seq(Pointer)
  BY DEF IInv, TypeOK, ContextTypeOK
<1>2. \A i \in 1 .. Len(calls) : calls[i].entry.this \in Nat /\ calls[i].entry.funcs \in Nat
  BY <1>1 DEF Call, Depths
<1> QED BY <1>1, <1>2 DEF ThisInside, FuncsInside

LEMMA StartsCallNames ==
  ASSUME IInv, NamesInv, StartsCall
  PROVE  NamesInv'
<1>1. PICK c : /\ calls' = Append(calls, c)
               /\ c.entry = CurrentDepths
               /\ c.stage # "body"
               /\ thisStack' = IF c.node = "block" THEN Append(thisStack, c.self) ELSE thisStack
               /\ funcStack' = funcStack
  BY DEF StartsCall
<1>2. /\ Len(calls') = Len(calls) + 1 /\ Len(calls) \in Nat
      /\ \A i \in 1 .. Len(calls) : calls'[i] = calls[i]
      /\ calls'[Len(calls) + 1] = c
  <2>1. calls \in Seq(Call(Pointer))
    BY DEF IInv, TypeOK
  <2> QED BY <1>1, <2>1
<1>3. /\ Len(thisStack') = Len(thisStack) + (IF c.node = "block" THEN 1 ELSE 0)
      /\ \A d \in 1 .. Len(thisStack) : thisStack'[d] = thisStack[d]
      /\ c.node = "block" => thisStack'[Len(thisStack) + 1] = c.self
  BY <1>1, StacksTyped
<1>4. c.entry.this = Len(thisStack) /\ c.entry.funcs = Len(funcStack)
  BY <1>1 DEF CurrentDepths
<1>5. ThisInside(c) = Len(thisStack') /\ FuncsInside(c) = Len(funcStack')
  BY <1>1, <1>3, <1>4, StacksTyped DEF ThisInside, FuncsInside
<1>6. ASSUME NEW i \in 1 .. Len(calls)
      PROVE  /\ ThisInside(calls[i]) <= Len(thisStack') /\ FuncsInside(calls[i]) <= Len(funcStack')
             /\ \A j \in i + 1 .. Len(calls') :
                  /\ ThisInside(calls[i]) <= calls'[j].entry.this
                  /\ FuncsInside(calls[i]) <= calls'[j].entry.funcs
             /\ calls[i].node = "block" => thisStack'[ThisInside(calls[i])] = calls[i].self
             /\ calls[i].node = "func" /\ calls[i].stage = "body" =>
                  funcStack'[FuncsInside(calls[i])] = calls[i].self
  <2>1. /\ ThisInside(calls[i]) <= Len(thisStack) /\ FuncsInside(calls[i]) <= Len(funcStack)
        /\ \A j \in i + 1 .. Len(calls) :
             /\ ThisInside(calls[i]) <= calls[j].entry.this
             /\ FuncsInside(calls[i]) <= calls[j].entry.funcs
        /\ calls[i].node = "block" => thisStack[ThisInside(calls[i])] = calls[i].self
        /\ calls[i].node = "func" /\ calls[i].stage = "body" =>
             funcStack[FuncsInside(calls[i])] = calls[i].self
    BY DEF NamesInv
  <2>2. /\ ThisInside(calls[i]) \in Nat /\ FuncsInside(calls[i]) \in Nat
        /\ calls[i].node = "block" => ThisInside(calls[i]) > 0
        /\ Len(thisStack) \in Nat /\ Len(funcStack) \in Nat
    BY StacksTyped
  <2>3. ASSUME NEW j \in i + 1 .. Len(calls')
        PROVE  /\ ThisInside(calls[i]) <= calls'[j].entry.this
               /\ FuncsInside(calls[i]) <= calls'[j].entry.funcs
    <3>1. CASE j \in i + 1 .. Len(calls)
      BY <1>2, <2>1, <3>1
    <3>2. CASE j = Len(calls) + 1
      BY <1>2, <1>4, <2>1, <3>2
    <3> QED BY <1>2, <3>1, <3>2
  <2> QED BY <1>1, <1>3, <2>1, <2>2, <2>3, SMTT(30)
<1>7. \A i \in 1 .. Len(calls') : i \in 1 .. Len(calls) \/ i = Len(calls) + 1
  BY <1>2
<1>8. \A j \in (Len(calls) + 1) + 1 .. Len(calls') : FALSE
  BY <1>2
<1>9. /\ ThisInside(c) <= Len(thisStack') /\ FuncsInside(c) <= Len(funcStack')
      /\ c.node = "block" => thisStack'[ThisInside(c)] = c.self
  BY <1>1, <1>3, <1>5, StacksTyped
<1>10. c.node # "func" \/ c.stage # "body"
  BY <1>1
<1>11. SUFFICES ASSUME NEW i \in 1 .. Len(calls')
                PROVE  /\ ThisInside(calls'[i]) <= Len(thisStack')
                       /\ FuncsInside(calls'[i]) <= Len(funcStack')
                       /\ \A j \in i + 1 .. Len(calls') :
                            /\ ThisInside(calls'[i]) <= calls'[j].entry.this
                            /\ FuncsInside(calls'[i]) <= calls'[j].entry.funcs
                       /\ calls'[i].node = "block" =>
                            thisStack'[ThisInside(calls'[i])] = calls'[i].self
                       /\ calls'[i].node = "func" /\ calls'[i].stage = "body" =>
                            funcStack'[FuncsInside(calls'[i])] = calls'[i].self
  BY DEF NamesInv, ThisInside, FuncsInside
<1>12. CASE i \in 1 .. Len(calls)
  <2>1. calls'[i] = calls[i]
    BY <1>2, <1>12
  <2> QED BY <1>6, <1>12, <2>1
<1>13. CASE i = Len(calls) + 1
  <2>1. calls'[i] = c
    BY <1>2, <1>13
  <2>2. \A j \in i + 1 .. Len(calls') : FALSE
    BY <1>8, <1>13
  <2> QED BY <1>9, <1>10, <2>1, <2>2
<1> QED BY <1>7, <1>12, <1>13

LEMMA EndsCallNames ==
  ASSUME IInv, IInv', NamesInv, EndsCall
  PROVE  NamesInv'
<1>1. /\ Len(calls) \in Nat \ {0} /\ Len(calls') = Len(calls) - 1
      /\ \A i \in 1 .. Len(calls) - 1 : calls'[i] = calls[i]
      /\ Top = calls[Len(calls)]
  <2>1. calls \in Seq(Call(Pointer)) /\ calls # << >>
    BY DEF IInv, TypeOK, EndsCall
  <2> QED BY <2>1, FrontFacts DEF EndsCall, Top, Last
<1>2. /\ Len(thisStack) = Top.entry.this + (IF Top.node = "block" THEN 1 ELSE 0)
      /\ Len(funcStack) =
           Top.entry.funcs + (IF Top.node = "func" /\ Top.stage = "body" THEN 1 ELSE 0)
      /\ Top.entry.this \in Nat /\ Top.entry.funcs \in Nat
  BY DepthsAtTop DEF EndsCall, Depths
<1>3. /\ Len(thisStack') = Top.entry.this
      /\ \A d \in 1 .. Top.entry.this : thisStack'[d] = thisStack[d]
  <2>1. thisStack \in Seq(Pointer)
    BY DEF IInv, TypeOK, ContextTypeOK
  <2>2. CASE Top.node = "block"
    <3>1. thisStack # << >> /\ thisStack' = Front(thisStack)
      BY <1>2, <2>2 DEF EndsCall
    <3> QED BY <1>2, <2>1, <2>2, <3>1, FrontFacts
  <2>3. CASE Top.node # "block"
    BY <1>2, <2>3 DEF EndsCall
  <2> QED BY <2>2, <2>3
<1>4. /\ Len(funcStack') = Top.entry.funcs
      /\ \A d \in 1 .. Top.entry.funcs : funcStack'[d] = funcStack[d]
  <2>1. funcStack \in Seq(Pointer)
    BY DEF IInv, TypeOK, ContextTypeOK
  <2>2. CASE Top.node = "func" /\ Top.stage = "body"
    <3>1. funcStack # << >> /\ funcStack' = Front(funcStack)
      BY <1>2, <2>2 DEF EndsCall
    <3> QED BY <1>2, <2>1, <2>2, <3>1, FrontFacts
  <2>3. CASE ~ (Top.node = "func" /\ Top.stage = "body")
    BY <1>2, <2>3 DEF EndsCall
  <2> QED BY <2>2, <2>3
<1>5. ASSUME NEW i \in 1 .. Len(calls')
      PROVE  /\ ThisInside(calls[i]) <= Len(thisStack') /\ FuncsInside(calls[i]) <= Len(funcStack')
             /\ \A j \in i + 1 .. Len(calls') :
                  /\ ThisInside(calls[i]) <= calls'[j].entry.this
                  /\ FuncsInside(calls[i]) <= calls'[j].entry.funcs
             /\ calls[i].node = "block" => thisStack'[ThisInside(calls[i])] = calls[i].self
             /\ calls[i].node = "func" /\ calls[i].stage = "body" =>
                  funcStack'[FuncsInside(calls[i])] = calls[i].self
  <2>1. i \in 1 .. Len(calls) /\ Len(calls) \in i + 1 .. Len(calls)
    BY <1>1
  <2>2. /\ ThisInside(calls[i]) <= Top.entry.this /\ FuncsInside(calls[i]) <= Top.entry.funcs
        /\ \A j \in i + 1 .. Len(calls) :
             /\ ThisInside(calls[i]) <= calls[j].entry.this
             /\ FuncsInside(calls[i]) <= calls[j].entry.funcs
        /\ calls[i].node = "block" => thisStack[ThisInside(calls[i])] = calls[i].self
        /\ calls[i].node = "func" /\ calls[i].stage = "body" =>
             funcStack[FuncsInside(calls[i])] = calls[i].self
    BY <1>1, <2>1 DEF NamesInv
  <2>3. /\ ThisInside(calls[i]) \in Nat /\ FuncsInside(calls[i]) \in Nat
        /\ calls[i].node = "block" => ThisInside(calls[i]) > 0
        /\ calls[i].node = "func" /\ calls[i].stage = "body" => FuncsInside(calls[i]) > 0
    BY <2>1, StacksTyped
  <2>4. \A j \in i + 1 .. Len(calls') : calls'[j] = calls[j] /\ j \in i + 1 .. Len(calls)
    BY <1>1
  <2> HIDE DEF Top
  <2> QED BY <1>2, <1>3, <1>4, <2>2, <2>3, <2>4, SMTT(30)
<1>6. \A i \in 1 .. Len(calls') : calls'[i] = calls[i]
  BY <1>1
<1> QED BY <1>5, <1>6 DEF NamesInv

LEMMA KeepsCallsNames ==
  ASSUME IInv, NamesInv, KeepsCalls
  PROVE  NamesInv'
<1>1. \A i \in 1 .. Len(calls) :
        ThisInside(calls'[i]) = ThisInside(calls[i]) /\ FuncsInside(calls'[i]) = FuncsInside(calls[i])
  BY DEF KeepsCalls, KeepsKinds, ThisInside, FuncsInside
<1> QED BY <1>1 DEF NamesInv, KeepsCalls, KeepsKinds

LEMMA EntersBodyNames ==
  ASSUME IInv, IInv', NamesInv, EntersBody
  PROVE  NamesInv'
<1> DEFINE n == Len(calls)
<1>1. /\ n \in Nat \ {0} /\ Len(calls') = n /\ calls' # << >>
      /\ calls'[n].node = "func" /\ calls'[n].entry = calls[n].entry
      /\ Top' = calls'[n] /\ thisStack' = thisStack
      /\ \A i \in 1 .. n - 1 : calls'[i] = calls[i]
  <2>1. n \in Nat \ {0} /\ Top = calls[n]
    BY DEF IInv, TypeOK, EntersBody, Top, Last
  <2> QED BY <2>1 DEF EntersBody, KeepsKinds, Top, Last
<1>2. /\ Len(funcStack') = Len(funcStack) + 1
      /\ \A d \in 1 .. Len(funcStack) : funcStack'[d] = funcStack[d]
      /\ funcStack'[Len(funcStack) + 1] = calls'[n].self
  BY StacksTyped DEF EntersBody
<1>3. ThisInside(calls'[n]) = Len(thisStack') /\ FuncsInside(calls'[n]) = Len(funcStack')
  <2>1. CurrentDepths' = DepthsInside(calls'[n])
    BY <1>1 DEF IInv, StacksBalanced
  <2> QED BY <2>1 DEF CurrentDepths, DepthsInside, ThisInside, FuncsInside
<1> HIDE DEF n
<1>4. ASSUME NEW i \in 1 .. n - 1
      PROVE  /\ ThisInside(calls[i]) <= Len(thisStack') /\ FuncsInside(calls[i]) <= Len(funcStack')
             /\ \A j \in i + 1 .. n :
                  /\ ThisInside(calls[i]) <= calls'[j].entry.this
                  /\ FuncsInside(calls[i]) <= calls'[j].entry.funcs
             /\ calls[i].node = "block" => thisStack'[ThisInside(calls[i])] = calls[i].self
             /\ calls[i].node = "func" /\ calls[i].stage = "body" =>
                  funcStack'[FuncsInside(calls[i])] = calls[i].self
  <2>1. i \in 1 .. Len(calls)
    BY <1>1 DEF n
  <2>2. /\ ThisInside(calls[i]) <= Len(thisStack) /\ FuncsInside(calls[i]) <= Len(funcStack)
        /\ \A j \in i + 1 .. Len(calls) :
             /\ ThisInside(calls[i]) <= calls[j].entry.this
             /\ FuncsInside(calls[i]) <= calls[j].entry.funcs
        /\ calls[i].node = "block" => thisStack[ThisInside(calls[i])] = calls[i].self
        /\ calls[i].node = "func" /\ calls[i].stage = "body" =>
             funcStack[FuncsInside(calls[i])] = calls[i].self
    BY <2>1 DEF NamesInv
  <2>3. /\ ThisInside(calls[i]) \in Nat /\ FuncsInside(calls[i]) \in Nat
        /\ calls[i].node = "func" /\ calls[i].stage = "body" => FuncsInside(calls[i]) > 0
        /\ Len(thisStack) \in Nat /\ Len(funcStack) \in Nat
    BY <2>1, StacksTyped
  <2>4. \A j \in i + 1 .. n : calls'[j].entry = calls[j].entry
    BY <1>1
  <2> QED BY <1>1, <1>2, <2>2, <2>3, <2>4 DEF n
<1>5. \A i \in 1 .. n : i \in 1 .. n - 1 \/ i = n
  BY <1>1
<1>6. \A j \in n + 1 .. n : FALSE
  BY <1>1
<1>7. /\ ThisInside(calls'[n]) <= Len(thisStack') /\ FuncsInside(calls'[n]) <= Len(funcStack')
      /\ funcStack'[FuncsInside(calls'[n])] = calls'[n].self
  BY <1>1, <1>2, <1>3, StacksTyped
<1> QED BY <1>1, <1>4, <1>5, <1>6, <1>7 DEF NamesInv

(* $this is always the innermost block being typed, and $ret always writes *)
(* the function whose body is being typed, however blocks, functions,      *)
(* imports and overloads nest and fail (inference.c, BLOCK and FUNC).      *)
THEOREM StacksName == Spec => []StacksNameActivations
<1>1. Init => NamesInv
  <2> SUFFICES ASSUME Init PROVE NamesInv
    OBVIOUS
  <2>1. \A i \in 1 .. Len(calls) : FALSE
    BY DEF Init
  <2> QED BY <2>1, Zenon DEF NamesInv
<1>2. NamesInv /\ IInv /\ IInv' /\ [Next]_vars => NamesInv'
  BY StepShapes, StartsCallNames, EndsCallNames, EntersBodyNames, KeepsCallsNames DEF IInv
<1>3. NamesInv /\ IInv => StacksNameActivations
  <2> SUFFICES ASSUME NamesInv, IInv, NEW i \in DOMAIN calls
               PROVE  /\ calls[i].node = "block" =>
                           /\ calls[i].entry.this < Len(thisStack)
                           /\ thisStack[calls[i].entry.this + 1] = calls[i].self
                      /\ calls[i].node = "func" /\ calls[i].stage = "body" =>
                           /\ calls[i].entry.funcs < Len(funcStack)
                           /\ funcStack[calls[i].entry.funcs + 1] = calls[i].self
    BY DEF StacksNameActivations
  <2>1. i \in 1 .. Len(calls)
    BY DEF IInv, TypeOK
  <2>2. /\ calls[i].entry.this \in Nat /\ calls[i].entry.funcs \in Nat
        /\ Len(thisStack) \in Nat /\ Len(funcStack) \in Nat
    BY <2>1, StacksTyped
  <2>3. /\ ThisInside(calls[i]) <= Len(thisStack) /\ FuncsInside(calls[i]) <= Len(funcStack)
        /\ calls[i].node = "block" => thisStack[ThisInside(calls[i])] = calls[i].self
        /\ calls[i].node = "func" /\ calls[i].stage = "body" =>
             funcStack[FuncsInside(calls[i])] = calls[i].self
    BY <2>1 DEF NamesInv
  <2> QED BY <2>2, <2>3 DEF ThisInside, FuncsInside
<1> QED BY <1>1, <1>2, <1>3, InitEstablishes, StepKeepsInvariant, PTL DEF Spec

-----------------------------------------------------------------------------
(* What functions return *)

(* Object t of heap h is of that kind.                                     *)
IsA(h, t, kind) == t \in 1 .. Len(h) /\ h[t].kind = kind

(* What $ret expects is what the innermost function says it returns.       *)
ExpectedOK ==
  funcStack # << >> /\ expectedRet # Null => ReturnOf(heap, Last(funcStack)) = expectedRet

(* The functions and blocks being typed are ones.                          *)
KindsOK ==
  /\ \A k \in 1 .. Len(funcStack) : IsA(heap, funcStack[k], "func")
  /\ \A i \in 1 .. Len(calls) : calls[i].node = "block" => IsA(heap, calls[i].self, "block")

(* What the functions of h return is what they return in g, but for W.     *)
KeepsReturns(h, g, W) ==
  /\ Len(g) >= Len(h)
  /\ \A t \in 1 .. Len(h) : g[t].kind = h[t].kind
  /\ \A t \in (1 .. Len(h)) \ W : h[t].kind = "func" => ReturnOf(g, t) = ReturnOf(h, t)

(* The only function whose return type a step may write.                   *)
Innermost == IF funcStack = << >> THEN {} ELSE {Last(funcStack)}

(* What the steps below know of the heap.                                  *)
LEMMA HeapTyped ==
  ASSUME IInv
  PROVE  HeapOK(heap) /\ Len(heap) \in Nat /\ heap \in Seq(TypeObject(Len(heap)))
  BY DEF IInv, TypeOK, ContextTypeOK, HeapOK

(* A heap that stays keeps what its functions return.                      *)
LEMMA SameReturns ==
  ASSUME IInv
  PROVE  \A W : KeepsReturns(heap, heap, W)
  BY HeapTyped DEF KeepsReturns

(* What keeps all return types keeps those outside of W.                   *)
LEMMA MoreReturns ==
  ASSUME NEW h, NEW g, NEW W, KeepsReturns(h, g, {})
  PROVE  KeepsReturns(h, g, W)
  BY DEF KeepsReturns

(* Appending to a sequence, of whatever type the element is.               *)
LEMMA PlainAppend ==
  ASSUME NEW S, NEW s \in Seq(S), NEW e
  PROVE  /\ Len(Append(s, e)) = Len(s) + 1 /\ Append(s, e)[Len(s) + 1] = e
         /\ \A i \in 1 .. Len(s) : Append(s, e)[i] = s[i]
<1> DEFINE T == S \cup {e}
<1>1. s \in Seq(T) /\ e \in T
  <2>1. S \subseteq T
    OBVIOUS
  <2> HIDE DEF T
  <2>2. s \in Seq(T)
    BY <2>1
  <2> QED BY <2>2 DEF T
<1> HIDE DEF T
<1> QED BY <1>1, AppendFacts

(* Allocating an object. *)
LEMMA AppendReturns ==
  ASSUME NEW h, HeapOK(h), NEW o
  PROVE  /\ KeepsReturns(h, Append(h, o), {})
         /\ Len(Append(h, o)) = Len(h) + 1 /\ Append(h, o)[Len(h) + 1] = o
<1>1. h \in Seq(TypeObject(Len(h))) /\ Len(h) \in Nat
  BY DEF HeapOK
<1>2. /\ Len(Append(h, o)) = Len(h) + 1 /\ Append(h, o)[Len(h) + 1] = o
      /\ \A t \in 1 .. Len(h) : Append(h, o)[t] = h[t]
  BY <1>1, PlainAppend
<1> QED BY <1>1, <1>2 DEF KeepsReturns, ReturnOf

(* Writing a part of a function type. *)
PartWritten(h, g, t, i, p) ==
  /\ KeepsReturns(h, g, {t})
  /\ ReturnOf(g, t) = IF i = 2 THEN p ELSE ReturnOf(h, t)

(* Writing part p of function t changes nothing but that part.             *)
LEMMA SetPartReturns ==
  ASSUME NEW h, HeapOK(h), NEW t, IsA(h, t, "func"), NEW i \in {1, 2}, NEW p
  PROVE  PartWritten(h, SetPart(h, t, i, p), t, i, p)
<1> DEFINE g == SetPart(h, t, i, p)
<1>1. h \in Seq(TypeObject(Len(h))) /\ Len(h) \in Nat /\ t \in 1 .. Len(h) /\ t \in DOMAIN h
  BY DEF HeapOK, IsA
<1>2. h[t] \in TypeObject(Len(h)) /\ Len(h[t].parts) >= 2
  BY <1>1 DEF HeapOK, IsA, Arity
<1>3. PICK parts : parts = [h[t].parts EXCEPT ![i] = p]
  OBVIOUS
<1>4. 2 \in DOMAIN h[t].parts /\ i \in DOMAIN h[t].parts
  BY <1>2 DEF TypeObject
<1>5. parts[2] = IF i = 2 THEN p ELSE h[t].parts[2]
  BY <1>3, <1>4
<1>6. PICK o : o = [h[t] EXCEPT !.parts = parts]
  OBVIOUS
<1>7. o.parts = parts /\ o.kind = h[t].kind
  BY <1>2, <1>6 DEF TypeObject
<1>8. g = [h EXCEPT ![t] = o]
  BY <1>3, <1>6 DEF SetPart
<1> HIDE DEF g
<1>9. Len(g) = Len(h) /\ \A u \in 1 .. Len(h) : g[u] = IF u = t THEN o ELSE h[u]
  BY <1>1, <1>8
<1>10. ReturnOf(g, t) = IF i = 2 THEN p ELSE ReturnOf(h, t)
  BY <1>1, <1>5, <1>7, <1>9 DEF ReturnOf
<1>11. KeepsReturns(h, g, {t})
  BY <1>1, <1>7, <1>9 DEF KeepsReturns, ReturnOf
<1> QED BY <1>10, <1>11 DEF g, PartWritten

(* Writing what function t returns leaves all others as they are.          *)
LEMMA SetReturnReturns ==
  ASSUME NEW h, HeapOK(h), NEW t, IsA(h, t, "func"), NEW p
  PROVE  /\ KeepsReturns(h, SetPart(h, t, 2, p), {t})
         /\ ReturnOf(SetPart(h, t, 2, p), t) = p
<1>1. 2 \in {1, 2}
  OBVIOUS
<1>2. PartWritten(h, SetPart(h, t, 2, p), t, 2, p)
  BY <1>1, SetPartReturns, Zenon
<1> QED BY <1>2 DEF PartWritten

(* Writing a function's parameter changes no return type.                  *)
LEMMA SetParamReturns ==
  ASSUME NEW h, HeapOK(h), NEW t, IsA(h, t, "func"), NEW p
  PROVE  KeepsReturns(h, SetPart(h, t, 1, p), {})
<1>1. 1 \in {1, 2} /\ 1 # 2
  OBVIOUS
<1>2. PartWritten(h, SetPart(h, t, 1, p), t, 1, p)
  BY <1>1, SetPartReturns, Zenon
<1>3. PICK g : g = SetPart(h, t, 1, p)
  OBVIOUS
<1>4. KeepsReturns(h, g, {t}) /\ ReturnOf(g, t) = ReturnOf(h, t)
  BY <1>1, <1>2, <1>3 DEF PartWritten
<1>5. KeepsReturns(h, g, {})
  BY <1>4 DEF KeepsReturns
<1> QED BY <1>3, <1>5

(* Adding a field to a block type. *)
LEMMA AddFieldReturns ==
  ASSUME NEW h, HeapOK(h), NEW t, IsA(h, t, "block"), NEW n, NEW p
  PROVE  KeepsReturns(h, AddField(h, t, n, p), {})
<1>1. h \in Seq(TypeObject(Len(h))) /\ Len(h) \in Nat /\ t \in 1 .. Len(h) /\ t \in DOMAIN h
  BY DEF HeapOK, IsA
<1>2. PICK o : o = [h[t] EXCEPT !.names = Append(@, n), !.parts = Append(@, p)]
  OBVIOUS
<1>3. o.kind = h[t].kind
  <2>1. h[t] \in TypeObject(Len(h))
    BY <1>1
  <2> QED BY <1>2, <2>1 DEF TypeObject
<1>4. AddField(h, t, n, p) = [h EXCEPT ![t] = o]
  BY <1>2 DEF AddField
<1>5. PICK g : g = [h EXCEPT ![t] = o]
  OBVIOUS
<1>6. Len(g) = Len(h) /\ \A u \in 1 .. Len(h) : g[u] = IF u = t THEN o ELSE h[u]
  BY <1>1, <1>5
<1>7. KeepsReturns(h, g, {})
  BY <1>1, <1>3, <1>6 DEF KeepsReturns, ReturnOf, IsA
<1> QED BY <1>4, <1>5, <1>7

(* The activations before a step.                                          *)
LEMMA CallsTyped ==
  ASSUME IInv
  PROVE  /\ calls \in Seq(Call(Pointer)) /\ Len(calls) \in Nat
         /\ calls # << >> => Len(calls) > 0 /\ Top = calls[Len(calls)]
         /\ funcStack \in Seq(Pointer) /\ Len(funcStack) \in Nat
  BY DEF IInv, TypeOK, ContextTypeOK, Top, Last

(* The function whose body is typed is the innermost one.                  *)
LEMMA BodyOnTop ==
  ASSUME IInv, NamesInv, At("func", "body")
  PROVE  funcStack # << >> /\ Top.self = Last(funcStack) /\ Innermost = {Last(funcStack)}
<1>1. /\ Len(calls) \in Nat \ {0} /\ Top = calls[Len(calls)]
      /\ Len(funcStack) = FuncsInside(Top) /\ Top.entry.funcs \in Nat
  BY DepthsAtTop DEF At, Top, Last, FuncsInside, Depths
<1>2. FuncsInside(Top) > 0 /\ funcStack[FuncsInside(Top)] = Top.self
  BY <1>1 DEF NamesInv, At, FuncsInside
<1>3. funcStack \in Seq(Pointer)
  BY DEF IInv, TypeOK, ContextTypeOK
<1> QED BY <1>1, <1>2, <1>3 DEF Innermost, Last

(* What is expected stays right while the functions keep what they return. *)
LEMMA ExpectedStays ==
  ASSUME IInv, KindsOK, ExpectedOK, KeepsReturns(heap, heap', {}), UNCHANGED << funcStack, expectedRet >>
  PROVE  KeepsReturns(heap, heap', Innermost) /\ ExpectedOK'
<1>1. funcStack # << >> => IsA(heap, Last(funcStack), "func")
  BY DEF IInv, TypeOK, ContextTypeOK, KindsOK, Last
<1>2. ExpectedOK'
  BY <1>1 DEF KeepsReturns, ExpectedOK, IsA
<1> QED BY <1>2, MoreReturns

(* A $ret writes the return type of the innermost function, and what later *)
(* ones expect.                                                            *)
LEMMA RecordReturnReturns ==
  ASSUME IInv, KindsOK, ExpectedOK, NEW t, RecordReturn(t)
  PROVE  KeepsReturns(heap, heap', Innermost) /\ ExpectedOK'
<1>1. HeapOK(heap) /\ funcStack \in Seq(Pointer) /\ UNCHANGED funcStack
  BY DEF RecordReturn, IInv, TypeOK, ContextTypeOK
<1>2. CASE UNCHANGED << heap, expectedRet >>
  BY <1>1, <1>2, SameReturns DEF ExpectedOK, ReturnOf
<1>3. CASE EstablishReturn(t) /\ funcStack = << >>
  BY <1>1, <1>3, SameReturns DEF EstablishReturn, ExpectedOK
<1>4. CASE EstablishReturn(t) /\ funcStack # << >>
  <2>1. IsA(heap, Last(funcStack), "func")
    BY <1>1, <1>4 DEF KindsOK, Last
  <2>2. heap' = SetPart(heap, Last(funcStack), 2, t) /\ expectedRet' = t
    BY <1>4 DEF EstablishReturn
  <2>3. /\ KeepsReturns(heap, heap', {Last(funcStack)})
        /\ ReturnOf(heap', Last(funcStack)) = t
    BY <1>1, <2>1, <2>2, SetReturnReturns
  <2> QED BY <1>1, <1>4, <2>2, <2>3 DEF Innermost, ExpectedOK
<1> QED BY <1>2, <1>3, <1>4 DEF RecordReturn

(* A body that is done gives its function its return type.                 *)
LEMMA BodyDoneReturns ==
  ASSUME IInv, NamesInv, KindsOK, BodyDone
  PROVE  KeepsReturns(heap, heap', Innermost)
<1>1. /\ HeapOK(heap) /\ BodyReturnType \in 0 .. Len(heap)
      /\ funcStack \in Seq(Pointer)
  BY DEF IInv, TypeOK, ContextTypeOK, Pointer, BodyReturnType
<1>2. funcStack # << >> /\ Top.self = Last(funcStack) /\ Innermost = {Last(funcStack)}
  BY BodyOnTop DEF BodyDone
<1>3. IsA(heap, Last(funcStack), "func")
  BY <1>1, <1>2 DEF KindsOK, Last
<1>4. PICK g : g = SetPart(heap, Top.self, 2, BodyReturnType)
  OBVIOUS
<1>5. KeepsReturns(heap, g, {Top.self}) /\ HeapOK(g)
  BY <1>1, <1>2, <1>3, <1>4, SetReturnReturns, HeapSetPart
<1>6. PICK o : heap' = Append(g, o)
  BY <1>4 DEF BodyDone
<1>7. KeepsReturns(g, heap', {})
  BY <1>5, <1>6, AppendReturns
<1> QED BY <1>2, <1>5, <1>7, HeapTyped DEF KeepsReturns, HeapOK

(* ParamDone makes the placeholder, or a new object, the innermost function. *)
LEMMA ParamDoneReturns ==
  ASSUME IInv, ParamDone
  PROVE  /\ KeepsReturns(heap, heap', {})
         /\ pendingFunc = Null => IsA(heap', NextType, "func")
<1>1. HeapOK(heap) /\ Len(heap) \in Nat
  BY HeapTyped
<1>2. CASE pendingFunc = Null
  <2>1. heap' = Append(heap, FuncType(value.type, UnknownType))
    BY <1>2 DEF ParamDone
  <2>2. KeepsReturns(heap, heap', {}) /\ Len(heap') = Len(heap) + 1
        /\ heap'[Len(heap) + 1] = FuncType(value.type, UnknownType)
    BY <1>1, <2>1, AppendReturns
  <2> QED BY <1>1, <2>2 DEF IsA, NextType, FuncType, Obj
<1>3. CASE pendingFunc # Null
  <2>1. heap' = SetPart(heap, pendingFunc, 1, value.type)
    BY <1>3 DEF ParamDone
  <2>2. IsA(heap, pendingFunc, "func")
    BY <1>3 DEF IInv, TypeOK, ContextTypeOK, KindOf, IsA, Pointer, Null
  <2>3. KeepsReturns(heap, heap', {})
    BY <1>1, <2>1, <2>2, SetParamReturns
  <2> QED BY <1>3, <2>3
<1> QED BY <1>2, <1>3

(* ParamDone takes over what the function says it returns. *)
LEMMA ParamDoneExpects ==
  ASSUME IInv, ParamDone
  PROVE  ExpectedOK'
<1>1. /\ funcStack' = Append(funcStack, IF pendingFunc = Null THEN NextType ELSE pendingFunc)
      /\ expectedRet' = ReturnOf(heap', IF pendingFunc = Null THEN NextType ELSE pendingFunc)
  BY DEF ParamDone
<1>2. PICK t : funcStack' = Append(funcStack, t) /\ expectedRet' = ReturnOf(heap', t)
  BY <1>1
<1>3. Last(funcStack') = t
  <2>1. /\ Len(funcStack') = Len(funcStack) + 1
        /\ funcStack'[Len(funcStack) + 1] = t
    BY <1>2, CallsTyped, PlainAppend
  <2> QED BY <2>1 DEF Last
<1> QED BY <1>2, <1>3 DEF ExpectedOK

(* Objects keep their kind.                                                *)
LEMMA StillIsA ==
  ASSUME IInv, NEW W, KeepsReturns(heap, heap', W)
  PROVE  \A t, kind : IsA(heap, t, kind) => IsA(heap', t, kind)
<1>1. Len(heap) \in Nat /\ Len(heap') >= Len(heap) /\ \A t \in 1 .. Len(heap) : heap'[t].kind = heap[t].kind
  BY HeapTyped DEF KeepsReturns
<1>2. Len(heap') \in Nat
  BY DEF KeepsReturns
<1> QED BY <1>1, <1>2 DEF IsA

-----------------------------------------------------------------------------
(* The comparison of types *)

(* What two objects must have in common, whatever their parts are.         *)
Alike(h, x, y) ==
  /\ h[x].kind = h[y].kind
  /\ h[x].names = h[y].names
  /\ h[x].mut = h[y].mut
  /\ Len(h[x].parts) = Len(h[y].parts)

Pairs(h) == (0 .. Len(h)) \X (0 .. Len(h))

(* x and y are alike, and so are their parts as far as R tells.            *)
AlikeDown(h, R, x, y) ==
  IF x = Null \/ y = Null THEN x = y
  ELSE /\ Alike(h, x, y)
       /\ \A i \in DOMAIN h[x].parts : << h[x].parts[i], h[y].parts[i] >> \in R

Deeper(h, R) == {p \in Pairs(h) : AlikeDown(h, R, p[1], p[2])}

(* R[n] are the pairs that a comparison to depth n - 1 does not tell apart.*)
Layers(h, R) ==
  /\ R \in [1 .. EqDepth + 1 -> SUBSET Pairs(h)]
  /\ \A n \in 1 .. EqDepth + 1 : R[n] = Deeper(h, IF n = 1 THEN Pairs(h) ELSE R[n - 1])

LEMMA LayersExist ==
  ASSUME NEW h
  PROVE  \E R : Layers(h, R)
<1> DEFINE X == SUBSET Pairs(h)
           N == EqDepth + 1
           G == [a \in (1 .. N) \X Beginnings(X, N) |->
                   Deeper(h, IF a[1] = 1 THEN Pairs(h) ELSE a[2][a[1] - 1])]
<1>1. N \in Nat /\ EqDepth \in Nat
  BY EqDepthAssumption
<1>2. G \in [(1 .. N) \X Beginnings(X, N) -> X]
  BY DEF Deeper
<1>3. PICK R \in [1 .. N -> X] : Follows(G, N, R)
  <2> HIDE DEF G, N, X
  <2> QED BY <1>1, <1>2, FollowExists
<1>4. ASSUME NEW n \in 1 .. N
      PROVE  R[n] = Deeper(h, IF n = 1 THEN Pairs(h) ELSE R[n - 1])
  <2> DEFINE r == [k \in 1 .. n - 1 |-> R[k]]
  <2>1. R[n] = G[<< n, r >>]
    <3> HIDE DEF G, N, X
    <3> QED BY <1>3 DEF Follows
  <2>2. r \in [1 .. n - 1 -> X] /\ n - 1 \in 0 .. N
    BY <1>1
  <2>3. r \in Beginnings(X, N)
    BY <2>2 DEF Beginnings
  <2>4. n # 1 => r[n - 1] = R[n - 1]
    BY <1>1
  <2> HIDE DEF r, X, N
  <2>5. G[<< n, r >>] = Deeper(h, IF n = 1 THEN Pairs(h) ELSE r[n - 1])
    BY <2>3
  <2> QED BY <2>1, <2>4, <2>5
<1> HIDE DEF G
<1> QED BY <1>3, <1>4 DEF Layers

(* The function that TypeEquals defines.                                   *)
ComparesTo(h, f, d, x, y) ==
  IF x = Null \/ y = Null THEN x = y
  ELSE /\ h[x].kind = h[y].kind
       /\ h[x].names = h[y].names
       /\ h[x].mut = h[y].mut
       /\ Len(h[x].parts) = Len(h[y].parts)
       /\ d > 0 => \A i \in DOMAIN h[x].parts : f[<< d - 1, h[x].parts[i], h[y].parts[i] >>]

Compares(h, f) ==
  f = [c \in (0 .. EqDepth) \X (0 .. Len(h)) \X (0 .. Len(h)) |-> ComparesTo(h, f, c[1], c[2], c[3])]

(* The parts of an object of a sound heap. *)
LEMMA PartsIn ==
  ASSUME NEW h, HeapOK(h), NEW x \in 1 .. Len(h)
  PROVE  /\ h[x].parts \in Seq(0 .. Len(h)) /\ Len(h[x].parts) \in Nat
         /\ DOMAIN h[x].parts = 1 .. Len(h[x].parts)
         /\ \A i \in 1 .. Len(h[x].parts) : h[x].parts[i] \in 0 .. Len(h)
<1>1. h[x] \in TypeObject(Len(h))
  BY DEF HeapOK
<1>2. h[x].parts \in Seq(0 .. Len(h))
  BY <1>1 DEF TypeObject
<1> QED BY <1>2

LEMMA ComparesLayers ==
  ASSUME NEW h, HeapOK(h), NEW f, Compares(h, f), NEW R, Layers(h, R)
  PROVE  \A n \in 1 .. EqDepth + 1 : \A x, y \in 0 .. Len(h) : f[<< n - 1, x, y >>] <=> << x, y >> \in R[n]
<1> DEFINE L == 0 .. Len(h)
           T == {m \in Nat : m + 1 <= EqDepth + 1 =>
                               \A x, y \in L : f[<< m, x, y >>] <=> << x, y >> \in R[m + 1]}
<1>1. /\ Len(h) \in Nat /\ EqDepth \in Nat
  BY EqDepthAssumption DEF HeapOK
<1>2. ASSUME NEW d \in 0 .. EqDepth, NEW x \in L, NEW y \in L
      PROVE  f[<< d, x, y >>] <=>
               IF x = Null \/ y = Null THEN x = y
               ELSE /\ Alike(h, x, y)
                    /\ d > 0 => \A i \in DOMAIN h[x].parts :
                                   f[<< d - 1, h[x].parts[i], h[y].parts[i] >>]
  <2>1. f[<< d, x, y >>] = ComparesTo(h, f, d, x, y)
    BY DEF Compares
  <2> QED BY <2>1 DEF ComparesTo, Alike
<1>3. ASSUME NEW n \in 1 .. EqDepth + 1, NEW x \in L, NEW y \in L
      PROVE  << x, y >> \in R[n] <=> AlikeDown(h, IF n = 1 THEN Pairs(h) ELSE R[n - 1], x, y)
  <2>1. R[n] = Deeper(h, IF n = 1 THEN Pairs(h) ELSE R[n - 1])
    BY DEF Layers
  <2>2. PICK Q : Q = IF n = 1 THEN Pairs(h) ELSE R[n - 1]
    OBVIOUS
  <2>3. << x, y >> \in Pairs(h)
    BY DEF Pairs
  <2>4. << x, y >> \in Deeper(h, Q) <=> AlikeDown(h, Q, x, y)
    BY <2>3 DEF Deeper
  <2> QED BY <2>1, <2>2, <2>4
<1>4. 0 \in T
  <2>1. ASSUME NEW x \in L, NEW y \in L
        PROVE  f[<< 0, x, y >>] <=> << x, y >> \in R[1]
    <3>1. x # Null /\ y # Null /\ Alike(h, x, y) =>
            \A i \in DOMAIN h[x].parts : << h[x].parts[i], h[y].parts[i] >> \in Pairs(h)
      BY <1>1, PartsIn DEF Pairs, Alike, Null
    <3>2. 0 \in 0 .. EqDepth /\ ~(0 > 0) /\ 1 \in 1 .. EqDepth + 1
      BY <1>1
    <3>3. f[<< 0, x, y >>] <=> IF x = Null \/ y = Null THEN x = y ELSE Alike(h, x, y)
      BY <1>2, <3>2
    <3> QED BY <1>3, <3>1, <3>2, <3>3 DEF AlikeDown
  <2> QED BY <2>1
<1>5. ASSUME NEW m \in Nat, m \in T
      PROVE  m + 1 \in T
  <2>1. ASSUME (m + 1) + 1 <= EqDepth + 1, NEW x \in L, NEW y \in L
        PROVE  f[<< m + 1, x, y >>] <=> << x, y >> \in R[(m + 1) + 1]
    <3>1. /\ m + 1 \in 0 .. EqDepth /\ m + 1 > 0 /\ (m + 1) - 1 = m /\ (m + 1) + 1 # 1
          /\ (m + 1) + 1 \in 1 .. EqDepth + 1 /\ ((m + 1) + 1) - 1 = m + 1 /\ m + 1 <= EqDepth + 1
      BY <1>1, <2>1
    <3>2. \A a, b \in L : f[<< m, a, b >>] <=> << a, b >> \in R[m + 1]
      BY <1>5, <3>1
    <3>3. x # Null /\ y # Null /\ Alike(h, x, y) =>
            \A i \in DOMAIN h[x].parts : h[x].parts[i] \in L /\ h[y].parts[i] \in L
      <4> SUFFICES ASSUME x # Null, y # Null, Alike(h, x, y), NEW i \in DOMAIN h[x].parts
                   PROVE  h[x].parts[i] \in L /\ h[y].parts[i] \in L
        OBVIOUS
      <4>1. x \in 1 .. Len(h) /\ y \in 1 .. Len(h)
        BY <1>1 DEF Null
      <4>2. i \in 1 .. Len(h[x].parts) /\ i \in 1 .. Len(h[y].parts)
        BY <4>1, PartsIn DEF Alike
      <4> QED BY <4>1, <4>2, PartsIn
    <3>4. << x, y >> \in R[(m + 1) + 1] <=> AlikeDown(h, R[m + 1], x, y)
      BY <1>3, <3>1
    <3>5. f[<< m + 1, x, y >>] <=>
            IF x = Null \/ y = Null THEN x = y
            ELSE /\ Alike(h, x, y)
                 /\ \A i \in DOMAIN h[x].parts : f[<< m, h[x].parts[i], h[y].parts[i] >>]
      BY <1>2, <3>1
    <3> HIDE DEF L
    <3> QED BY <3>2, <3>3, <3>4, <3>5 DEF AlikeDown
  <2>2. m + 1 \in Nat
    OBVIOUS
  <2> HIDE DEF L
  <2> QED BY <2>1, <2>2
<1> HIDE DEF T
<1>6. \A m \in Nat : m \in T
  BY <1>4, <1>5, SetInduction
<1>7. ASSUME NEW n \in 1 .. EqDepth + 1
      PROVE  \A x, y \in L : f[<< n - 1, x, y >>] <=> << x, y >> \in R[n]
  <2>1. n - 1 \in Nat /\ (n - 1) + 1 = n /\ n <= EqDepth + 1
    BY <1>1
  <2>2. n - 1 \in T
    BY <1>6, <2>1
  <2> QED BY <2>1, <2>2 DEF T
<1> QED BY <1>7

(* What a comparison of types tells.                                       *)
LEMMA TypeEqualsIs ==
  ASSUME NEW h, HeapOK(h)
  PROVE  \E R : /\ Layers(h, R)
               /\ \A x, y \in 0 .. Len(h) : TypeEquals(h, x, y) <=> << x, y >> \in R[EqDepth + 1]
<1>1. PICK R : Layers(h, R)
  BY LayersExist
<1>2. EqDepth \in Nat /\ EqDepth + 1 \in 1 .. EqDepth + 1 /\ (EqDepth + 1) - 1 = EqDepth
  BY EqDepthAssumption
<1> DEFINE D == (0 .. EqDepth) \X (0 .. Len(h)) \X (0 .. Len(h))
           g == [c \in D |-> << c[2], c[3] >> \in R[c[1] + 1]]
<1>3. Compares(h, g)
  <2>1. ASSUME NEW d \in 0 .. EqDepth, NEW x \in 0 .. Len(h), NEW y \in 0 .. Len(h)
        PROVE  g[<< d, x, y >>] = ComparesTo(h, g, d, x, y)
    <3>1. g[<< d, x, y >>] = (<< x, y >> \in R[d + 1])
      OBVIOUS
    <3>2. << x, y >> \in R[d + 1] <=> AlikeDown(h, IF d = 0 THEN Pairs(h) ELSE R[d], x, y)
      <4>1. d + 1 \in 1 .. EqDepth + 1 /\ (d + 1 = 1 <=> d = 0) /\ (d + 1) - 1 = d
        BY <1>2
      <4>2. R[d + 1] = Deeper(h, IF d = 0 THEN Pairs(h) ELSE R[d])
        BY <1>1, <4>1 DEF Layers
      <4>3. << x, y >> \in Pairs(h)
        BY DEF Pairs
      <4>4. PICK Q : Q = IF d = 0 THEN Pairs(h) ELSE R[d]
        OBVIOUS
      <4>5. << x, y >> \in Deeper(h, Q) <=> AlikeDown(h, Q, x, y)
        BY <4>3 DEF Deeper
      <4> QED BY <4>2, <4>4, <4>5
    <3>3. ASSUME x # Null, y # Null, Alike(h, x, y), NEW i \in DOMAIN h[x].parts
          PROVE  /\ h[x].parts[i] \in 0 .. Len(h) /\ h[y].parts[i] \in 0 .. Len(h)
                 /\ d > 0 => (g[<< d - 1, h[x].parts[i], h[y].parts[i] >>]
                                 <=> << h[x].parts[i], h[y].parts[i] >> \in R[d])
      <4>1. Len(h) \in Nat /\ x \in 1 .. Len(h) /\ y \in 1 .. Len(h)
        BY <3>3 DEF Null, HeapOK
      <4>2. i \in 1 .. Len(h[x].parts) /\ i \in 1 .. Len(h[y].parts)
        BY <3>3, <4>1, PartsIn DEF Alike
      <4>3. PICK a, b : a = h[x].parts[i] /\ b = h[y].parts[i]
        OBVIOUS
      <4>4. a \in 0 .. Len(h) /\ b \in 0 .. Len(h)
        BY <4>1, <4>2, <4>3, PartsIn
      <4>5. ASSUME d > 0
            PROVE  g[<< d - 1, a, b >>] = (<< a, b >> \in R[d])
        <5>1. d - 1 \in 0 .. EqDepth /\ (d - 1) + 1 = d
          BY <1>2, <4>5
        <5>2. << d - 1, a, b >> \in D
          BY <4>4, <5>1
        <5> QED BY <5>1, <5>2
      <4> HIDE DEF g
      <4> QED BY <4>3, <4>4, <4>5
    <3> HIDE DEF g
    <3>4. CASE x = Null \/ y = Null
      <4>1. ComparesTo(h, g, d, x, y) = (x = y)
        BY <3>4 DEF ComparesTo
      <4>2. << x, y >> \in R[d + 1] <=> x = y
        BY <3>2, <3>4 DEF AlikeDown
      <4> QED BY <3>1, <4>1, <4>2
    <3>5. CASE x # Null /\ y # Null /\ d = 0
      <4>1. AlikeDown(h, Pairs(h), x, y) <=> Alike(h, x, y)
        BY <3>3, <3>5 DEF AlikeDown, Pairs
      <4>2. ComparesTo(h, g, d, x, y) <=> Alike(h, x, y)
        BY <3>5 DEF ComparesTo, Alike
      <4>3. ComparesTo(h, g, d, x, y) \in BOOLEAN
        BY <3>5 DEF ComparesTo
      <4>4. << x, y >> \in R[d + 1] <=> Alike(h, x, y)
        BY <3>2, <3>5, <4>1
      <4> QED BY <3>1, <4>2, <4>3, <4>4
    <3>6. CASE x # Null /\ y # Null /\ d # 0
      <4>1. d > 0
        BY <3>6
      <4>2. ComparesTo(h, g, d, x, y)
              = (Alike(h, x, y) /\ \A i \in DOMAIN h[x].parts :
                                     g[<< d - 1, h[x].parts[i], h[y].parts[i] >>])
        BY <3>6, <4>1 DEF ComparesTo, Alike
      <4>3. AlikeDown(h, R[d], x, y)
              <=> (Alike(h, x, y) /\ \A i \in DOMAIN h[x].parts :
                                     << h[x].parts[i], h[y].parts[i] >> \in R[d])
        BY <3>6 DEF AlikeDown
      <4>4. ComparesTo(h, g, d, x, y) <=> AlikeDown(h, R[d], x, y)
        BY <3>3, <3>6, <4>1, <4>2, <4>3
      <4>5. ComparesTo(h, g, d, x, y) \in BOOLEAN
        BY <4>2
      <4> QED BY <3>1, <3>2, <3>6, <4>4, <4>5
    <3> QED BY <3>4, <3>5, <3>6
  <2>2. g = [c \in D |-> ComparesTo(h, g, c[1], c[2], c[3])]
    <3>1. ASSUME NEW c \in D
          PROVE  g[c] = ComparesTo(h, g, c[1], c[2], c[3])
      <4>1. c = << c[1], c[2], c[3] >> /\ c[1] \in 0 .. EqDepth /\ c[2] \in 0 .. Len(h)
            /\ c[3] \in 0 .. Len(h)
        OBVIOUS
      <4> HIDE DEF g
      <4> QED BY <2>1, <4>1
    <3>2. g = [c \in D |-> g[c]]
      OBVIOUS
    <3> HIDE DEF g, D
    <3> QED BY <3>1, <3>2
  <2> HIDE DEF g
  <2> QED BY <2>2 DEF Compares
<1>4. PICK f : Compares(h, f) /\ \A x, y : TypeEquals(h, x, y) = f[<< EqDepth, x, y >>]
  <2>1. \A x, y : TypeEquals(h, x, y) = (CHOOSE f : Compares(h, f))[<< EqDepth, x, y >>]
    BY DEF TypeEquals, Compares, ComparesTo
  <2> QED BY <1>3, <2>1
<1>5. \A x, y \in 0 .. Len(h) : f[<< EqDepth, x, y >>] <=> << x, y >> \in R[EqDepth + 1]
  BY <1>1, <1>2, <1>4, ComparesLayers
<1> QED BY <1>1, <1>4, <1>5

(* A type is equal to itself.                                              *)
LEMMA TypeEqualsSelf ==
  ASSUME NEW h, HeapOK(h), NEW a \in 0 .. Len(h)
  PROVE  TypeEquals(h, a, a)
<1>1. PICK R : /\ Layers(h, R)
               /\ \A x, y \in 0 .. Len(h) : TypeEquals(h, x, y) <=> << x, y >> \in R[EqDepth + 1]
  BY TypeEqualsIs
<1>2. EqDepth \in Nat /\ Len(h) \in Nat
  BY EqDepthAssumption DEF HeapOK
<1> DEFINE L == 0 .. Len(h)
           T == {m \in Nat : m + 1 <= EqDepth + 1 => \A x \in L : << x, x >> \in R[m + 1]}
<1>3. ASSUME NEW Q, NEW n \in 1 .. EqDepth + 1, R[n] = Deeper(h, Q), \A x \in L : << x, x >> \in Q
      PROVE  \A x \in L : << x, x >> \in R[n]
  <2> TAKE x \in L
  <2>1. << x, x >> \in Pairs(h)
    BY DEF Pairs
  <2>2. x # Null => \A i \in DOMAIN h[x].parts : h[x].parts[i] \in L
    <3>1. x # Null => x \in 1 .. Len(h)
      BY <1>2 DEF Null
    <3> QED BY <3>1, PartsIn
  <2>3. AlikeDown(h, Q, x, x)
    BY <1>3, <2>2 DEF AlikeDown, Alike
  <2> QED BY <1>3, <2>1, <2>3 DEF Deeper
<1>4. 0 \in T
  <2>1. \A x \in L : << x, x >> \in Pairs(h)
    BY DEF Pairs
  <2>2. 1 \in 1 .. EqDepth + 1
    BY <1>2
  <2>3. R[1] = Deeper(h, Pairs(h))
    BY <1>1, <2>2 DEF Layers
  <2> QED BY <1>3, <2>1, <2>2, <2>3
<1>5. ASSUME NEW m \in Nat, m \in T
      PROVE  m + 1 \in T
  <2>1. ASSUME (m + 1) + 1 <= EqDepth + 1
        PROVE  \A x \in L : << x, x >> \in R[(m + 1) + 1]
    <3>1. /\ (m + 1) + 1 \in 1 .. EqDepth + 1 /\ (m + 1) + 1 # 1 /\ ((m + 1) + 1) - 1 = m + 1
          /\ m + 1 <= EqDepth + 1
      BY <1>2, <2>1
    <3>2. \A x \in L : << x, x >> \in R[m + 1]
      BY <1>5, <3>1
    <3>3. R[(m + 1) + 1] = Deeper(h, R[m + 1])
      BY <1>1, <3>1 DEF Layers
    <3> HIDE DEF L
    <3> QED BY <1>3, <3>1, <3>2, <3>3
  <2>2. m + 1 \in Nat
    OBVIOUS
  <2> HIDE DEF L
  <2> QED BY <2>1, <2>2
<1> HIDE DEF T
<1>6. EqDepth \in T
  BY <1>2, <1>4, <1>5, SetInduction
<1>7. << a, a >> \in R[EqDepth + 1]
  BY <1>2, <1>6 DEF T
<1> QED BY <1>1, <1>7

(* A comparison only reads the objects that it reaches.                    *)
LEMMA TypeEqualsKept ==
  ASSUME NEW h, HeapOK(h), NEW g, HeapOK(g),
         NEW X \in SUBSET (0 .. Len(h)), X \subseteq 0 .. Len(g),
         \A x \in X : x # Null => g[x] = h[x] /\ \A i \in DOMAIN h[x].parts : h[x].parts[i] \in X
  PROVE  \A a, b \in X : TypeEquals(h, a, b) <=> TypeEquals(g, a, b)
<1>1. PICK R : /\ Layers(h, R)
               /\ \A x, y \in 0 .. Len(h) : TypeEquals(h, x, y) <=> << x, y >> \in R[EqDepth + 1]
  BY TypeEqualsIs
<1>2. PICK S : /\ Layers(g, S)
               /\ \A x, y \in 0 .. Len(g) : TypeEquals(g, x, y) <=> << x, y >> \in S[EqDepth + 1]
  BY TypeEqualsIs
<1>3. EqDepth \in Nat /\ Len(h) \in Nat /\ Len(g) \in Nat
  BY EqDepthAssumption DEF HeapOK
<1>4. \A x, y \in X : << x, y >> \in Pairs(h) /\ << x, y >> \in Pairs(g)
  BY DEF Pairs
<1> DEFINE Same(A, B) == \A x, y \in X : << x, y >> \in A <=> << x, y >> \in B
           T == {m \in Nat : m + 1 <= EqDepth + 1 => Same(R[m + 1], S[m + 1])}
<1>5. ASSUME NEW A, NEW B, Same(A, B)
      PROVE  Same(Deeper(h, A), Deeper(g, B))
  <2> SUFFICES ASSUME NEW x \in X, NEW y \in X
               PROVE  << x, y >> \in Deeper(h, A) <=> << x, y >> \in Deeper(g, B)
    OBVIOUS
  <2>1. << x, y >> \in Deeper(h, A) <=> AlikeDown(h, A, x, y)
    BY <1>4 DEF Deeper
  <2>2. << x, y >> \in Deeper(g, B) <=> AlikeDown(g, B, x, y)
    BY <1>4 DEF Deeper
  <2>3. CASE x = Null \/ y = Null
    BY <2>1, <2>2, <2>3 DEF AlikeDown
  <2>4. CASE x # Null /\ y # Null
    <3>1. g[x] = h[x] /\ g[y] = h[y]
      BY <2>4
    <3>2. Alike(g, x, y) <=> Alike(h, x, y)
      BY <3>1 DEF Alike
    <3>3. ASSUME Alike(h, x, y), NEW i \in DOMAIN h[x].parts
          PROVE  << h[x].parts[i], h[y].parts[i] >> \in A <=> << g[x].parts[i], g[y].parts[i] >> \in B
      <4>1. x \in 1 .. Len(h) /\ y \in 1 .. Len(h)
        BY <1>3, <2>4 DEF Null
      <4>2. i \in DOMAIN h[y].parts
        BY <3>3, <4>1, PartsIn DEF Alike
      <4>3. h[x].parts[i] \in X /\ h[y].parts[i] \in X
        BY <2>4, <3>3, <4>2
      <4> QED BY <1>5, <3>1, <4>3
    <3> HIDE DEF Same
    <3> QED BY <2>1, <2>2, <2>4, <3>1, <3>2, <3>3 DEF AlikeDown
  <2> QED BY <2>3, <2>4
<1>6. 0 \in T
  <2>1. Same(Pairs(h), Pairs(g))
    BY <1>4
  <2>2. 1 \in 1 .. EqDepth + 1
    BY <1>3
  <2>3. R[1] = Deeper(h, Pairs(h)) /\ S[1] = Deeper(g, Pairs(g))
    BY <1>1, <1>2, <2>2 DEF Layers
  <2> HIDE DEF Same
  <2>4. Same(R[1], S[1])
    BY <1>5, <2>1, <2>3
  <2> QED BY <2>4
<1>7. ASSUME NEW m \in Nat, m \in T
      PROVE  m + 1 \in T
  <2>1. ASSUME (m + 1) + 1 <= EqDepth + 1
        PROVE  Same(R[(m + 1) + 1], S[(m + 1) + 1])
    <3>1. /\ (m + 1) + 1 \in 1 .. EqDepth + 1 /\ (m + 1) + 1 # 1 /\ ((m + 1) + 1) - 1 = m + 1
          /\ m + 1 <= EqDepth + 1
      BY <1>3, <2>1
    <3> HIDE DEF Same
    <3>2. Same(R[m + 1], S[m + 1])
      BY <1>7, <3>1
    <3>3. R[(m + 1) + 1] = Deeper(h, R[m + 1]) /\ S[(m + 1) + 1] = Deeper(g, S[m + 1])
      BY <1>1, <1>2, <3>1 DEF Layers
    <3> QED BY <1>5, <3>2, <3>3
  <2>2. m + 1 \in Nat
    OBVIOUS
  <2> HIDE DEF Same
  <2> QED BY <2>1, <2>2
<1> HIDE DEF T
<1>8. EqDepth \in T
  BY <1>3, <1>6, <1>7, SetInduction
<1>9. Same(R[EqDepth + 1], S[EqDepth + 1])
  <2> HIDE DEF Same
  <2>1. EqDepth + 1 <= EqDepth + 1 => Same(R[EqDepth + 1], S[EqDepth + 1])
    BY <1>8 DEF T
  <2> QED BY <1>3, <2>1
<1> QED BY <1>1, <1>2, <1>9

-----------------------------------------------------------------------------
(* The types of open blocks *)

(* The types of the blocks that are being typed: they still grow.          *)
OpenTypes(cs) == {cs[i].self : i \in {j \in 1 .. Len(cs) : cs[j].node = "block"}}

(* All others are what they will be, but for functions being typed.        *)
Settled(h, cs) == (0 .. Len(h)) \ OpenTypes(cs)

(* Nothing refers to a type that still grows: no part of a type does, ...  *)
PartsSettled(h, P) == \A t \in 1 .. Len(h) : \A i \in DOMAIN h[t].parts : h[t].parts[i] \in P

(* ... no scope, no function and no expectation of the context, ...        *)
ContextSettled(P, scs, fns, expected, pending, ret) ==
  /\ scs \in Seq(Scope(P)) /\ fns \in Seq(VarEntry(P))
  /\ expected \in P /\ pending \in P
  /\ ret \in Seq(SUBSET P)

(* ... no activation but that of the block itself, ...                     *)
CallsSettled(P, cs) ==
  \A i \in 1 .. Len(cs) : cs[i].node # "block" => cs[i].self \in P /\ cs[i].param \in P

BlocksDistinct(cs) ==
  \A i \in 1 .. Len(cs) : cs[i].node = "block" =>
    /\ cs[i].self > MutIntType
    /\ \A j \in 1 .. i - 1 : cs[j].node = "block" => cs[j].self # cs[i].self

(* ... and no value, unless a statement has it that declares nothing.      *)
ValueSettled(P) ==
  mode = "return" => value.type \in P \/ (At("block", "statements") /\ value.name = NoName)

SettledInv ==
  /\ PartsSettled(heap, Settled(heap, calls))
  /\ ContextSettled(Settled(heap, calls), scopes, functions, expectedRet, pendingFunc, returned)
  /\ CallsSettled(Settled(heap, calls), calls)
  /\ BlocksDistinct(calls)
  /\ ValueSettled(Settled(heap, calls))

(* What the steps below know of settled types.                             *)
LEMMA SettledFacts ==
  ASSUME IInv, SettledInv, NEW P, P = Settled(heap, calls)
  PROVE  /\ P \subseteq 0 .. Len(heap) /\ Len(heap) \in Nat /\ MutIntType <= Len(heap)
         /\ {Null, IntType, StringType, VoidType, UnknownType, MutIntType} \subseteq P
         /\ OpenTypes(calls) \subseteq 0 .. Len(heap)
<1>1. Len(heap) \in Nat /\ MutIntType <= Len(heap) /\ calls \in Seq(Call(Pointer))
  BY DEF IInv, TypeOK, ContextTypeOK, HeapOK
<1>2. \A i \in 1 .. Len(calls) : calls[i].self \in 0 .. Len(heap)
  BY <1>1 DEF Call, Pointer
<1>3. \A t \in OpenTypes(calls) : t \in 0 .. Len(heap) /\ t > MutIntType
  BY <1>2 DEF SettledInv, BlocksDistinct, OpenTypes
<1> QED BY <1>1, <1>3 DEF Settled, Null, IntType, StringType, VoidType, UnknownType, MutIntType

(* What a leaf is typed with is settled.                                   *)
LEMMA UnwrapSettled ==
  ASSUME IInv, SettledInv, NEW P, P = Settled(heap, calls), NEW t \in P
  PROVE  Unwrap(t) \in P
<1>1. HeapOK(heap) /\ P \subseteq 0 .. Len(heap) /\ Len(heap) \in Nat /\ PartsSettled(heap, P)
  BY SettledFacts DEF SettledInv, IInv, TypeOK, ContextTypeOK
<1>2. ASSUME t # Null, heap[t].kind = "ref"
      PROVE  heap[t].parts[1] \in P
  <2>1. t \in 1 .. Len(heap)
    BY <1>1, <1>2 DEF Null
  <2>2. Len(heap[t].parts) >= 1
    BY <1>1, <1>2, <2>1 DEF HeapOK, Arity
  <2>3. 1 \in DOMAIN heap[t].parts
    BY <1>1, <2>1, <2>2, PartsIn
  <2> QED BY <1>1, <2>1, <2>3 DEF PartsSettled
<1> QED BY <1>2 DEF Unwrap

LEMMA CallTypeSettled ==
  ASSUME IInv, SettledInv, NEW P, P = Settled(heap, calls), NEW t \in P
  PROVE  CallType(t) \in P
<1>1. HeapOK(heap) /\ P \subseteq 0 .. Len(heap) /\ Len(heap) \in Nat /\ PartsSettled(heap, P) /\ Null \in P
  BY SettledFacts DEF SettledInv, IInv, TypeOK, ContextTypeOK
<1>2. PICK f \in P : f = Unwrap(t)
  BY UnwrapSettled
<1>3. ASSUME f # Null, heap[f].kind = "func"
      PROVE  ReturnOf(heap, f) \in P
  <2>1. f \in 1 .. Len(heap)
    BY <1>1, <1>3 DEF Null
  <2>2. Len(heap[f].parts) >= 2
    BY <1>1, <1>3, <2>1 DEF HeapOK, Arity
  <2>3. 2 \in DOMAIN heap[f].parts
    BY <1>1, <2>1, <2>2, PartsIn
  <2> QED BY <1>1, <2>1, <2>3 DEF PartsSettled, ReturnOf
<1> QED BY <1>1, <1>2, <1>3 DEF CallType, KindOf

LEMMA LeafTypeSettled ==
  ASSUME IInv, SettledInv, NEW P, P = Settled(heap, calls), NEW l \in Leaf
  PROVE  LeafType(l) \in P
<1>1. {Null, IntType, StringType, MutIntType} \subseteq P /\ scopes \in Seq(Scope(P))
  BY SettledFacts DEF SettledInv, ContextSettled
<1>2. LookupVar(l.name) \in P
  BY <1>1, LookupVarOK
<1>3. CallType(LookupVar(l.name)) \in P
  BY <1>2, CallTypeSettled
<1>4. l.op \in {"int", "string", "mutint", "ident", "call"}
  BY LeafAssumption DEF AnyLeaf
<1> QED BY <1>1, <1>2, <1>3, <1>4 DEF LeafType

-----------------------------------------------------------------------------
(* How a step changes the types *)

(* Settled types stay where they are: the heap is as sound as it was.      *)
HeapStep(h, g, P) == HeapOK(g) /\ Len(h) <= Len(g) /\ SameKinds(h, g) /\ PartsSettled(g, P)

LEMMA PartsAppend ==
  ASSUME NEW h, HeapOK(h), NEW P, P \subseteq 0 .. Len(h), PartsSettled(h, P),
         NEW o \in TypeObject(Len(h)), Len(o.parts) >= Arity(o.kind), \A i \in DOMAIN o.parts : o.parts[i] \in P
  PROVE  HeapStep(h, Append(h, o), P) /\ Len(Append(h, o)) = Len(h) + 1
<1>1. h \in Seq(TypeObject(Len(h))) /\ Len(h) \in Nat
  BY DEF HeapOK
<1>2. PICK g : g = Append(h, o)
  OBVIOUS
<1>3. HeapOK(g) /\ Len(g) = Len(h) + 1 /\ SameKinds(h, g) /\ g[Len(h) + 1] = o
  BY <1>2, HeapAppend
<1>4. \A t \in 1 .. Len(h) : g[t] = h[t]
  BY <1>1, <1>2, AppendFacts
<1>5. \A t \in 1 .. Len(g) : t \in 1 .. Len(h) \/ t = Len(h) + 1
  BY <1>1, <1>3
<1>6. PartsSettled(g, P)
  BY <1>3, <1>4, <1>5 DEF PartsSettled
<1> QED BY <1>1, <1>2, <1>3, <1>6 DEF HeapStep

LEMMA AppendFuncStep ==
  ASSUME NEW h, HeapOK(h), NEW P, P \subseteq 0 .. Len(h), PartsSettled(h, P), NEW p \in P, NEW q \in P
  PROVE  /\ HeapStep(h, Append(h, FuncType(p, q)), P)
         /\ Len(Append(h, FuncType(p, q))) = Len(h) + 1
<1>1. PICK o : o = FuncType(p, q)
  OBVIOUS
<1>2. << p, q >> \in Seq(0 .. Len(h)) /\ << >> \in Seq(Name)
  OBVIOUS
<1>3. o \in TypeObject(Len(h)) /\ o.parts = << p, q >> /\ o.kind = "func"
  BY <1>1, <1>2 DEF FuncType, Obj, TypeObject, TypeKind
<1>4. Len(o.parts) >= Arity(o.kind) /\ \A i \in DOMAIN o.parts : o.parts[i] \in P
  BY <1>3 DEF Arity
<1> HIDE DEF FuncType
<1> QED BY <1>1, <1>3, <1>4, PartsAppend

LEMMA AppendBlockStep ==
  ASSUME NEW h, HeapOK(h), NEW P, P \subseteq 0 .. Len(h), PartsSettled(h, P)
  PROVE  /\ HeapStep(h, Append(h, Obj("block", << >>)), P)
         /\ Len(Append(h, Obj("block", << >>))) = Len(h) + 1
<1>1. PICK o : o = Obj("block", << >>)
  OBVIOUS
<1>3. o \in TypeObject(Len(h)) /\ o.parts = << >> /\ o.kind = "block"
  BY <1>1 DEF Obj, TypeObject, TypeKind
<1>4. Len(o.parts) >= Arity(o.kind) /\ \A i \in DOMAIN o.parts : o.parts[i] \in P
  BY <1>3 DEF Arity
<1> QED BY <1>1, <1>3, <1>4, PartsAppend

LEMMA SetPartStep ==
  ASSUME NEW h, HeapOK(h), NEW P, P \subseteq 0 .. Len(h), PartsSettled(h, P), NEW t, NEW i, NEW p \in P
  PROVE  HeapStep(h, SetPart(h, t, i, p), P) /\ Len(SetPart(h, t, i, p)) = Len(h)
<1>1. h \in Seq(TypeObject(Len(h))) /\ Len(h) \in Nat /\ DOMAIN h = 1 .. Len(h)
  BY DEF HeapOK
<1>2. PICK g : g = SetPart(h, t, i, p)
  OBVIOUS
<1>3. HeapOK(g) /\ Len(g) = Len(h) /\ SameKinds(h, g)
  BY <1>2, HeapSetPart
<1>4. PICK s : s = [h[t].parts EXCEPT ![i] = p]
  OBVIOUS
<1>5. PICK o : o = [h[t] EXCEPT !.parts = s]
  OBVIOUS
<1>6. g = [h EXCEPT ![t] = o]
  BY <1>2, <1>4, <1>5 DEF SetPart
<1>7. ASSUME NEW u \in 1 .. Len(h), NEW j \in DOMAIN g[u].parts
      PROVE  g[u].parts[j] \in P
  <2>1. CASE u # t
    <3>1. g[u] = h[u]
      BY <1>1, <1>6, <2>1
    <3> QED BY <1>7, <3>1 DEF PartsSettled
  <2>2. CASE u = t
    <3>1. g[u] = o /\ h[t] \in TypeObject(Len(h))
      BY <1>1, <1>6, <2>2
    <3>2. o.parts = s
      BY <1>5, <3>1 DEF TypeObject
    <3>3. DOMAIN s = DOMAIN h[t].parts /\ \A k \in DOMAIN s : s[k] = p \/ s[k] = h[t].parts[k]
      BY <1>4
    <3> QED BY <1>7, <2>2, <3>1, <3>2, <3>3 DEF PartsSettled
  <2> QED BY <2>1, <2>2
<1>8. PartsSettled(g, P)
  BY <1>3, <1>7 DEF PartsSettled
<1> QED BY <1>1, <1>2, <1>3, <1>8 DEF HeapStep

LEMMA AddFieldStep ==
  ASSUME NEW h, HeapOK(h), NEW P, P \subseteq 0 .. Len(h), PartsSettled(h, P), NEW t, NEW n \in Name, NEW p \in P
  PROVE  HeapStep(h, AddField(h, t, n, p), P) /\ Len(AddField(h, t, n, p)) = Len(h)
<1>1. h \in Seq(TypeObject(Len(h))) /\ Len(h) \in Nat /\ DOMAIN h = 1 .. Len(h)
  BY DEF HeapOK
<1>2. PICK g : g = AddField(h, t, n, p)
  OBVIOUS
<1>3. HeapOK(g) /\ Len(g) = Len(h) /\ SameKinds(h, g)
  BY <1>2, HeapAddField
<1>5. PICK o : o = [h[t] EXCEPT !.names = Append(@, n), !.parts = Append(@, p)]
  OBVIOUS
<1>6. g = [h EXCEPT ![t] = o]
  BY <1>2, <1>5 DEF AddField
<1>7. ASSUME NEW u \in 1 .. Len(h), NEW j \in DOMAIN g[u].parts
      PROVE  g[u].parts[j] \in P
  <2>1. CASE u # t
    <3>1. g[u] = h[u]
      BY <1>1, <1>6, <2>1
    <3> QED BY <1>7, <3>1 DEF PartsSettled
  <2>2. CASE u = t
    <3>1. g[u] = o /\ h[t] \in TypeObject(Len(h))
      BY <1>1, <1>6, <2>2
    <3>2. o.parts = Append(h[t].parts, p) /\ h[t].parts \in Seq(0 .. Len(h))
      BY <1>5, <3>1 DEF TypeObject
    <3>3. /\ DOMAIN o.parts = 1 .. Len(h[t].parts) + 1 /\ Len(h[t].parts) \in Nat
          /\ \A k \in 1 .. Len(h[t].parts) : o.parts[k] = h[t].parts[k] /\ k \in DOMAIN h[t].parts
          /\ o.parts[Len(h[t].parts) + 1] = p
      BY <3>2
    <3>4. j \in 1 .. Len(h[t].parts) \/ j = Len(h[t].parts) + 1
      BY <1>7, <3>1, <3>3
    <3>5. CASE j = Len(h[t].parts) + 1
      BY <3>1, <3>3, <3>5
    <3>6. CASE j \in 1 .. Len(h[t].parts)
      <4>1. g[u].parts[j] = h[t].parts[j] /\ j \in DOMAIN h[t].parts /\ t \in 1 .. Len(h)
        BY <2>2, <3>1, <3>3, <3>6
      <4> QED BY <4>1 DEF PartsSettled
    <3> QED BY <3>4, <3>5, <3>6
  <2> QED BY <2>1, <2>2
<1>8. PartsSettled(g, P)
  BY <1>3, <1>7 DEF PartsSettled
<1> QED BY <1>1, <1>2, <1>3, <1>8 DEF HeapStep

(* How a step changes the activations: it starts one, opens a block, ends  *)
(* the innermost, or keeps all blocks.                                     *)
StartsSettled ==
  \E c : /\ calls' = Append(calls, c)
         /\ c.node # "block" /\ c.param = Null
         /\ c.self = Null \/ (c.self = NextType /\ Len(heap') = Len(heap) + 1)

KeepsBlocks(P) ==
  /\ Len(calls') = Len(calls)
  /\ \A i \in 1 .. Len(calls) :
       /\ calls'[i].node = calls[i].node
       /\ calls[i].node = "block" => calls'[i].self = calls[i].self
       /\ \/ calls'[i] = calls[i]
          \/ /\ calls'[i].self \in P \/ (calls'[i].self = NextType /\ Len(heap') = Len(heap) + 1)
             /\ calls'[i].param \in P

LEMMA OpenTypesIn ==
  ASSUME NEW cs, NEW i \in 1 .. Len(cs), cs[i].node = "block"
  PROVE  cs[i].self \in OpenTypes(cs)
  BY DEF OpenTypes

(* A step that opens no block.                                             *)
LEMMA SettledGrows ==
  ASSUME IInv, SettledInv, HeapStep(heap, heap', Settled(heap, calls)), OpenTypes(calls') \subseteq OpenTypes(calls)
  PROVE  /\ Settled(heap, calls) \subseteq Settled(heap, calls)'
         /\ Len(heap') = Len(heap) + 1 => NextType \in Settled(heap, calls)'
<1>1. Len(heap) \in Nat /\ OpenTypes(calls) \subseteq 0 .. Len(heap)
  BY SettledFacts
<1>2. Len(heap') \in Nat /\ Len(heap) <= Len(heap')
  BY DEF HeapStep, HeapOK
<1> QED BY <1>1, <1>2 DEF Settled, NextType

LEMMA StartsSettledCalls ==
  ASSUME IInv, SettledInv, HeapStep(heap, heap', Settled(heap, calls)), StartsSettled
  PROVE  /\ OpenTypes(calls') \subseteq OpenTypes(calls)
         /\ CallsSettled(Settled(heap, calls), calls)' /\ BlocksDistinct(calls)'
<1>1. PICK c : /\ calls' = Append(calls, c)
               /\ c.node # "block" /\ c.param = Null
               /\ c.self = Null \/ (c.self = NextType /\ Len(heap') = Len(heap) + 1)
  BY DEF StartsSettled
<1>2. /\ Len(calls) \in Nat /\ Len(calls') = Len(calls) + 1
      /\ \A i \in 1 .. Len(calls) : calls'[i] = calls[i]
      /\ calls'[Len(calls) + 1] = c
  BY <1>1, CallsTyped, PlainAppend
<1>3. \A i \in 1 .. Len(calls') : i \in 1 .. Len(calls) \/ i = Len(calls) + 1
  BY <1>2
<1>4. OpenTypes(calls') \subseteq OpenTypes(calls)
  BY <1>1, <1>2, <1>3 DEF OpenTypes
<1>5. PICK P, Q : P = Settled(heap, calls) /\ Q = Settled(heap, calls)'
  OBVIOUS
<1>6. P \subseteq Q /\ (Len(heap') = Len(heap) + 1 => NextType \in Q) /\ Null \in Q
  BY <1>4, <1>5, SettledGrows, SettledFacts
<1>7. CallsSettled(Q, calls')
  BY <1>1, <1>2, <1>3, <1>5, <1>6 DEF SettledInv, CallsSettled
<1>8. BlocksDistinct(calls')
  <2>1. ASSUME NEW i \in 1 .. Len(calls'), calls'[i].node = "block"
        PROVE  /\ calls'[i].self > MutIntType
               /\ \A j \in 1 .. i - 1 : calls'[j].node = "block" => calls'[j].self # calls'[i].self
    <3>1. i \in 1 .. Len(calls) /\ \A j \in 1 .. i - 1 : j \in 1 .. Len(calls)
      BY <1>1, <1>2, <1>3, <2>1
    <3> QED BY <1>2, <2>1, <3>1 DEF SettledInv, BlocksDistinct
  <2> QED BY <2>1 DEF BlocksDistinct
<1> QED BY <1>4, <1>5, <1>7, <1>8

LEMMA KeepsBlocksCalls ==
  ASSUME IInv, SettledInv, HeapStep(heap, heap', Settled(heap, calls)), KeepsBlocks(Settled(heap, calls))
  PROVE  /\ OpenTypes(calls') \subseteq OpenTypes(calls)
         /\ CallsSettled(Settled(heap, calls), calls)' /\ BlocksDistinct(calls)'
<1>1. PICK P, Q : P = Settled(heap, calls) /\ Q = Settled(heap, calls)'
  OBVIOUS
<1>2. Len(calls) \in Nat /\ Len(calls') = Len(calls)
  BY CallsTyped DEF KeepsBlocks
<1>3. \A i \in 1 .. Len(calls) :
        /\ calls'[i].node = calls[i].node
        /\ calls[i].node = "block" => calls'[i].self = calls[i].self
        /\ \/ calls'[i] = calls[i]
           \/ /\ calls'[i].self \in P \/ (calls'[i].self = NextType /\ Len(heap') = Len(heap) + 1)
              /\ calls'[i].param \in P
  BY <1>1 DEF KeepsBlocks
<1>4. OpenTypes(calls') \subseteq OpenTypes(calls)
  BY <1>2, <1>3 DEF OpenTypes
<1>6. P \subseteq Q /\ (Len(heap') = Len(heap) + 1 => NextType \in Q)
  BY <1>1, <1>4, SettledGrows
<1>7. CallsSettled(Q, calls')
  BY <1>1, <1>2, <1>3, <1>6 DEF SettledInv, CallsSettled
<1>8. BlocksDistinct(calls')
  <2>1. ASSUME NEW i \in 1 .. Len(calls'), calls'[i].node = "block"
        PROVE  /\ calls'[i].self > MutIntType
               /\ \A j \in 1 .. i - 1 : calls'[j].node = "block" => calls'[j].self # calls'[i].self
    <3>1. i \in 1 .. Len(calls) /\ \A j \in 1 .. i - 1 : j \in 1 .. Len(calls)
      BY <1>2, <2>1
    <3> QED BY <1>3, <2>1, <3>1 DEF SettledInv, BlocksDistinct
  <2> QED BY <2>1 DEF BlocksDistinct
<1> QED BY <1>1, <1>4, <1>7, <1>8

(* The innermost activation ends: a block that ends is settled.            *)
LEMMA EndsSettledCalls ==
  ASSUME IInv, SettledInv, HeapStep(heap, heap', Settled(heap, calls)), calls # << >>, calls' = Front(calls)
  PROVE  /\ OpenTypes(calls') \subseteq OpenTypes(calls)
         /\ CallsSettled(Settled(heap, calls), calls)' /\ BlocksDistinct(calls)'
         /\ Top.node = "block" => Top.self \in Settled(heap, calls)'
<1>1. /\ Len(calls) \in Nat \ {0} /\ Len(calls') = Len(calls) - 1 /\ Top = calls[Len(calls)]
      /\ \A i \in 1 .. Len(calls) - 1 : calls'[i] = calls[i]
  <2>1. calls \in Seq(Call(Pointer)) /\ calls # << >>
    BY CallsTyped
  <2> QED BY <2>1, FrontFacts DEF Top, Last
<1>2. \A i \in 1 .. Len(calls') : i \in 1 .. Len(calls) /\ calls'[i] = calls[i]
  BY <1>1
<1>3. OpenTypes(calls') \subseteq OpenTypes(calls)
  BY <1>2 DEF OpenTypes
<1>4. PICK P, Q : P = Settled(heap, calls) /\ Q = Settled(heap, calls)'
  OBVIOUS
<1>5. P \subseteq Q
  BY <1>3, <1>4, SettledGrows
<1>6. CallsSettled(Q, calls')
  BY <1>2, <1>4, <1>5 DEF SettledInv, CallsSettled
<1>7. BlocksDistinct(calls')
  <2>1. ASSUME NEW i \in 1 .. Len(calls'), calls'[i].node = "block"
        PROVE  /\ calls'[i].self > MutIntType
               /\ \A j \in 1 .. i - 1 : calls'[j].node = "block" => calls'[j].self # calls'[i].self
    <3>1. i \in 1 .. Len(calls) /\ \A j \in 1 .. i - 1 : j \in 1 .. Len(calls')
      BY <1>1, <2>1
    <3> QED BY <1>2, <2>1, <3>1 DEF SettledInv, BlocksDistinct
  <2> QED BY <2>1 DEF BlocksDistinct
<1>8. ASSUME Top.node = "block"
      PROVE  Top.self \in Q
  <2>1. Len(calls) \in 1 .. Len(calls) /\ \A i \in 1 .. Len(calls') : i \in 1 .. Len(calls) - 1
    BY <1>1
  <2>2. \A j \in 1 .. Len(calls) - 1 : calls[j].node = "block" => calls[j].self # Top.self
    BY <1>1, <1>8, <2>1, Zenon DEF SettledInv, BlocksDistinct
  <2>3. Top.self \notin OpenTypes(calls')
    BY <1>1, <2>1, <2>2 DEF OpenTypes
  <2>4. Top.self \in 0 .. Len(heap)
    BY <1>1, CallsTyped DEF Call, Pointer
  <2>5. Len(heap) \in Nat /\ Len(heap') \in Nat /\ Len(heap) <= Len(heap')
    BY SettledFacts DEF HeapStep, HeapOK
  <2> QED BY <1>4, <2>3, <2>4, <2>5 DEF Settled
<1> QED BY <1>3, <1>4, <1>6, <1>7, <1>8

(* A block is opened: its type is new, and no other is concerned.          *)
LEMMA OpensSettledCalls ==
  ASSUME IInv, SettledInv, HeapStep(heap, heap', Settled(heap, calls)), Len(heap') = Len(heap) + 1,
         calls' = Append(calls, NewCall("block", "statements", NoName, NextType))
  PROVE  /\ Settled(heap, calls) \subseteq Settled(heap, calls)'
         /\ CallsSettled(Settled(heap, calls), calls)' /\ BlocksDistinct(calls)'
<1>1. PICK c : c = NewCall("block", "statements", NoName, NextType)
  OBVIOUS
<1>2. c.node = "block" /\ c.self = NextType
  BY <1>1 DEF NewCall
<1>3. /\ Len(calls) \in Nat /\ Len(calls') = Len(calls) + 1
      /\ \A i \in 1 .. Len(calls) : calls'[i] = calls[i]
      /\ calls'[Len(calls) + 1] = c
  BY <1>1, CallsTyped, PlainAppend
<1>4. \A i \in 1 .. Len(calls') : i \in 1 .. Len(calls) \/ i = Len(calls) + 1
  BY <1>3
<1>5. OpenTypes(calls') \subseteq OpenTypes(calls) \cup {NextType}
  BY <1>2, <1>3, <1>4 DEF OpenTypes
<1>6. PICK P, Q : P = Settled(heap, calls) /\ Q = Settled(heap, calls)'
  OBVIOUS
<1>7. /\ Len(heap) \in Nat /\ OpenTypes(calls) \subseteq 0 .. Len(heap) /\ MutIntType <= Len(heap)
      /\ P \subseteq 0 .. Len(heap)
  BY <1>6, SettledFacts
<1>8. P \subseteq Q
  BY <1>5, <1>6, <1>7 DEF Settled, NextType
<1>9. CallsSettled(Q, calls')
  BY <1>2, <1>3, <1>4, <1>6, <1>8 DEF SettledInv, CallsSettled
<1>10. BlocksDistinct(calls')
  <2>1. ASSUME NEW i \in 1 .. Len(calls'), calls'[i].node = "block"
        PROVE  /\ calls'[i].self > MutIntType
               /\ \A j \in 1 .. i - 1 : calls'[j].node = "block" => calls'[j].self # calls'[i].self
    <3>1. \A j \in 1 .. i - 1 : j \in 1 .. Len(calls)
      BY <1>3, <2>1
    <3>2. CASE i \in 1 .. Len(calls)
      BY <1>3, <2>1, <3>1, <3>2 DEF SettledInv, BlocksDistinct
    <3>3. CASE i = Len(calls) + 1
      <4>1. \A j \in 1 .. Len(calls) : calls[j].node = "block" => calls[j].self \in 0 .. Len(heap)
        BY <1>7 DEF OpenTypes
      <4>2. NextType > MutIntType /\ NextType \notin 0 .. Len(heap)
        BY <1>7 DEF NextType, MutIntType
      <4> QED BY <1>2, <1>3, <3>1, <3>3, <4>1, <4>2
    <3> QED BY <1>4, <3>2, <3>3
  <2> QED BY <2>1 DEF BlocksDistinct
<1> QED BY <1>6, <1>8, <1>9, <1>10

-----------------------------------------------------------------------------
(* Every step keeps open blocks apart *)

(* What a step must show, where P and Q are settled before and after it.   *)
LEMMA StaysSettled ==
  ASSUME NEW P, NEW Q, P \subseteq Q, Q = Settled(heap, calls)',
         HeapStep(heap, heap', P),
         ContextSettled(Q, scopes', functions', expectedRet', pendingFunc', returned'),
         CallsSettled(Settled(heap, calls), calls)', BlocksDistinct(calls)', ValueSettled(Settled(heap, calls))'
  PROVE  SettledInv'
<1>1. PartsSettled(heap', Q)
  BY DEF HeapStep, PartsSettled
<1> QED BY <1>1 DEF SettledInv

LEMMA ContextGrows ==
  ASSUME NEW P, NEW Q, P \subseteq Q, NEW scs, NEW fns, NEW expected, NEW pending, NEW ret,
         ContextSettled(P, scs, fns, expected, pending, ret)
  PROVE  ContextSettled(Q, scs, fns, expected, pending, ret)
<1>1. Seq(Scope(P)) \subseteq Seq(Scope(Q)) /\ Seq(VarEntry(P)) \subseteq Seq(VarEntry(Q))
  BY ScopeGrows
<1>2. SUBSET P \subseteq SUBSET Q
  OBVIOUS
<1>3. Seq(SUBSET P) \subseteq Seq(SUBSET Q)
  BY <1>2, SeqMonotonic
<1> QED BY <1>1, <1>3 DEF ContextSettled

LEMMA SameHeapStep ==
  ASSUME IInv, SettledInv, heap' = heap
  PROVE  HeapStep(heap, heap', Settled(heap, calls))
<1>1. HeapOK(heap) /\ Len(heap) \in Nat
  BY HeapTyped
<1> QED BY <1>1 DEF HeapStep, SameKinds, SettledInv

(* What holds before every step. *)
LEMMA SettledBefore ==
  ASSUME IInv, SettledInv
  PROVE  \E P : /\ P = Settled(heap, calls) /\ P \subseteq 0 .. Len(heap)
                /\ {Null, IntType, StringType, VoidType, UnknownType, MutIntType} \subseteq P
                /\ HeapOK(heap) /\ Len(heap) \in Nat /\ PartsSettled(heap, P)
                /\ ContextSettled(P, scopes, functions, expectedRet, pendingFunc, returned)
                /\ scopes # << >>
                /\ CallsSettled(P, calls) /\ BlocksDistinct(calls) /\ ValueSettled(P)
  BY SettledFacts DEF SettledInv, IInv, TypeOK, ContextTypeOK

(* Steps that read the context. *)
LEMMA ReadsSettled ==
  ASSUME IInv, SettledInv, UNCHANGED << heap, calls, scopes, functions, expectedRet, pendingFunc, returned >>,
         \/ mode' # "return"
         \/ value'.type \in Settled(heap, calls)
         \/ (At("block", "statements") /\ value'.name = NoName)
         \/ UNCHANGED << mode, value >>
  PROVE  SettledInv'
<1>1. Settled(heap, calls)' = Settled(heap, calls)
  OBVIOUS
<1>2. ValueSettled(Settled(heap, calls))'
  BY <1>1 DEF SettledInv, ValueSettled, At, Top
<1> QED BY <1>1, <1>2 DEF SettledInv

LEMMA ReadSteps ==
  ASSUME IInv, SettledInv,
         \/ \E l \in Leaf : VisitLeaf(l) \/ \E n \in Name : VisitSet(n, l)
         \/ \E op \in {"this", "file", "global"} : VisitSpecial(op)
         \/ ParseImport \/ ParseImportDone \/ TypingPass \/ FinalCheck \/ Done \/ UNCHANGED vars
  PROVE  SettledInv'
<1>1. ASSUME NEW l \in Leaf, VisitLeaf(l)
      PROVE  SettledInv'
  <2>1. value'.type \in Settled(heap, calls)
    BY <1>1, LeafTypeSettled DEF VisitLeaf, Return
  <2> QED BY <1>1, <2>1, ReadsSettled DEF VisitLeaf, ctxVars, walkHistory
<1>2. ASSUME NEW l \in Leaf, NEW n \in Name, VisitSet(n, l)
      PROVE  SettledInv'
  <2>1. value'.type \in Settled(heap, calls)
    BY <1>2, LeafTypeSettled, SettledFacts DEF VisitSet, Return, Fail
  <2> QED BY <1>2, <2>1, ReadsSettled DEF VisitSet, ctxVars, walkHistory
<1>3. ASSUME NEW op \in {"this", "file", "global"}, VisitSpecial(op)
      PROVE  SettledInv'
  BY <1>3, ReadsSettled DEF VisitSpecial, AtStatement, Return, ctxVars, walkHistory
<1>4. ASSUME ParseImport \/ ParseImportDone \/ TypingPass \/ FinalCheck
      PROVE  SettledInv'
  BY <1>4, ReadsSettled DEF ParseImport, ParseImportDone, TypingPass, FinalCheck, ctxVars, walkHistory
<1>5. ASSUME Done \/ UNCHANGED vars
      PROVE  SettledInv'
  BY <1>5, ReadsSettled DEF Done, vars, ctxVars
<1> QED BY <1>1, <1>2, <1>3, <1>4, <1>5

(* Steps that start an activation other than a block. *)
LEMMA StartSteps ==
  ASSUME IInv, SettledInv,
         \/ \E n \in Name : VisitDecl(n) \/ VisitForward(n)
         \/ VisitFuncInit \/ VisitFunc \/ VisitOverload \/ VisitImport
  PROVE  SettledInv'
<1>1. /\ mode = "eval" /\ mode' = mode
      /\ UNCHANGED << heap, functions, expectedRet, pendingFunc, returned >>
      /\ scopes' = scopes \/ scopes' = PushScope
  BY DEF VisitDecl, VisitForward, VisitFuncInit, VisitFunc, OpenFunc, VisitOverload, VisitImport, MayDeclare,
         AtStatement, AtOperand, AtRoot, AtParam, AtFuncInit, AtStub, AtBody, AtInit, ctxVars, walkHistory
<1>2. StartsSettled
  <2>1. PICK node, stage, n : node # "block" /\ calls' = Append(calls, NewCall(node, stage, n, Null))
    BY DEF VisitDecl, VisitForward, VisitFuncInit, VisitFunc, OpenFunc, VisitOverload, VisitImport
  <2>2. PICK c : c = NewCall(node, stage, n, Null)
    OBVIOUS
  <2>3. c.node = node /\ c.self = Null /\ c.param = Null
    BY <2>2 DEF NewCall
  <2> QED BY <2>1, <2>2, <2>3 DEF StartsSettled
<1>3. PICK P : /\ P = Settled(heap, calls) /\ scopes # << >>
               /\ ContextSettled(P, scopes, functions, expectedRet, pendingFunc, returned)
  BY SettledBefore
<1>4. HeapStep(heap, heap', P)
  BY <1>1, <1>3, SameHeapStep
<1>5. PICK Q : Q = Settled(heap, calls)'
  OBVIOUS
<1>6. P \subseteq Q /\ CallsSettled(Settled(heap, calls), calls)' /\ BlocksDistinct(calls)'
  BY <1>2, <1>3, <1>4, <1>5, StartsSettledCalls, SettledGrows
<1>7. scopes' \in Seq(Scope(P))
  BY <1>1, <1>3, PushScopeOK DEF ContextSettled
<1>8. ContextSettled(P, scopes', functions', expectedRet', pendingFunc', returned')
  BY <1>1, <1>3, <1>7 DEF ContextSettled
<1>9. ContextSettled(Q, scopes', functions', expectedRet', pendingFunc', returned')
  BY <1>6, <1>8, ContextGrows
<1>10. ValueSettled(Settled(heap, calls))'
  BY <1>1 DEF ValueSettled
<1> QED BY <1>4, <1>5, <1>6, <1>9, <1>10, StaysSettled

(* A declared function gets a placeholder of its own. *)
LEMMA VisitDeclFuncSettled ==
  ASSUME IInv, SettledInv, NEW n \in Name, VisitDeclFunc(n)
  PROVE  SettledInv'
<1>1. PICK P : /\ P = Settled(heap, calls) /\ P \subseteq 0 .. Len(heap) /\ UnknownType \in P
               /\ HeapOK(heap) /\ PartsSettled(heap, P) /\ scopes # << >>
               /\ ContextSettled(P, scopes, functions, expectedRet, pendingFunc, returned)
  BY SettledBefore
<1>2. HeapStep(heap, heap', P) /\ Len(heap') = Len(heap) + 1
  BY <1>1, AppendFuncStep DEF VisitDeclFunc
<1>3. StartsSettled
  <2>1. PICK c : c = NewCall("decl", "init", n, NextType)
    OBVIOUS
  <2>2. c.node = "decl" /\ c.self = NextType /\ c.param = Null
    BY <2>1 DEF NewCall
  <2> QED BY <1>2, <2>1, <2>2 DEF StartsSettled, VisitDeclFunc
<1>4. PICK Q : Q = Settled(heap, calls)'
  OBVIOUS
<1>5. /\ P \subseteq Q /\ CallsSettled(Settled(heap, calls), calls)' /\ BlocksDistinct(calls)'
      /\ NextType \in Q
  BY <1>1, <1>2, <1>3, <1>4, StartsSettledCalls, SettledGrows
<1>6. ContextSettled(Q, scopes, functions, expectedRet, pendingFunc, returned)
  BY <1>1, <1>5, ContextGrows
<1>7. scopes' \in Seq(Scope(Q)) /\ functions' \in Seq(VarEntry(Q))
  BY <1>1, <1>5, <1>6, DefineVarOK, DefineFuncOK DEF ContextSettled, VisitDeclFunc
<1>8. ContextSettled(Q, scopes', functions', expectedRet', pendingFunc', returned')
  BY <1>5, <1>6, <1>7 DEF ContextSettled, VisitDeclFunc, walkHistory
<1>9. ValueSettled(Settled(heap, calls))'
  BY DEF ValueSettled, VisitDeclFunc, MayDeclare, AtStatement, AtOperand, AtRoot, AtParam
<1> QED BY <1>2, <1>4, <1>5, <1>8, <1>9, StaysSettled

LEMMA OpenBlockSettled ==
  ASSUME IInv, SettledInv, OpenBlock
  PROVE  SettledInv'
<1>1. PICK P : /\ P = Settled(heap, calls) /\ P \subseteq 0 .. Len(heap)
               /\ HeapOK(heap) /\ PartsSettled(heap, P) /\ scopes # << >>
               /\ ContextSettled(P, scopes, functions, expectedRet, pendingFunc, returned)
  BY SettledBefore
<1>2. HeapStep(heap, heap', P) /\ Len(heap') = Len(heap) + 1
  BY <1>1, AppendBlockStep DEF OpenBlock
<1>3. PICK Q : Q = Settled(heap, calls)'
  OBVIOUS
<1>4. P \subseteq Q /\ CallsSettled(Settled(heap, calls), calls)' /\ BlocksDistinct(calls)'
  BY <1>1, <1>2, <1>3, OpensSettledCalls DEF OpenBlock
<1>5. scopes' \in Seq(Scope(P))
  BY <1>1, PushScopeOK DEF ContextSettled, OpenBlock
<1>6. ContextSettled(P, scopes', functions', expectedRet', pendingFunc', returned')
  BY <1>1, <1>5 DEF ContextSettled, OpenBlock, walkHistory
<1>7. ContextSettled(Q, scopes', functions', expectedRet', pendingFunc', returned')
  BY <1>4, <1>6, ContextGrows
<1>8. ValueSettled(Settled(heap, calls))'
  BY DEF ValueSettled, OpenBlock
<1> QED BY <1>2, <1>3, <1>4, <1>7, <1>8, StaysSettled

(* A block ends, and its type is what it will be. *)
LEMMA BlockEndSettled ==
  ASSUME IInv, SettledInv, StatementFails \/ EndBlock
  PROVE  SettledInv'
<1>1. PICK P : /\ P = Settled(heap, calls) /\ Null \in P /\ scopes # << >>
               /\ ContextSettled(P, scopes, functions, expectedRet, pendingFunc, returned)
  BY SettledBefore
<1>2. /\ calls # << >> /\ calls' = Front(calls) /\ Top.node = "block"
      /\ scopes' = PopScope /\ UNCHANGED << heap, functions, expectedRet, pendingFunc, returned >>
      /\ value'.type \in {Null, Top.self}
  BY DEF StatementFails, EndBlock, AtStatement, At, LeaveBlock, Fail, Return
<1>3. HeapStep(heap, heap', P)
  BY <1>1, <1>2, SameHeapStep
<1>4. PICK Q : Q = Settled(heap, calls)'
  OBVIOUS
<1>5. /\ P \subseteq Q /\ CallsSettled(Settled(heap, calls), calls)' /\ BlocksDistinct(calls)'
      /\ Top.self \in Q
  BY <1>1, <1>2, <1>3, <1>4, EndsSettledCalls, SettledGrows
<1>6. scopes' \in Seq(Scope(P))
  BY <1>1, <1>2, PopScopeOK DEF ContextSettled
<1>7. ContextSettled(P, scopes', functions', expectedRet', pendingFunc', returned')
  BY <1>1, <1>2, <1>6 DEF ContextSettled
<1>8. ContextSettled(Q, scopes', functions', expectedRet', pendingFunc', returned')
  BY <1>5, <1>7, ContextGrows
<1>9. ValueSettled(Settled(heap, calls))'
  BY <1>1, <1>2, <1>4, <1>5 DEF ValueSettled
<1> QED BY <1>3, <1>4, <1>5, <1>8, <1>9, StaysSettled

(* A field of a settled type is added to the innermost block. *)
LEMMA StatementDoneSettled ==
  ASSUME IInv, SettledInv, StatementDone
  PROVE  SettledInv'
<1>1. PICK P : /\ P = Settled(heap, calls) /\ P \subseteq 0 .. Len(heap)
               /\ HeapOK(heap) /\ PartsSettled(heap, P) /\ ValueSettled(P)
               /\ ContextSettled(P, scopes, functions, expectedRet, pendingFunc, returned)
  BY SettledBefore
<1>2. UNCHANGED << calls, scopes, functions, expectedRet, pendingFunc, returned >> /\ mode' = "eval"
  BY DEF StatementDone, walkHistory
<1>3. HeapStep(heap, heap', P)
  <2>1. CASE value.name = NoName
    BY <1>1, <2>1, SameHeapStep DEF StatementDone
  <2>2. CASE value.name # NoName
    <3>1. value.type \in P /\ value.name \in Name
      BY <1>1, <2>2 DEF ValueSettled, StatementDone, IInv, TypeOK
    <3>2. heap' = AddField(heap, Top.self, value.name, value.type)
      BY <2>2 DEF StatementDone
    <3> QED BY <1>1, <3>1, <3>2, AddFieldStep
  <2> QED BY <2>1, <2>2
<1>4. PICK Q : Q = Settled(heap, calls)'
  OBVIOUS
<1>5. KeepsBlocks(P)
  BY <1>2 DEF KeepsBlocks
<1>6. P \subseteq Q /\ CallsSettled(Settled(heap, calls), calls)' /\ BlocksDistinct(calls)'
  BY <1>1, <1>3, <1>4, <1>5, KeepsBlocksCalls, SettledGrows
<1>7. ContextSettled(Q, scopes', functions', expectedRet', pendingFunc', returned')
  BY <1>1, <1>2, <1>6, ContextGrows
<1>8. ValueSettled(Settled(heap, calls))'
  BY <1>2 DEF ValueSettled
<1> QED BY <1>3, <1>4, <1>6, <1>7, <1>8, StaysSettled


(* An activation other than a block ends. *)
LEMMA EndsSettled ==
  ASSUME IInv, SettledInv, NEW P, P = Settled(heap, calls), HeapStep(heap, heap', P),
         calls # << >>, calls' = Front(calls),
         scopes' \in Seq(Scope(P)), functions' \in Seq(VarEntry(P)),
         expectedRet' \in P, pendingFunc' \in P, returned' \in Seq(SUBSET P),
         value'.type \in P \/ (value'.type = NextType /\ Len(heap') = Len(heap) + 1)
  PROVE  SettledInv'
<1>1. PICK Q : Q = Settled(heap, calls)'
  OBVIOUS
<1>2. /\ P \subseteq Q /\ CallsSettled(Settled(heap, calls), calls)' /\ BlocksDistinct(calls)'
      /\ Len(heap') = Len(heap) + 1 => NextType \in Q
  BY <1>1, EndsSettledCalls, SettledGrows
<1>3. ContextSettled(P, scopes', functions', expectedRet', pendingFunc', returned')
  BY DEF ContextSettled
<1>4. ContextSettled(Q, scopes', functions', expectedRet', pendingFunc', returned')
  BY <1>2, <1>3, ContextGrows
<1>5. ValueSettled(Settled(heap, calls))'
  BY <1>1, <1>2 DEF ValueSettled
<1> QED BY <1>1, <1>2, <1>4, <1>5, StaysSettled

(* The innermost activation, which is no block's, goes on. *)
LEMMA KeepsSettled ==
  ASSUME IInv, SettledInv, NEW P, P = Settled(heap, calls), HeapStep(heap, heap', P), KeepsBlocks(P),
         UNCHANGED << scopes, functions >>, mode' = "eval",
         expectedRet' \in Settled(heap, calls)', pendingFunc' \in P, returned' \in Seq(SUBSET P)
  PROVE  SettledInv'
<1>1. PICK Q : Q = Settled(heap, calls)'
  OBVIOUS
<1>2. P \subseteq Q /\ CallsSettled(Settled(heap, calls), calls)' /\ BlocksDistinct(calls)'
  BY <1>1, KeepsBlocksCalls, SettledGrows
<1>3. ContextSettled(P, scopes', functions', Null, pendingFunc', returned')
  BY SettledBefore DEF ContextSettled
<1>4. ContextSettled(Q, scopes', functions', Null, pendingFunc', returned')
  BY <1>2, <1>3, ContextGrows
<1>5. ContextSettled(Q, scopes', functions', expectedRet', pendingFunc', returned')
  BY <1>1, <1>4 DEF ContextSettled
<1>6. ValueSettled(Settled(heap, calls))'
  BY DEF ValueSettled
<1> QED BY <1>1, <1>2, <1>5, <1>6, StaysSettled

(* The value that an activation other than a block is given is settled. *)
LEMMA ValueIsSettled ==
  ASSUME SettledInv, mode = "return", NEW node, NEW stage, node # "block", At(node, stage)
  PROVE  value.type \in Settled(heap, calls)
  BY DEF SettledInv, ValueSettled, At

(* A declaration, a stub or an import ends. *)
LEMMA DeclarationSettled ==
  ASSUME IInv, SettledInv, InitFails \/ DefinesBody \/ DefinesFunc \/ DefinesVar \/ StubDone \/ ImportDone
  PROVE  SettledInv'
<1>1. PICK P : /\ P = Settled(heap, calls) /\ Null \in P /\ scopes # << >>
               /\ ContextSettled(P, scopes, functions, expectedRet, pendingFunc, returned)
  BY SettledBefore
<1>2. /\ calls # << >> /\ calls' = Front(calls)
      /\ UNCHANGED << heap, expectedRet, returned >> /\ pendingFunc' \in {Null, pendingFunc}
      /\ Top.node \in {"decl", "forward", "import"}
      /\ mode = "return"
  BY DEF InitFails, DefinesBody, DefinesFunc, DefinesVar, StubDone, ImportDone, At, walkHistory
<1>3. value.type \in P
  BY <1>1, <1>2 DEF SettledInv, ValueSettled, At
<1>4. HeapStep(heap, heap', P)
  BY <1>1, <1>2, SameHeapStep
<1>5. Top.node \in {"decl", "forward"} => Top.name \in Name
  BY <1>2, DeclarationTyped
<1>6. scopes \in Seq(Scope(P)) /\ functions \in Seq(VarEntry(P))
  BY <1>1 DEF ContextSettled
<1>7. ASSUME scopes' \in Seq(Scope(P)), functions' \in Seq(VarEntry(P)), value'.type \in P
      PROVE  SettledInv'
  <2>1. expectedRet' \in P /\ pendingFunc' \in P /\ returned' \in Seq(SUBSET P)
    BY <1>1, <1>2 DEF ContextSettled
  <2> QED BY <1>1, <1>2, <1>4, <1>7, <2>1, EndsSettled
<1>8. CASE InitFails
  BY <1>1, <1>6, <1>7, <1>8 DEF InitFails, Fail, Return
<1>9. CASE DefinesBody
  <2>1. scopes' = scopes \/ \E k : scopes' = DefineForwardBody(k)
    BY <1>9 DEF DefinesBody
  <2>2. scopes' \in Seq(Scope(P))
    BY <1>1, <1>6, <2>1, DefineForwardBodyOK
  <2>3. value'.type \in {Null, value.type} /\ functions' = functions
    BY <1>9 DEF DefinesBody, Fail, Return, ReturnDeclared
  <2> QED BY <1>1, <1>3, <1>6, <1>7, <2>2, <2>3
<1>10. CASE DefinesFunc
  <2>1. Top.name \in Name
    BY <1>5, <1>10 DEF DefinesFunc, At
  <2>2. scopes' \in Seq(Scope(P)) /\ functions' \in Seq(VarEntry(P))
    BY <1>1, <1>3, <1>6, <1>10, <2>1, UpdateVarOK, UpdateFuncOK DEF DefinesFunc
  <2>3. value'.type = value.type
    BY <1>10 DEF DefinesFunc, ReturnDeclared
  <2> QED BY <1>3, <1>7, <2>2, <2>3
<1>11. CASE DefinesVar
  <2>1. Top.name \in Name
    BY <1>5, <1>11 DEF DefinesVar, At
  <2>2. LookupVar(Top.name) \in P
    BY <1>1, <1>6, LookupVarOK
  <2>3. scopes' = scopes \/ scopes' = DefineVar(scopes, Top.name, value.type)
    BY <1>11 DEF DefinesVar
  <2>4. scopes' \in Seq(Scope(P))
    BY <1>1, <1>3, <1>6, <2>1, <2>3, DefineVarOK
  <2>5. value'.type \in {Null, value.type, LookupVar(Top.name)} /\ functions' = functions
    BY <1>11 DEF DefinesVar, Fail, Return, ReturnDeclared
  <2> QED BY <1>1, <1>3, <1>6, <1>7, <2>2, <2>4, <2>5
<1>12. CASE StubDone
  <2>1. Top.name \in Name
    BY <1>5, <1>12 DEF StubDone, At
  <2>2. PICK id : id = Len(bodies) + 1
    OBVIOUS
  <2>3. id \in Nat
    BY <1>2, <2>2, DeclarationTyped
  <2>4. PICK scs : scs = DefineForward(scopes, Top.name, value.type, id)
    OBVIOUS
  <2>5. scs \in Seq(Scope(P)) /\ scs # << >>
    BY <1>1, <1>3, <1>6, <2>1, <2>3, <2>4, DefineForwardOK
  <2>6. DefineVar(scs, Top.name, value.type) \in Seq(Scope(P))
    BY <1>3, <2>1, <2>5, DefineVarOK
  <2>7. /\ scopes' = scopes \/ scopes' = DefineVar(scs, Top.name, value.type)
        /\ functions' = functions \/ functions' = DefineFunc(Top.name, value.type)
        /\ value'.type \in {Null, value.type}
    BY <1>12, <2>2, <2>4 DEF StubDone, Fail, Return, ReturnDeclared
  <2>8. DefineFunc(Top.name, value.type) \in Seq(VarEntry(P))
    BY <1>3, <1>6, <2>1, DefineFuncOK
  <2> QED BY <1>1, <1>3, <1>6, <1>7, <2>6, <2>7, <2>8
<1>13. CASE ImportDone
  <2>1. value'.type \in {Null, value.type} /\ UNCHANGED << scopes, functions >>
    BY <1>13 DEF ImportDone, Return
  <2> QED BY <1>1, <1>3, <1>6, <1>7, <2>1
<1> QED BY <1>8, <1>9, <1>10, <1>11, <1>12, <1>13

(* A function ends, typed or not. *)
LEMMA FuncEndSettled ==
  ASSUME IInv, SettledInv, ParamFails \/ BodyFails \/ BodyDone
  PROVE  SettledInv'
<1>1. PICK P : /\ P = Settled(heap, calls) /\ P \subseteq 0 .. Len(heap) /\ Null \in P
               /\ HeapOK(heap) /\ Len(heap) \in Nat /\ PartsSettled(heap, P) /\ scopes # << >>
               /\ ContextSettled(P, scopes, functions, expectedRet, pendingFunc, returned)
               /\ CallsSettled(P, calls)
  BY SettledBefore
<1>2. /\ calls # << >> /\ calls' = Front(calls) /\ mode = "return" /\ Top.node = "func"
      /\ scopes' = PopScope
      /\ UNCHANGED << functions, pendingFunc >> /\ expectedRet' \in {Null, expectedRet}
      /\ returned' \in {returned, Front(returned)}
  BY DEF ParamFails, BodyFails, BodyDone, LeaveFunc, At
<1>3. value.type \in P
  BY <1>1, <1>2 DEF SettledInv, ValueSettled, At
<1>4. /\ scopes' \in Seq(Scope(P)) /\ functions' \in Seq(VarEntry(P))
      /\ expectedRet' \in P /\ pendingFunc' \in P /\ returned' \in Seq(SUBSET P)
  BY <1>1, <1>2, PopScopeOK, FrontFacts DEF ContextSettled
<1>5. CASE ParamFails \/ BodyFails
  <2>1. heap' = heap /\ value'.type = Null
    BY <1>5 DEF ParamFails, BodyFails, Fail, Return
  <2>2. HeapStep(heap, heap', P)
    BY <1>1, <2>1, SameHeapStep
  <2> QED BY <1>1, <1>2, <1>4, <2>1, <2>2, EndsSettled
<1>6. CASE BodyDone
  <2>1. PICK r : r = BodyReturnType
    OBVIOUS
  <2>2. r \in P
    BY <1>1, <1>3, <2>1 DEF BodyReturnType, ContextSettled
  <2>3. Top.param \in P
    <3>1. Len(calls) \in 1 .. Len(calls) /\ Top = calls[Len(calls)]
      BY <1>2, CallsTyped
    <3> HIDE DEF Top
    <3> QED BY <1>1, <1>2, <3>1 DEF CallsSettled
  <2>4. PICK g : g = SetPart(heap, Top.self, 2, r)
    OBVIOUS
  <2>5. HeapStep(heap, g, P) /\ Len(g) = Len(heap)
    BY <1>1, <2>2, <2>4, SetPartStep
  <2>6. heap' = Append(g, FuncType(Top.param, r)) /\ value'.type = NextType
    BY <1>6, <2>1, <2>4 DEF BodyDone, Return
  <2>7. HeapStep(g, heap', P) /\ Len(heap') = Len(g) + 1
    BY <1>1, <2>2, <2>3, <2>5, <2>6, AppendFuncStep DEF HeapStep
  <2>8. HeapStep(heap, heap', P)
    BY <1>1, <2>5, <2>7 DEF HeapStep, SameKinds
  <2> QED BY <1>1, <1>2, <1>4, <2>5, <2>6, <2>7, <2>8, EndsSettled
<1> QED BY <1>5, <1>6

(* The innermost activation changes, but for a block's. *)
LEMMA TopKeepsBlocks ==
  ASSUME IInv, SettledInv, NEW P, P = Settled(heap, calls), calls # << >>, Top.node # "block",
         NEW c, c.node = Top.node, calls' = [calls EXCEPT ![Len(calls)] = c],
         c.self \in P \/ (c.self = NextType /\ Len(heap') = Len(heap) + 1), c.param \in P
  PROVE  KeepsBlocks(P)
<1>1. calls \in Seq(Call(Pointer)) /\ Len(calls) \in Nat \ {0} /\ Top = calls[Len(calls)]
  BY CallsTyped
<1>2. /\ Len(calls') = Len(calls)
      /\ \A i \in 1 .. Len(calls) : calls'[i] = IF i = Len(calls) THEN c ELSE calls[i]
  BY <1>1
<1> HIDE DEF Top
<1> QED BY <1>1, <1>2 DEF KeepsBlocks

(* The body of a function is entered. *)
LEMMA ParamDoneSettled ==
  ASSUME IInv, SettledInv, ParamDone
  PROVE  SettledInv'
<1>1. PICK P : /\ P = Settled(heap, calls) /\ P \subseteq 0 .. Len(heap) /\ {Null, UnknownType} \subseteq P
               /\ HeapOK(heap) /\ Len(heap) \in Nat /\ PartsSettled(heap, P)
               /\ ContextSettled(P, scopes, functions, expectedRet, pendingFunc, returned)
  BY SettledBefore
<1>2. At("func", "param") /\ mode = "return" /\ calls # << >> /\ Top.node = "func"
  BY DEF ParamDone, At
<1>3. value.type \in P
  BY <1>1, <1>2 DEF SettledInv, ValueSettled, At
<1>4. PICK current : current = IF pendingFunc = Null THEN NextType ELSE pendingFunc
  OBVIOUS
<1>5. /\ HeapStep(heap, heap', P)
      /\ current \in P \/ (current = NextType /\ Len(heap') = Len(heap) + 1)
      /\ heap'[current].kind = "func" /\ current \in 1 .. Len(heap')
  <2>1. CASE pendingFunc = Null
    <3>1. heap' = Append(heap, FuncType(value.type, UnknownType)) /\ current = NextType
      BY <1>4, <2>1 DEF ParamDone
    <3>2. HeapStep(heap, heap', P) /\ Len(heap') = Len(heap) + 1
      BY <1>1, <1>3, <3>1, AppendFuncStep
    <3>3. heap'[Len(heap) + 1] = FuncType(value.type, UnknownType)
      BY <1>1, <3>1, AppendReturns
    <3> QED BY <1>1, <3>1, <3>2, <3>3 DEF NextType, FuncType, Obj
  <2>2. CASE pendingFunc # Null
    <3>1. heap' = SetPart(heap, pendingFunc, 1, value.type) /\ current = pendingFunc
      BY <1>4, <2>2 DEF ParamDone
    <3>2. HeapStep(heap, heap', P) /\ Len(heap') = Len(heap)
      BY <1>1, <1>3, <3>1, SetPartStep
    <3>3. current \in P /\ current \in 1 .. Len(heap) /\ heap[current].kind = "func"
      BY <1>1, <2>2, <3>1 DEF ContextSettled, IInv, TypeOK, ContextTypeOK, KindOf, Null
    <3> QED BY <1>1, <3>2, <3>3 DEF HeapStep, SameKinds
  <2> QED BY <2>1, <2>2
<1>6. expectedRet' = ReturnOf(heap', current)
  BY <1>4 DEF ParamDone
<1>7. expectedRet' \in P
  <2>1. Len(heap'[current].parts) >= 2 /\ HeapOK(heap')
    BY <1>5 DEF HeapStep, HeapOK, Arity
  <2>2. 2 \in DOMAIN heap'[current].parts
    BY <1>5, <2>1, PartsIn
  <2> QED BY <1>5, <1>6, <2>2 DEF HeapStep, PartsSettled, ReturnOf
<1>8. PICK c : c = [Top EXCEPT !.stage = "body", !.self = current, !.param = value.type]
  OBVIOUS
<1>9. c.node = Top.node /\ c.self = current /\ c.param = value.type
  <2>1. Top \in Call(Pointer)
    BY <1>2, LastInSet DEF IInv, TypeOK, Top
  <2> HIDE DEF Top
  <2> QED BY <1>8, <2>1 DEF Call
<1>10. calls' = [calls EXCEPT ![Len(calls)] = c]
  BY <1>4, <1>8 DEF ParamDone, Top, Last
<1>11. KeepsBlocks(P)
  <2> HIDE DEF Top
  <2> QED BY <1>1, <1>2, <1>3, <1>5, <1>9, <1>10, TopKeepsBlocks
<1>12. P \subseteq Settled(heap, calls)'
  BY <1>1, <1>5, <1>11, KeepsBlocksCalls, SettledGrows
<1>13. pendingFunc' \in P /\ returned' \in Seq(SUBSET P)
  <2>1. returned' = Append(returned, {}) /\ returned \in Seq(SUBSET P) /\ {} \in SUBSET P
    BY <1>1 DEF ParamDone, ContextSettled
  <2>2. returned' \in Seq(SUBSET P)
    BY <2>1, AppendProperties
  <2> QED BY <1>1, <2>2 DEF ParamDone
<1>14. UNCHANGED << scopes, functions >> /\ mode' = "eval"
  BY DEF ParamDone
<1> QED BY <1>1, <1>5, <1>7, <1>11, <1>12, <1>13, <1>14, KeepsSettled

(* A $ret records a settled type. *)
LEMMA RecordReturnSettled ==
  ASSUME IInv, SettledInv, NEW P, P = Settled(heap, calls), NEW t \in P, RecordReturn(t)
  PROVE  HeapStep(heap, heap', P) /\ expectedRet' \in P /\ returned' \in Seq(SUBSET P)
<1>1. /\ P \subseteq 0 .. Len(heap) /\ HeapOK(heap) /\ PartsSettled(heap, P)
      /\ expectedRet \in P /\ returned \in Seq(SUBSET P)
  BY SettledBefore DEF ContextSettled
<1>2. UNCHANGED << heap, expectedRet >> \/ EstablishReturn(t)
  BY DEF RecordReturn
<1>3. expectedRet' \in P
  BY <1>1, <1>2 DEF EstablishReturn
<1>4. heap' = heap \/ heap' = SetPart(heap, Last(funcStack), 2, t)
  BY <1>2 DEF EstablishReturn
<1>5. HeapStep(heap, heap', P)
  BY <1>1, <1>4, SameHeapStep, SetPartStep
<1>6. returned' \in Seq(SUBSET P)
  <2>1. CASE returned' = returned
    BY <1>1, <2>1
  <2>2. CASE returned # << >> /\ returned' = [returned EXCEPT ![Len(returned)] = @ \cup {t}]
    <3>1. returned[Len(returned)] \cup {t} \in SUBSET P
      BY <1>1, <2>2
    <3> QED BY <1>1, <2>2, <3>1, ExceptInSeq
  <2> QED BY <2>1, <2>2 DEF RecordReturn
<1> QED BY <1>3, <1>5, <1>6

LEMMA VisitRetSettled ==
  ASSUME IInv, SettledInv, NEW l \in Leaf, VisitRet(l)
  PROVE  SettledInv'
<1>1. PICK P : /\ P = Settled(heap, calls) /\ {Null, VoidType} \subseteq P
               /\ ContextSettled(P, scopes, functions, expectedRet, pendingFunc, returned)
  BY SettledBefore
<1>2. PICK t : t = LeafType(l)
  OBVIOUS
<1>3. t \in P
  BY <1>1, <1>2, LeafTypeSettled
<1>4. RecordReturn(t) /\ UNCHANGED calls /\ value'.type \in {Null, VoidType}
  BY <1>2 DEF VisitRet, Fail, Return
<1>5. HeapStep(heap, heap', P) /\ expectedRet' \in P /\ returned' \in Seq(SUBSET P)
  BY <1>1, <1>3, <1>4, RecordReturnSettled
<1>6. KeepsBlocks(P)
  BY <1>4 DEF KeepsBlocks
<1>7. PICK Q : Q = Settled(heap, calls)'
  OBVIOUS
<1>8. P \subseteq Q /\ CallsSettled(Settled(heap, calls), calls)' /\ BlocksDistinct(calls)'
  BY <1>1, <1>5, <1>6, <1>7, KeepsBlocksCalls, SettledGrows
<1>9. ContextSettled(P, scopes', functions', expectedRet', pendingFunc', returned')
  BY <1>1, <1>4, <1>5 DEF ContextSettled, RecordReturn
<1>10. ContextSettled(Q, scopes', functions', expectedRet', pendingFunc', returned')
  BY <1>8, <1>9, ContextGrows
<1>11. ValueSettled(Settled(heap, calls))'
  BY <1>1, <1>4, <1>7, <1>8 DEF ValueSettled
<1> QED BY <1>1, <1>5, <1>7, <1>8, <1>10, <1>11, StaysSettled

(* The operands of an overload's candidates, and its end. *)
LEMMA OverloadSettled ==
  ASSUME IInv, SettledInv,
         \/ OperandFails \/ OperandDone \/ CandidateRet \/ NoCandidate
         \/ \E op \in {"add", "fadd", "call", "func", "group"} : CandidateTyped(op)
  PROVE  SettledInv'
<1>1. PICK P : /\ P = Settled(heap, calls) /\ P \subseteq 0 .. Len(heap) /\ {Null, VoidType, IntType} \subseteq P
               /\ HeapOK(heap) /\ PartsSettled(heap, P)
               /\ ContextSettled(P, scopes, functions, expectedRet, pendingFunc, returned)
               /\ CallsSettled(P, calls)
  BY SettledBefore
<1>2. At("overload", "operand") /\ calls # << >> /\ Top.node = "overload"
  BY DEF OperandFails, OperandDone, CandidateRet, NoCandidate, CandidateTyped, OperandTyped, AtOperand, At
<1>3. Top.self \in P /\ Top.param \in P /\ Top \in Call(Pointer) /\ (mode = "return" => value.type \in P)
  <2>1. Len(calls) \in 1 .. Len(calls) /\ Top = calls[Len(calls)] /\ Top \in Call(Pointer)
    BY <1>2, CallsTyped
  <2> HIDE DEF Top
  <2>2. mode = "return" => value.type \in P
    BY <1>1, <1>2, ValueIsSettled
  <2> QED BY <1>1, <1>2, <2>1, <2>2 DEF CallsSettled
<1>4. ASSUME NEW t \in P, NextOperand(t), UNCHANGED << scopes, functions, pendingFunc >>, HeapStep(heap, heap', P),
             expectedRet' \in P, returned' \in Seq(SUBSET P)
      PROVE  SettledInv'
  <2>1. PICK c : c = [Top EXCEPT !.self = t]
    OBVIOUS
  <2>2. c.node = Top.node /\ c.self = t /\ c.param = Top.param
    <3>1. Top \in Call(Pointer)
      BY <1>3
    <3> HIDE DEF Top
    <3> QED BY <2>1, <3>1 DEF Call
  <2>3. calls' = [calls EXCEPT ![Len(calls)] = c] /\ mode' = "eval"
    BY <1>4, <2>1 DEF NextOperand, Top, Last
  <2> HIDE DEF Top
  <2>4. KeepsBlocks(P)
    BY <1>1, <1>2, <1>3, <1>4, <2>2, <2>3, TopKeepsBlocks
  <2>5. expectedRet' \in Settled(heap, calls)'
    BY <1>1, <1>4, <2>4, KeepsBlocksCalls, SettledGrows
  <2>6. pendingFunc' \in P
    BY <1>1, <1>4 DEF ContextSettled
  <2> QED BY <1>1, <1>4, <2>3, <2>4, <2>5, <2>6, KeepsSettled
<1>5. ASSUME NEW t, EndOverload(t), t \in P \/ (t = NextType /\ Len(heap') = Len(heap) + 1),
             UNCHANGED << scopes, functions, pendingFunc >>,
             HeapStep(heap, heap', P), expectedRet' \in P, returned' \in Seq(SUBSET P)
      PROVE  SettledInv'
  <2>1. calls' = Front(calls) /\ value'.type = t
    BY <1>5 DEF EndOverload, Return
  <2>2. scopes' \in Seq(Scope(P)) /\ functions' \in Seq(VarEntry(P)) /\ pendingFunc' \in P
    BY <1>1, <1>5 DEF ContextSettled
  <2> QED BY <1>1, <1>2, <1>5, <2>1, <2>2, EndsSettled
<1>6. HeapStep(heap, heap, P) /\ expectedRet \in P /\ returned \in Seq(SUBSET P)
  <2>1. heap' = heap => HeapStep(heap, heap', P)
    BY <1>1, SameHeapStep
  <2>2. HeapOK(heap) /\ Len(heap) \in Nat
    BY <1>1 DEF HeapOK
  <2> QED BY <1>1, <2>2 DEF ContextSettled, HeapStep, SameKinds
<1>7. CASE OperandFails \/ OperandDone
  <2>1. UNCHANGED ctxVars /\ UNCHANGED returned /\ mode = "return"
        /\ (NextOperand(Null) \/ NextOperand(value.type))
    BY <1>7 DEF OperandFails, OperandDone, OperandTyped, NextCandidate, walkHistory
  <2>2. /\ UNCHANGED << scopes, functions, pendingFunc >> /\ HeapStep(heap, heap', P)
        /\ expectedRet' \in P /\ returned' \in Seq(SUBSET P)
    BY <1>6, <2>1 DEF ctxVars
  <2> QED BY <1>1, <1>3, <1>4, <2>1, <2>2
<1>8. CASE NoCandidate
  <2>1. UNCHANGED ctxVars /\ UNCHANGED returned /\ EndOverload(Null)
    BY <1>8 DEF NoCandidate, walkHistory
  <2>2. /\ UNCHANGED << scopes, functions, pendingFunc >> /\ HeapStep(heap, heap', P)
        /\ expectedRet' \in P /\ returned' \in Seq(SUBSET P)
    BY <1>6, <2>1 DEF ctxVars
  <2> QED BY <1>1, <1>5, <2>1, <2>2
<1>9. CASE CandidateRet
  <2>1. RecordReturn(value.type) /\ mode = "return" /\ (NextOperand(Null) \/ EndOverload(VoidType))
    BY <1>9 DEF CandidateRet, OperandTyped, NextCandidate
  <2>2. value.type \in P
    BY <1>3, <2>1
  <2>3. HeapStep(heap, heap', P) /\ expectedRet' \in P /\ returned' \in Seq(SUBSET P)
    BY <1>1, <2>1, <2>2, RecordReturnSettled
  <2>4. UNCHANGED << scopes, functions, pendingFunc >>
    BY <2>1 DEF RecordReturn
  <2> QED BY <1>1, <1>4, <1>5, <2>1, <2>3, <2>4
<1>10. ASSUME NEW op \in {"add", "fadd", "call", "func", "group"}, CandidateTyped(op)
       PROVE  SettledInv'
  <2>1. /\ UNCHANGED << scopes, functions, expectedRet, pendingFunc, returned >> /\ mode = "return"
        /\ NextOperand(Null) \/ EndOverload(OperatorType(op, Top.self, value.type))
        /\ heap' = IF op = "func" THEN Append(heap, FuncType(Top.self, value.type)) ELSE heap
    BY <1>10 DEF CandidateTyped, OperandTyped, NextCandidate, walkHistory
  <2>2. HeapStep(heap, heap', P) /\ (op = "func" => Len(heap') = Len(heap) + 1)
    <3>1. PICK a \in P : a = Top.self
      BY <1>3
    <3>2. PICK b \in P : b = value.type
      BY <1>3, <2>1
    <3>3. CASE op = "func"
      <4>1. heap' = Append(heap, FuncType(a, b))
        BY <2>1, <3>1, <3>2, <3>3
      <4> QED BY <1>1, <4>1, AppendFuncStep
    <3>4. CASE op # "func"
      BY <1>6, <2>1, <3>4
    <3> QED BY <3>3, <3>4
  <2>3. PICK t : t = OperatorType(op, Top.self, value.type)
    OBVIOUS
  <2>4. t \in P \/ (t = NextType /\ op = "func")
    <3>1. CallType(Top.self) \in P
      BY <1>1, <1>3, CallTypeSettled
    <3>2. ArithmeticType(op, Top.self, value.type) \in P
      BY <1>1 DEF ArithmeticType
    <3> HIDE DEF Top
    <3> QED BY <1>1, <2>3, <3>1, <3>2 DEF OperatorType
  <2>5. expectedRet' \in P /\ returned' \in Seq(SUBSET P)
    BY <1>6, <2>1
  <2> QED BY <1>1, <1>4, <1>5, <2>1, <2>2, <2>3, <2>4, <2>5
<1> QED BY <1>7, <1>8, <1>9, <1>10

LEMMA InitSettled == Init => SettledInv
<1> SUFFICES ASSUME Init
             PROVE  SettledInv
  OBVIOUS
<1>1. calls = << >> /\ Len(calls) = 0 /\ OpenTypes(calls) = {} /\ mode = "idle"
  BY DEF Init, OpenTypes
<1>2. PICK P : P = Settled(heap, calls)
  OBVIOUS
<1>3. Len(heap) = 5 /\ heap = InitialHeap
  BY FiveInSeq DEF Init, ContextInit, InitialHeap, Obj
<1>4. P = 0 .. 5
  BY <1>1, <1>2, <1>3 DEF Settled
<1>5. PartsSettled(heap, P)
  <2>1. ASSUME NEW t \in 1 .. 5, NEW i \in DOMAIN heap[t].parts
        PROVE  heap[t].parts[i] \in P
    <3>1. heap[t].parts = << >> \/ heap[t].parts = << IntType >>
      BY <1>3 DEF InitialHeap, Obj
    <3>2. heap[t].parts = << IntType >>
      BY <2>1, <3>1
    <3>3. heap[t].parts[i] = IntType
      BY <2>1, <3>2
    <3> QED BY <1>4, <3>3 DEF IntType
  <2> QED BY <1>3, <2>1 DEF PartsSettled
<1>6. ContextSettled(P, scopes, functions, expectedRet, pendingFunc, returned)
  <2>1. NewScope \in Scope(P)
    BY DEF NewScope, Scope
  <2>2. << NewScope >> \in Seq(Scope(P))
    BY <2>1
  <2> QED BY <1>4, <2>2 DEF Init, ContextInit, ContextSettled, Null
<1>7. CallsSettled(P, calls) /\ BlocksDistinct(calls) /\ ValueSettled(P)
  BY <1>1 DEF CallsSettled, BlocksDistinct, ValueSettled
<1> QED BY <1>2, <1>5, <1>6, <1>7 DEF SettledInv

(* Every step keeps apart the blocks that are open. *)
LEMMA StepKeepsSettled ==
  ASSUME IInv, SettledInv, [Next]_vars
  PROVE  SettledInv'
<1>1. ASSUME VisitBlock \/ VisitModule \/ VisitFileRoot
      PROVE  SettledInv'
  BY <1>1, OpenBlockSettled DEF VisitBlock, VisitModule, VisitFileRoot
<1>2. ASSUME \/ \E n \in Name : VisitDecl(n) \/ VisitForward(n)
             \/ VisitFuncInit \/ VisitFunc \/ VisitOverload \/ VisitImport
      PROVE  SettledInv'
  BY <1>2, StartSteps
<1>3. ASSUME \/ \E l \in Leaf : VisitLeaf(l) \/ \E n \in Name : VisitSet(n, l)
             \/ \E op \in {"this", "file", "global"} : VisitSpecial(op)
             \/ ParseImport \/ ParseImportDone \/ TypingPass \/ FinalCheck \/ Done \/ UNCHANGED vars
      PROVE  SettledInv'
  BY <1>3, ReadSteps
<1> QED BY <1>1, <1>2, <1>3, VisitDeclFuncSettled, BlockEndSettled, StatementDoneSettled, DeclarationSettled,
           FuncEndSettled, ParamDoneSettled, VisitRetSettled, OverloadSettled DEF Next


-----------------------------------------------------------------------------
(* What $ret statements returned *)

(* Settled types stay as they are, parts and all. *)
SettledKept == \A x \in Settled(heap, calls) \ {Null} : heap'[x] = heap[x]

(* How a step changes what is expected of a $ret and what the $rets have   *)
(* returned: it leaves a function, enters the body of one, records a $ret, *)
(* or leaves it all, and the types concerned, as they are.                 *)
ReturnShape ==
  \/ /\ expectedRet' = Null
     /\ funcStack # << >> /\ funcStack' = Front(funcStack) /\ returned' = Front(returned)
  \/ ParamDone
  \/ \E t \in Settled(heap, calls) : RecordReturn(t)
  \/ UNCHANGED << funcStack, expectedRet, returned >> /\ SettledKept

LEMMA AppendKeepsSettled ==
  ASSUME IInv, SettledInv, NEW o, heap' = Append(heap, o)
  PROVE  SettledKept
<1>1. \A x \in 1 .. Len(heap) : heap'[x] = heap[x]
  BY HeapTyped, PlainAppend
<1> QED BY <1>1, HeapTyped DEF SettledKept, Settled, Null

LEMMA ReturnShapes ==
  ASSUME IInv, NamesInv, SettledInv, KindsOK, ExpectedOK, [Next]_vars
  PROVE  KeepsReturns(heap, heap', Innermost) /\ ExpectedOK' /\ ReturnShape
<1>1. ASSUME KeepsReturns(heap, heap', {}), UNCHANGED << funcStack, expectedRet, returned >>, SettledKept
      PROVE  KeepsReturns(heap, heap', Innermost) /\ ExpectedOK' /\ ReturnShape
  BY <1>1, ExpectedStays DEF ReturnShape
<1>2. ASSUME heap' = heap, UNCHANGED << funcStack, expectedRet, returned >>
      PROVE  KeepsReturns(heap, heap', Innermost) /\ ExpectedOK' /\ ReturnShape
  <2>1. KeepsReturns(heap, heap', {}) /\ SettledKept
    BY <1>2, SameReturns DEF SettledKept
  <2> QED BY <1>1, <1>2, <2>1
<1>3. ASSUME NEW o, heap' = Append(heap, o), UNCHANGED << funcStack, expectedRet, returned >>
      PROVE  KeepsReturns(heap, heap', Innermost) /\ ExpectedOK' /\ ReturnShape
  <2>1. KeepsReturns(heap, heap', {}) /\ SettledKept
    BY <1>3, HeapTyped, AppendReturns, AppendKeepsSettled
  <2> QED BY <1>1, <1>3, <2>1
<1>4. ASSUME NEW l \in Leaf, VisitLeaf(l) \/ \E n \in Name : VisitSet(n, l)
      PROVE  UNCHANGED << heap, funcStack, expectedRet, returned >>
  BY <1>4 DEF VisitLeaf, VisitSet, ctxVars, walkHistory
<1>5. ASSUME NEW l \in Leaf, VisitRet(l)
      PROVE  KeepsReturns(heap, heap', Innermost) /\ ExpectedOK' /\ ReturnShape
  <2>1. RecordReturn(LeafType(l))
    BY <1>5 DEF VisitRet
  <2>2. LeafType(l) \in Settled(heap, calls)
    BY LeafTypeSettled
  <2> QED BY <2>1, <2>2, RecordReturnReturns DEF ReturnShape
<1>6. ASSUME NEW op \in {"this", "file", "global"}, VisitSpecial(op)
      PROVE  UNCHANGED << heap, funcStack, expectedRet, returned >>
  BY <1>6 DEF VisitSpecial, ctxVars, walkHistory
<1>7. ASSUME NEW n \in Name, VisitDecl(n) \/ VisitForward(n)
      PROVE  UNCHANGED << heap, funcStack, expectedRet, returned >>
  BY <1>7 DEF VisitDecl, VisitForward, ctxVars, walkHistory
<1>8. ASSUME NEW n \in Name, VisitDeclFunc(n)
      PROVE  KeepsReturns(heap, heap', Innermost) /\ ExpectedOK' /\ ReturnShape
  BY <1>3, <1>8 DEF VisitDeclFunc, walkHistory
<1>9. ASSUME VisitBlock \/ VisitModule \/ VisitFileRoot
      PROVE  KeepsReturns(heap, heap', Innermost) /\ ExpectedOK' /\ ReturnShape
  <2>1. OpenBlock
    BY <1>9 DEF VisitBlock, VisitModule, VisitFileRoot
  <2> QED BY <1>3, <2>1 DEF OpenBlock, walkHistory
<1>10. ASSUME StatementFails \/ EndBlock
       PROVE  UNCHANGED << heap, funcStack, expectedRet, returned >>
  BY <1>10 DEF StatementFails, EndBlock, LeaveBlock
<1>11. ASSUME VisitFuncInit \/ VisitFunc \/ VisitOverload \/ VisitImport
       PROVE  UNCHANGED << heap, funcStack, expectedRet, returned >>
  BY <1>11 DEF VisitFuncInit, VisitFunc, OpenFunc, VisitOverload, VisitImport, ctxVars, walkHistory
<1>12. ASSUME ParamFails
       PROVE  UNCHANGED << heap, funcStack, expectedRet, returned >>
  BY <1>12 DEF ParamFails
<1>13. ASSUME InitFails \/ DefinesBody \/ DefinesFunc \/ DefinesVar \/ StubDone \/ ImportDone
       PROVE  UNCHANGED << heap, funcStack, expectedRet, returned >>
  BY <1>13 DEF InitFails, DefinesBody, DefinesFunc, DefinesVar, StubDone, ImportDone, walkHistory
<1>14. ASSUME ParseImport \/ ParseImportDone \/ TypingPass \/ FinalCheck \/ Done \/ UNCHANGED vars
       PROVE  UNCHANGED << heap, funcStack, expectedRet, returned >>
  BY <1>14 DEF ParseImport, ParseImportDone, TypingPass, FinalCheck, Done, vars, ctxVars, walkHistory
<1>15. ASSUME OperandFails \/ OperandDone \/ NoCandidate
       PROVE  UNCHANGED << heap, funcStack, expectedRet, returned >>
  BY <1>15 DEF OperandFails, OperandDone, NoCandidate, ctxVars, walkHistory
<1>16. ASSUME NEW op \in {"add", "fadd", "call", "func", "group"}, CandidateTyped(op)
       PROVE  KeepsReturns(heap, heap', Innermost) /\ ExpectedOK' /\ ReturnShape
  BY <1>2, <1>3, <1>16 DEF CandidateTyped, walkHistory
<1>17. ASSUME CandidateRet
       PROVE  KeepsReturns(heap, heap', Innermost) /\ ExpectedOK' /\ ReturnShape
  <2>1. RecordReturn(value.type) /\ mode = "return" /\ At("overload", "operand")
    BY <1>17 DEF CandidateRet, OperandTyped
  <2>2. value.type \in Settled(heap, calls)
    BY <2>1, ValueIsSettled
  <2> QED BY <2>1, <2>2, RecordReturnReturns DEF ReturnShape
<1>18. ASSUME BodyFails \/ BodyDone
       PROVE  KeepsReturns(heap, heap', Innermost) /\ ExpectedOK' /\ ReturnShape
  <2>1. expectedRet' = Null /\ funcStack' = Front(funcStack) /\ returned' = Front(returned)
    BY <1>18 DEF BodyFails, BodyDone, LeaveFunc
  <2>3. funcStack # << >>
    BY <1>18, BodyOnTop DEF BodyFails, BodyDone
  <2>2. KeepsReturns(heap, heap', Innermost)
    BY <1>18, SameReturns, BodyDoneReturns DEF BodyFails
  <2> QED BY <2>1, <2>2, <2>3 DEF ExpectedOK, ReturnShape
<1>19. ASSUME ParamDone
       PROVE  KeepsReturns(heap, heap', Innermost) /\ ExpectedOK' /\ ReturnShape
  BY <1>19, ParamDoneReturns, ParamDoneExpects, MoreReturns DEF ReturnShape
<1>20. ASSUME StatementDone
       PROVE  KeepsReturns(heap, heap', Innermost) /\ ExpectedOK' /\ ReturnShape
  <2>1. At("block", "statements") /\ UNCHANGED << calls, funcStack, expectedRet, returned >>
    BY <1>20 DEF StatementDone, walkHistory
  <2>2. Len(calls) \in 1 .. Len(calls) /\ Top = calls[Len(calls)] /\ Top.node = "block"
    BY <2>1, CallsTyped DEF At
  <2>3. IsA(heap, Top.self, "block") /\ Top.self \notin Settled(heap, calls)
    <3> HIDE DEF Top
    <3>1. IsA(heap, Top.self, "block")
      BY <2>2 DEF KindsOK
    <3> QED BY <2>2, <3>1, OpenTypesIn DEF Settled
  <2>4. CASE heap' = heap
    BY <1>2, <2>1, <2>4
  <2>5. CASE heap' = AddField(heap, Top.self, value.name, value.type)
    <3>1. KeepsReturns(heap, heap', {})
      BY <2>3, <2>5, HeapTyped, AddFieldReturns
    <3>2. SettledKept
      <4>1. PICK s, o : s = Top.self /\ heap' = [heap EXCEPT ![s] = o]
        BY <2>5 DEF AddField
      <4>2. \A x \in 1 .. Len(heap) : x # s => heap'[x] = heap[x]
        BY <4>1, HeapTyped
      <4> QED BY <2>3, <4>1, <4>2, HeapTyped DEF SettledKept, Settled, Null
    <3> QED BY <1>1, <2>1, <3>1, <3>2
  <2> QED BY <1>20, <2>4, <2>5 DEF StatementDone
<1> QED BY <1>2, <1>4, <1>5, <1>6, <1>7, <1>8, <1>9, <1>10, <1>11, <1>12, <1>13, <1>14, <1>15, <1>16, <1>17,
           <1>18, <1>19, <1>20 DEF Next

(* How a step changes the activations, told apart by what matters here: it *)
(* opens a block, starts another activation, keeps as many, ends a body,   *)
(* or ends another activation.                                             *)
OtherStarts ==
  \E node, stage, n, t : node # "block" /\ calls' = Append(calls, NewCall(node, stage, n, t))

LEMMA CallShapes ==
  ASSUME IInv, [Next]_vars
  PROVE  /\ \/ OpenBlock \/ OtherStarts \/ Len(calls') = Len(calls) \/ BodyFails \/ BodyDone
            \/ (calls' = Front(calls) /\ calls # << >> /\ ~At("func", "body"))
         /\ funcStack' \in {funcStack, Front(funcStack)} \/ ParamDone
<1>1. calls \in Seq(Call(Pointer)) /\ Len(calls) \in Nat
  BY CallsTyped
<1>2. CASE \/ \E l \in Leaf : VisitLeaf(l) \/ VisitRet(l) \/ \E n \in Name : VisitSet(n, l)
           \/ \E op \in {"this", "file", "global"} : VisitSpecial(op)
           \/ StatementDone \/ ParseImport \/ ParseImportDone \/ TypingPass \/ FinalCheck \/ Done
           \/ UNCHANGED vars
  <2>1. UNCHANGED << calls, funcStack >>
    BY <1>2 DEF VisitLeaf, VisitRet, RecordReturn, VisitSet, VisitSpecial, StatementDone, ParseImport,
                ParseImportDone, TypingPass, FinalCheck, Done, vars, ctxVars
  <2> QED BY <2>1
<1>3. CASE VisitBlock \/ VisitModule \/ VisitFileRoot
  BY <1>3 DEF VisitBlock, VisitModule, VisitFileRoot, OpenBlock
<1>4. CASE \/ \E n \in Name : VisitDecl(n) \/ VisitDeclFunc(n) \/ VisitForward(n)
           \/ VisitFuncInit \/ VisitFunc \/ VisitOverload \/ VisitImport
  <2>1. OtherStarts
    BY <1>4 DEF VisitDecl, VisitDeclFunc, VisitForward, VisitFuncInit, VisitFunc, OpenFunc, VisitOverload,
                VisitImport, OtherStarts
  <2>2. UNCHANGED funcStack
    BY <1>4 DEF VisitDecl, VisitDeclFunc, VisitForward, VisitFuncInit, VisitFunc, OpenFunc, VisitOverload,
                VisitImport, ctxVars
  <2> QED BY <2>1, <2>2
<1>5. CASE StatementFails \/ EndBlock \/ ParamFails
  BY <1>5 DEF StatementFails, EndBlock, AtStatement, LeaveBlock, ParamFails, At
<1>6. CASE BodyFails \/ BodyDone
  BY <1>6 DEF BodyFails, BodyDone, LeaveFunc
<1>7. CASE InitFails \/ DefinesBody \/ DefinesFunc \/ DefinesVar \/ StubDone \/ ImportDone
  BY <1>7 DEF InitFails, DefinesBody, DefinesFunc, DefinesVar, StubDone, ImportDone, At
<1>8. CASE ParamDone
  <2>1. Len(calls') = Len(calls)
    <3>1. PICK c : calls' = [calls EXCEPT ![Len(calls)] = c]
      BY <1>8 DEF ParamDone
    <3> QED BY <1>1, <3>1
  <2> QED BY <1>8, <2>1
<1>9. CASE \/ OperandFails \/ OperandDone \/ CandidateRet \/ NoCandidate
           \/ \E op \in {"add", "fadd", "call", "func", "group"} : CandidateTyped(op)
  <2>1. At("overload", "operand")
    BY <1>9 DEF OperandFails, OperandDone, CandidateRet, NoCandidate, CandidateTyped, OperandTyped, AtOperand
  <2>2. \E t : NextOperand(t) \/ EndOverload(t)
    BY <1>9 DEF OperandFails, OperandDone, CandidateRet, NoCandidate, CandidateTyped, NextCandidate
  <2>3. UNCHANGED funcStack
    BY <1>9 DEF OperandFails, OperandDone, CandidateRet, NoCandidate, CandidateTyped, RecordReturn, ctxVars
  <2>4. ASSUME NEW t, NextOperand(t)
        PROVE  Len(calls') = Len(calls)
    <3>1. PICK c : calls' = [calls EXCEPT ![Len(calls)] = c]
      BY <2>4 DEF NextOperand
    <3> QED BY <1>1, <3>1
  <2>5. ASSUME NEW t, EndOverload(t)
        PROVE  calls' = Front(calls) /\ calls # << >> /\ ~At("func", "body")
    BY <2>1, <2>5 DEF EndOverload, At
  <2> QED BY <2>2, <2>3, <2>4, <2>5
<1> QED BY <1>2, <1>3, <1>4, <1>5, <1>6, <1>7, <1>8, <1>9 DEF Next

(* The functions and blocks being typed stay what they are. *)
LEMMA KindsStay ==
  ASSUME IInv, NamesInv, SettledInv, KindsOK, ExpectedOK, [Next]_vars
  PROVE  KindsOK'
<1>1. \A t, kind : IsA(heap, t, kind) => IsA(heap', t, kind)
  <2>1. KeepsReturns(heap, heap', Innermost)
    BY ReturnShapes
  <2> QED BY <2>1, StillIsA
<1>2. /\ calls \in Seq(Call(Pointer)) /\ Len(calls) \in Nat /\ funcStack \in Seq(Pointer) /\ Len(funcStack) \in Nat
  BY CallsTyped
<1>3. ASSUME NEW k \in 1 .. Len(funcStack')
      PROVE  IsA(heap', funcStack'[k], "func")
  <2>1. CASE k \in 1 .. Len(funcStack) /\ funcStack'[k] = funcStack[k]
    BY <1>1, <2>1 DEF KindsOK
  <2>2. CASE funcStack' = funcStack
    BY <1>3, <2>1, <2>2
  <2>3. CASE funcStack' = Front(funcStack)
    <3>1. Len(Front(funcStack)) = Len(funcStack) - 1 \/ funcStack = << >>
      BY <1>2, FrontFacts
    <3>2. funcStack = << >> => Len(Front(funcStack)) <= 0
      BY DEF Front
    <3>3. k \in 1 .. Len(funcStack) - 1
      BY <1>2, <1>3, <2>3, <3>1, <3>2
    <3>4. funcStack'[k] = funcStack[k] /\ k \in 1 .. Len(funcStack)
      BY <1>2, <2>3, <3>3, FrontFacts
    <3> QED BY <2>1, <3>4
  <2>4. CASE ParamDone
    <3>1. PICK current : current = IF pendingFunc = Null THEN NextType ELSE pendingFunc
      OBVIOUS
    <3>2. funcStack' = Append(funcStack, current)
      BY <2>4, <3>1 DEF ParamDone
    <3>3. IsA(heap', current, "func")
      <4>1. pendingFunc = Null => IsA(heap', NextType, "func")
        BY <2>4, ParamDoneReturns
      <4>2. pendingFunc # Null => IsA(heap, pendingFunc, "func")
        BY DEF IInv, TypeOK, ContextTypeOK, KindOf, IsA, Pointer, Null
      <4> QED BY <1>1, <3>1, <4>1, <4>2
    <3>4. /\ Len(funcStack') = Len(funcStack) + 1 /\ funcStack'[Len(funcStack) + 1] = current
          /\ \A i \in 1 .. Len(funcStack) : funcStack'[i] = funcStack[i]
      BY <1>2, <3>2, PlainAppend
    <3>5. k \in 1 .. Len(funcStack) \/ k = Len(funcStack) + 1
      BY <1>2, <1>3, <3>4
    <3> QED BY <2>1, <3>3, <3>4, <3>5
  <2> QED BY <2>2, <2>3, <2>4, CallShapes
<1>4. ASSUME NEW i \in 1 .. Len(calls'), calls'[i].node = "block"
      PROVE  IsA(heap', calls'[i].self, "block")
  <2>1. CASE i \in 1 .. Len(calls) /\ calls'[i].node = calls[i].node /\ calls'[i].self = calls[i].self
    BY <1>1, <1>4, <2>1 DEF KindsOK
  <2>2. CASE StartsCall
    <3>1. PICK c : calls' = Append(calls, c)
      BY <2>2 DEF StartsCall
    <3>2. /\ Len(calls') = Len(calls) + 1 /\ calls'[Len(calls) + 1] = c
          /\ \A j \in 1 .. Len(calls) : calls'[j] = calls[j]
      BY <1>2, <3>1, PlainAppend
    <3>3. ASSUME c.node = "block"
          PROVE  IsA(heap', c.self, "block")
      <4>1. CASE OpenBlock
        <5>1. PICK b : b = NewCall("block", "statements", NoName, NextType)
          OBVIOUS
        <5>2. calls' = Append(calls, b) /\ b.self = NextType
          BY <4>1, <5>1 DEF OpenBlock, NewCall
        <5>3. c = b
          BY <1>2, <3>2, <5>2, PlainAppend
        <5>4. heap' = Append(heap, Obj("block", << >>))
          BY <4>1 DEF OpenBlock
        <5>5. Len(heap') = Len(heap) + 1 /\ heap'[Len(heap) + 1] = Obj("block", << >>)
          BY <5>4, HeapTyped, AppendReturns
        <5> QED BY <5>2, <5>3, <5>5, HeapTyped DEF IsA, NextType, Obj
      <4>2. CASE OtherStarts
        <5>1. PICK node, stage, n, t : node # "block" /\ calls' = Append(calls, NewCall(node, stage, n, t))
          BY <4>2 DEF OtherStarts
        <5>2. PICK b : b = NewCall(node, stage, n, t)
          OBVIOUS
        <5>3. calls' = Append(calls, b) /\ b.node # "block"
          BY <5>1, <5>2 DEF NewCall
        <5>4. c = b
          BY <1>2, <3>2, <5>3, PlainAppend
        <5> QED BY <3>3, <5>3, <5>4
      <4>3. CASE BodyFails \/ BodyDone
        <5>1. calls' = Front(calls) /\ calls # << >>
          BY <4>3 DEF BodyFails, BodyDone, LeaveFunc, At
        <5>2. Len(calls') = Len(calls) - 1
          BY <1>2, <5>1, FrontFacts
        <5> QED BY <1>2, <3>2, <5>2
      <4>4. CASE calls' = Front(calls) /\ calls # << >>
        <5>1. Len(calls') = Len(calls) - 1
          BY <1>2, <4>4, FrontFacts
        <5> QED BY <1>2, <3>2, <5>1
      <4>5. CASE Len(calls') = Len(calls)
        BY <1>2, <3>2, <4>5
      <4> QED BY <4>1, <4>2, <4>3, <4>4, <4>5, CallShapes
    <3>4. i \in 1 .. Len(calls) \/ i = Len(calls) + 1
      BY <1>2, <1>4, <3>2
    <3> QED BY <1>4, <2>1, <3>2, <3>3, <3>4
  <2>3. CASE EndsCall
    <3>1. calls' = Front(calls) /\ calls # << >>
      BY <2>3 DEF EndsCall
    <3>2. Len(calls') = Len(calls) - 1 /\ \A j \in 1 .. Len(calls) - 1 : calls'[j] = calls[j]
      BY <1>2, <3>1, FrontFacts
    <3>3. i \in 1 .. Len(calls) /\ calls'[i] = calls[i]
      BY <1>2, <1>4, <3>2
    <3> QED BY <2>1, <3>3
  <2>4. CASE EntersBody
    <3>1. /\ i \in 1 .. Len(calls) /\ calls'[i].node = calls[i].node
          /\ calls[Len(calls)].node = "func"
      BY <1>2, <1>4, <2>4, CallsTyped DEF EntersBody, KeepsKinds
    <3>2. i \in 1 .. Len(calls) - 1
      BY <1>2, <1>4, <3>1
    <3>3. calls'[i] = calls[i]
      BY <2>4, <3>2 DEF EntersBody
    <3> QED BY <2>1, <3>1, <3>3
  <2>5. CASE KeepsCalls
    <3>1. i \in 1 .. Len(calls) /\ calls'[i].node = calls[i].node
      BY <1>4, <2>5 DEF KeepsCalls, KeepsKinds
    <3>2. calls'[i].self = calls[i].self
      BY <1>4, <2>5, <3>1 DEF KeepsCalls
    <3> QED BY <2>1, <3>1, <3>2
  <2> QED BY <2>2, <2>3, <2>4, <2>5, StepShapes DEF IInv
<1> QED BY <1>3, <1>4 DEF KindsOK


(* What the $rets of the innermost function returned so far is what a later *)
(* one must return, and that is known once there is one.                    *)
AgreeInv ==
  expectedRet # Null /\ returned # << >> =>
    \A t \in Last(returned) : KindOf(expectedRet) # "unknown" /\ RetAgrees(t)

(* Types that stay as they are compare as before. *)
LEMMA AgreementKept ==
  ASSUME IInv, IInv', SettledInv, KeepsReturns(heap, heap', Innermost), SettledKept, UNCHANGED expectedRet,
         expectedRet # Null, NEW t \in Settled(heap, calls), KindOf(expectedRet) # "unknown", RetAgrees(t)
  PROVE  KindOf(expectedRet)' # "unknown" /\ RetAgrees(t)'
<1>1. PICK P : /\ P = Settled(heap, calls) /\ P \subseteq 0 .. Len(heap) /\ HeapOK(heap) /\ Len(heap) \in Nat
               /\ PartsSettled(heap, P) /\ expectedRet \in P
  BY SettledBefore DEF ContextSettled
<1>2. \A x \in P : x # Null => heap'[x] = heap[x]
  BY <1>1 DEF SettledKept
<1>3. HeapOK(heap') /\ P \subseteq 0 .. Len(heap')
  <2>1. HeapOK(heap')
    BY DEF IInv, TypeOK, ContextTypeOK
  <2>2. Len(heap') \in Nat /\ Len(heap) <= Len(heap')
    BY <2>1 DEF HeapOK, KeepsReturns
  <2> QED BY <1>1, <2>1, <2>2
<1>4. \A x \in P : x # Null => \A i \in DOMAIN heap[x].parts : heap[x].parts[i] \in P
  BY <1>1 DEF PartsSettled, Null
<1>5. PICK a, b : a = Unwrap(t) /\ b = Unwrap(expectedRet)
  OBVIOUS
<1>6. a \in P /\ b \in P
  BY <1>1, <1>5, UnwrapSettled
<1>7. Unwrap(t)' = a /\ Unwrap(expectedRet)' = b
  BY <1>1, <1>2, <1>5 DEF Unwrap
<1>8. TypeEquals(heap, a, b) <=> TypeEquals(heap', a, b)
  <2>1. P \in SUBSET (0 .. Len(heap))
    BY <1>1
  <2>2. \A x \in P : x # Null => heap'[x] = heap[x] /\ \A i \in DOMAIN heap[x].parts : heap[x].parts[i] \in P
    BY <1>2, <1>4
  <2> QED BY <1>1, <1>3, <1>6, <2>1, <2>2, TypeEqualsKept
<1>9. TypeEquals(heap, a, b)
  BY <1>5 DEF RetAgrees
<1> QED BY <1>1, <1>2, <1>7, <1>8, <1>9 DEF RetAgrees, KindOf

(* What the first $ret of a known type establishes agrees with itself. *)
LEMMA FirstAgrees ==
  ASSUME IInv, IInv', KeepsReturns(heap, heap', Innermost), NEW t \in Pointer, RetFirst(t), expectedRet' = t
  PROVE  KindOf(expectedRet)' # "unknown" /\ RetAgrees(t)'
<1>1. t \in 1 .. Len(heap) /\ heap[t].kind # "unknown" /\ Len(heap) \in Nat
  BY HeapTyped DEF RetFirst, RetKnown, Pointer, Null, KindOf
<1>2. KindOf(expectedRet)' # "unknown"
  BY <1>1 DEF KindOf, KeepsReturns
<1>3. HeapOK(heap') /\ Len(heap') \in Nat /\ t \in 1 .. Len(heap')
  <2>1. HeapOK(heap')
    BY DEF IInv, TypeOK, ContextTypeOK
  <2>2. Len(heap') \in Nat /\ Len(heap) <= Len(heap')
    BY <2>1 DEF HeapOK, KeepsReturns
  <2> QED BY <1>1, <2>1, <2>2
<1>4. PICK a : a = Unwrap(t)'
  OBVIOUS
<1>5. a \in 0 .. Len(heap')
  <2>1. CASE heap'[t].kind = "ref"
    <3>1. Len(heap'[t].parts) >= 1
      BY <1>3, <2>1 DEF HeapOK, Arity
    <3>2. heap'[t].parts[1] \in 0 .. Len(heap')
      BY <1>3, <3>1, PartsIn
    <3> QED BY <1>3, <1>4, <2>1, <3>2 DEF Unwrap, Null
  <2>2. CASE heap'[t].kind # "ref"
    BY <1>3, <1>4, <2>2 DEF Unwrap
  <2> QED BY <2>1, <2>2
<1>6. TypeEquals(heap', a, a)
  BY <1>3, <1>5, TypeEqualsSelf
<1>7. Unwrap(expectedRet)' = a
  BY <1>4
<1> QED BY <1>2, <1>4, <1>6, <1>7 DEF RetAgrees

LEMMA StepKeepsAgreement ==
  ASSUME IInv, IInv', SettledInv, AgreeInv, KeepsReturns(heap, heap', Innermost), ReturnShape
  PROVE  AgreeInv'
<1>1. PICK P : /\ P = Settled(heap, calls) /\ P \subseteq 0 .. Len(heap)
               /\ returned \in Seq(SUBSET P) /\ expectedRet \in P
  BY SettledBefore DEF ContextSettled
<1>2. returned # << >> => Len(returned) \in 1 .. Len(returned) /\ Last(returned) \subseteq P
  BY <1>1 DEF Last
<1>3. CASE expectedRet' = Null
  BY <1>3 DEF AgreeInv
<1>4. CASE ParamDone
  <2>1. returned' = Append(returned, {})
    BY <1>4 DEF ParamDone
  <2>2. Last(returned') = {}
    <3>1. Len(returned') = Len(returned) + 1 /\ returned'[Len(returned) + 1] = {}
      BY <1>1, <2>1, PlainAppend
    <3> QED BY <3>1 DEF Last
  <2> QED BY <2>2 DEF AgreeInv
<1>5. ASSUME NEW t \in P, RecordReturn(t)
      PROVE  AgreeInv'
  <2>1. t \in Pointer
    BY <1>1 DEF Pointer
  <2>2. \/ returned' = returned
        \/ /\ returned # << >> /\ RetAccepted(t)
           /\ returned' # << >> /\ Last(returned') = Last(returned) \cup {t}
    <3>1. CASE RetAccepted(t) /\ returned # << >>
      <4>1. returned' = [returned EXCEPT ![Len(returned)] = @ \cup {t}]
        BY <1>5, <3>1 DEF RecordReturn
      <4>2. Len(returned') = Len(returned) /\ returned'[Len(returned)] = returned[Len(returned)] \cup {t}
            /\ returned' # << >>
        BY <1>1, <1>2, <3>1, <4>1
      <4> QED BY <3>1, <4>2 DEF Last
    <3>2. CASE ~(RetAccepted(t) /\ returned # << >>)
      BY <1>5, <3>2 DEF RecordReturn
    <3> QED BY <3>1, <3>2
  <2>3. CASE RetFirst(t)
    <3>1. expectedRet' = t /\ expectedRet # Null /\ KindOf(expectedRet) = "unknown"
      BY <1>5, <2>3 DEF RecordReturn, EstablishReturn, RetFirst, RetKnown
    <3>2. returned # << >> => Last(returned) = {}
      BY <3>1 DEF AgreeInv
    <3>3. KindOf(expectedRet)' # "unknown" /\ RetAgrees(t)'
      BY <2>1, <2>3, <3>1, FirstAgrees
    <3>4. returned' # << >> => Last(returned') \subseteq {t}
      BY <2>2, <3>2
    <3> QED BY <3>3, <3>4 DEF AgreeInv
  <2>4. CASE ~RetFirst(t)
    <3>1. UNCHANGED << heap, expectedRet >>
      BY <1>5, <2>4 DEF RecordReturn
    <3>2. CASE returned' = returned
      BY <3>1, <3>2 DEF AgreeInv, KindOf, RetAgrees, Unwrap
    <3>3. CASE returned # << >> /\ RetAccepted(t) /\ Last(returned') = Last(returned) \cup {t}
      <4>1. KindOf(expectedRet) # "unknown" /\ RetAgrees(t)
        BY <2>4, <3>3 DEF RetAccepted, RetFirst
      <4>2. ASSUME expectedRet # Null, NEW s \in Last(returned')
            PROVE  KindOf(expectedRet) # "unknown" /\ RetAgrees(s)
        BY <3>3, <4>1, <4>2 DEF AgreeInv
      <4>3. ASSUME NEW s, KindOf(expectedRet) # "unknown", RetAgrees(s)
            PROVE  KindOf(expectedRet)' # "unknown" /\ RetAgrees(s)'
        BY <3>1, <4>3 DEF KindOf, RetAgrees, Unwrap
      <4> QED BY <3>1, <4>2, <4>3 DEF AgreeInv
    <3> QED BY <2>2, <3>2, <3>3
  <2> QED BY <2>3, <2>4
<1>6. CASE UNCHANGED << funcStack, expectedRet, returned >> /\ SettledKept
  <2>1. ASSUME expectedRet # Null, returned # << >>, NEW t \in Last(returned)
        PROVE  KindOf(expectedRet)' # "unknown" /\ RetAgrees(t)'
    <3>1. t \in Settled(heap, calls) /\ KindOf(expectedRet) # "unknown" /\ RetAgrees(t)
      BY <1>1, <1>2, <2>1 DEF AgreeInv
    <3> QED BY <1>6, <2>1, <3>1, AgreementKept
  <2> QED BY <1>6, <2>1 DEF AgreeInv
<1> QED BY <1>1, <1>3, <1>4, <1>5, <1>6 DEF ReturnShape

(* Every function being typed has its $rets. *)
LEMMA StepKeepsDepth ==
  ASSUME IInv, Len(returned) = Len(funcStack), ReturnShape
  PROVE  Len(returned') = Len(funcStack')
<1>1. /\ returned \in Seq(SUBSET Pointer) /\ Len(returned) \in Nat
      /\ funcStack \in Seq(Pointer) /\ Len(funcStack) \in Nat
  BY DEF IInv, TypeOK, ContextTypeOK
<1>2. CASE funcStack # << >> /\ funcStack' = Front(funcStack) /\ returned' = Front(returned)
  <2>1. returned # << >>
    BY <1>1, <1>2
  <2> QED BY <1>1, <1>2, <2>1, FrontFacts
<1>3. CASE ParamDone
  <2>1. PICK t : funcStack' = Append(funcStack, t) /\ returned' = Append(returned, {})
    BY <1>3 DEF ParamDone
  <2>2. Len(funcStack') = Len(funcStack) + 1 /\ Len(returned') = Len(returned) + 1
    BY <1>1, <2>1, PlainAppend
  <2> QED BY <2>2
<1>4. ASSUME NEW t, RecordReturn(t)
      PROVE  Len(returned') = Len(funcStack')
  <2>1. PICK u : returned' = returned \/ returned' = [returned EXCEPT ![Len(returned)] = u]
    BY <1>4 DEF RecordReturn
  <2>2. Len(returned') = Len(returned)
    BY <1>1, <2>1
  <2> QED BY <1>4, <2>2 DEF RecordReturn
<1> QED BY <1>2, <1>3, <1>4 DEF ReturnShape

(* When a body is done, its function returns what its $rets returned. *)
LEMMA BodyAgrees ==
  ASSUME IInv, IInv', NamesInv, KindsOK, ExpectedOK, SettledInv, AgreeInv, BodyDone,
         returned # << >>, NEW t \in Last(returned)
  PROVE  TypeEquals(heap', Unwrap(t), Unwrap(ReturnOf(heap', value'.type)))
<1>1. PICK P : /\ P = Settled(heap, calls) /\ P \subseteq 0 .. Len(heap) /\ HeapOK(heap) /\ Len(heap) \in Nat
               /\ returned \in Seq(SUBSET P) /\ expectedRet \in P /\ PartsSettled(heap, P)
  BY SettledBefore DEF ContextSettled
<1>2. expectedRet # Null
  BY DEF BodyDone, BodyReturnType
<1>3. KindOf(expectedRet) # "unknown" /\ RetAgrees(t)
  BY <1>2 DEF AgreeInv
<1>4. BodyReturnType = expectedRet
  BY <1>3 DEF BodyReturnType
<1>5. funcStack # << >> /\ Top.self = Last(funcStack) /\ Top.self \in 1 .. Len(heap)
      /\ ReturnOf(heap, Top.self) = expectedRet
  <2>1. funcStack # << >> /\ Top.self = Last(funcStack)
    BY BodyOnTop DEF BodyDone
  <2>2. IsA(heap, Last(funcStack), "func")
    BY <2>1, CallsTyped DEF KindsOK, Last
  <2> QED BY <1>2, <2>1, <2>2 DEF ExpectedOK, IsA
<1>6. SetPart(heap, Top.self, 2, expectedRet) = heap
  <2>1. PICK s : s = Top.self
    OBVIOUS
  <2>2. heap \in Seq(TypeObject(Len(heap))) /\ s \in 1 .. Len(heap) /\ heap[s].parts[2] = expectedRet
    BY <1>5, <2>1, HeapTyped DEF ReturnOf
  <2>3. [heap[s].parts EXCEPT ![2] = expectedRet] = heap[s].parts
    <3>1. heap[s].parts \in Seq(0 .. Len(heap))
      BY <1>1, <2>2, PartsIn
    <3> QED BY <2>2, <3>1
  <2>4. [heap[s] EXCEPT !.parts = heap[s].parts] = heap[s]
    <3>1. heap[s] \in TypeObject(Len(heap))
      BY <2>2
    <3> QED BY <3>1 DEF TypeObject
  <2>5. SetPart(heap, s, 2, expectedRet)
          = [heap EXCEPT ![s] = [heap[s] EXCEPT !.parts = [heap[s].parts EXCEPT ![2] = expectedRet]]]
    BY DEF SetPart
  <2>6. [heap EXCEPT ![s] = heap[s]] = heap
    BY <2>2
  <2> QED BY <2>1, <2>3, <2>4, <2>5, <2>6
<1>7. PICK o : o = FuncType(Top.param, expectedRet)
  OBVIOUS
<1>8. heap' = Append(heap, o) /\ value'.type = NextType
  BY <1>4, <1>6, <1>7 DEF BodyDone, Return
<1>9. /\ Len(heap') = Len(heap) + 1 /\ heap'[Len(heap) + 1] = o
      /\ \A x \in 1 .. Len(heap) : heap'[x] = heap[x]
  BY <1>8, HeapTyped, PlainAppend
<1>10. ReturnOf(heap', value'.type) = expectedRet
  BY <1>7, <1>8, <1>9 DEF ReturnOf, NextType, FuncType, Obj
<1>11. PICK a, b : a = Unwrap(t) /\ b = Unwrap(expectedRet)
  OBVIOUS
<1>12. a \in P /\ b \in P
  <2>1. t \in P
    BY <1>1 DEF Last
  <2> QED BY <1>1, <1>11, <2>1, UnwrapSettled
<1>13. TypeEquals(heap, a, b) <=> TypeEquals(heap', a, b)
  <2>1. P \in SUBSET (0 .. Len(heap)) /\ P \subseteq 0 .. Len(heap')
    BY <1>1, <1>9
  <2>2. \A x \in P : x # Null => heap'[x] = heap[x] /\ \A i \in DOMAIN heap[x].parts : heap[x].parts[i] \in P
    BY <1>1, <1>9 DEF PartsSettled, Null
  <2>3. HeapOK(heap')
    BY DEF IInv, TypeOK, ContextTypeOK
  <2> QED BY <1>1, <1>12, <2>1, <2>2, <2>3, TypeEqualsKept
<1> QED BY <1>3, <1>10, <1>11, <1>13 DEF RetAgrees

(* All the types that a function's $rets returned are its return type, in  *)
(* every program and wherever they stand: the first of a known type is     *)
(* what the function object and the context expect from then on, later     *)
(* ones are compared with it, and nothing that is typed in between changes *)
(* a type that was compared (inference.c, the $ret and FUNC cases, and     *)
(* morphl_type_equals).                                                    *)
THEOREM ReturnsAgreed == Spec => ReturnsAgree
<1> DEFINE RInv == /\ IInv /\ NamesInv /\ KindsOK /\ ExpectedOK /\ SettledInv /\ AgreeInv
                   /\ Len(returned) = Len(funcStack)
<1>1. Init => RInv
  <2> SUFFICES ASSUME Init PROVE RInv
    OBVIOUS
  <2>1. calls = << >> /\ funcStack = << >> /\ returned = << >> /\ expectedRet = Null
    BY DEF Init, ContextInit
  <2>2. \A i \in 1 .. Len(calls) : FALSE
    BY <2>1
  <2>3. \A k \in 1 .. Len(funcStack) : FALSE
    BY <2>1
  <2>4. NamesInv
    BY <2>2, Zenon DEF NamesInv
  <2>5. KindsOK
    BY <2>2, <2>3, Zenon DEF KindsOK
  <2>6. ExpectedOK /\ AgreeInv
    BY <2>1 DEF ExpectedOK, AgreeInv
  <2>7. Len(returned) = Len(funcStack)
    BY <2>1
  <2> QED BY <2>4, <2>5, <2>6, <2>7, InitEstablishes, InitSettled
<1>2. RInv /\ [Next]_vars => RInv'
  <2> SUFFICES ASSUME RInv, [Next]_vars PROVE RInv'
    OBVIOUS
  <2>1. IInv'
    BY StepKeepsInvariant
  <2>2. NamesInv'
    BY <2>1, StepShapes, StartsCallNames, EndsCallNames, EntersBodyNames, KeepsCallsNames DEF IInv
  <2>3. KeepsReturns(heap, heap', Innermost) /\ ExpectedOK' /\ ReturnShape
    BY ReturnShapes
  <2>4. KindsOK' /\ SettledInv'
    BY KindsStay, StepKeepsSettled
  <2>5. AgreeInv'
    BY <2>1, <2>3, StepKeepsAgreement
  <2>6. Len(returned') = Len(funcStack')
    BY <2>3, StepKeepsDepth
  <2> QED BY <2>1, <2>2, <2>3, <2>4, <2>5, <2>6
<1>3. RInv /\ RInv' /\ [Next]_vars =>
        [ \A t \in (IF At("func", "body") /\ value'.type # Null THEN Last(returned) ELSE {}) :
            Len(calls') < Len(calls) =>
              TypeEquals(heap', Unwrap(t), Unwrap(ReturnOf(heap', value'.type))) ]_vars
  <2> SUFFICES ASSUME RInv, RInv', [Next]_vars, At("func", "body"), value'.type # Null,
                      Len(calls') < Len(calls), NEW t \in Last(returned)
               PROVE  TypeEquals(heap', Unwrap(t), Unwrap(ReturnOf(heap', value'.type)))
    OBVIOUS
  <2>1. BodyDone
    <3>1. calls \in Seq(Call(Pointer)) /\ Len(calls) \in Nat
      BY CallsTyped
    <3>2. ~OpenBlock
      <4>1. \A c : Len(Append(calls, c)) = Len(calls) + 1
        BY <3>1, PlainAppend
      <4> QED BY <3>1, <4>1 DEF OpenBlock
    <3>3. ~OtherStarts
      <4>1. \A c : Len(Append(calls, c)) = Len(calls) + 1
        BY <3>1, PlainAppend
      <4> QED BY <3>1, <4>1 DEF OtherStarts
    <3>4. ~BodyFails
      BY DEF BodyFails, Fail, Return
    <3> QED BY <3>1, <3>2, <3>3, <3>4, CallShapes
  <2>2. returned # << >>
    <3>1. funcStack # << >>
      BY BodyOnTop
    <3>2. Len(funcStack) # 0
      BY <3>1, CallsTyped
    <3> QED BY <3>2
  <2> QED BY <2>1, <2>2, BodyAgrees
<1> QED BY <1>1, <1>2, <1>3, PTL DEF Spec, ReturnsAgree

-----------------------------------------------------------------------------
(* What recursive calls see *)

(* No function is being typed twice.                                       *)
DistinctOK ==
  \A j, k \in 1 .. Len(funcStack) : j # k => funcStack[j] # funcStack[k]

(* The functions being typed return nothing known or what their own $rets  *)
(* returned.                                                               *)
OwnReturnsOK ==
  \A k \in 1 .. Len(funcStack) : ReturnOf(heap, funcStack[k]) \in {UnknownType} \cup returned[k]

(* A placeholder that is pending is no function being typed and returns    *)
(* nothing known.                                                          *)
PlaceholderOK ==
  pendingFunc # Null =>
    /\ ReturnOf(heap, pendingFunc) = UnknownType
    /\ \A k \in 1 .. Len(funcStack) : funcStack[k] # pendingFunc

OwnInv == DistinctOK /\ OwnReturnsOK /\ PlaceholderOK

(* How a step changes what is pending: not at all, nothing is any more, or *)
(* a new placeholder is.                                                   *)
PendingShape ==
  \/ pendingFunc' \in {pendingFunc, Null}
  \/ /\ pendingFunc' = NextType
     /\ heap' = Append(heap, FuncType(UnknownType, UnknownType))
     /\ UNCHANGED funcStack

LEMMA PendingShapes ==
  ASSUME [Next]_vars
  PROVE  PendingShape
<1>1. ASSUME \/ \E l \in Leaf : VisitLeaf(l) \/ VisitRet(l) \/ \E n \in Name : VisitSet(n, l)
             \/ \E op \in {"this", "file", "global"} : VisitSpecial(op)
             \/ ParseImport \/ ParseImportDone \/ TypingPass \/ FinalCheck \/ Done \/ UNCHANGED vars
      PROVE  PendingShape
  BY <1>1 DEF VisitLeaf, VisitRet, RecordReturn, VisitSet, VisitSpecial, ParseImport, ParseImportDone,
              TypingPass, FinalCheck, Done, vars, ctxVars, PendingShape
<1>2. ASSUME NEW n \in Name, VisitDecl(n) \/ VisitForward(n)
      PROVE  PendingShape
  BY <1>2 DEF VisitDecl, VisitForward, ctxVars, PendingShape
<1>3. ASSUME NEW n \in Name, VisitDeclFunc(n)
      PROVE  PendingShape
  BY <1>3 DEF VisitDeclFunc, PendingShape
<1>4. ASSUME \/ VisitBlock \/ VisitModule \/ VisitFileRoot \/ StatementDone \/ StatementFails \/ EndBlock
             \/ VisitFuncInit \/ VisitFunc
      PROVE  PendingShape
  BY <1>4 DEF VisitBlock, VisitModule, VisitFileRoot, OpenBlock, StatementDone, StatementFails, EndBlock,
              LeaveBlock, VisitFuncInit, VisitFunc, OpenFunc, PendingShape
<1>5. ASSUME ParamFails \/ ParamDone \/ BodyFails \/ BodyDone
      PROVE  PendingShape
  BY <1>5 DEF ParamFails, ParamDone, BodyFails, BodyDone, LeaveFunc, PendingShape
<1>6. ASSUME InitFails \/ DefinesBody \/ DefinesFunc \/ DefinesVar \/ StubDone
      PROVE  PendingShape
  BY <1>6 DEF InitFails, DefinesBody, DefinesFunc, DefinesVar, StubDone, PendingShape
<1>7. ASSUME \/ VisitOverload \/ OperandFails \/ OperandDone \/ CandidateRet \/ NoCandidate
             \/ \E op \in {"add", "fadd", "call", "func", "group"} : CandidateTyped(op)
             \/ VisitImport \/ ImportDone
      PROVE  PendingShape
  BY <1>7 DEF VisitOverload, OperandFails, OperandDone, CandidateRet, RecordReturn, NoCandidate,
              CandidateTyped, VisitImport, ImportDone, ctxVars, PendingShape
<1> QED BY <1>1, <1>2, <1>3, <1>4, <1>5, <1>6, <1>7 DEF Next

(* A function other than the innermost one returns what it returned.       *)
LEMMA OthersKeep ==
  ASSUME KeepsReturns(heap, heap', Innermost), NEW t, IsA(heap, t, "func"), t \notin Innermost
  PROVE  ReturnOf(heap', t) = ReturnOf(heap, t)
  BY DEF KeepsReturns, IsA

(* The first $ret is what the innermost function returns.                  *)
LEMMA EstablishedReturn ==
  ASSUME IInv, KindsOK, NEW t, EstablishReturn(t), funcStack # << >>
  PROVE  ReturnOf(heap', Last(funcStack)) = t
<1>1. HeapOK(heap) /\ funcStack \in Seq(Pointer)
  BY DEF IInv, TypeOK, ContextTypeOK
<1>2. IsA(heap, Last(funcStack), "func")
  BY <1>1 DEF KindsOK, Last
<1>3. heap' = SetPart(heap, Last(funcStack), 2, t)
  BY DEF EstablishReturn
<1>4. /\ KeepsReturns(heap, heap', {Last(funcStack)})
      /\ ReturnOf(heap', Last(funcStack)) = t
  BY <1>1, <1>2, <1>3, SetReturnReturns
<1> QED BY <1>4

(* What a step that leaves no function and enters none does to the         *)
(* functions being typed.                                                  *)
LEMMA SameFunctionsOwn ==
  ASSUME IInv, KindsOK, SettledInv, OwnInv, Len(returned) = Len(funcStack),
         KeepsReturns(heap, heap', Innermost),
         \/ \E t : RecordReturn(t)
         \/ UNCHANGED << funcStack, expectedRet, returned >> /\ SettledKept
  PROVE  OwnReturnsOK' /\ funcStack' = funcStack
<1>1. /\ funcStack \in Seq(Pointer) /\ Len(funcStack) \in Nat
      /\ returned \in Seq(SUBSET Pointer) /\ HeapOK(heap)
  BY CallsTyped, HeapTyped DEF IInv, TypeOK
<1>2. CASE UNCHANGED << funcStack, expectedRet, returned >> /\ SettledKept
  <2>1. ASSUME NEW k \in 1 .. Len(funcStack)
        PROVE  ReturnOf(heap', funcStack[k]) = ReturnOf(heap, funcStack[k])
    <3>1. IsA(heap, funcStack[k], "func")
      BY DEF KindsOK
    <3>2. funcStack[k] \notin OpenTypes(calls)
      BY <3>1 DEF OpenTypes, KindsOK, IsA
    <3>3. heap'[funcStack[k]] = heap[funcStack[k]]
      BY <1>1, <1>2, <3>1, <3>2 DEF SettledKept, Settled, IsA, Null, HeapOK
    <3> QED BY <3>3 DEF ReturnOf
  <2> QED BY <1>2, <2>1 DEF OwnInv, OwnReturnsOK
<1>3. ASSUME NEW t, RecordReturn(t)
      PROVE  OwnReturnsOK' /\ funcStack' = funcStack
  <2>1. funcStack' = funcStack
    BY <1>3 DEF RecordReturn
  <2>2. ASSUME NEW k \in 1 .. Len(funcStack)
        PROVE  returned[k] \subseteq returned'[k] /\ (k = Len(funcStack) /\ RetFirst(t) => t \in returned'[k])
    <3>1. CASE RetAccepted(t) /\ returned # << >>
      <4>1. returned' = [returned EXCEPT ![Len(returned)] = @ \cup {t}]
        BY <1>3, <3>1 DEF RecordReturn
      <4> QED BY <1>1, <4>1
    <3>2. CASE ~(RetAccepted(t) /\ returned # << >>)
      <4>1. returned' = returned
        BY <1>3, <3>2 DEF RecordReturn
      <4>2. returned # << >>
        BY <1>1
      <4> QED BY <3>2, <4>1, <4>2 DEF RetAccepted
    <3> QED BY <3>1, <3>2
  <2>3. ASSUME NEW k \in 1 .. Len(funcStack)
        PROVE  ReturnOf(heap', funcStack[k]) \in {UnknownType} \cup returned'[k]
    <3>1. IsA(heap, funcStack[k], "func")
      BY DEF KindsOK
    <3>2. CASE ReturnOf(heap', funcStack[k]) = ReturnOf(heap, funcStack[k])
      BY <2>2, <3>2 DEF OwnInv, OwnReturnsOK
    <3>3. CASE heap' = heap
      BY <3>2, <3>3
    <3>4. CASE heap' # heap
      <4>1. RetFirst(t) /\ EstablishReturn(t)
        BY <1>3, <3>4 DEF RecordReturn
      <4>2. funcStack # << >> /\ Last(funcStack) = funcStack[Len(funcStack)]
        BY <1>1 DEF Last
      <4>3. CASE k = Len(funcStack)
        <5>1. ReturnOf(heap', Last(funcStack)) = t
          BY <4>1, <4>2, EstablishedReturn
        <5> QED BY <2>2, <4>1, <4>2, <4>3, <5>1
      <4>4. CASE k # Len(funcStack)
        <5>1. funcStack[k] \notin Innermost
          BY <1>1, <4>2, <4>4 DEF Innermost, OwnInv, DistinctOK
        <5> QED BY <3>1, <3>2, <5>1, OthersKeep
      <4> QED BY <4>3, <4>4
    <3> QED BY <3>3, <3>4
  <2> QED BY <2>1, <2>3 DEF OwnReturnsOK
<1> QED BY <1>2, <1>3

(* The function whose body is next has a placeholder nobody else has, or a *)
(* new object.                                                             *)
LEMMA ParamDoneOwn ==
  ASSUME IInv, KindsOK, OwnInv, Len(returned) = Len(funcStack), ParamDone
  PROVE  OwnInv'
<1>1. /\ funcStack \in Seq(Pointer) /\ Len(funcStack) \in Nat
      /\ returned \in Seq(SUBSET Pointer) /\ HeapOK(heap) /\ Len(heap) \in Nat
  BY CallsTyped, HeapTyped DEF IInv, TypeOK
<1>2. PICK current : current = IF pendingFunc = Null THEN NextType ELSE pendingFunc
  OBVIOUS
<1>3. /\ funcStack' = Append(funcStack, current) /\ returned' = Append(returned, {})
      /\ pendingFunc' = Null
  BY <1>2 DEF ParamDone
<1>4. /\ Len(funcStack') = Len(funcStack) + 1 /\ funcStack'[Len(funcStack) + 1] = current
      /\ \A k \in 1 .. Len(funcStack) : funcStack'[k] = funcStack[k] /\ returned'[k] = returned[k]
  BY <1>1, <1>3, PlainAppend
<1>5. KeepsReturns(heap, heap', {})
  BY ParamDoneReturns
<1>6. \A k \in 1 .. Len(funcStack) : funcStack[k] # current
  BY <1>1, <1>2 DEF KindsOK, IsA, NextType, OwnInv, PlaceholderOK
<1>7. ReturnOf(heap', current) = UnknownType
  <2>1. CASE pendingFunc = Null
    <3>1. heap' = Append(heap, FuncType(value.type, UnknownType))
      BY <2>1 DEF ParamDone
    <3>2. heap'[Len(heap) + 1] = FuncType(value.type, UnknownType)
      BY <1>1, <3>1, AppendReturns
    <3> QED BY <1>2, <2>1, <3>2 DEF ReturnOf, NextType, FuncType, Obj
  <2>2. CASE pendingFunc # Null
    <3>1. IsA(heap, pendingFunc, "func")
      BY <2>2 DEF IInv, TypeOK, ContextTypeOK, KindOf, IsA, Pointer, Null
    <3> QED BY <1>2, <1>5, <2>2, <3>1 DEF KeepsReturns, IsA, OwnInv, PlaceholderOK
  <2> QED BY <2>1, <2>2
<1>8. \A k \in 1 .. Len(funcStack) : ReturnOf(heap', funcStack[k]) = ReturnOf(heap, funcStack[k])
  BY <1>5 DEF KeepsReturns, KindsOK, IsA
<1>9. \A k \in 1 .. Len(funcStack') : k \in 1 .. Len(funcStack) \/ k = Len(funcStack) + 1
  BY <1>1, <1>4
<1>10. DistinctOK'
  BY <1>4, <1>6, <1>9 DEF OwnInv, DistinctOK
<1>11. OwnReturnsOK'
  BY <1>4, <1>7, <1>8, <1>9 DEF OwnInv, OwnReturnsOK
<1> QED BY <1>3, <1>10, <1>11 DEF OwnInv, PlaceholderOK

(* A function that is left keeps its return type to itself.                *)
LEMMA LeavesOwn ==
  ASSUME IInv, KindsOK, OwnInv, Len(returned) = Len(funcStack), KeepsReturns(heap, heap', Innermost),
         funcStack # << >>, funcStack' = Front(funcStack), returned' = Front(returned)
  PROVE  DistinctOK' /\ OwnReturnsOK'
<1>1. /\ funcStack \in Seq(Pointer) /\ Len(funcStack) \in Nat \ {0}
      /\ returned \in Seq(SUBSET Pointer) /\ Last(funcStack) = funcStack[Len(funcStack)]
  BY CallsTyped DEF IInv, TypeOK, Last
<1>2. /\ Len(funcStack') = Len(funcStack) - 1
      /\ \A k \in 1 .. Len(funcStack) - 1 : funcStack'[k] = funcStack[k] /\ returned'[k] = returned[k]
  BY <1>1, FrontFacts
<1>3. ASSUME NEW k \in 1 .. Len(funcStack) - 1
      PROVE  ReturnOf(heap', funcStack[k]) = ReturnOf(heap, funcStack[k])
  <2>1. k \in 1 .. Len(funcStack) /\ k # Len(funcStack) /\ Len(funcStack) \in 1 .. Len(funcStack)
    BY <1>1
  <2>2. IsA(heap, funcStack[k], "func") /\ funcStack[k] \notin Innermost
    BY <1>1, <2>1 DEF KindsOK, Innermost, OwnInv, DistinctOK
  <2> QED BY <2>2, OthersKeep
<1>4. \A k \in 1 .. Len(funcStack') : k \in 1 .. Len(funcStack) /\ k \in 1 .. Len(funcStack) - 1
  BY <1>1, <1>2
<1>5. DistinctOK'
  BY <1>2, <1>4 DEF OwnInv, DistinctOK
<1>6. OwnReturnsOK'
  BY <1>2, <1>3, <1>4 DEF OwnInv, OwnReturnsOK
<1> QED BY <1>5, <1>6

(* A placeholder stays untouched while it is pending.                      *)
LEMMA PlaceholderStays ==
  ASSUME IInv, OwnInv, KindsOK, KeepsReturns(heap, heap', Innermost), PendingShape,
         \A k \in 1 .. Len(funcStack') : k \in 1 .. Len(funcStack) /\ funcStack'[k] = funcStack[k]
  PROVE  PlaceholderOK'
<1>1. HeapOK(heap) /\ Len(heap) \in Nat /\ funcStack \in Seq(Pointer)
  BY HeapTyped, CallsTyped
<1>2. CASE pendingFunc' = Null
  BY <1>2 DEF PlaceholderOK
<1>3. CASE pendingFunc' = pendingFunc /\ pendingFunc # Null
  <2>1. IsA(heap, pendingFunc, "func")
    BY <1>3 DEF IInv, TypeOK, ContextTypeOK, KindOf, IsA, Pointer, Null
  <2>2. pendingFunc \notin Innermost
    BY <1>1, <1>3 DEF Innermost, Last, OwnInv, PlaceholderOK
  <2> QED BY <1>3, <2>1, <2>2, OthersKeep DEF OwnInv, PlaceholderOK
<1>4. CASE pendingFunc' = NextType /\ heap' = Append(heap, FuncType(UnknownType, UnknownType))
  <2>1. heap'[Len(heap) + 1] = FuncType(UnknownType, UnknownType)
    BY <1>1, <1>4, AppendReturns
  <2>2. ReturnOf(heap', pendingFunc') = UnknownType
    BY <1>4, <2>1 DEF ReturnOf, NextType, FuncType, Obj
  <2>3. \A k \in 1 .. Len(funcStack) : funcStack[k] # NextType
    BY <1>1 DEF KindsOK, IsA, NextType
  <2> QED BY <1>4, <2>2, <2>3 DEF PlaceholderOK
<1> QED BY <1>2, <1>3, <1>4 DEF PendingShape

LEMMA StepKeepsOwn ==
  ASSUME IInv, NamesInv, KindsOK, ExpectedOK, SettledInv, OwnInv, Len(returned) = Len(funcStack), [Next]_vars
  PROVE  OwnInv'
<1>1. KeepsReturns(heap, heap', Innermost) /\ ReturnShape /\ PendingShape
  BY ReturnShapes, PendingShapes
<1>2. CASE ParamDone
  BY <1>2, ParamDoneOwn
<1>3. CASE funcStack # << >> /\ funcStack' = Front(funcStack) /\ returned' = Front(returned)
  <2>1. \A k \in 1 .. Len(funcStack') : k \in 1 .. Len(funcStack) /\ funcStack'[k] = funcStack[k]
    <3>1. funcStack \in Seq(Pointer) /\ Len(funcStack) \in Nat
      BY CallsTyped
    <3> QED BY <1>3, <3>1, FrontFacts
  <2> QED BY <1>1, <1>3, <2>1, LeavesOwn, PlaceholderStays DEF OwnInv
<1>4. CASE \/ \E t : RecordReturn(t)
           \/ UNCHANGED << funcStack, expectedRet, returned >> /\ SettledKept
  <2>1. OwnReturnsOK' /\ funcStack' = funcStack
    BY <1>1, <1>4, SameFunctionsOwn
  <2>2. DistinctOK' /\ PlaceholderOK'
    BY <1>1, <2>1, PlaceholderStays DEF OwnInv, DistinctOK
  <2> QED BY <2>1, <2>2 DEF OwnInv
<1> QED BY <1>1, <1>2, <1>3, <1>4 DEF ReturnShape

(* In every program, a call that resolves to a function whose body is      *)
(* being typed has an unknown type or one that a $ret of that function     *)
(* returned, wherever the call stands: no two functions being typed share  *)
(* an object, also when one takes the placeholder of another's declaration *)
(* (inference.c, the $ret, DECL, FUNC and CALL cases).                     *)
THEOREM RecursionOwn == Spec => []RecursionSeesOwnReturn
<1> DEFINE CInv == /\ IInv /\ NamesInv /\ KindsOK /\ ExpectedOK /\ SettledInv /\ OwnInv
                   /\ Len(returned) = Len(funcStack)
<1>1. Init => CInv
  <2> SUFFICES ASSUME Init PROVE CInv
    OBVIOUS
  <2>1. /\ calls = << >> /\ funcStack = << >> /\ returned = << >> /\ expectedRet = Null
        /\ pendingFunc = Null
    BY DEF Init, ContextInit
  <2>2. \A i \in 1 .. Len(calls) : FALSE
    BY <2>1
  <2>3. \A k \in 1 .. Len(funcStack) : FALSE
    BY <2>1
  <2>4. NamesInv
    BY <2>2, Zenon DEF NamesInv
  <2>5. KindsOK
    BY <2>2, <2>3, Zenon DEF KindsOK
  <2>6. ExpectedOK
    BY <2>1 DEF ExpectedOK
  <2>7. OwnInv
    BY <2>1, <2>3, Zenon DEF OwnInv, DistinctOK, OwnReturnsOK, PlaceholderOK
  <2>8. Len(returned) = Len(funcStack)
    BY <2>1
  <2> QED BY <2>4, <2>5, <2>6, <2>7, <2>8, InitEstablishes, InitSettled
<1>2. CInv /\ [Next]_vars => CInv'
  <2> SUFFICES ASSUME CInv, [Next]_vars PROVE CInv'
    OBVIOUS
  <2>1. IInv'
    BY StepKeepsInvariant
  <2>2. NamesInv'
    BY <2>1, StepShapes, StartsCallNames, EndsCallNames, EntersBodyNames, KeepsCallsNames DEF IInv
  <2>3. ExpectedOK' /\ ReturnShape
    BY ReturnShapes
  <2>4. KindsOK' /\ SettledInv' /\ OwnInv'
    BY KindsStay, StepKeepsSettled, StepKeepsOwn
  <2>5. Len(returned') = Len(funcStack')
    BY <2>3, StepKeepsDepth
  <2> QED BY <2>1, <2>2, <2>3, <2>4, <2>5
<1>3. CInv => RecursionSeesOwnReturn
  <2> SUFFICES ASSUME CInv, NEW n \in Name, NEW k \in DOMAIN funcStack, LookupVar(n) = funcStack[k]
               PROVE  CallType(LookupVar(n)) \in {UnknownType} \cup returned[k]
    BY DEF RecursionSeesOwnReturn
  <2>1. k \in 1 .. Len(funcStack)
    BY CallsTyped
  <2>2. IsA(heap, funcStack[k], "func")
    BY <2>1 DEF KindsOK
  <2>3. CallType(funcStack[k]) = ReturnOf(heap, funcStack[k])
    BY <2>2 DEF CallType, Unwrap, KindOf, IsA, Null
  <2> QED BY <2>1, <2>3 DEF OwnInv, OwnReturnsOK
<1> QED BY <1>1, <1>2, <1>3, PTL DEF Spec

=============================================================================
