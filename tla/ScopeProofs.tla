---------------------------- MODULE ScopeProofs -----------------------------
(***************************************************************************)
(* What the scopes and the files of the typing context hold while          *)
(* Inference walks a program: a name keeps its type once it is bound, a    *)
(* call finds the type of the stub it was typed with, every stub is        *)
(* settled once, and $file and $global are the module that names them.     *)
(* Each invariant is proved from IInv, for every program.                  *)
(***************************************************************************)
EXTENDS InferenceProofs

-----------------------------------------------------------------------------
(* Calls and stubs *)

(* The first entry of a name in a sequence of entries. *)
FirstOf(s, n) == SelectInSeq(s, LAMBDA v : v.name = n)

(* What a search for a name in a sequence of entries finds. *)
LEMMA FirstNamed ==
  ASSUME NEW S, NEW s \in Seq(S), NEW n
  PROVE  \A k : k = FirstOf(s, n) =>
           /\ k \in 0 .. Len(s)
           /\ k = 0 => \A i \in 1 .. Len(s) : s[i].name # n
           /\ k # 0 => s[k].name = n /\ \A i \in 1 .. k - 1 : s[i].name # n
<1> DEFINE I == {i \in 1 .. Len(s) : s[i].name = n}
<1> TAKE k
<1> HAVE k = FirstOf(s, n)
<1>1. k = IF I # {} THEN Min(I) ELSE 0
  BY DEF FirstOf, SelectInSeq
<1>2. Len(s) \in Nat /\ I \in SUBSET Nat
  OBVIOUS
<1>3. ASSUME I # {}
      PROVE  Min(I) \in I /\ \A y \in I : Min(I) <= y
  <2> HIDE DEF I
  <2> QED BY <1>2, <1>3, MinInSet
<1>4. CASE I = {}
  <2>1. k = 0
    BY <1>1, <1>4
  <2>2. \A i \in 1 .. Len(s) : s[i].name # n
    BY <1>4
  <2> HIDE DEF I
  <2> QED BY <1>2, <2>1, <2>2
<1>5. CASE I # {}
  <2>1. k \in I /\ \A y \in I : k <= y
    BY <1>1, <1>3, <1>5
  <2>2. k \in 1 .. Len(s) /\ s[k].name = n
    BY <2>1
  <2>3. ASSUME NEW i \in 1 .. k - 1, s[i].name = n
        PROVE  FALSE
    <3>1. i \in I
      BY <1>2, <2>2, <2>3
    <3>2. k <= i
      BY <2>1, <3>1
    <3> QED BY <1>2, <2>2, <3>2
  <2>4. k \in 0 .. Len(s) /\ k # 0
    BY <1>2, <2>2
  <2> HIDE DEF I
  <2> QED BY <2>2, <2>3, <2>4
<1> QED BY <1>4, <1>5

(* type_context_lookup_forward finds the stub of a name, if there is one.  *)
LEMMA ForwardFound ==
  ASSUME NEW P, scopes \in Seq(Scope(P)), scopes # << >>, NEW n
  PROVE  /\ LookupForward(n) \in 0 .. Len(scopes[Len(scopes)].forwards)
         /\ LookupForward(n) = 0 =>
              \A j \in 1 .. Len(scopes[Len(scopes)].forwards) :
                scopes[Len(scopes)].forwards[j].name # n
         /\ LookupForward(n) # 0 => scopes[Len(scopes)].forwards[LookupForward(n)].name = n
<1> DEFINE fs == scopes[Len(scopes)].forwards
<1>1. scopes[Len(scopes)] \in Scope(P)
  OBVIOUS
<1>2. fs \in Seq(ForwardEntry(P))
  BY <1>1 DEF Scope
<1>3. \A k : k = FirstOf(fs, n) =>
        /\ k \in 0 .. Len(fs)
        /\ k = 0 => \A i \in 1 .. Len(fs) : fs[i].name # n
        /\ k # 0 => fs[k].name = n
  <2> HIDE DEF fs
  <2> QED BY <1>2, FirstNamed
<1>4. LookupForward(n) = FirstOf(fs, n)
  BY DEF LookupForward, FirstOf
<1> HIDE DEF fs
<1> DEFINE k == LookupForward(n)
<1> HIDE DEF k
<1>5. /\ k \in 0 .. Len(fs)
      /\ k = 0 => \A i \in 1 .. Len(fs) : fs[i].name # n
      /\ k # 0 => fs[k].name = n
  BY <1>3, <1>4 DEF k
<1> QED BY <1>5 DEF k, fs

(* The entries of a new variable and of a new stub. *)
NameEntry(n, t) == [name |-> n, type |-> t]
StubEntry(n, t, id) == [name |-> n, type |-> t, resolved |-> FALSE, stub |-> id]

(* What type_context_define_var changes: one entry more, in the innermost  *)
(* scope.                                                                  *)
LEMMA DefineVarAt ==
  ASSUME NEW P, NEW scs \in Seq(Scope(P)), scs # << >>, NEW n, NEW t
  PROVE  \A g : g = DefineVar(scs, n, t) =>
           /\ Len(g) = Len(scs)
           /\ \A i \in 1 .. Len(scs) : g[i].forwards = scs[i].forwards
           /\ \A i \in 1 .. Len(scs) - 1 : g[i] = scs[i]
           /\ g[Len(scs)].vars = Append(scs[Len(scs)].vars, NameEntry(n, t))
<1> TAKE g
<1> HAVE g = DefineVar(scs, n, t)
<1> DEFINE m == Len(scs)
           vs == Append(scs[m].vars, NameEntry(n, t))
           sc == [scs[m] EXCEPT !.vars = vs]
<1>1. m \in Nat \ {0} /\ scs[m] \in Scope(P)
  OBVIOUS
<1>2. g = [scs EXCEPT ![m] = sc]
  BY DEF DefineVar, NameEntry
<1> HIDE DEF vs
<1>3. sc.vars = vs /\ sc.forwards = scs[m].forwards
  BY <1>1 DEF Scope
<1> HIDE DEF sc, m
<1>4. Len(g) = Len(scs) /\ \A i \in 1 .. Len(scs) : g[i] = IF i = m THEN sc ELSE scs[i]
  BY <1>2
<1>5. Len(scs) = m
  BY DEF m
<1>6. \A i \in 1 .. Len(scs) : g[i].forwards = scs[i].forwards
  BY <1>3, <1>4
<1>7. \A i \in 1 .. Len(scs) - 1 : g[i] = scs[i]
  BY <1>1, <1>4, <1>5
<1>8. g[Len(scs)].vars = vs
  BY <1>1, <1>3, <1>4, <1>5
<1> QED BY <1>4, <1>5, <1>6, <1>7, <1>8 DEF vs, m

(* What type_context_define_forward changes: one stub more, in the         *)
(* innermost scope.                                                        *)
LEMMA DefineForwardAt ==
  ASSUME NEW P, NEW scs \in Seq(Scope(P)), scs # << >>, NEW n, NEW t, NEW id
  PROVE  \A g : g = DefineForward(scs, n, t, id) =>
           /\ Len(g) = Len(scs)
           /\ \A i \in 1 .. Len(scs) : g[i].vars = scs[i].vars
           /\ \A i \in 1 .. Len(scs) - 1 : g[i] = scs[i]
           /\ g[Len(scs)].forwards =
                Append(scs[Len(scs)].forwards, StubEntry(n, t, id))
<1> TAKE g
<1> HAVE g = DefineForward(scs, n, t, id)
<1> DEFINE m == Len(scs)
           fs == Append(scs[m].forwards, StubEntry(n, t, id))
           sc == [scs[m] EXCEPT !.forwards = fs]
<1>1. m \in Nat \ {0} /\ scs[m] \in Scope(P)
  OBVIOUS
<1>2. g = [scs EXCEPT ![m] = sc]
  BY DEF DefineForward, StubEntry
<1> HIDE DEF fs
<1>3. sc.forwards = fs /\ sc.vars = scs[m].vars
  BY <1>1 DEF Scope
<1> HIDE DEF sc, m
<1>4. Len(g) = Len(scs) /\ \A i \in 1 .. Len(scs) : g[i] = IF i = m THEN sc ELSE scs[i]
  BY <1>2
<1>5. Len(scs) = m
  BY DEF m
<1>6. \A i \in 1 .. Len(scs) : g[i].vars = scs[i].vars
  BY <1>3, <1>4
<1>7. \A i \in 1 .. Len(scs) - 1 : g[i] = scs[i]
  BY <1>1, <1>4, <1>5
<1>8. g[Len(scs)].forwards = fs
  BY <1>1, <1>3, <1>4, <1>5
<1> QED BY <1>4, <1>5, <1>6, <1>7, <1>8 DEF fs, m

(* What type_context_update_var changes: the type of the first entry of    *)
(* the name in the innermost scope.                                        *)
LEMMA UpdateVarAt ==
  ASSUME NEW P, NEW scs \in Seq(Scope(P)), scs # << >>, NEW n, NEW t
  PROVE  \A g : g = UpdateVar(scs, n, t) =>
           /\ Len(g) = Len(scs)
           /\ \A i \in 1 .. Len(scs) : g[i].forwards = scs[i].forwards
           /\ \A i \in 1 .. Len(scs) - 1 : g[i] = scs[i]
           /\ Len(g[Len(scs)].vars) = Len(scs[Len(scs)].vars)
           /\ \A j \in 1 .. Len(scs[Len(scs)].vars) :
                /\ g[Len(scs)].vars[j].name = scs[Len(scs)].vars[j].name
                /\ scs[Len(scs)].vars[j].name # n =>
                     g[Len(scs)].vars[j] = scs[Len(scs)].vars[j]
<1> TAKE g
<1> HAVE g = UpdateVar(scs, n, t)
<1> DEFINE m == Len(scs)
           vs == scs[m].vars
           k == SelectInSeq(vs, LAMBDA v : v.name = n)
           ws == [j \in DOMAIN vs |-> IF j = k THEN [vs[j] EXCEPT !.type = t] ELSE vs[j]]
           sc == [scs[m] EXCEPT !.vars = ws]
<1>1. m \in Nat \ {0} /\ scs[m] \in Scope(P)
  OBVIOUS
<1>2. g = [scs EXCEPT ![m] = sc]
  BY DEF UpdateVar
<1>3. vs \in Seq(VarEntry(P))
  BY <1>1 DEF Scope
<1>4. k # 0 => vs[k].name = n
  <2> HIDE DEF vs
  <2>1. \A j : j = FirstOf(vs, n) => (j # 0 => vs[j].name = n)
    BY <1>3, FirstNamed
  <2>2. k = FirstOf(vs, n)
    BY DEF FirstOf
  <2> HIDE DEF k
  <2> QED BY <2>1, <2>2
<1> HIDE DEF k
<1>5. /\ Len(ws) = Len(vs)
      /\ \A j \in 1 .. Len(vs) : ws[j].name = vs[j].name /\ (vs[j].name # n => ws[j] = vs[j])
  <2> HIDE DEF vs
  <2>1. Len(ws) = Len(vs)
    <3>1. DOMAIN ws = 1 .. Len(vs) /\ Len(vs) \in Nat
      BY <1>3
    <3> HIDE DEF ws
    <3> QED BY <3>1
  <2>2. ASSUME NEW j \in 1 .. Len(vs)
        PROVE  ws[j].name = vs[j].name /\ (vs[j].name # n => ws[j] = vs[j])
    <3>1. vs[j] \in VarEntry(P)
      BY <1>3
    <3>2. [vs[j] EXCEPT !.type = t].name = vs[j].name
      BY <3>1 DEF VarEntry
    <3>3. ws[j] = IF j = k THEN [vs[j] EXCEPT !.type = t] ELSE vs[j]
      BY <1>3
    <3>4. j # 0
      BY <1>3
    <3> HIDE DEF ws
    <3> QED BY <1>4, <3>2, <3>3, <3>4
  <2> QED BY <2>1, <2>2
<1> HIDE DEF ws
<1>6. sc.vars = ws /\ sc.forwards = scs[m].forwards
  BY <1>1 DEF Scope
<1> HIDE DEF sc
<1>7. Len(g) = Len(scs) /\ \A i \in 1 .. Len(scs) : g[i] = IF i = m THEN sc ELSE scs[i]
  BY <1>2
<1>8. \A i \in 1 .. Len(scs) : g[i].forwards = scs[i].forwards
  BY <1>6, <1>7
<1>9. \A i \in 1 .. Len(scs) - 1 : g[i] = scs[i]
  BY <1>1, <1>7
<1>10. g[Len(scs)].vars = ws
  BY <1>1, <1>6, <1>7
<1> QED BY <1>5, <1>7, <1>8, <1>9, <1>10

(* What type_context_define_forward_body changes: one stub of the          *)
(* innermost scope is resolved.                                            *)
Resolve(scs, k) == [scs EXCEPT ![Len(scs)].forwards[k].resolved = TRUE]

(* What it leaves of scs: stub k of the innermost scope is resolved. *)
ResolvedAt(scs, k, g) ==
  /\ Len(g) = Len(scs)
  /\ \A i \in 1 .. Len(scs) : g[i].vars = scs[i].vars
  /\ \A i \in 1 .. Len(scs) - 1 : g[i] = scs[i]
  /\ Len(g[Len(scs)].forwards) = Len(scs[Len(scs)].forwards)
  /\ \A j \in 1 .. Len(scs[Len(scs)].forwards) :
       /\ g[Len(scs)].forwards[j].name = scs[Len(scs)].forwards[j].name
       /\ g[Len(scs)].forwards[j].type = scs[Len(scs)].forwards[j].type
       /\ g[Len(scs)].forwards[j].stub = scs[Len(scs)].forwards[j].stub
       /\ j # k => g[Len(scs)].forwards[j] = scs[Len(scs)].forwards[j]
  /\ g[Len(scs)].forwards[k].resolved = TRUE

(* morphl_type_context_define_func: the forward that is resolved. *)
LEMMA DefineForwardBodyAt ==
  ASSUME NEW P, NEW scs \in Seq(Scope(P)), scs # << >>,
         NEW k \in 1 .. Len(scs[Len(scs)].forwards)
  PROVE  \A g : g = Resolve(scs, k) => ResolvedAt(scs, k, g)
<1> TAKE g
<1> HAVE g = Resolve(scs, k)
<1> DEFINE m == Len(scs)
           fs == scs[m].forwards
           e == [fs[k] EXCEPT !.resolved = TRUE]
           gs == [fs EXCEPT ![k] = e]
           sc == [scs[m] EXCEPT !.forwards = gs]
<1>1. m \in Nat \ {0} /\ scs[m] \in Scope(P)
  OBVIOUS
<1>2. g = [scs EXCEPT ![m] = sc]
  BY DEF Resolve
<1>3. fs \in Seq(ForwardEntry(P)) /\ k \in 1 .. Len(fs)
  BY <1>1 DEF Scope
<1>4. /\ Len(gs) = Len(fs)
      /\ \A j \in 1 .. Len(fs) :
           /\ gs[j].name = fs[j].name /\ gs[j].type = fs[j].type /\ gs[j].stub = fs[j].stub
           /\ j # k => gs[j] = fs[j]
      /\ gs[k].resolved = TRUE
  <2> HIDE DEF fs
  <2>1. fs[k] \in ForwardEntry(P)
    BY <1>3
  <2>2. /\ e.name = fs[k].name /\ e.type = fs[k].type /\ e.stub = fs[k].stub
        /\ e.resolved = TRUE
    BY <2>1 DEF ForwardEntry
  <2> HIDE DEF e
  <2>3. Len(gs) = Len(fs) /\ \A j \in 1 .. Len(fs) : gs[j] = IF j = k THEN e ELSE fs[j]
    BY <1>3
  <2> HIDE DEF gs
  <2> QED BY <1>3, <2>2, <2>3
<1> HIDE DEF gs
<1>5. sc.forwards = gs /\ sc.vars = scs[m].vars
  BY <1>1 DEF Scope
<1> HIDE DEF sc
<1>6. Len(g) = Len(scs) /\ \A i \in 1 .. Len(scs) : g[i] = IF i = m THEN sc ELSE scs[i]
  BY <1>2
<1>7. \A i \in 1 .. Len(scs) : g[i].vars = scs[i].vars
  BY <1>5, <1>6
<1>8. \A i \in 1 .. Len(scs) - 1 : g[i] = scs[i]
  BY <1>1, <1>6
<1>9. g[Len(scs)].forwards = gs
  BY <1>1, <1>5, <1>6
<1> QED BY <1>4, <1>6, <1>7, <1>8, <1>9 DEF ResolvedAt

-----------------------------------------------------------------------------
(* How a step changes the scopes *)

KeepsScopes ==
  /\ UNCHANGED << scopes, bodies >>
  /\ \/ UNCHANGED << reports, pass >>
     \/ UNCHANGED reports /\ pass = "parse" /\ pass' = "typing"
     \/ FinalCheck

OpensScope == scopes' = PushScope /\ UNCHANGED << bodies, reports, pass >>

ClosesScope ==
  /\ Len(scopes) > 1 /\ scopes' = Front(scopes)
  /\ ReportOnPop
  /\ UNCHANGED << bodies, pass >>

BindsName ==
  /\ \E n \in Name, t \in Pointer' : scopes' = DefineVar(scopes, n, t)
  /\ UNCHANGED << bodies, reports, pass >>

RebindsName ==
  /\ DefinesFunc
  /\ LookupForward(Top.name) = 0
  /\ scopes' = UpdateVar(scopes, Top.name, value.type)
  /\ UNCHANGED << bodies, reports, pass >>

GivesBody ==
  /\ \E n \in Name :
       LET k == LookupForward(n)
           f == scopes[Len(scopes)].forwards[k]
       IN  /\ k # 0 /\ ~f.resolved
           /\ scopes' = DefineForwardBody(k)
           /\ bodies' = [bodies EXCEPT ![f.stub] = @ + 1]
  /\ UNCHANGED << reports, pass >>

DeclaresStub ==
  /\ \E n \in Name, t \in Pointer :
       /\ ~DuplicateVar(scopes, n) /\ LookupForward(n) = 0
       /\ scopes' = DefineVar(DefineForward(scopes, n, t, Len(bodies) + 1), n, t)
  /\ bodies' = Append(bodies, 0)
  /\ reports' = Append(reports, 0)
  /\ UNCHANGED pass

(* Every step keeps the scopes, opens or closes the innermost one, binds a *)
(* name in it, rebinds the name of a declared function, or declares a stub *)
(* or gives one its body.                                                  *)
LEMMA ScopeShapes ==
  ASSUME IInv, IInv', [Next]_vars
  PROVE  \/ KeepsScopes \/ OpensScope \/ ClosesScope \/ BindsName
         \/ RebindsName \/ GivesBody \/ DeclaresStub
<1>1. ASSUME UNCHANGED << scopes, bodies, reports, pass >>
      PROVE  KeepsScopes
  BY <1>1 DEF KeepsScopes
<1>2. ASSUME calls # << >>, Top.node \in {"block", "func"}, scopes' = PopScope
      PROVE  Len(scopes) > 1 /\ scopes' = Front(scopes)
  <2>1. Len(scopes) > 1
    <3>1. Len(scopes) = Top.entry.scopes + 1 /\ Top.entry.scopes \in Nat \ {0}
      BY <1>2, DepthsAtTop DEF Depths
    <3> QED BY <3>1
  <2>2. Len(scopes) \in Nat
    BY DEF IInv, TypeOK, ContextTypeOK
  <2> QED BY <1>2, <2>1, <2>2 DEF PopScope
<1>3. ASSUME \/ \E l \in Leaf : VisitLeaf(l) \/ VisitRet(l) \/ \E n \in Name : VisitSet(n, l)
             \/ \E op \in {"this", "file", "global"} : VisitSpecial(op)
             \/ \E n \in Name : VisitDecl(n) \/ VisitForward(n)
      PROVE  KeepsScopes
  BY <1>1, <1>3 DEF VisitLeaf, VisitRet, VisitSet, VisitSpecial, VisitDecl, VisitForward,
                    RecordReturn, ctxVars, walkHistory
<1>4. ASSUME NEW n \in Name, VisitDeclFunc(n)
      PROVE  BindsName
  <2>1. /\ scopes' = DefineVar(scopes, n, NextType) /\ pendingFunc' = NextType
        /\ UNCHANGED << bodies, reports, pass >>
    BY <1>4 DEF VisitDeclFunc, walkHistory
  <2>2. NextType \in Pointer'
    BY <2>1 DEF IInv, TypeOK, ContextTypeOK
  <2> QED BY <2>1, <2>2 DEF BindsName
<1>5. ASSUME \/ VisitBlock \/ VisitModule \/ VisitFileRoot \/ VisitFuncInit \/ VisitFunc
      PROVE  OpensScope
  BY <1>5 DEF VisitBlock, VisitModule, VisitFileRoot, OpenBlock, VisitFuncInit, VisitFunc,
              OpenFunc, OpensScope, walkHistory
<1>6. ASSUME StatementFails \/ EndBlock \/ ParamFails \/ BodyFails \/ BodyDone
      PROVE  ClosesScope
  <2>1. calls # << >> /\ Top.node \in {"block", "func"}
    BY <1>6 DEF StatementFails, EndBlock, AtStatement, ParamFails, BodyFails, BodyDone, At
  <2>2. scopes' = PopScope /\ ReportOnPop /\ UNCHANGED << bodies, pass >>
    BY <1>6 DEF StatementFails, EndBlock, LeaveBlock, ParamFails, BodyFails, BodyDone, LeaveFunc
  <2> QED BY <1>2, <2>1, <2>2 DEF ClosesScope
<1>7. ASSUME StatementDone \/ ParamDone \/ InitFails
      PROVE  KeepsScopes
  BY <1>1, <1>7 DEF StatementDone, ParamDone, InitFails, walkHistory
<1>8. ASSUME DefinesBody
      PROVE  KeepsScopes \/ GivesBody
  <2> DEFINE k == LookupForward(Top.name)
             s == Last(scopes).forwards[k].stub
  <2>1. Top.name \in Name /\ k # 0 /\ UNCHANGED << reports, pass >>
    BY <1>8, DepthsAtTop DEF DefinesBody, At, Call
  <2>2. CASE CanDefineBody(k, value.type)
    <3>1. scopes' = DefineForwardBody(k) /\ bodies' = [bodies EXCEPT ![s] = @ + 1]
      BY <1>8, <2>2 DEF DefinesBody
    <3>2. ~scopes[Len(scopes)].forwards[k].resolved
      BY <2>2 DEF CanDefineBody
    <3> QED BY <2>1, <3>1, <3>2 DEF GivesBody, Last
  <2>3. CASE ~CanDefineBody(k, value.type)
    BY <1>1, <1>8, <2>1, <2>3 DEF DefinesBody
  <2> QED BY <2>2, <2>3
<1>9. ASSUME DefinesFunc
      PROVE  RebindsName
  BY <1>9 DEF DefinesFunc, RebindsName, walkHistory
<1>10. ASSUME DefinesVar
       PROVE  KeepsScopes \/ BindsName
  <2>1. /\ Top.name \in Name /\ UNCHANGED << heap, bodies, reports, pass >>
        /\ scopes' = scopes \/ scopes' = DefineVar(scopes, Top.name, value.type)
    BY <1>10, DepthsAtTop DEF DefinesVar, At, Call, walkHistory
  <2>2. value.type \in Pointer'
    BY <2>1 DEF IInv, TypeOK, Pointer
  <2> QED BY <1>1, <2>1, <2>2 DEF BindsName
<1>11. ASSUME StubDone
       PROVE  KeepsScopes \/ DeclaresStub
  <2> DEFINE n == Top.name
             t == value.type
  <2>1. n \in Name /\ t \in Pointer /\ UNCHANGED pass
    BY <1>11, DepthsAtTop DEF StubDone, At, Call, IInv, TypeOK
  <2>2. CASE UNCHANGED << scopes, functions, bodies, reports >>
    BY <1>1, <2>1, <2>2
  <2>3. CASE /\ ~DuplicateVar(scopes, n) /\ LookupForward(n) = 0
             /\ scopes' = DefineVar(DefineForward(scopes, n, t, Len(bodies) + 1), n, t)
             /\ bodies' = Append(bodies, 0)
             /\ reports' = Append(reports, 0)
    BY <2>1, <2>3 DEF DeclaresStub
  <2> QED BY <1>11, <2>2, <2>3 DEF StubDone
<1>12. ASSUME \/ VisitOverload \/ OperandFails \/ OperandDone \/ CandidateRet \/ NoCandidate
              \/ \E op \in {"add", "fadd", "call", "func", "group"} : CandidateTyped(op)
              \/ VisitImport \/ ImportDone
              \/ ParseImport \/ ParseImportDone \/ Done \/ UNCHANGED vars
       PROVE  KeepsScopes
  BY <1>1, <1>12 DEF VisitOverload, OperandFails, OperandDone, CandidateRet, NoCandidate,
       CandidateTyped, RecordReturn, VisitImport, ImportDone, ParseImport, ParseImportDone,
       Done, vars, ctxVars, walkHistory
<1>13. ASSUME TypingPass \/ FinalCheck
       PROVE  KeepsScopes
  BY <1>13 DEF TypingPass, FinalCheck, KeepsScopes, ctxVars, walkHistory
<1> QED BY <1>3, <1>4, <1>5, <1>6, <1>7, <1>8, <1>9, <1>10, <1>11, <1>12, <1>13 DEF Next

-----------------------------------------------------------------------------
(* What calls of a stub see *)

(* A stub is bound as a variable of its scope, to its own type, before any *)
(* other variable of its name.                                             *)
StubsBound(sc) ==
  \A j \in 1 .. Len(sc.forwards) : \E i \in 1 .. Len(sc.vars) :
    /\ sc.vars[i].name = sc.forwards[j].name
    /\ sc.vars[i].type = sc.forwards[j].type
    /\ \A l \in 1 .. i - 1 : sc.vars[l].name # sc.forwards[j].name

ScopesBound(scs) == \A i \in 1 .. Len(scs) : StubsBound(scs[i])

(* A scope is a scope. *)
LEMMA ScopeTyped ==
  ASSUME NEW P, NEW scs \in Seq(Scope(P)), NEW i \in 1 .. Len(scs)
  PROVE  /\ scs[i].vars \in Seq(VarEntry(P)) /\ scs[i].forwards \in Seq(ForwardEntry(P))
         /\ Len(scs[i].vars) \in Nat /\ DOMAIN scs[i].vars = 1 .. Len(scs[i].vars)
         /\ Len(scs[i].forwards) \in Nat /\ DOMAIN scs[i].forwards = 1 .. Len(scs[i].forwards)
<1>1. scs[i] \in Scope(P)
  OBVIOUS
<1>2. scs[i].vars \in Seq(VarEntry(P)) /\ scs[i].forwards \in Seq(ForwardEntry(P))
  BY <1>1 DEF Scope
<1> DEFINE vs == scs[i].vars
           fs == scs[i].forwards
<1> HIDE DEF vs, fs
<1>3. vs \in Seq(VarEntry(P)) /\ fs \in Seq(ForwardEntry(P))
  BY <1>2 DEF vs, fs
<1>4. Len(vs) \in Nat /\ DOMAIN vs = 1 .. Len(vs) /\ Len(fs) \in Nat /\ DOMAIN fs = 1 .. Len(fs)
  BY <1>3
<1> QED BY <1>2, <1>4 DEF vs, fs

(* Variables that keep their place, and keep their type when a stub has    *)
(* their name, keep the stubs bound.                                       *)
KeepsBinding(a, b) ==
  /\ Len(a.vars) \in Nat /\ Len(b.vars) \in Nat /\ Len(a.vars) <= Len(b.vars)
  /\ Len(b.forwards) = Len(a.forwards)
  /\ \A j \in 1 .. Len(a.forwards) : /\ b.forwards[j].name = a.forwards[j].name
                                     /\ b.forwards[j].type = a.forwards[j].type
  /\ \A i \in 1 .. Len(a.vars) :
       /\ b.vars[i].name = a.vars[i].name
       /\ \A j \in 1 .. Len(a.forwards) :
            a.forwards[j].name = a.vars[i].name => b.vars[i].type = a.vars[i].type

(* A name that is bound stays bound where no entry is changed. *)
LEMMA StillBound == \A a, b : StubsBound(a) /\ KeepsBinding(a, b) => StubsBound(b)
<1> SUFFICES ASSUME NEW a, NEW b, StubsBound(a), KeepsBinding(a, b),
                    NEW j \in 1 .. Len(b.forwards)
             PROVE  \E i \in 1 .. Len(b.vars) :
                      /\ b.vars[i].name = b.forwards[j].name
                      /\ b.vars[i].type = b.forwards[j].type
                      /\ \A l \in 1 .. i - 1 : b.vars[l].name # b.forwards[j].name
  BY DEF StubsBound
<1> USE DEF KeepsBinding
<1>1. j \in 1 .. Len(a.forwards)
  OBVIOUS
<1>2. PICK i \in 1 .. Len(a.vars) :
        /\ a.vars[i].name = a.forwards[j].name
        /\ a.vars[i].type = a.forwards[j].type
        /\ \A l \in 1 .. i - 1 : a.vars[l].name # a.forwards[j].name
  BY <1>1 DEF StubsBound
<1>3. i \in 1 .. Len(b.vars) /\ \A l \in 1 .. i - 1 : l \in 1 .. Len(a.vars)
  OBVIOUS
<1> QED BY <1>1, <1>2, <1>3

(* Only the innermost scope has changed, and its stubs are bound.          *)
LEMMA InnermostBound ==
  ASSUME NEW P, NEW scs \in Seq(Scope(P)), scs # << >>, ScopesBound(scs)
  PROVE  \A g : /\ Len(g) = Len(scs)
                /\ \A i \in 1 .. Len(scs) - 1 : g[i] = scs[i]
                /\ StubsBound(g[Len(scs)])
                => ScopesBound(g)
<1> TAKE g
<1> HAVE /\ Len(g) = Len(scs)
         /\ \A i \in 1 .. Len(scs) - 1 : g[i] = scs[i]
         /\ StubsBound(g[Len(scs)])
<1> DEFINE m == Len(scs)
<1>1. m \in Nat
  OBVIOUS
<1> HIDE DEF m
<1>2. \A i \in 1 .. m : i \in 1 .. m - 1 \/ i = m
  BY <1>1
<1> QED BY <1>2 DEF ScopesBound, m

(* A new variable binds no other name anew. *)
LEMMA DefineVarBound ==
  ASSUME NEW P, NEW scs \in Seq(Scope(P)), scs # << >>, NEW n, NEW t, ScopesBound(scs)
  PROVE  ScopesBound(DefineVar(scs, n, t))
<1> DEFINE g == DefineVar(scs, n, t)
           m == Len(scs)
           e == NameEntry(n, t)
           a == scs[m]
           b == g[m]
<1>1. m \in Nat \ {0} /\ m \in 1 .. Len(scs)
  OBVIOUS
<1>2. /\ Len(g) = m
      /\ b.forwards = a.forwards
      /\ \A i \in 1 .. m - 1 : g[i] = scs[i]
      /\ b.vars = Append(a.vars, e)
  BY <1>1, DefineVarAt
<1>3. a.vars \in Seq(VarEntry(P)) /\ Len(a.vars) \in Nat
  BY <1>1, ScopeTyped
<1>4. StubsBound(a)
  BY <1>1 DEF ScopesBound
<1> HIDE DEF g, m, e, a, b
<1>5. /\ Len(b.vars) = Len(a.vars) + 1
      /\ \A i \in 1 .. Len(a.vars) : b.vars[i] = a.vars[i]
  <2> DEFINE vs == a.vars
  <2> HIDE DEF vs
  <2>1. vs \in Seq(VarEntry(P)) /\ b.vars = Append(vs, e)
    BY <1>2, <1>3 DEF vs
  <2>2. Len(b.vars) = Len(vs) + 1 /\ \A i \in 1 .. Len(vs) : b.vars[i] = vs[i]
    BY <2>1
  <2> QED BY <2>2 DEF vs
<1>6. KeepsBinding(a, b)
  BY <1>2, <1>3, <1>5 DEF KeepsBinding
<1>7. StubsBound(b)
  BY <1>4, <1>6, StillBound
<1> QED BY <1>2, <1>7, InnermostBound DEF b, m, g

(* Nor does an update of a variable, unless it is that name. *)
LEMMA UpdateVarBound ==
  ASSUME NEW P, NEW scs \in Seq(Scope(P)), scs # << >>, NEW n, NEW t, ScopesBound(scs),
         \A j \in 1 .. Len(scs[Len(scs)].forwards) : scs[Len(scs)].forwards[j].name # n
  PROVE  ScopesBound(UpdateVar(scs, n, t))
<1> DEFINE g == UpdateVar(scs, n, t)
           m == Len(scs)
           a == scs[m]
           b == g[m]
<1>1. m \in Nat \ {0} /\ m \in 1 .. Len(scs)
  OBVIOUS
<1>2. /\ Len(g) = m
      /\ b.forwards = a.forwards
      /\ \A i \in 1 .. m - 1 : g[i] = scs[i]
      /\ Len(b.vars) = Len(a.vars)
      /\ \A i \in 1 .. Len(a.vars) : /\ b.vars[i].name = a.vars[i].name
                                     /\ a.vars[i].name # n => b.vars[i] = a.vars[i]
  BY <1>1, UpdateVarAt
<1>3. Len(a.vars) \in Nat
  BY <1>1, ScopeTyped
<1>4. StubsBound(a) /\ \A j \in 1 .. Len(a.forwards) : a.forwards[j].name # n
  BY <1>1 DEF ScopesBound
<1> HIDE DEF g, m, a, b
<1>6. KeepsBinding(a, b)
  BY <1>2, <1>3, <1>4 DEF KeepsBinding
<1>7. StubsBound(b)
  BY <1>4, <1>6, StillBound
<1> QED BY <1>2, <1>7, InnermostBound DEF b, m, g

(* A body of a forward leaves every binding where it was. *)
LEMMA DefineForwardBodyBound ==
  ASSUME NEW P, NEW scs \in Seq(Scope(P)), scs # << >>, ScopesBound(scs),
         NEW k \in 1 .. Len(scs[Len(scs)].forwards)
  PROVE  ScopesBound(Resolve(scs, k))
<1> DEFINE g == Resolve(scs, k)
           m == Len(scs)
           a == scs[m]
           b == g[m]
<1>1. m \in Nat \ {0} /\ m \in 1 .. Len(scs)
  OBVIOUS
<1>2. /\ Len(g) = m
      /\ b.vars = a.vars
      /\ \A i \in 1 .. m - 1 : g[i] = scs[i]
      /\ Len(b.forwards) = Len(a.forwards)
      /\ \A j \in 1 .. Len(a.forwards) : /\ b.forwards[j].name = a.forwards[j].name
                                         /\ b.forwards[j].type = a.forwards[j].type
  <2>1. ResolvedAt(scs, k, g)
    BY DefineForwardBodyAt
  <2> HIDE DEF g
  <2> QED BY <1>1, <2>1 DEF ResolvedAt
<1>3. Len(a.vars) \in Nat
  BY <1>1, ScopeTyped
<1>4. StubsBound(a)
  BY <1>1 DEF ScopesBound
<1> HIDE DEF g, m, a, b
<1>6. KeepsBinding(a, b)
  BY <1>2, <1>3 DEF KeepsBinding
<1>7. StubsBound(b)
  BY <1>4, <1>6, StillBound
<1> QED BY <1>2, <1>7, InnermostBound DEF b, m, g

(* A stub of a new name is bound with its own type.                        *)
LEMMA DeclareStubBound ==
  ASSUME NEW P, NEW scs \in Seq(Scope(P)), scs # << >>, ScopesBound(scs),
         NEW n \in Name, NEW t \in P, NEW id \in Nat, ~DuplicateVar(scs, n)
  PROVE  ScopesBound(DefineVar(DefineForward(scs, n, t, id), n, t))
<1> DEFINE mid == DefineForward(scs, n, t, id)
           g == DefineVar(mid, n, t)
           m == Len(scs)
           e == NameEntry(n, t)
           f == StubEntry(n, t, id)
           a == scs[m]
           b == g[m]
           vs == a.vars
           fs == a.forwards
<1>1. m \in Nat \ {0} /\ m \in 1 .. Len(scs)
  OBVIOUS
<1>2. /\ vs \in Seq(VarEntry(P)) /\ Len(vs) \in Nat /\ DOMAIN vs = 1 .. Len(vs)
      /\ fs \in Seq(ForwardEntry(P)) /\ Len(fs) \in Nat
  BY <1>1, ScopeTyped
<1>3. /\ Len(mid) = m /\ mid[m].vars = vs /\ mid[m].forwards = Append(fs, f)
      /\ \A i \in 1 .. m - 1 : mid[i] = scs[i]
  BY <1>1, DefineForwardAt
<1>4. mid \in Seq(Scope(P)) /\ mid # << >>
  BY DefineForwardOK
<1>5. StubsBound(a)
  BY <1>1 DEF ScopesBound
<1>6. \A i \in 1 .. Len(vs) : vs[i].name # n
  BY <1>2 DEF DuplicateVar, ToSet
<1> HIDE DEF mid
<1>7. /\ Len(g) = m /\ b.forwards = Append(fs, f) /\ b.vars = Append(vs, e)
      /\ \A i \in 1 .. m - 1 : g[i] = scs[i]
  <2>1. /\ Len(g) = Len(mid)
        /\ \A i \in 1 .. Len(mid) : g[i].forwards = mid[i].forwards
        /\ \A i \in 1 .. Len(mid) - 1 : g[i] = mid[i]
        /\ g[Len(mid)].vars = Append(mid[Len(mid)].vars, e)
    BY <1>4, DefineVarAt
  <2> HIDE DEF g, e, f, vs, fs, m
  <2>2. g[m].forwards = Append(fs, f) /\ g[m].vars = Append(vs, e)
    BY <1>1, <1>3, <2>1 DEF m
  <2> QED BY <1>3, <2>1, <2>2
<1>8. f.name = n /\ f.type = t /\ e.name = n /\ e.type = t
  BY DEF NameEntry, StubEntry
<1> HIDE DEF g, m, e, f, b, vs, fs
<1>9. /\ Len(b.vars) = Len(vs) + 1 /\ b.vars[Len(vs) + 1] = e
      /\ \A i \in 1 .. Len(vs) : b.vars[i] = vs[i]
      /\ Len(b.forwards) = Len(fs) + 1 /\ b.forwards[Len(fs) + 1] = f
      /\ \A i \in 1 .. Len(fs) : b.forwards[i] = fs[i]
  BY <1>2, <1>7
<1>10. \A j \in 1 .. Len(fs) : \E i \in 1 .. Len(vs) :
         /\ vs[i].name = fs[j].name
         /\ vs[i].type = fs[j].type
         /\ \A l \in 1 .. i - 1 : vs[l].name # fs[j].name
  BY <1>5 DEF StubsBound, vs, fs
<1>11. StubsBound(b)
  <2> SUFFICES ASSUME NEW j \in 1 .. Len(b.forwards)
               PROVE  \E i \in 1 .. Len(b.vars) :
                        /\ b.vars[i].name = b.forwards[j].name
                        /\ b.vars[i].type = b.forwards[j].type
                        /\ \A l \in 1 .. i - 1 : b.vars[l].name # b.forwards[j].name
    BY DEF StubsBound
  <2>1. CASE j \in 1 .. Len(fs)
    <3>1. PICK i \in 1 .. Len(vs) :
            /\ vs[i].name = fs[j].name
            /\ vs[i].type = fs[j].type
            /\ \A l \in 1 .. i - 1 : vs[l].name # fs[j].name
      BY <1>10, <2>1
    <3>2. i \in 1 .. Len(b.vars) /\ \A l \in 1 .. i - 1 : l \in 1 .. Len(vs)
      BY <1>2, <1>9
    <3> QED BY <1>9, <2>1, <3>1, <3>2
  <2>2. CASE j = Len(fs) + 1
    <3> DEFINE i == Len(vs) + 1
    <3>1. i \in 1 .. Len(b.vars) /\ \A l \in 1 .. i - 1 : l \in 1 .. Len(vs)
      BY <1>2, <1>9
    <3>2. /\ b.vars[i].name = n /\ b.vars[i].type = t
          /\ b.forwards[j].name = n /\ b.forwards[j].type = t
      BY <1>8, <1>9, <2>2
    <3>3. \A l \in 1 .. i - 1 : b.vars[l].name # n
      BY <1>6, <1>9, <3>1
    <3> HIDE DEF i
    <3> QED BY <3>1, <3>2, <3>3
  <2>3. j \in 1 .. Len(fs) + 1
    BY <1>9
  <2> HIDE DEF a
  <2>4. j \in 1 .. Len(fs) \/ j = Len(fs) + 1
    BY <1>2, <2>3
  <2> QED BY <2>1, <2>2, <2>4
<1>12. ScopesBound(g)
  BY <1>7, <1>11, InnermostBound DEF b, m
<1> QED BY <1>12 DEF g, mid

(* No step unbinds a stub or binds a variable of its name before it.       *)
LEMMA StubNamesStep ==
  ASSUME IInv, IInv', [Next]_vars, ScopesBound(scopes)
  PROVE  ScopesBound(scopes)'
<1> DEFINE m == Len(scopes)
<1>1. /\ scopes \in Seq(Scope(Pointer)) /\ scopes # << >> /\ m \in Nat \ {0}
      /\ bodies \in Seq(Nat)
  BY DEF IInv, TypeOK, ContextTypeOK
<1> SUFFICES ScopesBound(scopes')
  BY DEF ScopesBound, StubsBound
<1>2. CASE KeepsScopes
  BY <1>2 DEF KeepsScopes
<1>3. CASE OpensScope
  <2>1. scopes' = Append(scopes, NewScope)
    BY <1>3 DEF OpensScope, PushScope
  <2>2. Len(scopes') = m + 1 /\ scopes'[m + 1] = NewScope /\ \A i \in 1 .. m : scopes'[i] = scopes[i]
    BY <1>1, <2>1
  <2>3. StubsBound(NewScope)
    BY DEF StubsBound, NewScope
  <2>4. \A i \in 1 .. m + 1 : i \in 1 .. m \/ i = m + 1
    BY <1>1
  <2> QED BY <2>2, <2>3, <2>4 DEF ScopesBound
<1>4. CASE ClosesScope
  <2>1. /\ Len(scopes') = m - 1
        /\ \A i \in 1 .. m - 1 : scopes'[i] = scopes[i]
    BY <1>1, <1>4, FrontFacts DEF ClosesScope
  <2> QED BY <1>1, <2>1 DEF ScopesBound
<1>5. CASE BindsName
  BY <1>1, <1>5, DefineVarBound DEF BindsName
<1>6. CASE RebindsName
  <2>1. \A j \in 1 .. Len(scopes[m].forwards) : scopes[m].forwards[j].name # Top.name
    BY <1>1, <1>6, ForwardFound DEF RebindsName
  <2>2. scopes' = UpdateVar(scopes, Top.name, value.type)
    BY <1>6 DEF RebindsName
  <2> QED BY <1>1, <2>1, <2>2, UpdateVarBound
<1>7. CASE GivesBody
  <2>1. PICK n \in Name : LookupForward(n) # 0 /\ scopes' = DefineForwardBody(LookupForward(n))
    BY <1>7 DEF GivesBody
  <2>2. PICK k \in 1 .. Len(scopes[m].forwards) : k = LookupForward(n)
    BY <1>1, <2>1, ForwardFound
  <2>3. scopes' = Resolve(scopes, k)
    BY <2>1, <2>2 DEF DefineForwardBody, Resolve
  <2> QED BY <1>1, <2>3, DefineForwardBodyBound
<1>8. CASE DeclaresStub
  <2>1. PICK n \in Name, t \in Pointer :
          /\ ~DuplicateVar(scopes, n)
          /\ scopes' = DefineVar(DefineForward(scopes, n, t, Len(bodies) + 1), n, t)
    BY <1>8 DEF DeclaresStub
  <2>2. Len(bodies) + 1 \in Nat
    BY <1>1
  <2> QED BY <1>1, <2>1, <2>2, DeclareStubBound
<1> QED BY <1>2, <1>3, <1>4, <1>5, <1>6, <1>7, <1>8, ScopeShapes

(* Whatever is declared after it, and whatever its body is, a call of a    *)
(* $forward stub in its scope has the stub's type: a declaration of the    *)
(* same name gives the stub its body and binds no name, and a declared     *)
(* function rebinds only a name without a stub (inference.c, DECL).        *)
THEOREM CallsOfStubs == Spec => []CallsSeeStubType
<1>1. Init => ScopesBound(scopes)
  <2> SUFFICES ASSUME Init PROVE ScopesBound(scopes)
    OBVIOUS
  <2>1. scopes = << NewScope >>
    BY DEF Init, ContextInit
  <2>2. \A i \in 1 .. Len(scopes) : scopes[i] = NewScope
    BY <2>1
  <2>3. StubsBound(NewScope)
    BY DEF StubsBound, NewScope
  <2> QED BY <2>2, <2>3 DEF ScopesBound
<1>2. ScopesBound(scopes) /\ IInv /\ IInv' /\ [Next]_vars => ScopesBound(scopes)'
  BY StubNamesStep
<1>3. ScopesBound(scopes) /\ IInv => CallsSeeStubType
  <2> SUFFICES ASSUME ScopesBound(scopes), IInv, NEW sc \in ToSet(scopes), NEW f \in ToSet(sc.forwards)
               PROVE  sc.vars[SelectInSeq(sc.vars, LAMBDA v : v.name = f.name)].type = f.type
    BY DEF CallsSeeStubType
  <2>1. PICK s \in 1 .. Len(scopes) : sc = scopes[s]
    BY DEF ToSet, IInv, TypeOK, ContextTypeOK
  <2>2. /\ sc.vars \in Seq(VarEntry(Pointer)) /\ Len(sc.vars) \in Nat
        /\ DOMAIN sc.forwards = 1 .. Len(sc.forwards) /\ StubsBound(sc)
    BY <2>1, ScopeTyped DEF ScopesBound, IInv, TypeOK, ContextTypeOK
  <2>3. PICK j \in 1 .. Len(sc.forwards) : f = sc.forwards[j]
    BY <2>2 DEF ToSet
  <2>4. PICK i \in 1 .. Len(sc.vars) :
          /\ sc.vars[i].name = f.name /\ sc.vars[i].type = f.type
          /\ \A l \in 1 .. i - 1 : sc.vars[l].name # f.name
    BY <2>2, <2>3 DEF StubsBound
  <2>5. \A k : k = FirstOf(sc.vars, f.name) => k = i
    <3> TAKE k
    <3> HAVE k = FirstOf(sc.vars, f.name)
    <3>1. /\ k \in 0 .. Len(sc.vars)
          /\ k = 0 => \A l \in 1 .. Len(sc.vars) : sc.vars[l].name # f.name
          /\ k # 0 => sc.vars[k].name = f.name /\ \A l \in 1 .. k - 1 : sc.vars[l].name # f.name
      BY <2>2, FirstNamed
    <3>2. k # 0
      BY <2>4, <3>1
    <3>3. k < i => k \in 1 .. i - 1
      BY <2>2, <3>1, <3>2
    <3>4. i < k => i \in 1 .. k - 1
      BY <2>2, <3>1, <3>2
    <3>5. ~ (k < i) /\ ~ (i < k)
      BY <2>4, <3>1, <3>2, <3>3, <3>4
    <3> QED BY <2>2, <3>1, <3>5
  <2> QED BY <2>4, <2>5 DEF FirstOf
<1> QED BY <1>1, <1>2, <1>3, InitEstablishes, StepKeepsInvariant, PTL DEF Spec

-----------------------------------------------------------------------------
(* Names that are settled *)

(* Entries keep their place and their type. *)
EntriesKept(scs, g) ==
  \A s \in 1 .. Len(scs) : \A v \in 1 .. Len(scs[s].vars) : g[s].vars[v] = scs[s].vars[v]

(* A new variable leaves every entry in its place. *)
LEMMA DefineVarKeeps ==
  ASSUME NEW P, NEW scs \in Seq(Scope(P)), scs # << >>, NEW n, NEW t
  PROVE  EntriesKept(scs, DefineVar(scs, n, t))
<1> DEFINE g == DefineVar(scs, n, t)
           m == Len(scs)
<1> SUFFICES ASSUME NEW s \in 1 .. m, NEW v \in 1 .. Len(scs[s].vars)
             PROVE  g[s].vars[v] = scs[s].vars[v]
  BY DEF EntriesKept
<1>1. m \in Nat \ {0}
  OBVIOUS
<1>2. /\ \A i \in 1 .. m - 1 : g[i] = scs[i]
      /\ g[m].vars = Append(scs[m].vars, NameEntry(n, t))
  BY DefineVarAt
<1>3. CASE s # m
  <2>1. s \in 1 .. m - 1
    BY <1>1, <1>3
  <2> QED BY <1>2, <2>1
<1>4. CASE s = m
  <2> DEFINE vs == scs[m].vars
             e == NameEntry(n, t)
  <2>1. vs \in Seq(VarEntry(P)) /\ v \in 1 .. Len(vs) /\ g[m].vars = Append(vs, e)
    BY <1>2, <1>4, ScopeTyped
  <2> HIDE DEF vs, e, g, m
  <2>2. g[m].vars[v] = vs[v]
    BY <2>1
  <2> QED BY <1>4, <2>2 DEF vs
<1> QED BY <1>3, <1>4

(* So does a new stub. *)
LEMMA DeclareStubKeeps ==
  ASSUME NEW P, NEW scs \in Seq(Scope(P)), scs # << >>,
         NEW n \in Name, NEW t \in P, NEW id \in Nat
  PROVE  EntriesKept(scs, DefineVar(DefineForward(scs, n, t, id), n, t))
<1> DEFINE mid == DefineForward(scs, n, t, id)
<1>1. mid \in Seq(Scope(P)) /\ mid # << >>
  BY DefineForwardOK
<1>2. Len(mid) = Len(scs) /\ \A i \in 1 .. Len(scs) : mid[i].vars = scs[i].vars
  BY DefineForwardAt
<1> HIDE DEF mid
<1>3. EntriesKept(mid, DefineVar(mid, n, t))
  BY <1>1, DefineVarKeeps
<1>4. EntriesKept(scs, DefineVar(mid, n, t))
  BY <1>2, <1>3 DEF EntriesKept
<1> QED BY <1>4 DEF mid

(* Only a declaration that supplies a function changes the type of a name  *)
(* already declared in its scope, whatever the program: every other step   *)
(* adds entries behind those there are, resolves a stub, or opens or       *)
(* closes a scope (type_context_define_var, type_context_update_var).      *)
THEOREM NamesKept == Spec => NamesKeepTheirType
<1> DEFINE Kept == Len(scopes') >= Len(scopes) =>
        \A s \in DOMAIN scopes : \A v \in DOMAIN scopes[s].vars :
          scopes'[s].vars[v] = scopes[s].vars[v] \/ DefinesFunc
<1>1. ASSUME IInv, IInv', [Next]_vars
      PROVE  Kept
  <2>1. scopes \in Seq(Scope(Pointer)) /\ scopes # << >> /\ bodies \in Seq(Nat)
    BY <1>1 DEF IInv, TypeOK, ContextTypeOK
  <2>2. ASSUME EntriesKept(scopes, scopes')
        PROVE  Kept
    <3> SUFFICES ASSUME NEW s \in DOMAIN scopes, NEW v \in DOMAIN scopes[s].vars
                 PROVE  scopes'[s].vars[v] = scopes[s].vars[v]
      OBVIOUS
    <3>1. s \in 1 .. Len(scopes)
      BY <2>1
    <3>2. v \in 1 .. Len(scopes[s].vars)
      BY <2>1, <3>1, ScopeTyped
    <3> QED BY <2>2, <3>1, <3>2 DEF EntriesKept
  <2>3. CASE KeepsScopes \/ OpensScope
    <3>1. scopes' = scopes \/ scopes' = Append(scopes, NewScope)
      BY <2>3 DEF KeepsScopes, OpensScope, PushScope
    <3>2. \A s \in 1 .. Len(scopes) : scopes'[s] = scopes[s]
      BY <2>1, <3>1
    <3> QED BY <2>2, <3>2 DEF EntriesKept
  <2>4. CASE ClosesScope
    <3>1. Len(scopes') = Len(scopes) - 1 /\ Len(scopes) \in Nat
      BY <2>1, <2>4, FrontFacts DEF ClosesScope
    <3> QED BY <3>1
  <2>5. CASE BindsName
    BY <2>1, <2>2, <2>5, DefineVarKeeps DEF BindsName
  <2>6. CASE RebindsName
    BY <2>6 DEF RebindsName
  <2>7. CASE GivesBody
    <3>1. PICK n \in Name : LookupForward(n) # 0 /\ scopes' = DefineForwardBody(LookupForward(n))
      BY <2>7 DEF GivesBody
    <3>2. PICK k \in 1 .. Len(scopes[Len(scopes)].forwards) : k = LookupForward(n)
      BY <2>1, <3>1, ForwardFound
    <3>3. scopes' = Resolve(scopes, k)
      BY <3>1, <3>2 DEF DefineForwardBody, Resolve
    <3>4. ResolvedAt(scopes, k, scopes')
      BY <2>1, <3>3, DefineForwardBodyAt
    <3> QED BY <2>2, <3>4 DEF EntriesKept, ResolvedAt
  <2>8. CASE DeclaresStub
    <3>1. PICK n \in Name, t \in Pointer :
            scopes' = DefineVar(DefineForward(scopes, n, t, Len(bodies) + 1), n, t)
      BY <2>8 DEF DeclaresStub
    <3>2. Len(bodies) + 1 \in Nat
      BY <2>1
    <3> QED BY <2>1, <2>2, <3>1, <3>2, DeclareStubKeeps
  <2> HIDE DEF Kept
  <2> QED BY <1>1, <2>3, <2>4, <2>5, <2>6, <2>7, <2>8, ScopeShapes
<1> QED BY <1>1, InitEstablishes, StepKeepsInvariant, PTL DEF Spec, NamesKeepTheirType

-----------------------------------------------------------------------------
(* Stubs and their bodies *)

(* There is a j-th stub in the i-th scope, which stub of the program it is *)
(* and whether it has its body.                                            *)
IsPlace(scs, i, j) == i \in 1 .. Len(scs) /\ j \in 1 .. Len(scs[i].forwards)
StubAt(scs, i, j) == scs[i].forwards[j].stub
ResolvedPlace(scs, i, j) == scs[i].forwards[j].resolved

(* A stub of a scope has got no report, and one body if it is resolved.    *)
StubCounts(scs, b, r) ==
  \A i, j : IsPlace(scs, i, j) =>
    /\ StubAt(scs, i, j) \in 1 .. Len(b)
    /\ r[StubAt(scs, i, j)] = 0
    /\ b[StubAt(scs, i, j)] = IF ResolvedPlace(scs, i, j) THEN 1 ELSE 0

(* It has one place. *)
StubsDistinct(scs) ==
  \A i, j, k, l :
    IsPlace(scs, i, j) /\ IsPlace(scs, k, l) /\ StubAt(scs, i, j) = StubAt(scs, k, l) =>
      i = k /\ j = l

InScopes(scs, s) == \E i, j : IsPlace(scs, i, j) /\ StubAt(scs, i, j) = s

(* A stub of no scope has been settled. *)
ClosedSettled(scs, b, r) == \A s \in 1 .. Len(b) : InScopes(scs, s) \/ b[s] + r[s] = 1

StubsOK(scs, b, r) ==
  /\ b \in Seq(Nat) /\ r \in Seq(Nat) /\ Len(r) = Len(b)
  /\ StubCounts(scs, b, r)
  /\ StubsDistinct(scs)
  /\ ClosedSettled(scs, b, r)

(* Scopes with the same stubs in the same places. *)
SameStubs(scs, g) ==
  \A i, j : /\ IsPlace(g, i, j) <=> IsPlace(scs, i, j)
            /\ IsPlace(scs, i, j) => /\ StubAt(g, i, j) = StubAt(scs, i, j)
                                     /\ ResolvedPlace(g, i, j) = ResolvedPlace(scs, i, j)

(* Stubs and the errors about them, when neither changes. *)
LEMMA SameStubsOK ==
  ASSUME NEW scs, NEW g, NEW b, NEW r, SameStubs(scs, g), StubsOK(scs, b, r)
  PROVE  StubsOK(g, b, r)
<1>1. StubCounts(g, b, r)
  BY DEF StubsOK, StubCounts, SameStubs
<1>2. StubsDistinct(g)
  BY DEF StubsOK, StubsDistinct, SameStubs
<1>3. ClosedSettled(g, b, r)
  BY DEF StubsOK, ClosedSettled, InScopes, SameStubs
<1> QED BY <1>1, <1>2, <1>3 DEF StubsOK

(* type_context_pop_scope reports the stubs without a body.                *)
LEMMA ClosedStubsOK ==
  ASSUME NEW P, NEW scs \in Seq(Scope(P)), NEW g, NEW b, NEW r, NEW q,
         Len(scs) > 1, StubsOK(scs, b, r),
         Len(g) = Len(scs) - 1, \A i \in 1 .. Len(scs) - 1 : g[i] = scs[i],
         q = [s \in DOMAIN r |-> IF s \in ReportedOnPop(scs[Len(scs)]) THEN r[s] + 1 ELSE r[s]]
  PROVE  StubsOK(g, b, q)
<1> DEFINE m == Len(scs)
           fs == scs[m].forwards
           R == ReportedOnPop(scs[m])
<1>1. m \in Nat /\ m > 1
  OBVIOUS
<1>2. Len(fs) \in Nat /\ DOMAIN fs = 1 .. Len(fs)
  BY <1>1, ScopeTyped
<1>3. \A s : s \in R <=> \E j : IsPlace(scs, m, j) /\ ~ResolvedPlace(scs, m, j) /\ StubAt(scs, m, j) = s
  <2>1. \A s : s \in R <=> \E j \in 1 .. Len(fs) : ~fs[j].resolved /\ fs[j].stub = s
    BY <1>2 DEF ReportedOnPop, ToSet
  <2>2. m \in 1 .. m
    BY <1>1
  <2> HIDE DEF R
  <2> QED BY <2>1, <2>2 DEF IsPlace, StubAt, ResolvedPlace
<1>4. b \in Seq(Nat) /\ r \in Seq(Nat) /\ Len(r) = Len(b)
  BY DEF StubsOK
<1>5. /\ q \in Seq(Nat) /\ Len(q) = Len(b)
      /\ \A s \in 1 .. Len(b) : q[s] = IF s \in R THEN r[s] + 1 ELSE r[s]
  <2> HIDE DEF R
  <2>1. q = [s \in 1 .. Len(b) |-> IF s \in R THEN r[s] + 1 ELSE r[s]]
    BY <1>4 DEF R
  <2>2. \A s \in 1 .. Len(b) : (IF s \in R THEN r[s] + 1 ELSE r[s]) \in Nat
    BY <1>4
  <2>3. Len(b) \in Nat
    BY <1>4
  <2> QED BY <2>1, <2>2, <2>3
<1> HIDE DEF fs, R
<1>6. \A i, j : /\ IsPlace(g, i, j) <=> IsPlace(scs, i, j) /\ i # m
                /\ IsPlace(g, i, j) => /\ StubAt(g, i, j) = StubAt(scs, i, j)
                                       /\ ResolvedPlace(g, i, j) = ResolvedPlace(scs, i, j)
  <2> HIDE DEF m
  <2>1. \A i : i \in 1 .. m - 1 <=> i \in 1 .. m /\ i # m
    BY <1>1
  <2> QED BY <2>1 DEF IsPlace, StubAt, ResolvedPlace, m
<1> HIDE DEF m
<1>7. \A i, j : IsPlace(g, i, j) => StubAt(g, i, j) \notin R
  BY <1>3, <1>6 DEF StubsOK, StubsDistinct
<1>8. StubCounts(g, b, q)
  <2> SUFFICES ASSUME NEW i, NEW j, IsPlace(g, i, j)
               PROVE  /\ StubAt(g, i, j) \in 1 .. Len(b)
                      /\ q[StubAt(g, i, j)] = 0
                      /\ b[StubAt(g, i, j)] = IF ResolvedPlace(g, i, j) THEN 1 ELSE 0
    BY DEF StubCounts
  <2>1. /\ StubAt(g, i, j) \in 1 .. Len(b)
        /\ r[StubAt(g, i, j)] = 0
        /\ b[StubAt(g, i, j)] = IF ResolvedPlace(g, i, j) THEN 1 ELSE 0
    BY <1>6 DEF StubsOK, StubCounts
  <2> QED BY <1>5, <1>7, <2>1
<1>9. StubsDistinct(g)
  BY <1>6 DEF StubsOK, StubsDistinct
<1>10. ClosedSettled(g, b, q)
  <2> SUFFICES ASSUME NEW s \in 1 .. Len(b), ~InScopes(g, s)
               PROVE  b[s] + q[s] = 1
    BY DEF ClosedSettled
  <2>0. b[s] \in Nat /\ r[s] \in Nat
    BY <1>4
  <2>1. CASE InScopes(scs, s)
    <3>1. PICK j : IsPlace(scs, m, j) /\ StubAt(scs, m, j) = s
      BY <1>6, <2>1 DEF InScopes
    <3>2. r[s] = 0 /\ b[s] = IF ResolvedPlace(scs, m, j) THEN 1 ELSE 0
      BY <3>1 DEF StubsOK, StubCounts
    <3>3. s \in R <=> ~ResolvedPlace(scs, m, j)
      BY <1>3, <3>1 DEF StubsOK, StubsDistinct
    <3>4. r[s] = 0 /\ q[s] = IF s \in R THEN r[s] + 1 ELSE r[s]
      BY <1>5, <3>2
    <3>5. CASE s \in R
      <4>1. b[s] = 0 /\ q[s] = 1
        BY <3>2, <3>3, <3>4, <3>5
      <4> QED BY <4>1
    <3>6. CASE s \notin R
      <4>1. b[s] = 1 /\ q[s] = 0
        BY <3>2, <3>3, <3>4, <3>6
      <4> QED BY <4>1
    <3> QED BY <3>5, <3>6
  <2>2. CASE ~InScopes(scs, s)
    <3>1. b[s] + r[s] = 1
      BY <2>2 DEF StubsOK, ClosedSettled
    <3>2. s \notin R
      BY <1>3, <2>2 DEF InScopes
    <3> QED BY <1>5, <3>1, <3>2
  <2> QED BY <2>1, <2>2
<1> QED BY <1>4, <1>5, <1>8, <1>9, <1>10 DEF StubsOK

(* A stub that had no body gets one.                                       *)
LEMMA ResolvedStubsOK ==
  ASSUME NEW P, NEW scs \in Seq(Scope(P)), scs # << >>, NEW b, NEW r, NEW g, NEW c,
         NEW k \in 1 .. Len(scs[Len(scs)].forwards),
         StubsOK(scs, b, r), ResolvedAt(scs, k, g), ~scs[Len(scs)].forwards[k].resolved,
         c = [b EXCEPT ![StubAt(scs, Len(scs), k)] = @ + 1]
  PROVE  StubsOK(g, c, r)
<1> DEFINE m == Len(scs)
           x == StubAt(scs, m, k)
<1>1. m \in Nat \ {0} /\ m \in 1 .. m
  OBVIOUS
<1>2. b \in Seq(Nat) /\ r \in Seq(Nat) /\ Len(r) = Len(b)
  BY DEF StubsOK
<1>3. IsPlace(scs, m, k) /\ ~ResolvedPlace(scs, m, k)
  BY <1>1 DEF IsPlace, ResolvedPlace
<1>4. x \in 1 .. Len(b) /\ r[x] = 0 /\ b[x] = 0
  BY <1>3 DEF StubsOK, StubCounts
<1>5. c \in Seq(Nat) /\ Len(c) = Len(b) /\ c[x] = 1 /\ \A s \in 1 .. Len(b) : s # x => c[s] = b[s]
  <2> HIDE DEF x
  <2>1. c = [b EXCEPT ![x] = @ + 1]
    BY DEF x
  <2> QED BY <1>2, <1>4, <2>1
<1>6. \A i, j : /\ IsPlace(g, i, j) <=> IsPlace(scs, i, j)
                /\ IsPlace(scs, i, j) => StubAt(g, i, j) = StubAt(scs, i, j)
  <2> DEFINE fs == scs[m].forwards
             hs == g[m].forwards
  <2>1. /\ Len(g) = m
        /\ \A i \in 1 .. m - 1 : g[i] = scs[i]
        /\ Len(hs) = Len(fs)
        /\ \A j \in 1 .. Len(fs) : hs[j].stub = fs[j].stub
    BY DEF ResolvedAt
  <2> HIDE DEF m
  <2>2. \A i \in 1 .. m : i = m \/ i \in 1 .. m - 1
    BY <1>1
  <2>3. \A i \in 1 .. m : i = m \/ g[i] = scs[i]
    BY <2>1, <2>2
  <2> SUFFICES ASSUME NEW i, NEW j
               PROVE  /\ IsPlace(g, i, j) <=> IsPlace(scs, i, j)
                      /\ IsPlace(scs, i, j) => StubAt(g, i, j) = StubAt(scs, i, j)
    OBVIOUS
  <2>4. CASE i = m
    BY <2>1, <2>4 DEF IsPlace, StubAt, m
  <2>5. CASE i # m
    BY <2>1, <2>3, <2>5 DEF IsPlace, StubAt, m
  <2> QED BY <2>4, <2>5
<1>7. \A i, j : IsPlace(scs, i, j) =>
        ResolvedPlace(g, i, j) = IF i = m /\ j = k THEN TRUE ELSE ResolvedPlace(scs, i, j)
  <2> DEFINE fs == scs[m].forwards
             hs == g[m].forwards
  <2>1. /\ \A i \in 1 .. m - 1 : g[i] = scs[i]
        /\ hs[k].resolved = TRUE
        /\ \A j \in 1 .. Len(fs) : j # k => hs[j] = fs[j]
    BY DEF ResolvedAt
  <2> HIDE DEF m
  <2>2. \A i \in 1 .. m : i = m \/ i \in 1 .. m - 1
    BY <1>1
  <2>3. \A i \in 1 .. m : i = m \/ g[i] = scs[i]
    BY <2>1, <2>2
  <2> SUFFICES ASSUME NEW i \in 1 .. m, NEW j \in 1 .. Len(scs[i].forwards)
               PROVE  g[i].forwards[j].resolved =
                        IF i = m /\ j = k THEN TRUE ELSE scs[i].forwards[j].resolved
    BY DEF IsPlace, ResolvedPlace, m
  <2>4. CASE i = m /\ j = k
    BY <2>1, <2>4
  <2>5. CASE i = m /\ j # k
    BY <2>1, <2>5
  <2>6. CASE i # m
    BY <2>3, <2>6
  <2> QED BY <2>4, <2>5, <2>6
<1> HIDE DEF m, x
<1>8. StubCounts(g, c, r)
  <2> SUFFICES ASSUME NEW i, NEW j, IsPlace(scs, i, j)
               PROVE  /\ StubAt(scs, i, j) \in 1 .. Len(b)
                      /\ r[StubAt(scs, i, j)] = 0
                      /\ c[StubAt(scs, i, j)] = IF ResolvedPlace(g, i, j) THEN 1 ELSE 0
    BY <1>5, <1>6 DEF StubCounts
  <2>1. /\ StubAt(scs, i, j) \in 1 .. Len(b)
        /\ r[StubAt(scs, i, j)] = 0
        /\ b[StubAt(scs, i, j)] = IF ResolvedPlace(scs, i, j) THEN 1 ELSE 0
    BY DEF StubsOK, StubCounts
  <2>2. CASE i = m /\ j = k
    <3>1. StubAt(scs, i, j) = x /\ ResolvedPlace(g, i, j)
      BY <1>7, <2>2 DEF x
    <3> QED BY <1>5, <2>1, <3>1
  <2>3. CASE ~ (i = m /\ j = k)
    <3>1. ResolvedPlace(g, i, j) = ResolvedPlace(scs, i, j)
      BY <1>7, <2>3
    <3>2. StubAt(scs, i, j) # x
      BY <1>3, <2>3 DEF StubsOK, StubsDistinct, x
    <3>3. c[StubAt(scs, i, j)] = b[StubAt(scs, i, j)]
      BY <1>5, <2>1, <3>2
    <3> QED BY <2>1, <3>1, <3>3
  <2> QED BY <2>2, <2>3
<1>9. StubsDistinct(g)
  BY <1>6 DEF StubsOK, StubsDistinct
<1>10. ClosedSettled(g, c, r)
  <2> SUFFICES ASSUME NEW s \in 1 .. Len(b), ~InScopes(g, s)
               PROVE  c[s] + r[s] = 1
    BY <1>5 DEF ClosedSettled
  <2>1. ~InScopes(scs, s)
    BY <1>6 DEF InScopes
  <2>2. s # x
    BY <1>3, <2>1 DEF InScopes, x
  <2> QED BY <1>5, <2>1, <2>2 DEF StubsOK, ClosedSettled
<1> QED BY <1>2, <1>5, <1>8, <1>9, <1>10 DEF StubsOK

(* A new stub has no body and no report.                                   *)
LEMMA DeclaredStubsOK ==
  ASSUME NEW P, NEW scs \in Seq(Scope(P)), scs # << >>, NEW b, NEW r,
         NEW n \in Name, NEW t \in P, StubsOK(scs, b, r)
  PROVE  StubsOK(DefineVar(DefineForward(scs, n, t, Len(b) + 1), n, t), Append(b, 0), Append(r, 0))
<1> DEFINE m == Len(scs)
           x == Len(b) + 1
           mid == DefineForward(scs, n, t, x)
           g == DefineVar(mid, n, t)
           e == StubEntry(n, t, x)
           fs == scs[m].forwards
           y == Len(fs) + 1
           c == Append(b, 0)
           q == Append(r, 0)
<1>1. m \in Nat \ {0} /\ m \in 1 .. m
  OBVIOUS
<1>2. b \in Seq(Nat) /\ r \in Seq(Nat) /\ Len(r) = Len(b) /\ x \in Nat
  BY DEF StubsOK
<1>3. fs \in Seq(ForwardEntry(P)) /\ Len(fs) \in Nat
  BY <1>1, ScopeTyped
<1>4. mid \in Seq(Scope(P)) /\ mid # << >>
  <2> HIDE DEF x
  <2> QED BY <1>2, DefineForwardOK
<1>5. /\ Len(mid) = m
      /\ \A i \in 1 .. m - 1 : mid[i] = scs[i]
      /\ mid[m].forwards = Append(fs, e)
  <2> HIDE DEF x
  <2> QED BY DefineForwardAt
<1> HIDE DEF mid
<1>6. Len(g) = m /\ \A i \in 1 .. m : g[i].forwards = mid[i].forwards
  BY <1>4, <1>5, DefineVarAt
<1>7. e.stub = x /\ e.resolved = FALSE
  BY DEF StubEntry
<1> HIDE DEF g, e
<1>8. g[m].forwards = Append(fs, e) /\ \A i \in 1 .. m - 1 : g[i].forwards = scs[i].forwards
  <2> HIDE DEF m
  <2>1. \A i \in 1 .. m - 1 : i \in 1 .. m
    BY <1>1
  <2> QED BY <1>1, <1>5, <1>6, <2>1
<1> HIDE DEF m, fs
<1>9. /\ Len(g[m].forwards) = y /\ g[m].forwards[y] = e
      /\ \A j \in 1 .. Len(fs) : g[m].forwards[j] = fs[j]
  BY <1>3, <1>8
<1>10. \A j : j \in 1 .. y <=> j \in 1 .. Len(fs) \/ j = y
  BY <1>3
<1>11. y \notin 1 .. Len(fs)
  BY <1>3
<1> HIDE DEF y
<1>12. \A i \in 1 .. m : i = m \/ i \in 1 .. m - 1
  BY <1>1
<1>13. \A i, j : IsPlace(g, i, j) <=> IsPlace(scs, i, j) \/ (i = m /\ j = y)
  <2> SUFFICES ASSUME NEW i, NEW j
               PROVE  IsPlace(g, i, j) <=> IsPlace(scs, i, j) \/ (i = m /\ j = y)
    OBVIOUS
  <2>1. CASE i = m
    BY <1>1, <1>6, <1>9, <1>10, <2>1 DEF IsPlace, m, fs
  <2>2. CASE i # m
    BY <1>6, <1>8, <1>12, <2>2 DEF IsPlace, m
  <2> QED BY <2>1, <2>2
<1>14. \A i, j : IsPlace(scs, i, j) =>
         /\ StubAt(g, i, j) = StubAt(scs, i, j)
         /\ ResolvedPlace(g, i, j) = ResolvedPlace(scs, i, j)
  <2> SUFFICES ASSUME NEW i, NEW j, IsPlace(scs, i, j)
               PROVE  g[i].forwards[j] = scs[i].forwards[j]
    BY DEF StubAt, ResolvedPlace
  <2>1. CASE i = m
    BY <1>9, <2>1 DEF IsPlace, fs
  <2>2. CASE i # m
    BY <1>8, <1>12, <2>2 DEF IsPlace, m
  <2> QED BY <2>1, <2>2
<1>15. StubAt(g, m, y) = x /\ ResolvedPlace(g, m, y) = FALSE
  BY <1>7, <1>9 DEF StubAt, ResolvedPlace
<1>16. ~IsPlace(scs, m, y)
  BY <1>11 DEF IsPlace, fs
<1>17. /\ c \in Seq(Nat) /\ q \in Seq(Nat) /\ Len(c) = x /\ Len(q) = x
       /\ c[x] = 0 /\ q[x] = 0
       /\ \A s \in 1 .. Len(b) : c[s] = b[s] /\ q[s] = r[s] /\ s \in 1 .. x /\ s # x
       /\ \A s \in 1 .. x : s = x \/ s \in 1 .. Len(b)
       /\ x \in 1 .. x
  BY <1>2
<1> HIDE DEF c, q, x
<1>18. StubCounts(g, c, q)
  <2> SUFFICES ASSUME NEW i, NEW j, IsPlace(g, i, j)
               PROVE  /\ StubAt(g, i, j) \in 1 .. Len(c)
                      /\ q[StubAt(g, i, j)] = 0
                      /\ c[StubAt(g, i, j)] = IF ResolvedPlace(g, i, j) THEN 1 ELSE 0
    BY DEF StubCounts
  <2>1. CASE IsPlace(scs, i, j)
    <3>1. /\ StubAt(scs, i, j) \in 1 .. Len(b)
          /\ r[StubAt(scs, i, j)] = 0
          /\ b[StubAt(scs, i, j)] = IF ResolvedPlace(scs, i, j) THEN 1 ELSE 0
      BY <2>1 DEF StubsOK, StubCounts
    <3>2. /\ StubAt(g, i, j) = StubAt(scs, i, j)
          /\ ResolvedPlace(g, i, j) = ResolvedPlace(scs, i, j)
      BY <1>14, <2>1
    <3> QED BY <1>17, <3>1, <3>2
  <2>2. CASE i = m /\ j = y
    <3>1. StubAt(g, i, j) = x /\ ~ResolvedPlace(g, i, j)
      BY <1>15, <2>2
    <3> QED BY <1>17, <3>1
  <2> QED BY <1>13, <2>1, <2>2
<1>19. StubsDistinct(g)
  <2>1. \A i, j : IsPlace(scs, i, j) => StubAt(g, i, j) # x
    BY <1>14, <1>17 DEF StubsOK, StubCounts
  <2>2. StubsDistinct(scs)
    BY DEF StubsOK
  <2> SUFFICES ASSUME NEW i, NEW j, NEW k, NEW l, IsPlace(g, i, j), IsPlace(g, k, l),
                      StubAt(g, i, j) = StubAt(g, k, l)
               PROVE  i = k /\ j = l
    BY DEF StubsDistinct
  <2>3. CASE IsPlace(scs, i, j) /\ IsPlace(scs, k, l)
    BY <1>14, <2>2, <2>3 DEF StubsDistinct
  <2>4. CASE ~IsPlace(scs, i, j)
    BY <1>13, <1>15, <2>1, <2>4
  <2>5. CASE ~IsPlace(scs, k, l)
    BY <1>13, <1>15, <2>1, <2>5
  <2> QED BY <2>3, <2>4, <2>5
<1>20. ClosedSettled(g, c, q)
  <2> SUFFICES ASSUME NEW s \in 1 .. x, ~InScopes(g, s)
               PROVE  c[s] + q[s] = 1
    BY <1>17 DEF ClosedSettled
  <2>1. s # x
    BY <1>13, <1>15 DEF InScopes
  <2>2. s \in 1 .. Len(b) /\ c[s] = b[s] /\ q[s] = r[s]
    BY <1>17, <2>1
  <2>3. ~InScopes(scs, s)
    BY <1>13, <1>14 DEF InScopes
  <2> QED BY <2>2, <2>3 DEF StubsOK, ClosedSettled
<1>21. StubsOK(g, c, q)
  BY <1>17, <1>18, <1>19, <1>20 DEF StubsOK
<1> QED BY <1>21 DEF g, c, q, mid, x

(* The first stub without a body, which the final scan reports.            *)
FirstOpen(s) == SelectInSeq(s, LAMBDA f : ~f.resolved)

(* The stub that the final scan of a scope reports. *)
LEMMA FirstUnresolved ==
  ASSUME NEW S, NEW s \in Seq(S)
  PROVE  /\ FirstOpen(s) \in 0 .. Len(s)
         /\ FirstOpen(s) = 0 => \A i \in 1 .. Len(s) : s[i].resolved
         /\ FirstOpen(s) # 0 => ~s[FirstOpen(s)].resolved
<1> DEFINE I == {i \in 1 .. Len(s) : ~s[i].resolved}
           k == FirstOpen(s)
<1>1. k = IF I # {} THEN Min(I) ELSE 0
  BY DEF FirstOpen, SelectInSeq
<1>2. Len(s) \in Nat /\ I \in SUBSET Nat
  OBVIOUS
<1>3. I # {} => Min(I) \in I
  <2> HIDE DEF I
  <2> QED BY <1>2, MinInSet
<1> HIDE DEF k
<1>4. CASE I = {}
  <2>1. k = 0
    BY <1>1, <1>4
  <2>2. \A i \in 1 .. Len(s) : s[i].resolved
    BY <1>4
  <2> QED BY <1>2, <2>1, <2>2 DEF k
<1>5. CASE I # {}
  <2>1. k \in I
    BY <1>1, <1>3, <1>5
  <2>2. k \in 1 .. Len(s) /\ ~s[k].resolved
    BY <2>1
  <2>3. k \in 0 .. Len(s) /\ k # 0
    BY <1>2, <2>2
  <2> QED BY <2>2, <2>3 DEF k
<1> QED BY <1>4, <1>5

OpenStubs(scs) == UNION {{f.stub : f \in ToSet(sc.forwards)} : sc \in ToSet(scs)}

(* An open stub is the forward of an open scope. *)
LEMMA OpenStubsPlaced ==
  ASSUME NEW P, NEW scs \in Seq(Scope(P))
  PROVE  \A s : s \in OpenStubs(scs) <=> InScopes(scs, s)
<1>1. Len(scs) \in Nat /\ DOMAIN scs = 1 .. Len(scs)
  OBVIOUS
<1>2. \A i \in 1 .. Len(scs) : DOMAIN scs[i].forwards = 1 .. Len(scs[i].forwards)
  BY ScopeTyped
<1> SUFFICES ASSUME NEW s
             PROVE  s \in OpenStubs(scs) <=> InScopes(scs, s)
  OBVIOUS
<1>3. s \in OpenStubs(scs) <=> \E i \in 1 .. Len(scs) : s \in {f.stub : f \in ToSet(scs[i].forwards)}
  BY <1>1 DEF OpenStubs, ToSet
<1>4. \A i \in 1 .. Len(scs) :
        s \in {f.stub : f \in ToSet(scs[i].forwards)} <=>
          \E j \in 1 .. Len(scs[i].forwards) : scs[i].forwards[j].stub = s
  BY <1>2 DEF ToSet
<1> QED BY <1>3, <1>4 DEF InScopes, IsPlace, StubAt

(* While the program is typed each stub of a scope waits for its body or   *)
(* has one, and once it is done nothing happens any more.                  *)
StubsInv ==
  IF pass = "done" THEN mode = "idle" /\ StubsSettledOnce
  ELSE StubsOK(scopes, bodies, reports)

(* A scope that closes settles its stubs and no others. *)
LEMMA StubsCounted ==
  ASSUME IInv, StubsInv
  PROVE  StubsSettledOnce
<1>1. CASE pass = "done"
  BY <1>1 DEF StubsInv
<1>2. CASE pass # "done"
  <2>1. StubsOK(scopes, bodies, reports) /\ scopes \in Seq(Scope(Pointer))
    BY <1>2 DEF StubsInv, IInv, TypeOK, ContextTypeOK
  <2>2. DOMAIN bodies = 1 .. Len(bodies)
    BY <2>1 DEF StubsOK
  <2> SUFFICES ASSUME NEW s \in 1 .. Len(bodies)
               PROVE  /\ bodies[s] + reports[s] <= 1
                      /\ InScopes(scopes, s) \/ bodies[s] + reports[s] = 1
    BY <1>2, <2>1, <2>2, OpenStubsPlaced DEF StubsSettledOnce, OpenStubs
  <2>3. CASE InScopes(scopes, s)
    <3>1. PICK i, j : IsPlace(scopes, i, j) /\ StubAt(scopes, i, j) = s
      BY <2>3 DEF InScopes
    <3>2. reports[s] = 0 /\ bodies[s] \in {0, 1}
      BY <2>1, <3>1 DEF StubsOK, StubCounts
    <3> QED BY <2>3, <3>2
  <2>4. CASE ~InScopes(scopes, s)
    <3>1. bodies[s] + reports[s] = 1
      BY <2>1, <2>4 DEF StubsOK, ClosedSettled
    <3> QED BY <3>1
  <2> QED BY <2>3, <2>4
<1> QED BY <1>1, <1>2

(* The final scan reports an unresolved stub, if there is one.             *)
LEMMA FinalCheckSettles ==
  ASSUME IInv, FinalCheck, StubsOK(scopes, bodies, reports)
  PROVE  StubsSettledOnce'
<1> DEFINE R == ReportedAtEnd
<1>1. /\ scopes' = scopes /\ bodies' = bodies /\ pass' = "done"
      /\ reports' = [s \in DOMAIN reports |-> IF s \in R THEN reports[s] + 1 ELSE reports[s]]
  BY DEF FinalCheck, ctxVars
<1>2. /\ scopes \in Seq(Scope(Pointer)) /\ Len(scopes) \in Nat
      /\ bodies \in Seq(Nat) /\ reports \in Seq(Nat) /\ Len(reports) = Len(bodies)
  BY DEF IInv, TypeOK, ContextTypeOK, StubsOK
<1>3. \A i \in 1 .. Len(scopes) :
        /\ FirstOpen(scopes[i].forwards) \in 0 .. Len(scopes[i].forwards)
        /\ FirstOpen(scopes[i].forwards) = 0 => \A j : ~IsPlace(scopes, i, j) \/ ResolvedPlace(scopes, i, j)
        /\ FirstOpen(scopes[i].forwards) # 0 => ~ResolvedPlace(scopes, i, FirstOpen(scopes[i].forwards))
  <2> SUFFICES ASSUME NEW i \in 1 .. Len(scopes)
               PROVE  /\ FirstOpen(scopes[i].forwards) \in 0 .. Len(scopes[i].forwards)
                      /\ FirstOpen(scopes[i].forwards) = 0 =>
                           \A j : ~IsPlace(scopes, i, j) \/ ResolvedPlace(scopes, i, j)
                      /\ FirstOpen(scopes[i].forwards) # 0 =>
                           ~ResolvedPlace(scopes, i, FirstOpen(scopes[i].forwards))
    OBVIOUS
  <2> DEFINE fs == scopes[i].forwards
  <2>1. fs \in Seq(ForwardEntry(Pointer))
    BY <1>2, ScopeTyped
  <2> HIDE DEF fs
  <2>2. /\ FirstOpen(fs) \in 0 .. Len(fs)
        /\ FirstOpen(fs) = 0 => \A j \in 1 .. Len(fs) : fs[j].resolved
        /\ FirstOpen(fs) # 0 => ~fs[FirstOpen(fs)].resolved
    BY <2>1, FirstUnresolved
  <2> QED BY <2>2 DEF fs, IsPlace, ResolvedPlace
<1>4. \A s : s \in R <=>
        \E i \in 1 .. Len(scopes) : /\ FirstOpen(scopes[i].forwards) # 0
                                    /\ s = StubAt(scopes, i, FirstOpen(scopes[i].forwards))
  <2> SUFFICES ASSUME NEW s
               PROVE  s \in R <=>
                        \E i \in 1 .. Len(scopes) :
                          /\ FirstOpen(scopes[i].forwards) # 0
                          /\ s = StubAt(scopes, i, FirstOpen(scopes[i].forwards))
    OBVIOUS
  <2> DEFINE H(sc) == IF FirstOpen(sc.forwards) = 0 THEN {} ELSE {sc.forwards[FirstOpen(sc.forwards)].stub}
  <2>1. R = UNION {H(sc) : sc \in ToSet(scopes)}
    BY DEF ReportedAtEnd, FirstOpen
  <2>2. ToSet(scopes) = {scopes[i] : i \in 1 .. Len(scopes)}
    BY <1>2 DEF ToSet
  <2> HIDE DEF R
  <2>3. s \in R <=> \E i \in 1 .. Len(scopes) : s \in H(scopes[i])
    BY <2>1, <2>2
  <2>4. \A i \in 1 .. Len(scopes) : s \in H(scopes[i]) <=>
          /\ FirstOpen(scopes[i].forwards) # 0
          /\ s = StubAt(scopes, i, FirstOpen(scopes[i].forwards))
    BY DEF StubAt
  <2> QED BY <2>3, <2>4
<1> HIDE DEF R
<1>5. \A s \in 1 .. Len(bodies) : reports'[s] = IF s \in R THEN reports[s] + 1 ELSE reports[s]
  BY <1>1, <1>2
<1>6. \A s \in R : InScopes(scopes, s) /\ s \in 1 .. Len(bodies) /\ reports'[s] = 1 /\ bodies[s] = 0
  <2> SUFFICES ASSUME NEW s \in R
               PROVE  InScopes(scopes, s) /\ s \in 1 .. Len(bodies) /\ reports'[s] = 1 /\ bodies[s] = 0
    OBVIOUS
  <2>1. PICK i \in 1 .. Len(scopes) : /\ FirstOpen(scopes[i].forwards) # 0
                                     /\ s = StubAt(scopes, i, FirstOpen(scopes[i].forwards))
    BY <1>4
  <2> DEFINE j == FirstOpen(scopes[i].forwards)
             n == Len(scopes[i].forwards)
  <2>2. IsPlace(scopes, i, j) /\ ~ResolvedPlace(scopes, i, j)
    <3>1. n \in Nat /\ j \in 0 .. n /\ j # 0 /\ ~ResolvedPlace(scopes, i, j)
      BY <1>2, <1>3, <2>1, ScopeTyped
    <3> HIDE DEF j, n
    <3>2. j \in 1 .. n
      BY <3>1
    <3> QED BY <3>1, <3>2 DEF IsPlace, n
  <2> HIDE DEF j
  <2>3. s = StubAt(scopes, i, j)
    BY <2>1 DEF j
  <2>4. s \in 1 .. Len(bodies) /\ reports[s] = 0 /\ bodies[s] = 0
    BY <2>2, <2>3 DEF StubsOK, StubCounts
  <2>5. reports'[s] = reports[s] + 1
    BY <1>5, <2>4
  <2> QED BY <2>2, <2>3, <2>4, <2>5 DEF InScopes
<1>7. \A s : InScopes(scopes, s) => s \in 1 .. Len(bodies) /\ (bodies[s] + reports[s] = 1 \/ \E e \in R : TRUE)
  <2> SUFFICES ASSUME NEW i, NEW j, IsPlace(scopes, i, j)
               PROVE  /\ StubAt(scopes, i, j) \in 1 .. Len(bodies)
                      /\ \/ bodies[StubAt(scopes, i, j)] + reports[StubAt(scopes, i, j)] = 1
                         \/ \E e \in R : TRUE
    BY DEF InScopes
  <2> DEFINE s == StubAt(scopes, i, j)
  <2>1. s \in 1 .. Len(bodies) /\ reports[s] = 0 /\ bodies[s] = IF ResolvedPlace(scopes, i, j) THEN 1 ELSE 0
    BY DEF StubsOK, StubCounts
  <2> HIDE DEF s
  <2>2. CASE ResolvedPlace(scopes, i, j)
    BY <2>1, <2>2 DEF s
  <2>3. CASE ~ResolvedPlace(scopes, i, j)
    <3>1. i \in 1 .. Len(scopes)
      BY DEF IsPlace
    <3>2. FirstOpen(scopes[i].forwards) # 0
      BY <1>3, <2>3, <3>1
    <3>3. StubAt(scopes, i, FirstOpen(scopes[i].forwards)) \in R
      BY <1>4, <3>1, <3>2
    <3> QED BY <2>1, <3>3 DEF s
  <2> QED BY <2>2, <2>3
<1>8. \A s \in 1 .. Len(bodies) : bodies[s] \in Nat /\ reports[s] \in Nat /\ bodies[s] + reports[s] <= 1
  <2> SUFFICES ASSUME NEW s \in 1 .. Len(bodies)
               PROVE  bodies[s] + reports[s] <= 1
    BY <1>2
  <2>1. StubsInv
    BY DEF FinalCheck, StubsInv
  <2>2. StubsSettledOnce
    BY <2>1, StubsCounted
  <2>3. \A i \in DOMAIN bodies : bodies[i] + reports[i] <= 1
    BY <2>2 DEF StubsSettledOnce
  <2>4. s \in DOMAIN bodies
    BY <1>2
  <2> QED BY <2>3, <2>4
<1>9. \A s \in 1 .. Len(bodies) :
        /\ bodies[s] + reports'[s] <= 1
        /\ ~InScopes(scopes, s) => bodies[s] + reports'[s] = 1
        /\ bodies[s] + reports'[s] = 1 \/ \E e \in R : TRUE
  <2> SUFFICES ASSUME NEW s \in 1 .. Len(bodies)
               PROVE  /\ bodies[s] + reports'[s] <= 1
                      /\ ~InScopes(scopes, s) => bodies[s] + reports'[s] = 1
                      /\ bodies[s] + reports'[s] = 1 \/ \E e \in R : TRUE
    OBVIOUS
  <2>1. CASE s \in R
    <3>1. bodies[s] = 0 /\ reports'[s] = 1
      BY <1>6, <2>1
    <3> QED BY <3>1
  <2>2. CASE s \notin R
    <3>1. reports'[s] = reports[s]
      BY <1>5, <2>2
    <3>2. InScopes(scopes, s) \/ bodies[s] + reports[s] = 1
      BY DEF StubsOK, ClosedSettled
    <3> QED BY <1>7, <1>8, <3>1, <3>2
  <2> QED BY <2>1, <2>2
<1>10. \A s : s \in OpenStubs(scopes) <=> InScopes(scopes, s)
  BY <1>2, OpenStubsPlaced
<1>11. (\E e \in R : TRUE) => \E e \in OpenStubs(scopes) : reports'[e] = 1
  BY <1>6, <1>10
<1>12. \A s \in DOMAIN bodies :
         /\ bodies[s] + reports'[s] <= 1
         /\ s \notin OpenStubs(scopes) => bodies[s] + reports'[s] = 1
         /\ bodies[s] + reports'[s] = 1 \/ \E e \in OpenStubs(scopes) : reports'[e] = 1
  BY <1>2, <1>9, <1>10, <1>11
<1> QED BY <1>1, <1>12 DEF StubsSettledOnce, OpenStubs

(* Every step of the walk settles a stub at most once. *)
LEMMA StubsStep ==
  ASSUME IInv, IInv', [Next]_vars, StubsInv
  PROVE  StubsInv'
<1>1. CASE pass = "done"
  <2>1. mode = "idle" /\ StubsSettledOnce
    BY <1>1 DEF StubsInv
  <2>2. UNCHANGED vars
    BY <1>1, <2>1 DEF Next, vars, VisitLeaf, VisitRet, VisitSet, VisitSpecial, VisitDecl,
      VisitDeclFunc, VisitForward, VisitBlock, VisitModule, VisitFileRoot, StatementDone,
      StatementFails, EndBlock, VisitFuncInit, VisitFunc, ParamFails, ParamDone, BodyFails,
      BodyDone, InitFails, DefinesBody, DefinesFunc, DefinesVar, StubDone, VisitOverload,
      OperandFails, OperandDone, CandidateRet, NoCandidate, CandidateTyped, VisitImport,
      ImportDone, ParseImport, ParseImportDone, TypingPass, FinalCheck, Done, OperandTyped,
      MayDeclare, AtStatement, AtInit, AtFuncInit, AtStub, AtParam, AtBody, AtModule, AtOperand,
      AtRoot
  <2> QED BY <2>1, <2>2, <1>1 DEF StubsInv, StubsSettledOnce, vars, ctxVars, walkHistory
<1>2. CASE pass # "done"
  <2>1. /\ StubsOK(scopes, bodies, reports)
        /\ scopes \in Seq(Scope(Pointer)) /\ scopes # << >> /\ Len(scopes) \in Nat
    BY <1>2 DEF StubsInv, IInv, TypeOK, ContextTypeOK
  <2>2. ASSUME pass' # "done", StubsOK(scopes', bodies', reports')
        PROVE  StubsInv'
    BY <2>2 DEF StubsInv, StubsOK, StubCounts, StubsDistinct, ClosedSettled, InScopes, IsPlace,
                StubAt, ResolvedPlace
  <2>3. CASE KeepsScopes
    <3>1. CASE FinalCheck
      <4>1. StubsSettledOnce' /\ pass' = "done" /\ mode' = "idle"
        BY <2>1, <3>1, FinalCheckSettles DEF FinalCheck
      <4> QED BY <4>1 DEF StubsInv
    <3>2. CASE ~FinalCheck
      <4>1. UNCHANGED << scopes, bodies, reports >> /\ pass' # "done"
        BY <1>2, <2>3, <3>2 DEF KeepsScopes
      <4> QED BY <2>1, <2>2, <4>1
    <3> QED BY <3>1, <3>2
  <2>4. CASE OpensScope
    <3>1. scopes' = Append(scopes, NewScope) /\ UNCHANGED << bodies, reports, pass >>
      BY <2>4 DEF OpensScope, PushScope
    <3>2. /\ Len(scopes') = Len(scopes) + 1
          /\ \A i \in 1 .. Len(scopes) : scopes'[i] = scopes[i]
          /\ scopes'[Len(scopes) + 1].forwards = << >>
      BY <2>1, <3>1 DEF NewScope
    <3>3. SameStubs(scopes, scopes')
      BY <2>1, <3>2 DEF SameStubs, IsPlace, StubAt, ResolvedPlace
    <3>4. StubsOK(scopes', bodies, reports)
      BY <2>1, <3>3, SameStubsOK
    <3> QED BY <1>2, <2>2, <3>1, <3>4
  <2>5. CASE ClosesScope
    <3>1. /\ Len(scopes') = Len(scopes) - 1 /\ Len(scopes) > 1
          /\ \A i \in 1 .. Len(scopes) - 1 : scopes'[i] = scopes[i]
      BY <2>1, <2>5, FrontFacts DEF ClosesScope
    <3>2. /\ UNCHANGED << bodies, pass >>
          /\ reports' = [s \in DOMAIN reports |->
               IF s \in ReportedOnPop(scopes[Len(scopes)]) THEN reports[s] + 1 ELSE reports[s]]
      BY <2>5 DEF ClosesScope, ReportOnPop, Last
    <3>3. StubsOK(scopes', bodies, reports')
      BY <2>1, <3>1, <3>2, ClosedStubsOK
    <3> QED BY <1>2, <2>2, <3>2, <3>3
  <2>6. CASE BindsName
    <3>1. PICK n \in Name, t \in Pointer' : scopes' = DefineVar(scopes, n, t)
      BY <2>6 DEF BindsName
    <3>2. /\ Len(scopes') = Len(scopes)
          /\ \A i \in 1 .. Len(scopes) : scopes'[i].forwards = scopes[i].forwards
      BY <2>1, <3>1, DefineVarAt
    <3>3. SameStubs(scopes, scopes')
      BY <3>2 DEF SameStubs, IsPlace, StubAt, ResolvedPlace
    <3>4. UNCHANGED << bodies, reports, pass >> /\ StubsOK(scopes', bodies, reports)
      BY <2>1, <2>6, <3>3, SameStubsOK DEF BindsName
    <3> QED BY <1>2, <2>2, <3>4
  <2>7. CASE RebindsName
    <3>1. scopes' = UpdateVar(scopes, Top.name, value.type)
      BY <2>7 DEF RebindsName
    <3>2. /\ Len(scopes') = Len(scopes)
          /\ \A i \in 1 .. Len(scopes) : scopes'[i].forwards = scopes[i].forwards
      BY <2>1, <3>1, UpdateVarAt
    <3>3. SameStubs(scopes, scopes')
      BY <3>2 DEF SameStubs, IsPlace, StubAt, ResolvedPlace
    <3>4. UNCHANGED << bodies, reports, pass >> /\ StubsOK(scopes', bodies, reports)
      BY <2>1, <2>7, <3>3, SameStubsOK DEF RebindsName
    <3> QED BY <1>2, <2>2, <3>4
  <2>8. CASE GivesBody
    <3>1. PICK n \in Name :
            /\ LookupForward(n) # 0
            /\ ~scopes[Len(scopes)].forwards[LookupForward(n)].resolved
            /\ scopes' = DefineForwardBody(LookupForward(n))
            /\ bodies' = [bodies EXCEPT ![scopes[Len(scopes)].forwards[LookupForward(n)].stub] = @ + 1]
      BY <2>8 DEF GivesBody
    <3>2. PICK k \in 1 .. Len(scopes[Len(scopes)].forwards) : k = LookupForward(n)
      BY <2>1, <3>1, ForwardFound
    <3>3. /\ scopes' = Resolve(scopes, k)
          /\ ~scopes[Len(scopes)].forwards[k].resolved
          /\ bodies' = [bodies EXCEPT ![StubAt(scopes, Len(scopes), k)] = @ + 1]
      BY <3>1, <3>2 DEF DefineForwardBody, Resolve, StubAt
    <3>4. ResolvedAt(scopes, k, scopes')
      BY <2>1, <3>3, DefineForwardBodyAt
    <3>5. StubsOK(scopes', bodies', reports)
      BY <2>1, <3>3, <3>4, ResolvedStubsOK
    <3>6. UNCHANGED << reports, pass >>
      BY <2>8 DEF GivesBody
    <3> QED BY <1>2, <2>2, <3>5, <3>6
  <2>9. CASE DeclaresStub
    <3>1. PICK n \in Name, t \in Pointer :
            scopes' = DefineVar(DefineForward(scopes, n, t, Len(bodies) + 1), n, t)
      BY <2>9 DEF DeclaresStub
    <3>2. bodies' = Append(bodies, 0) /\ reports' = Append(reports, 0) /\ UNCHANGED pass
      BY <2>9 DEF DeclaresStub
    <3>3. StubsOK(scopes', bodies', reports')
      BY <2>1, <3>1, <3>2, DeclaredStubsOK
    <3> QED BY <1>2, <2>2, <3>2, <3>3
  <2> QED BY <2>3, <2>4, <2>5, <2>6, <2>7, <2>8, <2>9, ScopeShapes
<1> QED BY <1>1, <1>2

(* A $forward stub never gets a second body, nor a body and a report; it   *)
(* gets one of them by the time its scope has closed, whatever declares    *)
(* its name before and after, and on every path that leaves the scope; and *)
(* no file with a stub left open is typed without a report.                *)
THEOREM StubsSettled == Spec => []StubsSettledOnce
<1>1. Init => StubsInv
  <2> SUFFICES ASSUME Init PROVE StubsInv
    OBVIOUS
  <2>1. scopes = << NewScope >> /\ bodies = << >> /\ reports = << >> /\ pass = "parse"
    BY DEF Init, ContextInit
  <2>2. /\ Len(scopes) = 1 /\ scopes[1].forwards = << >> /\ Len(bodies) = 0 /\ Len(reports) = 0
        /\ bodies \in Seq(Nat) /\ reports \in Seq(Nat)
    BY <2>1 DEF NewScope
  <2>3. \A i, j : ~IsPlace(scopes, i, j)
    BY <2>2 DEF IsPlace
  <2>4. StubsOK(scopes, bodies, reports)
    BY <2>2, <2>3 DEF StubsOK, StubCounts, StubsDistinct, ClosedSettled
  <2> QED BY <2>1, <2>4 DEF StubsInv
<1>2. StubsInv /\ IInv /\ IInv' /\ [Next]_vars => StubsInv'
  BY StubsStep
<1>3. StubsInv /\ IInv => StubsSettledOnce
  BY StubsCounted
<1> QED BY <1>1, <1>2, <1>3, InitEstablishes, StepKeepsInvariant, PTL DEF Spec

-----------------------------------------------------------------------------
(* What $file and $global name *)

(* The depth of the file stacks inside an activation. *)
FilesInside(c) == c.entry.files + (IF c.node = "import" THEN 1 ELSE 0)

(* $file and $global of every file being typed, the innermost one's last. *)
Files == Append(fileStack, fileType)
Globals == Append(globalStack, globalType)

(* An activation finds the files of the activations around it, and has the *)
(* depth of the innermost import among them, or none.                      *)
FilesOrdered ==
  \A i \in 1 .. Len(calls) : \A j \in i + 1 .. Len(calls) :
    FilesInside(calls[i]) <= calls[j].entry.files

ImportsCounted ==
  \A n \in 1 .. Len(calls) :
    /\ (\A j \in 1 .. n : calls[j].node # "import") => FilesInside(calls[n]) = 0
    /\ \A i \in 1 .. n :
         calls[i].node = "import" /\ (\A j \in i + 1 .. n : calls[j].node # "import") =>
           FilesInside(calls[i]) = FilesInside(calls[n])

(* An import's own file is null until its block starts and that block from *)
(* then on.                                                                *)
OwnFile(i) ==
  LET d == FilesInside(calls[i]) + 1
  IN  IF i = Len(calls)
      THEN mode = "eval" => Files[d] = Null /\ Globals[d] = Null
      ELSE /\ calls[i + 1].node = "block"
           /\ Files[d] = calls[i + 1].self /\ Globals[d] = calls[i + 1].self

FilesInv ==
  /\ mode = "idle" => calls = << >>
  /\ FilesOrdered /\ ImportsCounted
  /\ \A i \in 1 .. Len(calls) :
       /\ calls[i].node = "block" => calls[i].self # Null
       /\ calls[i].node = "import" => OwnFile(i)

FilesKept == UNCHANGED << fileType, globalType, fileStack, globalStack >>

(* How a step changes the files: it starts or ends an import, starts a     *)
(* block, which is the file's own if the file has none yet, or leaves the  *)
(* files as they are.                                                      *)
StartsImport ==
  \E c : /\ calls' = Append(calls, c)
         /\ c.node = "import" /\ c.entry = CurrentDepths
         /\ mode = "eval" /\ mode' = "eval"
         /\ calls # << >> => Top.node # "import"
         /\ Files' = Append(Files, Null) /\ Globals' = Append(Globals, Null)

StartsBlock ==
  \E c : /\ calls' = Append(calls, c)
         /\ c.node = "block" /\ c.entry = CurrentDepths /\ c.self = NextType
         /\ mode = "eval" /\ mode' = "eval"
         /\ fileType' = (IF fileType = Null THEN NextType ELSE fileType)
         /\ globalType' = (IF globalType = Null THEN NextType ELSE globalType)
         /\ UNCHANGED << fileStack, globalStack >>

StartsOther ==
  \E c : /\ calls' = Append(calls, c)
         /\ c.node \notin {"import", "block"} /\ c.entry = CurrentDepths
         /\ mode = "eval" /\ mode' = "eval"
         /\ calls # << >> => Top.node # "import"
         /\ FilesKept

EndsImport ==
  /\ calls # << >> /\ calls' = Front(calls) /\ Top.node = "import"
  /\ mode' = "return"
  /\ fileType' = Last(fileStack) /\ fileStack' = Front(fileStack)
  /\ globalType' = Last(globalStack) /\ globalStack' = Front(globalStack)

EndsOther ==
  /\ calls # << >> /\ calls' = Front(calls) /\ Top.node # "import"
  /\ mode' = "return"
  /\ FilesKept

KeepsFiles ==
  /\ Len(calls') = Len(calls)
  /\ mode' = "idle" => calls' = << >>
  /\ mode' = "eval" /\ calls # << >> /\ Top.node = "import" => mode = "eval"
  /\ FilesKept

(* How the operations of the file stacks change them. *)
LEMMA FileShapes ==
  ASSUME TypeOK, [Next]_vars, mode = "idle" => calls = << >>
  PROVE  \/ StartsImport \/ StartsBlock \/ StartsOther \/ EndsImport \/ EndsOther \/ KeepsFiles
<1>1. \A node, stage, n, t :
        /\ NewCall(node, stage, n, t).node = node
        /\ NewCall(node, stage, n, t).entry = CurrentDepths
        /\ NewCall(node, stage, n, t).self = t
  BY DEF NewCall
<1>2. ASSUME NEW node, NEW stage, NEW n, NEW t, node \notin {"import", "block"},
             calls' = Append(calls, NewCall(node, stage, n, t)),
             mode = "eval", mode' = mode, calls # << >> => Top.node # "import", FilesKept
      PROVE  StartsOther
  <2> DEFINE c == NewCall(node, stage, n, t)
  <2>1. c.node \notin {"import", "block"} /\ c.entry = CurrentDepths /\ calls' = Append(calls, c)
    BY <1>1, <1>2
  <2> HIDE DEF c
  <2> QED BY <1>2, <2>1 DEF StartsOther
<1>3. ASSUME calls' = calls, mode' \in {"eval", "return"}, FilesKept,
             mode' = "eval" /\ calls # << >> => Top.node # "import"
      PROVE  KeepsFiles
  BY <1>3 DEF KeepsFiles
<1>4. ASSUME calls # << >>, Top.node # "import", calls' = Front(calls), mode' = "return", FilesKept
      PROVE  EndsOther
  BY <1>4 DEF EndsOther
<1>5. ASSUME NEW l \in Leaf, VisitLeaf(l) \/ VisitRet(l) \/ \E n \in Name : VisitSet(n, l)
      PROVE  KeepsFiles
  BY <1>3, <1>5 DEF VisitLeaf, VisitRet, RecordReturn, VisitSet, ctxVars, Return, Fail, FilesKept
<1>6. ASSUME NEW op \in {"this", "file", "global"}, VisitSpecial(op)
      PROVE  KeepsFiles
  BY <1>3, <1>6 DEF VisitSpecial, ctxVars, Return, FilesKept
<1>7. ASSUME NEW n \in Name, VisitDecl(n) \/ VisitDeclFunc(n) \/ VisitForward(n)
      PROVE  StartsOther
  <2>1. mode = "eval" /\ (calls # << >> => Top.node # "import")
    BY <1>7 DEF VisitDecl, VisitDeclFunc, VisitForward, MayDeclare, AtStatement, AtOperand, AtRoot,
                AtParam, At
  <2> QED BY <1>2, <1>7, <2>1 DEF VisitDecl, VisitDeclFunc, VisitForward, ctxVars, FilesKept
<1>8. ASSUME VisitBlock \/ VisitModule \/ VisitFileRoot
      PROVE  StartsBlock
  <2> DEFINE c == NewCall("block", "statements", NoName, NextType)
  <2>1. /\ calls' = Append(calls, c) /\ mode' = "eval"
        /\ fileType' = (IF fileType = Null THEN NextType ELSE fileType)
        /\ globalType' = (IF globalType = Null THEN NextType ELSE globalType)
        /\ UNCHANGED << fileStack, globalStack >>
    BY <1>8 DEF VisitBlock, VisitModule, VisitFileRoot, OpenBlock
  <2>2. mode = "eval"
    BY <1>8 DEF VisitBlock, VisitModule, VisitFileRoot, AtStatement, AtInit, AtBody, AtOperand,
                AtModule, AtRoot
  <2>3. c.node = "block" /\ c.entry = CurrentDepths /\ c.self = NextType
    BY <1>1
  <2> HIDE DEF c
  <2> QED BY <2>1, <2>2, <2>3 DEF StartsBlock
<1>9. ASSUME VisitFuncInit \/ VisitFunc
      PROVE  StartsOther
  <2>1. mode = "eval" /\ (calls # << >> => Top.node # "import")
    BY <1>9 DEF VisitFuncInit, VisitFunc, AtFuncInit, AtStub, AtParam, AtBody, AtOperand, At
  <2> QED BY <1>2, <1>9, <2>1 DEF VisitFuncInit, VisitFunc, OpenFunc, FilesKept
<1>10. ASSUME VisitImport
       PROVE  StartsImport
  <2> DEFINE c == NewCall("import", "module", NoName, Null)
  <2>1. /\ calls' = Append(calls, c) /\ mode = "eval" /\ mode' = "eval" /\ Top.node # "import"
        /\ fileStack' = Append(fileStack, fileType) /\ fileType' = Null
        /\ globalStack' = Append(globalStack, globalType) /\ globalType' = Null
    BY <1>10 DEF VisitImport, AtInit, At, PushFile, PushGlobal
  <2>2. c.node = "import" /\ c.entry = CurrentDepths
    BY <1>1
  <2>3. Files' = Append(Files, Null) /\ Globals' = Append(Globals, Null)
    BY <2>1 DEF Files, Globals
  <2> HIDE DEF c
  <2> QED BY <2>1, <2>2, <2>3 DEF StartsImport
<1>11. ASSUME StatementFails \/ EndBlock \/ ParamFails \/ BodyFails \/ BodyDone
       PROVE  EndsOther
  BY <1>4, <1>11 DEF StatementFails, EndBlock, LeaveBlock, ParamFails, BodyFails, BodyDone, LeaveFunc,
     AtStatement, At, Fail, Return, FilesKept
<1>12. ASSUME InitFails \/ DefinesBody \/ DefinesFunc \/ DefinesVar \/ StubDone
       PROVE  EndsOther
  BY <1>4, <1>12 DEF InitFails, DefinesBody, DefinesFunc, DefinesVar, StubDone, At, Fail, Return,
     ReturnDeclared, FilesKept
<1>13. ASSUME ImportDone
       PROVE  EndsImport
  BY <1>13 DEF ImportDone, At, Return, EndsImport
<1>14. ASSUME StatementDone
       PROVE  KeepsFiles
  BY <1>3, <1>14 DEF StatementDone, At, FilesKept
<1>15. ASSUME ParamDone
       PROVE  KeepsFiles
  <2>1. Top.node = "func" /\ mode' = "eval" /\ FilesKept
    BY <1>15 DEF ParamDone, At, FilesKept
  <2>2. Len(calls') = Len(calls)
    BY <1>15 DEF ParamDone, TypeOK
  <2> QED BY <2>1, <2>2 DEF KeepsFiles
<1>16. ASSUME VisitOverload
       PROVE  StartsOther
  <2>1. mode = "eval" /\ (calls # << >> => Top.node # "import")
    BY <1>16 DEF VisitOverload, AtStatement, AtInit, AtBody, AtOperand, At
  <2> QED BY <1>2, <1>16, <2>1 DEF VisitOverload, ctxVars, FilesKept
<1>17. ASSUME \/ OperandFails \/ OperandDone \/ CandidateRet \/ NoCandidate
              \/ \E op \in {"add", "fadd", "call", "func", "group"} : CandidateTyped(op)
       PROVE  EndsOther \/ KeepsFiles
  <2>1. calls # << >> /\ Top.node = "overload"
    BY <1>17 DEF OperandFails, OperandDone, CandidateRet, NoCandidate, CandidateTyped,
                 OperandTyped, AtOperand, At
  <2>2. \E t : NextOperand(t) \/ EndOverload(t)
    BY <1>17 DEF OperandFails, OperandDone, CandidateRet, NoCandidate, CandidateTyped,
                 NextCandidate
  <2>3. FilesKept
    BY <1>17 DEF OperandFails, OperandDone, CandidateRet, NoCandidate, CandidateTyped,
                 RecordReturn, ctxVars, FilesKept
  <2>4. ASSUME NEW t, EndOverload(t)
        PROVE  EndsOther
    BY <1>4, <2>1, <2>3, <2>4 DEF EndOverload, Return
  <2>5. ASSUME NEW t, NextOperand(t)
        PROVE  KeepsFiles
    <3>1. Len(calls') = Len(calls) /\ mode' = "eval"
      BY <2>5 DEF NextOperand, TypeOK
    <3> QED BY <2>1, <2>3, <3>1 DEF KeepsFiles
  <2> QED BY <2>2, <2>4, <2>5
<1>18. ASSUME ParseImport \/ ParseImportDone \/ TypingPass \/ FinalCheck \/ Done \/ UNCHANGED vars
       PROVE  KeepsFiles
  BY <1>18 DEF ParseImport, ParseImportDone, TypingPass, FinalCheck, Done, vars, ctxVars,
               KeepsFiles, FilesKept
<1> QED BY <1>5, <1>6, <1>7, <1>8, <1>9, <1>10, <1>11, <1>12, <1>13, <1>14, <1>15, <1>16, <1>17, <1>18 DEF Next

(* What the steps below know of the files. *)
LEMMA FilesTyped ==
  ASSUME IInv
  PROVE  /\ Len(calls) \in Nat /\ Len(fileStack) \in Nat
         /\ Files \in Seq(Pointer) /\ Len(Files) = Len(fileStack) + 1
         /\ Globals \in Seq(Pointer) /\ Len(Globals) = Len(fileStack) + 1
         /\ fileStack \in Seq(Pointer) /\ globalStack \in Seq(Pointer)
         /\ Files[Len(fileStack) + 1] = fileType /\ Globals[Len(fileStack) + 1] = globalType
         /\ \A k \in 1 .. Len(fileStack) : Files[k] = fileStack[k] /\ Globals[k] = globalStack[k]
         /\ \A i \in 1 .. Len(calls) :
              /\ calls[i].entry.files \in Nat /\ FilesInside(calls[i]) \in Nat
              /\ calls[i].node = "import" => FilesInside(calls[i]) = calls[i].entry.files + 1
         /\ calls # << >> => Top = calls[Len(calls)] /\ Len(fileStack) = FilesInside(calls[Len(calls)])
         /\ calls = << >> => Len(fileStack) = 0
<1>1. /\ calls \in Seq(Call(Pointer)) /\ fileStack \in Seq(Pointer) /\ globalStack \in Seq(Pointer)
      /\ fileType \in Pointer /\ globalType \in Pointer /\ Len(globalStack) = Len(fileStack)
  BY DEF IInv, TypeOK, ContextTypeOK
<1>2. \A i \in 1 .. Len(calls) : calls[i].entry.files \in Nat
  BY <1>1 DEF Call, Depths
<1>3. Len(fileStack) = CurrentDepths.files
  BY DEF CurrentDepths
<1>4. calls # << >> => Top = calls[Len(calls)] /\ Len(fileStack) = FilesInside(calls[Len(calls)])
  BY <1>3 DEF IInv, StacksBalanced, DepthsInside, FilesInside, Top, Last
<1>5. calls = << >> => Len(fileStack) = 0
  BY <1>3 DEF IInv, StacksBalanced
<1>6. /\ Len(calls) \in Nat /\ Len(fileStack) \in Nat
      /\ Files \in Seq(Pointer) /\ Len(Files) = Len(fileStack) + 1
      /\ Globals \in Seq(Pointer) /\ Len(Globals) = Len(fileStack) + 1
      /\ Files[Len(fileStack) + 1] = fileType /\ Globals[Len(fileStack) + 1] = globalType
      /\ \A k \in 1 .. Len(fileStack) : Files[k] = fileStack[k] /\ Globals[k] = globalStack[k]
  BY <1>1 DEF Files, Globals
<1> QED BY <1>1, <1>2, <1>4, <1>5, <1>6 DEF FilesInside

(* The files of the activations below the innermost one. *)
LEMMA FilesBelowTop ==
  ASSUME IInv, FilesOrdered, NEW i \in 1 .. Len(calls)
  PROVE  /\ FilesInside(calls[i]) <= Len(fileStack)
         /\ i < Len(calls) => FilesInside(calls[i]) <= calls[Len(calls)].entry.files
<1> DEFINE n == Len(calls)
<1>1. /\ n \in Nat /\ n \in 1 .. n /\ calls # << >>
      /\ FilesInside(calls[n]) = Len(fileStack) /\ FilesInside(calls[i]) \in Nat
      /\ calls[n].entry.files \in Nat /\ calls[n].entry.files <= FilesInside(calls[n])
      /\ Len(fileStack) \in Nat
  <2>1. /\ n \in Nat /\ Len(fileStack) \in Nat
        /\ calls # << >> => Len(fileStack) = FilesInside(calls[n])
        /\ \A k \in 1 .. n : calls[k].entry.files \in Nat /\ FilesInside(calls[k]) \in Nat
    BY FilesTyped
  <2>2. calls # << >> /\ i \in 1 .. n
    BY <2>1
  <2> HIDE DEF n
  <2>3. n \in 1 .. n
    BY <2>1, <2>2
  <2>4. calls[n].entry.files <= FilesInside(calls[n])
    BY <2>1, <2>3 DEF FilesInside
  <2> QED BY <2>1, <2>2, <2>3, <2>4
<1>2. i < n => n \in i + 1 .. n
  BY <1>1
<1>3. i < n => FilesInside(calls[i]) <= calls[n].entry.files
  BY <1>2 DEF FilesOrdered
<1> HIDE DEF n
<1> QED BY <1>1, <1>3 DEF n

(* The activation that a step starts.                                      *)
LEMMA CallAppended ==
  ASSUME IInv, FilesOrdered, ImportsCounted, NEW c, calls' = Append(calls, c), c.entry = CurrentDepths
  PROVE  /\ Len(calls') = Len(calls) + 1
         /\ \A i \in 1 .. Len(calls) : calls'[i] = calls[i]
         /\ calls'[Len(calls) + 1] = c
         /\ c.entry.files = Len(fileStack)
         /\ FilesOrdered' /\ ImportsCounted'
<1> DEFINE n == Len(calls)
<1>1. /\ Len(calls') = n + 1 /\ n \in Nat
      /\ \A i \in 1 .. n : calls'[i] = calls[i]
      /\ calls'[n + 1] = c
  <2>1. calls \in Seq(Call(Pointer))
    BY DEF IInv, TypeOK
  <2> QED BY <2>1
<1>2. c.entry.files = Len(fileStack)
  BY DEF CurrentDepths
<1>3. \A i \in 1 .. n : FilesInside(calls[i]) <= c.entry.files
  BY <1>2, FilesBelowTop
<1>4. /\ FilesInside(c) = c.entry.files + (IF c.node = "import" THEN 1 ELSE 0)
      /\ c.entry.files \in Nat
  BY <1>2, FilesTyped DEF FilesInside
<1>5. /\ n = 0 => c.entry.files = 0
      /\ n > 0 => c.entry.files = FilesInside(calls[n])
  <2>1. n > 0 => calls # << >>
    BY <1>1
  <2>2. n = 0 => calls = << >>
    BY DEF IInv, TypeOK
  <2> QED BY <1>2, <2>1, <2>2, FilesTyped
<1> HIDE DEF n
<1>6. \A i \in 1 .. n + 1 : i \in 1 .. n \/ i = n + 1
  BY <1>1
<1>7. FilesOrdered'
  <2> SUFFICES ASSUME NEW i \in 1 .. n + 1, NEW j \in i + 1 .. n + 1
               PROVE  FilesInside(calls'[i]) <= calls'[j].entry.files
    BY <1>1 DEF FilesOrdered, FilesInside
  <2>1. i \in 1 .. n
    BY <1>1
  <2>2. CASE j \in i + 1 .. n
    BY <1>1, <2>1, <2>2 DEF FilesOrdered, n
  <2>3. CASE j = n + 1
    BY <1>1, <1>3, <2>1, <2>3
  <2> QED BY <1>1, <2>2, <2>3
<1>8. ImportsCounted'
  <2> SUFFICES ASSUME NEW k \in 1 .. n + 1
               PROVE  /\ (\A j \in 1 .. k : calls'[j].node # "import") => FilesInside(calls'[k]) = 0
                      /\ \A i \in 1 .. k :
                           /\ calls'[i].node = "import"
                           /\ \A j \in i + 1 .. k : calls'[j].node # "import"
                           => FilesInside(calls'[i]) = FilesInside(calls'[k])
    BY <1>1 DEF ImportsCounted, FilesInside
  <2>1. CASE k \in 1 .. n
    <3>1. \A j \in 1 .. k : calls'[j] = calls[j]
      BY <1>1, <2>1
    <3>2. \A i \in 1 .. k : \A j \in i + 1 .. k : j \in 1 .. k
      BY <1>1, <2>1
    <3>3. /\ (\A j \in 1 .. k : calls[j].node # "import") => FilesInside(calls[k]) = 0
          /\ \A i \in 1 .. k :
               calls[i].node = "import" /\ (\A j \in i + 1 .. k : calls[j].node # "import") =>
                 FilesInside(calls[i]) = FilesInside(calls[k])
      BY <2>1 DEF ImportsCounted, n
    <3>4. calls'[k] = calls[k]
      BY <1>1, <2>1
    <3> QED BY <3>1, <3>2, <3>3, <3>4
  <2>2. CASE k = n + 1
    <3>1. calls'[k] = c
      BY <1>1, <2>2
    <3>2. CASE c.node = "import"
      <4>1. ASSUME NEW i \in 1 .. n
            PROVE  k \in i + 1 .. k
        BY <1>1, <2>2
      <4>2. k \in 1 .. k
        BY <1>1, <2>2
      <4> QED BY <1>6, <2>2, <3>1, <3>2, <4>1, <4>2
    <3>3. CASE c.node # "import" /\ n = 0
      <4>1. FilesInside(c) = 0
        BY <1>4, <1>5, <3>3
      <4>2. \A i \in 1 .. k : i = k
        BY <2>2, <3>3
      <4> QED BY <3>1, <4>1, <4>2
    <3>4. CASE c.node # "import" /\ n > 0
      <4>1. FilesInside(c) = FilesInside(calls[n]) /\ n \in 1 .. n
        BY <1>1, <1>4, <1>5, <3>4
      <4>2. /\ (\A j \in 1 .. n : calls[j].node # "import") => FilesInside(calls[n]) = 0
            /\ \A i \in 1 .. n :
                 calls[i].node = "import" /\ (\A j \in i + 1 .. n : calls[j].node # "import") =>
                   FilesInside(calls[i]) = FilesInside(calls[n])
        BY <4>1 DEF ImportsCounted, n
      <4>3. \A j \in 1 .. n : j \in 1 .. k /\ calls'[j] = calls[j]
        BY <1>1, <2>2
      <4>4. \A i \in 1 .. n : \A j \in i + 1 .. n : j \in i + 1 .. k /\ calls'[j] = calls[j]
        BY <1>1, <2>2
      <4>5. ASSUME \A j \in 1 .. k : calls'[j].node # "import"
            PROVE  FilesInside(calls'[k]) = 0
        BY <3>1, <4>1, <4>2, <4>3, <4>5
      <4>6. ASSUME NEW i \in 1 .. k, calls'[i].node = "import",
                   \A j \in i + 1 .. k : calls'[j].node # "import"
            PROVE  FilesInside(calls'[i]) = FilesInside(calls'[k])
        <5>1. i \in 1 .. n
          BY <1>6, <2>2, <3>1, <3>4, <4>6
        <5>2. calls'[i] = calls[i]
          BY <4>3, <5>1
        <5>3. \A j \in i + 1 .. n : calls[j].node # "import"
          BY <4>4, <4>6, <5>1
        <5>4. FilesInside(calls[i]) = FilesInside(calls[n])
          BY <4>2, <4>6, <5>1, <5>2, <5>3
        <5> QED BY <3>1, <4>1, <5>2, <5>4
      <4> QED BY <4>5, <4>6
    <3> QED BY <1>1, <3>2, <3>3, <3>4
  <2> QED BY <1>6, <2>1, <2>2
<1> QED BY <1>1, <1>2, <1>7, <1>8 DEF n

(* The innermost activation ends.                                          *)
LEMMA CallRemoved ==
  ASSUME IInv, FilesOrdered, ImportsCounted, calls # << >>, calls' = Front(calls)
  PROVE  /\ Len(calls) \in Nat \ {0} /\ Len(calls') = Len(calls) - 1
         /\ \A i \in 1 .. Len(calls) - 1 : calls'[i] = calls[i]
         /\ FilesOrdered' /\ ImportsCounted'
<1>1. /\ Len(calls) \in Nat \ {0} /\ Len(calls') = Len(calls) - 1
      /\ \A i \in 1 .. Len(calls) - 1 : calls'[i] = calls[i]
  <2>1. calls \in Seq(Call(Pointer))
    BY DEF IInv, TypeOK
  <2> QED BY <2>1, FrontFacts
<1>2. FilesOrdered'
  <2>1. \A i \in 1 .. Len(calls') : \A j \in i + 1 .. Len(calls') :
          /\ i \in 1 .. Len(calls) /\ j \in i + 1 .. Len(calls)
          /\ calls'[i] = calls[i] /\ calls'[j] = calls[j]
    BY <1>1
  <2> QED BY <2>1 DEF FilesOrdered, FilesInside
<1>3. ImportsCounted'
  <2> SUFFICES ASSUME NEW k \in 1 .. Len(calls')
               PROVE  /\ (\A j \in 1 .. k : calls'[j].node # "import") => FilesInside(calls'[k]) = 0
                      /\ \A i \in 1 .. k :
                           /\ calls'[i].node = "import"
                           /\ \A j \in i + 1 .. k : calls'[j].node # "import"
                           => FilesInside(calls'[i]) = FilesInside(calls'[k])
    BY DEF ImportsCounted, FilesInside
  <2>1. k \in 1 .. Len(calls) /\ calls'[k] = calls[k] /\ \A j \in 1 .. k : calls'[j] = calls[j]
    BY <1>1
  <2>2. \A i \in 1 .. k : \A j \in i + 1 .. k : j \in 1 .. k
    BY <1>1
  <2>3. /\ (\A j \in 1 .. k : calls[j].node # "import") => FilesInside(calls[k]) = 0
        /\ \A i \in 1 .. k :
             calls[i].node = "import" /\ (\A j \in i + 1 .. k : calls[j].node # "import") =>
               FilesInside(calls[i]) = FilesInside(calls[k])
    BY <2>1 DEF ImportsCounted
  <2> QED BY <2>1, <2>2, <2>3
<1> QED BY <1>1, <1>2, <1>3

(* $import opens a file of its own. *)
LEMMA StartsImportFiles ==
  ASSUME IInv, FilesInv, StartsImport
  PROVE  FilesInv'
<1> DEFINE n == Len(calls)
<1>1. PICK c : /\ calls' = Append(calls, c)
               /\ c.node = "import" /\ c.entry = CurrentDepths
               /\ mode = "eval" /\ mode' = "eval"
               /\ calls # << >> => Top.node # "import"
               /\ Files' = Append(Files, Null) /\ Globals' = Append(Globals, Null)
  BY DEF StartsImport
<1>2. /\ Len(calls') = n + 1 /\ n \in Nat
      /\ \A i \in 1 .. n : calls'[i] = calls[i]
      /\ calls'[n + 1] = c
      /\ c.entry.files = Len(fileStack)
      /\ FilesOrdered' /\ ImportsCounted'
  BY <1>1, CallAppended, FilesTyped DEF FilesInv
<1>3. /\ FilesInside(c) = Len(Files) /\ Len(Files) = Len(Globals) /\ Len(Files) \in Nat
      /\ Len(Files) = Len(fileStack) + 1
      /\ \A d \in 1 .. Len(Files) : Files'[d] = Files[d] /\ Globals'[d] = Globals[d]
      /\ Files'[Len(Files) + 1] = Null /\ Globals'[Len(Files) + 1] = Null
  BY <1>1, <1>2, FilesTyped DEF FilesInside
<1>4. n > 0 => calls[n].node # "import"
  BY <1>1, FilesTyped
<1> HIDE DEF n
<1>5. \A i \in 1 .. n + 1 : i = n + 1 \/ (i \in 1 .. n /\ i # n + 1 /\ i + 1 \in 1 .. n + 1)
  BY <1>2
<1>6. ASSUME NEW i \in 1 .. n, calls[i].node = "import"
      PROVE  OwnFile(i)'
  <2> DEFINE d == FilesInside(calls[i]) + 1
  <2>1. i < n /\ i + 1 \in 1 .. n
    BY <1>2, <1>4, <1>6
  <2>2. calls[i + 1].node = "block" /\ Files[d] = calls[i + 1].self /\ Globals[d] = calls[i + 1].self
    BY <1>6, <2>1 DEF FilesInv, OwnFile, n
  <2>3. d \in 1 .. Len(Files)
    <3>1. FilesInside(calls[i]) <= Len(fileStack) /\ FilesInside(calls[i]) \in Nat
      BY FilesBelowTop, FilesTyped DEF FilesInv, n
    <3> QED BY <1>3, <3>1
  <2> HIDE DEF d
  <2>4. calls'[i + 1] = calls[i + 1] /\ calls'[i] = calls[i] /\ i # Len(calls')
    BY <1>2, <1>5, <2>1
  <2>5. Files'[d] = Files[d] /\ Globals'[d] = Globals[d]
    BY <1>3, <2>3
  <2> QED BY <2>2, <2>4, <2>5 DEF OwnFile, d, FilesInside
<1>7. \A i : i = n + 1 => OwnFile(i)'
  <2>1. Files'[FilesInside(c) + 1] = Null /\ Globals'[FilesInside(c) + 1] = Null
    BY <1>3
  <2>2. \A i : i = n + 1 => i = Len(calls') /\ calls'[i] = c
    BY <1>2
  <2> TAKE i
  <2> HAVE i = n + 1
  <2>3. FilesInside(calls[i])' = FilesInside(c)
    BY <2>2 DEF FilesInside
  <2>4. (i = Len(calls))'
    BY <2>2
  <2> QED BY <2>1, <2>3, <2>4 DEF OwnFile
<1>8. ASSUME NEW i \in 1 .. n + 1
      PROVE  /\ (calls[i].node = "block" => calls[i].self # Null)'
             /\ (calls[i].node = "import")' => OwnFile(i)'
  <2>1. CASE i = n + 1
    <3>1. OwnFile(i)'
      BY <1>7, <2>1, Zenon
    <3>2. calls'[i] = c
      BY <1>2, <2>1
    <3> QED BY <1>1, <3>1, <3>2
  <2>2. CASE i \in 1 .. n
    <3>1. calls'[i] = calls[i]
      BY <1>2, <2>2
    <3>2. calls[i].node = "block" => calls[i].self # Null
      BY <2>2 DEF FilesInv, n
    <3> QED BY <1>6, <2>2, <3>1, <3>2
  <2> QED BY <1>5, <2>1, <2>2
<1>9. mode' # "idle"
  BY <1>1
<1> QED BY <1>2, <1>8, <1>9 DEF FilesInv

(* Any other construct starts in the file that is open. *)
LEMMA StartsOtherFiles ==
  ASSUME IInv, FilesInv, StartsOther
  PROVE  FilesInv'
<1> DEFINE n == Len(calls)
<1>1. PICK c : /\ calls' = Append(calls, c)
               /\ c.node \notin {"import", "block"} /\ c.entry = CurrentDepths
               /\ mode = "eval" /\ mode' = "eval"
               /\ calls # << >> => Top.node # "import"
               /\ FilesKept
  BY DEF StartsOther
<1>2. /\ Len(calls') = n + 1 /\ n \in Nat
      /\ \A i \in 1 .. n : calls'[i] = calls[i]
      /\ calls'[n + 1] = c
      /\ FilesOrdered' /\ ImportsCounted'
  BY <1>1, CallAppended, FilesTyped DEF FilesInv
<1>3. Files' = Files /\ Globals' = Globals
  BY <1>1 DEF FilesKept, Files, Globals
<1>4. n > 0 => calls[n].node # "import"
  BY <1>1, FilesTyped
<1> HIDE DEF n
<1>5. \A i \in 1 .. n + 1 : i = n + 1 \/ (i \in 1 .. n /\ i # n + 1)
  BY <1>2
<1>6. ASSUME NEW i \in 1 .. n, calls[i].node = "import"
      PROVE  OwnFile(i)'
  <2> DEFINE d == FilesInside(calls[i]) + 1
  <2>1. i < n /\ i + 1 \in 1 .. n
    BY <1>2, <1>4, <1>6
  <2>2. calls[i + 1].node = "block" /\ Files[d] = calls[i + 1].self /\ Globals[d] = calls[i + 1].self
    BY <1>6, <2>1 DEF FilesInv, OwnFile, n
  <2> HIDE DEF d
  <2>3. calls'[i + 1] = calls[i + 1] /\ calls'[i] = calls[i] /\ i # Len(calls')
    BY <1>2, <1>5, <2>1
  <2> QED BY <1>3, <2>2, <2>3 DEF OwnFile, d, FilesInside
<1> QED BY <1>1, <1>2, <1>5, <1>6 DEF FilesInv, n

(* The root block of a module becomes that module's file. *)
LEMMA StartsBlockFiles ==
  ASSUME IInv, FilesInv, StartsBlock
  PROVE  FilesInv'
<1> DEFINE n == Len(calls)
           m == Len(fileStack)
<1>1. PICK c : /\ calls' = Append(calls, c)
               /\ c.node = "block" /\ c.entry = CurrentDepths /\ c.self = NextType
               /\ mode = "eval" /\ mode' = "eval"
               /\ fileType' = (IF fileType = Null THEN NextType ELSE fileType)
               /\ globalType' = (IF globalType = Null THEN NextType ELSE globalType)
               /\ UNCHANGED << fileStack, globalStack >>
  BY DEF StartsBlock
<1>2. /\ Len(calls') = n + 1 /\ n \in Nat
      /\ \A i \in 1 .. n : calls'[i] = calls[i]
      /\ calls'[n + 1] = c
      /\ FilesOrdered' /\ ImportsCounted'
  BY <1>1, CallAppended, FilesTyped DEF FilesInv
<1>3. c.self # Null
  <2>1. Len(heap) \in Nat
    BY DEF IInv, TypeOK, ContextTypeOK, HeapOK
  <2> QED BY <1>1, <2>1 DEF NextType, Null
<1>4. /\ m \in Nat
      /\ \A d \in 1 .. m : Files'[d] = Files[d] /\ Globals'[d] = Globals[d]
      /\ Files'[m + 1] = IF Files[m + 1] = Null THEN c.self ELSE Files[m + 1]
      /\ Globals'[m + 1] = IF Globals[m + 1] = Null THEN c.self ELSE Globals[m + 1]
  <2>1. fileStack \in Seq(Pointer) /\ globalStack \in Seq(Pointer) /\ m \in Nat /\ Len(globalStack) = m
    BY DEF IInv, TypeOK, ContextTypeOK
  <2>2. Files' = Append(fileStack, fileType') /\ Globals' = Append(globalStack, globalType')
    BY <1>1 DEF Files, Globals
  <2>3. Files'[m + 1] = fileType' /\ Globals'[m + 1] = globalType'
    BY <2>1, <2>2
  <2>4. \A d \in 1 .. m : Files'[d] = fileStack[d] /\ Globals'[d] = globalStack[d]
    BY <2>1, <2>2
  <2> QED BY <1>1, <2>1, <2>3, <2>4, FilesTyped
<1> HIDE DEF n, m
<1>5. \A i \in 1 .. n + 1 : i = n + 1 \/ (i \in 1 .. n /\ i # n + 1)
  BY <1>2
<1>6. ASSUME NEW i \in 1 .. n, calls[i].node = "import"
      PROVE  OwnFile(i)'
  <2> DEFINE d == FilesInside(calls[i]) + 1
  <2>1. d \in 1 .. m \/ d = m + 1
    <3>1. FilesInside(calls[i]) <= Len(fileStack) /\ FilesInside(calls[i]) \in Nat
      BY FilesBelowTop, FilesTyped DEF FilesInv, n
    <3> QED BY <1>4, <3>1 DEF m
  <2>2. OwnFile(i)
    BY <1>6 DEF FilesInv, n
  <2>3. calls'[i] = calls[i] /\ i # Len(calls')
    BY <1>2, <1>5
  <2>4. CASE i = n
    <3>1. Files[d] = Null /\ Globals[d] = Null
      BY <1>1, <2>2, <2>4 DEF OwnFile, n
    <3>2. d = m + 1
      BY <1>2, <2>4, FilesTyped DEF n, m
    <3> HIDE DEF d
    <3>3. Files'[d] = c.self /\ Globals'[d] = c.self
      BY <1>4, <3>1, <3>2
    <3>4. calls'[i + 1] = c
      BY <1>2, <2>4
    <3> QED BY <1>1, <2>3, <3>3, <3>4 DEF OwnFile, d, FilesInside
  <2>5. CASE i # n
    <3>1. i + 1 \in 1 .. n
      BY <1>2, <2>5
    <3>2. calls[i + 1].node = "block" /\ Files[d] = calls[i + 1].self /\ Globals[d] = calls[i + 1].self
      BY <2>2, <2>5 DEF OwnFile, n
    <3>3. calls[i + 1].self # Null
      BY <3>1, <3>2 DEF FilesInv, n
    <3> HIDE DEF d
    <3>4. Files'[d] = Files[d] /\ Globals'[d] = Globals[d]
      BY <1>4, <2>1, <3>2, <3>3
    <3>5. calls'[i + 1] = calls[i + 1]
      BY <1>2, <3>1
    <3> QED BY <2>3, <3>2, <3>4, <3>5 DEF OwnFile, d, FilesInside
  <2> QED BY <2>4, <2>5
<1> QED BY <1>1, <1>2, <1>3, <1>5, <1>6 DEF FilesInv, n

(* An activation ends in the file it was started in. *)
LEMMA EndsFiles ==
  ASSUME IInv, FilesInv, EndsImport \/ EndsOther
  PROVE  FilesInv'
<1> DEFINE n == Len(calls)
<1>1. /\ n \in Nat \ {0} /\ Len(calls') = n - 1
      /\ \A i \in 1 .. n - 1 : calls'[i] = calls[i]
      /\ FilesOrdered' /\ ImportsCounted'
      /\ calls # << >> /\ mode' = "return"
  BY CallRemoved DEF FilesInv, EndsImport, EndsOther
<1>2. \A i \in 1 .. n - 1 : Files'[FilesInside(calls[i]) + 1] = Files[FilesInside(calls[i]) + 1]
                           /\ Globals'[FilesInside(calls[i]) + 1] = Globals[FilesInside(calls[i]) + 1]
  <2> SUFFICES ASSUME NEW i \in 1 .. n - 1
               PROVE  /\ Files'[FilesInside(calls[i]) + 1] = Files[FilesInside(calls[i]) + 1]
                      /\ Globals'[FilesInside(calls[i]) + 1] = Globals[FilesInside(calls[i]) + 1]
    OBVIOUS
  <2>1. CASE EndsOther
    BY <2>1 DEF EndsOther, FilesKept, Files, Globals
  <2>2. CASE EndsImport
    <3> DEFINE d == FilesInside(calls[i]) + 1
               m == Len(fileStack)
    <3>1. i \in 1 .. n /\ i < n
      BY <1>1
    <3>2. m = calls[n].entry.files + 1 /\ calls[n].entry.files \in Nat /\ FilesInside(calls[i]) \in Nat
      BY <1>1, <2>2, <3>1, FilesTyped DEF EndsImport
    <3>3. FilesInside(calls[i]) <= calls[n].entry.files
      BY <3>1, FilesBelowTop DEF FilesInv
    <3>4. d \in 1 .. m /\ m \in Nat \ {0}
      BY <3>2, <3>3
    <3>5. Files[d] = fileStack[d] /\ Globals[d] = globalStack[d]
      BY <3>4, FilesTyped
    <3> HIDE DEF d, m
    <3>6. ASSUME NEW s \in Seq(Pointer), Len(s) = m
          PROVE  Append(Front(s), Last(s))[d] = s[d]
      <4>1. /\ Front(s) \in Seq(Pointer) /\ Len(Front(s)) = m - 1
            /\ \A k \in 1 .. m - 1 : Front(s)[k] = s[k]
            /\ Last(s) = s[m]
        BY <3>4, <3>6, FrontFacts DEF Last
      <4>2. CASE d = m
        <5>1. Append(Front(s), Last(s))[m] = Last(s)
          BY <3>4, <4>1
        <5> QED BY <4>1, <4>2, <5>1
      <4>3. CASE d \in 1 .. m - 1
        <5>1. Append(Front(s), Last(s))[d] = Front(s)[d]
          BY <3>4, <4>1, <4>3
        <5> QED BY <4>1, <4>3, <5>1
      <4>4. d = m \/ d \in 1 .. m - 1
        BY <3>4
      <4> QED BY <4>2, <4>3, <4>4, Zenon
    <3>7. Files'[d] = fileStack[d] /\ Globals'[d] = globalStack[d]
      <4>1. /\ fileStack \in Seq(Pointer) /\ Len(fileStack) = m
            /\ globalStack \in Seq(Pointer) /\ Len(globalStack) = m
        BY DEF IInv, TypeOK, ContextTypeOK, m
      <4>2. Files' = Append(Front(fileStack), Last(fileStack))
            /\ Globals' = Append(Front(globalStack), Last(globalStack))
        BY <2>2 DEF EndsImport, Files, Globals
      <4> QED BY <3>6, <4>1, <4>2
    <3> QED BY <3>5, <3>7 DEF d
  <2> QED BY <2>1, <2>2
<1> HIDE DEF n
<1>3. ASSUME NEW i \in 1 .. n - 1, calls[i].node = "import"
      PROVE  OwnFile(i)'
  <2> DEFINE d == FilesInside(calls[i]) + 1
  <2>1. i \in 1 .. n /\ i # n
    BY <1>1
  <2>2. calls[i + 1].node = "block" /\ Files[d] = calls[i + 1].self /\ Globals[d] = calls[i + 1].self
    BY <1>3, <2>1 DEF FilesInv, OwnFile, n
  <2>3. Files'[d] = Files[d] /\ Globals'[d] = Globals[d]
    BY <1>2
  <2> HIDE DEF d
  <2>4. calls'[i] = calls[i]
    BY <1>1
  <2>5. CASE i = Len(calls')
    BY <1>1, <2>5 DEF OwnFile
  <2>6. CASE i # Len(calls')
    <3>1. i + 1 \in 1 .. n - 1
      BY <1>1, <2>6
    <3>2. calls'[i + 1] = calls[i + 1]
      BY <1>1, <3>1
    <3> QED BY <2>2, <2>3, <2>4, <2>6, <3>2 DEF OwnFile, d, FilesInside
  <2> QED BY <2>5, <2>6
<1>4. \A i \in 1 .. n - 1 : i \in 1 .. n
  BY <1>1
<1> QED BY <1>1, <1>3, <1>4 DEF FilesInv, n

(* A step that starts and ends nothing keeps the files. *)
LEMMA KeepsFilesInv ==
  ASSUME IInv, FilesInv, KeepsFiles, EntersBody \/ KeepsCalls
  PROVE  FilesInv'
<1> DEFINE n == Len(calls)
<1>1. n \in Nat /\ Len(calls') = n /\ (n > 0 => calls # << >> /\ Top = calls[n])
  BY FilesTyped DEF KeepsFiles
<1>2. \A i \in 1 .. n : /\ calls'[i].node = calls[i].node
                        /\ calls'[i].entry = calls[i].entry
                        /\ FilesInside(calls'[i]) = FilesInside(calls[i])
                        /\ calls[i].node = "block" => calls'[i].self = calls[i].self
  <2>1. \A i \in 1 .. n : /\ calls'[i].node = calls[i].node
                          /\ calls'[i].entry = calls[i].entry
    BY DEF EntersBody, KeepsCalls, KeepsKinds
  <2>2. ASSUME NEW i \in 1 .. n, calls[i].node = "block"
        PROVE  calls'[i].self = calls[i].self
    <3>1. CASE KeepsCalls
      BY <2>2, <3>1 DEF KeepsCalls
    <3>2. CASE EntersBody
      <4>1. i # n
        BY <1>1, <2>2, <3>2 DEF EntersBody
      <4>2. i \in 1 .. n - 1
        BY <1>1, <4>1
      <4> QED BY <3>2, <4>2 DEF EntersBody
    <3> QED BY <3>1, <3>2
  <2> QED BY <2>1, <2>2 DEF FilesInside
<1>3. Files' = Files /\ Globals' = Globals
  BY DEF KeepsFiles, FilesKept, Files, Globals
<1> HIDE DEF n
<1>4. ASSUME NEW i \in 1 .. n, calls[i].node = "import"
      PROVE  OwnFile(i)'
  <2>1. OwnFile(i)
    BY <1>4 DEF FilesInv, n
  <2>2. CASE i = n
    <3>1. mode' = "eval" => mode = "eval"
      BY <1>1, <1>4, <2>2 DEF KeepsFiles
    <3> QED BY <1>1, <1>2, <1>3, <2>1, <2>2, <3>1 DEF OwnFile, n
  <2>3. CASE i # n
    <3>1. i + 1 \in 1 .. n
      BY <1>1, <2>3
    <3> QED BY <1>1, <1>2, <1>3, <2>1, <2>3, <3>1 DEF OwnFile, n
  <2> QED BY <2>2, <2>3
<1>5. FilesOrdered'
  <2>1. \A i \in 1 .. n : \A j \in i + 1 .. n : j \in 1 .. n
    BY <1>1
  <2> QED BY <1>1, <1>2, <2>1 DEF FilesInv, FilesOrdered, FilesInside, n
<1>6. ImportsCounted'
  <2>1. \A k \in 1 .. n : \A i \in 1 .. k : i \in 1 .. n /\ \A j \in i + 1 .. k : j \in 1 .. n
    BY <1>1
  <2> SUFFICES ASSUME NEW k \in 1 .. n
               PROVE  /\ (\A j \in 1 .. k : calls'[j].node # "import") => FilesInside(calls'[k]) = 0
                      /\ \A i \in 1 .. k :
                           /\ calls'[i].node = "import"
                           /\ \A j \in i + 1 .. k : calls'[j].node # "import"
                           => FilesInside(calls'[i]) = FilesInside(calls'[k])
    BY <1>1 DEF ImportsCounted, FilesInside
  <2>2. /\ (\A j \in 1 .. k : calls[j].node # "import") => FilesInside(calls[k]) = 0
        /\ \A i \in 1 .. k :
             calls[i].node = "import" /\ (\A j \in i + 1 .. k : calls[j].node # "import") =>
               FilesInside(calls[i]) = FilesInside(calls[k])
    BY DEF FilesInv, ImportsCounted, n
  <2> QED BY <1>2, <2>1, <2>2
<1> QED BY <1>1, <1>2, <1>4, <1>5, <1>6 DEF FilesInv, KeepsFiles, n

(* The innermost import, if there is one, is the one whose file is open.   *)
LEMMA ModuleRootFound ==
  ASSUME IInv, FilesInv
  PROVE  \A m : m = ModuleRoot - 1 =>
           /\ m \in 0 .. Len(calls) /\ ModuleRoot = m + 1
           /\ m = 0 => Len(fileStack) = 0
           /\ m # 0 => calls[m].node = "import" /\ FilesInside(calls[m]) = Len(fileStack)
<1> DEFINE I == {i \in 1 .. Len(calls) : calls[i].node = "import"}
           n == Len(calls)
           r == SelectLastInSeq(calls, LAMBDA c : c.node = "import")
<1>1. /\ n \in Nat /\ DOMAIN calls = 1 .. n
      /\ n > 0 => Len(fileStack) = FilesInside(calls[n])
      /\ n = 0 => Len(fileStack) = 0
  BY FilesTyped DEF IInv, TypeOK
<1>2. r = IF I # {} THEN Max(I) ELSE 0
  BY <1>1 DEF SelectLastInSeq
<1>3. \A i \in I : i \in 1 .. n /\ calls[i].node = "import"
  OBVIOUS
<1>4. I # {} => Max(I) \in I /\ \A i \in I : Max(I) >= i
  <2>1. I \in SUBSET (1 .. n)
    OBVIOUS
  <2>2. n \in Nat
    BY <1>1
  <2> HIDE DEF I, n
  <2>3. ASSUME I # {}
        PROVE  Max(I) \in I /\ \A i \in I : Max(I) >= i
    BY <2>1, <2>2, <2>3, MaxInSet
  <2> QED BY <2>3
<1>5. ModuleRoot = r + 1
  BY DEF ModuleRoot
<1> HIDE DEF r
<1>6. CASE I = {}
  <2>1. \A j \in 1 .. n : calls[j].node # "import"
    BY <1>6
  <2>2. Len(fileStack) = 0
    <3>1. CASE n = 0
      BY <1>1, <3>1
    <3>2. CASE n > 0
      <4>1. n \in 1 .. n
        BY <1>1, <3>2
      <4> QED BY <1>1, <2>1, <3>2, <4>1 DEF FilesInv, ImportsCounted
    <3> QED BY <1>1, <3>1, <3>2
  <2>3. r = 0
    BY <1>2, <1>6
  <2> QED BY <1>1, <1>5, <2>2, <2>3
<1>7. CASE I # {}
  <2>1. r \in I /\ \A i \in I : r >= i
    BY <1>2, <1>4, <1>7
  <2>2. r \in 1 .. n /\ calls[r].node = "import" /\ n \in 1 .. n
    BY <1>1, <1>3, <2>1
  <2>3. \A j \in r + 1 .. n : calls[j].node # "import"
    <3> SUFFICES ASSUME NEW j \in r + 1 .. n, calls[j].node = "import"
                 PROVE  FALSE
      OBVIOUS
    <3>1. j \in 1 .. n /\ j > r
      BY <1>1, <2>2
    <3>2. j \in I
      BY <3>1
    <3> HIDE DEF I
    <3>3. r >= j
      BY <2>1, <3>2
    <3> QED BY <1>1, <2>2, <3>1, <3>3
  <2>4. FilesInside(calls[r]) = FilesInside(calls[n])
    BY <2>2, <2>3 DEF FilesInv, ImportsCounted
  <2>5. n > 0 /\ r # 0 /\ r \in 0 .. n /\ (r + 1) - 1 = r
    BY <1>1, <2>2
  <2> QED BY <1>1, <1>5, <2>2, <2>4, <2>5
<1> QED BY <1>6, <1>7

(* While a module is typed $file and $global name the module's own root    *)
(* block, before and after an import of its own, however deep the imports  *)
(* nest and whichever of them fail (inference.c, IMPORT and BLOCK;         *)
(* type_context_push_file and its counterparts).                           *)
THEOREM ModulesNameThemselves == Spec => []ModuleNamesItself
<1>1. Init => FilesInv
  <2> SUFFICES ASSUME Init PROVE FilesInv
    OBVIOUS
  <2>1. calls = << >> /\ \A i \in 1 .. Len(calls) : FALSE
    BY DEF Init
  <2> QED BY <2>1, Zenon DEF FilesInv, FilesOrdered, ImportsCounted
<1>2. FilesInv /\ IInv /\ IInv' /\ [Next]_vars => FilesInv'
  <2> SUFFICES ASSUME FilesInv, IInv, IInv', [Next]_vars
               PROVE  FilesInv'
    OBVIOUS
  <2>1. ASSUME KeepsFiles
        PROVE  EntersBody \/ KeepsCalls
    <3>1. Len(calls) \in Nat /\ Len(calls') = Len(calls) /\ calls \in Seq(Call(Pointer))
      BY <2>1 DEF KeepsFiles, IInv, TypeOK
    <3>2. ~StartsCall
      BY <3>1 DEF StartsCall
    <3>3. ~EndsCall
      BY <3>1, FrontFacts DEF EndsCall
    <3> QED BY <3>2, <3>3, StepShapes DEF IInv
  <2> QED BY <2>1, FileShapes, StartsImportFiles, StartsOtherFiles, StartsBlockFiles, EndsFiles,
             KeepsFilesInv DEF IInv, FilesInv
<1>3. FilesInv /\ IInv => ModuleNamesItself
  <2> SUFFICES ASSUME FilesInv, IInv, fileStack # << >>, mode = "eval", ModuleRoot <= Len(calls)
               PROVE  fileType = calls[ModuleRoot].self /\ globalType = calls[ModuleRoot].self
    BY DEF ModuleNamesItself
  <2> DEFINE m == ModuleRoot - 1
  <2>1. /\ m \in 0 .. Len(calls) /\ ModuleRoot = m + 1
        /\ m = 0 => Len(fileStack) = 0
        /\ m # 0 => calls[m].node = "import" /\ FilesInside(calls[m]) = Len(fileStack)
    BY ModuleRootFound
  <2> HIDE DEF m
  <2>2. Len(fileStack) # 0 /\ Len(calls) \in Nat
    BY FilesTyped
  <2>3. m \in 1 .. Len(calls) /\ m # Len(calls)
    BY <2>1, <2>2
  <2>4. OwnFile(m)
    BY <2>1, <2>2, <2>3 DEF FilesInv
  <2> QED BY <2>1, <2>2, <2>3, <2>4, FilesTyped DEF OwnFile
<1> QED BY <1>1, <1>2, <1>3, InitEstablishes, StepKeepsInvariant, PTL DEF Spec

=============================================================================
