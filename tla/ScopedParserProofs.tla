------------------------- MODULE ScopedParserProofs -------------------------
(***************************************************************************)
(* Proofs about ScopedParser for any files, grammars, statements and depth *)
(* of imports: the invariant of the contexts on the C stack, and that the  *)
(* grammar in force is scoped as GrammarScopes says.                       *)
(***************************************************************************)
EXTENDS ScopedParser, SequenceFacts, TLAPS

(* A context that runs hooks is inside one of its file's statements. *)
InStatement(c) ==
  c.hooking => c.pos \in DOMAIN sources[c.file] /\ c.level <= Len(sources[c.file][c.pos].ops)

GrammarOK(c) == c.grammars # << >> /\ (c.use_builtins <=> Last(c.grammars) = Builtins)

(* A context that waits for a module is in the hook of an $import. *)
Waits(c) == c.hooking /\ c.level > 0

ContextOK(c) == c \in Context /\ InStatement(c) /\ GrammarOK(c)

IInv ==
  /\ TypeOK
  /\ \A i \in DOMAIN contexts : InStatement(contexts[i])
  /\ \A i \in DOMAIN contexts : GrammarOK(contexts[i])
  /\ \A i \in DOMAIN contexts : i < Len(contexts) \/ result # NoResult => Waits(contexts[i])
  /\ result # NoResult => contexts # << >>

NoSyntax(c) == "$syntax" \notin c.below /\ \A n \in ToSet(c.children) : "$syntax" \notin n.ops

(* What SyntaxDropped needs: a module's tree has no $syntax either, and is *)
(* put below an $import.                                                   *)
Importing(c) == sources[c.file][c.pos].ops[c.level] = "$import"

SyntaxInv ==
  /\ \A i \in DOMAIN contexts : NoSyntax(contexts[i])
  /\ "$syntax" \notin result.root.ops
  /\ \A i \in DOMAIN contexts : i < Len(contexts) \/ result # NoResult => Importing(contexts[i])

-----------------------------------------------------------------------------
(* Contexts *)

(* The innermost context is as the invariant says. *)
LEMMA TopOK ==
  ASSUME IInv, contexts # << >>
  PROVE  ContextOK(Top)
<1>1. contexts \in Seq(Context) /\ Len(contexts) \in DOMAIN contexts
  BY DEF IInv, TypeOK
<1>2. Top = contexts[Len(contexts)]
  BY DEF Top, Last
<1> QED BY <1>1, <1>2 DEF IInv, ContextOK

(* Every statement of a file has the parts that its kind needs. *)
LEMMA CurrentOK ==
  ASSUME IInv, contexts # << >>, Top.pos \in DOMAIN Source
  PROVE  /\ Current.ops \in Seq(Op)
         /\ Current.arg \in File \cup Grammar \cup {NoArg}
<1>1. Top.file \in File
  BY TopOK DEF ContextOK, Context
<1>2. Source \in Seq(Statement)
  BY <1>1 DEF Source, IInv, TypeOK
<1>3. Current \in Statement
  BY <1>2 DEF Current
<1> QED BY <1>3, StatementAssumption

(* The hook that runs is that of an operator of the statement. *)
LEMMA HookedOK ==
  ASSUME IInv, contexts # << >>, Waits(Top)
  PROVE  /\ Hooked \in Op
         /\ Top.level \in 1 .. Len(Current.ops)
         /\ Top.pos \in DOMAIN Source
<1>1. ContextOK(Top)
  BY TopOK
<1>2. Top.pos \in DOMAIN Source /\ Top.level <= Len(Current.ops)
  BY <1>1 DEF ContextOK, InStatement, Waits, Source, Current
<1>3. Current.ops \in Seq(Op)
  BY <1>2, CurrentOK
<1>4. Top.level \in Nat /\ Top.level > 0
  BY <1>1 DEF ContextOK, Context, Waits
<1>5. Top.level \in 1 .. Len(Current.ops)
  BY <1>2, <1>3, <1>4
<1> QED BY <1>2, <1>3, <1>5 DEF Hooked

(* Keeping or dropping a node goes on to the operator around it. *)
LEMMA KeepDropOK ==
  ASSUME IInv, contexts # << >>, Waits(Top), NEW n \in Node
  PROVE  ContextOK(Keep(n)) /\ ContextOK(Drop)
<1>1. ContextOK(Top)
  BY TopOK
<1>2. Hooked \in Op /\ Top.level \in 1 .. Len(Current.ops) /\ Top.pos \in DOMAIN Source
  BY HookedOK
<1>3. Current.ops \in Seq(Op)
  BY <1>2, CurrentOK
<1>4. Top \in Context /\ Top.level - 1 \in Nat /\ Top.level - 1 <= Len(Current.ops)
  BY <1>1, <1>2, <1>3 DEF ContextOK
<1>5. /\ Top.below \cup n.ops \cup {Hooked} \in SUBSET Op
      /\ Top.built \cup n.built \in SUBSET Op
  BY <1>2, <1>4 DEF Context, Node
<1>6. Keep(n) \in Context /\ Drop \in Context
  BY <1>4, <1>5 DEF Keep, Drop, Context
<1>7. InStatement(Keep(n)) /\ InStatement(Drop)
  BY <1>2, <1>4 DEF InStatement, Keep, Drop, Context, Source, Current
<1>8. GrammarOK(Keep(n)) /\ GrammarOK(Drop)
  BY <1>1, <1>4 DEF GrammarOK, ContextOK, Keep, Drop, Context
<1> QED BY <1>6, <1>7, <1>8 DEF ContextOK

(* The flag follows the grammar that is pushed or replaced. *)
LEMMA ReplaceGrammarOK ==
  ASSUME NEW c \in Context, c.grammars # << >>, NEW g \in Grammar
  PROVE  /\ ReplaceGrammar(c, g) \in Context /\ GrammarOK(ReplaceGrammar(c, g))
         /\ InForce(ReplaceGrammar(c, g)) = g
<1> DEFINE t == Append(Front(c.grammars), g)
<1>1. c.grammars \in Seq(Grammar \cup {Builtins})
  BY DEF Context
<1>2. /\ t \in Seq(Grammar \cup {Builtins}) /\ t # << >>
      /\ Len(t) = Len(c.grammars) /\ t[Len(c.grammars)] = g
  <2>1. g \in Grammar \cup {Builtins}
    OBVIOUS
  <2> QED BY <1>1, <2>1, ReplaceLast
<1>3. Last(t) = g
  BY <1>2 DEF Last
<1>4. ReplaceGrammar(c, g) = [c EXCEPT !.grammars = t, !.use_builtins = FALSE]
  BY DEF ReplaceGrammar
<1> HIDE DEF t
<1>5. /\ ReplaceGrammar(c, g) \in Context
      /\ ReplaceGrammar(c, g).grammars = t /\ ReplaceGrammar(c, g).use_builtins = FALSE
  BY <1>2, <1>4 DEF Context
<1> QED BY <1>2, <1>3, <1>5, GrammarAssumption DEF GrammarOK, InForce

(* A file starts with the builtins on top. *)
LEMMA PushBuiltinsOK ==
  ASSUME NEW c \in Context, ~c.hooking
  PROVE  /\ ContextOK(PushGrammar(c, Builtins))
         /\ InForce(PushGrammar(c, Builtins)) = Builtins
<1> DEFINE t == Append(c.grammars, Builtins)
<1>1. c.grammars \in Seq(Grammar \cup {Builtins})
  BY DEF Context
<1>2. /\ t \in Seq(Grammar \cup {Builtins}) /\ Len(t) = Len(c.grammars) + 1
      /\ t[Len(c.grammars) + 1] = Builtins
  BY <1>1, AppendFacts
<1>3. t # << >> /\ Last(t) = Builtins
  BY <1>1, <1>2 DEF Last
<1>4. PushGrammar(c, Builtins) = [c EXCEPT !.grammars = t, !.use_builtins = TRUE]
  BY DEF PushGrammar
<1> HIDE DEF t
<1>5. /\ PushGrammar(c, Builtins) \in Context
      /\ PushGrammar(c, Builtins).grammars = t
      /\ PushGrammar(c, Builtins).use_builtins = TRUE
      /\ PushGrammar(c, Builtins).hooking = FALSE
  BY <1>2, <1>4 DEF Context
<1> QED BY <1>3, <1>5 DEF ContextOK, InStatement, GrammarOK, InForce

LEMMA EmptyContextOK ==
  ASSUME NEW f \in File
  PROVE  EmptyContext(f) \in Context /\ ~EmptyContext(f).hooking
  BY DEF EmptyContext, Context

-----------------------------------------------------------------------------
(* Trees *)

LEMMA RootOK ==
  ASSUME NEW children \in Seq(Node)
  PROVE  RootOf(children) \in Node
<1>1. \A n \in ToSet(children) : n \in Node
  BY DEF ToSet
<1>2. CASE Len(children) = 1 /\ children[1].kind # "group"
  <2>1. children[1] \in Node
    BY <1>2
  <2> QED BY <1>2, <2>1 DEF RootOf
<1>3. CASE ~(Len(children) = 1 /\ children[1].kind # "group")
  <2>1. /\ UNION {n.ops : n \in ToSet(children)} \in SUBSET Op
        /\ UNION {n.built : n \in ToSet(children)} \in SUBSET Op
    BY <1>1 DEF Node
  <2> QED BY <1>3, <2>1 DEF RootOf, Node
<1> QED BY <1>2, <1>3

LEMMA BoundedSeqInSeq ==
  ASSUME NEW S, NEW n \in Nat
  PROVE  BoundedSeq(S, n) \subseteq Seq(S)
  BY DEF BoundedSeq, SeqOf

(* The nodes of a grammar join the children, and name only operators. *)
LEMMA TemplatesOK ==
  ASSUME NEW children \in Seq(Node), NEW nodes \in BoundedSeq(Template, 2)
  PROVE  /\ children \o nodes \in Seq(Node)
         /\ UNION {Names(n) : n \in ToSet(nodes)} \subseteq Op
         /\ \A n \in ToSet(children \o nodes) :
              n \in ToSet(children) \/ "$syntax" \notin n.ops
<1>1. nodes \in Seq(Template)
  BY BoundedSeqInSeq
<1>2. Template \subseteq Node
  BY TemplateAssumption
<1>3. nodes \in Seq(Node)
  BY <1>1, <1>2
<1>4. \A n \in ToSet(nodes) : n \in Node /\ "$syntax" \notin n.ops
  BY <1>1, TemplateAssumption DEF ToSet
<1>5. \A n \in ToSet(children \o nodes) : n \in ToSet(children) \/ n \in ToSet(nodes)
  BY <1>3 DEF ToSet
<1> QED BY <1>3, <1>4, <1>5 DEF Node, Names

-----------------------------------------------------------------------------
(* Steps *)

(* A step that replaces the innermost context by a sound one. *)
LEMMA TopStep ==
  ASSUME IInv, contexts # << >>, NEW c, ContextOK(c), SetTop(c),
         UNCHANGED << sources, verdict >>, record' \in Op \cup {NoOp}, result' = NoResult
  PROVE  IInv'
<1>1. contexts \in Seq(Context) /\ c \in Context
  BY DEF IInv, TypeOK, ContextOK
<1>2. /\ contexts' \in Seq(Context) /\ contexts' # << >>
      /\ Len(contexts') = Len(contexts) /\ DOMAIN contexts' = DOMAIN contexts
      /\ \A i \in 1 .. Len(contexts) - 1 : contexts'[i] = contexts[i]
      /\ contexts'[Len(contexts)] = c
  BY <1>1, ReplaceLast DEF SetTop
<1>3. \A i \in DOMAIN contexts' :
        contexts'[i] = c \/ (i < Len(contexts) /\ contexts'[i] = contexts[i])
  BY <1>1, <1>2
<1>4. TypeOK'
  BY <1>2 DEF IInv, TypeOK, NoResult, NoNode, Node, Op
<1>5. (\A i \in DOMAIN contexts : InStatement(contexts[i]))'
  BY <1>1, <1>2, <1>3 DEF IInv, InStatement, ContextOK
<1>6. (\A i \in DOMAIN contexts : GrammarOK(contexts[i]))'
  BY <1>1, <1>2, <1>3 DEF IInv, GrammarOK, ContextOK
<1>7. (\A i \in DOMAIN contexts : i < Len(contexts) \/ result # NoResult => Waits(contexts[i]))'
  BY <1>1, <1>2 DEF IInv, Waits
<1> QED BY <1>4, <1>5, <1>6, <1>7 DEF IInv

(* A file that ends gives its place back to the one that imports it. *)
LEMMA EndFileStep ==
  ASSUME IInv, Reading, NEW is \in {"parsed", "failed"}, NEW root \in Node,
         EndFile(is, root), record' \in Op \cup {NoOp}
  PROVE  IInv'
<1>1. contexts \in Seq(Context) /\ contexts # << >> /\ result = NoResult /\ verdict = "running"
  BY DEF IInv, TypeOK, Reading, Running
<1>2. /\ contexts' \in Seq(Context) /\ Len(contexts') = Len(contexts) - 1
      /\ \A i \in 1 .. Len(contexts) - 1 : contexts'[i] = contexts[i]
  BY <1>1, FrontFacts DEF EndFile
<1>3. \A i \in DOMAIN contexts' :
        i \in DOMAIN contexts /\ i < Len(contexts) /\ contexts'[i] = contexts[i]
  BY <1>1, <1>2
<1>4. sources' = sources
  BY DEF EndFile
<1>5. TypeOK' /\ (result' # NoResult => contexts' # << >>)
  <2>1. CASE Len(contexts) = 1
    BY <1>1, <1>2, <1>4, <2>1 DEF EndFile, IInv, TypeOK
  <2>2. CASE Len(contexts) # 1
    <3>1. contexts' # << >>
      BY <1>1, <1>2, <2>2
    <3> QED BY <1>1, <1>2, <1>4, <2>2, <3>1 DEF EndFile, IInv, TypeOK
  <2> QED BY <2>1, <2>2
<1>6. (\A i \in DOMAIN contexts : InStatement(contexts[i]))'
  BY <1>3, <1>4 DEF IInv, InStatement
<1>7. (\A i \in DOMAIN contexts : GrammarOK(contexts[i]))'
  BY <1>3 DEF IInv, GrammarOK
<1>8. (\A i \in DOMAIN contexts : i < Len(contexts) \/ result # NoResult => Waits(contexts[i]))'
  BY <1>3 DEF IInv, Waits
<1> QED BY <1>5, <1>6, <1>7, <1>8 DEF IInv

(* The module is parsed in a context of its own. *)
LEMMA HookImportStep ==
  ASSUME IInv, HookImport
  PROVE  IInv'
<1>1. /\ contexts \in Seq(Context) /\ contexts # << >> /\ result = NoResult
      /\ verdict = "running" /\ Waits(Top)
  BY DEF IInv, TypeOK, HookImport, AtImport, AtHook, Running, Waits
<1>2. Operand \in File
  BY DEF HookImport, AtImport
<1> DEFINE c == ModuleContext(Operand)
<1>3. ContextOK(c)
  BY <1>2, EmptyContextOK, PushBuiltinsOK DEF ModuleContext
<1>4. c \in Context /\ contexts' = Append(contexts, c) /\ UNCHANGED << sources, result, verdict >>
  BY <1>3 DEF ContextOK, HookImport
<1> HIDE DEF c
<1>5. /\ contexts' \in Seq(Context) /\ Len(contexts') = Len(contexts) + 1
      /\ \A i \in 1 .. Len(contexts) : contexts'[i] = contexts[i]
      /\ contexts'[Len(contexts) + 1] = c
  BY <1>1, <1>4, AppendFacts
<1>6. \A i \in DOMAIN contexts' :
        \/ i = Len(contexts') /\ contexts'[i] = c
        \/ i \in DOMAIN contexts /\ contexts'[i] = contexts[i]
  BY <1>1, <1>5
<1>7. contexts' # << >> /\ record' \in Op
  BY <1>1, <1>5 DEF HookImport, Op
<1>8. TypeOK'
  BY <1>4, <1>5, <1>7 DEF IInv, TypeOK
<1>9. (\A i \in DOMAIN contexts : InStatement(contexts[i]))'
  BY <1>3, <1>4, <1>6 DEF IInv, InStatement, ContextOK
<1>10. (\A i \in DOMAIN contexts : GrammarOK(contexts[i]))'
  BY <1>3, <1>6 DEF IInv, GrammarOK, ContextOK
<1>11. \A i \in DOMAIN contexts : Waits(contexts[i])
  BY <1>1 DEF IInv, Top, Last
<1>12. (\A i \in DOMAIN contexts : i < Len(contexts) \/ result # NoResult => Waits(contexts[i]))'
  BY <1>1, <1>4, <1>5, <1>11 DEF Waits
<1> QED BY <1>1, <1>4, <1>8, <1>9, <1>10, <1>12 DEF IInv

(* A step of a file that is being read has a statement to read, and one of *)
(* a hook an operator.                                                     *)
LEMMA AtStatementOK ==
  ASSUME IInv, AtStatement
  PROVE  contexts # << >> /\ Top.pos \in DOMAIN Source
<1>1. contexts # << >>
  BY DEF IInv, TypeOK, AtStatement, Reading, Running
<1>2. Source \in Seq(Statement) /\ Top.pos \in Nat \ {0}
  BY <1>1, TopOK DEF Source, ContextOK, Context, IInv, TypeOK
<1>3. Top.pos <= Len(Source)
  BY DEF AtStatement, AtEnd
<1> QED BY <1>1, <1>2, <1>3

LEMMA AtHookOK ==
  ASSUME IInv, AtHook
  PROVE  contexts # << >> /\ Waits(Top) /\ Hooked \in Op /\ result = NoResult
<1>1. contexts # << >> /\ Waits(Top) /\ result = NoResult
  BY DEF IInv, TypeOK, AtHook, Running, Waits
<1> QED BY <1>1, HookedOK

(* The statement is parsed; its hooks are next. *)
LEMMA ReadStatementStep ==
  ASSUME IInv, ReadStatement
  PROVE  IInv'
<1>1. /\ contexts # << >> /\ Top.pos \in DOMAIN Source /\ result = NoResult
      /\ UNCHANGED << sources, result, verdict >>
  BY AtStatementOK DEF ReadStatement, AtStatement, Reading, Running
<1>2. ContextOK(Top) /\ Current.ops \in Seq(Op)
  BY <1>1, TopOK, CurrentOK
<1> DEFINE c == [Top EXCEPT !.hooking = TRUE, !.level = Len(Current.ops),
                           !.below = {}, !.built = {}]
<1>3. c \in Context
  <2>1. Len(Current.ops) \in Nat
    BY <1>2
  <2>2. Top \in Context
    BY <1>2 DEF ContextOK
  <2> QED BY <2>1, <2>2 DEF Context
<1>4. InStatement(c) /\ GrammarOK(c)
  <2>1. Top \in Context
    BY <1>2 DEF ContextOK
  <2>2. /\ c.file = Top.file /\ c.pos = Top.pos /\ c.level = Len(Current.ops)
        /\ c.grammars = Top.grammars /\ c.use_builtins = Top.use_builtins
    BY <2>1 DEF Context
  <2> HIDE DEF c
  <2>3. Len(Current.ops) \in Nat
    BY <1>2
  <2>4. sources[c.file] = Source /\ sources[c.file][c.pos] = Current
    BY <2>2 DEF Source, Current
  <2>5. InStatement(c)
    BY <1>1, <2>2, <2>3, <2>4 DEF InStatement
  <2> QED BY <1>2, <2>2, <2>5 DEF GrammarOK, ContextOK
<1>5. record' \in Op \cup {NoOp}
  <2>1. CASE Current.ops = << >>
    BY <2>1 DEF ReadStatement, IInv, TypeOK
  <2>2. CASE Current.ops # << >>
    <3>1. Current.ops[1] \in Op
      BY <1>2, <2>2
    <3> QED BY <2>2, <3>1 DEF ReadStatement
  <2> QED BY <2>1, <2>2
<1>6. SetTop(c)
  BY DEF ReadStatement
<1> HIDE DEF c
<1>7. ContextOK(c)
  BY <1>3, <1>4 DEF ContextOK
<1> QED BY <1>1, <1>5, <1>6, <1>7, TopStep

(* The grammar's nodes are added and the file is at its end. *)
LEMMA ParseWithGrammarStep ==
  ASSUME IInv, ParseWithGrammar
  PROVE  IInv'
<1>1. /\ contexts # << >> /\ result = NoResult
      /\ UNCHANGED << sources, result, verdict >> /\ ~Top.hooking
  BY AtStatementOK DEF ParseWithGrammar, AtStatement, Reading, Running
<1>2. ContextOK(Top)
  BY <1>1, TopOK
<1>3. Top \in Context /\ Top.children \in Seq(Node)
  BY <1>2 DEF ContextOK, Context
<1>4. Source \in Seq(Statement)
  BY <1>3 DEF Source, Context, IInv, TypeOK
<1>5. PICK nodes \in BoundedSeq(Template, 2) :
        /\ SetTop([Top EXCEPT !.pos = Len(Source) + 1, !.children = Top.children \o nodes])
        /\ record' \in {record} \cup UNION {Names(n) : n \in ToSet(nodes)}
  BY DEF ParseWithGrammar
<1>6. /\ Top.children \o nodes \in Seq(Node)
      /\ UNION {Names(n) : n \in ToSet(nodes)} \subseteq Op
  BY <1>3, TemplatesOK
<1> DEFINE c == [Top EXCEPT !.pos = Len(Source) + 1, !.children = Top.children \o nodes]
<1>7. Len(Source) + 1 \in Nat \ {0}
  BY <1>4
<1>8. /\ c \in Context /\ ~c.hooking
      /\ c.grammars = Top.grammars /\ c.use_builtins = Top.use_builtins
  BY <1>1, <1>3, <1>6, <1>7 DEF Context
<1>9. SetTop(c)
  BY <1>5
<1> HIDE DEF c
<1>10. ContextOK(c)
  BY <1>2, <1>8 DEF ContextOK, InStatement, GrammarOK
<1>11. record' \in Op \cup {NoOp}
  BY <1>5, <1>6 DEF IInv, TypeOK
<1> QED BY <1>1, <1>9, <1>10, <1>11, TopStep

(* The statement's hooks have run. *)
LEMMA StatementDoneStep ==
  ASSUME IInv, StatementDone
  PROVE  IInv'
<1>1. /\ contexts # << >> /\ result = NoResult
      /\ UNCHANGED << sources, record, result, verdict >>
  BY DEF StatementDone, Running, IInv, TypeOK
<1>2. ContextOK(Top)
  BY <1>1, TopOK
<1>3. Top \in Context /\ Top.children \in Seq(Node) /\ Top.below \in SUBSET Op
      /\ Top.built \in SUBSET Op
  BY <1>2 DEF ContextOK, Context
<1> DEFINE kept == IF IsKept THEN Append(Top.children, StatementNode) ELSE Top.children
           c == [Top EXCEPT !.hooking = FALSE, !.pos = Top.pos + 1, !.below = {}, !.built = {},
                            !.children = kept]
<1>4. StatementNode \in Node
  BY <1>3 DEF StatementNode, Node
<1>5. kept \in Seq(Node)
  BY <1>3, <1>4, AppendFacts
<1>6. SetTop(c)
  BY DEF StatementDone
<1> HIDE DEF kept
<1>7. Top.pos + 1 \in Nat \ {0}
  BY <1>3 DEF Context
<1>8. /\ c \in Context /\ ~c.hooking
      /\ c.grammars = Top.grammars /\ c.use_builtins = Top.use_builtins
  BY <1>3, <1>5, <1>7 DEF Context
<1> HIDE DEF c
<1>9. ContextOK(c)
  BY <1>2, <1>8 DEF ContextOK, InStatement, GrammarOK
<1>10. record' \in Op \cup {NoOp}
  BY <1>1 DEF IInv, TypeOK
<1> QED BY <1>1, <1>6, <1>9, <1>10, TopStep

(* The file ends, whether it was parsed or not. *)
LEMMA FileParsedStep ==
  ASSUME IInv, FileParsed
  PROVE  IInv'
<1>1. contexts # << >>
  BY DEF FileParsed, Reading, Running, IInv, TypeOK
<1>2. Top.children \in Seq(Node)
  BY <1>1, TopOK DEF ContextOK, Context
<1>3. RootOf(Top.children) \in Node
  BY <1>2, RootOK
<1>4. record' \in Op \cup {NoOp}
  BY <1>3 DEF FileParsed, IInv, TypeOK, Node, Names
<1> QED BY <1>3, <1>4, EndFileStep DEF FileParsed

LEMMA FileFailsStep ==
  ASSUME IInv, FileFails
  PROVE  IInv'
<1>1. NoNode \in Node
  BY DEF NoNode, Node
<1>2. record' \in Op \cup {NoOp} /\ Reading /\ EndFile("failed", NoNode)
  BY DEF FileFails, AtStatement, IInv, TypeOK
<1> QED BY <1>1, <1>2, EndFileStep

LEMMA NoNodeOK == NoNode \in Node
BY DEF NoNode, Node

(* A hook keeps or drops its node, and looks up an operator. *)
LEMMA HookNothingStep ==
  ASSUME IInv, HookNothing
  PROVE  IInv'
<1>1. contexts # << >> /\ Waits(Top) /\ Hooked \in Op /\ result = NoResult
  BY AtHookOK DEF HookNothing
<1>2. ContextOK(Keep(NoNode))
  BY <1>1, NoNodeOK, KeepDropOK
<1>3. record' \in Op \cup {NoOp}
  BY <1>1 DEF HookNothing, IInv, TypeOK
<1> QED BY <1>1, <1>2, <1>3, TopStep DEF HookNothing

LEMMA HookImportFailsStep ==
  ASSUME IInv, HookImportFails
  PROVE  IInv'
<1>1. contexts # << >> /\ Waits(Top) /\ result = NoResult
  BY AtHookOK DEF HookImportFails, AtImport
<1>2. ContextOK(Keep(NoNode))
  BY <1>1, NoNodeOK, KeepDropOK
<1>3. record' \in Op \cup {NoOp}
  BY DEF HookImportFails, Op
<1> QED BY <1>1, <1>2, <1>3, TopStep DEF HookImportFails

(* Dropping a node leaves the grammars alone. *)
LEMMA DropGrammars ==
  ASSUME IInv, contexts # << >>, Waits(Top)
  PROVE  /\ Drop \in Context /\ Drop.grammars # << >> /\ ContextOK(Drop)
         /\ InForce(Drop) = InForce(Top)
<1>1. ContextOK(Drop) /\ ContextOK(Top)
  BY NoNodeOK, KeepDropOK, TopOK
<1>2. Drop.grammars = Top.grammars /\ Drop.use_builtins = Top.use_builtins
  BY <1>1 DEF ContextOK, Context, Drop
<1> QED BY <1>1, <1>2 DEF ContextOK, GrammarOK, InForce

LEMMA SyntaxContextOK ==
  ASSUME IInv, contexts # << >>, Waits(Top), NEW g \in Grammar
  PROVE  /\ ContextOK(ReplaceGrammar(Drop, g))
         /\ InForce(ReplaceGrammar(Drop, g)) = g
<1>1. /\ Drop \in Context /\ Drop.grammars # << >> /\ ContextOK(Drop)
  BY DropGrammars
<1> DEFINE c == ReplaceGrammar(Drop, g)
<1>2. c \in Context /\ GrammarOK(c) /\ InForce(c) = g
  BY <1>1, ReplaceGrammarOK
<1>3. /\ c.file = Drop.file /\ c.pos = Drop.pos /\ c.hooking = Drop.hooking
      /\ c.level = Drop.level
  BY <1>1 DEF ReplaceGrammar, Context
<1> HIDE DEF c
<1>4. InStatement(c)
  BY <1>1, <1>3 DEF ContextOK, InStatement
<1> QED BY <1>2, <1>4 DEF ContextOK, c

LEMMA HookSyntaxStep ==
  ASSUME IInv, HookSyntax
  PROVE  IInv'
<1>1. contexts # << >> /\ Waits(Top) /\ result = NoResult
  BY AtHookOK DEF HookSyntax
<1>2. record' \in Op \cup {NoOp} /\ UNCHANGED << sources, result, verdict >>
  BY DEF HookSyntax, Op
<1>3. CASE Operand \in Grammar /\ SetTop(ReplaceGrammar(Drop, Operand))
  BY <1>1, <1>2, <1>3, SyntaxContextOK, TopStep
<1>4. CASE SetTop(Drop)
  BY <1>1, <1>2, <1>4, DropGrammars, TopStep
<1> QED BY <1>3, <1>4 DEF HookSyntax

LEMMA ImportDoneStep ==
  ASSUME IInv, ImportDone
  PROVE  IInv'
<1>1. contexts # << >> /\ Waits(Top) /\ UNCHANGED << sources, verdict >> /\ result' = NoResult
  <2>1. contexts # << >> /\ result # NoResult
    BY DEF ImportDone, IInv
  <2>2. Len(contexts) \in DOMAIN contexts
    BY <2>1 DEF IInv, TypeOK
  <2> QED BY <2>1, <2>2 DEF ImportDone, IInv, Top, Last
<1>2. Imported \in Node
  BY NoNodeOK DEF Imported, IInv, TypeOK
<1>3. ContextOK(Keep(Imported)) /\ ContextOK(Drop)
  BY <1>1, <1>2, KeepDropOK
<1>4. record' \in Op \cup {NoOp}
  BY <1>2 DEF ImportDone, IInv, TypeOK, Node, Names
<1>5. SetTop(Drop) \/ SetTop(Keep(Imported))
  BY DEF ImportDone
<1> QED BY <1>1, <1>3, <1>4, <1>5, TopStep

LEMMA StackOverflowStep ==
  ASSUME IInv, StackOverflow
  PROVE  IInv'
  BY DEF StackOverflow, IInv, TypeOK, InStatement, GrammarOK, Waits

LEMMA StutterStep ==
  ASSUME IInv, UNCHANGED vars
  PROVE  IInv'
  BY DEF vars, IInv, TypeOK, InStatement, GrammarOK, Waits

-----------------------------------------------------------------------------
(* Grammars in force *)

Forces == [i \in DOMAIN contexts |-> InForce(contexts[i])]

LEMMA ForcesOK ==
  ASSUME IInv
  PROVE  /\ Forces \in Seq(Grammar \cup {Builtins})
         /\ Len(Forces) = Len(contexts)
         /\ \A i \in 1 .. Len(contexts) : Forces[i] = InForce(contexts[i])
<1>1. contexts \in Seq(Context)
  BY DEF IInv, TypeOK
<1>2. \A i \in 1 .. Len(contexts) : InForce(contexts[i]) \in Grammar \cup {Builtins}
  <2> TAKE i \in 1 .. Len(contexts)
  <2>1. contexts[i] \in Context /\ GrammarOK(contexts[i])
    BY <1>1 DEF IInv
  <2>2. Last(contexts[i].grammars) \in Grammar \cup {Builtins}
    BY <2>1, LastInSet DEF Context, GrammarOK
  <2> QED BY <2>2 DEF InForce
<1>3. Forces = [i \in 1 .. Len(contexts) |-> InForce(contexts[i])]
  BY <1>1 DEF Forces
<1> QED BY <1>1, <1>2, <1>3

LEMMA PrimedForcesOK ==
  ASSUME IInv'
  PROVE  /\ Forces' \in Seq(Grammar \cup {Builtins})
         /\ Len(Forces') = Len(contexts')
         /\ \A i \in 1 .. Len(contexts') : Forces'[i] = InForce(contexts'[i])
<1>1. (/\ Forces \in Seq(Grammar \cup {Builtins})
       /\ Len(Forces) = Len(contexts)
       /\ \A i \in 1 .. Len(contexts) : Forces[i] = InForce(contexts[i]))'
  BY ForcesOK, PTL
<1> QED BY <1>1 DEF InForce

(* A step of the innermost file changes at most the grammar in force there. *)
LEMMA TopForce ==
  ASSUME IInv, IInv', contexts # << >>, NEW c \in Context, SetTop(c)
  PROVE  Forces' = [Forces EXCEPT ![Len(Forces)] = InForce(c)]
<1>1. contexts \in Seq(Context)
  BY DEF IInv, TypeOK
<1>2. /\ Len(contexts') = Len(contexts)
      /\ \A i \in 1 .. Len(contexts) - 1 : contexts'[i] = contexts[i]
      /\ contexts'[Len(contexts)] = c
  BY <1>1, ReplaceLast DEF SetTop
<1>3. /\ Forces' \in Seq(Grammar \cup {Builtins}) /\ Len(Forces') = Len(contexts')
      /\ \A i \in 1 .. Len(contexts') : Forces'[i] = InForce(contexts'[i])
  BY PrimedForcesOK
<1> DEFINE f == [Forces EXCEPT ![Len(Forces)] = InForce(c)]
<1>4. \A i \in 1 .. Len(contexts) :
        f[i] = IF i = Len(contexts) THEN InForce(c) ELSE InForce(contexts[i])
  BY ForcesOK
<1>5. f = [i \in 1 .. Len(contexts) |-> f[i]]
  BY ForcesOK
<1> HIDE DEF f
<1>6. Forces' = [i \in 1 .. Len(contexts) |-> Forces'[i]]
  BY <1>2, <1>3
<1>7. \A i \in 1 .. Len(contexts) : Forces'[i] = f[i]
  BY <1>1, <1>2, <1>3, <1>4
<1> QED BY <1>5, <1>6, <1>7 DEF f

(* A step that changes no grammar is a stutter of GrammarScopes. *)
LEMMA SameForce ==
  ASSUME IInv, IInv', contexts # << >>, NEW c \in Context, SetTop(c), InForce(c) = InForce(Top)
  PROVE  UNCHANGED Forces
<1>1. Forces' = [Forces EXCEPT ![Len(Forces)] = InForce(c)]
  BY TopForce
<1>2. contexts \in Seq(Context) /\ Top = contexts[Len(contexts)]
  BY DEF IInv, TypeOK, Top, Last
<1>3. Forces[Len(Forces)] = InForce(Top)
  BY <1>2, ForcesOK
<1> HIDE DEF Forces
<1> QED BY <1>1, <1>3, ForcesOK

LEMMA KeepDropForce ==
  ASSUME IInv, contexts # << >>, Waits(Top), NEW n \in Node
  PROVE  /\ Keep(n) \in Context /\ InForce(Keep(n)) = InForce(Top)
         /\ Drop \in Context /\ InForce(Drop) = InForce(Top)
<1>1. /\ Keep(n) \in Context /\ Top \in Context
      /\ Drop \in Context /\ InForce(Drop) = InForce(Top)
  BY KeepDropOK, TopOK, DropGrammars DEF ContextOK
<1>2. /\ Keep(n).grammars = Top.grammars
      /\ Keep(n).use_builtins = Top.use_builtins
  BY <1>1 DEF Keep, Context
<1> QED BY <1>1, <1>2 DEF InForce

(* Reading a statement and ending it leave the grammars alone. *)
LEMMA ReadingForce ==
  ASSUME IInv, IInv', ReadStatement \/ ParseWithGrammar \/ StatementDone
  PROVE  UNCHANGED Forces
<1>1. contexts # << >>
  BY DEF IInv, TypeOK, ReadStatement, ParseWithGrammar, StatementDone,
         AtStatement, Reading, Running
<1>2. Top \in Context /\ contexts \in Seq(Context)
  BY <1>1, TopOK DEF ContextOK, IInv, TypeOK
<1>3. PICK c : /\ SetTop(c)
               /\ c.grammars = Top.grammars /\ c.use_builtins = Top.use_builtins
  <2>1. CASE ReadStatement
    <3> DEFINE c == [Top EXCEPT !.hooking = TRUE, !.level = Len(Current.ops),
                           !.below = {}, !.built = {}]
    <3>1. SetTop(c)
      BY <2>1 DEF ReadStatement
    <3>2. c.grammars = Top.grammars /\ c.use_builtins = Top.use_builtins
      BY <1>2 DEF Context
    <3> HIDE DEF c
    <3> QED BY <3>1, <3>2
  <2>2. CASE ParseWithGrammar
    <3>1. PICK nodes \in BoundedSeq(Template, 2) :
            SetTop([Top EXCEPT !.pos = Len(Source) + 1, !.children = Top.children \o nodes])
      BY <2>2 DEF ParseWithGrammar
    <3> DEFINE c == [Top EXCEPT !.pos = Len(Source) + 1, !.children = Top.children \o nodes]
    <3>2. c.grammars = Top.grammars /\ c.use_builtins = Top.use_builtins
      BY <1>2 DEF Context
    <3>3. SetTop(c)
      BY <3>1
    <3> HIDE DEF c
    <3> QED BY <3>2, <3>3
  <2>3. CASE StatementDone
    <3> DEFINE kept == IF IsKept THEN Append(Top.children, StatementNode) ELSE Top.children
               c == [Top EXCEPT !.hooking = FALSE, !.pos = Top.pos + 1, !.below = {}, !.built = {},
                                !.children = kept]
    <3>1. SetTop(c)
      BY <2>3 DEF StatementDone
    <3> HIDE DEF kept
    <3>2. c.grammars = Top.grammars /\ c.use_builtins = Top.use_builtins
      BY <1>2 DEF Context
    <3> HIDE DEF c
    <3> QED BY <3>1, <3>2
  <2> QED BY <2>1, <2>2, <2>3
<1>4. InForce(c) = InForce(Top)
  BY <1>3 DEF InForce
<1>5. c \in Context
  <2>1. contexts' \in Seq(Context) /\ contexts' # << >> /\ Last(contexts') \in Context
    <3>1. contexts' \in Seq(Context)
      BY DEF IInv, TypeOK
    <3>2. contexts' # << >>
      BY DEF IInv, TypeOK, ReadStatement, ParseWithGrammar, StatementDone, AtStatement,
             Reading, Running
    <3> QED BY <3>1, <3>2, LastInSet
  <2>2. Front(contexts) \in Seq(Context)
    BY <1>2, FrontFacts
  <2>3. Last(contexts') = c
    BY <1>3, <2>2 DEF SetTop, Last
  <2> QED BY <2>1, <2>3
<1> QED BY <1>1, <1>3, <1>4, <1>5, SameForce

(* Every hook but $syntax leaves the grammars alone. *)
LEMMA HookForce ==
  ASSUME IInv, IInv', HookNothing \/ HookImportFails \/ ImportDone
  PROVE  UNCHANGED Forces
<1>1. contexts # << >> /\ Waits(Top)
  <2>1. CASE HookNothing
    BY <2>1, AtHookOK DEF HookNothing
  <2>2. CASE HookImportFails
    BY <2>2, AtHookOK DEF HookImportFails, AtImport
  <2>3. CASE ImportDone
    <3>1. contexts # << >> /\ result # NoResult
      BY <2>3 DEF ImportDone, IInv
    <3>2. Len(contexts) \in DOMAIN contexts
      BY <3>1 DEF IInv, TypeOK
    <3> QED BY <3>1, <3>2 DEF IInv, Top, Last
  <2> QED BY <2>1, <2>2, <2>3
<1>2. Imported \in Node
  BY NoNodeOK DEF Imported, IInv, TypeOK
<1>3. SetTop(Drop) \/ \E n \in Node : SetTop(Keep(n))
  BY <1>2, NoNodeOK DEF HookNothing, HookImportFails, ImportDone
<1> QED BY <1>1, <1>3, NoNodeOK, KeepDropForce, SameForce

(* $syntax puts the grammar it loads in force, or changes nothing. *)
LEMMA SyntaxForce ==
  ASSUME IInv, IInv', HookSyntax
  PROVE  Scopes!Syntax \/ UNCHANGED Forces
<1>1. contexts # << >> /\ Waits(Top)
  BY AtHookOK DEF HookSyntax
<1>2. CASE Operand \in Grammar /\ SetTop(ReplaceGrammar(Drop, Operand))
  <2> DEFINE c == ReplaceGrammar(Drop, Operand)
  <2>1. c \in Context /\ InForce(c) = Operand /\ SetTop(c)
    BY <1>1, <1>2, SyntaxContextOK DEF ContextOK
  <2> HIDE DEF c
  <2>2. Forces' = [Forces EXCEPT ![Len(Forces)] = Operand]
    BY <1>1, <2>1, TopForce
  <2>3. Forces # << >>
    BY <1>1, ForcesOK DEF IInv, TypeOK
  <2>4. \E g \in Grammar : Forces # << >> /\ Forces' = [Forces EXCEPT ![Len(Forces)] = g]
    BY <1>2, <2>2, <2>3
  <2> QED BY <2>4 DEF Scopes!Syntax, Forces
<1>3. CASE SetTop(Drop)
  BY <1>1, <1>3, NoNodeOK, KeepDropForce, SameForce
<1> QED BY <1>2, <1>3 DEF HookSyntax

(* An imported file starts with the builtins. *)
LEMMA ImportForce ==
  ASSUME IInv, IInv', HookImport
  PROVE  Scopes!Import
<1> DEFINE c == ModuleContext(Operand)
<1>1. contexts \in Seq(Context) /\ contexts' = Append(contexts, c) /\ Operand \in File
  BY DEF HookImport, AtImport, IInv, TypeOK
<1>2. c \in Context /\ InForce(c) = Builtins
  BY <1>1, EmptyContextOK, PushBuiltinsOK DEF ModuleContext, ContextOK
<1> HIDE DEF c
<1>3. /\ Len(contexts') = Len(contexts) + 1
      /\ \A i \in 1 .. Len(contexts) : contexts'[i] = contexts[i]
      /\ contexts'[Len(contexts) + 1] = c
  BY <1>1, <1>2, AppendFacts
<1>4. /\ Forces' \in Seq(Grammar \cup {Builtins}) /\ Len(Forces') = Len(contexts')
      /\ \A i \in 1 .. Len(contexts') : Forces'[i] = InForce(contexts'[i])
  BY PrimedForcesOK
<1>5. /\ Append(Forces, Builtins) \in Seq(Grammar \cup {Builtins})
      /\ Len(Append(Forces, Builtins)) = Len(contexts) + 1
      /\ \A i \in 1 .. Len(contexts) : Append(Forces, Builtins)[i] = InForce(contexts[i])
      /\ Append(Forces, Builtins)[Len(contexts) + 1] = Builtins
  <2> HIDE DEF Forces
  <2> QED BY ForcesOK, AppendFacts
<1>6. \A i \in 1 .. Len(contexts) + 1 : Forces'[i] = Append(Forces, Builtins)[i]
  BY <1>1, <1>2, <1>3, <1>4, <1>5
<1>7. Forces' = Append(Forces, Builtins)
  <2> DEFINE t == Append(Forces, Builtins)
  <2>1. /\ t \in Seq(Grammar \cup {Builtins}) /\ Len(t) = Len(Forces')
        /\ \A i \in 1 .. Len(t) : Forces'[i] = t[i]
    BY <1>3, <1>4, <1>5, <1>6
  <2> HIDE DEF t
  <2>2. Forces' = t
    BY <1>4, <2>1
  <2> QED BY <2>2 DEF t
<1> QED BY <1>7 DEF Scopes!Import, Forces

(* The importer finds its grammar as it left it. *)
LEMMA EndFileForce ==
  ASSUME IInv, IInv', FileParsed \/ FileFails
  PROVE  Scopes!EndFile
<1>1. /\ contexts \in Seq(Context) /\ contexts # << >> /\ contexts' = Front(contexts)
  BY DEF FileParsed, FileFails, EndFile, AtStatement, Reading, Running, IInv, TypeOK
<1>2. /\ Len(contexts') = Len(contexts) - 1
      /\ \A i \in 1 .. Len(contexts) - 1 : contexts'[i] = contexts[i]
  BY <1>1, FrontFacts
<1>3. /\ Forces' \in Seq(Grammar \cup {Builtins}) /\ Len(Forces') = Len(contexts')
      /\ \A i \in 1 .. Len(contexts') : Forces'[i] = InForce(contexts'[i])
  BY PrimedForcesOK
<1>4. Forces # << >>
  BY <1>1, ForcesOK
<1>5. /\ Front(Forces) \in Seq(Grammar \cup {Builtins})
      /\ Len(Front(Forces)) = Len(contexts) - 1
      /\ \A i \in 1 .. Len(contexts) - 1 : Front(Forces)[i] = InForce(contexts[i])
  <2> HIDE DEF Forces
  <2> QED BY <1>1, <1>4, ForcesOK, FrontFacts
<1>6. Forces' = Front(Forces)
  <2> DEFINE t == Front(Forces)
  <2>1. /\ t \in Seq(Grammar \cup {Builtins}) /\ Len(t) = Len(Forces')
        /\ \A i \in 1 .. Len(t) : Forces'[i] = t[i]
    BY <1>1, <1>2, <1>3, <1>5
  <2> HIDE DEF t
  <2>2. Forces' = t
    BY <1>3, <2>1
  <2> QED BY <2>2 DEF t
<1> QED BY <1>4, <1>6 DEF Scopes!EndFile, Scopes!Front, Front, Forces

-----------------------------------------------------------------------------
(* Theorems *)

(* main's context, before the builtins are pushed. *)
LEMMA InitContextOK ==
  \A c \in {EmptyContext(Main)} \cup {ReplaceGrammar(EmptyContext(Main), g) : g \in Grammar} :
    c \in Context /\ ~c.hooking
<1>1. EmptyContext(Main) \in Context /\ ~EmptyContext(Main).hooking
  BY EmptyContextOK, FileAssumption
<1>2. \A g \in Grammar :
        ReplaceGrammar(EmptyContext(Main), g) \in Context
        /\ ~ReplaceGrammar(EmptyContext(Main), g).hooking
  <2> TAKE g \in Grammar
  <2> DEFINE e == EmptyContext(Main)
             t == Append(e.grammars, g)
  <2>1. e \in Context /\ ~e.hooking /\ e.grammars = << >>
    BY <1>1 DEF EmptyContext
  <2>2. t \in Seq(Grammar \cup {Builtins})
    BY <2>1
  <2>3. ReplaceGrammar(e, g) = [e EXCEPT !.grammars = t, !.use_builtins = (g = Builtins)]
    BY <2>1 DEF ReplaceGrammar, PushGrammar
  <2> HIDE DEF e, t
  <2>4. ReplaceGrammar(e, g) \in Context /\ ~ReplaceGrammar(e, g).hooking
    BY <2>1, <2>2, <2>3 DEF Context
  <2> QED BY <2>4 DEF e
<1> QED BY <1>1, <1>2

LEMMA InitEstablishes == Init => IInv
<1> SUFFICES ASSUME Init PROVE IInv
  OBVIOUS
<1>1. PICK c \in {EmptyContext(Main)} \cup {ReplaceGrammar(EmptyContext(Main), g) : g \in Grammar} :
        contexts = << PushGrammar(c, Builtins) >>
  BY DEF Init
<1>2. c \in Context /\ ~c.hooking
  BY InitContextOK
<1>3. ContextOK(PushGrammar(c, Builtins))
  BY <1>2, PushBuiltinsOK
<1>4. /\ contexts \in Seq(Context) /\ contexts # << >> /\ Len(contexts) = 1
      /\ \A i \in DOMAIN contexts : i = 1 /\ ContextOK(contexts[i])
  <2> DEFINE d == PushGrammar(c, Builtins)
  <2>1. d \in Context /\ ContextOK(d) /\ contexts = << d >>
    BY <1>1, <1>3 DEF ContextOK
  <2> HIDE DEF d
  <2> QED BY <2>1
<1>5. sources \in [File -> Seq(Statement)]
  <2>1. BoundedSeq(Statement, MaxStatements) \subseteq Seq(Statement)
    BY BoundAssumption, BoundedSeqInSeq
  <2> QED BY <2>1 DEF Init
<1>6. TypeOK
  BY <1>4, <1>5 DEF Init, TypeOK, NoResult, NoNode, Node
<1> QED BY <1>4, <1>6 DEF Init, IInv, ContextOK

(* Every step of the parser keeps the invariant of the contexts. *)
THEOREM StepKeepsInvariant == IInv /\ [Next]_vars => IInv'
<1> SUFFICES ASSUME IInv, [Next]_vars PROVE IInv'
  OBVIOUS
<1>1. CASE ReadStatement
  BY <1>1, ReadStatementStep
<1>2. CASE ParseWithGrammar
  BY <1>2, ParseWithGrammarStep
<1>3. CASE StatementDone
  BY <1>3, StatementDoneStep
<1>4. CASE FileParsed
  BY <1>4, FileParsedStep
<1>5. CASE FileFails
  BY <1>5, FileFailsStep
<1>6. CASE HookNothing
  BY <1>6, HookNothingStep
<1>7. CASE HookSyntax
  BY <1>7, HookSyntaxStep
<1>8. CASE HookImport
  BY <1>8, HookImportStep
<1>9. CASE HookImportFails
  BY <1>9, HookImportFailsStep
<1>10. CASE StackOverflow
  BY <1>10, StackOverflowStep
<1>11. CASE ImportDone
  BY <1>11, ImportDoneStep
<1>12. CASE UNCHANGED vars
  BY <1>12, StutterStep
<1> QED
  BY <1>1, <1>2, <1>3, <1>4, <1>5, <1>6, <1>7, <1>8, <1>9, <1>10, <1>11, <1>12
     DEF Next, Parse, Stopped

(* The contexts on the C stack and the tree built keep their types. *)
THEOREM ContextsTyped == Spec => []TypeOK
<1>1. IInv => TypeOK
  BY DEF IInv
<1> QED BY <1>1, InitEstablishes, StepKeepsInvariant, PTL DEF Spec

(* The parser that use_builtins selects is the one of the grammar on top. *)
THEOREM FlagFollowsGrammar == Spec => []FlagMatchesTop
<1>1. IInv => FlagMatchesTop
  BY DEF IInv, FlagMatchesTop, GrammarOK
<1> QED BY <1>1, InitEstablishes, StepKeepsInvariant, PTL DEF Spec

(* The grammars in force are scoped as GrammarScopes says: a file starts   *)
(* with the builtins, only its own $syntax changes its grammar, and the    *)
(* end of an imported file changes nothing for the importer.               *)
THEOREM ScopesImplemented == Spec => ImplementsScopes
<1>1. Init => Scopes!Init
  <2> SUFFICES ASSUME Init PROVE Scopes!Init
    OBVIOUS
  <2>1. IInv
    BY InitEstablishes
  <2>2. PICK c \in {EmptyContext(Main)} \cup {ReplaceGrammar(EmptyContext(Main), g) : g \in Grammar} :
          contexts = << PushGrammar(c, Builtins) >>
    BY DEF Init
  <2>3. c \in Context /\ ~c.hooking
    BY InitContextOK
  <2> DEFINE d == PushGrammar(c, Builtins)
  <2>4. InForce(d) = Builtins /\ contexts = << d >>
    BY <2>2, <2>3, PushBuiltinsOK
  <2> HIDE DEF d
  <2>5. Len(contexts) = 1 /\ contexts[1] = d
    BY <2>4
  <2>6. Forces = << Builtins >>
    <3> HIDE DEF Forces
    <3>1. Len(Forces) = 1 /\ Forces[1] = Builtins /\ Forces \in Seq(Grammar \cup {Builtins})
      BY <2>1, <2>4, <2>5, ForcesOK
    <3> QED BY <3>1
  <2> QED BY <2>6 DEF Scopes!Init, Forces
<1>2. IInv /\ IInv' /\ [Next]_vars => [Scopes!Next]_Forces
  <2> SUFFICES ASSUME IInv, IInv', [Next]_vars PROVE Scopes!Next \/ UNCHANGED Forces
    OBVIOUS
  <2>1. CASE ReadStatement \/ ParseWithGrammar \/ StatementDone
    BY <2>1, ReadingForce
  <2>2. CASE FileParsed \/ FileFails
    BY <2>2, EndFileForce DEF Scopes!Next
  <2>3. CASE HookNothing \/ HookImportFails \/ ImportDone
    BY <2>3, HookForce
  <2>4. CASE HookSyntax
    BY <2>4, SyntaxForce DEF Scopes!Next
  <2>5. CASE HookImport
    BY <2>5, ImportForce DEF Scopes!Next
  <2>6. CASE StackOverflow
    BY <2>6 DEF StackOverflow, Forces, InForce
  <2>7. CASE UNCHANGED vars
    BY <2>7 DEF vars, Forces, InForce
  <2> QED BY <2>1, <2>2, <2>3, <2>4, <2>5, <2>6, <2>7 DEF Next, Parse, Stopped
<1>3. [Scopes!Next]_Forces => [Scopes!Next]_([i \in DOMAIN contexts |-> InForce(contexts[i])])
  BY DEF Forces
<1> QED BY <1>1, <1>2, <1>3, InitEstablishes, StepKeepsInvariant, PTL
        DEF Spec, ImplementsScopes, Scopes!Spec

-----------------------------------------------------------------------------
(* No $syntax in the tree *)

LEMMA TopNoSyntax ==
  ASSUME IInv, SyntaxInv, contexts # << >>, NEW c \in Context, SetTop(c), NoSyntax(c),
         result' = NoResult, sources' = sources
  PROVE  SyntaxInv'
<1>1. contexts \in Seq(Context)
  BY DEF IInv, TypeOK
<1>2. /\ Len(contexts') = Len(contexts) /\ DOMAIN contexts' = DOMAIN contexts
      /\ \A i \in 1 .. Len(contexts) - 1 : contexts'[i] = contexts[i]
      /\ contexts'[Len(contexts)] = c
  BY <1>1, ReplaceLast DEF SetTop
<1>3. \A i \in DOMAIN contexts' :
        contexts'[i] = c \/ (i < Len(contexts) /\ contexts'[i] = contexts[i])
  BY <1>1, <1>2
<1>4. (\A i \in DOMAIN contexts : NoSyntax(contexts[i]))'
  BY <1>2, <1>3 DEF SyntaxInv, NoSyntax
<1>5. (\A i \in DOMAIN contexts : i < Len(contexts) \/ result # NoResult => Importing(contexts[i]))'
  BY <1>1, <1>2 DEF SyntaxInv, Importing
<1>6. "$syntax" \notin result'.root.ops
  BY DEF NoResult, NoNode
<1> QED BY <1>4, <1>5, <1>6 DEF SyntaxInv

LEMMA TopHasNoSyntax ==
  ASSUME IInv, SyntaxInv, contexts # << >>
  PROVE  NoSyntax(Top)
<1>1. contexts \in Seq(Context) /\ Top = contexts[Len(contexts)]
  BY DEF IInv, TypeOK, Top, Last
<1> QED BY <1>1 DEF SyntaxInv

(* A hook keeps the operators below it, and its own unless it is $syntax. *)
LEMMA KeepNoSyntax ==
  ASSUME IInv, SyntaxInv, contexts # << >>, Waits(Top), NEW m \in Node,
         "$syntax" \notin m.ops
  PROVE  /\ Hooked # "$syntax" => NoSyntax(Keep(m))
         /\ NoSyntax(Drop)
<1>1. Top \in Context /\ NoSyntax(Top)
  BY TopOK, TopHasNoSyntax DEF ContextOK
<1>2. /\ Keep(m).below = Top.below \cup m.ops \cup {Hooked}
      /\ Keep(m).children = Top.children
      /\ Drop.below = {} /\ Drop.children = Top.children
  BY <1>1 DEF Keep, Drop, Context
<1> QED BY <1>1, <1>2 DEF NoSyntax

LEMMA RootNoSyntax ==
  ASSUME NEW children \in Seq(Node), \A n \in ToSet(children) : "$syntax" \notin n.ops
  PROVE  "$syntax" \notin RootOf(children).ops
<1>1. Len(children) = 1 => children[1] \in ToSet(children)
  BY DEF ToSet
<1> QED BY <1>1 DEF RootOf

(* Reading a statement adds no $syntax; its node has what its hooks kept. *)
LEMMA ReadingSyntax ==
  ASSUME IInv, IInv', SyntaxInv, ReadStatement \/ ParseWithGrammar \/ StatementDone
  PROVE  SyntaxInv'
<1>1. /\ contexts # << >> /\ result' = NoResult /\ sources' = sources
  BY DEF IInv, TypeOK, ReadStatement, ParseWithGrammar, StatementDone,
         AtStatement, Reading, Running
<1>2. Top \in Context /\ NoSyntax(Top) /\ Top.children \in Seq(Node)
  BY <1>1, TopOK, TopHasNoSyntax DEF ContextOK, Context
<1>3. PICK c : SetTop(c) /\ NoSyntax(c)
  <2>1. CASE ReadStatement
    <3> DEFINE c == [Top EXCEPT !.hooking = TRUE, !.level = Len(Current.ops),
                           !.below = {}, !.built = {}]
    <3>1. SetTop(c)
      BY <2>1 DEF ReadStatement
    <3>2. c.below = {} /\ c.children = Top.children
      BY <1>2 DEF Context
    <3> HIDE DEF c
    <3> QED BY <1>2, <3>1, <3>2 DEF NoSyntax
  <2>2. CASE ParseWithGrammar
    <3>1. PICK nodes \in BoundedSeq(Template, 2) :
            SetTop([Top EXCEPT !.pos = Len(Source) + 1, !.children = Top.children \o nodes])
      BY <2>2 DEF ParseWithGrammar
    <3> DEFINE c == [Top EXCEPT !.pos = Len(Source) + 1, !.children = Top.children \o nodes]
    <3>2. c.below = Top.below /\ c.children = Top.children \o nodes
      BY <1>2 DEF Context
    <3>3. SetTop(c)
      BY <3>1
    <3> HIDE DEF c
    <3>4. \A n \in ToSet(c.children) : n \in ToSet(Top.children) \/ "$syntax" \notin n.ops
      BY <1>2, <3>2, TemplatesOK
    <3> QED BY <1>2, <3>2, <3>3, <3>4 DEF NoSyntax
  <2>3. CASE StatementDone
    <3> DEFINE kept == IF IsKept THEN Append(Top.children, StatementNode) ELSE Top.children
               c == [Top EXCEPT !.hooking = FALSE, !.pos = Top.pos + 1, !.below = {}, !.built = {},
                                !.children = kept]
    <3>1. SetTop(c)
      BY <2>3 DEF StatementDone
    <3>2. "$syntax" \notin StatementNode.ops
      BY <1>2 DEF StatementNode, NoSyntax
    <3>3. \A n \in ToSet(kept) : n \in ToSet(Top.children) \/ n = StatementNode
      BY <1>2 DEF ToSet
    <3> HIDE DEF kept
    <3>4. c.below = {} /\ c.children = kept
      BY <1>2 DEF Context
    <3> HIDE DEF c
    <3> QED BY <1>2, <3>1, <3>2, <3>3, <3>4 DEF NoSyntax
  <2> QED BY <2>1, <2>2, <2>3
<1>4. c \in Context
  <2>1. contexts \in Seq(Context) /\ contexts' \in Seq(Context) /\ contexts' # << >>
    BY DEF IInv, TypeOK, ReadStatement, ParseWithGrammar, StatementDone, AtStatement,
           Reading, Running
  <2>2. Last(contexts') = c
    BY <1>3, <2>1, FrontFacts DEF SetTop, Last
  <2> QED BY <2>1, <2>2, LastInSet
<1> QED BY <1>1, <1>2, <1>3, <1>4, TopNoSyntax

(* A hook keeps no $syntax. *)
LEMMA HookSyntaxFree ==
  ASSUME IInv, SyntaxInv, HookNothing \/ HookImportFails \/ HookSyntax \/ ImportDone
  PROVE  SyntaxInv'
<1>1. /\ contexts # << >> /\ Waits(Top)
      /\ ImportDone => Importing(Top)
  <2>1. CASE HookNothing
    BY <2>1, AtHookOK DEF HookNothing, ImportDone, Running, AtHook
  <2>2. CASE HookImportFails
    BY <2>2, AtHookOK DEF HookImportFails, AtImport, ImportDone, Running, AtHook
  <2>3. CASE HookSyntax
    BY <2>3, AtHookOK DEF HookSyntax, ImportDone, Running, AtHook
  <2>4. CASE ImportDone
    <3>1. contexts # << >> /\ result # NoResult
      BY <2>4 DEF ImportDone, IInv
    <3>2. Len(contexts) \in DOMAIN contexts
      BY <3>1 DEF IInv, TypeOK
    <3> QED BY <3>1, <3>2 DEF IInv, SyntaxInv, Top, Last
  <2> QED BY <2>1, <2>2, <2>3, <2>4
<1>2. result' = NoResult /\ sources' = sources
  BY DEF HookNothing, HookImportFails, HookSyntax, ImportDone, AtImport, AtHook, Running
<1>3. /\ Imported \in Node /\ "$syntax" \notin Imported.ops
      /\ NoNode \in Node /\ "$syntax" \notin NoNode.ops
  BY NoNodeOK DEF Imported, NoNode, SyntaxInv, IInv, TypeOK
<1>4. NoSyntax(Drop) /\ Drop \in Context
  BY <1>1, <1>3, KeepNoSyntax, DropGrammars
<1>5. CASE SetTop(Drop)
  BY <1>1, <1>2, <1>4, <1>5, TopNoSyntax
<1>6. CASE \E m \in {NoNode, Imported} : Hooked # "$syntax" /\ SetTop(Keep(m))
  <2>1. PICK m \in {NoNode, Imported} : Hooked # "$syntax" /\ SetTop(Keep(m))
    BY <1>6
  <2>2. m \in Node /\ "$syntax" \notin m.ops
    BY <1>3
  <2>3. Keep(m) \in Context /\ NoSyntax(Keep(m))
    BY <1>1, <2>1, <2>2, KeepDropForce, KeepNoSyntax
  <2> QED BY <1>1, <1>2, <2>1, <2>3, TopNoSyntax
<1>7. CASE Operand \in Grammar /\ SetTop(ReplaceGrammar(Drop, Operand))
  <2> DEFINE c == ReplaceGrammar(Drop, Operand)
  <2>1. c \in Context
    BY <1>1, <1>7, SyntaxContextOK DEF ContextOK
  <2>2. c.below = Drop.below /\ c.children = Drop.children
    BY <1>1, DropGrammars DEF ReplaceGrammar, Context
  <2>3. SetTop(c)
    BY <1>7
  <2> HIDE DEF c
  <2>4. NoSyntax(c)
    BY <1>4, <2>2 DEF NoSyntax
  <2> QED BY <1>1, <1>2, <2>1, <2>3, <2>4, TopNoSyntax
<1>8. ImportDone => Hooked # "$syntax"
  BY <1>1 DEF Importing, Hooked, Current, Source
<1> QED BY <1>5, <1>6, <1>7, <1>8
        DEF HookNothing, HookImportFails, HookSyntax, ImportDone, AtImport

(* A module that is opened has nothing in its tree. *)
LEMMA HookImportSyntax ==
  ASSUME IInv, SyntaxInv, HookImport
  PROVE  SyntaxInv'
<1> DEFINE c == ModuleContext(Operand)
<1>1. /\ contexts \in Seq(Context) /\ contexts' = Append(contexts, c) /\ Operand \in File
      /\ contexts # << >> /\ UNCHANGED << sources, result >> /\ result = NoResult
  BY DEF HookImport, AtImport, AtHook, Running, IInv, TypeOK
<1>2. c \in Context /\ c.below = {} /\ c.children = << >>
  <2>1. EmptyContext(Operand) \in Context
    BY <1>1, EmptyContextOK
  <2>2. c \in Context
    BY <1>1, EmptyContextOK, PushBuiltinsOK DEF ModuleContext, ContextOK
  <2> QED BY <2>1, <2>2 DEF ModuleContext, PushGrammar, EmptyContext, Context
<1>3. Importing(Top)
  BY DEF HookImport, AtImport, Importing, Hooked, Current, Source
<1> HIDE DEF c
<1>4. /\ Len(contexts') = Len(contexts) + 1
      /\ \A i \in 1 .. Len(contexts) : contexts'[i] = contexts[i]
      /\ contexts'[Len(contexts) + 1] = c
  BY <1>1, <1>2, AppendFacts
<1>5. contexts' \in Seq(Context)
  BY <1>1, <1>2, AppendFacts
<1>6. NoSyntax(c)
  BY <1>2 DEF NoSyntax, ToSet
<1>7. (\A i \in DOMAIN contexts : NoSyntax(contexts[i]))'
  BY <1>1, <1>4, <1>5, <1>6 DEF SyntaxInv, NoSyntax
<1>8. \A i \in DOMAIN contexts : Importing(contexts[i])
  BY <1>1, <1>3 DEF SyntaxInv, Top, Last
<1>9. (\A i \in DOMAIN contexts : i < Len(contexts) \/ result # NoResult => Importing(contexts[i]))'
  BY <1>1, <1>4, <1>5, <1>8 DEF Importing
<1> QED BY <1>1, <1>7, <1>9 DEF SyntaxInv

(* A file that ends has no $syntax in its tree. *)
LEMMA EndFileSyntax ==
  ASSUME IInv, SyntaxInv, Reading, NEW is \in {"parsed", "failed"}, NEW root,
         "$syntax" \notin root.ops, EndFile(is, root)
  PROVE  SyntaxInv'
<1>1. contexts \in Seq(Context) /\ contexts # << >>
  BY DEF IInv, TypeOK, Reading, Running
<1>2. /\ contexts' \in Seq(Context) /\ Len(contexts') = Len(contexts) - 1
      /\ \A i \in 1 .. Len(contexts) - 1 : contexts'[i] = contexts[i]
  BY <1>1, FrontFacts DEF EndFile
<1>3. \A i \in DOMAIN contexts' :
        i \in DOMAIN contexts /\ i < Len(contexts) /\ contexts'[i] = contexts[i]
  BY <1>1, <1>2
<1>4. sources' = sources
  BY DEF EndFile
<1>5. "$syntax" \notin result'.root.ops
  BY DEF EndFile, SyntaxInv
<1>6. (\A i \in DOMAIN contexts : NoSyntax(contexts[i]))'
  BY <1>3 DEF SyntaxInv, NoSyntax
<1>7. (\A i \in DOMAIN contexts : i < Len(contexts) \/ result # NoResult => Importing(contexts[i]))'
  BY <1>3, <1>4 DEF SyntaxInv, Importing
<1> QED BY <1>5, <1>6, <1>7 DEF SyntaxInv

(* Every step keeps $syntax out of the tree. *)
LEMMA StepKeepsSyntaxOut ==
  ASSUME IInv, IInv', SyntaxInv, [Next]_vars
  PROVE  SyntaxInv'
<1>1. CASE ReadStatement \/ ParseWithGrammar \/ StatementDone
  BY <1>1, ReadingSyntax
<1>2. CASE HookNothing \/ HookImportFails \/ HookSyntax \/ ImportDone
  BY <1>2, HookSyntaxFree
<1>3. CASE HookImport
  BY <1>3, HookImportSyntax
<1>4. CASE FileParsed
  <2>1. contexts # << >>
    BY <1>4 DEF FileParsed, Reading, Running, IInv, TypeOK
  <2>2. Top.children \in Seq(Node) /\ NoSyntax(Top)
    BY <2>1, TopOK, TopHasNoSyntax DEF ContextOK, Context
  <2>3. "$syntax" \notin RootOf(Top.children).ops
    BY <2>2, RootNoSyntax DEF NoSyntax
  <2> QED BY <1>4, <2>3, EndFileSyntax DEF FileParsed
<1>5. CASE FileFails
  <2>1. "$syntax" \notin NoNode.ops
    BY DEF NoNode
  <2> QED BY <1>5, <2>1, EndFileSyntax DEF FileFails, AtStatement
<1>6. CASE StackOverflow \/ UNCHANGED vars
  BY <1>6 DEF StackOverflow, vars, SyntaxInv, NoSyntax, Importing
<1> QED BY <1>1, <1>2, <1>3, <1>4, <1>5, <1>6 DEF Next, Parse, Stopped

(* No $syntax that a file spells out reaches the tree, in any file,        *)
(* whatever the grammars build and however deep it stands in its statement.*)
THEOREM SyntaxNeverTyped == Spec => []SyntaxDropped
<1>1. Init => SyntaxInv
  <2> SUFFICES ASSUME Init PROVE SyntaxInv
    OBVIOUS
  <2>1. PICK c \in {EmptyContext(Main)} \cup {ReplaceGrammar(EmptyContext(Main), g) : g \in Grammar} :
          contexts = << PushGrammar(c, Builtins) >>
    BY DEF Init
  <2>2. c \in Context /\ PushGrammar(c, Builtins) \in Context
    BY <2>1, InitContextOK, PushBuiltinsOK DEF ContextOK
  <2>3. c.below = {} /\ c.children = << >>
    <3>1. CASE c = EmptyContext(Main)
      BY <3>1 DEF EmptyContext
    <3>2. CASE \E g \in Grammar : c = ReplaceGrammar(EmptyContext(Main), g)
      <4>1. PICK g \in Grammar : c = ReplaceGrammar(EmptyContext(Main), g)
        BY <3>2
      <4> DEFINE e == EmptyContext(Main)
      <4>2. e.grammars = << >> /\ e.below = {} /\ e.children = << >> /\ e \in Context
        BY EmptyContextOK, FileAssumption DEF EmptyContext
      <4>3. c = [e EXCEPT !.grammars = Append(e.grammars, g), !.use_builtins = (g = Builtins)]
        BY <4>1, <4>2 DEF ReplaceGrammar, PushGrammar
      <4> HIDE DEF e
      <4> QED BY <4>2, <4>3 DEF Context
    <3> QED BY <2>1, <3>1, <3>2
  <2> DEFINE d == PushGrammar(c, Builtins)
  <2>4. d.below = {} /\ d.children = << >> /\ contexts = << d >>
    BY <2>1, <2>2, <2>3 DEF PushGrammar, Context
  <2> HIDE DEF d
  <2>5. \A i \in DOMAIN contexts : contexts[i] = d /\ ~(i < Len(contexts))
    BY <2>4
  <2>6. result = NoResult
    BY DEF Init
  <2> QED BY <2>4, <2>5, <2>6 DEF SyntaxInv, NoSyntax, NoResult, NoNode, ToSet
<1>2. IInv /\ IInv' /\ SyntaxInv /\ [Next]_vars => SyntaxInv'
  BY StepKeepsSyntaxOut
<1>3. SyntaxInv => SyntaxDropped
  BY DEF SyntaxInv, SyntaxDropped, NoSyntax
<1> QED BY <1>1, <1>2, <1>3, InitEstablishes, StepKeepsInvariant, PTL DEF Spec

=============================================================================
