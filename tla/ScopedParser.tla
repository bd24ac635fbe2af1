---------------------------- MODULE ScopedParser ----------------------------
(***************************************************************************)
(* The scoped parser of src/src/parser/scoped_parser.c with the $syntax    *)
(* and $import hooks of src/src/parser/operators.c.  A file is a sequence  *)
(* of statements; the builtin parser gives an operator every token up to   *)
(* the end of the statement, so a statement is a chain of operators, each  *)
(* the last operand of the one before it.  Every $import parses a file     *)
(* with a context of its own, from within the hook that the importer runs. *)
(*                                                                         *)
(* What a grammar makes of a text is left open: it rejects it or turns it  *)
(* into nodes with the operators of its templates.                         *)
(***************************************************************************)
EXTENDS Naturals, Sequences, SequencesExt

CONSTANTS
  File,           \* the source files
  Main,           \* the one on the command line
  Grammar,        \* the grammar files
  Builtins,       \* a null grammar
  Statement,      \* the statements a file may consist of
  NoArg,          \* the operand of a statement that names no file
  Template,       \* the nodes that grammars build
  MaxStatements,  \* bound on the statements of a file
  MaxOpen         \* bound on the files being parsed, where the C stack ends

Op == {"$decl", "$group", "$block", "$ret", "$syntax", "$import"}
NoOp == "none"

(* The operators of a tree: those the builtin parser read, whose hooks run, *)
(* and those that a grammar's templates built, whose hooks do not.          *)
Node == [kind : {"file", "group", "other"}, ops : SUBSET Op, built : SUBSET Op]

Names(n) == n.ops \cup n.built

(* A statement starts with an operator, is a literal or identifier, ends   *)
(* the file ("}"), or is an operator whose operands cannot be parsed.      *)
ASSUME FileAssumption == Main \in File
ASSUME GrammarAssumption == Builtins \notin Grammar
ASSUME StatementAssumption ==
  Statement \subseteq [head : {"op", "leaf", "brace", "bad"}, ops : Seq(Op),
                       arg : File \cup Grammar \cup {NoArg}]
ASSUME TemplateAssumption == Template \subseteq {n \in Node : n.ops = {}}
ASSUME BoundAssumption == MaxStatements \in Nat /\ MaxOpen \in Nat \ {0}

VARIABLES
  sources,   \* the statements of each file
  contexts,  \* the ScopedParserContexts on the C stack, innermost last
  record,    \* the operator in the static record of operator_info_lookup
  result,    \* what scoped_parse_ast has just returned to a hook
  verdict    \* "running", or what became of the parse of Main

vars == << sources, contexts, record, result, verdict >>

NoNode == [kind |-> "other", ops |-> {}, built |-> {}]
NoResult == [is |-> "none", root |-> NoNode]

Context == [file : File, pos : Nat \ {0}, hooking : BOOLEAN, level : Nat,
            below : SUBSET Op, built : SUBSET Op, children : Seq(Node),
            grammars : Seq(Grammar \cup {Builtins}), use_builtins : BOOLEAN]

-----------------------------------------------------------------------------
(* The grammar stack *)

PushGrammar(c, g) ==
  [c EXCEPT !.grammars = Append(@, g), !.use_builtins = (g = Builtins)]

(* Variant of ReplaceGrammar: the first grammar of the stack is replaced. *)
ReplaceFirstGrammar(c, g) ==
  IF c.grammars = << >> THEN PushGrammar(c, g)
  ELSE [c EXCEPT !.grammars = << g >> \o Tail(@), !.use_builtins = FALSE]

ReplaceGrammar(c, g) ==
  IF c.grammars = << >> THEN PushGrammar(c, g)
  ELSE [c EXCEPT !.grammars = Append(Front(@), g), !.use_builtins = FALSE]

(* scoped_parser_init *)
EmptyContext(f) ==
  [file |-> f, pos |-> 1, hooking |-> FALSE, level |-> 0, below |-> {}, built |-> {},
   children |-> << >>, grammars |-> << >>, use_builtins |-> TRUE]

Top == Last(contexts)

(* Variant of ModuleContext: an imported file starts with the importer's grammar. *)
ModuleContextInheriting(f) ==
  PushGrammar(EmptyContext(f), IF Top.use_builtins THEN Builtins ELSE Last(Top.grammars))

(* scoped_parse_ast starts every file with the builtins, on top of what is there. *)
ModuleContext(f) == PushGrammar(EmptyContext(f), Builtins)

SetTop(c) == contexts' = Append(Front(contexts), c)

-----------------------------------------------------------------------------
(* scoped_parse_block_contents *)

Source == sources[Top.file]
Current == Source[Top.pos]
Running == verdict = "running" /\ result = NoResult

AtEnd == IF Top.pos <= Len(Source) THEN Current.head = "brace" ELSE TRUE
Reading == Running /\ ~Top.hooking
AtStatement == Reading /\ ~AtEnd

(* With a grammar in force, text goes to it and operators do not. *)
ForBuiltins == Top.use_builtins \/ Current.head # "leaf"

(* Every operator of the chain is looked up, the outermost one last. *)
ReadStatement ==
  /\ AtStatement /\ ForBuiltins
  /\ Current.head # "bad"
  /\ SetTop([Top EXCEPT !.hooking = TRUE, !.level = Len(Current.ops),
                        !.below = {}, !.built = {}])
  /\ record' = IF Current.ops = << >> THEN record ELSE Current.ops[1]
  /\ UNCHANGED << sources, result, verdict >>

(* The grammar takes the rest of the file.  Its nodes run no hooks. *)
ParseWithGrammar ==
  /\ AtStatement /\ ~ForBuiltins
  /\ \E nodes \in BoundedSeq(Template, 2) :
       /\ SetTop([Top EXCEPT !.pos = Len(Source) + 1, !.children = @ \o nodes])
       /\ record' \in {record} \cup UNION {Names(n) : n \in ToSet(nodes)}
  /\ UNCHANGED << sources, result, verdict >>

-----------------------------------------------------------------------------
(* Files *)

(* The only child is the root, or gives the file its children if it is a group. *)
RootOf(children) ==
  IF Len(children) = 1 /\ children[1].kind # "group" THEN children[1]
  ELSE [kind |-> "file", ops |-> UNION {n.ops : n \in ToSet(children)},
        built |-> UNION {n.built : n \in ToSet(children)}]

(* Variant of EndFile: the outermost file returns as if a hook had called it. *)
EndFileReturning(is, root) ==
  /\ contexts' = Front(contexts)
  /\ result' = [is |-> is, root |-> root]
  /\ UNCHANGED << sources, verdict >>

(* scoped_parse_ast returns, to the hook that called it or to main. *)
EndFile(is, root) ==
  /\ contexts' = Front(contexts)
  /\ IF Len(contexts) = 1
       THEN verdict' = (IF is = "parsed" THEN "accepted" ELSE "rejected") /\ UNCHANGED result
       ELSE result' = [is |-> is, root |-> root] /\ UNCHANGED verdict
  /\ UNCHANGED sources

(* The typing pass may look up any operator left in the tree last. *)
FileParsed ==
  /\ Reading /\ AtEnd
  /\ EndFile("parsed", RootOf(Top.children))
  /\ record' \in {record} \cup Names(RootOf(Top.children))

FileFails ==
  /\ AtStatement
  /\ ForBuiltins => Current.head = "bad"
  /\ EndFile("failed", NoNode)
  /\ UNCHANGED record

-----------------------------------------------------------------------------
(* apply_preprocessor_if_any, from the innermost operator to the outermost *)

(* Declarations, groups and blocks have node kinds of their own and run no hook. *)
IsBuiltinNode(op) == op \in {"$ret", "$syntax", "$import"}

Hooked == Current.ops[Top.level]
AtHook == Running /\ Top.hooking /\ Top.level > 0

(* The innermost operator has the file name as its only operand. *)
Operand == IF Top.level = Len(Current.ops) THEN Current.arg ELSE NoArg

Keep(n) == [Top EXCEPT !.level = @ - 1, !.below = @ \cup n.ops \cup {Hooked},
                       !.built = @ \cup n.built]
Drop == [Top EXCEPT !.level = @ - 1, !.below = {}, !.built = {}]

HookNothing ==
  /\ AtHook
  /\ Hooked = "$import" => Operand \notin File
  /\ Hooked # "$syntax"
  /\ SetTop(Keep(NoNode))
  /\ record' = IF IsBuiltinNode(Hooked) THEN Hooked ELSE record
  /\ UNCHANGED << sources, result, verdict >>

(* Variant of HookSyntax: the node stays if its grammar cannot be loaded. *)
HookSyntaxIfLoaded ==
  /\ AtHook /\ Hooked = "$syntax"
  /\ \/ Operand \in Grammar /\ SetTop(ReplaceGrammar(Drop, Operand))
     \/ SetTop(Keep(NoNode))
  /\ record' = "$syntax"
  /\ UNCHANGED << sources, result, verdict >>

(* $syntax replaces the grammar if it loads; the node is dropped. *)
HookSyntax ==
  /\ AtHook /\ Hooked = "$syntax"
  /\ \/ Operand \in Grammar /\ SetTop(ReplaceGrammar(Drop, Operand))
     \/ SetTop(Drop)
  /\ record' = "$syntax"
  /\ UNCHANGED << sources, result, verdict >>

AtImport == AtHook /\ Hooked = "$import" /\ Operand \in File

HookImport ==
  /\ AtImport
  /\ Len(contexts) < MaxOpen
  /\ contexts' = Append(contexts, ModuleContext(Operand))
  /\ record' = "$import"
  /\ UNCHANGED << sources, result, verdict >>

(* The file cannot be read or tokenized. *)
HookImportFails ==
  /\ AtImport
  /\ SetTop(Keep(NoNode))
  /\ record' = "$import"
  /\ UNCHANGED << sources, result, verdict >>

(* Nothing bounds the nesting of imports but the C stack. *)
StackOverflow ==
  /\ AtImport
  /\ Len(contexts) = MaxOpen
  /\ verdict' = "crashed"
  /\ UNCHANGED << sources, contexts, record, result >>

(* The module's tree becomes the operand if its root is a file, and is     *)
(* typed again.                                                            *)
Imported ==
  IF result.is = "parsed" /\ result.root.kind = "file" THEN result.root ELSE NoNode

(* Variant of ImportDone: a module that failed is parsed again. *)
ImportDoneRetrying ==
  /\ verdict = "running" /\ result # NoResult
  /\ result' = NoResult
  /\ record' \in {record} \cup Names(Imported)
  /\ SetTop(IF result.is = "failed" THEN Top
            ELSE IF record' = "$syntax" THEN Drop ELSE Keep(Imported))
  /\ UNCHANGED << sources, verdict >>

(* The hook returns, and the policy is read from the static record, which  *)
(* by now is that of the operator looked up last.                          *)
ImportDone ==
  /\ verdict = "running" /\ result # NoResult
  /\ result' = NoResult
  /\ record' \in {record} \cup Names(Imported)
  /\ SetTop(IF record' = "$syntax" THEN Drop ELSE Keep(Imported))
  /\ UNCHANGED << sources, verdict >>

-----------------------------------------------------------------------------

StatementNode ==
  [kind |-> IF Current.ops # << >> /\ Current.ops[1] = "$group" THEN "group" ELSE "other",
   ops |-> Top.below, built |-> Top.built]

IsKept == Current.ops = << >> \/ Current.ops[1] \in Top.below

(* All hooks have run. *)
StatementDone ==
  /\ Running /\ Top.hooking /\ Top.level = 0
  /\ SetTop([Top EXCEPT !.hooking = FALSE, !.pos = @ + 1, !.below = {}, !.built = {},
                        !.children = IF IsKept THEN Append(@, StatementNode) ELSE @])
  /\ UNCHANGED << sources, record, result, verdict >>

(* main may load a grammar before the file is parsed. *)
Init ==
  /\ sources \in [File -> BoundedSeq(Statement, MaxStatements)]
  /\ \E c \in {EmptyContext(Main)} \cup {ReplaceGrammar(EmptyContext(Main), g) : g \in Grammar} :
       contexts = << PushGrammar(c, Builtins) >>
  /\ record = NoOp
  /\ result = NoResult
  /\ verdict = "running"

Parse ==
  \/ ReadStatement \/ ParseWithGrammar \/ StatementDone
  \/ FileParsed \/ FileFails
  \/ HookNothing \/ HookSyntax \/ HookImport \/ HookImportFails
  \/ StackOverflow \/ ImportDone

Stopped == verdict # "running" /\ UNCHANGED vars

Next == Parse \/ Stopped

Spec == Init /\ [][Next]_vars

(* The parser runs on one thread until it returns. *)
FairSpec == Spec /\ WF_vars(Parse)

-----------------------------------------------------------------------------
(* Properties *)

TypeOK ==
  /\ sources \in [File -> Seq(Statement)]
  /\ contexts \in Seq(Context)
  /\ record \in Op \cup {NoOp}
  /\ result \in [is : {"none", "parsed", "failed"}, root : Node]
  /\ verdict \in {"running", "accepted", "rejected", "crashed"}
  /\ verdict = "running" => contexts # << >>

(* The flag that chooses the parser agrees with the grammar on top of the  *)
(* stack, which the parser then uses, in every file that is open.          *)
FlagMatchesTop ==
  \A i \in DOMAIN contexts :
    /\ contexts[i].grammars # << >>
    /\ contexts[i].use_builtins <=> Last(contexts[i].grammars) = Builtins

InForce(c) == IF c.use_builtins THEN Builtins ELSE Last(c.grammars)

(* The grammar in force in a file is the builtin one until the file's own  *)
(* $syntax loads another, whatever the files it imports do.  Within a file *)
(* nothing gives a grammar up again: see BlocksScopeGrammar.               *)
Scopes == INSTANCE GrammarScopes
            WITH inForce <- [i \in DOMAIN contexts |-> InForce(contexts[i])]
ImplementsScopes == Scopes!Spec

(* No $syntax that a file spells out reaches the tree that is typed and    *)
(* compiled, however deep in a statement it stood, whether or not its      *)
(* grammar loaded, and in whichever imported file it was.  One that a      *)
(* grammar's template builds does: no hook of it is run.                   *)
SyntaxDropped ==
  \A i \in DOMAIN contexts :
    /\ "$syntax" \notin contexts[i].below
    /\ \A n \in ToSet(contexts[i].children) : "$syntax" \notin n.ops

(* Between two statements of a file, a grammar other than the builtin one  *)
(* is in force only if a $syntax outside every block named it: "Entering a *)
(* block pushes current grammar; exiting pops it" (scoped_parser.h:19).    *)
LoadsGrammar(statement, g) ==
  statement.arg = g /\ "$syntax" \in ToSet(statement.ops) /\ "$block" \notin ToSet(statement.ops)

BlocksScopeGrammar ==
  \A c \in ToSet(contexts) :
    ~c.hooking /\ InForce(c) # Builtins =>
      \E j \in DOMAIN sources[c.file] : j < c.pos /\ LoadsGrammar(sources[c.file][j], InForce(c))

(* The parse ends unless a file imports itself, directly or not. *)
ImportsItself == \E i, j \in DOMAIN contexts : i < j /\ contexts[i].file = contexts[j].file
ParseEnds == <>(verdict \in {"accepted", "rejected"} \/ ImportsItself)

(* The hook leaves the $import node in the tree (operators.c:67, "keep     *)
(* node for downstream handling").                                         *)
ImportKept == [][result # NoResult => "$import" \in Last(contexts').below]_vars

=============================================================================
