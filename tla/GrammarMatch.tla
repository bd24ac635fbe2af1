--------------------------- MODULE GrammarMatch ---------------------------
(***************************************************************************)
(* The grammar-driven parser of src/src/parser/parser.c: grammar_parse,    *)
(* which accepts or rejects tokens, and grammar_parse_ast, which builds a  *)
(* tree as well.  Both are the same recursion: a rule is matched by its    *)
(* first production that fits and does not start with the rule itself,     *)
(* then extended by productions that do, as long as they bind tightly      *)
(* enough.  `stack` holds the activations of parse_rule_internal with the  *)
(* pattern each of them is trying, `held` the nodes they hold.             *)
(*                                                                         *)
(* A tree that is copied for the candidates of an overload is not told     *)
(* from its copies.  Memory is never exhausted.                            *)
(***************************************************************************)
EXTENDS GrammarLanguage, FiniteSetsExt

CONSTANTS
  File,        \* the grammar files, a function from their names
  MaxDepth,    \* PARSER_MAX_DEPTH
  CaptureName  \* the captures of the grammars

ASSUME DepthAssumption == MaxDepth \in Nat
ASSUME CaptureAssumption == NoName \notin CaptureName

Grammar == [f \in DOMAIN File |-> GrammarOf(File[f])]

(* The words of a pattern: a literal, a token kind, a rule with a binding  *)
(* power, a label, or a group of them.                                     *)
SimpleWord ==
  [is : {"literal"}, what : Seq(STRING), min_bp : Nat]
    \cup [is : {"kind", "rule"}, what : STRING, min_bp : Nat]
    \cup [is : {"label"}, what : CaptureName, min_bp : Nat]
GroupWord == [is : {"group"}, words : Seq(SimpleWord), quantifier : STRING]

(* A template: an operator, named or taken from a capture, and where its   *)
(* operands come from.                                                     *)
Argument ==
  [how : {"one", "spread", "maybe"}, name : CaptureName] \cup [how : {"delim"}, name : {NoName}]
OpTemplate == [op : STRING, opCapture : CaptureName \cup {NoName}, args : Seq(Argument)]

(* The lines of a grammar file.  That nothing more is assumed of them is   *)
(* the point: which files load, and what of, is GrammarFile's business.    *)
Line ==
  [is : {"rule"}, name : STRING \ {NoName}] \cup [is : {"end"}]
    \cup [is : {"production"}, words : Seq(SimpleWord \cup GroupWord), templates : Seq(OpTemplate)]

ASSUME FileAssumption == \A f \in DOMAIN File : File[f] \in Seq(Line)

VARIABLES
  grammar,   \* the file whose grammar is in use
  tokens,    \* the tokens to parse
  building,  \* whether a tree is wanted
  stack,     \* activations of parse_rule_internal(_ast), innermost last
  held,      \* the nodes held by each of them
  returned,  \* what an activation has just returned
  nodes,     \* the nodes built so far
  freed,     \* those given to ast_free
  failure,   \* the furthest failure
  verdict    \* "idle", "running", "accepted" or "rejected"

control == << grammar, tokens, building, stack, returned, failure, verdict >>
data == << held, nodes, freed >>
matchVars == << control, data >>

Rules == Grammar[grammar].rules
Top == Last(stack)
Held == Last(held)
Prod == Rules[Top.rule][Top.prod]

NoNode == 0
NoResult == [is |-> "none", cursor |-> 0, node |-> NoNode]
NoRepeat == [on |-> FALSE, over |-> FALSE, met |-> FALSE, sub |-> 1, local |-> 0, at |-> 0]

Further(cursor, rule) ==
  IF failure.rule = NoName \/ cursor > failure.cursor
  THEN [cursor |-> cursor, rule |-> rule] ELSE failure

-----------------------------------------------------------------------------
(* Choosing a production *)

(* Variant of Binds: the binding power of an extension is not compared. *)
BindsAlways(bp, min_bp) == TRUE

(* Variant of Binds: what binds as tightly as it must is left out. *)
BindsTighter(bp, min_bp) == bp > min_bp

Binds(bp, min_bp) == bp >= min_bp

(* match_pattern rejects other productions before it reads a token. *)
Viable(rules, f, phase, j) ==
  LET p == rules[f.rule][j]
  IN  /\ p.starts_with_expr = (phase = "infix")
      /\ f.depth < MaxDepth
      /\ phase = "infix" => Len(p.atoms) > 1 /\ Binds(p.atoms[1].min_bp, f.min_bp)

(* The activation f turns to its next production, 0 when none is left. *)
Try(rules, f, phase, after) ==
  LET js == {j \in DOMAIN rules[f.rule] : j > after /\ Viable(rules, f, phase, j)}
  IN  [f EXCEPT !.phase = phase, !.local = f.cursor, !.repeat = NoRepeat,
                !.prod = IF js = {} THEN 0 ELSE Min(js),
                !.atom = IF phase = "infix" THEN 2 ELSE 1]

(* Captures start empty, but for the operand on the left. *)
Seed(rules, f, lhs) ==
  [lhs |-> lhs, first |-> NoNode, subs |-> << >>, groups |-> << >>,
   captures |-> [n \in CaptureName |->
     IF f.phase = "infix" /\ f.prod # 0 /\ lhs # NoNode
        /\ rules[f.rule][f.prod].atoms[1].capture = n THEN << lhs >> ELSE << >>]]

Activation(rules, rule, min_bp, cursor, depth) ==
  Try(rules, [rule |-> rule, min_bp |-> min_bp, cursor |-> cursor, depth |-> depth,
              phase |-> "prefix", prod |-> 0, atom |-> 1, local |-> cursor,
              repeat |-> NoRepeat], "prefix", 0)

Replace(f, h) == /\ stack' = Append(Front(stack), f)
                 /\ held' = Append(Front(held), h)

TryNext(f, lhs, phase, after) ==
  LET g == Try(Rules, f, phase, after) IN Replace(g, Seed(Rules, g, lhs))

(* grammar_parse(_ast) with the first rule as the start rule. *)
Parse(g, toks, build) ==
  /\ verdict \in {"idle", "accepted", "rejected"}
  /\ grammar' = g /\ building' = build
  /\ tokens' = IF toks # << >> /\ Last(toks).kind = "EOF" THEN Front(toks) ELSE toks
  /\ LET rules == Grammar[g].rules
         a == Activation(rules, Grammar[g].start, 0, 0, 0)
     IN  stack' = << a >> /\ held' = << Seed(rules, a, NoNode) >>
  /\ returned' = NoResult /\ nodes' = << >> /\ freed' = {}
  /\ failure' = [cursor |-> 0, rule |-> NoName]
  /\ verdict' = "running"

-----------------------------------------------------------------------------
(* Matching the atoms of a pattern *)

Running == verdict = "running" /\ returned = NoResult
Trying == Running /\ Top.prod # 0
InGroup == Top.repeat.on
Atoms == IF InGroup THEN Prod.atoms[Top.atom].atoms ELSE Prod.atoms
Index == IF InGroup THEN Top.repeat.sub ELSE Top.atom
Atom == Atoms[Index]

(* Variant of Here: a group is read from where its pattern stands. *)
HerePattern == Top.local

(* The token to match next. *)
Here == IF InGroup THEN Top.repeat.at ELSE Top.local

At(kinds) ==
  Trying /\ ~Top.repeat.over /\ IF Index <= Len(Atoms) THEN Atom.is \in kinds ELSE FALSE

(* A production whose template is one word yields its first node. *)
CollectAll == Top.phase = "prefix" /\ IsLeaf(Prod.templates[1])

NodeWanted == building /\ (InGroup \/ CollectAll \/ Atom.capture # NoName)

(* The frame after an atom matched up to `next`. *)
Advanced(next) ==
  IF InGroup THEN [Top EXCEPT !.repeat.at = next, !.repeat.sub = @ + 1]
  ELSE [Top EXCEPT !.local = next, !.atom = @ + 1]

(* Variant of Capture: an atom without a node is captured all the same. *)
CaptureAnything(h, name, node) ==
  IF name = NoName THEN h ELSE [h EXCEPT !.captures[name] = Append(@, node)]

Capture(h, name, node) ==
  IF node = NoNode \/ name = NoName THEN h ELSE [h EXCEPT !.captures[name] = Append(@, node)]

(* What is held after an atom produced a node, or none. *)
Keeping(node) ==
  LET h == Capture(Held, Atom.capture, node)
  IN  IF InGroup THEN [h EXCEPT !.subs = IF node = NoNode THEN @ ELSE Append(@, node)]
      ELSE [h EXCEPT !.first = IF CollectAll /\ @ = NoNode THEN node ELSE @]

AtomMatches(node, next) == Replace(Advanced(next), Keeping(node))

PatternFails ==
  /\ TryNext(Top, Held.lhs, Top.phase, Top.prod)
  /\ failure' = Further(Top.local, Top.rule)

(* A failure inside a group ends its repetition.  Nothing is undone. *)
AtomFails ==
  IF InGroup /\ (Top.repeat.met \/ Prod.atoms[Top.atom].min_occurs = 0)
  THEN Replace([Top EXCEPT !.repeat.over = TRUE], Held) /\ UNCHANGED failure
  ELSE PatternFails

(* A float may stand for a number, in the tree-building parser only. *)
Fits(atom, token) ==
  IF atom.is = "literal" THEN token.lexeme = atom.what
  ELSE token.kind = atom.what \/ (building /\ atom.what = "NUMBER" /\ token.kind = "FLOAT")

Leaf(i) == [is |-> "leaf", kids |-> << >>, at |-> i, by |-> << NoName, 0 >>]

ReadToken ==
  /\ At({"literal", "kind"})
  /\ IF Here < Len(tokens) /\ Fits(Atom, tokens[Here + 1])
     THEN /\ IF NodeWanted /\ (Atom.is = "kind" \/ Atom.capture # NoName)
             THEN nodes' = Append(nodes, Leaf(Here + 1)) /\ AtomMatches(Len(nodes) + 1, Here + 1)
             ELSE nodes' = nodes /\ AtomMatches(NoNode, Here + 1)
          /\ UNCHANGED failure
     ELSE AtomFails /\ UNCHANGED nodes
  /\ UNCHANGED << grammar, tokens, building, returned, freed, verdict >>

(* Variant of Deeper: a rule counts as one level, not as two. *)
DeeperByOne == Top.depth + 1

(* The depth of a rule called by an atom of this pattern. *)
Deeper == Top.depth + (IF InGroup THEN 3 ELSE 2)

CallRule ==
  /\ At({"rule"})
  /\ IF Atom.what \in DOMAIN Rules /\ Deeper <= MaxDepth
     THEN LET a == Activation(Rules, Atom.what, Atom.min_bp, Here, Deeper)
          IN  /\ stack' = Append(stack, a)
              /\ held' = Append(held, Seed(Rules, a, NoNode))
              /\ UNCHANGED failure
     ELSE AtomFails
  /\ UNCHANGED << grammar, tokens, building, returned, nodes, freed, verdict >>

-----------------------------------------------------------------------------
(* Repetition *)

GroupNode(kids) == [is |-> "group", kids |-> kids, at |-> 0, by |-> << NoName, 0 >>]

OpenGroup ==
  /\ At({"repeat"})
  /\ Replace([Top EXCEPT !.repeat = [NoRepeat EXCEPT !.on = TRUE, !.local = Top.local,
                                                     !.at = Top.local]],
             [Held EXCEPT !.subs = << >>, !.groups = << >>])
  /\ UNCHANGED << grammar, tokens, building, returned, nodes, freed, failure, verdict >>

(* Once round the group: its nodes become one. *)
IterationDone ==
  /\ Trying /\ InGroup /\ ~Top.repeat.over /\ Index > Len(Atoms)
  /\ Replace([Top EXCEPT !.repeat = [@ EXCEPT !.met = TRUE, !.local = Top.repeat.at, !.sub = 1,
                                              !.over = Prod.atoms[Top.atom].once]],
             [Held EXCEPT !.subs = << >>,
                          !.groups = IF building THEN Append(@, Len(nodes) + 1) ELSE @])
  /\ nodes' = IF building THEN Append(nodes, GroupNode(Held.subs)) ELSE nodes
  /\ UNCHANGED << grammar, tokens, building, returned, freed, failure, verdict >>

(* Variant of RepeatedTo: what the failed last iteration read stays read. *)
RepeatedToFailure(repeat) == repeat.at

RepeatedTo(repeat) == repeat.local

(* The repetition is over: its iterations become one node. *)
CloseGroup ==
  /\ Trying /\ Top.repeat.over
  /\ LET atom == Prod.atoms[Top.atom]
         node == IF building THEN Len(nodes) + 1 ELSE NoNode
         h == Capture(Held, atom.capture, node)
     IN  /\ Replace([Top EXCEPT !.local = RepeatedTo(Top.repeat), !.atom = @ + 1, !.repeat = NoRepeat],
                    [h EXCEPT !.subs = << >>, !.groups = << >>,
                              !.first = IF CollectAll /\ @ = NoNode THEN node ELSE @])
         /\ nodes' = IF building THEN Append(nodes, GroupNode(Held.groups)) ELSE nodes
  /\ UNCHANGED << grammar, tokens, building, returned, freed, failure, verdict >>

-----------------------------------------------------------------------------
(* Templates *)

(* The nodes of the trees below ids. *)
Below(heap, ids) ==
  LET below[n \in DOMAIN heap] == {n} \cup UNION {below[k] : k \in ToSet(heap[n].kids)}
  IN  UNION {below[n] : n \in ids}

(* flatten_and_append: groups dissolve, also those the program wrote. *)
Flattened(heap, ids) ==
  LET flat[n \in DOMAIN heap] ==
        IF heap[n].is # "group" THEN << n >>
        ELSE FlattenSeq([k \in DOMAIN heap[n].kids |-> flat[heap[n].kids[k]]])
  IN  FlattenSeq([k \in DOMAIN ids |-> flat[ids[k]]])

(* One argument of a template; b is the tree under construction. *)
AddArgument(captures, b, arg) ==
  LET ns == IF arg.how = "delim" THEN << >> ELSE captures[arg.name]
  IN  IF ~b.ok \/ (ns = << >> /\ arg.how \in {"maybe", "delim"}) THEN b
      ELSE IF ns = << >> THEN [b EXCEPT !.ok = FALSE]
      ELSE IF arg.how = "spread" THEN [b EXCEPT !.kids = @ \o Flattened(b.heap, ns)]
      ELSE IF Len(ns) = 1 THEN [b EXCEPT !.kids = Append(@, ns[1])]
      ELSE [b EXCEPT !.heap = Append(@, GroupNode(ns)), !.kids = Append(@, Len(b.heap) + 1)]

(* build_template_ast: a capture that is missing gives up the tree, and    *)
(* with it the captured nodes that are already part of it.                 *)
Template(t, captures, heap, by) ==
  LET b == FoldLeft(LAMBDA acc, arg : AddArgument(captures, acc, arg),
                    [ok |-> TRUE, heap |-> heap, kids |-> << >>], t.args)
      root == [is |-> IF t.op = "$group" THEN "group" ELSE "op", kids |-> b.kids, at |-> 0, by |-> by]
  IN  IF t.opCapture # NoName /\ Len(captures[t.opCapture]) # 1
      THEN [node |-> NoNode, heap |-> heap, freed |-> {}]
      ELSE IF b.ok
      THEN [node |-> Len(b.heap) + 1, heap |-> Append(b.heap, root), freed |-> {}]
      ELSE [node |-> NoNode, heap |-> b.heap, freed |-> Below(b.heap, ToSet(b.kids))]

(* Several templates are the candidates of an overload; its candidates are *)
(* made of copies, so that a failure frees nothing the parser still holds. *)
(* The first candidate that cannot be built gives up the overload.         *)
AddCandidate(captures, by, b, t) ==
  IF ~b.ok THEN b
  ELSE LET c == Template(t, captures, b.heap, by)
       IN  [heap |-> c.heap, ok |-> c.node # NoNode, kids |-> Append(b.kids, c.node)]

Overload(templates, captures, heap, by) ==
  LET b == FoldLeft(LAMBDA acc, t : AddCandidate(captures, by, acc, t),
                    [ok |-> TRUE, heap |-> heap, kids |-> << >>], templates)
  IN  IF b.ok
      THEN [node |-> Len(b.heap) + 1, freed |-> {},
            heap |-> Append(b.heap, [is |-> "overload", kids |-> b.kids, at |-> 0, by |-> by])]
      ELSE [node |-> NoNode, heap |-> b.heap, freed |-> {}]

(* build_prod_result *)
Result ==
  LET by == << Top.rule, Top.prod >>
  IN  IF Len(Prod.templates) > 1 THEN Overload(Prod.templates, Held.captures, nodes, by)
      ELSE IF IsLeaf(Prod.templates[1]) /\ Held.first # NoNode
      THEN [node |-> Held.first, heap |-> nodes, freed |-> {}]
      ELSE Template(Prod.templates[1], Held.captures, nodes, by)

-----------------------------------------------------------------------------
(* Ends of patterns and rules *)

(* Variant of Progress: a pattern may match no token at all. *)
ProgressNone(f) == TRUE

Progress(f) == f.local # f.cursor

(* A pattern that matched extends what the rule has matched. *)
PatternDone ==
  /\ Trying /\ ~InGroup /\ Index > Len(Atoms)
  /\ LET built == IF building /\ Progress(Top) THEN Result
                  ELSE [node |-> NoNode, heap |-> nodes, freed |-> {}]
     IN  /\ IF Progress(Top) /\ (building => built.node # NoNode)
            THEN TryNext([Top EXCEPT !.cursor = Top.local], built.node, "infix", 0)
            ELSE TryNext(Top, Held.lhs, Top.phase, Top.prod)
         /\ nodes' = built.heap
         /\ freed' = freed \cup built.freed
  /\ UNCHANGED << grammar, tokens, building, returned, failure, verdict >>

Return(result) == /\ returned' = result
                  /\ stack' = Front(stack)
                  /\ held' = Front(held)

NoProduction ==
  /\ Running /\ Top.prod = 0 /\ Top.phase = "prefix"
  /\ Return([NoResult EXCEPT !.is = "failed"])
  /\ failure' = Further(Top.cursor, Top.rule)
  /\ UNCHANGED << grammar, tokens, building, nodes, freed, verdict >>

NoExtension ==
  /\ Running /\ Top.prod = 0 /\ Top.phase = "infix"
  /\ Return([is |-> "matched", cursor |-> Top.cursor, node |-> Held.lhs])
  /\ UNCHANGED << grammar, tokens, building, nodes, freed, failure, verdict >>

(* The caller goes on behind a rule that matched; a tree nobody asked for  *)
(* is freed.                                                               *)
RuleReturns ==
  /\ verdict = "running" /\ returned # NoResult /\ stack # << >>
  /\ IF returned.is = "matched"
     THEN /\ AtomMatches(IF NodeWanted THEN returned.node ELSE NoNode, returned.cursor)
          /\ freed' = IF building /\ ~NodeWanted
                      THEN freed \cup Below(nodes, {returned.node}) ELSE freed
          /\ UNCHANGED failure
     ELSE AtomFails /\ UNCHANGED freed
  /\ returned' = NoResult
  /\ UNCHANGED << grammar, tokens, building, nodes, verdict >>

(* The start rule must have taken every token. *)
Finish ==
  /\ verdict = "running" /\ returned # NoResult /\ stack = << >>
  /\ IF returned.is = "matched" /\ returned.cursor = Len(tokens)
     THEN verdict' = "accepted" /\ UNCHANGED freed
     ELSE /\ verdict' = "rejected"
          /\ freed' = IF building /\ returned.is = "matched"
                      THEN freed \cup Below(nodes, {returned.node}) ELSE freed
  /\ UNCHANGED << grammar, tokens, building, stack, held, returned, nodes, failure >>

MatchStep ==
  \/ ReadToken \/ CallRule \/ OpenGroup \/ IterationDone \/ CloseGroup
  \/ PatternDone \/ NoProduction \/ NoExtension \/ RuleReturns \/ Finish

-----------------------------------------------------------------------------
(* The frames of a parse of n tokens. *)
Repeat(n) ==
  [on : BOOLEAN, over : BOOLEAN, met : BOOLEAN, sub : Nat, local : 0 .. n, at : 0 .. n]
Frame(n) ==
  [rule : STRING, min_bp : Nat, cursor : 0 .. n, depth : 0 .. MaxDepth,
   phase : {"prefix", "infix"}, prod : Nat, atom : Nat, local : 0 .. n, repeat : Repeat(n)]

ControlTypeOK ==
  /\ grammar \in DOMAIN File /\ building \in BOOLEAN
  /\ tokens \in Seq([kind : STRING, lexeme : Seq(STRING)])
  /\ stack \in Seq(Frame(Len(tokens)))
  /\ returned.is \in {"none", "matched", "failed"} /\ returned.cursor \in 0 .. Len(tokens)
  /\ failure \in [cursor : 0 .. Len(tokens), rule : STRING \cup {NoName}]
  /\ verdict \in {"idle", "running", "accepted", "rejected"}

Node == 1 .. Len(nodes)

DataTypeOK ==
  /\ DOMAIN held = DOMAIN stack /\ returned.node \in Node \cup {NoNode}
  /\ \A h \in ToSet(held) :
       /\ h.lhs \in Node \cup {NoNode} /\ h.first \in Node \cup {NoNode}
       /\ ToSet(h.subs) \cup ToSet(h.groups) \subseteq Node
       /\ h.captures \in [CaptureName -> Seq(Node)]
  /\ \A n \in Node : ToSet(nodes[n].kids) \subseteq 1 .. n - 1
  /\ freed \subseteq Node

(* Nodes are made of nodes built before them: a tree has no cycles.        *)
MatchTypeOK == ControlTypeOK /\ DataTypeOK

(* Where an activation has got to. *)
Reached(f) == IF f.repeat.on THEN f.repeat.at ELSE f.local

InOrder(f) ==
  /\ f.cursor <= f.local
  /\ f.repeat.on => f.local <= f.repeat.local /\ f.repeat.local <= f.repeat.at

(* A rule that has matched has taken a token. *)
CalledFrom(caller, f) ==
  IF f.phase = "infix" THEN Reached(caller) < f.cursor ELSE Reached(caller) <= f.cursor

(* A rule is parsed where its caller stands or behind it, and one that     *)
(* matched has taken a token: what is matched is not read again, also when *)
(* a repetition fails on its way.  Within one activation nothing need be   *)
(* read: a group of nothing goes round in place.                           *)
CursorsOrdered ==
  /\ \A i \in DOMAIN stack : InOrder(stack[i]) /\ (i > 1 => CalledFrom(stack[i - 1], stack[i]))
  /\ returned.is = "matched" /\ stack # << >> => Reached(Top) < returned.cursor

(* What is parsed: a text in the language of a grammar. *)
Given == [rules |-> Rules, tokens |-> tokens, building |-> building]

Derivable == << Grammar[grammar].start, 0, Len(tokens) >> \in Derived(Given)

(* What is accepted is a sentence of the grammar: no token is skipped, read *)
(* twice or taken back wrongly when an alternative fails or a repetition    *)
(* ends on its way.                                                         *)
AcceptsSentences == verdict = "accepted" => Derivable

(* C recursion is bounded, whatever the rules call: each activation costs  *)
(* two levels of the limit.                                                *)
RecursionBounded == 2 * Len(stack) <= MaxDepth + 2

=============================================================================
