---------------------------- MODULE MCFrontEnd ----------------------------
(***************************************************************************)
(* Small texts and grammars for FrontEnd, and the properties that compare  *)
(* what it accepts and builds with what the grammar says.                  *)
(***************************************************************************)
EXTENDS FrontEnd

-----------------------------------------------------------------------------
(* How the grammar files below are written *)

Rule(name) == [is |-> "rule", name |-> name]
End == [is |-> "end"]
Is(words, templates) == [is |-> "production", words |-> words, templates |-> templates]

Tok(c) == [is |-> "literal", what |-> << c >>, min_bp |-> 0]
Kind(k) == [is |-> "kind", what |-> k, min_bp |-> 0]
Expr(bp) == [is |-> "rule", what |-> "expr", min_bp |-> bp]
Ref(r) == [is |-> "rule", what |-> r, min_bp |-> 0]
As(name) == [is |-> "label", what |-> name, min_bp |-> 0]
Many(words, q) == [is |-> "group", words |-> words, quantifier |-> q]

Tree(op, args) == [op |-> op, opCapture |-> NoName, args |-> args]
TreeNamed(name, args) == [op |-> "captured", opCapture |-> name, args |-> args]
One(name) == [how |-> "one", name |-> name]
Spread(name) == [how |-> "spread", name |-> name]
Maybe(name) == [how |-> "maybe", name |-> name]
Delim == [how |-> "delim", name |-> NoName]
Word(w) == << Tree(w, << >>) >>
Binary(op) == << Tree(op, << One("lhs"), One("rhs") >>) >>

Captures == {"lhs", "rhs", "inner", "rest", "s", "op"}

-----------------------------------------------------------------------------
(* The grammars *)

Ident == Is(<< Kind("IDENT") >>, Word("ident"))
Number == Is(<< Kind("NUMBER") >>, Word("number"))
Parens == Is(<< Tok("("), Expr(0), As("inner"), Tok(")") >>, << Tree("$group", << One("inner") >>) >>)

(* Operators, as in SPEC.md and test/parser_tests.cpp. *)
Arithmetic ==
  << Rule("expr"), Ident, Number, Parens,
     Is(<< Tok("-"), Expr(30), As("rhs") >>, << Tree("$neg", << One("rhs") >>) >>),
     Is(<< Expr(0), As("lhs"), Tok("+"), Expr(1), As("rhs") >>, Binary("$add")),
     Is(<< Expr(10), As("lhs"), Tok("*"), Expr(11), As("rhs") >>, Binary("$mul")),
     Is(<< Expr(1), As("lhs"), Tok("^"), Expr(0), As("rhs") >>, Binary("$pow")),
     Is(<< Expr(40), As("lhs"), Tok("!") >>, << Tree("$fact", << One("lhs") >>) >>),
     End >>

(* Statements and lists, as in examples/grammar_sample.txt. *)
Program ==
  << Rule("program"),
     Is(<< Many(<< Ref("stmnt"), As("s") >>, "*") >>, << Tree("$$spread", << One("s") >>) >>),
     End,
     Rule("stmnt"), Is(<< Expr(0), As("inner"), Tok(";") >>, Word("inner")), End,
     Rule("expr"), Ident, Parens,
     Is(<< Tok("("), Tok(")") >>, Word("$group")),
     Is(<< Expr(1), As("lhs"), Many(<< Tok(","), Expr(2), As("rest") >>, "+") >>,
        << Tree("$group", << One("lhs"), Spread("rest") >>) >>),
     End >>

(* Optional parts, a label that names the atom after it, a rule that is    *)
(* given a second time, and an operator taken from the text.               *)
Optional ==
  << Rule("expr"), Is(<< Tok("+") >>, Word("gone")), End,
     Rule("expr"),
     Is(<< Tok("?"), Expr(0), As("lhs"), Ref("arms"), As("rest") >>,
        << Tree("$if", << One("lhs"), One("rest") >>) >>),
     Is(<< Kind("IDENT"), As("op"), Tok(":"), Expr(0), As("lhs") >>,
        << TreeNamed("op", << One("lhs") >>), Tree("$dec", << One("lhs") >>) >>),
     Ident,
     Is(<< Expr(0), As("lhs"), Tok("("), As("s"), Many(<< Expr(0) >>, "?"), As("rest"), Tok(")") >>,
        << Tree("$call", << One("lhs"), Delim, Maybe("rest") >>) >>),
     End,
     Rule("arms"),
     Is(<< Expr(0), As("lhs"), Tok(";"), Expr(0), As("rhs") >>,
        << Tree("$group", << One("lhs"), One("rhs") >>) >>),
     Is(<< Expr(0), As("lhs") >>, Word("lhs")) >>

(* Rules that call each other before reading a token, one of them without  *)
(* a definition, and a choice that is not taken back.                      *)
Circular ==
  << Rule("expr"),
     Is(<< Ref("left"), As("lhs"), Tok("!") >>, << Tree("$fact", << One("lhs") >>) >>),
     Is(<< Ref("nowhere") >>, Word("nowhere")), Ident,
     Rule("left"),
     Is(<< Expr(0), As("lhs"), Tok("+") >>, << Tree("$inc", << One("lhs") >>) >>),
     Is(<< Tok("+") >>, Word("plus")),
     Is(<< Tok("+"), Tok("+") >>, Word("plus")) >>

(* An extension that need not read anything. *)
Idle ==
  << Rule("expr"), Ident,
     Is(<< Expr(0), As("lhs"), Many(<< Tok("!") >>, "*") >>, << Tree("$fact", << One("lhs") >>) >>) >>

(* A production before any rule. *)
Broken == << Ident >>

(* The call of a function; the arguments may be missing from the first     *)
(* production's tree.                                                      *)
Calls ==
  << Rule("expr"), Ident,
     Is(<< Expr(0), As("lhs"), Tok("("), Many(<< Expr(0), As("rest") >>, "?"), Tok(")") >>,
        << Tree("$call", << One("lhs"), One("rest") >>) >>),
     Is(<< Expr(0), As("lhs"), Tok("("), Tok(")") >>, << Tree("$call", << One("lhs") >>) >>) >>

Files == [arithmetic |-> Arithmetic, program |-> Program, optional |-> Optional,
          circular |-> Circular, idle |-> Idle, broken |-> Broken, calls |-> Calls]

-----------------------------------------------------------------------------
(* The instances *)

Texts(chars, n) == BoundedSeq(chars, n)

Inputs(texts, file, builds) == [text : texts, file : {file}, build : builds]

Letters == {"a"}
Digits == {"1"}
Puncts == {"+", "*", "^", "-", "!", "(", ")", ",", ";", "?", ":"}

AllInputs ==
  Inputs(Texts({"a", "1", "dollar", "point", "quote", "newline", "space", "+"}, 5), "broken", {TRUE})
  \cup Inputs(Texts({"a", "+", "*", "^", "-", "!"}, 5), "arithmetic", {TRUE})
  \cup Inputs(Texts({"a", "+", "*", "(", ")"}, 4), "arithmetic", BOOLEAN)
  \cup Inputs(Texts({"1", "+", "point"}, 5), "arithmetic", BOOLEAN)
  \cup Inputs(Texts({"a", ",", ";", "(", ")"}, 5), "program", BOOLEAN)
  \cup Inputs(Texts({"a", "?", ";", "space"}, 6), "optional", {TRUE})
  \cup Inputs(Texts({"a", ":", "(", ")"}, 5), "optional", BOOLEAN)
  \cup Inputs(Texts({"a", "+", "!"}, 5), "circular", BOOLEAN)
  \cup Inputs(Texts({"a", "!"}, 4), "idle", {FALSE})

(* In these grammars a choice that fits is the right one. *)
Exact == {"arithmetic", "program"}

CallInputs == Inputs(Texts({"a", "(", ")"}, 4), "calls", {TRUE})

-----------------------------------------------------------------------------
(* Where no choice has to be taken back, every sentence of the grammar is  *)
(* accepted: no binding power and no order of the productions is in its way.*)
AcceptsEverySentence == verdict = "rejected" /\ input.file \in Exact => ~Derivable

-----------------------------------------------------------------------------
(* The tree of an accepted text *)

Built == verdict = "accepted" /\ building
Root == returned.node
InTree == Below(nodes, {Root})

By(n) == Rules[nodes[n].by[1]][nodes[n].by[2]]
FromRule(n) == nodes[n].by[1] # NoName
Extends(n) == FromRule(n) /\ By(n).starts_with_expr
Trails(n) == FromRule(n) /\ Last(By(n).atoms).is = "rule" /\ Last(By(n).atoms).what = nodes[n].by[1]

(* The binding powers on either side of an operator. *)
LeftPower(n) == By(n).atoms[1].min_bp
RightPower(n) == Last(By(n).atoms).min_bp

Chosen(n) == IF nodes[n].is = "overload" THEN nodes[n].kids[1] ELSE n
LeftOperand(n) == nodes[Chosen(n)].kids[1]
RightOperand(n) == Last(nodes[Chosen(n)].kids)

(* The operators met on the way down the left (right) edge of a tree. *)
LeftEdge(top, rule) ==
  LET edge[n \in DOMAIN nodes] ==
        IF Extends(n) /\ nodes[n].by[1] = rule THEN {n} \cup edge[LeftOperand(n)] ELSE {}
  IN  edge[top]
RightEdge(top, rule) ==
  LET edge[n \in DOMAIN nodes] ==
        IF Trails(n) /\ nodes[n].by[1] = rule THEN {n} \cup edge[RightOperand(n)] ELSE {}
  IN  edge[top]

(* An operand goes to the operator that binds it more tightly, whatever    *)
(* mixture of prefix, infix and postfix operators surrounds it; equal      *)
(* powers associate as written (parser.h:80-81).  This is so of texts that *)
(* the recursion limit does not cut: past it the code gives up an operand  *)
(* and goes on (parser.c:1247).                                            *)
BindingRespected ==
  Built => \A n \in {m \in InTree : FromRule(m)} :
    /\ Extends(n) => \A m \in RightEdge(LeftOperand(n), nodes[n].by[1]) : LeftPower(n) < RightPower(m)
    /\ Trails(n) => \A m \in LeftEdge(RightOperand(n), nodes[n].by[1]) : LeftPower(m) >= RightPower(n)

(* The tokens of a tree's leaves; of an overload those of one candidate.   *)
Leaves ==
  LET leaves[n \in DOMAIN nodes] ==
        CASE nodes[n].is = "leaf" -> << nodes[n].at >>
          [] nodes[n].is = "overload" -> leaves[nodes[n].kids[1]]
          [] OTHER -> FlattenSeq([k \in DOMAIN nodes[n].kids |-> leaves[nodes[n].kids[k]]])
  IN  leaves[Root]

Operands == {i \in DOMAIN tokens : tokens[i].kind # "SYMBOL"}

(* The tree holds every operand of the text once, in the order of the text: *)
(* nothing that an abandoned production captured is left in it, and nothing *)
(* captured for the tree is missing.  It holds of grammars whose rounds     *)
(* capture nothing before they may fail: a failed round of a repetition     *)
(* keeps its captures (parser.c:1191).                                      *)
TreeReadsTokens ==
  Built => Leaves = SetToSortSeq(Operands \cap ToSet(Leaves), <) /\
           (input.file \in Exact => ToSet(Leaves) = Operands)

(* The tree belongs to the caller, who frees it: nothing in it is freed.   *)
CallerOwnsTree == Built => InTree \cap freed = {}

(* Every text gets its verdict, also with rules that call one another      *)
(* without reading a token and with extensions that could read none.  No   *)
(* grammar here repeats a group that takes nothing, which the code does    *)
(* for ever (parser.c:664).                                                *)
ParseEnds == <>Stopped

=============================================================================
