-------------------------- MODULE GrammarLanguage --------------------------
(***************************************************************************)
(* What a grammar derives, whatever the order in which its productions are *)
(* tried and whatever their binding powers: the reference that the texts a *)
(* parser accepts are compared with.  It is asked of g, the rules of a     *)
(* grammar, the tokens of a text and whether a tree is to be built.  What  *)
(* is derived are spans <<rule, from, to>> of the tokens.                  *)
(***************************************************************************)
EXTENDS GrammarFile

Position(g) == 0 .. Len(g.tokens)
Span(g) == (DOMAIN g.rules) \X Position(g) \X Position(g)

(* What becomes in the end of d by step, which adds to subsets of S.       *)
Closure(step, S, d) ==
  LET close[e \in SUBSET S] == LET more == step[e] IN IF more = e THEN e ELSE close[more]
  IN  close[d]

(* Where one is after k steps from i: steps[k][j] is where the k-th of     *)
(* them may lead from j.                                                   *)
After(steps, k, i) ==
  LET ends[m \in 0 .. k] == IF m = 0 THEN {i} ELSE UNION {steps[m][j] : j \in ends[m - 1]}
  IN  ends[k]

(* The token that a literal or a token kind stands for.                    *)
StandsFor(g, word, token) ==
  IF word.is = "literal" THEN token.lexeme = word.what
  ELSE token.kind \in {word.what} \cup (IF word.what = "NUMBER" /\ g.building THEN {"FLOAT"} ELSE {})

(* Where a word that starts at i may end, given the spans d of the rules.  *)
WordEnds(g, d, word, i) ==
  IF word.is = "rule" THEN {j \in Position(g) : << word.what, i, j >> \in d}
  ELSE {j \in Position(g) : j = i + 1 /\ StandsFor(g, word, g.tokens[j])}

WordSteps(g, d, words) == [k \in DOMAIN words |-> [i \in Position(g) |-> WordEnds(g, d, words[k], i)]]

(* Where a group may end that is matched once, and more than once.         *)
OnceRound(g, d, group, i) == After(WordSteps(g, d, group.atoms), Len(group.atoms), i)

RoundMore(g, d, group) ==
  [at \in SUBSET Position(g) |-> at \cup UNION {OnceRound(g, d, group, j) : j \in at}]

Rounds(g, d, group, i) ==
  IF group.once THEN OnceRound(g, d, group, i)
  ELSE Closure(RoundMore(g, d, group), Position(g), OnceRound(g, d, group, i))

AtomEnds(g, d, atom, i) ==
  IF atom.is # "repeat" THEN WordEnds(g, d, atom, i)
  ELSE Rounds(g, d, atom, i) \cup (IF atom.min_occurs = 0 THEN {i} ELSE {})

AtomSteps(g, d, atoms) == [k \in DOMAIN atoms |-> [i \in Position(g) |-> AtomEnds(g, d, atoms[k], i)]]

PatternEnds(g, d, atoms, i) == After(AtomSteps(g, d, atoms), Len(atoms), i)

(* Where a rule may end.  It takes some token.                             *)
RuleEnds(g, d, r, i) ==
  {j \in UNION {PatternEnds(g, d, g.rules[r][k].atoms, i) : k \in DOMAIN g.rules[r]} : i < j}

RuleSpans(g, d, r, i) == {<< r, i, j >> : j \in RuleEnds(g, d, r, i)}

(* What the productions make of the spans d.                               *)
Derive(g) ==
  [d \in SUBSET Span(g) |->
     d \cup UNION {RuleSpans(g, d, r, i) : r \in DOMAIN g.rules, i \in Position(g)}]

(* What is derived from nothing.                                           *)
Derived(g) == Closure(Derive(g), Span(g), {})

=============================================================================
