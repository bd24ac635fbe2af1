---------------------------- MODULE GrammarFile ----------------------------
(***************************************************************************)
(* Grammars as grammar_load_file (src/src/parser/parser.c) reads them.  A  *)
(* grammar file is a sequence of lines, a pattern a sequence of words; how *)
(* words are quoted and spaced is left out.  Groups do not contain groups. *)
(***************************************************************************)
EXTENDS Naturals, Sequences, SequencesExt

(* A capture that is not there. *)
NoName == "none"

-----------------------------------------------------------------------------
(* Atoms and productions *)

(* what: the lexeme, the token kind or the rule to match.                  *)
Simple(is, what, bp) == [is |-> is, what |-> what, min_bp |-> bp, capture |-> NoName]

(* A group matches min_occurs times or more, once: at most once.           *)
Group(atoms, min, once) ==
  [is |-> "repeat", atoms |-> atoms, min_occurs |-> min, once |-> once, capture |-> NoName]

(* A template: an operator, or the capture that holds it ($$op), and its   *)
(* arguments, each of them a capture with a directive or a $$delim.        *)
IsLeaf(t) == t.opCapture = NoName /\ t.args = << >>

Production(atoms, templates, rule) ==
  [atoms |-> atoms, templates |-> templates,
   starts_with_expr |-> atoms # << >> /\ atoms[1].is = "rule" /\ atoms[1].what = rule]

-----------------------------------------------------------------------------
(* parse_pattern *)

(* Variant of Label: a label always names the atom that comes next. *)
LabelNext(p, name) == [p EXCEPT !.pending = name]

(* A label names the atom before it; the atom after it when there is none  *)
(* before or that one has a name.                                          *)
Label(p, name) ==
  IF p.atoms # << >> /\ Last(p.atoms).capture = NoName
  THEN [p EXCEPT !.atoms[Len(p.atoms)].capture = name]
  ELSE [p EXCEPT !.pending = name]

AddAtom(p, atom) ==
  [atoms |-> Append(p.atoms, [atom EXCEPT !.capture = p.pending]), pending |-> NoName]

LoadSimple(p, w) ==
  IF w.is = "label" THEN Label(p, w.what) ELSE AddAtom(p, Simple(w.is, w.what, w.min_bp))

EmptyPattern == [atoms |-> << >>, pending |-> NoName]

Repeats(quantifier) ==
  CASE quantifier = "+" -> << 1, FALSE >>
    [] quantifier = "*" -> << 0, FALSE >>
    [] quantifier = "?" -> << 0, TRUE >>
    [] OTHER -> << 1, TRUE >>

LoadWord(p, w) ==
  IF w.is = "group"
  THEN LET q == Repeats(w.quantifier)
       IN  AddAtom(p, Group(FoldLeft(LoadSimple, EmptyPattern, w.words).atoms, q[1], q[2]))
  ELSE LoadSimple(p, w)

Pattern(words) == FoldLeft(LoadWord, EmptyPattern, words).atoms

-----------------------------------------------------------------------------
(* grammar_load_file *)

NoGrammar == [rules |-> << >>, start |-> NoName, current |-> NoName, ok |-> TRUE]

(* The rule of that name starts again from nothing. *)
OpenRule(g, name) ==
  [g EXCEPT !.rules = [r \in DOMAIN g.rules \cup {name} |->
                         IF r = name THEN << >> ELSE g.rules[r]],
            !.start = IF @ = NoName THEN name ELSE @,
            !.current = name]

LoadLine(g, line) ==
  IF ~g.ok THEN g
  ELSE CASE line.is = "end" -> [g EXCEPT !.current = NoName]
         [] line.is = "rule" -> OpenRule(g, line.name)
         [] line.is = "production" /\ g.current # NoName /\ line.templates # << >> ->
              [g EXCEPT !.rules[g.current] =
                 Append(@, Production(Pattern(line.words), line.templates, g.current))]
         [] OTHER -> [g EXCEPT !.ok = FALSE]

Loaded(file) == FoldLeft(LoadLine, NoGrammar, file)

(* What the loader gives its caller: the rules, the first one of them, and *)
(* whether there are any.                                                  *)
GrammarOf(file) ==
  LET g == Loaded(file)
  IN  [rules |-> g.rules, start |-> g.start, loads |-> g.ok /\ DOMAIN g.rules # {}]

=============================================================================
