----------------------------- MODULE FrontEnd -----------------------------
(***************************************************************************)
(* A source text in the syntax of a grammar file, on its way to a tree:    *)
(* Lexer cuts it into tokens and GrammarMatch parses them with the grammar *)
(* that GrammarFile loads, with the recogniser or with the parser that     *)
(* builds trees.                                                           *)
(***************************************************************************)
EXTENDS Lexer, GrammarMatch

CONSTANT Input  \* the texts, each with a grammar file and the parser to use

ASSUME InputAssumption ==
  \A i \in Input : i.text \in Seq(Char) /\ i.file \in DOMAIN File /\ i.build \in BOOLEAN

VARIABLE input

vars == << input, lexVars, matchVars >>

Init ==
  /\ input \in Input
  /\ LexInit(input.text)
  /\ grammar = input.file /\ tokens = << >> /\ building = FALSE
  /\ stack = << >> /\ held = << >> /\ returned = NoResult
  /\ nodes = << >> /\ freed = {} /\ failure = [cursor |-> 0, rule |-> NoName]
  /\ verdict = "idle"

Lex == LexNext /\ UNCHANGED << input, matchVars >>

(* The tokens the parser sees: a kind and a text. *)
Lexed == [i \in DOMAIN out |-> [kind |-> out[i].kind, lexeme |-> Lexeme(out[i])]]

(* A grammar that cannot be loaded ends the parse. *)
StartParse ==
  /\ lexing = "done" /\ verdict = "idle"
  /\ IF Grammar[input.file].loads
     THEN Parse(input.file, Lexed, input.build)
     ELSE verdict' = "rejected"
          /\ UNCHANGED << grammar, tokens, building, stack, returned, failure, data >>
  /\ UNCHANGED << input, lexVars >>

Match == MatchStep /\ UNCHANGED << input, lexVars >>

Stopped == lexing = "failed" \/ verdict \in {"accepted", "rejected"}

Next == Lex \/ StartParse \/ Match \/ (Stopped /\ UNCHANGED vars)

Spec == Init /\ [][Next]_vars

(* Neither function stops on its way. *)
FairSpec == Spec /\ WF_vars(Lex \/ StartParse \/ Match)

=============================================================================
