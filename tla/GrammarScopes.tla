---------------------------- MODULE GrammarScopes ----------------------------
(***************************************************************************)
(* The rule that the scoped parser follows for the grammar in force, one   *)
(* per file being parsed: a file starts with the builtin grammar, only its *)
(* own $syntax changes it, and the importer finds its own grammar back     *)
(* when an imported file ends.  It is three of the four points of          *)
(* include/parser/scoped_parser.h; the fourth, that a block gives back the *)
(* grammar it was entered with, the code does not keep.                    *)
(***************************************************************************)
EXTENDS Naturals, Sequences, SequencesExt

CONSTANTS
  Grammar,   \* grammars that $syntax can load
  Builtins   \* the grammar of the builtin operators

VARIABLE inForce   \* the grammar of each open file, the innermost one last

Init == inForce = << Builtins >>

Import == inForce' = Append(inForce, Builtins)

Syntax == \E g \in Grammar :
  inForce # << >> /\ inForce' = [inForce EXCEPT ![Len(inForce)] = g]

EndFile == inForce # << >> /\ inForce' = Front(inForce)

Next == Import \/ Syntax \/ EndFile

Spec == Init /\ [][Next]_inForce

=============================================================================
