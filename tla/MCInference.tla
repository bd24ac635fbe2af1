---------------------------- MODULE MCInference ----------------------------
(***************************************************************************)
(* Small instances of Inference for TLC.                                   *)
(***************************************************************************)
EXTENDS Inference

Lit == [op |-> "int", name |-> NoName]
Text == [op |-> "string", name |-> NoName]
Cell == [op |-> "mutint", name |-> NoName]
Ref(n) == [op |-> "ident", name |-> n]
CallOf(n) == [op |-> "call", name |-> n]

(* Texts, of which an $import takes one, cells, identifiers and calls. *)
WalkLeaves == {Text, Cell} \cup {Ref(n) : n \in Name} \cup {CallOf(n) : n \in Name}

(* Functions, recursion and $ret. *)
ReturnLeaves == {Lit, Text} \cup {CallOf(n) : n \in Name}

(* Function literals in the parameters of others. *)
ParameterConstructs == {"declfunc", "paramfunc", "block", "ret"}

(* A function literal before a $ret. *)
NestedConstructs == {"declfunc", "block", "ret"}

NameSymmetry == Permutations(Name)

=============================================================================
