------------------------------- MODULE MCVm -------------------------------
(* Small instances of Vm for TLC.                                          *)
EXTENDS Vm

\* A literal spelled like the identifier x (a string literal's text), one that
\* is no number, and the two sides of the exit status bound with $add.
Literals == {"x", "200"}
Idents == {"x", "y"}
Numbers == [t \in Literals |-> IF t = "200" THEN 200 ELSE NotANumber]

\* Every kind anywhere; empty and single-statement blocks, operators with an
\* operand missing, a $decl without a value, and `$this`.
AllKinds == NodeKind
Arities ==
  [group |-> {2}, call |-> {1}, decl |-> {1, 2}, set |-> {2},
   builtin |-> {1, 2}, comptime |-> {0}, ret |-> {1}, block |-> {0, 1, 2},
   meta |-> {1}]
Operators == {"$add", "$sub"}

\* The last byte of the code, some of it, and enough to reach the tables before it.
ShortWrites == {1, 3, 12, 24}
=============================================================================
