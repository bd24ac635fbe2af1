----------------------------- MODULE MCInterns -----------------------------
(***************************************************************************)
(* A small intern table for TLC: two slots at first, strings that collide  *)
(* there and again after each growth, an arena that one string overflows.  *)
(***************************************************************************)
EXTENDS Interns, TLC

CONSTANTS a, b, c, d, e

FiveStrings == {a, b, c, d, e}
CollidingHash == (a :> 3) @@ (b :> 7) @@ (c :> 3) @@ (d :> 6) @@ (e :> 7)
Sizes == (a :> 1) @@ (b :> 1) @@ (c :> 1) @@ (d :> 2) @@ (e :> 1)

=============================================================================
