----------------------------- MODULE InternSpec -----------------------------
(***************************************************************************)
(* What the intern table promises (src/include/util/util.h): symbols count *)
(* from 1, a string keeps the symbol it was first given, no two strings    *)
(* share one, and the table may refuse a string (symbol 0) without         *)
(* forgetting any; one that has a symbol, only when memory ran out.        *)
(***************************************************************************)
EXTENDS Naturals, Sequences

CONSTANTS
  String,   \* the strings a program may intern
  NoString  \* the argument before the first call

VARIABLES
  names,    \* the string of each symbol, in the order they were given
  answer,   \* the last call: its string and the symbol it returned
  failures  \* allocations that have failed

Init ==
  /\ names = << >>
  /\ answer = [string |-> NoString, sym |-> 0]
  /\ failures = 0

Known(s) == \E i \in DOMAIN names : names[i] = s

Find(s) ==
  /\ \E i \in DOMAIN names : names[i] = s /\ answer' = [string |-> s, sym |-> i]
  /\ UNCHANGED << names, failures >>

Add(s) ==
  /\ ~Known(s)
  /\ names' = Append(names, s)
  /\ answer' = [string |-> s, sym |-> Len(names) + 1]
  /\ UNCHANGED failures

(* A string that has a symbol may be refused only by a call in which an    *)
(* allocation fails.                                                       *)
Refuse(s) ==
  /\ Known(s) => failures' > failures
  /\ answer' = [string |-> s, sym |-> 0]
  /\ failures' \in {failures, failures + 1}
  /\ UNCHANGED names

Next == \E s \in String : Find(s) \/ Add(s) \/ Refuse(s)

Spec == Init /\ [][Next]_<< names, answer, failures >>

=============================================================================
