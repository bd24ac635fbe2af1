--------------------------- MODULE MCScopedParser ---------------------------
(***************************************************************************)
(* Small instances of ScopedParser for TLC: a main file and a module that  *)
(* may import each other and themselves, and one grammar file.             *)
(***************************************************************************)
EXTENDS ScopedParser

CONSTANTS main, module, grammar

Files == {main, module}

Of(ops, arg) == [head |-> "op", ops |-> ops, arg |-> arg]
Plain(head) == [head |-> head, ops |-> << >>, arg |-> NoArg]

Statements ==
  { Plain("leaf"), Plain("brace"), Plain("bad"),
    Of(<< "$syntax" >>, grammar), Of(<< "$block", "$syntax" >>, grammar),
    Of(<< "$decl", "$import" >>, module), Of(<< "$group", "$import" >>, main),
    Of(<< "$syntax", "$import" >>, module), Of(<< "$ret" >>, NoArg) }

Built(kind, ops) == [kind |-> kind, ops |-> {}, built |-> ops]

Templates == { Built("other", {"$decl", "$syntax"}), Built("group", {"$group", "$ret"}) }

=============================================================================
