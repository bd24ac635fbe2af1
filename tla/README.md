# Verification of the MorphL compiler

TLA+ models of `morphlc`, the compiler of the MorphL language (C, single
process, single thread), with the TLC runs that check them and the TLAPS proofs
about them.  Paths below are relative to the repository (`src/` holds the C
files, `include/` the headers).

## The system

`src/main.c` drives one compilation: intern table and type arena are created,
the file is read and tokenized, `scoped_parse_ast` parses it while running the
preprocessor hooks (`$import`, `$syntax`), types the tree once and checks the
`$forward` stubs, a backend turns the tree into C text or VM bytecode, and with
`--run` the bytecode file is loaded and executed.

| Part | State it keeps | Operations | Interacts with |
|---|---|---|---|
| Intern table (`util/util.c`) | hash slots, capacity, index, fixed arena | `interns_intern`, growth, `interns_lookup` | everybody: symbols are compared by number |
| Typing context (`typing/type_context.c`) | scopes with variables and stubs, function registry, stacks of `$this`, `$file`, `$global` and functions, expected return type, pending placeholder | one function per push, pop, definition, lookup | inference only |
| Type inference (`typing/inference.c`) | the C stack of a recursive walk | one case per node kind | reads and writes the context; called by the parser's hooks and by the typing pass |
| Type objects (`typing/typing.c`) | arena objects, shared and mutated in place | constructors, equality | inference |
| Scoped parser (`parser/scoped_parser.c`) | grammar stack, a typing context of its own | parse contents, run hooks, typing pass | grammar parser, builtin parser, operators |
| Operators (`parser/operators.c`) | one static lookup record | `$import`, `$syntax` hooks | parse and type a module recursively |
| Grammar parser (`parser/parser.c`) | rules and productions; captures and nodes of each activation, furthest failure | load a grammar file, recognise, build a tree | scoped parser, lexer |
| Lexer (`lexer/lexer.c`) | offset, row, column, tokens so far | `lexer_tokenize` | driver, scoped parser, grammar loader |
| Builtin parser, AST | none beyond a cursor | recursive descent, nodes | scoped parser |
| Error sink (`util/error.c`) | one global sink | set, get, emit | overload resolution swaps it |
| VM emitter (`backend/vm.c`) | string table, metadata, code bytes | depth-first emission, file | driver |
| VM runtime (`runtime/vm_runtime.c`) | program, cursor, value stack, slots, call frames | load, one branch per opcode | driver |
| C backend (`backend/c.c`) | an output file | text generation | driver |

Nothing runs concurrently.  What is hard here is a recursive walk that mutates
shared state before and after each child, with an early return on every error
path; callbacks that re-enter the walk from the parser; type objects that are
shared and written through aliases; tables that grow while indices into them
are held; allocations and writes that fail half way; and two programs, emitter
and interpreter, that must agree on a byte layout and a stack discipline.

What makes the parts correct:

- context and inference: whatever path a walk takes, every stack is as deep
  after a node as before it; `$this`, `$ret`, `$file`, `$global` refer to the
  block, function, file being typed; a stub gets one body or one report;
  recursion sees the function's own return type; names keep their types;
- intern table: same string, same symbol, for ever, across collisions, growth
  and failures; a known string is not refused but for want of memory; every call
  returns;
- VM: what is executed is what was emitted; an index still names its text; an
  instruction consumes the values of its own operands; a slot holds the last
  value assigned; a call returns to its caller;
- overloads: errors are silenced while candidates are tried and heard again
  afterwards, however overloads nest and fail;
- scoped parser: the grammar in force in a file is changed by that file alone,
  whatever it imports; `$syntax` leaves no node and `$import` keeps its own; the
  parse ends unless imports form a cycle;
- lexer: the tokens and the blanks between them are the text; each token is as
  long as it can be and is said to be where it is;
- grammar parser: what is accepted is a sentence of the grammar; trees follow
  the binding powers and hold each operand once, in order; an abandoned
  alternative leaves no trace; every parse ends, within the recursion limit; the
  tree belongs to the caller.

## Modules

| Module | Models |
|---|---|
| `TypeContext` | the context's variables and, as operators on them, its functions; type objects as positions of `heap` |
| `Inference` | the recursive walk: one action per node kind entered and one per way a child's result is taken up; `calls` is the C stack |
| `SequenceFacts` | lemmas about the sequences that stand for stacks and arrays, folds over them, and sets of numbers |
| `InferenceProofs` | lemmas about the context's operators; types, stacks and placeholders, for every program |
| `ScopeProofs` | names, stubs and files, on top of these |
| `GrammarScopes` | the rule the scoped parser follows for the grammar in force, one per open file; the block rule of `scoped_parser.h:19` is not among what it does |
| `ScopedParser` | statements and their hooks, grammar stacks, imports in contexts of their own, the shared lookup record |
| `ScopedParserProofs` | theorems about it, among them the refinement |
| `Lexer` | tokenizing, one character per step; a token keeps its part of the text and its place |
| `GrammarFile` | loading a grammar: rules, productions, patterns with labels, groups and quantifiers, templates; pure operators |
| `GrammarLanguage` | the reference that the parser is compared with: what a grammar derives from a text, as a least fixed point over spans of tokens |
| `GrammarMatch` | the recogniser and the tree builder: activations, captures, repetition, binding powers, templates, overload nodes, freed nodes |
| `FrontEnd` | the two composed: a text is lexed, a grammar loaded, the tokens parsed |
| `GrammarMatchProofs`, `FrontEndProofs` | theorems about them; the second about the lexer and the composed system |
| `InternSpec` | what the intern table promises: a growing injective sequence of names |
| `Interns` | the hash table, step by step: growth check, one slot rehashed or probed per step, insertion, three ways to fail |
| `InternsProofs` | theorems about it, among them the refinement |
| `VmBackend` | emission, with the tree chosen as it is walked; layout of the file |
| `VmRuntime` | loader and interpreter, one action per instruction |
| `Vm` | the two composed as the driver does: emit, write, load, run |
| `VmProofs` | theorems about it |
| `MCInference`, `MCScopedParser`, `MCFrontEnd`, `MCInterns`, `MCVm` | instances for TLC; `MCFrontEnd` also has the grammars and the properties of trees |

### TypeContext and Inference

There is no syntax tree: at each position where the walk would look at a child
the next node is chosen, so the behaviours of `Inference` are all the programs
of up to `MaxNodes` constructs over the names and leaves of the instance,
together with their typing.  `calls` has a record for every activation of
`morphl_infer_type_of_ast` that is waiting for a child: the node, where it
stands in it, the type object it owns, and the depths of the context's stacks
when it was entered (a history value).  `mode` says whether the walk is about
to look at a node or returns a value.  Each action contains everything the C
code does between two recursive calls: entering a block pushes the scope and
`$this` and, if they are null, sets `$file` and `$global`; leaving it, on
success or failure, pops them and reports its open stubs.

Expressions that only read the context are leaves: integers, strings, a
mutable cell `$mut 0`, identifiers, calls of a name.  `heap` holds type
objects; a pointer is a position and 0 is NULL, because the code relies on
aliasing (the placeholder of a function is completed in place).  Scalar types,
which the code allocates afresh and only compares by content, are single
objects.  Type equality is cut at depth `EqDepth`; the types of the instances
are shallower.

The passes of `scoped_parse_ast` are `pass`: while parsing, each `$import` hook
types the module's root in the importer's context (`ParseImport`); then the
root is typed (`TypingPass`), where the same modules are met again under their
`$import` nodes; then `FinalCheck` scans the scopes still open.  `returned`,
`bodies` and `reports` are history variables.

An overload, the node a grammar production with several templates builds, is a
frame whose `self` is the type of a candidate's first operand, once it is known.
The operands of a candidate are visited like any other node, so that blocks,
functions, declarations and overloads may be among them; then an operator
accepts the types or not.  Candidates are operators that differ in what they
accept: `$add` stands for those of two ints, `$fadd` for those of two floats (no
leaf is one, so it never accepts), `$call`, `$func` and `$group`, and `$ret` of
one operand, which alone changes the context.  How many candidates there are is
open.  `silenced` is the global sink of `util/error.c`: the one of the driver, or
the one that swallows; a frame's `sink` is the C variable `prev_sink`.

### Lexer, GrammarFile, GrammarMatch, FrontEnd

A character is a letter, a digit, a punctuation mark, or one of those the lexer
looks for; the instance says which there are.  `lexing` is the loop of
`lexer_tokenize` in progress, so each branch is one action that begins a token
and one that reads on or ends it.  Columns are counted back from the end of a
token in `size_t`, that is modulo `SizeT`.

A grammar file is a sequence of lines, a pattern a sequence of words.  The
loader is a fold over the lines, as the code reads them once from top to bottom:
a rule given again starts from nothing, a label names the atom before it unless
that has a name, the first rule is the start rule.  Quoting and spacing of words
are left out, and so are groups within groups.

`stack` of `GrammarMatch` has the activations of `parse_rule_internal` (or its
`_ast` twin), each with the production it is trying, the atom it has come to and,
inside a group, the iteration; `held` has, for each of them, the operand on the
left, its captures and the nodes of the group, which only the tree builder uses.
The two parsers differ in that alone, and in one case of a token (`Fits`), so
one module has both.  `match_pattern` is part of the activation: it counts a
level of depth of its own (`Deeper`).  `nodes` and `freed` are the heap of AST
nodes; a node knows the production that built it (`by`, history).  Nothing is
undone when an atom fails but what the code undoes: a failed iteration gives
back its tokens, not its captures.

`GrammarLanguage` says what a grammar derives, of rules and tokens and not of
activations: a span of the tokens is derived from a rule when one of its
productions leads from its first to its last position and takes some token,
words by tokens or by spans derived already, groups by rounds.  No order of
productions, no binding power and no recursion limit is in it.  Recursion is by
functions over finite sets, so that it can be proved about.

`FrontEnd` runs the lexer on a text, turns its output into the tokens the parser
looks at (kind and text) and parses.  Several parses of one file, with `$syntax`
between them, are `ScopedParser`'s subject, which leaves the matching open.

### ScopedParser

`contexts` is the C stack of `ScopedParserContext`s, one per file being parsed,
the importers below the file they import; `result` is what `scoped_parse_ast`
has just returned to the hook that called it.  The builtin parser gives an
operator everything up to the end of the statement, so what matters of a
statement is the chain of operators it consists of and the file that the
innermost one names.  `ReadStatement` is the builtin parser's work on one
statement; afterwards `level` counts the hooks still to run, from the innermost
operator out, and `below` collects the operators that were kept.  A context
waits in the middle of this while a module is parsed above it.

`record` is the one static record of `operator_info_lookup`: every lookup, of
the builtin parser, of the hooks, of the templates of a grammar and of the
typing pass, overwrites it, and `apply_preprocessor_if_any` reads the policy of
a node from it after the node's hook has returned.  The order of lookups in the
typing pass and in a template is left open: any operator of the tree may have
been the last.

What a grammar makes of a text, which `GrammarMatch` says, is open here: it
rejects it or turns the rest of the file into nodes of `Template`, whose
operators may be any, `$syntax` included: a node's `ops` are those the builtin
parser read, whose hooks run, its `built` those of templates, whose hooks do not
(`scoped_parser.c:322`).  A grammar
file or a module may fail to load at any time.  Files are any sequences of
statements; a statement may be one that cannot be parsed, for which the depth
limit of the builtin parser is one reason.  Failures to allocate are left out.
Nothing bounds the nesting of imports but the C stack, which ends at `MaxOpen`.
`EmptyContext`, with no grammar at all and the builtins on, exists only before
`scoped_parse_ast` pushes its first grammar; the grammar that `main` may load
stays below that one.

`GrammarScopes` knows one grammar per open file.  Under the refinement the
stack of each context becomes what `use_builtins` and its top say is in force.
It states what the code does; where the header says more, for blocks, the run
`BlockScopes` shows the difference.

### Interns

`Hash`, the sizes and the two capacities are constants.  A call of
`interns_intern` is several steps so that properties hold between them as well:
a half-rehashed table is a state.  The code's capacities are powers of two and
it masks with `cap - 1`; the model takes the remainder, which is the same
number, and allows any positive capacity.  Growth of the table, growth of the
index and the arena may each fail.  `InternSpec` has the sequence of names, the
last answer and how many allocations have failed; it refuses a string it knows
only when that number grows.  Under the refinement `names <- index` the slots,
their growth and the kinds of failure disappear.

### VmBackend, VmRuntime, Vm

`frames` has the nodes whose children are being emitted.  `code` has one cell
per byte, the instruction in the first and operand markers behind it, so the
cursor is a byte offset as in the code.  `source` (history) remembers for each
instruction the text it was emitted for and the cells of its operands;
`origins` (history) remembers for each stack value the instruction that pushed
it.  The number of children of a node is an input (`Arity`), since the builtin
parser takes whatever arguments there are.  A `$ret` without an argument is
excluded: the emitter reads its first child unchecked.

The text of a literal is read by `strtod` only, so a literal value carries its
number or `NotANumber`; numbers are naturals.  Group values are opaque: no
instruction reads their items.  A file is a sequence of units (a count, a text,
a metadata pair, a byte of code).  `Write` may lose units at its end, with the
loss reported (`fwrite`) or not (`fclose`, whose result is ignored).

## Runs

| Run | Instance | Checks | Shows |
|---|---|---|---|
| `Walk` | names f, g (symmetric), every construct, 3 of them; texts, cells, identifiers and calls as leaves | `TypeOK`, `StacksBalanced`, `StacksNameActivations`, `StubsSettledOnce`, `CallsSeeStubType`, `ModuleNamesItself`, `NamesKeepTheirType`, `RecursionSeesOwnReturn`, `ReturnsAgree`, `ErrorsSilencedInOverloads` | all error paths restore the stacks; a stub has one body or one report when its scope has closed, calls see the stub's type, only a function redeclaration retypes a name; `$file`/`$global` in a module are the module, also after a nested import; what the `$ret`s of a function returned is its return type, also when an overload chose one; a call that resolves to a function being typed sees no type but what that function's own `$ret`s returned; errors are silenced exactly inside overloads |
| `FrontEnd` | every text of up to 4 to 6 characters over nine alphabets of 2 to 8 characters, six grammars, recogniser and tree builder, `MaxDepth = 16`, `SizeT = 64`, `FairSpec` | `LexTypeOK`, `TokensCover`, `LexemesMaximal`, `TokensLocated`, `MatchTypeOK`, `CursorsOrdered`, `RecursionBounded`, `AcceptsSentences`, `AcceptsEverySentence`, `BindingRespected`, `TreeReadsTokens`, `ParseEnds` | tokens are the text; what is accepted is derivable and, where no choice has to be taken back, the reverse; trees follow the binding powers and hold each operand once; every parse ends |
| `ScopedParser` | two files of up to 2 statements of nine kinds, one grammar whose templates build `$syntax` among others, up to 3 files open, `FairSpec` | `TypeOK`, `FlagMatchesTop`, `SyntaxDropped`, `ImplementsScopes`, `ParseEnds` | grammars are scoped by file, a `$syntax` that a file spells out leaves no node, the parse ends unless a file imports itself |
| `Interns` | 5 strings on colliding homes, capacity 2 growing three times, arena that fills, 2 failed allocations, `FairSpec` | `TypeOK`, `SymbolsFindable`, `ImplementsTable`, `CallsReturn` | the table implements its abstraction; calls return as long as at most half of the table is taken by strings that have no symbol |
| `Vm` | all trees of up to 4 emitted nodes of every kind, writes losing 1, 3, 12 or 24 units | `TypeOK`, `InstructionsKeepMeaning`, `LoadedIsEmitted`, `AtInstruction`, `OperandsBelong`, `SlotHoldsLast` | what runs is what was emitted; in well-formed trees each instruction takes its own operands |

The bounds are small because the walks are: each property's mutant, a plausible
bug in the mapped code, is found within the same bounds, and every action of
the models fires in them.  Two names are enough for one name to be captured by
another's declaration; nesting three deep has an inner, a middle and an outer
activation; five strings make a home slot collide before and after each growth;
two failed allocations are as many as the smallest table has slots; four nodes hold an operator with two operands under another operator, and an
assignment with a later one of the same slot.  Two files are enough for an
import, a cycle of one and of two files, and three open ones are one more than
there are files, so every cycle shows before the stack ends; with two
statements a file has one to change the grammar or to fail after, and one it
applies to; the statements put `$syntax` and `$import` under and around another
operator and each other.

The lexer's texts have five characters of all classes, so that two tokens of any
kind meet; the parser's have five or six of the grammar's own tokens, which is
three operators deep: a prefix, an infix and a postfix operator around each
other, a list, two statements, a call with an argument, an optional part present
and absent.  Two grammars are chosen for the loader's corners and two for rules that
call each other, or extend, without reading a token.  `MaxDepth` is 128 in the
code; 16 is reached where rules call each other without reading, and leaves room for
the other texts, where a token costs two levels.  `SizeT` is larger than any text, and
smaller than it wraps in the one case where the code wraps.

In `Walk`, three constructs are a function, another in its parameter or body and
a `$ret`, or a stub, its body and a redeclaration, or an overload in an operand of
another with a declaration inside.  The properties that need more to be at their
most interesting are also proved, for programs of any size.  A cell `$mut 0` is
there for the integer in it; literals of two scalar types beside it tell nothing
more apart.

Runs that are expected to fail, each a disagreement between the code and what
its own text says:

| Run | Property | Disagreement |
|---|---|---|
| `NestedFunction` | `ReturnTypeKnown` | leaving a function literal clears the expected return type of the function around it (`inference.c:765`); `docs/semantics/storage.md:89` returns after such a literal |
| `ImportKept` | `ImportKept` | a module that looks up `$syntax` last makes its importer drop the `$import` node (`scoped_parser.c:187` reads the policy from the record of `operators.c:741`); the comment at `operators.c:67` keeps it |
| `VmNestedRet` | `RetResumesCaller` | after `vm_return` the loop falls through to "unknown opcode" (`vm_runtime.c:807`) |
| `RecursiveCall` | `RecursiveCallMatches` | a function literal in the parameter of a declared function takes its placeholder (`inference.c:702` before 711), so recursive calls see that literal's return type; the comment at `inference.c:726`: "recursive call sees UNKNOWN matching UNKNOWN" |
| `InternsFull` | `EveryCallReturns` | two failed growths of the index fill the table with strings that have no symbol, growth looks at symbols only (`util.c:118`), and a probe does not end; `lexer.h:32` promises false |
| `BlockScopes` | `BlocksScopeGrammar` | what a `$syntax` in a block loads stays in force behind it (`scoped_parser.c:392`); `scoped_parser.h:19` |
| `CallerOwnsTree` | `CallerOwnsTree` | a template that misses a capture frees the operand on the left (`parser.c:1018`), which the next production then puts into the accepted tree; `parser.h:141` gives the tree to the caller |

What `RecursionSeesOwnReturn` says of every program and what
`RecursiveCallMatches` says against the comment differ: a function literal in a
parameter takes the placeholder, and from then on the name resolves to that
literal's type, whose `$ret`s the calls see.  They see what the function they
resolve to returned, but it is not the function declared.

Disagreements without a run.  Where a property is said to be contradicted, TLC
finds the counterexample on an instance chosen for it (the grammar, limit or text
given); the others are plain from the line.

- inference: `$file` in an importing file, behind the import, names the module
  that the import hook typed (`inference.c:633` against `SPEC.md:328`);
  a `$decl` with a function literal replaces a variable of any type
  (`inference.c:569`; `NamesKeepTheirType` exempts it), while every other second
  declaration is refused, "$decl: variable already declared" (line 579); `$set` of
  a variable declared without `$mut` is accepted (`inference.c:892` against
  `docs/semantics/storage.md:22`); a `$func` or `$decl` that is itself a candidate
  of an overload is typed as a plain operator, without a scope and without
  declaring anything (`inference.c:1021`); a stub whose body is missing inside an
  operand is reported to the silenced sink, so nobody hears of it;
- scoped parser: a `$syntax` that a template builds stays in the tree
  (`scoped_parser.c:322` and `parser.c:938`, while `operators.c:51` says "drop node
  from AST"; `SyntaxDropped` is about those that are spelt out); the grammar of the
  command line lies below the builtins and is never consulted
  (`scoped_parser.c:419`, as `scoped_parser.h:17` says, against `SPEC.md:437` and
  `main.c:18`);
- grammar parser: the recursion limit is a failed match like any other
  (`parser.c:1247`): with `MaxDepth = 6`, `a^a^a^a` is accepted with a left-leaning
  tree of a right-associative operator, against `BindingRespected`; what a failed
  round of a repetition captured stays captured (`parser.c:1191`): with
  `$( %IDENT s "," )* %IDENT s` the text `a` has a tree with the name in it twice,
  against `TreeReadsTokens`; a repetition of a group that takes nothing goes round
  `SIZE_MAX` times (`parser.c:664`), against `ParseEnds`; `parser.h:118` speaks of a
  depth-first search over productions, but a choice that fits is never taken back,
  which is why `AcceptsEverySentence` is about two grammars only; the recogniser
  refuses a float where the tree builder takes it for `%NUMBER`; a template of one
  word yields the first node, whatever the word; `$$spread` dissolves groups that
  the program wrote; a text without tokens is refused;
- lexer: the column of a string over several lines is counted back from its last
  line and wraps, and its row is that of the last line (`lexer.c:159` against
  `tokens.h:20`, "1-based column number"; `TokensLocated` is about tokens on one
  line); `lexer.h:20` speaks of punctuation sequences, while every mark is a token
  of its own (`lexer.c:164`);
- VM: an empty block emits no value for the `SET_SLOT` of its `$decl` (`vm.c:267`
  against `docs/backend/vm_bytecode.md:58`); `OperandsBelong` is about trees whose
  nodes leave the values their parents take.

**Fairness.**  `CallsReturn`, `EveryCallReturns` and the two `ParseEnds` are
liveness properties.
`FairSpec` of `Interns` assumes weak fairness of the steps inside a call, never
of starting one, those of `ScopedParser` and `FrontEnd` weak fairness of the
parser's (and the lexer's) steps as a whole: all run on one thread, which does
not stop in the middle of a function.  The
scoped parser takes a step in every state until it has a verdict, and which step
it takes is not assumed to be fair: a module may fail to load every time.  The
front end is deterministic once the text is chosen.  All
other specifications state no fairness.

**Deadlock** is checked in every run; a finished compilation stutters by an
explicit `Done` or `Stopped` step.  In `FrontEnd` this is a check of its own: no
text leaves lexer or parser without a next step before there is a verdict.

## Proofs

`tlapm` checks, for all values of the constants that satisfy the named
assumptions:

- `InferenceProofs!TypesAllocated` and `StacksStayBalanced`: `[]TypeOK` and
  `[]StacksBalanced`, for programs of any size.  `StacksBalanced` is not
  inductive on its own: popping needs to know that the stack is non-empty and
  that `calls` records the depth it had, and `TypeOK` that a pop leaves a scope.
  So the invariant `IInv` is both of them together; `TypeOK` says, among others,
  that the pending placeholder is a function object and that `$file` and
  `$global` are stacked in pairs.  `StepKeepsInvariant` has one lemma per action
  or group of actions; the lemmas before them say what the operators
  on heap, scopes and functions preserve when the heap grows.
- `InferenceProofs!SinkRestored` and `StacksName`: `[]ErrorsSilencedInOverloads`
  and `[]StacksNameActivations`, on top of `IInv`.  `StepShapes` shows that every
  step starts an activation, ends the innermost one, enters the body of the
  innermost function or leaves what each activation is.  `SinkInv` says that an
  activation remembers a swallowing sink exactly when an overload is below it;
  `NamesInv` that the block or function of each activation is on the stack at
  its own depth, and that later activations started at least as deep, so that
  what they push and pop is above it.
- `InferenceProofs!RecursionOwn`: `[]RecursionSeesOwnReturn`, for all programs,
  with function literals in parameters too.  A call is resolved by name, through
  scopes in which placeholders were bound several activations earlier, so the
  property needs to know that nobody but its own `$ret`s writes a function that is
  being typed.  `OwnInv` says that the functions on the stack are distinct
  objects (`DistinctOK`), each of them unknown or returning a type that it did
  return (`OwnReturnsOK`), and that a pending placeholder is none of them
  (`PlaceholderOK`), so that the function which takes it is distinct again.  The
  calls then see this through `LookupVar`, whatever name leads to the object.
- `InferenceProofs!ReturnsAgreed`: the action property `ReturnsAgree`, for all
  programs and any depth of comparison.  It has three parts.  What a comparison
  of types says: `TypeEqualsIs` gives the recursive function behind
  `TypeEquals` as layers of pairs that are alike down to a depth, built by
  induction, from which it is reflexive (`TypeEqualsSelf`) and reads only what
  its arguments reach (`TypeEqualsKept`).  What does not change: `SettledInv`
  says that nothing refers to the type of a block that is still open, no part of
  a type, no scope, no expectation and no returned type, so a field added to
  that block leaves all other comparisons alone.  (It would not hold of a
  program that declares a field as `$this`, which the leaves modelled cannot
  write; `morphl_type_equals` does not return for such a type.)  And what is
  expected: `AgreeInv` says that each type the innermost function has returned so
  far agrees with the expected one.  Only the first `$ret` of a known type and a
  function that is entered or left write what is expected: the first finds
  nothing returned yet, the others start or drop a history.
- `ScopeProofs!CallsOfStubs`, `NamesKept`, `StubsSettled` and
  `ModulesNameThemselves`: `[]CallsSeeStubType`, `NamesKeepTheirType`,
  `[]StubsSettledOnce` and `[]ModuleNamesItself`.  `ScopeShapes` sorts the steps
  by what they do to the scopes: open, close, bind, rebind, declare a stub, give
  one its body, or nothing.  `ScopesBound` says that the first variable of a
  stub's name is the stub's; a function that redeclares a name takes the other
  branch when the name has a stub, so it cannot get in between.  `StubsInv` says
  where the stubs are: those of the open scopes have at most one body and no
  report, no two entries are the same stub, and all others are settled; a scope
  that closes reports exactly its entries without a body.  `FilesInv` says that
  each module's `$file` and `$global` are pushed by its `$import` as null, filled
  by the first block above it, which is the module's root, and restored when the
  import ends, so that the stacks hold, in order, those of the modules around.
- `InternsProofs!TableTyped`, `SymbolsAlwaysFindable`, `TableImplemented`: the
  types, findability of every string that has a symbol, and the refinement of
  `InternSpec`.  The invariant speaks of the table in use and of the half-filled
  new table: everything in it is where a probe stops, the old slots before
  `cursor` are all in it, no string is in two places.  The hash function is
  arbitrary; termination of a probe is not needed for safety.
- `FrontEndProofs!LexerTyped`, `LexerCovers`, `LexerMaximal`, `TokensArePlaced`,
  `ParserAdvances`, `ParserBounded`: `[]LexTypeOK`, `[]TokensCover`,
  `[]LexemesMaximal`, `[]TokensLocated`, `[]CursorsOrdered` and
  `[]RecursionBounded` of the composed front end, for all texts, alphabets,
  grammars and depth limits, from the invariant `FrontInv`.
  `LexInv` adds to the three lexer properties what has been read of the token in
  progress and that the end token is the last.  `PlaceInv` counts the line breaks
  read so far and the characters behind the last one; a token's column is counted
  back from there modulo `SizeT`, which is right when no line break is in between.  `ControlInv` adds that every
  frame stands at a production and an atom that exist, in a group only if the
  atom is one, that the frame above was called by the atom the one below stands
  at, and that what an activation returns ends behind where it was called.
- `GrammarMatchProofs!GrammarsWellFormed`: a file that loads has a start rule,
  and all its rules have patterns and templates of the kinds a parse can stand
  at, whatever its lines are.  `Loading` is what the fold over the lines keeps;
  a file that opens the same rule twice, or uses a label where no atom is, keeps
  it too.  `ControlInv` rests on this theorem.
- `FrontEndProofs!TreesTyped`: `[]MatchTypeOK`.  `MatchTypeOK` is not inductive
  on its own, since a template may ask for a capture that holds nothing and an
  overload copies its operands; `DataInv` adds that each node is made of earlier
  ones (`HeapOK`), so that what a template flattens or frees is finite and was
  built, that an activation which extends its match has a left operand, and
  that one which has matched while a tree is built returns a node.  The lemmas
  on templates say that the heap they leave is no smaller and again of that kind
  (`Built`), argument by argument and candidate by candidate, also when building
  fails half way.  Loader and templates are folds; what a fold keeps is proved
  in `SequenceFacts` (`FoldComputed`, `FoldStays`) by induction over the positions.
- `FrontEndProofs!ParserSound`: `[]AcceptsSentences`, for every grammar file that
  loads, every text and every depth limit, of recogniser and tree builder.  It
  is soundness of a parser that backtracks by giving up local positions, and it
  needs both sides.  Of the reference, `GrammarMatchProofs!DerivedIsLeast`:
  spans are finitely many and the productions derive no less from more, so the
  iteration in `Derived` ends at the least set that they close (`ClosureIsLeast`,
  by induction on how many spans are missing); words, groups and patterns are
  monotone one by one.  Of the parser, `LanguageInv`: each activation began where
  the atom that called it stands; its pattern has led from there to its position
  by the atoms before the one it is at, in a group by whole rounds and then by
  the words before the one it is at; a rule that is being extended has derived
  the span up to its cursor, so an extension, whose first atom is the rule
  itself, starts with that span; and a cursor that is returned ends a span
  derived from the rule that was called.  That a production which extends a rule
  starts with that very rule is a fact about the loader (`ExtensionsFit` in
  `GrammarsWellFormed`).  The failed last iteration of a repetition is why the
  group's position and the round's are told apart: the mutant of
  `AcceptsSentences` confuses them.
- `ScopedParserProofs!ContextsTyped`, `FlagFollowsGrammar`, `ScopesImplemented`,
  `SyntaxNeverTyped`: types, the cached flag, the refinement of `GrammarScopes`
  and the absence from every tree of each `$syntax` that a file spells out, for any
  files, grammars, templates and depth of imports.  `IInv` adds to the types that a context which runs hooks is
  inside a statement of its file, with no more hooks to run than the statement
  has operators, and that every context but the innermost, and that one too
  while a result is waiting, is in the hook of some operator; without it the
  importer that is resumed could be anywhere.  `SyntaxInv` adds that this
  operator is an `$import` and that a returned tree has no such `$syntax` either.
- `VmProofs!VmTyped`, `TextsKept`, `RunsWhatWasEmitted`, `CursorAtInstruction`,
  `SlotsHoldLast`: `[]TypeOK`, `[]InstructionsKeepMeaning`, `[]LoadedIsEmitted`,
  `[]AtInstruction` and `[]SlotHoldsLast`, for any tree, any loss at the end of
  the file and any table of numbers.  `AtInstruction` says nothing of the code
  that has not run yet, so `CodeInv` does: every instruction is followed by its
  operand bytes and then by another instruction (`Layout`), with the widths the
  emitter writes, and `HALT` is the last cell once the walk is over and nowhere
  else.  The interpreter's widths agree with the emitter's but for `NODE_META`,
  which it refuses, so each step that does not end the run lands on an
  instruction (`NextInstruction`).  `Prefix` says of the file that it is the
  image cut somewhere; `LoadableIsWhole` that the loader's counts reject every
  proper prefix.  `SlotsOK` says that names of slots are unique, which is what
  makes the first slot found the one assigned; it is given up when `vm_return`
  trims the slots, which is also the end of the run.
- `VmProofs!OperandsOwned`: `[]OperandsBelong`, in two steps.  `TreeInv` says of
  the emitter that the spans of a node's children lie side by side and end where
  the node's own instruction begins, and that a span which starts before an
  instruction starts no later than that instruction's operands: spans are nested
  or apart.  `RunTree` says of the interpreter, in the code of a well-formed
  tree, that the stack is as high as the net effect of the code executed so far
  (`HeightAt`, the fold `Net` as a function of the position), and that whoever
  starts an operand that is still to be taken cuts the stack: below the height
  at its start are values pushed before it, above it values pushed since.  The
  operands of an instruction then are cut from each other by their starts, and
  each leaves one value.  That a fold has the height it should at every position is
  proved by induction over the position, as a property of a set of numbers
  (`SetInduction`), which needs no operator as a parameter.

The assumptions are the ones declared in the modules: an absent name is no
name, the bounds are naturals, the hash maps strings to naturals, capacities
are positive, what a grammar builds has no operators of the builtin parser, the
classes of characters are disjoint, and a grammar file is a sequence of lines,
each of them of one of the three kinds (`FileAssumption`).  Nothing is assumed of
what the lines say: a file may open no rule, refer to rules that do not exist,
or capture and ask for anything.

Checked by TLC only: liveness (`CallsReturn`, `ParseEnds`); of the grammar
parser, the converse of soundness (`AcceptsEverySentence`), which holds of some grammars only and of
texts below the recursion limit, and what its trees mean (`BindingRespected`,
`TreeReadsTokens`), which holds of the grammars of the run, whose templates and
captures name each operand once.

## Not modelled

- C code generation (`backend/c.c`) produces text whose correctness is C's; the
  registration of a backend is one pointer set before its only use; file and
  path helpers are I/O.
- `builtin_parse_ast`, which only its test calls; of the operators, the hooks
  that are registered but never reached.
- Of the grammar parser, groups within groups, and how a grammar file quotes and
  spaces its words (among it a line that starts with `end`, and the search for
  `=>` inside a quoted word).
- The lifetime of a module's text, which `$import` frees while the module's tree
  still points into it (`operators.c:114`), and the freeing of the candidates
  that an overload rejects, which belong to that node alone.
- Of inference, groups, `$member`, properties, comparison operators and `$if`.
- Allocation failures outside the intern table and the VM: most of them are
  unchecked in the code.

## Plan

Done: `TypeContext`, `Inference` with overloads and the error sink, `Interns`,
the VM, `ScopedParser`, `Lexer`, `GrammarFile`, `GrammarMatch` and `FrontEnd`,
with the theorems above.  What is left, in this order:

1. `$member`, groups and properties in `Inference`; a leaf that declares a field
   as `$this`, with a bound on `morphl_type_equals`.
2. `ScopedParser` with `GrammarMatch` in place of its open choice.
