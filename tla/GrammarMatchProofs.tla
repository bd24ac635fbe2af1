------------------------ MODULE GrammarMatchProofs ------------------------
(***************************************************************************)
(* What a parse keeps, for every grammar file and every sequence of tokens.*)
(*                                                                         *)
(* A file that the loader accepts is a well-formed grammar: its fold over  *)
(* the lines keeps Loading.  The activations then stay within the grammar, *)
(* the tokens and the limit of the recursion, and behind one another:      *)
(* ControlInv is kept by every step.  So is DataInv: what the activations  *)
(* hold are nodes of the heap, made of nodes built before them.            *)
(***************************************************************************)
EXTENDS GrammarMatch, SequenceFacts, FiniteSetTheorems

-----------------------------------------------------------------------------
(* What the loader makes of the words of a pattern *)

Capturing == CaptureName \cup {NoName}
What == STRING \cup Seq(STRING) \cup CaptureName

SimpleAtom == [is : {"literal", "kind", "rule"}, what : What, min_bp : Nat, capture : Capturing]
RepeatAtom ==
  [is : {"repeat"}, atoms : Seq(SimpleAtom), min_occurs : {0, 1}, once : BOOLEAN, capture : Capturing]
PatternAtom == SimpleAtom \cup RepeatAtom

(* A pattern that is being read. *)
Partial(A) == [atoms : Seq(A), pending : Capturing]

(* Atoms that stay such when they get a capture. *)
Capturable(A) == SimpleAtom \subseteq A /\ \A a \in A : \A n \in Capturing : [a EXCEPT !.capture = n] \in A

LEMMA SimpleCapturable == Capturable(SimpleAtom)
  BY DEF Capturable, SimpleAtom

LEMMA PatternCapturable == Capturable(PatternAtom)
<1>1. \A a \in SimpleAtom : \A n \in Capturing : [a EXCEPT !.capture = n] \in SimpleAtom
  BY DEF SimpleAtom
<1>2. \A a \in RepeatAtom : \A n \in Capturing : [a EXCEPT !.capture = n] \in RepeatAtom
  BY DEF RepeatAtom
<1> QED BY <1>1, <1>2 DEF Capturable, PatternAtom

LEMMA AddAtomOK ==
  ASSUME NEW A, Capturable(A), NEW p \in Partial(A), NEW a \in A
  PROVE  AddAtom(p, a) \in Partial(A)
<1>1. p.atoms \in Seq(A) /\ p.pending \in Capturing
  BY DEF Partial
<1>2. PICK b \in A : b = [a EXCEPT !.capture = p.pending]
  BY <1>1 DEF Capturable
<1>3. Append(p.atoms, b) \in Seq(A) /\ NoName \in Capturing
  BY <1>1 DEF Capturing
<1>4. AddAtom(p, a) = [atoms |-> Append(p.atoms, b), pending |-> NoName]
  BY <1>2, Zenon DEF AddAtom
<1> QED BY <1>3, <1>4 DEF Partial

LEMMA LabelOK ==
  ASSUME NEW A, Capturable(A), NEW p \in Partial(A), NEW n \in CaptureName
  PROVE  Label(p, n) \in Partial(A)
<1>1. p.atoms \in Seq(A) /\ p.pending \in Capturing /\ n \in Capturing
  BY DEF Partial, Capturing
<1>2. CASE p.atoms # << >> /\ Last(p.atoms).capture = NoName
  <2> DEFINE k == Len(p.atoms)
             xs == p.atoms
  <2>1. k \in DOMAIN xs /\ xs[k] \in A
    BY <1>1, <1>2
  <2>2. PICK b \in A : b = [xs[k] EXCEPT !.capture = n]
    BY <1>1, <2>1 DEF Capturable
  <2>3. PICK bs : bs = [xs EXCEPT ![k] = b]
    OBVIOUS
  <2>4. bs \in Seq(A)
    BY <1>1, <2>3, ExceptInSeq
  <2>5. bs = [xs EXCEPT ![k].capture = n]
    BY <2>2, <2>3
  <2>6. Label(p, n) = [p EXCEPT !.atoms = bs]
    BY <1>2, <2>5 DEF Label
  <2> QED BY <2>4, <2>6 DEF Partial
<1>3. CASE ~(p.atoms # << >> /\ Last(p.atoms).capture = NoName)
  <2>1. Label(p, n) = [p EXCEPT !.pending = n]
    BY <1>3 DEF Label
  <2> QED BY <1>1, <2>1 DEF Partial
<1> QED BY <1>2, <1>3

LEMMA LoadSimpleOK ==
  ASSUME NEW A, Capturable(A), NEW p \in Partial(A), NEW w \in SimpleWord
  PROVE  LoadSimple(p, w) \in Partial(A)
<1>1. CASE w.is = "label"
  <2>1. w.what \in CaptureName
    BY <1>1 DEF SimpleWord
  <2>2. LoadSimple(p, w) = Label(p, w.what)
    BY <1>1 DEF LoadSimple
  <2> QED BY <2>1, <2>2, LabelOK
<1>2. CASE w.is # "label"
  <2>1. /\ w.is \in {"literal", "kind", "rule"} /\ w.what \in STRING \cup Seq(STRING)
        /\ w.min_bp \in Nat
    BY <1>2 DEF SimpleWord
  <2>2. Simple(w.is, w.what, w.min_bp) \in SimpleAtom
    BY <2>1 DEF Simple, SimpleAtom, What, Capturing
  <2>3. Simple(w.is, w.what, w.min_bp) \in A
    BY <2>2 DEF Capturable
  <2>4. LoadSimple(p, w) = AddAtom(p, Simple(w.is, w.what, w.min_bp))
    BY <1>2 DEF LoadSimple
  <2> QED BY <2>3, <2>4, AddAtomOK
<1> QED BY <1>1, <1>2

LEMMA EmptyPatternOK ==
  ASSUME NEW A
  PROVE  EmptyPattern \in Partial(A)
  BY DEF EmptyPattern, Partial, Capturing

(* The words of a group. *)
LEMMA GroupWordsOK ==
  ASSUME NEW c \in Seq(SimpleWord)
  PROVE  FoldLeft(LoadSimple, EmptyPattern, c) \in Partial(SimpleAtom)
<1> DEFINE X == Partial(SimpleAtom)
           F == [a \in X \X SimpleWord |-> LoadSimple(a[1], a[2])]
           Is(g) == g = [s \in SUBSET DOMAIN c |->
                          IF s = {} THEN EmptyPattern ELSE LoadSimple(g[s \ {Max(s)}], c[Max(s)])]
<1>1. EmptyPattern \in X
  BY EmptyPatternOK
<1>2. F \in [X \X SimpleWord -> X]
  BY LoadSimpleOK, SimpleCapturable
<1>3. FoldLeft(LoadSimple, EmptyPattern, c) = (CHOOSE g : Is(g))[DOMAIN c]
  BY DEF FoldLeft, MapThenFoldSet
<1>4. \A p \in X : \A w \in SimpleWord : F[<< p, w >>] = LoadSimple(p, w)
  OBVIOUS
<1> HIDE DEF F, X
<1>5. \E f : Is(f)
  <2>1. PICK f : Computes(F, X, SimpleWord, EmptyPattern, c, f)
    BY <1>1, <1>2, FoldComputed
  <2>2. Is(f)
    BY <1>4, <2>1 DEF Computes
  <2> QED BY <2>2
<1>6. PICK g : Is(g) /\ FoldLeft(LoadSimple, EmptyPattern, c) = g[DOMAIN c]
  BY <1>3, <1>5
<1>7. StepsWith(F, X, SimpleWord, EmptyPattern, c, g)
  BY <1>4, <1>6 DEF StepsWith
<1> HIDE DEF Is
<1>8. g[DOMAIN c] \in X
  BY <1>1, <1>2, <1>7, FoldStays
<1> QED BY <1>6, <1>8 DEF X

(* A word of a pattern, and its words. *)
LEMMA LoadWordOK ==
  ASSUME NEW p \in Partial(PatternAtom), NEW w \in SimpleWord \cup GroupWord
  PROVE  LoadWord(p, w) \in Partial(PatternAtom)
<1>1. CASE w.is = "group"
  <2>1. w.words \in Seq(SimpleWord)
    BY <1>1 DEF SimpleWord, GroupWord
  <2>2. FoldLeft(LoadSimple, EmptyPattern, w.words).atoms \in Seq(SimpleAtom)
    BY <2>1, GroupWordsOK DEF Partial
  <2>3. PICK xs \in Seq(SimpleAtom) : xs = FoldLeft(LoadSimple, EmptyPattern, w.words).atoms
    BY <2>2
  <2>4. PICK q : q = Repeats(w.quantifier)
    OBVIOUS
  <2>5. q[1] \in {0, 1} /\ q[2] \in BOOLEAN
    BY <2>4 DEF Repeats
  <2>6. Group(xs, q[1], q[2]) \in RepeatAtom
    BY <2>5 DEF Group, RepeatAtom, Capturing
  <2>7. Group(xs, q[1], q[2]) \in PatternAtom
    BY <2>6 DEF PatternAtom
  <2>8. LoadWord(p, w) = AddAtom(p, Group(xs, q[1], q[2]))
    BY <1>1, <2>3, <2>4 DEF LoadWord
  <2> QED BY <2>7, <2>8, AddAtomOK, PatternCapturable
<1>2. CASE w.is # "group"
  <2>1. w \in SimpleWord
    BY <1>2 DEF GroupWord
  <2>2. LoadWord(p, w) = LoadSimple(p, w)
    BY <1>2 DEF LoadWord
  <2> QED BY <2>1, <2>2, LoadSimpleOK, PatternCapturable
<1> QED BY <1>1, <1>2

LEMMA PatternOK ==
  ASSUME NEW c \in Seq(SimpleWord \cup GroupWord)
  PROVE  Pattern(c) \in Seq(PatternAtom)
<1> DEFINE X == Partial(PatternAtom)
           W == SimpleWord \cup GroupWord
           F == [a \in X \X W |-> LoadWord(a[1], a[2])]
           Is(g) == g = [s \in SUBSET DOMAIN c |->
                          IF s = {} THEN EmptyPattern ELSE LoadWord(g[s \ {Max(s)}], c[Max(s)])]
<1>1. EmptyPattern \in X /\ c \in Seq(W)
  BY EmptyPatternOK
<1>2. F \in [X \X W -> X]
  BY LoadWordOK
<1>3. FoldLeft(LoadWord, EmptyPattern, c) = (CHOOSE g : Is(g))[DOMAIN c]
  BY DEF FoldLeft, MapThenFoldSet
<1>4. \A p \in X : \A w \in W : F[<< p, w >>] = LoadWord(p, w)
  OBVIOUS
<1> HIDE DEF F, X, W
<1>5. \E f : Is(f)
  <2>1. PICK f : Computes(F, X, W, EmptyPattern, c, f)
    BY <1>1, <1>2, FoldComputed
  <2>2. Is(f)
    BY <1>4, <2>1 DEF Computes
  <2> QED BY <2>2
<1>6. PICK g : Is(g) /\ FoldLeft(LoadWord, EmptyPattern, c) = g[DOMAIN c]
  BY <1>3, <1>5
<1>7. StepsWith(F, X, W, EmptyPattern, c, g)
  BY <1>4, <1>6 DEF StepsWith
<1> HIDE DEF Is
<1>8. g[DOMAIN c] \in X
  BY <1>1, <1>2, <1>7, FoldStays
<1> QED BY <1>6, <1>8 DEF X, Pattern, Partial

-----------------------------------------------------------------------------
(* What the loader makes of a file *)

Productions ==
  {p \in [atoms : Seq(PatternAtom), templates : Seq(OpTemplate), starts_with_expr : BOOLEAN] :
     p.templates # << >>}

RuleName == STRING \ {NoName}
RuleSets == UNION {[D -> Seq(Productions)] : D \in SUBSET RuleName}

(* A production that is marked as an extension starts with its own rule. *)
ExtendsItself(r, p) ==
  p.starts_with_expr => Len(p.atoms) > 0 /\ p.atoms[1].is = "rule" /\ p.atoms[1].what = r

ExtensionsFit(rules) == \A r \in DOMAIN rules : \A j \in DOMAIN rules[r] : ExtendsItself(r, rules[r][j])

(* A grammar that is being loaded. *)
Loading ==
  {g \in [rules : RuleSets, start : RuleName \cup {NoName}, current : RuleName \cup {NoName},
          ok : BOOLEAN] :
     /\ g.current # NoName => g.current \in DOMAIN g.rules
     /\ g.start = NoName => DOMAIN g.rules = {}
     /\ g.start # NoName => g.start \in DOMAIN g.rules
     /\ IsFiniteSet(DOMAIN g.rules) /\ ExtensionsFit(g.rules)}

LEMMA RuleSetsIs ==
  ASSUME NEW r
  PROVE  r \in RuleSets <=> /\ r = [n \in DOMAIN r |-> r[n]]
                            /\ DOMAIN r \subseteq RuleName
                            /\ \A n \in DOMAIN r : r[n] \in Seq(Productions)
<1>1. ASSUME r \in RuleSets
      PROVE  /\ r = [n \in DOMAIN r |-> r[n]] /\ DOMAIN r \subseteq RuleName
             /\ \A n \in DOMAIN r : r[n] \in Seq(Productions)
  <2>1. PICK D \in SUBSET RuleName : r \in [D -> Seq(Productions)]
    BY <1>1 DEF RuleSets
  <2> QED BY <2>1
<1>2. ASSUME r = [n \in DOMAIN r |-> r[n]], DOMAIN r \subseteq RuleName,
             \A n \in DOMAIN r : r[n] \in Seq(Productions)
      PROVE  r \in RuleSets
  <2>1. r \in [DOMAIN r -> Seq(Productions)]
    BY <1>2
  <2> QED BY <1>2, <2>1 DEF RuleSets
<1> QED BY <1>1, <1>2

LEMMA NoGrammarOK == NoGrammar \in Loading
<1>1. << >> \in RuleSets /\ DOMAIN << >> = {}
  <2>1. << >> = [n \in DOMAIN << >> |-> << >>[n]] /\ DOMAIN << >> = {}
    OBVIOUS
  <2> QED BY <2>1, RuleSetsIs
<1>2. IsFiniteSet({}) /\ ExtensionsFit(<< >>)
  BY <1>1, FS_EmptySet DEF ExtensionsFit
<1> QED BY <1>1, <1>2 DEF NoGrammar, Loading

LEMMA LoadLineOK ==
  ASSUME NEW g \in Loading, NEW l \in Line
  PROVE  LoadLine(g, l) \in Loading
<1>1. /\ g.rules \in RuleSets /\ g.start \in RuleName \cup {NoName}
      /\ g.current \in RuleName \cup {NoName} /\ g.ok \in BOOLEAN
      /\ g.current # NoName => g.current \in DOMAIN g.rules
      /\ g.start = NoName => DOMAIN g.rules = {}
      /\ g.start # NoName => g.start \in DOMAIN g.rules
      /\ IsFiniteSet(DOMAIN g.rules) /\ ExtensionsFit(g.rules)
      /\ g \in [rules : RuleSets, start : RuleName \cup {NoName},
                current : RuleName \cup {NoName}, ok : BOOLEAN]
  BY DEF Loading
<1>2. CASE ~g.ok
  BY <1>2 DEF LoadLine
<1>3. CASE g.ok /\ l.is = "end"
  <2>1. LoadLine(g, l) = [g EXCEPT !.current = NoName]
    BY <1>3 DEF LoadLine
  <2> QED BY <1>1, <2>1 DEF Loading
<1>4. CASE g.ok /\ l.is = "rule"
  <2>1. LoadLine(g, l) = OpenRule(g, l.name)
    BY <1>4 DEF LoadLine
  <2>2. PICK n \in RuleName : n = l.name
    BY <1>4 DEF Line, RuleName
  <2>3. PICK r : r = [k \in DOMAIN g.rules \cup {n} |-> IF k = n THEN << >> ELSE g.rules[k]]
    OBVIOUS
  <2>4. r \in RuleSets /\ DOMAIN r = DOMAIN g.rules \cup {n}
    <3>1. DOMAIN r = DOMAIN g.rules \cup {n} /\ r = [k \in DOMAIN r |-> r[k]]
      BY <2>3
    <3>2. DOMAIN g.rules \subseteq RuleName /\ \A k \in DOMAIN g.rules : g.rules[k] \in Seq(Productions)
      BY <1>1, RuleSetsIs
    <3>3. \A k \in DOMAIN r : r[k] \in Seq(Productions)
      BY <2>3, <3>2
    <3> QED BY <3>1, <3>2, <3>3, RuleSetsIs
  <2>5. PICK s \in RuleName : /\ s = (IF g.start = NoName THEN n ELSE g.start)
                              /\ s \in DOMAIN g.rules \cup {n} /\ s # NoName
    BY <1>1 DEF RuleName
  <2>6. OpenRule(g, n) = [g EXCEPT !.rules = r, !.start = s, !.current = n]
    BY <1>1, <2>3, <2>5 DEF OpenRule
  <2>7. IsFiniteSet(DOMAIN r)
    BY <1>1, <2>4, FS_AddElement
  <2>8. ExtensionsFit(r)
    <3>1. ASSUME NEW k \in DOMAIN r, NEW j \in DOMAIN r[k]
          PROVE  ExtendsItself(k, r[k][j])
      <4>1. CASE k = n
        <5>1. r[k] = << >>
          BY <2>3, <4>1
        <5> QED BY <3>1, <5>1
      <4>2. CASE k # n
        <5>1. k \in DOMAIN g.rules /\ r[k] = g.rules[k]
          BY <2>3, <2>4, <4>2
        <5> QED BY <1>1, <3>1, <5>1 DEF ExtensionsFit
      <4> QED BY <4>1, <4>2
    <3> QED BY <3>1 DEF ExtensionsFit
  <2> QED BY <1>1, <2>1, <2>2, <2>4, <2>5, <2>6, <2>7, <2>8 DEF Loading, RuleName
<1>5. CASE g.ok /\ l.is = "production" /\ g.current # NoName /\ l.templates # << >>
  <2>1. l.words \in Seq(SimpleWord \cup GroupWord) /\ l.templates \in Seq(OpTemplate)
    BY <1>5 DEF Line
  <2>2. PICK p : p = Production(Pattern(l.words), l.templates, g.current)
    OBVIOUS
  <2>3. p \in Productions
    BY <1>5, <2>1, <2>2, PatternOK DEF Production, Productions
  <2>4. PICK r : r = [g.rules EXCEPT ![g.current] = Append(@, p)]
    OBVIOUS
  <2>5. r \in RuleSets /\ DOMAIN r = DOMAIN g.rules
    <3>1. /\ DOMAIN g.rules \subseteq RuleName /\ \A k \in DOMAIN g.rules : g.rules[k] \in Seq(Productions)
          /\ g.rules = [k \in DOMAIN g.rules |-> g.rules[k]]
      BY <1>1, RuleSetsIs
    <3>2. DOMAIN r = DOMAIN g.rules /\ r = [k \in DOMAIN r |-> r[k]]
      BY <2>4
    <3>3. \A k \in DOMAIN r : r[k] = IF k = g.current THEN Append(g.rules[k], p) ELSE g.rules[k]
      BY <2>4, <3>1
    <3>5. \A q \in Seq(Productions) : Append(q, p) \in Seq(Productions)
      BY <2>3
    <3>4. \A k \in DOMAIN r : r[k] \in Seq(Productions)
      BY <3>1, <3>2, <3>3, <3>5
    <3> QED BY <3>1, <3>2, <3>4, RuleSetsIs
  <2>6. LoadLine(g, l) = [g EXCEPT !.rules = r]
    BY <1>5, <2>2, <2>4 DEF LoadLine
  <2>7. ExtendsItself(g.current, p)
    <3>1. p.atoms = Pattern(l.words) /\ p.starts_with_expr =
            (p.atoms # << >> /\ p.atoms[1].is = "rule" /\ p.atoms[1].what = g.current)
      BY <2>2 DEF Production
    <3>2. p.atoms # << >> => Len(p.atoms) > 0
      <4>1. p.atoms \in Seq(PatternAtom)
        BY <2>3 DEF Productions
      <4> QED BY <4>1
    <3> QED BY <3>1, <3>2 DEF ExtendsItself
  <2>8. ExtensionsFit(r)
    <3>1. ASSUME NEW k \in DOMAIN r, NEW j \in DOMAIN r[k]
          PROVE  ExtendsItself(k, r[k][j])
      <4>0. k \in DOMAIN g.rules
        BY <2>5
      <4>1. CASE k = g.current
        <5>1. PICK q \in Seq(Productions) : q = g.rules[k]
          BY <1>1, <4>0, RuleSetsIs
        <5>2. r[k] = Append(q, p)
          BY <2>4, <4>0, <4>1, <5>1
        <5>3. /\ \A i \in 1 .. Len(q) : r[k][i] = q[i] /\ i \in DOMAIN q
              /\ r[k][Len(q) + 1] = p /\ DOMAIN r[k] = 1 .. Len(q) + 1
          BY <2>3, <5>2
        <5>4. CASE j \in 1 .. Len(q)
          <6>1. r[k][j] = g.rules[k][j] /\ j \in DOMAIN g.rules[k]
            BY <5>1, <5>3, <5>4
          <6> QED BY <1>1, <4>0, <6>1 DEF ExtensionsFit
        <5>5. CASE j = Len(q) + 1
          BY <2>7, <4>1, <5>3, <5>5
        <5>6. j \in 1 .. Len(q) \/ j = Len(q) + 1
          BY <3>1, <5>3
        <5> QED BY <5>4, <5>5, <5>6
      <4>2. CASE k # g.current
        <5>1. r[k] = g.rules[k]
          BY <2>4, <4>0, <4>2
        <5> QED BY <1>1, <3>1, <4>0, <5>1 DEF ExtensionsFit
      <4> QED BY <4>1, <4>2
    <3> QED BY <3>1 DEF ExtensionsFit
  <2> QED BY <1>1, <2>5, <2>6, <2>8 DEF Loading
<1>6. CASE /\ g.ok /\ l.is # "end" /\ l.is # "rule"
           /\ ~(l.is = "production" /\ g.current # NoName /\ l.templates # << >>)
  <2>1. LoadLine(g, l) = [g EXCEPT !.ok = FALSE]
    BY <1>6 DEF LoadLine
  <2> QED BY <1>1, <2>1 DEF Loading
<1> QED BY <1>2, <1>3, <1>4, <1>5, <1>6

LEMMA LoadedOK ==
  ASSUME NEW c \in Seq(Line)
  PROVE  Loaded(c) \in Loading
<1> DEFINE X == Loading
           F == [a \in X \X Line |-> LoadLine(a[1], a[2])]
           Is(g) == g = [s \in SUBSET DOMAIN c |->
                          IF s = {} THEN NoGrammar ELSE LoadLine(g[s \ {Max(s)}], c[Max(s)])]
<1>1. NoGrammar \in X
  BY NoGrammarOK
<1>2. F \in [X \X Line -> X]
  BY LoadLineOK
<1>3. FoldLeft(LoadLine, NoGrammar, c) = (CHOOSE g : Is(g))[DOMAIN c]
  BY DEF FoldLeft, MapThenFoldSet
<1>4. \A p \in X : \A w \in Line : F[<< p, w >>] = LoadLine(p, w)
  OBVIOUS
<1> HIDE DEF F, X
<1>5. \E f : Is(f)
  <2>1. PICK f : Computes(F, X, Line, NoGrammar, c, f)
    BY <1>1, <1>2, FoldComputed
  <2>2. Is(f)
    BY <1>4, <2>1 DEF Computes
  <2> QED BY <2>2
<1>6. PICK g : Is(g) /\ FoldLeft(LoadLine, NoGrammar, c) = g[DOMAIN c]
  BY <1>3, <1>5
<1>7. StepsWith(F, X, Line, NoGrammar, c, g)
  BY <1>4, <1>6 DEF StepsWith
<1> HIDE DEF Is
<1>8. g[DOMAIN c] \in X
  BY <1>1, <1>2, <1>7, FoldStays
<1> QED BY <1>6, <1>8 DEF X, Loaded

(* The atoms of a pattern or of a group. *)
AtomsOK(atoms) ==
  /\ Len(atoms) \in Nat /\ DOMAIN atoms = 1 .. Len(atoms)
  /\ \A i \in DOMAIN atoms : atoms[i].is = "rule" => atoms[i].min_bp \in Nat

(* What a parse relies on in the rules of a grammar. *)
WellFormed(rules) ==
  /\ DOMAIN rules \subseteq STRING
  /\ \A r \in DOMAIN rules : DOMAIN rules[r] \subseteq Nat \ {0}
  /\ \A r \in DOMAIN rules : \A j \in DOMAIN rules[r] :
       LET atoms == rules[r][j].atoms
       IN  /\ AtomsOK(atoms)
           /\ \A i \in DOMAIN atoms : atoms[i].is = "repeat" =>
                AtomsOK(atoms[i].atoms) /\ atoms[i].once \in BOOLEAN

TemplatesFit(rules) ==
  \A r \in DOMAIN rules : \A j \in DOMAIN rules[r] :
    rules[r][j].templates \in Seq(OpTemplate) /\ rules[r][j].templates # << >>

LEMMA AtomsAreOK ==
  ASSUME NEW A, NEW xs \in Seq(A), \A a \in A : a.is = "rule" => a.min_bp \in Nat
  PROVE  AtomsOK(xs)
<1>1. Len(xs) \in Nat /\ DOMAIN xs = 1 .. Len(xs) /\ \A i \in DOMAIN xs : xs[i] \in A
  BY SeqIs, Zenon
<1> QED BY <1>1, Zenon DEF AtomsOK

LEMMA ProductionOK ==
  ASSUME NEW p \in Productions
  PROVE  /\ AtomsOK(p.atoms) /\ p.templates \in Seq(OpTemplate) /\ p.templates # << >>
         /\ \A i \in DOMAIN p.atoms : p.atoms[i].is = "repeat" =>
              AtomsOK(p.atoms[i].atoms) /\ p.atoms[i].once \in BOOLEAN
<1>1. p.atoms \in Seq(PatternAtom) /\ p.templates \in Seq(OpTemplate) /\ p.templates # << >>
  BY DEF Productions
<1>2. \A a \in SimpleAtom : a.is # "repeat" /\ a.min_bp \in Nat
  BY DEF SimpleAtom
<1>3. \A a \in RepeatAtom : a.is # "rule" /\ a.atoms \in Seq(SimpleAtom) /\ a.once \in BOOLEAN
  BY DEF RepeatAtom
<1>4. AtomsOK(p.atoms)
  <2>1. \A a \in PatternAtom : a.is = "rule" => a.min_bp \in Nat
    BY <1>2, <1>3 DEF PatternAtom
  <2> QED BY <1>1, <2>1, AtomsAreOK
<1>5. \A xs \in Seq(SimpleAtom) : AtomsOK(xs)
  <2>1. \A a \in SimpleAtom : a.is = "rule" => a.min_bp \in Nat
    BY <1>2
  <2> QED BY <2>1, AtomsAreOK
<1>6. ASSUME NEW i \in DOMAIN p.atoms, p.atoms[i].is = "repeat"
      PROVE  AtomsOK(p.atoms[i].atoms) /\ p.atoms[i].once \in BOOLEAN
  <2>1. PICK a \in PatternAtom : a = p.atoms[i]
    BY <1>1, <1>6
  <2>2. a \in RepeatAtom
    BY <1>2, <1>6, <2>1 DEF PatternAtom
  <2> QED BY <1>3, <1>5, <2>1, <2>2
<1> QED BY <1>1, <1>4, <1>6

(* A file that grammar_load_file accepts has a first rule and finitely many *)
(* of them, the productions of its rules have templates, and the patterns  *)
(* of the productions are made of atoms that a parse can stand at: the     *)
(* groups of one level, each of them with its bounds, the rules with a     *)
(* binding power, and in an extension the rule it extends to begin with.   *)
THEOREM GrammarsWellFormed ==
  ASSUME NEW f \in DOMAIN File, Grammar[f].loads
  PROVE  /\ Grammar[f].start \in DOMAIN Grammar[f].rules
         /\ WellFormed(Grammar[f].rules) /\ TemplatesFit(Grammar[f].rules)
         /\ IsFiniteSet(DOMAIN Grammar[f].rules) /\ ExtensionsFit(Grammar[f].rules)
<1>1. PICK g \in Loading : g = Loaded(File[f])
  BY FileAssumption, LoadedOK
<1>2. /\ Grammar[f].rules = g.rules /\ Grammar[f].start = g.start
      /\ Grammar[f].loads = (g.ok /\ DOMAIN g.rules # {})
  BY <1>1 DEF Grammar, GrammarOf
<1>3. /\ g.start \in DOMAIN g.rules /\ g.rules \in RuleSets
      /\ IsFiniteSet(DOMAIN g.rules) /\ ExtensionsFit(g.rules)
  BY <1>2 DEF Loading
<1>4. /\ DOMAIN g.rules \subseteq RuleName
      /\ \A r \in DOMAIN g.rules : g.rules[r] \in Seq(Productions)
  BY <1>3, RuleSetsIs
<1>5. WellFormed(g.rules) /\ TemplatesFit(g.rules)
  <2>1. DOMAIN g.rules \subseteq STRING
    BY <1>4 DEF RuleName
  <2>2. \A r \in DOMAIN g.rules : DOMAIN g.rules[r] \subseteq Nat \ {0}
    BY <1>4
  <2>3. \A r \in DOMAIN g.rules : \A j \in DOMAIN g.rules[r] : g.rules[r][j] \in Productions
    BY <1>4
  <2>4. \A r \in DOMAIN g.rules : \A j \in DOMAIN g.rules[r] :
          /\ AtomsOK(g.rules[r][j].atoms) /\ g.rules[r][j].templates \in Seq(OpTemplate)
          /\ g.rules[r][j].templates # << >>
          /\ \A i \in DOMAIN g.rules[r][j].atoms : g.rules[r][j].atoms[i].is = "repeat" =>
               /\ AtomsOK(g.rules[r][j].atoms[i].atoms)
               /\ g.rules[r][j].atoms[i].once \in BOOLEAN
    BY <2>3, ProductionOK
  <2>5. WellFormed(g.rules)
    BY <2>1, <2>2, <2>4 DEF WellFormed
  <2>6. TemplatesFit(g.rules)
    BY <2>4 DEF TemplatesFit
  <2> QED BY <2>5, <2>6
<1> QED BY <1>2, <1>3, <1>5

-----------------------------------------------------------------------------
(* What the grammar derives *)

(* c is the least subset of S above e that step leaves as it is. *)
LeastClosed(step, S, e, c) ==
  /\ c \in SUBSET S /\ e \subseteq c /\ step[c] = c
  /\ \A x \in SUBSET S : e \subseteq x /\ step[x] = x => c \subseteq x

(* step adds to subsets of S, and the more the more there is. *)
Adds(step, S) ==
  /\ step \in [SUBSET S -> SUBSET S]
  /\ \A e \in SUBSET S : e \subseteq step[e]
  /\ \A e, x \in SUBSET S : e \subseteq x => step[e] \subseteq step[x]

LEMMA FewerLeft ==
  ASSUME NEW S, IsFiniteSet(S), NEW e \in SUBSET S, NEW x \in SUBSET S, e \subseteq x, e # x
  PROVE  Cardinality(S \ e) \in Nat /\ Cardinality(S \ x) \in Nat /\ Cardinality(S \ x) < Cardinality(S \ e)
<1>1. S \ e \in SUBSET S /\ S \ x \in SUBSET (S \ e) /\ S \ x # S \ e
  OBVIOUS
<1>2. IsFiniteSet(S \ e) /\ Cardinality(S \ e) \in Nat
  BY <1>1, FS_Subset, FS_CardinalityType
<1>3. /\ IsFiniteSet(S \ x) /\ Cardinality(S \ x) <= Cardinality(S \ e)
      /\ Cardinality(S \ e) = Cardinality(S \ x) => S \ e = S \ x
  BY <1>1, <1>2, FS_Subset
<1>4. Cardinality(S \ x) \in Nat
  BY <1>3, FS_CardinalityType
<1> QED BY <1>1, <1>2, <1>3, <1>4

LEMMA ClosureIsLeast ==
  ASSUME NEW S, IsFiniteSet(S), NEW step, Adds(step, S), NEW d \in SUBSET S
  PROVE  LeastClosed(step, S, d, Closure(step, S, d))
<1> DEFINE Is(h) == h = [e \in SUBSET S |-> LET more == step[e] IN IF more = e THEN e ELSE h[more]]
           above(e) == {x \in SUBSET S : e \subseteq x /\ step[x] = x}
           g == [e \in SUBSET S |-> {s \in S : \A x \in above(e) : s \in x}]
<1>0. /\ step \in [SUBSET S -> SUBSET S]
      /\ \A e \in SUBSET S : e \subseteq step[e]
      /\ \A e, x \in SUBSET S : e \subseteq x => step[e] \subseteq step[x]
  BY DEF Adds
<1>1. Closure(step, S, d) = (CHOOSE h : Is(h))[d]
  BY DEF Closure
<1>2. Is(g)
  <2>1. ASSUME NEW e \in SUBSET S
        PROVE  g[e] = IF step[e] = e THEN e ELSE g[step[e]]
    <3>1. CASE step[e] = e
      <4>1. e \in above(e)
        BY <3>1
      <4>2. \A x \in above(e) : e \subseteq x
        OBVIOUS
      <4>3. {s \in S : \A x \in above(e) : s \in x} = e
        <5> HIDE DEF above
        <5> QED BY <4>1, <4>2
      <4> HIDE DEF above
      <4> QED BY <3>1, <4>3
    <3>2. CASE step[e] # e
      <4>1. step[e] \in SUBSET S
        BY <1>0
      <4>2. above(step[e]) = above(e)
        <5>1. ASSUME NEW x \in SUBSET S, step[x] = x
              PROVE  step[e] \subseteq x <=> e \subseteq x
          <6>1. e \subseteq step[e]
            BY <1>0
          <6>2. e \subseteq x => step[e] \subseteq step[x]
            BY <1>0
          <6> QED BY <5>1, <6>1, <6>2
        <5> QED BY <5>1
      <4> HIDE DEF above
      <4> QED BY <3>2, <4>1, <4>2
    <3> QED BY <3>1, <3>2
  <2>2. g = [e \in SUBSET S |-> g[e]]
    OBVIOUS
  <2> HIDE DEF g
  <2> QED BY <2>1, <2>2
<1> HIDE DEF g
<1>3. PICK h : Is(h) /\ Closure(step, S, d) = h[d]
  BY <1>1, <1>2
<1>4. \A e \in SUBSET S : h[e] = IF step[e] = e THEN e ELSE h[step[e]]
  BY <1>3
<1> HIDE DEF Is
<1> DEFINE T == {n \in Nat : \A e \in SUBSET S : Cardinality(S \ e) < n => LeastClosed(step, S, e, h[e])}
<1>5. ASSUME NEW e \in SUBSET S, step[e] = e
      PROVE  LeastClosed(step, S, e, h[e])
  <2>1. h[e] = e
    BY <1>4, <1>5
  <2> QED BY <1>5, <2>1 DEF LeastClosed
<1>6. ASSUME NEW e \in SUBSET S, LeastClosed(step, S, step[e], h[step[e]]), step[e] # e
      PROVE  LeastClosed(step, S, e, h[e])
  <2>1. h[e] = h[step[e]]
    BY <1>4, <1>6
  <2>2. \A x \in SUBSET S : e \subseteq x /\ step[x] = x => step[e] \subseteq x
    BY <1>0
  <2>3. e \subseteq step[e]
    BY <1>0
  <2> QED BY <1>6, <2>1, <2>2, <2>3 DEF LeastClosed
<1>7. 0 \in T
  <2>1. \A e \in SUBSET S : Cardinality(S \ e) \in Nat
    <3> SUFFICES ASSUME NEW e \in SUBSET S
                 PROVE  Cardinality(S \ e) \in Nat
      OBVIOUS
    <3>1. S \ e \in SUBSET S
      OBVIOUS
    <3> QED BY <3>1, FS_Subset, FS_CardinalityType
  <2>2. \A m \in Nat : ~(m < 0)
    OBVIOUS
  <2> QED BY <2>1, <2>2
<1>8. ASSUME NEW n \in Nat, n \in T
      PROVE  n + 1 \in T
  <2> SUFFICES ASSUME NEW e \in SUBSET S, Cardinality(S \ e) < n + 1
               PROVE  LeastClosed(step, S, e, h[e])
    OBVIOUS
  <2>1. CASE step[e] = e
    BY <2>1, <1>5
  <2>2. CASE step[e] # e
    <3>1. step[e] \in SUBSET S /\ e \subseteq step[e]
      BY <1>0
    <3>2. /\ Cardinality(S \ e) \in Nat /\ Cardinality(S \ step[e]) \in Nat
          /\ Cardinality(S \ step[e]) < Cardinality(S \ e)
      BY <2>2, <3>1, FewerLeft
    <3>3. Cardinality(S \ step[e]) < n
      BY <3>2
    <3>4. LeastClosed(step, S, step[e], h[step[e]])
      BY <1>8, <3>1, <3>3, Zenon
    <3> QED BY <2>2, <3>4, <1>6
  <2> QED BY <2>1, <2>2
<1> HIDE DEF T
<1>9. \A n \in Nat : n \in T
  BY <1>7, <1>8, SetInduction
<1>10. PICK n \in Nat : n = Cardinality(S \ d) + 1 /\ Cardinality(S \ d) < n
  <2>1. S \ d \in SUBSET S
    OBVIOUS
  <2>2. Cardinality(S \ d) \in Nat
    BY <2>1, FS_Subset, FS_CardinalityType
  <2> QED BY <2>2
<1>11. n \in T
  BY <1>9
<1>12. LeastClosed(step, S, d, h[d])
  BY <1>10, <1>11, Zenon DEF T
<1> QED BY <1>3, <1>12

(* After goes one step further. *)
LEMMA AfterFacts ==
  ASSUME NEW steps, NEW k \in Nat, NEW i
  PROVE  /\ After(steps, 0, i) = {i}
         /\ After(steps, k + 1, i) = UNION {steps[k + 1][j] : j \in After(steps, k, i)}
<1> DEFINE Is(n, f) == f = [m \in 0 .. n |-> IF m = 0 THEN {i} ELSE UNION {steps[m][j] : j \in f[m - 1]}]
           T == {n \in Nat : \E f : Is(n, f)}
<1>1. 0 \in T
  <2>1. Is(0, [m \in 0 .. 0 |-> {i}])
    OBVIOUS
  <2> QED BY <2>1
<1>2. ASSUME NEW n \in Nat, n \in T
      PROVE  n + 1 \in T
  <2>1. PICK f : Is(n, f)
    BY <1>2
  <2>2. PICK x : x = UNION {steps[n + 1][j] : j \in f[n]}
    OBVIOUS
  <2> DEFINE g == [m \in 0 .. n + 1 |-> IF m = n + 1 THEN x ELSE f[m]]
  <2>3. ASSUME NEW m \in 0 .. n + 1
        PROVE  g[m] = IF m = 0 THEN {i} ELSE UNION {steps[m][j] : j \in g[m - 1]}
    <3>1. CASE m = n + 1
      <4>1. g[m] = x /\ g[m - 1] = f[n] /\ m # 0
        BY <3>1
      <4> HIDE DEF g
      <4> QED BY <3>1, <4>1, <2>2
    <3>2. CASE m = 0
      <4>1. f[0] = {i} /\ g[0] = f[0]
        BY <2>1
      <4> QED BY <3>2, <4>1
    <3>3. CASE m \in 1 .. n
      <4>1. g[m] = f[m] /\ g[m - 1] = f[m - 1] /\ m # 0 /\ m \in 0 .. n
        BY <3>3
      <4>2. f[m] = UNION {steps[m][j] : j \in f[m - 1]}
        BY <2>1, <4>1
      <4> HIDE DEF g
      <4> QED BY <4>1, <4>2
    <3> QED BY <3>1, <3>2, <3>3
  <2>4. g = [m \in 0 .. n + 1 |-> g[m]]
    OBVIOUS
  <2> HIDE DEF g
  <2>5. Is(n + 1, g)
    BY <2>3, <2>4
  <2>6. n + 1 \in Nat
    OBVIOUS
  <2> HIDE DEF Is
  <2> QED BY <2>5, <2>6
<1> HIDE DEF T
<1>3. \A n \in Nat : n \in T
  BY <1>1, <1>2, SetInduction
<1>4. \A n \in Nat : \E f : Is(n, f) /\ After(steps, n, i) = f[n]
  <2> SUFFICES ASSUME NEW n \in Nat
               PROVE  \E f : Is(n, f) /\ After(steps, n, i) = f[n]
    OBVIOUS
  <2>1. \E f : Is(n, f)
    BY <1>3 DEF T
  <2>2. After(steps, n, i) = (CHOOSE f : Is(n, f))[n]
    BY DEF After
  <2> HIDE DEF Is
  <2> QED BY <2>1, <2>2
<1>5. After(steps, 0, i) = {i}
  <2>1. 0 \in Nat /\ 0 \in 0 .. 0
    OBVIOUS
  <2>2. PICK f : Is(0, f) /\ After(steps, 0, i) = f[0]
    BY <1>4, <2>1
  <2>3. f[0] = {i}
    BY <2>1, <2>2
  <2> QED BY <2>2, <2>3
<1>6. PICK f : Is(k, f) /\ After(steps, k, i) = f[k]
  BY <1>4
<1>7. PICK g : Is(k + 1, g) /\ After(steps, k + 1, i) = g[k + 1]
  <2>1. k + 1 \in Nat
    OBVIOUS
  <2> HIDE DEF Is
  <2> QED BY <1>4, <2>1
<1>8. \A m \in Nat : m <= k => f[m] = g[m]
  <2> DEFINE U == {m \in Nat : m <= k => f[m] = g[m]}
  <2>1. 0 \in U
    BY <1>6, <1>7
  <2>2. ASSUME NEW m \in Nat, m \in U
        PROVE  m + 1 \in U
    <3> SUFFICES ASSUME m + 1 <= k
                 PROVE  f[m + 1] = g[m + 1]
      OBVIOUS
    <3>1. f[m] = g[m] /\ m + 1 \in 0 .. k /\ m + 1 \in 0 .. k + 1 /\ m + 1 # 0 /\ (m + 1) - 1 = m
      BY <2>2
    <3>2. f[m + 1] = UNION {steps[m + 1][j] : j \in f[m]}
      BY <1>6, <3>1
    <3>3. g[m + 1] = UNION {steps[m + 1][j] : j \in g[m]}
      BY <1>7, <3>1
    <3> QED BY <3>1, <3>2, <3>3
  <2> HIDE DEF U
  <2>3. \A m \in Nat : m \in U
    BY <2>1, <2>2, SetInduction
  <2> QED BY <2>3 DEF U
<1>9. g[k + 1] = UNION {steps[k + 1][j] : j \in g[k]}
  <2>1. k + 1 \in 0 .. k + 1 /\ k + 1 # 0 /\ (k + 1) - 1 = k
    OBVIOUS
  <2> QED BY <1>7, <2>1
<1>10. f[k] = g[k]
  BY <1>8
<1> QED BY <1>5, <1>6, <1>7, <1>9, <1>10

LEMMA AfterNext ==
  ASSUME NEW steps, NEW k \in Nat, NEW i
  PROVE  After(steps, k + 1, i) = UNION {steps[k + 1][j] : j \in After(steps, k, i)}
  BY AfterFacts

LEMMA AfterMore ==
  ASSUME NEW steps, NEW k \in Nat, NEW i, NEW j \in After(steps, k, i), NEW m \in steps[k + 1][j]
  PROVE  m \in After(steps, k + 1, i)
<1>1. After(steps, k + 1, i) = UNION {steps[k + 1][x] : x \in After(steps, k, i)}
  BY AfterFacts
<1> QED BY <1>1

StepsGrow(P, n, steps, more) ==
  \A k \in 1 .. n : \A j \in P : steps[k][j] \subseteq more[k][j] /\ more[k][j] \subseteq P

(* More steps lead to more places, and stay where the steps stay. *)
LEMMA AfterGrows ==
  ASSUME NEW P, NEW n \in Nat, NEW steps, NEW more, NEW i \in P,
         StepsGrow(P, n, steps, more)
  PROVE  After(steps, n, i) \subseteq After(more, n, i) /\ After(more, n, i) \subseteq P
<1> DEFINE Grows(k) == After(steps, k, i) \subseteq After(more, k, i) /\ After(more, k, i) \subseteq P
           T == {k \in Nat : k <= n => Grows(k)}
<1>1. 0 \in T
  <2>1. After(steps, 0, i) = {i} /\ After(more, 0, i) = {i}
    BY AfterFacts
  <2> QED BY <2>1
<1>2. ASSUME NEW k \in Nat, k \in T
      PROVE  k + 1 \in T
  <2> SUFFICES ASSUME k + 1 <= n
               PROVE  Grows(k + 1)
    OBVIOUS
  <2>1. Grows(k) /\ k + 1 \in 1 .. n
    <3>1. k <= n /\ k + 1 \in 1 .. n
      OBVIOUS
    <3> QED BY <1>2, <3>1
  <2>2. After(steps, k + 1, i) = UNION {steps[k + 1][j] : j \in After(steps, k, i)}
    BY AfterNext
  <2>4. After(more, k + 1, i) = UNION {more[k + 1][j] : j \in After(more, k, i)}
    BY AfterNext
  <2>3. \A j \in P : steps[k + 1][j] \subseteq more[k + 1][j] /\ more[k + 1][j] \subseteq P
    BY <2>1 DEF StepsGrow
  <2> QED BY <2>1, <2>2, <2>3, <2>4
<1> HIDE DEF T, Grows
<1>3. \A k \in Nat : k \in T
  BY <1>1, <1>2, SetInduction
<1>4. Grows(n)
  <2>1. n <= n
    OBVIOUS
  <2> QED BY <1>3, <2>1 DEF T
<1> QED BY <1>4 DEF Grows

-----------------------------------------------------------------------------
LEMMA WordEndsGrow ==
  ASSUME NEW g, NEW d, NEW e, d \subseteq e, NEW w, NEW i
  PROVE  WordEnds(g, d, w, i) \subseteq WordEnds(g, e, w, i) /\ WordEnds(g, e, w, i) \subseteq Position(g)
  BY DEF WordEnds

LEMMA OnceRoundGrows ==
  ASSUME NEW g, NEW d, NEW e, d \subseteq e, NEW group, AtomsOK(group.atoms), NEW i \in Position(g)
  PROVE  OnceRound(g, d, group, i) \subseteq OnceRound(g, e, group, i) /\ OnceRound(g, e, group, i) \subseteq Position(g)
<1> DEFINE n == Len(group.atoms)
<1>1. n \in Nat /\ DOMAIN group.atoms = 1 .. n /\ n \in 0 .. n
  BY DEF AtomsOK
<1>2. \A k \in 1 .. n : \A j \in Position(g) :
        /\ WordSteps(g, d, group.atoms)[k][j] = WordEnds(g, d, group.atoms[k], j)
        /\ WordSteps(g, e, group.atoms)[k][j] = WordEnds(g, e, group.atoms[k], j)
  BY <1>1 DEF WordSteps
<1>3. \A k \in 1 .. n : \A j \in Position(g) :
        /\ WordSteps(g, d, group.atoms)[k][j] \subseteq WordSteps(g, e, group.atoms)[k][j]
        /\ WordSteps(g, e, group.atoms)[k][j] \subseteq Position(g)
  BY <1>2, WordEndsGrow
<1>4. PICK a, b : a = WordSteps(g, d, group.atoms) /\ b = WordSteps(g, e, group.atoms)
  OBVIOUS
<1>5. StepsGrow(Position(g), n, a, b)
  BY <1>3, <1>4, Zenon DEF StepsGrow
<1> HIDE DEF n
<1>7. After(a, n, i) \subseteq After(b, n, i) /\ After(b, n, i) \subseteq Position(g)
  BY <1>1, <1>5, AfterGrows
<1> QED BY <1>4, <1>7, Zenon DEF OnceRound, n

LEMMA RoundMoreAdds ==
  ASSUME NEW g, NEW d, NEW group, AtomsOK(group.atoms)
  PROVE  Adds(RoundMore(g, d, group), Position(g))
<1>1. \A j \in Position(g) : OnceRound(g, d, group, j) \subseteq Position(g)
  BY OnceRoundGrows
<1> QED BY <1>1 DEF Adds, RoundMore

LEMMA PositionIsFinite ==
  ASSUME NEW g, Len(g.tokens) \in Nat
  PROVE  IsFiniteSet(Position(g))
<1>1. 0 \in Int /\ Len(g.tokens) \in Int
  OBVIOUS
<1> QED BY <1>1, FS_Interval DEF Position

(* The rounds of a group that is repeated. *)
LEMMA RoundsFacts ==
  ASSUME NEW g, Len(g.tokens) \in Nat, NEW d, NEW group, AtomsOK(group.atoms), NEW i \in Position(g)
  PROVE  /\ Rounds(g, d, group, i) \subseteq Position(g)
         /\ OnceRound(g, d, group, i) \subseteq Rounds(g, d, group, i)
         /\ ~group.once => \A j \in Rounds(g, d, group, i) : OnceRound(g, d, group, j) \subseteq Rounds(g, d, group, i)
<1>1. OnceRound(g, d, group, i) \in SUBSET Position(g)
  BY OnceRoundGrows
<1>2. CASE group.once
  BY <1>1, <1>2 DEF Rounds
<1>3. CASE ~group.once
  <2>1. LeastClosed(RoundMore(g, d, group), Position(g), OnceRound(g, d, group, i), Rounds(g, d, group, i))
    <3>1. Rounds(g, d, group, i) = Closure(RoundMore(g, d, group), Position(g), OnceRound(g, d, group, i))
      BY <1>3 DEF Rounds
    <3> QED BY <1>1, <3>1, RoundMoreAdds, PositionIsFinite, ClosureIsLeast
  <2>2. PICK c \in SUBSET Position(g) : c = Rounds(g, d, group, i)
    BY <2>1 DEF LeastClosed
  <2>3. OnceRound(g, d, group, i) \subseteq c /\ RoundMore(g, d, group)[c] = c
    BY <2>1, <2>2 DEF LeastClosed
  <2>4. \A j \in c : OnceRound(g, d, group, j) \subseteq c
    BY <2>3 DEF RoundMore
  <2> QED BY <2>2, <2>3, <2>4
<1> QED BY <1>2, <1>3

LEMMA RoundsGrow ==
  ASSUME NEW g, Len(g.tokens) \in Nat, NEW d, NEW e, d \subseteq e, NEW group, AtomsOK(group.atoms), NEW i \in Position(g)
  PROVE  Rounds(g, d, group, i) \subseteq Rounds(g, e, group, i)
<1>1. /\ OnceRound(g, d, group, i) \in SUBSET Position(g)
      /\ OnceRound(g, d, group, i) \subseteq OnceRound(g, e, group, i)
  BY OnceRoundGrows
<1>2. CASE group.once
  BY <1>1, <1>2 DEF Rounds
<1>3. CASE ~group.once
  <2>1. PICK c : c = Rounds(g, e, group, i)
    OBVIOUS
  <2>2. /\ c \in SUBSET Position(g) /\ OnceRound(g, e, group, i) \subseteq c
        /\ \A j \in c : OnceRound(g, e, group, j) \subseteq c
    BY <1>3, <2>1, RoundsFacts
  <2>3. \A j \in c : OnceRound(g, d, group, j) \subseteq c
    <3>1. \A j \in c : OnceRound(g, d, group, j) \subseteq OnceRound(g, e, group, j)
      BY <2>2, OnceRoundGrows
    <3> QED BY <2>2, <3>1
  <2>4. RoundMore(g, d, group)[c] = c
    BY <2>2, <2>3 DEF RoundMore
  <2>5. LeastClosed(RoundMore(g, d, group), Position(g), OnceRound(g, d, group, i), Rounds(g, d, group, i))
    <3>1. Rounds(g, d, group, i) = Closure(RoundMore(g, d, group), Position(g), OnceRound(g, d, group, i))
      BY <1>3 DEF Rounds
    <3> QED BY <1>1, <3>1, RoundMoreAdds, PositionIsFinite, ClosureIsLeast
  <2>6. OnceRound(g, d, group, i) \subseteq c
    BY <1>1, <2>2
  <2> QED BY <2>1, <2>2, <2>4, <2>5, <2>6 DEF LeastClosed
<1> QED BY <1>2, <1>3

(* The patterns of the productions: groups of atoms. *)
GroupsOK(atoms) ==
  AtomsOK(atoms) /\ \A k \in DOMAIN atoms : atoms[k].is = "repeat" => AtomsOK(atoms[k].atoms)

LEMMA AtomEndsGrow ==
  ASSUME NEW g, Len(g.tokens) \in Nat, NEW d, NEW e, d \subseteq e, NEW atom,
         atom.is = "repeat" => AtomsOK(atom.atoms), NEW i \in Position(g)
  PROVE  AtomEnds(g, d, atom, i) \subseteq AtomEnds(g, e, atom, i) /\ AtomEnds(g, e, atom, i) \subseteq Position(g)
<1>1. CASE atom.is # "repeat"
  BY <1>1, WordEndsGrow DEF AtomEnds
<1>2. CASE atom.is = "repeat"
  <2>1. /\ Rounds(g, d, atom, i) \subseteq Rounds(g, e, atom, i) /\ Rounds(g, e, atom, i) \subseteq Position(g)
    BY <1>2, RoundsGrow, RoundsFacts
  <2> QED BY <1>2, <2>1 DEF AtomEnds
<1> QED BY <1>1, <1>2

LEMMA PatternEndsGrow ==
  ASSUME NEW g, Len(g.tokens) \in Nat, NEW d, NEW e, d \subseteq e, NEW atoms, GroupsOK(atoms), NEW i \in Position(g)
  PROVE  PatternEnds(g, d, atoms, i) \subseteq PatternEnds(g, e, atoms, i) /\ PatternEnds(g, e, atoms, i) \subseteq Position(g)
<1> DEFINE n == Len(atoms)
<1>1. n \in Nat /\ DOMAIN atoms = 1 .. n /\ n \in 0 .. n
  BY DEF AtomsOK, GroupsOK
<1>2. \A k \in 1 .. n : \A j \in Position(g) :
        /\ AtomSteps(g, d, atoms)[k][j] = AtomEnds(g, d, atoms[k], j)
        /\ AtomSteps(g, e, atoms)[k][j] = AtomEnds(g, e, atoms[k], j)
  BY <1>1 DEF AtomSteps
<1>3. ASSUME NEW k \in 1 .. n, NEW j \in Position(g)
      PROVE  /\ AtomSteps(g, d, atoms)[k][j] \subseteq AtomSteps(g, e, atoms)[k][j]
             /\ AtomSteps(g, e, atoms)[k][j] \subseteq Position(g)
  <2>1. atoms[k].is = "repeat" => AtomsOK(atoms[k].atoms)
    BY <1>1 DEF GroupsOK
  <2> QED BY <1>2, <2>1, AtomEndsGrow
<1>4. PICK a, b : a = AtomSteps(g, d, atoms) /\ b = AtomSteps(g, e, atoms)
  OBVIOUS
<1>5. StepsGrow(Position(g), n, a, b)
  BY <1>3, <1>4, Zenon DEF StepsGrow
<1> HIDE DEF n
<1>7. After(a, n, i) \subseteq After(b, n, i) /\ After(b, n, i) \subseteq Position(g)
  BY <1>1, <1>5, AfterGrows
<1> QED BY <1>4, <1>7, Zenon DEF PatternEnds, n

(* A grammar and a text that has a language. *)
Readable(g) == Len(g.tokens) \in Nat /\ WellFormed(g.rules) /\ IsFiniteSet(DOMAIN g.rules)

LEMMA PatternsAreGroups ==
  ASSUME NEW g, WellFormed(g.rules), NEW r \in DOMAIN g.rules, NEW k \in DOMAIN g.rules[r]
  PROVE  GroupsOK(g.rules[r][k].atoms)
  BY DEF WellFormed, GroupsOK

LEMMA RuleEndsGrow ==
  ASSUME NEW g, Readable(g), NEW d, NEW e, d \subseteq e, NEW r \in DOMAIN g.rules, NEW i \in Position(g)
  PROVE  RuleEnds(g, d, r, i) \subseteq RuleEnds(g, e, r, i) /\ RuleEnds(g, e, r, i) \subseteq Position(g)
<1>1. \A k \in DOMAIN g.rules[r] :
        /\ PatternEnds(g, d, g.rules[r][k].atoms, i) \subseteq PatternEnds(g, e, g.rules[r][k].atoms, i)
        /\ PatternEnds(g, e, g.rules[r][k].atoms, i) \subseteq Position(g)
  BY PatternsAreGroups, PatternEndsGrow DEF Readable
<1> QED BY <1>1 DEF RuleEnds

LEMMA DeriveAdds ==
  ASSUME NEW g, Readable(g)
  PROVE  Adds(Derive(g), Span(g))
<1> DEFINE made(d) == UNION {RuleSpans(g, d, r, i) : r \in DOMAIN g.rules, i \in Position(g)}
<1>1. Derive(g) = [d \in SUBSET Span(g) |-> d \cup made(d)]
  BY DEF Derive
<1>2. ASSUME NEW d \in SUBSET Span(g), NEW e \in SUBSET Span(g), d \subseteq e
      PROVE  made(d) \subseteq made(e) /\ made(d) \subseteq Span(g)
  <2>1. ASSUME NEW s \in made(d)
        PROVE  s \in made(e) /\ s \in Span(g)
    <3>1. PICK r \in DOMAIN g.rules, i \in Position(g) : s \in RuleSpans(g, d, r, i)
      OBVIOUS
    <3>2. RuleEnds(g, d, r, i) \subseteq RuleEnds(g, e, r, i) /\ RuleEnds(g, e, r, i) \subseteq Position(g)
      BY <1>2, RuleEndsGrow
    <3>3. s \in RuleSpans(g, e, r, i) /\ s \in Span(g)
      BY <3>1, <3>2 DEF RuleSpans, Span
    <3> QED BY <3>3
  <2> HIDE DEF made
  <2> QED BY <2>1
<1> HIDE DEF made
<1>3. \A d \in SUBSET Span(g) : made(d) \subseteq Span(g)
  BY <1>2
<1>4. Derive(g) \in [SUBSET Span(g) -> SUBSET Span(g)]
  BY <1>1, <1>3
<1>5. \A d, e \in SUBSET Span(g) : d \subseteq e => Derive(g)[d] \subseteq Derive(g)[e]
  BY <1>1, <1>2
<1> QED BY <1>1, <1>4, <1>5 DEF Adds

LEMMA SpanIsFinite ==
  ASSUME NEW g, Readable(g)
  PROVE  IsFiniteSet(Span(g))
<1> DEFINE D == DOMAIN g.rules
           P == Position(g)
           f == [x \in (D \X P) \X P |-> << x[1][1], x[1][2], x[2] >>]
<1>1. IsFiniteSet(D) /\ IsFiniteSet(P)
  BY PositionIsFinite DEF Readable
<1> HIDE DEF D, P
<1>2. IsFiniteSet(D \X P)
  BY <1>1, FS_Product
<1>3. IsFiniteSet((D \X P) \X P)
  BY <1>1, <1>2, FS_Product
<1>4. f \in Surjection((D \X P) \X P, D \X P \X P)
  <2>1. f \in [(D \X P) \X P -> D \X P \X P]
    OBVIOUS
  <2>2. ASSUME NEW y \in D \X P \X P
        PROVE  \E x \in (D \X P) \X P : f[x] = y
    <3>1. << << y[1], y[2] >>, y[3] >> \in (D \X P) \X P
      OBVIOUS
    <3>2. f[<< << y[1], y[2] >>, y[3] >>] = y
      BY <3>1
    <3> QED BY <3>1, <3>2
  <2> HIDE DEF f
  <2> QED BY <2>1, <2>2 DEF Surjection
<1> HIDE DEF f
<1>5. IsFiniteSet(D \X P \X P)
  BY <1>3, <1>4, FS_Surjection
<1> QED BY <1>5 DEF D, P, Span

(* What is derived is the least set of spans that the productions close:   *)
(* nothing is derived but by them.                                         *)
THEOREM DerivedIsLeast ==
  ASSUME NEW g, Readable(g)
  PROVE  LeastClosed(Derive(g), Span(g), {}, Derived(g))
<1>1. {} \in SUBSET Span(g)
  OBVIOUS
<1> QED BY <1>1, DeriveAdds, SpanIsFinite, ClosureIsLeast DEF Derived

(* A reading of a pattern of a rule is a reading of the rule. *)
LEMMA DerivedIsClosed ==
  ASSUME NEW g, Readable(g), NEW r \in DOMAIN g.rules, NEW k \in DOMAIN g.rules[r], NEW i \in Position(g),
         NEW j \in PatternEnds(g, Derived(g), g.rules[r][k].atoms, i), i < j
  PROVE  << r, i, j >> \in Derived(g)
<1>1. LeastClosed(Derive(g), Span(g), {}, Derived(g))
  BY DerivedIsLeast
<1>2. Derived(g) \in SUBSET Span(g) /\ Derive(g)[Derived(g)] = Derived(g)
  BY <1>1 DEF LeastClosed
<1>3. << r, i, j >> \in RuleSpans(g, Derived(g), r, i)
  BY DEF RuleEnds, RuleSpans
<1>4. << r, i, j >> \in Derive(g)[Derived(g)]
  BY <1>2, <1>3 DEF Derive
<1> QED BY <1>2, <1>4

-----------------------------------------------------------------------------
(* Where an activation stands *)

(* What a frame stands at exists. *)
FrameFits(rules, f) ==
  /\ f.rule \in DOMAIN rules
  /\ f.prod \in {0} \cup DOMAIN rules[f.rule]
  /\ f.atom > 0 /\ f.repeat.sub > 0
  /\ f.repeat.over => f.repeat.on
  /\ f.repeat.on =>
       /\ f.prod # 0 /\ f.atom \in DOMAIN rules[f.rule][f.prod].atoms
       /\ rules[f.rule][f.prod].atoms[f.atom].is = "repeat"

FrameOK(rules, n, f) == f \in Frame(n) /\ FrameFits(rules, f) /\ InOrder(f)

StackOK(rules, n, s) ==
  \A i \in DOMAIN s :
    /\ FrameOK(rules, n, s[i]) /\ s[i].depth >= 2 * (i - 1)
    /\ i > 1 => CalledFrom(s[i - 1], s[i])

ControlInv ==
  /\ ControlTypeOK
  /\ Running => stack # << >>
  /\ stack # << >> => Grammar[grammar].loads
  /\ StackOK(Rules, Len(tokens), stack)
  /\ returned.is = "matched" /\ stack # << >> => Reached(Top) < returned.cursor

-----------------------------------------------------------------------------
(* Frames *)

(* The next production of a rule, or none. *)
LEMMA TryFacts ==
  ASSUME NEW rules, WellFormed(rules), NEW n \in Nat, NEW f \in Frame(n),
         f.rule \in DOMAIN rules, NEW phase \in {"prefix", "infix"}, NEW after
  PROVE  \A g : g = Try(rules, f, phase, after) =>
           /\ FrameOK(rules, n, g)
           /\ g.rule = f.rule /\ g.cursor = f.cursor /\ g.depth = f.depth
           /\ g.phase = phase /\ g.local = f.cursor
<1> DEFINE js == {j \in DOMAIN rules[f.rule] : j > after /\ Viable(rules, f, phase, j)}
           prod == IF js = {} THEN 0 ELSE Min(js)
           g == [f EXCEPT !.phase = phase, !.local = f.cursor, !.repeat = NoRepeat,
                          !.prod = prod, !.atom = IF phase = "infix" THEN 2 ELSE 1]
<1>1. js \subseteq DOMAIN rules[f.rule] /\ js \subseteq Nat
  BY DEF WellFormed
<1>2. prod \in {0} \cup DOMAIN rules[f.rule] /\ prod \in Nat
  <2> HIDE DEF js
  <2> QED BY <1>1, MinInSet
<1>3. g = Try(rules, f, phase, after)
  BY DEF Try
<1> HIDE DEF js, prod
<1>4. /\ g.rule = f.rule /\ g.min_bp = f.min_bp /\ g.cursor = f.cursor /\ g.depth = f.depth
      /\ g.phase = phase /\ g.local = f.cursor /\ g.repeat = NoRepeat /\ g.prod = prod
      /\ g.atom = IF phase = "infix" THEN 2 ELSE 1
  BY DEF Frame
<1>5. NoRepeat \in Repeat(n) /\ ~NoRepeat.on /\ ~NoRepeat.over /\ NoRepeat.sub = 1
  BY DEF NoRepeat, Repeat
<1>6. g \in Frame(n)
  BY <1>2, <1>5 DEF Frame
<1> HIDE DEF g
<1>7. FrameFits(rules, g)
  BY <1>2, <1>4, <1>5 DEF FrameFits
<1>8. InOrder(g)
  BY <1>4, <1>5 DEF InOrder, Frame
<1> QED BY <1>3, <1>4, <1>6, <1>7, <1>8 DEF FrameOK

(* A rule that is called. *)
LEMMA ActivationFacts ==
  ASSUME NEW rules, WellFormed(rules), NEW n \in Nat, NEW rule \in DOMAIN rules,
         NEW bp \in Nat, NEW cursor \in 0 .. n, NEW depth \in 0 .. MaxDepth
  PROVE  \A g : g = Activation(rules, rule, bp, cursor, depth) =>
           FrameOK(rules, n, g) /\ g.cursor = cursor /\ g.depth = depth /\ g.phase = "prefix"
<1> DEFINE f == [rule |-> rule, min_bp |-> bp, cursor |-> cursor, depth |-> depth,
                 phase |-> "prefix", prod |-> 0, atom |-> 1, local |-> cursor, repeat |-> NoRepeat]
<1>1. f \in Frame(n) /\ f.rule = rule /\ f.cursor = cursor /\ f.depth = depth
  BY DEF Frame, Repeat, NoRepeat, WellFormed
<1>2. Activation(rules, rule, bp, cursor, depth) = Try(rules, f, "prefix", 0)
  BY DEF Activation
<1> HIDE DEF f
<1> QED BY <1>1, <1>2, TryFacts

-----------------------------------------------------------------------------
(* Stacks of frames *)

LEMMA LastIs ==
  ASSUME NEW s
  PROVE  Last(s) = s[Len(s)]
  BY DEF Last

LEMMA FrameTypes ==
  ASSUME NEW n \in Nat, NEW f \in Frame(n)
  PROVE  /\ f.cursor \in 0 .. n /\ f.cursor \in Int /\ f.local \in 0 .. n /\ f.local \in Int
         /\ f.depth \in 0 .. MaxDepth /\ f.depth \in Int
         /\ f.repeat \in Repeat(n) /\ f.repeat.local \in 0 .. n /\ f.repeat.at \in 0 .. n
         /\ f.repeat.local \in Int /\ f.repeat.at \in Int
         /\ Reached(f) \in 0 .. n /\ Reached(f) \in Int
  BY DEF Frame, Repeat, Reached

LEMMA ReplaceOK ==
  ASSUME NEW rules, NEW n \in Nat, NEW s \in Seq(Frame(n)), s # << >>, StackOK(rules, n, s),
         NEW g, FrameOK(rules, n, g), g.depth = Last(s).depth,
         \/ g.phase = Last(s).phase /\ g.cursor = Last(s).cursor
         \/ g.phase = "infix" /\ Last(s).cursor < g.cursor
  PROVE  /\ Append(Front(s), g) \in Seq(Frame(n)) /\ Append(Front(s), g) # << >>
         /\ StackOK(rules, n, Append(Front(s), g))
<1> DEFINE t == Append(Front(s), g)
<1>1. g \in Frame(n) /\ Len(s) \in Nat /\ Len(s) > 0 /\ Last(s) = s[Len(s)] /\ DOMAIN s = 1 .. Len(s)
  <2>1. g \in Frame(n)
    BY DEF FrameOK
  <2>2. Len(s) \in Nat /\ Len(s) > 0 /\ DOMAIN s = 1 .. Len(s)
    OBVIOUS
  <2>3. Last(s) = s[Len(s)]
    BY LastIs
  <2> QED BY <2>1, <2>2, <2>3
<1>2. /\ t \in Seq(Frame(n)) /\ t # << >> /\ Len(t) = Len(s) /\ DOMAIN t = DOMAIN s
      /\ \A i \in 1 .. Len(s) - 1 : t[i] = s[i]
      /\ t[Len(s)] = g
  <2>1. g \in Frame(n)
    BY <1>1
  <2> HIDE DEF t
  <2>2. t = Append(Front(s), g)
    BY DEF t
  <2> QED BY <2>1, <2>2, ReplaceLast
<1> HIDE DEF t
<1>3. ASSUME NEW i \in DOMAIN t
      PROVE  /\ FrameOK(rules, n, t[i]) /\ t[i].depth >= 2 * (i - 1)
             /\ i > 1 => CalledFrom(t[i - 1], t[i])
  <2>1. i \in DOMAIN s /\ i \in 1 .. Len(s)
    BY <1>1, <1>2
  <2>2. /\ FrameOK(rules, n, s[i]) /\ s[i].depth >= 2 * (i - 1)
        /\ i > 1 => CalledFrom(s[i - 1], s[i])
    BY <2>1 DEF StackOK
  <2>3. i > 1 => t[i - 1] = s[i - 1]
    BY <1>1, <1>2, <2>1
  <2>4. CASE i = Len(s)
    <3>1. t[i] = g /\ s[i] = Last(s)
      BY <1>1, <1>2, <2>4
    <3>2. i > 1 => CalledFrom(s[i - 1], g)
      <4> SUFFICES ASSUME i > 1 PROVE CalledFrom(s[i - 1], g)
        OBVIOUS
      <4>1. PICK p \in Frame(n) : p = s[i - 1]
        BY <1>1, <2>1
      <4>2. Last(s) \in Frame(n) /\ Last(s).cursor \in Int /\ g.cursor \in Int
        BY <1>1, LastInSet, FrameTypes
      <4>5. CalledFrom(p, Last(s))
        BY <2>2, <3>1, <4>1
      <4>3. Reached(p) \in Int
        BY FrameTypes
      <4>4. CalledFrom(p, g)
        BY <4>2, <4>3, <4>5 DEF CalledFrom
      <4> QED BY <4>1, <4>4
    <3> QED BY <2>2, <2>3, <3>1, <3>2
  <2>5. CASE i # Len(s)
    <3>1. t[i] = s[i]
      BY <1>1, <1>2, <2>1, <2>5
    <3> QED BY <2>2, <2>3, <3>1
  <2> QED BY <2>4, <2>5
<1>4. StackOK(rules, n, t)
  BY <1>3 DEF StackOK
<1> QED BY <1>2, <1>4 DEF t

LEMMA PushOK ==
  ASSUME NEW rules, NEW n \in Nat, NEW s \in Seq(Frame(n)), s # << >>, StackOK(rules, n, s),
         NEW g, FrameOK(rules, n, g), g.depth >= Last(s).depth + 2, CalledFrom(Last(s), g)
  PROVE  /\ Append(s, g) \in Seq(Frame(n)) /\ Append(s, g) # << >>
         /\ StackOK(rules, n, Append(s, g))
<1> DEFINE t == Append(s, g)
<1>1. g \in Frame(n) /\ Len(s) \in Nat /\ Len(s) > 0 /\ Last(s) = s[Len(s)] /\ DOMAIN s = 1 .. Len(s)
  BY DEF FrameOK, Last
<1>2. /\ t \in Seq(Frame(n)) /\ Len(t) = Len(s) + 1
      /\ \A i \in 1 .. Len(s) : t[i] = s[i]
      /\ t[Len(s) + 1] = g
  BY <1>1, AppendFacts
<1> HIDE DEF t
<1>3. t # << >> /\ DOMAIN t = 1 .. Len(s) + 1
  BY <1>1, <1>2
<1>4. ASSUME NEW i \in 1 .. Len(s) + 1
      PROVE  /\ FrameOK(rules, n, t[i]) /\ t[i].depth >= 2 * (i - 1)
             /\ i > 1 => CalledFrom(t[i - 1], t[i])
  <2>1. i > 1 => t[i - 1] = s[i - 1]
    BY <1>1, <1>2
  <2>2. CASE i \in 1 .. Len(s)
    <3>1. /\ FrameOK(rules, n, s[i]) /\ s[i].depth >= 2 * (i - 1)
          /\ i > 1 => CalledFrom(s[i - 1], s[i])
      BY <1>1, <2>2 DEF StackOK
    <3>2. t[i] = s[i]
      BY <1>2, <2>2
    <3> QED BY <2>1, <3>1, <3>2
  <2>3. CASE i = Len(s) + 1
    <3>1. t[i] = g /\ (i > 1 => t[i - 1] = Last(s))
      <4>1. i - 1 = Len(s)
        BY <1>1, <2>3
      <4> QED BY <1>1, <1>2, <2>1, <2>3, <4>1
    <3>2. Last(s).depth >= 2 * (Len(s) - 1) /\ Last(s).depth \in Int /\ g.depth \in Int
      <4>1. Len(s) \in DOMAIN s
        BY <1>1
      <4>2. s[Len(s)].depth >= 2 * (Len(s) - 1)
        BY <4>1 DEF StackOK
      <4>3. s[Len(s)] \in Frame(n)
        BY <4>1, <1>1
      <4> QED BY <1>1, <4>2, <4>3 DEF Frame
    <3>3. g.depth >= 2 * (i - 1)
      BY <1>1, <2>3, <3>2
    <3> QED BY <3>1, <3>3
  <2> QED BY <1>1, <2>2, <2>3
<1>5. StackOK(rules, n, t)
  BY <1>3, <1>4 DEF StackOK
<1> QED BY <1>2, <1>3, <1>5 DEF t

LEMMA PopOK ==
  ASSUME NEW rules, NEW n \in Nat, NEW s \in Seq(Frame(n)), s # << >>, StackOK(rules, n, s)
  PROVE  /\ Front(s) \in Seq(Frame(n)) /\ StackOK(rules, n, Front(s))
         /\ Front(s) # << >> => CalledFrom(Last(Front(s)), Last(s))
<1> DEFINE t == Front(s)
<1>1. Len(s) \in Nat /\ Len(s) > 0 /\ Last(s) = s[Len(s)] /\ DOMAIN s = 1 .. Len(s)
  BY DEF Last
<1>2. /\ t \in Seq(Frame(n)) /\ Len(t) = Len(s) - 1
      /\ \A i \in 1 .. Len(s) - 1 : t[i] = s[i]
  BY FrontFacts
<1> HIDE DEF t
<1>3. DOMAIN t = 1 .. Len(s) - 1 /\ Last(t) = t[Len(t)]
  BY <1>1, <1>2 DEF Last
<1>4. StackOK(rules, n, t)
  <2>1. ASSUME NEW i \in 1 .. Len(s) - 1
        PROVE  /\ FrameOK(rules, n, t[i]) /\ t[i].depth >= 2 * (i - 1)
               /\ i > 1 => CalledFrom(t[i - 1], t[i])
    <3>1. t[i] = s[i] /\ i \in DOMAIN s
      BY <1>1, <1>2
    <3>2. i > 1 => t[i - 1] = s[i - 1]
      BY <1>1, <1>2
    <3> QED BY <3>1, <3>2 DEF StackOK
  <2> QED BY <1>3, <2>1 DEF StackOK
<1>5. t # << >> => CalledFrom(Last(t), Last(s))
  <2> SUFFICES ASSUME t # << >> PROVE CalledFrom(Last(t), Last(s))
    OBVIOUS
  <2>1. Len(s) - 1 \in 1 .. Len(s) - 1 /\ Len(s) \in DOMAIN s /\ Len(s) > 1
    BY <1>1, <1>2
  <2>2. CalledFrom(s[Len(s) - 1], s[Len(s)])
    BY <2>1 DEF StackOK
  <2> QED BY <1>1, <1>2, <1>3, <2>1, <2>2
<1> QED BY <1>2, <1>4, <1>5 DEF t

-----------------------------------------------------------------------------
(* Steps *)

N == Len(tokens)

Failure == [cursor : 0 .. N, rule : STRING \cup {NoName}]

LEMMA TopFacts ==
  ASSUME ControlInv, stack # << >>
  PROVE  /\ WellFormed(Rules) /\ N \in Nat /\ Top \in Frame(N) /\ FrameOK(Rules, N, Top)
         /\ Top.rule \in DOMAIN Rules /\ Top.rule \in STRING
         /\ Len(stack) \in Nat /\ Len(stack) \in DOMAIN stack /\ Top = stack[Len(stack)]
         /\ stack \in Seq(Frame(N)) /\ StackOK(Rules, N, stack)
<1>1. stack \in Seq(Frame(N)) /\ tokens \in Seq([kind : STRING, lexeme : Seq(STRING)])
  BY DEF ControlInv, ControlTypeOK, N
<1>2. N \in Nat
  BY <1>1 DEF N
<1>3. Len(stack) \in Nat /\ Len(stack) \in DOMAIN stack
  BY <1>1
<1>4. Top = stack[Len(stack)]
  BY LastIs DEF Top
<1>5. StackOK(Rules, N, stack)
  BY DEF ControlInv, N
<1>6. FrameOK(Rules, N, Top)
  BY <1>3, <1>4, <1>5 DEF StackOK
<1>7. WellFormed(Rules)
  BY GrammarsWellFormed DEF ControlInv, ControlTypeOK, Rules
<1>8. Top \in Frame(N) /\ Top.rule \in DOMAIN Rules
  BY <1>6 DEF FrameOK, FrameFits
<1>9. Top.rule \in STRING
  BY <1>7, <1>8 DEF WellFormed
<1> QED BY <1>1, <1>2, <1>3, <1>4, <1>5, <1>6, <1>7, <1>8, <1>9

(* The innermost activation changes. *)
LEMMA ReplaceKeeps ==
  ASSUME ControlInv, verdict = "running", stack # << >>,
         NEW g, FrameOK(Rules, N, g), g.depth = Top.depth,
         \/ g.phase = Top.phase /\ g.cursor = Top.cursor
         \/ g.phase = "infix" /\ Top.cursor < g.cursor,
         stack' = Append(Front(stack), g), returned' = NoResult, failure' \in Failure,
         UNCHANGED << grammar, tokens, building, verdict >>
  PROVE  ControlInv'
<1>1. N \in Nat /\ stack \in Seq(Frame(N)) /\ StackOK(Rules, N, stack) /\ Top = Last(stack)
  BY TopFacts DEF Top
<1>2. /\ stack' \in Seq(Frame(N)) /\ stack' # << >> /\ StackOK(Rules, N, stack')
  BY <1>1, ReplaceOK
<1>3. Rules' = Rules /\ N' = N
  BY DEF Rules, N
<1>4. returned'.is = "none" /\ returned'.cursor \in 0 .. N
  BY <1>1 DEF NoResult
<1>5. ControlTypeOK'
  BY <1>2, <1>4 DEF ControlInv, ControlTypeOK, N, Failure
<1>6. Grammar[grammar'].loads
  BY DEF ControlInv
<1> QED BY <1>2, <1>3, <1>4, <1>5, <1>6 DEF ControlInv, N

(* The innermost activation turns to another production. *)
LEMMA TryNextKeeps ==
  ASSUME ControlInv, verdict = "running", stack # << >>,
         NEW f \in Frame(N), f.rule = Top.rule, f.depth = Top.depth,
         NEW phase \in {"prefix", "infix"}, NEW after, NEW lhs,
         \/ phase = Top.phase /\ f.cursor = Top.cursor
         \/ phase = "infix" /\ Top.cursor < f.cursor,
         TryNext(f, lhs, phase, after), returned' = NoResult, failure' \in Failure,
         UNCHANGED << grammar, tokens, building, verdict >>
  PROVE  ControlInv'
<1> DEFINE g == Try(Rules, f, phase, after)
<1>1. WellFormed(Rules) /\ N \in Nat /\ f.rule \in DOMAIN Rules
  BY TopFacts
<1>2. stack' = Append(Front(stack), g)
  BY DEF TryNext, Replace
<1> HIDE DEF g
<1>3. /\ FrameOK(Rules, N, g) /\ g.cursor = f.cursor /\ g.depth = f.depth /\ g.phase = phase
  BY <1>1, TryFacts DEF g
<1>4. \/ g.phase = Top.phase /\ g.cursor = Top.cursor
      \/ g.phase = "infix" /\ Top.cursor < g.cursor
  BY <1>3
<1> QED BY <1>2, <1>3, <1>4, ReplaceKeeps

LEMMA FurtherInFailure ==
  ASSUME ControlInv, NEW c \in 0 .. N, NEW r \in STRING
  PROVE  Further(c, r) \in Failure
  BY DEF Further, Failure, ControlInv, ControlTypeOK, N

LEMMA PatternFailsKeeps ==
  ASSUME ControlInv, verdict = "running", stack # << >>, PatternFails, returned' = NoResult,
         UNCHANGED << grammar, tokens, building, verdict >>
  PROVE  ControlInv'
<1>1. N \in Nat /\ Top \in Frame(N) /\ Top.rule \in STRING
  BY TopFacts
<1>2. Top.phase \in {"prefix", "infix"} /\ Top.local \in 0 .. N
  BY <1>1 DEF Frame
<1>3. failure' \in Failure
  BY <1>1, <1>2, FurtherInFailure DEF PatternFails
<1>4. TryNext(Top, Held.lhs, Top.phase, Top.prod)
  BY DEF PatternFails
<1> QED BY <1>1, <1>2, <1>3, <1>4, TryNextKeeps

LEMMA AtomFailsKeeps ==
  ASSUME ControlInv, verdict = "running", stack # << >>, AtomFails, returned' = NoResult,
         UNCHANGED << grammar, tokens, building, verdict >>
  PROVE  ControlInv'
<1>1. CASE PatternFails
  BY <1>1, PatternFailsKeeps
<1>2. CASE InGroup /\ Replace([Top EXCEPT !.repeat.over = TRUE], Held) /\ UNCHANGED failure
  <2> DEFINE g == [Top EXCEPT !.repeat.over = TRUE]
  <2>1. N \in Nat /\ Top \in Frame(N) /\ FrameOK(Rules, N, Top) /\ Top.repeat \in Repeat(N)
    BY TopFacts, FrameTypes
  <2>2. stack' = Append(Front(stack), g)
    BY <1>2 DEF Replace
  <2>3. /\ g.rule = Top.rule /\ g.prod = Top.prod /\ g.atom = Top.atom /\ g.cursor = Top.cursor
        /\ g.local = Top.local /\ g.depth = Top.depth /\ g.phase = Top.phase
        /\ g.repeat = [Top.repeat EXCEPT !.over = TRUE]
    BY <2>1 DEF Frame
  <2>4. [Top.repeat EXCEPT !.over = TRUE] \in Repeat(N)
    BY <2>1 DEF Repeat
  <2>5. g \in Frame(N)
    BY <2>1, <2>4 DEF Frame
  <2> HIDE DEF g
  <2>6. /\ g.repeat.on /\ Top.repeat.on /\ g.repeat.sub = Top.repeat.sub
        /\ g.repeat.local = Top.repeat.local /\ g.repeat.at = Top.repeat.at
    BY <1>2, <2>1, <2>3 DEF InGroup, Repeat
  <2>7. FrameFits(Rules, g) /\ InOrder(g)
    BY <2>1, <2>3, <2>6 DEF FrameOK, FrameFits, InOrder
  <2>8. FrameOK(Rules, N, g)
    BY <2>5, <2>7 DEF FrameOK
  <2>9. failure' \in Failure
    BY <1>2 DEF ControlInv, ControlTypeOK, Failure, N
  <2> QED BY <2>2, <2>3, <2>8, <2>9, ReplaceKeeps
<1> QED BY <1>1, <1>2 DEF AtomFails

(* An atom matched: the pattern goes on behind it. *)
LEMMA AtomMatchesKeeps ==
  ASSUME ControlInv, verdict = "running", stack # << >>,
         NEW next \in 0 .. N, Reached(Top) < next, NEW node, AtomMatches(node, next),
         returned' = NoResult, UNCHANGED << grammar, tokens, building, verdict, failure >>
  PROVE  ControlInv'
<1> DEFINE g == Advanced(next)
<1>1. /\ N \in Nat /\ Top \in Frame(N) /\ FrameOK(Rules, N, Top) /\ Top.repeat \in Repeat(N)
      /\ Top.atom \in Nat /\ Top.atom > 0 /\ Top.repeat.sub \in Nat /\ Top.repeat.sub > 0
  BY TopFacts, FrameTypes DEF FrameOK, FrameFits, Frame, Repeat
<1>2. stack' = Append(Front(stack), g)
  BY DEF AtomMatches, Replace
<1>3. failure' \in Failure
  BY DEF ControlInv, ControlTypeOK, Failure, N
<1>4. CASE InGroup
  <2> DEFINE r == [Top.repeat EXCEPT !.at = next, !.sub = Top.repeat.sub + 1]
  <2>1. r \in Repeat(N)
    <3>1. PICK k \in Nat : k = Top.repeat.sub + 1
      BY <1>1
    <3>2. [Top.repeat EXCEPT !.at = next, !.sub = k] \in Repeat(N)
      BY <1>1 DEF Repeat
    <3> QED BY <3>1, <3>2
  <2>2. /\ r.on /\ Top.repeat.on /\ r.at = next /\ r.sub = Top.repeat.sub + 1
        /\ r.local = Top.repeat.local
    BY <1>1, <1>4 DEF Repeat, InGroup
  <2>3. g = [Top EXCEPT !.repeat = r]
    BY <1>1, <1>4 DEF Advanced, Frame, Repeat
  <2> HIDE DEF g, r
  <2>4. /\ g.rule = Top.rule /\ g.prod = Top.prod /\ g.atom = Top.atom /\ g.cursor = Top.cursor
        /\ g.local = Top.local /\ g.depth = Top.depth /\ g.phase = Top.phase /\ g.repeat = r
    BY <1>1, <2>3 DEF Frame
  <2>5. g \in Frame(N)
    BY <1>1, <2>1, <2>3 DEF Frame
  <2>6. FrameFits(Rules, g)
    <3>1. r.sub > 0
      BY <1>1, <2>2
    <3> QED BY <1>1, <2>2, <2>4, <3>1 DEF FrameOK, FrameFits
  <2>7. InOrder(g)
    <3>1. Top.repeat.at < next /\ Top.repeat.at \in Int /\ Top.repeat.local \in Int
      BY <1>1, <2>2, FrameTypes DEF Reached
    <3> QED BY <1>1, <2>2, <2>4, <3>1 DEF FrameOK, InOrder
  <2>8. FrameOK(Rules, N, g)
    BY <2>5, <2>6, <2>7 DEF FrameOK
  <2> QED BY <1>2, <1>3, <2>4, <2>8, ReplaceKeeps
<1>5. CASE ~InGroup
  <2>1. g = [Top EXCEPT !.local = next, !.atom = Top.atom + 1]
    BY <1>5 DEF Advanced
  <2> HIDE DEF g
  <2>2. /\ g.rule = Top.rule /\ g.prod = Top.prod /\ g.atom = Top.atom + 1 /\ g.cursor = Top.cursor
        /\ g.local = next /\ g.depth = Top.depth /\ g.phase = Top.phase
        /\ g.repeat = Top.repeat /\ ~g.repeat.on
    BY <1>1, <1>5, <2>1 DEF Frame, InGroup
  <2>3. g \in Frame(N)
    <3>1. PICK k \in Nat : k = Top.atom + 1
      BY <1>1
    <3>2. [Top EXCEPT !.local = next, !.atom = k] \in Frame(N)
      BY <1>1 DEF Frame
    <3> QED BY <2>1, <3>1, <3>2
  <2>4. FrameFits(Rules, g)
    <3>1. g.atom > 0
      BY <1>1, <2>2
    <3> QED BY <1>1, <2>2, <3>1 DEF FrameOK, FrameFits
  <2>5. InOrder(g)
    <3>1. Top.local < next /\ Top.cursor <= Top.local /\ Top.cursor \in Int /\ Top.local \in Int
      BY <1>1, <1>5, FrameTypes DEF Reached, InGroup, FrameOK, InOrder
    <3> QED BY <2>2, <3>1 DEF InOrder
  <2>6. FrameOK(Rules, N, g)
    BY <2>3, <2>4, <2>5 DEF FrameOK
  <2> QED BY <1>2, <1>3, <2>2, <2>6, ReplaceKeeps
<1> QED BY <1>4, <1>5

(* The step that is taken has an activation to act on. *)
LEMMA RunningFacts ==
  ASSUME ControlInv, Running
  PROVE  /\ verdict = "running" /\ returned = NoResult /\ stack # << >>
         /\ N \in Nat /\ Top \in Frame(N) /\ FrameOK(Rules, N, Top) /\ Here = Reached(Top)
         /\ Here \in 0 .. N
<1>1. verdict = "running" /\ returned = NoResult /\ stack # << >>
  BY DEF ControlInv, Running
<1>2. N \in Nat /\ Top \in Frame(N) /\ FrameOK(Rules, N, Top)
  BY <1>1, TopFacts
<1>3. Here = Reached(Top)
  BY DEF Here, Reached, InGroup
<1> QED BY <1>1, <1>2, <1>3, FrameTypes

LEMMA ReadTokenKeeps ==
  ASSUME ControlInv, ReadToken
  PROVE  ControlInv'
<1>1. Running /\ UNCHANGED << grammar, tokens, building, returned, verdict >>
  BY DEF ReadToken, At, Trying
<1>2. /\ verdict = "running" /\ stack # << >> /\ returned' = NoResult
      /\ Here = Reached(Top) /\ Here \in 0 .. N /\ N \in Nat
  BY <1>1, RunningFacts
<1>3. CASE Here < Len(tokens) /\ UNCHANGED failure /\ \E node : AtomMatches(node, Here + 1)
  <2>1. PICK node : AtomMatches(node, Here + 1)
    BY <1>3
  <2>2. Here + 1 \in 0 .. N /\ Reached(Top) < Here + 1
    BY <1>2, <1>3 DEF N
  <2> QED BY <1>1, <1>2, <1>3, <2>1, <2>2, AtomMatchesKeeps
<1>4. CASE AtomFails
  BY <1>1, <1>2, <1>4, AtomFailsKeeps
<1> QED BY <1>3, <1>4 DEF ReadToken

(* The pattern that is tried and the atom that is to be matched exist. *)
LEMMA AtPosition ==
  ASSUME ControlInv, Trying
  PROVE  /\ Top.prod \in DOMAIN Rules[Top.rule]
         /\ AtomsOK(Prod.atoms) /\ AtomsOK(Atoms)
         /\ Index <= Len(Atoms) => Index \in DOMAIN Atoms
         /\ InGroup => Top.atom \in DOMAIN Prod.atoms /\ Prod.atoms[Top.atom].is = "repeat"
                        /\ Prod.atoms[Top.atom].once \in BOOLEAN
<1>1. Running /\ Top.prod # 0
  BY DEF Trying
<1>2. /\ WellFormed(Rules) /\ FrameOK(Rules, N, Top) /\ Top.rule \in DOMAIN Rules
      /\ N \in Nat /\ Top \in Frame(N) /\ stack # << >>
  BY <1>1, RunningFacts, TopFacts
<1>3. /\ Top.prod \in DOMAIN Rules[Top.rule]
      /\ Top.repeat.on => Top.atom \in DOMAIN Prod.atoms /\ Prod.atoms[Top.atom].is = "repeat"
  BY <1>1, <1>2 DEF FrameOK, FrameFits, Prod
<1>4. /\ AtomsOK(Prod.atoms)
      /\ \A i \in DOMAIN Prod.atoms : Prod.atoms[i].is = "repeat" =>
           AtomsOK(Prod.atoms[i].atoms) /\ Prod.atoms[i].once \in BOOLEAN
  BY <1>2, <1>3 DEF WellFormed, Prod
<1>5. AtomsOK(Atoms)
  BY <1>3, <1>4 DEF Atoms, InGroup
<1>6. Index \in Nat /\ Index > 0
  BY <1>2 DEF Index, FrameOK, FrameFits, Frame, Repeat
<1>7. Index <= Len(Atoms) => Index \in DOMAIN Atoms
  BY <1>5, <1>6 DEF AtomsOK
<1> QED BY <1>3, <1>4, <1>5, <1>7 DEF InGroup

LEMMA AtomHasPower ==
  ASSUME ControlInv, At({"rule"})
  PROVE  Atom.min_bp \in Nat
<1>1. Trying /\ Index <= Len(Atoms) /\ Atom.is = "rule"
  BY DEF At
<1>2. AtomsOK(Atoms) /\ Index \in DOMAIN Atoms
  BY <1>1, AtPosition
<1> QED BY <1>1, <1>2 DEF AtomsOK, Atom

LEMMA CallRuleKeeps ==
  ASSUME ControlInv, CallRule
  PROVE  ControlInv'
<1>1. Running /\ UNCHANGED << grammar, tokens, building, returned, verdict >>
  BY DEF CallRule, At, Trying
<1>2. /\ verdict = "running" /\ stack # << >> /\ returned' = NoResult /\ returned = NoResult
      /\ Here = Reached(Top) /\ Here \in 0 .. N /\ N \in Nat /\ Top \in Frame(N)
      /\ WellFormed(Rules) /\ stack \in Seq(Frame(N)) /\ StackOK(Rules, N, stack)
      /\ Top = Last(stack)
  BY <1>1, RunningFacts, TopFacts DEF Top
<1>3. CASE Atom.what \in DOMAIN Rules /\ Deeper <= MaxDepth /\ UNCHANGED failure
  <2> DEFINE a == Activation(Rules, Atom.what, Atom.min_bp, Here, Deeper)
  <2>1. stack' = Append(stack, a)
    BY <1>3 DEF CallRule
  <2> HIDE DEF a
  <2>2. Atom.min_bp \in Nat
    BY AtomHasPower DEF CallRule
  <2>3. Top.depth \in Int /\ Top.depth \in 0 .. MaxDepth
    BY <1>2, FrameTypes
  <2>4. Deeper \in Int /\ Deeper >= Top.depth + 2
    BY <2>3 DEF Deeper
  <2>5. Deeper \in 0 .. MaxDepth
    BY <1>3, <2>3, <2>4, DepthAssumption
  <2>6. FrameOK(Rules, N, a) /\ a.cursor = Here /\ a.depth = Deeper /\ a.phase = "prefix"
    BY <1>2, <1>3, <2>2, <2>5, ActivationFacts DEF a
  <2>7. CalledFrom(Last(stack), a)
    BY <1>2, <2>6 DEF CalledFrom
  <2>8. /\ stack' \in Seq(Frame(N)) /\ stack' # << >> /\ StackOK(Rules, N, stack')
    BY <1>2, <2>1, <2>4, <2>6, <2>7, PushOK
  <2>9. Rules' = Rules /\ N' = N
    BY <1>1 DEF Rules, N
  <2>10. ControlTypeOK'
    BY <1>1, <1>3, <2>8 DEF ControlInv, ControlTypeOK, N
  <2>11. Grammar[grammar'].loads /\ returned'.is = "none"
    BY <1>1, <1>2 DEF ControlInv, NoResult
  <2> QED BY <2>8, <2>9, <2>10, <2>11 DEF ControlInv, N
<1>4. CASE AtomFails
  BY <1>1, <1>2, <1>4, AtomFailsKeeps
<1> QED BY <1>3, <1>4 DEF CallRule

LEMMA OpenGroupKeeps ==
  ASSUME ControlInv, OpenGroup
  PROVE  ControlInv'
<1> DEFINE r == [NoRepeat EXCEPT !.on = TRUE, !.local = Top.local, !.at = Top.local]
           g == [Top EXCEPT !.repeat = r]
<1>1. Trying /\ Running /\ Top.prod # 0 /\ UNCHANGED << grammar, tokens, building, returned, failure, verdict >>
  BY DEF OpenGroup, At, Trying
<1>2. /\ verdict = "running" /\ stack # << >> /\ returned' = NoResult
      /\ N \in Nat /\ Top \in Frame(N) /\ FrameOK(Rules, N, Top) /\ Top.local \in 0 .. N
  BY <1>1, RunningFacts, FrameTypes
<1>3. stack' = Append(Front(stack), g)
  BY DEF OpenGroup, Replace
<1>4. Top.atom \in DOMAIN Prod.atoms /\ Prod.atoms[Top.atom].is = "repeat"
  <2>1. CASE InGroup
    BY <1>1, <2>1, AtPosition
  <2>2. CASE ~InGroup
    <3>1. Index <= Len(Atoms) /\ Atom.is = "repeat"
      BY DEF OpenGroup, At
    <3>2. Index = Top.atom /\ Atoms = Prod.atoms
      BY <2>2 DEF Index, Atoms
    <3> QED BY <1>1, <3>1, <3>2, AtPosition DEF Atom
  <2> QED BY <2>1, <2>2
<1>5. /\ r \in Repeat(N) /\ r.on /\ ~r.over /\ r.sub = 1 /\ r.local = Top.local /\ r.at = Top.local
  BY <1>2 DEF Repeat, NoRepeat
<1> HIDE DEF r
<1>6. /\ g.rule = Top.rule /\ g.prod = Top.prod /\ g.atom = Top.atom /\ g.cursor = Top.cursor
      /\ g.local = Top.local /\ g.depth = Top.depth /\ g.phase = Top.phase /\ g.repeat = r
  BY <1>2 DEF Frame
<1>7. g \in Frame(N)
  BY <1>2, <1>5 DEF Frame
<1> HIDE DEF g
<1>8. FrameFits(Rules, g)
  BY <1>1, <1>2, <1>4, <1>5, <1>6 DEF FrameOK, FrameFits, Prod
<1>9. InOrder(g)
  BY <1>2, <1>5, <1>6, FrameTypes DEF FrameOK, InOrder
<1>10. FrameOK(Rules, N, g)
  BY <1>7, <1>8, <1>9 DEF FrameOK
<1>11. failure' \in Failure
  BY <1>1 DEF ControlInv, ControlTypeOK, Failure, N
<1> QED BY <1>1, <1>2, <1>3, <1>6, <1>10, <1>11, ReplaceKeeps

LEMMA IterationDoneKeeps ==
  ASSUME ControlInv, IterationDone
  PROVE  ControlInv'
<1> DEFINE r == [Top.repeat EXCEPT !.met = TRUE, !.local = Top.repeat.at, !.sub = 1,
                                   !.over = Prod.atoms[Top.atom].once]
           g == [Top EXCEPT !.repeat = r]
<1>1. /\ Trying /\ Running /\ InGroup
      /\ UNCHANGED << grammar, tokens, building, returned, failure, verdict >>
  BY DEF IterationDone, Trying
<1>2. /\ verdict = "running" /\ stack # << >> /\ returned' = NoResult
      /\ N \in Nat /\ Top \in Frame(N) /\ FrameOK(Rules, N, Top) /\ Top.repeat \in Repeat(N)
      /\ Prod.atoms[Top.atom].once \in BOOLEAN /\ Top.repeat.at \in 0 .. N
  BY <1>1, RunningFacts, FrameTypes, AtPosition
<1>3. stack' = Append(Front(stack), g)
  BY DEF IterationDone, Replace
<1>4. /\ r \in Repeat(N) /\ r.on /\ Top.repeat.on /\ r.sub = 1
      /\ r.local = Top.repeat.at /\ r.at = Top.repeat.at
  BY <1>1, <1>2 DEF Repeat, InGroup
<1> HIDE DEF r
<1>5. /\ g.rule = Top.rule /\ g.prod = Top.prod /\ g.atom = Top.atom /\ g.cursor = Top.cursor
      /\ g.local = Top.local /\ g.depth = Top.depth /\ g.phase = Top.phase /\ g.repeat = r
  BY <1>2 DEF Frame
<1>6. g \in Frame(N)
  BY <1>2, <1>4 DEF Frame
<1> HIDE DEF g
<1>7. FrameFits(Rules, g)
  BY <1>2, <1>4, <1>5 DEF FrameOK, FrameFits
<1>8. InOrder(g)
  <2>1. /\ Top.cursor <= Top.local /\ Top.local <= Top.repeat.local
        /\ Top.repeat.local <= Top.repeat.at
    BY <1>2, <1>4 DEF FrameOK, InOrder
  <2>2. /\ Top.local \in Int /\ Top.repeat.local \in Int /\ Top.repeat.at \in Int
    BY <1>2, FrameTypes
  <2> QED BY <1>4, <1>5, <2>1, <2>2 DEF InOrder
<1>9. FrameOK(Rules, N, g)
  BY <1>6, <1>7, <1>8 DEF FrameOK
<1>10. failure' \in Failure
  BY <1>1 DEF ControlInv, ControlTypeOK, Failure, N
<1> QED BY <1>1, <1>2, <1>3, <1>5, <1>9, <1>10, ReplaceKeeps

LEMMA CloseGroupKeeps ==
  ASSUME ControlInv, CloseGroup
  PROVE  ControlInv'
<1> DEFINE g == [Top EXCEPT !.local = RepeatedTo(Top.repeat), !.atom = @ + 1, !.repeat = NoRepeat]
<1>1. /\ Running /\ Top.repeat.over
      /\ UNCHANGED << grammar, tokens, building, returned, failure, verdict >>
  BY DEF CloseGroup, Trying
<1>2. /\ verdict = "running" /\ stack # << >> /\ returned' = NoResult
      /\ N \in Nat /\ Top \in Frame(N) /\ FrameOK(Rules, N, Top) /\ Top.repeat.on
      /\ Top.atom \in Nat
  BY <1>1, RunningFacts DEF FrameOK, FrameFits, Frame
<1>3. stack' = Append(Front(stack), g)
  BY DEF CloseGroup, Replace
<1>4. PICK k \in Nat : k = Top.atom + 1 /\ k > 0
  BY <1>2
<1>5. PICK l \in 0 .. N : l = Top.repeat.local /\ l = RepeatedTo(Top.repeat)
  BY <1>2, FrameTypes DEF RepeatedTo
<1>6. NoRepeat \in Repeat(N) /\ ~NoRepeat.on /\ ~NoRepeat.over /\ NoRepeat.sub = 1
  BY <1>2 DEF NoRepeat, Repeat
<1>7. g = [Top EXCEPT !.local = l, !.atom = k, !.repeat = NoRepeat]
  BY <1>2, <1>4, <1>5
<1> HIDE DEF g
<1>8. /\ g.rule = Top.rule /\ g.prod = Top.prod /\ g.atom = k /\ g.cursor = Top.cursor
      /\ g.local = l /\ g.depth = Top.depth /\ g.phase = Top.phase /\ g.repeat = NoRepeat
  BY <1>2, <1>7 DEF Frame
<1>9. g \in Frame(N)
  BY <1>2, <1>6, <1>7 DEF Frame
<1>10. FrameFits(Rules, g)
  BY <1>2, <1>4, <1>6, <1>8 DEF FrameOK, FrameFits
<1>11. InOrder(g)
  <2>1. Top.cursor <= Top.local /\ Top.local <= Top.repeat.local
    BY <1>2 DEF FrameOK, InOrder
  <2>2. Top.cursor \in Int /\ Top.local \in Int /\ Top.repeat.local \in Int
    BY <1>2, FrameTypes
  <2> QED BY <1>5, <1>6, <1>8, <2>1, <2>2 DEF InOrder
<1>12. FrameOK(Rules, N, g)
  BY <1>9, <1>10, <1>11 DEF FrameOK
<1>13. failure' \in Failure
  BY <1>1 DEF ControlInv, ControlTypeOK, Failure, N
<1> QED BY <1>1, <1>2, <1>3, <1>8, <1>12, <1>13, ReplaceKeeps

LEMMA PatternDoneKeeps ==
  ASSUME ControlInv, PatternDone
  PROVE  ControlInv'
<1>1. Running /\ UNCHANGED << grammar, tokens, building, returned, failure, verdict >>
  BY DEF PatternDone, Trying
<1>2. /\ verdict = "running" /\ stack # << >> /\ returned' = NoResult
      /\ N \in Nat /\ Top \in Frame(N) /\ FrameOK(Rules, N, Top)
      /\ Top.phase \in {"prefix", "infix"} /\ Top.local \in 0 .. N
  BY <1>1, RunningFacts DEF Frame
<1>3. failure' \in Failure
  BY <1>1 DEF ControlInv, ControlTypeOK, Failure, N
<1>4. CASE \E lhs : TryNext(Top, lhs, Top.phase, Top.prod)
  BY <1>1, <1>2, <1>3, <1>4, TryNextKeeps
<1>5. CASE Progress(Top) /\ \E lhs : TryNext([Top EXCEPT !.cursor = Top.local], lhs, "infix", 0)
  <2> DEFINE f == [Top EXCEPT !.cursor = Top.local]
  <2>1. f \in Frame(N) /\ f.rule = Top.rule /\ f.depth = Top.depth /\ f.cursor = Top.local
    BY <1>2 DEF Frame
  <2>2. Top.cursor < f.cursor
    <3>1. Top.cursor <= Top.local /\ Top.cursor # Top.local
      BY <1>2, <1>5 DEF FrameOK, InOrder, Progress
    <3>2. Top.cursor \in Int /\ Top.local \in Int
      BY <1>2, FrameTypes
    <3> QED BY <2>1, <3>1, <3>2
  <2>3. PICK lhs : TryNext(f, lhs, "infix", 0)
    BY <1>5
  <2> HIDE DEF f
  <2> QED BY <1>1, <1>2, <1>3, <2>1, <2>2, <2>3, TryNextKeeps
<1> QED BY <1>4, <1>5 DEF PatternDone

(* An activation returns. *)
LEMMA ReturnKeeps ==
  ASSUME ControlInv, Running, NEW result, Return(result), result.is \in {"matched", "failed"},
         result.cursor \in 0 .. N,
         result.is = "matched" => Top.phase = "infix" /\ result.cursor = Top.cursor,
         failure' \in Failure, UNCHANGED << grammar, tokens, building, verdict >>
  PROVE  ControlInv'
<1>1. /\ N \in Nat /\ stack # << >> /\ stack \in Seq(Frame(N)) /\ StackOK(Rules, N, stack)
      /\ Top = Last(stack)
  BY RunningFacts, TopFacts DEF Top
<1>2. stack' = Front(stack) /\ returned' = result
  BY DEF Return
<1>3. /\ stack' \in Seq(Frame(N)) /\ StackOK(Rules, N, stack')
      /\ stack' # << >> => CalledFrom(Last(stack'), Top)
  BY <1>1, <1>2, PopOK
<1>4. Rules' = Rules /\ N' = N /\ Top' = Last(stack')
  BY DEF Rules, N, Top
<1>5. ControlTypeOK'
  BY <1>2, <1>3 DEF ControlInv, ControlTypeOK, N, Failure
<1>6. Grammar[grammar'].loads
  BY <1>1 DEF ControlInv
<1>7. ~Running'
  BY <1>2 DEF Running, NoResult
<1>8. returned'.is = "matched" /\ stack' # << >> => Reached(Last(stack')) < returned'.cursor
  BY <1>2, <1>3 DEF CalledFrom
<1> QED BY <1>3, <1>4, <1>5, <1>6, <1>7, <1>8 DEF ControlInv, N

LEMMA NoProductionKeeps ==
  ASSUME ControlInv, NoProduction
  PROVE  ControlInv'
<1>1. Running /\ UNCHANGED << grammar, tokens, building, verdict >>
  BY DEF NoProduction
<1>2. N \in Nat /\ Top \in Frame(N) /\ Top.rule \in STRING /\ Top.cursor \in 0 .. N
  BY <1>1, RunningFacts, TopFacts, FrameTypes
<1>3. failure' \in Failure
  BY <1>2, FurtherInFailure DEF NoProduction
<1>4. PICK result : Return(result) /\ result.is = "failed" /\ result.cursor = 0
  BY DEF NoProduction, NoResult
<1> QED BY <1>1, <1>2, <1>3, <1>4, ReturnKeeps

LEMMA NoExtensionKeeps ==
  ASSUME ControlInv, NoExtension
  PROVE  ControlInv'
<1>1. Running /\ Top.phase = "infix" /\ UNCHANGED << grammar, tokens, building, failure, verdict >>
  BY DEF NoExtension
<1>2. N \in Nat /\ Top \in Frame(N) /\ Top.cursor \in 0 .. N
  BY <1>1, RunningFacts, FrameTypes
<1>3. failure' \in Failure
  BY <1>1 DEF ControlInv, ControlTypeOK, Failure, N
<1>4. PICK result : Return(result) /\ result.is = "matched" /\ result.cursor = Top.cursor
  BY DEF NoExtension
<1> QED BY <1>1, <1>2, <1>3, <1>4, ReturnKeeps

LEMMA RuleReturnsKeeps ==
  ASSUME ControlInv, RuleReturns
  PROVE  ControlInv'
<1>1. /\ verdict = "running" /\ stack # << >> /\ returned' = NoResult
      /\ UNCHANGED << grammar, tokens, building, verdict >>
  BY DEF RuleReturns
<1>2. CASE returned.is = "matched"
  <2>1. PICK node : AtomMatches(node, returned.cursor)
    BY <1>2 DEF RuleReturns
  <2>2. UNCHANGED failure
    BY <1>2 DEF RuleReturns
  <2>3. returned.cursor \in 0 .. N /\ Reached(Top) < returned.cursor
    BY <1>1, <1>2 DEF ControlInv, ControlTypeOK, N
  <2> QED BY <1>1, <2>1, <2>2, <2>3, AtomMatchesKeeps
<1>3. CASE returned.is # "matched"
  <2>1. AtomFails
    BY <1>3 DEF RuleReturns
  <2> QED BY <1>1, <2>1, AtomFailsKeeps
<1> QED BY <1>2, <1>3

LEMMA FinishKeeps ==
  ASSUME ControlInv, Finish
  PROVE  ControlInv'
<1>1. /\ stack = << >> /\ verdict' \in {"accepted", "rejected"}
      /\ UNCHANGED << grammar, tokens, building, stack, returned, failure >>
  BY DEF Finish
<1>2. Rules' = Rules /\ ~Running'
  BY <1>1 DEF Rules, Running
<1>3. ControlTypeOK'
  BY <1>1 DEF ControlInv, ControlTypeOK
<1> QED BY <1>1, <1>2, <1>3 DEF ControlInv

(* Every step of the parser keeps the invariant. *)
LEMMA MatchStepKeeps ==
  ASSUME ControlInv, MatchStep
  PROVE  ControlInv'
  BY ReadTokenKeeps, CallRuleKeeps, OpenGroupKeeps, IterationDoneKeeps, CloseGroupKeeps,
     PatternDoneKeeps, NoProductionKeeps, NoExtensionKeeps, RuleReturnsKeeps, FinishKeeps
     DEF MatchStep

LEMMA MatchIdleKeeps ==
  ASSUME ControlInv, UNCHANGED matchVars
  PROVE  ControlInv'
<1>1. UNCHANGED << grammar, tokens, building, stack, returned, failure, verdict >>
  BY DEF matchVars, control
<1>2. Rules' = Rules /\ Running' = Running /\ Top' = Top
  BY <1>1 DEF Rules, Running, Top
<1>3. ControlTypeOK'
  BY <1>1 DEF ControlInv, ControlTypeOK
<1> QED BY <1>1, <1>2, <1>3 DEF ControlInv

(* A parse starts with one activation. *)
LEMMA ParseKeeps ==
  ASSUME NEW g \in DOMAIN File, Grammar[g].loads, NEW build \in BOOLEAN,
         NEW toks \in Seq([kind : STRING, lexeme : Seq(STRING)]), Parse(g, toks, build)
  PROVE  ControlInv'
<1> DEFINE rules == Grammar[g].rules
           a == Activation(rules, Grammar[g].start, 0, 0, 0)
           n == Len(tokens')
<1>1. /\ grammar' = g /\ building' = build /\ stack' = << a >> /\ returned' = NoResult
      /\ failure' = [cursor |-> 0, rule |-> NoName] /\ verdict' = "running"
      /\ tokens' = IF toks # << >> /\ Last(toks).kind = "EOF" THEN Front(toks) ELSE toks
  BY DEF Parse
<1>2. tokens' \in Seq([kind : STRING, lexeme : Seq(STRING)])
  BY <1>1, FrontFacts
<1>3. n \in Nat
  BY <1>2
<1>4. WellFormed(rules) /\ Grammar[g].start \in DOMAIN rules
  BY GrammarsWellFormed
<1>5. FrameOK(rules, n, a) /\ a.depth = 0
  <2>1. 0 \in 0 .. n /\ 0 \in 0 .. MaxDepth /\ 0 \in Nat
    BY <1>3, DepthAssumption
  <2>2. PICK bp \in Nat, cursor \in 0 .. n, depth \in 0 .. MaxDepth :
          bp = 0 /\ cursor = 0 /\ depth = 0
    BY <2>1
  <2>3. a = Activation(rules, Grammar[g].start, bp, cursor, depth)
    BY <2>2
  <2> HIDE DEF n, rules, a
  <2>4. FrameOK(rules, n, a) /\ a.depth = depth
    BY <1>3, <1>4, <2>3, ActivationFacts
  <2> QED BY <2>2, <2>4
<1> HIDE DEF a, rules, n
<1>6. a \in Frame(n)
  BY <1>5 DEF FrameOK
<1>7. stack' \in Seq(Frame(n)) /\ stack' # << >>
  BY <1>1, <1>6
<1>8. StackOK(rules, n, stack')
  <2>1. DOMAIN stack' = {1} /\ stack'[1] = a
    BY <1>1
  <2>2. a.depth >= 2 * (1 - 1) /\ ~(1 > 1)
    BY <1>5
  <2> QED BY <1>5, <2>1, <2>2 DEF StackOK
<1>9. ControlTypeOK'
  <2>2. returned'.is = "none" /\ returned'.cursor = 0
    BY <1>1 DEF NoResult
  <2>4. 0 \in 0 .. n
    BY <1>3
  <2>3. failure' \in [cursor : 0 .. n, rule : STRING \cup {NoName}]
    BY <1>1, <2>4
  <2> QED BY <1>1, <1>2, <1>7, <2>2, <2>3, <2>4 DEF ControlTypeOK, n
<1>10. Rules' = rules /\ returned'.is = "none"
  BY <1>1 DEF Rules, rules, NoResult
<1> QED BY <1>1, <1>7, <1>8, <1>9, <1>10 DEF ControlInv, n

-----------------------------------------------------------------------------
(* What has been read is derived *)

(* The atoms that an activation goes through, the one that it stands at,   *)
(* and the rule that it stands at.                                         *)
AtomsOf(rules, f) ==
  LET atoms == rules[f.rule][f.prod].atoms
  IN  IF f.repeat.on THEN atoms[f.atom].atoms ELSE atoms

IndexOf(f) == IF f.repeat.on THEN f.repeat.sub ELSE f.atom

StandsAt(rules, f, r) ==
  /\ f.prod # 0 /\ ~f.repeat.over /\ IndexOf(f) \in DOMAIN AtomsOf(rules, f)
  /\ AtomsOf(rules, f)[IndexOf(f)].is = "rule" /\ AtomsOf(rules, f)[IndexOf(f)].what = r

(* What an activation has read of a group, of a pattern and of a rule that *)
(* it began at i, in terms of what the grammar derives.                    *)
GroupReads(g, group, f) ==
  /\ f.repeat.sub <= Len(group.atoms) + 1
  /\ f.repeat.at \in After(WordSteps(g, Derived(g), group.atoms), f.repeat.sub - 1, f.repeat.local)
  /\ f.repeat.local \in IF f.repeat.met THEN Rounds(g, Derived(g), group, f.local) ELSE {f.local}
  /\ f.repeat.over => f.repeat.met \/ group.min_occurs = 0
  /\ group.once /\ f.repeat.met => f.repeat.over

PatternReads(g, atoms, f, i) ==
  /\ f.atom <= Len(atoms) + 1
  /\ f.local \in After(AtomSteps(g, Derived(g), atoms), f.atom - 1, i)
  /\ f.repeat.on => GroupReads(g, atoms[f.atom], f)

CursorReads(g, f, i) ==
  IF f.phase = "infix" THEN << f.rule, i, f.cursor >> \in Derived(g) ELSE f.cursor = i

FrameReads(g, f, i) ==
  CursorReads(g, f, i) /\ (f.prod # 0 => PatternReads(g, g.rules[f.rule][f.prod].atoms, f, i))

(* Where an activation of the stack began.                                 *)
From(s, k) == IF k = 1 THEN 0 ELSE Reached(s[k - 1])

StackReads(g, first, s) ==
  \A k \in DOMAIN s :
    /\ FrameReads(g, s[k], From(s, k))
    /\ k = 1 => s[k].rule = first
    /\ k > 1 => StandsAt(g.rules, s[k - 1], s[k].rule)

ReturnReads(g, first, s, j) ==
  IF s = << >> THEN << first, 0, j >> \in Derived(g)
  ELSE \E r : StandsAt(g.rules, Last(s), r) /\ << r, Reached(Last(s)), j >> \in Derived(g)

First == Grammar[grammar].start

(* What the activations have read and what one of them has returned is     *)
(* derived from the rules they stand for, each from where it was called.   *)
LanguageInv ==
  /\ StackReads(Given, First, stack)
  /\ returned.is = "matched" => ReturnReads(Given, First, stack, returned.cursor)
  /\ AcceptsSentences

-----------------------------------------------------------------------------
(* No step leads nowhere else. *)
LEMMA AfterNone ==
  ASSUME NEW steps, NEW i
  PROVE  After(steps, 0, i) = {i}
<1>1. 0 \in Nat
  OBVIOUS
<1> QED BY <1>1, AfterFacts

(* One atom further in a pattern, one word further in a group.             *)
LEMMA AtomRead ==
  ASSUME NEW g, NEW d, NEW atoms, NEW k \in Nat, NEW i, NEW j \in Position(g), k + 1 \in DOMAIN atoms,
         j \in After(AtomSteps(g, d, atoms), k, i), NEW m \in AtomEnds(g, d, atoms[k + 1], j)
  PROVE  m \in After(AtomSteps(g, d, atoms), k + 1, i)
<1>1. PICK s : s = AtomSteps(g, d, atoms)
  OBVIOUS
<1>2. m \in s[k + 1][j]
  BY <1>1 DEF AtomSteps
<1> QED BY <1>1, <1>2, AfterMore

LEMMA WordRead ==
  ASSUME NEW g, NEW d, NEW words, NEW k \in Nat, NEW i, NEW j \in Position(g), k + 1 \in DOMAIN words,
         j \in After(WordSteps(g, d, words), k, i), NEW m \in WordEnds(g, d, words[k + 1], j)
  PROVE  m \in After(WordSteps(g, d, words), k + 1, i)
<1>1. PICK s : s = WordSteps(g, d, words)
  OBVIOUS
<1>2. m \in s[k + 1][j]
  BY <1>1 DEF WordSteps
<1> QED BY <1>1, <1>2, AfterMore

(* An activation turns to another production of its rule. *)
LEMMA TryReads ==
  ASSUME NEW g, Readable(g), ExtensionsFit(g.rules), NEW f \in Frame(Len(g.tokens)),
         f.rule \in DOMAIN g.rules, NEW phase \in {"prefix", "infix"}, NEW after, NEW i \in Position(g),
         IF phase = "infix" THEN << f.rule, i, f.cursor >> \in Derived(g) ELSE f.cursor = i
  PROVE  \A h : h = Try(g.rules, f, phase, after) => FrameReads(g, h, i)
<1> DEFINE js == {j \in DOMAIN g.rules[f.rule] : j > after /\ Viable(g.rules, f, phase, j)}
           prod == IF js = {} THEN 0 ELSE Min(js)
           h == [f EXCEPT !.phase = phase, !.local = f.cursor, !.repeat = NoRepeat,
                          !.prod = prod, !.atom = IF phase = "infix" THEN 2 ELSE 1]
<1>1. js \subseteq Nat /\ Len(g.tokens) \in Nat /\ WellFormed(g.rules)
  BY DEF WellFormed, Readable
<1>2. prod # 0 => prod \in js
  <2> HIDE DEF js
  <2> QED BY <1>1, MinInSet
<1>3. h = Try(g.rules, f, phase, after)
  BY DEF Try
<1>4. /\ h.rule = f.rule /\ h.cursor = f.cursor /\ h.phase = phase /\ h.local = f.cursor
      /\ h.repeat = NoRepeat /\ h.prod = prod /\ h.atom = IF phase = "infix" THEN 2 ELSE 1
  <2> HIDE DEF js, prod
  <2> QED BY DEF Frame
<1>5. ASSUME prod # 0
      PROVE  /\ prod \in DOMAIN g.rules[f.rule] /\ GroupsOK(g.rules[f.rule][prod].atoms)
             /\ phase = "infix" => ExtendsItself(f.rule, g.rules[f.rule][prod])
                                   /\ g.rules[f.rule][prod].starts_with_expr
  <2>1. prod \in DOMAIN g.rules[f.rule] /\ Viable(g.rules, f, phase, prod)
    BY <1>2, <1>5
  <2> HIDE DEF prod
  <2>2. GroupsOK(g.rules[f.rule][prod].atoms)
    BY <1>1, <2>1, PatternsAreGroups
  <2>3. ExtendsItself(f.rule, g.rules[f.rule][prod])
    BY <2>1 DEF ExtensionsFit
  <2>4. phase = "infix" => g.rules[f.rule][prod].starts_with_expr
    BY <2>1 DEF Viable
  <2> QED BY <2>1, <2>2, <2>3, <2>4
<1> HIDE DEF js, prod, h
<1>6. ASSUME prod # 0
      PROVE  PatternReads(g, g.rules[f.rule][prod].atoms, h, i)
  <2>1. PICK atoms : atoms = g.rules[f.rule][prod].atoms
    OBVIOUS
  <2>2. Len(atoms) \in Nat /\ DOMAIN atoms = 1 .. Len(atoms)
    BY <1>5, <1>6, <2>1 DEF GroupsOK, AtomsOK
  <2>3. ~h.repeat.on
    BY <1>4 DEF NoRepeat
  <2>4. CASE phase = "infix"
    <3>1. Len(atoms) > 0 /\ atoms[1].is = "rule" /\ atoms[1].what = f.rule
      BY <1>5, <1>6, <2>1, <2>4 DEF ExtendsItself
    <3>2. f.cursor \in Position(g)
      BY DEF Frame, Position
    <3>3. f.cursor \in AtomEnds(g, Derived(g), atoms[1], i)
      <4>1. << atoms[1].what, i, f.cursor >> \in Derived(g)
        BY <2>4, <3>1
      <4> QED BY <3>1, <3>2, <4>1 DEF AtomEnds, WordEnds
    <3>4. 0 \in Nat /\ 0 + 1 = 1 /\ 1 \in DOMAIN atoms /\ i \in After(AtomSteps(g, Derived(g), atoms), 0, i)
      BY <2>2, <3>1, AfterNone
    <3>5. f.cursor \in After(AtomSteps(g, Derived(g), atoms), 1, i)
      <4>1. f.cursor \in AtomEnds(g, Derived(g), atoms[0 + 1], i)
        BY <3>3, <3>4
      <4>2. f.cursor \in After(AtomSteps(g, Derived(g), atoms), 0 + 1, i)
        BY <3>4, <4>1, AtomRead
      <4> QED BY <3>4, <4>2
    <3>6. h.atom = 2 /\ 2 - 1 = 1 /\ 2 <= Len(atoms) + 1
      BY <1>4, <2>2, <2>4, <3>1
    <3> QED BY <1>4, <2>1, <2>3, <3>5, <3>6 DEF PatternReads
  <2>5. CASE phase # "infix"
    <3>1. f.cursor \in After(AtomSteps(g, Derived(g), atoms), 0, i)
      BY <2>5, AfterNone
    <3>2. h.atom = 1 /\ 1 - 1 = 0 /\ 1 <= Len(atoms) + 1
      BY <1>4, <2>2, <2>5
    <3> QED BY <1>4, <2>1, <2>3, <3>1, <3>2 DEF PatternReads
  <2> QED BY <2>4, <2>5
<1>7. CursorReads(g, h, i)
  BY <1>4 DEF CursorReads
<1>8. FrameReads(g, h, i)
  BY <1>4, <1>6, <1>7 DEF FrameReads
<1> QED BY <1>3, <1>8

(* A rule that is called reads from where it is called.                    *)
LEMMA ActivationReads ==
  ASSUME NEW g, Readable(g), ExtensionsFit(g.rules), NEW rule \in DOMAIN g.rules,
         NEW bp \in Nat, NEW cursor \in Position(g), NEW depth \in 0 .. MaxDepth
  PROVE  \A h : h = Activation(g.rules, rule, bp, cursor, depth) =>
           FrameReads(g, h, cursor) /\ h.rule = rule
<1> DEFINE n == Len(g.tokens)
           f == [rule |-> rule, min_bp |-> bp, cursor |-> cursor, depth |-> depth,
                 phase |-> "prefix", prod |-> 0, atom |-> 1, local |-> cursor, repeat |-> NoRepeat]
<1>1. n \in Nat /\ WellFormed(g.rules) /\ cursor \in 0 .. n
  BY DEF Readable, Position
<1>2. f \in Frame(n) /\ f.rule = rule /\ f.cursor = cursor
  BY <1>1 DEF Frame, Repeat, NoRepeat, WellFormed
<1>3. Activation(g.rules, rule, bp, cursor, depth) = Try(g.rules, f, "prefix", 0)
  BY DEF Activation
<1> HIDE DEF f
<1>4. \A h : h = Try(g.rules, f, "prefix", 0) => FrameReads(g, h, cursor)
  BY <1>2, TryReads DEF n
<1>5. \A h : h = Try(g.rules, f, "prefix", 0) => h.rule = rule
  BY <1>1, <1>2, TryFacts
<1> QED BY <1>3, <1>4, <1>5

-----------------------------------------------------------------------------
(* The stack is changed at its end. *)
LEMMA ReplaceReads ==
  ASSUME NEW g, NEW first, NEW A, NEW s \in Seq(A), s # << >>, StackReads(g, first, s),
         NEW h \in A, FrameReads(g, h, From(s, Len(s))), h.rule = Last(s).rule
  PROVE  StackReads(g, first, Append(Front(s), h))
<1>1. PICK t : t = Append(Front(s), h)
  OBVIOUS
<1>2. Len(s) \in Nat /\ Len(s) > 0 /\ DOMAIN s = 1 .. Len(s) /\ Last(s) = s[Len(s)]
  BY LastIs
<1>3. /\ DOMAIN t = DOMAIN s /\ t[Len(s)] = h
      /\ \A k \in 1 .. Len(s) - 1 : t[k] = s[k]
  <2>1. t \in Seq(A) /\ Len(t) = Len(s) /\ t[Len(s)] = h /\ \A k \in 1 .. Len(s) - 1 : t[k] = s[k]
    BY <1>1, ReplaceLast
  <2> QED BY <1>2, <2>1
<1>4. ASSUME NEW k \in DOMAIN s
      PROVE  /\ FrameReads(g, t[k], From(t, k)) /\ (k = 1 => t[k].rule = first)
             /\ k > 1 => StandsAt(g.rules, t[k - 1], t[k].rule)
  <2>1. /\ FrameReads(g, s[k], From(s, k)) /\ (k = 1 => s[k].rule = first)
        /\ k > 1 => StandsAt(g.rules, s[k - 1], s[k].rule)
    BY <1>4 DEF StackReads
  <2>2. k > 1 => t[k - 1] = s[k - 1]
    BY <1>2, <1>3, <1>4
  <2>3. From(t, k) = From(s, k)
    <3>1. k = 1 \/ k > 1
      BY <1>2, <1>4
    <3> QED BY <2>2, <3>1 DEF From
  <2>4. t[k].rule = s[k].rule /\ FrameReads(g, t[k], From(s, k))
    <3>1. CASE k = Len(s)
      BY <1>2, <1>3, <3>1
    <3>2. CASE k # Len(s)
      <4>1. t[k] = s[k]
        BY <1>2, <1>3, <1>4, <3>2
      <4> QED BY <2>1, <4>1
    <3> QED BY <3>1, <3>2
  <2> QED BY <2>1, <2>2, <2>3, <2>4
<1>5. StackReads(g, first, t)
  BY <1>3, <1>4 DEF StackReads
<1> QED BY <1>1, <1>5

LEMMA PushReads ==
  ASSUME NEW g, NEW first, NEW A, NEW s \in Seq(A), s # << >>, StackReads(g, first, s),
         NEW h \in A, FrameReads(g, h, Reached(Last(s))), StandsAt(g.rules, Last(s), h.rule)
  PROVE  StackReads(g, first, Append(s, h))
<1>1. PICK t : t = Append(s, h)
  OBVIOUS
<1>2. Len(s) \in Nat /\ Len(s) > 0 /\ DOMAIN s = 1 .. Len(s) /\ Last(s) = s[Len(s)]
  BY LastIs
<1>3. /\ DOMAIN t = 1 .. Len(s) + 1 /\ t[Len(s) + 1] = h
      /\ \A k \in 1 .. Len(s) : t[k] = s[k]
  BY <1>1, <1>2
<1>4. ASSUME NEW k \in 1 .. Len(s) + 1
      PROVE  /\ FrameReads(g, t[k], From(t, k)) /\ (k = 1 => t[k].rule = first)
             /\ k > 1 => StandsAt(g.rules, t[k - 1], t[k].rule)
  <2>1. k > 1 => t[k - 1] = s[k - 1]
    BY <1>2, <1>3, <1>4
  <2>2. k = 1 \/ k > 1
    BY <1>2, <1>4
  <2>3. CASE k = Len(s) + 1
    <3>1. k > 1 /\ k - 1 = Len(s) /\ t[k] = h /\ t[k - 1] = Last(s) /\ k # 1
      BY <1>2, <1>3, <2>1, <2>3
    <3>2. From(t, k) = Reached(Last(s))
      BY <3>1 DEF From
    <3> QED BY <3>1, <3>2
  <2>4. CASE k \in DOMAIN s
    <3>1. /\ FrameReads(g, s[k], From(s, k)) /\ (k = 1 => s[k].rule = first)
          /\ k > 1 => StandsAt(g.rules, s[k - 1], s[k].rule)
      BY <2>4 DEF StackReads
    <3>2. From(t, k) = From(s, k)
      BY <2>1, <2>2 DEF From
    <3>3. t[k] = s[k]
      BY <1>2, <1>3, <2>4
    <3> QED BY <2>1, <3>1, <3>2, <3>3
  <2>5. k = Len(s) + 1 \/ k \in DOMAIN s
    BY <1>2, <1>4
  <2> QED BY <2>3, <2>4, <2>5
<1>5. StackReads(g, first, t)
  BY <1>3, <1>4 DEF StackReads
<1> QED BY <1>1, <1>5

LEMMA PopReads ==
  ASSUME NEW g, NEW first, NEW A, NEW s \in Seq(A), s # << >>, StackReads(g, first, s)
  PROVE  /\ StackReads(g, first, Front(s))
         /\ Front(s) = << >> => From(s, Len(s)) = 0 /\ Last(s).rule = first
         /\ Front(s) # << >> => /\ From(s, Len(s)) = Reached(Last(Front(s)))
                                /\ StandsAt(g.rules, Last(Front(s)), Last(s).rule)
<1>1. PICK t : t = Front(s)
  OBVIOUS
<1>2. Len(s) \in Nat /\ Len(s) > 0 /\ DOMAIN s = 1 .. Len(s) /\ Last(s) = s[Len(s)]
  BY LastIs
<1>3. /\ t \in Seq(A) /\ Len(t) = Len(s) - 1
      /\ \A k \in 1 .. Len(s) - 1 : t[k] = s[k]
  BY <1>1, FrontFacts
<1>4. DOMAIN t = 1 .. Len(s) - 1 /\ Last(t) = t[Len(t)]
  BY <1>2, <1>3, LastIs
<1>5. StackReads(g, first, t)
  <2>1. ASSUME NEW k \in 1 .. Len(s) - 1
        PROVE  /\ FrameReads(g, t[k], From(t, k)) /\ (k = 1 => t[k].rule = first)
               /\ k > 1 => StandsAt(g.rules, t[k - 1], t[k].rule)
    <3>1. t[k] = s[k] /\ k \in DOMAIN s /\ (k > 1 => t[k - 1] = s[k - 1]) /\ (k = 1 \/ k > 1)
      BY <1>2, <1>3, <2>1
    <3>2. From(t, k) = From(s, k)
      BY <3>1 DEF From
    <3>3. /\ FrameReads(g, s[k], From(s, k)) /\ (k = 1 => s[k].rule = first)
          /\ k > 1 => StandsAt(g.rules, s[k - 1], s[k].rule)
      BY <3>1 DEF StackReads
    <3> QED BY <3>1, <3>2, <3>3
  <2> QED BY <1>4, <2>1 DEF StackReads
<1>6. Len(s) \in DOMAIN s
  BY <1>2
<1>7. /\ Len(s) = 1 => Last(s).rule = first
      /\ Len(s) > 1 => StandsAt(g.rules, s[Len(s) - 1], Last(s).rule)
  BY <1>2, <1>6 DEF StackReads
<1>10. Len(t) = 0 => Len(s) = 1
  <2>1. PICK m \in Nat : m = Len(s)
    BY <1>2
  <2>2. Len(t) = m - 1
    BY <1>3, <2>1
  <2>3. Len(t) = 0 => m = 1
    BY <2>2
  <2> QED BY <2>1, <2>3
<1>8. CASE t = << >>
  <2>1. Len(s) = 1
    BY <1>2, <1>10, <1>8
  <2> QED BY <1>1, <1>5, <1>7, <1>8, <2>1 DEF From
<1>9. CASE t # << >>
  <2>1. Len(s) > 1 /\ Len(s) # 1 /\ Last(t) = s[Len(s) - 1]
    BY <1>2, <1>3, <1>4, <1>9
  <2> QED BY <1>1, <1>5, <1>7, <1>9, <2>1 DEF From
<1> QED BY <1>8, <1>9

(* Where the innermost activation began. *)
Began == From(stack, Len(stack))

LEMMA GivenFacts ==
  ASSUME ControlInv, LanguageInv, stack # << >>
  PROVE  /\ Readable(Given) /\ ExtensionsFit(Given.rules) /\ Given.rules = Rules
         /\ Given.tokens = tokens /\ Len(Given.tokens) = N /\ Position(Given) = 0 .. N
         /\ FrameReads(Given, Top, Began)
         /\ Began \in 0 .. N /\ Began <= Top.cursor /\ Began \in Int
<1>1. /\ WellFormed(Rules) /\ N \in Nat /\ Top \in Frame(N) /\ Len(stack) \in Nat
      /\ Len(stack) \in DOMAIN stack /\ Top = stack[Len(stack)] /\ StackOK(Rules, N, stack)
      /\ DOMAIN stack = 1 .. Len(stack)
  BY TopFacts
<1>2. Given.rules = Rules /\ Given.tokens = tokens
  BY DEF Given
<1>3. IsFiniteSet(DOMAIN Rules) /\ ExtensionsFit(Rules)
  BY GrammarsWellFormed DEF ControlInv, ControlTypeOK, Rules
<1>4. Readable(Given) /\ Len(Given.tokens) = N /\ Position(Given) = 0 .. N
  BY <1>1, <1>2, <1>3 DEF Readable, N, Position
<1>5. FrameReads(Given, Top, Began)
  BY <1>1 DEF LanguageInv, StackReads, Began
<1>6. Top.cursor \in 0 .. N /\ Top.cursor \in Int
  BY <1>1, FrameTypes
<1>7. CASE Len(stack) = 1
  <2>1. Began = 0
    BY <1>7 DEF Began, From
  <2> QED BY <1>1, <1>2, <1>3, <1>4, <1>5, <1>6, <2>1
<1>8. CASE Len(stack) # 1
  <2>1. Len(stack) > 1 /\ Len(stack) - 1 \in DOMAIN stack
    BY <1>1, <1>8
  <2>2. CalledFrom(stack[Len(stack) - 1], Top)
    BY <1>1, <2>1 DEF StackOK
  <2>3. PICK p \in Frame(N) : p = stack[Len(stack) - 1]
    BY <1>1, <2>1 DEF StackOK, FrameOK
  <2>4. Began = Reached(p)
    BY <1>8, <2>3 DEF Began, From
  <2>5. Reached(p) \in 0 .. N /\ Reached(p) \in Int
    BY <1>1, FrameTypes
  <2>6. Reached(p) <= Top.cursor
    BY <1>6, <2>2, <2>3, <2>5 DEF CalledFrom
  <2> QED BY <1>2, <1>3, <1>4, <1>5, <2>4, <2>5, <2>6
<1> QED BY <1>7, <1>8

(* The innermost activation changes. *)
LEMMA ReplaceKeepsReading ==
  ASSUME ControlInv, LanguageInv, verdict = "running", stack # << >>,
         NEW h, FrameReads(Given, h, Began), h.rule = Top.rule,
         stack' = Append(Front(stack), h), returned' = NoResult,
         UNCHANGED << grammar, tokens, building, verdict >>
  PROVE  LanguageInv'
<1>1. stack \in Seq(Frame(N)) /\ Top = Last(stack)
  BY TopFacts DEF Top
<1>2. PICK A : stack \in Seq(A) /\ h \in A
  <2>1. Frame(N) \subseteq Frame(N) \cup {h}
    OBVIOUS
  <2>2. stack \in Seq(Frame(N) \cup {h})
    BY <1>1
  <2> QED BY <2>2
<1>3. StackReads(Given, First, stack)
  BY DEF LanguageInv
<1>4. StackReads(Given, First, stack')
  BY <1>1, <1>2, <1>3, ReplaceReads DEF Began
<1>5. Given' = Given /\ First' = First
  BY DEF Given, First, Rules
<1>6. returned'.is # "matched" /\ verdict' # "accepted"
  BY DEF NoResult
<1> QED BY <1>4, <1>5, <1>6 DEF LanguageInv, AcceptsSentences

LEMMA TryNextKeepsReading ==
  ASSUME ControlInv, LanguageInv, verdict = "running", stack # << >>,
         NEW f \in Frame(N), f.rule = Top.rule, NEW phase \in {"prefix", "infix"}, NEW after, NEW lhs,
         IF phase = "infix" THEN << f.rule, Began, f.cursor >> \in Derived(Given) ELSE f.cursor = Began,
         TryNext(f, lhs, phase, after), returned' = NoResult,
         UNCHANGED << grammar, tokens, building, verdict >>
  PROVE  LanguageInv'
<1> DEFINE h == Try(Rules, f, phase, after)
<1>1. WellFormed(Rules) /\ N \in Nat /\ f.rule \in DOMAIN Rules
  BY TopFacts
<1>2. /\ Readable(Given) /\ ExtensionsFit(Given.rules) /\ Given.rules = Rules
      /\ Len(Given.tokens) = N /\ Began \in Position(Given)
  BY GivenFacts
<1>3. stack' = Append(Front(stack), h)
  BY DEF TryNext, Replace
<1> HIDE DEF h
<1>4. FrameReads(Given, h, Began)
  BY <1>1, <1>2, TryReads DEF h
<1>5. h.rule = f.rule
  BY <1>1, TryFacts DEF h
<1> QED BY <1>3, <1>4, <1>5, ReplaceKeepsReading

LEMMA PatternFailsKeepsReading ==
  ASSUME ControlInv, LanguageInv, verdict = "running", stack # << >>, NEW lhs,
         TryNext(Top, lhs, Top.phase, Top.prod), returned' = NoResult,
         UNCHANGED << grammar, tokens, building, verdict >>
  PROVE  LanguageInv'
<1>1. N \in Nat /\ Top \in Frame(N)
  BY TopFacts
<1>2. Top.phase \in {"prefix", "infix"}
  BY <1>1 DEF Frame
<1>3. CursorReads(Given, Top, Began)
  BY GivenFacts DEF FrameReads
<1>4. IF Top.phase = "infix" THEN << Top.rule, Began, Top.cursor >> \in Derived(Given)
      ELSE Top.cursor = Began
  BY <1>3 DEF CursorReads
<1> QED BY <1>1, <1>2, <1>4, TryNextKeepsReading

(* What is known of the pattern that is tried. *)
LEMMA TryingReads ==
  ASSUME ControlInv, LanguageInv, stack # << >>, Top.prod # 0
  PROVE  /\ PatternReads(Given, Prod.atoms, Top, Began) /\ GroupsOK(Prod.atoms)
         /\ CursorReads(Given, Top, Began)
         /\ Top.prod \in DOMAIN Rules[Top.rule] /\ Top.rule \in DOMAIN Rules
         /\ Top.repeat.on => Top.atom \in DOMAIN Prod.atoms /\ Prod.atoms[Top.atom].is = "repeat"
                             /\ AtomsOK(Prod.atoms[Top.atom].atoms)
<1>1. /\ WellFormed(Rules) /\ FrameOK(Rules, N, Top) /\ Top.rule \in DOMAIN Rules
  BY TopFacts
<1>2. /\ Top.prod \in DOMAIN Rules[Top.rule]
      /\ Top.repeat.on => Top.atom \in DOMAIN Prod.atoms /\ Prod.atoms[Top.atom].is = "repeat"
  BY <1>1 DEF FrameOK, FrameFits, Prod
<1>3. FrameReads(Given, Top, Began) /\ Given.rules = Rules
  BY GivenFacts
<1>4. PatternReads(Given, Prod.atoms, Top, Began) /\ CursorReads(Given, Top, Began)
  BY <1>3 DEF FrameReads, Prod
<1>5. GroupsOK(Prod.atoms)
  <2>1. \A r \in DOMAIN Rules : \A k \in DOMAIN Rules[r] : GroupsOK(Rules[r][k].atoms)
    BY <1>1 DEF WellFormed, GroupsOK
  <2> QED BY <1>1, <1>2, <2>1 DEF Prod
<1>6. Top.repeat.on => AtomsOK(Prod.atoms[Top.atom].atoms)
  BY <1>2, <1>5 DEF GroupsOK
<1> QED BY <1>1, <1>2, <1>4, <1>5, <1>6

LEMMA AtomFailsKeepsReading ==
  ASSUME ControlInv, LanguageInv, verdict = "running", stack # << >>, AtomFails, returned' = NoResult,
         UNCHANGED << grammar, tokens, building, verdict >>
  PROVE  LanguageInv'
<1>1. CASE PatternFails
  BY <1>1, PatternFailsKeepsReading DEF PatternFails
<1>2. CASE /\ InGroup /\ (Top.repeat.met \/ Prod.atoms[Top.atom].min_occurs = 0)
           /\ Replace([Top EXCEPT !.repeat.over = TRUE], Held)
  <2> DEFINE h == [Top EXCEPT !.repeat.over = TRUE]
  <2>1. N \in Nat /\ Top \in Frame(N) /\ FrameOK(Rules, N, Top) /\ Top.repeat \in Repeat(N)
    BY TopFacts, FrameTypes
  <2>2. stack' = Append(Front(stack), h)
    BY <1>2 DEF Replace
  <2>3. /\ h.rule = Top.rule /\ h.prod = Top.prod /\ h.atom = Top.atom /\ h.cursor = Top.cursor
        /\ h.local = Top.local /\ h.phase = Top.phase
        /\ h.repeat = [Top.repeat EXCEPT !.over = TRUE]
    BY <2>1 DEF Frame
  <2> HIDE DEF h
  <2>4. /\ h.repeat.on /\ Top.repeat.on /\ h.repeat.sub = Top.repeat.sub
        /\ h.repeat.local = Top.repeat.local /\ h.repeat.at = Top.repeat.at
        /\ h.repeat.met = Top.repeat.met /\ h.repeat.over
    BY <1>2, <2>1, <2>3 DEF InGroup, Repeat
  <2>5. Top.prod # 0
    BY <2>1, <2>4 DEF FrameOK, FrameFits
  <2>6. PatternReads(Given, Prod.atoms, Top, Began) /\ CursorReads(Given, Top, Began)
    BY <2>5, TryingReads
  <2>7. GroupReads(Given, Prod.atoms[Top.atom], h)
    BY <1>2, <2>3, <2>4, <2>6 DEF PatternReads, GroupReads
  <2>8. PatternReads(Given, Prod.atoms, h, Began)
    BY <2>3, <2>6, <2>7 DEF PatternReads
  <2>9. Given.rules = Rules
    BY DEF Given
  <2>10. FrameReads(Given, h, Began)
    BY <2>3, <2>6, <2>8, <2>9 DEF FrameReads, CursorReads, Prod
  <2> QED BY <2>2, <2>3, <2>10, ReplaceKeepsReading
<1> QED BY <1>1, <1>2 DEF AtomFails

(* An atom that is no group matched. *)
LEMMA AtomMatchesKeepsReading ==
  ASSUME ControlInv, LanguageInv, verdict = "running", stack # << >>, Top.prod # 0,
         ~Top.repeat.over, Index \in DOMAIN Atoms, Atom.is # "repeat",
         NEW next \in WordEnds(Given, Derived(Given), Atom, Reached(Top)),
         NEW node, AtomMatches(node, next), returned' = NoResult,
         UNCHANGED << grammar, tokens, building, verdict >>
  PROVE  LanguageInv'
<1> DEFINE h == Advanced(next)
<1>1. /\ N \in Nat /\ Top \in Frame(N) /\ Top.repeat \in Repeat(N)
      /\ Top.atom \in Nat /\ Top.repeat.sub \in Nat /\ Top.atom > 0 /\ Top.repeat.sub > 0
      /\ Top.local \in 0 .. N /\ Top.repeat.at \in 0 .. N
  BY TopFacts, FrameTypes DEF FrameOK, FrameFits, Frame, Repeat
<1>2. stack' = Append(Front(stack), h)
  BY DEF AtomMatches, Replace
<1>3. /\ PatternReads(Given, Prod.atoms, Top, Began) /\ GroupsOK(Prod.atoms)
      /\ CursorReads(Given, Top, Began)
      /\ Top.repeat.on => AtomsOK(Prod.atoms[Top.atom].atoms)
  BY TryingReads
<1>4. Given.rules = Rules /\ Position(Given) = 0 .. N
  BY GivenFacts
<1>5. CASE InGroup
  <2> DEFINE r == [Top.repeat EXCEPT !.at = next, !.sub = Top.repeat.sub + 1]
             group == Prod.atoms[Top.atom]
  <2>1. /\ r.on /\ Top.repeat.on /\ r.at = next /\ r.sub = Top.repeat.sub + 1
        /\ r.local = Top.repeat.local /\ r.met = Top.repeat.met /\ r.over = Top.repeat.over
    BY <1>1, <1>5 DEF Repeat, InGroup
  <2>2. h = [Top EXCEPT !.repeat = r]
    BY <1>1, <1>5 DEF Advanced, Frame, Repeat
  <2> HIDE DEF h, r
  <2>3. /\ h.rule = Top.rule /\ h.prod = Top.prod /\ h.atom = Top.atom /\ h.cursor = Top.cursor
        /\ h.local = Top.local /\ h.phase = Top.phase /\ h.repeat = r
    BY <1>1, <2>2 DEF Frame
  <2>4. PICK g : g = group
    OBVIOUS
  <2>5. /\ Top.repeat.sub \in DOMAIN g.atoms /\ Atom = g.atoms[Top.repeat.sub]
        /\ Reached(Top) = Top.repeat.at
    BY <1>5, <2>1, <2>4 DEF Index, Atoms, Atom, InGroup, Reached
  <2>6. AtomsOK(g.atoms) /\ GroupReads(Given, g, Top)
    BY <1>3, <2>1, <2>4 DEF PatternReads
  <2>7. Len(g.atoms) \in Nat /\ DOMAIN g.atoms = 1 .. Len(g.atoms)
    BY <2>6 DEF AtomsOK
  <2>8. PICK k \in Nat : k = Top.repeat.sub - 1 /\ k + 1 = Top.repeat.sub
    BY <1>1
  <2>9. Top.repeat.at \in After(WordSteps(Given, Derived(Given), g.atoms), k, Top.repeat.local)
    BY <2>6, <2>8 DEF GroupReads
  <2>10. next \in After(WordSteps(Given, Derived(Given), g.atoms), k + 1, Top.repeat.local)
    <3>1. next \in WordEnds(Given, Derived(Given), g.atoms[k + 1], Top.repeat.at)
      BY <2>5, <2>8
    <3>2. k + 1 \in DOMAIN g.atoms /\ Top.repeat.at \in Position(Given)
      BY <1>1, <1>4, <2>5, <2>8
    <3> QED BY <2>9, <3>1, <3>2, WordRead
  <2>11. h.repeat.sub - 1 = k + 1 /\ h.repeat.sub <= Len(g.atoms) + 1
    BY <1>1, <2>1, <2>3, <2>5, <2>7, <2>8
  <2>12. GroupReads(Given, g, h)
    BY <2>1, <2>3, <2>6, <2>10, <2>11 DEF GroupReads
  <2>13. PatternReads(Given, Prod.atoms, h, Began)
    BY <1>3, <2>3, <2>4, <2>12 DEF PatternReads
  <2>14. FrameReads(Given, h, Began)
    BY <1>3, <1>4, <2>3, <2>13 DEF FrameReads, CursorReads, Prod
  <2> QED BY <1>2, <2>3, <2>14, ReplaceKeepsReading
<1>6. CASE ~InGroup
  <2>1. h = [Top EXCEPT !.local = next, !.atom = Top.atom + 1]
    BY <1>6 DEF Advanced
  <2> HIDE DEF h
  <2>2. /\ h.rule = Top.rule /\ h.prod = Top.prod /\ h.atom = Top.atom + 1 /\ h.cursor = Top.cursor
        /\ h.local = next /\ h.phase = Top.phase
        /\ h.repeat = Top.repeat /\ ~h.repeat.on
    BY <1>1, <1>6, <2>1 DEF Frame, InGroup
  <2>3. PICK atoms : atoms = Prod.atoms
    OBVIOUS
  <2>4. Top.atom \in DOMAIN atoms /\ Atom = atoms[Top.atom] /\ Reached(Top) = Top.local
    BY <1>6, <2>3 DEF Index, Atoms, Atom, InGroup, Reached
  <2>5. Len(atoms) \in Nat /\ DOMAIN atoms = 1 .. Len(atoms)
    BY <1>3, <2>3 DEF GroupsOK, AtomsOK
  <2>6. PICK k \in Nat : k = Top.atom - 1 /\ k + 1 = Top.atom
    BY <1>1
  <2>7. Top.local \in After(AtomSteps(Given, Derived(Given), atoms), k, Began)
    BY <1>3, <2>3, <2>6 DEF PatternReads
  <2>8. next \in After(AtomSteps(Given, Derived(Given), atoms), k + 1, Began)
    <3>1. next \in AtomEnds(Given, Derived(Given), atoms[k + 1], Top.local)
      BY <2>4, <2>6 DEF AtomEnds
    <3>2. k + 1 \in DOMAIN atoms /\ Top.local \in Position(Given)
      BY <1>1, <1>4, <2>4, <2>6
    <3> QED BY <2>7, <3>1, <3>2, AtomRead
  <2>9. h.atom - 1 = k + 1 /\ h.atom <= Len(atoms) + 1
    BY <1>1, <2>2, <2>4, <2>5, <2>6
  <2>10. PatternReads(Given, Prod.atoms, h, Began)
    BY <2>2, <2>3, <2>8, <2>9 DEF PatternReads
  <2>11. FrameReads(Given, h, Began)
    BY <1>3, <1>4, <2>2, <2>10 DEF FrameReads, CursorReads, Prod
  <2> QED BY <1>2, <2>2, <2>11, ReplaceKeepsReading
<1> QED BY <1>5, <1>6

-----------------------------------------------------------------------------
(* Steps *)

(* A token that fits is one that the atom stands for.                      *)
LEMMA ReadTokenKeepsReading ==
  ASSUME ControlInv, LanguageInv, ReadToken
  PROVE  LanguageInv'
<1>1. /\ Trying /\ Running /\ Top.prod # 0 /\ ~Top.repeat.over
      /\ Index <= Len(Atoms) /\ Atom.is \in {"literal", "kind"}
      /\ UNCHANGED << grammar, tokens, building, returned, verdict >>
  BY DEF ReadToken, At, Trying
<1>2. /\ verdict = "running" /\ stack # << >> /\ returned' = NoResult
      /\ Here = Reached(Top) /\ Here \in 0 .. N /\ N \in Nat
  BY <1>1, RunningFacts
<1>3. CASE Here < Len(tokens) /\ Fits(Atom, tokens[Here + 1]) /\ \E node : AtomMatches(node, Here + 1)
  <2>1. PICK node : AtomMatches(node, Here + 1)
    BY <1>3
  <2>2. Position(Given) = 0 .. N /\ Given.tokens = tokens /\ Given.building = building
    BY <1>2, GivenFacts DEF Given
  <2>3. PICK next : next = Here + 1 /\ next \in Position(Given)
    BY <1>2, <1>3, <2>2 DEF N
  <2>4. StandsFor(Given, Atom, tokens[next])
    BY <1>3, <2>2, <2>3 DEF Fits, StandsFor
  <2>5. next \in WordEnds(Given, Derived(Given), Atom, Reached(Top))
    BY <1>1, <1>2, <2>2, <2>3, <2>4 DEF WordEnds
  <2>6. Index \in DOMAIN Atoms /\ Atom.is # "repeat"
    BY <1>1, AtPosition
  <2> QED BY <1>1, <1>2, <2>1, <2>3, <2>5, <2>6, AtomMatchesKeepsReading
<1>4. CASE AtomFails
  BY <1>1, <1>2, <1>4, AtomFailsKeepsReading
<1> QED BY <1>3, <1>4 DEF ReadToken

(* A rule is read from where the atom that calls it stands.                *)
LEMMA CallRuleKeepsReading ==
  ASSUME ControlInv, LanguageInv, CallRule
  PROVE  LanguageInv'
<1>1. /\ Trying /\ Running /\ Top.prod # 0 /\ ~Top.repeat.over
      /\ Index <= Len(Atoms) /\ Atom.is = "rule"
      /\ UNCHANGED << grammar, tokens, building, returned, verdict >>
  BY DEF CallRule, At, Trying
<1>2. /\ verdict = "running" /\ stack # << >> /\ returned' = NoResult
      /\ Here = Reached(Top) /\ Here \in 0 .. N /\ N \in Nat /\ Top \in Frame(N)
      /\ stack \in Seq(Frame(N)) /\ Top = Last(stack)
  BY <1>1, RunningFacts, TopFacts DEF Top
<1>3. CASE Atom.what \in DOMAIN Rules /\ Deeper <= MaxDepth
  <2> DEFINE a == Activation(Rules, Atom.what, Atom.min_bp, Here, Deeper)
  <2>1. stack' = Append(stack, a)
    BY <1>3 DEF CallRule
  <2> HIDE DEF a
  <2>2. Atom.min_bp \in Nat
    BY AtomHasPower DEF CallRule
  <2>3. Top.depth \in Int /\ Top.depth \in 0 .. MaxDepth
    BY <1>2, FrameTypes
  <2>4. Deeper \in 0 .. MaxDepth
    <3>1. Deeper \in Int /\ Deeper >= Top.depth + 2
      BY <2>3 DEF Deeper
    <3> QED BY <1>3, <2>3, <3>1, DepthAssumption
  <2>5. /\ Readable(Given) /\ ExtensionsFit(Given.rules) /\ Given.rules = Rules
        /\ Here \in Position(Given)
    BY <1>2, GivenFacts
  <2>6. FrameReads(Given, a, Here) /\ a.rule = Atom.what
    BY <1>3, <2>2, <2>4, <2>5, ActivationReads DEF a
  <2>7. StandsAt(Given.rules, Top, a.rule)
    <3>1. Index \in DOMAIN Atoms
      BY <1>1, AtPosition
    <3>2. AtomsOf(Rules, Top) = Atoms /\ IndexOf(Top) = Index
      BY DEF AtomsOf, IndexOf, Atoms, Index, InGroup, Prod
    <3> QED BY <1>1, <2>5, <2>6, <3>1, <3>2 DEF StandsAt, Atom
  <2>8. PICK A : stack \in Seq(A) /\ a \in A
    <3>1. stack \in Seq(Frame(N) \cup {a})
      BY <1>2
    <3> QED BY <3>1
  <2>9. StackReads(Given, First, stack)
    BY DEF LanguageInv
  <2>10. StackReads(Given, First, stack')
    BY <1>2, <2>1, <2>6, <2>7, <2>8, <2>9, PushReads
  <2>11. Given' = Given /\ First' = First
    BY <1>1 DEF Given, First, Rules
  <2>12. returned'.is # "matched" /\ verdict' # "accepted"
    BY <1>1, <1>2 DEF NoResult
  <2> QED BY <2>10, <2>11, <2>12 DEF LanguageInv, AcceptsSentences
<1>4. CASE AtomFails
  BY <1>1, <1>2, <1>4, AtomFailsKeepsReading
<1> QED BY <1>3, <1>4 DEF CallRule

LEMMA OpenGroupKeepsReading ==
  ASSUME ControlInv, LanguageInv, OpenGroup
  PROVE  LanguageInv'
<1> DEFINE r == [NoRepeat EXCEPT !.on = TRUE, !.local = Top.local, !.at = Top.local]
           h == [Top EXCEPT !.repeat = r]
<1>1. Trying /\ Running /\ Top.prod # 0 /\ UNCHANGED << grammar, tokens, building, returned, verdict >>
  BY DEF OpenGroup, At, Trying
<1>2. /\ verdict = "running" /\ stack # << >> /\ returned' = NoResult
      /\ N \in Nat /\ Top \in Frame(N) /\ FrameOK(Rules, N, Top)
  BY <1>1, RunningFacts
<1>3. stack' = Append(Front(stack), h)
  BY DEF OpenGroup, Replace
<1>4. /\ r.on /\ ~r.over /\ ~r.met /\ r.sub = 1 /\ r.local = Top.local /\ r.at = Top.local
  BY DEF NoRepeat
<1> HIDE DEF r
<1>5. /\ h.rule = Top.rule /\ h.prod = Top.prod /\ h.atom = Top.atom /\ h.cursor = Top.cursor
      /\ h.local = Top.local /\ h.phase = Top.phase /\ h.repeat = r
  BY <1>2 DEF Frame
<1> HIDE DEF h
<1>6. /\ PatternReads(Given, Prod.atoms, Top, Began) /\ GroupsOK(Prod.atoms)
      /\ CursorReads(Given, Top, Began)
  BY <1>1, <1>2, TryingReads
<1>7. Top.atom \in DOMAIN Prod.atoms /\ Prod.atoms[Top.atom].is = "repeat"
  <2>1. CASE InGroup
    BY <1>1, <2>1, AtPosition
  <2>2. CASE ~InGroup
    <3>1. Index <= Len(Atoms) /\ Atom.is = "repeat"
      BY DEF OpenGroup, At
    <3>2. Index = Top.atom /\ Atoms = Prod.atoms
      BY <2>2 DEF Index, Atoms
    <3> QED BY <1>1, <3>1, <3>2, AtPosition DEF Atom
  <2> QED BY <2>1, <2>2
<1>8. PICK group : group = Prod.atoms[Top.atom]
  OBVIOUS
<1>9. Len(group.atoms) \in Nat
  BY <1>6, <1>7, <1>8 DEF GroupsOK, AtomsOK
<1>10. GroupReads(Given, group, h)
  <2>1. h.repeat.at \in After(WordSteps(Given, Derived(Given), group.atoms), 0, h.repeat.local)
    BY <1>4, <1>5, AfterNone
  <2>2. h.repeat.sub - 1 = 0 /\ h.repeat.sub <= Len(group.atoms) + 1
    BY <1>4, <1>5, <1>9
  <2> QED BY <1>4, <1>5, <2>1, <2>2 DEF GroupReads
<1>11. PatternReads(Given, Prod.atoms, h, Began)
  BY <1>5, <1>6, <1>8, <1>10 DEF PatternReads
<1>12. Given.rules = Rules
  BY DEF Given
<1>13. FrameReads(Given, h, Began)
  BY <1>5, <1>6, <1>11, <1>12 DEF FrameReads, CursorReads, Prod
<1> QED BY <1>1, <1>2, <1>3, <1>5, <1>13, ReplaceKeepsReading

(* Once round the group is once more round it.                             *)
LEMMA IterationDoneKeepsReading ==
  ASSUME ControlInv, LanguageInv, IterationDone
  PROVE  LanguageInv'
<1> DEFINE r == [Top.repeat EXCEPT !.met = TRUE, !.local = Top.repeat.at, !.sub = 1,
                                   !.over = Prod.atoms[Top.atom].once]
           h == [Top EXCEPT !.repeat = r]
<1>1. /\ Trying /\ Running /\ Top.prod # 0 /\ InGroup /\ ~Top.repeat.over /\ Index > Len(Atoms)
      /\ UNCHANGED << grammar, tokens, building, returned, verdict >>
  BY DEF IterationDone, Trying
<1>2. /\ verdict = "running" /\ stack # << >> /\ returned' = NoResult
      /\ N \in Nat /\ Top \in Frame(N) /\ Top.repeat \in Repeat(N)
      /\ Top.repeat.sub \in Nat /\ Top.repeat.local \in 0 .. N /\ Top.repeat.at \in 0 .. N
      /\ Top.local \in 0 .. N
  BY <1>1, RunningFacts, FrameTypes DEF Frame, Repeat
<1>3. stack' = Append(Front(stack), h)
  BY DEF IterationDone, Replace
<1>4. PICK group : group = Prod.atoms[Top.atom]
  OBVIOUS
<1>5. /\ r.on /\ Top.repeat.on /\ r.met /\ r.sub = 1 /\ r.over = group.once
      /\ r.local = Top.repeat.at /\ r.at = Top.repeat.at
  BY <1>1, <1>2, <1>4 DEF Repeat, InGroup
<1> HIDE DEF r
<1>6. /\ h.rule = Top.rule /\ h.prod = Top.prod /\ h.atom = Top.atom /\ h.cursor = Top.cursor
      /\ h.local = Top.local /\ h.phase = Top.phase /\ h.repeat = r
  BY <1>2 DEF Frame
<1> HIDE DEF h
<1>7. /\ PatternReads(Given, Prod.atoms, Top, Began) /\ CursorReads(Given, Top, Began)
      /\ AtomsOK(group.atoms)
  BY <1>1, <1>2, <1>4, <1>5, TryingReads
<1>8. GroupReads(Given, group, Top)
  BY <1>4, <1>5, <1>7 DEF PatternReads
<1>9. Len(group.atoms) \in Nat /\ Top.repeat.sub > Len(group.atoms)
  BY <1>1, <1>4, <1>7 DEF Index, Atoms, AtomsOK
<1>10. Top.repeat.sub - 1 = Len(group.atoms)
  BY <1>2, <1>8, <1>9 DEF GroupReads
<1>11. Top.repeat.at \in OnceRound(Given, Derived(Given), group, Top.repeat.local)
  BY <1>8, <1>10 DEF GroupReads, OnceRound
<1>12. Position(Given) = 0 .. N /\ Len(Given.tokens) = N
  BY <1>2, GivenFacts
<1>13. Top.repeat.at \in Rounds(Given, Derived(Given), group, Top.local)
  <2>1. PICK d : d = Derived(Given)
    OBVIOUS
  <2>2. /\ OnceRound(Given, d, group, Top.local) \subseteq Rounds(Given, d, group, Top.local)
        /\ ~group.once => \A j \in Rounds(Given, d, group, Top.local) :
                            OnceRound(Given, d, group, j) \subseteq Rounds(Given, d, group, Top.local)
    BY <1>2, <1>7, <1>12, RoundsFacts
  <2>3. CASE Top.repeat.met
    <3>1. ~group.once /\ Top.repeat.local \in Rounds(Given, d, group, Top.local)
      BY <1>1, <1>8, <2>1, <2>3 DEF GroupReads
    <3> QED BY <1>11, <2>1, <2>2, <3>1
  <2>4. CASE ~Top.repeat.met
    <3>1. Top.repeat.local = Top.local
      BY <1>8, <2>4 DEF GroupReads
    <3> QED BY <1>11, <2>1, <2>2, <3>1
  <2> QED BY <2>3, <2>4
<1>14. GroupReads(Given, group, h)
  <2>1. h.repeat.at \in After(WordSteps(Given, Derived(Given), group.atoms), 0, h.repeat.local)
    BY <1>5, <1>6, AfterNone
  <2>2. h.repeat.sub - 1 = 0 /\ h.repeat.sub <= Len(group.atoms) + 1
    BY <1>5, <1>6, <1>9
  <2> QED BY <1>5, <1>6, <1>13, <2>1, <2>2 DEF GroupReads
<1>15. PatternReads(Given, Prod.atoms, h, Began)
  BY <1>4, <1>6, <1>7, <1>14 DEF PatternReads
<1>16. Given.rules = Rules
  BY DEF Given
<1>17. FrameReads(Given, h, Began)
  BY <1>6, <1>7, <1>15, <1>16 DEF FrameReads, CursorReads, Prod
<1> QED BY <1>1, <1>2, <1>3, <1>6, <1>17, ReplaceKeepsReading

(* What a repetition took is where a group may end.                        *)
LEMMA CloseGroupKeepsReading ==
  ASSUME ControlInv, LanguageInv, CloseGroup
  PROVE  LanguageInv'
<1> DEFINE h == [Top EXCEPT !.local = RepeatedTo(Top.repeat), !.atom = @ + 1, !.repeat = NoRepeat]
<1>1. /\ Trying /\ Running /\ Top.prod # 0 /\ Top.repeat.over
      /\ UNCHANGED << grammar, tokens, building, returned, verdict >>
  BY DEF CloseGroup, Trying
<1>2. /\ verdict = "running" /\ stack # << >> /\ returned' = NoResult
      /\ N \in Nat /\ Top \in Frame(N) /\ Top.repeat.on
      /\ Top.atom \in Nat /\ Top.atom > 0 /\ Top.local \in 0 .. N
  BY <1>1, RunningFacts, TopFacts, FrameTypes DEF FrameOK, FrameFits, Frame
<1>3. stack' = Append(Front(stack), h)
  BY DEF CloseGroup, Replace
<1>4. PICK m : m = Top.atom + 1
  OBVIOUS
<1>5. PICK l : l = Top.repeat.local
  OBVIOUS
<1>6. h = [Top EXCEPT !.local = l, !.atom = m, !.repeat = NoRepeat]
  BY <1>2, <1>4, <1>5 DEF RepeatedTo
<1> HIDE DEF h
<1>7. /\ h.rule = Top.rule /\ h.prod = Top.prod /\ h.atom = m /\ h.cursor = Top.cursor
      /\ h.local = l /\ h.phase = Top.phase /\ ~h.repeat.on
  BY <1>2, <1>6 DEF Frame, NoRepeat
<1>8. PICK atoms : atoms = Prod.atoms
  OBVIOUS
<1>9. /\ PatternReads(Given, atoms, Top, Began) /\ GroupsOK(atoms) /\ CursorReads(Given, Top, Began)
      /\ Top.atom \in DOMAIN atoms /\ atoms[Top.atom].is = "repeat"
  BY <1>1, <1>2, <1>8, TryingReads
<1>10. GroupReads(Given, atoms[Top.atom], Top) /\ Top.local \in After(AtomSteps(Given, Derived(Given), atoms), Top.atom - 1, Began)
  BY <1>2, <1>9 DEF PatternReads
<1>11. l \in AtomEnds(Given, Derived(Given), atoms[Top.atom], Top.local)
  BY <1>1, <1>5, <1>9, <1>10 DEF GroupReads, AtomEnds
<1>12. Given.rules = Rules /\ Position(Given) = 0 .. N
  BY <1>2, GivenFacts
<1>13. PICK k \in Nat : k = Top.atom - 1 /\ k + 1 = Top.atom
  BY <1>2
<1>14. l \in After(AtomSteps(Given, Derived(Given), atoms), k + 1, Began)
  <2>1. l \in AtomEnds(Given, Derived(Given), atoms[k + 1], Top.local)
    BY <1>11, <1>13
  <2>2. k + 1 \in DOMAIN atoms /\ Top.local \in Position(Given)
    BY <1>2, <1>9, <1>12, <1>13
  <2>3. Top.local \in After(AtomSteps(Given, Derived(Given), atoms), k, Began)
    BY <1>10, <1>13
  <2> QED BY <2>1, <2>2, <2>3, AtomRead
<1>15. h.atom - 1 = k + 1 /\ h.atom <= Len(atoms) + 1
  <2>1. Len(atoms) \in Nat /\ DOMAIN atoms = 1 .. Len(atoms)
    BY <1>9 DEF GroupsOK, AtomsOK
  <2> QED BY <1>2, <1>4, <1>7, <1>9, <1>13, <2>1
<1>16. PatternReads(Given, atoms, h, Began)
  BY <1>7, <1>14, <1>15 DEF PatternReads
<1>17. FrameReads(Given, h, Began)
  BY <1>7, <1>8, <1>9, <1>12, <1>16 DEF FrameReads, CursorReads, Prod
<1> QED BY <1>1, <1>2, <1>3, <1>7, <1>17, ReplaceKeepsReading

(* A pattern that took a token is derived: its rule extends what it is.    *)
LEMMA PatternDoneKeepsReading ==
  ASSUME ControlInv, LanguageInv, PatternDone
  PROVE  LanguageInv'
<1>1. /\ Trying /\ Running /\ Top.prod # 0 /\ ~InGroup /\ Index > Len(Atoms)
      /\ UNCHANGED << grammar, tokens, building, returned, verdict >>
  BY DEF PatternDone, Trying
<1>2. /\ verdict = "running" /\ stack # << >> /\ returned' = NoResult
      /\ N \in Nat /\ Top \in Frame(N) /\ FrameOK(Rules, N, Top) /\ Top.local \in 0 .. N
      /\ Top.atom \in Nat
  BY <1>1, RunningFacts DEF Frame
<1>3. CASE \E lhs : TryNext(Top, lhs, Top.phase, Top.prod)
  BY <1>1, <1>2, <1>3, PatternFailsKeepsReading
<1>4. CASE Progress(Top) /\ \E lhs : TryNext([Top EXCEPT !.cursor = Top.local], lhs, "infix", 0)
  <2> DEFINE f == [Top EXCEPT !.cursor = Top.local]
  <2>1. f \in Frame(N) /\ f.rule = Top.rule /\ f.cursor = Top.local
    BY <1>2 DEF Frame
  <2>2. /\ Readable(Given) /\ Given.rules = Rules /\ Position(Given) = 0 .. N
        /\ Began \in 0 .. N /\ Began <= Top.cursor /\ Began \in Int
    BY <1>2, GivenFacts
  <2>3. Began < Top.local
    <3>1. Top.cursor <= Top.local /\ Top.cursor # Top.local
      BY <1>2, <1>4 DEF FrameOK, InOrder, Progress
    <3>2. Top.cursor \in Int /\ Top.local \in Int
      BY <1>2, FrameTypes
    <3> QED BY <2>2, <3>1, <3>2
  <2>4. PICK atoms : atoms = Prod.atoms
    OBVIOUS
  <2>5. /\ PatternReads(Given, atoms, Top, Began) /\ GroupsOK(atoms)
        /\ Top.prod \in DOMAIN Rules[Top.rule] /\ Top.rule \in DOMAIN Rules
    BY <1>1, <1>2, <2>4, TryingReads
  <2>6. Top.atom - 1 = Len(atoms)
    <3>1. Top.atom > Len(atoms) /\ Top.atom <= Len(atoms) + 1
      BY <1>1, <2>4, <2>5 DEF Index, Atoms, PatternReads
    <3>2. Len(atoms) \in Nat
      BY <2>5 DEF GroupsOK, AtomsOK
    <3> QED BY <1>2, <3>1, <3>2
  <2>7. Top.local \in PatternEnds(Given, Derived(Given), atoms, Began)
    BY <2>5, <2>6 DEF PatternReads, PatternEnds
  <2>8. << Top.rule, Began, Top.local >> \in Derived(Given)
    <3>1. atoms = Given.rules[Top.rule][Top.prod].atoms
      BY <2>2, <2>4 DEF Prod
    <3> QED BY <2>2, <2>3, <2>5, <2>7, <3>1, DerivedIsClosed
  <2>9. PICK lhs : TryNext(f, lhs, "infix", 0)
    BY <1>4
  <2> HIDE DEF f
  <2>10. << f.rule, Began, f.cursor >> \in Derived(Given)
    BY <2>1, <2>8
  <2> QED BY <1>1, <1>2, <2>1, <2>9, <2>10, TryNextKeepsReading
<1> QED BY <1>3, <1>4 DEF PatternDone

(* An activation returns what it has read.                                 *)
LEMMA ReturnKeepsReading ==
  ASSUME ControlInv, LanguageInv, Running, NEW result, Return(result),
         result.is = "matched" => << Top.rule, Began, result.cursor >> \in Derived(Given),
         UNCHANGED << grammar, tokens, building, verdict >>
  PROVE  LanguageInv'
<1>1. /\ verdict = "running" /\ stack # << >> /\ stack \in Seq(Frame(N)) /\ Top = Last(stack)
  BY RunningFacts, TopFacts DEF Top
<1>2. stack' = Front(stack) /\ returned' = result
  BY DEF Return
<1>3. StackReads(Given, First, stack)
  BY DEF LanguageInv
<1>4. /\ StackReads(Given, First, stack')
      /\ stack' = << >> => Began = 0 /\ Top.rule = First
      /\ stack' # << >> => /\ Began = Reached(Last(stack'))
                           /\ StandsAt(Given.rules, Last(stack'), Top.rule)
  BY <1>1, <1>2, <1>3, PopReads DEF Began
<1>5. result.is = "matched" => ReturnReads(Given, First, stack', result.cursor)
  <2> SUFFICES ASSUME result.is = "matched"
               PROVE  ReturnReads(Given, First, stack', result.cursor)
    OBVIOUS
  <2>1. CASE stack' = << >>
    BY <1>4, <2>1 DEF ReturnReads
  <2>2. CASE stack' # << >>
    BY <1>4, <2>2 DEF ReturnReads
  <2> QED BY <2>1, <2>2
<1>6. Given' = Given /\ First' = First
  BY DEF Given, First, Rules
<1>7. verdict' # "accepted"
  BY <1>1
<1> QED BY <1>2, <1>4, <1>5, <1>6, <1>7 DEF LanguageInv, AcceptsSentences

LEMMA NoProductionKeepsReading ==
  ASSUME ControlInv, LanguageInv, NoProduction
  PROVE  LanguageInv'
<1>1. Running /\ UNCHANGED << grammar, tokens, building, verdict >>
  BY DEF NoProduction
<1>2. PICK result : Return(result) /\ result.is = "failed"
  BY DEF NoProduction, NoResult
<1> QED BY <1>1, <1>2, ReturnKeepsReading

LEMMA NoExtensionKeepsReading ==
  ASSUME ControlInv, LanguageInv, NoExtension
  PROVE  LanguageInv'
<1>1. Running /\ Top.phase = "infix" /\ UNCHANGED << grammar, tokens, building, verdict >>
  BY DEF NoExtension
<1>2. stack # << >>
  BY <1>1, RunningFacts
<1>3. << Top.rule, Began, Top.cursor >> \in Derived(Given)
  BY <1>1, <1>2, GivenFacts DEF FrameReads, CursorReads
<1>4. PICK result : Return(result) /\ result.is = "matched" /\ result.cursor = Top.cursor
  BY DEF NoExtension
<1> QED BY <1>1, <1>3, <1>4, ReturnKeepsReading

(* The caller goes on behind what its atom derives.                        *)
LEMMA RuleReturnsKeepsReading ==
  ASSUME ControlInv, LanguageInv, RuleReturns
  PROVE  LanguageInv'
<1>1. /\ verdict = "running" /\ stack # << >> /\ returned' = NoResult
      /\ UNCHANGED << grammar, tokens, building, verdict >>
  BY DEF RuleReturns
<1>2. CASE returned.is = "matched"
  <2>1. PICK node : AtomMatches(node, returned.cursor)
    BY <1>2 DEF RuleReturns
  <2>2. ReturnReads(Given, First, stack, returned.cursor)
    BY <1>2 DEF LanguageInv
  <2>3. PICK r : StandsAt(Given.rules, Top, r) /\ << r, Reached(Top), returned.cursor >> \in Derived(Given)
    BY <1>1, <2>2 DEF ReturnReads, Top
  <2>4. Given.rules = Rules /\ Position(Given) = 0 .. N
    BY <1>1, GivenFacts
  <2>5. AtomsOf(Rules, Top) = Atoms /\ IndexOf(Top) = Index
    BY DEF AtomsOf, IndexOf, Atoms, Index, InGroup, Prod
  <2>6. /\ Top.prod # 0 /\ ~Top.repeat.over /\ Index \in DOMAIN Atoms
        /\ Atom.is = "rule" /\ Atom.what = r
    BY <2>3, <2>4, <2>5 DEF StandsAt, Atom
  <2>7. returned.cursor \in 0 .. N
    BY DEF ControlInv, ControlTypeOK, N
  <2>8. returned.cursor \in WordEnds(Given, Derived(Given), Atom, Reached(Top)) /\ Atom.is # "repeat"
    BY <2>3, <2>4, <2>6, <2>7 DEF WordEnds
  <2> QED BY <1>1, <2>1, <2>6, <2>8, AtomMatchesKeepsReading
<1>3. CASE returned.is # "matched"
  <2>1. AtomFails
    BY <1>3 DEF RuleReturns
  <2> QED BY <1>1, <2>1, AtomFailsKeepsReading
<1> QED BY <1>2, <1>3

(* What the start rule has read is what there is to be read.               *)
LEMMA FinishKeepsReading ==
  ASSUME ControlInv, LanguageInv, Finish
  PROVE  LanguageInv'
<1>1. /\ stack = << >> /\ verdict' \in {"accepted", "rejected"}
      /\ verdict' = "accepted" => returned.is = "matched" /\ returned.cursor = Len(tokens)
      /\ UNCHANGED << grammar, tokens, building, stack, returned >>
  BY DEF Finish
<1>2. Given' = Given /\ First' = First /\ Derivable' = Derivable
  BY <1>1 DEF Given, First, Rules, Derivable
<1>3. AcceptsSentences'
  <2> SUFFICES ASSUME verdict' = "accepted" PROVE Derivable
    BY <1>2 DEF AcceptsSentences
  <2>1. << First, 0, Len(tokens) >> \in Derived(Given)
    BY <1>1 DEF LanguageInv, ReturnReads
  <2> QED BY <2>1 DEF Derivable, First
<1> QED BY <1>1, <1>2, <1>3 DEF LanguageInv

LEMMA MatchStepKeepsReading ==
  ASSUME ControlInv, LanguageInv, MatchStep
  PROVE  LanguageInv'
  BY ReadTokenKeepsReading, CallRuleKeepsReading, OpenGroupKeepsReading, IterationDoneKeepsReading,
     CloseGroupKeepsReading, PatternDoneKeepsReading, NoProductionKeepsReading,
     NoExtensionKeepsReading, RuleReturnsKeepsReading, FinishKeepsReading
     DEF MatchStep

LEMMA MatchIdleKeepsReading ==
  ASSUME LanguageInv, UNCHANGED matchVars
  PROVE  LanguageInv'
<1>1. UNCHANGED << grammar, tokens, building, stack, returned, verdict >>
  BY DEF matchVars, control
<1>2. Given' = Given /\ First' = First /\ AcceptsSentences' = AcceptsSentences
  BY <1>1 DEF Given, First, Rules, AcceptsSentences, Derivable
<1> QED BY <1>1, <1>2 DEF LanguageInv

(* A parse has read nothing of its text, with the first rule.              *)
LEMMA ParseKeepsReading ==
  ASSUME NEW g \in DOMAIN File, Grammar[g].loads, NEW build \in BOOLEAN,
         NEW toks \in Seq([kind : STRING, lexeme : Seq(STRING)]), Parse(g, toks, build)
  PROVE  LanguageInv'
<1> DEFINE start == Grammar[g].start
           a == Activation(Grammar[g].rules, start, 0, 0, 0)
<1>1. /\ grammar' = g /\ building' = build /\ stack' = << a >> /\ returned' = NoResult
      /\ verdict' = "running"
      /\ tokens' = IF toks # << >> /\ Last(toks).kind = "EOF" THEN Front(toks) ELSE toks
  BY DEF Parse
<1>2. Len(tokens') \in Nat
  BY <1>1, FrontFacts
<1>3. PICK t : t = Given'
  OBVIOUS
<1>4. t.rules = Grammar[g].rules /\ t.tokens = tokens' /\ First' = start
  BY <1>1, <1>3 DEF Given, Rules, First
<1>5. Readable(t) /\ ExtensionsFit(t.rules) /\ start \in DOMAIN t.rules
  BY <1>2, <1>4, GrammarsWellFormed DEF Readable
<1>6. 0 \in Position(t) /\ 0 \in 0 .. MaxDepth /\ 0 \in Nat
  BY <1>2, <1>4, DepthAssumption DEF Position
<1>7. PICK bp \in Nat, cursor \in Position(t), depth \in 0 .. MaxDepth :
        bp = 0 /\ cursor = 0 /\ depth = 0
  BY <1>6
<1>8. a = Activation(t.rules, start, bp, cursor, depth)
  BY <1>4, <1>7
<1> HIDE DEF a, start
<1>9. FrameReads(t, a, cursor) /\ a.rule = start
  BY <1>5, <1>8, ActivationReads
<1>10. DOMAIN stack' = {1} /\ stack'[1] = a /\ From(stack', 1) = 0 /\ ~(1 > 1)
  BY <1>1 DEF From
<1>11. StackReads(t, First', stack')
  BY <1>4, <1>7, <1>9, <1>10 DEF StackReads
<1>12. returned'.is # "matched" /\ verdict' # "accepted"
  BY <1>1 DEF NoResult
<1> QED BY <1>3, <1>11, <1>12 DEF LanguageInv, AcceptsSentences

-----------------------------------------------------------------------------
(* What the invariant says of the parser. *)
LEMMA ControlImplies ==
  ASSUME ControlInv
  PROVE  ControlTypeOK /\ CursorsOrdered /\ RecursionBounded
<1>1. CursorsOrdered
  BY DEF ControlInv, CursorsOrdered, StackOK, FrameOK
<1>2. RecursionBounded
  <2>1. CASE stack = << >>
    <3>1. Len(stack) = 0
      BY <2>1
    <3> QED BY <3>1, DepthAssumption DEF RecursionBounded
  <2>2. CASE stack # << >>
    <3>1. /\ N \in Nat /\ Len(stack) \in Nat /\ Len(stack) \in DOMAIN stack
          /\ Top = stack[Len(stack)] /\ Top \in Frame(N) /\ StackOK(Rules, N, stack)
      BY <2>2, TopFacts
    <3>2. Top.depth >= 2 * (Len(stack) - 1)
      BY <3>1 DEF StackOK
    <3>3. Top.depth \in Int /\ Top.depth <= MaxDepth
      BY <3>1, FrameTypes, DepthAssumption
    <3>4. PICK d \in Int : d = Top.depth
      BY <3>3
    <3>5. d >= 2 * (Len(stack) - 1) /\ d <= MaxDepth /\ MaxDepth \in Int
      BY <3>2, <3>3, <3>4, DepthAssumption
    <3> QED BY <3>1, <3>5 DEF RecursionBounded
  <2> QED BY <2>1, <2>2
<1> QED BY <1>1, <1>2 DEF ControlInv

-----------------------------------------------------------------------------
(* Heaps *)

Origin == (STRING \cup {NoName}) \X Nat
Tree == [is : {"leaf", "group", "op", "overload"}, kids : Seq(Nat), at : Nat, by : Origin]

(* The nodes of a heap are made of nodes built before them. *)
HeapOK(heap) ==
  /\ heap \in Seq(Tree)
  /\ \A n \in DOMAIN heap : ToSet(heap[n].kids) \subseteq 1 .. n - 1

LEMMA HeapFacts ==
  ASSUME NEW heap, HeapOK(heap)
  PROVE  /\ Len(heap) \in Nat /\ DOMAIN heap = 1 .. Len(heap)
         /\ \A n \in DOMAIN heap :
              /\ heap[n].kids \in Seq(Nat) /\ heap[n] \in Tree
              /\ \A k \in DOMAIN heap[n].kids : heap[n].kids[k] \in 1 .. n - 1
<1>1. heap \in Seq(Tree)
  BY DEF HeapOK
<1>2. Len(heap) \in Nat /\ DOMAIN heap = 1 .. Len(heap) /\ \A n \in DOMAIN heap : heap[n] \in Tree
  BY <1>1
<1>3. \A t \in Tree : t.kids \in Seq(Nat)
  BY DEF Tree
<1>4. \A n \in DOMAIN heap : \A k \in DOMAIN heap[n].kids : heap[n].kids[k] \in ToSet(heap[n].kids)
  BY DEF ToSet
<1>5. \A n \in DOMAIN heap : ToSet(heap[n].kids) \subseteq 1 .. n - 1
  BY DEF HeapOK
<1> QED BY <1>2, <1>3, <1>4, <1>5

(* A node is added. *)
LEMMA HeapGrows ==
  ASSUME NEW heap, HeapOK(heap), NEW kids \in Seq(1 .. Len(heap)), NEW t \in Tree, t.kids = kids
  PROVE  HeapOK(Append(heap, t)) /\ Len(Append(heap, t)) = Len(heap) + 1
<1> DEFINE h == Append(heap, t)
<1>1. heap \in Seq(Tree) /\ Len(heap) \in Nat /\ DOMAIN heap = 1 .. Len(heap)
  BY HeapFacts DEF HeapOK
<1>2. /\ h \in Seq(Tree) /\ Len(h) = Len(heap) + 1
      /\ \A n \in 1 .. Len(heap) : h[n] = heap[n]
      /\ h[Len(heap) + 1] = t
  BY <1>1, AppendFacts
<1> HIDE DEF h
<1>3. \A n \in DOMAIN heap : ToSet(h[n].kids) \subseteq 1 .. n - 1
  BY <1>1, <1>2 DEF HeapOK
<1>4. ToSet(h[Len(heap) + 1].kids) \subseteq 1 .. (Len(heap) + 1) - 1
  <2>1. \A k \in DOMAIN kids : kids[k] \in 1 .. Len(heap)
    BY SeqIs
  <2>2. ToSet(kids) \subseteq 1 .. Len(heap)
    BY <2>1 DEF ToSet
  <2>3. 1 .. (Len(heap) + 1) - 1 = 1 .. Len(heap)
    BY <1>1
  <2> QED BY <1>2, <2>2, <2>3
<1>5. \A n \in DOMAIN h : n \in DOMAIN heap \/ n = Len(heap) + 1
  BY <1>1, <1>2
<1>6. \A n \in DOMAIN h : ToSet(h[n].kids) \subseteq 1 .. n - 1
  BY <1>3, <1>4, <1>5
<1> QED BY <1>2, <1>6 DEF HeapOK, h

(* What ast_free reaches from nodes of a heap is in the heap. *)
LEMMA BelowOK ==
  ASSUME NEW heap, HeapOK(heap), NEW ids \in SUBSET (1 .. Len(heap))
  PROVE  Below(heap, ids) \in SUBSET (1 .. Len(heap))
<1> DEFINE N0 == Len(heap)
           X == SUBSET (1 .. N0)
           Is(f) == f = [n \in DOMAIN heap |-> {n} \cup UNION {f[k] : k \in ToSet(heap[n].kids)}]
           G == [a \in (1 .. N0) \X Beginnings(X, N0) |->
                   {a[1]} \cup UNION {a[2][k] : k \in ToSet(heap[a[1]].kids) \cap DOMAIN a[2]}]
<1>1. N0 \in Nat /\ DOMAIN heap = 1 .. N0
  BY HeapFacts
<1>2. \A n \in 1 .. N0 : ToSet(heap[n].kids) \subseteq 1 .. n - 1
  BY <1>1 DEF HeapOK
<1>3. \A f : Is(f) => \A n \in 1 .. N0 : f[n] \in X
  <2> SUFFICES ASSUME NEW f, Is(f)
               PROVE  \A n \in 1 .. N0 : f[n] \in X
    BY Zenon
  <2> DEFINE T == {m \in Nat : \A n \in 1 .. N0 : n <= m => f[n] \in X}
  <2>0. \A n \in 1 .. N0 : f[n] = {n} \cup UNION {f[k] : k \in ToSet(heap[n].kids)}
    BY <1>1
  <2> HIDE DEF X, Is, N0
  <2>1. 0 \in T
    BY <1>1
  <2>2. ASSUME NEW m \in Nat, m \in T
        PROVE  m + 1 \in T
    <3>1. ASSUME NEW n \in 1 .. N0, n <= m + 1
          PROVE  f[n] \in X
      <4>1. \A k \in ToSet(heap[n].kids) : k \in 1 .. N0 /\ k <= m
        BY <1>1, <1>2, <3>1
      <4>2. \A k \in ToSet(heap[n].kids) : f[k] \in X
        BY <2>2, <4>1
      <4> QED BY <2>0, <4>2 DEF X
    <3>2. m + 1 \in Nat
      OBVIOUS
    <3> QED BY <3>1, <3>2
  <2> HIDE DEF T
  <2>3. \A m \in Nat : m \in T
    BY <2>1, <2>2, SetInduction
  <2>4. N0 \in T /\ \A n \in 1 .. N0 : n <= N0
    BY <1>1, <2>3
  <2> QED BY <2>4 DEF T
<1>4. \E f : Is(f)
  <2>1. G \in [(1 .. N0) \X Beginnings(X, N0) -> X]
    <3>1. ASSUME NEW n \in 1 .. N0, NEW r \in Beginnings(X, N0)
          PROVE  {n} \cup UNION {r[k] : k \in ToSet(heap[n].kids) \cap DOMAIN r} \in X
      <4>1. PICK m \in 0 .. N0 : r \in [1 .. m -> X]
        BY DEF Beginnings
      <4>2. \A k \in DOMAIN r : r[k] \in X
        BY <4>1
      <4>3. \A k \in DOMAIN r : r[k] \subseteq 1 .. N0
        BY <4>2
      <4>4. n \in 1 .. N0
        BY <3>1
      <4> HIDE DEF N0
      <4>5. {n} \cup UNION {r[k] : k \in ToSet(heap[n].kids) \cap DOMAIN r} \subseteq 1 .. N0
        BY <4>3, <4>4
      <4> QED BY <4>5
    <3> HIDE DEF X, N0
    <3> QED BY <3>1
  <2>2. PICK f \in [1 .. N0 -> X] : Follows(G, N0, f)
    <3> HIDE DEF G, N0, X
    <3> QED BY <1>1, <2>1, FollowExists
  <2>3. ASSUME NEW n \in 1 .. N0
        PROVE  f[n] = {n} \cup UNION {f[k] : k \in ToSet(heap[n].kids)}
    <3> DEFINE r == [k \in 1 .. n - 1 |-> f[k]]
    <3>1. f[n] = G[<< n, r >>]
      <4> HIDE DEF G, N0, X
      <4> QED BY <2>2 DEF Follows
    <3>2. r \in [1 .. n - 1 -> X] /\ n - 1 \in 0 .. N0
      BY <1>1
    <3>3. r \in Beginnings(X, N0)
      BY <3>2 DEF Beginnings
    <3>4. DOMAIN r = 1 .. n - 1 /\ \A k \in 1 .. n - 1 : r[k] = f[k]
      OBVIOUS
    <3> HIDE DEF r, X, N0
    <3>5. G[<< n, r >>] = {n} \cup UNION {r[k] : k \in ToSet(heap[n].kids) \cap DOMAIN r}
      BY <3>3
    <3>6. ToSet(heap[n].kids) \cap DOMAIN r = ToSet(heap[n].kids)
      BY <1>2, <3>4
    <3>7. {r[k] : k \in ToSet(heap[n].kids)} = {f[k] : k \in ToSet(heap[n].kids)}
      BY <1>2, <3>4
    <3> QED BY <3>1, <3>5, <3>6, <3>7
  <2>4. Is(f)
    <3> HIDE DEF G, N0, X
    <3> QED BY <1>1, <2>2, <2>3
  <2> QED BY <2>4
<1>5. Below(heap, ids) = UNION {(CHOOSE f : Is(f))[n] : n \in ids}
  BY DEF Below
<1>6. PICK f : Is(f) /\ Below(heap, ids) = UNION {f[n] : n \in ids}
  BY <1>4, <1>5
<1> HIDE DEF Is
<1>7. \A n \in ids : f[n] \in X
  BY <1>3, <1>6
<1> QED BY <1>6, <1>7

(* The nodes that groups dissolve into are in the heap. *)
LEMMA FlattenedOK ==
  ASSUME NEW heap, HeapOK(heap), NEW ids \in Seq(1 .. Len(heap))
  PROVE  Flattened(heap, ids) \in Seq(1 .. Len(heap))
<1> DEFINE N0 == Len(heap)
           X == Seq(1 .. N0)
           Kids(f, n) == [k \in DOMAIN heap[n].kids |-> f[heap[n].kids[k]]]
           Is(f) == f = [n \in DOMAIN heap |->
                           IF heap[n].is # "group" THEN << n >> ELSE FlattenSeq(Kids(f, n))]
           G == [a \in (1 .. N0) \X Beginnings(X, N0) |->
                   IF heap[a[1]].is # "group" THEN << a[1] >>
                   ELSE IF DOMAIN a[2] = 1 .. a[1] - 1 THEN FlattenSeq(Kids(a[2], a[1]))
                   ELSE << >>]
<1>1. N0 \in Nat /\ DOMAIN heap = 1 .. N0
  BY HeapFacts
<1>2. \A n \in 1 .. N0 : \A k \in DOMAIN heap[n].kids : heap[n].kids[k] \in 1 .. n - 1
  BY <1>1, HeapFacts
<1>3. ASSUME NEW f, NEW n \in 1 .. N0, \A j \in 1 .. n - 1 : f[j] \in X
      PROVE  FlattenSeq(Kids(f, n)) \in X
  <2>1. PICK L \in Nat : DOMAIN heap[n].kids = 1 .. L
    <3>1. heap[n].kids \in Seq(Nat)
      BY <1>1, HeapFacts
    <3> QED BY <3>1
  <2>2. \A k \in 1 .. L : f[heap[n].kids[k]] \in X
    BY <1>2, <1>3, <2>1
  <2>3. Kids(f, n) \in [1 .. L -> X]
    BY <2>1, <2>2
  <2> HIDE DEF Kids
  <2>4. Kids(f, n) \in Seq(X)
    BY <2>3
  <2> HIDE DEF N0
  <2> QED BY <2>4, FlattenSeqIs
<1>4. \A n \in 1 .. N0 : << n >> \in X
  OBVIOUS
<1>5. \A f : Is(f) => \A n \in 1 .. N0 : f[n] \in X
  <2> SUFFICES ASSUME NEW f, Is(f)
               PROVE  \A n \in 1 .. N0 : f[n] \in X
    BY Zenon
  <2> DEFINE T == {m \in Nat : \A n \in 1 .. N0 : n <= m => f[n] \in X}
  <2> HIDE DEF Kids
  <2>0. \A n \in 1 .. N0 : f[n] = IF heap[n].is # "group" THEN << n >> ELSE FlattenSeq(Kids(f, n))
    BY <1>1
  <2> HIDE DEF X, Is, N0
  <2>1. 0 \in T
    BY <1>1
  <2>2. ASSUME NEW m \in Nat, m \in T
        PROVE  m + 1 \in T
    <3>1. ASSUME NEW n \in 1 .. N0, n <= m + 1
          PROVE  f[n] \in X
      <4>1. \A j \in 1 .. n - 1 : j \in 1 .. N0 /\ j <= m
        BY <1>1, <3>1
      <4>2. \A j \in 1 .. n - 1 : f[j] \in X
        BY <2>2, <4>1
      <4>3. FlattenSeq(Kids(f, n)) \in X
        BY <1>3, <4>2
      <4> QED BY <1>4, <2>0, <4>3
    <3>2. m + 1 \in Nat
      OBVIOUS
    <3> QED BY <3>1, <3>2
  <2> HIDE DEF T
  <2>3. \A m \in Nat : m \in T
    BY <2>1, <2>2, SetInduction
  <2>4. N0 \in T /\ \A n \in 1 .. N0 : n <= N0
    BY <1>1, <2>3
  <2> QED BY <2>4 DEF T
<1>6. \E f : Is(f)
  <2>1. G \in [(1 .. N0) \X Beginnings(X, N0) -> X]
    <3>1. ASSUME NEW n \in 1 .. N0, NEW r \in Beginnings(X, N0)
          PROVE  DOMAIN r = 1 .. n - 1 => FlattenSeq(Kids(r, n)) \in X
      <4>1. PICK m \in 0 .. N0 : r \in [1 .. m -> X]
        BY DEF Beginnings
      <4>2. \A k \in DOMAIN r : r[k] \in X
        BY <4>1
      <4> HIDE DEF X, Kids, N0
      <4> QED BY <1>3, <4>2
    <3>2. << >> \in X
      OBVIOUS
    <3> HIDE DEF X, N0, Kids
    <3> QED BY <1>4, <3>1, <3>2
  <2>2. PICK f \in [1 .. N0 -> X] : Follows(G, N0, f)
    <3> HIDE DEF G, N0, X
    <3> QED BY <1>1, <2>1, FollowExists
  <2>3. ASSUME NEW n \in 1 .. N0
        PROVE  f[n] = IF heap[n].is # "group" THEN << n >> ELSE FlattenSeq(Kids(f, n))
    <3> DEFINE r == [k \in 1 .. n - 1 |-> f[k]]
    <3>1. f[n] = G[<< n, r >>]
      <4> HIDE DEF G, N0, X
      <4> QED BY <2>2 DEF Follows
    <3>2. r \in [1 .. n - 1 -> X] /\ n - 1 \in 0 .. N0
      BY <1>1
    <3>3. r \in Beginnings(X, N0)
      BY <3>2 DEF Beginnings
    <3>4. DOMAIN r = 1 .. n - 1 /\ \A k \in 1 .. n - 1 : r[k] = f[k]
      OBVIOUS
    <3>6. Kids(r, n) = Kids(f, n)
      BY <1>2, <3>4
    <3> HIDE DEF r, X, N0, Kids
    <3>5. G[<< n, r >>] = IF heap[n].is # "group" THEN << n >> ELSE FlattenSeq(Kids(r, n))
      BY <3>3, <3>4
    <3> QED BY <3>1, <3>5, <3>6
  <2>4. Is(f)
    <3> HIDE DEF G, N0, X, Kids
    <3> QED BY <1>1, <2>2, <2>3
  <2> QED BY <2>4
<1>7. Flattened(heap, ids) = FlattenSeq([k \in DOMAIN ids |-> (CHOOSE f : Is(f))[ids[k]]])
  BY DEF Flattened
<1>8. PICK f : Is(f) /\ Flattened(heap, ids) = FlattenSeq([k \in DOMAIN ids |-> f[ids[k]]])
  BY <1>6, <1>7
<1> HIDE DEF Is
<1>9. \A k \in DOMAIN ids : f[ids[k]] \in X
  <2>1. \A k \in DOMAIN ids : ids[k] \in 1 .. N0
    BY SeqIs
  <2> QED BY <1>5, <1>8, <2>1
<1>10. [k \in DOMAIN ids |-> f[ids[k]]] \in Seq(X)
  <2>1. PICK L \in Nat : DOMAIN ids = 1 .. L
    OBVIOUS
  <2> HIDE DEF X
  <2>2. [k \in DOMAIN ids |-> f[ids[k]]] \in [1 .. L -> X]
    BY <1>9, <2>1
  <2> QED BY <2>2
<1>11. FlattenSeq([k \in DOMAIN ids |-> f[ids[k]]]) \in X
  <2> HIDE DEF N0
  <2> QED BY <1>10, FlattenSeqIs
<1> QED BY <1>8, <1>11

-----------------------------------------------------------------------------
(* Templates *)

LEMMA SeqWider ==
  ASSUME NEW M \in Nat, NEW K \in Nat, M <= K, NEW s \in Seq(1 .. M)
  PROVE  s \in Seq(1 .. K)
<1>1. Len(s) \in Nat /\ DOMAIN s = 1 .. Len(s) /\ \A i \in DOMAIN s : s[i] \in 1 .. M
  BY SeqIs
<1>2. \A i \in 1 .. M : i \in 1 .. K
  OBVIOUS
<1>3. s = [i \in 1 .. Len(s) |-> s[i]] /\ \A i \in 1 .. Len(s) : s[i] \in 1 .. K
  BY <1>1, <1>2
<1> QED BY <1>1, <1>3

LEMMA KidsAreNat ==
  ASSUME NEW K \in Nat, NEW s \in Seq(1 .. K)
  PROVE  s \in Seq(Nat)
<1>1. Len(s) \in Nat /\ DOMAIN s = 1 .. Len(s) /\ \A i \in DOMAIN s : s[i] \in 1 .. K
  BY SeqIs
<1>2. s = [i \in 1 .. Len(s) |-> s[i]] /\ \A i \in 1 .. Len(s) : s[i] \in Nat
  BY <1>1
<1> QED BY <1>1, <1>2

LEMMA GroupIsTree ==
  ASSUME NEW kids \in Seq(Nat)
  PROVE  GroupNode(kids) \in Tree /\ GroupNode(kids).kids = kids
  BY DEF GroupNode, Tree, Origin

(* A tree under construction over at least M nodes. *)
UnderWay(M) ==
  {b \in [ok : BOOLEAN, heap : Seq(Tree), kids : Seq(Nat)] :
     HeapOK(b.heap) /\ Len(b.heap) >= M /\ b.kids \in Seq(1 .. Len(b.heap))}

LEMMA UnderWayIs ==
  ASSUME NEW M, NEW ok \in BOOLEAN, NEW heap, HeapOK(heap), Len(heap) >= M,
         NEW kids \in Seq(1 .. Len(heap))
  PROVE  [ok |-> ok, heap |-> heap, kids |-> kids] \in UnderWay(M)
<1>1. kids \in Seq(Nat)
  BY HeapFacts, KidsAreNat
<1> QED BY <1>1 DEF UnderWay, HeapOK

LEMMA UnderWayChanges ==
  ASSUME NEW M, NEW b \in UnderWay(M), NEW h, HeapOK(h), Len(h) >= M, NEW s \in Seq(1 .. Len(h))
  PROVE  /\ [b EXCEPT !.ok = FALSE] \in UnderWay(M)
         /\ [b EXCEPT !.heap = h, !.kids = s] \in UnderWay(M)
         /\ h = b.heap => [b EXCEPT !.kids = s] \in UnderWay(M)
<1> DEFINE R == [ok : BOOLEAN, heap : Seq(Tree), kids : Seq(Nat)]
<1>1. b \in R /\ s \in Seq(Nat) /\ h \in Seq(Tree)
  BY HeapFacts, KidsAreNat DEF UnderWay, HeapOK
<1>2. [b EXCEPT !.ok = FALSE] \in UnderWay(M)
  <2>1. PICK c : c = [b EXCEPT !.ok = FALSE]
    OBVIOUS
  <2>2. c \in R
    BY <1>1, <2>1
  <2>3. c.heap = b.heap /\ c.kids = b.kids
    BY <1>1, <2>1
  <2> HIDE DEF R
  <2>4. HeapOK(c.heap) /\ Len(c.heap) >= M /\ c.kids \in Seq(1 .. Len(c.heap))
    BY <2>3 DEF UnderWay
  <2> QED BY <2>1, <2>2, <2>4 DEF UnderWay, R
<1>3. [b EXCEPT !.heap = h, !.kids = s] \in UnderWay(M)
  <2>1. PICK c : c = [b EXCEPT !.heap = h, !.kids = s]
    OBVIOUS
  <2>2. c \in R
    BY <1>1, <2>1
  <2>3. c.heap = h /\ c.kids = s
    BY <1>1, <2>1
  <2> HIDE DEF R
  <2>4. HeapOK(c.heap) /\ Len(c.heap) >= M /\ c.kids \in Seq(1 .. Len(c.heap))
    BY <2>3
  <2> QED BY <2>1, <2>2, <2>4 DEF UnderWay, R
<1>4. ASSUME h = b.heap
      PROVE  [b EXCEPT !.kids = s] \in UnderWay(M)
  <2>1. PICK c : c = [b EXCEPT !.kids = s]
    OBVIOUS
  <2>2. c \in R
    BY <1>1, <2>1
  <2>3. c.heap = h /\ c.kids = s
    BY <1>1, <1>4, <2>1
  <2> HIDE DEF R
  <2>4. HeapOK(c.heap) /\ Len(c.heap) >= M /\ c.kids \in Seq(1 .. Len(c.heap))
    BY <2>3
  <2> QED BY <2>1, <2>2, <2>4 DEF UnderWay, R
<1> QED BY <1>2, <1>3, <1>4

LEMMA AddArgumentOK ==
  ASSUME NEW M \in Nat, NEW captures \in [CaptureName -> Seq(1 .. M)],
         NEW b \in UnderWay(M), NEW arg \in Argument
  PROVE  AddArgument(captures, b, arg) \in UnderWay(M)
<1>1. HeapOK(b.heap) /\ Len(b.heap) >= M /\ b.kids \in Seq(1 .. Len(b.heap))
  BY DEF UnderWay
<1>2. PICK K \in Nat : K = Len(b.heap)
  BY <1>1, HeapFacts
<1>3. PICK ns : ns = IF arg.how = "delim" THEN << >> ELSE captures[arg.name]
  OBVIOUS
<1>4. ns \in Seq(1 .. K)
  <2>1. CASE arg.how = "delim"
    <3>1. << >> \in Seq(1 .. K)
      OBVIOUS
    <3> QED BY <1>3, <2>1, <3>1, Zenon
  <2>2. CASE arg.how # "delim"
    <3>1. arg.name \in CaptureName
      BY <2>2 DEF Argument
    <3>2. captures[arg.name] \in Seq(1 .. M) /\ M <= K
      BY <1>1, <1>2, <3>1
    <3>3. captures[arg.name] \in Seq(1 .. K)
      BY <3>2, SeqWider
    <3> QED BY <1>3, <2>2, <3>3, Zenon
  <2> QED BY <2>1, <2>2
<1>5. PICK g : g = GroupNode(ns)
  OBVIOUS
<1>6. PICK h, s, s1, s2 : /\ h = Append(b.heap, g) /\ s = Append(b.kids, Len(b.heap) + 1)
                          /\ s1 = Append(b.kids, ns[1]) /\ s2 = b.kids \o Flattened(b.heap, ns)
  OBVIOUS
<1>7. \/ AddArgument(captures, b, arg) = b
      \/ AddArgument(captures, b, arg) = [b EXCEPT !.ok = FALSE]
      \/ AddArgument(captures, b, arg) = [b EXCEPT !.kids = s2]
      \/ Len(ns) = 1 /\ AddArgument(captures, b, arg) = [b EXCEPT !.kids = s1]
      \/ AddArgument(captures, b, arg) = [b EXCEPT !.heap = h, !.kids = s]
  BY <1>3, <1>5, <1>6, Zenon DEF AddArgument
<1>8. [b EXCEPT !.ok = FALSE] \in UnderWay(M)
  BY <1>1, UnderWayChanges
<1>9. [b EXCEPT !.kids = s2] \in UnderWay(M)
  <2>1. PICK fl \in Seq(1 .. K) : fl = Flattened(b.heap, ns)
    BY <1>1, <1>2, <1>4, FlattenedOK
  <2>2. PICK ks \in Seq(1 .. K) : ks = b.kids
    BY <1>1, <1>2
  <2>3. ks \o fl \in Seq(1 .. K)
    OBVIOUS
  <2>4. s2 \in Seq(1 .. Len(b.heap))
    BY <1>2, <1>6, <2>1, <2>2, <2>3
  <2> QED BY <1>1, <2>4, UnderWayChanges
<1>10. ASSUME Len(ns) = 1
       PROVE  [b EXCEPT !.kids = s1] \in UnderWay(M)
  <2>1. PICK n \in 1 .. K : n = ns[1]
    BY <1>4, <1>10
  <2>2. PICK ks \in Seq(1 .. K) : ks = b.kids
    BY <1>1, <1>2
  <2>3. Append(ks, n) \in Seq(1 .. K)
    OBVIOUS
  <2>4. s1 \in Seq(1 .. Len(b.heap))
    BY <1>2, <1>6, <2>1, <2>2, <2>3
  <2> QED BY <1>1, <2>4, UnderWayChanges
<1>11. [b EXCEPT !.heap = h, !.kids = s] \in UnderWay(M)
  <2>1. g \in Tree /\ g.kids = ns
    BY <1>4, <1>5, KidsAreNat, GroupIsTree
  <2>2. HeapOK(h) /\ Len(h) = K + 1
    BY <1>1, <1>2, <1>4, <1>6, <2>1, HeapGrows
  <2>3. K + 1 \in Nat /\ K <= K + 1 /\ K + 1 \in 1 .. K + 1
    OBVIOUS
  <2>4. PICK ks \in Seq(1 .. K + 1) : ks = b.kids
    BY <1>1, <1>2, <2>3, SeqWider
  <2>5. Append(ks, K + 1) \in Seq(1 .. K + 1)
    BY <2>3
  <2>6. s \in Seq(1 .. Len(h))
    BY <1>2, <1>6, <2>2, <2>4, <2>5
  <2>7. Len(h) >= M
    BY <1>1, <1>2, <2>2
  <2> QED BY <2>2, <2>6, <2>7, UnderWayChanges
<1> QED BY <1>7, <1>8, <1>9, <1>10, <1>11, Zenon

LEMMA ArgumentsOK ==
  ASSUME NEW M \in Nat, NEW captures \in [CaptureName -> Seq(1 .. M)],
         NEW b \in UnderWay(M), NEW c \in Seq(Argument)
  PROVE  FoldLeft(LAMBDA acc, arg : AddArgument(captures, acc, arg), b, c) \in UnderWay(M)
<1> DEFINE X == UnderWay(M)
           F == [a \in X \X Argument |-> AddArgument(captures, a[1], a[2])]
           Is(g) == g = [s \in SUBSET DOMAIN c |->
                          IF s = {} THEN b ELSE AddArgument(captures, g[s \ {Max(s)}], c[Max(s)])]
<1>1. b \in X
  OBVIOUS
<1>2. F \in [X \X Argument -> X]
  BY AddArgumentOK
<1>3. FoldLeft(LAMBDA acc, arg : AddArgument(captures, acc, arg), b, c) = (CHOOSE g : Is(g))[DOMAIN c]
  BY DEF FoldLeft, MapThenFoldSet
<1>4. \A p \in X : \A w \in Argument : F[<< p, w >>] = AddArgument(captures, p, w)
  OBVIOUS
<1> HIDE DEF F, X
<1>5. \E f : Is(f)
  <2>1. PICK f : Computes(F, X, Argument, b, c, f)
    BY <1>1, <1>2, FoldComputed
  <2>2. Is(f)
    BY <1>4, <2>1 DEF Computes
  <2> QED BY <2>2
<1>6. PICK g : Is(g) /\ FoldLeft(LAMBDA acc, arg : AddArgument(captures, acc, arg), b, c) = g[DOMAIN c]
  BY <1>3, <1>5
<1>7. StepsWith(F, X, Argument, b, c, g)
  BY <1>4, <1>6 DEF StepsWith
<1> HIDE DEF Is
<1>8. g[DOMAIN c] \in X
  BY <1>1, <1>2, <1>7, FoldStays
<1> QED BY <1>6, <1>8 DEF X

(* What a template gives over a heap of at least M nodes. *)
Built(M, r) ==
  /\ HeapOK(r.heap) /\ Len(r.heap) >= M
  /\ r.node \in 0 .. Len(r.heap) /\ r.freed \subseteq 1 .. Len(r.heap)

LEMMA TemplateOK ==
  ASSUME NEW M \in Nat, NEW captures \in [CaptureName -> Seq(1 .. M)], NEW t \in OpTemplate,
         NEW heap, HeapOK(heap), Len(heap) >= M, NEW by \in Origin
  PROVE  \A r : r = Template(t, captures, heap, by) => Built(M, r)
<1> DEFINE b == FoldLeft(LAMBDA acc, arg : AddArgument(captures, acc, arg),
                         [ok |-> TRUE, heap |-> heap, kids |-> << >>], t.args)
           root == [is |-> IF t.op = "$group" THEN "group" ELSE "op", kids |-> b.kids, at |-> 0, by |-> by]
<1>1. t.args \in Seq(Argument)
  BY DEF OpTemplate
<1>2. [ok |-> TRUE, heap |-> heap, kids |-> << >>] \in UnderWay(M)
  <2>1. << >> \in Seq(1 .. Len(heap))
    OBVIOUS
  <2> QED BY <2>1, UnderWayIs
<1>3. b \in UnderWay(M)
  BY <1>1, <1>2, ArgumentsOK
<1>4. \A r : r = Template(t, captures, heap, by) =>
        \/ r = [node |-> NoNode, heap |-> heap, freed |-> {}]
        \/ r = [node |-> Len(b.heap) + 1, heap |-> Append(b.heap, root), freed |-> {}]
        \/ r = [node |-> NoNode, heap |-> b.heap, freed |-> Below(b.heap, ToSet(b.kids))]
  BY DEF Template
<1> HIDE DEF b
<1>5. HeapOK(b.heap) /\ Len(b.heap) >= M /\ b.kids \in Seq(1 .. Len(b.heap)) /\ b.kids \in Seq(Nat)
  BY <1>3 DEF UnderWay
<1>6. Len(heap) \in Nat /\ Len(b.heap) \in Nat
  BY <1>5, HeapFacts
<1>7. root \in Tree /\ root.kids = b.kids
  BY <1>5 DEF Tree
<1> HIDE DEF root
<1>8. HeapOK(Append(b.heap, root)) /\ Len(Append(b.heap, root)) = Len(b.heap) + 1
  BY <1>5, <1>7, HeapGrows
<1>9. Below(b.heap, ToSet(b.kids)) \in SUBSET (1 .. Len(b.heap))
  <2>1. \A k \in DOMAIN b.kids : b.kids[k] \in 1 .. Len(b.heap)
    BY <1>5, SeqIs
  <2>2. ToSet(b.kids) \in SUBSET (1 .. Len(b.heap))
    BY <2>1 DEF ToSet
  <2> QED BY <1>5, <2>2, BelowOK
<1>10. Built(M, [node |-> NoNode, heap |-> heap, freed |-> {}])
  BY <1>6 DEF Built, NoNode
<1>11. Built(M, [node |-> Len(b.heap) + 1, heap |-> Append(b.heap, root), freed |-> {}])
  <2>1. Len(b.heap) + 1 >= M /\ Len(b.heap) + 1 \in 0 .. Len(b.heap) + 1
    BY <1>5, <1>6
  <2> QED BY <1>8, <2>1 DEF Built
<1>12. Built(M, [node |-> NoNode, heap |-> b.heap, freed |-> Below(b.heap, ToSet(b.kids))])
  BY <1>5, <1>6, <1>9 DEF Built, NoNode
<1> QED BY <1>4, <1>10, <1>11, <1>12

(* Candidates of an overload over at least M nodes. *)
Candidates(M) ==
  {b \in [ok : BOOLEAN, heap : Seq(Tree), kids : Seq(Nat)] :
     HeapOK(b.heap) /\ Len(b.heap) >= M /\ (b.ok => b.kids \in Seq(1 .. Len(b.heap)))}

LEMMA AddCandidateOK ==
  ASSUME NEW M \in Nat, NEW captures \in [CaptureName -> Seq(1 .. M)], NEW by \in Origin,
         NEW b \in Candidates(M), NEW t \in OpTemplate
  PROVE  AddCandidate(captures, by, b, t) \in Candidates(M)
<1>1. HeapOK(b.heap) /\ Len(b.heap) >= M /\ b.ok \in BOOLEAN /\ b.kids \in Seq(Nat)
      /\ (b.ok => b.kids \in Seq(1 .. Len(b.heap)))
  BY DEF Candidates
<1>2. Len(b.heap) \in Nat
  BY <1>1, HeapFacts
<1>3. PICK K \in Nat : K = Len(b.heap)
  BY <1>2
<1>4. captures \in [CaptureName -> Seq(1 .. K)]
  <2>1. M <= K
    BY <1>1, <1>3
  <2>2. \A n \in CaptureName : captures[n] \in Seq(1 .. K)
    BY <2>1, SeqWider
  <2> QED BY <2>2
<1>5. PICK c : c = Template(t, captures, b.heap, by)
  OBVIOUS
<1>6. Built(K, c)
  <2>1. Len(b.heap) >= K
    BY <1>2, <1>3
  <2> QED BY <1>1, <1>4, <1>5, <2>1, TemplateOK
<1>7. HeapOK(c.heap) /\ Len(c.heap) >= K /\ c.node \in 0 .. Len(c.heap) /\ Len(c.heap) \in Nat
  BY <1>6, HeapFacts DEF Built
<1>8. Append(b.kids, c.node) \in Seq(Nat)
  <2>1. c.node \in Nat
    BY <1>7
  <2> QED BY <1>1, <2>1
<1>9. ASSUME b.ok, c.node # NoNode
      PROVE  Append(b.kids, c.node) \in Seq(1 .. Len(c.heap))
  <2>1. b.kids \in Seq(1 .. K) /\ K <= Len(c.heap)
    BY <1>1, <1>3, <1>7, <1>9
  <2>2. b.kids \in Seq(1 .. Len(c.heap))
    BY <1>7, <2>1, SeqWider
  <2>3. c.node \in 1 .. Len(c.heap)
    BY <1>7, <1>9 DEF NoNode
  <2> QED BY <2>2, <2>3
<1>10. CASE ~b.ok
  BY <1>10 DEF AddCandidate
<1>11. CASE b.ok
  <2>1. AddCandidate(captures, by, b, t) =
          [heap |-> c.heap, ok |-> c.node # NoNode, kids |-> Append(b.kids, c.node)]
    BY <1>5, <1>11 DEF AddCandidate
  <2>2. PICK ok \in BOOLEAN : ok <=> c.node # NoNode
    BY Zenon
  <2>3. AddCandidate(captures, by, b, t) =
          [heap |-> c.heap, ok |-> ok, kids |-> Append(b.kids, c.node)]
    BY <2>1, <2>2
  <2>4. PICK s \in Seq(Nat) : s = Append(b.kids, c.node)
    BY <1>8
  <2>5. c.heap \in Seq(Tree) /\ Len(c.heap) >= M
    BY <1>1, <1>3, <1>7 DEF HeapOK
  <2>6. ok => s \in Seq(1 .. Len(c.heap))
    BY <1>9, <1>11, <2>2, <2>4
  <2>7. PICK r : r = [heap |-> c.heap, ok |-> ok, kids |-> s]
    OBVIOUS
  <2>8. r \in [ok : BOOLEAN, heap : Seq(Tree), kids : Seq(Nat)]
    BY <2>5, <2>7
  <2>9. r.heap = c.heap /\ r.kids = s /\ (r.ok <=> ok)
    BY <2>7
  <2>10. r \in Candidates(M)
    BY <1>7, <2>5, <2>6, <2>8, <2>9, Zenon DEF Candidates
  <2> QED BY <2>3, <2>4, <2>7, <2>10, Zenon
<1> QED BY <1>10, <1>11

LEMMA CandidatesOK ==
  ASSUME NEW M \in Nat, NEW captures \in [CaptureName -> Seq(1 .. M)], NEW by \in Origin,
         NEW b \in Candidates(M), NEW c \in Seq(OpTemplate)
  PROVE  FoldLeft(LAMBDA acc, t : AddCandidate(captures, by, acc, t), b, c) \in Candidates(M)
<1> DEFINE X == Candidates(M)
           F == [a \in X \X OpTemplate |-> AddCandidate(captures, by, a[1], a[2])]
           Is(g) == g = [s \in SUBSET DOMAIN c |->
                          IF s = {} THEN b ELSE AddCandidate(captures, by, g[s \ {Max(s)}], c[Max(s)])]
<1>1. b \in X
  OBVIOUS
<1>2. F \in [X \X OpTemplate -> X]
  BY AddCandidateOK
<1>3. FoldLeft(LAMBDA acc, t : AddCandidate(captures, by, acc, t), b, c) = (CHOOSE g : Is(g))[DOMAIN c]
  BY DEF FoldLeft, MapThenFoldSet
<1>4. \A p \in X : \A w \in OpTemplate : F[<< p, w >>] = AddCandidate(captures, by, p, w)
  OBVIOUS
<1> HIDE DEF F, X
<1>5. \E f : Is(f)
  <2>1. PICK f : Computes(F, X, OpTemplate, b, c, f)
    BY <1>1, <1>2, FoldComputed
  <2>2. Is(f)
    BY <1>4, <2>1 DEF Computes
  <2> QED BY <2>2
<1>6. PICK g : Is(g) /\ FoldLeft(LAMBDA acc, t : AddCandidate(captures, by, acc, t), b, c) = g[DOMAIN c]
  BY <1>3, <1>5
<1>7. StepsWith(F, X, OpTemplate, b, c, g)
  BY <1>4, <1>6 DEF StepsWith
<1> HIDE DEF Is
<1>8. g[DOMAIN c] \in X
  BY <1>1, <1>2, <1>7, FoldStays
<1> QED BY <1>6, <1>8 DEF X

LEMMA OverloadOK ==
  ASSUME NEW M \in Nat, NEW captures \in [CaptureName -> Seq(1 .. M)], NEW by \in Origin,
         NEW heap, HeapOK(heap), Len(heap) >= M, NEW ts \in Seq(OpTemplate)
  PROVE  \A r : r = Overload(ts, captures, heap, by) => Built(M, r)
<1> DEFINE b == FoldLeft(LAMBDA acc, t : AddCandidate(captures, by, acc, t),
                         [ok |-> TRUE, heap |-> heap, kids |-> << >>], ts)
           root == [is |-> "overload", kids |-> b.kids, at |-> 0, by |-> by]
<1>1. [ok |-> TRUE, heap |-> heap, kids |-> << >>] \in Candidates(M)
  <2>1. << >> \in Seq(1 .. Len(heap)) /\ << >> \in Seq(Nat)
    OBVIOUS
  <2> QED BY <2>1 DEF Candidates, HeapOK
<1>2. b \in Candidates(M)
  BY <1>1, CandidatesOK
<1>3. \A r : r = Overload(ts, captures, heap, by) =>
        \/ b.ok /\ r = [node |-> Len(b.heap) + 1, freed |-> {}, heap |-> Append(b.heap, root)]
        \/ r = [node |-> NoNode, heap |-> b.heap, freed |-> {}]
  BY DEF Overload
<1> HIDE DEF b
<1>4. /\ HeapOK(b.heap) /\ Len(b.heap) >= M /\ (b.ok => b.kids \in Seq(1 .. Len(b.heap)))
      /\ b.kids \in Seq(Nat)
  BY <1>2 DEF Candidates
<1>5. Len(b.heap) \in Nat
  BY <1>4, HeapFacts
<1>6. root \in Tree /\ root.kids = b.kids
  BY <1>4 DEF Tree
<1> HIDE DEF root
<1>7. ASSUME b.ok
      PROVE  Built(M, [node |-> Len(b.heap) + 1, freed |-> {}, heap |-> Append(b.heap, root)])
  <2>1. HeapOK(Append(b.heap, root)) /\ Len(Append(b.heap, root)) = Len(b.heap) + 1
    BY <1>4, <1>6, <1>7, HeapGrows
  <2>2. Len(b.heap) + 1 >= M /\ Len(b.heap) + 1 \in 0 .. Len(b.heap) + 1
    BY <1>4, <1>5
  <2> QED BY <2>1, <2>2 DEF Built
<1>8. Built(M, [node |-> NoNode, heap |-> b.heap, freed |-> {}])
  BY <1>4, <1>5 DEF Built, NoNode
<1> QED BY <1>3, <1>7, <1>8

-----------------------------------------------------------------------------
(* What an activation holds *)

(* Nodes among the first M. *)
Holding(M) ==
  [lhs : 0 .. M, first : 0 .. M, subs : Seq(1 .. M), groups : Seq(1 .. M),
   captures : [CaptureName -> Seq(1 .. M)]]

(* All that is held, freed or returned are nodes that were built.  While a *)
(* tree is built, an activation that extends its match has a left operand, *)
(* and one that has matched returns a node.                                *)
DataInv ==
  /\ HeapOK(nodes)
  /\ held \in Seq(Holding(Len(nodes))) /\ Len(held) = Len(stack)
  /\ returned.node \in 0 .. Len(nodes)
  /\ freed \subseteq 1 .. Len(nodes)
  /\ building => /\ \A i \in DOMAIN stack : stack[i].phase = "infix" => held[i].lhs # NoNode
                 /\ returned.is = "matched" => returned.node # NoNode

LEMMA HoldingWider ==
  ASSUME NEW M \in Nat, NEW K \in Nat, M <= K, NEW h \in Holding(M)
  PROVE  h \in Holding(K)
<1>1. h.subs \in Seq(1 .. K) /\ h.groups \in Seq(1 .. K)
  <2>1. h.subs \in Seq(1 .. M) /\ h.groups \in Seq(1 .. M)
    BY DEF Holding
  <2> QED BY <2>1, SeqWider
<1>2. h.captures \in [CaptureName -> Seq(1 .. K)]
  <2>1. h.captures \in [CaptureName -> Seq(1 .. M)]
    BY DEF Holding
  <2>2. \A n \in CaptureName : h.captures[n] \in Seq(1 .. K)
    BY <2>1, SeqWider
  <2> QED BY <2>1, <2>2
<1>3. h.lhs \in 0 .. K /\ h.first \in 0 .. K
  BY DEF Holding
<1>4. h = [lhs |-> h.lhs, first |-> h.first, subs |-> h.subs, groups |-> h.groups,
           captures |-> h.captures]
  BY DEF Holding
<1> QED BY <1>1, <1>2, <1>3, <1>4 DEF Holding

LEMMA HeldWider ==
  ASSUME NEW M \in Nat, NEW K \in Nat, M <= K, NEW s \in Seq(Holding(M))
  PROVE  s \in Seq(Holding(K))
<1>1. Len(s) \in Nat /\ DOMAIN s = 1 .. Len(s) /\ \A i \in DOMAIN s : s[i] \in Holding(M)
  BY SeqIs
<1>2. \A i \in DOMAIN s : s[i] \in Holding(K)
  BY <1>1, HoldingWider
<1>3. s = [i \in 1 .. Len(s) |-> s[i]]
  OBVIOUS
<1>4. s \in [1 .. Len(s) -> Holding(K)]
  BY <1>1, <1>2, <1>3
<1> QED BY <1>1, <1>4

LEMMA SeedOK ==
  ASSUME NEW M \in Nat, NEW rules, NEW f, NEW lhs \in 0 .. M
  PROVE  Seed(rules, f, lhs) \in Holding(M) /\ Seed(rules, f, lhs).lhs = lhs
<1> DEFINE cs == [n \in CaptureName |->
              IF f.phase = "infix" /\ f.prod # 0 /\ lhs # NoNode
                 /\ rules[f.rule][f.prod].atoms[1].capture = n THEN << lhs >> ELSE << >>]
<1>1. cs \in [CaptureName -> Seq(1 .. M)]
  <2>1. lhs # NoNode => << lhs >> \in Seq(1 .. M)
    BY DEF NoNode
  <2>2. << >> \in Seq(1 .. M)
    OBVIOUS
  <2> QED BY <2>1, <2>2
<1>2. Seed(rules, f, lhs) = [lhs |-> lhs, first |-> NoNode, subs |-> << >>, groups |-> << >>,
                             captures |-> cs]
  BY DEF Seed
<1> HIDE DEF cs
<1> QED BY <1>1, <1>2 DEF Holding, NoNode

LEMMA CaptureOK ==
  ASSUME NEW M \in Nat, NEW h \in Holding(M), NEW name, NEW node \in 0 .. M
  PROVE  Capture(h, name, node) \in Holding(M) /\ Capture(h, name, node).lhs = h.lhs
<1>1. CASE node = NoNode \/ name = NoName
  BY <1>1 DEF Capture
<1>2. CASE ~(node = NoNode \/ name = NoName)
  <2> DEFINE cs == h.captures
  <2>1. node \in 1 .. M /\ cs \in [CaptureName -> Seq(1 .. M)]
    BY <1>2 DEF NoNode, Holding
  <2>2. PICK ds : ds = [cs EXCEPT ![name] = Append(@, node)]
    OBVIOUS
  <2>3. ds \in [CaptureName -> Seq(1 .. M)]
    <3>1. DOMAIN ds = CaptureName /\ ds = [n \in CaptureName |-> ds[n]]
      BY <2>1, <2>2
    <3>2. \A n \in CaptureName : ds[n] = IF n = name THEN Append(cs[n], node) ELSE cs[n]
      BY <2>1, <2>2
    <3>3. \A n \in CaptureName : Append(cs[n], node) \in Seq(1 .. M) /\ cs[n] \in Seq(1 .. M)
      BY <2>1
    <3> QED BY <3>1, <3>2, <3>3
  <2>4. Capture(h, name, node) = [h EXCEPT !.captures = ds]
    BY <1>2, <2>2 DEF Capture
  <2>5. [h EXCEPT !.captures = ds] \in Holding(M) /\ [h EXCEPT !.captures = ds].lhs = h.lhs
    BY <2>3 DEF Holding
  <2> QED BY <2>4, <2>5
<1> QED BY <1>1, <1>2

(* What Template and Overload are given. *)
LEMMA HeldFacts ==
  ASSUME ControlInv, DataInv, stack # << >>
  PROVE  /\ Len(nodes) \in Nat /\ held # << >> /\ Held \in Holding(Len(nodes))
         /\ Len(held) = Len(stack) /\ Len(stack) \in Nat
         /\ Top = stack[Len(stack)] /\ Held = held[Len(stack)]
         /\ building /\ Top.phase = "infix" => Held.lhs # NoNode
<1>1. Len(nodes) \in Nat
  BY HeapFacts DEF DataInv
<1>2. /\ Len(stack) \in Nat /\ Len(stack) \in DOMAIN stack /\ Top = stack[Len(stack)]
      /\ stack \in Seq(Frame(N))
  BY TopFacts
<1>3. held \in Seq(Holding(Len(nodes))) /\ Len(held) = Len(stack)
  BY DEF DataInv
<1>4. Len(stack) > 0
  BY <1>2
<1>5. held # << >> /\ Len(stack) \in DOMAIN held
  BY <1>2, <1>3, <1>4
<1>6. Held = held[Len(stack)]
  BY <1>3, LastIs DEF Held
<1>7. Held \in Holding(Len(nodes))
  BY <1>3, <1>5, <1>6, SeqIs
<1> QED BY <1>1, <1>2, <1>3, <1>5, <1>6, <1>7 DEF DataInv

-----------------------------------------------------------------------------
(* Steps on nodes *)

(* The innermost activation changes, and with it what it holds. *)
LEMMA ReplaceHolds ==
  ASSUME ControlInv, DataInv, stack # << >>, NEW f, NEW h, Replace(f, h),
         HeapOK(nodes'), Len(nodes') >= Len(nodes), freed' \subseteq 1 .. Len(nodes'),
         h \in Holding(Len(nodes')), f \in Frame(N), building /\ f.phase = "infix" => h.lhs # NoNode,
         returned' = NoResult, building' = building
  PROVE  DataInv'
<1>1. /\ Len(nodes) \in Nat /\ held # << >> /\ Len(held) = Len(stack) /\ Len(stack) \in Nat
      /\ stack \in Seq(Frame(N)) /\ held \in Seq(Holding(Len(nodes)))
  BY HeldFacts, TopFacts DEF DataInv
<1>2. PICK K \in Nat : K = Len(nodes') /\ Len(nodes) <= K
  BY <1>1, HeapFacts
<1>3. held \in Seq(Holding(K))
  BY <1>1, <1>2, HeldWider
<1>4. stack' = Append(Front(stack), f) /\ held' = Append(Front(held), h)
  BY DEF Replace
<1>5. /\ held' \in Seq(Holding(K)) /\ Len(held') = Len(stack)
      /\ \A i \in 1 .. Len(stack) - 1 : held'[i] = held[i]
      /\ held'[Len(stack)] = h
  BY <1>1, <1>2, <1>3, <1>4, ReplaceLast
<1>6. /\ Len(stack') = Len(stack) /\ DOMAIN stack' = DOMAIN stack /\ DOMAIN stack = 1 .. Len(stack)
      /\ \A i \in 1 .. Len(stack) - 1 : stack'[i] = stack[i]
      /\ stack'[Len(stack)] = f
  BY <1>1, <1>4, ReplaceLast
<1>7. returned'.node \in 0 .. K /\ returned'.is = "none"
  BY DEF NoResult, NoNode
<1>8. ASSUME building, NEW i \in DOMAIN stack', stack'[i].phase = "infix"
      PROVE  held'[i].lhs # NoNode
  <2>1. CASE i = Len(stack)
    BY <1>5, <1>6, <1>8, <2>1
  <2>2. CASE i # Len(stack)
    <3>1. i \in 1 .. Len(stack) - 1 /\ i \in DOMAIN stack
      BY <1>1, <1>6, <1>8, <2>2
    <3>2. stack'[i] = stack[i] /\ held'[i] = held[i]
      BY <1>5, <1>6, <3>1
    <3> QED BY <1>8, <3>1, <3>2 DEF DataInv
  <2> QED BY <2>1, <2>2
<1> QED BY <1>2, <1>5, <1>6, <1>7, <1>8 DEF DataInv

LEMMA TryNextHolds ==
  ASSUME ControlInv, DataInv, stack # << >>, NEW f \in Frame(N), f.rule = Top.rule,
         NEW phase \in {"prefix", "infix"}, NEW after, NEW lhs \in 0 .. Len(nodes'),
         building /\ phase = "infix" => lhs # NoNode, TryNext(f, lhs, phase, after),
         HeapOK(nodes'), Len(nodes') >= Len(nodes), freed' \subseteq 1 .. Len(nodes'),
         returned' = NoResult, building' = building
  PROVE  DataInv'
<1> DEFINE g == Try(Rules, f, phase, after)
           h == Seed(Rules, g, lhs)
<1>1. WellFormed(Rules) /\ N \in Nat /\ f.rule \in DOMAIN Rules
  BY TopFacts
<1>2. Replace(g, h)
  BY DEF TryNext
<1> HIDE DEF g
<1>3. FrameOK(Rules, N, g) /\ g.phase = phase
  BY <1>1, TryFacts DEF g
<1>4. g \in Frame(N)
  BY <1>3 DEF FrameOK
<1>5. h \in Holding(Len(nodes')) /\ h.lhs = lhs
  <2>1. PICK K \in Nat : K = Len(nodes')
    BY HeapFacts
  <2> QED BY <2>1, SeedOK
<1> HIDE DEF h
<1> QED BY <1>2, <1>3, <1>4, <1>5, ReplaceHolds

LEMMA AtomFailsHolds ==
  ASSUME ControlInv, DataInv, stack # << >>, AtomFails, returned' = NoResult,
         UNCHANGED << building, nodes, freed >>
  PROVE  DataInv'
<1>1. /\ Held \in Holding(Len(nodes)) /\ Len(nodes) \in Nat /\ Top \in Frame(N)
      /\ building /\ Top.phase = "infix" => Held.lhs # NoNode
  BY HeldFacts, TopFacts
<1>2. /\ HeapOK(nodes') /\ Len(nodes') >= Len(nodes) /\ freed' \subseteq 1 .. Len(nodes')
  BY <1>1 DEF DataInv
<1>3. CASE PatternFails
  <2>1. TryNext(Top, Held.lhs, Top.phase, Top.prod)
    BY <1>3 DEF PatternFails
  <2>2. Held.lhs \in 0 .. Len(nodes') /\ Top.phase \in {"prefix", "infix"}
    BY <1>1 DEF Holding, Frame
  <2> QED BY <1>1, <1>2, <2>1, <2>2, TryNextHolds
<1>4. CASE Replace([Top EXCEPT !.repeat.over = TRUE], Held)
  <2> DEFINE g == [Top EXCEPT !.repeat.over = TRUE]
  <2>1. g \in Frame(N) /\ g.phase = Top.phase
    <3>1. Top.repeat \in Repeat(N)
      BY <1>1 DEF Frame
    <3>2. [Top.repeat EXCEPT !.over = TRUE] \in Repeat(N)
      BY <3>1 DEF Repeat
    <3> QED BY <1>1, <3>2 DEF Frame
  <2> HIDE DEF g
  <2>2. Replace(g, Held)
    BY <1>4 DEF g
  <2>3. Held \in Holding(Len(nodes'))
    BY <1>1
  <2> QED BY <1>1, <1>2, <2>1, <2>2, <2>3, ReplaceHolds
<1> QED BY <1>3, <1>4 DEF AtomFails

-----------------------------------------------------------------------------
(* The actions *)

LEMMA AdvancedTyped ==
  ASSUME NEW n \in Nat, Top \in Frame(n), NEW next \in 0 .. n
  PROVE  Advanced(next) \in Frame(n) /\ Advanced(next).phase = Top.phase
<1>1. Top.repeat \in Repeat(n) /\ Top.atom \in Nat /\ Top.repeat.sub \in Nat
  BY DEF Frame, Repeat
<1>2. CASE InGroup
  <2> DEFINE r == [Top.repeat EXCEPT !.at = next, !.sub = Top.repeat.sub + 1]
  <2>1. r \in Repeat(n)
    <3>1. PICK k \in Nat : k = Top.repeat.sub + 1
      BY <1>1
    <3>2. [Top.repeat EXCEPT !.at = next, !.sub = k] \in Repeat(n)
      BY <1>1 DEF Repeat
    <3> QED BY <3>1, <3>2
  <2>2. Advanced(next) = [Top EXCEPT !.repeat = r]
    BY <1>1, <1>2 DEF Advanced, Frame, Repeat
  <2> HIDE DEF r
  <2> QED BY <2>1, <2>2 DEF Frame
<1>3. CASE ~InGroup
  <2>1. PICK k \in Nat : k = Top.atom + 1
    BY <1>1
  <2>2. Advanced(next) = [Top EXCEPT !.local = next, !.atom = k]
    BY <1>3, <2>1 DEF Advanced
  <2> QED BY <2>1, <2>2 DEF Frame
<1> QED BY <1>2, <1>3

LEMMA KeepingOK ==
  ASSUME NEW K \in Nat, Held \in Holding(K), NEW node \in 0 .. K
  PROVE  Keeping(node) \in Holding(K) /\ Keeping(node).lhs = Held.lhs
<1>1. PICK h : h = Capture(Held, Atom.capture, node)
  OBVIOUS
<1>2. h \in Holding(K) /\ h.lhs = Held.lhs
  BY <1>1, CaptureOK
<1>3. CASE InGroup
  <2>1. PICK s : s = IF node = NoNode THEN h.subs ELSE Append(h.subs, node)
    OBVIOUS
  <2>2. s \in Seq(1 .. K)
    <3>1. h.subs \in Seq(1 .. K)
      BY <1>2 DEF Holding
    <3>2. CASE node = NoNode
      BY <2>1, <3>1, <3>2
    <3>3. CASE node # NoNode
      <4>1. node \in 1 .. K
        BY <3>3 DEF NoNode
      <4>2. PICK t \in Seq(1 .. K) : t = h.subs
        BY <3>1
      <4>3. Append(t, node) \in Seq(1 .. K)
        BY <4>1
      <4> QED BY <2>1, <3>3, <4>2, <4>3
    <3> QED BY <3>2, <3>3
  <2>3. Keeping(node) = [h EXCEPT !.subs = s]
    BY <1>1, <1>3, <2>1 DEF Keeping
  <2>4. [h EXCEPT !.subs = s] \in Holding(K) /\ [h EXCEPT !.subs = s].lhs = h.lhs
    BY <1>2, <2>2 DEF Holding
  <2> QED BY <1>2, <2>3, <2>4
<1>4. CASE ~InGroup
  <2>1. PICK n : n = IF CollectAll /\ h.first = NoNode THEN node ELSE h.first
    OBVIOUS
  <2>2. n \in 0 .. K
    BY <1>2, <2>1 DEF Holding
  <2>3. Keeping(node) = [h EXCEPT !.first = n]
    BY <1>1, <1>4, <2>1 DEF Keeping
  <2>4. [h EXCEPT !.first = n] \in Holding(K) /\ [h EXCEPT !.first = n].lhs = h.lhs
    BY <1>2, <2>2 DEF Holding
  <2> QED BY <1>2, <2>3, <2>4
<1> QED BY <1>3, <1>4

LEMMA AtomMatchesHolds ==
  ASSUME ControlInv, DataInv, stack # << >>, NEW node \in 0 .. Len(nodes'), NEW next \in 0 .. N,
         AtomMatches(node, next), HeapOK(nodes'), Len(nodes') >= Len(nodes),
         freed' \subseteq 1 .. Len(nodes'), returned' = NoResult, building' = building
  PROVE  DataInv'
<1>1. /\ Held \in Holding(Len(nodes)) /\ Len(nodes) \in Nat /\ Top \in Frame(N) /\ N \in Nat
      /\ building /\ Top.phase = "infix" => Held.lhs # NoNode
  BY HeldFacts, TopFacts
<1>2. PICK K \in Nat : K = Len(nodes') /\ Len(nodes) <= K
  BY <1>1, HeapFacts
<1>3. Held \in Holding(K)
  BY <1>1, <1>2, HoldingWider
<1>4. Keeping(node) \in Holding(K) /\ Keeping(node).lhs = Held.lhs
  BY <1>2, <1>3, KeepingOK
<1>5. Advanced(next) \in Frame(N) /\ Advanced(next).phase = Top.phase
  BY <1>1, AdvancedTyped
<1>6. Replace(Advanced(next), Keeping(node))
  BY DEF AtomMatches
<1> QED BY <1>1, <1>2, <1>4, <1>5, <1>6, ReplaceHolds

LEMMA LeafIsTree ==
  ASSUME NEW i \in Nat
  PROVE  Leaf(i) \in Tree /\ Leaf(i).kids = << >>
<1>1. << >> \in Seq(Nat)
  OBVIOUS
<1> QED BY <1>1 DEF Leaf, Tree, Origin

LEMMA ReadTokenHolds ==
  ASSUME ControlInv, DataInv, ReadToken
  PROVE  DataInv'
<1>1. Running /\ UNCHANGED << building, returned, freed >>
  BY DEF ReadToken, At, Trying
<1>2. /\ stack # << >> /\ returned' = NoResult /\ Here \in 0 .. N /\ N \in Nat
  BY <1>1, RunningFacts
<1>3. Len(nodes) \in Nat /\ HeapOK(nodes) /\ freed' \subseteq 1 .. Len(nodes)
  BY <1>1, <1>2, HeldFacts DEF DataInv
<1>4. CASE Here < Len(tokens) /\ nodes' = Append(nodes, Leaf(Here + 1))
           /\ AtomMatches(Len(nodes) + 1, Here + 1)
  <2>1. Here + 1 \in 0 .. N /\ Here + 1 \in Nat
    BY <1>2, <1>4 DEF N
  <2>2. Leaf(Here + 1) \in Tree /\ Leaf(Here + 1).kids = << >>
    BY <2>1, LeafIsTree
  <2>3. HeapOK(nodes') /\ Len(nodes') = Len(nodes) + 1
    <3>1. << >> \in Seq(1 .. Len(nodes))
      OBVIOUS
    <3> QED BY <1>3, <1>4, <2>2, <3>1, HeapGrows
  <2>4. /\ Len(nodes) + 1 \in 0 .. Len(nodes') /\ Len(nodes') >= Len(nodes)
        /\ freed' \subseteq 1 .. Len(nodes')
    BY <1>3, <2>3
  <2> QED BY <1>1, <1>2, <1>4, <2>1, <2>3, <2>4, AtomMatchesHolds
<1>5. CASE Here < Len(tokens) /\ nodes' = nodes /\ AtomMatches(NoNode, Here + 1)
  <2>1. Here + 1 \in 0 .. N
    BY <1>2, <1>5 DEF N
  <2>2. NoNode \in 0 .. Len(nodes') /\ Len(nodes') >= Len(nodes)
    BY <1>3, <1>5 DEF NoNode
  <2> QED BY <1>1, <1>2, <1>3, <1>5, <2>1, <2>2, AtomMatchesHolds
<1>6. CASE AtomFails /\ UNCHANGED nodes
  BY <1>1, <1>2, <1>6, AtomFailsHolds
<1> QED BY <1>4, <1>5, <1>6 DEF ReadToken

LEMMA CallRuleHolds ==
  ASSUME ControlInv, DataInv, CallRule
  PROVE  DataInv'
<1>1. Running /\ UNCHANGED << building, returned, nodes, freed >>
  BY DEF CallRule, At, Trying
<1>2. /\ stack # << >> /\ returned' = NoResult /\ Here \in 0 .. N /\ N \in Nat
      /\ WellFormed(Rules) /\ stack \in Seq(Frame(N)) /\ Top \in Frame(N)
  BY <1>1, RunningFacts, TopFacts
<1>3. CASE AtomFails
  BY <1>1, <1>2, <1>3, AtomFailsHolds
<1>4. CASE /\ Atom.what \in DOMAIN Rules /\ Deeper <= MaxDepth
           /\ \E a : /\ a = Activation(Rules, Atom.what, Atom.min_bp, Here, Deeper)
                     /\ stack' = Append(stack, a) /\ held' = Append(held, Seed(Rules, a, NoNode))
  <2>1. PICK a : /\ a = Activation(Rules, Atom.what, Atom.min_bp, Here, Deeper)
                 /\ stack' = Append(stack, a) /\ held' = Append(held, Seed(Rules, a, NoNode))
    BY <1>4
  <2>2. FrameOK(Rules, N, a) /\ a.phase = "prefix"
    <3>1. Atom.min_bp \in Nat
      BY AtomHasPower DEF CallRule
    <3>2. Deeper \in 0 .. MaxDepth
      <4>1. Top.depth \in 0 .. MaxDepth
        BY <1>2 DEF Frame
      <4> QED BY <1>4, <4>1, DepthAssumption DEF Deeper
    <3> QED BY <1>2, <1>4, <2>1, <3>1, <3>2, ActivationFacts
  <2>3. /\ held \in Seq(Holding(Len(nodes))) /\ Len(held) = Len(stack) /\ Len(nodes) \in Nat
        /\ Len(stack) \in Nat
    BY <1>2, HeldFacts DEF DataInv
  <2>4. PICK h : h = Seed(Rules, a, NoNode)
    OBVIOUS
  <2>5. h \in Holding(Len(nodes))
    <3>1. NoNode \in 0 .. Len(nodes)
      BY <2>3 DEF NoNode
    <3> QED BY <2>3, <2>4, <3>1, SeedOK
  <2>6. /\ held' \in Seq(Holding(Len(nodes))) /\ Len(held') = Len(stack) + 1
        /\ \A i \in 1 .. Len(stack) : held'[i] = held[i]
    BY <2>1, <2>3, <2>4, <2>5, AppendFacts
  <2>7. a \in Frame(N)
    BY <2>2 DEF FrameOK
  <2>8. /\ stack' \in Seq(Frame(N)) /\ Len(stack') = Len(stack) + 1
        /\ \A i \in 1 .. Len(stack) : stack'[i] = stack[i]
        /\ stack'[Len(stack) + 1] = a
    BY <1>2, <2>1, <2>7, AppendFacts
  <2>9. ASSUME building, NEW i \in DOMAIN stack', stack'[i].phase = "infix"
        PROVE  held'[i].lhs # NoNode
    <3>1. i \in 1 .. Len(stack) + 1
      BY <2>3, <2>8
    <3>2. i # Len(stack) + 1
      BY <2>2, <2>8, <2>9
    <3>3. i \in 1 .. Len(stack) /\ i \in DOMAIN stack
      BY <1>2, <2>3, <3>1, <3>2
    <3> QED BY <2>6, <2>8, <2>9, <3>3 DEF DataInv
  <2>10. returned'.node \in 0 .. Len(nodes) /\ returned'.is = "none"
    BY <1>2, <2>3 DEF NoResult, NoNode
  <2> QED BY <1>1, <2>3, <2>6, <2>8, <2>9, <2>10 DEF DataInv
<1> QED BY <1>3, <1>4 DEF CallRule

LEMMA OpenGroupHolds ==
  ASSUME ControlInv, DataInv, OpenGroup
  PROVE  DataInv'
<1>1. Running /\ UNCHANGED << building, returned, nodes, freed >>
  BY DEF OpenGroup, At, Trying
<1>2. /\ stack # << >> /\ returned' = NoResult /\ N \in Nat /\ Top \in Frame(N)
      /\ Held \in Holding(Len(nodes)) /\ Len(nodes) \in Nat
      /\ building /\ Top.phase = "infix" => Held.lhs # NoNode
  BY <1>1, RunningFacts, HeldFacts
<1> DEFINE r == [NoRepeat EXCEPT !.on = TRUE, !.local = Top.local, !.at = Top.local]
           f == [Top EXCEPT !.repeat = r]
           h == [Held EXCEPT !.subs = << >>, !.groups = << >>]
<1>3. Replace(f, h)
  BY DEF OpenGroup
<1>4. f \in Frame(N) /\ f.phase = Top.phase
  <2>1. Top.local \in 0 .. N
    BY <1>2 DEF Frame
  <2>2. r \in Repeat(N)
    BY <2>1 DEF NoRepeat, Repeat
  <2> HIDE DEF r
  <2> QED BY <1>2, <2>2 DEF Frame
<1>5. h \in Holding(Len(nodes)) /\ h.lhs = Held.lhs
  <2>1. << >> \in Seq(1 .. Len(nodes))
    OBVIOUS
  <2> QED BY <1>2, <2>1 DEF Holding
<1> HIDE DEF f, h
<1>6. /\ HeapOK(nodes') /\ Len(nodes') >= Len(nodes) /\ freed' \subseteq 1 .. Len(nodes')
      /\ h \in Holding(Len(nodes'))
  BY <1>1, <1>2, <1>5 DEF DataInv
<1> QED BY <1>1, <1>2, <1>3, <1>4, <1>5, <1>6, ReplaceHolds

(* A node is added for a repetition, or for all of them. *)
LEMMA GroupAdded ==
  ASSUME ControlInv, DataInv, stack # << >>, NEW ids \in Seq(1 .. Len(nodes)),
         nodes' = IF building THEN Append(nodes, GroupNode(ids)) ELSE nodes
  PROVE  /\ HeapOK(nodes') /\ Len(nodes') >= Len(nodes) /\ Len(nodes') \in Nat
         /\ building => Len(nodes) + 1 \in 1 .. Len(nodes')
         /\ Held \in Holding(Len(nodes'))
         /\ freed \subseteq 1 .. Len(nodes')
<1>1. /\ Held \in Holding(Len(nodes)) /\ Len(nodes) \in Nat /\ HeapOK(nodes)
      /\ freed \subseteq 1 .. Len(nodes)
  BY HeldFacts DEF DataInv
<1>2. CASE building
  <2>1. GroupNode(ids) \in Tree /\ GroupNode(ids).kids = ids
    BY <1>1, KidsAreNat, GroupIsTree
  <2>2. HeapOK(nodes') /\ Len(nodes') = Len(nodes) + 1
    BY <1>1, <1>2, <2>1, HeapGrows
  <2>3. PICK K \in Nat : K = Len(nodes') /\ Len(nodes) <= K
    BY <1>1, <2>2
  <2>4. Held \in Holding(Len(nodes'))
    BY <1>1, <2>3, HoldingWider
  <2>5. \A x \in freed : x \in 1 .. Len(nodes')
    BY <1>1, <2>2
  <2> QED BY <1>1, <2>2, <2>4, <2>5
<1>3. CASE ~building
  BY <1>1, <1>3
<1> QED BY <1>2, <1>3

LEMMA IterationDoneHolds ==
  ASSUME ControlInv, DataInv, IterationDone
  PROVE  DataInv'
<1>1. /\ Running /\ Trying /\ InGroup
      /\ UNCHANGED << building, returned, freed >>
  BY DEF IterationDone, Trying
<1>2. /\ stack # << >> /\ returned' = NoResult /\ N \in Nat /\ Top \in Frame(N)
      /\ Held \in Holding(Len(nodes)) /\ Len(nodes) \in Nat
      /\ building /\ Top.phase = "infix" => Held.lhs # NoNode
  BY <1>1, RunningFacts, HeldFacts
<1> DEFINE r == [Top.repeat EXCEPT !.met = TRUE, !.local = Top.repeat.at, !.sub = 1,
                                   !.over = Prod.atoms[Top.atom].once]
           f == [Top EXCEPT !.repeat = r]
           gs == IF building THEN Append(Held.groups, Len(nodes) + 1) ELSE Held.groups
           h == [Held EXCEPT !.subs = << >>, !.groups = gs]
<1>3. Replace(f, h)
  BY Zenon DEF IterationDone
<1>4. f \in Frame(N) /\ f.phase = Top.phase
  <2>1. Top.repeat \in Repeat(N)
    BY <1>2 DEF Frame
  <2>2. PICK once \in BOOLEAN : once = Prod.atoms[Top.atom].once
    BY <1>1, AtPosition
  <2>3. PICK q : q = [Top.repeat EXCEPT !.met = TRUE, !.local = Top.repeat.at, !.sub = 1, !.over = once]
    OBVIOUS
  <2>4. q \in Repeat(N)
    BY <2>1, <2>3 DEF Repeat
  <2>5. r = q
    BY <2>2, <2>3
  <2> HIDE DEF r
  <2> QED BY <1>2, <2>4, <2>5 DEF Frame
<1>5. Held.subs \in Seq(1 .. Len(nodes))
  BY <1>2 DEF Holding
<1>6. nodes' = IF building THEN Append(nodes, GroupNode(Held.subs)) ELSE nodes
  BY DEF IterationDone
<1>7. /\ HeapOK(nodes') /\ Len(nodes') >= Len(nodes) /\ Len(nodes') \in Nat
      /\ building => Len(nodes) + 1 \in 1 .. Len(nodes')
      /\ Held \in Holding(Len(nodes')) /\ freed \subseteq 1 .. Len(nodes')
  BY <1>2, <1>5, <1>6, GroupAdded
<1>8. PICK K \in Nat : K = Len(nodes')
  BY <1>7
<1>9. gs \in Seq(1 .. K)
  <2>1. Held.groups \in Seq(1 .. K)
    BY <1>7, <1>8 DEF Holding
  <2>2. CASE building
    <3>1. PICK n \in 1 .. K : n = Len(nodes) + 1
      BY <1>7, <1>8, <2>2
    <3>2. Append(Held.groups, n) \in Seq(1 .. K)
      BY <2>1
    <3> QED BY <2>2, <3>1, <3>2
  <2> QED BY <2>1, <2>2
<1> HIDE DEF gs
<1>10. h \in Holding(K) /\ h.lhs = Held.lhs
  <2>1. << >> \in Seq(1 .. K)
    OBVIOUS
  <2> QED BY <1>7, <1>8, <1>9, <2>1 DEF Holding
<1> HIDE DEF f, h
<1> QED BY <1>1, <1>2, <1>3, <1>4, <1>7, <1>8, <1>10, ReplaceHolds

LEMMA CloseGroupHolds ==
  ASSUME ControlInv, DataInv, CloseGroup
  PROVE  DataInv'
<1>1. /\ Running /\ Trying /\ UNCHANGED << building, returned, freed >>
  BY DEF CloseGroup, Trying
<1>2. /\ stack # << >> /\ returned' = NoResult /\ N \in Nat /\ Top \in Frame(N)
      /\ Held \in Holding(Len(nodes)) /\ Len(nodes) \in Nat
      /\ building /\ Top.phase = "infix" => Held.lhs # NoNode
  BY <1>1, RunningFacts, HeldFacts
<1> DEFINE atom == Prod.atoms[Top.atom]
           node == IF building THEN Len(nodes) + 1 ELSE NoNode
           c == Capture(Held, atom.capture, node)
           f == [Top EXCEPT !.local = RepeatedTo(Top.repeat), !.atom = Top.atom + 1, !.repeat = NoRepeat]
           first == IF CollectAll /\ c.first = NoNode THEN node ELSE c.first
           h == [c EXCEPT !.subs = << >>, !.groups = << >>, !.first = first]
<1>3. Replace(f, h)
  BY Zenon DEF CloseGroup
<1>4. f \in Frame(N) /\ f.phase = Top.phase
  <2>1. PICK l \in 0 .. N : l = RepeatedTo(Top.repeat)
    BY <1>2 DEF Frame, Repeat, RepeatedTo
  <2>2. PICK k \in Nat : k = Top.atom + 1
    BY <1>2 DEF Frame
  <2>3. NoRepeat \in Repeat(N)
    BY <1>2 DEF NoRepeat, Repeat
  <2>4. f = [Top EXCEPT !.local = l, !.atom = k, !.repeat = NoRepeat]
    BY <2>1, <2>2
  <2> HIDE DEF f
  <2> QED BY <1>2, <2>1, <2>2, <2>3, <2>4 DEF Frame
<1>5. Held.groups \in Seq(1 .. Len(nodes))
  BY <1>2 DEF Holding
<1>6. nodes' = IF building THEN Append(nodes, GroupNode(Held.groups)) ELSE nodes
  BY DEF CloseGroup
<1>7. /\ HeapOK(nodes') /\ Len(nodes') >= Len(nodes) /\ Len(nodes') \in Nat
      /\ building => Len(nodes) + 1 \in 1 .. Len(nodes')
      /\ Held \in Holding(Len(nodes')) /\ freed \subseteq 1 .. Len(nodes')
  BY <1>2, <1>5, <1>6, GroupAdded
<1>8. PICK K \in Nat : K = Len(nodes')
  BY <1>7
<1>9. node \in 0 .. K
  BY <1>7, <1>8 DEF NoNode
<1> HIDE DEF node
<1>10. c \in Holding(K) /\ c.lhs = Held.lhs
  BY <1>7, <1>8, <1>9, CaptureOK
<1> HIDE DEF c
<1>11. first \in 0 .. K
  BY <1>9, <1>10 DEF Holding
<1> HIDE DEF first
<1>12. h \in Holding(K) /\ h.lhs = Held.lhs
  <2>1. << >> \in Seq(1 .. K)
    OBVIOUS
  <2> QED BY <1>10, <1>11, <2>1 DEF Holding
<1> HIDE DEF f, h
<1> QED BY <1>1, <1>2, <1>3, <1>4, <1>7, <1>8, <1>12, ReplaceHolds

LEMMA ResultOK ==
  ASSUME ControlInv, DataInv, Trying
  PROVE  \A r : r = Result => Built(Len(nodes), r)
<1>1. Running /\ Top.prod \in DOMAIN Rules[Top.rule]
  BY AtPosition DEF Trying
<1>2. /\ stack # << >> /\ N \in Nat /\ Top \in Frame(N) /\ Top.rule \in DOMAIN Rules
      /\ Held \in Holding(Len(nodes)) /\ Len(nodes) \in Nat /\ HeapOK(nodes)
  BY <1>1, RunningFacts, HeldFacts, TopFacts DEF DataInv
<1>3. TemplatesFit(Rules)
  BY <1>2, GrammarsWellFormed DEF ControlInv, ControlTypeOK, Rules
<1>4. Prod.templates \in Seq(OpTemplate) /\ Prod.templates # << >>
  BY <1>1, <1>2, <1>3 DEF TemplatesFit, Prod
<1>5. PICK by \in Origin : by = << Top.rule, Top.prod >>
  BY <1>2 DEF Frame, Origin
<1>6. Held.captures \in [CaptureName -> Seq(1 .. Len(nodes))] /\ Held.first \in 0 .. Len(nodes)
  BY <1>2 DEF Holding
<1>7. Prod.templates[1] \in OpTemplate
  BY <1>4
<1>8. \A r : r = Overload(Prod.templates, Held.captures, nodes, by) => Built(Len(nodes), r)
  <2>1. Len(nodes) >= Len(nodes)
    BY <1>2
  <2> QED BY <1>2, <1>4, <1>6, <2>1, OverloadOK
<1>9. \A r : r = Template(Prod.templates[1], Held.captures, nodes, by) => Built(Len(nodes), r)
  <2>1. Len(nodes) >= Len(nodes)
    BY <1>2
  <2> QED BY <1>2, <1>6, <1>7, <2>1, TemplateOK
<1>10. Built(Len(nodes), [node |-> Held.first, heap |-> nodes, freed |-> {}])
  BY <1>2, <1>6 DEF Built
<1>11. \/ Result = Overload(Prod.templates, Held.captures, nodes, by)
       \/ Result = [node |-> Held.first, heap |-> nodes, freed |-> {}]
       \/ Result = Template(Prod.templates[1], Held.captures, nodes, by)
  BY <1>5, Zenon DEF Result
<1> QED BY <1>8, <1>9, <1>10, <1>11

LEMMA PatternDoneHolds ==
  ASSUME ControlInv, DataInv, PatternDone
  PROVE  DataInv'
<1>1. Running /\ Trying /\ UNCHANGED << building, returned >>
  BY DEF PatternDone, Trying
<1>2. /\ stack # << >> /\ returned' = NoResult /\ N \in Nat /\ Top \in Frame(N)
      /\ Held \in Holding(Len(nodes)) /\ Len(nodes) \in Nat
      /\ building /\ Top.phase = "infix" => Held.lhs # NoNode
  BY <1>1, RunningFacts, HeldFacts
<1>3. PICK built : built = IF building /\ Progress(Top) THEN Result
                           ELSE [node |-> NoNode, heap |-> nodes, freed |-> {}]
  OBVIOUS
<1>4. Built(Len(nodes), built)
  <2>1. Built(Len(nodes), [node |-> NoNode, heap |-> nodes, freed |-> {}])
    BY <1>2 DEF Built, DataInv, NoNode
  <2>2. \A r : r = Result => Built(Len(nodes), r)
    BY <1>1, ResultOK
  <2> QED BY <1>3, <2>1, <2>2, Zenon
<1>5. /\ nodes' = built.heap /\ freed' = freed \cup built.freed
      /\ IF Progress(Top) /\ (building => built.node # NoNode)
         THEN TryNext([Top EXCEPT !.cursor = Top.local], built.node, "infix", 0)
         ELSE TryNext(Top, Held.lhs, Top.phase, Top.prod)
  BY <1>3, Zenon DEF PatternDone
<1>6. /\ HeapOK(nodes') /\ Len(nodes') >= Len(nodes) /\ built.node \in 0 .. Len(nodes')
      /\ Len(nodes') \in Nat
  BY <1>4, <1>5, HeapFacts DEF Built
<1>7. freed' \subseteq 1 .. Len(nodes')
  <2>1. built.freed \subseteq 1 .. Len(nodes')
    BY <1>4, <1>5 DEF Built
  <2>2. \A x \in freed : x \in 1 .. Len(nodes')
    BY <1>2, <1>6 DEF DataInv
  <2> QED BY <1>5, <2>1, <2>2
<1>8. CASE Progress(Top) /\ (building => built.node # NoNode)
  <2> DEFINE f == [Top EXCEPT !.cursor = Top.local]
  <2>1. f \in Frame(N) /\ f.rule = Top.rule
    BY <1>2 DEF Frame
  <2>2. TryNext(f, built.node, "infix", 0)
    BY <1>5, <1>8
  <2> HIDE DEF f
  <2> QED BY <1>1, <1>2, <1>6, <1>7, <1>8, <2>1, <2>2, TryNextHolds
<1>9. CASE ~(Progress(Top) /\ (building => built.node # NoNode))
  <2>1. TryNext(Top, Held.lhs, Top.phase, Top.prod)
    BY <1>5, <1>9, Zenon
  <2>2. Held.lhs \in 0 .. Len(nodes') /\ Top.phase \in {"prefix", "infix"}
    BY <1>2, <1>6 DEF Holding, Frame
  <2> QED BY <1>1, <1>2, <1>6, <1>7, <2>1, <2>2, TryNextHolds
<1> QED BY <1>8, <1>9

LEMMA ReturnHolds ==
  ASSUME ControlInv, DataInv, stack # << >>, NEW result, Return(result),
         result.node \in 0 .. Len(nodes),
         building /\ result.is = "matched" => result.node # NoNode,
         UNCHANGED << building, nodes, freed >>
  PROVE  DataInv'
<1>1. /\ Len(nodes) \in Nat /\ held # << >> /\ Len(held) = Len(stack) /\ Len(stack) \in Nat
      /\ stack \in Seq(Frame(N)) /\ held \in Seq(Holding(Len(nodes)))
  BY HeldFacts, TopFacts DEF DataInv
<1>2. stack' = Front(stack) /\ held' = Front(held) /\ returned' = result
  BY DEF Return
<1>3. /\ held' \in Seq(Holding(Len(nodes))) /\ Len(held') = Len(held) - 1
      /\ \A i \in 1 .. Len(held) - 1 : held'[i] = held[i]
  BY <1>1, <1>2, FrontFacts
<1>4. /\ stack' \in Seq(Frame(N)) /\ Len(stack') = Len(stack) - 1
      /\ \A i \in 1 .. Len(stack) - 1 : stack'[i] = stack[i]
  BY <1>1, <1>2, FrontFacts
<1>5. ASSUME building, NEW i \in DOMAIN stack', stack'[i].phase = "infix"
      PROVE  held'[i].lhs # NoNode
  <2>1. i \in 1 .. Len(stack) - 1 /\ i \in DOMAIN stack
    BY <1>1, <1>4
  <2> QED BY <1>1, <1>3, <1>4, <1>5, <2>1 DEF DataInv
<1> QED BY <1>1, <1>2, <1>3, <1>4, <1>5 DEF DataInv

LEMMA NoProductionHolds ==
  ASSUME ControlInv, DataInv, NoProduction
  PROVE  DataInv'
<1>1. Running /\ UNCHANGED << building, nodes, freed >>
  BY DEF NoProduction
<1>2. stack # << >> /\ Len(nodes) \in Nat
  BY <1>1, RunningFacts, HeldFacts
<1>3. PICK result : Return(result) /\ result.is = "failed" /\ result.node = 0
  BY DEF NoProduction, NoResult, NoNode
<1> QED BY <1>1, <1>2, <1>3, ReturnHolds

LEMMA NoExtensionHolds ==
  ASSUME ControlInv, DataInv, NoExtension
  PROVE  DataInv'
<1>1. Running /\ Top.phase = "infix" /\ UNCHANGED << building, nodes, freed >>
  BY DEF NoExtension
<1>2. stack # << >> /\ Held \in Holding(Len(nodes)) /\ (building => Held.lhs # NoNode)
  BY <1>1, RunningFacts, HeldFacts
<1>3. PICK result : Return(result) /\ result.node = Held.lhs
  BY DEF NoExtension
<1>4. Held.lhs \in 0 .. Len(nodes)
  BY <1>2 DEF Holding
<1> QED BY <1>1, <1>2, <1>3, <1>4, ReturnHolds

(* What is freed with a tree is in the heap. *)
LEMMA TreeFreed ==
  ASSUME DataInv, building, returned.is = "matched"
  PROVE  Below(nodes, {returned.node}) \subseteq 1 .. Len(nodes)
<1>1. HeapOK(nodes) /\ returned.node \in 0 .. Len(nodes) /\ returned.node # 0 /\ Len(nodes) \in Nat
  BY HeapFacts DEF DataInv, NoNode
<1>2. {returned.node} \in SUBSET (1 .. Len(nodes))
  BY <1>1
<1>3. Below(nodes, {returned.node}) \in SUBSET (1 .. Len(nodes))
  BY <1>1, <1>2, BelowOK
<1> QED BY <1>3

LEMMA RuleReturnsHolds ==
  ASSUME ControlInv, DataInv, RuleReturns
  PROVE  DataInv'
<1>1. stack # << >> /\ returned' = NoResult /\ UNCHANGED << building, nodes >>
  BY DEF RuleReturns
<1>2. HeapOK(nodes) /\ Len(nodes) \in Nat /\ freed \subseteq 1 .. Len(nodes)
  BY HeapFacts DEF DataInv
<1>3. CASE returned.is = "matched"
  <2>1. PICK node : /\ node = IF NodeWanted THEN returned.node ELSE NoNode
                    /\ AtomMatches(node, returned.cursor)
    BY <1>3 DEF RuleReturns
  <2>2. node \in 0 .. Len(nodes')
    BY <1>1, <1>2, <2>1 DEF DataInv, NoNode
  <2>3. freed' \subseteq 1 .. Len(nodes')
    <3>1. freed' = freed \/ (building /\ freed' = freed \cup Below(nodes, {returned.node}))
      BY <1>3 DEF RuleReturns
    <3> QED BY <1>1, <1>2, <1>3, <3>1, TreeFreed
  <2>4. returned.cursor \in 0 .. N
    BY DEF ControlInv, ControlTypeOK, N
  <2>5. HeapOK(nodes') /\ Len(nodes') >= Len(nodes)
    BY <1>1, <1>2
  <2> QED BY <1>1, <2>1, <2>2, <2>3, <2>4, <2>5, AtomMatchesHolds
<1>4. CASE returned.is # "matched"
  <2>1. AtomFails /\ UNCHANGED freed
    BY <1>4 DEF RuleReturns
  <2> QED BY <1>1, <2>1, AtomFailsHolds
<1> QED BY <1>3, <1>4

LEMMA FinishHolds ==
  ASSUME DataInv, Finish
  PROVE  DataInv'
<1>1. UNCHANGED << building, stack, held, returned, nodes >>
  BY DEF Finish
<1>2. freed' \subseteq 1 .. Len(nodes)
  <2>1. freed' = freed \/ (building /\ returned.is = "matched"
                            /\ freed' = freed \cup Below(nodes, {returned.node}))
    BY DEF Finish
  <2>2. freed \subseteq 1 .. Len(nodes)
    BY DEF DataInv
  <2> QED BY <2>1, <2>2, TreeFreed
<1> QED BY <1>1, <1>2 DEF DataInv

LEMMA MatchStepHolds ==
  ASSUME ControlInv, DataInv, MatchStep
  PROVE  DataInv'
  BY ReadTokenHolds, CallRuleHolds, OpenGroupHolds, IterationDoneHolds, CloseGroupHolds,
     PatternDoneHolds, NoProductionHolds, NoExtensionHolds, RuleReturnsHolds, FinishHolds
     DEF MatchStep

LEMMA MatchIdleHolds ==
  ASSUME DataInv, UNCHANGED << building, stack, returned, data >>
  PROVE  DataInv'
  BY DEF data, DataInv

LEMMA ParseHolds ==
  ASSUME NEW g \in DOMAIN File, Grammar[g].loads, NEW toks, NEW build, Parse(g, toks, build)
  PROVE  DataInv'
<1> DEFINE rules == Grammar[g].rules
           a == Activation(rules, Grammar[g].start, 0, 0, 0)
<1>1. /\ stack' = << a >> /\ held' = << Seed(rules, a, NoNode) >>
      /\ returned' = NoResult /\ nodes' = << >> /\ freed' = {}
  BY DEF Parse
<1>2. WellFormed(rules) /\ Grammar[g].start \in DOMAIN rules
  BY GrammarsWellFormed
<1>3. a.phase = "prefix"
  <2>1. PICK z \in Nat : z = 0
    OBVIOUS
  <2>2. 0 \in 0 .. z /\ 0 \in 0 .. MaxDepth /\ 0 \in Nat
    BY <2>1, DepthAssumption
  <2> HIDE DEF rules, a
  <2>3. PICK bp \in Nat, cursor \in 0 .. z, depth \in 0 .. MaxDepth :
          bp = 0 /\ cursor = 0 /\ depth = 0
    BY <2>2
  <2>4. a = Activation(rules, Grammar[g].start, bp, cursor, depth)
    BY <2>3 DEF a
  <2> QED BY <1>2, <2>4, ActivationFacts
<1> HIDE DEF a, rules
<1>4. Len(nodes') = 0 /\ HeapOK(nodes')
  <2>1. << >> \in Seq(Tree) /\ DOMAIN << >> = {} /\ Len(<< >>) = 0
    OBVIOUS
  <2> QED BY <1>1, <2>1 DEF HeapOK
<1>5. Seed(rules, a, NoNode) \in Holding(0)
  <2>1. NoNode \in 0 .. 0 /\ 0 \in Nat
    BY DEF NoNode
  <2> QED BY <2>1, SeedOK
<1>6. held' \in Seq(Holding(0)) /\ Len(held') = 1 /\ Len(stack') = 1
  BY <1>1, <1>5
<1>7. \A i \in DOMAIN stack' : stack'[i].phase # "infix"
  BY <1>1, <1>3
<1>8. returned'.node = 0 /\ returned'.is = "none"
  BY <1>1 DEF NoResult, NoNode
<1> QED BY <1>1, <1>4, <1>6, <1>7, <1>8 DEF DataInv

LEMMA DataImplies ==
  ASSUME ControlInv, DataInv
  PROVE  MatchTypeOK
<1>1. Len(nodes) \in Nat /\ DOMAIN nodes = Node
  BY HeapFacts DEF DataInv, Node
<1>2. DOMAIN held = DOMAIN stack
  <2>1. held \in Seq(Holding(Len(nodes))) /\ stack \in Seq(Frame(Len(tokens)))
    BY DEF DataInv, ControlInv, ControlTypeOK
  <2> QED BY <2>1 DEF DataInv
<1>3. returned.node \in Node \cup {NoNode}
  BY <1>1 DEF DataInv, Node, NoNode
<1>4. ASSUME NEW h \in ToSet(held)
      PROVE  /\ h.lhs \in Node \cup {NoNode} /\ h.first \in Node \cup {NoNode}
             /\ ToSet(h.subs) \cup ToSet(h.groups) \subseteq Node
             /\ h.captures \in [CaptureName -> Seq(Node)]
  <2>1. h \in Holding(Len(nodes))
    <3>1. PICK i \in DOMAIN held : h = held[i]
      BY DEF ToSet
    <3> QED BY <3>1, SeqIs DEF DataInv
  <2>2. /\ h.lhs \in 0 .. Len(nodes) /\ h.first \in 0 .. Len(nodes)
        /\ h.subs \in Seq(Node) /\ h.groups \in Seq(Node) /\ h.captures \in [CaptureName -> Seq(Node)]
    BY <2>1 DEF Holding, Node
  <2>3. ToSet(h.subs) \cup ToSet(h.groups) \subseteq Node
    <3>1. /\ \A i \in DOMAIN h.subs : h.subs[i] \in Node
          /\ \A i \in DOMAIN h.groups : h.groups[i] \in Node
      BY <2>2, SeqIs
    <3> QED BY <3>1 DEF ToSet
  <2> QED BY <1>1, <2>2, <2>3 DEF Node, NoNode
<1>5. \A n \in Node : ToSet(nodes[n].kids) \subseteq 1 .. n - 1
  BY <1>1 DEF DataInv, HeapOK
<1>6. DataTypeOK
  BY <1>2, <1>3, <1>4, <1>5 DEF DataTypeOK, DataInv, Node
<1> QED BY <1>6 DEF MatchTypeOK, ControlInv

=============================================================================
