--------------------------- MODULE SequenceFacts ---------------------------
(***************************************************************************)
(* What the operations on sequences that stand for C stacks and arrays     *)
(* keep and change, what folds over them compute and keep, and the least   *)
(* and the greatest of a set of numbers.                                   *)
(***************************************************************************)
EXTENDS Integers, SequencesExt, TLAPS, SequenceTheorems, WellFoundedInduction

(* What Front keeps of a sequence. *)
LEMMA FrontFacts ==
  ASSUME NEW S, NEW s \in Seq(S)
  PROVE  /\ Front(s) \in Seq(S)
         /\ s # << >> => Len(Front(s)) = Len(s) - 1
         /\ \A i \in 1 .. Len(s) - 1 : Front(s)[i] = s[i]
<1> DEFINE n == Len(s) - 1
<1>1. n \in Int /\ 1 \in Int /\ \A i \in 1 .. n : s[i] \in S
  OBVIOUS
<1>2. s # << >> => n >= 0
  OBVIOUS
<1>3. /\ SubSeq(s, 1, n) \in Seq(S)
      /\ Len(SubSeq(s, 1, n)) = IF 1 <= n THEN n - 1 + 1 ELSE 0
      /\ \A i \in 1 .. n - 1 + 1 : SubSeq(s, 1, n)[i] = s[1 + i - 1]
  <2> HIDE DEF n
  <2> QED BY <1>1, SubSeqProperties
<1>4. Front(s) = SubSeq(s, 1, n)
  BY DEF Front
<1> HIDE DEF n
<1>5. s # << >> => Len(SubSeq(s, 1, n)) = n
  BY <1>1, <1>2, <1>3
<1>6. \A i \in 1 .. n : SubSeq(s, 1, n)[i] = s[i]
  BY <1>1, <1>3
<1> QED BY <1>3, <1>4, <1>5, <1>6 DEF n

(* The last element of a nonempty sequence is one of its elements. *)
LEMMA LastInSet ==
  ASSUME NEW S, NEW s \in Seq(S), s # << >>
  PROVE  Last(s) \in S
  BY DEF Last

(* Replacing an element, or none, of a sequence. *)
LEMMA ExceptInSeq ==
  ASSUME NEW S, NEW s \in Seq(S), NEW i, NEW e \in S
  PROVE  \A g : g = [s EXCEPT ![i] = e] => g \in Seq(S) /\ Len(g) = Len(s)
<1> DEFINE f == [s EXCEPT ![i] = e]
<1>1. f = [j \in 1 .. Len(s) |-> f[j]] /\ \A j \in 1 .. Len(s) : f[j] \in S
  OBVIOUS
<1> HIDE DEF f
<1>2. f \in Seq(S) /\ Len(f) = Len(s)
  BY <1>1
<1>3. f = [s EXCEPT ![i] = e]
  BY DEF f
<1> QED BY <1>2, <1>3

(* What Append adds to a sequence. *)
LEMMA AppendFacts ==
  ASSUME NEW S, NEW s \in Seq(S), NEW e \in S
  PROVE  /\ Append(s, e) \in Seq(S)
         /\ Len(Append(s, e)) = Len(s) + 1
         /\ \A i \in 1 .. Len(s) : Append(s, e)[i] = s[i]
         /\ Append(s, e)[Len(s) + 1] = e
  OBVIOUS

(* Replacing the last element of a sequence, the top of a stack. *)
LEMMA ReplaceLast ==
  ASSUME NEW S, NEW s \in Seq(S), s # << >>, NEW e \in S
  PROVE  /\ Append(Front(s), e) \in Seq(S)
         /\ Append(Front(s), e) # << >>
         /\ Len(Append(Front(s), e)) = Len(s)
         /\ DOMAIN Append(Front(s), e) = DOMAIN s
         /\ \A i \in 1 .. Len(s) - 1 : Append(Front(s), e)[i] = s[i]
         /\ Append(Front(s), e)[Len(s)] = e
<1> DEFINE t == Append(Front(s), e)
<1>1. /\ Front(s) \in Seq(S) /\ Len(Front(s)) = Len(s) - 1
      /\ \A i \in 1 .. Len(s) - 1 : Front(s)[i] = s[i]
  BY FrontFacts
<1>2. /\ t \in Seq(S) /\ Len(t) = Len(Front(s)) + 1
      /\ \A i \in 1 .. Len(Front(s)) : t[i] = Front(s)[i]
      /\ t[Len(Front(s)) + 1] = e
  BY <1>1, AppendFacts
<1> HIDE DEF t
<1>3. Len(s) \in Nat /\ Len(t) = Len(s)
  BY <1>1, <1>2
<1>4. \A i \in 1 .. Len(s) - 1 : t[i] = s[i]
  BY <1>1, <1>2
<1>5. t # << >> /\ DOMAIN t = DOMAIN s
  BY <1>2, <1>3
<1>6. t[Len(s)] = e
  BY <1>1, <1>2, <1>3
<1> QED BY <1>2, <1>3, <1>4, <1>5, <1>6 DEF t

-----------------------------------------------------------------------------
(* The order of the naturals as a relation, for the theorems of            *)
(* WellFoundedInduction.                                                   *)
LEMMA LessThanRel == \A x, y \in Nat : x < y => << x, y >> \in OpToRel(<, Nat)
  BY DEF OpToRel

(* Min of a nonempty set of naturals is its least element. *)
LEMMA MinInSet ==
  ASSUME NEW S \in SUBSET Nat, S # {}
  PROVE  Min(S) \in S /\ \A y \in S : Min(S) <= y
<1>1. PICK m \in S : \A y \in S : ~ (<< y, m >> \in OpToRel(<, Nat))
  BY NatLessThanWellFounded, WFMin
<1>2. \A y \in S : ~ (y < m)
  BY <1>1, LessThanRel
<1>3. \A y \in S : m <= y
  BY <1>2
<1> QED BY <1>3 DEF Min

(* Max of a nonempty bounded set of naturals is its greatest element. *)
LEMMA MaxInSet ==
  ASSUME NEW n \in Nat, NEW S \in SUBSET (1 .. n), S # {}
  PROVE  Max(S) \in S /\ \A y \in S : Max(S) >= y
<1> DEFINE T == {n - i : i \in S}
<1>1. T \in SUBSET Nat /\ T # {}
  <2>1. PICK x \in S : TRUE
    OBVIOUS
  <2>2. n - x \in T
    BY <2>1
  <2> QED BY <2>2
<1>2. PICK m \in T : \A y \in T : ~ (<< y, m >> \in OpToRel(<, Nat))
  BY <1>1, NatLessThanWellFounded, WFMin
<1>3. \A y \in T : ~ (y < m)
  BY <1>1, <1>2, LessThanRel
<1>4. PICK x \in S : m = n - x
  OBVIOUS
<1>5. \A y \in S : x >= y
  <2>1. \A y \in S : n - y \in T
    OBVIOUS
  <2> QED BY <1>3, <1>4, <2>1
<1> QED BY <1>5 DEF Max

(* Induction, for a set of naturals. *)
LEMMA SetInduction ==
  ASSUME NEW S, 0 \in S, \A n \in Nat : n \in S => n + 1 \in S
  PROVE  \A n \in Nat : n \in S
<1> DEFINE T == {n \in Nat : n \notin S}
<1>1. SUFFICES ASSUME T # {}
               PROVE  FALSE
  OBVIOUS
<1>2. PICK m \in T : \A n \in T : m <= n
  <2>1. T \in SUBSET Nat
    OBVIOUS
  <2> HIDE DEF T
  <2>2. Min(T) \in T /\ \A n \in T : Min(T) <= n
    BY <1>1, <2>1, MinInSet
  <2> QED BY <2>2
<1>3. m # 0 /\ m \in Nat
  OBVIOUS
<1>4. m - 1 \in Nat /\ (m - 1) + 1 = m
  BY <1>3
<1>5. m - 1 \notin T
  BY <1>2, <1>3
<1> QED BY <1>4, <1>5

-----------------------------------------------------------------------------
(* Sequences of things of a kind *)

LEMMA SeqIs ==
  ASSUME NEW A, NEW s \in Seq(A)
  PROVE  Len(s) \in Nat /\ DOMAIN s = 1 .. Len(s) /\ \A i \in DOMAIN s : s[i] \in A
  OBVIOUS

-----------------------------------------------------------------------------
(* Folds *)

(* g is the function that FoldLeft computes over c with the step F.        *)
FoldsWith(F, base, c, n, g) ==
  g = [s \in SUBSET (1 .. n) |->
         IF s = {} THEN base ELSE F[<< g[s \ {Max(s)}], c[Max(s)] >>]]

CanFold(F, X, base, c, n) == \E g \in [SUBSET (1 .. n) -> X] : FoldsWith(F, base, c, n, g)

LEMMA FoldWithMore ==
  ASSUME NEW X, NEW S, NEW base \in X, NEW F \in [X \X S -> X], NEW c, NEW n \in Nat,
         c[n + 1] \in S, CanFold(F, X, base, c, n)
  PROVE  CanFold(F, X, base, c, n + 1)
<1> PICK f \in [SUBSET (1 .. n) -> X] : FoldsWith(F, base, c, n, f)
  BY DEF CanFold
<1>0. ASSUME NEW s \in SUBSET (1 .. n + 1), s # {}
      PROVE  Max(s) \in s /\ \A y \in s : Max(s) >= y
  <2>1. n + 1 \in Nat
    OBVIOUS
  <2> QED BY <1>0, <2>1, MaxInSet
<1> DEFINE g == [s \in SUBSET (1 .. n + 1) |->
                   IF n + 1 \in s THEN F[<< f[s \ {n + 1}], c[n + 1] >>] ELSE f[s]]
<1>1. ASSUME NEW s \in SUBSET (1 .. n + 1)
      PROVE  g[s] = (IF s = {} THEN base ELSE F[<< g[s \ {Max(s)}], c[Max(s)] >>]) /\ g[s] \in X
  <2>0. \A x \in 1 .. n + 1 : x = n + 1 \/ x \in 1 .. n
    OBVIOUS
  <2>1. CASE s = {}
    <3>1. {} \in SUBSET (1 .. n) /\ f[{}] = base
      BY DEF FoldsWith
    <3> QED BY <2>1, <3>1
  <2>2. CASE n + 1 \in s
    <3>1. Max(s) = n + 1
      <4>1. Max(s) \in s /\ Max(s) >= n + 1
        BY <1>0, <2>2
      <4>2. Max(s) \in 1 .. n + 1
        BY <4>1
      <4> QED BY <4>1, <4>2
    <3>2. s \ {n + 1} \in SUBSET (1 .. n + 1) /\ n + 1 \notin s \ {n + 1}
      OBVIOUS
    <3>3. g[s \ {n + 1}] = f[s \ {n + 1}]
      BY <3>2
    <3>4. g[s] = F[<< f[s \ {n + 1}], c[n + 1] >>]
      BY <2>2
    <3>5. s \ {n + 1} \in SUBSET (1 .. n)
      BY <2>0
    <3>6. F[<< f[s \ {n + 1}], c[n + 1] >>] \in X
      BY <3>5
    <3> HIDE DEF g
    <3> QED BY <2>2, <3>1, <3>3, <3>4, <3>6
  <2>3. CASE s # {} /\ n + 1 \notin s
    <3>1. s \in SUBSET (1 .. n)
      BY <2>0, <2>3
    <3>2. Max(s) \in s
      BY <1>0, <2>3
    <3>3. f[s] = F[<< f[s \ {Max(s)}], c[Max(s)] >>] /\ f[s] \in X
      BY <2>3, <3>1 DEF FoldsWith
    <3>4. g[s] = f[s] /\ g[s \ {Max(s)}] = f[s \ {Max(s)}]
      BY <2>3
    <3> HIDE DEF g
    <3> QED BY <2>3, <3>3, <3>4
  <2> QED BY <2>1, <2>2, <2>3
<1>2. g = [s \in SUBSET (1 .. n + 1) |-> g[s]]
  OBVIOUS
<1> HIDE DEF g
<1>3. FoldsWith(F, base, c, n + 1, g)
  BY <1>1, <1>2 DEF FoldsWith
<1>4. g \in [SUBSET (1 .. n + 1) -> X]
  BY <1>1, <1>2
<1> QED BY <1>3, <1>4 DEF CanFold

(* There is such a function for every sequence. *)
LEMMA FoldWithExists ==
  ASSUME NEW X, NEW S, NEW base \in X, NEW F \in [X \X S -> X], NEW c \in Seq(S)
  PROVE  CanFold(F, X, base, c, Len(c))
<1> DEFINE T == {n \in Nat : n <= Len(c) => CanFold(F, X, base, c, n)}
<1>1. Len(c) \in Nat /\ \A i \in 1 .. Len(c) : c[i] \in S
  OBVIOUS
<1>2. 0 \in T
  <2> DEFINE g == [s \in SUBSET (1 .. 0) |-> base]
  <2>1. \A s \in SUBSET (1 .. 0) : s = {}
    OBVIOUS
  <2>2. FoldsWith(F, base, c, 0, g) /\ g \in [SUBSET (1 .. 0) -> X]
    BY <2>1 DEF FoldsWith
  <2> QED BY <2>2 DEF CanFold
<1>3. ASSUME NEW n \in Nat, n \in T
      PROVE  n + 1 \in T
  <2>1. ASSUME n + 1 <= Len(c)
        PROVE  CanFold(F, X, base, c, n + 1)
    <3>1. n <= Len(c) /\ n + 1 \in 1 .. Len(c)
      BY <1>1, <2>1
    <3>2. CanFold(F, X, base, c, n)
      BY <1>3, <3>1, Zenon
    <3>3. c[n + 1] \in S
      BY <1>1, <3>1
    <3> HIDE DEF T
    <3> QED BY <3>2, <3>3, FoldWithMore
  <2>2. n + 1 \in Nat
    OBVIOUS
  <2> QED BY <2>1, <2>2, Zenon
<1> HIDE DEF T
<1>4. Len(c) \in T
  BY <1>1, <1>2, <1>3, SetInduction
<1>5. Len(c) <= Len(c)
  BY <1>1
<1> QED BY <1>4, <1>5, Zenon DEF T

(* f goes through c with the step F, and stays in X. *)
Computes(F, X, S, base, c, f) ==
  /\ f = [s \in SUBSET DOMAIN c |-> f[s]]
  /\ f[{}] = base
  /\ \A s \in SUBSET DOMAIN c : s # {} =>
       /\ f[s] = F[<< f[s \ {Max(s)}], c[Max(s)] >>]
       /\ f[s \ {Max(s)}] \in X /\ c[Max(s)] \in S

LEMMA FoldComputed ==
  ASSUME NEW X, NEW S, NEW base \in X, NEW F \in [X \X S -> X], NEW c \in Seq(S)
  PROVE  \E f : Computes(F, X, S, base, c, f)
<1>1. Len(c) \in Nat /\ DOMAIN c = 1 .. Len(c) /\ \A i \in 1 .. Len(c) : c[i] \in S
  OBVIOUS
<1>2. PICK f \in [SUBSET (1 .. Len(c)) -> X] : FoldsWith(F, base, c, Len(c), f)
  BY FoldWithExists DEF CanFold
<1>3. f = [s \in SUBSET DOMAIN c |-> f[s]]
  BY <1>1, <1>2
<1>4. {} \in SUBSET (1 .. Len(c)) /\ f[{}] = base
  BY <1>2 DEF FoldsWith
<1>5. ASSUME NEW s \in SUBSET DOMAIN c, s # {}
      PROVE  /\ f[s] = F[<< f[s \ {Max(s)}], c[Max(s)] >>]
             /\ f[s \ {Max(s)}] \in X /\ c[Max(s)] \in S
  <2>1. Max(s) \in s
    BY <1>1, <1>5, MaxInSet
  <2>2. f[s] = F[<< f[s \ {Max(s)}], c[Max(s)] >>]
    BY <1>1, <1>2, <1>5 DEF FoldsWith
  <2>3. f[s \ {Max(s)}] \in X
    BY <1>1, <1>2
  <2> QED BY <1>1, <2>1, <2>2, <2>3
<1> QED BY <1>3, <1>4, <1>5 DEF Computes

(* g takes the steps of F wherever they start and end in X and S. *)
StepsWith(F, X, S, base, c, g) ==
  /\ g[{}] = base
  /\ \A s \in SUBSET DOMAIN c : s # {} /\ g[s \ {Max(s)}] \in X /\ c[Max(s)] \in S =>
       g[s] = F[<< g[s \ {Max(s)}], c[Max(s)] >>]

(* What every step of a fold keeps is true of its result: g computes the   *)
(* fold with some step that F agrees with on the values of X.              *)
LEMMA FoldStays ==
  ASSUME NEW X, NEW S, NEW base \in X, NEW F \in [X \X S -> X], NEW c \in Seq(S), NEW g,
         StepsWith(F, X, S, base, c, g)
  PROVE  g[DOMAIN c] \in X
<1> DEFINE T == {n \in Nat : n <= Len(c) => g[1 .. n] \in X}
<1>1. Len(c) \in Nat /\ DOMAIN c = 1 .. Len(c) /\ \A i \in 1 .. Len(c) : c[i] \in S
  OBVIOUS
<1>2. 0 \in T
  <2>1. 1 .. 0 = {}
    OBVIOUS
  <2> QED BY <2>1 DEF StepsWith
<1>3. ASSUME NEW n \in Nat, n \in T
      PROVE  n + 1 \in T
  <2> SUFFICES ASSUME n + 1 <= Len(c)
               PROVE  g[1 .. n + 1] \in X
    OBVIOUS
  <2>1. g[1 .. n] \in X /\ n + 1 \in 1 .. Len(c)
    BY <1>1, <1>3
  <2>2. 1 .. n + 1 \in SUBSET (1 .. Len(c)) /\ 1 .. n + 1 # {} /\ n + 1 \in Nat
    <3>1. n + 1 \in 1 .. n + 1 /\ n + 1 \in Nat
      OBVIOUS
    <3>2. \A i \in 1 .. n + 1 : i \in 1 .. Len(c)
      BY <1>1, <2>1
    <3> QED BY <3>1, <3>2, Zenon
  <2>3. Max(1 .. n + 1) = n + 1
    <3>1. 1 .. n + 1 \in SUBSET (1 .. n + 1) /\ n + 1 \in 1 .. n + 1
      OBVIOUS
    <3>2. Max(1 .. n + 1) \in 1 .. n + 1 /\ \A y \in 1 .. n + 1 : Max(1 .. n + 1) >= y
      BY <2>2, <3>1, MaxInSet
    <3>3. Max(1 .. n + 1) >= n + 1
      BY <3>1, <3>2
    <3> QED BY <3>2, <3>3
  <2>4. (1 .. n + 1) \ {n + 1} = 1 .. n
    OBVIOUS
  <2>6. c[n + 1] \in S
    BY <1>1, <2>1
  <2>5. g[1 .. n + 1] = F[<< g[1 .. n], c[n + 1] >>]
    BY <1>1, <2>1, <2>2, <2>3, <2>4, <2>6 DEF StepsWith
  <2> QED BY <2>1, <2>5, <2>6
<1> HIDE DEF T
<1>4. Len(c) \in T
  BY <1>1, <1>2, <1>3, SetInduction
<1> QED BY <1>1, <1>4 DEF T

-----------------------------------------------------------------------------
(* Functions that recur to smaller numbers *)

(* f is given by what G makes of a number and of f up to it.               *)
Follows(G, m, f) == \A n \in 1 .. m : f[n] = G[<< n, [k \in 1 .. n - 1 |-> f[k]] >>]

Beginnings(X, N) == UNION {[1 .. m -> X] : m \in 0 .. N}

CanFollow(G, X, m) == \E f \in [1 .. m -> X] : Follows(G, m, f)

LEMMA FollowMore ==
  ASSUME NEW X, NEW N \in Nat, NEW G \in [(1 .. N) \X Beginnings(X, N) -> X],
         NEW m \in Nat, m + 1 <= N, CanFollow(G, X, m)
  PROVE  CanFollow(G, X, m + 1)
<1>1. PICK f \in [1 .. m -> X] : Follows(G, m, f)
  BY DEF CanFollow
<1>2. m + 1 \in 1 .. N /\ m \in 0 .. N
  OBVIOUS
<1>3. f \in Beginnings(X, N)
  BY <1>2 DEF Beginnings
<1>4. PICK x \in X : x = G[<< m + 1, f >>]
  BY <1>2, <1>3
<1> DEFINE g == [k \in 1 .. m + 1 |-> IF k <= m THEN f[k] ELSE x]
<1>5. g \in [1 .. m + 1 -> X]
  OBVIOUS
<1>6. /\ \A n \in 1 .. m : g[n] = f[n]
      /\ g[m + 1] = x
  OBVIOUS
<1> HIDE DEF g
<1>7. ASSUME NEW n \in 1 .. m
      PROVE  g[n] = G[<< n, [k \in 1 .. n - 1 |-> g[k]] >>]
  <2>1. [k \in 1 .. n - 1 |-> g[k]] = [k \in 1 .. n - 1 |-> f[k]]
    <3>1. \A k \in 1 .. n - 1 : k \in 1 .. m
      OBVIOUS
    <3> QED BY <1>6, <3>1
  <2>2. f[n] = G[<< n, [k \in 1 .. n - 1 |-> f[k]] >>]
    BY <1>1 DEF Follows
  <2> QED BY <1>6, <2>1, <2>2
<1>8. g[m + 1] = G[<< m + 1, [k \in 1 .. (m + 1) - 1 |-> g[k]] >>]
  <2>1. 1 .. (m + 1) - 1 = 1 .. m
    OBVIOUS
  <2>2. [k \in 1 .. m |-> g[k]] = f
    BY <1>6
  <2> QED BY <1>4, <1>6, <2>1, <2>2
<1>9. Follows(G, m + 1, g)
  <2>1. \A n \in 1 .. m + 1 : n \in 1 .. m \/ n = m + 1
    OBVIOUS
  <2> QED BY <1>7, <1>8, <2>1 DEF Follows
<1> QED BY <1>5, <1>9 DEF CanFollow

LEMMA FollowExists ==
  ASSUME NEW X, NEW N \in Nat, NEW G \in [(1 .. N) \X Beginnings(X, N) -> X]
  PROVE  \E f \in [1 .. N -> X] : Follows(G, N, f)
<1> DEFINE T == {m \in Nat : m <= N => CanFollow(G, X, m)}
<1>1. 0 \in T
  <2> DEFINE f == [k \in 1 .. 0 |-> CHOOSE x \in X : TRUE]
  <2>1. Follows(G, 0, f) /\ f \in [1 .. 0 -> X]
    BY DEF Follows
  <2> HIDE DEF f
  <2> QED BY <2>1 DEF CanFollow
<1>2. ASSUME NEW m \in Nat, m \in T
      PROVE  m + 1 \in T
  <2>1. ASSUME m + 1 <= N
        PROVE  CanFollow(G, X, m + 1)
    <3>1. m <= N
      BY <2>1
    <3>2. CanFollow(G, X, m)
      BY <1>2, <3>1, Zenon
    <3> HIDE DEF T
    <3> QED BY <2>1, <3>2, FollowMore
  <2>2. m + 1 \in Nat
    OBVIOUS
  <2> QED BY <2>1, <2>2, Zenon
<1> HIDE DEF T
<1>3. N \in T /\ N <= N
  BY <1>1, <1>2, SetInduction
<1> QED BY <1>3, Zenon DEF T, CanFollow

-----------------------------------------------------------------------------
(* Sequences of sequences *)

LEMMA FlattenSeqIs ==
  ASSUME NEW S, NEW ss \in Seq(Seq(S))
  PROVE  FlattenSeq(ss) \in Seq(S)
<1> DEFINE n == Len(ss)
           X == Seq(S)
           Is(f) == f = [i \in 1 .. n |-> IF i = 1 THEN ss[i] ELSE f[i - 1] \o ss[i]]
           G == [a \in (1 .. n) \X Beginnings(X, n) |->
                   IF a[1] = 1 THEN ss[1]
                   ELSE IF DOMAIN a[2] = 1 .. a[1] - 1 THEN a[2][a[1] - 1] \o ss[a[1]] ELSE << >>]
<1>1. n \in Nat /\ \A i \in 1 .. n : ss[i] \in X
  OBVIOUS
<1>2. CASE n = 0
  <2>1. ss = << >> /\ FlattenSeq(ss) = ss
    BY <1>2 DEF FlattenSeq
  <2>2. << >> \in Seq(S)
    OBVIOUS
  <2> QED BY <2>1, <2>2, Zenon
<1>3. CASE n # 0
  <2>1. \A f : Is(f) => \A i \in 1 .. n : f[i] \in X
    <3> SUFFICES ASSUME NEW f, Is(f)
                 PROVE  \A i \in 1 .. n : f[i] \in X
      BY Zenon
    <3> DEFINE T == {m \in Nat : m \in 1 .. n => f[m] \in X}
    <3>1. 0 \in T
      OBVIOUS
    <3>2. ASSUME NEW m \in Nat, m \in T
          PROVE  m + 1 \in T
      <4>1. ASSUME m + 1 \in 1 .. n
            PROVE  f[m + 1] \in X
        <5>1. f[m + 1] = IF m + 1 = 1 THEN ss[m + 1] ELSE f[(m + 1) - 1] \o ss[m + 1]
          BY <4>1
        <5>2. m + 1 # 1 => m \in 1 .. n
          BY <1>1, <4>1
        <5>3. (m + 1) - 1 = m
          OBVIOUS
        <5>4. m + 1 # 1 => f[m] \in X
          BY <3>2, <5>2
        <5>5. ss[m + 1] \in X
          BY <1>1, <4>1
        <5>6. CASE m + 1 = 1
          BY <5>1, <5>5, <5>6, Zenon
        <5>7. CASE m + 1 # 1
          <6>1. PICK a \in Seq(S), b \in Seq(S) : a = f[m] /\ b = ss[m + 1]
            BY <5>4, <5>5, <5>7
          <6>2. a \o b \in Seq(S)
            OBVIOUS
          <6>3. f[m + 1] = a \o b
            BY <5>1, <5>3, <5>7, <6>1, Zenon
          <6> QED BY <6>2, <6>3, Zenon
        <5> QED BY <5>6, <5>7
      <4>2. m + 1 \in Nat
        OBVIOUS
      <4> QED BY <4>1, <4>2
    <3> HIDE DEF T, n, X, Is
    <3>3. \A m \in Nat : m \in T
      BY <3>1, <3>2, SetInduction
    <3> QED BY <1>1, <3>3 DEF T
  <2>2. G \in [(1 .. n) \X Beginnings(X, n) -> X]
    <3>1. ASSUME NEW a \in (1 .. n) \X Beginnings(X, n)
          PROVE  /\ a[1] = 1 => ss[1] \in X
                 /\ a[1] # 1 /\ DOMAIN a[2] = 1 .. a[1] - 1 => a[2][a[1] - 1] \o ss[a[1]] \in X
                 /\ << >> \in X
      <4>1. PICK i \in 1 .. n, m \in 0 .. n : a[1] = i /\ a[2] \in [1 .. m -> X]
        BY <3>1 DEF Beginnings
      <4>2. PICK r \in [1 .. m -> X] : a[2] = r
        BY <4>1
      <4>3. DOMAIN r = 1 .. m
        BY <4>1
      <4>4. ASSUME i # 1, DOMAIN r = 1 .. i - 1
            PROVE  r[i - 1] \o ss[i] \in X
        <5>1. i - 1 \in DOMAIN r
          BY <4>4, <4>1
        <5>2. r[i - 1] \in X /\ ss[i] \in X
          BY <1>1, <4>3, <5>1
        <5> QED BY <5>2
      <4>5. i = 1 => ss[1] \in X
        BY <1>1
      <4> HIDE DEF X
      <4>6. << >> \in X
        BY DEF X
      <4> QED BY <4>1, <4>2, <4>4, <4>5, <4>6
    <3> HIDE DEF X, n
    <3> QED BY <3>1
  <2>3. \E f : Is(f)
    <3>1. PICK f \in [1 .. n -> X] : Follows(G, n, f)
      <4> HIDE DEF G, n, X
      <4> QED BY <1>1, <2>2, FollowExists
    <3>2. ASSUME NEW i \in 1 .. n
          PROVE  f[i] = IF i = 1 THEN ss[i] ELSE f[i - 1] \o ss[i]
      <4> DEFINE r == [k \in 1 .. i - 1 |-> f[k]]
      <4>1. f[i] = G[<< i, r >>]
        <5> HIDE DEF G, n, X
        <5> QED BY <3>1 DEF Follows
      <4>2. r \in [1 .. i - 1 -> X] /\ i - 1 \in 0 .. n
        BY <1>1
      <4>3. r \in Beginnings(X, n)
        BY <4>2 DEF Beginnings
      <4>4. DOMAIN r = 1 .. i - 1 /\ (i # 1 => r[i - 1] = f[i - 1])
        BY <1>1
      <4> HIDE DEF r, X, n
      <4>5. G[<< i, r >>] = IF i = 1 THEN ss[1] ELSE r[i - 1] \o ss[i]
        BY <4>3, <4>4
      <4> QED BY <4>1, <4>4, <4>5
    <3>3. Is(f)
      <4> HIDE DEF G, n, X
      <4> QED BY <3>2
    <3> QED BY <3>3
  <2>4. FlattenSeq(ss) = (CHOOSE f : Is(f))[n]
    BY <1>3 DEF FlattenSeq
  <2>5. PICK f : Is(f) /\ FlattenSeq(ss) = f[n]
    BY <2>3, <2>4
  <2>6. n \in 1 .. n
    BY <1>1, <1>3
  <2> HIDE DEF Is, n
  <2> QED BY <2>1, <2>5, <2>6
<1> QED BY <1>2, <1>3

=============================================================================
