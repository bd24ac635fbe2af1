--------------------------- MODULE InternsProofs ---------------------------
(***************************************************************************)
(* The intern table keeps the promise of InternSpec for every set of       *)
(* strings, every hash function and every initial capacity.  The invariant *)
(* that carries the proof is the one of open addressing: no slot is empty  *)
(* between a string's home and the slot that holds it, in the table and,   *)
(* while it is rehashed, in the table that will replace it.                *)
(***************************************************************************)
EXTENDS Interns, TLAPS

(* No probe for a string of the table meets an empty slot before it. *)
NoGap(table, c) ==
  \A p \in 0 .. c - 1 : table[p] # NoString =>
    \A q \in Before(Home(table[p], c), p, c) : table[q] # NoString

(* A string of the table is in one slot only. *)
Once(table, c) ==
  \A p, q \in 0 .. c - 1 : table[p] # NoString /\ table[p] = table[q] => p = q

IndexInTable == \A i \in DOMAIN index : \E p \in 0 .. cap - 1 : slots[p] = index[i]

RehashedSoFar ==
  /\ NoGap(newSlots, 2 * cap) /\ Once(newSlots, 2 * cap)
  /\ \A p \in 0 .. 2 * cap - 1 : newSlots[p] # NoString =>
       \E q \in 0 .. cap - 1 : q < cursor /\ slots[q] = newSlots[p]
  /\ \A q \in 0 .. cap - 1 : q < cursor /\ slots[q] # NoString =>
       \E p \in 0 .. 2 * cap - 1 : newSlots[p] = slots[q]

(* What the probe has passed is neither empty nor the string it looks for. *)
ProbedSoFar ==
  /\ cursor \in 0 .. cap - 1
  /\ \A q \in Before(Home(arg, cap), cursor, cap) : slots[q] \notin {NoString, arg}

IInv ==
  /\ TypeOK
  /\ NoGap(slots, cap)
  /\ Once(slots, cap)
  /\ IndexInTable
  /\ pc = "grow" => RehashedSoFar
  /\ pc = "probe" => ProbedSoFar

-----------------------------------------------------------------------------

(* hash_str(s) & (cap - 1) is a slot of the table. *)
LEMMA HomeInTable ==
  ASSUME NEW s \in String, NEW c \in Nat \ {0}
  PROVE  Home(s, c) \in 0 .. c - 1
BY HashAssumption DEF Home

(* Of two slots, a probe passes one before it reaches the other. *)
LEMMA BeforeTotal ==
  ASSUME NEW c \in Nat \ {0}, NEW h \in 0 .. c - 1, NEW p \in 0 .. c - 1, NEW q \in 0 .. c - 1,
         p # q
  PROVE  p \in Before(h, q, c) \/ q \in Before(h, p, c)
BY DEF Before

(* A probe that moves on has passed one more slot, or none when it is back *)
(* at the first.                                                           *)
LEMMA BeforeNext ==
  ASSUME NEW c \in Nat \ {0}, NEW h \in 0 .. c - 1, NEW p \in 0 .. c - 1,
         NEW r, r = IF p + 1 = c THEN 0 ELSE p + 1
  PROVE  r \in 0 .. c - 1 /\ Before(h, r, c) \subseteq Before(h, p, c) \cup {p}
BY DEF Before

(* A probe of interns_intern that ends at an empty slot has passed every   *)
(* slot the string could be in: the string it looks for is new.            *)
LEMMA EmptySlotMeansNew ==
  ASSUME IInv, pc = "probe", slots[cursor] = NoString
  PROVE  \A p \in 0 .. cap - 1 : slots[p] # arg
<1> SUFFICES ASSUME NEW p \in 0 .. cap - 1, slots[p] = arg PROVE FALSE
  OBVIOUS
<1>1. arg \in String /\ cap \in Nat \ {0} /\ Home(arg, cap) \in 0 .. cap - 1
  BY HomeInTable DEF IInv, TypeOK
<1>2. arg # NoString /\ p # cursor /\ cursor \in 0 .. cap - 1
  BY <1>1, StringAssumption DEF IInv, ProbedSoFar
<1>3. p \in Before(Home(arg, cap), cursor, cap) \/ cursor \in Before(Home(arg, cap), p, cap)
  BY <1>1, <1>2, BeforeTotal
<1>4. p \notin Before(Home(arg, cap), cursor, cap)
  BY DEF IInv, ProbedSoFar
<1>5. cursor \notin Before(Home(arg, cap), p, cap)
  BY <1>2 DEF IInv, NoGap
<1> QED BY <1>3, <1>4, <1>5

(* Filling an empty slot that a probe for a new string has reached leaves  *)
(* no gap and no string twice.                                             *)
LEMMA FillKeepsTable ==
  ASSUME NEW c \in Nat \ {0}, NEW table \in [0 .. c - 1 -> String \cup {NoString}],
         NoGap(table, c), NEW s \in String, NEW p \in 0 .. c - 1,
         \A q \in Before(Home(s, c), p, c) : table[q] # NoString,
         Once(table, c), \A q \in 0 .. c - 1 : table[q] # s
  PROVE  /\ NoGap([table EXCEPT ![p] = s], c)
         /\ Once([table EXCEPT ![p] = s], c)
         /\ [table EXCEPT ![p] = s] \in [0 .. c - 1 -> String \cup {NoString}]
<1> DEFINE filled == [table EXCEPT ![p] = s]
<1>1. filled \in [0 .. c - 1 -> String \cup {NoString}]
  OBVIOUS
<1>2. /\ filled[p] = s /\ s # NoString
      /\ \A q \in 0 .. c - 1 : q # p => filled[q] = table[q]
  BY StringAssumption
<1> HIDE DEF filled
<1>3. ASSUME NEW r \in 0 .. c - 1, filled[r] # NoString,
             NEW q \in Before(Home(filled[r], c), r, c)
      PROVE  filled[q] # NoString
  <2>1. q \in 0 .. c - 1
    BY <1>3 DEF Before
  <2>2. CASE r = p
    BY <1>2, <1>3, <2>1, <2>2
  <2>3. CASE r # p
    BY <1>2, <1>3, <2>1, <2>3 DEF NoGap
  <2> QED BY <2>2, <2>3
<1>4. NoGap(filled, c)
  BY <1>3 DEF NoGap
<1>5. Once(filled, c)
  BY <1>2 DEF Once
<1> QED BY <1>1, <1>4, <1>5 DEF filled

-----------------------------------------------------------------------------

(* A new table holds nothing. *)
LEMMA InitEstablishes == Init => IInv
BY CapAssumption
   DEF Init, IInv, TypeOK, EmptyTable, NoGap, Once, IndexInTable

(* A call starts to grow an empty table, or probes at the string's home. *)
LEMMA CallStep ==
  ASSUME IInv, NEW s \in String, Call(s)
  PROVE  IInv'
<1>1. cap \in Nat \ {0} /\ UNCHANGED << slots, cap, index, indexCap, used, answer, failures >>
  BY DEF IInv, TypeOK, Call
<1>2. Home(s, cap) \in 0 .. cap - 1 /\ Before(Home(s, cap), Home(s, cap), cap) = {}
  BY <1>1, HomeInTable DEF Before
<1>3. NoGap(slots, cap)' /\ Once(slots, cap)' /\ IndexInTable'
  BY <1>1 DEF IInv, NoGap, Once, IndexInTable
<1>4. CASE MustGrow
  <2>1. pc' = "grow" /\ newSlots' = EmptyTable(2 * cap) /\ cursor' = 0 /\ arg' = s
    BY <1>4 DEF Call
  <2>2. newSlots' \in [0 .. 2 * cap - 1 -> String \cup {NoString}] /\ NoGap(newSlots', 2 * cap)
      /\ Once(newSlots', 2 * cap) /\ \A p \in 0 .. 2 * cap - 1 : newSlots'[p] = NoString
    BY <2>1 DEF EmptyTable, NoGap, Once
  <2>3. TypeOK'
    BY <1>1, <2>1, <2>2 DEF IInv, TypeOK
  <2>4. RehashedSoFar'
    BY <1>1, <2>1, <2>2 DEF RehashedSoFar
  <2> QED BY <1>3, <2>1, <2>3, <2>4 DEF IInv
<1>5. CASE ~MustGrow
  <2>1. pc' = "probe" /\ cursor' = Home(s, cap) /\ arg' = s
    BY <1>5 DEF Call
  <2>2. TypeOK'
    BY <1>1, <1>2, <2>1 DEF IInv, TypeOK
  <2>3. ProbedSoFar'
    BY <1>1, <1>2, <2>1 DEF ProbedSoFar
  <2> QED BY <1>3, <2>1, <2>2, <2>3 DEF IInv
<1> QED BY <1>4, <1>5

(* Rehashing puts each string into the first empty slot of the new table.  *)
LEMMA RehashStep ==
  ASSUME IInv, Rehash
  PROVE  IInv'
<1>1. /\ cap \in Nat \ {0} /\ cursor \in 0 .. cap - 1 /\ pc = "grow" /\ 2 * cap \in Nat \ {0}
      /\ slots \in [0 .. cap - 1 -> String \cup {NoString}]
      /\ newSlots \in [0 .. 2 * cap - 1 -> String \cup {NoString}]
      /\ NoGap(newSlots, 2 * cap) /\ Once(newSlots, 2 * cap)
  BY DEF IInv, TypeOK, Rehash, RehashedSoFar
<1>2. UNCHANGED << slots, cap, index, indexCap, used, arg, answer, pc, failures >>
      /\ cursor' = cursor + 1
  BY DEF Rehash
<1>3. NoGap(slots, cap)' /\ Once(slots, cap)' /\ IndexInTable'
  BY <1>2 DEF IInv, NoGap, Once, IndexInTable
<1>4. /\ newSlots' \in [0 .. 2 * cap - 1 -> String \cup {NoString}]
      /\ NoGap(newSlots', 2 * cap) /\ Once(newSlots', 2 * cap)
      /\ \A p \in 0 .. 2 * cap - 1 : newSlots[p] # NoString => newSlots'[p] = newSlots[p]
      /\ \A p \in 0 .. 2 * cap - 1 : newSlots'[p] # NoString =>
           newSlots'[p] = newSlots[p] \/ newSlots'[p] = slots[cursor]
      /\ slots[cursor] # NoString => \E p \in 0 .. 2 * cap - 1 : newSlots'[p] = slots[cursor]
  <2>1. CASE slots[cursor] = NoString
    BY <1>1, <2>1 DEF Rehash
  <2>2. CASE slots[cursor] # NoString
    <3>1. PICK p \in 0 .. 2 * cap - 1 :
            /\ FreeFor(newSlots, 2 * cap, slots[cursor], p)
            /\ newSlots' = [newSlots EXCEPT ![p] = slots[cursor]]
      BY <2>2 DEF Rehash
    <3>2. slots[cursor] \in String
      BY <1>1, <2>2
    <3>3. \A q \in 0 .. 2 * cap - 1 : newSlots[q] # slots[cursor]
      <4> SUFFICES ASSUME NEW q \in 0 .. 2 * cap - 1, newSlots[q] = slots[cursor] PROVE FALSE
        OBVIOUS
      <4>1. PICK r \in 0 .. cap - 1 : r < cursor /\ slots[r] = slots[cursor]
        BY <1>1, <2>2 DEF IInv, RehashedSoFar
      <4>2. r = cursor
        BY <1>1, <2>2, <4>1 DEF IInv, Once
      <4> QED BY <1>1, <4>1, <4>2
    <3>6. /\ NoGap(newSlots', 2 * cap) /\ Once(newSlots', 2 * cap)
          /\ newSlots' \in [0 .. 2 * cap - 1 -> String \cup {NoString}]
      BY <1>1, <3>1, <3>2, <3>3, FillKeepsTable DEF FreeFor
    <3>4. newSlots'[p] = slots[cursor] /\ newSlots[p] = NoString
      BY <1>1, <3>1 DEF FreeFor
    <3>5. \A q \in 0 .. 2 * cap - 1 : q # p => newSlots'[q] = newSlots[q]
      BY <1>1, <3>1
    <3> QED BY <3>4, <3>5, <3>6
  <2> QED BY <2>1, <2>2
<1>5. TypeOK'
  BY <1>1, <1>2, <1>4 DEF IInv, TypeOK
<1>6. RehashedSoFar'
  <2>1. ASSUME NEW q \in 0 .. cap - 1, q < cursor + 1, slots[q] # NoString
        PROVE  \E p \in 0 .. 2 * cap - 1 : newSlots'[p] = slots[q]
    <3>1. CASE q = cursor
      BY <1>4, <2>1, <3>1
    <3>2. CASE q < cursor
      <4>1. PICK p \in 0 .. 2 * cap - 1 : newSlots[p] = slots[q]
        BY <1>1, <2>1, <3>2 DEF IInv, RehashedSoFar
      <4> QED BY <1>4, <2>1, <4>1
    <3> QED BY <1>1, <2>1, <3>1, <3>2
  <2>2. ASSUME NEW p \in 0 .. 2 * cap - 1, newSlots'[p] # NoString
        PROVE  \E q \in 0 .. cap - 1 : q < cursor + 1 /\ slots[q] = newSlots'[p]
    <3>1. CASE newSlots'[p] = slots[cursor]
      BY <1>1, <3>1
    <3>2. CASE newSlots'[p] = newSlots[p]
      <4>1. PICK q \in 0 .. cap - 1 : q < cursor /\ slots[q] = newSlots[p]
        BY <1>1, <2>2, <3>2 DEF IInv, RehashedSoFar
      <4> QED BY <1>1, <3>2, <4>1
    <3> QED BY <1>4, <2>2, <3>1, <3>2
  <2> QED BY <1>2, <1>4, <2>1, <2>2 DEF RehashedSoFar
<1> QED BY <1>1, <1>2, <1>3, <1>5, <1>6 DEF IInv

(* The grown table holds every string of the old one, and has no gap.      *)
LEMMA GrowDoneStep ==
  ASSUME IInv, GrowDone
  PROVE  IInv'
<1>1. /\ cap \in Nat \ {0} /\ 2 * cap \in Nat \ {0} /\ pc = "grow" /\ cursor = cap
      /\ arg \in String /\ index \in Seq(String)
      /\ slots \in [0 .. cap - 1 -> String \cup {NoString}]
      /\ newSlots \in [0 .. 2 * cap - 1 -> String \cup {NoString}]
      /\ NoGap(newSlots, 2 * cap) /\ Once(newSlots, 2 * cap)
  BY DEF IInv, TypeOK, GrowDone, RehashedSoFar
<1>2. /\ UNCHANGED << index, indexCap, used, arg, answer, newSlots, failures >>
      /\ slots' = newSlots /\ cap' = 2 * cap /\ pc' = "probe"
      /\ cursor' = Home(arg, 2 * cap)
  BY DEF GrowDone
<1>3. Home(arg, 2 * cap) \in 0 .. 2 * cap - 1
      /\ Before(Home(arg, 2 * cap), Home(arg, 2 * cap), 2 * cap) = {}
  BY <1>1, HomeInTable DEF Before
<1>4. TypeOK'
  BY <1>1, <1>2, <1>3 DEF IInv, TypeOK
<1>5. IndexInTable'
  <2>1. ASSUME NEW i \in DOMAIN index
        PROVE  \E p \in 0 .. 2 * cap - 1 : newSlots[p] = index[i]
    <3>1. PICK q \in 0 .. cap - 1 : slots[q] = index[i]
      BY DEF IInv, IndexInTable
    <3>2. q < cursor /\ slots[q] # NoString
      BY <1>1, <3>1, StringAssumption
    <3> QED BY <1>1, <3>1, <3>2 DEF IInv, RehashedSoFar
  <2> QED BY <1>2, <2>1 DEF IndexInTable
<1>6. NoGap(slots, cap)' /\ Once(slots, cap)' /\ ProbedSoFar'
  BY <1>1, <1>2, <1>3 DEF NoGap, Once, ProbedSoFar
<1> QED BY <1>2, <1>4, <1>5, <1>6 DEF IInv

(* The probe has passed one more slot that is neither empty nor the string. *)
LEMMA ProbeNextStep ==
  ASSUME IInv, ProbeNext
  PROVE  IInv'
<1>1. /\ cap \in Nat \ {0} /\ cursor \in 0 .. cap - 1 /\ arg \in String
      /\ slots[cursor] \notin {NoString, arg} /\ pc = "probe"
      /\ UNCHANGED << slots, cap, index, indexCap, used, arg, answer, pc, newSlots, failures >>
      /\ cursor' = IF cursor + 1 = cap THEN 0 ELSE cursor + 1
  BY DEF IInv, TypeOK, ProbeNext, ProbedSoFar
<1>2. /\ cursor' \in 0 .. cap - 1
      /\ Before(Home(arg, cap), cursor', cap) \subseteq Before(Home(arg, cap), cursor, cap) \cup {cursor}
  BY <1>1, HomeInTable, BeforeNext
<1>3. TypeOK'
  BY <1>1, <1>2 DEF IInv, TypeOK
<1>4. NoGap(slots, cap)' /\ Once(slots, cap)' /\ IndexInTable' /\ ProbedSoFar'
  BY <1>1, <1>2 DEF IInv, NoGap, Once, IndexInTable, ProbedSoFar
<1> QED BY <1>1, <1>3, <1>4 DEF IInv

(* The call returns, with a symbol or without, and the table is as it was. *)
LEMMA ReturnStep ==
  ASSUME IInv, Found \/ ArenaFull \/ \E s \in String : GrowFails(s)
  PROVE  IInv'
<1>1. /\ UNCHANGED << slots, cap, index, indexCap, used, newSlots, cursor >>
      /\ pc' = "idle" /\ arg' \in String
      /\ answer' \in [string : String \cup {NoString}, sym : Nat]
      /\ failures' \in Nat
  BY DEF IInv, TypeOK, Found, ArenaFull, GrowFails, AnswerWith, AllocationFails
<1>2. TypeOK'
  BY <1>1 DEF IInv, TypeOK
<1> QED BY <1>1, <1>2 DEF IInv, NoGap, Once, IndexInTable

(* A string is written into the empty slot the probe has reached, with a   *)
(* symbol (Insert) or, when the index cannot grow, without (IndexFails).   *)
LEMMA WriteStep ==
  ASSUME IInv, Insert \/ IndexFails
  PROVE  IInv'
<1>1. /\ cap \in Nat \ {0} /\ cursor \in 0 .. cap - 1 /\ arg \in String /\ pc = "probe"
      /\ slots \in [0 .. cap - 1 -> String \cup {NoString}]
      /\ slots[cursor] = NoString /\ NoGap(slots, cap) /\ index \in Seq(String)
      /\ used \in Nat /\ indexCap \in Nat /\ failures \in Nat
  BY DEF IInv, TypeOK, Insert, IndexFails, WriteSlot, ProbedSoFar
<1>2. /\ slots' = [slots EXCEPT ![cursor] = arg] /\ used' = used + Size[arg] /\ Fits(arg)
      /\ UNCHANGED << cap, arg, newSlots, cursor >> /\ pc' = "idle"
      /\ index' \in {index, Append(index, arg)}
      /\ indexCap' \in {indexCap, MinCap, 2 * indexCap}
      /\ answer' \in {[string |-> arg, sym |-> 0], [string |-> arg, sym |-> Len(index) + 1]}
      /\ failures' \in {failures, failures + 1}
  BY DEF Insert, IndexFails, WriteSlot, AnswerWith, AllocationFails
<1>3. /\ NoGap(slots', cap) /\ Once(slots', cap)
      /\ slots' \in [0 .. cap - 1 -> String \cup {NoString}]
  BY <1>1, <1>2, EmptySlotMeansNew, FillKeepsTable DEF IInv, ProbedSoFar
<1>4. TypeOK'
  <2>1. index' \in Seq(String) /\ Len(index) \in Nat
    <3>1. Append(index, arg) \in Seq(String)
      BY <1>1
    <3>2. Len(index) \in Nat
      BY <1>1
    <3>3. index' = index \/ index' = Append(index, arg)
      BY <1>2
    <3> QED BY <1>1, <3>1, <3>2, <3>3
  <2>2. used' \in 0 .. ArenaCap
    BY <1>1, <1>2, SizeAssumption, CapAssumption DEF Fits
  <2>3. indexCap' \in Nat /\ failures' \in Nat
    BY <1>1, <1>2, CapAssumption
  <2>4. answer' \in [string : String \cup {NoString}, sym : Nat]
    BY <1>1, <1>2, <2>1
  <2> QED BY <1>1, <1>2, <1>3, <2>1, <2>2, <2>3, <2>4 DEF IInv, TypeOK
<1>5. IndexInTable'
  <2>1. ASSUME NEW i \in DOMAIN index'
        PROVE  \E p \in 0 .. cap - 1 : slots'[p] = index'[i]
    <3>1. CASE i \in DOMAIN index /\ index'[i] = index[i]
      <4>1. PICK p \in 0 .. cap - 1 : slots[p] = index[i]
        BY <3>1 DEF IInv, IndexInTable
      <4>2. p # cursor
        <5>1. index[i] \in String
          BY <1>1, <3>1
        <5> QED BY <1>1, <4>1, <5>1, StringAssumption
      <4> QED BY <1>1, <1>2, <3>1, <4>1, <4>2
    <3>2. CASE index'[i] = arg
      BY <1>1, <1>2, <3>2
    <3>3. \/ i \in DOMAIN index /\ index'[i] = index[i]
          \/ index'[i] = arg
      <4>1. CASE index' = index
        BY <2>1, <4>1
      <4>2. CASE index' = Append(index, arg)
        <5>1. Len(index') = Len(index) + 1 /\ \A j \in 1 .. Len(index) : index'[j] = index[j]
          BY <1>1, <4>2
        <5>2. index'[Len(index) + 1] = arg /\ DOMAIN index' = 1 .. Len(index) + 1
              /\ DOMAIN index = 1 .. Len(index) /\ Len(index) \in Nat
          BY <1>1, <4>2
        <5> QED BY <2>1, <5>1, <5>2
      <4> QED BY <1>2, <4>1, <4>2
    <3> QED BY <3>1, <3>2, <3>3
  <2> QED BY <1>2, <2>1 DEF IndexInTable
<1> QED BY <1>2, <1>3, <1>4, <1>5 DEF IInv, NoGap, Once

(* No step of interns_intern breaks the invariant. *)
THEOREM StepKeepsInvariant == IInv /\ [Next]_vars => IInv'
<1> SUFFICES ASSUME IInv, [Next]_vars PROVE IInv'
  OBVIOUS
<1>1. CASE UNCHANGED vars
  BY <1>1 DEF vars, IInv, TypeOK, NoGap, Once, IndexInTable, RehashedSoFar, ProbedSoFar
<1>2. CASE InCall
  BY <1>2, RehashStep, GrowDoneStep, ProbeNextStep, ReturnStep, WriteStep DEF InCall
<1> QED BY <1>1, <1>2, CallStep, ReturnStep DEF Next

(* The table, its index and its arena keep their types and bounds. *)
THEOREM TableTyped == Spec => []TypeOK
<1>1. IInv => TypeOK
  BY DEF IInv
<1> QED BY <1>1, InitEstablishes, StepKeepsInvariant, PTL DEF Spec

(* Every string that has a symbol is found by a probe, for every hash      *)
(* function and after every growth (intern_table_grow, interns_intern).    *)
THEOREM SymbolsAlwaysFindable == Spec => []SymbolsFindable
<1>1. IInv => SymbolsFindable
  <2> SUFFICES ASSUME IInv, NEW i \in DOMAIN index
               PROVE  \E p \in 0 .. cap - 1 : slots[p] = index[i] /\ StopsAt(slots, cap, index[i], p)
    BY DEF SymbolsFindable
  <2>1. PICK p \in 0 .. cap - 1 : slots[p] = index[i]
    BY DEF IInv, IndexInTable
  <2>2. slots[p] \in String /\ slots[p] # NoString
    BY <2>1, StringAssumption DEF IInv, TypeOK
  <2>3. ASSUME NEW q \in Before(Home(slots[p], cap), p, cap)
        PROVE  slots[q] \notin {NoString, slots[p]}
    <3>1. q \in 0 .. cap - 1 /\ q # p
      <4>1. Home(slots[p], cap) \in 0 .. cap - 1 /\ cap \in Nat \ {0}
        BY <2>2, HomeInTable DEF IInv, TypeOK
      <4> HIDE DEF Home
      <4> QED BY <4>1, <2>3 DEF Before
    <3> QED BY <2>2, <2>3, <3>1 DEF IInv, NoGap, Once
  <2> QED BY <2>1, <2>3 DEF StopsAt
<1> QED BY <1>1, InitEstablishes, StepKeepsInvariant, PTL DEF Spec


(* A caller cannot tell the hash table from the table of InternSpec: each  *)
(* step of interns_intern is a step of that table or invisible, so that    *)
(* growth, collisions and failed allocations give no string a second       *)
(* symbol and no symbol a second string, and a string that has a symbol is *)
(* refused only when the table could not grow.                             *)
THEOREM TableImplemented == Spec => ImplementsTable
<1>1. Init => Table!Init
  BY DEF Init, Table!Init
<1>2. IInv /\ [Next]_vars => [Table!Next]_<< index, answer, failures >>
  <2> SUFFICES ASSUME IInv, [Next]_vars PROVE [Table!Next]_<< index, answer, failures >>
    OBVIOUS
  <2>1. CASE UNCHANGED vars
    BY <2>1 DEF vars
  <2>2. ASSUME NEW s \in String, Call(s)
        PROVE  UNCHANGED << index, answer, failures >>
    BY <2>2 DEF Call
  <2>3. ASSUME NEW s \in String, GrowFails(s)
        PROVE  Table!Refuse(s)
    BY <2>3 DEF GrowFails, AllocationFails, IInv, TypeOK, Table!Refuse
  <2>4. CASE Rehash \/ GrowDone \/ ProbeNext
    BY <2>4 DEF Rehash, GrowDone, ProbeNext
  <2>5. CASE ArenaFull \/ IndexFails
    <3>3. ~ Table!Known(arg)
      <4>1. slots[cursor] = NoString /\ pc = "probe"
        BY <2>5 DEF ArenaFull, IndexFails, WriteSlot
      <4> QED BY <4>1, EmptySlotMeansNew DEF Table!Known, IInv, IndexInTable
    <3>1. Table!Refuse(arg)
      BY <2>5, <3>3 DEF ArenaFull, IndexFails, AllocationFails, AnswerWith, Table!Refuse
    <3>2. arg \in String
      BY <2>5 DEF ArenaFull, IndexFails, WriteSlot, IInv, TypeOK
    <3> QED BY <3>1, <3>2 DEF Table!Next
  <2>6. CASE Found
    <3>1. Table!Find(arg) \/ Table!Refuse(arg)
      BY <2>6 DEF Found, AnswerWith, Table!Find, Table!Refuse, Table!Known
    <3>2. arg \in String
      BY <2>6 DEF Found, IInv, TypeOK
    <3> QED BY <3>1, <3>2 DEF Table!Next
  <2>7. CASE Insert
    <3>1. pc = "probe" /\ slots[cursor] = NoString /\ arg \in String
      BY <2>7 DEF Insert, WriteSlot, IInv, TypeOK
    <3>2. \A i \in DOMAIN index : index[i] # arg
      <4> SUFFICES ASSUME NEW i \in DOMAIN index, index[i] = arg PROVE FALSE
        OBVIOUS
      <4>1. \E p \in 0 .. cap - 1 : slots[p] = arg
        BY DEF IInv, IndexInTable
      <4> QED BY <3>1, <4>1, EmptySlotMeansNew
    <3>3. Table!Add(arg)
      BY <2>7, <3>2 DEF Insert, AnswerWith, Table!Add, Table!Known
    <3> QED BY <3>1, <3>3 DEF Table!Next
  <2> QED
    BY <2>1, <2>2, <2>3, <2>4, <2>5, <2>6, <2>7 DEF Next, InCall, Table!Next
<1> QED BY <1>1, <1>2, InitEstablishes, StepKeepsInvariant, PTL DEF Spec, ImplementsTable, Table!Spec

=============================================================================
