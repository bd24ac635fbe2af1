------------------------------ MODULE Interns ------------------------------
(***************************************************************************)
(* The intern table of src/src/util/util.c: an open-addressing hash table  *)
(* of strings that doubles when it is half full, an arena of fixed size    *)
(* that holds the text, and the array that turns a symbol back into its    *)
(* string.  The growth of the table and of the array may fail.             *)
(*                                                                         *)
(* A call is a few steps: the check for growth, one step per slot that is  *)
(* rehashed, and one per slot of the probe that finds or inserts the       *)
(* string.                                                                 *)
(***************************************************************************)
EXTENDS Naturals, Sequences, FiniteSets

CONSTANTS
  String,       \* the strings a program interns
  NoString,     \* an empty slot
  Hash,         \* hash_str
  Size,         \* the arena bytes of each string, its terminator included
  MinCap,       \* slots of a new table, and entries of a first index
  ArenaCap,     \* bytes of the arena
  MaxFailures   \* bound on the allocations that fail

ASSUME StringAssumption == NoString \notin String
ASSUME HashAssumption == Hash \in [String -> Nat]
ASSUME SizeAssumption == Size \in [String -> Nat]
ASSUME CapAssumption == MinCap \in Nat \ {0} /\ ArenaCap \in Nat
ASSUME MaxFailuresAssumption == MaxFailures \in Nat

VARIABLES
  slots,      \* t->slots
  cap,        \* t->cap
  index,      \* t->index[0 .. t->len - 1]
  indexCap,   \* t->index_cap
  used,       \* t->arena.off
  arg,        \* the string of the call in progress
  answer,     \* the last call that returned, and its symbol
  pc,         \* "idle", "grow" while rehashing, "probe"
  newSlots,   \* new_slots of intern_table_grow
  cursor,     \* the slot to rehash or to probe next
  failures    \* allocations that have failed

vars == << slots, cap, index, indexCap, used, arg, answer, pc, newSlots, cursor, failures >>

-----------------------------------------------------------------------------

Home(s, c) == Hash[s] % c

(* The slots a probe that started at h passes before it reaches p. *)
Before(h, p, c) ==
  IF h <= p THEN {q \in 0 .. c - 1 : h <= q /\ q < p}
  ELSE {q \in 0 .. c - 1 : h <= q \/ q < p}

(* Rehashing stops at the first empty slot. *)
FreeFor(table, c, s, p) ==
  /\ table[p] = NoString
  /\ \A q \in Before(Home(s, c), p, c) : table[q] # NoString

EmptyTable(c) == [p \in 0 .. c - 1 |-> NoString]

(* Variant of MustGrow: the table is filled up before it grows. *)
MustGrowWhenFull == Len(index) > cap

MustGrow == Len(index) * 2 >= cap

AnswerWith(sym) == /\ answer' = [string |-> arg, sym |-> sym]
                   /\ pc' = "idle"

AllocationFails == /\ failures < MaxFailures
                   /\ failures' = failures + 1

-----------------------------------------------------------------------------
(* interns_intern *)

Call(s) ==
  /\ pc = "idle"
  /\ arg' = s
  /\ IF MustGrow
     THEN /\ pc' = "grow"
          /\ newSlots' = EmptyTable(2 * cap)
          /\ cursor' = 0
     ELSE /\ pc' = "probe"
          /\ cursor' = Home(s, cap)
          /\ UNCHANGED newSlots
  /\ UNCHANGED << slots, cap, index, indexCap, used, answer, failures >>

(* The table cannot be doubled, and even a known string is refused. *)
GrowFails(s) ==
  /\ pc = "idle"
  /\ MustGrow
  /\ AllocationFails
  /\ arg' = s
  /\ answer' = [string |-> s, sym |-> 0]
  /\ UNCHANGED << slots, cap, index, indexCap, used, pc, newSlots, cursor >>

(* Variant of Rehash: the slot is chosen by the capacity of the old table. *)
RehashByOldCapacity ==
  /\ pc = "grow" /\ cursor < cap
  /\ IF slots[cursor] = NoString
     THEN UNCHANGED newSlots
     ELSE \E p \in 0 .. 2 * cap - 1 :
            /\ newSlots[p] = NoString
            /\ \A q \in Before(Home(slots[cursor], cap), p, 2 * cap) : newSlots[q] # NoString
            /\ newSlots' = [newSlots EXCEPT ![p] = slots[cursor]]
  /\ cursor' = cursor + 1
  /\ UNCHANGED << slots, cap, index, indexCap, used, arg, answer, pc, failures >>

Rehash ==
  /\ pc = "grow" /\ cursor < cap
  /\ IF slots[cursor] = NoString
     THEN UNCHANGED newSlots
     ELSE \E p \in 0 .. 2 * cap - 1 :
            /\ FreeFor(newSlots, 2 * cap, slots[cursor], p)
            /\ newSlots' = [newSlots EXCEPT ![p] = slots[cursor]]
  /\ cursor' = cursor + 1
  /\ UNCHANGED << slots, cap, index, indexCap, used, arg, answer, pc, failures >>

GrowDone ==
  /\ pc = "grow" /\ cursor = cap
  /\ slots' = newSlots
  /\ cap' = 2 * cap
  /\ cursor' = Home(arg, 2 * cap)
  /\ pc' = "probe"
  /\ UNCHANGED << index, indexCap, used, arg, answer, newSlots, failures >>

(* The slot holds another string: the probe moves on, round the table.     *)
ProbeNext ==
  /\ pc = "probe"
  /\ slots[cursor] \notin {NoString, arg}
  /\ cursor' = IF cursor + 1 = cap THEN 0 ELSE cursor + 1
  /\ UNCHANGED << slots, cap, index, indexCap, used, arg, answer, pc, newSlots, failures >>

(* The slot holds the string: its symbol is its first position in the      *)
(* index.                                                                  *)
Found ==
  /\ pc = "probe"
  /\ slots[cursor] = arg
  /\ \/ \E i \in DOMAIN index :
          /\ index[i] = arg
          /\ \A j \in 1 .. i - 1 : index[j] # arg
          /\ AnswerWith(i)
     \/ /\ \A i \in DOMAIN index : index[i] # arg
        /\ AnswerWith(0)
  /\ UNCHANGED << slots, cap, index, indexCap, used, arg, newSlots, cursor, failures >>

(* Variant of Fits: arena_push compares the offset before the string.      *)
FitsBefore(s) == used <= ArenaCap

(* arena_push *)
Fits(s) == used + Size[s] <= ArenaCap

(* The slot is empty and the arena has room for the text: it is written.   *)
WriteSlot ==
  /\ pc = "probe"
  /\ slots[cursor] = NoString
  /\ Fits(arg)
  /\ slots' = [slots EXCEPT ![cursor] = arg]
  /\ used' = used + Size[arg]

(* ensure_index_capacity *)
IndexFull == Len(index) + 1 > indexCap

Insert ==
  /\ WriteSlot
  /\ indexCap' = IF ~IndexFull THEN indexCap
                 ELSE IF indexCap = 0 THEN MinCap ELSE 2 * indexCap
  /\ index' = Append(index, arg)
  /\ AnswerWith(Len(index) + 1)
  /\ UNCHANGED << cap, arg, newSlots, cursor, failures >>

(* The slot has been written when the index turns out not to grow: the     *)
(* string stays in the table without a symbol.                             *)
IndexFails ==
  /\ WriteSlot
  /\ IndexFull
  /\ AllocationFails
  /\ AnswerWith(0)
  /\ UNCHANGED << cap, index, indexCap, arg, newSlots, cursor >>

ArenaFull ==
  /\ pc = "probe"
  /\ slots[cursor] = NoString
  /\ ~Fits(arg)
  /\ AnswerWith(0)
  /\ UNCHANGED << slots, cap, index, indexCap, used, arg, newSlots, cursor, failures >>

(* interns_new *)
Init ==
  /\ slots = EmptyTable(MinCap) /\ cap = MinCap
  /\ index = << >> /\ indexCap = 0
  /\ used = 0
  /\ arg = NoString /\ answer = [string |-> NoString, sym |-> 0]
  /\ pc = "idle"
  /\ newSlots = EmptyTable(0) /\ cursor = 0
  /\ failures = 0

InCall ==
  \/ Rehash \/ GrowDone
  \/ ProbeNext \/ Found \/ Insert \/ IndexFails \/ ArenaFull

Next == InCall \/ \E s \in String : Call(s) \/ GrowFails(s)

Spec == Init /\ [][Next]_vars

(* The table is used by one thread, which completes every call it starts.  *)
FairSpec == Spec /\ WF_vars(InCall)

-----------------------------------------------------------------------------
(* Properties *)

(* Every variable has its type. *)
TypeOK ==
  /\ cap \in Nat \ {0}
  /\ slots \in [0 .. cap - 1 -> String \cup {NoString}]
  /\ index \in Seq(String) /\ indexCap \in Nat
  /\ used \in 0 .. ArenaCap
  /\ arg \in String \cup {NoString}
  /\ answer \in [string : String \cup {NoString}, sym : Nat]
  /\ pc \in {"idle", "grow", "probe"}
  /\ pc # "idle" => arg \in String
  /\ pc = "grow" => newSlots \in [0 .. 2 * cap - 1 -> String \cup {NoString}]
  /\ cursor \in Nat
  /\ failures \in Nat

(* A probe for s stops at the first slot that is empty or holds s. *)
StopsAt(table, c, s, p) ==
  /\ table[p] \in {NoString, s}
  /\ \A q \in Before(Home(s, c), p, c) : table[q] \notin {NoString, s}

(* Every string that has a symbol is where a probe for it stops, whatever  *)
(* strings collided with it and however often the table has been rehashed: *)
(* interns_intern finds it before it meets an empty slot.                  *)
SymbolsFindable ==
  \A i \in DOMAIN index :
    \E p \in 0 .. cap - 1 : slots[p] = index[i] /\ StopsAt(slots, cap, index[i], p)

(* The hash table, its growth and its failures are invisible to a caller,  *)
(* who sees the table that InternSpec describes.                           *)
Table == INSTANCE InternSpec WITH names <- index
ImplementsTable == Table!Spec

(* Strings that interns_intern wrote into the table before their symbol    *)
(* failed: they fill it, and do not count towards its growth.              *)
Orphans == {p \in 0 .. cap - 1 :
              slots[p] # NoString /\ \A i \in DOMAIN index : index[i] # slots[p]}

(* A call of interns_intern returns, whatever the strings collide with, as *)
(* long as at most half of the table is taken by strings that have no      *)
(* symbol: there is an empty slot then at which the probe stops.           *)
CallsReturn ==
  (pc # "idle" /\ 2 * Cardinality(Orphans) <= cap) ~> pc = "idle"

(* Every call of interns_intern returns: "true on success, false on        *)
(* allocation or interning failure" (src/include/lexer/lexer.h, of the     *)
(* lexer that interns).                                                    *)
EveryCallReturns == pc # "idle" ~> pc = "idle"

=============================================================================
