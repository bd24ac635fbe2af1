------------------------------- MODULE Lexer -------------------------------
(***************************************************************************)
(* lexer_tokenize (src/src/lexer/lexer.c): a source text is cut into       *)
(* tokens, one character per step.  A token keeps the part of the text it  *)
(* stands for and the place where it is said to start, counted in size_t.  *)
(*                                                                         *)
(* Memory for the tokens is never exhausted here.                          *)
(***************************************************************************)
EXTENDS Integers, Sequences, SequencesExt

CONSTANTS
  Letter,   \* characters that start an identifier
  Digit,
  Punct,    \* characters that are tokens of their own, the dollar and the point aside
  SizeT     \* the number of values of a size_t

Special == {"dollar", "point", "quote", "newline", "space"}
Char == Letter \cup Digit \cup Punct \cup Special
TokenKind == {"IDENT", "NUMBER", "FLOAT", "STRING", "SYMBOL", "EOF"}

ASSUME CharAssumption ==
  /\ Letter \cap (Digit \cup Punct \cup Special) = {}
  /\ Digit \cap (Punct \cup Special) = {}
  /\ Punct \cap Special = {}
  /\ Char \cup TokenKind \subseteq STRING
ASSUME SizeAssumption == SizeT \in Nat \ {0}

VARIABLES
  text,     \* the characters of the source
  offset,   \* how many of them have been read
  row, col, \* the line and the column of the next one
  start,    \* the offset at which the token being read starts
  lexing,   \* what is being read, "done" or "failed"
  out       \* the tokens

lexVars == << text, offset, row, col, start, lexing, out >>

Token(s) ==
  [kind : TokenKind, from : 1 .. Len(s) + 1, to : 0 .. Len(s), row : Nat, col : Nat]
Scanning == {"blank", "word", "digits", "fraction", "string"}

(* The text of a token. *)
Lexeme(t) == SubSeq(text, t.from, t.to)

LexInit(s) ==
  /\ text = s /\ offset = 0 /\ row = 1 /\ col = 1 /\ start = 0
  /\ lexing = "blank" /\ out = << >>

Left == offset < Len(text)
NextChar == text[offset + 1]

(* Variant of FollowedBy: any character will do. *)
FollowedByAny(S) == offset + 1 < Len(text)

FollowedBy(S) == IF offset + 1 < Len(text) THEN text[offset + 2] \in S ELSE FALSE

Continues(S) == IF Left THEN NextChar \in S ELSE FALSE

(* Read n characters of one line. *)
Advance(n) == offset' = offset + n /\ col' = col + n /\ row' = row

Newline == offset' = offset + 1 /\ row' = row + 1 /\ col' = 1

(* Variant of Located: a token is located where it ends. *)
LocatedAtEnd(c, len) == c % SizeT

(* Variant of Located: columns are signed. *)
LocatedSigned(c, len) == c - len

(* The column of a token that ends before column c, counted back. *)
Located(c, len) == (c - len) % SizeT

(* Variant of TokenTo: the token starts one character too early. *)
TokenToEarly(kind, to, c) ==
  [kind |-> kind, from |-> start, to |-> to, row |-> row, col |-> Located(c, to - start)]

(* A token up to offset `to`, which is in column c. *)
TokenTo(kind, to, c) ==
  [kind |-> kind, from |-> start + 1, to |-> to, row |-> row, col |-> Located(c, to - start)]

(* The token that was being read ends before the next character. *)
Emit(kind) ==
  /\ out' = Append(out, TokenTo(kind, offset, col))
  /\ lexing' = "blank"
  /\ UNCHANGED << text, offset, row, col, start >>

-----------------------------------------------------------------------------
Between == lexing = "blank"

SkipBlank ==
  /\ Between /\ Continues({"space", "newline"})
  /\ IF NextChar = "newline" THEN Newline ELSE Advance(1)
  /\ UNCHANGED << text, start, lexing, out >>

Begin(how, n) ==
  /\ start' = offset
  /\ lexing' = how
  /\ Advance(n)
  /\ UNCHANGED << text, out >>

(* An operator name, a dollar sign and an identifier, is one token. *)
BeginWord ==
  /\ Between
  /\ \/ Continues(Letter) /\ Begin("word", 1)
     \/ Continues({"dollar"}) /\ FollowedBy(Letter) /\ Begin("word", 2)

BeginNumber == Between /\ Continues(Digit) /\ Begin("digits", 1)

BeginString == Between /\ Continues({"quote"}) /\ Begin("string", 1)

(* Any other character is a symbol, whatever comes next. *)
Symbol ==
  /\ Between /\ Left
  /\ NextChar \in Punct \cup {"point", "dollar"}
  /\ NextChar = "dollar" => ~FollowedBy(Letter)
  /\ Advance(1)
  /\ out' = Append(out, [kind |-> "SYMBOL", from |-> offset + 1, to |-> offset + 1,
                         row |-> row, col |-> Located(col + 1, 1)])
  /\ UNCHANGED << text, start, lexing >>

-----------------------------------------------------------------------------
(* Inside a token *)

ReadWord ==
  /\ lexing = "word"
  /\ IF Continues(Letter \cup Digit)
     THEN Advance(1) /\ UNCHANGED << text, start, lexing, out >>
     ELSE Emit("IDENT")

(* Digits with a point and a digit after them are a float. *)
ReadDigits ==
  /\ lexing = "digits"
  /\ IF Continues(Digit) THEN Advance(1) /\ UNCHANGED << text, start, lexing, out >>
     ELSE IF Continues({"point"}) /\ FollowedBy(Digit)
     THEN Advance(2) /\ lexing' = "fraction" /\ UNCHANGED << text, start, out >>
     ELSE Emit("NUMBER")

ReadFraction ==
  /\ lexing = "fraction"
  /\ IF Continues(Digit) THEN Advance(1) /\ UNCHANGED << text, start, lexing, out >>
     ELSE Emit("FLOAT")

(* A string may run over several lines. *)
ReadString ==
  /\ lexing = "string" /\ Left
  /\ IF NextChar = "newline" THEN Newline /\ UNCHANGED << text, start, lexing, out >>
     ELSE IF NextChar # "quote" THEN Advance(1) /\ UNCHANGED << text, start, lexing, out >>
     ELSE /\ Advance(1)
          /\ out' = Append(out, TokenTo("STRING", offset + 1, col + 1))
          /\ lexing' = "blank"
          /\ UNCHANGED << text, start >>

Unterminated ==
  /\ lexing = "string" /\ ~Left
  /\ lexing' = "failed"
  /\ UNCHANGED << text, offset, row, col, start, out >>

EndOfText ==
  /\ Between /\ ~Left
  /\ out' = Append(out, [kind |-> "EOF", from |-> offset + 1, to |-> offset,
                         row |-> row, col |-> col % SizeT])
  /\ lexing' = "done"
  /\ UNCHANGED << text, offset, row, col, start >>

LexNext ==
  \/ SkipBlank \/ BeginWord \/ BeginNumber \/ BeginString \/ Symbol
  \/ ReadWord \/ ReadDigits \/ ReadFraction \/ ReadString
  \/ Unterminated \/ EndOfText

-----------------------------------------------------------------------------
LexTypeOK ==
  /\ text \in Seq(Char) /\ offset \in 0 .. Len(text) /\ start \in 0 .. offset
  /\ row \in Nat /\ col \in Nat
  /\ lexing \in Scanning \cup {"done", "failed"}
  /\ out \in Seq(Token(text))

BlankIn(s, from, to) == \A i \in from .. to : s[i] \in {"space", "newline"}

EndOf(toks, k) == IF k = 0 THEN 0 ELSE toks[k].to
ReadTo == IF lexing \in {"blank", "done"} THEN offset ELSE start

(* The tokens are disjoint, in the order of the text, and leave out blanks *)
(* only: nothing that is read is lost or read twice.                       *)
TokensCover ==
  /\ \A k \in DOMAIN out :
       EndOf(out, k - 1) < out[k].from /\ BlankIn(text, EndOf(out, k - 1) + 1, out[k].from - 1)
  /\ EndOf(out, Len(out)) <= ReadTo /\ BlankIn(text, EndOf(out, Len(out)) + 1, ReadTo)

(* What the characters of s from one offset to another spell. *)
CharOf(s, i, S) == IF i <= Len(s) THEN s[i] \in S ELSE FALSE
AllIn(s, from, to, S) == \A i \in from .. to : CharOf(s, i, S)

IsWord(s, from, to) ==
  /\ CharOf(s, from, Letter) \/ (CharOf(s, from, {"dollar"}) /\ from < to /\ CharOf(s, from + 1, Letter))
  /\ AllIn(s, from + 1, to, Letter \cup Digit)

IsNumber(s, from, to) == from <= to /\ AllIn(s, from, to, Digit)

IsFraction(s, from, to) ==
  \E p \in from + 1 .. to - 1 :
    IsNumber(s, from, p - 1) /\ CharOf(s, p, {"point"}) /\ IsNumber(s, p + 1, to)

IsQuoted(s, from, to) ==
  CharOf(s, from, {"quote"}) /\ AllIn(s, from + 1, to, Char \ {"quote"})

(* A token is a word of its kind, and a name or a number the longest one   *)
(* that starts there: what follows cannot belong to it ("1.x" is a number, *)
(* a point and a name).  A symbol consists of marks and swallows no        *)
(* operator name; of how many marks, the header (lexer.h:20, a run of them) *)
(* and the code (one) do not agree, and nothing is said here.              *)
WellLexed(s, t) ==
  /\ t.kind = "IDENT" => IsWord(s, t.from, t.to) /\ ~CharOf(s, t.to + 1, Letter \cup Digit)
  /\ t.kind = "NUMBER" =>
       /\ IsNumber(s, t.from, t.to) /\ ~CharOf(s, t.to + 1, Digit)
       /\ ~(CharOf(s, t.to + 1, {"point"}) /\ CharOf(s, t.to + 2, Digit))
  /\ t.kind = "FLOAT" => IsFraction(s, t.from, t.to) /\ ~CharOf(s, t.to + 1, Digit)
  /\ t.kind = "STRING" =>
       t.from < t.to /\ IsQuoted(s, t.from, t.to - 1) /\ CharOf(s, t.to, {"quote"})
  /\ t.kind = "SYMBOL" =>
       /\ t.from <= t.to /\ AllIn(s, t.from, t.to, Punct \cup {"point", "dollar"})
       /\ \A i \in t.from .. t.to : ~(CharOf(s, i, {"dollar"}) /\ CharOf(s, i + 1, Letter))
  /\ t.kind = "EOF" => t.from > Len(s)

(* Every token is well lexed, and the end of the text is the last one.     *)
LexemesMaximal ==
  \A k \in DOMAIN out : WellLexed(text, out[k]) /\ (out[k].kind = "EOF" => k = Len(out))

(* A token on one line is said to be where its first character is, also    *)
(* after a string that runs over several lines.                            *)
TokensLocated ==
  \A k \in DOMAIN out :
    LET t == out[k]
        breaks == {i \in 1 .. t.from - 1 : text[i] = "newline"}
    IN  AllIn(text, t.from, t.to, Char \ {"newline"}) =>
          /\ t.row = 1 + Cardinality(breaks)
          /\ t.col = (t.from - (IF breaks = {} THEN 0 ELSE Max(breaks))) % SizeT

=============================================================================
