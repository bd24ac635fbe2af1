--------------------------- MODULE FrontEndProofs ---------------------------
(***************************************************************************)
(* FrontEnd's theorems: what its lexer and its parser keep, together.      *)
(* First the lexer: the tokens it has produced are well lexed and cover    *)
(* what it has read, whatever the text: LexInv holds initially and every   *)
(* step keeps it.                                                          *)
(***************************************************************************)
EXTENDS FrontEnd, GrammarMatchProofs, FiniteSetTheorems

(* What has been read of the token that is being read. *)
Scanned ==
  /\ lexing \in Scanning \ {"blank"} => start < offset
  /\ lexing = "word" => IsWord(text, start + 1, offset)
  /\ lexing = "digits" => IsNumber(text, start + 1, offset)
  /\ lexing = "fraction" => IsFraction(text, start + 1, offset)
  /\ lexing = "string" => IsQuoted(text, start + 1, offset)

EndIsLast == lexing # "done" => \A k \in DOMAIN out : out[k].kind # "EOF"

LexInv == LexTypeOK /\ Scanned /\ TokensCover /\ LexemesMaximal /\ EndIsLast

-----------------------------------------------------------------------------
(* Columns are counted in a size_t. *)
LEMMA ColumnIsNat ==
  ASSUME NEW c \in Int
  PROVE  c % SizeT \in Nat
  BY SizeAssumption

LEMMA LexNumbers ==
  ASSUME LexTypeOK
  PROVE  /\ Len(text) \in Nat /\ offset \in Nat /\ offset <= Len(text)
         /\ start \in Nat /\ start <= offset /\ row \in Nat /\ col \in Nat
  BY DEF LexTypeOK

LEMMA LocatedIsNat ==
  ASSUME NEW c \in Nat, NEW n \in Nat
  PROVE  Located(c, n) \in Nat
  BY ColumnIsNat DEF Located

(* The character to read. *)
LEMMA NextIsChar ==
  ASSUME LexTypeOK, Left
  PROVE  /\ offset + 1 \in DOMAIN text /\ NextChar \in Char
         /\ offset + 1 \in 0 .. Len(text)
         /\ \A S : CharOf(text, offset + 1, S) <=> NextChar \in S
  BY DEF LexTypeOK, Left, NextChar, CharOf

LEMMA ContinuesFacts ==
  ASSUME LexTypeOK, NEW S
  PROVE  Continues(S) <=> CharOf(text, offset + 1, S)
  BY DEF LexTypeOK, Left, NextChar, CharOf, Continues

LEMMA FollowedByFacts ==
  ASSUME LexTypeOK, NEW S
  PROVE  FollowedBy(S) <=> CharOf(text, offset + 2, S)
  BY DEF LexTypeOK, FollowedBy, CharOf

LEMMA RangeGrows ==
  ASSUME NEW from \in Nat, NEW to \in Nat, NEW i \in from .. to + 1, i # to + 1
  PROVE  i \in from .. to
  OBVIOUS

(* A run of characters of one class grows by one of them. *)
LEMMA RunGrows ==
  ASSUME NEW s, NEW from \in Nat, NEW to \in Nat, NEW S,
         AllIn(s, from, to, S), CharOf(s, to + 1, S)
  PROVE  AllIn(s, from, to + 1, S)
  BY DEF AllIn

LEMMA BlankEmpty ==
  ASSUME NEW s, NEW n \in Nat
  PROVE  BlankIn(s, n + 1, n) /\ n <= n
  BY DEF BlankIn

LEMMA BlankGrows ==
  ASSUME NEW s, NEW from \in Nat, NEW to \in Nat,
         BlankIn(s, from, to), s[to + 1] \in {"space", "newline"}
  PROVE  BlankIn(s, from, to + 1)
<1> SUFFICES ASSUME NEW i \in from .. to + 1
             PROVE  s[i] \in {"space", "newline"}
  BY DEF BlankIn
<1>1. CASE i = to + 1
  BY <1>1
<1>2. CASE i # to + 1
  <2>1. i \in from .. to
    BY <1>2, RangeGrows
  <2> QED BY <2>1 DEF BlankIn
<1> QED BY <1>1, <1>2

LEMMA EndIsNat ==
  ASSUME LexTypeOK
  PROVE  Len(out) \in Nat /\ \A k \in 0 .. Len(out) : EndOf(out, k) \in Nat
<1>1. out \in Seq(Token(text)) /\ Len(out) \in Nat
  BY DEF LexTypeOK
<1>2. ASSUME NEW k \in 0 .. Len(out)
      PROVE  EndOf(out, k) \in Nat
  <2>1. CASE k = 0
    BY <2>1 DEF EndOf
  <2>2. CASE k # 0
    <3>1. k \in 1 .. Len(out)
      BY <1>1, <2>2
    <3>2. out[k] \in Token(text)
      BY <1>1, <3>1
    <3> QED BY <2>2, <3>2 DEF EndOf, Token
  <2> QED BY <2>1, <2>2
<1> QED BY <1>1, <1>2

-----------------------------------------------------------------------------
(* A token that starts behind what has been covered, and is well lexed.    *)
LEMMA TokenAdded ==
  ASSUME LexInv, NEW t \in Token(text), text' = text, out' = Append(out, t),
         lexing # "done", t.from = ReadTo + 1, ReadTo' = t.to, t.to >= ReadTo,
         WellLexed(text, t)
  PROVE  /\ out' \in Seq(Token(text))
         /\ TokensCover' /\ LexemesMaximal'
         /\ t.kind # "EOF" => \A k \in DOMAIN out' : out'[k].kind # "EOF"
<1>1. /\ out \in Seq(Token(text)) /\ Len(out) \in Nat
      /\ \A k \in 0 .. Len(out) : EndOf(out, k) \in Nat
  BY EndIsNat DEF LexInv, LexTypeOK
<1>2. /\ out' \in Seq(Token(text)) /\ Len(out') = Len(out) + 1
      /\ \A k \in 1 .. Len(out) : out'[k] = out[k]
      /\ out'[Len(out) + 1] = t
  BY <1>1, AppendFacts
<1>3. DOMAIN out = 1 .. Len(out) /\ DOMAIN out' = 1 .. Len(out) + 1
  BY <1>1, <1>2
<1>4. \A k \in 0 .. Len(out) : EndOf(out', k) = EndOf(out, k)
  BY <1>1, <1>2 DEF EndOf
<1>5. EndOf(out', Len(out) + 1) = t.to
  BY <1>1, <1>2 DEF EndOf
<1>6. ReadTo \in Nat /\ t.to \in Nat /\ t.from \in Nat
  BY DEF ReadTo, LexInv, LexTypeOK, Token
<1>7. TokensCover'
  <2>1. ASSUME NEW k \in 1 .. Len(out) + 1
        PROVE  /\ EndOf(out', k - 1) < out'[k].from
               /\ BlankIn(text, EndOf(out', k - 1) + 1, out'[k].from - 1)
    <3>1. CASE k \in 1 .. Len(out)
      <4>1. EndOf(out, k - 1) < out[k].from /\ BlankIn(text, EndOf(out, k - 1) + 1, out[k].from - 1)
        BY <1>3, <3>1 DEF LexInv, TokensCover
      <4>2. k - 1 \in 0 .. Len(out)
        BY <1>1, <3>1
      <4>4. out'[k] = out[k]
        BY <1>2, <3>1
      <4>3. EndOf(out', k - 1) = EndOf(out, k - 1)
        BY <1>4, <4>2
      <4> QED BY <4>1, <4>3, <4>4
    <3>2. CASE k = Len(out) + 1
      <4>1. k - 1 = Len(out) /\ out'[k] = t /\ t.from - 1 = ReadTo
        BY <1>1, <1>2, <1>6, <3>2
      <4>2. EndOf(out, Len(out)) <= ReadTo /\ BlankIn(text, EndOf(out, Len(out)) + 1, ReadTo)
        BY DEF LexInv, TokensCover
      <4>3. EndOf(out', Len(out)) = EndOf(out, Len(out)) /\ EndOf(out, Len(out)) \in Nat
        BY <1>1, <1>4
      <4> QED BY <1>6, <4>1, <4>2, <4>3
    <3> QED BY <1>1, <3>1, <3>2
  <2>2. EndOf(out', Len(out')) <= ReadTo' /\ BlankIn(text, EndOf(out', Len(out')) + 1, ReadTo')
    <3>1. EndOf(out', Len(out')) = t.to /\ ReadTo' = t.to
      BY <1>2, <1>5
    <3>2. BlankIn(text, t.to + 1, t.to) /\ t.to <= t.to
      BY <1>6, BlankEmpty
    <3> QED BY <3>1, <3>2
  <2> QED BY <1>3, <2>1, <2>2 DEF TokensCover
<1>8. LexemesMaximal'
  <2>1. ASSUME NEW k \in 1 .. Len(out)
        PROVE  WellLexed(text, out'[k]) /\ out'[k].kind # "EOF"
    BY <1>2, <1>3 DEF LexInv, LexemesMaximal, EndIsLast
  <2> QED BY <1>1, <1>2, <1>3, <2>1 DEF LexemesMaximal
<1>9. t.kind # "EOF" => \A k \in DOMAIN out' : out'[k].kind # "EOF"
  BY <1>1, <1>2, <1>3 DEF LexInv, EndIsLast
<1> QED BY <1>2, <1>7, <1>8, <1>9

(* Nothing is added while a token is read. *)
LEMMA TokenGoesOn ==
  ASSUME LexInv, UNCHANGED << text, out >>, ReadTo' = ReadTo
  PROVE  TokensCover' /\ LexemesMaximal'
  BY DEF LexInv, TokensCover, LexemesMaximal

-----------------------------------------------------------------------------
(* Nothing has been read at first. *)
LEMMA LexStarts ==
  ASSUME NEW s \in Seq(Char), LexInit(s)
  PROVE  LexInv
<1>1. LexTypeOK /\ Scanned /\ EndIsLast
  BY DEF LexInit, LexTypeOK, Scanned, EndIsLast, Scanning
<1>2. TokensCover /\ LexemesMaximal
  BY DEF LexInit, TokensCover, LexemesMaximal, BlankIn, EndOf, ReadTo
<1> QED BY <1>1, <1>2 DEF LexInv

LEMMA SkipBlankKeeps ==
  ASSUME LexInv, SkipBlank
  PROVE  LexInv'
<1>1. /\ LexTypeOK /\ lexing = "blank" /\ Left /\ NextChar \in {"space", "newline"}
      /\ offset' = offset + 1 /\ UNCHANGED << text, start, lexing, out >>
  BY DEF LexInv, SkipBlank, Between, Continues, Newline, Advance
<1>2. /\ Len(text) \in Nat /\ offset \in Nat /\ offset <= Len(text)
      /\ start \in Nat /\ start <= offset /\ row \in Nat /\ col \in Nat
  BY <1>1, LexNumbers
<1>6. row' \in Nat /\ col' \in Nat
  <2>1. CASE Newline
    BY <1>2, <2>1 DEF Newline
  <2>2. CASE Advance(1)
    BY <1>2, <2>2 DEF Advance
  <2> QED BY <2>1, <2>2 DEF SkipBlank
<1>7. offset' \in 0 .. Len(text) /\ start \in 0 .. offset'
  BY <1>1, <1>2, NextIsChar
<1>8. LexTypeOK'
  BY <1>1, <1>6, <1>7 DEF LexTypeOK
<1>3. Scanned' /\ EndIsLast'
  BY <1>1 DEF LexInv, Scanned, EndIsLast, Scanning
<1>4. LexemesMaximal'
  BY <1>1 DEF LexInv, LexemesMaximal
<1>5. TokensCover'
  <2>1. ReadTo = offset /\ ReadTo' = offset + 1 /\ offset \in Nat
    BY <1>1, <1>2 DEF ReadTo
  <2>2. EndOf(out, Len(out)) \in Nat
    BY <1>1, EndIsNat
  <2>3. EndOf(out, Len(out)) <= offset /\ BlankIn(text, EndOf(out, Len(out)) + 1, offset)
    BY <2>1 DEF LexInv, TokensCover
  <2>4. BlankIn(text, EndOf(out, Len(out)) + 1, offset + 1)
    <3>1. text[offset + 1] \in {"space", "newline"}
      BY <1>1 DEF NextChar
    <3>2. EndOf(out, Len(out)) + 1 \in Nat
      BY <2>2
    <3> QED BY <1>2, <2>3, <3>1, <3>2, BlankGrows
  <2>5. EndOf(out, Len(out)) <= offset + 1
    BY <2>1, <2>2, <2>3
  <2> QED BY <1>1, <2>1, <2>4, <2>5 DEF LexInv, TokensCover
<1> QED BY <1>3, <1>4, <1>5, <1>8 DEF LexInv

(* Reading the first characters of a token leaves what is covered alone. *)
LEMMA BeginKeeps ==
  ASSUME LexInv, lexing = "blank", NEW how \in Scanning \ {"blank"}, NEW n \in {1, 2},
         Begin(how, n), offset + n <= Len(text)
  PROVE  /\ LexTypeOK' /\ TokensCover' /\ LexemesMaximal' /\ EndIsLast'
         /\ start' = offset /\ offset' = offset + n /\ start' < offset'
         /\ text' = text /\ lexing' = how /\ offset \in Nat
<1>1. /\ offset \in Nat /\ col \in Nat /\ n \in Nat
      /\ start' = offset /\ offset' = offset + n /\ col' = col + n /\ row' = row
      /\ lexing' = how /\ UNCHANGED << text, out >>
  BY DEF Begin, Advance, LexInv, LexTypeOK
<1>2. LexTypeOK' /\ EndIsLast'
  BY <1>1 DEF LexInv, LexTypeOK, EndIsLast, Scanning
<1>3. ReadTo' = ReadTo
  BY <1>1 DEF ReadTo, Scanning
<1>4. TokensCover' /\ LexemesMaximal'
  BY <1>1, <1>3, TokenGoesOn
<1>5. start' < offset'
  BY <1>1
<1> QED BY <1>1, <1>2, <1>4, <1>5

LEMMA OneChar ==
  ASSUME NEW s, NEW i \in Nat, NEW S, CharOf(s, i + 1, S)
  PROVE  /\ AllIn(s, i + 1, i + 1, S)
         /\ \A T : AllIn(s, i + 1 + 1, i + 1, T)
  BY DEF AllIn

LEMMA BeginWordKeeps ==
  ASSUME LexInv, BeginWord
  PROVE  LexInv'
<1>1. LexTypeOK /\ lexing = "blank" /\ offset \in Nat /\ Len(text) \in Nat
  BY DEF LexInv, LexTypeOK, BeginWord, Between
<1>2. CASE Continues(Letter) /\ Begin("word", 1)
  <2>1. CharOf(text, offset + 1, Letter) /\ offset + 1 <= Len(text)
    BY <1>1, <1>2, ContinuesFacts DEF CharOf
  <2>2. /\ LexTypeOK' /\ TokensCover' /\ LexemesMaximal' /\ EndIsLast'
        /\ start' = offset /\ offset' = offset + 1 /\ start' < offset'
        /\ text' = text /\ lexing' = "word"
    BY <1>1, <1>2, <2>1, BeginKeeps DEF Scanning
  <2>3. IsWord(text, offset + 1, offset + 1)
    BY <1>1, <2>1, OneChar DEF IsWord
  <2>4. Scanned'
    BY <2>2, <2>3 DEF Scanned
  <2> QED BY <2>2, <2>4 DEF LexInv
<1>3. CASE Continues({"dollar"}) /\ FollowedBy(Letter) /\ Begin("word", 2)
  <2>1. /\ CharOf(text, offset + 1, {"dollar"}) /\ CharOf(text, offset + 2, Letter)
        /\ offset + 2 <= Len(text)
    BY <1>1, <1>3, ContinuesFacts, FollowedByFacts DEF CharOf
  <2>2. /\ LexTypeOK' /\ TokensCover' /\ LexemesMaximal' /\ EndIsLast'
        /\ start' = offset /\ offset' = offset + 2 /\ start' < offset'
        /\ text' = text /\ lexing' = "word"
    BY <1>1, <1>3, <2>1, BeginKeeps DEF Scanning
  <2>3. IsWord(text, offset + 1, offset + 2)
    <3>1. offset + 1 + 1 = offset + 2 /\ offset + 1 < offset + 2
      BY <1>1
    <3>2. AllIn(text, offset + 1 + 1, offset + 2, Letter \cup Digit)
      BY <1>1, <2>1, <3>1 DEF AllIn, CharOf
    <3> QED BY <2>1, <3>1, <3>2 DEF IsWord
  <2>4. Scanned'
    BY <2>2, <2>3 DEF Scanned
  <2> QED BY <2>2, <2>4 DEF LexInv
<1> QED BY <1>2, <1>3 DEF BeginWord

LEMMA BeginNumberKeeps ==
  ASSUME LexInv, BeginNumber
  PROVE  LexInv'
<1>1. LexTypeOK /\ lexing = "blank" /\ offset \in Nat /\ Len(text) \in Nat
  BY DEF LexInv, LexTypeOK, BeginNumber, Between
<1>2. CharOf(text, offset + 1, Digit) /\ offset + 1 <= Len(text) /\ Begin("digits", 1)
  BY <1>1, ContinuesFacts DEF CharOf, BeginNumber
<1>3. /\ LexTypeOK' /\ TokensCover' /\ LexemesMaximal' /\ EndIsLast'
      /\ start' = offset /\ offset' = offset + 1 /\ start' < offset'
      /\ text' = text /\ lexing' = "digits"
  BY <1>1, <1>2, BeginKeeps DEF Scanning
<1>4. IsNumber(text, offset + 1, offset + 1)
  <2>1. AllIn(text, offset + 1, offset + 1, Digit)
    BY <1>1, <1>2, OneChar
  <2>2. offset + 1 <= offset + 1
    BY <1>1
  <2> QED BY <2>1, <2>2 DEF IsNumber
<1>5. Scanned'
  BY <1>3, <1>4 DEF Scanned
<1> QED BY <1>3, <1>5 DEF LexInv

LEMMA BeginStringKeeps ==
  ASSUME LexInv, BeginString
  PROVE  LexInv'
<1>1. LexTypeOK /\ lexing = "blank" /\ offset \in Nat /\ Len(text) \in Nat
  BY DEF LexInv, LexTypeOK, BeginString, Between
<1>2. CharOf(text, offset + 1, {"quote"}) /\ offset + 1 <= Len(text) /\ Begin("string", 1)
  BY <1>1, ContinuesFacts DEF CharOf, BeginString
<1>3. /\ LexTypeOK' /\ TokensCover' /\ LexemesMaximal' /\ EndIsLast'
      /\ start' = offset /\ offset' = offset + 1 /\ start' < offset'
      /\ text' = text /\ lexing' = "string"
  BY <1>1, <1>2, BeginKeeps DEF Scanning
<1>4. IsQuoted(text, offset + 1, offset + 1)
  BY <1>1, <1>2, OneChar DEF IsQuoted
<1>5. Scanned'
  BY <1>3, <1>4 DEF Scanned
<1> QED BY <1>3, <1>5 DEF LexInv

LEMMA FractionAt ==
  ASSUME NEW s, NEW from \in Nat, NEW to \in Nat, NEW p \in from + 1 .. to - 1,
         NEW m \in Nat, m + 1 = p, NEW n \in Nat, n = p + 1,
         IsNumber(s, from, m), CharOf(s, p, {"point"}), IsNumber(s, n, to)
  PROVE  IsFraction(s, from, to)
<1>1. m = p - 1
  OBVIOUS
<1> QED BY <1>1 DEF IsFraction

LEMMA FractionParts ==
  ASSUME NEW s, NEW from \in Nat, NEW to \in Nat, IsFraction(s, from, to)
  PROVE  \E p \in from + 1 .. to - 1, m \in Nat, n \in Nat :
           /\ m + 1 = p /\ n = p + 1
           /\ IsNumber(s, from, m) /\ CharOf(s, p, {"point"}) /\ IsNumber(s, n, to)
<1>1. PICK p \in from + 1 .. to - 1 :
        IsNumber(s, from, p - 1) /\ CharOf(s, p, {"point"}) /\ IsNumber(s, p + 1, to)
  BY DEF IsFraction
<1>2. p - 1 \in Nat /\ p + 1 \in Nat /\ p - 1 + 1 = p
  OBVIOUS
<1> QED BY <1>1, <1>2

(* Reading on in a token leaves what is covered alone. *)
LEMMA ReadOnKeeps ==
  ASSUME LexInv, lexing \in Scanning \ {"blank"}, lexing' \in Scanning \ {"blank"},
         NEW n \in {1, 2}, offset' = offset + n, offset + n <= Len(text),
         row' \in Nat, col' \in Nat, UNCHANGED << text, start, out >>
  PROVE  /\ LexTypeOK' /\ TokensCover' /\ LexemesMaximal' /\ EndIsLast'
         /\ start < offset /\ start' < offset'
         /\ offset \in Nat /\ start \in Nat
<1>1. /\ Len(text) \in Nat /\ offset \in Nat /\ offset <= Len(text)
      /\ start \in Nat /\ start <= offset /\ row \in Nat /\ col \in Nat /\ n \in Nat
  BY LexNumbers DEF LexInv
<1>2. start < offset
  BY DEF LexInv, Scanned
<1>3. offset' \in 0 .. Len(text) /\ start \in 0 .. offset' /\ start < offset'
  BY <1>1, <1>2
<1>4. LexTypeOK' /\ EndIsLast'
  BY <1>3 DEF LexInv, LexTypeOK, EndIsLast, Scanning
<1>5. ReadTo' = ReadTo
  BY DEF ReadTo, Scanning
<1>6. TokensCover' /\ LexemesMaximal'
  BY <1>5, TokenGoesOn
<1> QED BY <1>1, <1>2, <1>3, <1>4, <1>6

(* The end of a token. *)
LEMMA EmitKeeps ==
  ASSUME LexInv, lexing \in Scanning \ {"blank"}, NEW kind \in TokenKind \ {"EOF"}, Emit(kind),
         NEW t, t = TokenTo(kind, offset, col), WellLexed(text, t)
  PROVE  LexInv'
<1>1. /\ Len(text) \in Nat /\ offset \in Nat /\ offset <= Len(text)
      /\ start \in Nat /\ start <= offset /\ row \in Nat /\ col \in Nat
  BY LexNumbers DEF LexInv
<1>2. offset - start \in Nat /\ start + 1 \in Nat
  BY <1>1
<1>3. Located(col, offset - start) \in Nat
  BY <1>1, <1>2, LocatedIsNat
<1>4. t \in Token(text) /\ t.kind = kind /\ t.from = start + 1 /\ t.to = offset
  BY <1>1, <1>2, <1>3 DEF TokenTo, Token
<1>5. /\ out' = Append(out, t) /\ lexing' = "blank"
      /\ UNCHANGED << text, offset, row, col, start >>
  BY DEF Emit
<1>6. ReadTo = start /\ ReadTo' = offset
  BY <1>5 DEF ReadTo, Scanning
<1>7. /\ out' \in Seq(Token(text)) /\ TokensCover' /\ LexemesMaximal'
      /\ t.kind # "EOF" => \A k \in DOMAIN out' : out'[k].kind # "EOF"
  <2>1. lexing # "done"
    BY DEF Scanning
  <2>2. t.to >= ReadTo /\ t.from = ReadTo + 1 /\ ReadTo' = t.to
    BY <1>1, <1>4, <1>6
  <2> QED BY <1>4, <1>5, <2>1, <2>2, TokenAdded
<1>8. LexTypeOK'
  BY <1>5, <1>7 DEF LexInv, LexTypeOK, Scanning
<1>9. EndIsLast' /\ Scanned'
  BY <1>4, <1>5, <1>7 DEF EndIsLast, Scanned
<1> QED BY <1>7, <1>8, <1>9 DEF LexInv

(* A token of one character, in a space of its own. *)
LEMMA SymbolKeeps ==
  ASSUME LexInv, Symbol
  PROVE  LexInv'
<1> DEFINE t == [kind |-> "SYMBOL", from |-> offset + 1, to |-> offset + 1,
                 row |-> row, col |-> Located(col + 1, 1)]
<1>1. /\ Len(text) \in Nat /\ offset \in Nat /\ offset <= Len(text)
      /\ start \in Nat /\ start <= offset /\ row \in Nat /\ col \in Nat /\ LexTypeOK
  BY LexNumbers DEF LexInv
<1>2. /\ lexing = "blank" /\ Left /\ NextChar \in Punct \cup {"point", "dollar"}
      /\ NextChar = "dollar" => ~FollowedBy(Letter)
      /\ offset' = offset + 1 /\ col' = col + 1 /\ row' = row
      /\ out' = Append(out, t) /\ UNCHANGED << text, start, lexing >>
  BY DEF Symbol, Between, Advance
<1>3. Located(col + 1, 1) \in Nat /\ offset + 1 \in Nat /\ col + 1 \in Nat
  <2>1. col + 1 \in Nat /\ 1 \in Nat /\ offset + 1 \in Nat
    BY <1>1
  <2> QED BY <2>1, LocatedIsNat
<1>4. t \in Token(text) /\ t.kind = "SYMBOL" /\ t.from = offset + 1 /\ t.to = offset + 1
  <2>1. offset + 1 \in 1 .. Len(text) + 1 /\ offset + 1 \in 0 .. Len(text)
    BY <1>1, <1>2, NextIsChar
  <2> QED BY <1>1, <1>3, <2>1 DEF Token, TokenKind
<1> HIDE DEF t
<1>5. WellLexed(text, t)
  <2>1. CharOf(text, offset + 1, Punct \cup {"point", "dollar"})
    BY <1>1, <1>2, NextIsChar
  <2>2. ~(CharOf(text, offset + 1, {"dollar"}) /\ CharOf(text, offset + 1 + 1, Letter))
    <3>1. CharOf(text, offset + 1, {"dollar"}) => NextChar = "dollar"
      BY <1>1, <1>2, NextIsChar
    <3>2. FollowedBy(Letter) <=> CharOf(text, offset + 2, Letter)
      BY <1>1, FollowedByFacts
    <3>3. offset + 1 + 1 = offset + 2
      BY <1>1
    <3> QED BY <1>2, <3>1, <3>2, <3>3
  <2>3. t.from <= t.to /\ \A i \in t.from .. t.to : i = offset + 1
    BY <1>1, <1>4
  <2>4. AllIn(text, t.from, t.to, Punct \cup {"point", "dollar"})
    BY <2>1, <2>3 DEF AllIn
  <2>5. \A i \in t.from .. t.to : ~(CharOf(text, i, {"dollar"}) /\ CharOf(text, i + 1, Letter))
    BY <2>2, <2>3
  <2> QED BY <1>4, <2>3, <2>4, <2>5 DEF WellLexed
<1>6. ReadTo = offset /\ ReadTo' = offset + 1 /\ offset + 1 >= offset
  BY <1>1, <1>2 DEF ReadTo
<1>7. /\ out' \in Seq(Token(text)) /\ TokensCover' /\ LexemesMaximal'
      /\ t.kind # "EOF" => \A k \in DOMAIN out' : out'[k].kind # "EOF"
  BY <1>2, <1>4, <1>5, <1>6, TokenAdded
<1>8. offset' \in 0 .. Len(text) /\ start \in 0 .. offset'
  BY <1>1, <1>2, NextIsChar
<1>9. LexTypeOK'
  BY <1>1, <1>2, <1>3, <1>7, <1>8 DEF LexTypeOK, Scanning
<1>10. EndIsLast' /\ Scanned'
  BY <1>2, <1>4, <1>7 DEF EndIsLast, Scanned, Scanning
<1> QED BY <1>7, <1>9, <1>10 DEF LexInv

LEMMA ReadWordKeeps ==
  ASSUME LexInv, ReadWord
  PROVE  LexInv'
<1>1. LexTypeOK /\ lexing = "word" /\ lexing \in Scanning \ {"blank"}
  BY DEF LexInv, ReadWord, Scanning
<1>2. /\ Len(text) \in Nat /\ offset \in Nat /\ offset <= Len(text)
      /\ start \in Nat /\ start < offset /\ row \in Nat /\ col \in Nat
  BY <1>1, LexNumbers DEF LexInv, Scanned
<1>3. IsWord(text, start + 1, offset)
  BY <1>1 DEF LexInv, Scanned
<1>4. CASE Continues(Letter \cup Digit)
  <2>1. CharOf(text, offset + 1, Letter \cup Digit)
    BY <1>1, <1>4, ContinuesFacts
  <2>2. /\ offset' = offset + 1 /\ col' = col + 1 /\ row' = row
        /\ UNCHANGED << text, start, lexing, out >>
    BY <1>4 DEF ReadWord, Advance
  <2>3. offset + 1 <= Len(text) /\ row' \in Nat /\ col' \in Nat
    BY <1>2, <2>1, <2>2 DEF CharOf
  <2>4. /\ LexTypeOK' /\ TokensCover' /\ LexemesMaximal' /\ EndIsLast' /\ start' < offset'
    BY <1>1, <2>2, <2>3, ReadOnKeeps
  <2>5. IsWord(text, start + 1, offset + 1)
    <3>1. AllIn(text, start + 1 + 1, offset + 1, Letter \cup Digit)
      BY <1>2, <1>3, <2>1, RunGrows DEF IsWord
    <3>2. start + 1 < offset => start + 1 < offset + 1
      BY <1>2
    <3> QED BY <1>3, <3>1, <3>2 DEF IsWord
  <2>6. Scanned'
    BY <1>1, <2>2, <2>4, <2>5 DEF Scanned
  <2> QED BY <2>4, <2>6 DEF LexInv
<1>5. CASE ~Continues(Letter \cup Digit)
  <2>1. Emit("IDENT") /\ "IDENT" \in TokenKind \ {"EOF"}
    BY <1>5 DEF ReadWord, TokenKind
  <2>2. ~CharOf(text, offset + 1, Letter \cup Digit)
    BY <1>1, <1>5, ContinuesFacts
  <2> DEFINE t == TokenTo("IDENT", offset, col)
  <2>3. t.kind = "IDENT" /\ t.from = start + 1 /\ t.to = offset
    BY DEF TokenTo
  <2> HIDE DEF t
  <2>4. WellLexed(text, t)
    BY <1>3, <2>2, <2>3 DEF WellLexed
  <2>5. t = TokenTo("IDENT", offset, col)
    BY DEF t
  <2> QED BY <1>1, <2>1, <2>4, <2>5, EmitKeeps
<1> QED BY <1>4, <1>5

LEMMA ReadDigitsKeeps ==
  ASSUME LexInv, ReadDigits
  PROVE  LexInv'
<1>1. LexTypeOK /\ lexing = "digits" /\ lexing \in Scanning \ {"blank"}
  BY DEF LexInv, ReadDigits, Scanning
<1>2. /\ Len(text) \in Nat /\ offset \in Nat /\ offset <= Len(text)
      /\ start \in Nat /\ start < offset /\ row \in Nat /\ col \in Nat
  BY <1>1, LexNumbers DEF LexInv, Scanned
<1>3. IsNumber(text, start + 1, offset)
  BY <1>1 DEF LexInv, Scanned
<1>4. CASE Continues(Digit)
  <2>1. CharOf(text, offset + 1, Digit)
    BY <1>1, <1>4, ContinuesFacts
  <2>2. /\ offset' = offset + 1 /\ col' = col + 1 /\ row' = row
        /\ UNCHANGED << text, start, lexing, out >>
    BY <1>4 DEF ReadDigits, Advance
  <2>3. offset + 1 <= Len(text) /\ row' \in Nat /\ col' \in Nat
    BY <1>2, <2>1, <2>2 DEF CharOf
  <2>4. /\ LexTypeOK' /\ TokensCover' /\ LexemesMaximal' /\ EndIsLast' /\ start' < offset'
    BY <1>1, <2>2, <2>3, ReadOnKeeps
  <2>5. IsNumber(text, start + 1, offset + 1)
    <3>1. AllIn(text, start + 1, offset + 1, Digit)
      BY <1>2, <1>3, <2>1, RunGrows DEF IsNumber
    <3>2. start + 1 <= offset + 1
      BY <1>2
    <3> QED BY <3>1, <3>2 DEF IsNumber
  <2>6. Scanned'
    BY <1>1, <2>2, <2>4, <2>5 DEF Scanned
  <2> QED BY <2>4, <2>6 DEF LexInv
<1>5. CASE ~Continues(Digit) /\ Continues({"point"}) /\ FollowedBy(Digit)
  <2>1. CharOf(text, offset + 1, {"point"}) /\ CharOf(text, offset + 2, Digit)
    BY <1>1, <1>5, ContinuesFacts, FollowedByFacts
  <2>2. /\ offset' = offset + 2 /\ col' = col + 2 /\ row' = row
        /\ lexing' = "fraction" /\ UNCHANGED << text, start, out >>
    BY <1>5 DEF ReadDigits, Advance
  <2>3. offset + 2 <= Len(text) /\ row' \in Nat /\ col' \in Nat
    BY <1>2, <2>1, <2>2 DEF CharOf
  <2>4. /\ LexTypeOK' /\ TokensCover' /\ LexemesMaximal' /\ EndIsLast' /\ start' < offset'
    BY <1>1, <2>2, <2>3, ReadOnKeeps DEF Scanning
  <2>5. IsFraction(text, start + 1, offset + 2)
    <3>1. PICK from \in Nat, m \in Nat, p \in Nat, to \in Nat :
            from = start + 1 /\ m = offset /\ p = offset + 1 /\ to = offset + 2
      BY <1>2
    <3>2. p \in from + 1 .. to - 1 /\ m + 1 = p /\ to = p + 1 /\ to <= to
      BY <1>2, <3>1
    <3>3. IsNumber(text, to, to)
      <4>1. AllIn(text, to, to, Digit)
        BY <2>1, <3>1 DEF AllIn
      <4> QED BY <3>2, <4>1 DEF IsNumber
    <3>4. IsNumber(text, from, m) /\ CharOf(text, p, {"point"})
      BY <1>3, <2>1, <3>1
    <3>5. IsFraction(text, from, to)
      BY <3>2, <3>3, <3>4, FractionAt
    <3> QED BY <3>1, <3>5
  <2>6. Scanned'
    BY <2>2, <2>4, <2>5 DEF Scanned
  <2> QED BY <2>4, <2>6 DEF LexInv
<1>6. CASE ~Continues(Digit) /\ ~(Continues({"point"}) /\ FollowedBy(Digit))
  <2>1. Emit("NUMBER") /\ "NUMBER" \in TokenKind \ {"EOF"}
    BY <1>6 DEF ReadDigits, TokenKind
  <2>2. /\ ~CharOf(text, offset + 1, Digit)
        /\ ~(CharOf(text, offset + 1, {"point"}) /\ CharOf(text, offset + 2, Digit))
    BY <1>1, <1>6, ContinuesFacts, FollowedByFacts
  <2> DEFINE t == TokenTo("NUMBER", offset, col)
  <2>3. t.kind = "NUMBER" /\ t.from = start + 1 /\ t.to = offset
    BY DEF TokenTo
  <2> HIDE DEF t
  <2>4. WellLexed(text, t)
    BY <1>3, <2>2, <2>3 DEF WellLexed
  <2>5. t = TokenTo("NUMBER", offset, col)
    BY DEF t
  <2> QED BY <1>1, <2>1, <2>4, <2>5, EmitKeeps
<1> QED BY <1>4, <1>5, <1>6

LEMMA ReadFractionKeeps ==
  ASSUME LexInv, ReadFraction
  PROVE  LexInv'
<1>1. LexTypeOK /\ lexing = "fraction" /\ lexing \in Scanning \ {"blank"}
  BY DEF LexInv, ReadFraction, Scanning
<1>2. /\ Len(text) \in Nat /\ offset \in Nat /\ offset <= Len(text)
      /\ start \in Nat /\ start < offset /\ row \in Nat /\ col \in Nat
  BY <1>1, LexNumbers DEF LexInv, Scanned
<1>3. IsFraction(text, start + 1, offset)
  BY <1>1 DEF LexInv, Scanned
<1>4. CASE Continues(Digit)
  <2>1. CharOf(text, offset + 1, Digit)
    BY <1>1, <1>4, ContinuesFacts
  <2>2. /\ offset' = offset + 1 /\ col' = col + 1 /\ row' = row
        /\ UNCHANGED << text, start, lexing, out >>
    BY <1>4 DEF ReadFraction, Advance
  <2>3. offset + 1 <= Len(text) /\ row' \in Nat /\ col' \in Nat
    BY <1>2, <2>1, <2>2 DEF CharOf
  <2>4. /\ LexTypeOK' /\ TokensCover' /\ LexemesMaximal' /\ EndIsLast' /\ start' < offset'
    BY <1>1, <2>2, <2>3, ReadOnKeeps
  <2>5. IsFraction(text, start + 1, offset + 1)
    <3>1. start + 1 \in Nat /\ offset + 1 \in Nat
      BY <1>2
    <3>2. PICK p \in start + 1 + 1 .. offset - 1, m \in Nat, n \in Nat :
            /\ m + 1 = p /\ n = p + 1
            /\ IsNumber(text, start + 1, m) /\ CharOf(text, p, {"point"}) /\ IsNumber(text, n, offset)
      BY <1>2, <1>3, <3>1, FractionParts
    <3>3. p \in start + 1 + 1 .. offset + 1 - 1 /\ n <= offset + 1
      BY <1>2, <3>2
    <3>4. IsNumber(text, n, offset + 1)
      BY <1>2, <2>1, <3>2, <3>3, RunGrows DEF IsNumber
    <3> QED BY <3>1, <3>2, <3>3, <3>4, FractionAt
  <2>6. Scanned'
    BY <1>1, <2>2, <2>4, <2>5 DEF Scanned
  <2> QED BY <2>4, <2>6 DEF LexInv
<1>5. CASE ~Continues(Digit)
  <2>1. Emit("FLOAT") /\ "FLOAT" \in TokenKind \ {"EOF"}
    BY <1>5 DEF ReadFraction, TokenKind
  <2>2. ~CharOf(text, offset + 1, Digit)
    BY <1>1, <1>5, ContinuesFacts
  <2> DEFINE t == TokenTo("FLOAT", offset, col)
  <2>3. t.kind = "FLOAT" /\ t.from = start + 1 /\ t.to = offset
    BY DEF TokenTo
  <2> HIDE DEF t
  <2>4. WellLexed(text, t)
    BY <1>3, <2>2, <2>3 DEF WellLexed
  <2>5. t = TokenTo("FLOAT", offset, col)
    BY DEF t
  <2> QED BY <1>1, <2>1, <2>4, <2>5, EmitKeeps
<1> QED BY <1>4, <1>5

LEMMA ReadStringKeeps ==
  ASSUME LexInv, ReadString
  PROVE  LexInv'
<1>1. LexTypeOK /\ lexing = "string" /\ lexing \in Scanning \ {"blank"} /\ Left
  BY DEF LexInv, ReadString, Scanning
<1>2. /\ Len(text) \in Nat /\ offset \in Nat /\ offset <= Len(text)
      /\ start \in Nat /\ start < offset /\ row \in Nat /\ col \in Nat
  BY <1>1, LexNumbers DEF LexInv, Scanned
<1>3. IsQuoted(text, start + 1, offset)
  BY <1>1 DEF LexInv, Scanned
<1>4. offset + 1 <= Len(text) /\ NextChar \in Char
  BY <1>1, NextIsChar, <1>2
<1>5. CASE NextChar # "quote"
  <2>1. CharOf(text, offset + 1, Char \ {"quote"})
    BY <1>1, <1>4, <1>5, NextIsChar
  <2>2. /\ offset' = offset + 1 /\ row' \in Nat /\ col' \in Nat
        /\ UNCHANGED << text, start, lexing, out >>
    BY <1>2, <1>5 DEF ReadString, Advance, Newline
  <2>3. /\ LexTypeOK' /\ TokensCover' /\ LexemesMaximal' /\ EndIsLast' /\ start' < offset'
    BY <1>1, <1>4, <2>2, ReadOnKeeps
  <2>4. IsQuoted(text, start + 1, offset + 1)
    <3>1. AllIn(text, start + 1 + 1, offset + 1, Char \ {"quote"})
      BY <1>2, <1>3, <2>1, RunGrows DEF IsQuoted
    <3> QED BY <1>3, <3>1 DEF IsQuoted
  <2>5. Scanned'
    BY <1>1, <2>2, <2>3, <2>4 DEF Scanned
  <2> QED BY <2>3, <2>5 DEF LexInv
<1>6. CASE NextChar = "quote"
  <2> DEFINE t == TokenTo("STRING", offset + 1, col + 1)
  <2>1. /\ offset' = offset + 1 /\ col' = col + 1 /\ row' = row
        /\ out' = Append(out, t) /\ lexing' = "blank" /\ UNCHANGED << text, start >>
    BY <1>6 DEF ReadString, Advance
  <2>2. t.kind = "STRING" /\ t.from = start + 1 /\ t.to = offset + 1
    BY DEF TokenTo
  <2>3. Located(col + 1, offset + 1 - start) \in Nat /\ start + 1 \in Nat /\ offset + 1 \in Nat
    <3>1. PICK n \in Nat : n = offset + 1 - start
      BY <1>2
    <3>2. col + 1 \in Nat
      BY <1>2
    <3>3. Located(col + 1, n) \in Nat
      BY <3>2, LocatedIsNat
    <3> QED BY <1>2, <3>1, <3>3
  <2>4. t \in Token(text)
    <3>1. start + 1 \in 1 .. Len(text) + 1 /\ offset + 1 \in 0 .. Len(text)
      BY <1>2, <1>4
    <3> QED BY <1>2, <2>3, <3>1 DEF Token, TokenTo, TokenKind
  <2> HIDE DEF t
  <2>5. WellLexed(text, t)
    <3>1. t.from < t.to /\ t.to - 1 = offset
      BY <1>2, <2>2
    <3>2. CharOf(text, t.to, {"quote"})
      BY <1>1, <1>6, <2>2, NextIsChar
    <3>3. IsQuoted(text, t.from, t.to - 1)
      BY <1>3, <2>2, <3>1
    <3> QED BY <2>2, <3>1, <3>2, <3>3 DEF WellLexed
  <2>6. ReadTo = start /\ ReadTo' = offset + 1 /\ offset + 1 >= start
    BY <1>1, <1>2, <2>1 DEF ReadTo
  <2>7. /\ out' \in Seq(Token(text)) /\ TokensCover' /\ LexemesMaximal'
        /\ t.kind # "EOF" => \A k \in DOMAIN out' : out'[k].kind # "EOF"
    BY <1>1, <2>1, <2>2, <2>4, <2>5, <2>6, TokenAdded
  <2>8. /\ offset' \in 0 .. Len(text) /\ start \in 0 .. offset'
        /\ row' \in Nat /\ col' \in Nat
    BY <1>2, <1>4, <2>1
  <2>9. LexTypeOK'
    BY <1>1, <2>1, <2>7, <2>8 DEF LexTypeOK, Scanning
  <2>10. EndIsLast' /\ Scanned'
    BY <2>1, <2>2, <2>7 DEF EndIsLast, Scanned, Scanning
  <2> QED BY <2>7, <2>9, <2>10 DEF LexInv
<1> QED BY <1>5, <1>6

LEMMA UnterminatedKeeps ==
  ASSUME LexInv, Unterminated
  PROVE  LexInv'
<1>1. lexing = "string" /\ lexing' = "failed" /\ UNCHANGED << text, offset, row, col, start, out >>
  BY DEF Unterminated
<1>2. LexTypeOK' /\ EndIsLast' /\ Scanned'
  BY <1>1 DEF LexInv, LexTypeOK, EndIsLast, Scanned, Scanning
<1>3. ReadTo' = ReadTo
  BY <1>1 DEF ReadTo
<1>4. TokensCover' /\ LexemesMaximal'
  BY <1>1, <1>3, TokenGoesOn
<1> QED BY <1>2, <1>4 DEF LexInv

LEMMA EndOfTextKeeps ==
  ASSUME LexInv, EndOfText
  PROVE  LexInv'
<1> DEFINE t == [kind |-> "EOF", from |-> offset + 1, to |-> offset, row |-> row, col |-> col % SizeT]
<1>1. /\ Len(text) \in Nat /\ offset \in Nat /\ offset <= Len(text)
      /\ start \in Nat /\ start <= offset /\ row \in Nat /\ col \in Nat /\ LexTypeOK
  BY LexNumbers DEF LexInv
<1>2. /\ lexing = "blank" /\ ~Left /\ out' = Append(out, t) /\ lexing' = "done"
      /\ UNCHANGED << text, offset, row, col, start >>
  BY DEF EndOfText, Between
<1>3. col % SizeT \in Nat
  BY <1>1, ColumnIsNat
<1>4. t \in Token(text) /\ t.kind = "EOF" /\ t.from = offset + 1 /\ t.to = offset
  BY <1>1, <1>3 DEF Token, TokenKind
<1> HIDE DEF t
<1>5. WellLexed(text, t)
  <2>1. offset + 1 > Len(text)
    BY <1>1, <1>2 DEF Left
  <2> QED BY <1>4, <2>1 DEF WellLexed
<1>6. ReadTo = offset /\ ReadTo' = offset /\ offset >= offset
  BY <1>1, <1>2 DEF ReadTo
<1>7. out' \in Seq(Token(text)) /\ TokensCover' /\ LexemesMaximal'
  BY <1>2, <1>4, <1>5, <1>6, TokenAdded
<1>8. LexTypeOK' /\ EndIsLast' /\ Scanned'
  BY <1>1, <1>2, <1>7 DEF LexTypeOK, Scanning, EndIsLast, Scanned
<1> QED BY <1>7, <1>8 DEF LexInv

(* Every step of the lexer keeps the invariant. *)
LEMMA LexStepKeeps ==
  ASSUME LexInv, LexNext
  PROVE  LexInv'
  BY SkipBlankKeeps, BeginWordKeeps, BeginNumberKeeps, BeginStringKeeps, SymbolKeeps,
     ReadWordKeeps, ReadDigitsKeeps, ReadFractionKeeps, ReadStringKeeps,
     UnterminatedKeeps, EndOfTextKeeps DEF LexNext

(* And so does every step that leaves the lexer alone. *)
LEMMA LexIdleKeeps ==
  ASSUME LexInv, UNCHANGED lexVars
  PROVE  LexInv'
<1>1. UNCHANGED << text, offset, row, col, start, lexing, out >>
  BY DEF lexVars
<1>2. ReadTo' = ReadTo
  BY <1>1 DEF ReadTo
<1>3. TokensCover' /\ LexemesMaximal'
  BY <1>1, <1>2, TokenGoesOn
<1>4. LexTypeOK' /\ Scanned' /\ EndIsLast'
  BY <1>1 DEF LexInv, LexTypeOK, Scanned, EndIsLast
<1> QED BY <1>3, <1>4 DEF LexInv

-----------------------------------------------------------------------------
(* The composition *)

FrontInv == input \in Input /\ LexInv /\ ControlInv

-----------------------------------------------------------------------------
LEMMA StartsInFrontInv ==
  ASSUME Init
  PROVE  FrontInv
<1>1. input \in Input /\ input.text \in Seq(Char) /\ input.file \in DOMAIN File
  BY InputAssumption DEF Init
<1>2. LexInv
  BY <1>1, LexStarts DEF Init
<1>3. /\ grammar \in DOMAIN File /\ building \in BOOLEAN /\ tokens = << >> /\ stack = << >>
      /\ returned = NoResult /\ failure = [cursor |-> 0, rule |-> NoName] /\ verdict = "idle"
  BY <1>1 DEF Init
<1>4. returned.is = "none" /\ returned.cursor = 0
  BY <1>3 DEF NoResult
<1>5. ControlTypeOK
  BY <1>3, <1>4 DEF ControlTypeOK
<1>6. ControlInv
  BY <1>3, <1>4, <1>5 DEF ControlInv, Running, StackOK
<1> QED BY <1>1, <1>2, <1>6 DEF FrontInv

(* The tokens that are handed to the parser. *)
LEMMA LexedIsTyped ==
  ASSUME LexTypeOK
  PROVE  Lexed \in Seq([kind : STRING, lexeme : Seq(STRING)])
<1>1. out \in Seq(Token(text)) /\ Len(out) \in Nat /\ DOMAIN out = 1 .. Len(out)
  BY DEF LexTypeOK
<1>2. text \in Seq(Char) /\ Len(text) \in Nat
  BY DEF LexTypeOK
<1>3. \A i \in 1 .. Len(text) : text[i] \in STRING
  BY <1>2, CharAssumption
<1>4. ASSUME NEW k \in 1 .. Len(out)
      PROVE  [kind |-> out[k].kind, lexeme |-> Lexeme(out[k])] \in [kind : STRING, lexeme : Seq(STRING)]
  <2>1. PICK t : t = out[k]
    OBVIOUS
  <2>2. t \in Token(text)
    BY <1>1, <2>1
  <2>3. /\ t.kind \in TokenKind /\ t.from \in 1 .. Len(text) + 1 /\ t.to \in 0 .. Len(text)
    BY <2>2 DEF Token
  <2>4. t.kind \in STRING
    BY <2>3, CharAssumption
  <2>5. PICK from \in Int, to \in Int : from = t.from /\ to = t.to /\ from >= 1 /\ to <= Len(text)
    BY <1>2, <2>3
  <2>6. \A i \in from .. to : text[i] \in STRING
    BY <1>2, <1>3, <2>5
  <2>7. SubSeq(text, from, to) \in Seq(STRING)
    BY <2>6, SubSeqProperties
  <2> QED BY <2>1, <2>4, <2>5, <2>7 DEF Lexeme
<1> QED BY <1>1, <1>4 DEF Lexed

LEMMA StepKeepsFrontInv ==
  ASSUME FrontInv, [Next]_vars
  PROVE  FrontInv'
<1>1. CASE Lex
  <2>1. LexInv'
    BY <1>1, LexStepKeeps DEF Lex, FrontInv
  <2>2. ControlInv'
    BY <1>1, MatchIdleKeeps DEF Lex, FrontInv
  <2> QED BY <1>1, <2>1, <2>2 DEF Lex, FrontInv
<1>2. CASE StartParse
  <2>1. LexInv' /\ input' = input
    BY <1>2, LexIdleKeeps DEF StartParse, FrontInv
  <2>2. CASE Grammar[input.file].loads
    <3>1. Parse(input.file, Lexed, input.build)
      BY <1>2, <2>2 DEF StartParse
    <3>2. input.file \in DOMAIN File /\ input.build \in BOOLEAN
      BY InputAssumption DEF FrontInv
    <3>3. Lexed \in Seq([kind : STRING, lexeme : Seq(STRING)])
      BY LexedIsTyped DEF FrontInv, LexInv
    <3>4. ControlInv'
      BY <2>2, <3>1, <3>2, <3>3, ParseKeeps
    <3> QED BY <2>1, <3>4 DEF FrontInv
  <2>3. CASE ~Grammar[input.file].loads
    <3>1. /\ verdict = "idle" /\ verdict' = "rejected"
          /\ UNCHANGED << grammar, tokens, building, stack, returned, failure >>
      BY <1>2, <2>3 DEF StartParse
    <3>2. Rules' = Rules /\ ~Running' /\ Top' = Top
      BY <3>1 DEF Rules, Running, Top
    <3>3. ControlTypeOK'
      BY <3>1 DEF FrontInv, ControlInv, ControlTypeOK
    <3>4. ControlInv'
      BY <3>1, <3>2, <3>3 DEF FrontInv, ControlInv
    <3> QED BY <2>1, <3>4 DEF FrontInv
  <2> QED BY <2>2, <2>3
<1>3. CASE Match
  <2>1. ControlInv'
    BY <1>3, MatchStepKeeps DEF Match, FrontInv
  <2>2. LexInv' /\ input' = input
    BY <1>3, LexIdleKeeps DEF Match, FrontInv
  <2> QED BY <2>1, <2>2 DEF FrontInv
<1>4. CASE UNCHANGED vars
  <2>1. LexInv' /\ ControlInv' /\ input' = input
    BY <1>4, LexIdleKeeps, MatchIdleKeeps DEF vars, FrontInv
  <2> QED BY <2>1 DEF FrontInv
<1> QED BY <1>1, <1>2, <1>3, <1>4 DEF Next

-----------------------------------------------------------------------------
(* The invariant that the theorems rest on: lexer.c and parser.c never     *)
(* leave the text, the grammar, the tokens or the recursion limit.         *)
THEOREM FrontEndInvariant == Spec => []FrontInv
<1>1. Init => FrontInv
  BY StartsInFrontInv
<1>2. FrontInv /\ [Next]_vars => FrontInv'
  BY StepKeepsFrontInv
<1> QED BY <1>1, <1>2, PTL DEF Spec

(* Every token of lexer_tokenize has its place in the text and a column    *)
(* that is counted in a size_t.                                            *)
THEOREM LexerTyped == Spec => []LexTypeOK
<1>1. FrontInv => LexTypeOK
  BY DEF FrontInv, LexInv
<1> QED BY <1>1, FrontEndInvariant, PTL

(* lexer_tokenize loses nothing but blanks and reads nothing twice.        *)
THEOREM LexerCovers == Spec => []TokensCover
<1>1. FrontInv => TokensCover
  BY DEF FrontInv, LexInv
<1> QED BY <1>1, FrontEndInvariant, PTL

(* lexer_tokenize makes each token as long as the text allows, and of the  *)
(* right kind.                                                             *)
THEOREM LexerMaximal == Spec => []LexemesMaximal
<1>1. FrontInv => LexemesMaximal
  BY DEF FrontInv, LexInv
<1> QED BY <1>1, FrontEndInvariant, PTL

(* parse_rule_internal(_ast) never goes back over what it has matched.     *)
THEOREM ParserAdvances == Spec => []CursorsOrdered
<1>1. FrontInv => CursorsOrdered
  BY ControlImplies DEF FrontInv
<1> QED BY <1>1, FrontEndInvariant, PTL

(* PARSER_MAX_DEPTH bounds the recursion for every grammar and every text. *)
THEOREM ParserBounded == Spec => []RecursionBounded
<1>1. FrontInv => RecursionBounded
  BY ControlImplies DEF FrontInv
<1> QED BY <1>1, FrontEndInvariant, PTL

(* The trees that parse_rule_internal_ast builds are made of nodes built   *)
(* before them, so ast_free ends on every one of them; what the activations*)
(* hold and what they return are nodes that were built, for every grammar  *)
(* file, whatever its patterns capture and its templates ask for.          *)
THEOREM TreesTyped == Spec => []MatchTypeOK
<1>1. Init => DataInv
  <2> SUFFICES ASSUME Init
               PROVE  DataInv
    OBVIOUS
  <2>1. /\ stack = << >> /\ held = << >> /\ returned = NoResult
        /\ nodes = << >> /\ freed = {} /\ building = FALSE
    BY DEF Init
  <2>2. Len(nodes) = 0 /\ HeapOK(nodes)
    <3>1. << >> \in Seq(Tree) /\ DOMAIN << >> = {} /\ Len(<< >>) = 0
      OBVIOUS
    <3> QED BY <2>1, <3>1 DEF HeapOK
  <2>3. held \in Seq(Holding(0)) /\ Len(held) = Len(stack)
    BY <2>1
  <2>4. returned.node = 0
    BY <2>1 DEF NoResult, NoNode
  <2> QED BY <2>1, <2>2, <2>3, <2>4 DEF DataInv
<1>2. FrontInv /\ DataInv /\ [Next]_vars => DataInv'
  <2> SUFFICES ASSUME FrontInv, DataInv, [Next]_vars
               PROVE  DataInv'
    OBVIOUS
  <2>1. CASE UNCHANGED matchVars
    BY <2>1, MatchIdleHolds DEF matchVars, control
  <2>2. CASE StartParse
    <3>1. CASE Grammar[input.file].loads
      <4>1. Parse(input.file, Lexed, input.build) /\ input.file \in DOMAIN File
        BY <2>2, <3>1, InputAssumption DEF StartParse, FrontInv
      <4> QED BY <3>1, <4>1, ParseHolds
    <3>2. CASE ~Grammar[input.file].loads
      BY <2>2, <3>2, MatchIdleHolds DEF StartParse
    <3> QED BY <3>1, <3>2
  <2>3. CASE Match
    BY <2>3, MatchStepHolds DEF Match, FrontInv
  <2> QED BY <2>1, <2>2, <2>3 DEF Next, Lex, vars
<1>3. FrontInv /\ DataInv => MatchTypeOK
  BY DataImplies DEF FrontInv
<1> QED BY <1>1, <1>2, <1>3, FrontEndInvariant, PTL DEF Spec

(* Whatever grammar_parse and grammar_parse_ast accept is a sentence of    *)
(* the grammar: backtracking out of productions, repetitions and           *)
(* extensions, and giving up a tree, neither skips a token nor reads one   *)
(* twice, for every grammar file and every text.                           *)
THEOREM ParserSound == Spec => []AcceptsSentences
<1>1. Init => LanguageInv
  <2> SUFFICES ASSUME Init
               PROVE  LanguageInv
    OBVIOUS
  <2>1. stack = << >> /\ returned.is # "matched" /\ verdict = "idle"
    BY DEF Init, NoResult
  <2>2. StackReads(Given, First, stack)
    BY <2>1 DEF StackReads
  <2> QED BY <2>1, <2>2 DEF LanguageInv, AcceptsSentences
<1>2. FrontInv /\ LanguageInv /\ [Next]_vars => LanguageInv'
  <2> SUFFICES ASSUME FrontInv, LanguageInv, [Next]_vars
               PROVE  LanguageInv'
    OBVIOUS
  <2>1. CASE UNCHANGED matchVars
    BY <2>1, MatchIdleKeepsReading
  <2>2. CASE StartParse
    <3>1. CASE Grammar[input.file].loads
      <4>1. Parse(input.file, Lexed, input.build)
        BY <2>2, <3>1 DEF StartParse
      <4>2. input.file \in DOMAIN File /\ input.build \in BOOLEAN
        BY InputAssumption DEF FrontInv
      <4>3. Lexed \in Seq([kind : STRING, lexeme : Seq(STRING)])
        BY LexedIsTyped DEF FrontInv, LexInv
      <4> QED BY <3>1, <4>1, <4>2, <4>3, ParseKeepsReading
    <3>2. CASE ~Grammar[input.file].loads
      <4>1. verdict' = "rejected" /\ UNCHANGED << grammar, tokens, building, stack, returned >>
        BY <2>2, <3>2 DEF StartParse
      <4>2. Given' = Given /\ First' = First
        BY <4>1 DEF Given, First, Rules
      <4> QED BY <4>1, <4>2 DEF LanguageInv, AcceptsSentences
    <3> QED BY <3>1, <3>2
  <2>3. CASE Match
    BY <2>3, MatchStepKeepsReading DEF Match, FrontInv
  <2> QED BY <2>1, <2>2, <2>3 DEF Next, Lex, vars
<1>3. LanguageInv => AcceptsSentences
  BY DEF LanguageInv
<1> QED BY <1>1, <1>2, <1>3, FrontEndInvariant, PTL DEF Spec

-----------------------------------------------------------------------------
(* Lines and columns *)

(* The newlines among the first p characters of s, and the last of them.   *)
Breaks(s, p) == {i \in 1 .. p : s[i] = "newline"}
LastBreak(s, p) == IF Breaks(s, p) = {} THEN 0 ELSE Max(Breaks(s, p))

(* The row and the column that are counted are those of the next character,*)
(* whatever was read to get there.                                         *)
PlaceKept ==
  /\ row = 1 + Cardinality(Breaks(text, offset))
  /\ col = offset + 1 - LastBreak(text, offset)

(* A token on one line has the place of its first character.               *)
Placed(s, t) ==
  AllIn(s, t.from, t.to, Char \ {"newline"}) =>
    /\ t.row = 1 + Cardinality(Breaks(s, t.from - 1))
    /\ t.col = (t.from - LastBreak(s, t.from - 1)) % SizeT

PlaceInv == PlaceKept /\ \A k \in 1 .. Len(out) : Placed(text, out[k])

(* The characters after p up to q break no line.                           *)
OneLine(s, p, q) == \A i \in p + 1 .. q : s[i] # "newline"

(* Characters that break no line leave the count of lines alone. *)
LEMMA BreaksKept ==
  ASSUME NEW s, NEW p \in Nat, NEW q \in Nat, p <= q, OneLine(s, p, q)
  PROVE  Breaks(s, q) = Breaks(s, p) /\ LastBreak(s, q) = LastBreak(s, p)
<1>1. \A i \in 1 .. q : i \in 1 .. p \/ i \in p + 1 .. q
  OBVIOUS
<1>2. \A i \in 1 .. p : i \in 1 .. q
  OBVIOUS
<1>3. Breaks(s, q) = Breaks(s, p)
  BY <1>1, <1>2 DEF Breaks, OneLine
<1> QED BY <1>3 DEF LastBreak

(* Line breaks lie within what was read. *)
LEMMA BreaksFacts ==
  ASSUME NEW s, NEW p \in Nat
  PROVE  /\ IsFiniteSet(Breaks(s, p)) /\ Cardinality(Breaks(s, p)) \in Nat
         /\ LastBreak(s, p) \in 0 .. p
<1>1. Breaks(s, p) \in SUBSET (1 .. p)
  BY DEF Breaks
<1>2. IsFiniteSet(Breaks(s, p)) /\ Cardinality(Breaks(s, p)) \in Nat
  <2>1. IsFiniteSet(1 .. p)
    BY FS_Interval
  <2>2. IsFiniteSet(Breaks(s, p))
    BY <1>1, <2>1, FS_Subset
  <2> QED BY <2>2, FS_CardinalityType
<1>3. ASSUME Breaks(s, p) # {}
      PROVE  Max(Breaks(s, p)) \in 1 .. p
  BY <1>1, <1>3, MaxInSet
<1> QED BY <1>2, <1>3 DEF LastBreak

(* One more line break is the last one. *)
LEMMA BreakAdded ==
  ASSUME NEW s, NEW p \in Nat, s[p + 1] = "newline"
  PROVE  /\ Cardinality(Breaks(s, p + 1)) = Cardinality(Breaks(s, p)) + 1
         /\ LastBreak(s, p + 1) = p + 1
<1>1. Breaks(s, p + 1) = Breaks(s, p) \cup {p + 1}
  BY DEF Breaks
<1>2. p + 1 \notin Breaks(s, p)
  BY DEF Breaks
<1>3. Cardinality(Breaks(s, p + 1)) = Cardinality(Breaks(s, p)) + 1
  BY <1>1, <1>2, BreaksFacts, FS_AddElement
<1>4. p + 1 \in Breaks(s, p + 1) /\ Breaks(s, p + 1) \in SUBSET (1 .. p + 1) /\ p + 1 \in Nat
  BY DEF Breaks
<1>5. Max(Breaks(s, p + 1)) \in Breaks(s, p + 1) /\ Max(Breaks(s, p + 1)) >= p + 1
  <2>1. Breaks(s, p + 1) # {}
    BY <1>4
  <2> QED BY <1>4, <2>1, MaxInSet
<1>6. Max(Breaks(s, p + 1)) = p + 1
  BY <1>4, <1>5
<1> QED BY <1>3, <1>4, <1>6 DEF LastBreak

(* Reading characters that break no line, or one that does.                *)
LEMMA PlaceAdvanced ==
  ASSUME LexTypeOK, PlaceKept, NEW n \in Nat, Advance(n), text' = text,
         OneLine(text, offset, offset + n)
  PROVE  PlaceKept'
<1>1. offset \in Nat /\ offset + n \in Nat /\ offset <= offset + n /\ col \in Nat
  BY LexNumbers
<1>2. /\ Breaks(text, offset + n) = Breaks(text, offset)
      /\ LastBreak(text, offset + n) = LastBreak(text, offset)
      /\ LastBreak(text, offset) \in 0 .. offset
  BY <1>1, BreaksKept, BreaksFacts
<1>3. offset' = offset + n /\ col' = col + n /\ row' = row
  BY DEF Advance
<1>4. PlaceKept' <=> /\ row' = 1 + Cardinality(Breaks(text, offset + n))
                     /\ col' = offset + n + 1 - LastBreak(text, offset + n)
  BY <1>3 DEF PlaceKept, Breaks, LastBreak
<1> QED BY <1>1, <1>2, <1>3, <1>4 DEF PlaceKept

(* Behind a line break the column starts again (lexer.c advance). *)
LEMMA PlaceOnNewLine ==
  ASSUME LexTypeOK, PlaceKept, Newline, text' = text, text[offset + 1] = "newline"
  PROVE  PlaceKept'
<1>1. offset \in Nat
  BY LexNumbers
<1>2. /\ Cardinality(Breaks(text, offset + 1)) = Cardinality(Breaks(text, offset)) + 1
      /\ LastBreak(text, offset + 1) = offset + 1
      /\ Cardinality(Breaks(text, offset)) \in Nat
  BY <1>1, BreakAdded, BreaksFacts
<1>3. offset' = offset + 1 /\ row' = row + 1 /\ col' = 1
  BY DEF Newline
<1>4. PlaceKept' <=> /\ row' = 1 + Cardinality(Breaks(text, offset + 1))
                     /\ col' = offset + 1 + 1 - LastBreak(text, offset + 1)
  BY <1>3 DEF PlaceKept, Breaks, LastBreak
<1> QED BY <1>1, <1>2, <1>3, <1>4 DEF PlaceKept

(* The token being read, if it ends n characters further on.               *)
LEMMA TokenPlaced ==
  ASSUME LexTypeOK, PlaceKept, NEW n \in Nat,
         NEW t, t.from = start + 1, t.to = offset + n, t.row = row,
         t.col = Located(col + n, (offset + n) - start)
  PROVE  Placed(text, t)
<1>1. offset \in Nat /\ start \in Nat /\ start <= offset /\ col \in Nat
  BY LexNumbers
<1>2. t.from - 1 = start
  BY <1>1
<1>3. SUFFICES ASSUME AllIn(text, t.from, t.to, Char \ {"newline"})
               PROVE  /\ t.row = 1 + Cardinality(Breaks(text, start))
                      /\ t.col = (t.from - LastBreak(text, start)) % SizeT
  BY <1>2, Zenon DEF Placed
<1>4. OneLine(text, start, offset)
  <2> SUFFICES ASSUME NEW i \in start + 1 .. offset
               PROVE  text[i] # "newline"
    BY DEF OneLine
  <2>1. i \in start + 1 .. offset + n
    BY <1>1
  <2>2. CharOf(text, i, Char \ {"newline"})
    BY <1>3, <2>1 DEF AllIn
  <2> QED BY <2>2 DEF CharOf
<1>5. Breaks(text, offset) = Breaks(text, start) /\ LastBreak(text, offset) = LastBreak(text, start)
  BY <1>1, <1>4, BreaksKept
<1>6. LastBreak(text, start) \in 0 .. start
  BY <1>1, BreaksFacts
<1>7. (col + n) - ((offset + n) - start) = t.from - LastBreak(text, start)
  BY <1>1, <1>5, <1>6 DEF PlaceKept
<1>8. t.col = (t.from - LastBreak(text, start)) % SizeT
  <2>1. \A c, len : Located(c, len) = (c - len) % SizeT
    BY DEF Located
  <2>2. \A x, y : x = y => x % SizeT = y % SizeT
    OBVIOUS
  <2>3. t.col = ((col + n) - ((offset + n) - start)) % SizeT
    BY <2>1, Zenon
  <2> QED BY <1>7, <2>2, <2>3, Zenon
<1>9. t.row = 1 + Cardinality(Breaks(text, start))
  BY <1>5 DEF PlaceKept
<1> QED BY <1>8, <1>9

(* A token that starts with the next character.                            *)
LEMMA NextPlaced ==
  ASSUME LexTypeOK, PlaceKept,
         NEW t, t.from = offset + 1, t.row = row, t.col = col % SizeT
  PROVE  Placed(text, t)
<1>1. offset \in Nat /\ t.from - 1 = offset
  BY LexNumbers
<1>2. LastBreak(text, offset) \in 0 .. offset
  BY <1>1, BreaksFacts
<1>3. t.from - LastBreak(text, offset) = col
  BY <1>1, <1>2 DEF PlaceKept
<1> QED BY <1>1, <1>3 DEF Placed, PlaceKept

(* A token that is added is placed as the others are. *)
LEMMA PlacedAdded ==
  ASSUME LexTypeOK, PlaceInv, NEW t, out' = Append(out, t), text' = text, Placed(text, t)
  PROVE  \A k \in 1 .. Len(out') : Placed(text', out'[k])
<1>1. /\ Len(out) \in Nat /\ Len(out') = Len(out) + 1
      /\ \A k \in 1 .. Len(out) : out'[k] = out[k]
      /\ out'[Len(out) + 1] = t
  <2>1. out \in Seq(Token(text))
    BY DEF LexTypeOK
  <2> QED BY <2>1
<1>2. ASSUME NEW k \in 1 .. Len(out')
      PROVE  Placed(text, out'[k])
  <2>1. CASE k \in 1 .. Len(out)
    BY <1>1, <2>1 DEF PlaceInv
  <2>2. CASE k = Len(out) + 1
    BY <1>1, <2>2
  <2> QED BY <1>1, <2>1, <2>2
<1> QED BY <1>2

(* One character, or two, that break no line.                              *)
LEMMA OneCharLine ==
  ASSUME LexTypeOK, NEW S, Continues(S), "newline" \notin S
  PROVE  OneLine(text, offset, offset + 1)
<1>1. offset \in Nat
  BY LexNumbers
<1>2. text[offset + 1] \in S
  BY DEF Continues, NextChar
<1> QED BY <1>1, <1>2 DEF OneLine

(* Two characters that are not line breaks stay on a line. *)
LEMMA TwoCharsLine ==
  ASSUME LexTypeOK, NEW S, Continues(S), "newline" \notin S, NEW T, FollowedBy(T), "newline" \notin T
  PROVE  OneLine(text, offset, offset + 2)
<1>1. offset \in Nat
  BY LexNumbers
<1>2. text[offset + 1] \in S /\ text[offset + 2] \in T
  BY DEF Continues, NextChar, FollowedBy
<1>3. \A i \in offset + 1 .. offset + 2 : i = offset + 1 \/ i = offset + 2
  BY <1>1
<1> QED BY <1>2, <1>3 DEF OneLine

(* Every step of the lexer keeps count.                                    *)
LEMMA PlaceStep ==
  ASSUME LexInv, PlaceInv, LexNext
  PROVE  PlaceInv'
<1>1. LexTypeOK /\ PlaceKept /\ offset \in Nat /\ col \in Nat
  BY LexNumbers DEF LexInv, PlaceInv
<1>2. "newline" \notin Letter /\ "newline" \notin Digit /\ "newline" \notin Punct
  BY CharAssumption DEF Special
<1>3. /\ \A n \in {1, 2} : Advance(n) /\ text' = text /\ OneLine(text, offset, offset + n) => PlaceKept'
      /\ Newline /\ text' = text /\ NextChar = "newline" => PlaceKept'
  BY <1>1, PlaceAdvanced, PlaceOnNewLine DEF NextChar
<1>4. UNCHANGED << text, offset, row, col >> => PlaceKept'
  BY <1>1 DEF PlaceKept
<1>5. ASSUME UNCHANGED << text, out >>, PlaceKept'
      PROVE  PlaceInv'
  BY <1>5 DEF PlaceInv
<1>6. ASSUME NEW t, out' = Append(out, t), text' = text, Placed(text, t), PlaceKept'
      PROVE  PlaceInv'
  BY <1>1, <1>6, PlacedAdded DEF PlaceInv
<1>7. NextChar # "newline" => OneLine(text, offset, offset + 1)
  BY <1>1 DEF OneLine, NextChar
<1>8. \A S : Continues(S) /\ "newline" \notin S => OneLine(text, offset, offset + 1)
  BY <1>1, OneCharLine
<1>9. CASE SkipBlank
  BY <1>3, <1>5, <1>7, <1>9 DEF SkipBlank
<1>10. CASE BeginWord
  <2>1. CASE Continues(Letter) /\ Begin("word", 1)
    BY <1>2, <1>3, <1>5, <1>8, <2>1 DEF Begin
  <2>2. CASE Continues({"dollar"}) /\ FollowedBy(Letter) /\ Begin("word", 2)
    <3>1. OneLine(text, offset, offset + 2)
      BY <1>1, <1>2, <2>2, TwoCharsLine
    <3> QED BY <1>3, <1>5, <2>2, <3>1 DEF Begin
  <2> QED BY <1>10, <2>1, <2>2 DEF BeginWord
<1>11. CASE BeginNumber
  BY <1>2, <1>3, <1>5, <1>8, <1>11 DEF BeginNumber, Begin
<1>12. CASE BeginString
  BY <1>3, <1>5, <1>8, <1>12 DEF BeginString, Begin
<1>13. CASE Symbol
  <2> DEFINE t == [kind |-> "SYMBOL", from |-> offset + 1, to |-> offset + 1,
                   row |-> row, col |-> Located(col + 1, 1)]
  <2>1. out' = Append(out, t) /\ text' = text /\ Advance(1) /\ NextChar # "newline"
    BY <1>2, <1>13 DEF Symbol
  <2>2. t.from = offset + 1 /\ t.row = row /\ t.col = Located(col + 1, 1)
    BY Zenon
  <2>3. Located(col + 1, 1) = col % SizeT
    BY <1>1 DEF Located
  <2> HIDE DEF t
  <2>4. Placed(text, t)
    BY <1>1, <2>2, <2>3, NextPlaced
  <2> QED BY <1>3, <1>6, <1>7, <2>1, <2>4
<1>14. ASSUME NEW kind, Emit(kind)
       PROVE  PlaceInv'
  <2> DEFINE t == TokenTo(kind, offset, col)
  <2>1. out' = Append(out, t) /\ UNCHANGED << text, offset, row, col >>
    BY <1>14 DEF Emit
  <2>2. /\ t.from = start + 1 /\ t.to = offset /\ t.row = row
        /\ t.col = Located(col, offset - start)
    BY DEF TokenTo
  <2> HIDE DEF t
  <2>3. offset + 0 = offset /\ col + 0 = col
    BY <1>1
  <2>4. Placed(text, t)
    <3>1. t.to = offset + 0 /\ t.col = Located(col + 0, (offset + 0) - start)
      BY <2>2, <2>3, Zenon
    <3>2. 0 \in Nat
      OBVIOUS
    <3> QED BY <1>1, <2>2, <3>1, <3>2, TokenPlaced, Zenon
  <2> QED BY <1>4, <1>6, <2>1, <2>4
<1>15. CASE ReadWord
  <2>1. CASE Continues(Letter \cup Digit)
    BY <1>2, <1>3, <1>5, <1>8, <1>15, <2>1 DEF ReadWord
  <2> QED BY <1>14, <1>15, <2>1 DEF ReadWord
<1>16. CASE ReadDigits
  <2>1. CASE Continues(Digit)
    BY <1>2, <1>3, <1>5, <1>8, <1>16, <2>1 DEF ReadDigits
  <2>2. CASE ~Continues(Digit) /\ Continues({"point"}) /\ FollowedBy(Digit)
    <3>1. OneLine(text, offset, offset + 2)
      BY <1>1, <1>2, <2>2, TwoCharsLine
    <3> QED BY <1>3, <1>5, <1>16, <2>2, <3>1 DEF ReadDigits
  <2> QED BY <1>14, <1>16, <2>1, <2>2 DEF ReadDigits
<1>17. CASE ReadFraction
  <2>1. CASE Continues(Digit)
    BY <1>2, <1>3, <1>5, <1>8, <1>17, <2>1 DEF ReadFraction
  <2> QED BY <1>14, <1>17, <2>1 DEF ReadFraction
<1>18. CASE ReadString
  <2>1. CASE NextChar # "quote"
    BY <1>3, <1>5, <1>7, <1>18, <2>1 DEF ReadString
  <2>2. CASE NextChar = "quote"
    <3> DEFINE t == TokenTo("STRING", offset + 1, col + 1)
    <3>1. Advance(1) /\ out' = Append(out, t) /\ text' = text /\ NextChar # "newline"
      BY <1>18, <2>2 DEF ReadString
    <3>2. /\ t.from = start + 1 /\ t.to = offset + 1 /\ t.row = row
          /\ t.col = Located(col + 1, (offset + 1) - start)
      <4>1. t.from = start + 1 /\ t.to = offset + 1 /\ t.row = row
        BY DEF TokenTo
      <4>2. t.col = Located(col + 1, (offset + 1) - start)
        BY Zenon DEF TokenTo
      <4> QED BY <4>1, <4>2
    <3> HIDE DEF t
    <3>3. Placed(text, t)
      BY <1>1, <3>2, TokenPlaced
    <3> QED BY <1>3, <1>6, <1>7, <3>1, <3>3
  <2> QED BY <2>1, <2>2
<1>19. CASE Unterminated
  BY <1>4, <1>5, <1>19 DEF Unterminated
<1>20. CASE EndOfText
  <2> DEFINE t == [kind |-> "EOF", from |-> offset + 1, to |-> offset, row |-> row, col |-> col % SizeT]
  <2>1. out' = Append(out, t) /\ UNCHANGED << text, offset, row, col >>
    BY <1>20 DEF EndOfText
  <2>2. t.from = offset + 1 /\ t.row = row /\ t.col = col % SizeT
    OBVIOUS
  <2> HIDE DEF t
  <2>3. Placed(text, t)
    BY <1>1, <2>2, NextPlaced
  <2> QED BY <1>4, <1>6, <2>1, <2>3
<1> QED BY <1>9, <1>10, <1>11, <1>12, <1>13, <1>15, <1>16, <1>17, <1>18, <1>19, <1>20 DEF LexNext

(* lexer_tokenize says where a token on one line starts: the row and the   *)
(* column of its first character, whatever lines, words, numbers and       *)
(* strings over several lines come before it.                              *)
THEOREM TokensArePlaced == Spec => []TokensLocated
<1>1. Init => PlaceInv
  <2> SUFFICES ASSUME Init
               PROVE  PlaceInv
    OBVIOUS
  <2>1. text = input.text /\ offset = 0 /\ row = 1 /\ col = 1 /\ out = << >>
    BY DEF Init, LexInit
  <2>2. Breaks(text, 0) = {} /\ LastBreak(text, 0) = 0
    BY DEF Breaks, LastBreak
  <2>3. Cardinality(Breaks(text, 0)) = 0
    BY <2>2, FS_EmptySet
  <2>4. Cardinality(Breaks(text, offset)) = 0 /\ LastBreak(text, offset) = 0
    BY <2>1, <2>2, <2>3
  <2>5. PlaceKept
    BY <2>1, <2>4 DEF PlaceKept
  <2> QED BY <2>1, <2>5 DEF PlaceInv
<1>2. PlaceInv /\ FrontInv /\ [Next]_vars => PlaceInv'
  <2> SUFFICES ASSUME PlaceInv, FrontInv, [Next]_vars
               PROVE  PlaceInv'
    OBVIOUS
  <2>1. CASE Lex
    BY <2>1, PlaceStep DEF Lex, FrontInv
  <2>2. CASE UNCHANGED lexVars
    BY <2>2 DEF lexVars, PlaceInv, PlaceKept
  <2> QED BY <2>1, <2>2 DEF Next, StartParse, Match, vars
<1>3. PlaceInv /\ FrontInv => TokensLocated
  <2> SUFFICES ASSUME PlaceInv, FrontInv, NEW k \in DOMAIN out
               PROVE  Placed(text, out[k])
    BY DEF TokensLocated, Placed, Breaks, LastBreak
  <2>1. DOMAIN out = 1 .. Len(out)
    BY DEF FrontInv, LexInv, LexTypeOK
  <2> QED BY <2>1 DEF PlaceInv
<1> QED BY <1>1, <1>2, <1>3, FrontEndInvariant, PTL DEF Spec

=============================================================================
