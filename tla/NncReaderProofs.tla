--------------------------- MODULE NncReaderProofs ---------------------------
(***************************************************************************)
(* Proofs about the reading of a file, for every text and every set of     *)
(* keywords.                                                               *)
(*                                                                         *)
(* The position k of a lexer in a text T is the number of characters it    *)
(* has taken.  A lexer stands on the character T[k] (Settled), or it has   *)
(* grabbed the next one as well and may put it back (Ahead).  A grab leads *)
(* from Settled to Ahead at the same k, an undo back, and a character that *)
(* is put into the lexeme from Ahead at k to Settled at k + 1: every       *)
(* scanner is a sequence of these three.                                   *)
(***************************************************************************)
EXTENDS NncReader, NncInduction, FiniteSetTheorems, SequenceTheorems

Textual(T) == T \in Seq(Chars)

(* What the file still delivers is the text behind position k. *)
Rest(T, L, k) == L \in Lexer /\ k \in 0 .. Len(T) /\ L.rest = SubSeq(T, k + 1, Len(T))

(* hint_ln is the line of the character behind position k, if b is 0; any  *)
(* other lexer is b lines off.                                             *)
LineAt(T, b, L, k) == Quoted(T) \/ L.ln = b + Lines(T, k + 1)

(* Where a call of nnc_lex_next begins and ends. *)
Near(T, b, L, k) == Rest(T, L, k) /\ (L.cc # EOF => LineAt(T, b, L, k))

(* A newline is in no token, unless it is between single quotes. *)
Within(T, k) == k \in Nat \ {0} /\ (Quoted(T) \/ T[k] # "\n")

(* The character at k belongs to the token. *)
Settled(T, b, L, k) == Rest(T, L, k) /\ LineAt(T, b, L, k) /\ Within(T, k) /\ L.cc = T[k]

(* The character behind k, or the end of the file, has been grabbed. *)
Ahead(T, b, L, k) ==
  /\ LineAt(T, b, L, k) /\ Within(T, k) /\ L.pc = T[k]
  /\ IF L.cc = EOF THEN k = Len(T) /\ Rest(T, L, k)
                   ELSE k < Len(T) /\ L.cc = T[k + 1] /\ Rest(T, L, k + 1)

-----------------------------------------------------------------------------
(* Characters *)

Plain(c) == c # EOF /\ c # "\n"

LEMMA DigitsPlain == \A c \in Digits : Plain(c)
BY DEF Digits, Plain, EOF

LEMMA HexPlain == \A c \in HexDigits : Plain(c)
<1>1. ToSet(HexLow) = {"a", "b", "c", "d", "e", "f"}  BY DEF ToSet, HexLow
<1>2. ToSet(HexHigh) = {"A", "B", "C", "D", "E", "F"}  BY DEF ToSet, HexHigh
<1> QED  BY <1>1, <1>2, DigitsPlain DEF HexDigits, Plain, EOF

LEMMA LettersPlain == \A c \in Letters : Plain(c)
BY HexPlain DEF Letters, Plain, EOF

LEMMA EscapesPlain == \A c \in Escapes : Plain(c)
BY DEF Escapes, Plain, EOF

-----------------------------------------------------------------------------
(* Texts *)

LEMMA LinesInt ==
  ASSUME NEW T \in Seq(Chars), NEW p
  PROVE  Lines(T, p) \in Int
<1> DEFINE S == {i \in DOMAIN T : i < p /\ T[i] = "\n"}
<1>1. IsFiniteSet(1 .. Len(T))  BY FS_Interval
<1>2. S \in SUBSET (1 .. Len(T))  OBVIOUS
<1>3. IsFiniteSet(S)  BY <1>1, <1>2, FS_Subset
<1>4. Cardinality(S) \in Nat  BY <1>3, FS_CardinalityType
<1>5. Lines(T, p) = 1 + Cardinality(S)  BY DEF Lines
<1> HIDE DEF S
<1> QED  BY <1>4, <1>5

(* The next line begins behind a newline. *)
LEMMA LinesStep ==
  ASSUME NEW T \in Seq(Chars), NEW k \in 0 .. Len(T) - 1
  PROVE  /\ T[k + 1] = "\n" => Lines(T, k + 2) = Lines(T, k + 1) + 1
         /\ T[k + 1] # "\n" => Lines(T, k + 2) = Lines(T, k + 1)
         /\ Lines(T, k + 1) \in Int
<1> DEFINE S(p) == {i \in DOMAIN T : i < p /\ T[i] = "\n"}
<1>1. DOMAIN T = 1 .. Len(T) /\ Len(T) \in Nat  OBVIOUS
<1>2. IsFiniteSet(S(k + 1))
  <2>1. IsFiniteSet(1 .. Len(T))  BY <1>1, FS_Interval
  <2>2. S(k + 1) \in SUBSET (1 .. Len(T))  BY <1>1
  <2> QED  BY <2>1, <2>2, FS_Subset
<1>0. Lines(T, k + 1) = 1 + Cardinality(S(k + 1)) /\ Lines(T, k + 2) = 1 + Cardinality(S(k + 2))
  BY DEF Lines
<1>3. CASE T[k + 1] = "\n"
  <2>1. S(k + 2) = S(k + 1) \cup {k + 1}  BY <1>1, <1>3
  <2>2. k + 1 \notin S(k + 1)  OBVIOUS
  <2>3. Cardinality(S(k + 2)) = Cardinality(S(k + 1)) + 1 /\ Cardinality(S(k + 1)) \in Nat
    <3> HIDE DEF S
    <3> QED  BY <1>2, <2>1, <2>2, FS_AddElement, FS_CardinalityType
  <2> HIDE DEF S
  <2> QED  BY <1>0, <1>3, <2>3
<1>4. CASE T[k + 1] # "\n"
  <2>1. S(k + 2) = S(k + 1)  BY <1>1, <1>4
  <2>2. Cardinality(S(k + 1)) \in Nat  BY <1>2, FS_CardinalityType
  <2> HIDE DEF S
  <2> QED  BY <1>0, <1>4, <2>1, <2>2
<1> QED  BY <1>3, <1>4

(* What follows position k *)
LEMMA TextBehind ==
  ASSUME NEW T \in Seq(Chars), NEW k \in 0 .. Len(T)
  PROVE  /\ SubSeq(T, k + 1, Len(T)) \in Seq(Chars)
         /\ Len(SubSeq(T, k + 1, Len(T))) = Len(T) - k
         /\ SubSeq(T, k + 1, Len(T)) = <<>> <=> k = Len(T)
         /\ k < Len(T) => /\ SubSeq(T, k + 1, Len(T))[1] = T[k + 1]
                          /\ Tail(SubSeq(T, k + 1, Len(T))) = SubSeq(T, k + 2, Len(T))
                          /\ T[k + 1] \in Chars
         /\ k >= 1 => <<T[k]>> \o SubSeq(T, k + 1, Len(T)) = SubSeq(T, k, Len(T)) /\ T[k] \in Chars
<1>1. Len(T) \in Nat  OBVIOUS
<1>2. SubSeq(T, k + 1, Len(T)) \in Seq(Chars) /\ Len(SubSeq(T, k + 1, Len(T))) = Len(T) - k
  BY <1>1
<1>3. SubSeq(T, k + 1, Len(T)) = <<>> <=> k = Len(T)
  <2>1. PICK s \in Seq(Chars) : s = SubSeq(T, k + 1, Len(T)) /\ Len(s) = Len(T) - k  BY <1>2
  <2>2. s = <<>> <=> Len(s) = 0  BY EmptySeq
  <2> QED  BY <1>1, <2>1, <2>2
<1>4. ASSUME k < Len(T)
      PROVE  /\ SubSeq(T, k + 1, Len(T))[1] = T[k + 1]
             /\ Tail(SubSeq(T, k + 1, Len(T))) = SubSeq(T, k + 2, Len(T))
             /\ T[k + 1] \in Chars
  BY <1>1, <1>2, <1>4
<1>5. ASSUME k >= 1
      PROVE  <<T[k]>> \o SubSeq(T, k + 1, Len(T)) = SubSeq(T, k, Len(T)) /\ T[k] \in Chars
  BY <1>1, <1>2, <1>5
<1> QED  BY <1>2, <1>3, <1>4, <1>5

-----------------------------------------------------------------------------
(* The moves *)

(* The fields of a lexer *)
LEMMA LexerFields ==
  ASSUME NEW L \in Lexer
  PROVE  /\ L = [rest |-> L.rest, cc |-> L.cc, pc |-> L.pc, ln |-> L.ln, ch |-> L.ch, kind |-> L.kind,
                 lexeme |-> L.lexeme, size |-> L.size, bad |-> L.bad, errors |-> L.errors]
         /\ L.rest \in Seq(Chars) /\ L.cc \in Chars \cup {"NUL", EOF} /\ L.pc \in Chars \cup {"NUL"}
         /\ L.ln \in Int /\ L.ch \in Int /\ L.kind \in Seq(Symbols) /\ L.lexeme \in Seq(Symbols)
         /\ L.size \in Int /\ L.bad \in BOOLEAN /\ L.errors \in Nat
         /\ L.cc = EOF => L.rest = <<>>
BY DEF Lexer

(* A lexer, whatever is behind the end of the file *)
LexerRecord ==
  [rest : Seq(Chars), cc : Chars \cup {"NUL", EOF}, pc : Chars \cup {"NUL"}, ln : Int, ch : Int,
   kind : Seq(Symbols), lexeme : Seq(Symbols), size : Int, bad : BOOLEAN, errors : Nat]

LEMMA LexerIsRecord == Lexer = {L \in LexerRecord : L.cc = EOF => L.rest = <<>>}
BY Zenon DEF Lexer, LexerRecord

(* nnc_lex_grab and nnc_lex_undo make such changes, *)
LEMMA LexerMoved ==
  ASSUME NEW L \in Lexer, NEW rest \in Seq(Chars), NEW cc \in Chars \cup {"NUL", EOF},
         NEW pc \in Chars \cup {"NUL"}, NEW ch \in Int, cc = EOF => rest = <<>>
  PROVE  [L EXCEPT !.pc = pc, !.ch = ch, !.cc = cc, !.rest = rest] \in Lexer
<1> DEFINE M == [L EXCEPT !.pc = pc, !.ch = ch, !.cc = cc, !.rest = rest]
<1>1. L \in LexerRecord  BY LexerIsRecord
<1>2. M \in LexerRecord  BY <1>1, Zenon DEF LexerRecord
<1>3. M.cc = cc /\ M.rest = rest  BY <1>1 DEF LexerRecord
<1> HIDE DEF M
<1>4. M \in Lexer  BY <1>2, <1>3, LexerIsRecord
<1> QED  BY <1>4 DEF M

(* and the rest changes what is told of the token or counts lines. *)
LEMMA LexerTold ==
  ASSUME NEW L \in Lexer, NEW kind \in Seq(Symbols), NEW lexeme \in Seq(Symbols), NEW size \in Int,
         NEW bad \in BOOLEAN, NEW errors \in Nat
  PROVE  [L EXCEPT !.kind = kind, !.lexeme = lexeme, !.size = size, !.bad = bad, !.errors = errors] \in Lexer
<1> DEFINE M == [L EXCEPT !.kind = kind, !.lexeme = lexeme, !.size = size, !.bad = bad, !.errors = errors]
<1>1. L \in LexerRecord /\ (L.cc = EOF => L.rest = <<>>)  BY LexerIsRecord
<1>2. M \in LexerRecord  BY <1>1, Zenon DEF LexerRecord
<1>3. M.cc = L.cc /\ M.rest = L.rest  BY <1>1 DEF LexerRecord
<1> HIDE DEF M
<1>4. M \in Lexer  BY <1>1, <1>2, <1>3, LexerIsRecord
<1> QED  BY <1>4 DEF M

LEMMA LexerCounted ==
  ASSUME NEW L \in Lexer, NEW ln \in Int, NEW ch \in Int
  PROVE  [L EXCEPT !.ln = ln, !.ch = ch] \in Lexer
<1> DEFINE M == [L EXCEPT !.ln = ln, !.ch = ch]
<1>1. L \in LexerRecord /\ (L.cc = EOF => L.rest = <<>>)  BY LexerIsRecord
<1>2. M \in LexerRecord  BY <1>1, Zenon DEF LexerRecord
<1>3. M.cc = L.cc /\ M.rest = L.rest  BY <1>1 DEF LexerRecord
<1> HIDE DEF M
<1>4. M \in Lexer  BY <1>1, <1>2, <1>3, LexerIsRecord
<1> QED  BY <1>4 DEF M

(* nnc_lex_grab *)
LEMMA GrabIs ==
  ASSUME NEW L \in Lexer
  PROVE  /\ Grab(L) \in Lexer
         /\ L.cc = EOF => Grab(L) = L
         /\ L.cc # EOF => /\ Grab(L).pc = L.cc
                          /\ L.rest = <<>> => Grab(L).cc = EOF /\ Grab(L).rest = <<>>
                          /\ L.rest # <<>> => Grab(L).cc = L.rest[1] /\ Grab(L).rest = Tail(L.rest)
         /\ Grab(L).ln = L.ln /\ Grab(L).bad = L.bad /\ Grab(L).kind = L.kind
<1>1. CASE L.cc = EOF  BY <1>1 DEF Grab
<1>2. CASE L.cc # EOF
  <2>1. L.rest \in Seq(Chars) /\ L.cc \in Chars \cup {"NUL"} /\ L.ch \in Int  BY <1>2, LexerFields
  <2>2. CASE L.rest = <<>>
    <3>1. Grab(L) = [L EXCEPT !.pc = L.cc, !.ch = L.ch + 1, !.cc = EOF, !.rest = <<>>]
      BY <1>2, <2>2 DEF Grab, Lexer
    <3>2. Grab(L) \in Lexer
      <4>1. <<>> \in Seq(Chars) /\ L.ch + 1 \in Int /\ EOF \in Chars \cup {"NUL", EOF}  BY <2>1
      <4>2. [L EXCEPT !.pc = L.cc, !.ch = L.ch + 1, !.cc = EOF, !.rest = <<>>] \in Lexer
        BY <2>1, <3>1, <4>1, LexerMoved
      <4> QED  BY <2>1, <3>1, <4>1, <4>2
    <3> QED  BY <1>2, <2>1, <2>2, <3>1, <3>2 DEF Lexer
  <2>3. CASE L.rest # <<>>
    <3>1. Grab(L) = [L EXCEPT !.pc = L.cc, !.ch = L.ch + 1, !.cc = L.rest[1], !.rest = Tail(L.rest)]
      BY <1>2, <2>3 DEF Grab, Lexer
    <3>2. L.rest[1] \in Chars /\ Tail(L.rest) \in Seq(Chars) /\ L.rest[1] # EOF
      BY <2>1, <2>3, CharsAssumption
    <3>3. Grab(L) \in Lexer
      <4>1. L.rest[1] \in Chars \cup {"NUL", EOF} /\ L.ch + 1 \in Int  BY <2>1, <3>2
      <4>2. [L EXCEPT !.pc = L.cc, !.ch = L.ch + 1, !.cc = L.rest[1], !.rest = Tail(L.rest)] \in Lexer
        BY <2>1, <3>1, <3>2, <4>1, LexerMoved
      <4> QED  BY <2>1, <3>1, <3>2, <4>1, <4>2
    <3> QED  BY <1>2, <2>1, <2>3, <3>1, <3>3 DEF Lexer
  <2> QED  BY <2>2, <2>3
<1> QED  BY <1>1, <1>2

(* nnc_lex_undo *)
LEMMA UndoIs ==
  ASSUME NEW L \in Lexer, L.cc \in Chars \cup {EOF}
  PROVE  /\ Undo(L) \in Lexer
         /\ L.cc = EOF => Undo(L).rest = L.rest
         /\ L.cc # EOF => Undo(L).rest = <<L.cc>> \o L.rest
         /\ Undo(L).cc = L.pc /\ Undo(L).ln = L.ln /\ Undo(L).bad = L.bad /\ Undo(L).kind = L.kind
<1>1. L.rest \in Seq(Chars) /\ L.pc \in Chars \cup {"NUL"} /\ L.pc # EOF /\ L.ch \in Int
  BY LexerFields, CharsAssumption DEF EOF
<1>2. CASE L.cc = EOF
  <2>1. Undo(L) = [L EXCEPT !.pc = L.pc, !.ch = L.ch - 1, !.cc = L.pc, !.rest = L.rest]  BY <1>2 DEF Undo, Lexer
  <2>2. Undo(L) \in Lexer
    <3>1. L.pc \in Chars \cup {"NUL", EOF} /\ L.ch - 1 \in Int  BY <1>1
    <3>2. [L EXCEPT !.pc = L.pc, !.ch = L.ch - 1, !.cc = L.pc, !.rest = L.rest] \in Lexer
      BY <1>1, <2>1, <3>1, LexerMoved
    <3> QED  BY <1>1, <2>1, <3>1, <3>2
  <2> QED  BY <1>2, <2>1, <2>2 DEF Lexer
<1>3. CASE L.cc # EOF
  <2>1. Undo(L) = [L EXCEPT !.pc = L.pc, !.ch = L.ch - 1, !.cc = L.pc, !.rest = <<L.cc>> \o L.rest]
    BY <1>3 DEF Undo, Lexer
  <2>2. <<L.cc>> \o L.rest \in Seq(Chars)  BY <1>1, <1>3
  <2>3. Undo(L) \in Lexer
    <3>1. L.pc \in Chars \cup {"NUL", EOF} /\ L.ch - 1 \in Int  BY <1>1
    <3>2. [L EXCEPT !.pc = L.pc, !.ch = L.ch - 1, !.cc = L.pc, !.rest = <<L.cc>> \o L.rest] \in Lexer
      BY <1>1, <2>1, <2>2, <3>1, LexerMoved
    <3> QED  BY <1>1, <2>1, <2>2, <3>1, <3>2
  <2> QED  BY <1>3, <2>1, <2>3 DEF Lexer
<1> QED  BY <1>2, <1>3

(* A lexer that delivers the same *)
Same(L, M) ==
  /\ L \in Lexer /\ M \in Lexer
  /\ M.rest = L.rest /\ M.cc = L.cc /\ M.pc = L.pc /\ M.ln = L.ln

LEMMA PutCIs ==
  ASSUME NEW L \in Lexer
  PROVE  Same(L, PutC(L)) /\ PutC(L).bad = L.bad /\ PutC(L).kind = L.kind
<1>1. L.cc \in Symbols /\ L.lexeme \in Seq(Symbols) /\ L.size \in Int  BY LexerFields DEF Symbols
<1>2. Append(L.lexeme, L.cc) \in Seq(Symbols)  BY <1>1
<1>3. PutC(L) = [L EXCEPT !.kind = L.kind, !.lexeme = Append(L.lexeme, L.cc), !.size = L.size + 1,
                          !.bad = L.bad, !.errors = L.errors]
  BY DEF PutC, Lexer
<1>4. PutC(L) \in Lexer
  <2>1. L.kind \in Seq(Symbols) /\ L.size + 1 \in Int /\ L.bad \in BOOLEAN /\ L.errors \in Nat
    BY <1>1, LexerFields
  <2>2. [L EXCEPT !.kind = L.kind, !.lexeme = Append(L.lexeme, L.cc), !.size = L.size + 1,
                 !.bad = L.bad, !.errors = L.errors] \in Lexer
    BY <1>2, <1>3, <2>1, LexerTold
  <2> QED  BY <1>2, <1>3, <2>1, <2>2
<1> QED  BY <1>3, <1>4 DEF Lexer, Same

LEMMA ClearedIs ==
  ASSUME NEW L \in Lexer
  PROVE  Same(L, Cleared(L)) /\ Cleared(L).bad = L.bad /\ Cleared(L).kind = L.kind
<1>1. <<>> \in Seq(Symbols)  OBVIOUS
<1>3. Cleared(L) = [L EXCEPT !.kind = L.kind, !.lexeme = <<>>, !.size = 0,
                             !.bad = L.bad, !.errors = L.errors]
  BY DEF Cleared, Lexer
<1>2. Cleared(L) \in Lexer
  <2>1. L.kind \in Seq(Symbols) /\ L.bad \in BOOLEAN /\ L.errors \in Nat /\ 0 \in Int  BY LexerFields
  <2>2. [L EXCEPT !.kind = L.kind, !.lexeme = <<>>, !.size = 0, !.bad = L.bad, !.errors = L.errors] \in Lexer
    BY <1>1, <2>1, LexerTold
  <2> QED  BY <1>1, <1>3, <2>1, <2>2
<1> QED  BY <1>2, <1>3 DEF Lexer, Same

LEMMA ThrowIs ==
  ASSUME NEW L \in Lexer
  PROVE  Same(L, Throw(L)) /\ Throw(L).bad = TRUE /\ Throw(L).kind = L.kind
<1>2. Throw(L) \in Lexer  BY DEF Lexer, Throw
<1> QED  BY <1>2 DEF Lexer, Same, Throw

LEMMA SamePlace ==
  ASSUME NEW L, NEW M, Same(L, M), NEW T, NEW b, NEW k
  PROVE  /\ Settled(T, b, L, k) => Settled(T, b, M, k)
         /\ Ahead(T, b, L, k) => Ahead(T, b, M, k)
         /\ Near(T, b, L, k) => Near(T, b, M, k)
BY DEF Same, Settled, Ahead, Near, Rest, LineAt

(* A grab from between two tokens *)
LEMMA GrabNear ==
  ASSUME NEW T \in Seq(Chars), NEW b \in Int, NEW L, NEW k, Near(T, b, L, k), L.cc # EOF
  PROVE  /\ Grab(L) \in Lexer /\ Grab(L).pc = L.cc /\ LineAt(T, b, Grab(L), k)
         /\ Grab(L).bad = L.bad /\ Grab(L).kind = L.kind
         /\ IF Grab(L).cc = EOF THEN k = Len(T) /\ Rest(T, Grab(L), k)
            ELSE k < Len(T) /\ Grab(L).cc = T[k + 1] /\ Rest(T, Grab(L), k + 1)
<1>1. L \in Lexer /\ k \in 0 .. Len(T) /\ L.rest = SubSeq(T, k + 1, Len(T)) /\ LineAt(T, b, L, k)
  BY DEF Near, Rest
<1>2. Len(T) \in Nat  OBVIOUS
<1>3. /\ Grab(L) \in Lexer /\ Grab(L).pc = L.cc /\ LineAt(T, b, Grab(L), k)
      /\ Grab(L).bad = L.bad /\ Grab(L).kind = L.kind
  BY <1>1, GrabIs DEF LineAt
<1>4. CASE k = Len(T)
  <2>1. L.rest = <<>>  BY <1>1, <1>4, TextBehind
  <2>2. Grab(L).cc = EOF /\ Grab(L).rest = L.rest  BY <1>1, <2>1, GrabIs
  <2> QED  BY <1>1, <1>3, <1>4, <2>2 DEF Rest
<1>5. CASE k # Len(T)
  <2>1. k < Len(T) /\ k + 1 \in 0 .. Len(T)  BY <1>1, <1>2, <1>5
  <2>2. /\ L.rest # <<>> /\ L.rest[1] = T[k + 1] /\ T[k + 1] \in Chars
        /\ Tail(L.rest) = SubSeq(T, k + 2, Len(T))
    <3>1. /\ SubSeq(T, k + 1, Len(T)) # <<>> /\ SubSeq(T, k + 1, Len(T))[1] = T[k + 1]
          /\ T[k + 1] \in Chars /\ Tail(SubSeq(T, k + 1, Len(T))) = SubSeq(T, k + 2, Len(T))
      BY <1>1, <1>5, <2>1, TextBehind, Zenon
    <3> QED  BY <1>1, <3>1, Zenon
  <2>3. Grab(L).cc = T[k + 1] /\ Grab(L).rest = SubSeq(T, k + 2, Len(T)) /\ Grab(L).cc # EOF
    <3>1. Grab(L).cc = L.rest[1] /\ Grab(L).rest = Tail(L.rest)  BY <1>1, <2>2, GrabIs, Zenon
    <3> QED  BY <2>2, <3>1, CharsAssumption, Zenon
  <2>4. (k + 1) + 1 = k + 2  BY <1>1
  <2> QED  BY <1>3, <2>1, <2>3, <2>4 DEF Rest
<1> QED  BY <1>4, <1>5

(* A grab *)
LEMMA GrabSettled ==
  ASSUME NEW T \in Seq(Chars), NEW b \in Int, NEW L, NEW k, Settled(T, b, L, k)
  PROVE  Ahead(T, b, Grab(L), k) /\ Grab(L).bad = L.bad
<1>1. k \in 1 .. Len(T) /\ Len(T) \in Nat  BY DEF Settled, Rest, Within
<1>2. L.cc # EOF  BY <1>1, CharsAssumption DEF Settled
<1>3. Near(T, b, L, k)  BY DEF Settled, Near
<1> QED  BY <1>2, <1>3, GrabNear DEF Settled, Ahead

(* An undo *)
LEMMA UndoAhead ==
  ASSUME NEW T \in Seq(Chars), NEW b \in Int, NEW L, NEW k, Ahead(T, b, L, k)
  PROVE  Settled(T, b, Undo(L), k) /\ Undo(L).bad = L.bad
<1>1. CASE L.cc = EOF
  <2>1. L \in Lexer /\ Rest(T, L, k)  BY <1>1 DEF Ahead, Rest
  <2>2. /\ Undo(L) \in Lexer /\ Undo(L).rest = L.rest /\ Undo(L).cc = L.pc
        /\ Undo(L).ln = L.ln /\ Undo(L).bad = L.bad
    BY <1>1, <2>1, UndoIs
  <2> QED  BY <2>1, <2>2 DEF Settled, Ahead, Rest, LineAt
<1>2. CASE L.cc # EOF
  <2>1. L \in Lexer /\ k + 1 \in 0 .. Len(T) /\ L.rest = SubSeq(T, (k + 1) + 1, Len(T))
    BY <1>2 DEF Ahead, Rest
  <2>2. k \in 1 .. Len(T) /\ k \in 0 .. Len(T) /\ k < Len(T) /\ L.cc = T[k + 1] /\ k \in Int
    BY <1>2, <2>1 DEF Ahead, Within
  <2>3. T[k + 1] \in Chars /\ <<T[k + 1]>> \o SubSeq(T, (k + 1) + 1, Len(T)) = SubSeq(T, k + 1, Len(T))
    <3>1. PICK n \in 1 .. Len(T) : n = k + 1  BY <2>1, <2>2
    <3>2. n \in 0 .. Len(T) /\ n >= 1  OBVIOUS
    <3>3. <<T[n]>> \o SubSeq(T, n + 1, Len(T)) = SubSeq(T, n, Len(T)) /\ T[n] \in Chars
      BY <3>2, TextBehind
    <3> QED  BY <3>1, <3>3
  <2>4. /\ Undo(L) \in Lexer /\ Undo(L).rest = <<L.cc>> \o L.rest /\ Undo(L).cc = L.pc
        /\ Undo(L).ln = L.ln /\ Undo(L).bad = L.bad
    BY <1>2, <2>1, <2>2, <2>3, UndoIs
  <2>5. Undo(L).rest = SubSeq(T, k + 1, Len(T))  BY <2>1, <2>2, <2>3, <2>4
  <2> QED  BY <2>2, <2>4, <2>5 DEF Settled, Ahead, Rest, LineAt
<1> QED  BY <1>1, <1>2

(* A second undo puts the last character of the token back as well. *)
LEMMA UndoSettled ==
  ASSUME NEW T \in Seq(Chars), NEW b \in Int, NEW L, NEW k, Settled(T, b, L, k)
  PROVE  k - 1 \in 0 .. Len(T) /\ Near(T, b, Undo(L), k - 1) /\ Undo(L).bad = L.bad
<1>1. L \in Lexer /\ k \in 1 .. Len(T) /\ L.rest = SubSeq(T, k + 1, Len(T)) /\ L.cc = T[k]
  BY DEF Settled, Rest, Within
<1>2. k \in 0 .. Len(T) /\ k - 1 \in 0 .. Len(T) - 1 /\ k - 1 \in 0 .. Len(T) /\ k \in Int /\ Len(T) \in Nat
  BY <1>1
<1>3. L.cc \in Chars /\ L.cc # EOF  BY <1>1, <1>2, CharsAssumption
<1>4. /\ Undo(L) \in Lexer /\ Undo(L).rest = <<L.cc>> \o L.rest /\ Undo(L).ln = L.ln
      /\ Undo(L).bad = L.bad
  BY <1>1, <1>3, UndoIs
<1>5. Undo(L).rest = SubSeq(T, k, Len(T))  BY <1>1, <1>2, <1>4, TextBehind
<1>6. (k - 1) + 1 = k /\ (k - 1) + 2 = k + 1  BY <1>1
<1>7. ~Quoted(T) => Lines(T, k + 1) = Lines(T, k)
  <2>1. ~Quoted(T) => T[k] # "\n"  BY DEF Settled, Within
  <2> QED  BY <1>2, <1>6, <2>1, LinesStep
<1>8. LineAt(T, b, Undo(L), k - 1)  BY <1>4, <1>6, <1>7 DEF Settled, LineAt
<1> QED  BY <1>2, <1>4, <1>5, <1>6, <1>8 DEF Near, Rest

(* The character that was grabbed is taken into the token. *)
LEMMA AcceptAhead ==
  ASSUME NEW T \in Seq(Chars), NEW b \in Int, NEW L, NEW k, Ahead(T, b, L, k),
         L.cc # EOF, L.cc # "\n" \/ Quoted(T)
  PROVE  k + 1 \in 1 .. Len(T) /\ Settled(T, b, L, k + 1)
<1>1. L \in Lexer /\ Rest(T, L, k + 1) /\ k < Len(T) /\ L.cc = T[k + 1]  BY DEF Ahead, Rest
<1>2. k \in 1 .. Len(T) - 1 /\ k \in 0 .. Len(T) - 1 /\ k + 1 \in 1 .. Len(T) /\ k \in Int
  BY <1>1 DEF Ahead, Within, Rest
<1>3. (k + 1) + 1 = k + 2  BY <1>2
<1>4. ~Quoted(T) => Lines(T, k + 2) = Lines(T, k + 1)  BY <1>1, <1>2, LinesStep
<1>5. LineAt(T, b, L, k + 1)  BY <1>3, <1>4 DEF Ahead, LineAt
<1>6. Within(T, k + 1)  BY <1>1, <1>2 DEF Within
<1> QED  BY <1>1, <1>2, <1>5, <1>6 DEF Settled

LEMMA PutAhead ==
  ASSUME NEW T \in Seq(Chars), NEW b \in Int, NEW L, NEW k, Ahead(T, b, L, k),
         L.cc # EOF, L.cc # "\n" \/ Quoted(T)
  PROVE  /\ k + 1 \in 1 .. Len(T) /\ Settled(T, b, PutC(L), k + 1) /\ PutC(L).bad = L.bad
         /\ Settled(T, b, PutC(Cleared(L)), k + 1)
<1>1. k + 1 \in 1 .. Len(T) /\ Settled(T, b, L, k + 1)  BY AcceptAhead
<1>2. L \in Lexer  BY <1>1 DEF Settled, Rest
<1>3. Same(L, PutC(L)) /\ PutC(L).bad = L.bad  BY <1>2, PutCIs
<1>4. Same(L, Cleared(L)) /\ Cleared(L) \in Lexer  BY <1>2, ClearedIs DEF Same
<1>5. Same(Cleared(L), PutC(Cleared(L)))  BY <1>4, PutCIs
<1>6. Settled(T, b, PutC(L), k + 1)  BY <1>1, <1>3, SamePlace
<1>7. Settled(T, b, Cleared(L), k + 1)  BY <1>1, <1>4, SamePlace
<1>8. Settled(T, b, PutC(Cleared(L)), k + 1)  BY <1>5, <1>7, SamePlace
<1> QED  BY <1>1, <1>3, <1>6, <1>8

LEMMA PutSettled ==
  ASSUME NEW T \in Seq(Chars), NEW b \in Int, NEW L, NEW k, Settled(T, b, L, k)
  PROVE  /\ Settled(T, b, PutC(Cleared(L)), k) /\ PutC(Cleared(L)).bad = L.bad
         /\ Settled(T, b, Throw(L), k) /\ Throw(L).bad = TRUE
<1>2. L \in Lexer  BY DEF Settled, Rest
<1>3. Same(L, Throw(L)) /\ Throw(L).bad = TRUE  BY <1>2, ThrowIs
<1>4. Same(L, Cleared(L)) /\ Cleared(L) \in Lexer /\ Cleared(L).bad = L.bad  BY <1>2, ClearedIs DEF Same
<1>5. Same(Cleared(L), PutC(Cleared(L))) /\ PutC(Cleared(L)).bad = L.bad  BY <1>4, PutCIs
<1>6. Settled(T, b, Throw(L), k)  BY <1>3, SamePlace
<1>7. Settled(T, b, Cleared(L), k)  BY <1>4, SamePlace
<1>8. Settled(T, b, PutC(Cleared(L)), k)  BY <1>5, <1>7, SamePlace
<1> QED  BY <1>3, <1>5, <1>6, <1>8

(* Where a scanner may stop *)
LEMMA StopNear ==
  ASSUME NEW T \in Seq(Chars), NEW b \in Int, NEW L, NEW k
  PROVE  /\ Settled(T, b, L, k) => k \in 1 .. Len(T) /\ Near(T, b, L, k)
         /\ Ahead(T, b, L, k) /\ L.cc = EOF => k \in 1 .. Len(T) /\ Near(T, b, L, k)
<1>1. Len(T) \in Nat  OBVIOUS
<1> QED  BY <1>1 DEF Settled, Ahead, Near, Rest, Within

-----------------------------------------------------------------------------
(* The loops *)

(* What is left to grab, the end of the file included *)
Left(L) == IF L.cc = EOF THEN 0 ELSE Len(L.rest) + 1

LEMMA LeftIs ==
  ASSUME NEW L \in Lexer
  PROVE  /\ Left(L) \in Nat
         /\ L.cc # EOF => Left(Grab(L)) < Left(L)
         /\ \A M : Same(L, M) => Left(M) = Left(L)
<1>1. L.rest \in Seq(Chars)  BY LexerFields
<1>2. Left(L) \in Nat  BY <1>1 DEF Left
<1>3. ASSUME L.cc # EOF PROVE Left(Grab(L)) < Left(L)
  <2>1. CASE L.rest = <<>>
    <3>1. Grab(L).cc = EOF  BY <1>3, <2>1, GrabIs
    <3> QED  BY <1>1, <1>3, <3>1 DEF Left
  <2>2. CASE L.rest # <<>>
    <3>1. Grab(L).rest = Tail(L.rest)  BY <1>3, <2>2, GrabIs
    <3>2. Len(Tail(L.rest)) = Len(L.rest) - 1 /\ Len(L.rest) \in Nat /\ Len(L.rest) # 0
      BY <1>1, <2>2, EmptySeq
    <3> QED  BY <1>3, <3>1, <3>2 DEF Left
  <2> QED  BY <2>1, <2>2
<1>4. \A M : Same(L, M) => Left(M) = Left(L)  BY DEF Same, Left
<1> QED  BY <1>2, <1>3, <1>4

(* The measure of a lexer in a text *)
LEMMA LeftNear ==
  ASSUME NEW T \in Seq(Chars), NEW b \in Int, NEW L, NEW k, Near(T, b, L, k)
  PROVE  L.cc # EOF => Left(L) = Len(T) - k + 1
<1>1. k \in 0 .. Len(T) /\ L.rest = SubSeq(T, k + 1, Len(T))  BY DEF Near, Rest
<1>2. Len(L.rest) = Len(T) - k  BY <1>1, TextBehind
<1> QED  BY <1>2 DEF Left

(* Characters are taken as long as they are in S; the one behind them has   *)
(* been grabbed.                                                            *)
LEMMA PutWhileAhead ==
  ASSUME NEW T \in Seq(Chars), NEW b \in Int, NEW L, NEW k, Settled(T, b, L, k), NEW S, \A c \in S : Plain(c)
  PROVE  \E j \in k .. Len(T) : Ahead(T, b, PutWhile(L, S), j)
<1> DEFINE Eq(f) == f = [l \in Lexer |-> IF Grab(l).cc \in S THEN f[PutC(Grab(l))] ELSE Grab(l)]
           D == {l \in Lexer : Grab(l).cc \in S}
           step == [l \in D |-> PutC(Grab(l))]
           out == [l \in Lexer |-> Grab(l)]
           I == {l \in Lexer : \E j \in k .. Len(T) : Settled(T, b, l, j)}
           m == [l \in Lexer |-> Left(l)]
           f == CHOOSE g : Eq(g)
<1>0. k \in 1 .. Len(T) /\ Len(T) \in Nat  BY StopNear
<1>1. PutWhile(L, S) = f[L]  BY Zenon DEF PutWhile
<1>2. D \in SUBSET Lexer /\ step \in [D -> Lexer] /\ m \in [Lexer -> Nat] /\ I \in SUBSET Lexer
  <2>1. ASSUME NEW l \in Lexer PROVE PutC(Grab(l)) \in Lexer /\ Left(l) \in Nat
    BY GrabIs, PutCIs, LeftIs DEF Same
  <2> QED  BY <2>1
<1>3. ASSUME NEW g PROVE IsLoop(g, Lexer, D, step, out) <=> Eq(g)
  <2>1. [x \in Lexer |-> IF x \in D THEN g[step[x]] ELSE out[x]]
          = [l \in Lexer |-> IF Grab(l).cc \in S THEN g[PutC(Grab(l))] ELSE Grab(l)]
    OBVIOUS
  <2> QED  BY <2>1, Zenon DEF IsLoop
<1>4. \E g : Eq(g)
  <2> HIDE DEF D, step, out, Eq
  <2> QED  BY <1>2, <1>3, LoopSolved
<1>5. IsLoop(f, Lexer, D, step, out)
  <2>1. Eq(f)
    <3> HIDE DEF Eq
    <3> QED  BY <1>4, Zenon
  <2> HIDE DEF D, step, out, Eq, f
  <2> QED  BY <1>3, <2>1
<1>6. ASSUME NEW l \in I \cap D PROVE step[l] \in I /\ m[step[l]] < m[l]
  <2>1. PICK j \in k .. Len(T) : Settled(T, b, l, j)  OBVIOUS
  <2>2. Ahead(T, b, Grab(l), j) /\ Grab(l) \in Lexer  BY <2>1, GrabSettled, GrabIs
  <2>3. Grab(l).cc # EOF /\ Grab(l).cc # "\n"  BY DEF Plain
  <2>4. j + 1 \in 1 .. Len(T) /\ Settled(T, b, PutC(Grab(l)), j + 1)  BY <2>2, <2>3, PutAhead
  <2>5. j + 1 \in k .. Len(T)  BY <1>0, <2>1, <2>4
  <2>6. PutC(Grab(l)) \in Lexer /\ Same(Grab(l), PutC(Grab(l)))  BY <2>2, PutCIs DEF Same
  <2>7. l.cc # EOF  BY <2>3, GrabIs
  <2>8. Left(PutC(Grab(l))) < Left(l)  BY <2>2, <2>6, <2>7, LeftIs
  <2> QED  BY <2>4, <2>5, <2>6, <2>8
<1>7. \A x \in I : \E y \in I \ D : f[x] = out[y]
  <2> HIDE DEF D, step, out, Eq, f, I, m
  <2> QED  BY <1>2, <1>5, <1>6, LoopEnds
<1>8. L \in I
  <2>1. L \in Lexer /\ k \in k .. Len(T)  BY <1>0 DEF Settled, Rest
  <2> QED  BY <2>1
<1>9. PICK y \in I : f[L] = Grab(y)
  <2>1. PICK y \in I \ D : f[L] = out[y]
    <3> HIDE DEF D, out, f, I
    <3> QED  BY <1>7, <1>8
  <2>2. f[L] = Grab(y)
    <3> HIDE DEF f
    <3> QED  BY <2>1
  <2> QED  BY <2>1, <2>2
<1> HIDE DEF f
<1>10. PICK j \in k .. Len(T) : Settled(T, b, y, j)  BY <1>9
<1> QED  BY <1>1, <1>9, <1>10, GrabSettled

-----------------------------------------------------------------------------
(* The scanners: each leaves the lexer between two tokens, no further back  *)
(* than it was.                                                             *)

Reached(T, b, L, k) == \E j \in k .. Len(T) : Near(T, b, L, j)
Took(T, b, L, k) == \E j \in k .. Len(T) : Settled(T, b, L, j)

LEMMA TookReached ==
  ASSUME NEW T \in Seq(Chars), NEW b \in Int, NEW L, NEW k \in Nat, NEW j \in k .. Len(T)
  PROVE  /\ Settled(T, b, L, j) => Took(T, b, L, k)
         /\ Took(T, b, L, k) => Reached(T, b, L, k)
         /\ Near(T, b, L, j) => Reached(T, b, L, k)
         /\ Took(T, b, L, j) => Took(T, b, L, k)
         /\ Reached(T, b, L, j) => Reached(T, b, L, k)
<1>1. Len(T) \in Nat  OBVIOUS
<1> QED  BY <1>1, StopNear DEF Took, Reached

(* A character that is put back *)
LEMMA ThrowTook ==
  ASSUME NEW T \in Seq(Chars), NEW b \in Int, NEW L, NEW k, Ahead(T, b, L, k)
  PROVE  Took(T, b, Undo(L), k) /\ Took(T, b, Throw(Undo(L)), k) /\ k \in 1 .. Len(T)
<1>1. Settled(T, b, Undo(L), k)  BY UndoAhead
<1>2. Settled(T, b, Throw(Undo(L)), k)  BY <1>1, PutSettled
<1>3. k \in 1 .. Len(T) /\ k \in Nat /\ k \in k .. Len(T)  BY <1>1, StopNear
<1> QED  BY <1>1, <1>2, <1>3 DEF Took

(* A character that is taken *)
LEMMA PutTook ==
  ASSUME NEW T \in Seq(Chars), NEW b \in Int, NEW L, NEW k, Ahead(T, b, L, k), Plain(L.cc)
  PROVE  Took(T, b, PutC(L), k)
<1>1. k + 1 \in 1 .. Len(T) /\ Settled(T, b, PutC(L), k + 1)  BY PutAhead DEF Plain
<1>2. k \in Nat  BY ThrowTook
<1>3. k + 1 \in k .. Len(T)  BY <1>1, <1>2
<1> QED  BY <1>1, <1>3 DEF Took

LEMMA ClosedTook ==
  ASSUME NEW T \in Seq(Chars), NEW b \in Int, NEW L, NEW k, Ahead(T, b, L, k), NEW quote, Plain(quote)
  PROVE  Took(T, b, Closed(L, quote), k)
BY PutTook, ThrowTook DEF Closed

(* The suffix of a number *)
LEMMA SuffixTook ==
  ASSUME NEW T \in Seq(Chars), NEW b \in Int, NEW L, NEW k, Ahead(T, b, L, k), NEW letters, NEW sizes,
         \A c \in letters : Plain(c), \A s \in sizes : Plain(s[1]) /\ (Len(s) = 2 => Plain(s[2]))
  PROVE  Took(T, b, GrabSuffix(L, letters, sizes), k)
<1> DEFINE a == Grab(PutC(L))
           d == Grab(PutC(a))
<1>0. Len(T) \in Nat  OBVIOUS
<1>1. CASE L.cc \notin letters
  <2>1. GrabSuffix(L, letters, sizes) = Undo(L)  BY <1>1 DEF GrabSuffix
  <2> QED  BY <2>1, ThrowTook
<1>2. CASE L.cc \in letters
  <2>1. k + 1 \in 1 .. Len(T) /\ Settled(T, b, PutC(L), k + 1)  BY <1>2, PutAhead DEF Plain
  <2>2. Ahead(T, b, a, k + 1)  BY <2>1, GrabSettled
  <2>3. k \in Nat /\ k + 1 \in k .. Len(T)  BY <1>0, <2>1, ThrowTook
  <2> HIDE DEF a
  <2>4. CASE <<a.cc>> \in sizes
    <3>1. GrabSuffix(L, letters, sizes) = PutC(a)  BY <1>2, <2>4 DEF GrabSuffix, a
    <3>2. Plain(a.cc)
      <4>1. PICK s \in sizes : s = <<a.cc>>  BY <2>4
      <4>2. s[1] = a.cc  BY <4>1
      <4> QED  BY <4>1, <4>2
    <3>3. Took(T, b, PutC(a), k + 1)  BY <2>2, <3>2, PutTook
    <3> QED  BY <2>3, <3>1, <3>3, TookReached
  <2>5. CASE <<a.cc>> \notin sizes /\ \A s \in sizes : s[1] # a.cc
    <3>1. GrabSuffix(L, letters, sizes) = Throw(Undo(a))  BY <1>2, <2>5 DEF GrabSuffix, a
    <3>2. Took(T, b, Throw(Undo(a)), k + 1)  BY <2>2, ThrowTook
    <3> QED  BY <2>3, <3>1, <3>2, TookReached
  <2>6. CASE <<a.cc>> \notin sizes /\ \E s \in sizes : s[1] = a.cc
    <3>1. Plain(a.cc)  BY <2>6
    <3>2. (k + 1) + 1 \in 1 .. Len(T) /\ Settled(T, b, PutC(a), (k + 1) + 1)
      BY <2>2, <3>1, PutAhead DEF Plain
    <3>3. Ahead(T, b, d, (k + 1) + 1)  BY <3>2, GrabSettled
    <3>4. (k + 1) + 1 \in k .. Len(T)  BY <2>3, <3>2
    <3>5. GrabSuffix(L, letters, sizes) = IF <<a.cc, d.cc>> \in sizes THEN PutC(d) ELSE Throw(Undo(d))
      BY <1>2, <2>6 DEF GrabSuffix, a
    <3> HIDE DEF d
    <3>6. CASE <<a.cc, d.cc>> \in sizes
      <4>1. Plain(d.cc)
        <5>1. PICK s \in sizes : s = <<a.cc, d.cc>>  BY <3>6
        <5>2. Len(s) = 2 /\ s[2] = d.cc  BY <5>1
        <5> QED  BY <5>1, <5>2
      <4>2. Took(T, b, PutC(d), (k + 1) + 1)  BY <3>3, <4>1, PutTook
      <4> QED  BY <2>3, <3>4, <3>5, <3>6, <4>2, TookReached
    <3>7. CASE <<a.cc, d.cc>> \notin sizes
      <4>1. Took(T, b, Throw(Undo(d)), (k + 1) + 1)  BY <3>3, ThrowTook
      <4> QED  BY <2>3, <3>4, <3>5, <3>7, <4>1, TookReached
    <3> QED  BY <3>6, <3>7
  <2> QED  BY <2>4, <2>5, <2>6
<1> QED  BY <1>1, <1>2

LEMMA SizesPlain ==
  /\ \A c \in IntLetters \cup FloatLetters : Plain(c)
  /\ \A s \in IntSizes \cup FloatSizes : Plain(s[1]) /\ (Len(s) = 2 => Plain(s[2]))
<1>1. \A c \in IntLetters \cup FloatLetters : Plain(c)
  BY DEF IntLetters, FloatLetters, Plain, EOF
<1>2. ASSUME NEW s \in IntSizes \cup FloatSizes PROVE Plain(s[1]) /\ (Len(s) = 2 => Plain(s[2]))
  <2>1. s \in {<<"8">>, <<"1", "6">>, <<"3", "2">>, <<"6", "4">>}  BY DEF IntSizes, FloatSizes
  <2> QED  BY <2>1 DEF Plain, EOF
<1> QED  BY <1>1, <1>2

LEMMA IntSuffixReached ==
  ASSUME NEW T \in Seq(Chars), NEW b \in Int, NEW L, NEW k, Ahead(T, b, L, k)
  PROVE  Reached(T, b, IntSuffix(L), k)
<1>0. k \in Nat /\ k \in k .. Len(T)  BY ThrowTook
<1>1. CASE L.cc = EOF  BY <1>0, <1>1, StopNear DEF IntSuffix, Reached
<1>2. CASE L.cc # EOF
  <2>1. IntSuffix(L) = GrabSuffix(L, IntLetters, IntSizes)  BY <1>2 DEF IntSuffix
  <2>2. Took(T, b, GrabSuffix(L, IntLetters, IntSizes), k)  BY SizesPlain, SuffixTook
  <2> QED  BY <1>0, <2>1, <2>2, TookReached
<1> QED  BY <1>1, <1>2

LEMMA ExponentTook ==
  ASSUME NEW T \in Seq(Chars), NEW b \in Int, NEW L, NEW k, Ahead(T, b, L, k), Plain(L.cc)
  PROVE  Took(T, b, GrabExponent(L), k)
<1> DEFINE sign == Grab(PutC(L))
<1>1. k + 1 \in 1 .. Len(T) /\ Settled(T, b, PutC(L), k + 1)  BY PutAhead DEF Plain
<1>2. Ahead(T, b, sign, k + 1)  BY <1>1, GrabSettled
<1>3. k \in Nat /\ k + 1 \in k .. Len(T)  BY <1>1, ThrowTook
<1>4. GrabExponent(L) = IF sign.cc \in {"+", "-"}
                        THEN GrabSuffix(PutWhile(PutC(sign), Digits), FloatLetters, FloatSizes)
                        ELSE Throw(Undo(sign))
  BY DEF GrabExponent
<1> HIDE DEF sign
<1>5. CASE sign.cc \in {"+", "-"}
  <2>1. Settled(T, b, PutC(sign), (k + 1) + 1) /\ (k + 1) + 1 \in 1 .. Len(T)
    <3>1. Plain(sign.cc)  BY <1>5 DEF Plain, EOF
    <3> QED  BY <1>2, <3>1, PutAhead DEF Plain
  <2>2. PICK j \in (k + 1) + 1 .. Len(T) : Ahead(T, b, PutWhile(PutC(sign), Digits), j)
    BY <2>1, PutWhileAhead, DigitsPlain
  <2>3. Took(T, b, GrabExponent(L), j)  BY <1>4, <1>5, <2>2, SizesPlain, SuffixTook
  <2>4. j \in k .. Len(T)  BY <1>3, <2>2
  <2> QED  BY <1>3, <2>3, <2>4, TookReached
<1>6. CASE sign.cc \notin {"+", "-"}
  <2>1. Took(T, b, GrabExponent(L), k + 1)  BY <1>2, <1>4, <1>6, ThrowTook
  <2> QED  BY <1>3, <2>1, TookReached
<1> QED  BY <1>5, <1>6

(* A float without digits behind its dot puts back one character more than  *)
(* it has grabbed.                                                          *)
LEMMA FloatReached ==
  ASSUME NEW T \in Seq(Chars), NEW b \in Int, NEW L, NEW k, Ahead(T, b, L, k), Plain(L.cc)
  PROVE  Reached(T, b, GrabFloat(L), k)
<1> DEFINE g == PutWhile(PutC(L), Digits)
           end == CASE g.cc = EOF -> g
                    [] g.cc \in {"e", "E"} -> GrabExponent(g)
                    [] OTHER -> GrabSuffix(g, FloatLetters, FloatSizes)
<1>1. k + 1 \in 1 .. Len(T) /\ Settled(T, b, PutC(L), k + 1)  BY PutAhead DEF Plain
<1>2. k \in Nat /\ Len(T) \in Nat  BY ThrowTook
<1>3. PICK j \in k + 1 .. Len(T) : Ahead(T, b, g, j)  BY <1>1, PutWhileAhead, DigitsPlain
<1>4. GrabFloat(L) \in {Throw(Undo(end)), end}  BY DEF GrabFloat
<1>5. j \in Nat /\ j \in k .. Len(T) /\ j \in j .. Len(T)  BY <1>2, <1>3
<1> HIDE DEF g
<1>6. CASE g.cc = EOF
  <2>1. end = g  BY <1>6 DEF EOF
  <2>2. Reached(T, b, g, k)  BY <1>2, <1>3, <1>5, <1>6, StopNear, TookReached
  <2>3. Took(T, b, Throw(Undo(g)), j)  BY <1>3, ThrowTook
  <2>4. Reached(T, b, Throw(Undo(g)), k)  BY <1>2, <1>5, <2>3, TookReached
  <2> QED  BY <1>4, <2>1, <2>2, <2>4
<1>7. CASE g.cc # EOF
  <2>1. Took(T, b, end, j)
    <3>1. CASE g.cc \in {"e", "E"}
      <4>1. end = GrabExponent(g)  BY <1>7, <3>1
      <4>2. Plain(g.cc)  BY <3>1 DEF Plain, EOF
      <4> HIDE DEF end
      <4> QED  BY <1>3, <4>1, <4>2, ExponentTook
    <3>2. CASE g.cc \notin {"e", "E"}
      <4>1. end = GrabSuffix(g, FloatLetters, FloatSizes)  BY <1>7, <3>2
      <4> HIDE DEF end
      <4> QED  BY <1>3, <4>1, SizesPlain, SuffixTook
    <3> QED  BY <3>1, <3>2
  <2> HIDE DEF end
  <2>2. PICK i \in j .. Len(T) : Settled(T, b, end, i)  BY <2>1 DEF Took
  <2>3. i \in k .. Len(T) /\ i - 1 \in k .. Len(T)  BY <1>2, <1>3, <2>2
  <2>4. Reached(T, b, end, k)  BY <1>2, <2>2, <2>3, TookReached
  <2>5. Near(T, b, Undo(end), i - 1)  BY <2>2, UndoSettled
  <2>6. Same(Undo(end), Throw(Undo(end)))
    <3>1. Undo(end) \in Lexer  BY <2>5 DEF Near, Rest
    <3> QED  BY <3>1, ThrowIs
  <2>7. Near(T, b, Throw(Undo(end)), i - 1)  BY <2>5, <2>6, SamePlace
  <2>8. Reached(T, b, Throw(Undo(end)), k)  BY <1>2, <2>3, <2>7, TookReached
  <2> QED  BY <1>4, <2>4, <2>8
<1> QED  BY <1>6, <1>7

(* GrabHex, GrabOct and GrabBin, at the letter of the base *)
LEMMA BasedReached ==
  ASSUME NEW T \in Seq(Chars), NEW b \in Int, NEW L, NEW k, Settled(T, b, PutC(Cleared(L)), k),
         NEW S, \A c \in S : Plain(c)
  PROVE  Reached(T, b, GrabBased(L, S), k)
<1>1. k \in Nat  BY StopNear
<1>2. PICK j \in k .. Len(T) : Ahead(T, b, PutWhile(PutC(Cleared(L)), S), j)  BY PutWhileAhead
<1>3. Reached(T, b, GrabBased(L, S), j)  BY <1>2, IntSuffixReached DEF GrabBased
<1> QED  BY <1>1, <1>2, <1>3, TookReached

LEMMA DecReached ==
  ASSUME NEW T \in Seq(Chars), NEW b \in Int, NEW L, NEW k, Settled(T, b, L, k)
  PROVE  Reached(T, b, GrabDec(L), k)
<1> DEFINE g == PutWhile(PutC(Cleared(L)), Digits)
<1>0. k \in Nat  BY StopNear
<1>1. k \in Nat /\ Settled(T, b, PutC(Cleared(L)), k)  BY <1>0, PutSettled
<1>2. PICK j \in k .. Len(T) : Ahead(T, b, g, j)  BY <1>1, PutWhileAhead, DigitsPlain
<1>3. GrabDec(L) = IF g.cc = "." THEN GrabFloat(g) ELSE IntSuffix(g)  BY DEF GrabDec
<1> HIDE DEF g
<1>4. g.cc = "." => Plain(g.cc)  BY DEF Plain, EOF
<1>5. Reached(T, b, GrabDec(L), j)  BY <1>2, <1>3, <1>4, FloatReached, IntSuffixReached
<1> QED  BY <1>1, <1>2, <1>5, TookReached

LEMMA NumberReached ==
  ASSUME NEW T \in Seq(Chars), NEW b \in Int, NEW L, NEW k, Settled(T, b, L, k)
  PROVE  Reached(T, b, GrabNumber(L), k)
<1> DEFINE g == Grab(L)
<1>1. Ahead(T, b, g, k) /\ k \in 1 .. Len(T) /\ k \in Nat  BY GrabSettled, StopNear
<1>2. /\ L.cc # "0" => GrabNumber(L) = GrabDec(L)
      /\ L.cc = "0" /\ g.cc = "x" => GrabNumber(L) = GrabHex(g)
      /\ L.cc = "0" /\ g.cc = "o" => GrabNumber(L) = GrabOct(g)
      /\ L.cc = "0" /\ g.cc = "b" => GrabNumber(L) = GrabBin(g)
      /\ L.cc = "0" /\ g.cc \notin {"x", "o", "b"} => GrabNumber(L) = GrabDec(Undo(g))
  BY DEF GrabNumber
<1> HIDE DEF g
<1>3. CASE L.cc # "0"  BY <1>2, <1>3, DecReached
<1>4. CASE L.cc = "0" /\ g.cc \in {"x", "o", "b"}
  <2>1. g.cc # EOF /\ g.cc # "\n"  BY <1>4 DEF EOF
  <2>2. k + 1 \in 1 .. Len(T) /\ Settled(T, b, PutC(Cleared(g)), k + 1)  BY <1>1, <2>1, PutAhead
  <2>3. \A c \in HexDigits : Plain(c)  BY HexPlain
  <2>4. \A c \in Digits \ {"8", "9"} : Plain(c)  BY DigitsPlain
  <2>5. \A c \in {"0", "1"} : Plain(c)  BY DEF Plain, EOF
  <2>6. Reached(T, b, GrabHex(g), k + 1)  BY <2>2, <2>3, BasedReached DEF GrabHex
  <2>7. Reached(T, b, GrabOct(g), k + 1)  BY <2>2, <2>4, BasedReached DEF GrabOct
  <2>8. Reached(T, b, GrabBin(g), k + 1)  BY <2>2, <2>5, BasedReached DEF GrabBin
  <2>9. k + 1 \in k .. Len(T)  BY <1>1, <2>2
  <2> QED  BY <1>1, <1>2, <1>4, <2>6, <2>7, <2>8, <2>9, TookReached
<1>5. CASE L.cc = "0" /\ g.cc \notin {"x", "o", "b"}
  <2>1. Settled(T, b, Undo(g), k)  BY <1>1, UndoAhead
  <2> QED  BY <1>2, <1>5, <2>1, DecReached
<1> QED  BY <1>3, <1>4, <1>5

LEMMA IdentReached ==
  ASSUME NEW T \in Seq(Chars), NEW b \in Int, NEW L, NEW k, Settled(T, b, L, k)
  PROVE  Reached(T, b, GrabIdent(L), k)
<1>0. k \in Nat  BY StopNear
<1>1. k \in Nat /\ Settled(T, b, PutC(Cleared(L)), k)  BY <1>0, PutSettled
<1>2. \A c \in Letters \cup Digits : Plain(c)  BY LettersPlain, DigitsPlain
<1>3. PICK j \in k .. Len(T) : Ahead(T, b, PutWhile(PutC(Cleared(L)), Letters \cup Digits), j)
  BY <1>1, <1>2, PutWhileAhead
<1>4. Took(T, b, GrabIdent(L), j)  BY <1>3, ThrowTook DEF GrabIdent
<1> QED  BY <1>1, <1>3, <1>4, TookReached

(* nnc_lex_grab_esc, at the character behind the backslash *)
LEMMA EscTook ==
  ASSUME NEW T \in Seq(Chars), NEW b \in Int, NEW L, NEW k, Ahead(T, b, L, k)
  PROVE  /\ Took(T, b, GrabEsc(L), k)
         /\ ~GrabEsc(L).bad => GrabEsc(L) = L /\ Plain(L.cc)
<1>0. k \in Nat /\ k \in 1 .. Len(T)  BY ThrowTook
<1>1. CASE L.cc \in Escapes
  <2>1. GrabEsc(L) = L /\ Plain(L.cc)  BY <1>1, EscapesPlain DEF GrabEsc
  <2>2. k + 1 \in 1 .. Len(T) /\ Settled(T, b, L, k + 1)  BY <2>1, AcceptAhead DEF Plain
  <2>3. k + 1 \in k .. Len(T)  BY <1>0, <2>2
  <2> QED  BY <1>0, <2>1, <2>2, <2>3, TookReached
<1>2. CASE L.cc \notin Escapes
  <2>1. GrabEsc(L) = Throw(Undo(L))  BY <1>2 DEF GrabEsc
  <2>2. Settled(T, b, Undo(L), k)  BY UndoAhead
  <2>3. Throw(Undo(L)).bad = TRUE  BY <2>2, PutSettled
  <2> QED  BY <2>1, <2>3, ThrowTook
<1> QED  BY <1>1, <1>2

(* A newline behind a single quote is taken for the character. *)
LEMMA ChrReached ==
  ASSUME NEW T \in Seq(Chars), NEW b \in Int, NEW L, NEW k, Settled(T, b, L, k), L.cc = "'"
  PROVE  Reached(T, b, GrabChr(L), k)
<1> DEFINE a == Grab(PutC(Cleared(L)))
           e == GrabEsc(Grab(PutC(a)))
<1>0. Plain("'")  BY DEF Plain, EOF
<1>1. k \in 1 .. Len(T) /\ k \in Nat /\ Len(T) \in Nat /\ k \in k .. Len(T)  BY StopNear
<1>2. Ahead(T, b, a, k)  BY PutSettled, GrabSettled
<1>3. /\ a.cc = EOF => GrabChr(L) = Closed(a, "'")
      /\ a.cc = "\\" => GrabChr(L) = IF e.bad THEN e ELSE Closed(Grab(PutC(e)), "'")
      /\ a.cc \notin {EOF, "\\"} => GrabChr(L) = Closed(Grab(PutC(a)), "'")
  BY DEF GrabChr, EOF
<1> HIDE DEF a
<1>4. CASE a.cc = EOF
  <2>1. Took(T, b, GrabChr(L), k)  BY <1>0, <1>2, <1>3, <1>4, ClosedTook
  <2> QED  BY <1>1, <2>1, TookReached
<1>5. CASE a.cc # EOF
  <2>1. a.cc # "\n" \/ Quoted(T)
    <3>1. a.cc = T[k + 1] /\ k < Len(T)  BY <1>2, <1>5 DEF Ahead
    <3>2. T[k] = "'" /\ k \in 1 .. Len(T) - 1  BY <1>1, <3>1 DEF Settled
    <3> QED  BY <3>1, <3>2 DEF Quoted
  <2>2. k + 1 \in 1 .. Len(T) /\ Settled(T, b, PutC(a), k + 1)  BY <1>2, <1>5, <2>1, PutAhead
  <2>3. Ahead(T, b, Grab(PutC(a)), k + 1) /\ k + 1 \in k .. Len(T)  BY <1>1, <2>2, GrabSettled
  <2>4. CASE a.cc = "\\"
    <3>1. Took(T, b, e, k + 1) /\ (~e.bad => e = Grab(PutC(a)) /\ Plain(e.cc))  BY <2>3, EscTook
    <3>2. ASSUME ~e.bad PROVE Took(T, b, Closed(Grab(PutC(e)), "'"), (k + 1) + 1)
                              /\ (k + 1) + 1 \in k .. Len(T)
      <4>1. (k + 1) + 1 \in 1 .. Len(T) /\ Settled(T, b, PutC(e), (k + 1) + 1)
        BY <2>3, <3>1, <3>2, PutAhead DEF Plain
      <4>2. Ahead(T, b, Grab(PutC(e)), (k + 1) + 1)  BY <4>1, GrabSettled
      <4> QED  BY <1>0, <1>1, <4>1, <4>2, ClosedTook
    <3> HIDE DEF e
    <3> QED  BY <1>1, <1>3, <2>3, <2>4, <3>1, <3>2, TookReached
  <2>5. CASE a.cc # "\\"
    <3>1. Took(T, b, GrabChr(L), k + 1)  BY <1>0, <1>3, <1>5, <2>3, <2>5, ClosedTook
    <3> QED  BY <1>1, <2>3, <3>1, TookReached
  <2> QED  BY <2>4, <2>5
<1> QED  BY <1>4, <1>5

LEMMA GrabChar ==
  ASSUME NEW L \in Lexer
  PROVE  Grab(L).cc \in Chars \cup {EOF} /\ GrabEsc(Grab(L)) \in Lexer
         /\ (~GrabEsc(Grab(L)).bad => GrabEsc(Grab(L)) = Grab(L))
<1>1. L.rest \in Seq(Chars)  BY LexerFields
<1>2. L.rest # <<>> => L.rest[1] \in Chars  BY <1>1
<1>3. Grab(L).cc \in Chars \cup {EOF} /\ Grab(L) \in Lexer
  <2>1. CASE L.cc = EOF  BY <2>1, GrabIs
  <2>2. CASE L.cc # EOF  BY <1>2, <2>2, GrabIs
  <2> QED  BY <2>1, <2>2
<1>4. Undo(Grab(L)) \in Lexer  BY <1>3, UndoIs
<1>5. Throw(Undo(Grab(L))) \in Lexer /\ Throw(Undo(Grab(L))).bad = TRUE  BY <1>4, ThrowIs DEF Same
<1> QED  BY <1>3, <1>5 DEF GrabEsc

(* nnc_lex_grab_str *)
LEMMA StrTook ==
  ASSUME NEW T \in Seq(Chars), NEW b \in Int, NEW L, NEW k, Settled(T, b, L, k)
  PROVE  Took(T, b, GrabStr[L], k)
<1> DEFINE Ends == {EOF, "\n", "\""}
           g(l) == Grab(l)
           e(l) == GrabEsc(Grab(PutC(g(l))))
           Body(h, l) == CASE g(l).cc \in Ends -> Closed(g(l), "\"")
                           [] g(l).cc = "\\" -> IF e(l).bad THEN e(l) ELSE h[PutC(e(l))]
                           [] OTHER -> h[PutC(g(l))]
           Eq(h) == h = [l \in Lexer |-> Body(h, l)]
           D == {l \in Lexer : g(l).cc \notin Ends /\ (g(l).cc = "\\" => ~e(l).bad)}
           step == [l \in D |-> IF g(l).cc = "\\" THEN PutC(e(l)) ELSE PutC(g(l))]
           out == [l \in Lexer |-> IF g(l).cc \in Ends THEN Closed(g(l), "\"") ELSE e(l)]
           I == {l \in Lexer : \E j \in k .. Len(T) : Settled(T, b, l, j)}
           m == [l \in Lexer |-> Left(l)]
           f == CHOOSE h : Eq(h)
<1>0. k \in 1 .. Len(T) /\ Len(T) \in Nat /\ k \in Nat  BY StopNear
<1>1. GrabStr = f  BY Zenon DEF GrabStr
<1> HIDE DEF Ends, g, e, Body, Eq, D, step, out, I, m, f
<1>2. D \in SUBSET Lexer /\ step \in [D -> Lexer] /\ m \in [Lexer -> Nat] /\ I \in SUBSET Lexer
  <2>1. ASSUME NEW l \in Lexer PROVE Left(l) \in Nat /\ PutC(g(l)) \in Lexer /\ PutC(e(l)) \in Lexer
    <3>1. PutC(Grab(l)) \in Lexer  BY GrabIs, PutCIs DEF Same
    <3>2. e(l) \in Lexer  BY <3>1, GrabChar DEF e, g
    <3> QED  BY <3>1, <3>2, LeftIs, PutCIs DEF Same, g
  <2> QED  BY <2>1 DEF D, step, m, I
<1>3. ASSUME NEW h PROVE IsLoop(h, Lexer, D, step, out) <=> Eq(h)
  <2>1. ASSUME NEW l \in Lexer PROVE (IF l \in D THEN h[step[l]] ELSE out[l]) = Body(h, l)
    <3>1. CASE g(l).cc \in Ends
      <4>1. l \notin D /\ out[l] = Closed(g(l), "\"")  BY <3>1 DEF D, out
      <4>2. g(l).cc # "\\"  BY <3>1 DEF Ends, EOF
      <4> QED  BY <3>1, <4>1, <4>2 DEF Body
    <3>2. CASE g(l).cc \notin Ends /\ g(l).cc = "\\"
      <4>1. Body(h, l) = IF e(l).bad THEN e(l) ELSE h[PutC(e(l))]  BY <3>2 DEF Body
      <4>2. out[l] = e(l) /\ (l \in D <=> ~e(l).bad) /\ (l \in D => step[l] = PutC(e(l)))
        BY <3>2 DEF D, out, step
      <4> QED  BY <4>1, <4>2
    <3>3. CASE g(l).cc \notin Ends /\ g(l).cc # "\\"
      <4>1. Body(h, l) = h[PutC(g(l))]  BY <3>3 DEF Body
      <4>2. l \in D /\ step[l] = PutC(g(l))  BY <3>3 DEF D, step
      <4> QED  BY <4>1, <4>2
    <3> QED  BY <3>1, <3>2, <3>3
  <2>2. [l \in Lexer |-> IF l \in D THEN h[step[l]] ELSE out[l]] = [l \in Lexer |-> Body(h, l)]
    BY <2>1
  <2> QED  BY <2>2, Zenon DEF IsLoop, Eq
<1>4. \E h : Eq(h)  BY <1>2, <1>3, LoopSolved
<1>5. IsLoop(f, Lexer, D, step, out)
  <2>1. Eq(f)  BY <1>4, Zenon DEF f
  <2> QED  BY <1>3, <2>1
<1>6. ASSUME NEW l \in I \cap D PROVE step[l] \in I /\ m[step[l]] < m[l]
  <2>0. l \in Lexer  BY DEF D
  <2>1. PICK j \in k .. Len(T) : Settled(T, b, l, j)  BY DEF I
  <2>2. Ahead(T, b, g(l), j) /\ g(l) \in Lexer  BY <2>0, <2>1, GrabSettled, GrabIs DEF g
  <2>3. g(l).cc # EOF /\ g(l).cc # "\n"  BY DEF D, Ends
  <2>4. j + 1 \in 1 .. Len(T) /\ Settled(T, b, PutC(g(l)), j + 1)  BY <2>2, <2>3, PutAhead
  <2>5. j + 1 \in k .. Len(T)  BY <1>0, <2>1, <2>4
  <2>6. PutC(g(l)) \in Lexer /\ Same(g(l), PutC(g(l)))  BY <2>2, PutCIs DEF Same
  <2>7. l.cc # EOF  BY <2>0, <2>3, GrabIs DEF g
  <2>8. Left(PutC(g(l))) < Left(l)  BY <2>0, <2>2, <2>6, <2>7, LeftIs DEF g
  <2>9. CASE g(l).cc # "\\"
    <3>1. step[l] = PutC(g(l)) /\ m[step[l]] = Left(PutC(g(l))) /\ m[l] = Left(l)
      BY <2>0, <2>6, <2>9 DEF step, m
    <3>2. PutC(g(l)) \in I  BY <2>4, <2>5, <2>6 DEF I
    <3> QED  BY <2>8, <3>1, <3>2
  <2>10. CASE g(l).cc = "\\"
    <3>1. Ahead(T, b, Grab(PutC(g(l))), j + 1)  BY <2>4, GrabSettled
    <3>2. e(l) = Grab(PutC(g(l))) /\ Plain(e(l).cc)
      <4>1. ~e(l).bad  BY <2>10 DEF D
      <4> QED  BY <3>1, <4>1, EscTook DEF e
    <3>3. (j + 1) + 1 \in 1 .. Len(T) /\ Settled(T, b, PutC(e(l)), (j + 1) + 1)
      BY <3>1, <3>2, PutAhead DEF Plain
    <3>4. (j + 1) + 1 \in k .. Len(T)  BY <1>0, <2>1, <2>5, <3>3
    <3>5. e(l) \in Lexer /\ Same(e(l), PutC(e(l))) /\ PutC(e(l)) \in Lexer
      BY <2>6, <3>2, GrabIs, PutCIs DEF Same
    <3>6. PutC(g(l)).cc # EOF  BY <2>3, <2>6 DEF Same
    <3>7. Left(PutC(e(l))) = Left(e(l)) /\ Left(e(l)) < Left(PutC(g(l)))
      BY <2>6, <3>2, <3>5, <3>6, LeftIs
    <3>8. Left(PutC(e(l))) \in Nat /\ Left(PutC(g(l))) \in Nat /\ Left(l) \in Nat
      BY <2>0, <2>6, <3>5, LeftIs
    <3>9. Left(PutC(e(l))) < Left(l)  BY <2>8, <3>7, <3>8
    <3>10. step[l] = PutC(e(l)) /\ m[step[l]] = Left(PutC(e(l))) /\ m[l] = Left(l)
      BY <2>0, <2>10, <3>5 DEF step, m
    <3>11. PutC(e(l)) \in I  BY <3>3, <3>4, <3>5 DEF I
    <3> QED  BY <3>9, <3>10, <3>11
  <2> QED  BY <2>9, <2>10
<1>7. L \in I
  <2>1. L \in Lexer /\ k \in k .. Len(T)  BY <1>0 DEF Settled, Rest
  <2> QED  BY <2>1 DEF I
<1>8. PICK y \in I \ D : f[L] = out[y]  BY <1>2, <1>5, <1>6, <1>7, LoopEnds
<1>9. y \in Lexer  BY DEF I
<1>10. PICK j \in k .. Len(T) : Settled(T, b, y, j)  BY DEF I
<1>11. Ahead(T, b, g(y), j)  BY <1>10, GrabSettled DEF g
<1>12. CASE g(y).cc \in Ends
  <2>1. f[L] = Closed(g(y), "\"")  BY <1>8, <1>9, <1>12 DEF out
  <2>2. Plain("\"")  BY DEF Plain, EOF
  <2>3. Took(T, b, Closed(g(y), "\""), j)  BY <1>11, <2>2, ClosedTook
  <2>4. Took(T, b, Closed(g(y), "\""), k)  BY <1>0, <1>10, <2>3, TookReached
  <2> QED  BY <1>1, <2>1, <2>4
<1>13. CASE g(y).cc \notin Ends
  <2>1. f[L] = e(y)  BY <1>8, <1>9, <1>13 DEF out
  <2>2. g(y).cc # EOF /\ g(y).cc # "\n"  BY <1>13 DEF Ends
  <2>3. j + 1 \in 1 .. Len(T) /\ Settled(T, b, PutC(g(y)), j + 1)  BY <1>11, <2>2, PutAhead
  <2>4. j + 1 \in k .. Len(T)  BY <1>0, <1>10, <2>3
  <2>5. Ahead(T, b, Grab(PutC(g(y))), j + 1)  BY <2>3, GrabSettled
  <2>6. Took(T, b, e(y), j + 1)  BY <2>5, EscTook DEF e
  <2> QED  BY <1>0, <1>1, <2>1, <2>4, <2>6, TookReached
<1> QED  BY <1>12, <1>13

-----------------------------------------------------------------------------
(* Between the tokens *)

(* The character behind position j has been grabbed. *)
Onward(T, b, L, j) ==
  /\ L.cc # EOF /\ j + 1 \in 1 .. Len(T) /\ j \in 0 .. Len(T) - 1 /\ Grab(L).cc = T[j + 1]
  /\ Rest(T, Grab(L), j + 1) /\ LineAt(T, b, Grab(L), j)

LEMMA GrabOn ==
  ASSUME NEW T \in Seq(Chars), NEW b \in Int, NEW L, NEW j, Near(T, b, L, j), Grab(L).cc # EOF
  PROVE  Onward(T, b, L, j)
<1>1. L \in Lexer /\ j \in 0 .. Len(T) /\ Len(T) \in Nat  BY DEF Near, Rest
<1>2. L.cc # EOF  BY <1>1, GrabIs
<1>3. /\ j < Len(T) /\ Grab(L).cc = T[j + 1] /\ Rest(T, Grab(L), j + 1) /\ LineAt(T, b, Grab(L), j)
  BY <1>2, GrabNear
<1>4. j + 1 \in 1 .. Len(T) /\ j \in 0 .. Len(T) - 1  BY <1>1, <1>3
<1> QED  BY <1>2, <1>3, <1>4 DEF Onward

(* Where it is no newline, the line is the same. *)
LEMMA GrabInLine ==
  ASSUME NEW T \in Seq(Chars), NEW b \in Int, NEW L, NEW j, Near(T, b, L, j), Grab(L).cc # EOF,
         Grab(L).cc # "\n"
  PROVE  /\ L.cc # EOF /\ j + 1 \in 1 .. Len(T)
         /\ Near(T, b, Grab(L), j + 1) /\ Settled(T, b, Grab(L), j + 1)
<1>1. Onward(T, b, L, j)  BY GrabOn
<1>2. j + 1 \in 1 .. Len(T) /\ j + 1 \in Nat \ {0} /\ j \in 0 .. Len(T) - 1 /\ (j + 1) + 1 = j + 2
  BY <1>1 DEF Onward
<1>3. Lines(T, j + 2) = Lines(T, j + 1)  BY <1>1, <1>2, LinesStep DEF Onward
<1>4. LineAt(T, b, Grab(L), j + 1)  BY <1>1, <1>2, <1>3 DEF LineAt, Onward
<1> QED  BY <1>1, <1>2, <1>4 DEF Near, Settled, Within, Onward

(* A newline is counted. *)
Counted(L) == [Grab(L) EXCEPT !.ln = @ + 1, !.ch = 1]
LEMMA CountLine ==
  ASSUME NEW T \in Seq(Chars), NEW b \in Int, NEW L, NEW j, Near(T, b, L, j), Grab(L).cc = "\n"
  PROVE  /\ Near(T, b, Counted(L), j + 1) /\ j + 1 \in 1 .. Len(T) /\ L.cc # EOF
         /\ Counted(L) \in Lexer /\ Counted(L).bad = L.bad /\ Left(Counted(L)) = Left(Grab(L))
<1> DEFINE M == Counted(L)
           G == Grab(L)
<1>1. Onward(T, b, L, j)
  <2>1. Grab(L).cc # EOF  BY DEF EOF
  <2> QED  BY <2>1, GrabOn
<1>2. /\ L.cc # EOF /\ j + 1 \in 1 .. Len(T) /\ j \in 0 .. Len(T) - 1 /\ Grab(L).cc = T[j + 1]
      /\ Rest(T, Grab(L), j + 1) /\ LineAt(T, b, Grab(L), j)
  BY <1>1 DEF Onward
<1>3. L \in Lexer /\ Grab(L) \in Lexer /\ Grab(L).bad = L.bad /\ Grab(L).ln \in Int
  BY <1>2, GrabIs, LexerFields DEF Near, Rest
<1>4. M = [G EXCEPT !.ln = G.ln + 1, !.ch = 1]  BY <1>3 DEF Lexer, Counted
<1>5. /\ M \in Lexer /\ M.rest = G.rest /\ M.cc = G.cc /\ M.ln = G.ln + 1 /\ M.bad = G.bad
  <2> HIDE DEF M, G
  <2>1. G \in Lexer /\ G.ln + 1 \in Int /\ 1 \in Int  BY <1>3 DEF G
  <2>2. [G EXCEPT !.ln = G.ln + 1, !.ch = 1] \in Lexer  BY <2>1, LexerCounted
  <2> QED  BY <1>4, <2>1, <2>2 DEF Lexer
<1> HIDE DEF M
<1>6. /\ Lines(T, j + 2) = Lines(T, j + 1) + 1 /\ (j + 1) + 1 = j + 2
      /\ Lines(T, j + 1) \in Int
  BY <1>2, LinesStep
<1>7. Near(T, b, M, j + 1)
  <2>1. LineAt(T, b, M, j + 1)
    <3>1. Quoted(T) \/ G.ln = b + Lines(T, j + 1)  BY <1>2 DEF LineAt
    <3>2. G.ln = b + Lines(T, j + 1) => M.ln = b + Lines(T, (j + 1) + 1)  BY <1>5, <1>6
    <3> QED  BY <3>1, <3>2 DEF LineAt
  <2> QED  BY <1>2, <1>5, <2>1 DEF Near, Rest
<1>8. Left(M) = Left(Grab(L))  BY <1>5 DEF Left
<1> QED  BY <1>2, <1>3, <1>5, <1>7, <1>8 DEF M

(* The loop of nnc_lex_skip_line stops in front of the end of the line. *)
LEMMA ToLineEndIs ==
  ASSUME NEW T \in Seq(Chars), NEW b \in Int, NEW L, NEW k, Near(T, b, L, k)
  PROVE  \E j \in k .. Len(T), y \in Lexer :
           Near(T, b, y, j) /\ y.bad = L.bad /\ ToLineEnd[L] = Grab(y) /\ Grab(y).cc \in {EOF, "\n"}
<1> DEFINE Eq(h) == h = [l \in Lexer |-> IF Grab(l).cc \in {EOF, "\n"} THEN Grab(l) ELSE h[Grab(l)]]
           D == {l \in Lexer : Grab(l).cc \notin {EOF, "\n"}}
           step == [l \in D |-> Grab(l)]
           out == [l \in Lexer |-> Grab(l)]
           I == {l \in Lexer : l.bad = L.bad /\ \E j \in k .. Len(T) : Near(T, b, l, j)}
           m == [l \in Lexer |-> Left(l)]
           f == CHOOSE h : Eq(h)
<1>0. k \in 0 .. Len(T) /\ Len(T) \in Nat /\ k \in Nat /\ L \in Lexer  BY DEF Near, Rest
<1>1. ToLineEnd = f  BY Zenon DEF ToLineEnd
<1> HIDE DEF Eq, D, step, out, I, m, f
<1>2. D \in SUBSET Lexer /\ step \in [D -> Lexer] /\ m \in [Lexer -> Nat] /\ I \in SUBSET Lexer
  <2>1. ASSUME NEW l \in Lexer PROVE Grab(l) \in Lexer /\ Left(l) \in Nat  BY GrabIs, LeftIs
  <2> QED  BY <2>1 DEF D, step, m, I
<1>3. ASSUME NEW h PROVE IsLoop(h, Lexer, D, step, out) <=> Eq(h)
  <2>1. [l \in Lexer |-> IF l \in D THEN h[step[l]] ELSE out[l]]
          = [l \in Lexer |-> IF Grab(l).cc \in {EOF, "\n"} THEN Grab(l) ELSE h[Grab(l)]]
    BY DEF D, step, out
  <2> QED  BY <2>1, Zenon DEF IsLoop, Eq
<1>4. \E h : Eq(h)  BY <1>2, <1>3, LoopSolved
<1>5. IsLoop(f, Lexer, D, step, out)
  <2>1. Eq(f)  BY <1>4, Zenon DEF f
  <2> QED  BY <1>3, <2>1
<1>6. ASSUME NEW l \in I \cap D PROVE step[l] \in I /\ m[step[l]] < m[l]
  <2>0. l \in Lexer /\ Grab(l) \in Lexer /\ Grab(l).bad = L.bad  BY GrabIs DEF D, I
  <2>1. PICK j \in k .. Len(T) : Near(T, b, l, j)  BY DEF I
  <2>2. Grab(l).cc # EOF /\ Grab(l).cc # "\n"  BY DEF D
  <2>3. l.cc # EOF /\ j + 1 \in 1 .. Len(T) /\ Near(T, b, Grab(l), j + 1)  BY <2>1, <2>2, GrabInLine
  <2>4. j + 1 \in k .. Len(T)  BY <1>0, <2>1, <2>3
  <2>5. Left(Grab(l)) < Left(l)  BY <2>0, <2>3, LeftIs
  <2>6. step[l] = Grab(l) /\ m[Grab(l)] = Left(Grab(l)) /\ m[l] = Left(l)  BY <2>0 DEF step, m
  <2>7. Grab(l) \in I  BY <2>0, <2>3, <2>4 DEF I
  <2> QED  BY <2>5, <2>6, <2>7
<1>7. L \in I
  <2>1. k \in k .. Len(T)  BY <1>0
  <2> QED  BY <1>0, <2>1 DEF I
<1>8. PICK y \in I \ D : f[L] = out[y]  BY <1>2, <1>5, <1>6, <1>7, LoopEnds
<1>9. y \in Lexer /\ y.bad = L.bad /\ f[L] = Grab(y) /\ Grab(y).cc \in {EOF, "\n"}
  BY <1>8 DEF I, D, out
<1>10. PICK j \in k .. Len(T) : Near(T, b, y, j)  BY DEF I
<1> QED  BY <1>1, <1>9, <1>10

(* nnc_lex_skip_line takes at least the newline. *)
LEMMA SkipLineNear ==
  ASSUME NEW T \in Seq(Chars), NEW b \in Int, NEW L, NEW k, Near(T, b, L, k)
  PROVE  /\ SkipLine(L) \in Lexer /\ SkipLine(L).bad = L.bad
         /\ \E j \in k .. Len(T) : /\ Near(T, b, SkipLine(L), j)
                                   /\ SkipLine(L).cc # EOF => j >= k + 1
<1>0. k \in 0 .. Len(T) /\ Len(T) \in Nat /\ k \in Nat /\ L \in Lexer  BY DEF Near, Rest
<1>1. PICK j \in k .. Len(T), y \in Lexer :
        Near(T, b, y, j) /\ y.bad = L.bad /\ ToLineEnd[L] = Grab(y) /\ Grab(y).cc \in {EOF, "\n"}
  BY ToLineEndIs
<1>2. SkipLine(L) = Counted(y)  BY <1>1 DEF SkipLine, Counted
<1>3. CASE Grab(y).cc = "\n"
  <2>1. /\ Near(T, b, SkipLine(L), j + 1) /\ j + 1 \in 1 .. Len(T) /\ y.cc # EOF
        /\ SkipLine(L) \in Lexer /\ SkipLine(L).bad = L.bad
    BY <1>1, <1>2, <1>3, CountLine
  <2>2. j + 1 \in k .. Len(T) /\ j + 1 >= k + 1  BY <1>0, <1>1, <2>1
  <2> QED  BY <2>1, <2>2
<1>4. CASE Grab(y).cc = EOF
  <2>1. Grab(y) \in Lexer /\ Grab(y).bad = L.bad /\ Grab(y).rest = <<>> /\ Grab(y).ln \in Int
    BY <1>1, <1>4, GrabIs, LexerFields
  <2>2. /\ SkipLine(L) \in Lexer /\ SkipLine(L).cc = EOF /\ SkipLine(L).rest = <<>>
        /\ SkipLine(L).bad = L.bad
    <3>1. PICK G \in Lexer : G = Grab(y)  BY <2>1
    <3>2. SkipLine(L) = [G EXCEPT !.ln = G.ln + 1, !.ch = 1]  BY <1>2, <3>1 DEF Lexer, Counted
    <3>3. G.ln + 1 \in Int /\ 1 \in Int  BY <2>1, <3>1
    <3>4. [G EXCEPT !.ln = G.ln + 1, !.ch = 1] \in Lexer  BY <3>3, LexerCounted
    <3> QED  BY <1>4, <2>1, <3>1, <3>2, <3>4 DEF Lexer
  <2>3. <<>> = SubSeq(T, Len(T) + 1, Len(T)) /\ Len(T) \in 0 .. Len(T) /\ Len(T) \in k .. Len(T)
    BY <1>0, TextBehind
  <2>4. Near(T, b, SkipLine(L), Len(T))  BY <2>2, <2>3 DEF Near, Rest
  <2> QED  BY <2>2, <2>3, <2>4
<1> QED  BY <1>1, <1>3, <1>4

(* nnc_lex_skip ends at the end of the file or at the first character of a  *)
(* token.                                                                   *)
LEMMA SkipNear ==
  ASSUME NEW T \in Seq(Chars), NEW b \in Int, NEW L, NEW k, Near(T, b, L, k)
  PROVE  /\ Skip[L] \in Lexer /\ Skip[L].bad = L.bad
         /\ Skip[L].cc = EOF => \E j \in k .. Len(T) : Near(T, b, Skip[L], j)
         /\ Skip[L].cc # EOF => /\ L.cc # EOF
                                /\ \E j \in k + 1 .. Len(T) : Settled(T, b, Skip[L], j)
<1> DEFINE Body(h, l) == CASE Grab(l).cc \in Blanks -> h[Grab(l)]
                           [] Grab(l).cc = "\n" -> h[Counted(l)]
                           [] OTHER -> Grab(l)
           Eq(h) == h = [l \in Lexer |-> Body(h, l)]
           D == {l \in Lexer : Grab(l).cc \in Blanks \cup {"\n"}}
           step == [l \in D |-> IF Grab(l).cc = "\n" THEN Counted(l) ELSE Grab(l)]
           out == [l \in Lexer |-> Grab(l)]
           I == {l \in Lexer : /\ l.bad = L.bad /\ (L.cc = EOF => l.cc = EOF)
                               /\ \E j \in k .. Len(T) : Near(T, b, l, j)}
           m == [l \in Lexer |-> Left(l)]
           f == CHOOSE h : Eq(h)
<1>0. k \in 0 .. Len(T) /\ Len(T) \in Nat /\ k \in Nat /\ L \in Lexer  BY DEF Near, Rest
<1>1. Skip = f  BY Zenon DEF Skip, Counted
<1> HIDE DEF Body, Eq, D, step, out, I, m, f
<1>2. D \in SUBSET Lexer /\ step \in [D -> Lexer] /\ m \in [Lexer -> Nat] /\ I \in SUBSET Lexer
  <2>1. ASSUME NEW l \in Lexer PROVE Grab(l) \in Lexer /\ Left(l) \in Nat /\ Counted(l) \in Lexer
    <3>1. PICK G \in Lexer : G = Grab(l)  BY GrabIs
    <3>2. G.ln + 1 \in Int /\ 1 \in Int  BY LexerFields
    <3>3. [G EXCEPT !.ln = G.ln + 1, !.ch = 1] \in Lexer  BY <3>2, LexerCounted
    <3>4. Counted(l) = [G EXCEPT !.ln = G.ln + 1, !.ch = 1]  BY <3>1 DEF Counted, Lexer
    <3> QED  BY <3>1, <3>3, <3>4, LeftIs
  <2> QED  BY <2>1 DEF D, step, m, I
<1>3. ASSUME NEW h PROVE IsLoop(h, Lexer, D, step, out) <=> Eq(h)
  <2>1. ASSUME NEW l \in Lexer PROVE (IF l \in D THEN h[step[l]] ELSE out[l]) = Body(h, l)
    <3>1. CASE Grab(l).cc \in Blanks
      <4>1. Grab(l).cc # "\n"  BY <3>1 DEF Blanks
      <4> QED  BY <3>1, <4>1 DEF Body, D, step
    <3>2. CASE Grab(l).cc = "\n"
      <4>1. Grab(l).cc \notin Blanks  BY <3>2 DEF Blanks
      <4> QED  BY <3>2, <4>1 DEF Body, D, step
    <3>3. CASE Grab(l).cc \notin Blanks \cup {"\n"}  BY <3>3 DEF Body, D, out
    <3> QED  BY <3>1, <3>2, <3>3
  <2>2. [l \in Lexer |-> IF l \in D THEN h[step[l]] ELSE out[l]] = [l \in Lexer |-> Body(h, l)]
    BY <2>1
  <2> QED  BY <2>2, Zenon DEF IsLoop, Eq
<1>4. \E h : Eq(h)  BY <1>2, <1>3, LoopSolved
<1>5. IsLoop(f, Lexer, D, step, out)
  <2>1. Eq(f)  BY <1>4, Zenon DEF f
  <2> QED  BY <1>3, <2>1
<1>6. ASSUME NEW l \in I \cap D PROVE step[l] \in I /\ m[step[l]] < m[l]
  <2>0. l \in Lexer /\ Grab(l) \in Lexer /\ Grab(l).bad = L.bad  BY GrabIs DEF D, I
  <2>1. PICK j \in k .. Len(T) : Near(T, b, l, j)  BY DEF I
  <2>2. Grab(l).cc # EOF  BY DEF D, Blanks, EOF
  <2>3. l.cc # EOF /\ j + 1 \in 1 .. Len(T)  BY <2>1, <2>2, GrabOn DEF Onward
  <2>4. j + 1 \in k .. Len(T)  BY <1>0, <2>1, <2>3
  <2>5. Left(Grab(l)) < Left(l)  BY <2>0, <2>3, LeftIs
  <2>6. L.cc # EOF  BY <2>3 DEF I
  <2>7. CASE Grab(l).cc = "\n"
    <3>1. /\ Near(T, b, Counted(l), j + 1) /\ Counted(l) \in Lexer /\ Counted(l).bad = l.bad
          /\ Left(Counted(l)) = Left(Grab(l))
      BY <2>1, <2>7, CountLine
    <3>2. step[l] = Counted(l) /\ m[Counted(l)] = Left(Counted(l)) /\ m[l] = Left(l)
      BY <2>0, <2>7, <3>1 DEF step, m
    <3>3. Counted(l) \in I  BY <2>4, <2>6, <3>1 DEF I
    <3> QED  BY <2>5, <3>1, <3>2, <3>3
  <2>8. CASE Grab(l).cc # "\n"
    <3>1. Near(T, b, Grab(l), j + 1)  BY <2>1, <2>2, <2>8, GrabInLine
    <3>2. step[l] = Grab(l) /\ m[Grab(l)] = Left(Grab(l)) /\ m[l] = Left(l)
      BY <2>0, <2>8 DEF step, m
    <3>3. Grab(l) \in I  BY <2>0, <2>4, <2>6, <3>1 DEF I
    <3> QED  BY <2>5, <3>2, <3>3
  <2> QED  BY <2>7, <2>8
<1>7. L \in I
  <2>1. k \in k .. Len(T)  BY <1>0
  <2> QED  BY <1>0, <2>1 DEF I
<1>8. PICK y \in I \ D : f[L] = out[y]  BY <1>2, <1>5, <1>6, <1>7, LoopEnds
<1>9. /\ y \in Lexer /\ y.bad = L.bad /\ Skip[L] = Grab(y) /\ Grab(y).cc # "\n"
      /\ L.cc = EOF => y.cc = EOF
  BY <1>1, <1>8 DEF I, D, out
<1>10. PICK j \in k .. Len(T) : Near(T, b, y, j)  BY DEF I
<1>11. Grab(y) \in Lexer /\ Grab(y).bad = L.bad  BY <1>9, GrabIs
<1>12. CASE Grab(y).cc = EOF
  <2>1. Grab(y).rest = <<>>  BY <1>11, <1>12, LexerFields
  <2>2. <<>> = SubSeq(T, Len(T) + 1, Len(T)) /\ Len(T) \in 0 .. Len(T) /\ Len(T) \in k .. Len(T)
    BY <1>0, TextBehind
  <2>3. Near(T, b, Grab(y), Len(T))  BY <1>11, <1>12, <2>1, <2>2 DEF Near, Rest
  <2> QED  BY <1>9, <1>11, <1>12, <2>2, <2>3
<1>13. CASE Grab(y).cc # EOF
  <2>1. y.cc # EOF /\ j + 1 \in 1 .. Len(T) /\ Settled(T, b, Grab(y), j + 1)  BY <1>9, <1>10, <1>13, GrabInLine
  <2>2. j + 1 \in k + 1 .. Len(T)  BY <1>0, <1>10, <2>1
  <2> QED  BY <1>9, <1>11, <1>13, <2>1, <2>2
<1> QED  BY <1>12, <1>13

-----------------------------------------------------------------------------
(* The calls of the lexer *)

LEMMA CommitIs ==
  ASSUME NEW L \in Lexer, NEW kind \in Seq(Symbols)
  PROVE  /\ Same(L, Commit(L, kind)) /\ Commit(L, kind).bad = L.bad /\ Commit(L, kind).kind = kind
<1> DEFINE sized == kind \in {<<"CHR">>, <<"STR">>, <<"IDENT">>, <<"NUMBER">>} \cup Keywords
           size == CASE sized -> L.size
                     [] kind = <<EOF>> -> 0
                     [] kind = <<"=", "=">> -> 1
                     [] OTHER -> Len(kind)
<1>1. L.size \in Int /\ L.lexeme \in Seq(Symbols) /\ L.bad \in BOOLEAN /\ L.errors \in Nat  BY LexerFields
<1>2. Commit(L, kind) = [L EXCEPT !.kind = kind, !.size = size]  BY DEF Commit, Lexer
<1>3. size \in Int
  <2> HIDE DEF sized
  <2>1. Len(kind) \in Int  OBVIOUS
  <2> QED  BY <1>1, <2>1
<1> HIDE DEF size
<1>4. [L EXCEPT !.kind = kind, !.size = size]
        = [L EXCEPT !.kind = kind, !.lexeme = L.lexeme, !.size = size, !.bad = L.bad, !.errors = L.errors]
  BY DEF Lexer
<1>5. [L EXCEPT !.kind = kind, !.lexeme = L.lexeme, !.size = size, !.bad = L.bad, !.errors = L.errors] \in Lexer
  BY <1>1, <1>3, LexerTold
<1>6. Commit(L, kind) \in Lexer  BY <1>2, <1>4, <1>5
<1> QED  BY <1>2, <1>6 DEF Lexer, Same

LEMMA CommitReached ==
  ASSUME NEW T \in Seq(Chars), NEW b \in Int, NEW L, NEW k, Reached(T, b, L, k), NEW kind \in Seq(Symbols)
  PROVE  Reached(T, b, Commit(L, kind), k)
<1>1. PICK j \in k .. Len(T) : Near(T, b, L, j)  BY DEF Reached
<1>2. L \in Lexer  BY <1>1 DEF Near, Rest
<1>3. Same(L, Commit(L, kind))  BY <1>2, CommitIs
<1>4. Near(T, b, Commit(L, kind), j)  BY <1>1, <1>3, SamePlace
<1> QED  BY <1>4 DEF Reached

(* At the end of the file *)
LEMMA TokenAtEnd ==
  ASSUME NEW L \in Lexer, L.cc = EOF
  PROVE  /\ Same(L, GrabToken(L)) /\ GrabToken(L).bad = L.bad /\ GrabToken(L).kind = <<EOF>>
<1>1. EOF \notin Digits /\ EOF \notin Letters  BY DigitsPlain, LettersPlain DEF Plain
<1>2. EOF \notin Singles /\ EOF # "'" /\ EOF # "\""  BY DEF EOF, Singles
<1>3. GrabToken(L) = Commit(L, <<EOF>>)  BY <1>1, <1>2 DEF GrabToken
<1>4. <<EOF>> \in Seq(Symbols)  BY DEF Symbols
<1>5. /\ Same(L, Commit(L, <<EOF>>)) /\ Commit(L, <<EOF>>).bad = L.bad
      /\ Commit(L, <<EOF>>).kind = <<EOF>>
  BY <1>4, CommitIs
<1> QED  BY <1>3, <1>5

(* A character tells which scanner is called. *)
LEMMA FirstsApart ==
  /\ \A c \in Digits : c \notin Letters \cup Singles \cup {"'", "\""}
  /\ \A c \in Letters : c \notin Digits \cup Singles \cup {"'", "\""}
  /\ "'" \notin Singles /\ "\"" \notin Singles
<1>1. ToSet(HexLow) = {"a", "b", "c", "d", "e", "f"}  BY DEF ToSet, HexLow
<1>2. ToSet(HexHigh) = {"A", "B", "C", "D", "E", "F"}  BY DEF ToSet, HexHigh
<1>3. \A c \in Letters : c \notin Digits
  <2>1. \A c \in HexDigits \ Digits : c \notin Digits  OBVIOUS
  <2>2. \A c \in Letters \ (HexDigits \ Digits) : c \notin Digits
    <3> DEFINE M == {"g", "h", "i", "j", "k", "l", "m", "n", "o", "p", "q", "r", "s", "t",
                     "u", "v", "w", "x", "y", "z", "G", "H", "I", "J", "K", "L", "M", "N",
                     "O", "P", "Q", "R", "S", "T", "U", "V", "W", "X", "Y", "Z", "_"}
    <3>1. Letters = (HexDigits \ Digits) \cup M  BY DEF Letters
    <3>2. \A c \in Digits : c \notin M  BY DEF Digits
    <3> HIDE DEF M
    <3> QED  BY <3>1, <3>2, Zenon
  <2> QED  BY <2>1, <2>2
<1>4. \A c \in Letters : c \notin Singles \cup {"'", "\""}
  <2>1. \A c \in HexDigits \ Digits : c \notin Singles \cup {"'", "\""}
    BY <1>1, <1>2 DEF HexDigits, Singles
  <2>2. ASSUME NEW c \in Singles \cup {"'", "\""} PROVE c \notin Letters
    <3>1. c \notin HexDigits \ Digits  BY <2>1
    <3>2. c \in {"*", "@", "}", "]", "^", ",", ")", "$", ".", "GRAVE"} => c \notin Letters
      BY <3>1 DEF Letters
    <3>3. c \in {"-", "{", "[", "(", "%", "+", "?", ";", "#", "~"} => c \notin Letters
      BY <3>1 DEF Letters
    <3>4. c \in {"<", ">", ":", "=", "!", "&", "|", "/", "'", "\""} => c \notin Letters
      BY <3>1 DEF Letters
    <3> QED  BY <3>2, <3>3, <3>4 DEF Singles
  <2> QED  BY <2>2
<1>5. \A c \in Digits : c \notin Singles \cup {"'", "\""}  BY DEF Digits, Singles
<1>6. "'" \notin Singles /\ "\"" \notin Singles  BY DEF Singles
<1> QED  BY <1>3, <1>4, <1>5, <1>6

(* At the first character of a token, known or not *)
LEMMA TokenReached ==
  ASSUME NEW T \in Seq(Chars), NEW b \in Int, NEW L, NEW k, Settled(T, b, L, k)
  PROVE  Reached(T, b, GrabToken(L), k)
<1> DEFINE g == Grab(L)
           word == GrabIdent(L)
           kind == IF word.lexeme \in Keywords THEN word.lexeme ELSE <<"IDENT">>
<1>0. k \in 1 .. Len(T) /\ Near(T, b, L, k) /\ Len(T) \in Nat  BY StopNear
<1>1. L \in Lexer /\ k \in Nat /\ k \in k .. Len(T) /\ L.cc # EOF
  <2>1. L.cc = T[k] /\ T[k] \in Chars  BY <1>0 DEF Settled
  <2> QED  BY <1>0, <2>1, CharsAssumption DEF Near, Rest
<1>2. Ahead(T, b, g, k) /\ g \in Lexer  BY <1>1, GrabSettled, GrabIs
<1>3. \/ L.cc = "'" /\ GrabToken(L) = Commit(GrabChr(L), <<"CHR">>)
      \/ GrabToken(L) = Commit(GrabStr[PutC(Cleared(L))], <<"STR">>)
      \/ GrabToken(L) = Commit(GrabNumber(L), <<"NUMBER">>)
      \/ GrabToken(L) = Commit(word, kind)
      \/ <<L.cc, g.cc>> \in Doubles /\ GrabToken(L) = Commit(g, <<L.cc, g.cc>>)
      \/ GrabToken(L) = Commit(L, <<L.cc>>)
      \/ GrabToken(L) = L
  <2>1. CASE L.cc = "'"  BY <1>1, <2>1, FirstsApart DEF GrabToken
  <2>2. CASE L.cc = "\""  BY <1>1, <2>2, FirstsApart DEF GrabToken
  <2>3. CASE L.cc \in Digits  BY <1>1, <2>3, FirstsApart DEF GrabToken
  <2>4. CASE L.cc \in Letters  BY <1>1, <2>4, FirstsApart DEF GrabToken
  <2>5. CASE L.cc \in Singles /\ <<L.cc, g.cc>> \in Doubles
    BY <1>1, <2>5, FirstsApart DEF GrabToken
  <2>6. CASE L.cc \in Singles /\ <<L.cc, g.cc>> \notin Doubles
    BY <1>1, <2>6, FirstsApart DEF GrabToken
  <2>7. CASE L.cc \notin Digits \cup Letters \cup Singles \cup {"'", "\""}
    BY <1>1, <2>7 DEF GrabToken
  <2> QED  BY <2>1, <2>2, <2>3, <2>4, <2>5, <2>6, <2>7
<1> HIDE DEF g, word, kind
<1>4. L.cc \in Symbols /\ g.cc \in Symbols
  BY <1>1, <1>2, LexerFields DEF Symbols
<1>5. /\ <<"CHR">> \in Seq(Symbols) /\ <<"STR">> \in Seq(Symbols) /\ <<"NUMBER">> \in Seq(Symbols)
      /\ <<"IDENT">> \in Seq(Symbols) /\ <<L.cc>> \in Seq(Symbols) /\ <<L.cc, g.cc>> \in Seq(Symbols)
  <2>1. "CHR" \in Symbols /\ "STR" \in Symbols /\ "NUMBER" \in Symbols /\ "IDENT" \in Symbols
    BY DEF Symbols
  <2> QED  BY <1>4, <2>1
<1>6. CASE L.cc = "'" /\ GrabToken(L) = Commit(GrabChr(L), <<"CHR">>)
  <2>1. Reached(T, b, GrabChr(L), k)  BY <1>6, ChrReached
  <2> QED  BY <1>5, <1>6, <2>1, CommitReached
<1>7. CASE GrabToken(L) = Commit(GrabStr[PutC(Cleared(L))], <<"STR">>)
  <2>1. Settled(T, b, PutC(Cleared(L)), k)  BY PutSettled
  <2>2. Took(T, b, GrabStr[PutC(Cleared(L))], k)  BY <2>1, StrTook
  <2>3. Reached(T, b, GrabStr[PutC(Cleared(L))], k)  BY <1>1, <2>2, TookReached
  <2> QED  BY <1>5, <1>7, <2>3, CommitReached
<1>8. CASE GrabToken(L) = Commit(GrabNumber(L), <<"NUMBER">>)
  <2>1. Reached(T, b, GrabNumber(L), k)  BY NumberReached
  <2> QED  BY <1>5, <1>8, <2>1, CommitReached
<1>9. CASE GrabToken(L) = Commit(word, kind)
  <2>1. Reached(T, b, word, k)  BY IdentReached DEF word
  <2>2. word \in Lexer  BY <2>1 DEF Reached, Near, Rest
  <2>3. kind \in Seq(Symbols)  BY <1>5, <2>2, LexerFields DEF kind
  <2> QED  BY <1>9, <2>1, <2>3, CommitReached
<1>10. CASE <<L.cc, g.cc>> \in Doubles /\ GrabToken(L) = Commit(g, <<L.cc, g.cc>>)
  <2>1. g.cc \in {"<", ">", ":", "=", "&", "|"}
    <3>1. PICK d \in Doubles : d = <<L.cc, g.cc>>  BY <1>10
    <3>2. d[2] \in {"<", ">", ":", "=", "&", "|"} /\ d[2] = g.cc  BY <3>1 DEF Doubles
    <3> QED  BY <3>2
  <2>2. g.cc # EOF /\ g.cc # "\n"  BY <2>1 DEF EOF
  <2>3. k + 1 \in 1 .. Len(T) /\ Settled(T, b, g, k + 1)  BY <1>2, <2>2, AcceptAhead
  <2>4. Near(T, b, g, k + 1) /\ k + 1 \in k .. Len(T)  BY <1>1, <2>3, StopNear
  <2>5. Reached(T, b, g, k)  BY <1>1, <2>4, TookReached
  <2> QED  BY <1>5, <1>10, <2>5, CommitReached
<1>11. CASE GrabToken(L) = Commit(L, <<L.cc>>)
  <2>1. Reached(T, b, L, k)  BY <1>0, <1>1, TookReached
  <2> QED  BY <1>5, <1>11, <2>1, CommitReached
<1>12. CASE GrabToken(L) = L  BY <1>0, <1>1, <1>12, TookReached
<1> QED  BY <1>3, <1>6, <1>7, <1>8, <1>9, <1>10, <1>11, <1>12

LEMMA FirstLine ==
  ASSUME NEW T \in Seq(Chars)
  PROVE  Lines(T, 1) = 1 /\ SubSeq(T, 1, Len(T)) = T
<1>1. {i \in DOMAIN T : i < 1 /\ T[i] = "\n"} = {}  OBVIOUS
<1>2. Lines(T, 1) = 1 + Cardinality({})  BY <1>1, Zenon DEF Lines
<1>3. Cardinality({}) = 0  BY FS_EmptySet
<1>4. Lines(T, 1) = 1  BY <1>2, <1>3
<1>5. SubSeq(T, 1, Len(T)) = T  OBVIOUS
<1> QED  BY <1>4, <1>5

(* Every lexer stands at the beginning of what it delivers. *)
LEMMA AnyNear ==
  ASSUME NEW L \in Lexer
  PROVE  L.rest \in Seq(Chars) /\ L.ln - 1 \in Int /\ Near(L.rest, L.ln - 1, L, 0)
<1>1. L.rest \in Seq(Chars) /\ L.ln \in Int  BY LexerFields
<1>2. PICK T \in Seq(Chars), n \in Int : T = L.rest /\ n = L.ln  BY <1>1
<1>3. Lines(T, 1) = 1 /\ SubSeq(T, 1, Len(T)) = T /\ Len(T) \in Nat  BY FirstLine
<1>4. n = (n - 1) + Lines(T, 0 + 1) /\ 0 \in 0 .. Len(T) /\ SubSeq(T, 0 + 1, Len(T)) = T  BY <1>3
<1>5. Near(T, n - 1, L, 0)  BY <1>2, <1>4 DEF Near, Rest, LineAt
<1> QED  BY <1>2, <1>5

(* What an error leaves is skipped up to the end of the line. *)
LEMMA RecoveredReached ==
  ASSUME NEW T \in Seq(Chars), NEW b \in Int, NEW t, NEW k \in Nat, Reached(T, b, t, k),
         NEW kind \in Seq(Symbols)
  PROVE  /\ Recovered(t, kind) \in Lexer /\ ~Recovered(t, kind).bad
         /\ Reached(T, b, Recovered(t, kind), k)
<1> DEFINE u == [t EXCEPT !.bad = FALSE, !.kind = kind, !.errors = @ + 1]
<1>1. PICK j \in k .. Len(T) : Near(T, b, t, j)  BY DEF Reached
<1>2. t \in Lexer  BY <1>1 DEF Near, Rest
<1>3. t.lexeme \in Seq(Symbols) /\ t.size \in Int /\ t.errors \in Nat  BY <1>2, LexerFields
<1>4. u = [t EXCEPT !.kind = kind, !.lexeme = t.lexeme, !.size = t.size, !.bad = FALSE,
                    !.errors = t.errors + 1]
  BY <1>2 DEF Lexer
<1>5. [t EXCEPT !.kind = kind, !.lexeme = t.lexeme, !.size = t.size, !.bad = FALSE,
                !.errors = t.errors + 1] \in Lexer
  <2>1. t.errors + 1 \in Nat /\ FALSE \in BOOLEAN  BY <1>3
  <2> QED  BY <1>2, <1>3, <2>1, LexerTold
<1>6. Same(t, u) /\ u.bad = FALSE  BY <1>2, <1>4, <1>5 DEF Lexer, Same
<1>7. Recovered(t, kind) = SkipLine(u)  BY DEF Recovered
<1> HIDE DEF u
<1>8. Near(T, b, u, j)  BY <1>1, <1>6, SamePlace
<1>9. /\ SkipLine(u) \in Lexer /\ SkipLine(u).bad = u.bad
      /\ \E i \in j .. Len(T) : Near(T, b, SkipLine(u), i)
  BY <1>8, SkipLineNear
<1>10. Reached(T, b, SkipLine(u), k)
  <2>1. PICK i \in j .. Len(T) : Near(T, b, SkipLine(u), i)  BY <1>9
  <2>2. i \in k .. Len(T)  BY <1>1, <2>1
  <2> QED  BY <2>1, <2>2 DEF Reached
<1> QED  BY <1>6, <1>7, <1>9, <1>10

(* One round of nnc_lex_next *)
Round(T, b, L, k, s, t) ==
  /\ s \in Lexer /\ t \in Lexer
  /\ s.cc = EOF => t.bad = L.bad /\ t.kind = <<EOF>> /\ t.cc = EOF /\ Reached(T, b, t, k)
  /\ s.cc # EOF => L.cc # EOF /\ Reached(T, b, t, k + 1)
  /\ IsComment(s) => /\ SkipLine(Grab(s)) \in Lexer /\ SkipLine(Grab(s)).bad = L.bad
                     /\ s.cc # EOF /\ Reached(T, b, SkipLine(Grab(s)), k + 1)

LEMMA LexRound ==
  ASSUME NEW T \in Seq(Chars), NEW b \in Int, NEW L, NEW k, Near(T, b, L, k)
  PROVE  Round(T, b, L, k, Skip[L], GrabToken(Skip[L]))
<1>0. k \in 0 .. Len(T) /\ Len(T) \in Nat /\ k \in Nat  BY DEF Near, Rest
<1>1. /\ Skip[L] \in Lexer /\ Skip[L].bad = L.bad
      /\ Skip[L].cc = EOF => \E j \in k .. Len(T) : Near(T, b, Skip[L], j)
      /\ Skip[L].cc # EOF => /\ L.cc # EOF
                             /\ \E j \in k + 1 .. Len(T) : Settled(T, b, Skip[L], j)
  BY SkipNear
<1>2. PICK s \in Lexer : s = Skip[L]  BY <1>1
<1>3. CASE s.cc = EOF
  <2>1. Same(s, GrabToken(s)) /\ GrabToken(s).bad = s.bad /\ GrabToken(s).kind = <<EOF>>
    BY <1>3, TokenAtEnd
  <2>2. PICK j \in k .. Len(T) : Near(T, b, s, j)  BY <1>1, <1>2, <1>3
  <2>3. Near(T, b, GrabToken(s), j)  BY <2>1, <2>2, SamePlace
  <2>4. Reached(T, b, GrabToken(s), k)  BY <2>3 DEF Reached
  <2>5. ~IsComment(s)  BY <1>3 DEF IsComment, EOF
  <2> QED  BY <1>1, <1>2, <1>3, <2>1, <2>4, <2>5 DEF Round, Same
<1>4. CASE s.cc # EOF
  <2>1. PICK j \in k + 1 .. Len(T) : Settled(T, b, s, j)  BY <1>1, <1>2, <1>4
  <2>2. k + 1 \in Nat /\ j \in Nat /\ j \in j .. Len(T)  BY <1>0, <2>1
  <2>3. Reached(T, b, GrabToken(s), j)  BY <2>1, TokenReached
  <2>4. Reached(T, b, GrabToken(s), k + 1)  BY <2>1, <2>2, <2>3, TookReached
  <2>5. GrabToken(s) \in Lexer  BY <2>3 DEF Reached, Near, Rest
  <2>6. ASSUME IsComment(s)
        PROVE  /\ SkipLine(Grab(s)) \in Lexer /\ SkipLine(Grab(s)).bad = L.bad
               /\ Reached(T, b, SkipLine(Grab(s)), k + 1)
    <3>1. Ahead(T, b, Grab(s), j) /\ Grab(s).bad = s.bad  BY <2>1, GrabSettled
    <3>2. Grab(s).cc # EOF /\ Grab(s).cc # "\n"  BY <2>6 DEF IsComment, EOF
    <3>3. j + 1 \in 1 .. Len(T) /\ Settled(T, b, Grab(s), j + 1)  BY <3>1, <3>2, AcceptAhead
    <3>4. Near(T, b, Grab(s), j + 1)  BY <3>3, StopNear
    <3>5. /\ SkipLine(Grab(s)) \in Lexer /\ SkipLine(Grab(s)).bad = Grab(s).bad
          /\ \E i \in j + 1 .. Len(T) : Near(T, b, SkipLine(Grab(s)), i)
      BY <3>4, SkipLineNear
    <3>6. PICK i \in j + 1 .. Len(T) : Near(T, b, SkipLine(Grab(s)), i)  BY <3>5
    <3>7. i \in k + 1 .. Len(T)  BY <1>0, <2>1, <3>6
    <3>8. Reached(T, b, SkipLine(Grab(s)), k + 1)  BY <3>6, <3>7 DEF Reached
    <3> QED  BY <1>1, <1>2, <3>1, <3>5, <3>8
  <2> QED  BY <1>1, <1>2, <1>4, <2>4, <2>5, <2>6 DEF Round
<1> QED  BY <1>3, <1>4

(* What is left shrinks with every round. *)
LEMMA ReachedLess ==
  ASSUME NEW T \in Seq(Chars), NEW b \in Int, NEW L, NEW M, NEW j \in Nat, Near(T, b, L, j),
         L.cc # EOF, Reached(T, b, M, j + 1)
  PROVE  Left(M) < Left(L)
<1>0. j \in 0 .. Len(T) /\ Len(T) \in Nat  BY DEF Near, Rest
<1>1. PICK i \in j + 1 .. Len(T) : Near(T, b, M, i)  BY DEF Reached
<1>2. Left(L) = Len(T) - j + 1  BY LeftNear
<1>3. M.cc # EOF => Left(M) = Len(T) - i + 1  BY <1>1, LeftNear
<1>4. M.cc = EOF => Left(M) = 0  BY DEF Left
<1> QED  BY <1>0, <1>1, <1>2, <1>3, <1>4

(* A call of nnc_lex_next ends between two tokens.  It has taken characters *)
(* unless it was at the end of the file.                                    *)
Called(T, b, L, k, N) ==
  /\ N \in Lexer /\ ~N.bad
  /\ \E j \in k .. Len(T) :
       Near(T, b, N, j) /\ (N.kind # <<EOF>> \/ N.cc # EOF => L.cc # EOF /\ j >= k + 1)

LEMMA LexNextCalled ==
  ASSUME NEW T \in Seq(Chars), NEW b \in Int, NEW L, NEW k, Near(T, b, L, k), ~L.bad
  PROVE  Called(T, b, L, k, LexNext[L])
<1> DEFINE s(l) == Skip[l]
           t(l) == GrabToken(s(l))
           Body(h, l) == CASE IsComment(s(l)) -> h[SkipLine(Grab(s(l)))]
                           [] ~IsComment(s(l)) /\ t(l).bad -> h[Recovered(t(l), s(l).kind)]
                           [] OTHER -> t(l)
           Eq(h) == h = [l \in Lexer |-> Body(h, l)]
           D == {l \in Lexer : IsComment(s(l)) \/ t(l).bad}
           step == [l \in D |-> IF IsComment(s(l)) THEN SkipLine(Grab(s(l)))
                                ELSE Recovered(t(l), s(l).kind)]
           out == [l \in Lexer |-> t(l)]
           I == {l \in Lexer : /\ ~l.bad /\ (L.cc = EOF => l.cc = EOF)
                               /\ \E j \in k .. Len(T) : Near(T, b, l, j)}
           m == [l \in Lexer |-> Left(l)]
           f == CHOOSE h : Eq(h)
<1>0. k \in 0 .. Len(T) /\ Len(T) \in Nat /\ k \in Nat /\ L \in Lexer  BY DEF Near, Rest
<1>1. LexNext = f  BY Zenon DEF LexNext
<1> HIDE DEF s, t, Body, Eq, D, step, out, I, m, f
<1>2. D \in SUBSET Lexer /\ step \in [D -> Lexer] /\ m \in [Lexer -> Nat] /\ I \in SUBSET Lexer
  <2>1. ASSUME NEW l \in D PROVE step[l] \in Lexer
    <3>1. l \in Lexer  BY DEF D
    <3>2. PICK U \in Seq(Chars), c \in Int : Near(U, c, l, 0)  BY <3>1, AnyNear
    <3>3. Round(U, c, l, 0, s(l), t(l))  BY <3>2, LexRound DEF s, t
    <3>4. CASE IsComment(s(l))
      <4>1. SkipLine(Grab(s(l))) \in Lexer  BY <3>3, <3>4 DEF Round
      <4> QED  BY <3>4, <4>1 DEF step
    <3>5. CASE ~IsComment(s(l))
      <4>1. s(l).kind \in Seq(Symbols)  BY <3>3, LexerFields DEF Round
      <4>2. Reached(U, c, t(l), 0) \/ Reached(U, c, t(l), 0 + 1)  BY <3>3 DEF Round
      <4>3. 0 \in Nat /\ 0 + 1 \in Nat  OBVIOUS
      <4>4. Recovered(t(l), s(l).kind) \in Lexer  BY <4>1, <4>2, <4>3, RecoveredReached
      <4> QED  BY <3>5, <4>4 DEF step
    <3> QED  BY <3>4, <3>5
  <2>2. ASSUME NEW l \in Lexer PROVE Left(l) \in Nat  BY LeftIs
  <2>3. step = [l \in D |-> step[l]]  BY DEF step
  <2> QED  BY <2>1, <2>2, <2>3 DEF D, m, I
<1>3. ASSUME NEW h PROVE IsLoop(h, Lexer, D, step, out) <=> Eq(h)
  <2>1. ASSUME NEW l \in Lexer PROVE (IF l \in D THEN h[step[l]] ELSE out[l]) = Body(h, l)
    <3>1. CASE IsComment(s(l))  BY <3>1 DEF Body, D, step
    <3>2. CASE ~IsComment(s(l)) /\ t(l).bad  BY <3>2 DEF Body, D, step
    <3>3. CASE ~IsComment(s(l)) /\ ~t(l).bad  BY <3>3 DEF Body, D, out
    <3> QED  BY <3>1, <3>2, <3>3
  <2>2. [l \in Lexer |-> IF l \in D THEN h[step[l]] ELSE out[l]] = [l \in Lexer |-> Body(h, l)]
    BY <2>1
  <2> QED  BY <2>2, Zenon DEF IsLoop, Eq
<1>4. \E h : Eq(h)  BY <1>2, <1>3, LoopSolved
<1>5. IsLoop(f, Lexer, D, step, out)
  <2>1. Eq(f)  BY <1>4, Zenon DEF f
  <2> QED  BY <1>3, <2>1
<1>6. ASSUME NEW l \in I \cap D PROVE step[l] \in I /\ m[step[l]] < m[l]
  <2>0. l \in Lexer /\ ~l.bad  BY DEF D, I
  <2>1. PICK j \in k .. Len(T) : Near(T, b, l, j)  BY DEF I
  <2>2. Round(T, b, l, j, s(l), t(l))  BY <2>1, LexRound DEF s, t
  <2>3. s(l).cc # EOF  BY <2>0, <2>2 DEF D, Round
  <2>4. l.cc # EOF /\ L.cc # EOF /\ Reached(T, b, t(l), j + 1)  BY <2>2, <2>3 DEF Round, I
  <2>5. j \in Nat /\ j + 1 \in Nat  BY <1>0, <2>1
  <2>6. /\ step[l] \in Lexer /\ ~step[l].bad /\ Reached(T, b, step[l], j + 1)
    <3>1. CASE IsComment(s(l))
      <4>1. step[l] = SkipLine(Grab(s(l)))  BY <3>1 DEF step
      <4> QED  BY <2>0, <2>2, <3>1, <4>1 DEF Round
    <3>2. CASE ~IsComment(s(l))
      <4>1. step[l] = Recovered(t(l), s(l).kind)  BY <3>2 DEF step
      <4>2. s(l).kind \in Seq(Symbols)  BY <2>2, LexerFields DEF Round
      <4> QED  BY <2>4, <2>5, <4>1, <4>2, RecoveredReached
    <3> QED  BY <3>1, <3>2
  <2>7. Left(step[l]) < Left(l)  BY <2>1, <2>4, <2>5, <2>6, ReachedLess
  <2>8. m[step[l]] = Left(step[l]) /\ m[l] = Left(l)  BY <2>0, <2>6 DEF m
  <2>9. PICK i \in j + 1 .. Len(T) : Near(T, b, step[l], i)  BY <2>6 DEF Reached
  <2>10. i \in k .. Len(T)  BY <1>0, <2>1, <2>9
  <2>11. step[l] \in I  BY <2>4, <2>6, <2>9, <2>10 DEF I
  <2> QED  BY <2>7, <2>8, <2>11
<1>7. L \in I
  <2>1. k \in k .. Len(T)  BY <1>0
  <2> QED  BY <1>0, <2>1 DEF I
<1>8. PICK y \in I \ D : f[L] = out[y]  BY <1>2, <1>5, <1>6, <1>7, LoopEnds
<1>9. y \in Lexer /\ ~y.bad /\ LexNext[L] = t(y) /\ ~t(y).bad /\ (L.cc = EOF => y.cc = EOF)
  BY <1>1, <1>8 DEF I, D, out
<1>10. PICK j \in k .. Len(T) : Near(T, b, y, j)  BY DEF I
<1>11. Round(T, b, y, j, s(y), t(y))  BY <1>10, LexRound DEF s, t
<1>12. CASE s(y).cc = EOF
  <2>1. t(y) \in Lexer /\ t(y).kind = <<EOF>> /\ t(y).cc = EOF /\ Reached(T, b, t(y), j)
    BY <1>11, <1>12 DEF Round
  <2>2. PICK i \in j .. Len(T) : Near(T, b, t(y), i)  BY <2>1 DEF Reached
  <2>3. i \in k .. Len(T)  BY <1>0, <1>10, <2>2
  <2> QED  BY <1>9, <2>1, <2>2, <2>3 DEF Called
<1>13. CASE s(y).cc # EOF
  <2>1. t(y) \in Lexer /\ L.cc # EOF /\ Reached(T, b, t(y), j + 1)  BY <1>9, <1>11, <1>13 DEF Round
  <2>2. PICK i \in j + 1 .. Len(T) : Near(T, b, t(y), i)  BY <2>1 DEF Reached
  <2>3. i \in k .. Len(T) /\ i >= k + 1  BY <1>0, <1>10, <2>2
  <2> QED  BY <1>9, <2>1, <2>2, <2>3 DEF Called
<1> QED  BY <1>12, <1>13

-----------------------------------------------------------------------------
(* The window of the parser *)

LEMMA TokenIs ==
  ASSUME NEW l \in Lexer
  PROVE  Token(l) \in Tokens /\ Token(l).kind = l.kind
<1>1. /\ l.kind \in Seq(Symbols) /\ l.lexeme \in Seq(Symbols) /\ l.size \in Int /\ l.ln \in Int
      /\ l.ch \in Int
  BY LexerFields
<1> QED  BY <1>1 DEF Token, Tokens

LEMMA WindowFields ==
  ASSUME NEW P \in Windows
  PROVE  P.lex \in Lexer /\ ~P.lex.bad /\ P.current \in Tokens /\ P.lookup \in Tokens
BY DEF Windows

(* The lexer of a window is behind position N of the text, unless it is at  *)
(* the end and has nothing more to deliver.                                 *)
Far(T, P, N) ==
  \E k \in 0 .. Len(T) :
    Near(T, 0, P.lex, k) /\ (P.lex.cc # EOF \/ P.lookup.kind # <<EOF>> => k >= N)

LEMMA LexNextTyped ==
  ASSUME NEW P \in Windows
  PROVE  LexNext[P.lex] \in Lexer /\ ~LexNext[P.lex].bad
<1>1. P.lex \in Lexer /\ ~P.lex.bad  BY WindowFields
<1>2. PICK U \in Seq(Chars), c \in Int : Near(U, c, P.lex, 0)  BY <1>1, AnyNear
<1>3. Called(U, c, P.lex, 0, LexNext[P.lex])  BY <1>1, <1>2, LexNextCalled
<1> QED  BY <1>3 DEF Called

LEMMA FarNext ==
  ASSUME NEW T \in Seq(Chars), NEW P \in Windows, NEW N \in Nat, Far(T, P, N),
         NEW Q, Q.lex = LexNext[P.lex], Q.lookup = Token(LexNext[P.lex])
  PROVE  Far(T, Q, N + 1)
<1>1. PICK k \in 0 .. Len(T) :
        Near(T, 0, P.lex, k) /\ (P.lex.cc # EOF \/ P.lookup.kind # <<EOF>> => k >= N)
  BY DEF Far
<1>2. PICK l : l = LexNext[P.lex]  OBVIOUS
<1>3. Called(T, 0, P.lex, k, l)
  <2>1. ~P.lex.bad /\ 0 \in Int  BY WindowFields
  <2> QED  BY <1>1, <1>2, <2>1, LexNextCalled
<1>4. PICK j \in k .. Len(T) :
        Near(T, 0, l, j) /\ (l.kind # <<EOF>> \/ l.cc # EOF => P.lex.cc # EOF /\ j >= k + 1)
  BY <1>3 DEF Called
<1>5. Q.lex = l /\ Q.lookup.kind = l.kind  BY <1>2, <1>3, TokenIs DEF Called
<1>6. j \in 0 .. Len(T) /\ (l.kind # <<EOF>> \/ l.cc # EOF => j >= N + 1)  BY <1>1, <1>4
<1> QED  BY <1>4, <1>5, <1>6 DEF Far

LEMMA FarLess ==
  ASSUME NEW T \in Seq(Chars), NEW P, NEW N \in Nat, Far(T, P, N + 1)
  PROVE  Far(T, P, N)
BY DEF Far

LEMMA ShiftedIs ==
  ASSUME NEW P \in Windows, NEW l \in Lexer, ~l.bad
  PROVE  /\ Shifted(P, l) \in Windows /\ Shifted(P, l).lex = l /\ Shifted(P, l).lookup = Token(l)
         /\ Shifted(P, l).current = P.lookup
<1>1. P.lookup \in Tokens /\ Token(l) \in Tokens  BY WindowFields, TokenIs
<1> QED  BY <1>1 DEF Shifted, Windows

LEMMA JoinedIs ==
  ASSUME NEW P \in Windows, NEW l \in Lexer, ~l.bad
  PROVE  /\ Joined(P, l) \in Windows /\ Joined(P, l).lex = l /\ Joined(P, l).lookup = Token(l)
         /\ Joined(P, l).current.kind = P.current.kind
<1> DEFINE lexeme == Front(P.current.lexeme) \o SubSeq(P.lookup.lexeme, 2, Len(P.lookup.lexeme))
           size == P.current.size + P.lookup.size - 2
           current == [P.current EXCEPT !.lexeme = lexeme, !.size = size]
<1>1. P.current \in Tokens /\ P.lookup \in Tokens /\ Token(l) \in Tokens  BY WindowFields, TokenIs
<1>2. /\ P.current.lexeme \in Seq(Symbols) /\ P.lookup.lexeme \in Seq(Symbols)
      /\ P.current.size \in Int /\ P.lookup.size \in Int
  BY <1>1 DEF Tokens
<1>3. lexeme \in Seq(Symbols)
  <2>1. Front(P.current.lexeme) \in Seq(Symbols)  BY <1>2 DEF Front
  <2>2. SubSeq(P.lookup.lexeme, 2, Len(P.lookup.lexeme)) \in Seq(Symbols)  BY <1>2
  <2> QED  BY <2>1, <2>2
<1>4. size \in Int  BY <1>2
<1>5. Joined(P, l) = [lex |-> l, lookup |-> Token(l), current |-> current]
  BY <1>1 DEF Joined, Tokens
<1> HIDE DEF lexeme, size
<1>6. current \in Tokens /\ current.kind = P.current.kind  BY <1>1, <1>3, <1>4 DEF Tokens
<1> HIDE DEF current
<1> QED  BY <1>1, <1>5, <1>6 DEF Windows

(* nnc_parser_concat_str ends, and reads on from where the window is. *)
LEMMA ConcatFar ==
  ASSUME NEW T \in Seq(Chars), NEW W \in Windows, NEW N \in Nat, Far(T, W, N)
  PROVE  /\ ConcatStr[W] \in Windows /\ Far(T, ConcatStr[W], N)
         /\ ConcatStr[W].current.kind = W.current.kind
<1> DEFINE Twice(P) == P.current.kind = <<"STR">> /\ P.lookup.kind = <<"STR">>
           J(P) == Joined(P, LexNext[P.lex])
           Eq(h) == h = [P \in Windows |-> IF Twice(P) THEN h[J(P)] ELSE P]
           D == {P \in Windows : Twice(P)}
           step == [P \in D |-> J(P)]
           out == [P \in Windows |-> P]
           I == {P \in Windows : Far(T, P, N) /\ P.current.kind = W.current.kind}
           Str(P) == IF P.lookup.kind = <<"STR">> THEN 1 ELSE 0
           m == [P \in Windows |-> Left(P.lex) + Str(P)]
           f == CHOOSE h : Eq(h)
<1>1. ConcatStr = f  BY Zenon DEF ConcatStr
<1> HIDE DEF Twice, J, Eq, D, step, out, I, Str, m, f
<1>2. D \in SUBSET Windows /\ step \in [D -> Windows] /\ m \in [Windows -> Nat] /\ I \in SUBSET Windows
  <2>1. ASSUME NEW P \in Windows PROVE J(P) \in Windows  BY LexNextTyped, JoinedIs DEF J
  <2>2. ASSUME NEW P \in Windows PROVE Left(P.lex) + Str(P) \in Nat
    <3>1. Left(P.lex) \in Nat  BY WindowFields, LeftIs
    <3>2. Str(P) \in Nat  BY DEF Str
    <3> QED  BY <3>1, <3>2
  <2> QED  BY <2>1, <2>2 DEF D, step, m, I
<1>3. ASSUME NEW h PROVE IsLoop(h, Windows, D, step, out) <=> Eq(h)
  <2>1. [P \in Windows |-> IF P \in D THEN h[step[P]] ELSE out[P]]
          = [P \in Windows |-> IF Twice(P) THEN h[J(P)] ELSE P]
    BY DEF D, step, out
  <2> QED  BY <2>1, Zenon DEF IsLoop, Eq
<1>4. \E h : Eq(h)  BY <1>2, <1>3, LoopSolved
<1>5. IsLoop(f, Windows, D, step, out)
  <2>1. Eq(f)  BY <1>4, Zenon DEF f
  <2> QED  BY <1>3, <2>1
<1>6. ASSUME NEW P \in I \cap D PROVE step[P] \in I /\ m[step[P]] < m[P]
  <2>1. P \in Windows /\ Far(T, P, N) /\ P.current.kind = W.current.kind /\ P.lookup.kind = <<"STR">>
    BY DEF I, D, Twice
  <2>2. PICK l \in Lexer : l = LexNext[P.lex] /\ ~l.bad  BY <2>1, LexNextTyped
  <2>3. /\ J(P) \in Windows /\ J(P).lex = l /\ J(P).lookup = Token(l)
        /\ J(P).current.kind = P.current.kind
    BY <2>1, <2>2, JoinedIs DEF J
  <2>4. Far(T, J(P), N + 1)  BY <2>1, <2>2, <2>3, FarNext
  <2>5. J(P) \in I  BY <2>1, <2>3, <2>4, FarLess DEF I
  <2>6. m[J(P)] = Left(l) + Str(J(P)) /\ m[P] = Left(P.lex) + 1 /\ step[P] = J(P)
    BY <2>1, <2>3 DEF m, step, Str
  <2>7. Str(J(P)) \in {0, 1} /\ (l.kind = <<EOF>> => Str(J(P)) = 0)
    <3>1. J(P).lookup.kind = l.kind  BY <2>3, TokenIs
    <3>2. <<EOF>> # <<"STR">>  BY DEF EOF
    <3> QED  BY <3>1, <3>2 DEF Str
  <2>8. PICK k \in 0 .. Len(T) : Near(T, 0, P.lex, k)  BY <2>1 DEF Far
  <2>9. Called(T, 0, P.lex, k, l)
    <3>1. ~P.lex.bad /\ 0 \in Int  BY <2>1, WindowFields
    <3> QED  BY <2>2, <2>8, <3>1, LexNextCalled
  <2>10. PICK j \in k .. Len(T) :
           Near(T, 0, l, j) /\ (l.kind # <<EOF>> \/ l.cc # EOF => P.lex.cc # EOF /\ j >= k + 1)
    BY <2>9 DEF Called
  <2>11. Left(P.lex) \in Nat /\ Left(l) \in Nat  BY <2>1, <2>2, WindowFields, LeftIs
  <2>12. CASE P.lex.cc = EOF
    <3>1. l.kind = <<EOF>> /\ l.cc = EOF  BY <2>10, <2>12
    <3>2. Left(l) = 0  BY <3>1 DEF Left
    <3> QED  BY <2>5, <2>6, <2>7, <2>11, <3>1, <3>2
  <2>13. CASE P.lex.cc # EOF
    <3>1. Left(P.lex) = Len(T) - k + 1 /\ Left(P.lex) >= 1  BY <2>8, <2>13, LeftNear
    <3>2. l.cc # EOF => Left(l) = Len(T) - j + 1 /\ j >= k + 1  BY <2>10, LeftNear
    <3>3. l.cc = EOF => Left(l) = 0  BY DEF Left
    <3>4. Left(l) < Left(P.lex)  BY <2>8, <2>10, <3>1, <3>2, <3>3
    <3> QED  BY <2>5, <2>6, <2>7, <2>11, <3>4
  <2> QED  BY <2>12, <2>13
<1>7. W \in I  BY DEF I
<1>8. PICK P \in I \ D : f[W] = out[P]
  <2>1. \A P \in I \cap D : step[P] \in I /\ m[step[P]] < m[P]  BY <1>6
  <2>2. \A P \in I : \E Q \in I \ D : f[P] = out[Q]  BY <1>2, <1>5, <2>1, LoopEnds
  <2> QED  BY <1>7, <2>2
<1>9. P \in Windows /\ Far(T, P, N) /\ P.current.kind = W.current.kind  BY DEF I
<1>10. ConcatStr[W] = P  BY <1>1, <1>8, <1>9 DEF out
<1> QED  BY <1>9, <1>10

(* nnc_parser_next *)
LEMMA ParserNextFar ==
  ASSUME NEW T \in Seq(Chars), NEW P \in Windows, NEW N \in Nat, Far(T, P, N)
  PROVE  /\ ParserNext(P, FALSE) \in Windows /\ Far(T, ParserNext(P, FALSE), N + 1)
         /\ ParserNext(P, FALSE).current.kind = P.lookup.kind
<1>1. PICK l \in Lexer : l = LexNext[P.lex] /\ ~l.bad  BY LexNextTyped
<1>2. PICK S \in Windows : S = Shifted(P, l)  BY <1>1, ShiftedIs
<1>3. S.lex = l /\ S.lookup = Token(l) /\ S.current = P.lookup  BY <1>1, <1>2, ShiftedIs
<1>4. Far(T, S, N + 1)  BY <1>1, <1>3, FarNext
<1>5. ParserNext(P, FALSE) = ConcatStr[S]  BY <1>1, <1>2 DEF ParserNext
<1>6. N + 1 \in Nat  OBVIOUS
<1> QED  BY <1>3, <1>4, <1>5, <1>6, ConcatFar

(* The first call reads one token more. *)
LEMMA FirstNextFar ==
  ASSUME NEW T \in Seq(Chars), NEW P \in Windows, NEW N \in Nat, Far(T, P, N)
  PROVE  \E Q \in Windows : Far(T, Q, N + 1) /\ ParserNext(P, TRUE) = ParserNext(Q, FALSE)
<1>1. PICK l \in Lexer : l = LexNext[P.lex] /\ ~l.bad  BY LexNextTyped
<1>2. PICK Q \in Windows : Q = Shifted(P, l)  BY <1>1, ShiftedIs
<1>3. Q.lex = l /\ Q.lookup = Token(l)  BY <1>1, <1>2, ShiftedIs
<1>4. Far(T, Q, N + 1)  BY <1>1, <1>3, FarNext
<1>5. ParserNext(P, TRUE) = ParserNext(Q, FALSE)  BY <1>1, <1>2 DEF ParserNext
<1> QED  BY <1>4, <1>5

-----------------------------------------------------------------------------
(* The reading of a file *)

(* Two tokens are read before the first is current, then one for one. *)
Behind(n) == IF n = 0 THEN 0 ELSE n + 1

ReadInv ==
  /\ text \in Seq(Chars) /\ window \in Windows /\ toks \in Seq(Tokens)
  /\ Far(text, window, Behind(Len(toks)))
  /\ Len(toks) =< Len(text) + 1
  /\ phase = "lex" => Len(toks) =< Len(text)

LEMMA ReadInvInit == ReadInit => ReadInv
<1> SUFFICES ASSUME ReadInit PROVE ReadInv  OBVIOUS
<1>1. text \in Seq(Chars) /\ toks = <<>> /\ toks \in Seq(Tokens) /\ Len(toks) = 0 /\ Len(text) \in Nat
  <2>1. text \in Seq(Chars)
    <3>1. text \in Texts \/ text = <<>>  BY DEF ReadInit
    <3>2. <<>> \in Seq(Chars)  OBVIOUS
    <3> QED  BY <3>1, <3>2, TextsAssumption
  <2>2. toks = <<>>  BY DEF ReadInit
  <2> QED  BY <2>1, <2>2
<1>2. PICK T \in Seq(Chars) : T = text  BY <1>1
<1>3. PICK L : L = NewLex(T)  OBVIOUS
<1>4. L = [rest |-> T, cc |-> "NUL", pc |-> "NUL", ln |-> 1, ch |-> 0, kind |-> <<"&">>,
           lexeme |-> <<>>, size |-> 0, bad |-> FALSE, errors |-> 0]
  BY <1>3 DEF NewLex
<1>5. <<"&">> \in Seq(Symbols) /\ <<>> \in Seq(Symbols) /\ "NUL" # EOF
  <2>1. "&" \in Symbols  BY DEF Symbols, Singles
  <2> QED  BY <2>1 DEF EOF
<1>6. L \in LexerRecord
  <2>1. 0 \in Int /\ 1 \in Int /\ 0 \in Nat  OBVIOUS
  <2> QED  BY <1>4, <1>5, <2>1, Zenon DEF LexerRecord
<1>7. L.rest = T /\ L.cc = "NUL" /\ L.ln = 1 /\ ~L.bad  BY <1>4
<1>8. L \in Lexer  BY <1>5, <1>6, <1>7, LexerIsRecord
<1>9. NoToken \in Tokens  BY <1>5 DEF NoToken, Tokens
<1>10. window = [lex |-> L, current |-> NoToken, lookup |-> NoToken]  BY <1>2, <1>3 DEF ReadInit
<1>11. window \in Windows /\ window.lex = L  BY <1>7, <1>8, <1>9, <1>10 DEF Windows
<1>12. Near(T, 0, L, 0) /\ 0 \in 0 .. Len(T)
  <2>1. Lines(T, 0 + 1) = 1 /\ SubSeq(T, 0 + 1, Len(T)) = T  BY FirstLine
  <2> QED  BY <1>7, <1>8, <2>1 DEF Near, Rest, LineAt
<1>13. Far(text, window, 0)  BY <1>2, <1>11, <1>12 DEF Far
<1> QED  BY <1>1, <1>11, <1>13 DEF ReadInv, Behind

LEMMA ReadInvNext == ReadInv /\ [ReadNext]_readVars => ReadInv'
<1> SUFFICES ASSUME ReadInv, [ReadNext]_readVars PROVE ReadInv'  OBVIOUS
<1>1. CASE UNCHANGED readVars  BY <1>1 DEF ReadInv, readVars, Far, Behind
<1>2. CASE EndOfReading
  <2>1. phase' = "done" /\ text' = text /\ window' = window /\ toks' = toks  BY <1>2 DEF EndOfReading
  <2> QED  BY <2>1 DEF ReadInv, Far, Behind
<1>3. CASE NextToken
  <2>1. PICK T \in Seq(Chars), P \in Windows, n \in Nat :
          T = text /\ P = window /\ n = Len(toks)
    BY DEF ReadInv
  <2>2. Len(T) \in Nat /\ Far(T, P, Behind(n)) /\ n =< Len(T) /\ toks \in Seq(Tokens)
    BY <1>3, <2>1 DEF ReadInv, NextToken
  <2>3. /\ window' = ParserNext(P, toks = <<>>) /\ toks' = Append(toks, window'.current)
        /\ phase' = (IF window'.current.kind = <<EOF>> THEN "parse" ELSE "lex") /\ text' = T
    BY <1>3, <2>1 DEF NextToken
  <2>4. toks = <<>> <=> n = 0  BY <2>1, <2>2, EmptySeq
  <2>5. PICK Q \in Windows : Far(T, Q, n + 1) /\ window' = ParserNext(Q, FALSE)
    <3>1. CASE n = 0
      <4>1. (toks = <<>>) = TRUE  BY <2>4, <3>1
      <4>2. window' = ParserNext(P, TRUE)  BY <2>3, <4>1
      <4>3. Far(T, P, 0)  BY <2>2, <3>1 DEF Behind
      <4> QED  BY <3>1, <4>2, <4>3, FirstNextFar
    <3>2. CASE n # 0
      <4>1. (toks = <<>>) = FALSE  BY <2>4, <3>2
      <4>2. window' = ParserNext(P, FALSE)  BY <2>3, <4>1
      <4>3. Far(T, P, n + 1)  BY <2>2, <3>2 DEF Behind
      <4> QED  BY <4>2, <4>3
    <3> QED  BY <3>1, <3>2
  <2>6. /\ window' \in Windows /\ Far(T, window', (n + 1) + 1)
        /\ window'.current.kind = Q.lookup.kind
    <3>1. n + 1 \in Nat  OBVIOUS
    <3> QED  BY <2>5, <3>1, ParserNextFar
  <2>7. toks' \in Seq(Tokens) /\ Len(toks') = n + 1
    <3>1. window'.current \in Tokens  BY <2>6, WindowFields
    <3> QED  BY <2>1, <2>2, <2>3, <3>1
  <2>8. Behind(n + 1) = (n + 1) + 1  BY DEF Behind
  <2>9. phase' = "lex" => n + 1 =< Len(T)
    <3> SUFFICES ASSUME phase' = "lex" PROVE n + 1 =< Len(T)  OBVIOUS
    <3>1. Q.lookup.kind # <<EOF>>  BY <2>3, <2>6
    <3>2. PICK k \in 0 .. Len(T) : k >= n + 1  BY <2>5, <3>1 DEF Far
    <3> QED  BY <2>2, <3>2
  <2>10. Far(text', window', Behind(Len(toks')))  BY <2>3, <2>6, <2>7, <2>8
  <2>11. Len(toks') =< Len(text') + 1 /\ (phase' = "lex" => Len(toks') =< Len(text'))
    BY <2>2, <2>3, <2>7, <2>9
  <2> QED  BY <2>1, <2>3, <2>6, <2>7, <2>10, <2>11 DEF ReadInv, Far, Behind
<1> QED  BY <1>1, <1>2, <1>3 DEF ReadNext

LEMMA ReadAlways == ReadSpec => []ReadInv
<1> QED  BY ReadInvInit, ReadInvNext, PTL DEF ReadSpec

(* nnc_lex_next takes characters in every call that does not find the end   *)
(* of the file, whatever the file holds and whatever the keywords are: a    *)
(* text never gives more tokens than it has characters, and the end.        *)
THEOREM LexerTokensBounded == ReadSpec => []TokensBounded
<1>1. ReadInv => TokensBounded  BY DEF ReadInv, TokensBounded
<1> QED  BY <1>1, ReadAlways, PTL

(* The characters that nnc_lex_undo has put back are those of the text:     *)
(* between two tokens the file delivers the text from some position on, and *)
(* hint_ln is the line of that position, for every file.                    *)
THEOREM LexerPositionTrue == ReadSpec => []PositionTrue
<1>1. ReadInv => PositionTrue
  <2> SUFFICES ASSUME ReadInv PROVE PositionTrue  OBVIOUS
  <2>1. PICK k \in 0 .. Len(text) : Near(text, 0, window.lex, k)  BY DEF ReadInv, Far
  <2>2. window.lex.rest = SubSeq(text, k + 1, Len(text))  BY <2>1 DEF Near, Rest
  <2>3. ASSUME window.lex.cc # EOF, ~Quoted(text) PROVE window.lex.ln = Lines(text, k + 1)
    <3>1. window.lex.ln = 0 + Lines(text, k + 1)  BY <2>1, <2>3 DEF Near, LineAt
    <3>2. Lines(text, k + 1) \in Int  BY LinesInt DEF ReadInv
    <3> QED  BY <3>1, <3>2
  <2> QED  BY <2>2, <2>3 DEF PositionTrue
<1> QED  BY <1>1, ReadAlways, PTL
=============================================================================
