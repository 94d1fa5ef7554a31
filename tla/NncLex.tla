------------------------------- MODULE NncLex -------------------------------
(***************************************************************************)
(* The lexer (src/src/nnc_lex.c), the parser's window on it                *)
(* (nnc_parser_next) and the literals that are made of lexemes             *)
(* (src/src/nnc_literal.c), as operators.                                  *)
(*                                                                         *)
(* A text is a sequence of one-character strings.  The lexer is a record:  *)
(* what the file still delivers (characters put back by ungetc included),  *)
(* the current and the previous character, the context (hint_ln, hint_ch), *)
(* the current token (kind, lexeme, size), whether a grab has just thrown, *)
(* and how many errors were shown.  The kind of an operator or a keyword   *)
(* is its spelling.                                                        *)
(***************************************************************************)
EXTENDS Integers, Sequences, SequencesExt, FiniteSetsExt

CONSTANTS Chars,       \* the characters of a file
          Keywords,    \* nnc_keywords
          MaxOf        \* the largest value of each suffix of an integer

EOF == "EOF"

ASSUME CharsAssumption == EOF \notin Chars

Digits == {"0", "1", "2", "3", "4", "5", "6", "7", "8", "9"}
HexLow == <<"a", "b", "c", "d", "e", "f">>
HexHigh == <<"A", "B", "C", "D", "E", "F">>
HexDigits == Digits \cup ToSet(HexLow) \cup ToSet(HexHigh)
Letters == (HexDigits \ Digits) \cup
  {"g", "h", "i", "j", "k", "l", "m", "n", "o", "p", "q", "r", "s", "t", "u", "v", "w", "x",
   "y", "z", "G", "H", "I", "J", "K", "L", "M", "N", "O", "P", "Q", "R", "S", "T", "U", "V",
   "W", "X", "Y", "Z", "_"}
Blanks == {" ", "BEL", "BS", "\f", "\t", "VT", "\r"}
Escapes == {"0", "a", "b", "f", "t", "v", "r", "n", "\\", "'", "\""}
Singles == {"*", "@", "}", "]", "^", ",", ")", "$", ".", "GRAVE", "-", "{", "[", "(", "%", "+", "?",
            ";", "#", "~", "<", ">", ":", "=", "!", "&", "|", "/"}
Doubles == {<<"<", "=">>, <<"<", "<">>, <<">", "=">>, <<">", ">">>, <<":", ":">>, <<"=", "=">>,
            <<"!", "=">>, <<"&", "&">>, <<"|", "|">>}
IntSizes == {<<"8">>, <<"1", "6">>, <<"3", "2">>, <<"6", "4">>}
FloatSizes == {<<"3", "2">>, <<"6", "4">>}
IntLetters == {"i", "u", "I", "U"}
FloatLetters == {"f", "F"}

Symbols == Chars \cup Singles \cup {EOF, "NUL", "CHR", "STR", "IDENT", "NUMBER"}

(* The lexers there are: what is behind the end of the file is nothing. *)
Lexer ==
  {L \in [rest : Seq(Chars), cc : Chars \cup {"NUL", EOF}, pc : Chars \cup {"NUL"}, ln : Int,
          ch : Int, kind : Seq(Symbols), lexeme : Seq(Symbols), size : Int, bad : BOOLEAN,
          errors : Nat] :
     L.cc = EOF => L.rest = <<>>}

NewLex(text) ==
  [rest |-> text, cc |-> "NUL", pc |-> "NUL", ln |-> 1, ch |-> 0, kind |-> <<"&">>,
   lexeme |-> <<>>, size |-> 0, bad |-> FALSE, errors |-> 0]

(* nnc_lex_grab *)
Grab(L) ==
  IF L.cc = EOF THEN L
  ELSE [L EXCEPT !.pc = L.cc, !.ch = @ + 1,
                 !.cc = IF L.rest = <<>> THEN EOF ELSE L.rest[1],
                 !.rest = IF L.rest = <<>> THEN <<>> ELSE Tail(L.rest)]

(* Mutant: the character before is put back, too. *)
Undo_OneMore(L) ==
  [L EXCEPT !.rest = <<L.pc>> \o (IF L.cc = EOF THEN @ ELSE <<L.cc>> \o @),
            !.cc = L.pc, !.ch = @ - 1]

(* nnc_lex_undo: ungetc(EOF) puts nothing back. *)
Undo(L) ==
  [L EXCEPT !.rest = IF L.cc = EOF THEN @ ELSE <<L.cc>> \o @, !.cc = L.pc, !.ch = @ - 1]

(* NNC_TOK_PUT_CC.  The source writes to lexeme[512] and does not ask for   *)
(* room (nor does nnc_parser_concat_str); a lexeme here is as long as it    *)
(* gets, so the model stands for files without longer ones.                 *)
PutC(L) == [L EXCEPT !.lexeme = Append(@, L.cc), !.size = @ + 1]
Cleared(L) == [L EXCEPT !.lexeme = <<>>, !.size = 0]
Throw(L) == [L EXCEPT !.bad = TRUE]

(* The lexeme grows while the characters are in S. *)
PutWhile(L, S) ==
  LET To[l \in Lexer] == IF Grab(l).cc \in S THEN To[PutC(Grab(l))] ELSE Grab(l)
  IN To[L]

(* nnc_lex_skip *)
Skip[L \in Lexer] ==
  LET g == Grab(L)
  IN CASE g.cc \in Blanks -> Skip[g]
       [] g.cc = "\n" -> Skip[[g EXCEPT !.ln = @ + 1, !.ch = 1]]
       [] OTHER -> g

(* The grabs of nnc_lex_skip_line *)
ToLineEnd[L \in Lexer] ==
  IF Grab(L).cc \in {EOF, "\n"} THEN Grab(L) ELSE ToLineEnd[Grab(L)]

SkipLine_NotCounted(L) == [ToLineEnd[L] EXCEPT !.ch = 1]

(* nnc_lex_skip_line *)
SkipLine(L) == [ToLineEnd[L] EXCEPT !.ln = @ + 1, !.ch = 1]

(* nnc_lex_grab_esc *)
GrabEsc(L) == IF L.cc \in Escapes THEN L ELSE Throw(Undo(L))

Closed(L, quote) == IF L.cc = quote THEN PutC(L) ELSE Throw(Undo(L))

(* nnc_lex_grab_chr *)
GrabChr(L) ==
  LET a == Grab(PutC(Cleared(L)))
      e == GrabEsc(Grab(PutC(a)))
  IN CASE a.cc = EOF -> Closed(a, "'")
       [] a.cc = "\\" -> IF e.bad THEN e ELSE Closed(Grab(PutC(e)), "'")
       [] OTHER -> Closed(Grab(PutC(a)), "'")

(* nnc_lex_grab_str, after the opening quote *)
GrabStr[L \in Lexer] ==
  LET g == Grab(L)
      e == GrabEsc(Grab(PutC(g)))
  IN CASE g.cc \in {EOF, "\n", "\""} -> Closed(g, "\"")
       [] g.cc = "\\" -> IF e.bad THEN e ELSE GrabStr[PutC(e)]
       [] OTHER -> GrabStr[PutC(g)]

(* nnc_lex_grab_int_suffix and nnc_lex_grab_float_suffix *)
GrabSuffix(L, letters, sizes) ==
  LET a == Grab(PutC(L))
      b == Grab(PutC(a))
  IN CASE L.cc \notin letters -> Undo(L)
       [] L.cc \in letters /\ <<a.cc>> \in sizes -> PutC(a)
       [] L.cc \in letters /\ \A s \in sizes : s[1] # a.cc -> Throw(Undo(a))
       [] OTHER -> IF <<a.cc, b.cc>> \in sizes THEN PutC(b) ELSE Throw(Undo(b))
IntSuffix(L) == IF L.cc = EOF THEN L ELSE GrabSuffix(L, IntLetters, IntSizes)

(* nnc_lex_grab_exponent, at the "e", and the suffix behind it *)
GrabExponent(L) ==
  LET sign == Grab(PutC(L))
  IN IF sign.cc \in {"+", "-"}
     THEN GrabSuffix(PutWhile(PutC(sign), Digits), FloatLetters, FloatSizes)
     ELSE Throw(Undo(sign))

(* nnc_lex_grab_float, at the dot *)
GrabFloat(L) ==
  LET g == PutWhile(PutC(L), Digits)
      end == CASE g.cc = EOF -> g
               [] g.cc \in {"e", "E"} -> GrabExponent(g)
               [] OTHER -> GrabSuffix(g, FloatLetters, FloatSizes)
  IN IF ~end.bad /\ g.size = L.size + 1 THEN Throw(Undo(end)) ELSE end

GrabBased(L, S) == IntSuffix(PutWhile(PutC(Cleared(L)), S))
GrabHex(L) == GrabBased(L, HexDigits)
GrabOct(L) == GrabBased(L, Digits \ {"8", "9"})
GrabBin(L) == GrabBased(L, {"0", "1"})
GrabDec(L) ==
  LET g == PutWhile(PutC(Cleared(L)), Digits)
  IN IF g.cc = "." THEN GrabFloat(g) ELSE IntSuffix(g)

(* nnc_lex_grab_number: the "0" of a prefix is not part of the lexeme. *)
GrabNumber(L) ==
  LET g == Grab(L)
  IN CASE L.cc # "0" -> GrabDec(L)
       [] L.cc = "0" /\ g.cc = "x" -> GrabHex(g)
       [] L.cc = "0" /\ g.cc = "o" -> GrabOct(g)
       [] L.cc = "0" /\ g.cc = "b" -> GrabBin(g)
       [] OTHER -> GrabDec(Undo(g))

GrabIdent_NoUndo(L) == PutWhile(PutC(Cleared(L)), Letters \cup Digits)
GrabIdent(L) == Undo(PutWhile(PutC(Cleared(L)), Letters \cup Digits))

Commit_KeepsSize(L, kind) == [L EXCEPT !.kind = kind]

(* nnc_lex_commit; the table of sizes has 1 for "==". *)
Commit(L, kind) ==
  LET sized == kind \in {<<"CHR">>, <<"STR">>, <<"IDENT">>, <<"NUMBER">>} \cup Keywords
  IN [L EXCEPT !.kind = kind,
               !.size = CASE sized -> @
                          [] kind = <<EOF>> -> 0
                          [] kind = <<"=", "=">> -> 1
                          [] OTHER -> Len(kind)]

(* One token at the character cc, as the switch of nnc_lex_next *)
GrabToken(L) ==
  LET g == Grab(L)
      word == GrabIdent(L)
  IN CASE L.cc = EOF -> Commit(L, <<EOF>>)
       [] L.cc = "'" -> Commit(GrabChr(L), <<"CHR">>)
       [] L.cc = "\"" -> Commit(GrabStr[PutC(Cleared(L))], <<"STR">>)
       [] L.cc \in Digits -> Commit(GrabNumber(L), <<"NUMBER">>)
       [] L.cc \in Letters -> Commit(word, IF word.lexeme \in Keywords THEN word.lexeme
                                           ELSE <<"IDENT">>)
       [] L.cc \in Singles /\ <<L.cc, g.cc>> \in Doubles -> Commit(g, <<L.cc, g.cc>>)
       [] L.cc \in Singles /\ <<L.cc, g.cc>> \notin Doubles -> Commit(L, <<L.cc>>)
       [] OTHER -> L

(* nnc_lex_next: a comment is skipped, an error is shown and the rest of    *)
(* its line skipped; a character that starts no token leaves the token of   *)
(* the call before in place.  A throw comes before the commit.              *)
IsComment(s) == s.cc = "/" /\ Grab(s).cc = "/"
Recovered(t, kind) == SkipLine([t EXCEPT !.bad = FALSE, !.kind = kind, !.errors = @ + 1])
LexNext[L \in Lexer] ==
  LET s == Skip[L]
      t == GrabToken(s)
  IN CASE IsComment(s) -> LexNext[SkipLine(Grab(s))]
       [] ~IsComment(s) /\ t.bad -> LexNext[Recovered(t, s.kind)]
       [] OTHER -> t

Token(L) == [kind |-> L.kind, lexeme |-> L.lexeme, size |-> L.size, ln |-> L.ln, ch |-> L.ch]

Tokens == [kind : Seq(Symbols), lexeme : Seq(Symbols), size : Int, ln : Int, ch : Int]
(* A throw has been caught when nnc_lex_next returns. *)
Windows == [lex : {L \in Lexer : ~L.bad}, current : Tokens, lookup : Tokens]

(* nnc_parser_concat_str, on a window of the parser *)
Joined(P, l) ==
  [lex |-> l, lookup |-> Token(l),
   current |-> [P.current EXCEPT !.lexeme = Front(@) \o SubSeq(P.lookup.lexeme, 2, Len(P.lookup.lexeme)),
                                 !.size = @ + P.lookup.size - 2]]
ConcatStr[P \in Windows] ==
  IF P.current.kind = <<"STR">> /\ P.lookup.kind = <<"STR">>
  THEN ConcatStr[Joined(P, LexNext[P.lex])] ELSE P

(* nnc_parser_next; the first call (is_first) reads two tokens. *)
Shifted(P, l) == [lex |-> l, current |-> P.lookup, lookup |-> Token(l)]
ParserNext(P, first) ==
  LET Q == IF first THEN Shifted(P, LexNext[P.lex]) ELSE P
  IN ConcatStr[Shifted(Q, LexNext[Q.lex])]

-----------------------------------------------------------------------------
(* A literal is [ok, suffix, value]: whether it was made without a throw,   *)
(* its suffix and its number or its characters.                             *)

(* strtoll and strtoull (external) read a digit. *)
DigitOf(c) ==
  CASE c \in Digits -> CHOOSE d \in 0 .. 9 : <<"0", "1", "2", "3", "4", "5", "6", "7", "8", "9">>[d + 1] = c
    [] c \in ToSet(HexLow) -> 9 + CHOOSE d \in 1 .. 6 : HexLow[d] = c
    [] OTHER -> 9 + CHOOSE d \in 1 .. 6 : HexHigh[d] = c

(* nnc_get_int_suffix and nnc_get_dbl_suffix: the last letter among the     *)
(* last three characters starts the suffix.                                 *)
GetSuffix(repr, letters) ==
  LET at == {k \in DOMAIN repr : k > Len(repr) - 3 /\ repr[k] \in letters}
  IN IF at = {} THEN <<>> ELSE SubSeq(repr, Max(at), Len(repr))

IsUnsigned(suffix) == suffix[1] \in {"u", "U"}
SmallLetter(suffix) == <<IF IsUnsigned(suffix) THEN "u" ELSE "i">> \o Tail(suffix)

IntNew_NoOctal(repr) ==
  LET met == GetSuffix(repr, IntLetters)
      suffix == IF met = <<>> THEN <<"i", "3", "2">> ELSE SmallLetter(met)
      base == CASE repr[1] = "x" -> 16 [] repr[1] = "b" -> 2 [] OTHER -> 10
      digits == SubSeq(repr, IF repr[1] \in Digits THEN 1 ELSE 2, Len(repr) - Len(met))
      n == FoldLeft(LAMBDA a, c : base * a + DigitOf(c), 0, digits)
      erange == n > MaxOf[<<suffix[1], "6", "4">>]
  IN [ok |-> ~erange /\ n <= MaxOf[suffix], suffix |-> suffix, value |-> n]

(* nnc_int_new and nnc_int_check_overflow; strtoll and strtoull fail above  *)
(* the largest 64-bit value.                                                *)
IntNew(repr) ==
  LET met == GetSuffix(repr, IntLetters)
      suffix == IF met = <<>> THEN <<"i", "3", "2">> ELSE SmallLetter(met)
      base == CASE repr[1] = "x" -> 16 [] repr[1] = "o" -> 8 [] repr[1] = "b" -> 2 [] OTHER -> 10
      digits == SubSeq(repr, IF base = 10 THEN 1 ELSE 2, Len(repr) - Len(met))
      n == FoldLeft(LAMBDA a, c : base * a + DigitOf(c), 0, digits)
      erange == n > MaxOf[<<suffix[1], "6", "4">>]
  IN [ok |-> ~erange /\ n <= MaxOf[suffix], suffix |-> suffix, value |-> n]

(* nnc_get_esc_chr *)
EscChr(c) == <<"esc", c>>
PlainChr(c) == <<"chr", c>>

(* nnc_chr_new *)
ChrNew(repr) == IF repr[2] # "\\" THEN PlainChr(repr[2]) ELSE EscChr(repr[3])

(* nnc_str_zip: [esc, chars] over the characters between the quotes; an     *)
(* escaped backslash sets esc_chr_met anew and is not kept, and any other   *)
(* character behind it is taken for an escape, which may abort.             *)
StrZip(repr) ==
  LET step(z, c) ==
        IF c = "\\" THEN [z EXCEPT !.esc = TRUE]
        ELSE [z EXCEPT !.esc = FALSE, !.abort = @ \/ (z.esc /\ c \notin Escapes),
                       !.chars = Append(@, IF z.esc THEN EscChr(c) ELSE PlainChr(c))]
  IN FoldLeft(step, [esc |-> FALSE, abort |-> FALSE, chars |-> <<>>],
              SubSeq(repr, 2, Len(repr) - 1))

(* nnc_str_new: bytes is strlen, so a "\0" ends the string. *)
StrNew(repr) ==
  LET z == StrZip(repr)
      nul == {k \in DOMAIN z.chars : z.chars[k] = EscChr("0")}
  IN [ok |-> ~z.abort, value |-> IF nul = {} THEN z.chars ELSE SubSeq(z.chars, 1, Min(nul) - 1)]
=============================================================================
