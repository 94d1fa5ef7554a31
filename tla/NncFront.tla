------------------------------ MODULE NncFront ------------------------------
(***************************************************************************)
(* The front end: a text is read token by token (NncReader) and the parser *)
(* makes trees of expressions of its tokens (NncExpr).                     *)
(*                                                                         *)
(* A behaviour starts with a text, or with tokens that are the text of a   *)
(* tree or any others.                                                     *)
(***************************************************************************)
EXTENDS NncReader, NncExpr

CONSTANTS Trees,       \* trees whose text is parsed
          Inputs,      \* other sequences of tokens
          Spell        \* the tokens of NncExpr for the kinds of NncLex

VARIABLES source,      \* <<>>, or <<the tree that tokens is the text of>>
          tokens,      \* toks as the parser tells them apart
          result       \* a parse

vars == <<text, window, toks, literals, source, tokens, result, phase>>

Init ==
  /\ ReadInit
  /\ \/ phase = "lex" /\ source = <<>> /\ tokens = <<>>
     \/ phase = "parse" /\ \E t \in Trees : source = <<t>> /\ tokens = Text(t)
     \/ phase = "parse" /\ source = <<>> /\ tokens \in Inputs
  /\ result = Fail(1)

(* A token is read and told apart. *)
ReadToken ==
  /\ NextToken
  /\ tokens' = LET t == window'.current
               IN IF t.kind = <<EOF>> THEN tokens
                  ELSE Append(tokens, Spell[IF IsLiteral(t) THEN <<"NUMBER">> ELSE t.kind])
  /\ UNCHANGED <<source, result>>

(* nnc_parse_expr; a literal that throws ends it. *)
Parse ==
  \E p \in {ParseExpr(tokens, 1)} :
     /\ EndOfReading
     /\ LET thrown == {i \in DOMAIN literals : i < p.at /\ ~literals[i].ok}
        IN result' = IF thrown = {} THEN p ELSE Fail(Min(thrown))
     /\ UNCHANGED <<source, tokens>>

Done == phase = "done" /\ UNCHANGED vars

Next == ReadToken \/ Parse \/ Done

Spec == Init /\ [][Next]_vars

-----------------------------------------------------------------------------
(* What the lexemes are, said without a lexer: numbers as nnc.ebnf:32-51    *)
(* has them (a prefix has a digit behind it), floats besides, and between   *)
(* quotes also the characters that its "character" leaves out (a blank, a   *)
(* slash, the other quote).                                                 *)
Every(s, S) == ToSet(s) \subseteq S
Suffixed(s, letters, sizes) ==
  s = <<>> \/ (s[1] \in letters /\ Tail(s) \in sizes)
Upto(s, n) == SubSeq(s, 1, n)
From(s, n) == SubSeq(s, n, Len(s))

IsDecimal(s) ==
  \E n \in 1 .. Len(s) : Every(Upto(s, n), Digits) /\ Suffixed(From(s, n + 1), IntLetters, IntSizes)
IsBased(s) ==
  \E n \in 3 .. Len(s) :
    /\ s[1] = "0"
    /\ \/ s[2] \in {"x", "X"} /\ Every(SubSeq(s, 3, n), HexDigits)
       \/ s[2] \in {"o", "O"} /\ Every(SubSeq(s, 3, n), Digits \ {"8", "9"})
       \/ s[2] \in {"b", "B"} /\ Every(SubSeq(s, 3, n), {"0", "1"})
    /\ Suffixed(From(s, n + 1), IntLetters, IntSizes)
IsFloat(s) ==
  \E d \in 2 .. Len(s), n \in 3 .. Len(s) :
    /\ s[d] = "." /\ Every(Upto(s, d - 1), Digits)
    /\ n > d /\ Every(SubSeq(s, d + 1, n), Digits)
    /\ \/ Suffixed(From(s, n + 1), FloatLetters, FloatSizes)
       \/ \E m \in n + 2 .. Len(s) :
            /\ s[n + 1] \in {"e", "E"} /\ s[n + 2] \in {"+", "-"}
            /\ Every(SubSeq(s, n + 3, m), Digits)
            /\ Suffixed(From(s, m + 1), FloatLetters, FloatSizes)
IsChr(s) ==
  \/ Len(s) = 3 /\ s[1] = "'" /\ s[2] \notin {"\\", "\n"} /\ s[3] = "'"
  \/ Len(s) = 4 /\ s[1] = "'" /\ s[2] = "\\" /\ s[3] \in Escapes /\ s[4] = "'"
Escaped(s) ==
  LET e[i \in DOMAIN s] == i > 1 /\ s[i - 1] = "\\" /\ ~e[i - 1] IN e
IsStr(s) ==
  LET n == Len(s)
  IN /\ n > 1 /\ s[1] = "\"" /\ s[n] = "\"" /\ ~Escaped(s)[n]
     /\ \A i \in 2 .. n - 1 : IF Escaped(s)[i] THEN s[i] \in Escapes ELSE s[i] \notin {"\n", "\""}
IsWord(s) == s[1] \in Letters /\ Every(s, Letters \cup Digits)
IsOp(s) == s \in Doubles \/ (Len(s) = 1 /\ s[1] \in Singles)

KindOf(s) ==
  CASE IsDecimal(s) \/ IsBased(s) \/ IsFloat(s) -> <<"NUMBER">>
    [] IsChr(s) -> <<"CHR">>
    [] IsStr(s) -> <<"STR">>
    [] IsWord(s) -> IF s \in Keywords THEN s ELSE <<"IDENT">>
    [] IsOp(s) -> s
    [] OTHER -> <<>>

(* What is missing of a lexeme at most *)
Missing == {<<>>, <<"0">>, <<"+">>, <<"8">>, <<"6">>, <<"2">>, <<"4">>, <<"3", "2">>,
            <<"n", "'">>, <<"'">>, <<"\"">>, <<"n", "\"">>}
Viable(s) == \E t \in Missing : KindOf(s \o t) # <<>>

(* What the lexer is known to read otherwise: a prefix without a digit is a *)
(* number to it and a capital prefix is none (nnc_lex.c:503-607), and a     *)
(* quote at the end of a line takes the newline for its character and then  *)
(* costs the next line (nnc_lex_grab_chr).                                  *)
Departs(lexeme, after) ==
  \/ lexeme \in {<<"0", b>> : b \in {"x", "o", "b"}}
  \/ Len(lexeme) > 1 /\ lexeme[1] = "0" /\ lexeme[2] \in {"X", "O", "B"}
  \/ lexeme = <<"'">> /\ after # <<>> /\ after[1] = "\n"

(* The tokens of a text, from position p: each is as long as it can be; one *)
(* that cannot be completed is an error, which costs the rest of its line.  *)
(* A token here is [kind, lexeme, ln]; an unknown one ends what is said of  *)
(* the text.                                                                *)
NextLine(s, p) == Min({i + 1 : i \in {j \in DOMAIN s : j >= p /\ s[j] = "\n"}} \cup {Len(s) + 1})
RECURSIVE Munch(_, _)
Munch(s, p) ==
  LET n == Max({0} \cup {m \in 1 .. Len(s) - p + 1 : Viable(SubSeq(s, p, p + m - 1))})
      lexeme == SubSeq(s, p, p + n - 1)
      kind == KindOf(lexeme)
  IN CASE p > Len(s) -> <<>>
       [] p <= Len(s) /\ s[p] \in Blanks \cup {"\n"} -> Munch(s, p + 1)
       [] p < Len(s) /\ s[p] = "/" /\ s[p + 1] = "/" -> Munch(s, NextLine(s, p))
       [] OTHER ->
            IF n = 0 \/ Departs(lexeme, From(s, p + n))
            THEN <<[kind |-> <<"UNKNOWN">>, lexeme |-> <<>>, ln |-> 0]>>
            ELSE IF kind = <<>> THEN Munch(s, NextLine(s, p))
            ELSE <<[kind |-> kind, ln |-> Lines(s, p),
                    lexeme |-> IF IsBased(lexeme) THEN Tail(lexeme) ELSE lexeme]>>
                 \o Munch(s, p + n)

(* Strings that follow one another are one. *)
JoinStrs(ts) ==
  LET join(acc, t) ==
        IF acc # <<>> /\ Last(acc).kind = <<"STR">> /\ t.kind = <<"STR">>
        THEN Append(Front(acc), [Last(acc) EXCEPT !.lexeme = Front(@) \o Tail(t.lexeme)])
        ELSE Append(acc, t)
  IN FoldLeft(join, <<>>, ts)

(* What a token tells the parser: of a quoted one what is between the       *)
(* quotes (which the lexer keeps, while                                     *)
(* tests/nnc_lex_tests/nnc_lex_complex_tok_separation.cpp:69-78 expects     *)
(* lexemes without them).                                                   *)
Content(t) ==
  CASE t.kind \in {<<"CHR">>, <<"STR">>} -> SubSeq(t.lexeme, 2, Len(t.lexeme) - 1)
    [] t.kind \in {<<"NUMBER">>, <<"IDENT">>} -> t.lexeme
    [] OTHER -> <<>>
Seen(ts) == [i \in DOMAIN ts |-> [kind |-> ts[i].kind, content |-> Content(ts[i])]]
Known(ts) == \A i \in DOMAIN ts : ts[i].kind # <<"UNKNOWN">>
Read == phase = "done" /\ toks # <<>>

(* The parser sees the longest-match tokens of the text, adjacent strings   *)
(* joined, whatever the lexer has grabbed ahead and put back                *)
(* (nnc_lex_undo, at the end of the file too), and loses to an error no     *)
(* more than the rest of its line (nnc_lex_recover).  Left out are texts    *)
(* with a character that starts no token (nnc_lex_next has no default) and  *)
(* those of Departs, which the lexer reads otherwise: 0x, 0o and 0b without *)
(* a digit, capital prefixes, and an open quote at the end of a line.       *)
LexesAsMunch ==
  LET ref == Munch(text, 1)
  IN (Read /\ Known(ref)) => Seen(Front(toks)) = Seen(JoinStrs(ref))

(* A token reports the line on which it stands (hint_ln), across comments,  *)
(* errors and newlines that are put back.  Left out, with the texts above:  *)
(* a newline between single quotes, which nnc_lex_grab_chr does not count.  *)
LinesTrue ==
  LET ref == JoinStrs(Munch(text, 1))
  IN (Read /\ Known(ref)) =>
       \A i \in 1 .. Len(toks) - 1 : toks[i].ln = ref[i].ln

(* The assertion of nnc_parser_get_ctx: the column behind a token is not    *)
(* smaller than its size, so that its first character has a column.  Left   *)
(* out: strings joined from several, whose size is that of all while the    *)
(* column is that of the first.                                             *)
ContextFits ==
  LET ref == Munch(text, 1)
  IN (Read /\ Known(ref) /\ JoinStrs(ref) = ref) => \A i \in DOMAIN toks : toks[i].ch >= toks[i].size

(* The value of an integer written in the characters s, and of a string *)
Power(b, n) == LET f[i \in 0 .. n] == IF i = 0 THEN 1 ELSE b * f[i - 1] IN f[n]
ValueOf(s, base) ==
  FoldLeft(LAMBDA a, i : a + DigitOf(s[i]) * Power(base, Len(s) - i), 0, [i \in DOMAIN s |-> i])
Unescaped(s) ==
  LET kept == SelectSeq([i \in 1 .. Len(s) |-> i],
                        LAMBDA i : i > 1 /\ i < Len(s) /\ (s[i] # "\\" \/ Escaped(s)[i]))
  IN [k \in DOMAIN kept |-> IF Escaped(s)[kept[k]] THEN EscChr(s[kept[k]]) ELSE PlainChr(s[kept[k]])]

(* An integer literal is its digits in its base, and refused exactly when   *)
(* that is more than its suffix (i32 without one) can hold; a string is     *)
(* its characters with escapes folded, up to a "\0", also when it was       *)
(* joined from several.  Left out: escaped backslashes, which nnc_str_zip   *)
(* folds wrongly.                                                           *)
LiteralsExact ==
  \A i \in DOMAIN toks :
    LET t == toks[i]
        l == literals[i]
        n == Min({k \in 0 .. Len(t.lexeme) :
                    Suffixed(From(t.lexeme, k + 1), IntLetters, IntSizes)})
        b == t.lexeme[1]
        v == IF b \in Digits THEN ValueOf(Upto(t.lexeme, n), 10)
             ELSE ValueOf(SubSeq(t.lexeme, 2, n), CASE b = "x" -> 16 [] b = "o" -> 8 [] b = "b" -> 2)
        suffix == IF n = Len(t.lexeme) THEN <<"i", "3", "2">> ELSE SmallLetter(From(t.lexeme, n + 1))
        chars == Unescaped(t.lexeme)
    IN /\ IsInt(t) => /\ l.ok <=> v <= MaxOf[suffix]
                      /\ l.value = v /\ l.suffix = suffix
       /\ (t.kind = <<"STR">> /\ EscChr("\\") \notin ToSet(chars)) =>
            l.ok /\ IsPrefix(l.value, chars)
                 /\ (Len(l.value) < Len(chars) =>
                       EscChr("0") \notin ToSet(l.value) /\ chars[Len(l.value) + 1] = EscChr("0"))

(* The text of a tree, with no more parentheses than it needs, is parsed    *)
(* back to that tree and to its end: precedence and associativity of all    *)
(* levels, casts against parentheses, the reach of "as" and of the arms of  *)
(* ?: (nnc_parse_expr and all it calls).                                    *)
TextParsesBack ==
  (phase = "done" /\ source # <<>>) => result = Parsed(Len(tokens) + 1, source[1])

(* What the parser makes of any text that it accepts is, written out again, *)
(* what it has read, parentheses and commas apart: the loops that fold      *)
(* operands to the left lose, double or move none.                          *)
Bare(s) == SelectSeq(s, LAMBDA x : x \notin {"(", ")", ","})
AcceptedKeepsTokens ==
  (phase = "done" /\ result.ok /\ result.at <= Len(tokens)) =>
    Bare(SubSeq(tokens, 1, result.at - 1)) = Bare(Text(result.tree))

=============================================================================
