------------------------------ MODULE NncReader ------------------------------
(***************************************************************************)
(* The reading of a file (src/src/nnc_parse.c over src/src/nnc_lex.c): one *)
(* call of nnc_parser_next after the other delivers a token, of which a    *)
(* literal is made where it is one, until the token is the end of the      *)
(* file.  What the lexer delivers does not depend on what the parser makes *)
(* of it, so all tokens are read before they are parsed.                   *)
(***************************************************************************)
EXTENDS NncLex

CONSTANT Texts         \* texts to read

ASSUME TextsAssumption == Texts \subseteq Seq(Chars)

VARIABLES text,        \* the file
          window,      \* [lex, current, lookup] of nnc_parser
          toks,        \* the tokens that were current so far
          literals,    \* what was made of them
          phase        \* "lex", "parse" or "done"

readVars == <<text, window, toks, literals, phase>>

NoToken == [kind |-> <<"&">>, lexeme |-> <<>>, size |-> 0, ln |-> 0, ch |-> 0]

(* A file is read, or there is nothing to read before the parse. *)
ReadInit ==
  /\ \/ text \in Texts /\ phase = "lex"
     \/ text = <<>> /\ phase = "parse"
  /\ window = [lex |-> NewLex(text), current |-> NoToken, lookup |-> NoToken]
  /\ toks = <<>>
  /\ literals = <<>>

IsLiteral(t) == t.kind \in {<<"CHR">>, <<"STR">>, <<"NUMBER">>}
IsInt(t) == t.kind = <<"NUMBER">> /\ "." \notin ToSet(t.lexeme)

(* nnc_parse_number, nnc_parse_chr, nnc_parse_str: what may be made of a    *)
(* token.  A float is read by strtod (external), and may be more than its   *)
(* suffix holds, for which nnc_dbl_check_overflow throws.                   *)
Literal(t) ==
  CASE IsInt(t) -> {IntNew(t.lexeme)}
    [] t.kind = <<"STR">> -> {StrNew(t.lexeme)}
    [] t.kind = <<"CHR">> -> {[ok |-> TRUE, value |-> ChrNew(t.lexeme)]}
    [] t.kind = <<"NUMBER">> /\ ~IsInt(t) -> [ok : BOOLEAN]
    [] OTHER -> {[ok |-> TRUE]}

(* One call of nnc_parser_next *)
NextToken ==
  /\ phase = "lex"
  /\ window' = ParserNext(window, toks = <<>>)
  /\ toks' = Append(toks, window'.current)
  /\ \E l \in Literal(window'.current) : literals' = Append(literals, l)
  /\ phase' = IF window'.current.kind = <<EOF>> THEN "parse" ELSE "lex"
  /\ UNCHANGED text

(* The parse that follows reads no more. *)
EndOfReading ==
  /\ phase = "parse"
  /\ phase' = "done"
  /\ UNCHANGED <<text, window, toks, literals>>

ReadNext == NextToken \/ EndOfReading

ReadSpec == ReadInit /\ [][ReadNext]_readVars

-----------------------------------------------------------------------------
(* Every call of nnc_lex_next takes characters from the file, whatever it   *)
(* puts back, skips or meets unknown: no text has more tokens than          *)
(* characters, and the end of the file is reached.                          *)
TokensBounded == Len(toks) <= Len(text) + 1

(* The line of the position p *)
Lines(s, p) == 1 + Cardinality({i \in DOMAIN s : i < p /\ s[i] = "\n"})

(* A newline behind a single quote, which nnc_lex_grab_chr does not count   *)
Quoted(s) == \E i \in 1 .. Len(s) - 1 : s[i] = "'" /\ s[i + 1] = "\n"

(* Between two tokens the lexer stands somewhere in the text: what the file *)
(* will deliver, the characters put back by nnc_lex_undo included, is the   *)
(* text from there on, and hint_ln is the line of that place, through       *)
(* comments, errors and newlines that are put back.                         *)
PositionTrue ==
  \E k \in 0 .. Len(text) :
    /\ window.lex.rest = SubSeq(text, k + 1, Len(text))
    /\ (window.lex.cc # EOF /\ ~Quoted(text)) => window.lex.ln = Lines(text, k + 1)
=============================================================================
