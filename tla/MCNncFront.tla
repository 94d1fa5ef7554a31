----------------------------- MODULE MCNncFront -----------------------------
EXTENDS NncFront

X == Leaf("x")
I8 == Leaf("i8")
Ptr == Node("ptr", "*", <<I8>>)
Item(op, t) == Node("item", op, <<X, t>>)
Composites == {Node("type", "fn", <<I8>>), Node("type", "fn", <<Ptr, I8, Ptr>>),
               Node("type", "enum", <<X>>), Node("type", "enum", <<Item("=", X), X>>),
               Node("type", "struct", <<>>), Node("type", "struct", <<Item(":", Ptr)>>),
               Node("ptr", "*", <<Node("type", "union", <<Item(":", I8), Item(":", Ptr)>>)>>),
               Node("type", "struct", <<Item(":", Node("type", "enum", <<X, X>>))>>)}
Bin(op, l, r) == Node("bin", op, <<l, r>>)
SomeOps == {"*", "-", "<<", "<", "==", "&", "^", "|", "&&", "||", "=", ","}

(* Every form over the operands a and b. *)
Unaries(E) ==
  {Node("un", op, <<a>>) : op \in {"-", "*", "&"}, a \in E}
  \cup {Node("cast", "cast", <<t, a>>) : t \in {I8, Ptr}, a \in E}
  \cup {Node("as", "as", <<a, t>>) : t \in {I8, Ptr}, a \in E}
  \cup {Node("of", "lengthof", <<a>>) : a \in E}
  \cup {Node("of", "sizeof", <<Node("arr", "[", <<Ptr, a>>)>>) : a \in E}
  \cup {Node("dot", ".", <<a, X>>) : a \in E}
  \cup {Node("call", "(", <<a>>) : a \in E}
Forms(E, F) ==
  Unaries(E)
  \cup {Bin(op, a, b) : op \in SomeOps, a \in E, b \in F}
  \cup {Node("ternary", "?", <<a, b, a>>) : a \in E, b \in F}
  \cup {Node("index", "[", <<a, b>>) : a \in E, b \in F}
  \cup {Node("call", "(", <<a, b, a>>) : a \in E, b \in F}

One == {X, Node("nested", "x", <<"n">>)}
Two == One \cup Forms(One, {X})
MCTrees == Two \cup Forms(Two, {X}) \cup Forms({X}, Two)
           \cup Unaries(Unaries({X}) \cup {Bin("*", X, X)})
           \cup {Node("as", "as", <<X, t>>) : t \in Composites}
           \cup {Node("of", "sizeof", <<t>>) : t \in Composites}
           \cup {Node("of", "sizeof", <<Node("type", "enum", <<Item("=", t), X>>)>>) : t \in Two}
           \cup {Bin(op, t, X) : op \in SomeOps, t \in
                    {Bin(o, X, u) : o \in SomeOps, u \in Unaries({X}) \cup {Bin("+", X, X)}}}
           \cup {Bin(op, l, r) : op \in {"*", "=", ","}, l \in Two, r \in Two}

MCTokens == {"x", "1", "i8", "T", "::", "(", ")", "*", ",", "?", ":", "as", "[", "]", "."}
MCInputs == {s \o <<";">> : s \in UNION {[1 .. n -> MCTokens] : n \in 1 .. 3}}
            \cup {<<"x">> \o s \o <<";">> : s \in [1 .. 3 -> MCTokens \ {"1", "T"}]}
            \cup {<<"x", "as", "x", "::">> \o s \o <<";">> : s \in [1 .. 2 -> MCTokens]}
            \cup {<<"sizeof", "(", k>> \o s \o <<")", ";">> :
                     k \in {"fn", "enum", "struct"},
                     s \in [1 .. 4 -> {"x", "(", ")", "{", "}", ":", ","}]}
            \cup {<<"x", p, "x", q, "x", r, "x", ";">> : p, q, r \in SomeOps}
            \cup {<<"x", "(">> \o s \o <<";">> : s \in [1 .. 3 -> {"x", ",", ")", "("}]}

(* Every text over each of these alphabets, up to a length. *)
Over(S, n) == UNION {[1 .. m -> S] : m \in 0 .. n}
Prefixed(s, T) == {s \o t : t \in T}
MCTexts ==
  Over({"1", "8", "u", "x", "0", " "}, 4)
  \cup Prefixed(<<"0">>, Over({"b", "o", "x", "1", "7", "i", "8", "f"}, 4))
  \cup Prefixed(<<"0">>, Over({"X", "B", "1", " ", "\n"}, 3))
  \cup Over({"a", "1", "\n"} \cup Blanks, 3)
  \cup Prefixed(<<"1", ".">>, Over({"1", "e", "+", "f", "3", "2", "\n"}, 4))
  \cup Over({"'", "\\", "n", "\n", "a"}, 4)
  \cup Prefixed(<<"\"">>, Over({"\"", "\\", "n", "0", "\n"}, 4))
  \cup Prefixed(<<"\"", "a", "\"">>, Over({"\"", "a", "\n", ";"}, 4))
  \cup Over({"/", "\n", "a", "<", "="}, 5)
  \cup Over({"a", "s", "1", "&", "*", " "}, 4)

MCChars == Digits \cup Letters \cup Singles \cup Blanks \cup {"\n", "'", "\"", "\\"}
MCKeywords == {<<"a", "s">>}
MCMaxOf ==
  LET limit(s) == CASE s = <<"i", "8">> -> 3 [] s = <<"u", "8">> -> 7
                    [] s = <<"i", "1", "6">> -> 7 [] s = <<"u", "1", "6">> -> 15
                    [] s = <<"i", "3", "2">> -> 31 [] s = <<"u", "3", "2">> -> 63
                    [] s = <<"i", "6", "4">> -> 127 [] s = <<"u", "6", "4">> -> 255
  IN [s \in {<<c>> \o z : c \in {"i", "u"}, z \in IntSizes} |-> limit(s)]

MCSpell ==
  LET doubles == <<"<=", "<<", ">=", ">>", "::", "==", "!=", "&&", "||">>
      spelled == << <<"<", "=">>, <<"<", "<">>, <<">", "=">>, <<">", ">">>, <<":", ":">>,
                    <<"=", "=">>, <<"!", "=">>, <<"&", "&">>, <<"|", "|">> >>
      spell(k) == CASE k = <<"NUMBER">> -> "1" [] k = <<"IDENT">> -> "x" [] k = <<"a", "s">> -> "as"
                    [] k \in Doubles -> doubles[CHOOSE i \in DOMAIN spelled : spelled[i] = k]
                    [] OTHER -> k[1]
  IN [k \in Doubles \cup Keywords \cup {<<"NUMBER">>, <<"IDENT">>} \cup {<<c>> : c \in Singles} |-> spell(k)]
=============================================================================
