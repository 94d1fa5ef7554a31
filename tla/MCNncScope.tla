----------------------------- MODULE MCNncScope -----------------------------
(* Files of a few statements, over one or two names of each kind. *)
EXTENDS NncScope

Plain(x) == <<[np |-> <<>>, name |-> x]>>
MCExprs == {<<>>, <<[np |-> <<"n">>, name |-> "x"]>>}
MCLetForms == {[type |-> Prim, init |-> <<>>], [type |-> "t", init |-> Plain("x")],
               [type |-> Prim, init |-> Plain("a")]}
FnHead(ps, value, pub) == [params |-> ps, value |-> value, pub |-> pub]
MCHeads == {FnHead(<<>>, FALSE, TRUE), FnHead(<<"x">>, TRUE, FALSE)}

MCMixes == {{"fn", "while", "break"}, {"fn", "for", "continue"}, {"fn", "do", "break"},
            {"fn", "return", "namespace"}, {"fn", "if", "elif", "else"},
            {"fn", "ext_fn", "goto"}, {"fn", "let", "if"}, {"fn", "let", "for"},
            {"let", "type", "fn"}, {"let", "namespace", "fn"}, {"fn", "namespace", "expr"}}
MCLateMixes == {{"fn", "let", "if"}}
=============================================================================
