----------------------------- MODULE MCMLXServing -----------------------------
(* Instances of MLXServing for TLC.                                        *)
EXTENDS MLXServing

Prompt(tokens, ends, types) == [tokens |-> tokens, ends |-> ends, types |-> types]

\* A conversation in three turns, the last an assistant's or a tool's, and a
\* branch of it.
SomePrompts ==
    {Prompt(<<1, 2, 3>>, <<1, 3>>, <<"system", "user">>),
     Prompt(<<1, 2, 3, 4>>, <<1, 4>>, <<"system", "user">>),
     Prompt(<<1, 2, 3, 4, 5>>, <<5>>, <<"active">>),
     Prompt(<<1, 5>>, <<1, 2>>, <<"system", "user">>)}

Label(name, matches) ==
    [label |-> name, string |-> TRUE, ascii |-> TRUE, bytes |-> 8, pattern |-> matches]

SomeLabels == {None, Label("tenant-a", TRUE), Label("a/b", FALSE)}

Symmetric == Permutations(Requests)

SomeKeys ==
    LET tokens == UNION {{SubSeq(p.tokens, 1, n) : n \in 0 .. Len(p.tokens)} :
                            p \in SomePrompts}
    IN  [namespace : {CacheNamespace("model", d) : d \in {DefaultDomain, "tenant-a"}},
         tokens : tokens \cup {Append(t, 9) : t \in tokens}]
=============================================================================
