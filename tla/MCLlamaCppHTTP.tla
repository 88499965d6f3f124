---------------------------- MODULE MCLlamaCppHTTP ----------------------------
(* Instances of LlamaCppHTTP for TLC.                                      *)
EXTENDS LlamaCppHTTP

Surface(build, total, slots) ==
    [props |-> [build |-> build, total |-> total], slots |-> slots]

Audited ==
    {Surface("reference", 1, <<0>>), Surface("reference", 2, <<0, 1>>),
     Surface("reference", 2, <<0, 2>>), Surface("reference", 2, <<0, 0>>),
     Surface("reference", 2, <<0>>), Surface("reference", 1, <<0, 1>>),
     Surface("reference", 1, <<0, None>>), Surface("reference", 2, None)}

Unaudited ==
    {Surface("other", 2, <<0, 1>>), Surface(None, 2, <<0, 1>>),
     Surface("other", 1, None), Surface("unparsable", 2, <<0, None>>),
     [props |-> None, slots |-> <<0>>]}

SomeSurfaces == Audited \cup Unaudited

SomeSlots == {-1, 0, 1, 2}

Label(name) ==
    [label |-> name, string |-> TRUE, ascii |-> TRUE, bytes |-> 13, pattern |-> TRUE]

SomeDomains == {Label(DefaultDomain), Label("tenant-a")}

OwnAndOther == {Namespace, CacheNamespace("http://127.0.0.1:8080", "tenant-a")}

SomePrompts == {<<>>, <<1, 2>>, <<1, 3>>}

SomeClaims ==
    {None} \cup [cache_n : {-1, 0, 2}, prompt_n : {-1, 0, 1}]
=============================================================================
