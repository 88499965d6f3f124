------------------------ MODULE MCBackendConformance ------------------------
(* Instances of BackendConformance for TLC.                                *)
EXTENDS BackendConformance

SuiteTokens ==
    {<<1, 2, 3>>, <<2, 3>>, <<5, 6>>, <<5, 6, 7>>, <<5, 6, 7, 8>>, <<10>>, <<11>>,
     <<20, 21>>, <<20, 21, 22>>, <<30, 31>>, <<30, 31, 32>>}

SuiteKeys ==
    [namespace : {<<"model", d>> : d \in {"tenant-a", "tenant-b", "local-default"}},
     tokens : SuiteTokens]
=============================================================================
