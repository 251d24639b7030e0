----------------------------- MODULE MCHostGcc -----------------------------
EXTENDS HostGcc

MCVersions == {<<4, 8, 5>>, <<5, 3, 1>>, <<5, 4, 0>>, <<6, 3, 0>>, <<7, 3, 0>>,
               <<7, 4, 0>>, <<8, 2, 0>>, <<9, 1, 0>>}
MCMajorOnly == {7, 8, 9}
=============================================================================
