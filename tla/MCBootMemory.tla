---------------------------- MODULE MCBootMemory ----------------------------
(* Model-checking instance of BootMemory.  2 MB is scaled to eight frames; *)
(* the kernel ends just below it, so that the bitmap takes the first       *)
(* frames above it.  The maps have one or two banks, adjacent, overlapping *)
(* or apart, with and without page-aligned bounds, and there is no map.    *)
EXTENDS BootMemory

Bank(addr, len) == [addr |-> addr, len |-> len, available |-> TRUE]
Hole(addr, len) == [addr |-> addr, len |-> len, available |-> FALSE]
K == 1024

MCMaps == {
    <<>>,
    <<Bank(0, 64*K)>>,
    <<Bank(0, 9*K), Hole(9*K, 20*K), Bank(30*K, 30*K)>>,
    <<Bank(33*K, 14*K), Bank(46*K, 12*K), Hole(58*K, 22*K), Bank(80*K, 6*K)>>,
    <<Bank(56*K, 8*K), Bank(20*K, 26*K)>>,
    <<Bank(0, 40*K), Hole(40*K, 24*K), Bank(64*K, 24*K)>>,
    <<Hole(0, 64*K)>> }
=============================================================================
