----------------------------- MODULE MCJobQueue -----------------------------
(* Instances of JobQueue for TLC.                                           *)
EXTENDS JobQueue, TLC

CONSTANTS s1, s2, b1, b2, m1, m2, o1, o2

TwoServers == {s1, s2}
OneServer == {s1}
TwoBenchmarks == {b1, b2}
TwoSearches == {m1, m2}
OneSearch == {m1}
NoJobs == {}
OneOutput == {o1}
TwoOutputs == {o1, o2}

\* Servers are interchangeable: only the locks order them.
ServerSymmetry == Permutations(Servers)
=============================================================================
