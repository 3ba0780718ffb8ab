--------------------------- MODULE MCSourceIndex ---------------------------
(* Instances of SourceIndex for TLC.                                        *)
EXTENDS SourceIndex

CONSTANTS r1, a

\* Both kinds in one source.
BothKinds == {<<a, "paths">>, <<a, "raw">>}
=============================================================================
