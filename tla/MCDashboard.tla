---------------------------- MODULE MCDashboard ----------------------------
(***************************************************************************)
(* Instances for TLC of the services of the Dashboard and of its page of   *)
(* results.  They share no state, so that a behaviour is one of a service, *)
(* or a scene on the page, that it chooses at first, and the others stay   *)
(* as they are.                                                            *)
(***************************************************************************)
EXTENDS SourceIndex, Workbench, Edits, Annotations, ResultWall, TLC

CONSTANTS r1, r2, a, b, o, p, s, page1, all, u, v, c, t, n

ASSUME WorkbenchAssumption == WorkbenchConstants

VARIABLE service

allVars == <<service, indexVars, editVars, noteVars, workbenchVars, wallVars>>

\* One file of each kind, in two sources.
OneEach == {<<o, "paths">>, <<p, "raw">>}

-----------------------------------------------------------------------------
(* The page.  What a scene looks at is there, and little else.             *)

\* The saved cases, and what the jobs write, are of one result.
OfOne == [case \in Cases |-> o]
WritesOne == [j \in Jobs |-> o]

Known == {j \in Jobs : status[j] # "absent"}
NothingOpen == replays = {} /\ ~reportOpen /\ lightbox = Blank
NoResult ==
    /\ results = {} /\ replays = {} /\ savedResult = Blank
    /\ \A refresh \in Waiting \ {Blank} : refresh.preferred = Blank

Scenes == {"results", "finished job", "preflights", "pollings"}

InScene ==
    \/ service = "results" /\ configs = {} /\ Known = {}
    \/ service = "finished job" /\ configs = {} /\ Cardinality(Known) <= 1 /\ NothingOpen
    \/ service = "preflights" /\ Cardinality(Known) <= 1 /\ NoResult
    \/ service = "pollings" /\ NoResult /\ Cardinality(lists) + Cardinality(configAsked) <= 1

-----------------------------------------------------------------------------
Init ==
    /\ service \in {"index", "comparisons", "edits", "annotations"} \cup Scenes
    /\ IndexInit /\ EditInit /\ NoteInit /\ CompareInit /\ WallInit
    /\ \/ InScene
       \/ service \notin Scenes /\ Known = {} /\ savedResult = Blank

Next ==
    \/ /\ service = "index" /\ IndexNext
       /\ UNCHANGED <<service, editVars, noteVars, workbenchVars, wallVars>>
    \/ /\ service = "comparisons" /\ CompareNext
       /\ UNCHANGED <<service, indexVars, editVars, noteVars, wallVars>>
    \/ /\ service = "edits" /\ EditNext
       /\ UNCHANGED <<service, indexVars, noteVars, workbenchVars, wallVars>>
    \/ /\ service = "annotations" /\ NoteNext
       /\ UNCHANGED <<service, indexVars, editVars, workbenchVars, wallVars>>
    \/ /\ service \in Scenes /\ WallNext
       /\ UNCHANGED <<service, indexVars, editVars, noteVars, workbenchVars>>
       /\ InScene'

Spec == Init /\ [][Next]_allVars

\* Notes and pollings are permuted with the sources of comparisons, jobs with
\* the readers: they are the same values.
Symmetry == Permutations(Readers) \cup Permutations(Compared) \cup Permutations(Valid)
=============================================================================
