------------------------- MODULE BenchmarkRunProofs -------------------------
(***************************************************************************)
(* Proofs about BenchmarkRun, for any configurations, plans, intervals and *)
(* numbers of workers and attempts.                                        *)
(*                                                                         *)
(* Typed is inductive by itself.  Rows adds what ties the rows in memory   *)
(* to the rows on disk and to the claims of progress.jsonl; Ends adds what *)
(* the last phase leaves.  Own ties the derived files to the instances     *)
(* beside them unless the last --force was interrupted.                    *)
(***************************************************************************)
EXTENDS BenchmarkRun, Integers, FiniteSetTheorems, TLAPS

\* An attempt has a configuration.  Workers are of attempts that began, and
\* outlive the latest one only if it was killed.
Engaged ==
    /\ pc # "idle" => cfg \in Configs
    /\ \A w \in running : w.try <= attempt
    /\ pc = "idle" /\ verdict # "crashed" => Pool = {}

Typed == TypeOK /\ Engaged

\* Where an admitted attempt is.
Working == {"tell", "gate", "take", "save", "poll", "last", "derive", "close"}

\* Before admission nothing was computed or claimed, and --force removes the
\* rows before everything else.
Admission ==
    /\ pc \in {"clean", "check"} => published = {} /\ results = {} /\ Pool = {}
    /\ pc = "clean" /\ "raw" \notin left => raw = {}
    /\ pc = "check" /\ force => raw = {}

\* An admitted attempt holds in memory every row on disk, all of them rows of
\* its configuration, with a replay if they failed.
Memory ==
    /\ published \subseteq records
    /\ pc = "tell" => records \subseteq raw
    /\ pc \in Working =>
        /\ raw \subseteq records
        /\ inst = cfg
        /\ \A r \in records \cup results : r.cfg = cfg
        /\ \A r \in records : r.failed => r.task \in replays

Rows ==
    /\ Admission /\ Memory
    /\ ProgressIsDurable /\ RowsMatchInstances /\ FailuresReplayable

\* What CompletedConsistent asks of the files.
Consistent ==
    /\ TasksOf(raw) = Plan[cfg] /\ inst = cfg
    /\ \A f \in Artifacts : Writes(f) => art[f] = [cfg |-> cfg, rows |-> raw]

\* The last phase derives every file from the rows on disk, and a verdict
\* speaks of the files as they are.
Ends ==
    /\ pc \in {"derive", "close"} =>
        /\ raw = records
        /\ \A f \in Artifacts : f \notin left /\ Writes(f) =>
               art[f] = [cfg |-> cfg, rows |-> raw]
    /\ pc = "close" => left = {}
    /\ verdict = "completed" => pc \in {"drain", "idle"} /\ Consistent
    /\ verdict = "stopped" =>
        /\ pc \in {"tell", "drain", "idle"} /\ (pc = "tell" => after = "drain")
        /\ records \subseteq raw

\* What is only in memory: never more than an interval of records, and while the
\* loop runs no more than the checkpoint counter shows.
Unsaved == records \ raw
Bounded ==
    /\ IsFiniteSet(Unsaved) /\ Cardinality(Unsaved) <= Interval
    /\ pc \in {"clean", "check"} => records = {}
    /\ pc \in {"tell", "gate"} => Unsaved = {}
    /\ pc \in {"take", "poll"} => Cardinality(Unsaved) <= taken % Interval

\* A derived file belongs to the configuration of the instances beside it.
Own ==
    /\ ~torn /\ pc # "clean" => \A f \in Artifacts : art[f] = None \/ art[f].cfg = inst
    /\ pc = "clean" => \A f \in Artifacts : f \in left \/ art[f] = None
    /\ pc = "check" /\ force => \A f \in Artifacts : art[f] = None

-----------------------------------------------------------------------------
\* The initial state is typed.
LEMMA TypedInit == Init => Typed
<1> SUFFICES ASSUME Init PROVE Typed
  OBVIOUS
<1>1. attempt \in Nat /\ taken \in Nat
  BY DEF Init
<1>2. force \in BOOLEAN /\ stop \in BOOLEAN
  BY DEF Init
<1> QED
  BY <1>1, <1>2 DEF Init, Typed, TypeOK, Engaged, Phases, Pool

\* Every step keeps the types.
LEMMA TypedStep == Typed /\ [Next]_vars => Typed'
<1> SUFFICES ASSUME Typed, [Next]_vars PROVE Typed'
  OBVIOUS
<1> USE RunAssumption DEF Typed, TypeOK, Engaged, Phases, Looping, files,
                          executor, job, history, Pool
<1>1. ASSUME NEW c \in Configs, NEW f \in BOOLEAN, Begin(c, f)
     PROVE  Typed'
  <2>1. attempt' \in Nat /\ taken' \in Nat
    BY <1>1 DEF Begin
  <2>2. force' \in BOOLEAN /\ stop' \in BOOLEAN
    BY <1>1 DEF Begin
  <2> QED
    BY <1>1, <2>1, <2>2 DEF Begin
<1>2. ASSUME CleanFile
     PROVE  Typed'
  BY <1>2 DEF CleanFile
<1>3. ASSUME CleanEnds
     PROVE  Typed'
  BY <1>3 DEF CleanEnds
<1>4. ASSUME Refuse
     PROVE  Typed'
  BY <1>4 DEF Refuse
<1>5. ASSUME Admit
     PROVE  Typed'
  BY <1>5 DEF Admit
<1>6. ASSUME Publish
     PROVE  Typed'
  BY <1>6 DEF Publish, Owned, Artifacts, Position
<1>7. ASSUME Launch
     PROVE  Typed'
  BY <1>7 DEF Launch
<1>8. ASSUME NEW t \in Tasks, StartTask(t)
     PROVE  Typed'
  BY <1>8 DEF StartTask
<1>9. ASSUME NEW w \in running, NEW e \in BOOLEAN, FinishTask(w, e)
     PROVE  Typed'
  BY <1>9 DEF FinishTask, Row
<1>10. ASSUME NEW w \in running, FinishOrphan(w)
      PROVE  Typed'
  BY <1>10 DEF FinishOrphan
<1>11. ASSUME NEW r \in results, Take(r)
      PROVE  Typed'
  <2>1. replays' \subseteq Tasks
    BY <1>11 DEF Take, WithReplay, Row
  <2>2. records' \subseteq Row /\ results' \subseteq Row
    BY <1>11 DEF Take, WithReplay
  <2>3. taken' \in Nat /\ pc' \in Phases
    BY <1>11 DEF Take, WithReplay
  <2> QED
    BY <1>11, <2>1, <2>2, <2>3 DEF Take, WithReplay
<1>12. ASSUME Save
      PROVE  Typed'
  BY <1>12 DEF Save
<1>13. ASSUME Continue
      PROVE  Typed'
  BY <1>13 DEF Continue
<1>14. ASSUME Stop
      PROVE  Typed'
  BY <1>14 DEF Stop
<1>15. ASSUME LoopEnds
      PROVE  Typed'
  BY <1>15 DEF LoopEnds
<1>16. ASSUME SaveAll
      PROVE  Typed'
  BY <1>16 DEF SaveAll
<1>17. ASSUME WriteArtifact
      PROVE  Typed'
  <2>1. art' \in [Artifacts -> {None} \cup [cfg : Configs, rows : SUBSET Row]]
    <3> DEFINE written(f) == [art EXCEPT ![f] = [cfg |-> cfg, rows |-> records]]
    <3>1. PICK f \in left : art' = IF Writes(f) THEN written(f) ELSE art
      BY <1>17 DEF WriteArtifact
    <3>2. [cfg |-> cfg, rows |-> records] \in [cfg : Configs, rows : SUBSET Row]
      BY <1>17 DEF WriteArtifact
    <3>3. written(f) \in [Artifacts -> {None} \cup [cfg : Configs, rows : SUBSET Row]]
      BY <3>2
    <3> QED
      BY <3>1, <3>3
  <2>2. left' \subseteq Owned
    BY <1>17 DEF WriteArtifact
  <2> QED
    BY <1>17, <2>1, <2>2 DEF WriteArtifact
<1>18. ASSUME DeriveEnds
      PROVE  Typed'
  BY <1>18 DEF DeriveEnds
<1>19. ASSUME Close
      PROVE  Typed'
  BY <1>19 DEF Close
<1>20. ASSUME Drain
      PROVE  Typed'
  BY <1>20 DEF Drain, Settled
<1>21. ASSUME RequestStop
      PROVE  Typed'
  BY <1>21 DEF RequestStop
<1>22. ASSUME Raise
      PROVE  Typed'
  BY <1>22 DEF Raise
<1>23. ASSUME Crash
      PROVE  Typed'
  BY <1>23 DEF Crash
<1>24. CASE UNCHANGED vars
  BY <1>24 DEF vars
<1> QED
  BY <1>1, <1>2, <1>3, <1>4, <1>5, <1>6, <1>7, <1>8, <1>9, <1>10, <1>11,
     <1>12, <1>13, <1>14, <1>15, <1>16, <1>17, <1>18, <1>19, <1>20, <1>21,
     <1>22, <1>23, <1>24 DEF Next, Run

\* Every variable keeps its type.
THEOREM TypeCorrect == Spec => []TypeOK
<1>1. Spec => []Typed
  BY TypedInit, TypedStep, PTL DEF Spec
<1>2. Typed => TypeOK
  BY DEF Typed
<1> QED
  BY <1>1, <1>2, PTL

-----------------------------------------------------------------------------
\* raw_results.csv is the first file that --force removes.
LEMMA RawFirst ==
    ASSUME left \subseteq Owned, NEW f, First(f, left), f # "raw"
    PROVE  "raw" \notin left
BY DEF First, Owned, Position

\* Initially there are no rows.
LEMMA RowsInit == Init => Rows
BY DEF Init, Rows, Admission, Memory, Working, ProgressIsDurable,
       RowsMatchInstances, FailuresReplayable

\* Every step keeps the rows in memory, on disk and in progress.jsonl in order.
LEMMA RowsStep == Typed /\ Rows /\ [Next]_vars => Rows'
<1> SUFFICES ASSUME Typed, Rows, [Next]_vars PROVE Rows'
  OBVIOUS
<1> USE RunAssumption DEF Typed, TypeOK, Engaged, Phases, Looping, files,
        executor, job, history, Pool, Rows, Admission, Memory, Working, ProgressIsDurable,
        RowsMatchInstances, FailuresReplayable
<1>1. ASSUME NEW c \in Configs, NEW f \in BOOLEAN, Begin(c, f)
     PROVE  Rows'
  BY <1>1 DEF Begin, Owned, Position
<1>2. ASSUME CleanFile
     PROVE  Rows'
  BY <1>2, RawFirst DEF CleanFile
<1>3. ASSUME CleanEnds
     PROVE  Rows'
  BY <1>3 DEF CleanEnds
<1>4. ASSUME Refuse
     PROVE  Rows'
  BY <1>4 DEF Refuse, Foreign
<1>5. ASSUME Admit
     PROVE  Rows'
  BY <1>5 DEF Admit, Foreign, ForeignRows, OfPlan
<1>6. ASSUME Publish
     PROVE  Rows'
  BY <1>6 DEF Publish
<1>7. ASSUME Launch
     PROVE  Rows'
  BY <1>7 DEF Launch
<1>8. ASSUME NEW t \in Tasks, StartTask(t)
     PROVE  Rows'
  BY <1>8 DEF StartTask
<1>9. ASSUME NEW w \in running, NEW e \in BOOLEAN, FinishTask(w, e)
     PROVE  Rows'
  BY <1>9 DEF FinishTask
<1>10. ASSUME NEW w \in running, FinishOrphan(w)
      PROVE  Rows'
  BY <1>10 DEF FinishOrphan
<1>11. ASSUME NEW r \in results, Take(r)
      PROVE  Rows'
  BY <1>11 DEF Take, WithReplay
<1>12. ASSUME Save
      PROVE  Rows'
  BY <1>12 DEF Save
<1>13. ASSUME Continue
      PROVE  Rows'
  BY <1>13 DEF Continue
<1>14. ASSUME Stop
      PROVE  Rows'
  BY <1>14 DEF Stop
<1>15. ASSUME LoopEnds
      PROVE  Rows'
  BY <1>15 DEF LoopEnds
<1>16. ASSUME SaveAll
      PROVE  Rows'
  BY <1>16 DEF SaveAll
<1>17. ASSUME WriteArtifact
      PROVE  Rows'
  BY <1>17 DEF WriteArtifact
<1>18. ASSUME DeriveEnds
      PROVE  Rows'
  BY <1>18 DEF DeriveEnds
<1>19. ASSUME Close
      PROVE  Rows'
  BY <1>19 DEF Close
<1>20. ASSUME Drain
      PROVE  Rows'
  BY <1>20 DEF Drain
<1>21. ASSUME RequestStop
      PROVE  Rows'
  BY <1>21 DEF RequestStop
<1>22. ASSUME Raise
      PROVE  Rows'
  BY <1>22 DEF Raise
<1>23. ASSUME Crash
      PROVE  Rows'
  BY <1>23 DEF Crash
<1>24. CASE UNCHANGED vars
  BY <1>24 DEF vars
<1> QED
  BY <1>1, <1>2, <1>3, <1>4, <1>5, <1>6, <1>7, <1>8, <1>9, <1>10, <1>11,
     <1>12, <1>13, <1>14, <1>15, <1>16, <1>17, <1>18, <1>19, <1>20, <1>21,
     <1>22, <1>23, <1>24 DEF Next, Run

\* Outside the cleaning of --force a step keeps every row on disk.
LEMMA RowsKeptStep ==
    Typed /\ Rows /\ [Next]_vars => (pc # "clean" => raw \subseteq raw')
<1> SUFFICES ASSUME Rows, [Next]_vars, pc # "clean" PROVE raw \subseteq raw'
  OBVIOUS
<1> USE DEF Rows, Memory, Working, files
<1>1. ASSUME NEW c \in Configs, NEW f \in BOOLEAN, Begin(c, f)
     PROVE  raw \subseteq raw'
  BY <1>1 DEF Begin
<1>2. ASSUME CleanFile
     PROVE  raw \subseteq raw'
  BY <1>2 DEF CleanFile
<1>3. ASSUME CleanEnds
     PROVE  raw \subseteq raw'
  BY <1>3 DEF CleanEnds
<1>4. ASSUME Refuse
     PROVE  raw \subseteq raw'
  BY <1>4 DEF Refuse
<1>5. ASSUME Admit
     PROVE  raw \subseteq raw'
  BY <1>5 DEF Admit
<1>6. ASSUME Publish
     PROVE  raw \subseteq raw'
  BY <1>6 DEF Publish
<1>7. ASSUME Launch
     PROVE  raw \subseteq raw'
  BY <1>7 DEF Launch
<1>8. ASSUME NEW t \in Tasks, StartTask(t)
     PROVE  raw \subseteq raw'
  BY <1>8 DEF StartTask
<1>9. ASSUME NEW w \in running, NEW e \in BOOLEAN, FinishTask(w, e)
     PROVE  raw \subseteq raw'
  BY <1>9 DEF FinishTask
<1>10. ASSUME NEW w \in running, FinishOrphan(w)
      PROVE  raw \subseteq raw'
  BY <1>10 DEF FinishOrphan
<1>11. ASSUME NEW r \in results, Take(r)
      PROVE  raw \subseteq raw'
  BY <1>11 DEF Take, WithReplay
<1>12. ASSUME Save
      PROVE  raw \subseteq raw'
  BY <1>12 DEF Save
<1>13. ASSUME Continue
      PROVE  raw \subseteq raw'
  BY <1>13 DEF Continue
<1>14. ASSUME Stop
      PROVE  raw \subseteq raw'
  BY <1>14 DEF Stop
<1>15. ASSUME LoopEnds
      PROVE  raw \subseteq raw'
  BY <1>15 DEF LoopEnds
<1>16. ASSUME SaveAll
      PROVE  raw \subseteq raw'
  BY <1>16 DEF SaveAll
<1>17. ASSUME WriteArtifact
      PROVE  raw \subseteq raw'
  BY <1>17 DEF WriteArtifact
<1>18. ASSUME DeriveEnds
      PROVE  raw \subseteq raw'
  BY <1>18 DEF DeriveEnds
<1>19. ASSUME Close
      PROVE  raw \subseteq raw'
  BY <1>19 DEF Close
<1>20. ASSUME Drain
      PROVE  raw \subseteq raw'
  BY <1>20 DEF Drain
<1>21. ASSUME RequestStop
      PROVE  raw \subseteq raw'
  BY <1>21 DEF RequestStop
<1>22. ASSUME Raise
      PROVE  raw \subseteq raw'
  BY <1>22 DEF Raise
<1>23. ASSUME Crash
      PROVE  raw \subseteq raw'
  BY <1>23 DEF Crash
<1>24. CASE UNCHANGED vars
  BY <1>24 DEF vars
<1> QED
  BY <1>1, <1>2, <1>3, <1>4, <1>5, <1>6, <1>7, <1>8, <1>9, <1>10, <1>11,
     <1>12, <1>13, <1>14, <1>15, <1>16, <1>17, <1>18, <1>19, <1>20, <1>21,
     <1>22, <1>23, <1>24 DEF Next, Run

\* Typed and Rows hold in every reachable state.
LEMMA RowsAlways == Spec => [](Typed /\ Rows)
BY TypedInit, TypedStep, RowsInit, RowsStep, PTL DEF Spec

\* A run that progress.jsonl shows as saved is in raw_results.csv.
LEMMA ProgressDurable == Spec => []ProgressIsDurable
<1>1. Rows => ProgressIsDurable
  BY DEF Rows
<1> QED
  BY <1>1, RowsAlways, PTL

\* The rows and the instances on disk belong to one configuration.
THEOREM RowsCoherent == Spec => []RowsMatchInstances
<1>1. Rows => RowsMatchInstances
  BY DEF Rows
<1> QED
  BY <1>1, RowsAlways, PTL

\* A failed row on disk has its replay file beside it.
LEMMA FailuresAreReplayable == Spec => []FailuresReplayable
<1>1. Rows => FailuresReplayable
  BY DEF Rows
<1> QED
  BY <1>1, RowsAlways, PTL

\* Whatever stops an attempt, progress is of rows on disk, and the failed ones
\* can be replayed.
THEOREM CheckpointsInOrder == Spec => []CheckpointOrder
<1>1. ProgressIsDurable /\ FailuresReplayable => CheckpointOrder
  BY DEF CheckpointOrder
<1> QED
  BY ProgressDurable, FailuresAreReplayable, <1>1, PTL

\* No pause, error, crash or resumed attempt loses or replaces a saved row.
THEOREM RowsAreKept == Spec => RowsKept
<1>1. Typed /\ Rows /\ [Next]_vars => [pc # "clean" => raw \subseteq raw']_vars
  BY RowsKeptStep
<1> QED
  BY <1>1, RowsAlways, PTL DEF Spec, RowsKept

-----------------------------------------------------------------------------
\* Initially no attempt has ended.
LEMMA EndsInit == Init => Ends
BY DEF Init, Ends

\* Every step keeps what the last phase and the verdict say of the files.
LEMMA EndsStep == Typed /\ Rows /\ Ends /\ [Next]_vars => Ends'
<1> SUFFICES ASSUME Typed, Rows, Ends, [Next]_vars PROVE Ends'
  OBVIOUS
<1> USE RunAssumption DEF Typed, TypeOK, Engaged, Phases, Looping, files,
        executor, job, history, Rows, Memory, Working, Ends, Consistent, TasksOf, Writes
<1>1. ASSUME NEW c \in Configs, NEW f \in BOOLEAN, Begin(c, f)
     PROVE  Ends'
  BY <1>1 DEF Begin
<1>2. ASSUME CleanFile
     PROVE  Ends'
  BY <1>2 DEF CleanFile
<1>3. ASSUME CleanEnds
     PROVE  Ends'
  BY <1>3 DEF CleanEnds
<1>4. ASSUME Refuse
     PROVE  Ends'
  BY <1>4 DEF Refuse
<1>5. ASSUME Admit
     PROVE  Ends'
  BY <1>5 DEF Admit
<1>6. ASSUME Publish
     PROVE  Ends'
  BY <1>6 DEF Publish
<1>7. ASSUME Launch
     PROVE  Ends'
  BY <1>7 DEF Launch
<1>8. ASSUME NEW t \in Tasks, StartTask(t)
     PROVE  Ends'
  BY <1>8 DEF StartTask
<1>9. ASSUME NEW w \in running, NEW e \in BOOLEAN, FinishTask(w, e)
     PROVE  Ends'
  BY <1>9 DEF FinishTask
<1>10. ASSUME NEW w \in running, FinishOrphan(w)
      PROVE  Ends'
  BY <1>10 DEF FinishOrphan
<1>11. ASSUME NEW r \in results, Take(r)
      PROVE  Ends'
  BY <1>11 DEF Take, WithReplay
<1>12. ASSUME Save
      PROVE  Ends'
  BY <1>12 DEF Save
<1>13. ASSUME Continue
      PROVE  Ends'
  BY <1>13 DEF Continue
<1>14. ASSUME Stop
      PROVE  Ends'
  BY <1>14 DEF Stop
<1>15. ASSUME LoopEnds
      PROVE  Ends'
  BY <1>15 DEF LoopEnds
<1>16. ASSUME SaveAll
      PROVE  Ends'
  BY <1>16 DEF SaveAll
<1>17. ASSUME WriteArtifact
      PROVE  Ends'
  BY <1>17 DEF WriteArtifact
<1>18. ASSUME DeriveEnds
      PROVE  Ends'
  BY <1>18 DEF DeriveEnds
<1>19. ASSUME Close
      PROVE  Ends'
  BY <1>19 DEF Close
<1>20. ASSUME Drain
      PROVE  Ends'
  BY <1>20 DEF Drain
<1>21. ASSUME RequestStop
      PROVE  Ends'
  BY <1>21 DEF RequestStop
<1>22. ASSUME Raise
      PROVE  Ends'
  BY <1>22 DEF Raise
<1>23. ASSUME Crash
      PROVE  Ends'
  BY <1>23 DEF Crash
<1>24. CASE UNCHANGED vars
  BY <1>24 DEF vars
<1> QED
  BY <1>1, <1>2, <1>3, <1>4, <1>5, <1>6, <1>7, <1>8, <1>9, <1>10, <1>11,
     <1>12, <1>13, <1>14, <1>15, <1>16, <1>17, <1>18, <1>19, <1>20, <1>21,
     <1>22, <1>23, <1>24 DEF Next, Run

\* Typed, Rows and Ends hold in every reachable state.
LEMMA EndsAlways == Spec => [](Typed /\ Rows /\ Ends)
BY TypedInit, TypedStep, RowsInit, RowsStep, EndsInit, EndsStep, PTL DEF Spec

\* Only attempts that were killed leave workers behind, and a stopped one saved
\* what it computed.
THEOREM StopsAreDrained == Spec => []StoppedIsDrained
<1>1. Typed /\ Ends => StoppedIsDrained
  BY DEF Typed, Engaged, Ends, StoppedIsDrained
<1> QED
  BY <1>1, EndsAlways, PTL

\* What a completed attempt leaves is complete and derived from its own rows.
THEOREM CompletionIsConsistent == Spec => []CompletedConsistent
<1>1. Ends => CompletedConsistent
  BY DEF Ends, Consistent, CompletedConsistent
<1> QED
  BY <1>1, EndsAlways, PTL

-----------------------------------------------------------------------------
\* Initially there is no derived file.
LEMMA OwnInit == Init => Own
BY DEF Init, Own

\* A step mixes no configurations, unless it interrupts --force.
LEMMA OwnStep ==
    Typed /\ Rows /\ Own /\ [Next]_vars => Own'
<1> SUFFICES ASSUME Typed, Rows, Own, [Next]_vars PROVE Own'
  OBVIOUS
<1> USE RunAssumption DEF Typed, TypeOK, Engaged, Phases, Looping, files,
        executor, job, history, Rows, Memory, Working, Own
<1>1. ASSUME NEW c \in Configs, NEW f \in BOOLEAN, Begin(c, f)
     PROVE  Own'
  BY <1>1 DEF Begin, Owned, Position, Artifacts
<1>2. ASSUME CleanFile
     PROVE  Own'
  BY <1>2 DEF CleanFile
<1>3. ASSUME CleanEnds
     PROVE  Own'
  BY <1>3 DEF CleanEnds
<1>4. ASSUME Refuse
     PROVE  Own'
  BY <1>4 DEF Refuse
<1>5. ASSUME Admit
     PROVE  Own'
  BY <1>5 DEF Admit, Foreign, ForeignInstances
<1>6. ASSUME Publish
     PROVE  Own'
  BY <1>6 DEF Publish
<1>7. ASSUME Launch
     PROVE  Own'
  BY <1>7 DEF Launch
<1>8. ASSUME NEW t \in Tasks, StartTask(t)
     PROVE  Own'
  BY <1>8 DEF StartTask
<1>9. ASSUME NEW w \in running, NEW e \in BOOLEAN, FinishTask(w, e)
     PROVE  Own'
  BY <1>9 DEF FinishTask
<1>10. ASSUME NEW w \in running, FinishOrphan(w)
      PROVE  Own'
  BY <1>10 DEF FinishOrphan
<1>11. ASSUME NEW r \in results, Take(r)
      PROVE  Own'
  BY <1>11 DEF Take, WithReplay
<1>12. ASSUME Save
      PROVE  Own'
  BY <1>12 DEF Save
<1>13. ASSUME Continue
      PROVE  Own'
  BY <1>13 DEF Continue
<1>14. ASSUME Stop
      PROVE  Own'
  BY <1>14 DEF Stop
<1>15. ASSUME LoopEnds
      PROVE  Own'
  BY <1>15 DEF LoopEnds
<1>16. ASSUME SaveAll
      PROVE  Own'
  BY <1>16 DEF SaveAll
<1>17. ASSUME WriteArtifact
      PROVE  Own'
  BY <1>17 DEF WriteArtifact
<1>18. ASSUME DeriveEnds
      PROVE  Own'
  BY <1>18 DEF DeriveEnds
<1>19. ASSUME Close
      PROVE  Own'
  BY <1>19 DEF Close
<1>20. ASSUME Drain
      PROVE  Own'
  BY <1>20 DEF Drain
<1>21. ASSUME RequestStop
      PROVE  Own'
  BY <1>21 DEF RequestStop
<1>22. ASSUME Raise
      PROVE  Own'
  BY <1>22 DEF Raise
<1>23. ASSUME Crash
      PROVE  Own'
  BY <1>23 DEF Crash
<1>24. CASE UNCHANGED vars
  BY <1>24 DEF vars
<1> QED
  BY <1>1, <1>2, <1>3, <1>4, <1>5, <1>6, <1>7, <1>8, <1>9, <1>10, <1>11,
     <1>12, <1>13, <1>14, <1>15, <1>16, <1>17, <1>18, <1>19, <1>20, <1>21,
     <1>22, <1>23, <1>24 DEF Next, Run

\* Unless the last --force was interrupted, a directory that passes the check of
\* _check_output_identity for a configuration serves only files derived for it.
THEOREM ServesItsOwn == Spec => []ServesOwnUnlessTorn
<1>1. Typed /\ Rows /\ Own /\ [Next]_vars => Own'
  BY OwnStep
<1>2. Own => ServesOwnUnlessTorn
  BY DEF Own, ServesOwnUnlessTorn, ServesOwn, Serves
<1> QED
  BY <1>1, <1>2, OwnInit, RowsAlways, PTL DEF Spec

-----------------------------------------------------------------------------
\* Two numbers with the same quotient, or so close that it must be the same.
LEMMA SameQuotient ==
    ASSUME NEW i \in Nat \ {0}, NEW p \in Int, NEW q \in Int,
           NEW s \in 0 .. i - 1, NEW t \in 1 .. i - 1, i * p + s + 1 = i * q + t
    PROVE  p = q
<1>1. CASE p + 1 <= q
  <2>1. i * (p + 1) <= i * q
    BY <1>1, SMTT(20)
  <2> QED
    BY <2>1, SMTT(20)
<1>2. CASE q + 1 <= p
  <2>1. i * (q + 1) <= i * p
    BY <1>2, SMTT(20)
  <2> QED
    BY <2>1, SMTT(20)
<1> QED
  BY <1>1, <1>2

\* The remainder grows with the counter until it is a multiple again.
LEMMA NextRemainder ==
    ASSUME NEW n \in Nat, NEW i \in Nat \ {0}, (n + 1) % i # 0
    PROVE  (n + 1) % i = (n % i) + 1
<1> DEFINE p == n \div i
           q == (n + 1) \div i
           s == n % i
           t == (n + 1) % i
<1>1. n = i * p + s
  <2>1. n % i = n - i * (n \div i)
    BY Z3
  <2> QED
    BY <2>1, Z3
<1>2. n + 1 = i * q + t
  <2>1. (n + 1) % i = (n + 1) - i * ((n + 1) \div i)
    BY Z3
  <2> QED
    BY <2>1, Z3
<1>3. p \in Int /\ q \in Int /\ s \in 0 .. i - 1 /\ t \in 0 .. i - 1
  OBVIOUS
<1>4. t \in 1 .. i - 1
  BY <1>3
<1> HIDE DEF p, q, s, t
<1>5. i * p + s + 1 = i * q + t
  BY <1>1, <1>2, <1>3
<1>6. p = q
  BY <1>3, <1>4, <1>5, SameQuotient
<1>7. t = s + 1
  <2>1. i * p \in Int /\ i * p + s + 1 = i * p + t
    BY <1>3, <1>5, <1>6
  <2> QED
    BY <2>1, <1>3
<1> QED
  BY <1>7 DEF s, t

\* A remainder is a number below the divisor.
LEMMA Remainder ==
    ASSUME NEW n \in Nat, NEW i \in Nat \ {0}
    PROVE  n % i \in 0 .. i - 1
OBVIOUS

\* Nothing unsaved is within every bound.
LEMMA NothingUnsaved ==
    ASSUME NEW S, S = {}, NEW n \in Nat
    PROVE  /\ IsFiniteSet(S) /\ Cardinality(S) <= Interval
           /\ Cardinality(S) <= n % Interval
<1>1. IsFiniteSet(S) /\ Cardinality(S) = 0
  BY FS_EmptySet
<1>2. n % Interval \in Nat /\ Interval \in Nat
  BY Remainder, RunAssumption
<1> QED
  BY <1>1, <1>2

\* Initially nothing is in memory.
LEMMA BoundedInit == Init => Bounded
<1> SUFFICES ASSUME Init PROVE Bounded
  OBVIOUS
<1>1. Unsaved = {} /\ records = {} /\ pc = "idle"
  BY DEF Init, Unsaved
<1> QED
  BY <1>1, NothingUnsaved DEF Bounded

\* A record adds one to what is unsaved, and one to the counter.
LEMMA BoundedTake ==
    ASSUME Typed, Rows, Bounded, NEW r \in results, Take(r)
    PROVE  Bounded'
<1> USE RunAssumption
<1>1. pc = "take" /\ raw' = raw /\ records' = records \cup {r}
      /\ taken' = taken + 1 /\ taken \in Nat
      /\ pc' = IF taken' % Interval = 0 THEN "save" ELSE "poll"
  BY DEF Take, WithReplay, Typed, TypeOK
<1>2. IsFiniteSet(Unsaved) /\ Cardinality(Unsaved) <= taken % Interval
  BY <1>1 DEF Bounded
<1>3. Unsaved' = Unsaved \/ Unsaved' = Unsaved \cup {r}
  BY <1>1 DEF Unsaved
<1>4. /\ IsFiniteSet(Unsaved \cup {r}) /\ Cardinality(Unsaved) \in Nat
      /\ \/ Cardinality(Unsaved \cup {r}) = Cardinality(Unsaved)
         \/ Cardinality(Unsaved \cup {r}) = Cardinality(Unsaved) + 1
  <2>1. Cardinality(Unsaved) \in Nat
    BY <1>2, FS_CardinalityType
  <2>2. /\ IsFiniteSet(Unsaved \cup {r})
        /\ Cardinality(Unsaved \cup {r}) = IF r \in Unsaved THEN Cardinality(Unsaved)
                                          ELSE Cardinality(Unsaved) + 1
    BY <1>2, FS_AddElement
  <2> QED
    BY <2>1, <2>2
<1>5. taken % Interval \in 0 .. Interval - 1
  BY <1>1, Remainder
<1>6. IsFiniteSet(Unsaved') /\ Cardinality(Unsaved') <= (taken % Interval) + 1
  <2>1. CASE Unsaved' = Unsaved
    BY <2>1, <1>2, <1>4, <1>5
  <2>2. CASE Unsaved' = Unsaved \cup {r}
    <3>1. IsFiniteSet(Unsaved') /\ Cardinality(Unsaved') = Cardinality(Unsaved \cup {r})
      BY <2>2, <1>4
    <3> QED
      BY <3>1, <1>2, <1>4, <1>5
  <2> QED
    BY <1>3, <2>1, <2>2
<1>7. Cardinality(Unsaved') <= Interval
  <2>1. Cardinality(Unsaved') \in Nat
    BY <1>6, FS_CardinalityType
  <2> QED
    BY <2>1, <1>5, <1>6
<1>8. CASE (taken + 1) % Interval = 0
  <2>1. pc' = "save"
    BY <1>1, <1>8
  <2> QED
    BY <2>1, <1>6, <1>7 DEF Bounded
<1>9. CASE (taken + 1) % Interval # 0
  <2>1. (taken + 1) % Interval = (taken % Interval) + 1
    BY <1>1, <1>9, NextRemainder
  <2>2. Cardinality(Unsaved') <= taken' % Interval
    BY <1>1, <1>6, <2>1
  <2>3. pc' = "poll"
    BY <1>1, <1>9
  <2> QED
    BY <1>6, <1>7, <2>2, <2>3 DEF Bounded
<1> QED
  BY <1>8, <1>9

\* No other step adds to what is unsaved.
LEMMA BoundedStep == Typed /\ Rows /\ Bounded /\ [Next]_vars => Bounded'
<1> SUFFICES ASSUME Typed, Rows, Bounded, [Next]_vars PROVE Bounded'
  OBVIOUS
<1> USE DEF files, executor, job, history, Bounded, Unsaved
<1>0. taken' \in Nat
  BY TypedStep DEF Typed, TypeOK
<1>1. ASSUME NEW c \in Configs, NEW f \in BOOLEAN, Begin(c, f)
     PROVE  Bounded'
  <2>1. Unsaved' = {} /\ records' = {}
    BY <1>1 DEF Begin
  <2> QED
    BY <2>1, <1>0, NothingUnsaved
<1>2. ASSUME CleanFile
     PROVE  Bounded'
  <2>1. Unsaved' = {} /\ records' = {} /\ pc' = "clean"
    BY <1>2 DEF CleanFile
  <2> QED
    BY <2>1, <1>0, NothingUnsaved
<1>3. ASSUME CleanEnds
     PROVE  Bounded'
  <2>1. Unsaved' = {} /\ records' = {} /\ pc' = "check"
    BY <1>3 DEF CleanEnds
  <2> QED
    BY <2>1, <1>0, NothingUnsaved
<1>4. ASSUME Refuse
     PROVE  Bounded'
  BY <1>4 DEF Refuse
<1>5. ASSUME Admit
     PROVE  Bounded'
  <2>1. Unsaved' = {} /\ pc' = "tell"
    BY <1>5 DEF Admit
  <2> QED
    BY <2>1, <1>0, NothingUnsaved
<1>6. ASSUME Publish
     PROVE  Bounded'
  <2>1. Unsaved' = {} /\ pc' \notin {"clean", "check"}
    BY <1>6 DEF Publish, Typed, TypeOK
  <2> QED
    BY <2>1, <1>0, NothingUnsaved
<1>7. ASSUME Launch
     PROVE  Bounded'
  <2>1. Unsaved' = {} /\ pc' = "take"
    BY <1>7 DEF Launch
  <2> QED
    BY <2>1, <1>0, NothingUnsaved
<1>8. ASSUME NEW t \in Tasks, StartTask(t)
     PROVE  Bounded'
  BY <1>8 DEF StartTask
<1>9. ASSUME NEW w \in running, NEW e \in BOOLEAN, FinishTask(w, e)
     PROVE  Bounded'
  BY <1>9 DEF FinishTask
<1>10. ASSUME NEW w \in running, FinishOrphan(w)
      PROVE  Bounded'
  BY <1>10 DEF FinishOrphan
<1>11. ASSUME NEW r \in results, Take(r)
      PROVE  Bounded'
  BY <1>11, BoundedTake
<1>12. ASSUME Save
      PROVE  Bounded'
  <2>1. Unsaved' = {} /\ pc' = "tell"
    BY <1>12 DEF Save
  <2> QED
    BY <2>1, <1>0, NothingUnsaved
<1>13. ASSUME Continue
      PROVE  Bounded'
  BY <1>13 DEF Continue
<1>14. ASSUME Stop
      PROVE  Bounded'
  <2>1. Unsaved' = {} /\ pc' = "tell"
    BY <1>14 DEF Stop
  <2> QED
    BY <2>1, <1>0, NothingUnsaved
<1>15. ASSUME LoopEnds
      PROVE  Bounded'
  BY <1>15 DEF LoopEnds
<1>16. ASSUME SaveAll
      PROVE  Bounded'
  <2>1. Unsaved' = {} /\ pc' = "tell"
    BY <1>16 DEF SaveAll
  <2> QED
    BY <2>1, <1>0, NothingUnsaved
<1>17. ASSUME WriteArtifact
      PROVE  Bounded'
  BY <1>17 DEF WriteArtifact
<1>18. ASSUME DeriveEnds
      PROVE  Bounded'
  BY <1>18 DEF DeriveEnds
<1>19. ASSUME Close
      PROVE  Bounded'
  BY <1>19 DEF Close
<1>20. ASSUME Drain
      PROVE  Bounded'
  BY <1>20 DEF Drain
<1>21. ASSUME RequestStop
      PROVE  Bounded'
  BY <1>21 DEF RequestStop
<1>22. ASSUME Raise
      PROVE  Bounded'
  BY <1>22 DEF Raise
<1>23. ASSUME Crash
      PROVE  Bounded'
  BY <1>23 DEF Crash
<1>24. CASE UNCHANGED vars
  BY <1>24 DEF vars
<1> QED
  BY <1>1, <1>2, <1>3, <1>4, <1>5, <1>6, <1>7, <1>8, <1>9, <1>10, <1>11,
     <1>12, <1>13, <1>14, <1>15, <1>16, <1>17, <1>18, <1>19, <1>20, <1>21,
     <1>22, <1>23, <1>24 DEF Next, Run

\* At any instant a crash loses at most checkpoint_interval records, and fewer
\* between two runs, whatever was resumed.
THEOREM LossIsBounded == Spec => []LossBounded
<1>1. Typed /\ Bounded => LossBounded
  <2> SUFFICES ASSUME Typed, Bounded
               PROVE  /\ Cardinality(Unsaved) <= Interval
                      /\ pc = "take" => Cardinality(Unsaved) < Interval
    BY DEF LossBounded, Unsaved
  <2>1. IsFiniteSet(Unsaved) /\ Cardinality(Unsaved) <= Interval
    BY DEF Bounded
  <2>2. taken % Interval \in 0 .. Interval - 1
    BY Remainder, RunAssumption DEF Typed, TypeOK
  <2>3. Cardinality(Unsaved) \in Nat
    BY <2>1, FS_CardinalityType
  <2>4. ASSUME pc = "take"
        PROVE  Cardinality(Unsaved) < Interval
    <3>1. Cardinality(Unsaved) <= taken % Interval
      BY <2>4 DEF Bounded
    <3> QED
      BY <3>1, <2>2, <2>3, RunAssumption
  <2> QED
    BY <2>1, <2>4
<1> QED
  BY <1>1, BoundedInit, BoundedStep, RowsAlways, PTL DEF Spec

=============================================================================
