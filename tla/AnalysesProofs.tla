--------------------------- MODULE AnalysesProofs ---------------------------
(***************************************************************************)
(* Proofs about the two parts that end a study, which share no state.      *)
(*                                                                         *)
(* DualBatch, for any numbers of commands and graphs, any wall budget and  *)
(* any clock.  Holders says who holds the lock and which operation belongs *)
(* to whom; Announced ties the active file to the command inside, and      *)
(* Accounts the execution log to the time that operations really took.     *)
(*                                                                         *)
(* Finalization, for any instances, variants and outcomes: what the tables *)
(* of a benchmark are made from is sound, honest results are refused       *)
(* neither by the normalisation nor by a table that only counts, and the   *)
(* tables count the same.  Known says that everything is computed from     *)
(* results whose optima agree.                                             *)
(***************************************************************************)
EXTENDS DualBatch, Finalization, FiniteSetTheorems, WellFoundedInduction, TLAPS

\* The variables by kind: numbers, the directory, and the commands.
Numbers ==
    /\ entries \in [Operations -> Nat] /\ charged \in [Operations -> Nat]
    /\ total \in Nat /\ commands \in 0 .. MaxCommands
    /\ prior \in [Slots -> Nat] /\ began \in [Slots -> Nat]
    /\ quota \in [Slots -> Nat] /\ now \in Nat
    /\ spent \in [Operations -> Nat \cup {None}] /\ used \in Nat

Directory ==
    /\ lock \in Slots \cup {None} /\ active \in Contents
    /\ config \in BOOLEAN /\ touched \in BOOLEAN
    /\ graphs \in [Graphs -> {"none", "good", "bad"}]
    /\ analysis \in {"absent", "incomplete", "complete"}

Courses ==
    /\ pc \in [Slots -> {"idle", "enter", "leaving"} \cup Holding]
    /\ kind \in [Slots -> Kinds]
    /\ op \in [Slots -> {None} \cup Operations]
    /\ after \in [Slots -> Working]

Data ==
    /\ tables \in [Tables -> {None} \cup SUBSET Record]
    /\ todo \in [Slots -> SUBSET Graphs]
    /\ hand \in [Slots -> {None} \cup Record]
    /\ rows \in [Slots -> SUBSET Record]

\* What a command does next, behind a check.
Heading(s) == IF pc[s] = "check" THEN after[s] ELSE pc[s]

Ready ==
    \A s \in Slots :
        /\ began[s] <= now
        /\ Heading(s) = "compute" => quota[s] > 0
        /\ Heading(s) = "verify" => hand[s] # None

Typed == Numbers /\ Directory /\ Courses /\ Data /\ Ready

Holders ==
    /\ \A s \in Slots : op[s] = None <=> pc[s] = "idle"
    /\ \A s, t \in Slots : op[s] # None /\ op[s] = op[t] => s = t
    /\ \A s \in Slots : op[s] # None => op[s] <= commands
    /\ \A s \in Slots : pc[s] \in Holding <=> lock = s

\* Commands that have not been charged yet.
Uncharged == {"enter"} \cup Entering \cup Working \cup {"log"}

Announced ==
    /\ active.state = "written" =>
        /\ active.op \in Operations /\ active.op <= commands
        /\ active.began <= now
    /\ \A o \in Operations : entries[o] # 0 \/ spent[o] # None => o <= commands
    /\ \A s \in Slots : pc[s] \in Uncharged =>
           entries[op[s]] = 0 /\ spent[op[s]] = None
    /\ \A s \in Slots :
        /\ pc[s] = "create" => active.state = "absent"
        /\ pc[s] = "write" => active.state = "empty"
        /\ pc[s] \in Working \cup {"log", "unlink"} =>
               active.state = "written" /\ active.op = op[s]
        /\ pc[s] \in Working \cup {"log"} => active.began = began[s]
        /\ pc[s] = "unlink" => entries[op[s]] = 1
        /\ pc[s] = "forget" =>
               /\ active.state = "written" /\ entries[active.op] = 1
               /\ \A t \in Slots : op[t] # active.op

\* An operation that is over without an entry.
Owed(o) == spent[o] # None /\ entries[o] = 0

Accounts ==
    /\ \A o \in Operations :
        /\ entries[o] \in {0, 1}
        /\ entries[o] = 0 => charged[o] = 0
        /\ entries[o] = 1 /\ spent[o] # None => charged[o] >= spent[o]
        /\ Owed(o) =>
               \/ active.state = "empty"
               \/ active.state = "written" /\ active.op = o
                  /\ now - active.began >= spent[o]
    /\ \A s \in Slots : pc[s] \in {"create", "write"} =>
           \A o \in Operations : ~Owed(o)

\* What the history charges, and the time that is really used.
Funds ==
    /\ active.state = "absent" => total >= used
    /\ active.state = "written" =>
        /\ Owed(active.op) => total + spent[active.op] >= used
        /\ ~Owed(active.op) => total >= used
    /\ \A s \in Slots : pc[s] \in {"forget", "create", "write", "log"} \cup Working =>
           prior[s] = total /\ total >= used
    /\ \A s \in Slots : pc[s] = "compute" => prior[s] + active.elapsed < Limit

\* All that an analysis of these checkpoints can write.
Full == Graphs \X {"good"}

\* Outside the loops a command holds no records; an analysis has read, or has
\* still to read, every checkpoint, and keeps what is good.
Reading ==
    /\ \A s \in Slots :
        /\ Heading(s) \notin {"next", "verify", "compute", "save", "report"} =>
               rows[s] = {} /\ todo[s] = {}
        /\ Heading(s) # "verify" => hand[s] = None
        /\ kind[s] = "analysis" =>
            /\ Heading(s) # "compute"
            /\ rows[s] \subseteq Full
            /\ Heading(s) \in {"next", "verify", "save", "report"} =>
                \A g \in Graphs : \/ g \in todo[s] \/ <<g, "good">> \in rows[s]
                                  \/ hand[s] # None /\ hand[s][1] = g
            /\ Heading(s) \in {"save", "report"} => rows[s] = Full
            /\ Heading(s) = "report" => \A t \in Tables : tables[t] = Full
        /\ Heading(s) = "save" => kind[s] = "analysis"
    /\ TablesVerified

-----------------------------------------------------------------------------
\* The parts make up the types.
LEMMA Parts == Typed => TypeOK
BY DEF Typed, Numbers, Directory, Courses, Data, TypeOK

\* The initial state is typed.
LEMMA TypedInit == Init => Typed
<1> SUFFICES ASSUME Init PROVE Typed
  OBVIOUS
<1> USE DualAssumption DEF Init, Kinds, Tables, Operations, Entering, Working, Closing, Holding, account, files, work, command, history, GoTo, Record, Contents, Blank
<1>1. Numbers
  BY DEF Numbers
<1>2. Directory
  BY DEF Directory
<1>3. Courses
  BY DEF Courses
<1>4. Data
  BY DEF Data
<1>5. Ready
  BY DEF Ready, Heading
<1> QED
  BY <1>1, <1>2, <1>3, <1>4, <1>5 DEF Typed

\* The time that an operation has taken is a number.
LEMMA ElapsedTyped == ASSUME Typed, NEW s \in Slots PROVE Elapsed(s) \in Nat
BY DEF Typed, Numbers, Ready, Elapsed

\* What an operation took, and what is charged for it, add up.
LEMMA EndsTyped ==
    ASSUME Numbers, NEW o, NEW seconds \in Nat, Ends(o, seconds)
    PROVE  spent' \in [Operations -> Nat \cup {None}] /\ used' \in Nat
<1>1. spent' = [spent EXCEPT ![o] = seconds]
      /\ spent \in [Operations -> Nat \cup {None}]
  BY DEF Ends, Numbers
<1>2. seconds \in Nat \cup {None}
  OBVIOUS
<1>3. spent' \in [Operations -> Nat \cup {None}]
  BY <1>1, <1>2, Zenon
<1> QED
  BY <1>3 DEF Ends, Numbers

LEMMA AppendTyped ==
    ASSUME Numbers, NEW o, NEW seconds \in Nat, Append(o, seconds)
    PROVE  /\ entries' \in [Operations -> Nat] /\ charged' \in [Operations -> Nat]
           /\ total' \in Nat
<1>1. /\ entries' = [entries EXCEPT ![o] = entries[o] + 1]
      /\ entries \in [Operations -> Nat]
  BY DEF Append, Numbers
<1>2. /\ charged' = [charged EXCEPT ![o] = charged[o] + seconds]
      /\ charged \in [Operations -> Nat]
  BY DEF Append, Numbers
<1>3. total' \in Nat
  BY DEF Append, Numbers
<1>4. entries' \in [Operations -> Nat]
  BY <1>1, \A x \in Operations : entries[x] + 1 \in Nat
<1>5. charged' \in [Operations -> Nat]
  BY <1>2, \A x \in Operations : charged[x] + seconds \in Nat
<1> QED
  BY <1>3, <1>4, <1>5

\* Every step keeps the numbers.
LEMMA CountsStep == Typed /\ [Next]_vars => Numbers'
<1> SUFFICES ASSUME Typed, [Next]_vars PROVE Numbers'
  OBVIOUS
<1> USE DualAssumption DEF Typed
<1>1. ASSUME NEW s \in Slots, NEW k \in Kinds, NEW n \in {0} \cup Quotas, Start(s, k, n)
     PROVE  Numbers'
  <2>1. commands' \in 0 .. MaxCommands
    BY <1>1 DEF Start, Numbers
  <2>2. quota' \in [Slots -> Nat]
    BY <1>1, DualAssumption DEF Start, Numbers
  <2> QED
    BY <1>1, <2>1, <2>2 DEF Start, Numbers, account, history
<1>2. ASSUME NEW s \in Slots, AcquireLock(s)
     PROVE  Numbers'
  BY <1>2 DEF AcquireLock, Numbers, account, files, work, command, history
<1>3. ASSUME NEW s \in Slots, EnterClean(s)
     PROVE  Numbers'
  BY <1>3 DEF EnterClean, Numbers, account, files, work, command, history
<1>4. ASSUME NEW s \in Slots, Recover(s)
     PROVE  Numbers'
  <2> DEFINE seconds == IF entries[active.op] = 0
                        THEN Larger(active.elapsed, now - active.began) ELSE 0
  <2>1. seconds \in Nat
    BY DEF Directory, Contents, Numbers, Larger
  <2>2. IF entries[active.op] = 0 THEN Append(active.op, seconds)
        ELSE UNCHANGED <<entries, charged, total>>
    BY <1>4 DEF Recover
  <2>3. prior' = [prior EXCEPT ![s] = total + seconds]
    BY <1>4 DEF Recover
  <2> HIDE DEF seconds
  <2>4. entries' \in [Operations -> Nat] /\ charged' \in [Operations -> Nat]
        /\ total' \in Nat
    BY <2>1, <2>2, AppendTyped DEF Numbers
  <2>5. prior' \in [Slots -> Nat]
    BY <2>1, <2>3 DEF Numbers
  <2> QED
    BY <1>4, <2>4, <2>5 DEF Recover, Numbers, work, history
<1>5. ASSUME NEW s \in Slots, Forget(s)
     PROVE  Numbers'
  BY <1>5 DEF Forget, Numbers, account, files, work, command, history
<1>6. ASSUME NEW s \in Slots, Refuse(s)
     PROVE  Numbers'
  BY <1>6 DEF Refuse, Numbers, account, files, work, command, history
<1>7. ASSUME NEW s \in Slots, Create(s)
     PROVE  Numbers'
  BY <1>7 DEF Create, Numbers, account, files, work, command, history
<1>8. ASSUME NEW s \in Slots, Write(s)
     PROVE  Numbers'
  BY <1>8 DEF Write, Numbers, account, files, work, command, history
<1>9. ASSUME NEW s \in Slots, Check(s)
     PROVE  Numbers'
  <2>1. Elapsed(s) \in Nat
    BY ElapsedTyped
  <2>2. spent' \in [Operations -> Nat \cup {None}] /\ used' \in Nat
    BY <1>9, <2>1, EndsTyped DEF Check, Numbers, history
  <2>3. entries' \in [Operations -> Nat] /\ charged' \in [Operations -> Nat]
        /\ total' \in Nat
    BY <1>9, <2>1, AppendTyped DEF Check, Numbers, account, LeaveBody
  <2>4. commands' \in 0 .. MaxCommands /\ now' \in Nat
    BY <1>9 DEF Check, Numbers
  <2>5. prior' \in [Slots -> Nat] /\ began' \in [Slots -> Nat]
    BY <1>9 DEF Check, Numbers, command, LeaveBody
  <2>6. quota' \in [Slots -> Nat]
    BY <1>9 DEF Check, Numbers, work, LeaveBody
  <2> QED
    BY <2>2, <2>3, <2>4, <2>5, <2>6 DEF Numbers
<1>10. ASSUME NEW s \in Slots, Open(s)
     PROVE  Numbers'
  <2>1. Elapsed(s) \in Nat
    BY ElapsedTyped
  <2>2. spent' \in [Operations -> Nat \cup {None}] /\ used' \in Nat
    BY <1>10, <2>1, EndsTyped DEF Open, Numbers, history
  <2>3. entries' \in [Operations -> Nat] /\ charged' \in [Operations -> Nat]
        /\ total' \in Nat
    BY <1>10, <2>1, AppendTyped DEF Open, Numbers, account, LeaveBody
  <2>4. commands' \in 0 .. MaxCommands /\ now' \in Nat
    BY <1>10 DEF Open, Numbers
  <2>5. prior' \in [Slots -> Nat] /\ began' \in [Slots -> Nat]
    BY <1>10 DEF Open, Numbers, command, LeaveBody
  <2>6. quota' \in [Slots -> Nat]
    BY <1>10 DEF Open, Numbers, work, LeaveBody
  <2> QED
    BY <2>2, <2>3, <2>4, <2>5, <2>6 DEF Numbers
<1>11. ASSUME NEW s \in Slots, NEW g \in Graphs, ReadRow(s, g)
     PROVE  Numbers'
  BY <1>11 DEF ReadRow, Numbers, account, files, work, command, history
<1>12. ASSUME NEW s \in Slots, NEW g \in Graphs, Compute(s, g)
     PROVE  Numbers'
  <2>1. quota[s] > 0
    BY <1>12 DEF Compute, Ready, Heading
  <2>2. quota' \in [Slots -> Nat]
    BY <1>12, <2>1 DEF Compute, Numbers
  <2> QED
    BY <1>12, <2>2 DEF Compute, Numbers, account, command, history
<1>13. ASSUME NEW s \in Slots, Verify(s)
     PROVE  Numbers'
  BY <1>13 DEF Verify, Numbers, account, files, work, command, history
<1>14. ASSUME NEW s \in Slots, Turn(s)
     PROVE  Numbers'
  BY <1>14 DEF Turn, Numbers, account, files, work, command, history
<1>15. ASSUME NEW s \in Slots, LoopEnds(s)
     PROVE  Numbers'
  BY <1>15 DEF LoopEnds, Numbers, account, files, work, command, history
<1>16. ASSUME NEW s \in Slots, NEW t \in Tables, SaveTable(s, t)
     PROVE  Numbers'
  BY <1>16 DEF SaveTable, Numbers, account, files, work, command, history
<1>17. ASSUME NEW s \in Slots, Report(s)
     PROVE  Numbers'
  <2>1. Elapsed(s) \in Nat
    BY ElapsedTyped
  <2>2. spent' \in [Operations -> Nat \cup {None}] /\ used' \in Nat
    BY <1>17, <2>1, EndsTyped DEF Report, Numbers, history
  <2>3. entries' \in [Operations -> Nat] /\ charged' \in [Operations -> Nat]
        /\ total' \in Nat
    BY <1>17, <2>1, AppendTyped DEF Report, Numbers, account, LeaveBody
  <2>4. commands' \in 0 .. MaxCommands /\ now' \in Nat
    BY <1>17 DEF Report, Numbers
  <2>5. prior' \in [Slots -> Nat] /\ began' \in [Slots -> Nat]
    BY <1>17 DEF Report, Numbers, command, LeaveBody
  <2>6. quota' \in [Slots -> Nat]
    BY <1>17 DEF Report, Numbers, work, LeaveBody
  <2> QED
    BY <2>2, <2>3, <2>4, <2>5, <2>6 DEF Numbers
<1>18. ASSUME NEW s \in Slots, Log(s)
     PROVE  Numbers'
  <2>1. Elapsed(s) \in Nat
    BY ElapsedTyped
  <2>2. spent' \in [Operations -> Nat \cup {None}] /\ used' \in Nat
    BY <1>18, <2>1, EndsTyped DEF Log, Numbers, history
  <2>3. entries' \in [Operations -> Nat] /\ charged' \in [Operations -> Nat]
        /\ total' \in Nat
    BY <1>18, <2>1, AppendTyped DEF Log, Numbers, account
  <2>4. commands' \in 0 .. MaxCommands /\ now' \in Nat
    BY <1>18 DEF Log, Numbers
  <2>5. prior' \in [Slots -> Nat] /\ began' \in [Slots -> Nat]
    BY <1>18 DEF Log, Numbers, command
  <2>6. quota' \in [Slots -> Nat]
    BY <1>18 DEF Log, Numbers, work
  <2> QED
    BY <2>2, <2>3, <2>4, <2>5, <2>6 DEF Numbers
<1>19. ASSUME NEW s \in Slots, Unlink(s)
     PROVE  Numbers'
  BY <1>19 DEF Unlink, Numbers, account, files, work, command, history
<1>20. ASSUME NEW s \in Slots, Release(s)
     PROVE  Numbers'
  BY <1>20 DEF Release, Numbers, account, files, work, command, history
<1>21. ASSUME NEW s \in Slots, Leave(s)
     PROVE  Numbers'
  <2>1. Elapsed(s) \in Nat
    BY ElapsedTyped
  <2>2. spent' \in [Operations -> Nat \cup {None}] /\ used' \in Nat
    BY <1>21, <2>1, EndsTyped DEF Leave, Numbers, history
  <2>3. entries' \in [Operations -> Nat] /\ charged' \in [Operations -> Nat]
        /\ total' \in Nat
    BY <1>21, <2>1, AppendTyped DEF Leave, Numbers, account, Forgotten, LeaveBody
  <2>4. commands' \in 0 .. MaxCommands /\ now' \in Nat
    BY <1>21 DEF Leave, Numbers
  <2>5. prior' \in [Slots -> Nat] /\ began' \in [Slots -> Nat]
    BY <1>21 DEF Leave, Numbers, command, Forgotten, LeaveBody
  <2>6. quota' \in [Slots -> Nat]
    BY <1>21 DEF Leave, Numbers, work, Forgotten, LeaveBody
  <2> QED
    BY <2>2, <2>3, <2>4, <2>5, <2>6 DEF Numbers
<1>22. ASSUME NEW s \in Slots, Raise(s)
     PROVE  Numbers'
  <2>1. Elapsed(s) \in Nat
    BY ElapsedTyped
  <2>2. spent' \in [Operations -> Nat \cup {None}] /\ used' \in Nat
    BY <1>22, <2>1, EndsTyped DEF Raise, Numbers, history
  <2>3. entries' \in [Operations -> Nat] /\ charged' \in [Operations -> Nat]
        /\ total' \in Nat
    BY <1>22, <2>1, AppendTyped DEF Raise, Numbers, account, LeaveBody
  <2>4. commands' \in 0 .. MaxCommands /\ now' \in Nat
    BY <1>22 DEF Raise, Numbers
  <2>5. prior' \in [Slots -> Nat] /\ began' \in [Slots -> Nat]
    BY <1>22 DEF Raise, Numbers, command, LeaveBody
  <2>6. quota' \in [Slots -> Nat]
    BY <1>22 DEF Raise, Numbers, work, LeaveBody
  <2> QED
    BY <2>2, <2>3, <2>4, <2>5, <2>6 DEF Numbers
<1>23. ASSUME NEW s \in Slots, LogFails(s)
     PROVE  Numbers'
  <2>1. Elapsed(s) \in Nat
    BY ElapsedTyped
  <2>2. spent' \in [Operations -> Nat \cup {None}] /\ used' \in Nat
    BY <1>23, <2>1, EndsTyped DEF LogFails, Numbers, history
  <2>3. entries' \in [Operations -> Nat] /\ charged' \in [Operations -> Nat]
        /\ total' \in Nat
    BY <1>23, <2>1, AppendTyped DEF LogFails, Numbers, account
  <2>4. commands' \in 0 .. MaxCommands /\ now' \in Nat
    BY <1>23 DEF LogFails, Numbers
  <2>5. prior' \in [Slots -> Nat] /\ began' \in [Slots -> Nat]
    BY <1>23 DEF LogFails, Numbers, command
  <2>6. quota' \in [Slots -> Nat]
    BY <1>23 DEF LogFails, Numbers, work
  <2> QED
    BY <2>2, <2>3, <2>4, <2>5, <2>6 DEF Numbers
<1>24. ASSUME NEW s \in Slots, UnlinkFails(s)
     PROVE  Numbers'
  BY <1>24 DEF UnlinkFails, Numbers, account, files, work, command, history
<1>25. ASSUME NEW s \in Slots, Kill(s)
     PROVE  Numbers'
  <2>1. Elapsed(s) \in Nat
    BY ElapsedTyped
  <2>2. spent' \in [Operations -> Nat \cup {None}] /\ used' \in Nat
    BY <1>25, <2>1, EndsTyped DEF Kill, Numbers, history
  <2>3. entries' \in [Operations -> Nat] /\ charged' \in [Operations -> Nat]
        /\ total' \in Nat
    BY <1>25, <2>1, AppendTyped DEF Kill, Numbers, account, Forgotten, LeaveBody
  <2>4. commands' \in 0 .. MaxCommands /\ now' \in Nat
    BY <1>25 DEF Kill, Numbers
  <2>5. prior' \in [Slots -> Nat] /\ began' \in [Slots -> Nat]
    BY <1>25 DEF Kill, Numbers, command, Forgotten, LeaveBody
  <2>6. quota' \in [Slots -> Nat]
    BY <1>25 DEF Kill, Numbers, work, Forgotten, LeaveBody
  <2> QED
    BY <2>2, <2>3, <2>4, <2>5, <2>6 DEF Numbers
<1>26. ASSUME Tick
     PROVE  Numbers'
  BY <1>26 DEF Tick, Numbers, account, files, work, command, history
<1>27. ASSUME NEW g \in Graphs, NEW state \in {"none", "bad"}, Touch(g, state)
     PROVE  Numbers'
  BY <1>27 DEF Touch, Numbers, account, files, work, command, history
<1>28. CASE UNCHANGED vars
  BY <1>28 DEF vars, Numbers, account, files, work, command, history
<1> HIDE DEF Typed
<1> QED
  BY <1>1, <1>2, <1>3, <1>4, <1>5, <1>6, <1>7, <1>8, <1>9, <1>10, <1>11,
     <1>12, <1>13, <1>14, <1>15, <1>16, <1>17, <1>18, <1>19, <1>20,
     <1>21, <1>22, <1>23, <1>24, <1>25, <1>26, <1>27, <1>28 DEF Next, Run

\* Every step keeps the types of the files.
LEMMA DirectoryStep == Typed /\ [Next]_vars => Directory'
<1> SUFFICES ASSUME Typed, [Next]_vars PROVE Directory'
  OBVIOUS
<1> USE DualAssumption DEF Typed, Numbers, Directory, Courses, Ready, Kinds,
        Tables, Operations, Entering, Working, Closing, Holding, account,
        files, work, command, history, GoTo, Contents, Blank, Elapsed
<1>1. ASSUME NEW s \in Slots, NEW k \in Kinds, NEW n \in {0} \cup Quotas, Start(s, k, n)
     PROVE  Directory'
  BY <1>1 DEF Start
<1>2. ASSUME NEW s \in Slots, AcquireLock(s)
     PROVE  Directory'
  BY <1>2 DEF AcquireLock
<1>3. ASSUME NEW s \in Slots, EnterClean(s)
     PROVE  Directory'
  BY <1>3 DEF EnterClean
<1>4. ASSUME NEW s \in Slots, Recover(s)
     PROVE  Directory'
  BY <1>4 DEF Recover
<1>5. ASSUME NEW s \in Slots, Forget(s)
     PROVE  Directory'
  BY <1>5 DEF Forget
<1>6. ASSUME NEW s \in Slots, Refuse(s)
     PROVE  Directory'
  BY <1>6 DEF Refuse
<1>7. ASSUME NEW s \in Slots, Create(s)
     PROVE  Directory'
  BY <1>7 DEF Create
<1>8. ASSUME NEW s \in Slots, Write(s)
     PROVE  Directory'
  BY <1>8 DEF Write
<1>9. ASSUME NEW s \in Slots, Check(s)
     PROVE  Directory'
  <2>1. Elapsed(s) \in Nat /\ began[s] \in Nat
    BY ElapsedTyped
  <2>2. op[s] \in Operations \cup {None}
    OBVIOUS
  <2>3. active' \in Contents
    BY <1>9, <2>1, <2>2 DEF Check
  <2> QED
    BY <1>9, <2>3 DEF Check
<1>10. ASSUME NEW s \in Slots, Open(s)
     PROVE  Directory'
  BY <1>10 DEF Open
<1>11. ASSUME NEW s \in Slots, NEW g \in Graphs, ReadRow(s, g)
     PROVE  Directory'
  BY <1>11 DEF ReadRow
<1>12. ASSUME NEW s \in Slots, NEW g \in Graphs, Compute(s, g)
     PROVE  Directory'
  BY <1>12 DEF Compute
<1>13. ASSUME NEW s \in Slots, Verify(s)
     PROVE  Directory'
  BY <1>13 DEF Verify
<1>14. ASSUME NEW s \in Slots, Turn(s)
     PROVE  Directory'
  BY <1>14 DEF Turn
<1>15. ASSUME NEW s \in Slots, LoopEnds(s)
     PROVE  Directory'
  BY <1>15 DEF LoopEnds
<1>16. ASSUME NEW s \in Slots, NEW t \in Tables, SaveTable(s, t)
     PROVE  Directory'
  BY <1>16 DEF SaveTable
<1>17. ASSUME NEW s \in Slots, Report(s)
     PROVE  Directory'
  BY <1>17 DEF Report
<1>18. ASSUME NEW s \in Slots, Log(s)
     PROVE  Directory'
  BY <1>18 DEF Log
<1>19. ASSUME NEW s \in Slots, Unlink(s)
     PROVE  Directory'
  BY <1>19 DEF Unlink
<1>20. ASSUME NEW s \in Slots, Release(s)
     PROVE  Directory'
  BY <1>20 DEF Release
<1>21. ASSUME NEW s \in Slots, Leave(s)
     PROVE  Directory'
  BY <1>21 DEF Leave
<1>22. ASSUME NEW s \in Slots, Raise(s)
     PROVE  Directory'
  BY <1>22 DEF Raise
<1>23. ASSUME NEW s \in Slots, LogFails(s)
     PROVE  Directory'
  BY <1>23 DEF LogFails
<1>24. ASSUME NEW s \in Slots, UnlinkFails(s)
     PROVE  Directory'
  BY <1>24 DEF UnlinkFails
<1>25. ASSUME NEW s \in Slots, Kill(s)
     PROVE  Directory'
  BY <1>25 DEF Kill
<1>26. ASSUME Tick
     PROVE  Directory'
  BY <1>26 DEF Tick
<1>27. ASSUME NEW g \in Graphs, NEW state \in {"none", "bad"}, Touch(g, state)
     PROVE  Directory'
  BY <1>27 DEF Touch
<1>28. CASE UNCHANGED vars
  BY <1>28 DEF vars
<1> QED
  BY <1>1, <1>2, <1>3, <1>4, <1>5, <1>6, <1>7, <1>8, <1>9, <1>10, <1>11,
     <1>12, <1>13, <1>14, <1>15, <1>16, <1>17, <1>18, <1>19, <1>20,
     <1>21, <1>22, <1>23, <1>24, <1>25, <1>26, <1>27, <1>28 DEF Next, Run

\* Every step keeps the types of the control state.
LEMMA CoursesStep == Typed /\ [Next]_vars => Courses'
<1> SUFFICES ASSUME Typed, [Next]_vars PROVE Courses'
  OBVIOUS
<1> USE DualAssumption DEF Typed, Numbers, Courses, Kinds, Tables, Operations,
        Entering, Working, Closing, Holding, account, files, work, command,
        history, GoTo, CheckThen, LeaveBody, Forgotten
<1>1. ASSUME NEW s \in Slots, NEW k \in Kinds, NEW n \in {0} \cup Quotas, Start(s, k, n)
     PROVE  Courses'
  BY <1>1 DEF Start
<1>2. ASSUME NEW s \in Slots, AcquireLock(s)
     PROVE  Courses'
  BY <1>2 DEF AcquireLock
<1>3. ASSUME NEW s \in Slots, EnterClean(s)
     PROVE  Courses'
  BY <1>3 DEF EnterClean
<1>4. ASSUME NEW s \in Slots, Recover(s)
     PROVE  Courses'
  BY <1>4 DEF Recover
<1>5. ASSUME NEW s \in Slots, Forget(s)
     PROVE  Courses'
  BY <1>5 DEF Forget
<1>6. ASSUME NEW s \in Slots, Refuse(s)
     PROVE  Courses'
  BY <1>6 DEF Refuse
<1>7. ASSUME NEW s \in Slots, Create(s)
     PROVE  Courses'
  BY <1>7 DEF Create
<1>8. ASSUME NEW s \in Slots, Write(s)
     PROVE  Courses'
  BY <1>8 DEF Write
<1>9. ASSUME NEW s \in Slots, Check(s)
     PROVE  Courses'
  BY <1>9 DEF Check
<1>10. ASSUME NEW s \in Slots, Open(s)
     PROVE  Courses'
  BY <1>10 DEF Open
<1>11. ASSUME NEW s \in Slots, NEW g \in Graphs, ReadRow(s, g)
     PROVE  Courses'
  BY <1>11 DEF ReadRow
<1>12. ASSUME NEW s \in Slots, NEW g \in Graphs, Compute(s, g)
     PROVE  Courses'
  BY <1>12 DEF Compute
<1>13. ASSUME NEW s \in Slots, Verify(s)
     PROVE  Courses'
  BY <1>13 DEF Verify
<1>14. ASSUME NEW s \in Slots, Turn(s)
     PROVE  Courses'
  BY <1>14 DEF Turn
<1>15. ASSUME NEW s \in Slots, LoopEnds(s)
     PROVE  Courses'
  BY <1>15 DEF LoopEnds
<1>16. ASSUME NEW s \in Slots, NEW t \in Tables, SaveTable(s, t)
     PROVE  Courses'
  BY <1>16 DEF SaveTable
<1>17. ASSUME NEW s \in Slots, Report(s)
     PROVE  Courses'
  BY <1>17 DEF Report
<1>18. ASSUME NEW s \in Slots, Log(s)
     PROVE  Courses'
  BY <1>18 DEF Log
<1>19. ASSUME NEW s \in Slots, Unlink(s)
     PROVE  Courses'
  BY <1>19 DEF Unlink
<1>20. ASSUME NEW s \in Slots, Release(s)
     PROVE  Courses'
  BY <1>20 DEF Release
<1>21. ASSUME NEW s \in Slots, Leave(s)
     PROVE  Courses'
  BY <1>21 DEF Leave
<1>22. ASSUME NEW s \in Slots, Raise(s)
     PROVE  Courses'
  BY <1>22 DEF Raise
<1>23. ASSUME NEW s \in Slots, LogFails(s)
     PROVE  Courses'
  BY <1>23 DEF LogFails
<1>24. ASSUME NEW s \in Slots, UnlinkFails(s)
     PROVE  Courses'
  BY <1>24 DEF UnlinkFails
<1>25. ASSUME NEW s \in Slots, Kill(s)
     PROVE  Courses'
  BY <1>25 DEF Kill
<1>26. ASSUME Tick
     PROVE  Courses'
  BY <1>26 DEF Tick
<1>27. ASSUME NEW g \in Graphs, NEW state \in {"none", "bad"}, Touch(g, state)
     PROVE  Courses'
  BY <1>27 DEF Touch
<1>28. CASE UNCHANGED vars
  BY <1>28 DEF vars
<1> QED
  BY <1>1, <1>2, <1>3, <1>4, <1>5, <1>6, <1>7, <1>8, <1>9, <1>10, <1>11,
     <1>12, <1>13, <1>14, <1>15, <1>16, <1>17, <1>18, <1>19, <1>20,
     <1>21, <1>22, <1>23, <1>24, <1>25, <1>26, <1>27, <1>28 DEF Next, Run

\* Every step keeps the types of the data.
LEMMA DataStep == Typed /\ [Next]_vars => Data'
<1> SUFFICES ASSUME Typed, [Next]_vars PROVE Data'
  OBVIOUS
<1> USE DualAssumption DEF Typed, Courses, Directory, Data, Ready, Heading,
        Kinds, Tables, Operations, Entering, Working, Closing, Holding,
        account, files, work, command, history, GoTo, CheckThen, LeaveBody,
        Forgotten, Record, Existing
<1>1. ASSUME NEW s \in Slots, NEW k \in Kinds, NEW n \in {0} \cup Quotas, Start(s, k, n)
     PROVE  Data'
  BY <1>1 DEF Start
<1>2. ASSUME NEW s \in Slots, AcquireLock(s)
     PROVE  Data'
  BY <1>2 DEF AcquireLock
<1>3. ASSUME NEW s \in Slots, EnterClean(s)
     PROVE  Data'
  BY <1>3 DEF EnterClean
<1>4. ASSUME NEW s \in Slots, Recover(s)
     PROVE  Data'
  BY <1>4 DEF Recover
<1>5. ASSUME NEW s \in Slots, Forget(s)
     PROVE  Data'
  BY <1>5 DEF Forget
<1>6. ASSUME NEW s \in Slots, Refuse(s)
     PROVE  Data'
  BY <1>6 DEF Refuse
<1>7. ASSUME NEW s \in Slots, Create(s)
     PROVE  Data'
  BY <1>7 DEF Create
<1>8. ASSUME NEW s \in Slots, Write(s)
     PROVE  Data'
  BY <1>8 DEF Write
<1>9. ASSUME NEW s \in Slots, Check(s)
     PROVE  Data'
  BY <1>9 DEF Check
<1>10. ASSUME NEW s \in Slots, Open(s)
     PROVE  Data'
  BY <1>10 DEF Open
<1>11. ASSUME NEW s \in Slots, NEW g \in Graphs, ReadRow(s, g)
     PROVE  Data'
  BY <1>11 DEF ReadRow
<1>12. ASSUME NEW s \in Slots, NEW g \in Graphs, Compute(s, g)
     PROVE  Data'
  BY <1>12 DEF Compute
<1>13. ASSUME NEW s \in Slots, Verify(s)
     PROVE  Data'
  BY <1>13 DEF Verify
<1>14. ASSUME NEW s \in Slots, Turn(s)
     PROVE  Data'
  BY <1>14 DEF Turn
<1>15. ASSUME NEW s \in Slots, LoopEnds(s)
     PROVE  Data'
  BY <1>15 DEF LoopEnds
<1>16. ASSUME NEW s \in Slots, NEW t \in Tables, SaveTable(s, t)
     PROVE  Data'
  BY <1>16 DEF SaveTable
<1>17. ASSUME NEW s \in Slots, Report(s)
     PROVE  Data'
  BY <1>17 DEF Report
<1>18. ASSUME NEW s \in Slots, Log(s)
     PROVE  Data'
  BY <1>18 DEF Log
<1>19. ASSUME NEW s \in Slots, Unlink(s)
     PROVE  Data'
  BY <1>19 DEF Unlink
<1>20. ASSUME NEW s \in Slots, Release(s)
     PROVE  Data'
  BY <1>20 DEF Release
<1>21. ASSUME NEW s \in Slots, Leave(s)
     PROVE  Data'
  BY <1>21 DEF Leave
<1>22. ASSUME NEW s \in Slots, Raise(s)
     PROVE  Data'
  BY <1>22 DEF Raise
<1>23. ASSUME NEW s \in Slots, LogFails(s)
     PROVE  Data'
  BY <1>23 DEF LogFails
<1>24. ASSUME NEW s \in Slots, UnlinkFails(s)
     PROVE  Data'
  BY <1>24 DEF UnlinkFails
<1>25. ASSUME NEW s \in Slots, Kill(s)
     PROVE  Data'
  BY <1>25 DEF Kill
<1>26. ASSUME Tick
     PROVE  Data'
  BY <1>26 DEF Tick
<1>27. ASSUME NEW g \in Graphs, NEW state \in {"none", "bad"}, Touch(g, state)
     PROVE  Data'
  BY <1>27 DEF Touch
<1>28. CASE UNCHANGED vars
  BY <1>28 DEF vars
<1> HIDE DEF Typed, Courses, Directory, Data, Ready, Heading, Kinds, Tables,
        Operations, Entering, Working, Closing, Holding, account, files, work,
        command, history, GoTo, CheckThen, LeaveBody, Forgotten, Record,
        Existing
<1> QED
  BY <1>1, <1>2, <1>3, <1>4, <1>5, <1>6, <1>7, <1>8, <1>9, <1>10, <1>11,
     <1>12, <1>13, <1>14, <1>15, <1>16, <1>17, <1>18, <1>19, <1>20,
     <1>21, <1>22, <1>23, <1>24, <1>25, <1>26, <1>27, <1>28 DEF Next, Run

\* No command gets ahead of what it needs.
LEMMA ReadyStep == Typed /\ [Next]_vars => Ready'
<1> SUFFICES ASSUME Typed, [Next]_vars PROVE Ready'
  OBVIOUS
<1> USE DualAssumption DEF Typed, Numbers, Directory, Courses, Data, Ready,
        Heading, Kinds, Tables, Operations, Entering, Working, Closing,
        Holding, account, files, work, command, history, GoTo, CheckThen,
        LeaveBody, Forgotten
<1>1. ASSUME NEW s \in Slots, NEW k \in Kinds, NEW n \in {0} \cup Quotas, Start(s, k, n)
     PROVE  Ready'
  BY <1>1 DEF Start
<1>2. ASSUME NEW s \in Slots, AcquireLock(s)
     PROVE  Ready'
  BY <1>2 DEF AcquireLock
<1>3. ASSUME NEW s \in Slots, EnterClean(s)
     PROVE  Ready'
  BY <1>3 DEF EnterClean
<1>4. ASSUME NEW s \in Slots, Recover(s)
     PROVE  Ready'
  BY <1>4 DEF Recover
<1>5. ASSUME NEW s \in Slots, Forget(s)
     PROVE  Ready'
  BY <1>5 DEF Forget
<1>6. ASSUME NEW s \in Slots, Refuse(s)
     PROVE  Ready'
  BY <1>6 DEF Refuse
<1>7. ASSUME NEW s \in Slots, Create(s)
     PROVE  Ready'
  BY <1>7 DEF Create
<1>8. ASSUME NEW s \in Slots, Write(s)
     PROVE  Ready'
  BY <1>8 DEF Write
<1>9. ASSUME NEW s \in Slots, Check(s)
     PROVE  Ready'
  <2> SUFFICES ASSUME NEW r \in Slots
               PROVE  /\ began'[r] <= now'
                      /\ (Heading(r))' = "compute" => quota'[r] > 0
                      /\ (Heading(r))' = "verify" => hand'[r] # None
    OBVIOUS
  <2>1. began' = began /\ now' = now
    BY <1>9 DEF Check
  <2>2. CASE r = s
    <3>1. CASE prior[s] + Elapsed(s) >= Limit
      BY <1>9, <2>1, <2>2, <3>1 DEF Check
    <3>2. CASE ~(prior[s] + Elapsed(s) >= Limit)
      BY <1>9, <2>1, <2>2, <3>2 DEF Check
    <3> QED
      BY <3>1, <3>2
  <2>3. CASE r # s
    <3>1. pc'[r] = pc[r] /\ after'[r] = after[r] /\ quota'[r] = quota[r]
          /\ hand'[r] = hand[r]
      BY <1>9, <2>3 DEF Check
    <3> QED
      BY <2>1, <3>1
  <2> QED
    BY <2>2, <2>3
<1>10. ASSUME NEW s \in Slots, Open(s)
     PROVE  Ready'
  <2> SUFFICES ASSUME NEW r \in Slots
               PROVE  /\ began'[r] <= now'
                      /\ (Heading(r))' = "compute" => quota'[r] > 0
                      /\ (Heading(r))' = "verify" => hand'[r] # None
    OBVIOUS
  <2>1. began' = began /\ now' = now
    BY <1>10 DEF Open
  <2>2. CASE r = s
    <3>1. CASE kind[s] = "production" \/ Existing = Graphs
      BY <1>10, <2>1, <2>2, <3>1 DEF Open
    <3>2. CASE ~(kind[s] = "production" \/ Existing = Graphs)
      BY <1>10, <2>1, <2>2, <3>2 DEF Open
    <3> QED
      BY <3>1, <3>2
  <2>3. CASE r # s
    <3>1. pc'[r] = pc[r] /\ after'[r] = after[r] /\ quota'[r] = quota[r]
          /\ hand'[r] = hand[r]
      BY <1>10, <2>3 DEF Open
    <3> QED
      BY <2>1, <3>1
  <2> QED
    BY <2>2, <2>3
<1>11. ASSUME NEW s \in Slots, NEW g \in Graphs, ReadRow(s, g)
     PROVE  Ready'
  <2>1. <<g, graphs[g]>> \in Record
    BY <1>11 DEF ReadRow, Record
  <2>2. hand'[s] # None
    BY <1>11, <2>1 DEF ReadRow, Record
  <2> QED
    BY <1>11, <2>2 DEF ReadRow
<1>12. ASSUME NEW s \in Slots, NEW g \in Graphs, Compute(s, g)
     PROVE  Ready'
  BY <1>12 DEF Compute
<1>13. ASSUME NEW s \in Slots, Verify(s)
     PROVE  Ready'
  BY <1>13 DEF Verify
<1>14. ASSUME NEW s \in Slots, Turn(s)
     PROVE  Ready'
  BY <1>14 DEF Turn
<1>15. ASSUME NEW s \in Slots, LoopEnds(s)
     PROVE  Ready'
  BY <1>15 DEF LoopEnds
<1>16. ASSUME NEW s \in Slots, NEW t \in Tables, SaveTable(s, t)
     PROVE  Ready'
  BY <1>16 DEF SaveTable
<1>17. ASSUME NEW s \in Slots, Report(s)
     PROVE  Ready'
  BY <1>17 DEF Report
<1>18. ASSUME NEW s \in Slots, Log(s)
     PROVE  Ready'
  BY <1>18 DEF Log
<1>19. ASSUME NEW s \in Slots, Unlink(s)
     PROVE  Ready'
  BY <1>19 DEF Unlink
<1>20. ASSUME NEW s \in Slots, Release(s)
     PROVE  Ready'
  BY <1>20 DEF Release
<1>21. ASSUME NEW s \in Slots, Leave(s)
     PROVE  Ready'
  BY <1>21 DEF Leave
<1>22. ASSUME NEW s \in Slots, Raise(s)
     PROVE  Ready'
  BY <1>22 DEF Raise
<1>23. ASSUME NEW s \in Slots, LogFails(s)
     PROVE  Ready'
  BY <1>23 DEF LogFails
<1>24. ASSUME NEW s \in Slots, UnlinkFails(s)
     PROVE  Ready'
  BY <1>24 DEF UnlinkFails
<1>25. ASSUME NEW s \in Slots, Kill(s)
     PROVE  Ready'
  BY <1>25 DEF Kill
<1>26. ASSUME Tick
     PROVE  Ready'
  BY <1>26 DEF Tick
<1>27. ASSUME NEW g \in Graphs, NEW state \in {"none", "bad"}, Touch(g, state)
     PROVE  Ready'
  BY <1>27 DEF Touch
<1>28. CASE UNCHANGED vars
  BY <1>28 DEF vars
<1> QED
  BY <1>1, <1>2, <1>3, <1>4, <1>5, <1>6, <1>7, <1>8, <1>9, <1>10, <1>11,
     <1>12, <1>13, <1>14, <1>15, <1>16, <1>17, <1>18, <1>19, <1>20,
     <1>21, <1>22, <1>23, <1>24, <1>25, <1>26, <1>27, <1>28 DEF Next, Run

\* Every step keeps the types.
LEMMA TypedStep == Typed /\ [Next]_vars => Typed'
BY CountsStep, DirectoryStep, CoursesStep, DataStep, ReadyStep DEF Typed

\* Every variable keeps its type.
THEOREM TypeCorrect == Spec => []TypeOK
BY TypedInit, TypedStep, Parts, PTL DEF Spec

-----------------------------------------------------------------------------
\* Initially no command runs, and nothing was charged or used.
LEMMA PlacesInit == Init => Holders /\ Announced /\ Accounts /\ Funds
<1> SUFFICES ASSUME Init PROVE Holders /\ Announced /\ Accounts /\ Funds
  OBVIOUS
<1> USE DualAssumption DEF Init, Blank, Entering, Working, Closing, Holding
<1>1. Holders
  BY DEF Holders
<1>2. Announced
  BY DEF Announced, Uncharged
<1>3. Accounts
  BY DEF Accounts, Owed
<1>4. Funds
  BY DEF Funds
<1> QED
  BY <1>1, <1>2, <1>3, <1>4

\* The lock is held by the command inside, and operations have one owner.
LEMMA PlacesStep == Typed /\ Holders /\ [Next]_vars => Holders'
<1> SUFFICES ASSUME Typed, Holders, [Next]_vars PROVE Holders'
  OBVIOUS
<1> USE DualAssumption DEF Typed, Courses, Holders, Entering, Working, Closing,
        Holding, account, files, work, command, history, GoTo, CheckThen,
        LeaveBody, Forgotten
<1>1. ASSUME NEW s \in Slots, NEW k \in Kinds, NEW n \in {0} \cup Quotas, Start(s, k, n)
     PROVE  Holders'
  <2>1. /\ commands' = commands + 1 /\ commands \in Nat
        /\ op' = [op EXCEPT ![s] = commands + 1]
    BY <1>1 DEF Start, Numbers
  <2>2. \A r \in Slots : op[r] # None => op[r] \in Nat /\ op[r] <= commands
    BY <1>1 DEF Operations
  <2>3. commands + 1 # None /\ op[s] = None /\ op'[s] = commands + 1
    BY <1>1, <2>1 DEF Start
  <2>4. \A r \in Slots \ {s} : op'[r] = op[r] /\ op[r] # commands + 1
    BY <2>1, <2>2
  <2>5. \A r \in Slots : (op'[r] = None) <=> (pc'[r] = "idle")
    BY <1>1, <2>3, <2>4 DEF Start
  <2>6. \A r, t \in Slots : op'[r] # None /\ op'[r] = op'[t] => r = t
    BY <2>3, <2>4
  <2>7. \A r \in Slots : op'[r] # None => op'[r] <= commands'
    BY <2>1, <2>2, <2>3, <2>4
  <2>8. \A r \in Slots : pc'[r] \in Holding <=> lock' = r
    BY <1>1 DEF Start
  <2> QED
    BY <2>5, <2>6, <2>7, <2>8
<1>2. ASSUME NEW s \in Slots, AcquireLock(s)
     PROVE  Holders'
  BY <1>2 DEF AcquireLock
<1>3. ASSUME NEW s \in Slots, EnterClean(s)
     PROVE  Holders'
  BY <1>3 DEF EnterClean
<1>4. ASSUME NEW s \in Slots, Recover(s)
     PROVE  Holders'
  BY <1>4 DEF Recover
<1>5. ASSUME NEW s \in Slots, Forget(s)
     PROVE  Holders'
  BY <1>5 DEF Forget
<1>6. ASSUME NEW s \in Slots, Refuse(s)
     PROVE  Holders'
  BY <1>6 DEF Refuse
<1>7. ASSUME NEW s \in Slots, Create(s)
     PROVE  Holders'
  BY <1>7 DEF Create
<1>8. ASSUME NEW s \in Slots, Write(s)
     PROVE  Holders'
  BY <1>8 DEF Write
<1>9. ASSUME NEW s \in Slots, Check(s)
     PROVE  Holders'
  BY <1>9 DEF Check
<1>10. ASSUME NEW s \in Slots, Open(s)
     PROVE  Holders'
  BY <1>10 DEF Open
<1>11. ASSUME NEW s \in Slots, NEW g \in Graphs, ReadRow(s, g)
     PROVE  Holders'
  BY <1>11 DEF ReadRow
<1>12. ASSUME NEW s \in Slots, NEW g \in Graphs, Compute(s, g)
     PROVE  Holders'
  BY <1>12 DEF Compute
<1>13. ASSUME NEW s \in Slots, Verify(s)
     PROVE  Holders'
  BY <1>13 DEF Verify
<1>14. ASSUME NEW s \in Slots, Turn(s)
     PROVE  Holders'
  BY <1>14 DEF Turn
<1>15. ASSUME NEW s \in Slots, LoopEnds(s)
     PROVE  Holders'
  BY <1>15 DEF LoopEnds
<1>16. ASSUME NEW s \in Slots, NEW t \in Tables, SaveTable(s, t)
     PROVE  Holders'
  BY <1>16 DEF SaveTable
<1>17. ASSUME NEW s \in Slots, Report(s)
     PROVE  Holders'
  BY <1>17 DEF Report
<1>18. ASSUME NEW s \in Slots, Log(s)
     PROVE  Holders'
  BY <1>18 DEF Log
<1>19. ASSUME NEW s \in Slots, Unlink(s)
     PROVE  Holders'
  BY <1>19 DEF Unlink
<1>20. ASSUME NEW s \in Slots, Release(s)
     PROVE  Holders'
  BY <1>20 DEF Release
<1>21. ASSUME NEW s \in Slots, Leave(s)
     PROVE  Holders'
  BY <1>21 DEF Leave
<1>22. ASSUME NEW s \in Slots, Raise(s)
     PROVE  Holders'
  BY <1>22 DEF Raise
<1>23. ASSUME NEW s \in Slots, LogFails(s)
     PROVE  Holders'
  BY <1>23 DEF LogFails
<1>24. ASSUME NEW s \in Slots, UnlinkFails(s)
     PROVE  Holders'
  BY <1>24 DEF UnlinkFails
<1>25. ASSUME NEW s \in Slots, Kill(s)
     PROVE  Holders'
  BY <1>25 DEF Kill
<1>26. ASSUME Tick
     PROVE  Holders'
  BY <1>26 DEF Tick
<1>27. ASSUME NEW g \in Graphs, NEW state \in {"none", "bad"}, Touch(g, state)
     PROVE  Holders'
  BY <1>27 DEF Touch
<1>28. CASE UNCHANGED vars
  BY <1>28 DEF vars
<1> HIDE DEF Typed, Courses, Holders, Entering, Working, Closing, Holding,
        account, files, work, command, history, GoTo, CheckThen, LeaveBody,
        Forgotten
<1> QED
  BY <1>1, <1>2, <1>3, <1>4, <1>5, <1>6, <1>7, <1>8, <1>9, <1>10, <1>11,
     <1>12, <1>13, <1>14, <1>15, <1>16, <1>17, <1>18, <1>19, <1>20,
     <1>21, <1>22, <1>23, <1>24, <1>25, <1>26, <1>27, <1>28 DEF Next, Run

\* The active file announces the command inside.
LEMMA AnnouncedStep == Typed /\ Holders /\ Announced /\ [Next]_vars => Announced'
<1> SUFFICES ASSUME Typed, Holders, Announced, [Next]_vars PROVE Announced'
  OBVIOUS
<1> USE DualAssumption DEF Typed, Numbers, Courses, Directory, Contents,
        Holders, Announced, Uncharged, Entering, Working, Closing, Holding,
        Blank, Live, Duplicates, Append, Ends, Elapsed, account, files, work,
        command, history, GoTo, CheckThen, LeaveBody, Forgotten
<1>1. ASSUME NEW s \in Slots, NEW k \in Kinds, NEW n \in {0} \cup Quotas, Start(s, k, n)
     PROVE  Announced'
  <2>1. /\ commands' = commands + 1 /\ commands \in Nat
        /\ op' = [op EXCEPT ![s] = commands + 1]
    BY <1>1 DEF Start, Numbers
  <2>2. \A r \in Slots : op[r] # None => op[r] \in Nat /\ op[r] <= commands
    BY <1>1 DEF Operations
  <2>3. commands + 1 # None /\ op[s] = None /\ op'[s] = commands + 1
    BY <1>1, <2>1 DEF Start
  <2>4. \A r \in Slots \ {s} : op'[r] = op[r] /\ op[r] # commands + 1
    BY <2>1, <2>2
  <2>5. commands + 1 \in Operations
    BY <1>1 DEF Start, Operations
  <2>6. entries[commands + 1] = 0 /\ spent[commands + 1] = None
    BY <2>1, <2>5
  <2>7. /\ active' = active /\ entries' = entries /\ spent' = spent
        /\ now' = now /\ began' = began
    BY <1>1 DEF Start
  <2>8. \A o \in Operations : entries[o] # 0 \/ spent[o] # None => o <= commands'
    BY <2>1 DEF Operations
  <2>9. active.state = "written" => active.op \in Operations /\ active.op <= commands
                                   /\ active.op # commands + 1
    BY <2>1 DEF Operations
  <2>10. active.state = "written" => active.op <= commands'
    BY <2>1, <2>9 DEF Operations
  <2>11. \A r \in Slots : pc'[r] \in Uncharged =>
            entries[op'[r]] = 0 /\ spent[op'[r]] = None
    BY <1>1, <2>3, <2>4, <2>6 DEF Start
  <2>12. \A r \in Slots : r # s => pc'[r] = pc[r] /\ op'[r] = op[r]
    BY <1>1, <2>4 DEF Start
  <2>13. pc'[s] = "enter"
    BY <1>1 DEF Start
  <2>14. \A r \in Slots :
        /\ pc'[r] = "create" => active'.state = "absent"
        /\ pc'[r] = "write" => active'.state = "empty"
        /\ pc'[r] \in Working \cup {"log", "unlink"} =>
               active'.state = "written" /\ active'.op = op'[r]
        /\ pc'[r] \in Working \cup {"log"} => active'.began = began'[r]
        /\ pc'[r] = "unlink" => entries'[op'[r]] = 1
    BY <2>7, <2>12, <2>13
  <2>15. \A r \in Slots : pc'[r] = "forget" =>
             /\ active'.state = "written" /\ entries'[active'.op] = 1
             /\ \A t \in Slots : op'[t] # active'.op
    BY <2>3, <2>7, <2>9, <2>12, <2>13
  <2> QED
    BY <2>7, <2>8, <2>9, <2>10, <2>11, <2>14, <2>15
<1>2. ASSUME NEW s \in Slots, AcquireLock(s)
     PROVE  Announced'
  BY <1>2 DEF AcquireLock
<1>3. ASSUME NEW s \in Slots, EnterClean(s)
     PROVE  Announced'
  BY <1>3 DEF EnterClean
<1>4. ASSUME NEW s \in Slots, Recover(s)
     PROVE  Announced'
  <2>1. active.op \in Operations /\ active.op <= commands /\ active.state = "written"
    BY <1>4 DEF Recover
  <2>2. None \notin Operations
    BY DEF Operations
  <2>3. \A t \in Slots : op[t] # active.op
    BY <1>4, <2>1, <2>2 DEF Recover
  <2>4. /\ entries'[active.op] = 1
        /\ \A o \in Operations : o # active.op => entries'[o] = entries[o]
    BY <1>4, <2>1 DEF Recover
  <2>5. /\ active' = active /\ spent' = spent /\ now' = now /\ began' = began
        /\ commands' = commands /\ op' = op /\ lock = s
        /\ pc' = [pc EXCEPT ![s] = "forget"]
    BY <1>4 DEF Recover
  <2>6. \A r \in Slots : r # s => pc[r] \notin Holding
    BY <2>5
  <2>20. \A r \in Slots :
        /\ pc'[r] = "create" => active'.state = "absent"
        /\ pc'[r] = "write" => active'.state = "empty"
        /\ pc'[r] \in Working \cup {"log", "unlink"} =>
               active'.state = "written" /\ active'.op = op'[r]
        /\ pc'[r] \in Working \cup {"log"} => active'.began = began'[r]
        /\ pc'[r] = "unlink" => entries'[op'[r]] = 1
    BY <2>1, <2>5, <2>6
  <2>21. \A r \in Slots : pc'[r] = "forget" =>
             /\ active'.state = "written" /\ entries'[active'.op] = 1
             /\ \A t \in Slots : op'[t] # active'.op
    BY <2>1, <2>3, <2>4, <2>5, <2>6
  <2>22. \A r \in Slots : pc'[r] \in Uncharged =>
             entries'[op'[r]] = 0 /\ spent'[op'[r]] = None
    BY <2>3, <2>4, <2>5, <2>6, <1>4 DEF Recover
  <2>23. \A o \in Operations : entries'[o] # 0 \/ spent'[o] # None => o <= commands'
    BY <2>1, <2>4, <2>5
  <2>24. active'.state = "written" =>
           /\ active'.op \in Operations /\ active'.op <= commands'
           /\ active'.began <= now'
    BY <2>1, <2>5
  <2> QED
    BY <2>20, <2>21, <2>22, <2>23, <2>24
<1>5. ASSUME NEW s \in Slots, Forget(s)
     PROVE  Announced'
  BY <1>5 DEF Forget
<1>6. ASSUME NEW s \in Slots, Refuse(s)
     PROVE  Announced'
  BY <1>6 DEF Refuse
<1>7. ASSUME NEW s \in Slots, Create(s)
     PROVE  Announced'
  BY <1>7 DEF Create
<1>8. ASSUME NEW s \in Slots, Write(s)
     PROVE  Announced'
  <2>1. op[s] \in Operations /\ op[s] <= commands /\ lock = s
    BY <1>8 DEF Write
  <2>2. /\ active'.state = "written" /\ active'.op = op[s] /\ active'.began = began[s]
        /\ entries' = entries /\ spent' = spent /\ op' = op /\ began' = began
        /\ now' = now /\ commands' = commands
        /\ pc' = [pc EXCEPT ![s] = "check"]
    BY <1>8 DEF Write
  <2>3. \A r \in Slots : r # s => pc[r] \notin Holding
    BY <2>1
  <2>4. began[s] <= now
    BY DEF Ready
  <2>20. \A r \in Slots :
        /\ pc'[r] = "create" => active'.state = "absent"
        /\ pc'[r] = "write" => active'.state = "empty"
        /\ pc'[r] \in Working \cup {"log", "unlink"} =>
               active'.state = "written" /\ active'.op = op'[r]
        /\ pc'[r] \in Working \cup {"log"} => active'.began = began'[r]
        /\ pc'[r] = "unlink" => entries'[op'[r]] = 1
    BY <2>2, <2>3
  <2>21. \A r \in Slots : pc'[r] = "forget" =>
             /\ active'.state = "written" /\ entries'[active'.op] = 1
             /\ \A t \in Slots : op'[t] # active'.op
    BY <2>2, <2>3
  <2>22. \A r \in Slots : pc'[r] \in Uncharged =>
             entries'[op'[r]] = 0 /\ spent'[op'[r]] = None
    BY <1>8, <2>2, <2>3 DEF Write
  <2>23. \A o \in Operations : entries'[o] # 0 \/ spent'[o] # None => o <= commands'
    BY <2>2
  <2>24. active'.state = "written" =>
           /\ active'.op \in Operations /\ active'.op <= commands'
           /\ active'.began <= now'
    BY <2>1, <2>2, <2>4
  <2> QED
    BY <2>20, <2>21, <2>22, <2>23, <2>24
<1>9. ASSUME NEW s \in Slots, Check(s)
     PROVE  Announced'
  BY <1>9 DEF Check
<1>10. ASSUME NEW s \in Slots, Open(s)
     PROVE  Announced'
  BY <1>10 DEF Open
<1>11. ASSUME NEW s \in Slots, NEW g \in Graphs, ReadRow(s, g)
     PROVE  Announced'
  BY <1>11 DEF ReadRow
<1>12. ASSUME NEW s \in Slots, NEW g \in Graphs, Compute(s, g)
     PROVE  Announced'
  BY <1>12 DEF Compute
<1>13. ASSUME NEW s \in Slots, Verify(s)
     PROVE  Announced'
  BY <1>13 DEF Verify
<1>14. ASSUME NEW s \in Slots, Turn(s)
     PROVE  Announced'
  BY <1>14 DEF Turn
<1>15. ASSUME NEW s \in Slots, LoopEnds(s)
     PROVE  Announced'
  BY <1>15 DEF LoopEnds
<1>16. ASSUME NEW s \in Slots, NEW t \in Tables, SaveTable(s, t)
     PROVE  Announced'
  BY <1>16 DEF SaveTable
<1>17. ASSUME NEW s \in Slots, Report(s)
     PROVE  Announced'
  BY <1>17 DEF Report
<1>18. ASSUME NEW s \in Slots, Log(s)
     PROVE  Announced'
  BY <1>18 DEF Log
<1>19. ASSUME NEW s \in Slots, Unlink(s)
     PROVE  Announced'
  BY <1>19 DEF Unlink
<1>20. ASSUME NEW s \in Slots, Release(s)
     PROVE  Announced'
  BY <1>20 DEF Release
<1>21. ASSUME NEW s \in Slots, Leave(s)
     PROVE  Announced'
  <2>1. /\ op'[s] = None /\ pc'[s] = "idle"
        /\ \A r \in Slots : r # s => op'[r] = op[r] /\ pc'[r] = pc[r] /\ began'[r] = began[r]
    BY <1>21 DEF Leave
  <2>2. /\ active' = active /\ entries' = entries /\ now' = now /\ commands' = commands
    BY <1>21 DEF Leave
  <2>3. op[s] \in Operations /\ op[s] <= commands /\ None \notin Operations
    BY <1>21 DEF Leave, Operations
  <2>4. \A o \in Operations : o # op[s] => spent'[o] = spent[o]
    BY <1>21 DEF Leave
  <2>5. \A r \in Slots : r # s => op[r] # op[s]
    BY <2>3
  <2>20. \A r \in Slots :
        /\ pc'[r] = "create" => active'.state = "absent"
        /\ pc'[r] = "write" => active'.state = "empty"
        /\ pc'[r] \in Working \cup {"log", "unlink"} =>
               active'.state = "written" /\ active'.op = op'[r]
        /\ pc'[r] \in Working \cup {"log"} => active'.began = began'[r]
        /\ pc'[r] = "unlink" => entries'[op'[r]] = 1
    BY <2>1, <2>2
  <2>21. \A r \in Slots : pc'[r] = "forget" =>
             /\ active'.state = "written" /\ entries'[active'.op] = 1
             /\ \A t \in Slots : op'[t] # active'.op
    BY <2>1, <2>2, <2>3
  <2>22. \A r \in Slots : pc'[r] \in Uncharged =>
             entries'[op'[r]] = 0 /\ spent'[op'[r]] = None
    BY <2>1, <2>2, <2>3, <2>4, <2>5
  <2>23. \A o \in Operations : entries'[o] # 0 \/ spent'[o] # None => o <= commands'
    BY <2>2, <2>3, <2>4
  <2>24. active'.state = "written" =>
           /\ active'.op \in Operations /\ active'.op <= commands'
           /\ active'.began <= now'
    BY <2>2
  <2> QED
    BY <2>20, <2>21, <2>22, <2>23, <2>24
<1>22. ASSUME NEW s \in Slots, Raise(s)
     PROVE  Announced'
  BY <1>22 DEF Raise
<1>23. ASSUME NEW s \in Slots, LogFails(s)
     PROVE  Announced'
  BY <1>23 DEF LogFails
<1>24. ASSUME NEW s \in Slots, UnlinkFails(s)
     PROVE  Announced'
  BY <1>24 DEF UnlinkFails
<1>25. ASSUME NEW s \in Slots, Kill(s)
     PROVE  Announced'
  <2>1. /\ op'[s] = None /\ pc'[s] = "idle"
        /\ \A r \in Slots : r # s => op'[r] = op[r] /\ pc'[r] = pc[r] /\ began'[r] = began[r]
    BY <1>25 DEF Kill
  <2>2. /\ active' = active /\ entries' = entries /\ now' = now /\ commands' = commands
    BY <1>25 DEF Kill
  <2>3. op[s] \in Operations /\ op[s] <= commands /\ None \notin Operations
    BY <1>25 DEF Kill, Operations
  <2>4. \A o \in Operations : o # op[s] => spent'[o] = spent[o]
    BY <1>25 DEF Kill
  <2>5. \A r \in Slots : r # s => op[r] # op[s]
    BY <2>3
  <2>20. \A r \in Slots :
        /\ pc'[r] = "create" => active'.state = "absent"
        /\ pc'[r] = "write" => active'.state = "empty"
        /\ pc'[r] \in Working \cup {"log", "unlink"} =>
               active'.state = "written" /\ active'.op = op'[r]
        /\ pc'[r] \in Working \cup {"log"} => active'.began = began'[r]
        /\ pc'[r] = "unlink" => entries'[op'[r]] = 1
    BY <2>1, <2>2
  <2>21. \A r \in Slots : pc'[r] = "forget" =>
             /\ active'.state = "written" /\ entries'[active'.op] = 1
             /\ \A t \in Slots : op'[t] # active'.op
    BY <2>1, <2>2, <2>3
  <2>22. \A r \in Slots : pc'[r] \in Uncharged =>
             entries'[op'[r]] = 0 /\ spent'[op'[r]] = None
    BY <2>1, <2>2, <2>3, <2>4, <2>5
  <2>23. \A o \in Operations : entries'[o] # 0 \/ spent'[o] # None => o <= commands'
    BY <2>2, <2>3, <2>4
  <2>24. active'.state = "written" =>
           /\ active'.op \in Operations /\ active'.op <= commands'
           /\ active'.began <= now'
    BY <2>2
  <2> QED
    BY <2>20, <2>21, <2>22, <2>23, <2>24
<1>26. ASSUME Tick
     PROVE  Announced'
  BY <1>26 DEF Tick
<1>27. ASSUME NEW g \in Graphs, NEW state \in {"none", "bad"}, Touch(g, state)
     PROVE  Announced'
  BY <1>27 DEF Touch
<1>28. CASE UNCHANGED vars
  BY <1>28 DEF vars
<1> HIDE DEF Typed, Numbers, Courses, Directory, Contents, Holders, Announced,
        Uncharged, Entering, Working, Closing, Holding, Blank, Live,
        Duplicates, Append, Ends, Elapsed, account, files, work, command,
        history, GoTo, CheckThen, LeaveBody, Forgotten
<1> QED
  BY <1>1, <1>2, <1>3, <1>4, <1>5, <1>6, <1>7, <1>8, <1>9, <1>10, <1>11,
     <1>12, <1>13, <1>14, <1>15, <1>16, <1>17, <1>18, <1>19, <1>20,
     <1>21, <1>22, <1>23, <1>24, <1>25, <1>26, <1>27, <1>28 DEF Next, Run

\* What is over is charged, or will be by the next command.
LEMMA AccountsStep == Typed /\ Holders /\ Announced /\ Accounts /\ [Next]_vars => Accounts'
<1> SUFFICES ASSUME Typed, Holders, Announced, Accounts, [Next]_vars PROVE Accounts'
  OBVIOUS
<1> USE DualAssumption DEF Typed, Numbers, Courses, Directory, Contents, Ready,
        Holders, Announced, Uncharged, Accounts, Owed, Entering, Working,
        Closing, Holding, Blank, Live, Duplicates, Larger, Append, Ends,
        Elapsed, account, files, work, command, history, GoTo, CheckThen,
        LeaveBody, Forgotten
<1>1. ASSUME NEW s \in Slots, NEW k \in Kinds, NEW n \in {0} \cup Quotas, Start(s, k, n)
     PROVE  Accounts'
  BY <1>1 DEF Start
<1>2. ASSUME NEW s \in Slots, AcquireLock(s)
     PROVE  Accounts'
  BY <1>2 DEF AcquireLock
<1>3. ASSUME NEW s \in Slots, EnterClean(s)
     PROVE  Accounts'
  BY <1>3 DEF EnterClean
<1>4. ASSUME NEW s \in Slots, Recover(s)
     PROVE  Accounts'
  BY <1>4 DEF Recover
<1>5. ASSUME NEW s \in Slots, Forget(s)
     PROVE  Accounts'
  BY <1>5 DEF Forget
<1>6. ASSUME NEW s \in Slots, Refuse(s)
     PROVE  Accounts'
  BY <1>6 DEF Refuse
<1>7. ASSUME NEW s \in Slots, Create(s)
     PROVE  Accounts'
  BY <1>7 DEF Create
<1>8. ASSUME NEW s \in Slots, Write(s)
     PROVE  Accounts'
  BY <1>8 DEF Write
<1>9. ASSUME NEW s \in Slots, Check(s)
     PROVE  Accounts'
  BY <1>9 DEF Check
<1>10. ASSUME NEW s \in Slots, Open(s)
     PROVE  Accounts'
  BY <1>10 DEF Open
<1>11. ASSUME NEW s \in Slots, NEW g \in Graphs, ReadRow(s, g)
     PROVE  Accounts'
  BY <1>11 DEF ReadRow
<1>12. ASSUME NEW s \in Slots, NEW g \in Graphs, Compute(s, g)
     PROVE  Accounts'
  BY <1>12 DEF Compute
<1>13. ASSUME NEW s \in Slots, Verify(s)
     PROVE  Accounts'
  BY <1>13 DEF Verify
<1>14. ASSUME NEW s \in Slots, Turn(s)
     PROVE  Accounts'
  BY <1>14 DEF Turn
<1>15. ASSUME NEW s \in Slots, LoopEnds(s)
     PROVE  Accounts'
  BY <1>15 DEF LoopEnds
<1>16. ASSUME NEW s \in Slots, NEW t \in Tables, SaveTable(s, t)
     PROVE  Accounts'
  BY <1>16 DEF SaveTable
<1>17. ASSUME NEW s \in Slots, Report(s)
     PROVE  Accounts'
  BY <1>17 DEF Report
<1>18. ASSUME NEW s \in Slots, Log(s)
     PROVE  Accounts'
  BY <1>18 DEF Log
<1>19. ASSUME NEW s \in Slots, Unlink(s)
     PROVE  Accounts'
  BY <1>19 DEF Unlink
<1>20. ASSUME NEW s \in Slots, Release(s)
     PROVE  Accounts'
  BY <1>20 DEF Release
<1>21. ASSUME NEW s \in Slots, Leave(s)
     PROVE  Accounts'
  BY <1>21 DEF Leave
<1>22. ASSUME NEW s \in Slots, Raise(s)
     PROVE  Accounts'
  BY <1>22 DEF Raise
<1>23. ASSUME NEW s \in Slots, LogFails(s)
     PROVE  Accounts'
  BY <1>23 DEF LogFails
<1>24. ASSUME NEW s \in Slots, UnlinkFails(s)
     PROVE  Accounts'
  BY <1>24 DEF UnlinkFails
<1>25. ASSUME NEW s \in Slots, Kill(s)
     PROVE  Accounts'
  BY <1>25 DEF Kill
<1>26. ASSUME Tick
     PROVE  Accounts'
  BY <1>26 DEF Tick
<1>27. ASSUME NEW g \in Graphs, NEW state \in {"none", "bad"}, Touch(g, state)
     PROVE  Accounts'
  BY <1>27 DEF Touch
<1>28. CASE UNCHANGED vars
  BY <1>28 DEF vars
<1> HIDE DEF Typed, Numbers, Courses, Directory, Contents, Ready, Holders,
        Announced, Uncharged, Accounts, Owed, Entering, Working, Closing,
        Holding, Blank, Live, Duplicates, Larger, Append, Ends, Elapsed,
        account, files, work, command, history, GoTo, CheckThen, LeaveBody,
        Forgotten
<1> QED
  BY <1>1, <1>2, <1>3, <1>4, <1>5, <1>6, <1>7, <1>8, <1>9, <1>10, <1>11,
     <1>12, <1>13, <1>14, <1>15, <1>16, <1>17, <1>18, <1>19, <1>20,
     <1>21, <1>22, <1>23, <1>24, <1>25, <1>26, <1>27, <1>28 DEF Next, Run

\* The history charges at least what was used.
LEMMA FundsStep == Typed /\ Holders /\ Announced /\ Accounts /\ Funds /\ [Next]_vars => Funds'
<1> SUFFICES ASSUME Typed, Holders, Announced, Accounts, Funds, [Next]_vars PROVE Funds'
  OBVIOUS
<1> USE DualAssumption DEF Typed, Numbers, Courses, Directory, Contents, Ready,
        Holders, Announced, Uncharged, Accounts, Owed, Funds, Entering,
        Working, Closing, Holding, Blank, Live, Duplicates, Larger, Append,
        Ends, Elapsed, account, files, work, command, history, GoTo,
        CheckThen, LeaveBody, Forgotten
<1>1. ASSUME NEW s \in Slots, NEW k \in Kinds, NEW n \in {0} \cup Quotas, Start(s, k, n)
     PROVE  Funds'
  BY <1>1 DEF Start
<1>2. ASSUME NEW s \in Slots, AcquireLock(s)
     PROVE  Funds'
  BY <1>2 DEF AcquireLock
<1>3. ASSUME NEW s \in Slots, EnterClean(s)
     PROVE  Funds'
  BY <1>3 DEF EnterClean
<1>4. ASSUME NEW s \in Slots, Recover(s)
     PROVE  Funds'
  BY <1>4 DEF Recover
<1>5. ASSUME NEW s \in Slots, Forget(s)
     PROVE  Funds'
  BY <1>5 DEF Forget
<1>6. ASSUME NEW s \in Slots, Refuse(s)
     PROVE  Funds'
  BY <1>6 DEF Refuse
<1>7. ASSUME NEW s \in Slots, Create(s)
     PROVE  Funds'
  BY <1>7 DEF Create
<1>8. ASSUME NEW s \in Slots, Write(s)
     PROVE  Funds'
  BY <1>8 DEF Write
<1>9. ASSUME NEW s \in Slots, Check(s)
     PROVE  Funds'
  BY <1>9 DEF Check
<1>10. ASSUME NEW s \in Slots, Open(s)
     PROVE  Funds'
  BY <1>10 DEF Open
<1>11. ASSUME NEW s \in Slots, NEW g \in Graphs, ReadRow(s, g)
     PROVE  Funds'
  BY <1>11 DEF ReadRow
<1>12. ASSUME NEW s \in Slots, NEW g \in Graphs, Compute(s, g)
     PROVE  Funds'
  BY <1>12 DEF Compute
<1>13. ASSUME NEW s \in Slots, Verify(s)
     PROVE  Funds'
  BY <1>13 DEF Verify
<1>14. ASSUME NEW s \in Slots, Turn(s)
     PROVE  Funds'
  BY <1>14 DEF Turn
<1>15. ASSUME NEW s \in Slots, LoopEnds(s)
     PROVE  Funds'
  BY <1>15 DEF LoopEnds
<1>16. ASSUME NEW s \in Slots, NEW t \in Tables, SaveTable(s, t)
     PROVE  Funds'
  BY <1>16 DEF SaveTable
<1>17. ASSUME NEW s \in Slots, Report(s)
     PROVE  Funds'
  BY <1>17 DEF Report
<1>18. ASSUME NEW s \in Slots, Log(s)
     PROVE  Funds'
  BY <1>18 DEF Log
<1>19. ASSUME NEW s \in Slots, Unlink(s)
     PROVE  Funds'
  BY <1>19 DEF Unlink
<1>20. ASSUME NEW s \in Slots, Release(s)
     PROVE  Funds'
  BY <1>20 DEF Release
<1>21. ASSUME NEW s \in Slots, Leave(s)
     PROVE  Funds'
  BY <1>21 DEF Leave
<1>22. ASSUME NEW s \in Slots, Raise(s)
     PROVE  Funds'
  BY <1>22 DEF Raise
<1>23. ASSUME NEW s \in Slots, LogFails(s)
     PROVE  Funds'
  BY <1>23 DEF LogFails
<1>24. ASSUME NEW s \in Slots, UnlinkFails(s)
     PROVE  Funds'
  BY <1>24 DEF UnlinkFails
<1>25. ASSUME NEW s \in Slots, Kill(s)
     PROVE  Funds'
  BY <1>25 DEF Kill
<1>26. ASSUME Tick
     PROVE  Funds'
  BY <1>26 DEF Tick
<1>27. ASSUME NEW g \in Graphs, NEW state \in {"none", "bad"}, Touch(g, state)
     PROVE  Funds'
  BY <1>27 DEF Touch
<1>28. CASE UNCHANGED vars
  BY <1>28 DEF vars
<1> HIDE DEF Typed, Numbers, Courses, Directory, Contents, Ready, Holders,
        Announced, Uncharged, Accounts, Owed, Funds, Entering, Working,
        Closing, Holding, Blank, Live, Duplicates, Larger, Append, Ends,
        Elapsed, account, files, work, command, history, GoTo, CheckThen,
        LeaveBody, Forgotten
<1> QED
  BY <1>1, <1>2, <1>3, <1>4, <1>5, <1>6, <1>7, <1>8, <1>9, <1>10, <1>11,
     <1>12, <1>13, <1>14, <1>15, <1>16, <1>17, <1>18, <1>19, <1>20,
     <1>21, <1>22, <1>23, <1>24, <1>25, <1>26, <1>27, <1>28 DEF Next, Run

\* What an analysis has not read yet it still has to read.
LEMMA ReadingStep == Typed /\ Reading /\ [Next]_vars => Reading'
<1> SUFFICES ASSUME Typed, Reading, [Next]_vars PROVE Reading'
  OBVIOUS
<1> USE DualAssumption DEF Typed, Courses, Data, Directory, Record, Reading,
        Heading, Full, TablesVerified, Tables, Working, Entering, Closing,
        Holding, Existing, Done, Missing, account, files, work, command,
        history, GoTo, CheckThen, LeaveBody, Forgotten
<1>1. ASSUME NEW s \in Slots, NEW k \in Kinds, NEW n \in {0} \cup Quotas, Start(s, k, n)
     PROVE  Reading'
  BY <1>1 DEF Start
<1>2. ASSUME NEW s \in Slots, AcquireLock(s)
     PROVE  Reading'
  BY <1>2 DEF AcquireLock
<1>3. ASSUME NEW s \in Slots, EnterClean(s)
     PROVE  Reading'
  BY <1>3 DEF EnterClean
<1>4. ASSUME NEW s \in Slots, Recover(s)
     PROVE  Reading'
  BY <1>4 DEF Recover
<1>5. ASSUME NEW s \in Slots, Forget(s)
     PROVE  Reading'
  BY <1>5 DEF Forget
<1>6. ASSUME NEW s \in Slots, Refuse(s)
     PROVE  Reading'
  BY <1>6 DEF Refuse
<1>7. ASSUME NEW s \in Slots, Create(s)
     PROVE  Reading'
  BY <1>7 DEF Create
<1>8. ASSUME NEW s \in Slots, Write(s)
     PROVE  Reading'
  BY <1>8 DEF Write
<1>9. ASSUME NEW s \in Slots, Check(s)
     PROVE  Reading'
  <2>1. /\ kind' = kind /\ tables' = tables /\ analysis' = analysis
        /\ \A r \in Slots : r # s => /\ Heading(r)' = Heading(r) /\ rows'[r] = rows[r]
              /\ pc'[r] = pc[r] /\ todo'[r] = todo[r] /\ hand'[r] = hand[r]
    BY <1>9 DEF Check
  <2>2. CASE prior[s] + Elapsed(s) >= Limit
    <3>1. Heading(s)' = "log" /\ rows'[s] = {} /\ todo'[s] = {} /\ hand'[s] = None
          /\ pc'[s] = "log"
      BY <1>9, <2>2 DEF Check
    <3> QED
      BY <2>1, <3>1
  <2>3. CASE ~(prior[s] + Elapsed(s) >= Limit)
    <3>1. Heading(s)' = Heading(s) /\ rows' = rows /\ todo' = todo /\ hand' = hand
          /\ pc'[s] = after[s] /\ Heading(s) = after[s]
      BY <1>9, <2>3 DEF Check
    <3> QED
      BY <2>1, <3>1
  <2> QED
    BY <2>2, <2>3
<1>10. ASSUME NEW s \in Slots, Open(s)
     PROVE  Reading'
  BY <1>10 DEF Open
<1>11. ASSUME NEW s \in Slots, NEW g \in Graphs, ReadRow(s, g)
     PROVE  Reading'
  BY <1>11 DEF ReadRow
<1>12. ASSUME NEW s \in Slots, NEW g \in Graphs, Compute(s, g)
     PROVE  Reading'
  BY <1>12 DEF Compute
<1>13. ASSUME NEW s \in Slots, Verify(s)
     PROVE  Reading'
  <2>1. /\ kind' = kind /\ tables' = tables /\ analysis' = analysis /\ todo' = todo
        /\ hand'[s] = None /\ rows'[s] = rows[s] \cup {hand[s]}
        /\ pc'[s] = "next" /\ Heading(s)' = "next" /\ Heading(s) = "verify"
        /\ \A r \in Slots : r # s => /\ Heading(r)' = Heading(r) /\ rows'[r] = rows[r]
              /\ pc'[r] = pc[r] /\ hand'[r] = hand[r]
    BY <1>13 DEF Verify
  <2>2. hand[s] \in Record
    BY <2>1 DEF Ready
  <2>3. kind[s] = "analysis" => hand[s] \in Full /\ hand[s] = <<hand[s][1], "good">>
    BY <1>13, <2>2 DEF Verify
  <2>4. kind[s] = "analysis" => rows'[s] \subseteq Full
    BY <2>1, <2>3
  <2>5. kind[s] = "analysis" => \A g \in Graphs : g \in todo[s] \/ <<g, "good">> \in rows'[s]
    BY <2>1, <2>3
  <2> QED
    BY <2>1, <2>4, <2>5
<1>14. ASSUME NEW s \in Slots, Turn(s)
     PROVE  Reading'
  BY <1>14 DEF Turn
<1>15. ASSUME NEW s \in Slots, LoopEnds(s)
     PROVE  Reading'
  <2>1. /\ kind' = kind /\ tables' = tables /\ analysis' = analysis
        /\ todo' = todo /\ hand' = hand /\ rows' = rows
        /\ Heading(s) = "next" /\ todo[s] = {} /\ hand[s] = None
        /\ \A r \in Slots : r # s => Heading(r)' = Heading(r) /\ pc'[r] = pc[r]
    BY <1>15 DEF LoopEnds
  <2>2. CASE kind[s] = "analysis"
    <3>1. Heading(s)' = "save" /\ pc'[s] = "save"
      BY <1>15, <2>2 DEF LoopEnds
    <3>2. \A g \in Graphs : <<g, "good">> \in rows[s]
      BY <2>1, <2>2
    <3>3. rows[s] = Full
      <4>1. \A p \in Full : p = <<p[1], "good">> /\ p[1] \in Graphs
        OBVIOUS
      <4>2. ASSUME NEW p \in Full PROVE p \in rows[s]
        <5>1. p = <<p[1], "good">> /\ <<p[1], "good">> \in rows[s]
          BY <3>2, <4>1
        <5> QED
          BY <5>1, Zenon
      <4> QED
        BY <2>2, <4>2
    <3> QED
      BY <2>1, <2>2, <3>1, <3>2, <3>3
  <2>3. CASE kind[s] # "analysis"
    <3>1. Heading(s)' = "report" /\ pc'[s] = "check"
      BY <1>15, <2>3 DEF LoopEnds
    <3> QED
      BY <2>1, <2>3, <3>1
  <2> QED
    BY <2>2, <2>3
<1>16. ASSUME NEW s \in Slots, NEW t \in Tables, SaveTable(s, t)
     PROVE  Reading'
  BY <1>16 DEF SaveTable
<1>17. ASSUME NEW s \in Slots, Report(s)
     PROVE  Reading'
  BY <1>17 DEF Report
<1>18. ASSUME NEW s \in Slots, Log(s)
     PROVE  Reading'
  BY <1>18 DEF Log
<1>19. ASSUME NEW s \in Slots, Unlink(s)
     PROVE  Reading'
  BY <1>19 DEF Unlink
<1>20. ASSUME NEW s \in Slots, Release(s)
     PROVE  Reading'
  BY <1>20 DEF Release
<1>21. ASSUME NEW s \in Slots, Leave(s)
     PROVE  Reading'
  BY <1>21 DEF Leave
<1>22. ASSUME NEW s \in Slots, Raise(s)
     PROVE  Reading'
  BY <1>22 DEF Raise
<1>23. ASSUME NEW s \in Slots, LogFails(s)
     PROVE  Reading'
  BY <1>23 DEF LogFails
<1>24. ASSUME NEW s \in Slots, UnlinkFails(s)
     PROVE  Reading'
  BY <1>24 DEF UnlinkFails
<1>25. ASSUME NEW s \in Slots, Kill(s)
     PROVE  Reading'
  BY <1>25 DEF Kill
<1>26. ASSUME Tick
     PROVE  Reading'
  BY <1>26 DEF Tick
<1>27. ASSUME NEW g \in Graphs, NEW state \in {"none", "bad"}, Touch(g, state)
     PROVE  Reading'
  BY <1>27 DEF Touch
<1>28. CASE UNCHANGED vars
  BY <1>28 DEF vars
<1> HIDE DEF Typed, Courses, Data, Directory, Record, Reading, Heading, Full,
        TablesVerified, Tables, Working, Entering, Closing, Holding, Existing,
        Done, Missing, account, files, work, command, history, GoTo,
        CheckThen, LeaveBody, Forgotten
<1> QED
  BY <1>1, <1>2, <1>3, <1>4, <1>5, <1>6, <1>7, <1>8, <1>9, <1>10, <1>11,
     <1>12, <1>13, <1>14, <1>15, <1>16, <1>17, <1>18, <1>19, <1>20,
     <1>21, <1>22, <1>23, <1>24, <1>25, <1>26, <1>27, <1>28 DEF Next, Run

-----------------------------------------------------------------------------
\* The invariant of the accounts.
LEMMA Always == Spec => [](Typed /\ Holders /\ Announced /\ Accounts /\ Funds)
<1>1. Typed /\ [Next]_vars => Typed'
  BY TypedStep
<1> QED
  BY <1>1, TypedInit, PlacesInit, PlacesStep, AnnouncedStep, AccountsStep,
     FundsStep, PTL DEF Spec

\* Whoever works holds the lock, and the active file is its own.
THEOREM LiveIsNeverRecovered == Spec => []LiveNeverRecovered
<1>1. Holders /\ Announced => LiveNeverRecovered
  BY DEF Holders, Announced, Uncharged, LiveNeverRecovered, Holding, Closing
<1> QED
  BY <1>1, Always, PTL

\* An operation is charged once, and for all the time it took.
THEOREM ChargedInFull == Spec => []ChargedOnceInFull
<1>1. Typed /\ Accounts => ChargedOnceInFull
  BY DEF Typed, Numbers, Accounts, Owed, ChargedOnceInFull
<1> QED
  BY <1>1, Always, PTL

\* Crashes, recoveries and refused commands included, no graph is begun when
\* the budget is used up.
THEOREM BudgetIsKept == Spec => []WithinBudget
<1>1. Typed /\ Funds => WithinBudget
  <2> SUFFICES ASSUME Typed, Funds, NEW s \in Slots, pc[s] = "compute"
               PROVE  used + active.elapsed < Limit
    BY DEF WithinBudget
  <2>1. prior[s] = total /\ total >= used /\ prior[s] + active.elapsed < Limit
    BY DEF Funds, Working
  <2> QED
    BY <2>1, DualAssumption DEF Typed, Numbers, Directory, Contents
<1> QED
  BY <1>1, Always, PTL

\* The tables hold all records, verified ones only, however files are damaged.
THEOREM TablesAreVerified == Spec => []TablesVerified
<1>1. Init => Reading
  BY DEF Init, Reading, Heading, Full, TablesVerified
<1>2. Reading => TablesVerified
  BY DEF Reading
<1> QED
  BY <1>1, <1>2, ReadingStep, Always, PTL DEF Spec

-----------------------------------------------------------------------------
(* Finalization.                                                           *)

\* What the runs reported, as the assumption on outcomes says it.
Reported ==
    /\ truth \in [Instances -> Nat]
    /\ certificate \in [Instances -> Counts]
    /\ \A i \in Instances : certificate[i] \in 0 .. Of[i].universe \cup {Absent}
    /\ \A p \in Plan :
        /\ results[p].coverage \in Counts /\ results[p].bound \in Counts
        /\ results[p].status \in Statuses
        /\ results[p].coverage \in 0 .. Of[p[1]].universe \cup {Absent}
        /\ results[p].status # "error" => results[p].coverage # Absent
        /\ results[p].coverage # Absent => results[p].coverage <= truth[p[1]]
        /\ results[p].status # IF IsExact(p[2]) THEN "feasible" ELSE "optimal"

LEMMA InitReported == FinalInit => Reported
<1>1. SUFFICES ASSUME FinalInit PROVE Reported
  OBVIOUS
<1>2. PICK o \in Outcomes : results = o.results /\ certificate = o.certificate /\ truth = o.truth
  BY <1>1 DEF FinalInit
<1>3. /\ o.truth \in [Instances -> Nat] /\ o.certificate \in [Instances -> Counts]
      /\ \A i \in Instances : o.certificate[i] \in 0 .. Of[i].universe \cup {Absent}
      /\ \A p \in Plan :
          /\ o.results[p] \in Result /\ RecordAccepted(o.results[p], p[1])
          /\ o.results[p].coverage # Absent => o.results[p].coverage <= o.truth[p[1]]
          /\ o.results[p].status # IF IsExact(p[2]) THEN "feasible" ELSE "optimal"
  BY <1>2, OutcomesAssumption
<1>4. ASSUME NEW p \in Plan
      PROVE  /\ results[p].coverage \in Counts /\ results[p].bound \in Counts
             /\ results[p].status \in Statuses
             /\ results[p].coverage \in 0 .. Of[p[1]].universe \cup {Absent}
             /\ results[p].status # "error" => results[p].coverage # Absent
             /\ results[p].coverage # Absent => results[p].coverage <= truth[p[1]]
             /\ results[p].status # IF IsExact(p[2]) THEN "feasible" ELSE "optimal"
  <2>1. results[p] \in Result /\ RecordAccepted(results[p], p[1])
    BY <1>2, <1>3, <1>4
  <2>2. results[p].coverage \in Counts /\ results[p].bound \in Counts /\ results[p].status \in Statuses
    BY <2>1 DEF Result
  <2>3. /\ results[p].status # "error" => results[p].coverage # Absent
        /\ results[p].coverage \in 0 .. Of[p[1]].universe \cup {Absent}
    BY <2>1 DEF RecordAccepted
  <2>. QED  BY <1>2, <1>3, <1>4, <2>2, <2>3
<1>. QED  BY <1>2, <1>3, <1>4 DEF Reported

LEMMA StepReported == Reported /\ [FinalNext]_finalVars => Reported'
BY DEF Reported, FinalNext, Normalize, WriteTable, Validate, finalVars

\* The number of written tables.
LEMMA InitWritten == FinalInit => written \in Nat
BY DEF FinalInit

LEMMA StepWritten == written \in Nat /\ [FinalNext]_finalVars => written' \in Nat
BY DEF FinalNext, Normalize, WriteTable, Validate, finalVars

\* What is proved of an instance with a true certificate or a true proof.
LEMMA ProofsAreTrue ==
    ASSUME Reported, ~OptimaRefused, NEW i \in Instances, TrueProof(i)
    PROVE  Optimum(i) = truth[i] /\ ClaimsTrue(i)
<1>1. ~ClaimsDisagree(i) /\ ~BoundBelowCertificate(i)
  BY DEF OptimaRefused
<1>2. truth[i] \in Nat /\ truth[i] # Absent
  BY VariantsAssumption DEF Reported
<1>3. \A v \in Claimed(i) : v = truth[i]
  BY <1>1, <1>2 DEF ClaimsDisagree, TrueProof
<1>4. Optimum(i) = truth[i]
  <2>1. CASE certificate[i] = truth[i]
    BY <1>2, <2>1 DEF Optimum
  <2>2. CASE certificate[i] = Absent /\ truth[i] \in Claimed(i)
    <3>1. (CHOOSE v \in Claimed(i) : TRUE) \in Claimed(i)
      BY <2>2
    <3>. QED  BY <1>3, <2>2, <3>1 DEF Optimum
  <2>. QED  BY <2>1, <2>2 DEF TrueProof
<1>5. ASSUME NEW p \in RunsOf(i), results[p].status = "optimal"
      PROVE  results[p].coverage = truth[i]
  BY <1>3, <1>5 DEF Claimed
<1>6. ASSUME NEW p \in RunsOf(i), results[p].bound # Absent, certificate[i] # Absent
      PROVE  results[p].bound >= truth[i]
  <2>1. certificate[i] = truth[i]
    BY <1>6 DEF TrueProof
  <2>2. ~(results[p].bound < certificate[i])
    BY <1>1, <1>6 DEF BoundBelowCertificate
  <2>3. results[p].bound \in Nat
    BY <1>6 DEF Reported, Counts, RunsOf
  <2>. QED  BY <1>2, <2>1, <2>2, <2>3
<1>. QED  BY <1>4, <1>5, <1>6 DEF ClaimsTrue

\* The results do not change, and neither does what is true of them.
LEMMA StepResults ==
    [FinalNext]_finalVars => results' = results /\ certificate' = certificate /\ truth' = truth
BY DEF FinalNext, Normalize, WriteTable, Validate, finalVars

LEMMA StepClaims ==
    ASSUME [FinalNext]_finalVars, NEW i
    PROVE  /\ TrueProof(i)' <=> TrueProof(i)
           /\ ClaimsTrue(i)' <=> ClaimsTrue(i)
BY StepResults DEF TrueProof, ClaimsTrue, Claimed, RunsOf

LEMMA InitNoFalse == FinalInit => NoFalseOptimum
BY DEF FinalInit, NoFalseOptimum

LEMMA StepNoFalse ==
    Reported /\ written \in Nat /\ NoFalseOptimum /\ [FinalNext]_finalVars => NoFalseOptimum'
<1>1. SUFFICES ASSUME Reported, written \in Nat, NoFalseOptimum, [FinalNext]_finalVars,
                      written' > 0, NEW i \in Instances, TrueProof(i)'
               PROVE  optimum'[i] = truth'[i] /\ ClaimsTrue(i)'
  BY DEF NoFalseOptimum
<1>2. TrueProof(i) /\ (ClaimsTrue(i)' <=> ClaimsTrue(i)) /\ truth' = truth
  BY <1>1, StepClaims, StepResults
<1>3. CASE written > 0
  <2>1. optimum' = optimum
    BY <1>1, <1>3 DEF FinalNext, Normalize, WriteTable, Validate, finalVars
  <2>. QED  BY <1>1, <1>2, <1>3, <2>1 DEF NoFalseOptimum
<1>4. CASE ~(written > 0)
  <2>1. Normalize /\ ~OptimaRefused
    BY <1>1, <1>4 DEF FinalNext, Normalize, WriteTable, Validate, finalVars
  <2>2. optimum' = [j \in Instances |-> Optimum(j)]
    BY <2>1 DEF Normalize
  <2>3. Optimum(i) = truth[i] /\ ClaimsTrue(i)
    BY <1>1, <1>2, <2>1, ProofsAreTrue
  <2>. QED  BY <1>2, <2>2, <2>3
<1>. QED  BY <1>3, <1>4

\* One true proof or certificate of an instance is enough that every table is
\* made of true ones only.
THEOREM OptimaAreTrue == FinalSpec => []NoFalseOptimum
<1>. DEFINE I == Reported /\ written \in Nat /\ NoFalseOptimum
<1>1. FinalInit => I
  BY InitReported, InitWritten, InitNoFalse
<1>2. I /\ [FinalNext]_finalVars => I'
  BY StepReported, StepWritten, StepNoFalse
<1>3. I => NoFalseOptimum
  OBVIOUS
<1>. HIDE DEF I
<1>. QED  BY <1>1, <1>2, <1>3, PTL DEF FinalSpec

-----------------------------------------------------------------------------
(***************************************************************************)
(* Honest results pass every comparison that raises.                       *)
(***************************************************************************)

LEMMA HonestClaims ==
    ASSUME Reported, Honest, NEW i \in Instances
    PROVE  /\ \A v \in Claimed(i) : v = truth[i]
           /\ certificate[i] \in {Absent, truth[i]}
           /\ truth[i] \in Nat /\ truth[i] # Absent
           /\ Optimum(i) \in {Absent, truth[i]}
<1>1. \A v \in Claimed(i) : v = truth[i]
  BY DEF Claimed, RunsOf, Honest
<1>2. certificate[i] \in {Absent, truth[i]}
  BY DEF Honest
<1>3. truth[i] \in Nat /\ truth[i] # Absent
  BY VariantsAssumption DEF Reported
<1>4. Claimed(i) # {} => (CHOOSE v \in Claimed(i) : TRUE) \in Claimed(i)
  OBVIOUS
<1>. QED  BY <1>1, <1>2, <1>3, <1>4 DEF Optimum

LEMMA HonestAccepted == Reported /\ Honest => ~OptimaRefused
<1>1. SUFFICES ASSUME Reported, Honest, NEW i \in Instances
               PROVE  ~ClaimsDisagree(i) /\ ~BoundBelowCertificate(i) /\ ~CoverageAboveOptimum(i)
  BY DEF OptimaRefused
<1>2. ~ClaimsDisagree(i)
  BY <1>1, HonestClaims DEF ClaimsDisagree
<1>3. ~BoundBelowCertificate(i)
  <2>1. SUFFICES ASSUME certificate[i] # Absent, NEW p \in RunsOf(i), results[p].bound # Absent,
                        results[p].bound < certificate[i]
                 PROVE  FALSE
    BY DEF BoundBelowCertificate
  <2>2. p \in Plan /\ p[1] = i
    BY <2>1 DEF RunsOf
  <2>3. results[p].bound >= truth[i] /\ results[p].bound \in Nat
    BY <1>1, <2>1, <2>2 DEF Honest, Reported, Counts
  <2>4. certificate[i] = truth[i] /\ truth[i] \in Nat
    BY <1>1, <2>1, HonestClaims
  <2>. QED  BY <2>1, <2>3, <2>4
<1>4. ~CoverageAboveOptimum(i)
  <2>1. SUFFICES ASSUME Optimum(i) # Absent, NEW p \in RunsOf(i), results[p].coverage # Absent,
                        results[p].coverage > Optimum(i)
                 PROVE  FALSE
    BY DEF CoverageAboveOptimum
  <2>2. p \in Plan /\ p[1] = i
    BY <2>1 DEF RunsOf
  <2>3. results[p].coverage <= truth[i] /\ results[p].coverage \in Nat
    BY <1>1, <2>1, <2>2 DEF Reported, Counts
  <2>4. Optimum(i) = truth[i] /\ truth[i] \in Nat
    BY <1>1, <2>1, HonestClaims
  <2>. QED  BY <2>1, <2>3, <2>4
<1>. QED  BY <1>2, <1>3, <1>4

\* _normalize_optima raises for no benchmark whose results are all in order.
HonestIsNormalized == Honest => ~(refused /\ written = 0)

THEOREM NormalizationAcceptsHonest == FinalSpec => []HonestIsNormalized
<1>. DEFINE I == Reported /\ HonestIsNormalized
<1>1. FinalInit => I
  BY InitReported DEF FinalInit, HonestIsNormalized
<1>2. I /\ [FinalNext]_finalVars => I'
  <2>1. SUFFICES ASSUME Reported, HonestIsNormalized, [FinalNext]_finalVars, Honest'
                 PROVE  ~(refused' /\ written' = 0)
    BY StepReported DEF HonestIsNormalized
  <2>2. Honest
    BY <2>1, StepResults DEF Honest, InCase, Row
  <2>3. CASE Normalize
    BY <2>1, <2>2, <2>3, HonestAccepted DEF Normalize
  <2>4. CASE WriteTable
    BY <2>1, <2>2, <2>4 DEF WriteTable, HonestIsNormalized
  <2>5. CASE Validate
    BY <2>1, <2>2, <2>5 DEF Validate, HonestIsNormalized
  <2>6. CASE UNCHANGED finalVars
    BY <2>1, <2>2, <2>6 DEF HonestIsNormalized, finalVars
  <2>. QED  BY <2>1, <2>3, <2>4, <2>5, <2>6 DEF FinalNext
<1>3. I => HonestIsNormalized
  OBVIOUS
<1>. HIDE DEF I
<1>. QED  BY <1>1, <1>2, <1>3, PTL DEF FinalSpec

-----------------------------------------------------------------------------
(***************************************************************************)
(* Counting, and the quotients of counts.                                  *)
(***************************************************************************)

LEMMA FiniteInstances ==
    /\ IsFiniteSet(Instances) /\ IsFiniteSet(Algorithms) /\ IsFiniteSet(Plan)
    /\ Cardinality(Instances) \in Nat /\ Cardinality(Plan) \in Nat
BY VariantsAssumption, QuotientsAssumption, FS_CardinalityType

LEMMA SubsetCounted ==
    ASSUME NEW S, IsFiniteSet(S), NEW T \in SUBSET S
    PROVE  IsFiniteSet(T) /\ Cardinality(T) \in 0 .. Cardinality(S) /\ Cardinality(S) \in Nat
BY FS_Subset, FS_CardinalityType

LEMMA DisjointCounted ==
    ASSUME NEW S, NEW T, IsFiniteSet(S), IsFiniteSet(T), S \cap T = {}
    PROVE  IsFiniteSet(S \cup T) /\ Cardinality(S \cup T) = Cardinality(S) + Cardinality(T)
<1>1. Cardinality(S) \in Nat /\ Cardinality(T) \in Nat /\ Cardinality({}) = 0
  BY FS_CardinalityType, FS_EmptySet
<1>2. Cardinality(S \cap T) = 0
  BY <1>1, Zenon
<1>3. /\ IsFiniteSet(S \cup T)
      /\ Cardinality(S \cup T) = Cardinality(S) + Cardinality(T) - Cardinality(S \cap T)
  BY FS_Union
<1>. QED  BY <1>1, <1>2, <1>3

LEMMA DifferenceCounted ==
    ASSUME NEW S, IsFiniteSet(S), NEW T \in SUBSET S
    PROVE  /\ IsFiniteSet(S \ T)
           /\ Cardinality(S \ T) = Cardinality(S) - Cardinality(T)
<1>1. S \cap T = T
  OBVIOUS
<1>. QED  BY <1>1, FS_Difference

\* Two sets with a one-to-one map between them.
LEMMA SameNumber ==
    ASSUME NEW S, NEW T, IsFiniteSet(S), NEW f \in [S -> T],
           \A x, y \in S : f[x] = f[y] => x = y, \A t \in T : \E x \in S : f[x] = t
    PROVE  IsFiniteSet(T) /\ Cardinality(T) = Cardinality(S)
<1>1. f \in Surjection(S, T) /\ f \in Injection(S, T)
  BY DEF Surjection, Injection, IsInjective
<1>. QED  BY <1>1, FS_Surjection

\* Numbers as pairs.
Fractions == Nat \X (Nat \ {0})

LEMMA CloseToItself == ASSUME NEW x \in Fractions PROVE Close(x, x)
<1>1. PICK n \in Nat, d \in Nat \ {0} : x = <<n, d>>
  BY DEF Fractions
<1>2. Max({d, d}) = d
  BY DEF Max
<1>3. d \div d = 1
  OBVIOUS
<1>4. Plus(x, Negative(x)) = <<0, d>>
  BY <1>1, <1>2, <1>3 DEF Plus, Negative
<1>5. Distance(x, x) = <<0, d>>
  BY <1>4 DEF Distance, Magnitude
<1>6. 10 ^ Decimals \in Nat
  BY FloatsAssumption
<1>7. 0 * 10 ^ Decimals = 0
  BY <1>6
<1>8. Within(x, x)
  BY <1>5, <1>7, <1>1 DEF Within, AtMost, Less
<1>. QED  BY <1>8 DEF Close

\* Any rate of instances or of runs is accepted, and its decimals are.
LEMMA RatesAccepted ==
    ASSUME NEW whole \in Nat, whole <= Cardinality(Instances) + Cardinality(Plan),
           NEW n \in 0 .. whole
    PROVE  RateAccepted(Rate(n, whole), n, whole)
<1>1. CASE whole = 0
  BY <1>1 DEF Rate, RateAccepted
<1>2. CASE whole # 0
  <2>1. whole \in 1 .. Cardinality(Instances) + Cardinality(Plan)
    BY <1>2, FiniteInstances
  <2>2. Precise(n, whole)
    BY <2>1, QuotientsAssumption
  <2>3. Fl(<<n, whole>>) \in Fractions /\ Fl(<<n, whole>>)[1] <= Fl(<<n, whole>>)[2]
    BY <2>2 DEF Precise, Fractions
  <2>. DEFINE x == Fl(<<n, whole>>)
  <2>4. x \in Fractions /\ x[1] <= x[2]
    BY <2>3
  <2>. HIDE DEF x
  <2>5. x # Absent
    BY <2>4, VariantsAssumption DEF Fractions
  <2>6. InUnit(x)
    BY <2>4 DEF InUnit, AtMost, Less, Zero, One, Fractions
  <2>7. Close(x, x)
    BY <2>4, CloseToItself
  <2>. QED  BY <1>2, <2>5, <2>6, <2>7 DEF Rate, RateAccepted, x
<1>. QED  BY <1>1, <1>2

-----------------------------------------------------------------------------
(***************************************************************************)
(* The tables of references are accepted for any results at all.           *)
(***************************************************************************)

LEMMA FiniteProvers == \A i : IsFiniteSet(Provers(i)) /\ Cardinality(Provers(i)) \in Nat
<1>1. IsFiniteSet(Algorithms)
  BY VariantsAssumption
<1>2. \A i : Provers(i) \subseteq Algorithms
  BY DEF Provers, ExactVariants
<1>. QED  BY <1>1, <1>2, FS_Subset, FS_CardinalityType

LEMMA ProvedMeans == \A i : Proved(i) <=> Certified(i) \/ Provers(i) # {}
<1>1. SUFFICES ASSUME NEW i PROVE Proved(i) <=> Certified(i) \/ Provers(i) # {}
  OBVIOUS
<1>2. Cardinality(Provers(i)) \in Nat /\ (Cardinality(Provers(i)) = 0 <=> Provers(i) = {})
  BY FiniteProvers, FS_EmptySet
<1>. QED  BY <1>2 DEF Proved, SourceCount

\* The status of an instance is the first that holds of it.
LEMMA StatusHolds ==
    ASSUME NEW i
    PROVE  /\ ReferenceStatus(i) = Certificate => Certified(i)
           /\ ReferenceStatus(i) = "optimal" => Provers(i) # {}
           /\ Certified(i) => ReferenceStatus(i) = Certificate
           /\ ReferenceStatus(i) \in Statuses \cup {Certificate, "not_run"}
           /\ Provers(i) # {} =>
                ReferenceStatus(i) \in {Certificate, "optimal"}
<1>. DEFINE holds(s) ==
              CASE s = Certificate -> Certified(i)
                [] s = "not_run" -> TRUE
                [] OTHER -> \E a \in ExactVariants : SolverStatus(i, a) = s
            first(n) == holds(ReferenceStatuses[n]) /\ \A m \in 1 .. n - 1 : ~holds(ReferenceStatuses[m])
            chosen == CHOOSE n \in 1 .. 6 : first(n)
<1>1. /\ ReferenceStatuses[1] = Certificate
      /\ ReferenceStatuses[2] = "optimal" /\ ReferenceStatuses[3] = "feasible"
      /\ ReferenceStatuses[4] = "timeout" /\ ReferenceStatuses[5] = "error"
      /\ ReferenceStatuses[6] = "not_run"
  BY DEF ReferenceStatuses
<1>2. holds(ReferenceStatuses[1]) <=> Certified(i)
  BY <1>1 DEF Certificate
<1>3. holds(ReferenceStatuses[2]) <=> Provers(i) # {}
  BY <1>1 DEF Provers, Certificate
<1>4. holds(ReferenceStatuses[6])
  BY <1>1
<1>. HIDE DEF holds
<1>5. \E n \in 1 .. 6 : first(n)
  <2>1. CASE holds(ReferenceStatuses[1])
    BY <2>1
  <2>2. CASE ~holds(ReferenceStatuses[1]) /\ holds(ReferenceStatuses[2])
    BY <2>2
  <2>3. CASE ~holds(ReferenceStatuses[1]) /\ ~holds(ReferenceStatuses[2]) /\ holds(ReferenceStatuses[3])
    BY <2>3
  <2>4. CASE \A n \in 1 .. 3 : ~holds(ReferenceStatuses[n])
    <3>1. CASE holds(ReferenceStatuses[4])
      BY <2>4, <3>1
    <3>2. CASE ~holds(ReferenceStatuses[4]) /\ holds(ReferenceStatuses[5])
      BY <2>4, <3>2
    <3>3. CASE ~holds(ReferenceStatuses[4]) /\ ~holds(ReferenceStatuses[5])
      BY <1>4, <2>4, <3>3
    <3>. QED  BY <3>1, <3>2, <3>3
  <2>. QED  BY <2>1, <2>2, <2>3, <2>4
<1>6. chosen \in 1 .. 6 /\ first(chosen)
  BY <1>5
<1>7. ReferenceStatus(i) = ReferenceStatuses[chosen]
  BY DEF ReferenceStatus, holds
<1>. HIDE DEF chosen
<1>8. Certified(i) => chosen = 1
  BY <1>2, <1>6
<1>9. Provers(i) # {} => chosen \in {1, 2}
  BY <1>3, <1>6
<1>10. \A n \in 1 .. 6 :
        /\ ReferenceStatuses[n] = Certificate => n = 1
        /\ ReferenceStatuses[n] = "optimal" => n = 2
  BY <1>1 DEF Certificate
<1>11. \A n \in 1 .. 6 : ReferenceStatuses[n] \in Statuses \cup {Certificate, "not_run"}
  BY <1>1 DEF Statuses
<1>. QED  BY <1>1, <1>2, <1>3, <1>6, <1>7, <1>8, <1>9, <1>10, <1>11

\* The run of an exact algorithm that is eligible, of which there is one.
LEMMA OneRun ==
    ASSUME NEW i \in Instances, NEW a \in Algorithms, Variant[a].name \notin Seeded, Eligible(i, a)
    PROVE  <<i, a, Absent>> \in Plan
<1>1. Variant[a].seeds = {Absent}
  BY VariantsAssumption
<1>. QED  BY <1>1 DEF Plan

LEMMA ExactRun ==
    ASSUME NEW i \in Instances, NEW a \in ExactVariants, Eligible(i, a)
    PROVE  <<i, a, Absent>> \in Plan
<1>1. a \in Algorithms /\ Variant[a].name \notin Seeded
  BY DEF ExactVariants, IsExact, Exact, Seeded
<1>. QED  BY <1>1, OneRun

LEMMA ProverRuns ==
    ASSUME Reported, NEW i \in Instances, NEW a \in Provers(i)
    PROVE  /\ <<i, a, Absent>> \in RunsOf(i)
           /\ results[<<i, a, Absent>>].status = "optimal"
           /\ results[<<i, a, Absent>>].coverage \in Nat
<1>1. a \in ExactVariants /\ SolverStatus(i, a) = "optimal"
  BY DEF Provers
<1>2. Eligible(i, a) /\ results[<<i, a, Absent>>].status = "optimal"
  BY <1>1 DEF SolverStatus
<1>3. <<i, a, Absent>> \in Plan
  BY <1>1, <1>2, ExactRun
<1>4. results[<<i, a, Absent>>].coverage \in Counts /\ results[<<i, a, Absent>>].coverage # Absent
  BY <1>2, <1>3 DEF Reported
<1>. QED  BY <1>2, <1>3, <1>4 DEF RunsOf, Counts

LEMMA StatusesTyped ==
    ASSUME Reported, NEW i \in Instances, NEW a \in ExactVariants
    PROVE  /\ SolverStatus(i, a) \in Statuses \cup {"not_run"}
           /\ SolverStatus(i, a) = "not_run" <=> ~Eligible(i, a)
<1>1. CASE Eligible(i, a)
  <2>1. results[<<i, a, Absent>>].status \in Statuses
    BY <1>1, ExactRun DEF Reported
  <2>. QED  BY <1>1, <2>1 DEF SolverStatus, Statuses
<1>2. CASE ~Eligible(i, a)
  BY <1>2 DEF SolverStatus
<1>. QED  BY <1>1, <1>2

\* The reference of an instance is a number when there is a proof.
LEMMA ReferenceKnown ==
    ASSUME Reported, NEW i \in Instances
    PROVE  /\ ReferenceOptimum(i) \in Counts
           /\ Proved(i) <=> ReferenceOptimum(i) # Absent
<1>1. Proved(i) <=> Certified(i) \/ Provers(i) # {}
  BY ProvedMeans
<1>2. certificate[i] \in Counts
  BY DEF Reported
<1>3. CASE Certified(i)
  BY <1>1, <1>2, <1>3 DEF ReferenceOptimum, Certified
<1>4. CASE ~Certified(i) /\ Provers(i) # {}
  <2>1. PICK b : b = CHOOSE a \in Provers(i) : TRUE
    OBVIOUS
  <2>2. b \in Provers(i)
    BY <1>4, <2>1
  <2>3. ReferenceOptimum(i) = results[<<i, b, Absent>>].coverage
    BY <1>4, <2>1 DEF ReferenceOptimum
  <2>4. results[<<i, b, Absent>>].coverage \in Nat
    BY <2>2, ProverRuns
  <2>. QED  BY <1>1, <1>4, <2>3, <2>4, VariantsAssumption DEF Counts
<1>5. CASE ~Certified(i) /\ Provers(i) = {}
  BY <1>1, <1>5 DEF ReferenceOptimum, Counts
<1>. QED  BY <1>3, <1>4, <1>5

LEMMA SourcesCounted ==
    ASSUME NEW i, Certificate \notin Algorithms
    PROVE  /\ SourceCount(i) = Cardinality(Sources(i))
           /\ Certified(i) <=> Certificate \in Sources(i)
<1>1. Certificate \notin Provers(i) /\ IsFiniteSet(Provers(i))
  BY FiniteProvers DEF Provers, ExactVariants
<1>2. CASE Certified(i)
  BY <1>1, <1>2, FS_AddElement DEF SourceCount, Sources
<1>3. CASE ~Certified(i)
  <2>1. Sources(i) = Provers(i)
    BY <1>3 DEF Sources
  <2>2. SourceCount(i) = Cardinality(Provers(i)) + 0
    BY <1>3 DEF SourceCount
  <2>. QED  BY <1>1, <1>3, <2>1, <2>2, FiniteProvers
<1>. QED  BY <1>2, <1>3

\* Two proofs of different algorithms, one of them brute force.
LEMMA SmallMeansTwo == ASSUME NEW i, SmallCrossValidated(i) PROVE SourceCount(i) >= 2
<1>1. PICK a \in Provers(i) : Variant[a].name = "brute_force"
  BY DEF SmallCrossValidated
<1>2. PICK b \in Provers(i) : Variant[b].name # "brute_force"
  BY <1>1 DEF SmallCrossValidated
<1>3. a # b /\ {a, b} \subseteq Provers(i)
  BY <1>1, <1>2
<1>4. Cardinality({a, b}) = 2
  <2>1. IsFiniteSet({a}) /\ Cardinality({a}) = 1
    BY FS_Singleton
  <2>2. {a, b} = {a} \cup {b} /\ b \notin {a}
    BY <1>3
  <2>. QED  BY <2>1, <2>2, FS_AddElement
<1>5. Cardinality({a, b}) <= Cardinality(Provers(i))
  BY <1>3, FiniteProvers, FS_Subset
<1>. QED  BY <1>4, <1>5, FiniteProvers DEF SourceCount

LEMMA StatusesAccepted ==
    ASSUME Reported, Certificate \notin Algorithms, NEW i \in Instances
    PROVE  StatusAccepted(StatusRecord(i))
<1>. DEFINE r == StatusRecord(i)
<1>1. /\ r.status = ReferenceStatus(i) /\ r.solvers = {SolverStatus(i, a) : a \in ExactVariants}
      /\ r.sources = Sources(i) /\ r.number = SourceCount(i) /\ r.certified = Certified(i)
      /\ r.proved = Proved(i) /\ r.optimum = ReferenceOptimum(i)
      /\ r.validation = CrossValidation(SourceCount(i)) /\ r.small = SmallCrossValidated(i)
  BY DEF StatusRecord
<1>. HIDE DEF r
<1>2. r.solvers \subseteq Statuses \cup {"not_run"}
  BY <1>1, StatusesTyped
<1>3. Proved(i) <=> Certified(i) \/ Provers(i) # {}
  BY ProvedMeans
<1>4. r.status \in Statuses \cup {Certificate, "not_run"}
  BY <1>1, StatusHolds
<1>5. r.number = Cardinality(r.sources) /\ r.validation = CrossValidation(r.number)
  BY <1>1, SourcesCounted
<1>6. /\ r.proved <=> r.number > 0
      /\ r.certified <=> Certificate \in r.sources
  BY <1>1, SourcesCounted DEF Proved
<1>7. /\ r.proved <=> r.optimum # Absent
      /\ r.optimum # Absent => r.optimum >= 0
  BY <1>1, ReferenceKnown DEF Counts
<1>8. /\ r.status = Certificate => r.certified
      /\ r.proved <=> r.status \in {Certificate, "optimal"}
  BY <1>1, <1>3, StatusHolds
<1>9. r.small => r.number >= 2
  BY <1>1, SmallMeansTwo
<1>. QED  BY <1>2, <1>4, <1>5, <1>6, <1>7, <1>8, <1>9 DEF StatusAccepted, r

\* A rate of some instances, and a rate of more of them.
LEMMA RatesOrdered ==
    ASSUME NEW whole \in 1 .. Cardinality(Instances), NEW n \in 0 .. whole, NEW m \in 0 .. n
    PROVE  /\ InUnit(Rate(n, whole)) /\ Rate(n, whole) \in Fractions /\ Rate(n, whole) # Absent
           /\ AtMost(Rate(m, whole), Rate(n, whole))
<1>1. whole \in 1 .. Cardinality(Instances) + Cardinality(Plan) /\ whole # 0
  BY FiniteInstances
<1>2. Precise(n, whole)
  BY <1>1, QuotientsAssumption
<1>3. Fl(<<n, whole>>) \in Fractions /\ Fl(<<n, whole>>)[1] <= Fl(<<n, whole>>)[2]
  BY <1>2 DEF Precise, Fractions
<1>4. AtMost(Fl(<<m, whole>>), Fl(<<n, whole>>))
  BY QuotientsAssumption
<1>. DEFINE x == Fl(<<n, whole>>)
<1>5. x \in Fractions /\ x[1] <= x[2]
  BY <1>3
<1>6. Rate(n, whole) = x /\ AtMost(Rate(m, whole), x)
  BY <1>1, <1>4 DEF Rate
<1>. HIDE DEF x
<1>7. x # Absent
  BY <1>5, VariantsAssumption DEF Fractions
<1>8. InUnit(x)
  BY <1>5 DEF InUnit, AtMost, Less, Zero, One, Fractions
<1>. QED  BY <1>5, <1>6, <1>7, <1>8

\* A group has instances, of which a count is a subset.
LEMMA GroupCounted ==
    ASSUME NEW g \in Groups
    PROVE  /\ IsFiniteSet(Members(g)) /\ Members(g) \subseteq Instances
           /\ Cardinality(Members(g)) \in 1 .. Cardinality(Instances)
           /\ Cardinality(CasesIn(g)) > 0
           /\ \A T \in SUBSET Members(g) : Cardinality(T) \in 0 .. Cardinality(Members(g))
<1>1. Members(g) \subseteq Instances /\ Members(g) # {}
  BY DEF Groups, Members
<1>2. /\ IsFiniteSet(Members(g)) /\ Cardinality(Members(g)) \in 0 .. Cardinality(Instances)
      /\ Cardinality(Members(g)) # 0 /\ Cardinality(Instances) \in Nat
  BY <1>1, FiniteInstances, SubsetCounted, FS_EmptySet
<1>3. IsFiniteSet(CasesIn(g)) /\ CasesIn(g) # {}
  <2>. DEFINE f == [i \in Members(g) |-> Of[i].case]
  <2>1. f \in [Members(g) -> CasesIn(g)] /\ \A c \in CasesIn(g) : \E i \in Members(g) : f[i] = c
    BY DEF CasesIn
  <2>2. f \in Surjection(Members(g), CasesIn(g))
    BY <2>1 DEF Surjection
  <2>3. IsFiniteSet(CasesIn(g))
    BY <1>2, <2>2, FS_Surjection
  <2>. QED  BY <1>1, <2>3 DEF CasesIn
<1>4. Cardinality(CasesIn(g)) \in Nat /\ Cardinality(CasesIn(g)) # 0
  BY <1>3, FS_CardinalityType, FS_EmptySet
<1>. QED  BY <1>1, <1>2, <1>4, SubsetCounted

LEMMA CoveragesAccepted ==
    ASSUME NEW g \in Groups, NEW s \in Statuses \cup {Certificate, "not_run"}
    PROVE  CoverageAccepted(ReferenceCoverage(g, s))
<1>. DEFINE c == ReferenceCoverage(g, s)
            with == {i \in Members(g) : ReferenceStatus(i) = s}
            proved == {i \in Members(g) : Proved(i)}
            size == Cardinality(Members(g))
<1>1. /\ c.status = s /\ c.cases = Cardinality(CasesIn(g)) /\ c.generated = size
      /\ c.with = Cardinality(with) /\ c.proved = Cardinality(proved)
      /\ c.rate = Rate(Cardinality(with), size) /\ c.coverage = Rate(Cardinality(proved), size)
      /\ c.certificates = Cardinality({i \in Members(g) : Certified(i)})
      /\ c.solved = Cardinality({i \in Members(g) : Provers(i) # {}})
      /\ c.agreed = Cardinality({i \in Members(g) : CrossValidation(SourceCount(i)) = "agreement"})
  BY DEF ReferenceCoverage, Quantify
<1>. HIDE DEF c
<1>2. {c.with, c.proved, c.certificates, c.solved, c.agreed} \subseteq 0 .. size
  BY <1>1, GroupCounted
<1>3. size \in Nat /\ size > 0 /\ size <= Cardinality(Instances) + Cardinality(Plan)
  BY GroupCounted, FiniteInstances
<1>4. /\ RateAccepted(c.rate, c.with, c.generated)
      /\ RateAccepted(c.coverage, c.proved, c.generated)
  BY <1>1, <1>2, <1>3, RatesAccepted
<1>5. c.cases > 0 /\ c.generated > 0
  BY <1>1, <1>3, GroupCounted
<1>. QED  BY <1>1, <1>2, <1>4, <1>5 DEF CoverageAccepted, c

\* The instances of a group by the status of an algorithm, which has one of each.
LEMMA StatusesCounted ==
    ASSUME Reported, NEW g \in Groups, NEW a \in ExactVariants
    PROVE  LET with(s) == {i \in Members(g) : SolverStatus(i, a) = s}
           IN  Cardinality(Members(g)) =
                   Cardinality(with("optimal")) + Cardinality(with("feasible"))
                   + Cardinality(with("timeout")) + Cardinality(with("error"))
                   + Cardinality(with("not_run"))
<1>. DEFINE with(s) == {i \in Members(g) : SolverStatus(i, a) = s}
            first == with("optimal") \cup with("feasible")
            third == first \cup with("timeout")
            fourth == third \cup with("error")
<1>1. \A s : IsFiniteSet(with(s)) /\ Cardinality(with(s)) \in Nat
  BY GroupCounted, SubsetCounted
<1>2. Members(g) = fourth \cup with("not_run")
  <2>1. \A i \in Members(g) : SolverStatus(i, a) \in Statuses \cup {"not_run"}
    BY StatusesTyped, GroupCounted
  <2>. QED  BY <2>1 DEF Statuses
<1>3. /\ IsFiniteSet(first)
      /\ Cardinality(first) = Cardinality(with("optimal")) + Cardinality(with("feasible"))
  <2>1. with("optimal") \cap with("feasible") = {}
    OBVIOUS
  <2>. HIDE DEF with
  <2>. QED  BY <1>1, <2>1, DisjointCounted
<1>4. IsFiniteSet(third) /\ Cardinality(third) = Cardinality(first) + Cardinality(with("timeout"))
  <2>1. first \cap with("timeout") = {}
    OBVIOUS
  <2>. HIDE DEF with, first
  <2>. QED  BY <1>1, <1>3, <2>1, DisjointCounted
<1>5. IsFiniteSet(fourth) /\ Cardinality(fourth) = Cardinality(third) + Cardinality(with("error"))
  <2>1. third \cap with("error") = {}
    OBVIOUS
  <2>. HIDE DEF with, third
  <2>. QED  BY <1>1, <1>4, <2>1, DisjointCounted
<1>6. Cardinality(fourth \cup with("not_run")) = Cardinality(fourth) + Cardinality(with("not_run"))
  <2>1. fourth \cap with("not_run") = {}
    OBVIOUS
  <2>. HIDE DEF with, fourth
  <2>. QED  BY <1>1, <1>5, <2>1, DisjointCounted
<1>7. Cardinality(Members(g)) =
        Cardinality(with("optimal")) + Cardinality(with("feasible"))
        + Cardinality(with("timeout")) + Cardinality(with("error")) + Cardinality(with("not_run"))
  <2>. HIDE DEF with
  <2>. QED  BY <1>1, <1>2, <1>3, <1>4, <1>5, <1>6
<1>. QED  BY <1>7

LEMMA CutoffsAccepted ==
    ASSUME Reported, NEW g \in Groups, NEW a \in ExactVariants
    PROVE  CutoffAccepted(Cutoff(g, a))
<1>. DEFINE c == Cutoff(g, a)
            with(s) == {i \in Members(g) : SolverStatus(i, a) = s}
            effective == {i \in Members(g) : Certified(i) \/ SolverStatus(i, a) = "optimal"}
            size == Cardinality(Members(g))
<1>1. /\ c.cases = Cardinality(CasesIn(g)) /\ c.generated = size
      /\ c.seconds = Variant[a].seconds /\ c.limit = Variant[a].limit
      /\ c.eligible = size - Cardinality(with("not_run"))
      /\ c.optimal = Cardinality(with("optimal")) /\ c.feasible = Cardinality(with("feasible"))
      /\ c.timeout = Cardinality(with("timeout")) /\ c.error = Cardinality(with("error"))
      /\ c.notRun = Cardinality(with("not_run"))
      /\ c.certificates = Cardinality({i \in Members(g) : Certified(i)})
      /\ c.solver = Rate(Cardinality(with("optimal")), size)
      /\ c.effective = Rate(Cardinality(effective), size)
  BY DEF Cutoff, Quantify
<1>2. \A s : Cardinality(with(s)) \in 0 .. size
  BY GroupCounted
<1>3. size \in 1 .. Cardinality(Instances)
  BY GroupCounted
<1>4. size = Cardinality(with("optimal")) + Cardinality(with("feasible"))
             + Cardinality(with("timeout")) + Cardinality(with("error"))
             + Cardinality(with("not_run"))
  BY StatusesCounted
<1>5. Cardinality(effective) \in 0 .. size /\ Cardinality(with("optimal")) \in 0 .. Cardinality(effective)
  <2>1. IsFiniteSet(effective) /\ Cardinality(effective) \in 0 .. size
    BY GroupCounted, SubsetCounted
  <2>2. with("optimal") \subseteq effective
    OBVIOUS
  <2>. HIDE DEF with, effective
  <2>. QED  BY <2>1, <2>2, SubsetCounted
<1>6. Cardinality({i \in Members(g) : Certified(i)}) \in 0 .. size
  BY GroupCounted
<1>. HIDE DEF c, with, effective, size
<1>7. InUnit(c.effective) /\ AtMost(c.solver, c.effective)
  BY <1>1, <1>3, <1>5, RatesOrdered
<1>8. RateAccepted(c.solver, c.optimal, c.generated)
  <2>1. size \in Nat /\ size <= Cardinality(Instances) + Cardinality(Plan)
    BY <1>3, FiniteInstances
  <2>. QED  BY <1>1, <1>2, <2>1, RatesAccepted
<1>9. /\ c.seconds # Absent => Less(Zero, c.seconds)
      /\ c.limit # Absent => c.limit > 0
  <2>1. a \in Algorithms
    BY DEF ExactVariants
  <2>. QED  BY <1>1, <2>1, VariantsAssumption DEF Counts
<1>10. /\ {c.eligible, c.optimal, c.feasible, c.timeout, c.error, c.notRun, c.certificates}
            \subseteq 0 .. c.generated
       /\ c.eligible + c.notRun = c.generated
       /\ c.optimal + c.feasible + c.timeout + c.error = c.eligible
       /\ c.generated > 0
  BY <1>1, <1>2, <1>3, <1>4, <1>6
<1>11. c.cases > 0
  BY <1>1, GroupCounted
<1>. QED  BY <1>7, <1>8, <1>9, <1>10, <1>11 DEF CutoffAccepted, c

\* The tables of references that only count: each accepts all its records, or,
\* when an algorithm is called like a certificate, not the first of them.
ReferencesAreAccepted ==
    refused => written \notin {12, 14} /\ (written = 11 => Certificate \in Algorithms)

LEMMA ReferencesPass ==
    Reported => /\ Certificate \notin Algorithms => ~Refused("reference_status")
                /\ ~Refused("reference_coverage") /\ ~Refused("reference_cutoff_sensitivity")
<1>1. SUFFICES ASSUME Reported,
                      NEW f \in {"reference_status", "reference_coverage",
                                 "reference_cutoff_sensitivity"},
                      f = "reference_status" => Certificate \notin Algorithms
               PROVE  ~Refused(f)
  OBVIOUS
<1>2. ~CaseTableRefused(f)
  BY <1>1 DEF CaseTableRefused
<1>3. ~FamilyTableRefused(f)
  BY <1>1 DEF FamilyTableRefused
<1>4. ~ReferenceTableRefused(f)
  <2>1. \A n \in 1 .. 6 : ReferenceStatuses[n] \in Statuses \cup {Certificate, "not_run"}
    BY DEF ReferenceStatuses, Statuses
  <2>2. CASE f = "reference_status"
    BY <1>1, <2>2, StatusesAccepted DEF ReferenceTableRefused
  <2>3. CASE f = "reference_coverage"
    BY <2>1, <2>3, CoveragesAccepted DEF ReferenceTableRefused
  <2>4. CASE f = "reference_cutoff_sensitivity"
    BY <1>1, <2>4, CutoffsAccepted DEF ReferenceTableRefused
  <2>. QED  BY <1>1, <2>2, <2>3, <2>4
<1>5. f # "report"
  BY <1>1
<1>. QED  BY <1>2, <1>3, <1>4, <1>5 DEF Refused, TableRefused

\* Whatever the results are, honest or not: once they are normalised, the tables
\* of the references accept them.
THEOREM ReferencesNeverRefused == FinalSpec => []ReferencesAreAccepted
<1>. DEFINE I == Reported /\ written \in Nat /\ ReferencesAreAccepted
<1>1. FinalInit => I
  BY InitReported DEF FinalInit, ReferencesAreAccepted
<1>2. I /\ [FinalNext]_finalVars => I'
  <2>1. SUFFICES ASSUME Reported, written \in Nat, ReferencesAreAccepted, [FinalNext]_finalVars
                 PROVE  ReferencesAreAccepted'
    BY StepReported, StepWritten
  <2>2. CASE Normalize
    <3>1. written' \in {0, 1}
      BY <2>2 DEF Normalize
    <3>. QED  BY <3>1 DEF ReferencesAreAccepted
  <2>3. CASE WriteTable
    <3>1. CASE Refused(Files[written + 1])
      <4>1. UNCHANGED written
        BY <2>3, <3>1 DEF WriteTable
      <4>2. /\ written = 11 => Files[written + 1] = "reference_status"
            /\ written = 12 => Files[written + 1] = "reference_coverage"
            /\ written = 14 => Files[written + 1] = "reference_cutoff_sensitivity"
        BY DEF Files
      <4>3. written \notin {12, 14} /\ (written = 11 => Certificate \in Algorithms)
        BY <2>1, <3>1, <4>2, ReferencesPass
      <4>. QED  BY <4>1, <4>3 DEF ReferencesAreAccepted
    <3>2. CASE ~Refused(Files[written + 1])
      BY <2>3, <3>2 DEF WriteTable, ReferencesAreAccepted
    <3>. QED  BY <3>1, <3>2
  <2>4. CASE Validate
    BY <2>1, <2>4 DEF Validate, ReferencesAreAccepted
  <2>5. CASE UNCHANGED finalVars
    BY <2>1, <2>5 DEF ReferencesAreAccepted, finalVars
  <2>. QED  BY <2>1, <2>2, <2>3, <2>4, <2>5 DEF FinalNext
<1>3. I => ReferencesAreAccepted
  OBVIOUS
<1>. HIDE DEF I
<1>. QED  BY <1>1, <1>2, <1>3, PTL DEF FinalSpec

-----------------------------------------------------------------------------
(***************************************************************************)
(* The tables after the normalisation.                                     *)
(***************************************************************************)

\* What the tables are made of: results whose optima were not refused.
Known ==
    written > 0 =>
        /\ ~OptimaRefused
        /\ optimum = [i \in Instances |-> Optimum(i)]
        /\ gap = [p \in Plan |-> RowGap(Optimum(p[1]), results[p].coverage)]

LEMMA InitKnown == FinalInit => Known
BY DEF FinalInit, Known

LEMMA StepRefusal ==
    ASSUME [FinalNext]_finalVars
    PROVE  /\ OptimaRefused' <=> OptimaRefused
           /\ \A i : Optimum(i)' = Optimum(i)
<1>1. results' = results /\ certificate' = certificate
  BY StepResults
<1>2. \A i : Optimum(i)' = Optimum(i)
  BY <1>1 DEF Optimum, Claimed, RunsOf
<1>3. \A i : ClaimsDisagree(i)' <=> ClaimsDisagree(i)
  BY <1>1 DEF ClaimsDisagree, Claimed, RunsOf
<1>4. \A i : BoundBelowCertificate(i)' <=> BoundBelowCertificate(i)
  BY <1>1 DEF BoundBelowCertificate, RunsOf
<1>5. \A i : CoverageAboveOptimum(i)' <=> CoverageAboveOptimum(i)
  BY <1>1, <1>2 DEF CoverageAboveOptimum, RunsOf
<1>. QED  BY <1>2, <1>3, <1>4, <1>5 DEF OptimaRefused

LEMMA StepKnown == written \in Nat /\ Known /\ [FinalNext]_finalVars => Known'
<1>1. SUFFICES ASSUME written \in Nat, Known, [FinalNext]_finalVars, written' > 0
               PROVE  /\ ~OptimaRefused'
                      /\ optimum' = [i \in Instances |-> Optimum(i)']
                      /\ gap' = [p \in Plan |-> RowGap(Optimum(p[1])', results'[p].coverage)]
  BY DEF Known, RowGap
<1>2. /\ OptimaRefused' <=> OptimaRefused
      /\ \A i : Optimum(i)' = Optimum(i)
      /\ results' = results
  BY <1>1, StepRefusal, StepResults
<1>3. CASE written > 0
  <2>1. UNCHANGED <<optimum, gap>>
    BY <1>1, <1>3 DEF FinalNext, Normalize, WriteTable, Validate, finalVars
  <2>2. /\ ~OptimaRefused /\ optimum = [i \in Instances |-> Optimum(i)]
        /\ gap = [p \in Plan |-> RowGap(Optimum(p[1]), results[p].coverage)]
    BY <1>1, <1>3 DEF Known
  <2>. QED  BY <1>2, <2>1, <2>2
<1>4. CASE ~(written > 0)
  <2>1. Normalize /\ ~OptimaRefused
    BY <1>1, <1>4 DEF FinalNext, Normalize, WriteTable, Validate, finalVars
  <2>2. /\ optimum' = [i \in Instances |-> Optimum(i)]
        /\ gap' = [p \in Plan |-> RowGap(Optimum(p[1]), results[p].coverage)]
    BY <2>1 DEF Normalize
  <2>. QED  BY <1>2, <2>1, <2>2
<1>. QED  BY <1>3, <1>4

-----------------------------------------------------------------------------
(***************************************************************************)
(* The runs of a case.                                                     *)
(***************************************************************************)

LEMMA CaseCounted ==
    ASSUME NEW c
    PROVE  /\ IsFiniteSet(InCase(c)) /\ InCase(c) \subseteq Instances
           /\ Cardinality(InCase(c)) \in 0 .. Cardinality(Instances)
           /\ c \in Cases => Cardinality(InCase(c)) > 0
<1>1. InCase(c) \subseteq Instances /\ (c \in Cases => InCase(c) # {})
  BY DEF InCase, Cases
<1>2. IsFiniteSet(InCase(c)) /\ Cardinality(InCase(c)) \in 0 .. Cardinality(Instances)
  BY <1>1, FiniteInstances, SubsetCounted
<1>3. InCase(c) # {} => Cardinality(InCase(c)) # 0
  BY <1>2, FS_EmptySet
<1>. QED  BY <1>1, <1>2, <1>3

\* The instances of a case have the same number of sets, so that a variant
\* which runs on one of them runs on all.
LEMMA InUseEligible ==
    ASSUME NEW c, NEW a \in InUse(c), NEW i \in InCase(c)
    PROVE  Eligible(i, a) /\ a \in Algorithms /\ i \in Instances
<1>1. PICK j \in InCase(c) : Eligible(j, a) /\ a \in Algorithms
  BY DEF InUse
<1>2. Of[i].sets = Of[j].sets /\ i \in Instances
  BY <1>1, InstancesAssumption DEF InCase
<1>. QED  BY <1>1, <1>2 DEF Eligible

LEMMA RowPlanned ==
    ASSUME NEW c, NEW a \in InUse(c), Variant[a].name \notin Seeded, NEW i \in InCase(c)
    PROVE  <<i, a, Absent>> \in RunsIn(c, a) /\ <<i, a, Absent>> \in Plan
BY InUseEligible, OneRun DEF RunsIn

LEMMA RowsOnly ==
    ASSUME NEW c, NEW a \in InUse(c), Variant[a].name \notin Seeded, NEW p \in RunsIn(c, a)
    PROVE  p = <<p[1], a, Absent>> /\ p[1] \in InCase(c)
<1>1. p \in Plan /\ p[1] \in InCase(c) /\ p[2] = a
  BY DEF RunsIn
<1>2. Variant[a].seeds = {Absent}
  BY VariantsAssumption DEF InUse
<1>. QED  BY <1>1, <1>2 DEF Plan

\* As many of the runs of such a variant as instances end in one of these ways.
LEMMA RowsCounted ==
    ASSUME NEW c, NEW a \in InUse(c), Variant[a].name \notin Seeded, NEW T
    PROVE  /\ IsFiniteSet(With(RunsIn(c, a), T))
           /\ Cardinality(With(RunsIn(c, a), T)) =
                Cardinality({i \in InCase(c) : Row(i, a).status \in T})
<1>. DEFINE S == {i \in InCase(c) : Row(i, a).status \in T}
            f == [i \in S |-> <<i, a, Absent>>]
<1>1. IsFiniteSet(S)
  BY CaseCounted, SubsetCounted
<1>2. f \in [S -> With(RunsIn(c, a), T)]
  BY RowPlanned DEF With, Row
<1>3. \A x, y \in S : f[x] = f[y] => x = y
  OBVIOUS
<1>4. \A p \in With(RunsIn(c, a), T) : \E x \in S : f[x] = p
  <2>1. SUFFICES ASSUME NEW p \in With(RunsIn(c, a), T) PROVE p[1] \in S /\ f[p[1]] = p
    OBVIOUS
  <2>2. p \in RunsIn(c, a) /\ results[p].status \in T
    BY <2>1 DEF With
  <2>3. p = <<p[1], a, Absent>> /\ p[1] \in InCase(c)
    BY <2>2, RowsOnly
  <2>. QED  BY <2>2, <2>3 DEF Row
<1>. HIDE DEF f, S
<1>5. IsFiniteSet(With(RunsIn(c, a), T)) /\ Cardinality(With(RunsIn(c, a), T)) = Cardinality(S)
  BY <1>1, <1>2, <1>3, <1>4, SameNumber
<1>. QED  BY <1>5 DEF S

LEMMA RunsCounted ==
    ASSUME NEW c, NEW a \in InUse(c), Variant[a].name \notin Seeded
    PROVE  Cardinality(RunsIn(c, a)) = Cardinality(InCase(c))
<1>1. \A p \in RunsIn(c, a) : results[p].status \in {results[q].status : q \in Plan}
  BY DEF RunsIn
<1>. DEFINE T == {results[q].status : q \in Plan}
<1>2. With(RunsIn(c, a), T) = RunsIn(c, a)
  BY <1>1 DEF With
<1>3. {i \in InCase(c) : Row(i, a).status \in T} = InCase(c)
  BY RowPlanned DEF Row
<1>. HIDE DEF T
<1>. QED  BY <1>2, <1>3, RowsCounted

-----------------------------------------------------------------------------
(***************************************************************************)
(* The failures of greedy.                                                 *)
(***************************************************************************)

\* When every run of a variant ends in one of three ways, the counts of a
\* record are those of all its runs.
LEMMA RunsPartitioned ==
    ASSUME NEW c, NEW a \in InUse(c), Variant[a].name \notin Seeded,
           \A i \in InCase(c) : Row(i, a).status \in HeuristicStatuses
    PROVE  LET ran == RunCounts(RunsIn(c, a), {"feasible"})
           IN  /\ Partitioned(ran) /\ ran.runs = Cardinality(InCase(c))
               /\ ran.finished = Cardinality({i \in InCase(c) : Row(i, a).status = "feasible"})
               /\ ran.timeouts \in 0 .. ran.runs /\ ran.errors \in 0 .. ran.runs
<1>. DEFINE ran == RunCounts(RunsIn(c, a), {"feasible"})
            with(s) == {i \in InCase(c) : Row(i, a).status = s}
            first == with("feasible") \cup with("timeout")
<1>1. \A s : Cardinality(With(RunsIn(c, a), {s})) = Cardinality(with(s))
  <2>1. SUFFICES ASSUME NEW s
                 PROVE  Cardinality(With(RunsIn(c, a), {s})) = Cardinality(with(s))
    OBVIOUS
  <2>2. with(s) = {i \in InCase(c) : Row(i, a).status \in {s}}
    OBVIOUS
  <2>. QED  BY <2>2, RowsCounted
<1>2. /\ ran.runs = Cardinality(InCase(c)) /\ ran.finished = Cardinality(with("feasible"))
      /\ ran.timeouts = Cardinality(with("timeout")) /\ ran.errors = Cardinality(with("error"))
  BY <1>1, RunsCounted DEF RunCounts, NumberOf
<1>3. \A s : IsFiniteSet(with(s)) /\ Cardinality(with(s)) \in 0 .. Cardinality(InCase(c))
  BY CaseCounted, SubsetCounted
<1>4. InCase(c) = first \cup with("error")
  BY DEF HeuristicStatuses
<1>5. /\ IsFiniteSet(first)
      /\ Cardinality(first) = Cardinality(with("feasible")) + Cardinality(with("timeout"))
  <2>1. with("feasible") \cap with("timeout") = {}
    OBVIOUS
  <2>. HIDE DEF with
  <2>. QED  BY <1>3, <2>1, DisjointCounted
<1>6. Cardinality(first \cup with("error")) = Cardinality(first) + Cardinality(with("error"))
  <2>1. first \cap with("error") = {}
    OBVIOUS
  <2>. HIDE DEF with, first
  <2>. QED  BY <1>3, <1>5, <2>1, DisjointCounted
<1>7. Cardinality(with("feasible")) + Cardinality(with("timeout")) + Cardinality(with("error"))
        = Cardinality(InCase(c))
  <2>. HIDE DEF with
  <2>. QED  BY <1>3, <1>4, <1>5, <1>6
<1>8. /\ Partitioned(ran) /\ ran.runs = Cardinality(InCase(c))
      /\ ran.finished = Cardinality(with("feasible"))
      /\ ran.timeouts \in 0 .. ran.runs /\ ran.errors \in 0 .. ran.runs
  <2>. HIDE DEF with, ran
  <2>. QED  BY <1>2, <1>3, <1>7 DEF Partitioned
<1>. QED  BY <1>8

LEMMA FailuresAccepted ==
    ASSUME NEW c \in Cases, NEW a \in InUse(c), Variant[a].name \notin Seeded,
           \A i \in InCase(c) : Row(i, a).status \in HeuristicStatuses
    PROVE  GreedyFailureAccepted(GreedyFailure(c, a))
<1>. DEFINE g == GreedyFailure(c, a)
            ran == RunCounts(RunsIn(c, a), {"feasible"})
            size == Cardinality(InCase(c))
            feasible == {i \in InCase(c) : Row(i, a).status = "feasible"}
            references == Cardinality(Referenced(c))
            eligible == Cardinality(Comparable(c, a))
            failures == Cardinality(Failures(c, a))
            ties == Cardinality(Comparable(c, a) \ Failures(c, a))
<1>1. /\ g.instances = size /\ g.ran = ran
      /\ g.timeoutRate = Rate(ran.timeouts, size) /\ g.errorRate = Rate(ran.errors, size)
      /\ g.references = references /\ g.referenceRate = Rate(references, size)
      /\ g.none = size - references
      /\ g.eligible = eligible /\ g.eligibleRate = Rate(eligible, size)
      /\ g.failures = failures /\ g.failureRate = Rate(failures, eligible)
      /\ g.ties = ties /\ g.tieRate = Rate(ties, eligible)
  BY DEF GreedyFailure
<1>2. /\ Partitioned(ran) /\ ran.runs = size /\ ran.finished = Cardinality(feasible)
      /\ ran.timeouts \in 0 .. size /\ ran.errors \in 0 .. size
  <2>1. LET run == RunCounts(RunsIn(c, a), {"feasible"})
        IN  /\ Partitioned(run) /\ run.runs = Cardinality(InCase(c))
            /\ run.finished = Cardinality({i \in InCase(c) : Row(i, a).status = "feasible"})
            /\ run.timeouts \in 0 .. run.runs /\ run.errors \in 0 .. run.runs
    BY RunsPartitioned
  <2>. QED  BY <2>1
<1>3. /\ Referenced(c) \subseteq InCase(c) /\ feasible \subseteq InCase(c)
      /\ Comparable(c, a) = feasible \cap Referenced(c)
      /\ Failures(c, a) \subseteq Comparable(c, a)
  BY DEF Referenced, Comparable, Failures
<1>4. size \in 1 .. Cardinality(Instances) /\ IsFiniteSet(InCase(c))
  BY CaseCounted
<1>. HIDE DEF g, ran, feasible
<1>5. /\ IsFiniteSet(Referenced(c)) /\ references \in 0 .. size
      /\ IsFiniteSet(feasible) /\ Cardinality(feasible) \in 0 .. size
      /\ IsFiniteSet(Comparable(c, a)) /\ eligible \in 0 .. references
      /\ eligible \in 0 .. Cardinality(feasible)
  BY <1>3, <1>4, SubsetCounted
<1>6. failures \in 0 .. eligible /\ ties = eligible - failures
  BY <1>3, <1>5, SubsetCounted, DifferenceCounted
<1>7. eligible >= Cardinality(feasible) + references - size
  <2>1. /\ Cardinality(feasible \cup Referenced(c)) =
             Cardinality(feasible) + references - Cardinality(feasible \cap Referenced(c))
        /\ IsFiniteSet(feasible \cup Referenced(c))
    BY <1>5, FS_Union
  <2>2. Cardinality(feasible \cup Referenced(c)) \in 0 .. size
    BY <1>3, <1>4, SubsetCounted
  <2>. QED  BY <1>3, <1>4, <1>5, <2>1, <2>2
<1>. HIDE DEF size, references, eligible, failures, ties
<1>8. /\ RateAccepted(g.timeoutRate, g.ran.timeouts, g.ran.runs)
      /\ RateAccepted(g.errorRate, g.ran.errors, g.ran.runs)
      /\ RateAccepted(g.referenceRate, g.references, g.instances)
      /\ RateAccepted(g.eligibleRate, g.eligible, g.instances)
      /\ RateAccepted(g.failureRate, g.failures, g.eligible)
      /\ RateAccepted(g.tieRate, g.ties, g.eligible)
  <2>1. /\ size \in Nat /\ size <= Cardinality(Instances) + Cardinality(Plan)
        /\ eligible \in Nat /\ eligible <= Cardinality(Instances) + Cardinality(Plan)
        /\ eligible \in 0 .. size /\ ties \in 0 .. eligible
    BY <1>4, <1>5, <1>6, FiniteInstances
  <2>. QED  BY <1>1, <1>2, <1>5, <1>6, <2>1, RatesAccepted
<1>9. /\ g.instances > 0 /\ g.ran.runs = g.instances /\ Partitioned(g.ran)
      /\ g.none >= 0 /\ g.references + g.none = g.instances
      /\ g.eligible <= g.ran.finished /\ g.eligible <= g.references
      /\ g.eligible >= g.ran.finished + g.references - g.instances
      /\ g.failures + g.ties = g.eligible
  BY <1>1, <1>2, <1>4, <1>5, <1>6, <1>7
<1>. QED  BY <1>8, <1>9 DEF GreedyFailureAccepted, g

\* Honest rows of a variant that is not exact, compared with the optima.
LEMMA HonestRows ==
    ASSUME Reported, Honest, Known, written > 0, NEW c, NEW a \in InUse(c),
           Variant[a].name \notin Exact \cup Seeded
    PROVE  /\ \A i \in InCase(c) :
                /\ Row(i, a).status \in HeuristicStatuses
                /\ Row(i, a).coverage \in Counts
           /\ \A i \in Referenced(c) :
                /\ optimum[i] \in Nat
                /\ Row(i, a).coverage # Absent => Row(i, a).coverage <= optimum[i]
<1>1. ASSUME NEW i \in InCase(c)
      PROVE  /\ <<i, a, Absent>> \in Plan /\ i \in Instances
             /\ Row(i, a).status \in HeuristicStatuses
             /\ Row(i, a).coverage \in Counts
             /\ Row(i, a).coverage # Absent => Row(i, a).coverage <= truth[i]
  <2>1. <<i, a, Absent>> \in Plan /\ i \in Instances
    BY RowPlanned, InUseEligible
  <2>2. /\ Row(i, a).status \in Statuses /\ Row(i, a).coverage \in Counts
        /\ Row(i, a).coverage # Absent => Row(i, a).coverage <= truth[i]
    BY <2>1 DEF Reported, Row
  <2>3. Row(i, a).status # "optimal"
    BY <2>1 DEF Reported, Row, IsExact
  <2>. QED  BY <2>1, <2>2, <2>3 DEF Statuses, HeuristicStatuses
<1>2. ASSUME NEW i \in Referenced(c) PROVE i \in InCase(c) /\ optimum[i] = truth[i] /\ truth[i] \in Nat
  <2>1. i \in InCase(c) /\ i \in Instances /\ optimum[i] # Absent
    BY <1>1 DEF Referenced, InCase
  <2>2. optimum[i] = Optimum(i)
    BY <2>1 DEF Known
  <2>. QED  BY <2>1, <2>2, HonestClaims
<1>. QED  BY <1>1, <1>2

LEMMA GreedyPasses ==
    Reported /\ Honest /\ Known /\ written > 0 => ~Refused("greedy_failure")
<1>1. SUFFICES ASSUME Reported, Honest, Known, written > 0 PROVE ~TableRefused("greedy_failure")
  BY DEF Refused
<1>2. ASSUME NEW t \in GreedyVariants
      PROVE  ~GreedyRefused(t[1], t[2]) /\ GreedyFailureAccepted(GreedyFailure(t[1], t[2]))
  <2>1. t[1] \in Cases /\ t[2] \in InUse(t[1]) /\ Variant[t[2]].name = "greedy"
    BY DEF GreedyVariants, CaseVariants, Named
  <2>2. Variant[t[2]].name \notin Exact \cup Seeded
    BY <2>1 DEF Exact, Seeded
  <2>3. /\ \A i \in InCase(t[1]) :
             Row(i, t[2]).status \in HeuristicStatuses /\ Row(i, t[2]).coverage \in Counts
        /\ \A i \in Referenced(t[1]) :
             /\ optimum[i] \in Nat
             /\ Row(i, t[2]).coverage # Absent => Row(i, t[2]).coverage <= optimum[i]
    BY <1>1, <2>1, <2>2, HonestRows
  <2>4. ~GreedyRefused(t[1], t[2])
    <3>1. ASSUME NEW i \in Referenced(t[1]), Row(i, t[2]).coverage # Absent
          PROVE  ~(Row(i, t[2]).coverage > optimum[i])
      <4>1. i \in InCase(t[1])
        BY DEF Referenced
      <4>. QED  BY <2>3, <3>1, <4>1 DEF Counts
    <3>. QED  BY <2>3, <3>1 DEF GreedyRefused
  <2>5. GreedyFailureAccepted(GreedyFailure(t[1], t[2]))
    BY <2>1, <2>2, <2>3, FailuresAccepted
  <2>. QED  BY <2>4, <2>5
<1>3. ~CaseTableRefused("greedy_failure")
  BY <1>2 DEF CaseTableRefused
<1>. QED  BY <1>3 DEF TableRefused, ReferenceTableRefused, FamilyTableRefused

\* A benchmark whose results are all in order is refused neither when they are
\* normalised nor for a table that only counts.
HonestCountsFinish ==
    refused /\ Honest =>
        /\ written > 0
        /\ Files[written + 1] \notin
             {"greedy_failure", "reference_coverage", "reference_cutoff_sensitivity"}
        /\ Files[written + 1] = "reference_status" => Certificate \in Algorithms

LEMMA StepHonest == [FinalNext]_finalVars => (Honest' <=> Honest)
BY StepResults DEF Honest, InCase, Row

THEOREM HonestCountsAccepted == FinalSpec => []HonestCountsFinish
<1>. DEFINE I == Reported /\ written \in Nat /\ Known /\ HonestCountsFinish
<1>1. FinalInit => I
  BY InitReported, InitKnown DEF FinalInit, HonestCountsFinish
<1>2. I /\ [FinalNext]_finalVars => I'
  <2>1. SUFFICES ASSUME Reported, written \in Nat, Known, HonestCountsFinish,
                        [FinalNext]_finalVars, Honest', refused'
                 PROVE  HonestCountsFinish'
    BY StepReported, StepWritten, StepKnown DEF HonestCountsFinish
  <2>2. Honest
    BY <2>1, StepHonest
  <2>3. CASE Normalize
    BY <2>1, <2>2, <2>3, HonestAccepted DEF Normalize
  <2>4. CASE WriteTable
    <3>1. Refused(Files[written + 1]) /\ written' = written /\ written > 0
      BY <2>1, <2>4 DEF WriteTable
    <3>2. Files[written + 1] # "greedy_failure"
      BY <2>1, <2>2, <3>1, GreedyPasses
    <3>3. /\ Files[written + 1] \notin {"reference_coverage", "reference_cutoff_sensitivity"}
          /\ Files[written + 1] = "reference_status" => Certificate \in Algorithms
      BY <2>1, <3>1, ReferencesPass
    <3>. QED  BY <3>1, <3>2, <3>3 DEF HonestCountsFinish
  <2>5. CASE Validate
    BY <2>1, <2>2, <2>5 DEF Validate, HonestCountsFinish
  <2>6. CASE UNCHANGED finalVars
    BY <2>1, <2>2, <2>6 DEF HonestCountsFinish, finalVars
  <2>. QED  BY <2>1, <2>3, <2>4, <2>5, <2>6 DEF FinalNext
<1>3. I => HonestCountsFinish
  OBVIOUS
<1>. HIDE DEF I
<1>. QED  BY <1>1, <1>2, <1>3, PTL DEF FinalSpec

-----------------------------------------------------------------------------
(***************************************************************************)
(* The counts of different tables.                                         *)
(***************************************************************************)

\* The reference of an instance is its normalised optimum.
LEMMA OptimaAgree ==
    ASSUME Reported, ~OptimaRefused, NEW i \in Instances
    PROVE  ReferenceOptimum(i) = Optimum(i)
<1>1. CASE Certified(i)
  BY <1>1 DEF ReferenceOptimum, Optimum, Certified
<1>2. CASE ~Certified(i) /\ Provers(i) # {}
  <2>1. PICK b : b = CHOOSE a \in Provers(i) : TRUE
    OBVIOUS
  <2>2. b \in Provers(i)
    BY <1>2, <2>1
  <2>. DEFINE v == results[<<i, b, Absent>>].coverage
  <2>3. v \in Claimed(i)
    BY <2>2, ProverRuns DEF Claimed
  <2>4. ReferenceOptimum(i) = v
    BY <1>2, <2>1 DEF ReferenceOptimum
  <2>. HIDE DEF v
  <2>5. ~ClaimsDisagree(i)
    BY DEF OptimaRefused
  <2>6. \A w \in Claimed(i) : w = v
    BY <2>3, <2>5 DEF ClaimsDisagree
  <2>7. (CHOOSE w \in Claimed(i) : TRUE) = v
    BY <2>3, <2>6
  <2>. QED  BY <1>2, <2>3, <2>4, <2>7 DEF Optimum, Certified
<1>3. CASE ~Certified(i) /\ Provers(i) = {}
  <2>1. Claimed(i) = {}
    <3>1. SUFFICES ASSUME NEW p \in RunsOf(i), results[p].status = "optimal" PROVE FALSE
      BY DEF Claimed
    <3>2. p \in Plan /\ p[1] = i
      BY DEF RunsOf
    <3>3. IsExact(p[2])
      BY <3>1, <3>2 DEF Reported
    <3>4. /\ p[2] \in Algorithms /\ Eligible(i, p[2]) /\ p[3] \in Variant[p[2]].seeds
          /\ p = <<i, p[2], p[3]>>
      BY <3>2 DEF Plan
    <3>5. Variant[p[2]].seeds = {Absent}
      BY <3>3, <3>4, VariantsAssumption DEF IsExact, Exact, Seeded
    <3>6. p[2] \in Provers(i)
      BY <3>1, <3>3, <3>4, <3>5 DEF Provers, ExactVariants, SolverStatus
    <3>. QED  BY <1>3, <3>6
  <2>. QED  BY <1>3, <2>1 DEF ReferenceOptimum, Optimum, Certified
<1>. QED  BY <1>1, <1>2, <1>3

LEMMA NormalizedOptimum ==
    ASSUME Known, written > 0, NEW i \in Instances
    PROVE  optimum[i] = Optimum(i) /\ ~OptimaRefused
BY DEF Known

LEMMA OptimumTyped ==
    ASSUME Reported, NEW i \in Instances
    PROVE  Optimum(i) \in 0 .. Of[i].universe \cup {Absent}
<1>1. \A v \in Claimed(i) : v \in 0 .. Of[i].universe \cup {Absent}
  BY DEF Claimed, RunsOf, Reported
<1>2. certificate[i] \in 0 .. Of[i].universe \cup {Absent}
  BY DEF Reported
<1>3. Claimed(i) # {} => (CHOOSE v \in Claimed(i) : TRUE) \in Claimed(i)
  OBVIOUS
<1>. QED  BY <1>1, <1>2, <1>3 DEF Optimum

\* The quotient of a part of an optimum by it.
LEMMA PartsPrecise ==
    ASSUME NEW i \in Instances, NEW best \in 1 .. Of[i].universe, NEW n \in 0 .. best
    PROVE  /\ Dec(Fl(<<n, best>>)) # Absent
           /\ Fl(<<n, best>>) = Zero <=> n = 0
<1>1. Precise(n, best)
  BY QuotientsAssumption
<1>2. Dec(Fl(<<n, best>>)) \in Nat \X (Nat \ {0}) /\ (Fl(<<n, best>>) = Zero <=> n = 0)
  BY <1>1 DEF Precise
<1>. DEFINE x == Dec(Fl(<<n, best>>))
<1>3. x \in Nat \X (Nat \ {0})
  BY <1>2
<1>. HIDE DEF x
<1>4. x # Absent
  BY <1>3, VariantsAssumption
<1>. QED  BY <1>2, <1>4 DEF x

\* A run has a gap when it has a coverage and its instance an optimum that is
\* not zero.
LEMMA GapsKnown ==
    ASSUME Reported, Known, written > 0, NEW p \in Plan
    PROVE  gap[p] # Absent <=>
             optimum[p[1]] \notin {Absent, 0} /\ results[p].coverage # Absent
<1>1. p[1] \in Instances
  BY DEF Plan
<1>2. optimum[p[1]] = Optimum(p[1]) /\ ~OptimaRefused
  BY <1>1, NormalizedOptimum
<1>3. gap[p] = RowGap(optimum[p[1]], results[p].coverage)
  BY <1>2 DEF Known
<1>4. CASE optimum[p[1]] \notin {Absent, 0} /\ results[p].coverage # Absent
  <2>1. optimum[p[1]] \in 1 .. Of[p[1]].universe
    BY <1>1, <1>2, <1>4, OptimumTyped, InstancesAssumption
  <2>2. results[p].coverage \in Nat
    BY <1>4 DEF Reported, Counts
  <2>3. ~(results[p].coverage > optimum[p[1]])
    BY <1>1, <1>2, <1>4 DEF OptimaRefused, CoverageAboveOptimum, RunsOf
  <2>4. optimum[p[1]] - results[p].coverage \in 0 .. optimum[p[1]]
    BY <2>1, <2>2, <2>3
  <2>5. Dec(Fl(<<optimum[p[1]] - results[p].coverage, optimum[p[1]]>>)) # Absent
    BY <1>1, <2>1, <2>4, PartsPrecise
  <2>. QED  BY <1>3, <1>4, <2>5 DEF RowGap
<1>5. CASE ~(optimum[p[1]] \notin {Absent, 0} /\ results[p].coverage # Absent)
  BY <1>3, <1>5 DEF RowGap
<1>. QED  BY <1>4, <1>5

\* As many values are sampled as there are instances to sample.
LEMMA SamplesCounted ==
    ASSUME NEW c, NEW a, NEW metric
    PROVE  Cardinality(Sample(c, a, metric)) =
             Cardinality({i \in InCase(c) : Sampled(i, a, metric) # {}})
<1>. DEFINE S == {i \in InCase(c) : Sampled(i, a, metric) # {}}
            value(i) == Mean({<<p, ValueOf(p, metric)>> : p \in Sampled(i, a, metric)})
            f == [i \in S |-> <<i, value(i)>>]
            T == {<<i, value(i)>> : i \in S}
<1>1. IsFiniteSet(S)
  BY CaseCounted, SubsetCounted
<1>2. Sample(c, a, metric) = T
  BY DEF Sample
<1>. HIDE DEF value, S
<1>3. f \in [S -> T] /\ \A t \in T : \E x \in S : f[x] = t
  OBVIOUS
<1>4. \A x, y \in S : f[x] = f[y] => x = y
  OBVIOUS
<1>. HIDE DEF f, T
<1>5. Cardinality(T) = Cardinality(S)
  BY <1>1, <1>3, <1>4, SameNumber
<1>. QED  BY <1>2, <1>5 DEF S

LEMMA CasesAgree ==
    ASSUME Reported, Known, written > 0, NEW c, NEW a \in InUse(c)
    PROVE  CaseTablesAgree(c, a)
<1>. DEFINE gaps == Descriptive(c, a, "optimality_gap")
            S == {i \in InCase(c) : Sampled(i, a, "optimality_gap") # {}}
<1>1. /\ gaps.references = Cardinality(Referenced(c)) /\ gaps.sample = Cardinality(S)
      /\ Interval(c, a, "optimality_gap").sample = Cardinality(S)
  BY SamplesCounted DEF Descriptive, DescriptiveOf, Interval, IntervalOf, RereadDescriptive
<1>2. /\ Pareto(c, a).references = Cardinality(Referenced(c))
      /\ Pareto(c, a).eligible = Cardinality(Evaluated(c))
      /\ Pareto(c, a).zeroOptima = Cardinality(ZeroOptimum(c))
      /\ Pareto(c, a).ran = Censored(c, a).ran
  BY DEF Pareto, ParetoOf, Censored, CensoredOf
<1>3. Evaluated(c) \subseteq S
  <2>1. SUFFICES ASSUME NEW i \in Evaluated(c) PROVE i \in S
    OBVIOUS
  <2>2. /\ i \in InCase(c) /\ i \in Instances /\ optimum[i] \notin {Absent, 0}
        /\ \A p \in RunsOf(i) : results[p].status \in Completed
    BY DEF Evaluated, Referenced, ZeroOptimum, InCase
  <2>3. Eligible(i, a) /\ a \in Algorithms
    BY <2>2, InUseEligible
  <2>4. PICK seed \in Variant[a].seeds : TRUE
    BY <2>3, VariantsAssumption
  <2>. DEFINE p == <<i, a, seed>>
  <2>5. p \in Plan /\ p \in RunsOn(i, a) /\ p[1] = i
    BY <2>2, <2>3, <2>4 DEF Plan, RunsOn, RunsOf
  <2>. HIDE DEF p
  <2>6. results[p].status \in Completed
    BY <2>2, <2>5 DEF RunsOn
  <2>7. results[p].coverage # Absent
    BY <2>5, <2>6 DEF Reported, Completed
  <2>8. gap[p] # Absent
    BY <2>2, <2>5, <2>7, GapsKnown
  <2>. QED  BY <2>2, <2>5, <2>8 DEF Sampled, Observed
<1>4. S \subseteq Referenced(c) \ ZeroOptimum(c)
  <2>1. SUFFICES ASSUME NEW i \in S PROVE i \in Referenced(c) \ ZeroOptimum(c)
    OBVIOUS
  <2>2. PICK p \in Observed(RunsOn(i, a)) : TRUE
    BY DEF Sampled
  <2>3. p \in Plan /\ p[1] = i /\ gap[p] # Absent
    BY DEF Observed, RunsOn, RunsOf
  <2>4. optimum[i] \notin {Absent, 0}
    BY <2>3, GapsKnown
  <2>. QED  BY <2>4 DEF Referenced, ZeroOptimum
<1>5. ZeroOptimum(c) \subseteq Referenced(c) /\ Referenced(c) \subseteq InCase(c)
  BY VariantsAssumption DEF ZeroOptimum, Referenced
<1>6. /\ IsFiniteSet(Referenced(c))
      /\ IsFiniteSet(Referenced(c) \ ZeroOptimum(c))
      /\ Cardinality(Referenced(c) \ ZeroOptimum(c)) =
           Cardinality(Referenced(c)) - Cardinality(ZeroOptimum(c))
  BY <1>5, CaseCounted, SubsetCounted, DifferenceCounted
<1>. HIDE DEF S, gaps
<1>7. /\ IsFiniteSet(S)
      /\ Cardinality(S) <= Cardinality(Referenced(c)) - Cardinality(ZeroOptimum(c))
  BY <1>4, <1>6, SubsetCounted
<1>8. Cardinality(Evaluated(c)) <= Cardinality(S)
  BY <1>3, <1>7, SubsetCounted
<1>. QED  BY <1>1, <1>2, <1>7, <1>8 DEF CaseTablesAgree, GapsAgree, gaps

\* Where local search is compared with greedy, both ended by themselves, and the
\* optimum is above what greedy found.
LEMMA RecoverablePositive ==
    ASSUME Reported, Known, written > 0, NEW c, NEW a \in InUse(c), NEW l \in InUse(c),
           {Variant[a].name, Variant[l].name} \cap Seeded = {}, NEW i \in Recoverable(c, a, l)
    PROVE  /\ i \in Instances
           /\ optimum[i] \in 1 .. Of[i].universe
           /\ Row(i, l).coverage \in 0 .. optimum[i]
<1>1. /\ i \in InCase(c) /\ optimum[i] # Absent /\ Row(i, a).coverage < optimum[i]
      /\ Row(i, a).status = "feasible" /\ Row(i, l).status = "feasible"
  BY DEF Recoverable, Failures, Comparable, Referenced
<1>2. i \in Instances /\ <<i, a, Absent>> \in Plan /\ <<i, l, Absent>> \in Plan
  BY <1>1, InUseEligible, RowPlanned
<1>3. Row(i, a).coverage \in Nat /\ Row(i, l).coverage \in Nat /\ Row(i, l).coverage # Absent
  BY <1>1, <1>2 DEF Row, Reported, Counts
<1>4. optimum[i] = Optimum(i) /\ ~OptimaRefused
  BY <1>2, NormalizedOptimum
<1>5. optimum[i] \in 1 .. Of[i].universe
  <2>1. optimum[i] \in 0 .. Of[i].universe /\ Of[i].universe \in Nat
    BY <1>1, <1>2, <1>4, OptimumTyped, InstancesAssumption
  <2>. QED  BY <1>1, <1>3, <2>1
<1>6. ~(Row(i, l).coverage > optimum[i])
  BY <1>1, <1>2, <1>3, <1>4 DEF OptimaRefused, CoverageAboveOptimum, RunsOf, Row
<1>. QED  BY <1>2, <1>3, <1>5, <1>6

LEMMA PairsAgree ==
    ASSUME Reported, Known, written > 0, NEW c, NEW a \in InUse(c), NEW l \in InUse(c),
           {Variant[a].name, Variant[l].name} \cap Seeded = {}
    PROVE  PairTablesAgree(c, a, l)
<1>. DEFINE S == Recoverable(c, a, l)
            rest(i) == Fl(<<optimum[i] - Row(i, l).coverage, optimum[i]>>)
            G == {<<i, rest(i)>> : i \in S}
            full == {i \in S : Row(i, l).coverage = optimum[i]}
            zero == {s \in G : s[2] = Zero}
<1>1. /\ GreedyFailure(c, a).failures = Cardinality(Failures(c, a))
      /\ GreedyFailure(c, a).references = Cardinality(Referenced(c))
  BY DEF GreedyFailure
<1>2. /\ Recovery(c, a, l).failures = Cardinality(Failures(c, a))
      /\ Recovery(c, a, l).references = Cardinality(Referenced(c))
      /\ Recovery(c, a, l).eligible = Cardinality(S)
      /\ Recovery(c, a, l).full = Cardinality(full)
  BY DEF Recovery, Quantify
<1>3. RemainingGaps(c, a, l) = G
  BY DEF RemainingGaps
<1>4. /\ RemainingGap(c, a, l).failures = Cardinality(Failures(c, a))
      /\ RemainingGap(c, a, l).eligible = Cardinality(G)
      /\ RemainingGap(c, a, l).zero = Cardinality(zero)
  BY <1>3 DEF RemainingGap, Quantify
<1>5. IsFiniteSet(S) /\ IsFiniteSet(full)
  <2>1. S \subseteq InCase(c)
    BY DEF Recoverable, Failures, Comparable, Referenced
  <2>. QED  BY <2>1, CaseCounted, SubsetCounted
<1>6. \A i \in S : rest(i) = Zero <=> Row(i, l).coverage = optimum[i]
  <2>1. SUFFICES ASSUME NEW i \in S PROVE rest(i) = Zero <=> Row(i, l).coverage = optimum[i]
    OBVIOUS
  <2>2. /\ i \in Instances /\ optimum[i] \in 1 .. Of[i].universe
        /\ Row(i, l).coverage \in 0 .. optimum[i]
    BY RecoverablePositive
  <2>3. optimum[i] - Row(i, l).coverage \in 0 .. optimum[i]
    BY <2>2
  <2>4. rest(i) = Zero <=> optimum[i] - Row(i, l).coverage = 0
    BY <2>2, <2>3, PartsPrecise
  <2>. QED  BY <2>2, <2>4
<1>. HIDE DEF S, rest
<1>7. Cardinality(G) = Cardinality(S)
  <2>. DEFINE f == [i \in S |-> <<i, rest(i)>>]
  <2>1. f \in [S -> G] /\ \A t \in G : \E x \in S : f[x] = t
    OBVIOUS
  <2>2. \A x, y \in S : f[x] = f[y] => x = y
    OBVIOUS
  <2>. HIDE DEF f, G
  <2>. QED  BY <1>5, <2>1, <2>2, SameNumber
<1>8. Cardinality(zero) = Cardinality(full)
  <2>. DEFINE f == [i \in full |-> <<i, rest(i)>>]
  <2>1. f \in [full -> zero] /\ \A t \in zero : \E x \in full : f[x] = t
    BY <1>6
  <2>2. \A x, y \in full : f[x] = f[y] => x = y
    OBVIOUS
  <2>. HIDE DEF f, G, full, zero
  <2>. QED  BY <1>5, <2>1, <2>2, SameNumber
<1>. QED  BY <1>1, <1>2, <1>4, <1>7, <1>8 DEF PairTablesAgree, FailuresAgree

LEMMA GroupsAgree ==
    ASSUME NEW g \in Groups, NEW s
    PROVE  GroupTablesAgree(g, s)
<1>1. SUFFICES ASSUME NEW a \in ExactVariants, NEW m \in Measures
               PROVE  GroupAgrees(ReferenceCoverage(g, s), Cutoff(g, a), Bias(g, m))
  BY DEF GroupTablesAgree
<1>. DEFINE size == Cardinality(Members(g))
            proved == {i \in Members(g) : Proved(i)}
            certified == {i \in Members(g) : Certified(i)}
            solved == {i \in Members(g) : Provers(i) # {}}
            optimal == {i \in Members(g) : SolverStatus(i, a) = "optimal"}
            effective == {i \in Members(g) : Certified(i) \/ SolverStatus(i, a) = "optimal"}
<1>2. /\ ReferenceCoverage(g, s).generated = size
      /\ ReferenceCoverage(g, s).proved = Cardinality(proved)
      /\ ReferenceCoverage(g, s).coverage = Rate(Cardinality(proved), size)
      /\ ReferenceCoverage(g, s).certificates = Cardinality(certified)
      /\ ReferenceCoverage(g, s).solved = Cardinality(solved)
  BY DEF ReferenceCoverage, Quantify
<1>3. /\ Cutoff(g, a).effective = Rate(Cardinality(effective), size)
      /\ Cutoff(g, a).certificates = Cardinality(certified)
      /\ Cutoff(g, a).optimal = Cardinality(optimal)
  BY DEF Cutoff, Quantify
<1>4. /\ Bias(g, m).retained = Cardinality(proved)
      /\ Bias(g, m).excluded = Cardinality(Members(g) \ proved)
  BY DEF Bias
<1>5. optimal \subseteq solved /\ effective \subseteq proved
  <2>1. \A i : SolverStatus(i, a) = "optimal" => a \in Provers(i)
    BY DEF Provers
  <2>. QED  BY <2>1, ProvedMeans
<1>6. /\ IsFiniteSet(Members(g)) /\ size \in 1 .. Cardinality(Instances)
      /\ IsFiniteSet(proved) /\ Cardinality(proved) \in 0 .. size
      /\ IsFiniteSet(solved)
      /\ Cardinality(Members(g) \ proved) = size - Cardinality(proved)
  BY GroupCounted, SubsetCounted, DifferenceCounted
<1>. HIDE DEF size, proved, certified, solved, optimal, effective
<1>7. Cardinality(optimal) <= Cardinality(solved)
  BY <1>5, <1>6, SubsetCounted
<1>8. Cardinality(effective) \in 0 .. Cardinality(proved)
  BY <1>5, <1>6, SubsetCounted
<1>9. AtMost(Rate(Cardinality(effective), size), Rate(Cardinality(proved), size))
  BY <1>6, <1>8, RatesOrdered
<1>. QED  BY <1>2, <1>3, <1>4, <1>6, <1>7, <1>9 DEF GroupAgrees

LEMMA CountsKnown == Reported /\ Known => CountsAgree
<1>1. SUFFICES ASSUME Reported, Known, written > 0
               PROVE  /\ \A i \in Instances : ReferenceOptimum(i) = optimum[i]
                      /\ \A t \in CaseVariants : CaseTablesAgree(t[1], t[2])
                      /\ \A t \in GreedySearch : PairTablesAgree(t[1], t[2], t[3])
                      /\ \A g \in Groups, n \in 1 .. 6 : GroupTablesAgree(g, ReferenceStatuses[n])
  BY DEF CountsAgree
<1>2. \A i \in Instances : ReferenceOptimum(i) = optimum[i]
  BY <1>1, NormalizedOptimum, OptimaAgree
<1>3. ASSUME NEW t \in CaseVariants PROVE CaseTablesAgree(t[1], t[2])
  <2>1. t[2] \in InUse(t[1])
    BY DEF CaseVariants
  <2>. QED  BY <1>1, <2>1, CasesAgree
<1>4. ASSUME NEW t \in GreedySearch PROVE PairTablesAgree(t[1], t[2], t[3])
  <2>1. /\ t[2] \in InUse(t[1]) /\ t[3] \in InUse(t[1])
        /\ Variant[t[2]].name = "greedy" /\ Variant[t[3]].name = "local_search"
    BY DEF GreedySearch, Pairs, Named
  <2>2. {Variant[t[2]].name, Variant[t[3]].name} \cap Seeded = {}
    BY <2>1 DEF Seeded
  <2>. QED  BY <1>1, <2>1, <2>2, PairsAgree
<1>5. \A g \in Groups, n \in 1 .. 6 : GroupTablesAgree(g, ReferenceStatuses[n])
  BY GroupsAgree
<1>. QED  BY <1>2, <1>3, <1>4, <1>5

\* The tables of every benchmark whose optima were normalised count the same.
THEOREM TablesCountTheSame == FinalSpec => []CountsAgree
<1>. DEFINE I == Reported /\ written \in Nat /\ Known
<1>1. FinalInit => I
  BY InitReported, InitKnown DEF FinalInit
<1>2. I /\ [FinalNext]_finalVars => I'
  BY StepReported, StepWritten, StepKnown
<1>3. I => CountsAgree
  BY CountsKnown
<1>. HIDE DEF I
<1>. QED  BY <1>1, <1>2, <1>3, PTL DEF FinalSpec

-----------------------------------------------------------------------------
(***************************************************************************)
(* The frontier of a case.                                                 *)
(***************************************************************************)

\* The means of the algorithms of a case are numbers.
Number == Int \X (Nat \ {0})
Positioned(c) == \A a \in InUse(c) : Point(c, a) \in Number \X Number

LEMMA LessTransitive ==
    ASSUME NEW x \in Number, NEW y \in Number, NEW z \in Number
    PROVE  /\ AtMost(x, y) /\ AtMost(y, z) => AtMost(x, z)
           /\ AtMost(x, y) /\ Less(y, z) => Less(x, z)
           /\ Less(x, y) /\ AtMost(y, z) => Less(x, z)
<1>1. PICK a \in Int, b \in Nat \ {0} : x = <<a, b>>
  BY DEF Number
<1>2. PICK m \in Int, d \in Nat \ {0} : y = <<m, d>>
  BY DEF Number
<1>3. PICK n \in Int, f \in Nat \ {0} : z = <<n, f>>
  BY DEF Number
<1>4. /\ Less(x, y) <=> a * d < m * b
      /\ Less(y, z) <=> m * f < n * d
      /\ Less(x, z) <=> a * f < n * b
      /\ AtMost(x, y) <=> a * d <= m * b
      /\ AtMost(y, z) <=> m * f <= n * d
      /\ AtMost(x, z) <=> a * f <= n * b
  BY <1>1, <1>2, <1>3 DEF Less, AtMost
<1>5. ASSUME a * d <= m * b, m * f <= n * d
      PROVE  a * f <= n * b
  <2>1. (a * d) * f <= (m * b) * f /\ (m * f) * b <= (n * d) * b
    BY <1>5
  <2>2. (a * f) * d <= (n * b) * d
    BY <2>1
  <2>. QED  BY <2>2
<1>6. ASSUME a * d < m * b, m * f <= n * d
      PROVE  a * f < n * b
  <2>1. (a * d) * f < (m * b) * f /\ (m * f) * b <= (n * d) * b
    BY <1>6
  <2>2. (a * f) * d < (n * b) * d
    BY <2>1
  <2>. QED  BY <2>2
<1>7. ASSUME a * d <= m * b, m * f < n * d
      PROVE  a * f < n * b
  <2>1. (a * d) * f <= (m * b) * f /\ (m * f) * b < (n * d) * b
    BY <1>7
  <2>2. (a * f) * d < (n * b) * d
    BY <2>1
  <2>. QED  BY <2>2
<1>. QED  BY <1>4, <1>5, <1>6, <1>7

LEMMA DominationOrders ==
    ASSUME NEW x \in Number \X Number, NEW y \in Number \X Number, NEW z \in Number \X Number
    PROVE  /\ Dominates(x, y) /\ Dominates(y, z) => Dominates(x, z)
           /\ ~Dominates(x, x)
<1>1. /\ x[1] \in Number /\ x[2] \in Number /\ y[1] \in Number /\ y[2] \in Number
      /\ z[1] \in Number /\ z[2] \in Number
  OBVIOUS
<1>2. \A n \in {1, 2} :
        /\ AtMost(x[n], y[n]) /\ AtMost(y[n], z[n]) => AtMost(x[n], z[n])
        /\ Less(x[n], y[n]) /\ AtMost(y[n], z[n]) => Less(x[n], z[n])
        /\ AtMost(x[n], y[n]) /\ Less(y[n], z[n]) => Less(x[n], z[n])
  BY <1>1, LessTransitive
<1>3. \A u \in Number : ~Less(u, u)
  BY DEF Less, Number
<1>4. ~Dominates(x, x)
  BY <1>1, <1>3 DEF Dominates
<1>. QED  BY <1>2, <1>4 DEF Dominates

\* No cycle of algorithms dominates itself: where there are means to compare,
\* and they are numbers, some algorithm of the case is dominated by none.
THEOREM SomethingUndominated ==
    ASSUME NEW c, InUse(c) # {}, Positioned(c)
    PROVE  FrontierExists(c)
<1>1. SUFFICES ASSUME Evaluated(c) # {}, \A a \in InUse(c) : Dominators(c, a) # {}
               PROVE  FALSE
  BY DEF FrontierExists
<1>. DEFINE T == {Dominators(c, a) : a \in InUse(c)}
            R == StrictSubsetOrdering(Algorithms)
<1>2. \A a, b : b \in Dominators(c, a) <=>
                  b \in InUse(c) /\ b # a /\ Dominates(Point(c, b), Point(c, a))
  BY <1>1 DEF Dominators
<1>3. T \subseteq SUBSET Algorithms /\ T # {}
  BY <1>2 DEF InUse
<1>4. IsWellFoundedOn(R, SUBSET Algorithms)
  BY FiniteInstances, FS_StrictSubsetOrderingWellFounded, FS_FiniteSubsetsOfFinite
<1>. HIDE DEF R
<1>5. PICK D \in T : \A E \in T : ~(<<E, D>> \in R)
  <2>. HIDE DEF T
  <2>. QED  BY <1>3, <1>4, WFMin
<1>6. PICK a \in InUse(c) : D = Dominators(c, a)
  OBVIOUS
<1>7. PICK b \in D : TRUE
  BY <1>1, <1>6
<1>8. b \in InUse(c) /\ Dominates(Point(c, b), Point(c, a))
  BY <1>2, <1>6, <1>7
<1>9. Dominators(c, b) \subseteq D /\ Dominators(c, b) # D
  <2>1. ASSUME NEW d \in Dominators(c, b) PROVE d \in D
    <3>1. d \in InUse(c) /\ Dominates(Point(c, d), Point(c, b))
      BY <1>2, <2>1
    <3>2. {Point(c, a), Point(c, b), Point(c, d)} \subseteq Number \X Number
      BY <1>6, <1>8, <3>1 DEF Positioned
    <3>3. Dominates(Point(c, d), Point(c, a)) /\ ~Dominates(Point(c, a), Point(c, a))
      BY <1>8, <3>1, <3>2, DominationOrders
    <3>. QED  BY <1>2, <1>6, <3>1, <3>3
  <2>2. b \notin Dominators(c, b)
    BY <1>2
  <2>. QED  BY <1>7, <2>1, <2>2
<1>10. Dominators(c, b) \in T
  BY <1>8
<1>11. <<Dominators(c, b), D>> \in R
  <2>. HIDE DEF T
  <2>. QED  BY <1>3, <1>5, <1>9, <1>10 DEF R, StrictSubsetOrdering
<1>. QED  BY <1>5, <1>10, <1>11
=============================================================================
