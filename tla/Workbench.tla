----------------------------- MODULE Workbench -----------------------------
(***************************************************************************)
(* Comparisons of several sources by one WorkbenchService                  *)
(* (src/src/maxcover/dashboard_workbench.py), whose threads share a cache  *)
(* of results.  A comparison collects the identities of its sources, reads *)
(* them one after the other through the derived index, which keeps the     *)
(* promise of FreshRead, and collects the identities again.                *)
(*                                                                         *)
(* Every source has one kind of file, so that its content is its version.  *)
(***************************************************************************)
EXTENDS Naturals, Sequences, SequencesExt

CONSTANTS
    Threads,     \* threads of the service
    Compared,    \* the sources
    Unreadable,  \* the versions that no parser accepts
    Views,       \* selections and pages of a comparison
    All,         \* all rows, for an export: never cached
    MaxSources,  \* validate_sources: at most so many, distinct
    MaxMemo,     \* results kept
    MaxVersions, \* bound on the number of writes
    Absent

\* What is assumed of the constants.
WorkbenchConstants ==
    /\ All \in Views
    /\ MaxSources \in Nat /\ MaxMemo \in Nat \ {0} /\ MaxVersions \in Nat
    /\ Absent \notin Nat \cup Compared \cup Views

VARIABLES
    \* The sources and the requests of the index: see FreshRead.
    content, asked, overtaken, received,
    versions,  \* the number of writes, which numbers them
    \* Comparisons.
    comparing, \* where the comparison of a thread is
    want,      \* its sources
    view,      \* its selection and page
    sigs,      \* signatures: the identities collected so far
    got,       \* what has been read
    later,     \* the second collection
    told,      \* the result of the last comparison
    snap,      \* history: the sources when the first collection ended
    \* Shared by the threads.
    memo       \* _comparisons, the entry used last at the end

Contents == 1 .. MaxVersions
Index == INSTANCE FreshRead
    WITH Readers <- Threads, Sources <- Compared, None <- Absent,
         moved <- overtaken, answer <- received

sourceVars == <<content, asked, overtaken, received, versions>>
workbenchVars == <<content, asked, overtaken, received, versions,
          comparing, want, view, sigs, got, later, told, snap, memo>>

-----------------------------------------------------------------------------
\* A list of versions, and the result that a view makes of it.
Versions == Seq(Nat)
Result == [docs : Versions, view : Views]
Key == [sources : Seq(Compared), sigs : Versions, view : Views]

Selections ==
    {w \in UNION {[1 .. n -> Compared] : n \in 1 .. MaxSources} : IsInjective(w)}

CompareSteps == {"first", "lookup", "read", "asked", "second", "store"}

CompareTypeOK ==
    /\ content \in [Compared -> Contents \cup {Absent}]
    /\ asked \subseteq Threads \X Compared
    /\ overtaken \subseteq Threads
    /\ received \in [Threads -> Contents \cup {Absent}]
    /\ versions \in 0 .. MaxVersions
    /\ comparing \in [Threads -> {"idle"} \cup CompareSteps]
    /\ want \in [Threads -> Seq(Compared)]
    /\ view \in [Threads -> Views]
    /\ sigs \in [Threads -> Versions]
    /\ got \in [Threads -> Versions]
    /\ later \in [Threads -> Versions]
    /\ told \in [Threads -> Result \cup {Absent}]
    /\ snap \in [Threads -> Seq(Nat \cup {Absent})]
    /\ memo \in Seq([key : Key, result : Result])

CompareInit ==
    /\ content = [s \in Compared |-> Absent]
    /\ asked = {} /\ overtaken = {}
    /\ received = [r \in Threads |-> Absent]
    /\ versions = 0
    /\ comparing = [r \in Threads |-> "idle"]
    /\ want = [r \in Threads |-> <<>>]
    /\ view = [r \in Threads |-> All]
    /\ sigs = [r \in Threads |-> <<>>]
    /\ got = [r \in Threads |-> <<>>]
    /\ later = [r \in Threads |-> <<>>]
    /\ told = [r \in Threads |-> Absent]
    /\ snap = [r \in Threads |-> <<>>]
    /\ memo = <<>>

-----------------------------------------------------------------------------
(* Programs that no lock of the Dashboard holds back.                      *)

compareVars == <<comparing, want, view, sigs, got, later, told, snap, memo>>

Rewrite(s) ==
    /\ versions < MaxVersions
    /\ versions' = versions + 1
    /\ content' = [content EXCEPT ![s] = versions + 1]
    /\ Index!Change(s)
    /\ UNCHANGED compareVars

Delete(s) ==
    /\ content' = [content EXCEPT ![s] = Absent]
    /\ Index!Change(s)
    /\ UNCHANGED <<versions, compareVars>>

-----------------------------------------------------------------------------
(* compare and analyze.                                                    *)

GoOn(r, from, to) ==
    comparing[r] = from /\ comparing' = [comparing EXCEPT ![r] = to]

BeginComparison(r, w, v) ==
    /\ GoOn(r, "idle", "first")
    /\ want' = [want EXCEPT ![r] = w]
    /\ view' = [view EXCEPT ![r] = v]
    /\ sigs' = [sigs EXCEPT ![r] = <<>>]
    /\ got' = [got EXCEPT ![r] = <<>>]
    /\ later' = [later EXCEPT ![r] = <<>>]
    /\ told' = [told EXCEPT ![r] = Absent]
    /\ snap' = [snap EXCEPT ![r] = <<>>]
    /\ UNCHANGED <<sourceVars, memo>>

\* The source of which a collection takes the identity next.
Due(r, collected) == want[r][Len(collected) + 1]
Complete(r, collected) == Len(collected) = Len(want[r])
Now(r) == [i \in DOMAIN want[r] |-> content[want[r][i]]]

CollectFirst(r) ==
    /\ comparing[r] = "first" /\ ~Complete(r, sigs[r])
    /\ content[Due(r, sigs[r])] # Absent
    /\ sigs' = [sigs EXCEPT ![r] = Append(@, content[Due(r, sigs[r])])]
    /\ IF Complete(r, sigs'[r])
       THEN /\ comparing' = [comparing EXCEPT ![r] = IF view[r] = All THEN "read" ELSE "lookup"]
            /\ snap' = [snap EXCEPT ![r] = Now(r)]
       ELSE UNCHANGED <<comparing, snap>>
    /\ UNCHANGED <<sourceVars, want, view, got, later, told, memo>>

KeyOf(r) == [sources |-> want[r], sigs |-> sigs[r], view |-> view[r]]
Remembered(r) == {i \in DOMAIN memo : memo[i].key = KeyOf(r)}

\* A result in the cache becomes the one used last.
Recall(r) ==
    /\ GoOn(r, "lookup", "second")
    /\ \E i \in Remembered(r) :
           /\ memo' = Append(RemoveAt(memo, i), memo[i])
           /\ told' = [told EXCEPT ![r] = memo[i].result]
    /\ UNCHANGED <<sourceVars, want, view, sigs, got, later, snap>>

Forgotten(r) ==
    /\ GoOn(r, "lookup", "read")
    /\ Remembered(r) = {}
    /\ UNCHANGED <<sourceVars, want, view, sigs, got, later, told, snap, memo>>

\* _analyze reads the sources in turn.
AskNext(r) ==
    /\ GoOn(r, "read", "asked")
    /\ ~Complete(r, got[r])
    /\ Index!Ask(r, Due(r, got[r]))
    /\ UNCHANGED <<versions, want, view, sigs, got, later, told, snap, memo>>

Receive(r) ==
    /\ GoOn(r, "asked", "read")
    /\ Index!Idle(r) /\ received[r] # Absent
    /\ got' = [got EXCEPT ![r] = Append(@, received[r])]
    /\ UNCHANGED <<sourceVars, want, view, sigs, later, told, snap, memo>>

\* Mutant: the result is kept at once, and verified never.
AnalyzeAndKeep(r) ==
    /\ GoOn(r, "read", IF view[r] = All THEN "second" ELSE "store")
    /\ Complete(r, got[r])
    /\ told' = [told EXCEPT ![r] = [docs |-> got[r], view |-> view[r]]]
    /\ UNCHANGED <<sourceVars, want, view, sigs, got, later, snap, memo>>

Analyze(r) ==
    /\ GoOn(r, "read", "second")
    /\ Complete(r, got[r])
    /\ told' = [told EXCEPT ![r] = [docs |-> got[r], view |-> view[r]]]
    /\ UNCHANGED <<sourceVars, want, view, sigs, got, later, snap, memo>>

CollectSecond(r) ==
    /\ comparing[r] = "second" /\ ~Complete(r, later[r])
    /\ content[Due(r, later[r])] # Absent
    /\ later' = [later EXCEPT ![r] = Append(@, content[Due(r, later[r])])]
    /\ UNCHANGED <<sourceVars, comparing, want, view, sigs, got, told, snap, memo>>

\* The result was not found in the cache.
New(r) == got[r] # <<>>

\* The comparison is over, and its local variables are gone.
Leave(r) ==
    /\ comparing' = [comparing EXCEPT ![r] = "idle"]
    /\ want' = [want EXCEPT ![r] = <<>>]
    /\ sigs' = [sigs EXCEPT ![r] = <<>>]
    /\ got' = [got EXCEPT ![r] = <<>>]
    /\ later' = [later EXCEPT ![r] = <<>>]

\* Its result goes into the cache first, if it is small enough.
Keep(r) ==
    /\ New(r) /\ view[r] # All
    /\ comparing' = [comparing EXCEPT ![r] = "store"]
    /\ UNCHANGED <<want, sigs, got, later>>

\* Mutant: the second collection is not compared with the first.
VerifyAnyway(r) ==
    /\ comparing[r] = "second" /\ Complete(r, later[r])
    /\ Leave(r) \/ Keep(r)
    /\ UNCHANGED <<sourceVars, view, told, snap, memo>>

Verify(r) ==
    /\ comparing[r] = "second" /\ Complete(r, later[r])
    /\ later[r] = sigs[r]
    /\ Leave(r) \/ Keep(r)
    /\ UNCHANGED <<sourceVars, view, told, snap, memo>>

\* The other entries.
Others(r) ==
    IF Remembered(r) = {} THEN {memo}
    ELSE {RemoveAt(memo, i) : i \in Remembered(r)}

Stored(r) == [key |-> KeyOf(r), result |-> told[r]]

\* The entries used first go until number and size are within their limits; the
\* sizes, and so how many go, are left open.
StoreResult(r) ==
    /\ comparing[r] = "store"
    /\ \E others \in Others(r) :
           \E first \in 1 .. Len(others) + 1 :
              /\ Len(others) + 1 - first < MaxMemo
              /\ memo' = SubSeq(Append(others, Stored(r)), first, Len(others) + 1)
    /\ Leave(r)
    /\ UNCHANGED <<sourceVars, view, told, snap>>

\* The exceptions: a source that is not there, one that could not be read, and a
\* signature that changed.
ComparisonFails(r) ==
    \/ comparing[r] = "first" /\ content[Due(r, sigs[r])] = Absent
    \/ comparing[r] = "asked" /\ Index!Idle(r) /\ received[r] = Absent
    \/ comparing[r] = "second" /\ IF Complete(r, later[r])
                                 THEN later[r] # sigs[r]
                                 ELSE content[Due(r, later[r])] = Absent

FailComparison(r) ==
    /\ ComparisonFails(r)
    /\ Leave(r)
    /\ view' = [view EXCEPT ![r] = All]
    /\ told' = [told EXCEPT ![r] = Absent]
    /\ snap' = [snap EXCEPT ![r] = <<>>]
    /\ UNCHANGED <<sourceVars, memo>>

\* rebuild_index clears the cache of results; what it does to the index is in
\* SourceIndex.
Rebuild ==
    /\ memo' = <<>>
    /\ UNCHANGED <<sourceVars, comparing, want, view, sigs, got, later, told, snap>>

-----------------------------------------------------------------------------
\* The index answers or refuses a request.
IndexStep(r, s) ==
    /\ Index!Answer(r, s) \/ Index!Fail(r, s)
    /\ UNCHANGED <<versions, compareVars>>

CompareStep(r) ==
    \/ CollectFirst(r) \/ Recall(r) \/ Forgotten(r)
    \/ AskNext(r) \/ Receive(r) \/ Analyze(r)
    \/ CollectSecond(r) \/ Verify(r) \/ StoreResult(r) \/ FailComparison(r)

CompareNext ==
    \/ \E s \in Compared : Rewrite(s) \/ Delete(s)
    \/ \E r \in Threads :
           \/ /\ comparing[r] = "idle"
              /\ \E w \in Selections, v \in Views : BeginComparison(r, w, v)
           \/ \E s \in Compared : IndexStep(r, s)
           \/ CompareStep(r)
    \/ Rebuild

CompareSpec == CompareInit /\ [][CompareNext]_workbenchVars

-----------------------------------------------------------------------------
\* The result of a comparison is of its own view, and of all its sources as they
\* were together when the first collection ended, whether it was computed or
\* found in the cache, whatever was written between its reads.
AnswersAreSnapshots ==
    \A r \in Threads :
        comparing[r] = "idle" /\ told[r] # Absent =>
            told[r] = [docs |-> snap[r], view |-> view[r]]

=============================================================================
