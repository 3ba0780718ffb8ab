-------------------------- MODULE WorkbenchProofs --------------------------
(***************************************************************************)
(* Proof that the result of a comparison is of its sources as they were    *)
(* together, for any threads, sources, views and limits of the cache.      *)
(*                                                                         *)
(* Versions are numbered by the writes, so that an identity once gone does *)
(* not come back: if the second collection finds the identity of the       *)
(* first, the source has not changed in between, and what was read of it   *)
(* is that version.                                                        *)
(***************************************************************************)
EXTENDS Workbench, SequenceTheorems, TLAPS

\* Versions are numbered by the writes.
Numbered ==
    /\ \A s \in Compared : content[s] # Absent => content[s] <= versions
    /\ \A r \in Threads : received[r] # Absent => received[r] <= versions
    /\ \A r \in Threads : \A i \in DOMAIN sigs[r] : sigs[r][i] <= versions

\* A request of the index is one of a comparison for the source that is due.
Requested(r, s) ==
    /\ comparing[r] = "asked" /\ s = Due(r, got[r])
    /\ received[r] = Absent

\* What the steps of a comparison have done.
Progress(r) ==
    /\ comparing[r] # "idle" => want[r] # <<>> /\ Len(sigs[r]) <= Len(want[r])
    /\ comparing[r] \notin {"idle", "first"} =>
           Len(sigs[r]) = Len(want[r]) /\ Len(snap[r]) = Len(want[r])
    /\ comparing[r] \in {"first", "lookup"} => got[r] = <<>>
    /\ comparing[r] \in {"first", "lookup", "read", "asked"} => later[r] = <<>>
    /\ comparing[r] \in {"read", "asked"} => Len(got[r]) <= Len(want[r])
    /\ comparing[r] = "asked" => Len(got[r]) < Len(want[r])
    /\ comparing[r] \in {"second", "store"} =>
           /\ New(r) => Len(got[r]) = Len(want[r])
           /\ told[r] = [docs |-> IF New(r) THEN got[r] ELSE sigs[r], view |-> view[r]]
           /\ Len(later[r]) <= Len(want[r])
    /\ comparing[r] = "store" => later[r] = sigs[r] /\ New(r)

\* The identity of the first collection is there, or was at the second.
Unchanged(r, i) ==
    \/ content[want[r][i]] = sigs[r][i]
    \/ i \in DOMAIN later[r] /\ later[r][i] = sigs[r][i]

\* Whatever was seen of the source is the version with that identity.
Seen(r, i) ==
    /\ comparing[r] # "first" => snap[r][i] = sigs[r][i]
    /\ i \in DOMAIN got[r] => got[r][i] = sigs[r][i]
    /\ comparing[r] = "asked" /\ i = Len(got[r]) + 1 /\ received[r] # Absent =>
           received[r] = sigs[r][i]

\* Results in the cache are of the versions and of the view in their key.
MemoHonest ==
    \A i \in DOMAIN memo :
        memo[i].result = [docs |-> memo[i].key.sigs, view |-> memo[i].key.view]

ComparisonOK(r) ==
    /\ Progress(r)
    /\ comparing[r] # "idle" => \A i \in DOMAIN sigs[r] : Unchanged(r, i) => Seen(r, i)
    /\ comparing[r] = "idle" /\ told[r] # Absent => told[r] = [docs |-> snap[r], view |-> view[r]]

Inv ==
    /\ CompareTypeOK /\ Numbered /\ MemoHonest
    /\ \A r \in Threads, s \in Compared : <<r, s>> \in asked => Requested(r, s)
    /\ \A r \in Threads : ComparisonOK(r)

-----------------------------------------------------------------------------
(* What a step leaves alone.                                               *)

Same(r) ==
    /\ comparing'[r] = comparing[r] /\ want'[r] = want[r] /\ view'[r] = view[r]
    /\ sigs'[r] = sigs[r] /\ got'[r] = got[r] /\ later'[r] = later[r]
    /\ told'[r] = told[r] /\ snap'[r] = snap[r] /\ received'[r] = received[r]

\* A comparison whose variables and sources stay as they are.
LEMMA Frame ==
  ASSUME NEW r, ComparisonOK(r), Same(r), content' = content
  PROVE  ComparisonOK(r)'
<1>1. Progress(r)'
  BY DEF ComparisonOK, Progress, New, Same
<1>2. ASSUME comparing'[r] # "idle", NEW i \in DOMAIN sigs'[r], Unchanged(r, i)'
      PROVE  Seen(r, i)'
  <2>1. i \in DOMAIN sigs[r] /\ Unchanged(r, i) /\ comparing[r] # "idle"
    BY <1>2 DEF Same, Unchanged
  <2>2. Seen(r, i)
    BY <2>1 DEF ComparisonOK
  <2> QED
    BY <2>2 DEF Same, Seen
<1>3. comparing'[r] = "idle" /\ told'[r] # Absent => told'[r] = [docs |-> snap'[r], view |-> view'[r]]
  BY DEF ComparisonOK, Same
<1> QED
  BY <1>1, <1>2, <1>3 DEF ComparisonOK

\* A step of one comparison.
LEMMA OneComparison ==
  ASSUME Inv, CompareTypeOK', MemoHonest', NEW r \in Threads,
         content' = content, versions' = versions, asked' = asked,
         \A q \in Threads \ {r} : Same(q),
         received'[r] # Absent => received'[r] <= versions,
         \A i \in DOMAIN sigs'[r] : sigs'[r][i] <= versions,
         \A s \in Compared : <<r, s>> \notin asked,
         ComparisonOK(r)'
  PROVE  Inv'
<1>1. Numbered'
  BY DEF Inv, Numbered, Same
<1>2. ASSUME NEW q \in Threads, NEW s \in Compared, <<q, s>> \in asked'
      PROVE  Requested(q, s)'
  <2>1. q # r /\ Requested(q, s)
    BY <1>2 DEF Inv
  <2> QED
    BY <2>1 DEF Requested, Due, Same
<1>3. ASSUME NEW q \in Threads PROVE ComparisonOK(q)'
  BY Frame DEF Inv
<1> QED
  BY <1>1, <1>2, <1>3 DEF Inv

\* A comparison that waits for no answer has no request.
LEMMA NoRequest ==
  ASSUME Inv, NEW r \in Threads, comparing[r] # "asked" \/ Index!Idle(r)
  PROVE  \A s \in Compared : <<r, s>> \notin asked
<1> SUFFICES ASSUME NEW s \in Compared, <<r, s>> \in asked PROVE FALSE
  OBVIOUS
<1>1. Requested(r, s)
  BY DEF Inv
<1>2. ~Index!Idle(r)
  BY DEF Index!Idle
<1> QED
  BY <1>1, <1>2 DEF Requested

\* Numbers of versions.
LEMMA Numbers ==
  ASSUME Inv
  PROVE  /\ \A r \in Threads : received[r] # Absent => received[r] <= versions
         /\ \A r \in Threads : \A i \in DOMAIN sigs[r] : sigs[r][i] <= versions
  BY DEF Inv, Numbered

-----------------------------------------------------------------------------
(* The start and the writers.                                              *)

LEMMA InitInv == CompareInit /\ WorkbenchConstants => Inv
<1> SUFFICES ASSUME CompareInit, WorkbenchConstants PROVE Inv
  OBVIOUS
<1> USE DEF CompareInit
<1>1. CompareTypeOK
  <2>1. <<>> \in Versions /\ <<>> \in Seq(Compared) /\ <<>> \in Seq(Nat \cup {Absent})
        /\ <<>> \in Seq([key : Key, result : Result])
    BY DEF Versions
  <2>2. All \in Views /\ MaxVersions \in Nat
    BY DEF WorkbenchConstants
  <2>3. versions \in 0 .. MaxVersions
    BY <2>2
  <2> QED
    BY <2>1, <2>2, <2>3 DEF CompareTypeOK, CompareSteps
<1>2. Numbered /\ MemoHonest
  BY DEF Numbered, MemoHonest
<1>3. ASSUME NEW r \in Threads PROVE ComparisonOK(r)
  BY DEF ComparisonOK, Progress
<1> QED
  BY <1>1, <1>2, <1>3 DEF Inv

\* A source that is written or removed has no identity that was collected.
LEMMA ChangeInv ==
  ASSUME Inv, WorkbenchConstants, NEW s \in Compared, NEW v,
         content' = [content EXCEPT ![s] = v],
         \/ v = Absent /\ versions' = versions
         \/ v = versions + 1 /\ versions' = versions + 1 /\ versions < MaxVersions,
         Index!Change(s), UNCHANGED compareVars
  PROVE  Inv'
<1>1. /\ asked' = asked /\ received' = received
      /\ overtaken' = overtaken \cup {q[1] : q \in {p \in asked : p[2] = s}}
      /\ comparing' = comparing /\ want' = want /\ view' = view /\ sigs' = sigs /\ got' = got
      /\ later' = later /\ told' = told /\ snap' = snap /\ memo' = memo
  BY DEF Index!Change, compareVars
<1>2. /\ versions \in Nat /\ MaxVersions \in Nat /\ versions <= MaxVersions /\ Absent \notin Nat
      /\ content \in [Compared -> Contents \cup {Absent}]
      /\ received \in [Threads -> Contents \cup {Absent}]
      /\ asked \subseteq Threads \X Compared /\ overtaken \subseteq Threads
  BY DEF WorkbenchConstants, Inv, CompareTypeOK
<1>3. versions' \in 0 .. MaxVersions /\ v \in Contents \cup {Absent} /\ versions <= versions'
      /\ versions' \in Nat
  BY <1>2 DEF Contents
<1>4. CompareTypeOK'
  <2>1. content' \in [Compared -> Contents \cup {Absent}]
    BY <1>2, <1>3
  <2>2. overtaken' \subseteq Threads
    BY <1>1, <1>2
  <2> QED
    BY <1>1, <1>3, <2>1, <2>2 DEF Inv, CompareTypeOK
<1>5. \A r \in Threads : \A i \in DOMAIN sigs[r] : sigs[r][i] \in Nat
  <2>1. \A r \in Threads : sigs[r] \in Seq(Nat)
    BY DEF Inv, CompareTypeOK, Versions
  <2> QED
    BY <2>1, ElementOfSeq
<1>6. Numbered'
  <2>1. \A t \in Compared : content'[t] # Absent => content'[t] <= versions'
    BY <1>2, <1>3 DEF Inv, Numbered, Contents
  <2>2. \A r \in Threads : received[r] # Absent => received[r] <= versions'
    BY <1>2, <1>3 DEF Inv, Numbered, Contents
  <2>3. \A r \in Threads : \A i \in DOMAIN sigs[r] : sigs[r][i] <= versions'
    BY <1>2, <1>3, <1>5 DEF Inv, Numbered
  <2> QED
    BY <1>1, <2>1, <2>2, <2>3 DEF Numbered
<1>7. ASSUME NEW r \in Threads PROVE ComparisonOK(r)'
  <2>1. Progress(r)'
    BY <1>1 DEF Inv, ComparisonOK, Progress, New
  <2>2. ASSUME comparing[r] # "idle", NEW i \in DOMAIN sigs[r], Unchanged(r, i)'
        PROVE  Seen(r, i)'
    <3>1. v # sigs[r][i]
      BY <1>2, <1>5 DEF Inv, Numbered
    <3>2. Unchanged(r, i)
      <4>1. /\ want[r] \in Seq(Compared) /\ i \in DOMAIN want[r]
        <5>1. want[r] \in Seq(Compared) /\ sigs[r] \in Seq(Nat) /\ Len(sigs[r]) <= Len(want[r])
          BY <2>2 DEF Inv, CompareTypeOK, Versions, ComparisonOK, Progress
        <5> QED
          BY <5>1
      <4>2. want[r][i] \in Compared
        BY <4>1, ElementOfSeq
      <4> QED
        BY <1>1, <1>2, <2>2, <3>1, <4>2 DEF Unchanged
    <3>3. Seen(r, i)
      BY <2>2, <3>2 DEF Inv, ComparisonOK
    <3> QED
      BY <1>1, <3>3 DEF Seen
  <2> QED
    BY <1>1, <2>1, <2>2 DEF Inv, ComparisonOK
<1>8. MemoHonest'
  BY <1>1 DEF Inv, MemoHonest
<1>9. \A r \in Threads, t \in Compared : <<r, t>> \in asked' => Requested(r, t)'
  BY <1>1 DEF Inv, Requested, Due
<1> QED
  BY <1>4, <1>6, <1>7, <1>8, <1>9 DEF Inv

-----------------------------------------------------------------------------
(* The steps of a comparison.                                              *)

\* The lists of a comparison.
LEMMA Lists ==
  ASSUME Inv, NEW r \in Threads
  PROVE  /\ want[r] \in Seq(Compared) /\ sigs[r] \in Seq(Nat) /\ got[r] \in Seq(Nat)
         /\ later[r] \in Seq(Nat) /\ snap[r] \in Seq(Nat \cup {Absent})
         /\ DOMAIN want[r] = 1 .. Len(want[r]) /\ DOMAIN sigs[r] = 1 .. Len(sigs[r])
         /\ DOMAIN got[r] = 1 .. Len(got[r]) /\ DOMAIN later[r] = 1 .. Len(later[r])
         /\ Len(want[r]) \in Nat /\ Len(sigs[r]) \in Nat /\ Len(got[r]) \in Nat
         /\ Len(later[r]) \in Nat
         /\ \A i \in 1 .. Len(want[r]) : want[r][i] \in Compared
<1>1. /\ want[r] \in Seq(Compared) /\ sigs[r] \in Seq(Nat) /\ got[r] \in Seq(Nat)
      /\ later[r] \in Seq(Nat) /\ snap[r] \in Seq(Nat \cup {Absent})
  BY DEF Inv, CompareTypeOK, Versions
<1> QED
  BY <1>1, ElementOfSeq

\* The version that is appended to a list of versions.
LEMMA Appended ==
  ASSUME NEW S, NEW L \in Seq(S), NEW v \in S
  PROVE  /\ Append(L, v) \in Seq(S) /\ Len(Append(L, v)) = Len(L) + 1
         /\ DOMAIN Append(L, v) = 1 .. Len(L) + 1
         /\ \A i \in 1 .. Len(L) : Append(L, v)[i] = L[i]
         /\ Append(L, v)[Len(L) + 1] = v
  BY AppendProperties

\* A function on the first numbers is a list.
LEMMA ListOf ==
  ASSUME NEW n \in Nat, NEW S, NEW f \in [1 .. n -> S]
  PROVE  f \in Seq(S) /\ Len(f) = n
  OBVIOUS

\* A version that is there.
LEMMA Present ==
  ASSUME Inv, NEW s \in Compared, content[s] # Absent
  PROVE  content[s] \in Nat /\ content[s] \in Contents /\ content[s] <= versions
<1>1. content[s] \in Contents
  BY DEF Inv, CompareTypeOK
<1> QED
  BY <1>1 DEF Inv, Numbered, Contents

-----------------------------------------------------------------------------
(* The cache.                                                              *)

Entries == [key : Key, result : Result]

Honest(M) ==
    /\ M \in Seq(Entries)
    /\ \A i \in DOMAIN M : M[i].result = [docs |-> M[i].key.sigs, view |-> M[i].key.view]

\* A part of the cache is honest.
LEMMA PartHonest ==
  ASSUME NEW M, Honest(M), NEW i \in Nat \ {0}, NEW j \in Int, j <= Len(M)
  PROVE  Honest(SubSeq(M, i, j))
<1>1. M \in Seq(Entries) /\ Len(M) \in Nat /\ DOMAIN M = 1 .. Len(M)
  BY DEF Honest
<1>2. /\ SubSeq(M, i, j) \in Seq(Entries)
      /\ \A m \in DOMAIN SubSeq(M, i, j) :
             m + i - 1 \in DOMAIN M /\ SubSeq(M, i, j)[m] = M[m + i - 1]
  <2>1. CASE i <= j
    <3>1. i \in 1 .. Len(M) + 1 /\ j \in i - 1 .. Len(M)
      BY <1>1, <2>1
    <3>2. /\ SubSeq(M, i, j) \in Seq(Entries) /\ Len(SubSeq(M, i, j)) = j - i + 1
          /\ \A m \in 1 .. j - i + 1 : SubSeq(M, i, j)[m] = M[i + m - 1]
      BY <1>1, <2>1, <3>1, SubSeqProperties
    <3>3. DOMAIN SubSeq(M, i, j) = 1 .. j - i + 1
      BY <3>2
    <3> QED
      BY <1>1, <2>1, <3>2, <3>3
  <2>2. CASE ~(i <= j)
    <3>1. SubSeq(M, i, j) = <<>>
      BY <1>1, <2>2, SubSeqEmpty
    <3> QED
      BY <3>1
  <2> QED
    BY <2>1, <2>2
<1> QED
  BY <1>2 DEF Honest

LEMMA JoinHonest ==
  ASSUME NEW M, NEW N, Honest(M), Honest(N)
  PROVE  Honest(M \o N)
<1>1. /\ M \in Seq(Entries) /\ N \in Seq(Entries) /\ Len(M) \in Nat /\ Len(N) \in Nat
      /\ DOMAIN M = 1 .. Len(M) /\ DOMAIN N = 1 .. Len(N)
  BY DEF Honest
<1>2. /\ M \o N \in Seq(Entries) /\ DOMAIN (M \o N) = 1 .. Len(M) + Len(N)
      /\ \A i \in 1 .. Len(M) + Len(N) :
             (M \o N)[i] = IF i <= Len(M) THEN M[i] ELSE N[i - Len(M)]
  BY <1>1, ConcatProperties
<1>3. ASSUME NEW i \in DOMAIN (M \o N)
      PROVE  \/ i \in DOMAIN M /\ (M \o N)[i] = M[i]
             \/ i - Len(M) \in DOMAIN N /\ (M \o N)[i] = N[i - Len(M)]
  BY <1>1, <1>2
<1> QED
  BY <1>2, <1>3 DEF Honest

LEMMA AppendHonest ==
  ASSUME NEW M, Honest(M), NEW e \in Entries,
         e.result = [docs |-> e.key.sigs, view |-> e.key.view]
  PROVE  Honest(Append(M, e))
<1>1. M \in Seq(Entries) /\ Len(M) \in Nat /\ DOMAIN M = 1 .. Len(M)
  BY DEF Honest
<1>2. /\ Append(M, e) \in Seq(Entries) /\ DOMAIN Append(M, e) = 1 .. Len(M) + 1
      /\ \A i \in 1 .. Len(M) : Append(M, e)[i] = M[i]
      /\ Append(M, e)[Len(M) + 1] = e
  BY <1>1, Appended
<1>3. ASSUME NEW i \in DOMAIN Append(M, e)
      PROVE  (i \in DOMAIN M /\ Append(M, e)[i] = M[i]) \/ Append(M, e)[i] = e
  BY <1>1, <1>2
<1> QED
  BY <1>2, <1>3 DEF Honest

\* The cache without one of its entries.
LEMMA RemovedHonest ==
  ASSUME NEW M, Honest(M), NEW i \in DOMAIN M
  PROVE  Honest(RemoveAt(M, i))
<1>1. Len(M) \in Nat /\ i \in 1 .. Len(M)
  BY DEF Honest
<1>2. Honest(SubSeq(M, 1, i - 1)) /\ Honest(SubSeq(M, i + 1, Len(M)))
  <2>1. /\ 1 \in Nat \ {0} /\ i - 1 \in Int /\ i - 1 <= Len(M)
        /\ i + 1 \in Nat \ {0} /\ Len(M) \in Int /\ Len(M) <= Len(M)
    BY <1>1
  <2> QED
    BY <2>1, PartHonest
<1> QED
  BY <1>2, JoinHonest DEF RemoveAt

\* In the cache of an invariant state.
LEMMA CacheHonest == Inv => Honest(memo)
  BY DEF Inv, CompareTypeOK, MemoHonest, Honest, Entries

-----------------------------------------------------------------------------
(* Comparisons begin, and collect.                                         *)

LEMMA CompareInv ==
  ASSUME Inv, NEW r \in Threads, NEW w \in Selections, NEW v \in Views, BeginComparison(r, w, v)
  PROVE  Inv'
<1>1. /\ comparing[r] = "idle" /\ comparing' = [comparing EXCEPT ![r] = "first"]
      /\ want' = [want EXCEPT ![r] = w] /\ view' = [view EXCEPT ![r] = v]
      /\ sigs' = [sigs EXCEPT ![r] = <<>>] /\ got' = [got EXCEPT ![r] = <<>>]
      /\ later' = [later EXCEPT ![r] = <<>>] /\ told' = [told EXCEPT ![r] = Absent]
      /\ snap' = [snap EXCEPT ![r] = <<>>]
      /\ content' = content /\ asked' = asked /\ overtaken' = overtaken /\ received' = received
      /\ versions' = versions /\ memo' = memo
  BY DEF BeginComparison, GoOn, sourceVars
<1>2. w \in Seq(Compared) /\ w # <<>> /\ Len(w) \in Nat
  <2>1. PICK n \in 1 .. MaxSources : w \in [1 .. n -> Compared]
    BY DEF Selections
  <2>2. w \in Seq(Compared) /\ DOMAIN w = 1 .. n /\ n \in Nat \ {0}
    BY <2>1
  <2> QED
    BY <2>2
<1>3. CompareTypeOK'
  BY <1>1, <1>2 DEF Inv, CompareTypeOK, CompareSteps, Versions
<1>4. MemoHonest'
  BY <1>1 DEF Inv, MemoHonest
<1>5. /\ comparing'[r] = "first" /\ want'[r] = w /\ sigs'[r] = <<>> /\ got'[r] = <<>>
      /\ later'[r] = <<>>
  BY <1>1 DEF Inv, CompareTypeOK
<1>6. ComparisonOK(r)'
  BY <1>2, <1>5 DEF ComparisonOK, Progress
<1>7. \A q \in Threads \ {r} : Same(q)
  BY <1>1 DEF Same, Inv, CompareTypeOK
<1> QED
  BY <1>1, <1>3, <1>4, <1>5, <1>6, <1>7, NoRequest, Numbers, OneComparison

LEMMA CollectFirstInv ==
  ASSUME Inv, WorkbenchConstants, NEW r \in Threads, CollectFirst(r)
  PROVE  Inv'
<1> DEFINE n == Len(sigs[r])
           s == Due(r, sigs[r])
           full == Complete(r, sigs'[r])
<1>1. /\ comparing[r] = "first" /\ n # Len(want[r]) /\ content[s] # Absent
      /\ sigs' = [sigs EXCEPT ![r] = Append(sigs[r], content[s])]
      /\ IF full
         THEN /\ comparing' = [comparing EXCEPT ![r] = IF view[r] = All THEN "read" ELSE "lookup"]
              /\ snap' = [snap EXCEPT ![r] = Now(r)]
         ELSE comparing' = comparing /\ snap' = snap
      /\ want' = want /\ view' = view /\ got' = got /\ later' = later /\ told' = told
      /\ content' = content /\ asked' = asked /\ overtaken' = overtaken /\ received' = received
      /\ versions' = versions /\ memo' = memo
  BY DEF CollectFirst, sourceVars, Complete
<1>2. /\ Progress(r) /\ want[r] # <<>> /\ n <= Len(want[r])
      /\ got[r] = <<>> /\ later[r] = <<>>
  BY <1>1 DEF Inv, ComparisonOK, Progress
<1>3. /\ n + 1 \in 1 .. Len(want[r]) /\ s = want[r][n + 1] /\ s \in Compared
      /\ n \in Nat /\ sigs[r] \in Seq(Nat)
  BY <1>1, <1>2, Lists DEF Due
<1>4. content[s] \in Nat /\ content[s] <= versions
  BY <1>1, <1>3, Present
<1> HIDE DEF n, s
<1>5. /\ sigs'[r] \in Seq(Nat) /\ Len(sigs'[r]) = n + 1 /\ DOMAIN sigs'[r] = 1 .. n + 1
      /\ \A i \in 1 .. n : sigs'[r][i] = sigs[r][i]
      /\ sigs'[r][n + 1] = content[s]
  <2>1. sigs'[r] = Append(sigs[r], content[s])
    BY <1>1 DEF Inv, CompareTypeOK
  <2> QED
    BY <1>3, <1>4, <2>1, Appended DEF n
<1>6. Now(r) \in Seq(Nat \cup {Absent}) /\ Len(Now(r)) = Len(want[r])
      /\ \A i \in 1 .. Len(want[r]) : Now(r)[i] = content[want[r][i]]
  <2>1. \A i \in 1 .. Len(want[r]) : content[want[r][i]] \in Nat \cup {Absent}
    BY Lists, Present
  <2>2. Now(r) = [i \in 1 .. Len(want[r]) |-> content[want[r][i]]]
    BY Lists DEF Now
  <2>3. Now(r) \in [1 .. Len(want[r]) -> Nat \cup {Absent}]
    BY <2>1, <2>2
  <2>4. Len(want[r]) \in Nat
    BY Lists
  <2> HIDE DEF Now
  <2>5. Now(r) \in Seq(Nat \cup {Absent}) /\ Len(Now(r)) = Len(want[r])
    BY <2>3, <2>4, ListOf
  <2> QED
    BY <2>2, <2>5
<1>7. CompareTypeOK'
  <2>1. sigs' \in [Threads -> Versions]
    BY <1>1, <1>5 DEF Inv, CompareTypeOK, Versions
  <2>2. snap' \in [Threads -> Seq(Nat \cup {Absent})]
    BY <1>1, <1>6 DEF Inv, CompareTypeOK
  <2>3. comparing' \in [Threads -> {"idle"} \cup CompareSteps]
    BY <1>1 DEF Inv, CompareTypeOK, CompareSteps
  <2> QED
    BY <1>1, <2>1, <2>2, <2>3 DEF Inv, CompareTypeOK
<1>8. MemoHonest'
  BY <1>1 DEF Inv, MemoHonest
<1>9. \A i \in DOMAIN sigs'[r] : sigs'[r][i] <= versions
  <2>1. \A i \in 1 .. n : sigs[r][i] <= versions
    BY Lists DEF Inv, Numbered, n
  <2>2. \A i \in 1 .. n : sigs'[r][i] <= versions
    BY <1>5, <2>1
  <2>3. \A i \in 1 .. n + 1 : i \in 1 .. n \/ i = n + 1
    BY <1>3
  <2> QED
    BY <1>4, <1>5, <2>2, <2>3
<1>10. /\ comparing'[r] \in {"first", "read", "lookup"} /\ got'[r] = <<>> /\ later'[r] = <<>>
       /\ want'[r] = want[r]
       /\ comparing'[r] # "first" =>
             n + 1 = Len(want[r]) /\ Len(snap'[r]) = Len(want[r]) /\ snap'[r] = Now(r)
  BY <1>1, <1>2, <1>5, <1>6 DEF Inv, CompareTypeOK, Complete
<1>11. Progress(r)'
  <2>1. /\ Len(<<>>) = 0 /\ Len(want[r]) \in Nat /\ n + 1 <= Len(want[r])
        /\ Len(sigs'[r]) = n + 1 /\ want'[r] # <<>>
    BY <1>2, <1>3, <1>5, <1>10, Lists
  <2>2. CASE comparing'[r] = "first"
    BY <1>10, <2>1, <2>2 DEF Progress
  <2>3. CASE comparing'[r] # "first"
    BY <1>10, <2>1, <2>3 DEF Progress
  <2> QED
    BY <2>2, <2>3
<1>12. ASSUME NEW i \in DOMAIN sigs'[r], Unchanged(r, i)' PROVE Seen(r, i)'
  <2>1. i \in 1 .. Len(want[r])
    BY <1>2, <1>3, <1>5
  <2>2. content[want[r][i]] = sigs'[r][i]
    BY <1>1, <1>10, <1>12 DEF Unchanged
  <2>3. comparing'[r] # "first" => snap'[r][i] = sigs'[r][i]
    BY <1>6, <1>10, <2>1, <2>2
  <2> QED
    BY <1>10, <2>3 DEF Seen
<1>13. ComparisonOK(r)'
  BY <1>10, <1>11, <1>12 DEF ComparisonOK
<1>14. \A q \in Threads \ {r} : Same(q)
  BY <1>1 DEF Same, Inv, CompareTypeOK
<1> QED
  BY <1>1, <1>7, <1>8, <1>9, <1>13, <1>14, NoRequest, Numbers, OneComparison

\* A result that was kept is of the versions that were collected.
LEMMA RecallInv ==
  ASSUME Inv, NEW r \in Threads, Recall(r)
  PROVE  Inv'
<1>1. PICK m \in Remembered(r) :
          /\ memo' = Append(RemoveAt(memo, m), memo[m])
          /\ told' = [told EXCEPT ![r] = memo[m].result]
  BY DEF Recall
<1>2. /\ comparing[r] = "lookup" /\ comparing' = [comparing EXCEPT ![r] = "second"]
      /\ want' = want /\ view' = view /\ sigs' = sigs /\ got' = got /\ later' = later
      /\ snap' = snap
      /\ content' = content /\ asked' = asked /\ overtaken' = overtaken /\ received' = received
      /\ versions' = versions
  BY DEF Recall, GoOn, sourceVars
<1>3. /\ m \in DOMAIN memo /\ memo[m].key = KeyOf(r)
      /\ memo \in Seq([key : Key, result : Result])
  BY DEF Remembered, Inv, CompareTypeOK
<1>4. /\ memo[m] \in [key : Key, result : Result]
      /\ memo[m].result = [docs |-> memo[m].key.sigs, view |-> memo[m].key.view]
      /\ memo[m].result = [docs |-> sigs[r], view |-> view[r]]
  <2>1. m \in 1 .. Len(memo)
    BY <1>3
  <2>2. memo[m] \in [key : Key, result : Result]
    BY <1>3, <2>1, ElementOfSeq
  <2>3. memo[m].result = [docs |-> memo[m].key.sigs, view |-> memo[m].key.view]
    BY <1>3 DEF Inv, MemoHonest
  <2>4. memo[m].key.sigs = sigs[r] /\ memo[m].key.view = view[r]
    BY <1>3 DEF KeyOf
  <2> QED
    BY <2>2, <2>3, <2>4
<1>5. memo' \in Seq([key : Key, result : Result]) /\ MemoHonest'
  <2>1. Honest(RemoveAt(memo, m))
    BY <1>3, CacheHonest, RemovedHonest
  <2>2. Honest(memo')
    BY <1>1, <1>4, <2>1, AppendHonest DEF Entries, KeyOf
  <2> QED
    BY <2>2 DEF Honest, MemoHonest, Entries
<1>6. CompareTypeOK'
  <2>1. told' \in [Threads -> Result \cup {Absent}]
    BY <1>1, <1>4 DEF Inv, CompareTypeOK
  <2>2. comparing' \in [Threads -> {"idle"} \cup CompareSteps]
    BY <1>2 DEF Inv, CompareTypeOK, CompareSteps
  <2> QED
    BY <1>2, <1>5, <2>1, <2>2 DEF Inv, CompareTypeOK
<1>7. /\ comparing'[r] = "second" /\ told'[r] = [docs |-> sigs[r], view |-> view[r]]
      /\ got[r] = <<>> /\ later[r] = <<>>
  BY <1>1, <1>2, <1>4 DEF Inv, CompareTypeOK, ComparisonOK, Progress
<1>8. Progress(r)'
  <2>1. Len(<<>>) = 0 /\ Len(want[r]) \in Nat /\ got'[r] = <<>> /\ later'[r] = <<>>
    BY <1>2, <1>7, Lists
  <2>2. /\ want[r] # <<>> /\ Len(sigs[r]) = Len(want[r]) /\ Len(snap[r]) = Len(want[r])
    BY <1>2 DEF Inv, ComparisonOK, Progress
  <2> QED
    BY <1>2, <1>7, <2>1, <2>2 DEF Progress, New
<1>9. ComparisonOK(r)'
  <2>1. ASSUME NEW i \in DOMAIN sigs'[r], Unchanged(r, i)' PROVE Seen(r, i)'
    <3>1. Seen(r, i)
      BY <1>2, <2>1 DEF Inv, ComparisonOK, Unchanged
    <3> QED
      BY <1>2, <1>7, <3>1 DEF Seen
  <2> QED
    BY <1>7, <1>8, <2>1 DEF ComparisonOK
<1>10. \A q \in Threads \ {r} : Same(q)
  BY <1>1, <1>2 DEF Same, Inv, CompareTypeOK
<1> QED
  BY <1>2, <1>5, <1>6, <1>9, <1>10, NoRequest, Numbers, OneComparison

\* A comparison that goes on, its lists as they are and its result unchanged.
LEMMA ForgottenInv ==
  ASSUME Inv, NEW r \in Threads, Forgotten(r)
  PROVE  Inv'
<1>1. /\ comparing[r] = "lookup" /\ comparing' = [comparing EXCEPT ![r] = "read"]
      /\ want' = want /\ view' = view /\ sigs' = sigs /\ got' = got /\ later' = later
      /\ told' = told /\ snap' = snap /\ memo' = memo
      /\ content' = content /\ asked' = asked /\ overtaken' = overtaken /\ received' = received
      /\ versions' = versions
  BY DEF Forgotten, GoOn, sourceVars
<1>2. CompareTypeOK' /\ MemoHonest'
  BY <1>1 DEF Inv, CompareTypeOK, CompareSteps, MemoHonest
<1>3. comparing'[r] = "read"
  BY <1>1 DEF Inv, CompareTypeOK
<1>4. Progress(r)'
  <2>1. Len(<<>>) = 0 /\ Len(want[r]) \in Nat
    BY Lists
  <2>2. Progress(r)
    BY DEF Inv, ComparisonOK
  <2> QED
    BY <1>1, <1>3, <2>1, <2>2 DEF Progress
<1>5. ComparisonOK(r)'
  <2>1. ASSUME NEW i \in DOMAIN sigs'[r], Unchanged(r, i)' PROVE Seen(r, i)'
    <3>1. Seen(r, i)
      BY <1>1, <2>1 DEF Inv, ComparisonOK, Unchanged
    <3> QED
      BY <1>1, <1>3, <3>1 DEF Seen
  <2> QED
    BY <1>3, <1>4, <2>1 DEF ComparisonOK
<1>6. \A q \in Threads \ {r} : Same(q)
  BY <1>1 DEF Same, Inv, CompareTypeOK
<1> QED
  BY <1>1, <1>2, <1>5, <1>6, NoRequest, Numbers, OneComparison

-----------------------------------------------------------------------------
(* The reads.                                                              *)

\* A request is for the source that is due, and has no answer yet.
LEMMA AskNextInv ==
  ASSUME Inv, WorkbenchConstants, NEW r \in Threads, AskNext(r)
  PROVE  Inv'
<1> DEFINE s == Due(r, got[r])
<1>1. /\ comparing[r] = "read" /\ comparing' = [comparing EXCEPT ![r] = "asked"]
      /\ Len(got[r]) # Len(want[r]) /\ Index!Idle(r)
      /\ asked' = asked \cup {<<r, s>>} /\ received' = [received EXCEPT ![r] = Absent]
      /\ content' = content /\ overtaken' = overtaken
      /\ want' = want /\ view' = view /\ sigs' = sigs /\ got' = got /\ later' = later
      /\ told' = told /\ snap' = snap /\ memo' = memo /\ versions' = versions
  BY DEF AskNext, GoOn, Complete, Index!Ask
<1>2. Progress(r) /\ Len(got[r]) < Len(want[r]) /\ s \in Compared
  <2>1. Progress(r)
    BY DEF Inv, ComparisonOK
  <2>2. Len(got[r]) < Len(want[r])
    BY <1>1, <2>1, Lists DEF Progress
  <2>3. Len(got[r]) + 1 \in 1 .. Len(want[r])
    BY <2>2, Lists
  <2> QED
    BY <2>1, <2>2, <2>3, Lists DEF Due
<1> HIDE DEF s
<1>3. comparing'[r] = "asked" /\ received'[r] = Absent
  BY <1>1 DEF Inv, CompareTypeOK
<1>4. CompareTypeOK'
  <2>1. asked' \subseteq Threads \X Compared
    BY <1>1, <1>2 DEF Inv, CompareTypeOK
  <2>2. received' \in [Threads -> Contents \cup {Absent}]
    BY <1>1 DEF Inv, CompareTypeOK
  <2>3. comparing' \in [Threads -> {"idle"} \cup CompareSteps]
    BY <1>1 DEF Inv, CompareTypeOK, CompareSteps
  <2> QED
    BY <1>1, <2>1, <2>2, <2>3 DEF Inv, CompareTypeOK
<1>5. \A q \in Threads \ {r} : Same(q)
  BY <1>1 DEF Same, Inv, CompareTypeOK
<1>6. MemoHonest' /\ Numbered'
  <2>1. \A q \in Threads : received'[q] # Absent => received'[q] = received[q]
    BY <1>3, <1>5 DEF Same
  <2> QED
    BY <1>1, <2>1 DEF Inv, MemoHonest, Numbered
<1>7. ComparisonOK(r)'
  <2>1. Progress(r)'
    BY <1>1, <1>2, <1>3, Lists DEF Progress
  <2>2. ASSUME NEW i \in DOMAIN sigs'[r], Unchanged(r, i)' PROVE Seen(r, i)'
    <3>1. Seen(r, i)
      BY <1>1, <2>2 DEF Inv, ComparisonOK, Unchanged
    <3> QED
      BY <1>1, <1>3, <3>1 DEF Seen
  <2> QED
    BY <1>3, <2>1, <2>2 DEF ComparisonOK
<1>8. ASSUME NEW q \in Threads PROVE ComparisonOK(q)'
  BY <1>1, <1>5, <1>7, Frame DEF Inv
<1>9. ASSUME NEW q \in Threads, NEW t \in Compared, <<q, t>> \in asked'
      PROVE  Requested(q, t)'
  <2>1. CASE q = r
    <3>1. <<r, t>> \notin asked
      BY <1>1, NoRequest
    <3>2. t = s
      BY <1>1, <1>9, <2>1, <3>1
    <3> QED
      BY <1>1, <1>3, <2>1, <3>2 DEF Requested, Due, s
  <2>2. CASE q # r
    <3>1. <<q, t>> \in asked
      BY <1>1, <1>9, <2>2
    <3>2. Requested(q, t) /\ Same(q)
      BY <1>5, <2>2, <3>1 DEF Inv
    <3> QED
      BY <3>2 DEF Requested, Due, Same
  <2> QED
    BY <2>1, <2>2
<1> QED
  BY <1>4, <1>6, <1>8, <1>9 DEF Inv

\* An answer is the content that the source has now, or nothing.
LEMMA IndexStepInv ==
  ASSUME Inv, WorkbenchConstants, NEW r \in Threads, NEW s \in Compared, IndexStep(r, s)
  PROVE  Inv'
<1>1. /\ <<r, s>> \in asked /\ asked' = asked \ {<<r, s>>}
      /\ \/ received' = [received EXCEPT ![r] = content[s]] /\ content[s] # Absent
         \/ received' = [received EXCEPT ![r] = Absent]
      /\ overtaken' = overtaken \ {r} /\ content' = content /\ versions' = versions
      /\ comparing' = comparing /\ want' = want /\ view' = view /\ sigs' = sigs /\ got' = got
      /\ later' = later /\ told' = told /\ snap' = snap /\ memo' = memo
  BY DEF IndexStep, Index!Answer, Index!Fail, Index!Readable, compareVars
<1>2. /\ comparing[r] = "asked" /\ s = Due(r, got[r]) /\ received[r] = Absent
      /\ ComparisonOK(r) /\ Progress(r)
  BY <1>1 DEF Inv, Requested, ComparisonOK
<1>3. /\ received'[r] \in {content[s], Absent}
      /\ received'[r] # Absent => received'[r] <= versions
      /\ received' \in [Threads -> Contents \cup {Absent}]
  BY <1>1, Present DEF Inv, CompareTypeOK
<1>4. CompareTypeOK'
  BY <1>1, <1>3 DEF Inv, CompareTypeOK
<1>5. \A q \in Threads \ {r} : Same(q)
  BY <1>1 DEF Same, Inv, CompareTypeOK
<1>6. MemoHonest' /\ Numbered'
  <2>1. \A q \in Threads : received'[q] # Absent => received'[q] <= versions
    BY <1>3, <1>5 DEF Same, Inv, Numbered
  <2> QED
    BY <1>1, <2>1 DEF Inv, MemoHonest, Numbered
<1>7. ComparisonOK(r)'
  <2>1. Progress(r)'
    BY <1>1, <1>2 DEF Progress, New
  <2>2. ASSUME NEW i \in DOMAIN sigs[r], Unchanged(r, i) PROVE Seen(r, i)'
    <3>1. Seen(r, i)
      BY <1>2, <2>2 DEF ComparisonOK
    <3>2. ASSUME i = Len(got[r]) + 1, received'[r] # Absent PROVE received'[r] = sigs[r][i]
      <4>1. s = want[r][i] /\ received'[r] = content[s]
        BY <1>2, <1>3, <3>2 DEF Due
      <4>2. i \notin DOMAIN later[r]
        BY <1>2, Lists DEF Progress
      <4> QED
        BY <2>2, <4>1, <4>2 DEF Unchanged
    <3> QED
      BY <1>1, <3>1, <3>2 DEF Seen
  <2>3. ASSUME NEW i \in DOMAIN sigs'[r], Unchanged(r, i)' PROVE Seen(r, i)'
    BY <1>1, <2>2, <2>3 DEF Unchanged
  <2> QED
    BY <1>1, <1>2, <2>1, <2>3 DEF ComparisonOK
<1>8. ASSUME NEW q \in Threads PROVE ComparisonOK(q)'
  BY <1>1, <1>5, <1>7, Frame DEF Inv
<1>9. ASSUME NEW q \in Threads, NEW t \in Compared, <<q, t>> \in asked'
      PROVE  Requested(q, t)'
  <2>1. <<q, t>> \in asked /\ Requested(q, t)
    BY <1>1, <1>9 DEF Inv
  <2>2. q # r
    <3>1. ASSUME q = r PROVE t = s
      BY <1>2, <2>1, <3>1 DEF Requested
    <3> QED
      BY <1>1, <1>9, <3>1
  <2> QED
    BY <1>5, <2>1, <2>2 DEF Requested, Due, Same
<1> QED
  BY <1>4, <1>6, <1>8, <1>9 DEF Inv

\* What was read joins what the comparison has.
LEMMA ReceiveInv ==
  ASSUME Inv, WorkbenchConstants, NEW r \in Threads, Receive(r)
  PROVE  Inv'
<1> DEFINE n == Len(got[r])
<1>1. /\ comparing[r] = "asked" /\ comparing' = [comparing EXCEPT ![r] = "read"]
      /\ Index!Idle(r) /\ received[r] # Absent
      /\ got' = [got EXCEPT ![r] = Append(got[r], received[r])]
      /\ want' = want /\ view' = view /\ sigs' = sigs /\ later' = later
      /\ told' = told /\ snap' = snap /\ memo' = memo
      /\ content' = content /\ asked' = asked /\ overtaken' = overtaken /\ received' = received
      /\ versions' = versions
  BY DEF Receive, GoOn, sourceVars
<1>2. Progress(r) /\ n \in Nat /\ Len(want[r]) \in Nat /\ n < Len(want[r])
      /\ later[r] = <<>> /\ got[r] \in Seq(Nat)
  BY <1>1, Lists DEF Inv, ComparisonOK, Progress
<1>3. received[r] \in Nat
  BY <1>1 DEF Inv, CompareTypeOK, Contents
<1> HIDE DEF n
<1>4. /\ comparing'[r] = "read" /\ got'[r] \in Seq(Nat) /\ Len(got'[r]) = n + 1
      /\ DOMAIN got'[r] = 1 .. n + 1
      /\ \A i \in 1 .. n : got'[r][i] = got[r][i]
      /\ got'[r][n + 1] = received[r]
  <2>1. got'[r] = Append(got[r], received[r]) /\ comparing'[r] = "read"
    BY <1>1 DEF Inv, CompareTypeOK
  <2> QED
    BY <1>2, <1>3, <2>1, Appended DEF n
<1>5. CompareTypeOK' /\ MemoHonest'
  <2>1. got' \in [Threads -> Versions]
    BY <1>1, <1>4 DEF Inv, CompareTypeOK, Versions
  <2>2. comparing' \in [Threads -> {"idle"} \cup CompareSteps]
    BY <1>1 DEF Inv, CompareTypeOK, CompareSteps
  <2> QED
    BY <1>1, <2>1, <2>2 DEF Inv, CompareTypeOK, MemoHonest
<1>6. Progress(r)'
  <2>1. n + 1 <= Len(want[r])
    BY <1>2
  <2> QED
    BY <1>1, <1>2, <1>4, <2>1 DEF Progress
<1>7. ComparisonOK(r)'
  <2>1. ASSUME NEW i \in DOMAIN sigs'[r], Unchanged(r, i)' PROVE Seen(r, i)'
    <3>1. Seen(r, i)
      BY <1>1, <2>1 DEF Inv, ComparisonOK, Unchanged
    <3>2. ASSUME i \in DOMAIN got'[r] PROVE got'[r][i] = sigs[r][i]
      <4>1. CASE i \in 1 .. n
        BY <1>4, <3>1, <4>1, Lists DEF Seen, n
      <4>2. CASE i = n + 1
        BY <1>1, <1>4, <3>1, <4>2 DEF Seen, n
      <4> QED
        BY <1>2, <1>4, <3>2, <4>1, <4>2
    <3> QED
      BY <1>1, <1>4, <3>1, <3>2 DEF Seen
  <2> QED
    BY <1>4, <1>6, <2>1 DEF ComparisonOK
<1>8. \A q \in Threads \ {r} : Same(q)
  BY <1>1 DEF Same, Inv, CompareTypeOK
<1> QED
  BY <1>1, <1>5, <1>7, <1>8, NoRequest, Numbers, OneComparison

\* The result is of what was read.
LEMMA AnalyzeInv ==
  ASSUME Inv, NEW r \in Threads, Analyze(r)
  PROVE  Inv'
<1>1. /\ comparing[r] = "read" /\ comparing' = [comparing EXCEPT ![r] = "second"]
      /\ Len(got[r]) = Len(want[r])
      /\ told' = [told EXCEPT ![r] = [docs |-> got[r], view |-> view[r]]]
      /\ want' = want /\ view' = view /\ sigs' = sigs /\ got' = got /\ later' = later
      /\ snap' = snap /\ memo' = memo
      /\ content' = content /\ asked' = asked /\ overtaken' = overtaken /\ received' = received
      /\ versions' = versions
  BY DEF Analyze, GoOn, Complete, sourceVars
<1>2. Progress(r) /\ later[r] = <<>> /\ want[r] # <<>>
  BY <1>1 DEF Inv, ComparisonOK, Progress
<1>3. /\ comparing'[r] = "second" /\ told'[r] = [docs |-> got[r], view |-> view[r]]
  BY <1>1 DEF Inv, CompareTypeOK
<1>4. Len(<<>>) = 0 /\ Len(want[r]) \in Nat /\ Len(want[r]) # 0 /\ got[r] # <<>>
  BY <1>1, <1>2, Lists, EmptySeq
<1>5. CompareTypeOK' /\ MemoHonest'
  <2>1. told' \in [Threads -> Result \cup {Absent}]
    BY <1>1 DEF Inv, CompareTypeOK, Result
  <2>2. comparing' \in [Threads -> {"idle"} \cup CompareSteps]
    BY <1>1 DEF Inv, CompareTypeOK, CompareSteps
  <2> QED
    BY <1>1, <2>1, <2>2 DEF Inv, CompareTypeOK, MemoHonest
<1>6. Progress(r)'
  BY <1>1, <1>2, <1>3, <1>4 DEF Progress, New
<1>7. ComparisonOK(r)'
  <2>1. ASSUME NEW i \in DOMAIN sigs'[r], Unchanged(r, i)' PROVE Seen(r, i)'
    <3>1. Seen(r, i)
      BY <1>1, <2>1 DEF Inv, ComparisonOK, Unchanged
    <3> QED
      BY <1>1, <1>3, <3>1 DEF Seen
  <2> QED
    BY <1>3, <1>6, <2>1 DEF ComparisonOK
<1>8. \A q \in Threads \ {r} : Same(q)
  BY <1>1 DEF Same, Inv, CompareTypeOK
<1> QED
  BY <1>1, <1>5, <1>7, <1>8, NoRequest, Numbers, OneComparison

-----------------------------------------------------------------------------
(* The second collection and the end.                                      *)

LEMMA CollectSecondInv ==
  ASSUME Inv, WorkbenchConstants, NEW r \in Threads, CollectSecond(r)
  PROVE  Inv'
<1> DEFINE n == Len(later[r])
           s == Due(r, later[r])
<1>1. /\ comparing[r] = "second" /\ n # Len(want[r]) /\ content[s] # Absent
      /\ later' = [later EXCEPT ![r] = Append(later[r], content[s])]
      /\ comparing' = comparing /\ want' = want /\ view' = view /\ sigs' = sigs /\ got' = got
      /\ told' = told /\ snap' = snap /\ memo' = memo
      /\ content' = content /\ asked' = asked /\ overtaken' = overtaken /\ received' = received
      /\ versions' = versions
  BY DEF CollectSecond, sourceVars, Complete
<1>2. /\ Progress(r) /\ n \in Nat /\ Len(want[r]) \in Nat /\ n <= Len(want[r])
      /\ later[r] \in Seq(Nat)
  BY <1>1, Lists DEF Inv, ComparisonOK, Progress
<1>3. s = want[r][n + 1] /\ s \in Compared
  <2>1. n + 1 \in 1 .. Len(want[r])
    BY <1>1, <1>2
  <2> QED
    BY <2>1, Lists DEF Due
<1>4. content[s] \in Nat
  BY <1>1, <1>3, Present
<1> HIDE DEF n, s
<1>5. /\ later'[r] \in Seq(Nat) /\ Len(later'[r]) = n + 1 /\ DOMAIN later'[r] = 1 .. n + 1
      /\ \A i \in 1 .. n : later'[r][i] = later[r][i]
      /\ later'[r][n + 1] = content[s]
  <2>1. later'[r] = Append(later[r], content[s])
    BY <1>1 DEF Inv, CompareTypeOK
  <2> QED
    BY <1>2, <1>4, <2>1, Appended DEF n
<1>6. CompareTypeOK' /\ MemoHonest'
  <2>1. later' \in [Threads -> Versions]
    BY <1>1, <1>5 DEF Inv, CompareTypeOK, Versions
  <2> QED
    BY <1>1, <2>1 DEF Inv, CompareTypeOK, MemoHonest
<1>7. Progress(r)'
  <2>1. n + 1 <= Len(want[r])
    BY <1>1, <1>2
  <2> QED
    BY <1>1, <1>2, <1>5, <2>1 DEF Progress, New
<1>8. ComparisonOK(r)'
  <2>1. ASSUME NEW i \in DOMAIN sigs'[r], Unchanged(r, i)' PROVE Seen(r, i)'
    <3>1. Unchanged(r, i)
      <4>1. CASE content[want[r][i]] = sigs[r][i]
        BY <4>1 DEF Unchanged
      <4>2. CASE i \in DOMAIN later'[r] /\ later'[r][i] = sigs[r][i]
        <5>1. CASE i \in 1 .. n
          BY <1>5, <4>2, <5>1, Lists DEF Unchanged, n
        <5>2. CASE i = n + 1
          BY <1>3, <1>5, <4>2, <5>2 DEF Unchanged
        <5> QED
          BY <1>2, <1>5, <4>2, <5>1, <5>2
      <4> QED
        BY <1>1, <2>1, <4>1, <4>2 DEF Unchanged
    <3>2. Seen(r, i)
      BY <1>1, <2>1, <3>1 DEF Inv, ComparisonOK
    <3> QED
      BY <1>1, <3>2 DEF Seen
  <2> QED
    BY <1>1, <1>7, <2>1 DEF ComparisonOK
<1>9. \A q \in Threads \ {r} : Same(q)
  BY <1>1 DEF Same, Inv, CompareTypeOK
<1> QED
  BY <1>1, <1>6, <1>8, <1>9, NoRequest, Numbers, OneComparison

\* If both collections are equal, the sources were never other than what was
\* read of them.
LEMMA EqualCollections ==
  ASSUME Inv, NEW r \in Threads, comparing[r] \in {"second", "store"}, later[r] = sigs[r]
  PROVE  snap[r] = sigs[r] /\ told[r] = [docs |-> sigs[r], view |-> view[r]]
<1>1. Progress(r) /\ Len(sigs[r]) = Len(want[r]) /\ Len(snap[r]) = Len(want[r])
  BY DEF Inv, ComparisonOK, Progress
<1>2. \A i \in DOMAIN sigs[r] : Seen(r, i)
  BY DEF Inv, ComparisonOK, Unchanged
<1>3. snap[r] = sigs[r]
  <2>1. \A i \in 1 .. Len(sigs[r]) : snap[r][i] = sigs[r][i]
    BY <1>2, Lists DEF Seen
  <2>2. snap[r] \in Seq(Nat \cup {Absent}) /\ sigs[r] \in Seq(Nat \cup {Absent})
    BY Lists
  <2> QED
    BY <1>1, <2>1, <2>2, SeqEqual
<1>4. New(r) => got[r] = sigs[r]
  <2> SUFFICES ASSUME New(r) PROVE got[r] = sigs[r]
    OBVIOUS
  <2>1. Len(got[r]) = Len(sigs[r])
    BY <1>1 DEF Progress
  <2>2. \A i \in 1 .. Len(sigs[r]) : got[r][i] = sigs[r][i]
    BY <1>2, <2>1, Lists DEF Seen
  <2>3. got[r] \in Seq(Nat) /\ sigs[r] \in Seq(Nat)
    BY Lists
  <2> QED
    BY <2>1, <2>2, <2>3, SeqEqual
<1> QED
  BY <1>1, <1>3, <1>4 DEF Progress

\* A comparison that is over leaves no list behind.
LEMMA Left ==
  ASSUME Inv, NEW r \in Threads, Leave(r)
  PROVE  /\ comparing'[r] = "idle"
         /\ comparing' \in [Threads -> {"idle"} \cup CompareSteps] /\ want' \in [Threads -> Seq(Compared)]
         /\ sigs' \in [Threads -> Versions] /\ got' \in [Threads -> Versions]
         /\ later' \in [Threads -> Versions]
         /\ Progress(r)' /\ sigs'[r] = <<>>
         /\ \A q \in Threads \ {r} : /\ comparing'[q] = comparing[q] /\ want'[q] = want[q]
                                     /\ sigs'[q] = sigs[q] /\ got'[q] = got[q]
                                     /\ later'[q] = later[q]
<1>1. /\ comparing' = [comparing EXCEPT ![r] = "idle"] /\ want' = [want EXCEPT ![r] = <<>>]
      /\ sigs' = [sigs EXCEPT ![r] = <<>>] /\ got' = [got EXCEPT ![r] = <<>>]
      /\ later' = [later EXCEPT ![r] = <<>>]
  BY DEF Leave
<1>2. /\ comparing'[r] = "idle" /\ later'[r] = <<>> /\ sigs'[r] = <<>>
      /\ comparing' \in [Threads -> {"idle"} \cup CompareSteps] /\ want' \in [Threads -> Seq(Compared)]
      /\ sigs' \in [Threads -> Versions] /\ got' \in [Threads -> Versions]
      /\ later' \in [Threads -> Versions]
  BY <1>1 DEF Inv, CompareTypeOK, Versions, CompareSteps
<1>3. Progress(r)'
  BY <1>2 DEF Progress
<1> QED
  BY <1>1, <1>2, <1>3 DEF Inv, CompareTypeOK

LEMMA VerifyInv ==
  ASSUME Inv, NEW r \in Threads, Verify(r)
  PROVE  Inv'
<1>1. /\ comparing[r] = "second" /\ later[r] = sigs[r]
      /\ Leave(r) \/ Keep(r)
      /\ view' = view /\ told' = told /\ snap' = snap /\ memo' = memo
      /\ content' = content /\ asked' = asked /\ overtaken' = overtaken /\ received' = received
      /\ versions' = versions
  BY DEF Verify, sourceVars
<1>2. told[r] = [docs |-> snap[r], view |-> view[r]]
  BY <1>1, EqualCollections
<1>3. MemoHonest'
  BY <1>1 DEF Inv, MemoHonest
<1>4. CASE Leave(r)
  <2>1. CompareTypeOK'
    BY <1>1, <1>4, Left DEF Inv, CompareTypeOK
  <2>2. ComparisonOK(r)'
    BY <1>1, <1>2, <1>4, Left DEF ComparisonOK
  <2>3. \A q \in Threads \ {r} : Same(q)
    BY <1>1, <1>4, Left DEF Same
  <2>4. \A i \in DOMAIN sigs'[r] : sigs'[r][i] <= versions
    BY <1>4, Left
  <2> QED
    BY <1>1, <1>3, <2>1, <2>2, <2>3, <2>4, NoRequest, Numbers, OneComparison
<1>5. CASE Keep(r)
  <2>1. /\ comparing' = [comparing EXCEPT ![r] = "store"] /\ New(r)
        /\ want' = want /\ sigs' = sigs /\ got' = got /\ later' = later
    BY <1>5 DEF Keep
  <2>2. CompareTypeOK' /\ comparing'[r] = "store"
    BY <1>1, <2>1 DEF Inv, CompareTypeOK, CompareSteps
  <2>3. ComparisonOK(r)'
    <3>1. Progress(r)'
      BY <1>1, <2>1, <2>2 DEF Inv, ComparisonOK, Progress, New
    <3>2. ASSUME NEW i \in DOMAIN sigs'[r], Unchanged(r, i)' PROVE Seen(r, i)'
      <4>1. Seen(r, i)
        BY <1>1, <2>1, <3>2 DEF Inv, ComparisonOK, Unchanged
      <4> QED
        BY <1>1, <2>1, <2>2, <4>1 DEF Seen
    <3> QED
      BY <2>2, <3>1, <3>2 DEF ComparisonOK
  <2>4. \A q \in Threads \ {r} : Same(q)
    BY <1>1, <2>1 DEF Same, Inv, CompareTypeOK
  <2> QED
    BY <1>1, <1>3, <2>1, <2>2, <2>3, <2>4, NoRequest, Numbers, OneComparison
<1> QED
  BY <1>1, <1>4, <1>5

\* What goes into the cache is of the versions in its key.
LEMMA StoreInv ==
  ASSUME Inv, NEW r \in Threads, StoreResult(r)
  PROVE  Inv'
<1>1. /\ comparing[r] = "store" /\ Leave(r)
      /\ view' = view /\ told' = told /\ snap' = snap
      /\ content' = content /\ asked' = asked /\ overtaken' = overtaken /\ received' = received
      /\ versions' = versions
  BY DEF StoreResult, sourceVars
<1>2. PICK others \in Others(r) : \E first \in 1 .. Len(others) + 1 :
          memo' = SubSeq(Append(others, Stored(r)), first, Len(others) + 1)
  BY DEF StoreResult
<1>3. PICK first \in 1 .. Len(others) + 1 :
          memo' = SubSeq(Append(others, Stored(r)), first, Len(others) + 1)
  BY <1>2
<1>4. later[r] = sigs[r]
  BY <1>1 DEF Inv, ComparisonOK, Progress
<1>5. snap[r] = sigs[r] /\ told[r] = [docs |-> sigs[r], view |-> view[r]]
  BY <1>1, <1>4, EqualCollections
<1>6. Honest(others)
  <2>1. CASE Remembered(r) = {}
    BY <1>2, <2>1, CacheHonest DEF Others
  <2>2. CASE Remembered(r) # {}
    <3>1. PICK m \in Remembered(r) : others = RemoveAt(memo, m)
      BY <1>2, <2>2 DEF Others
    <3> QED
      BY <3>1, CacheHonest, RemovedHonest DEF Remembered
  <2> QED
    BY <2>1, <2>2
<1>7. /\ Stored(r) \in Entries
      /\ Stored(r).result = [docs |-> Stored(r).key.sigs, view |-> Stored(r).key.view]
  <2>1. KeyOf(r) \in Key /\ told[r] \in Result
    BY <1>5 DEF KeyOf, Key, Result, Inv, CompareTypeOK
  <2> QED
    BY <1>5, <2>1 DEF Stored, Entries, KeyOf
<1>8. Honest(memo')
  <2>1. Honest(Append(others, Stored(r)))
    BY <1>6, <1>7, AppendHonest
  <2>2. Len(others) \in Nat /\ Len(Append(others, Stored(r))) = Len(others) + 1
    BY <1>6, <1>7, Appended DEF Honest
  <2>3. /\ first \in Nat \ {0} /\ Len(others) + 1 \in Int
        /\ Len(others) + 1 <= Len(Append(others, Stored(r)))
    BY <2>2
  <2> QED
    BY <1>3, <2>1, <2>3, PartHonest
<1>9. CompareTypeOK' /\ MemoHonest'
  BY <1>1, <1>8, Left DEF Inv, CompareTypeOK, MemoHonest, Honest, Entries
<1>10. ComparisonOK(r)'
  BY <1>1, <1>5, Left DEF ComparisonOK
<1>11. \A q \in Threads \ {r} : Same(q)
  BY <1>1, Left DEF Same
<1>12. \A i \in DOMAIN sigs'[r] : sigs'[r][i] <= versions
  BY <1>1, Left
<1> QED
  BY <1>1, <1>9, <1>10, <1>11, <1>12, NoRequest, Numbers, OneComparison

\* A comparison that fails has no result.
LEMMA FailInv ==
  ASSUME Inv, WorkbenchConstants, NEW r \in Threads, FailComparison(r)
  PROVE  Inv'
<1>1. /\ ComparisonFails(r) /\ Leave(r)
      /\ view' = [view EXCEPT ![r] = All] /\ told' = [told EXCEPT ![r] = Absent]
      /\ snap' = [snap EXCEPT ![r] = <<>>] /\ memo' = memo
      /\ content' = content /\ asked' = asked /\ overtaken' = overtaken /\ received' = received
      /\ versions' = versions
  BY DEF FailComparison, sourceVars
<1>2. CompareTypeOK' /\ MemoHonest'
  BY <1>1, Left DEF Inv, CompareTypeOK, MemoHonest, WorkbenchConstants
<1>3. told'[r] = Absent
  BY <1>1 DEF Inv, CompareTypeOK
<1>4. ComparisonOK(r)'
  BY <1>1, <1>3, Left DEF ComparisonOK
<1>5. \A q \in Threads \ {r} : Same(q)
  BY <1>1, Left DEF Same, Inv, CompareTypeOK
<1>6. comparing[r] # "asked" \/ Index!Idle(r)
  BY <1>1 DEF ComparisonFails
<1>7. \A i \in DOMAIN sigs'[r] : sigs'[r][i] <= versions
  BY <1>1, Left
<1> QED
  BY <1>1, <1>2, <1>4, <1>5, <1>6, <1>7, NoRequest, Numbers, OneComparison

LEMMA RebuildInv ==
  ASSUME Inv, Rebuild
  PROVE  Inv'
<1>1. /\ memo' = <<>> /\ content' = content /\ asked' = asked /\ overtaken' = overtaken
      /\ received' = received /\ versions' = versions /\ comparing' = comparing /\ want' = want
      /\ view' = view /\ sigs' = sigs /\ got' = got /\ later' = later
      /\ told' = told /\ snap' = snap
  BY DEF Rebuild, sourceVars
<1>2. CompareTypeOK' /\ MemoHonest' /\ Numbered'
  BY <1>1 DEF Inv, CompareTypeOK, MemoHonest, Numbered
<1>3. \A r \in Threads : ComparisonOK(r)'
  BY <1>1, Frame DEF Inv, Same
<1>4. \A r \in Threads, s \in Compared : <<r, s>> \in asked' => Requested(r, s)'
  BY <1>1 DEF Inv, Requested, Due
<1> QED
  BY <1>2, <1>3, <1>4 DEF Inv

-----------------------------------------------------------------------------
\* The invariant is inductive.
LEMMA NextInv ==
  ASSUME Inv, WorkbenchConstants, [CompareNext]_workbenchVars
  PROVE  Inv'
<1>1. ASSUME NEW s \in Compared, Rewrite(s) PROVE Inv'
  <2>1. /\ content' = [content EXCEPT ![s] = versions + 1] /\ versions' = versions + 1
        /\ versions < MaxVersions /\ Index!Change(s) /\ UNCHANGED compareVars
    BY <1>1 DEF Rewrite
  <2> QED
    BY <2>1, ChangeInv
<1>2. ASSUME NEW s \in Compared, Delete(s) PROVE Inv'
  <2>1. /\ content' = [content EXCEPT ![s] = Absent] /\ versions' = versions
        /\ Index!Change(s) /\ UNCHANGED compareVars
    BY <1>2 DEF Delete
  <2> QED
    BY <2>1, ChangeInv
<1>3. ASSUME NEW r \in Threads, CompareStep(r) PROVE Inv'
  <2>1. CASE CollectFirst(r)
    BY <2>1, CollectFirstInv
  <2>2. CASE Recall(r)
    BY <2>2, RecallInv
  <2>3. CASE Forgotten(r)
    BY <2>3, ForgottenInv
  <2>4. CASE AskNext(r)
    BY <2>4, AskNextInv
  <2>5. CASE Receive(r)
    BY <2>5, ReceiveInv
  <2>6. CASE Analyze(r)
    BY <2>6, AnalyzeInv
  <2>7. CASE CollectSecond(r)
    BY <2>7, CollectSecondInv
  <2>8. CASE Verify(r)
    BY <2>8, VerifyInv
  <2>9. CASE StoreResult(r)
    BY <2>9, StoreInv
  <2>10. CASE FailComparison(r)
    BY <2>10, FailInv
  <2> QED
    BY <1>3, <2>1, <2>2, <2>3, <2>4, <2>5, <2>6, <2>7, <2>8, <2>9, <2>10 DEF CompareStep
<1>4. CASE UNCHANGED workbenchVars
  <2>1. /\ memo' = memo /\ content' = content /\ asked' = asked /\ overtaken' = overtaken
        /\ received' = received /\ versions' = versions /\ comparing' = comparing /\ want' = want
        /\ view' = view /\ sigs' = sigs /\ got' = got /\ later' = later
        /\ told' = told /\ snap' = snap
    BY <1>4 DEF workbenchVars
  <2>2. CompareTypeOK' /\ MemoHonest' /\ Numbered'
    BY <2>1 DEF Inv, CompareTypeOK, MemoHonest, Numbered
  <2>3. \A r \in Threads : ComparisonOK(r)'
    BY <2>1, Frame DEF Inv, Same
  <2>4. \A r \in Threads, s \in Compared : <<r, s>> \in asked' => Requested(r, s)'
    BY <2>1 DEF Inv, Requested, Due
  <2> QED
    BY <2>2, <2>3, <2>4 DEF Inv
<1> QED
  BY <1>1, <1>2, <1>3, <1>4, CompareInv, IndexStepInv, RebuildInv DEF CompareNext

\* The variables of the comparisons keep to their types.
THEOREM CompareTypeCorrect == ASSUME WorkbenchConstants PROVE CompareSpec => []CompareTypeOK
<1>1. Inv => CompareTypeOK
  BY DEF Inv
<1> QED
  BY <1>1, InitInv, NextInv, PTL DEF CompareSpec

\* Results in the cache are of the versions of their key, whichever thread put
\* them there and whatever was evicted.
THEOREM CacheIsHonest == ASSUME WorkbenchConstants PROVE CompareSpec => []MemoHonest
<1>1. Inv => MemoHonest
  BY DEF Inv
<1> QED
  BY <1>1, InitInv, NextInv, PTL DEF CompareSpec

\* Whatever is written between its reads, and wherever it comes from, the result
\* of a comparison is of all its sources as they were together.
THEOREM ComparisonsAreSnapshots ==
  ASSUME WorkbenchConstants PROVE CompareSpec => []AnswersAreSnapshots
<1>1. Inv => AnswersAreSnapshots
  BY DEF Inv, ComparisonOK, AnswersAreSnapshots
<1> QED
  BY <1>1, InitInv, NextInv, PTL DEF CompareSpec

=============================================================================
