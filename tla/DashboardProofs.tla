--------------------------- MODULE DashboardProofs ---------------------------
(***************************************************************************)
(* Proofs about three services of the Dashboard, which share no state:     *)
(* entries of the derived index are honest and its answers are what a      *)
(* source held (SourceIndex), no edit of a configuration is lost and a     *)
(* copy has a complete origin (Edits), and no note is lost (Annotations).  *)
(***************************************************************************)
EXTENDS SourceIndex, Edits, Annotations, TLAPS

(***************************************************************************)
(* The derived index, as long as every source holds one kind of file.      *)
(* Versions are numbered by the writes, so that an identity once gone does *)
(* not come back: what was parsed under an identity that is still there is *)
(* the content of that identity.                                           *)
(***************************************************************************)

\* Where a pass has taken an identity.
Begun == Steps \ {"path", "before"}

Files ==
    \A s \in Sources, k \in Kinds :
        /\ files[s][k] <= writes
        /\ files[s][k] # 0 => <<s, k>> \in Written

\* Entries hold the content of their identity, which some parser accepted.
Entries ==
    \A s \in Sources, k \in Kinds :
        cache[s][k] # Nil =>
            /\ cache[s][k].doc = Content(k, cache[s][k].sig)
            /\ cache[s][k].sig \notin Unparsable

\* What a request knows.
Started(r) ==
    /\ pc[r] # "idle" => src[r] \in Sources
    /\ pc[r] = "idle" => ~moved[r]
    /\ pc[r] \in {"idle", "path"} => pass[r] = 0
    /\ pc[r] = "before" => pass[r] \in 0 .. 1
    /\ pc[r] \notin {"idle", "path"} => kind[r] \in Kinds
    /\ pc[r] \in Begun => sig[r] \in 1 .. writes /\ <<src[r], kind[r]>> \in Written

\* A document that differs from the identity was read when it was gone.
Parsed(r) ==
    /\ pc[r] \in {"open", "reading", "loaded"} => doc[r] \in Doc
    /\ pc[r] \in {"reading", "loaded"} =>
        /\ doc[r].kind = kind[r]
        /\ doc[r].from # sig[r] => Identity(r) # sig[r]
    /\ pc[r] = "loaded" =>
        /\ Parses(doc[r])
        /\ doc[r].to # sig[r] => Identity(r) # sig[r]
    /\ pc[r] \in {"hit", "save", "after"} =>
        /\ doc[r] = Content(kind[r], sig[r])
        /\ sig[r] \notin Unparsable

\* If the source was not written, what the request knows of it is still so.
Unmoved(r) ==
    ~moved[r] =>
        /\ pc[r] \notin {"idle", "path"} => kind[r] = Chosen(src[r])
        /\ pc[r] \in Begun => Identity(r) = sig[r]
        /\ pc[r] \in {"open", "reading", "loaded"} => doc[r].kind = Chosen(src[r])
        /\ pc[r] = "reading" => doc[r].from = Opened(r)

ReaderOK(r) == Started(r) /\ Parsed(r) /\ Unmoved(r)

IndexInv == IndexTypeOK /\ Files /\ Entries /\ \A r \in Readers : ReaderOK(r)

-----------------------------------------------------------------------------
\* The invariant holds before any request.
THEOREM IndexInitInv == IndexInit => IndexInv
<1> SUFFICES ASSUME IndexInit PROVE IndexInv
  OBVIOUS
<1>1. IndexTypeOK
  BY DEF IndexInit, IndexTypeOK, Doc, Entry, Kinds
<1>2. Files /\ Entries
  BY DEF IndexInit, Files, Entries
<1>3. ASSUME NEW r \in Readers PROVE ReaderOK(r)
  BY <1>3 DEF IndexInit, ReaderOK, Started, Parsed, Unmoved, Begun, Steps
<1> QED
  BY <1>1, <1>2, <1>3 DEF IndexInv

\* A step of one request leaves the others as they are.
Apart(r) ==
    \A q \in Readers \ {r} :
        /\ pc'[q] = pc[q] /\ src'[q] = src[q] /\ kind'[q] = kind[q]
        /\ pass'[q] = pass[q] /\ sig'[q] = sig[q] /\ doc'[q] = doc[q]
        /\ moved'[q] = moved[q]

\* What the other requests know is untouched by a step that leaves the files alone.
LEMMA OthersKeep ==
  ASSUME IndexInv, NEW r \in Readers, UNCHANGED disk, Apart(r)
  PROVE  \A q \in Readers \ {r} : ReaderOK(q)'
<1> SUFFICES ASSUME NEW q \in Readers \ {r} PROVE ReaderOK(q)'
  OBVIOUS
<1> USE DEF IndexInv, ReaderOK, Apart, disk
<1>1. Started(q)'
  BY DEF Started
<1>2. Parsed(q)'
  BY DEF Parsed, Identity
<1>3. Unmoved(q)'
  BY DEF Unmoved, Identity, Chosen, Opened
<1> QED
  BY <1>1, <1>2, <1>3

\* What is left to show of a step of r: the types, the entries and what r knows.
LEMMA Assemble ==
  ASSUME IndexInv, NEW r \in Readers, UNCHANGED disk, Apart(r),
         IndexTypeOK', Entries', ReaderOK(r)'
  PROVE  IndexInv'
<1>1. Files'
  BY DEF IndexInv, Files, disk
<1>2. \A q \in Readers : ReaderOK(q)'
  BY OthersKeep
<1> QED
  BY <1>1, <1>2 DEF IndexInv

-----------------------------------------------------------------------------
(* The steps of a request.                                                 *)

\* A request begins.
LEMMA RequestInv ==
  ASSUME IndexInv, OneKind, NEW r \in Readers, NEW s \in Sources, NEW f \in BOOLEAN, Request(r, s, f)
  PROVE  IndexInv'
<1> USE DEF Request, Goto
<1>1. UNCHANGED disk /\ Apart(r)
  BY DEF Apart, locals, IndexInv, IndexTypeOK
<1>2. IndexTypeOK'
  BY DEF IndexInv, IndexTypeOK, disk, locals, Steps
<1>3. Entries'
  BY DEF IndexInv, Entries
<1>4. Started(r)'
  BY DEF IndexInv, ReaderOK, Started, IndexTypeOK, disk, locals, Begun, Steps
<1>5. Parsed(r)'
  BY DEF IndexInv, ReaderOK, Started, Parsed, IndexTypeOK, disk, locals, Identity, Begun, Steps
<1>6. Unmoved(r)'
  BY DEF IndexInv, ReaderOK, Started, Parsed, Unmoved, IndexTypeOK, disk, locals, Identity, Chosen, Opened, Begun, Steps
<1> QED
  BY <1>1, <1>2, <1>3, <1>4, <1>5, <1>6, Assemble DEF ReaderOK

\* _source_path chooses the file that is there.
LEMMA ChoosePathInv ==
  ASSUME IndexInv, OneKind, NEW r \in Readers, ChoosePath(r)
  PROVE  IndexInv'
<1> USE DEF ChoosePath, Goto, Chosen, Kinds
<1>1. UNCHANGED disk /\ Apart(r)
  BY DEF Apart, locals, IndexInv, IndexTypeOK
<1>2. IndexTypeOK'
  BY DEF IndexInv, IndexTypeOK, disk, locals, Steps
<1>3. Entries'
  BY DEF IndexInv, Entries
<1>4. Started(r)'
  <2>1. kind'[r] \in Kinds
    BY DEF IndexInv, IndexTypeOK, Chosen, Kinds
  <2>2. pass'[r] \in 0 .. 1
    <3>1. pass[r] = 0 /\ pass' = pass
      BY DEF IndexInv, ReaderOK, Started
    <3> QED
      BY <3>1
  <2>3. src'[r] \in Sources /\ pc'[r] = "before"
    BY DEF IndexInv, ReaderOK, Started, IndexTypeOK
  <2> QED
    BY <2>1, <2>2, <2>3 DEF Started, Begun
<1>5. Parsed(r)'
  BY DEF IndexInv, ReaderOK, Started, Parsed, IndexTypeOK, disk, locals, Identity, Begun, Steps
<1>6. Unmoved(r)'
  BY DEF IndexInv, ReaderOK, Started, Parsed, Unmoved, IndexTypeOK, disk, locals, Identity, Chosen, Opened, Begun, Steps
<1> QED
  BY <1>1, <1>2, <1>3, <1>4, <1>5, <1>6, Assemble DEF ReaderOK

\* The identity taken is one of the versions, of a file that is written.
LEMMA TakeIdentityInv ==
  ASSUME IndexInv, OneKind, NEW r \in Readers, TakeIdentity(r)
  PROVE  IndexInv'
<1> USE DEF TakeIdentity, Goto, Identity, Missing, Files
<1>1. UNCHANGED disk /\ Apart(r)
  BY DEF Apart, locals, IndexInv, IndexTypeOK
<1>2. IndexTypeOK'
  <2>1. src[r] \in Sources /\ kind[r] \in Kinds
    BY DEF IndexInv, ReaderOK, Started

  <2>2. pass[r] \in 0 .. 1
    BY DEF IndexInv, ReaderOK, Started
  <2>3. files[src[r]][kind[r]] \in Nat
    BY <2>1 DEF IndexInv, IndexTypeOK
  <2>4. pass' \in [Readers -> 0 .. 2]
    BY <2>2 DEF IndexInv, IndexTypeOK
  <2>5. pc' \in [Readers -> {"idle"} \cup Steps] /\ sig' \in [Readers -> Nat]
    BY <2>3 DEF IndexInv, IndexTypeOK, Steps
  <2> QED
    BY <2>4, <2>5 DEF IndexInv, IndexTypeOK, disk
<1>3. Entries'
  BY DEF IndexInv, Entries
<1>4. Started(r)'
  <2>1. src[r] \in Sources /\ kind[r] \in Kinds
    BY DEF IndexInv, ReaderOK, Started

  <2>2. /\ files[src[r]][kind[r]] \in 1 .. writes
        /\ <<src[r], kind[r]>> \in Written
    BY <2>1 DEF IndexInv, IndexTypeOK
  <2>3. sig'[r] \in 1 .. writes'
    BY <2>2 DEF IndexInv, IndexTypeOK, disk
  <2>4. /\ pc'[r] \in {"load", "lookup"}
        /\ src'[r] = src[r] /\ kind'[r] = kind[r]
    BY DEF IndexInv, IndexTypeOK
  <2> QED
    BY <2>1, <2>2, <2>3, <2>4 DEF Started, Begun, Steps
<1>5. Parsed(r)'
  BY DEF IndexInv, ReaderOK, Started, Parsed, IndexTypeOK, disk, locals, Identity, Begun, Steps
<1>6. Unmoved(r)'
  BY DEF IndexInv, ReaderOK, Started, Parsed, Unmoved, IndexTypeOK, disk, locals, Identity, Chosen, Opened, Begun, Steps
<1> QED
  BY <1>1, <1>2, <1>3, <1>4, <1>5, <1>6, Assemble DEF ReaderOK

\* An entry with this identity holds its content.
LEMMA LookupHitsInv ==
  ASSUME IndexInv, OneKind, NEW r \in Readers, LookupHits(r)
  PROVE  IndexInv'
<1> USE DEF LookupHits, Goto, EntryFor, Entries, Entry, Doc, Content
<1>1. UNCHANGED disk /\ Apart(r)
  BY DEF Apart, locals, IndexInv, IndexTypeOK
<1>2. IndexTypeOK'
  <2>1. src[r] \in Sources /\ kind[r] \in Kinds
    BY DEF IndexInv, ReaderOK, Started
  <2>2. cache[src[r]][kind[r]] \in Entry
    BY <2>1 DEF IndexInv, IndexTypeOK
  <2>3. cache[src[r]][kind[r]].doc \in Doc
    BY <2>2 DEF Entry
  <2>4. doc' \in [Readers -> Doc \cup {Nil}]
    BY <2>3 DEF IndexInv, IndexTypeOK
  <2>5. pc' \in [Readers -> {"idle"} \cup Steps]
    BY DEF IndexInv, IndexTypeOK, Steps
  <2> QED
    BY <2>4, <2>5 DEF IndexInv, IndexTypeOK, disk
<1>3. Entries'
  BY DEF IndexInv, Entries
<1>4. Started(r)'
  BY DEF IndexInv, ReaderOK, Started, IndexTypeOK, disk, locals, Begun, Steps
<1>5. Parsed(r)'
  <2>1. src[r] \in Sources /\ kind[r] \in Kinds
    BY DEF IndexInv, ReaderOK, Started
  <2>2. /\ cache[src[r]][kind[r]].doc = Content(kind[r], sig[r])
        /\ sig[r] \notin Unparsable
    BY <2>1 DEF IndexInv
  <2>3. /\ doc'[r] = Content(kind[r], sig[r]) /\ pc'[r] = "hit"
        /\ kind'[r] = kind[r] /\ sig'[r] = sig[r]
    BY <2>2 DEF IndexInv, IndexTypeOK
  <2> QED
    BY <2>2, <2>3 DEF Parsed
<1>6. Unmoved(r)'
  BY DEF IndexInv, ReaderOK, Started, Parsed, Unmoved, IndexTypeOK, disk, locals, Identity, Chosen, Opened, Begun, Steps
<1> QED
  BY <1>1, <1>2, <1>3, <1>4, <1>5, <1>6, Assemble DEF ReaderOK

\* Without an entry, the source is loaded.
LEMMA LookupMissesInv ==
  ASSUME IndexInv, OneKind, NEW r \in Readers, LookupMisses(r)
  PROVE  IndexInv'
<1> USE DEF LookupMisses, Goto, locals
<1>1. UNCHANGED disk /\ Apart(r)
  BY DEF Apart, locals, IndexInv, IndexTypeOK
<1>2. IndexTypeOK'
  BY DEF IndexInv, IndexTypeOK, disk, locals, Steps
<1>3. Entries'
  BY DEF IndexInv, Entries
<1>4. Started(r)'
  BY DEF IndexInv, ReaderOK, Started, IndexTypeOK, disk, locals, Begun, Steps
<1>5. Parsed(r)'
  BY DEF IndexInv, ReaderOK, Started, Parsed, IndexTypeOK, disk, locals, Identity, Begun, Steps
<1>6. Unmoved(r)'
  BY DEF IndexInv, ReaderOK, Started, Parsed, Unmoved, IndexTypeOK, disk, locals, Identity, Chosen, Opened, Begun, Steps
<1> QED
  BY <1>1, <1>2, <1>3, <1>4, <1>5, <1>6, Assemble DEF ReaderOK

\* A database error leaves the cache alone.
LEMMA LookupFailsInv ==
  ASSUME IndexInv, OneKind, NEW r \in Readers, LookupFails(r)
  PROVE  IndexInv'
<1> USE DEF LookupFails, Goto
<1>1. UNCHANGED disk /\ Apart(r)
  BY DEF Apart, locals, IndexInv, IndexTypeOK
<1>2. IndexTypeOK'
  BY DEF IndexInv, IndexTypeOK, disk, locals, Steps
<1>3. Entries'
  BY DEF IndexInv, Entries
<1>4. Started(r)'
  BY DEF IndexInv, ReaderOK, Started, IndexTypeOK, disk, locals, Begun, Steps
<1>5. Parsed(r)'
  BY DEF IndexInv, ReaderOK, Started, Parsed, IndexTypeOK, disk, locals, Identity, Begun, Steps
<1>6. Unmoved(r)'
  BY DEF IndexInv, ReaderOK, Started, Parsed, Unmoved, IndexTypeOK, disk, locals, Identity, Chosen, Opened, Begun, Steps
<1> QED
  BY <1>1, <1>2, <1>3, <1>4, <1>5, <1>6, Assemble DEF ReaderOK

\* _load chooses again; with one kind of file it can only choose the same.
LEMMA ChooseAgainInv ==
  ASSUME IndexInv, OneKind, NEW r \in Readers, ChooseAgain(r)
  PROVE  IndexInv'
<1> USE DEF ChooseAgain, Goto, Content, Doc, Chosen, Kinds
<1>1. UNCHANGED disk /\ Apart(r)
  BY DEF Apart, locals, IndexInv, IndexTypeOK
<1>2. IndexTypeOK'
  BY DEF IndexInv, IndexTypeOK, disk, locals, Steps
<1>3. Entries'
  BY DEF IndexInv, Entries
<1>4. Started(r)'
  BY DEF IndexInv, ReaderOK, Started, IndexTypeOK, disk, locals, Begun, Steps
<1>5. Parsed(r)'
  BY DEF IndexInv, ReaderOK, Started, Parsed, IndexTypeOK, disk, locals, Identity, Begun, Steps
<1>6. Unmoved(r)'
  BY DEF IndexInv, ReaderOK, Started, Parsed, Unmoved, IndexTypeOK, disk, locals, Identity, Chosen, Opened, Begun, Steps
<1> QED
  BY <1>1, <1>2, <1>3, <1>4, <1>5, <1>6, Assemble DEF ReaderOK

\* What is opened is the identity, or the identity is gone.
LEMMA OpenSourceInv ==
  ASSUME IndexInv, OneKind, NEW r \in Readers, OpenSource(r)
  PROVE  IndexInv'
<1> USE DEF OpenSource, Goto, Opened, Content, Doc, Files
<1>1. UNCHANGED disk /\ Apart(r)
  BY DEF Apart, locals, IndexInv, IndexTypeOK
<1>2. IndexTypeOK'
  <2>1. /\ src[r] \in Sources /\ kind[r] \in Kinds
        /\ <<src[r], kind[r]>> \in Written /\ doc[r] \in Doc
    BY DEF IndexInv, ReaderOK, Started, Parsed, Begun, Steps
  <2>2. doc[r].kind \in Kinds
    BY <2>1
  <2>3. Opened(r) \in Nat /\ <<src[r], doc[r].kind>> \in Written
    BY <2>1, <2>2 DEF IndexInv, IndexTypeOK
  <2>4. Content(doc[r].kind, Opened(r)) \in Doc
    BY <2>2, <2>3
  <2>5. doc' \in [Readers -> Doc \cup {Nil}]
    BY <2>4 DEF IndexInv, IndexTypeOK
  <2>6. pc' \in [Readers -> {"idle"} \cup Steps]
    BY DEF IndexInv, IndexTypeOK, Steps
  <2> QED
    BY <2>5, <2>6 DEF IndexInv, IndexTypeOK, disk
<1>3. Entries'
  BY DEF IndexInv, Entries
<1>4. Started(r)'
  BY DEF IndexInv, ReaderOK, Started, IndexTypeOK, disk, locals, Begun, Steps
<1>5. Parsed(r)'
  <2>1. /\ src[r] \in Sources /\ kind[r] \in Kinds
        /\ <<src[r], kind[r]>> \in Written /\ doc[r] \in Doc
    BY DEF IndexInv, ReaderOK, Started, Parsed, Begun, Steps
  <2>2. doc[r].kind \in Kinds
    BY <2>1
  <2>3. Opened(r) \in Nat /\ <<src[r], doc[r].kind>> \in Written
    BY <2>1, <2>2 DEF IndexInv, IndexTypeOK
  <2>4. doc[r].kind = kind[r]
    BY <2>1, <2>2, <2>3 DEF OneKind, Kinds
  <2>5. /\ pc'[r] = "reading" /\ doc'[r] = Content(kind[r], Opened(r))
        /\ kind'[r] = kind[r] /\ sig'[r] = sig[r] /\ Identity(r)' = Opened(r)
    BY <2>1, <2>4 DEF IndexInv, IndexTypeOK, Identity, disk
  <2>6. Content(kind[r], Opened(r)) \in Doc
    BY <2>1, <2>3
  <2> QED
    BY <2>5, <2>6 DEF Parsed
<1>6. Unmoved(r)'
  BY DEF IndexInv, ReaderOK, Started, Parsed, Unmoved, IndexTypeOK, disk, locals, Identity, Chosen, Opened, Begun, Steps
<1> QED
  BY <1>1, <1>2, <1>3, <1>4, <1>5, <1>6, Assemble DEF ReaderOK

\* The last read saw the identity, or the identity is gone.
LEMMA ReadSourceInv ==
  ASSUME IndexInv, OneKind, NEW r \in Readers, ReadSource(r)
  PROVE  IndexInv'
<1> USE DEF ReadSource, Goto, Opened, Doc
<1>1. UNCHANGED disk /\ Apart(r)
  BY DEF Apart, locals, IndexInv, IndexTypeOK
<1>2. IndexTypeOK'
  <2>1. /\ src[r] \in Sources /\ doc[r] \in Doc /\ doc[r].kind \in Kinds
        /\ doc[r].from \in Nat
    BY DEF IndexInv, ReaderOK, Started, Parsed
  <2>2. Opened(r) \in Nat
    BY <2>1 DEF IndexInv, IndexTypeOK
  <2> DEFINE d(v) == [kind |-> doc[r].kind, from |-> doc[r].from, to |-> v]
  <2>3. PICK v \in {doc[r].from, Opened(r)} \ {0} :
            Parses(d(v)) /\ doc' = [doc EXCEPT ![r] = d(v)]
    OBVIOUS
  <2>4. d(v) \in Doc
    BY <2>1, <2>2, <2>3
  <2>5. doc' \in [Readers -> Doc \cup {Nil}]
    BY <2>3, <2>4 DEF IndexInv, IndexTypeOK
  <2>6. pc' \in [Readers -> {"idle"} \cup Steps]
    BY DEF IndexInv, IndexTypeOK, Steps
  <2> QED
    BY <2>5, <2>6 DEF IndexInv, IndexTypeOK, disk
<1>3. Entries'
  BY DEF IndexInv, Entries
<1>4. Started(r)'
  BY DEF IndexInv, ReaderOK, Started, IndexTypeOK, disk, locals, Begun, Steps
<1>5. Parsed(r)'
  <2>1. /\ src[r] \in Sources /\ doc[r] \in Doc /\ doc[r].kind \in Kinds
        /\ doc[r].from \in Nat
    BY DEF IndexInv, ReaderOK, Started, Parsed
  <2>2. Opened(r) \in Nat
    BY <2>1 DEF IndexInv, IndexTypeOK
  <2> DEFINE d(v) == [kind |-> doc[r].kind, from |-> doc[r].from, to |-> v]
  <2>3. PICK v \in {doc[r].from, Opened(r)} \ {0} :
            Parses(d(v)) /\ doc' = [doc EXCEPT ![r] = d(v)]
    OBVIOUS
  <2>4. d(v) \in Doc
    BY <2>1, <2>2, <2>3
  <2>5. /\ doc[r].kind = kind[r]
        /\ doc[r].from # sig[r] => Identity(r) # sig[r]
    BY DEF IndexInv, ReaderOK, Parsed
  <2>6. /\ pc'[r] = "loaded" /\ doc'[r] = d(v)
        /\ kind'[r] = kind[r] /\ sig'[r] = sig[r]
    BY <2>3 DEF IndexInv, IndexTypeOK
  <2>7. Identity(r)' = Identity(r) /\ Opened(r) = Identity(r)
    BY <2>5 DEF Identity, disk
  <2>8. v # sig[r] => Identity(r) # sig[r]
    BY <2>3, <2>5, <2>7
  <2>9. /\ d(v).kind = doc[r].kind /\ d(v).from = doc[r].from /\ d(v).to = v
    OBVIOUS
  <2> HIDE DEF d
  <2> QED
    BY <2>3, <2>4, <2>5, <2>6, <2>7, <2>8, <2>9 DEF Parsed
<1>6. Unmoved(r)'
  <2>1. /\ src[r] \in Sources /\ doc[r] \in Doc /\ doc[r].kind \in Kinds
        /\ doc[r].from \in Nat
    BY DEF IndexInv, ReaderOK, Started, Parsed
  <2>2. Opened(r) \in Nat
    BY <2>1 DEF IndexInv, IndexTypeOK
  <2> DEFINE d(v) == [kind |-> doc[r].kind, from |-> doc[r].from, to |-> v]
  <2>3. PICK v \in {doc[r].from, Opened(r)} \ {0} :
            Parses(d(v)) /\ doc' = [doc EXCEPT ![r] = d(v)]
    OBVIOUS
  <2>4. d(v) \in Doc
    BY <2>1, <2>2, <2>3
  <2>5. /\ pc'[r] = "loaded" /\ doc'[r].kind = doc[r].kind
        /\ kind'[r] = kind[r] /\ sig'[r] = sig[r] /\ src'[r] = src[r]
        /\ moved'[r] = moved[r] /\ pc[r] = "reading"
    BY <2>3 DEF IndexInv, IndexTypeOK
  <2>6. Identity(r)' = Identity(r) /\ Chosen(src[r])' = Chosen(src[r])
    BY <2>5 DEF Identity, Chosen, disk
  <2>7. Unmoved(r)
    BY DEF IndexInv, ReaderOK
  <2> QED
    BY <2>5, <2>6, <2>7 DEF Unmoved, Begun, Steps
<1> QED
  BY <1>1, <1>2, <1>3, <1>4, <1>5, <1>6, Assemble DEF ReaderOK

\* The identity is still there, so both reads saw it: the document is its content.
LEMMA AcceptInv ==
  ASSUME IndexInv, OneKind, NEW r \in Readers, Accept(r)
  PROVE  IndexInv'
<1> USE DEF Accept, Goto, locals
<1>1. UNCHANGED disk /\ Apart(r)
  BY DEF Apart, locals, IndexInv, IndexTypeOK
<1>2. IndexTypeOK'
  BY DEF IndexInv, IndexTypeOK, disk, locals, Steps
<1>3. Entries'
  BY DEF IndexInv, Entries
<1>4. Started(r)'
  BY DEF IndexInv, ReaderOK, Started, IndexTypeOK, disk, locals, Begun, Steps
<1>5. Parsed(r)'
  <2>1. /\ doc[r] \in Doc /\ doc[r].kind = kind[r]
        /\ doc[r].from = sig[r] /\ doc[r].to = sig[r] /\ Parses(doc[r])
    BY DEF IndexInv, ReaderOK, Parsed
  <2>2. doc[r] = Content(kind[r], sig[r])
    BY <2>1 DEF Doc, Content
  <2>3. sig[r] \notin Unparsable
    BY <2>1 DEF Parses, Whole
  <2>4. /\ pc'[r] \in {"save", "after"}
        /\ doc'[r] = doc[r] /\ kind'[r] = kind[r] /\ sig'[r] = sig[r]
    BY DEF IndexInv, IndexTypeOK
  <2> QED
    BY <2>2, <2>3, <2>4 DEF Parsed
<1>6. Unmoved(r)'
  BY DEF IndexInv, ReaderOK, Started, Parsed, Unmoved, IndexTypeOK, disk, locals, Identity, Chosen, Opened, Begun, Steps
<1> QED
  BY <1>1, <1>2, <1>3, <1>4, <1>5, <1>6, Assemble DEF ReaderOK

\* What is stored is the content of its identity.
LEMMA StoreInv ==
  ASSUME IndexInv, OneKind, NEW r \in Readers, Store(r)
  PROVE  IndexInv'
<1> USE DEF Store, Goto, locals, Entry
<1>1. UNCHANGED disk /\ Apart(r)
  BY DEF Apart, locals, IndexInv, IndexTypeOK
<1>2. IndexTypeOK'
  <2>1. /\ src[r] \in Sources /\ kind[r] \in Kinds /\ sig[r] \in Nat
        /\ doc[r] = Content(kind[r], sig[r]) /\ sig[r] \notin Unparsable
    BY DEF IndexInv, IndexTypeOK, ReaderOK, Started, Parsed
  <2> DEFINE e == [sig |-> sig[r], doc |-> doc[r]]
  <2>2. doc[r] \in Doc
    BY <2>1 DEF Content, Doc
  <2>3. e \in Entry
    BY <2>1, <2>2
  <2>4. cache' \in [Sources -> [Kinds -> {Nil} \cup Entry]]
    <3> HIDE DEF e
    <3>1. cache' = [cache EXCEPT ![src[r]] = [@ EXCEPT ![kind[r]] = e]]
      BY DEF e
    <3>2. cache \in [Sources -> [Kinds -> {Nil} \cup Entry]]
      BY DEF IndexInv, IndexTypeOK
    <3> HIDE DEF Store, Entry
    <3> QED
      BY <2>1, <2>3, <3>1, <3>2
  <2>5. pc' \in [Readers -> {"idle"} \cup Steps]
    BY DEF IndexInv, IndexTypeOK, Steps
  <2> QED
    BY <2>4, <2>5 DEF IndexInv, IndexTypeOK, disk
<1>3. Entries'
  <2>1. /\ src[r] \in Sources /\ kind[r] \in Kinds /\ sig[r] \in Nat
        /\ doc[r] = Content(kind[r], sig[r]) /\ sig[r] \notin Unparsable
    BY DEF IndexInv, IndexTypeOK, ReaderOK, Started, Parsed
  <2> DEFINE e == [sig |-> sig[r], doc |-> doc[r]]
  <2>2. e.sig = sig[r] /\ e.doc = doc[r]
    OBVIOUS
  <2>3. cache' = [cache EXCEPT ![src[r]] = [@ EXCEPT ![kind[r]] = e]]
    OBVIOUS
  <2>4. cache \in [Sources -> [Kinds -> {Nil} \cup Entry]]
    BY DEF IndexInv, IndexTypeOK
  <2> HIDE DEF e, Store, Entry
  <2> SUFFICES ASSUME NEW s \in Sources, NEW k \in Kinds, cache'[s][k] # Nil
               PROVE  /\ cache'[s][k].doc = Content(k, cache'[s][k].sig)
                      /\ cache'[s][k].sig \notin Unparsable
    BY DEF Entries
  <2>5. CASE s = src[r] /\ k = kind[r]
    <3>1. cache'[s][k] = e
      BY <2>1, <2>3, <2>4, <2>5
    <3> QED
      BY <2>1, <2>2, <2>5, <3>1
  <2>6. CASE ~(s = src[r] /\ k = kind[r])
    <3>1. cache'[s][k] = cache[s][k]
      BY <2>1, <2>3, <2>4, <2>6
    <3> QED
      BY <3>1 DEF IndexInv, Entries
  <2> QED
    BY <2>5, <2>6
<1>4. Started(r)'
  BY DEF IndexInv, ReaderOK, Started, IndexTypeOK, disk, locals, Begun, Steps
<1>5. Parsed(r)'
  BY DEF IndexInv, ReaderOK, Started, Parsed, IndexTypeOK, disk, locals, Identity, Begun, Steps
<1>6. Unmoved(r)'
  BY DEF IndexInv, ReaderOK, Started, Parsed, Unmoved, IndexTypeOK, disk, locals, Identity, Chosen, Opened, Begun, Steps
<1> QED
  BY <1>1, <1>2, <1>3, <1>4, <1>5, <1>6, Assemble DEF ReaderOK

\* Nothing is stored.
LEMMA StoreFailsInv ==
  ASSUME IndexInv, OneKind, NEW r \in Readers, StoreFails(r)
  PROVE  IndexInv'
<1> USE DEF StoreFails, Goto, locals
<1>1. UNCHANGED disk /\ Apart(r)
  BY DEF Apart, locals, IndexInv, IndexTypeOK
<1>2. IndexTypeOK'
  BY DEF IndexInv, IndexTypeOK, disk, locals, Steps
<1>3. Entries'
  BY DEF IndexInv, Entries
<1>4. Started(r)'
  BY DEF IndexInv, ReaderOK, Started, IndexTypeOK, disk, locals, Begun, Steps
<1>5. Parsed(r)'
  BY DEF IndexInv, ReaderOK, Started, Parsed, IndexTypeOK, disk, locals, Identity, Begun, Steps
<1>6. Unmoved(r)'
  BY DEF IndexInv, ReaderOK, Started, Parsed, Unmoved, IndexTypeOK, disk, locals, Identity, Chosen, Opened, Begun, Steps
<1> QED
  BY <1>1, <1>2, <1>3, <1>4, <1>5, <1>6, Assemble DEF ReaderOK

\* A request ends with an answer.
LEMMA AnswerRequestInv ==
  ASSUME IndexInv, OneKind, NEW r \in Readers, AnswerRequest(r)
  PROVE  IndexInv'
<1> USE DEF AnswerRequest, Return
<1>1. UNCHANGED disk /\ Apart(r)
  BY DEF Apart, locals, IndexInv, IndexTypeOK
<1>2. IndexTypeOK'
  BY DEF IndexInv, IndexTypeOK, disk, locals, Steps
<1>3. Entries'
  BY DEF IndexInv, Entries
<1>4. Started(r)'
  BY DEF IndexInv, ReaderOK, Started, IndexTypeOK, disk, locals, Begun, Steps
<1>5. Parsed(r)'
  BY DEF IndexInv, ReaderOK, Started, Parsed, IndexTypeOK, disk, locals, Identity, Begun, Steps
<1>6. Unmoved(r)'
  BY DEF IndexInv, ReaderOK, Started, Parsed, Unmoved, IndexTypeOK, disk, locals, Identity, Chosen, Opened, Begun, Steps
<1> QED
  BY <1>1, <1>2, <1>3, <1>4, <1>5, <1>6, Assemble DEF ReaderOK

\* The second pass begins after a first.
LEMMA TryAgainInv ==
  ASSUME IndexInv, OneKind, NEW r \in Readers, TryAgain(r)
  PROVE  IndexInv'
<1> USE DEF TryAgain, Changed
<1>1. UNCHANGED disk /\ Apart(r)
  BY DEF Apart, locals, IndexInv, IndexTypeOK
<1>2. IndexTypeOK'
  BY DEF IndexInv, IndexTypeOK, disk, locals, Steps
<1>3. Entries'
  BY DEF IndexInv, Entries
<1>4. Started(r)'
  <2>1. pass'[r] \in 0 .. 1
    BY DEF IndexInv, IndexTypeOK
  <2>2. src[r] \in Sources /\ kind[r] \in Kinds
    BY DEF IndexInv, ReaderOK, Started
  <2>3. pc'[r] = "before" /\ src'[r] = src[r] /\ kind'[r] = kind[r]
    BY DEF IndexInv, IndexTypeOK
  <2> QED
    BY <2>1, <2>2, <2>3 DEF Started, Begun
<1>5. Parsed(r)'
  BY DEF IndexInv, ReaderOK, Started, Parsed, IndexTypeOK, disk, locals, Identity, Begun, Steps
<1>6. Unmoved(r)'
  BY DEF IndexInv, ReaderOK, Started, Parsed, Unmoved, IndexTypeOK, disk, locals, Identity, Chosen, Opened, Begun, Steps
<1> QED
  BY <1>1, <1>2, <1>3, <1>4, <1>5, <1>6, Assemble DEF ReaderOK

\* A request ends with an exception.
LEMMA FailRequestInv ==
  ASSUME IndexInv, OneKind, NEW r \in Readers, FailRequest(r)
  PROVE  IndexInv'
<1> USE DEF FailRequest, Return
<1>1. UNCHANGED disk /\ Apart(r)
  BY DEF Apart, locals, IndexInv, IndexTypeOK
<1>2. IndexTypeOK'
  BY DEF IndexInv, IndexTypeOK, disk, locals, Steps
<1>3. Entries'
  BY DEF IndexInv, Entries
<1>4. Started(r)'
  BY DEF IndexInv, ReaderOK, Started, IndexTypeOK, disk, locals, Begun, Steps
<1>5. Parsed(r)'
  BY DEF IndexInv, ReaderOK, Started, Parsed, IndexTypeOK, disk, locals, Identity, Begun, Steps
<1>6. Unmoved(r)'
  BY DEF IndexInv, ReaderOK, Started, Parsed, Unmoved, IndexTypeOK, disk, locals, Identity, Chosen, Opened, Begun, Steps
<1> QED
  BY <1>1, <1>2, <1>3, <1>4, <1>5, <1>6, Assemble DEF ReaderOK

-----------------------------------------------------------------------------
(* Writers.                                                                *)

\* A new version, or no file: no identity comes back.
LEMMA TouchInv ==
  ASSUME IndexInv, NEW s \in Sources, NEW k \in Kinds, NEW v \in Nat,
         <<s, k>> \in Written, Touch(s, k, v),
         writes' \in Nat, writes <= writes', v <= writes',
         v = 0 \/ writes < v
  PROVE  IndexInv'
<1> USE DEF IndexInv
<1>1. files' = [files EXCEPT ![s] = [@ EXCEPT ![k] = v]]
  BY DEF Touch
<1>2. files \in [Sources -> [Kinds -> Nat]]
  BY DEF IndexTypeOK
<1>3. files' \in [Sources -> [Kinds -> Nat]]
  BY <1>1, <1>2
<1>4. \A t \in Sources, j \in Kinds :
          files'[t][j] = IF t = s /\ j = k THEN v ELSE files[t][j]
  BY <1>1, <1>2
<1>5. moved' \in [Readers -> BOOLEAN]
  BY DEF Touch
<1>6. IndexTypeOK'
  BY <1>3, <1>5 DEF Touch, IndexTypeOK, locals
<1>7. Files'
  <2> SUFFICES ASSUME NEW t \in Sources, NEW j \in Kinds
               PROVE  /\ files'[t][j] <= writes'
                      /\ files'[t][j] # 0 => <<t, j>> \in Written
    BY DEF Files
  <2>1. CASE t = s /\ j = k
    BY <1>4, <2>1
  <2>2. CASE ~(t = s /\ j = k)
    <3>1. files'[t][j] = files[t][j] /\ files[t][j] \in Nat
      BY <1>2, <1>4, <2>2
    <3>2. files[t][j] <= writes /\ (files[t][j] # 0 => <<t, j>> \in Written)
      BY DEF Files
    <3>3. writes \in Nat
      BY DEF IndexTypeOK
    <3>4. files'[t][j] <= writes'
      BY <3>1, <3>2, <3>3
    <3> QED
      BY <3>1, <3>2, <3>4
  <2> QED
    BY <2>1, <2>2
<1>8. Entries'
  BY DEF Touch, Entries
<1>9. ASSUME NEW r \in Readers PROVE ReaderOK(r)'
  <2>1. /\ pc'[r] = pc[r] /\ src'[r] = src[r] /\ kind'[r] = kind[r]
        /\ sig'[r] = sig[r] /\ doc'[r] = doc[r] /\ pass'[r] = pass[r]
        /\ moved'[r] = (moved[r] \/ (src[r] = s /\ pc[r] # "idle"))
    BY DEF Touch, locals
  <2>2. Started(r) /\ Parsed(r) /\ Unmoved(r)
    BY DEF ReaderOK
  <2>3. Started(r)'
    BY <2>1, <2>2 DEF Started, IndexTypeOK
  <2>4. ASSUME pc[r] \in Begun, Identity(r) # sig[r]
        PROVE  Identity(r)' # sig[r]
    <3>1. /\ src[r] \in Sources /\ kind[r] \in Kinds /\ sig[r] \in 1 .. writes
      BY <2>2, <2>4 DEF Started, Begun, Steps
    <3>2. writes \in Nat /\ v # sig[r]
      BY <3>1 DEF IndexTypeOK
    <3>3. Identity(r)' = files'[src[r]][kind[r]]
      BY <2>1 DEF Identity
    <3> QED
      BY <1>4, <2>4, <3>1, <3>2, <3>3 DEF Identity
  <2>5. Parsed(r)'
    BY <2>1, <2>2, <2>4 DEF Parsed, Begun, Steps
  <2>6. Unmoved(r)'
    <3> SUFFICES ASSUME ~moved'[r] PROVE Unmoved(r)'
      BY DEF Unmoved
    <3>1. ~moved[r] /\ (src[r] # s \/ pc[r] = "idle")
      BY <2>1
    <3>2. CASE pc[r] = "idle"
      BY <2>1, <3>2 DEF Unmoved, Begun, Steps
    <3>3. CASE pc[r] # "idle"
      <4>1. src[r] \in Sources /\ src[r] # s
        BY <2>2, <3>1, <3>3 DEF Started
      <4>2. files'[src[r]] = files[src[r]]
        BY <1>1, <1>2, <4>1
      <4> QED
        BY <2>1, <2>2, <3>1, <4>2 DEF Unmoved, Identity, Chosen, Opened
    <3> QED
      BY <3>2, <3>3
  <2> QED
    BY <2>3, <2>5, <2>6 DEF ReaderOK
<1> QED
  BY <1>6, <1>7, <1>8, <1>9

\* Writers, and clear().
LEMMA AccidentInv ==
  ASSUME IndexInv, Accident
  PROVE  IndexInv'
<1>1. ASSUME NEW s \in Sources, NEW k \in Kinds, Write(s, k) PROVE IndexInv'
  <2>1. writes \in Nat /\ writes' = writes + 1 /\ Touch(s, k, writes + 1)
    BY <1>1 DEF Write, IndexInv, IndexTypeOK
  <2> QED
    BY <1>1, <2>1, TouchInv DEF Write
<1>2. ASSUME NEW s \in Sources, NEW k \in Kinds, RemoveFile(s, k) PROVE IndexInv'
  <2>1. writes \in Nat /\ writes' = writes /\ Touch(s, k, 0)
    BY <1>2 DEF RemoveFile, IndexInv, IndexTypeOK
  <2> QED
    BY <1>2, <2>1, TouchInv DEF RemoveFile
<1>3. ASSUME Clear PROVE IndexInv'
  <2> USE DEF IndexInv, Clear
  <2>1. IndexTypeOK'
    BY <1>3 DEF IndexTypeOK, disk, locals
  <2>2. Files' /\ Entries'
    BY <1>3 DEF Files, Entries, disk
  <2>3. \A r \in Readers : ReaderOK(r)'
    BY <1>3 DEF ReaderOK, Started, Parsed, Unmoved, disk, locals, Identity,
                Chosen, Opened
  <2> QED
    BY <2>1, <2>2, <2>3
<1> QED
  BY <1>1, <1>2, <1>3 DEF Accident

\* The invariant is inductive.
THEOREM IndexNextInv ==
  ASSUME IndexInv, OneKind, [IndexNext]_indexVars
  PROVE  IndexInv'
<1>1. CASE Accident
  BY <1>1, AccidentInv
<1>2. ASSUME NEW r \in Readers, NEW s \in Sources, NEW f \in BOOLEAN,
             Request(r, s, f)
      PROVE  IndexInv'
  BY <1>2, RequestInv
<1>3. ASSUME NEW r \in Readers, Step(r) PROVE IndexInv'
  BY <1>3, ChoosePathInv, TakeIdentityInv, LookupHitsInv, LookupMissesInv,
     LookupFailsInv, ChooseAgainInv, OpenSourceInv, ReadSourceInv, AcceptInv,
     StoreInv, StoreFailsInv, AnswerRequestInv, TryAgainInv, FailRequestInv
  DEF Step
<1>4. CASE UNCHANGED indexVars
  <2> USE DEF IndexInv, indexVars
  <2>1. IndexTypeOK' /\ Files' /\ Entries'
    BY <1>4 DEF IndexTypeOK, Files, Entries
  <2>2. \A r \in Readers : ReaderOK(r)'
    BY <1>4 DEF ReaderOK, Started, Parsed, Unmoved, Identity, Chosen, Opened
  <2> QED
    BY <2>1, <2>2
<1> QED
  BY <1>1, <1>2, <1>3, <1>4 DEF IndexNext

\* The types of SourceIndex, the bound of two passes included.
THEOREM IndexTypeCorrect ==
  ASSUME OneKind
  PROVE  IndexSpec => []IndexTypeOK
<1>1. ASSUME IndexInv, [IndexNext]_indexVars PROVE IndexInv'
  BY <1>1, IndexNextInv
<1>2. IndexInv => IndexTypeOK
  BY DEF IndexInv
<1> QED
  BY IndexInitInv, <1>1, <1>2, PTL DEF IndexSpec

\* No entry of the cache ever holds anything but the content of its identity.
THEOREM EntriesAreHonest ==
  ASSUME OneKind
  PROVE  IndexSpec => []EntriesHonest
<1>1. ASSUME IndexInv, [IndexNext]_indexVars PROVE IndexInv'
  BY <1>1, IndexNextInv
<1>2. IndexInv => EntriesHonest
  BY DEF IndexInv, Entries, EntriesHonest
<1> QED
  BY IndexInitInv, <1>1, <1>2, PTL DEF IndexSpec

-----------------------------------------------------------------------------
(* Refinement.                                                             *)

\* What FreshRead sees.
Now == [s \in Sources |-> Held(s)]
Asked == {q \in Readers \X Sources : pc[q[1]] # "idle" /\ src[q[1]] = q[2]}
Moved == {r \in Readers : moved[r]}

\* A source holds a document or nothing.
LEMMA HeldType ==
  ASSUME IndexInv, NEW s \in Sources
  PROVE  Held(s) \in Doc \cup {Nil}
BY DEF IndexInv, IndexTypeOK, Held, Chosen, Content, Doc, Kinds

\* Steps inside a request are not seen.
LEMMA Stutter ==
  ASSUME UNCHANGED <<disk, src, moved, result>>,
         \A r \in Readers : pc'[r] = "idle" <=> pc[r] = "idle"
  PROVE  UNCHANGED Fresh!freshVars
<1>1. Now' = Now
  BY DEF Now, Held, Chosen, Content, disk
<1>2. Asked' = Asked
  BY DEF Asked
<1>3. Moved' = Moved
  BY DEF Moved
<1> QED
  BY <1>1, <1>2, <1>3 DEF Fresh!freshVars, Now, Asked, Moved

\* A write is a change of the source, which the requests for it notice.
LEMMA Changes ==
  ASSUME IndexInv, IndexInv', NEW s \in Sources, NEW k \in Kinds, NEW v, Touch(s, k, v)
  PROVE  Fresh!Change(s)
<1>1. \A t \in Sources \ {s} : files'[t] = files[t]
  BY DEF Touch, IndexInv, IndexTypeOK
<1>2. \A t \in Sources \ {s} : Held(t)' = Held(t)
  BY <1>1 DEF Held, Chosen, Content
<1>3. Now' = [Now EXCEPT ![s] = Now'[s]]
  BY <1>2 DEF Now
<1>4. Now'[s] \in Doc \cup {Nil}
  <2>1. Now'[s] = Held(s)'
    BY DEF Now
  <2>2. files' \in [Sources -> [Kinds -> Nat]]
    BY DEF IndexInv, IndexTypeOK
  <2> QED
    BY <2>1, <2>2 DEF Held, Chosen, Content, Doc, Kinds
<1>5. UNCHANGED <<pc, src, result>>
  BY DEF Touch, locals
<1>6. Asked' = Asked
  BY <1>5 DEF Asked
<1>7. Moved' = Moved \cup {q[1] : q \in {p \in Asked : p[2] = s}}
  <2>1. \A r \in Readers : r \in Moved' <=> moved[r] \/ (src[r] = s /\ pc[r] # "idle")
    BY DEF Touch, Moved
  <2>2. \A r \in Readers : (src[r] = s /\ pc[r] # "idle") <=> <<r, s>> \in Asked
    BY DEF Asked
  <2>3. \A r \in Readers : r \in {q[1] : q \in {p \in Asked : p[2] = s}}
                               <=> <<r, s>> \in Asked
    BY DEF Asked
  <2>4. Moved' \subseteq Readers /\ Moved \subseteq Readers
        /\ {q[1] : q \in {p \in Asked : p[2] = s}} \subseteq Readers
    BY DEF Moved, Asked
  <2>5. \A r \in Readers : r \in Moved <=> moved[r]
    BY DEF Moved
  <2> QED
    BY <2>1, <2>2, <2>3, <2>4, <2>5
<1> QED
  BY <1>3, <1>4, <1>5, <1>6, <1>7 DEF Fresh!Change, Now, Asked, Moved

\* Initial states of the index are initial states of FreshRead.
LEMMA InitFresh == IndexInit => Fresh!Init
<1> SUFFICES ASSUME IndexInit PROVE Fresh!Init
  OBVIOUS
<1>1. Now \in [Sources -> Doc \cup {Nil}]
  BY IndexInitInv, HeldType DEF Now
<1>2. Asked = {} /\ Moved = {}
  BY DEF IndexInit, Asked, Moved
<1>3. result = [r \in Readers |-> Nil]
  BY DEF IndexInit
<1> QED
  BY <1>1, <1>2, <1>3 DEF Fresh!Init, Now, Asked, Moved

\* What the end of a request does to what FreshRead sees.
LEMMA Ends ==
  ASSUME IndexInv, NEW r \in Readers, NEW d, pc[r] # "idle",
         Return(r, d), UNCHANGED disk
  PROVE  /\ src[r] \in Sources
         /\ <<r, src[r]>> \in Asked
         /\ Now' = Now
         /\ Asked' = Asked \ {<<r, src[r]>>}
         /\ Moved' = Moved \ {r}
         /\ result' = [result EXCEPT ![r] = d]
<1>1. src[r] \in Sources
  BY DEF IndexInv, ReaderOK, Started
<1>2. <<r, src[r]>> \in Asked
  BY <1>1 DEF Asked
<1>3. Now' = Now
  BY DEF Now, Held, Chosen, Content, disk
<1>4. /\ pc'[r] = "idle" /\ ~moved'[r]
      /\ \A q \in Readers \ {r} :
            pc'[q] = pc[q] /\ src'[q] = src[q] /\ moved'[q] = moved[q]
  BY DEF Return, IndexInv, IndexTypeOK
<1>5. Asked' = Asked \ {<<r, src[r]>>}
  <2>1. ASSUME NEW q \in Readers, NEW s \in Sources
        PROVE  <<q, s>> \in Asked' <=> <<q, s>> \in Asked \ {<<r, src[r]>>}
    BY <1>4 DEF Asked
  <2>2. Asked \subseteq Readers \X Sources /\ Asked' \subseteq Readers \X Sources
    BY DEF Asked
  <2> QED
    BY <2>1, <2>2
<1>6. Moved' = Moved \ {r}
  BY <1>4 DEF Moved
<1>7. result' = [result EXCEPT ![r] = d]
  BY DEF Return
<1> QED
  BY <1>1, <1>2, <1>3, <1>5, <1>6, <1>7

\* A request that begins is asked.
LEMMA RequestFresh ==
  ASSUME IndexInv, NEW r \in Readers, NEW s \in Sources, NEW f \in BOOLEAN,
         Request(r, s, f)
  PROVE  Fresh!Ask(r, s)
<1> USE DEF Request, Goto
<1>1. \A q \in Asked : q[1] # r
  BY DEF Asked
<1>2. Now' = Now /\ Moved' = Moved
  BY DEF Now, Held, Chosen, Content, Moved, disk
<1>3. /\ pc'[r] # "idle" /\ src'[r] = s
      /\ \A q \in Readers \ {r} : pc'[q] = pc[q] /\ src'[q] = src[q]
  BY DEF IndexInv, IndexTypeOK
<1>4. Asked' = Asked \cup {<<r, s>>}
  <2>1. ASSUME NEW q \in Readers, NEW t \in Sources
        PROVE  <<q, t>> \in Asked' <=> <<q, t>> \in Asked \cup {<<r, s>>}
    BY <1>3 DEF Asked
  <2>2. Asked \subseteq Readers \X Sources /\ Asked' \subseteq Readers \X Sources
    BY DEF Asked
  <2> QED
    BY <2>1, <2>2
<1> QED
  BY <1>1, <1>2, <1>4 DEF Fresh!Ask, Fresh!Idle, Now, Asked, Moved

\* The identity that is still there is that of the source's only file.
LEMMA AnswerFresh ==
  ASSUME IndexInv, OneKind, NEW r \in Readers, AnswerRequest(r),
         NEW s \in Sources, src[r] = s
  PROVE  Fresh!Answer(r, s)
<1>1. pc[r] \in Begun /\ pc[r] # "idle"
  BY DEF AnswerRequest, Begun, Steps
<1>2. /\ s \in Sources /\ kind[r] \in Kinds /\ sig[r] \in Nat \ {0}
      /\ <<s, kind[r]>> \in Written
      /\ doc[r] = Content(kind[r], sig[r]) /\ sig[r] \notin Unparsable
  BY <1>1 DEF AnswerRequest, IndexInv, IndexTypeOK, ReaderOK, Started, Parsed, Begun, Steps
<1>3. files[s][kind[r]] = sig[r]
  BY DEF AnswerRequest, Identity
<1>4. Chosen(s) = kind[r]
  BY <1>2, <1>3 DEF Chosen, Kinds, IndexInv, Files, OneKind
<1>5. Held(s) = doc[r]
  BY <1>2, <1>3, <1>4 DEF Held
<1>6. Held(s) # Nil /\ Held(s) \notin {d \in Doc : ~Parses(d)}
  <2>1. Parses(doc[r])
    BY <1>2 DEF Content, Parses
  <2>2. Held(s) # Nil
    BY <1>2, <1>5, NoneApart DEF Content, Doc
  <2> QED
    BY <1>5, <2>1, <2>2
<1>7. Now[s] = Held(s)
  BY <1>2 DEF Now
<1> QED
  BY <1>1, <1>2, <1>5, <1>6, <1>7, Ends
  DEF AnswerRequest, Fresh!Answer, Fresh!Readable, Now, Asked, Moved

\* A request fails because the source moved, or holds nothing that can be read.
LEMMA FailFresh ==
  ASSUME IndexInv, NEW r \in Readers, FailRequest(r),
         NEW s \in Sources, src[r] = s
  PROVE  Fresh!Fail(r, s)
<1>1. pc[r] # "idle"
  BY DEF FailRequest, Fails, Changed
<1>2. s \in Sources /\ Started(r) /\ Parsed(r) /\ Unmoved(r)
  BY <1>1 DEF IndexInv, ReaderOK, Started
<1>3. Now[s] = Held(s)
  BY <1>2 DEF Now
<1>4. moved[r] \/ Held(s) = Nil \/ Held(s) \in {d \in Doc : ~Parses(d)}
  <2> SUFFICES ASSUME ~moved[r]
               PROVE  Held(s) = Nil \/ Held(s) \in {d \in Doc : ~Parses(d)}
    OBVIOUS
  <2>1. pc[r] \in Begun => Identity(r) = sig[r] /\ sig[r] # 0
    BY <1>2 DEF Started, Unmoved, IndexInv, IndexTypeOK
  <2>2. CASE pc[r] \in {"hit", "loaded", "after"} /\ (Missing(r) \/ Changed(r))
    BY <2>1, <2>2 DEF Missing, Changed, Begun, Steps
  <2>3. CASE pc[r] = "before" /\ Missing(r)
    BY <1>2, <2>3 DEF Unmoved, Missing, Identity, Held
  <2>4. CASE pc[r] = "open" /\ Opened(r) = 0
    BY <1>2, <2>4 DEF Unmoved, Opened, Held
  <2>5. CASE /\ pc[r] = "reading"
             /\ doc[r].from \in Unparsable \/ Opened(r) # doc[r].from
    <3>1. doc[r].from = files[s][Chosen(s)] /\ doc[r].from \in Unparsable
      BY <1>2, <2>5 DEF Unmoved, Opened, Begun, Steps
    <3>2. Held(s) = Nil \/ Held(s) = Content(Chosen(s), doc[r].from)
      BY <3>1 DEF Held
    <3>3. ~Parses(Content(Chosen(s), doc[r].from))
      BY <3>1 DEF Parses, Whole, Content
    <3> QED
      BY <1>2, <3>2, <3>3, HeldType, NoneApart
  <2> QED
    BY <2>2, <2>3, <2>4, <2>5 DEF FailRequest, Fails, Changed
<1>5. r \in Moved <=> moved[r]
  BY DEF Moved
<1> QED
  BY <1>1, <1>2, <1>3, <1>4, <1>5, Ends
  DEF FailRequest, Fresh!Fail, Fresh!Readable, Now, Asked, Moved

\* Each step of a request answers, fails or is not seen.
LEMMA StepFresh ==
  ASSUME IndexInv, OneKind, NEW r \in Readers, Step(r)
  PROVE  [Fresh!Next]_Fresh!freshVars
<1>1. CASE AnswerRequest(r)
  <2>1. src[r] \in Sources
    BY <1>1 DEF AnswerRequest, IndexInv, ReaderOK, Started
  <2>2. \E s \in Sources : src[r] = s /\ Fresh!Answer(r, s)
    BY <1>1, <2>1, AnswerFresh
  <2> QED
    BY <2>2 DEF Fresh!Next
<1>2. CASE FailRequest(r)
  <2>1. src[r] \in Sources
    BY <1>2 DEF FailRequest, Fails, Changed, IndexInv, ReaderOK, Started
  <2>2. \E s \in Sources : src[r] = s /\ Fresh!Fail(r, s)
    BY <1>2, <2>1, FailFresh
  <2> QED
    BY <2>2 DEF Fresh!Next
<1>3. CASE \/ ChoosePath(r) \/ TakeIdentity(r)
           \/ LookupHits(r) \/ LookupMisses(r) \/ LookupFails(r)
           \/ ChooseAgain(r) \/ OpenSource(r) \/ ReadSource(r) \/ Accept(r)
           \/ Store(r) \/ StoreFails(r) \/ TryAgain(r)
  <2>1. UNCHANGED <<disk, src, moved, result>>
    BY <1>3 DEF ChoosePath, TakeIdentity, LookupHits, LookupMisses, LookupFails,
       ChooseAgain, OpenSource, ReadSource, Accept, Store, StoreFails, TryAgain,
       disk, locals
  <2>2. pc[r] # "idle" /\ \E p \in Steps : pc' = [pc EXCEPT ![r] = p]
    BY <1>3 DEF ChoosePath, TakeIdentity, LookupHits, LookupMisses, LookupFails,
       ChooseAgain, OpenSource, ReadSource, Accept, Store, StoreFails, TryAgain,
       Changed, Goto, Steps
  <2>3. \A q \in Readers : pc'[q] = "idle" <=> pc[q] = "idle"
    BY <2>2 DEF IndexInv, IndexTypeOK, Steps
  <2> QED
    BY <2>1, <2>3, Stutter
<1> QED
  BY <1>1, <1>2, <1>3 DEF Step

\* Each step of the index is a step of FreshRead or is not seen.
LEMMA NextFresh ==
  ASSUME IndexInv, IndexInv', OneKind, [IndexNext]_indexVars
  PROVE  [Fresh!Next]_Fresh!freshVars
<1>1. ASSUME NEW s \in Sources, NEW k \in Kinds, Write(s, k) \/ RemoveFile(s, k)
      PROVE  Fresh!Next
  BY <1>1, Changes DEF Write, RemoveFile, Fresh!Next
<1>2. CASE Clear
  BY <1>2, Stutter DEF Clear, locals
<1>3. ASSUME NEW r \in Readers, NEW s \in Sources, NEW f \in BOOLEAN,
             Request(r, s, f)
      PROVE  Fresh!Next
  BY <1>3, RequestFresh DEF Fresh!Next
<1>4. ASSUME NEW r \in Readers, Step(r)
      PROVE  [Fresh!Next]_Fresh!freshVars
  BY <1>4, StepFresh
<1>5. CASE UNCHANGED indexVars
  BY <1>5, Stutter DEF indexVars, disk
<1> QED
  BY <1>1, <1>2, <1>3, <1>4, <1>5 DEF IndexNext, Accident

\* With one kind of file per source, however many processes read, write and
\* clear, an answer is what the source held, whole, at one instant of the
\* request, and a failure is due to the source: the cache never shows.
THEOREM IndexImplementsFreshRead ==
  ASSUME OneKind
  PROVE  IndexSpec => ImplementsFreshRead
<1>1. ASSUME IndexInv, [IndexNext]_indexVars PROVE IndexInv'
  BY <1>1, IndexNextInv
<1>2. ASSUME IndexInv, IndexInv', [IndexNext]_indexVars
      PROVE  [Fresh!Next]_Fresh!freshVars
  BY <1>2, NextFresh
<1> QED
  BY IndexInitInv, InitFresh, <1>1, <1>2, PTL DEF IndexSpec, ImplementsFreshRead, Fresh!Spec

-----------------------------------------------------------------------------
(* The invariant of Edits.                                                 *)

Saving == {"save", "lock", "compare", "replace", "unlock"}
Copying == {"fill", "target", "finish"}

\* Only copies are edited, and what is saved is a checked text of one.
SavesAreOfCopies ==
    /\ \A e \in Editors : editable[e] => path[e] \in Copies
    /\ \A e \in Editors : at[e] \in Saving => editable[e]
    /\ \A e \in Editors :
           at[e] \in Locked \cup {"lock"} =>
               draft[e] \in Valid /\ text[path[e]] # None

\* The lock has one holder.
LockHeld == \A e \in Editors : at[e] \in Locked => lock = e

\* Between the comparison and the replacement the text is the one that was
\* shown, unless that was the unfinished file of a copy.
StillShown ==
    \A e \in Editors :
        at[e] = "replace" => seen[e] \in {text[path[e]], Torn}

\* A copy that is being made has a name of its own.
NamesAreFresh ==
    /\ \A e \in Editors :
           at[e] \in Copying \cup {"origin", "copy"} => path[e] \in Configs
    /\ \A e \in Editors :
           at[e] \in Copying \cup {"origin", "loaded"} => raw[e] \in Texts
    /\ \A e \in Editors :
           at[e] \in {"load", "loaded"} => goal[e] \in Configs
    /\ \A e \in Editors :
           at[e] \in Copying =>
               goal[e] \in Copies /\ origin[goal[e]] # None
    /\ \A e, f \in Editors :
           at[e] \in Copying /\ at[f] \in Copying /\ e # f => goal[e] # goal[f]

\* The origin is complete before the copy exists.
OriginsFirst ==
    /\ \A e \in Editors :
           at[e] \in {"target", "finish"} => origin[goal[e]] \in Origins
    /\ \A e \in Editors : at[e] = "fill" => text[goal[e]] = None
    /\ \A e \in Editors : at[e] = "finish" => text[goal[e]] # None

EditInv ==
    /\ EditTypeOK /\ SavesAreOfCopies /\ LockHeld /\ StillShown
    /\ NamesAreFresh /\ OriginsFirst /\ CopiesHaveOrigins

LEMMA EditTypeOKStep ==
    ASSUME EditInv, EditNext
    PROVE  EditTypeOK'
  <1> USE EditsAssumption DEF EditInv
  <1>1. ASSUME NEW e \in Editors, Show(e)
        PROVE  EditTypeOK'
    <2>1. goal[e] \in Configs /\ raw[e] \in Texts
      BY <1>1 DEF Show, Onward, NamesAreFresh
    <2>2. at' = [at EXCEPT ![e] = "idle"] /\ mode' = [mode EXCEPT ![e] = "clean"]
      BY <1>1 DEF Show, Onward
    <2>3. /\ path' = [path EXCEPT ![e] = goal[e]]
          /\ goal' = [goal EXCEPT ![e] = None]
      BY <1>1 DEF Show
    <2>4. /\ seen' = [seen EXCEPT ![e] = raw[e]]
          /\ draft' = [draft EXCEPT ![e] = raw[e]]
          /\ raw' = [raw EXCEPT ![e] = None]
      BY <1>1 DEF Show
    <2>5. /\ editable' \in [Editors -> BOOLEAN]
          /\ checked' \in [Editors -> BOOLEAN]
      <3>1. \E v \in BOOLEAN : editable' = [editable EXCEPT ![e] = v]
        BY <1>1, Zenon DEF Show
      <3>2. \E v \in BOOLEAN : checked' = [checked EXCEPT ![e] = v]
        <4>1. checked' = [checked EXCEPT ![e] = raw[e] \in Valid]
          BY <1>1, Zenon DEF Show
        <4>2. CASE raw[e] \in Valid
          BY <4>1, <4>2, Zenon
        <4>3. CASE raw[e] \notin Valid
          <5>1. (raw[e] \in Valid) = FALSE
            BY <4>3
          <5>2. checked' = [checked EXCEPT ![e] = FALSE]
            BY <4>1, <5>1
          <5>3. QED
            BY <5>2
        <4>4. QED
          BY <4>2, <4>3
      <3>3. QED
        BY <3>1, <3>2, Zenon DEF EditTypeOK
    <2>6. UNCHANGED <<text, origin, lock>>
      BY <1>1 DEF Show, editFiles
    <2>7. at' \in [Editors -> EditSteps \cup {"idle"}]
          /\ mode' \in [Editors -> {"clean", "form", "stale", "text"}]
      BY <2>2 DEF EditTypeOK
    <2>8. path' \in [Editors -> Some(Configs)] /\ goal' \in [Editors -> Some(Configs)]
      BY <2>1, <2>3 DEF EditTypeOK, Some
    <2>9. /\ seen' \in [Editors -> Some(Texts)] /\ draft' \in [Editors -> Some(Texts)]
          /\ raw' \in [Editors -> Some(Texts)]
      BY <2>1, <2>4 DEF EditTypeOK, Some
    <2>10. QED
      BY <2>5, <2>6, <2>7, <2>8, <2>9 DEF EditTypeOK
  <1>2. ASSUME NEW e \in Editors, FillForm(e)
        PROVE  EditTypeOK'
    BY <1>2 DEF EditTypeOK, Onward, MayType, editFiles, page, request, Some, EditSteps, FillForm
  <1>3. ASSUME NEW e \in Editors, Inspect(e)
        PROVE  EditTypeOK'
    BY <1>3 DEF EditTypeOK, Onward, MayType, editFiles, page, request, Some, EditSteps, Inspect
  <1>4. ASSUME NEW e \in Editors, Read(e)
        PROVE  EditTypeOK'
    BY <1>4 DEF EditTypeOK, Onward, MayType, editFiles, page, request, Some, EditSteps, NamesAreFresh, Copying, Configs, Read
  <1>5. ASSUME NEW e \in Editors, Copy(e)
        PROVE  EditTypeOK'
    BY <1>5 DEF EditTypeOK, Onward, MayType, editFiles, page, request, Some, EditSteps, Copy
  <1>6. ASSUME NEW e \in Editors, ReadTemplate(e)
        PROVE  EditTypeOK'
    BY <1>6 DEF EditTypeOK, Onward, MayType, editFiles, page, request, Some, EditSteps, ReadTemplate, Configs
  <1>7. ASSUME NEW e \in Editors, FillOrigin(e)
        PROVE  EditTypeOK'
    BY <1>7 DEF EditTypeOK, Onward, MayType, editFiles, page, request, Some, EditSteps, Origins, NamesAreFresh, Copying, Configs, FillOrigin
  <1>8. ASSUME NEW e \in Editors, CreateTarget(e)
        PROVE  EditTypeOK'
    BY <1>8 DEF EditTypeOK, Onward, MayType, editFiles, page, request, Some, EditSteps, CreateTarget, Configs
  <1>9. ASSUME NEW e \in Editors, FillTarget(e)
        PROVE  EditTypeOK'
    BY <1>9 DEF EditTypeOK, Onward, MayType, editFiles, page, request, Some, EditSteps, FillTarget, Configs
  <1>10. ASSUME NEW e \in Editors, Save(e)
        PROVE  EditTypeOK'
    BY <1>10 DEF EditTypeOK, Onward, MayType, editFiles, page, request, Some, EditSteps, Save
  <1>11. ASSUME NEW e \in Editors, CheckSave(e)
        PROVE  EditTypeOK'
    BY <1>11 DEF EditTypeOK, Onward, MayType, editFiles, page, request, Some, EditSteps, CheckSave
  <1>12. ASSUME NEW e \in Editors, Lock(e)
        PROVE  EditTypeOK'
    BY <1>12 DEF EditTypeOK, Onward, MayType, editFiles, page, request, Some, EditSteps, Lock
  <1>13. ASSUME NEW e \in Editors, Compare(e)
        PROVE  EditTypeOK'
    BY <1>13 DEF EditTypeOK, Onward, MayType, editFiles, page, request, Some, EditSteps, Compare
  <1>14. ASSUME NEW e \in Editors, Replace(e)
        PROVE  EditTypeOK'
    BY <1>14 DEF EditTypeOK, Onward, MayType, editFiles, page, request, Some, EditSteps, Replace, Configs
  <1>15. ASSUME NEW e \in Editors, Unlock(e)
        PROVE  EditTypeOK'
    BY <1>15 DEF EditTypeOK, Onward, MayType, editFiles, page, request, Some, EditSteps, Unlock, Configs
  <1>16. ASSUME NEW e \in Editors, Fail(e)
        PROVE  EditTypeOK'
    BY <1>16 DEF EditTypeOK, Onward, MayType, editFiles, page, request, Some, EditSteps, Fail, Locked
  <1>17. ASSUME NEW e \in Editors, NEW c \in Configs, Load(e, c)
        PROVE  EditTypeOK'
    BY <1>17 DEF EditTypeOK, Onward, MayType, editFiles, page, request, Some, EditSteps, Load, Configs
  <1>18. ASSUME NEW e \in Editors, NEW c \in Copies, CreateOrigin(e, c)
        PROVE  EditTypeOK'
    BY <1>18 DEF EditTypeOK, Onward, MayType, editFiles, page, request, Some, EditSteps, CreateOrigin, Configs
  <1>19. ASSUME NEW e \in Editors, NEW t \in Texts, Type(e, t)
        PROVE  EditTypeOK'
    BY <1>19 DEF EditTypeOK, Onward, MayType, editFiles, page, request, Some, EditSteps, Type
  <1>20. ASSUME NEW e \in Editors, NEW t \in Valid, Apply(e, t)
        PROVE  EditTypeOK'
    BY <1>20 DEF EditTypeOK, Onward, MayType, editFiles, page, request, Some, EditSteps, Apply
  <1>21. ASSUME NEW c \in Templates, NEW t \in Texts, WriteTemplate(c, t)
        PROVE  EditTypeOK'
    BY <1>21 DEF EditTypeOK, Onward, MayType, editFiles, page, request, Some, EditSteps, WriteTemplate, Configs
  <1>22. QED
    BY <1>1, <1>2, <1>3, <1>4, <1>5, <1>6, <1>7, <1>8, <1>9, <1>10, <1>11, <1>12, <1>13, <1>14, <1>15, <1>16, <1>17, <1>18, <1>19, <1>20, <1>21 DEF EditNext, EditStep

LEMMA SavesAreOfCopiesStep ==
    ASSUME EditInv, EditNext
    PROVE  SavesAreOfCopies'
  <1> USE EditsAssumption DEF EditInv
  <1>1. ASSUME NEW e \in Editors, Show(e)
        PROVE  SavesAreOfCopies'
    BY <1>1 DEF EditTypeOK, Onward, MayType, editFiles, page, request, Some, EditSteps, SavesAreOfCopies, Saving, Locked, Configs, NamesAreFresh, Show
  <1>2. ASSUME NEW e \in Editors, FillForm(e)
        PROVE  SavesAreOfCopies'
    BY <1>2 DEF EditTypeOK, Onward, MayType, editFiles, page, request, Some, EditSteps, SavesAreOfCopies, Saving, Locked, Configs, NamesAreFresh, FillForm
  <1>3. ASSUME NEW e \in Editors, Inspect(e)
        PROVE  SavesAreOfCopies'
    BY <1>3 DEF EditTypeOK, Onward, MayType, editFiles, page, request, Some, EditSteps, SavesAreOfCopies, Saving, Locked, Configs, NamesAreFresh, Inspect
  <1>4. ASSUME NEW e \in Editors, Read(e)
        PROVE  SavesAreOfCopies'
    BY <1>4 DEF EditTypeOK, Onward, MayType, editFiles, page, request, Some, EditSteps, SavesAreOfCopies, Saving, Locked, Configs, NamesAreFresh, Read
  <1>5. ASSUME NEW e \in Editors, Copy(e)
        PROVE  SavesAreOfCopies'
    BY <1>5 DEF EditTypeOK, Onward, MayType, editFiles, page, request, Some, EditSteps, SavesAreOfCopies, Saving, Locked, Configs, NamesAreFresh, Copy
  <1>6. ASSUME NEW e \in Editors, ReadTemplate(e)
        PROVE  SavesAreOfCopies'
    BY <1>6 DEF EditTypeOK, Onward, MayType, editFiles, page, request, Some, EditSteps, SavesAreOfCopies, Saving, Locked, Configs, NamesAreFresh, ReadTemplate
  <1>7. ASSUME NEW e \in Editors, FillOrigin(e)
        PROVE  SavesAreOfCopies'
    BY <1>7 DEF EditTypeOK, Onward, MayType, editFiles, page, request, Some, EditSteps, SavesAreOfCopies, Saving, Locked, Configs, NamesAreFresh, FillOrigin
  <1>8. ASSUME NEW e \in Editors, CreateTarget(e)
        PROVE  SavesAreOfCopies'
    BY <1>8 DEF EditTypeOK, Onward, MayType, editFiles, page, request, Some, EditSteps, SavesAreOfCopies, Saving, Locked, Configs, NamesAreFresh, CreateTarget
  <1>9. ASSUME NEW e \in Editors, FillTarget(e)
        PROVE  SavesAreOfCopies'
    BY <1>9 DEF EditTypeOK, Onward, MayType, editFiles, page, request, Some, EditSteps, SavesAreOfCopies, Saving, Locked, Configs, NamesAreFresh, Copying, FillTarget
  <1>10. ASSUME NEW e \in Editors, Save(e)
        PROVE  SavesAreOfCopies'
    BY <1>10 DEF EditTypeOK, Onward, MayType, editFiles, page, request, Some, EditSteps, SavesAreOfCopies, Saving, Locked, Configs, NamesAreFresh, Save
  <1>11. ASSUME NEW e \in Editors, CheckSave(e)
        PROVE  SavesAreOfCopies'
    BY <1>11 DEF EditTypeOK, Onward, MayType, editFiles, page, request, Some, EditSteps, SavesAreOfCopies, Saving, Locked, Configs, NamesAreFresh, CheckSave
  <1>12. ASSUME NEW e \in Editors, Lock(e)
        PROVE  SavesAreOfCopies'
    BY <1>12 DEF EditTypeOK, Onward, MayType, editFiles, page, request, Some, EditSteps, SavesAreOfCopies, Saving, Locked, Configs, NamesAreFresh, Lock
  <1>13. ASSUME NEW e \in Editors, Compare(e)
        PROVE  SavesAreOfCopies'
    BY <1>13 DEF EditTypeOK, Onward, MayType, editFiles, page, request, Some, EditSteps, SavesAreOfCopies, Saving, Locked, Configs, NamesAreFresh, Compare
  <1>14. ASSUME NEW e \in Editors, Replace(e)
        PROVE  SavesAreOfCopies'
    BY <1>14 DEF EditTypeOK, Onward, MayType, editFiles, page, request, Some, EditSteps, SavesAreOfCopies, Saving, Locked, Configs, NamesAreFresh, Replace
  <1>15. ASSUME NEW e \in Editors, Unlock(e)
        PROVE  SavesAreOfCopies'
    BY <1>15 DEF EditTypeOK, Onward, MayType, editFiles, page, request, Some, EditSteps, SavesAreOfCopies, Saving, Locked, Configs, NamesAreFresh, Unlock
  <1>16. ASSUME NEW e \in Editors, Fail(e)
        PROVE  SavesAreOfCopies'
    BY <1>16 DEF EditTypeOK, Onward, MayType, editFiles, page, request, Some, EditSteps, SavesAreOfCopies, Saving, Locked, Configs, NamesAreFresh, Fail
  <1>17. ASSUME NEW e \in Editors, NEW c \in Configs, Load(e, c)
        PROVE  SavesAreOfCopies'
    BY <1>17 DEF EditTypeOK, Onward, MayType, editFiles, page, request, Some, EditSteps, SavesAreOfCopies, Saving, Locked, Configs, NamesAreFresh, Load
  <1>18. ASSUME NEW e \in Editors, NEW c \in Copies, CreateOrigin(e, c)
        PROVE  SavesAreOfCopies'
    BY <1>18 DEF EditTypeOK, Onward, MayType, editFiles, page, request, Some, EditSteps, SavesAreOfCopies, Saving, Locked, Configs, NamesAreFresh, CreateOrigin
  <1>19. ASSUME NEW e \in Editors, NEW t \in Texts, Type(e, t)
        PROVE  SavesAreOfCopies'
    BY <1>19 DEF EditTypeOK, Onward, MayType, editFiles, page, request, Some, EditSteps, SavesAreOfCopies, Saving, Locked, Configs, NamesAreFresh, Type
  <1>20. ASSUME NEW e \in Editors, NEW t \in Valid, Apply(e, t)
        PROVE  SavesAreOfCopies'
    BY <1>20 DEF EditTypeOK, Onward, MayType, editFiles, page, request, Some, EditSteps, SavesAreOfCopies, Saving, Locked, Configs, NamesAreFresh, Apply
  <1>21. ASSUME NEW c \in Templates, NEW t \in Texts, WriteTemplate(c, t)
        PROVE  SavesAreOfCopies'
    BY <1>21 DEF EditTypeOK, Onward, MayType, editFiles, page, request, Some, EditSteps, SavesAreOfCopies, Saving, Locked, Configs, NamesAreFresh, WriteTemplate
  <1>22. QED
    BY <1>1, <1>2, <1>3, <1>4, <1>5, <1>6, <1>7, <1>8, <1>9, <1>10, <1>11, <1>12, <1>13, <1>14, <1>15, <1>16, <1>17, <1>18, <1>19, <1>20, <1>21 DEF EditNext, EditStep

LEMMA LockHeldStep ==
    ASSUME EditInv, EditNext
    PROVE  LockHeld'
  <1> USE EditsAssumption DEF EditInv
  <1>1. ASSUME NEW e \in Editors, Show(e)
        PROVE  LockHeld'
    BY <1>1 DEF EditTypeOK, Onward, MayType, editFiles, page, request, Some, EditSteps, LockHeld, Locked, Show, Configs
  <1>2. ASSUME NEW e \in Editors, FillForm(e)
        PROVE  LockHeld'
    BY <1>2 DEF EditTypeOK, Onward, MayType, editFiles, page, request, Some, EditSteps, LockHeld, Locked, FillForm
  <1>3. ASSUME NEW e \in Editors, Inspect(e)
        PROVE  LockHeld'
    BY <1>3 DEF EditTypeOK, Onward, MayType, editFiles, page, request, Some, EditSteps, LockHeld, Locked, Inspect
  <1>4. ASSUME NEW e \in Editors, Read(e)
        PROVE  LockHeld'
    BY <1>4 DEF EditTypeOK, Onward, MayType, editFiles, page, request, Some, EditSteps, LockHeld, Locked, Read
  <1>5. ASSUME NEW e \in Editors, Copy(e)
        PROVE  LockHeld'
    BY <1>5 DEF EditTypeOK, Onward, MayType, editFiles, page, request, Some, EditSteps, LockHeld, Locked, Copy
  <1>6. ASSUME NEW e \in Editors, ReadTemplate(e)
        PROVE  LockHeld'
    BY <1>6 DEF EditTypeOK, Onward, MayType, editFiles, page, request, Some, EditSteps, LockHeld, Locked, ReadTemplate, Configs
  <1>7. ASSUME NEW e \in Editors, FillOrigin(e)
        PROVE  LockHeld'
    BY <1>7 DEF EditTypeOK, Onward, MayType, editFiles, page, request, Some, EditSteps, LockHeld, Locked, FillOrigin
  <1>8. ASSUME NEW e \in Editors, CreateTarget(e)
        PROVE  LockHeld'
    BY <1>8 DEF EditTypeOK, Onward, MayType, editFiles, page, request, Some, EditSteps, LockHeld, Locked, CreateTarget, Configs
  <1>9. ASSUME NEW e \in Editors, FillTarget(e)
        PROVE  LockHeld'
    BY <1>9 DEF EditTypeOK, Onward, MayType, editFiles, page, request, Some, EditSteps, LockHeld, Locked, FillTarget, Configs
  <1>10. ASSUME NEW e \in Editors, Save(e)
        PROVE  LockHeld'
    BY <1>10 DEF EditTypeOK, Onward, MayType, editFiles, page, request, Some, EditSteps, LockHeld, Locked, Save
  <1>11. ASSUME NEW e \in Editors, CheckSave(e)
        PROVE  LockHeld'
    BY <1>11 DEF EditTypeOK, Onward, MayType, editFiles, page, request, Some, EditSteps, LockHeld, Locked, CheckSave
  <1>12. ASSUME NEW e \in Editors, Lock(e)
        PROVE  LockHeld'
    BY <1>12 DEF EditTypeOK, Onward, MayType, editFiles, page, request, Some, EditSteps, LockHeld, Locked, Lock
  <1>13. ASSUME NEW e \in Editors, Compare(e)
        PROVE  LockHeld'
    BY <1>13 DEF EditTypeOK, Onward, MayType, editFiles, page, request, Some, EditSteps, LockHeld, Locked, Compare
  <1>14. ASSUME NEW e \in Editors, Replace(e)
        PROVE  LockHeld'
    BY <1>14 DEF EditTypeOK, Onward, MayType, editFiles, page, request, Some, EditSteps, LockHeld, Locked, Replace, Configs
  <1>15. ASSUME NEW e \in Editors, Unlock(e)
        PROVE  LockHeld'
    BY <1>15 DEF EditTypeOK, Onward, MayType, editFiles, page, request, Some, EditSteps, LockHeld, Locked, Unlock, Configs
  <1>16. ASSUME NEW e \in Editors, Fail(e)
        PROVE  LockHeld'
    BY <1>16 DEF EditTypeOK, Onward, MayType, editFiles, page, request, Some, EditSteps, LockHeld, Locked, Fail
  <1>17. ASSUME NEW e \in Editors, NEW c \in Configs, Load(e, c)
        PROVE  LockHeld'
    BY <1>17 DEF EditTypeOK, Onward, MayType, editFiles, page, request, Some, EditSteps, LockHeld, Locked, Load, Configs
  <1>18. ASSUME NEW e \in Editors, NEW c \in Copies, CreateOrigin(e, c)
        PROVE  LockHeld'
    BY <1>18 DEF EditTypeOK, Onward, MayType, editFiles, page, request, Some, EditSteps, LockHeld, Locked, CreateOrigin, Configs
  <1>19. ASSUME NEW e \in Editors, NEW t \in Texts, Type(e, t)
        PROVE  LockHeld'
    BY <1>19 DEF EditTypeOK, Onward, MayType, editFiles, page, request, Some, EditSteps, LockHeld, Locked, Type
  <1>20. ASSUME NEW e \in Editors, NEW t \in Valid, Apply(e, t)
        PROVE  LockHeld'
    BY <1>20 DEF EditTypeOK, Onward, MayType, editFiles, page, request, Some, EditSteps, LockHeld, Locked, Apply
  <1>21. ASSUME NEW c \in Templates, NEW t \in Texts, WriteTemplate(c, t)
        PROVE  LockHeld'
    BY <1>21 DEF EditTypeOK, Onward, MayType, editFiles, page, request, Some, EditSteps, LockHeld, Locked, WriteTemplate, Configs
  <1>22. QED
    BY <1>1, <1>2, <1>3, <1>4, <1>5, <1>6, <1>7, <1>8, <1>9, <1>10, <1>11, <1>12, <1>13, <1>14, <1>15, <1>16, <1>17, <1>18, <1>19, <1>20, <1>21 DEF EditNext, EditStep

LEMMA StillShownStep ==
    ASSUME EditInv, EditNext
    PROVE  StillShown'
  <1> USE EditsAssumption DEF EditInv
  <1>1. ASSUME NEW e \in Editors, Show(e)
        PROVE  StillShown'
    BY <1>1 DEF EditTypeOK, Onward, MayType, editFiles, page, request, Some, EditSteps, StillShown, SavesAreOfCopies, Saving, LockHeld, Locked, Configs, Show
  <1>2. ASSUME NEW e \in Editors, FillForm(e)
        PROVE  StillShown'
    BY <1>2 DEF EditTypeOK, Onward, MayType, editFiles, page, request, Some, EditSteps, StillShown, SavesAreOfCopies, Saving, LockHeld, Locked, Configs, FillForm
  <1>3. ASSUME NEW e \in Editors, Inspect(e)
        PROVE  StillShown'
    BY <1>3 DEF EditTypeOK, Onward, MayType, editFiles, page, request, Some, EditSteps, StillShown, SavesAreOfCopies, Saving, LockHeld, Locked, Configs, Inspect
  <1>4. ASSUME NEW e \in Editors, Read(e)
        PROVE  StillShown'
    BY <1>4 DEF EditTypeOK, Onward, MayType, editFiles, page, request, Some, EditSteps, StillShown, SavesAreOfCopies, Saving, LockHeld, Locked, Configs, Read
  <1>5. ASSUME NEW e \in Editors, Copy(e)
        PROVE  StillShown'
    BY <1>5 DEF EditTypeOK, Onward, MayType, editFiles, page, request, Some, EditSteps, StillShown, SavesAreOfCopies, Saving, LockHeld, Locked, Configs, Copy
  <1>6. ASSUME NEW e \in Editors, ReadTemplate(e)
        PROVE  StillShown'
    BY <1>6 DEF EditTypeOK, Onward, MayType, editFiles, page, request, Some, EditSteps, StillShown, SavesAreOfCopies, Saving, LockHeld, Locked, Configs, ReadTemplate
  <1>7. ASSUME NEW e \in Editors, FillOrigin(e)
        PROVE  StillShown'
    BY <1>7 DEF EditTypeOK, Onward, MayType, editFiles, page, request, Some, EditSteps, StillShown, SavesAreOfCopies, Saving, LockHeld, Locked, Configs, FillOrigin
  <1>8. ASSUME NEW e \in Editors, CreateTarget(e)
        PROVE  StillShown'
    BY <1>8 DEF EditTypeOK, Onward, MayType, editFiles, page, request, Some, EditSteps, StillShown, SavesAreOfCopies, Saving, LockHeld, Locked, Configs, CreateTarget
  <1>9. ASSUME NEW e \in Editors, FillTarget(e)
        PROVE  StillShown'
    BY <1>9 DEF EditTypeOK, Onward, MayType, editFiles, page, request, Some, EditSteps, StillShown, SavesAreOfCopies, Saving, LockHeld, Locked, Configs, FillTarget
  <1>10. ASSUME NEW e \in Editors, Save(e)
        PROVE  StillShown'
    BY <1>10 DEF EditTypeOK, Onward, MayType, editFiles, page, request, Some, EditSteps, StillShown, SavesAreOfCopies, Saving, LockHeld, Locked, Configs, Save
  <1>11. ASSUME NEW e \in Editors, CheckSave(e)
        PROVE  StillShown'
    BY <1>11 DEF EditTypeOK, Onward, MayType, editFiles, page, request, Some, EditSteps, StillShown, SavesAreOfCopies, Saving, LockHeld, Locked, Configs, CheckSave
  <1>12. ASSUME NEW e \in Editors, Lock(e)
        PROVE  StillShown'
    BY <1>12 DEF EditTypeOK, Onward, MayType, editFiles, page, request, Some, EditSteps, StillShown, SavesAreOfCopies, Saving, LockHeld, Locked, Configs, Lock
  <1>13. ASSUME NEW e \in Editors, Compare(e)
        PROVE  StillShown'
    BY <1>13 DEF EditTypeOK, Onward, MayType, editFiles, page, request, Some, EditSteps, StillShown, SavesAreOfCopies, Saving, LockHeld, Locked, Configs, Compare
  <1>14. ASSUME NEW e \in Editors, Replace(e)
        PROVE  StillShown'
    BY <1>14 DEF EditTypeOK, Onward, MayType, editFiles, page, request, Some, EditSteps, StillShown, SavesAreOfCopies, Saving, LockHeld, Locked, Configs, Replace
  <1>15. ASSUME NEW e \in Editors, Unlock(e)
        PROVE  StillShown'
    BY <1>15 DEF EditTypeOK, Onward, MayType, editFiles, page, request, Some, EditSteps, StillShown, SavesAreOfCopies, Saving, LockHeld, Locked, Configs, Unlock
  <1>16. ASSUME NEW e \in Editors, Fail(e)
        PROVE  StillShown'
    BY <1>16 DEF EditTypeOK, Onward, MayType, editFiles, page, request, Some, EditSteps, StillShown, SavesAreOfCopies, Saving, LockHeld, Locked, Configs, Fail
  <1>17. ASSUME NEW e \in Editors, NEW c \in Configs, Load(e, c)
        PROVE  StillShown'
    BY <1>17 DEF EditTypeOK, Onward, MayType, editFiles, page, request, Some, EditSteps, StillShown, SavesAreOfCopies, Saving, LockHeld, Locked, Configs, Load
  <1>18. ASSUME NEW e \in Editors, NEW c \in Copies, CreateOrigin(e, c)
        PROVE  StillShown'
    BY <1>18 DEF EditTypeOK, Onward, MayType, editFiles, page, request, Some, EditSteps, StillShown, SavesAreOfCopies, Saving, LockHeld, Locked, Configs, CreateOrigin
  <1>19. ASSUME NEW e \in Editors, NEW t \in Texts, Type(e, t)
        PROVE  StillShown'
    BY <1>19 DEF EditTypeOK, Onward, MayType, editFiles, page, request, Some, EditSteps, StillShown, SavesAreOfCopies, Saving, LockHeld, Locked, Configs, Type
  <1>20. ASSUME NEW e \in Editors, NEW t \in Valid, Apply(e, t)
        PROVE  StillShown'
    BY <1>20 DEF EditTypeOK, Onward, MayType, editFiles, page, request, Some, EditSteps, StillShown, SavesAreOfCopies, Saving, LockHeld, Locked, Configs, Apply
  <1>21. ASSUME NEW c \in Templates, NEW t \in Texts, WriteTemplate(c, t)
        PROVE  StillShown'
    BY <1>21 DEF EditTypeOK, Onward, MayType, editFiles, page, request, Some, EditSteps, StillShown, SavesAreOfCopies, Saving, LockHeld, Locked, Configs, WriteTemplate
  <1>22. QED
    BY <1>1, <1>2, <1>3, <1>4, <1>5, <1>6, <1>7, <1>8, <1>9, <1>10, <1>11, <1>12, <1>13, <1>14, <1>15, <1>16, <1>17, <1>18, <1>19, <1>20, <1>21 DEF EditNext, EditStep

LEMMA NamesAreFreshStep ==
    ASSUME EditInv, EditNext
    PROVE  NamesAreFresh'
  <1> USE EditsAssumption DEF EditInv
  <1>1. ASSUME NEW e \in Editors, Show(e)
        PROVE  NamesAreFresh'
    BY <1>1 DEF EditTypeOK, Onward, MayType, editFiles, page, request, Some, EditSteps, NamesAreFresh, Copying, Configs, Show
  <1>2. ASSUME NEW e \in Editors, FillForm(e)
        PROVE  NamesAreFresh'
    BY <1>2 DEF EditTypeOK, Onward, MayType, editFiles, page, request, Some, EditSteps, NamesAreFresh, Copying, Configs, FillForm
  <1>3. ASSUME NEW e \in Editors, Inspect(e)
        PROVE  NamesAreFresh'
    BY <1>3 DEF EditTypeOK, Onward, MayType, editFiles, page, request, Some, EditSteps, NamesAreFresh, Copying, Configs, Inspect
  <1>4. ASSUME NEW e \in Editors, Read(e)
        PROVE  NamesAreFresh'
    BY <1>4 DEF EditTypeOK, Onward, MayType, editFiles, page, request, Some, EditSteps, NamesAreFresh, Copying, Configs, Read
  <1>5. ASSUME NEW e \in Editors, Copy(e)
        PROVE  NamesAreFresh'
    BY <1>5 DEF EditTypeOK, Onward, MayType, editFiles, page, request, Some, EditSteps, NamesAreFresh, Copying, Configs, Copy
  <1>6. ASSUME NEW e \in Editors, ReadTemplate(e)
        PROVE  NamesAreFresh'
    BY <1>6 DEF EditTypeOK, Onward, MayType, editFiles, page, request, Some, EditSteps, NamesAreFresh, Copying, Configs, ReadTemplate
  <1>7. ASSUME NEW e \in Editors, FillOrigin(e)
        PROVE  NamesAreFresh'
    BY <1>7 DEF EditTypeOK, Onward, MayType, editFiles, page, request, Some, EditSteps, NamesAreFresh, Copying, Configs, Origins, FillOrigin
  <1>8. ASSUME NEW e \in Editors, CreateTarget(e)
        PROVE  NamesAreFresh'
    BY <1>8 DEF EditTypeOK, Onward, MayType, editFiles, page, request, Some, EditSteps, NamesAreFresh, Copying, Configs, CreateTarget
  <1>9. ASSUME NEW e \in Editors, FillTarget(e)
        PROVE  NamesAreFresh'
    BY <1>9 DEF EditTypeOK, Onward, MayType, editFiles, page, request, Some, EditSteps, NamesAreFresh, Copying, Configs, FillTarget
  <1>10. ASSUME NEW e \in Editors, Save(e)
        PROVE  NamesAreFresh'
    BY <1>10 DEF EditTypeOK, Onward, MayType, editFiles, page, request, Some, EditSteps, NamesAreFresh, Copying, Configs, Save
  <1>11. ASSUME NEW e \in Editors, CheckSave(e)
        PROVE  NamesAreFresh'
    BY <1>11 DEF EditTypeOK, Onward, MayType, editFiles, page, request, Some, EditSteps, NamesAreFresh, Copying, Configs, CheckSave
  <1>12. ASSUME NEW e \in Editors, Lock(e)
        PROVE  NamesAreFresh'
    BY <1>12 DEF EditTypeOK, Onward, MayType, editFiles, page, request, Some, EditSteps, NamesAreFresh, Copying, Configs, Lock
  <1>13. ASSUME NEW e \in Editors, Compare(e)
        PROVE  NamesAreFresh'
    BY <1>13 DEF EditTypeOK, Onward, MayType, editFiles, page, request, Some, EditSteps, NamesAreFresh, Copying, Configs, Compare
  <1>14. ASSUME NEW e \in Editors, Replace(e)
        PROVE  NamesAreFresh'
    BY <1>14 DEF EditTypeOK, Onward, MayType, editFiles, page, request, Some, EditSteps, NamesAreFresh, Copying, Configs, Replace
  <1>15. ASSUME NEW e \in Editors, Unlock(e)
        PROVE  NamesAreFresh'
    BY <1>15 DEF EditTypeOK, Onward, MayType, editFiles, page, request, Some, EditSteps, NamesAreFresh, Copying, Configs, SavesAreOfCopies, Saving, Unlock
  <1>16. ASSUME NEW e \in Editors, Fail(e)
        PROVE  NamesAreFresh'
    BY <1>16 DEF EditTypeOK, Onward, MayType, editFiles, page, request, Some, EditSteps, NamesAreFresh, Copying, Configs, Fail, Locked
  <1>17. ASSUME NEW e \in Editors, NEW c \in Configs, Load(e, c)
        PROVE  NamesAreFresh'
    BY <1>17 DEF EditTypeOK, Onward, MayType, editFiles, page, request, Some, EditSteps, NamesAreFresh, Copying, Configs, Load
  <1>18. ASSUME NEW e \in Editors, NEW c \in Copies, CreateOrigin(e, c)
        PROVE  NamesAreFresh'
    BY <1>18 DEF EditTypeOK, Onward, MayType, editFiles, page, request, Some, EditSteps, NamesAreFresh, Copying, Configs, CreateOrigin
  <1>19. ASSUME NEW e \in Editors, NEW t \in Texts, Type(e, t)
        PROVE  NamesAreFresh'
    BY <1>19 DEF EditTypeOK, Onward, MayType, editFiles, page, request, Some, EditSteps, NamesAreFresh, Copying, Configs, Type
  <1>20. ASSUME NEW e \in Editors, NEW t \in Valid, Apply(e, t)
        PROVE  NamesAreFresh'
    BY <1>20 DEF EditTypeOK, Onward, MayType, editFiles, page, request, Some, EditSteps, NamesAreFresh, Copying, Configs, Apply
  <1>21. ASSUME NEW c \in Templates, NEW t \in Texts, WriteTemplate(c, t)
        PROVE  NamesAreFresh'
    BY <1>21 DEF EditTypeOK, Onward, MayType, editFiles, page, request, Some, EditSteps, NamesAreFresh, Copying, Configs, WriteTemplate
  <1>22. QED
    BY <1>1, <1>2, <1>3, <1>4, <1>5, <1>6, <1>7, <1>8, <1>9, <1>10, <1>11, <1>12, <1>13, <1>14, <1>15, <1>16, <1>17, <1>18, <1>19, <1>20, <1>21 DEF EditNext, EditStep

LEMMA OriginsFirstStep ==
    ASSUME EditInv, EditNext
    PROVE  OriginsFirst'
  <1> USE EditsAssumption DEF EditInv
  <1>1. ASSUME NEW e \in Editors, Show(e)
        PROVE  OriginsFirst'
    BY <1>1 DEF EditTypeOK, Onward, MayType, editFiles, page, request, Some, EditSteps, OriginsFirst, NamesAreFresh, Copying, SavesAreOfCopies, Saving, Locked, Configs, Show
  <1>2. ASSUME NEW e \in Editors, FillForm(e)
        PROVE  OriginsFirst'
    BY <1>2 DEF EditTypeOK, Onward, MayType, editFiles, page, request, Some, EditSteps, OriginsFirst, NamesAreFresh, Copying, SavesAreOfCopies, Saving, Locked, Configs, FillForm
  <1>3. ASSUME NEW e \in Editors, Inspect(e)
        PROVE  OriginsFirst'
    BY <1>3 DEF EditTypeOK, Onward, MayType, editFiles, page, request, Some, EditSteps, OriginsFirst, NamesAreFresh, Copying, SavesAreOfCopies, Saving, Locked, Configs, Inspect
  <1>4. ASSUME NEW e \in Editors, Read(e)
        PROVE  OriginsFirst'
    BY <1>4 DEF EditTypeOK, Onward, MayType, editFiles, page, request, Some, EditSteps, OriginsFirst, NamesAreFresh, Copying, SavesAreOfCopies, Saving, Locked, Configs, Read
  <1>5. ASSUME NEW e \in Editors, Copy(e)
        PROVE  OriginsFirst'
    BY <1>5 DEF EditTypeOK, Onward, MayType, editFiles, page, request, Some, EditSteps, OriginsFirst, NamesAreFresh, Copying, SavesAreOfCopies, Saving, Locked, Configs, Copy
  <1>6. ASSUME NEW e \in Editors, ReadTemplate(e)
        PROVE  OriginsFirst'
    BY <1>6 DEF EditTypeOK, Onward, MayType, editFiles, page, request, Some, EditSteps, OriginsFirst, NamesAreFresh, Copying, SavesAreOfCopies, Saving, Locked, Configs, ReadTemplate
  <1>7. ASSUME NEW e \in Editors, FillOrigin(e)
        PROVE  OriginsFirst'
    BY <1>7 DEF EditTypeOK, Onward, MayType, editFiles, page, request, Some, EditSteps, Origins, OriginsFirst, NamesAreFresh, Copying, SavesAreOfCopies, Saving, Locked, Configs, FillOrigin
  <1>8. ASSUME NEW e \in Editors, CreateTarget(e)
        PROVE  OriginsFirst'
    BY <1>8 DEF EditTypeOK, Onward, MayType, editFiles, page, request, Some, EditSteps, OriginsFirst, NamesAreFresh, Copying, SavesAreOfCopies, Saving, Locked, Configs, CreateTarget
  <1>9. ASSUME NEW e \in Editors, FillTarget(e)
        PROVE  OriginsFirst'
    BY <1>9 DEF EditTypeOK, Onward, MayType, editFiles, page, request, Some, EditSteps, OriginsFirst, NamesAreFresh, Copying, SavesAreOfCopies, Saving, Locked, Configs, FillTarget
  <1>10. ASSUME NEW e \in Editors, Save(e)
        PROVE  OriginsFirst'
    BY <1>10 DEF EditTypeOK, Onward, MayType, editFiles, page, request, Some, EditSteps, OriginsFirst, NamesAreFresh, Copying, SavesAreOfCopies, Saving, Locked, Configs, Save
  <1>11. ASSUME NEW e \in Editors, CheckSave(e)
        PROVE  OriginsFirst'
    BY <1>11 DEF EditTypeOK, Onward, MayType, editFiles, page, request, Some, EditSteps, OriginsFirst, NamesAreFresh, Copying, SavesAreOfCopies, Saving, Locked, Configs, CheckSave
  <1>12. ASSUME NEW e \in Editors, Lock(e)
        PROVE  OriginsFirst'
    BY <1>12 DEF EditTypeOK, Onward, MayType, editFiles, page, request, Some, EditSteps, OriginsFirst, NamesAreFresh, Copying, SavesAreOfCopies, Saving, Locked, Configs, Lock
  <1>13. ASSUME NEW e \in Editors, Compare(e)
        PROVE  OriginsFirst'
    BY <1>13 DEF EditTypeOK, Onward, MayType, editFiles, page, request, Some, EditSteps, OriginsFirst, NamesAreFresh, Copying, SavesAreOfCopies, Saving, Locked, Configs, Compare
  <1>14. ASSUME NEW e \in Editors, Replace(e)
        PROVE  OriginsFirst'
    BY <1>14 DEF EditTypeOK, Onward, MayType, editFiles, page, request, Some, EditSteps, OriginsFirst, NamesAreFresh, Copying, SavesAreOfCopies, Saving, Locked, Configs, Replace
  <1>15. ASSUME NEW e \in Editors, Unlock(e)
        PROVE  OriginsFirst'
    BY <1>15 DEF EditTypeOK, Onward, MayType, editFiles, page, request, Some, EditSteps, OriginsFirst, NamesAreFresh, Copying, SavesAreOfCopies, Saving, Locked, Configs, Unlock
  <1>16. ASSUME NEW e \in Editors, Fail(e)
        PROVE  OriginsFirst'
    BY <1>16 DEF EditTypeOK, Onward, MayType, editFiles, page, request, Some, EditSteps, OriginsFirst, NamesAreFresh, Copying, SavesAreOfCopies, Saving, Locked, Configs, Fail
  <1>17. ASSUME NEW e \in Editors, NEW c \in Configs, Load(e, c)
        PROVE  OriginsFirst'
    BY <1>17 DEF EditTypeOK, Onward, MayType, editFiles, page, request, Some, EditSteps, OriginsFirst, NamesAreFresh, Copying, SavesAreOfCopies, Saving, Locked, Configs, Load
  <1>18. ASSUME NEW e \in Editors, NEW c \in Copies, CreateOrigin(e, c)
        PROVE  OriginsFirst'
    BY <1>18 DEF EditTypeOK, Onward, MayType, editFiles, page, request, Some, EditSteps, OriginsFirst, NamesAreFresh, Copying, SavesAreOfCopies, Saving, Locked, Configs, CreateOrigin
  <1>19. ASSUME NEW e \in Editors, NEW t \in Texts, Type(e, t)
        PROVE  OriginsFirst'
    BY <1>19 DEF EditTypeOK, Onward, MayType, editFiles, page, request, Some, EditSteps, OriginsFirst, NamesAreFresh, Copying, SavesAreOfCopies, Saving, Locked, Configs, Type
  <1>20. ASSUME NEW e \in Editors, NEW t \in Valid, Apply(e, t)
        PROVE  OriginsFirst'
    BY <1>20 DEF EditTypeOK, Onward, MayType, editFiles, page, request, Some, EditSteps, OriginsFirst, NamesAreFresh, Copying, SavesAreOfCopies, Saving, Locked, Configs, Apply
  <1>21. ASSUME NEW c \in Templates, NEW t \in Texts, WriteTemplate(c, t)
        PROVE  OriginsFirst'
    BY <1>21 DEF EditTypeOK, Onward, MayType, editFiles, page, request, Some, EditSteps, OriginsFirst, NamesAreFresh, Copying, SavesAreOfCopies, Saving, Locked, Configs, WriteTemplate
  <1>22. QED
    BY <1>1, <1>2, <1>3, <1>4, <1>5, <1>6, <1>7, <1>8, <1>9, <1>10, <1>11, <1>12, <1>13, <1>14, <1>15, <1>16, <1>17, <1>18, <1>19, <1>20, <1>21 DEF EditNext, EditStep

LEMMA CopiesHaveOriginsStep ==
    ASSUME EditInv, EditNext
    PROVE  CopiesHaveOrigins'
  <1> USE EditsAssumption DEF EditInv
  <1>1. ASSUME NEW e \in Editors, Show(e)
        PROVE  CopiesHaveOrigins'
    BY <1>1 DEF EditTypeOK, Onward, MayType, editFiles, page, request, Some, EditSteps, CopiesHaveOrigins, OriginsFirst, NamesAreFresh, Copying, SavesAreOfCopies, Saving, Locked, Configs, Show
  <1>2. ASSUME NEW e \in Editors, FillForm(e)
        PROVE  CopiesHaveOrigins'
    BY <1>2 DEF EditTypeOK, Onward, MayType, editFiles, page, request, Some, EditSteps, CopiesHaveOrigins, OriginsFirst, NamesAreFresh, Copying, SavesAreOfCopies, Saving, Locked, Configs, FillForm
  <1>3. ASSUME NEW e \in Editors, Inspect(e)
        PROVE  CopiesHaveOrigins'
    BY <1>3 DEF EditTypeOK, Onward, MayType, editFiles, page, request, Some, EditSteps, CopiesHaveOrigins, OriginsFirst, NamesAreFresh, Copying, SavesAreOfCopies, Saving, Locked, Configs, Inspect
  <1>4. ASSUME NEW e \in Editors, Read(e)
        PROVE  CopiesHaveOrigins'
    BY <1>4 DEF EditTypeOK, Onward, MayType, editFiles, page, request, Some, EditSteps, CopiesHaveOrigins, OriginsFirst, NamesAreFresh, Copying, SavesAreOfCopies, Saving, Locked, Configs, Read
  <1>5. ASSUME NEW e \in Editors, Copy(e)
        PROVE  CopiesHaveOrigins'
    BY <1>5 DEF EditTypeOK, Onward, MayType, editFiles, page, request, Some, EditSteps, CopiesHaveOrigins, OriginsFirst, NamesAreFresh, Copying, SavesAreOfCopies, Saving, Locked, Configs, Copy
  <1>6. ASSUME NEW e \in Editors, ReadTemplate(e)
        PROVE  CopiesHaveOrigins'
    BY <1>6 DEF EditTypeOK, Onward, MayType, editFiles, page, request, Some, EditSteps, CopiesHaveOrigins, OriginsFirst, NamesAreFresh, Copying, SavesAreOfCopies, Saving, Locked, Configs, ReadTemplate
  <1>7. ASSUME NEW e \in Editors, FillOrigin(e)
        PROVE  CopiesHaveOrigins'
    BY <1>7 DEF EditTypeOK, Onward, MayType, editFiles, page, request, Some, EditSteps, Origins, CopiesHaveOrigins, OriginsFirst, NamesAreFresh, Copying, SavesAreOfCopies, Saving, Locked, Configs, FillOrigin
  <1>8. ASSUME NEW e \in Editors, CreateTarget(e)
        PROVE  CopiesHaveOrigins'
    BY <1>8 DEF EditTypeOK, Onward, MayType, editFiles, page, request, Some, EditSteps, CopiesHaveOrigins, OriginsFirst, NamesAreFresh, Copying, SavesAreOfCopies, Saving, Locked, Configs, CreateTarget
  <1>9. ASSUME NEW e \in Editors, FillTarget(e)
        PROVE  CopiesHaveOrigins'
    BY <1>9 DEF EditTypeOK, Onward, MayType, editFiles, page, request, Some, EditSteps, CopiesHaveOrigins, OriginsFirst, NamesAreFresh, Copying, SavesAreOfCopies, Saving, Locked, Configs, FillTarget
  <1>10. ASSUME NEW e \in Editors, Save(e)
        PROVE  CopiesHaveOrigins'
    BY <1>10 DEF EditTypeOK, Onward, MayType, editFiles, page, request, Some, EditSteps, CopiesHaveOrigins, OriginsFirst, NamesAreFresh, Copying, SavesAreOfCopies, Saving, Locked, Configs, Save
  <1>11. ASSUME NEW e \in Editors, CheckSave(e)
        PROVE  CopiesHaveOrigins'
    BY <1>11 DEF EditTypeOK, Onward, MayType, editFiles, page, request, Some, EditSteps, CopiesHaveOrigins, OriginsFirst, NamesAreFresh, Copying, SavesAreOfCopies, Saving, Locked, Configs, CheckSave
  <1>12. ASSUME NEW e \in Editors, Lock(e)
        PROVE  CopiesHaveOrigins'
    BY <1>12 DEF EditTypeOK, Onward, MayType, editFiles, page, request, Some, EditSteps, CopiesHaveOrigins, OriginsFirst, NamesAreFresh, Copying, SavesAreOfCopies, Saving, Locked, Configs, Lock
  <1>13. ASSUME NEW e \in Editors, Compare(e)
        PROVE  CopiesHaveOrigins'
    BY <1>13 DEF EditTypeOK, Onward, MayType, editFiles, page, request, Some, EditSteps, CopiesHaveOrigins, OriginsFirst, NamesAreFresh, Copying, SavesAreOfCopies, Saving, Locked, Configs, Compare
  <1>14. ASSUME NEW e \in Editors, Replace(e)
        PROVE  CopiesHaveOrigins'
    BY <1>14 DEF EditTypeOK, Onward, MayType, editFiles, page, request, Some, EditSteps, CopiesHaveOrigins, OriginsFirst, NamesAreFresh, Copying, SavesAreOfCopies, Saving, Locked, Configs, Replace
  <1>15. ASSUME NEW e \in Editors, Unlock(e)
        PROVE  CopiesHaveOrigins'
    BY <1>15 DEF EditTypeOK, Onward, MayType, editFiles, page, request, Some, EditSteps, CopiesHaveOrigins, OriginsFirst, NamesAreFresh, Copying, SavesAreOfCopies, Saving, Locked, Configs, Unlock
  <1>16. ASSUME NEW e \in Editors, Fail(e)
        PROVE  CopiesHaveOrigins'
    BY <1>16 DEF EditTypeOK, Onward, MayType, editFiles, page, request, Some, EditSteps, CopiesHaveOrigins, OriginsFirst, NamesAreFresh, Copying, SavesAreOfCopies, Saving, Locked, Configs, Fail
  <1>17. ASSUME NEW e \in Editors, NEW c \in Configs, Load(e, c)
        PROVE  CopiesHaveOrigins'
    BY <1>17 DEF EditTypeOK, Onward, MayType, editFiles, page, request, Some, EditSteps, CopiesHaveOrigins, OriginsFirst, NamesAreFresh, Copying, SavesAreOfCopies, Saving, Locked, Configs, Load
  <1>18. ASSUME NEW e \in Editors, NEW c \in Copies, CreateOrigin(e, c)
        PROVE  CopiesHaveOrigins'
    BY <1>18 DEF EditTypeOK, Onward, MayType, editFiles, page, request, Some, EditSteps, CopiesHaveOrigins, OriginsFirst, NamesAreFresh, Copying, SavesAreOfCopies, Saving, Locked, Configs, CreateOrigin
  <1>19. ASSUME NEW e \in Editors, NEW t \in Texts, Type(e, t)
        PROVE  CopiesHaveOrigins'
    BY <1>19 DEF EditTypeOK, Onward, MayType, editFiles, page, request, Some, EditSteps, CopiesHaveOrigins, OriginsFirst, NamesAreFresh, Copying, SavesAreOfCopies, Saving, Locked, Configs, Type
  <1>20. ASSUME NEW e \in Editors, NEW t \in Valid, Apply(e, t)
        PROVE  CopiesHaveOrigins'
    BY <1>20 DEF EditTypeOK, Onward, MayType, editFiles, page, request, Some, EditSteps, CopiesHaveOrigins, OriginsFirst, NamesAreFresh, Copying, SavesAreOfCopies, Saving, Locked, Configs, Apply
  <1>21. ASSUME NEW c \in Templates, NEW t \in Texts, WriteTemplate(c, t)
        PROVE  CopiesHaveOrigins'
    BY <1>21 DEF EditTypeOK, Onward, MayType, editFiles, page, request, Some, EditSteps, CopiesHaveOrigins, OriginsFirst, NamesAreFresh, Copying, SavesAreOfCopies, Saving, Locked, Configs, WriteTemplate
  <1>22. QED
    BY <1>1, <1>2, <1>3, <1>4, <1>5, <1>6, <1>7, <1>8, <1>9, <1>10, <1>11, <1>12, <1>13, <1>14, <1>15, <1>16, <1>17, <1>18, <1>19, <1>20, <1>21 DEF EditNext, EditStep

LEMMA EditInvHolds == EditSpec => []EditInv
  <1>1. EditInit => EditInv
    BY EditsAssumption DEF EditInit, EditInv, EditTypeOK, SavesAreOfCopies, Saving,
       LockHeld, Locked, StillShown, NamesAreFresh, Copying, OriginsFirst,
       CopiesHaveOrigins, Some, Configs
  <1>2. EditInv /\ [EditNext]_editVars => EditInv'
    <2>1. ASSUME EditInv, EditNext
          PROVE  EditInv'
      BY <2>1, EditTypeOKStep, SavesAreOfCopiesStep, LockHeldStep, StillShownStep,
         NamesAreFreshStep, OriginsFirstStep, CopiesHaveOriginsStep DEF EditInv
    <2>2. ASSUME EditInv, UNCHANGED editVars
          PROVE  EditInv'
      BY <2>2 DEF EditInv, editVars, EditTypeOK, SavesAreOfCopies, LockHeld,
         StillShown, NamesAreFresh, OriginsFirst, CopiesHaveOrigins
    <2>3. QED
      BY <2>1, <2>2
  <1>3. QED
    BY <1>1, <1>2, PTL DEF EditSpec

\* Every variable of Edits keeps its type.
THEOREM EditTypeCorrect == EditSpec => []EditTypeOK
  <1>1. EditInv => EditTypeOK
    BY DEF EditInv
  <1>2. QED
    BY <1>1, EditInvHolds, PTL

\* A configuration under configs/local/ has its complete origin at every moment,
\* wherever copy_config was interrupted.
THEOREM CopiesKeepOrigins == EditSpec => []CopiesHaveOrigins
  <1>1. EditInv => CopiesHaveOrigins
    BY DEF EditInv
  <1>2. QED
    BY <1>1, EditInvHolds, PTL

\* The change of a copy that is not a step of the copying.
Accounted(c) ==
    text'[c] # text[c] /\ text[c] \notin {None, Torn} =>
        \E e \in Editors :
            path[e] = c /\ seen[e] \in {text[c], Torn}
                /\ draft[e] = text'[c] /\ draft[e] \in Valid

\* save_config replaces only the text that its editor was shown.
THEOREM EditsAreKept == EditSpec => NoLostEdit
  <1>1. ASSUME EditInv, EditNext, NEW c \in Copies
        PROVE  Accounted(c)
    <2> USE EditsAssumption DEF EditInv
    <2>1. ASSUME NEW e \in Editors, Replace(e)
          PROVE  Accounted(c)
      BY <1>1, <2>1 DEF Accounted, Replace, Onward, EditTypeOK, SavesAreOfCopies,
         Saving, Locked, StillShown, Configs
    <2>2. ASSUME NEW e \in Editors, CreateTarget(e)
          PROVE  Accounted(c)
      BY <1>1, <2>2 DEF Accounted, CreateTarget, EditTypeOK, Configs
    <2>3. ASSUME NEW e \in Editors, FillTarget(e)
          PROVE  Accounted(c)
      BY <1>1, <2>3 DEF Accounted, FillTarget, EditTypeOK, Configs
    <2>4. ASSUME NEW d \in Templates, NEW t \in Texts, WriteTemplate(d, t)
          PROVE  Accounted(c)
      BY <1>1, <2>4 DEF Accounted, WriteTemplate, EditTypeOK, Configs
    <2>5. ASSUME UNCHANGED text
          PROVE  Accounted(c)
      BY <2>5 DEF Accounted
    <2>6. QED
      BY <1>1, <2>1, <2>2, <2>3, <2>4, <2>5 DEF EditNext, EditStep, editFiles, Load,
         CreateOrigin, Type, Apply, Show, FillForm, Inspect, Read, Copy,
         ReadTemplate, FillOrigin, Save, CheckSave, Lock, Compare, Unlock, Fail
  <1>2. ASSUME EditInv, [EditNext]_editVars
        PROVE  [\A c \in Copies : Accounted(c)]_editVars
    BY <1>1, <1>2
  <1>3. EditInv /\ [EditNext]_editVars => [\A c \in Copies : Accounted(c)]_editVars
    BY <1>2
  <1>4. EditSpec => [][\A c \in Copies : Accounted(c)]_editVars
    BY <1>3, EditInvHolds, PTL DEF EditSpec
  <1>5. QED
    BY <1>4, PTL DEF NoLostEdit, Accounted

-----------------------------------------------------------------------------
(* The invariant of Annotations.                                           *)

\* What a page took from an answer is not newer than the row, and is the row if
\* its revision is the row's.
Taken(x, s) ==
    /\ x.revision <= row[s].revision
    /\ x.revision = row[s].revision => x = row[s]

RowsTaken ==
    \A s \in Experiments : Taken(NoRow, s) /\ \A r \in Pages :
        /\ Taken(shown[r][s], s)
        /\ answer[r] # Nothing => Taken(answer[r][s], s)
        /\ dialog[r] = s => Taken(base[r], s)

\* The transaction has one holder, whose revision has been compared.
Transactions ==
    \A r \in Pages :
        /\ saving[r] # "no" =>
               dialog[r] \in Experiments /\ base[r].revision < MaxRevision
                   /\ entry[r] \in Notes
        /\ saving[r] \in InTransaction => txn = r
        /\ saving[r] \in {"source", "insert"} =>
               row[dialog[r]].revision = base[r].revision

NoteInv == NoteTypeOK /\ RowsTaken /\ Transactions

LEMMA NoteTypeOKStep ==
    ASSUME NoteInv, NoteNext
    PROVE  NoteTypeOK'
  <1> USE AnnotationsAssumption DEF NoteInv
  <1>1. ASSUME NEW r \in Pages, SelectRows(r)
        PROVE  NoteTypeOK'
    BY <1>1 DEF NoteTypeOK, Row, InTransaction, Transactions, SelectRows, Advance
  <1>2. ASSUME NEW r \in Pages, Arrive(r)
        PROVE  NoteTypeOK'
    BY <1>2 DEF NoteTypeOK, Row, InTransaction, Transactions, Arrive, Advance
  <1>3. ASSUME NEW r \in Pages, LoseAnswer(r)
        PROVE  NoteTypeOK'
    BY <1>3 DEF NoteTypeOK, Row, InTransaction, Transactions, LoseAnswer, NoRow, Advance
  <1>4. ASSUME NEW r \in Pages, Validate(r)
        PROVE  NoteTypeOK'
    BY <1>4 DEF NoteTypeOK, Row, InTransaction, Transactions, Validate, Advance
  <1>5. ASSUME NEW r \in Pages, BeginImmediate(r)
        PROVE  NoteTypeOK'
    BY <1>5 DEF NoteTypeOK, Row, InTransaction, Transactions, BeginImmediate, Advance
  <1>6. ASSUME NEW r \in Pages, CompareRevision(r)
        PROVE  NoteTypeOK'
    BY <1>6 DEF NoteTypeOK, Row, InTransaction, Transactions, CompareRevision, Advance
  <1>7. ASSUME NEW r \in Pages, CheckSource(r)
        PROVE  NoteTypeOK'
    BY <1>7 DEF NoteTypeOK, Row, InTransaction, Transactions, CheckSource, Advance
  <1>8. ASSUME NEW r \in Pages, Insert(r)
        PROVE  NoteTypeOK'
    BY <1>8 DEF NoteTypeOK, Row, InTransaction, Transactions, Insert, Item, NoRow, Advance
  <1>9. ASSUME NEW r \in Pages, InsertSilently(r)
        PROVE  NoteTypeOK'
    BY <1>9 DEF NoteTypeOK, Row, InTransaction, Transactions, InsertSilently, Item, Advance
  <1>10. ASSUME NEW r \in Pages, FailNote(r)
        PROVE  NoteTypeOK'
    BY <1>10 DEF NoteTypeOK, Row, InTransaction, Transactions, FailNote, Advance
  <1>11. ASSUME NEW r \in Pages, NEW s \in Experiments, EditAnnotation(r, s)
        PROVE  NoteTypeOK'
    BY <1>11 DEF NoteTypeOK, Row, InTransaction, Transactions, EditAnnotation, Advance
  <1>12. ASSUME NEW r \in Pages, NEW n \in Notes, SaveNote(r, n)
        PROVE  NoteTypeOK'
    BY <1>12 DEF NoteTypeOK, Row, InTransaction, Transactions, SaveNote, Advance
  <1>13. ASSUME NEW s \in Experiments, Change(s)
        PROVE  NoteTypeOK'
    BY <1>13 DEF NoteTypeOK, Row, InTransaction, Transactions, Change, notes
  <1>14. QED
    BY <1>1, <1>2, <1>3, <1>4, <1>5, <1>6, <1>7, <1>8, <1>9, <1>10, <1>11, <1>12, <1>13 DEF NoteNext, NoteStep

LEMMA RowsTakenStep ==
    ASSUME NoteInv, NoteNext
    PROVE  RowsTaken'
  <1> USE AnnotationsAssumption DEF NoteInv
  <1>1. ASSUME NEW r \in Pages, SelectRows(r)
        PROVE  RowsTaken'
    BY <1>1 DEF NoteTypeOK, Row, InTransaction, RowsTaken, Taken, Transactions, NoRow, SelectRows, Advance
  <1>2. ASSUME NEW r \in Pages, Arrive(r)
        PROVE  RowsTaken'
    BY <1>2 DEF NoteTypeOK, Row, InTransaction, RowsTaken, Taken, Transactions, NoRow, Arrive, Advance
  <1>3. ASSUME NEW r \in Pages, LoseAnswer(r)
        PROVE  RowsTaken'
    BY <1>3 DEF NoteTypeOK, Row, InTransaction, RowsTaken, Taken, Transactions, NoRow, LoseAnswer, Advance
  <1>4. ASSUME NEW r \in Pages, Validate(r)
        PROVE  RowsTaken'
    BY <1>4 DEF NoteTypeOK, Row, InTransaction, RowsTaken, Taken, Transactions, NoRow, Validate, Advance
  <1>5. ASSUME NEW r \in Pages, BeginImmediate(r)
        PROVE  RowsTaken'
    BY <1>5 DEF NoteTypeOK, Row, InTransaction, RowsTaken, Taken, Transactions, NoRow, BeginImmediate, Advance
  <1>6. ASSUME NEW r \in Pages, CompareRevision(r)
        PROVE  RowsTaken'
    BY <1>6 DEF NoteTypeOK, Row, InTransaction, RowsTaken, Taken, Transactions, NoRow, CompareRevision, Advance
  <1>7. ASSUME NEW r \in Pages, CheckSource(r)
        PROVE  RowsTaken'
    BY <1>7 DEF NoteTypeOK, Row, InTransaction, RowsTaken, Taken, Transactions, NoRow, CheckSource, Advance
  <1>8. ASSUME NEW r \in Pages, Insert(r)
        PROVE  RowsTaken'
    BY <1>8 DEF NoteTypeOK, Row, InTransaction, RowsTaken, Taken, Transactions, NoRow, Insert, Item, Advance
  <1>9. ASSUME NEW r \in Pages, InsertSilently(r)
        PROVE  RowsTaken'
    BY <1>9 DEF NoteTypeOK, Row, InTransaction, RowsTaken, Taken, Transactions, NoRow, InsertSilently, Item, Advance
  <1>10. ASSUME NEW r \in Pages, FailNote(r)
        PROVE  RowsTaken'
    BY <1>10 DEF NoteTypeOK, Row, InTransaction, RowsTaken, Taken, Transactions, NoRow, FailNote, Advance
  <1>11. ASSUME NEW r \in Pages, NEW s \in Experiments, EditAnnotation(r, s)
        PROVE  RowsTaken'
    BY <1>11 DEF NoteTypeOK, Row, InTransaction, RowsTaken, Taken, Transactions, NoRow, EditAnnotation, Advance
  <1>12. ASSUME NEW r \in Pages, NEW n \in Notes, SaveNote(r, n)
        PROVE  RowsTaken'
    BY <1>12 DEF NoteTypeOK, Row, InTransaction, RowsTaken, Taken, Transactions, NoRow, SaveNote, Advance
  <1>13. ASSUME NEW s \in Experiments, Change(s)
        PROVE  RowsTaken'
    BY <1>13 DEF NoteTypeOK, Row, InTransaction, RowsTaken, Taken, Transactions, NoRow, Change, notes
  <1>14. QED
    BY <1>1, <1>2, <1>3, <1>4, <1>5, <1>6, <1>7, <1>8, <1>9, <1>10, <1>11, <1>12, <1>13 DEF NoteNext, NoteStep

LEMMA TransactionsStep ==
    ASSUME NoteInv, NoteNext
    PROVE  Transactions'
  <1> USE AnnotationsAssumption DEF NoteInv
  <1>1. ASSUME NEW r \in Pages, SelectRows(r)
        PROVE  Transactions'
    BY <1>1 DEF NoteTypeOK, Row, InTransaction, Transactions, SelectRows, Advance
  <1>2. ASSUME NEW r \in Pages, Arrive(r)
        PROVE  Transactions'
    BY <1>2 DEF NoteTypeOK, Row, InTransaction, Transactions, Arrive, Advance
  <1>3. ASSUME NEW r \in Pages, LoseAnswer(r)
        PROVE  Transactions'
    BY <1>3 DEF NoteTypeOK, Row, InTransaction, Transactions, LoseAnswer, NoRow, Advance
  <1>4. ASSUME NEW r \in Pages, Validate(r)
        PROVE  Transactions'
    BY <1>4 DEF NoteTypeOK, Row, InTransaction, Transactions, Validate, Advance
  <1>5. ASSUME NEW r \in Pages, BeginImmediate(r)
        PROVE  Transactions'
    BY <1>5 DEF NoteTypeOK, Row, InTransaction, Transactions, BeginImmediate, Advance
  <1>6. ASSUME NEW r \in Pages, CompareRevision(r)
        PROVE  Transactions'
    BY <1>6 DEF NoteTypeOK, Row, InTransaction, Transactions, CompareRevision, Advance
  <1>7. ASSUME NEW r \in Pages, CheckSource(r)
        PROVE  Transactions'
    BY <1>7 DEF NoteTypeOK, Row, InTransaction, Transactions, CheckSource, Advance
  <1>8. ASSUME NEW r \in Pages, Insert(r)
        PROVE  Transactions'
    BY <1>8 DEF NoteTypeOK, Row, InTransaction, Transactions, Insert, Item, NoRow, Advance
  <1>9. ASSUME NEW r \in Pages, InsertSilently(r)
        PROVE  Transactions'
    BY <1>9 DEF NoteTypeOK, Row, InTransaction, Transactions, InsertSilently, Item, Advance
  <1>10. ASSUME NEW r \in Pages, FailNote(r)
        PROVE  Transactions'
    BY <1>10 DEF NoteTypeOK, Row, InTransaction, Transactions, FailNote, Advance
  <1>11. ASSUME NEW r \in Pages, NEW s \in Experiments, EditAnnotation(r, s)
        PROVE  Transactions'
    BY <1>11 DEF NoteTypeOK, Row, InTransaction, Transactions, EditAnnotation, Advance
  <1>12. ASSUME NEW r \in Pages, NEW n \in Notes, SaveNote(r, n)
        PROVE  Transactions'
    BY <1>12 DEF NoteTypeOK, Row, InTransaction, Transactions, SaveNote, Advance
  <1>13. ASSUME NEW s \in Experiments, Change(s)
        PROVE  Transactions'
    BY <1>13 DEF NoteTypeOK, Row, InTransaction, Transactions, Change, notes
  <1>14. QED
    BY <1>1, <1>2, <1>3, <1>4, <1>5, <1>6, <1>7, <1>8, <1>9, <1>10, <1>11, <1>12, <1>13 DEF NoteNext, NoteStep

LEMMA NoteInvHolds == NoteSpec => []NoteInv
  <1>1. NoteInit => NoteInv
    BY AnnotationsAssumption DEF NoteInit, NoteInv, NoteTypeOK, Row, NoRow,
       InTransaction, RowsTaken, Taken, Transactions
  <1>2. NoteInv /\ [NoteNext]_noteVars => NoteInv'
    <2>1. ASSUME NoteInv, NoteNext
          PROVE  NoteInv'
      BY <2>1, NoteTypeOKStep, RowsTakenStep, TransactionsStep DEF NoteInv
    <2>2. ASSUME NoteInv, UNCHANGED noteVars
          PROVE  NoteInv'
      BY <2>2 DEF NoteInv, noteVars, NoteTypeOK, RowsTaken, Taken, Transactions
    <2>3. QED
      BY <2>1, <2>2
  <1>3. QED
    BY <1>1, <1>2, PTL DEF NoteSpec

\* The step that a row may take.
Succeeds(s) ==
    row'[s] # row[s] =>
        /\ row'[s].revision = row[s].revision + 1
        /\ \E r \in Pages : dialog[r] = s /\ base[r] = row[s]

\* set_annotation replaces only the row that the page's dialog was opened with.
THEOREM NotesAreKept == NoteSpec => NoLostNote
  <1>1. ASSUME NoteInv, NEW r \in Pages, Insert(r) \/ InsertSilently(r),
               NEW s \in Experiments
        PROVE  Succeeds(s)
    <2>1. /\ saving[r] = "insert"
          /\ row' = [row EXCEPT ![dialog[r]] = Item(r)]
      BY <1>1 DEF Insert, InsertSilently, Advance
    <2>2. /\ dialog[r] \in Experiments /\ base[r] = row[dialog[r]]
      BY <1>1, <2>1 DEF NoteInv, RowsTaken, Taken, Transactions
    <2>3. CASE s = dialog[r]
      BY <2>1, <2>2, <2>3, <1>1 DEF Succeeds, Item, NoteInv, NoteTypeOK
    <2>4. CASE s # dialog[r]
      BY <2>1, <2>2, <2>4, <1>1 DEF Succeeds, NoteInv, NoteTypeOK
    <2>5. QED
      BY <2>3, <2>4
  <1>2. ASSUME NoteInv, NoteNext, NEW s \in Experiments
        PROVE  Succeeds(s)
    <2>1. ASSUME UNCHANGED row
          PROVE  Succeeds(s)
      BY <2>1 DEF Succeeds
    <2>2. QED
      BY <1>1, <1>2, <2>1 DEF NoteNext, NoteStep, notes, SelectRows, Arrive,
         LoseAnswer, Validate, BeginImmediate, CompareRevision, CheckSource,
         FailNote, EditAnnotation, SaveNote, Change
  <1>3. NoteInv /\ [NoteNext]_noteVars => [\A s \in Experiments : Succeeds(s)]_noteVars
    BY <1>2
  <1>4. NoteSpec => [][\A s \in Experiments : Succeeds(s)]_noteVars
    BY <1>3, NoteInvHolds, PTL DEF NoteSpec
  <1>5. QED
    BY <1>4, PTL DEF NoLostNote, Succeeds

=============================================================================
