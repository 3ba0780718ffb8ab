---------------------------- MODULE SourceIndex ----------------------------
(***************************************************************************)
(* The derived index of src/src/maxcover/dashboard_index.py and the loader *)
(* that dashboard_workbench.py gives it.                                   *)
(*                                                                         *)
(* A request takes the identity of a source file, looks for an entry with  *)
(* that identity in a SQLite table that all Dashboard processes share,     *)
(* otherwise parses the file and stores what it found.  It compares        *)
(* identities again before it answers and, once, starts over.  No lock     *)
(* keeps the programs that write results from the files meanwhile.         *)
(***************************************************************************)
EXTENDS Naturals, FiniteSets

CONSTANTS
    Readers,     \* threads and processes that read sources
    Sources,     \* directories with results
    Written,     \* the <<source, file>> pairs that some program writes
    Unparsable,  \* the versions that no parser accepts
    MaxWrites,   \* bound on the number of writes
    Nil

Kinds == {"paths", "raw"}

ASSUME IndexAssumption ==
    /\ Written \subseteq Sources \X Kinds
    /\ Unparsable \subseteq Nat
    /\ MaxWrites \in Nat
    /\ Nil \notin Readers \cup Sources

\* Every source holds one kind of file.
OneKind == \A s \in Sources : ~({<<s, "paths">>, <<s, "raw">>} \subseteq Written)

VARIABLES
    \* Files and the database.
    files,   \* files[s][k]: the version of paths.jsonl or raw_results.csv, or 0
    writes,  \* the number of writes, which numbers the versions
    cache,   \* cache[s][k]: the entry stored for that file
    \* Requests.
    pc,      \* where the request of a reader is
    src,     \* its source
    kind,    \* the file that _source_path chose
    fresh,   \* refresh: do not look at the cache
    pass,    \* how many times the loop of _request began
    sig,     \* before: the identity taken
    trust,   \* cache_available
    doc,     \* the document found
    result,  \* the answer to the last request
    moved    \* history: was the source written since the request began?

disk == <<files, writes>>
locals == <<src, kind, fresh, pass, sig, trust, doc>>
indexVars == <<files, writes, cache, pc, src, kind, fresh, pass, sig, trust,
               doc, result, moved>>

-----------------------------------------------------------------------------
\* A document is read from its file in a sequence of reads: from and to are the
\* versions that the first and the last of them saw.  An identity (device,
\* inode, size, modification and change times) changes with every write.
Doc == [kind : Kinds, from : Nat, to : Nat]
Whole(d) == d.from = d.to
Content(k, v) == [kind |-> k, from |-> v, to |-> v]
Entry == [sig : Nat, doc : Doc]

ASSUME NoneApart == Nil \notin Doc

Steps == {"path", "before", "lookup", "hit", "load", "open", "reading", "loaded",
          "save", "after"}

IndexTypeOK ==
    /\ files \in [Sources -> [Kinds -> Nat]]
    /\ writes \in Nat
    /\ cache \in [Sources -> [Kinds -> {Nil} \cup Entry]]
    /\ pc \in [Readers -> {"idle"} \cup Steps]
    /\ src \in [Readers -> Sources \cup {Nil}]
    /\ kind \in [Readers -> Kinds \cup {Nil}]
    /\ fresh \in [Readers -> BOOLEAN]
    /\ pass \in [Readers -> 0 .. 2]
    /\ sig \in [Readers -> Nat]
    /\ trust \in [Readers -> BOOLEAN]
    /\ doc \in [Readers -> Doc \cup {Nil}]
    /\ result \in [Readers -> Doc \cup {Nil}]
    /\ moved \in [Readers -> BOOLEAN]

IndexInit ==
    /\ files = [s \in Sources |-> [k \in Kinds |-> 0]]
    /\ writes = 0
    /\ cache = [s \in Sources |-> [k \in Kinds |-> Nil]]
    /\ pc = [r \in Readers |-> "idle"]
    /\ src = [r \in Readers |-> Nil]
    /\ kind = [r \in Readers |-> Nil]
    /\ fresh = [r \in Readers |-> FALSE]
    /\ pass = [r \in Readers |-> 0]
    /\ sig = [r \in Readers |-> 0]
    /\ trust = [r \in Readers |-> FALSE]
    /\ doc = [r \in Readers |-> Nil]
    /\ result = [r \in Readers |-> Nil]
    /\ moved = [r \in Readers |-> FALSE]

-----------------------------------------------------------------------------
(* Programs that write results, and accidents.                             *)

Touch(s, k, v) ==
    /\ files' = [files EXCEPT ![s] = [@ EXCEPT ![k] = v]]
    /\ moved' = [r \in Readers |->
                    moved[r] \/ (src[r] = s /\ pc[r] # "idle")]
    /\ UNCHANGED <<cache, pc, locals, result>>

\* A file is replaced, as atomic_write_text does, or takes one of the several
\* writes of a program that writes it in place (analysis/greedy_failure_paths.py).
Write(s, k) ==
    /\ <<s, k>> \in Written /\ writes < MaxWrites
    /\ writes' = writes + 1
    /\ Touch(s, k, writes + 1)

\* --force, or the user, removes a file.
RemoveFile(s, k) ==
    /\ <<s, k>> \in Written /\ files[s][k] # 0
    /\ Touch(s, k, 0)
    /\ UNCHANGED writes

\* clear(): the database is removed under the lock of all its users.
Clear ==
    /\ cache' = [s \in Sources |-> [k \in Kinds |-> Nil]]
    /\ UNCHANGED <<disk, pc, locals, result, moved>>

-----------------------------------------------------------------------------
(* One request: _request and its callers.                                  *)

\* The request is over: with an answer, or with an exception (Nil).
Return(r, d) ==
    /\ pc' = [pc EXCEPT ![r] = "idle"]
    /\ result' = [result EXCEPT ![r] = d]
    /\ src' = [src EXCEPT ![r] = Nil]
    /\ kind' = [kind EXCEPT ![r] = Nil]
    /\ fresh' = [fresh EXCEPT ![r] = FALSE]
    /\ pass' = [pass EXCEPT ![r] = 0]
    /\ sig' = [sig EXCEPT ![r] = 0]
    /\ trust' = [trust EXCEPT ![r] = FALSE]
    /\ doc' = [doc EXCEPT ![r] = Nil]
    /\ moved' = [moved EXCEPT ![r] = FALSE]

Goto(r, from, to) == pc[r] = from /\ pc' = [pc EXCEPT ![r] = to]

Request(r, s, f) ==
    /\ Goto(r, "idle", "path")
    /\ src' = [src EXCEPT ![r] = s]
    /\ fresh' = [fresh EXCEPT ![r] = f]
    /\ result' = [result EXCEPT ![r] = Nil]
    /\ UNCHANGED <<disk, cache, kind, pass, sig, trust, doc, moved>>

\* paths.jsonl if it is there, else raw_results.csv.
Chosen(s) == IF files[s]["paths"] # 0 THEN "paths" ELSE "raw"

\* _source_path.
ChoosePath(r) ==
    /\ Goto(r, "path", "before")
    /\ kind' = [kind EXCEPT ![r] = Chosen(src[r])]
    /\ UNCHANGED <<disk, cache, src, fresh, pass, sig, trust, doc, result, moved>>

Identity(r) == files[src[r]][kind[r]]
Missing(r) == Identity(r) = 0

\* The identity is taken at the start of each of the two passes.
TakeIdentity(r) ==
    /\ Goto(r, "before", IF fresh[r] THEN "load" ELSE "lookup")
    /\ ~Missing(r)
    /\ sig' = [sig EXCEPT ![r] = Identity(r)]
    /\ pass' = [pass EXCEPT ![r] = @ + 1]
    /\ trust' = [trust EXCEPT ![r] = TRUE]
    /\ UNCHANGED <<disk, cache, src, kind, fresh, doc, result, moved>>

\* Mutant: an entry is taken whatever its identity.
EntryForAny(r) == cache[src[r]][kind[r]] # Nil

EntryFor(r) ==
    /\ cache[src[r]][kind[r]] # Nil
    /\ cache[src[r]][kind[r]].sig = sig[r]

LookupHits(r) ==
    /\ Goto(r, "lookup", "hit")
    /\ EntryFor(r)
    /\ doc' = [doc EXCEPT ![r] = cache[src[r]][kind[r]].doc]
    /\ UNCHANGED <<disk, cache, src, kind, fresh, pass, sig, trust, result, moved>>

LookupMisses(r) ==
    /\ Goto(r, "lookup", "load")
    /\ ~EntryFor(r)
    /\ UNCHANGED <<disk, cache, locals, result, moved>>

\* An entry whose rows or JSON are damaged, a database error or a lock that stays
\* busy for five seconds: the cache is left alone for this pass.
LookupFails(r) ==
    /\ Goto(r, "lookup", "load")
    /\ trust' = [trust EXCEPT ![r] = FALSE]
    /\ UNCHANGED <<disk, cache, src, kind, fresh, pass, sig, doc, result, moved>>

\* _load asks again which file there is, and then opens it.
ChooseAgain(r) ==
    /\ Goto(r, "load", "open")
    /\ doc' = [doc EXCEPT ![r] = Content(Chosen(src[r]), 0)]
    /\ UNCHANGED <<disk, cache, src, kind, fresh, pass, sig, trust, result, moved>>

Opened(r) == files[src[r]][doc[r].kind]

OpenSource(r) ==
    /\ Goto(r, "open", "reading")
    /\ Opened(r) # 0
    /\ doc' = [doc EXCEPT ![r] = Content(doc[r].kind, Opened(r))]
    /\ UNCHANGED <<disk, cache, src, kind, fresh, pass, sig, trust, result, moved>>

\* The last read: of the file that was opened, or of what was written into it.
Parses(d) == Whole(d) => d.from \notin Unparsable

ReadSource(r) ==
    /\ Goto(r, "reading", "loaded")
    /\ \E v \in {doc[r].from, Opened(r)} \ {0} :
           LET d == [kind |-> doc[r].kind, from |-> doc[r].from, to |-> v]
           IN Parses(d) /\ doc' = [doc EXCEPT ![r] = d]
    /\ UNCHANGED <<disk, cache, src, kind, fresh, pass, sig, trust, result, moved>>

\* Mutant: what was parsed is stored without looking at the file again.
AcceptUnchecked(r) ==
    /\ Goto(r, "loaded", IF trust[r] THEN "save" ELSE "after")
    /\ UNCHANGED <<disk, cache, locals, result, moved>>

\* The first comparison after parsing.
Accept(r) ==
    /\ Goto(r, "loaded", IF trust[r] THEN "save" ELSE "after")
    /\ Identity(r) = sig[r]
    /\ UNCHANGED <<disk, cache, locals, result, moved>>

\* _save replaces the entry in one transaction.
Store(r) ==
    /\ Goto(r, "save", "after")
    /\ cache' = [cache EXCEPT ![src[r]] = [@ EXCEPT ![kind[r]] =
                    [sig |-> sig[r], doc |-> doc[r]]]]
    /\ UNCHANGED <<disk, locals, result, moved>>

StoreFails(r) ==
    /\ Goto(r, "save", "after")
    /\ UNCHANGED <<disk, cache, locals, result, moved>>

\* The comparison before an answer, from the cache or from the source.
AnswerRequest(r) ==
    /\ pc[r] \in {"hit", "after"}
    /\ Identity(r) = sig[r]
    /\ Return(r, doc[r])
    /\ UNCHANGED <<disk, cache>>

\* Another identity: the second pass, or SourceChangedError.
Changed(r) ==
    /\ pc[r] \in {"hit", "loaded", "after"}
    /\ ~Missing(r) /\ Identity(r) # sig[r]

TryAgain(r) ==
    /\ Changed(r) /\ pass[r] < 2
    /\ pc' = [pc EXCEPT ![r] = "before"]
    /\ sig' = [sig EXCEPT ![r] = 0]
    /\ doc' = [doc EXCEPT ![r] = Nil]
    /\ UNCHANGED <<disk, cache, src, kind, fresh, pass, trust, result, moved>>

\* The exceptions of a request: a file that is not there, one that does not
\* parse, one that kept changing.
Fails(r) ==
    \/ pc[r] \in {"before", "hit", "loaded", "after"} /\ Missing(r)
    \/ pc[r] = "open" /\ Opened(r) = 0
    \/ pc[r] = "reading" /\ (doc[r].from \in Unparsable \/ Opened(r) # doc[r].from)
    \/ Changed(r) /\ pass[r] = 2

FailRequest(r) ==
    /\ Fails(r)
    /\ Return(r, Nil)
    /\ UNCHANGED <<disk, cache>>

-----------------------------------------------------------------------------
Accident ==
    \/ \E s \in Sources, k \in Kinds : Write(s, k) \/ RemoveFile(s, k)
    \/ Clear

Step(r) ==
    \/ ChoosePath(r) \/ TakeIdentity(r)
    \/ LookupHits(r) \/ LookupMisses(r) \/ LookupFails(r)
    \/ ChooseAgain(r) \/ OpenSource(r) \/ ReadSource(r) \/ Accept(r)
    \/ Store(r) \/ StoreFails(r)
    \/ AnswerRequest(r) \/ TryAgain(r) \/ FailRequest(r)

IndexNext ==
    \/ Accident
    \/ \E r \in Readers :
           \/ \E s \in Sources, f \in BOOLEAN : Request(r, s, f)
           \/ Step(r)

IndexSpec == IndexInit /\ [][IndexNext]_indexVars

-----------------------------------------------------------------------------
\* An entry holds, whole, the content that had the identity stored with it:
\* what was parsed across a write, or from another file, is never kept, so no
\* later request can be answered from it.
EntriesHonest ==
    \A s \in Sources, k \in Kinds :
        cache[s][k] # Nil => cache[s][k].doc = Content(k, cache[s][k].sig)

-----------------------------------------------------------------------------
\* What a source holds at an instant.
Held(s) ==
    IF files[s][Chosen(s)] = 0 THEN Nil
    ELSE Content(Chosen(s), files[s][Chosen(s)])

Fresh == INSTANCE FreshRead WITH
    None <- Nil,
    Contents <- Doc,
    Unreadable <- {d \in Doc : ~Parses(d)},
    content <- [s \in Sources |-> Held(s)],
    asked <- {q \in Readers \X Sources : pc[q[1]] # "idle" /\ src[q[1]] = q[2]},
    moved <- {r \in Readers : moved[r]},
    answer <- result

\* With one kind of file per source, requests are as good as reading the source
\* in one step, whatever is written, cached or cleared meanwhile; and
\* they fail only for a source that moved or cannot be read.
ImplementsFreshRead == Fresh!Spec

=============================================================================
