---------------------------- MODULE Annotations ----------------------------
(***************************************************************************)
(* Notes on experiments: the library page of workbench.js and              *)
(* set_annotation and annotations of ExperimentsService                    *)
(* (src/src/maxcover/dashboard_experiments.py), over a SQLite database     *)
(* that the threads of one or more servers share.                          *)
(*                                                                         *)
(* The theme, the tags and the notes of a source are one value.            *)
(***************************************************************************)
EXTENDS Naturals

CONSTANTS
    Pages,      \* pages
    Experiments,      \* experiments
    Notes,
    MaxRevision,  \* bound on the number of changes of a source
    Nothing

ASSUME AnnotationsAssumption ==
    /\ MaxRevision \in Nat
    /\ Nothing \notin Notes \cup Experiments \cup Pages

VARIABLES
    readable,  \* the sources whose records can be read
    \* The database.
    row,       \* revision and note of a source; no row is revision 0
    txn,       \* the page whose request holds the write transaction
    \* Pages.
    shown,     \* state.annotations
    answer,    \* an answer of the server to loadAnnotations that is on its way
    dialog,    \* the source that is being annotated
    base,      \* what the dialog was opened with
    entry,     \* what was typed
    saving     \* where the request to save is

notes == <<row, txn, shown, answer, dialog, base, entry, saving>>
noteVars == <<readable, row, txn, shown, answer, dialog, base, entry, saving>>

Row == [revision : 0 .. MaxRevision, note : Notes \cup {Nothing}]
NoRow == [revision |-> 0, note |-> Nothing]
InTransaction == {"compare", "source", "insert"}

NoteTypeOK ==
    /\ readable \subseteq Experiments
    /\ row \in [Experiments -> Row]
    /\ txn \in Pages \cup {Nothing}
    /\ shown \in [Pages -> [Experiments -> Row]]
    /\ answer \in [Pages -> [Experiments -> Row] \cup {Nothing}]
    /\ dialog \in [Pages -> Experiments \cup {Nothing}]
    /\ base \in [Pages -> Row]
    /\ entry \in [Pages -> Notes \cup {Nothing}]
    /\ saving \in [Pages -> {"no", "validate", "begin"} \cup InTransaction]

NoteInit ==
    /\ readable = Experiments
    /\ row = [s \in Experiments |-> NoRow]
    /\ txn = Nothing
    /\ shown = [r \in Pages |-> [s \in Experiments |-> NoRow]]
    /\ answer = [r \in Pages |-> Nothing]
    /\ dialog = [r \in Pages |-> Nothing]
    /\ base = [r \in Pages |-> NoRow]
    /\ entry = [r \in Pages |-> Nothing]
    /\ saving = [r \in Pages |-> "no"]

-----------------------------------------------------------------------------
(* loadAnnotations: one SELECT reads all rows; answers may be late.        *)

SelectRows(r) ==
    /\ answer[r] = Nothing
    /\ answer' = [answer EXCEPT ![r] = row]
    /\ UNCHANGED <<readable, row, txn, shown, dialog, base, entry, saving>>

Arrive(r) ==
    /\ answer[r] # Nothing
    /\ shown' = [shown EXCEPT ![r] = answer[r]]
    /\ answer' = [answer EXCEPT ![r] = Nothing]
    /\ UNCHANGED <<readable, row, txn, dialog, base, entry, saving>>

\* A failed load leaves the page without notes; the buttons of a table that was
\* not rendered again still open dialogs.
LoseAnswer(r) ==
    /\ answer[r] # Nothing
    /\ shown' = [shown EXCEPT ![r] = [s \in Experiments |-> NoRow]]
    /\ answer' = [answer EXCEPT ![r] = Nothing]
    /\ UNCHANGED <<readable, row, txn, dialog, base, entry, saving>>

-----------------------------------------------------------------------------
(* The dialog, and set_annotation.                                         *)

EditAnnotation(r, s) ==
    /\ saving[r] = "no"
    /\ dialog' = [dialog EXCEPT ![r] = s]
    /\ base' = [base EXCEPT ![r] = shown[r][s]]
    /\ entry' = [entry EXCEPT ![r] = Nothing]
    /\ UNCHANGED <<readable, row, txn, shown, answer, saving>>

SaveNote(r, n) ==
    /\ saving[r] = "no" /\ dialog[r] # Nothing
    /\ base[r].revision < MaxRevision
    /\ entry' = [entry EXCEPT ![r] = n]
    /\ saving' = [saving EXCEPT ![r] = "validate"]
    /\ UNCHANGED <<readable, row, txn, shown, answer, dialog, base>>

Advance(r, from, to) == saving[r] = from /\ saving' = [saving EXCEPT ![r] = to]

Validate(r) ==
    /\ Advance(r, "validate", "begin")
    /\ dialog[r] \in readable
    /\ UNCHANGED <<readable, row, txn, shown, answer, dialog, base, entry>>

\* Mutant: BEGIN without IMMEDIATE takes no lock before the first write.
BeginDeferred(r) ==
    /\ Advance(r, "begin", "compare")
    /\ txn' = r
    /\ UNCHANGED <<readable, row, shown, answer, dialog, base, entry>>

BeginImmediate(r) ==
    /\ Advance(r, "begin", "compare")
    /\ txn = Nothing
    /\ txn' = r
    /\ UNCHANGED <<readable, row, shown, answer, dialog, base, entry>>

CompareRevision(r) ==
    /\ Advance(r, "compare", "source")
    /\ row[dialog[r]].revision = base[r].revision
    /\ UNCHANGED <<readable, row, txn, shown, answer, dialog, base, entry>>

CheckSource(r) ==
    /\ Advance(r, "source", "insert")
    /\ dialog[r] \in readable
    /\ UNCHANGED <<readable, row, txn, shown, answer, dialog, base, entry>>

Item(r) == [revision |-> base[r].revision + 1, note |-> entry[r]]

\* The row is replaced and committed, and the page shows it.
Insert(r) ==
    /\ Advance(r, "insert", "no")
    /\ row' = [row EXCEPT ![dialog[r]] = Item(r)]
    /\ txn' = Nothing
    /\ shown' = [shown EXCEPT ![r] = [@ EXCEPT ![dialog[r]] = Item(r)]]
    /\ dialog' = [dialog EXCEPT ![r] = Nothing]
    /\ base' = [base EXCEPT ![r] = NoRow]
    /\ entry' = [entry EXCEPT ![r] = Nothing]
    /\ UNCHANGED <<readable, answer>>

\* The answer to a committed change is lost: the page keeps its dialog.
InsertSilently(r) ==
    /\ Advance(r, "insert", "no")
    /\ row' = [row EXCEPT ![dialog[r]] = Item(r)]
    /\ txn' = Nothing
    /\ UNCHANGED <<readable, shown, answer, dialog, base, entry>>

\* A conflict, a source that cannot be read, a database that stays locked, or
\* the death of the server: nothing is changed, and the page keeps its dialog.
FailNote(r) ==
    /\ saving[r] # "no"
    /\ saving' = [saving EXCEPT ![r] = "no"]
    /\ txn' = IF saving[r] \in InTransaction THEN Nothing ELSE txn
    /\ UNCHANGED <<readable, row, shown, answer, dialog, base, entry>>

\* Programs write and remove experiments.
Change(s) ==
    /\ readable' = IF s \in readable THEN readable \ {s} ELSE readable \cup {s}
    /\ UNCHANGED notes

-----------------------------------------------------------------------------
NoteStep(r) ==
    \/ SelectRows(r) \/ Arrive(r) \/ LoseAnswer(r)
    \/ Validate(r) \/ BeginImmediate(r) \/ CompareRevision(r) \/ CheckSource(r)
    \/ Insert(r) \/ InsertSilently(r) \/ FailNote(r)

NoteNext ==
    \/ \E r \in Pages :
           \/ NoteStep(r)
           \/ \E s \in Experiments : EditAnnotation(r, s)
           \/ \E n \in Notes : SaveNote(r, n)
    \/ \E s \in Experiments : Change(s)

NoteSpec == NoteInit /\ [][NoteNext]_noteVars

-----------------------------------------------------------------------------
\* No note is lost: a row gives way only to a row of the next revision, written
\* by a page whose dialog was opened with the very row that it replaces, however
\* late the answers were from which the page took it.
NoLostNote ==
    [][\A s \in Experiments :
          row'[s] # row[s] =>
              /\ row'[s].revision = row[s].revision + 1
              /\ \E r \in Pages : dialog[r] = s /\ base[r] = row[s]]_noteVars

=============================================================================
