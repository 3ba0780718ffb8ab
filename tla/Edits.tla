------------------------------- MODULE Edits -------------------------------
(***************************************************************************)
(* Editors of benchmark configurations: pages of experiments.js and the    *)
(* ExperimentsService (src/src/maxcover/dashboard_experiments.py) of one   *)
(* or more servers.  Templates can only be copied; a copy is a file with   *)
(* an origin file, and is edited under optimistic revisions.               *)
(*                                                                         *)
(* A revision is the hash of a text, so that it is the text here.  A page  *)
(* whose request is not answered yet has its controls disabled, so that    *)
(* the page and its request are one process.                               *)
(***************************************************************************)
EXTENDS Naturals

CONSTANTS
    Editors,
    Templates,  \* configurations that are no copies of this workbench
    Copies,     \* the names that a uuid may give to a copy
    Texts,
    Valid,      \* the texts that parse_config and plan_benchmark accept
    Torn,       \* what an interrupted write leaves
    None

Configs == Templates \cup Copies
Origins == [source : Configs, text : Texts]

ASSUME EditsAssumption ==
    /\ Valid \subseteq Texts /\ Torn \in Texts \ Valid
    /\ None \notin Texts \cup Templates \cup Copies \cup Editors \cup Origins
    /\ Templates \cap Copies = {}

VARIABLES
    \* Files.
    text,      \* under configs/
    origin,    \* config_origins/
    lock,      \* .editing.lock
    \* Pages: state.config, and what was made of it.
    path, seen, editable,
    draft,     \* the text area
    mode,      \* "clean", "form" (fields changed), "stale" (text changed since
               \* it was checked), "text" (changed and checked)
    checked,   \* state.checked === state.version
    \* Requests.
    at, goal, raw

editFiles == <<text, origin, lock>>
page == <<path, seen, editable, draft, mode, checked>>
request == <<at, goal, raw>>
editVars == <<text, origin, lock, path, seen, editable, draft, mode, checked,
              at, goal, raw>>

EditSteps == {"load", "loaded", "copy", "origin", "fill", "target", "finish",
          "save", "lock", "compare", "replace", "unlock"}
Locked == {"compare", "replace", "unlock"}
Some(S) == S \cup {None}

EditTypeOK ==
    /\ text \in [Configs -> Some(Texts)]
    /\ origin \in [Copies -> Some(Origins \cup {Torn})]
    /\ lock \in Some(Editors)
    /\ path \in [Editors -> Some(Configs)]
    /\ seen \in [Editors -> Some(Texts)]
    /\ editable \in [Editors -> BOOLEAN]
    /\ draft \in [Editors -> Some(Texts)]
    /\ mode \in [Editors -> {"clean", "form", "stale", "text"}]
    /\ checked \in [Editors -> BOOLEAN]
    /\ at \in [Editors -> EditSteps \cup {"idle"}]
    /\ goal \in [Editors -> Some(Configs)]
    /\ raw \in [Editors -> Some(Texts)]

EditInit ==
    /\ text \in [Configs -> Some(Valid)]
    /\ \A c \in Configs : text[c] # None <=> c \in Templates
    /\ origin = [c \in Copies |-> None]
    /\ lock = None
    /\ path = [e \in Editors |-> None]
    /\ seen = [e \in Editors |-> None]
    /\ editable = [e \in Editors |-> FALSE]
    /\ draft = [e \in Editors |-> None]
    /\ mode = [e \in Editors |-> "clean"]
    /\ checked = [e \in Editors |-> FALSE]
    /\ at = [e \in Editors |-> "idle"]
    /\ goal = [e \in Editors |-> None]
    /\ raw = [e \in Editors |-> None]

Onward(e, from, to) == at[e] = from /\ at' = [at EXCEPT ![e] = to]

-----------------------------------------------------------------------------
(* The page.                                                               *)

\* Choosing another configuration drops what was typed, after a question.
Load(e, c) ==
    /\ Onward(e, "idle", "load")
    /\ goal' = [goal EXCEPT ![e] = c]
    /\ UNCHANGED <<editFiles, page, raw>>

\* render shows the answer of the server.
Show(e) ==
    /\ Onward(e, "loaded", "idle")
    /\ goal[e] \in Copies => origin[goal[e]] # Torn
    /\ path' = [path EXCEPT ![e] = goal[e]]
    /\ seen' = [seen EXCEPT ![e] = raw[e]]
    /\ draft' = [draft EXCEPT ![e] = raw[e]]
    /\ editable' = [editable EXCEPT
           ![e] = IF goal[e] \in Copies THEN origin[goal[e]] # None ELSE FALSE]
    /\ mode' = [mode EXCEPT ![e] = "clean"]
    /\ checked' = [checked EXCEPT ![e] = raw[e] \in Valid]
    /\ goal' = [goal EXCEPT ![e] = None]
    /\ raw' = [raw EXCEPT ![e] = None]
    /\ UNCHANGED editFiles

MayType(e) == at[e] = "idle" /\ editable[e]

Type(e, t) ==
    /\ MayType(e) /\ mode[e] # "form"
    /\ draft' = [draft EXCEPT ![e] = t]
    /\ mode' = [mode EXCEPT ![e] = "stale"]
    /\ checked' = [checked EXCEPT ![e] = FALSE]
    /\ UNCHANGED <<editFiles, path, seen, editable, request>>

FillForm(e) ==
    /\ MayType(e) /\ mode[e] # "stale"
    /\ mode' = [mode EXCEPT ![e] = "form"]
    /\ checked' = [checked EXCEPT ![e] = FALSE]
    /\ UNCHANGED <<editFiles, path, seen, editable, draft, request>>

\* inspect: preview_config accepts the text, or the text that the form makes.
Inspect(e) ==
    /\ at[e] = "idle" /\ path[e] # None
    /\ mode[e] # "form" /\ draft[e] \in Valid
    /\ mode' = [mode EXCEPT ![e] = IF @ = "stale" THEN "text" ELSE @]
    /\ checked' = [checked EXCEPT ![e] = TRUE]
    /\ UNCHANGED <<editFiles, path, seen, editable, draft, request>>

Apply(e, t) ==
    /\ MayType(e) /\ mode[e] # "stale"
    /\ t \in Valid
    /\ draft' = [draft EXCEPT ![e] = t]
    /\ mode' = [mode EXCEPT ![e] = "text"]
    /\ checked' = [checked EXCEPT ![e] = TRUE]
    /\ UNCHANGED <<editFiles, path, seen, editable, request>>

-----------------------------------------------------------------------------
(* read_config.                                                            *)

Read(e) ==
    /\ Onward(e, "load", "loaded")
    /\ text[goal[e]] # None
    /\ raw' = [raw EXCEPT ![e] = text[goal[e]]]
    /\ UNCHANGED <<editFiles, page, goal>>

-----------------------------------------------------------------------------
(* copy_config.                                                            *)

Copy(e) ==
    /\ path[e] # None /\ mode[e] = "clean"
    /\ Onward(e, "idle", "copy")
    /\ UNCHANGED <<editFiles, page, goal, raw>>

\* The template is read once, compared and previewed.
ReadTemplate(e) ==
    /\ Onward(e, "copy", "origin")
    /\ text[path[e]] = seen[e] /\ seen[e] \in Valid
    /\ raw' = [raw EXCEPT ![e] = text[path[e]]]
    /\ UNCHANGED <<editFiles, page, goal>>

\* Mutant: the configuration is written first, and its origin beside it.
TargetFirst(e, c) ==
    /\ Onward(e, "origin", "fill")
    /\ c \in Copies /\ text[c] = None /\ origin[c] = None
    /\ goal' = [goal EXCEPT ![e] = c]
    /\ origin' = [origin EXCEPT ![c] = Torn]
    /\ text' = [text EXCEPT ![c] = raw[e]]
    /\ UNCHANGED <<lock, page, raw>>

\* A fresh name; its origin is created, and then written.
CreateOrigin(e, c) ==
    /\ Onward(e, "origin", "fill")
    /\ c \in Copies /\ text[c] = None /\ origin[c] = None
    /\ goal' = [goal EXCEPT ![e] = c]
    /\ origin' = [origin EXCEPT ![c] = Torn]
    /\ UNCHANGED <<text, lock, page, raw>>

FillOrigin(e) ==
    /\ Onward(e, "fill", "target")
    /\ origin' = [origin EXCEPT ![goal[e]] = [source |-> path[e], text |-> raw[e]]]
    /\ UNCHANGED <<text, lock, page, goal, raw>>

CreateTarget(e) ==
    /\ Onward(e, "target", "finish")
    /\ text[goal[e]] = None
    /\ text' = [text EXCEPT ![goal[e]] = Torn]
    /\ UNCHANGED <<origin, lock, page, goal, raw>>

\* A file that an editor replaced meanwhile is no longer the one that was opened.
FillTarget(e) ==
    /\ Onward(e, "finish", "load")
    /\ text' = [text EXCEPT ![goal[e]] = IF @ = Torn THEN raw[e] ELSE @]
    /\ UNCHANGED <<origin, lock, page, goal, raw>>

-----------------------------------------------------------------------------
(* save_config.                                                            *)

Save(e) ==
    /\ editable[e] /\ checked[e] /\ mode[e] \in {"clean", "text"}
    /\ Onward(e, "idle", "save")
    /\ UNCHANGED <<editFiles, page, goal, raw>>

\* The file and its origin are there, and the text is valid.
CheckSave(e) ==
    /\ Onward(e, "save", "lock")
    /\ text[path[e]] # None /\ origin[path[e]] \notin {None, Torn}
    /\ draft[e] \in Valid
    /\ UNCHANGED <<editFiles, page, goal, raw>>

\* Mutant: the lock is not awaited.
LockAnyway(e) ==
    /\ Onward(e, "lock", "compare")
    /\ lock' = e
    /\ UNCHANGED <<text, origin, page, goal, raw>>

Lock(e) ==
    /\ Onward(e, "lock", "compare")
    /\ lock = None
    /\ lock' = e
    /\ UNCHANGED <<text, origin, page, goal, raw>>

Compare(e) ==
    /\ Onward(e, "compare", "replace")
    /\ text[path[e]] = seen[e]
    /\ UNCHANGED <<editFiles, page, goal, raw>>

\* The temporary file is complete when it replaces the configuration.
Replace(e) ==
    /\ Onward(e, "replace", "unlock")
    /\ text' = [text EXCEPT ![path[e]] = draft[e]]
    /\ UNCHANGED <<origin, lock, page, goal, raw>>

\* The answer is what the configuration holds after the lock was given back.
Unlock(e) ==
    /\ Onward(e, "unlock", "load")
    /\ lock' = None
    /\ goal' = [goal EXCEPT ![e] = path[e]]
    /\ UNCHANGED <<text, origin, page, raw>>

-----------------------------------------------------------------------------
\* A request is refused, an operating system call of it fails, or its server
\* dies: its files stay as they are, and its lock is given back.
Fail(e) ==
    /\ at[e] # "idle"
    /\ at' = [at EXCEPT ![e] = "idle"]
    /\ lock' = IF at[e] \in Locked THEN None ELSE lock
    /\ goal' = [goal EXCEPT ![e] = None]
    /\ raw' = [raw EXCEPT ![e] = None]
    /\ UNCHANGED <<text, origin, page>>

\* Programs that are not the Dashboard change the templates.
WriteTemplate(c, t) ==
    /\ text' = [text EXCEPT ![c] = t]
    /\ UNCHANGED <<origin, lock, page, request>>

-----------------------------------------------------------------------------
EditStep(e) ==
    \/ Show(e) \/ FillForm(e) \/ Inspect(e) \/ Read(e)
    \/ Copy(e) \/ ReadTemplate(e) \/ FillOrigin(e) \/ CreateTarget(e) \/ FillTarget(e)
    \/ Save(e) \/ CheckSave(e) \/ Lock(e) \/ Compare(e) \/ Replace(e) \/ Unlock(e)
    \/ Fail(e)

EditNext ==
    \/ \E e \in Editors :
           \/ EditStep(e)
           \/ \E c \in Configs : Load(e, c)
           \/ \E c \in Copies : CreateOrigin(e, c)
           \/ \E t \in Texts : Type(e, t)
           \/ \E t \in Valid : Apply(e, t)
    \/ \E c \in Templates, t \in Texts : WriteTemplate(c, t)

EditSpec == EditInit /\ [][EditNext]_editVars

-----------------------------------------------------------------------------
\* A copy has a complete origin as long as it exists, whatever step of the
\* copying was the last: an interrupted copy leaves no configuration that
\* cannot be edited, and no editable one without the text it came from.
CopiesHaveOrigins == \A c \in Copies : text[c] # None => origin[c] \in Origins

\* No edit is lost: what a text of a copy gives way to is a checked text of an
\* editor who was shown just that text.  The writes of the copying itself aside,
\* of which an editor may have been shown the unfinished file.
NoLostEdit ==
    [][\A c \in Copies :
          text'[c] # text[c] /\ text[c] \notin {None, Torn} =>
              \E e \in Editors :
                  path[e] = c /\ seen[e] \in {text[c], Torn}
                      /\ draft[e] = text'[c] /\ draft[e] \in Valid]_editVars

=============================================================================
