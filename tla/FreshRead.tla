----------------------------- MODULE FreshRead -----------------------------
(***************************************************************************)
(* What a reader of the workbench's sources is promised while programs     *)
(* rewrite them: an answer is the whole content of the source at one       *)
(* instant of the request, and a request fails only if the source changed  *)
(* meanwhile or cannot be read.                                            *)
(***************************************************************************)
CONSTANTS
    Readers,
    Sources,
    Contents,    \* what a source may hold
    Unreadable,  \* the contents that no parser accepts
    None

VARIABLES
    content,  \* content[s], or None if there is no file
    asked,    \* the requests in progress: <<reader, source>>
    moved,    \* the readers whose source changed since they asked
    answer    \* answer[r]: what the last request of r was told

freshVars == <<content, asked, moved, answer>>

Init ==
    /\ content \in [Sources -> Contents \cup {None}]
    /\ asked = {}
    /\ moved = {}
    /\ answer = [r \in Readers |-> None]

Idle(r) == \A q \in asked : q[1] # r
Readable(s) == content[s] # None /\ content[s] \notin Unreadable

Change(s) ==
    /\ content'[s] \in Contents \cup {None}
    /\ content' = [content EXCEPT ![s] = content'[s]]
    /\ moved' = moved \cup {q[1] : q \in {p \in asked : p[2] = s}}
    /\ UNCHANGED <<asked, answer>>

Ask(r, s) ==
    /\ Idle(r)
    /\ asked' = asked \cup {<<r, s>>}
    /\ answer' = [answer EXCEPT ![r] = None]
    /\ UNCHANGED <<content, moved>>

Answer(r, s) ==
    /\ <<r, s>> \in asked
    /\ Readable(s)
    /\ answer' = [answer EXCEPT ![r] = content[s]]
    /\ asked' = asked \ {<<r, s>>}
    /\ moved' = moved \ {r}
    /\ UNCHANGED content

Fail(r, s) ==
    /\ <<r, s>> \in asked
    /\ r \in moved \/ ~Readable(s)
    /\ asked' = asked \ {<<r, s>>}
    /\ moved' = moved \ {r}
    /\ answer' = [answer EXCEPT ![r] = None]
    /\ UNCHANGED content

Next ==
    \E s \in Sources :
        \/ Change(s)
        \/ \E r \in Readers : Ask(r, s) \/ Answer(r, s) \/ Fail(r, s)

Spec == Init /\ [][Next]_freshVars

=============================================================================
