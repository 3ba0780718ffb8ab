----------------------------- MODULE ResultWall -----------------------------
(***************************************************************************)
(* The result wall, the page of app.js.  Everything on it is fetched, so   *)
(* that an answer may arrive after the user, a running job or a later      *)
(* request has changed what it is about.                                   *)
(*                                                                         *)
(* Each step is a task of the browser: an event or an answer with all that *)
(* its callbacks do until they wait again.  A request has a number; here   *)
(* it is "current" while its number is the last one that was given.        *)
(***************************************************************************)
EXTENDS Naturals, FiniteSets

CONSTANTS
    ConfigFiles,
    Results,    \* the directories of results
    Cases,      \* the saved cases, files of a directory
    CaseOf,     \* the directory of a case
    Jobs,
    Output,     \* the directory of a job's result
    Polls,      \* the pollings that may exist at a time
    MaxPosts,   \* submissions without an answer
    MaxAsked,   \* requests of the page without an answer
    Blank

Maybe(S) == S \cup {Blank}
Statuses == {"absent", "active", "finished"}
Refreshes == [current : BOOLEAN, choice : BOOLEAN, preferred : Maybe(Results)]

\* The requests of each kind.
ListRequests == [refresh : Refreshes, jobs : Maybe([Jobs -> Statuses])]
ConfigRequests == [path : ConfigFiles, current : BOOLEAN, by : Maybe(Refreshes)]
ResultRequests == [name : Results, current : BOOLEAN, by : Maybe(Refreshes), left : SUBSET Results]
ReportRequests == [of : Results, current : BOOLEAN]
ReplayRequests == [case : Cases, current : BOOLEAN]

\* A polling: its request, and its interval, which is set after the first answer.
Pollings == [job : Jobs, answer : {"none", "sent", "active", "finished"},
             interval : {"none", "set", "cleared"}]

ASSUME WallAssumption ==
    /\ MaxPosts \in Nat /\ MaxAsked \in Nat
    /\ Blank \notin ConfigFiles \cup Results \cup Cases \cup Jobs \cup Polls
    /\ Blank \notin Refreshes /\ Blank \notin Pollings /\ Blank \notin ReplayRequests
    /\ {"loading", "failed"} \cap Results = {}
    /\ \A c \in Cases : CaseOf[c] # Blank
    /\ Output \in [Jobs -> Maybe(Results)]

VARIABLES
    \* The server.
    status,        \* of each job
    posted,        \* submissions that it has not answered
    accepted,      \* jobs it has accepted, in answers on their way
    \* Refreshes that wait for their lists.
    lists,
    \* The configuration.
    configs, configSelect, currentConfig, configAsked,
    runEnabled,    \* the button
    \* The polled job.
    pollingJobId, pollTimer, polls,
    \* The result.
    results, resultOptions, resultSelect, currentResult, resultAsked,
    resultMessage, savedResult,
    \* What is opened over it.
    reportOpen, reportContent, reportAsked, reportClosing, lightbox,
    \* Its saved cases.
    replays, replayScope, currentReplay, replaying, replayOutput

serverVars == <<status, posted, accepted>>
configVars == <<configs, configSelect, currentConfig, configAsked>>
pollVars == <<pollingJobId, pollTimer, polls>>
shownVars == <<currentResult, resultMessage>>
resultVars == <<results, resultOptions, resultSelect, shownVars, resultAsked, savedResult>>
reportVars == <<reportOpen, reportContent, reportAsked, reportClosing, lightbox>>
replayVars == <<replays, replayScope, currentReplay, replaying, replayOutput>>
wallVars == <<serverVars, lists, configVars, runEnabled, pollVars, resultVars,
              reportVars, replayVars>>

JobsType ==
    /\ status \in [Jobs -> Statuses]
    /\ posted \in Nat /\ posted <= MaxPosts /\ accepted \subseteq Jobs
    /\ pollingJobId \in Maybe(Jobs) /\ pollTimer \in Maybe(Polls)
    /\ polls \in [Polls -> Maybe(Pollings)]

ConfigType ==
    /\ lists \subseteq ListRequests /\ configAsked \subseteq ConfigRequests
    /\ configs \subseteq ConfigFiles /\ configSelect \in Maybe(ConfigFiles)
    /\ currentConfig \in [path : Maybe(ConfigFiles), state : {"loading", "valid", "invalid"}]
    /\ runEnabled \in BOOLEAN

ResultType ==
    /\ resultAsked \subseteq ResultRequests
    /\ results \subseteq Results /\ resultOptions \subseteq Results
    /\ resultSelect \in Maybe(Results) /\ currentResult \in Maybe(Results)
    /\ savedResult \in Maybe(Results) /\ lightbox \in Maybe(Results)
    /\ resultMessage \in {"", "loading", "failed"}
    /\ reportAsked \subseteq ReportRequests
    /\ reportOpen \in BOOLEAN /\ reportClosing \in BOOLEAN
    /\ reportContent \in Maybe(Results) \cup {"loading", "failed"}

ReplayType ==
    /\ replays \subseteq Cases /\ replayScope \in {"current", "others"}
    /\ currentReplay \in Maybe(Cases) /\ replayOutput \in Maybe(Cases)
    /\ replaying \in Maybe(ReplayRequests)

WallTypeOK == JobsType /\ ConfigType /\ ResultType /\ ReplayType

\* The page is loaded and refreshes itself; a result may be remembered.
WallInit ==
    /\ status \in [Jobs -> Statuses]
    /\ posted = 0 /\ accepted = {}
    /\ lists = {[refresh |-> [current |-> TRUE, choice |-> FALSE, preferred |-> Blank],
                 jobs |-> Blank]}
    /\ configs = {} /\ configSelect = Blank
    /\ currentConfig = [path |-> Blank, state |-> "invalid"]
    /\ configAsked = {} /\ runEnabled = FALSE
    /\ pollingJobId = Blank /\ pollTimer = Blank
    /\ polls = [p \in Polls |-> Blank]
    /\ results = {} /\ resultOptions = {}
    /\ resultSelect = Blank /\ currentResult = Blank
    /\ savedResult \in Maybe(Results)
    /\ resultAsked = {} /\ resultMessage = ""
    /\ reportOpen = FALSE /\ reportContent = Blank /\ reportClosing = FALSE
    /\ reportAsked = {} /\ lightbox = Blank
    /\ replays = {} /\ replayScope = "current"
    /\ currentReplay = Blank /\ replaying = Blank /\ replayOutput = Blank

Room == Cardinality(lists) + Cardinality(configAsked) + Cardinality(resultAsked)
            + Cardinality(reportAsked) < MaxAsked

\* A later request of the kind takes the next number.
Older(asked) == {[q EXCEPT !.current = FALSE] : q \in asked}

-----------------------------------------------------------------------------
(* Saved cases.                                                            *)

Visible(cases, scope, result) ==
    {c \in cases : IF scope = "others" THEN CaseOf[c] # result ELSE CaseOf[c] = result}

\* What renderReplays may select: the case that was, or the first visible one.
Rendered(visible, case) ==
    IF visible = {} THEN {Blank} ELSE IF case \in visible THEN {case} ELSE visible

\* resetReplay, but for the selection.
ResetReplay ==
    /\ replaying' = IF replaying = Blank THEN Blank ELSE [replaying EXCEPT !.current = FALSE]
    /\ replayOutput' = Blank

ElseUnchangedReplay ==
    UNCHANGED <<serverVars, lists, configVars, runEnabled, pollVars, resultVars, reportVars>>

ChooseReplay(c) ==
    /\ c \in Visible(replays, replayScope, currentResult) \ {currentReplay}
    /\ ResetReplay
    /\ currentReplay' = c
    /\ UNCHANGED <<replays, replayScope>> /\ ElseUnchangedReplay

ChooseScope(scope) ==
    /\ scope # replayScope /\ replayScope' = scope
    /\ ResetReplay
    /\ currentReplay' \in Rendered(Visible(replays, scope, currentResult), Blank)
    /\ UNCHANGED replays /\ ElseUnchangedReplay

ChooseAlgorithm ==
    /\ currentReplay # Blank /\ replaying = Blank
    /\ ResetReplay
    /\ UNCHANGED <<replays, replayScope, currentReplay>> /\ ElseUnchangedReplay

\* replayBusy is that a replay is awaited.
Replay ==
    /\ currentReplay # Blank /\ replaying = Blank
    /\ replaying' = [case |-> currentReplay, current |-> TRUE]
    /\ replayOutput' = Blank
    /\ UNCHANGED <<replays, replayScope, currentReplay>> /\ ElseUnchangedReplay

ReplayAnswer(ok) ==
    /\ replaying # Blank
    /\ replayOutput' = IF replaying.current /\ ok THEN replaying.case ELSE replayOutput
    /\ replaying' = Blank
    /\ currentReplay' \in Rendered(Visible(replays, replayScope, currentResult), currentReplay)
    /\ UNCHANGED <<replays, replayScope>> /\ ElseUnchangedReplay

-----------------------------------------------------------------------------
(* The result.                                                             *)

\* clearResult: what is open over the result goes with it.
ClearResult(cases) ==
    /\ currentResult' = Blank
    /\ reportAsked' = Older(reportAsked)
    /\ reportOpen' = FALSE /\ reportContent' = Blank
    /\ reportClosing' = (reportClosing \/ reportOpen)
    /\ lightbox' = Blank
    /\ ResetReplay
    /\ currentReplay' \in Rendered(Visible(cases, replayScope, Blank), Blank)

\* loadResult, begun by a refresh or by the user, with the candidates left to it.
LoadResult(n, asked, by, left, cases) ==
    /\ resultSelect' = n
    /\ resultAsked' = Older(asked) \cup
           (IF n = Blank THEN {} ELSE {[name |-> n, current |-> TRUE, by |-> by, left |-> left]})
    /\ resultMessage' = IF n = Blank THEN "" ELSE "loading"
    /\ ClearResult(cases)

ElseUnchangedResult ==
    UNCHANGED <<serverVars, configs, configSelect, currentConfig, runEnabled, pollVars,
                results, replays, replayScope>>

Superseded(by) == IF by = Blank THEN Blank ELSE [by EXCEPT !.current = FALSE]
Overruled(by) == IF by = Blank THEN Blank ELSE [by EXCEPT !.choice = TRUE]

\* resultSelectionId changes under every refresh that is on its way.
ChooseResult(n) ==
    /\ n \in resultOptions \ {resultSelect} /\ Room
    /\ LoadResult(n, {[q EXCEPT !.by = Overruled(@)] : q \in resultAsked}, Blank, {}, replays)
    /\ lists' = {[l EXCEPT !.refresh = Overruled(@)] : l \in lists}
    /\ configAsked' = {[q EXCEPT !.by = Overruled(@)] : q \in configAsked}
    /\ ElseUnchangedResult /\ UNCHANGED <<resultOptions, savedResult>>

Expected(q) == q.current /\ resultSelect = q.name

ResultDropped(q) ==
    /\ q \in resultAsked /\ ~Expected(q)
    /\ resultAsked' = resultAsked \ {q}
    /\ ElseUnchangedResult
    /\ UNCHANGED <<lists, configAsked, resultOptions, resultSelect, shownVars, savedResult,
                    reportVars, currentReplay, replaying, replayOutput>>

\* The cases of the result are shown, and the output of a replay stays.
ResultArrives(q) ==
    /\ q \in resultAsked /\ Expected(q)
    /\ resultAsked' = resultAsked \ {q}
    /\ currentResult' = q.name /\ savedResult' = q.name /\ resultMessage' = ""
    /\ currentReplay' \in Rendered(Visible(replays, replayScope, q.name), currentReplay)
    /\ ElseUnchangedResult
    /\ UNCHANGED <<lists, configAsked, resultOptions, resultSelect, reportVars,
                    replaying, replayOutput>>

\* A refresh tries the next candidate.
ResultFails(q) ==
    /\ q \in resultAsked /\ Expected(q)
    /\ IF q.by # Blank /\ q.by.current /\ q.left # {}
       THEN \E n \in q.left : LoadResult(n, resultAsked \ {q}, q.by, q.left \ {n}, replays)
       ELSE /\ resultAsked' = resultAsked \ {q} /\ resultMessage' = "failed"
            /\ UNCHANGED <<resultSelect, currentResult, reportVars, currentReplay, replaying,
                            replayOutput>>
    /\ ElseUnchangedResult
    /\ UNCHANGED <<lists, configAsked, resultOptions, savedResult>>

-----------------------------------------------------------------------------
(* Its report and charts.                                                  *)

ElseUnchangedReport ==
    UNCHANGED <<serverVars, lists, configVars, runEnabled, pollVars, resultVars, replayVars>>

\* resultRequestId is compared too; it changes only where reportRequestId does.
OpenReport ==
    /\ currentResult # Blank /\ ~reportOpen /\ Room
    /\ reportOpen' = TRUE /\ reportContent' = "loading"
    /\ reportAsked' = Older(reportAsked) \cup {[of |-> currentResult, current |-> TRUE]}
    /\ UNCHANGED <<reportClosing, lightbox>> /\ ElseUnchangedReport

\* Mutant: only that the dialog is open is looked at.
ReportAnswerLate(q, ok) ==
    /\ q \in reportAsked /\ reportAsked' = reportAsked \ {q}
    /\ reportContent' = IF reportOpen THEN IF ok THEN q.of ELSE "failed" ELSE reportContent
    /\ UNCHANGED <<reportOpen, reportClosing, lightbox>> /\ ElseUnchangedReport

ReportAnswer(q, ok) ==
    /\ q \in reportAsked /\ reportAsked' = reportAsked \ {q}
    /\ reportContent' = IF q.current /\ reportOpen
                        THEN IF ok THEN q.of ELSE "failed" ELSE reportContent
    /\ UNCHANGED <<reportOpen, reportClosing, lightbox>> /\ ElseUnchangedReport

CloseReport ==
    /\ reportOpen /\ reportOpen' = FALSE /\ reportClosing' = TRUE
    /\ UNCHANGED <<reportContent, reportAsked, lightbox>> /\ ElseUnchangedReport

\* The close event of the dialog comes after it is closed.
ReportClosed ==
    /\ reportClosing /\ reportClosing' = FALSE
    /\ reportAsked' = Older(reportAsked)
    /\ UNCHANGED <<reportOpen, reportContent, lightbox>> /\ ElseUnchangedReport

Lightbox(result) ==
    /\ lightbox # result /\ result \in {Blank, currentResult}
    /\ lightbox' = result
    /\ UNCHANGED <<reportOpen, reportContent, reportAsked, reportClosing>>
    /\ ElseUnchangedReport

-----------------------------------------------------------------------------
(* Refreshes.                                                              *)

\* refreshAll takes the next number, and asks for its lists.
BeginRefresh(preferred) ==
    /\ Room
    /\ lists' = {[l EXCEPT !.refresh = Superseded(@)] : l \in lists} \cup
           {[refresh |-> [current |-> TRUE, choice |-> FALSE, preferred |-> preferred],
             jobs |-> Blank]}
    /\ configAsked' = {[q EXCEPT !.by = Superseded(@)] : q \in configAsked}
    /\ resultAsked' = {[q EXCEPT !.by = Superseded(@)] : q \in resultAsked}

\* The button, and a change of language.
Refresh ==
    /\ BeginRefresh(Blank)
    /\ UNCHANGED <<serverVars, configs, configSelect, currentConfig, runEnabled, pollVars,
                   results, resultOptions, resultSelect, shownVars, savedResult,
                   reportVars, replayVars>>

\* Mutant: the result of a finished job comes first.
ShowPreferred(by, found, cases) ==
    LET wanted == IF by.preferred # Blank THEN by.preferred
                  ELSE IF resultSelect # Blank THEN resultSelect
                  ELSE IF currentResult # Blank THEN currentResult ELSE savedResult
    IN  /\ resultOptions' = found
        /\ IF found = {} THEN LoadResult(Blank, resultAsked, Blank, {}, cases)
           ELSE \E n \in IF wanted \in found THEN {wanted} ELSE found :
                    LoadResult(n, resultAsked, by, found \ {n}, cases)

\* The end of a refresh: the result that it asks for first.
ShowResults(by, found, cases) ==
    LET wanted == IF by.preferred # Blank /\ ~by.choice THEN by.preferred
                  ELSE IF resultSelect # Blank THEN resultSelect
                  ELSE IF currentResult # Blank THEN currentResult ELSE savedResult
    IN  /\ resultOptions' = found
        /\ IF found = {} THEN LoadResult(Blank, resultAsked, Blank, {}, cases)
           ELSE \E n \in IF wanted \in found THEN {wanted} ELSE found :
                    LoadResult(n, resultAsked, by, found \ {n}, cases)

ResultsUntouched ==
    UNCHANGED <<resultOptions, resultSelect, shownVars, resultAsked, reportVars, replaying,
                replayOutput>>

\* loadConfig shows that it loads, and asks for the preflight.
LoadConfig(p, by) ==
    /\ configSelect' = p
    /\ currentConfig' = [path |-> p, state |-> IF p = Blank THEN "invalid" ELSE "loading"]
    /\ configAsked' = Older(configAsked) \cup
           (IF p = Blank THEN {} ELSE {[path |-> p, current |-> TRUE, by |-> by]})
    /\ runEnabled' = FALSE

ChooseConfig(p) ==
    /\ p \in configs /\ Room
    /\ LoadConfig(p, Blank)
    /\ UNCHANGED <<serverVars, lists, configs, pollVars, resultVars, reportVars, replayVars>>

\* renderConfig; a refresh that waits for it goes on.
ConfigAnswer(q, valid) ==
    /\ q \in configAsked /\ configAsked' = configAsked \ {q}
    /\ IF q.current /\ configSelect = q.path
       THEN /\ currentConfig' = [path |-> q.path, state |-> IF valid THEN "valid" ELSE "invalid"]
            /\ runEnabled' = (valid /\ pollingJobId = Blank)
       ELSE UNCHANGED <<currentConfig, runEnabled>>
    /\ IF q.by # Blank /\ q.by.current
       THEN ShowResults(q.by, results, replays)
       ELSE ResultsUntouched /\ UNCHANGED currentReplay
    /\ UNCHANGED <<serverVars, lists, configs, configSelect, pollVars, results, savedResult,
                   replays, replayScope>>

\* The lists of a refresh are answered each at its own time; when matters for the jobs.
ListJobs(l) ==
    /\ l \in lists /\ l.jobs = Blank
    /\ lists' = (lists \ {l}) \cup {[l EXCEPT !.jobs = status]}
    /\ UNCHANGED <<serverVars, configVars, runEnabled, pollVars, resultVars, reportVars,
                   replayVars>>

ListsDropped(l) ==
    /\ l \in lists /\ lists' = lists \ {l}
    /\ UNCHANGED <<serverVars, configVars, runEnabled, pollVars, resultVars, reportVars,
                   replayVars>>

\* An interval that is cleared, or that was never set, ends with its last answer.
Rest(x) == IF x.answer = "none" /\ x.interval # "set" THEN Blank ELSE x
Quieted(ps) ==
    IF pollTimer = Blank THEN ps
    ELSE [ps EXCEPT ![pollTimer] = Rest([@ EXCEPT !.interval = "cleared"])]

\* pollJob replaces the job that is polled, and asks at once.
StartPolling(j) ==
    \E p \in Polls :
        /\ polls[p] = Blank
        /\ polls' = [Quieted(polls) EXCEPT
               ![p] = [job |-> j, answer |-> "sent", interval |-> "none"]]
        /\ pollTimer' = Blank
        /\ pollingJobId' = j

ListsArrive(l, cs, rs, files) ==
    /\ l \in lists /\ l.jobs # Blank /\ l.refresh.current
    /\ lists' = lists \ {l}
    /\ configs' = cs /\ results' = rs /\ replays' = files
    /\ LET active == {j \in Jobs : l.jobs[j] = "active"}
       IN  IF active # {} /\ pollingJobId = Blank
           THEN \E j \in active : StartPolling(j)
           ELSE UNCHANGED <<pollingJobId, pollTimer, polls>>
    /\ IF cs = {}
       THEN LoadConfig(Blank, Blank) /\ ShowResults(l.refresh, rs, files)
       ELSE /\ \E p \in IF currentConfig.path \in cs THEN {currentConfig.path} ELSE cs :
                   LoadConfig(p, l.refresh)
            /\ ResultsUntouched
            /\ currentReplay'
                   \in Rendered(Visible(files, replayScope, currentResult), currentReplay)
    /\ UNCHANGED <<serverVars, savedResult, replayScope>>

-----------------------------------------------------------------------------
(* Running an experiment.                                                  *)

ElseUnchangedRun ==
    UNCHANGED <<configs, configSelect, currentConfig, results, resultOptions, resultSelect,
                shownVars, savedResult, reportVars, replayVars>>
NoRefresh == UNCHANGED <<lists, configAsked, resultAsked>>

\* Mutant: a configuration that loads will do.
MayRunLoading == currentConfig.state # "invalid"

MayRun == currentConfig.state = "valid"

RunBenchmark ==
    /\ runEnabled /\ MayRun /\ currentConfig.path = configSelect /\ posted < MaxPosts
    /\ posted' = posted + 1 /\ runEnabled' = FALSE
    /\ UNCHANGED <<status, accepted, pollVars>> /\ NoRefresh /\ ElseUnchangedRun

\* The answer of the submission.
RunStarted(j) ==
    /\ j \in accepted /\ accepted' = accepted \ {j}
    /\ IF pollingJobId = j THEN UNCHANGED <<pollingJobId, pollTimer, polls, runEnabled>>
       ELSE StartPolling(j) /\ runEnabled' = FALSE
    /\ UNCHANGED <<status, posted>> /\ NoRefresh /\ ElseUnchangedRun

RunRefused ==
    /\ \/ posted > 0 /\ posted' = posted - 1 /\ UNCHANGED accepted
       \/ \E j \in accepted : accepted' = accepted \ {j} /\ UNCHANGED posted
    /\ runEnabled' = MayRun
    /\ UNCHANGED <<status, pollVars>> /\ NoRefresh /\ ElseUnchangedRun

\* The interval asks when its last answer is there.
Tick(p) ==
    /\ polls[p] # Blank /\ polls[p].interval = "set" /\ polls[p].answer = "none"
    /\ pollingJobId = polls[p].job
    /\ polls' = [polls EXCEPT ![p].answer = "sent"]
    /\ UNCHANGED <<serverVars, pollingJobId, pollTimer, runEnabled>>
    /\ NoRefresh /\ ElseUnchangedRun

Answered(p) == polls[p] # Blank /\ polls[p].answer \in {"active", "finished"}
Heard(p) == [polls EXCEPT ![p] = Rest([@ EXCEPT !.answer = "none"])]

\* Mutant: whoever stops clears the interval there is.
TickDroppedAll(p) ==
    /\ polls[p] # Blank /\ polls[p].answer # "none" /\ pollingJobId # polls[p].job
    /\ polls' = Quieted(Heard(p)) /\ pollTimer' = Blank
    /\ UNCHANGED <<serverVars, pollingJobId, runEnabled>>
    /\ NoRefresh /\ ElseUnchangedRun

TickDropped(p) ==
    /\ polls[p] # Blank /\ polls[p].answer # "none" /\ pollingJobId # polls[p].job
    /\ polls' = Heard(p)
    /\ UNCHANGED <<serverVars, pollingJobId, pollTimer, runEnabled>>
    /\ NoRefresh /\ ElseUnchangedRun

\* The first answer sets the interval.
TickRunning(p) ==
    /\ Answered(p) /\ polls[p].answer = "active" /\ pollingJobId = polls[p].job
    /\ IF polls[p].interval = "none"
       THEN /\ polls' = [polls EXCEPT ![p].answer = "none", ![p].interval = "set"]
            /\ pollTimer' = p
       ELSE polls' = Heard(p) /\ UNCHANGED pollTimer
    /\ UNCHANGED <<serverVars, pollingJobId, runEnabled>> /\ NoRefresh /\ ElseUnchangedRun

StopPolling(p) ==
    /\ polls' = Quieted(Heard(p))
    /\ pollTimer' = Blank /\ pollingJobId' = Blank
    /\ runEnabled' = MayRun

TickFinished(p, completed) ==
    /\ Answered(p) /\ polls[p].answer = "finished" /\ pollingJobId = polls[p].job
    /\ StopPolling(p)
    /\ BeginRefresh(IF completed THEN Output[polls[p].job] ELSE Blank)
    /\ UNCHANGED serverVars /\ ElseUnchangedRun

TickFails(p) ==
    /\ polls[p] # Blank /\ polls[p].answer # "none" /\ pollingJobId = polls[p].job
    /\ StopPolling(p)
    /\ UNCHANGED serverVars /\ NoRefresh /\ ElseUnchangedRun

-----------------------------------------------------------------------------
(* The server.                                                             *)

ElseUnchangedServer ==
    UNCHANGED <<lists, configVars, runEnabled, pollingJobId, pollTimer, resultVars,
                reportVars, replayVars>>

\* A submission of this page, or of another one.
Admit(j) ==
    /\ status[j] = "absent" /\ status' = [status EXCEPT ![j] = "active"]
    /\ \/ posted > 0 /\ posted' = posted - 1 /\ accepted' = accepted \cup {j}
       \/ UNCHANGED <<posted, accepted>>
    /\ UNCHANGED polls /\ ElseUnchangedServer

Finish(j) ==
    /\ status[j] = "active" /\ status' = [status EXCEPT ![j] = "finished"]
    /\ UNCHANGED <<posted, accepted, polls>> /\ ElseUnchangedServer

AnswerTick(p) ==
    /\ polls[p] # Blank /\ polls[p].answer = "sent" /\ status[polls[p].job] # "absent"
    /\ polls' = [polls EXCEPT ![p].answer = status[polls[p].job]]
    /\ UNCHANGED serverVars /\ ElseUnchangedServer

-----------------------------------------------------------------------------
BehindReport ==
    \/ \E p \in ConfigFiles : ChooseConfig(p)
    \/ RunBenchmark
    \/ Refresh
    \/ \E n \in Results : ChooseResult(n)
    \/ OpenReport
    \/ \E n \in Maybe(Results) : Lightbox(n)
    \/ \E c \in Cases : ChooseReplay(c)
    \/ \E scope \in {"current", "others"} : ChooseScope(scope)
    \/ ChooseAlgorithm \/ Replay

\* The page behind the dialog of the report is inert.
UserNext ==
    \/ CloseReport
    \/ ~reportOpen /\ BehindReport

AnswerNext ==
    \/ \E q \in configAsked, valid \in BOOLEAN : ConfigAnswer(q, valid)
    \/ \E l \in lists : ListsDropped(l)
    \/ \E l \in lists, cs \in SUBSET ConfigFiles, rs \in SUBSET Results, files \in SUBSET Cases :
           ListsArrive(l, cs, rs, files)
    \/ \E q \in resultAsked : ResultDropped(q) \/ ResultArrives(q) \/ ResultFails(q)
    \/ \E q \in reportAsked, ok \in BOOLEAN : ReportAnswer(q, ok)
    \/ ReportClosed
    \/ \E ok \in BOOLEAN : ReplayAnswer(ok)
    \/ RunRefused
    \/ \E j \in Jobs : RunStarted(j)

PollNext ==
    \E p \in Polls :
        \/ Tick(p) \/ TickDropped(p) \/ TickRunning(p) \/ TickFails(p)
        \/ \E completed \in BOOLEAN : TickFinished(p, completed)

ServerNext ==
    \/ \E l \in lists : ListJobs(l)
    \/ \E j \in Jobs : Admit(j) \/ Finish(j)
    \/ \E p \in Polls : AnswerTick(p)

WallNext == UserNext \/ AnswerNext \/ PollNext \/ ServerNext

WallSpec == WallInit /\ [][WallNext]_wallVars

-----------------------------------------------------------------------------
(* Correctness.                                                            *)

\* What is shown is what the select names: no late answer brings another
\* result back.
ShownIsSelected == currentResult # Blank => currentResult = resultSelect

\* The report and the chart that are open are of the result behind them,
\* although a finished job may change it, and a report may come late.
WhatIsOpen ==
    /\ reportOpen => currentResult # Blank
    /\ reportOpen /\ reportContent \in Results => reportContent = currentResult
    /\ lightbox # Blank => lightbox = currentResult

\* While the page says that it loads, the answer that ends this is on its way:
\* no later request of another kind makes it one that is dropped.
LoadingEnds ==
    /\ resultSelect # Blank /\ currentResult = Blank /\ resultMessage # "failed" =>
           \E q \in resultAsked : q.current /\ q.name = resultSelect
    /\ currentConfig.state = "loading" =>
           \E q \in configAsked : q.current /\ q.path = configSelect

\* An experiment may be run only on a preflight of the selected configuration,
\* whatever enabled the button: a preflight, the end of a job or a refusal.
RunGate == runEnabled => currentConfig.state = "valid" /\ currentConfig.path = configSelect

\* The job that keeps the button disabled is asked for again, although the
\* pollings of other jobs, or earlier ones of the same job, end meanwhile.
PolledIsAsked ==
    pollingJobId # Blank =>
        \E p \in Polls :
            /\ polls[p] # Blank /\ polls[p].job = pollingJobId
            /\ polls[p].answer # "none" \/ polls[p].interval = "set"

\* Where the cases are those of the result, so is the output of a replay,
\* although the result may change while the replay runs.
ReplayOfResult ==
    replayScope = "current" /\ replayOutput # Blank => CaseOf[replayOutput] = currentResult

\* In whatever order answers come, nothing on the page is of a result that was
\* left: what is shown, opened and replayed belongs to what is selected.
ShownBelongs == ShownIsSelected /\ WhatIsOpen /\ ReplayOfResult

\* And nothing that the page waits for was forgotten.
AnswersAwaited == LoadingEnds /\ PolledIsAsked

Waiting == {l.refresh : l \in lists} \cup {q.by : q \in configAsked}

\* A refresh, which may want the result of a finished job, leaves a choice that
\* the user made since it began.
RefreshKeepsChoice ==
    [][(\E r \in Waiting \ {Blank} : r.current /\ r.choice) /\ resultSelect \in results'
       => resultSelect' = resultSelect \/ \E n \in Results : ChooseResult(n)]_wallVars
=============================================================================
