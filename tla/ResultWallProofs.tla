-------------------------- MODULE ResultWallProofs --------------------------
(***************************************************************************)
(* Proofs about the result wall, for any configurations, results, cases,   *)
(* jobs and numbers of requests.                                           *)
(*                                                                         *)
(* A request is current for at most one answer, and what an answer may     *)
(* change is as its request left it: no result is shown while one is       *)
(* asked for, and at most one refresh is still to choose a result.         *)
(***************************************************************************)
EXTENDS ResultWall, TLAPS

\* The variables by what they are about.
jobVars == <<serverVars, pollVars>>
preflightVars == <<lists, configVars, runEnabled>>
displayVars == <<resultVars, reportVars>>

\* A refresh that may still choose a result.
Leads(r) == r # Blank /\ r.current

\* A polling that will be asked again, or is.
Asks(x) == x.interval = "set" \/ (x.interval = "none" /\ x.answer # "none")

JobsInv ==
    /\ JobsType
    /\ pollTimer # Blank => polls[pollTimer] # Blank /\ polls[pollTimer].interval = "set"
    /\ pollingJobId # Blank =>
           \E p \in Polls : polls[p] # Blank /\ polls[p].job = pollingJobId /\ Asks(polls[p])

ConfigInv ==
    /\ ConfigType
    /\ currentConfig.path = configSelect
    /\ runEnabled => currentConfig.state = "valid"
    /\ currentConfig.state = "loading" =>
           \E q \in configAsked : q.current /\ q.path = configSelect

\* A result that is asked for is not shown; a report that is awaited is its.
ResultInv ==
    /\ ResultType
    /\ ShownIsSelected /\ WhatIsOpen
    /\ \A q \in resultAsked : q.current => currentResult = Blank
    /\ \A q1, q2 \in resultAsked : q1.current /\ q2.current => q1 = q2
    /\ \A q \in reportAsked : q.current /\ reportOpen => q.of = currentResult
    /\ resultSelect # Blank /\ currentResult = Blank /\ resultMessage # "failed" =>
           \E q \in resultAsked : q.current /\ q.name = resultSelect

\* A case is one of the visible ones, and so is the one that is replayed.
ReplayInv ==
    /\ ReplayType
    /\ currentReplay # Blank => currentReplay \in Visible(replays, replayScope, currentResult)
    /\ replaying # Blank /\ replaying.current /\ replayScope = "current" =>
           CaseOf[replaying.case] = currentResult
    /\ ReplayOfResult

\* One refresh leads, and waits for one answer.
RefreshInv ==
    /\ \A l1, l2 \in lists : l1.refresh.current /\ l2.refresh.current => l1 = l2
    /\ \A q1, q2 \in configAsked : Leads(q1.by) /\ Leads(q2.by) => q1 = q2
    /\ \A l \in lists, q \in configAsked : ~(l.refresh.current /\ Leads(q.by))
    /\ (\E q \in resultAsked : Leads(q.by)) =>
           /\ \A l \in lists : ~l.refresh.current
           /\ \A q \in configAsked : ~Leads(q.by)

WallInv == JobsInv /\ ConfigInv /\ ResultInv /\ ReplayInv /\ RefreshInv

LEMMA InitWallInv == WallInit => WallInv
<1>1. SUFFICES ASSUME WallInit PROVE WallInv
  OBVIOUS
<1>2. JobsInv
  <2>1. posted \in Nat /\ posted <= MaxPosts
    <3>1. posted = 0
      BY <1>1 DEF WallInit
    <3>2. MaxPosts \in Nat
      BY WallAssumption
    <3> QED
      BY <3>1, <3>2
  <2>2. /\ status \in [Jobs -> Statuses]
        /\ polls \in [Polls -> Maybe(Pollings)] /\ accepted \subseteq Jobs
    BY <1>1 DEF WallInit, Statuses, Maybe
  <2>3. pollingJobId = Blank /\ pollTimer = Blank
    BY <1>1 DEF WallInit
  <2> QED
    BY <2>1, <2>2, <2>3 DEF JobsInv, JobsType, Maybe
<1>3. ConfigInv
  <2>1. lists \subseteq ListRequests
    <3>1. lists = {[refresh |-> [current |-> TRUE, choice |-> FALSE, preferred |-> Blank],
                    jobs |-> Blank]}
      BY <1>1 DEF WallInit
    <3>2. [current |-> TRUE, choice |-> FALSE, preferred |-> Blank] \in Refreshes
      BY DEF Refreshes, Maybe
    <3> QED
      BY <3>1, <3>2 DEF ListRequests, Maybe
  <2>2. /\ currentConfig = [path |-> Blank, state |-> "invalid"]
        /\ currentConfig \in [path : Maybe(ConfigFiles), state : {"loading", "valid", "invalid"}]
    BY <1>1 DEF WallInit, Maybe
  <2>3. configAsked = {} /\ configs = {} /\ configSelect = Blank /\ runEnabled = FALSE
    BY <1>1 DEF WallInit
  <2> QED
    BY <2>1, <2>2, <2>3 DEF ConfigInv, ConfigType, Maybe
<1>4. ResultInv
  BY <1>1 DEF WallInit, ResultInv, ResultType, ShownIsSelected, WhatIsOpen, Maybe
<1>5. ReplayInv
  BY <1>1 DEF WallInit, ReplayInv, ReplayType, ReplayOfResult, Maybe
<1>6. RefreshInv
  BY <1>1 DEF WallInit, RefreshInv, Leads
<1> QED
  BY <1>2, <1>3, <1>4, <1>5, <1>6 DEF WallInv

-----------------------------------------------------------------------------
(* What a step leaves alone.                                               *)

LEMMA JobsKept == JobsInv /\ UNCHANGED jobVars => JobsInv'
BY DEF JobsInv, JobsType, jobVars, serverVars, pollVars, Asks

LEMMA ConfigKept == ConfigInv /\ UNCHANGED preflightVars => ConfigInv'
BY DEF ConfigInv, ConfigType, preflightVars, configVars

LEMMA ResultKept == ResultInv /\ UNCHANGED displayVars => ResultInv'
<1>1. SUFFICES ASSUME ResultInv, UNCHANGED displayVars PROVE ResultInv'
  OBVIOUS
<1>2. /\ UNCHANGED <<results, resultOptions, resultSelect, resultAsked, savedResult>>
      /\ UNCHANGED <<currentResult, resultMessage>>
      /\ UNCHANGED <<reportOpen, reportContent, reportAsked, reportClosing, lightbox>>
  BY <1>1 DEF displayVars, resultVars, shownVars, reportVars
<1>3. ResultType'
  BY <1>1, <1>2 DEF ResultInv, ResultType
<1>4. ShownIsSelected' /\ WhatIsOpen'
  BY <1>1, <1>2 DEF ResultInv, ShownIsSelected, WhatIsOpen
<1> QED
  BY <1>1, <1>2, <1>3, <1>4 DEF ResultInv

LEMMA ReplayKept == ReplayInv /\ UNCHANGED <<replayVars, currentResult>> => ReplayInv'
BY DEF ReplayInv, ReplayType, ReplayOfResult, Visible, replayVars

LEMMA RefreshKept == RefreshInv /\ UNCHANGED <<lists, configAsked, resultAsked>> => RefreshInv'
BY DEF RefreshInv

-----------------------------------------------------------------------------
(* The parts that steps are made of.                                       *)

LEMMA OlderRequests ==
    /\ \A asked \in SUBSET ResultRequests :
           /\ Older(asked) \subseteq ResultRequests
           /\ \A q \in Older(asked) : ~q.current /\ \E p \in asked : q.by = p.by
    /\ \A asked \in SUBSET ConfigRequests :
           /\ Older(asked) \subseteq ConfigRequests
           /\ \A q \in Older(asked) : ~q.current /\ \E p \in asked : q.by = p.by
    /\ \A asked \in SUBSET ReportRequests :
           Older(asked) \subseteq ReportRequests /\ \A q \in Older(asked) : ~q.current
<1>1. ASSUME NEW asked \in SUBSET ResultRequests
      PROVE  /\ Older(asked) \subseteq ResultRequests
             /\ \A q \in Older(asked) : ~q.current /\ \E p \in asked : q.by = p.by
  BY DEF Older, ResultRequests
<1>2. ASSUME NEW asked \in SUBSET ConfigRequests
      PROVE  /\ Older(asked) \subseteq ConfigRequests
             /\ \A q \in Older(asked) : ~q.current /\ \E p \in asked : q.by = p.by
  BY DEF Older, ConfigRequests
<1>3. ASSUME NEW asked \in SUBSET ReportRequests
      PROVE  Older(asked) \subseteq ReportRequests /\ \A q \in Older(asked) : ~q.current
  BY DEF Older, ReportRequests
<1> QED
  BY <1>1, <1>2, <1>3

LEMMA RenderedCases ==
    ASSUME NEW cases \in SUBSET Cases, NEW scope, NEW result, NEW case,
           NEW c \in Rendered(Visible(cases, scope, result), case)
    PROVE  c \in Maybe(Cases) /\ (c # Blank => c \in Visible(cases, scope, result))
BY DEF Rendered, Visible, Maybe

\* Refreshes that are given up, or that the user has overruled.
LEMMA GivenUp ==
    /\ \A r \in Refreshes : Superseded(r) \in Refreshes /\ ~Superseded(r).current
    /\ \A r \in Maybe(Refreshes) : Superseded(r) \in Maybe(Refreshes) /\ ~Leads(Superseded(r))
    /\ \A r \in Refreshes : Overruled(r) \in Refreshes /\ Overruled(r).current = r.current
    /\ \A r \in Maybe(Refreshes) :
           Overruled(r) \in Maybe(Refreshes) /\ (Leads(Overruled(r)) <=> Leads(r))
BY WallAssumption DEF Superseded, Overruled, Leads, Refreshes, Maybe

\* Where a result is asked for, what was shown and open is gone.
LEMMA LoadResultKeeps ==
    ASSUME ResultInv, ReplayType, replays' \subseteq Cases,
           NEW n \in Maybe(Results), NEW asked \in SUBSET ResultRequests,
           NEW by \in Maybe(Refreshes), NEW left \in SUBSET Results,
           LoadResult(n, asked, by, left, replays'), UNCHANGED replayScope,
           results' \subseteq Results, resultOptions' \subseteq Results,
           savedResult' \in Maybe(Results)
    PROVE  ResultInv' /\ ReplayInv'
<1> DEFINE new == [name |-> n, current |-> TRUE, by |-> by, left |-> left]
<1>1. /\ resultSelect' = n
      /\ resultAsked' = Older(asked) \cup (IF n = Blank THEN {} ELSE {new})
      /\ resultMessage' = IF n = Blank THEN "" ELSE "loading"
      /\ ClearResult(replays')
  BY DEF LoadResult
<1>2. /\ currentResult' = Blank /\ lightbox' = Blank
      /\ reportAsked' = Older(reportAsked)
      /\ reportOpen' = FALSE /\ reportContent' = Blank
      /\ reportClosing' = (reportClosing \/ reportOpen)
      /\ ResetReplay
      /\ currentReplay' \in Rendered(Visible(replays', replayScope, Blank), Blank)
  BY <1>1 DEF ClearResult
<1>3. new \in ResultRequests \/ n = Blank
  BY DEF ResultRequests, Maybe
<1>4. resultAsked' \subseteq ResultRequests
  BY <1>1, <1>3, OlderRequests
<1>5. reportAsked' \subseteq ReportRequests /\ \A q \in reportAsked' : ~q.current
  BY <1>2, OlderRequests DEF ResultInv, ResultType
<1>6. ResultType'
  <2>1. reportClosing \in BOOLEAN /\ reportOpen \in BOOLEAN
    BY DEF ResultInv, ResultType
  <2> QED
    BY <1>1, <1>2, <1>4, <1>5, <2>1 DEF ResultType, Maybe
<1>7. \A q \in resultAsked' : q.current => q = new /\ n # Blank
  BY <1>1, OlderRequests
<1>8. resultSelect' # Blank => new \in resultAsked' /\ new.current /\ new.name = resultSelect'
  BY <1>1
<1>9. ResultInv'
  BY <1>2, <1>5, <1>6, <1>7, <1>8 DEF ResultInv, ShownIsSelected, WhatIsOpen
<1>10. currentReplay' # Blank => currentReplay' \in Visible(replays', replayScope', currentResult')
  BY <1>2, RenderedCases
<1>11. replaying' # Blank => ~replaying'.current
  BY <1>2 DEF ResetReplay, ReplayType, ReplayRequests, Maybe
<1>12. replayOutput' = Blank
  BY <1>2 DEF ResetReplay
<1>13. ReplayType'
  <2>1. currentReplay' \in Maybe(Cases)
    BY <1>2, RenderedCases
  <2>2. replaying' \in Maybe(ReplayRequests)
    BY <1>2 DEF ResetReplay, ReplayType, ReplayRequests, Maybe
  <2> QED
    BY <1>12, <2>1, <2>2 DEF ReplayType, Maybe
<1> QED
  BY <1>9, <1>10, <1>11, <1>12, <1>13 DEF ReplayInv, ReplayOfResult

\* Where a configuration is loaded, the button waits for its preflight.
LEMMA LoadConfigKeeps ==
    ASSUME configAsked \subseteq ConfigRequests,
           NEW p \in Maybe(ConfigFiles), NEW by \in Maybe(Refreshes), LoadConfig(p, by),
           lists' \subseteq ListRequests, configs' \subseteq ConfigFiles
    PROVE  ConfigInv'
<1> DEFINE new == [path |-> p, current |-> TRUE, by |-> by]
           shown == [path |-> p, state |-> IF p = Blank THEN "invalid" ELSE "loading"]
<1>1. /\ configSelect' = p /\ runEnabled' = FALSE
      /\ currentConfig' = shown
      /\ configAsked' = Older(configAsked) \cup (IF p = Blank THEN {} ELSE {new})
  BY DEF LoadConfig
<1>2. p # Blank => new \in ConfigRequests
  BY DEF ConfigRequests, Maybe
<1>3. configAsked' \subseteq ConfigRequests
  BY <1>1, <1>2, OlderRequests
<1>4. shown \in [path : Maybe(ConfigFiles), state : {"loading", "valid", "invalid"}]
  OBVIOUS
<1>5. shown.path = p /\ (shown.state = "loading" => p # Blank)
  OBVIOUS
<1>6. new.current /\ new.path = p
  OBVIOUS
<1> HIDE DEF new, shown
<1>7. ConfigType'
  BY <1>1, <1>3, <1>4 DEF ConfigType
<1> QED
  BY <1>1, <1>5, <1>6, <1>7 DEF ConfigInv

LEMMA RestOf ==
    ASSUME NEW x \in Pollings
    PROVE  Rest(x) \in Maybe(Pollings) /\ (Rest(x) # Blank => Rest(x) = x)
BY DEF Rest, Maybe

\* Where a polling is given up, its interval is cleared.
LEMMA QuietedOf ==
    ASSUME NEW ps \in [Polls -> Maybe(Pollings)], pollTimer \in Maybe(Polls),
           pollTimer # Blank => ps[pollTimer] # Blank
    PROVE  /\ Quieted(ps) \in [Polls -> Maybe(Pollings)]
<1>1. CASE pollTimer = Blank
  BY <1>1 DEF Quieted
<1>2. CASE pollTimer # Blank
  <2>1. pollTimer \in Polls /\ ps[pollTimer] \in Pollings
    BY <1>2 DEF Maybe
  <2> DEFINE x == [ps[pollTimer] EXCEPT !.interval = "cleared"]
  <2>2. x \in Pollings
    BY <2>1 DEF Pollings
  <2>3. Rest(x) \in Maybe(Pollings)
    BY <2>2, RestOf
  <2>4. Quieted(ps) = [ps EXCEPT ![pollTimer] = Rest(x)]
    BY <1>2 DEF Quieted
  <2> QED
    BY <2>1, <2>3, <2>4
<1> QED
  BY <1>1, <1>2

LEMMA StartPollingKeeps ==
    ASSUME JobsInv, NEW j \in Jobs, StartPolling(j), UNCHANGED <<status, posted>>,
           accepted' \subseteq Jobs
    PROVE  JobsInv'
<1> DEFINE new == [job |-> j, answer |-> "sent", interval |-> "none"]
<1>1. PICK p \in Polls : polls' = [Quieted(polls) EXCEPT ![p] = new]
  BY DEF StartPolling
<1>2. pollTimer' = Blank /\ pollingJobId' = j
  BY DEF StartPolling
<1>3. Quieted(polls) \in [Polls -> Maybe(Pollings)]
  BY QuietedOf DEF JobsInv, JobsType
<1>4. new \in Pollings /\ new # Blank
  BY WallAssumption DEF Pollings
<1>5. polls' \in [Polls -> Maybe(Pollings)] /\ polls'[p] = new
  BY <1>1, <1>3, <1>4 DEF Maybe
<1>6. new.job = j /\ Asks(new)
  BY DEF Asks
<1> HIDE DEF new
<1>7. JobsType'
  BY <1>2, <1>5 DEF JobsInv, JobsType, Maybe
<1> QED
  BY <1>2, <1>4, <1>5, <1>6, <1>7 DEF JobsInv

\* A polling whose answer is dropped is not the one that asks.
LEMMA HeardOf ==
    ASSUME JobsInv, NEW p \in Polls, polls[p] # Blank
    PROVE  /\ Heard(p) \in [Polls -> Maybe(Pollings)]
           /\ \A o \in Polls \ {p} : Heard(p)[o] = polls[o]
           /\ polls[p].interval = "set" =>
                  /\ Heard(p)[p] # Blank /\ Heard(p)[p].interval = "set"
                  /\ Heard(p)[p].job = polls[p].job
<1> DEFINE x == [polls[p] EXCEPT !.answer = "none"]
<1>1. polls \in [Polls -> Maybe(Pollings)] /\ polls[p] \in Pollings
  BY DEF JobsInv, JobsType, Maybe
<1>2. x \in Pollings /\ x.interval = polls[p].interval /\ x.job = polls[p].job
  BY <1>1 DEF Pollings
<1>3. Rest(x) \in Maybe(Pollings) /\ (x.interval = "set" => Rest(x) = x)
  BY <1>2, RestOf DEF Rest
<1>4. Heard(p) = [polls EXCEPT ![p] = Rest(x)]
  BY DEF Heard
<1>5. x # Blank
  BY <1>2, WallAssumption
<1> HIDE DEF x
<1> QED
  BY <1>1, <1>2, <1>3, <1>4, <1>5

LEMMA StopPollingKeeps ==
    ASSUME JobsInv, NEW p \in Polls, polls[p] # Blank, StopPolling(p),
           UNCHANGED serverVars
    PROVE  JobsInv'
<1>1. polls' = Quieted(Heard(p)) /\ pollTimer' = Blank /\ pollingJobId' = Blank
  BY DEF StopPolling
<1>2. pollTimer \in Maybe(Polls) /\ (pollTimer # Blank => Heard(p)[pollTimer] # Blank)
  BY HeardOf DEF JobsInv, JobsType, Maybe
<1>3. polls' \in [Polls -> Maybe(Pollings)]
  BY <1>1, <1>2, HeardOf, QuietedOf
<1> QED
  BY <1>1, <1>3 DEF JobsInv, JobsType, serverVars, Maybe

\* Nobody but the refresh that begins leads.
LEMMA BeginRefreshKeeps ==
    ASSUME ConfigInv, ResultInv, NEW preferred \in Maybe(Results), BeginRefresh(preferred)
    PROVE  /\ lists' \subseteq ListRequests /\ configAsked' \subseteq ConfigRequests
           /\ RefreshInv'
           /\ \A q \in configAsked : \E o \in configAsked' :
                  o.current = q.current /\ o.path = q.path
           /\ UNCHANGED <<results, resultOptions, resultSelect, shownVars, savedResult, reportVars>>
                  => ResultInv'
<1> DEFINE new == [refresh |-> [current |-> TRUE, choice |-> FALSE, preferred |-> preferred],
                   jobs |-> Blank]
<1>1. /\ lists' = {[l EXCEPT !.refresh = Superseded(@)] : l \in lists} \cup {new}
      /\ configAsked' = {[q EXCEPT !.by = Superseded(@)] : q \in configAsked}
      /\ resultAsked' = {[q EXCEPT !.by = Superseded(@)] : q \in resultAsked}
  BY DEF BeginRefresh
<1>2. /\ lists \subseteq ListRequests /\ configAsked \subseteq ConfigRequests
      /\ resultAsked \subseteq ResultRequests
  BY DEF ConfigInv, ConfigType, ResultInv, ResultType
<1>3. new \in ListRequests
  <2>1. [current |-> TRUE, choice |-> FALSE, preferred |-> preferred] \in Refreshes
    BY DEF Refreshes
  <2> QED
    BY <2>1 DEF ListRequests, Maybe
<1>4. ASSUME NEW l \in lists
      PROVE  /\ [l EXCEPT !.refresh = Superseded(@)] \in ListRequests
             /\ ~[l EXCEPT !.refresh = Superseded(@)].refresh.current
  <2>1. l \in ListRequests /\ l.refresh \in Refreshes
    BY <1>2 DEF ListRequests
  <2>2. Superseded(l.refresh) \in Refreshes /\ ~Superseded(l.refresh).current
    BY <2>1, GivenUp
  <2> QED
    BY <2>1, <2>2 DEF ListRequests
<1>5. ASSUME NEW q \in configAsked
      PROVE  LET o == [q EXCEPT !.by = Superseded(@)]
             IN  o \in ConfigRequests /\ o.current = q.current /\ o.path = q.path /\ ~Leads(o.by)
  <2>1. q \in ConfigRequests /\ q.by \in Maybe(Refreshes)
    BY <1>2 DEF ConfigRequests
  <2>2. Superseded(q.by) \in Maybe(Refreshes) /\ ~Leads(Superseded(q.by))
    BY <2>1, GivenUp
  <2> QED
    BY <2>1, <2>2 DEF ConfigRequests
<1>6. ASSUME NEW q \in resultAsked
      PROVE  LET o == [q EXCEPT !.by = Superseded(@)]
             IN  o \in ResultRequests /\ o.current = q.current /\ o.name = q.name /\ ~Leads(o.by)
  <2>1. q \in ResultRequests /\ q.by \in Maybe(Refreshes)
    BY <1>2 DEF ResultRequests
  <2>2. Superseded(q.by) \in Maybe(Refreshes) /\ ~Leads(Superseded(q.by))
    BY <2>1, GivenUp
  <2> QED
    BY <2>1, <2>2 DEF ResultRequests
<1>7. lists' \subseteq ListRequests /\ \A l \in lists' : l.refresh.current => l = new
  BY <1>1, <1>3, <1>4
<1>8. /\ configAsked' \subseteq ConfigRequests
      /\ \A q \in configAsked' : ~Leads(q.by)
      /\ \A q \in configAsked : \E o \in configAsked' : o.current = q.current /\ o.path = q.path
  BY <1>1, <1>5
<1>9. /\ resultAsked' \subseteq ResultRequests
      /\ \A q \in resultAsked' : ~Leads(q.by)
      /\ \A q \in resultAsked : \E o \in resultAsked' : o.current = q.current /\ o.name = q.name
  BY <1>1, <1>6
<1>10. RefreshInv'
  BY <1>7, <1>8, <1>9 DEF RefreshInv
<1>11. ASSUME UNCHANGED <<results, resultOptions, resultSelect, shownVars, savedResult, reportVars>>
       PROVE  ResultInv'
  <2>1. /\ UNCHANGED <<results, resultOptions, resultSelect, savedResult>>
        /\ UNCHANGED <<currentResult, resultMessage>>
        /\ UNCHANGED <<reportOpen, reportContent, reportAsked, reportClosing, lightbox>>
    BY <1>11 DEF shownVars, reportVars
  <2>2. ResultType'
    BY <1>9, <2>1 DEF ResultInv, ResultType
  <2>3. ShownIsSelected' /\ WhatIsOpen'
    BY <2>1 DEF ResultInv, ShownIsSelected, WhatIsOpen
  <2>4. \A q \in resultAsked' : q.current => currentResult' = Blank
    BY <1>1, <1>6, <2>1 DEF ResultInv
  <2>5. \A q1, q2 \in resultAsked' : q1.current /\ q2.current => q1 = q2
    <3>1. SUFFICES ASSUME NEW p1 \in resultAsked, NEW p2 \in resultAsked, p1.current, p2.current
                   PROVE  p1 = p2
      BY <1>1, <1>6
    <3> QED
      BY <3>1 DEF ResultInv
  <2>6. \A q \in reportAsked' : q.current /\ reportOpen' => q.of = currentResult'
    BY <2>1 DEF ResultInv
  <2>7. resultSelect' # Blank /\ currentResult' = Blank /\ resultMessage' # "failed" =>
            \E q \in resultAsked' : q.current /\ q.name = resultSelect'
    BY <1>9, <2>1 DEF ResultInv
  <2> QED
    BY <2>2, <2>3, <2>4, <2>5, <2>6, <2>7 DEF ResultInv
<1> QED
  BY <1>7, <1>8, <1>10, <1>11

\* A refresh that leads comes to its results, and asks for one of them.
LEMMA ShowResultsKeeps ==
    ASSUME ResultInv, ReplayType, replays' \subseteq Cases,
           NEW by \in Refreshes, NEW found \in SUBSET Results,
           ShowResults(by, found, replays'), UNCHANGED <<replayScope, savedResult>>,
           results' \subseteq Results
    PROVE  ResultInv' /\ ReplayInv'
<1>1. resultAsked \in SUBSET ResultRequests /\ savedResult' \in Maybe(Results)
  BY DEF ResultInv, ResultType
<1>2. resultOptions' = found
  BY DEF ShowResults
<1>3. \E n \in Maybe(Results), b \in Maybe(Refreshes), left \in SUBSET Results :
          LoadResult(n, resultAsked, b, left, replays')
  BY DEF ShowResults, Maybe
<1> QED
  BY <1>1, <1>2, <1>3, LoadResultKeeps

-----------------------------------------------------------------------------
(* The steps: saved cases.                                                 *)

ReplayNext ==
    \/ \E c \in Cases : ChooseReplay(c)
    \/ \E scope \in {"current", "others"} : ChooseScope(scope)
    \/ ChooseAlgorithm
    \/ Replay
    \/ \E ok \in BOOLEAN : ReplayAnswer(ok)

LEMMA ReplayStepsKeep ==
    ASSUME WallInv, ReplayNext
    PROVE  WallInv' /\ UNCHANGED resultSelect
<1>1. UNCHANGED <<serverVars, lists, configVars, runEnabled, pollVars, resultVars, reportVars>>
  BY DEF ReplayNext, ChooseReplay, ChooseScope, ChooseAlgorithm, Replay, ReplayAnswer,
         ElseUnchangedReplay
<1>2. UNCHANGED <<currentResult, resultAsked, configAsked, resultSelect>>
  BY <1>1 DEF resultVars, shownVars, configVars
<1>3. JobsInv' /\ ConfigInv' /\ ResultInv' /\ RefreshInv'
  BY <1>1, <1>2, JobsKept, ConfigKept, ResultKept, RefreshKept
     DEF WallInv, jobVars, preflightVars, displayVars
<1> USE DEF WallInv, ReplayInv
<1>4. ASSUME ResetReplay
      PROVE  /\ replayOutput' = Blank /\ replaying' \in Maybe(ReplayRequests)
             /\ replaying' # Blank => ~replaying'.current
  BY <1>4 DEF ResetReplay, ReplayType, ReplayRequests, Maybe
<1>5. ASSUME NEW c \in Cases, ChooseReplay(c) PROVE ReplayInv'
  <2>1. /\ c \in Visible(replays, replayScope, currentResult) /\ currentReplay' = c
        /\ UNCHANGED <<replays, replayScope>> /\ ResetReplay
    BY <1>5 DEF ChooseReplay
  <2> QED
    BY <1>2, <1>4, <2>1 DEF ReplayType, ReplayOfResult, Maybe
<1>6. ASSUME NEW scope \in {"current", "others"}, ChooseScope(scope) PROVE ReplayInv'
  <2>1. /\ replayScope' = scope /\ UNCHANGED replays /\ ResetReplay
        /\ currentReplay' \in Rendered(Visible(replays, scope, currentResult), Blank)
    BY <1>6 DEF ChooseScope
  <2>2. /\ currentReplay' \in Maybe(Cases)
        /\ currentReplay' # Blank => currentReplay' \in Visible(replays, scope, currentResult)
    BY <2>1, RenderedCases DEF ReplayType
  <2> QED
    BY <1>2, <1>4, <2>1, <2>2 DEF ReplayType, ReplayOfResult, Maybe
<1>7. ASSUME ChooseAlgorithm PROVE ReplayInv'
  <2>1. UNCHANGED <<replays, replayScope, currentReplay>> /\ ResetReplay
    BY <1>7 DEF ChooseAlgorithm
  <2> QED
    BY <1>2, <1>4, <2>1 DEF ReplayType, ReplayOfResult, Maybe
<1>8. ASSUME Replay PROVE ReplayInv'
  <2>1. /\ currentReplay # Blank /\ UNCHANGED <<replays, replayScope, currentReplay>>
        /\ replaying' = [case |-> currentReplay, current |-> TRUE] /\ replayOutput' = Blank
    BY <1>8 DEF Replay
  <2>2. replaying' \in ReplayRequests /\ replaying'.case = currentReplay
    BY <2>1 DEF ReplayType, ReplayRequests, Maybe
  <2>3. replayScope = "current" => CaseOf[currentReplay] = currentResult
    BY <2>1 DEF Visible
  <2> QED
    BY <1>2, <2>1, <2>2, <2>3 DEF ReplayType, ReplayOfResult, Maybe
<1>9. ASSUME NEW ok \in BOOLEAN, ReplayAnswer(ok) PROVE ReplayInv'
  <2>1. /\ replaying # Blank /\ UNCHANGED <<replays, replayScope>> /\ replaying' = Blank
        /\ replayOutput' = IF replaying.current /\ ok THEN replaying.case ELSE replayOutput
        /\ currentReplay' \in
               Rendered(Visible(replays, replayScope, currentResult), currentReplay)
    BY <1>9 DEF ReplayAnswer
  <2>2. replaying.case \in Cases
    BY <2>1 DEF ReplayType, ReplayRequests, Maybe
  <2>3. /\ currentReplay' \in Maybe(Cases)
        /\ currentReplay' # Blank => currentReplay' \in Visible(replays, replayScope, currentResult)
    BY <2>1, RenderedCases DEF ReplayType
  <2>4. replayOutput' \in Maybe(Cases)
    BY <2>1, <2>2 DEF ReplayType, Maybe
  <2>5. ReplayOfResult'
    BY <1>2, <2>1 DEF ReplayOfResult
  <2> QED
    BY <1>2, <2>1, <2>3, <2>4, <2>5 DEF ReplayType, Maybe
<1>10. ReplayInv'
  BY <1>5, <1>6, <1>7, <1>8, <1>9 DEF ReplayNext
<1> QED
  BY <1>2, <1>3, <1>10

-----------------------------------------------------------------------------
(* The steps: the report and the charts.                                   *)

ReportNext ==
    \/ OpenReport \/ CloseReport \/ ReportClosed
    \/ \E q \in reportAsked, ok \in BOOLEAN : ReportAnswer(q, ok)
    \/ \E n \in Maybe(Results) : Lightbox(n)

LEMMA ReportStepsKeep ==
    ASSUME WallInv, ReportNext
    PROVE  WallInv' /\ UNCHANGED resultSelect
<1>1. UNCHANGED <<serverVars, lists, configVars, runEnabled, pollVars, resultVars, replayVars>>
  BY DEF ReportNext, OpenReport, CloseReport, ReportClosed, ReportAnswer, Lightbox,
         ElseUnchangedReport
<1>2. /\ UNCHANGED <<currentResult, resultMessage, resultAsked, configAsked>>
      /\ UNCHANGED <<results, resultOptions, resultSelect, savedResult>>
  BY <1>1 DEF resultVars, shownVars, configVars
<1>3. JobsInv' /\ ConfigInv' /\ ReplayInv' /\ RefreshInv'
  BY <1>1, <1>2, JobsKept, ConfigKept, ReplayKept, RefreshKept DEF WallInv, jobVars, preflightVars
<1>4. SUFFICES ResultType' /\ WhatIsOpen' /\
               \A q \in reportAsked' : q.current /\ reportOpen' => q.of = currentResult'
  BY <1>2, <1>3 DEF WallInv, ResultInv, ShownIsSelected
<1> USE DEF WallInv, ResultInv, WhatIsOpen
<1>5. Older(reportAsked) \subseteq ReportRequests /\ \A q \in Older(reportAsked) : ~q.current
  BY OlderRequests DEF ResultType
<1>6. ASSUME OpenReport
      PROVE  ResultType' /\ WhatIsOpen' /\
             \A q \in reportAsked' : q.current /\ reportOpen' => q.of = currentResult'
  <2> DEFINE new == [of |-> currentResult, current |-> TRUE]
  <2>1. /\ currentResult # Blank /\ reportOpen' = TRUE /\ reportContent' = "loading"
        /\ reportAsked' = Older(reportAsked) \cup {new}
        /\ UNCHANGED <<reportClosing, lightbox>>
    BY <1>6 DEF OpenReport
  <2>2. new \in ReportRequests /\ new.of = currentResult
    BY <2>1 DEF ReportRequests, ResultType, Maybe
  <2> HIDE DEF new
  <2>3. "loading" \notin Results
    BY WallAssumption
  <2> QED
    BY <1>2, <1>5, <2>1, <2>2, <2>3 DEF ResultType
<1>7. ASSUME CloseReport
      PROVE  ResultType' /\ WhatIsOpen' /\
             \A q \in reportAsked' : q.current /\ reportOpen' => q.of = currentResult'
  BY <1>2, <1>7 DEF CloseReport, ResultType
<1>8. ASSUME ReportClosed
      PROVE  ResultType' /\ WhatIsOpen' /\
             \A q \in reportAsked' : q.current /\ reportOpen' => q.of = currentResult'
  BY <1>2, <1>5, <1>8 DEF ReportClosed, ResultType
<1>9. ASSUME NEW q \in reportAsked, NEW ok \in BOOLEAN, ReportAnswer(q, ok)
      PROVE  ResultType' /\ WhatIsOpen' /\
             \A r \in reportAsked' : r.current /\ reportOpen' => r.of = currentResult'
  <2>1. /\ reportAsked' = reportAsked \ {q}
        /\ reportContent' = IF q.current /\ reportOpen
                            THEN IF ok THEN q.of ELSE "failed" ELSE reportContent
        /\ UNCHANGED <<reportOpen, reportClosing, lightbox>>
    BY <1>9 DEF ReportAnswer
  <2>2. q.of \in Results
    BY DEF ResultType, ReportRequests
  <2>3. "failed" \notin Results
    BY WallAssumption
  <2>4. reportContent' \in Maybe(Results) \cup {"loading", "failed"}
    BY <2>1, <2>2 DEF ResultType, Maybe
  <2>5. reportOpen' /\ reportContent' \in Results => reportContent' = currentResult'
    BY <1>2, <2>1, <2>3
  <2> QED
    BY <1>2, <2>1, <2>4, <2>5 DEF ResultType
<1>10. ASSUME NEW n \in Maybe(Results), Lightbox(n)
       PROVE  ResultType' /\ WhatIsOpen' /\
              \A q \in reportAsked' : q.current /\ reportOpen' => q.of = currentResult'
  BY <1>2, <1>10 DEF Lightbox, ResultType
<1> QED
  BY <1>6, <1>7, <1>8, <1>9, <1>10 DEF ReportNext

-----------------------------------------------------------------------------
(* The steps: results.                                                     *)

\* What the user overrules still leads, or still does not.
LEMMA OverruledRefreshes ==
    ASSUME ConfigInv, RefreshInv,
           lists' = {[l EXCEPT !.refresh = Overruled(@)] : l \in lists},
           configAsked' = {[q EXCEPT !.by = Overruled(@)] : q \in configAsked},
           \A q \in resultAsked' : Leads(q.by) => \E o \in resultAsked : Leads(o.by)
    PROVE  /\ lists' \subseteq ListRequests /\ configAsked' \subseteq ConfigRequests
           /\ \A q \in configAsked : \E o \in configAsked' :
                  o.current = q.current /\ o.path = q.path
           /\ RefreshInv'
<1> DEFINE L(l) == [l EXCEPT !.refresh = Overruled(@)]
           C(q) == [q EXCEPT !.by = Overruled(@)]
<1>0. lists' = {L(l) : l \in lists} /\ configAsked' = {C(q) : q \in configAsked}
  OBVIOUS
<1>1. lists \subseteq ListRequests /\ configAsked \subseteq ConfigRequests
  BY DEF ConfigInv, ConfigType
<1>2. ASSUME NEW l \in lists
      PROVE  L(l) \in ListRequests /\ L(l).refresh.current = l.refresh.current
  <2>1. l \in ListRequests /\ l.refresh \in Refreshes
    BY <1>1 DEF ListRequests
  <2>2. Overruled(l.refresh) \in Refreshes /\ Overruled(l.refresh).current = l.refresh.current
    BY <2>1, GivenUp
  <2> QED
    BY <2>1, <2>2 DEF ListRequests
<1>3. ASSUME NEW q \in configAsked
      PROVE  /\ C(q) \in ConfigRequests /\ C(q).current = q.current /\ C(q).path = q.path
             /\ Leads(C(q).by) <=> Leads(q.by)
  <2>1. q \in ConfigRequests /\ q.by \in Maybe(Refreshes)
    BY <1>1 DEF ConfigRequests
  <2>2. /\ Overruled(q.by) \in Maybe(Refreshes)
        /\ Leads(Overruled(q.by)) <=> Leads(q.by)
    BY <2>1, GivenUp
  <2> QED
    BY <2>1, <2>2 DEF ConfigRequests
<1> HIDE DEF L, C
<1>4. \A l1, l2 \in lists' : l1.refresh.current /\ l2.refresh.current => l1 = l2
  <2>1. SUFFICES ASSUME NEW l1 \in lists, NEW l2 \in lists, l1.refresh.current, l2.refresh.current
                 PROVE  l1 = l2
    BY <1>0, <1>2
  <2> QED
    BY <2>1 DEF RefreshInv
<1>5. \A q1, q2 \in configAsked' : Leads(q1.by) /\ Leads(q2.by) => q1 = q2
  <2>1. SUFFICES ASSUME NEW q1 \in configAsked, NEW q2 \in configAsked, Leads(q1.by), Leads(q2.by)
                 PROVE  q1 = q2
    BY <1>0, <1>3
  <2> QED
    BY <2>1 DEF RefreshInv
<1>6. \A l \in lists', q \in configAsked' : ~(l.refresh.current /\ Leads(q.by))
  <2>1. SUFFICES ASSUME NEW l \in lists, NEW q \in configAsked
                 PROVE  ~(l.refresh.current /\ Leads(q.by))
    BY <1>0, <1>2, <1>3
  <2> QED
    BY DEF RefreshInv
<1>7. (\E q \in resultAsked' : Leads(q.by)) =>
          /\ \A l \in lists' : ~l.refresh.current
          /\ \A q \in configAsked' : ~Leads(q.by)
  <2>1. SUFFICES ASSUME \E q \in resultAsked' : Leads(q.by)
                 PROVE  /\ \A l \in lists' : ~l.refresh.current
                        /\ \A q \in configAsked' : ~Leads(q.by)
    OBVIOUS
  <2>2. /\ \A l \in lists : ~l.refresh.current
        /\ \A q \in configAsked : ~Leads(q.by)
    BY <2>1 DEF RefreshInv
  <2> QED
    BY <1>0, <1>2, <1>3, <2>2
<1>8. lists' \subseteq ListRequests /\ configAsked' \subseteq ConfigRequests
  BY <1>0, <1>2, <1>3
<1>9. \A q \in configAsked : \E o \in configAsked' : o.current = q.current /\ o.path = q.path
  BY <1>0, <1>3
<1> QED
  BY <1>4, <1>5, <1>6, <1>7, <1>8, <1>9 DEF RefreshInv

LEMMA ChooseResultKeeps ==
    ASSUME WallInv, NEW n \in Results, ChooseResult(n)
    PROVE  WallInv'
<1> DEFINE R(q) == [q EXCEPT !.by = Overruled(@)]
           asked == {R(q) : q \in resultAsked}
<1>1. /\ LoadResult(n, asked, Blank, {}, replays)
      /\ lists' = {[l EXCEPT !.refresh = Overruled(@)] : l \in lists}
      /\ configAsked' = {[q EXCEPT !.by = Overruled(@)] : q \in configAsked}
      /\ UNCHANGED <<serverVars, configs, configSelect, currentConfig, runEnabled, pollVars,
                     results, replays, replayScope, resultOptions, savedResult>>
  BY DEF ChooseResult, ElseUnchangedResult
<1>2. JobsInv'
  BY <1>1, JobsKept DEF WallInv, jobVars
<1>3. \A q \in resultAsked :
          R(q) \in ResultRequests /\ (Leads(R(q).by) <=> Leads(q.by))
  <2>1. SUFFICES ASSUME NEW q \in resultAsked
                 PROVE  R(q) \in ResultRequests /\ (Leads(R(q).by) <=> Leads(q.by))
    OBVIOUS
  <2>2. q \in ResultRequests /\ q.by \in Maybe(Refreshes)
    BY DEF WallInv, ResultInv, ResultType, ResultRequests
  <2>3. /\ Overruled(q.by) \in Maybe(Refreshes)
        /\ Leads(Overruled(q.by)) <=> Leads(q.by)
    BY <2>2, GivenUp
  <2> QED
    BY <2>2, <2>3 DEF ResultRequests
<1>4. asked \in SUBSET ResultRequests
  BY <1>3
<1>5. ResultInv' /\ ReplayInv'
  <2>1. /\ replays' = replays /\ UNCHANGED replayScope /\ ResultInv /\ ReplayType
        /\ results' \subseteq Results /\ resultOptions' \subseteq Results
        /\ savedResult' \in Maybe(Results) /\ replays' \subseteq Cases
    BY <1>1 DEF WallInv, ReplayInv, ResultInv, ResultType, ReplayType
  <2>2. LoadResult(n, asked, Blank, {}, replays')
    BY <1>1, <2>1
  <2>3. n \in Maybe(Results) /\ Blank \in Maybe(Refreshes) /\ {} \in SUBSET Results
    BY DEF Maybe
  <2> HIDE DEF asked
  <2> QED
    BY <1>4, <2>1, <2>2, <2>3, LoadResultKeeps
<1>6. \A q \in resultAsked' : Leads(q.by) => \E o \in resultAsked : Leads(o.by)
  <2> DEFINE new == [name |-> n, current |-> TRUE, by |-> Blank, left |-> {}]
  <2>1. resultAsked' \subseteq Older(asked) \cup {new}
    BY <1>1 DEF LoadResult
  <2>2. ~Leads(new.by)
    BY DEF Leads
  <2>3. \A q \in Older(asked) : \E p \in asked : q.by = p.by
    BY <1>4, OlderRequests
  <2> HIDE DEF new, R
  <2>4. SUFFICES ASSUME NEW q \in resultAsked', Leads(q.by) PROVE \E o \in resultAsked : Leads(o.by)
    OBVIOUS
  <2>5. q \in Older(asked)
    BY <2>1, <2>2, <2>4
  <2>6. PICK p \in asked : q.by = p.by
    BY <2>3, <2>5
  <2>7. PICK o \in resultAsked : p = R(o)
    BY <2>6
  <2> QED
    BY <1>3, <2>4, <2>6, <2>7
<1>7. /\ lists' \subseteq ListRequests /\ configAsked' \subseteq ConfigRequests
      /\ \A q \in configAsked : \E o \in configAsked' : o.current = q.current /\ o.path = q.path
      /\ RefreshInv'
  BY <1>1, <1>6, OverruledRefreshes DEF WallInv
<1>8. ConfigInv'
  BY <1>1, <1>7 DEF WallInv, ConfigInv, ConfigType
<1> QED
  BY <1>2, <1>5, <1>7, <1>8 DEF WallInv

LEMMA ResultDroppedKeeps ==
    ASSUME WallInv, NEW q \in resultAsked, ResultDropped(q)
    PROVE  WallInv' /\ UNCHANGED resultSelect
<1>1. /\ ~Expected(q) /\ resultAsked' = resultAsked \ {q}
      /\ UNCHANGED <<serverVars, configs, configSelect, currentConfig, runEnabled, pollVars,
                     results, replays, replayScope, lists, configAsked>>
      /\ UNCHANGED <<resultOptions, resultSelect, shownVars, savedResult, reportVars,
                     currentReplay, replaying, replayOutput>>
  BY DEF ResultDropped, ElseUnchangedResult
<1>2. /\ UNCHANGED <<currentResult, resultMessage>>
      /\ UNCHANGED <<reportOpen, reportContent, reportAsked, reportClosing, lightbox>>
  BY <1>1 DEF shownVars, reportVars
<1>3. JobsInv' /\ ConfigInv' /\ ReplayInv'
  BY <1>1, <1>2, JobsKept, ConfigKept, ReplayKept
     DEF WallInv, jobVars, preflightVars, configVars, replayVars
<1>4. RefreshInv'
  BY <1>1 DEF WallInv, RefreshInv
<1>5. ResultType'
  BY <1>1, <1>2 DEF WallInv, ResultInv, ResultType
<1>6. ShownIsSelected' /\ WhatIsOpen'
  BY <1>1, <1>2 DEF WallInv, ResultInv, ShownIsSelected, WhatIsOpen
<1>7. resultSelect' # Blank /\ currentResult' = Blank /\ resultMessage' # "failed" =>
          \E o \in resultAsked' : o.current /\ o.name = resultSelect'
  BY <1>1, <1>2 DEF WallInv, ResultInv, Expected
<1>8. ResultInv'
  BY <1>1, <1>2, <1>5, <1>6, <1>7 DEF WallInv, ResultInv
<1> QED
  BY <1>1, <1>3, <1>4, <1>8 DEF WallInv

LEMMA ResultArrivesKeeps ==
    ASSUME WallInv, NEW q \in resultAsked, ResultArrives(q)
    PROVE  WallInv' /\ UNCHANGED resultSelect
<1>1. /\ Expected(q) /\ resultAsked' = resultAsked \ {q}
      /\ currentResult' = q.name /\ savedResult' = q.name /\ resultMessage' = ""
      /\ currentReplay' \in Rendered(Visible(replays, replayScope, q.name), currentReplay)
      /\ UNCHANGED <<serverVars, configs, configSelect, currentConfig, runEnabled, pollVars,
                     results, replays, replayScope, lists, configAsked>>
      /\ UNCHANGED <<resultOptions, resultSelect, reportVars, replaying, replayOutput>>
  BY DEF ResultArrives, ElseUnchangedResult
<1>2. /\ q.current /\ resultSelect = q.name /\ q.name \in Results /\ currentResult = Blank
      /\ UNCHANGED <<reportOpen, reportContent, reportAsked, reportClosing, lightbox>>
  BY <1>1 DEF Expected, reportVars, WallInv, ResultInv, ResultType, ResultRequests
<1>3. JobsInv' /\ ConfigInv'
  BY <1>1, <1>2, JobsKept, ConfigKept DEF WallInv, jobVars, preflightVars, configVars
<1>4. RefreshInv'
  BY <1>1 DEF WallInv, RefreshInv
<1>5. ResultType'
  BY <1>1, <1>2 DEF WallInv, ResultInv, ResultType, Maybe
<1>6. ~reportOpen /\ lightbox = Blank
  BY <1>2 DEF WallInv, ResultInv, WhatIsOpen
<1>7. ShownIsSelected' /\ WhatIsOpen'
  BY <1>1, <1>2, <1>6 DEF ShownIsSelected, WhatIsOpen
<1>8. \A o \in resultAsked' : ~o.current
  BY <1>1, <1>2 DEF WallInv, ResultInv
<1>9. q.name # Blank
  BY <1>2, WallAssumption
<1>10. ResultInv'
  BY <1>1, <1>2, <1>5, <1>6, <1>7, <1>8, <1>9 DEF ResultInv
<1>11. /\ currentReplay' \in Maybe(Cases)
       /\ currentReplay' # Blank => currentReplay' \in Visible(replays, replayScope, q.name)
  BY <1>1, RenderedCases DEF WallInv, ReplayInv, ReplayType
<1>12. replayScope = "current" =>
           /\ replayOutput = Blank
           /\ replaying # Blank => ~replaying.current
  <2>1. \A c \in Cases : CaseOf[c] # Blank
    BY WallAssumption
  <2> QED
    BY <1>2, <2>1 DEF WallInv, ReplayInv, ReplayType, ReplayOfResult, ReplayRequests, Maybe
<1>13. ReplayInv'
  BY <1>1, <1>11, <1>12 DEF WallInv, ReplayInv, ReplayType, ReplayOfResult
<1> QED
  BY <1>1, <1>3, <1>4, <1>10, <1>13 DEF WallInv

\* When a refresh asks for another result, nothing waits for its lists.
LEMMA ResultFailsKeeps ==
    ASSUME WallInv, NEW q \in resultAsked, ResultFails(q)
    PROVE  /\ WallInv'
           /\ (\E l \in lists : l.refresh.current) \/ (\E o \in configAsked : Leads(o.by)) =>
                  UNCHANGED resultSelect
<1>1. /\ Expected(q)
      /\ UNCHANGED <<serverVars, configs, configSelect, currentConfig, runEnabled, pollVars,
                     results, replays, replayScope, lists, configAsked>>
      /\ UNCHANGED <<resultOptions, savedResult>>
  BY DEF ResultFails, ElseUnchangedResult
<1>2. JobsInv' /\ ConfigInv'
  BY <1>1, JobsKept, ConfigKept DEF WallInv, jobVars, preflightVars, configVars
<1>3. q.by \in Maybe(Refreshes) /\ q.left \in SUBSET Results /\ q.current
      /\ resultSelect = q.name /\ currentResult = Blank
  BY <1>1 DEF Expected, WallInv, ResultInv, ResultType, ResultRequests
<1>4. CASE q.by # Blank /\ q.by.current /\ q.left # {}
  <2>1. PICK n \in q.left : LoadResult(n, resultAsked \ {q}, q.by, q.left \ {n}, replays)
    BY <1>4 DEF ResultFails
  <2> DEFINE asked == resultAsked \ {q}
             left == q.left \ {n}
  <2>2. /\ n \in Maybe(Results) /\ asked \in SUBSET ResultRequests /\ left \in SUBSET Results
    BY <1>3 DEF WallInv, ResultInv, ResultType, Maybe
  <2>3. ResultInv' /\ ReplayInv'
    <3>1. /\ UNCHANGED replayScope /\ ResultInv /\ ReplayType
          /\ results' \subseteq Results /\ resultOptions' \subseteq Results
          /\ savedResult' \in Maybe(Results) /\ replays' \subseteq Cases /\ replays' = replays
      BY <1>1 DEF WallInv, ReplayInv, ResultInv, ResultType, ReplayType
    <3>2. LoadResult(n, asked, q.by, left, replays')
      BY <2>1, <3>1
    <3> HIDE DEF asked, left
    <3> QED
      BY <1>3, <2>2, <3>1, <3>2, LoadResultKeeps
  <2>4. /\ \A l \in lists : ~l.refresh.current
        /\ \A o \in configAsked : ~Leads(o.by)
    BY <1>4 DEF WallInv, RefreshInv, Leads
  <2>5. RefreshInv'
    BY <1>1, <2>4 DEF RefreshInv
  <2> QED
    BY <1>2, <2>3, <2>4, <2>5 DEF WallInv
<1>5. CASE ~(q.by # Blank /\ q.by.current /\ q.left # {})
  <2>1. /\ resultAsked' = resultAsked \ {q} /\ resultMessage' = "failed"
        /\ UNCHANGED <<resultSelect, currentResult, reportVars, currentReplay, replaying,
                        replayOutput>>
    BY <1>5 DEF ResultFails
  <2>2. UNCHANGED <<reportOpen, reportContent, reportAsked, reportClosing, lightbox>>
    BY <2>1 DEF reportVars
  <2>3. ReplayInv'
    BY <1>1, <2>1, ReplayKept DEF WallInv, replayVars
  <2>4. RefreshInv'
    BY <1>1, <2>1 DEF WallInv, RefreshInv
  <2>5. ResultType'
    BY <1>1, <2>1, <2>2 DEF WallInv, ResultInv, ResultType
  <2>6. ShownIsSelected' /\ WhatIsOpen'
    BY <2>1, <2>2 DEF WallInv, ResultInv, ShownIsSelected, WhatIsOpen
  <2>7. ResultInv'
    BY <2>1, <2>2, <2>5, <2>6 DEF WallInv, ResultInv
  <2> QED
    BY <1>2, <2>1, <2>3, <2>4, <2>7 DEF WallInv
<1> QED
  BY <1>4, <1>5

-----------------------------------------------------------------------------
(* The steps: refreshes and preflights.                                    *)

\* A refresh that the user has overruled does not change the selection.
LeavesChoice ==
    (\E r \in Waiting \ {Blank} : r.current /\ r.choice) /\ resultSelect \in results'
        => resultSelect' = resultSelect

LEMMA ShowResultsLeavesChoice ==
    ASSUME NEW by, NEW found, NEW cases, ShowResults(by, found, cases),
           by.choice, resultSelect # Blank, resultSelect \in found
    PROVE  resultSelect' = resultSelect
<1>1. PICK n \in {resultSelect} : LoadResult(n, resultAsked, by, found \ {n}, cases)
  BY DEF ShowResults
<1> QED
  BY <1>1 DEF LoadResult

LEMMA RefreshKeeps ==
    ASSUME WallInv, Refresh
    PROVE  WallInv' /\ UNCHANGED resultSelect
<1>1. /\ BeginRefresh(Blank)
      /\ UNCHANGED <<serverVars, configs, configSelect, currentConfig, runEnabled, pollVars>>
      /\ UNCHANGED <<results, resultOptions, resultSelect, shownVars, savedResult, reportVars>>
      /\ UNCHANGED replayVars
  BY DEF Refresh
<1>2. Blank \in Maybe(Results)
  BY DEF Maybe
<1>3. /\ lists' \subseteq ListRequests /\ configAsked' \subseteq ConfigRequests
      /\ RefreshInv' /\ ResultInv'
      /\ \A q \in configAsked : \E o \in configAsked' : o.current = q.current /\ o.path = q.path
  BY <1>1, <1>2, BeginRefreshKeeps DEF WallInv
<1>4. JobsInv' /\ ReplayInv'
  BY <1>1, JobsKept, ReplayKept DEF WallInv, jobVars, shownVars
<1>5. ConfigInv'
  BY <1>1, <1>3 DEF WallInv, ConfigInv, ConfigType
<1> QED
  BY <1>1, <1>3, <1>4, <1>5 DEF WallInv

LEMMA ChooseConfigKeeps ==
    ASSUME WallInv, NEW p \in ConfigFiles, ChooseConfig(p)
    PROVE  WallInv' /\ UNCHANGED resultSelect
<1>1. /\ LoadConfig(p, Blank)
      /\ UNCHANGED <<serverVars, lists, configs, pollVars, resultVars, reportVars, replayVars>>
  BY DEF ChooseConfig
<1>2. UNCHANGED <<resultAsked, currentResult, resultSelect>>
  BY <1>1 DEF resultVars, shownVars
<1>3. JobsInv' /\ ResultInv' /\ ReplayInv'
  BY <1>1, <1>2, JobsKept, ResultKept, ReplayKept DEF WallInv, jobVars, displayVars
<1>4. /\ configAsked \in SUBSET ConfigRequests /\ p \in Maybe(ConfigFiles)
      /\ Blank \in Maybe(Refreshes)
      /\ lists' \subseteq ListRequests /\ configs' \subseteq ConfigFiles
  BY <1>1 DEF WallInv, ConfigInv, ConfigType, Maybe
<1>5. ConfigInv'
  BY <1>1, <1>4, LoadConfigKeeps
<1>6. \A q \in configAsked' : Leads(q.by) => \E o \in configAsked : q.by = o.by
  <2> DEFINE new == [path |-> p, current |-> TRUE, by |-> Blank]
  <2>1. configAsked' \subseteq Older(configAsked) \cup {new}
    BY <1>1 DEF LoadConfig
  <2>2. ~Leads(new.by)
    BY DEF Leads
  <2>3. \A q \in Older(configAsked) : \E o \in configAsked : q.by = o.by
    BY <1>4, OlderRequests
  <2> HIDE DEF new
  <2> QED
    BY <2>1, <2>2, <2>3
<1>7. \A q1, q2 \in configAsked' : Leads(q1.by) /\ Leads(q2.by) => q1 = q2
  <2> DEFINE O(q) == [q EXCEPT !.current = FALSE]
             new == [path |-> p, current |-> TRUE, by |-> Blank]
  <2>1. configAsked' \subseteq {O(q) : q \in configAsked} \cup {new}
    BY <1>1 DEF LoadConfig, Older
  <2>2. ~Leads(new.by)
    BY DEF Leads
  <2>3. \A q \in configAsked : O(q).by = q.by
    BY <1>4 DEF ConfigRequests
  <2> HIDE DEF O, new
  <2>4. SUFFICES ASSUME NEW q1 \in configAsked, NEW q2 \in configAsked, Leads(q1.by), Leads(q2.by)
                 PROVE  q1 = q2
    BY <2>1, <2>2, <2>3
  <2> QED
    BY <2>4 DEF WallInv, RefreshInv
<1>8. RefreshInv'
  <2>1. \A l1, l2 \in lists' : l1.refresh.current /\ l2.refresh.current => l1 = l2
    BY <1>1 DEF WallInv, RefreshInv
  <2>2. \A l \in lists', q \in configAsked' : ~(l.refresh.current /\ Leads(q.by))
    BY <1>1, <1>6 DEF WallInv, RefreshInv
  <2>3. (\E q \in resultAsked' : Leads(q.by)) =>
            /\ \A l \in lists' : ~l.refresh.current
            /\ \A q \in configAsked' : ~Leads(q.by)
    BY <1>1, <1>2, <1>6 DEF WallInv, RefreshInv
  <2> QED
    BY <1>7, <2>1, <2>2, <2>3 DEF RefreshInv
<1> QED
  BY <1>2, <1>3, <1>5, <1>8 DEF WallInv

LEMMA ConfigAnswerKeeps ==
    ASSUME WallInv, NEW q \in configAsked, NEW valid \in BOOLEAN, ConfigAnswer(q, valid)
    PROVE  WallInv' /\ LeavesChoice
<1>1. /\ configAsked' = configAsked \ {q}
      /\ UNCHANGED <<serverVars, lists, configs, configSelect, pollVars, results, savedResult>>
      /\ UNCHANGED <<replays, replayScope>>
  BY DEF ConfigAnswer
<1>2. JobsInv'
  BY <1>1, JobsKept DEF WallInv, jobVars
<1>3. configAsked' \subseteq ConfigRequests /\ lists' \subseteq ListRequests
      /\ configs' \subseteq ConfigFiles /\ configSelect' \in Maybe(ConfigFiles)
  BY <1>1 DEF WallInv, ConfigInv, ConfigType
<1>4. ConfigInv'
  <2>1. CASE q.current /\ configSelect = q.path
    <3> DEFINE shown == [path |-> q.path, state |-> IF valid THEN "valid" ELSE "invalid"]
    <3>1. currentConfig' = shown /\ runEnabled' = (valid /\ pollingJobId = Blank)
      BY <2>1 DEF ConfigAnswer
    <3>2. q.path \in ConfigFiles
      BY DEF WallInv, ConfigInv, ConfigType, ConfigRequests
    <3>3. /\ shown \in [path : Maybe(ConfigFiles), state : {"loading", "valid", "invalid"}]
          /\ shown.path = q.path /\ (valid => shown.state = "valid") /\ shown.state # "loading"
      BY <3>2 DEF Maybe
    <3> HIDE DEF shown
    <3>4. runEnabled' \in BOOLEAN /\ (runEnabled' => valid)
      BY <3>1
    <3>5. configSelect' = q.path
      BY <1>1, <2>1
    <3> QED
      BY <1>3, <3>1, <3>3, <3>4, <3>5 DEF ConfigInv, ConfigType
  <2>2. CASE ~(q.current /\ configSelect = q.path)
    <3>1. UNCHANGED <<currentConfig, runEnabled>>
      BY <2>2 DEF ConfigAnswer
    <3> QED
      BY <1>1, <1>3, <2>2, <3>1 DEF WallInv, ConfigInv, ConfigType
  <2> QED
    BY <2>1, <2>2
<1>5. CASE Leads(q.by)
  <2>1. ShowResults(q.by, results, replays) /\ q.by \in Refreshes
    BY <1>5 DEF ConfigAnswer, Leads, WallInv, ConfigInv, ConfigType, ConfigRequests, Maybe
  <2>2. /\ ResultInv /\ ReplayType /\ replays' = replays /\ replays' \subseteq Cases
        /\ results \in SUBSET Results /\ results' \subseteq Results
    BY <1>1 DEF WallInv, ResultInv, ResultType, ReplayInv, ReplayType
  <2>3. ShowResults(q.by, results, replays')
    BY <2>1, <2>2
  <2>4. ResultInv' /\ ReplayInv'
    BY <1>1, <2>1, <2>2, <2>3, ShowResultsKeeps
  <2>5. /\ \A l \in lists : ~l.refresh.current
        /\ \A o \in configAsked \ {q} : ~Leads(o.by)
    BY <1>5 DEF WallInv, RefreshInv
  <2>6. RefreshInv'
    BY <1>1, <2>5 DEF RefreshInv
  <2>7. LeavesChoice
    <3>1. SUFFICES ASSUME NEW r \in Waiting \ {Blank}, r.current, r.choice,
                          resultSelect \in results'
                   PROVE  resultSelect' = resultSelect
      BY DEF LeavesChoice
    <3>2. r = q.by
      BY <2>5, <3>1 DEF Waiting, Leads
    <3>3. resultSelect \in results /\ resultSelect # Blank
      BY <1>1, <2>2, <3>1, WallAssumption
    <3> QED
      BY <2>1, <3>1, <3>2, <3>3, ShowResultsLeavesChoice
  <2> QED
    BY <1>2, <1>4, <2>4, <2>6, <2>7 DEF WallInv
<1>6. CASE ~Leads(q.by)
  <2>1. ResultsUntouched /\ UNCHANGED currentReplay
    BY <1>6 DEF ConfigAnswer, Leads
  <2>2. /\ UNCHANGED <<resultOptions, resultSelect, shownVars, resultAsked, reportVars>>
        /\ UNCHANGED <<replaying, replayOutput, currentReplay, currentResult>>
    BY <2>1 DEF ResultsUntouched, shownVars
  <2>3. ResultInv' /\ ReplayInv'
    BY <1>1, <2>2, ResultKept, ReplayKept DEF WallInv, displayVars, resultVars, replayVars
  <2>4. RefreshInv'
    BY <1>1, <2>2 DEF WallInv, RefreshInv
  <2> QED
    BY <1>2, <1>4, <2>2, <2>3, <2>4 DEF WallInv, LeavesChoice
<1> QED
  BY <1>5, <1>6

LEMMA ListsAskedKeep ==
    ASSUME WallInv, NEW l \in lists, ListJobs(l) \/ ListsDropped(l)
    PROVE  WallInv' /\ UNCHANGED resultSelect
<1> DEFINE answered == [l EXCEPT !.jobs = status]
<1>1. /\ lists' \subseteq (lists \ {l}) \cup {answered}
      /\ UNCHANGED <<serverVars, configVars, runEnabled, pollVars, resultVars, reportVars,
                     replayVars>>
  BY DEF ListJobs, ListsDropped
<1>2. /\ UNCHANGED <<resultAsked, currentResult, resultSelect>>
      /\ UNCHANGED <<configs, configSelect, currentConfig, configAsked>>
  BY <1>1 DEF resultVars, shownVars, configVars
<1>3. JobsInv' /\ ResultInv' /\ ReplayInv'
  BY <1>1, <1>2, JobsKept, ResultKept, ReplayKept DEF WallInv, jobVars, displayVars
<1>4. answered \in ListRequests /\ answered.refresh = l.refresh
  BY DEF WallInv, ConfigInv, ConfigType, JobsInv, JobsType, ListRequests, Maybe
<1> HIDE DEF answered
<1>5. ConfigInv'
  BY <1>1, <1>2, <1>4 DEF WallInv, ConfigInv, ConfigType
<1>6. RefreshInv'
  <2>1. \A l1, l2 \in lists' : l1.refresh.current /\ l2.refresh.current => l1 = l2
    BY <1>1, <1>4 DEF WallInv, RefreshInv
  <2>2. \A o \in lists' : o.refresh.current => \E x \in lists : x.refresh.current
    BY <1>1, <1>4
  <2>3. \A o \in lists', q \in configAsked' : ~(o.refresh.current /\ Leads(q.by))
    BY <1>2, <2>2 DEF WallInv, RefreshInv
  <2>4. (\E q \in resultAsked' : Leads(q.by)) =>
            /\ \A o \in lists' : ~o.refresh.current
            /\ \A q \in configAsked' : ~Leads(q.by)
    BY <1>2, <2>2 DEF WallInv, RefreshInv
  <2> QED
    BY <1>2, <2>1, <2>3, <2>4 DEF WallInv, RefreshInv
<1> QED
  BY <1>2, <1>3, <1>5, <1>6 DEF WallInv

LEMMA ListsArriveKeeps ==
    ASSUME WallInv, NEW l \in lists, NEW cs \in SUBSET ConfigFiles, NEW rs \in SUBSET Results,
           NEW files \in SUBSET Cases, ListsArrive(l, cs, rs, files)
    PROVE  WallInv' /\ LeavesChoice
<1>1. /\ l.jobs # Blank /\ l.refresh.current /\ lists' = lists \ {l}
      /\ configs' = cs /\ results' = rs /\ replays' = files
      /\ UNCHANGED <<serverVars, savedResult, replayScope>>
  BY DEF ListsArrive
<1>2. l.jobs \in [Jobs -> Statuses] /\ l.refresh \in Refreshes
  BY <1>1 DEF WallInv, ConfigInv, ConfigType, ListRequests, Maybe
<1>3. JobsInv'
  <2> DEFINE active == {j \in Jobs : l.jobs[j] = "active"}
  <2>1. UNCHANGED <<status, posted, accepted>> /\ accepted \subseteq Jobs
    BY <1>1 DEF serverVars, WallInv, JobsInv, JobsType
  <2>2. CASE active # {} /\ pollingJobId = Blank
    <3>1. PICK j \in active : StartPolling(j)
      BY <2>2 DEF ListsArrive
    <3> QED
      BY <1>1, <1>2, <2>1, <3>1, StartPollingKeeps DEF WallInv
  <2>3. CASE ~(active # {} /\ pollingJobId = Blank)
    <3>1. UNCHANGED <<pollingJobId, pollTimer, polls>>
      BY <2>3 DEF ListsArrive
    <3> QED
      BY <1>1, <1>2, <2>1, <3>1 DEF WallInv, JobsInv, JobsType
  <2> QED
    BY <2>2, <2>3
<1>4. /\ configAsked \in SUBSET ConfigRequests
      /\ lists' \subseteq ListRequests /\ configs' \subseteq ConfigFiles
  BY <1>1 DEF WallInv, ConfigInv, ConfigType
<1>5. /\ \A o \in lists' : ~o.refresh.current
      /\ \A q \in configAsked : ~Leads(q.by)
      /\ \A q \in resultAsked : ~Leads(q.by)
  BY <1>1 DEF WallInv, RefreshInv
<1>6. \A q \in Older(configAsked) : ~Leads(q.by)
  BY <1>4, <1>5, OlderRequests
<1>7. CASE cs = {}
  <2>1. LoadConfig(Blank, Blank) /\ ShowResults(l.refresh, rs, files)
    BY <1>7 DEF ListsArrive
  <2>2. Blank \in Maybe(ConfigFiles) /\ Blank \in Maybe(Refreshes)
    BY DEF Maybe
  <2>3. ConfigInv'
    BY <1>4, <2>1, <2>2, LoadConfigKeeps
  <2>4. ResultInv' /\ ReplayInv'
    <3>1. /\ ResultInv /\ ReplayType /\ replays' = files /\ replays' \subseteq Cases
          /\ results' \subseteq Results /\ UNCHANGED <<replayScope, savedResult>>
      BY <1>1 DEF WallInv, ReplayInv
    <3>2. ShowResults(l.refresh, rs, replays')
      BY <2>1, <3>1
    <3> QED
      BY <1>2, <3>1, <3>2, ShowResultsKeeps
  <2>5. RefreshInv'
    <3>1. configAsked' = Older(configAsked)
      BY <2>1 DEF LoadConfig
    <3> QED
      BY <1>5, <1>6, <3>1 DEF RefreshInv
  <2>6. LeavesChoice
    <3>1. SUFFICES ASSUME NEW r \in Waiting \ {Blank}, r.current, r.choice,
                          resultSelect \in results'
                   PROVE  resultSelect' = resultSelect
      BY DEF LeavesChoice
    <3>2. r = l.refresh
      BY <1>1, <1>5, <3>1 DEF Waiting, Leads
    <3>3. resultSelect \in rs /\ resultSelect # Blank
      BY <1>1, <3>1, WallAssumption
    <3> QED
      BY <2>1, <3>1, <3>2, <3>3, ShowResultsLeavesChoice
  <2> QED
    BY <1>3, <2>3, <2>4, <2>5, <2>6 DEF WallInv
<1>8. CASE cs # {}
  <2>1. PICK p \in cs : LoadConfig(p, l.refresh)
    BY <1>8 DEF ListsArrive
  <2>2. /\ ResultsUntouched
        /\ currentReplay' \in Rendered(Visible(files, replayScope, currentResult), currentReplay)
    BY <1>8 DEF ListsArrive
  <2>3. ConfigInv'
    <3>1. p \in Maybe(ConfigFiles) /\ l.refresh \in Maybe(Refreshes)
      BY <1>2 DEF Maybe
    <3> QED
      BY <1>4, <2>1, <3>1, LoadConfigKeeps
  <2>4. /\ UNCHANGED <<resultOptions, resultSelect, resultAsked, currentResult, resultMessage>>
        /\ UNCHANGED <<reportOpen, reportContent, reportAsked, reportClosing, lightbox>>
        /\ UNCHANGED <<replaying, replayOutput>>
    BY <2>2 DEF ResultsUntouched, shownVars, reportVars
  <2>5. ResultInv'
    <3>1. ResultType'
      BY <1>1, <2>4 DEF WallInv, ResultInv, ResultType
    <3>2. ShownIsSelected' /\ WhatIsOpen'
      BY <2>4 DEF WallInv, ResultInv, ShownIsSelected, WhatIsOpen
    <3> QED
      BY <2>4, <3>1, <3>2 DEF WallInv, ResultInv
  <2>6. ReplayInv'
    <3>1. /\ currentReplay' \in Maybe(Cases)
          /\ currentReplay' # Blank => currentReplay' \in Visible(files, replayScope, currentResult)
      BY <2>2, RenderedCases DEF WallInv, ReplayInv, ReplayType
    <3> QED
      BY <1>1, <2>4, <3>1 DEF WallInv, ReplayInv, ReplayType, ReplayOfResult
  <2>7. RefreshInv'
    <3> DEFINE new == [path |-> p, current |-> TRUE, by |-> l.refresh]
    <3>1. configAsked' \subseteq Older(configAsked) \cup {new}
      BY <2>1 DEF LoadConfig
    <3> HIDE DEF new
    <3> QED
      BY <1>5, <1>6, <2>4, <3>1 DEF RefreshInv
  <2> QED
    BY <1>3, <2>3, <2>4, <2>5, <2>6, <2>7 DEF WallInv, LeavesChoice
<1> QED
  BY <1>7, <1>8

-----------------------------------------------------------------------------
(* The steps: jobs.                                                        *)

JobNext ==
    \/ RunBenchmark
    \/ \E j \in Jobs : RunStarted(j)
    \/ RunRefused
    \/ \E p \in Polls : Tick(p) \/ TickDropped(p) \/ TickRunning(p) \/ TickFails(p)
    \/ \E j \in Jobs : Admit(j) \/ Finish(j)
    \/ \E p \in Polls : AnswerTick(p)

\* All of them but the end of a job leave the rest of the page alone.
LEMMA JobStepsElse ==
    ASSUME WallInv, JobNext
    PROVE  /\ ResultInv' /\ ReplayInv' /\ RefreshInv' /\ UNCHANGED resultSelect
           /\ UNCHANGED <<lists, configVars>>
<1>1. /\ UNCHANGED <<results, resultOptions, resultSelect, shownVars, resultAsked, savedResult>>
      /\ UNCHANGED <<reportVars, replayVars, lists>>
      /\ UNCHANGED <<configs, configSelect, currentConfig, configAsked>>
  BY DEF JobNext, RunBenchmark, RunStarted, RunRefused, Tick, TickDropped, TickRunning, TickFails,
         Admit, Finish, AnswerTick, ElseUnchangedRun, NoRefresh, ElseUnchangedServer, resultVars,
         configVars
<1>2. UNCHANGED currentResult
  BY <1>1 DEF shownVars
<1> QED
  BY <1>1, <1>2, ResultKept, ReplayKept, RefreshKept
     DEF WallInv, displayVars, resultVars, configVars

\* The button is enabled again only on a valid preflight.
LEMMA JobStepsButton ==
    ASSUME WallInv, JobNext
    PROVE  runEnabled' \in BOOLEAN /\ (runEnabled' => runEnabled \/ currentConfig.state = "valid")
<1>1. runEnabled \in BOOLEAN
  BY DEF WallInv, ConfigInv, ConfigType
<1>2. \/ runEnabled' = FALSE
      \/ runEnabled' = runEnabled
      \/ runEnabled' = (currentConfig.state = "valid")
  <2>1. (RunBenchmark \/ RunRefused \/ \E j \in Jobs : RunStarted(j)) =>
            \/ runEnabled' = FALSE
            \/ runEnabled' = runEnabled
            \/ runEnabled' = (currentConfig.state = "valid")
    BY DEF RunBenchmark, RunStarted, RunRefused, MayRun
  <2> QED
    BY <2>1 DEF JobNext, TickFails, StopPolling, MayRun, Tick, TickDropped, TickRunning,
                AnswerTick, Admit, Finish, ElseUnchangedServer
<1>3. CASE runEnabled' = FALSE
  BY <1>3
<1>4. CASE runEnabled' = runEnabled
  BY <1>1, <1>4
<1>5. CASE runEnabled' = (currentConfig.state = "valid")
  <2>1. runEnabled' \in BOOLEAN
    BY <1>5
  <2>2. runEnabled' => currentConfig.state = "valid"
    BY <1>5, Zenon
  <2> QED
    BY <2>1, <2>2, Zenon
<1> QED
  BY <1>2, <1>3, <1>4, <1>5, Zenon

LEMMA AcceptedJobs ==
    ASSUME WallInv, \/ RunBenchmark \/ RunRefused
                    \/ \E j \in Jobs : Admit(j) \/ Finish(j)
    PROVE  JobsInv'
<1> USE DEF WallInv, JobsInv, JobsType
<1>1. ASSUME RunBenchmark PROVE JobsInv'
  <2>1. posted < MaxPosts /\ posted' = posted + 1 /\ UNCHANGED <<status, accepted, pollVars>>
    BY <1>1 DEF RunBenchmark
  <2>2. posted' \in Nat /\ posted' <= MaxPosts
    BY <2>1, WallAssumption
  <2> QED
    BY <2>1, <2>2 DEF pollVars, Asks
<1>2. ASSUME UNCHANGED <<pollingJobId, pollTimer, polls>>,
             (posted > 0 /\ posted' = posted - 1) \/ UNCHANGED posted,
             status' \in [Jobs -> Statuses], accepted' \subseteq Jobs
      PROVE  JobsInv'
  <2>1. posted' \in Nat /\ posted' <= MaxPosts
    BY <1>2, WallAssumption
  <2> QED
    BY <1>2, <2>1
<1>3. ASSUME RunRefused PROVE JobsInv'
  <2>1. /\ UNCHANGED <<status, pollingJobId, pollTimer, polls>> /\ accepted' \subseteq Jobs
        /\ (posted > 0 /\ posted' = posted - 1) \/ UNCHANGED posted
    BY <1>3 DEF RunRefused, pollVars
  <2> QED
    BY <1>2, <2>1
<1>4. ASSUME NEW j \in Jobs, Admit(j) PROVE JobsInv'
  <2>1. /\ status' = [status EXCEPT ![j] = "active"] /\ UNCHANGED polls
        /\ UNCHANGED <<pollingJobId, pollTimer>> /\ accepted' \subseteq Jobs
        /\ (posted > 0 /\ posted' = posted - 1) \/ UNCHANGED posted
    BY <1>4 DEF Admit, ElseUnchangedServer
  <2>2. status' \in [Jobs -> Statuses]
    BY <2>1 DEF Statuses
  <2> QED
    BY <1>2, <2>1, <2>2
<1>5. ASSUME NEW j \in Jobs, Finish(j) PROVE JobsInv'
  <2>1. /\ status' = [status EXCEPT ![j] = "finished"] /\ UNCHANGED <<posted, accepted, polls>>
        /\ UNCHANGED <<pollingJobId, pollTimer>>
    BY <1>5 DEF Finish, ElseUnchangedServer
  <2>2. status' \in [Jobs -> Statuses]
    BY <2>1 DEF Statuses
  <2> QED
    BY <1>2, <2>1, <2>2
<1> QED
  BY <1>1, <1>3, <1>4, <1>5

\* The polling of a job goes on where its answers are heard, and others end.
LEMMA PollsKeep ==
    ASSUME WallInv,
           \/ \E j \in Jobs : RunStarted(j)
           \/ \E p \in Polls : Tick(p) \/ TickDropped(p) \/ TickRunning(p) \/ TickFails(p)
           \/ \E p \in Polls : AnswerTick(p)
    PROVE  JobsInv'
<1>1. /\ JobsInv /\ polls \in [Polls -> Maybe(Pollings)]
      /\ status \in [Jobs -> Statuses]
  BY DEF WallInv, JobsInv, JobsType
<1>2. ASSUME NEW j \in Jobs, RunStarted(j) PROVE JobsInv'
  <2>1. /\ UNCHANGED <<status, posted>> /\ accepted' = accepted \ {j}
        /\ UNCHANGED <<pollingJobId, pollTimer, polls>> \/ StartPolling(j)
    BY <1>2 DEF RunStarted
  <2>2. accepted' \subseteq Jobs
    BY <1>1, <2>1 DEF JobsInv, JobsType
  <2>3. CASE StartPolling(j)
    BY <1>1, <2>1, <2>2, <2>3, StartPollingKeeps
  <2>4. CASE UNCHANGED <<pollingJobId, pollTimer, polls>>
    BY <1>1, <2>1, <2>2, <2>4 DEF JobsInv, JobsType, Asks
  <2> QED
    BY <2>1, <2>3, <2>4
<1>3. ASSUME NEW p \in Polls, polls[p] # Blank
      PROVE  /\ polls[p] \in Pollings
             /\ \A x \in Pollings : x # Blank
  BY <1>1, <1>3, WallAssumption DEF Maybe
\* A polling that changes, keeps its job and its interval, and still asks if it did.
<1>4. ASSUME NEW p \in Polls, polls[p] # Blank, NEW x \in Pollings,
             polls' = [polls EXCEPT ![p] = x], UNCHANGED <<pollingJobId, serverVars>>,
             x.job = polls[p].job, Asks(polls[p]) => Asks(x),
             \/ UNCHANGED pollTimer /\ x.interval = polls[p].interval
             \/ pollTimer' = p /\ x.interval = "set"
      PROVE  JobsInv'
  <2>1. /\ polls' \in [Polls -> Maybe(Pollings)] /\ polls'[p] = x /\ x # Blank
        /\ \A o \in Polls \ {p} : polls'[o] = polls[o]
    BY <1>1, <1>3, <1>4 DEF Maybe
  <2>2. pollTimer \in Maybe(Polls) /\ pollTimer' \in Maybe(Polls) /\ Blank \notin Polls
    BY <1>1, <1>4, WallAssumption DEF JobsInv, JobsType, Maybe
  <2>3. pollTimer' # Blank => polls'[pollTimer'] # Blank /\ polls'[pollTimer'].interval = "set"
    BY <1>1, <1>4, <2>1, <2>2 DEF JobsInv, Maybe
  <2>4. pollingJobId' # Blank =>
            \E o \in Polls : polls'[o] # Blank /\ polls'[o].job = pollingJobId' /\ Asks(polls'[o])
    BY <1>1, <1>4, <2>1 DEF JobsInv
  <2>5. JobsType'
    BY <1>1, <1>4, <2>1, <2>2 DEF JobsInv, JobsType, serverVars
  <2> QED
    BY <2>3, <2>4, <2>5 DEF JobsInv
\* A polling whose answer is heard, and that is not the one that asks.
<1>5. ASSUME NEW p \in Polls, polls[p] # Blank, polls' = Heard(p),
             UNCHANGED <<pollingJobId, pollTimer, serverVars>>,
             \/ pollingJobId # polls[p].job
             \/ polls[p].interval # "none"
      PROVE  JobsInv'
  <2>1. /\ polls' \in [Polls -> Maybe(Pollings)]
        /\ \A o \in Polls \ {p} : polls'[o] = polls[o]
        /\ polls[p].interval = "set" =>
               polls'[p] # Blank /\ polls'[p].interval = "set" /\ polls'[p].job = polls[p].job
    BY <1>1, <1>5, HeardOf
  <2>2. pollTimer' # Blank => polls'[pollTimer'] # Blank /\ polls'[pollTimer'].interval = "set"
    BY <1>1, <1>5, <2>1 DEF JobsInv, JobsType, Maybe
  <2>3. pollingJobId' # Blank =>
            \E o \in Polls : polls'[o] # Blank /\ polls'[o].job = pollingJobId' /\ Asks(polls'[o])
    <3>1. SUFFICES ASSUME pollingJobId # Blank
                   PROVE  \E o \in Polls : /\ polls'[o] # Blank
                                           /\ polls'[o].job = pollingJobId /\ Asks(polls'[o])
      BY <1>5
    <3>2. PICK o \in Polls : polls[o] # Blank /\ polls[o].job = pollingJobId /\ Asks(polls[o])
      BY <1>1, <3>1 DEF JobsInv
    <3>3. CASE o # p
      BY <2>1, <3>2, <3>3
    <3>4. CASE o = p
      <4>1. polls[p].interval = "set"
        BY <1>5, <3>2, <3>4 DEF Asks
      <4> QED
        BY <2>1, <3>2, <3>4, <4>1 DEF Asks
    <3> QED
      BY <3>3, <3>4
  <2>4. JobsType'
    BY <1>1, <1>5, <2>1 DEF JobsInv, JobsType, serverVars
  <2> QED
    BY <2>2, <2>3, <2>4 DEF JobsInv
<1>6. ASSUME NEW p \in Polls, Tick(p) PROVE JobsInv'
  <2> DEFINE x == [polls[p] EXCEPT !.answer = "sent"]
  <2>1. /\ polls[p] # Blank /\ polls[p].interval = "set" /\ polls' = [polls EXCEPT ![p] = x]
        /\ UNCHANGED <<serverVars, pollingJobId, pollTimer>>
    BY <1>6 DEF Tick
  <2>2. x \in Pollings /\ x.job = polls[p].job /\ x.interval = polls[p].interval
    BY <1>3, <2>1 DEF Pollings
  <2> HIDE DEF x
  <2>3. Asks(x)
    BY <2>1, <2>2 DEF Asks
  <2>4. UNCHANGED pollTimer /\ UNCHANGED <<pollingJobId, serverVars>>
    BY <1>1, <2>1
  <2> QED
    BY <1>4, <2>1, <2>2, <2>3, <2>4
<1>7. ASSUME NEW p \in Polls, AnswerTick(p) PROVE JobsInv'
  <2> DEFINE x == [polls[p] EXCEPT !.answer = status[polls[p].job]]
  <2>1. /\ polls[p] # Blank /\ polls[p].answer = "sent" /\ status[polls[p].job] # "absent"
        /\ polls' = [polls EXCEPT ![p] = x] /\ UNCHANGED serverVars
        /\ UNCHANGED <<pollingJobId, pollTimer>>
    BY <1>7 DEF AnswerTick, ElseUnchangedServer
  <2>2. status[polls[p].job] \in {"active", "finished"}
    BY <1>1, <1>3, <2>1 DEF Pollings, Statuses
  <2>3. /\ x \in Pollings /\ x.job = polls[p].job /\ x.interval = polls[p].interval
        /\ x.answer # "none"
    BY <1>3, <2>1, <2>2 DEF Pollings
  <2> HIDE DEF x
  <2>4. Asks(polls[p]) => Asks(x)
    BY <2>3 DEF Asks
  <2>5. UNCHANGED pollTimer /\ UNCHANGED <<pollingJobId, serverVars>>
    BY <1>1, <2>1
  <2> QED
    BY <1>4, <2>1, <2>3, <2>4, <2>5
<1>8. ASSUME NEW p \in Polls, TickDropped(p) PROVE JobsInv'
  <2>1. /\ polls[p] # Blank /\ pollingJobId # polls[p].job /\ polls' = Heard(p)
        /\ UNCHANGED <<serverVars, pollingJobId, pollTimer>>
    BY <1>8 DEF TickDropped
  <2> QED
    BY <1>1, <1>5, <2>1
<1>9. ASSUME NEW p \in Polls, TickRunning(p) PROVE JobsInv'
  <2>1. /\ polls[p] # Blank
        /\ UNCHANGED <<serverVars, pollingJobId>>
    BY <1>9 DEF TickRunning, Answered
  <2>2. CASE polls[p].interval = "none"
    <3> DEFINE x == [polls[p] EXCEPT !.answer = "none", !.interval = "set"]
    <3>1. polls' = [polls EXCEPT ![p] = x] /\ pollTimer' = p
      BY <1>1, <1>3, <1>9, <2>1, <2>2 DEF TickRunning
    <3>2. x \in Pollings /\ x.job = polls[p].job /\ x.interval = "set"
      BY <1>3, <2>1 DEF Pollings
    <3> HIDE DEF x
    <3>3. Asks(x)
      BY <3>2 DEF Asks
    <3> QED
      BY <1>4, <2>1, <3>1, <3>2, <3>3
  <2>3. CASE polls[p].interval # "none"
    <3>1. polls' = Heard(p) /\ UNCHANGED pollTimer
      BY <1>9, <2>3 DEF TickRunning
    <3> QED
      BY <1>5, <2>1, <2>3, <3>1
  <2> QED
    BY <2>2, <2>3
<1>10. ASSUME NEW p \in Polls, TickFails(p) PROVE JobsInv'
  <2>1. polls[p] # Blank /\ StopPolling(p) /\ UNCHANGED serverVars
    BY <1>10 DEF TickFails
  <2> QED
    BY <1>1, <2>1, StopPollingKeeps
<1> QED
  BY <1>2, <1>6, <1>7, <1>8, <1>9, <1>10

LEMMA JobStepsKeep ==
    ASSUME WallInv, JobNext
    PROVE  WallInv' /\ UNCHANGED resultSelect
<1>1. JobsInv'
  BY AcceptedJobs, PollsKeep DEF JobNext
<1>2. ConfigInv'
  BY JobStepsElse, JobStepsButton DEF WallInv, ConfigInv, ConfigType, configVars
<1> QED
  BY <1>1, <1>2, JobStepsElse DEF WallInv

LEMMA TickFinishedKeeps ==
    ASSUME WallInv, NEW p \in Polls, NEW completed \in BOOLEAN, TickFinished(p, completed)
    PROVE  WallInv' /\ UNCHANGED resultSelect
<1> DEFINE preferred == IF completed THEN Output[polls[p].job] ELSE Blank
<1>1. /\ polls[p] # Blank /\ StopPolling(p) /\ BeginRefresh(preferred)
      /\ UNCHANGED serverVars /\ ElseUnchangedRun
  BY DEF TickFinished, Answered
<1>2. JobsInv'
  BY <1>1, StopPollingKeeps DEF WallInv
<1>3. preferred \in Maybe(Results)
  <2>1. polls[p].job \in Jobs
    BY <1>1 DEF WallInv, JobsInv, JobsType, Pollings, Maybe
  <2> QED
    BY <2>1, WallAssumption DEF Maybe
<1>4. /\ UNCHANGED <<configs, configSelect, currentConfig>>
      /\ UNCHANGED <<results, resultOptions, resultSelect, shownVars, savedResult, reportVars>>
      /\ UNCHANGED replayVars
  BY <1>1 DEF ElseUnchangedRun
<1> HIDE DEF preferred
<1>5. /\ lists' \subseteq ListRequests /\ configAsked' \subseteq ConfigRequests
      /\ RefreshInv' /\ ResultInv'
      /\ \A q \in configAsked : \E o \in configAsked' : o.current = q.current /\ o.path = q.path
  BY <1>1, <1>3, <1>4, BeginRefreshKeeps DEF WallInv
<1>6. ReplayInv'
  BY <1>4, ReplayKept DEF WallInv, shownVars
<1>7. runEnabled' = (currentConfig.state = "valid")
  BY <1>1 DEF StopPolling, MayRun
<1>8. runEnabled' \in BOOLEAN
  BY <1>7
<1>9. runEnabled' => currentConfig.state = "valid"
  BY <1>7, Zenon
<1>10. ConfigInv'
  BY <1>4, <1>5, <1>8, <1>9 DEF WallInv, ConfigInv, ConfigType
<1> QED
  BY <1>2, <1>4, <1>5, <1>6, <1>10 DEF WallInv

-----------------------------------------------------------------------------
(* The theorems.                                                           *)

LEMMA WallStepsKeep ==
    ASSUME WallInv, WallNext
    PROVE  WallInv' /\ (LeavesChoice \/ \E n \in Results : ChooseResult(n))
<1> USE DEF LeavesChoice
<1>1. CASE ReplayNext \/ ReportNext \/ JobNext \/ Refresh
  BY <1>1, ReplayStepsKeep, ReportStepsKeep, JobStepsKeep, RefreshKeeps
<1>2. CASE \E n \in Results : ChooseResult(n)
  BY <1>2, ChooseResultKeeps
<1>3. CASE \E q \in resultAsked : ResultDropped(q) \/ ResultArrives(q)
  BY <1>3, ResultDroppedKeeps, ResultArrivesKeeps
<1>4. CASE \E q \in resultAsked : ResultFails(q)
  <2>1. PICK q \in resultAsked : ResultFails(q)
    BY <1>4
  <2>2. (\E r \in Waiting \ {Blank} : r.current) =>
            (\E l \in lists : l.refresh.current) \/ (\E o \in configAsked : Leads(o.by))
    BY DEF Waiting, Leads
  <2> QED
    BY <2>1, <2>2, ResultFailsKeeps
<1>5. CASE \E p \in ConfigFiles : ChooseConfig(p)
  BY <1>5, ChooseConfigKeeps
<1>6. CASE \E q \in configAsked, valid \in BOOLEAN : ConfigAnswer(q, valid)
  BY <1>6, ConfigAnswerKeeps
<1>7. CASE \E l \in lists : ListJobs(l) \/ ListsDropped(l)
  BY <1>7, ListsAskedKeep
<1>8. CASE \E l \in lists, cs \in SUBSET ConfigFiles, rs \in SUBSET Results,
                    files \in SUBSET Cases :
               ListsArrive(l, cs, rs, files)
  BY <1>8, ListsArriveKeeps
<1>9. CASE \E p \in Polls, completed \in BOOLEAN : TickFinished(p, completed)
  BY <1>9, TickFinishedKeeps
<1> QED
  BY <1>1, <1>2, <1>3, <1>4, <1>5, <1>6, <1>7, <1>8, <1>9
     DEF WallNext, UserNext, BehindReport, AnswerNext, PollNext, ServerNext, ReplayNext,
         ReportNext, JobNext

LEMMA WallInvKept == WallInv /\ UNCHANGED wallVars => WallInv'
<1>1. SUFFICES ASSUME WallInv, UNCHANGED wallVars PROVE WallInv'
  OBVIOUS
<1>2. /\ UNCHANGED <<serverVars, lists, configVars, runEnabled, pollVars>>
      /\ UNCHANGED <<resultVars, reportVars, replayVars>>
  BY <1>1 DEF wallVars
<1>3. UNCHANGED <<currentResult, resultAsked, configAsked>>
  BY <1>2 DEF resultVars, shownVars, configVars
<1> QED
  BY <1>1, <1>2, <1>3, JobsKept, ConfigKept, ResultKept, ReplayKept, RefreshKept
     DEF WallInv, jobVars, preflightVars, displayVars

LEMMA WallInvariant == WallSpec => []WallInv
<1>1. WallInv /\ [WallNext]_wallVars => WallInv'
  BY WallStepsKeep, WallInvKept
<1> QED
  BY <1>1, InitWallInv, PTL DEF WallSpec

\* Every variable of the page keeps its type.
THEOREM WallTypeCorrect == WallSpec => []WallTypeOK
<1>1. WallInv => WallTypeOK
  BY DEF WallInv, JobsInv, ConfigInv, ResultInv, ReplayInv, WallTypeOK
<1> QED
  BY <1>1, WallInvariant, PTL

\* What is shown is the selected result; the open report and chart, and the output
\* of a replay of one of its cases, are of it (app.js).
THEOREM EverythingShownBelongs == WallSpec => []ShownBelongs
<1>1. WallInv => ShownBelongs
  BY DEF WallInv, ResultInv, ReplayInv, ShownBelongs
<1> QED
  BY <1>1, WallInvariant, PTL

\* What the page waits for is on its way: results, preflights and jobs.
THEOREM NothingIsForgotten == WallSpec => []AnswersAwaited
<1>1. WallInv => AnswersAwaited
  BY DEF WallInv, JobsInv, ConfigInv, ResultInv, LoadingEnds, PolledIsAsked, Asks,
         AnswersAwaited
<1> QED
  BY <1>1, WallInvariant, PTL

\* An experiment is run only on a valid preflight of the selected configuration.
THEOREM RunsArePreflighted == WallSpec => []RunGate
<1>1. WallInv => RunGate
  BY DEF WallInv, ConfigInv, RunGate
<1> QED
  BY <1>1, WallInvariant, PTL

\* A refresh leaves the choice that the user made since it began.
THEOREM ChoicesAreKept == WallSpec => RefreshKeepsChoice
<1>1. WallInv /\ [WallNext]_wallVars =>
          [(\E r \in Waiting \ {Blank} : r.current /\ r.choice) /\ resultSelect \in results'
           => resultSelect' = resultSelect \/ \E n \in Results : ChooseResult(n)]_wallVars
  BY WallStepsKeep DEF LeavesChoice
<1> QED
  BY <1>1, WallInvariant, PTL DEF WallSpec, RefreshKeepsChoice
=============================================================================
