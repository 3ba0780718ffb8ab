---------------------------- MODULE SerialQueue ----------------------------
(***************************************************************************)
(* What the local queue promises, whatever crashes: jobs are computed one  *)
(* at a time, each at most once, a job succeeds only out of its own        *)
(* computation, and a settled job stays settled.                           *)
(***************************************************************************)
EXTENDS Naturals, FiniteSets

CONSTANT Jobs

VARIABLES
    phase,  \* phase[j]: what the queue says of job j
    busy,   \* the jobs being computed, at most one
    tried   \* the jobs whose computation was begun

serialVars == <<phase, busy, tried>>

SerialTypeOK ==
    /\ phase \in [Jobs -> {"absent", "waiting", "dispatched", "succeeded",
                           "stopped"}]
    /\ busy \in SUBSET Jobs
    /\ tried \in SUBSET Jobs

Init ==
    /\ phase = [j \in Jobs |-> "absent"]
    /\ busy = {}
    /\ tried = {}

Submit(j) ==
    /\ phase[j] = "absent"
    /\ phase' = [phase EXCEPT ![j] = "waiting"]
    /\ UNCHANGED <<busy, tried>>

\* A pause or cancel of a job that nobody computes yet.
Withdraw(j) ==
    /\ phase[j] = "waiting"
    /\ phase' = [phase EXCEPT ![j] = "stopped"]
    /\ UNCHANGED <<busy, tried>>

Dispatch(j) ==
    /\ phase[j] = "waiting"
    /\ \A k \in Jobs : phase[k] # "dispatched"
    /\ busy = {}
    /\ phase' = [phase EXCEPT ![j] = "dispatched"]
    /\ UNCHANGED <<busy, tried>>

Begin(j) ==
    /\ phase[j] = "dispatched"
    /\ busy = {}
    /\ j \notin tried
    /\ busy' = {j}
    /\ tried' = tried \cup {j}
    /\ UNCHANGED phase

\* The process that computed j is gone; the queue does not know yet.
Abandon(j) ==
    /\ busy = {j}
    /\ busy' = {}
    /\ UNCHANGED <<phase, tried>>

\* The computation of j and its result are published in one step.
Succeed(j) ==
    /\ phase[j] = "dispatched"
    /\ busy = {j}
    /\ phase' = [phase EXCEPT ![j] = "succeeded"]
    /\ busy' = {}
    /\ UNCHANGED tried

\* j ends without a result, by its own computation or because nobody computes.
Stop(j) ==
    /\ phase[j] = "dispatched"
    /\ busy \subseteq {j}
    /\ phase' = [phase EXCEPT ![j] = "stopped"]
    /\ busy' = {}
    /\ UNCHANGED tried

Next ==
    \E j \in Jobs :
        \/ Submit(j) \/ Withdraw(j) \/ Dispatch(j) \/ Begin(j) \/ Abandon(j)
        \/ Succeed(j) \/ Stop(j)

Spec == Init /\ [][Next]_serialVars

=============================================================================
