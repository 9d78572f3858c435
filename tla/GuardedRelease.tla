---------------------------- MODULE GuardedRelease ----------------------------
(***************************************************************************)
(* The releases of scripts/deploy_cloud_run.py.  A release target is a     *)
(* sequence of gcloud commands, run one after the other; when one fails    *)
(* the script issues that step's undo commands, whose results it only      *)
(* prints, and returns 1.  The targets are data here (Flows): a sequence   *)
(* of steps, each a command and the commands that undo up to it.  A        *)
(* command that fails may have had its effect.  The workflow cancels a     *)
(* release when another is dispatched (cancel-in-progress), and the runner *)
(* may die: nothing is undone then, and the next release starts from what  *)
(* is there.                                                               *)
(*                                                                         *)
(* What the commands do to Cloud Run and Cloud Scheduler is external: a    *)
(* new revision takes traffic only while the route follows the latest one; *)
(* an updated scheduler job keeps its state, a created one is ENABLED.     *)
(* A release is its number: the image, the revision and the schema it      *)
(* brings carry it.                                                        *)
(***************************************************************************)
EXTENDS Naturals, Sequences, SequencesExt

CONSTANTS CoreJobs,     \* the owned-portfolio Jobs, in the order they are updated
          TradeJobs,    \* the incremental trade Jobs: domestic, overseas
          OldJobs,      \* the legacy batch and warm-up Jobs
          FlowNames,    \* the targets that may be dispatched
          MaxReleases   \* bound: releases dispatched

ASSUME TargetAssumption ==
  /\ CoreJobs \in Seq(STRING) /\ TradeJobs \in Seq(STRING) /\ OldJobs \in Seq(STRING)
  /\ Len(TradeJobs) >= 2 /\ Len(OldJobs) >= 1 /\ MaxReleases \in Nat

Job == ToSet(CoreJobs \o TradeJobs \o OldJobs)
Service == {"auth", "remote"}
Scheduler == {"legacy", "trade"} \X DOMAIN TradeJobs \cup {"core"} \X DOMAIN CoreJobs

VARIABLES live,      \* what Cloud Run and Cloud Scheduler hold: the release of each job's
                     \* image, of each service's latest, pinned and tagged revision,
                     \* whether its route follows the latest, and the schedulers' states
          schema,    \* the releases whose migration or activation was executed
          smoked,    \* history: the releases whose zero-traffic candidate passed
          flowOf,    \* the target of each release; the last is the one at hand
          before,    \* what live was when this release looked at it
          status, at, todo,   \* where the release stands, its step, the undos left
          paused,    \* the schedulers this release has paused
          late,      \* a command of this release failed after its effect
          lost       \* history: the undo commands that failed

releaseVars == <<live, schema, smoked, flowOf, before, status, at, todo, paused, late, lost>>

release == Len(flowOf)
flow == flowOf[release]

-----------------------------------------------------------------------------
(* Cloud Run: the revision that takes a service's traffic.                 *)
Serving(l, s) == IF l.follows[s] THEN l.latest[s] ELSE l.pinned[s]

Pin(l, s, r) == [l EXCEPT !.pinned[s] = r, !.follows[s] = FALSE]

(* The effect of each command.  A command names an operation and what it   *)
(* is about.                                                               *)
Cmd(op, on) == [op |-> op, on |-> on]

Effect(c, l) ==
    CASE c.op = "update job"   -> [l EXCEPT !.job[c.on] = release]
      [] c.op = "restore job"  -> [l EXCEPT !.job[c.on] = before.job[c.on]]
      [] c.op = "new revision" -> [l EXCEPT !.latest[c.on] = release]
      [] c.op = "candidate"    -> [Pin(l, c.on, Serving(l, c.on)) EXCEPT !.latest[c.on] = release]
      [] c.op = "tagged candidate" ->
           [Pin(l, c.on, Serving(l, c.on)) EXCEPT !.latest[c.on] = release, !.tag[c.on] = release]
      [] c.op = "to latest"    -> [l EXCEPT !.follows[c.on] = TRUE]
      [] c.op = "both to latest" -> [l EXCEPT !.follows[c.on] = TRUE, !.tag[c.on] = l.latest[c.on]]
      [] c.op = "to release"   -> Pin(l, c.on, release)
      [] c.op = "to tag"       -> Pin(l, c.on, l.tag[c.on])
      [] c.op = "route back"   -> Pin(l, c.on, Serving(before, c.on))
      [] c.op = "routes back"  -> [Pin(l, c.on, Serving(before, c.on)) EXCEPT !.tag[c.on] = before.tag[c.on]]
      [] c.op = "schedule"     -> [l EXCEPT !.sched[c.on] = IF @ = "absent" THEN "ENABLED" ELSE @]
      [] c.op \in {"pause legacy", "pause"} -> [l EXCEPT !.sched[c.on] = IF @ = "absent" THEN @ ELSE "PAUSED"]
      [] c.op = "resume"       -> [l EXCEPT !.sched[c.on] = IF c.on \in paused THEN "ENABLED" ELSE @]
      [] OTHER                 -> l      \* describe, execute, smoke

-----------------------------------------------------------------------------
(* The targets.  A step is a command and what undoes up to it.             *)
Task(c, undo) == [do |-> c, undo |-> undo]
Steps(cmds) == [i \in DOMAIN cmds |-> Task(cmds[i], << >>)]
On(op, things) == [i \in DOMAIN things |-> Cmd(op, things[i])]
Guarded(steps, undo) == [i \in DOMAIN steps |-> [steps[i] EXCEPT !.undo = @ \o undo]]

Look == Task(Cmd("look", "all"), << >>)
Execute == Task(Cmd("execute", "job"), << >>)
Smoke(undo) == Task(Cmd("smoke", "stable"), undo)
SmokeCandidate == Task(Cmd("smoke candidate", "tag"), << >>)
Migrate == Task(Cmd("migrate", "schema"), << >>)

_rollback_job_definitions(jobs) == Reverse(On("restore job", jobs))
UpdateCoreJobs == Steps(On("update job", CoreJobs))

\* Mutation: a Job is listed as changed only when its update has returned 0.
UpdateSomeJobsListedAfter(jobs, routes) ==
    [i \in DOMAIN jobs |->
        Task(Cmd("update job", jobs[i]), _rollback_job_definitions(SubSeq(jobs, 1, i - 1)) \o routes)]

\* A Job is listed as changed before its update is tried.
UpdateSomeJobs(jobs, routes) ==
    [i \in DOMAIN jobs |->
        Task(Cmd("update job", jobs[i]), _rollback_job_definitions(SubSeq(jobs, 1, i)) \o routes)]
RoutesBack == <<Cmd("routes back", "remote")>>

_deploy_wi051_final_audit ==
    LET services == <<"auth", "remote">>
        back(n) == Reverse(On("route back", SubSeq(services, 1, n)))
    IN  <<Look>> \o Steps(On("update job", OldJobs \o CoreJobs)) \o Steps(On("new revision", services))
        \o [i \in DOMAIN services |-> Task(Cmd("to release", services[i]), back(i - 1))]
        \o <<Smoke(back(2))>>

_deploy_wi046_stage ==
    <<Migrate>> \o <<Task(Cmd("tagged candidate", "auth"), << >>), Task(Cmd("tagged candidate", "remote"), << >>),
                     SmokeCandidate>>
_deploy_wi046_auth_candidate == <<Task(Cmd("tagged candidate", "auth"), << >>), SmokeCandidate>>
_promote_wi046_auth == <<Look, Task(Cmd("to tag", "auth"), << >>), Smoke(<<Cmd("route back", "auth")>>)>>
_promote_wi046_remote == <<Look, Task(Cmd("to tag", "remote"), << >>), Smoke(<<Cmd("route back", "remote")>>)>>

_deploy_wi048_s02 == <<Migrate>> \o UpdateCoreJobs \o Steps(<<Cmd("new revision", "remote")>>) \o <<Smoke(<< >>)>>
_deploy_wi055_s01 == <<Execute>> \o UpdateCoreJobs
_deploy_wi055_s03 == _deploy_wi055_s01
_deploy_wi055_s04 == _deploy_wi055_s01
_deploy_wi075 == _deploy_wi055_s01
_deploy_wi076 == _deploy_wi055_s01
_deploy_wi055 == UpdateCoreJobs
_deploy_wi030_s02 == <<Migrate>> \o UpdateCoreJobs
_deploy_wi030_s03 == <<Execute, Migrate>> \o UpdateCoreJobs
_deploy_wi070 == <<Execute, Migrate>> \o UpdateCoreJobs
_deploy_v2_core_schedulers == Steps([i \in DOMAIN CoreJobs |-> Cmd("schedule", <<"core", i>>)])
_deploy_wi029_s04 == <<Migrate>> \o UpdateCoreJobs \o <<Execute>> \o _deploy_v2_core_schedulers

_deploy_wi065 ==
    <<Look>> \o Steps(<<Cmd("new revision", "remote"), Cmd("both to latest", "remote")>>)
    \o <<Smoke(RoutesBack)>>

_deploy_wi078 == <<Look, Migrate>> \o _deploy_wi055_s01 \o _deploy_wi065 \o _deploy_v2_core_schedulers

_deploy_wi060 ==
    LET jobsBack == _rollback_job_definitions(CoreJobs)
    IN  <<Look, Task(Cmd("candidate", "remote"), << >>), SmokeCandidate>>
        \o Guarded(UpdateCoreJobs \o <<Execute, Look, Task(Cmd("to release", "remote"), << >>),
                                       Smoke(<<Cmd("route back", "remote")>>)>>, jobsBack)

\* Mutation: the old schedules are resumed before the new ones are paused.
_deploy_wi063_resume_first ==
    LET legacy == [i \in DOMAIN TradeJobs |-> <<"legacy", i>>]
        trade == [i \in DOMAIN TradeJobs |-> <<"trade", i>>]
        undo == Reverse(On("resume", legacy)) \o On("pause", trade)
    IN  Steps(On("update job", TradeJobs) \o <<Cmd("new revision", "remote"), Cmd("to latest", "remote")>>)
        \o <<Smoke(<< >>)>>
        \o Guarded(Steps(On("pause legacy", legacy) \o On("schedule", trade)), undo)

_deploy_wi063 ==
    LET legacy == [i \in DOMAIN TradeJobs |-> <<"legacy", i>>]
        trade == [i \in DOMAIN TradeJobs |-> <<"trade", i>>]
        undo == On("pause", trade) \o Reverse(On("resume", legacy))
    IN  Steps(On("update job", TradeJobs) \o <<Cmd("new revision", "remote"), Cmd("to latest", "remote")>>)
        \o <<Smoke(<< >>)>>      \* its undo raises NameError: previous_revision is not defined
        \o Guarded(Steps(On("pause legacy", legacy) \o On("schedule", trade)), undo)

_deploy_wi063_s02 ==
    <<Look>> \o UpdateSomeJobs(TradeJobs, RoutesBack)
    \o Guarded(_deploy_wi065, _rollback_job_definitions(TradeJobs) \o RoutesBack)
_deploy_wi071 ==
    <<Look, Migrate>> \o UpdateSomeJobs(CoreJobs, RoutesBack)
    \o Guarded(_deploy_wi065, _rollback_job_definitions(CoreJobs) \o RoutesBack)
_deploy_wi064 == <<Look, Migrate>> \o UpdateSomeJobs(TradeJobs, << >>)
\* Mutation: the new revision is deployed with traffic, before the migration.
_deploy_wi066_revision_first ==
    <<Look, Task(Cmd("new revision", "remote"), << >>), Migrate,
      Task(Cmd("both to latest", "remote"), RoutesBack), Smoke(RoutesBack)>>

_deploy_wi066 ==
    <<Look, Migrate>> \o <<Task(Cmd("candidate", "remote"), << >>),
                           Task(Cmd("both to latest", "remote"), RoutesBack), Smoke(RoutesBack)>>
_deploy_wi068 == _deploy_wi066
_deploy_wi074 == Steps(<<Cmd("update job", TradeJobs[1])>>) \o <<Execute>>
_deploy_service(s) == Steps(<<Cmd("new revision", s), Cmd("to latest", s)>>)
_deploy_job(j) == Steps(<<Cmd("update job", j)>>)
_deploy_scheduler_target(i) == Steps(<<Cmd("schedule", <<"legacy", i>>)>>)

Flows ==
    [wi051 |-> _deploy_wi051_final_audit, wi046_stage |-> _deploy_wi046_stage,
     wi046_candidate |-> _deploy_wi046_auth_candidate, wi046_auth |-> _promote_wi046_auth,
     wi046_remote |-> _promote_wi046_remote, wi048 |-> _deploy_wi048_s02, wi055_s01 |-> _deploy_wi055_s01,
     wi070 |-> _deploy_wi070, wi029 |-> _deploy_wi029_s04, wi065 |-> _deploy_wi065, wi078 |-> _deploy_wi078,
     wi060 |-> _deploy_wi060, wi063 |-> _deploy_wi063, wi063_s02 |-> _deploy_wi063_s02,
     wi071 |-> _deploy_wi071, wi064 |-> _deploy_wi064, wi066 |-> _deploy_wi066, wi068 |-> _deploy_wi068,
     wi074 |-> _deploy_wi074, auth |-> _deploy_service("auth"), remote |-> _deploy_service("remote"),
     wi030_s02 |-> _deploy_wi030_s02, wi030_s03 |-> _deploy_wi030_s03, wi055 |-> _deploy_wi055,
     wi055_s03 |-> _deploy_wi055_s03, wi055_s04 |-> _deploy_wi055_s04, wi075 |-> _deploy_wi075,
     wi076 |-> _deploy_wi076, core_batch |-> UpdateCoreJobs, core_schedulers |-> _deploy_v2_core_schedulers,
     batch |-> _deploy_job(OldJobs[1]), scheduler |-> _deploy_scheduler_target(1),
     overseas_scheduler |-> _deploy_scheduler_target(2)]

ASSUME FlowsAreTargets == FlowNames \subseteq DOMAIN Flows

-----------------------------------------------------------------------------
ReleaseInit ==
    /\ live \in [job : {[j \in Job |-> 0]}, latest : {[s \in Service |-> 0]},
                 pinned : {[s \in Service |-> 0]}, follows : [Service -> BOOLEAN],
                 tag : {[s \in Service |-> 0]},
                 sched : {[x \in Scheduler |-> IF x[1] = "trade" THEN "absent" ELSE "ENABLED"]}]
    /\ schema = {} /\ smoked = {} /\ flowOf = << >> /\ before = live
    /\ status = "idle" /\ at = 1 /\ todo = << >>
    /\ paused = {} /\ late = FALSE /\ lost = {}

(* The operator dispatches target f: a release that is still under way has *)
(* been cancelled (Die).  It takes down what is live before any change.    *)
Start(f) ==
    /\ status \notin {"running", "undoing"} /\ release < MaxReleases
    /\ flowOf' = Append(flowOf, f)
    /\ before' = live /\ status' = "running" /\ at' = 1 /\ todo' = << >>
    /\ paused' = {} /\ late' = FALSE
    /\ UNCHANGED <<live, schema, smoked, lost>>

(* What command c does when it has its effect.                             *)
Take(c) ==
    /\ live' = Effect(c, live)
    /\ schema' = IF c.op = "migrate" THEN schema \cup {release} ELSE schema

Running == status = "running" /\ at <= Len(Flows[flow])
Now == Flows[flow][at]

(* The step's command returns 0.                                           *)
Do ==
    /\ Running /\ Take(Now.do)
    /\ smoked' = IF Now.do.op = "smoke candidate" THEN smoked \cup {release} ELSE smoked
    /\ paused' = IF Now.do.op = "pause legacy" /\ live.sched[Now.do.on] = "ENABLED"
                 THEN paused \cup {Now.do.on} ELSE paused
    /\ at' = at + 1
    /\ UNCHANGED <<flowOf, before, status, todo, late, lost>>

Succeed ==
    /\ status = "running" /\ at > Len(Flows[flow])
    /\ status' = "succeeded"
    /\ UNCHANGED <<live, schema, smoked, flowOf, before, at, todo, paused, late, lost>>

(* It returns something else: the step's undo commands come next.          *)
Fail ==
    /\ Running /\ status' = "undoing" /\ todo' = Now.undo
    /\ UNCHANGED <<live, schema, smoked, flowOf, before, at, paused, late, lost>>

FailLate ==
    /\ Running /\ Take(Now.do) /\ <<live, schema>>' # <<live, schema>>
    /\ status' = "undoing" /\ todo' = Now.undo /\ late' = TRUE
    /\ UNCHANGED <<smoked, flowOf, before, at, paused, lost>>

Undo ==
    /\ status = "undoing" /\ todo # << >>
    /\ live' = Effect(Head(todo), live) /\ todo' = Tail(todo)
    /\ UNCHANGED <<schema, smoked, flowOf, before, status, at, paused, late, lost>>

(* An undo command fails: the script goes on with the next.                *)
UndoFails ==
    /\ status = "undoing" /\ todo # << >>
    /\ todo' = Tail(todo) /\ lost' = lost \cup {<<release, Head(todo)>>}
    /\ UNCHANGED <<live, schema, smoked, flowOf, before, status, at, paused, late>>

GiveUp ==
    /\ status = "undoing" /\ todo = << >>
    /\ status' = "failed"
    /\ UNCHANGED <<live, schema, smoked, flowOf, before, at, todo, paused, late, lost>>

(* The runner dies, or another dispatch cancels it: the command under way  *)
(* has its effect or not, and nothing is undone.                           *)
Die ==
    /\ status \in {"running", "undoing"}
    /\ \/ UNCHANGED <<live, schema>>
       \/ Running /\ Take(Now.do)
    /\ status' = "died"
    /\ UNCHANGED <<smoked, flowOf, before, at, todo, paused, late, lost>>

ReleaseNext ==
    \/ \E f \in FlowNames : Start(f)
    \/ Do \/ Succeed \/ Fail \/ FailLate \/ Undo \/ UndoFails \/ GiveUp \/ Die

ReleaseSpec == ReleaseInit /\ [][ReleaseNext]_releaseVars

-----------------------------------------------------------------------------
(* What users of the system meet: the Jobs' definitions, the revisions     *)
(* that serve, the tagged routes, the schedules.                           *)
SameJobs == live.job = before.job
SameRoutes == \A s \in Service : Serving(live, s) = Serving(before, s) /\ live.tag[s] = before.tag[s]
SameSchedules == live.sched = before.sched

(* A release that fails and whose undo commands all work leaves what it    *)
(* found (only the additive migration stays).  A target that patches Jobs  *)
(* and routes together does so whichever command fails and although that   *)
(* command has had its effect; the candidate targets put back the Jobs     *)
(* always, and the routes unless the promotion itself failed late; the     *)
(* trade cut-over puts back the schedules unless one of its pauses did.    *)
(* This is about the undo list of every step: what it names and when it is *)
(* issued.                                                                 *)
FailedReleaseRestores ==
    status = "failed" /\ (\A x \in lost : x[1] # release) =>
        /\ flow \in {"wi063_s02", "wi064", "wi066", "wi068", "wi071"} =>
              SameJobs /\ SameRoutes /\ SameSchedules
        /\ flow = "wi060" => SameJobs
        /\ flow \in {"wi060", "wi046_auth", "wi046_remote"} /\ ~late => SameRoutes
        /\ flow = "wi063" /\ ~late => \A i \in DOMAIN TradeJobs :
              live.sched[<<"legacy", i>>] = before.sched[<<"legacy", i>>]

(* Whatever is cancelled, fails or follows, a Job or a route stands at a   *)
(* release only after the migration of that release was executed, and the  *)
(* resilience release takes stable traffic only after its zero-traffic     *)
(* candidate passed the smoke.                                             *)
Migrates(f) == \E i \in DOMAIN Flows[f] : Flows[f][i].do.op = "migrate"
InUse == Range(live.job) \cup {Serving(live, s) : s \in Service} \cup Range(live.tag)

NothingBeforeItsSchema ==
    \A r \in 1..release :
        /\ r \in InUse /\ Migrates(flowOf[r]) => r \in schema
        /\ r = Serving(live, "remote") /\ flowOf[r] = "wi060" => r \in smoked

(* The old and the new schedule of a trade scope are never both enabled,   *)
(* unless an undo could not pause the new one: the cut-over pauses every   *)
(* old schedule before it creates a new one, and an undo pauses the new    *)
(* ones before it resumes the old.                                         *)
OneSchedulePerScope ==
    (\E i \in DOMAIN TradeJobs :
        live.sched[<<"legacy", i>>] = "ENABLED" /\ live.sched[<<"trade", i>>] = "ENABLED")
    => \E x \in lost : x[2].op = "pause"

=============================================================================
