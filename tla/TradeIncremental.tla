--------------------------- MODULE TradeIncremental ---------------------------
(***************************************************************************)
(* The daily collection of trade history (services/trade_incremental.py)   *)
(* on the resumable runtime of the backfill                                *)
(* (services/trade_cash_backfill_runtime.py), for one account and one      *)
(* market.  A job asks for the days from the one after the coverage row to *)
(* its own date, cuts them into partitions, and runs each as a managed     *)
(* pipeline of its own: pages are reserved, fetched and landed, and the    *)
(* watermark of the partition's stream moves.  Only when every partition   *)
(* has succeeded does the coverage row move.  A job may fail or die at any *)
(* step; the next one resumes the partitions of the same date.             *)
(*                                                                         *)
(* The domestic market has a stream for history older than RecentDays and  *)
(* one for the rest; an overseas market has two that each cover the whole  *)
(* window.  One job of a scope runs at a time, as its schedule has it.     *)
(***************************************************************************)
EXTENDS Integers, Sequences, FiniteSetsExt

CONSTANTS RecentDays,    \* DOMESTIC_RECENT_DAYS
          ShardDays,     \* partition_days
          MaxReplay,     \* MAX_REPLAY_DAYS
          PageLimit,     \* page_limits: pages of one partition
          MaxCalls,      \* MAX_PHYSICAL_CALLS
          Since,         \* day on which the one-off backfill ended
          MaxDay,        \* the day it is: a job is given any date up to it
          MaxJobs,       \* bound: jobs that are started
          MaxFailures    \* bound: jobs that fail or die at a step

ASSUME DayAssumption ==
  /\ RecentDays \in Nat /\ ShardDays \in Nat \ {0} /\ MaxReplay \in Nat \ {0}
  /\ Since \in Nat /\ Since > RecentDays + 1 /\ MaxDay \in Nat /\ MaxDay > Since
ASSUME CallAssumption ==
  /\ PageLimit \in Nat \ {0} /\ MaxCalls \in Nat /\ MaxJobs \in Nat /\ MaxFailures \in Nat

VARIABLES scope,      \* "domestic" or "overseas"
          before,     \* watermarks the backfill left, of every stream; 0: none
          mark,       \* control.watermarks of this pipeline's streams; 0: none
          cover,      \* the query-coverage watermark of the market; 0: none
          run,        \* control.pipeline_runs, by partition: the stage it has come to
          held,       \* days whose trades are landed, by stream
          jobs, failures,
          pc, end, plan, at, used, pages   \* of the job

rows == <<mark, cover, run, held>>
given == <<scope, before, jobs>>
vars == <<given, rows, failures, pc, end, plan, at, used, pages>>

Scope == {"domestic", "overseas"}
Stream == {"old", "recent", "order", "transaction"}
Backfilled == [s \in Stream |-> IF s = "old" THEN Since - RecentDays - 1 ELSE Since]

Init ==
  /\ scope \in Scope /\ before \in {Backfilled, [s \in Stream |-> 0]}
  /\ cover = 0 /\ jobs = 0
  /\ mark = [s \in Stream |-> 0] /\ held = [s \in Stream |-> {}]
  /\ run = << >> /\ failures = 0
  /\ pc = "idle" /\ end = 0 /\ plan = << >> /\ at = 1 /\ used = << >> /\ pages = 0

-----------------------------------------------------------------------------
(* The partitions of a window: each stream's days cut into shards.  The    *)
(* run of a partition is keyed by the job's date as well.                  *)
Shards(stream, first, last, e) ==
  LET count == IF first > last THEN 0 ELSE (last - first) \div ShardDays + 1
      From(i) == first + (i - 1) * ShardDays
  IN  [i \in 1..count |-> [stream |-> stream, first |-> From(i), end |-> e,
                           last |-> Min({last, From(i) + ShardDays - 1})]]

Larger(a, b) == IF a > b THEN a ELSE b

Partitions(start, e) ==
  LET cutoff == e - RecentDays
  IN  IF scope = "domestic"
      THEN Shards("old", start, cutoff - 1, e) \o Shards("recent", Larger(start, cutoff), e, e)
      ELSE Shards("order", start, e, e) \o Shards("transaction", start, e, e)

Least(S) == IF S \ {0} = {} THEN 0 ELSE Min(S \ {0})

(* The coverage row, or else the least watermark of the pipeline, in which *)
(* the streams of other accounts and markets count too, or else of the     *)
(* backfill.                                                               *)
Coverage(others) ==
  LET own == Least({mark[s] : s \in Stream} \cup {others})
  IN  IF cover # 0 THEN cover ELSE IF own # 0 THEN own ELSE Least({before[s] : s \in Stream})

Wanted(coverage, from, e) ==
  IF from # 0 THEN from ELSE IF coverage # 0 THEN coverage + 1 ELSE e

(* A start after the end is the end, and is not looked at further.         *)
Allowed(coverage, wanted, e) ==
  \/ wanted > e
  \/ e - wanted + 1 <= MaxReplay /\ (coverage # 0 => wanted <= coverage + 1)

(* The window may be asked for by hand, from any day on; the calls of      *)
(* partitions that an earlier job opened are restored.                     *)
Start(e, from, others) ==
  LET coverage == Coverage(others)
      wanted == Wanted(coverage, from, e)
      start == Min({wanted, e})
      parts == Partitions(start, e)
  IN  /\ pc = "idle" /\ jobs < MaxJobs /\ jobs' = jobs + 1 /\ Allowed(coverage, wanted, e)
      /\ Len(parts) * PageLimit <= MaxCalls
      /\ pc' = "next" /\ end' = e /\ plan' = parts /\ at' = 1
      /\ used' = [i \in DOMAIN parts |-> IF parts[i] \in DOMAIN run THEN run[parts[i]].calls ELSE 0]
      /\ UNCHANGED <<scope, before, rows, failures, pages>>

-----------------------------------------------------------------------------
Here == plan[at]
Row == IF Here \in DOMAIN run THEN run[Here] ELSE [stage |-> "collect", calls |-> 0, asked |-> 0]
Write(row) == run' = [p \in DOMAIN run \cup {Here} |-> IF p = Here THEN row ELSE run[p]]

GoOn(p) == pc' = p /\ UNCHANGED <<end, plan, at>>
NextOne == pc' = "next" /\ at' = at + 1 /\ pages' = 0 /\ UNCHANGED <<end, plan, used>>

(* The job ends, and what it had in memory is gone.  An exception marks    *)
(* the run and its stage failed, which the next job treats as it does      *)
(* running.                                                                *)
Leave == pc' = "idle" /\ end' = 0 /\ plan' = << >> /\ at' = 1 /\ used' = << >> /\ pages' = 0

\* Mutation: the stage row is opened anew, its calls with it.
OpenAnew ==
  /\ pc = "next" /\ at <= Len(plan)
  /\ IF Row.stage = "done" THEN NextOne /\ UNCHANGED run
     ELSE /\ Write([Row EXCEPT !.calls = 0]) /\ UNCHANGED <<used, pages>>
          /\ GoOn(IF Row.stage = "collect" THEN "paging" ELSE "publishing")
  /\ UNCHANGED <<given, mark, cover, held, failures>>

(* A partition that has succeeded is reused; one that is running or failed *)
(* goes on from the stage it is in.  The stage row keeps its calls.        *)
Open ==
  /\ pc = "next" /\ at <= Len(plan)
  /\ IF Row.stage = "done" THEN NextOne /\ UNCHANGED run
     ELSE /\ Write(Row) /\ UNCHANGED <<used, pages>>
          /\ GoOn(IF Row.stage = "collect" THEN "paging" ELSE "publishing")
  /\ UNCHANGED <<given, mark, cover, held, failures>>

(* One page is reserved, in memory and then in the stage row.              *)
Reserve ==
  /\ pc = "paging"
  /\ IF used[at] = PageLimit THEN Leave /\ UNCHANGED run
     ELSE /\ used' = [used EXCEPT ![at] = @ + 1] /\ Write([Row EXCEPT !.calls = used[at] + 1])
          /\ GoOn("calling") /\ UNCHANGED pages
  /\ UNCHANGED <<given, mark, cover, held, failures>>

(* The request for the page, with the retries of its policy.  There may be *)
(* a next page; when there is one after the last that a fetch may ask for, *)
(* the fetch is incomplete.  "asked" is a history of the pages.            *)
Call ==
  /\ pc = "calling" /\ Write([Row EXCEPT !.asked = @ + 1])
  /\ \/ GoOn("landing") /\ pages' = pages + 1 /\ UNCHANGED used
     \/ pages + 1 < PageLimit /\ GoOn("paging") /\ pages' = pages + 1 /\ UNCHANGED used
     \/ pages + 1 = PageLimit /\ Leave
  /\ UNCHANGED <<given, mark, cover, held, failures>>

Land ==
  /\ pc = "landing" /\ GoOn("landed")
  /\ held' = [held EXCEPT ![Here.stream] = @ \cup Here.first..Here.last]
  /\ UNCHANGED <<given, mark, cover, run, failures, used, pages>>

EndCollect ==
  /\ pc = "landed" /\ Write([Row EXCEPT !.stage = "publish"]) /\ GoOn("publishing")
  /\ UNCHANGED <<given, mark, cover, held, failures, used, pages>>

-----------------------------------------------------------------------------
(* The watermark of the partition's stream.                                *)
Current(p) == IF mark[p.stream] # 0 THEN mark[p.stream] ELSE before[p.stream]

StreamStart(p) == Min({plan[i].first : i \in {k \in DOMAIN plan : plan[k].stream = p.stream}})

Gap(p) ==
  IF Current(p) = 0 THEN p.first # StreamStart(p)
  ELSE p.last > Current(p) /\ p.first > Current(p) + 1

Moved(p) == [mark EXCEPT ![p.stream] = IF p.last <= Current(p) THEN @ ELSE p.last]

\* Mutation: whatever the partition covers is published.
PublishAnyway ==
  /\ pc = "publishing" /\ mark' = Moved(Here) /\ GoOn("closing")
  /\ UNCHANGED <<given, cover, run, held, failures, used, pages>>

\* Mutation: a partition that is behind the watermark takes it back.
PublishBack ==
  /\ pc = "publishing"
  /\ IF Gap(Here) THEN Leave /\ UNCHANGED mark
     ELSE /\ mark' = [mark EXCEPT ![Here.stream] = Here.last]
          /\ GoOn("closing") /\ UNCHANGED <<used, pages>>
  /\ UNCHANGED <<given, cover, run, held, failures>>

Publish ==
  /\ pc = "publishing"
  /\ IF Gap(Here) THEN Leave /\ UNCHANGED mark
     ELSE mark' = Moved(Here) /\ GoOn("closing") /\ UNCHANGED <<used, pages>>
  /\ UNCHANGED <<given, cover, run, held, failures>>

CloseRun ==
  /\ pc = "closing" /\ Write([Row EXCEPT !.stage = "done"]) /\ NextOne
  /\ UNCHANGED <<given, mark, cover, held, failures>>

(* Every partition has succeeded: the coverage row never goes back.        *)
Cover ==
  /\ pc = "next" /\ at > Len(plan)
  /\ cover' = Larger(cover, end) /\ Leave
  /\ UNCHANGED <<given, mark, run, held, failures>>

(* A request or a statement raises, or the process dies.                   *)
Fail ==
  /\ pc # "idle" /\ failures < MaxFailures /\ failures' = failures + 1 /\ Leave
  /\ UNCHANGED <<given, rows>>

Next == \/ Open \/ Reserve \/ Call \/ Land \/ EndCollect \/ Publish \/ CloseRun \/ Cover \/ Fail
        \/ \E e \in Since + 1..MaxDay, from \in 0..MaxDay + 1, others \in 0..MaxDay : Start(e, from, others)

Spec == Init /\ [][Next]_vars

-----------------------------------------------------------------------------
(* A day is landed for a market when one of the domestic streams, or each  *)
(* of the overseas streams, has it.                                        *)
Landed(d) ==
  IF scope = "domestic" THEN \E s \in {"old", "recent"} : d \in held[s]
  ELSE \A s \in {"order", "transaction"} : d \in held[s]

(* Where the backfill has been, the coverage row is true whatever failed,  *)
(* was resumed or was asked for by hand: every day after the backfill and  *)
(* up to it is landed (services/trade_incremental.py:184-216).             *)
CoverageIsCollected ==
  before = Backfilled => \A d \in Since + 1..cover : Landed(d)

(* Over all the jobs that work on one partition, wherever they failed or   *)
(* died, no page is asked for that the stage row does not count, and no    *)
(* more than the limit (services/trade_cash_backfill_runtime.py:89-103,    *)
(* 180-209).                                                               *)
CallsCounted ==
  \A p \in DOMAIN run : run[p].asked <= run[p].calls /\ run[p].calls <= PageLimit

(* Once there is coverage, a window that goes on from it and starts at     *)
(* most RecentDays before its end is never refused for a gap in a stream,  *)
(* whatever older windows were collected again                             *)
(* (services/trade_cash_backfill_runtime.py:132-177).  A start after the   *)
(* end, which is taken for the end, need not go on from it.                *)
ReachIsTaken ==
  pc = "publishing" /\ cover # 0 /\ plan[1].first \in end - RecentDays..cover + 1 => ~Gap(Here)
=============================================================================
