------------------------------ MODULE SyncWorker ------------------------------
(***************************************************************************)
(* The sync worker and the compensation queue.                             *)
(*                                                                         *)
(* Code: internal/controller/sync_worker.go, compensation.go, the onError  *)
(* callback of controller.go, internal/state/manager.go (EnqueueAction,    *)
(* HasPendingActionKind, processCompensationQueue), and the shutdown of    *)
(* cmd/docktunnel/main.go.                                                 *)
(*                                                                         *)
(* A handler changes the ingress rules and triggers the worker, which      *)
(* waits out its debounce window and runs one cycle.  A failed cycle       *)
(* enqueues an ActionSync record; the compensation loop retries it through *)
(* FlushSync, and so does the clean-up at shutdown.  Rules are a version   *)
(* number; what a cycle does with them is module DnsSync.                  *)
(***************************************************************************)
EXTENDS Naturals, Integers

CONSTANTS MaxRetries,  \* compensation.maxRetries
          QueueCap,    \* compMaxQueueSize
          MaxVersion,  \* bound: changes of the rules
          MaxFailures  \* bound: failing cycles

ASSUME WorkerAssumption ==
  /\ MaxRetries \in Nat \ {0} /\ QueueCap \in Nat \ {0}
  /\ MaxVersion \in Nat \ {0} /\ MaxFailures \in Nat

\* Callers of FlushSync: the compensation loop and main's CleanupResources.
Flushers == {"comp", "main"}

NoRecord == -1

VARIABLES
  version,   \* of Controller.ingressRules
  handler,   \* a handler has changed the rules and not triggered yet
  trigger,   \* triggerCh: "empty", "nil", or the flusher whose channel it holds
  worker,    \* what the worker goroutine does next
  held,      \* heldFlushers
  read,      \* version of the rules that the running cycle has read
  failure,   \* error of the running cycle: "none", "retryable", "permanent"
  lastErr,   \* syncWorker.lastErr: the same, of the last finished cycle
  flush,     \* flusher -> where its FlushSync call is, or what it has returned
  asked,     \* flusher -> version of the rules when it called FlushSync
  retries,   \* RetryCount of the live ActionSync record, or NoRecord
  dead,      \* number of Dead records in the queue
  phase,     \* main: "up", "cleaning", "cancelled" (the root context is)
  pushed,    \* version of the last successful cycle
  failures,  \* cycles that have failed
  \* history, read by the properties only
  tried,     \* version read by the last finished cycle
  owed       \* the last cycle failed and a retry of it is to be expected

work  == <<worker, held, read, failure, lastErr>>
comp  == <<retries, dead>>
vars  == <<version, handler, trigger, worker, held, read, failure, lastErr, flush,
           asked, retries, dead, phase, pushed, failures, tried, owed>>

\* The process has just started: Sync has put its rules in place and is about to
\* trigger, and the queue may hold dead records of the run before, which the state
\* file keeps.
Init ==
  /\ version = 1 /\ handler = TRUE
  /\ trigger = "empty"
  /\ worker = "wait" /\ held = {} /\ read = 0 /\ failure = "none" /\ lastErr = "none"
  /\ flush = [f \in Flushers |-> "idle"] /\ asked = [f \in Flushers |-> 0]
  /\ retries = NoRecord /\ dead \in 0..QueueCap
  /\ phase = "up" /\ pushed = 0 /\ failures = 0
  /\ tried = 0 /\ owed = FALSE

(***************************************************************************)
(* Event handlers.                                                         *)
(***************************************************************************)

\* A handler changes ingressRules under c.mu ...
ChangeRules ==
  /\ ~handler /\ version < MaxVersion
  /\ version' = version + 1 /\ handler' = TRUE
  /\ UNCHANGED <<trigger, work, flush, asked, comp, phase, pushed, failures, tried, owed>>

\* Mutant: no trigger is sent while a cycle is running.
TriggerSync_SkipBusy ==
  /\ handler
  /\ handler' = FALSE
  /\ trigger' = IF trigger = "empty" /\ worker \in {"wait", "debounce"} THEN "nil"
                ELSE trigger
  /\ UNCHANGED <<version, work, flush, asked, comp, phase, pushed, failures, tried, owed>>

\* ... and calls TriggerSync, which gives up when the channel is full.
TriggerSync ==
  /\ handler
  /\ handler' = FALSE
  /\ trigger' = IF trigger = "empty" THEN "nil" ELSE trigger
  /\ UNCHANGED <<version, work, flush, asked, comp, phase, pushed, failures, tried, owed>>

(***************************************************************************)
(* The worker.                                                             *)
(***************************************************************************)

\* Mutant: an element that arrives during the debounce window is dropped with
\* the flusher that it holds.
Receive_DropFlusher ==
  /\ worker \in {"wait", "debounce"} /\ trigger # "empty"
  /\ held' = held \cup (IF worker = "wait" THEN {trigger} \cap Flushers ELSE {})
  /\ trigger' = "empty"
  /\ worker' = "debounce"
  /\ UNCHANGED <<version, handler, read, failure, lastErr, flush, asked, comp, phase,
                 pushed, failures, tried, owed>>

\* run receives from triggerCh and (re)starts the debounce timer.
Receive ==
  /\ worker \in {"wait", "debounce"} /\ trigger # "empty"
  /\ held' = held \cup ({trigger} \cap Flushers)
  /\ trigger' = "empty"
  /\ worker' = "debounce"
  /\ UNCHANGED <<version, handler, read, failure, lastErr, flush, asked, comp, phase,
                 pushed, failures, tried, owed>>

\* The timer fires and runOnce calls performSync.
Fire ==
  /\ worker = "debounce"
  /\ worker' = "sync"
  /\ owed' = FALSE
  /\ UNCHANGED <<version, handler, trigger, held, read, failure, lastErr, flush, asked,
                 comp, phase, pushed, failures, tried>>

\* Mutant: the copy of the previous cycle is used again.
ReadRules_Cached ==
  /\ worker = "sync"
  /\ read' = IF tried > 0 THEN tried ELSE version
  /\ worker' = "push"
  /\ UNCHANGED <<version, handler, trigger, held, failure, lastErr, flush, asked, comp,
                 phase, pushed, failures, tried, owed>>

\* performSync copies ingressRules.
ReadRules ==
  /\ worker = "sync"
  /\ read' = version
  /\ worker' = "push"
  /\ UNCHANGED <<version, handler, trigger, held, failure, lastErr, flush, asked, comp,
                 phase, pushed, failures, tried, owed>>

\* performSync succeeds.
SyncOK ==
  /\ worker = "push"
  /\ pushed' = read /\ tried' = read
  /\ lastErr' = "none"
  /\ worker' = "close"
  /\ UNCHANGED <<version, handler, trigger, held, read, failure, flush, asked, comp, phase,
                 failures, owed>>

\* Mutant: a failed cycle leaves lastErr as it was.
SyncFail_KeepLast ==
  /\ worker = "push" /\ failures < MaxFailures
  /\ failures' = failures + 1
  /\ failure' \in {"retryable", "permanent"}
  /\ tried' = read
  /\ owed' = (failure' = "retryable")
  /\ worker' = "check"
  /\ UNCHANGED <<version, handler, trigger, held, read, lastErr, flush, asked, comp, phase,
                 pushed>>

\* performSync fails, or panics, which runOnce turns into an error.
SyncFail ==
  /\ worker = "push" /\ failures < MaxFailures
  /\ failures' = failures + 1
  /\ failure' \in {"retryable", "permanent"}
  /\ tried' = read
  /\ lastErr' = failure'
  /\ owed' = (failure' = "retryable")
  /\ worker' = "check"
  /\ UNCHANGED <<version, handler, trigger, held, read, flush, asked, comp, phase, pushed>>

\* onError: HasPendingActionKind(ActionSync), under its own lock.  The record it
\* finds may be one that a successful retry is about to delete.
OnErrorCheck ==
  /\ worker = "check"
  /\ worker' = IF retries = NoRecord THEN "enqueue" ELSE "close"
  /\ owed' = (owed /\ flush["comp"] # "ok")
  /\ UNCHANGED <<version, handler, trigger, held, read, failure, lastErr, flush, asked,
                 comp, phase, pushed, failures, tried>>

\* Mutant: the queue capacity is not checked.
EnqueueAction_NoCap ==
  /\ worker = "enqueue"
  /\ \/ failure = "permanent" /\ dead' = dead + 1 /\ UNCHANGED <<retries, owed>>
     \/ failure = "retryable" /\ retries' = 0 /\ UNCHANGED <<dead, owed>>
  /\ worker' = "close"
  /\ UNCHANGED <<version, handler, trigger, held, read, failure, lastErr, flush, asked,
                 phase, pushed, failures, tried>>

\* Mutant: any record of the kind, a dead one too, suppresses the enqueue.
EnqueueAction_DeadCounts ==
  /\ worker = "enqueue"
  /\ \/ dead >= QueueCap /\ owed' = FALSE /\ UNCHANGED comp
     \/ dead \in 1..QueueCap - 1 /\ UNCHANGED <<comp, owed>>
     \/ dead = 0 /\ failure = "permanent" /\ dead' = 1 /\ UNCHANGED <<retries, owed>>
     \/ dead = 0 /\ failure = "retryable" /\ retries' = 0 /\ UNCHANGED <<dead, owed>>
  /\ worker' = "close"
  /\ UNCHANGED <<version, handler, trigger, held, read, failure, lastErr, flush, asked,
                 phase, pushed, failures, tried>>

\* EnqueueAction: rejected when the queue is full; born dead when permanent.
EnqueueAction ==
  /\ worker = "enqueue"
  /\ \/ dead >= QueueCap /\ owed' = FALSE /\ UNCHANGED comp
     \/ dead < QueueCap /\ failure = "permanent" /\ dead' = dead + 1
        /\ UNCHANGED <<retries, owed>>
     \/ dead < QueueCap /\ failure = "retryable" /\ retries' = 0
        /\ UNCHANGED <<dead, owed>>
  /\ worker' = "close"
  /\ UNCHANGED <<version, handler, trigger, held, read, failure, lastErr, flush, asked,
                 phase, pushed, failures, tried>>

Closed(F) == [f \in Flushers |-> IF f \in F /\ flush[f] = "wait" THEN "closed" ELSE flush[f]]

\* The deferred part of runOnce closes the held flushers.
CloseHeld ==
  /\ worker = "close"
  /\ flush' = Closed(held)
  /\ held' = {} /\ failure' = "none" /\ read' = 0
  /\ worker' = "wait"
  /\ UNCHANGED <<version, handler, trigger, lastErr, asked, comp, phase, pushed, failures,
                 tried, owed>>

\* run sees ctx.Done: held flushers are closed although no cycle has run.
WorkerExit ==
  /\ phase = "cancelled" /\ worker \in {"wait", "debounce"}
  /\ flush' = Closed(held)
  /\ held' = {}
  /\ worker' = "gone"
  /\ UNCHANGED <<version, handler, trigger, read, failure, lastErr, asked, comp, phase,
                 pushed, failures, tried, owed>>

(***************************************************************************)
(* FlushSync.                                                              *)
(***************************************************************************)

\* One channel send both triggers the cycle and registers the flusher.
FlushSend(f) ==
  /\ flush[f] = "send" /\ trigger = "empty"
  /\ trigger' = f
  /\ flush' = [flush EXCEPT ![f] = "wait"]
  /\ UNCHANGED <<version, handler, work, asked, comp, phase, pushed, failures, tried, owed>>

\* Its channel is closed: FlushSync returns lastErr, of whichever cycle is last.
FlushReturn(f) ==
  /\ flush[f] = "closed"
  /\ flush' = [flush EXCEPT ![f] = IF lastErr = "none" THEN "ok" ELSE lastErr]
  /\ UNCHANGED <<version, handler, trigger, work, asked, comp, phase, pushed, failures,
                 tried, owed>>

\* The caller's context ends first (30 s, cleanup.timeout, or shutdown): a plain
\* error, also when its channel is closed as well.  What was sent stays sent and
\* counts as a trigger.
FlushTimeout(f) ==
  /\ flush[f] \in {"send", "wait", "closed"}
  /\ flush' = [flush EXCEPT ![f] = "retryable"]
  /\ trigger' = IF trigger = f THEN "nil" ELSE trigger
  /\ held' = held \ {f}
  /\ UNCHANGED <<version, handler, worker, read, failure, lastErr, asked, comp, phase,
                 pushed, failures, tried, owed>>

(***************************************************************************)
(* The compensation loop.                                                  *)
(***************************************************************************)

\* A poll finds the record due; processCompensationQueue unlocks and calls
\* ExecuteAction, that is FlushSync.
Poll ==
  /\ phase # "cancelled" /\ flush["comp"] = "idle" /\ retries # NoRecord
  /\ flush' = [flush EXCEPT !["comp"] = "send"]
  /\ asked' = [asked EXCEPT !["comp"] = version]
  /\ UNCHANGED <<version, handler, trigger, work, comp, phase, pushed, failures, tried,
                 owed>>

\* A poll that finds nothing due removes the dead records.
PollClean ==
  /\ phase # "cancelled" /\ flush["comp"] = "idle" /\ dead > 0
  /\ dead' = 0
  /\ UNCHANGED <<version, handler, trigger, work, flush, asked, retries, phase, pushed,
                 failures, tried, owed>>

\* The executor has returned and the record is locked again: deleted on success,
\* dead when the error is permanent or the retries are used up, else due again
\* later; the dead records are removed.
Settle ==
  /\ flush["comp"] \in {"ok", "retryable", "permanent"}
  /\ flush' = [flush EXCEPT !["comp"] = "idle"]
  /\ \/ flush["comp"] = "ok" /\ retries' = NoRecord /\ UNCHANGED owed
     \/ flush["comp"] = "permanent" /\ retries' = NoRecord /\ owed' = FALSE
     \/ /\ flush["comp"] = "retryable" /\ retries + 1 < MaxRetries
        /\ retries' = retries + 1
        /\ UNCHANGED owed
     \/ /\ flush["comp"] = "retryable" /\ retries + 1 >= MaxRetries
        /\ retries' = NoRecord
        /\ owed' = FALSE
  /\ dead' = 0
  /\ UNCHANGED <<version, handler, trigger, work, asked, phase, pushed, failures, tried>>

(***************************************************************************)
(* Shutdown: clean up, then cancel the context.                            *)
(***************************************************************************)

\* CleanupResources empties ingressRules and calls FlushSync.
Cleanup ==
  /\ phase = "up" /\ version < MaxVersion
  /\ phase' = "cleaning"
  /\ version' = version + 1
  /\ flush' = [flush EXCEPT !["main"] = "send"]
  /\ asked' = [asked EXCEPT !["main"] = version']
  /\ UNCHANGED <<handler, trigger, work, comp, pushed, failures, tried, owed>>

\* CleanupResources has returned, with or without an error; main cancels.
Cancel ==
  /\ flush["main"] \in {"ok", "retryable", "permanent"}
  /\ flush' = [flush EXCEPT !["main"] = "idle"]
  /\ phase' = "cancelled"
  /\ UNCHANGED <<version, handler, trigger, work, asked, comp, pushed, failures, tried, owed>>

\* cleanup.onExit is off, or the strategy is another one: main only cancels.
SkipCleanup ==
  /\ phase = "up"
  /\ phase' = "cancelled"
  /\ UNCHANGED <<version, handler, trigger, work, flush, asked, comp, pushed, failures,
                 tried, owed>>
-----------------------------------------------------------------------------
Worker ==
  \/ Receive \/ Fire \/ ReadRules \/ SyncOK \/ SyncFail
  \/ OnErrorCheck \/ EnqueueAction \/ CloseHeld \/ WorkerExit

Next ==
  \/ ChangeRules \/ TriggerSync
  \/ Worker
  \/ \E f \in Flushers : FlushSend(f) \/ FlushReturn(f) \/ FlushTimeout(f)
  \/ Poll \/ PollClean \/ Settle
  \/ Cleanup \/ Cancel \/ SkipCleanup

Spec == Init /\ [][Next]_vars

\* Every goroutine runs, and a blocked channel send is served in the end; no
\* timeout has to happen, but a call notices that its context is cancelled.
FairSpec ==
  /\ Spec
  /\ WF_vars(TriggerSync) /\ WF_vars(Worker)
  /\ \A f \in Flushers : SF_vars(FlushSend(f)) /\ WF_vars(FlushReturn(f))
  /\ WF_vars(Poll) /\ WF_vars(PollClean) /\ WF_vars(Settle) /\ WF_vars(Cancel)
  /\ WF_vars(phase = "cancelled" /\ FlushTimeout("comp"))
-----------------------------------------------------------------------------
\* The goroutines' locals have their types, a flusher in the channel or held is
\* waiting for it, and the compensation queue stays within its capacity.
TypeOK ==
  /\ version \in 1..MaxVersion /\ handler \in BOOLEAN
  /\ trigger \in {"empty", "nil"} \cup Flushers
  /\ worker \in {"wait", "debounce", "sync", "push", "check", "enqueue", "close", "gone"}
  /\ held \subseteq {f \in Flushers : flush[f] = "wait"}
  /\ trigger \in Flushers => flush[trigger] = "wait" /\ trigger \notin held
  /\ read \in 0..version /\ pushed \in 0..version /\ tried \in 0..version
  /\ {failure, lastErr} \subseteq {"none", "retryable", "permanent"}
  /\ flush \in [Flushers -> {"idle", "send", "wait", "closed",
                           "ok", "retryable", "permanent"}]
  /\ asked \in [Flushers -> 0..version]
  /\ retries \in NoRecord..MaxRetries - 1 /\ dead \in 0..QueueCap
  /\ phase \in {"up", "cleaning", "cancelled"}
  /\ failures \in 0..MaxFailures /\ owed \in BOOLEAN

\* FlushSync that returns nil means that the rules in force when it was called,
\* or later ones, are on Cloudflare, whichever cycle lastErr comes from.  The
\* exception is a flusher that the worker closes because it is stopping.
FlushIsTruthful ==
  [][\A f \in Flushers :
       flush[f] = "closed" /\ flush'[f] = "ok" /\ worker # "gone"
       => pushed >= asked[f]]_vars

\* No trigger is lost: every change of the rules is read by a later cycle, though
\* triggers coalesce in a channel of size one and the worker may be mid-cycle.
EveryChangeIsTried ==
  \A v \in 1..MaxVersion : (version = v) ~> (tried >= v \/ phase = "cancelled")

\* A FlushSync call returns even if no deadline passes, before and after the worker
\* ends: the worker never forgets a flusher (compensation and clean-up would hang).
FlushReturns == \A f \in Flushers : (flush[f] = "send") ~> (flush[f] = "idle")

\* "the failure is retried even if no further event arrives" (onError): a cycle
\* that fails for now is followed by another one, also beside dead records of earlier
\* failures.  Nothing is owed any more once a retry has failed for good (Settle's
\* permanent branch) or was the last one, and nothing is owed where the queue is full
\* or where onError met a record whose retry had succeeded but which was not deleted
\* yet: in that window the failure is not retried.
FailureIsRetried == owed ~> (~owed \/ phase # "up")
-----------------------------------------------------------------------------
\* What a caller of FlushSync sees of its call.
Seen(st) ==
  CASE st = "idle" -> "idle"
    [] st \in {"send", "wait", "closed"} -> "busy"
    [] st = "ok" -> "ok"
    [] st \in {"retryable", "permanent"} -> "failed"

Abstract == INSTANCE RulePush WITH
  Callers <- Flushers,
  live    <- pushed,
  call    <- [f \in Flushers |-> Seen(flush[f])],
  stopped <- (worker = "gone")

\* The worker with its channel of size one, debouncing, held flushers and shared
\* error slot implements RulePush: rules never go back on Cloudflare, a flush is
\* answered "ok" only when it has been served, and a call ends once.
ImplementsRulePush == Abstract!Spec
=============================================================================
