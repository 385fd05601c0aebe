--------------------------- MODULE SyncWorkerProofs ---------------------------
(***************************************************************************)
(* Proofs about SyncWorker, for any number of rule changes, failing cycles *)
(* and retries and any queue capacity.                                     *)
(*                                                                         *)
(* FlushSync reads lastErr after its channel is closed, when another cycle *)
(* may have overwritten it.  That it still tells the truth rests on        *)
(* TruthInv: whatever cycle finishes while a flusher is held, or closed    *)
(* and not yet back, has read rules at least as new as the flusher's.      *)
(***************************************************************************)
EXTENDS SyncWorker, TLAPS

\* Until shutdown begins main has not called FlushSync.
MainInv == phase = "up" => flush["main"] = "idle"

\* The cycle that is finishing has read what its flushers asked for.
ReadInv ==
  worker \in {"push", "check", "enqueue", "close"} =>
    \A f \in Flushers : f \in held \/ flush[f] = "closed" => asked[f] <= read

\* lastErr tells how the cycle ended that is about to close its flushers.
EndInv ==
  /\ worker \in {"check", "enqueue"} => lastErr # "none"
  /\ worker = "close" /\ lastErr = "none" => pushed = read

\* A closed flusher that finds lastErr nil has been served.
ClosedInv ==
  \A f \in Flushers :
    flush[f] = "closed" /\ lastErr = "none" /\ worker # "gone" => asked[f] <= pushed

TruthInv ==
  /\ ReadInv
  /\ EndInv
  /\ ClosedInv
-----------------------------------------------------------------------------
\* The goroutines' locals keep their types, a flusher in the channel or held is
\* waiting, and the compensation queue never outgrows its capacity.
THEOREM TypeCorrect == Spec => []TypeOK
<1> USE WorkerAssumption DEF Flushers, NoRecord
<1>1. Init => TypeOK /\ MainInv
  <2> SUFFICES ASSUME Init PROVE TypeOK /\ MainInv
    OBVIOUS
  <2> USE DEF Init
  <2>1. version \in 1..MaxVersion /\ failures \in 0..MaxFailures
    OBVIOUS
  <2>2. handler \in BOOLEAN /\ owed \in BOOLEAN
    OBVIOUS
  <2>3. flush \in [Flushers -> {"idle", "send", "wait", "closed",
                               "ok", "retryable", "permanent"}]
    OBVIOUS
  <2>4. asked \in [Flushers -> 0..version]
    OBVIOUS
  <2>5. retries \in NoRecord..MaxRetries - 1 /\ dead \in 0..QueueCap
    OBVIOUS
  <2>6. read \in 0..version /\ pushed \in 0..version /\ tried \in 0..version
    OBVIOUS
  <2>7. QED
    BY <2>1, <2>2, <2>3, <2>4, <2>5, <2>6 DEF TypeOK, MainInv
<1>2. TypeOK /\ MainInv /\ [Next]_vars => TypeOK' /\ MainInv'
  <2> SUFFICES ASSUME TypeOK, MainInv, [Next]_vars PROVE TypeOK' /\ MainInv'
    OBVIOUS
  <2> USE DEF TypeOK, MainInv, work, comp
  <2>1. CASE ChangeRules
    BY <2>1 DEF ChangeRules
  <2>2. CASE TriggerSync
    BY <2>2 DEF TriggerSync
  <2>3. CASE Receive
    BY <2>3 DEF Receive
  <2>4. CASE Fire
    BY <2>4 DEF Fire
  <2>5. CASE ReadRules
    BY <2>5 DEF ReadRules
  <2>6. CASE SyncOK
    BY <2>6 DEF SyncOK
  <2>7. CASE SyncFail
    BY <2>7 DEF SyncFail
  <2>8. CASE OnErrorCheck
    <3>1. owed' \in BOOLEAN
      BY <2>8 DEF OnErrorCheck
    <3>2. worker' \in {"enqueue", "close"}
      BY <2>8 DEF OnErrorCheck
    <3>3. UNCHANGED <<version, handler, trigger, held, read, failure, lastErr, flush,
                      asked, retries, dead, phase, pushed, failures, tried>>
      BY <2>8 DEF OnErrorCheck
    <3>4. QED
      BY <3>1, <3>2, <3>3
  <2>9. CASE EnqueueAction
    <3>1. owed' \in BOOLEAN
      BY <2>9 DEF EnqueueAction
    <3>2. retries' \in NoRecord..MaxRetries - 1 /\ dead' \in 0..QueueCap
      BY <2>9 DEF EnqueueAction
    <3>3. worker' = "close"
      BY <2>9 DEF EnqueueAction
    <3>4. UNCHANGED <<version, handler, trigger, held, read, failure, lastErr, flush,
                      asked, phase, pushed, failures, tried>>
      BY <2>9 DEF EnqueueAction
    <3>5. QED
      BY <3>1, <3>2, <3>3, <3>4
  <2>10. CASE CloseHeld
    BY <2>10 DEF CloseHeld, Closed
  <2>11. CASE WorkerExit
    BY <2>11 DEF WorkerExit, Closed
  <2>12. ASSUME NEW f \in Flushers, FlushSend(f) PROVE TypeOK' /\ MainInv'
    BY <2>12 DEF FlushSend
  <2>13. ASSUME NEW f \in Flushers, FlushReturn(f) PROVE TypeOK' /\ MainInv'
    BY <2>13 DEF FlushReturn
  <2>14. ASSUME NEW f \in Flushers, FlushTimeout(f) PROVE TypeOK' /\ MainInv'
    BY <2>14 DEF FlushTimeout
  <2>15. CASE Poll
    BY <2>15 DEF Poll
  <2>16. CASE PollClean
    BY <2>16 DEF PollClean
  <2>17. CASE Settle
    <3>1. owed' \in BOOLEAN
      BY <2>17 DEF Settle
    <3>2. retries' \in NoRecord..MaxRetries - 1 /\ dead' \in 0..QueueCap
      BY <2>17 DEF Settle
    <3>3. flush["comp"] \in {"ok", "retryable", "permanent"}
          /\ flush' = [flush EXCEPT !["comp"] = "idle"]
      BY <2>17 DEF Settle
    <3>4. UNCHANGED <<version, handler, trigger, worker, held, read, failure, lastErr,
                      asked, phase, pushed, failures, tried>>
      BY <2>17 DEF Settle
    <3>5. QED
      BY <3>1, <3>2, <3>3, <3>4
  <2>18. CASE Cleanup
    BY <2>18 DEF Cleanup
  <2>19. CASE Cancel
    BY <2>19 DEF Cancel
  <2>20. CASE SkipCleanup
    BY <2>20 DEF SkipCleanup
  <2>21. CASE UNCHANGED vars
    BY <2>21 DEF vars
  <2> HIDE DEF TypeOK, MainInv, work, comp
  <2>22. QED
    BY <2>1, <2>2, <2>3, <2>4, <2>5, <2>6, <2>7, <2>8, <2>9, <2>10, <2>11, <2>12,
       <2>13, <2>14, <2>15, <2>16, <2>17, <2>18, <2>19, <2>20, <2>21
       DEF Next, Worker
<1>3. QED
  BY <1>1, <1>2, PTL DEF Spec

\* The first call of FlushSync by main is the clean-up's.
LEMMA MainCorrect == Spec => []MainInv
<1>1. Init => MainInv
  BY DEF Init, MainInv, Flushers
<1>2. TypeOK /\ MainInv /\ [Next]_vars => MainInv'
  BY DEF TypeOK, MainInv, Next, Worker, vars, work, comp, Flushers, Closed, ChangeRules,
         TriggerSync, Receive, Fire, ReadRules, SyncOK, SyncFail, OnErrorCheck,
         EnqueueAction, CloseHeld, WorkerExit, FlushSend, FlushReturn, FlushTimeout,
         Poll, PollClean, Settle, Cleanup, Cancel, SkipCleanup
<1>3. QED
  BY <1>1, <1>2, TypeCorrect, PTL DEF Spec

\* The invariant behind FlushSync's return value.
LEMMA TruthCorrect == Spec => []TruthInv
<1> USE WorkerAssumption DEF Flushers, NoRecord
<1>1. Init => TruthInv
  BY DEF Init, TruthInv, ReadInv, EndInv, ClosedInv
<1>2. TypeOK /\ TypeOK' /\ TruthInv /\ [Next]_vars => TruthInv'
  <2> SUFFICES ASSUME TypeOK, TypeOK', TruthInv, [Next]_vars PROVE TruthInv'
    OBVIOUS
  <2> USE DEF TypeOK, TruthInv, ReadInv, EndInv, ClosedInv, work, comp
  <2>1. CASE ChangeRules
    BY <2>1 DEF ChangeRules
  <2>2. CASE TriggerSync
    BY <2>2 DEF TriggerSync
  <2>3. CASE Receive
    BY <2>3 DEF Receive
  <2>4. CASE Fire
    BY <2>4 DEF Fire
  <2>5. CASE ReadRules
    BY <2>5 DEF ReadRules
  <2>6. CASE SyncOK
    BY <2>6 DEF SyncOK
  <2>7. CASE SyncFail
    BY <2>7 DEF SyncFail
  <2>8. CASE OnErrorCheck
    BY <2>8 DEF OnErrorCheck
  <2>9. CASE EnqueueAction
    BY <2>9 DEF EnqueueAction
  <2>10. CASE CloseHeld
    BY <2>10 DEF CloseHeld, Closed
  <2>11. CASE WorkerExit
    BY <2>11 DEF WorkerExit, Closed
  <2>12. ASSUME NEW f \in Flushers, FlushSend(f) PROVE TruthInv'
    BY <2>12 DEF FlushSend
  <2>13. ASSUME NEW f \in Flushers, FlushReturn(f) PROVE TruthInv'
    BY <2>13 DEF FlushReturn
  <2>14. ASSUME NEW f \in Flushers, FlushTimeout(f) PROVE TruthInv'
    BY <2>14 DEF FlushTimeout
  <2>15. CASE Poll
    BY <2>15 DEF Poll
  <2>16. CASE PollClean
    BY <2>16 DEF PollClean
  <2>17. CASE Settle
    BY <2>17 DEF Settle
  <2>18. CASE Cleanup
    BY <2>18 DEF Cleanup
  <2>19. CASE Cancel
    BY <2>19 DEF Cancel
  <2>20. CASE SkipCleanup
    BY <2>20 DEF SkipCleanup
  <2>21. CASE UNCHANGED vars
    BY <2>21 DEF vars
  <2> HIDE DEF TypeOK, TruthInv, ReadInv, EndInv, ClosedInv, work, comp
  <2>22. QED
    BY <2>1, <2>2, <2>3, <2>4, <2>5, <2>6, <2>7, <2>8, <2>9, <2>10, <2>11, <2>12,
       <2>13, <2>14, <2>15, <2>16, <2>17, <2>18, <2>19, <2>20, <2>21
       DEF Next, Worker
<1>3. QED
  BY <1>1, <1>2, TypeCorrect, PTL DEF Spec

\* FlushSync returns nil only if the rules in force when it was called, or later
\* ones, are on Cloudflare, unless the worker is stopping (sync_worker.go:71-96).
THEOREM FlushIsTruthfulHolds == Spec => FlushIsTruthful
<1>1. TypeOK /\ TruthInv /\ [Next]_vars =>
        [\A f \in Flushers :
           flush[f] = "closed" /\ flush'[f] = "ok" /\ worker # "gone"
           => pushed >= asked[f]]_vars
  <2> SUFFICES ASSUME TypeOK, TruthInv, [Next]_vars,
                      NEW f \in Flushers,
                      flush[f] = "closed", flush'[f] = "ok", worker # "gone"
               PROVE  pushed >= asked[f]
    OBVIOUS
  <2>1. lastErr = "none"
    BY DEF TypeOK, Next, Worker, vars, Flushers, work, comp, Closed, ChangeRules, TriggerSync,
           Receive, Fire, ReadRules, SyncOK, SyncFail, OnErrorCheck, EnqueueAction,
           CloseHeld, WorkerExit, FlushSend, FlushReturn, FlushTimeout, Poll,
           PollClean, Settle, Cleanup, Cancel, SkipCleanup
  <2>2. QED
    BY <2>1 DEF TypeOK, TruthInv, ClosedInv
<1>2. QED
  BY <1>1, TypeCorrect, TruthCorrect, PTL DEF Spec, FlushIsTruthful

-----------------------------------------------------------------------------
\* The running cycle has read rules that are not older than the live ones.
NewerInv == worker = "push" => pushed <= read

LEMMA NewerCorrect == Spec => []NewerInv
<1>1. Init => NewerInv
  BY DEF Init, NewerInv
<1>2. TypeOK /\ NewerInv /\ [Next]_vars => NewerInv'
  BY DEF TypeOK, NewerInv, Next, Worker, vars, work, comp, ChangeRules, TriggerSync,
         Receive, Fire, ReadRules, SyncOK, SyncFail, OnErrorCheck, EnqueueAction,
         CloseHeld, WorkerExit, FlushSend, FlushReturn, FlushTimeout, Poll,
         PollClean, Settle, Cleanup, Cancel, SkipCleanup
<1>3. QED
  BY <1>1, <1>2, TypeCorrect, PTL DEF Spec

\* The calls as the abstract specification sees them.
Calls == [f \in Flushers |-> Seen(flush[f])]

\* One caller's step changes what is seen of that caller only.
LEMMA OneCallChanges ==
  ASSUME TypeOK, NEW f \in Flushers, NEW st, flush' = [flush EXCEPT ![f] = st]
  PROVE  Calls' = [Calls EXCEPT ![f] = Seen(st)]
BY DEF TypeOK, Calls

\* Closing channels is not seen by the callers.
LEMMA ClosingIsHidden ==
  ASSUME TypeOK, NEW F \in SUBSET Flushers, flush' = Closed(F)
  PROVE  Calls' = Calls
BY DEF TypeOK, Calls, Closed, Seen

\* SyncWorker implements RulePush: whatever the channel, the debounce timer and the
\* shared error slot do, rules never go back and FlushSync's result can be relied on.
THEOREM ImplementsRulePushHolds == Spec => ImplementsRulePush
<1> USE WorkerAssumption DEF Flushers
<1>1. Init => Abstract!Init
  BY DEF Init, Abstract!Init, Seen
<1>2. TypeOK /\ MainInv /\ TruthInv /\ NewerInv /\ [Next]_vars
        => [Abstract!Next]_(Abstract!vars)
  <2> SUFFICES ASSUME TypeOK, MainInv, TruthInv, NewerInv, [Next]_vars
               PROVE  [Abstract!Next]_(Abstract!vars)
    OBVIOUS
  <2> DEFINE Same == UNCHANGED <<version, pushed, Calls, asked>>
                     /\ (worker' = "gone" <=> worker = "gone")
  <2>0. ASSUME Same PROVE [Abstract!Next]_(Abstract!vars)
    <3>1. UNCHANGED (worker = "gone")
      BY <2>0
    <3>2. QED
      BY <2>0, <3>1 DEF Abstract!vars, Calls
  <2> HIDE DEF Same
  <2>1. CASE ChangeRules
    <3>1. UNCHANGED <<pushed, Calls, asked, worker>> /\ version' = version + 1
      BY <2>1 DEF ChangeRules, work, Calls
    <3>2. Abstract!Change
      BY <3>1 DEF Abstract!Change, Calls
    <3>3. QED
      BY <3>2 DEF Abstract!Next
  <2>2. CASE TriggerSync \/ Receive \/ Fire \/ ReadRules \/ SyncFail \/ OnErrorCheck
             \/ EnqueueAction \/ PollClean \/ SkipCleanup \/ UNCHANGED vars
    <3>1. UNCHANGED <<version, pushed, flush, asked>>
      BY <2>2 DEF TriggerSync, Receive, Fire, ReadRules, SyncFail, OnErrorCheck,
                  EnqueueAction, PollClean, SkipCleanup, vars, work, comp
    <3>2. worker' = "gone" <=> worker = "gone"
      BY <2>2 DEF TriggerSync, Receive, Fire, ReadRules, SyncFail, OnErrorCheck,
                  EnqueueAction, PollClean, SkipCleanup, vars, work, comp
    <3>3. QED
      BY <2>0, <3>1, <3>2 DEF Same, Calls
  <2>3. CASE SyncOK
    <3>1. UNCHANGED <<version, Calls, asked>> /\ worker # "gone" /\ worker' # "gone"
      BY <2>3 DEF SyncOK, Calls
    <3>2. pushed' = read /\ pushed <= read /\ read <= version
          /\ pushed \in Nat /\ read \in Nat /\ version \in Nat
      BY <2>3 DEF SyncOK, NewerInv, TypeOK
    <3>3. CASE read = pushed
      BY <2>0, <3>1, <3>2, <3>3 DEF Same
    <3>4. CASE read # pushed
      <4>1. pushed' \in (pushed + 1)..version
        BY <3>2, <3>4
      <4>2. Abstract!Publish
        BY <3>1, <4>1 DEF Abstract!Publish, Calls
      <4>3. QED
        BY <4>2 DEF Abstract!Next
    <3>5. QED
      BY <3>3, <3>4
  <2>4. CASE CloseHeld
    <3>1. Calls' = Calls
      BY <2>4, ClosingIsHidden DEF CloseHeld, TypeOK
    <3>2. QED
      BY <2>0, <2>4, <3>1 DEF Same, CloseHeld
  <2>5. CASE WorkerExit
    <3>1. Calls' = Calls
      BY <2>5, ClosingIsHidden DEF WorkerExit, TypeOK
    <3>2. Abstract!Stop
      BY <2>5, <3>1 DEF WorkerExit, Abstract!Stop, Calls
    <3>3. QED
      BY <3>2 DEF Abstract!Next
  <2>6. ASSUME NEW f \in Flushers, FlushSend(f) PROVE [Abstract!Next]_(Abstract!vars)
    <3>1. Calls' = Calls
      BY <2>6 DEF FlushSend, TypeOK, Calls, Seen
    <3>2. QED
      BY <2>0, <2>6, <3>1 DEF Same, FlushSend, work
  <2>7. ASSUME NEW f \in Flushers, FlushReturn(f) PROVE [Abstract!Next]_(Abstract!vars)
    <3>1. UNCHANGED <<version, pushed, asked, worker>> /\ Calls[f] = "busy"
      BY <2>7 DEF FlushReturn, work, Calls, Seen
    <3>2. CASE lastErr = "none"
      <4>1. Calls' = [Calls EXCEPT ![f] = "ok"]
        BY <2>7, <3>2, OneCallChanges DEF FlushReturn, Seen
      <4>2. pushed >= asked[f] \/ worker = "gone"
        BY <2>7, <3>2 DEF FlushReturn, TruthInv, ClosedInv, TypeOK
      <4>3. Abstract!Return(f)
        BY <3>1, <4>1, <4>2 DEF Abstract!Return, Calls
      <4>4. QED
        BY <4>3 DEF Abstract!Next
    <3>3. CASE lastErr # "none"
      <4>1. Calls' = [Calls EXCEPT ![f] = "failed"]
        BY <2>7, <3>3, OneCallChanges DEF FlushReturn, Seen, TypeOK
      <4>2. Abstract!Return(f)
        BY <3>1, <4>1 DEF Abstract!Return, Calls
      <4>3. QED
        BY <4>2 DEF Abstract!Next
    <3>4. QED
      BY <3>2, <3>3
  <2>8. ASSUME NEW f \in Flushers, FlushTimeout(f) PROVE [Abstract!Next]_(Abstract!vars)
    <3>1. UNCHANGED <<version, pushed, asked, worker>> /\ Calls[f] = "busy"
      BY <2>8 DEF FlushTimeout, Calls, Seen
    <3>2. Calls' = [Calls EXCEPT ![f] = "failed"]
      BY <2>8, OneCallChanges DEF FlushTimeout, Seen
    <3>3. Abstract!Return(f)
      BY <3>1, <3>2 DEF Abstract!Return, Calls
    <3>4. QED
      BY <3>3 DEF Abstract!Next
  <2>9. CASE Poll
    <3>1. UNCHANGED <<version, pushed, worker>> /\ Calls["comp"] = "idle"
          /\ asked' = [asked EXCEPT !["comp"] = version']
      BY <2>9 DEF Poll, work, Calls, Seen
    <3>2. Calls' = [Calls EXCEPT !["comp"] = "busy"]
      BY <2>9, OneCallChanges DEF Poll, Seen
    <3>3. Abstract!Call("comp")
      BY <3>1, <3>2 DEF Abstract!Call, Calls
    <3>4. QED
      BY <3>3 DEF Abstract!Next
  <2>10. CASE Settle
    <3>1. UNCHANGED <<version, pushed, asked, worker>> /\ Calls["comp"] \in {"ok", "failed"}
      BY <2>10 DEF Settle, work, Calls, Seen
    <3>2. Calls' = [Calls EXCEPT !["comp"] = "idle"]
      BY <2>10, OneCallChanges DEF Settle, Seen
    <3>3. Abstract!Done("comp")
      BY <3>1, <3>2 DEF Abstract!Done, Calls
    <3>4. QED
      BY <3>3 DEF Abstract!Next
  <2>11. CASE Cleanup
    <3>1. UNCHANGED <<pushed, worker>> /\ version' = version + 1
          /\ Calls["main"] = "idle" /\ asked' = [asked EXCEPT !["main"] = version']
      BY <2>11 DEF Cleanup, work, Calls, Seen, MainInv
    <3>2. Calls' = [Calls EXCEPT !["main"] = "busy"]
      BY <2>11, OneCallChanges DEF Cleanup, Seen
    <3>3. Abstract!Call("main")
      BY <3>1, <3>2 DEF Abstract!Call, Calls
    <3>4. QED
      BY <3>3 DEF Abstract!Next
  <2>12. CASE Cancel
    <3>1. UNCHANGED <<version, pushed, asked, worker>> /\ Calls["main"] \in {"ok", "failed"}
      BY <2>12 DEF Cancel, work, Calls, Seen
    <3>2. Calls' = [Calls EXCEPT !["main"] = "idle"]
      BY <2>12, OneCallChanges DEF Cancel, Seen
    <3>3. Abstract!Done("main")
      BY <3>1, <3>2 DEF Abstract!Done, Calls
    <3>4. QED
      BY <3>3 DEF Abstract!Next
  <2>13. QED
    BY <2>1, <2>2, <2>3, <2>4, <2>5, <2>6, <2>7, <2>8, <2>9, <2>10, <2>11, <2>12
       DEF Next, Worker
<1>3. QED
  BY <1>1, <1>2, TypeCorrect, MainCorrect, TruthCorrect, NewerCorrect, PTL
     DEF Spec, ImplementsRulePush, Abstract!Spec
=============================================================================
