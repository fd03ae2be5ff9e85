-------------------------- MODULE Scheduler_proofs --------------------------
(***************************************************************************)
(* Theorems about Scheduler, for every set of requests, models, limits and *)
(* management calls that satisfies ConstantAssumption.                     *)
(*                                                                         *)
(* The strengthening TypeInv says, beside the types, where a request can   *)
(* be; OneReply and the two facts about the loaded map follow from it,     *)
(* each with one more inductive conjunct.                                  *)
(***************************************************************************)
EXTENDS Scheduler, FiniteSetTheorems, TLAPS

\* The places in which processPending serves a request.
Serving == {"eval", "check", "use", "refresh", "free", "load", "loading", "find",
            "scan", "expire", "wait", "evict", "evicting"}

\* A request that has called getRunner says what it asks for.
FilledIn == \A r \in Reqs : rst[r] # "new" => req[r] \in Requests

\* What lies in pendingReqCh waits to be served, and lies there once.
Queue ==
  /\ \A i \in 1 .. Len(pendingReqCh) : rst[pendingReqCh[i]] = "queued"
  /\ \A i, j \in 1 .. Len(pendingReqCh) : i # j => pendingReqCh[i] # pendingReqCh[j]

\* So does the request that processPending serves, and it is in no other place.
Served ==
  ppc \in Serving =>
    /\ pending \in Reqs /\ rst[pending] = "queued" /\ refMu[pending] # "load"
    /\ \A i \in 1 .. Len(pendingReqCh) : pendingReqCh[i] # pending

\* So does a request whose model is being loaded.
Waiting ==
  \A r \in Reqs : refMu[r] = "load" =>
    /\ rst[r] = "queued"
    /\ \A i \in 1 .. Len(pendingReqCh) : pendingReqCh[i] # r

\* A queued request is in one place: in pendingReqCh, once, with processPending,
\* or with the goroutine that waits for its load.
OnePlace == FilledIn /\ Queue /\ Served /\ Waiting

\* The finished events that are queued or being handled are of requests that
\* have ended.
FinishedEvents ==
  /\ \A i \in 1 .. Len(finishedReqCh) : rst[finishedReqCh[i]] \in {"finishing", "done"}
  /\ cpc = "finish" => finished \in Reqs /\ rst[finished] \in {"finishing", "done"}

\* No goroutine dereferences nil: a runner has been looked up or chosen before
\* it is used.
Chosen ==
  /\ \A r \in Reqs : rst[r] \in {"check", "use"} => seen[r] \in Reqs
  /\ ppc \in {"check", "use", "scan", "expire"} => runnerToExpire \in Reqs
  /\ cpc \in {"finish", "expire", "vram"} => crunner \in Reqs

\* evictAllAndWait waits for one event at least.
WaitPositive == ppc = "evicting" => waitFor > 0

TypeInv == TypeOK /\ OnePlace /\ FinishedEvents /\ Chosen /\ WaitPositive

\* While a load is prepared there is room for one more model, and no runner
\* is loaded under the key of the request.
RoomForLoad ==
  ppc \in {"refresh", "free", "load", "loading"} =>
    loaded[Key(pending)] = None /\ Cardinality(LoadedKeys) < MaxRunners
-----------------------------------------------------------------------------
(* What the data operators return *)

LEMMA RefModPositive == RefMod > 0
  BY ConstantAssumption, FS_CardinalityType

\* Arithmetic on the unsigned refCount stays in its range.
LEMMA RefRange ==
  ASSUME NEW n \in Nat
  PROVE  TakeRef(n) \in 0 .. RefMod - 1 /\ DropRef(n) \in 0 .. RefMod - 1
  BY ConstantAssumption, RefModPositive DEF TakeRef, DropRef

\* A range over a set of runners visits each of them.
LEMMA OrdersType ==
  ASSUME NEW S, S \subseteq Reqs
  PROVE  /\ Cardinality(S) \in Nat
         /\ S # {} => Cardinality(S) > 0
         /\ \A s \in Orders(S) : s \in Seq(Reqs) /\ Len(s) = Cardinality(S)
<1>1. IsFiniteSet(S)
  BY ConstantAssumption, FS_Subset
<1>2. Cardinality(S) \in Nat /\ (Cardinality(S) = 0 <=> S = {})
  BY <1>1, FS_CardinalityType, FS_EmptySet
<1>3. QED
  BY <1>2 DEF Orders

LEMMA LoadedRunnersType ==
  ASSUME MapTypeOK
  PROVE  LoadedRunners \subseteq Reqs
  BY DEF MapTypeOK, LoadedRunners, LoadedKeys

LEMMA KeepAliveType ==
  ASSUME NEW q \in Requests, q.keepAlive # NilKeepAlive
  PROVE  q.keepAlive \in Nat
  BY ConstantAssumption DEF Requests

\* The request that processPending serves has been filled in.
LEMMA ServedRequest ==
  ASSUME TypeInv, ppc \in Serving
  PROVE  /\ pending \in Reqs /\ req[pending] \in Requests
         /\ Key(pending) \in Models /\ loaded[Key(pending)] \in Reqs \cup {None}
<1>1. pending \in Reqs /\ req[pending] \in Requests
  BY DEF TypeInv, OnePlace, Served, FilledIn
<1>2. QED
  BY <1>1 DEF Key, Requests, TypeInv, TypeOK, MapTypeOK

\* A sender keeps expiredCh and the mutexes in their types.
LEMMA SendExpiredType ==
  ASSUME RunnerTypeOK, ChannelTypeOK, NEW rn \in Reqs, NEW who \in {"P", "C", "other"},
         SendExpired(rn, who)
  PROVE  /\ expiredCh' \in Seq(Reqs)
         /\ refMu' \in [Reqs -> {"free", "load", "vram", "P", "C", "other"}]
<1>1. expiredCh' \in Seq(Reqs)
  <2>1. expiredCh' = expiredCh \/ expiredCh' = Append(expiredCh, rn)
    BY DEF SendExpired
  <2>2. Append(expiredCh, rn) \in Seq(Reqs)
    BY DEF ChannelTypeOK
  <2>3. QED
    BY <2>1, <2>2 DEF ChannelTypeOK
<1>2. refMu' \in [Reqs -> {"free", "load", "vram", "P", "C", "other"}]
  BY DEF RunnerTypeOK, SendExpired
<1>3. QED
  BY <1>1, <1>2

LEMMA ExpireNowType ==
  ASSUME RunnerTypeOK, ChannelTypeOK, NEW rn \in Reqs, NEW who \in {"P", "C", "other"},
         ExpireNow(rn, who),
         UNCHANGED <<rstate, refCount, callbacks, resends, pendingReqCh, finishedReqCh,
                     unloadedCh>>,
         proc' \in [Reqs -> {"none", "up", "dead"}]
  PROVE  RunnerTypeOK' /\ ChannelTypeOK'
<1>1. /\ expiredCh' \in Seq(Reqs)
      /\ refMu' \in [Reqs -> {"free", "load", "vram", "P", "C", "other"}]
  BY SendExpiredType DEF ExpireNow, RunnerTypeOK, ChannelTypeOK
<1>2. RunnerTypeOK'
  BY <1>1 DEF ExpireNow, RunnerTypeOK
<1>3. ChannelTypeOK'
  BY <1>1 DEF ChannelTypeOK
<1>4. QED
  BY <1>2, <1>3

LEMMA UseLoadedRunnerType ==
  ASSUME RequestTypeOK, RunnerTypeOK, stale \in BOOLEAN,
         NEW r \in Reqs, NEW rn \in Reqs, req[r] \in Requests, UseLoadedRunner(r, rn)
  PROVE  RequestTypeOK' /\ RunnerTypeOK' /\ stale' \in BOOLEAN
<1>1. RequestTypeOK'
  BY DEF UseLoadedRunner, RequestTypeOK, reqFixed
<1>2. refCount' \in [Reqs -> 0 .. RefMod - 1]
  BY RefRange DEF UseLoadedRunner, RunnerTypeOK
<1>3. sessionDuration' \in [Reqs -> Nat]
  BY KeepAliveType DEF UseLoadedRunner, RunnerTypeOK
<1>4. RunnerTypeOK'
  BY <1>2, <1>3 DEF UseLoadedRunner, RunnerTypeOK
<1>5. QED
  BY <1>1, <1>4 DEF UseLoadedRunner

\* What a step leaves alone keeps its type.
LEMMA FrameType ==
  /\ RequestTypeOK /\ UNCHANGED reqVars => RequestTypeOK'
  /\ RunnerTypeOK /\ UNCHANGED runVars => RunnerTypeOK'
  /\ ChannelTypeOK /\ UNCHANGED chanVars => ChannelTypeOK'
  /\ MapTypeOK /\ UNCHANGED mapVars => MapTypeOK'
  /\ PendingTypeOK /\ UNCHANGED pVars => PendingTypeOK'
  /\ CompletedTypeOK /\ UNCHANGED cVars => CompletedTypeOK'
  /\ ApiTypeOK /\ UNCHANGED apiVars => ApiTypeOK'
<1>1. RequestTypeOK /\ UNCHANGED reqVars => RequestTypeOK'
  BY DEF RequestTypeOK, reqVars
<1>2. RunnerTypeOK /\ UNCHANGED runVars => RunnerTypeOK'
  BY DEF RunnerTypeOK, runVars
<1>3. ChannelTypeOK /\ UNCHANGED chanVars => ChannelTypeOK'
  BY DEF ChannelTypeOK, chanVars
<1>4. MapTypeOK /\ UNCHANGED mapVars => MapTypeOK'
  BY DEF MapTypeOK, mapVars
<1>5. PendingTypeOK /\ UNCHANGED pVars => PendingTypeOK'
  BY DEF PendingTypeOK, pVars
<1>6. CompletedTypeOK /\ UNCHANGED cVars => CompletedTypeOK'
  BY DEF CompletedTypeOK, cVars
<1>7. ApiTypeOK /\ UNCHANGED apiVars => ApiTypeOK'
  BY DEF ApiTypeOK, apiVars
<1>8. QED
  BY <1>1, <1>2, <1>3, <1>4, <1>5, <1>6, <1>7
-----------------------------------------------------------------------------
(* Every step keeps the types *)

LEMMA HandlerType ==
  ASSUME TypeInv, NEW r \in Reqs, Handler(r)
  PROVE  TypeOK'
<1>1. CASE \E q \in Requests : GetRunner(r, q)
  <2>1. PICK q \in Requests : GetRunner(r, q)
    BY <1>1
  <2>2. loaded[q.model] \in Reqs \cup {None}
    BY DEF Requests, TypeInv, TypeOK, MapTypeOK
  <2>3. RequestTypeOK'
    BY <2>1, <2>2 DEF GetRunner, TypeInv, TypeOK, RequestTypeOK
  <2>4. QED
    BY <2>1, <2>3, FrameType DEF GetRunner, outsideRun, TypeInv, TypeOK
<1>2. CASE CheckReload(r)
  <2>1. RequestTypeOK'
    BY <1>2 DEF CheckReload, reqFixed, TypeInv, TypeOK, RequestTypeOK
  <2>2. QED
    BY <1>2, <2>1, FrameType DEF CheckReload, outsideRun, TypeInv, TypeOK
<1>3. CASE UseRunner(r)
  <2>1. seen[r] \in Reqs /\ req[r] \in Requests
    BY <1>3 DEF UseRunner, TypeInv, OnePlace, FilledIn, Chosen
  <2>2. RequestTypeOK' /\ RunnerTypeOK' /\ stale' \in BOOLEAN
    BY <1>3, <2>1, UseLoadedRunnerType DEF UseRunner, TypeInv, TypeOK
  <2>3. QED
    BY <1>3, <2>1, <2>2, FrameType DEF UseRunner, TypeInv, TypeOK
<1>4. CASE Enqueue(r)
  <2>1. CASE Len(pendingReqCh) < MaxQueue
    <3>1. /\ pendingReqCh' = Append(pendingReqCh, r) /\ rst' = [rst EXCEPT ![r] = "queued"]
          /\ UNCHANGED <<reqFixed, seen, replies, finishedReqCh, expiredCh, unloadedCh>>
      BY <1>4, <2>1 DEF Enqueue
    <3>2. RequestTypeOK'
      BY <3>1 DEF reqFixed, TypeInv, TypeOK, RequestTypeOK
    <3>3. ChannelTypeOK'
      BY <3>1 DEF TypeInv, TypeOK, ChannelTypeOK
    <3>4. QED
      BY <1>4, <3>2, <3>3, FrameType DEF Enqueue, outsideRun, TypeInv, TypeOK
  <2>2. CASE ~(Len(pendingReqCh) < MaxQueue)
    <3>1. Fail(r) /\ UNCHANGED <<reqFixed, seen, chanVars>>
      BY <1>4, <2>2 DEF Enqueue, chanVars
    <3>2. RequestTypeOK'
      BY <3>1 DEF Fail, reqFixed, TypeInv, TypeOK, RequestTypeOK
    <3>3. QED
      BY <1>4, <3>1, <3>2, FrameType DEF Enqueue, outsideRun, TypeInv, TypeOK
  <2>3. QED
    BY <2>1, <2>2
<1>5. CASE CtxDone(r)
  <2>1. RequestTypeOK'
    BY <1>5 DEF CtxDone, TypeInv, TypeOK, RequestTypeOK
  <2>2. QED
    BY <1>5, <2>1, FrameType DEF CtxDone, outsideRun, TypeInv, TypeOK
<1>6. CASE WatchFinished(r)
  <2>1. RequestTypeOK'
    BY <1>6 DEF WatchFinished, reqFixed, TypeInv, TypeOK, RequestTypeOK
  <2>2. ChannelTypeOK'
    BY <1>6 DEF WatchFinished, TypeInv, TypeOK, ChannelTypeOK
  <2>3. QED
    BY <1>6, <2>1, <2>2, FrameType DEF WatchFinished, outsideRun, TypeInv,
       TypeOK
<1>7. QED
  BY <1>1, <1>2, <1>3, <1>4, <1>5, <1>6 DEF Handler

LEMMA RunnerStepType ==
  ASSUME TypeInv, NEW rn \in Reqs, RunnerStep(rn)
  PROVE  TypeOK'
<1>1. CASE WaitUntilRunningOk(rn)
  <2>1. RequestTypeOK'
    BY <1>1 DEF WaitUntilRunningOk, reqFixed, TypeInv, TypeOK, RequestTypeOK
  <2>2. RunnerTypeOK'
    BY <1>1, RefRange DEF WaitUntilRunningOk, TypeInv, TypeOK, RunnerTypeOK
  <2>3. QED
    BY <1>1, <2>1, <2>2, FrameType DEF WaitUntilRunningOk, outsideRun, TypeInv,
       TypeOK
<1>2. CASE WaitUntilRunningFailed(rn)
  <2>1. RequestTypeOK'
    BY <1>2 DEF WaitUntilRunningFailed, Fail, reqFixed, TypeInv, TypeOK,
       RequestTypeOK
  <2>2. RunnerTypeOK'
    BY <1>2, SendExpiredType DEF WaitUntilRunningFailed, TypeInv, TypeOK,
       RunnerTypeOK
  <2>3. ChannelTypeOK'
    BY <1>2, SendExpiredType DEF WaitUntilRunningFailed, TypeInv, TypeOK,
       ChannelTypeOK
  <2>4. QED
    BY <1>2, <2>1, <2>2, <2>3, FrameType DEF WaitUntilRunningFailed,
       outsideRun, TypeInv, TypeOK
<1>3. CASE TimerFires(rn)
  <2>1. RunnerTypeOK'
    BY <1>3 DEF TimerFires, TypeInv, TypeOK, RunnerTypeOK
  <2>2. QED
    BY <1>3, <2>1, FrameType DEF TimerFires, outsideC, TypeInv, TypeOK
<1>4. CASE TimerCallback(rn)
  <2>1. expiredCh' \in Seq(Reqs) /\ refMu' \in [Reqs -> {"free", "load", "vram", "P", "C", "other"}]
    BY <1>4, SendExpiredType DEF TimerCallback, TypeInv, TypeOK
  <2>2. callbacks' \in [Reqs -> Nat]
    BY <1>4 DEF TimerCallback, TypeInv, TypeOK, RunnerTypeOK
  <2>3. expireTimer' \in [Reqs -> {"nil", "armed", "fired"}]
    BY <1>4 DEF TimerCallback, TypeInv, TypeOK, RunnerTypeOK
  <2>4. RunnerTypeOK'
    BY <1>4, <2>1, <2>2, <2>3 DEF TimerCallback, TypeInv, TypeOK, RunnerTypeOK
  <2>5. ChannelTypeOK'
    BY <1>4, <2>1, <2>2, <2>3 DEF TimerCallback, TypeInv, TypeOK, ChannelTypeOK
  <2>6. QED
    BY <1>4, <2>4, <2>5, <2>1, <2>2, <2>3, FrameType DEF TimerCallback,
       outsideC, TypeInv, TypeOK
<1>5. CASE ResendExpired(rn)
  <2>1. RunnerTypeOK'
    BY <1>5 DEF ResendExpired, TypeInv, TypeOK, RunnerTypeOK
  <2>2. ChannelTypeOK'
    BY <1>5 DEF ResendExpired, TypeInv, TypeOK, ChannelTypeOK
  <2>3. QED
    BY <1>5, <2>1, <2>2, FrameType DEF ResendExpired, outsideC, TypeInv, TypeOK
<1>6. CASE UnblockSender(rn)
  <2>1. RunnerTypeOK'
    BY <1>6 DEF UnblockSender, TypeInv, TypeOK, RunnerTypeOK
  <2>2. ChannelTypeOK'
    BY <1>6 DEF UnblockSender, TypeInv, TypeOK, ChannelTypeOK
  <2>3. QED
    BY <1>6, <2>1, <2>2, FrameType DEF UnblockSender, outsideC, TypeInv, TypeOK
<1>7. QED
  BY <1>1, <1>2, <1>3, <1>4, <1>5, <1>6 DEF RunnerStep, WaitUntilRunning

LEMMA LoadStepType ==
  ASSUME TypeInv, LoadStep
  PROVE  TypeOK'
<1>1. CASE LoadNoServer
  <2>1. RequestTypeOK'
    BY <1>1, ServedRequest DEF LoadNoServer, PReady, Serving, Fail, reqFixed,
       TypeInv, TypeOK, RequestTypeOK
  <2>2. PendingTypeOK'
    BY <1>1 DEF LoadNoServer, pLocals, TypeInv, TypeOK, PendingTypeOK
  <2>3. QED
    BY <1>1, <2>1, <2>2, FrameType DEF LoadNoServer, TypeInv, TypeOK
<1>2. CASE LoadPredictedTooBig
  <2>1. PendingTypeOK'
    BY <1>2 DEF LoadPredictedTooBig, AfterRetry, pLocals, TypeInv, TypeOK,
       PendingTypeOK
  <2>2. QED
    BY <1>2, <2>1, FrameType DEF LoadPredictedTooBig, outsideP, TypeInv, TypeOK
<1>3. CASE LoadStartServer
  <2>1. RunnerTypeOK'
    BY <1>3 DEF LoadStartServer, TypeInv, TypeOK, RunnerTypeOK
  <2>2. MapTypeOK'
    BY <1>3, ServedRequest DEF LoadStartServer, PReady, Serving, TypeInv,
       TypeOK, MapTypeOK
  <2>3. PendingTypeOK'
    BY <1>3 DEF LoadStartServer, pLocals, TypeInv, TypeOK, PendingTypeOK
  <2>4. QED
    BY <1>3, <2>1, <2>2, <2>3, FrameType DEF LoadStartServer, TypeInv, TypeOK
<1>4. CASE LoadRequiredFull
  <2>1. PendingTypeOK'
    BY <1>4 DEF LoadRequiredFull, AfterRetry, pLocals, TypeInv, TypeOK,
       PendingTypeOK
  <2>2. QED
    BY <1>4, <2>1, FrameType DEF LoadRequiredFull, outsideP, TypeInv, TypeOK
<1>5. CASE \E oom, reducible \in BOOLEAN : LoadFailed(oom, reducible)
  <2>1. PICK oom \in BOOLEAN, reducible \in BOOLEAN : LoadFailed(oom, reducible)
    BY <1>5
  <2>2. pending \in Reqs
    BY <2>1, ServedRequest DEF LoadFailed, PReady, Serving
  <2>3. /\ RequestTypeOK' /\ MapTypeOK'
        /\ proc' \in [Reqs -> {"none", "up", "dead"}]
        /\ ppc' \in {"panic", "eval", "evict", "recv"} /\ pending' \in Reqs \cup {None}
    <3>1. CASE activeLoading = None
      BY <2>1, <2>2, <3>1, FrameType DEF LoadFailed, TypeInv, TypeOK, RunnerTypeOK
    <3>2. CASE activeLoading # None
      <4>1. /\ proc' = [proc EXCEPT ![activeLoading] = "dead"] /\ activeLoading' = None
            /\ UNCHANGED <<req, seen, ctxDone, schedAttempts, loaded>>
        BY <2>1, <3>2 DEF LoadFailed
      <4>2. CASE /\ oom /\ ~oomRetryAttempted[pending]
                 /\ reducible \/ LoadedKeys # {}
        BY <2>1, <2>2, <3>2, <4>1, <4>2 DEF LoadFailed, AfterRetry, TypeInv, TypeOK,
           RequestTypeOK, MapTypeOK, RunnerTypeOK
      <4>3. CASE ~(/\ oom /\ ~oomRetryAttempted[pending]
                   /\ reducible \/ LoadedKeys # {})
        <5>1. /\ Fail(pending) /\ ppc' = "recv" /\ pending' = None
              /\ UNCHANGED oomRetryAttempted
          BY <2>1, <3>2, <4>3 DEF LoadFailed
        <5>2. RequestTypeOK'
          BY <2>2, <4>1, <5>1 DEF Fail, TypeInv, TypeOK, RequestTypeOK
        <5>3. QED
          BY <2>2, <4>1, <5>1, <5>2 DEF TypeInv, TypeOK, MapTypeOK, RunnerTypeOK
      <4>4. QED
        BY <4>2, <4>3
    <3>3. QED
      BY <3>1, <3>2
  <2>4. RunnerTypeOK'
    BY <2>1, <2>3 DEF LoadFailed, TypeInv, TypeOK, RunnerTypeOK
  <2>5. PendingTypeOK'
    BY <2>1, <2>3 DEF LoadFailed, pLocals, TypeInv, TypeOK, PendingTypeOK
  <2>6. QED
    BY <2>1, <2>3, <2>4, <2>5, FrameType DEF LoadFailed, TypeInv, TypeOK
<1>6. CASE LoadSucceeded
  <2>1. pending \in Reqs /\ req[pending] \in Requests
    BY <1>6, ServedRequest DEF LoadSucceeded, PReady, Serving
  <2>2. RunnerTypeOK'
    BY <1>6, <2>1, KeepAliveType, ConstantAssumption DEF LoadSucceeded,
       TypeInv, TypeOK, RunnerTypeOK
  <2>3. MapTypeOK'
    BY <1>6, <2>1 DEF LoadSucceeded, TypeInv, TypeOK, MapTypeOK
  <2>4. PendingTypeOK'
    BY <1>6, <2>1 DEF LoadSucceeded, pLocals, TypeInv, TypeOK, PendingTypeOK
  <2>5. QED
    BY <1>6, <2>2, <2>3, <2>4, <2>1, FrameType DEF LoadSucceeded, TypeInv,
       TypeOK
<1>7. QED
  BY <1>1, <1>2, <1>3, <1>4, <1>5, <1>6 DEF LoadStep

LEMMA ProcessPendingType ==
  ASSUME TypeInv, ProcessPending
  PROVE  TypeOK'
<1>1. CASE Receive
  <2>1. RequestTypeOK'
    BY <1>1 DEF Receive, ChannelTypeOK, TypeInv, TypeOK, RequestTypeOK
  <2>2. ChannelTypeOK'
    BY <1>1 DEF Receive, TypeInv, TypeOK, ChannelTypeOK
  <2>3. PendingTypeOK'
    BY <1>1 DEF Receive, ChannelTypeOK, pLocals, TypeInv, TypeOK, PendingTypeOK
  <2>4. QED
    BY <1>1, <2>1, <2>2, <2>3, FrameType DEF Receive, TypeInv, TypeOK
<1>2. CASE IgnoreUnloaded
  <2>1. ChannelTypeOK'
    BY <1>2 DEF IgnoreUnloaded, TypeInv, TypeOK, ChannelTypeOK
  <2>2. QED
    BY <1>2, <2>1, FrameType DEF IgnoreUnloaded, outsideC, TypeInv, TypeOK
<1>3. CASE Evaluate
  <2>1. PendingTypeOK'
    BY <1>3, ServedRequest DEF Evaluate, PReady, Serving, TypeInv, TypeOK,
       PendingTypeOK
  <2>2. QED
    BY <1>3, <2>1, FrameType DEF Evaluate, outsideP, TypeInv, TypeOK
<1>4. CASE PendingCheckReload
  <2>1. PendingTypeOK'
    BY <1>4 DEF PendingCheckReload, pLocals, TypeInv, TypeOK, PendingTypeOK
  <2>2. QED
    BY <1>4, <2>1, FrameType DEF PendingCheckReload, outsideP, TypeInv, TypeOK
<1>5. CASE PendingUseRunner
  <2>1. pending \in Reqs /\ req[pending] \in Requests
    BY <1>5, ServedRequest DEF PendingUseRunner, PReady, Serving
  <2>2. runnerToExpire \in Reqs
    BY <1>5 DEF PendingUseRunner, PReady, TypeInv, Chosen
  <2>3. RequestTypeOK' /\ RunnerTypeOK' /\ stale' \in BOOLEAN
    BY <1>5, <2>1, <2>2, UseLoadedRunnerType DEF PendingUseRunner, TypeInv,
       TypeOK
  <2>4. PendingTypeOK'
    BY <1>5, <2>1, <2>2, <2>3 DEF PendingUseRunner, TypeInv, TypeOK,
       PendingTypeOK
  <2>5. QED
    BY <1>5, <2>4, <2>1, <2>2, <2>3, FrameType DEF PendingUseRunner, TypeInv,
       TypeOK
<1>6. CASE RefreshGPUs
  <2>1. visit' \in Seq(Reqs)
    <3>1. CASE req[pending].place = "cpu"
      BY <1>6, <3>1 DEF RefreshGPUs
    <3>2. CASE req[pending].place # "cpu"
      BY <1>6, <3>2, LoadedRunnersType, OrdersType DEF RefreshGPUs, TypeInv, TypeOK
    <3>3. QED
      BY <3>1, <3>2
  <2>2. PendingTypeOK'
    BY <1>6, <2>1 DEF RefreshGPUs, TypeInv, TypeOK, PendingTypeOK
  <2>3. QED
    BY <1>6, <2>2, FrameType DEF RefreshGPUs, outsideP, TypeInv, TypeOK
<1>7. CASE UpdateFreeSpace
  <2>1. PendingTypeOK'
    BY <1>7 DEF UpdateFreeSpace, TypeInv, TypeOK, PendingTypeOK
  <2>2. QED
    BY <1>7, <2>1, FrameType DEF UpdateFreeSpace, outsideP, TypeInv, TypeOK
<1>8. CASE FindSnapshot
  <2>1. visit' \in Seq(Reqs) /\ runnerToExpire' \in Reqs \cup {None}
    BY <1>8, LoadedRunnersType, OrdersType DEF FindSnapshot, SortedOrders,
       TypeInv, TypeOK, PendingTypeOK
  <2>2. PendingTypeOK'
    BY <1>8, <2>1 DEF FindSnapshot, TypeInv, TypeOK, PendingTypeOK
  <2>3. QED
    BY <1>8, <2>2, <2>1, FrameType DEF FindSnapshot, outsideP, TypeInv, TypeOK
<1>9. CASE FindScan
  <2>1. visit' \in Seq(Reqs) /\ runnerToExpire' \in Reqs \cup {None}
    <3>1. CASE visit = <<>>
      BY <1>9, <3>1 DEF FindScan, TypeInv, TypeOK, PendingTypeOK
    <3>2. CASE visit # <<>>
      <4>1. Head(visit) \in Reqs /\ Tail(visit) \in Seq(Reqs) /\ <<>> \in Seq(Reqs)
        BY <3>2 DEF TypeInv, TypeOK, PendingTypeOK
      <4>2. QED
        BY <1>9, <3>2, <4>1 DEF FindScan, TypeInv, TypeOK, PendingTypeOK
    <3>3. QED
      BY <3>1, <3>2
  <2>2. PendingTypeOK'
    BY <1>9, <2>1 DEF FindScan, TypeInv, TypeOK, PendingTypeOK
  <2>3. QED
    BY <1>9, <2>2, FrameType DEF FindScan, outsideP, TypeInv, TypeOK
<1>10. CASE ExpireToMakeRoom
  <2>1. RunnerTypeOK' /\ ChannelTypeOK'
    BY <1>10, ExpireNowType DEF ExpireToMakeRoom, PReady, TypeInv, TypeOK,
       RunnerTypeOK, Chosen
  <2>2. PendingTypeOK'
    BY <1>10, <2>1 DEF ExpireToMakeRoom, pLocals, TypeInv, TypeOK,
       PendingTypeOK
  <2>3. QED
    BY <1>10, <2>2, <2>1, FrameType DEF ExpireToMakeRoom, TypeInv, TypeOK
<1>11. CASE UnloadObserved
  <2>1. ChannelTypeOK'
    BY <1>11 DEF UnloadObserved, TypeInv, TypeOK, ChannelTypeOK
  <2>2. PendingTypeOK'
    BY <1>11 DEF UnloadObserved, TypeInv, TypeOK, PendingTypeOK
  <2>3. QED
    BY <1>11, <2>1, <2>2, FrameType DEF UnloadObserved, TypeInv, TypeOK
<1>12. CASE EvictSnapshot
  <2>1. PendingTypeOK'
    BY <1>12, LoadedRunnersType, OrdersType DEF EvictSnapshot, TypeInv, TypeOK,
       PendingTypeOK
  <2>2. QED
    BY <1>12, <2>1, FrameType DEF EvictSnapshot, outsideP, TypeInv, TypeOK
<1>13. CASE EvictNext
  <2>1. Head(visit) \in Reqs
    BY <1>13 DEF EvictNext, TypeInv, TypeOK, PendingTypeOK
  <2>2. RunnerTypeOK' /\ ChannelTypeOK'
    BY <1>13, <2>1, ExpireNowType DEF EvictNext, TypeInv, TypeOK, RunnerTypeOK
  <2>3. PendingTypeOK'
    BY <1>13, <2>1, <2>2 DEF EvictNext, TypeInv, TypeOK, PendingTypeOK
  <2>4. QED
    BY <1>13, <2>3, <2>1, <2>2, FrameType DEF EvictNext, TypeInv, TypeOK
<1>14. CASE EvictObserved
  <2>1. ChannelTypeOK'
    BY <1>14 DEF EvictObserved, TypeInv, TypeOK, ChannelTypeOK
  <2>2. PendingTypeOK'
    BY <1>14 DEF EvictObserved, PReady, WaitPositive, TypeInv, TypeOK,
       PendingTypeOK
  <2>3. QED
    BY <1>14, <2>1, <2>2, FrameType DEF EvictObserved, TypeInv, TypeOK
<1>15. CASE PendingLoopExit
  <2>1. PendingTypeOK'
    BY <1>15 DEF PendingLoopExit, pLocals, TypeInv, TypeOK, PendingTypeOK
  <2>2. QED
    BY <1>15, <2>1, FrameType DEF PendingLoopExit, outsideP, TypeInv, TypeOK
<1>16. CASE LoadStep
  BY <1>16, LoadStepType
<1>17. QED
  BY <1>16, <1>1, <1>2, <1>3, <1>4, <1>5, <1>6, <1>7, <1>8, <1>9, <1>10, <1>11, <1>12,
     <1>13, <1>14, <1>15 DEF ProcessPending

LEMMA ProcessCompletedType ==
  ASSUME TypeInv, ProcessCompleted
  PROVE  TypeOK'
<1>1. CASE ReceiveFinished
  <2>1. Head(finishedReqCh) \in Reqs /\ rst[Head(finishedReqCh)] # "new"
    BY <1>1 DEF ReceiveFinished, TypeInv, TypeOK, ChannelTypeOK, FinishedEvents
  <2>2. req[Head(finishedReqCh)] \in Requests
    BY <1>1, <2>1 DEF ReceiveFinished, TypeInv, OnePlace, FilledIn
  <2>3. loaded[Key(Head(finishedReqCh))] \in Reqs \cup {None}
    BY <1>1, <2>1, <2>2 DEF ReceiveFinished, TypeInv, TypeOK, MapTypeOK, Key,
       Requests
  <2>4. RequestTypeOK'
    BY <1>1, <2>1, <2>2, <2>3 DEF ReceiveFinished, reqFixed, TypeInv, TypeOK,
       RequestTypeOK
  <2>5. ChannelTypeOK'
    BY <1>1, <2>1, <2>2, <2>3 DEF ReceiveFinished, TypeInv, TypeOK,
       ChannelTypeOK
  <2>6. CompletedTypeOK'
    BY <1>1, <2>1, <2>2, <2>3 DEF ReceiveFinished, cVars, TypeInv, TypeOK,
       CompletedTypeOK
  <2>7. QED
    BY <1>1, <2>4, <2>5, <2>6, <2>1, <2>2, <2>3, FrameType DEF ReceiveFinished,
       TypeInv, TypeOK
<1>2. CASE FinishRequest
  <2>1. crunner \in Reqs
    BY <1>2 DEF FinishRequest, CReady, TypeInv, Chosen
  <2>2. refCount' \in [Reqs -> 0 .. RefMod - 1]
    BY <1>2, <2>1, RefRange DEF FinishRequest, TypeInv, TypeOK, RunnerTypeOK
  <2>3. expireTimer' \in [Reqs -> {"nil", "armed", "fired"}]
    BY <1>2, <2>1 DEF FinishRequest, TimerAfterFinish, TypeInv, TypeOK,
       RunnerTypeOK
  <2>4. expiredCh' \in Seq(Reqs) /\ refMu' \in [Reqs -> {"free", "load", "vram", "P", "C", "other"}]
    BY <1>2, <2>1, SendExpiredType DEF FinishRequest, TypeInv, TypeOK,
       RunnerTypeOK, ChannelTypeOK
  <2>5. RequestTypeOK'
    BY <1>2, <2>1, <2>2, <2>3, <2>4 DEF FinishRequest, reqFixed, TypeInv,
       TypeOK, RequestTypeOK
  <2>6. RunnerTypeOK'
    BY <1>2, <2>1, <2>2, <2>3, <2>4 DEF FinishRequest, TypeInv, TypeOK,
       RunnerTypeOK
  <2>7. ChannelTypeOK'
    BY <1>2, <2>1, <2>2, <2>3, <2>4 DEF FinishRequest, TypeInv, TypeOK,
       ChannelTypeOK
  <2>8. CompletedTypeOK'
    BY <1>2, <2>1, <2>2, <2>3, <2>4 DEF FinishRequest, TypeInv, TypeOK,
       CompletedTypeOK
  <2>9. QED
    BY <1>2, <2>5, <2>6, <2>7, <2>8, <2>1, <2>2, <2>3, <2>4, FrameType DEF
       FinishRequest, TypeInv, TypeOK
<1>3. CASE ReceiveExpired
  <2>1. ChannelTypeOK'
    BY <1>3 DEF ReceiveExpired, TypeInv, TypeOK, ChannelTypeOK
  <2>2. CompletedTypeOK'
    BY <1>3 DEF ReceiveExpired, ChannelTypeOK, TypeInv, TypeOK, CompletedTypeOK
  <2>3. QED
    BY <1>3, <2>1, <2>2, FrameType DEF ReceiveExpired, outsideC, TypeInv,
       TypeOK
<1>4. CASE ExpiredInUse
  <2>1. crunner \in Reqs
    BY <1>4 DEF ExpiredInUse, CReady, TypeInv, Chosen
  <2>2. RunnerTypeOK'
    BY <1>4, <2>1 DEF ExpiredInUse, TypeInv, TypeOK, RunnerTypeOK
  <2>3. CompletedTypeOK'
    BY <1>4, <2>1 DEF ExpiredInUse, TypeInv, TypeOK, CompletedTypeOK
  <2>4. QED
    BY <1>4, <2>2, <2>3, <2>1, FrameType DEF ExpiredInUse, outsideC, TypeInv,
       TypeOK
<1>5. CASE ExpiredIdle
  <2>1. RunnerTypeOK'
    BY <1>5 DEF ExpiredIdle, Unload, TypeInv, TypeOK, RunnerTypeOK
  <2>2. MapTypeOK'
    BY <1>5 DEF ExpiredIdle, TypeInv, TypeOK, MapTypeOK
  <2>3. CompletedTypeOK'
    BY <1>5 DEF ExpiredIdle, TypeInv, TypeOK, CompletedTypeOK
  <2>4. QED
    BY <1>5, <2>1, <2>2, <2>3, FrameType DEF ExpiredIdle, TypeInv, TypeOK
<1>6. CASE VRAMRecovered
  <2>1. RunnerTypeOK'
    BY <1>6 DEF VRAMRecovered, TypeInv, TypeOK, RunnerTypeOK
  <2>2. CompletedTypeOK'
    BY <1>6 DEF VRAMRecovered, TypeInv, TypeOK, CompletedTypeOK
  <2>3. QED
    BY <1>6, <2>1, <2>2, FrameType DEF VRAMRecovered, outsideC, TypeInv, TypeOK
<1>7. CASE SendUnloaded
  <2>1. ChannelTypeOK'
    BY <1>7 DEF SendUnloaded, TypeInv, TypeOK, ChannelTypeOK
  <2>2. CompletedTypeOK'
    BY <1>7 DEF SendUnloaded, TypeInv, TypeOK, CompletedTypeOK
  <2>3. QED
    BY <1>7, <2>1, <2>2, FrameType DEF SendUnloaded, outsideC, TypeInv, TypeOK
<1>8. CASE CompletedLoopExit
  <2>1. CompletedTypeOK'
    BY <1>8 DEF CompletedLoopExit, TypeInv, TypeOK, CompletedTypeOK
  <2>2. QED
    BY <1>8, <2>1, FrameType DEF CompletedLoopExit, outsideC, TypeInv, TypeOK
<1>9. QED
  BY <1>1, <1>2, <1>3, <1>4, <1>5, <1>6, <1>7, <1>8 DEF ProcessCompleted

LEMMA ApiType ==
  ASSUME TypeInv, NEW a \in Apis, Api(a)
  PROVE  TypeOK'
<1>1. CASE \E kind \in {"expire", "stop"}, m \in Models : ApiLookup(a, kind, m)
  <2>1. ApiTypeOK'
    BY <1>1 DEF ApiLookup, MapTypeOK, TypeInv, TypeOK, ApiTypeOK
  <2>2. QED
    BY <1>1, <2>1, FrameType DEF ApiLookup, TypeInv, TypeOK
<1>2. CASE ApiRuntimeOOM(a)
  <2>1. ApiTypeOK'
    BY <1>2, LoadedRunnersType, OrdersType DEF ApiRuntimeOOM, TypeInv, TypeOK,
       ApiTypeOK
  <2>2. QED
    BY <1>2, <2>1, FrameType DEF ApiRuntimeOOM, TypeInv, TypeOK
<1>3. CASE ApiVisit(a)
  <2> DEFINE rn == Head(todo[a])
  <2>1. rn \in Reqs /\ Tail(todo[a]) \in Seq(Reqs)
    BY <1>3 DEF ApiVisit, TypeInv, TypeOK, ApiTypeOK
  <2>2. RunnerTypeOK' /\ ChannelTypeOK'
    <3>1. CASE apc[a] = "stop"
      <4>1. /\ expiredCh' \in Seq(Reqs)
            /\ refMu' \in [Reqs -> {"free", "load", "vram", "P", "C", "other"}]
        BY <1>3, <2>1, <3>1, SendExpiredType DEF ApiVisit, TypeInv, TypeOK
      <4>2. /\ expireTimer' = [expireTimer EXCEPT ![rn] = "nil"]
            /\ sessionDuration' = [sessionDuration EXCEPT ![rn] = 0]
            /\ proc' = [proc EXCEPT ![rn] = "dead"]
            /\ UNCHANGED <<rstate, refCount, callbacks, resends>>
        BY <1>3, <3>1 DEF ApiVisit
      <4>3. RunnerTypeOK'
        BY <2>1, <4>1, <4>2 DEF TypeInv, TypeOK, RunnerTypeOK
      <4>4. QED
        BY <1>3, <4>1, <4>3 DEF ApiVisit, TypeInv, TypeOK, ChannelTypeOK
    <3>2. CASE apc[a] # "stop"
      BY <1>3, <2>1, <3>2, ExpireNowType DEF ApiVisit, TypeInv, TypeOK, RunnerTypeOK
    <3>3. QED
      BY <3>1, <3>2
  <2>3. ApiTypeOK'
    BY <1>3, <2>1 DEF ApiVisit, TypeInv, TypeOK, ApiTypeOK
  <2>4. QED
    BY <1>3, <2>2, <2>3, FrameType DEF ApiVisit, TypeInv, TypeOK
<1>4. CASE ApiReturn(a)
  <2>1. ApiTypeOK'
    BY <1>4 DEF ApiReturn, TypeInv, TypeOK, ApiTypeOK
  <2>2. QED
    BY <1>4, <2>1, FrameType DEF ApiReturn, TypeInv, TypeOK
<1>5. CASE ShutdownCancel(a)
  <2>1. ApiTypeOK'
    BY <1>5 DEF ShutdownCancel, TypeInv, TypeOK, ApiTypeOK
  <2>2. QED
    BY <1>5, <2>1, FrameType DEF ShutdownCancel, TypeInv, TypeOK
<1>6. CASE UnloadAllRunners(a)
  <2>1. RunnerTypeOK'
    BY <1>6 DEF UnloadAllRunners, TypeInv, TypeOK, RunnerTypeOK
  <2>2. MapTypeOK'
    BY <1>6 DEF UnloadAllRunners, TypeInv, TypeOK, MapTypeOK
  <2>3. ApiTypeOK'
    BY <1>6 DEF UnloadAllRunners, TypeInv, TypeOK, ApiTypeOK
  <2>4. QED
    BY <1>6, <2>1, <2>2, <2>3, FrameType DEF UnloadAllRunners, TypeInv, TypeOK
<1>7. CASE \E rn \in Reqs : RunnerCrash(a, rn)
  <2>1. RunnerTypeOK'
    BY <1>7 DEF RunnerCrash, TypeInv, TypeOK, RunnerTypeOK
  <2>2. ApiTypeOK'
    BY <1>7 DEF RunnerCrash, TypeInv, TypeOK, ApiTypeOK
  <2>3. QED
    BY <1>7, <2>1, <2>2, FrameType DEF RunnerCrash, TypeInv, TypeOK
<1>8. QED
  BY <1>1, <1>2, <1>3, <1>4, <1>5, <1>6, <1>7 DEF Api
-----------------------------------------------------------------------------
LEMMA InitType == Init => TypeInv
<1> SUFFICES ASSUME Init PROVE TypeInv
  OBVIOUS
<1>1. RequestTypeOK /\ ChannelTypeOK /\ MapTypeOK
  BY DEF Init, RequestTypeOK, ChannelTypeOK, MapTypeOK
<1>2. RunnerTypeOK
  BY RefModPositive, ConstantAssumption DEF Init, RunnerTypeOK
<1>3. PendingTypeOK /\ CompletedTypeOK /\ stale \in BOOLEAN
  <2>1. <<>> \in Seq(Reqs)
    OBVIOUS
  <2>2. QED
    BY <2>1 DEF Init, PendingTypeOK, CompletedTypeOK
<1>4. ApiTypeOK
  <2>1. /\ apc = [a \in Apis |-> "idle"] /\ todo = [a \in Apis |-> <<>>]
        /\ schedDone = FALSE /\ <<>> \in Seq(Reqs)
    BY DEF Init
  <2>2. QED
    BY <2>1 DEF ApiTypeOK
<1>5. OnePlace
  BY DEF Init, OnePlace, FilledIn, Queue, Served, Waiting, Serving
<1>6. FinishedEvents /\ Chosen /\ WaitPositive
  BY DEF Init, FinishedEvents, Chosen, WaitPositive
<1>7. QED
  BY <1>1, <1>2, <1>3, <1>4, <1>5, <1>6 DEF TypeInv, TypeOK
-----------------------------------------------------------------------------
(* A queued request stays in one place *)

LEMMA QueueType ==
  ASSUME TypeInv
  PROVE  \A i \in 1 .. Len(pendingReqCh) : pendingReqCh[i] \in Reqs
  BY DEF TypeInv, TypeOK, ChannelTypeOK

\* A step that moves no request keeps OnePlace.
LEMMA NoMove ==
  ASSUME TypeInv,
         UNCHANGED <<req, pendingReqCh, pending>>,
         ppc' \in Serving => ppc \in Serving,
         \A r \in Reqs : refMu'[r] = "load" => refMu[r] = "load",
         \A r \in Reqs : rst'[r] # "new" => rst[r] # "new",
         \A r \in Reqs : rst[r] = "queued" => rst'[r] = "queued"
  PROVE  OnePlace'
<1>1. FilledIn'
  BY DEF TypeInv, OnePlace, FilledIn
<1>2. Queue'
  BY QueueType DEF TypeInv, OnePlace, Queue
<1>3. Served'
  BY DEF TypeInv, OnePlace, Served
<1>4. Waiting'
  BY DEF TypeInv, OnePlace, Waiting
<1>5. QED
  BY <1>1, <1>2, <1>3, <1>4 DEF OnePlace

\* A step that moves p, which is not in pendingReqCh, to the goroutine that
\* waits for its load, or out of the queue.
LEMMA MoveOne ==
  ASSUME TypeInv, NEW p \in Reqs,
         UNCHANGED <<req, pendingReqCh>>,
         \A i \in 1 .. Len(pendingReqCh) : pendingReqCh[i] # p,
         rst[p] # "new",
         refMu'[p] = "load" => rst'[p] = "queued",
         \A r \in Reqs : r # p => rst'[r] = rst[r],
         \A r \in Reqs : r # p => (refMu'[r] = "load" => refMu[r] = "load"),
         ppc' \in Serving => ppc \in Serving /\ pending' = pending /\ pending # p
  PROVE  OnePlace'
<1>1. FilledIn'
  BY DEF TypeInv, OnePlace, FilledIn
<1>2. Queue'
  BY QueueType DEF TypeInv, OnePlace, Queue
<1>3. Served'
  BY DEF TypeInv, OnePlace, Served
<1>4. Waiting'
  BY DEF TypeInv, OnePlace, Waiting
<1>5. QED
  BY <1>1, <1>2, <1>3, <1>4 DEF OnePlace

\* A sender takes and returns a mutex, but not for a load.
LEMMA SendExpiredNoLoad ==
  ASSUME RunnerTypeOK, NEW rn \in Reqs, NEW who \in {"P", "C", "other"},
         SendExpired(rn, who)
  PROVE  \A r \in Reqs : refMu'[r] = "load" => refMu[r] = "load"
  BY DEF RunnerTypeOK, SendExpired

LEMMA HandlerOnePlace ==
  ASSUME TypeInv, NEW r \in Reqs, Handler(r)
  PROVE  OnePlace'
<1>1. CASE \E q \in Requests : GetRunner(r, q)
  <2>1. PICK q \in Requests : GetRunner(r, q)
    BY <1>1
  <2>2. /\ rst[r] = "new" /\ req' = [req EXCEPT ![r] = q]
        /\ \E s \in {"enqueue", "check"} : rst' = [rst EXCEPT ![r] = s]
        /\ UNCHANGED <<pendingReqCh, ppc, pending, refMu>>
    BY <2>1 DEF GetRunner, runVars, chanVars, outsideRun, pVars
  <2>3. FilledIn'
    BY <2>2 DEF TypeInv, TypeOK, RequestTypeOK, OnePlace, FilledIn
  <2>4. Queue'
    BY <2>2, QueueType DEF TypeInv, TypeOK, RequestTypeOK, OnePlace, Queue
  <2>5. Served' /\ Waiting'
    BY <2>2 DEF TypeInv, TypeOK, RequestTypeOK, OnePlace, Served, Waiting
  <2>6. QED
    BY <2>3, <2>4, <2>5 DEF OnePlace
<1>2. CASE CheckReload(r)
  BY <1>2, NoMove DEF CheckReload, TypeInv, TypeOK, RequestTypeOK, reqFixed, runVars,
     chanVars, outsideRun, pVars
<1>3. CASE UseRunner(r)
  BY <1>3, NoMove DEF UseRunner, UseLoadedRunner, TypeInv, TypeOK, RequestTypeOK,
     reqFixed, chanVars, pVars
<1>4. CASE Enqueue(r)
  <2>1. CASE Len(pendingReqCh) < MaxQueue
    <3>1. /\ rst[r] = "enqueue" /\ rst' = [rst EXCEPT ![r] = "queued"]
          /\ pendingReqCh' = Append(pendingReqCh, r)
          /\ UNCHANGED <<req, ppc, pending, refMu>>
      BY <1>4, <2>1 DEF Enqueue, reqFixed, runVars, outsideRun, pVars
    <3>2. /\ Len(pendingReqCh) \in Nat /\ Len(pendingReqCh') = Len(pendingReqCh) + 1
          /\ \A i \in 1 .. Len(pendingReqCh) : pendingReqCh'[i] = pendingReqCh[i]
          /\ pendingReqCh'[Len(pendingReqCh) + 1] = r
      BY <3>1 DEF TypeInv, TypeOK, ChannelTypeOK
    <3>3. FilledIn'
      BY <3>1 DEF TypeInv, TypeOK, RequestTypeOK, OnePlace, FilledIn
    <3>4. Queue'
      BY <3>1, <3>2, QueueType DEF TypeInv, TypeOK, RequestTypeOK, OnePlace, Queue
    <3>5. Served' /\ Waiting'
      BY <3>1, <3>2 DEF TypeInv, TypeOK, RequestTypeOK, OnePlace, Served, Waiting
    <3>6. QED
      BY <3>3, <3>4, <3>5 DEF OnePlace
  <2>2. CASE ~(Len(pendingReqCh) < MaxQueue)
    BY <1>4, <2>2, NoMove DEF Enqueue, Fail, TypeInv, TypeOK, RequestTypeOK, reqFixed,
       runVars, outsideRun, pVars
  <2>3. QED
    BY <2>1, <2>2
<1>5. CASE CtxDone(r)
  BY <1>5, NoMove DEF CtxDone, runVars, chanVars, outsideRun, pVars
<1>6. CASE WatchFinished(r)
  BY <1>6, NoMove DEF WatchFinished, TypeInv, TypeOK, RequestTypeOK, reqFixed,
     runVars, outsideRun, pVars
<1>7. QED
  BY <1>1, <1>2, <1>3, <1>4, <1>5, <1>6 DEF Handler

LEMMA RunnerStepOnePlace ==
  ASSUME TypeInv, NEW rn \in Reqs, RunnerStep(rn)
  PROVE  OnePlace'
<1>1. CASE WaitUntilRunningOk(rn)
  <2>1. /\ refMu[rn] = "load" /\ refMu' = [refMu EXCEPT ![rn] = "free"]
        /\ rst' = [rst EXCEPT ![rn] = "granted"]
        /\ UNCHANGED <<req, pendingReqCh, ppc, pending>>
    BY <1>1 DEF WaitUntilRunningOk, reqFixed, chanVars, outsideRun, pVars
  <2>2. \A r \in Reqs : refMu'[r] = "load" => refMu[r] = "load" /\ r # rn
    BY <2>1 DEF TypeInv, TypeOK, RunnerTypeOK
  <2>3. QED
    BY <2>1, <2>2, MoveOne DEF TypeInv, TypeOK, RequestTypeOK, OnePlace, Served, Waiting
<1>2. CASE WaitUntilRunningFailed(rn)
  <2>1. /\ refMu[rn] = "load" /\ rst' = [rst EXCEPT ![rn] = "failed"]
        /\ UNCHANGED <<req, pendingReqCh, ppc, pending>>
    BY <1>2 DEF WaitUntilRunningFailed, Fail, reqFixed, outsideRun, pVars
  <2>2. \A r \in Reqs : refMu'[r] = "load" => refMu[r] = "load" /\ r # rn
    BY <1>2 DEF WaitUntilRunningFailed, SendExpired, TypeInv, TypeOK, RunnerTypeOK
  <2>3. QED
    BY <2>1, <2>2, MoveOne DEF TypeInv, TypeOK, RequestTypeOK, OnePlace, Served, Waiting
<1>3. CASE TimerFires(rn)
  BY <1>3, NoMove DEF TimerFires, outsideC, reqVars, chanVars, pVars
<1>4. CASE TimerCallback(rn)
  BY <1>4, NoMove, SendExpiredNoLoad DEF TimerCallback, TypeInv, TypeOK, outsideC,
     reqVars, pVars
<1>5. CASE ResendExpired(rn)
  BY <1>5, NoMove DEF ResendExpired, outsideC, reqVars, pVars
<1>6. CASE UnblockSender(rn)
  BY <1>6, NoMove DEF UnblockSender, TypeInv, TypeOK, RunnerTypeOK, outsideC, reqVars,
     pVars
<1>7. QED
  BY <1>1, <1>2, <1>3, <1>4, <1>5, <1>6 DEF RunnerStep, WaitUntilRunning

\* The request that load gives up or hands on leaves processPending.
LEMMA LoadStepOnePlace ==
  ASSUME TypeInv, LoadStep
  PROVE  OnePlace'
<1>1. CASE LoadNoServer
  <2>1. /\ pending \in Reqs /\ ppc' = "recv" /\ rst' = [rst EXCEPT ![pending] = "failed"]
        /\ ppc \in Serving /\ UNCHANGED <<req, pendingReqCh, refMu>>
    BY <1>1, ServedRequest DEF LoadNoServer, PReady, Serving, Fail, reqFixed, runVars,
       chanVars
  <2>2. QED
    BY <2>1, MoveOne DEF TypeInv, TypeOK, RequestTypeOK, OnePlace, Served, Waiting,
       Serving
<1>2. CASE LoadPredictedTooBig
  BY <1>2, NoMove DEF LoadPredictedTooBig, PReady, Serving, outsideP, reqVars, runVars,
     chanVars
<1>3. CASE LoadStartServer
  BY <1>3, NoMove DEF LoadStartServer, PReady, Serving, reqVars, chanVars
<1>4. CASE LoadRequiredFull
  BY <1>4, NoMove DEF LoadRequiredFull, PReady, Serving, outsideP, reqVars, runVars,
     chanVars
<1>5. CASE \E oom, reducible \in BOOLEAN : LoadFailed(oom, reducible)
  <2>1. PICK oom \in BOOLEAN, reducible \in BOOLEAN : LoadFailed(oom, reducible)
    BY <1>5
  <2>2. ppc \in Serving /\ pending \in Reqs
    BY <2>1, ServedRequest DEF LoadFailed, PReady, Serving
  <2>3. CASE ppc' = "recv"
    <3>1. rst' = [rst EXCEPT ![pending] = "failed"] /\ UNCHANGED <<req, pendingReqCh, refMu>>
      BY <2>1, <2>3 DEF LoadFailed, AfterRetry, Fail, reqVars, chanVars
    <3>2. QED
      BY <2>2, <2>3, <3>1, MoveOne DEF TypeInv, TypeOK, RequestTypeOK, OnePlace, Served,
         Waiting, Serving
  <2>4. CASE ppc' # "recv"
    <3>1. UNCHANGED <<req, rst, pendingReqCh, pending, refMu>>
      BY <2>1, <2>4 DEF LoadFailed, reqVars, chanVars
    <3>2. QED
      BY <2>2, <3>1, NoMove
  <2>5. QED
    BY <2>3, <2>4
<1>6. CASE LoadSucceeded
  <2>1. /\ pending \in Reqs /\ ppc' = "recv" /\ refMu' = [refMu EXCEPT ![pending] = "load"]
        /\ ppc \in Serving /\ UNCHANGED <<req, rst, pendingReqCh>>
    BY <1>6, ServedRequest DEF LoadSucceeded, PReady, Serving, reqVars, chanVars
  <2>2. QED
    BY <2>1, MoveOne DEF TypeInv, TypeOK, RunnerTypeOK, OnePlace, Served, Serving
<1>7. QED
  BY <1>1, <1>2, <1>3, <1>4, <1>5, <1>6 DEF LoadStep

LEMMA ProcessPendingOnePlace ==
  ASSUME TypeInv, ProcessPending
  PROVE  OnePlace'
<1>1. CASE Receive
  <2>1. /\ pendingReqCh \in Seq(Reqs) /\ pendingReqCh # <<>>
        /\ pending' = Head(pendingReqCh) /\ pendingReqCh' = Tail(pendingReqCh)
        /\ UNCHANGED <<req, rst, refMu>>
    BY <1>1 DEF Receive, TypeInv, TypeOK, ChannelTypeOK, runVars
  <2>2. /\ pending' \in Reqs /\ pending' = pendingReqCh[1]
        /\ Len(pendingReqCh') = Len(pendingReqCh) - 1 /\ Len(pendingReqCh) \in Nat \ {0}
        /\ \A i \in 1 .. Len(pendingReqCh') : pendingReqCh'[i] = pendingReqCh[i + 1]
    BY <2>1
  <2>3. FilledIn' /\ Queue' /\ Served' /\ Waiting'
    BY <2>1, <2>2 DEF TypeInv, OnePlace, FilledIn, Queue, Served, Waiting
  <2>4. QED
    BY <2>3 DEF OnePlace
<1>2. CASE IgnoreUnloaded
  BY <1>2, NoMove DEF IgnoreUnloaded, outsideC, reqVars, runVars, pVars
<1>3. CASE Evaluate
  BY <1>3, NoMove DEF Evaluate, PReady, Serving, outsideP, reqVars, runVars, chanVars
<1>4. CASE PendingCheckReload
  BY <1>4, NoMove DEF PendingCheckReload, PReady, Serving, outsideP, reqVars, runVars,
     chanVars
<1>5. CASE PendingUseRunner
  <2>1. /\ pending \in Reqs /\ ppc' = "recv" /\ rst' = [rst EXCEPT ![pending] = "granted"]
        /\ ppc \in Serving /\ UNCHANGED <<req, pendingReqCh, refMu>>
    BY <1>5, ServedRequest DEF PendingUseRunner, UseLoadedRunner, PReady, Serving,
       reqFixed, chanVars
  <2>2. QED
    BY <2>1, MoveOne DEF TypeInv, TypeOK, RequestTypeOK, OnePlace, Served, Waiting,
       Serving
<1>6. CASE RefreshGPUs \/ UpdateFreeSpace \/ FindSnapshot \/ FindScan
  BY <1>6, NoMove DEF RefreshGPUs, UpdateFreeSpace, FindSnapshot, FindScan, PReady,
     Serving, outsideP, reqVars, runVars, chanVars
<1>7. CASE ExpireToMakeRoom
  <2>1. \A r \in Reqs : refMu'[r] = "load" => refMu[r] = "load"
    BY <1>7, SendExpiredNoLoad DEF ExpireToMakeRoom, ExpireNow, PReady, TypeInv, TypeOK,
       Chosen
  <2>2. QED
    BY <1>7, <2>1, NoMove DEF ExpireToMakeRoom, PReady, Serving, reqVars
<1>8. CASE UnloadObserved \/ EvictSnapshot \/ EvictObserved \/ PendingLoopExit
  BY <1>8, NoMove DEF UnloadObserved, EvictSnapshot, EvictObserved, PendingLoopExit,
     PReady, Serving, outsideP, reqVars, runVars, chanVars
<1>9. CASE EvictNext
  <2>1. Head(visit) \in Reqs
    BY <1>9 DEF EvictNext, TypeInv, TypeOK, PendingTypeOK
  <2>2. \A r \in Reqs : refMu'[r] = "load" => refMu[r] = "load"
    BY <1>9, <2>1, SendExpiredNoLoad DEF EvictNext, ExpireNow, TypeInv, TypeOK
  <2>3. QED
    BY <1>9, <2>2, NoMove DEF EvictNext, PReady, Serving, reqVars
<1>10. CASE LoadStep
  BY <1>10, LoadStepOnePlace
<1>11. QED
  BY <1>1, <1>2, <1>3, <1>4, <1>5, <1>6, <1>7, <1>8, <1>9, <1>10 DEF ProcessPending

LEMMA ProcessCompletedOnePlace ==
  ASSUME TypeInv, ProcessCompleted
  PROVE  OnePlace'
<1>1. CASE ReceiveFinished
  <2>1. Head(finishedReqCh) \in Reqs /\ rst[Head(finishedReqCh)] \in {"finishing", "done"}
    BY <1>1 DEF ReceiveFinished, TypeInv, TypeOK, ChannelTypeOK, FinishedEvents
  <2>2. QED
    BY <1>1, <2>1, NoMove DEF ReceiveFinished, TypeInv, TypeOK, RequestTypeOK, reqFixed,
       runVars, pVars
<1>2. CASE FinishRequest
  <2>1. /\ crunner \in Reqs /\ finished \in Reqs
        /\ rst[finished] \in {"finishing", "done"}
    BY <1>2 DEF FinishRequest, CReady, TypeInv, Chosen, FinishedEvents
  <2>2. \A r \in Reqs : refMu'[r] = "load" => refMu[r] = "load"
    BY <1>2, <2>1, SendExpiredNoLoad DEF FinishRequest, TypeInv, TypeOK
  <2>3. QED
    BY <1>2, <2>1, <2>2, NoMove DEF FinishRequest, TypeInv, TypeOK, RequestTypeOK,
       reqFixed, pVars
<1>3. CASE ReceiveExpired \/ ExpiredInUse \/ SendUnloaded \/ CompletedLoopExit
  BY <1>3, NoMove DEF ReceiveExpired, ExpiredInUse, SendUnloaded, CompletedLoopExit,
     outsideC, reqVars, runVars, chanVars, pVars
<1>4. CASE ExpiredIdle
  BY <1>4, NoMove DEF ExpiredIdle, TypeInv, TypeOK, RunnerTypeOK, reqVars, chanVars, pVars
<1>5. CASE VRAMRecovered
  BY <1>5, NoMove DEF VRAMRecovered, TypeInv, TypeOK, RunnerTypeOK, outsideC, reqVars,
     chanVars, pVars
<1>6. QED
  BY <1>1, <1>2, <1>3, <1>4, <1>5 DEF ProcessCompleted

LEMMA ApiOnePlace ==
  ASSUME TypeInv, NEW a \in Apis, Api(a)
  PROVE  OnePlace'
<1>1. CASE ApiVisit(a)
  <2>1. Head(todo[a]) \in Reqs
    BY <1>1 DEF ApiVisit, TypeInv, TypeOK, ApiTypeOK
  <2>2. \A r \in Reqs : refMu'[r] = "load" => refMu[r] = "load"
    BY <1>1, <2>1, SendExpiredNoLoad DEF ApiVisit, ExpireNow, TypeInv, TypeOK
  <2>3. QED
    BY <1>1, <2>2, NoMove DEF ApiVisit, reqVars, pVars
<1>2. CASE ~ApiVisit(a)
  BY <1>2, NoMove DEF Api, ApiLookup, ApiRuntimeOOM, ApiReturn, ShutdownCancel,
     UnloadAllRunners, RunnerCrash, reqVars, runVars, chanVars, pVars
<1>3. QED
  BY <1>1, <1>2

LEMMA StepOnePlace ==
  ASSUME TypeInv, [Next]_vars
  PROVE  OnePlace'
<1>1. ASSUME UNCHANGED vars PROVE OnePlace'
  BY <1>1, NoMove DEF vars, reqVars, runVars, chanVars, pVars
<1>2. QED
  BY <1>1, HandlerOnePlace, RunnerStepOnePlace, ProcessPendingOnePlace,
     ProcessCompletedOnePlace, ApiOnePlace DEF Next, Finished
-----------------------------------------------------------------------------
(* Events are of requests that have ended, and runners are chosen before use *)

\* A step that touches neither the finished events nor a granted request.
LEMMA EventsKept ==
  ASSUME TypeInv, UNCHANGED <<finishedReqCh, cVars>>,
         \A r \in Reqs : rst[r] \in {"finishing", "done"} => rst'[r] = rst[r]
  PROVE  FinishedEvents'
<1>1. \A i \in 1 .. Len(finishedReqCh) : finishedReqCh[i] \in Reqs
  BY DEF TypeInv, TypeOK, ChannelTypeOK
<1>2. QED
  BY <1>1 DEF TypeInv, FinishedEvents, cVars

LEMMA StepFinishedEvents ==
  ASSUME TypeInv, Next
  PROVE  FinishedEvents'
<1> USE DEF reqFixed, reqVars, chanVars, outsideRun, outsideC, outsideP
<1>1. ASSUME NEW r \in Reqs, Handler(r), ~WatchFinished(r) PROVE FinishedEvents'
  <2>1. UNCHANGED <<finishedReqCh, cVars>>
    BY <1>1 DEF Handler, GetRunner, CheckReload, UseRunner, Enqueue, CtxDone
  <2>2. \/ rst' = rst
        \/ \E s \in {"check", "use", "enqueue", "queued", "granted", "failed"} :
             rst' = [rst EXCEPT ![r] = s] /\ rst[r] \notin {"finishing", "done"}
    BY <1>1 DEF Handler, GetRunner, CheckReload, UseRunner, UseLoadedRunner, Enqueue,
       Fail, CtxDone
  <2>3. QED
    BY <2>1, <2>2, EventsKept DEF TypeInv, TypeOK, RequestTypeOK
<1>2. ASSUME NEW r \in Reqs, WatchFinished(r) PROVE FinishedEvents'
  <2>1. /\ finishedReqCh \in Seq(Reqs) /\ finishedReqCh' = Append(finishedReqCh, r)
        /\ rst[r] = "granted" /\ rst' = [rst EXCEPT ![r] = "finishing"]
        /\ UNCHANGED cVars
    BY <1>2 DEF WatchFinished, TypeInv, TypeOK, ChannelTypeOK
  <2>2. /\ Len(finishedReqCh) \in Nat /\ Len(finishedReqCh') = Len(finishedReqCh) + 1
        /\ \A i \in 1 .. Len(finishedReqCh) :
             finishedReqCh'[i] = finishedReqCh[i] /\ finishedReqCh[i] \in Reqs
        /\ finishedReqCh'[Len(finishedReqCh) + 1] = r
    BY <2>1
  <2>3. QED
    BY <2>1, <2>2 DEF TypeInv, TypeOK, RequestTypeOK, FinishedEvents, cVars
<1>3. ASSUME NEW rn \in Reqs, RunnerStep(rn) PROVE FinishedEvents'
  <2>1. UNCHANGED <<finishedReqCh, cVars>>
    BY <1>3 DEF RunnerStep, WaitUntilRunning, WaitUntilRunningOk, WaitUntilRunningFailed,
       TimerFires, TimerCallback, ResendExpired, UnblockSender
  <2>2. \/ rst' = rst
        \/ /\ refMu[rn] = "load"
           /\ \E s \in {"granted", "failed"} : rst' = [rst EXCEPT ![rn] = s]
    BY <1>3 DEF RunnerStep, WaitUntilRunning, WaitUntilRunningOk, WaitUntilRunningFailed,
       Fail, TimerFires, TimerCallback, ResendExpired, UnblockSender
  <2>3. refMu[rn] = "load" => rst[rn] = "queued"
    BY DEF TypeInv, OnePlace, Waiting
  <2>4. QED
    BY <2>1, <2>2, <2>3, EventsKept DEF TypeInv, TypeOK, RequestTypeOK
<1>4. CASE ProcessPending
  <2>1. UNCHANGED <<finishedReqCh, cVars>>
    BY <1>4 DEF ProcessPending, Receive, IgnoreUnloaded, Evaluate, PendingCheckReload,
       PendingUseRunner, RefreshGPUs, UpdateFreeSpace, LoadStep, LoadNoServer,
       LoadPredictedTooBig, LoadStartServer, LoadRequiredFull, LoadFailed, LoadSucceeded,
       FindSnapshot, FindScan, ExpireToMakeRoom, UnloadObserved, EvictSnapshot, EvictNext,
       EvictObserved, PendingLoopExit
  <2>2. \/ rst' = rst
        \/ /\ ppc \in Serving
           /\ \E s \in {"granted", "failed"} : rst' = [rst EXCEPT ![pending] = s]
    BY <1>4 DEF ProcessPending, Receive, IgnoreUnloaded, Evaluate, PendingCheckReload,
       PendingUseRunner, UseLoadedRunner, RefreshGPUs, UpdateFreeSpace, LoadStep,
       LoadNoServer, LoadPredictedTooBig, LoadStartServer, LoadRequiredFull, LoadFailed,
       LoadSucceeded, FindSnapshot, FindScan, ExpireToMakeRoom, UnloadObserved,
       EvictSnapshot, EvictNext, EvictObserved, PendingLoopExit, Fail, PReady, Serving
  <2>3. ppc \in Serving => rst[pending] = "queued"
    BY DEF TypeInv, OnePlace, Served
  <2>4. QED
    BY <2>1, <2>2, <2>3, EventsKept DEF TypeInv, TypeOK, RequestTypeOK
<1>5. CASE ReceiveFinished
  <2>1. /\ finishedReqCh \in Seq(Reqs) /\ finishedReqCh # <<>>
        /\ finishedReqCh' = Tail(finishedReqCh)
    BY <1>5 DEF ReceiveFinished, TypeInv, TypeOK, ChannelTypeOK
  <2>2. /\ Len(finishedReqCh') = Len(finishedReqCh) - 1 /\ Len(finishedReqCh) \in Nat \ {0}
        /\ \A i \in 1 .. Len(finishedReqCh') :
             finishedReqCh'[i] = finishedReqCh[i + 1] /\ finishedReqCh[i + 1] \in Reqs
        /\ Head(finishedReqCh) = finishedReqCh[1] /\ finishedReqCh[1] \in Reqs
    BY <2>1
  <2>3. rst[Head(finishedReqCh)] \in {"finishing", "done"}
    BY <2>2 DEF TypeInv, FinishedEvents
  <2>4. \A r \in Reqs : rst[r] \in {"finishing", "done"} => rst'[r] \in {"finishing", "done"}
    BY <1>5 DEF ReceiveFinished, TypeInv, TypeOK, RequestTypeOK
  <2>5. cpc' = "finish" => finished' = Head(finishedReqCh) \/ (cpc = "finish" /\ finished' = finished)
    BY <1>5 DEF ReceiveFinished, cVars
  <2>6. QED
    BY <2>2, <2>3, <2>4, <2>5 DEF TypeInv, FinishedEvents
<1>6. CASE FinishRequest
  <2>1. /\ finished \in Reqs /\ cpc' = "recv" /\ rst' = [rst EXCEPT ![finished] = "done"]
        /\ UNCHANGED finishedReqCh
    BY <1>6 DEF FinishRequest, CReady, TypeInv, FinishedEvents
  <2>2. \A i \in 1 .. Len(finishedReqCh) : finishedReqCh[i] \in Reqs
    BY DEF TypeInv, TypeOK, ChannelTypeOK
  <2>3. QED
    BY <2>1, <2>2 DEF TypeInv, TypeOK, RequestTypeOK, FinishedEvents
<1>7. CASE ProcessCompleted /\ ~ReceiveFinished /\ ~FinishRequest
  <2>1. UNCHANGED <<rst, finishedReqCh>> /\ cpc' # "finish"
    BY <1>7 DEF ProcessCompleted, ReceiveExpired, ExpiredInUse, ExpiredIdle, VRAMRecovered,
       SendUnloaded, CompletedLoopExit
  <2>2. QED
    BY <2>1 DEF TypeInv, FinishedEvents
<1>8. ASSUME NEW a \in Apis, Api(a) PROVE FinishedEvents'
  BY <1>8, EventsKept DEF Api, ApiLookup, ApiRuntimeOOM, ApiVisit, ApiReturn,
     ShutdownCancel, UnloadAllRunners, RunnerCrash
<1>9. CASE Finished
  BY <1>9, EventsKept DEF Finished, vars
<1>10. QED
  BY <1>1, <1>2, <1>3, <1>4, <1>5, <1>6, <1>7, <1>8, <1>9 DEF Next

LEMMA StepChosen ==
  ASSUME TypeInv, Next
  PROVE  Chosen' /\ WaitPositive'
<1> USE DEF reqFixed, reqVars, outsideRun, outsideC, outsideP, pVars, cVars
<1>1. ASSUME NEW r \in Reqs, Handler(r) PROVE Chosen' /\ WaitPositive'
  <2>1. UNCHANGED <<ppc, runnerToExpire, waitFor, cpc, crunner>>
    BY <1>1 DEF Handler, GetRunner, CheckReload, UseRunner, Enqueue, CtxDone,
       WatchFinished
  <2>2. \A p \in Reqs : rst'[p] \in {"check", "use"} => seen'[p] \in Reqs
    <3>1. CASE \E q \in Requests : GetRunner(r, q)
      BY <3>1 DEF GetRunner, Requests, TypeInv, TypeOK, RequestTypeOK, MapTypeOK, Chosen
    <3>2. CASE CheckReload(r)
      BY <3>2 DEF CheckReload, TypeInv, TypeOK, RequestTypeOK, Chosen
    <3>3. CASE UseRunner(r)
      BY <3>3 DEF UseRunner, UseLoadedRunner, TypeInv, TypeOK, RequestTypeOK, Chosen
    <3>4. CASE Enqueue(r) \/ CtxDone(r) \/ WatchFinished(r)
      BY <3>4 DEF Enqueue, Fail, CtxDone, WatchFinished, TypeInv, TypeOK, RequestTypeOK,
         Chosen
    <3>5. QED
      BY <1>1, <3>1, <3>2, <3>3, <3>4 DEF Handler
  <2>3. QED
    BY <2>1, <2>2 DEF TypeInv, Chosen, WaitPositive
<1>2. ASSUME NEW rn \in Reqs, RunnerStep(rn) PROVE Chosen' /\ WaitPositive'
  <2>1. UNCHANGED <<ppc, runnerToExpire, waitFor, cpc, crunner>>
    BY <1>2 DEF RunnerStep, WaitUntilRunning, WaitUntilRunningOk, WaitUntilRunningFailed,
       TimerFires, TimerCallback, ResendExpired, UnblockSender
  <2>2. \/ UNCHANGED <<rst, seen>>
        \/ /\ \E s \in {"granted", "failed"} : rst' = [rst EXCEPT ![rn] = s]
           /\ seen' = seen \/ seen' = [seen EXCEPT ![rn] = rn]
    BY <1>2 DEF RunnerStep, WaitUntilRunning, WaitUntilRunningOk, WaitUntilRunningFailed,
       Fail, TimerFires, TimerCallback, ResendExpired, UnblockSender
  <2>3. QED
    BY <2>1, <2>2 DEF TypeInv, TypeOK, RequestTypeOK, Chosen, WaitPositive
<1>3. CASE ProcessPending
  <2>1. UNCHANGED <<cpc, crunner>>
    BY <1>3 DEF ProcessPending, Receive, IgnoreUnloaded, Evaluate, PendingCheckReload,
       PendingUseRunner, RefreshGPUs, UpdateFreeSpace, LoadStep, LoadNoServer,
       LoadPredictedTooBig, LoadStartServer, LoadRequiredFull, LoadFailed, LoadSucceeded,
       FindSnapshot, FindScan, ExpireToMakeRoom, UnloadObserved, EvictSnapshot, EvictNext,
       EvictObserved, PendingLoopExit
  <2>2. \/ UNCHANGED <<rst, seen>>
        \/ /\ \E s \in {"granted", "failed"} : rst' = [rst EXCEPT ![pending] = s]
           /\ seen' = seen \/ seen' = [seen EXCEPT ![pending] = runnerToExpire]
    BY <1>3 DEF ProcessPending, Receive, IgnoreUnloaded, Evaluate, PendingCheckReload,
       PendingUseRunner, UseLoadedRunner, RefreshGPUs, UpdateFreeSpace, LoadStep,
       LoadNoServer, LoadPredictedTooBig, LoadStartServer, LoadRequiredFull, LoadFailed,
       LoadSucceeded, FindSnapshot, FindScan, ExpireToMakeRoom, UnloadObserved,
       EvictSnapshot, EvictNext, EvictObserved, PendingLoopExit, Fail
  <2>3. ppc' \in {"check", "use", "scan", "expire"} => runnerToExpire' \in Reqs
    <3>1. CASE Evaluate
      BY <3>1, ServedRequest DEF Evaluate, PReady, Serving
    <3>2. CASE FindSnapshot
      <4>1. CASE LoadedRunners = {}
        BY <3>2, <4>1 DEF FindSnapshot
      <4>2. CASE LoadedRunners # {}
        <5>1. /\ visit' \in Orders(LoadedRunners) /\ runnerToExpire' = visit'[1]
          BY <3>2, <4>2 DEF FindSnapshot, SortedOrders
        <5>2. LoadedRunners \subseteq Reqs /\ Cardinality(LoadedRunners) \in Nat \ {0}
          BY <4>2, LoadedRunnersType, OrdersType DEF TypeInv, TypeOK
        <5>3. QED
          BY <5>1, <5>2 DEF Orders
      <4>3. QED
        BY <4>1, <4>2
    <3>3. CASE FindScan
      <4>1. visit # <<>> => Head(visit) \in Reqs
        BY DEF TypeInv, TypeOK, PendingTypeOK
      <4>2. QED
        BY <3>3, <4>1 DEF FindScan, PReady, TypeInv, Chosen
    <3>4. CASE PendingCheckReload
      BY <3>4 DEF PendingCheckReload, pLocals, PReady, TypeInv, Chosen
    <3>5. CASE ~Evaluate /\ ~FindSnapshot /\ ~FindScan /\ ~PendingCheckReload
      <4>1. ppc' \notin {"check", "use", "scan", "expire"}
        BY <1>3, <3>5 DEF ProcessPending, Receive, IgnoreUnloaded, PendingUseRunner,
           RefreshGPUs, UpdateFreeSpace, LoadStep, LoadNoServer, LoadPredictedTooBig,
           LoadStartServer, LoadRequiredFull, LoadFailed, LoadSucceeded, ExpireToMakeRoom,
           UnloadObserved, EvictSnapshot, EvictNext, EvictObserved, PendingLoopExit,
           AfterRetry, PReady
      <4>2. QED
        BY <4>1
    <3>6. QED
      BY <3>1, <3>2, <3>3, <3>4, <3>5
  <2>4. ppc' = "evicting" => waitFor' > 0
    <3>1. CASE EvictSnapshot
      <4>1. LoadedRunners \ {loaded[Key(pending)]} \subseteq Reqs
        BY LoadedRunnersType DEF TypeInv, TypeOK
      <4>2. QED
        BY <3>1, <4>1, OrdersType DEF EvictSnapshot
    <3>2. CASE EvictNext
      BY <3>2 DEF EvictNext, PReady, TypeInv, WaitPositive
    <3>3. CASE EvictObserved
      BY <3>3 DEF EvictObserved, PReady, TypeInv, TypeOK, PendingTypeOK, WaitPositive
    <3>4. CASE ~EvictSnapshot /\ ~EvictNext /\ ~EvictObserved
      <4>1. ppc' # "evicting"
        BY <1>3, <3>4 DEF ProcessPending, Receive, IgnoreUnloaded, Evaluate,
           PendingCheckReload, PendingUseRunner, RefreshGPUs, UpdateFreeSpace, LoadStep,
           LoadNoServer, LoadPredictedTooBig, LoadStartServer, LoadRequiredFull,
           LoadFailed, LoadSucceeded, FindSnapshot, FindScan, ExpireToMakeRoom,
           UnloadObserved, PendingLoopExit, AfterRetry, PReady
      <4>2. QED
        BY <4>1
    <3>5. QED
      BY <3>1, <3>2, <3>3, <3>4
  <2>5. \A r \in Reqs : rst'[r] \in {"check", "use"} => seen'[r] \in Reqs
    BY <2>2 DEF TypeInv, TypeOK, RequestTypeOK, Chosen
  <2>6. QED
    BY <2>1, <2>3, <2>4, <2>5 DEF TypeInv, Chosen, WaitPositive
<1>4. CASE ProcessCompleted
  <2>1. UNCHANGED <<seen, ppc, runnerToExpire, waitFor>>
    BY <1>4 DEF ProcessCompleted, ReceiveFinished, FinishRequest, ReceiveExpired,
       ExpiredInUse, ExpiredIdle, VRAMRecovered, SendUnloaded, CompletedLoopExit
  <2>2. rst' = rst \/ \E r \in Reqs \cup {None} : rst' = [rst EXCEPT ![r] = "done"]
    <3>1. finishedReqCh # <<>> => Head(finishedReqCh) \in Reqs
      BY DEF TypeInv, TypeOK, ChannelTypeOK
    <3>2. QED
      BY <1>4, <3>1 DEF ProcessCompleted, ReceiveFinished, FinishRequest, ReceiveExpired,
         ExpiredInUse, ExpiredIdle, VRAMRecovered, SendUnloaded, CompletedLoopExit,
         TypeInv, TypeOK, CompletedTypeOK
  <2>3. \A r \in Reqs : rst'[r] \in {"check", "use"} => rst[r] = rst'[r]
    BY <2>2 DEF TypeInv, TypeOK, RequestTypeOK
  <2>4. cpc' \in {"finish", "expire", "vram"} => crunner' \in Reqs
    <3>1. CASE ReceiveFinished
      <4>1. finishedReqCh # <<>> /\ Head(finishedReqCh) \in Reqs
        BY <3>1 DEF ReceiveFinished, TypeInv, TypeOK, ChannelTypeOK
      <4>2. req[Head(finishedReqCh)] \in Requests
        BY <4>1 DEF TypeInv, TypeOK, ChannelTypeOK, OnePlace, FilledIn, FinishedEvents
      <4>3. loaded[Key(Head(finishedReqCh))] \in Reqs \cup {None}
        BY <4>2 DEF TypeInv, TypeOK, MapTypeOK, Key, Requests
      <4>4. QED
        BY <3>1, <4>3 DEF ReceiveFinished, CReady
    <3>2. CASE ReceiveExpired
      BY <3>2 DEF ReceiveExpired, TypeInv, TypeOK, ChannelTypeOK
    <3>3. CASE ExpiredIdle
      BY <3>3 DEF ExpiredIdle, CReady, TypeInv, Chosen
    <3>4. CASE FinishRequest \/ ExpiredInUse \/ VRAMRecovered \/ SendUnloaded \/ CompletedLoopExit
      BY <3>4 DEF FinishRequest, ExpiredInUse, VRAMRecovered, SendUnloaded,
         CompletedLoopExit
    <3>5. QED
      BY <1>4, <3>1, <3>2, <3>3, <3>4 DEF ProcessCompleted
  <2>5. QED
    BY <2>1, <2>3, <2>4 DEF TypeInv, Chosen, WaitPositive
<1>5. ASSUME NEW a \in Apis, Api(a) PROVE Chosen' /\ WaitPositive'
  BY <1>5 DEF Api, ApiLookup, ApiRuntimeOOM, ApiVisit, ApiReturn, ShutdownCancel,
     UnloadAllRunners, RunnerCrash, TypeInv, Chosen, WaitPositive
<1>6. CASE Finished
  BY <1>6 DEF Finished, vars, TypeInv, Chosen, WaitPositive
<1>7. QED
  BY <1>1, <1>2, <1>3, <1>4, <1>5, <1>6 DEF Next

LEMMA TypeInvariant == Spec => []TypeInv
<1>1. Init => TypeInv
  BY InitType
<1>2. TypeInv /\ [Next]_vars => TypeInv'
  <2> SUFFICES ASSUME TypeInv, [Next]_vars PROVE TypeInv'
    OBVIOUS
  <2>1. CASE Next
    <3>1. TypeOK'
      <4>1. CASE Finished
        BY <4>1, FrameType DEF Finished, vars, TypeInv, TypeOK
      <4>2. QED
        BY <2>1, <4>1, HandlerType, RunnerStepType, ProcessPendingType,
           ProcessCompletedType, ApiType DEF Next
    <3>2. QED
      BY <2>1, <3>1, StepOnePlace, StepFinishedEvents, StepChosen DEF TypeInv
  <2>2. CASE UNCHANGED vars
    <3>1. TypeOK'
      BY <2>2, FrameType DEF vars, TypeInv, TypeOK
    <3>2. FinishedEvents'
      BY <2>2, EventsKept DEF vars, reqVars, chanVars
    <3>3. Chosen' /\ WaitPositive'
      BY <2>2 DEF vars, reqVars, pVars, cVars, TypeInv, Chosen, WaitPositive
    <3>4. QED
      BY <3>1, <3>2, <3>3, StepOnePlace DEF TypeInv
  <2>3. QED
    BY <2>1, <2>2
<1>3. QED
  BY <1>1, <1>2, PTL DEF Spec

\* Every variable keeps its type in every behaviour: refCount, a uint in the
\* code, stays in its range, and no nil runner is ever sent to expiredCh,
\* visited or put into the loaded map.
THEOREM TypeCorrect == Spec => []TypeOK
<1>1. TypeInv => TypeOK
  BY DEF TypeInv
<1>2. QED
  BY <1>1, TypeInvariant, PTL
-----------------------------------------------------------------------------
(* A request is answered once *)

Answered == {"granted", "finishing", "done", "failed"}

\* A step that answers nobody, and one that answers p, which waits for it.
LEMMA NoAnswer ==
  ASSUME OneReply, UNCHANGED replies,
         \A r \in Reqs : rst'[r] \in Answered <=> rst[r] \in Answered
  PROVE  OneReply'
  BY DEF OneReply, Answered

LEMMA AnswerOne ==
  ASSUME TypeInv, OneReply, NEW p \in Reqs, rst[p] \notin Answered,
         NEW s \in Answered, rst' = [rst EXCEPT ![p] = s],
         replies' = [replies EXCEPT ![p] = @ + 1]
  PROVE  OneReply'
  BY DEF TypeInv, TypeOK, RequestTypeOK, OneReply, Answered

LEMMA StepOneReply ==
  ASSUME TypeInv, OneReply, Next
  PROVE  OneReply'
<1> USE DEF reqFixed, reqVars, outsideRun, outsideC, outsideP
<1>1. ASSUME NEW r \in Reqs, Handler(r) PROVE OneReply'
  <2>1. CASE UseRunner(r)
    BY <2>1, AnswerOne DEF UseRunner, UseLoadedRunner, Answered
  <2>2. CASE Enqueue(r)
    <3>1. CASE Len(pendingReqCh) < MaxQueue
      BY <2>2, <3>1, NoAnswer DEF Enqueue, TypeInv, TypeOK, RequestTypeOK, Answered
    <3>2. CASE ~(Len(pendingReqCh) < MaxQueue)
      BY <2>2, <3>2, AnswerOne DEF Enqueue, Fail, Answered
    <3>3. QED
      BY <3>1, <3>2
  <2>3. CASE ~UseRunner(r) /\ ~Enqueue(r)
    BY <1>1, <2>3, NoAnswer DEF Handler, GetRunner, CheckReload, CtxDone, WatchFinished,
       TypeInv, TypeOK, RequestTypeOK, Answered
  <2>4. QED
    BY <2>1, <2>2, <2>3
<1>2. ASSUME NEW rn \in Reqs, RunnerStep(rn) PROVE OneReply'
  <2>1. CASE WaitUntilRunning(rn)
    <3>1. /\ rst[rn] = "queued" /\ replies' = [replies EXCEPT ![rn] = @ + 1]
          /\ \E s \in {"granted", "failed"} : rst' = [rst EXCEPT ![rn] = s]
      BY <2>1 DEF WaitUntilRunning, WaitUntilRunningOk, WaitUntilRunningFailed, Fail,
         TypeInv, OnePlace, Waiting
    <3>2. QED
      BY <3>1, AnswerOne DEF Answered
  <2>2. CASE ~WaitUntilRunning(rn)
    BY <1>2, <2>2, NoAnswer DEF RunnerStep, TimerFires, TimerCallback, ResendExpired,
       UnblockSender
  <2>3. QED
    BY <2>1, <2>2
<1>3. CASE ProcessPending
  <2>1. \/ UNCHANGED <<rst, replies>>
        \/ /\ ppc \in Serving /\ replies' = [replies EXCEPT ![pending] = @ + 1]
           /\ \E s \in {"granted", "failed"} : rst' = [rst EXCEPT ![pending] = s]
    BY <1>3 DEF ProcessPending, Receive, IgnoreUnloaded, Evaluate, PendingCheckReload,
       PendingUseRunner, UseLoadedRunner, RefreshGPUs, UpdateFreeSpace, LoadStep,
       LoadNoServer, LoadPredictedTooBig, LoadStartServer, LoadRequiredFull, LoadFailed,
       LoadSucceeded, FindSnapshot, FindScan, ExpireToMakeRoom, UnloadObserved,
       EvictSnapshot, EvictNext, EvictObserved, PendingLoopExit, Fail, PReady, Serving
  <2>2. ppc \in Serving => pending \in Reqs /\ rst[pending] = "queued"
    BY DEF TypeInv, OnePlace, Served
  <2>3. QED
    BY <2>1, <2>2, NoAnswer, AnswerOne DEF Answered
<1>4. CASE ProcessCompleted
  <2>1. UNCHANGED replies
    BY <1>4 DEF ProcessCompleted, ReceiveFinished, FinishRequest, ReceiveExpired,
       ExpiredInUse, ExpiredIdle, VRAMRecovered, SendUnloaded, CompletedLoopExit
  <2>2. \/ rst' = rst
        \/ \E r \in Reqs : rst[r] \in {"finishing", "done"} /\ rst' = [rst EXCEPT ![r] = "done"]
    <3>1. finishedReqCh # <<>> =>
            /\ Head(finishedReqCh) \in Reqs
            /\ rst[Head(finishedReqCh)] \in {"finishing", "done"}
      BY DEF TypeInv, TypeOK, ChannelTypeOK, FinishedEvents
    <3>2. QED
      BY <1>4, <3>1 DEF ProcessCompleted, ReceiveFinished, FinishRequest, CReady,
         ReceiveExpired, ExpiredInUse, ExpiredIdle, VRAMRecovered, SendUnloaded,
         CompletedLoopExit, TypeInv, FinishedEvents
  <2>3. QED
    BY <2>1, <2>2, NoAnswer DEF TypeInv, TypeOK, RequestTypeOK, Answered
<1>5. ASSUME NEW a \in Apis, Api(a) PROVE OneReply'
  BY <1>5, NoAnswer DEF Api, ApiLookup, ApiRuntimeOOM, ApiVisit, ApiReturn,
     ShutdownCancel, UnloadAllRunners, RunnerCrash
<1>6. CASE Finished
  BY <1>6, NoAnswer DEF Finished, vars
<1>7. QED
  BY <1>1, <1>2, <1>3, <1>4, <1>5, <1>6 DEF Next

\* getRunner, processPending and the goroutine of load send one message in all
\* on successCh and errCh, however many requests, retries and management calls
\* there are: none of them ever blocks on these channels of room one.
THEOREM AnsweredOnce == Spec => []OneReply
<1>1. Init => OneReply
  BY DEF Init, OneReply
<1>2. TypeInv /\ OneReply /\ [Next]_vars => OneReply'
  <2>1. TypeInv /\ OneReply /\ Next => OneReply'
    BY StepOneReply
  <2>2. OneReply /\ UNCHANGED vars => OneReply'
    BY NoAnswer DEF vars, reqVars
  <2>3. QED
    BY <2>1, <2>2
<1>3. QED
  BY <1>1, <1>2, TypeInvariant, PTL DEF Spec
-----------------------------------------------------------------------------
(* A load finds the room it was promised *)

LEMMA LoadedKeysFinite ==
  ASSUME NEW S, S \subseteq Models
  PROVE  IsFiniteSet(S) /\ Cardinality(S) \in Nat
  BY ConstantAssumption, FS_Subset, FS_CardinalityType

\* Only processPending loads: with the map no larger, and its request unchanged,
\* the room stays.
LEMMA RoomKept ==
  ASSUME RoomForLoad, TypeInv, UNCHANGED <<ppc, pending>>,
         req'[pending] = req[pending] \/ ppc \notin Serving,
         loaded' = loaded \/ \E k \in Models : loaded' = [loaded EXCEPT ![k] = None]
  PROVE  RoomForLoad' /\ (LoadedBound => LoadedBound')
<1>1. LoadedKeys' \subseteq LoadedKeys
  BY DEF LoadedKeys, TypeInv, TypeOK, MapTypeOK
<1>2. Cardinality(LoadedKeys') <= Cardinality(LoadedKeys)
  <2>1. IsFiniteSet(LoadedKeys)
    BY LoadedKeysFinite DEF LoadedKeys
  <2>2. QED
    BY <1>1, <2>1, FS_Subset
<1>3. Cardinality(LoadedKeys) \in Nat /\ Cardinality(LoadedKeys') \in Nat
  BY LoadedKeysFinite DEF LoadedKeys
<1>4. LoadedBound => LoadedBound'
  BY <1>2, <1>3, ConstantAssumption DEF LoadedBound
<1>5. RoomForLoad'
  <2> SUFFICES ASSUME ppc \in {"refresh", "free", "load", "loading"}
               PROVE  loaded'[Key(pending)'] = None /\ Cardinality(LoadedKeys') < MaxRunners
    BY DEF RoomForLoad
  <2>1. ppc \in Serving
    BY DEF Serving
  <2>2. Key(pending)' = Key(pending) /\ Key(pending) \in Models
    BY <2>1, ServedRequest DEF Key
  <2>3. loaded'[Key(pending)] = None
    BY <2>2 DEF RoomForLoad, TypeInv, TypeOK, MapTypeOK
  <2>4. QED
    BY <1>2, <1>3, <2>2, <2>3, ConstantAssumption DEF RoomForLoad
<1>6. QED
  BY <1>4, <1>5

LEMMA StepRoom ==
  ASSUME TypeInv, RoomForLoad, LoadedBound, Next
  PROVE  RoomForLoad' /\ LoadedBound'
<1> USE DEF reqFixed, reqVars, mapVars, pVars, outsideRun, outsideC, outsideP
<1>1. ASSUME NEW r \in Reqs, Handler(r) PROVE RoomForLoad' /\ LoadedBound'
  <2>1. UNCHANGED <<ppc, pending, loaded>>
    BY <1>1 DEF Handler, GetRunner, CheckReload, UseRunner, Enqueue, CtxDone, WatchFinished
  <2>2. req' = req \/ (rst[r] = "new" /\ \E q \in Requests : req' = [req EXCEPT ![r] = q])
    BY <1>1 DEF Handler, GetRunner, CheckReload, UseRunner, UseLoadedRunner, Enqueue,
       CtxDone, WatchFinished
  <2>3. req'[pending] = req[pending] \/ ppc \notin Serving
    BY <2>2 DEF TypeInv, TypeOK, RequestTypeOK, OnePlace, Served
  <2>4. QED
    BY <2>1, <2>3, RoomKept
<1>2. ASSUME NEW rn \in Reqs, RunnerStep(rn) PROVE RoomForLoad' /\ LoadedBound'
  BY <1>2, RoomKept DEF RunnerStep, WaitUntilRunning, WaitUntilRunningOk,
     WaitUntilRunningFailed, TimerFires, TimerCallback, ResendExpired, UnblockSender
<1>3. CASE ProcessPending
  <2>1. CASE LoadSucceeded
    <3>1. /\ ppc = "loading" /\ ppc' = "recv"
          /\ loaded' = [loaded EXCEPT ![Key(pending)] = pending]
      BY <2>1 DEF LoadSucceeded, PReady
    <3>2. LoadedKeys' \subseteq LoadedKeys \cup {Key(pending)}
      BY <3>1 DEF LoadedKeys, TypeInv, TypeOK, MapTypeOK
    <3>3. IsFiniteSet(LoadedKeys)
      BY LoadedKeysFinite DEF LoadedKeys
    <3>4. /\ IsFiniteSet(LoadedKeys \cup {Key(pending)})
          /\ Cardinality(LoadedKeys \cup {Key(pending)}) <= Cardinality(LoadedKeys) + 1
      <4>1. Cardinality(LoadedKeys) \in Nat
        BY <3>3, FS_CardinalityType
      <4>2. /\ IsFiniteSet(LoadedKeys \cup {Key(pending)})
            /\ Cardinality(LoadedKeys \cup {Key(pending)}) =
                 IF Key(pending) \in LoadedKeys THEN Cardinality(LoadedKeys)
                 ELSE Cardinality(LoadedKeys) + 1
        BY <3>3, FS_AddElement
      <4>3. QED
        BY <4>1, <4>2
    <3>5. Cardinality(LoadedKeys') <= Cardinality(LoadedKeys) + 1
      BY <3>2, <3>3, <3>4, FS_Subset, FS_CardinalityType
    <3>6. Cardinality(LoadedKeys) < MaxRunners
      BY <3>1 DEF RoomForLoad
    <3>7. Cardinality(LoadedKeys) \in Nat /\ Cardinality(LoadedKeys') \in Nat
      BY LoadedKeysFinite DEF LoadedKeys
    <3>8. QED
      BY <3>1, <3>5, <3>6, <3>7, ConstantAssumption DEF RoomForLoad, LoadedBound
  <2>2. CASE ~LoadSucceeded
    <3>1. loaded' = loaded /\ req' = req
      BY <1>3, <2>2 DEF ProcessPending, Receive, IgnoreUnloaded, Evaluate,
         PendingCheckReload, PendingUseRunner, UseLoadedRunner, RefreshGPUs,
         UpdateFreeSpace, LoadStep, LoadNoServer, LoadPredictedTooBig, LoadStartServer,
         LoadRequiredFull, LoadFailed, FindSnapshot, FindScan, ExpireToMakeRoom,
         UnloadObserved, EvictSnapshot, EvictNext, EvictObserved, PendingLoopExit
    <3>2. LoadedKeys' = LoadedKeys
      BY <3>1 DEF LoadedKeys
    <3>3. LoadedBound'
      BY <3>2 DEF LoadedBound
    <3>4. CASE Evaluate
      <4>1. ppc' = "refresh" => loaded[Key(pending)] = None /\ ~AtRunnerLimit
        BY <3>4 DEF Evaluate
      <4>2. ppc' \notin {"free", "load", "loading"} /\ pending' = pending
        BY <3>4 DEF Evaluate
      <4>3. Cardinality(LoadedKeys) \in Nat
        BY LoadedKeysFinite DEF LoadedKeys
      <4>4. ~AtRunnerLimit => Cardinality(LoadedKeys) < MaxRunners
        BY <4>3, ConstantAssumption DEF AtRunnerLimit
      <4>5. QED
        BY <3>1, <3>2, <3>3, <4>1, <4>2, <4>4 DEF RoomForLoad, Key
    <3>5. CASE ~Evaluate
      <4>1. \/ ppc' \notin {"refresh", "free", "load", "loading"}
            \/ ppc \in {"refresh", "free", "load", "loading"} /\ pending' = pending
        BY <1>3, <2>2, <3>5 DEF ProcessPending, Receive, IgnoreUnloaded,
           PendingCheckReload, PendingUseRunner, RefreshGPUs, UpdateFreeSpace, LoadStep,
           LoadNoServer, LoadPredictedTooBig, LoadStartServer, LoadRequiredFull,
           LoadFailed, FindSnapshot, FindScan, ExpireToMakeRoom, UnloadObserved,
           EvictSnapshot, EvictNext, EvictObserved, PendingLoopExit, AfterRetry, PReady
      <4>2. QED
        BY <3>1, <3>2, <3>3, <4>1 DEF RoomForLoad, Key
    <3>6. QED
      BY <3>4, <3>5
  <2>3. QED
    BY <2>1, <2>2
<1>4. CASE ProcessCompleted
  <2>1. UNCHANGED <<req, ppc, pending>>
    BY <1>4 DEF ProcessCompleted, ReceiveFinished, FinishRequest, ReceiveExpired,
       ExpiredInUse, ExpiredIdle, VRAMRecovered, SendUnloaded, CompletedLoopExit
  <2>2. loaded' = loaded \/ loaded' = [loaded EXCEPT ![Key(crunner)] = None]
    BY <1>4 DEF ProcessCompleted, ReceiveFinished, FinishRequest, ReceiveExpired,
       ExpiredInUse, ExpiredIdle, VRAMRecovered, SendUnloaded, CompletedLoopExit
  <2>3. loaded' = loaded \/ \E k \in Models : loaded' = [loaded EXCEPT ![k] = None]
    BY <2>2 DEF TypeInv, TypeOK, MapTypeOK
  <2>4. QED
    BY <2>1, <2>3, RoomKept
<1>5. ASSUME NEW a \in Apis, Api(a) PROVE RoomForLoad' /\ LoadedBound'
  BY <1>5, RoomKept DEF Api, ApiLookup, ApiRuntimeOOM, ApiVisit, ApiReturn,
     ShutdownCancel, UnloadAllRunners, RunnerCrash
<1>6. CASE Finished
  BY <1>6, RoomKept DEF Finished, vars
<1>7. QED
  BY <1>1, <1>2, <1>3, <1>4, <1>5, <1>6 DEF Next

LEMMA RoomInvariant == Spec => [](RoomForLoad /\ LoadedBound)
<1>1. Init => RoomForLoad /\ LoadedBound
  <2> SUFFICES ASSUME Init PROVE RoomForLoad /\ LoadedBound
    OBVIOUS
  <2>1. LoadedKeys = {}
    BY DEF Init, LoadedKeys
  <2>2. QED
    BY <2>1, FS_EmptySet, ConstantAssumption DEF Init, RoomForLoad, LoadedBound
<1>2. TypeInv /\ RoomForLoad /\ LoadedBound /\ [Next]_vars => (RoomForLoad /\ LoadedBound)'
  <2>1. TypeInv /\ RoomForLoad /\ LoadedBound /\ Next => (RoomForLoad /\ LoadedBound)'
    BY StepRoom
  <2>2. TypeInv /\ RoomForLoad /\ LoadedBound /\ UNCHANGED vars => (RoomForLoad /\ LoadedBound)'
    BY RoomKept DEF vars, reqVars, mapVars, pVars
  <2>3. QED
    BY <2>1, <2>2
<1>3. QED
  BY <1>1, <1>2, TypeInvariant, PTL DEF Spec

\* However expirations interleave with the two critical sections of loadedMu,
\* no more than maxRunners models are ever loaded.
THEOREM NeverAboveLimit == Spec => []LoadedBound
  BY RoomInvariant, PTL

\* The safeguard at the end of load, which unloads a runner found under the key
\* that was just loaded, never has anything to do.
THEOREM SafeguardIdle == Spec => []NoDoubleLoad
<1>1. RoomForLoad => NoDoubleLoad
  BY DEF RoomForLoad, NoDoubleLoad
<1>2. QED
  BY <1>1, RoomInvariant, PTL
=============================================================================
