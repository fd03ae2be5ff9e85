------------------------ MODULE SchedulerRefs_proofs ------------------------
(***************************************************************************)
(* The runners of Scheduler, for every value of its constants: their       *)
(* reference counts, their processes, and what looks after an idle one.    *)
(*                                                                         *)
(* A finished event carries the key of a model and not a runner.  That it  *)
(* reaches the runner its request was given rests on this: a runner in use *)
(* is the one loaded under its key, because only processCompleted takes    *)
(* runners out of the map and only when their count is zero.               *)
(*                                                                         *)
(* The processes rest on Active: a server in activeLoading is that of the  *)
(* request processPending serves.  The absence of panics adds that a       *)
(* request is received once, and the idle runners that no event concerns   *)
(* a runner that was never published.                                      *)
(***************************************************************************)
EXTENDS Scheduler_proofs

InService == {"loading", "running"}

\* The loaded map and the states of the runners agree.
Published ==
  /\ \A rn \in Reqs : rstate[rn] \in InService => rst[rn] # "new" /\ loaded[Key(rn)] = rn
  /\ \A m \in Models : loaded[m] # None =>
       rstate[loaded[m]] \in InService /\ Key(loaded[m]) = m
  /\ \A rn \in Reqs : refMu[rn] = "load" => rstate[rn] = "loading"

\* rn was once published under the key of r.
PublishedFor(rn, r) ==
  rn \in Reqs /\ rst[rn] # "new" /\ rstate[rn] # "none" /\ Key(rn) = Key(r)

\* What the handlers and processPending looked up under a key belongs to it.
LookedUp ==
  /\ \A r \in Reqs : rst[r] \in {"check", "use"} => PublishedFor(seen[r], r)
  /\ ppc \in {"check", "use"} => PublishedFor(runnerToExpire, pending)

\* The requests in q are finishing, and each lies there once.
Once(q, state) ==
  /\ \A i \in 1 .. Len(q) : state[q[i]] = "finishing"
  /\ \A i, j \in 1 .. Len(q) : i # j => q[i] # q[j]

\* A request that has ended is in one place: in finishedReqCh, once, or with
\* processCompleted.
EndedOnce ==
  /\ Once(finishedReqCh, rst)
  /\ cpc = "finish" =>
       /\ finished \in Reqs /\ rst[finished] = "finishing"
       /\ \A i \in 1 .. Len(finishedReqCh) : finishedReqCh[i] # finished

\* A runner in use is in service, under the key of the request that uses it,
\* and processCompleted drops the reference of the right one.
UsersServed ==
  /\ \A r \in Reqs : rst[r] \in {"granted", "finishing"} =>
       PublishedFor(seen[r], r) /\ rstate[seen[r]] \in InService
  /\ cpc = "finish" => crunner = seen[finished]

Counted == \A rn \in Reqs : refCount[rn] = Cardinality(Users(rn))

RefInv == /\ Published /\ LookedUp /\ EndedOnce
          /\ ~stale => UsersServed /\ Counted
-----------------------------------------------------------------------------
(* What every step keeps *)

\* A request that has been filled in stays so, and keeps its key.
LEMMA KeyStable ==
  ASSUME TypeInv, Next
  PROVE  \A r \in Reqs : rst[r] # "new" => rst'[r] # "new" /\ req'[r] = req[r]
<1> USE DEF reqFixed, reqVars, outsideRun, outsideC, outsideP, TypeInv, TypeOK, RequestTypeOK
<1>1. ASSUME NEW r \in Reqs, Handler(r)
      PROVE  \A p \in Reqs : rst[p] # "new" => rst'[p] # "new" /\ req'[p] = req[p]
  <2>1. CASE \E q \in Requests : GetRunner(r, q)
    BY <2>1 DEF GetRunner
  <2>2. CASE ~ \E q \in Requests : GetRunner(r, q)
    BY <1>1, <2>2 DEF Handler, CheckReload, UseRunner, UseLoadedRunner, Enqueue, Fail,
       CtxDone, WatchFinished
  <2>3. QED
    BY <2>1, <2>2
<1>2. ASSUME NEW rn \in Reqs, RunnerStep(rn)
      PROVE  \A p \in Reqs : rst[p] # "new" => rst'[p] # "new" /\ req'[p] = req[p]
  BY <1>2 DEF RunnerStep, WaitUntilRunning, WaitUntilRunningOk, WaitUntilRunningFailed,
     Fail, TimerFires, TimerCallback, ResendExpired, UnblockSender
<1>3. CASE ProcessPending
  <2>1. /\ req' = req
        /\ \/ rst' = rst
           \/ \E s \in {"granted", "failed"} : rst' = [rst EXCEPT ![pending] = s]
    BY <1>3 DEF ProcessPending, Receive, IgnoreUnloaded, Evaluate, PendingCheckReload,
       PendingUseRunner, UseLoadedRunner, RefreshGPUs, UpdateFreeSpace, LoadStep,
       LoadNoServer, LoadPredictedTooBig, LoadStartServer, LoadRequiredFull, LoadFailed,
       LoadSucceeded, FindSnapshot, FindScan, ExpireToMakeRoom, UnloadObserved,
       EvictSnapshot, EvictNext, EvictObserved, PendingLoopExit, Fail
  <2>2. QED
    BY <2>1 DEF Key
<1>4. CASE ProcessCompleted
  BY <1>4 DEF ProcessCompleted, ReceiveFinished, FinishRequest, ReceiveExpired,
     ExpiredInUse, ExpiredIdle, VRAMRecovered, SendUnloaded, CompletedLoopExit, Key
<1>5. ASSUME NEW a \in Apis, Api(a) PROVE UNCHANGED <<req, rst>>
  BY <1>5 DEF Api, ApiLookup, ApiRuntimeOOM, ApiVisit, ApiReturn, ShutdownCancel,
     UnloadAllRunners, RunnerCrash
<1>6. CASE Finished
  BY <1>6 DEF Finished, vars, Key
<1>7. QED
  BY <1>1, <1>2, <1>3, <1>4, <1>5, <1>6 DEF Next, Key

\* Runners change state, and the map changes, in three actions.
LEMMA RunnersKept ==
  ASSUME TypeInv, Next, ~LoadSucceeded, ~ExpiredIdle,
         ~ \E rn \in Reqs : WaitUntilRunningOk(rn)
  PROVE  UNCHANGED <<rstate, loaded>>
<1> USE DEF runVars, mapVars, outsideRun, outsideC, outsideP
<1>1. ASSUME NEW r \in Reqs, Handler(r) PROVE UNCHANGED <<rstate, loaded>>
  BY <1>1 DEF Handler, GetRunner, CheckReload, UseRunner, UseLoadedRunner, Enqueue,
     CtxDone, WatchFinished
<1>2. ASSUME NEW rn \in Reqs, RunnerStep(rn) PROVE UNCHANGED <<rstate, loaded>>
  BY <1>2 DEF RunnerStep, WaitUntilRunning, WaitUntilRunningFailed, TimerFires,
     TimerCallback, ResendExpired, UnblockSender
<1>3. CASE ProcessPending
  BY <1>3 DEF ProcessPending, Receive, IgnoreUnloaded, Evaluate, PendingCheckReload,
     PendingUseRunner, UseLoadedRunner, RefreshGPUs, UpdateFreeSpace, LoadStep,
     LoadNoServer, LoadPredictedTooBig, LoadStartServer, LoadRequiredFull, LoadFailed,
     FindSnapshot, FindScan, ExpireToMakeRoom, UnloadObserved, EvictSnapshot, EvictNext,
     EvictObserved, PendingLoopExit
<1>4. CASE ProcessCompleted
  BY <1>4 DEF ProcessCompleted, ReceiveFinished, FinishRequest, ReceiveExpired,
     ExpiredInUse, VRAMRecovered, SendUnloaded, CompletedLoopExit
<1>5. ASSUME NEW a \in Apis, Api(a) PROVE UNCHANGED <<rstate, loaded>>
  BY <1>5 DEF Api, ApiLookup, ApiRuntimeOOM, ApiVisit, ApiReturn, ShutdownCancel,
     UnloadAllRunners, RunnerCrash
<1>6. CASE Finished
  BY <1>6 DEF Finished, vars
<1>7. QED
  BY <1>1, <1>2, <1>3, <1>4, <1>5, <1>6 DEF Next

\* A refMu is held for a load only by LoadSucceeded.
LEMMA NoOtherLoad ==
  ASSUME TypeInv, Next, ~LoadSucceeded
  PROVE  \A r \in Reqs : refMu'[r] = "load" => refMu[r] = "load"
<1> DEFINE Kept == \A r \in Reqs : refMu'[r] = "load" => refMu[r] = "load"
<1> USE DEF runVars, outsideRun, outsideC, outsideP
<1>0. ASSUME NEW rn, NEW who \in {"P", "C", "other"}, SendExpired(rn, who) \/ UNCHANGED refMu
      PROVE  Kept
  BY <1>0 DEF SendExpired, TypeInv, TypeOK, RunnerTypeOK
<1>1. ASSUME NEW r \in Reqs, Handler(r) PROVE Kept
  BY <1>1 DEF Handler, GetRunner, CheckReload, UseRunner, UseLoadedRunner, Enqueue,
     CtxDone, WatchFinished
<1>2. ASSUME NEW rn \in Reqs, RunnerStep(rn) PROVE Kept
  <2>1. CASE WaitUntilRunningFailed(rn) \/ TimerCallback(rn)
    BY <1>0, <2>1 DEF WaitUntilRunningFailed, TimerCallback
  <2>2. CASE ~WaitUntilRunningFailed(rn) /\ ~TimerCallback(rn)
    BY <1>2, <2>2 DEF RunnerStep, WaitUntilRunning, WaitUntilRunningOk, TimerFires,
       ResendExpired, UnblockSender, TypeInv, TypeOK, RunnerTypeOK
  <2>3. QED
    BY <2>1, <2>2
<1>3. CASE ProcessPending
  <2>1. CASE ExpireToMakeRoom \/ EvictNext
    BY <1>0, <2>1 DEF ExpireToMakeRoom, EvictNext, ExpireNow
  <2>2. CASE ~ExpireToMakeRoom /\ ~EvictNext
    BY <1>3, <2>2 DEF ProcessPending, Receive, IgnoreUnloaded, Evaluate,
       PendingCheckReload, PendingUseRunner, UseLoadedRunner, RefreshGPUs,
       UpdateFreeSpace, LoadStep, LoadNoServer, LoadPredictedTooBig, LoadStartServer,
       LoadRequiredFull, LoadFailed, FindSnapshot, FindScan, UnloadObserved,
       EvictSnapshot, EvictObserved, PendingLoopExit
  <2>3. QED
    BY <2>1, <2>2
<1>4. CASE ProcessCompleted
  <2>1. CASE FinishRequest
    BY <1>0, <2>1 DEF FinishRequest
  <2>2. CASE ~FinishRequest
    BY <1>4, <2>2 DEF ProcessCompleted, ReceiveFinished, ReceiveExpired, ExpiredInUse,
       ExpiredIdle, VRAMRecovered, SendUnloaded, CompletedLoopExit, TypeInv, TypeOK,
       RunnerTypeOK
  <2>3. QED
    BY <2>1, <2>2
<1>5. ASSUME NEW a \in Apis, Api(a) PROVE Kept
  <2>1. CASE ApiVisit(a)
    BY <1>0, <2>1 DEF ApiVisit, ExpireNow
  <2>2. CASE ~ApiVisit(a)
    BY <1>5, <2>2 DEF Api, ApiLookup, ApiRuntimeOOM, ApiReturn, ShutdownCancel,
       UnloadAllRunners, RunnerCrash
  <2>3. QED
    BY <2>1, <2>2
<1>6. CASE Finished
  BY <1>6 DEF Finished, vars
<1>7. QED
  BY <1>1, <1>2, <1>3, <1>4, <1>5, <1>6 DEF Next

LEMMA KeyType ==
  ASSUME TypeInv, NEW r \in Reqs, rst[r] # "new"
  PROVE  Key(r) \in Models
  BY DEF TypeInv, OnePlace, FilledIn, Key, Requests
-----------------------------------------------------------------------------
(* The map and the runners agree *)

\* The two effects that LoadSucceeded and ExpiredIdle have on them.
LEMMA LoadSucceededEffect ==
  ASSUME TypeInv, RoomForLoad, LoadSucceeded
  PROVE  /\ pending \in Reqs /\ rst[pending] = "queued" /\ Key(pending) \in Models
         /\ loaded[Key(pending)] = None
         /\ rstate' = [rstate EXCEPT ![pending] = "loading"]
         /\ loaded' = [loaded EXCEPT ![Key(pending)] = pending]
         /\ refMu' = [refMu EXCEPT ![pending] = "load"]
         /\ UNCHANGED <<reqVars, refCount, cVars, finishedReqCh, stale>>
<1>1. ppc \in Serving /\ ppc = "loading"
  BY DEF LoadSucceeded, PReady, Serving
<1>2. pending \in Reqs /\ rst[pending] = "queued" /\ Key(pending) \in Models
  BY <1>1, ServedRequest DEF TypeInv, OnePlace, Served
<1>3. loaded[Key(pending)] = None
  BY <1>1 DEF RoomForLoad
<1>4. rstate' = [rstate EXCEPT ![pending] = "loading"]
  <2>1. rstate' = [rn \in Reqs |-> IF rn = pending THEN "loading"
                                   ELSE IF rn = None THEN "unloaded" ELSE rstate[rn]]
    BY <1>3 DEF LoadSucceeded
  <2>2. QED
    BY <2>1, ConstantAssumption DEF TypeInv, TypeOK, RunnerTypeOK
<1>5. QED
  BY <1>2, <1>3, <1>4 DEF LoadSucceeded, chanVars

LEMMA ExpiredIdleEffect ==
  ASSUME TypeInv, Published, ExpiredIdle
  PROVE  /\ crunner \in Reqs /\ refMu[crunner] = "free" /\ refCount[crunner] = 0
         /\ rstate' = rstate \/ rstate' = [rstate EXCEPT ![crunner] = "unloaded"]
         /\ \/ loaded' = loaded /\ rstate[crunner] \notin InService
            \/ /\ Key(crunner) \in Models /\ loaded[Key(crunner)] = crunner
               /\ loaded' = [loaded EXCEPT ![Key(crunner)] = None]
               /\ rstate' = [rstate EXCEPT ![crunner] = "unloaded"]
         /\ UNCHANGED <<reqVars, refCount, finishedReqCh, stale, ppc, pending,
                        runnerToExpire>>
<1>1. crunner \in Reqs /\ refMu[crunner] = "free" /\ refCount[crunner] = 0
  BY DEF ExpiredIdle, CReady, Free, InUse, TypeInv, Chosen
<1>2. CASE rstate[crunner] \in InService
  <2>1. loaded[Key(crunner)] = crunner /\ Key(crunner) \in Models
    BY <1>1, <1>2, KeyType DEF Published
  <2>2. loaded[Key(crunner)] # None
    BY <1>1, <2>1, ConstantAssumption
  <2>3. /\ rstate' = [rstate EXCEPT ![crunner] = "unloaded"]
        /\ loaded' = [loaded EXCEPT ![Key(crunner)] = None]
    BY <2>1, <2>2 DEF ExpiredIdle, Unload
  <2>4. QED
    BY <1>1, <2>1, <2>3 DEF ExpiredIdle, chanVars, pVars
<1>3. CASE rstate[crunner] \notin InService
  <2>1. loaded' = loaded
    <3>1. CASE loaded[Key(crunner)] = crunner
      <4>1. Key(crunner) \notin Models
        <5> SUFFICES ASSUME Key(crunner) \in Models PROVE FALSE
          OBVIOUS
        <5>1. loaded[Key(crunner)] # None
          BY <1>1, <3>1, ConstantAssumption
        <5>2. QED
          BY <1>3, <3>1, <5>1 DEF Published
      <4>2. loaded' = [loaded EXCEPT ![Key(crunner)] = None]
        BY <3>1 DEF ExpiredIdle
      <4>3. QED
        BY <4>1, <4>2 DEF TypeInv, TypeOK, MapTypeOK
    <3>2. CASE loaded[Key(crunner)] # crunner
      BY <3>2 DEF ExpiredIdle
    <3>3. QED
      BY <3>1, <3>2
  <2>2. rstate' = rstate \/ rstate' = [rstate EXCEPT ![crunner] = "unloaded"]
    BY DEF ExpiredIdle, Unload
  <2>3. QED
    BY <1>1, <1>3, <2>1, <2>2 DEF ExpiredIdle, chanVars, pVars
<1>4. QED
  BY <1>2, <1>3

LEMMA WaitUntilRunningOkEffect ==
  ASSUME TypeInv, Published, NEW rn \in Reqs, WaitUntilRunningOk(rn)
  PROVE  /\ rst[rn] = "queued" /\ rstate[rn] = "loading"
         /\ rstate' = [rstate EXCEPT ![rn] = "running"]
         /\ refCount' = [refCount EXCEPT ![rn] = TakeRef(@)]
         /\ refMu' = [refMu EXCEPT ![rn] = "free"]
         /\ seen' = [seen EXCEPT ![rn] = rn]
         /\ rst' = [rst EXCEPT ![rn] = "granted"]
         /\ UNCHANGED <<req, loaded, finishedReqCh, cVars, stale, ppc, pending,
                        runnerToExpire>>
  BY DEF WaitUntilRunningOk, TypeInv, OnePlace, Waiting, Published, reqFixed, chanVars,
     outsideRun, mapVars, pVars

LEMMA StepPublished ==
  ASSUME TypeInv, RoomForLoad, Published, Next
  PROVE  Published'
<1> USE DEF InService
<1>1. CASE LoadSucceeded
  <2>1. /\ pending \in Reqs /\ rst[pending] = "queued" /\ Key(pending) \in Models
        /\ loaded[Key(pending)] = None
        /\ rstate' = [rstate EXCEPT ![pending] = "loading"]
        /\ loaded' = [loaded EXCEPT ![Key(pending)] = pending]
        /\ refMu' = [refMu EXCEPT ![pending] = "load"]
        /\ rst' = rst /\ req' = req /\ \A r \in Reqs : Key(r)' = Key(r)
    BY <1>1, LoadSucceededEffect DEF reqVars, Key
  <2>2. \A rn \in Reqs : rstate'[rn] \in InService => rst'[rn] # "new" /\ loaded'[Key(rn)'] = rn
    <3> SUFFICES ASSUME NEW rn \in Reqs, rstate'[rn] \in InService
                 PROVE  rst'[rn] # "new" /\ loaded'[Key(rn)] = rn
      BY <2>1
    <3>1. CASE rn = pending
      BY <2>1, <3>1 DEF TypeInv, TypeOK, MapTypeOK
    <3>2. CASE rn # pending
      <4>1. rst[rn] # "new" /\ loaded[Key(rn)] = rn
        BY <2>1, <3>2 DEF Published, TypeInv, TypeOK, RunnerTypeOK
      <4>2. Key(rn) # Key(pending)
        BY <2>1, <4>1, ConstantAssumption
      <4>3. QED
        BY <2>1, <4>1, <4>2 DEF TypeInv, TypeOK, MapTypeOK
    <3>3. QED
      BY <3>1, <3>2
  <2>3. \A m \in Models : loaded'[m] # None =>
          rstate'[loaded'[m]] \in InService /\ req'[loaded'[m]].model = m
    <3> SUFFICES ASSUME NEW m \in Models, loaded'[m] # None
                 PROVE  rstate'[loaded'[m]] \in InService /\ req'[loaded'[m]].model = m
      OBVIOUS
    <3>1. CASE m = Key(pending)
      BY <2>1, <3>1 DEF Key, TypeInv, TypeOK, RunnerTypeOK, MapTypeOK
    <3>2. CASE m # Key(pending)
      <4>1. loaded'[m] = loaded[m] /\ loaded[m] \in Reqs
        BY <2>1, <3>2 DEF TypeInv, TypeOK, MapTypeOK
      <4>2. rstate[loaded[m]] \in InService /\ Key(loaded[m]) = m
        BY <4>1 DEF Published
      <4>3. QED
        BY <2>1, <4>1, <4>2 DEF Key, TypeInv, TypeOK, RunnerTypeOK
    <3>3. QED
      BY <3>1, <3>2
  <2>4. \A rn \in Reqs : refMu'[rn] = "load" => rstate'[rn] = "loading"
    BY <2>1 DEF Published, TypeInv, TypeOK, RunnerTypeOK
  <2>5. QED
    BY <2>2, <2>3, <2>4 DEF Published, Key
<1>2. CASE ExpiredIdle
  <2>1. /\ crunner \in Reqs /\ refMu[crunner] = "free"
        /\ rstate' = rstate \/ rstate' = [rstate EXCEPT ![crunner] = "unloaded"]
        /\ \/ loaded' = loaded /\ rstate[crunner] \notin InService
           \/ /\ Key(crunner) \in Models /\ loaded[Key(crunner)] = crunner
              /\ loaded' = [loaded EXCEPT ![Key(crunner)] = None]
              /\ rstate' = [rstate EXCEPT ![crunner] = "unloaded"]
        /\ rst' = rst /\ req' = req /\ \A r \in Reqs : Key(r)' = Key(r)
    BY <1>2, ExpiredIdleEffect DEF reqVars, Key
  <2>2. \A rn \in Reqs : rstate'[rn] \in InService => rst'[rn] # "new" /\ loaded'[Key(rn)'] = rn
    <3> SUFFICES ASSUME NEW rn \in Reqs, rstate'[rn] \in InService
                 PROVE  rst'[rn] # "new" /\ loaded'[Key(rn)] = rn
      BY <2>1
    <3>1. rstate[rn] \in InService /\ rn # crunner
      BY <2>1 DEF TypeInv, TypeOK, RunnerTypeOK
    <3>2. rst[rn] # "new" /\ loaded[Key(rn)] = rn
      BY <3>1 DEF Published
    <3>3. loaded[Key(crunner)] = crunner => Key(rn) # Key(crunner)
      BY <3>1, <3>2
    <3>4. QED
      BY <2>1, <3>2, <3>3, KeyType DEF TypeInv, TypeOK, MapTypeOK
  <2>3. \A m \in Models : loaded'[m] # None =>
          rstate'[loaded'[m]] \in InService /\ req'[loaded'[m]].model = m
    <3> SUFFICES ASSUME NEW m \in Models, loaded'[m] # None
                 PROVE  rstate'[loaded'[m]] \in InService /\ req'[loaded'[m]].model = m
      OBVIOUS
    <3>1. loaded'[m] = loaded[m] /\ loaded[m] \in Reqs
      BY <2>1 DEF TypeInv, TypeOK, MapTypeOK
    <3>2. rstate[loaded[m]] \in InService /\ Key(loaded[m]) = m
      BY <3>1 DEF Published
    <3>3. loaded[m] # crunner
      <4>1. CASE loaded' = loaded /\ rstate[crunner] \notin InService
        BY <3>2, <4>1
      <4>2. CASE loaded' = [loaded EXCEPT ![Key(crunner)] = None]
        BY <3>2, <4>2 DEF TypeInv, TypeOK, MapTypeOK
      <4>3. QED
        BY <2>1, <4>1, <4>2
    <3>4. QED
      BY <2>1, <3>1, <3>2, <3>3 DEF Key, TypeInv, TypeOK, RunnerTypeOK
  <2>4. \A rn \in Reqs : refMu'[rn] = "load" => rstate'[rn] = "loading"
    <3> SUFFICES ASSUME NEW rn \in Reqs, refMu'[rn] = "load" PROVE rstate'[rn] = "loading"
      OBVIOUS
    <3>1. refMu[rn] = "load"
      <4>1. ~LoadSucceeded
        BY <1>2 DEF ExpiredIdle, LoadSucceeded, pVars, PReady
      <4>2. QED
        BY <4>1, NoOtherLoad
    <3>2. QED
      BY <2>1, <3>1 DEF Published, TypeInv, TypeOK, RunnerTypeOK
  <2>5. QED
    BY <2>2, <2>3, <2>4 DEF Published, Key
<1>3. ASSUME NEW rn \in Reqs, WaitUntilRunningOk(rn) PROVE Published'
  <2>1. /\ rstate[rn] = "loading" /\ rstate' = [rstate EXCEPT ![rn] = "running"]
        /\ refMu' = [refMu EXCEPT ![rn] = "free"] /\ loaded' = loaded
        /\ rst' = [rst EXCEPT ![rn] = "granted"] /\ req' = req /\ \A r \in Reqs : Key(r)' = Key(r)
    BY <1>3, WaitUntilRunningOkEffect DEF Key
  <2>2. \A p \in Reqs : rstate'[p] \in InService => rst'[p] # "new" /\ loaded'[Key(p)'] = p
    BY <2>1 DEF Published, TypeInv, TypeOK, RunnerTypeOK, RequestTypeOK
  <2>3. \A m \in Models : loaded'[m] # None =>
          rstate'[loaded'[m]] \in InService /\ req'[loaded'[m]].model = m
    BY <2>1 DEF Key, Published, TypeInv, TypeOK, RunnerTypeOK, MapTypeOK
  <2>4. \A p \in Reqs : refMu'[p] = "load" => rstate'[p] = "loading"
    BY <2>1 DEF Published, TypeInv, TypeOK, RunnerTypeOK
  <2>5. QED
    BY <2>2, <2>3, <2>4 DEF Published, Key
<1>4. CASE ~LoadSucceeded /\ ~ExpiredIdle /\ ~ \E rn \in Reqs : WaitUntilRunningOk(rn)
  <2>1. UNCHANGED <<rstate, loaded>>
    BY <1>4, RunnersKept
  <2>2. \A r \in Reqs : rst[r] # "new" => rst'[r] # "new" /\ req'[r] = req[r]
    BY KeyStable
  <2>3. \A r \in Reqs : refMu'[r] = "load" => refMu[r] = "load"
    BY <1>4, NoOtherLoad
  <2>4. \A rn \in Reqs : rstate'[rn] \in InService => rst'[rn] # "new" /\ loaded'[Key(rn)'] = rn
    BY <2>1, <2>2 DEF Published, Key
  <2>5. \A m \in Models : loaded'[m] # None =>
          rstate'[loaded'[m]] \in InService /\ req'[loaded'[m]].model = m
    <3> SUFFICES ASSUME NEW m \in Models, loaded[m] # None
                 PROVE  rstate[loaded[m]] \in InService /\ req'[loaded[m]].model = m
      BY <2>1
    <3>1. loaded[m] \in Reqs /\ rstate[loaded[m]] \in InService /\ Key(loaded[m]) = m
      BY DEF Published, TypeInv, TypeOK, MapTypeOK
    <3>2. rst[loaded[m]] # "new"
      BY <3>1 DEF Published
    <3>3. QED
      BY <2>2, <3>1, <3>2 DEF Key
  <2>6. QED
    BY <2>1, <2>3, <2>4, <2>5 DEF Published, Key
<1>5. QED
  BY <1>1, <1>2, <1>3, <1>4
-----------------------------------------------------------------------------
(* What was looked up stays valid *)

\* A runner that was published stays one, and one that is in service and in use
\* stays in service.
LEMMA RunnerMoves ==
  ASSUME TypeInv, RoomForLoad, Published, Next, NEW rn \in Reqs
  PROVE  /\ rstate[rn] # "none" => rstate'[rn] # "none"
         /\ rstate[rn] \in InService /\ refCount[rn] # 0 => rstate'[rn] \in InService
<1> USE DEF InService, TypeInv, TypeOK, RunnerTypeOK
<1>1. CASE LoadSucceeded
  BY <1>1, LoadSucceededEffect
<1>2. CASE ExpiredIdle
  BY <1>2, ExpiredIdleEffect
<1>3. ASSUME NEW p \in Reqs, WaitUntilRunningOk(p)
      PROVE  /\ rstate[rn] # "none" => rstate'[rn] # "none"
             /\ rstate[rn] \in InService /\ refCount[rn] # 0 => rstate'[rn] \in InService
  BY <1>3, WaitUntilRunningOkEffect
<1>4. CASE ~LoadSucceeded /\ ~ExpiredIdle /\ ~ \E p \in Reqs : WaitUntilRunningOk(p)
  BY <1>4, RunnersKept
<1>5. QED
  BY <1>1, <1>2, <1>3, <1>4

LEMMA PublishedForKept ==
  ASSUME TypeInv, RoomForLoad, Published, Next, NEW rn, NEW r \in Reqs,
         rst[r] # "new", PublishedFor(rn, r)
  PROVE  PublishedFor(rn, r)'
<1>1. rn \in Reqs /\ rst[rn] # "new" /\ rstate[rn] # "none" /\ req[rn].model = req[r].model
  BY DEF PublishedFor, Key
<1>2. rst'[rn] # "new" /\ req'[rn] = req[rn] /\ req'[r] = req[r]
  BY <1>1, KeyStable
<1>3. rstate'[rn] # "none"
  BY <1>1, RunnerMoves
<1>4. QED
  BY <1>1, <1>2, <1>3 DEF PublishedFor, Key

\* A handler looks a runner up in getRunner and nowhere else.
LEMMA HandlerLookup ==
  ASSUME TypeInv, Next, NEW r \in Reqs, rst'[r] \in {"check", "use"}
  PROVE  \/ rst[r] \in {"check", "use"} /\ seen'[r] = seen[r]
         \/ \E q \in Requests : GetRunner(r, q)
<1> DEFINE Kept == rst[r] \in {"check", "use"} /\ seen'[r] = seen[r]
           Got == \E q \in Requests : GetRunner(r, q)
<1> USE DEF reqFixed, reqVars, outsideRun, outsideC, outsideP, TypeInv, TypeOK, RequestTypeOK
<1>1. ASSUME NEW p \in Reqs, Handler(p) PROVE Kept \/ Got
  <2>1. CASE \E q \in Requests : GetRunner(p, q)
    BY <2>1 DEF GetRunner
  <2>2. CASE CheckReload(p)
    BY <2>2 DEF CheckReload
  <2>3. CASE UseRunner(p)
    BY <2>3 DEF UseRunner, UseLoadedRunner
  <2>4. CASE Enqueue(p)
    BY <2>4 DEF Enqueue, Fail
  <2>5. CASE CtxDone(p) \/ WatchFinished(p)
    BY <2>5 DEF CtxDone, WatchFinished
  <2>6. QED
    BY <1>1, <2>1, <2>2, <2>3, <2>4, <2>5 DEF Handler
<1>2. ASSUME NEW rn \in Reqs, RunnerStep(rn) PROVE Kept
  BY <1>2 DEF RunnerStep, WaitUntilRunning, WaitUntilRunningOk, WaitUntilRunningFailed,
     Fail, TimerFires, TimerCallback, ResendExpired, UnblockSender
<1>3. CASE ProcessPending
  <2>1. \/ UNCHANGED <<rst, seen>>
        \/ rst' = [rst EXCEPT ![pending] = "failed"] /\ seen' = seen
        \/ /\ rst' = [rst EXCEPT ![pending] = "granted"]
           /\ seen' = [seen EXCEPT ![pending] = runnerToExpire]
    BY <1>3 DEF ProcessPending, Receive, IgnoreUnloaded, Evaluate, PendingCheckReload,
       PendingUseRunner, UseLoadedRunner, RefreshGPUs, UpdateFreeSpace, LoadStep,
       LoadNoServer, LoadPredictedTooBig, LoadStartServer, LoadRequiredFull, LoadFailed,
       LoadSucceeded, FindSnapshot, FindScan, ExpireToMakeRoom, UnloadObserved,
       EvictSnapshot, EvictNext, EvictObserved, PendingLoopExit, Fail
  <2>2. QED
    BY <2>1
<1>4. CASE ProcessCompleted
  BY <1>4 DEF ProcessCompleted, ReceiveFinished, FinishRequest, ReceiveExpired,
     ExpiredInUse, ExpiredIdle, VRAMRecovered, SendUnloaded, CompletedLoopExit
<1>5. ASSUME NEW a \in Apis, Api(a) PROVE Kept
  BY <1>5 DEF Api, ApiLookup, ApiRuntimeOOM, ApiVisit, ApiReturn, ShutdownCancel,
     UnloadAllRunners, RunnerCrash
<1>6. CASE Finished
  BY <1>6 DEF Finished, vars
<1>7. QED
  BY <1>1, <1>2, <1>3, <1>4, <1>5, <1>6 DEF Next

\* processPending looks a runner up in Evaluate and nowhere else.
LEMMA PendingLookup ==
  ASSUME TypeInv, Next, ppc' \in {"check", "use"}
  PROVE  \/ ppc \in {"check", "use"} /\ UNCHANGED <<pending, runnerToExpire>>
         \/ Evaluate
<1> DEFINE Kept == ppc \in {"check", "use"} /\ UNCHANGED <<pending, runnerToExpire>>
<1> USE DEF pVars, pLocals, outsideRun, outsideC
<1>1. ASSUME NEW p \in Reqs, Handler(p) PROVE Kept
  BY <1>1 DEF Handler, GetRunner, CheckReload, UseRunner, Enqueue, CtxDone, WatchFinished
<1>2. ASSUME NEW rn \in Reqs, RunnerStep(rn) PROVE Kept
  BY <1>2 DEF RunnerStep, WaitUntilRunning, WaitUntilRunningOk, WaitUntilRunningFailed,
     TimerFires, TimerCallback, ResendExpired, UnblockSender
<1>3. CASE ProcessPending
  BY <1>3 DEF ProcessPending, Receive, IgnoreUnloaded, PendingCheckReload, PendingUseRunner,
     RefreshGPUs, UpdateFreeSpace, LoadStep, LoadNoServer, LoadPredictedTooBig,
     LoadStartServer, LoadRequiredFull, LoadFailed, LoadSucceeded, FindSnapshot, FindScan,
     ExpireToMakeRoom, UnloadObserved, EvictSnapshot, EvictNext, EvictObserved,
     PendingLoopExit, PReady, AfterRetry
<1>4. CASE ProcessCompleted
  BY <1>4 DEF ProcessCompleted, ReceiveFinished, FinishRequest, ReceiveExpired,
     ExpiredInUse, ExpiredIdle, VRAMRecovered, SendUnloaded, CompletedLoopExit
<1>5. ASSUME NEW a \in Apis, Api(a) PROVE Kept
  BY <1>5 DEF Api, ApiLookup, ApiRuntimeOOM, ApiVisit, ApiReturn, ShutdownCancel,
     UnloadAllRunners, RunnerCrash
<1>6. CASE Finished
  BY <1>6 DEF Finished, vars
<1>7. QED
  BY <1>1, <1>2, <1>3, <1>4, <1>5, <1>6 DEF Next

LEMMA StepLookedUp ==
  ASSUME TypeInv, RoomForLoad, Published, LookedUp, Next
  PROVE  LookedUp'
<1>1. ASSUME NEW r \in Reqs, rst'[r] \in {"check", "use"} PROVE PublishedFor(seen[r], r)'
  <2>1. CASE rst[r] \in {"check", "use"} /\ seen'[r] = seen[r]
    <3>1. PublishedFor(seen[r], r) /\ rst[r] # "new"
      BY <2>1 DEF LookedUp
    <3>2. \A rn : PublishedFor(rn, r) => PublishedFor(rn, r)'
      BY <3>1, PublishedForKept
    <3>3. QED
      BY <2>1, <3>1, <3>2 DEF PublishedFor
  <2>2. ASSUME NEW q \in Requests, GetRunner(r, q) PROVE PublishedFor(seen[r], r)'
    <3>1. /\ rst[r] = "new" /\ loaded[q.model] # None /\ q.model \in Models
          /\ seen'[r] = loaded[q.model] /\ req'[r] = q /\ rst'[r] # "new"
          /\ rstate' = rstate
      BY <1>1, <2>2 DEF GetRunner, runVars, Requests, TypeInv, TypeOK, RequestTypeOK
    <3>2. /\ loaded[q.model] \in Reqs /\ rstate[loaded[q.model]] \in InService
          /\ req[loaded[q.model]].model = q.model
      BY <3>1 DEF Published, Key, TypeInv, TypeOK, MapTypeOK
    <3>3. rst[loaded[q.model]] # "new"
      BY <3>2 DEF Published
    <3>4. rst'[loaded[q.model]] # "new" /\ req'[loaded[q.model]] = req[loaded[q.model]]
      BY <3>2, <3>3, KeyStable
    <3>5. QED
      BY <3>1, <3>2, <3>4 DEF PublishedFor, Key, InService
  <2>3. QED
    BY <1>1, <2>1, <2>2, HandlerLookup
<1>2. ASSUME ppc' \in {"check", "use"} PROVE PublishedFor(runnerToExpire, pending)'
  <2>1. CASE ppc \in {"check", "use"} /\ UNCHANGED <<pending, runnerToExpire>>
    <3>1. PublishedFor(runnerToExpire, pending)
      BY <2>1 DEF LookedUp
    <3>2. pending \in Reqs /\ rst[pending] # "new"
      BY <2>1, ServedRequest DEF Serving, TypeInv, OnePlace, Served
    <3>3. \A rn, r : r \in Reqs /\ rst[r] # "new" /\ PublishedFor(rn, r) => PublishedFor(rn, r)'
      BY PublishedForKept
    <3>4. QED
      BY <2>1, <3>1, <3>2, <3>3 DEF PublishedFor, Key
  <2>2. CASE Evaluate
    <3>1. /\ ppc = "eval" /\ pending' = pending /\ UNCHANGED <<req, rst, rstate>>
          /\ loaded[Key(pending)] # None /\ runnerToExpire' = loaded[Key(pending)]
      BY <1>2, <2>2 DEF Evaluate, PReady, outsideP, reqVars, runVars
    <3>2. pending \in Reqs /\ rst[pending] # "new" /\ Key(pending) \in Models
      BY <3>1, ServedRequest DEF Serving, TypeInv, OnePlace, Served
    <3>3. /\ loaded[Key(pending)] \in Reqs /\ rstate[loaded[Key(pending)]] \in InService
          /\ req[loaded[Key(pending)]].model = Key(pending)
      BY <3>1, <3>2 DEF Published, Key, TypeInv, TypeOK, MapTypeOK
    <3>4. rst[loaded[Key(pending)]] # "new"
      BY <3>3 DEF Published
    <3>5. QED
      BY <3>1, <3>3, <3>4 DEF PublishedFor, Key, InService
  <2>3. QED
    BY <1>2, <2>1, <2>2, PendingLookup
<1>3. QED
  BY <1>1, <1>2 DEF LookedUp
-----------------------------------------------------------------------------
(* References: what a step does to the requests that hold one *)

Using == {"granted", "finishing"}

\* A step that takes and drops no reference.
Quiet ==
  /\ UNCHANGED <<refCount, finishedReqCh, stale>>
  /\ \A r \in Reqs : rst[r] \in Using => rst'[r] = rst[r] /\ seen'[r] = seen[r]
  /\ \A r \in Reqs : rst'[r] \in Using => rst[r] \in Using
  /\ cpc' = "finish" => cpc = "finish" /\ UNCHANGED <<finished, crunner>>

\* A step that grants rn to r.
Take(r, rn) ==
  /\ rst[r] \in {"use", "queued"}
  /\ rst' = [rst EXCEPT ![r] = "granted"]
  /\ seen' = [seen EXCEPT ![r] = rn]
  /\ refCount' = [refCount EXCEPT ![rn] = TakeRef(@)]
  /\ UNCHANGED <<finishedReqCh, cVars>>
  /\ PublishedFor(rn, r)
  /\ ~stale' => ~stale /\ rstate'[rn] \in InService

LEMMA UseLoadedRunnerTakes ==
  ASSUME TypeInv, NEW r \in Reqs, NEW rn \in Reqs, UseLoadedRunner(r, rn),
         PublishedFor(rn, r), rst[r] \in {"use", "queued"}, UNCHANGED <<finishedReqCh, cVars>>
  PROVE  Take(r, rn)
<1>1. rstate[rn] \in {"loading", "running", "unloaded"}
  BY DEF PublishedFor, TypeInv, TypeOK, RunnerTypeOK
<1>2. QED
  BY <1>1 DEF UseLoadedRunner, Take, InService

LEMMA StepKinds ==
  ASSUME TypeInv, Published, LookedUp, Next
  PROVE  \/ Quiet \/ ReceiveFinished \/ FinishRequest
         \/ \E r, rn \in Reqs : Take(r, rn)
         \/ \E r \in Reqs : WatchFinished(r)
<1> DEFINE Grant == \E r, rn \in Reqs : Take(r, rn)
<1> USE DEF reqFixed, reqVars, runVars, chanVars, cVars, outsideRun, outsideC, outsideP,
        Using, TypeInv, TypeOK, RequestTypeOK
<1>1. ASSUME NEW r \in Reqs, Handler(r), ~WatchFinished(r) PROVE Quiet \/ Grant
  <2>1. CASE UseRunner(r)
    <3>1. /\ rst[r] = "use" /\ UseLoadedRunner(r, seen[r])
          /\ UNCHANGED <<finishedReqCh, cVars>>
      BY <2>1 DEF UseRunner
    <3>2. PublishedFor(seen[r], r) /\ seen[r] \in Reqs
      BY <3>1 DEF LookedUp, PublishedFor
    <3>3. Take(r, seen[r])
      BY <3>1, <3>2, UseLoadedRunnerTakes
    <3>4. QED
      BY <3>2, <3>3
  <2>2. CASE \E q \in Requests : GetRunner(r, q)
    BY <2>2 DEF GetRunner, Quiet
  <2>3. CASE CheckReload(r) \/ CtxDone(r)
    BY <2>3 DEF CheckReload, CtxDone, Quiet
  <2>4. CASE Enqueue(r)
    BY <2>4 DEF Enqueue, Fail, Quiet
  <2>5. QED
    BY <1>1, <2>1, <2>2, <2>3, <2>4 DEF Handler
<1>2. ASSUME NEW rn \in Reqs, RunnerStep(rn) PROVE Quiet \/ Grant
  <2>1. CASE WaitUntilRunningOk(rn)
    <3>1. Take(rn, rn)
      BY <2>1, WaitUntilRunningOkEffect DEF Take, PublishedFor, InService, RunnerTypeOK
    <3>2. QED
      BY <3>1
  <2>2. CASE WaitUntilRunningFailed(rn)
    <3>1. rst[rn] = "queued"
      BY <2>2 DEF WaitUntilRunningFailed, OnePlace, Waiting
    <3>2. QED
      BY <2>2, <3>1 DEF WaitUntilRunningFailed, Fail, Quiet
  <2>3. CASE ~WaitUntilRunning(rn)
    BY <1>2, <2>3 DEF RunnerStep, TimerFires, TimerCallback, ResendExpired, UnblockSender,
       Quiet
  <2>4. QED
    BY <2>1, <2>2, <2>3 DEF WaitUntilRunning
<1>3. CASE ProcessPending
  <2>1. CASE PendingUseRunner
    <3>1. /\ ppc = "use" /\ UseLoadedRunner(pending, runnerToExpire)
          /\ UNCHANGED <<finishedReqCh, cVars>>
      BY <2>1 DEF PendingUseRunner, PReady
    <3>2. PublishedFor(runnerToExpire, pending) /\ runnerToExpire \in Reqs
      BY <3>1 DEF LookedUp, PublishedFor
    <3>3. pending \in Reqs /\ rst[pending] = "queued"
      BY <3>1 DEF Serving, OnePlace, Served
    <3>4. Take(pending, runnerToExpire)
      BY <3>1, <3>2, <3>3, UseLoadedRunnerTakes
    <3>5. QED
      BY <3>2, <3>3, <3>4
  <2>2. CASE ~PendingUseRunner
    <3>1. UNCHANGED <<refCount, finishedReqCh, stale, cVars, seen>>
      BY <1>3, <2>2 DEF ProcessPending, Receive, IgnoreUnloaded, Evaluate,
         PendingCheckReload, RefreshGPUs, UpdateFreeSpace, LoadStep, LoadNoServer,
         LoadPredictedTooBig, LoadStartServer, LoadRequiredFull, LoadFailed, LoadSucceeded,
         FindSnapshot, FindScan, ExpireToMakeRoom, UnloadObserved, EvictSnapshot,
         EvictNext, EvictObserved, PendingLoopExit
    <3>2. \/ rst' = rst
          \/ ppc \in Serving /\ rst' = [rst EXCEPT ![pending] = "failed"]
      BY <1>3, <2>2 DEF ProcessPending, Receive, IgnoreUnloaded, Evaluate,
         PendingCheckReload, RefreshGPUs, UpdateFreeSpace, LoadStep, LoadNoServer,
         LoadPredictedTooBig, LoadStartServer, LoadRequiredFull, LoadFailed, LoadSucceeded,
         FindSnapshot, FindScan, ExpireToMakeRoom, UnloadObserved, EvictSnapshot,
         EvictNext, EvictObserved, PendingLoopExit, Fail, PReady, Serving
    <3>3. ppc \in Serving => rst[pending] = "queued"
      BY DEF OnePlace, Served
    <3>4. QED
      BY <3>1, <3>2, <3>3 DEF Quiet
  <2>3. QED
    BY <2>1, <2>2
<1>4. CASE ProcessCompleted /\ ~ReceiveFinished /\ ~FinishRequest
  <2>1. UNCHANGED <<rst, seen, refCount, finishedReqCh, stale>> /\ cpc' # "finish"
    BY <1>4 DEF ProcessCompleted, ReceiveExpired, ExpiredInUse, ExpiredIdle, VRAMRecovered,
       SendUnloaded, CompletedLoopExit
  <2>2. QED
    BY <2>1 DEF Quiet
<1>5. ASSUME NEW a \in Apis, Api(a) PROVE Quiet
  BY <1>5 DEF Api, ApiLookup, ApiRuntimeOOM, ApiVisit, ApiReturn, ShutdownCancel,
     UnloadAllRunners, RunnerCrash, Quiet
<1>6. CASE Finished
  BY <1>6 DEF Finished, vars, Quiet
<1>7. QED
  BY <1>1, <1>2, <1>3, <1>4, <1>5, <1>6 DEF Next
-----------------------------------------------------------------------------
(* A request ends once *)

LEMMA WatchFinishedEffect ==
  ASSUME TypeInv, NEW r \in Reqs, WatchFinished(r)
  PROVE  /\ rst[r] = "granted" /\ rst' = [rst EXCEPT ![r] = "finishing"]
         /\ finishedReqCh' = Append(finishedReqCh, r)
         /\ UNCHANGED <<seen, refCount, cVars, stale>>
  BY DEF WatchFinished, outsideRun, runVars

LEMMA ReceiveFinishedEffect ==
  ASSUME TypeInv, ReceiveFinished
  PROVE  /\ finishedReqCh # <<>> /\ finishedReqCh' = Tail(finishedReqCh)
         /\ UNCHANGED <<seen, refCount, rstate, stale>> /\ cpc = "recv"
         /\ LET r == Head(finishedReqCh) IN
              \/ /\ loaded[Key(r)] = None /\ UNCHANGED cVars
                 /\ rst' = [rst EXCEPT ![r] = "done"]
              \/ /\ rst' = rst /\ finished' = r /\ cpc' = "finish"
                 /\ crunner' = loaded[Key(r)]
  BY DEF ReceiveFinished, reqFixed, runVars, CReady

LEMMA FinishRequestEffect ==
  ASSUME TypeInv, FinishRequest
  PROVE  /\ cpc = "finish" /\ finished \in Reqs /\ crunner \in Reqs /\ cpc' = "recv"
         /\ rst' = [rst EXCEPT ![finished] = "done"]
         /\ refCount' = [refCount EXCEPT ![crunner] = DropRef(refCount[crunner])]
         /\ UNCHANGED <<seen, finishedReqCh, stale>>
  BY DEF FinishRequest, CReady, reqFixed, TypeInv, FinishedEvents, Chosen

\* A queue of finishing requests stays one when the next request ends, and when
\* the first event is taken off.
LEMMA OnceAppend ==
  ASSUME NEW q \in Seq(Reqs), NEW f, DOMAIN f = Reqs, NEW r \in Reqs, Once(q, f),
         f[r] = "granted"
  PROVE  Once(Append(q, r), [f EXCEPT ![r] = "finishing"])
<1> DEFINE p == Append(q, r)
           g == [f EXCEPT ![r] = "finishing"]
<1>1. \A i \in 1 .. Len(q) : q[i] \in Reqs /\ f[q[i]] = "finishing" /\ q[i] # r
  BY DEF Once
<1>2. Len(q) \in Nat /\ Len(p) = Len(q) + 1 /\ p[Len(q) + 1] = r
  OBVIOUS
<1>3. \A i \in 1 .. Len(q) : p[i] = q[i]
  OBVIOUS
<1> HIDE DEF p
<1>4. ASSUME NEW i \in 1 .. Len(p) PROVE g[p[i]] = "finishing"
  <2>1. CASE i \in 1 .. Len(q)
    BY <1>1, <1>3, <2>1
  <2>2. CASE i = Len(q) + 1
    BY <1>2, <2>2
  <2>3. QED
    BY <1>2, <2>1, <2>2
<1>5. ASSUME NEW i \in 1 .. Len(p), NEW j \in 1 .. Len(p), i < j PROVE p[i] # p[j]
  <2>1. i \in 1 .. Len(q)
    BY <1>2, <1>5
  <2>2. CASE j \in 1 .. Len(q)
    BY <1>3, <1>5, <2>1, <2>2 DEF Once
  <2>3. CASE j = Len(q) + 1
    BY <1>1, <1>2, <1>3, <2>1, <2>3
  <2>4. QED
    BY <1>2, <2>2, <2>3
<1>6. \A i, j \in 1 .. Len(p) : i # j => p[i] # p[j]
  BY <1>2, <1>5
<1>7. QED
  BY <1>4, <1>6 DEF Once, p

LEMMA OnceTail ==
  ASSUME NEW q \in Seq(Reqs), NEW f, DOMAIN f = Reqs, Once(q, f), q # <<>>
  PROVE  /\ Head(q) \in Reqs /\ f[Head(q)] = "finishing"
         /\ \A i \in 1 .. Len(Tail(q)) : Tail(q)[i] # Head(q)
         /\ Once(Tail(q), f) /\ Once(Tail(q), [f EXCEPT ![Head(q)] = "done"])
<1> DEFINE p == Tail(q)
           h == Head(q)
<1>1. Len(q) \in Nat \ {0} /\ Len(p) = Len(q) - 1 /\ h = q[1] /\ h \in Reqs
  OBVIOUS
<1>2. \A i \in 1 .. Len(p) : p[i] = q[i + 1] /\ i + 1 \in 1 .. Len(q) /\ q[i + 1] \in Reqs
  OBVIOUS
<1> HIDE DEF p, h
<1>3. f[h] = "finishing"
  BY <1>1 DEF Once
<1>4. \A i \in 1 .. Len(p) : p[i] \in Reqs /\ f[p[i]] = "finishing" /\ p[i] # h
  <2> SUFFICES ASSUME NEW i \in 1 .. Len(p)
               PROVE  p[i] \in Reqs /\ f[p[i]] = "finishing" /\ p[i] # h
    OBVIOUS
  <2>1. i \in Nat /\ i + 1 # 1
    BY <1>1
  <2>2. QED
    BY <1>1, <1>2, <2>1 DEF Once
<1>5. \A i, j \in 1 .. Len(p) : i # j => p[i] # p[j]
  <2> SUFFICES ASSUME NEW i \in 1 .. Len(p), NEW j \in 1 .. Len(p), i # j
               PROVE  p[i] # p[j]
    OBVIOUS
  <2>1. i + 1 # j + 1
    BY <1>1
  <2>2. QED
    BY <1>2, <2>1 DEF Once
<1>6. \A i \in 1 .. Len(p) : [f EXCEPT ![h] = "done"][p[i]] = "finishing"
  BY <1>4
<1>7. QED
  BY <1>1, <1>3, <1>4, <1>5, <1>6 DEF Once, p, h

LEMMA StepEndedOnce ==
  ASSUME TypeInv, Published, LookedUp, EndedOnce, Next
  PROVE  EndedOnce'
<1> USE DEF TypeInv, TypeOK
<1>0. /\ finishedReqCh \in Seq(Reqs) /\ DOMAIN rst = Reqs
      /\ \A i \in 1 .. Len(finishedReqCh) : finishedReqCh[i] \in Reqs
  <2>1. finishedReqCh \in Seq(Reqs)
    BY DEF ChannelTypeOK
  <2>2. \A i \in 1 .. Len(finishedReqCh) : finishedReqCh[i] \in Reqs
    BY <2>1
  <2>3. DOMAIN rst = Reqs
    BY DEF RequestTypeOK
  <2>4. QED
    BY <2>1, <2>2, <2>3
<1>1. CASE Quiet
  BY <1>0, <1>1 DEF Quiet, EndedOnce, Once, Using
<1>2. ASSUME NEW r \in Reqs, NEW rn \in Reqs, Take(r, rn) PROVE EndedOnce'
  BY <1>0, <1>2 DEF Take, EndedOnce, Once, Using, cVars
<1>3. ASSUME NEW r \in Reqs, WatchFinished(r) PROVE EndedOnce'
  <2>1. /\ finishedReqCh' = Append(finishedReqCh, r) /\ UNCHANGED cVars
        /\ rst[r] = "granted" /\ rst' = [rst EXCEPT ![r] = "finishing"]
    BY <1>3, WatchFinishedEffect
  <2>2. Once(finishedReqCh', rst')
    BY <1>0, <2>1, OnceAppend DEF EndedOnce
  <2>3. cpc = "finish" => \A i \in 1 .. Len(Append(finishedReqCh, r)) :
                            Append(finishedReqCh, r)[i] # finished
    BY <1>0, <2>1 DEF EndedOnce
  <2>4. QED
    BY <1>0, <2>1, <2>2, <2>3 DEF EndedOnce, cVars
<1>4. CASE ReceiveFinished
  <2>1. /\ finishedReqCh # <<>> /\ finishedReqCh' = Tail(finishedReqCh)
        /\ \/ rst' = [rst EXCEPT ![Head(finishedReqCh)] = "done"] /\ cpc' = "recv"
           \/ rst' = rst /\ finished' = Head(finishedReqCh) /\ cpc' = "finish"
    BY <1>4, ReceiveFinishedEffect DEF cVars
  <2>2. /\ Head(finishedReqCh) \in Reqs /\ rst[Head(finishedReqCh)] = "finishing"
        /\ \A i \in 1 .. Len(Tail(finishedReqCh)) :
             Tail(finishedReqCh)[i] # Head(finishedReqCh)
        /\ Once(Tail(finishedReqCh), rst)
        /\ Once(Tail(finishedReqCh), [rst EXCEPT ![Head(finishedReqCh)] = "done"])
    BY <1>0, <2>1, OnceTail DEF EndedOnce
  <2>3. QED
    BY <2>1, <2>2 DEF EndedOnce
<1>5. CASE FinishRequest
  BY <1>0, <1>5, FinishRequestEffect DEF EndedOnce, Once
<1>6. QED
  BY <1>1, <1>2, <1>3, <1>4, <1>5, StepKinds
-----------------------------------------------------------------------------
(* Counting the users of a runner *)

LEMMA UsersFinite ==
  ASSUME NEW rn
  PROVE  /\ IsFiniteSet(Users(rn)) /\ Cardinality(Users(rn)) \in Nat
         /\ \A r \in Users(rn) : Cardinality(Users(rn)) # 0
<1>1. IsFiniteSet(Users(rn))
  BY ConstantAssumption, FS_Subset DEF Users
<1>2. QED
  BY <1>1, FS_CardinalityType, FS_EmptySet

\* With one more user the count goes up by one, and does not wrap.
LEMMA UserAdded ==
  ASSUME NEW rn, NEW r \in Reqs, r \notin Users(rn), Users(rn)' = Users(rn) \cup {r}
  PROVE  Cardinality(Users(rn)') = TakeRef(Cardinality(Users(rn)))
<1>1. /\ IsFiniteSet(Users(rn)) /\ IsFiniteSet(Users(rn) \cup {r})
      /\ Users(rn) \cup {r} \subseteq Reqs
  BY ConstantAssumption, FS_Subset DEF Users
<1>2. Cardinality(Users(rn) \cup {r}) = Cardinality(Users(rn)) + 1
  BY <1>1, FS_AddElement
<1>3. Cardinality(Users(rn) \cup {r}) <= Cardinality(Reqs) /\ Cardinality(Reqs) \in Nat
  BY <1>1, ConstantAssumption, FS_Subset, FS_CardinalityType
<1>4. Cardinality(Users(rn)) \in Nat
  BY <1>1, FS_CardinalityType
<1>5. QED
  BY <1>2, <1>3, <1>4, ConstantAssumption DEF TakeRef

\* With one user less it goes down by one.
LEMMA UserRemoved ==
  ASSUME NEW rn, NEW r \in Users(rn), Users(rn)' = Users(rn) \ {r}
  PROVE  Cardinality(Users(rn)') = DropRef(Cardinality(Users(rn)))
<1>1. IsFiniteSet(Users(rn)) /\ Users(rn) \subseteq Reqs
  BY ConstantAssumption, FS_Subset DEF Users
<1>2. Cardinality(Users(rn) \ {r}) = Cardinality(Users(rn)) - 1
  BY <1>1, FS_RemoveElement
<1>3. Cardinality(Users(rn)) <= Cardinality(Reqs) /\ Cardinality(Reqs) \in Nat
  BY <1>1, ConstantAssumption, FS_Subset, FS_CardinalityType
<1>4. Cardinality(Users(rn)) \in Nat /\ Cardinality(Users(rn)) # 0
  BY UsersFinite
<1>5. QED
  BY <1>2, <1>3, <1>4, ConstantAssumption DEF DropRef

\* The runner of a user is in use, and is loaded under the user's key.
LEMMA UserRunner ==
  ASSUME TypeInv, Published, UsersServed, Counted, NEW r \in Reqs, rst[r] \in Using
  PROVE  /\ seen[r] \in Reqs /\ rstate[seen[r]] \in InService /\ refCount[seen[r]] # 0
         /\ loaded[Key(r)] = seen[r] /\ PublishedFor(seen[r], r)
<1>1. PublishedFor(seen[r], r) /\ rstate[seen[r]] \in InService
  BY DEF UsersServed, Using
<1>2. seen[r] \in Reqs /\ Key(seen[r]) = Key(r)
  BY <1>1 DEF PublishedFor
<1>3. r \in Users(seen[r])
  BY DEF Users, Using
<1>4. QED
  BY <1>1, <1>2, <1>3, UsersFinite DEF Published, Counted

\* A request that used a runner and still does is served by it.
LEMMA UserKept ==
  ASSUME TypeInv, RoomForLoad, Published, UsersServed, Counted, Next,
         NEW r \in Reqs, rst[r] \in Using, seen'[r] = seen[r]
  PROVE  PublishedFor(seen[r], r)' /\ rstate'[seen'[r]] \in InService
<1>1. /\ seen[r] \in Reqs /\ rstate[seen[r]] \in InService /\ refCount[seen[r]] # 0
      /\ PublishedFor(seen[r], r) /\ rst[r] # "new"
  BY UserRunner DEF Using
<1>2. rstate'[seen[r]] \in InService
  BY <1>1, RunnerMoves
<1>3. \A rn : PublishedFor(rn, r) => PublishedFor(rn, r)'
  BY <1>1, PublishedForKept
<1>4. QED
  BY <1>1, <1>2, <1>3 DEF PublishedFor

LEMMA StepUsersServed ==
  ASSUME TypeInv, RoomForLoad, Published, LookedUp, EndedOnce, UsersServed, Counted, Next,
         ~stale'
  PROVE  UsersServed'
<1> USE DEF Using, TypeInv, TypeOK, RequestTypeOK
<1> DEFINE Fine(r) == PublishedFor(seen[r], r)' /\ rstate'[seen'[r]] \in InService
<1>0. \A r \in Reqs : rst[r] \in Using /\ seen'[r] = seen[r] => Fine(r)
  BY UserKept
<1> HIDE DEF Fine
<1>1. CASE Quiet
  <2>1. \A r \in Reqs : rst'[r] \in Using => Fine(r)
    BY <1>0, <1>1 DEF Quiet
  <2>2. cpc' = "finish" => crunner' = seen'[finished']
    BY <1>1 DEF Quiet, EndedOnce, UsersServed
  <2>3. QED
    BY <2>1, <2>2 DEF UsersServed, Fine
<1>2. ASSUME NEW p \in Reqs, NEW rn \in Reqs, Take(p, rn) PROVE UsersServed'
  <2>1. \A r \in Reqs : r # p /\ rst'[r] \in Using => Fine(r)
    BY <1>0, <1>2 DEF Take
  <2>2. Fine(p)
    <3>1. seen'[p] = rn /\ rstate'[rn] \in InService
      BY <1>2 DEF Take
    <3>2. PublishedFor(rn, p) /\ rst[p] # "new"
      BY <1>2 DEF Take
    <3>3. QED
      BY <3>1, <3>2, PublishedForKept DEF Fine, PublishedFor
  <2>3. cpc' = "finish" => crunner' = seen'[finished']
    BY <1>2 DEF Take, EndedOnce, UsersServed, cVars
  <2>4. QED
    BY <2>1, <2>2, <2>3 DEF UsersServed, Fine
<1>3. ASSUME NEW p \in Reqs, WatchFinished(p) PROVE UsersServed'
  <2>1. \A r \in Reqs : rst'[r] \in Using => Fine(r)
    BY <1>0, <1>3, WatchFinishedEffect
  <2>2. cpc' = "finish" => crunner' = seen'[finished']
    BY <1>3, WatchFinishedEffect DEF UsersServed, cVars
  <2>3. QED
    BY <2>1, <2>2 DEF UsersServed, Fine
<1>4. CASE ReceiveFinished
  <2>1. Head(finishedReqCh) \in Reqs /\ rst[Head(finishedReqCh)] = "finishing"
    BY <1>4, ReceiveFinishedEffect, OnceTail DEF ChannelTypeOK, EndedOnce
  <2>2. loaded[Key(Head(finishedReqCh))] = seen[Head(finishedReqCh)]
    BY <2>1, UserRunner
  <2>3. \A r \in Reqs : rst'[r] \in Using => Fine(r)
    BY <1>0, <1>4, <2>1, ReceiveFinishedEffect
  <2>4. cpc' = "finish" => crunner' = seen'[finished']
    BY <1>4, <2>2, ReceiveFinishedEffect DEF cVars
  <2>5. QED
    BY <2>3, <2>4 DEF UsersServed, Fine
<1>5. CASE FinishRequest
  <2>1. \A r \in Reqs : rst'[r] \in Using => Fine(r)
    BY <1>0, <1>5, FinishRequestEffect
  <2>2. QED
    BY <1>5, <2>1, FinishRequestEffect DEF UsersServed, Fine
<1>6. QED
  BY <1>1, <1>2, <1>3, <1>4, <1>5, StepKinds

LEMMA StepCounted ==
  ASSUME TypeInv, Published, LookedUp, EndedOnce, UsersServed, Counted, Next, ~stale'
  PROVE  Counted'
<1> USE DEF Using, TypeInv, TypeOK, RequestTypeOK
<1>0. ASSUME UNCHANGED refCount, \A rn \in Reqs : Users(rn)' = Users(rn) PROVE Counted'
  BY <1>0 DEF Counted
<1>1. CASE Quiet
  BY <1>0, <1>1 DEF Quiet, Users
<1>2. ASSUME NEW p \in Reqs, NEW rn \in Reqs, Take(p, rn) PROVE Counted'
  <2>1. p \notin Users(rn) /\ Users(rn)' = Users(rn) \cup {p}
    BY <1>2 DEF Take, Users
  <2>2. \A q \in Reqs : q # rn => Users(q)' = Users(q)
    BY <1>2 DEF Take, Users
  <2>3. Cardinality(Users(rn)') = TakeRef(Cardinality(Users(rn)))
    BY <2>1, UserAdded
  <2>4. refCount' = [refCount EXCEPT ![rn] = TakeRef(@)]
    BY <1>2 DEF Take
  <2>5. QED
    BY <2>2, <2>3, <2>4 DEF Counted, RunnerTypeOK
<1>3. ASSUME NEW p \in Reqs, WatchFinished(p) PROVE Counted'
  BY <1>0, <1>3, WatchFinishedEffect DEF Users
<1>4. CASE ReceiveFinished
  <2>1. Head(finishedReqCh) \in Reqs /\ rst[Head(finishedReqCh)] = "finishing"
    BY <1>4, ReceiveFinishedEffect, OnceTail DEF ChannelTypeOK, EndedOnce
  <2>2. loaded[Key(Head(finishedReqCh))] # None
    BY <2>1, UserRunner, ConstantAssumption
  <2>3. QED
    BY <1>0, <1>4, <2>2, ReceiveFinishedEffect DEF Users
<1>5. CASE FinishRequest
  <2>1. rst[finished] = "finishing" /\ crunner = seen[finished] /\ finished \in Users(crunner)
    BY <1>5, FinishRequestEffect DEF EndedOnce, UsersServed, Users
  <2>2. PICK rn \in Reqs : rn = crunner
    BY <1>5, FinishRequestEffect
  <2>3. Users(rn)' = Users(rn) \ {finished} /\ \A q \in Reqs : q # rn => Users(q)' = Users(q)
    BY <1>5, <2>1, <2>2, FinishRequestEffect DEF Users
  <2>4. Cardinality(Users(rn)') = DropRef(Cardinality(Users(rn)))
    BY <2>1, <2>2, <2>3, UserRemoved
  <2>5. refCount' = [refCount EXCEPT ![rn] = DropRef(refCount[rn])]
    BY <1>5, <2>2, FinishRequestEffect
  <2>6. QED
    BY <2>3, <2>4, <2>5 DEF Counted, RunnerTypeOK
<1>6. QED
  BY <1>1, <1>2, <1>3, <1>4, <1>5, StepKinds

-----------------------------------------------------------------------------
(* The theorems *)

LEMMA InitRefInv == Init => RefInv
<1> SUFFICES ASSUME Init PROVE RefInv
  OBVIOUS
<1>1. Published /\ LookedUp /\ EndedOnce /\ UsersServed
  BY DEF Init, Published, InService, LookedUp, EndedOnce, Once, UsersServed
<1>2. ASSUME NEW rn \in Reqs PROVE refCount[rn] = Cardinality(Users(rn))
  <2>1. Users(rn) = {}
    BY DEF Init, Users
  <2>2. QED
    BY <2>1, FS_EmptySet DEF Init
<1>3. QED
  BY <1>1, <1>2 DEF RefInv, Counted

\* Nothing turns stale back.
LEMMA StaleForGood ==
  ASSUME TypeInv, Published, LookedUp, Next, ~stale'
  PROVE  ~stale
<1>1. ASSUME NEW r \in Reqs, NEW rn \in Reqs, Take(r, rn) PROVE ~stale
  BY <1>1 DEF Take
<1>2. ASSUME NEW r \in Reqs, WatchFinished(r) PROVE ~stale
  BY <1>2, WatchFinishedEffect
<1>3. QED
  BY <1>1, <1>2, StepKinds, ReceiveFinishedEffect, FinishRequestEffect DEF Quiet

LEMMA RefInvariant == Spec => []RefInv
<1>1. TypeInv /\ RoomForLoad /\ RefInv /\ [Next]_vars => RefInv'
  <2> SUFFICES ASSUME TypeInv, RoomForLoad, RefInv, [Next]_vars PROVE RefInv'
    OBVIOUS
  <2>1. CASE Next
    <3>1. Published' /\ LookedUp' /\ EndedOnce'
      BY <2>1, StepPublished, StepLookedUp, StepEndedOnce DEF RefInv
    <3>2. ~stale' => UsersServed' /\ Counted'
      BY <2>1, StaleForGood, StepUsersServed, StepCounted DEF RefInv
    <3>3. QED
      BY <3>1, <3>2 DEF RefInv
  <2>2. CASE UNCHANGED vars
    BY <2>2 DEF vars, reqVars, runVars, chanVars, mapVars, pVars, cVars, RefInv, Published,
       LookedUp, PublishedFor, Key, EndedOnce, UsersServed, Counted, Users
  <2>3. QED
    BY <2>1, <2>2
<1>2. QED
  BY <1>1, InitRefInv, TypeInvariant, RoomInvariant, PTL DEF Spec

\* Until an unloaded runner is handed out, the unsigned refCount of every runner
\* is the number of requests that use it, for any number of requests, models and
\* management calls: every finished event reaches the right runner.
THEOREM CountIsUsers == Spec => []RefCountAccurate
<1>1. RefInv => RefCountAccurate
  BY DEF RefInv, Counted, RefCountAccurate
<1>2. QED
  BY <1>1, RefInvariant, PTL

\* Until then no request is served by a runner that has been unloaded.
THEOREM ServedByLoaded == Spec => []NoUnloadInUseUnlessStale
<1>1. RefInv => NoUnloadInUseUnlessStale
  BY DEF RefInv, UsersServed, InService, NoUnloadInUseUnlessStale, NoUnloadInUse
<1>2. QED
  BY <1>1, RefInvariant, PTL

-----------------------------------------------------------------------------
(* The server that is being loaded, and the processes *)

\* A server in activeLoading is that of the request that processPending serves,
\* and no runner is loaded under its key.
Active ==
  activeLoading # None =>
    /\ activeLoading = pending /\ ppc \notin {"recv", "check", "use"}
    /\ ppc \in Serving => loaded[Key(pending)] = None

\* It is not reached by the handlers, the goroutines of the runners and
\* processCompleted.
LEMMA ActiveKept ==
  ASSUME TypeInv, Active, Next, UNCHANGED <<ppc, pending>>,
         activeLoading' \in {None, activeLoading},
         loaded' = loaded \/ \E k \in Models : loaded' = [loaded EXCEPT ![k] = None]
  PROVE  Active'
<1> SUFFICES ASSUME activeLoading # None, activeLoading' = activeLoading, ppc \in Serving
             PROVE  loaded'[Key(pending)'] = None
  BY DEF Active
<1>1. Key(pending)' = Key(pending) /\ Key(pending) \in Models
  BY KeyStable, ServedRequest DEF Key, TypeInv, OnePlace, Served
<1>2. loaded[Key(pending)] = None
  BY DEF Active
<1> QED
  BY <1>1, <1>2 DEF TypeInv, TypeOK, MapTypeOK

LEMMA StepActive ==
  ASSUME TypeInv, RoomForLoad, Active, Next
  PROVE  Active'
<1> USE DEF reqFixed, reqVars, mapVars, pVars, outsideRun, outsideC, outsideP
<1>1. ASSUME NEW r \in Reqs, Handler(r) PROVE Active'
  <2>1. UNCHANGED <<ppc, pending, activeLoading, loaded>>
    BY <1>1 DEF Handler, GetRunner, CheckReload, UseRunner, Enqueue, CtxDone, WatchFinished
  <2> QED
    BY <2>1, ActiveKept
<1>2. ASSUME NEW rn \in Reqs, RunnerStep(rn) PROVE Active'
  <2>1. UNCHANGED <<ppc, pending, activeLoading, loaded>>
    BY <1>2 DEF RunnerStep, WaitUntilRunning, WaitUntilRunningOk,
       WaitUntilRunningFailed, TimerFires, TimerCallback, ResendExpired, UnblockSender
  <2> QED
    BY <2>1, ActiveKept
<1>3. CASE ProcessPending
  <2>1. CASE LoadStartServer
    <3>1. /\ UNCHANGED <<pending, loaded, req>> /\ ppc = "load" /\ ppc' \in {"loading", "panic"}
          /\ activeLoading' = pending \/ activeLoading' = activeLoading
      BY <2>1 DEF LoadStartServer, PReady
    <3> QED
      BY <3>1 DEF Active, RoomForLoad, Key, Serving
  <2>2. CASE LoadSucceeded \/ LoadNoServer
    BY <2>2 DEF LoadSucceeded, LoadNoServer, Active
  <2>3. CASE \E oom, reducible \in BOOLEAN : LoadFailed(oom, reducible)
    BY <2>3 DEF LoadFailed, Active
  <2>4. CASE Receive \/ PendingUseRunner
    BY <2>4 DEF Receive, PendingUseRunner, PReady, Active
  <2>5. CASE Evaluate
    <3>1. /\ UNCHANGED <<pending, loaded, req, activeLoading>> /\ ppc = "eval"
          /\ loaded[Key(pending)] = None => ppc' \in {"find", "panic", "refresh"}
      BY <2>5 DEF Evaluate, PReady
    <3> QED
      BY <3>1 DEF Active, Key, Serving
  <2>6. CASE \/ IgnoreUnloaded \/ PendingCheckReload \/ RefreshGPUs \/ UpdateFreeSpace
             \/ LoadPredictedTooBig \/ LoadRequiredFull \/ FindSnapshot \/ FindScan
             \/ ExpireToMakeRoom \/ UnloadObserved \/ EvictSnapshot \/ EvictNext
             \/ EvictObserved \/ PendingLoopExit
    <3>1. UNCHANGED <<pending, loaded, req, activeLoading>>
      BY <2>6 DEF IgnoreUnloaded, PendingCheckReload, RefreshGPUs, UpdateFreeSpace,
         LoadPredictedTooBig, LoadRequiredFull, FindSnapshot, FindScan, ExpireToMakeRoom,
         UnloadObserved, EvictSnapshot, EvictNext, EvictObserved, PendingLoopExit
    <3>2. \/ ppc' = ppc
          \/ ppc' \in {"recv", "check", "use"} /\ ppc \in {"recv", "check", "use"}
          \/ ppc' \notin {"recv", "check", "use"} /\ ppc \in Serving
          \/ ppc' = "exited"
      BY <2>6 DEF IgnoreUnloaded, PendingCheckReload, RefreshGPUs, UpdateFreeSpace,
         LoadPredictedTooBig, LoadRequiredFull, FindSnapshot, FindScan, ExpireToMakeRoom,
         UnloadObserved, EvictSnapshot, EvictNext, EvictObserved, PendingLoopExit, PReady,
         AfterRetry, Serving
    <3> QED
      BY <3>1, <3>2 DEF Active, Key, Serving
  <2> QED
    BY <1>3, <2>1, <2>2, <2>3, <2>4, <2>5, <2>6 DEF ProcessPending, LoadStep
<1>4. CASE ProcessCompleted
  <2>1. UNCHANGED <<activeLoading, ppc, pending>>
    BY <1>4 DEF ProcessCompleted, ReceiveFinished, FinishRequest, ReceiveExpired,
       ExpiredInUse, ExpiredIdle, VRAMRecovered, SendUnloaded, CompletedLoopExit
  <2>2. loaded' = loaded \/ loaded' = [loaded EXCEPT ![Key(crunner)] = None]
    BY <1>4 DEF ProcessCompleted, ReceiveFinished, FinishRequest, ReceiveExpired,
       ExpiredInUse, ExpiredIdle, VRAMRecovered, SendUnloaded, CompletedLoopExit
  <2>3. loaded' = loaded \/ \E k \in Models : loaded' = [loaded EXCEPT ![k] = None]
    BY <2>2 DEF TypeInv, TypeOK, MapTypeOK
  <2> QED
    BY <2>1, <2>3, ActiveKept
<1>5. ASSUME NEW a \in Apis, Api(a) PROVE Active'
  <2>1. UNCHANGED <<ppc, pending, loaded>> /\ activeLoading' \in {None, activeLoading}
    BY <1>5 DEF Api, ApiLookup, ApiRuntimeOOM, ApiVisit, ApiReturn, ShutdownCancel,
       UnloadAllRunners, RunnerCrash
  <2> QED
    BY <2>1, ActiveKept
<1>6. CASE Finished
  BY <1>6, ActiveKept DEF Finished, vars
<1>7. QED
  BY <1>1, <1>2, <1>3, <1>4, <1>5, <1>6 DEF Next

\* Steps that start no process and take none out of the scheduler's sight.
LEMMA ProcessesKept ==
  ASSUME NoLostProcess,
         \A rn \in Reqs : proc'[rn] = "up" => proc[rn] = "up",
         UNCHANGED <<loaded, activeLoading>>
  PROVE  NoLostProcess'
BY DEF NoLostProcess, LoadedRunners, LoadedKeys

LEMMA StepNoLostProcess ==
  ASSUME TypeInv, RoomForLoad, Active, NoLostProcess, Next
  PROVE  NoLostProcess'
<1> USE DEF reqFixed, reqVars, runVars, mapVars, outsideRun, outsideC, outsideP
<1>1. ASSUME NEW r \in Reqs, Handler(r) PROVE NoLostProcess'
  <2>1. UNCHANGED <<proc, activeLoading, loaded>>
    BY <1>1 DEF Handler, GetRunner, CheckReload, UseRunner, UseLoadedRunner, Enqueue,
       CtxDone, WatchFinished
  <2> QED
    BY <2>1, ProcessesKept
<1>2. ASSUME NEW rn \in Reqs, RunnerStep(rn) PROVE NoLostProcess'
  <2>1. UNCHANGED <<proc, activeLoading, loaded>>
    BY <1>2 DEF RunnerStep, WaitUntilRunning, WaitUntilRunningOk,
       WaitUntilRunningFailed, TimerFires, TimerCallback, ResendExpired, UnblockSender
  <2> QED
    BY <2>1, ProcessesKept
<1>3. CASE ProcessPending
  <2>1. CASE LoadStartServer
    <3>1. loaded' = loaded /\ \/ UNCHANGED <<proc, activeLoading>>
                              \/ /\ activeLoading = None /\ activeLoading' = pending
                                 /\ proc' = [proc EXCEPT ![pending] = "up"]
      BY <2>1 DEF LoadStartServer
    <3> QED
      BY <3>1, ConstantAssumption
      DEF NoLostProcess, LoadedRunners, LoadedKeys, TypeInv, TypeOK, RunnerTypeOK
  <2>2. CASE LoadSucceeded
    <3>1. /\ pending \in Reqs /\ Key(pending) \in Models /\ loaded[Key(pending)] = None
          /\ loaded' = [loaded EXCEPT ![Key(pending)] = pending]
      BY <2>2, LoadSucceededEffect
    <3>2. \A rn \in Reqs : proc'[rn] = "up" => proc[rn] = "up"
      BY <2>2 DEF LoadSucceeded
    <3>3. activeLoading \in {None, pending}
      BY DEF Active
    <3>4. loaded'[Key(pending)] = pending
          /\ \A m \in Models : loaded[m] # None => loaded'[m] = loaded[m]
      BY <3>1 DEF TypeInv, TypeOK, MapTypeOK
    <3>5. LoadedRunners' = LoadedRunners \cup {pending}
      BY <3>1, <3>4, ConstantAssumption DEF LoadedRunners, LoadedKeys, TypeInv, TypeOK, MapTypeOK
    <3> QED
      BY <3>2, <3>3, <3>5, ConstantAssumption DEF NoLostProcess
  <2>3. CASE \E oom, reducible \in BOOLEAN : LoadFailed(oom, reducible)
    <3>1. loaded' = loaded /\ \/ UNCHANGED <<proc, activeLoading>>
                              \/ /\ activeLoading # None /\ activeLoading' = None
                                 /\ proc' = [proc EXCEPT ![activeLoading] = "dead"]
      BY <2>3 DEF LoadFailed
    <3> QED
      BY <3>1 DEF NoLostProcess, LoadedRunners, LoadedKeys, TypeInv, TypeOK, RunnerTypeOK,
         MapTypeOK
  <2>4. CASE ~LoadStartServer /\ ~LoadSucceeded
             /\ ~ \E oom, reducible \in BOOLEAN : LoadFailed(oom, reducible)
    <3>1. UNCHANGED <<proc, activeLoading, loaded>>
      BY <1>3, <2>4 DEF ProcessPending, Receive, IgnoreUnloaded, Evaluate,
         PendingCheckReload, PendingUseRunner, UseLoadedRunner, RefreshGPUs,
         UpdateFreeSpace, LoadStep, LoadNoServer, LoadPredictedTooBig,
         LoadRequiredFull, FindSnapshot, FindScan, ExpireToMakeRoom,
         UnloadObserved, EvictSnapshot, EvictNext, EvictObserved, PendingLoopExit
    <3> QED
      BY <3>1, ProcessesKept
  <2> QED
    BY <2>1, <2>2, <2>3, <2>4
<1>4. CASE ProcessCompleted
  <2>1. CASE ExpiredIdle
    <3>1. crunner \in Reqs
      BY <2>1 DEF ExpiredIdle, CReady, TypeInv, Chosen
    <3>2. CASE loaded[Key(crunner)] = crunner
      <4>1. /\ proc' = [proc EXCEPT ![crunner] = "dead"]
            /\ loaded' = [loaded EXCEPT ![Key(crunner)] = None]
            /\ activeLoading' = activeLoading
        BY <2>1, <3>1, <3>2, ConstantAssumption DEF ExpiredIdle, Unload
      <4>2. \A rn \in Reqs : proc'[rn] = "up" => proc[rn] = "up" /\ rn # crunner
        BY <3>1, <4>1 DEF TypeInv, TypeOK, RunnerTypeOK
      <4>3. LoadedRunners \subseteq LoadedRunners' \cup {crunner}
        <5>1. ASSUME NEW m \in Models, loaded[m] # None, loaded[m] # crunner
              PROVE  loaded'[m] = loaded[m]
          BY <3>2, <4>1, <5>1 DEF TypeInv, TypeOK, MapTypeOK
        <5> QED
          BY <5>1 DEF LoadedRunners, LoadedKeys
      <4> QED
        BY <4>1, <4>2, <4>3 DEF NoLostProcess
    <3>3. CASE loaded[Key(crunner)] # crunner
      <4>1. /\ UNCHANGED <<loaded, activeLoading>>
            /\ proc' = proc \/ proc' = [proc EXCEPT ![crunner] = "dead"]
        BY <2>1, <3>3 DEF ExpiredIdle, Unload
      <4>2. \A rn \in Reqs : proc'[rn] = "up" => proc[rn] = "up"
        BY <4>1 DEF TypeInv, TypeOK, RunnerTypeOK
      <4> QED
        BY <4>1, <4>2, ProcessesKept
    <3> QED
      BY <3>2, <3>3
  <2>2. CASE ~ExpiredIdle
    <3>1. UNCHANGED <<proc, activeLoading, loaded>>
      BY <1>4, <2>2 DEF ProcessCompleted, ReceiveFinished, FinishRequest, ReceiveExpired,
         ExpiredInUse, VRAMRecovered, SendUnloaded, CompletedLoopExit
    <3> QED
      BY <3>1, ProcessesKept
  <2> QED
    BY <2>1, <2>2
<1>5. ASSUME NEW a \in Apis, Api(a) PROVE NoLostProcess'
  <2>1. CASE UnloadAllRunners(a)
    BY <2>1 DEF UnloadAllRunners, NoLostProcess
  <2>2. CASE ApiVisit(a) \/ \E rn \in Reqs : RunnerCrash(a, rn)
    <3>1. /\ UNCHANGED <<loaded, activeLoading>>
          /\ \/ proc' = proc \/ proc' = [proc EXCEPT ![Head(todo[a])] = "dead"]
             \/ \E rn \in Reqs : proc' = [proc EXCEPT ![rn] = "dead"]
      BY <2>2 DEF ApiVisit, RunnerCrash
    <3>2. \A rn \in Reqs : proc'[rn] = "up" => proc[rn] = "up"
      BY <3>1 DEF TypeInv, TypeOK, RunnerTypeOK
    <3> QED
      BY <3>1, <3>2, ProcessesKept
  <2>3. CASE ~UnloadAllRunners(a) /\ ~ApiVisit(a) /\ ~ \E rn \in Reqs : RunnerCrash(a, rn)
    <3>1. UNCHANGED <<proc, activeLoading, loaded>>
      BY <1>5, <2>3 DEF Api, ApiLookup, ApiRuntimeOOM, ApiReturn, ShutdownCancel
    <3> QED
      BY <3>1, ProcessesKept
  <2> QED
    BY <2>1, <2>2, <2>3
<1>6. CASE Finished
  BY <1>6, ProcessesKept DEF Finished, vars
<1>7. QED
  BY <1>1, <1>2, <1>3, <1>4, <1>5, <1>6 DEF Next

LEMMA ProcessInvariant == Spec => [](Active /\ NoLostProcess)
<1>1. Init => Active /\ NoLostProcess
  BY DEF Init, Active, NoLostProcess
<1>2. TypeInv /\ RoomForLoad /\ Active /\ NoLostProcess /\ [Next]_vars
        => (Active /\ NoLostProcess)'
  <2>1. TypeInv /\ RoomForLoad /\ Active /\ NoLostProcess /\ Next => (Active /\ NoLostProcess)'
    BY StepActive, StepNoLostProcess
  <2>2. Active /\ NoLostProcess /\ UNCHANGED vars => (Active /\ NoLostProcess)'
    BY DEF vars, reqVars, runVars, mapVars, pVars, Active, Key, NoLostProcess, LoadedRunners,
       LoadedKeys
  <2> QED
    BY <2>1, <2>2
<1> QED
  BY <1>1, <1>2, TypeInvariant, RoomInvariant, PTL DEF Spec

\* Whatever is loaded, evicted, expired, stopped, or dies, every live subprocess is
\* that of a loaded runner or of the load in progress: none is left running behind
\* the scheduler's back.
THEOREM EveryProcessKnown == Spec => []NoLostProcess
BY ProcessInvariant, PTL

-----------------------------------------------------------------------------
(* The panics of processPending *)

\* A request is received once, and counted then.
Attempts ==
  \A r \in Reqs :
    /\ schedAttempts[r] <= 1
    /\ schedAttempts[r] = 1 => /\ rst[r] \notin {"new", "check", "use", "enqueue"}
                               /\ \A i \in 1 .. Len(pendingReqCh) : pendingReqCh[i] # r

\* A step that receives no request and queues none.
LEMMA AttemptsKept ==
  ASSUME TypeInv, Attempts, UNCHANGED <<schedAttempts, pendingReqCh>>,
         \A r \in Reqs : rst'[r] \in {"new", "check", "use", "enqueue"} =>
                         rst[r] \in {"new", "check", "use", "enqueue"}
  PROVE  Attempts'
BY DEF Attempts

LEMMA StepAttempts ==
  ASSUME TypeInv, Attempts, Next
  PROVE  Attempts'
<1> USE DEF reqFixed, reqVars, runVars, chanVars, outsideRun, outsideC, outsideP
<1> DEFINE Back == \A r \in Reqs : rst'[r] \in {"new", "check", "use", "enqueue"} =>
                                   rst[r] \in {"new", "check", "use", "enqueue"}
<1>0. rst \in [Reqs -> {"new", "check", "use", "enqueue", "queued", "granted",
                       "finishing", "done", "failed"}]
  BY DEF TypeInv, TypeOK, RequestTypeOK
<1>1. ASSUME NEW r \in Reqs, Handler(r) PROVE Attempts'
  <2>1. CASE Enqueue(r) /\ Len(pendingReqCh) < MaxQueue
    <3>1. /\ pendingReqCh' = Append(pendingReqCh, r) /\ schedAttempts' = schedAttempts
          /\ rst[r] = "enqueue" /\ rst' = [rst EXCEPT ![r] = "queued"]
      BY <2>1 DEF Enqueue
    <3>2. ASSUME NEW p \in Reqs, schedAttempts[p] = 1
          PROVE  /\ p # r /\ rst'[p] \notin {"new", "check", "use", "enqueue"}
                 /\ \A i \in 1 .. Len(pendingReqCh') : pendingReqCh'[i] # p
      <4>1. p # r /\ rst[p] \notin {"new", "check", "use", "enqueue"}
        BY <3>1, <3>2 DEF Attempts
      <4>2. ASSUME NEW i \in 1 .. Len(pendingReqCh') PROVE pendingReqCh'[i] # p
        <5>1. \/ i \in 1 .. Len(pendingReqCh) /\ pendingReqCh'[i] = pendingReqCh[i]
              \/ pendingReqCh'[i] = r
          BY <3>1 DEF TypeInv, TypeOK, ChannelTypeOK
        <5> QED
          BY <3>2, <4>1, <5>1 DEF Attempts
      <4> QED
        BY <1>0, <3>1, <4>1, <4>2
    <3> QED
      BY <3>1, <3>2 DEF Attempts
  <2>2. CASE ~(Enqueue(r) /\ Len(pendingReqCh) < MaxQueue)
    <3>1. UNCHANGED <<schedAttempts, pendingReqCh>>
      BY <1>1, <2>2 DEF Handler, GetRunner, CheckReload, UseRunner, UseLoadedRunner, Enqueue,
         CtxDone, WatchFinished
    <3>2. Back
      BY <1>0, <1>1, <2>2 DEF Handler, GetRunner, CheckReload, UseRunner, UseLoadedRunner,
         Enqueue, Fail, CtxDone, WatchFinished
    <3> QED
      BY <3>1, <3>2, AttemptsKept
  <2> QED
    BY <2>1, <2>2
<1>2. ASSUME NEW rn \in Reqs, RunnerStep(rn) PROVE Attempts'
  <2>1. UNCHANGED <<schedAttempts, pendingReqCh>> /\ Back
    BY <1>0, <1>2 DEF RunnerStep, WaitUntilRunning, WaitUntilRunningOk,
       WaitUntilRunningFailed, Fail, TimerFires, TimerCallback, ResendExpired, UnblockSender
  <2> QED
    BY <2>1, AttemptsKept
<1>3. CASE ProcessPending
  <2>1. CASE Receive
    <3>1. PICK p \in Reqs : p = Head(pendingReqCh)
      BY <2>1 DEF Receive, TypeInv, TypeOK, ChannelTypeOK
    <3>2. /\ pendingReqCh # <<>> /\ pendingReqCh' = Tail(pendingReqCh) /\ rst' = rst
          /\ schedAttempts' = [schedAttempts EXCEPT ![p] = @ + 1]
      BY <2>1, <3>1 DEF Receive
    <3>3. /\ Len(pendingReqCh) \in Nat \ {0} /\ p = pendingReqCh[1]
          /\ Len(pendingReqCh') = Len(pendingReqCh) - 1
          /\ \A i \in 1 .. Len(pendingReqCh') : pendingReqCh'[i] = pendingReqCh[i + 1]
      BY <3>1, <3>2 DEF TypeInv, TypeOK, ChannelTypeOK
    <3>4. rst[p] = "queued" /\ \A i \in 1 .. Len(pendingReqCh') : pendingReqCh'[i] # p
      BY <3>3 DEF TypeInv, OnePlace, Queue
    <3>5. schedAttempts \in [Reqs -> Nat] /\ schedAttempts[p] = 0
      <4>1. schedAttempts \in [Reqs -> Nat] /\ schedAttempts[p] <= 1
        BY DEF Attempts, TypeInv, TypeOK, RequestTypeOK
      <4>2. 1 \in 1 .. Len(pendingReqCh)
        BY <3>3
      <4>3. schedAttempts[p] # 1
        BY <3>3, <4>2 DEF Attempts
      <4>4. schedAttempts[p] \in Nat
        BY <4>1
      <4> QED
        BY <4>1, <4>3, <4>4
    <3>6. ASSUME NEW r \in Reqs, r # p, schedAttempts[r] = 1, NEW i \in 1 .. Len(pendingReqCh')
          PROVE  pendingReqCh'[i] # r
      BY <3>3, <3>6 DEF Attempts
    <3>7. schedAttempts'[p] = 1 /\ \A r \in Reqs : r # p => schedAttempts'[r] = schedAttempts[r]
      BY <3>2, <3>5
    <3>8. ASSUME NEW r \in Reqs, r # p
          PROVE  /\ schedAttempts'[r] <= 1
                 /\ schedAttempts'[r] = 1 =>
                      /\ rst'[r] \notin {"new", "check", "use", "enqueue"}
                      /\ \A i \in 1 .. Len(pendingReqCh') : pendingReqCh'[i] # r
      <4>1. /\ schedAttempts[r] <= 1
            /\ schedAttempts[r] = 1 => rst[r] \notin {"new", "check", "use", "enqueue"}
        BY DEF Attempts
      <4> QED
        BY <3>2, <3>6, <3>7, <3>8, <4>1
    <3>9. rst'[p] = "queued"
      BY <3>2, <3>4
    <3>10. ASSUME NEW r \in Reqs
           PROVE  /\ schedAttempts'[r] <= 1
                  /\ schedAttempts'[r] = 1 =>
                       /\ rst'[r] \notin {"new", "check", "use", "enqueue"}
                       /\ \A i \in 1 .. Len(pendingReqCh') : pendingReqCh'[i] # r
      <4>1. CASE r = p
        BY <3>4, <3>7, <3>9, <4>1
      <4>2. CASE r # p
        BY <3>8, <4>2
      <4> QED
        BY <4>1, <4>2
    <3> QED
      BY <3>10 DEF Attempts
  <2>2. CASE ~Receive
    <3>1. UNCHANGED <<schedAttempts, pendingReqCh>>
      BY <1>3, <2>2 DEF ProcessPending, IgnoreUnloaded, Evaluate,
         PendingCheckReload, PendingUseRunner, UseLoadedRunner, RefreshGPUs,
         UpdateFreeSpace, LoadStep, LoadNoServer, LoadPredictedTooBig, LoadStartServer,
         LoadRequiredFull, LoadFailed, LoadSucceeded, FindSnapshot, FindScan,
         ExpireToMakeRoom, UnloadObserved, EvictSnapshot, EvictNext, EvictObserved,
         PendingLoopExit
    <3>2. rst' = rst \/ \E s \in {"granted", "failed"} : rst' = [rst EXCEPT ![pending] = s]
      BY <1>3, <2>2 DEF ProcessPending, IgnoreUnloaded, Evaluate,
         PendingCheckReload, PendingUseRunner, UseLoadedRunner, RefreshGPUs,
         UpdateFreeSpace, LoadStep, LoadNoServer, LoadPredictedTooBig, LoadStartServer,
         LoadRequiredFull, LoadFailed, LoadSucceeded, FindSnapshot, FindScan,
         ExpireToMakeRoom, UnloadObserved, EvictSnapshot, EvictNext, EvictObserved,
         PendingLoopExit, Fail
    <3>3. Back
      BY <1>0, <3>2
    <3> QED
      BY <3>1, <3>3, AttemptsKept
  <2> QED
    BY <2>1, <2>2
<1>4. CASE ProcessCompleted
  <2>1. UNCHANGED <<schedAttempts, pendingReqCh>> /\ Back
    BY <1>0, <1>4 DEF ProcessCompleted, ReceiveFinished, FinishRequest, ReceiveExpired,
       ExpiredInUse, ExpiredIdle, VRAMRecovered, SendUnloaded, CompletedLoopExit
  <2> QED
    BY <2>1, AttemptsKept
<1>5. ASSUME NEW a \in Apis, Api(a) PROVE Attempts'
  <2>1. UNCHANGED <<schedAttempts, pendingReqCh, rst>>
    BY <1>5 DEF Api, ApiLookup, ApiRuntimeOOM, ApiVisit, ApiReturn, ShutdownCancel,
       UnloadAllRunners, RunnerCrash
  <2> QED
    BY <2>1, AttemptsKept
<1>6. CASE Finished
  BY <1>6, AttemptsKept DEF Finished, vars
<1>7. QED
  BY <1>1, <1>2, <1>3, <1>4, <1>5, <1>6 DEF Next

\* Without calls that forget activeLoading, a load has its server there until it
\* is over, and processPending does not panic.
Sure == /\ ppc = "loading" => activeLoading # None
        /\ \A a \in Apis : apc[a] # "unloadall"
        /\ NoPanic

LEMMA StepSure ==
  ASSUME {"stopall", "shutdown"} \cap ApiKinds = {}, TypeInv, Active, Attempts, Sure, Next
  PROVE  Sure'
<1> USE DEF reqFixed, mapVars, pVars, apiVars, outsideRun, outsideC, outsideP, NoPanic, Panicked
<1>1. ASSUME NEW r \in Reqs, Handler(r) PROVE Sure'
  BY <1>1 DEF Sure, Handler, GetRunner, CheckReload, UseRunner, Enqueue, CtxDone, WatchFinished
<1>2. ASSUME NEW rn \in Reqs, RunnerStep(rn) PROVE Sure'
  BY <1>2 DEF Sure, RunnerStep, WaitUntilRunning, WaitUntilRunningOk,
     WaitUntilRunningFailed, TimerFires, TimerCallback, ResendExpired, UnblockSender
<1>3. CASE ProcessPending
  <2>1. CASE Evaluate
    <3>1. apc' = apc /\ ppc = "eval" /\ (schedAttempts[pending] > 1 \/ ppc' \notin {"loading", "panic"})
      BY <2>1 DEF Evaluate, PReady
    <3>2. schedAttempts[pending] <= 1 /\ schedAttempts[pending] \in Nat
      BY <3>1, ServedRequest DEF Attempts, Serving, TypeInv, TypeOK, RequestTypeOK
    <3> QED
      BY <3>1, <3>2 DEF Sure
  <2>2. CASE LoadStartServer
    <3>1. activeLoading # None => activeLoading = pending
      BY DEF Active
    <3>2. pending # None
      BY <2>2, ServedRequest, ConstantAssumption DEF LoadStartServer, PReady, Serving
    <3> QED
      BY <2>2, <3>1, <3>2 DEF LoadStartServer, Sure
  <2>3. CASE \E oom, reducible \in BOOLEAN : LoadFailed(oom, reducible)
    BY <2>3 DEF LoadFailed, PReady, AfterRetry, Sure
  <2>4. CASE LoadSucceeded \/ LoadNoServer \/ Receive \/ PendingUseRunner
    BY <2>4 DEF LoadSucceeded, LoadNoServer, Receive, PendingUseRunner, Sure
  <2>5. CASE \/ IgnoreUnloaded \/ PendingCheckReload \/ RefreshGPUs \/ UpdateFreeSpace
             \/ LoadPredictedTooBig \/ LoadRequiredFull \/ FindSnapshot \/ FindScan
             \/ ExpireToMakeRoom \/ UnloadObserved \/ EvictSnapshot \/ EvictNext
             \/ EvictObserved \/ PendingLoopExit
    <3>1. /\ apc' = apc /\ activeLoading' = activeLoading
          /\ ppc' = ppc \/ ppc' \notin {"loading", "panic"}
      BY <2>5 DEF IgnoreUnloaded, PendingCheckReload, RefreshGPUs, UpdateFreeSpace,
         LoadPredictedTooBig, LoadRequiredFull, FindSnapshot, FindScan, ExpireToMakeRoom,
         UnloadObserved, EvictSnapshot, EvictNext, EvictObserved, PendingLoopExit, AfterRetry
    <3> QED
      BY <3>1 DEF Sure
  <2> QED
    BY <1>3, <2>1, <2>2, <2>3, <2>4, <2>5 DEF ProcessPending, LoadStep
<1>4. CASE ProcessCompleted
  <2>1. UNCHANGED <<ppc, activeLoading, apc>>
    BY <1>4 DEF ProcessCompleted, ReceiveFinished, FinishRequest, ReceiveExpired,
       ExpiredInUse, ExpiredIdle, VRAMRecovered, SendUnloaded, CompletedLoopExit
  <2> QED
    BY <2>1 DEF Sure
<1>5. ASSUME NEW a \in Apis, Api(a) PROVE Sure'
  <2>1. ~ShutdownCancel(a) /\ ~UnloadAllRunners(a)
    BY DEF ShutdownCancel, UnloadAllRunners, Sure
  <2>2. /\ UNCHANGED <<ppc, activeLoading>>
        /\ apc' = apc \/ \E k \in {"expire", "stop", "oom", "done"} : apc' = [apc EXCEPT ![a] = k]
    BY <1>5, <2>1 DEF Api, ApiLookup, ApiRuntimeOOM, ApiVisit, ApiReturn, RunnerCrash
  <2> QED
    BY <2>2 DEF Sure, TypeInv, TypeOK, ApiTypeOK
<1>6. CASE Finished
  BY <1>6 DEF Finished, vars, Sure
<1>7. QED
  BY <1>1, <1>2, <1>3, <1>4, <1>5, <1>6 DEF Next

LEMMA AttemptsInvariant == Spec => []Attempts
<1>1. Init => Attempts
  BY DEF Init, Attempts
<1>2. TypeInv /\ Attempts /\ [Next]_vars => Attempts'
  <2>1. TypeInv /\ Attempts /\ UNCHANGED vars => Attempts'
    BY AttemptsKept DEF vars, reqVars, chanVars
  <2> QED
    BY <2>1, StepAttempts
<1> QED
  BY <1>1, <1>2, TypeInvariant, PTL DEF Spec

\* Where nobody calls unloadAllRunners while a model loads (the stop of all models,
\* or the shutdown), processPending never panics: it never comes back to a load
\* with another request's server in activeLoading, never receives a request twice
\* and so never reaches the branch that uses a nil runner, and never closes a nil
\* server.
THEOREM NeverPanics ==
  ASSUME {"stopall", "shutdown"} \cap ApiKinds = {}
  PROVE  Spec => []NoPanic
<1>1. Init => Sure
  BY DEF Init, Sure, NoPanic, Panicked
<1>2. TypeInv /\ Active /\ Attempts /\ Sure /\ [Next]_vars => Sure'
  <2>1. TypeInv /\ Active /\ Attempts /\ Sure /\ Next => Sure'
    BY StepSure
  <2>2. Sure /\ UNCHANGED vars => Sure'
    BY DEF vars, mapVars, pVars, apiVars, Sure, NoPanic, Panicked
  <2> QED
    BY <2>1, <2>2
<1>3. Sure => NoPanic
  BY DEF Sure
<1> QED
  BY <1>1, <1>2, <1>3, TypeInvariant, ProcessInvariant, AttemptsInvariant, PTL DEF Spec

-----------------------------------------------------------------------------
(* Idle runners *)

\* The request that loaded a runner has been answered, or waits for the load.
Fresh == \A r \in Reqs : rstate[r] # "none" => rst[r] \in Answered \/ refMu[r] = "load"

\* While processCompleted waits for VRAM to recover, its runner is unloaded for good.
Recovering == cpc = "vram" => rstate[crunner] = "unloaded" /\ rst[crunner] \in Answered

In(q, x) == \E i \in 1 .. Len(q) : q[i] = x

\* Something will still look at whether rn has been idle for long enough.
Due(rn) == \/ expireTimer[rn] = "armed" \/ callbacks[rn] > 0 \/ resends[rn] > 0
           \/ refMu[rn] # "free" \/ In(expiredCh, rn) \/ (cpc = "expire" /\ crunner = rn)

LEMMA InAppend ==
  ASSUME NEW q \in Seq(Reqs), NEW x \in Reqs
  PROVE  In(Append(q, x), x) /\ \A y : In(q, y) => In(Append(q, x), y)
<1>1. /\ Len(Append(q, x)) = Len(q) + 1 /\ Append(q, x)[Len(q) + 1] = x
      /\ Len(q) \in Nat /\ \A i \in 1 .. Len(q) : Append(q, x)[i] = q[i]
  OBVIOUS
<1>2. In(Append(q, x), x)
  <2>1. Len(q) + 1 \in 1 .. Len(Append(q, x))
    BY <1>1
  <2> QED
    BY <1>1, <2>1 DEF In
<1>3. ASSUME NEW y, In(q, y) PROVE In(Append(q, x), y)
  <2>1. PICK i \in 1 .. Len(q) : q[i] = y
    BY <1>3 DEF In
  <2>2. i \in 1 .. Len(Append(q, x)) /\ Append(q, x)[i] = y
    BY <1>1, <2>1
  <2> QED
    BY <2>2 DEF In
<1> QED
  BY <1>2, <1>3

LEMMA InTail ==
  ASSUME NEW q \in Seq(Reqs), q # <<>>, NEW y, In(q, y), y # Head(q)
  PROVE  In(Tail(q), y)
<1>1. PICK i \in 1 .. Len(q) : q[i] = y
  BY DEF In
<1>2. i # 1 /\ Len(q) \in Nat \ {0} /\ Len(Tail(q)) = Len(q) - 1
  BY <1>1
<1>3. i - 1 \in 1 .. Len(Tail(q)) /\ Tail(q)[i - 1] = q[i]
  BY <1>1, <1>2
<1> QED
  BY <1>1, <1>3 DEF In

\* An expired event is on its way once it is sent, and the others still are.
LEMMA SendDue ==
  ASSUME TypeInv, NEW x \in Reqs, NEW who \in {"P", "C", "other"}, SendExpired(x, who)
  PROVE  /\ refMu'[x] # "free" \/ In(expiredCh', x)
         /\ \A y \in Reqs : y # x => refMu'[y] = refMu[y]
         /\ \A y : In(expiredCh, y) => In(expiredCh', y)
<1>1. expiredCh \in Seq(Reqs) /\ DOMAIN refMu = Reqs
  BY DEF TypeInv, TypeOK, ChannelTypeOK, RunnerTypeOK
<1>2. CASE ExpiredFull
  BY <1>1, <1>2 DEF SendExpired, TypeInv, TypeOK, RunnerTypeOK
<1>3. CASE ~ExpiredFull
  <2>1. expiredCh' = Append(expiredCh, x) /\ refMu' = [refMu EXCEPT ![x] = "free"]
    BY <1>3 DEF SendExpired
  <2>2. In(expiredCh', x) /\ \A y : In(expiredCh, y) => In(expiredCh', y)
    BY <1>1, <2>1, InAppend
  <2>3. \A y \in Reqs : y # x => refMu'[y] = refMu[y]
    BY <1>1, <2>1
  <2> QED
    BY <2>2, <2>3
<1> QED
  BY <1>2, <1>3

\* An answer is given for good.
LEMMA AnsweredKept ==
  ASSUME TypeInv, Next
  PROVE  \A r \in Reqs : rst[r] \in Answered => rst'[r] \in Answered
<1> DEFINE Kept == \A r \in Reqs : rst[r] \in Answered => rst'[r] \in Answered
<1> USE DEF reqFixed, reqVars, outsideRun, outsideC, outsideP, Answered
<1>0. rst \in [Reqs -> {"new", "check", "use", "enqueue", "queued", "granted",
                        "finishing", "done", "failed"}]
  BY DEF TypeInv, TypeOK, RequestTypeOK
<1>1. ASSUME NEW r \in Reqs, Handler(r) PROVE Kept
  <2>1. \/ rst[r] = "new"
        \/ rst' = rst
        \/ \E s \in {"granted", "finishing", "failed"} : rst' = [rst EXCEPT ![r] = s]
        \/ rst[r] = "check" /\ \E s \in {"enqueue", "use"} : rst' = [rst EXCEPT ![r] = s]
        \/ rst[r] = "enqueue" /\ rst' = [rst EXCEPT ![r] = "queued"]
    BY <1>1 DEF Handler, GetRunner, CheckReload, UseRunner, UseLoadedRunner, Enqueue, Fail,
       CtxDone, WatchFinished
  <2>2. CASE rst[r] = "new"
    <3>1. \A p \in Reqs : p # r => rst'[p] = rst[p]
      BY <1>0, <1>1, <2>2 DEF Handler, GetRunner, CheckReload, UseRunner, Enqueue,
         CtxDone, WatchFinished
    <3> QED
      BY <2>2, <3>1
  <2> QED
    BY <1>0, <2>1, <2>2
<1>2. ASSUME NEW rn \in Reqs, RunnerStep(rn) PROVE Kept
  BY <1>0, <1>2 DEF RunnerStep, WaitUntilRunning, WaitUntilRunningOk,
     WaitUntilRunningFailed, Fail, TimerFires, TimerCallback, ResendExpired, UnblockSender
<1>3. CASE ProcessPending
  <2>1. rst' = rst \/ \E s \in {"granted", "failed"} : rst' = [rst EXCEPT ![pending] = s]
    BY <1>3 DEF ProcessPending, Receive, IgnoreUnloaded, Evaluate, PendingCheckReload,
       PendingUseRunner, UseLoadedRunner, RefreshGPUs, UpdateFreeSpace, LoadStep,
       LoadNoServer, LoadPredictedTooBig, LoadStartServer, LoadRequiredFull, LoadFailed,
       LoadSucceeded, FindSnapshot, FindScan, ExpireToMakeRoom, UnloadObserved,
       EvictSnapshot, EvictNext, EvictObserved, PendingLoopExit, Fail
  <2> QED
    BY <1>0, <2>1
<1>4. CASE ProcessCompleted
  <2>1. rst' = rst \/ \E r : rst' = [rst EXCEPT ![r] = "done"]
    BY <1>4 DEF ProcessCompleted, ReceiveFinished, FinishRequest, ReceiveExpired,
       ExpiredInUse, ExpiredIdle, VRAMRecovered, SendUnloaded, CompletedLoopExit
  <2> QED
    BY <1>0, <2>1
<1>5. ASSUME NEW a \in Apis, Api(a) PROVE Kept
  BY <1>5 DEF Api, ApiLookup, ApiRuntimeOOM, ApiVisit, ApiReturn, ShutdownCancel,
     UnloadAllRunners, RunnerCrash
<1>6. CASE Finished
  BY <1>6 DEF Finished, vars
<1>7. QED
  BY <1>1, <1>2, <1>3, <1>4, <1>5, <1>6 DEF Next

\* The mutex that is held for a load is given back with the answer.
LEMMA LoadHeld ==
  ASSUME TypeInv, Published, Recovering, Next, NEW r \in Reqs, refMu[r] = "load"
  PROVE  refMu'[r] = "load" \/ rst'[r] \in Answered
<1> USE DEF reqFixed, reqVars, runVars, outsideRun, outsideC, outsideP
<1> DEFINE Held == refMu'[r] = "load"
<1>0. ASSUME NEW x \in Reqs, Free(x), NEW who \in {"P", "C", "other"},
             SendExpired(x, who) \/ UNCHANGED refMu
      PROVE  Held
  <2>1. x # r
    BY <1>0 DEF Free
  <2> QED
    BY <1>0, <2>1, SendDue
<1>1. ASSUME NEW p \in Reqs, Handler(p) PROVE Held
  BY <1>1 DEF Handler, GetRunner, CheckReload, UseRunner, UseLoadedRunner, Enqueue,
     CtxDone, WatchFinished
<1>2. ASSUME NEW rn \in Reqs, RunnerStep(rn) PROVE Held \/ rst'[r] \in Answered
  <2>1. CASE TimerCallback(rn)
    BY <1>0, <2>1 DEF TimerCallback
  <2>2. CASE WaitUntilRunningFailed(rn)
    <3>1. rst' = [rst EXCEPT ![rn] = "failed"] /\ (rn # r => refMu'[r] = refMu[r])
      BY <2>2, SendDue DEF WaitUntilRunningFailed, Fail
    <3> QED
      BY <3>1 DEF Answered, TypeInv, TypeOK, RequestTypeOK
  <2>3. CASE WaitUntilRunningOk(rn)
    BY <2>3 DEF WaitUntilRunningOk, Answered, TypeInv, TypeOK, RequestTypeOK, RunnerTypeOK
  <2>4. CASE TimerFires(rn) \/ ResendExpired(rn) \/ UnblockSender(rn)
    BY <2>4 DEF TimerFires, ResendExpired, UnblockSender, TypeInv, TypeOK, RunnerTypeOK
  <2> QED
    BY <1>2, <2>1, <2>2, <2>3, <2>4 DEF RunnerStep, WaitUntilRunning
<1>3. CASE ProcessPending
  <2>1. CASE ExpireToMakeRoom
    <3>1. runnerToExpire \in Reqs
      BY <2>1 DEF ExpireToMakeRoom, PReady, TypeInv, Chosen
    <3> QED
      BY <1>0, <2>1, <3>1 DEF ExpireToMakeRoom, ExpireNow
  <2>2. CASE EvictNext
    <3>1. Head(visit) \in Reqs
      BY <2>2 DEF EvictNext, TypeInv, TypeOK, PendingTypeOK
    <3> QED
      BY <1>0, <2>2, <3>1 DEF EvictNext, ExpireNow
  <2>3. CASE LoadSucceeded
    BY <2>3 DEF LoadSucceeded, TypeInv, TypeOK, RunnerTypeOK
  <2>4. CASE ~ExpireToMakeRoom /\ ~EvictNext /\ ~LoadSucceeded
    BY <1>3, <2>4 DEF ProcessPending, Receive, IgnoreUnloaded, Evaluate,
       PendingCheckReload, PendingUseRunner, UseLoadedRunner, RefreshGPUs,
       UpdateFreeSpace, LoadStep, LoadNoServer, LoadPredictedTooBig, LoadStartServer,
       LoadRequiredFull, LoadFailed, FindSnapshot, FindScan, UnloadObserved,
       EvictSnapshot, EvictObserved, PendingLoopExit
  <2> QED
    BY <2>1, <2>2, <2>3, <2>4
<1>4. CASE ProcessCompleted
  <2>1. CASE FinishRequest
    <3>1. crunner \in Reqs
      BY <2>1, FinishRequestEffect
    <3> QED
      BY <1>0, <2>1, <3>1 DEF FinishRequest
  <2>2. CASE VRAMRecovered
    <3>1. rstate[crunner] = "unloaded" /\ refMu' = [refMu EXCEPT ![crunner] = "free"]
      BY <2>2 DEF VRAMRecovered, CReady, Recovering
    <3>2. crunner # r
      BY <3>1 DEF Published
    <3> QED
      BY <3>1, <3>2 DEF TypeInv, TypeOK, RunnerTypeOK
  <2>3. CASE ExpiredIdle
    <3>1. refMu' = refMu \/ refMu' = [refMu EXCEPT ![crunner] = "vram"]
      BY <2>3 DEF ExpiredIdle
    <3>2. crunner # r
      BY <2>3 DEF ExpiredIdle, Free
    <3> QED
      BY <3>1, <3>2 DEF TypeInv, TypeOK, RunnerTypeOK
  <2>4. CASE ~FinishRequest /\ ~VRAMRecovered /\ ~ExpiredIdle
    BY <1>4, <2>4 DEF ProcessCompleted, ReceiveFinished, ReceiveExpired, ExpiredInUse,
       SendUnloaded, CompletedLoopExit
  <2> QED
    BY <2>1, <2>2, <2>3, <2>4
<1>5. ASSUME NEW a \in Apis, Api(a) PROVE Held
  <2>1. CASE ApiVisit(a)
    <3>1. Head(todo[a]) \in Reqs
      BY <2>1 DEF ApiVisit, TypeInv, TypeOK, ApiTypeOK
    <3> QED
      BY <1>0, <2>1, <3>1 DEF ApiVisit, ExpireNow
  <2>2. CASE ~ApiVisit(a)
    BY <1>5, <2>2 DEF Api, ApiLookup, ApiRuntimeOOM, ApiReturn, ShutdownCancel,
       UnloadAllRunners, RunnerCrash
  <2> QED
    BY <2>1, <2>2
<1>6. CASE Finished
  BY <1>6 DEF Finished, vars
<1>7. QED
  BY <1>1, <1>2, <1>3, <1>4, <1>5, <1>6 DEF Next

\* Nothing concerns a runner that was never published: no timer, event, mutex, or
\* list of runners to visit.
Signal(rn) == \/ expireTimer[rn] # "nil" \/ callbacks[rn] # 0 \/ resends[rn] # 0
              \/ refMu[rn] # "free" \/ In(expiredCh, rn)

Listed(list) == \A i \in 1 .. Len(list) : rstate[list[i]] # "none"

Addressed ==
  /\ \A rn \in Reqs : Signal(rn) => rstate[rn] # "none"
  /\ cpc \in {"finish", "expire", "vram"} => rstate[crunner] # "none"
  /\ ppc \in {"check", "use", "scan", "expire"} => rstate[runnerToExpire] # "none"
  /\ Listed(visit)
  /\ \A a \in Apis : Listed(todo[a])

\* A loaded runner was published.
LEMMA LoadedPublished ==
  ASSUME TypeInv, Published, NEW rn \in LoadedRunners
  PROVE  rn \in Reqs /\ rstate[rn] # "none"
BY DEF Published, LoadedRunners, LoadedKeys, TypeInv, TypeOK, MapTypeOK, InService

\* A range over loaded runners lists runners that were published.
LEMMA OrdersListed ==
  ASSUME TypeInv, Published, NEW S, S \subseteq LoadedRunners, NEW list \in Orders(S)
  PROVE  Listed(list)
<1>1. ASSUME NEW i \in 1 .. Len(list) PROVE list[i] \in LoadedRunners
  <2>1. S \subseteq Reqs
    BY LoadedPublished
  <2>2. Len(list) = Cardinality(S) /\ list \in [1 .. Cardinality(S) -> S]
    BY <2>1, OrdersType DEF Orders
  <2> QED
    BY <2>2
<1> QED
  BY <1>1, LoadedPublished DEF Listed

LEMMA TailListed ==
  ASSUME NEW list \in Seq(Reqs), list # <<>>, Listed(list)
  PROVE  Head(list) \in Reqs /\ rstate[Head(list)] # "none" /\ Listed(Tail(list))
<1>1. /\ Len(list) \in Nat \ {0} /\ Len(Tail(list)) = Len(list) - 1 /\ Head(list) = list[1]
      /\ \A i \in 1 .. Len(Tail(list)) : Tail(list)[i] = list[i + 1] /\ i + 1 \in 1 .. Len(list)
      /\ 1 \in 1 .. Len(list) /\ Head(list) \in Reqs
  OBVIOUS
<1> QED
  BY <1>1 DEF Listed

\* What a list holds stays published.
LEMMA ListedKept ==
  ASSUME TypeInv, RoomForLoad, Published, Next, NEW list \in Seq(Reqs), Listed(list)
  PROVE  \A i \in 1 .. Len(list) : rstate'[list[i]] # "none"
<1>1. \A i \in 1 .. Len(list) : list[i] \in Reqs
  OBVIOUS
<1> QED
  BY <1>1, RunnerMoves DEF Listed

LEMMA StepLists ==
  ASSUME TypeInv, RoomForLoad, Published, Addressed, Next
  PROVE  Listed(visit)' /\ \A a \in Apis : Listed(todo[a])'
<1> USE DEF pVars, pLocals, apiVars, outsideRun, outsideC, outsideP
<1>0. visit \in Seq(Reqs) /\ todo \in [Apis -> Seq(Reqs)]
  BY DEF TypeInv, TypeOK, PendingTypeOK, ApiTypeOK
<1>1. /\ \/ visit' \in {visit, <<>>} \/ (visit # <<>> /\ visit' = Tail(visit))
         \/ \E S : S \subseteq LoadedRunners /\ visit' \in Orders(S)
      /\ \/ todo' = todo
         \/ \E a \in Apis :
              \/ todo' = [todo EXCEPT ![a] = <<>>]
              \/ todo[a] # <<>> /\ todo' = [todo EXCEPT ![a] = Tail(@)]
              \/ \E rn \in LoadedRunners : todo' = [todo EXCEPT ![a] = <<rn>>]
              \/ \E s \in Orders(LoadedRunners) : todo' = [todo EXCEPT ![a] = s]
  <2>1. ASSUME NEW r \in Reqs, Handler(r) PROVE UNCHANGED <<visit, todo>>
    BY <2>1 DEF Handler, GetRunner, CheckReload, UseRunner, Enqueue, CtxDone, WatchFinished
  <2>2. ASSUME NEW rn \in Reqs, RunnerStep(rn) PROVE UNCHANGED <<visit, todo>>
    BY <2>2 DEF RunnerStep, WaitUntilRunning, WaitUntilRunningOk,
       WaitUntilRunningFailed, TimerFires, TimerCallback, ResendExpired, UnblockSender
  <2>3. CASE ProcessPending
    <3>1. todo' = todo
      BY <2>3 DEF ProcessPending, Receive, IgnoreUnloaded, Evaluate, PendingCheckReload,
         PendingUseRunner, RefreshGPUs, UpdateFreeSpace, LoadStep, LoadNoServer,
         LoadPredictedTooBig, LoadStartServer, LoadRequiredFull, LoadFailed,
         LoadSucceeded, FindSnapshot, FindScan, ExpireToMakeRoom, UnloadObserved,
         EvictSnapshot, EvictNext, EvictObserved, PendingLoopExit
    <3>2. CASE RefreshGPUs \/ FindSnapshot \/ EvictSnapshot
      BY <3>1, <3>2 DEF RefreshGPUs, FindSnapshot, EvictSnapshot, SortedOrders
    <3>3. CASE UpdateFreeSpace \/ FindScan \/ EvictNext
      BY <3>1, <3>3 DEF UpdateFreeSpace, FindScan, EvictNext
    <3>4. CASE /\ ~RefreshGPUs /\ ~FindSnapshot /\ ~EvictSnapshot
               /\ ~UpdateFreeSpace /\ ~FindScan /\ ~EvictNext
      <4>1. visit' = visit
        BY <2>3, <3>4 DEF ProcessPending, Receive, IgnoreUnloaded, Evaluate,
           PendingCheckReload, PendingUseRunner, LoadStep, LoadNoServer,
           LoadPredictedTooBig, LoadStartServer, LoadRequiredFull, LoadFailed,
           LoadSucceeded, ExpireToMakeRoom, UnloadObserved, EvictObserved, PendingLoopExit
      <4> QED
        BY <3>1, <4>1
    <3> QED
      BY <3>2, <3>3, <3>4
  <2>4. CASE ProcessCompleted
    BY <2>4 DEF ProcessCompleted, ReceiveFinished, FinishRequest, ReceiveExpired,
       ExpiredInUse, ExpiredIdle, VRAMRecovered, SendUnloaded, CompletedLoopExit
  <2>5. ASSUME NEW a \in Apis, Api(a) PROVE <1>1!:
    <3>1. visit' = visit
      BY <2>5 DEF Api, ApiLookup, ApiRuntimeOOM, ApiVisit, ApiReturn, ShutdownCancel,
         UnloadAllRunners, RunnerCrash
    <3>2. ASSUME NEW kind, NEW m \in Models, ApiLookup(a, kind, m) PROVE <1>1!:
      BY <3>1, <3>2 DEF ApiLookup, LoadedRunners, LoadedKeys
    <3>3. CASE ~ \E kind \in {"expire", "stop"}, m \in Models : ApiLookup(a, kind, m)
      BY <2>5, <3>1, <3>3 DEF Api, ApiRuntimeOOM, ApiVisit, ApiReturn, ShutdownCancel,
         UnloadAllRunners, RunnerCrash
    <3> QED
      BY <3>2, <3>3
  <2>6. CASE Finished
    BY <2>6 DEF Finished, vars
  <2> QED
    BY <2>1, <2>2, <2>3, <2>4, <2>5, <2>6 DEF Next
<1>2. ASSUME NEW list \in Seq(Reqs), Listed(list)
      PROVE  /\ \A i \in 1 .. Len(list) : rstate'[list[i]] # "none"
             /\ list # <<>> => \A i \in 1 .. Len(Tail(list)) : rstate'[Tail(list)[i]] # "none"
  <2>1. list # <<>> => Tail(list) \in Seq(Reqs) /\ Listed(Tail(list))
    BY <1>2, TailListed
  <2> QED
    BY <1>2, <2>1, ListedKept
<1>3. ASSUME NEW S, S \subseteq LoadedRunners, NEW list \in Orders(S)
      PROVE  \A i \in 1 .. Len(list) : rstate'[list[i]] # "none"
  <2>1. S \subseteq Reqs
    BY <1>3, LoadedPublished
  <2>2. list \in Seq(Reqs) /\ Listed(list)
    BY <1>3, <2>1, OrdersType, OrdersListed
  <2> QED
    BY <2>2, ListedKept
<1>4. \A rn \in LoadedRunners : rstate'[rn] # "none"
  BY LoadedPublished, RunnerMoves
<1>5. \A i \in 1 .. Len(visit') : rstate'[visit'[i]] # "none"
  <2>1. \A i \in 1 .. Len(visit) : rstate'[visit[i]] # "none"
    BY <1>0, <1>2 DEF Addressed
  <2>2. visit # <<>> => \A i \in 1 .. Len(Tail(visit)) : rstate'[Tail(visit)[i]] # "none"
    BY <1>0, <1>2 DEF Addressed
  <2> QED
    BY <1>1, <1>3, <2>1, <2>2
<1>6. ASSUME NEW a \in Apis PROVE \A i \in 1 .. Len(todo'[a]) : rstate'[todo'[a][i]] # "none"
  <2>1. \/ todo'[a] \in {todo[a], <<>>} \/ (todo[a] # <<>> /\ todo'[a] = Tail(todo[a]))
        \/ \E rn \in LoadedRunners : todo'[a] = <<rn>>
        \/ todo'[a] \in Orders(LoadedRunners)
    BY <1>0, <1>1
  <2>2. todo[a] \in Seq(Reqs) /\ Listed(todo[a])
    BY <1>0 DEF Addressed
  <2>3. \A i \in 1 .. Len(todo[a]) : rstate'[todo[a][i]] # "none"
    BY <1>2, <2>2
  <2>4. todo[a] # <<>> => \A i \in 1 .. Len(Tail(todo[a])) : rstate'[Tail(todo[a])[i]] # "none"
    BY <1>2, <2>2
  <2>5. ASSUME NEW rn \in LoadedRunners, todo'[a] = <<rn>>
        PROVE  \A i \in 1 .. Len(todo'[a]) : rstate'[todo'[a][i]] # "none"
    BY <1>4, <2>5
  <2>6. CASE todo'[a] = <<>>
    BY <2>6
  <2> QED
    BY <1>3, <2>1, <2>3, <2>4, <2>5, <2>6
<1> QED
  BY <1>5, <1>6 DEF Listed

\* The runner that a loop holds after a step: the same, or one that was published.
HeldByCompleted ==
  cpc' \in {"finish", "expire", "vram"} =>
    \/ cpc \in {"finish", "expire", "vram"} /\ crunner' = crunner
    \/ crunner' \in Reqs /\ rstate[crunner'] # "none"

HeldByPending ==
  ppc' \in {"check", "use", "scan", "expire"} =>
    \/ ppc \in {"check", "use", "scan", "expire"} /\ runnerToExpire' = runnerToExpire
    \/ runnerToExpire' \in Reqs /\ rstate[runnerToExpire'] # "none"

LEMMA StepHeldByPending ==
  ASSUME TypeInv, Published, Addressed, Next
  PROVE  HeldByPending
<1> USE DEF pVars, pLocals, outsideRun, outsideC
<1>1. ASSUME NEW r \in Reqs, Handler(r) PROVE HeldByPending
  BY <1>1 DEF HeldByPending, Handler, GetRunner, CheckReload, UseRunner, Enqueue, CtxDone,
     WatchFinished
<1>2. ASSUME NEW rn \in Reqs, RunnerStep(rn) PROVE HeldByPending
  BY <1>2 DEF HeldByPending, RunnerStep, WaitUntilRunning, WaitUntilRunningOk,
     WaitUntilRunningFailed, TimerFires, TimerCallback, ResendExpired, UnblockSender
<1>3. CASE ProcessPending
  <2>1. ASSUME runnerToExpire' \in LoadedRunners PROVE HeldByPending
    BY <2>1, LoadedPublished DEF HeldByPending
  <2>2. CASE Evaluate
    <3>1. Key(pending) \in Models
      BY <2>2, ServedRequest DEF Evaluate, PReady, Serving
    <3>2. ppc' = "check" => runnerToExpire' \in LoadedRunners
      BY <2>2, <3>1 DEF Evaluate, LoadedRunners, LoadedKeys
    <3>3. ppc' \in {"check", "find", "panic", "refresh"}
      BY <2>2 DEF Evaluate
    <3> QED
      BY <2>1, <3>2, <3>3 DEF HeldByPending
  <2>3. CASE FindSnapshot
    <3>1. CASE LoadedRunners = {}
      BY <2>3, <3>1 DEF FindSnapshot, HeldByPending
    <3>2. CASE LoadedRunners # {}
      <4>1. visit' \in Orders(LoadedRunners) /\ runnerToExpire' = visit'[1]
        BY <2>3, <3>2 DEF FindSnapshot, SortedOrders
      <4>2. Cardinality(LoadedRunners) \in Nat /\ Cardinality(LoadedRunners) > 0
        BY <3>2, OrdersType, LoadedRunnersType DEF TypeInv, TypeOK
      <4>3. runnerToExpire' \in LoadedRunners
        BY <4>1, <4>2 DEF Orders
      <4> QED
        BY <2>1, <4>3
    <3> QED
      BY <3>1, <3>2
  <2>4. CASE FindScan
    <3>1. visit # <<>> => Head(visit) \in Reqs /\ rstate[Head(visit)] # "none"
      BY TailListed DEF TypeInv, TypeOK, PendingTypeOK, Addressed
    <3>2. \/ ppc = "scan" /\ runnerToExpire' = runnerToExpire
          \/ visit # <<>> /\ runnerToExpire' = Head(visit)
      BY <2>4 DEF FindScan, PReady
    <3> QED
      BY <3>1, <3>2 DEF HeldByPending
  <2>5. CASE ~Evaluate /\ ~FindSnapshot /\ ~FindScan
    BY <1>3, <2>5 DEF HeldByPending, ProcessPending, Receive, IgnoreUnloaded,
       PendingCheckReload, PendingUseRunner, RefreshGPUs, UpdateFreeSpace, LoadStep,
       LoadNoServer, LoadPredictedTooBig, LoadStartServer, LoadRequiredFull, LoadFailed,
       LoadSucceeded, ExpireToMakeRoom, UnloadObserved, EvictSnapshot, EvictNext,
       EvictObserved, PendingLoopExit, AfterRetry, PReady
  <2> QED
    BY <2>2, <2>3, <2>4, <2>5
<1>4. CASE ProcessCompleted
  BY <1>4 DEF HeldByPending, ProcessCompleted, ReceiveFinished, FinishRequest,
     ReceiveExpired, ExpiredInUse, ExpiredIdle, VRAMRecovered, SendUnloaded,
     CompletedLoopExit
<1>5. ASSUME NEW a \in Apis, Api(a) PROVE HeldByPending
  BY <1>5 DEF HeldByPending, Api, ApiLookup, ApiRuntimeOOM, ApiVisit, ApiReturn,
     ShutdownCancel, UnloadAllRunners, RunnerCrash
<1>6. CASE Finished
  BY <1>6 DEF HeldByPending, Finished, vars
<1>7. QED
  BY <1>1, <1>2, <1>3, <1>4, <1>5, <1>6 DEF Next

LEMMA StepHeldByCompleted ==
  ASSUME TypeInv, Published, Addressed, Next
  PROVE  HeldByCompleted
<1> USE DEF cVars, outsideRun, outsideP
<1>1. ASSUME NEW r \in Reqs, Handler(r) PROVE HeldByCompleted
  BY <1>1 DEF HeldByCompleted, Handler, GetRunner, CheckReload, UseRunner, Enqueue,
     CtxDone, WatchFinished
<1>2. ASSUME NEW rn \in Reqs, RunnerStep(rn) PROVE HeldByCompleted
  BY <1>2 DEF HeldByCompleted, RunnerStep, WaitUntilRunning, WaitUntilRunningOk,
     WaitUntilRunningFailed, TimerFires, TimerCallback, ResendExpired, UnblockSender
<1>3. CASE ProcessPending
  BY <1>3 DEF HeldByCompleted, ProcessPending, Receive, IgnoreUnloaded, Evaluate,
     PendingCheckReload, PendingUseRunner, RefreshGPUs, UpdateFreeSpace, LoadStep,
     LoadNoServer, LoadPredictedTooBig, LoadStartServer, LoadRequiredFull, LoadFailed,
     LoadSucceeded, FindSnapshot, FindScan, ExpireToMakeRoom, UnloadObserved,
     EvictSnapshot, EvictNext, EvictObserved, PendingLoopExit, outsideC
<1>4. CASE ProcessCompleted
  <2>1. CASE ReceiveFinished
    <3>1. PICK r \in Reqs : r = Head(finishedReqCh)
      BY <2>1 DEF ReceiveFinished, TypeInv, TypeOK, ChannelTypeOK
    <3>2. rst[r] # "new" /\ cpc = "recv"
      <4>1. 1 \in 1 .. Len(finishedReqCh) /\ r = finishedReqCh[1]
        BY <2>1, <3>1 DEF ReceiveFinished, TypeInv, TypeOK, ChannelTypeOK
      <4> QED
        BY <2>1, <4>1 DEF ReceiveFinished, CReady, TypeInv, FinishedEvents
    <3>3. Key(r) \in Models
      BY <3>2, KeyType
    <3>4. cpc' = "recv" \/ crunner' \in LoadedRunners
      BY <2>1, <3>1, <3>2, <3>3 DEF ReceiveFinished, LoadedRunners, LoadedKeys
    <3> QED
      BY <3>4, LoadedPublished DEF HeldByCompleted
  <2>3. CASE ReceiveExpired
    <3>1. PICK x \in Reqs : x = Head(expiredCh)
      BY <2>3 DEF ReceiveExpired, TypeInv, TypeOK, ChannelTypeOK
    <3>2. In(expiredCh, x)
      <4>1. 1 \in 1 .. Len(expiredCh) /\ x = expiredCh[1]
        BY <2>3, <3>1 DEF ReceiveExpired, TypeInv, TypeOK, ChannelTypeOK
      <4> QED
        BY <4>1 DEF In
    <3>3. rstate[x] # "none"
      BY <3>2 DEF Addressed, Signal
    <3> QED
      BY <2>3, <3>1, <3>3 DEF ReceiveExpired, HeldByCompleted
  <2>4. CASE ~ReceiveFinished /\ ~ReceiveExpired
    BY <1>4, <2>4 DEF HeldByCompleted, ProcessCompleted, FinishRequest, ExpiredInUse,
       ExpiredIdle, VRAMRecovered, SendUnloaded, CompletedLoopExit, CReady
  <2> QED
    BY <2>1, <2>3, <2>4
<1>5. ASSUME NEW a \in Apis, Api(a) PROVE HeldByCompleted
  BY <1>5 DEF HeldByCompleted, Api, ApiLookup, ApiRuntimeOOM, ApiVisit, ApiReturn,
     ShutdownCancel, UnloadAllRunners, RunnerCrash
<1>6. CASE Finished
  BY <1>6 DEF HeldByCompleted, Finished, vars
<1>7. QED
  BY <1>1, <1>2, <1>3, <1>4, <1>5, <1>6 DEF Next

LEMMA NotInAppend ==
  ASSUME NEW q \in Seq(Reqs), NEW x, NEW y, y # x, In(Append(q, x), y)
  PROVE  In(q, y)
<1>1. PICK i \in 1 .. Len(Append(q, x)) : Append(q, x)[i] = y
  BY DEF In
<1>2. i # Len(q) + 1
  BY <1>1
<1>3. i \in 1 .. Len(q) /\ q[i] = y
  BY <1>1, <1>2
<1> QED
  BY <1>3 DEF In

\* The other runners do not see an expired event being sent.
LEMMA SendSignal ==
  ASSUME TypeInv, NEW x \in Reqs, NEW who \in {"P", "C", "other"}, SendExpired(x, who),
         NEW y \in Reqs, y # x
  PROVE  refMu'[y] = refMu[y] /\ (In(expiredCh', y) <=> In(expiredCh, y))
<1>1. expiredCh \in Seq(Reqs) /\ DOMAIN refMu = Reqs
  BY DEF TypeInv, TypeOK, ChannelTypeOK, RunnerTypeOK
<1>2. refMu'[y] = refMu[y]
  BY SendDue
<1>3. In(Append(expiredCh, x), y) => In(expiredCh, y)
  BY <1>1, NotInAppend
<1>4. In(expiredCh', y) => In(expiredCh, y)
  BY <1>3 DEF SendExpired
<1>5. In(expiredCh, y) => In(expiredCh', y)
  BY SendDue
<1> QED
  BY <1>2, <1>4, <1>5

LEMMA StepSignals ==
  ASSUME TypeInv, RoomForLoad, Published, Addressed, Next
  PROVE  \A rn \in Reqs : Signal(rn)' => rstate'[rn] # "none"
<1> SUFFICES ASSUME NEW rn \in Reqs, rstate'[rn] = "none" PROVE ~Signal(rn)'
  OBVIOUS
<1> USE DEF reqFixed, reqVars, runVars, chanVars, outsideRun, outsideC, outsideP
<1>1. rstate[rn] = "none"
  BY RunnerMoves
<1>2. /\ expireTimer[rn] = "nil" /\ callbacks[rn] = 0 /\ resends[rn] = 0 /\ refMu[rn] = "free"
      /\ ~In(expiredCh, rn)
  BY <1>1 DEF Addressed, Signal
<1>3. /\ expireTimer \in [Reqs -> {"nil", "armed", "fired"}] /\ callbacks \in [Reqs -> Nat]
      /\ resends \in [Reqs -> Nat] /\ DOMAIN refMu = Reqs /\ expiredCh \in Seq(Reqs)
  BY DEF TypeInv, TypeOK, RunnerTypeOK, ChannelTypeOK
<1>4. ASSUME UNCHANGED <<expireTimer, callbacks, resends, refMu, expiredCh>> PROVE ~Signal(rn)'
  BY <1>2, <1>4 DEF Signal
<1>5. ASSUME NEW x \in Reqs, rstate[x] # "none", NEW who \in {"P", "C", "other"},
             \/ SendExpired(x, who) \/ UNCHANGED <<expiredCh, refMu>>,
             \/ expireTimer' = expireTimer
             \/ \E s \in {"nil", "armed"} : expireTimer' = [expireTimer EXCEPT ![x] = s],
             callbacks' = callbacks \/ callbacks' = [callbacks EXCEPT ![x] = @ - 1],
             resends' = resends
      PROVE  ~Signal(rn)'
  <2>1. rn # x
    BY <1>1, <1>5
  <2>2. refMu'[rn] = "free" /\ ~In(expiredCh', rn)
    BY <1>2, <1>5, <2>1, SendSignal
  <2>3. expireTimer'[rn] = "nil" /\ callbacks'[rn] = 0 /\ resends'[rn] = 0
    BY <1>2, <1>3, <1>5, <2>1
  <2> QED
    BY <2>2, <2>3 DEF Signal
<1>6. ASSUME NEW x \in Reqs, ExpireNow(x, "P") \/ ExpireNow(x, "other"), rstate[x] # "none",
             UNCHANGED <<callbacks, resends>>
      PROVE  ~Signal(rn)'
  BY <1>5, <1>6 DEF ExpireNow
<1>7. ASSUME NEW x, expireTimer' = [expireTimer EXCEPT ![x] = "nil"],
             UNCHANGED <<callbacks, resends, refMu, expiredCh>>
      PROVE  ~Signal(rn)'
  BY <1>2, <1>3, <1>7 DEF Signal
<1>8. ASSUME NEW r \in Reqs, Handler(r) PROVE ~Signal(rn)'
  <2>1. CASE UseRunner(r)
    BY <1>7, <2>1 DEF UseRunner, UseLoadedRunner
  <2>2. CASE ~UseRunner(r)
    BY <1>4, <1>8, <2>2 DEF Handler, GetRunner, CheckReload, Enqueue, CtxDone, WatchFinished
  <2> QED
    BY <2>1, <2>2
<1>9. ASSUME NEW x \in Reqs, RunnerStep(x) PROVE ~Signal(rn)'
  <2>1. Signal(x) /\ rstate[x] # "none" /\ x # rn
    <3>1. Signal(x)
      BY <1>9 DEF RunnerStep, WaitUntilRunning, WaitUntilRunningOk, WaitUntilRunningFailed,
         TimerFires, TimerCallback, ResendExpired, UnblockSender, Signal
    <3> QED
      BY <1>1, <3>1 DEF Addressed
  <2>2. CASE WaitUntilRunningFailed(x) \/ TimerCallback(x)
    BY <1>5, <2>1, <2>2 DEF WaitUntilRunningFailed, TimerCallback
  <2>3. CASE WaitUntilRunningOk(x) \/ TimerFires(x)
    BY <1>2, <1>3, <2>1, <2>3 DEF WaitUntilRunningOk, TimerFires, Signal
  <2>4. CASE ResendExpired(x) \/ UnblockSender(x)
    <3>1. /\ ~ExpiredFull /\ expiredCh' = Append(expiredCh, x)
          /\ UNCHANGED <<expireTimer, callbacks>>
          /\ resends'[rn] = resends[rn] /\ refMu'[rn] = refMu[rn]
      BY <1>3, <2>1, <2>4 DEF ResendExpired, UnblockSender
    <3>2. ~In(Append(expiredCh, x), rn)
      BY <1>2, <1>3, <2>1, NotInAppend
    <3> QED
      BY <1>2, <3>1, <3>2 DEF Signal
  <2> QED
    BY <1>9, <2>2, <2>3, <2>4 DEF RunnerStep, WaitUntilRunning
<1>10. CASE ProcessPending
  <2>1. CASE ExpireToMakeRoom
    <3>1. runnerToExpire \in Reqs /\ rstate[runnerToExpire] # "none"
      BY <2>1 DEF ExpireToMakeRoom, PReady, TypeInv, Chosen, Addressed
    <3> QED
      BY <1>6, <2>1, <3>1 DEF ExpireToMakeRoom
  <2>2. CASE EvictNext
    <3>1. Head(visit) \in Reqs /\ rstate[Head(visit)] # "none"
      BY <2>2, TailListed DEF EvictNext, TypeInv, TypeOK, PendingTypeOK, Addressed
    <3> QED
      BY <1>6, <2>2, <3>1 DEF EvictNext
  <2>3. CASE LoadSucceeded
    <3>1. pending \in Reqs /\ rstate'[pending] = "loading"
      BY <2>3, LoadSucceededEffect DEF TypeInv, TypeOK, RunnerTypeOK
    <3>2. /\ refMu' = [refMu EXCEPT ![pending] = "load"]
          /\ UNCHANGED <<callbacks, resends, expiredCh>>
          /\ expireTimer'[rn] \in {"nil", expireTimer[rn]}
      BY <2>3 DEF LoadSucceeded
    <3>3. refMu'[rn] = "free"
      BY <1>1, <1>2, <1>3, <3>1, <3>2
    <3> QED
      BY <1>2, <3>2, <3>3 DEF Signal
  <2>4. CASE PendingUseRunner
    BY <1>7, <2>4 DEF PendingUseRunner, UseLoadedRunner
  <2>5. CASE ~ExpireToMakeRoom /\ ~EvictNext /\ ~LoadSucceeded /\ ~PendingUseRunner
    <3>1. UNCHANGED <<expireTimer, callbacks, resends, refMu, expiredCh>>
      BY <1>10, <2>5 DEF ProcessPending, Receive, IgnoreUnloaded, Evaluate,
         PendingCheckReload, RefreshGPUs, UpdateFreeSpace, LoadStep, LoadNoServer,
         LoadPredictedTooBig, LoadStartServer, LoadRequiredFull, LoadFailed, FindSnapshot,
         FindScan, UnloadObserved, EvictSnapshot, EvictObserved, PendingLoopExit
    <3> QED
      BY <1>4, <3>1
  <2> QED
    BY <2>1, <2>2, <2>3, <2>4, <2>5
<1>11. CASE ProcessCompleted
  <2>0. cpc \in {"finish", "expire", "vram"} => crunner \in Reqs /\ rstate[crunner] # "none"
    BY DEF TypeInv, Chosen, Addressed
  <2>1. CASE FinishRequest
    <3>1. /\ cpc = "finish" /\ UNCHANGED <<callbacks, resends>>
          /\ SendExpired(crunner, "C") \/ UNCHANGED <<expiredCh, refMu>>
      BY <2>1 DEF FinishRequest, CReady
    <3>2. PICK left : expireTimer' = [expireTimer EXCEPT ![crunner] = TimerAfterFinish(crunner, left)]
      BY <2>1 DEF FinishRequest
    <3>3. \/ expireTimer' = expireTimer
          \/ \E s \in {"nil", "armed"} : expireTimer' = [expireTimer EXCEPT ![crunner] = s]
      BY <1>3, <3>2 DEF TimerAfterFinish
    <3> QED
      BY <1>5, <2>0, <3>1, <3>3
  <2>2. CASE ExpiredInUse
    BY <1>1, <1>2, <1>3, <2>0, <2>2 DEF ExpiredInUse, CReady, Signal
  <2>3. CASE ExpiredIdle
    <3>1. /\ cpc = "expire" /\ UNCHANGED <<callbacks, resends, expiredCh>>
          /\ refMu' = refMu \/ refMu' = [refMu EXCEPT ![crunner] = "vram"]
          /\ expireTimer' = expireTimer \/ expireTimer' = [expireTimer EXCEPT ![crunner] = "nil"]
      BY <2>3 DEF ExpiredIdle, CReady, Unload
    <3> QED
      BY <1>1, <1>2, <1>3, <2>0, <3>1 DEF Signal
  <2>4. CASE VRAMRecovered
    BY <1>2, <1>3, <2>4 DEF VRAMRecovered, Signal
  <2>5. CASE ReceiveExpired
    <3>1. \A i \in 1 .. Len(Tail(expiredCh)) : Tail(expiredCh)[i] # rn
      <4>1. expiredCh # <<>> /\ \A i \in 1 .. Len(expiredCh) : expiredCh[i] # rn
        BY <1>2, <2>5 DEF ReceiveExpired, In
      <4>2. \A i \in 1 .. Len(Tail(expiredCh)) :
              Tail(expiredCh)[i] = expiredCh[i + 1] /\ i + 1 \in 1 .. Len(expiredCh)
        BY <1>3, <4>1
      <4> QED
        BY <4>1, <4>2
    <3> QED
      BY <1>2, <2>5, <3>1 DEF ReceiveExpired, Signal, In
  <2>6. CASE ReceiveFinished \/ SendUnloaded \/ CompletedLoopExit
    BY <1>4, <2>6 DEF ReceiveFinished, SendUnloaded, CompletedLoopExit
  <2> QED
    BY <1>11, <2>1, <2>2, <2>3, <2>4, <2>5, <2>6 DEF ProcessCompleted
<1>12. ASSUME NEW a \in Apis, Api(a) PROVE ~Signal(rn)'
  <2>1. CASE ApiVisit(a)
    <3>1. PICK x \in Reqs : x = Head(todo[a]) /\ rstate[x] # "none"
      BY <2>1, TailListed DEF ApiVisit, TypeInv, TypeOK, ApiTypeOK, Addressed
    <3>2. UNCHANGED <<callbacks, resends>> /\
          \/ SendExpired(x, "other") /\ expireTimer' = [expireTimer EXCEPT ![x] = "nil"]
          \/ ExpireNow(x, "other")
      BY <2>1, <3>1 DEF ApiVisit
    <3> QED
      BY <1>5, <1>6, <3>1, <3>2
  <2>2. CASE ~ApiVisit(a)
    <3>1. UNCHANGED <<expireTimer, callbacks, resends, refMu, expiredCh>>
      BY <1>12, <2>2 DEF Api, ApiLookup, ApiRuntimeOOM, ApiReturn, ShutdownCancel,
         UnloadAllRunners, RunnerCrash
    <3> QED
      BY <1>4, <3>1
  <2> QED
    BY <2>1, <2>2
<1>13. CASE Finished
  BY <1>4, <1>13 DEF Finished, vars
<1>14. QED
  BY <1>8, <1>9, <1>10, <1>11, <1>12, <1>13 DEF Next

LEMMA StepAddressed ==
  ASSUME TypeInv, RoomForLoad, Published, Addressed, Next
  PROVE  Addressed'
<1>1. \A rn \in Reqs : Signal(rn)' => rstate'[rn] # "none"
  BY StepSignals
<1>2. Listed(visit)' /\ \A a \in Apis : Listed(todo[a])'
  BY StepLists
<1>3. cpc' \in {"finish", "expire", "vram"} => rstate'[crunner'] # "none"
  <2>1. cpc \in {"finish", "expire", "vram"} => crunner \in Reqs /\ rstate[crunner] # "none"
    BY DEF Addressed, TypeInv, Chosen
  <2> QED
    BY <2>1, StepHeldByCompleted, RunnerMoves DEF HeldByCompleted
<1>4. ppc' \in {"check", "use", "scan", "expire"} => rstate'[runnerToExpire'] # "none"
  <2>1. ppc \in {"check", "use", "scan", "expire"} =>
          runnerToExpire \in Reqs /\ rstate[runnerToExpire] # "none"
    BY DEF Addressed, TypeInv, Chosen
  <2> QED
    BY <2>1, StepHeldByPending, RunnerMoves DEF HeldByPending
<1> QED
  BY <1>1, <1>2, <1>3, <1>4 DEF Addressed

\* A runner is named by a request that was made.
LEMMA AskedFor ==
  ASSUME TypeInv, Fresh, NEW r \in Reqs, rstate[r] # "none"
  PROVE  rst[r] # "new"
BY DEF Fresh, Answered, TypeInv, OnePlace, Waiting

LEMMA StepFresh ==
  ASSUME TypeInv, RoomForLoad, Published, Addressed, Fresh, Recovering, Next
  PROVE  Fresh'
<1> SUFFICES ASSUME NEW r \in Reqs, rstate'[r] # "none"
             PROVE  rst'[r] \in Answered \/ refMu'[r] = "load"
  BY DEF Fresh
<1>1. CASE rstate[r] # "none"
  BY <1>1, AnsweredKept, LoadHeld DEF Fresh
<1>2. CASE rstate[r] = "none"
  <2>1. CASE LoadSucceeded
    BY <1>2, <2>1, LoadSucceededEffect DEF TypeInv, TypeOK, RunnerTypeOK
  <2>2. CASE ExpiredIdle
    BY <1>2, <2>2, ExpiredIdleEffect DEF ExpiredIdle, CReady, Addressed,
       TypeInv, TypeOK, RunnerTypeOK
  <2>3. ASSUME NEW rn \in Reqs, WaitUntilRunningOk(rn) PROVE FALSE
    BY <1>2, <2>3, WaitUntilRunningOkEffect DEF TypeInv, TypeOK, RunnerTypeOK
  <2>4. CASE ~LoadSucceeded /\ ~ExpiredIdle /\ ~ \E rn \in Reqs : WaitUntilRunningOk(rn)
    BY <1>2, <2>4, RunnersKept
  <2> QED
    BY <2>1, <2>2, <2>3, <2>4
<1> QED
  BY <1>1, <1>2

LEMMA StepRecovering ==
  ASSUME TypeInv, RoomForLoad, Published, Addressed, Fresh, Recovering, Next
  PROVE  Recovering'
<1> SUFFICES ASSUME cpc' = "vram"
             PROVE  rstate'[crunner'] = "unloaded" /\ rst'[crunner'] \in Answered
  BY DEF Recovering
<1> USE DEF cVars, outsideRun, outsideP
<1>1. CASE ExpiredIdle
  <2>1. /\ crunner \in Reqs /\ Free(crunner) /\ loaded[Key(crunner)] = crunner /\ crunner' = crunner
        /\ UNCHANGED rst
    BY <1>1, ExpiredIdleEffect DEF ExpiredIdle, reqVars
  <2>2. loaded[Key(crunner)] # None
    BY <2>1, ConstantAssumption
  <2>3. rstate' = [rstate EXCEPT ![crunner] = "unloaded"]
    BY <1>1, <2>2 DEF ExpiredIdle, Unload
  <2>4. rstate[crunner] \in InService
    <3>1. Key(crunner) \in Models
      BY <1>1, <2>1, AskedFor, KeyType DEF ExpiredIdle, CReady, Addressed
    <3> QED
      BY <2>1, <2>2, <3>1 DEF Published
  <2>5. rst[crunner] \in Answered
    BY <2>1, <2>4 DEF Fresh, Free, InService
  <2> QED
    BY <2>1, <2>3, <2>5 DEF TypeInv, TypeOK, RunnerTypeOK
<1>2. CASE ~ExpiredIdle
  <2>1. cpc = "vram" /\ crunner' = crunner
    <3>1. ASSUME NEW r \in Reqs, Handler(r) PROVE UNCHANGED cVars
      BY <3>1 DEF Handler, GetRunner, CheckReload, UseRunner, Enqueue, CtxDone, WatchFinished
    <3>2. ASSUME NEW rn \in Reqs, RunnerStep(rn) PROVE UNCHANGED cVars
      BY <3>2 DEF RunnerStep, WaitUntilRunning, WaitUntilRunningOk,
         WaitUntilRunningFailed, TimerFires, TimerCallback, ResendExpired, UnblockSender
    <3>3. CASE ProcessPending
      BY <3>3 DEF ProcessPending, Receive, IgnoreUnloaded, Evaluate, PendingCheckReload,
         PendingUseRunner, RefreshGPUs, UpdateFreeSpace, LoadStep, LoadNoServer,
         LoadPredictedTooBig, LoadStartServer, LoadRequiredFull, LoadFailed,
         LoadSucceeded, FindSnapshot, FindScan, ExpireToMakeRoom, UnloadObserved,
         EvictSnapshot, EvictNext, EvictObserved, PendingLoopExit, outsideC
    <3>4. CASE ProcessCompleted
      BY <1>2, <3>4 DEF ProcessCompleted, ReceiveFinished, FinishRequest, ReceiveExpired,
         ExpiredInUse, VRAMRecovered, SendUnloaded, CompletedLoopExit
    <3>5. ASSUME NEW a \in Apis, Api(a) PROVE UNCHANGED cVars
      BY <3>5 DEF Api, ApiLookup, ApiRuntimeOOM, ApiVisit, ApiReturn, ShutdownCancel,
         UnloadAllRunners, RunnerCrash
    <3>6. CASE Finished
      BY <3>6 DEF Finished, vars
    <3> QED
      BY <3>1, <3>2, <3>3, <3>4, <3>5, <3>6 DEF Next
  <2>2. /\ crunner \in Reqs /\ rstate[crunner] = "unloaded" /\ rst[crunner] \in Answered
    BY <2>1 DEF Recovering, TypeInv, Chosen
  <2>3. rst'[crunner] \in Answered
    BY <2>2, AnsweredKept
  <2>4. rstate'[crunner] = "unloaded"
    <3>1. CASE LoadSucceeded
      BY <2>2, <3>1, LoadSucceededEffect DEF Answered, TypeInv, TypeOK, RunnerTypeOK
    <3>2. ASSUME NEW rn \in Reqs, WaitUntilRunningOk(rn) PROVE rstate'[crunner] = "unloaded"
      BY <2>2, <3>2, WaitUntilRunningOkEffect DEF TypeInv, TypeOK, RunnerTypeOK
    <3>3. CASE ~LoadSucceeded /\ ~ \E rn \in Reqs : WaitUntilRunningOk(rn)
      BY <1>2, <2>2, <3>3, RunnersKept
    <3> QED
      BY <3>1, <3>2, <3>3
  <2> QED
    BY <2>1, <2>3, <2>4
<1> QED
  BY <1>1, <1>2


\* A runner is not idle just after it was handed out.
LEMMA TakenInUse ==
  ASSUME NEW r \in Reqs, NEW x \in Reqs, Counted', rst'[r] \in {"granted", "finishing"},
         seen'[r] = x
  PROVE  refCount'[x] # 0
<1>1. r \in Users(x)'
  BY DEF Users
<1>2. IsFiniteSet(Users(x)')
  BY ConstantAssumption, FS_Subset DEF Users
<1>3. Cardinality(Users(x)') # 0
  BY <1>1, <1>2, FS_EmptySet
<1> QED
  BY <1>3 DEF Counted

\* rn, idle in the end, was idle in the beginning, and looked after.
IdleBefore(rn) == rstate[rn] = "running" /\ refCount[rn] = 0 => Due(rn)

LEMMA HandlerIdle ==
  ASSUME TypeInv, Counted', NEW rn \in Reqs, IdleBefore(rn), refCount'[rn] = 0,
         rstate'[rn] = "running", NEW r \in Reqs, Handler(r)
  PROVE  Due(rn)'
<1> USE DEF reqFixed, runVars, chanVars, cVars, outsideRun
<1>1. CASE UseRunner(r)
  <2>1. PICK x : x = seen[r]
    OBVIOUS
  <2>2. /\ UNCHANGED <<rstate, callbacks, resends, refMu, expiredCh, cpc, crunner>>
        /\ expireTimer' = [expireTimer EXCEPT ![x] = "nil"]
        /\ refCount' = [refCount EXCEPT ![x] = TakeRef(@)]
        /\ rst' = [rst EXCEPT ![r] = "granted"] /\ seen' = [seen EXCEPT ![r] = x]
    BY <1>1, <2>1 DEF UseRunner, UseLoadedRunner
  <2>3. rst'[r] = "granted" /\ seen'[r] = x
    BY <2>2 DEF TypeInv, TypeOK, RequestTypeOK
  <2>4. rn # x
    BY <2>3, TakenInUse
  <2>5. refCount'[rn] = refCount[rn] /\ expireTimer'[rn] = expireTimer[rn]
    BY <2>2, <2>4 DEF TypeInv, TypeOK, RunnerTypeOK
  <2> QED
    BY <2>2, <2>5 DEF IdleBefore, Due
<1>2. CASE ~UseRunner(r)
  <2>1. UNCHANGED <<runVars, expiredCh, cVars>>
    BY <1>2 DEF Handler, GetRunner, CheckReload, Enqueue, CtxDone, WatchFinished
  <2> QED
    BY <2>1 DEF IdleBefore, Due
<1> QED
  BY <1>1, <1>2

\* Sending an expired event, for this runner or another, keeps rn looked after.
LEMMA SendIdle ==
  ASSUME TypeInv, NEW rn \in Reqs, IdleBefore(rn), refCount'[rn] = 0,
         rstate'[rn] = "running", NEW x \in Reqs,
         NEW who \in {"P", "C", "other"}, SendExpired(x, who),
         x # rn => rstate[rn] = "running" /\ refCount[rn] = 0,
         x # rn => UNCHANGED <<expireTimer[rn], callbacks[rn], resends[rn]>>,
         cpc = "expire" => UNCHANGED <<cpc, crunner>>
  PROVE  Due(rn)'
<1>1. CASE x = rn
  BY <1>1, SendDue DEF Due
<1>2. CASE x # rn
  <2>1. refMu'[rn] = refMu[rn] /\ (In(expiredCh, rn) => In(expiredCh', rn))
    BY <1>2, SendDue
  <2>2. Due(rn)
    BY <1>2 DEF IdleBefore
  <2> QED
    BY <1>2, <2>1, <2>2 DEF Due
<1> QED
  BY <1>1, <1>2

LEMMA ExpireNowIdle ==
  ASSUME TypeInv, NEW rn \in Reqs, IdleBefore(rn), refCount'[rn] = 0,
         rstate'[rn] = "running", NEW x \in Reqs,
         NEW who \in {"P", "C", "other"}, ExpireNow(x, who),
         UNCHANGED <<rstate, refCount, callbacks, resends, cVars>>
  PROVE  Due(rn)'
<1>1. expireTimer' = [expireTimer EXCEPT ![x] = "nil"]
  BY DEF ExpireNow
<1>2. x # rn => expireTimer'[rn] = expireTimer[rn]
  BY <1>1 DEF TypeInv, TypeOK, RunnerTypeOK
<1>3. CASE InUse(x)
  BY <1>2, <1>3 DEF ExpireNow, InUse, IdleBefore, Due, cVars
<1>4. CASE ~InUse(x)
  BY <1>2, <1>4, SendIdle DEF ExpireNow, cVars
<1> QED
  BY <1>3, <1>4

LEMMA RunnerStepIdle ==
  ASSUME TypeInv, Counted', NEW rn \in Reqs, IdleBefore(rn), refCount'[rn] = 0,
         rstate'[rn] = "running", NEW x \in Reqs, RunnerStep(x)
  PROVE  Due(rn)'
<1> USE DEF reqFixed, chanVars, cVars, outsideRun
<1>0. /\ refCount \in [Reqs -> 0 .. RefMod - 1] /\ DOMAIN rstate = Reqs /\ DOMAIN expireTimer = Reqs
      /\ callbacks \in [Reqs -> Nat] /\ resends \in [Reqs -> Nat] /\ DOMAIN refMu = Reqs
      /\ expiredCh \in Seq(Reqs)
  BY DEF TypeInv, TypeOK, RunnerTypeOK, ChannelTypeOK
<1>1. CASE WaitUntilRunningOk(x)
  <2>1. rst'[x] = "granted" /\ seen'[x] = x
    BY <1>1 DEF WaitUntilRunningOk, TypeInv, TypeOK, RequestTypeOK
  <2>2. rn # x
    BY <2>1, TakenInUse
  <2> QED
    BY <1>0, <1>1, <2>2 DEF WaitUntilRunningOk, IdleBefore, Due
<1>2. CASE WaitUntilRunningFailed(x)
  BY <1>2, SendIdle DEF WaitUntilRunningFailed
<1>3. CASE TimerFires(x)
  BY <1>0, <1>3 DEF TimerFires, IdleBefore, Due
<1>4. CASE TimerCallback(x)
  <2>1. x # rn => UNCHANGED <<expireTimer[rn], callbacks[rn], resends[rn]>>
    BY <1>0, <1>4 DEF TimerCallback
  <2> QED
    BY <1>4, <2>1, SendIdle DEF TimerCallback
<1>5. CASE ResendExpired(x) \/ UnblockSender(x)
  <2>1. /\ expiredCh' = Append(expiredCh, x)
        /\ UNCHANGED <<rstate, refCount, expireTimer, callbacks, cpc, crunner>>
        /\ x # rn => resends'[rn] = resends[rn] /\ refMu'[rn] = refMu[rn]
    BY <1>0, <1>5 DEF ResendExpired, UnblockSender
  <2>2. In(expiredCh', x) /\ (In(expiredCh, rn) => In(expiredCh', rn))
    BY <1>0, <2>1, InAppend
  <2> QED
    BY <2>1, <2>2 DEF IdleBefore, Due
<1> QED
  BY <1>1, <1>2, <1>3, <1>4, <1>5 DEF RunnerStep, WaitUntilRunning

LEMMA PendingIdle ==
  ASSUME TypeInv, RoomForLoad, Counted', NEW rn \in Reqs, IdleBefore(rn), refCount'[rn] = 0,
         rstate'[rn] = "running", ProcessPending
  PROVE  Due(rn)'
<1> USE DEF reqFixed, runVars, chanVars, cVars, outsideC, outsideP
<1>1. CASE ExpireToMakeRoom
  <2>1. runnerToExpire \in Reqs
    BY <1>1 DEF ExpireToMakeRoom, PReady, TypeInv, Chosen
  <2> QED
    BY <1>1, <2>1, ExpireNowIdle DEF ExpireToMakeRoom
<1>2. CASE EvictNext
  <2>1. Head(visit) \in Reqs
    BY <1>2 DEF EvictNext, TypeInv, TypeOK, PendingTypeOK
  <2> QED
    BY <1>2, <2>1, ExpireNowIdle DEF EvictNext
<1>3. CASE LoadSucceeded
  <2>1. /\ rstate' = [rstate EXCEPT ![pending] = "loading"]
        /\ refMu' = [refMu EXCEPT ![pending] = "load"]
        /\ pending \in Reqs /\ loaded[Key(pending)] = None
        /\ UNCHANGED <<refCount, cVars>>
    BY <1>3, LoadSucceededEffect
  <2>2. rn # pending
    BY <2>1 DEF TypeInv, TypeOK, RunnerTypeOK
  <2>3. UNCHANGED <<callbacks, resends, expiredCh>> /\ expireTimer'[rn] = expireTimer[rn]
    BY <1>3, <2>1, ConstantAssumption DEF LoadSucceeded
  <2> QED
    BY <2>1, <2>2, <2>3 DEF IdleBefore, Due, TypeInv, TypeOK, RunnerTypeOK
<1>4. CASE PendingUseRunner
  <2>1. PICK x : x = runnerToExpire
    OBVIOUS
  <2>2. /\ UNCHANGED <<rstate, callbacks, resends, refMu, expiredCh, cpc, crunner>>
        /\ expireTimer' = [expireTimer EXCEPT ![x] = "nil"]
        /\ refCount' = [refCount EXCEPT ![x] = TakeRef(@)]
        /\ rst' = [rst EXCEPT ![pending] = "granted"] /\ seen' = [seen EXCEPT ![pending] = x]
    BY <1>4, <2>1 DEF PendingUseRunner, UseLoadedRunner
  <2>3. pending \in Reqs
    BY <1>4, ServedRequest DEF PendingUseRunner, PReady, Serving
  <2>4. rst'[pending] = "granted" /\ seen'[pending] = x
    BY <2>2, <2>3 DEF TypeInv, TypeOK, RequestTypeOK
  <2>5. rn # x
    BY <2>3, <2>4, TakenInUse
  <2>6. refCount'[rn] = refCount[rn] /\ expireTimer'[rn] = expireTimer[rn]
    BY <2>2, <2>5 DEF TypeInv, TypeOK, RunnerTypeOK
  <2> QED
    BY <2>2, <2>6 DEF IdleBefore, Due
<1>5. CASE ~ExpireToMakeRoom /\ ~EvictNext /\ ~LoadSucceeded /\ ~PendingUseRunner
  <2>1. UNCHANGED <<rstate, refCount, expireTimer, callbacks, resends, refMu, expiredCh,
                    cVars>>
    BY <1>5 DEF ProcessPending, Receive, IgnoreUnloaded, Evaluate,
       PendingCheckReload, RefreshGPUs, UpdateFreeSpace, LoadStep, LoadNoServer,
       LoadPredictedTooBig, LoadStartServer, LoadRequiredFull, LoadFailed, FindSnapshot,
       FindScan, UnloadObserved, EvictSnapshot, EvictObserved, PendingLoopExit
  <2> QED
    BY <2>1 DEF IdleBefore, Due
<1> QED
  BY <1>1, <1>2, <1>3, <1>4, <1>5

LEMMA CompletedIdle ==
  ASSUME TypeInv, Published, Addressed, Recovering, NEW rn \in Reqs, IdleBefore(rn),
         refCount'[rn] = 0, rstate'[rn] = "running", ProcessCompleted
  PROVE  Due(rn)'
<1> USE DEF runVars, chanVars, cVars, outsideC
<1>0. /\ DOMAIN refCount = Reqs /\ DOMAIN rstate = Reqs /\ DOMAIN expireTimer = Reqs
      /\ resends \in [Reqs -> Nat] /\ DOMAIN refMu = Reqs /\ expiredCh \in Seq(Reqs)
  BY DEF TypeInv, TypeOK, RunnerTypeOK, ChannelTypeOK
<1>1. CASE FinishRequest
  <2>1. PICK x \in Reqs : x = crunner
    BY <1>1, FinishRequestEffect
  <2>2. PICK left : left = DropRef(refCount[x])
    OBVIOUS
  <2>3. /\ refCount' = [refCount EXCEPT ![x] = left]
        /\ expireTimer' = [expireTimer EXCEPT ![x] = TimerAfterFinish(x, left)]
        /\ IF left = 0 /\ sessionDuration[x] = 0
           THEN SendExpired(x, "C") ELSE UNCHANGED <<expiredCh, refMu>>
        /\ UNCHANGED <<rstate, callbacks, resends>> /\ cpc = "finish"
    BY <1>1, <2>1, <2>2 DEF FinishRequest, CReady
  <2>4. CASE left = 0 /\ sessionDuration[x] = 0
    BY <1>0, <2>3, <2>4, SendIdle
  <2>5. CASE ~(left = 0 /\ sessionDuration[x] = 0)
    <3>1. UNCHANGED <<expiredCh, refMu>>
      BY <2>3, <2>5
    <3>2. CASE rn = x
      <4>1. left = 0
        BY <1>0, <2>3, <3>2
      <4>2. expireTimer'[rn] = "armed"
        BY <1>0, <2>3, <2>5, <3>2, <4>1 DEF TimerAfterFinish
      <4> QED
        BY <4>2 DEF Due
    <3>3. CASE rn # x
      BY <1>0, <2>3, <3>1, <3>3 DEF IdleBefore, Due
    <3> QED
      BY <3>2, <3>3
  <2> QED
    BY <2>4, <2>5
<1>2. CASE ReceiveExpired
  <2>1. UNCHANGED <<rstate, refCount, expireTimer, callbacks, resends, refMu>>
        /\ expiredCh # <<>> /\ cpc = "recv" /\ cpc' = "expire" /\ crunner' = Head(expiredCh)
        /\ expiredCh' = Tail(expiredCh)
    BY <1>2 DEF ReceiveExpired, CReady
  <2>2. In(expiredCh, rn) => rn = Head(expiredCh) \/ In(Tail(expiredCh), rn)
    BY <1>0, <2>1, InTail
  <2> QED
    BY <2>1, <2>2 DEF IdleBefore, Due
<1>3. CASE ExpiredInUse
  BY <1>0, <1>3 DEF ExpiredInUse, CReady, IdleBefore, Due, InUse
<1>4. CASE ExpiredIdle
  <2>1. rn # crunner
    <3> SUFFICES ASSUME rn = crunner PROVE FALSE
      OBVIOUS
    <3>1. rstate' = rstate \/ rstate' = [rstate EXCEPT ![crunner] = "unloaded"]
      BY <1>4, ExpiredIdleEffect
    <3>2. rstate[rn] = "running"
      BY <1>0, <3>1
    <3>3. loaded[Key(crunner)] = crunner
      BY <3>2 DEF Published, InService
    <3>4. rstate' = [rstate EXCEPT ![crunner] = "unloaded"]
      BY <1>4, <3>3, ConstantAssumption DEF ExpiredIdle, Unload
    <3> QED
      BY <1>0, <3>4
  <2>2. /\ UNCHANGED <<refCount, callbacks, resends, expiredCh>> /\ cpc = "expire"
        /\ rstate' = rstate \/ rstate' = [rstate EXCEPT ![crunner] = "unloaded"]
        /\ expireTimer' = expireTimer \/ expireTimer' = [expireTimer EXCEPT ![crunner] = "nil"]
        /\ refMu' = refMu \/ refMu' = [refMu EXCEPT ![crunner] = "vram"]
    BY <1>4 DEF ExpiredIdle, CReady, Unload
  <2> QED
    BY <1>0, <2>1, <2>2 DEF IdleBefore, Due
<1>5. CASE VRAMRecovered
  <2>1. /\ UNCHANGED <<rstate, refCount, expireTimer, callbacks, resends, expiredCh>>
        /\ refMu' = [refMu EXCEPT ![crunner] = "free"] /\ cpc = "vram"
        /\ rstate[crunner] = "unloaded"
    BY <1>5 DEF VRAMRecovered, CReady, Recovering
  <2>2. rn # crunner
    BY <2>1
  <2> QED
    BY <1>0, <2>1, <2>2 DEF IdleBefore, Due
<1>6. CASE ReceiveFinished \/ SendUnloaded \/ CompletedLoopExit
  <2>1. UNCHANGED <<rstate, refCount, expireTimer, callbacks, resends, refMu, expiredCh>>
        /\ cpc # "expire"
    BY <1>6 DEF ReceiveFinished, SendUnloaded, CompletedLoopExit, CReady
  <2> QED
    BY <2>1 DEF IdleBefore, Due
<1> QED
  BY <1>1, <1>2, <1>3, <1>4, <1>5, <1>6 DEF ProcessCompleted

LEMMA ApiIdle ==
  ASSUME TypeInv, NEW rn \in Reqs, IdleBefore(rn), refCount'[rn] = 0,
         rstate'[rn] = "running", NEW a \in Apis, Api(a)
  PROVE  Due(rn)'
<1> USE DEF runVars, chanVars, cVars
<1>1. CASE ApiVisit(a)
  <2>1. PICK x \in Reqs : x = Head(todo[a])
    BY <1>1 DEF ApiVisit, TypeInv, TypeOK, ApiTypeOK
  <2>2. UNCHANGED <<rstate, refCount, callbacks, resends, cVars>>
    BY <1>1 DEF ApiVisit
  <2>3. CASE apc[a] = "stop"
    <3>1. SendExpired(x, "other") /\ expireTimer' = [expireTimer EXCEPT ![x] = "nil"]
      BY <1>1, <2>1, <2>3 DEF ApiVisit
    <3>2. x # rn => expireTimer'[rn] = expireTimer[rn]
      BY <3>1 DEF TypeInv, TypeOK, RunnerTypeOK
    <3> QED
      BY <2>2, <3>1, <3>2, SendIdle
  <2>4. CASE apc[a] # "stop"
    <3>1. ExpireNow(x, "other")
      BY <1>1, <2>1, <2>4 DEF ApiVisit
    <3> QED
      BY <2>2, <3>1, ExpireNowIdle
  <2> QED
    BY <2>3, <2>4
<1>2. CASE ~ApiVisit(a)
  <2>1. UNCHANGED <<rstate, refCount, expireTimer, callbacks, resends, refMu, expiredCh,
                    cVars>>
    BY <1>2 DEF Api, ApiLookup, ApiRuntimeOOM, ApiReturn, ShutdownCancel,
       UnloadAllRunners, RunnerCrash
  <2> QED
    BY <2>1 DEF IdleBefore, Due
<1> QED
  BY <1>1, <1>2

LEMMA StepNoIdleLeak ==
  ASSUME TypeInv, RoomForLoad, RefInv, RefInv', Addressed, Recovering, NoIdleLeak, Next
  PROVE  NoIdleLeak'
<1> SUFFICES ASSUME NEW rn \in Reqs, rstate'[rn] = "running", refCount'[rn] = 0, ~stale'
             PROVE  Due(rn)'
  BY DEF NoIdleLeak, InUse, Due, In
<1>1. ~stale /\ Counted' /\ Published /\ LookedUp
  BY StaleForGood DEF RefInv
<1>2. IdleBefore(rn)
  BY <1>1 DEF IdleBefore, NoIdleLeak, InUse, Due, In
<1>3. CASE Finished
  BY <1>2, <1>3 DEF Finished, vars, runVars, chanVars, cVars, IdleBefore, Due
<1> QED
  BY <1>1, <1>2, <1>3, HandlerIdle, RunnerStepIdle, PendingIdle, CompletedIdle, ApiIdle
  DEF Next

IdleInv == Addressed /\ Fresh /\ Recovering /\ NoIdleLeak

LEMMA IdleInvariant == Spec => []IdleInv
<1>1. Init => IdleInv
  BY DEF Init, IdleInv, Addressed, Signal, Listed, In, Fresh, InService, Recovering, NoIdleLeak
<1>2. TypeInv /\ RoomForLoad /\ RefInv /\ RefInv' /\ IdleInv /\ [Next]_vars => IdleInv'
  <2>1. TypeInv /\ RoomForLoad /\ RefInv /\ RefInv' /\ IdleInv /\ Next => IdleInv'
    BY StepAddressed, StepFresh, StepRecovering, StepNoIdleLeak DEF IdleInv, RefInv
  <2>2. IdleInv /\ UNCHANGED vars => IdleInv'
    BY DEF vars, reqVars, runVars, chanVars, mapVars, pVars, cVars, apiVars, IdleInv,
       Addressed, Signal, Listed, In, Fresh, InService, Recovering, NoIdleLeak, InUse
  <2> QED
    BY <2>1, <2>2
<1> QED
  BY <1>1, <1>2, TypeInvariant, RoomInvariant, RefInvariant, PTL DEF Spec

\* The keep-alive never forgets a runner: until an unloaded runner is handed out, a
\* runner that is running and in nobody's use has its timer armed, a callback or an
\* expired event on its way, or is being looked at, whatever events arrive in
\* whatever order.
THEOREM IdleRunnerDue == Spec => []NoIdleLeak
<1>1. IdleInv => NoIdleLeak
  BY DEF IdleInv
<1> QED
  BY <1>1, IdleInvariant, PTL

=============================================================================
