----------------------------- MODULE Scheduler -----------------------------
(***************************************************************************)
(* The model scheduler of server/sched.go and the handlers that drive it.  *)
(*                                                                         *)
(* Goroutines.  Every HTTP request r runs getRunner and then waits for its *)
(* reply; the loop processPending (P) serves one queued request at a time; *)
(* the loop processCompleted (C) consumes finished and expired events;     *)
(* besides them there are, per runner, the goroutine that waits for the    *)
(* load to finish, timer callbacks, goroutines that re-send an expired     *)
(* event, and per request the watcher that reports its end.  Calls of the  *)
(* management API are the elements of Apis.                                *)
(*                                                                         *)
(* Granularity.  loadedMu is never held across a blocking operation, so a  *)
(* critical section of loadedMu is one action and the mutex itself is not  *)
(* a variable.  A refMu is: it is held while a model loads, while the      *)
(* scheduler waits for VRAM to recover, and by a goroutine blocked on a    *)
(* full expiredCh.  Two critical sections of one goroutine are always two  *)
(* actions.                                                                *)
(*                                                                         *)
(* A runnerRef is named by the request whose load created it: a request    *)
(* creates at most one.  Its pid is that name too.                         *)
(***************************************************************************)
EXTENDS Integers, Sequences, FiniteSets

CONSTANTS
  Reqs,          \* requests, and the runners their loads create
  Models,        \* scheduler model keys; numbers, for the order on names
  OptVariants,   \* runner options a request may ask for
  KeepAlives,    \* keep_alive values a request may carry, or NilKeepAlive
  Placements,    \* "gpu", or "cpu" for a request with num_gpu = 0
  Asks,          \* what each of the requests may ask for
  DefaultKeepAlive, \* envconfig.KeepAlive()
  Forever,       \* the keep_alive that never elapses (math.MaxInt64)
  NilKeepAlive,  \* request without keep_alive
  MaxQueue,      \* capacity of the four channels, OLLAMA_MAX_QUEUE
  MaxRunners,    \* maxRunners of processPending (8 in the code)
  RefMod,        \* refCount is a uint: arithmetic modulo 2^64 in the code
  Apis,          \* management calls
  ApiKinds,      \* what a management call may be
  None           \* the nil pointer

Requests == [model : Models, opts : OptVariants, keepAlive : KeepAlives,
             place : Placements]

ASSUME ConstantAssumption ==
  /\ IsFiniteSet(Reqs)
  /\ None \notin Reqs
  /\ Models \subseteq Nat
  /\ IsFiniteSet(Models)
  /\ KeepAlives \subseteq Nat \cup {NilKeepAlive}
  /\ DefaultKeepAlive \in Nat
  /\ Forever \in Nat \ {0}
  /\ NilKeepAlive \notin Nat
  /\ MaxQueue \in Nat \ {0}
  /\ MaxRunners \in Nat \ {0}
  /\ RefMod \in Nat
  /\ Cardinality(Reqs) < RefMod
  /\ ApiKinds \subseteq {"expire", "stop", "oom", "stopall", "shutdown", "crash"}
  /\ None \notin Models
  /\ Placements \subseteq {"gpu", "cpu"}
  /\ Asks \in [Reqs -> SUBSET Requests]

VARIABLES
  \* LlmRequest and the handler that waits for it
  req,               \* what the request asks for
  rst,               \* where the handler is
  seen,              \* the runner getRunner looked up, later the one granted
  ctxDone,           \* the request's context is cancelled
  schedAttempts, oomRetryAttempted,
  replies,           \* messages sent on successCh and errCh together
  \* runnerRef
  rstate, refCount, sessionDuration, expireTimer, refMu,
  callbacks,         \* timer callbacks that fired and wait for refMu
  resends,           \* goroutines that will send another expired event
  proc,              \* the runner's subprocess
  \* Scheduler
  loaded, activeLoading,
  pendingReqCh, finishedReqCh, expiredCh, unloadedCh,
  \* processPending: where it is, its request, runnerToExpire, the runners
  \* a loop has still to visit, unload events to wait for, requireFull
  ppc, pending, runnerToExpire, visit, waitFor, requireFull,
  \* processCompleted: where it is, its runner, the finished request
  cpc, crunner, finished,
  \* management calls: where each is and the runners it has still to visit
  apc, todo,
  schedDone,         \* the scheduler's context is cancelled
  stale              \* history: an unloaded runner has been handed out

reqVars  == <<req, rst, seen, ctxDone, schedAttempts, oomRetryAttempted, replies>>
runVars  == <<rstate, refCount, sessionDuration, expireTimer, refMu,
              callbacks, resends, proc>>
chanVars == <<pendingReqCh, finishedReqCh, expiredCh, unloadedCh>>
mapVars  == <<loaded, activeLoading>>
pVars    == <<ppc, pending, runnerToExpire, visit, waitFor, requireFull>>
cVars    == <<cpc, crunner, finished>>
apiVars  == <<apc, todo, schedDone>>
\* Frames: what the steps of a handler keep of a request, what processPending
\* keeps of its own variables, and what lies outside the reach of most steps of
\* processPending, of processCompleted and of the goroutines of one runner.
reqFixed == <<req, ctxDone, schedAttempts, oomRetryAttempted>>
pLocals  == <<runnerToExpire, visit, waitFor, requireFull>>
outsideP == <<reqVars, runVars, chanVars, mapVars, cVars, apiVars, stale>>
outsideC == <<reqVars, mapVars, pVars, apiVars, stale>>
outsideRun == <<mapVars, pVars, cVars, apiVars, stale>>

vars == <<reqVars, runVars, chanVars, mapVars, pVars, cVars, apiVars, stale>>
-----------------------------------------------------------------------------
(* Helpers *)

Key(r) == req[r].model

LoadedKeys == {m \in Models : loaded[m] # None}

LoadedRunners == {loaded[m] : m \in LoadedKeys}

\* The orders in which a range over the loaded map can meet the set S.
Orders(S) == {s \in [1 .. Cardinality(S) -> S] :
                \A i, j \in 1 .. Cardinality(S) : i # j => s[i] # s[j]}

\* ByDurationAndName.Less; distinct loaded runners have distinct keys.
Less(a, b) == \/ sessionDuration[a] < sessionDuration[b]
              \/ /\ sessionDuration[a] = sessionDuration[b]
                 /\ Key(a) < Key(b)

\* sort.Sort(ByDurationAndName(runnerList))
SortedOrders(S) == {s \in Orders(S) :
                      \A i, j \in 1 .. Cardinality(S) : i < j => Less(s[i], s[j])}

Free(rn) == refMu[rn] = "free"

\* A goroutine that blocks on a full expiredCh does so holding the refMu of
\* the runner it sends, which names the goroutine.
PReady(pc) == ppc = pc /\ \A rn \in Reqs : refMu[rn] # "P"
CReady(pc) == cpc = pc /\ \A rn \in Reqs : refMu[rn] # "C"

\* Mutants: a grant that takes no reference, a signed refCount, a runner with
\* one reference taken for idle, an off-by-one limit, expiredCh made with room
\* for a single event.
TakeRefMissing(n) == n
DropRefSigned(n) == n - 1
InUseOffByOne(rn) == refCount[rn] > 1
AtRunnerLimitOffByOne == Cardinality(LoadedKeys) > MaxRunners
ExpiredFullAtOne == Len(expiredCh) >= 1

\* refCount is unsigned: 0 - 1 is the largest count.
TakeRef(n) == (n + 1) % RefMod
DropRef(n) == (n - 1) % RefMod

InUse(rn) == refCount[rn] # 0

AtRunnerLimit == Cardinality(LoadedKeys) >= MaxRunners

ExpiredFull == Len(expiredCh) >= MaxQueue

\* expiredCh <- runner at the end of a critical section of its refMu.
SendExpired(rn, who) ==
  IF ExpiredFull
  THEN refMu' = [refMu EXCEPT ![rn] = who] /\ UNCHANGED expiredCh
  ELSE expiredCh' = Append(expiredCh, rn) /\ refMu' = [refMu EXCEPT ![rn] = "free"]

\* Mutant: unload that does not close the server.
UnloadWithoutClose(rn) == /\ rstate' = [rstate EXCEPT ![rn] = "unloaded"]
                          /\ expireTimer' = [expireTimer EXCEPT ![rn] = "nil"]
                          /\ UNCHANGED proc

\* runner.unload()
Unload(rn) == /\ rstate' = [rstate EXCEPT ![rn] = "unloaded"]
              /\ proc' = [proc EXCEPT ![rn] = "dead"]
              /\ expireTimer' = [expireTimer EXCEPT ![rn] = "nil"]

\* Mutant: a timer that exists is reset, but none is created.
TimerOnlyReset(rn, left) ==
  IF left = 0 /\ sessionDuration[rn] # 0 /\ expireTimer[rn] # "nil" THEN "armed"
  ELSE IF left # 0 THEN expireTimer[rn] ELSE "nil"

\* The timer of rn after a finished event that leaves some references.
TimerAfterFinish(rn, left) ==
  IF left # 0 THEN expireTimer[rn]
  ELSE IF sessionDuration[rn] = 0 THEN "nil" ELSE "armed"

\* Stop the timer, make the runner expire as soon as it is idle, and start
\* that now if it is.
ExpireNow(rn, who) ==
  /\ expireTimer' = [expireTimer EXCEPT ![rn] = "nil"]
  /\ sessionDuration' = [sessionDuration EXCEPT ![rn] = 0]
  /\ IF InUse(rn) THEN UNCHANGED <<expiredCh, refMu>> ELSE SendExpired(rn, who)

\* Mutant: a runner serves requests with any options.
MustReloadForgotten(rn, r) == rstate[rn] = "unloaded" \/ proc[rn] = "dead"

\* needsReload is certain when the runner was unloaded (Options is nil), the
\* options differ, or Ping cannot succeed.  Otherwise Ping may still time out.
\* opts is what it compares: where it leaves options out (MLX) or makes them
\* equal (num_gpu below 0), the requests have the same opts.
MustReload(rn, r) == \/ rstate[rn] = "unloaded"
                     \/ req[rn].opts # req[r].opts
                     \/ proc[rn] = "dead"

\* useLoadedRunner: the reference is taken whatever became of the runner
\* since needsReload looked at it.
UseLoadedRunner(r, rn) ==
  /\ Free(rn)
  /\ refCount' = [refCount EXCEPT ![rn] = TakeRef(@)]
  /\ expireTimer' = [expireTimer EXCEPT ![rn] = "nil"]
  /\ sessionDuration' = [sessionDuration EXCEPT
                           ![rn] = IF req[r].keepAlive = NilKeepAlive
                                   THEN @ ELSE req[r].keepAlive]
  /\ seen' = [seen EXCEPT ![r] = rn]
  /\ rst' = [rst EXCEPT ![r] = "granted"]
  /\ replies' = [replies EXCEPT ![r] = @ + 1]
  /\ stale' = (stale \/ rstate[rn] = "unloaded")
  /\ UNCHANGED <<reqFixed, rstate, refMu, callbacks, resends, proc>>

\* errCh <- err
Fail(r) == /\ rst' = [rst EXCEPT ![r] = "failed"]
           /\ replies' = [replies EXCEPT ![r] = @ + 1]
-----------------------------------------------------------------------------
Init ==
  /\ req = [r \in Reqs |-> None]
  /\ rst = [r \in Reqs |-> "new"]
  /\ seen = [r \in Reqs |-> None]
  /\ ctxDone = [r \in Reqs |-> FALSE]
  /\ schedAttempts = [r \in Reqs |-> 0]
  /\ oomRetryAttempted = [r \in Reqs |-> FALSE]
  /\ replies = [r \in Reqs |-> 0]
  /\ rstate = [r \in Reqs |-> "none"]
  /\ refCount = [r \in Reqs |-> 0]
  /\ sessionDuration = [r \in Reqs |-> 0]
  /\ expireTimer = [r \in Reqs |-> "nil"]
  /\ refMu = [r \in Reqs |-> "free"]
  /\ callbacks = [r \in Reqs |-> 0]
  /\ resends = [r \in Reqs |-> 0]
  /\ proc = [r \in Reqs |-> "none"]
  /\ loaded = [m \in Models |-> None]
  /\ activeLoading = None
  /\ pendingReqCh = <<>> /\ finishedReqCh = <<>> /\ expiredCh = <<>>
  /\ unloadedCh = 0
  /\ ppc = "recv" /\ pending = None /\ runnerToExpire = None
  /\ visit = <<>> /\ waitFor = 0 /\ requireFull = FALSE
  /\ cpc = "recv" /\ crunner = None /\ finished = None
  /\ apc = [a \in Apis |-> "idle"]
  /\ todo = [a \in Apis |-> <<>>]
  /\ schedDone = FALSE
  /\ stale = FALSE
-----------------------------------------------------------------------------
(* The handler of request r: getRunner, then waiting for the reply *)

\* getRunner up to the first unlock of loadedMu.
GetRunner(r, q) ==
  /\ rst[r] = "new" /\ q \in Asks[r]
  /\ req' = [req EXCEPT ![r] = q]
  /\ seen' = [seen EXCEPT ![r] = loaded[q.model]]
  /\ rst' = [rst EXCEPT ![r] = IF loaded[q.model] = None THEN "enqueue" ELSE "check"]
  /\ UNCHANGED <<ctxDone, schedAttempts, oomRetryAttempted, replies, runVars, chanVars,
                 outsideRun>>

\* runner.needsReload(c, req) in the handler.
CheckReload(r) ==
  /\ rst[r] = "check" /\ Free(seen[r])
  /\ \/ rst' = [rst EXCEPT ![r] = "enqueue"]
     \/ /\ ~MustReload(seen[r], r) /\ ~ctxDone[r]
        /\ rst' = [rst EXCEPT ![r] = "use"]
  /\ UNCHANGED <<reqFixed, seen, replies, runVars, chanVars, outsideRun>>

\* req.useLoadedRunner(runner, s.finishedReqCh) in the handler.
UseRunner(r) ==
  /\ rst[r] = "use"
  /\ UseLoadedRunner(r, seen[r])
  /\ UNCHANGED <<chanVars, mapVars, pVars, cVars, apiVars>>

\* select { case s.pendingReqCh <- req: default: req.errCh <- ErrMaxQueue }
Enqueue(r) ==
  /\ rst[r] = "enqueue"
  /\ IF Len(pendingReqCh) < MaxQueue
     THEN /\ pendingReqCh' = Append(pendingReqCh, r)
          /\ rst' = [rst EXCEPT ![r] = "queued"]
          /\ UNCHANGED replies
     ELSE Fail(r) /\ UNCHANGED pendingReqCh
  /\ UNCHANGED <<reqFixed, seen, runVars, finishedReqCh, expiredCh, unloadedCh,
                 outsideRun>>

\* The handler returned, or the client went away.
CtxDone(r) ==
  /\ rst[r] \notin {"new", "failed", "finishing", "done"} /\ ~ctxDone[r]
  /\ ctxDone' = [ctxDone EXCEPT ![r] = TRUE]
  /\ UNCHANGED <<req, rst, seen, schedAttempts, oomRetryAttempted, replies, runVars,
                 chanVars, outsideRun>>

\* The watcher started with the grant: <-ctx.Done(); finished <- pending
WatchFinished(r) ==
  /\ rst[r] = "granted" /\ ctxDone[r] /\ Len(finishedReqCh) < MaxQueue
  /\ rst' = [rst EXCEPT ![r] = "finishing"]
  /\ finishedReqCh' = Append(finishedReqCh, r)
  /\ UNCHANGED <<reqFixed, seen, replies, runVars, pendingReqCh, expiredCh, unloadedCh,
                 outsideRun>>
-----------------------------------------------------------------------------
(* processPending *)

\* case pending := <-s.pendingReqCh
Receive ==
  /\ PReady("recv") /\ pendingReqCh # <<>>
  /\ pending' = Head(pendingReqCh)
  /\ pendingReqCh' = Tail(pendingReqCh)
  /\ schedAttempts' = [schedAttempts EXCEPT ![pending'] = @ + 1]
  /\ ppc' = "eval"
  /\ UNCHANGED <<req, rst, seen, ctxDone, oomRetryAttempted, replies, runVars,
                 finishedReqCh, expiredCh, unloadedCh, mapVars, pLocals, cVars, apiVars,
                 stale>>

\* case <-s.unloadedCh with no pending request
IgnoreUnloaded ==
  /\ PReady("recv") /\ unloadedCh > 0
  /\ unloadedCh' = unloadedCh - 1
  /\ UNCHANGED <<outsideC, runVars, pendingReqCh, finishedReqCh, expiredCh, cVars>>

\* The head of the inner loop: look at the loaded map and choose a branch.
\* The branch for schedAttempts > 1 dereferences the nil runnerToExpire.
Evaluate ==
  /\ PReady("eval")
  /\ LET rn == loaded[Key(pending)] IN
       IF rn # None
       THEN ppc' = "check" /\ runnerToExpire' = rn /\ UNCHANGED requireFull
       ELSE /\ runnerToExpire' = None
            /\ requireFull' = (LoadedKeys # {})
            /\ ppc' = IF AtRunnerLimit THEN "find"
                      ELSE IF schedAttempts[pending] > 1 THEN "panic"
                      ELSE "refresh"
  /\ UNCHANGED <<outsideP, pending, visit, waitFor>>

\* Mutant: a runner that needs a reload is loaded again without unloading it.
PendingCheckReloadNoExpire ==
  /\ PReady("check") /\ Free(runnerToExpire)
  /\ \/ ppc' = "refresh"
     \/ ~MustReload(runnerToExpire, pending) /\ ppc' = "use"
  /\ UNCHANGED <<outsideP, pending, pLocals>>

\* runner.needsReload(ctx, pending) in processPending.
PendingCheckReload ==
  /\ PReady("check") /\ Free(runnerToExpire)
  /\ \/ ppc' = "expire"
     \/ /\ ~MustReload(runnerToExpire, pending) /\ ~schedDone
        /\ ppc' = "use"
  /\ UNCHANGED <<outsideP, pending, pLocals>>

\* pending.useLoadedRunner(runner, s.finishedReqCh); break
PendingUseRunner ==
  /\ PReady("use")
  /\ UseLoadedRunner(pending, runnerToExpire)
  /\ ppc' = "recv" /\ pending' = None /\ runnerToExpire' = None
  /\ UNCHANGED <<chanVars, mapVars, visit, waitFor, requireFull, cVars, apiVars>>

\* getGpuFn, getSystemInfoFn and the snapshot of updateFreeSpace, which
\* returns at once when there is no GPU to account for.
RefreshGPUs ==
  /\ PReady("refresh")
  /\ visit' \in IF req[pending].place = "cpu" THEN {<<>>} ELSE Orders(LoadedRunners)
  /\ ppc' = "free"
  /\ UNCHANGED <<outsideP, pending, runnerToExpire, waitFor, requireFull>>

\* updateFreeSpace takes the refMu of every loaded runner in turn.
UpdateFreeSpace ==
  /\ PReady("free")
  /\ IF visit = <<>> THEN ppc' = "load" /\ UNCHANGED visit
     ELSE Free(Head(visit)) /\ visit' = Tail(visit) /\ UNCHANGED ppc
  /\ UNCHANGED <<outsideP, pending, runnerToExpire, waitFor, requireFull>>

\* Where processPending goes when load asks for a retry.
AfterRetry(oom) == IF ~requireFull THEN "eval" ELSE IF oom THEN "evict" ELSE "find"

\* load, first half: no server could be created.
LoadNoServer ==
  /\ PReady("load") /\ activeLoading = None
  /\ Fail(pending)
  /\ ppc' = "recv" /\ pending' = None
  /\ UNCHANGED <<reqFixed, seen, runVars, chanVars, mapVars, pLocals, cVars, apiVars,
                 stale>>

\* load, first half: the model is predicted not to fit beside the others.
LoadPredictedTooBig ==
  /\ PReady("load") /\ activeLoading = None
  /\ requireFull /\ LoadedKeys # {} /\ req[pending].place = "gpu"
  /\ ppc' = AfterRetry(oomRetryAttempted[pending])
  /\ UNCHANGED <<outsideP, pending, pLocals>>

\* load, first half: a server exists, newly started or left by an earlier try.
\* Another model's server left in activeLoading is a panic.
LoadStartServer ==
  /\ PReady("load")
  /\ IF activeLoading = None
     THEN /\ activeLoading' = pending
          /\ proc' = [proc EXCEPT ![pending] = "up"]
          /\ ppc' = "loading"
     ELSE /\ ppc' = IF Key(activeLoading) = Key(pending) THEN "loading" ELSE "panic"
          /\ UNCHANGED <<activeLoading, proc>>
  /\ UNCHANGED <<reqVars, rstate, refCount, sessionDuration, expireTimer, refMu,
                 callbacks, resends, chanVars, loaded, pending, pLocals, cVars, apiVars,
                 stale>>

\* Mutant: the request is refused, and its server left in activeLoading.
LoadRequiredFullGivesUp ==
  /\ PReady("loading") /\ requireFull /\ req[pending].place = "gpu"
  /\ Fail(pending)
  /\ ppc' = "recv" /\ pending' = None
  /\ UNCHANGED <<reqFixed, seen, runVars, chanVars, mapVars, pLocals, cVars, apiVars,
                 stale>>

\* llama.Load returned ErrLoadRequiredFull, which it does only on a GPU and
\* when requireFull is set: evict and come back to the same server.
LoadRequiredFull ==
  /\ PReady("loading") /\ requireFull /\ req[pending].place = "gpu"
  /\ ppc' = AfterRetry(oomRetryAttempted[pending])
  /\ UNCHANGED <<outsideP, pending, pLocals>>

\* llama.Load failed.  activeLoading is closed and cleared without loadedMu:
\* it is a nil dereference when unloadAllRunners cleared it meanwhile.  An
\* out-of-memory failure is retried once, if the context can be reduced or
\* other models can be evicted.
LoadFailed(oom, reducible) ==
  /\ PReady("loading")
  /\ IF activeLoading = None
     THEN /\ ppc' = "panic"
          /\ UNCHANGED <<reqVars, proc, mapVars, pending>>
     ELSE /\ proc' = [proc EXCEPT ![activeLoading] = "dead"]
          /\ activeLoading' = None
          /\ UNCHANGED <<req, seen, ctxDone, schedAttempts, loaded>>
          /\ IF /\ oom /\ ~oomRetryAttempted[pending]
                /\ reducible \/ LoadedKeys # {}
             THEN /\ oomRetryAttempted' = [oomRetryAttempted EXCEPT ![pending] = TRUE]
                  /\ ppc' = AfterRetry(TRUE)
                  /\ UNCHANGED <<rst, replies, pending>>
             ELSE /\ Fail(pending)
                  /\ ppc' = "recv" /\ pending' = None
                  /\ UNCHANGED oomRetryAttempted
  /\ UNCHANGED <<rstate, refCount, sessionDuration, expireTimer, refMu, callbacks,
                 resends, chanVars, pLocals, cVars, apiVars, stale>>

\* llama.Load succeeded: the runner is published with its refMu held by the
\* goroutine that waits for it to run.  A runner still loaded under the same
\* key is unloaded first ("Shouldn't happen").
LoadSucceeded ==
  /\ PReady("loading") /\ proc[pending] = "up" /\ ~ctxDone[pending]
  /\ LET old == loaded[Key(pending)] IN
       /\ old # None => Free(old)
       /\ rstate' = [rn \in Reqs |-> IF rn = pending THEN "loading"
                                     ELSE IF rn = old THEN "unloaded" ELSE rstate[rn]]
       /\ proc' = [rn \in Reqs |-> IF rn = old THEN "dead" ELSE proc[rn]]
       /\ expireTimer' = [rn \in Reqs |-> IF rn = old THEN "nil" ELSE expireTimer[rn]]
  /\ sessionDuration' = [sessionDuration EXCEPT
                           ![pending] = IF req[pending].keepAlive = NilKeepAlive
                                        THEN DefaultKeepAlive ELSE req[pending].keepAlive]
  /\ refMu' = [refMu EXCEPT ![pending] = "load"]
  /\ activeLoading' = None
  /\ loaded' = [loaded EXCEPT ![Key(pending)] = pending]
  /\ ppc' = "recv" /\ pending' = None
  /\ UNCHANGED <<reqVars, refCount, callbacks, resends, chanVars, pLocals, cVars,
                 apiVars, stale>>

\* findRunnerToUnload: the snapshot, sorted.
FindSnapshot ==
  /\ PReady("find")
  /\ IF LoadedRunners = {}
     THEN ppc' = "eval" /\ UNCHANGED <<visit, runnerToExpire>>
     ELSE /\ visit' \in SortedOrders(LoadedRunners)
          /\ runnerToExpire' = visit'[1]
          /\ ppc' = "scan"
  /\ UNCHANGED <<outsideP, pending, waitFor, requireFull>>

\* findRunnerToUnload: the first idle runner, or else the first of the list.
FindScan ==
  /\ PReady("scan")
  /\ IF visit = <<>>
     THEN ppc' = "expire" /\ UNCHANGED <<visit, runnerToExpire>>
     ELSE /\ Free(Head(visit))
          /\ IF InUse(Head(visit))
             THEN visit' = Tail(visit) /\ UNCHANGED <<ppc, runnerToExpire>>
             ELSE ppc' = "expire" /\ runnerToExpire' = Head(visit) /\ visit' = <<>>
  /\ UNCHANGED <<outsideP, pending, waitFor, requireFull>>

\* "resetting model to expire immediately to make room"
ExpireToMakeRoom ==
  /\ PReady("expire") /\ Free(runnerToExpire)
  /\ ExpireNow(runnerToExpire, "P")
  /\ ppc' = "wait"
  /\ UNCHANGED <<reqVars, rstate, refCount, callbacks, resends, proc, pendingReqCh,
                 finishedReqCh, unloadedCh, mapVars, pending, pLocals, cVars, apiVars,
                 stale>>

\* case <-s.unloadedCh: continue
UnloadObserved ==
  /\ PReady("wait") /\ unloadedCh > 0
  /\ unloadedCh' = unloadedCh - 1
  /\ ppc' = "eval" /\ runnerToExpire' = None
  /\ UNCHANGED <<reqVars, runVars, pendingReqCh, finishedReqCh, expiredCh, mapVars,
                 pending, visit, waitFor, requireFull, cVars, apiVars, stale>>

\* evictAllAndWait: the snapshot of every other runner.
EvictSnapshot ==
  /\ PReady("evict")
  /\ LET others == LoadedRunners \ {loaded[Key(pending)]} IN
       /\ visit' \in Orders(others)
       /\ waitFor' = Cardinality(others)
       /\ ppc' = IF others = {} THEN "eval" ELSE "evicting"
  /\ UNCHANGED <<outsideP, pending, runnerToExpire, requireFull>>

\* evictAllAndWait: expire the next one.
EvictNext ==
  /\ PReady("evicting") /\ visit # <<>> /\ Free(Head(visit))
  /\ ExpireNow(Head(visit), "P")
  /\ visit' = Tail(visit)
  /\ UNCHANGED <<reqVars, rstate, refCount, callbacks, resends, proc, pendingReqCh,
                 finishedReqCh, unloadedCh, mapVars, ppc, pending, runnerToExpire,
                 waitFor, requireFull, cVars, apiVars, stale>>

\* evictAllAndWait: one unload event for every runner of the snapshot.
EvictObserved ==
  /\ PReady("evicting") /\ visit = <<>> /\ unloadedCh > 0
  /\ unloadedCh' = unloadedCh - 1
  /\ waitFor' = waitFor - 1
  /\ ppc' = IF waitFor = 1 THEN "eval" ELSE "evicting"
  /\ UNCHANGED <<reqVars, runVars, pendingReqCh, finishedReqCh, expiredCh, mapVars,
                 pending, runnerToExpire, visit, requireFull, cVars, apiVars, stale>>

\* Mutant: the selects that wait for an unload have no case for ctx.Done().
PendingLoopExitIdleOnly ==
  /\ schedDone /\ PReady("recv")
  /\ ppc' = "exited"
  /\ UNCHANGED <<outsideP, pending, pLocals>>

\* case <-ctx.Done(), at the three places where the loop can block on it.
PendingLoopExit ==
  /\ schedDone
  /\ PReady("recv") \/ PReady("wait") \/ (PReady("evicting") /\ visit = <<>>)
  /\ ppc' = "exited"
  /\ UNCHANGED <<outsideP, pending, pLocals>>
-----------------------------------------------------------------------------
(* The goroutine of load that waits for runner rn, holding its refMu *)

WaitUntilRunningOk(rn) ==
  /\ refMu[rn] = "load" /\ proc[rn] = "up" /\ ~ctxDone[rn]
  /\ rstate' = [rstate EXCEPT ![rn] = "running"]
  /\ refCount' = [refCount EXCEPT ![rn] = TakeRef(@)]
  /\ refMu' = [refMu EXCEPT ![rn] = "free"]
  /\ seen' = [seen EXCEPT ![rn] = rn]
  /\ rst' = [rst EXCEPT ![rn] = "granted"]
  /\ replies' = [replies EXCEPT ![rn] = @ + 1]
  /\ UNCHANGED <<reqFixed, sessionDuration, expireTimer, callbacks, resends, proc,
                 chanVars, outsideRun>>

\* Mutant: the goroutine goes on after the error.
WaitUntilRunningFailedNoReturn(rn) ==
  /\ refMu[rn] = "load" /\ replies[rn] = 0
  /\ replies' = [replies EXCEPT ![rn] = @ + 1]
  /\ UNCHANGED <<reqFixed, rst, seen, runVars, chanVars, outsideRun>>

WaitUntilRunningFailed(rn) ==
  /\ refMu[rn] = "load"
  /\ Fail(rn)
  /\ SendExpired(rn, "other")
  /\ UNCHANGED <<reqFixed, seen, rstate, refCount, sessionDuration, expireTimer,
                 callbacks, resends, proc, pendingReqCh, finishedReqCh, unloadedCh,
                 outsideRun>>
-----------------------------------------------------------------------------
(* Timers and blocked senders of runner rn *)

\* The timer set by time.AfterFunc goes off; its callback starts.
TimerFires(rn) ==
  /\ expireTimer[rn] = "armed" /\ sessionDuration[rn] # Forever
  /\ expireTimer' = [expireTimer EXCEPT ![rn] = "fired"]
  /\ callbacks' = [callbacks EXCEPT ![rn] = @ + 1]
  /\ UNCHANGED <<outsideC, rstate, refCount, sessionDuration, refMu, resends, proc,
                 chanVars, cVars>>

\* The callback: it cannot tell that the timer was stopped meanwhile.
TimerCallback(rn) ==
  /\ callbacks[rn] > 0 /\ Free(rn)
  /\ callbacks' = [callbacks EXCEPT ![rn] = @ - 1]
  /\ expireTimer' = [expireTimer EXCEPT ![rn] = "nil"]
  /\ SendExpired(rn, "other")
  /\ UNCHANGED <<outsideC, rstate, refCount, sessionDuration, resends, proc,
                 pendingReqCh, finishedReqCh, unloadedCh, cVars>>

\* time.Sleep(10 * time.Millisecond); s.expiredCh <- runner
ResendExpired(rn) ==
  /\ resends[rn] > 0 /\ ~ExpiredFull
  /\ resends' = [resends EXCEPT ![rn] = @ - 1]
  /\ expiredCh' = Append(expiredCh, rn)
  /\ UNCHANGED <<outsideC, rstate, refCount, sessionDuration, expireTimer, refMu,
                 callbacks, proc, pendingReqCh, finishedReqCh, unloadedCh, cVars>>

\* A goroutine that blocked on the full expiredCh gets its turn.
UnblockSender(rn) ==
  /\ refMu[rn] \in {"P", "C", "other"} /\ ~ExpiredFull
  /\ expiredCh' = Append(expiredCh, rn)
  /\ refMu' = [refMu EXCEPT ![rn] = "free"]
  /\ UNCHANGED <<outsideC, rstate, refCount, sessionDuration, expireTimer, callbacks,
                 resends, proc, pendingReqCh, finishedReqCh, unloadedCh, cVars>>
-----------------------------------------------------------------------------
(* processCompleted *)

\* case finished := <-s.finishedReqCh, up to the lookup by model key.
ReceiveFinished ==
  /\ CReady("recv") /\ finishedReqCh # <<>>
  /\ LET r == Head(finishedReqCh) IN
       IF loaded[Key(r)] = None
       THEN /\ rst' = [rst EXCEPT ![r] = "done"]
            /\ UNCHANGED cVars
       ELSE /\ finished' = r /\ crunner' = loaded[Key(r)] /\ cpc' = "finish"
            /\ UNCHANGED rst
  /\ finishedReqCh' = Tail(finishedReqCh)
  /\ UNCHANGED <<reqFixed, seen, replies, runVars, pendingReqCh, expiredCh, unloadedCh,
                 mapVars, pVars, apiVars, stale>>

\* The finished event under refMu: drop the reference, and expire an idle
\* runner now or after its keep-alive.
FinishRequest ==
  /\ CReady("finish") /\ Free(crunner)
  /\ LET left == DropRef(refCount[crunner]) IN
       /\ refCount' = [refCount EXCEPT ![crunner] = left]
       /\ expireTimer' = [expireTimer EXCEPT ![crunner] = TimerAfterFinish(crunner, left)]
       /\ IF left = 0 /\ sessionDuration[crunner] = 0
          THEN SendExpired(crunner, "C")
          ELSE UNCHANGED <<expiredCh, refMu>>
  /\ rst' = [rst EXCEPT ![finished] = "done"]
  /\ cpc' = "recv" /\ crunner' = None /\ finished' = None
  /\ UNCHANGED <<reqFixed, seen, replies, rstate, sessionDuration, callbacks, resends,
                 proc, pendingReqCh, finishedReqCh, unloadedCh, mapVars, pVars, apiVars,
                 stale>>

\* case runner := <-s.expiredCh
ReceiveExpired ==
  /\ CReady("recv") /\ expiredCh # <<>>
  /\ crunner' = Head(expiredCh)
  /\ expiredCh' = Tail(expiredCh)
  /\ cpc' = "expire"
  /\ UNCHANGED <<outsideC, runVars, pendingReqCh, finishedReqCh, unloadedCh, finished>>

\* The expired event of a runner in use: try again later.
ExpiredInUse ==
  /\ CReady("expire") /\ Free(crunner) /\ InUse(crunner)
  /\ resends' = [resends EXCEPT ![crunner] = @ + 1]
  /\ cpc' = "recv" /\ crunner' = None
  /\ UNCHANGED <<outsideC, rstate, refCount, sessionDuration, expireTimer, refMu,
                 callbacks, proc, chanVars, finished>>

\* The expired event of an idle runner: a duplicate, an orphan whose pid is
\* not the loaded one's, or the loaded runner, which is unloaded and removed.
ExpiredIdle ==
  /\ CReady("expire") /\ Free(crunner) /\ ~InUse(crunner)
  /\ LET current == loaded[Key(crunner)] IN
       /\ IF current = None THEN UNCHANGED <<rstate, proc, expireTimer>>
                            ELSE Unload(crunner)
       /\ IF current = crunner
          THEN /\ loaded' = [loaded EXCEPT ![Key(crunner)] = None]
               /\ refMu' = [refMu EXCEPT ![crunner] = "vram"]
               /\ cpc' = "vram" /\ UNCHANGED crunner
          ELSE /\ cpc' = "recv" /\ crunner' = None
               /\ UNCHANGED <<loaded, refMu>>
  /\ UNCHANGED <<reqVars, refCount, sessionDuration, callbacks, resends, chanVars,
                 activeLoading, pVars, finished, apiVars, stale>>

\* <-finished of waitForVRAMRecovery, converged or timed out.
VRAMRecovered ==
  /\ CReady("vram")
  /\ refMu' = [refMu EXCEPT ![crunner] = "free"]
  /\ cpc' = "unloaded" /\ crunner' = None
  /\ UNCHANGED <<outsideC, rstate, refCount, sessionDuration, expireTimer, callbacks,
                 resends, proc, chanVars, finished>>

\* Mutant: processPending is not told.
SendUnloadedNever ==
  /\ CReady("unloaded")
  /\ cpc' = "recv"
  /\ UNCHANGED <<outsideC, runVars, chanVars, crunner, finished>>

\* s.unloadedCh <- struct{}{}
SendUnloaded ==
  /\ CReady("unloaded") /\ unloadedCh < MaxQueue
  /\ unloadedCh' = unloadedCh + 1
  /\ cpc' = "recv"
  /\ UNCHANGED <<outsideC, runVars, pendingReqCh, finishedReqCh, expiredCh, crunner,
                 finished>>

\* case <-ctx.Done()
CompletedLoopExit ==
  /\ schedDone /\ CReady("recv")
  /\ cpc' = "exited"
  /\ UNCHANGED <<outsideC, runVars, chanVars, crunner, finished>>
-----------------------------------------------------------------------------
(* The management API, shutdown, and a subprocess that dies by itself *)

\* Lookup by key of expireRunner and StopModelHandler.
ApiLookup(a, kind, m) ==
  /\ apc[a] = "idle" /\ kind \in ApiKinds
  /\ todo' = [todo EXCEPT ![a] = IF loaded[m] = None THEN <<>> ELSE <<loaded[m]>>]
  /\ apc' = [apc EXCEPT ![a] = kind]
  /\ UNCHANGED <<reqVars, runVars, chanVars, mapVars, pVars, cVars, schedDone, stale>>

\* Snapshot of expireRunnersForRuntimeOOM, called by the handler of a request
\* whose completion ran out of memory.
ApiRuntimeOOM(a) ==
  /\ apc[a] = "idle" /\ "oom" \in ApiKinds
  /\ \E r \in Reqs : rst[r] = "granted"
  /\ \E s \in Orders(LoadedRunners) : todo' = [todo EXCEPT ![a] = s]
  /\ apc' = [apc EXCEPT ![a] = "oom"]
  /\ UNCHANGED <<reqVars, runVars, chanVars, mapVars, pVars, cVars, schedDone, stale>>

\* The critical section of refMu.  StopModelHandler also closes the server
\* and sends the expired event even for a runner in use.
ApiVisit(a) ==
  /\ apc[a] \in {"expire", "stop", "oom"} /\ todo[a] # <<>>
  /\ LET rn == Head(todo[a]) IN
       /\ Free(rn)
       /\ IF apc[a] = "stop"
          THEN /\ expireTimer' = [expireTimer EXCEPT ![rn] = "nil"]
               /\ sessionDuration' = [sessionDuration EXCEPT ![rn] = 0]
               /\ proc' = [proc EXCEPT ![rn] = "dead"]
               /\ SendExpired(rn, "other")
          ELSE ExpireNow(rn, "other") /\ UNCHANGED proc
  /\ todo' = [todo EXCEPT ![a] = Tail(@)]
  /\ UNCHANGED <<reqVars, rstate, refCount, callbacks, resends, pendingReqCh,
                 finishedReqCh, unloadedCh, mapVars, pVars, cVars, apc, schedDone,
                 stale>>

ApiReturn(a) ==
  /\ apc[a] \in {"expire", "stop", "oom"} /\ todo[a] = <<>>
  /\ apc' = [apc EXCEPT ![a] = "done"]
  /\ UNCHANGED <<reqVars, runVars, chanVars, mapVars, pVars, cVars, todo, schedDone,
                 stale>>

\* The signal handler of Serve cancels the scheduler's context first.
ShutdownCancel(a) ==
  /\ apc[a] = "idle" /\ "shutdown" \in ApiKinds
  /\ schedDone' = TRUE
  /\ apc' = [apc EXCEPT ![a] = "unloadall"]
  /\ UNCHANGED <<reqVars, runVars, chanVars, mapVars, pVars, cVars, todo, stale>>

\* unloadAllRunners closes the servers and forgets activeLoading; it keeps
\* the loaded map and takes no refMu.
UnloadAllRunners(a) ==
  /\ \/ apc[a] = "idle" /\ "stopall" \in ApiKinds
     \/ apc[a] = "unloadall"
  /\ proc' = [rn \in Reqs |-> IF rn \in LoadedRunners \cup {activeLoading}
                              THEN "dead" ELSE proc[rn]]
  /\ activeLoading' = None
  /\ apc' = [apc EXCEPT ![a] = "done"]
  /\ UNCHANGED <<reqVars, rstate, refCount, sessionDuration, expireTimer, refMu,
                 callbacks, resends, chanVars, loaded, pVars, cVars, todo, schedDone,
                 stale>>

\* A runner's subprocess exits.
RunnerCrash(a, rn) ==
  /\ apc[a] = "idle" /\ "crash" \in ApiKinds /\ proc[rn] = "up"
  /\ proc' = [proc EXCEPT ![rn] = "dead"]
  /\ apc' = [apc EXCEPT ![a] = "done"]
  /\ UNCHANGED <<reqVars, rstate, refCount, sessionDuration, expireTimer, refMu,
                 callbacks, resends, chanVars, mapVars, pVars, cVars, todo, schedDone,
                 stale>>
-----------------------------------------------------------------------------
Handler(r) == \/ \E q \in Requests : GetRunner(r, q)
              \/ CheckReload(r) \/ UseRunner(r) \/ Enqueue(r)
              \/ CtxDone(r) \/ WatchFinished(r)

LoadStep == \/ LoadNoServer \/ LoadPredictedTooBig \/ LoadStartServer
            \/ LoadRequiredFull \/ LoadSucceeded
            \/ \E oom, reducible \in BOOLEAN : LoadFailed(oom, reducible)

ProcessPending == \/ Receive \/ IgnoreUnloaded \/ Evaluate
                  \/ PendingCheckReload \/ PendingUseRunner
                  \/ RefreshGPUs \/ UpdateFreeSpace \/ LoadStep
                  \/ FindSnapshot \/ FindScan \/ ExpireToMakeRoom \/ UnloadObserved
                  \/ EvictSnapshot \/ EvictNext \/ EvictObserved \/ PendingLoopExit

WaitUntilRunning(rn) == WaitUntilRunningOk(rn) \/ WaitUntilRunningFailed(rn)

RunnerStep(rn) == \/ WaitUntilRunning(rn) \/ TimerFires(rn) \/ TimerCallback(rn)
                  \/ ResendExpired(rn) \/ UnblockSender(rn)

ProcessCompleted == \/ ReceiveFinished \/ FinishRequest
                    \/ ReceiveExpired \/ ExpiredInUse \/ ExpiredIdle
                    \/ VRAMRecovered \/ SendUnloaded \/ CompletedLoopExit

Api(a) == \/ \E kind \in {"expire", "stop"}, m \in Models : ApiLookup(a, kind, m)
          \/ ApiRuntimeOOM(a) \/ ApiVisit(a) \/ ApiReturn(a)
          \/ ShutdownCancel(a) \/ UnloadAllRunners(a)
          \/ \E rn \in Reqs : RunnerCrash(a, rn)

\* Nothing is left to do: every request has ended, both loops are idle or
\* have exited, and no refMu is held.
Quiescent ==
  /\ \A r \in Reqs : rst[r] \in {"failed", "done"} \/ (schedDone /\ rst[r] # "new")
  /\ ppc \in {"recv", "exited"} /\ cpc \in {"recv", "exited"}
  /\ \A rn \in Reqs : Free(rn)

\* A panic of the scheduler goroutine ends the program; the model only stops
\* that goroutine.
Panicked == ppc = "panic"

Finished == (Quiescent \/ Panicked) /\ UNCHANGED vars

Next == \/ \E r \in Reqs : Handler(r) \/ RunnerStep(r)
        \/ ProcessPending \/ ProcessCompleted
        \/ \E a \in Apis : Api(a)
        \/ Finished

Spec == Init /\ [][Next]_vars

\* Fairness.  A goroutine that can run does, and a served request ends.  The
\* select of processCompleted picks among its ready channels at random, so
\* neither of them is passed over for ever.  New requests, the clients that
\* give up before an answer and the management calls owe nothing.
Fairness ==
  /\ WF_vars(ProcessPending) /\ WF_vars(ProcessCompleted)
  /\ SF_vars(ReceiveFinished) /\ SF_vars(ReceiveExpired)
  /\ \A r \in Reqs :
       /\ WF_vars(CheckReload(r)) /\ WF_vars(UseRunner(r)) /\ WF_vars(Enqueue(r))
       /\ WF_vars(rst[r] = "granted" /\ CtxDone(r)) /\ WF_vars(WatchFinished(r))
       /\ WF_vars(WaitUntilRunning(r))
       /\ WF_vars(TimerFires(r)) /\ WF_vars(TimerCallback(r))
       /\ WF_vars(ResendExpired(r)) /\ WF_vars(UnblockSender(r))

FairSpec == Spec /\ Fairness
-----------------------------------------------------------------------------
(* Properties *)

RequestTypeOK ==
  /\ req \in [Reqs -> Requests \cup {None}]
  /\ rst \in [Reqs -> {"new", "check", "use", "enqueue", "queued", "granted",
                       "finishing", "done", "failed"}]
  /\ seen \in [Reqs -> Reqs \cup {None}]
  /\ ctxDone \in [Reqs -> BOOLEAN]
  /\ schedAttempts \in [Reqs -> Nat]
  /\ oomRetryAttempted \in [Reqs -> BOOLEAN]
  /\ replies \in [Reqs -> Nat]

RunnerTypeOK ==
  /\ rstate \in [Reqs -> {"none", "loading", "running", "unloaded"}]
  /\ refCount \in [Reqs -> 0 .. RefMod - 1]
  /\ sessionDuration \in [Reqs -> Nat]
  /\ expireTimer \in [Reqs -> {"nil", "armed", "fired"}]
  /\ refMu \in [Reqs -> {"free", "load", "vram", "P", "C", "other"}]
  /\ callbacks \in [Reqs -> Nat]
  /\ resends \in [Reqs -> Nat]
  /\ proc \in [Reqs -> {"none", "up", "dead"}]

ChannelTypeOK ==
  /\ pendingReqCh \in Seq(Reqs)
  /\ finishedReqCh \in Seq(Reqs)
  /\ expiredCh \in Seq(Reqs)
  /\ unloadedCh \in Nat

MapTypeOK ==
  /\ loaded \in [Models -> Reqs \cup {None}]
  /\ activeLoading \in Reqs \cup {None}

PendingTypeOK ==
  /\ ppc \in {"recv", "eval", "check", "use", "refresh", "free", "load", "loading", "find",
              "scan", "expire", "wait", "evict", "evicting", "exited", "panic"}
  /\ pending \in Reqs \cup {None} /\ runnerToExpire \in Reqs \cup {None}
  /\ visit \in Seq(Reqs) /\ waitFor \in Nat /\ requireFull \in BOOLEAN

CompletedTypeOK ==
  /\ cpc \in {"recv", "finish", "expire", "vram", "unloaded", "exited"}
  /\ crunner \in Reqs \cup {None} /\ finished \in Reqs \cup {None}

ApiTypeOK ==
  /\ apc \in [Apis -> {"idle", "expire", "stop", "oom", "unloadall", "done"}]
  /\ todo \in [Apis -> Seq(Reqs)]
  /\ schedDone \in BOOLEAN

\* The values the code's variables can hold; in particular the refCount of a
\* runner, a uint, is never negative.
TypeOK == /\ RequestTypeOK /\ RunnerTypeOK /\ ChannelTypeOK /\ MapTypeOK
          /\ PendingTypeOK /\ CompletedTypeOK /\ ApiTypeOK /\ stale \in BOOLEAN

\* Requests whose reference on rn has been taken and not yet given back.
Users(rn) == {r \in Reqs : rst[r] \in {"granted", "finishing"} /\ seen[r] = rn}

\* As long as no unloaded runner has been handed out, refCount counts the
\* requests that use the runner: a finished event, which carries only the
\* model key, always reaches the runner its request was given.
RefCountAccurate ==
  ~stale => \A rn \in Reqs : refCount[rn] = Cardinality(Users(rn))

\* "refCount uint // prevent unloading if > 0": the runner of a request that
\* is still being served has not been unloaded.
NoUnloadInUse ==
  \A r \in Reqs : rst[r] = "granted" => rstate[seen[r]] # "unloaded"

\* The same, up to the first time an unloaded runner is handed out.
NoUnloadInUseUnlessStale == ~stale => NoUnloadInUse

\* The scheduler goroutine never panics: it never retries a load with another
\* model's server in activeLoading, never reaches the branch that uses the nil
\* runnerToExpire, and never closes a nil activeLoading.
NoPanic == ~Panicked

\* successCh and errCh have room for one message and one reader: a request is
\* never answered twice, a refused or failed one never granted.
OneReply == \A r \in Reqs :
  replies[r] = IF rst[r] \in {"granted", "finishing", "done", "failed"} THEN 1 ELSE 0

\* The number of loaded models never exceeds maxRunners, although the check
\* and the insertion are separate critical sections.
LoadedBound == Cardinality(LoadedKeys) <= MaxRunners

\* "Shouldn't happen, but safeguard against leaking a runner": while a load is
\* under way no runner is loaded under the same key.
NoDoubleLoad == ppc \in {"refresh", "free", "load", "loading"} => loaded[Key(pending)] = None

\* Every live subprocess can be found by the scheduler: it belongs to a loaded
\* runner or to the load in progress.
NoLostProcess == \A rn \in Reqs :
  proc[rn] = "up" => rn \in LoadedRunners \cup {activeLoading}

\* processCompleted, the only receiver of expiredCh, never waits for a
\* goroutine that is blocked on sending to it: not for itself, not for the
\* refMu such a sender holds, and not for room in unloadedCh, which only a
\* processPending that is not such a sender would make.
CompletedNeverStuck == \A rn \in Reqs :
  ExpiredFull =>
    /\ refMu[rn] # "C"
    /\ refMu[rn] \in {"P", "other"} => ~(cpc \in {"finish", "expire"} /\ crunner = rn)
    /\ refMu[rn] = "P" => ~(cpc = "unloaded" /\ unloadedCh = MaxQueue)

\* Every request that was queued is answered, with a runner or an error,
\* unless an unloaded runner has been handed out or the scheduler shuts down.
QueuedAnswered ==
  \A r \in Reqs : rst[r] = "queued" ~> (rst[r] # "queued" \/ stale \/ schedDone)

\* A runner whose keep-alive is over is eventually unloaded, or used again,
\* with the same exceptions.
IdleUnloaded ==
  \A rn \in Reqs : (rstate[rn] = "running" /\ refCount[rn] = 0)
         ~> (rstate[rn] = "unloaded" \/ refCount[rn] # 0 \/ stale \/ schedDone)

\* An idle runner is never forgotten: a running runner without references has
\* its timer armed or an expired event on its way.
NoIdleLeak ==
  \A rn \in Reqs :
    rstate[rn] = "running" /\ ~InUse(rn) /\ ~stale =>
      \/ expireTimer[rn] = "armed" \/ callbacks[rn] > 0 \/ resends[rn] > 0
      \/ refMu[rn] # "free"
      \/ \E i \in 1 .. Len(expiredCh) : expiredCh[i] = rn
      \/ cpc = "expire" /\ crunner = rn

\* What RunnerLease knows of a request, of the runner it was given, and of the
\* runner it started.
AnswerOf(r) == CASE rst[r] = "new" -> "none"
                 [] rst[r] = "granted" -> "leased"
                 [] rst[r] \in {"finishing", "done"} -> "returned"
                 [] rst[r] = "failed" -> "refused"
                 [] OTHER -> "awaited"

LeaseOf(r) == IF rst[r] \in {"granted", "finishing", "done"} THEN seen[r] ELSE None

RunnerOf(rn) == CASE rstate[rn] \in {"loading", "running"} -> "open"
                  [] rstate[rn] = "unloaded" -> "closed"
                  [] OTHER -> "none"

Lease == INSTANCE RunnerLease WITH
           Questions <- Requests, Limit <- MaxRunners,
           asked <- req,
           answer <- [r \in Reqs |-> AnswerOf(r)],
           lease <- [r \in Reqs |-> LeaseOf(r)],
           runner <- [rn \in Reqs |-> RunnerOf(rn)],
           broken <- stale

\* The scheduler keeps the promise of RunnerLease to the handlers: one answer;
\* a granted runner is one of the request's model and options, although both
\* were compared in an earlier critical section; no more than maxRunners open,
\* no two of one model; none closed under a request it serves, up to the first
\* time an unloaded runner is handed out.
ImplementsLease == Lease!Spec

\* "spawns go routines for the scheduler which will shutdown when ctx is done"
LoopsExit == schedDone ~> (ppc \in {"exited", "panic"} /\ cpc = "exited")
=============================================================================
