--------------------- MODULE SchedulerGuarantees_proofs ---------------------
(***************************************************************************)
(* Proofs of what the scheduler guarantees as a whole.                     *)
(*                                                                         *)
(* First, how many expired events can be on their way: each has a cause of *)
(* its own (a request that has ended, an unload that processPending waits  *)
(* for, a runner that a management call visited), so that expiredCh cannot *)
(* fill up when there are fewer causes than it has room for.               *)
(*                                                                         *)
(* Then, that the scheduler implements RunnerLease, step by step.          *)
(***************************************************************************)
EXTENDS SchedulerRefs_proofs

\* The goroutines that can block on a full expiredCh, by how refMu names them.
Senders == {"P", "C", "other"}

\* How many of each f counts, as a set of pairs.
Counts(f) == UNION {{rn} \X (1 .. f[rn]) : rn \in Reqs}
Tally(tag, f) == {tag} \X Counts(f)

\* The events in expiredCh, those that timers, callbacks and resends will send, those
\* of blocked senders, the one processCompleted works on, and the unload events.
Queued == {"channel"} \X (1 .. Len(expiredCh))
Armed == {"timer"} \X {rn \in Reqs : expireTimer[rn] = "armed"}
Called == Tally("callback", callbacks)
Resent == Tally("resend", resends)
Blocked == {"sender"} \X {rn \in Reqs : refMu[rn] \in Senders}
Busy == {"expire", "vram", "unloaded"}
Handled == IF cpc \in Busy THEN {<<"completed">>} ELSE {}
Unloads == {"unload"} \X (1 .. unloadedCh)

\* The expired events on their way to processCompleted, with it, and on their
\* way from it to processPending as unload events.
Underway == Queued \cup Armed \cup Called \cup Resent \cup Blocked \cup Handled \cup Unloads

\* The unload events processPending has asked for and not yet seen.
Owed == IF ppc = "wait" THEN 1
        ELSE IF ppc = "evicting" THEN waitFor - Len(visit)
        ELSE IF ppc = "exited" /\ pending # None THEN MaxRunners ELSE 0

\* What can cause an event.
Ended == {"ended"} \X {r \in Reqs : rst[r] \in {"done", "failed"}}
Asked == {"asked"} \X (1 .. Owed)
Visited == {"visited"} \X
  UNION {{a} \X (Len(todo[a]) + 1 .. MaxRunners) : a \in {b \in Apis : apc[b] # "idle"}}

\* What the events on their way are due to: a request that ended, a runner that
\* processPending wants gone, a runner that a management call visited.
Causes == Ended \cup Asked \cup Visited

\* Every event has a cause of its own.
Bounded == /\ IsFiniteSet(Underway) /\ IsFiniteSet(Causes)
           /\ Cardinality(Underway) <= Cardinality(Causes)

\* What processPending waits for, and what the calls visit, are loaded runners;
\* a request it was serving when it shut down is never answered.
Asking ==
  /\ ppc = "recv" => pending = None
  /\ ppc = "evicting" => Len(visit) <= waitFor /\ waitFor <= MaxRunners
  /\ ppc = "exited" /\ pending # None =>
       rst[pending] = "queued" /\ refMu[pending] # "load"
  /\ \A a \in Apis : Len(todo[a]) <= MaxRunners

\* processPending waits for no more unloads than there can be loaded runners.
LEMMA OwedType ==
  ASSUME TypeInv, Asking
  PROVE  Owed \in 0 .. MaxRunners
<1>1. ppc = "evicting" => waitFor - Len(visit) \in 0 .. MaxRunners
  BY ConstantAssumption DEF Asking, TypeInv, TypeOK, PendingTypeOK
<1> QED
  BY <1>1, ConstantAssumption DEF Owed
-----------------------------------------------------------------------------
(* Counting *)

\* A set in which one element became another does not grow.
LEMMA MovedOne ==
  ASSUME NEW S, NEW T, IsFiniteSet(S), NEW x \in S, NEW y, T \subseteq (S \ {x}) \cup {y}
  PROVE  IsFiniteSet(T) /\ Cardinality(T) <= Cardinality(S)
<1>1. /\ IsFiniteSet(S \ {x}) /\ Cardinality(S \ {x}) = Cardinality(S) - 1
      /\ Cardinality(S) \in Nat
  BY FS_RemoveElement, FS_CardinalityType
<1>2. /\ IsFiniteSet((S \ {x}) \cup {y})
      /\ Cardinality((S \ {x}) \cup {y}) <= Cardinality(S)
  <2> DEFINE R == S \ {x}
  <2>1. /\ IsFiniteSet(R \cup {y})
        /\ Cardinality(R \cup {y}) = IF y \in R THEN Cardinality(R) ELSE Cardinality(R) + 1
    BY <1>1, FS_AddElement
  <2> QED
    BY <1>1, <2>1
<1>3. /\ IsFiniteSet(T) /\ Cardinality(T) <= Cardinality((S \ {x}) \cup {y})
      /\ Cardinality(T) \in Nat /\ Cardinality((S \ {x}) \cup {y}) \in Nat
  BY <1>2, FS_Subset, FS_CardinalityType
<1> QED
  BY <1>1, <1>2, <1>3

\* One element more.
LEMMA AddedOne ==
  ASSUME NEW S, NEW T, IsFiniteSet(S), NEW y, T \subseteq S \cup {y}
  PROVE  IsFiniteSet(T) /\ Cardinality(T) <= Cardinality(S) + 1
<1>1. /\ IsFiniteSet(S \cup {y}) /\ Cardinality(S) \in Nat
      /\ Cardinality(S \cup {y}) = IF y \in S THEN Cardinality(S) ELSE Cardinality(S) + 1
  BY FS_AddElement, FS_CardinalityType
<1>2. /\ IsFiniteSet(T) /\ Cardinality(T) <= Cardinality(S \cup {y})
      /\ Cardinality(T) \in Nat
  BY <1>1, FS_Subset, FS_CardinalityType
<1> QED
  BY <1>1, <1>2

\* One element less.
LEMMA RemovedOne ==
  ASSUME NEW S, NEW T, IsFiniteSet(S), NEW x \in S, T \subseteq S \ {x}
  PROVE  IsFiniteSet(T) /\ Cardinality(T) <= Cardinality(S) - 1
<1>1. IsFiniteSet(S \ {x}) /\ Cardinality(S \ {x}) = Cardinality(S) - 1
  BY FS_RemoveElement
<1> QED
  BY <1>1, FS_Subset

\* The ways in which a step keeps the events bounded by their causes.
Shrinks(S, T) == T \subseteq S
Moves(S, T) == \E x \in S : \E y : T \subseteq (S \ {x}) \cup {y}
Drops(S, T) == \E x \in S : T \subseteq S \ {x}
Grows(S, T) == \E y : T \subseteq S \cup {y}
Gains(S, T) == \E z \in T : z \notin S /\ S \subseteq T
Loses(S, T) == \E z \in S : S \ {z} \subseteq T

Balanced(S, T, A, B) ==
  \/ (Shrinks(S, T) \/ Moves(S, T)) /\ A \subseteq B
  \/ Grows(S, T) /\ Gains(A, B)
  \/ Drops(S, T) /\ Loses(A, B)

\* Each of these ways keeps the count within its bound.
LEMMA BalanceKept ==
  ASSUME NEW S, NEW T, NEW A, NEW B, Balanced(S, T, A, B), IsFiniteSet(S), IsFiniteSet(A),
         IsFiniteSet(B), Cardinality(S) <= Cardinality(A)
  PROVE  IsFiniteSet(T) /\ Cardinality(T) <= Cardinality(B)
<1>1. Cardinality(S) \in Nat /\ Cardinality(A) \in Nat /\ Cardinality(B) \in Nat
  BY FS_CardinalityType
<1>2. CASE (Shrinks(S, T) \/ Moves(S, T)) /\ A \subseteq B
  <2>1. Cardinality(A) <= Cardinality(B)
    BY <1>2, FS_Subset
  <2>2. IsFiniteSet(T) /\ Cardinality(T) <= Cardinality(S)
    <3>1. CASE Shrinks(S, T)
      BY <3>1, FS_Subset DEF Shrinks
    <3>2. CASE Moves(S, T)
      <4>1. PICK x \in S : \E y : T \subseteq (S \ {x}) \cup {y}
        BY <3>2 DEF Moves
      <4>2. PICK y : T \subseteq (S \ {x}) \cup {y}
        BY <4>1
      <4> QED
        BY <4>2, MovedOne
    <3> QED
      BY <1>2, <3>1, <3>2
  <2> QED
    BY <1>1, <2>1, <2>2, FS_CardinalityType
<1>3. CASE Grows(S, T) /\ Gains(A, B)
  <2>1. PICK z \in B : z \notin A /\ A \subseteq B
    BY <1>3 DEF Gains
  <2>2. Cardinality(A) <= Cardinality(B) - 1
    <3>1. A \subseteq B \ {z}
      BY <2>1
    <3> QED
      BY <3>1, RemovedOne
  <2>3. IsFiniteSet(T) /\ Cardinality(T) <= Cardinality(S) + 1
    <3>1. PICK y : T \subseteq S \cup {y}
      BY <1>3 DEF Grows
    <3> QED
      BY <3>1, AddedOne
  <2> QED
    BY <1>1, <2>2, <2>3, FS_CardinalityType
<1>4. CASE Drops(S, T) /\ Loses(A, B)
  <2>1. PICK x \in S : T \subseteq S \ {x}
    BY <1>4 DEF Drops
  <2>2. IsFiniteSet(T) /\ Cardinality(T) <= Cardinality(S) - 1
    BY <2>1, RemovedOne
  <2>3. PICK z \in A : A \ {z} \subseteq B
    BY <1>4 DEF Loses
  <2>4. Cardinality(A) <= Cardinality(B) + 1
    <3>1. A \subseteq B \cup {z}
      BY <2>3
    <3> QED
      BY <3>1, AddedOne
  <2> QED
    BY <1>1, <2>2, <2>4, FS_CardinalityType
<1> QED
  BY <1>2, <1>3, <1>4 DEF Balanced
-----------------------------------------------------------------------------
(* What a step does to the events on their way, part by part *)

\* A part whose variable a step leaves alone, or only lowers, does not grow.
LEMMA PartsKept ==
  /\ UNCHANGED expiredCh => Queued' = Queued
  /\ (\A rn \in Reqs : expireTimer'[rn] = "armed" => expireTimer[rn] = "armed")
       => Armed' \subseteq Armed
  /\ UNCHANGED callbacks => Called' = Called
  /\ UNCHANGED resends => Resent' = Resent
  /\ (\A rn \in Reqs : refMu'[rn] \in Senders => refMu[rn] \in Senders)
       => Blocked' \subseteq Blocked
  /\ (cpc' \in Busy => cpc \in Busy) => Handled' \subseteq Handled
  /\ UNCHANGED unloadedCh => Unloads' = Unloads
<1>1. UNCHANGED expiredCh => Queued' = Queued
  BY DEF Queued
<1>2. ASSUME \A rn \in Reqs : expireTimer'[rn] = "armed" => expireTimer[rn] = "armed"
      PROVE  Armed' \subseteq Armed
  BY <1>2 DEF Armed
<1>3. (UNCHANGED callbacks => Called' = Called) /\ (UNCHANGED resends => Resent' = Resent)
  BY DEF Called, Resent, Tally, Counts
<1>4. ASSUME \A rn \in Reqs : refMu'[rn] \in Senders => refMu[rn] \in Senders
      PROVE  Blocked' \subseteq Blocked
  BY <1>4 DEF Blocked
<1>5. (cpc' \in Busy => cpc \in Busy) => Handled' \subseteq Handled
  BY DEF Handled
<1>6. UNCHANGED unloadedCh => Unloads' = Unloads
  BY DEF Unloads
<1> QED
  BY <1>1, <1>2, <1>3, <1>4, <1>5, <1>6

\* A send to the channel adds one event to it.
LEMMA QueuedAppend ==
  ASSUME TypeInv, NEW x \in Reqs, expiredCh' = Append(expiredCh, x)
  PROVE  \E y : Queued' \subseteq Queued \cup {y}
<1>1. Len(expiredCh) \in Nat /\ Len(expiredCh') = Len(expiredCh) + 1
  BY DEF TypeInv, TypeOK, ChannelTypeOK
<1>2. \A i \in 1 .. Len(expiredCh') : i \in 1 .. Len(expiredCh) \/ i = Len(expiredCh) + 1
  BY <1>1
<1>3. Queued' \subseteq Queued \cup {<<"channel", Len(expiredCh) + 1>>}
  BY <1>2 DEF Queued
<1> QED
  BY <1>3

\* A sent event is one more in the channel or one more blocked sender.
LEMMA SentOne ==
  ASSUME TypeInv, NEW x \in Reqs, NEW who \in Senders, SendExpired(x, who)
  PROVE  \E y : Queued' \cup Blocked' \subseteq (Queued \cup Blocked) \cup {y}
<1>1. CASE ExpiredFull
  <2>1. Queued' = Queued
    BY <1>1 DEF SendExpired, Queued
  <2>2. Blocked' \subseteq Blocked \cup {<<"sender", x>>}
    <3>1. \A rn \in Reqs : refMu'[rn] \in Senders => rn = x \/ refMu[rn] \in Senders
      BY <1>1 DEF SendExpired, TypeInv, TypeOK, RunnerTypeOK
    <3> QED
      BY <3>1 DEF Blocked
  <2> QED
    BY <2>1, <2>2
<1>2. CASE ~ExpiredFull
  <2>1. PICK y : Queued' \subseteq Queued \cup {y}
    BY <1>2, QueuedAppend DEF SendExpired
  <2>2. Blocked' \subseteq Blocked
    <3>1. \A rn \in Reqs : refMu'[rn] \in Senders => refMu[rn] \in Senders
      BY <1>2 DEF SendExpired, Senders, TypeInv, TypeOK, RunnerTypeOK
    <3> QED
      BY <3>1 DEF Blocked
  <2> QED
    BY <2>1, <2>2
<1> QED
  BY <1>1, <1>2

\* One more of what a count of goroutines counts.
LEMMA CountUp ==
  ASSUME NEW f \in [Reqs -> Nat], NEW x \in Reqs, NEW g, g = [f EXCEPT ![x] = @ + 1]
  PROVE  Counts(g) \subseteq Counts(f) \cup {<<x, f[x] + 1>>}
<1> SUFFICES ASSUME NEW rn \in Reqs, NEW i \in 1 .. g[rn]
             PROVE  <<rn, i>> \in Counts(f) \/ (rn = x /\ i = f[x] + 1)
  BY DEF Counts
<1>1. i \in 1 .. f[rn] \/ (rn = x /\ i = f[x] + 1)
  OBVIOUS
<1> QED
  BY <1>1 DEF Counts

\* One less of what a count of goroutines counts.
LEMMA CountDown ==
  ASSUME NEW f \in [Reqs -> Nat], NEW x \in Reqs, f[x] > 0, NEW g,
         g[x] = f[x] - 1, \A y \in Reqs : y # x => g[y] = f[y]
  PROVE  <<x, f[x]>> \in Counts(f) /\ Counts(g) \subseteq Counts(f) \ {<<x, f[x]>>}
<1>1. <<x, f[x]>> \in Counts(f)
  <2>1. f[x] \in 1 .. f[x]
    OBVIOUS
  <2> QED
    BY <2>1 DEF Counts
<1>2. ASSUME NEW rn \in Reqs, NEW i \in 1 .. g[rn]
      PROVE  <<rn, i>> \in Counts(f) /\ <<rn, i>> # <<x, f[x]>>
  <2>1. i \in 1 .. f[rn] /\ (rn # x \/ i # f[x])
    OBVIOUS
  <2> QED
    BY <2>1 DEF Counts
<1> QED
  BY <1>1, <1>2 DEF Counts

\* A goroutine that is gone has left its part.
LEMMA TakenOne ==
  ASSUME NEW f \in [Reqs -> Nat], NEW x \in Reqs, f[x] > 0, NEW g,
         g[x] = f[x] - 1, \A y \in Reqs : y # x => g[y] = f[y], NEW tag
  PROVE  Drops(Tally(tag, f), Tally(tag, g))
<1>1. PICK p : p = <<x, f[x]>>
  OBVIOUS
<1>2. p \in Counts(f) /\ Counts(g) \subseteq Counts(f) \ {p}
  BY <1>1, CountDown
<1>3. ASSUME NEW S, NEW T, p \in S, T \subseteq S \ {p}
      PROVE  <<tag, p>> \in {tag} \X S /\ {tag} \X T \subseteq ({tag} \X S) \ {<<tag, p>>}
  BY <1>3
<1>4. /\ <<tag, p>> \in {tag} \X Counts(f)
      /\ {tag} \X Counts(g) \subseteq ({tag} \X Counts(f)) \ {<<tag, p>>}
  BY <1>2, <1>3
<1> QED
  BY <1>4 DEF Drops, Tally

\* The seven parts have nothing in common, so that what leaves one of them has
\* left the whole.
LEMMA Tagged ==
  /\ \A e \in Queued : e[1] = "channel"
  /\ \A e \in Armed : e[1] = "timer"
  /\ \A e \in Called : e[1] = "callback"
  /\ \A e \in Resent : e[1] = "resend"
  /\ \A e \in Blocked : e[1] = "sender"
  /\ \A e \in Handled : e[1] = "completed"
  /\ \A e \in Unloads : e[1] = "unload"
  BY DEF Queued, Armed, Called, Resent, Tally, Blocked, Handled, Unloads
-----------------------------------------------------------------------------
(* What processPending waits for *)

\* No more runners are loaded than models.
LEMMA LoadedRunnersCount ==
  ASSUME TypeInv
  PROVE  /\ IsFiniteSet(LoadedRunners) /\ Cardinality(LoadedRunners) \in Nat
         /\ Cardinality(LoadedRunners) <= Cardinality(LoadedKeys)
<1> DEFINE f == [m \in LoadedKeys |-> loaded[m]]
<1>1. IsFiniteSet(LoadedKeys)
  BY LoadedKeysFinite DEF LoadedKeys
<1>2. f \in Surjection(LoadedKeys, LoadedRunners)
  BY DEF Surjection, LoadedRunners
<1>3. /\ IsFiniteSet(LoadedRunners)
      /\ Cardinality(LoadedRunners) <= Cardinality(LoadedKeys)
  BY <1>1, <1>2, FS_Surjection
<1> QED
  BY <1>3, FS_CardinalityType

\* Hence no more than maxRunners.
LEMMA LoadedRunnersBound ==
  ASSUME TypeInv, LoadedBound
  PROVE  IsFiniteSet(LoadedRunners) /\ Cardinality(LoadedRunners) <= MaxRunners
<1>1. Cardinality(LoadedKeys) \in Nat
  BY LoadedKeysFinite DEF LoadedKeys
<1> QED
  BY <1>1, LoadedRunnersCount, ConstantAssumption DEF LoadedBound

\* A range over loaded runners visits no more of them than can be loaded.
LEMMA SnapshotBound ==
  ASSUME TypeInv, LoadedBound, NEW S, S \subseteq LoadedRunners, NEW s \in Orders(S)
  PROVE  Len(s) = Cardinality(S) /\ Cardinality(S) <= MaxRunners
<1>1. S \subseteq Reqs
  BY LoadedRunnersType DEF TypeInv, TypeOK
<1>2. Len(s) = Cardinality(S) /\ Cardinality(S) \in Nat
  BY <1>1, OrdersType
<1>3. Cardinality(S) <= Cardinality(LoadedRunners) /\ Cardinality(LoadedRunners) <= MaxRunners
  BY LoadedRunnersBound, FS_Subset
<1> QED
  BY <1>2, <1>3, LoadedRunnersBound, FS_CardinalityType, ConstantAssumption

\* A request that waits in the queue or with processPending is answered by
\* processPending, or by the goroutine of its own load.
LEMMA QueuedKept ==
  ASSUME TypeInv, RefInv, Next, ~ProcessPending, NEW p \in Reqs, rst[p] = "queued",
         refMu[p] # "load"
  PROVE  rst'[p] = "queued" /\ refMu'[p] # "load"
<1>1. refMu'[p] # "load"
  <2>1. ~LoadSucceeded
    BY DEF ProcessPending, LoadStep
  <2> QED
    BY <2>1, NoOtherLoad
<1> USE DEF reqFixed, reqVars, outsideRun, outsideC, outsideP
<1>2. ASSUME NEW r \in Reqs, Handler(r) PROVE rst'[p] = "queued"
  BY <1>2 DEF Handler, GetRunner, CheckReload, UseRunner, UseLoadedRunner, Enqueue, Fail,
     CtxDone, WatchFinished, TypeInv, TypeOK, RequestTypeOK
<1>3. ASSUME NEW rn \in Reqs, RunnerStep(rn) PROVE rst'[p] = "queued"
  BY <1>3 DEF RunnerStep, WaitUntilRunning, WaitUntilRunningOk, WaitUntilRunningFailed,
     Fail, TimerFires, TimerCallback, ResendExpired, UnblockSender, TypeInv, TypeOK,
     RequestTypeOK
<1>4. ASSUME ProcessCompleted PROVE rst'[p] = "queued"
  <2>1. CASE ReceiveFinished
    <3>1. /\ finishedReqCh # <<>> /\ finishedReqCh \in Seq(Reqs)
          /\ rst' = rst \/ rst' = [rst EXCEPT ![Head(finishedReqCh)] = "done"]
      BY <2>1 DEF ReceiveFinished, TypeInv, TypeOK, ChannelTypeOK
    <3>2. rst[Head(finishedReqCh)] = "finishing"
      <4>1. 1 \in 1 .. Len(finishedReqCh) /\ Head(finishedReqCh) = finishedReqCh[1]
        BY <3>1
      <4> QED
        BY <4>1 DEF RefInv, EndedOnce, Once
    <3> QED
      BY <3>1, <3>2 DEF TypeInv, TypeOK, RequestTypeOK
  <2>2. CASE FinishRequest
    BY <2>2 DEF FinishRequest, CReady, RefInv, EndedOnce, TypeInv, TypeOK, RequestTypeOK
  <2>3. CASE ~ReceiveFinished /\ ~FinishRequest
    BY <1>4, <2>3 DEF ProcessCompleted, ReceiveExpired, ExpiredInUse, ExpiredIdle,
       VRAMRecovered, SendUnloaded, CompletedLoopExit
  <2> QED
    BY <2>1, <2>2, <2>3
<1>5. ASSUME NEW a \in Apis, Api(a) PROVE rst'[p] = "queued"
  BY <1>5 DEF Api, ApiLookup, ApiRuntimeOOM, ApiVisit, ApiReturn, ShutdownCancel,
     UnloadAllRunners, RunnerCrash
<1>6. ASSUME Finished PROVE rst'[p] = "queued"
  BY <1>6 DEF Finished, vars
<1> QED
  BY <1>1, <1>2, <1>3, <1>4, <1>5, <1>6 DEF Next

\* Only processPending changes what it waits for, and only a management call
\* what it has still to visit.
LEMMA OthersAsk ==
  ASSUME Next
  PROVE  /\ ProcessPending \/ UNCHANGED pVars
         /\ (\E a \in Apis : Api(a)) \/ UNCHANGED <<apc, todo>>
<1> USE DEF pLocals, apiVars, outsideRun, outsideC, outsideP
<1>1. ASSUME NEW r \in Reqs, Handler(r) PROVE UNCHANGED <<pVars, apc, todo>>
  BY <1>1 DEF Handler, GetRunner, CheckReload, UseRunner, Enqueue, CtxDone, WatchFinished
<1>2. ASSUME NEW rn \in Reqs, RunnerStep(rn) PROVE UNCHANGED <<pVars, apc, todo>>
  BY <1>2 DEF RunnerStep, WaitUntilRunning, WaitUntilRunningOk, WaitUntilRunningFailed,
     TimerFires, TimerCallback, ResendExpired, UnblockSender
<1>3. CASE ProcessPending
  <2>1. UNCHANGED <<apc, todo>>
    BY <1>3 DEF ProcessPending, Receive, IgnoreUnloaded, Evaluate, PendingCheckReload,
       PendingUseRunner, RefreshGPUs, UpdateFreeSpace, LoadStep, LoadNoServer,
       LoadPredictedTooBig, LoadStartServer, LoadRequiredFull, LoadFailed, LoadSucceeded,
       FindSnapshot, FindScan, ExpireToMakeRoom, UnloadObserved, EvictSnapshot, EvictNext,
       EvictObserved, PendingLoopExit
  <2> QED
    BY <1>3, <2>1
<1>4. CASE ProcessCompleted
  BY <1>4 DEF ProcessCompleted, ReceiveFinished, FinishRequest, ReceiveExpired,
     ExpiredInUse, ExpiredIdle, VRAMRecovered, SendUnloaded, CompletedLoopExit
<1>5. ASSUME NEW a \in Apis, Api(a) PROVE UNCHANGED pVars
  BY <1>5 DEF Api, ApiLookup, ApiRuntimeOOM, ApiVisit, ApiReturn, ShutdownCancel,
     UnloadAllRunners, RunnerCrash
<1>6. CASE Finished
  BY <1>6 DEF Finished, vars
<1> QED
  BY <1>1, <1>2, <1>3, <1>4, <1>5, <1>6 DEF Next

\* What processPending and the management calls still expect stays bounded.
LEMMA StepAsking ==
  ASSUME TypeInv, RefInv, LoadedBound, Asking, Next
  PROVE  Asking'
<1>1. ppc' = "recv" => pending' = None
  <2>1. CASE UNCHANGED pVars
    BY <2>1 DEF pVars, Asking
  <2>2. CASE ProcessPending
    BY <2>2 DEF ProcessPending, Receive, IgnoreUnloaded, Evaluate, PendingCheckReload,
       PendingUseRunner, RefreshGPUs, UpdateFreeSpace, LoadStep, LoadNoServer,
       LoadPredictedTooBig, LoadStartServer, LoadRequiredFull, LoadFailed, LoadSucceeded,
       FindSnapshot, FindScan, ExpireToMakeRoom, UnloadObserved, EvictSnapshot, EvictNext,
       EvictObserved, PendingLoopExit, PReady, AfterRetry, outsideC, pVars, Asking
  <2> QED
    BY <2>1, <2>2, OthersAsk
<1>2. ppc' = "evicting" => Len(visit') <= waitFor' /\ waitFor' <= MaxRunners
  <2> SUFFICES ASSUME ppc' = "evicting"
               PROVE  Len(visit') <= waitFor' /\ waitFor' <= MaxRunners
    OBVIOUS
  <2>1. CASE UNCHANGED pVars
    BY <2>1 DEF pVars, Asking
  <2>2. CASE EvictSnapshot
    <3>1. PICK S : S = LoadedRunners \ {loaded[Key(pending)]}
      OBVIOUS
    <3>2. visit' \in Orders(S) /\ waitFor' = Cardinality(S) /\ S \subseteq LoadedRunners
      BY <2>2, <3>1 DEF EvictSnapshot
    <3>3. Len(visit') = Cardinality(S) /\ Cardinality(S) <= MaxRunners
      BY <3>2, SnapshotBound
    <3>4. Cardinality(S) \in Nat
      <4>1. S \subseteq Reqs
        BY <3>2, LoadedRunnersType DEF TypeInv, TypeOK
      <4> QED
        BY <4>1, OrdersType
    <3> QED
      BY <3>2, <3>3, <3>4
  <2>3. CASE EvictNext
    <3>1. /\ ppc = "evicting" /\ visit # <<>> /\ visit' = Tail(visit) /\ waitFor' = waitFor
          /\ visit \in Seq(Reqs) /\ waitFor \in Nat
      BY <2>3 DEF EvictNext, PReady, TypeInv, TypeOK, PendingTypeOK
    <3>2. Len(visit') = Len(visit) - 1
      BY <3>1
    <3> QED
      BY <3>1, <3>2, ConstantAssumption DEF Asking
  <2>4. CASE EvictObserved
    <3>1. /\ ppc = "evicting" /\ visit = <<>> /\ visit' = visit /\ waitFor' = waitFor - 1
          /\ waitFor \in Nat \ {0}
      BY <2>4 DEF EvictObserved, PReady, TypeInv, TypeOK, PendingTypeOK, WaitPositive
    <3> QED
      BY <3>1, ConstantAssumption DEF Asking
  <2>5. CASE ProcessPending /\ ~EvictSnapshot /\ ~EvictNext /\ ~EvictObserved
    BY <2>5 DEF ProcessPending, Receive, IgnoreUnloaded, Evaluate, PendingCheckReload,
       PendingUseRunner, RefreshGPUs, UpdateFreeSpace, LoadStep, LoadNoServer,
       LoadPredictedTooBig, LoadStartServer, LoadRequiredFull, LoadFailed, LoadSucceeded,
       FindSnapshot, FindScan, ExpireToMakeRoom, UnloadObserved, PendingLoopExit, PReady,
       AfterRetry, outsideC, pVars, Asking
  <2> QED
    BY <2>1, <2>2, <2>3, <2>4, <2>5, OthersAsk
<1>3. ppc' = "exited" /\ pending' # None => rst'[pending'] = "queued" /\ refMu'[pending'] # "load"
  <2> SUFFICES ASSUME ppc' = "exited", pending' # None
               PROVE  rst'[pending'] = "queued" /\ refMu'[pending'] # "load"
    OBVIOUS
  <2>1. CASE ~ProcessPending
    <3>1. UNCHANGED pVars
      BY <2>1, OthersAsk
    <3>2. ppc = "exited" /\ pending' = pending /\ pending \in Reqs
      BY <3>1 DEF pVars, TypeInv, TypeOK, PendingTypeOK
    <3> QED
      BY <2>1, <3>2, QueuedKept DEF Asking
  <2>2. CASE PendingLoopExit
    <3>1. /\ UNCHANGED <<rst, refMu, pending>>
          /\ ppc \in {"recv", "wait", "evicting"}
      BY <2>2 DEF PendingLoopExit, PReady, outsideP, reqVars, runVars
    <3>2. ppc \in Serving
      BY <3>1 DEF Asking, Serving
    <3> QED
      BY <3>1, <3>2 DEF TypeInv, OnePlace, Served
  <2>3. CASE ProcessPending /\ ~PendingLoopExit
    BY <2>3 DEF ProcessPending, Receive, IgnoreUnloaded, Evaluate, PendingCheckReload,
       PendingUseRunner, RefreshGPUs, UpdateFreeSpace, LoadStep, LoadNoServer,
       LoadPredictedTooBig, LoadStartServer, LoadRequiredFull, LoadFailed, LoadSucceeded,
       FindSnapshot, FindScan, ExpireToMakeRoom, UnloadObserved, EvictSnapshot, EvictNext,
       EvictObserved, PReady, AfterRetry, outsideC, pVars
  <2> QED
    BY <2>1, <2>2, <2>3
<1>4. \A a \in Apis : Len(todo'[a]) <= MaxRunners
  <2>1. ASSUME NEW b \in Apis, Api(b), NEW a \in Apis PROVE Len(todo'[a]) <= MaxRunners
    <3>1. todo \in [Apis -> Seq(Reqs)] /\ \A c \in Apis : Len(todo[c]) <= MaxRunners
      BY DEF TypeInv, TypeOK, ApiTypeOK, Asking
    <3>2. CASE \E kind \in {"expire", "stop"}, m \in Models : ApiLookup(b, kind, m)
      <4>1. \E m \in Models : todo' = [todo EXCEPT ![b] = IF loaded[m] = None THEN <<>> ELSE <<loaded[m]>>]
        BY <3>2 DEF ApiLookup
      <4>2. Len(<<>>) = 0 /\ \A x : Len(<<x>>) = 1
        OBVIOUS
      <4>3. \A m : Len(IF loaded[m] = None THEN <<>> ELSE <<loaded[m]>>) <= 1
        BY <4>2
      <4> QED
        BY <3>1, <4>1, <4>3, ConstantAssumption
    <3>3. CASE ApiRuntimeOOM(b)
      <4>1. PICK s \in Orders(LoadedRunners) : todo' = [todo EXCEPT ![b] = s]
        BY <3>3 DEF ApiRuntimeOOM
      <4>2. Len(s) <= MaxRunners
        BY SnapshotBound
      <4> QED
        BY <3>1, <4>1, <4>2
    <3>4. CASE ApiVisit(b)
      <4>1. todo' = [todo EXCEPT ![b] = Tail(@)] /\ todo[b] # <<>>
        BY <3>4 DEF ApiVisit
      <4>2. Len(Tail(todo[b])) = Len(todo[b]) - 1
        BY <3>1, <4>1
      <4>3. CASE a = b
        BY <3>1, <4>1, <4>2, <4>3, ConstantAssumption
      <4>4. CASE a # b
        BY <3>1, <4>1, <4>4
      <4> QED
        BY <4>3, <4>4
    <3>5. CASE UNCHANGED todo
      BY <3>1, <3>5
    <3> QED
      BY <2>1, <3>2, <3>3, <3>4, <3>5 DEF Api, ApiReturn, ShutdownCancel, UnloadAllRunners,
         RunnerCrash
  <2> QED
    BY <2>1, OthersAsk DEF Asking
<1> QED
  BY <1>1, <1>2, <1>3, <1>4 DEF Asking
-----------------------------------------------------------------------------
(* Every step keeps the balance *)

\* The states of a request that has ended.
Over == {"done", "failed"}

\* A request that has ended stays so.
LEMMA OverKept ==
  ASSUME TypeInv, RefInv, Next
  PROVE  \A r \in Reqs : rst[r] \in Over => rst'[r] \in Over
<1> DEFINE Kept == \A r \in Reqs : rst[r] \in Over => rst'[r] \in Over
<1> USE DEF reqFixed, reqVars, outsideRun, outsideC, outsideP, Over
<1>0. rst \in [Reqs -> {"new", "check", "use", "enqueue", "queued", "granted",
                        "finishing", "done", "failed"}]
  BY DEF TypeInv, TypeOK, RequestTypeOK
<1>1. ASSUME NEW r \in Reqs, Handler(r) PROVE Kept
  <2>1. rst' = rst \/ (rst[r] \notin Over /\ \E s : rst' = [rst EXCEPT ![r] = s])
    BY <1>0, <1>1 DEF Handler, GetRunner, CheckReload, UseRunner, UseLoadedRunner, Enqueue,
       Fail, CtxDone, WatchFinished
  <2> QED
    BY <1>0, <2>1
<1>2. ASSUME NEW rn \in Reqs, RunnerStep(rn) PROVE Kept
  <2>1. WaitUntilRunning(rn) => rst[rn] = "queued"
    BY DEF WaitUntilRunning, WaitUntilRunningOk, WaitUntilRunningFailed, TypeInv, OnePlace,
       Waiting
  <2> QED
    BY <1>0, <1>2, <2>1 DEF RunnerStep, WaitUntilRunning, WaitUntilRunningOk,
       WaitUntilRunningFailed, Fail, TimerFires, TimerCallback, ResendExpired, UnblockSender
<1>3. CASE ProcessPending
  <2>1. \/ rst' = rst
        \/ ppc \in Serving /\ \E s \in {"granted", "failed"} : rst' = [rst EXCEPT ![pending] = s]
    BY <1>3 DEF ProcessPending, Receive, IgnoreUnloaded, Evaluate, PendingCheckReload,
       PendingUseRunner, UseLoadedRunner, RefreshGPUs, UpdateFreeSpace, LoadStep,
       LoadNoServer, LoadPredictedTooBig, LoadStartServer, LoadRequiredFull, LoadFailed,
       LoadSucceeded, FindSnapshot, FindScan, ExpireToMakeRoom, UnloadObserved,
       EvictSnapshot, EvictNext, EvictObserved, PendingLoopExit, Fail, PReady, Serving
  <2>2. ppc \in Serving => rst[pending] = "queued"
    BY DEF TypeInv, OnePlace, Served
  <2> QED
    BY <1>0, <2>1, <2>2
<1>4. CASE ProcessCompleted
  <2>1. rst' = rst \/ \E r : rst' = [rst EXCEPT ![r] = "done"]
    BY <1>4 DEF ProcessCompleted, ReceiveFinished, FinishRequest, ReceiveExpired,
       ExpiredInUse, ExpiredIdle, VRAMRecovered, SendUnloaded, CompletedLoopExit
  <2> QED
    BY <1>0, <2>1
<1>5. ASSUME NEW a \in Apis, Api(a) PROVE Kept
  BY <1>5 DEF Api, ApiLookup, ApiRuntimeOOM, ApiVisit, ApiReturn, ShutdownCancel,
     UnloadAllRunners, RunnerCrash
<1>6. CASE Finished
  BY <1>6 DEF Finished, vars
<1> QED
  BY <1>1, <1>2, <1>3, <1>4, <1>5, <1>6 DEF Next

\* The causes of one kind that a step leaves in place: ended requests ...
LEMMA EndedKept ==
  ASSUME TypeInv, RefInv, Next
  PROVE  Ended \subseteq Ended'
  BY OverKept DEF Ended, Over

\* ... unloads that were asked for ...
LEMMA AskedKept ==
  ASSUME TypeInv, Asking, UNCHANGED pVars \/ Owed = 0
  PROVE  Asked \subseteq Asked'
<1>1. CASE UNCHANGED pVars
  BY <1>1 DEF pVars, Asked, Owed
<1>2. CASE Owed = 0
  BY <1>2 DEF Asked
<1> QED
  BY <1>1, <1>2

\* ... and runners that were visited.
LEMMA VisitedKept ==
  ASSUME UNCHANGED <<apc, todo>>
  PROVE  Visited' = Visited
  BY DEF Visited

\* A step outside the management calls and the waits of processPending takes no
\* cause away.
LEMMA CausesKept ==
  ASSUME TypeInv, RefInv, Asking, Next, UNCHANGED pVars \/ Owed = 0,
         UNCHANGED <<apc, todo>>
  PROVE  Causes \subseteq Causes'
  BY EndedKept, AskedKept, VisitedKept DEF Causes

\* A step that sends nothing.
LEMMA NothingSent ==
  ASSUME UNCHANGED <<expiredCh, callbacks, resends>>, Unloads' \subseteq Unloads,
         \A rn \in Reqs : expireTimer'[rn] = "armed" => expireTimer[rn] = "armed",
         \A rn \in Reqs : refMu'[rn] \in Senders => refMu[rn] \in Senders,
         cpc' \in Busy => cpc \in Busy
  PROVE  Underway' \subseteq Underway
  BY PartsKept DEF Underway

\* The request that ends accounts for the event its end gives rise to.
LEMMA EndGains ==
  ASSUME TypeInv, RefInv, Asking, Next, UNCHANGED pVars \/ Owed = 0,
         UNCHANGED <<apc, todo>>, NEW r \in Reqs, rst[r] \notin Over, rst'[r] \in Over
  PROVE  Gains(Causes, Causes')
<1>1. Causes \subseteq Causes'
  BY CausesKept
<1>2. <<"ended", r>> \in Causes'
  BY DEF Causes, Ended, Over
<1>3. <<"ended", r>> \notin Causes
  BY DEF Causes, Ended, Asked, Visited, Over
<1> QED
  BY <1>1, <1>2, <1>3 DEF Gains

Balance == Balanced(Underway, Underway', Causes, Causes')

\* A step that sends no event, or passes one on, keeps the balance.
LEMMA Quietly ==
  ASSUME Underway' \subseteq Underway \/ Moves(Underway, Underway'), Causes \subseteq Causes'
  PROVE  Balance
  BY DEF Balance, Balanced, Shrinks

\* Handlers send no events; a failed request is a new cause.
LEMMA HandlerBalance ==
  ASSUME TypeInv, RefInv, Asking, Next, NEW r \in Reqs, Handler(r)
  PROVE  Balance
<1> USE DEF runVars, chanVars, cVars, apiVars, outsideRun
<1>1. UNCHANGED <<pVars, apc, todo>>
  BY DEF Handler, GetRunner, CheckReload, UseRunner, Enqueue, CtxDone, WatchFinished
<1>2. Causes \subseteq Causes'
  BY <1>1, CausesKept
<1>3. UNCHANGED <<expiredCh, callbacks, resends, unloadedCh, refMu, cpc>>
  BY DEF Handler, GetRunner, CheckReload, UseRunner, UseLoadedRunner, Enqueue, CtxDone,
     WatchFinished
<1>4. \A rn \in Reqs : expireTimer'[rn] = "armed" => expireTimer[rn] = "armed"
  BY DEF Handler, GetRunner, CheckReload, UseRunner, UseLoadedRunner, Enqueue, CtxDone,
     WatchFinished, TypeInv, TypeOK, RunnerTypeOK
<1>5. Underway' \subseteq Underway
  <2>1. Unloads' \subseteq Unloads
    BY <1>3, PartsKept
  <2> QED
    BY <1>3, <1>4, <2>1, NothingSent
<1> QED
  BY <1>2, <1>5, Quietly

\* Timers, callbacks and resends pass an event on; a failed load ends its request.
LEMMA RunnerStepBalance ==
  ASSUME TypeInv, RefInv, Asking, Next, NEW x \in Reqs, RunnerStep(x)
  PROVE  Balance
<1> USE DEF runVars, chanVars, cVars, apiVars, outsideRun, outsideC
<1>0. /\ expireTimer \in [Reqs -> {"nil", "armed", "fired"}]
      /\ refMu \in [Reqs -> {"free", "load", "vram", "P", "C", "other"}]
      /\ callbacks \in [Reqs -> Nat] /\ resends \in [Reqs -> Nat]
      /\ expiredCh \in Seq(Reqs)
  BY DEF TypeInv, TypeOK, RunnerTypeOK, ChannelTypeOK
<1>1. UNCHANGED <<pVars, apc, todo>>
  BY DEF RunnerStep, WaitUntilRunning, WaitUntilRunningOk, WaitUntilRunningFailed,
     TimerFires, TimerCallback, ResendExpired, UnblockSender
<1>2. Causes \subseteq Causes'
  BY <1>1, CausesKept
<1>3. UNCHANGED <<unloadedCh, cpc>>
  BY DEF RunnerStep, WaitUntilRunning, WaitUntilRunningOk, WaitUntilRunningFailed,
     TimerFires, TimerCallback, ResendExpired, UnblockSender
<1>4. Unloads' = Unloads /\ Handled' \subseteq Handled
  BY <1>3, PartsKept
<1>5. CASE WaitUntilRunningOk(x)
  <2>1. Underway' \subseteq Underway
    <3>1. /\ UNCHANGED <<expiredCh, callbacks, resends, expireTimer>>
          /\ \A rn \in Reqs : refMu'[rn] \in Senders => refMu[rn] \in Senders
      BY <1>0, <1>5 DEF WaitUntilRunningOk, Senders
    <3> QED
      BY <1>3, <1>4, <3>1, NothingSent
  <2> QED
    BY <1>2, <2>1, Quietly
<1>6. CASE WaitUntilRunningFailed(x)
  <2>1. /\ SendExpired(x, "other") /\ UNCHANGED <<callbacks, resends, expireTimer>>
        /\ rst[x] = "queued" /\ rst'[x] = "failed"
    BY <1>6 DEF WaitUntilRunningFailed, Fail, TypeInv, OnePlace, Waiting, TypeOK,
       RequestTypeOK
  <2>2. Called' = Called /\ Resent' = Resent /\ Armed' \subseteq Armed
    BY <2>1, PartsKept
  <2>3. Grows(Underway, Underway')
    <3>1. PICK y : Queued' \cup Blocked' \subseteq (Queued \cup Blocked) \cup {y}
      BY <2>1, SentOne DEF Senders
    <3>2. Underway' \subseteq Underway \cup {y}
      BY <1>4, <2>2, <3>1 DEF Underway
    <3> QED
      BY <3>2 DEF Grows
  <2>4. Gains(Causes, Causes')
    BY <1>1, <2>1, EndGains DEF Over
  <2> QED
    BY <2>3, <2>4 DEF Balance, Balanced
<1>7. CASE TimerFires(x)
  <2>1. /\ expireTimer[x] = "armed" /\ UNCHANGED <<expiredCh, refMu, resends>>
        /\ expireTimer' = [expireTimer EXCEPT ![x] = "fired"]
        /\ callbacks' = [callbacks EXCEPT ![x] = @ + 1]
    BY <1>7 DEF TimerFires
  <2>2. Queued' = Queued /\ Resent' = Resent /\ Blocked' \subseteq Blocked
    BY <2>1, PartsKept
  <2>3. <<"timer", x>> \in Armed /\ Armed' \subseteq Armed \ {<<"timer", x>>}
    BY <1>0, <2>1 DEF Armed
  <2>4. \E y : Called' \subseteq Called \cup {y}
    <3>1. Counts(callbacks') \subseteq Counts(callbacks) \cup {<<x, callbacks[x] + 1>>}
      BY <1>0, <2>1, CountUp
    <3> QED
      BY <3>1 DEF Called, Tally
  <2>5. Moves(Underway, Underway')
    <3>1. PICK y : Called' \subseteq Called \cup {y}
      BY <2>4
    <3>2. Underway' \subseteq (Underway \ {<<"timer", x>>}) \cup {y}
      BY <1>4, <2>2, <2>3, <3>1, Tagged DEF Underway
    <3> QED
      BY <2>3, <3>2 DEF Moves, Underway
  <2> QED
    BY <1>2, <2>5, Quietly
<1>8. CASE TimerCallback(x)
  <2>1. /\ callbacks[x] > 0 /\ SendExpired(x, "other") /\ UNCHANGED resends
        /\ expireTimer' = [expireTimer EXCEPT ![x] = "nil"]
        /\ callbacks' = [callbacks EXCEPT ![x] = @ - 1]
    BY <1>8 DEF TimerCallback
  <2>2. Resent' = Resent /\ Armed' \subseteq Armed
    BY <1>0, <2>1, PartsKept
  <2>3. Drops(Called, Called')
    <3>1. PICK g : g = callbacks'
      OBVIOUS
    <3>2. g[x] = callbacks[x] - 1 /\ \A y \in Reqs : y # x => g[y] = callbacks[y]
      BY <1>0, <2>1, <3>1
    <3>3. Drops(Tally("callback", callbacks), Tally("callback", g))
      BY <1>0, <2>1, <3>2, TakenOne
    <3> QED
      BY <3>1, <3>3 DEF Called
  <2>4. Moves(Underway, Underway')
    <3>1. PICK y : Queued' \cup Blocked' \subseteq (Queued \cup Blocked) \cup {y}
      BY <2>1, SentOne DEF Senders
    <3>2. PICK e \in Called : Called' \subseteq Called \ {e}
      BY <2>3 DEF Drops
    <3>3. Underway' \subseteq (Underway \ {e}) \cup {y}
      BY <1>4, <2>2, <3>1, <3>2, Tagged DEF Underway
    <3> QED
      BY <3>2, <3>3 DEF Moves, Underway
  <2> QED
    BY <1>2, <2>4, Quietly
<1>9. CASE ResendExpired(x)
  <2>1. /\ resends[x] > 0 /\ UNCHANGED <<callbacks, expireTimer, refMu>>
        /\ resends' = [resends EXCEPT ![x] = @ - 1]
        /\ expiredCh' = Append(expiredCh, x)
    BY <1>9 DEF ResendExpired
  <2>2. Called' = Called /\ Armed' \subseteq Armed /\ Blocked' \subseteq Blocked
    BY <2>1, PartsKept
  <2>3. Drops(Resent, Resent')
    <3>1. PICK g : g = resends'
      OBVIOUS
    <3>2. g[x] = resends[x] - 1 /\ \A y \in Reqs : y # x => g[y] = resends[y]
      BY <1>0, <2>1, <3>1
    <3>3. Drops(Tally("resend", resends), Tally("resend", g))
      BY <1>0, <2>1, <3>2, TakenOne
    <3> QED
      BY <3>1, <3>3 DEF Resent
  <2>4. \E y : Queued' \subseteq Queued \cup {y}
    BY <1>0, <2>1, QueuedAppend
  <2>5. Moves(Underway, Underway')
    <3>1. PICK y : Queued' \subseteq Queued \cup {y}
      BY <2>4
    <3>2. PICK e \in Resent : Resent' \subseteq Resent \ {e}
      BY <2>3 DEF Drops
    <3>3. Underway' \subseteq (Underway \ {e}) \cup {y}
      BY <1>4, <2>2, <3>1, <3>2, Tagged DEF Underway
    <3> QED
      BY <3>2, <3>3 DEF Moves, Underway
  <2> QED
    BY <1>2, <2>5, Quietly
<1>10. CASE UnblockSender(x)
  <2>1. /\ refMu[x] \in Senders /\ UNCHANGED <<callbacks, expireTimer, resends>>
        /\ refMu' = [refMu EXCEPT ![x] = "free"]
        /\ expiredCh' = Append(expiredCh, x)
    BY <1>10 DEF UnblockSender, Senders
  <2>2. Called' = Called /\ Armed' \subseteq Armed /\ Resent' = Resent
    BY <2>1, PartsKept
  <2>3. <<"sender", x>> \in Blocked /\ Blocked' \subseteq Blocked \ {<<"sender", x>>}
    BY <1>0, <2>1 DEF Blocked, Senders
  <2>4. PICK y : Queued' \subseteq Queued \cup {y}
    BY <1>0, <2>1, QueuedAppend
  <2>5. Underway' \subseteq (Underway \ {<<"sender", x>>}) \cup {y}
    BY <1>4, <2>2, <2>3, <2>4, Tagged DEF Underway
  <2>6. Moves(Underway, Underway')
    BY <2>3, <2>5 DEF Moves, Underway
  <2> QED
    BY <1>2, <2>6, Quietly
<1> QED
  BY <1>5, <1>6, <1>7, <1>8, <1>9, <1>10 DEF RunnerStep, WaitUntilRunning

\* An unload event that was received is gone.
LEMMA UnloadsTaken ==
  ASSUME TypeInv, unloadedCh > 0, unloadedCh' = unloadedCh - 1
  PROVE  Drops(Unloads, Unloads')
<1>1. /\ unloadedCh \in 1 .. unloadedCh
      /\ \A i \in 1 .. unloadedCh' : i \in 1 .. unloadedCh /\ i # unloadedCh
  BY DEF TypeInv, TypeOK, ChannelTypeOK
<1>2. /\ <<"unload", unloadedCh>> \in Unloads
      /\ Unloads' \subseteq Unloads \ {<<"unload", unloadedCh>>}
  BY <1>1 DEF Unloads
<1> QED
  BY <1>2 DEF Drops

\* What leaves one part, while the others do not grow, has left the whole.
LEMMA UnloadSeen ==
  ASSUME TypeInv, unloadedCh > 0, unloadedCh' = unloadedCh - 1,
         UNCHANGED <<expiredCh, callbacks, resends, expireTimer, refMu, cpc>>
  PROVE  Drops(Underway, Underway')
<1>1. /\ Queued' = Queued /\ Armed' \subseteq Armed /\ Called' = Called /\ Resent' = Resent
      /\ Blocked' \subseteq Blocked /\ Handled' \subseteq Handled
  BY PartsKept
<1>2. PICK e \in Unloads : Unloads' \subseteq Unloads \ {e}
  BY UnloadsTaken DEF Drops
<1>3. Underway' \subseteq Underway \ {e}
  BY <1>1, <1>2, Tagged DEF Underway
<1> QED
  BY <1>2, <1>3 DEF Drops, Underway

\* A step that sends one event at most.
LEMMA OneSent ==
  ASSUME TypeInv, NEW x \in Reqs, NEW who \in Senders,
         SendExpired(x, who) \/ UNCHANGED <<expiredCh, refMu>>,
         \A rn \in Reqs : expireTimer'[rn] = "armed" => expireTimer[rn] = "armed",
         UNCHANGED <<callbacks, resends, unloadedCh, cpc>>
  PROVE  Grows(Underway, Underway')
<1>1. /\ Armed' \subseteq Armed /\ Called' = Called /\ Resent' = Resent
      /\ Handled' \subseteq Handled /\ Unloads' = Unloads
  BY PartsKept
<1>2. PICK y : Queued' \cup Blocked' \subseteq (Queued \cup Blocked) \cup {y}
  <2>1. CASE SendExpired(x, who)
    BY <2>1, SentOne
  <2>2. CASE UNCHANGED <<expiredCh, refMu>>
    BY <2>2, PartsKept
  <2> QED
    BY <2>1, <2>2
<1>3. Underway' \subseteq Underway \cup {y}
  BY <1>1, <1>2 DEF Underway
<1> QED
  BY <1>3 DEF Grows

\* To expire a runner now sends one event at most.
LEMMA ExpireNowSends ==
  ASSUME TypeInv, NEW x \in Reqs, NEW who \in Senders, ExpireNow(x, who),
         UNCHANGED <<callbacks, resends, unloadedCh, cpc>>
  PROVE  Grows(Underway, Underway')
<1>1. SendExpired(x, who) \/ UNCHANGED <<expiredCh, refMu>>
  BY DEF ExpireNow
<1>2. \A rn \in Reqs : expireTimer'[rn] = "armed" => expireTimer[rn] = "armed"
  BY DEF ExpireNow, TypeInv, TypeOK, RunnerTypeOK
<1> QED
  BY <1>1, <1>2, OneSent

\* processPending asks for one more unload event.
LEMMA AskedMore ==
  ASSUME TypeInv, RefInv, Asking, Next, Owed' = Owed + 1, UNCHANGED <<apc, todo>>
  PROVE  Gains(Causes, Causes')
<1>1. Owed \in Nat
  BY OwedType
<1>2. Asked \subseteq Asked' /\ <<"asked", Owed + 1>> \in Asked' /\ <<"asked", Owed + 1>> \notin Asked
  <2>1. Owed + 1 \in 1 .. Owed' /\ Owed + 1 \notin 1 .. Owed
    BY <1>1
  <2>2. \A i \in 1 .. Owed : i \in 1 .. Owed'
    BY <1>1
  <2> HIDE DEF Owed
  <2> QED
    BY <2>1, <2>2 DEF Asked
<1>3. <<"asked", Owed + 1>> \notin Ended /\ <<"asked", Owed + 1>> \notin Visited
  BY DEF Ended, Visited
<1>4. Ended \subseteq Ended' /\ Visited' = Visited
  BY EndedKept, VisitedKept
<1> QED
  BY <1>2, <1>3, <1>4 DEF Gains, Causes

\* processPending has seen an unload event.
LEMMA AskedLess ==
  ASSUME TypeInv, RefInv, Asking, Next, Owed > 0, Owed' = Owed - 1, UNCHANGED <<apc, todo>>
  PROVE  Loses(Causes, Causes')
<1>1. Owed \in Nat
  BY OwedType
<1>2. <<"asked", Owed>> \in Asked /\ Asked \ {<<"asked", Owed>>} \subseteq Asked'
  <2>1. Owed \in 1 .. Owed /\ \A i \in 1 .. Owed : i = Owed \/ i \in 1 .. Owed'
    BY <1>1
  <2> HIDE DEF Owed
  <2> QED
    BY <2>1 DEF Asked
<1>3. Ended \subseteq Ended' /\ Visited' = Visited
  BY EndedKept, VisitedKept
<1> QED
  BY <1>2, <1>3 DEF Loses, Causes

\* processPending asks for an unload when it sends an event, and has seen one when
\* an unload event is gone.
LEMMA PendingBalance ==
  ASSUME TypeInv, RefInv, Asking, Asking', Next, ProcessPending
  PROVE  Balance
<1> USE DEF runVars, chanVars, cVars, apiVars, outsideC, outsideP
<1>0. /\ expireTimer \in [Reqs -> {"nil", "armed", "fired"}]
      /\ refMu \in [Reqs -> {"free", "load", "vram", "P", "C", "other"}]
      /\ visit \in Seq(Reqs) /\ waitFor \in Nat /\ unloadedCh \in Nat
  BY DEF TypeInv, TypeOK, RunnerTypeOK, PendingTypeOK, ChannelTypeOK
<1>1. UNCHANGED <<callbacks, resends, cpc, apc, todo>>
  BY DEF ProcessPending, Receive, IgnoreUnloaded, Evaluate, PendingCheckReload,
     PendingUseRunner, UseLoadedRunner, RefreshGPUs, UpdateFreeSpace, LoadStep,
     LoadNoServer, LoadPredictedTooBig, LoadStartServer, LoadRequiredFull, LoadFailed,
     LoadSucceeded, FindSnapshot, FindScan, ExpireToMakeRoom, UnloadObserved,
     EvictSnapshot, EvictNext, EvictObserved, PendingLoopExit
<1>2. CASE ExpireToMakeRoom
  <2>1. Grows(Underway, Underway')
    <3>1. /\ ExpireNow(runnerToExpire, "P") /\ UNCHANGED unloadedCh
          /\ runnerToExpire \in Reqs
      BY <1>2 DEF ExpireToMakeRoom, PReady, TypeInv, Chosen
    <3> QED
      BY <1>1, <3>1, ExpireNowSends DEF Senders
  <2>2. Owed' = Owed + 1
    BY <1>2 DEF ExpireToMakeRoom, PReady, Owed
  <2> QED
    BY <1>1, <2>1, <2>2, AskedMore DEF Balance, Balanced
<1>3. CASE EvictNext
  <2>1. /\ visit # <<>> /\ Head(visit) \in Reqs /\ Len(Tail(visit)) = Len(visit) - 1
        /\ Len(visit) \in Nat
    BY <1>0, <1>3 DEF EvictNext
  <2>2. Grows(Underway, Underway')
    <3>1. ExpireNow(Head(visit), "P") /\ UNCHANGED unloadedCh
      BY <1>3 DEF EvictNext
    <3> QED
      BY <1>1, <2>1, <3>1, ExpireNowSends DEF Senders
  <2>3. Owed' = Owed + 1
    BY <1>0, <1>3, <2>1 DEF EvictNext, PReady, Owed
  <2> QED
    BY <1>1, <2>2, <2>3, AskedMore DEF Balance, Balanced
<1>4. CASE UnloadObserved
  <2>1. Drops(Underway, Underway')
    BY <1>1, <1>4, UnloadSeen DEF UnloadObserved
  <2>2. Owed > 0 /\ Owed' = Owed - 1
    BY <1>4 DEF UnloadObserved, PReady, Owed
  <2> QED
    BY <1>1, <2>1, <2>2, AskedLess DEF Balance, Balanced
<1>5. CASE EvictObserved
  <2>1. Drops(Underway, Underway')
    BY <1>1, <1>5, UnloadSeen DEF EvictObserved
  <2>2. Owed > 0 /\ Owed' = Owed - 1
    <3>1. /\ ppc = "evicting" /\ visit = <<>> /\ visit' = visit /\ waitFor' = waitFor - 1
          /\ ppc' = IF waitFor = 1 THEN "eval" ELSE "evicting"
          /\ waitFor > 0 /\ Len(visit) = 0
      BY <1>0, <1>5 DEF EvictObserved, PReady, TypeInv, WaitPositive
    <3> QED
      BY <1>0, <3>1 DEF Owed
  <2> QED
    BY <1>1, <2>1, <2>2, AskedLess DEF Balance, Balanced
<1>6. CASE IgnoreUnloaded
  <2>1. /\ UNCHANGED <<pVars, expiredCh, expireTimer, refMu>> /\ unloadedCh > 0
        /\ unloadedCh' = unloadedCh - 1
    BY <1>6 DEF IgnoreUnloaded
  <2>2. Causes \subseteq Causes'
    BY <1>1, <2>1, CausesKept
  <2>3. Underway' \subseteq Underway
    BY <1>1, <2>1, UnloadSeen DEF Drops
  <2> QED
    BY <2>2, <2>3, Quietly
<1>7. CASE PendingLoopExit
  <2>1. /\ UNCHANGED <<expiredCh, expireTimer, refMu, unloadedCh>> /\ ppc' = "exited"
        /\ pending' = pending /\ ppc \in {"recv", "wait", "evicting"}
    BY <1>7 DEF PendingLoopExit, PReady
  <2>2. Underway' \subseteq Underway
    BY <1>1, <2>1, PartsKept, NothingSent
  <2>3. Owed \in Nat /\ Owed <= Owed' /\ Owed' \in Nat
    <3>1. CASE ppc = "recv"
      BY <2>1, <3>1, ConstantAssumption DEF Owed
    <3>2. CASE ppc # "recv"
      <4>1. pending # None
        BY <2>1, <3>2, ServedRequest, ConstantAssumption DEF Serving
      <4>2. Owed' = MaxRunners
        BY <2>1, <4>1 DEF Owed
      <4> QED
        BY <4>2, OwedType, ConstantAssumption
    <3> QED
      BY <3>1, <3>2
  <2>4. Asked \subseteq Asked'
    <3>1. \A i \in 1 .. Owed : i \in 1 .. Owed'
      BY <2>3
    <3> HIDE DEF Owed
    <3> QED
      BY <3>1 DEF Asked
  <2>5. Causes \subseteq Causes'
    BY <1>1, <2>4, EndedKept, VisitedKept DEF Causes
  <2> QED
    BY <2>2, <2>5, Quietly
<1>8. CASE /\ ~ExpireToMakeRoom /\ ~EvictNext /\ ~UnloadObserved /\ ~EvictObserved
           /\ ~IgnoreUnloaded /\ ~PendingLoopExit
  <2>1. ppc \notin {"wait", "evicting", "exited"} /\ UNCHANGED <<expiredCh, unloadedCh>>
    BY <1>8 DEF ProcessPending, Receive, Evaluate, PendingCheckReload, PendingUseRunner,
       UseLoadedRunner, RefreshGPUs, UpdateFreeSpace, LoadStep, LoadNoServer,
       LoadPredictedTooBig, LoadStartServer, LoadRequiredFull, LoadFailed, LoadSucceeded,
       FindSnapshot, FindScan, EvictSnapshot, PReady
  <2>2. \A rn \in Reqs : expireTimer'[rn] = "armed" => expireTimer[rn] = "armed"
    BY <1>0, <1>8 DEF ProcessPending, Receive, Evaluate, PendingCheckReload,
       PendingUseRunner, UseLoadedRunner, RefreshGPUs, UpdateFreeSpace, LoadStep,
       LoadNoServer, LoadPredictedTooBig, LoadStartServer, LoadRequiredFull, LoadFailed,
       LoadSucceeded, FindSnapshot, FindScan, EvictSnapshot
  <2>3. \A rn \in Reqs : refMu'[rn] \in Senders => refMu[rn] \in Senders
    BY <1>0, <1>8 DEF ProcessPending, Receive, Evaluate, PendingCheckReload,
       PendingUseRunner, UseLoadedRunner, RefreshGPUs, UpdateFreeSpace, LoadStep,
       LoadNoServer, LoadPredictedTooBig, LoadStartServer, LoadRequiredFull, LoadFailed,
       LoadSucceeded, FindSnapshot, FindScan, EvictSnapshot, Senders
  <2>4. Underway' \subseteq Underway
    BY <1>1, <2>1, <2>2, <2>3, PartsKept, NothingSent
  <2>5. Owed = 0
    BY <2>1 DEF Owed
  <2>6. Causes \subseteq Causes'
    BY <1>1, <2>5, CausesKept
  <2> QED
    BY <2>4, <2>6, Quietly
<1> QED
  BY <1>2, <1>3, <1>4, <1>5, <1>6, <1>7, <1>8

\* processCompleted passes events on, drops them, or ends a request and arms its
\* timer or sends its event.
LEMMA CompletedBalance ==
  ASSUME TypeInv, RefInv, Asking, Next, ProcessCompleted
  PROVE  Balance
<1> USE DEF runVars, chanVars, cVars, apiVars, outsideC
<1>0. /\ expireTimer \in [Reqs -> {"nil", "armed", "fired"}]
      /\ refMu \in [Reqs -> {"free", "load", "vram", "P", "C", "other"}]
      /\ callbacks \in [Reqs -> Nat] /\ resends \in [Reqs -> Nat]
      /\ expiredCh \in Seq(Reqs) /\ unloadedCh \in Nat
  BY DEF TypeInv, TypeOK, RunnerTypeOK, ChannelTypeOK
<1>1. UNCHANGED <<pVars, apc, todo, callbacks>>
  BY DEF ProcessCompleted, ReceiveFinished, FinishRequest, ReceiveExpired, ExpiredInUse,
     ExpiredIdle, VRAMRecovered, SendUnloaded, CompletedLoopExit
<1>2. Causes \subseteq Causes' /\ Called' = Called
  BY <1>1, CausesKept, PartsKept
<1>3. CASE FinishRequest
  <2>1. /\ crunner \in Reqs /\ finished \in Reqs /\ rst[finished] = "finishing"
        /\ rst'[finished] = "done"
    BY <1>3 DEF FinishRequest, CReady, TypeInv, TypeOK, RequestTypeOK, Chosen,
       FinishedEvents, RefInv, EndedOnce
  <2>2. PICK left : left = DropRef(refCount[crunner])
    OBVIOUS
  <2>3. /\ expireTimer' = [expireTimer EXCEPT ![crunner] = TimerAfterFinish(crunner, left)]
        /\ IF left = 0 /\ sessionDuration[crunner] = 0
           THEN SendExpired(crunner, "C")
           ELSE UNCHANGED <<expiredCh, refMu>>
        /\ UNCHANGED <<callbacks, resends, unloadedCh>> /\ cpc = "finish" /\ cpc' = "recv"
    BY <1>3, <2>2 DEF FinishRequest, CReady
  <2>4. CASE left = 0 /\ sessionDuration[crunner] # 0
    <3>1. /\ Queued' = Queued /\ Called' = Called /\ Resent' = Resent
          /\ Blocked' \subseteq Blocked /\ Handled' \subseteq Handled /\ Unloads' = Unloads
      BY <2>3, <2>4, PartsKept DEF Busy
    <3>2. Armed' \subseteq Armed \cup {<<"timer", crunner>>}
      BY <1>0, <2>3 DEF Armed
    <3>3. Underway' \subseteq Underway \cup {<<"timer", crunner>>}
      BY <3>1, <3>2 DEF Underway
    <3>4. Grows(Underway, Underway')
      BY <3>3 DEF Grows
    <3> QED
      BY <1>1, <2>1, <3>4, EndGains DEF Balance, Balanced, Over
  <2>5. CASE ~(left = 0 /\ sessionDuration[crunner] # 0)
    <3>1. \A rn \in Reqs : expireTimer'[rn] = "armed" => expireTimer[rn] = "armed"
      BY <1>0, <2>1, <2>3, <2>5 DEF TimerAfterFinish
    <3>2. /\ Armed' \subseteq Armed /\ Called' = Called /\ Resent' = Resent
          /\ Handled' \subseteq Handled /\ Unloads' = Unloads
      BY <2>3, <3>1, PartsKept DEF Busy
    <3>3. PICK y : Queued' \cup Blocked' \subseteq (Queued \cup Blocked) \cup {y}
      <4>1. CASE SendExpired(crunner, "C")
        BY <2>1, <4>1, SentOne DEF Senders
      <4>2. CASE UNCHANGED <<expiredCh, refMu>>
        BY <4>2, PartsKept
      <4> QED
        BY <2>3, <4>1, <4>2
    <3>4. Underway' \subseteq Underway \cup {y}
      BY <3>2, <3>3 DEF Underway
    <3>5. Grows(Underway, Underway')
      BY <3>4 DEF Grows
    <3> QED
      BY <1>1, <2>1, <3>5, EndGains DEF Balance, Balanced, Over
  <2> QED
    BY <2>4, <2>5
<1>4. CASE ReceiveExpired
  <2>1. /\ expiredCh # <<>> /\ expiredCh' = Tail(expiredCh) /\ cpc' = "expire"
        /\ UNCHANGED <<expireTimer, resends, refMu, unloadedCh>>
    BY <1>4 DEF ReceiveExpired
  <2>2. /\ Armed' \subseteq Armed /\ Resent' = Resent /\ Blocked' \subseteq Blocked
        /\ Unloads' = Unloads
    BY <2>1, PartsKept
  <2>3. /\ <<"channel", Len(expiredCh)>> \in Queued
        /\ Queued' \subseteq Queued \ {<<"channel", Len(expiredCh)>>}
    <3>1. Len(expiredCh') = Len(expiredCh) - 1 /\ Len(expiredCh) \in Nat \ {0}
      BY <1>0, <2>1
    <3>2. /\ Len(expiredCh) \in 1 .. Len(expiredCh)
          /\ \A i \in 1 .. Len(expiredCh') : i \in 1 .. Len(expiredCh) /\ i # Len(expiredCh)
      BY <3>1
    <3> QED
      BY <3>2 DEF Queued
  <2>4. Handled' = {<<"completed">>}
    BY <2>1 DEF Handled, Busy
  <2>5. Underway' \subseteq (Underway \ {<<"channel", Len(expiredCh)>>}) \cup {<<"completed">>}
    BY <1>2, <2>2, <2>3, <2>4, Tagged DEF Underway
  <2>6. Moves(Underway, Underway')
    BY <2>3, <2>5 DEF Moves, Underway
  <2> QED
    BY <1>2, <2>6, Quietly
<1>5. CASE ExpiredInUse
  <2>1. /\ crunner \in Reqs /\ resends' = [resends EXCEPT ![crunner] = @ + 1]
        /\ cpc = "expire" /\ cpc' = "recv"
        /\ UNCHANGED <<expiredCh, expireTimer, refMu, unloadedCh>>
    BY <1>5 DEF ExpiredInUse, CReady, TypeInv, Chosen
  <2>2. /\ Queued' = Queued /\ Armed' \subseteq Armed /\ Blocked' \subseteq Blocked
        /\ Unloads' = Unloads
    BY <2>1, PartsKept
  <2>3. PICK y : Resent' \subseteq Resent \cup {y}
    <3>1. Counts(resends') \subseteq Counts(resends) \cup {<<crunner, resends[crunner] + 1>>}
      BY <1>0, <2>1, CountUp
    <3> QED
      BY <3>1 DEF Resent, Tally
  <2>4. <<"completed">> \in Handled /\ Handled' = {}
    BY <2>1 DEF Handled, Busy
  <2>5. Underway' \subseteq (Underway \ {<<"completed">>}) \cup {y}
    BY <1>2, <2>2, <2>3, <2>4, Tagged DEF Underway
  <2>6. Moves(Underway, Underway')
    BY <2>4, <2>5 DEF Moves, Underway
  <2> QED
    BY <1>2, <2>6, Quietly
<1>6. CASE SendUnloaded
  <2>1. /\ unloadedCh' = unloadedCh + 1 /\ cpc = "unloaded" /\ cpc' = "recv"
        /\ UNCHANGED <<expiredCh, expireTimer, resends, refMu>>
    BY <1>6 DEF SendUnloaded, CReady
  <2>2. /\ Queued' = Queued /\ Armed' \subseteq Armed /\ Blocked' \subseteq Blocked
        /\ Resent' = Resent
    BY <2>1, PartsKept
  <2>3. Unloads' \subseteq Unloads \cup {<<"unload", unloadedCh + 1>>}
    <3>1. \A i \in 1 .. unloadedCh' : i \in 1 .. unloadedCh \/ i = unloadedCh + 1
      BY <1>0, <2>1
    <3> QED
      BY <3>1 DEF Unloads
  <2>4. <<"completed">> \in Handled /\ Handled' = {}
    BY <2>1 DEF Handled, Busy
  <2>5. Underway' \subseteq (Underway \ {<<"completed">>}) \cup {<<"unload", unloadedCh + 1>>}
    BY <1>2, <2>2, <2>3, <2>4, Tagged DEF Underway
  <2>6. Moves(Underway, Underway')
    BY <2>4, <2>5 DEF Moves, Underway
  <2> QED
    BY <1>2, <2>6, Quietly
<1>7. CASE ReceiveFinished \/ ExpiredIdle \/ VRAMRecovered \/ CompletedLoopExit
  <2>1. UNCHANGED <<expiredCh, callbacks, resends, unloadedCh>> /\ (cpc' \in Busy => cpc \in Busy)
    BY <1>7 DEF ReceiveFinished, ExpiredIdle, VRAMRecovered, CompletedLoopExit, CReady, Busy
  <2>2. \A rn \in Reqs : expireTimer'[rn] = "armed" => expireTimer[rn] = "armed"
    BY <1>0, <1>7 DEF ReceiveFinished, ExpiredIdle, Unload, VRAMRecovered, CompletedLoopExit
  <2>3. \A rn \in Reqs : refMu'[rn] \in Senders => refMu[rn] \in Senders
    BY <1>0, <1>7 DEF ReceiveFinished, ExpiredIdle, VRAMRecovered, CompletedLoopExit, Senders
  <2>4. Underway' \subseteq Underway
    BY <2>1, <2>2, <2>3, PartsKept, NothingSent
  <2> QED
    BY <1>2, <2>4, Quietly
<1> QED
  BY <1>3, <1>4, <1>5, <1>6, <1>7 DEF ProcessCompleted

\* What a call has visited stays visited; one more runner accounts for one event.
LEMMA ApiBalance ==
  ASSUME TypeInv, RefInv, Asking, Next, NEW a \in Apis, Api(a)
  PROVE  Balance
<1> USE DEF runVars, chanVars, cVars
<1> DEFINE Before == {p \in Apis \X Nat : p[2] \in Len(todo[p[1]]) + 1 .. MaxRunners}
<1>0. /\ todo \in [Apis -> Seq(Reqs)]
      /\ apc \in [Apis -> {"idle", "expire", "stop", "oom", "unloadall", "done"}]
      /\ expireTimer \in [Reqs -> {"nil", "armed", "fired"}]
  BY DEF TypeInv, TypeOK, ApiTypeOK, RunnerTypeOK
<1>1. UNCHANGED pVars
  BY DEF Api, ApiLookup, ApiRuntimeOOM, ApiVisit, ApiReturn, ShutdownCancel,
     UnloadAllRunners, RunnerCrash
<1>2. Ended \subseteq Ended' /\ Asked \subseteq Asked'
  BY <1>1, EndedKept, AskedKept
<1>3. CASE ApiVisit(a)
  <2>1. /\ todo[a] # <<>> /\ apc[a] # "idle" /\ UNCHANGED apc
        /\ todo' = [todo EXCEPT ![a] = Tail(@)]
        /\ UNCHANGED <<callbacks, resends, unloadedCh, cpc>>
    BY <1>3 DEF ApiVisit
  <2>2. /\ Len(todo[a]) \in Nat \ {0} /\ Head(todo[a]) \in Reqs
        /\ Len(todo'[a]) = Len(todo[a]) - 1
    BY <1>0, <2>1
  <2>3. Grows(Underway, Underway')
    <3>1. \/ SendExpired(Head(todo[a]), "other") \/ UNCHANGED <<expiredCh, refMu>>
      BY <1>3 DEF ApiVisit, ExpireNow
    <3>2. \A rn \in Reqs : expireTimer'[rn] = "armed" => expireTimer[rn] = "armed"
      BY <1>0, <1>3 DEF ApiVisit, ExpireNow
    <3> QED
      BY <2>1, <2>2, <3>1, <3>2, OneSent DEF Senders
  <2>4. Visited \subseteq Visited'
    <3>1. \A b \in Apis : Len(todo'[b]) <= Len(todo[b]) /\ Len(todo'[b]) \in Nat
      <4>1. \A b \in Apis : Len(todo[b]) \in Nat
        BY <1>0
      <4> QED
        BY <1>0, <2>1, <2>2, <4>1
    <3>2. ASSUME NEW b \in Apis, NEW i \in Len(todo[b]) + 1 .. MaxRunners
          PROVE  i \in Len(todo'[b]) + 1 .. MaxRunners
      <4>1. Len(todo[b]) \in Nat
        BY <1>0
      <4> QED
        BY <3>1, <4>1, ConstantAssumption
    <3> QED
      BY <2>1, <3>2 DEF Visited
  <2>5. <<"visited", <<a, Len(todo[a])>>>> \in Visited'
    <3>1. Len(todo[a]) \in Len(todo'[a]) + 1 .. MaxRunners
      BY <2>2, ConstantAssumption DEF Asking
    <3> QED
      BY <2>1, <3>1 DEF Visited
  <2>6. <<"visited", <<a, Len(todo[a])>>>> \notin Causes
    <3>1. Len(todo[a]) \notin Len(todo[a]) + 1 .. MaxRunners
      BY <2>2
    <3>2. <<"visited", <<a, Len(todo[a])>>>> \notin Visited
      BY <3>1 DEF Visited
    <3> QED
      BY <3>2 DEF Causes, Ended, Asked
  <2>7. Gains(Causes, Causes')
    BY <1>2, <2>4, <2>5, <2>6 DEF Gains, Causes
  <2> QED
    BY <2>3, <2>7 DEF Balance, Balanced
<1>4. CASE ~ApiVisit(a)
  <2>1. UNCHANGED <<expiredCh, callbacks, resends, expireTimer, refMu, unloadedCh, cpc>>
    BY <1>4 DEF Api, ApiLookup, ApiRuntimeOOM, ApiReturn, ShutdownCancel,
       UnloadAllRunners, RunnerCrash
  <2>2. Underway' \subseteq Underway
    BY <2>1, PartsKept, NothingSent
  <2>3. \A b \in Apis : apc[b] # "idle" => apc'[b] # "idle" /\ todo'[b] = todo[b]
    BY <1>0, <1>4 DEF Api, ApiLookup, ApiRuntimeOOM, ApiReturn, ShutdownCancel,
       UnloadAllRunners, RunnerCrash
  <2>4. Visited \subseteq Visited'
    BY <2>3 DEF Visited
  <2> QED
    BY <1>2, <2>2, <2>4, Quietly DEF Causes
<1> QED
  BY <1>3, <1>4

\* Every step keeps the balance.
LEMMA StepBalance ==
  ASSUME TypeInv, RefInv, Asking, Asking', Next
  PROVE  Balance
<1>1. CASE Finished
  <2>1. UNCHANGED vars
    BY <1>1 DEF Finished
  <2>2. Causes' = Causes
    BY <2>1 DEF vars, reqVars, pVars, apiVars, Causes, Ended, Asked, Visited, Owed
  <2>3. Underway' = Underway
    BY <2>1 DEF vars, runVars, chanVars, cVars, Underway, Queued, Armed, Called, Resent,
       Tally, Counts, Blocked, Handled, Unloads
  <2> QED
    BY <2>2, <2>3, Quietly
<1> QED
  BY <1>1, HandlerBalance, RunnerStepBalance, PendingBalance, CompletedBalance, ApiBalance
  DEF Next
-----------------------------------------------------------------------------
(* How many causes there are *)

\* A tag changes no count.
LEMMA TaggedCount ==
  ASSUME NEW S, IsFiniteSet(S), NEW tag
  PROVE  IsFiniteSet({tag} \X S) /\ Cardinality({tag} \X S) = Cardinality(S)
<1>1. IsFiniteSet({tag}) /\ Cardinality({tag}) = 1
  BY FS_Singleton
<1>2. /\ IsFiniteSet({tag} \X S) /\ Cardinality({tag} \X S) = 1 * Cardinality(S)
  BY <1>1, FS_Product
<1> QED
  BY <1>2, FS_CardinalityType

\* Each call visits every loaded runner at most.
LEMMA VisitedBound ==
  ASSUME TypeInv, IsFiniteSet(Apis)
  PROVE  /\ IsFiniteSet(Visited) /\ Cardinality(Visited) \in Nat
         /\ Cardinality(Visited) <= Cardinality(Apis) * MaxRunners
<1> DEFINE All == Apis \X (1 .. MaxRunners)
<1>1. IsFiniteSet(1 .. MaxRunners) /\ Cardinality(1 .. MaxRunners) = MaxRunners
  BY FS_Interval, ConstantAssumption
<1>2. IsFiniteSet(All) /\ Cardinality(All) = Cardinality(Apis) * MaxRunners
  BY <1>1, FS_Product
<1>3. /\ IsFiniteSet({"visited"} \X All)
      /\ Cardinality({"visited"} \X All) = Cardinality(Apis) * MaxRunners
  BY <1>2, TaggedCount
<1>4. Visited \subseteq {"visited"} \X All
  <2>1. ASSUME NEW a \in Apis, NEW i \in Len(todo[a]) + 1 .. MaxRunners
        PROVE  i \in 1 .. MaxRunners
    <3>1. Len(todo[a]) \in Nat
      BY DEF TypeInv, TypeOK, ApiTypeOK
    <3> QED
      BY <3>1
  <2> QED
    BY <2>1 DEF Visited
<1> HIDE DEF All
<1> QED
  BY <1>3, <1>4, FS_Subset, FS_CardinalityType

\* No more requests have ended than there are, and not all while one has not.
LEMMA EndedBound ==
  ASSUME TypeInv
  PROVE  /\ IsFiniteSet(Ended) /\ Cardinality(Ended) \in Nat
         /\ Cardinality(Ended) <= Cardinality(Reqs)
         /\ \A p \in Reqs : rst[p] \notin Over => Cardinality(Ended) <= Cardinality(Reqs) - 1
<1> DEFINE E == {r \in Reqs : rst[r] \in Over}
<1>1. IsFiniteSet(E) /\ Cardinality(E) <= Cardinality(Reqs) /\ E \subseteq Reqs
  BY ConstantAssumption, FS_Subset
<1>2. IsFiniteSet(Ended) /\ Cardinality(Ended) = Cardinality(E)
  BY <1>1, TaggedCount DEF Ended, Over
<1>3. ASSUME NEW p \in Reqs, rst[p] \notin Over
      PROVE  Cardinality(E) <= Cardinality(Reqs) - 1
  <2>1. E \subseteq Reqs \ {p}
    BY <1>3
  <2> QED
    BY <2>1, RemovedOne, ConstantAssumption
<1> QED
  BY <1>1, <1>2, <1>3, FS_CardinalityType

\* Either processPending has nothing to wait for, or it serves a request that
\* has not ended.
LEMMA CausesBound ==
  ASSUME TypeInv, Asking, IsFiniteSet(Apis)
  PROVE  /\ IsFiniteSet(Causes) /\ Cardinality(Causes) \in Nat
         /\ Cardinality(Causes)
              <= Cardinality(Reqs) - 1 + MaxRunners * (1 + Cardinality(Apis))
<1>1. Owed \in 0 .. MaxRunners
  BY OwedType
<1>2. IsFiniteSet(Asked) /\ Cardinality(Asked) = Owed
  <2>1. IsFiniteSet(1 .. Owed) /\ Cardinality(1 .. Owed) = Owed
    <3> HIDE DEF Owed
    <3> QED
      BY <1>1, FS_Interval
  <2> QED
    BY <2>1, TaggedCount DEF Asked
<1>3. /\ IsFiniteSet(Ended \cup Asked)
      /\ Cardinality(Ended \cup Asked) <= Cardinality(Ended) + Owed
  <2>1. IsFiniteSet(Ended) /\ IsFiniteSet(Ended \cap Asked)
    BY EndedBound, FS_Subset
  <2>2. Cardinality(Ended \cap Asked) \in Nat /\ Cardinality(Ended) \in Nat
    BY <2>1, FS_CardinalityType
  <2>3. /\ IsFiniteSet(Ended \cup Asked)
        /\ Cardinality(Ended \cup Asked)
             = Cardinality(Ended) + Cardinality(Asked) - Cardinality(Ended \cap Asked)
    BY <1>2, <2>1, FS_Union
  <2> QED
    BY <1>1, <1>2, <2>2, <2>3
<1>4. /\ IsFiniteSet(Causes)
      /\ Cardinality(Causes) <= Cardinality(Ended) + Owed + Cardinality(Visited)
  <2> DEFINE EA == Ended \cup Asked
  <2>1. IsFiniteSet(Visited) /\ IsFiniteSet(EA \cap Visited) /\ Cardinality(Visited) \in Nat
    BY <1>3, VisitedBound, FS_Subset
  <2>2. Cardinality(EA \cap Visited) \in Nat /\ Cardinality(EA) \in Nat
    BY <1>3, <2>1, FS_CardinalityType
  <2>3. /\ IsFiniteSet(EA \cup Visited)
        /\ Cardinality(EA \cup Visited)
             = Cardinality(EA) + Cardinality(Visited) - Cardinality(EA \cap Visited)
    BY <1>3, <2>1, FS_Union
  <2>4. Causes = EA \cup Visited
    BY DEF Causes
  <2>5. Cardinality(EA) <= Cardinality(Ended) + Owed
    BY <1>3
  <2>6. Cardinality(Ended) \in Nat /\ Owed \in Nat
    BY <1>1, EndedBound
  <2> HIDE DEF EA, Owed
  <2> QED
    BY <2>1, <2>2, <2>3, <2>4, <2>5, <2>6
<1>5. Cardinality(Ended) + Owed <= Cardinality(Reqs) - 1 + MaxRunners
  <2>1. CASE Owed = 0
    <3>1. Cardinality(Reqs) \in Nat /\ Cardinality(Ended) \in Nat
      BY EndedBound, ConstantAssumption, FS_CardinalityType
    <3> QED
      BY <2>1, <3>1, EndedBound, ConstantAssumption
  <2>2. CASE Owed # 0
    <3>1. pending \in Reqs /\ rst[pending] = "queued"
      BY <2>2, ConstantAssumption DEF Owed, Serving, TypeInv, OnePlace, Served, Asking,
         TypeOK, PendingTypeOK
    <3>2. Cardinality(Ended) <= Cardinality(Reqs) - 1
      BY <3>1, EndedBound DEF Over
    <3>3. Cardinality(Reqs) \in Nat /\ Cardinality(Ended) \in Nat
      BY EndedBound, ConstantAssumption, FS_CardinalityType
    <3> HIDE DEF Owed
    <3> QED
      BY <1>1, <3>2, <3>3, ConstantAssumption
  <2> QED
    BY <2>1, <2>2
<1>6. MaxRunners * (1 + Cardinality(Apis)) = MaxRunners + Cardinality(Apis) * MaxRunners
  <2>1. Cardinality(Apis) \in Nat
    BY FS_CardinalityType
  <2> QED
    BY <2>1, ConstantAssumption
<1>7. Cardinality(Causes) \in Nat
  BY <1>4, FS_CardinalityType
<1>8. /\ Cardinality(Apis) * MaxRunners \in Nat /\ Cardinality(Ended) \in Nat
      /\ Cardinality(Visited) <= Cardinality(Apis) * MaxRunners
      /\ Cardinality(Visited) \in Nat /\ Cardinality(Reqs) \in Nat /\ Owed \in Nat
  <2>1. Cardinality(Apis) \in Nat
    BY FS_CardinalityType
  <2>2. Cardinality(Apis) * MaxRunners \in Nat
    BY <2>1, ConstantAssumption
  <2> QED
    BY <1>1, <2>2, VisitedBound, EndedBound, ConstantAssumption, FS_CardinalityType
<1> HIDE DEF Owed
<1> QED
  BY <1>4, <1>5, <1>6, <1>7, <1>8, ConstantAssumption

\* What the causes are bounded with holds always.
LEMMA AskingInvariant == Spec => []Asking
<1>1. Init => Asking
  BY ConstantAssumption DEF Init, Asking
<1>2. TypeInv /\ LoadedBound /\ RefInv /\ Asking /\ [Next]_vars => Asking'
  <2>1. TypeInv /\ LoadedBound /\ RefInv /\ Asking /\ Next => Asking'
    BY StepAsking
  <2>2. Asking /\ UNCHANGED vars => Asking'
    BY DEF vars, reqVars, runVars, pVars, apiVars, Asking
  <2> QED
    BY <2>1, <2>2
<1> QED
  BY <1>1, <1>2, TypeInvariant, RoomInvariant, RefInvariant, PTL DEF Spec

\* The expired events on their way never outnumber the requests that have ended,
\* the unloads that processPending waits for and the runners that management calls
\* have visited.
LEMMA BoundedInvariant ==
  ASSUME IsFiniteSet(Apis)
  PROVE  Spec => []Bounded
<1> DEFINE Finite == IsFiniteSet(Causes)
<1>1. Init => Bounded
  <2> SUFFICES ASSUME Init PROVE Bounded
    OBVIOUS
  <2>1. Underway = {}
    BY DEF Init, Underway, Queued, Armed, Called, Resent, Tally, Counts, Blocked, Handled,
       Busy, Unloads, Senders
  <2>2. Causes = {}
    BY DEF Init, Causes, Ended, Asked, Owed, Visited
  <2> QED
    BY <2>1, <2>2, FS_EmptySet DEF Bounded
<1>2. TypeInv /\ Asking => Finite
  BY CausesBound
<1>3. TypeInv /\ RefInv /\ Asking /\ Asking' /\ Finite' /\ Bounded /\ [Next]_vars => Bounded'
  <2> SUFFICES ASSUME TypeInv, RefInv, Asking, Asking', Finite', Bounded, [Next]_vars
               PROVE  Bounded'
    OBVIOUS
  <2>1. CASE Next
    <3>1. Balanced(Underway, Underway', Causes, Causes')
      BY <2>1, StepBalance DEF Balance
    <3>2. IsFiniteSet(Underway') /\ Cardinality(Underway') <= Cardinality(Causes')
      BY <3>1, BalanceKept DEF Bounded
    <3> QED
      BY <3>2 DEF Bounded
  <2>2. CASE UNCHANGED vars
    BY <2>2 DEF vars, reqVars, runVars, chanVars, pVars, cVars, apiVars, Bounded, Underway,
       Queued, Armed, Called, Resent, Tally, Counts, Blocked, Handled, Unloads, Causes,
       Ended, Asked, Owed, Visited
  <2> QED
    BY <2>1, <2>2
<1> HIDE DEF Finite
<1> QED
  BY <1>1, <1>2, <1>3, AskingInvariant, TypeInvariant, RefInvariant, PTL DEF Spec

\* When requests and calls are few enough for the channel, no goroutine ever blocks
\* on sending an expired event.
SenderNeverBlocks == \A rn \in Reqs : ExpiredFull => refMu[rn] \notin Senders

\* With room for every event that can have a cause, nobody blocks on sending one.
LEMMA RoomForEvents ==
  ASSUME TypeInv, Asking, Bounded, IsFiniteSet(Apis),
         MaxQueue >= Cardinality(Reqs) - 1 + MaxRunners * (1 + Cardinality(Apis))
  PROVE  SenderNeverBlocks
<1> SUFFICES ASSUME NEW rn \in Reqs, ExpiredFull, refMu[rn] \in Senders
             PROVE  FALSE
  BY DEF SenderNeverBlocks
<1>1. Cardinality(Underway) <= MaxQueue
  <2>1. Cardinality(Apis) \in Nat /\ Cardinality(Reqs) \in Nat
    BY ConstantAssumption, FS_CardinalityType
  <2>2. MaxRunners * (1 + Cardinality(Apis)) \in Nat
    BY <2>1, ConstantAssumption
  <2>3. Cardinality(Underway) \in Nat
    BY FS_CardinalityType DEF Bounded
  <2> QED
    BY <2>1, <2>2, <2>3, CausesBound, ConstantAssumption DEF Bounded
<1>2. Len(expiredCh) \in Nat /\ Len(expiredCh) >= MaxQueue
  BY DEF ExpiredFull, TypeInv, TypeOK, ChannelTypeOK
<1>3. IsFiniteSet(Queued) /\ Cardinality(Queued) = Len(expiredCh)
  <2>1. IsFiniteSet(1 .. Len(expiredCh)) /\ Cardinality(1 .. Len(expiredCh)) = Len(expiredCh)
    BY <1>2, FS_Interval
  <2> QED
    BY <2>1, TaggedCount DEF Queued
<1>4. Queued \subseteq Underway \ {<<"sender", rn>>} /\ <<"sender", rn>> \in Underway
  BY Tagged DEF Underway, Blocked
<1>5. Cardinality(Queued) <= Cardinality(Underway) - 1
  BY <1>4, RemovedOne DEF Bounded
<1>6. Cardinality(Underway) \in Nat
  BY FS_CardinalityType DEF Bounded
<1> QED
  BY <1>1, <1>2, <1>3, <1>5, <1>6, ConstantAssumption

\* The deadlock of processCompleted with the senders of expired events needs many
\* requests: with no more of them, and of management calls, than expiredCh has room
\* for, it never waits for a goroutine that waits for it.
THEOREM EnoughRoom ==
  ASSUME IsFiniteSet(Apis),
         MaxQueue >= Cardinality(Reqs) - 1 + MaxRunners * (1 + Cardinality(Apis))
  PROVE  Spec => []CompletedNeverStuck
<1>1. TypeInv /\ Asking /\ Bounded => SenderNeverBlocks
  BY RoomForEvents
<1>2. SenderNeverBlocks => CompletedNeverStuck
  BY DEF SenderNeverBlocks, CompletedNeverStuck, Senders
<1> QED
  BY <1>1, <1>2, TypeInvariant, AskingInvariant, BoundedInvariant, PTL
-----------------------------------------------------------------------------
(* The scheduler implements RunnerLease *)

\* A runner that is about to be handed out was loaded with the options of the request.
OptionsAgree ==
  /\ \A r \in Reqs : rst[r] = "use" => req[seen[r]].opts = req[r].opts
  /\ ppc = "use" => req[runnerToExpire].opts = req[pending].opts

\* A handler decides to use a runner when it compares the options, and only then.
LEMMA HandlerCompares ==
  ASSUME TypeInv, Next, NEW r \in Reqs, rst'[r] = "use"
  PROVE  rst[r] = "use" \/ (rst[r] = "check" /\ req[seen[r]].opts = req[r].opts)
<1> DEFINE Decided == rst[r] = "use" \/ (rst[r] = "check" /\ req[seen[r]].opts = req[r].opts)
<1> USE DEF reqFixed, reqVars, outsideRun, outsideC, outsideP, TypeInv, TypeOK, RequestTypeOK
<1>1. ASSUME NEW p \in Reqs, Handler(p) PROVE Decided
  <2>1. CASE CheckReload(p)
    BY <2>1 DEF CheckReload, MustReload
  <2>2. CASE ~CheckReload(p)
    BY <1>1, <2>2 DEF Handler, GetRunner, UseRunner, UseLoadedRunner, Enqueue, Fail, CtxDone,
       WatchFinished
  <2> QED
    BY <2>1, <2>2
<1>2. ASSUME NEW rn \in Reqs, RunnerStep(rn) PROVE Decided
  BY <1>2 DEF RunnerStep, WaitUntilRunning, WaitUntilRunningOk, WaitUntilRunningFailed,
     Fail, TimerFires, TimerCallback, ResendExpired, UnblockSender
<1>3. CASE ProcessPending
  <2>1. rst' = rst \/ \E s \in {"granted", "failed"} : rst' = [rst EXCEPT ![pending] = s]
    BY <1>3 DEF ProcessPending, Receive, IgnoreUnloaded, Evaluate, PendingCheckReload,
       PendingUseRunner, UseLoadedRunner, RefreshGPUs, UpdateFreeSpace, LoadStep,
       LoadNoServer, LoadPredictedTooBig, LoadStartServer, LoadRequiredFull, LoadFailed,
       LoadSucceeded, FindSnapshot, FindScan, ExpireToMakeRoom, UnloadObserved,
       EvictSnapshot, EvictNext, EvictObserved, PendingLoopExit, Fail
  <2> QED
    BY <2>1
<1>4. CASE ProcessCompleted
  BY <1>4 DEF ProcessCompleted, ReceiveFinished, FinishRequest, ReceiveExpired,
     ExpiredInUse, ExpiredIdle, VRAMRecovered, SendUnloaded, CompletedLoopExit
<1>5. ASSUME NEW a \in Apis, Api(a) PROVE Decided
  BY <1>5 DEF Api, ApiLookup, ApiRuntimeOOM, ApiVisit, ApiReturn, ShutdownCancel,
     UnloadAllRunners, RunnerCrash
<1>6. CASE Finished
  BY <1>6 DEF Finished, vars
<1> QED
  BY <1>1, <1>2, <1>3, <1>4, <1>5, <1>6 DEF Next

\* So does processPending.
LEMMA PendingCompares ==
  ASSUME TypeInv, Next, ppc' = "use"
  PROVE  ppc = "use" \/ (ppc = "check" /\ req[runnerToExpire].opts = req[pending].opts)
<1> DEFINE Decided == ppc = "use" \/ (ppc = "check" /\ req[runnerToExpire].opts = req[pending].opts)
<1> USE DEF pVars, pLocals, outsideRun, outsideC
<1>1. ASSUME NEW p \in Reqs, Handler(p) PROVE Decided
  BY <1>1 DEF Handler, GetRunner, CheckReload, UseRunner, Enqueue, CtxDone, WatchFinished
<1>2. ASSUME NEW rn \in Reqs, RunnerStep(rn) PROVE Decided
  BY <1>2 DEF RunnerStep, WaitUntilRunning, WaitUntilRunningOk, WaitUntilRunningFailed,
     TimerFires, TimerCallback, ResendExpired, UnblockSender
<1>3. CASE ProcessPending
  <2>1. CASE PendingCheckReload
    BY <2>1 DEF PendingCheckReload, MustReload, PReady
  <2>2. CASE ~PendingCheckReload
    BY <1>3, <2>2 DEF ProcessPending, Receive, IgnoreUnloaded, Evaluate, PendingUseRunner,
       RefreshGPUs, UpdateFreeSpace, LoadStep, LoadNoServer, LoadPredictedTooBig,
       LoadStartServer, LoadRequiredFull, LoadFailed, LoadSucceeded, FindSnapshot, FindScan,
       ExpireToMakeRoom, UnloadObserved, EvictSnapshot, EvictNext, EvictObserved,
       PendingLoopExit, PReady, AfterRetry
  <2> QED
    BY <2>1, <2>2
<1>4. CASE ProcessCompleted
  BY <1>4 DEF ProcessCompleted, ReceiveFinished, FinishRequest, ReceiveExpired,
     ExpiredInUse, ExpiredIdle, VRAMRecovered, SendUnloaded, CompletedLoopExit
<1>5. ASSUME NEW a \in Apis, Api(a) PROVE Decided
  BY <1>5 DEF Api, ApiLookup, ApiRuntimeOOM, ApiVisit, ApiReturn, ShutdownCancel,
     UnloadAllRunners, RunnerCrash
<1>6. CASE Finished
  BY <1>6 DEF Finished, vars
<1> QED
  BY <1>1, <1>2, <1>3, <1>4, <1>5, <1>6 DEF Next

\* What was compared stays what it was until the runner is handed out.
LEMMA StepOptionsAgree ==
  ASSUME TypeInv, RefInv, OptionsAgree, Next
  PROVE  OptionsAgree'
<1>1. ASSUME NEW r \in Reqs, rst'[r] = "use" PROVE req'[seen'[r]].opts = req'[r].opts
  <2>1. rst[r] \in {"check", "use"} /\ req[seen[r]].opts = req[r].opts
    BY <1>1, HandlerCompares DEF OptionsAgree
  <2>2. seen[r] \in Reqs /\ rst[seen[r]] # "new"
    BY <2>1 DEF RefInv, LookedUp, PublishedFor
  <2>3. seen'[r] = seen[r]
    BY <1>1, <2>1, HandlerLookup DEF GetRunner
  <2> QED
    BY <2>1, <2>2, <2>3, KeyStable
<1>2. ASSUME ppc' = "use" PROVE req'[runnerToExpire'].opts = req'[pending'].opts
  <2>1. ppc \in {"check", "use"} /\ req[runnerToExpire].opts = req[pending].opts
    BY <1>2, PendingCompares DEF OptionsAgree
  <2>2. runnerToExpire \in Reqs /\ rst[runnerToExpire] # "new"
    BY <2>1 DEF RefInv, LookedUp, PublishedFor
  <2>3. pending \in Reqs /\ rst[pending] # "new"
    BY <2>1 DEF TypeInv, OnePlace, Served, Serving
  <2>4. UNCHANGED <<pending, runnerToExpire>>
    BY <1>2, <2>1, PendingLookup DEF Evaluate, PReady
  <2> QED
    BY <2>1, <2>2, <2>3, <2>4, KeyStable
<1> QED
  BY <1>1, <1>2 DEF OptionsAgree

\* So the options agree whenever a runner is handed out.
LEMMA OptionsInvariant == Spec => []OptionsAgree
<1>1. Init => OptionsAgree
  BY DEF Init, OptionsAgree
<1>2. TypeInv /\ RefInv /\ OptionsAgree /\ [Next]_vars => OptionsAgree'
  <2>1. TypeInv /\ RefInv /\ OptionsAgree /\ Next => OptionsAgree'
    BY StepOptionsAgree
  <2>2. OptionsAgree /\ UNCHANGED vars => OptionsAgree'
    BY DEF vars, reqVars, pVars, OptionsAgree
  <2> QED
    BY <2>1, <2>2
<1> QED
  BY <1>1, <1>2, TypeInvariant, RefInvariant, PTL DEF Spec

\* The states that RunnerLease does not tell apart.
Awaiting == {"check", "use", "enqueue", "queued"}
Returned == {"finishing", "done"}

\* A step keeps a request, or a runner, where RunnerLease sees it.
SameAnswer(r) ==
  /\ \/ rst'[r] = rst[r] \/ {rst[r], rst'[r]} \subseteq Awaiting
     \/ {rst[r], rst'[r]} \subseteq Returned
  /\ rst[r] \in {"granted"} \cup Returned => seen'[r] = seen[r]

SameRunner(rn) == rstate'[rn] = rstate[rn] \/ {rstate[rn], rstate'[rn]} \subseteq InService

\* Between them a request keeps its answer and its lease, a runner its state.
LEMMA SameView ==
  /\ \A r : SameAnswer(r) => AnswerOf(r)' = AnswerOf(r) /\ LeaseOf(r)' = LeaseOf(r)
  /\ \A rn : SameRunner(rn) => RunnerOf(rn)' = RunnerOf(rn)
BY DEF SameAnswer, SameRunner, AnswerOf, LeaseOf, RunnerOf, Awaiting, Returned, InService

\* A step of RunnerLease, or none.
LeaseStep == [Lease!Next]_(Lease!leaseVars)

\* A step of the scheduler that RunnerLease does not see.
LEMMA LeaseUnseen ==
  ASSUME UNCHANGED <<req, stale>>, \A r \in Reqs : SameAnswer(r) /\ SameRunner(r)
  PROVE  LeaseStep
BY SameView DEF LeaseStep, Lease!leaseVars

\* In particular one that leaves requests and the states of runners alone.
LEMMA LeaseKept ==
  ASSUME UNCHANGED <<req, rst, seen, rstate, stale>>
  PROVE  LeaseStep
BY LeaseUnseen DEF SameAnswer, SameRunner

\* getRunner asks.
LEMMA LeaseAsk ==
  ASSUME TypeInv, NEW r \in Reqs, NEW q \in Requests, GetRunner(r, q)
  PROVE  LeaseStep
<1>1. /\ rst[r] = "new" /\ rst'[r] \in Awaiting /\ req' = [req EXCEPT ![r] = q]
      /\ UNCHANGED <<rstate, stale>>
      /\ \A x \in Reqs : x # r => rst'[x] = rst[x] /\ seen'[x] = seen[x]
  BY DEF GetRunner, runVars, outsideRun, Awaiting, TypeInv, TypeOK, RequestTypeOK
<1>2. \A x \in Reqs : x # r => AnswerOf(x)' = AnswerOf(x) /\ LeaseOf(x)' = LeaseOf(x)
  BY <1>1, SameView DEF SameAnswer
<1>3. \A x \in Reqs : RunnerOf(x)' = RunnerOf(x)
  BY <1>1, SameView DEF SameRunner
<1>4. /\ AnswerOf(r) = "none" /\ AnswerOf(r)' = "awaited"
      /\ LeaseOf(r) = None /\ LeaseOf(r)' = None
  BY <1>1 DEF AnswerOf, LeaseOf, Awaiting
<1>5. Lease!Ask(r, q)
  BY <1>1, <1>2, <1>3, <1>4 DEF Lease!Ask
<1> QED
  BY <1>5 DEF Lease!Next, LeaseStep

\* A request is refused, or its load failed.
LEMMA LeaseRefuse ==
  ASSUME TypeInv, NEW r \in Reqs, rst[r] \in Awaiting, rst' = [rst EXCEPT ![r] = "failed"],
         UNCHANGED <<req, seen, rstate, stale>>
  PROVE  LeaseStep
<1>1. rst'[r] = "failed" /\ \A x \in Reqs : x # r => rst'[x] = rst[x]
  BY DEF TypeInv, TypeOK, RequestTypeOK
<1>2. \A x \in Reqs : x # r => AnswerOf(x)' = AnswerOf(x) /\ LeaseOf(x)' = LeaseOf(x)
  BY <1>1, SameView DEF SameAnswer
<1>3. \A x \in Reqs : RunnerOf(x)' = RunnerOf(x)
  BY SameView DEF SameRunner
<1>4. /\ AnswerOf(r) = "awaited" /\ AnswerOf(r)' = "refused"
      /\ LeaseOf(r) = None /\ LeaseOf(r)' = None
  BY <1>1 DEF AnswerOf, LeaseOf, Awaiting
<1>5. Lease!Refuse(r)
  BY <1>2, <1>3, <1>4 DEF Lease!Refuse
<1> QED
  BY <1>5 DEF Lease!Next, LeaseStep

\* A request gets runner rn.
LEMMA LeaseGrant ==
  ASSUME TypeInv, NEW r \in Reqs, NEW rn \in Reqs, rst[r] \in Awaiting,
         rst' = [rst EXCEPT ![r] = "granted"], seen' = [seen EXCEPT ![r] = rn],
         PublishedFor(rn, r), req[rn].opts = req[r].opts,
         stale' = (stale \/ rstate[rn] = "unloaded"),
         req' = req, \A x \in Reqs : SameRunner(x)
  PROVE  LeaseStep
<1>1. /\ rst'[r] = "granted" /\ seen'[r] = rn
      /\ \A x \in Reqs : x # r => rst'[x] = rst[x] /\ seen'[x] = seen[x]
  BY DEF TypeInv, TypeOK, RequestTypeOK
<1>2. \A x \in Reqs : x # r => AnswerOf(x)' = AnswerOf(x) /\ LeaseOf(x)' = LeaseOf(x)
  BY <1>1, SameView DEF SameAnswer
<1>3. \A x \in Reqs : RunnerOf(x)' = RunnerOf(x)
  BY SameView
<1>4. /\ AnswerOf(r) = "awaited" /\ AnswerOf(r)' = "leased"
      /\ LeaseOf(r) = None /\ LeaseOf(r)' = rn
  BY <1>1 DEF AnswerOf, LeaseOf, Awaiting
<1>5. /\ RunnerOf(rn) # "none" /\ (RunnerOf(rn) = "closed" <=> rstate[rn] = "unloaded")
      /\ req[rn].model = req[r].model
  BY DEF PublishedFor, RunnerOf, Key, TypeInv, TypeOK, RunnerTypeOK
<1>6. stale' = (stale \/ RunnerOf(rn) = "closed")
  BY <1>5
<1>7. Lease!Grant(r, rn)
  BY <1>2, <1>3, <1>4, <1>5, <1>6 DEF Lease!Grant
<1> QED
  BY <1>7 DEF Lease!Next, LeaseStep

\* The request is over.
LEMMA LeaseGiveBack ==
  ASSUME TypeInv, NEW r \in Reqs, WatchFinished(r)
  PROVE  LeaseStep
<1>1. /\ rst[r] = "granted" /\ rst'[r] = "finishing" /\ UNCHANGED <<req, seen, rstate, stale>>
      /\ \A x \in Reqs : x # r => rst'[x] = rst[x]
  BY DEF WatchFinished, reqFixed, runVars, outsideRun, TypeInv, TypeOK, RequestTypeOK
<1>2. \A x \in Reqs : x # r => AnswerOf(x)' = AnswerOf(x)
  BY <1>1, SameView DEF SameAnswer
<1>3. \A x \in Reqs : RunnerOf(x)' = RunnerOf(x) /\ LeaseOf(x)' = LeaseOf(x)
  <2>1. \A x \in Reqs : x # r => LeaseOf(x)' = LeaseOf(x)
    BY <1>1, SameView DEF SameAnswer
  <2>2. LeaseOf(r)' = LeaseOf(r)
    BY <1>1 DEF LeaseOf
  <2> QED
    BY <1>1, <2>1, <2>2, SameView DEF SameRunner
<1>4. AnswerOf(r) = "leased" /\ AnswerOf(r)' = "returned"
  BY <1>1 DEF AnswerOf
<1>5. Lease!GiveBack(r)
  BY <1>1, <1>2, <1>3, <1>4 DEF Lease!GiveBack
<1> QED
  BY <1>5 DEF Lease!Next, LeaseStep

\* The runners that are open are the loaded ones.
LEMMA OpenAreLoaded ==
  ASSUME TypeInv, Published
  PROVE  Lease!OpenRunners = LoadedRunners
<1>1. \A rn \in Reqs : RunnerOf(rn) = "open" <=> rstate[rn] \in InService
  BY DEF RunnerOf, InService
<1>2. \A rn \in Reqs : rstate[rn] \in InService => rn \in LoadedRunners
  <2> SUFFICES ASSUME NEW rn \in Reqs, rstate[rn] \in InService PROVE rn \in LoadedRunners
    OBVIOUS
  <2>1. rst[rn] # "new" /\ loaded[Key(rn)] = rn
    BY DEF Published
  <2>2. Key(rn) \in Models
    BY <2>1, KeyType
  <2> QED
    BY <2>1, <2>2, ConstantAssumption DEF LoadedRunners, LoadedKeys
<1>3. LoadedRunners \subseteq {rn \in Reqs : rstate[rn] \in InService}
  BY DEF Published, LoadedRunners, LoadedKeys, TypeInv, TypeOK, MapTypeOK
<1> QED
  BY <1>1, <1>2, <1>3 DEF Lease!OpenRunners

\* RunnerLease counts as the scheduler does.
LEMMA SameCount == \A S : Lease!Cardinality(S) = Cardinality(S)
BY DEF Lease!Cardinality, Cardinality

\* A load that succeeded opens a runner where there was room for one.
LEMMA LeaseOpen ==
  ASSUME TypeInv, RoomForLoad, Published, Fresh, LoadSucceeded
  PROVE  LeaseStep
<1>0. PICK p \in Reqs : p = pending
  BY LoadSucceededEffect
<1>1. /\ rst[p] = "queued" /\ Key(p) \in Models
      /\ loaded[Key(p)] = None
      /\ rstate' = [rstate EXCEPT ![p] = "loading"]
      /\ UNCHANGED <<reqVars, stale>>
  BY <1>0, LoadSucceededEffect
<1>2. UNCHANGED <<req, rst, seen>>
  BY <1>1 DEF reqVars
<1>3. rstate[p] = "none"
  <2>1. refMu[p] # "load"
    BY <1>0 DEF LoadSucceeded, PReady, Serving, TypeInv, OnePlace, Served
  <2> QED
    BY <1>1, <2>1 DEF Fresh, Answered
<1>4. \A x \in Reqs : AnswerOf(x)' = AnswerOf(x) /\ LeaseOf(x)' = LeaseOf(x)
  BY <1>2, SameView DEF SameAnswer
<1>5. /\ RunnerOf(p) = "none" /\ RunnerOf(p)' = "open"
      /\ \A x \in Reqs : x # p => RunnerOf(x)' = RunnerOf(x)
  <2>1. rstate'[p] = "loading" /\ \A x \in Reqs : x # p => rstate'[x] = rstate[x]
    BY <1>1 DEF TypeInv, TypeOK, RunnerTypeOK
  <2> QED
    BY <1>3, <2>1, SameView DEF SameRunner, RunnerOf
<1>6. Cardinality(Lease!OpenRunners) < MaxRunners
  <2>1. Cardinality(LoadedKeys) < MaxRunners /\ Cardinality(LoadedKeys) \in Nat
    BY LoadedKeysFinite DEF RoomForLoad, LoadSucceeded, PReady, LoadedKeys
  <2> QED
    BY <2>1, OpenAreLoaded, LoadedRunnersCount, ConstantAssumption
<1>7. \A rn \in Lease!OpenRunners : req[rn].model # req[p].model
  BY <1>1, OpenAreLoaded DEF Published, LoadedRunners, LoadedKeys, Key
<1>8. AnswerOf(p) = "awaited"
  BY <1>1 DEF AnswerOf
<1>9. Lease!Open(p)
  BY <1>1, <1>2, <1>4, <1>5, <1>6, <1>7, <1>8, SameCount DEF Lease!Open
<1> QED
  BY <1>1, <1>9 DEF Lease!Next, LeaseStep

\* An expired event closes an open runner that no request holds, or changes nothing
\* that was open.
LEMMA LeaseClose ==
  ASSUME TypeInv, RefInv, Addressed, ExpiredIdle
  PROVE  LeaseStep
<1>0. PICK x \in Reqs : x = crunner
  BY ExpiredIdleEffect DEF RefInv
<1>1. /\ refCount[x] = 0
      /\ rstate' = rstate \/ rstate' = [rstate EXCEPT ![x] = "unloaded"]
      /\ UNCHANGED <<reqVars, stale>>
  BY <1>0, ExpiredIdleEffect DEF RefInv
<1>2. UNCHANGED <<req, rst, seen, stale>> /\ rstate[x] # "none"
  BY <1>0, <1>1 DEF reqVars, ExpiredIdle, CReady, Addressed
<1>3. \A y \in Reqs : SameAnswer(y)
  BY <1>2 DEF SameAnswer
<1>4. \A y \in Reqs : y # x => SameRunner(y)
  BY <1>1 DEF SameRunner, TypeInv, TypeOK, RunnerTypeOK
<1>5. CASE rstate'[x] = rstate[x]
  BY <1>2, <1>3, <1>4, <1>5, LeaseUnseen DEF SameRunner
<1>6. CASE rstate'[x] # rstate[x]
  <2>1. rstate[x] \in InService /\ rstate'[x] = "unloaded"
    BY <1>1, <1>2, <1>6 DEF InService, TypeInv, TypeOK, RunnerTypeOK
  <2>2. RunnerOf(x) = "open" /\ RunnerOf(x)' = "closed"
    BY <2>1 DEF RunnerOf, InService
  <2>3. stale \/ \A r \in Reqs : AnswerOf(r) = "leased" => LeaseOf(r) # x
    <3> SUFFICES ASSUME ~stale, NEW r \in Reqs, AnswerOf(r) = "leased", LeaseOf(r) = x
                 PROVE  FALSE
      OBVIOUS
    <3>1. rst[r] = "granted"
      BY DEF AnswerOf
    <3>2. seen[r] = x
      BY <3>1 DEF LeaseOf
    <3>3. refCount[seen[r]] # 0
      BY <3>1, UserRunner DEF RefInv, Using
    <3> QED
      BY <1>1, <3>2, <3>3
  <2>4. Lease!Close(x)
    BY <1>1, <1>2, <1>3, <1>4, <2>2, <2>3, SameView DEF Lease!Close
  <2> QED
    BY <1>1, <2>4 DEF Lease!Next, LeaseStep
<1> QED
  BY <1>5, <1>6

\* The handler asks, takes the runner it found, is refused, or gives its lease back.
LEMMA HandlerLease ==
  ASSUME TypeInv, RefInv, OptionsAgree, NEW r \in Reqs, Handler(r)
  PROVE  LeaseStep
<1> USE DEF reqFixed, runVars, outsideRun
<1>0. rst \in [Reqs -> {"new", "check", "use", "enqueue", "queued", "granted", "finishing",
                        "done", "failed"}]
  BY DEF TypeInv, TypeOK, RequestTypeOK
<1>1. ASSUME NEW q \in Requests, GetRunner(r, q) PROVE LeaseStep
  BY <1>1, LeaseAsk
<1>2. CASE CheckReload(r)
  <2>1. /\ rst[r] \in Awaiting /\ \E s \in Awaiting : rst' = [rst EXCEPT ![r] = s]
        /\ UNCHANGED <<req, seen, rstate, stale>>
    BY <1>2 DEF CheckReload, Awaiting
  <2> QED
    BY <1>0, <2>1, LeaseUnseen DEF SameAnswer, SameRunner
<1>3. CASE UseRunner(r)
  <2>1. PICK rn : rn = seen[r]
    OBVIOUS
  <2>2. rst[r] = "use" /\ PublishedFor(rn, r) /\ req[rn].opts = req[r].opts
    BY <1>3, <2>1 DEF UseRunner, RefInv, LookedUp, OptionsAgree
  <2>3. rn \in Reqs
    BY <2>2 DEF PublishedFor
  <2>4. /\ rst' = [rst EXCEPT ![r] = "granted"] /\ seen' = [seen EXCEPT ![r] = rn]
        /\ stale' = (stale \/ rstate[rn] = "unloaded") /\ UNCHANGED <<req, rstate>>
    BY <1>3, <2>1 DEF UseRunner, UseLoadedRunner
  <2> QED
    BY <2>2, <2>3, <2>4, LeaseGrant DEF SameRunner, Awaiting
<1>4. CASE Enqueue(r)
  <2>1. /\ rst[r] \in Awaiting /\ UNCHANGED <<req, seen, rstate, stale>>
        /\ \/ rst' = [rst EXCEPT ![r] = "queued"]
           \/ rst' = [rst EXCEPT ![r] = "failed"]
    BY <1>4 DEF Enqueue, Fail, Awaiting
  <2>2. CASE rst' = [rst EXCEPT ![r] = "queued"]
    BY <1>0, <2>1, <2>2, LeaseUnseen DEF SameAnswer, SameRunner, Awaiting
  <2>3. CASE rst' = [rst EXCEPT ![r] = "failed"]
    BY <2>1, <2>3, LeaseRefuse
  <2> QED
    BY <2>1, <2>2, <2>3
<1>5. CASE CtxDone(r)
  BY <1>5, LeaseKept DEF CtxDone
<1>6. CASE WatchFinished(r)
  BY <1>6, LeaseGiveBack
<1> QED
  BY <1>1, <1>2, <1>3, <1>4, <1>5, <1>6 DEF Handler

\* The end of a load grants its runner to the request that asked for it, or refuses.
LEMMA RunnerStepLease ==
  ASSUME TypeInv, Published, NEW x \in Reqs, RunnerStep(x)
  PROVE  LeaseStep
<1>1. CASE WaitUntilRunningOk(x)
  <2>1. /\ rst[x] = "queued" /\ rstate[x] = "loading" /\ rstate' = [rstate EXCEPT ![x] = "running"]
        /\ seen' = [seen EXCEPT ![x] = x] /\ rst' = [rst EXCEPT ![x] = "granted"]
        /\ UNCHANGED <<req, stale>>
    BY <1>1, WaitUntilRunningOkEffect
  <2>2. PublishedFor(x, x)
    BY <2>1 DEF PublishedFor
  <2>3. \A y \in Reqs : SameRunner(y)
    BY <2>1 DEF SameRunner, InService, TypeInv, TypeOK, RunnerTypeOK
  <2>4. stale' = (stale \/ rstate[x] = "unloaded")
    <3>1. rstate[x] # "unloaded" /\ stale \in BOOLEAN /\ stale' = stale
      BY <2>1 DEF TypeInv, TypeOK
    <3> QED
      BY <3>1
  <2> QED
    BY <2>1, <2>2, <2>3, <2>4, LeaseGrant DEF Awaiting
<1>2. CASE WaitUntilRunningFailed(x)
  <2>1. /\ rst[x] = "queued" /\ rst' = [rst EXCEPT ![x] = "failed"]
        /\ UNCHANGED <<req, seen, rstate, stale>>
    BY <1>2 DEF WaitUntilRunningFailed, Fail, reqFixed, outsideRun, TypeInv, OnePlace, Waiting
  <2> QED
    BY <2>1, LeaseRefuse DEF Awaiting
<1>3. CASE TimerFires(x) \/ TimerCallback(x) \/ ResendExpired(x) \/ UnblockSender(x)
  BY <1>3, LeaseKept DEF TimerFires, TimerCallback, ResendExpired, UnblockSender, outsideC,
     reqVars
<1> QED
  BY <1>1, <1>2, <1>3 DEF RunnerStep, WaitUntilRunning

\* processPending opens runners, hands out loaded ones, and refuses.
LEMMA PendingLease ==
  ASSUME TypeInv, RoomForLoad, RefInv, Fresh, OptionsAgree, ProcessPending
  PROVE  LeaseStep
<1> USE DEF reqFixed, reqVars, runVars, outsideC, outsideP
<1>0. PICK p : p = pending
  OBVIOUS
<1>1. CASE PendingUseRunner
  <2>1. PICK rn : rn = runnerToExpire
    OBVIOUS
  <2>2. /\ p \in Reqs /\ rst[p] = "queued" /\ PublishedFor(rn, p)
        /\ req[rn].opts = req[p].opts
    BY <1>0, <1>1, <2>1 DEF PendingUseRunner, PReady, RefInv, LookedUp, OptionsAgree,
       TypeInv, OnePlace, Served, Serving
  <2>3. rn \in Reqs
    BY <2>2 DEF PublishedFor
  <2>4. /\ rst' = [rst EXCEPT ![p] = "granted"] /\ seen' = [seen EXCEPT ![p] = rn]
        /\ stale' = (stale \/ rstate[rn] = "unloaded") /\ UNCHANGED <<req, rstate>>
    BY <1>0, <1>1, <2>1 DEF PendingUseRunner, UseLoadedRunner
  <2> QED
    BY <2>2, <2>3, <2>4, LeaseGrant DEF SameRunner, Awaiting
<1>2. CASE LoadSucceeded
  BY <1>2, LeaseOpen DEF RefInv
<1>3. CASE LoadNoServer \/ \E oom, reducible \in BOOLEAN : LoadFailed(oom, reducible)
  <2>1. p \in Reqs /\ rst[p] = "queued"
    BY <1>0, <1>3 DEF LoadNoServer, LoadFailed, PReady, TypeInv, OnePlace, Served, Serving
  <2>2. /\ rst' = rst \/ rst' = [rst EXCEPT ![p] = "failed"]
        /\ UNCHANGED <<req, seen, rstate, stale>>
    BY <1>0, <1>3 DEF LoadNoServer, LoadFailed, Fail
  <2> QED
    BY <2>1, <2>2, LeaseRefuse, LeaseKept DEF Awaiting
<1>4. CASE /\ ~PendingUseRunner /\ ~LoadSucceeded /\ ~LoadNoServer
           /\ ~ \E oom, reducible \in BOOLEAN : LoadFailed(oom, reducible)
  <2>1. UNCHANGED <<req, rst, seen, rstate, stale>>
    BY <1>4 DEF ProcessPending, Receive, IgnoreUnloaded, Evaluate, PendingCheckReload,
       RefreshGPUs, UpdateFreeSpace, LoadStep, LoadPredictedTooBig, LoadStartServer,
       LoadRequiredFull, FindSnapshot, FindScan, ExpireToMakeRoom, UnloadObserved,
       EvictSnapshot, EvictNext, EvictObserved, PendingLoopExit
  <2> QED
    BY <2>1, LeaseKept
<1> QED
  BY <1>1, <1>2, <1>3, <1>4

\* processCompleted closes runners.
LEMMA CompletedLease ==
  ASSUME TypeInv, RefInv, Addressed, ProcessCompleted
  PROVE  LeaseStep
<1> USE DEF reqFixed, reqVars, runVars, outsideC
<1>1. CASE ReceiveFinished \/ FinishRequest
  <2>1. ASSUME NEW r \in Reqs, rst[r] \in Returned, rst' = [rst EXCEPT ![r] = "done"],
               UNCHANGED <<req, seen, rstate, stale>>
        PROVE  LeaseStep
    <3>1. rst'[r] = "done" /\ \A y \in Reqs : y # r => rst'[y] = rst[y]
      BY <2>1 DEF TypeInv, TypeOK, RequestTypeOK
    <3> QED
      BY <2>1, <3>1, LeaseUnseen DEF SameAnswer, SameRunner, Returned
  <2>2. CASE ReceiveFinished
    <3>1. PICK r : r = Head(finishedReqCh)
      OBVIOUS
    <3>2. /\ rst' = rst \/ rst' = [rst EXCEPT ![r] = "done"]
          /\ finishedReqCh # <<>> /\ UNCHANGED <<req, seen, rstate, stale>>
      BY <2>2, <3>1 DEF ReceiveFinished
    <3>3. r \in Reqs /\ rst[r] \in Returned
      <4>1. finishedReqCh \in Seq(Reqs) /\ 1 \in 1 .. Len(finishedReqCh) /\ r = finishedReqCh[1]
        BY <3>1, <3>2 DEF TypeInv, TypeOK, ChannelTypeOK
      <4> QED
        BY <4>1 DEF TypeInv, FinishedEvents, Returned
    <3> QED
      BY <2>1, <3>2, <3>3, LeaseKept
  <2>3. CASE FinishRequest
    <3>1. PICK r : r = finished
      OBVIOUS
    <3>2. rst' = [rst EXCEPT ![r] = "done"] /\ UNCHANGED <<req, seen, rstate, stale>>
      BY <2>3, <3>1 DEF FinishRequest
    <3>3. r \in Reqs /\ rst[r] \in Returned
      BY <2>3, <3>1 DEF FinishRequest, CReady, TypeInv, FinishedEvents, Returned
    <3> QED
      BY <2>1, <3>2, <3>3
  <2> QED
    BY <1>1, <2>2, <2>3
<1>2. CASE ExpiredIdle
  BY <1>2, LeaseClose
<1>3. CASE ReceiveExpired \/ ExpiredInUse \/ VRAMRecovered \/ SendUnloaded \/ CompletedLoopExit
  BY <1>3, LeaseKept DEF ReceiveExpired, ExpiredInUse, VRAMRecovered, SendUnloaded,
     CompletedLoopExit
<1> QED
  BY <1>1, <1>2, <1>3 DEF ProcessCompleted

\* Every step of the scheduler is a step of RunnerLease, or none.
LEMMA StepLease ==
  ASSUME TypeInv, RoomForLoad, RefInv, IdleInv, OptionsAgree, [Next]_vars
  PROVE  LeaseStep
<1> USE DEF IdleInv
<1>1. ASSUME NEW a \in Apis, Api(a) PROVE LeaseStep
  BY <1>1, LeaseKept DEF Api, ApiLookup, ApiRuntimeOOM, ApiVisit, ApiReturn, ShutdownCancel,
     UnloadAllRunners, RunnerCrash, reqVars, runVars
<1>2. CASE UNCHANGED vars
  BY <1>2, LeaseKept DEF vars, reqVars, runVars
<1> QED
  BY <1>1, <1>2, HandlerLease, RunnerStepLease, PendingLease, CompletedLease
  DEF Next, Finished, RefInv

\* Nothing was asked and nothing is open at first.
LEMMA InitLease == Init => Lease!Init
<1> SUFFICES ASSUME Init PROVE Lease!Init
  OBVIOUS
<1>1. \A r \in Reqs : rst[r] = "new" /\ rstate[r] = "none"
  BY DEF Init
<1>2. \A r \in Reqs : AnswerOf(r) = "none" /\ LeaseOf(r) = None /\ RunnerOf(r) = "none"
  BY <1>1 DEF AnswerOf, LeaseOf, RunnerOf
<1> QED
  BY <1>2 DEF Init, Lease!Init

\* The scheduler implements RunnerLease for any number of requests, models, options
\* and management calls: whatever loads, retries, evictions, timers and shutdowns go on
\* below, a handler gets one answer, a runner of its own model and options, one of at
\* most maxRunners, which nothing closes under it until an unloaded one is handed out.
THEOREM SchedulerImplementsLease == Spec => ImplementsLease
<1>1. TypeInv /\ RoomForLoad /\ RefInv /\ IdleInv /\ OptionsAgree /\ [Next]_vars
        => [Lease!Next]_(Lease!leaseVars)
  BY StepLease DEF LeaseStep
<1> QED
  BY <1>1, InitLease, TypeInvariant, RoomInvariant, RefInvariant, IdleInvariant,
     OptionsInvariant, PTL DEF Spec, ImplementsLease, Lease!Spec
=============================================================================
