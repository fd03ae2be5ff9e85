-------------------- MODULE BlobDownloadCounters_proofs --------------------
(***************************************************************************)
(* Proofs about the counters of a shared download: the reference count is  *)
(* the number of those that wait for it, and a call is told "context       *)
(* canceled" only if it joined a download that everybody else had left;    *)
(* the progress counter is the sum of what was received.  Last, the types. *)
(***************************************************************************)
EXTENDS BlobDownloadData_proofs, FiniteSetTheorems

\* The calls that wait for download d.
Waiters(d) == {c \in Clients : call[c].pc = "wait" /\ call[c].download = d}

(* The parts of the inductive invariant. *)

\* acquire and release keep the count.
CountExact == \A d \in Clients : dl[d].references = Cardinality(Waiters(d))

\* CancelFunc is called, or about to be, for a download that all have left.
CancelMeansAbandoned ==
  /\ \A d \in Clients : dl[d].cancelFunc = "called" => dl[d].abandoned
  /\ \A c \in Clients : call[c].pc = "release" => dl[call[c].download].abandoned

\* Whoever waits for a download that all had left joined it afterwards.
WaitersLate ==
  \A d \in Clients : dl[d].abandoned => \A c \in Waiters(d) : call[c].late

\* The first error of the errgroup is that of the first part that failed, and it
\* is a cancellation only if all have left.
ErrorKept ==
  \A d \in Clients :
    /\ Phase(d) = "fetch" /\ (\E i \in DOMAIN dl[d].work : dl[d].work[i].pc = "failed")
         => dl[d].err # None
    /\ dl[d].err = "canceled" => dl[d].abandoned

RefsInv == /\ CountExact /\ CancelMeansAbandoned /\ WaitersLate /\ ErrorKept
           /\ CanceledOnlyIfAbandoned

LEMMA WaitersFinite ==
  ASSUME NEW d \in Clients
  PROVE  IsFiniteSet(Waiters(d)) /\ Cardinality(Waiters(d)) \in Nat
BY DownloadAssumption, FS_Subset, FS_CardinalityType DEF Waiters

LEMMA RefsInit == Init => RefsInv
<1> SUFFICES ASSUME Init PROVE RefsInv
  OBVIOUS
<1>1. \A d \in Clients : /\ dl[d].references = 0 /\ dl[d].phase = "none"
                         /\ dl[d].cancelFunc = "nil" /\ dl[d].err = None
                         /\ dl[d].abandoned = FALSE
  BY DEF Init, NewDownload
<1>2. \A c \in Clients : call[c].pc = "start" /\ call[c].told = None
  BY DEF Init
<1>3. \A d \in Clients : Waiters(d) = {}
  BY <1>2 DEF Waiters
<1>4. CountExact
  BY <1>1, <1>3, FS_EmptySet DEF CountExact
<1>5. QED
  BY <1>1, <1>2, <1>4, DownloadAssumption
  DEF RefsInv, CancelMeansAbandoned, WaitersLate, ErrorKept, CanceledOnlyIfAbandoned, Phase

-----------------------------------------------------------------------------
(* Steps that nobody who waits takes part in. *)

\* Nobody begins or ceases to wait, or is told of a cancellation.
CallsKept ==
  \A c \in Clients :
    /\ call'[c].late = call[c].late
    /\ call'[c].told = call[c].told \/ call'[c].told # "canceled"
    /\ call'[c].pc \in {"wait", "release"} \/ call[c].pc \in {"wait", "release"} =>
         call'[c].pc = call[c].pc /\ call'[c].download = call[c].download

\* A download goes on without being cancelled or left.
GoesOn(d) ==
  /\ dl'[d].references = dl[d].references
  /\ dl'[d].abandoned = dl[d].abandoned
  /\ dl'[d].cancelFunc = "called" => dl[d].cancelFunc = "called"
  /\ dl'[d].err = "canceled" => dl[d].err = "canceled" \/ dl[d].abandoned
  /\ dl'[d].phase = "fetch" /\ (\E i \in DOMAIN dl'[d].work : dl'[d].work[i].pc = "failed")
       => dl'[d].err # None

LEMMA GoOn ==
  ASSUME RefsInv, CallsKept, CallsHaveDownloads, CallsHaveDownloads',
         \A d \in Clients : dl'[d] = dl[d] \/ GoesOn(d)
  PROVE  RefsInv'
<1> USE DEF RefsInv
<1>1. \A d \in Clients : /\ dl'[d].references = dl[d].references
                         /\ dl'[d].abandoned = dl[d].abandoned
                         /\ dl'[d].cancelFunc = "called" => dl[d].cancelFunc = "called"
                         /\ dl'[d].err = "canceled" => dl[d].err = "canceled" \/ dl[d].abandoned
  BY DEF GoesOn
<1>2. \A d \in Clients : Waiters(d)' = Waiters(d)
  BY DEF Waiters, CallsKept
<1>3. CountExact'
  BY <1>1, <1>2 DEF CountExact
<1>4. CancelMeansAbandoned'
  BY <1>1 DEF CancelMeansAbandoned, CallsKept, CallsHaveDownloads
<1>5. WaitersLate'
  BY <1>1, <1>2 DEF WaitersLate, CallsKept, Waiters
<1>6. ErrorKept'
  <2> SUFFICES ASSUME NEW d \in Clients
               PROVE  /\ dl'[d].phase = "fetch"
                         /\ (\E i \in DOMAIN dl'[d].work : dl'[d].work[i].pc = "failed")
                           => dl'[d].err # None
                      /\ dl'[d].err = "canceled" => dl'[d].abandoned
    BY DEF ErrorKept, Phase
  <2>1. CASE dl'[d] = dl[d]
    BY <2>1 DEF ErrorKept, Phase
  <2>2. CASE GoesOn(d)
    BY <2>2 DEF ErrorKept, GoesOn
  <2> QED
    BY <2>1, <2>2
<1>7. CanceledOnlyIfAbandoned'
  BY DEF CanceledOnlyIfAbandoned, CallsKept
<1> QED
  BY <1>3, <1>4, <1>5, <1>6, <1>7

\* A step of download d alone, in all that matters here.
Only(d) == \A x \in Clients \ {d} : dl'[x] = dl[x]

LEMMA GoOnAlone ==
  ASSUME IInv, IInv', RefsInv, NEW d \in Clients, CallsKept, Only(d), GoesOn(d)
  PROVE  RefsInv'
BY GoOn DEF Only, IInv

LEMMA SameCallsKept ==
  ASSUME UNCHANGED call
  PROVE  CallsKept
BY DEF CallsKept

LEMMA StatRefs ==
  ASSUME IInv, IInv', RefsInv, NEW c \in Clients, Stat(c)
  PROVE  RefsInv'
<1>1. CallsKept
  BY DEF Stat, CallsKept, IInv, Shape, Call
<1>2. dl' = dl
  BY DEF Stat
<1> QED
  BY <1>1, <1>2, GoOn DEF IInv

LEMMA DownloadTypes ==
  ASSUME IInv
  PROVE  dl \in [Clients -> Download] /\ call \in [Clients -> Call]
BY DEF IInv, Shape

LEMMA LoadOrStoreRefs ==
  ASSUME IInv, IInv', RefsInv, NEW c \in Clients, LoadOrStore(c)
  PROVE  RefsInv'
<1>1. CallsKept
  BY DEF LoadOrStore, CallsKept, IInv, Shape, Call
<1>2. CASE manager # None
  BY <1>1, <1>2, GoOn DEF LoadOrStore, IInv
<1>3. CASE manager = None
  <2>1. dl' = [dl EXCEPT ![c].phase = "prepare"]
    BY <1>3 DEF LoadOrStore
  <2>2. Only(c) /\ GoesOn(c)
    BY <2>1, DownloadTypes DEF Only, GoesOn, Download
  <2> QED
    BY <1>1, <2>2, GoOnAlone
<1> QED
  BY <1>2, <1>3

LEMMA ReadPartRefs ==
  ASSUME IInv, IInv', RefsInv, NEW c \in Clients, ReadPart(c)
  PROVE  RefsInv'
<1>1. CallsKept
  BY SameCallsKept DEF ReadPart
<1>2. Only(c) /\ GoesOn(c)
  BY DownloadTypes DEF ReadPart, Only, GoesOn, Phase, Download
<1> QED
  BY <1>1, <1>2, GoOnAlone

LEMMA HeadOkRefs ==
  ASSUME IInv, IInv', RefsInv, NEW c \in Clients, HeadOk(c)
  PROVE  RefsInv'
<1>1. CallsKept
  BY SameCallsKept DEF HeadOk
<1>2. Only(c) /\ GoesOn(c)
  BY DownloadTypes DEF HeadOk, Only, GoesOn, Phase, Download
<1> QED
  BY <1>1, <1>2, GoOnAlone

LEMMA NewPartRefs ==
  ASSUME IInv, IInv', RefsInv, NEW c \in Clients, NewPart(c)
  PROVE  RefsInv'
<1>1. CallsKept
  BY SameCallsKept DEF NewPart
<1>2. Only(c) /\ GoesOn(c)
  BY DownloadTypes DEF NewPart, Unsplit, Only, GoesOn, Phase, Download
<1> QED
  BY <1>1, <1>2, GoOnAlone

LEMMA PreparedRefs ==
  ASSUME IInv, IInv', RefsInv, NEW c \in Clients, Prepared(c), call[c].pc = "prepare"
  PROVE  RefsInv'
<1>1. CallsKept
  BY DownloadTypes DEF Prepared, CallsKept, Call
<1>2. Only(c) /\ GoesOn(c)
  BY DownloadTypes DEF Prepared, Only, GoesOn, Download
<1> QED
  BY <1>1, <1>2, GoOnAlone

LEMMA PrepareFailsRefs ==
  ASSUME IInv, IInv', RefsInv, NEW c \in Clients, PrepareFails(c), call[c].pc = "prepare"
  PROVE  RefsInv'
<1>1. CallsKept
  BY DownloadTypes DEF PrepareFails, CallsKept, Call
<1>2. Only(c) /\ GoesOn(c)
  BY DownloadTypes DEF PrepareFails, Only, GoesOn, Download
<1> QED
  BY <1>1, <1>2, GoOnAlone

LEMMA PrepareRefs ==
  ASSUME IInv, IInv', RefsInv, NEW c \in Clients, Prepare(c)
  PROVE  RefsInv'
<1>1. Phase(c) \in {"prepare", "split"}
  BY DEF Prepare, ReadPart, ReadDone, HeadOk, ReadOrHeadFails, NewPart, NewPartFails,
         PrepareDone, Unsplit
<1>2. call[c].pc = "prepare"
  BY <1>1 DEF IInv, CallsHaveDownloads
<1>3. CASE ReadPart(c) \/ HeadOk(c) \/ NewPart(c)
  BY <1>3, ReadPartRefs, HeadOkRefs, NewPartRefs
<1>4. CASE ReadDone(c) \/ PrepareDone(c)
  BY <1>2, <1>4, PreparedRefs DEF ReadDone, PrepareDone
<1>5. CASE ReadOrHeadFails(c) \/ NewPartFails(c)
  BY <1>2, <1>5, PrepareFailsRefs DEF ReadOrHeadFails, NewPartFails
<1> QED
  BY <1>3, <1>4, <1>5 DEF Prepare

-----------------------------------------------------------------------------
(* run *)

LEMMA FinishRefs ==
  ASSUME IInv, IInv', RefsInv, NEW d \in Clients, NEW e \in {None, "err", "canceled"},
         Finish(d, e), e = "canceled" => dl[d].err = "canceled" \/ dl[d].abandoned,
         UNCHANGED call
  PROVE  RefsInv'
<1>1. CallsKept
  BY SameCallsKept
<1> DEFINE k == dl[d].references
           f == dl[d].cancelFunc
           b == dl[d].abandoned
           r == [NewDownload EXCEPT !.phase = "left", !.err = e, !.references = k,
                                    !.cancelFunc = f, !.abandoned = b]
<1>2. dl' = [dl EXCEPT ![d] = r]
  BY DEF Finish
<1>3. /\ r.phase = "left" /\ r.err = e /\ r.references = dl[d].references
      /\ r.cancelFunc = dl[d].cancelFunc /\ r.abandoned = dl[d].abandoned
  BY DEF NewDownload
<1> HIDE DEF r
<1>4. dl'[d] = r /\ Only(d)
  BY <1>2, DownloadTypes DEF Only
<1>5. GoesOn(d)
  BY <1>3, <1>4 DEF GoesOn
<1> QED
  BY <1>1, <1>4, <1>5, GoOnAlone

LEMMA RunStartRefs ==
  ASSUME IInv, IInv', RefsInv, NEW d \in Clients, RunStart(d)
  PROVE  RefsInv'
<1>1. CallsKept
  BY SameCallsKept DEF RunStart
<1>2. Only(d) /\ GoesOn(d)
  BY DownloadTypes DEF RunStart, Only, GoesOn, Phase, Download
<1> QED
  BY <1>1, <1>2, GoOnAlone

LEMMA RunOpenRefs ==
  ASSUME IInv, IInv', RefsInv, NEW d \in Clients, RunOpen(d)
  PROVE  RefsInv'
<1>1. CallsKept
  BY SameCallsKept DEF RunOpen
<1>2. Only(d) /\ GoesOn(d)
  BY DownloadTypes DEF RunOpen, Enter, Only, GoesOn, Phase, Download
<1> QED
  BY <1>1, <1>2, GoOnAlone

LEMMA RunCloseRefs ==
  ASSUME IInv, IInv', RefsInv, NEW d \in Clients, RunClose(d)
  PROVE  RefsInv'
<1>1. CallsKept
  BY SameCallsKept DEF RunClose
<1>2. Only(d) /\ GoesOn(d)
  BY DownloadTypes DEF RunClose, Enter, Only, GoesOn, Phase, Download
<1> QED
  BY <1>1, <1>2, GoOnAlone

LEMMA RunDirectRefs ==
  ASSUME IInv, IInv', RefsInv, NEW d \in Clients, RunDirect(d)
  PROVE  RefsInv'
<1>1. CallsKept
  BY SameCallsKept DEF RunDirect
<1> DEFINE ws == [i \in DOMAIN dl[d].parts |->
                    Ended(IF Remaining(d, i) = 0 THEN "done" ELSE "recv")]
<1>2. \A i \in DOMAIN ws : ws[i].pc # "failed"
  BY DEF Ended
<1>3. dl' = [dl EXCEPT ![d].phase = "fetch", ![d].work = ws]
  BY DEF RunDirect
<1> HIDE DEF ws
<1>4. Only(d) /\ GoesOn(d)
  BY <1>2, <1>3, DownloadTypes DEF Only, GoesOn, Download
<1> QED
  BY <1>1, <1>4, GoOnAlone

LEMMA RunRefs ==
  ASSUME IInv, IInv', RefsInv, NEW d \in Clients, Run(d)
  PROVE  RefsInv'
<1>1. CASE RunStart(d) \/ RunOpen(d) \/ RunDirect(d) \/ RunClose(d)
  BY <1>1, RunStartRefs, RunOpenRefs, RunDirectRefs, RunCloseRefs
<1>2. CASE RunFails(d)
  <2>1. dl[d].cancelFunc = "called" => dl[d].abandoned
    BY DEF RefsInv, CancelMeansAbandoned
  <2> QED
    BY <1>2, <2>1, FinishRefs, DownloadAssumption DEF RunFails
<1>3. CASE RunFetched(d)
  <2>1. dl[d].err \in {None, "err", "canceled"}
    BY DownloadTypes DEF Download
  <2>2. CASE dl[d].err # None
    BY <1>3, <2>1, <2>2, FinishRefs DEF RunFetched
  <2>3. CASE dl[d].err = None
    <3>1. dl' = [dl EXCEPT ![d].phase = "remove"] /\ UNCHANGED call
      BY <1>3, <2>3 DEF RunFetched, Enter
    <3>2. Only(d) /\ GoesOn(d)
      BY <3>1, DownloadTypes DEF Only, GoesOn, Download
    <3> QED
      BY <3>1, <3>2, SameCallsKept, GoOnAlone
  <2> QED
    BY <2>2, <2>3
<1>4. CASE RunRemove(d)
  <2>1. CASE partFile[dl[d].at] = None
    BY <1>4, <2>1, FinishRefs DEF RunRemove
  <2>2. CASE partFile[dl[d].at] # None
    <3>1. /\ dl' = [dl EXCEPT ![d].at = @ + 1]
          /\ dl[d].phase = "remove" /\ UNCHANGED call
      BY <1>4, <2>2 DEF RunRemove, Phase
    <3>2. Only(d) /\ GoesOn(d)
      BY <3>1, DownloadTypes DEF Only, GoesOn, Download
    <3> QED
      BY <3>1, <3>2, SameCallsKept, GoOnAlone
  <2> QED
    BY <2>1, <2>2
<1>5. CASE RunRename(d)
  BY <1>5, FinishRefs, DownloadAssumption DEF RunRename
<1> QED
  BY <1>1, <1>2, <1>3, <1>4, <1>5 DEF Run

-----------------------------------------------------------------------------
(* downloadChunk *)

\* One part goes on or ends, and the errgroup remembers the first error.
LEMMA ChunkGoesOn ==
  ASSUME IInv, IInv', RefsInv, NEW d \in Clients, UNCHANGED call, Phase(d) = "fetch", Only(d),
         dl'[d].references = dl[d].references, dl'[d].abandoned = dl[d].abandoned,
         dl'[d].cancelFunc = dl[d].cancelFunc,
         NEW i \in DOMAIN dl[d].work,
         DOMAIN dl'[d].work = DOMAIN dl[d].work,
         \A j \in DOMAIN dl[d].work : j # i => dl'[d].work[j] = dl[d].work[j],
         dl[d].err # None => dl'[d].err = dl[d].err,
         dl'[d].work[i].pc = "failed" => dl'[d].err # None,
         dl'[d].err = "canceled" => dl[d].err = "canceled" \/ InnerDone(d)
  PROVE  RefsInv'
<1>1. (\E j \in DOMAIN dl[d].work : dl[d].work[j].pc = "failed") => dl[d].err # None
  BY DEF RefsInv, ErrorKept
<1>2. dl[d].cancelFunc = "called" => dl[d].abandoned
  BY DEF RefsInv, CancelMeansAbandoned
<1>3. dl'[d].err = "canceled" => dl[d].err = "canceled" \/ dl[d].abandoned
  BY <1>1, <1>2 DEF InnerDone
<1>4. (\E j \in DOMAIN dl'[d].work : dl'[d].work[j].pc = "failed") => dl'[d].err # None
  <2> SUFFICES ASSUME NEW j \in DOMAIN dl[d].work, dl'[d].work[j].pc = "failed"
               PROVE  dl'[d].err # None
    OBVIOUS
  <2>1. CASE j = i
    BY <2>1
  <2>2. CASE j # i
    <3>1. dl[d].work[j].pc = "failed"
      BY <2>2
    <3> QED
      BY <1>1, <3>1
  <2> QED
    BY <2>1, <2>2
<1>5. GoesOn(d)
  BY <1>3, <1>4 DEF GoesOn
<1> QED
  BY <1>5, SameCallsKept, GoOnAlone

\* What a step of part i that leaves its goroutine in w gives.
LEMMA WorkOfStep ==
  ASSUME IInv, NEW d \in Clients, NEW i \in DOMAIN dl[d].work, NEW w,
         NEW ws, ws = [dl[d].work EXCEPT ![i] = w]
  PROVE  /\ DOMAIN ws = DOMAIN dl[d].work
         /\ ws[i] = w
         /\ \A j \in DOMAIN dl[d].work : j # i => ws[j] = dl[d].work[j]
BY DownloadTypes DEF Download

LEMMA EndKeepingRefs ==
  ASSUME IInv, IInv', RefsInv, NEW d \in Clients, NEW i \in DOMAIN dl[d].work,
         InChunk(d, i), NEW w, NEW e, EndKeeping(d, i, w, e),
         e = None => w.pc # "failed", e = "canceled" => InnerDone(d)
  PROVE  RefsInv'
<1> DEFINE f  == IF e = None THEN "err" ELSE e
           x  == IF dl[d].err = None /\ w.pc = "failed" THEN f ELSE dl[d].err
           ws == [dl[d].work EXCEPT ![i] = w]
           p  == Kept(d, i)
           y  == IF dl[d].err = None /\ w.pc = "failed" THEN e ELSE dl[d].err
<1>0. x = y
  OBVIOUS
<1>1. dl' = [dl EXCEPT ![d].parts[i] = p, ![d].work[i] = w, ![d].err = y]
  BY DEF EndKeeping
<1> HIDE DEF p, y, f, x
<1>2. /\ Only(d)
      /\ dl'[d].references = dl[d].references /\ dl'[d].abandoned = dl[d].abandoned
      /\ dl'[d].cancelFunc = dl[d].cancelFunc /\ dl'[d].work = ws /\ dl'[d].err = x
  <2>1. dl[d] \in Download
    BY DownloadTypes
  <2>2. Only(d)
    BY <1>1, DownloadTypes DEF Only
  <2>3. dl'[d] = [[[dl[d] EXCEPT !.parts[i] = p] EXCEPT !.work[i] = w] EXCEPT !.err = y]
    BY <1>1, DownloadTypes
  <2> QED
    BY <1>0, <2>1, <2>2, <2>3 DEF Download
<1> USE DEF f, x
<1>3. Phase(d) = "fetch" /\ UNCHANGED call
  BY DEF EndKeeping, InChunk
<1>4. f # None /\ (f = "canceled" => InnerDone(d))
  BY DownloadAssumption
<1>5. /\ DOMAIN ws = DOMAIN dl[d].work /\ ws[i] = w
      /\ \A j \in DOMAIN dl[d].work : j # i => ws[j] = dl[d].work[j]
  BY WorkOfStep
<1>6. /\ dl[d].err # None => x = dl[d].err
      /\ w.pc = "failed" => x # None
      /\ x = "canceled" => dl[d].err = "canceled" \/ InnerDone(d)
  BY <1>4
<1> HIDE DEF f, ws, x
<1> QED
  BY <1>2, <1>3, <1>5, <1>6, ChunkGoesOn

LEMMA ChunkEndRefs ==
  ASSUME IInv, IInv', RefsInv, NEW d \in Clients, NEW i \in DOMAIN dl[d].work,
         ChunkDone(d, i) \/ ChunkCut(d, i) \/ ChunkStalled(d, i) \/ ChunkCanceled(d, i)
  PROVE  RefsInv'
<1>1. CASE ChunkDone(d, i)
  BY <1>1, EndKeepingRefs, DownloadAssumption DEF ChunkDone, Ended
<1>2. CASE ChunkCut(d, i)
  BY <1>2, EndKeepingRefs, DownloadAssumption DEF ChunkCut
<1>3. CASE ChunkStalled(d, i)
  <2>1. InChunk(d, i) /\ EndKeeping(d, i, Stalled(dl[d].work[i]), None)
    BY <1>3 DEF ChunkStalled
  <2>2. dl[d].work[i] \in AnyWork /\ dl[d].work[i].pc = "recv"
    BY <2>1, ChunkTypes DEF InChunk
  <2>3. Stalled(dl[d].work[i]).pc = "recv"
    BY <2>2 DEF Stalled, AnyWork
  <2> QED
    BY <2>1, <2>3, EndKeepingRefs, DownloadAssumption
<1>4. CASE ChunkCanceled(d, i)
  BY <1>4, EndKeepingRefs, DownloadAssumption DEF ChunkCanceled
<1> QED
  BY <1>1, <1>2, <1>3, <1>4

LEMMA ChunkReceiveRefs ==
  ASSUME IInv, IInv', RefsInv, NEW d \in Clients, NEW i \in DOMAIN dl[d].work,
         ChunkReceive(d, i)
  PROVE  RefsInv'
<1> DEFINE w  == Heard(dl[d].work[i])
           ws == [dl[d].work EXCEPT ![i] = w]
           k  == dl[d].completed + 1
<1>1. InChunk(d, i) /\ Phase(d) = "fetch" /\ UNCHANGED call
  BY DEF ChunkReceive, InChunk
<1>2. dl[d].work[i] \in AnyWork /\ dl[d].work[i].pc = "recv"
  BY <1>1, ChunkTypes DEF InChunk
<1>3. w.pc = "recv"
  BY <1>2 DEF Heard, AnyWork
<1>4. dl' = [dl EXCEPT ![d] = [dl[d] EXCEPT !.work = ws, !.completed = k]]
  BY DownloadTypes DEF ChunkReceive, Download
<1> HIDE DEF w, k
<1>5. /\ Only(d)
      /\ dl'[d].references = dl[d].references /\ dl'[d].abandoned = dl[d].abandoned
      /\ dl'[d].cancelFunc = dl[d].cancelFunc /\ dl'[d].work = ws
      /\ dl'[d].err = IF dl[d].err = None /\ w.pc = "failed" THEN "err" ELSE dl[d].err
  BY <1>3, <1>4, DownloadTypes DEF Only, Download
<1>6. /\ DOMAIN ws = DOMAIN dl[d].work /\ ws[i] = w
      /\ \A j \in DOMAIN dl[d].work : j # i => ws[j] = dl[d].work[j]
  BY WorkOfStep
<1> HIDE DEF ws
<1> QED
  BY <1>1, <1>3, <1>5, <1>6, ChunkGoesOn

LEMMA ChunkErrorRefs ==
  ASSUME IInv, IInv', RefsInv, NEW d \in Clients, NEW i \in DOMAIN dl[d].work,
         ChunkError(d, i)
  PROVE  RefsInv'
<1> DEFINE w  == Counted(dl[d].work[i])
           x  == IF dl[d].err = None /\ w.pc = "failed" THEN "err" ELSE dl[d].err
           ws == [dl[d].work EXCEPT ![i] = w]
           k  == RolledBack(d, i)
<1>1. Phase(d) = "fetch" /\ UNCHANGED call
  BY DEF ChunkError, InChunk
<1>2. dl' = [dl EXCEPT ![d] = [dl[d] EXCEPT !.completed = k, !.work = ws, !.err = x]]
  BY DownloadTypes DEF ChunkError, Download
<1> HIDE DEF w, k
<1>3. /\ Only(d)
      /\ dl'[d].references = dl[d].references /\ dl'[d].abandoned = dl[d].abandoned
      /\ dl'[d].cancelFunc = dl[d].cancelFunc /\ dl'[d].work = ws /\ dl'[d].err = x
  BY <1>2, DownloadTypes DEF Only, Download
<1>4. /\ DOMAIN ws = DOMAIN dl[d].work /\ ws[i] = w
      /\ \A j \in DOMAIN dl[d].work : j # i => ws[j] = dl[d].work[j]
  BY WorkOfStep
<1>5. /\ dl[d].err # None => x = dl[d].err
      /\ w.pc = "failed" => x # None
      /\ x = "canceled" => dl[d].err = "canceled"
  BY DownloadAssumption
<1> HIDE DEF ws, x
<1> QED
  BY <1>1, <1>3, <1>4, <1>5, ChunkGoesOn

LEMMA ChunkNoSpaceRefs ==
  ASSUME IInv, IInv', RefsInv, NEW d \in Clients, NEW i \in DOMAIN dl[d].work,
         ChunkNoSpace(d, i)
  PROVE  RefsInv'
<1> DEFINE w  == Ended("failed")
           x  == IF dl[d].err = None /\ w.pc = "failed" THEN "err" ELSE dl[d].err
           ws == [dl[d].work EXCEPT ![i] = w]
           k  == 1 + RolledBack(d, i)
<1>1. Phase(d) = "fetch" /\ UNCHANGED call
  BY DEF ChunkNoSpace, InChunk
<1>2. dl' = [dl EXCEPT ![d] = [dl[d] EXCEPT !.completed = k, !.work = ws, !.err = x]]
  BY DownloadTypes DEF ChunkNoSpace, Download, Ended
<1> HIDE DEF w, k
<1>3. /\ Only(d)
      /\ dl'[d].references = dl[d].references /\ dl'[d].abandoned = dl[d].abandoned
      /\ dl'[d].cancelFunc = dl[d].cancelFunc /\ dl'[d].work = ws /\ dl'[d].err = x
  BY <1>2, DownloadTypes DEF Only, Download
<1>4. /\ DOMAIN ws = DOMAIN dl[d].work /\ ws[i] = w
      /\ \A j \in DOMAIN dl[d].work : j # i => ws[j] = dl[d].work[j]
  BY WorkOfStep
<1>5. /\ dl[d].err # None => x = dl[d].err
      /\ w.pc = "failed" => x # None
      /\ x = "canceled" => dl[d].err = "canceled"
  BY DownloadAssumption
<1> HIDE DEF ws, x
<1> QED
  BY <1>1, <1>3, <1>4, <1>5, ChunkGoesOn

LEMMA ChunkPartNoSpaceRefs ==
  ASSUME IInv, IInv', RefsInv, NEW d \in Clients, NEW i \in DOMAIN dl[d].work,
         ChunkPartNoSpace(d, i)
  PROVE  RefsInv'
<1> DEFINE w  == Ended("failed")
           x  == IF dl[d].err = None /\ w.pc = "failed" THEN "err" ELSE dl[d].err
           ws == [dl[d].work EXCEPT ![i] = w]
           ps == [dl[d].parts EXCEPT ![i] = Kept(d, i)]
<1>1. Phase(d) = "fetch" /\ UNCHANGED call
  BY DEF ChunkPartNoSpace, InChunk
<1>2. dl' = [dl EXCEPT ![d] = [dl[d] EXCEPT !.parts = ps, !.work = ws, !.err = x]]
  <2> DEFINE p == Kept(d, i)
             y == IF dl[d].err = None THEN "err" ELSE dl[d].err
  <2>1. dl' = [dl EXCEPT ![d].parts[i] = p, ![d].work[i] = w, ![d].err = y]
    BY DEF ChunkPartNoSpace
  <2>2. x = y /\ ps = [dl[d].parts EXCEPT ![i] = p]
    BY DEF Ended
  <2> HIDE DEF p, y, x, ps, w
  <2> QED
    BY <2>1, <2>2, DownloadTypes DEF Download
<1> HIDE DEF w, ps
<1>3. /\ Only(d)
      /\ dl'[d].references = dl[d].references /\ dl'[d].abandoned = dl[d].abandoned
      /\ dl'[d].cancelFunc = dl[d].cancelFunc /\ dl'[d].work = ws /\ dl'[d].err = x
  BY <1>2, DownloadTypes DEF Only, Download
<1>4. /\ DOMAIN ws = DOMAIN dl[d].work /\ ws[i] = w
      /\ \A j \in DOMAIN dl[d].work : j # i => ws[j] = dl[d].work[j]
  BY WorkOfStep
<1>5. /\ dl[d].err # None => x = dl[d].err
      /\ w.pc = "failed" => x # None
      /\ x = "canceled" => dl[d].err = "canceled"
  BY DownloadAssumption
<1> HIDE DEF ws, x
<1> QED
  BY <1>1, <1>3, <1>4, <1>5, ChunkGoesOn

LEMMA ChunkRefs ==
  ASSUME IInv, IInv', RefsInv, NEW d \in Clients, NEW i \in DOMAIN dl[d].work, Chunk(d, i)
  PROVE  RefsInv'
BY ChunkEndRefs, ChunkReceiveRefs, ChunkErrorRefs, ChunkNoSpaceRefs, ChunkPartNoSpaceRefs
DEF Chunk

-----------------------------------------------------------------------------
(* Those who come and go. *)

LEMMA AcquireRefs ==
  ASSUME IInv, IInv', RefsInv, NEW c \in Clients, Acquire(c)
  PROVE  RefsInv'
<1> USE DEF RefsInv
<1>1. PICK d \in Clients : d = call[c].download
  BY DEF Acquire, IInv, CallsHaveDownloads
<1>2. /\ call[c].pc = "join"
      /\ dl' = [dl EXCEPT ![d].references = @ + 1]
      /\ call' = [call EXCEPT ![c].pc = "wait", ![c].late = dl[d].abandoned]
  BY <1>1 DEF Acquire
<1>3. /\ call'[c].pc = "wait" /\ call'[c].late = dl[d].abandoned
      /\ call'[c].download = d /\ call'[c].told = call[c].told
      /\ \A x \in Clients \ {c} : call'[x] = call[x]
  BY <1>1, <1>2, DownloadTypes DEF Call
<1>4. /\ dl'[d].references = dl[d].references + 1
      /\ dl'[d].phase = dl[d].phase /\ dl'[d].cancelFunc = dl[d].cancelFunc
      /\ dl'[d].err = dl[d].err /\ dl'[d].work = dl[d].work
      /\ dl'[d].abandoned = dl[d].abandoned
      /\ \A x \in Clients \ {d} : dl'[x] = dl[x]
  BY <1>2, DownloadTypes DEF Download
<1>5. c \notin Waiters(d) /\ Waiters(d)' = Waiters(d) \cup {c}
  BY <1>2, <1>3 DEF Waiters
<1>6. \A x \in Clients \ {d} : Waiters(x)' = Waiters(x)
  BY <1>2, <1>3 DEF Waiters
<1>7. CountExact'
  <2>1. Cardinality(Waiters(d)') = Cardinality(Waiters(d)) + 1
    BY <1>5, WaitersFinite, FS_AddElement
  <2> QED
    BY <1>4, <1>6, <2>1 DEF CountExact
<1>8. CancelMeansAbandoned'
  <2>1. \A x \in Clients : dl[x].abandoned => dl'[x].abandoned
    BY <1>4
  <2>2. \A x \in Clients : dl'[x].cancelFunc = "called" => dl'[x].abandoned
    BY <1>4, <2>1 DEF CancelMeansAbandoned
  <2>3. ASSUME NEW x \in Clients, call'[x].pc = "release"
        PROVE  dl'[call'[x].download].abandoned
    <3>1. CASE x = c
      BY <1>3, <1>4, <2>3, <3>1
    <3>2. CASE x # c
      <4>1. call[x].pc = "release" /\ call[x].download \in Clients
            /\ call'[x].download = call[x].download
        BY <1>3, <2>3, <3>2 DEF IInv, CallsHaveDownloads
      <4> QED
        BY <2>1, <4>1 DEF CancelMeansAbandoned
    <3> QED
      BY <3>1, <3>2
  <2> QED
    BY <2>2, <2>3 DEF CancelMeansAbandoned
<1>9. WaitersLate'
  BY <1>3, <1>4, <1>5, <1>6 DEF WaitersLate, Waiters
<1>10. ErrorKept'
  BY <1>4 DEF ErrorKept, Phase
<1>11. CanceledOnlyIfAbandoned'
  <2>1. call[c].told = None
    BY <1>2 DEF IInv, NotToldYet
  <2> QED
    BY <1>3, <2>1, DownloadAssumption DEF CanceledOnlyIfAbandoned
<1> QED
  BY <1>7, <1>8, <1>9, <1>10, <1>11

LEMMA LeaveRefs ==
  ASSUME IInv, IInv', RefsInv, NEW c \in Clients, call[c].pc = "wait", NEW result,
         result = "canceled" => call[c].late, Leave(c, result)
  PROVE  RefsInv'
<1> USE DEF RefsInv
<1>1. PICK d \in Clients : d = call[c].download
  BY DEF IInv, CallsHaveDownloads
<1> DEFINE last == dl[d].references = 1
           p == IF last THEN "release" ELSE "told"
           b == dl[d].abandoned \/ last
<1>2. /\ dl' = [dl EXCEPT ![d].references = @ - 1, ![d].abandoned = b]
      /\ call' = [call EXCEPT ![c].told = result, ![c].pc = p]
  BY <1>1 DEF Leave, LastReference
<1>p. p # "wait" /\ (p = "release" => b)
  OBVIOUS
<1>l. b = (dl[d].abandoned \/ last)
  OBVIOUS
<1> HIDE DEF p, b
<1>3. /\ call'[c].pc = p /\ call'[c].late = call[c].late
      /\ call'[c].download = d /\ call'[c].told = result
      /\ \A x \in Clients \ {c} : call'[x] = call[x]
  BY <1>1, <1>2, DownloadTypes DEF Call
<1>4. /\ dl'[d].references = dl[d].references - 1
      /\ dl'[d].phase = dl[d].phase /\ dl'[d].cancelFunc = dl[d].cancelFunc
      /\ dl'[d].err = dl[d].err /\ dl'[d].work = dl[d].work
      /\ dl'[d].abandoned = b
      /\ \A x \in Clients \ {d} : dl'[x] = dl[x]
  BY <1>2, DownloadTypes DEF Download
<1>5. c \in Waiters(d) /\ Waiters(d)' = Waiters(d) \ {c}
  BY <1>1, <1>3, <1>p DEF Waiters
<1>6. \A x \in Clients \ {d} : Waiters(x)' = Waiters(x)
  BY <1>1, <1>3, <1>p DEF Waiters
<1>c. Cardinality(Waiters(d)') = Cardinality(Waiters(d)) - 1
  BY <1>5, WaitersFinite, FS_RemoveElement
<1>7. CountExact'
  BY <1>4, <1>6, <1>c DEF CountExact
<1>8. CancelMeansAbandoned'
  <2>1. \A x \in Clients : dl[x].abandoned => dl'[x].abandoned
    BY <1>4, <1>p, <1>l
  <2>2. \A x \in Clients : dl'[x].cancelFunc = "called" => dl'[x].abandoned
    BY <1>4, <1>p, <1>l, <2>1 DEF CancelMeansAbandoned
  <2>3. ASSUME NEW x \in Clients, call'[x].pc = "release"
        PROVE  dl'[call'[x].download].abandoned
    <3>1. CASE x = c
      BY <1>3, <1>4, <1>p, <1>l, <2>3, <3>1
    <3>2. CASE x # c
      <4>1. call[x].pc = "release" /\ call[x].download \in Clients
            /\ call'[x].download = call[x].download
        BY <1>3, <2>3, <3>2 DEF IInv, CallsHaveDownloads
      <4> QED
        BY <2>1, <4>1 DEF CancelMeansAbandoned
    <3> QED
      BY <3>1, <3>2
  <2> QED
    BY <2>2, <2>3 DEF CancelMeansAbandoned
<1>9. WaitersLate'
  <2>1. last => Waiters(d)' = {}
    <3> HAVE last
    <3>1. Cardinality(Waiters(d)) = 1
      BY DEF CountExact
    <3>2. PICK x : Waiters(d) = {x}
      BY <3>1, WaitersFinite, FS_Singleton
    <3> QED
      BY <1>5, <3>2
  <2>2. dl[d].abandoned => \A x \in Waiters(d)' : call'[x].late
    BY <1>3, <1>5 DEF WaitersLate, Waiters
  <2>3. b => \A x \in Waiters(d)' : call'[x].late
    BY <1>l, <2>1, <2>2
  <2>4. \A y \in Clients \ {d} : dl'[y].abandoned => \A x \in Waiters(y)' : call'[x].late
    BY <1>3, <1>4, <1>6 DEF WaitersLate, Waiters
  <2> QED
    BY <1>4, <2>3, <2>4 DEF WaitersLate
<1>10. ErrorKept'
  <2>1. \A x \in Clients : /\ dl'[x].phase = dl[x].phase /\ dl'[x].work = dl[x].work
                           /\ dl'[x].err = dl[x].err
                           /\ dl[x].abandoned => dl'[x].abandoned
    BY <1>4, <1>l
  <2> QED
    BY <2>1 DEF ErrorKept, Phase
<1>11. CanceledOnlyIfAbandoned'
  BY <1>3 DEF CanceledOnlyIfAbandoned
<1> QED
  BY <1>7, <1>8, <1>9, <1>10, <1>11

LEMMA WaitDoneRefs ==
  ASSUME IInv, IInv', RefsInv, NEW c \in Clients, WaitDone(c)
  PROVE  RefsInv'
<1>1. PICK d \in Clients : d = call[c].download
  BY DEF WaitDone, IInv, CallsHaveDownloads
<1>2. call[c].pc = "wait" /\ Leave(c, IF dl[d].err = None THEN "ok" ELSE dl[d].err)
  BY <1>1 DEF WaitDone
<1>3. dl[d].err = "canceled" => call[c].late
  BY <1>1, <1>2 DEF RefsInv, ErrorKept, WaitersLate, Waiters
<1> QED
  BY <1>2, <1>3, LeaveRefs

LEMMA WaitCtxDoneRefs ==
  ASSUME IInv, IInv', RefsInv, NEW c \in Clients, WaitCtxDone(c)
  PROVE  RefsInv'
BY LeaveRefs DEF WaitCtxDone

LEMMA CancelRefs ==
  ASSUME IInv, IInv', RefsInv, NEW c \in Clients, Cancel(c)
  PROVE  RefsInv'
<1> USE DEF RefsInv
<1>1. PICK d \in Clients : d = call[c].download
  BY DEF Cancel, IInv, CallsHaveDownloads
<1>2. /\ call[c].pc = "release"
      /\ dl' = [dl EXCEPT ![d].cancelFunc = "called"]
      /\ call' = [call EXCEPT ![c].pc = "told"]
  BY <1>1 DEF Cancel
<1>3. /\ call'[c].pc = "told" /\ call'[c].late = call[c].late
      /\ call'[c].told = call[c].told
      /\ \A x \in Clients \ {c} : call'[x] = call[x]
  BY <1>2, DownloadTypes DEF Call
<1>4. /\ dl'[d].references = dl[d].references
      /\ dl'[d].phase = dl[d].phase /\ dl'[d].err = dl[d].err
      /\ dl'[d].work = dl[d].work /\ dl'[d].abandoned = dl[d].abandoned
      /\ \A x \in Clients \ {d} : dl'[x] = dl[x]
  BY <1>2, DownloadTypes DEF Download
<1>5. dl[d].abandoned
  BY <1>1, <1>2 DEF CancelMeansAbandoned
<1>6. \A x \in Clients : Waiters(x)' = Waiters(x)
  BY <1>2, <1>3 DEF Waiters
<1>7. CountExact'
  BY <1>4, <1>6 DEF CountExact
<1>8. CancelMeansAbandoned'
  <2>1. \A x \in Clients : dl[x].abandoned => dl'[x].abandoned
    BY <1>4, <1>5
  <2>2. \A x \in Clients : dl'[x].cancelFunc = "called" => dl'[x].abandoned
    BY <1>4, <1>5, <2>1 DEF CancelMeansAbandoned
  <2>3. ASSUME NEW x \in Clients, call'[x].pc = "release"
        PROVE  dl'[call'[x].download].abandoned
    <3>1. CASE x = c
      BY <1>3, <1>4, <1>5, <2>3, <3>1
    <3>2. CASE x # c
      <4>1. call[x].pc = "release" /\ call[x].download \in Clients
            /\ call'[x].download = call[x].download
        BY <1>3, <2>3, <3>2 DEF IInv, CallsHaveDownloads
      <4> QED
        BY <2>1, <4>1 DEF CancelMeansAbandoned
    <3> QED
      BY <3>1, <3>2
  <2> QED
    BY <2>2, <2>3 DEF CancelMeansAbandoned
<1>9. WaitersLate'
  BY <1>3, <1>4, <1>6 DEF WaitersLate, Waiters
<1>10. ErrorKept'
  BY <1>4 DEF ErrorKept, Phase
<1>11. CanceledOnlyIfAbandoned'
  BY <1>3 DEF CanceledOnlyIfAbandoned
<1> QED
  BY <1>7, <1>8, <1>9, <1>10, <1>11

LEMMA RestartRefs ==
  ASSUME IInv, IInv', RefsInv, NEW T, NEW K, NEW dataToo, Restart(T, K, dataToo)
  PROVE  RefsInv'
<1>1. \A d \in Clients : /\ dl'[d].references = 0 /\ dl'[d].phase = "none"
                         /\ dl'[d].cancelFunc = "nil" /\ dl'[d].err = None
                         /\ dl'[d].abandoned = FALSE
  BY DEF Restart, NewDownload
<1>2. \A c \in Clients : /\ call'[c].pc \in {"start", "told"}
                         /\ call'[c].late = call[c].late
                         /\ call'[c].told = call[c].told \/ call'[c].told = "lost"
  BY DownloadTypes DEF Restart, InFlight, Call
<1>3. \A d \in Clients : Waiters(d)' = {}
  BY <1>2 DEF Waiters
<1>4. CountExact'
  BY <1>1, <1>3, FS_EmptySet DEF CountExact
<1>5. CanceledOnlyIfAbandoned'
  BY <1>2 DEF RefsInv, CanceledOnlyIfAbandoned
<1> QED
  BY <1>1, <1>2, <1>3, <1>4, <1>5, DownloadAssumption
  DEF RefsInv, CancelMeansAbandoned, WaitersLate, ErrorKept, Phase

LEMMA RefsStep == IInv /\ IInv' /\ RefsInv /\ [Next]_vars => RefsInv'
<1> SUFFICES ASSUME IInv, IInv', RefsInv, [Next]_vars PROVE RefsInv'
  OBVIOUS
<1>1. ASSUME NEW c \in Clients, Client(c) PROVE RefsInv'
  BY <1>1, StatRefs, LoadOrStoreRefs, AcquireRefs, WaitDoneRefs, CancelRefs, RestartRefs
  DEF Client, Panic
<1>2. ASSUME NEW c \in Clients, Prepare(c) PROVE RefsInv'
  BY <1>2, PrepareRefs
<1>3. ASSUME NEW d \in Clients, Run(d) PROVE RefsInv'
  BY <1>3, RunRefs
<1>4. ASSUME NEW d \in Clients, NEW i \in DOMAIN dl[d].work, Chunk(d, i) PROVE RefsInv'
  BY <1>4, ChunkRefs
<1>5. ASSUME NEW c \in Clients, WaitCtxDone(c) PROVE RefsInv'
  BY <1>5, WaitCtxDoneRefs
<1>6. CASE Crash
  BY <1>6, RestartRefs DEF Crash
<1>7. CASE UNCHANGED vars
  <2>1. dl' = dl /\ UNCHANGED call
    BY <1>7 DEF vars
  <2> QED
    BY <2>1, SameCallsKept, GoOn DEF IInv
<1> QED
  BY <1>1, <1>2, <1>3, <1>4, <1>5, <1>6, <1>7 DEF Next, Progress, Quiet

\* The reference count of a download is the number of calls that wait for it, so
\* the one that makes it 0 and cancels is the last, for any number of calls that
\* join, give up and are answered in any order.
THEOREM ReferencesCounted == Spec => []CountExact
<1>1. RefsInv => CountExact
  BY DEF RefsInv
<1> QED
  BY Invariant, RefsInit, RefsStep, <1>1, PTL DEF Spec

\* A call that waits is told "context canceled" only if it joined a download that
\* all others had left before: no client can cancel the pull of another.
THEOREM CanceledOnlyIfAbandonedAlways == Spec => []CanceledOnlyIfAbandoned
<1>1. RefsInv => CanceledOnlyIfAbandoned
  BY DEF RefsInv
<1> QED
  BY Invariant, RefsInit, RefsStep, <1>1, PTL DEF Spec


-----------------------------------------------------------------------------
(* Sums.  The running sum of a sequence is a recursive function; what it is  *)
(* at the end is found by giving any function that satisfies the equations.  *)

Running(v) == CHOOSE g : g = [i \in 0 .. Len(v) |-> IF i = 0 THEN 0 ELSE g[i - 1] + v[i]]

Sum(v) == Running(v)[Len(v)]

\* g is the running sum of the first n elements of v.
Runs(g, v, n) == /\ g \in [0 .. n -> Int]
                 /\ g[0] = 0
                 /\ \A i \in 1 .. n : g[i] = g[i - 1] + v[i]

LEMMA RunsOn ==
  ASSUME NEW v \in Seq(Int), NEW n \in Nat, n + 1 <= Len(v), NEW g, Runs(g, v, n)
  PROVE  \E h : Runs(h, v, n + 1)
<1> DEFINE k == n + 1
<1>0. k \in Nat /\ n = k - 1 /\ k # 0 /\ k \in 1 .. Len(v) /\ n \in 0 .. n
  OBVIOUS
<1>1. g[n] + v[k] \in Int
  BY <1>0 DEF Runs
<1>2. PICK x \in Int : x = g[n] + v[k]
  BY <1>1
<1> DEFINE h == [i \in 0 .. k |-> IF i = k THEN x ELSE g[i]]
<1>3. \A i \in 0 .. n : i \in 0 .. k /\ i # k /\ g[i] \in Int
  BY <1>0 DEF Runs
<1>4. \A i \in 0 .. k : i = k \/ i \in 0 .. n
  BY <1>0
<1>5. \A i \in 1 .. n : i \in 0 .. n /\ i - 1 \in 0 .. n
  BY <1>0
<1>6. \A i \in 1 .. k : i = k \/ i \in 1 .. n
  BY <1>0
<1> HIDE DEF k
<1>7. h \in [0 .. k -> Int]
  BY <1>2, <1>3, <1>4
<1>8. \A i \in 0 .. n : h[i] = g[i]
  BY <1>3
<1>9. h[k] = x /\ 0 \in 0 .. n
  BY <1>0
<1> HIDE DEF h
<1>10. h[0] = 0
  BY <1>8, <1>9 DEF Runs
<1>11. \A i \in 1 .. n : h[i] = h[i - 1] + v[i]
  BY <1>5, <1>8 DEF Runs
<1>12. h[k] = h[k - 1] + v[k]
  BY <1>0, <1>2, <1>8, <1>9
<1>13. Runs(h, v, k)
  BY <1>6, <1>7, <1>10, <1>11, <1>12 DEF Runs
<1> QED
  BY <1>13 DEF k

LEMMA SomeRuns ==
  ASSUME NEW v \in Seq(Int)
  PROVE  \E g : Runs(g, v, Len(v))
<1> DEFINE Bad == {n \in 0 .. Len(v) : ~ \E g : Runs(g, v, n)}
<1>1. SUFFICES Bad = {}
  <2>1. Len(v) \in 0 .. Len(v)
    OBVIOUS
  <2> QED
    BY <1>1, <2>1
<1>2. SUFFICES ASSUME Bad # {} PROVE FALSE
  OBVIOUS
<1>3. PICK m \in Bad : \A k \in Bad : m <= k
  <2>1. Bad \in SUBSET Nat
    OBVIOUS
  <2> HIDE DEF Bad
  <2> QED
    BY <1>2, <2>1, LeastNat
<1>4. CASE m = 0
  <2>1. Runs([i \in 0 .. 0 |-> 0], v, 0)
    BY DEF Runs
  <2> QED
    BY <1>4, <2>1
<1>5. CASE m # 0
  <2>1. PICK n \in Nat : m = n + 1
    <3>1. m \in Nat /\ m - 1 \in Nat /\ m = (m - 1) + 1
      BY <1>5
    <3> QED
      BY <3>1
  <2>2. n \in 0 .. Len(v) /\ ~ m <= n
    BY <2>1
  <2>3. PICK g : Runs(g, v, n)
    BY <1>3, <2>2
  <2> QED
    BY <2>1, <2>3, RunsOn
<1> QED
  BY <1>4, <1>5

\* Two functions that satisfy the equations of the running sum are the same.
LEMMA RunsAgree ==
  ASSUME NEW v \in Seq(Int), NEW g, Runs(g, v, Len(v)),
         NEW h, h = [i \in 0 .. Len(v) |-> IF i = 0 THEN 0 ELSE h[i - 1] + v[i]]
  PROVE  h = g
<1> DEFINE Bad == {i \in 0 .. Len(v) : h[i] # g[i]}
<1>0. DOMAIN h = 0 .. Len(v) /\ DOMAIN g = 0 .. Len(v) /\ Len(v) \in Nat
  BY DEF Runs
<1>1. Bad = {}
  <2>1. SUFFICES ASSUME Bad # {} PROVE FALSE
    OBVIOUS
  <2>2. PICK m \in Bad : \A k \in Bad : m <= k
    <3>1. Bad \in SUBSET Nat
      OBVIOUS
    <3> HIDE DEF Bad
    <3> QED
      BY <2>1, <3>1, LeastNat
  <2>3. CASE m = 0
    <3>1. 0 \in 0 .. Len(v)
      BY <1>0
    <3>2. h[0] = 0
      BY <3>1
    <3> QED
      BY <2>3, <3>2 DEF Runs
  <2>4. CASE m # 0
    <3>1. m \in 1 .. Len(v) /\ m \in 0 .. Len(v) /\ m - 1 \in 0 .. Len(v) /\ ~ m <= m - 1
      BY <2>4
    <3>2. h[m - 1] = g[m - 1]
      BY <2>2, <3>1
    <3>3. h[m] = h[m - 1] + v[m]
      BY <2>4, <3>1
    <3>4. g[m] = g[m - 1] + v[m]
      BY <3>1 DEF Runs
    <3> QED
      BY <3>2, <3>3, <3>4
  <2> QED
    BY <2>3, <2>4
<1> QED
  <2>1. \A i \in 0 .. Len(v) : h[i] = g[i]
    BY <1>1
  <2>2. g = [i \in DOMAIN g |-> g[i]] /\ h = [i \in DOMAIN h |-> h[i]]
    BY DEF Runs
  <2> QED
    BY <1>0, <2>1, <2>2

LEMMA SumIs ==
  ASSUME NEW v \in Seq(Int), NEW g, Runs(g, v, Len(v))
  PROVE  Running(v) = g /\ Sum(v) = g[Len(v)] /\ Sum(v) \in Int
<1>1. g = [i \in 0 .. Len(v) |-> IF i = 0 THEN 0 ELSE g[i - 1] + v[i]]
  <2>1. \A i \in 0 .. Len(v) : g[i] = IF i = 0 THEN 0 ELSE g[i - 1] + v[i]
    BY DEF Runs
  <2>2. g = [i \in 0 .. Len(v) |-> g[i]]
    BY DEF Runs
  <2> QED
    BY <2>1, <2>2
<1>2. Running(v) = [i \in 0 .. Len(v) |-> IF i = 0 THEN 0 ELSE Running(v)[i - 1] + v[i]]
  BY <1>1, Zenon DEF Running
<1>3. Running(v) = g
  BY <1>2, RunsAgree
<1>4. g[Len(v)] \in Int
  BY DEF Runs
<1> QED
  BY <1>3, <1>4 DEF Sum


LEMMA SumRuns ==
  ASSUME NEW v \in Seq(Int)
  PROVE  /\ Runs(Running(v), v, Len(v)) /\ Sum(v) \in Int
         /\ Sum(v) = Running(v)[Len(v)]
<1>1. PICK g : Runs(g, v, Len(v))
  BY SomeRuns
<1> QED
  BY <1>1, SumIs

LEMMA SumEmpty == Sum(<<>>) = 0
<1>1. Runs([i \in 0 .. 0 |-> 0], <<>>, 0)
  BY DEF Runs
<1>2. Len(<<>>) = 0 /\ <<>> \in Seq(Int)
  OBVIOUS
<1> QED
  BY <1>1, <1>2, SumIs

LEMMA SumZeros ==
  ASSUME NEW v \in Seq(Int), \A i \in 1 .. Len(v) : v[i] = 0
  PROVE  Sum(v) = 0
<1>1. Runs([i \in 0 .. Len(v) |-> 0], v, Len(v))
  BY DEF Runs
<1>2. Len(v) \in 0 .. Len(v)
  OBVIOUS
<1> QED
  BY <1>1, <1>2, SumIs

LEMMA SumAppend ==
  ASSUME NEW v \in Seq(Int), NEW x \in Int
  PROVE  Sum(Append(v, x)) = Sum(v) + x
<1> DEFINE n == Len(v)
           w == Append(v, x)
           g == Running(v)
<1>1. n \in Nat /\ w \in Seq(Int) /\ Len(w) = n + 1 /\ w[n + 1] = x /\ \A i \in 1 .. n : w[i] = v[i]
  OBVIOUS
<1>2. Runs(g, v, n) /\ Sum(v) = g[n]
  BY SumRuns
<1> HIDE DEF n, w, g
<1>3. Runs(g, w, n)
  BY <1>1, <1>2 DEF Runs
<1>4. PICK h : Runs(h, w, n + 1)
  <2>1. n + 1 <= Len(w)
    BY <1>1
  <2> QED
    BY <1>1, <1>3, <2>1, RunsOn
<1>5. Sum(w) = h[n + 1]
  BY <1>1, <1>4, SumIs
<1>6. h[n + 1] = h[n] + x
  <2>1. n + 1 \in 1 .. n + 1 /\ (n + 1) - 1 = n
    BY <1>1
  <2> QED
    BY <1>1, <1>4, <2>1 DEF Runs
<1>7. Runs([i \in 0 .. n |-> h[i]], v, n)
  <2>1. \A i \in 0 .. n : i \in 0 .. n + 1
    BY <1>1
  <2>2. \A i \in 1 .. n : i \in 1 .. n + 1 /\ i \in 0 .. n /\ i - 1 \in 0 .. n
    BY <1>1
  <2>3. 0 \in 0 .. n
    BY <1>1
  <2> QED
    BY <1>1, <1>4, <2>1, <2>2, <2>3 DEF Runs
<1>8. Sum(v) = h[n]
  <2>1. n \in 0 .. n
    BY <1>1
  <2> QED
    BY <1>7, <2>1, SumIs DEF n
<1> QED
  BY <1>5, <1>6, <1>8 DEF w

LEMMA SumExcept ==
  ASSUME NEW v \in Seq(Int), NEW k \in DOMAIN v, NEW x \in Int
  PROVE  /\ [v EXCEPT ![k] = x] \in Seq(Int)
         /\ Sum([v EXCEPT ![k] = x]) = Sum(v) + (x - v[k])
<1> DEFINE n == Len(v)
           w == [v EXCEPT ![k] = x]
           g == Running(v)
<1>0. PICK c \in Int : c = x - v[k]
  OBVIOUS
<1> DEFINE h == [i \in 0 .. n |-> IF i < k THEN g[i] ELSE g[i] + c]
<1>1. /\ n \in Nat /\ w \in Seq(Int) /\ Len(w) = n /\ k \in 1 .. n /\ w[k] = v[k] + c
      /\ \A i \in 1 .. n : v[i] \in Int /\ (i # k => w[i] = v[i])
  BY <1>0
<1>2. Runs(g, v, n) /\ Sum(v) = g[n]
  BY SumRuns
<1> HIDE DEF n, w, g
<1>3. \A i \in 0 .. n : g[i] \in Int
  BY <1>2 DEF Runs
<1>4. h \in [0 .. n -> Int]
  BY <1>1, <1>3
<1>5. \A i \in 0 .. n : (i < k => h[i] = g[i]) /\ (~ i < k => h[i] = g[i] + c)
  OBVIOUS
<1> HIDE DEF h
<1>6. h[0] = 0
  <2>1. 0 \in 0 .. n /\ 0 < k /\ g[0] = 0
    BY <1>1, <1>2 DEF Runs
  <2> QED
    BY <1>5, <2>1
<1>7. ASSUME NEW i \in 1 .. n PROVE h[i] = h[i - 1] + w[i]
  <2>1. i \in 0 .. n /\ i - 1 \in 0 .. n /\ g[i] = g[i - 1] + v[i]
    BY <1>1, <1>2 DEF Runs
  <2>2. g[i] \in Int /\ g[i - 1] \in Int /\ v[i] \in Int
    BY <1>1, <1>3, <2>1
  <2>3. CASE i < k
    <3>1. i - 1 < k /\ i # k
      BY <1>1, <2>1, <2>3
    <3>2. h[i] = g[i] /\ h[i - 1] = g[i - 1] /\ w[i] = v[i]
      BY <1>1, <1>5, <2>1, <2>3, <3>1
    <3> QED
      BY <2>1, <3>2
  <2>4. CASE i = k
    <3>1. i - 1 < k /\ ~ i < k
      BY <1>1, <2>1, <2>4
    <3>2. h[i] = g[i] + c /\ h[i - 1] = g[i - 1] /\ w[i] = v[i] + c
      BY <1>1, <1>5, <2>1, <2>4, <3>1
    <3> QED
      BY <2>1, <2>2, <3>2
  <2>5. CASE i > k
    <3>0. i \in Nat /\ k \in Nat
      BY <1>1
    <3>1. ~ i - 1 < k /\ ~ i < k /\ i # k
      BY <2>5, <3>0
    <3>2. h[i] = g[i] + c /\ h[i - 1] = g[i - 1] + c /\ w[i] = v[i]
      BY <1>1, <1>5, <2>1, <3>1
    <3> QED
      BY <2>1, <2>2, <3>2
  <2> QED
    BY <1>1, <2>3, <2>4, <2>5
<1>8. Runs(h, w, n)
  BY <1>4, <1>6, <1>7 DEF Runs
<1>9. Sum(w) = h[n]
  BY <1>1, <1>8, SumIs
<1>10. h[n] = g[n] + c
  <2>1. n \in 0 .. n /\ ~ n < k
    BY <1>1
  <2> QED
    BY <1>5, <2>1
<1> QED
  BY <1>0, <1>1, <1>2, <1>9, <1>10 DEF w

LEMMA SumNat ==
  ASSUME NEW v \in Seq(Int), \A i \in 1 .. Len(v) : v[i] >= 0
  PROVE  Sum(v) \in Nat
<1> DEFINE n == Len(v)
           g == Running(v)
           Bad == {i \in 0 .. n : g[i] < 0}
<1>1. Runs(g, v, n) /\ Sum(v) = g[n] /\ n \in Nat /\ \A i \in 1 .. n : v[i] \in Int
  BY SumRuns
<1>2. Bad = {}
  <2>1. SUFFICES ASSUME Bad # {} PROVE FALSE
    OBVIOUS
  <2>2. PICK m \in Bad : \A k \in Bad : m <= k
    <3>1. Bad \in SUBSET Nat
      OBVIOUS
    <3> HIDE DEF Bad
    <3> QED
      BY <2>1, <3>1, LeastNat
  <2> HIDE DEF g, n
  <2>3. m # 0
    BY <1>1, <2>2 DEF Runs
  <2>4. m \in 1 .. n /\ m - 1 \in 0 .. n /\ m \in 0 .. n /\ ~ m <= m - 1
    BY <1>1, <2>2, <2>3
  <2>5. g[m - 1] \in Int /\ g[m - 1] >= 0
    BY <1>1, <2>2, <2>4 DEF Runs
  <2>6. g[m] = g[m - 1] + v[m] /\ v[m] \in Int /\ v[m] >= 0
    BY <1>1, <2>4 DEF Runs, n
  <2> QED
    BY <2>2, <2>5, <2>6
<1> HIDE DEF g, n
<1>3. n \in 0 .. n /\ g[n] \in Int
  BY <1>1 DEF Runs
<1> QED
  BY <1>1, <1>2, <1>3


\* The sums of the progress counter, as sums of sequences of numbers.
CompletedOf(ps) == [i \in DOMAIN ps |-> ps[i].completed]

SizesOf(ps) == [i \in DOMAIN ps |-> ps[i].size]

GotOf(ws) == [i \in DOMAIN ws |-> ws[i].got]

TotalGot(ws) == SumOver(ws, LAMBDA i : ws[i].got)

LEMMA NumbersOf ==
  /\ \A ps \in Seq(AnyPart) :
       /\ CompletedOf(ps) \in Seq(Int) /\ SizesOf(ps) \in Seq(Int)
       /\ Len(CompletedOf(ps)) = Len(ps) /\ Len(SizesOf(ps)) = Len(ps)
       /\ \A i \in DOMAIN ps : /\ CompletedOf(ps)[i] = ps[i].completed /\ ps[i].completed \in Nat
                               /\ SizesOf(ps)[i] = ps[i].size /\ ps[i].size \in Nat
  /\ \A ws \in Seq(AnyWork) :
       /\ GotOf(ws) \in Seq(Int) /\ Len(GotOf(ws)) = Len(ws)
       /\ \A i \in DOMAIN ws : GotOf(ws)[i] = ws[i].got /\ ws[i].got \in Nat
<1>1. ASSUME NEW ps \in Seq(AnyPart)
      PROVE  /\ CompletedOf(ps) \in Seq(Int) /\ SizesOf(ps) \in Seq(Int)
             /\ Len(CompletedOf(ps)) = Len(ps) /\ Len(SizesOf(ps)) = Len(ps)
             /\ \A i \in DOMAIN ps : /\ CompletedOf(ps)[i] = ps[i].completed
                                     /\ ps[i].completed \in Nat
                                     /\ SizesOf(ps)[i] = ps[i].size /\ ps[i].size \in Nat
  <2>1. \A i \in DOMAIN ps : ps[i].completed \in Nat /\ ps[i].size \in Nat
    <3>1. \A i \in DOMAIN ps : ps[i] \in AnyPart
      OBVIOUS
    <3> QED
      BY <3>1 DEF AnyPart
  <2> QED
    BY <2>1 DEF CompletedOf, SizesOf
<1>2. ASSUME NEW ws \in Seq(AnyWork)
      PROVE  /\ GotOf(ws) \in Seq(Int) /\ Len(GotOf(ws)) = Len(ws)
             /\ \A i \in DOMAIN ws : GotOf(ws)[i] = ws[i].got /\ ws[i].got \in Nat
  <2>1. \A i \in DOMAIN ws : ws[i].got \in Nat
    <3>1. \A i \in DOMAIN ws : ws[i] \in AnyWork
      OBVIOUS
    <3> QED
      BY <3>1 DEF AnyWork
  <2> QED
    BY <2>1 DEF GotOf
<1> QED
  BY <1>1, <1>2

LEMMA TotalCompletedIs ==
  ASSUME NEW ps \in Seq(AnyPart)
  PROVE  TotalCompleted(ps) = Sum(CompletedOf(ps))
<1> DEFINE r == CHOOSE h : h = [i \in 0 .. Len(ps) |-> IF i = 0 THEN 0
                                                       ELSE h[i - 1] + ps[i].completed]
           v == CompletedOf(ps)
           g == Running(v)
<1>1. TotalCompleted(ps) = r[Len(ps)]
  BY DEF TotalCompleted, SumOver
<1>2. v \in Seq(Int) /\ Len(v) = Len(ps) /\ \A i \in 1 .. Len(ps) : v[i] = ps[i].completed
  BY NumbersOf
<1>3. Runs(g, v, Len(v)) /\ Sum(v) = g[Len(v)]
  BY <1>2, SumRuns
<1> HIDE DEF v, g
<1>4. g = [i \in 0 .. Len(ps) |-> IF i = 0 THEN 0 ELSE g[i - 1] + ps[i].completed]
  <2>1. \A i \in 0 .. Len(ps) : g[i] = IF i = 0 THEN 0 ELSE g[i - 1] + ps[i].completed
    BY <1>2, <1>3 DEF Runs
  <2>2. g = [i \in 0 .. Len(ps) |-> g[i]]
    BY <1>2, <1>3 DEF Runs
  <2> QED
    BY <2>1, <2>2
<1>5. r = [i \in 0 .. Len(ps) |-> IF i = 0 THEN 0 ELSE r[i - 1] + ps[i].completed]
  BY <1>4, Zenon
<1> HIDE DEF r
<1>6. r = [i \in 0 .. Len(v) |-> IF i = 0 THEN 0 ELSE r[i - 1] + v[i]]
  <2>1. \A i \in 0 .. Len(ps) : i # 0 => i \in 1 .. Len(ps)
    OBVIOUS
  <2> QED
    BY <1>2, <1>5, <2>1
<1>7. r = g
  BY <1>2, <1>3, <1>6, RunsAgree
<1> QED
  BY <1>1, <1>2, <1>3, <1>7 DEF v

LEMMA TotalGotIs ==
  ASSUME NEW ws \in Seq(AnyWork)
  PROVE  TotalGot(ws) = Sum(GotOf(ws))
<1> DEFINE r == CHOOSE h : h = [i \in 0 .. Len(ws) |-> IF i = 0 THEN 0
                                                       ELSE h[i - 1] + ws[i].got]
           v == GotOf(ws)
           g == Running(v)
<1>1. TotalGot(ws) = r[Len(ws)]
  BY DEF TotalGot, SumOver
<1>2. v \in Seq(Int) /\ Len(v) = Len(ws) /\ \A i \in 1 .. Len(ws) : v[i] = ws[i].got
  BY NumbersOf
<1>3. Runs(g, v, Len(v)) /\ Sum(v) = g[Len(v)]
  BY <1>2, SumRuns
<1> HIDE DEF v, g
<1>4. g = [i \in 0 .. Len(ws) |-> IF i = 0 THEN 0 ELSE g[i - 1] + ws[i].got]
  <2>1. \A i \in 0 .. Len(ws) : g[i] = IF i = 0 THEN 0 ELSE g[i - 1] + ws[i].got
    BY <1>2, <1>3 DEF Runs
  <2>2. g = [i \in 0 .. Len(ws) |-> g[i]]
    BY <1>2, <1>3 DEF Runs
  <2> QED
    BY <2>1, <2>2
<1>5. r = [i \in 0 .. Len(ws) |-> IF i = 0 THEN 0 ELSE r[i - 1] + ws[i].got]
  BY <1>4, Zenon
<1> HIDE DEF r
<1>6. r = [i \in 0 .. Len(v) |-> IF i = 0 THEN 0 ELSE r[i - 1] + v[i]]
  <2>1. \A i \in 0 .. Len(ws) : i # 0 => i \in 1 .. Len(ws)
    OBVIOUS
  <2> QED
    BY <1>2, <1>5, <2>1
<1>7. r = g
  BY <1>2, <1>3, <1>6, RunsAgree
<1> QED
  BY <1>1, <1>2, <1>3, <1>7 DEF v

TotalSize(ps) == Sum(SizesOf(ps))

LEMMA TotalsTyped ==
  /\ \A ps \in Seq(AnyPart) : TotalCompleted(ps) \in Nat /\ TotalSize(ps) \in Nat
  /\ \A ws \in Seq(AnyWork) : TotalGot(ws) \in Nat
  /\ TotalCompleted(<<>>) = 0 /\ TotalSize(<<>>) = 0 /\ TotalGot(<<>>) = 0
<1>1. ASSUME NEW ps \in Seq(AnyPart) PROVE TotalCompleted(ps) \in Nat /\ TotalSize(ps) \in Nat
  <2>1. /\ CompletedOf(ps) \in Seq(Int)
        /\ \A i \in 1 .. Len(CompletedOf(ps)) : CompletedOf(ps)[i] >= 0
    BY NumbersOf
  <2>2. SizesOf(ps) \in Seq(Int) /\ \A i \in 1 .. Len(SizesOf(ps)) : SizesOf(ps)[i] >= 0
    BY NumbersOf
  <2>3. Sum(CompletedOf(ps)) \in Nat
    BY <2>1, SumNat
  <2>4. Sum(SizesOf(ps)) \in Nat
    BY <2>2, SumNat
  <2> QED
    BY <2>3, <2>4, TotalCompletedIs DEF TotalSize
<1>2. ASSUME NEW ws \in Seq(AnyWork) PROVE TotalGot(ws) \in Nat
  BY NumbersOf, SumNat, TotalGotIs
<1>3. <<>> \in Seq(AnyPart) /\ <<>> \in Seq(AnyWork)
  OBVIOUS
<1>4. CompletedOf(<<>>) = <<>> /\ SizesOf(<<>>) = <<>> /\ GotOf(<<>>) = <<>>
  BY DEF CompletedOf, SizesOf, GotOf
<1> QED
  BY <1>1, <1>2, <1>3, <1>4, TotalCompletedIs, TotalGotIs, SumEmpty DEF TotalSize

LEMMA TotalsAppend ==
  ASSUME NEW ps \in Seq(AnyPart), NEW p \in AnyPart
  PROVE  /\ TotalCompleted(Append(ps, p)) = TotalCompleted(ps) + p.completed
         /\ TotalSize(Append(ps, p)) = TotalSize(ps) + p.size
<1>1. Append(ps, p) \in Seq(AnyPart)
  OBVIOUS
<1>2. /\ CompletedOf(Append(ps, p)) = Append(CompletedOf(ps), p.completed)
      /\ SizesOf(Append(ps, p)) = Append(SizesOf(ps), p.size)
  BY DEF CompletedOf, SizesOf
<1>3. p.completed \in Int /\ p.size \in Int
  BY DEF AnyPart
<1> QED
  BY <1>1, <1>2, <1>3, NumbersOf, TotalCompletedIs, SumAppend DEF TotalSize

LEMMA TotalsExcept ==
  ASSUME NEW ps \in Seq(AnyPart), NEW i \in DOMAIN ps, NEW p \in AnyPart
  PROVE  /\ TotalCompleted([ps EXCEPT ![i] = p])
              = TotalCompleted(ps) + (p.completed - ps[i].completed)
         /\ p.size = ps[i].size => TotalSize([ps EXCEPT ![i] = p]) = TotalSize(ps)
<1> DEFINE qs == [ps EXCEPT ![i] = p]
<1>1. qs \in Seq(AnyPart) /\ DOMAIN qs = DOMAIN ps /\ qs[i] = p
      /\ \A j \in DOMAIN ps : j # i => qs[j] = ps[j]
  OBVIOUS
<1>2. p.completed \in Int /\ p.size \in Int
  BY DEF AnyPart
<1> HIDE DEF qs
<1>3. CompletedOf(qs) = [CompletedOf(ps) EXCEPT ![i] = p.completed]
  BY <1>1 DEF CompletedOf
<1>4. p.size = ps[i].size => SizesOf(qs) = SizesOf(ps)
  BY <1>1 DEF SizesOf
<1>5. i \in DOMAIN CompletedOf(ps) /\ CompletedOf(ps) \in Seq(Int)
      /\ CompletedOf(ps)[i] = ps[i].completed
  BY NumbersOf DEF CompletedOf
<1>6. Sum(CompletedOf(qs)) = Sum(CompletedOf(ps)) + (p.completed - ps[i].completed)
  <2>1. PICK v \in Seq(Int) : v = CompletedOf(ps)
    BY <1>5
  <2>2. PICK x \in Int : x = p.completed
    BY <1>2
  <2>3. Sum([v EXCEPT ![i] = x]) = Sum(v) + (x - v[i])
    BY <1>5, <2>1, SumExcept
  <2> QED
    BY <1>3, <1>5, <2>1, <2>2, <2>3
<1> QED
  BY <1>1, <1>4, <1>6, TotalCompletedIs DEF TotalSize, qs

LEMMA TotalGotExcept ==
  ASSUME NEW ws \in Seq(AnyWork), NEW i \in DOMAIN ws, NEW w \in AnyWork
  PROVE  TotalGot([ws EXCEPT ![i] = w]) = TotalGot(ws) + (w.got - ws[i].got)
<1> DEFINE qs == [ws EXCEPT ![i] = w]
<1>1. qs \in Seq(AnyWork) /\ DOMAIN qs = DOMAIN ws /\ qs[i] = w
      /\ \A j \in DOMAIN ws : j # i => qs[j] = ws[j]
  OBVIOUS
<1>2. w.got \in Int
  BY DEF AnyWork
<1> HIDE DEF qs
<1>3. GotOf(qs) = [GotOf(ws) EXCEPT ![i] = w.got]
  BY <1>1 DEF GotOf
<1>4. i \in DOMAIN GotOf(ws) /\ GotOf(ws) \in Seq(Int) /\ GotOf(ws)[i] = ws[i].got
  BY NumbersOf DEF GotOf
<1>5. Sum(GotOf(qs)) = Sum(GotOf(ws)) + (w.got - ws[i].got)
  <2>1. PICK v \in Seq(Int) : v = GotOf(ws)
    BY <1>4
  <2>2. PICK x \in Int : x = w.got
    BY <1>2
  <2>3. Sum([v EXCEPT ![i] = x]) = Sum(v) + (x - v[i])
    BY <1>4, <2>1, SumExcept
  <2> QED
    BY <1>3, <1>4, <2>1, <2>2, <2>3
<1> QED
  BY <1>1, <1>5, TotalGotIs DEF qs

LEMMA NothingGot ==
  ASSUME NEW ws \in Seq(AnyWork), \A i \in DOMAIN ws : ws[i].got = 0
  PROVE  TotalGot(ws) = 0
BY NumbersOf, TotalGotIs, SumZeros

LEMMA AllCompleted ==
  ASSUME NEW ps \in Seq(AnyPart), \A i \in DOMAIN ps : ps[i].completed = ps[i].size
  PROVE  TotalCompleted(ps) = TotalSize(ps)
<1>1. CompletedOf(ps) = SizesOf(ps)
  BY DEF CompletedOf, SizesOf
<1> QED
  BY <1>1, TotalCompletedIs DEF TotalSize


-----------------------------------------------------------------------------
(* The progress counter, and the bounds of the other numbers.                *)

\* What the counter of a download r says, where it is.
Tallied(r) ==
  /\ r.phase = "none" => r.completed = 0
  /\ r.phase \in {"prepare", "split", "ready", "open", "direct"} =>
       r.completed = TotalCompleted(r.parts)
  /\ r.phase \in {"fetch", "remove"} =>
       /\ r.completed >= TotalCompleted(r.parts) + TotalGot(r.work)
       /\ r.err = None => r.completed = TotalCompleted(r.parts) + TotalGot(r.work)
  /\ r.phase \in Active \ {"split"} => r.total = TotalSize(r.parts)
  /\ r.phase = "split" => r.at = TotalSize(r.parts)
  /\ r.phase = "remove" => r.completed = r.total

InBounds(r) == /\ r.completed \in Nat
               /\ \A i \in DOMAIN r.parts : r.parts[i].n \in PartNumbers
               /\ \A i \in DOMAIN r.work : r.work[i].try <= MaxRetries

CountersInv == \A d \in Clients : Tallied(dl[d]) /\ InBounds(dl[d])

LEMMA CountersInit == Init => CountersInv
<1> SUFFICES ASSUME Init, NEW d \in Clients PROVE Tallied(dl[d]) /\ InBounds(dl[d])
  BY DEF CountersInv
<1>1. dl[d] = NewDownload
  BY DEF Init
<1> QED
  BY <1>1 DEF NewDownload, Tallied, InBounds, Active

LEMMA NewDownloadTallied == Tallied(NewDownload) /\ InBounds(NewDownload)
BY DEF NewDownload, Tallied, InBounds, Active

\* A step of one download.
LEMMA OneTallied ==
  ASSUME CountersInv, NEW d \in Clients, \A x \in Clients \ {d} : dl'[x] = dl[x],
         Tallied(dl'[d]), InBounds(dl'[d])
  PROVE  CountersInv'
<1>1. \A x \in Clients : Tallied(dl'[x]) /\ InBounds(dl'[x])
  BY DEF CountersInv
<1> QED
  BY <1>1 DEF CountersInv

\* A download that ends, or goes on to a phase that says as much of the counter.
LEMMA PhaseTallied ==
  ASSUME NEW r \in Download, NEW s, Tallied(r), InBounds(r),
         s.parts = r.parts, s.total = r.total, s.completed = r.completed, s.work = r.work,
         s.err = r.err, s.at = r.at \/ s.phase # "split",
         \/ s.phase = r.phase
         \/ s.phase \notin Active \cup {"none"}
         \/ /\ s.phase \in {"ready", "open", "direct"}
            /\ r.phase \in {"prepare", "ready", "open"}
         \/ s.phase = "ready" /\ r.phase = "split" /\ r.at = r.total
  PROVE  Tallied(s) /\ InBounds(s)
<1> USE DEF Tallied, InBounds
<1>1. CASE s.phase = r.phase
  BY <1>1
<1>2. CASE s.phase \notin Active \cup {"none"}
  BY <1>2 DEF Active
<1>3. CASE /\ s.phase \in {"ready", "open", "direct"}
           /\ r.phase \in {"prepare", "ready", "open"}
  BY <1>3 DEF Active
<1>4. CASE s.phase = "ready" /\ r.phase = "split" /\ r.at = r.total
  BY <1>4 DEF Active
<1> QED
  BY <1>1, <1>2, <1>3, <1>4

LEMMA ClientCounters ==
  ASSUME IInv, PartsInv, DataInv, CountersInv, NEW c \in Clients,
         Client(c) \/ WaitCtxDone(c), ~Panic(c)
  PROVE  CountersInv'
<1>1. CASE LoadOrStore(c) /\ manager = None
  <2>1. /\ dl' = [dl EXCEPT ![c].phase = "prepare"] /\ call[c].pc = "lookup"
    BY <1>1 DEF LoadOrStore
  <2>2. /\ dl[c].phase = "none" /\ dl[c].total = 0 /\ dl[c].parts = <<>> /\ dl[c].at = 0
    BY <2>1 DEF DataInv, NotBegun, PartsInv, Fresh, Phase
  <2>3. dl[c].completed = 0 /\ InBounds(dl[c])
    BY <2>2 DEF CountersInv, Tallied
  <2>4. /\ dl'[c].phase = "prepare" /\ dl'[c].total = 0 /\ dl'[c].parts = <<>>
        /\ dl'[c].completed = 0 /\ dl'[c].work = dl[c].work
        /\ \A x \in Clients \ {c} : dl'[x] = dl[x]
    BY <2>1, <2>2, <2>3, Types DEF Download
  <2>5. Tallied(dl'[c]) /\ InBounds(dl'[c])
    BY <2>3, <2>4, TotalsTyped DEF Tallied, InBounds
  <2> QED
    BY <2>4, <2>5, OneTallied
<1>2. CASE ~(LoadOrStore(c) /\ manager = None)
  <2>1. ASSUME NEW d \in Clients
        PROVE  SameView(d) /\ dl'[d].completed = dl[d].completed
    <3>1. CASE UNCHANGED dl
      BY <3>1 DEF SameView
    <3>2. CASE ~UNCHANGED dl
      <4>1. Acquire(c) \/ WaitDone(c) \/ WaitCtxDone(c) \/ Cancel(c)
        BY <1>2, <3>2 DEF Client, Stat, LoadOrStore
      <4>2. PICK x : x = call[c].download
        OBVIOUS
      <4>3. \/ dl' = [dl EXCEPT ![x].references = @ + 1]
            \/ dl' = [dl EXCEPT ![x].references = @ - 1, ![x].abandoned = @ \/ dl[x].references = 1]
            \/ dl' = [dl EXCEPT ![x].cancelFunc = "called"]
        BY <4>1, <4>2 DEF Acquire, WaitDone, WaitCtxDone, Leave, Cancel
      <4>4. CASE d # x
        BY <4>3, <4>4, Types DEF SameView
      <4>5. CASE d = x
        <5>1. PICK y, z, t : \/ dl' = [dl EXCEPT ![d].references = y]
                             \/ dl' = [dl EXCEPT ![d].references = y, ![d].abandoned = z]
                             \/ dl' = [dl EXCEPT ![d].cancelFunc = t]
          BY <4>3, <4>5
        <5>2. dl[d] \in Download /\ DOMAIN dl = Clients
          BY Types
        <5> QED
          BY <5>1, <5>2 DEF SameView, Download
      <4> QED
        BY <4>4, <4>5
    <3> QED
      BY <3>1, <3>2
  <2>2. ASSUME NEW d \in Clients PROVE Tallied(dl'[d]) /\ InBounds(dl'[d])
    <3>1. dl[d] \in Download /\ Tallied(dl[d]) /\ InBounds(dl[d])
      BY Types DEF CountersInv
    <3> QED
      BY <2>1, <3>1, PhaseTallied DEF SameView
  <2> QED
    BY <2>2 DEF CountersInv
<1> QED
  BY <1>1, <1>2

LEMMA RestartCounters ==
  ASSUME NEW T, NEW K, NEW dataToo, Restart(T, K, dataToo)
  PROVE  CountersInv'
<1>1. dl' = [d \in Clients |-> NewDownload]
  BY DEF Restart
<1>2. \A d \in Clients : Tallied(dl'[d]) /\ InBounds(dl'[d])
  BY <1>1, NewDownloadTallied
<1> QED
  BY <1>2 DEF CountersInv

LEMMA PrepareFailsCounters ==
  ASSUME IInv, CountersInv, NEW c \in Clients, PrepareFails(c)
  PROVE  CountersInv'
<1>1. dl' = [dl EXCEPT ![c].phase = "failed"]
  BY DEF PrepareFails
<1>2. dl[c] \in Download /\ Tallied(dl[c]) /\ InBounds(dl[c])
  BY Types DEF CountersInv
<1>3. /\ dl'[c].phase = "failed" /\ dl'[c].parts = dl[c].parts /\ dl'[c].total = dl[c].total
      /\ dl'[c].completed = dl[c].completed /\ dl'[c].work = dl[c].work
      /\ dl'[c].err = dl[c].err /\ dl'[c].at = dl[c].at
      /\ \A x \in Clients \ {c} : dl'[x] = dl[x]
  BY <1>1, <1>2, Types DEF Download
<1>4. "failed" \notin Active \cup {"none"}
  BY DEF Active
<1>5. Tallied(dl'[c]) /\ InBounds(dl'[c])
  BY <1>2, <1>3, <1>4, PhaseTallied
<1> QED
  BY <1>3, <1>5, OneTallied

LEMMA PreparedCounters ==
  ASSUME IInv, CountersInv, NEW c \in Clients, Prepared(c),
         dl[c].phase = "prepare" \/ (dl[c].phase = "split" /\ dl[c].at = dl[c].total)
  PROVE  CountersInv'
<1>1. dl' = [dl EXCEPT ![c].phase = "ready", ![c].at = 0]
  BY DEF Prepared
<1>2. dl[c] \in Download /\ Tallied(dl[c]) /\ InBounds(dl[c])
  BY Types DEF CountersInv
<1>3. /\ dl'[c].phase = "ready" /\ dl'[c].parts = dl[c].parts /\ dl'[c].total = dl[c].total
      /\ dl'[c].completed = dl[c].completed /\ dl'[c].work = dl[c].work
      /\ dl'[c].err = dl[c].err
      /\ \A x \in Clients \ {c} : dl'[x] = dl[x]
  BY <1>1, <1>2, Types DEF Download
<1>4. Tallied(dl'[c]) /\ InBounds(dl'[c])
  BY <1>2, <1>3, PhaseTallied
<1> QED
  BY <1>3, <1>4, OneTallied

\* The sums grow by what the part file says.
LEMMA ReadPartCounters ==
  ASSUME IInv, PartsInv, CountersInv, NEW c \in Clients, ReadPart(c)
  PROVE  CountersInv'
<1>1. PICK n \in PartNumbers :
        /\ NextFile(c, n) /\ partFile[n] # Torn /\ Phase(c) = "prepare"
        /\ dl' = [dl EXCEPT ![c].parts = Append(@, partFile[n]),
                            ![c].total = @ + partFile[n].size,
                            ![c].completed = @ + partFile[n].completed,
                            ![c].at = n + 1]
  BY DEF ReadPart
<1>2. PICK p \in AnyPart : p = partFile[n] /\ p.n \in PartNumbers
  <2>1. Recorded(n)
    BY <1>1 DEF NextFile, PartFiles, Recorded
  <2> QED
    BY <2>1, FileTypes DEF PartsInv, NamedByNumber
<1>3. /\ dl[c] \in Download /\ Tallied(dl[c]) /\ InBounds(dl[c])
      /\ dl[c].parts \in Seq(AnyPart) /\ dl[c].phase = "prepare"
  BY <1>1, Types DEF CountersInv, Download, Phase
<1>4. /\ dl'[c].phase = "prepare" /\ dl'[c].parts = Append(dl[c].parts, p)
      /\ dl'[c].total = dl[c].total + p.size
      /\ dl'[c].completed = dl[c].completed + p.completed
      /\ dl'[c].work = dl[c].work
      /\ \A x \in Clients \ {c} : dl'[x] = dl[x]
  BY <1>1, <1>2, <1>3, Types DEF Download
<1>5. p.completed \in Nat /\ p.size \in Nat
  BY DEF AnyPart
<1>6. Tallied(dl'[c])
  BY <1>3, <1>4, TotalsAppend DEF Tallied, Active
<1>7. InBounds(dl'[c])
  <2>1. \A i \in DOMAIN dl'[c].parts : dl'[c].parts[i].n \in PartNumbers
    BY <1>2, <1>3, <1>4, Appended DEF InBounds
  <2> QED
    BY <1>3, <1>4, <1>5, <2>1 DEF InBounds
<1> QED
  BY <1>4, <1>6, <1>7, OneTallied

LEMMA HeadOkCounters ==
  ASSUME IInv, PartsInv, DataInv, CountersInv, NEW c \in Clients, HeadOk(c)
  PROVE  CountersInv'
<1>1. PICK len \in Lengths : dl' = [dl EXCEPT ![c].phase = "split", ![c].total = len]
  BY DEF HeadOk
<1>2. /\ dl[c] \in Download /\ Tallied(dl[c]) /\ InBounds(dl[c])
      /\ dl[c].parts \in Seq(AnyPart) /\ dl[c].phase = "prepare" /\ PartFiles = {}
  BY Types DEF CountersInv, Download, Phase, HeadOk
<1>3. dl[c].parts = <<>>
  <2>1. \A i \in DOMAIN dl[c].parts : FALSE
    BY <1>2 DEF PartsInv, Tracked, ReadInOrder, Phase, PartFiles
  <2>2. \A s \in Seq(AnyPart) : s # <<>> => 1 \in DOMAIN s
    OBVIOUS
  <2> QED
    BY <1>2, <2>1, <2>2
<1>4. dl[c].at = 0
  <2>1. Gapless(c)
    BY <1>3 DEF Gapless
  <2> QED
    BY <1>2, <1>3, <2>1 DEF DataInv, Tied, Reading, Phase
<1>5. /\ dl'[c].phase = "split" /\ dl'[c].parts = <<>> /\ dl'[c].at = 0
      /\ dl'[c].completed = dl[c].completed /\ dl'[c].work = dl[c].work
      /\ \A x \in Clients \ {c} : dl'[x] = dl[x]
  BY <1>1, <1>2, <1>3, <1>4, Types DEF Download
<1>6. Tallied(dl'[c]) /\ InBounds(dl'[c])
  BY <1>2, <1>3, <1>5, TotalsTyped DEF Tallied, InBounds
<1> QED
  BY <1>5, <1>6, OneTallied

LEMMA NewPartCounters ==
  ASSUME IInv, DataInv, CountersInv, NEW c \in Clients, NewPart(c)
  PROVE  CountersInv'
<1>1. /\ dl' = [dl EXCEPT ![c].parts = Append(@, NextPart(c)), ![c].at = @ + NextPart(c).size]
      /\ Unsplit(c)
  BY DEF NewPart
<1>2. PICK p \in AnyPart : p = NextPart(c) /\ p.n \in PartNumbers /\ p.completed = 0
  BY <1>1, NextPartIs
<1>3. /\ dl[c] \in Download /\ Tallied(dl[c]) /\ InBounds(dl[c])
      /\ dl[c].parts \in Seq(AnyPart) /\ dl[c].phase = "split"
  BY <1>1, Types DEF CountersInv, Download, Phase, Unsplit
<1>4. /\ dl'[c].phase = "split" /\ dl'[c].parts = Append(dl[c].parts, p)
      /\ dl'[c].at = dl[c].at + p.size
      /\ dl'[c].completed = dl[c].completed /\ dl'[c].work = dl[c].work
      /\ \A x \in Clients \ {c} : dl'[x] = dl[x]
  BY <1>1, <1>2, <1>3, Types DEF Download
<1>5. Tallied(dl'[c])
  <2>1. TotalCompleted(dl[c].parts) \in Nat
    BY <1>3, TotalsTyped
  <2> QED
    BY <1>2, <1>3, <1>4, <2>1, TotalsAppend DEF Tallied
<1>6. InBounds(dl'[c])
  <2>1. \A i \in DOMAIN dl'[c].parts : dl'[c].parts[i].n \in PartNumbers
    BY <1>2, <1>3, <1>4, Appended DEF InBounds
  <2> QED
    BY <1>3, <1>4, <2>1 DEF InBounds
<1> QED
  BY <1>4, <1>5, <1>6, OneTallied

LEMMA PrepareCounters ==
  ASSUME IInv, PartsInv, DataInv, CountersInv, NEW c \in Clients, Prepare(c)
  PROVE  CountersInv'
<1>1. CASE PrepareDone(c)
  <2>1. /\ Prepared(c) /\ dl[c].phase = "split" /\ ~ dl[c].at < dl[c].total
    BY <1>1 DEF PrepareDone, Unsplit, Phase
  <2>2. dl[c].at <= dl[c].total /\ dl[c].at \in Nat /\ dl[c].total \in Nat
    BY <2>1, Types DEF DataInv, Tied, Splitting, Phase, Download
  <2>3. dl[c].at = dl[c].total
    BY <2>1, <2>2
  <2> QED
    BY <2>1, <2>3, PreparedCounters
<1>2. CASE ReadDone(c)
  <2>1. Prepared(c) /\ dl[c].phase = "prepare"
    BY <1>2 DEF ReadDone, Phase
  <2> QED
    BY <2>1, PreparedCounters
<1>3. CASE ReadOrHeadFails(c) \/ NewPartFails(c)
  BY <1>3, PrepareFailsCounters DEF ReadOrHeadFails, NewPartFails
<1> QED
  BY <1>1, <1>2, <1>3, ReadPartCounters, HeadOkCounters, NewPartCounters DEF Prepare


LEMMA FinishCounters ==
  ASSUME IInv, CountersInv, NEW d \in Clients, NEW e, Finish(d, e)
  PROVE  CountersInv'
<1>1. PICK x, y, z : dl' = [dl EXCEPT ![d] = [NewDownload EXCEPT
        !.phase = "left", !.err = e, !.references = x, !.cancelFunc = y, !.abandoned = z]]
  BY DEF Finish
<1>2. /\ dl'[d].phase = "left" /\ dl'[d].completed = 0 /\ dl'[d].parts = <<>>
      /\ dl'[d].work = <<>> /\ \A v \in Clients \ {d} : dl'[v] = dl[v]
  BY <1>1, Types DEF NewDownload
<1>3. Tallied(dl'[d]) /\ InBounds(dl'[d])
  BY <1>2 DEF Tallied, InBounds, Active
<1> QED
  BY <1>2, <1>3, OneTallied

LEMMA RunDirectCounters ==
  ASSUME IInv, IInv', CountersInv, NEW d \in Clients, RunDirect(d)
  PROVE  CountersInv'
<1>1. /\ dl[d].phase = "direct"
      /\ dl' = [dl EXCEPT ![d].phase = "fetch", ![d].work =
                  [i \in DOMAIN dl[d].parts |->
                     Ended(IF Remaining(d, i) = 0 THEN "done" ELSE "recv")]]
  BY DEF RunDirect, Phase
<1>2. /\ dl[d] \in Download /\ Tallied(dl[d]) /\ InBounds(dl[d]) /\ dl'[d] \in Download
  <2>1. dl' \in [Clients -> Download]
    BY DEF IInv, Shape
  <2> QED
    BY <2>1, Types DEF CountersInv
<1>3. /\ dl'[d].phase = "fetch" /\ dl'[d].parts = dl[d].parts /\ dl'[d].total = dl[d].total
      /\ dl'[d].completed = dl[d].completed /\ dl'[d].err = dl[d].err
      /\ dl'[d].work = [i \in DOMAIN dl[d].parts |->
                          Ended(IF Remaining(d, i) = 0 THEN "done" ELSE "recv")]
      /\ \A x \in Clients \ {d} : dl'[x] = dl[x]
  BY <1>1, <1>2, Types DEF Download
<1>4. dl'[d].work \in Seq(AnyWork) /\ dl[d].parts \in Seq(AnyPart)
  BY <1>2 DEF Download
<1>5. \A i \in DOMAIN dl'[d].work : dl'[d].work[i].got = 0 /\ dl'[d].work[i].try = 0
  BY <1>3 DEF Ended
<1>6. TotalGot(dl'[d].work) = 0
  BY <1>4, <1>5, NothingGot
<1>7. Tallied(dl'[d])
  <2>1. TotalCompleted(dl[d].parts) \in Nat
    BY <1>4, TotalsTyped
  <2> QED
    BY <1>1, <1>2, <1>3, <1>6, <2>1 DEF Tallied, Active
<1>8. InBounds(dl'[d])
  <2>1. MaxRetries >= 0
    BY DownloadAssumption
  <2> QED
    BY <1>2, <1>3, <1>5, <2>1 DEF InBounds
<1> QED
  BY <1>3, <1>7, <1>8, OneTallied

\* When all parts are in, the counter is the total.
LEMMA RunFetchedCounters ==
  ASSUME IInv, DataInv, CountersInv, NEW d \in Clients, RunFetched(d)
  PROVE  CountersInv'
<1>1. CASE dl[d].err # None
  BY <1>1, FinishCounters DEF RunFetched
<1>2. CASE dl[d].err = None
  <2>1. /\ dl' = [dl EXCEPT ![d].phase = "remove"] /\ dl[d].phase = "fetch" /\ Receiving(d) = {}
    BY <1>2 DEF RunFetched, Enter, Phase
  <2>2. /\ dl[d] \in Download /\ Tallied(dl[d]) /\ InBounds(dl[d])
        /\ dl[d].parts \in Seq(AnyPart) /\ dl[d].work \in Seq(AnyWork)
        /\ DOMAIN dl[d].work = DOMAIN dl[d].parts
    BY <2>1, Types DEF CountersInv, Download, IInv, DataThere, Phase
  <2>3. \A i \in DOMAIN dl[d].parts :
          dl[d].parts[i].completed = dl[d].parts[i].size /\ dl[d].work[i].got = 0
    <3> SUFFICES ASSUME NEW i \in DOMAIN dl[d].parts
                 PROVE  dl[d].parts[i].completed = dl[d].parts[i].size /\ dl[d].work[i].got = 0
      OBVIOUS
    <3>1. AtWork(dl[d].parts[i], dl[d].work[i], None)
      BY <1>2, <2>1 DEF DataInv, Tied, Fetching, Phase, Part
    <3>2. dl[d].work[i] \in AnyWork /\ dl[d].work[i].pc # "recv"
      BY <2>1, <2>2 DEF Receiving
    <3>3. dl[d].work[i].pc = "done"
      BY <3>1, <3>2 DEF AtWork, AnyWork
    <3> QED
      BY <3>1, <3>3 DEF AtWork
  <2>4. TotalCompleted(dl[d].parts) = TotalSize(dl[d].parts) /\ TotalGot(dl[d].work) = 0
    BY <2>2, <2>3, AllCompleted, NothingGot
  <2>5. TotalSize(dl[d].parts) \in Nat
    BY <2>2, TotalsTyped
  <2>6. /\ dl'[d].phase = "remove" /\ dl'[d].parts = dl[d].parts /\ dl'[d].total = dl[d].total
        /\ dl'[d].completed = dl[d].completed /\ dl'[d].err = None /\ dl'[d].work = dl[d].work
        /\ \A x \in Clients \ {d} : dl'[x] = dl[x]
    BY <1>2, <2>1, <2>2, Types DEF Download
  <2>7. Tallied(dl'[d]) /\ InBounds(dl'[d])
    BY <1>2, <2>1, <2>2, <2>4, <2>5, <2>6 DEF Tallied, InBounds, Active
  <2> QED
    BY <2>6, <2>7, OneTallied
<1> QED
  BY <1>1, <1>2

LEMMA RunCounters ==
  ASSUME IInv, IInv', DataInv, CountersInv, NEW d \in Clients, Run(d)
  PROVE  CountersInv'
<1>1. CASE RunStart(d) \/ RunOpen(d) \/ RunClose(d)
  <2>1. PICK p \in {"open", "direct", "closed"}, f \in {"set", dl[d].cancelFunc} :
          /\ dl' = [dl EXCEPT ![d].phase = p, ![d].cancelFunc = f]
          /\ p = "closed" \/ (p = "open" /\ dl[d].phase = "ready")
             \/ (p = "direct" /\ dl[d].phase = "open")
    <3>1. CASE RunStart(d)
      BY <3>1 DEF RunStart, Phase
    <3>2. CASE RunOpen(d)
      <4>1. dl' = [dl EXCEPT ![d].phase = "direct", ![d].cancelFunc = dl[d].cancelFunc]
        BY <3>2, Types DEF RunOpen, Enter, Download
      <4> QED
        BY <3>2, <4>1 DEF RunOpen, Phase
    <3>3. CASE RunClose(d)
      <4>1. dl' = [dl EXCEPT ![d].phase = "closed", ![d].cancelFunc = dl[d].cancelFunc]
        BY <3>3, Types DEF RunClose, Enter, Download
      <4> QED
        BY <4>1
    <3> QED
      BY <1>1, <3>1, <3>2, <3>3
  <2>2. dl[d] \in Download /\ Tallied(dl[d]) /\ InBounds(dl[d])
    BY Types DEF CountersInv
  <2>3. /\ dl'[d].phase = p /\ dl'[d].parts = dl[d].parts /\ dl'[d].total = dl[d].total
        /\ dl'[d].completed = dl[d].completed /\ dl'[d].work = dl[d].work
        /\ dl'[d].err = dl[d].err /\ dl'[d].at = dl[d].at
        /\ \A x \in Clients \ {d} : dl'[x] = dl[x]
    BY <2>1, <2>2, Types DEF Download
  <2>4. Tallied(dl'[d]) /\ InBounds(dl'[d])
    <3>1. CASE p = "closed"
      <4>1. dl'[d].phase \notin Active \cup {"none"}
        BY <2>3, <3>1 DEF Active
      <4> QED
        BY <2>2, <2>3, <4>1, PhaseTallied
    <3>2. CASE p # "closed"
      <4>1. /\ dl'[d].phase \in {"ready", "open", "direct"}
            /\ dl[d].phase \in {"prepare", "ready", "open"}
        BY <2>1, <2>3, <3>2
      <4> QED
        BY <2>2, <2>3, <4>1, PhaseTallied
    <3> QED
      BY <3>1, <3>2
  <2> QED
    BY <2>3, <2>4, OneTallied
<1>2. CASE RunFails(d) \/ RunRename(d)
  BY <1>2, FinishCounters DEF RunFails, RunRename
<1>3. CASE RunRemove(d)
  <2>1. CASE Finish(d, "err")
    BY <2>1, FinishCounters
  <2>2. CASE ~Finish(d, "err")
    <3>1. dl' = [dl EXCEPT ![d].at = @ + 1] /\ dl[d].phase = "remove"
      BY <1>3, <2>2 DEF RunRemove, Phase
    <3>2. dl[d] \in Download /\ Tallied(dl[d]) /\ InBounds(dl[d])
      BY Types DEF CountersInv
    <3>3. /\ dl'[d].phase = "remove" /\ dl'[d].parts = dl[d].parts
          /\ dl'[d].total = dl[d].total
          /\ dl'[d].completed = dl[d].completed /\ dl'[d].work = dl[d].work
          /\ dl'[d].err = dl[d].err
          /\ \A x \in Clients \ {d} : dl'[x] = dl[x]
      BY <3>1, <3>2, Types DEF Download
    <3>4. Tallied(dl'[d]) /\ InBounds(dl'[d])
      BY <3>1, <3>2, <3>3, PhaseTallied
    <3> QED
      BY <3>3, <3>4, OneTallied
  <2> QED
    BY <2>1, <2>2
<1> QED
  BY <1>1, <1>2, <1>3, RunDirectCounters, RunFetchedCounters DEF Run

\* Part i becomes p and its goroutine w; the counter follows, or an error has
\* been remembered.
ChunkTally(d, i, p, w) ==
  /\ p.n = Part(d, i).n /\ p.size = Part(d, i).size
  /\ w.try <= MaxRetries
  /\ dl'[d].phase = "fetch" /\ dl'[d].total = dl[d].total
  /\ dl'[d].parts = [dl[d].parts EXCEPT ![i] = p]
  /\ dl'[d].work = [dl[d].work EXCEPT ![i] = w]
  /\ \A x \in Clients \ {d} : dl'[x] = dl[x]
  /\ dl[d].err # None => dl'[d].err # None
  /\ \E k \in Nat : /\ dl'[d].completed = dl[d].completed + (p.completed - Part(d, i).completed)
                                          + (w.got - dl[d].work[i].got) + k
                    /\ dl'[d].err = None => k = 0

LEMMA ChunkTallied ==
  ASSUME IInv, CountersInv, NEW d \in Clients, NEW i \in DOMAIN dl[d].work, InChunk(d, i),
         NEW p \in AnyPart, NEW w \in AnyWork, ChunkTally(d, i, p, w)
  PROVE  CountersInv'
<1> DEFINE T == TotalCompleted(dl[d].parts)
           W == TotalGot(dl[d].work)
           T2 == TotalCompleted(dl'[d].parts)
           W2 == TotalGot(dl'[d].work)
<1>1. /\ dl[d].phase = "fetch" /\ dl[d].parts \in Seq(AnyPart) /\ i \in DOMAIN dl[d].parts
      /\ dl[d].work \in Seq(AnyWork) /\ dl[d].work[i] \in AnyWork
      /\ Part(d, i) \in AnyPart /\ Part(d, i) = dl[d].parts[i]
      /\ Tallied(dl[d]) /\ InBounds(dl[d])
  BY ChunkTypes DEF CountersInv, Part
<1>2. /\ dl'[d].parts = [dl[d].parts EXCEPT ![i] = p]
      /\ dl'[d].work = [dl[d].work EXCEPT ![i] = w]
  BY DEF ChunkTally
<1>3. dl'[d].parts \in Seq(AnyPart) /\ dl'[d].work \in Seq(AnyWork)
  BY <1>1, <1>2
<1>4. /\ T \in Nat /\ W \in Nat /\ T2 \in Nat /\ W2 \in Nat
  BY <1>1, <1>3, TotalsTyped
<1>5. /\ T2 = T + (p.completed - Part(d, i).completed)
      /\ TotalSize(dl'[d].parts) = TotalSize(dl[d].parts)
  <2>1. PICK ps \in Seq(AnyPart) : ps = dl[d].parts
    BY <1>1
  <2>2. i \in DOMAIN ps /\ p.size = ps[i].size
    BY <1>1, <2>1 DEF ChunkTally
  <2>3. /\ TotalCompleted([ps EXCEPT ![i] = p])
             = TotalCompleted(ps) + (p.completed - ps[i].completed)
        /\ TotalSize([ps EXCEPT ![i] = p]) = TotalSize(ps)
    BY <2>2, TotalsExcept
  <2> QED
    BY <1>1, <1>2, <2>1, <2>3
<1>6. W2 = W + (w.got - dl[d].work[i].got)
  <2>1. PICK ws \in Seq(AnyWork) : ws = dl[d].work
    BY <1>1
  <2>2. TotalGot([ws EXCEPT ![i] = w]) = TotalGot(ws) + (w.got - ws[i].got)
    BY <2>1, TotalGotExcept
  <2> QED
    BY <1>2, <2>1, <2>2
<1>7. /\ p.completed \in Nat /\ Part(d, i).completed \in Nat
      /\ w.got \in Nat /\ dl[d].work[i].got \in Nat
  BY <1>1 DEF AnyPart, AnyWork
<1>8. PICK k \in Nat : /\ dl'[d].completed = dl[d].completed
                             + (p.completed - Part(d, i).completed)
                             + (w.got - dl[d].work[i].got) + k
                       /\ dl'[d].err = None => k = 0
  BY DEF ChunkTally
<1>9. /\ dl[d].completed \in Nat /\ dl[d].completed >= T + W
      /\ dl[d].err = None => dl[d].completed = T + W
  BY <1>1 DEF Tallied, InBounds
<1>10. dl'[d].completed = dl[d].completed + (T2 - T) + (W2 - W) + k
  <2>1. T2 - T = p.completed - Part(d, i).completed
    BY <1>4, <1>5, <1>7
  <2>2. W2 - W = w.got - dl[d].work[i].got
    BY <1>4, <1>6, <1>7
  <2> QED
    BY <1>8, <2>1, <2>2
<1> HIDE DEF T, W, T2, W2
<1>11. /\ dl'[d].completed >= T2 + W2 /\ dl'[d].completed \in Nat
       /\ dl'[d].err = None => dl'[d].completed = T2 + W2
  <2>1. dl[d].err # None => dl'[d].err # None
    BY DEF ChunkTally
  <2> QED
    BY <1>4, <1>8, <1>9, <1>10, <2>1
<1>12. Tallied(dl'[d])
  <2>1. dl[d].total = TotalSize(dl[d].parts)
    BY <1>1 DEF Tallied, Active
  <2> QED
    BY <1>5, <1>11, <2>1 DEF Tallied, ChunkTally, T2, W2
<1>13. InBounds(dl'[d])
  <2>1. \A j \in DOMAIN dl'[d].parts : dl'[d].parts[j].n \in PartNumbers
    BY <1>1, <1>2 DEF InBounds, ChunkTally
  <2>2. \A j \in DOMAIN dl'[d].work : dl'[d].work[j].try <= MaxRetries
    BY <1>1, <1>2 DEF InBounds, ChunkTally
  <2> QED
    BY <1>11, <2>1, <2>2 DEF InBounds
<1> QED
  BY <1>12, <1>13, OneTallied DEF ChunkTally


LEMMA TriesBounded ==
  ASSUME NEW w \in AnyWork, w.try <= MaxRetries
  PROVE  /\ Counted(w).try <= MaxRetries /\ Stalled(w).try <= MaxRetries
         /\ Heard(w).try <= MaxRetries /\ Heard(w).got = w.got + 1
<1>1. w.try \in Nat /\ MaxRetries \in Nat
  BY DownloadAssumption DEF AnyWork
<1>2. [w EXCEPT !.got = 0, !.try = @ + 1].try = w.try + 1
  BY DEF AnyWork
<1>3. Ended("failed").try = 0
  BY DEF Ended
<1>4. Counted(w).try <= MaxRetries
  <2>1. CASE w.try + 1 < MaxRetries
    BY <1>1, <1>2, <2>1 DEF Counted
  <2>2. CASE ~ w.try + 1 < MaxRetries
    BY <1>1, <1>3, <2>2 DEF Counted
  <2> QED
    BY <2>1, <2>2
<1>5. Stalled(w).try = w.try /\ Heard(w).try = w.try /\ Heard(w).got = w.got + 1
  BY DEF Stalled, Heard, AnyWork
<1> QED
  BY <1>4, <1>5

\* What all of these steps work on.
LEMMA ChunkNumbers ==
  ASSUME IInv, CountersInv, NEW d \in Clients, NEW i \in DOMAIN dl[d].work, InChunk(d, i)
  PROVE  /\ dl[d] \in Download /\ dl[d].phase = "fetch" /\ dl[d].completed \in Nat
         /\ dl[d].parts \in Seq(AnyPart) /\ i \in DOMAIN dl[d].parts
         /\ dl[d].work \in Seq(AnyWork)
         /\ Part(d, i) \in AnyPart /\ Part(d, i) = dl[d].parts[i]
         /\ dl[d].parts = [dl[d].parts EXCEPT ![i] = Part(d, i)]
         /\ Part(d, i).completed \in Nat
         /\ dl[d].work[i] \in AnyWork /\ dl[d].work[i].got \in Nat
         /\ dl[d].work[i].try <= MaxRetries
<1>1. /\ dl[d] \in Download /\ dl[d].phase = "fetch"
      /\ dl[d].parts \in Seq(AnyPart) /\ i \in DOMAIN dl[d].parts
      /\ dl[d].work \in Seq(AnyWork) /\ dl[d].work[i] \in AnyWork /\ Part(d, i) \in AnyPart
  BY ChunkTypes
<1>2. dl[d].completed \in Nat /\ dl[d].work[i].try <= MaxRetries
  BY DEF CountersInv, InBounds
<1>3. Part(d, i).completed \in Nat /\ dl[d].work[i].got \in Nat
  BY <1>1 DEF AnyPart, AnyWork
<1>4. Part(d, i) = dl[d].parts[i] /\ dl[d].parts = [dl[d].parts EXCEPT ![i] = Part(d, i)]
  BY <1>1 DEF Part
<1> QED
  BY <1>1, <1>2, <1>3, <1>4

LEMMA ChunkReceiveCounters ==
  ASSUME IInv, CountersInv, NEW d \in Clients, NEW i \in DOMAIN dl[d].work, ChunkReceive(d, i)
  PROVE  CountersInv'
<1>1. InChunk(d, i) /\ dl' = [dl EXCEPT ![d].work[i] = Heard(@), ![d].completed = @ + 1]
  BY DEF ChunkReceive
<1>2. PICK w \in AnyWork : w = Heard(dl[d].work[i])
  BY <1>1, ChunkNumbers, WorkTypes
<1>3. w.try <= MaxRetries /\ w.got = dl[d].work[i].got + 1
  BY <1>1, <1>2, ChunkNumbers, TriesBounded
<1>4. PICK p \in AnyPart : p = Part(d, i) /\ dl[d].parts = [dl[d].parts EXCEPT ![i] = p]
  <2>1. Part(d, i) \in AnyPart /\ dl[d].parts = [dl[d].parts EXCEPT ![i] = Part(d, i)]
    BY <1>1, ChunkNumbers
  <2> QED
    BY <2>1, Zenon
<1>5. /\ dl'[d].phase = "fetch" /\ dl'[d].total = dl[d].total /\ dl'[d].err = dl[d].err
      /\ dl'[d].parts = dl[d].parts
      /\ dl'[d].work = [dl[d].work EXCEPT ![i] = w]
      /\ dl'[d].completed = dl[d].completed + 1
      /\ \A x \in Clients \ {d} : dl'[x] = dl[x]
  BY <1>1, <1>2, ChunkNumbers, Types DEF Download
<1>6. dl'[d].completed = dl[d].completed + (p.completed - Part(d, i).completed)
                         + (w.got - dl[d].work[i].got) + 0
  <2>1. p.completed \in Nat /\ dl[d].work[i].got \in Nat /\ dl[d].completed \in Nat
    BY <1>1, <1>4, ChunkNumbers
  <2> QED
    BY <1>3, <1>4, <1>5, <2>1
<1>7. ChunkTally(d, i, p, w)
  BY <1>3, <1>4, <1>5, <1>6 DEF ChunkTally
<1> QED
  BY <1>1, <1>7, ChunkTallied

LEMMA KeptIs ==
  ASSUME IInv, CountersInv, NEW d \in Clients, NEW i \in DOMAIN dl[d].work, InChunk(d, i)
  PROVE  /\ Kept(d, i) \in AnyPart
         /\ Kept(d, i).n = Part(d, i).n /\ Kept(d, i).size = Part(d, i).size
         /\ Kept(d, i).completed = Part(d, i).completed + dl[d].work[i].got
<1>1. Part(d, i) \in AnyPart
  BY ChunkNumbers
<1> QED
  BY <1>1, KeptType DEF Kept, AnyPart

\* What the attempt got moves from the goroutine to the part.
LEMMA KeepingCounters ==
  ASSUME IInv, CountersInv, NEW d \in Clients, NEW i \in DOMAIN dl[d].work, InChunk(d, i),
         NEW w \in AnyWork, w.got = 0, w.try <= MaxRetries, NEW e,
         dl[d].err # None => e # None,
         dl' = [dl EXCEPT ![d].parts[i] = Kept(d, i), ![d].work[i] = w, ![d].err = e]
  PROVE  CountersInv'
<1>1. PICK p \in AnyPart : /\ p = Kept(d, i)
                           /\ p.n = Part(d, i).n /\ p.size = Part(d, i).size
                           /\ p.completed = Part(d, i).completed + dl[d].work[i].got
  BY KeptIs
<1>2. /\ dl'[d].phase = "fetch" /\ dl'[d].total = dl[d].total /\ dl'[d].err = e
      /\ dl'[d].parts = [dl[d].parts EXCEPT ![i] = p]
      /\ dl'[d].work = [dl[d].work EXCEPT ![i] = w]
      /\ dl'[d].completed = dl[d].completed
      /\ \A x \in Clients \ {d} : dl'[x] = dl[x]
  <2>1. /\ dl[d] \in Download /\ dl[d].phase = "fetch"
        /\ dl[d].parts \in Seq(AnyPart) /\ dl[d].work \in Seq(AnyWork)
    BY ChunkNumbers
  <2>2. dl' = [dl EXCEPT ![d].parts[i] = p, ![d].work[i] = w, ![d].err = e]
    BY <1>1
  <2> QED
    BY <2>1, <2>2, Types DEF Download
<1>3. dl'[d].completed = dl[d].completed + (p.completed - Part(d, i).completed)
                         + (w.got - dl[d].work[i].got) + 0
  <2>1. /\ p.completed \in Nat /\ Part(d, i).completed \in Nat
        /\ dl[d].work[i].got \in Nat /\ dl[d].completed \in Nat
    BY <1>1, ChunkNumbers DEF AnyPart
  <2> QED
    BY <1>1, <1>2, <2>1
<1>4. ChunkTally(d, i, p, w)
  <2>1. 0 \in Nat /\ (dl'[d].err = None => 0 = 0)
    OBVIOUS
  <2>2. \E k \in Nat : /\ dl'[d].completed = dl[d].completed
                             + (p.completed - Part(d, i).completed)
                             + (w.got - dl[d].work[i].got) + k
                       /\ dl'[d].err = None => k = 0
    BY <1>3, <2>1, Zenon
  <2> QED
    BY <1>1, <1>2, <2>2, Zenon DEF ChunkTally
<1> QED
  BY <1>4, ChunkTallied

LEMMA ChunkKeepsCounters ==
  ASSUME IInv, CountersInv, NEW d \in Clients, NEW i \in DOMAIN dl[d].work,
         \/ ChunkDone(d, i) \/ ChunkCut(d, i) \/ ChunkStalled(d, i) \/ ChunkCanceled(d, i)
         \/ ChunkPartNoSpace(d, i)
  PROVE  CountersInv'
<1>1. InChunk(d, i)
  BY DEF ChunkDone, ChunkCut, ChunkStalled, ChunkCanceled, ChunkPartNoSpace
<1>2. dl[d].work[i] \in AnyWork /\ dl[d].work[i].try <= MaxRetries
  BY <1>1, ChunkNumbers
<1>3. None \notin {"err", "canceled"} /\ MaxRetries \in Nat
  BY DownloadAssumption
<1>4. \A how \in {"done", "failed"} : Ended(how).try <= MaxRetries
  BY <1>3 DEF Ended
<1>5. PICK w : /\ w \in AnyWork /\ w.got = 0 /\ w.try <= MaxRetries
               /\ \E e \in {None, "err", "canceled"} :
                    /\ dl[d].err # None => e # None
                    /\ dl' = [dl EXCEPT ![d].parts[i] = Kept(d, i), ![d].work[i] = w,
                                        ![d].err = e]
  <2>0. dl[d].err \in {None, "err", "canceled"}
    BY <1>1, ChunkTypes
  <2>1. CASE ChunkPartNoSpace(d, i)
    <3>1. PICK w : w = Ended("failed")
      OBVIOUS
    <3>2. w \in AnyWork /\ w.got = 0 /\ w.try <= MaxRetries
      BY <1>4, <3>1, WorkTypes, EndedIs
    <3>3. PICK e : e = IF dl[d].err = None THEN "err" ELSE dl[d].err
      OBVIOUS
    <3>4. e \in {None, "err", "canceled"} /\ (dl[d].err # None => e # None)
      BY <2>0, <3>3
    <3>5. dl' = [dl EXCEPT ![d].parts[i] = Kept(d, i), ![d].work[i] = w, ![d].err = e]
      BY <2>1, <3>1, <3>3 DEF ChunkPartNoSpace
    <3> QED
      BY <3>2, <3>4, <3>5
  <2>2. ASSUME NEW w \in AnyWork, w.got = 0, w.try <= MaxRetries,
               NEW f \in {None, "err", "canceled"}, EndKeeping(d, i, w, f)
        PROVE  \E e \in {None, "err", "canceled"} :
                 /\ dl[d].err # None => e # None
                 /\ dl' = [dl EXCEPT ![d].parts[i] = Kept(d, i), ![d].work[i] = w, ![d].err = e]
    <3>1. PICK e : e = IF dl[d].err = None /\ w.pc = "failed" THEN f ELSE dl[d].err
      OBVIOUS
    <3>2. e \in {None, "err", "canceled"} /\ (dl[d].err # None => e # None)
      BY <2>0, <3>1
    <3>3. dl' = [dl EXCEPT ![d].parts[i] = Kept(d, i), ![d].work[i] = w, ![d].err = e]
      BY <2>2, <3>1 DEF EndKeeping
    <3> QED
      BY <3>2, <3>3
  <2>3. ASSUME NEW w \in AnyWork, NEW f \in {None, "err", "canceled"}, EndKeeping(d, i, w, f),
               \/ w \in {Ended("done"), Ended("failed")}
               \/ w \in {Counted(dl[d].work[i]), Stalled(dl[d].work[i])}
        PROVE  \E v \in AnyWork :
                 /\ v.got = 0 /\ v.try <= MaxRetries
                 /\ \E e \in {None, "err", "canceled"} :
                      /\ dl[d].err # None => e # None
                      /\ dl' = [dl EXCEPT ![d].parts[i] = Kept(d, i), ![d].work[i] = v,
                                          ![d].err = e]
    <3>1. w.got = 0 /\ w.try <= MaxRetries
      BY <1>2, <1>4, <2>3, EndedIs, TriesBounded
    <3> QED
      BY <2>2, <2>3, <3>1
  <2>4. CASE ChunkDone(d, i)
    BY <2>3, <2>4, WorkTypes DEF ChunkDone
  <2>5. CASE ChunkCut(d, i)
    BY <1>2, <2>3, <2>5, WorkTypes DEF ChunkCut
  <2>6. CASE ChunkStalled(d, i)
    BY <1>2, <2>3, <2>6, WorkTypes DEF ChunkStalled
  <2>7. CASE ChunkCanceled(d, i)
    BY <2>3, <2>7, WorkTypes DEF ChunkCanceled
  <2> QED
    BY <2>1, <2>4, <2>5, <2>6, <2>7
<1> QED
  BY <1>1, <1>5, KeepingCounters

\* What came is taken back from the counter, but for a unit that was read and
\* could not be written.
LEMMA ChunkInVainCounters ==
  ASSUME IInv, CountersInv, NEW d \in Clients, NEW i \in DOMAIN dl[d].work,
         ChunkError(d, i) \/ ChunkNoSpace(d, i)
  PROVE  CountersInv'
<1>1. InChunk(d, i)
  BY DEF ChunkError, ChunkNoSpace
<1>2. dl[d].work[i] \in AnyWork /\ dl[d].work[i].try <= MaxRetries
  BY <1>1, ChunkNumbers
<1>3. None # "err" /\ MaxRetries \in Nat
  BY DownloadAssumption
<1>4. PICK w, e, k :
        /\ w \in AnyWork /\ w.got = 0 /\ w.try <= MaxRetries
        /\ k \in Nat /\ (e = None => k = 0) /\ (dl[d].err # None => e # None)
        /\ dl' = [dl EXCEPT ![d].work[i] = w, ![d].completed = k + RolledBack(d, i), ![d].err = e]
  <2>1. CASE ChunkError(d, i)
    <3>1. PICK w : w = Counted(dl[d].work[i])
      OBVIOUS
    <3>2. w \in AnyWork /\ w.got = 0 /\ w.try <= MaxRetries
      BY <1>2, <3>1, WorkTypes, EndedIs, TriesBounded
    <3>3. PICK e : e = IF dl[d].err = None /\ w.pc = "failed" THEN "err" ELSE dl[d].err
      OBVIOUS
    <3>4. 0 + RolledBack(d, i) = RolledBack(d, i)
      <4>1. dl[d].completed \in Nat /\ dl[d].work[i].got \in Nat
        BY <1>1, ChunkNumbers
      <4> QED
        BY <4>1 DEF RolledBack
    <3>5. dl' = [dl EXCEPT ![d].work[i] = w, ![d].completed = RolledBack(d, i), ![d].err = e]
      BY <2>1, <3>1, <3>3 DEF ChunkError
    <3>6. dl[d].err # None => e # None
      BY <1>3, <3>3
    <3>7. dl' = [dl EXCEPT ![d].work[i] = w, ![d].completed = 0 + RolledBack(d, i), ![d].err = e]
      BY <3>4, <3>5
    <3>8. 0 \in Nat /\ (e = None => 0 = 0)
      OBVIOUS
    <3> QED
      BY <3>2, <3>6, <3>7, <3>8, Zenon
  <2>2. CASE ChunkNoSpace(d, i)
    <3>1. PICK w : w = Ended("failed")
      OBVIOUS
    <3>2. w \in AnyWork /\ w.got = 0 /\ w.try <= MaxRetries
      BY <1>3, <3>1, WorkTypes, EndedIs DEF Ended
    <3>3. PICK e : e = IF dl[d].err = None THEN "err" ELSE dl[d].err
      OBVIOUS
    <3>5. dl' = [dl EXCEPT ![d].work[i] = w, ![d].completed = 1 + RolledBack(d, i), ![d].err = e]
      BY <2>2, <3>1, <3>3 DEF ChunkNoSpace
    <3>6. e # None
      BY <1>3, <3>3
    <3> QED
      BY <3>2, <3>5, <3>6
  <2> QED
    BY <2>1, <2>2
<1>5. PICK p \in AnyPart : p = Part(d, i) /\ dl[d].parts = [dl[d].parts EXCEPT ![i] = p]
  <2>1. Part(d, i) \in AnyPart /\ dl[d].parts = [dl[d].parts EXCEPT ![i] = Part(d, i)]
    BY <1>1, ChunkNumbers
  <2> QED
    BY <2>1, Zenon
<1>6. PICK x : x = k + RolledBack(d, i)
  OBVIOUS
<1>7. /\ dl'[d].phase = "fetch" /\ dl'[d].total = dl[d].total /\ dl'[d].err = e
      /\ dl'[d].parts = dl[d].parts
      /\ dl'[d].work = [dl[d].work EXCEPT ![i] = w]
      /\ dl'[d].completed = x
      /\ \A y \in Clients \ {d} : dl'[y] = dl[y]
  <2>1. /\ dl[d] \in Download /\ dl[d].phase = "fetch"
        /\ dl[d].parts \in Seq(AnyPart) /\ dl[d].work \in Seq(AnyWork)
    BY <1>1, ChunkNumbers
  <2>2. dl' = [dl EXCEPT ![d].work[i] = w, ![d].completed = x, ![d].err = e]
    BY <1>4, <1>6
  <2> QED
    BY <2>1, <2>2, Types DEF Download
<1>8. dl'[d].completed = dl[d].completed + (p.completed - Part(d, i).completed)
                         + (w.got - dl[d].work[i].got) + k
  <2>1. p.completed \in Nat /\ dl[d].work[i].got \in Nat /\ dl[d].completed \in Nat
    BY <1>1, <1>5, ChunkNumbers
  <2> QED
    BY <1>4, <1>5, <1>6, <1>7, <2>1 DEF RolledBack
<1>9. ChunkTally(d, i, p, w)
  BY <1>4, <1>5, <1>7, <1>8 DEF ChunkTally
<1> QED
  BY <1>1, <1>4, <1>9, ChunkTallied

LEMMA ChunkCounters ==
  ASSUME IInv, CountersInv, NEW d \in Clients, NEW i \in DOMAIN dl[d].work, Chunk(d, i)
  PROVE  CountersInv'
BY ChunkReceiveCounters, ChunkKeepsCounters, ChunkInVainCounters DEF Chunk

LEMMA CountersStep ==
  IInv /\ IInv' /\ PartsInv /\ DataInv /\ CountersInv /\ [Next]_vars => CountersInv'
<1> SUFFICES ASSUME IInv, IInv', PartsInv, DataInv, CountersInv, [Next]_vars
             PROVE  CountersInv'
  OBVIOUS
<1>1. ASSUME NEW c \in Clients, Client(c) \/ WaitCtxDone(c) PROVE CountersInv'
  <2>1. CASE Panic(c)
    BY <2>1, RestartCounters DEF Panic
  <2>2. CASE ~Panic(c)
    BY <1>1, <2>2, ClientCounters
  <2> QED
    BY <2>1, <2>2
<1>2. ASSUME NEW c \in Clients, Prepare(c) PROVE CountersInv'
  BY <1>2, PrepareCounters
<1>3. ASSUME NEW d \in Clients, Run(d) PROVE CountersInv'
  BY <1>3, RunCounters
<1>4. ASSUME NEW d \in Clients, NEW i \in DOMAIN dl[d].work, Chunk(d, i) PROVE CountersInv'
  BY <1>4, ChunkCounters
<1>5. CASE Crash
  BY <1>5, RestartCounters DEF Crash
<1>6. CASE UNCHANGED vars
  BY <1>6 DEF vars, CountersInv
<1> QED
  BY <1>1, <1>2, <1>3, <1>4, <1>5, <1>6 DEF Next, Progress, Quiet

LEMMA CountersAlways == Spec => [](IInv /\ PartsInv /\ CountersInv)
BY Invariant, DataAlways, CountersInit, CountersStep, PTL DEF Spec

\* The progress that a pull shows is what was received, no unit of it twice and
\* none forgotten, through any retries, stalls and resumptions (b.Completed of
\* blobDownload): exactly the total when run goes on to remove the part files.
THEOREM ProgressExactAlways == Spec => []ProgressExact
<1>1. CountersInv => ProgressExact
  <2> SUFFICES ASSUME CountersInv, NEW d \in Clients, dl[d].phase \in {"fetch", "remove"},
                      dl[d].err = None
               PROVE  /\ dl[d].completed = TotalCompleted(dl[d].parts) + TotalGot(dl[d].work)
                      /\ dl[d].phase = "remove" => dl[d].completed = dl[d].total
    BY DEF ProgressExact, Phase, TotalGot, SumOver
  <2> QED
    BY DEF CountersInv, Tallied
<1> QED
  BY <1>1, CountersAlways, PTL

LEMMA PartsTyped ==
  ASSUME NEW s \in Seq(AnyPart), \A i \in DOMAIN s : s[i].n \in PartNumbers
  PROVE  s \in Seq(PartRecord)
<1>1. \A i \in DOMAIN s : s[i] \in PartRecord
  <2> SUFFICES ASSUME NEW i \in DOMAIN s PROVE s[i] \in PartRecord
    OBVIOUS
  <2>1. s[i] \in AnyPart /\ s[i].n \in PartNumbers
    OBVIOUS
  <2> QED
    BY <2>1 DEF AnyPart, PartRecord
<1> QED
  BY <1>1

LEMMA WorkTyped ==
  ASSUME NEW s \in Seq(AnyWork), \A i \in DOMAIN s : s[i].try <= MaxRetries
  PROVE  s \in Seq([pc : {"recv", "done", "failed"}, got : Nat,
                    try : 0 .. MaxRetries, heard : BOOLEAN])
<1> DEFINE Work == [pc : {"recv", "done", "failed"}, got : Nat,
                    try : 0 .. MaxRetries, heard : BOOLEAN]
<1>1. \A i \in DOMAIN s : s[i] \in Work
  <2> SUFFICES ASSUME NEW i \in DOMAIN s PROVE s[i] \in Work
    OBVIOUS
  <2>1. s[i] \in AnyWork /\ s[i].try <= MaxRetries
    OBVIOUS
  <2>2. s[i].try \in 0 .. MaxRetries
    BY <2>1, DownloadAssumption DEF AnyWork
  <2> QED
    BY <2>1, <2>2 DEF AnyWork
<1> HIDE DEF Work
<1>2. s \in Seq(Work)
  BY <1>1
<1> QED
  BY <1>2 DEF Work

\* What part files have on record are numbers of units.
LostUnits == lost \subseteq Nat

LEMMA LostStep == IInv /\ LostUnits /\ [Next]_vars => LostUnits'
<1> SUFFICES ASSUME IInv, LostUnits, [Next]_vars PROVE LostUnits'
  OBVIOUS
<1> USE DEF LostUnits
<1>1. ASSUME NEW T, NEW K, NEW dataToo, Restart(T, K, dataToo) PROVE LostUnits'
  <2>1. \A n \in PartNumbers : Claimed(n) \subseteq Nat
    <3> SUFFICES ASSUME NEW n \in PartNumbers, partFile[n] \notin {None, Torn},
                        NEW i \in partFile[n].offset + 1 .. partFile[n].offset + partFile[n].completed
                 PROVE  i \in Nat
      BY DEF Claimed
    <3>1. partFile[n] \in AnyPart
      BY Types
    <3> QED
      BY <3>1 DEF AnyPart
  <2> QED
    BY <1>1, <2>1 DEF Restart, PartFiles
<1>2. CASE UNCHANGED lost
  BY <1>2
<1>3. UNCHANGED lost \/ \E T, K, dataToo : Restart(T, K, dataToo)
  <2>1. ASSUME NEW c \in Clients, Client(c) \/ WaitCtxDone(c) \/ Prepare(c)
        PROVE  UNCHANGED lost \/ \E T, K, dataToo : Restart(T, K, dataToo)
    <3>1. CASE Panic(c)
      BY <3>1 DEF Panic
    <3>2. CASE ~Panic(c)
      BY <2>1, <3>2
      DEF Client, Stat, LoadOrStore, Acquire, WaitDone, WaitCtxDone, Cancel, Leave, Prepare,
          ReadPart, ReadDone, Prepared, HeadOk, ReadOrHeadFails, NewPart, NewPartFails,
          PrepareDone
    <3> QED
      BY <3>1, <3>2
  <2>2. ASSUME NEW d \in Clients, Run(d) PROVE UNCHANGED lost
    BY <2>2 DEF Run, RunStart, RunOpen, RunDirect, RunFails, RunFetched, RunRemove, RunRename,
                RunClose
  <2>3. ASSUME NEW d \in Clients, NEW i \in DOMAIN dl[d].work, Chunk(d, i)
        PROVE  UNCHANGED lost
    BY <2>3 DEF Chunk, ChunkReceive, ChunkDone, ChunkCut, ChunkStalled, ChunkCanceled,
                ChunkError, ChunkNoSpace, ChunkPartNoSpace, EndKeeping
  <2> QED
    BY <2>1, <2>2, <2>3 DEF Next, Progress, Quiet, Crash, vars
<1> QED
  BY <1>1, <1>2, <1>3

\* The states of the disk, of the downloads and of the calls; no counter goes
\* below 0, and no part file beyond those that a blob can have.
THEOREM DownloadTypeOK == Spec => []TypeOK
<1>1. IInv /\ PartsInv /\ CountersInv /\ RefsInv /\ LostUnits => TypeOK
  <2> SUFFICES ASSUME IInv, PartsInv, CountersInv, RefsInv, LostUnits PROVE TypeOK
    OBVIOUS
  <2>1. partFile \in [PartNumbers -> PartRecord \cup {None, Torn}]
    <3> SUFFICES ASSUME NEW n \in PartNumbers
                 PROVE  partFile[n] \in PartRecord \cup {None, Torn}
      BY Types
    <3>1. CASE Recorded(n)
      <4>1. partFile[n] \in AnyPart /\ partFile[n].n \in PartNumbers
        BY <3>1, FileTypes DEF PartsInv, NamedByNumber
      <4> QED
        BY <4>1 DEF AnyPart, PartRecord
    <3>2. CASE ~Recorded(n)
      BY <3>2 DEF Recorded
    <3> QED
      BY <3>1, <3>2
  <2>2. /\ data = None \/ data \in Seq(BOOLEAN)
        /\ blob = None \/ blob \in Seq(BOOLEAN)
        /\ manager \in Clients \cup {None}
        /\ call \in [Clients -> Call]
    BY DEF IInv, Shape
  <2>3. ASSUME NEW d \in Clients
        PROVE  dl[d] \in
                 [phase : {"none", "failed", "left", "closed"} \cup Active,
                  parts : Seq(PartRecord), total : Nat, completed : Nat, references : Nat,
                  cancelFunc : {"nil", "set", "called"}, err : {None, "err", "canceled"},
                  work : Seq([pc : {"recv", "done", "failed"}, got : Nat,
                              try : 0 .. MaxRetries, heard : BOOLEAN]),
                  at : Nat, abandoned : BOOLEAN]
    <3>1. dl[d] \in Download /\ InBounds(dl[d])
      BY Types DEF CountersInv
    <3>2. dl[d].parts \in Seq(PartRecord)
      BY <3>1, PartsTyped DEF Download, InBounds
    <3>3. dl[d].work \in Seq([pc : {"recv", "done", "failed"}, got : Nat,
                              try : 0 .. MaxRetries, heard : BOOLEAN])
      BY <3>1, WorkTyped DEF Download, InBounds
    <3>4. dl[d].references \in Nat
      BY WaitersFinite DEF RefsInv, CountExact
    <3> QED
      BY <3>1, <3>2, <3>3, <3>4 DEF Download, InBounds, Phases
  <2>4. DOMAIN dl = Clients /\ dl = [d \in Clients |-> dl[d]]
    BY Types
  <2> QED
    BY <2>1, <2>2, <2>3, <2>4 DEF TypeOK, Call, LostUnits
<1>2. Init => LostUnits
  BY DEF Init, LostUnits
<1> QED
  BY <1>1, <1>2, LostStep, CountersAlways, Invariant, RefsInit, RefsStep, PTL DEF Spec

=============================================================================
