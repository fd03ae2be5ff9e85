---------------------------- MODULE BlobDownload ----------------------------
(***************************************************************************)
(* Downloading one blob, server/download.go: any number of pulls ask for   *)
(* it, they share one blobDownload found through blobDownloadManager, and  *)
(* its parts are fetched by a goroutine each and can be resumed later.     *)
(*                                                                         *)
(* The unit of data is the unit of progress: a part is a few units long    *)
(* and one step of a goroutine moves one unit from the network to the      *)
(* file.  The content of a unit is not modelled, only whether it was ever  *)
(* written.  A blobDownload is named by the call that created it.          *)
(*                                                                         *)
(* The disk is what survives a crash of the server: the part files that    *)
(* Prepare and downloadChunk write, the data file <digest>-partial, and    *)
(* the blob itself.  Writing a part file truncates it first, so a crash or *)
(* a full disk in the middle leaves a file that does not decode (Torn).    *)
(* What is written survives: loss of the page cache is not modelled.       *)
(***************************************************************************)
EXTENDS Integers, Sequences, FiniteSets

CONSTANTS
  Clients,          \* calls of downloadBlob
  Lengths,          \* what the registry may give as Content-Length
  NumDownloadParts, MinPartSize, MaxPartSize,
  MaxParts,         \* bound: part files that can exist
  MaxRetries,       \* maxRetries (6 in the code)
  MaxFaults,        \* bound: crashes (panics apart) and writes to a full disk
  Torn,             \* a part file that does not decode
  None

ASSUME DownloadAssumption ==
  /\ IsFiniteSet(Clients)
  /\ None \notin Clients
  /\ None \notin {"hit", "ok", "err", "canceled", "gone", "lost", "whole", "short"}
  /\ None \notin Seq(BOOLEAN)
  /\ {None, Torn} \cap [n : Nat, offset : Nat, size : Nat, completed : Nat] = {}
  /\ Lengths \subseteq Nat
  /\ {NumDownloadParts, MinPartSize, MaxPartSize, MaxParts, MaxRetries} \subseteq Nat \ {0}
  /\ MaxFaults \in Nat

VARIABLES
  partFile,   \* None, Torn, or the part it describes, by part number
  data,       \* the data file: a sequence telling which units are written
  blob,       \* the file under its final name
  manager,    \* the entry of the digest in blobDownloadManager
  dl,         \* blobDownload, by the call that created it: where its creator
              \* and its run are, the fields of the struct, the goroutine of
              \* each part (work), how far the loop it is in has come (at); and,
              \* as history, that its last waiter has left (abandoned)
  call,       \* callers: where each is, its download, what it was told; and, as
              \* history, that it joined an abandoned download (late)
  faults,     \* counts against MaxFaults
  broken,     \* history: the part files stopped describing a whole blob
  lost        \* history: units that part files had on record when a prune took
              \* the data file from under them

disk == <<partFile, data, blob>>
vars == <<disk, manager, dl, call, faults, broken, lost>>

PartNumbers == 0 .. MaxParts - 1

\* &blobDownload{Name, Digest}
NewDownload == [phase |-> "none", parts |-> <<>>, total |-> 0, completed |-> 0,
                references |-> 0, cancelFunc |-> "nil", err |-> None,
                work |-> <<>>, at |-> 0, abandoned |-> FALSE]
-----------------------------------------------------------------------------
(* Helpers *)

\* The sum of f over the positions of a sequence.
SumOver(s, f(_)) ==
  LET sum[i \in 0 .. Len(s)] == IF i = 0 THEN 0 ELSE sum[i - 1] + f(i)
  IN  sum[Len(s)]

TotalCompleted(ps) == SumOver(ps, LAMBDA i : ps[i].completed)

\* Prepare: total / numDownloadParts, between the two limits.
PartSize(len) == LET size == len \div NumDownloadParts
                 IN  IF size < MinPartSize THEN MinPartSize
                     ELSE IF size > MaxPartSize THEN MaxPartSize ELSE size

\* The bound on the part files leaves room for those of any blob.
ASSUME PartsFit == \A len \in Lengths : len <= MaxParts * PartSize(len)

\* Glob: the part files there are.
PartFiles == {n \in PartNumbers : partFile[n] # None}

\* The part file that Prepare reads next.  Glob's order is that of the names,
\* so the tenth file comes before the second: nothing depends on it.
NextFile(d, n) == /\ n \in PartFiles
                  /\ n >= dl[d].at
                  /\ \A m \in PartFiles : m >= dl[d].at => n <= m

\* The units that a part file has on record.
Claimed(n) == IF partFile[n] \in {None, Torn} THEN {}
              ELSE partFile[n].offset + 1 .. partFile[n].offset + partFile[n].completed

\* Mutant: the file is opened with O_TRUNC.
TruncatedToNothing(d, len) == [i \in 1 .. len |-> FALSE]

\* Truncate(total): cut, or extend by a hole.
Truncated(d, len) == [i \in 1 .. len |-> i <= Len(d) /\ d[i]]

\* WriteAt may extend the file.
Written(d, i) == [j \in 1 .. IF i > Len(d) THEN i ELSE Len(d) |->
                    j = i \/ (j <= Len(d) /\ d[j])]

Phase(d) == dl[d].phase

Part(d, i) == dl[d].parts[i]

Remaining(d, i) == Part(d, i).size - Part(d, i).completed

Unsplit(d) == Phase(d) = "split" /\ dl[d].at < dl[d].total

Receiving(d) == {i \in DOMAIN dl[d].work : dl[d].work[i].pc = "recv"}

\* inner: the context of the errgroup that the parts share.
InnerDone(d) == \/ dl[d].cancelFunc = "called"
                \/ \E i \in DOMAIN dl[d].work : dl[d].work[i].pc = "failed"

\* A goroutine of a part that has ended, or was not needed.
Ended(how) == [pc |-> how, got |-> 0, try |-> 0, heard |-> FALSE]

Init ==
  /\ partFile = [n \in PartNumbers |-> None]
  /\ data = None
  /\ blob = None
  /\ manager = None
  /\ dl = [d \in Clients |-> NewDownload]
  /\ call = [c \in Clients |-> [pc |-> "start", download |-> None, told |-> None,
                                late |-> FALSE]]
  /\ faults = 0
  /\ broken = FALSE
  /\ lost = {}
-----------------------------------------------------------------------------
(* downloadBlob and Wait *)

\* os.Stat(fp): a blob that is there is a cache hit.
Stat(c) ==
  /\ call[c].pc = "start"
  /\ call' = IF blob # None
             THEN [call EXCEPT ![c].pc = "told", ![c].told = "hit"]
             ELSE [call EXCEPT ![c].pc = "lookup"]
  /\ UNCHANGED <<disk, manager, dl, faults, broken, lost>>

\* blobDownloadManager.LoadOrStore
LoadOrStore(c) ==
  /\ call[c].pc = "lookup"
  /\ IF manager = None
     THEN /\ manager' = c
          /\ dl' = [dl EXCEPT ![c].phase = "prepare"]
          /\ call' = [call EXCEPT ![c].pc = "prepare", ![c].download = c]
     ELSE /\ call' = [call EXCEPT ![c].pc = "join", ![c].download = manager]
          /\ UNCHANGED <<manager, dl>>
  /\ UNCHANGED <<disk, faults, broken, lost>>

\* Wait: acquire.
Acquire(c) ==
  LET d == call[c].download
  IN  /\ call[c].pc = "join"
      /\ dl' = [dl EXCEPT ![d].references = @ + 1]
      /\ call' = [call EXCEPT ![c].pc = "wait", ![c].late = dl[d].abandoned]
      /\ UNCHANGED <<disk, manager, faults, broken, lost>>

\* Mutant: the download is given up when one waiter is left.
LastReferenceEarly(d) == dl[d].references <= 2

\* release: the last reference.
LastReference(d) == dl[d].references = 1

\* The deferred release of Wait; the last one goes on to call CancelFunc.
Leave(c, result) ==
  LET d == call[c].download
  IN  /\ dl' = [dl EXCEPT ![d].references = @ - 1,
                          ![d].abandoned = @ \/ dl[d].references = 1]
      /\ call' = [call EXCEPT ![c].told = result,
                              ![c].pc = IF LastReference(d) THEN "release" ELSE "told"]
      /\ UNCHANGED <<disk, manager, faults, broken, lost>>

WaitDone(c) ==
  LET d == call[c].download
  IN  /\ call[c].pc = "wait"
      /\ Phase(d) = "closed"
      /\ Leave(c, IF dl[d].err = None THEN "ok" ELSE dl[d].err)

\* The pull goes away: its context is done.  Before it waits, a context that is
\* done has no other effect than to make the HEAD request fail.
WaitCtxDone(c) == call[c].pc = "wait" /\ Leave(c, "gone")

\* b.CancelFunc() in release, once run has set it.
Cancel(c) ==
  LET d == call[c].download
  IN  /\ call[c].pc = "release"
      /\ dl[d].cancelFunc # "nil"
      /\ dl' = [dl EXCEPT ![d].cancelFunc = "called"]
      /\ call' = [call EXCEPT ![c].pc = "told"]
      /\ UNCHANGED <<disk, manager, faults, broken, lost>>
-----------------------------------------------------------------------------
(* Prepare, run by the call that created the download *)

\* Mutant: the entry of a download that could not be prepared stays.
PrepareFailsKeepingEntry(c) ==
  /\ UNCHANGED manager
  /\ dl' = [dl EXCEPT ![c].phase = "failed"]
  /\ call' = [call EXCEPT ![c].pc = "told", ![c].told = "err"]

\* The entry is deleted, but the done channel is never closed.
PrepareFails(c) ==
  /\ manager' = None
  /\ dl' = [dl EXCEPT ![c].phase = "failed"]
  /\ call' = [call EXCEPT ![c].pc = "told", ![c].told = "err"]

\* Prepare has read its part files or made them: go Run, and on to Wait.
Prepared(c) ==
  /\ dl' = [dl EXCEPT ![c].phase = "ready", ![c].at = 0]
  /\ call' = [call EXCEPT ![c].pc = "join"]
  /\ UNCHANGED <<disk, manager, faults, broken, lost>>

\* A part file of an earlier download: resume it.
ReadPart(c) ==
  /\ Phase(c) = "prepare"
  /\ \E n \in PartNumbers :
       /\ NextFile(c, n)
       /\ partFile[n] # Torn
       /\ dl' = [dl EXCEPT ![c].parts = Append(@, partFile[n]),
                           ![c].total = @ + partFile[n].size,
                           ![c].completed = @ + partFile[n].completed,
                           ![c].at = n + 1]
  /\ UNCHANGED <<disk, manager, call, faults, broken, lost>>

\* The parts are those of the earlier download.
ReadDone(c) ==
  /\ Phase(c) = "prepare"
  /\ dl[c].parts # <<>>
  /\ ~\E n \in PartNumbers : NextFile(c, n)
  /\ Prepared(c)

HeadOk(c) ==
  /\ Phase(c) = "prepare"
  /\ PartFiles = {}
  /\ \E len \in Lengths : dl' = [dl EXCEPT ![c].phase = "split", ![c].total = len]
  /\ UNCHANGED <<disk, manager, call, faults, broken, lost>>

\* A part file does not decode, or the registry does not answer.
ReadOrHeadFails(c) ==
  /\ Phase(c) = "prepare"
  /\ PartFiles = {} \/ \E n \in PartNumbers : NextFile(c, n) /\ partFile[n] = Torn
  /\ PrepareFails(c)
  /\ UNCHANGED <<disk, faults, broken, lost>>

\* Mutant: the last part is not shortened to what is left.
NextPartUncut(c) ==
  [n |-> Len(dl[c].parts), offset |-> dl[c].at,
   size |-> PartSize(dl[c].total), completed |-> 0]

\* The next part of a new download: what is left, but not more than a part.
NextPart(c) ==
  LET size == PartSize(dl[c].total)
      left == dl[c].total - dl[c].at
  IN  [n |-> Len(dl[c].parts), offset |-> dl[c].at,
       size |-> IF size > left THEN left ELSE size, completed |-> 0]

NewPart(c) ==
  /\ Unsplit(c)
  /\ partFile' = [partFile EXCEPT ![NextPart(c).n] = NextPart(c)]
  /\ dl' = [dl EXCEPT ![c].parts = Append(@, NextPart(c)),
                      ![c].at = @ + NextPart(c).size]
  /\ UNCHANGED <<data, blob, manager, call, faults, broken, lost>>

\* The part file is created, but cannot be written.
NewPartFails(c) ==
  /\ Unsplit(c)
  /\ faults < MaxFaults
  /\ faults' = faults + 1
  /\ partFile' = [partFile EXCEPT ![NextPart(c).n] = Torn]
  /\ broken' = TRUE
  /\ PrepareFails(c)
  /\ UNCHANGED <<data, blob, lost>>

PrepareDone(c) ==
  /\ Phase(c) = "split"
  /\ ~Unsplit(c)
  /\ Prepared(c)
-----------------------------------------------------------------------------
(* run *)

\* run goes on to the next of its phases.
Enter(d, p) == dl' = [dl EXCEPT ![d].phase = p] /\ UNCHANGED manager

\* Mutant: what run returns is dropped.
FinishWithoutError(d, e) ==
  /\ manager' = None
  /\ dl' = [dl EXCEPT ![d] = [NewDownload EXCEPT
              !.phase = "left", !.references = dl[d].references,
              !.cancelFunc = dl[d].cancelFunc, !.abandoned = dl[d].abandoned]]

\* The deferred Delete, and what run returns.  The fields of the download that
\* nobody reads any more are put back to what they are initially.
Finish(d, e) ==
  /\ manager' = None
  /\ dl' = [dl EXCEPT ![d] = [NewDownload EXCEPT
              !.phase = "left", !.err = e, !.references = dl[d].references,
              !.cancelFunc = dl[d].cancelFunc, !.abandoned = dl[d].abandoned]]

\* To end at this point leaves some of the part files of a blob only.
SomePartsOnly == \E d \in Clients :
  \/ Unsplit(d) /\ dl[d].parts # <<>>
  \/ Phase(d) = "remove" /\ dl[d].at \in 1 .. Len(dl[d].parts) - 1

\* ctx, b.CancelFunc = context.WithCancel(ctx)
RunStart(d) ==
  /\ Phase(d) = "ready"
  /\ dl' = [dl EXCEPT ![d].phase = "open", ![d].cancelFunc = "set"]
  /\ UNCHANGED <<disk, manager, call, faults, broken, lost>>

\* OpenFile and Truncate, which is taken to succeed.
RunOpen(d) ==
  /\ Phase(d) = "open"
  /\ data' = Truncated(IF data = None THEN <<>> ELSE data, dl[d].total)
  /\ Enter(d, "direct")
  /\ UNCHANGED <<partFile, blob, call, faults, broken, lost>>

\* The direct URL is known: a goroutine for every part that is not complete.
RunDirect(d) ==
  /\ Phase(d) = "direct"
  /\ dl' = [dl EXCEPT ![d].phase = "fetch", ![d].work =
              [i \in DOMAIN dl[d].parts |->
                 Ended(IF Remaining(d, i) = 0 THEN "done" ELSE "recv")]]
  /\ UNCHANGED <<disk, manager, call, faults, broken, lost>>

\* run gives up: the data file cannot be opened, closed or renamed, a part file
\* cannot be removed, or there is no direct URL (cancelled, or out of the 30
\* seconds it may take).
RunFails(d) ==
  /\ Phase(d) \in {"open", "direct", "remove"}
  /\ Finish(d, IF Phase(d) = "direct" /\ dl[d].cancelFunc = "called" THEN "canceled" ELSE "err")
  /\ broken' = (broken \/ SomePartsOnly)
  /\ UNCHANGED <<disk, call, faults, lost>>

\* g.Wait() returns
RunFetched(d) ==
  /\ Phase(d) = "fetch"
  /\ Receiving(d) = {}
  /\ IF dl[d].err # None THEN Finish(d, dl[d].err) ELSE Enter(d, "remove")
  /\ UNCHANGED <<disk, call, faults, broken, lost>>

\* os.Remove by position in b.Parts, not by part number.
RunRemove(d) ==
  LET i == dl[d].at
  IN  /\ Phase(d) = "remove"
      /\ i < Len(dl[d].parts)
      /\ IF partFile[i] = None
         THEN Finish(d, "err") /\ UNCHANGED partFile
         ELSE /\ partFile' = [partFile EXCEPT ![i] = None]
              /\ dl' = [dl EXCEPT ![d].at = @ + 1]
              /\ UNCHANGED manager
      /\ UNCHANGED <<data, blob, call, faults, broken, lost>>

RunRename(d) ==
  /\ Phase(d) = "remove"
  /\ dl[d].at = Len(dl[d].parts)
  /\ blob' = data
  /\ data' = None
  /\ Finish(d, None)
  /\ UNCHANGED <<partFile, call, faults, broken, lost>>

\* Run: close(b.done)
RunClose(d) ==
  /\ Phase(d) = "left"
  /\ Enter(d, "closed")
  /\ UNCHANGED <<disk, call, faults, broken, lost>>
-----------------------------------------------------------------------------
(* downloadChunk *)

InChunk(d, i) == Phase(d) = "fetch" /\ dl[d].work[i].pc = "recv"

Short(d, i) == dl[d].work[i].got < Remaining(d, i)

\* Write: the attempt has got one unit more.
Heard(w) == [w EXCEPT !.got = @ + 1, !.heard = TRUE]

\* One unit from the response to the file and to the progress counter.
ChunkReceive(d, i) ==
  /\ InChunk(d, i)
  /\ Short(d, i)
  /\ data' = Written(data, Part(d, i).offset + Part(d, i).completed + dl[d].work[i].got + 1)
  /\ dl' = [dl EXCEPT ![d].work[i] = Heard(@), ![d].completed = @ + 1]
  /\ UNCHANGED <<partFile, blob, manager, call, faults, broken, lost>>

\* Mutant: part.Completed.Store(n)
KeptOfThisAttempt(d, i) == [Part(d, i) EXCEPT !.completed = dl[d].work[i].got]

\* The part with what the attempt got: part.Completed.Add(n)
Kept(d, i) == [Part(d, i) EXCEPT !.completed = @ + dl[d].work[i].got]

\* Mutant: no attempt is counted, as if it had stalled.
CountedNever(w) == [w EXCEPT !.got = 0]

\* An attempt that counts: the next try, or errMaxRetriesExceeded.
Counted(w) == IF w.try + 1 < MaxRetries
              THEN [w EXCEPT !.got = 0, !.try = @ + 1] ELSE Ended("failed")

\* The attempt ends; what it got is kept, and written to the part file.  The
\* errgroup remembers the first error.
EndKeeping(d, i, w, e) ==
  /\ partFile' = [partFile EXCEPT ![Part(d, i).n] = Kept(d, i)]
  /\ dl' = [dl EXCEPT ![d].parts[i] = Kept(d, i), ![d].work[i] = w,
              ![d].err = IF @ = None /\ w.pc = "failed" THEN e ELSE @]
  /\ UNCHANGED <<data, blob, manager, call, faults, broken, lost>>

\* Mutant: rolled back by the caller again.
RolledBackTwice(d, i) == dl[d].completed - 2 * dl[d].work[i].got

\* Mutant: the units of a failed attempt stay in the progress counter.
RolledBackNot(d, i) == dl[d].completed

\* b.Completed.Add(-n)
RolledBack(d, i) == dl[d].completed - dl[d].work[i].got

ChunkDone(d, i) == /\ InChunk(d, i)
                   /\ ~Short(d, i)
                   /\ EndKeeping(d, i, Ended("done"), None)

\* io.ErrUnexpectedEOF
ChunkCut(d, i) == /\ InChunk(d, i)
                  /\ Short(d, i)
                  /\ EndKeeping(d, i, Counted(dl[d].work[i]), "err")

\* errPartStalled: not counted, and lastUpdated is reset.
Stalled(w) == [w EXCEPT !.got = 0, !.heard = FALSE]

\* No unit for 30 s; a part that was never heard of does not stall.
ChunkStalled(d, i) == /\ InChunk(d, i)
                      /\ Short(d, i)
                      /\ dl[d].work[i].heard
                      /\ EndKeeping(d, i, Stalled(dl[d].work[i]), None)

\* context.Canceled: another part failed or everyone left.
ChunkCanceled(d, i) == /\ InChunk(d, i)
                       /\ InnerDone(d)
                       /\ EndKeeping(d, i, Ended("failed"), "canceled")

\* Any other error: what came is not counted.
ChunkError(d, i) ==
  LET w == Counted(dl[d].work[i])
  IN  /\ InChunk(d, i)
      /\ dl' = [dl EXCEPT ![d].work[i] = w, ![d].completed = RolledBack(d, i),
                          ![d].err = IF @ = None /\ w.pc = "failed" THEN "err" ELSE @]
      /\ UNCHANGED <<disk, manager, call, faults, broken, lost>>

\* ENOSPC writing the data: the unit was read, and counted, in vain.
ChunkNoSpace(d, i) ==
  /\ InChunk(d, i)
  /\ Short(d, i)
  /\ faults < MaxFaults
  /\ faults' = faults + 1
  /\ dl' = [dl EXCEPT ![d].work[i] = Ended("failed"),
                      ![d].completed = 1 + RolledBack(d, i),
                      ![d].err = IF @ = None THEN "err" ELSE @]
  /\ UNCHANGED <<disk, manager, call, broken, lost>>

\* ENOSPC writing the part file, which is then empty.
ChunkPartNoSpace(d, i) ==
  /\ InChunk(d, i)
  /\ faults < MaxFaults
  /\ faults' = faults + 1
  /\ partFile' = [partFile EXCEPT ![Part(d, i).n] = Torn]
  /\ dl' = [dl EXCEPT ![d].parts[i] = Kept(d, i), ![d].work[i] = Ended("failed"),
                      ![d].err = IF @ = None THEN "err" ELSE @]
  /\ broken' = TRUE
  /\ UNCHANGED <<data, blob, manager, call, lost>>
-----------------------------------------------------------------------------
(* The server dies and starts again.  Part files that were being written   *)
(* (T) are torn.  PruneLayers then removes partial downloads that have not *)
(* been touched for an hour.  It goes by the time of each file, and a file *)
(* that cannot be removed is only logged: any of the part files (K) may go *)
(* with or without the data file, which is older than the part files       *)
(* written after it.                                                       *)

BeingWritten == {n \in PartNumbers : \E d \in Clients :
                   \/ \E i \in Receiving(d) : Part(d, i).n = n
                   \/ Unsplit(d) /\ NextPart(d).n = n}

InFlight(c) == call[c].pc \notin {"start", "told"}

Restart(T, K, dataToo) ==
  LET files == PartFiles \cup T
  IN  /\ K \subseteq files
      /\ partFile' = [n \in PartNumbers |-> IF n \in K THEN None
                                            ELSE IF n \in T THEN Torn
                                            ELSE partFile[n]]
      /\ data' = IF dataToo THEN None ELSE data
      /\ lost' = lost \cup (IF dataToo THEN UNION {Claimed(n) : n \in PartFiles \ (K \cup T)}
                            ELSE {})
      /\ broken' = (broken \/ /\ files # K
                              /\ K # {} \/ T # {} \/ SomePartsOnly)
      /\ manager' = None
      /\ dl' = [d \in Clients |-> NewDownload]
      /\ call' = [c \in Clients |->
                    IF ~InFlight(c) THEN call[c]
                    ELSE [call[c] EXCEPT !.pc = "told", !.download = None,
                                         !.told = IF @ = None THEN "lost" ELSE @]]
      /\ UNCHANGED blob

Crash == /\ faults < MaxFaults
         /\ faults' = faults + 1
         /\ \E T \in SUBSET BeingWritten, K \in SUBSET PartNumbers, dataToo \in BOOLEAN :
              Restart(T, K, dataToo)

\* release calls a CancelFunc that run has not set yet, or, when Prepare
\* failed, never will: the goroutine of the pull panics, and the server with it.
Panic(c) == /\ call[c].pc = "release"
            /\ dl[call[c].download].cancelFunc = "nil"
            /\ UNCHANGED faults
            /\ \E T \in SUBSET BeingWritten : Restart(T, {}, FALSE)

\* Everyone has been answered and no download is under way.
Quiet == /\ \A c \in Clients : call[c].pc = "told"
         /\ manager = None
         /\ UNCHANGED vars
-----------------------------------------------------------------------------
Client(c) == \/ Stat(c) \/ LoadOrStore(c) \/ Acquire(c) \/ WaitDone(c)
             \/ Cancel(c) \/ Panic(c)

Prepare(c) == \/ ReadPart(c) \/ ReadDone(c) \/ HeadOk(c) \/ ReadOrHeadFails(c)
              \/ NewPart(c) \/ NewPartFails(c) \/ PrepareDone(c)

Run(d) == \/ RunStart(d) \/ RunOpen(d) \/ RunDirect(d) \/ RunFails(d)
          \/ RunFetched(d) \/ RunRemove(d) \/ RunRename(d) \/ RunClose(d)

Chunk(d, i) == \/ ChunkReceive(d, i) \/ ChunkDone(d, i) \/ ChunkCut(d, i)
               \/ ChunkStalled(d, i) \/ ChunkCanceled(d, i) \/ ChunkError(d, i)
               \/ ChunkNoSpace(d, i) \/ ChunkPartNoSpace(d, i)

\* A step of a goroutine or an answer of the network: a request for a part is
\* answered in the end, with data or with an error.
Progress == \E c \in Clients : \/ Client(c) \/ Prepare(c) \/ Run(c)
                               \/ \E i \in DOMAIN dl[c].work : Chunk(c, i)

Next == \/ Progress
        \/ \E c \in Clients : WaitCtxDone(c)
        \/ Crash
        \/ Quiet

Spec == Init /\ [][Next]_vars

\* As long as some goroutine can go on, one does.  Nobody is bound to go away.
FairSpec == Spec /\ WF_vars(Progress)
-----------------------------------------------------------------------------
(* Properties *)

Active == {"prepare", "split", "ready", "open", "direct", "fetch", "remove"}

PartRecord == [n : PartNumbers, offset : Nat, size : Nat, completed : Nat]

\* The states the disk, the downloads and the calls can be in.
TypeOK ==
  /\ partFile \in [PartNumbers -> PartRecord \cup {None, Torn}]
  /\ data = None \/ data \in Seq(BOOLEAN)
  /\ blob = None \/ blob \in Seq(BOOLEAN)
  /\ manager \in Clients \cup {None}
  /\ dl \in [Clients ->
       [phase : {"none", "failed", "left", "closed"} \cup Active,
        parts : Seq(PartRecord), total : Nat, completed : Nat, references : Nat,
        cancelFunc : {"nil", "set", "called"}, err : {None, "err", "canceled"},
        work : Seq([pc : {"recv", "done", "failed"}, got : Nat,
                    try : 0 .. MaxRetries, heard : BOOLEAN]),
        at : Nat, abandoned : BOOLEAN]]
  /\ call \in [Clients ->
       [pc : {"start", "lookup", "prepare", "join", "wait", "release", "told"},
        download : Clients \cup {None},
        told : {None, "hit", "ok", "err", "canceled", "gone", "lost"}, late : BOOLEAN]]
  /\ lost \subseteq Nat

\* At most one download works on the files of the blob, and it is the one that
\* blobDownloadManager hands to whoever comes next: no entry outlives its
\* download and no download its entry, whatever fails or is cancelled.
OneDownload == \A d \in Clients : Phase(d) \in Active <=> manager = d

\* Nobody but a client can cancel its own pull: a call that waits is told
\* "context canceled" only if it joined a download that all others had already
\* left, before run could take it out of the manager.
CanceledOnlyIfAbandoned ==
  \A c \in Clients : call[c].told = "canceled" => call[c].late

\* The unit is in the data file, or a prune has taken it away with that file.
Accounted(i) == \/ i \in lost
                \/ data # None /\ i \in DOMAIN data /\ data[i]

\* Resuming is sound: what a part file says is completed is in the data file,
\* through retries, resumptions, crashes and prunes, unless a prune took the data
\* file and left the newer part file.
PartFilesTruthful ==
  ~broken => \A n \in PartFiles : /\ partFile[n].completed <= partFile[n].size
                                 /\ \A i \in Claimed(n) : Accounted(i)

\* A blob appears under its final name only with every unit written, even after
\* crashes and full disks, but for units whose data a prune took away while the
\* part file that has them on record stayed; and with the length the registry
\* gave, unless its part files had been damaged.
BlobWhole ==
  blob # None => /\ \A i \in DOMAIN blob : blob[i] \/ i \in lost
                 /\ ~broken => Len(blob) \in Lengths

\* The counter that progress reports show is the number of units received: what
\* the parts completed and what their attempts have got so far.  It is exactly
\* the total when all parts are in, through any retries and resumptions.
ProgressExact ==
  \A d \in Clients : Phase(d) \in {"fetch", "remove"} /\ dl[d].err = None =>
    /\ dl[d].completed = TotalCompleted(dl[d].parts)
                         + SumOver(dl[d].work, LAMBDA i : dl[d].work[i].got)
    /\ Phase(d) = "remove" => dl[d].completed = dl[d].total

\* What a part file has on record is never taken back: it is removed, or torn
\* by a full disk or a crash, but never says less than before.
ProgressKept ==
  [][\A n \in PartNumbers :
       /\ partFile[n] \notin {None, Torn}
       /\ partFile'[n] \notin {None, Torn}
       => partFile'[n].completed >= partFile[n].completed]_vars

\* Every call is answered, except one that joined a download whose Prepare then
\* failed: it waits until it goes away.
EveryCallAnswered ==
  \A c \in Clients : call[c].pc # "start" ~>
    \/ call[c].pc = "told"
    \/ call[c].pc \in {"join", "wait"} /\ Phase(call[c].download) = "failed"

Contents == {"whole", "short"}

Fetch == INSTANCE BlobFetch WITH
  file <- IF blob = None THEN None
          ELSE IF Len(blob) \in Lengths THEN "whole" ELSE "short",
  told <- [c \in Clients |-> call[c].told]

\* The download implements the fetch of a blob that the model store relies on.
ImplementsFetch == Fetch!Spec
=============================================================================
