------------------------ MODULE BlobDownload_proofs ------------------------
(***************************************************************************)
(* Proofs that at most one download works on a blob at a time, that the    *)
(* download implements BlobFetch, and that no progress on record is taken  *)
(* back, for any number of calls, of parts, of retries and of faults.      *)
(***************************************************************************)
EXTENDS BlobDownload, TLAPS

Phases == {"none", "failed", "left", "closed"} \cup Active

AnyPart == [n : Nat, offset : Nat, size : Nat, completed : Nat]

AnyWork == [pc : {"recv", "done", "failed"}, got : Nat, try : Nat, heard : BOOLEAN]

Download == [phase : Phases, parts : Seq(AnyPart), total : Nat, completed : Int,
             references : Int, cancelFunc : {"nil", "set", "called"},
             err : {None, "err", "canceled"}, work : Seq(AnyWork),
             at : Nat, abandoned : BOOLEAN]

Call == [pc : {"start", "lookup", "prepare", "join", "wait", "release", "told"},
         download : Clients \cup {None},
         told : {None, "hit", "ok", "err", "canceled", "gone", "lost"},
         late : BOOLEAN]

(* The parts of the inductive invariant. *)

\* The states of the variables; the progress counter may be off (a full disk).
Shape == /\ partFile \in [PartNumbers -> AnyPart \cup {None, Torn}]
         /\ data \in Seq(BOOLEAN) \cup {None}
         /\ blob \in Seq(BOOLEAN) \cup {None}
         /\ manager \in Clients \cup {None}
         /\ dl \in [Clients -> Download]
         /\ call \in [Clients -> Call]

\* A call that waits does so on a download; one that prepares has made it.
CallsHaveDownloads ==
  /\ \A c \in Clients :
       call[c].pc \in {"prepare", "join", "wait", "release"} => call[c].download \in Clients
  /\ \A d \in Clients : Phase(d) \in {"prepare", "split"} => call[d].pc = "prepare"

\* A call is told one thing, at its end.
NotToldYet ==
  \A c \in Clients : call[c].pc \in {"start", "lookup", "prepare", "join", "wait"} =>
                       call[c].told = None

\* From the moment run has opened it, the data file is there.
DataThere ==
  \A d \in Clients : /\ Phase(d) \in {"direct", "fetch", "remove"} => data # None
                     /\ Phase(d) = "fetch" => DOMAIN dl[d].work = DOMAIN dl[d].parts

\* A run that has returned without an error has put the blob in its place.
BlobThere ==
  \A d \in Clients :
    Phase(d) \in {"left", "closed"} /\ dl[d].err = None => blob # None

IInv == Shape /\ OneDownload /\ CallsHaveDownloads /\ NotToldYet /\ DataThere /\ BlobThere

-----------------------------------------------------------------------------
(* Files are sequences. *)

LEMMA TruncatedType ==
  ASSUME NEW d \in Seq(BOOLEAN), NEW len \in Nat
  PROVE  Truncated(d, len) \in Seq(BOOLEAN)
BY DEF Truncated

LEMMA WrittenType ==
  ASSUME NEW d \in Seq(BOOLEAN), NEW i \in Nat
  PROVE  Written(d, i) \in Seq(BOOLEAN)
<1> DEFINE n == IF i > Len(d) THEN i ELSE Len(d)
<1>1. n \in Nat
  OBVIOUS
<1>2. \A j \in 1 .. n : (j = i \/ (j <= Len(d) /\ d[j])) \in BOOLEAN
  OBVIOUS
<1>3. [j \in 1 .. n |-> j = i \/ (j <= Len(d) /\ d[j])] \in [1 .. n -> BOOLEAN]
  BY <1>2
<1> QED
  BY <1>1, <1>3 DEF Written

LEMMA PartSizeType ==
  ASSUME NEW len \in Nat
  PROVE  PartSize(len) \in Nat
BY DownloadAssumption DEF PartSize

LEMMA NextPartType ==
  ASSUME Shape, NEW c \in Clients, Unsplit(c)
  PROVE  NextPart(c) \in AnyPart
<1>1. dl[c].total \in Nat /\ dl[c].at \in Nat /\ dl[c].at < dl[c].total
  BY DEF Shape, Download, Unsplit
<1>2. PartSize(dl[c].total) \in Nat
  BY <1>1, PartSizeType
<1>3. Len(dl[c].parts) \in Nat
  BY DEF Shape, Download
<1> QED
  BY <1>1, <1>2, <1>3 DEF NextPart, AnyPart

LEMMA NewDownloadType == NewDownload \in Download
BY DEF NewDownload, Download, Phases

-----------------------------------------------------------------------------
(* The first state. *)

LEMMA InitInv == Init => IInv
<1> SUFFICES ASSUME Init PROVE IInv
  OBVIOUS
<1>1. Shape
  BY NewDownloadType, DownloadAssumption DEF Init, Shape, Call
<1>2. \A d \in Clients : Phase(d) = "none"
  BY DEF Init, NewDownload, Phase
<1>3. OneDownload
  BY <1>2, DownloadAssumption DEF OneDownload, Init, Active
<1>4. CallsHaveDownloads /\ NotToldYet
  BY <1>2 DEF Init, CallsHaveDownloads, NotToldYet
<1>5. DataThere /\ BlobThere
  BY <1>2 DEF DataThere, BlobThere
<1> QED
  BY <1>1, <1>3, <1>4, <1>5 DEF IInv

-----------------------------------------------------------------------------
(* What an action does to the downloads and to the calls. *)

\* One download goes on to phase p with the error e.
Changes(d, p, e) == /\ dl' \in [Clients -> Download]
                    /\ dl'[d].phase = p
                    /\ dl'[d].err = e
                    /\ \A x \in Clients \ {d} : dl'[x] = dl[x]

\* One call goes on to pc, having been told t, with the download d.
Moves(c, pc, t, d) == /\ call' \in [Clients -> Call]
                      /\ call'[c].pc = pc
                      /\ call'[c].told = t
                      /\ call'[c].download = d
                      /\ \A x \in Clients \ {c} : call'[x] = call[x]

LEMMA ChangesTo ==
  ASSUME Shape, NEW d \in Clients, NEW r \in Download, dl' = [dl EXCEPT ![d] = r]
  PROVE  Changes(d, r.phase, r.err) /\ dl'[d] = r
BY DEF Shape, Changes

LEMMA MovesTo ==
  ASSUME Shape, NEW c \in Clients, NEW r \in Call, call' = [call EXCEPT ![c] = r]
  PROVE  Moves(c, r.pc, r.told, r.download)
BY DEF Shape, Moves

LEMMA NoneNoClient == None \notin Clients
BY DownloadAssumption

LEMMA StatInv ==
  ASSUME IInv, NEW c \in Clients, Stat(c)
  PROVE  IInv'
<1> USE DEF IInv
<1>1. CASE blob # None
  <2>1. Moves(c, "told", "hit", call[c].download)
    BY <1>1 DEF Stat, Moves, Shape, Call
  <2>2. Shape'
    BY <2>1 DEF Stat, disk, Shape, Moves
  <2>3. QED
    BY <2>1, <2>2, <1>1
    DEF Stat, disk, OneDownload, CallsHaveDownloads, NotToldYet, DataThere, BlobThere,
        Phase, Moves
<1>2. CASE blob = None
  <2>1. Moves(c, "lookup", call[c].told, call[c].download)
    BY <1>2 DEF Stat, Moves, Shape, Call
  <2>2. Shape'
    BY <2>1 DEF Stat, disk, Shape, Moves
  <2>3. QED
    BY <2>1, <2>2
    DEF Stat, disk, OneDownload, CallsHaveDownloads, NotToldYet, DataThere, BlobThere,
        Phase, Moves
<1> QED
  BY <1>1, <1>2

LEMMA StoreNewInv ==
  ASSUME IInv, NEW c \in Clients, LoadOrStore(c), manager = None
  PROVE  IInv'
<1> USE DEF IInv
<1>c. call' = [call EXCEPT ![c].pc = "prepare", ![c].download = c] /\ call \in [Clients -> Call]
  BY NoneNoClient DEF LoadOrStore, Shape
<1>1. Moves(c, "prepare", call[c].told, c)
  BY <1>c DEF Moves, Call
<1>a. dl[c] \in Download
  BY DEF Shape
<1> DEFINE r == [dl[c] EXCEPT !.phase = "prepare"]
<1>2. dl' = [dl EXCEPT ![c] = r]
  BY <1>a DEF LoadOrStore, Download
<1>3. r \in Download /\ r.phase = "prepare" /\ r.err = dl[c].err
  BY <1>a DEF Download, Phases, Active
<1> HIDE DEF r
<1>4. Changes(c, "prepare", dl[c].err) /\ dl'[c] = r
  BY <1>2, <1>3, ChangesTo
<1>5. Shape'
  BY <1>1, <1>4 DEF LoadOrStore, disk, Shape, Moves, Changes
<1>6. QED
  BY <1>1, <1>3, <1>4, <1>5, NoneNoClient
  DEF LoadOrStore, disk, OneDownload, CallsHaveDownloads, NotToldYet, DataThere, BlobThere,
      Phase, Active, Moves, Changes, Shape

LEMMA JoinInv ==
  ASSUME IInv, NEW c \in Clients, LoadOrStore(c), manager # None
  PROVE  IInv'
<1> USE DEF IInv
<1>1. Moves(c, "join", call[c].told, manager)
  BY DEF LoadOrStore, Moves, Shape, Call
<1>2. Shape'
  BY <1>1 DEF LoadOrStore, disk, Shape, Moves
<1>3. QED
  BY <1>1, <1>2
  DEF LoadOrStore, disk, Shape, OneDownload, CallsHaveDownloads, NotToldYet, DataThere,
      BlobThere, Phase, Moves

LEMMA AcquireInv ==
  ASSUME IInv, NEW c \in Clients, Acquire(c)
  PROVE  IInv'
<1> USE DEF IInv
<1>0. PICK d \in Clients : d = call[c].download
  BY DEF Acquire, CallsHaveDownloads
<1> DEFINE k == dl[d].references + 1
<1>a0. dl[d] \in Download
  BY DEF Shape
<1>b. dl[d].abandoned \in BOOLEAN /\ dl[d].references \in Int
  BY <1>a0 DEF Download
<1>k. k \in Int
  BY <1>b
<1>1. Moves(c, "wait", call[c].told, d)
  BY <1>0, <1>b DEF Acquire, Moves, Shape, Call
<1>a. dl[d] \in Download
  BY DEF Shape
<1> DEFINE r == [dl[d] EXCEPT !.references = k]
<1>2. dl' = [dl EXCEPT ![d] = r]
  BY <1>0, <1>a DEF Acquire, Download
<1> HIDE DEF k
<1>3. r \in Download /\ r.phase = dl[d].phase /\ r.err = dl[d].err
      /\ r.work = dl[d].work /\ r.parts = dl[d].parts
  BY <1>k, <1>a DEF Download, Phases, Active
<1> HIDE DEF r
<1>4. Changes(d, dl[d].phase, dl[d].err) /\ dl'[d] = r
  BY <1>0, <1>2, <1>3, ChangesTo
<1>u. UNCHANGED <<partFile, data, blob, manager>> /\ call[c].pc = "join"
  BY <1>0, NoneNoClient DEF Acquire, disk, Phase
<1>5. Shape'
  BY <1>u, <1>1, <1>4 DEF Shape, Moves, Changes
<1>6. QED
  BY <1>0, <1>u, <1>1, <1>3, <1>4, <1>5, NoneNoClient
  DEF OneDownload, CallsHaveDownloads, NotToldYet, DataThere, BlobThere,
      Phase, Active, Moves, Changes

LEMMA LeaveInv ==
  ASSUME IInv, NEW c \in Clients, call[c].pc = "wait",
         NEW result \in {"ok", "err", "canceled", "gone"}, Leave(c, result)
  PROVE  IInv'
<1> USE DEF IInv
<1>1. PICK d \in Clients : d = call[c].download
  BY DEF CallsHaveDownloads
<1> DEFINE p == IF LastReference(d) THEN "release" ELSE "told"
           b == dl[d].abandoned \/ dl[d].references = 1
           k == dl[d].references - 1
           r == [dl[d] EXCEPT !.references = k, !.abandoned = b]
<1>2. p \in {"release", "told"} /\ b \in BOOLEAN
  OBVIOUS
<1>3. call' = [call EXCEPT ![c].told = result, ![c].pc = p]
  BY <1>1 DEF Leave
<1>4. dl[d] \in Download
  BY DEF Shape
<1>5. dl' = [dl EXCEPT ![d] = r]
  BY <1>1, <1>4 DEF Leave, Download
<1>k. k \in Int
  BY <1>4 DEF Download
<1> HIDE DEF p, b, k
<1>6. r \in Download /\ r.phase = dl[d].phase /\ r.err = dl[d].err
      /\ r.work = dl[d].work /\ r.parts = dl[d].parts
  BY <1>2, <1>4, <1>k DEF Download
<1> HIDE DEF r
<1>7. Moves(c, p, result, d)
  BY <1>1, <1>2, <1>3 DEF Moves, Shape, Call
<1>8. Changes(d, dl[d].phase, dl[d].err) /\ dl'[d] = r
  BY <1>5, <1>6, ChangesTo
<1>9. UNCHANGED <<partFile, data, blob, manager>>
  BY DEF Leave, disk
<1>10. Shape'
  BY <1>7, <1>8, <1>9 DEF Shape, Moves, Changes
<1>11. QED
  BY <1>2, <1>6, <1>7, <1>8, <1>9, <1>10
  DEF OneDownload, CallsHaveDownloads, NotToldYet, DataThere, BlobThere, Phase, Moves, Changes

LEMMA WaitDoneInv ==
  ASSUME IInv, NEW c \in Clients, WaitDone(c)
  PROVE  IInv'
<1>1. PICK d \in Clients : d = call[c].download
  BY DEF WaitDone, IInv, CallsHaveDownloads
<1>2. dl[d].err \in {None, "err", "canceled"}
  BY DEF IInv, Shape, Download
<1> QED
  BY <1>1, <1>2, LeaveInv DEF WaitDone

LEMMA WaitCtxDoneInv ==
  ASSUME IInv, NEW c \in Clients, WaitCtxDone(c)
  PROVE  IInv'
BY LeaveInv DEF WaitCtxDone

LEMMA CancelInv ==
  ASSUME IInv, NEW c \in Clients, Cancel(c)
  PROVE  IInv'
<1> USE DEF IInv
<1>0. PICK d \in Clients : d = call[c].download
  BY DEF Cancel, CallsHaveDownloads
<1>1. Moves(c, "told", call[c].told, d)
  BY <1>0, NoneNoClient DEF Cancel, Moves, Shape, Call
<1>a. dl[d] \in Download
  BY DEF Shape
<1> DEFINE r == [dl[d] EXCEPT !.cancelFunc = "called"]
<1>2. dl' = [dl EXCEPT ![d] = r]
  BY <1>0, <1>a DEF Cancel, Download
<1>3. r \in Download /\ r.phase = dl[d].phase /\ r.err = dl[d].err
      /\ r.work = dl[d].work /\ r.parts = dl[d].parts
  BY <1>a DEF Download, Phases, Active
<1> HIDE DEF r
<1>4. Changes(d, dl[d].phase, dl[d].err) /\ dl'[d] = r
  BY <1>0, <1>2, <1>3, ChangesTo
<1>u. UNCHANGED <<partFile, data, blob, manager>> /\ call[c].pc = "release"
  BY <1>0, NoneNoClient DEF Cancel, disk, Phase
<1>5. Shape'
  BY <1>u, <1>1, <1>4 DEF Shape, Moves, Changes
<1>6. QED
  BY <1>0, <1>u, <1>1, <1>3, <1>4, <1>5, NoneNoClient
  DEF OneDownload, CallsHaveDownloads, NotToldYet, DataThere, BlobThere,
      Phase, Active, Moves, Changes

LEMMA ReadDoneInv ==
  ASSUME IInv, NEW c \in Clients, ReadDone(c)
  PROVE  IInv'
<1> USE DEF IInv
<1>1. Moves(c, "join", call[c].told, call[c].download)
  BY NoneNoClient DEF ReadDone, Prepared, Moves, Shape, Call
<1>a. dl[c] \in Download
  BY DEF Shape
<1> DEFINE r == [dl[c] EXCEPT !.phase = "ready", !.at = 0]
<1>2. dl' = [dl EXCEPT ![c] = r]
  BY <1>a DEF ReadDone, Prepared, Download
<1>3. r \in Download /\ r.phase = "ready" /\ r.err = dl[c].err
  BY <1>a DEF Download, Phases, Active
<1> HIDE DEF r
<1>4. Changes(c, "ready", dl[c].err) /\ dl'[c] = r
  BY <1>2, <1>3, ChangesTo
<1>5. Shape'
  BY <1>1, <1>4 DEF ReadDone, Prepared, disk, Shape, Moves, Changes
<1>6. QED
  BY <1>1, <1>3, <1>4, <1>5, NoneNoClient
  DEF ReadDone, Prepared, disk, OneDownload, CallsHaveDownloads, NotToldYet, DataThere, BlobThere,
      Phase, Active, Moves, Changes, Shape

LEMMA PrepareDoneInv ==
  ASSUME IInv, NEW c \in Clients, PrepareDone(c)
  PROVE  IInv'
<1> USE DEF IInv
<1>1. Moves(c, "join", call[c].told, call[c].download)
  BY NoneNoClient DEF PrepareDone, Prepared, Moves, Shape, Call
<1>a. dl[c] \in Download
  BY DEF Shape
<1> DEFINE r == [dl[c] EXCEPT !.phase = "ready", !.at = 0]
<1>2. dl' = [dl EXCEPT ![c] = r]
  BY <1>a DEF PrepareDone, Prepared, Download
<1>3. r \in Download /\ r.phase = "ready" /\ r.err = dl[c].err
  BY <1>a DEF Download, Phases, Active
<1> HIDE DEF r
<1>4. Changes(c, "ready", dl[c].err) /\ dl'[c] = r
  BY <1>2, <1>3, ChangesTo
<1>5. Shape'
  BY <1>1, <1>4 DEF PrepareDone, Prepared, disk, Shape, Moves, Changes
<1>6. QED
  BY <1>1, <1>3, <1>4, <1>5, NoneNoClient
  DEF PrepareDone, Prepared, disk, OneDownload, CallsHaveDownloads, NotToldYet, DataThere, BlobThere,
      Phase, Active, Moves, Changes, Shape

LEMMA ReadOrHeadFailsInv ==
  ASSUME IInv, NEW c \in Clients, ReadOrHeadFails(c)
  PROVE  IInv'
<1> USE DEF IInv
<1>c. call' = [call EXCEPT ![c].pc = "told", ![c].told = "err"] /\ call \in [Clients -> Call]
  BY NoneNoClient DEF ReadOrHeadFails, PrepareFails, Shape
<1>1. Moves(c, "told", "err", call[c].download)
  BY <1>c DEF Moves, Call
<1>a. dl[c] \in Download
  BY DEF Shape
<1> DEFINE r == [dl[c] EXCEPT !.phase = "failed"]
<1>2. dl' = [dl EXCEPT ![c] = r]
  BY <1>a DEF ReadOrHeadFails, PrepareFails, Download
<1>3. r \in Download /\ r.phase = "failed" /\ r.err = dl[c].err
  BY <1>a DEF Download, Phases, Active
<1> HIDE DEF r
<1>4. Changes(c, "failed", dl[c].err) /\ dl'[c] = r
  BY <1>2, <1>3, ChangesTo
<1>5. Shape'
  BY <1>1, <1>4 DEF ReadOrHeadFails, PrepareFails, disk, Shape, Moves, Changes
<1>6. QED
  BY <1>1, <1>3, <1>4, <1>5, NoneNoClient
  DEF ReadOrHeadFails, PrepareFails, disk, OneDownload, CallsHaveDownloads, NotToldYet, DataThere, BlobThere,
      Phase, Active, Moves, Changes, Shape

LEMMA RunStartInv ==
  ASSUME IInv, NEW d \in Clients, RunStart(d)
  PROVE  IInv'
<1> USE DEF IInv
<1>a. dl[d] \in Download
  BY DEF Shape
<1> DEFINE r == [dl[d] EXCEPT !.phase = "open", !.cancelFunc = "set"]
<1>2. dl' = [dl EXCEPT ![d] = r]
  BY <1>a DEF RunStart, Download
<1>3. r \in Download /\ r.phase = "open" /\ r.err = dl[d].err
  BY <1>a DEF Download, Phases, Active
<1> HIDE DEF r
<1>4. Changes(d, "open", dl[d].err) /\ dl'[d] = r
  BY <1>2, <1>3, ChangesTo
<1>5. Shape'
  BY <1>4 DEF RunStart, disk, Shape, Moves, Changes
<1>6. QED
  BY <1>3, <1>4, <1>5, NoneNoClient
  DEF RunStart, disk, OneDownload, CallsHaveDownloads, NotToldYet, DataThere, BlobThere,
      Phase, Active, Moves, Changes, Shape

LEMMA RunCloseInv ==
  ASSUME IInv, NEW d \in Clients, RunClose(d)
  PROVE  IInv'
<1> USE DEF IInv
<1>a. dl[d] \in Download
  BY DEF Shape
<1> DEFINE r == [dl[d] EXCEPT !.phase = "closed"]
<1>2. dl' = [dl EXCEPT ![d] = r]
  BY <1>a DEF RunClose, Enter, Download
<1>3. r \in Download /\ r.phase = "closed" /\ r.err = dl[d].err
  BY <1>a DEF Download, Phases, Active
<1> HIDE DEF r
<1>4. Changes(d, "closed", dl[d].err) /\ dl'[d] = r
  BY <1>2, <1>3, ChangesTo
<1>5. Shape'
  BY <1>4 DEF RunClose, Enter, disk, Shape, Moves, Changes
<1>6. QED
  BY <1>3, <1>4, <1>5, NoneNoClient
  DEF RunClose, Enter, disk, OneDownload, CallsHaveDownloads, NotToldYet, DataThere, BlobThere,
      Phase, Active, Moves, Changes, Shape

LEMMA HeadOkInv ==
  ASSUME IInv, NEW c \in Clients, HeadOk(c)
  PROVE  IInv'
<1> USE DEF IInv
<1>0. PICK len \in Lengths : dl' = [dl EXCEPT ![c].phase = "split", ![c].total = len]
  BY DEF HeadOk
<1>n. len \in Nat
  BY DownloadAssumption
<1>a. dl[c] \in Download
  BY DEF Shape
<1> DEFINE r == [dl[c] EXCEPT !.phase = "split", !.total = len]
<1>2. dl' = [dl EXCEPT ![c] = r]
  BY <1>0, <1>a DEF HeadOk, Download
<1>3. r \in Download /\ r.phase = "split" /\ r.err = dl[c].err
  BY <1>n, <1>a DEF Download, Phases, Active
<1> HIDE DEF r
<1>4. Changes(c, "split", dl[c].err) /\ dl'[c] = r
  BY <1>0, <1>2, <1>3, ChangesTo
<1>5. Shape'
  BY <1>4 DEF HeadOk, disk, Shape, Moves, Changes
<1>6. QED
  BY <1>0, <1>3, <1>4, <1>5, NoneNoClient
  DEF HeadOk, disk, OneDownload, CallsHaveDownloads, NotToldYet, DataThere, BlobThere,
      Phase, Active, Moves, Changes, Shape

LEMMA ReadPartInv ==
  ASSUME IInv, NEW c \in Clients, ReadPart(c)
  PROVE  IInv'
<1> USE DEF IInv
<1>1. PICK n \in PartNumbers :
        /\ partFile[n] # None /\ partFile[n] # Torn
        /\ dl' = [dl EXCEPT ![c].parts = Append(@, partFile[n]),
                            ![c].total = @ + partFile[n].size,
                            ![c].completed = @ + partFile[n].completed,
                            ![c].at = n + 1]
  BY DEF ReadPart, NextFile, PartFiles
<1>2. partFile[n] \in AnyPart /\ n \in Nat
  BY <1>1, DownloadAssumption DEF Shape, PartNumbers
<1>3. dl[c] \in Download
  BY DEF Shape
<1> DEFINE ps == Append(dl[c].parts, partFile[n])
           t  == dl[c].total + partFile[n].size
           k  == dl[c].completed + partFile[n].completed
           a  == n + 1
           r  == [dl[c] EXCEPT !.parts = ps, !.total = t, !.completed = k, !.at = a]
<1>4. dl' = [dl EXCEPT ![c] = r]
  BY <1>1, <1>3 DEF Download
<1>5. ps \in Seq(AnyPart)
  BY <1>2, <1>3 DEF Download
<1>6. t \in Nat /\ k \in Int /\ a \in Nat
  <2>1. partFile[n].size \in Nat /\ partFile[n].completed \in Nat
    BY <1>2 DEF AnyPart
  <2>2. dl[c].total \in Nat /\ dl[c].completed \in Int
    BY <1>3 DEF Download
  <2> QED
    BY <1>2, <2>1, <2>2
<1> HIDE DEF ps, t, k, a
<1>7. r \in Download /\ r.phase = dl[c].phase /\ r.err = dl[c].err
  BY <1>3, <1>5, <1>6 DEF Download
<1> HIDE DEF r
<1>8. Changes(c, dl[c].phase, dl[c].err)
  BY <1>4, <1>7, ChangesTo
<1>9. UNCHANGED <<partFile, data, blob, manager, call>> /\ dl[c].phase = "prepare"
  BY DEF ReadPart, disk, Phase
<1>10. Shape'
  BY <1>8, <1>9 DEF Shape, Changes
<1>11. QED
  BY <1>8, <1>9, <1>10
  DEF OneDownload, CallsHaveDownloads, NotToldYet, DataThere, BlobThere, Phase, Changes

LEMMA NewPartInv ==
  ASSUME IInv, NEW c \in Clients, NewPart(c)
  PROVE  IInv'
<1> USE DEF IInv
<1>1. NextPart(c) \in AnyPart
  BY NextPartType DEF NewPart
<1>2. dl[c] \in Download
  BY DEF Shape
<1> DEFINE ps == Append(dl[c].parts, NextPart(c))
           a  == dl[c].at + NextPart(c).size
           r  == [dl[c] EXCEPT !.parts = ps, !.total = dl[c].total,
                               !.completed = dl[c].completed, !.at = a]
<1>3. dl' = [dl EXCEPT ![c] = r]
  BY <1>2 DEF NewPart, Download
<1>4. ps \in Seq(AnyPart)
  BY <1>1, <1>2 DEF Download
<1>5. dl[c].total \in Nat /\ dl[c].completed \in Int /\ a \in Nat
  BY <1>1, <1>2 DEF Download, AnyPart
<1> HIDE DEF ps, a
<1>6. r \in Download /\ r.phase = dl[c].phase /\ r.err = dl[c].err
  BY <1>2, <1>4, <1>5 DEF Download
<1> HIDE DEF r
<1>7. Changes(c, dl[c].phase, dl[c].err)
  BY <1>3, <1>6, ChangesTo
<1>8. UNCHANGED <<data, blob, manager, call>> /\ dl[c].phase = "split"
  BY DEF NewPart, Unsplit, Phase
<1>9. partFile' \in [PartNumbers -> AnyPart \cup {None, Torn}]
  BY <1>1 DEF NewPart, Shape
<1>10. Shape'
  BY <1>7, <1>8, <1>9 DEF Shape, Changes
<1>11. QED
  BY <1>7, <1>8, <1>10
  DEF OneDownload, CallsHaveDownloads, NotToldYet, DataThere, BlobThere, Phase, Changes

LEMMA NewPartFailsInv ==
  ASSUME IInv, NEW c \in Clients, NewPartFails(c)
  PROVE  IInv'
<1> USE DEF IInv
<1>c. call' = [call EXCEPT ![c].pc = "told", ![c].told = "err"] /\ call \in [Clients -> Call]
  BY NoneNoClient DEF NewPartFails, PrepareFails, Unsplit, Shape
<1>1. Moves(c, "told", "err", call[c].download)
  BY <1>c DEF Moves, Call
<1>a. dl[c] \in Download
  BY DEF Shape
<1> DEFINE r == [dl[c] EXCEPT !.phase = "failed"]
<1>2. dl' = [dl EXCEPT ![c] = r]
  BY <1>a DEF NewPartFails, PrepareFails, Unsplit, Download
<1>3. r \in Download /\ r.phase = "failed" /\ r.err = dl[c].err
  BY <1>a DEF Download, Phases, Active
<1> HIDE DEF r
<1>4. Changes(c, "failed", dl[c].err) /\ dl'[c] = r
  BY <1>2, <1>3, ChangesTo
<1>5. Shape'
  BY <1>1, <1>4 DEF NewPartFails, PrepareFails, Unsplit, disk, Shape, Moves, Changes
<1>6. QED
  BY <1>1, <1>3, <1>4, <1>5, NoneNoClient
  DEF NewPartFails, PrepareFails, Unsplit, disk, OneDownload, CallsHaveDownloads, NotToldYet, DataThere, BlobThere,
      Phase, Active, Moves, Changes, Shape

LEMMA RunOpenInv ==
  ASSUME IInv, NEW d \in Clients, RunOpen(d)
  PROVE  IInv'
<1> USE DEF IInv
<1>1. dl[d] \in Download /\ dl[d].total \in Nat
  BY DEF Shape, Download
<1>2. data' \in Seq(BOOLEAN)
  <2>1. CASE data = None
    <3>1. <<>> \in Seq(BOOLEAN)
      OBVIOUS
    <3> QED
      BY <1>1, <2>1, <3>1, TruncatedType DEF RunOpen
  <2>2. CASE data # None
    BY <1>1, <2>2, TruncatedType DEF RunOpen, Shape
  <2> QED
    BY <2>1, <2>2
<1>3. data' # None
  BY <1>2, DownloadAssumption
<1> DEFINE r == [dl[d] EXCEPT !.phase = "direct"]
<1>4. dl' = [dl EXCEPT ![d] = r]
  BY <1>1 DEF RunOpen, Enter
<1>5. r \in Download /\ r.phase = "direct" /\ r.err = dl[d].err
  BY <1>1 DEF Download, Phases, Active
<1> HIDE DEF r
<1>6. Changes(d, "direct", dl[d].err)
  BY <1>4, <1>5, ChangesTo
<1>7. UNCHANGED <<partFile, blob, manager, call>> /\ dl[d].phase = "open"
  BY DEF RunOpen, Enter, Phase
<1>8. Shape'
  BY <1>2, <1>6, <1>7 DEF Shape, Changes
<1>9. QED
  BY <1>3, <1>6, <1>7, <1>8
  DEF OneDownload, CallsHaveDownloads, NotToldYet, DataThere, BlobThere, Phase, Active, Changes

LEMMA RunDirectInv ==
  ASSUME IInv, NEW d \in Clients, RunDirect(d)
  PROVE  IInv'
<1> USE DEF IInv
<1>1. dl[d] \in Download /\ dl[d].parts \in Seq(AnyPart)
  BY DEF Shape, Download
<1> DEFINE w == [i \in DOMAIN dl[d].parts |->
                   Ended(IF Remaining(d, i) = 0 THEN "done" ELSE "recv")]
           r == [dl[d] EXCEPT !.phase = "fetch", !.work = w]
<1>2. w \in Seq(AnyWork) /\ DOMAIN w = DOMAIN dl[d].parts
  <2>1. \A i \in DOMAIN dl[d].parts :
          Ended(IF Remaining(d, i) = 0 THEN "done" ELSE "recv") \in AnyWork
    BY DEF Ended, AnyWork
  <2>2. PICK n \in Nat : DOMAIN dl[d].parts = 1 .. n
    BY <1>1
  <2>3. w \in [1 .. n -> AnyWork]
    BY <2>1, <2>2
  <2> QED
    BY <2>2, <2>3
<1>3. dl' = [dl EXCEPT ![d] = r]
  BY <1>1 DEF RunDirect, Download
<1> HIDE DEF w
<1>4. r \in Download /\ r.phase = "fetch" /\ r.err = dl[d].err
      /\ DOMAIN r.work = DOMAIN r.parts
  BY <1>1, <1>2 DEF Download, Phases, Active
<1> HIDE DEF r
<1>5. Changes(d, "fetch", dl[d].err) /\ dl'[d] = r
  BY <1>3, <1>4, ChangesTo
<1>6. UNCHANGED <<partFile, data, blob, manager, call>> /\ dl[d].phase = "direct"
  BY DEF RunDirect, disk, Phase
<1>7. Shape'
  BY <1>5, <1>6 DEF Shape, Changes
<1>8. QED
  BY <1>4, <1>5, <1>6, <1>7
  DEF OneDownload, CallsHaveDownloads, NotToldYet, DataThere, BlobThere, Phase, Active, Changes

LEMMA FinishChanges ==
  ASSUME IInv, NEW d \in Clients, NEW e \in {None, "err", "canceled"}, Finish(d, e)
  PROVE  Changes(d, "left", e) /\ manager' = None
<1> DEFINE k == dl[d].references
           f == dl[d].cancelFunc
           b == dl[d].abandoned
           r == [NewDownload EXCEPT !.phase = "left", !.err = e, !.references = k,
                                    !.cancelFunc = f, !.abandoned = b]
<1>1. dl' = [dl EXCEPT ![d] = r] /\ manager' = None
  BY DEF Finish
<1>2. k \in Int /\ f \in {"nil", "set", "called"} /\ b \in BOOLEAN
  BY DEF IInv, Shape, Download
<1> HIDE DEF k, f, b
<1>3. r \in Download /\ r.phase = "left" /\ r.err = e
  BY <1>2, NewDownloadType DEF Download, Phases
<1>4. dl \in [Clients -> Download]
  BY DEF IInv, Shape
<1> HIDE DEF r
<1> QED
  BY <1>1, <1>3, <1>4 DEF Changes

LEMMA FinishInv ==
  ASSUME IInv, NEW d \in Clients, NEW e \in {"err", "canceled"}, Finish(d, e),
         Phase(d) \in {"open", "direct", "fetch", "remove"}, UNCHANGED <<disk, call>>
  PROVE  IInv'
<1> USE DEF IInv
<1>1. Changes(d, "left", e) /\ manager' = None
  BY FinishChanges
<1>2. UNCHANGED <<partFile, data, blob, call>>
  BY DEF disk
<1>3. Shape'
  BY <1>1, <1>2 DEF Shape, Changes
<1>4. QED
  BY <1>1, <1>2, <1>3, DownloadAssumption
  DEF OneDownload, CallsHaveDownloads, NotToldYet, DataThere, BlobThere, Phase, Active, Changes

LEMMA RunFailsInv ==
  ASSUME IInv, NEW d \in Clients, RunFails(d)
  PROVE  IInv'
<1>1. UNCHANGED <<disk, call>> /\ Phase(d) \in {"open", "direct", "remove"}
  BY DEF RunFails
<1>2. PICK e \in {"err", "canceled"} : Finish(d, e)
  BY DEF RunFails
<1> QED
  BY <1>1, <1>2, FinishInv

LEMMA RunFetchedInv ==
  ASSUME IInv, NEW d \in Clients, RunFetched(d)
  PROVE  IInv'
<1> USE DEF IInv
<1>1. CASE dl[d].err # None
  <2>1. dl[d].err \in {"err", "canceled"}
    BY <1>1 DEF Shape, Download
  <2> QED
    BY <1>1, <2>1, FinishInv DEF RunFetched
<1>2. CASE dl[d].err = None
  <2>1. dl[d] \in Download
    BY DEF Shape
  <2> DEFINE r == [dl[d] EXCEPT !.phase = "remove"]
  <2>2. dl' = [dl EXCEPT ![d] = r]
    BY <1>2 DEF RunFetched, Enter
  <2>3. r \in Download /\ r.phase = "remove" /\ r.err = dl[d].err
    BY <2>1 DEF Download, Phases, Active
  <2> HIDE DEF r
  <2>4. Changes(d, "remove", dl[d].err)
    BY <2>2, <2>3, ChangesTo
  <2>5. UNCHANGED <<partFile, data, blob, manager, call>> /\ dl[d].phase = "fetch"
    BY <1>2 DEF RunFetched, Enter, disk, Phase
  <2>6. Shape'
    BY <2>4, <2>5 DEF Shape, Changes
  <2> QED
    BY <2>4, <2>5, <2>6
    DEF OneDownload, CallsHaveDownloads, NotToldYet, DataThere, BlobThere, Phase, Active,
        Changes
<1> QED
  BY <1>1, <1>2

LEMMA RunRemoveInv ==
  ASSUME IInv, NEW d \in Clients, RunRemove(d)
  PROVE  IInv'
<1> USE DEF IInv
<1>1. CASE partFile[dl[d].at] = None
  BY <1>1, FinishInv DEF RunRemove, disk
<1>2. CASE partFile[dl[d].at] # None
  <2>1. dl[d] \in Download
    BY DEF Shape
  <2> DEFINE a == dl[d].at + 1
             r == [dl[d] EXCEPT !.at = a]
  <2>a. a \in Nat
    BY <2>1 DEF Download
  <2>2. dl' = [dl EXCEPT ![d] = r]
    BY <1>2 DEF RunRemove
  <2> HIDE DEF a
  <2>3. r \in Download /\ r.phase = dl[d].phase /\ r.err = dl[d].err
    BY <2>1, <2>a DEF Download
  <2> HIDE DEF r
  <2>4. Changes(d, dl[d].phase, dl[d].err)
    BY <2>2, <2>3, ChangesTo
  <2>5. UNCHANGED <<data, blob, manager, call>> /\ dl[d].phase = "remove"
    BY <1>2 DEF RunRemove, Phase
  <2>6. partFile' \in [PartNumbers -> AnyPart \cup {None, Torn}]
    BY <1>2 DEF RunRemove, Shape
  <2>7. Shape'
    BY <2>4, <2>5, <2>6 DEF Shape, Changes
  <2> QED
    BY <2>4, <2>5, <2>7
    DEF OneDownload, CallsHaveDownloads, NotToldYet, DataThere, BlobThere, Phase, Changes
<1> QED
  BY <1>1, <1>2

LEMMA RunRenameInv ==
  ASSUME IInv, NEW d \in Clients, RunRename(d)
  PROVE  IInv'
<1> USE DEF IInv
<1>1. Changes(d, "left", None) /\ manager' = None
  BY FinishChanges DEF RunRename
<1>2. UNCHANGED <<partFile, call>> /\ blob' = data /\ data' = None /\ dl[d].phase = "remove"
  BY DEF RunRename, Phase
<1>3. blob' # None
  BY <1>2 DEF DataThere, Phase
<1>4. \A x \in Clients \ {d} : dl[x].phase \notin Active
  BY <1>2 DEF OneDownload, Phase, Active
<1>5. Shape'
  BY <1>1, <1>2 DEF Shape, Changes
<1>6. QED
  BY <1>1, <1>2, <1>3, <1>4, <1>5, NoneNoClient
  DEF OneDownload, CallsHaveDownloads, NotToldYet, DataThere, BlobThere, Phase, Active, Changes

LEMMA WorkPut ==
  ASSUME NEW ws \in Seq(AnyWork), NEW i \in DOMAIN ws, NEW w \in AnyWork
  PROVE  [ws EXCEPT ![i] = w] \in Seq(AnyWork) /\ DOMAIN [ws EXCEPT ![i] = w] = DOMAIN ws
OBVIOUS

LEMMA PartPut ==
  ASSUME NEW ps \in Seq(AnyPart), NEW i \in DOMAIN ps, NEW p \in AnyPart
  PROVE  [ps EXCEPT ![i] = p] \in Seq(AnyPart) /\ DOMAIN [ps EXCEPT ![i] = p] = DOMAIN ps
OBVIOUS

\* What every step of downloadChunk leaves behind: its download still fetches.
LEMMA ChunkStep ==
  ASSUME IInv, NEW d \in Clients, dl[d].phase = "fetch",
         NEW ps \in Seq(AnyPart), DOMAIN ps = DOMAIN dl[d].parts,
         NEW ws \in Seq(AnyWork), DOMAIN ws = DOMAIN dl[d].work,
         NEW k \in Int, NEW e \in {None, "err", "canceled"},
         dl' = [dl EXCEPT ![d] = [dl[d] EXCEPT !.parts = ps, !.work = ws,
                                               !.completed = k, !.err = e]],
         partFile' \in [PartNumbers -> AnyPart \cup {None, Torn}],
         data' \in Seq(BOOLEAN), UNCHANGED <<blob, manager, call>>
  PROVE  IInv'
<1> USE DEF IInv
<1> DEFINE r == [dl[d] EXCEPT !.parts = ps, !.work = ws, !.completed = k, !.err = e]
<1>1. dl[d] \in Download
  BY DEF Shape
<1>2. r \in Download /\ r.phase = "fetch" /\ r.err = e /\ r.work = ws /\ r.parts = ps
  BY <1>1 DEF Download
<1>3. dl' = [dl EXCEPT ![d] = r]
  OBVIOUS
<1> HIDE DEF r
<1>4. Changes(d, "fetch", e) /\ dl'[d] = r
  BY <1>2, <1>3 DEF Changes, Shape
<1>5. Shape'
  BY <1>4 DEF Shape, Changes
<1>6. data' # None
  BY DownloadAssumption
<1>7. DOMAIN ws = DOMAIN ps
  BY DEF DataThere, Phase
<1>8. QED
  BY <1>2, <1>4, <1>5, <1>6, <1>7
  DEF OneDownload, CallsHaveDownloads, NotToldYet, DataThere, BlobThere, Phase, Active, Changes

\* What downloadChunk works on.
LEMMA ChunkTypes ==
  ASSUME IInv, NEW d \in Clients, NEW i \in DOMAIN dl[d].work, InChunk(d, i)
  PROVE  /\ dl[d] \in Download
         /\ dl[d].phase = "fetch"
         /\ dl[d].parts \in Seq(AnyPart) /\ i \in DOMAIN dl[d].parts
         /\ Part(d, i) \in AnyPart
         /\ dl[d].work \in Seq(AnyWork) /\ dl[d].work[i] \in AnyWork
         /\ dl[d].completed \in Int
         /\ dl[d].err \in {None, "err", "canceled"}
         /\ data \in Seq(BOOLEAN)
<1>1. dl[d] \in Download /\ dl[d].phase = "fetch"
  BY DEF IInv, Shape, InChunk, Phase
<1>2. dl[d].parts \in Seq(AnyPart) /\ dl[d].work \in Seq(AnyWork)
      /\ dl[d].completed \in Int /\ dl[d].err \in {None, "err", "canceled"}
  BY <1>1 DEF Download
<1>3. i \in DOMAIN dl[d].parts /\ data # None
  BY <1>1 DEF IInv, DataThere, Phase
<1>4. Part(d, i) \in AnyPart /\ dl[d].work[i] \in AnyWork
  BY <1>2, <1>3 DEF Part
<1>5. data \in Seq(BOOLEAN)
  BY <1>3 DEF IInv, Shape
<1> QED
  BY <1>1, <1>2, <1>3, <1>4, <1>5

LEMMA KeptType ==
  ASSUME IInv, NEW d \in Clients, NEW i \in DOMAIN dl[d].work, InChunk(d, i)
  PROVE  Kept(d, i) \in AnyPart
<1>1. Part(d, i) \in AnyPart /\ dl[d].work[i] \in AnyWork
  BY ChunkTypes
<1>2. dl[d].work[i].got \in Nat
  BY <1>1 DEF AnyWork
<1> QED
  BY <1>1, <1>2 DEF Kept, AnyPart

LEMMA WorkTypes ==
  /\ \A w \in AnyWork : Counted(w) \in AnyWork /\ Stalled(w) \in AnyWork /\ Heard(w) \in AnyWork
  /\ Ended("done") \in AnyWork /\ Ended("failed") \in AnyWork
<1>1. Ended("done") \in AnyWork /\ Ended("failed") \in AnyWork
  BY DEF Ended, AnyWork
<1>2. ASSUME NEW w \in AnyWork
      PROVE  [w EXCEPT !.got = 0, !.try = @ + 1] \in AnyWork /\ Heard(w) \in AnyWork
  <2>1. w.try + 1 \in Nat /\ w.got + 1 \in Nat
    BY DEF AnyWork
  <2>2. ASSUME NEW g \in Nat, NEW t \in Nat, NEW h \in BOOLEAN
        PROVE  [w EXCEPT !.got = g, !.try = t] \in AnyWork
               /\ [w EXCEPT !.got = g, !.heard = h] \in AnyWork
    BY DEF AnyWork
  <2> QED
    BY <2>1, <2>2 DEF Heard
<1>3. ASSUME NEW w \in AnyWork
      PROVE  Stalled(w) \in AnyWork
  BY DEF AnyWork, Stalled
<1> QED
  BY <1>1, <1>2, <1>3 DEF Counted

LEMMA ChunkReceiveInv ==
  ASSUME IInv, NEW d \in Clients, NEW i \in DOMAIN dl[d].work, ChunkReceive(d, i)
  PROVE  IInv'
<1> DEFINE w  == Heard(dl[d].work[i])
           ws == [dl[d].work EXCEPT ![i] = w]
           k  == dl[d].completed + 1
<1>0. InChunk(d, i)
  BY DEF ChunkReceive
<1>1. /\ dl[d] \in Download
      /\ dl[d].phase = "fetch"
      /\ dl[d].parts \in Seq(AnyPart)
      /\ Part(d, i) \in AnyPart
      /\ dl[d].work \in Seq(AnyWork) /\ dl[d].work[i] \in AnyWork
      /\ dl[d].completed \in Int
      /\ dl[d].err \in {None, "err", "canceled"}
      /\ data \in Seq(BOOLEAN)
  BY <1>0, ChunkTypes
<1>2. w \in AnyWork
  BY <1>1, WorkTypes
<1>3. ws \in Seq(AnyWork) /\ DOMAIN ws = DOMAIN dl[d].work
  BY <1>1, <1>2, WorkPut
<1>4. dl' = [dl EXCEPT ![d] = [dl[d] EXCEPT !.parts = dl[d].parts, !.work = ws,
                                            !.completed = k, !.err = dl[d].err]]
  BY <1>1 DEF ChunkReceive, Download
<1>5. data' \in Seq(BOOLEAN)
  <2>1. Part(d, i).offset \in Nat /\ Part(d, i).completed \in Nat /\ dl[d].work[i].got \in Nat
    BY <1>1 DEF AnyPart, AnyWork
  <2> DEFINE n == Part(d, i).offset + Part(d, i).completed + dl[d].work[i].got + 1
  <2>2. n \in Nat
    BY <2>1
  <2>3. data' = Written(data, n)
    BY DEF ChunkReceive
  <2> HIDE DEF n
  <2> QED
    BY <1>1, <2>2, <2>3, WrittenType
<1>6. partFile' \in [PartNumbers -> AnyPart \cup {None, Torn}]
  BY DEF ChunkReceive, IInv, Shape
<1>7. k \in Int /\ UNCHANGED <<blob, manager, call>>
  BY <1>1 DEF ChunkReceive
<1> HIDE DEF w, ws, k
<1> QED
  BY <1>1, <1>3, <1>4, <1>5, <1>6, <1>7, ChunkStep

LEMMA EndKeepingInv ==
  ASSUME IInv, NEW d \in Clients, NEW i \in DOMAIN dl[d].work, InChunk(d, i),
         NEW w \in AnyWork, NEW e \in {None, "err", "canceled"}, EndKeeping(d, i, w, e)
  PROVE  IInv'
<1> DEFINE p  == Kept(d, i)
           ps == [dl[d].parts EXCEPT ![i] = p]
           ws == [dl[d].work EXCEPT ![i] = w]
           x  == IF dl[d].err = None /\ w.pc = "failed" THEN e ELSE dl[d].err
<1>1. /\ dl[d] \in Download
      /\ dl[d].phase = "fetch"
      /\ dl[d].parts \in Seq(AnyPart) /\ i \in DOMAIN dl[d].parts
      /\ dl[d].work \in Seq(AnyWork)
      /\ dl[d].completed \in Int
      /\ dl[d].err \in {None, "err", "canceled"}
      /\ data \in Seq(BOOLEAN)
  BY ChunkTypes
<1>2. p \in AnyPart
  BY KeptType
<1>3. partFile' \in [PartNumbers -> AnyPart \cup {None, Torn}]
  BY <1>2 DEF EndKeeping, IInv, Shape
<1>4. UNCHANGED <<blob, manager, call, data>>
  BY DEF EndKeeping
<1>x. x \in {None, "err", "canceled"}
  BY <1>1
<1>5. dl' = [dl EXCEPT ![d].parts[i] = p, ![d].work[i] = w, ![d].err = x]
  BY DEF EndKeeping
<1> HIDE DEF p, x
<1>6. ps \in Seq(AnyPart) /\ DOMAIN ps = DOMAIN dl[d].parts
  BY <1>1, <1>2, PartPut
<1>7. ws \in Seq(AnyWork) /\ DOMAIN ws = DOMAIN dl[d].work
  BY <1>1, WorkPut
<1>8. dl' = [dl EXCEPT ![d] = [dl[d] EXCEPT !.parts = ps, !.work = ws,
                                            !.completed = dl[d].completed, !.err = x]]
  BY <1>1, <1>5 DEF Download
<1> HIDE DEF ps, ws
<1> QED
  BY <1>1, <1>3, <1>4, <1>x, <1>6, <1>7, <1>8, ChunkStep

LEMMA ChunkEndInv ==
  ASSUME IInv, NEW d \in Clients, NEW i \in DOMAIN dl[d].work,
         ChunkDone(d, i) \/ ChunkCut(d, i) \/ ChunkStalled(d, i) \/ ChunkCanceled(d, i)
  PROVE  IInv'
<1>1. InChunk(d, i)
  BY DEF ChunkDone, ChunkCut, ChunkStalled, ChunkCanceled
<1>2. dl[d].work[i] \in AnyWork
  BY <1>1, ChunkTypes
<1>3. CASE ChunkDone(d, i)
  BY <1>1, <1>3, WorkTypes, EndKeepingInv DEF ChunkDone
<1>4. CASE ChunkCut(d, i)
  BY <1>1, <1>2, <1>4, WorkTypes, EndKeepingInv DEF ChunkCut
<1>5. CASE ChunkStalled(d, i)
  BY <1>1, <1>2, <1>5, WorkTypes, EndKeepingInv DEF ChunkStalled
<1>6. CASE ChunkCanceled(d, i)
  BY <1>1, <1>6, WorkTypes, EndKeepingInv DEF ChunkCanceled
<1> QED
  BY <1>3, <1>4, <1>5, <1>6

LEMMA ChunkErrorInv ==
  ASSUME IInv, NEW d \in Clients, NEW i \in DOMAIN dl[d].work, ChunkError(d, i)
  PROVE  IInv'
<1> DEFINE ps == dl[d].parts
           w  == Counted(dl[d].work[i])
           ws == [dl[d].work EXCEPT ![i] = w]
           k  == RolledBack(d, i)
           x  == IF dl[d].err = None /\ w.pc = "failed" THEN "err" ELSE dl[d].err
<1>0. InChunk(d, i)
  BY DEF ChunkError
<1>1. /\ dl[d] \in Download
      /\ dl[d].phase = "fetch"
      /\ dl[d].parts \in Seq(AnyPart) /\ i \in DOMAIN dl[d].parts
      /\ dl[d].work \in Seq(AnyWork) /\ dl[d].work[i] \in AnyWork
      /\ dl[d].completed \in Int
      /\ dl[d].err \in {None, "err", "canceled"}
      /\ data \in Seq(BOOLEAN)
  BY <1>0, ChunkTypes
<1>2. w \in AnyWork
  BY <1>1, WorkTypes
<1>3. k \in Int
  <2>1. dl[d].work[i].got \in Nat
    BY <1>1 DEF AnyWork
  <2> QED
    BY <1>1, <2>1 DEF RolledBack
<1>4. x \in {None, "err", "canceled"}
  BY <1>1
<1>5. dl' = [dl EXCEPT ![d] = [dl[d] EXCEPT !.parts = ps, !.work = ws, !.completed = k, !.err = x]]
  BY <1>1 DEF ChunkError, Download
<1>6. partFile' \in [PartNumbers -> AnyPart \cup {None, Torn}]
  BY DEF ChunkError, disk, IInv, Shape
<1>7. UNCHANGED <<blob, manager, call, data>>
  BY DEF ChunkError, disk
<1>8. ps \in Seq(AnyPart) /\ DOMAIN ps = DOMAIN dl[d].parts
  BY <1>0, <1>1, KeptType, PartPut
<1> HIDE DEF w
<1>9. ws \in Seq(AnyWork) /\ DOMAIN ws = DOMAIN dl[d].work
  BY <1>1, <1>2, WorkPut
<1> HIDE DEF ps, ws, k, x
<1> QED
  BY <1>1, <1>3, <1>4, <1>5, <1>6, <1>7, <1>8, <1>9, ChunkStep

LEMMA ChunkNoSpaceInv ==
  ASSUME IInv, NEW d \in Clients, NEW i \in DOMAIN dl[d].work, ChunkNoSpace(d, i)
  PROVE  IInv'
<1> DEFINE ps == dl[d].parts
           w  == Ended("failed")
           ws == [dl[d].work EXCEPT ![i] = w]
           k  == 1 + RolledBack(d, i)
           x  == IF dl[d].err = None THEN "err" ELSE dl[d].err
<1>0. InChunk(d, i)
  BY DEF ChunkNoSpace
<1>1. /\ dl[d] \in Download
      /\ dl[d].phase = "fetch"
      /\ dl[d].parts \in Seq(AnyPart) /\ i \in DOMAIN dl[d].parts
      /\ dl[d].work \in Seq(AnyWork) /\ dl[d].work[i] \in AnyWork
      /\ dl[d].completed \in Int
      /\ dl[d].err \in {None, "err", "canceled"}
      /\ data \in Seq(BOOLEAN)
  BY <1>0, ChunkTypes
<1>2. w \in AnyWork
  BY <1>1, WorkTypes
<1>3. k \in Int
  <2>1. dl[d].work[i].got \in Nat
    BY <1>1 DEF AnyWork
  <2> QED
    BY <1>1, <2>1 DEF RolledBack
<1>4. x \in {None, "err", "canceled"}
  BY <1>1
<1>5. dl' = [dl EXCEPT ![d] = [dl[d] EXCEPT !.parts = ps, !.work = ws, !.completed = k, !.err = x]]
  BY <1>1 DEF ChunkNoSpace, Download
<1>6. partFile' \in [PartNumbers -> AnyPart \cup {None, Torn}]
  BY DEF ChunkNoSpace, disk, IInv, Shape
<1>7. UNCHANGED <<blob, manager, call, data>>
  BY DEF ChunkNoSpace, disk
<1>8. ps \in Seq(AnyPart) /\ DOMAIN ps = DOMAIN dl[d].parts
  BY <1>0, <1>1, KeptType, PartPut
<1> HIDE DEF w
<1>9. ws \in Seq(AnyWork) /\ DOMAIN ws = DOMAIN dl[d].work
  BY <1>1, <1>2, WorkPut
<1> HIDE DEF ps, ws, k, x
<1> QED
  BY <1>1, <1>3, <1>4, <1>5, <1>6, <1>7, <1>8, <1>9, ChunkStep

LEMMA ChunkPartNoSpaceInv ==
  ASSUME IInv, NEW d \in Clients, NEW i \in DOMAIN dl[d].work, ChunkPartNoSpace(d, i)
  PROVE  IInv'
<1> DEFINE ps == [dl[d].parts EXCEPT ![i] = Kept(d, i)]
           w  == Ended("failed")
           ws == [dl[d].work EXCEPT ![i] = w]
           k  == dl[d].completed
           x  == IF dl[d].err = None THEN "err" ELSE dl[d].err
<1>0. InChunk(d, i)
  BY DEF ChunkPartNoSpace
<1>1. /\ dl[d] \in Download
      /\ dl[d].phase = "fetch"
      /\ dl[d].parts \in Seq(AnyPart) /\ i \in DOMAIN dl[d].parts
      /\ dl[d].work \in Seq(AnyWork) /\ dl[d].work[i] \in AnyWork
      /\ dl[d].completed \in Int
      /\ dl[d].err \in {None, "err", "canceled"}
      /\ data \in Seq(BOOLEAN)
  BY <1>0, ChunkTypes
<1>2. w \in AnyWork
  BY <1>1, WorkTypes
<1>3. k \in Int
  <2>1. dl[d].work[i].got \in Nat
    BY <1>1 DEF AnyWork
  <2> QED
    BY <1>1, <2>1 DEF RolledBack
<1>4. x \in {None, "err", "canceled"}
  BY <1>1
<1>5. dl' = [dl EXCEPT ![d] = [dl[d] EXCEPT !.parts = ps, !.work = ws, !.completed = k, !.err = x]]
  BY <1>1 DEF ChunkPartNoSpace, Download
<1>6. partFile' \in [PartNumbers -> AnyPart \cup {None, Torn}]
  BY DEF ChunkPartNoSpace, disk, IInv, Shape
<1>7. UNCHANGED <<blob, manager, call, data>>
  BY DEF ChunkPartNoSpace, disk
<1>8. ps \in Seq(AnyPart) /\ DOMAIN ps = DOMAIN dl[d].parts
  BY <1>0, <1>1, KeptType, PartPut
<1> HIDE DEF w
<1>9. ws \in Seq(AnyWork) /\ DOMAIN ws = DOMAIN dl[d].work
  BY <1>1, <1>2, WorkPut
<1> HIDE DEF ps, ws, k, x
<1> QED
  BY <1>1, <1>3, <1>4, <1>5, <1>6, <1>7, <1>8, <1>9, ChunkStep

LEMMA RestartInv ==
  ASSUME IInv, NEW T, NEW K, NEW dataToo, Restart(T, K, dataToo)
  PROVE  IInv'
<1> USE DEF IInv
<1>1. partFile' \in [PartNumbers -> AnyPart \cup {None, Torn}]
  BY DEF Restart, Shape
<1>2. data' \in Seq(BOOLEAN) \cup {None} /\ UNCHANGED blob /\ manager' = None
  BY DEF Restart, Shape
<1>3. dl' \in [Clients -> Download] /\ \A d \in Clients : dl'[d].phase = "none"
  BY NewDownloadType DEF Restart, NewDownload
<1>4. /\ call' \in [Clients -> Call]
      /\ \A c \in Clients : \/ call'[c] = call[c] /\ call[c].pc \in {"start", "told"}
                            \/ call'[c].pc = "told"
  <2>1. ASSUME NEW c \in Clients
        PROVE  /\ call'[c] \in Call
               /\ \/ call'[c] = call[c] /\ call[c].pc \in {"start", "told"}
                  \/ call'[c].pc = "told"
    <3>1. call[c] \in Call
      BY DEF Shape
    <3>2. CASE InFlight(c)
      <4>1. call'[c] = [call[c] EXCEPT !.pc = "told", !.download = None,
                                       !.told = IF @ = None THEN "lost" ELSE @]
        BY <3>2 DEF Restart
      <4> QED
        BY <3>1, <4>1 DEF Call
    <3>3. CASE ~InFlight(c)
      BY <3>1, <3>3 DEF Restart, InFlight
    <3> QED
      BY <3>2, <3>3
  <2>2. call' = [c \in Clients |-> call'[c]]
    BY DEF Restart
  <2> QED
    BY <2>1, <2>2
<1>5. Shape'
  BY <1>1, <1>2, <1>3, <1>4 DEF Shape
<1>6. QED
  BY <1>2, <1>3, <1>4, <1>5, NoneNoClient
  DEF OneDownload, CallsHaveDownloads, NotToldYet, DataThere, BlobThere, Phase, Active

LEMMA StepInv == IInv /\ [Next]_vars => IInv'
<1> SUFFICES ASSUME IInv, [Next]_vars PROVE IInv'
  OBVIOUS
<1>1. ASSUME NEW c \in Clients, Client(c) PROVE IInv'
  <2>1. CASE Stat(c)
    BY <2>1, StatInv
  <2>2. CASE LoadOrStore(c)
    BY <2>2, StoreNewInv, JoinInv
  <2>3. CASE Acquire(c)
    BY <2>3, AcquireInv
  <2>4. CASE WaitDone(c)
    BY <2>4, WaitDoneInv
  <2>5. CASE Cancel(c)
    BY <2>5, CancelInv
  <2>6. CASE Panic(c)
    BY <2>6, RestartInv DEF Panic
  <2> QED
    BY <1>1, <2>1, <2>2, <2>3, <2>4, <2>5, <2>6 DEF Client
<1>2. ASSUME NEW c \in Clients, Prepare(c) PROVE IInv'
  BY <1>2, ReadPartInv, ReadDoneInv, HeadOkInv, ReadOrHeadFailsInv, NewPartInv,
     NewPartFailsInv, PrepareDoneInv DEF Prepare
<1>3. ASSUME NEW d \in Clients, Run(d) PROVE IInv'
  BY <1>3, RunStartInv, RunOpenInv, RunDirectInv, RunFailsInv, RunFetchedInv,
     RunRemoveInv, RunRenameInv, RunCloseInv DEF Run
<1>4. ASSUME NEW d \in Clients, NEW i \in DOMAIN dl[d].work, Chunk(d, i) PROVE IInv'
  BY <1>4, ChunkReceiveInv, ChunkEndInv, ChunkErrorInv, ChunkNoSpaceInv,
     ChunkPartNoSpaceInv DEF Chunk
<1>5. ASSUME NEW c \in Clients, WaitCtxDone(c) PROVE IInv'
  BY <1>5, WaitCtxDoneInv
<1>6. CASE Crash
  BY <1>6, RestartInv DEF Crash
<1>7. CASE UNCHANGED vars
  BY <1>7 DEF vars, disk, IInv, Shape, OneDownload, CallsHaveDownloads, NotToldYet,
              DataThere, BlobThere, Phase
<1> QED
  BY <1>1, <1>2, <1>3, <1>4, <1>5, <1>6, <1>7 DEF Next, Progress, Quiet

\* The inductive invariant holds in every state of every behaviour.
THEOREM Invariant == Spec => []IInv
BY InitInv, StepInv, PTL DEF Spec

\* At most one download works on the files of a blob, and it is the one that
\* blobDownloadManager holds: whatever Prepare, run, the parts, the callers, a
\* panic and a restart do, in any order.
THEOREM OneDownloadAlways == Spec => []OneDownload
<1>1. IInv => OneDownload
  BY DEF IInv
<1> QED
  BY Invariant, <1>1, PTL

-----------------------------------------------------------------------------
(* The refinement: what each step is to the callers. *)

LEMMA FetchStutter ==
  ASSUME UNCHANGED blob, \A c \in Clients : call'[c].told = call[c].told
  PROVE  UNCHANGED Fetch!fetchVars
BY DEF Fetch!fetchVars

LEMMA FetchFail ==
  ASSUME NEW C \in SUBSET Clients, NEW how \in {"err", "canceled", "gone", "lost"},
         UNCHANGED blob, \A c \in C : call[c].told = None,
         \A c \in Clients : call'[c].told = IF c \in C THEN how ELSE call[c].told
  PROVE  [Fetch!Next]_(Fetch!fetchVars)
<1>1. CASE C = {}
  BY <1>1, FetchStutter
<1>2. CASE C # {}
  <2>1. Fetch!Fail(C, how)
    BY <1>2 DEF Fetch!Fail
  <2> QED
    BY <2>1 DEF Fetch!Next
<1> QED
  BY <1>1, <1>2

LEMMA FetchLeave ==
  ASSUME IInv, NEW c \in Clients, call[c].pc = "wait",
         NEW result \in {"ok", "err", "canceled", "gone"}, Leave(c, result),
         result = "ok" => blob # None
  PROVE  [Fetch!Next]_(Fetch!fetchVars)
<1>1. /\ call[c].told = None
      /\ UNCHANGED blob
      /\ \A x \in Clients : call'[x].told = IF x = c THEN result ELSE call[x].told
  BY DEF IInv, NotToldYet, Leave, disk, Shape, Call
<1>2. CASE result = "ok"
  <2>1. Fetch!Ok(c)
    BY <1>1, <1>2, DownloadAssumption DEF Fetch!Ok
  <2> QED
    BY <2>1 DEF Fetch!Next
<1>3. CASE result # "ok"
  <2>1. \A x \in Clients : call'[x].told = IF x \in {c} THEN result ELSE call[x].told
    BY <1>1
  <2>2. result \in {"err", "canceled", "gone", "lost"}
    BY <1>3
  <2> QED
    BY <1>1, <2>1, <2>2, FetchFail
<1> QED
  BY <1>2, <1>3

LEMMA FetchPrepareFails ==
  ASSUME IInv, NEW c \in Clients, Phase(c) \in {"prepare", "split"}, PrepareFails(c),
         UNCHANGED blob
  PROVE  [Fetch!Next]_(Fetch!fetchVars)
<1>1. call[c].told = None
  BY DEF IInv, CallsHaveDownloads, NotToldYet
<1>2. \A x \in Clients : call'[x].told = IF x \in {c} THEN "err" ELSE call[x].told
  BY DEF IInv, PrepareFails, Shape, Call
<1> QED
  BY <1>1, <1>2, FetchFail

LEMMA FetchRestart ==
  ASSUME IInv, NEW T, NEW K, NEW dataToo, Restart(T, K, dataToo)
  PROVE  [Fetch!Next]_(Fetch!fetchVars)
<1> DEFINE C == {c \in Clients : InFlight(c) /\ call[c].told = None}
<1>1. \A x \in Clients : call'[x].told = IF x \in C THEN "lost" ELSE call[x].told
  BY DEF IInv, Restart, Shape, Call
<1>2. UNCHANGED blob /\ C \in SUBSET Clients /\ \A c \in C : call[c].told = None
  BY DEF Restart
<1> HIDE DEF C
<1> QED
  BY <1>1, <1>2, FetchFail

LEMMA FetchRename ==
  ASSUME IInv, NEW d \in Clients, RunRename(d)
  PROVE  [Fetch!Next]_(Fetch!fetchVars)
<1>1. blob' # None /\ UNCHANGED call
  BY DEF RunRename, IInv, DataThere, Phase
<1>2. \E x \in Contents : Fetch!Land(x)
  BY <1>1 DEF Contents, Fetch!Land
<1> QED
  BY <1>2 DEF Fetch!Next

LEMMA FetchStep == IInv /\ [Next]_vars => [Fetch!Next]_(Fetch!fetchVars)
<1> SUFFICES ASSUME IInv, [Next]_vars PROVE [Fetch!Next]_(Fetch!fetchVars)
  OBVIOUS
<1>0. call \in [Clients -> Call]
  BY DEF IInv, Shape
<1>1. ASSUME NEW c \in Clients, Client(c) PROVE [Fetch!Next]_(Fetch!fetchVars)
  <2>1. CASE Stat(c)
    <3>1. CASE blob # None
      <4>1. /\ call[c].told = None
            /\ \A x \in Clients : call'[x].told = IF x = c THEN "hit" ELSE call[x].told
        BY <2>1, <3>1, <1>0 DEF IInv, NotToldYet, Stat, Call
      <4>2. Fetch!Hit(c)
        BY <2>1, <3>1, <4>1, DownloadAssumption DEF Fetch!Hit, Stat, disk
      <4> QED
        BY <4>2 DEF Fetch!Next
    <3>2. CASE blob = None
      BY <2>1, <3>2, <1>0, FetchStutter DEF Stat, disk, Call
    <3> QED
      BY <3>1, <3>2
  <2>2. CASE LoadOrStore(c)
    BY <2>2, <1>0, FetchStutter DEF LoadOrStore, disk, Call
  <2>3. CASE Acquire(c)
    BY <2>3, <1>0, FetchStutter DEF Acquire, disk, Call
  <2>4. CASE WaitDone(c)
    <3>1. PICK d \in Clients : d = call[c].download
      BY <2>4 DEF WaitDone, IInv, CallsHaveDownloads
    <3>2. dl[d].err \in {None, "err", "canceled"}
      BY DEF IInv, Shape, Download
    <3>3. dl[d].err = None => blob # None
      BY <2>4, <3>1 DEF WaitDone, IInv, BlobThere
    <3> QED
      BY <2>4, <3>1, <3>2, <3>3, FetchLeave DEF WaitDone
  <2>5. CASE Cancel(c)
    BY <2>5, <1>0, FetchStutter DEF Cancel, disk, Call
  <2>6. CASE Panic(c)
    BY <2>6, FetchRestart DEF Panic
  <2> QED
    BY <1>1, <2>1, <2>2, <2>3, <2>4, <2>5, <2>6 DEF Client
<1>2. ASSUME NEW c \in Clients, Prepare(c) PROVE [Fetch!Next]_(Fetch!fetchVars)
  <2>1. CASE ReadPart(c) \/ HeadOk(c) \/ NewPart(c)
    BY <2>1, FetchStutter DEF ReadPart, HeadOk, NewPart, disk
  <2>2. CASE ReadDone(c) \/ PrepareDone(c)
    BY <2>2, <1>0, FetchStutter DEF ReadDone, PrepareDone, Prepared, disk, Call
  <2>3. CASE ReadOrHeadFails(c)
    BY <2>3, FetchPrepareFails DEF ReadOrHeadFails, disk
  <2>4. CASE NewPartFails(c)
    BY <2>4, FetchPrepareFails DEF NewPartFails, Unsplit
  <2> QED
    BY <1>2, <2>1, <2>2, <2>3, <2>4 DEF Prepare
<1>3. ASSUME NEW d \in Clients, Run(d) PROVE [Fetch!Next]_(Fetch!fetchVars)
  <2>1. CASE RunRename(d)
    BY <2>1, FetchRename
  <2>2. CASE ~RunRename(d)
    BY <1>3, <2>2, FetchStutter
    DEF Run, RunStart, RunOpen, RunDirect, RunFails, RunFetched, RunRemove, RunClose, disk
  <2> QED
    BY <2>1, <2>2
<1>4. ASSUME NEW d \in Clients, NEW i \in DOMAIN dl[d].work, Chunk(d, i)
      PROVE  [Fetch!Next]_(Fetch!fetchVars)
  BY <1>4, FetchStutter
  DEF Chunk, ChunkReceive, ChunkDone, ChunkCut, ChunkStalled, ChunkCanceled, ChunkError,
      ChunkNoSpace, ChunkPartNoSpace, EndKeeping, disk
<1>5. ASSUME NEW c \in Clients, WaitCtxDone(c) PROVE [Fetch!Next]_(Fetch!fetchVars)
  BY <1>5, FetchLeave DEF WaitCtxDone
<1>6. CASE Crash
  BY <1>6, FetchRestart DEF Crash
<1>7. CASE UNCHANGED vars
  BY <1>7, FetchStutter DEF vars, disk
<1> QED
  BY <1>1, <1>2, <1>3, <1>4, <1>5, <1>6, <1>7 DEF Next, Progress, Quiet

\* downloadBlob implements the fetch of a blob: under the final name the file
\* appears in one step and stays, a caller is told "ok" or "hit" only when it is
\* there, and is told one thing only, for any number of callers sharing and
\* abandoning downloads, failing parts, panics and restarts.
THEOREM DownloadImplementsFetch == Spec => ImplementsFetch
<1>1. Init => Fetch!Init
  BY DEF Init, Fetch!Init
<1> QED
  BY Invariant, <1>1, FetchStep, PTL DEF Spec, ImplementsFetch, Fetch!Spec

-----------------------------------------------------------------------------
(* What a part file has on record is never taken back: each file belongs to one *)
(* part of one download, which knows of at least as much as the file says.     *)

\* The phases in which the parts of a download are those of the files.
Filling == {"prepare", "split", "ready", "open", "direct", "fetch"}

Recorded(n) == partFile[n] \notin {None, Torn}

(* The parts of the inductive invariant. *)

\* A part file describes the part of its own number.
NamedByNumber == \A n \in PartNumbers : Recorded(n) => partFile[n].n = n

\* A call that has not created its download has no parts.
Fresh == \A c \in Clients : call[c].pc \in {"start", "lookup"} => dl[c].parts = <<>>

\* No two parts share a file.
Distinct(d) ==
  Phase(d) \in Filling =>
    \A i, j \in DOMAIN dl[d].parts : Part(d, i).n = Part(d, j).n => i = j

\* No part has completed less than its file says.
Behind(d) ==
  Phase(d) \in Filling =>
    \A i \in DOMAIN dl[d].parts :
      Part(d, i).n \in PartNumbers /\ Recorded(Part(d, i).n) =>
        partFile[Part(d, i).n].completed <= Part(d, i).completed

\* Prepare has read files that are there, in the order of their numbers.
ReadInOrder(d) ==
  Phase(d) = "prepare" =>
    \A i \in DOMAIN dl[d].parts :
      /\ Part(d, i).n \in PartNumbers
      /\ Part(d, i).n < dl[d].at
      /\ partFile[Part(d, i).n] # None

\* A new download numbers its parts from 0 on, and has no other files.
SplitInOrder(d) ==
  Phase(d) = "split" =>
    /\ \A i \in DOMAIN dl[d].parts : Part(d, i).n = i - 1
    /\ \A n \in PartNumbers : n >= Len(dl[d].parts) => partFile[n] = None

Tracked(d) == Distinct(d) /\ Behind(d) /\ ReadInOrder(d) /\ SplitInOrder(d)

PartsInv == NamedByNumber /\ Fresh /\ \A d \in Clients : Tracked(d)

LEMMA PartsInit == Init => PartsInv
BY DEF Init, NewDownload, PartsInv, NamedByNumber, Fresh, Tracked, Distinct, Behind,
       ReadInOrder, SplitInOrder, Phase, Filling, Recorded

LEMMA Types ==
  ASSUME IInv
  PROVE  /\ dl \in [Clients -> Download] /\ call \in [Clients -> Call]
         /\ partFile \in [PartNumbers -> AnyPart \cup {None, Torn}]
BY DEF IInv, Shape

-----------------------------------------------------------------------------
(* Steps that write no part file. *)

SameParts(d) == /\ dl'[d].parts = dl[d].parts
                /\ dl'[d].phase = dl[d].phase
                /\ dl'[d].at = dl[d].at

\* The download has no parts any more, or goes on with those it has.
Settles(d) ==
  \/ dl'[d].parts = <<>> /\ dl'[d].phase # "split"
  \/ /\ dl'[d].parts = dl[d].parts
     /\ dl'[d].phase \notin {"prepare", "split"}
     /\ dl'[d].phase \in Filling => dl[d].phase \in Filling

NoneStarts == \A c \in Clients : call'[c].pc \in {"start", "lookup"} =>
                                   call[c].pc \in {"start", "lookup"}

LEMMA TrackedOn ==
  ASSUME UNCHANGED partFile, NEW d \in Clients, Tracked(d),
         dl'[d] = dl[d] \/ SameParts(d) \/ Settles(d)
  PROVE  Tracked(d)'
<1> USE DEF Phase, Part, Recorded, Tracked, Distinct, Behind, ReadInOrder, SplitInOrder
<1>1. CASE dl'[d] = dl[d] \/ SameParts(d)
  <2>1. dl'[d].parts = dl[d].parts /\ dl'[d].phase = dl[d].phase /\ dl'[d].at = dl[d].at
    BY <1>1 DEF SameParts
  <2> QED
    BY <2>1
<1>2. CASE dl'[d].parts = <<>> /\ dl'[d].phase # "split"
  BY <1>2
<1>3. CASE /\ dl'[d].parts = dl[d].parts
           /\ dl'[d].phase \notin {"prepare", "split"}
           /\ dl'[d].phase \in Filling => dl[d].phase \in Filling
  BY <1>3
<1> QED
  BY <1>1, <1>2, <1>3 DEF Settles

LEMMA Settled ==
  ASSUME PartsInv, UNCHANGED partFile, NoneStarts,
         \A d \in Clients : dl'[d] = dl[d] \/ SameParts(d) \/ Settles(d)
  PROVE  PartsInv'
<1>1. NamedByNumber'
  BY DEF PartsInv, NamedByNumber, Recorded
<1>2. Fresh'
  BY DEF PartsInv, Fresh, NoneStarts, SameParts, Settles
<1>3. \A d \in Clients : Tracked(d)'
  BY TrackedOn DEF PartsInv
<1> QED
  BY <1>1, <1>2, <1>3 DEF PartsInv

-----------------------------------------------------------------------------
(* Steps that write part files, or read them. *)

LEMMA OthersIdle ==
  ASSUME IInv, NEW d \in Clients, Phase(d) \in Active, NEW x \in Clients, x # d
  PROVE  Phase(x) \notin Filling
BY DEF IInv, OneDownload, Active, Filling

\* Only the download that works changes, and it keeps track of its files.
LEMMA OneFills ==
  ASSUME IInv, PartsInv, NEW d \in Clients, Phase(d) \in Active,
         call[d].pc \notin {"start", "lookup"}, NoneStarts,
         \A x \in Clients \ {d} : dl'[x] = dl[x],
         NamedByNumber', Tracked(d)'
  PROVE  PartsInv'
<1>1. Fresh'
  BY DEF PartsInv, Fresh, NoneStarts
<1>2. ASSUME NEW x \in Clients, x # d PROVE Tracked(x)'
  <2>1. dl'[x] = dl[x]
    BY <1>2
  <2>2. dl[x].phase \notin Filling
    BY <1>2, OthersIdle DEF Phase
  <2> QED
    BY <2>1, <2>2 DEF Tracked, Distinct, Behind, ReadInOrder, SplitInOrder, Phase, Filling
<1> QED
  BY <1>1, <1>2 DEF PartsInv

LEMMA ReadPartParts ==
  ASSUME IInv, PartsInv, NEW c \in Clients, ReadPart(c)
  PROVE  PartsInv'
<1>1. PICK n \in PartNumbers :
        /\ NextFile(c, n) /\ partFile[n] # Torn
        /\ dl' = [dl EXCEPT ![c].parts = Append(@, partFile[n]),
                            ![c].total = @ + partFile[n].size,
                            ![c].completed = @ + partFile[n].completed,
                            ![c].at = n + 1]
  BY DEF ReadPart
<1>2. Phase(c) = "prepare" /\ UNCHANGED <<partFile, call>>
  BY DEF ReadPart, disk
<1>3. partFile[n] # None /\ n >= dl[c].at /\ n \in Nat /\ partFile[n] \in AnyPart
  BY <1>1, Types, DownloadAssumption DEF NextFile, PartFiles, PartNumbers
<1>4. partFile[n].n = n
  BY <1>1, <1>3 DEF PartsInv, NamedByNumber, Recorded
<1>5. dl[c] \in Download /\ dl[c].parts \in Seq(AnyPart) /\ dl[c].at \in Nat
  BY Types DEF Download
<1> DEFINE ps == Append(dl[c].parts, partFile[n])
<1>6. /\ dl'[c].parts = ps /\ dl'[c].phase = "prepare" /\ dl'[c].at = n + 1
      /\ \A x \in Clients \ {c} : dl'[x] = dl[x]
  BY <1>1, <1>2, <1>5, Types DEF Download, Phase
<1>7. /\ DOMAIN ps = DOMAIN dl[c].parts \cup {Len(dl[c].parts) + 1}
      /\ ps[Len(dl[c].parts) + 1] = partFile[n]
      /\ \A i \in DOMAIN dl[c].parts : ps[i] = dl[c].parts[i]
  BY <1>3, <1>5
<1> HIDE DEF ps
<1>8. \A i \in DOMAIN dl[c].parts : /\ dl[c].parts[i].n \in PartNumbers
                                    /\ dl[c].parts[i].n < dl[c].at
                                    /\ partFile[dl[c].parts[i].n] # None
  BY <1>2 DEF PartsInv, Tracked, ReadInOrder, Part
<1>9. Distinct(c)'
  <2> SUFFICES ASSUME NEW i \in DOMAIN ps, NEW j \in DOMAIN ps, ps[i].n = ps[j].n
               PROVE  i = j
    BY <1>6 DEF Distinct, Part
  <2>1. \A k \in DOMAIN dl[c].parts : ps[k].n # n
    BY <1>3, <1>5, <1>7, <1>8 DEF PartNumbers
  <2>2. CASE i \in DOMAIN dl[c].parts /\ j \in DOMAIN dl[c].parts
    BY <1>2, <1>7, <2>2 DEF PartsInv, Tracked, Distinct, Filling, Part
  <2> QED
    BY <1>4, <1>7, <2>1, <2>2
<1>10. Behind(c)'
  <2> SUFFICES ASSUME NEW i \in DOMAIN ps, ps[i].n \in PartNumbers, Recorded(ps[i].n)
               PROVE  partFile[ps[i].n].completed <= ps[i].completed
    BY <1>2, <1>6 DEF Behind, Part, Recorded
  <2>1. CASE i \in DOMAIN dl[c].parts
    BY <1>2, <1>7, <2>1 DEF PartsInv, Tracked, Behind, Filling, Part
  <2>2. CASE i = Len(dl[c].parts) + 1
    BY <1>3, <1>4, <1>7, <2>2 DEF AnyPart
  <2> QED
    BY <1>7, <2>1, <2>2
<1>11. ReadInOrder(c)'
  <2> SUFFICES ASSUME NEW i \in DOMAIN ps
               PROVE  ps[i].n \in PartNumbers /\ ps[i].n < n + 1 /\ partFile[ps[i].n] # None
    BY <1>2, <1>6 DEF ReadInOrder, Part
  <2>1. CASE i \in DOMAIN dl[c].parts
    BY <1>3, <1>5, <1>7, <1>8, <2>1 DEF PartNumbers
  <2> QED
    BY <1>3, <1>4, <1>7, <2>1
<1>12. SplitInOrder(c)'
  BY <1>6 DEF SplitInOrder, Phase
<1>13. NamedByNumber' /\ NoneStarts
  BY <1>2 DEF PartsInv, NamedByNumber, Recorded, NoneStarts
<1>14. call[c].pc = "prepare"
  BY <1>2 DEF IInv, CallsHaveDownloads
<1> QED
  BY <1>2, <1>6, <1>9, <1>10, <1>11, <1>12, <1>13, <1>14, OneFills DEF Tracked, Active

LEMMA HeadOkParts ==
  ASSUME IInv, PartsInv, NEW c \in Clients, HeadOk(c)
  PROVE  PartsInv'
<1>1. PICK len \in Lengths : dl' = [dl EXCEPT ![c].phase = "split", ![c].total = len]
  BY DEF HeadOk
<1>2. Phase(c) = "prepare" /\ PartFiles = {} /\ UNCHANGED <<partFile, call>>
  BY DEF HeadOk, disk
<1>3. /\ dl'[c].parts = dl[c].parts /\ dl'[c].phase = "split"
      /\ \A x \in Clients \ {c} : dl'[x] = dl[x]
  BY <1>1, Types DEF Download
<1>4. \A n \in PartNumbers : partFile[n] = None
  BY <1>2 DEF PartFiles
<1>5. \A i \in DOMAIN dl[c].parts : FALSE
  BY <1>2, <1>4 DEF PartsInv, Tracked, ReadInOrder
<1>6. Tracked(c)'
  BY <1>2, <1>3, <1>4, <1>5 DEF Tracked, Distinct, Behind, ReadInOrder, SplitInOrder, Phase
<1>7. NamedByNumber' /\ NoneStarts /\ call[c].pc = "prepare"
  BY <1>2 DEF PartsInv, NamedByNumber, Recorded, NoneStarts, IInv, CallsHaveDownloads
<1> QED
  BY <1>2, <1>3, <1>6, <1>7, OneFills DEF Active

LEMMA NewPartParts ==
  ASSUME IInv, PartsInv, NEW c \in Clients, NewPart(c)
  PROVE  PartsInv'
<1> DEFINE p == NextPart(c)
           ps == Append(dl[c].parts, p)
           a == dl[c].at + p.size
           k == Len(dl[c].parts)
<1>1. p \in AnyPart /\ p.n = k /\ p.completed = 0
  BY NextPartType DEF NewPart, NextPart, IInv
<1>2. /\ partFile' = [partFile EXCEPT ![k] = p]
      /\ dl' = [dl EXCEPT ![c].parts = ps, ![c].at = a]
      /\ dl[c].phase = "split" /\ UNCHANGED call
  BY <1>1 DEF NewPart, Unsplit, Phase
<1>3. dl[c] \in Download /\ dl[c].parts \in Seq(AnyPart) /\ k \in Nat
  BY Types DEF Download
<1> HIDE DEF p, a
<1>4. /\ DOMAIN ps = DOMAIN dl[c].parts \cup {k + 1} /\ ps[k + 1] = p
      /\ \A i \in DOMAIN dl[c].parts : ps[i] = dl[c].parts[i]
      /\ Len(ps) = k + 1 /\ DOMAIN dl[c].parts = 1 .. k
  BY <1>1, <1>3
<1> HIDE DEF ps
<1>5. /\ dl'[c].parts = ps /\ dl'[c].phase = "split"
      /\ \A x \in Clients \ {c} : dl'[x] = dl[x]
  BY <1>2, <1>3, Types DEF Download
<1>6. /\ \A i \in DOMAIN dl[c].parts : dl[c].parts[i].n = i - 1
      /\ \A n \in PartNumbers : n >= k => partFile[n] = None
  BY <1>2 DEF PartsInv, Tracked, SplitInOrder, Phase, Part
<1>7. \A i \in DOMAIN ps : ps[i].n = i - 1
  BY <1>1, <1>3, <1>4, <1>6
<1>8. \A n \in PartNumbers : n # k => partFile'[n] = partFile[n]
  BY <1>2, Types
<1>k. k \in PartNumbers => partFile'[k] = p
  BY <1>2, Types
<1> HIDE DEF k
<1>9. SplitInOrder(c)'
  <2>1. \A n \in PartNumbers : n >= k + 1 => n # k /\ n >= k
    BY <1>3, DownloadAssumption DEF PartNumbers
  <2>2. \A n \in PartNumbers : n >= k + 1 => partFile'[n] = None
    BY <1>6, <1>8, <2>1
  <2> QED
    BY <1>4, <1>5, <1>7, <2>2 DEF SplitInOrder, Part
<1>10. Distinct(c)'
  <2>1. \A i \in DOMAIN ps : i \in Nat
    BY <1>3, <1>4
  <2> QED
    BY <1>5, <1>7, <2>1 DEF Distinct, Part
<1>11. Behind(c)'
  <2> SUFFICES ASSUME NEW i \in DOMAIN ps, ps[i].n \in PartNumbers,
                      partFile'[ps[i].n] \notin {None, Torn}
               PROVE  partFile'[ps[i].n].completed <= ps[i].completed
    BY <1>5 DEF Behind, Part, Recorded
  <2>1. CASE i \in DOMAIN dl[c].parts
    <3>1. ps[i] = dl[c].parts[i] /\ ps[i].n # k
      BY <1>3, <1>4, <1>7, <2>1
    <3>2. partFile'[ps[i].n] = partFile[ps[i].n]
      BY <1>8, <3>1
    <3> QED
      BY <1>2, <2>1, <3>1, <3>2 DEF PartsInv, Tracked, Behind, Filling, Part, Phase, Recorded
  <2>2. CASE i = k + 1
    BY <1>1, <1>4, <1>k, <2>2
  <2> QED
    BY <1>4, <2>1, <2>2
<1>12. ReadInOrder(c)'
  BY <1>5 DEF ReadInOrder, Phase
<1>13. NamedByNumber'
  BY <1>1, <1>8, <1>k DEF PartsInv, NamedByNumber, Recorded
<1>14. NoneStarts /\ call[c].pc = "prepare" /\ Phase(c) \in Active
  BY <1>2 DEF NoneStarts, IInv, CallsHaveDownloads, Phase, Active
<1> QED
  BY <1>5, <1>9, <1>10, <1>11, <1>12, <1>13, <1>14, OneFills DEF Tracked

LEMMA RunRemoveParts ==
  ASSUME IInv, PartsInv, NEW d \in Clients, RunRemove(d), partFile[dl[d].at] # None
  PROVE  PartsInv'
<1>1. /\ partFile' = [partFile EXCEPT ![dl[d].at] = None]
      /\ dl' = [dl EXCEPT ![d].at = @ + 1]
      /\ dl[d].phase = "remove" /\ UNCHANGED call
  BY DEF RunRemove, Phase
<1>2. dl'[d].phase = "remove" /\ dl'[d].parts = dl[d].parts
      /\ \A x \in Clients \ {d} : dl'[x] = dl[x]
  BY <1>1, Types DEF Download
<1>3. NamedByNumber'
  BY <1>1, Types DEF PartsInv, NamedByNumber, Recorded
<1>4. \A x \in Clients : Tracked(x)'
  <2> SUFFICES ASSUME NEW x \in Clients PROVE dl'[x].phase \notin Filling
    BY DEF Tracked, Distinct, Behind, ReadInOrder, SplitInOrder, Phase, Filling
  <2>1. CASE x = d
    BY <1>2, <2>1 DEF Filling
  <2>2. CASE x # d
    BY <1>1, <1>2, <2>2, OthersIdle DEF Phase, Active
  <2> QED
    BY <2>1, <2>2
<1>5. Fresh'
  BY <1>1, <1>2 DEF PartsInv, Fresh
<1> QED
  BY <1>3, <1>4, <1>5 DEF PartsInv

\* Part i of d, and its file, are replaced by p, which has completed no less; or
\* the file is torn.
LEMMA PartReplaced ==
  ASSUME IInv, PartsInv, NEW d \in Clients, Phase(d) = "fetch", UNCHANGED call,
         NEW i \in DOMAIN dl[d].work, NEW p \in AnyPart, NEW f \in {p, Torn},
         p.n = Part(d, i).n, Part(d, i).completed <= p.completed,
         partFile' = [partFile EXCEPT ![Part(d, i).n] = f],
         dl'[d].phase = "fetch", dl'[d].parts = [dl[d].parts EXCEPT ![i] = p],
         \A x \in Clients \ {d} : dl'[x] = dl[x]
  PROVE  PartsInv'
<1> DEFINE ps == dl[d].parts
           m == p.n
<1>1. ps \in Seq(AnyPart) /\ i \in DOMAIN ps
  BY Types DEF IInv, DataThere, Download
<1>2. /\ DOMAIN dl'[d].parts = DOMAIN ps /\ dl'[d].parts[i] = p
      /\ \A j \in DOMAIN ps : j # i => dl'[d].parts[j] = ps[j]
  BY <1>1
<1>3. \A j \in DOMAIN ps : j # i => ps[j].n # m
  BY <1>1 DEF PartsInv, Tracked, Distinct, Filling, Part
<1>4. /\ \A n \in PartNumbers : n # m => partFile'[n] = partFile[n]
      /\ m \in PartNumbers => partFile'[m] = f
  BY Types
<1> HIDE DEF ps, m
<1>5. NamedByNumber'
  <2>1. \A n \in PartNumbers : n # m /\ partFile'[n] \notin {None, Torn} => partFile'[n].n = n
    BY <1>4 DEF PartsInv, NamedByNumber, Recorded
  <2>2. m \in PartNumbers /\ partFile'[m] \notin {None, Torn} => partFile'[m].n = m
    BY <1>4 DEF m
  <2> QED
    BY <2>1, <2>2 DEF NamedByNumber, Recorded
<1>6. Distinct(d)'
  <2> SUFFICES ASSUME NEW j \in DOMAIN ps, NEW k \in DOMAIN ps,
                      dl'[d].parts[j].n = dl'[d].parts[k].n
               PROVE  j = k
    BY <1>2 DEF Distinct, Part
  <2>1. \A x \in DOMAIN ps : dl'[d].parts[x].n = ps[x].n
    BY <1>2 DEF Part, ps
  <2> QED
    BY <2>1 DEF PartsInv, Tracked, Distinct, Filling, Part, ps
<1>7. Behind(d)'
  <2> SUFFICES ASSUME NEW j \in DOMAIN ps, dl'[d].parts[j].n \in PartNumbers,
                      partFile'[dl'[d].parts[j].n] \notin {None, Torn}
               PROVE  partFile'[dl'[d].parts[j].n].completed <= dl'[d].parts[j].completed
    BY <1>2 DEF Behind, Part, Recorded
  <2>1. CASE j = i
    <3>1. dl'[d].parts[j] = p /\ f = p /\ partFile'[m] = p
      BY <1>2, <1>4, <2>1 DEF m
    <3>2. p.completed \in Nat
      BY DEF AnyPart
    <3> QED
      BY <3>1, <3>2 DEF m
  <2>2. CASE j # i
    <3>1. dl'[d].parts[j] = ps[j] /\ ps[j].n # m
      BY <1>2, <1>3, <2>2
    <3>2. partFile'[ps[j].n] = partFile[ps[j].n]
      BY <1>4, <3>1
    <3> QED
      BY <3>1, <3>2 DEF PartsInv, Tracked, Behind, Filling, Part, Recorded, ps
  <2> QED
    BY <2>1, <2>2
<1>8. ReadInOrder(d)' /\ SplitInOrder(d)'
  BY DEF ReadInOrder, SplitInOrder, Phase
<1>9. call[d].pc \notin {"start", "lookup"}
  <2>1. DOMAIN ps # {}
    BY <1>1 DEF ps
  <2> QED
    BY <2>1 DEF PartsInv, Fresh, ps
<1>10. NoneStarts /\ Phase(d) \in Active
  BY DEF NoneStarts, Active
<1> QED
  BY <1>5, <1>6, <1>7, <1>8, <1>9, <1>10, OneFills DEF Tracked

\* What an attempt has got is added to what the part had.
LEMMA KeptMore ==
  ASSUME IInv, NEW d \in Clients, NEW i \in DOMAIN dl[d].work, InChunk(d, i)
  PROVE  /\ Kept(d, i) \in AnyPart
         /\ Kept(d, i).n = Part(d, i).n
         /\ Part(d, i).completed <= Kept(d, i).completed
<1>1. Part(d, i) \in AnyPart /\ dl[d].work[i] \in AnyWork
  BY ChunkTypes
<1>2. dl[d].work[i].got \in Nat /\ Part(d, i).completed \in Nat
  BY <1>1 DEF AnyWork, AnyPart
<1> QED
  BY <1>1, <1>2, KeptType DEF Kept, AnyPart

LEMMA EndKeepingParts ==
  ASSUME IInv, PartsInv, NEW d \in Clients, NEW i \in DOMAIN dl[d].work, InChunk(d, i),
         NEW w, NEW e, EndKeeping(d, i, w, e)
  PROVE  PartsInv'
<1> DEFINE p == Kept(d, i)
           x == IF dl[d].err = None /\ w.pc = "failed" THEN e ELSE dl[d].err
<1>1. /\ partFile' = [partFile EXCEPT ![Part(d, i).n] = p]
      /\ dl' = [dl EXCEPT ![d].parts[i] = p, ![d].work[i] = w, ![d].err = x]
      /\ UNCHANGED call /\ dl[d].phase = "fetch"
  BY DEF EndKeeping, InChunk, Phase
<1>2. p \in AnyPart /\ p.n = Part(d, i).n /\ Part(d, i).completed <= p.completed
  BY KeptMore
<1> HIDE DEF p, x
<1>3. /\ dl'[d].phase = "fetch" /\ dl'[d].parts = [dl[d].parts EXCEPT ![i] = p]
      /\ \A y \in Clients \ {d} : dl'[y] = dl[y]
  BY <1>1, Types DEF Download
<1> QED
  BY <1>1, <1>2, <1>3, PartReplaced DEF Phase

LEMMA ChunkPartNoSpaceParts ==
  ASSUME IInv, PartsInv, NEW d \in Clients, NEW i \in DOMAIN dl[d].work,
         ChunkPartNoSpace(d, i)
  PROVE  PartsInv'
<1> DEFINE p == Kept(d, i)
           x == IF dl[d].err = None THEN "err" ELSE dl[d].err
           w == Ended("failed")
<1>1. /\ partFile' = [partFile EXCEPT ![Part(d, i).n] = Torn]
      /\ dl' = [dl EXCEPT ![d].parts[i] = p, ![d].work[i] = w, ![d].err = x]
      /\ UNCHANGED call /\ dl[d].phase = "fetch"
  BY DEF ChunkPartNoSpace, InChunk, Phase
<1>2. p \in AnyPart /\ p.n = Part(d, i).n /\ Part(d, i).completed <= p.completed
  BY KeptMore DEF ChunkPartNoSpace
<1> HIDE DEF p, x, w
<1>3. /\ dl'[d].phase = "fetch" /\ dl'[d].parts = [dl[d].parts EXCEPT ![i] = p]
      /\ \A y \in Clients \ {d} : dl'[y] = dl[y]
  BY <1>1, Types DEF Download
<1> QED
  BY <1>1, <1>2, <1>3, PartReplaced DEF Phase

LEMMA RestartParts ==
  ASSUME IInv, PartsInv, NEW T, NEW K, NEW dataToo, Restart(T, K, dataToo)
  PROVE  PartsInv'
<1>1. \A d \in Clients : dl'[d].phase = "none" /\ dl'[d].parts = <<>>
  BY DEF Restart, NewDownload
<1>2. NamedByNumber'
  BY DEF Restart, PartsInv, NamedByNumber, Recorded
<1> QED
  BY <1>1, <1>2
  DEF PartsInv, Fresh, Tracked, Distinct, Behind, ReadInOrder, SplitInOrder, Phase, Filling

-----------------------------------------------------------------------------
(* All steps. *)

LEMMA NewPartFailsParts ==
  ASSUME IInv, PartsInv, NEW c \in Clients, NewPartFails(c)
  PROVE  PartsInv'
<1>1. /\ dl' = [dl EXCEPT ![c].phase = "failed"]
      /\ call' = [call EXCEPT ![c].pc = "told", ![c].told = "err"]
      /\ dl[c].phase = "split"
      /\ \E n : partFile' = [partFile EXCEPT ![n] = Torn]
  BY DEF NewPartFails, PrepareFails, Unsplit, Phase
<1>2. dl'[c].phase = "failed" /\ \A x \in Clients \ {c} : dl'[x] = dl[x]
  BY <1>1, Types DEF Download
<1>3. NamedByNumber'
  BY <1>1, Types DEF PartsInv, NamedByNumber, Recorded
<1>4. \A x \in Clients : Tracked(x)'
  <2> SUFFICES ASSUME NEW x \in Clients PROVE dl'[x].phase \notin Filling
    BY DEF Tracked, Distinct, Behind, ReadInOrder, SplitInOrder, Phase, Filling
  <2>1. CASE x = c
    BY <1>2, <2>1 DEF Filling
  <2>2. CASE x # c
    BY <1>1, <1>2, <2>2, OthersIdle DEF Phase, Active
  <2> QED
    BY <2>1, <2>2
<1>5. call'[c].pc = "told" /\ \A x \in Clients \ {c} : call'[x] = call[x]
  BY <1>1, Types DEF Call
<1>6. Fresh'
  BY <1>2, <1>5 DEF PartsInv, Fresh
<1> QED
  BY <1>3, <1>4, <1>6 DEF PartsInv

LEMMA ClientParts ==
  ASSUME IInv, PartsInv, NEW c \in Clients,
         \/ Stat(c) \/ LoadOrStore(c) \/ Acquire(c) \/ WaitDone(c)
         \/ WaitCtxDone(c) \/ Cancel(c)
  PROVE  PartsInv'
<1>1. UNCHANGED partFile
  BY DEF Stat, LoadOrStore, Acquire, WaitDone, WaitCtxDone, Cancel, Leave, disk
<1>2. NoneStarts
  <2>1. CASE Stat(c)
    BY <2>1, Types DEF Stat, NoneStarts, Call
  <2>2. CASE LoadOrStore(c)
    BY <2>2, Types DEF LoadOrStore, NoneStarts, Call
  <2>3. CASE Acquire(c) \/ Cancel(c)
    BY <2>3, Types DEF Acquire, Cancel, NoneStarts, Call
  <2>4. CASE WaitDone(c) \/ WaitCtxDone(c)
    BY <2>4, Types DEF WaitDone, WaitCtxDone, Leave, NoneStarts, Call
  <2> QED
    BY <2>1, <2>2, <2>3, <2>4
<1>3. \A d \in Clients : dl'[d] = dl[d] \/ SameParts(d) \/ Settles(d)
  <2>1. CASE Stat(c) \/ (LoadOrStore(c) /\ manager # None)
    BY <2>1 DEF Stat, LoadOrStore
  <2>2. CASE LoadOrStore(c) /\ manager = None
    <3>1. dl' = [dl EXCEPT ![c].phase = "prepare"] /\ dl[c].parts = <<>>
      BY <2>2 DEF LoadOrStore, PartsInv, Fresh
    <3>2. dl'[c].parts = <<>> /\ dl'[c].phase = "prepare"
          /\ \A x \in Clients \ {c} : dl'[x] = dl[x]
      BY <3>1, Types DEF Download
    <3> QED
      BY <3>2 DEF Settles
  <2>3. ASSUME NEW d \in Clients, NEW k, NEW b, NEW f,
               dl' = [dl EXCEPT ![d].references = k, ![d].abandoned = b, ![d].cancelFunc = f]
        PROVE  \A x \in Clients : dl'[x] = dl[x] \/ SameParts(x)
    <3> DEFINE r == [dl[d] EXCEPT !.references = k, !.abandoned = b, !.cancelFunc = f]
    <3>1. dl[d] \in Download
      BY Types
    <3>2. dl' = [dl EXCEPT ![d] = r]
      BY <2>3, <3>1 DEF Download
    <3>3. r.parts = dl[d].parts /\ r.phase = dl[d].phase /\ r.at = dl[d].at
      BY <3>1 DEF Download
    <3> HIDE DEF r
    <3>4. dl'[d] = r /\ \A x \in Clients \ {d} : dl'[x] = dl[x]
      BY <3>2, Types
    <3> QED
      BY <3>3, <3>4 DEF SameParts
  <2>4. CASE Acquire(c) \/ Cancel(c) \/ WaitDone(c) \/ WaitCtxDone(c)
    <3>1. PICK d \in Clients : d = call[c].download
      BY <2>4 DEF IInv, CallsHaveDownloads, Acquire, Cancel, WaitDone, WaitCtxDone
    <3>2. dl[d] \in Download
      BY Types
    <3>3. \E k, b, f : dl' = [dl EXCEPT ![d].references = k, ![d].abandoned = b,
                                      ![d].cancelFunc = f]
      <4>1. CASE Acquire(c)
        <5>1. dl' = [dl EXCEPT ![d].references = dl[d].references + 1,
                               ![d].abandoned = dl[d].abandoned,
                               ![d].cancelFunc = dl[d].cancelFunc]
          BY <3>1, <3>2, <4>1, Types DEF Acquire, Download
        <5> QED
          BY <5>1
      <4>2. CASE Cancel(c)
        <5>1. dl' = [dl EXCEPT ![d].references = dl[d].references,
                               ![d].abandoned = dl[d].abandoned,
                               ![d].cancelFunc = "called"]
          BY <3>1, <3>2, <4>2, Types DEF Cancel, Download
        <5> QED
          BY <5>1
      <4>3. CASE WaitDone(c) \/ WaitCtxDone(c)
        <5> DEFINE b == dl[d].abandoned \/ dl[d].references = 1
        <5>1. dl' = [dl EXCEPT ![d].references = dl[d].references - 1, ![d].abandoned = b]
          BY <3>1, <4>3 DEF WaitDone, WaitCtxDone, Leave
        <5> HIDE DEF b
        <5>2. dl' = [dl EXCEPT ![d].references = dl[d].references - 1, ![d].abandoned = b,
                               ![d].cancelFunc = dl[d].cancelFunc]
          BY <3>2, <5>1, Types DEF Download
        <5> QED
          BY <5>2
      <4> QED
        BY <2>4, <4>1, <4>2, <4>3
    <3> QED
      BY <2>3, <3>3
  <2> QED
    BY <2>1, <2>2, <2>4
<1> QED
  BY <1>1, <1>2, <1>3, Settled

LEMMA PreparedParts ==
  ASSUME IInv, PartsInv, NEW c \in Clients, Phase(c) \in {"prepare", "split"},
         Prepared(c) \/ (PrepareFails(c) /\ UNCHANGED disk)
  PROVE  PartsInv'
<1>1. UNCHANGED partFile
  BY DEF Prepared, disk
<1>2. NoneStarts
  <2>1. CASE Prepared(c)
    BY <2>1, Types DEF Prepared, NoneStarts, Call
  <2>2. CASE PrepareFails(c)
    BY <2>2, Types DEF PrepareFails, NoneStarts, Call
  <2> QED
    BY <2>1, <2>2
<1>3. Settles(c) /\ \A x \in Clients \ {c} : dl'[x] = dl[x]
  <2>1. CASE Prepared(c)
    BY <2>1, Types DEF Prepared, Settles, Download, Filling, Phase
  <2>2. CASE PrepareFails(c)
    BY <2>2, Types DEF PrepareFails, Settles, Download, Filling, Phase
  <2> QED
    BY <2>1, <2>2
<1> QED
  BY <1>1, <1>2, <1>3, Settled

LEMMA FinishParts ==
  ASSUME IInv, PartsInv, NEW d \in Clients, NEW e, Finish(d, e), UNCHANGED <<partFile, call>>
  PROVE  PartsInv'
<1>1. NoneStarts
  BY DEF NoneStarts
<1>2. Settles(d) /\ \A x \in Clients \ {d} : dl'[x] = dl[x]
  BY Types DEF Finish, NewDownload, Settles
<1> QED
  BY <1>1, <1>2, Settled

LEMMA RunParts ==
  ASSUME IInv, PartsInv, NEW d \in Clients, Run(d)
  PROVE  PartsInv'
<1> USE DEF disk
<1>1. UNCHANGED call /\ NoneStarts
  BY DEF Run, RunStart, RunOpen, RunDirect, RunFails, RunFetched, RunRemove, RunRename,
         RunClose, NoneStarts
<1>2. ASSUME NEW p, p \notin {"prepare", "split"}, p \in Filling => dl[d].phase \in Filling,
             NEW r, r.phase = p, r.parts = dl[d].parts, dl' = [dl EXCEPT ![d] = r],
             UNCHANGED partFile
      PROVE  PartsInv'
  <2>1. Settles(d) /\ \A x \in Clients \ {d} : dl'[x] = dl[x]
    BY <1>2, Types DEF Settles
  <2> QED
    BY <1>1, <1>2, <2>1, Settled
<1>0. dl[d] \in Download
  BY Types
<1>3. CASE RunStart(d)
  <2> DEFINE r == [dl[d] EXCEPT !.phase = "open", !.cancelFunc = "set"]
  <2>1. dl' = [dl EXCEPT ![d] = r] /\ UNCHANGED partFile /\ dl[d].phase = "ready"
    BY <1>0, <1>3 DEF RunStart, Phase, Download
  <2>2. r.phase = "open" /\ r.parts = dl[d].parts
    BY <1>0 DEF Download
  <2> HIDE DEF r
  <2> QED
    BY <1>2, <2>1, <2>2 DEF Filling
<1>4. CASE RunOpen(d) \/ RunClose(d)
  <2>1. PICK p \in {"direct", "closed"} :
          /\ dl' = [dl EXCEPT ![d].phase = p] /\ UNCHANGED partFile
          /\ p \in Filling => dl[d].phase \in Filling
    BY <1>4 DEF RunOpen, RunClose, Enter, Phase, Filling
  <2> DEFINE r == [dl[d] EXCEPT !.phase = p]
  <2>2. r.phase = p /\ r.parts = dl[d].parts /\ dl' = [dl EXCEPT ![d] = r]
    BY <1>0, <2>1 DEF Download
  <2> HIDE DEF r
  <2> QED
    BY <1>2, <2>1, <2>2
<1>5. CASE RunDirect(d)
  <2> DEFINE ws == [i \in DOMAIN dl[d].parts |->
                      Ended(IF Remaining(d, i) = 0 THEN "done" ELSE "recv")]
             r == [dl[d] EXCEPT !.phase = "fetch", !.work = ws]
  <2>1. dl' = [dl EXCEPT ![d] = r] /\ UNCHANGED partFile /\ dl[d].phase = "direct"
    BY <1>0, <1>5 DEF RunDirect, Phase, Download
  <2> HIDE DEF ws
  <2>2. r.phase = "fetch" /\ r.parts = dl[d].parts
    BY <1>0 DEF Download
  <2> HIDE DEF r
  <2> QED
    BY <1>2, <2>1, <2>2 DEF Filling
<1>6. CASE RunFails(d) \/ RunRename(d)
  BY <1>1, <1>6, FinishParts DEF RunFails, RunRename
<1>7. CASE RunFetched(d)
  <2>1. CASE dl[d].err # None
    BY <1>1, <1>7, <2>1, FinishParts DEF RunFetched
  <2>2. CASE dl[d].err = None
    <3> DEFINE r == [dl[d] EXCEPT !.phase = "remove"]
    <3>1. dl' = [dl EXCEPT ![d] = r] /\ UNCHANGED partFile
      BY <1>0, <1>7, <2>2 DEF RunFetched, Enter, Download
    <3>2. r.phase = "remove" /\ r.parts = dl[d].parts
      BY <1>0 DEF Download
    <3> HIDE DEF r
    <3> QED
      BY <1>2, <3>1, <3>2 DEF Filling
  <2> QED
    BY <2>1, <2>2
<1>8. CASE RunRemove(d)
  <2>1. CASE partFile[dl[d].at] = None
    BY <1>1, <1>8, <2>1, FinishParts DEF RunRemove
  <2>2. CASE partFile[dl[d].at] # None
    BY <1>8, <2>2, RunRemoveParts
  <2> QED
    BY <2>1, <2>2
<1> QED
  BY <1>3, <1>4, <1>5, <1>6, <1>7, <1>8 DEF Run

LEMMA ChunkParts ==
  ASSUME IInv, PartsInv, NEW d \in Clients, NEW i \in DOMAIN dl[d].work, Chunk(d, i)
  PROVE  PartsInv'
<1>1. CASE ChunkDone(d, i) \/ ChunkCut(d, i) \/ ChunkStalled(d, i) \/ ChunkCanceled(d, i)
  BY <1>1, EndKeepingParts DEF ChunkDone, ChunkCut, ChunkStalled, ChunkCanceled
<1>2. CASE ChunkReceive(d, i) \/ ChunkError(d, i) \/ ChunkNoSpace(d, i)
  <2>1. UNCHANGED <<partFile, call>> /\ NoneStarts
    BY <1>2 DEF ChunkReceive, ChunkError, ChunkNoSpace, disk, NoneStarts
  <2>2. \A x \in Clients : dl'[x] = dl[x] \/ SameParts(x)
    <3>1. CASE ChunkReceive(d, i)
      BY <3>1, Types DEF ChunkReceive, SameParts, Download
    <3>2. CASE ChunkError(d, i)
      BY <3>2, Types DEF ChunkError, SameParts, Download
    <3>3. CASE ChunkNoSpace(d, i)
      BY <3>3, Types DEF ChunkNoSpace, SameParts, Download
    <3> QED
      BY <1>2, <3>1, <3>2, <3>3
  <2> QED
    BY <2>1, <2>2, Settled
<1>3. CASE ChunkPartNoSpace(d, i)
  BY <1>3, ChunkPartNoSpaceParts
<1> QED
  BY <1>1, <1>2, <1>3 DEF Chunk

LEMMA PartsStep == IInv /\ PartsInv /\ [Next]_vars => PartsInv'
<1> SUFFICES ASSUME IInv, PartsInv, [Next]_vars PROVE PartsInv'
  OBVIOUS
<1>1. ASSUME NEW c \in Clients, Client(c) \/ WaitCtxDone(c) PROVE PartsInv'
  BY <1>1, ClientParts, RestartParts DEF Client, Panic
<1>2. ASSUME NEW c \in Clients, Prepare(c) PROVE PartsInv'
  <2>1. CASE ReadPart(c) \/ HeadOk(c) \/ NewPart(c) \/ NewPartFails(c)
    BY <2>1, ReadPartParts, HeadOkParts, NewPartParts, NewPartFailsParts
  <2>2. CASE ReadDone(c) \/ PrepareDone(c) \/ ReadOrHeadFails(c)
    BY <2>2, PreparedParts DEF ReadDone, PrepareDone, ReadOrHeadFails
  <2> QED
    BY <1>2, <2>1, <2>2 DEF Prepare
<1>3. ASSUME NEW d \in Clients, Run(d) PROVE PartsInv'
  BY <1>3, RunParts
<1>4. ASSUME NEW d \in Clients, NEW i \in DOMAIN dl[d].work, Chunk(d, i) PROVE PartsInv'
  BY <1>4, ChunkParts
<1>5. CASE Crash
  BY <1>5, RestartParts DEF Crash
<1>6. CASE UNCHANGED vars
  BY <1>6, Settled DEF vars, disk, NoneStarts
<1> QED
  BY <1>1, <1>2, <1>3, <1>4, <1>5, <1>6 DEF Next, Progress, Quiet

-----------------------------------------------------------------------------
(* What is on record is kept. *)

KeptOnRecord ==
  \A n \in PartNumbers :
    partFile[n] \notin {None, Torn} /\ partFile'[n] \notin {None, Torn} =>
      partFile'[n].completed >= partFile[n].completed

LEMMA FileUntouched ==
  ASSUME IInv,
         \A n \in PartNumbers : partFile'[n] = partFile[n] \/ partFile'[n] \in {None, Torn}
  PROVE  KeptOnRecord
<1> SUFFICES ASSUME NEW n \in PartNumbers, partFile[n] \notin {None, Torn},
                    partFile'[n] = partFile[n]
             PROVE  partFile'[n].completed >= partFile[n].completed
  BY DEF KeptOnRecord
<1>1. partFile[n] \in AnyPart
  BY Types
<1> QED
  BY <1>1 DEF AnyPart

LEMMA NewPartKeeps ==
  ASSUME IInv, PartsInv, NEW c \in Clients, NewPart(c)
  PROVE  KeptOnRecord
<1> DEFINE k == Len(dl[c].parts)
<1>1. partFile' = [partFile EXCEPT ![k] = NextPart(c)] /\ Phase(c) = "split"
  BY DEF NewPart, Unsplit, NextPart
<1>2. k \in Nat
  BY Types DEF Download
<1> HIDE DEF k
<1>3. k \in PartNumbers => partFile[k] = None
  BY <1>1, <1>2 DEF PartsInv, Tracked, SplitInOrder, k
<1>4. \A n \in PartNumbers : n # k => partFile'[n] = partFile[n]
  BY <1>1, Types
<1>5. \A n \in PartNumbers : partFile[n] \in AnyPart \cup {None, Torn}
  BY Types
<1> QED
  BY <1>3, <1>4, <1>5 DEF KeptOnRecord, AnyPart

LEMMA EndKeepingKeeps ==
  ASSUME IInv, PartsInv, NEW d \in Clients, NEW i \in DOMAIN dl[d].work, InChunk(d, i),
         NEW w, NEW e, EndKeeping(d, i, w, e)
  PROVE  KeptOnRecord
<1> DEFINE m == Part(d, i).n
           p == Kept(d, i)
<1>1. partFile' = [partFile EXCEPT ![m] = p] /\ Phase(d) = "fetch"
  BY DEF EndKeeping, InChunk
<1>2. p \in AnyPart /\ Part(d, i) \in AnyPart /\ Part(d, i).completed <= p.completed
  BY KeptMore, ChunkTypes
<1>3. m \in PartNumbers /\ Recorded(m) => partFile[m].completed <= Part(d, i).completed
  BY <1>1, ChunkTypes DEF PartsInv, Tracked, Behind, Filling
<1> HIDE DEF m, p
<1>4. /\ \A n \in PartNumbers : n # m => partFile'[n] = partFile[n]
      /\ m \in PartNumbers => partFile'[m] = p
  BY <1>1, Types
<1>5. \A n \in PartNumbers : partFile[n] \in AnyPart \cup {None, Torn}
  BY Types
<1>6. ASSUME NEW n \in PartNumbers, partFile[n] \notin {None, Torn},
             partFile'[n] \notin {None, Torn}
      PROVE  partFile'[n].completed >= partFile[n].completed
  <2>1. partFile[n].completed \in Nat
    BY <1>5, <1>6 DEF AnyPart
  <2>2. CASE n = m
    <3>1. partFile[n].completed <= Part(d, i).completed
      BY <1>3, <1>6, <2>2 DEF Recorded
    <3>2. p.completed \in Nat /\ Part(d, i).completed \in Nat
      BY <1>2 DEF AnyPart
    <3> QED
      BY <1>2, <1>4, <2>1, <2>2, <3>1, <3>2
  <2>3. CASE n # m
    BY <1>4, <2>1, <2>3
  <2> QED
    BY <2>2, <2>3
<1> QED
  BY <1>6 DEF KeptOnRecord

LEMMA KeepStep == IInv /\ PartsInv /\ [Next]_vars => KeptOnRecord
<1> SUFFICES ASSUME IInv, PartsInv, [Next]_vars PROVE KeptOnRecord
  OBVIOUS
<1>0. partFile \in [PartNumbers -> AnyPart \cup {None, Torn}]
  BY Types
<1>1. ASSUME NEW T, NEW K, NEW dataToo, Restart(T, K, dataToo) PROVE KeptOnRecord
  BY <1>1, FileUntouched DEF Restart
<1>2. ASSUME NEW c \in Clients, Client(c) \/ WaitCtxDone(c) PROVE KeptOnRecord
  <2>1. CASE Panic(c)
    BY <1>1, <2>1 DEF Panic
  <2>2. CASE ~Panic(c)
    <3>1. UNCHANGED partFile
      BY <1>2, <2>2 DEF Client, Stat, LoadOrStore, Acquire, WaitDone, WaitCtxDone, Cancel,
                        Leave, disk
    <3> QED
      BY <3>1, FileUntouched
  <2> QED
    BY <2>1, <2>2
<1>3. ASSUME NEW c \in Clients, Prepare(c) PROVE KeptOnRecord
  <2>1. CASE NewPart(c)
    BY <2>1, NewPartKeeps
  <2>2. CASE NewPartFails(c)
    BY <1>0, <2>2, FileUntouched DEF NewPartFails
  <2>3. CASE ReadPart(c) \/ HeadOk(c) \/ ReadDone(c) \/ PrepareDone(c) \/ ReadOrHeadFails(c)
    BY <2>3, FileUntouched DEF ReadPart, HeadOk, ReadDone, PrepareDone, ReadOrHeadFails,
                               Prepared, disk
  <2> QED
    BY <1>3, <2>1, <2>2, <2>3 DEF Prepare
<1>4. ASSUME NEW d \in Clients, Run(d) PROVE KeptOnRecord
  <2>1. UNCHANGED partFile \/ partFile' = [partFile EXCEPT ![dl[d].at] = None]
    BY <1>4 DEF Run, RunStart, RunOpen, RunDirect, RunFails, RunFetched, RunRemove,
                RunRename, RunClose, disk
  <2> QED
    BY <1>0, <2>1, FileUntouched
<1>5. ASSUME NEW d \in Clients, NEW i \in DOMAIN dl[d].work, Chunk(d, i) PROVE KeptOnRecord
  <2>1. CASE ChunkDone(d, i) \/ ChunkCut(d, i) \/ ChunkStalled(d, i) \/ ChunkCanceled(d, i)
    BY <2>1, EndKeepingKeeps DEF ChunkDone, ChunkCut, ChunkStalled, ChunkCanceled
  <2>2. CASE ChunkReceive(d, i) \/ ChunkError(d, i) \/ ChunkNoSpace(d, i)
    BY <2>2, FileUntouched DEF ChunkReceive, ChunkError, ChunkNoSpace, disk
  <2>3. CASE ChunkPartNoSpace(d, i)
    BY <1>0, <2>3, FileUntouched DEF ChunkPartNoSpace
  <2> QED
    BY <1>5, <2>1, <2>2, <2>3 DEF Chunk
<1>6. CASE Crash
  BY <1>1, <1>6 DEF Crash
<1>7. CASE UNCHANGED vars
  BY <1>7, FileUntouched DEF vars, disk
<1> QED
  BY <1>2, <1>3, <1>4, <1>5, <1>6, <1>7 DEF Next, Progress, Quiet

\* What a part file says is completed is never taken back, whatever attempts fail,
\* are cut, stall or are cancelled, and whichever download resumes from it: for
\* any number of parts, calls, retries and faults.
THEOREM ProgressKeptAlways == Spec => ProgressKept
<1>1. IInv /\ PartsInv /\ [Next]_vars =>
        [\A n \in PartNumbers :
           /\ partFile[n] \notin {None, Torn}
           /\ partFile'[n] \notin {None, Torn}
           => partFile'[n].completed >= partFile[n].completed]_vars
  BY KeepStep DEF KeptOnRecord
<1> QED
  BY Invariant, PartsInit, PartsStep, <1>1, PTL DEF Spec, ProgressKept

=============================================================================
