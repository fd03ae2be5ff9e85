---------------------- MODULE BlobDownloadData_proofs ----------------------
(***************************************************************************)
(* Proofs that what the part files say is in the data file, and that a     *)
(* blob appears under its final name only when it is whole.                *)
(*                                                                         *)
(* Part files can be pruned or torn, and then a download reads what is     *)
(* left of them as if it were all: the invariant follows such a download   *)
(* to its end, which is either a shorter file without a hole (the last     *)
(* parts are gone) or a part file that is missing when it is to be removed *)
(* (an earlier part is gone).                                              *)
(***************************************************************************)
EXTENDS BlobDownload_proofs, WellFoundedInduction

\* The files from 0 to n describe parts.
Prefix(n) == \A m \in 0 .. n : Recorded(m)

EndOf(p) == p.offset + p.size

\* The first m units of p are in the data file, or a prune has taken them.
Covered(p, m) == \A j \in p.offset + 1 .. p.offset + m : Accounted(j)

\* The parts are numbered as their positions are.
Gapless(d) == \A i \in DOMAIN dl[d].parts : Part(d, i).n = i - 1

EndOfParts(d) == IF dl[d].parts = <<>> THEN 0 ELSE EndOf(Part(d, Len(dl[d].parts)))

(* The parts of the inductive invariant: the disk. *)

\* A part begins where the one before it ends.
FilesSound ==
  \A n \in PartNumbers : Recorded(n) =>
    /\ partFile[n].completed <= partFile[n].size
    /\ n = 0 => partFile[n].offset = 0
    /\ n > 0 /\ Recorded(n - 1) => partFile[n].offset = EndOf(partFile[n - 1])

\* What a file that can be resumed says is there.
FilesTrue ==
  \A n \in PartNumbers : Prefix(n) => Covered(partFile[n], partFile[n].completed)

\* Not broken: the part files are those of a whole blob, but for the times when
\* they are being made or removed.
FilesWhole ==
  ~broken /\ ~SomePartsOnly =>
    \A n \in PartFiles : Prefix(n) /\ (n + 1 \notin PartFiles => EndOf(partFile[n]) \in Lengths)


(* The parts of the inductive invariant: the download that works on them. *)

\* A call that has not created its download.
NotBegun ==
  \A c \in Clients : call[c].pc \in {"start", "lookup"} =>
    Phase(c) = "none" /\ dl[c].at = 0 /\ dl[c].total = 0

Known(d) ==
  Phase(d) \in Active =>
    \A i \in DOMAIN dl[d].parts :
      /\ Part(d, i).n \in PartNumbers
      /\ Part(d, i).completed <= Part(d, i).size
      /\ Recorded(Part(d, i).n) =>
           /\ partFile[Part(d, i).n].offset = Part(d, i).offset
           /\ partFile[Part(d, i).n].size = Part(d, i).size

OnFile(d) ==
  Phase(d) \in Filling \ {"fetch"} =>
    \A i \in DOMAIN dl[d].parts : Recorded(Part(d, i).n) /\ partFile[Part(d, i).n] = Part(d, i)

Missing(d) ==
  \E m \in PartNumbers : /\ m < Len(dl[d].parts)
                         /\ partFile[m] = None
                         /\ Phase(d) = "remove" => m >= dl[d].at

Laid(d) ==
  Phase(d) \in Active => \/ Gapless(d) /\ (Phase(d) # "split" => dl[d].total = EndOfParts(d))
                         \/ broken /\ Missing(d)

Reading(d) ==
  Phase(d) = "prepare" =>
    /\ Gapless(d) => dl[d].at = Len(dl[d].parts)
    /\ \A n \in PartNumbers : n < dl[d].at /\ Prefix(n) => EndOf(partFile[n]) <= dl[d].total

Splitting(d) ==
  Phase(d) = "split" =>
    /\ dl[d].at = EndOfParts(d)
    /\ dl[d].at <= dl[d].total
    /\ dl[d].total \in Lengths
    /\ Unsplit(d) => dl[d].at = Len(dl[d].parts) * PartSize(dl[d].total)
    /\ \A i \in DOMAIN dl[d].parts : EndOf(Part(d, i)) <= dl[d].at

Sized(d) ==
  Phase(d) \in {"ready", "open", "direct", "fetch", "remove"} =>
    /\ Phase(d) # "remove" => dl[d].at = 0
    /\ Gapless(d) => \A n \in PartNumbers : n >= Len(dl[d].parts) => partFile[n] = None
    /\ \A n \in PartNumbers : Prefix(n) => EndOf(partFile[n]) <= dl[d].total
    /\ ~broken => dl[d].total \in Lengths

\* A part p, its goroutine w, and the error e that the errgroup remembers.
AtWork(p, w, e) ==
  /\ w.pc = "failed" => e # None
  /\ w.pc # "failed" => Recorded(p.n)
  /\ w.pc = "recv" => w.got <= p.size - p.completed
  /\ w.pc # "recv" => w.got = 0
  /\ w.pc = "done" => p.completed = p.size
  /\ Prefix(p.n) => Covered(p, p.completed + w.got)

Fetching(d) ==
  Phase(d) = "fetch" =>
    \A i \in DOMAIN dl[d].parts : AtWork(Part(d, i), dl[d].work[i], dl[d].err)

Opened(d) ==
  Phase(d) \in {"direct", "fetch"} /\ dl[d].err = None /\ Gapless(d) => Len(data) = dl[d].total

Removing(d) ==
  Phase(d) = "remove" =>
    /\ dl[d].at <= Len(dl[d].parts)
    /\ Gapless(d) =>
         /\ Len(data) = dl[d].total
         /\ \A j \in DOMAIN data : Accounted(j)
         /\ \A n \in PartNumbers :
              /\ n < dl[d].at => partFile[n] = None
              /\ n >= dl[d].at /\ n < Len(dl[d].parts) =>
                   Recorded(n) /\ EndOf(partFile[n]) <= dl[d].total

Tied(d) == /\ Known(d) /\ OnFile(d) /\ Laid(d) /\ Reading(d) /\ Splitting(d) /\ Sized(d)
           /\ Fetching(d) /\ Opened(d) /\ Removing(d)

DataInv == /\ FilesSound /\ FilesTrue /\ FilesWhole /\ BlobWhole /\ NotBegun
           /\ \A d \in Clients : Tied(d)

-----------------------------------------------------------------------------
(* Numbers, files and sequences. *)

LEMMA Numbers == MaxParts \in Nat /\ \A n : n \in PartNumbers <=> n \in Nat /\ n < MaxParts
BY DownloadAssumption DEF PartNumbers

LEMMA FileTypes ==
  ASSUME IInv, NEW n \in PartNumbers, Recorded(n)
  PROVE  partFile[n] \in AnyPart
BY Types DEF Recorded

LEMMA PrefixDown ==
  ASSUME NEW n \in Nat, Prefix(n), NEW m \in 0 .. n
  PROVE  Prefix(m) /\ Recorded(m)
BY DEF Prefix

LEMMA CoveredLess ==
  ASSUME NEW p \in AnyPart, NEW m \in Nat, NEW k \in 0 .. m, Covered(p, m)
  PROVE  Covered(p, k)
BY DEF Covered, Accounted, AnyPart

\* No unit is taken away unnoticed.
DataGrows == \A j \in Nat : Accounted(j) => Accounted(j)'

LEMMA CoveredGrows ==
  ASSUME NEW p \in AnyPart, NEW m \in Nat, Covered(p, m), DataGrows
  PROVE  Covered(p, m)'
<1>1. \A j \in p.offset + 1 .. p.offset + m : j \in Nat
  BY DEF AnyPart
<1> QED
  BY <1>1 DEF Covered, Accounted, DataGrows

LEMMA Position ==
  ASSUME NEW k \in Nat, NEW m \in Nat, m < k
  PROVE  \E i \in 1 .. k : i - 1 = m
<1>1. m + 1 \in 1 .. k /\ (m + 1) - 1 = m
  OBVIOUS
<1> QED
  BY <1>1

LEMMA Appended ==
  ASSUME NEW S, NEW s \in Seq(S), NEW e \in S
  PROVE  /\ Append(s, e) \in Seq(S)
         /\ Len(s) \in Nat /\ Len(Append(s, e)) = Len(s) + 1
         /\ DOMAIN s = 1 .. Len(s) /\ DOMAIN Append(s, e) = DOMAIN s \cup {Len(s) + 1}
         /\ Append(s, e)[Len(s) + 1] = e
         /\ \A i \in DOMAIN s : Append(s, e)[i] = s[i]
OBVIOUS

-----------------------------------------------------------------------------
(* The first state, and what depends on one download only. *)

LEMMA DataInit == Init => DataInv
<1> SUFFICES ASSUME Init PROVE DataInv
  OBVIOUS
<1>1. \A n \in PartNumbers : partFile[n] = None
  BY DEF Init
<1>2. FilesSound /\ FilesWhole
  BY <1>1 DEF FilesSound, FilesWhole, Recorded, PartFiles
<1>3. FilesTrue
  BY <1>1, Numbers DEF FilesTrue, Prefix, Recorded
<1>4. BlobWhole /\ NotBegun
  BY DEF Init, BlobWhole, NotBegun, NewDownload, Phase
<1>5. \A d \in Clients : Phase(d) = "none"
  BY DEF Init, Phase, NewDownload
<1>6. \A d \in Clients : Tied(d)
  BY <1>5 DEF Tied, Known, OnFile, Laid, Reading, Splitting, Sized, Fetching, Opened, Removing,
              Filling, Active
<1> QED
  BY <1>2, <1>3, <1>4, <1>6 DEF DataInv

LEMMA TiedIdle ==
  ASSUME NEW d, dl'[d].phase \notin Active
  PROVE  Tied(d)'
BY DEF Tied, Known, OnFile, Laid, Reading, Splitting, Sized, Fetching, Opened, Removing,
       Filling, Active, Phase

\* What the invariant says of a download is about these fields.
SameView(d) == /\ dl'[d].phase = dl[d].phase
               /\ dl'[d].parts = dl[d].parts
               /\ dl'[d].total = dl[d].total
               /\ dl'[d].at = dl[d].at
               /\ dl'[d].work = dl[d].work
               /\ dl'[d].err = dl[d].err

LEMMA TiedSame ==
  ASSUME NEW d, Tied(d), SameView(d), UNCHANGED <<partFile, data, lost>>, broken => broken'
  PROVE  Tied(d)'
<1> USE DEF SameView, Tied, Phase, Part, Recorded, EndOf, EndOfParts, Gapless, Prefix
<1>1. Known(d)' /\ OnFile(d)'
  BY DEF Known, OnFile
<1>2. Laid(d)' /\ Reading(d)'
  BY DEF Laid, Missing, Reading
<1>3. Splitting(d)'
  BY DEF Splitting, Unsplit
<1>4. Sized(d)'
  BY DEF Sized
<1>5. Fetching(d)'
  BY DEF Fetching, AtWork, Covered, Accounted
<1>6. Opened(d)' /\ Removing(d)'
  BY DEF Opened, Removing, Accounted
<1> QED
  BY <1>1, <1>2, <1>3, <1>4, <1>5, <1>6

\* Some, but not all, of the part files of the download are there.
Halfway(d) == \/ Unsplit(d) /\ dl[d].parts # <<>>
              \/ Phase(d) = "remove" /\ dl[d].at \in 1 .. Len(dl[d].parts) - 1

LEMMA HalfwayIsActive ==
  ASSUME NEW d, Halfway(d)
  PROVE  Phase(d) \in Active
BY DEF Halfway, Unsplit, Active

LEMMA SomePartsOnlyHalfway == SomePartsOnly <=> \E d \in Clients : Halfway(d)
BY DEF SomePartsOnly, Halfway

\* Only one download is at work before and after the step: d.
LEMMA OneTied ==
  ASSUME DataInv, NEW d \in Clients, NoneStarts, call'[d].pc \notin {"start", "lookup"},
         \A x \in Clients \ {d} : dl'[x] = dl[x] /\ dl[x].phase \notin Active,
         FilesSound', FilesTrue', BlobWhole', Tied(d)',
         ~broken' /\ ~Halfway(d)' =>
           \A n \in PartFiles' : Prefix(n)' /\ (n + 1 \notin PartFiles' => EndOf(partFile'[n]) \in Lengths)
  PROVE  DataInv'
<1>1. NotBegun'
  BY DEF DataInv, NotBegun, NoneStarts, Phase
<1>2. \A x \in Clients : Tied(x)'
  BY TiedIdle
<1>3. FilesWhole'
  <2> SUFFICES ASSUME ~SomePartsOnly' PROVE ~Halfway(d)'
    BY DEF FilesWhole
  <2> QED
    BY SomePartsOnlyHalfway DEF SomePartsOnly, Halfway
<1> QED
  BY <1>1, <1>2, <1>3 DEF DataInv

LEMMA Begun ==
  ASSUME DataInv, NEW d \in Clients, Phase(d) \in Active
  PROVE  call[d].pc \notin {"start", "lookup"}
BY DEF DataInv, NotBegun, Active

LEMMA OthersRest ==
  ASSUME IInv, NEW d \in Clients, Phase(d) \in Active
  PROVE  \A x \in Clients \ {d} : dl[x].phase \notin Active
BY DEF IInv, OneDownload, Phase

\* A step that leaves the disk alone, and every download as it was or at an end.
LEMMA DataStays ==
  ASSUME DataInv, UNCHANGED <<disk, lost>>, broken => broken', NoneStarts,
         \A d \in Clients : dl'[d] = dl[d] \/ SameView(d) \/ dl'[d].phase \notin Active,
         broken' \/ \A d \in Clients : Halfway(d) => Halfway(d)',
         \A c \in Clients : call'[c].pc \in {"start", "lookup"} => SameView(c)
  PROVE  DataInv'
<1> USE DEF disk
<1>1. FilesSound' /\ FilesTrue'
  BY DEF DataInv, FilesSound, FilesTrue, Recorded, EndOf, Prefix, Covered, Accounted
<1>2. FilesWhole'
  <2>1. ~broken' /\ ~SomePartsOnly' => ~broken /\ ~SomePartsOnly
    BY DEF SomePartsOnly, Halfway
  <2> QED
    BY <2>1 DEF DataInv, FilesWhole, Prefix, Recorded, EndOf, PartFiles
<1>3. BlobWhole' /\ NotBegun'
  BY DEF DataInv, BlobWhole, NotBegun, NoneStarts, SameView, Phase
<1>4. \A d \in Clients : Tied(d)'
  <2> SUFFICES ASSUME NEW d \in Clients PROVE Tied(d)'
    OBVIOUS
  <2>1. CASE dl'[d].phase \notin Active
    BY <2>1, TiedIdle
  <2>2. CASE dl'[d] = dl[d] \/ SameView(d)
    <3>1. SameView(d)
      BY <2>2 DEF SameView
    <3> QED
      BY <3>1, TiedSame DEF DataInv
  <2> QED
    BY <2>1, <2>2
<1> QED
  BY <1>1, <1>2, <1>3, <1>4 DEF DataInv

-----------------------------------------------------------------------------
(* downloadBlob and Wait *)

LEMMA CountsOnly ==
  ASSUME IInv, NEW d \in Clients, NEW k, NEW b, NEW f,
         dl' = [dl EXCEPT ![d].references = k, ![d].abandoned = b, ![d].cancelFunc = f]
  PROVE  \A x \in Clients : SameView(x)
<1> DEFINE r == [dl[d] EXCEPT !.references = k, !.abandoned = b, !.cancelFunc = f]
<1>1. dl[d] \in Download
  BY Types
<1>2. dl' = [dl EXCEPT ![d] = r]
  BY <1>1 DEF Download
<1>3. /\ r.parts = dl[d].parts /\ r.phase = dl[d].phase /\ r.at = dl[d].at
      /\ r.total = dl[d].total /\ r.work = dl[d].work /\ r.err = dl[d].err
  BY <1>1 DEF Download
<1> HIDE DEF r
<1>4. dl'[d] = r /\ \A x \in Clients \ {d} : dl'[x] = dl[x]
  BY <1>2, Types
<1> QED
  BY <1>3, <1>4 DEF SameView

LEMMA ViewsStay ==
  ASSUME DataInv, UNCHANGED <<disk, broken, lost>>, NoneStarts, \A x \in Clients : SameView(x)
  PROVE  DataInv'
<1>1. \A x \in Clients : Halfway(x) => Halfway(x)'
  BY DEF Halfway, Unsplit, Phase, SameView
<1> QED
  BY <1>1, DataStays

LEMMA ClientData ==
  ASSUME IInv, PartsInv, DataInv, NEW c \in Clients, Client(c) \/ WaitCtxDone(c), ~Panic(c)
  PROVE  DataInv'
<1>1. UNCHANGED <<disk, broken, lost>>
  BY DEF Client, Stat, LoadOrStore, Acquire, WaitDone, WaitCtxDone, Cancel, Leave
<1>2. NoneStarts
  <2>1. CASE Stat(c)
    BY <2>1, Types DEF Stat, NoneStarts, Call
  <2>2. CASE LoadOrStore(c)
    BY <2>2, Types DEF LoadOrStore, NoneStarts, Call
  <2>3. CASE Acquire(c) \/ Cancel(c)
    BY <2>3, Types DEF Acquire, Cancel, NoneStarts, Call
  <2>4. CASE WaitDone(c) \/ WaitCtxDone(c)
    BY <2>4, Types DEF WaitDone, WaitCtxDone, Leave, NoneStarts, Call
  <2> QED
    BY <2>1, <2>2, <2>3, <2>4 DEF Client
<1>3. CASE Stat(c) \/ (LoadOrStore(c) /\ manager # None)
  <2>1. \A x \in Clients : SameView(x)
    BY <1>3 DEF Stat, LoadOrStore, SameView
  <2> QED
    BY <1>1, <1>2, <2>1, ViewsStay
<1>4. CASE LoadOrStore(c) /\ manager = None
  <2>1. /\ dl' = [dl EXCEPT ![c].phase = "prepare"]
        /\ call' = [call EXCEPT ![c].pc = "prepare", ![c].download = c]
        /\ dl[c].parts = <<>> /\ dl[c].at = 0 /\ dl[c].total = 0
    BY <1>4 DEF LoadOrStore, PartsInv, Fresh, DataInv, NotBegun
  <2>2. /\ dl'[c].phase = "prepare" /\ dl'[c].parts = <<>>
        /\ dl'[c].at = 0 /\ dl'[c].total = 0 /\ call'[c].pc = "prepare"
        /\ \A x \in Clients \ {c} : dl'[x] = dl[x]
    BY <2>1, Types DEF Download, Call
  <2>3. \A x \in Clients : dl[x].phase \notin Active
    BY <1>4, NoneNoClient DEF IInv, OneDownload, Phase
  <2>4. Tied(c)'
    <3>1. /\ Known(c)' /\ OnFile(c)' /\ Laid(c)' /\ Splitting(c)' /\ Sized(c)'
          /\ Fetching(c)' /\ Opened(c)' /\ Removing(c)'
      BY <2>2 DEF Known, OnFile, Laid, Splitting, Sized, Fetching, Opened, Removing,
                  Phase, Gapless, EndOfParts, Part
    <3>2. Reading(c)'
      BY <2>2, Numbers DEF Reading, Phase
    <3> QED
      BY <3>1, <3>2 DEF Tied
  <2>5. FilesSound' /\ FilesTrue' /\ BlobWhole'
    BY <1>1 DEF disk, DataInv, FilesSound, FilesTrue, BlobWhole, Recorded, EndOf, Prefix, Covered, Accounted
  <2>6. ~SomePartsOnly
    BY <2>3, SomePartsOnlyHalfway, HalfwayIsActive DEF Phase
  <2>7. ~broken' => \A n \in PartFiles' : Prefix(n)' /\ (n + 1 \notin PartFiles' =>
                                                       EndOf(partFile'[n]) \in Lengths)
    BY <1>1, <2>6 DEF disk, DataInv, FilesWhole, Prefix, Recorded, EndOf, PartFiles
  <2> QED
    BY <1>2, <2>2, <2>3, <2>4, <2>5, <2>7, OneTied
<1>5. CASE Acquire(c) \/ Cancel(c) \/ WaitDone(c) \/ WaitCtxDone(c)
  <2>1. PICK d \in Clients : d = call[c].download
    BY <1>5 DEF IInv, CallsHaveDownloads, Acquire, Cancel, WaitDone, WaitCtxDone
  <2>2. dl[d] \in Download
    BY Types
  <2>3. \E k, b, f : dl' = [dl EXCEPT ![d].references = k, ![d].abandoned = b,
                                     ![d].cancelFunc = f]
    <3>1. CASE Acquire(c)
      <4>1. dl' = [dl EXCEPT ![d].references = dl[d].references + 1,
                             ![d].abandoned = dl[d].abandoned,
                             ![d].cancelFunc = dl[d].cancelFunc]
        BY <2>1, <2>2, <3>1, Types DEF Acquire, Download
      <4> QED
        BY <4>1
    <3>2. CASE Cancel(c)
      <4>1. dl' = [dl EXCEPT ![d].references = dl[d].references,
                             ![d].abandoned = dl[d].abandoned,
                             ![d].cancelFunc = "called"]
        BY <2>1, <2>2, <3>2, Types DEF Cancel, Download
      <4> QED
        BY <4>1
    <3>3. CASE WaitDone(c) \/ WaitCtxDone(c)
      <4> DEFINE b == dl[d].abandoned \/ dl[d].references = 1
      <4>1. dl' = [dl EXCEPT ![d].references = dl[d].references - 1, ![d].abandoned = b]
        BY <2>1, <3>3 DEF WaitDone, WaitCtxDone, Leave
      <4> HIDE DEF b
      <4>2. dl' = [dl EXCEPT ![d].references = dl[d].references - 1, ![d].abandoned = b,
                             ![d].cancelFunc = dl[d].cancelFunc]
        BY <2>2, <4>1, Types DEF Download
      <4> QED
        BY <4>2
    <3> QED
      BY <1>5, <3>1, <3>2, <3>3
  <2> QED
    BY <1>1, <1>2, <2>3, CountsOnly, ViewsStay
<1> QED
  BY <1>3, <1>4, <1>5 DEF Client

-----------------------------------------------------------------------------
(* Prepare *)

\* Files that are taken away or torn.
LEMMA FilesStillSound ==
  ASSUME DataInv,
         \A n \in PartNumbers : partFile'[n] = partFile[n] \/ partFile'[n] \in {None, Torn}
  PROVE  FilesSound'
<1>1. \A n \in PartNumbers : Recorded(n)' => Recorded(n) /\ partFile'[n] = partFile[n]
  BY DEF Recorded
<1> SUFFICES ASSUME NEW n \in PartNumbers, Recorded(n)'
             PROVE  /\ partFile'[n].completed <= partFile'[n].size
                    /\ n = 0 => partFile'[n].offset = 0
                    /\ n > 0 /\ Recorded(n - 1)' => partFile'[n].offset = EndOf(partFile'[n - 1])
  BY DEF FilesSound
<1>2. n > 0 => n - 1 \in PartNumbers
  BY Numbers
<1> QED
  BY <1>1, <1>2 DEF DataInv, FilesSound

\* Their data stays.
LEMMA FilesLost ==
  ASSUME DataInv, UNCHANGED <<data, lost>>,
         \A n \in PartNumbers : partFile'[n] = partFile[n] \/ partFile'[n] \in {None, Torn}
  PROVE  FilesSound' /\ FilesTrue'
<1>1. \A n \in PartNumbers : Recorded(n)' => Recorded(n) /\ partFile'[n] = partFile[n]
  BY DEF Recorded
<1>2. FilesSound'
  BY FilesStillSound
<1>3. FilesTrue'
  <2> SUFFICES ASSUME NEW n \in PartNumbers, Prefix(n)'
               PROVE  Covered(partFile[n], partFile[n].completed) /\ partFile'[n] = partFile[n]
    BY DEF FilesTrue, Covered, Accounted
  <2>1. \A m \in 0 .. n : m \in PartNumbers /\ Recorded(m)'
    BY Numbers DEF Prefix
  <2>2. n \in 0 .. n
    BY Numbers
  <2> QED
    BY <1>1, <2>1, <2>2 DEF DataInv, FilesTrue, Prefix
<1> QED
  BY <1>2, <1>3

LEMMA DiskSame ==
  ASSUME DataInv, UNCHANGED <<disk, broken, lost>>
  PROVE  /\ FilesSound' /\ FilesTrue' /\ BlobWhole'
         /\ ~broken' /\ ~SomePartsOnly =>
              \A n \in PartFiles' : Prefix(n)' /\ (n + 1 \notin PartFiles' => EndOf(partFile'[n]) \in Lengths)
BY DEF disk, DataInv, FilesSound, FilesTrue, BlobWhole, Recorded, EndOf, Prefix, Covered, Accounted,
       FilesWhole, PartFiles

LEMMA NotHalfway ==
  ASSUME IInv, NEW d \in Clients, Phase(d) \in Active, ~Halfway(d)
  PROVE  ~SomePartsOnly
BY OthersRest, SomePartsOnlyHalfway, HalfwayIsActive DEF Phase

\* The last of the parts, or none.
LEMMA EndOfPartsIs ==
  ASSUME IInv, NEW d \in Clients
  PROVE  /\ Len(dl[d].parts) = 0 => EndOfParts(d) = 0
         /\ Len(dl[d].parts) > 0 => /\ Len(dl[d].parts) \in DOMAIN dl[d].parts
                                    /\ EndOfParts(d) = EndOf(Part(d, Len(dl[d].parts)))
         /\ EndOfParts(d) \in Nat
<1>1. dl[d].parts \in Seq(AnyPart)
  BY Types DEF Download
<1>p. \A p \in AnyPart : EndOf(p) \in Nat
  BY DEF EndOf, AnyPart
<1>2. \A i \in DOMAIN dl[d].parts : EndOf(Part(d, i)) \in Nat
  BY <1>1, <1>p DEF Part
<1> QED
  BY <1>1, <1>2 DEF EndOfParts

LEMMA ReadPartData ==
  ASSUME IInv, PartsInv, DataInv, NEW c \in Clients, ReadPart(c)
  PROVE  DataInv'
<1>1. PICK n \in PartNumbers :
        /\ NextFile(c, n) /\ partFile[n] # Torn
        /\ dl' = [dl EXCEPT ![c].parts = Append(@, partFile[n]),
                            ![c].total = @ + partFile[n].size,
                            ![c].completed = @ + partFile[n].completed,
                            ![c].at = n + 1]
  BY DEF ReadPart
<1>2. Phase(c) = "prepare" /\ UNCHANGED <<partFile, data, blob, call, broken, lost>>
  BY DEF ReadPart, disk
<1>3. Recorded(n) /\ n >= dl[c].at /\ n \in Nat /\ partFile[n] \in AnyPart
      /\ \A m \in PartFiles : m >= dl[c].at => n <= m
  BY <1>1, FileTypes, Numbers DEF NextFile, PartFiles, Recorded
<1>4. partFile[n].n = n /\ partFile[n].completed <= partFile[n].size
  BY <1>3 DEF PartsInv, NamedByNumber, DataInv, FilesSound
<1>5. dl[c] \in Download /\ dl[c].parts \in Seq(AnyPart) /\ dl[c].at \in Nat /\ dl[c].total \in Nat
  BY Types DEF Download
<1> DEFINE p == partFile[n]
           ps == Append(dl[c].parts, p)
           t == dl[c].total + p.size
           k == Len(dl[c].parts)
<1>6. /\ dl'[c].parts = ps /\ dl'[c].phase = "prepare" /\ dl'[c].at = n + 1 /\ dl'[c].total = t
      /\ \A x \in Clients \ {c} : dl'[x] = dl[x]
  BY <1>1, <1>2, <1>5, Types DEF Download, Phase
<1>7. /\ DOMAIN ps = DOMAIN dl[c].parts \cup {k + 1} /\ DOMAIN dl[c].parts = 1 .. k
      /\ ps[k + 1] = p /\ Len(ps) = k + 1 /\ k \in Nat
      /\ \A i \in DOMAIN dl[c].parts : ps[i] = dl[c].parts[i]
  BY <1>3, <1>5, Appended
<1>n. ps # <<>>
  BY <1>7
<1>8. p.size \in Nat /\ p.offset \in Nat /\ p.n = n
  BY <1>3, <1>4 DEF AnyPart
<1> HIDE DEF ps, p, t
<1>9. Tied(c)
  BY DEF DataInv
<1>10. \A i \in DOMAIN dl[c].parts :
         /\ dl[c].parts[i].n \in PartNumbers
         /\ dl[c].parts[i].completed <= dl[c].parts[i].size
         /\ Recorded(dl[c].parts[i].n) /\ partFile[dl[c].parts[i].n] = dl[c].parts[i]
  BY <1>2, <1>9 DEF Tied, Known, OnFile, Active, Filling, Part
<1>11. Known(c)' /\ OnFile(c)'
  <2>1. \A i \in DOMAIN ps : /\ ps[i].n \in PartNumbers
                             /\ ps[i].completed <= ps[i].size
                             /\ Recorded(ps[i].n) /\ partFile[ps[i].n] = ps[i]
    BY <1>3, <1>4, <1>7, <1>10 DEF p
  <2> QED
    BY <1>2, <1>6, <2>1 DEF Known, OnFile, Part, Recorded
<1>12. ~SomePartsOnly /\ ~Halfway(c)'
  BY <1>2, <1>6, NotHalfway DEF Halfway, Unsplit, Phase, Active
<1>13. Gapless(c) => dl[c].at = k
  BY <1>2, <1>9 DEF Tied, Reading
<1>14. Laid(c)'
  <2>1. CASE Gapless(c) /\ dl[c].total = EndOfParts(c) /\ n = dl[c].at
    <3>1. Gapless(c)'
      BY <1>6, <1>7, <1>8, <1>13, <2>1 DEF Gapless, Part
    <3>2. p.offset = EndOfParts(c)
      <4>1. CASE k = 0
        BY <1>3, <1>13, <2>1, <4>1, EndOfPartsIs DEF DataInv, FilesSound, p
      <4>2. CASE k > 0
        <5>k. k = n /\ k \in DOMAIN dl[c].parts
          BY <1>7, <1>13, <2>1, <4>2
        <5>1. k \in DOMAIN dl[c].parts /\ dl[c].parts[k].n = n - 1
          BY <2>1, <5>k DEF Gapless, Part
        <5>2. Recorded(n - 1) /\ partFile[n - 1] = dl[c].parts[k]
          BY <1>10, <5>1
        <5>3. EndOfParts(c) = EndOf(dl[c].parts[k])
          BY <4>2, EndOfPartsIs DEF Part
        <5> QED
          BY <1>3, <1>13, <2>1, <4>2, <5>2, <5>3 DEF DataInv, FilesSound, p
      <4> QED
        BY <1>7, <4>1, <4>2
    <3>3. EndOfParts(c)' = EndOf(p)
      BY <1>6, <1>7, <1>n DEF EndOfParts, Part, EndOf
    <3>4. t = EndOf(p)
      BY <1>8, <2>1, <3>2 DEF EndOf, t
    <3> QED
      BY <1>6, <3>1, <3>3, <3>4 DEF Laid
  <2>2. CASE Gapless(c) /\ n # dl[c].at
    <3>1. dl[c].at \in PartNumbers /\ dl[c].at < n /\ dl[c].at \notin PartFiles
      <4>1. dl[c].at < n
        BY <1>3, <1>5, <2>2
      <4>2. dl[c].at \notin PartFiles
        BY <1>3, <1>5, <4>1
      <4> QED
        BY <1>3, <1>5, <4>1, <4>2, Numbers
    <3>2. partFile[dl[c].at] = None
      BY <3>1 DEF PartFiles
    <3>3. broken
      <4> SUFFICES ASSUME ~broken PROVE FALSE
        OBVIOUS
      <4>1. n \in PartFiles
        BY <1>3 DEF PartFiles, Recorded
      <4>2. Prefix(n)
        BY <1>12, <4>1 DEF DataInv, FilesWhole
      <4>3. Recorded(dl[c].at)
        BY <1>3, <1>5, <3>1, <4>2, PrefixDown
      <4> QED
        BY <3>2, <4>3 DEF Recorded
    <3>4. Missing(c)'
      BY <1>2, <1>6, <1>7, <1>13, <2>2, <3>1, <3>2 DEF Missing, Phase
    <3> QED
      BY <1>2, <3>3, <3>4 DEF Laid
  <2>3. CASE broken /\ Missing(c)
    <3>1. PICK m \in PartNumbers : m < k /\ partFile[m] = None
      BY <2>3 DEF Missing
    <3>2. m < k + 1
      BY <1>7, <3>1, Numbers
    <3>3. Missing(c)'
      BY <1>2, <1>6, <1>7, <3>1, <3>2 DEF Missing, Phase
    <3> QED
      BY <1>2, <2>3, <3>3 DEF Laid
  <2> QED
    BY <1>2, <1>9, <2>1, <2>2, <2>3 DEF Tied, Laid, Active
<1>15. Reading(c)'
  <2>1. Gapless(c)' => n + 1 = Len(ps)
    BY <1>6, <1>7, <1>8 DEF Gapless, Part
  <2>2. ASSUME NEW m \in PartNumbers, m < n + 1, Prefix(m) PROVE EndOf(partFile[m]) <= t
    <3>1. m \in Nat /\ Recorded(m) /\ partFile[m] \in AnyPart
      BY <2>2, Numbers, PrefixDown, FileTypes
    <3>2. EndOf(partFile[m]) \in Nat
      BY <3>1 DEF EndOf, AnyPart
    <3>3. CASE m < dl[c].at
      <4>1. EndOf(partFile[m]) <= dl[c].total
        BY <1>2, <1>9, <2>2, <3>3 DEF Tied, Reading
      <4> QED
        BY <1>5, <1>8, <3>2, <4>1 DEF t
    <3>4. CASE m >= dl[c].at
      <4>1. m = n
        BY <1>3, <1>5, <2>2, <3>1, <3>4 DEF PartFiles, Recorded
      <4>2. CASE n = 0
        <5>1. p.offset = 0
          BY <1>3, <4>2 DEF DataInv, FilesSound, p
        <5> QED
          BY <1>5, <1>8, <4>1, <5>1 DEF EndOf, p, t
      <4>3. CASE n > 0
        <5>1. n - 1 \in PartNumbers /\ n - 1 \in 0 .. n
          BY <1>3, <4>3, Numbers
        <5>2. Prefix(n - 1) /\ Recorded(n - 1)
          BY <1>3, <2>2, <4>1, <5>1, PrefixDown
        <5>3. p.offset = EndOf(partFile[n - 1])
          BY <1>3, <4>3, <5>2 DEF DataInv, FilesSound, p
        <5>4. n - 1 < dl[c].at
          <6> SUFFICES ASSUME n - 1 >= dl[c].at PROVE FALSE
            BY <1>3, <1>5
          <6>1. n - 1 \in PartFiles
            BY <5>1, <5>2 DEF PartFiles, Recorded
          <6> QED
            BY <1>3, <6>1
        <5>5. EndOf(partFile[n - 1]) <= dl[c].total
          BY <1>2, <1>9, <5>1, <5>2, <5>4 DEF Tied, Reading
        <5> QED
          BY <1>5, <1>8, <4>1, <5>3, <5>5 DEF EndOf, p, t
      <4> QED
        BY <1>3, <4>2, <4>3
    <3> QED
      BY <1>5, <3>1, <3>3, <3>4
  <2> QED
    BY <1>2, <1>6, <2>1, <2>2 DEF Reading, Prefix, Recorded, EndOf
<1>16. Tied(c)'
  BY <1>6, <1>11, <1>14, <1>15
     DEF Tied, Splitting, Sized, Fetching, Opened, Removing, Phase
<1>17. NoneStarts /\ call'[c].pc \notin {"start", "lookup"}
  BY <1>2 DEF NoneStarts, IInv, CallsHaveDownloads
<1>18. \A x \in Clients \ {c} : dl'[x] = dl[x] /\ dl[x].phase \notin Active
  BY <1>2, <1>6, OthersRest DEF Active
<1> QED
  BY <1>2, <1>12, <1>16, <1>17, <1>18, DiskSame, OneTied DEF disk

LEMMA LeastNat ==
  ASSUME NEW S \in SUBSET Nat, S # {}
  PROVE  \E m \in S : \A k \in S : m <= k
<1>1. PICK m \in S : \A k \in S : <<k, m>> \notin OpToRel(<, Nat)
  BY NatLessThanWellFounded, WFMin
<1>2. \A k \in S : ~(k < m)
  BY <1>1 DEF OpToRel
<1> QED
  BY <1>2

\* Prepare ends: the sizes must fit the files.
LEMMA PreparedData ==
  ASSUME IInv, PartsInv, DataInv, NEW c \in Clients, Phase(c) \in {"prepare", "split"},
         ~Halfway(c), Prepared(c),
         Gapless(c) => /\ dl[c].total = EndOfParts(c)
                       /\ \A n \in PartNumbers : n >= Len(dl[c].parts) => partFile[n] = None,
         \A n \in PartNumbers : Prefix(n) => EndOf(partFile[n]) <= dl[c].total,
         ~broken => dl[c].total \in Lengths
  PROVE  DataInv'
<1>1. /\ dl' = [dl EXCEPT ![c].phase = "ready", ![c].at = 0]
      /\ call' = [call EXCEPT ![c].pc = "join"]
      /\ UNCHANGED <<disk, broken, lost>>
  BY DEF Prepared
<1>2. /\ dl'[c].phase = "ready" /\ dl'[c].at = 0
      /\ dl'[c].parts = dl[c].parts /\ dl'[c].total = dl[c].total
      /\ \A x \in Clients \ {c} : dl'[x] = dl[x]
  BY <1>1, Types DEF Download
<1>3. Tied(c) /\ Phase(c) \in Active /\ Phase(c) \in Filling \ {"fetch"}
  BY DEF DataInv, Active, Filling
<1>4. UNCHANGED <<partFile, data>>
  BY <1>1 DEF disk
<1>5. Known(c)' /\ OnFile(c)'
  BY <1>2, <1>3, <1>4 DEF Tied, Known, OnFile, Part, Recorded
<1>6. Laid(c)'
  <2>1. Gapless(c)' <=> Gapless(c)
    BY <1>2 DEF Gapless, Part
  <2>2. EndOfParts(c)' = EndOfParts(c)
    BY <1>2 DEF EndOfParts, Part, EndOf
  <2>3. Missing(c) => Missing(c)'
    BY <1>2, <1>4 DEF Missing, Phase
  <2> QED
    BY <1>1, <1>2, <1>3, <2>1, <2>2, <2>3 DEF Tied, Laid
<1>7. Sized(c)'
  BY <1>1, <1>2, <1>4 DEF Sized, Gapless, Part, Prefix, Recorded, EndOf
<1>8. Tied(c)'
  BY <1>2, <1>5, <1>6, <1>7 DEF Tied, Reading, Splitting, Fetching, Opened, Removing, Phase
<1>9. NoneStarts /\ call'[c].pc \notin {"start", "lookup"}
  BY <1>1, Types DEF NoneStarts, Call
<1>10. \A x \in Clients \ {c} : dl'[x] = dl[x] /\ dl[x].phase \notin Active
  BY <1>2, <1>3, OthersRest
<1> QED
  BY <1>1, <1>3, <1>8, <1>9, <1>10, DiskSame, OneTied, NotHalfway

LEMMA ReadDoneData ==
  ASSUME IInv, PartsInv, DataInv, NEW c \in Clients, ReadDone(c)
  PROVE  DataInv'
<1> DEFINE k == Len(dl[c].parts)
<1>1. /\ Phase(c) = "prepare" /\ dl[c].parts # <<>> /\ Prepared(c)
      /\ ~\E n \in PartNumbers : NextFile(c, n)
  BY DEF ReadDone
<1>2. dl[c].parts \in Seq(AnyPart) /\ dl[c].at \in Nat /\ k \in Nat /\ k > 0 /\ k \in 1 .. k
      /\ DOMAIN dl[c].parts = 1 .. k
  BY <1>1, Types DEF Download
<1>3. \A m \in PartNumbers : Recorded(m) \/ partFile[m] # None => m < dl[c].at
  <2> SUFFICES ASSUME NEW m \in PartNumbers, m \in PartFiles, ~(m < dl[c].at) PROVE FALSE
    BY DEF Recorded, PartFiles
  <2> DEFINE S == {x \in PartFiles : x >= dl[c].at}
  <2>1. S \in SUBSET Nat /\ m \in S
    BY <1>2, Numbers DEF PartFiles
  <2>2. PICK x \in S : \A y \in S : x <= y
    BY <2>1, LeastNat
  <2>3. NextFile(c, x) /\ x \in PartNumbers
    BY <2>2 DEF NextFile, PartFiles
  <2> QED
    BY <1>1, <2>3
<1>4. Tied(c) /\ ~Halfway(c)
  BY <1>1 DEF DataInv, Halfway, Unsplit, Phase
<1>5. ASSUME Gapless(c)
      PROVE  /\ dl[c].total = EndOfParts(c) /\ dl[c].at = k
             /\ \A n \in PartNumbers : n >= k => partFile[n] = None
  <2>1. dl[c].at = k
    BY <1>1, <1>4, <1>5 DEF Tied, Reading
  <2>2. dl[c].total = EndOfParts(c)
    <3>1. Missing(c) => FALSE
      <4> SUFFICES ASSUME NEW m \in PartNumbers, m < k, partFile[m] = None PROVE FALSE
        BY DEF Missing
      <4>1. PICK i \in DOMAIN dl[c].parts : i - 1 = m
        BY <1>2, Numbers, Position
      <4>2. Part(c, i).n = m
        BY <1>5, <4>1 DEF Gapless
      <4>3. Recorded(m)
        BY <1>1, <1>4, <4>1, <4>2 DEF Tied, OnFile, Filling
      <4> QED
        BY <4>3 DEF Recorded
    <3> QED
      BY <1>1, <1>4, <3>1 DEF Tied, Laid, Active
  <2>3. \A n \in PartNumbers : n >= k => partFile[n] = None
    <3> SUFFICES ASSUME NEW n \in PartNumbers, n >= k, partFile[n] # None PROVE FALSE
      OBVIOUS
    <3> QED
      BY <1>2, <1>3, <2>1, Numbers
  <2> QED
    BY <2>1, <2>2, <2>3
<1>6. \A n \in PartNumbers : Prefix(n) => EndOf(partFile[n]) <= dl[c].total
  <2>1. \A n \in PartNumbers : Prefix(n) => n < dl[c].at
    BY <1>3, Numbers DEF Prefix
  <2> QED
    BY <1>1, <1>4, <2>1 DEF Tied, Reading
<1>7. ~broken => dl[c].total \in Lengths
  <2> SUFFICES ASSUME ~broken PROVE dl[c].total \in Lengths
    OBVIOUS
  <2>1. Gapless(c)
    BY <1>1, <1>4 DEF Tied, Laid, Active
  <2>2. k \in DOMAIN dl[c].parts /\ Part(c, k).n = k - 1
    BY <1>2, <2>1 DEF Gapless
  <2>3. Recorded(k - 1) /\ partFile[k - 1] = Part(c, k) /\ k - 1 \in PartNumbers
    BY <1>1, <1>4, <2>2 DEF Tied, Known, OnFile, Filling, Active
  <2>4. k - 1 \in PartFiles /\ k - 1 + 1 = k /\ k \notin PartFiles
    BY <1>2, <1>5, <2>1, <2>3 DEF PartFiles, Recorded
  <2>5. ~SomePartsOnly
    BY <1>1, <1>4, NotHalfway DEF Active
  <2>6. EndOf(partFile[k - 1]) \in Lengths
    BY <2>4, <2>5 DEF DataInv, FilesWhole
  <2>7. EndOfParts(c) = EndOf(Part(c, k))
    BY <1>2, EndOfPartsIs
  <2> QED
    BY <1>5, <2>1, <2>3, <2>6, <2>7
<1> QED
  BY <1>1, <1>4, <1>5, <1>6, <1>7, PreparedData

LEMMA HeadOkData ==
  ASSUME IInv, PartsInv, DataInv, NEW c \in Clients, HeadOk(c)
  PROVE  DataInv'
<1>1. PICK len \in Lengths : dl' = [dl EXCEPT ![c].phase = "split", ![c].total = len]
  BY DEF HeadOk
<1>2. Phase(c) = "prepare" /\ PartFiles = {} /\ UNCHANGED <<disk, partFile, call, broken, lost>>
  BY DEF HeadOk, disk
<1>3. /\ dl'[c].parts = dl[c].parts /\ dl'[c].phase = "split" /\ dl'[c].total = len
      /\ dl'[c].at = dl[c].at
      /\ \A x \in Clients \ {c} : dl'[x] = dl[x]
  BY <1>1, Types DEF Download
<1>4. Tied(c)
  BY DEF DataInv
<1>5. \A n \in PartNumbers : ~Recorded(n)
  BY <1>2 DEF PartFiles, Recorded
<1>6. DOMAIN dl[c].parts = {}
  BY <1>2, <1>4, <1>5 DEF Tied, Known, OnFile, Active, Filling
<1>7. dl[c].parts = <<>> /\ Len(dl[c].parts) = 0 /\ dl[c].parts \in Seq(AnyPart)
  <2>1. dl[c].parts \in Seq(AnyPart)
    BY Types DEF Download
  <2> QED
    BY <1>6, <2>1
<1>8. dl[c].at = 0
  BY <1>2, <1>4, <1>6, <1>7 DEF Tied, Reading, Gapless
<1>9. Splitting(c)'
  <2>1. len \in Nat /\ PartSize(len) \in Nat
    BY DownloadAssumption, PartSizeType
  <2>2. 0 = 0 * PartSize(len) /\ 0 <= len
    BY <2>1
  <2> QED
    BY <1>3, <1>6, <1>7, <1>8, <2>2 DEF Splitting, EndOfParts, Unsplit, Phase
<1>10. Known(c)' /\ OnFile(c)' /\ Laid(c)'
  BY <1>3, <1>6 DEF Known, OnFile, Laid, Gapless, Phase
<1>11. Tied(c)' /\ ~Halfway(c)
  BY <1>2, <1>3, <1>9, <1>10
     DEF Tied, Reading, Sized, Fetching, Opened, Removing, Phase, Halfway, Unsplit
<1>12. NoneStarts /\ call'[c].pc \notin {"start", "lookup"} /\ Phase(c) \in Active
  BY <1>2 DEF NoneStarts, IInv, CallsHaveDownloads, Active
<1>13. \A x \in Clients \ {c} : dl'[x] = dl[x] /\ dl[x].phase \notin Active
  BY <1>3, <1>12, OthersRest
<1> QED
  BY <1>2, <1>11, <1>12, <1>13, DiskSame, OneTied, NotHalfway

LEMMA ReadOrHeadFailsData ==
  ASSUME IInv, DataInv, NEW c \in Clients, ReadOrHeadFails(c)
  PROVE  DataInv'
<1>1. /\ Phase(c) = "prepare" /\ UNCHANGED <<disk, broken, lost>>
      /\ dl' = [dl EXCEPT ![c].phase = "failed"]
      /\ call' = [call EXCEPT ![c].pc = "told", ![c].told = "err"]
  BY DEF ReadOrHeadFails, PrepareFails
<1>2. dl'[c].phase = "failed" /\ \A x \in Clients \ {c} : dl'[x] = dl[x]
  BY <1>1, Types DEF Download
<1>3. NoneStarts /\ call'[c].pc = "told"
  BY <1>1, Types DEF NoneStarts, Call
<1>4. \A x \in Clients : dl'[x] = dl[x] \/ dl'[x].phase \notin Active
  BY <1>2 DEF Active
<1>5. \A x \in Clients : Halfway(x) => Halfway(x)'
  BY <1>1, <1>2 DEF Halfway, Unsplit, Phase
<1>6. \A x \in Clients : call'[x].pc \in {"start", "lookup"} => SameView(x)
  BY <1>2, <1>3 DEF SameView
<1> QED
  BY <1>1, <1>3, <1>4, <1>5, <1>6, DataStays

LEMMA PrepareDoneData ==
  ASSUME IInv, PartsInv, DataInv, NEW c \in Clients, PrepareDone(c)
  PROVE  DataInv'
<1> DEFINE k == Len(dl[c].parts)
<1>1. Phase(c) = "split" /\ ~Unsplit(c) /\ Prepared(c)
  BY DEF PrepareDone
<1>2. /\ dl[c].parts \in Seq(AnyPart) /\ k \in Nat /\ DOMAIN dl[c].parts = 1 .. k
      /\ dl[c].at \in Nat /\ dl[c].total \in Nat
  BY Types DEF Download
<1>3. Tied(c) /\ Splitting(c)
  BY DEF DataInv, Tied
<1>4. dl[c].total = dl[c].at /\ dl[c].at = EndOfParts(c) /\ dl[c].total \in Lengths
  BY <1>1, <1>2, <1>3 DEF Splitting, Unsplit
<1>5. \A n \in PartNumbers : n >= k => partFile[n] = None
  BY <1>1 DEF PartsInv, Tracked, SplitInOrder
<1>6. \A n \in PartNumbers : Prefix(n) => EndOf(partFile[n]) <= dl[c].total
  <2> SUFFICES ASSUME NEW n \in PartNumbers, Prefix(n)
               PROVE  EndOf(partFile[n]) <= dl[c].total
    OBVIOUS
  <2>1. Recorded(n) /\ n < k /\ n \in Nat
    BY <1>2, <1>5, Numbers DEF Prefix, Recorded
  <2>2. PICK i \in DOMAIN dl[c].parts : i - 1 = n
    BY <1>2, <2>1, Position
  <2>3. Part(c, i).n = n
    BY <1>1, <2>2 DEF PartsInv, Tracked, SplitInOrder
  <2>4. partFile[n] = Part(c, i)
    BY <1>1, <1>3, <2>2, <2>3 DEF Tied, OnFile, Filling
  <2> QED
    BY <1>1, <1>3, <1>4, <2>2, <2>4 DEF Splitting
<1>7. ~Halfway(c)
  BY <1>1 DEF Halfway, Phase
<1> QED
  BY <1>1, <1>4, <1>5, <1>6, <1>7, PreparedData

\* A blob does not have more parts than there is room for.
LEMMA RoomFor ==
  ASSUME NEW k \in Nat, NEW P \in Nat, NEW M \in Nat, NEW t \in Nat, k * P < t, t <= M * P
  PROVE  k < M
<1> SUFFICES ASSUME k >= M PROVE FALSE
  OBVIOUS
<1>1. PICK j \in Nat : k = M + j
  <2>1. k - M \in Nat /\ k = M + (k - M)
    OBVIOUS
  <2> QED
    BY <2>1
<1>2. k * P = M * P + j * P /\ j * P >= 0 /\ M * P \in Nat
  BY <1>1
<1> QED
  BY <1>2

\* What the next part of a new download is.
LEMMA NextPartIs ==
  ASSUME IInv, DataInv, NEW c \in Clients, Unsplit(c)
  PROVE  LET p == NextPart(c)
             k == Len(dl[c].parts)
         IN  /\ p \in AnyPart /\ p.n = k /\ k \in PartNumbers
             /\ p.completed = 0 /\ p.offset = dl[c].at
             /\ dl[c].at + p.size \in Nat
             /\ dl[c].at + p.size <= dl[c].total
             /\ dl[c].at + p.size < dl[c].total =>
                  dl[c].at + p.size = (k + 1) * PartSize(dl[c].total)
<1> DEFINE k == Len(dl[c].parts)
           P == PartSize(dl[c].total)
           left == dl[c].total - dl[c].at
           s == IF P > left THEN left ELSE P
<1>1. Splitting(c) /\ Phase(c) = "split" /\ dl[c].at < dl[c].total
  BY DEF DataInv, Tied, Unsplit
<1>2. dl[c].at \in Nat /\ dl[c].total \in Nat /\ k \in Nat
  BY Types DEF Download
<1>3. dl[c].at = k * P /\ dl[c].total <= MaxParts * P /\ P \in Nat
  BY <1>1, <1>2, PartsFit, PartSizeType DEF Splitting
<1>4. NextPart(c) = [n |-> k, offset |-> dl[c].at, size |-> s, completed |-> 0]
  BY DEF NextPart
<1>5. k \in PartNumbers
  BY <1>1, <1>2, <1>3, RoomFor, Numbers
<1>P. P \in Nat
  BY <1>3
<1> HIDE DEF P
<1>6. /\ s \in Nat /\ dl[c].at + s <= dl[c].total
      /\ dl[c].at + s < dl[c].total => s = P
  BY <1>1, <1>2, <1>P
<1>7. (k + 1) * P = k * P + P
  BY <1>2, <1>3
<1> HIDE DEF k, s
<1>8. dl[c].at + s < dl[c].total => dl[c].at + s = (k + 1) * P
  BY <1>3, <1>6, <1>7
<1> QED
  BY <1>2, <1>4, <1>5, <1>6, <1>8 DEF AnyPart, k, P

LEMMA PartIsNoMark == \A p \in AnyPart : p \notin {None, Torn}
BY DownloadAssumption DEF AnyPart

LEMMA NewPartData ==
  ASSUME IInv, PartsInv, DataInv, NEW c \in Clients, NewPart(c)
  PROVE  DataInv'
<1> DEFINE p == NextPart(c)
           ps == Append(dl[c].parts, p)
           a == dl[c].at + p.size
           k == Len(dl[c].parts)
<1>1. Unsplit(c) /\ Phase(c) = "split" /\ dl[c].at < dl[c].total
  BY DEF NewPart, Unsplit
<1>2. /\ p \in AnyPart /\ p.n = k /\ k \in PartNumbers
      /\ p.completed = 0 /\ p.offset = dl[c].at
      /\ a \in Nat /\ a <= dl[c].total
      /\ a < dl[c].total => a = (k + 1) * PartSize(dl[c].total)
  BY <1>1, NextPartIs
<1>3. /\ partFile' = [partFile EXCEPT ![p.n] = p]
      /\ dl' = [dl EXCEPT ![c].parts = ps, ![c].at = a]
      /\ UNCHANGED <<data, blob, call, broken, lost>>
  BY DEF NewPart
<1>4. /\ dl[c].parts \in Seq(AnyPart) /\ k \in Nat /\ dl[c].at \in Nat /\ dl[c].total \in Nat
      /\ p.size \in Nat /\ a = dl[c].at + p.size /\ EndOf(p) = a
  BY <1>2, Types DEF Download, AnyPart, EndOf
<1> HIDE DEF p, a
<1>5. /\ DOMAIN ps = DOMAIN dl[c].parts \cup {k + 1} /\ DOMAIN dl[c].parts = 1 .. k
      /\ ps[k + 1] = p /\ Len(ps) = k + 1
      /\ \A i \in DOMAIN dl[c].parts : ps[i] = dl[c].parts[i]
  BY <1>2, <1>4, Appended
<1>6. ps # <<>>
  BY <1>4, <1>5
<1> HIDE DEF ps
<1>7. /\ dl'[c].parts = ps /\ dl'[c].phase = "split" /\ dl'[c].at = a
      /\ dl'[c].total = dl[c].total
      /\ \A x \in Clients \ {c} : dl'[x] = dl[x]
  BY <1>1, <1>3, Types DEF Download, Phase
<1> HIDE DEF k
<1>8. /\ partFile'[k] = p /\ p \notin {None, Torn}
      /\ \A n \in PartNumbers : n # k => partFile'[n] = partFile[n]
  BY <1>2, <1>3, Types, PartIsNoMark
<1>9. Tied(c) /\ Splitting(c)
  BY DEF DataInv, Tied
<1>10. \A i \in DOMAIN dl[c].parts :
         /\ dl[c].parts[i].n = i - 1 /\ dl[c].parts[i].n \in PartNumbers
         /\ dl[c].parts[i].completed <= dl[c].parts[i].size
         /\ Recorded(dl[c].parts[i].n) /\ partFile[dl[c].parts[i].n] = dl[c].parts[i]
         /\ EndOf(dl[c].parts[i]) <= dl[c].at /\ EndOf(dl[c].parts[i]) \in Nat
  <2>1. \A i \in DOMAIN dl[c].parts : EndOf(dl[c].parts[i]) \in Nat
    <3>1. \A i \in DOMAIN dl[c].parts : dl[c].parts[i] \in AnyPart
      BY <1>4
    <3> QED
      BY <3>1 DEF EndOf, AnyPart
  <2> QED
    BY <1>1, <1>9, <2>1
       DEF Tied, Known, OnFile, Active, Filling, Part, PartsInv, Tracked, SplitInOrder, Splitting
<1>11. \A n \in PartNumbers : n >= k => partFile[n] = None
  BY <1>1 DEF PartsInv, Tracked, SplitInOrder, k
\* The files before the new one are those of the parts before it.
<1>12. \A n \in PartNumbers : n < k =>
         \E i \in DOMAIN dl[c].parts : i - 1 = n /\ partFile[n] = dl[c].parts[i] /\ Recorded(n)
  <2> SUFFICES ASSUME NEW n \in PartNumbers, n < k
               PROVE  \E i \in DOMAIN dl[c].parts :
                        i - 1 = n /\ partFile[n] = dl[c].parts[i] /\ Recorded(n)
    OBVIOUS
  <2>n. n \in Nat
    BY Numbers
  <2>k. k \in Nat /\ DOMAIN dl[c].parts = 1 .. k
    BY <1>4 DEF k
  <2>i. \E i \in 1 .. k : i - 1 = n
    BY <2>n, <2>k, Position
  <2>1. PICK i \in DOMAIN dl[c].parts : i - 1 = n
    BY <2>k, <2>i
  <2> QED
    BY <1>10, <2>1
<1>13. \A i \in DOMAIN ps : /\ ps[i].n = i - 1 /\ ps[i].n \in PartNumbers
                            /\ ps[i].completed <= ps[i].size
                            /\ partFile'[ps[i].n] = ps[i] /\ ps[i] \notin {None, Torn}
                            /\ EndOf(ps[i]) <= a
  <2> SUFFICES ASSUME NEW i \in DOMAIN ps
               PROVE  /\ ps[i].n = i - 1 /\ ps[i].n \in PartNumbers
                      /\ ps[i].completed <= ps[i].size
                      /\ partFile'[ps[i].n] = ps[i] /\ ps[i] \notin {None, Torn}
                      /\ EndOf(ps[i]) <= a
    OBVIOUS
  <2>1. CASE i \in DOMAIN dl[c].parts
    <3>1. ps[i] = dl[c].parts[i] /\ ps[i].n # k
      BY <1>4, <1>5, <1>10, <2>1
    <3>2. partFile'[ps[i].n] = ps[i] /\ ps[i] \notin {None, Torn}
      BY <1>8, <1>10, <2>1, <3>1 DEF Recorded
    <3>3. EndOf(ps[i]) <= a
      BY <1>4, <1>10, <2>1, <3>1
    <3> QED
      BY <1>10, <2>1, <3>1, <3>2, <3>3
  <2>2. CASE i = k + 1
    BY <1>2, <1>4, <1>5, <1>8, <2>2
  <2> QED
    BY <1>5, <2>1, <2>2
<1>14. Tied(c)'
  <2>1. Known(c)' /\ OnFile(c)'
    BY <1>7, <1>13 DEF Known, OnFile, Part, Recorded
  <2>2. Laid(c)'
    BY <1>7, <1>13 DEF Laid, Gapless, Part, Phase
  <2>3. Splitting(c)'
    <3>1. EndOfParts(c)' = EndOf(p)
      BY <1>5, <1>6, <1>7 DEF EndOfParts, Part, EndOf
    <3>2. dl[c].total \in Lengths
      BY <1>1, <1>9 DEF Splitting
    <3>3. \A i \in DOMAIN ps : EndOf(Part(c, i))' <= a
      BY <1>7, <1>13 DEF Part, EndOf
    <3> QED
      BY <1>2, <1>4, <1>5, <1>7, <3>1, <3>2, <3>3 DEF Splitting, Unsplit, Phase
  <2> QED
    BY <1>7, <2>1, <2>2, <2>3 DEF Tied, Reading, Sized, Fetching, Opened, Removing, Phase
<1>15. FilesSound'
  <2> SUFFICES ASSUME NEW n \in PartNumbers, Recorded(n)'
               PROVE  /\ partFile'[n].completed <= partFile'[n].size
                      /\ n = 0 => partFile'[n].offset = 0
                      /\ n > 0 /\ Recorded(n - 1)' => partFile'[n].offset = EndOf(partFile'[n - 1])
    BY DEF FilesSound
  <2>1. CASE n = k
    <3>1. partFile'[n] = p
      BY <1>8, <2>1
    <3>2. n = 0 => p.offset = 0
      BY <1>1, <1>2, <1>9, <2>1, EndOfPartsIs DEF Splitting, k
    <3>3. n > 0 => p.offset = EndOf(partFile'[n - 1])
      <4> SUFFICES ASSUME n > 0 PROVE p.offset = EndOf(partFile'[n - 1])
        OBVIOUS
      <4>1. k \in DOMAIN dl[c].parts /\ EndOfParts(c) = EndOf(dl[c].parts[k])
        BY <2>1, EndOfPartsIs DEF k, Part
      <4>2. partFile[k - 1] = dl[c].parts[k]
        BY <1>10, <4>1
      <4>3. partFile'[k - 1] = partFile[k - 1]
        BY <1>4, <1>8, <1>10, <4>1
      <4> QED
        BY <1>1, <1>2, <1>9, <2>1, <4>1, <4>2, <4>3 DEF Splitting
    <3> QED
      BY <1>2, <1>4, <3>1, <3>2, <3>3
  <2>2. CASE n # k
    <3>1. Recorded(n) /\ n < k /\ n \in Nat
      BY <1>4, <1>8, <1>11, <2>2, Numbers DEF Recorded
    <3>2. n > 0 => n - 1 \in PartNumbers /\ n - 1 # k
      BY <1>4, <3>1, Numbers
    <3>3. n > 0 => partFile'[n - 1] = partFile[n - 1]
      BY <1>8, <3>2
    <3> QED
      BY <1>8, <2>2, <3>1, <3>2, <3>3 DEF DataInv, FilesSound, Recorded
  <2> QED
    BY <2>1, <2>2
<1>16. FilesTrue'
  <2> SUFFICES ASSUME NEW n \in PartNumbers, Prefix(n)'
               PROVE  Covered(partFile[n], partFile[n].completed)'
    BY DEF FilesTrue
  <2>1. CASE n = k
    <3>1. partFile'[n].completed = 0 /\ partFile'[n].offset \in Nat
      BY <1>2, <1>4, <1>8, <2>1
    <3> QED
      BY <3>1 DEF Covered
  <2>2. CASE n # k
    <3>1. n < k /\ n \in Nat /\ n \in 0 .. n
      BY <1>4, <1>8, <1>11, <2>2, Numbers DEF Prefix, Recorded
    <3>2. \A m \in 0 .. n : m \in PartNumbers /\ m # k
      BY <1>4, <3>1, Numbers
    <3>3. Prefix(n)
      BY <1>8, <3>2 DEF Prefix, Recorded
    <3> QED
      BY <1>3, <1>8, <2>2, <3>3 DEF DataInv, FilesTrue, Covered, Accounted
  <2> QED
    BY <2>1, <2>2
<1>17. ~broken' /\ ~Halfway(c)' =>
         \A n \in PartFiles' : Prefix(n)' /\ (n + 1 \notin PartFiles' => EndOf(partFile'[n]) \in Lengths)
  <2> SUFFICES ASSUME ~Halfway(c)', NEW n \in PartFiles'
               PROVE  Prefix(n)' /\ (n + 1 \notin PartFiles' => EndOf(partFile'[n]) \in Lengths)
    OBVIOUS
  <2>1. a = dl[c].total /\ a \in Lengths
    BY <1>1, <1>2, <1>4, <1>6, <1>7, <1>9 DEF Halfway, Unsplit, Phase, Splitting
  <2>2. n \in PartNumbers /\ n \in Nat /\ n <= k
    BY <1>4, <1>8, <1>11, Numbers DEF PartFiles
  <2>3. \A m \in 0 .. k : m \in PartNumbers /\ Recorded(m)'
    <3> SUFFICES ASSUME NEW m \in 0 .. k PROVE m \in PartNumbers /\ Recorded(m)'
      OBVIOUS
    <3>1. m \in PartNumbers
      BY <1>2, <1>4, Numbers
    <3>2. CASE m = k
      BY <1>8, <3>1, <3>2 DEF Recorded
    <3>3. CASE m # k
      BY <1>4, <1>8, <1>12, <3>1, <3>3 DEF Recorded
    <3> QED
      BY <3>1, <3>2, <3>3
  <2>4. Prefix(n)'
    BY <1>4, <2>2, <2>3 DEF Prefix
  <2>5. n + 1 \notin PartFiles' => n = k
    <3> SUFFICES ASSUME n # k PROVE n + 1 \in PartFiles'
      OBVIOUS
    <3>1. n + 1 \in 0 .. k
      BY <1>4, <2>2
    <3> QED
      BY <2>3, <3>1 DEF PartFiles, Recorded
  <2> QED
    BY <1>4, <1>8, <2>1, <2>4, <2>5
<1>18. BlobWhole' /\ NoneStarts /\ call'[c].pc \notin {"start", "lookup"}
  BY <1>1, <1>3 DEF DataInv, BlobWhole, NoneStarts, IInv, CallsHaveDownloads
<1>19. \A x \in Clients \ {c} : dl'[x] = dl[x] /\ dl[x].phase \notin Active
  BY <1>1, <1>7, OthersRest DEF Active
<1> QED
  BY <1>14, <1>15, <1>16, <1>17, <1>18, <1>19, OneTied

LEMMA NewPartFailsData ==
  ASSUME IInv, PartsInv, DataInv, NEW c \in Clients, NewPartFails(c)
  PROVE  DataInv'
<1>1. /\ partFile' = [partFile EXCEPT ![NextPart(c).n] = Torn] /\ broken'
      /\ dl' = [dl EXCEPT ![c].phase = "failed"]
      /\ call' = [call EXCEPT ![c].pc = "told", ![c].told = "err"]
      /\ UNCHANGED <<data, blob, lost>> /\ Phase(c) = "split"
  BY DEF NewPartFails, PrepareFails, Unsplit
<1>2. FilesSound' /\ FilesTrue'
  BY <1>1, Types, FilesLost
<1>3. dl'[c].phase = "failed" /\ \A x \in Clients \ {c} : dl'[x] = dl[x]
  BY <1>1, Types DEF Download
<1>4. NoneStarts /\ call'[c].pc = "told"
  BY <1>1, Types DEF NoneStarts, Call
<1>5. BlobWhole' /\ Tied(c)'
  BY <1>1, <1>3, TiedIdle DEF DataInv, BlobWhole, Active
<1>6. \A x \in Clients \ {c} : dl'[x] = dl[x] /\ dl[x].phase \notin Active
  BY <1>1, <1>3, OthersRest DEF Active
<1> QED
  BY <1>1, <1>2, <1>4, <1>5, <1>6, OneTied

-----------------------------------------------------------------------------
(* A restart *)

LEMMA RestartData ==
  ASSUME DataInv, NEW T, NEW K, NEW dataToo, Restart(T, K, dataToo)
  PROVE  DataInv'
<1>1. /\ partFile' = [n \in PartNumbers |-> IF n \in K THEN None
                                            ELSE IF n \in T THEN Torn
                                            ELSE partFile[n]]
      /\ data' = IF dataToo THEN None ELSE data
      /\ lost' = lost \cup (IF dataToo THEN UNION {Claimed(n) : n \in PartFiles \ (K \cup T)}
                            ELSE {})
      /\ broken' = (broken \/ /\ PartFiles \cup T # K
                              /\ K # {} \/ T # {} \/ SomePartsOnly)
      /\ dl' = [d \in Clients |-> NewDownload]
      /\ UNCHANGED blob
  BY DEF Restart
<1>2. \A n \in PartNumbers : partFile'[n] = partFile[n] \/ partFile'[n] \in {None, Torn}
  BY <1>1
<1>3. K = PartFiles \cup T => \A n \in PartNumbers : partFile'[n] = None
  BY <1>1 DEF PartFiles
<1>4. FilesSound' /\ FilesTrue'
  <2>1. CASE dataToo
    <3>1. FilesSound'
      BY <1>2, FilesStillSound
    <3>2. ASSUME NEW n \in PartNumbers, Prefix(n)', NEW p, p = partFile'[n],
                 NEW j \in p.offset + 1 .. p.offset + p.completed
          PROVE  j \in lost'
      <4>1. Recorded(n)'
        BY <3>2, Numbers DEF Prefix
      <4>2. p = partFile[n] /\ n \in PartFiles \ (K \cup T) /\ Recorded(n)
        BY <1>1, <3>2, <4>1 DEF Recorded, PartFiles
      <4>3. j \in Claimed(n)
        BY <3>2, <4>2 DEF Claimed, Recorded
      <4> QED
        BY <1>1, <2>1, <4>2, <4>3
    <3> QED
      BY <3>1, <3>2 DEF FilesTrue, Covered, Accounted
  <2>2. CASE ~dataToo
    <3>1. UNCHANGED <<data, lost>>
      BY <1>1, <2>2
    <3> QED
      BY <1>2, <3>1, FilesLost
  <2> QED
    BY <2>1, <2>2
<1>5. \A d \in Clients : dl'[d].phase = "none" /\ dl'[d].at = 0 /\ dl'[d].total = 0
  BY <1>1 DEF NewDownload
<1>6. FilesWhole'
  <2> SUFFICES ASSUME ~broken', NEW n \in PartFiles'
               PROVE  Prefix(n)' /\ (n + 1 \notin PartFiles' => EndOf(partFile'[n]) \in Lengths)
    BY DEF FilesWhole, EndOf
  <2>1. K # PartFiles \cup T
    BY <1>3 DEF PartFiles
  <2>2. ~broken /\ K = {} /\ T = {} /\ ~SomePartsOnly
    BY <1>1, <2>1
  <2>3. \A m \in PartNumbers : partFile'[m] = partFile[m]
    BY <1>1, <2>2
  <2>4. PartFiles' = PartFiles /\ n \in PartNumbers
    BY <2>3 DEF PartFiles
  <2>5. Prefix(n) /\ (n + 1 \notin PartFiles => EndOf(partFile[n]) \in Lengths)
    BY <2>2, <2>4 DEF DataInv, FilesWhole
  <2>6. \A m \in 0 .. n : m \in PartNumbers
    BY <2>4, Numbers
  <2>7. Prefix(n)'
    BY <2>3, <2>5, <2>6 DEF Prefix, Recorded
  <2> QED
    BY <2>3, <2>4, <2>5, <2>7
<1>7. BlobWhole' /\ NotBegun' /\ \A d \in Clients : Tied(d)'
  BY <1>1, <1>5, TiedIdle DEF DataInv, BlobWhole, NotBegun, Active, Phase
<1> QED
  BY <1>4, <1>6, <1>7 DEF DataInv

-----------------------------------------------------------------------------
(* run *)

\* The run returns: nothing but part files that were not all there is left.
LEMMA FinishData ==
  ASSUME IInv, DataInv, NEW d \in Clients, NEW e \in {None, "err", "canceled"}, Finish(d, e),
         Phase(d) \in Active, UNCHANGED <<disk, call, lost>>, broken => broken',
         ~broken' => ~Halfway(d)
  PROVE  DataInv'
<1>1. Changes(d, "left", e)
  BY FinishChanges
<1>2. dl'[d].phase = "left" /\ \A x \in Clients \ {d} : dl'[x] = dl[x]
  BY <1>1 DEF Changes
<1>3. \A x \in Clients : dl'[x] = dl[x] \/ dl'[x].phase \notin Active
  BY <1>2 DEF Active
<1>4. broken' \/ \A x \in Clients : Halfway(x) => Halfway(x)'
  BY <1>2 DEF Halfway, Unsplit, Phase
<1>5. \A x \in Clients : call'[x].pc \in {"start", "lookup"} => SameView(x)
  BY <1>2, Begun DEF SameView
<1>6. NoneStarts
  BY DEF NoneStarts
<1> QED
  BY <1>3, <1>4, <1>5, <1>6, DataStays
\* A run that goes on, with the files, the sizes and the parts it has.
LEMMA RunGoesOn ==
  ASSUME IInv, DataInv, NEW d \in Clients, Phase(d) \in Active, UNCHANGED call,
         \A x \in Clients \ {d} : dl'[x] = dl[x],
         FilesSound', FilesTrue', BlobWhole', Tied(d)',
         ~broken' /\ ~Halfway(d)' =>
           \A n \in PartFiles' : Prefix(n)' /\ (n + 1 \notin PartFiles' => EndOf(partFile'[n]) \in Lengths)
  PROVE  DataInv'
<1>1. NoneStarts /\ call'[d].pc \notin {"start", "lookup"}
  BY Begun DEF NoneStarts
<1>2. \A x \in Clients \ {d} : dl'[x] = dl[x] /\ dl[x].phase \notin Active
  BY OthersRest
<1> QED
  BY <1>1, <1>2, OneTied

LEMMA PartsStay ==
  ASSUME NEW d, Tied(d), Phase(d) \in Filling \ {"fetch"}, UNCHANGED partFile,
         dl'[d].parts = dl[d].parts
  PROVE  Known(d)' /\ OnFile(d)'
<1>1. Phase(d) \in Active
  BY DEF Filling, Active
<1> QED
  BY <1>1 DEF Tied, Known, OnFile, Part, Recorded

LEMMA RunStartData ==
  ASSUME IInv, DataInv, NEW d \in Clients, RunStart(d)
  PROVE  DataInv'
<1>1. /\ Phase(d) = "ready" /\ UNCHANGED <<disk, partFile, call, broken, lost>>
      /\ dl' = [dl EXCEPT ![d].phase = "open", ![d].cancelFunc = "set"]
  BY DEF RunStart, disk
<1>2. /\ dl'[d].phase = "open" /\ dl'[d].at = dl[d].at
      /\ dl'[d].parts = dl[d].parts /\ dl'[d].total = dl[d].total
      /\ \A x \in Clients \ {d} : dl'[x] = dl[x]
  BY <1>1, Types DEF Download
<1>3. Tied(d) /\ Phase(d) \in Active /\ ~Halfway(d)
  BY <1>1 DEF DataInv, Active, Halfway, Unsplit
<1>4. Known(d)' /\ OnFile(d)'
  BY <1>1, <1>2, <1>3, PartsStay DEF Filling
<1>5. Laid(d)'
  BY <1>1, <1>2, <1>3 DEF Tied, Laid, Gapless, Part, EndOfParts, EndOf, Missing, Phase, Active
<1>6. Sized(d)'
  BY <1>1, <1>2, <1>3 DEF Tied, Sized, Gapless, Part, Prefix, Recorded, EndOf, Phase
<1>7. Tied(d)'
  BY <1>2, <1>4, <1>5, <1>6 DEF Tied, Reading, Splitting, Fetching, Opened, Removing, Phase
<1> QED
  BY <1>1, <1>2, <1>3, <1>7, DiskSame, NotHalfway, RunGoesOn

\* What is shorter than the new length is not lost.
LEMMA CoveredTruncated ==
  ASSUME NEW d \in Seq(BOOLEAN), NEW len \in Nat
  PROVE  /\ Len(Truncated(d, len)) = len
         /\ \A j \in 1 .. len : j <= Len(d) /\ d[j] => Truncated(d, len)[j]
BY DEF Truncated

LEMMA RunOpenData ==
  ASSUME IInv, PartsInv, DataInv, NEW d \in Clients, RunOpen(d)
  PROVE  DataInv'
<1> DEFINE old == IF data = None THEN <<>> ELSE data
<1>1. /\ Phase(d) = "open" /\ UNCHANGED <<partFile, blob, call, broken, lost>>
      /\ dl' = [dl EXCEPT ![d].phase = "direct"]
      /\ data' = Truncated(old, dl[d].total)
  BY DEF RunOpen, Enter
<1>2. /\ dl'[d].phase = "direct" /\ dl'[d].at = dl[d].at
      /\ dl'[d].parts = dl[d].parts /\ dl'[d].total = dl[d].total
      /\ \A x \in Clients \ {d} : dl'[x] = dl[x]
      /\ dl[d].total \in Nat
  BY <1>1, Types DEF Download
<1>3. Tied(d) /\ Phase(d) \in Active /\ ~Halfway(d)
  BY <1>1 DEF DataInv, Active, Halfway, Unsplit
<1>4. old \in Seq(BOOLEAN) /\ (data # None => old = data)
  <2>1. <<>> \in Seq(BOOLEAN)
    OBVIOUS
  <2> QED
    BY <2>1 DEF IInv, Shape
<1> HIDE DEF old
<1>5. /\ Len(data') = dl[d].total
      /\ \A j \in 1 .. dl[d].total : j <= Len(old) /\ old[j] => data'[j]
  BY <1>1, <1>2, <1>4, CoveredTruncated
<1>0. data' \in Seq(BOOLEAN)
  BY <1>1, <1>2, <1>4, TruncatedType
<1>6. data' # None
  BY <1>0, DownloadAssumption
<1>7. Known(d)' /\ OnFile(d)'
  BY <1>1, <1>2, <1>3, PartsStay DEF Filling
<1>8. Laid(d)'
  BY <1>1, <1>2, <1>3 DEF Tied, Laid, Gapless, Part, EndOfParts, EndOf, Missing, Phase, Active
<1>9. Sized(d)'
  BY <1>1, <1>2, <1>3 DEF Tied, Sized, Gapless, Part, Prefix, Recorded, EndOf, Phase
<1>10. Opened(d)'
  BY <1>2, <1>5 DEF Opened
<1>11. Tied(d)'
  BY <1>2, <1>7, <1>8, <1>9, <1>10 DEF Tied, Reading, Splitting, Fetching, Removing, Phase
<1>12. FilesSound' /\ BlobWhole'
  BY <1>1 DEF DataInv, FilesSound, Recorded, EndOf, BlobWhole
<1>13. FilesTrue'
  <2> SUFFICES ASSUME NEW n \in PartNumbers, Prefix(n), NEW p, p = partFile[n],
                      NEW j \in p.offset + 1 .. p.offset + p.completed
               PROVE  Accounted(j)'
    BY <1>1 DEF FilesTrue, Covered, Prefix, Recorded
  <2>1. n \in Nat /\ Recorded(n) /\ p \in AnyPart
    BY Numbers, FileTypes DEF Prefix
  <2>2. Accounted(j)
    BY DEF DataInv, FilesTrue, Covered
  <2>3. p.completed <= p.size /\ EndOf(p) <= dl[d].total
    BY <1>1, <1>3, <2>1 DEF DataInv, FilesSound, Tied, Sized
  <2>4. p.offset \in Nat /\ p.completed \in Nat /\ p.size \in Nat
    BY <2>1 DEF AnyPart
  <2>5. j \in 1 .. dl[d].total
    BY <1>2, <2>3, <2>4 DEF EndOf
  <2>6. CASE j \in lost
    BY <1>1, <2>6 DEF Accounted
  <2>7. CASE j \notin lost
    <3>1. old \in Seq(BOOLEAN) /\ j \in DOMAIN old /\ old[j]
      BY <1>4, <2>2, <2>7 DEF Accounted
    <3>2. data'[j]
      BY <1>5, <2>5, <3>1
    <3>3. j \in DOMAIN data'
      BY <1>0, <1>5, <2>5
    <3> QED
      BY <1>6, <3>2, <3>3 DEF Accounted
  <2> QED
    BY <2>6, <2>7
<1>14. ~broken' => \A n \in PartFiles' : Prefix(n)' /\ (n + 1 \notin PartFiles' =>
                                                     EndOf(partFile'[n]) \in Lengths)
  <2>1. ~SomePartsOnly
    BY <1>3, NotHalfway
  <2> QED
    BY <1>1, <2>1 DEF DataInv, FilesWhole, Prefix, Recorded, EndOf, PartFiles
<1> QED
  BY <1>1, <1>2, <1>3, <1>11, <1>12, <1>13, <1>14, RunGoesOn

LEMMA RunDirectData ==
  ASSUME IInv, PartsInv, DataInv, NEW d \in Clients, RunDirect(d)
  PROVE  DataInv'
<1> DEFINE ws == [i \in DOMAIN dl[d].parts |->
                    Ended(IF Remaining(d, i) = 0 THEN "done" ELSE "recv")]
<1>1. /\ Phase(d) = "direct" /\ UNCHANGED <<disk, data, partFile, call, broken, lost>>
      /\ dl' = [dl EXCEPT ![d].phase = "fetch", ![d].work = ws]
  BY DEF RunDirect, disk
<1>w. \A i \in DOMAIN dl[d].parts :
        /\ ws[i].pc = "done" \/ ws[i].pc = "recv"
        /\ ws[i].pc = "done" => Remaining(d, i) = 0
        /\ ws[i].got = 0
  BY DEF Ended
<1> HIDE DEF ws
<1>2. /\ dl'[d].phase = "fetch" /\ dl'[d].at = dl[d].at /\ dl'[d].err = dl[d].err
      /\ dl'[d].parts = dl[d].parts /\ dl'[d].total = dl[d].total /\ dl'[d].work = ws
      /\ \A x \in Clients \ {d} : dl'[x] = dl[x]
  BY <1>1, Types DEF Download
<1>3. Tied(d) /\ Phase(d) \in Active /\ ~Halfway(d)
  BY <1>1 DEF DataInv, Active, Halfway, Unsplit
<1>4. Known(d)' /\ OnFile(d)'
  BY <1>1, <1>2, <1>3, PartsStay DEF Filling
<1>5. Laid(d)'
  BY <1>1, <1>2, <1>3 DEF Tied, Laid, Gapless, Part, EndOfParts, EndOf, Missing, Phase, Active
<1>6. Sized(d)'
  BY <1>1, <1>2, <1>3 DEF Tied, Sized, Gapless, Part, Prefix, Recorded, EndOf, Phase
<1>7. Opened(d)'
  BY <1>1, <1>2, <1>3 DEF Tied, Opened, Gapless, Part, Phase
<1>8. Fetching(d)'
  <2>1. ASSUME NEW i \in DOMAIN dl[d].parts PROVE AtWork(Part(d, i), ws[i], dl[d].err)
    <3>1. Part(d, i) \in AnyPart
      <4>1. dl[d].parts \in Seq(AnyPart)
        BY Types DEF Download
      <4> QED
        BY <4>1 DEF Part
    <3>2. /\ Part(d, i).n \in PartNumbers /\ Part(d, i).completed <= Part(d, i).size
          /\ Recorded(Part(d, i).n) /\ partFile[Part(d, i).n] = Part(d, i)
      BY <1>1, <1>3 DEF Tied, Known, OnFile, Filling, Active
    <3>3. /\ Part(d, i).completed \in Nat /\ Part(d, i).size \in Nat
          /\ Remaining(d, i) = Part(d, i).size - Part(d, i).completed
      BY <3>1 DEF Remaining, AnyPart
    <3>4. Prefix(Part(d, i).n) => Covered(Part(d, i), Part(d, i).completed)
      BY <3>2 DEF DataInv, FilesTrue
    <3>5. /\ Part(d, i).completed + 0 = Part(d, i).completed
          /\ 0 <= Part(d, i).size - Part(d, i).completed
          /\ Remaining(d, i) = 0 => Part(d, i).completed = Part(d, i).size
      BY <3>2, <3>3
    <3> QED
      BY <1>w, <3>2, <3>4, <3>5 DEF AtWork
  <2>2. \A p, w, e : AtWork(p, w, e) => AtWork(p, w, e)'
    BY <1>1 DEF AtWork, Recorded, Prefix, Covered, Accounted
  <2> QED
    BY <1>2, <2>1, <2>2 DEF Fetching, Part
<1>9. Tied(d)'
  BY <1>2, <1>4, <1>5, <1>6, <1>7, <1>8 DEF Tied, Reading, Splitting, Removing, Phase
<1> QED
  BY <1>1, <1>2, <1>3, <1>9, DiskSame, NotHalfway, RunGoesOn

\* When all parts are in, and numbered as they should be, so is every unit.
LEMMA AllIn ==
  ASSUME IInv, PartsInv, DataInv, NEW d \in Clients, Phase(d) = "fetch",
         Receiving(d) = {}, dl[d].err = None
  PROVE  /\ \A i \in DOMAIN dl[d].parts : Recorded(Part(d, i).n)
         /\ Gapless(d) =>
              /\ Len(data) = dl[d].total
              /\ \A j \in DOMAIN data : Accounted(j)
              /\ \A n \in PartNumbers : n < Len(dl[d].parts) =>
                   Recorded(n) /\ EndOf(partFile[n]) <= dl[d].total
<1> DEFINE k == Len(dl[d].parts)
<1>1. /\ dl[d].parts \in Seq(AnyPart) /\ k \in Nat /\ DOMAIN dl[d].parts = 1 .. k
      /\ dl[d].work \in Seq(AnyWork) /\ DOMAIN dl[d].work = DOMAIN dl[d].parts
      /\ dl[d].total \in Nat
  BY Types DEF Download, IInv, DataThere
<1>2. Tied(d) /\ Phase(d) \in Active
  BY DEF DataInv, Active
<1>3. \A i \in DOMAIN dl[d].parts :
        /\ Part(d, i) \in AnyPart
        /\ Recorded(Part(d, i).n)
        /\ Part(d, i).completed = Part(d, i).size
        /\ Prefix(Part(d, i).n) => Covered(Part(d, i), Part(d, i).size)
  <2> SUFFICES ASSUME NEW i \in DOMAIN dl[d].parts
               PROVE  /\ Part(d, i) \in AnyPart
                      /\ Recorded(Part(d, i).n)
                      /\ Part(d, i).completed = Part(d, i).size
                      /\ Prefix(Part(d, i).n) => Covered(Part(d, i), Part(d, i).size)
    OBVIOUS
  <2> DEFINE w == dl[d].work[i]
  <2>1. Part(d, i) \in AnyPart /\ w \in AnyWork
    BY <1>1 DEF Part
  <2>2. AtWork(Part(d, i), w, dl[d].err)
    BY <1>2 DEF Tied, Fetching
  <2>3. w.pc = "done"
    BY <1>1, <2>1, <2>2 DEF AnyWork, AtWork, Receiving
  <2>4. w.got = 0 /\ Part(d, i).completed = Part(d, i).size /\ Recorded(Part(d, i).n)
        /\ (Prefix(Part(d, i).n) => Covered(Part(d, i), Part(d, i).completed + w.got))
    BY <2>2, <2>3 DEF AtWork
  <2>5. Part(d, i).completed + 0 = Part(d, i).size
    BY <2>1, <2>4 DEF AnyPart
  <2> QED
    BY <2>1, <2>4, <2>5
<1>4. ASSUME Gapless(d)
      PROVE  /\ Len(data) = dl[d].total
             /\ \A j \in DOMAIN data : Accounted(j)
             /\ \A n \in PartNumbers : n < k => Recorded(n) /\ EndOf(partFile[n]) <= dl[d].total
  <2>1. Len(data) = dl[d].total
    BY <1>2, <1>4 DEF Tied, Opened
  <2>2. \A n \in PartNumbers : n < k => Prefix(n) /\ Recorded(n)
    <3>1. \A n \in PartNumbers : n < k => Recorded(n)
      <4> SUFFICES ASSUME NEW n \in PartNumbers, n < k PROVE Recorded(n)
        OBVIOUS
      <4>1. n \in Nat
        BY Numbers
      <4>k. k \in Nat
        BY <1>1
      <4> HIDE DEF k
      <4>2. PICK i \in 1 .. k : i - 1 = n
        BY <4>1, <4>k, Position
      <4>3. i \in DOMAIN dl[d].parts
        BY <1>1, <4>2
      <4> QED
        BY <1>3, <1>4, <4>2, <4>3 DEF Gapless
    <3>2. \A n \in PartNumbers : n < k => \A m \in 0 .. n : m \in PartNumbers /\ m < k
      BY <1>1, Numbers
    <3> QED
      BY <3>1, <3>2 DEF Prefix
  <2>3. \A n \in PartNumbers : n < k => EndOf(partFile[n]) <= dl[d].total
    BY <1>2, <2>2 DEF Tied, Sized
  <2>4. ASSUME NEW j \in DOMAIN data PROVE Accounted(j)
    <3>1. data \in Seq(BOOLEAN) /\ j \in Nat /\ j >= 1 /\ j <= dl[d].total
      BY <1>1, <2>1, <2>4 DEF IInv, Shape, DataThere
    <3>2. dl[d].total = EndOfParts(d)
      <4>1. ~Missing(d)
        <5> SUFFICES ASSUME NEW m \in PartNumbers, m < k, partFile[m] = None PROVE FALSE
          BY DEF Missing
        <5> QED
          BY <2>2 DEF Recorded
      <4> QED
        BY <1>2, <4>1 DEF Tied, Laid
    <3> DEFINE S == {i \in DOMAIN dl[d].parts : j <= EndOf(Part(d, i))}
    <3>3. k \in S
      BY <1>1, <3>1, <3>2, EndOfPartsIs
    <3>4. S \in SUBSET Nat
      BY <1>1
    <3>5. PICK i \in S : \A x \in S : i <= x
      BY <3>3, <3>4, LeastNat
    <3> DEFINE p == Part(d, i)
               n == p.n
    <3>6. /\ i \in 1 .. k /\ i \in DOMAIN dl[d].parts /\ n = i - 1 /\ n \in PartNumbers /\ n < k
          /\ p \in AnyPart /\ j <= EndOf(p)
      BY <1>1, <1>2, <1>3, <1>4, <3>5 DEF Gapless, Tied, Known
    <3>7. /\ Recorded(n) /\ partFile[n].offset = p.offset /\ Covered(p, p.size)
      BY <1>2, <1>3, <2>2, <3>6 DEF Tied, Known
    <3>8. p.offset < j
      <4>1. CASE i = 1
        <5>1. p.offset = 0
          BY <3>6, <3>7, <4>1 DEF DataInv, FilesSound
        <5> QED
          BY <3>1, <5>1
      <4>2. CASE i # 1
        <5> DEFINE q == Part(d, i - 1)
        <5>1. i - 1 \in DOMAIN dl[d].parts /\ i - 1 < i /\ i - 1 \in Nat /\ i \in Nat
          BY <1>1, <3>6, <4>2
        <5>2. i - 1 \notin S
          BY <3>5, <5>1
        <5>3. q \in AnyPart /\ q.n = n - 1 /\ q.n \in PartNumbers /\ Recorded(q.n)
          BY <1>2, <1>3, <1>4, <3>6, <5>1 DEF Gapless, Tied, Known
        <5>4. partFile[q.n].offset = q.offset /\ partFile[q.n].size = q.size
          BY <1>2, <5>1, <5>3 DEF Tied, Known
        <5>5. n > 0
          BY <3>6, <5>1, <5>3, Numbers
        <5>6. p.offset = EndOf(q)
          BY <3>6, <3>7, <5>3, <5>4, <5>5 DEF DataInv, FilesSound, EndOf
        <5>7. ~(j <= EndOf(q)) /\ EndOf(q) \in Nat
          BY <5>1, <5>2, <5>3 DEF EndOf, AnyPart
        <5> QED
          BY <3>1, <5>6, <5>7
      <4> QED
        BY <4>1, <4>2
    <3>9. p.offset \in Nat /\ p.size \in Nat /\ p.offset + p.size = EndOf(p)
      BY <3>6 DEF AnyPart, EndOf
    <3>10. j \in p.offset + 1 .. p.offset + p.size /\ p.size # 0
      BY <3>1, <3>6, <3>8, <3>9
    <3> QED
      BY <3>7, <3>10 DEF Covered, Accounted
  <2> QED
    BY <2>1, <2>2, <2>3, <2>4
<1> QED
  BY <1>3, <1>4

LEMMA RunFetchedData ==
  ASSUME IInv, PartsInv, DataInv, NEW d \in Clients, RunFetched(d)
  PROVE  DataInv'
<1>1. /\ Phase(d) = "fetch" /\ UNCHANGED <<disk, data, partFile, call, broken, lost>>
      /\ Receiving(d) = {}
  BY DEF RunFetched, disk
<1>2. Tied(d) /\ Phase(d) \in Active /\ ~Halfway(d)
  BY <1>1 DEF DataInv, Active, Halfway, Unsplit
<1>3. CASE dl[d].err # None
  <2>1. Finish(d, dl[d].err) /\ dl[d].err \in {None, "err", "canceled"}
    BY <1>3, Types DEF RunFetched, Download
  <2> QED
    BY <1>1, <1>2, <2>1, FinishData
<1>4. CASE dl[d].err = None
  <2>1. dl' = [dl EXCEPT ![d].phase = "remove"]
    BY <1>4 DEF RunFetched, Enter
  <2>2. /\ dl'[d].phase = "remove" /\ dl'[d].at = dl[d].at
        /\ dl'[d].parts = dl[d].parts /\ dl'[d].total = dl[d].total
        /\ \A x \in Clients \ {d} : dl'[x] = dl[x]
        /\ Len(dl[d].parts) \in Nat
    BY <2>1, Types DEF Download
  <2>3. dl[d].at = 0
    BY <1>1, <1>2 DEF Tied, Sized
  <2>4. Known(d)'
    BY <1>1, <1>2, <2>2 DEF Tied, Known, Part, Recorded
  <2>5. Laid(d)'
    <3>1. Gapless(d)' <=> Gapless(d)
      BY <2>2 DEF Gapless, Part
    <3>2. EndOfParts(d)' = EndOfParts(d)
      BY <2>2 DEF EndOfParts, Part, EndOf
    <3>3. Missing(d) => Missing(d)'
      BY <1>1, <2>2, <2>3, Numbers DEF Missing, Phase
    <3> QED
      BY <1>1, <1>2, <2>2, <3>1, <3>2, <3>3 DEF Tied, Laid
  <2>6. Sized(d)'
    BY <1>1, <1>2, <2>2 DEF Tied, Sized, Gapless, Part, Prefix, Recorded, EndOf, Phase
  <2>7. Removing(d)'
    <3>1. Gapless(d)' <=> Gapless(d)
      BY <2>2 DEF Gapless, Part
    <3>2. \A n \in PartNumbers : ~(n < 0)
      BY Numbers
    <3> QED
      BY <1>1, <1>4, <2>2, <2>3, <3>1, <3>2, AllIn DEF Removing, Recorded, EndOf, Accounted
  <2>8. Tied(d)'
    BY <2>2, <2>4, <2>5, <2>6, <2>7
       DEF Tied, OnFile, Reading, Splitting, Fetching, Opened, Phase, Filling
  <2> QED
    BY <1>1, <1>2, <2>2, <2>8, DiskSame, NotHalfway, RunGoesOn
<1> QED
  BY <1>3, <1>4

LEMMA RunRemoveData ==
  ASSUME IInv, PartsInv, DataInv, NEW d \in Clients, RunRemove(d)
  PROVE  DataInv'
<1> DEFINE a == dl[d].at
           k == Len(dl[d].parts)
<1>1. Phase(d) = "remove" /\ a < k /\ UNCHANGED <<data, blob, call, broken, lost>>
  BY DEF RunRemove
<1>2. Tied(d) /\ Phase(d) \in Active
  BY <1>1 DEF DataInv, Active
<1>3. dl[d].parts \in Seq(AnyPart) /\ a \in Nat /\ k \in Nat /\ DOMAIN dl[d].parts = 1 .. k
  BY Types DEF Download
<1>4. Gapless(d) => a \in PartNumbers /\ Recorded(a)
  <2> SUFFICES ASSUME Gapless(d) PROVE a \in PartNumbers /\ Recorded(a)
    OBVIOUS
  <2>1. PICK i \in DOMAIN dl[d].parts : i - 1 = a
    BY <1>1, <1>3, Position
  <2>2. a \in PartNumbers
    BY <1>2, <2>1 DEF Tied, Known, Gapless
  <2>3. a >= a
    BY <1>3
  <2> QED
    BY <1>1, <1>2, <2>2, <2>3 DEF Tied, Removing
<1>5. CASE partFile[a] = None
  <2>1. Finish(d, "err") /\ UNCHANGED disk
    BY <1>1, <1>5 DEF RunRemove, disk
  <2>2. broken
    BY <1>2, <1>4, <1>5 DEF Tied, Laid, Recorded
  <2> QED
    BY <1>1, <1>2, <2>1, <2>2, FinishData
<1>6. CASE partFile[a] # None
  <2>1. /\ partFile' = [partFile EXCEPT ![a] = None]
        /\ dl' = [dl EXCEPT ![d].at = a + 1]
    BY <1>6 DEF RunRemove
  <2>2. /\ dl'[d].phase = "remove" /\ dl'[d].at = a + 1
        /\ dl'[d].parts = dl[d].parts /\ dl'[d].total = dl[d].total
        /\ \A x \in Clients \ {d} : dl'[x] = dl[x]
    BY <1>1, <2>1, Types DEF Download, Phase
  <2>3. /\ \A n \in PartNumbers : n # a => partFile'[n] = partFile[n]
        /\ \A n \in PartNumbers : n = a => partFile'[n] = None
        /\ \A n \in PartNumbers : partFile'[n] = partFile[n] \/ partFile'[n] \in {None, Torn}
    BY <2>1, Types
  <2> HIDE DEF a, k
  <2>4. FilesSound' /\ FilesTrue'
    BY <1>1, <2>3, FilesLost
  <2>5. \A n \in PartNumbers : Recorded(n)' => Recorded(n) /\ partFile'[n] = partFile[n]
    BY <2>3 DEF Recorded
  <2>6. \A n \in PartNumbers : Prefix(n)' => Prefix(n) /\ partFile'[n] = partFile[n]
    <3>1. \A n \in PartNumbers : n \in 0 .. n /\ \A m \in 0 .. n : m \in PartNumbers
      BY Numbers
    <3> QED
      BY <2>5, <3>1 DEF Prefix
  <2>7. Gapless(d)' <=> Gapless(d)
    BY <2>2 DEF Gapless, Part
  <2>8. Known(d)'
    BY <1>2, <2>2, <2>5 DEF Tied, Known, Part, Phase, Active
  <2>9. Laid(d)'
    <3>1. EndOfParts(d)' = EndOfParts(d)
      BY <2>2 DEF EndOfParts, Part, EndOf
    <3>2. Missing(d) => Missing(d)'
      <4> SUFFICES ASSUME NEW m \in PartNumbers, m < k, partFile[m] = None, m >= a
                   PROVE  Missing(d)'
        BY <1>1 DEF Missing, a, k
      <4>1. m # a /\ partFile'[m] = None
        BY <1>6, <2>3
      <4>2. m >= a + 1
        BY <1>3, <4>1, Numbers
      <4> QED
        BY <2>2, <4>1, <4>2 DEF Missing, k
    <3> QED
      BY <1>1, <1>2, <2>2, <2>7, <3>1, <3>2 DEF Tied, Laid, Phase
  <2>10. Sized(d)'
    <3>1. Gapless(d) => \A n \in PartNumbers : n >= k => partFile'[n] = None
      BY <1>1, <1>2, <2>3 DEF Tied, Sized, k
    <3>2. \A n \in PartNumbers : Prefix(n)' => EndOf(partFile'[n]) <= dl[d].total
      BY <1>1, <1>2, <2>6 DEF Tied, Sized
    <3>3. ~broken => dl[d].total \in Lengths
      BY <1>1, <1>2 DEF Tied, Sized
    <3> QED
      BY <1>1, <2>2, <2>7, <3>1, <3>2, <3>3 DEF Sized, Phase, EndOf, k
  <2>11. Removing(d)'
    <3>1. a + 1 <= k
      BY <1>1, <1>3 DEF a, k
    <3>2. ASSUME Gapless(d), NEW n \in PartNumbers
          PROVE  /\ n < a + 1 => partFile'[n] = None
                 /\ n >= a + 1 /\ n < k => Recorded(n)' /\ EndOf(partFile'[n]) <= dl[d].total
      <4>1. /\ n < a => partFile[n] = None
            /\ n >= a /\ n < k => Recorded(n) /\ EndOf(partFile[n]) <= dl[d].total
        BY <1>1, <1>2, <3>2 DEF Tied, Removing, a, k
      <4>2. CASE n < a
        <5>1. n # a /\ ~(n >= a + 1)
          BY <1>3, <4>2, Numbers
        <5> QED
          BY <2>3, <4>1, <4>2, <5>1
      <4>3. CASE n = a
        <5>1. ~(n >= a + 1)
          BY <1>3, <4>3
        <5> QED
          BY <2>3, <4>3, <5>1
      <4>4. CASE n > a
        <5>1. n # a /\ ~(n < a + 1) /\ n >= a
          BY <1>3, <4>4, Numbers
        <5> QED
          BY <2>3, <4>1, <5>1 DEF Recorded
      <4> QED
        BY <1>3, <4>2, <4>3, <4>4, Numbers
    <3>3. Gapless(d) => Len(data) = dl[d].total /\ \A j \in DOMAIN data : Accounted(j)
      BY <1>1, <1>2 DEF Tied, Removing
    <3>4. \A j : Accounted(j)' <=> Accounted(j)
      BY <1>1 DEF Accounted
    <3> QED
      BY <1>1, <2>2, <2>7, <3>1, <3>2, <3>3, <3>4 DEF Removing, EndOf, k
  <2>12. Tied(d)'
    BY <2>2, <2>8, <2>9, <2>10, <2>11
       DEF Tied, OnFile, Reading, Splitting, Fetching, Opened, Phase, Filling
  <2>13. ASSUME ~broken', ~Halfway(d)', NEW n \in PartFiles' PROVE FALSE
    <3>1. Gapless(d)
      BY <1>1, <1>2, <2>13 DEF Tied, Laid
    <3>2. a + 1 = k
      BY <1>1, <1>3, <2>2, <2>13 DEF Halfway, Phase, a, k
    <3>3. n \in PartNumbers /\ partFile'[n] # None /\ n \in Nat
      BY <2>13, Numbers DEF PartFiles
    <3>4. n < k => partFile'[n] = None
      BY <2>2, <2>7, <2>11, <3>1, <3>2, <3>3 DEF Removing, Phase
    <3>5. n >= k => partFile'[n] = None
      BY <2>2, <2>7, <2>10, <3>1, <3>3 DEF Sized, Phase, k
    <3> QED
      BY <1>3, <3>3, <3>4, <3>5
  <2>14. BlobWhole'
    BY <1>1 DEF DataInv, BlobWhole
  <2> QED
    BY <1>1, <1>2, <2>2, <2>4, <2>12, <2>13, <2>14, RunGoesOn
<1> QED
  BY <1>5, <1>6

LEMMA RunRenameData ==
  ASSUME IInv, PartsInv, DataInv, NEW d \in Clients, RunRename(d)
  PROVE  DataInv'
<1>1. /\ Phase(d) = "remove" /\ dl[d].at = Len(dl[d].parts)
      /\ blob' = data /\ Finish(d, None) /\ UNCHANGED <<partFile, call, broken, lost>>
  BY DEF RunRename
<1>2. Tied(d) /\ Phase(d) \in Active
  BY <1>1 DEF DataInv, Active
<1>3. Len(dl[d].parts) \in Nat
  BY Types DEF Download
<1>4. Gapless(d)
  <2>1. ~Missing(d)
    BY <1>1, <1>3, Numbers DEF Missing
  <2> QED
    BY <1>2, <2>1 DEF Tied, Laid
<1>5. \A n \in PartNumbers : partFile[n] = None
  BY <1>1, <1>2, <1>3, <1>4, Numbers DEF Tied, Removing, Sized
<1>6. FilesSound'
  BY <1>1 DEF DataInv, FilesSound, Recorded, EndOf
<1>7. FilesTrue'
  BY <1>1, <1>5, Numbers DEF FilesTrue, Prefix, Recorded
<1>8. BlobWhole'
  <2>1. /\ Len(data) = dl[d].total /\ \A j \in DOMAIN data : data[j] \/ j \in lost
        /\ ~broken => dl[d].total \in Lengths
    BY <1>1, <1>2, <1>4 DEF Tied, Removing, Sized, Accounted
  <2> QED
    BY <1>1, <2>1 DEF BlobWhole
<1>9. dl'[d].phase = "left" /\ \A x \in Clients \ {d} : dl'[x] = dl[x]
  BY <1>1, FinishChanges DEF Changes
<1>10. Tied(d)'
  BY <1>9, TiedIdle DEF Active
<1>11. PartFiles' = {}
  BY <1>1, <1>5 DEF PartFiles
<1> QED
  BY <1>1, <1>2, <1>6, <1>7, <1>8, <1>9, <1>10, <1>11, RunGoesOn

LEMMA RunCloseData ==
  ASSUME IInv, DataInv, NEW d \in Clients, RunClose(d)
  PROVE  DataInv'
<1>1. /\ Phase(d) = "left" /\ dl' = [dl EXCEPT ![d].phase = "closed"]
      /\ UNCHANGED <<disk, call, broken, lost>>
  BY DEF RunClose, Enter
<1>2. dl'[d].phase = "closed" /\ \A x \in Clients \ {d} : dl'[x] = dl[x]
  BY <1>1, Types DEF Download
<1>3. \A x \in Clients : dl'[x] = dl[x] \/ dl'[x].phase \notin Active
  BY <1>2 DEF Active
<1>4. \A x \in Clients : Halfway(x) => Halfway(x)'
  BY <1>1, <1>2 DEF Halfway, Unsplit, Phase
<1>5. \A x \in Clients : call'[x].pc \in {"start", "lookup"} => SameView(x)
  BY <1>1, <1>2 DEF SameView, DataInv, NotBegun
<1>6. NoneStarts
  BY <1>1 DEF NoneStarts
<1> QED
  BY <1>1, <1>3, <1>4, <1>5, <1>6, DataStays

LEMMA RunData ==
  ASSUME IInv, PartsInv, DataInv, NEW d \in Clients, Run(d)
  PROVE  DataInv'
<1>1. CASE RunFails(d)
  <2>1. /\ Phase(d) \in {"open", "direct", "remove"} /\ UNCHANGED <<disk, call, lost>>
        /\ broken' = (broken \/ SomePartsOnly)
    BY <1>1 DEF RunFails
  <2>2. PICK e \in {"err", "canceled"} : Finish(d, e)
    BY <1>1 DEF RunFails
  <2>3. Phase(d) \in Active /\ (~broken' => ~Halfway(d))
    BY <2>1, SomePartsOnlyHalfway DEF Active
  <2> QED
    BY <2>1, <2>2, <2>3, FinishData
<1> QED
  BY <1>1, RunStartData, RunOpenData, RunDirectData, RunFetchedData, RunRemoveData,
     RunRenameData, RunCloseData DEF Run

-----------------------------------------------------------------------------
(* downloadChunk *)

\* What the invariant says of a part that is being fetched.
LEMMA ChunkFacts ==
  ASSUME IInv, DataInv, NEW d \in Clients, NEW i \in DOMAIN dl[d].work, InChunk(d, i)
  PROVE  LET p == Part(d, i)
             g == dl[d].work[i].got
         IN  /\ p \in AnyPart /\ p.n \in PartNumbers /\ Recorded(p.n)
             /\ partFile[p.n] \in AnyPart
             /\ partFile[p.n].offset = p.offset /\ partFile[p.n].size = p.size
             /\ p.completed \in Nat /\ p.size \in Nat /\ p.offset \in Nat /\ g \in Nat
             /\ p.completed <= p.size /\ g <= p.size - p.completed
             /\ Remaining(d, i) = p.size - p.completed
             /\ Prefix(p.n) => Covered(p, p.completed + g)
<1> DEFINE p == Part(d, i)
           w == dl[d].work[i]
<1>1. p \in AnyPart /\ w \in AnyWork /\ i \in DOMAIN dl[d].parts /\ Phase(d) = "fetch"
  BY ChunkTypes DEF Phase
<1>2. Tied(d) /\ Phase(d) \in Active
  BY <1>1 DEF DataInv, Active
<1>3. AtWork(p, w, dl[d].err) /\ w.pc = "recv"
  BY <1>1, <1>2 DEF Tied, Fetching, InChunk
<1>4. p.n \in PartNumbers /\ Recorded(p.n)
  BY <1>1, <1>2, <1>3 DEF Tied, Known, AtWork
<1>5. partFile[p.n].offset = p.offset /\ partFile[p.n].size = p.size /\ p.completed <= p.size
  BY <1>1, <1>2, <1>4 DEF Tied, Known
<1>6. p.completed \in Nat /\ p.size \in Nat /\ p.offset \in Nat /\ w.got \in Nat
  BY <1>1 DEF AnyPart, AnyWork
<1> QED
  BY <1>1, <1>3, <1>4, <1>5, <1>6, FileTypes DEF AtWork, Remaining

\* Part i becomes p and its goroutine w; its file stays, becomes p, or is torn;
\* the data file only gains.
ChunkChange(d, i, p, w, e, f) ==
  /\ p.n = Part(d, i).n /\ p.offset = Part(d, i).offset /\ p.size = Part(d, i).size
  /\ p.completed <= p.size
  /\ dl'[d].phase = "fetch" /\ dl'[d].total = dl[d].total /\ dl'[d].at = dl[d].at
  /\ dl'[d].parts = [dl[d].parts EXCEPT ![i] = p]
  /\ dl'[d].work = [dl[d].work EXCEPT ![i] = w] /\ dl'[d].err = e
  /\ dl[d].err # None => e # None
  /\ \A x \in Clients \ {d} : dl'[x] = dl[x]
  /\ UNCHANGED <<blob, call, lost>>
  /\ partFile' = [partFile EXCEPT ![p.n] = f]
  /\ f = partFile[p.n] \/ f = p \/ (f = Torn /\ broken')
  /\ broken => broken'
  /\ data' \in Seq(BOOLEAN) /\ DataGrows
  /\ Gapless(d) /\ dl[d].err = None => Len(data') = Len(data)

LEMMA ChunkData ==
  ASSUME IInv, PartsInv, DataInv, NEW d \in Clients, NEW i \in DOMAIN dl[d].work, InChunk(d, i),
         NEW p \in AnyPart, NEW w, NEW e, NEW f, ChunkChange(d, i, p, w, e, f),
         AtWork(p, w, e)',
         Prefix(p.n)' /\ f = p => Covered(p, p.completed)'
  PROVE  DataInv'
<1> USE DEF ChunkChange
<1> DEFINE ps == dl[d].parts
           m == p.n
<1>1. /\ Phase(d) = "fetch" /\ i \in DOMAIN ps /\ ps \in Seq(AnyPart)
      /\ DOMAIN dl[d].work = DOMAIN ps /\ dl[d].work \in Seq(AnyWork)
      /\ data \in Seq(BOOLEAN)
  BY ChunkTypes DEF Phase, IInv, DataThere
<1>2. Tied(d) /\ Phase(d) \in Active
  BY <1>1 DEF DataInv, Active
<1>3. /\ m \in PartNumbers /\ Recorded(m) /\ partFile[m] \in AnyPart
      /\ partFile[m].offset = p.offset /\ partFile[m].size = p.size
  BY ChunkFacts
<1>4. /\ \A n \in PartNumbers : n # m => partFile'[n] = partFile[n]
      /\ partFile'[m] = f
  BY <1>3, Types
<1>5. /\ DOMAIN dl'[d].parts = DOMAIN ps /\ dl'[d].parts[i] = p /\ dl'[d].work[i] = w
      /\ Len(dl'[d].parts) = Len(ps) /\ (dl'[d].parts = <<>> <=> ps = <<>>)
      /\ \A j \in DOMAIN ps : j # i => /\ dl'[d].parts[j] = ps[j]
                                       /\ dl'[d].work[j] = dl[d].work[j]
  BY <1>1
<1>6. \A j \in DOMAIN ps : /\ ps[j] \in AnyPart /\ j \in Nat
                           /\ dl'[d].parts[j].n = ps[j].n
                           /\ dl'[d].parts[j].offset = ps[j].offset
                           /\ dl'[d].parts[j].size = ps[j].size
  BY <1>1, <1>5 DEF Part
<1>7. \A j \in DOMAIN ps : j # i => ps[j].n # m
  BY <1>1 DEF PartsInv, Tracked, Distinct, Filling, Part
<1> HIDE DEF ps, m
\* What becomes of the files.
<1>8. \A n \in PartNumbers :
        Recorded(n)' => /\ Recorded(n)
                        /\ partFile'[n].offset = partFile[n].offset
                        /\ partFile'[n].size = partFile[n].size
  BY <1>3, <1>4 DEF Recorded, m
<1>9. \A n \in PartNumbers : Prefix(n)' => Prefix(n)
  <2>1. \A n \in PartNumbers : \A x \in 0 .. n : x \in PartNumbers
    BY Numbers
  <2> QED
    BY <1>8, <2>1 DEF Prefix
<1>10. \A n \in PartNumbers : partFile[n] = None => partFile'[n] = None
  BY <1>3, <1>4 DEF Recorded
<1>11. ~broken' => \A n \in PartNumbers : (Recorded(n) => Recorded(n)') /\ (n \in PartFiles' => n \in PartFiles)
                                          /\ (n \in PartFiles => n \in PartFiles')
  BY <1>3, <1>4, PartIsNoMark DEF Recorded, PartFiles, m
<1>12. \A n \in PartNumbers : Prefix(n) => n \in Nat /\ Recorded(n) /\ partFile[n] \in AnyPart
  BY Numbers, FileTypes DEF Prefix
<1>13. \A n \in PartNumbers : Prefix(n)' => EndOf(partFile'[n]) = EndOf(partFile[n])
  BY <1>8, <1>9, <1>12, Numbers DEF EndOf, Prefix
<1>14. FilesSound'
  <2> SUFFICES ASSUME NEW n \in PartNumbers, Recorded(n)'
               PROVE  /\ partFile'[n].completed <= partFile'[n].size
                      /\ n = 0 => partFile'[n].offset = 0
                      /\ n > 0 /\ Recorded(n - 1)' =>
                           partFile'[n].offset = partFile'[n - 1].offset + partFile'[n - 1].size
    BY DEF FilesSound, EndOf
  <2>1. partFile'[n].completed <= partFile'[n].size
    <3>1. CASE n # m \/ f = partFile[n]
      BY <1>4, <1>8, <3>1 DEF DataInv, FilesSound
    <3>2. CASE n = m /\ f = p
      BY <1>4, <3>2
    <3>3. CASE n = m /\ f = Torn
      BY <1>4, <3>3 DEF Recorded
    <3> QED
      BY <3>1, <3>2, <3>3 DEF m
  <2>2. n > 0 => n - 1 \in PartNumbers
    BY Numbers
  <2> QED
    BY <1>8, <2>1, <2>2 DEF DataInv, FilesSound, EndOf
<1>15. \A x \in AnyPart, k \in Nat : Covered(x, k) => Covered(x, k)'
  BY CoveredGrows
<1>16. FilesTrue'
  <2> SUFFICES ASSUME NEW n \in PartNumbers, Prefix(n)'
               PROVE  Covered(partFile[n], partFile[n].completed)'
    BY DEF FilesTrue
  <2>a. n \in 0 .. n
    BY Numbers
  <2>b. Prefix(n) /\ Recorded(n)' /\ partFile[n] \in AnyPart
    BY <1>9, <1>12, <2>a DEF Prefix
  <2>1. /\ Prefix(n) /\ Recorded(n)' /\ partFile[n] \in AnyPart /\ partFile[n].completed \in Nat
        /\ Covered(partFile[n], partFile[n].completed)
    BY <2>b DEF AnyPart, DataInv, FilesTrue
  <2>2. \A x : x = partFile[n] => Covered(x, x.completed)'
    BY <1>15, <2>1
  <2>3. CASE n # m \/ f = partFile[n]
    BY <1>4, <2>2, <2>3
  <2>4. CASE n = m /\ f = p
    BY <1>4, <2>4 DEF m
  <2>5. CASE n = m /\ f = Torn
    BY <1>4, <2>1, <2>5 DEF Recorded
  <2> QED
    BY <2>3, <2>4, <2>5 DEF m
<1>17. ~broken' => \A n \in PartFiles' : Prefix(n)' /\ (n + 1 \notin PartFiles' =>
                                                     EndOf(partFile'[n]) \in Lengths)
  <2> SUFFICES ASSUME ~broken', NEW n \in PartFiles'
               PROVE  Prefix(n)' /\ (n + 1 \notin PartFiles' => EndOf(partFile'[n]) \in Lengths)
    OBVIOUS
  <2>1. ~SomePartsOnly /\ ~broken
    BY <1>1, <1>2, NotHalfway DEF Halfway, Unsplit
  <2>2. n \in PartNumbers /\ n \in PartFiles
    BY <1>11 DEF PartFiles
  <2>3. Prefix(n) /\ (n + 1 \notin PartFiles => EndOf(partFile[n]) \in Lengths)
    BY <2>1, <2>2 DEF DataInv, FilesWhole
  <2>4. \A x \in 0 .. n : x \in PartNumbers
    BY <2>2, Numbers
  <2>5. Prefix(n)'
    BY <1>11, <2>3, <2>4 DEF Prefix
  <2>6. n + 1 \in PartFiles => n + 1 \in PartFiles'
    BY <1>11 DEF PartFiles
  <2> QED
    BY <1>13, <2>2, <2>3, <2>5, <2>6
<1>18. Gapless(d)' <=> Gapless(d)
  BY <1>5, <1>6 DEF Gapless, Part, ps
<1>19. Known(d)'
  <2>1. ASSUME NEW j \in DOMAIN ps, NEW q, q = dl'[d].parts[j], NEW n, n = q.n
        PROVE  /\ n \in PartNumbers /\ q.completed <= q.size
               /\ Recorded(n)' => partFile'[n].offset = q.offset /\ partFile'[n].size = q.size
    <3>1. /\ ps[j].n \in PartNumbers /\ ps[j].completed <= ps[j].size
          /\ Recorded(ps[j].n) => /\ partFile[ps[j].n].offset = ps[j].offset
                                  /\ partFile[ps[j].n].size = ps[j].size
      BY <1>2 DEF Tied, Known, Part, ps
    <3>2. q.completed <= q.size
      BY <1>5, <2>1, <3>1
    <3>3. n = ps[j].n /\ q.offset = ps[j].offset /\ q.size = ps[j].size
      BY <1>6, <2>1
    <3> QED
      BY <1>8, <3>1, <3>2, <3>3
  <2>2. ASSUME NEW j \in DOMAIN ps
        PROVE  /\ dl'[d].parts[j].n \in PartNumbers
               /\ dl'[d].parts[j].completed <= dl'[d].parts[j].size
               /\ partFile'[dl'[d].parts[j].n] \notin {None, Torn} =>
                    /\ partFile'[dl'[d].parts[j].n].offset = dl'[d].parts[j].offset
                    /\ partFile'[dl'[d].parts[j].n].size = dl'[d].parts[j].size
    <3>1. PICK q : q = dl'[d].parts[j]
      OBVIOUS
    <3>2. PICK n : n = q.n
      OBVIOUS
    <3> QED
      BY <2>1, <3>1, <3>2 DEF Recorded
  <2> QED
    BY <1>5, <2>2 DEF Known, Part, Recorded
<1>20. Laid(d)'
  <2>1. EndOfParts(d)' = EndOfParts(d)
    <3>1. CASE ps = <<>>
      BY <1>5, <3>1 DEF EndOfParts, ps
    <3>2. CASE ps # <<>>
      <4>1. Len(ps) \in DOMAIN ps
        BY <1>1, <3>2
      <4> QED
        BY <1>5, <1>6, <3>2, <4>1 DEF EndOfParts, EndOf, Part, ps
    <3> QED
      BY <3>1, <3>2
  <2>2. Missing(d) => Missing(d)'
    BY <1>1, <1>5, <1>10 DEF Missing, Phase, ps
  <2> QED
    BY <1>1, <1>2, <1>18, <2>1, <2>2 DEF Tied, Laid
<1>21. Sized(d)'
  <2>1. \A n \in PartNumbers : Prefix(n)' => EndOf(partFile'[n]) <= dl[d].total
    BY <1>1, <1>2, <1>9, <1>13 DEF Tied, Sized
  <2>2. Gapless(d) => \A n \in PartNumbers : n >= Len(ps) => partFile'[n] = None
    BY <1>1, <1>2, <1>10 DEF Tied, Sized, ps
  <2>3. ~broken' => dl[d].total \in Lengths
    BY <1>1, <1>2 DEF Tied, Sized
  <2>4. dl[d].at = 0
    BY <1>1, <1>2 DEF Tied, Sized
  <2> QED
    BY <1>5, <1>18, <2>1, <2>2, <2>3, <2>4 DEF Sized, EndOf
<1>22. Fetching(d)'
  <2> SUFFICES ASSUME NEW j \in DOMAIN ps
               PROVE  AtWork(Part(d, j), dl[d].work[j], dl[d].err)'
    BY <1>5 DEF Fetching
  <2>1. CASE j = i
    BY <1>5, <2>1 DEF Part, AtWork
  <2>2. CASE j # i
    <3>q. PICK q \in AnyPart : q = ps[j]
      BY <1>6
    <3>v. PICK v \in AnyWork : v = dl[d].work[j]
      BY <1>1
    <3>1. AtWork(q, v, dl[d].err) /\ q.n \in PartNumbers /\ q.n # m
      BY <1>1, <1>2, <1>7, <2>2, <3>q, <3>v DEF Tied, Fetching, Known, Part, ps
    <3>2. q.completed + v.got \in Nat
      <4>1. v.got \in Nat
        BY DEF AnyWork
      <4>2. q.completed \in Nat
        BY DEF AnyPart
      <4> QED
        BY <4>1, <4>2
    <3>3. AtWork(q, v, e)'
      <4>1. Recorded(q.n) => Recorded(q.n)'
        BY <1>4, <3>1 DEF Recorded
      <4>2. Prefix(q.n)' => Prefix(q.n)
        BY <1>9, <3>1
      <4>3. Covered(q, q.completed + v.got) => Covered(q, q.completed + v.got)'
        BY <1>15, <3>2
      <4> QED
        BY <3>1, <4>1, <4>2, <4>3 DEF AtWork
    <3> QED
      BY <1>5, <2>2, <3>q, <3>v, <3>3 DEF Part
  <2> QED
    BY <2>1, <2>2
<1>23. Opened(d)'
  BY <1>1, <1>2, <1>18 DEF Tied, Opened
<1>24. Tied(d)'
  BY <1>19, <1>20, <1>21, <1>22, <1>23
     DEF Tied, OnFile, Reading, Splitting, Removing, Phase, Filling
<1>25. BlobWhole'
  BY DEF DataInv, BlobWhole
<1> QED
  BY <1>2, <1>14, <1>16, <1>17, <1>24, <1>25, RunGoesOn

\* The files hold all of the units before a gapless download's own, as long as
\* nothing has failed.
LEMMA PartWithin ==
  ASSUME IInv, PartsInv, DataInv, NEW d \in Clients, NEW i \in DOMAIN dl[d].work, InChunk(d, i),
         Gapless(d), dl[d].err = None
  PROVE  EndOf(Part(d, i)) <= Len(data)
<1>1. /\ Phase(d) = "fetch" /\ i \in DOMAIN dl[d].parts /\ dl[d].parts \in Seq(AnyPart)
  BY ChunkTypes DEF Phase
<1>2. Tied(d)
  BY DEF DataInv
<1>3. \A j \in DOMAIN dl[d].parts : Part(d, j).n = j - 1 /\ Recorded(j - 1)
  BY <1>1, <1>2 DEF Tied, Fetching, AtWork, Gapless
<1>4. Part(d, i).n \in PartNumbers /\ Part(d, i).n = i - 1
  BY <1>1, <1>3, ChunkFacts
<1>5. Prefix(i - 1)
  <2> SUFFICES ASSUME NEW x \in 0 .. i - 1 PROVE Recorded(x)
    BY DEF Prefix
  <2>1. PICK j \in DOMAIN dl[d].parts : j - 1 = x
    <3>1. x + 1 \in DOMAIN dl[d].parts /\ (x + 1) - 1 = x
      BY <1>1
    <3> QED
      BY <3>1
  <2> QED
    BY <1>3, <2>1
<1>6. EndOf(partFile[i - 1]) <= dl[d].total /\ Len(data) = dl[d].total
  BY <1>1, <1>2, <1>4, <1>5 DEF Tied, Sized, Opened
<1>7. EndOf(partFile[i - 1]) = EndOf(Part(d, i))
  BY <1>4, ChunkFacts DEF EndOf
<1> QED
  BY <1>6, <1>7

LEMMA WrittenIs ==
  ASSUME NEW x \in Seq(BOOLEAN), NEW k \in Nat \ {0}
  PROVE  /\ Written(x, k) \in Seq(BOOLEAN)
         /\ Len(Written(x, k)) >= Len(x) /\ Len(Written(x, k)) >= k
         /\ k <= Len(x) => Len(Written(x, k)) = Len(x)
         /\ Written(x, k)[k]
         /\ \A j \in 1 .. Len(x) : x[j] => Written(x, k)[j]
<1> DEFINE n == IF k > Len(x) THEN k ELSE Len(x)
<1>1. n \in Nat /\ n >= k /\ n >= Len(x) /\ (k <= Len(x) => n = Len(x)) /\ k \in 1 .. n
  OBVIOUS
<1>2. Written(x, k) = [j \in 1 .. n |-> j = k \/ (j <= Len(x) /\ x[j])]
  BY DEF Written
<1>3. Written(x, k) \in Seq(BOOLEAN)
  BY WrittenType
<1>4. \A j \in 1 .. Len(x) : j \in 1 .. n /\ j <= Len(x)
  BY <1>1
<1> HIDE DEF n
<1>5. Len(Written(x, k)) = n
  BY <1>1, <1>2
<1>6. Written(x, k)[k]
  BY <1>1, <1>2
<1>7. \A j \in 1 .. Len(x) : x[j] => Written(x, k)[j]
  BY <1>2, <1>4
<1> QED
  BY <1>1, <1>3, <1>5, <1>6, <1>7

LEMMA ChunkReceiveData ==
  ASSUME IInv, PartsInv, DataInv, NEW d \in Clients, NEW i \in DOMAIN dl[d].work,
         ChunkReceive(d, i)
  PROVE  DataInv'
<1>1. /\ InChunk(d, i) /\ Short(d, i)
      /\ data' = Written(data, Part(d, i).offset + Part(d, i).completed + dl[d].work[i].got + 1)
      /\ dl' = [dl EXCEPT ![d].work[i] = Heard(@), ![d].completed = @ + 1]
      /\ UNCHANGED <<partFile, blob, call, broken, lost>>
  BY DEF ChunkReceive
<1>2. PICK p \in AnyPart : p = Part(d, i)
  BY <1>1, ChunkTypes
<1>3. PICK g \in Nat : g = dl[d].work[i].got
  BY <1>1, ChunkFacts
<1>4. PICK w : w = Heard(dl[d].work[i])
  OBVIOUS
<1>5. PICK e : e = dl[d].err
  OBVIOUS
<1>6. /\ p.n \in PartNumbers /\ Recorded(p.n)
      /\ p.completed \in Nat /\ p.size \in Nat /\ p.offset \in Nat
      /\ p.completed <= p.size /\ g < p.size - p.completed
      /\ Prefix(p.n) => Covered(p, p.completed + g)
  BY <1>1, <1>2, <1>3, ChunkFacts DEF Short
<1>7. PICK k \in Nat \ {0} : k = p.offset + p.completed + g + 1
  BY <1>6
<1>8. /\ data \in Seq(BOOLEAN) /\ data' = Written(data, k)
      /\ dl[d] \in Download /\ dl[d].phase = "fetch"
      /\ dl[d].work[i] \in AnyWork /\ i \in DOMAIN dl[d].parts /\ dl[d].parts \in Seq(AnyPart)
  BY <1>1, <1>2, <1>3, <1>7, ChunkTypes
<1>9. /\ data' \in Seq(BOOLEAN) /\ Len(data') >= k /\ data'[k] /\ Len(data') >= Len(data)
      /\ k <= Len(data) => Len(data') = Len(data)
      /\ \A j \in 1 .. Len(data) : data[j] => data'[j]
  BY <1>8, WrittenIs
<1>10. data' # None /\ data # None
  BY <1>8, <1>9, DownloadAssumption
<1>11. DataGrows
  BY <1>1, <1>8, <1>9, <1>10 DEF DataGrows, Accounted
<1>12. w.pc = "recv" /\ w.got = g + 1
  BY <1>1, <1>3, <1>4, <1>8 DEF Heard, AnyWork, InChunk
<1>13. AtWork(p, w, e)'
  <2>1. w.got <= p.size - p.completed
    BY <1>6, <1>12
  <2>2. Prefix(p.n)' => Covered(p, p.completed + w.got)'
    <3> SUFFICES ASSUME Prefix(p.n), NEW j \in p.offset + 1 .. k PROVE Accounted(j)'
      <4>1. p.offset + (p.completed + w.got) = k
        BY <1>6, <1>7, <1>12
      <4> QED
        BY <1>1, <4>1 DEF Covered, Prefix, Recorded
    <3>1. CASE j = k
      BY <1>9, <1>10, <3>1 DEF Accounted
    <3>2. CASE j # k
      <4>0. p.completed + g \in Nat /\ j \in Nat /\ j >= p.offset + 1 /\ j <= k
        BY <1>6, <1>7
      <4>1. k = p.offset + (p.completed + g) + 1
        BY <1>6, <1>7
      <4>2. j \in p.offset + 1 .. p.offset + (p.completed + g)
        BY <1>6, <3>2, <4>0, <4>1
      <4>3. Accounted(j)
        BY <1>6, <4>2 DEF Covered
      <4> QED
        BY <1>11, <4>0, <4>3 DEF DataGrows
    <3> QED
      BY <3>1, <3>2
  <2>3. Recorded(p.n)'
    BY <1>1, <1>6 DEF Recorded
  <2> QED
    BY <1>12, <2>1, <2>2, <2>3 DEF AtWork
<1>14. Gapless(d) /\ dl[d].err = None => Len(data') = Len(data)
  <2> SUFFICES ASSUME Gapless(d), dl[d].err = None PROVE k <= Len(data)
    BY <1>9
  <2>1. EndOf(p) <= Len(data)
    BY <1>1, <1>2, PartWithin
  <2> QED
    BY <1>6, <1>7, <1>8, <2>1 DEF EndOf
<1>15. /\ dl'[d].phase = "fetch" /\ dl'[d].total = dl[d].total /\ dl'[d].at = dl[d].at
       /\ dl'[d].parts = dl[d].parts /\ dl'[d].work = [dl[d].work EXCEPT ![i] = w]
       /\ dl'[d].err = e /\ \A x \in Clients \ {d} : dl'[x] = dl[x]
  BY <1>1, <1>4, <1>5, <1>8, Types DEF Download
<1>16. dl[d].parts = [dl[d].parts EXCEPT ![i] = p]
  BY <1>2, <1>8 DEF Part
<1>17. partFile = [partFile EXCEPT ![p.n] = partFile[p.n]]
  BY Types
<1>18. PICK f : f = partFile[p.n]
  OBVIOUS
<1>19. Prefix(p.n)' /\ f = p => Covered(p, p.completed)'
  <2> SUFFICES ASSUME Prefix(p.n) PROVE Covered(p, p.completed)'
    BY <1>1 DEF Prefix, Recorded
  <2>1. Covered(p, p.completed + g) /\ p.completed + g \in Nat /\ p.completed \in 0 .. p.completed + g
    BY <1>6
  <2>2. Covered(p, p.completed)
    BY <2>1, CoveredLess
  <2> QED
    BY <1>6, <1>11, <2>2, CoveredGrows
<1>20. ChunkChange(d, i, p, w, e, f)
  BY <1>1, <1>2, <1>5, <1>6, <1>9, <1>11, <1>14, <1>15, <1>16, <1>17, <1>18 DEF ChunkChange
<1> QED
  BY <1>1, <1>2, <1>13, <1>19, <1>20, ChunkData

\* The attempt ends: the data stays, and the goroutine has nothing in hand.
ChunkEnd(d, i, w, e, f, p) ==
  /\ p = Part(d, i) \/ p = Kept(d, i)
  /\ w.got = 0
  /\ w.pc = "done" => ~Short(d, i) /\ p = Kept(d, i)
  /\ w.pc = "failed" => e # None
  /\ dl[d].err # None => e # None
  /\ dl'[d].phase = "fetch" /\ dl'[d].total = dl[d].total /\ dl'[d].at = dl[d].at
  /\ dl'[d].parts = [dl[d].parts EXCEPT ![i] = p]
  /\ dl'[d].work = [dl[d].work EXCEPT ![i] = w] /\ dl'[d].err = e
  /\ \A x \in Clients \ {d} : dl'[x] = dl[x]
  /\ UNCHANGED <<data, blob, call, lost>>
  /\ partFile' = [partFile EXCEPT ![Part(d, i).n] = f]
  /\ f = partFile[Part(d, i).n] \/ f = p \/ (f = Torn /\ broken' /\ w.pc = "failed")
  /\ broken => broken'

LEMMA ChunkEndData ==
  ASSUME IInv, PartsInv, DataInv, NEW d \in Clients, NEW i \in DOMAIN dl[d].work, InChunk(d, i),
         NEW w, NEW e, NEW f, NEW p, ChunkEnd(d, i, w, e, f, p)
  PROVE  DataInv'
<1> USE DEF ChunkEnd
<1>1. PICK q \in AnyPart : q = Part(d, i)
  BY ChunkTypes
<1>2. PICK g \in Nat : g = dl[d].work[i].got
  BY ChunkFacts
<1>3. /\ q.n \in PartNumbers /\ Recorded(q.n)
      /\ q.completed \in Nat /\ q.size \in Nat /\ q.offset \in Nat
      /\ q.completed <= q.size /\ g <= q.size - q.completed
      /\ Prefix(q.n) => Covered(q, q.completed + g)
      /\ ~Short(d, i) => q.completed + g = q.size
  <2>1. /\ q.n \in PartNumbers /\ Recorded(q.n)
        /\ q.completed \in Nat /\ q.size \in Nat /\ q.offset \in Nat
        /\ q.completed <= q.size /\ g <= q.size - q.completed
        /\ Prefix(q.n) => Covered(q, q.completed + g)
        /\ Remaining(d, i) = q.size - q.completed
    BY <1>1, <1>2, ChunkFacts
  <2>2. ~Short(d, i) => g >= q.size - q.completed
    BY <1>2, <2>1 DEF Short
  <2> QED
    BY <2>1, <2>2
<1>4. Kept(d, i) = [q EXCEPT !.completed = @ + g] /\ Kept(d, i) \in AnyPart
  BY <1>1, <1>2, KeptType DEF Kept
<1>5. /\ p \in AnyPart /\ p.n = q.n /\ p.offset = q.offset /\ p.size = q.size
      /\ p.completed \in q.completed .. q.completed + g
      /\ p = Kept(d, i) => p.completed = q.completed + g
  BY <1>1, <1>3, <1>4 DEF AnyPart
<1>6. p.completed \in Nat /\ p.completed <= p.size
  BY <1>3, <1>5
<1>7. Prefix(q.n) => Covered(p, p.completed)
  <2> SUFFICES ASSUME Prefix(q.n) PROVE Covered(p, p.completed)
    OBVIOUS
  <2>1. Covered(q, p.completed)
    BY <1>3, <1>5, CoveredLess
  <2> QED
    BY <1>5, <2>1 DEF Covered, Accounted
<1>8. data \in Seq(BOOLEAN) /\ data' \in Seq(BOOLEAN) /\ DataGrows
  BY ChunkTypes DEF DataGrows, Accounted
<1>9. partFile'[q.n] = f
  BY <1>1, <1>3, Types
<1>10. \A n \in PartNumbers : Recorded(n)' => Recorded(n)
  <2>1. \A n \in PartNumbers : n # q.n => partFile'[n] = partFile[n]
    BY <1>1, Types
  <2> QED
    BY <1>3, <2>1 DEF Recorded
<1>11. Prefix(q.n)' => Prefix(q.n)
  <2>1. \A x \in 0 .. q.n : x \in PartNumbers
    BY <1>3, Numbers
  <2> QED
    BY <1>10, <2>1 DEF Prefix
<1>12. AtWork(p, w, e)'
  <2>1. w.pc # "failed" => Recorded(p.n)'
    BY <1>1, <1>3, <1>5, <1>9, PartIsNoMark DEF Recorded
  <2>2. w.pc = "recv" => w.got <= p.size - p.completed
    BY <1>3, <1>5, <1>6
  <2>3. w.pc = "done" => p.completed = p.size
    BY <1>3, <1>5
  <2>4. Prefix(p.n)' => Covered(p, p.completed + w.got)'
    <3>1. p.completed + w.got = p.completed
      BY <1>6
    <3> QED
      BY <1>5, <1>7, <1>11, <3>1 DEF Covered, Accounted
  <2> QED
    BY <2>1, <2>2, <2>3, <2>4 DEF AtWork
<1>13. Prefix(p.n)' /\ f = p => Covered(p, p.completed)'
  BY <1>5, <1>7, <1>11 DEF Covered, Accounted
<1>14. ChunkChange(d, i, p, w, e, f)
  BY <1>1, <1>5, <1>6, <1>8 DEF ChunkChange
<1> QED
  BY <1>5, <1>12, <1>13, <1>14, ChunkData


LEMMA EndKeepingData ==
  ASSUME IInv, PartsInv, DataInv, NEW d \in Clients, NEW i \in DOMAIN dl[d].work, InChunk(d, i),
         NEW w \in AnyWork, NEW e \in {None, "err", "canceled"}, EndKeeping(d, i, w, e),
         w.got = 0, w.pc = "done" => ~Short(d, i), w.pc = "failed" => e # None
  PROVE  DataInv'
<1>1. /\ partFile' = [partFile EXCEPT ![Part(d, i).n] = Kept(d, i)]
      /\ dl' = [dl EXCEPT ![d].parts[i] = Kept(d, i), ![d].work[i] = w,
                          ![d].err = IF @ = None /\ w.pc = "failed" THEN e ELSE @]
      /\ UNCHANGED <<data, blob, manager, call, faults, broken, lost>>
  BY DEF EndKeeping
<1>2. /\ dl[d] \in Download /\ dl[d].phase = "fetch"
      /\ dl[d].parts \in Seq(AnyPart) /\ dl[d].work \in Seq(AnyWork)
  BY ChunkTypes
<1>3. PICK k : k = Kept(d, i)
  OBVIOUS
<1>4. PICK x : x = IF dl[d].err = None /\ w.pc = "failed" THEN e ELSE dl[d].err
  OBVIOUS
<1>5. /\ dl'[d].phase = "fetch" /\ dl'[d].total = dl[d].total /\ dl'[d].at = dl[d].at
      /\ dl'[d].parts = [dl[d].parts EXCEPT ![i] = k]
      /\ dl'[d].work = [dl[d].work EXCEPT ![i] = w] /\ dl'[d].err = x
      /\ \A y \in Clients \ {d} : dl'[y] = dl[y]
  BY <1>1, <1>2, <1>3, <1>4, Types DEF Download
<1>6. (w.pc = "failed" => x # None) /\ (dl[d].err # None => x # None)
  BY <1>4
<1>7. w.pc = "done" => ~Short(d, i) /\ k = Kept(d, i)
  BY <1>3
<1>8. partFile' = [partFile EXCEPT ![Part(d, i).n] = k] /\ (k = Part(d, i) \/ k = Kept(d, i))
  BY <1>1, <1>3
<1>9. ChunkEnd(d, i, w, x, k, k)
  BY <1>1, <1>5, <1>6, <1>7, <1>8 DEF ChunkEnd
<1> QED
  BY <1>9, ChunkEndData

LEMMA EndedIs ==
  /\ \A w \in AnyWork : /\ Counted(w).got = 0 /\ Counted(w).pc \in {w.pc, "failed"}
                        /\ Stalled(w).got = 0 /\ Stalled(w).pc = w.pc
  /\ \A how \in {"done", "failed"} : Ended(how).got = 0 /\ Ended(how).pc = how
<1>1. \A how \in {"done", "failed"} : Ended(how).got = 0 /\ Ended(how).pc = how
  BY DEF Ended
<1>2. ASSUME NEW w \in AnyWork
      PROVE  /\ [w EXCEPT !.got = 0, !.try = @ + 1].got = 0
             /\ [w EXCEPT !.got = 0, !.try = @ + 1].pc = w.pc
             /\ Stalled(w).got = 0 /\ Stalled(w).pc = w.pc
  BY DEF AnyWork, Stalled
<1> QED
  BY <1>1, <1>2 DEF Counted

LEMMA ChunkEndsData ==
  ASSUME IInv, PartsInv, DataInv, NEW d \in Clients, NEW i \in DOMAIN dl[d].work,
         ChunkDone(d, i) \/ ChunkCut(d, i) \/ ChunkStalled(d, i) \/ ChunkCanceled(d, i)
  PROVE  DataInv'
<1>0. InChunk(d, i)
  BY DEF ChunkDone, ChunkCut, ChunkStalled, ChunkCanceled
<1>1. dl[d].work[i] \in AnyWork /\ dl[d].work[i].pc = "recv"
  BY <1>0, ChunkTypes DEF InChunk
<1>2. None # "err" /\ None # "canceled"
  BY DownloadAssumption
<1>3. CASE ChunkDone(d, i)
  <2>1. ~Short(d, i) /\ EndKeeping(d, i, Ended("done"), None)
    BY <1>3 DEF ChunkDone
  <2>2. Ended("done") \in AnyWork /\ Ended("done").got = 0 /\ Ended("done").pc = "done"
    BY WorkTypes, EndedIs
  <2> QED
    BY <1>0, <2>1, <2>2, EndKeepingData
<1>4. CASE ChunkCut(d, i)
  <2>1. EndKeeping(d, i, Counted(dl[d].work[i]), "err")
    BY <1>4 DEF ChunkCut
  <2>2. PICK w \in AnyWork : w = Counted(dl[d].work[i])
    BY <1>1, WorkTypes
  <2>3. w.got = 0 /\ w.pc # "done"
    BY <1>1, <2>2, EndedIs
  <2> QED
    BY <1>0, <1>2, <2>1, <2>2, <2>3, EndKeepingData
<1>5. CASE ChunkStalled(d, i)
  <2>1. EndKeeping(d, i, Stalled(dl[d].work[i]), None)
    BY <1>5 DEF ChunkStalled
  <2>2. PICK w \in AnyWork : w = Stalled(dl[d].work[i])
    BY <1>1, WorkTypes
  <2>3. w.got = 0 /\ w.pc = "recv"
    BY <1>1, <2>2, EndedIs
  <2> QED
    BY <1>0, <2>1, <2>2, <2>3, EndKeepingData
<1>6. CASE ChunkCanceled(d, i)
  <2>1. EndKeeping(d, i, Ended("failed"), "canceled")
    BY <1>6 DEF ChunkCanceled
  <2>2. Ended("failed") \in AnyWork /\ Ended("failed").got = 0 /\ Ended("failed").pc = "failed"
    BY WorkTypes, EndedIs
  <2> QED
    BY <1>0, <1>2, <2>1, <2>2, EndKeepingData
<1> QED
  BY <1>3, <1>4, <1>5, <1>6

\* What came is not counted, and the part and its file stay as they are.
LEMMA ChunkInVainData ==
  ASSUME IInv, PartsInv, DataInv, NEW d \in Clients, NEW i \in DOMAIN dl[d].work,
         ChunkError(d, i) \/ ChunkNoSpace(d, i)
  PROVE  DataInv'
<1>0. InChunk(d, i) /\ UNCHANGED <<partFile, data, blob, call, broken, lost>>
  BY DEF ChunkError, ChunkNoSpace, disk
<1>1. dl[d].work[i] \in AnyWork /\ dl[d].work[i].pc = "recv"
      /\ dl[d] \in Download /\ dl[d].phase = "fetch" /\ i \in DOMAIN dl[d].parts
      /\ dl[d].parts \in Seq(AnyPart) /\ dl[d].work \in Seq(AnyWork)
  BY <1>0, ChunkTypes DEF InChunk
<1>2. None # "err"
  BY DownloadAssumption
<1>3. PICK w, x :
        /\ dl'[d].work = [dl[d].work EXCEPT ![i] = w] /\ dl'[d].err = x
        /\ dl'[d].phase = "fetch" /\ dl'[d].total = dl[d].total /\ dl'[d].at = dl[d].at
        /\ dl'[d].parts = dl[d].parts
        /\ \A y \in Clients \ {d} : dl'[y] = dl[y]
        /\ w.got = 0 /\ w.pc # "done" /\ (w.pc = "failed" => x # None)
        /\ dl[d].err # None => x # None
  <2>1. CASE ChunkError(d, i)
    <3>1. PICK w \in AnyWork : w = Counted(dl[d].work[i])
      BY <1>1, WorkTypes
    <3>2. PICK x : x = IF dl[d].err = None /\ w.pc = "failed" THEN "err" ELSE dl[d].err
      OBVIOUS
    <3>3. dl' = [dl EXCEPT ![d].work[i] = w, ![d].completed = RolledBack(d, i), ![d].err = x]
      BY <2>1, <3>1, <3>2 DEF ChunkError
    <3>4. /\ dl'[d].work = [dl[d].work EXCEPT ![i] = w] /\ dl'[d].err = x
          /\ dl'[d].phase = "fetch" /\ dl'[d].total = dl[d].total /\ dl'[d].at = dl[d].at
          /\ dl'[d].parts = dl[d].parts
          /\ \A y \in Clients \ {d} : dl'[y] = dl[y]
      BY <1>1, <3>3, Types DEF Download
    <3>5. w.got = 0 /\ w.pc # "done"
      BY <1>1, <3>1, EndedIs
    <3> QED
      BY <1>2, <3>2, <3>4, <3>5
  <2>2. CASE ChunkNoSpace(d, i)
    <3>1. PICK w \in AnyWork : w = Ended("failed")
      BY WorkTypes
    <3>2. PICK x : x = IF dl[d].err = None THEN "err" ELSE dl[d].err
      OBVIOUS
    <3>3. dl' = [dl EXCEPT ![d].work[i] = w, ![d].completed = 1 + RolledBack(d, i), ![d].err = x]
      BY <2>2, <3>1, <3>2 DEF ChunkNoSpace
    <3>4. /\ dl'[d].work = [dl[d].work EXCEPT ![i] = w] /\ dl'[d].err = x
          /\ dl'[d].phase = "fetch" /\ dl'[d].total = dl[d].total /\ dl'[d].at = dl[d].at
          /\ dl'[d].parts = dl[d].parts
          /\ \A y \in Clients \ {d} : dl'[y] = dl[y]
      BY <1>1, <3>3, Types DEF Download
    <3>5. w.got = 0 /\ w.pc # "done"
      BY <3>1, EndedIs
    <3> QED
      BY <1>2, <3>2, <3>4, <3>5
  <2> QED
    BY <2>1, <2>2
<1>4. PICK p : p = Part(d, i)
  OBVIOUS
<1>5. /\ dl'[d].phase = "fetch" /\ dl'[d].total = dl[d].total /\ dl'[d].at = dl[d].at
      /\ dl'[d].parts = [dl[d].parts EXCEPT ![i] = p]
      /\ dl'[d].work = [dl[d].work EXCEPT ![i] = w] /\ dl'[d].err = x
      /\ \A y \in Clients \ {d} : dl'[y] = dl[y]
  <2>1. dl[d].parts = [dl[d].parts EXCEPT ![i] = p]
    BY <1>1, <1>4 DEF Part
  <2> QED
    BY <1>3, <2>1
<1>6. PICK f : f = partFile[Part(d, i).n]
  OBVIOUS
<1>7. partFile' = [partFile EXCEPT ![Part(d, i).n] = f]
  BY <1>0, <1>6, Types
<1>8. ChunkEnd(d, i, w, x, f, p)
  BY <1>0, <1>3, <1>4, <1>5, <1>6, <1>7 DEF ChunkEnd
<1> QED
  BY <1>0, <1>8, ChunkEndData

LEMMA ChunkPartNoSpaceData ==
  ASSUME IInv, PartsInv, DataInv, NEW d \in Clients, NEW i \in DOMAIN dl[d].work,
         ChunkPartNoSpace(d, i)
  PROVE  DataInv'
<1>0. /\ InChunk(d, i) /\ UNCHANGED <<data, blob, call, lost>> /\ broken'
      /\ partFile' = [partFile EXCEPT ![Part(d, i).n] = Torn]
      /\ dl' = [dl EXCEPT ![d].parts[i] = Kept(d, i), ![d].work[i] = Ended("failed"),
                          ![d].err = IF @ = None THEN "err" ELSE @]
  BY DEF ChunkPartNoSpace
<1>1. dl[d] \in Download /\ dl[d].phase = "fetch" /\ i \in DOMAIN dl[d].parts
      /\ dl[d].parts \in Seq(AnyPart) /\ dl[d].work \in Seq(AnyWork)
  BY <1>0, ChunkTypes
<1>2. None # "err"
  BY DownloadAssumption
<1>3. PICK w \in AnyWork : w = Ended("failed")
  BY WorkTypes
<1>4. w.got = 0 /\ w.pc = "failed"
  BY <1>3, EndedIs
<1>5. PICK p : p = Kept(d, i)
  OBVIOUS
<1>6. PICK x : x = IF dl[d].err = None THEN "err" ELSE dl[d].err
  OBVIOUS
<1>7. /\ dl'[d].phase = "fetch" /\ dl'[d].total = dl[d].total /\ dl'[d].at = dl[d].at
      /\ dl'[d].parts = [dl[d].parts EXCEPT ![i] = p]
      /\ dl'[d].work = [dl[d].work EXCEPT ![i] = w] /\ dl'[d].err = x
      /\ \A y \in Clients \ {d} : dl'[y] = dl[y]
  BY <1>0, <1>1, <1>3, <1>5, <1>6, Types DEF Download
<1>8. PICK f : f = Torn
  OBVIOUS
<1>9. ChunkEnd(d, i, w, x, f, p)
  BY <1>0, <1>2, <1>4, <1>5, <1>6, <1>7, <1>8 DEF ChunkEnd
<1> QED
  BY <1>0, <1>9, ChunkEndData

LEMMA ChunkStepData ==
  ASSUME IInv, PartsInv, DataInv, NEW d \in Clients, NEW i \in DOMAIN dl[d].work, Chunk(d, i)
  PROVE  DataInv'
BY ChunkReceiveData, ChunkEndsData, ChunkInVainData, ChunkPartNoSpaceData DEF Chunk


-----------------------------------------------------------------------------
(* The invariant, and what follows from it. *)

LEMMA DataStep == IInv /\ PartsInv /\ DataInv /\ [Next]_vars => DataInv'
<1> SUFFICES ASSUME IInv, PartsInv, DataInv, [Next]_vars PROVE DataInv'
  OBVIOUS
<1>1. ASSUME NEW c \in Clients, Client(c) \/ WaitCtxDone(c) PROVE DataInv'
  <2>1. CASE Panic(c)
    BY <2>1, RestartData DEF Panic
  <2>2. CASE ~Panic(c)
    BY <1>1, <2>2, ClientData
  <2> QED
    BY <2>1, <2>2
<1>2. ASSUME NEW c \in Clients, Prepare(c) PROVE DataInv'
  BY <1>2, ReadPartData, ReadDoneData, HeadOkData, ReadOrHeadFailsData, NewPartData,
     NewPartFailsData, PrepareDoneData DEF Prepare
<1>3. ASSUME NEW d \in Clients, Run(d) PROVE DataInv'
  BY <1>3, RunData
<1>4. ASSUME NEW d \in Clients, NEW i \in DOMAIN dl[d].work, Chunk(d, i) PROVE DataInv'
  BY <1>4, ChunkStepData
<1>5. CASE Crash
  BY <1>5, RestartData DEF Crash
<1>6. CASE UNCHANGED vars
  <2>1. UNCHANGED <<disk, broken, lost>> /\ UNCHANGED <<call, dl>>
    BY <1>6 DEF vars
  <2>2. NoneStarts /\ \A x \in Clients : SameView(x)
    BY <2>1 DEF NoneStarts, SameView
  <2> QED
    BY <2>1, <2>2, ViewsStay
<1> QED
  BY <1>1, <1>2, <1>3, <1>4, <1>5, <1>6 DEF Next, Progress, Quiet

LEMMA DataAlways == Spec => [](IInv /\ PartsInv /\ DataInv)
<1>1. Init => PartsInv /\ DataInv
  BY PartsInit, DataInit
<1>2. IInv /\ PartsInv /\ DataInv /\ [Next]_vars => PartsInv' /\ DataInv'
  BY PartsStep, DataStep
<1> QED
  BY <1>1, <1>2, Invariant, PTL DEF Spec

\* A blob appears under its final name only with every unit written, but for
\* those whose data a prune took while the part file that has them on record
\* stayed, and, unless its part files had been damaged, with a length the registry
\* gave: whatever is resumed, retried or crashes (RunRename of run).
THEOREM BlobWholeAlways == Spec => []BlobWhole
<1>1. DataInv => BlobWhole
  BY DEF DataInv
<1> QED
  BY <1>1, DataAlways, PTL

\* The files that describe a part, when nothing is damaged, follow those of all
\* of the parts before it; or the download is past them, removing.
LEMMA TruthOfFile ==
  ASSUME IInv, PartsInv, DataInv, ~broken, NEW n \in PartFiles
  PROVE  /\ partFile[n] \in AnyPart /\ partFile[n].completed <= partFile[n].size
         /\ Covered(partFile[n], partFile[n].completed)
<1>0. n \in PartNumbers /\ n \in Nat
  BY Numbers DEF PartFiles
<1>1. CASE ~SomePartsOnly
  <2>1. Prefix(n)
    BY <1>1 DEF DataInv, FilesWhole
  <2>2. Recorded(n)
    BY <1>0, <2>1, PrefixDown
  <2> QED
    BY <1>0, <2>1, <2>2, FileTypes DEF DataInv, FilesTrue, FilesSound
<1>2. CASE SomePartsOnly
  <2>1. PICK d \in Clients : Halfway(d)
    BY <1>2, SomePartsOnlyHalfway
  <2>2. Tied(d) /\ Phase(d) \in Active /\ dl[d] \in Download /\ dl[d].parts \in Seq(AnyPart)
    BY <2>1, HalfwayIsActive, Types DEF DataInv, Download
  <2>3. CASE Phase(d) = "split"
    <3>1. n < Len(dl[d].parts)
      <4>1. SplitInOrder(d) /\ partFile[n] # None
        BY DEF PartsInv, Tracked, PartFiles
      <4>2. Len(dl[d].parts) \in Nat
        BY <2>2
      <4> QED
        BY <1>0, <2>3, <4>1, <4>2 DEF SplitInOrder
    <3>2. ASSUME NEW x \in 0 .. n PROVE Recorded(x)
      <4>0. x \in Nat /\ x < Len(dl[d].parts) /\ Len(dl[d].parts) \in Nat
        BY <1>0, <2>2, <3>1
      <4>1. PICK j \in 1 .. Len(dl[d].parts) : j - 1 = x
        BY <4>0, Position
      <4>2. j \in DOMAIN dl[d].parts
        BY <2>2, <4>1
      <4>3. Part(d, j).n = x
        BY <2>3, <4>1, <4>2 DEF PartsInv, Tracked, SplitInOrder
      <4> QED
        BY <2>2, <2>3, <4>2, <4>3 DEF Tied, OnFile, Filling
    <3>3. Prefix(n) /\ Recorded(n)
      BY <1>0, <3>2 DEF Prefix
    <3> QED
      BY <1>0, <3>3, FileTypes DEF DataInv, FilesTrue, FilesSound
  <2>4. CASE Phase(d) = "remove"
    <3>1. Gapless(d)
      BY <2>2 DEF Tied, Laid
    <3>2. /\ n >= dl[d].at /\ n < Len(dl[d].parts)
          /\ Len(dl[d].parts) \in Nat /\ dl[d].at \in Nat
      <4>1. partFile[n] # None
        BY DEF PartFiles
      <4>2. Len(dl[d].parts) \in Nat /\ dl[d].at \in Nat
        BY <2>2 DEF Download
      <4>3. n < dl[d].at => partFile[n] = None
        BY <1>0, <2>2, <2>4, <3>1 DEF Tied, Removing
      <4>4. n >= Len(dl[d].parts) => partFile[n] = None
        BY <1>0, <2>2, <2>4, <3>1 DEF Tied, Sized
      <4> QED
        BY <1>0, <4>1, <4>2, <4>3, <4>4
    <3>3. /\ Len(data) = dl[d].total /\ \A j \in DOMAIN data : Accounted(j)
          /\ Recorded(n) /\ EndOf(partFile[n]) <= dl[d].total
      BY <1>0, <2>2, <2>4, <3>1, <3>2 DEF Tied, Removing
    <3>4. data # None /\ data \in Seq(BOOLEAN)
      BY <2>4 DEF IInv, DataThere, Shape, Phase
    <3>5. PICK p \in AnyPart : p = partFile[n]
      BY <1>0, <3>3, FileTypes
    <3>6. p.completed <= p.size /\ p.completed \in Nat /\ p.size \in Nat /\ p.offset \in Nat
      BY <1>0, <3>3, <3>5 DEF DataInv, FilesSound, AnyPart
    <3>7. p.offset + p.completed <= Len(data) /\ Len(data) \in Nat
      BY <3>3, <3>4, <3>5, <3>6 DEF EndOf
    <3>8. \A j \in p.offset + 1 .. p.offset + p.completed : j \in DOMAIN data
      BY <3>4, <3>6, <3>7
    <3>9. Covered(p, p.completed)
      BY <3>3, <3>8 DEF Covered
    <3> QED
      BY <3>5, <3>6, <3>9
  <2> QED
    BY <2>1, <2>3, <2>4 DEF Halfway, Unsplit
<1> QED
  BY <1>1, <1>2

\* Resuming is sound for any number of parts, units and downloads: what a part
\* file says is completed (writePart, after each attempt of downloadChunk) is
\* in the data file, at its place, unless a prune took the data file and left it.
THEOREM PartFilesTruthfulAlways == Spec => []PartFilesTruthful
<1>1. IInv /\ PartsInv /\ DataInv => PartFilesTruthful
  <2> SUFFICES ASSUME IInv, PartsInv, DataInv, ~broken, NEW n \in PartFiles
               PROVE  /\ partFile[n].completed <= partFile[n].size
                      /\ \A i \in Claimed(n) : Accounted(i)
    BY DEF PartFilesTruthful
  <2> QED
    BY TruthOfFile DEF Claimed, Covered
<1> QED
  BY <1>1, DataAlways, PTL

=============================================================================
