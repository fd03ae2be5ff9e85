------------------------- MODULE ModelStore_proofs -------------------------
(***************************************************************************)
(* Proofs that a listed model has all its layers, verified, up to the two  *)
(* exceptions that ModelStore records (contested, unchecked), that a       *)
(* finished pull that ran alone leaves its model whole, and that tidy      *)
(* histories leave no blob unlisted: for any number of names, digests,     *)
(* requests and faults.                                                    *)
(***************************************************************************)
EXTENDS ModelStore, TLAPS

JobRecord ==
  [pc : JobPc, op : {"none", "pull", "delete", "copy", "create"},
   name : Names \cup {None}, from : Names \cup {None},
   layers : (SUBSET Digests) \cup {Corrupt}, todo : SUBSET Digests,
   get : Digests \cup {None}, verify : SUBSET Digests, old : SUBSET Digests,
   del : SUBSET Digests, scan : SUBSET Names, then : {"done", "layer"}]

\* The fields of a request fit together.
Sound(r) ==
  /\ r.pc \notin {"open", "copy"} => r.layers \in SUBSET Digests
  /\ r.todo \subseteq r.layers
  /\ r.pc # "done" => r.get \in r.todo \cup {None}
  /\ r.verify \subseteq r.layers \ r.todo
  /\ r.pc \notin {"fetch", "done"} => r.get = None
  /\ r.pc \notin {"fetch", "base"} => r.todo = {}
  /\ r.pc \notin {"fetch", "verify"} => r.verify = {}
  /\ r.pc \in {"manifest", "unlink"} => r.name \in Names
  /\ r.pc = "from" => r.from \in Names
  /\ r.pc = "mismatch" => r.scan = {}
  /\ r.then = "layer" => r.pc \in {"glob", "scan"} /\ r.del \cap r.layers = {}

\* The digests that a request relies on by itself (CountsOn without what a copy
\* will find in its source).
Held(r) ==
  IF r.pc \in {"fetch", "verify", "write", "writing", "base", "layer", "config"}
  THEN r.layers \ r.todo
  ELSE IF r.pc \in {"glob", "scan"} /\ r.then = "layer" THEN r.layers
  ELSE IF r.pc \in {"open", "copy"} /\ r.from = None /\ r.layers \notin {Absent, Corrupt}
  THEN r.layers ELSE {}

\* The blob is there and good, or one of the exceptions.
Backed(d) == blobs[d] = "good" \/ d \in contested \cup unchecked

\* Some manifest lists it.
InManifest(d) == \E n \in Names : Readable(n) /\ d \in manifests[n]

\* A manifest that a removal has read does not list what it still removes; nor
\* does any list the digest of a bad file that is to be removed.
Swept(r) ==
  r.pc \in {"scan", "mismatch"} =>
    \A d \in r.del, n \in Names \ r.scan :
      Readable(n) /\ d \in manifests[n] => d \in contested \cup unchecked

(* The parts of the inductive invariant. *)

Types == /\ manifests \in [Names -> (SUBSET Digests) \cup {Absent, Corrupt}]
         /\ blobs \in [Digests -> {Absent, "good", "bad"}]
         /\ job \in [Jobs -> JobRecord]
         /\ contested \subseteq Digests
         /\ unchecked \subseteq Digests
         /\ alone \subseteq Jobs

\* Everything listed is backed.
Listed == \A n \in Names : Readable(n) => \A d \in manifests[n] : Backed(d)

\* So is everything that a request will list, once it has verified it.
Relied == \A j \in Jobs : \A d \in Held(job[j]) \ job[j].verify : Backed(d)

IInv == /\ Types
        /\ \A j \in Jobs : Sound(job[j])
        /\ Relied
        /\ \A j \in Jobs : Swept(job[j])
        /\ Listed
        /\ Contest \subseteq contested

\* What every step does to the history variables.
History == /\ contested' = contested \cup Contest'
           /\ unchecked \subseteq unchecked'
           /\ unchecked' \subseteq Digests
           /\ alone' \subseteq Jobs
-----------------------------------------------------------------------------
(* What the files and the requests have to do with each other. *)

LEMMA HeldCounted ==
  ASSUME IInv, NEW j \in Jobs
  PROVE  Held(job[j]) \ job[j].verify \subseteq CountsOn(j)
BY DEF Held, CountsOn, Copied

\* What one request holds, another one removes only as contested.
LEMMA HeldContested ==
  ASSUME IInv, NEW i \in Jobs, NEW j \in Jobs, i # j,
         NEW d \in Digests, d \in Removing(i), d \in CountsOn(j)
  PROVE  d \in contested
BY DEF IInv, Contest

LEMMA HistoryTypes ==
  ASSUME IInv, History
  PROVE  contested' \subseteq Digests /\ contested \subseteq contested' /\ Contest' \subseteq contested'
BY DEF IInv, Types, History, Contest

LEMMA HeldDigests ==
  ASSUME NEW r \in JobRecord, Sound(r)
  PROVE  Held(r) \subseteq Digests
<1>1. \/ r.layers \in SUBSET Digests
      \/ r.layers = Corrupt /\ r.pc \in {"open", "copy"}
  BY DEF Sound, JobRecord
<1>2. CASE r.pc \in {"open", "copy"}
  BY <1>1, <1>2 DEF Held
<1>3. CASE r.pc \notin {"open", "copy"}
  BY <1>1, <1>3 DEF Held
<1> QED
  BY <1>2, <1>3

\* A step whose requests keep what holds of them, that writes only manifests
\* whose layers are backed and not about to be removed, and takes no blob that is
\* relied upon.
LEMMA Carry ==
  ASSUME IInv, History,
         manifests' \in [Names -> (SUBSET Digests) \cup {Absent, Corrupt}],
         blobs' \in [Digests -> {Absent, "good", "bad"}],
         job' \in [Jobs -> JobRecord],
         \A i \in Jobs : \/ job'[i] = job[i]
                         \/ /\ Sound(job'[i])
                            /\ \A d \in Held(job'[i]) \ job'[i].verify : Backed(d)'
                            /\ Swept(job[i])',
         \A d \in Digests : Backed(d) =>
            \/ Backed(d)'
            \/ ~InManifest(d) /\ \A i \in Jobs : job'[i] = job[i] =>
                                                  d \notin Held(job[i]) \ job[i].verify,
         \A n \in Names :
            \/ manifests'[n] = manifests[n]
            \/ manifests'[n] \in {Absent, Corrupt}
            \/ \A d \in manifests'[n] :
                 /\ Backed(d)'
                 /\ \A i \in Jobs : job[i].pc \in {"scan", "mismatch"} /\ d \in job[i].del /\ job'[i] = job[i]
                                      => d \in contested
  PROVE  IInv'
<1>1. Types'
  BY HistoryTypes DEF Types, History
<1>2. (\A j \in Jobs : Sound(job[j]))'
  BY DEF IInv
<1>3. ASSUME NEW i \in Jobs, NEW d \in Held(job'[i]), d \notin job'[i].verify
      PROVE  Backed(d)'
  <2>1. CASE job'[i] = job[i]
    <3>1. Backed(d)
      BY <1>3, <2>1 DEF IInv, Relied
    <3>2. Sound(job[i]) /\ job[i] \in JobRecord
      BY DEF IInv, Types
    <3>3. Held(job[i]) \subseteq Digests
      BY <3>2, HeldDigests
    <3>4. d \in Digests /\ d \in Held(job[i]) \ job[i].verify
      BY <3>3, <1>3, <2>1
    <3>5. QED
      BY <3>1, <3>4, <2>1
  <2>2. CASE job'[i] # job[i]
    BY <1>3, <2>2
  <2>3. QED
    BY <2>1, <2>2
<1>4. Relied'
  BY <1>3 DEF Relied
<1>5. ASSUME NEW i \in Jobs PROVE Swept(job[i])'
  <2>1. CASE job'[i] = job[i]
    <3>1. SUFFICES ASSUME job[i].pc \in {"scan", "mismatch"}, NEW d \in job[i].del, NEW n \in Names \ job[i].scan,
                          Readable(n)', d \in manifests'[n]
                   PROVE  d \in contested' \cup unchecked'
      BY <2>1 DEF Swept
    <3>2. CASE manifests'[n] = manifests[n]
      <4>1. Readable(n)
        BY <3>1, <3>2 DEF Readable
      <4>2. d \in contested \cup unchecked
        BY <4>1, <3>1, <3>2 DEF IInv, Swept
      <4>3. QED
        BY <4>2, HistoryTypes DEF History
    <3>3. CASE \A e \in manifests'[n] :
                 \A k \in Jobs : job[k].pc \in {"scan", "mismatch"} /\ e \in job[k].del /\ job'[k] = job[k]
                                      => e \in contested
      BY <3>1, <3>3, <2>1, HistoryTypes
    <3>4. QED
      BY <3>1, <3>2, <3>3 DEF Readable
  <2>2. CASE job'[i] # job[i]
    BY <2>2
  <2>3. QED
    BY <2>1, <2>2
<1>6. Listed'
  <2>1. SUFFICES ASSUME NEW n \in Names, Readable(n)', NEW d \in manifests'[n]
                 PROVE  Backed(d)'
    BY DEF Listed
  <2>2. d \in Digests
    <3>1. manifests'[n] \notin {Absent, Corrupt}
      BY <2>1 DEF Readable
    <3>2. manifests'[n] \in SUBSET Digests
      BY <3>1
    <3>3. QED
      BY <3>2
  <2>3. CASE manifests'[n] = manifests[n]
    <3>1. InManifest(d) /\ Backed(d)
      BY <2>1, <2>3 DEF IInv, Listed, Readable, InManifest
    <3>2. QED
      BY <2>2, <3>1
  <2>4. CASE manifests'[n] # manifests[n]
    BY <2>1, <2>4 DEF Readable
  <2>5. QED
    BY <2>3, <2>4
<1> QED
  BY <1>1, <1>2, <1>4, <1>5, <1>6, HistoryTypes DEF IInv

\* A step of one request.
LEMMA OneActs ==
  ASSUME IInv, History, NEW j \in Jobs, NEW r \in JobRecord,
         job' = [job EXCEPT ![j] = r],
         manifests' \in [Names -> (SUBSET Digests) \cup {Absent, Corrupt}],
         blobs' \in [Digests -> {Absent, "good", "bad"}],
         Sound(r),
         \A d \in Held(r) \ r.verify : Backed(d)',
         r.pc \in {"scan", "mismatch"} => manifests' = manifests /\ Swept(r),
         \A d \in Digests : Backed(d) =>
            \/ Backed(d)'
            \/ ~InManifest(d) /\ \A i \in Jobs \ {j} : d \notin Held(job[i]) \ job[i].verify,
         \A n \in Names :
            \/ manifests'[n] = manifests[n]
            \/ manifests'[n] \in {Absent, Corrupt}
            \/ \A d \in manifests'[n] :
                 /\ Backed(d)'
                 /\ \A i \in Jobs \ {j} : job[i].pc \in {"scan", "mismatch"} /\ d \in job[i].del
                                            => d \in contested
  PROVE  IInv'
<1>1. job \in [Jobs -> JobRecord]
  BY DEF IInv, Types
<1>2. job' \in [Jobs -> JobRecord] /\ job'[j] = r /\ \A i \in Jobs \ {j} : job'[i] = job[i]
  BY <1>1
<1>3. \A d \in Held(job'[j]) \ job'[j].verify : Backed(d)'
  BY <1>2
<1>4. Swept(job[j])'
  BY <1>2, HistoryTypes DEF Swept, Readable, History
<1>5. \A i \in Jobs : \/ job'[i] = job[i]
                      \/ /\ Sound(job'[i])
                         /\ \A d \in Held(job'[i]) \ job'[i].verify : Backed(d)'
                         /\ Swept(job[i])'
  BY <1>2, <1>3, <1>4
<1>6. \A d \in Digests : Backed(d) =>
         \/ Backed(d)'
         \/ ~InManifest(d) /\ \A i \in Jobs : job'[i] = job[i] =>
                                                  d \notin Held(job[i]) \ job[i].verify
  <2>1. SUFFICES ASSUME NEW d \in Digests, Backed(d), ~Backed(d)'
                 PROVE  ~InManifest(d) /\ \A i \in Jobs : job'[i] = job[i] =>
                                                  d \notin Held(job[i]) \ job[i].verify
    OBVIOUS
  <2>2. ~InManifest(d) /\ \A i \in Jobs \ {j} : d \notin Held(job[i]) \ job[i].verify
    BY <2>1
  <2>3. job'[j] = job[j] => d \notin Held(job[j]) \ job[j].verify
    BY <1>2, <2>1
  <2>4. QED
    BY <2>2, <2>3
<1>7. \A n \in Names :
         \/ manifests'[n] = manifests[n]
         \/ manifests'[n] \in {Absent, Corrupt}
         \/ \A d \in manifests'[n] :
              /\ Backed(d)'
              /\ \A i \in Jobs : job[i].pc \in {"scan", "mismatch"} /\ d \in job[i].del /\ job'[i] = job[i]
                                   => d \in contested
  BY <1>2
<1> QED
  BY <1>2, <1>5, <1>6, <1>7, Carry

\* Blobs that stay as they are stay backed.
LEMMA BackedStays ==
  ASSUME IInv, History, NEW d, blobs'[d] = blobs[d] \/ blobs'[d] = "good"
  PROVE  Backed(d) => Backed(d)'
BY HistoryTypes DEF Backed, History

\* A step of one request that leaves the files alone.
LEMMA OneMoves ==
  ASSUME IInv, History, NEW j \in Jobs, NEW r \in JobRecord,
         job' = [job EXCEPT ![j] = r], UNCHANGED files,
         Sound(r), Swept(r),
         \A d \in Held(r) \ r.verify : Backed(d) \/ d \in unchecked'
  PROVE  IInv'
<1>1. job \in [Jobs -> JobRecord]
  BY DEF IInv, Types
<1>2. job' \in [Jobs -> JobRecord] /\ job'[j] = r /\ \A i \in Jobs \ {j} : job'[i] = job[i]
  BY <1>1
<1>3. manifests' = manifests /\ blobs' = blobs
  BY DEF files
<1>4. \A d : Backed(d) => Backed(d)'
  BY <1>3, BackedStays
<1>5. \A d \in Held(job'[j]) \ job'[j].verify : Backed(d)'
  BY <1>2, <1>4 DEF Backed
<1>6. Swept(job[j])'
  BY <1>2, <1>3, HistoryTypes DEF Swept, Readable, History
<1>7. \A i \in Jobs : \/ job'[i] = job[i]
                      \/ /\ Sound(job'[i])
                         /\ \A d \in Held(job'[i]) \ job'[i].verify : Backed(d)'
                         /\ Swept(job[i])'
  BY <1>2, <1>5, <1>6
<1>8. manifests' \in [Names -> (SUBSET Digests) \cup {Absent, Corrupt}]
      /\ blobs' \in [Digests -> {Absent, "good", "bad"}]
  BY <1>3 DEF IInv, Types
<1> QED
  BY <1>2, <1>3, <1>4, <1>7, <1>8, Carry

LEMMA GlobKeeps ==
  ASSUME IInv, History, NEW j \in Jobs, Glob(j)
  PROVE  IInv'
<1>1. job \in [Jobs -> JobRecord] /\ job[j] \in JobRecord /\ Sound(job[j])
  BY DEF IInv, Types
<1> DEFINE r == [job[j] EXCEPT !.pc = "scan", !.scan = {n \in Names : manifests[n] # Absent}]
<1>2. job' = [job EXCEPT ![j] = r] /\ UNCHANGED files
  BY DEF Glob, Goes
<1>3. r \in JobRecord /\ Sound(r)
  BY <1>1 DEF Glob, Goes, Sound, JobRecord, JobPc
<1>4. \A d \in Held(r) \ r.verify : Backed(d) \/ d \in unchecked'
  BY <1>1 DEF Glob, Goes, IInv, Relied, Held, Sound, JobRecord
<1>5. Swept(r)
  BY DEF Swept, Readable
<1> HIDE DEF r
<1> QED
  BY <1>2, <1>3, <1>4, <1>5, OneMoves

LEMMA PullManifestKeeps ==
  ASSUME IInv, History, NEW j \in Jobs, NEW L \in SUBSET Digests, job[j].pc = "manifest", job' = [job EXCEPT ![j] = [@ EXCEPT !.pc = "fetch", !.layers = L, !.todo = L]], UNCHANGED files
  PROVE  IInv'
<1>1. job \in [Jobs -> JobRecord] /\ job[j] \in JobRecord /\ Sound(job[j])
  BY DEF IInv, Types
<1> DEFINE r == [job[j] EXCEPT !.pc = "fetch", !.layers = L, !.todo = L]
<1>2. job' = [job EXCEPT ![j] = r] /\ UNCHANGED files
  BY DEF Held
<1>3. r \in JobRecord /\ Sound(r)
  BY <1>1 DEF Held, Sound, JobRecord, JobPc
<1>4. \A d \in Held(r) \ r.verify : Backed(d) \/ d \in unchecked'
  BY <1>1 DEF Held, IInv, Relied, Held, Sound, JobRecord
<1>5. Swept(r)
  BY DEF Swept, Held
<1> HIDE DEF r
<1> QED
  BY <1>2, <1>3, <1>4, <1>5, OneMoves

LEMMA PullHitKeeps ==
  ASSUME IInv, History, NEW j \in Jobs, NEW d \in Digests, PullHit(j, d)
  PROVE  IInv'
<1>1. job \in [Jobs -> JobRecord] /\ job[j] \in JobRecord /\ Sound(job[j])
  BY DEF IInv, Types
<1> DEFINE r == [job[j] EXCEPT !.todo = job[j].todo \ {d}, !.old = job[j].old \ {d}]
<1>2. job' = [job EXCEPT ![j] = r] /\ UNCHANGED files
  BY DEF PullHit, Goes
<1>3. r \in JobRecord /\ Sound(r)
  <2>1. r \in JobRecord
    BY <1>1 DEF JobRecord
  <2>2. /\ r.pc = job[j].pc /\ r.layers = job[j].layers /\ r.get = job[j].get
        /\ r.todo = job[j].todo \ {d} /\ r.verify = job[j].verify /\ r.then = job[j].then
    BY <1>1 DEF JobRecord
  <2>3. job[j].pc = "fetch" /\ job[j].get = None
    BY DEF PullHit
  <2> HIDE DEF r
  <2>4. Sound(r)
    BY <1>1, <2>2, <2>3 DEF Sound
  <2>5. QED
    BY <2>1, <2>4
<1>4. \A k \in Held(r) \ r.verify : Backed(k) \/ k \in unchecked'
  <2>1. Backed(d) \/ d \in unchecked'
    BY DEF PullHit, Cached, IInv, Types, Backed
  <2>2. Held(r) \subseteq Held(job[j]) \cup {d} /\ r.verify = job[j].verify
    BY <1>1 DEF PullHit, Held, JobRecord
  <2>3. QED
    BY <2>1, <2>2 DEF IInv, Relied
<1>5. Swept(r)
  BY DEF Swept, PullHit, Goes
<1> HIDE DEF r
<1> QED
  BY <1>2, <1>3, <1>4, <1>5, OneMoves

LEMMA PullMissKeeps ==
  ASSUME IInv, History, NEW j \in Jobs, NEW d \in Digests, PullMiss(j, d)
  PROVE  IInv'
<1>1. job \in [Jobs -> JobRecord] /\ job[j] \in JobRecord /\ Sound(job[j])
  BY DEF IInv, Types
<1> DEFINE r == [job[j] EXCEPT !.get = d]
<1>2. job' = [job EXCEPT ![j] = r] /\ UNCHANGED files
  BY DEF PullMiss, Goes
<1>3. r \in JobRecord /\ Sound(r)
  BY <1>1 DEF PullMiss, Goes, Sound, JobRecord, JobPc
<1>4. \A k \in Held(r) \ r.verify : Backed(k) \/ k \in unchecked'
  BY <1>1 DEF PullMiss, Goes, IInv, Relied, Held, Sound, JobRecord
<1>5. Swept(r)
  BY DEF Swept, PullMiss, Goes
<1> HIDE DEF r
<1> QED
  BY <1>2, <1>3, <1>4, <1>5, OneMoves

LEMMA PullFetchedKeeps ==
  ASSUME IInv, History, NEW j \in Jobs, PullFetched(j)
  PROVE  IInv'
<1>1. job \in [Jobs -> JobRecord] /\ job[j] \in JobRecord /\ Sound(job[j])
  BY DEF IInv, Types
<1> DEFINE r == [job[j] EXCEPT !.pc = "verify"]
<1>2. job' = [job EXCEPT ![j] = r] /\ UNCHANGED files
  BY DEF PullFetched, Goes
<1>3. r \in JobRecord /\ Sound(r)
  BY <1>1 DEF PullFetched, Goes, Sound, JobRecord, JobPc
<1>4. \A d \in Held(r) \ r.verify : Backed(d) \/ d \in unchecked'
  BY <1>1 DEF PullFetched, Goes, IInv, Relied, Held, Sound, JobRecord
<1>5. Swept(r)
  BY DEF Swept, PullFetched, Goes
<1> HIDE DEF r
<1> QED
  BY <1>2, <1>3, <1>4, <1>5, OneMoves

LEMMA PullVerifyKeeps ==
  ASSUME IInv, History, NEW j \in Jobs, NEW d \in Digests, PullVerify(j, d)
  PROVE  IInv'
<1>1. job \in [Jobs -> JobRecord] /\ job[j] \in JobRecord /\ Sound(job[j])
  BY DEF IInv, Types
<1> DEFINE r == [job[j] EXCEPT !.verify = job[j].verify \ {d}]
<1>2. job' = [job EXCEPT ![j] = r] /\ UNCHANGED files
  BY DEF PullVerify, Goes
<1>3. r \in JobRecord /\ Sound(r)
  BY <1>1 DEF PullVerify, Goes, Sound, JobRecord, JobPc
<1>4. \A k \in Held(r) \ r.verify : Backed(k) \/ k \in unchecked'
  <2>1. Backed(d)
    BY DEF PullVerify, Backed
  <2>2. Held(r) = Held(job[j]) /\ r.verify = job[j].verify \ {d}
    BY <1>1 DEF PullVerify, Held, JobRecord
  <2>3. QED
    BY <2>1, <2>2 DEF IInv, Relied
<1>5. Swept(r)
  BY DEF Swept, PullVerify, Goes
<1> HIDE DEF r
<1> QED
  BY <1>2, <1>3, <1>4, <1>5, OneMoves

LEMMA PullVerifiedKeeps ==
  ASSUME IInv, History, NEW j \in Jobs, PullVerified(j)
  PROVE  IInv'
<1>1. job \in [Jobs -> JobRecord] /\ job[j] \in JobRecord /\ Sound(job[j])
  BY DEF IInv, Types
<1> DEFINE r == [job[j] EXCEPT !.pc = "write", !.old = job[j].old \ job[j].layers]
<1>2. job' = [job EXCEPT ![j] = r] /\ UNCHANGED files
  BY DEF PullVerified, Goes
<1>3. r \in JobRecord /\ Sound(r)
  BY <1>1 DEF PullVerified, Goes, Sound, JobRecord, JobPc
<1>4. \A d \in Held(r) \ r.verify : Backed(d) \/ d \in unchecked'
  BY <1>1 DEF PullVerified, Goes, IInv, Relied, Held, Sound, JobRecord
<1>5. Swept(r)
  BY DEF Swept, PullVerified, Goes
<1> HIDE DEF r
<1> QED
  BY <1>2, <1>3, <1>4, <1>5, OneMoves

LEMMA CreateFromKeeps ==
  ASSUME IInv, History, NEW j \in Jobs, CreateFrom(j)
  PROVE  IInv'
<1>1. job \in [Jobs -> JobRecord] /\ job[j] \in JobRecord /\ Sound(job[j])
  BY DEF IInv, Types
<1> DEFINE r == [job[j] EXCEPT !.pc = "base", !.layers = manifests[job[j].from] \ Configs, !.todo = manifests[job[j].from] \ Configs]
<1>a. manifests[job[j].from] \in SUBSET Digests
  <2>1. job[j].from \in Names /\ manifests[job[j].from] \notin {Absent, Corrupt}
    BY <1>1 DEF CreateFrom, Readable, Sound
  <2>2. QED
    BY <2>1 DEF IInv, Types
<1>2. job' = [job EXCEPT ![j] = r] /\ UNCHANGED files
  BY DEF CreateFrom, Goes
<1>3. r \in JobRecord /\ Sound(r)
  BY <1>1, <1>a DEF CreateFrom, Goes, Sound, JobRecord, JobPc
<1>4. \A d \in Held(r) \ r.verify : Backed(d) \/ d \in unchecked'
  BY <1>1 DEF CreateFrom, Goes, IInv, Relied, Held, Sound, JobRecord
<1>5. Swept(r)
  BY DEF Swept, CreateFrom, Goes
<1> HIDE DEF r
<1> QED
  BY <1>2, <1>3, <1>4, <1>5, OneMoves

LEMMA CreateBaseKeeps ==
  ASSUME IInv, History, NEW j \in Jobs, NEW d \in Digests, CreateBase(j, d)
  PROVE  IInv'
<1>1. job \in [Jobs -> JobRecord] /\ job[j] \in JobRecord /\ Sound(job[j])
  BY DEF IInv, Types
<1> DEFINE r == [job[j] EXCEPT !.todo = job[j].todo \ {d}]
<1>2. job' = [job EXCEPT ![j] = r] /\ UNCHANGED files
  BY DEF CreateBase, Goes
<1>3. r \in JobRecord /\ Sound(r)
  BY <1>1 DEF CreateBase, Goes, Sound, JobRecord, JobPc
<1>4. \A k \in Held(r) \ r.verify : Backed(k) \/ k \in unchecked'
  <2>1. Backed(d) \/ d \in unchecked'
    BY DEF CreateBase, IInv, Types, Backed
  <2>2. Held(r) \subseteq Held(job[j]) \cup {d} /\ r.verify = job[j].verify
    BY <1>1 DEF CreateBase, Held, JobRecord
  <2>3. QED
    BY <2>1, <2>2 DEF IInv, Relied
<1>5. Swept(r)
  BY DEF Swept, CreateBase, Goes
<1> HIDE DEF r
<1> QED
  BY <1>2, <1>3, <1>4, <1>5, OneMoves

LEMMA CreateBasedKeeps ==
  ASSUME IInv, History, NEW j \in Jobs, CreateBased(j)
  PROVE  IInv'
<1>1. job \in [Jobs -> JobRecord] /\ job[j] \in JobRecord /\ Sound(job[j])
  BY DEF IInv, Types
<1> DEFINE r == [job[j] EXCEPT !.pc = "layer"]
<1>2. job' = [job EXCEPT ![j] = r] /\ UNCHANGED files
  BY DEF CreateBased, Goes
<1>3. r \in JobRecord /\ Sound(r)
  BY <1>1 DEF CreateBased, Goes, Sound, JobRecord, JobPc
<1>4. \A d \in Held(r) \ r.verify : Backed(d) \/ d \in unchecked'
  BY <1>1 DEF CreateBased, Goes, IInv, Relied, Held, Sound, JobRecord
<1>5. Swept(r)
  BY DEF Swept, CreateBased, Goes
<1> HIDE DEF r
<1> QED
  BY <1>2, <1>3, <1>4, <1>5, OneMoves

LEMMA CreateDropKeeps ==
  ASSUME IInv, History, NEW j \in Jobs, NEW d \in Digests, CreateDrop(j, d)
  PROVE  IInv'
<1>1. job \in [Jobs -> JobRecord] /\ job[j] \in JobRecord /\ Sound(job[j])
  BY DEF IInv, Types
<1> DEFINE r == [job[j] EXCEPT !.layers = job[j].layers \ {d}, !.pc = "glob", !.del = {d}, !.then = "layer"]
<1>2. job' = [job EXCEPT ![j] = r] /\ UNCHANGED files
  BY DEF CreateDrop, Removal, Goes
<1>3. r \in JobRecord /\ Sound(r)
  BY <1>1 DEF CreateDrop, Removal, Goes, Sound, JobRecord, JobPc
<1>4. \A k \in Held(r) \ r.verify : Backed(k) \/ k \in unchecked'
  BY <1>1 DEF CreateDrop, Removal, Goes, IInv, Relied, Held, Sound, JobRecord
<1>5. Swept(r)
  BY DEF Swept, CreateDrop, Removal, Goes
<1> HIDE DEF r
<1> QED
  BY <1>2, <1>3, <1>4, <1>5, OneMoves

LEMMA ScanKeeps ==
  ASSUME IInv, History, NEW j \in Jobs, NEW n \in Names, Scan(j, n)
  PROVE  IInv'
<1>1. job \in [Jobs -> JobRecord] /\ job[j] \in JobRecord /\ Sound(job[j])
  BY DEF IInv, Types
<1> DEFINE r == [job[j] EXCEPT !.scan = job[j].scan \ {n}, !.del = Spare(j, n)]
<1>2. job' = [job EXCEPT ![j] = r] /\ UNCHANGED files
  BY DEF Scan, Goes, Spare
<1>3. r \in JobRecord /\ Sound(r)
  BY <1>1 DEF Scan, Goes, Spare, Sound, JobRecord, JobPc
<1>4. \A d \in Held(r) \ r.verify : Backed(d) \/ d \in unchecked'
  BY <1>1 DEF Scan, Goes, Spare, IInv, Relied, Held, Sound, JobRecord
<1>5. Swept(r)
  <2>1. Swept(job[j]) /\ job[j].pc = "scan" /\ job[j].del \subseteq Digests
    BY <1>1 DEF Scan, IInv, JobRecord
  <2>2. r.del = job[j].del \ LayersOf(n) /\ r.scan = job[j].scan \ {n}
    BY <1>1 DEF Spare, JobRecord
  <2>3. QED
    BY <2>1, <2>2 DEF Swept, LayersOf
<1> HIDE DEF r
<1> QED
  BY <1>2, <1>3, <1>4, <1>5, OneMoves

-----------------------------------------------------------------------------
(* Requests that begin, end, or come back from a removal. *)

LEMMA EndsKeeps ==
  ASSUME IInv, History, NEW j \in Jobs, Goes(j, Done), UNCHANGED files
  PROVE  IInv'
<1>1. Done \in JobRecord /\ Sound(Done) /\ Swept(Done) /\ Held(Done) = {}
  BY StoreAssumption DEF Done, NewJob, JobRecord, JobPc, Sound, Swept, Held
<1> QED
  BY <1>1, OneMoves DEF Goes

LEMMA PullStopsKeeps ==
  ASSUME IInv, History, NEW j \in Jobs, PullStops(j)
  PROVE  IInv'
<1> DEFINE r == [Done EXCEPT !.get = job[j].get]
<1>1. job[j].get \in Digests \cup {None}
  BY DEF IInv, Types, JobRecord
<1>2. r \in JobRecord /\ Sound(r) /\ Swept(r) /\ Held(r) = {}
  BY <1>1, StoreAssumption DEF Done, NewJob, JobRecord, JobPc, Sound, Swept, Held
<1>3. job' = [job EXCEPT ![j] = r] /\ UNCHANGED files
  BY DEF PullStops, Goes
<1> HIDE DEF r
<1> QED
  BY <1>2, <1>3, OneMoves

LEMMA RemovedKeeps ==
  ASSUME IInv, History, NEW j \in Jobs, job[j].pc = "scan", Goes(j, Removed(job[j])),
         UNCHANGED files
  PROVE  IInv'
<1>1. CASE job[j].then = "done"
  BY <1>1, EndsKeeps DEF Removed
<1>2. CASE job[j].then = "layer"
  <2>1. job[j] \in JobRecord /\ Sound(job[j])
    BY DEF IInv, Types
  <2> DEFINE r == [job[j] EXCEPT !.pc = "layer", !.del = {}, !.scan = {}, !.then = "done"]
  <2>2. job' = [job EXCEPT ![j] = r]
    BY <1>2 DEF Removed, Goes
  <2>3. r \in JobRecord /\ Sound(r) /\ Swept(r)
    BY <2>1 DEF JobRecord, JobPc, Sound, Swept
  <2>4. Held(r) = job[j].layers /\ Held(job[j]) = job[j].layers /\ r.verify = job[j].verify
    BY <1>2, <2>1 DEF Held, Sound, JobRecord
  <2>5. \A d \in Held(r) \ r.verify : Backed(d) \/ d \in unchecked'
    BY <2>4 DEF IInv, Relied
  <2> HIDE DEF r
  <2> QED
    BY <2>2, <2>3, <2>5, OneMoves
<1>3. job[j] \in JobRecord
  BY DEF IInv, Types
<1> QED
  BY <1>1, <1>2, <1>3 DEF JobRecord

LEMMA PullBeginKeeps ==
  ASSUME IInv, History, NEW j \in Jobs, NEW n \in Names, PullBegin(j, n)
  PROVE  IInv'
<1> DEFINE r == [NewJob EXCEPT !.pc = "manifest", !.op = "pull", !.name = n, !.old = LayersOf(n)]
<1>1. LayersOf(n) \in SUBSET Digests
  BY DEF LayersOf, Readable, IInv, Types
<1>2. r \in JobRecord /\ Sound(r) /\ Swept(r) /\ Held(r) = {}
  BY <1>1, StoreAssumption DEF NewJob, JobRecord, JobPc, Sound, Swept, Held
<1>3. job' = [job EXCEPT ![j] = r] /\ UNCHANGED files
  BY DEF PullBegin, Begins, Goes
<1> HIDE DEF r
<1> QED
  BY <1>2, <1>3, OneMoves

LEMMA DeleteBeginKeeps ==
  ASSUME IInv, History, NEW j \in Jobs, NEW n \in Names, DeleteBegin(j, n)
  PROVE  IInv'
<1> DEFINE r == [NewJob EXCEPT !.pc = "unlink", !.op = "delete", !.name = n,
                               !.old = manifests[n]]
<1>1. manifests[n] \in SUBSET Digests
  BY DEF DeleteBegin, Readable, IInv, Types
<1>2. r \in JobRecord /\ Sound(r) /\ Swept(r) /\ Held(r) = {}
  BY <1>1, StoreAssumption DEF NewJob, JobRecord, JobPc, Sound, Swept, Held
<1>3. job' = [job EXCEPT ![j] = r] /\ UNCHANGED files
  BY DEF DeleteBegin, Begins, Goes
<1> HIDE DEF r
<1> QED
  BY <1>2, <1>3, OneMoves

LEMMA CreateBeginKeeps ==
  ASSUME IInv, History, NEW j \in Jobs, NEW n \in Names, NEW m \in Names, CreateBegin(j, n, m)
  PROVE  IInv'
<1> DEFINE r == [NewJob EXCEPT !.pc = "from", !.op = "create", !.name = m, !.from = n,
                               !.old = LayersOf(m)]
<1>1. LayersOf(m) \in SUBSET Digests
  BY DEF LayersOf, Readable, IInv, Types
<1>2. r \in JobRecord /\ Sound(r) /\ Swept(r) /\ Held(r) = {}
  BY <1>1, StoreAssumption DEF NewJob, JobRecord, JobPc, Sound, Swept, Held
<1>3. job' = [job EXCEPT ![j] = r] /\ UNCHANGED files
  BY DEF CreateBegin, Begins, Goes
<1> HIDE DEF r
<1> QED
  BY <1>2, <1>3, OneMoves
-----------------------------------------------------------------------------
(* Steps on blobs. *)

LEMMA RemoveKeeps ==
  ASSUME IInv, History, NEW j \in Jobs, NEW d \in Digests, Remove(j, d)
  PROVE  IInv'
<1>1. job[j] \in JobRecord /\ Sound(job[j]) /\ Swept(job[j]) /\ job \in [Jobs -> JobRecord]
  BY DEF IInv, Types
<1> DEFINE r == [job[j] EXCEPT !.del = job[j].del \ {d}]
<1>2. job' = [job EXCEPT ![j] = r]
  BY DEF Remove, Goes
<1>3. r \in JobRecord /\ Sound(r)
  BY <1>1 DEF Remove, JobRecord, JobPc, Sound
<1>4. manifests' = manifests /\ blobs' \in [Digests -> {Absent, "good", "bad"}]
      /\ \A e \in Digests \ {d} : blobs'[e] = blobs[e]
  BY DEF Remove, IInv, Types
<1>5. Swept(r)
  BY <1>1 DEF Swept, Remove, JobRecord
<1>6. d \in job[j].del /\ job[j].scan = {} /\ job[j].pc = "scan"
  BY DEF Remove
<1>7. \A e \in Digests : Backed(e) =>
         \/ Backed(e)'
         \/ ~InManifest(e) /\ \A i \in Jobs \ {j} : e \notin Held(job[i]) \ job[i].verify
  <2>1. CASE d \in contested \cup unchecked
    BY <1>4, <2>1, BackedStays, HistoryTypes DEF Backed, History
  <2>2. CASE d \notin contested \cup unchecked
    <3>1. ~InManifest(d)
      BY <1>1, <1>6, <2>2 DEF Swept, InManifest
    <3>2. \A i \in Jobs \ {j} : d \notin Held(job[i]) \ job[i].verify
      BY <1>6, <2>2, HeldCounted, HeldContested DEF Removing
    <3>3. QED
      BY <1>4, <3>1, <3>2, BackedStays
  <2>3. QED
    BY <2>1, <2>2
<1>8. \A e \in Held(r) \ r.verify : Backed(e)'
  <2>1. r.verify = job[j].verify /\ Held(r) = Held(job[j])
    BY <1>1 DEF Held, JobRecord
  <2>2. d \notin Held(r)
    BY <1>1, <1>6, <2>1 DEF Held, Sound
  <2>3. Held(r) \subseteq Digests
    BY <1>3, HeldDigests
  <2>4. QED
    BY <1>4, <2>1, <2>2, <2>3, BackedStays DEF IInv, Relied
<1>9. manifests' \in [Names -> (SUBSET Digests) \cup {Absent, Corrupt}]
  BY <1>4 DEF IInv, Types
<1> HIDE DEF r
<1> QED
  BY <1>2, <1>3, <1>4, <1>5, <1>7, <1>8, <1>9, OneActs

LEMMA PullMismatchKeeps ==
  ASSUME IInv, History, NEW j \in Jobs, NEW d \in Digests, PullMismatch(j, d)
  PROVE  IInv'
<1> DEFINE r == [NewJob EXCEPT !.pc = "mismatch", !.op = "pull", !.del = {d}]
<1>1. r \in JobRecord /\ Sound(r) /\ Held(r) = {} /\ r.del = {d}
  BY StoreAssumption DEF NewJob, JobRecord, JobPc, Sound, Held
<1>2. job' = [job EXCEPT ![j] = r] /\ UNCHANGED files /\ blobs[d] = "bad"
  BY DEF PullMismatch, Goes
<1>3. \A n \in Names : Readable(n) /\ d \in manifests[n] => d \in contested \cup unchecked
  BY <1>2 DEF IInv, Listed, Backed
<1> HIDE DEF r
<1>4. Swept(r)
  BY <1>1, <1>3 DEF Swept
<1> QED
  BY <1>1, <1>2, <1>4, OneMoves

\* What is removed after a mismatch, whatever the file is by then: if somebody has
\* come to rely on it, it is contested.
LEMMA PullRemoveBadKeeps ==
  ASSUME IInv, History, NEW j \in Jobs, PullRemoveBad(j)
  PROVE  IInv'
<1>1. job[j] \in JobRecord /\ Swept(job[j])
  BY DEF IInv, Types
<1>2. Done \in JobRecord /\ Sound(Done) /\ Done.pc \notin {"scan", "mismatch"} /\ Held(Done) = {}
  BY StoreAssumption DEF Done, NewJob, JobRecord, JobPc, Sound, Held
<1>3. job' = [job EXCEPT ![j] = Done] /\ job[j].pc = "mismatch"
  BY DEF PullRemoveBad, Fails, Goes
<1>4. manifests' = manifests /\ blobs' \in [Digests -> {Absent, "good", "bad"}]
      /\ \A e \in Digests \ job[j].del : blobs'[e] = blobs[e]
  BY DEF PullRemoveBad, IInv, Types
<1>5. \A e \in Digests : Backed(e) =>
         \/ Backed(e)'
         \/ ~InManifest(e) /\ \A i \in Jobs \ {j} : e \notin Held(job[i]) \ job[i].verify
  <2>1. SUFFICES ASSUME NEW e \in Digests, Backed(e), ~Backed(e)'
                 PROVE  /\ ~InManifest(e)
                        /\ \A i \in Jobs \ {j} : e \notin Held(job[i]) \ job[i].verify
    OBVIOUS
  <2>2. e \in job[j].del
    BY <1>4, <2>1, BackedStays
  <2>3. e \notin contested \cup unchecked
    BY <2>1, HistoryTypes DEF Backed, History
  <2>4. ~InManifest(e)
    <3>1. job[j].scan = {}
      BY <1>3 DEF IInv, Sound
    <3> QED
      BY <1>1, <1>3, <2>2, <2>3, <3>1 DEF Swept, InManifest
  <2>5. \A i \in Jobs \ {j} : e \notin Held(job[i]) \ job[i].verify
    BY <1>3, <2>2, <2>3, HeldCounted, HeldContested DEF Removing
  <2> QED
    BY <2>4, <2>5
<1>6. manifests' \in [Names -> (SUBSET Digests) \cup {Absent, Corrupt}]
  BY <1>4 DEF IInv, Types
<1> QED
  BY <1>2, <1>3, <1>4, <1>5, <1>6, OneActs

LEMMA NewLayerKeeps ==
  ASSUME IInv, History, NEW j \in Jobs, NEW d \in Digests, NEW pc \in {"config", "write"},
         job[j].pc \in {"layer", "config"}, NewLayer(j, d, pc)
  PROVE  IInv'
<1>1. job[j] \in JobRecord /\ Sound(job[j])
  BY DEF IInv, Types
<1> DEFINE r == [job[j] EXCEPT !.pc = pc, !.layers = job[j].layers \cup {d}]
<1>2. job' = [job EXCEPT ![j] = r]
  BY DEF NewLayer, Goes
<1>3. r \in JobRecord /\ Sound(r) /\ r.pc \notin {"scan", "mismatch"}
  BY <1>1 DEF JobRecord, JobPc, Sound
<1>4. manifests' = manifests /\ blobs' \in [Digests -> {Absent, "good", "bad"}]
      /\ \A e \in Digests : blobs'[e] = blobs[e] \/ blobs'[e] = "good"
  BY DEF NewLayer, IInv, Types
<1>5. \A e \in Digests : Backed(e) => Backed(e)'
  BY <1>4, BackedStays
<1>6. Backed(d)'
  <2>1. CASE blobs[d] = "bad"
    BY <2>1 DEF NewLayer, Backed
  <2>2. CASE blobs[d] # "bad"
    BY <2>2 DEF NewLayer, Backed, IInv, Types
  <2>3. QED
    BY <2>1, <2>2
<1>7. Held(r) = Held(job[j]) \cup {d} /\ r.verify = job[j].verify
  BY <1>1 DEF Held, Sound, JobRecord
<1>8. \A e \in Held(r) \ r.verify : Backed(e)'
  <2>1. Held(r) \subseteq Digests
    BY <1>3, HeldDigests
  <2>2. QED
    BY <1>5, <1>6, <1>7, <2>1 DEF IInv, Relied
<1>9. manifests' \in [Names -> (SUBSET Digests) \cup {Absent, Corrupt}]
  BY <1>4 DEF IInv, Types
<1> HIDE DEF r
<1> QED
  BY <1>2, <1>3, <1>4, <1>5, <1>8, <1>9, OneActs

LEMMA CreateStuckKeeps ==
  ASSUME IInv, History, NEW j \in Jobs, CreateStuck(j)
  PROVE  IInv'
<1>1. Done \in JobRecord /\ Sound(Done) /\ Done.pc \notin {"scan", "mismatch"} /\ Held(Done) = {}
  BY StoreAssumption DEF Done, NewJob, JobRecord, JobPc, Sound, Held
<1>2. job' = [job EXCEPT ![j] = Done]
  BY DEF CreateStuck, Fails, Goes
<1>3. manifests' = manifests /\ blobs' \in [Digests -> {Absent, "good", "bad"}]
      /\ \A e \in Digests : blobs'[e] = blobs[e] \/ blobs'[e] = "good"
  BY DEF CreateStuck, IInv, Types
<1>5. \A e \in Digests : Backed(e) => Backed(e)'
  BY <1>3, BackedStays
<1>6. manifests' \in [Names -> (SUBSET Digests) \cup {Absent, Corrupt}]
  BY <1>3 DEF IInv, Types
<1> QED
  BY <1>1, <1>2, <1>3, <1>5, <1>6, OneActs

LEMMA PullLandKeeps ==
  ASSUME IInv, History, NEW S \in SUBSET Jobs, NEW d \in Digests,
         NEW content \in {"good", "bad"}, PullLand(S, d, content)
  PROVE  IInv'
<1>1. manifests' = manifests /\ blobs' \in [Digests -> {Absent, "good", "bad"}]
      /\ \A e \in Digests \ {d} : blobs'[e] = blobs[e]
  BY DEF PullLand, IInv, Types
<1>2. Backed(d) => Backed(d)'
  <2>1. CASE content = "good"
    BY <2>1 DEF PullLand, Backed, IInv, Types
  <2>2. CASE content = "bad" /\ blobs[d] # Absent
    BY <2>2 DEF PullLand, Backed
  <2>3. CASE content = "bad" /\ blobs[d] = Absent
    BY <2>3, StoreAssumption, HistoryTypes DEF Backed, History
  <2>4. QED
    BY <2>1, <2>2, <2>3
<1>3. \A e \in Digests : Backed(e) => Backed(e)'
  BY <1>1, <1>2, BackedStays
<1>4. \A i \in Jobs : job[i] \in JobRecord /\ Sound(job[i])
  BY DEF IInv, Types
<1>5. \A i \in Jobs : job'[i] = IF i \in S THEN IF Running(i) THEN Landed(job[i]) ELSE Done
                                   ELSE job[i]
  BY DEF PullLand
<1>a. Done \in JobRecord /\ Sound(Done) /\ Done.pc = "done" /\ Held(Done) = {}
  BY StoreAssumption DEF Done, NewJob, JobRecord, JobPc, Sound, Held
<1>6. ASSUME NEW i \in S, Running(i)
      PROVE  /\ Landed(job[i]) \in JobRecord /\ Sound(Landed(job[i]))
             /\ Landed(job[i]).pc = "fetch"
             /\ Held(Landed(job[i])) \ Landed(job[i]).verify \subseteq Held(job[i]) \ job[i].verify
  <2>1. job[i].get = d /\ d # None /\ i \in Jobs
    BY StoreAssumption DEF PullLand
  <2>2. job[i].pc = "fetch" /\ d \in job[i].todo
    BY <1>4, <1>6, <2>1 DEF Sound, Running
  <2>3. Landed(job[i]) \in JobRecord /\ Sound(Landed(job[i])) /\ Landed(job[i]).pc = "fetch"
    <3> DEFINE r == Landed(job[i])
    <3>1. r \in JobRecord
      <4>1. job[i] \in JobRecord
        BY <1>4, <2>1
      <4>2. r = [job[i] EXCEPT !.get = None, !.todo = job[i].todo \ {d}, !.old = job[i].old \ {d},
                               !.verify = job[i].verify \cup {d}]
        BY <2>1, <4>1 DEF Landed, JobRecord
      <4> HIDE DEF r
      <4>3. QED
        BY <4>1, <4>2 DEF JobRecord
    <3>2. /\ r.pc = "fetch" /\ r.layers = job[i].layers /\ r.get = None
          /\ r.todo = job[i].todo \ {d} /\ r.verify = job[i].verify \cup {d}
          /\ r.then = job[i].then
      BY <1>4, <2>1, <2>2 DEF Landed, JobRecord
    <3>3. /\ job[i].layers \in SUBSET Digests /\ d \in job[i].layers
          /\ job[i].todo \subseteq job[i].layers
          /\ job[i].verify \subseteq job[i].layers \ job[i].todo
          /\ job[i].then # "layer"
      BY <1>4, <2>1, <2>2 DEF Sound
    <3> HIDE DEF r
    <3>4. Sound(r)
      BY <2>2, <3>2, <3>3 DEF Sound
    <3>5. QED
      BY <3>1, <3>2, <3>4 DEF r
  <2>4. Held(Landed(job[i])) \ Landed(job[i]).verify \subseteq Held(job[i]) \ job[i].verify
    BY <1>4, <2>1, <2>2 DEF Landed, Held, JobRecord
  <2>5. QED
    BY <2>3, <2>4
<1>7. job' \in [Jobs -> JobRecord]
  <2>1. \A i \in Jobs : job'[i] \in JobRecord
    BY <1>4, <1>5, <1>6, <1>a
  <2> QED
    BY <2>1 DEF PullLand
<1>8. \A i \in Jobs : \/ job'[i] = job[i]
                      \/ /\ Sound(job'[i])
                         /\ \A e \in Held(job'[i]) \ job'[i].verify : Backed(e)'
                         /\ Swept(job[i])'
  <2>a. ASSUME NEW i \in S, ~Running(i)
        PROVE  Sound(job'[i]) /\ Held(job'[i]) = {} /\ Swept(job[i])'
    BY <1>5, <1>a, <2>a DEF Swept
  <2>1. SUFFICES ASSUME NEW i \in S, Running(i)
                 PROVE  /\ Sound(job'[i])
                        /\ \A e \in Held(job'[i]) \ job'[i].verify : Backed(e)'
                        /\ Swept(job[i])'
    BY <1>5, <2>a
  <2>2. job'[i] = Landed(job[i]) /\ i \in Jobs
    BY <1>5, <2>1
  <2>3. Held(job[i]) \subseteq Digests
    BY <1>4, <2>2, HeldDigests
  <2>4. \A e \in Held(job'[i]) \ job'[i].verify : Backed(e)'
    BY <1>3, <1>6, <2>1, <2>2, <2>3 DEF IInv, Relied
  <2>5. Swept(job[i])'
    BY <1>6, <2>1, <2>2 DEF Swept
  <2>6. QED
    BY <1>6, <2>1, <2>2, <2>4, <2>5
<1>9. manifests' \in [Names -> (SUBSET Digests) \cup {Absent, Corrupt}]
  BY <1>1 DEF IInv, Types
<1> QED
  BY <1>1, <1>3, <1>7, <1>8, <1>9, Carry
-----------------------------------------------------------------------------
(* Steps on manifests. *)

LEMMA WriteToType ==
  ASSUME IInv, NEW n, NEW x \in (SUBSET Digests) \cup {Absent, Corrupt}, WriteTo(n, x)
  PROVE  /\ manifests' \in [Names -> (SUBSET Digests) \cup {Absent, Corrupt}]
         /\ \A m \in Names : manifests'[m] = manifests[m] \/ manifests'[m] = x
BY DEF WriteTo, IInv, Types

LEMMA TruncateKeeps ==
  ASSUME IInv, History, NEW j \in Jobs, Truncate(j)
  PROVE  IInv'
<1>1. job[j] \in JobRecord /\ Sound(job[j])
  BY DEF IInv, Types
<1> DEFINE r == [job[j] EXCEPT !.pc = "writing"]
<1>2. job' = [job EXCEPT ![j] = r] /\ blobs' = blobs
  BY DEF Truncate, Goes
<1>3. r \in JobRecord /\ Sound(r) /\ r.pc \notin {"scan", "mismatch"}
  BY <1>1 DEF Truncate, JobRecord, JobPc, Sound
<1>4. /\ manifests' \in [Names -> (SUBSET Digests) \cup {Absent, Corrupt}]
      /\ \A m \in Names : manifests'[m] = manifests[m] \/ manifests'[m] = Corrupt
  BY WriteToType DEF Truncate
<1>5. \A e \in Digests : Backed(e) => Backed(e)'
  BY <1>2, BackedStays
<1>6. Held(r) = Held(job[j]) /\ r.verify = job[j].verify /\ Held(r) \subseteq Digests
  BY <1>1, <1>3, HeldDigests DEF Truncate, Held, JobRecord
<1>7. \A e \in Held(r) \ r.verify : Backed(e)'
  BY <1>5, <1>6 DEF IInv, Relied
<1>8. blobs' \in [Digests -> {Absent, "good", "bad"}]
  BY <1>2 DEF IInv, Types
<1> HIDE DEF r
<1> QED
  BY <1>2, <1>3, <1>4, <1>5, <1>7, <1>8, OneActs

LEMMA WriteKeeps ==
  ASSUME IInv, History, NEW j \in Jobs, Write(j)
  PROVE  IInv'
<1>1. job[j] \in JobRecord /\ Sound(job[j]) /\ job[j].pc = "writing"
  BY DEF IInv, Types, Write
<1> DEFINE r == IF job[j].old = {} THEN Done ELSE Removal(job[j], job[j].old, "done")
<1>2. job' = [job EXCEPT ![j] = r] /\ blobs' = blobs
  BY DEF Write, Goes
<1>3. r \in JobRecord /\ Sound(r) /\ r.pc \notin {"scan", "mismatch"} /\ Held(r) = {}
  <2>1. CASE job[j].old = {}
    BY <2>1, StoreAssumption DEF Done, NewJob, JobRecord, JobPc, Sound, Held
  <2>2. CASE job[j].old # {}
    <3>1. r = [job[j] EXCEPT !.pc = "glob", !.del = job[j].old, !.then = "done"]
      BY <2>2 DEF Removal
    <3> HIDE DEF r
    <3>2. r \in JobRecord /\ Sound(r)
      BY <1>1, <3>1 DEF JobRecord, JobPc, Sound
    <3>3. r.pc = "glob" /\ r.then = "done"
      BY <1>1, <3>1 DEF JobRecord
    <3>4. QED
      BY <3>2, <3>3 DEF Held
  <2>3. QED
    BY <2>1, <2>2
<1> HIDE DEF r
<1>4. job[j].layers \in SUBSET Digests /\ job[j].verify = {} /\ job[j].todo = {}
  BY <1>1 DEF Sound
<1>5. Held(job[j]) = job[j].layers
  BY <1>1, <1>4 DEF Held
<1>6. /\ manifests' \in [Names -> (SUBSET Digests) \cup {Absent, Corrupt}]
      /\ \A m \in Names : manifests'[m] = manifests[m] \/ manifests'[m] = job[j].layers
  BY <1>4, WriteToType DEF Write
<1>7. \A e \in Digests : Backed(e) => Backed(e)'
  BY <1>2, BackedStays
<1>8. \A e \in job[j].layers :
         /\ Backed(e)'
         /\ \A i \in Jobs \ {j} : job[i].pc \in {"scan", "mismatch"} /\ e \in job[i].del => e \in contested
  BY <1>4, <1>5, <1>7, HeldCounted, HeldContested DEF IInv, Relied, Removing
<1>9. \A m \in Names :
         \/ manifests'[m] = manifests[m]
         \/ manifests'[m] \in {Absent, Corrupt}
         \/ \A e \in manifests'[m] :
              /\ Backed(e)'
              /\ \A i \in Jobs \ {j} : job[i].pc \in {"scan", "mismatch"} /\ e \in job[i].del => e \in contested
  BY <1>6, <1>8
<1>10. blobs' \in [Digests -> {Absent, "good", "bad"}]
  BY <1>2 DEF IInv, Types
<1> QED
  BY <1>2, <1>3, <1>6, <1>7, <1>9, <1>10, OneActs

LEMMA CopyBeginKeeps ==
  ASSUME IInv, History, NEW j \in Jobs, NEW n \in Names, NEW m \in Names, CopyBegin(j, n, m)
  PROVE  IInv'
<1> DEFINE r == [NewJob EXCEPT !.pc = "open", !.op = "copy", !.name = m, !.from = n]
<1>1. r \in JobRecord /\ Sound(r) /\ Swept(r) /\ Held(r) = {}
  BY StoreAssumption DEF NewJob, JobRecord, JobPc, Sound, Swept, Held
<1>2. job' = [job EXCEPT ![j] = r] /\ UNCHANGED files
  BY DEF CopyBegin, Begins, Goes
<1> HIDE DEF r
<1> QED
  BY <1>1, <1>2, OneMoves

LEMMA CopyCreateKeeps ==
  ASSUME IInv, History, NEW j \in Jobs, CopyCreate(j)
  PROVE  IInv'
<1>1. job[j] \in JobRecord /\ Sound(job[j]) /\ job[j].pc = "open"
  BY DEF IInv, Types, CopyCreate
<1> DEFINE r == [job[j] EXCEPT !.pc = "copy"]
<1>2. job' = [job EXCEPT ![j] = r] /\ blobs' = blobs
  BY DEF CopyCreate, Goes
<1>3. r \in JobRecord /\ Sound(r) /\ r.pc \notin {"scan", "mismatch"}
  BY <1>1 DEF JobRecord, JobPc, Sound
<1>4. /\ manifests' \in [Names -> (SUBSET Digests) \cup {Absent, Corrupt}]
      /\ \A k \in Names : manifests'[k] = manifests[k] \/ manifests'[k] = Corrupt
  BY WriteToType DEF CopyCreate
<1>5. \A e \in Digests : Backed(e) => Backed(e)'
  BY <1>2, BackedStays
<1>6. Held(r) = Held(job[j]) /\ r.verify = job[j].verify /\ Held(r) \subseteq Digests
  BY <1>1, <1>3, HeldDigests DEF Held, JobRecord
<1>7. \A e \in Held(r) \ r.verify : Backed(e)'
  BY <1>5, <1>6 DEF IInv, Relied
<1>8. blobs' \in [Digests -> {Absent, "good", "bad"}]
  BY <1>2 DEF IInv, Types
<1> HIDE DEF r
<1> QED
  BY <1>2, <1>3, <1>4, <1>5, <1>7, <1>8, OneActs

\* What a copy finds in its source is backed and counted on.
LEMMA CopiedBacked ==
  ASSUME IInv, NEW j \in Jobs, job[j].pc \in {"open", "copy"}
  PROVE  /\ Copied(j) \in (SUBSET Digests) \cup {Absent, Corrupt}
         /\ Copied(j) \notin {Absent, Corrupt} =>
              \A e \in Copied(j) : Backed(e) /\ e \in CountsOn(j)
<1>1. job[j] \in JobRecord /\ Sound(job[j])
  BY DEF IInv, Types
<1>2. CASE job[j].from = None
  <2>1. Copied(j) = job[j].layers /\ job[j].verify = {}
    BY <1>1, <1>2 DEF Copied, Sound
  <2>2. job[j].layers \in (SUBSET Digests) \cup {Corrupt}
    BY <1>1 DEF JobRecord
  <2>3. job[j].layers \notin {Absent, Corrupt} => Held(job[j]) = job[j].layers
    BY <1>2 DEF Held
  <2>4. QED
    BY <2>1, <2>2, <2>3, HeldCounted DEF IInv, Relied
<1>3. CASE job[j].from # None
  <2>1. job[j].from \in Names /\ Copied(j) = manifests[job[j].from]
    BY <1>1, <1>3 DEF Copied, JobRecord
  <2>2. QED
    BY <2>1 DEF IInv, Types, Listed, Readable, CountsOn
<1> QED
  BY <1>2, <1>3

LEMMA CopyKeeps ==
  ASSUME IInv, History, NEW j \in Jobs, Copy(j)
  PROVE  IInv'
<1>1. Done \in JobRecord /\ Sound(Done) /\ Done.pc \notin {"scan", "mismatch"} /\ Held(Done) = {}
  BY StoreAssumption DEF Done, NewJob, JobRecord, JobPc, Sound, Held
<1>2. job' = [job EXCEPT ![j] = Done] /\ blobs' = blobs /\ job[j].pc = "copy"
  BY DEF Copy, Goes
<1>3. /\ manifests' \in [Names -> (SUBSET Digests) \cup {Absent, Corrupt}]
      /\ \A m \in Names : manifests'[m] = manifests[m] \/ manifests'[m] = Copied(j)
  BY <1>2, CopiedBacked, WriteToType DEF Copy
<1>4. \A e \in Digests : Backed(e) => Backed(e)'
  BY <1>2, BackedStays
<1>5. Copied(j) \notin {Absent, Corrupt} => \A e \in Copied(j) :
         /\ Backed(e)'
         /\ \A i \in Jobs \ {j} : job[i].pc \in {"scan", "mismatch"} /\ e \in job[i].del => e \in contested
  <2>1. SUFFICES ASSUME Copied(j) \notin {Absent, Corrupt}, NEW e \in Copied(j)
                 PROVE  /\ Backed(e)'
                        /\ \A i \in Jobs \ {j} : job[i].pc \in {"scan", "mismatch"} /\ e \in job[i].del
                                                   => e \in contested
    OBVIOUS
  <2>2. e \in Digests /\ Backed(e) /\ e \in CountsOn(j)
    BY <1>2, <2>1, CopiedBacked
  <2>3. QED
    BY <1>4, <2>2, HeldContested DEF Removing
<1>6. \A m \in Names :
         \/ manifests'[m] = manifests[m]
         \/ manifests'[m] \in {Absent, Corrupt}
         \/ \A e \in manifests'[m] :
              /\ Backed(e)'
              /\ \A i \in Jobs \ {j} : job[i].pc \in {"scan", "mismatch"} /\ e \in job[i].del => e \in contested
  BY <1>3, <1>5
<1>7. blobs' \in [Digests -> {Absent, "good", "bad"}]
  BY <1>2 DEF IInv, Types
<1> QED
  BY <1>1, <1>2, <1>3, <1>4, <1>6, <1>7, OneActs

\* A request that has the file of an unlinked manifest open, or has not.
LEMMA UnlinkedKeeps ==
  ASSUME IInv, NEW i \in Jobs, NEW n \in Names, manifests[n] # Absent,
         NEW r, r = Unlinked(job[i], n)
  PROVE  /\ r \in JobRecord /\ Sound(r)
         /\ r.pc = job[i].pc /\ r.del = job[i].del /\ r.scan = job[i].scan
         /\ \A d \in Held(r) \ r.verify : Backed(d) /\ d \in Digests
<1>1. job[i] \in JobRecord /\ Sound(job[i])
  BY DEF IInv, Types
<1>2. manifests[n] \in (SUBSET Digests) \cup {Corrupt}
  BY DEF IInv, Types
<1>3. r \in JobRecord
  BY <1>1, <1>2 DEF Unlinked, JobRecord
<1>4. /\ r.pc = job[i].pc /\ r.del = job[i].del /\ r.scan = job[i].scan /\ r.then = job[i].then
      /\ r.todo = job[i].todo /\ r.get = job[i].get /\ r.verify = job[i].verify
  BY <1>1 DEF Unlinked, JobRecord
<1>5. r.pc \notin {"writing", "copy"} => r.name = job[i].name
  BY <1>1 DEF Unlinked, JobRecord
<1>6. r.pc \notin {"open", "copy"} => r.layers = job[i].layers /\ r.from = job[i].from
  BY <1>1 DEF Unlinked, JobRecord
<1>7. r.pc \in {"open", "copy"} =>
        \/ r.layers = job[i].layers /\ r.from = job[i].from
        \/ r.layers = manifests[n] /\ r.from = None
  BY <1>1 DEF Unlinked, JobRecord
<1>8. Sound(r)
  <2>1. CASE r.pc \in {"open", "copy"}
    BY <1>1, <1>4, <2>1 DEF Sound, JobRecord
  <2>2. CASE r.pc \notin {"open", "copy"}
    BY <1>1, <1>4, <1>5, <1>6, <2>2 DEF Sound
  <2>3. QED
    BY <2>1, <2>2
<1>9. Held(r) \subseteq Digests
  BY <1>3, <1>8, HeldDigests
<1>10. \A d \in Held(r) \ r.verify : Backed(d)
  <2>1. CASE r.layers = job[i].layers /\ r.from = job[i].from
    <3>1. Held(r) = Held(job[i])
      BY <1>4, <2>1 DEF Held
    <3>2. QED
      BY <1>4, <3>1 DEF IInv, Relied
  <2>2. CASE r.pc \in {"open", "copy"} /\ r.layers = manifests[n]
    BY <2>2 DEF Held, IInv, Listed, Readable
  <2>3. QED
    BY <1>6, <1>7, <2>1, <2>2
<1> QED
  BY <1>3, <1>4, <1>8, <1>9, <1>10

LEMMA DeleteUnlinkKeeps ==
  ASSUME IInv, History, NEW j \in Jobs, DeleteUnlink(j)
  PROVE  IInv'
<1>1. job[j] \in JobRecord /\ Sound(job[j]) /\ job[j].pc = "unlink"
  BY DEF IInv, Types, DeleteUnlink
<1>2. PICK n \in Names : n = job[j].name
  BY <1>1 DEF Sound
<1>3. /\ manifests[n] # Absent /\ manifests' = [manifests EXCEPT ![n] = Absent] /\ blobs' = blobs
      /\ job' = [i \in Jobs |-> IF i = j THEN Removal(job[j], job[j].old, "done")
                                      ELSE Unlinked(job[i], n)]
  BY <1>2 DEF DeleteUnlink
<1>4. /\ manifests' \in [Names -> (SUBSET Digests) \cup {Absent, Corrupt}]
      /\ blobs' \in [Digests -> {Absent, "good", "bad"}]
      /\ \A m \in Names : manifests'[m] = manifests[m] \/ manifests'[m] = Absent
  BY <1>3 DEF IInv, Types
<1>5. \A d : Backed(d) => Backed(d)'
  BY <1>3, BackedStays
<1>6. ASSUME NEW i \in Jobs \ {j}
      PROVE  /\ job'[i] \in JobRecord /\ Sound(job'[i])
             /\ \A d \in Held(job'[i]) \ job'[i].verify : Backed(d)'
             /\ Swept(job[i])'
  <2>1. job'[i] = Unlinked(job[i], n)
    BY <1>3
  <2>2. /\ job'[i] \in JobRecord /\ Sound(job'[i])
        /\ job'[i].pc = job[i].pc /\ job'[i].del = job[i].del /\ job'[i].scan = job[i].scan
        /\ \A d \in Held(job'[i]) \ job'[i].verify : Backed(d)
    BY <1>3, <2>1, UnlinkedKeeps
  <2>3. Swept(job[i])
    BY DEF IInv
  <2>4. Swept(job[i])'
    BY <1>4, <2>2, <2>3, HistoryTypes DEF Swept, Readable, History
  <2>5. QED
    BY <1>5, <2>2, <2>4
<1>7. /\ job'[j] \in JobRecord /\ Sound(job'[j]) /\ Held(job'[j]) = {} /\ Swept(job[j])'
  <2> DEFINE r == [job[j] EXCEPT !.pc = "glob", !.del = job[j].old, !.then = "done"]
  <2>1. job'[j] = r
    BY <1>3 DEF Removal
  <2>2. r \in JobRecord /\ Sound(r)
    BY <1>1 DEF JobRecord, JobPc, Sound
  <2>3. r.pc = "glob" /\ r.then = "done"
    BY <1>1 DEF JobRecord
  <2> HIDE DEF r
  <2>4. QED
    BY <2>1, <2>2, <2>3 DEF Held, Swept
<1>8. job' \in [Jobs -> JobRecord]
  <2>1. \A i \in Jobs : job'[i] \in JobRecord
    BY <1>6, <1>7
  <2>2. QED
    BY <1>3, <2>1
<1>9. \A i \in Jobs : /\ Sound(job'[i])
                      /\ \A d \in Held(job'[i]) \ job'[i].verify : Backed(d)'
                      /\ Swept(job[i])'
  BY <1>6, <1>7
<1> QED
  BY <1>4, <1>5, <1>8, <1>9, Carry

LEMMA CrashKeeps ==
  ASSUME IInv, History, Crash
  PROVE  IInv'
<1>1. PICK K \in SUBSET (Digests \ Used) :
        blobs' = [d \in Digests |-> IF d \in K THEN Absent ELSE blobs[d]]
  BY DEF Crash
<1>2. manifests' = manifests
  BY DEF Crash
<1>3. Done \in JobRecord /\ Sound(Done) /\ Done.pc \notin {"scan", "mismatch"} /\ Held(Done) = {}
  BY StoreAssumption DEF Done, NewJob, JobRecord, JobPc, Sound, Held
<1>4. job' = [i \in Jobs |-> IF job[i].pc = "idle" THEN job[i] ELSE Done] /\ job \in [Jobs -> JobRecord]
  BY DEF Crash, IInv, Types
<1>5. job' \in [Jobs -> JobRecord]
  BY <1>3, <1>4
<1>6. \A i \in Jobs : job'[i] = job[i] => Held(job[i]) = {}
  BY <1>3, <1>4 DEF Held
<1>7. \A i \in Jobs : \/ job'[i] = job[i]
                      \/ /\ Sound(job'[i])
                         /\ \A d \in Held(job'[i]) \ job'[i].verify : Backed(d)'
                         /\ Swept(job[i])'
  BY <1>3, <1>4 DEF Swept
<1>8. \A d \in K : ~InManifest(d)
  BY DEF InManifest, Used
<1>9. \A d \in Digests : Backed(d) =>
         \/ Backed(d)'
         \/ ~InManifest(d) /\ \A i \in Jobs : job'[i] = job[i] =>
                                                d \notin Held(job[i]) \ job[i].verify
  BY <1>1, <1>6, <1>8, BackedStays
<1>10. /\ manifests' \in [Names -> (SUBSET Digests) \cup {Absent, Corrupt}]
       /\ blobs' \in [Digests -> {Absent, "good", "bad"}]
  BY <1>1, <1>2 DEF IInv, Types
<1> QED
  BY <1>2, <1>5, <1>7, <1>9, <1>10, Carry

LEMMA StutterKeeps ==
  ASSUME IInv, History, Stutter
  PROVE  IInv'
<1>1. manifests' = manifests /\ blobs' = blobs /\ job' = job
  BY DEF Stutter, files
<1>2. \A d : Backed(d) => Backed(d)'
  BY <1>1, BackedStays
<1> QED
  BY <1>1, <1>2, Carry DEF IInv, Types
-----------------------------------------------------------------------------
(* The invariant, and what it says. *)

LEMMA InitInv == Init => IInv
<1> SUFFICES ASSUME Init PROVE IInv
  OBVIOUS
<1>1. \A j \in Jobs : job[j] = NewJob
  BY DEF Init
<1>2. NewJob \in JobRecord /\ Sound(NewJob) /\ NewJob.pc = "idle" /\ Held(NewJob) = {}
  BY StoreAssumption DEF NewJob, JobRecord, JobPc, Sound, Held
<1>3. Types
  <2>1. \A n \in Names : manifests[n] \in (SUBSET Digests) \cup {Absent, Corrupt}
    BY StoreAssumption DEF Init
  <2>2. manifests \in [Names -> (SUBSET Digests) \cup {Absent, Corrupt}]
    BY <2>1 DEF Init
  <2>3. blobs \in [Digests -> {Absent, "good", "bad"}]
    BY DEF Init
  <2>4. job \in [Jobs -> JobRecord]
    BY <1>2 DEF Init
  <2>5. QED
    BY <2>2, <2>3, <2>4 DEF Types, Init
<1>4. Relied /\ (\A j \in Jobs : Sound(job[j]) /\ Swept(job[j]))
  BY <1>1, <1>2 DEF Relied, Swept
<1>5. Listed
  <2>1. SUFFICES ASSUME NEW n \in Names, Readable(n), NEW d \in manifests[n] PROVE Backed(d)
    BY DEF Listed
  <2>2. d \in Digests /\ d \in Used
    BY <1>3, <2>1 DEF Types, Used, Readable
  <2>3. QED
    BY <2>2 DEF Init, Backed
<1>6. Contest = {}
  BY <1>1, <1>2 DEF Contest, Removing
<1> QED
  BY <1>3, <1>4, <1>5, <1>6 DEF IInv

\* The history variables only grow, whichever step is taken.
LEMMA NextHistory ==
  ASSUME IInv, Next
  PROVE  History
<1>1. unchecked \subseteq Digests /\ alone \subseteq Jobs
  BY DEF IInv, Types
<1> SUFFICES unchecked \subseteq unchecked' /\ unchecked' \subseteq Digests /\ alone' \subseteq Jobs
  BY DEF History, Next
<1>2. ASSUME NEW j \in Jobs, Prune(j)
      PROVE  unchecked' = unchecked /\ alone' = alone
  BY <1>2 DEF Prune, Glob, Scan, ScanFails, Remove, RemoveDone
<1>3. ASSUME NEW j \in Jobs, Truncate(j) \/ Write(j) \/ WriteFails(j)
      PROVE  unchecked' = unchecked /\ alone' = alone
  BY <1>3 DEF Truncate, Write, WriteFails, Fails
<1>4. ASSUME NEW j \in Jobs, Pull(j)
      PROVE  unchecked \subseteq unchecked' /\ unchecked' \subseteq Digests /\ alone' \subseteq Jobs
  BY <1>1, <1>4
  DEF Pull, PullBegin, Begins, Arrives, PullManifest, PullFetched, PullVerified, PullStops,
      PullHit, PullMiss, PullVerify, PullVerifyFails, PullMismatch, PullRemoveBad, Fails
<1>5. ASSUME NEW j \in Jobs, Delete(j) \/ CopyOver(j)
      PROVE  unchecked' = unchecked /\ alone' \subseteq Jobs
  BY <1>1, <1>5
  DEF Delete, DeleteUnlink, DeleteFails, DeleteBegin, Begins, Arrives, CopyOver, Copy, CopyCreate,
      CopyBegin, Fails
<1>6. ASSUME NEW j \in Jobs, Create(j)
      PROVE  unchecked \subseteq unchecked' /\ unchecked' \subseteq Digests /\ alone' \subseteq Jobs
  BY <1>1, <1>6
  DEF Create, CreateBegin, Begins, Arrives, CreateFrom, CreateBased, CreateStuck, CreateStops,
      CreateBase, CreateDrop, CreateLayer, CreateConfig, NewLayer, Fails
<1>7. ASSUME NEW S \in SUBSET Jobs, NEW d \in Digests, NEW content \in {"good", "bad"},
             PullLand(S, d, content)
      PROVE  unchecked \subseteq unchecked' /\ unchecked' \subseteq Digests /\ alone' \subseteq Jobs
  BY <1>1, <1>7 DEF PullLand
<1>8. ASSUME Crash \/ Stutter
      PROVE  unchecked' = unchecked /\ alone' \subseteq Jobs
  BY <1>1, <1>8 DEF Crash, Stutter
<1> QED
  BY <1>1, <1>2, <1>3, <1>4, <1>5, <1>6, <1>7, <1>8 DEF Next, Step

LEMMA PullInv ==
  ASSUME IInv, History, NEW j \in Jobs, Pull(j)
  PROVE  IInv'
<1>1. ASSUME PullManifest(j) PROVE IInv'
  <2>1. PICK L \in Registry[job[j].name] :
          Goes(j, [job[j] EXCEPT !.pc = "fetch", !.layers = L, !.todo = L])
    BY <1>1 DEF PullManifest
  <2>2. job[j].name \in Names /\ job[j].pc = "manifest" /\ UNCHANGED files
    BY <1>1 DEF PullManifest, IInv, Sound
  <2>3. L \in SUBSET Digests
    BY <2>2, StoreAssumption
  <2>4. job' = [job EXCEPT ![j] = [@ EXCEPT !.pc = "fetch", !.layers = L, !.todo = L]]
    BY <2>1 DEF Goes
  <2> QED
    BY <2>2, <2>3, <2>4, PullManifestKeeps
<1>2. ASSUME NEW d \in Digests, PullVerifyFails(j, d) PROVE IInv'
  BY <1>2, EndsKeeps DEF PullVerifyFails, Fails
<1> QED
  BY <1>1, <1>2, PullBeginKeeps, PullHitKeeps, PullMissKeeps, PullFetchedKeeps, PullVerifyKeeps,
     PullVerifiedKeeps, PullMismatchKeeps, PullRemoveBadKeeps, PullStopsKeeps
  DEF Pull

LEMMA CreateInv ==
  ASSUME IInv, History, NEW j \in Jobs, Create(j)
  PROVE  IInv'
<1>1. ASSUME NEW d \in Digests, CreateLayer(j, d) \/ CreateConfig(j, d) PROVE IInv'
  BY <1>1, NewLayerKeeps DEF CreateLayer, CreateConfig
<1>2. ASSUME CreateStops(j) PROVE IInv'
  BY <1>2, EndsKeeps DEF CreateStops, Fails
<1> QED
  BY <1>1, <1>2, CreateBeginKeeps, CreateFromKeeps, CreateBaseKeeps, CreateBasedKeeps,
     CreateDropKeeps, CreateStuckKeeps
  DEF Create

LEMMA NextInv ==
  ASSUME IInv, Next
  PROVE  IInv'
<1>1. History
  BY NextHistory
<1>2. ASSUME NEW j \in Jobs, Prune(j) PROVE IInv'
  <2>1. ASSUME RemoveDone(j) PROVE IInv'
    BY <1>1, <2>1, RemovedKeeps DEF RemoveDone
  <2>2. ASSUME NEW n \in Names, ScanFails(j, n) PROVE IInv'
    BY <1>1, <2>2, RemovedKeeps DEF ScanFails
  <2> QED
    BY <1>1, <1>2, <2>1, <2>2, GlobKeeps, ScanKeeps, RemoveKeeps DEF Prune
<1>3. ASSUME NEW j \in Jobs, WriteFails(j) PROVE IInv'
  BY <1>1, <1>3, EndsKeeps DEF WriteFails, Fails
<1>4. ASSUME NEW j \in Jobs, Delete(j) PROVE IInv'
  <2>1. ASSUME DeleteFails(j) PROVE IInv'
    BY <1>1, <2>1, EndsKeeps DEF DeleteFails, Fails
  <2> QED
    BY <1>1, <1>4, <2>1, DeleteUnlinkKeeps, DeleteBeginKeeps DEF Delete
<1>5. ASSUME NEW j \in Jobs, CopyOver(j) PROVE IInv'
  BY <1>1, <1>5, CopyKeeps, CopyCreateKeeps, CopyBeginKeeps DEF CopyOver
<1> QED
  BY <1>1, <1>2, <1>3, <1>4, <1>5, PullInv, CreateInv, TruncateKeeps, WriteKeeps, PullLandKeeps,
     CrashKeeps, StutterKeeps
  DEF Next, Step

LEMMA StepInv == IInv /\ [Next]_vars => IInv'
<1> SUFFICES ASSUME IInv, [Next]_vars PROVE IInv'
  OBVIOUS
<1>1. CASE Next
  BY <1>1, NextInv
<1>2. CASE UNCHANGED vars
  BY <1>2
  DEF vars, files, IInv, Types, Relied, Listed, Contest, Removing, CountsOn, Copied, Backed, Swept,
      Readable
<1> QED
  BY <1>1, <1>2

\* The inductive invariant: the types; the fields of a request fit together;
\* what a request holds and what a manifest lists is backed; and a removal has
\* found what it removes in no manifest that it has read.
THEOREM Invariant == Spec => []IInv
BY InitInv, StepInv, PTL DEF Spec

\* Files and requests keep their types (TypeOK), whatever requests run together.
THEOREM StoreTypes == Spec => []TypeOK
<1>1. ASSUME IInv PROVE TypeOK
  <2>1. \A j \in Jobs : job[j] \in JobRecord /\ Sound(job[j])
    BY <1>1 DEF IInv, Types
  <2>2. QED
    BY <1>1, <2>1 DEF IInv, Types, TypeOK, JobRecord, Sound, Running
<1> QED
  BY <1>1, Invariant, PTL

\* A layer of a listed model can be missing only if one request was removing it
\* while another counted on it, or if a bad download was used unverified.
THEOREM NoLayerLost == Spec => []LayersPresent
<1>1. ASSUME IInv PROVE LayersPresent
  BY <1>1, StoreAssumption DEF IInv, Listed, Backed, LayersPresent
<1> QED
  BY <1>1, Invariant, PTL

\* With the same exceptions, every layer of a listed model has been verified.
THEOREM ListedVerified == Spec => []LayersVerified
<1>1. ASSUME IInv PROVE LayersVerified
  BY <1>1 DEF IInv, Listed, Backed, LayersVerified
<1> QED
  BY <1>1, Invariant, PTL

-----------------------------------------------------------------------------
(* Requests that no other request runs together with: what they leave      *)
(* behind (NoGarbage), and what a pull writes (PullRepairs).               *)

\* The blob is there; if it is bad, it is one of S.
Whole(d, S) == blobs[d] # Absent /\ (blobs[d] = "bad" => d \in S)

\* What a request alone has found or got is there, and good unless it is still to
\* be verified or was taken over unverified.
Kept(r) == r.pc \notin {"open", "copy"} => \A d \in Held(r) : Whole(d, unchecked \cup r.verify)

\* What is in the manifest that a request replaces, it removes afterwards or
\* lists again.
Tended(r) ==
  /\ r.pc \notin {"idle", "done"} => r.name \in Names
  /\ \/ r.pc \in {"manifest", "unlink", "from", "base", "layer", "config"}
     \/ r.pc \in {"glob", "scan"} /\ r.then = "layer"
     => LayersOf(r.name) \subseteq r.old
  /\ r.pc \in {"fetch", "verify", "write"}
     => LayersOf(r.name) \subseteq r.old \cup Held(r)
  /\ r.pc \in {"writing", "copy"} => ~Readable(r.name)

\* What a request will list or look for before it ends.
Accounts(r) == (IF r.pc \in {"open", "copy"} THEN {} ELSE Held(r))
               \cup (IF r.pc = "writing" THEN r.old ELSE {})
               \cup (IF r.pc \in {"glob", "scan"} THEN r.del ELSE {})

\* Every blob is listed, or the request accounts for it.
Accounted(r) == \A d \in Digests : blobs[d] # Absent => InManifest(d) \/ d \in Accounts(r)

Fine(r) == Kept(r) /\ (tidy => Tended(r) /\ Accounted(r))

\* The inductive invariant, on top of IInv.
AInv == /\ \A j \in alone : \A i \in Jobs \ {j} : ~Running(i)
        /\ tidy => \A i \in Jobs : Running(i) => i \in alone
        /\ \A j \in alone : Fine(job[j])
        /\ tidy /\ Quiet => \A d \in Digests : blobs[d] # Absent => InManifest(d)

\* How a step of one request may change what holds of it when the files stay.
Moves(q, r) ==
  /\ r.pc \notin {"open", "copy"} => \A d \in Held(r) :
       \/ d \in Held(q) /\ (d \in q.verify => d \in r.verify \/ blobs[d] = "good")
       \/ Whole(d, unchecked')
  /\ tidy => Tended(r)
  /\ tidy => \A d \in Digests : d \in Accounts(q) /\ blobs[d] # Absent
                                  => InManifest(d) \/ d \in Accounts(r)

LEMMA FineMoves ==
  ASSUME History, UNCHANGED files, tidy' => tidy,
         NEW q, NEW r, q.pc \notin {"open", "copy"}, Fine(q), Moves(q, r)
  PROVE  Fine(r)'
<1>1. manifests' = manifests /\ blobs' = blobs /\ unchecked \subseteq unchecked'
  BY DEF files, History
<1>2. Kept(r)'
  BY <1>1 DEF Kept, Whole, Fine, Moves
<1>3. ASSUME tidy' PROVE Tended(r)'
  BY <1>1, <1>3 DEF Tended, Moves, Readable, LayersOf
<1>4. ASSUME tidy' PROVE Accounted(r)'
  <2>1. Accounted(r)
    BY <1>4 DEF Fine, Moves, Accounted
  <2>2. QED
    BY <1>1, <2>1 DEF Accounted, InManifest, Readable
<1> QED
  BY <1>2, <1>3, <1>4 DEF Fine

\* A request that ends accounts for nothing.
LEMMA EndAccounts ==
  ASSUME NEW r, r.pc \in {"idle", "done"}
  PROVE  Accounts(r) = {}
BY DEF Accounts, Held

\* A step of one request.
LEMMA AloneActs ==
  ASSUME IInv, AInv, NEW j \in Jobs, Running(j), alone' = alone, tidy' => tidy,
         \A i \in Jobs \ {j} : Running(i)' => Running(i),
         j \in alone => Fine(job[j])'
  PROVE  AInv'
<1>1. \A k \in alone : k = j
  BY DEF AInv, IInv, Types
<1>2. (\A k \in alone : \A i \in Jobs \ {k} : ~Running(i))'
  BY <1>1 DEF AInv
<1>3. (tidy => \A i \in Jobs : Running(i) => i \in alone)'
  BY DEF AInv
<1>4. (\A k \in alone : Fine(job[k]))'
  BY <1>1
<1>5. (tidy /\ Quiet => \A d \in Digests : blobs[d] # Absent => InManifest(d))'
  <2>1. SUFFICES ASSUME tidy', Quiet' PROVE (\A d \in Digests : blobs[d] # Absent => InManifest(d))'
    OBVIOUS
  <2>2. j \in alone
    BY <2>1 DEF AInv
  <2>3. job'[j].pc \in {"idle", "done"}
    BY <2>1 DEF Quiet, Running
  <2>4. Accounts(job'[j]) = {}
    BY <2>3, EndAccounts
  <2>5. Accounted(job[j])'
    BY <2>1, <2>2 DEF Fine
  <2>6. QED
    BY <2>4, <2>5 DEF Accounted
<1> QED
  BY <1>2, <1>3, <1>4, <1>5 DEF AInv

LEMMA AloneSteps ==
  ASSUME IInv, AInv, NEW j \in Jobs, NEW r, job' = [job EXCEPT ![j] = r],
         Running(j), alone' = alone, tidy' => tidy,
         j \in alone => Fine(r)'
  PROVE  AInv'
<1>1. job'[j] = r /\ \A i \in Jobs \ {j} : job'[i] = job[i]
  BY DEF IInv, Types
<1>2. \A i \in Jobs \ {j} : Running(i)' => Running(i)
  BY <1>1 DEF Running
<1>3. j \in alone => Fine(job[j])'
  BY <1>1
<1> QED
  BY <1>2, <1>3, AloneActs

LEMMA AloneMoves ==
  ASSUME IInv, AInv, History, NEW j \in Jobs, NEW r, job' = [job EXCEPT ![j] = r],
         UNCHANGED files, Running(j), job[j].pc \notin {"open", "copy"}, alone' = alone, tidy' => tidy,
         j \in alone /\ Fine(job[j]) => Moves(job[j], r)
  PROVE  AInv'
<1>1. PICK q : q = job[j]
  OBVIOUS
<1>2. j \in alone => Fine(q)
  BY <1>1 DEF AInv
<1>3. j \in alone => Moves(q, r)
  BY <1>1, <1>2
<1>4. j \in alone => Fine(r)'
  BY <1>1, <1>2, <1>3, FineMoves
<1> QED
  BY <1>4, AloneSteps

\* A request that will end with an error.
LEMMA AloneEnds ==
  ASSUME IInv, AInv, NEW j \in Jobs, Running(j), NEW r, job' = [job EXCEPT ![j] = r],
         r.pc \in {"done", "mismatch"}, alone' = alone, ~tidy'
  PROVE  AInv'
<1>1. Fine(r)'
  BY DEF Fine, Kept, Held
<1> QED
  BY <1>1, AloneSteps

LEMMA AloneFails ==
  ASSUME IInv, AInv, NEW j \in Jobs, Running(j), Fails(j)
  PROVE  AInv'
<1>1. job' = [job EXCEPT ![j] = Done] /\ alone' = alone /\ ~tidy' /\ Done.pc = "done"
  BY DEF Fails, Goes, Done, NewJob
<1> QED
  BY <1>1, AloneEnds

LEMMA GlobAlone ==
  ASSUME IInv, AInv, History, NEW j \in Jobs, Glob(j)
  PROVE  AInv'
<1>1. job \in [Jobs -> JobRecord] /\ job[j] \in JobRecord /\ Sound(job[j])
  BY DEF IInv, Types
<1> DEFINE r == [job[j] EXCEPT !.pc = "scan", !.scan = {n \in Names : manifests[n] # Absent}]
<1>2. /\ job' = [job EXCEPT ![j] = r] /\ UNCHANGED files
      /\ Running(j) /\ job[j].pc \notin {"open", "copy"} /\ alone' = alone /\ tidy' = tidy
  BY DEF Glob, Goes, Running
<1>3. /\ r.pc = "scan" /\ job[j].pc = "glob"
      /\ r.name = job[j].name /\ r.from = job[j].from /\ r.layers = job[j].layers /\ r.todo = job[j].todo
      /\ r.verify = job[j].verify /\ r.old = job[j].old /\ r.del = job[j].del /\ r.then = job[j].then
  BY <1>1 DEF Glob, JobRecord
<1> HIDE DEF r
<1>5. ASSUME Fine(job[j]) PROVE Moves(job[j], r)
  BY <1>1, <1>3, <1>5 DEF Moves, Fine, Tended, Accounts, Held, Sound, JobRecord
<1> QED
  BY <1>2, <1>5, AloneMoves

LEMMA PullMissAlone ==
  ASSUME IInv, AInv, History, NEW j \in Jobs, NEW d \in Digests, PullMiss(j, d)
  PROVE  AInv'
<1>1. job \in [Jobs -> JobRecord] /\ job[j] \in JobRecord /\ Sound(job[j])
  BY DEF IInv, Types
<1> DEFINE r == [job[j] EXCEPT !.get = d]
<1>2. /\ job' = [job EXCEPT ![j] = r] /\ UNCHANGED files
      /\ Running(j) /\ job[j].pc \notin {"open", "copy"} /\ alone' = alone /\ tidy' = tidy
  BY DEF PullMiss, Goes, Running
<1>3. /\ job[j].pc = "fetch"
      /\ r.pc = job[j].pc /\ r.name = job[j].name /\ r.from = job[j].from /\ r.layers = job[j].layers
      /\ r.todo = job[j].todo /\ r.verify = job[j].verify /\ r.old = job[j].old /\ r.del = job[j].del /\ r.then = job[j].then
  BY <1>1 DEF PullMiss, JobRecord
<1> HIDE DEF r
<1>5. ASSUME Fine(job[j]) PROVE Moves(job[j], r)
  BY <1>1, <1>3, <1>5 DEF Moves, Fine, Tended, Accounts, Held, Sound, JobRecord
<1> QED
  BY <1>2, <1>5, AloneMoves

LEMMA PullFetchedAlone ==
  ASSUME IInv, AInv, History, NEW j \in Jobs, PullFetched(j)
  PROVE  AInv'
<1>1. job \in [Jobs -> JobRecord] /\ job[j] \in JobRecord /\ Sound(job[j])
  BY DEF IInv, Types
<1> DEFINE r == [job[j] EXCEPT !.pc = "verify"]
<1>2. /\ job' = [job EXCEPT ![j] = r] /\ UNCHANGED files
      /\ Running(j) /\ job[j].pc \notin {"open", "copy"} /\ alone' = alone /\ tidy' = tidy
  BY DEF PullFetched, Goes, Running
<1>3. /\ r.pc = "verify" /\ job[j].pc = "fetch"
      /\ r.name = job[j].name /\ r.from = job[j].from /\ r.layers = job[j].layers /\ r.todo = job[j].todo
      /\ r.verify = job[j].verify /\ r.old = job[j].old /\ r.del = job[j].del /\ r.then = job[j].then
  BY <1>1 DEF PullFetched, JobRecord
<1> HIDE DEF r
<1>5. ASSUME Fine(job[j]) PROVE Moves(job[j], r)
  BY <1>1, <1>3, <1>5 DEF Moves, Fine, Tended, Accounts, Held, Sound, JobRecord
<1> QED
  BY <1>2, <1>5, AloneMoves

LEMMA PullVerifyAlone ==
  ASSUME IInv, AInv, History, NEW j \in Jobs, NEW d \in Digests, PullVerify(j, d)
  PROVE  AInv'
<1>1. job \in [Jobs -> JobRecord] /\ job[j] \in JobRecord /\ Sound(job[j])
  BY DEF IInv, Types
<1> DEFINE r == [job[j] EXCEPT !.verify = @ \ {d}]
<1>2. /\ job' = [job EXCEPT ![j] = r] /\ UNCHANGED files
      /\ Running(j) /\ job[j].pc \notin {"open", "copy"} /\ alone' = alone /\ tidy' = tidy
  BY DEF PullVerify, Goes, Running
<1>3. /\ r.verify = job[j].verify \ {d} /\ job[j].pc = "verify"
      /\ r.pc = job[j].pc /\ r.name = job[j].name /\ r.from = job[j].from /\ r.layers = job[j].layers
      /\ r.todo = job[j].todo /\ r.old = job[j].old /\ r.del = job[j].del /\ r.then = job[j].then
      /\ blobs[d] = "good"
  BY <1>1 DEF PullVerify, JobRecord
<1> HIDE DEF r
<1>5. ASSUME Fine(job[j]) PROVE Moves(job[j], r)
  BY <1>1, <1>3, <1>5 DEF Moves, Fine, Tended, Accounts, Held, Sound, JobRecord
<1> QED
  BY <1>2, <1>5, AloneMoves

LEMMA PullVerifiedAlone ==
  ASSUME IInv, AInv, History, NEW j \in Jobs, PullVerified(j)
  PROVE  AInv'
<1>1. job \in [Jobs -> JobRecord] /\ job[j] \in JobRecord /\ Sound(job[j])
  BY DEF IInv, Types
<1> DEFINE r == [job[j] EXCEPT !.pc = "write", !.old = @ \ job[j].layers]
<1>2. /\ job' = [job EXCEPT ![j] = r] /\ UNCHANGED files
      /\ Running(j) /\ job[j].pc \notin {"open", "copy"} /\ alone' = alone /\ tidy' = tidy
  BY DEF PullVerified, Goes, Running
<1>3. /\ r.pc = "write" /\ r.old = job[j].old \ job[j].layers /\ job[j].pc = "verify"
      /\ r.name = job[j].name /\ r.from = job[j].from /\ r.layers = job[j].layers /\ r.todo = job[j].todo
      /\ r.verify = job[j].verify /\ r.del = job[j].del /\ r.then = job[j].then
  BY <1>1 DEF PullVerified, JobRecord
<1> HIDE DEF r
<1>5. ASSUME Fine(job[j]) PROVE Moves(job[j], r)
  BY <1>1, <1>3, <1>5 DEF Moves, Fine, Tended, Accounts, Held, Sound, JobRecord
<1> QED
  BY <1>2, <1>5, AloneMoves

LEMMA PullHitAlone ==
  ASSUME IInv, AInv, History, NEW j \in Jobs, NEW d \in Digests, PullHit(j, d)
  PROVE  AInv'
<1>1. job \in [Jobs -> JobRecord] /\ job[j] \in JobRecord /\ Sound(job[j])
  BY DEF IInv, Types
<1> DEFINE r == [job[j] EXCEPT !.todo = @ \ {d}, !.old = @ \ {d}]
<1>2. /\ job' = [job EXCEPT ![j] = r] /\ UNCHANGED files
      /\ Running(j) /\ job[j].pc \notin {"open", "copy"} /\ alone' = alone /\ tidy' = tidy
  BY DEF PullHit, Goes, Running
<1>4. Whole(d, unchecked')
  BY DEF PullHit, Cached, Whole
<1>3. /\ r.todo = job[j].todo \ {d} /\ r.old = job[j].old \ {d} /\ job[j].pc = "fetch"
      /\ r.pc = job[j].pc /\ r.name = job[j].name /\ r.from = job[j].from /\ r.layers = job[j].layers
      /\ r.verify = job[j].verify /\ r.del = job[j].del /\ r.then = job[j].then
      /\ d \in job[j].todo
  BY <1>1 DEF PullHit, JobRecord
<1> HIDE DEF r
<1>5. ASSUME Fine(job[j]) PROVE Moves(job[j], r)
  BY <1>1, <1>3, <1>5, <1>4 DEF Moves, Fine, Tended, Accounts, Held, Sound, JobRecord
<1> QED
  BY <1>2, <1>5, AloneMoves

LEMMA CreateBaseAlone ==
  ASSUME IInv, AInv, History, NEW j \in Jobs, NEW d \in Digests, CreateBase(j, d)
  PROVE  AInv'
<1>1. job \in [Jobs -> JobRecord] /\ job[j] \in JobRecord /\ Sound(job[j])
  BY DEF IInv, Types
<1> DEFINE r == [job[j] EXCEPT !.todo = @ \ {d}]
<1>2. /\ job' = [job EXCEPT ![j] = r] /\ UNCHANGED files
      /\ Running(j) /\ job[j].pc \notin {"open", "copy"} /\ alone' = alone /\ tidy' = tidy
  BY DEF CreateBase, Goes, Running
<1>4. Whole(d, unchecked')
  BY DEF CreateBase, Whole
<1>3. /\ r.todo = job[j].todo \ {d} /\ job[j].pc = "base"
      /\ r.pc = job[j].pc /\ r.name = job[j].name /\ r.from = job[j].from /\ r.layers = job[j].layers
      /\ r.verify = job[j].verify /\ r.old = job[j].old /\ r.del = job[j].del /\ r.then = job[j].then
      /\ d \in job[j].todo
  BY <1>1 DEF CreateBase, JobRecord
<1> HIDE DEF r
<1>5. ASSUME Fine(job[j]) PROVE Moves(job[j], r)
  BY <1>1, <1>3, <1>5, <1>4 DEF Moves, Fine, Tended, Accounts, Held, Sound, JobRecord
<1> QED
  BY <1>2, <1>5, AloneMoves

LEMMA CreateBasedAlone ==
  ASSUME IInv, AInv, History, NEW j \in Jobs, CreateBased(j)
  PROVE  AInv'
<1>1. job \in [Jobs -> JobRecord] /\ job[j] \in JobRecord /\ Sound(job[j])
  BY DEF IInv, Types
<1> DEFINE r == [job[j] EXCEPT !.pc = "layer"]
<1>2. /\ job' = [job EXCEPT ![j] = r] /\ UNCHANGED files
      /\ Running(j) /\ job[j].pc \notin {"open", "copy"} /\ alone' = alone /\ tidy' = tidy
  BY DEF CreateBased, Goes, Running
<1>3. /\ r.pc = "layer" /\ job[j].pc = "base"
      /\ r.name = job[j].name /\ r.from = job[j].from /\ r.layers = job[j].layers /\ r.todo = job[j].todo
      /\ r.verify = job[j].verify /\ r.old = job[j].old /\ r.del = job[j].del /\ r.then = job[j].then
  BY <1>1 DEF CreateBased, JobRecord
<1> HIDE DEF r
<1>5. ASSUME Fine(job[j]) PROVE Moves(job[j], r)
  BY <1>1, <1>3, <1>5 DEF Moves, Fine, Tended, Accounts, Held, Sound, JobRecord
<1> QED
  BY <1>2, <1>5, AloneMoves

LEMMA CreateDropAlone ==
  ASSUME IInv, AInv, History, NEW j \in Jobs, NEW d \in Digests, CreateDrop(j, d)
  PROVE  AInv'
<1>1. job \in [Jobs -> JobRecord] /\ job[j] \in JobRecord /\ Sound(job[j])
  BY DEF IInv, Types
<1> DEFINE r == [job[j] EXCEPT !.layers = @ \ {d}, !.pc = "glob", !.del = {d}, !.then = "layer"]
<1>2. /\ job' = [job EXCEPT ![j] = r] /\ UNCHANGED files
      /\ Running(j) /\ job[j].pc \notin {"open", "copy"} /\ alone' = alone /\ tidy' = tidy
  BY DEF CreateDrop, Removal, Goes, Running
<1>3. /\ r.pc = "glob" /\ r.layers = job[j].layers \ {d} /\ r.del = {d} /\ r.then = "layer" /\ job[j].pc = "layer"
      /\ r.name = job[j].name /\ r.from = job[j].from /\ r.todo = job[j].todo /\ r.verify = job[j].verify
      /\ r.old = job[j].old
  BY <1>1 DEF CreateDrop, Removal, JobRecord
<1> HIDE DEF r
<1>5. ASSUME Fine(job[j]) PROVE Moves(job[j], r)
  BY <1>1, <1>3, <1>5 DEF Moves, Fine, Tended, Accounts, Held, Sound, JobRecord
<1> QED
  BY <1>2, <1>5, AloneMoves

LEMMA ScanAlone ==
  ASSUME IInv, AInv, History, NEW j \in Jobs, NEW n \in Names, Scan(j, n)
  PROVE  AInv'
<1>1. job \in [Jobs -> JobRecord] /\ job[j] \in JobRecord /\ Sound(job[j])
  BY DEF IInv, Types
<1> DEFINE r == [job[j] EXCEPT !.scan = @ \ {n}, !.del = Spare(j, n)]
<1>2. /\ job' = [job EXCEPT ![j] = r] /\ UNCHANGED files
      /\ Running(j) /\ job[j].pc \notin {"open", "copy"} /\ alone' = alone /\ tidy' = tidy
  BY DEF Scan, Goes, Running
<1>4. \A d \in LayersOf(n) : InManifest(d)
  BY DEF LayersOf, InManifest
<1>3. /\ r.del = job[j].del \ LayersOf(n) /\ job[j].pc = "scan"
      /\ r.pc = job[j].pc /\ r.name = job[j].name /\ r.from = job[j].from /\ r.layers = job[j].layers
      /\ r.todo = job[j].todo /\ r.verify = job[j].verify /\ r.old = job[j].old /\ r.then = job[j].then
  BY <1>1 DEF Scan, Spare, JobRecord
<1> HIDE DEF r
<1>5. ASSUME Fine(job[j]) PROVE Moves(job[j], r)
  BY <1>1, <1>3, <1>5, <1>4 DEF Moves, Fine, Tended, Accounts, Held, Sound, JobRecord
<1> QED
  BY <1>2, <1>5, AloneMoves


LEMMA PullManifestAlone ==
  ASSUME IInv, AInv, History, NEW j \in Jobs, PullManifest(j)
  PROVE  AInv'
<1>1. job \in [Jobs -> JobRecord] /\ job[j] \in JobRecord /\ Sound(job[j])
  BY DEF IInv, Types
<1>2. PICK L \in Registry[job[j].name] :
        job' = [job EXCEPT ![j] = [@ EXCEPT !.pc = "fetch", !.layers = L, !.todo = L]]
  BY DEF PullManifest, Goes
<1> DEFINE r == [job[j] EXCEPT !.pc = "fetch", !.layers = L, !.todo = L]
<1>3. /\ job' = [job EXCEPT ![j] = r] /\ UNCHANGED files
      /\ Running(j) /\ job[j].pc = "manifest" /\ alone' = alone /\ tidy' = tidy
  BY <1>1, <1>2 DEF PullManifest, Running
<1>4. /\ r.pc = "fetch" /\ r.layers = r.todo /\ r.name = job[j].name /\ r.old = job[j].old
  BY <1>1 DEF JobRecord
<1> HIDE DEF r
<1>5. ASSUME Fine(job[j]) PROVE Moves(job[j], r)
  BY <1>3, <1>4, <1>5 DEF Moves, Fine, Tended, Accounts, Held
<1> QED
  BY <1>3, <1>5, AloneMoves

LEMMA CreateFromAlone ==
  ASSUME IInv, AInv, History, NEW j \in Jobs, CreateFrom(j)
  PROVE  AInv'
<1>1. job \in [Jobs -> JobRecord] /\ job[j] \in JobRecord /\ Sound(job[j])
  BY DEF IInv, Types
<1> DEFINE L == manifests[job[j].from] \ Configs
<1> DEFINE r == [job[j] EXCEPT !.pc = "base", !.layers = L, !.todo = L]
<1>3. /\ job' = [job EXCEPT ![j] = r] /\ UNCHANGED files
      /\ Running(j) /\ job[j].pc = "from" /\ alone' = alone /\ tidy' = tidy
  BY <1>1 DEF CreateFrom, Goes, Running
<1>4. /\ r.pc = "base" /\ r.layers = r.todo /\ r.name = job[j].name /\ r.old = job[j].old
  BY <1>1 DEF JobRecord
<1> HIDE DEF r
<1>5. ASSUME Fine(job[j]) PROVE Moves(job[j], r)
  BY <1>3, <1>4, <1>5 DEF Moves, Fine, Tended, Accounts, Held
<1> QED
  BY <1>3, <1>5, AloneMoves

\* The end of a removal: of what is left to remove nothing is there.
LEMMA RemovedAlone ==
  ASSUME IInv, AInv, History, NEW j \in Jobs, RemoveDone(j)
  PROVE  AInv'
<1>1. job \in [Jobs -> JobRecord] /\ job[j] \in JobRecord /\ Sound(job[j])
  BY DEF IInv, Types
<1>2. /\ job' = [job EXCEPT ![j] = Removed(job[j])] /\ UNCHANGED files
      /\ Running(j) /\ job[j].pc = "scan" /\ job[j].del = {} /\ alone' = alone /\ tidy' = tidy
  BY DEF RemoveDone, Goes, Running
<1>3. CASE job[j].then = "done"
  <2>1. Removed(job[j]).pc = "done" /\ Accounts(job[j]) = {}
    BY <1>2, <1>3 DEF Removed, Done, NewJob, Accounts, Held
  <2>2. Moves(job[j], Removed(job[j]))
    BY <2>1 DEF Moves, Tended, Held
  <2> QED
    BY <1>2, <2>2, AloneMoves
<1>4. CASE job[j].then = "layer"
  <2> DEFINE r == Removed(job[j])
  <2>1. /\ r.pc = "layer" /\ r.name = job[j].name /\ r.old = job[j].old
        /\ r.layers = job[j].layers /\ r.todo = job[j].todo /\ job[j].todo = {}
        /\ r.verify = job[j].verify
    BY <1>1, <1>2, <1>4 DEF Removed, Sound, JobRecord
  <2> HIDE DEF r
  <2>2. ASSUME Fine(job[j]) PROVE Moves(job[j], r)
    BY <1>2, <1>4, <2>1, <2>2 DEF Moves, Fine, Tended, Accounts, Held
  <2> QED
    BY <1>2, <2>2, AloneMoves DEF r
<1> QED
  BY <1>1, <1>3, <1>4 DEF JobRecord

\* A request that is alone and runs, as its record stands.
LEMMA AloneRuns ==
  ASSUME IInv, AInv, NEW j \in Jobs, j \in alone
  PROVE  \E q \in JobRecord : q = job[j] /\ Sound(q) /\ Fine(q)
BY DEF IInv, Types, AInv

LEMMA RemoveAlone ==
  ASSUME IInv, AInv, History, NEW j \in Jobs, NEW d \in Digests, Remove(j, d)
  PROVE  AInv'
<1>1. PICK q \in JobRecord : q = job[j] /\ Sound(q) /\ (j \in alone => Fine(q))
  BY AloneRuns DEF IInv, Types
<1> DEFINE r == [q EXCEPT !.del = @ \ {d}]
<1>2. /\ job' = [job EXCEPT ![j] = r] /\ manifests' = manifests
      /\ blobs' = [blobs EXCEPT ![d] = Absent] /\ unchecked' = unchecked
      /\ Running(j) /\ q.pc = "scan" /\ d \in q.del /\ alone' = alone /\ tidy' = tidy
  BY <1>1 DEF Remove, Goes, Running
<1>3. blobs'[d] = Absent /\ \A e \in Digests \ {d} : blobs'[e] = blobs[e]
  BY <1>2 DEF IInv, Types
<1>4. /\ r.pc = q.pc /\ r.name = q.name /\ r.from = q.from /\ r.layers = q.layers
      /\ r.todo = q.todo /\ r.verify = q.verify /\ r.old = q.old /\ r.then = q.then
      /\ r.del = q.del \ {d}
  BY DEF JobRecord
<1> HIDE DEF r
<1>5. ASSUME Fine(q) PROVE Fine(r)'
  <2>1. Held(r) = Held(q) /\ d \notin Held(q) /\ Held(q) \subseteq Digests
    BY <1>1, <1>2, <1>4, HeldDigests DEF Held, Sound
  <2>2. Kept(r)'
    BY <1>2, <1>3, <1>4, <1>5, <2>1 DEF Kept, Fine, Whole
  <2>3. Accounts(q) \subseteq Accounts(r) \cup {d}
    BY <1>2, <1>4, <2>1 DEF Accounts
  <2>4. ASSUME tidy' PROVE Tended(r)'
    BY <1>2, <1>4, <1>5, <2>1, <2>4 DEF Fine, Tended, Readable, LayersOf
  <2>5. ASSUME tidy' PROVE Accounted(r)'
    BY <1>2, <1>3, <1>5, <2>3, <2>5 DEF Fine, Accounted, InManifest, Readable
  <2> QED
    BY <2>2, <2>4, <2>5 DEF Fine
<1> QED
  BY <1>1, <1>2, <1>5, AloneSteps

LEMMA NewLayerAlone ==
  ASSUME IInv, AInv, History, NEW j \in Jobs, NEW d \in Digests, NEW pc \in {"config", "write"},
         job[j].pc \in {"layer", "config"}, NewLayer(j, d, pc)
  PROVE  AInv'
<1>1. PICK q \in JobRecord : q = job[j] /\ Sound(q) /\ (j \in alone => Fine(q))
  BY AloneRuns DEF IInv, Types
<1> DEFINE r == [q EXCEPT !.pc = pc, !.layers = @ \cup {d}]
<1>2. /\ job' = [job EXCEPT ![j] = r] /\ manifests' = manifests
      /\ blobs' = [blobs EXCEPT ![d] = IF @ = Absent THEN "good" ELSE @]
      /\ Running(j) /\ q.pc \in {"layer", "config"} /\ alone' = alone /\ tidy' = tidy
      /\ unchecked' = unchecked \cup (IF blobs[d] = "bad" THEN {d} ELSE {})
  BY <1>1 DEF NewLayer, Goes, Running
<1>3. /\ blobs'[d] = (IF blobs[d] = Absent THEN "good" ELSE blobs[d])
      /\ \A e \in Digests \ {d} : blobs'[e] = blobs[e]
  BY <1>2 DEF IInv, Types
<1>4. /\ r.pc = pc /\ r.name = q.name /\ r.from = q.from /\ r.layers = q.layers \cup {d}
      /\ r.todo = q.todo /\ r.verify = q.verify /\ r.old = q.old
  BY DEF JobRecord
<1> HIDE DEF r
<1>5. ASSUME Fine(q) PROVE Fine(r)'
  <2>1. Held(r) = Held(q) \cup {d} /\ Held(q) \subseteq Digests
    BY <1>1, <1>2, <1>4, HeldDigests DEF Held, Sound
  <2>2. ASSUME NEW e \in Held(r) PROVE Whole(e, unchecked \cup r.verify)'
    <3>1. CASE e = d
      BY <1>2, <1>3, <3>1, StoreAssumption DEF Whole
    <3>2. CASE e # d
      BY <1>2, <1>3, <1>4, <1>5, <2>1, <2>2, <3>2 DEF Kept, Fine, Whole
    <3> QED
      BY <3>1, <3>2
  <2>3. Kept(r)'
    BY <2>2 DEF Kept
  <2>4. Accounts(r) = Accounts(q) \cup {d}
    BY <1>2, <1>4, <2>1 DEF Accounts
  <2>5. ASSUME tidy' PROVE Tended(r)'
    BY <1>2, <1>4, <1>5, <2>5 DEF Fine, Tended, Readable, LayersOf
  <2>6. ASSUME tidy' PROVE Accounted(r)'
    BY <1>2, <1>3, <1>5, <2>4, <2>6 DEF Fine, Accounted, InManifest, Readable
  <2> QED
    BY <2>3, <2>5, <2>6 DEF Fine
<1> QED
  BY <1>1, <1>2, <1>5, AloneSteps


LEMMA TruncateAlone ==
  ASSUME IInv, AInv, History, NEW j \in Jobs, Truncate(j)
  PROVE  AInv'
<1>1. PICK q \in JobRecord : q = job[j] /\ Sound(q) /\ (j \in alone => Fine(q))
  BY AloneRuns DEF IInv, Types
<1> DEFINE r == [q EXCEPT !.pc = "writing"]
<1>2. /\ job' = [job EXCEPT ![j] = r] /\ blobs' = blobs /\ unchecked' = unchecked
      /\ Running(j) /\ q.pc = "write" /\ alone' = alone /\ tidy' = tidy
      /\ \A n \in Names : manifests'[n] = IF n = q.name THEN Corrupt ELSE manifests[n]
  BY <1>1 DEF Truncate, WriteTo, Goes, Running
<1>3. /\ r.pc = "writing" /\ r.name = q.name /\ r.from = q.from /\ r.layers = q.layers
      /\ r.todo = q.todo /\ r.verify = q.verify /\ r.old = q.old
  BY DEF JobRecord
<1> HIDE DEF r
<1>4. ASSUME Fine(q) PROVE Fine(r)'
  <2>1. Held(r) = Held(q)
    BY <1>2, <1>3 DEF Held
  <2>2. Kept(r)'
    BY <1>2, <1>3, <1>4, <2>1 DEF Kept, Fine, Whole
  <2>3. Accounts(r) = Accounts(q) \cup q.old /\ Held(q) \subseteq Accounts(q)
    BY <1>2, <1>3, <2>1 DEF Accounts
  <2>4. ASSUME tidy' PROVE Tended(r)'
    BY <1>2, <1>3, <1>4, <2>4 DEF Fine, Tended, Readable
  <2>5. ASSUME tidy' PROVE Accounted(r)'
    <3>1. SUFFICES ASSUME NEW d \in Digests, blobs[d] # Absent, d \notin Accounts(r)
                   PROVE  InManifest(d)'
      BY <1>2 DEF Accounted
    <3>2. PICK n \in Names : Readable(n) /\ d \in manifests[n]
      BY <1>2, <1>4, <2>3, <2>5, <3>1 DEF Fine, Accounted, InManifest
    <3>3. n # q.name
      BY <1>2, <1>4, <2>3, <2>5, <3>1, <3>2 DEF Fine, Tended, LayersOf
    <3> QED
      BY <1>2, <3>2, <3>3 DEF InManifest, Readable
  <2> QED
    BY <2>2, <2>4, <2>5 DEF Fine
<1> QED
  BY <1>1, <1>2, <1>4, AloneSteps

LEMMA WriteAlone ==
  ASSUME IInv, AInv, History, NEW j \in Jobs, Write(j)
  PROVE  AInv'
<1>1. PICK q \in JobRecord : q = job[j] /\ Sound(q) /\ (j \in alone => Fine(q))
  BY AloneRuns DEF IInv, Types
<1> DEFINE r == IF q.old = {} THEN Done ELSE Removal(q, q.old, "done")
<1>2. /\ job' = [job EXCEPT ![j] = r] /\ blobs' = blobs
      /\ Running(j) /\ q.pc = "writing" /\ alone' = alone /\ tidy' = tidy
      /\ \A n \in Names : manifests'[n] = IF n = q.name THEN q.layers ELSE manifests[n]
  BY <1>1 DEF Write, WriteTo, Goes, Running
<1>3. Accounts(r) = q.old /\ Held(r) = {} /\ (q.old # {} => r.pc = "glob" /\ r.name = q.name)
      /\ r.pc \in {"glob", "done"} /\ r.then = "done"
  <2>1. CASE q.old = {}
    <3>1. r.pc = "done" /\ r.then = "done"
      BY <2>1 DEF Done, NewJob
    <3> HIDE DEF r
    <3> QED
      BY <2>1, <3>1 DEF Accounts, Held
  <2>2. CASE q.old # {}
    <3>1. r.pc = "glob" /\ r.del = q.old /\ r.then = "done" /\ r.name = q.name
      BY <2>2 DEF Removal, JobRecord
    <3> HIDE DEF r
    <3> QED
      BY <3>1 DEF Accounts, Held
  <2> QED
    BY <2>1, <2>2
<1>4. q.layers \notin {Absent, Corrupt} /\ Accounts(q) = q.layers \cup q.old
  BY <1>1, <1>2, StoreAssumption DEF Sound, Accounts, Held
<1>5. ASSUME q.old = {} PROVE r.pc = "done"
  BY <1>5 DEF Done, NewJob
<1> HIDE DEF r
<1>6. ASSUME Fine(q) PROVE Fine(r)'
  <2>1. Kept(r)'
    BY <1>3 DEF Kept
  <2>2. ASSUME tidy' PROVE Tended(r)'
    BY <1>2, <1>3, <1>5, <1>6, <2>2 DEF Fine, Tended
  <2>3. ASSUME tidy' PROVE Accounted(r)'
    <3>1. SUFFICES ASSUME NEW d \in Digests, blobs[d] # Absent, d \notin Accounts(r)
                   PROVE  InManifest(d)'
      BY <1>2 DEF Accounted
    <3>2. q.name \in Names /\ ~Readable(q.name)
      BY <1>2, <1>6, <2>3 DEF Fine, Tended
    <3>3. CASE d \in q.layers
      BY <1>2, <1>4, <3>2, <3>3 DEF InManifest, Readable
    <3>4. CASE d \notin q.layers
      <4>1. InManifest(d)
        BY <1>2, <1>3, <1>4, <1>6, <2>3, <3>1, <3>4 DEF Fine, Accounted
      <4> QED
        BY <1>2, <3>2, <4>1 DEF InManifest, Readable
    <3> QED
      BY <3>3, <3>4
  <2> QED
    BY <2>1, <2>2, <2>3 DEF Fine
<1> QED
  BY <1>1, <1>2, <1>6, AloneSteps

\* As long as no request has failed, none has left a download behind.
Left == tidy => \A i \in Jobs : job[i].pc = "done" => job[i].get = None

LEMMA LeftMoves ==
  ASSUME IInv, Left, NEW j \in Jobs, NEW r, job' = [job EXCEPT ![j] = r], tidy' => tidy,
         r.pc = "done" => r.get = None
  PROVE  Left'
BY DEF Left, IInv, Types

LEMMA StepLeft ==
  ASSUME IInv, Left, Next
  PROVE  Left'
<1>1. \A i \in Jobs : job[i] \in JobRecord
  BY DEF IInv, Types
<1>2. Done.pc = "done" /\ Done.get = None
  BY DEF Done, NewJob
<1>3. ASSUME ~tidy' PROVE Left'
  BY <1>3 DEF Left
<1>4. ASSUME NEW j \in Jobs, Goes(j, Done), tidy' => tidy PROVE Left'
  BY <1>2, <1>4, LeftMoves DEF Goes
<1>5. ASSUME NEW j \in Jobs, Glob(j) PROVE Left'
  BY <1>1, <1>5, LeftMoves DEF Glob, Goes, JobRecord
<1>6. ASSUME NEW j \in Jobs, NEW n \in Names, Scan(j, n) PROVE Left'
  BY <1>1, <1>6, LeftMoves DEF Scan, Spare, Goes, JobRecord
<1>7. ASSUME NEW j \in Jobs, NEW d \in Digests, Remove(j, d) PROVE Left'
  BY <1>1, <1>7, LeftMoves DEF Remove, Goes, JobRecord
<1>8. ASSUME NEW j \in Jobs, RemoveDone(j) PROVE Left'
  <2>1. Removed(job[j]).pc = "done" => Removed(job[j]).get = None
    BY <1>1, <1>2 DEF Removed, JobRecord
  <2> QED
    BY <1>8, <2>1, LeftMoves DEF RemoveDone, Goes
<1>9. ASSUME NEW j \in Jobs, Truncate(j) PROVE Left'
  BY <1>1, <1>9, LeftMoves DEF Truncate, Goes, JobRecord
<1>10. ASSUME NEW j \in Jobs, Write(j) PROVE Left'
  <2> DEFINE r == IF job[j].old = {} THEN Done ELSE Removal(job[j], job[j].old, "done")
  <2>1. r.pc = "done" => r.get = None
    BY <1>1, <1>2 DEF Removal, JobRecord
  <2>2. job' = [job EXCEPT ![j] = r] /\ tidy' = tidy
    BY <1>10 DEF Write, Goes
  <2> HIDE DEF r
  <2> QED
    BY <2>1, <2>2, LeftMoves
<1>11. ASSUME NEW j \in Jobs, NEW r, Begins(j, r), r.pc # "done" PROVE Left'
  BY <1>11, LeftMoves DEF Begins, Goes
<1>12. ASSUME NEW j \in Jobs, Pull(j) PROVE Left'
  <2>1. ASSUME NEW n \in Names, PullBegin(j, n) PROVE Left'
    BY <1>11, <2>1 DEF PullBegin, NewJob
  <2>2. ASSUME PullManifest(j) PROVE Left'
    <3>1. PICK L : job' = [job EXCEPT ![j] = [job[j] EXCEPT !.pc = "fetch", !.layers = L, !.todo = L]]
      BY <2>2 DEF PullManifest, Goes
    <3>2. [job[j] EXCEPT !.pc = "fetch", !.layers = L, !.todo = L].pc = "fetch"
      BY <1>1 DEF JobRecord
    <3> QED
      BY <2>2, <3>1, <3>2, LeftMoves DEF PullManifest
  <2>3. ASSUME PullFetched(j) \/ PullVerified(j) PROVE Left'
    <3>1. CASE PullFetched(j)
      BY <1>1, <3>1, LeftMoves DEF PullFetched, Goes, JobRecord
    <3>2. CASE PullVerified(j)
      BY <1>1, <3>2, LeftMoves DEF PullVerified, Goes, JobRecord
    <3> QED
      BY <2>3, <3>1, <3>2
  <2>4. ASSUME NEW d \in Digests, PullHit(j, d) \/ PullMiss(j, d) \/ PullVerify(j, d)
        PROVE  Left'
    <3>1. CASE PullHit(j, d)
      BY <1>1, <3>1, LeftMoves DEF PullHit, Goes, JobRecord
    <3>2. CASE PullMiss(j, d)
      BY <1>1, <3>2, LeftMoves DEF PullMiss, Goes, JobRecord
    <3>3. CASE PullVerify(j, d)
      BY <1>1, <3>3, LeftMoves DEF PullVerify, Goes, JobRecord
    <3> QED
      BY <2>4, <3>1, <3>2, <3>3
  <2>5. ASSUME NEW d \in Digests, PullVerifyFails(j, d) \/ PullMismatch(j, d) PROVE Left'
    BY <1>3, <2>5 DEF PullVerifyFails, PullMismatch, Fails
  <2>6. ASSUME PullStops(j) \/ PullRemoveBad(j) PROVE Left'
    BY <1>3, <2>6 DEF PullStops, PullRemoveBad, Fails
  <2> QED
    BY <1>12, <2>1, <2>2, <2>3, <2>4, <2>5, <2>6 DEF Pull
<1>13. ASSUME NEW j \in Jobs, DeleteUnlink(j) PROVE Left'
  <2>1. \A i \in Jobs \ {j} : job'[i].pc = job[i].pc /\ job'[i].get = job[i].get
    BY <1>1, <1>13 DEF DeleteUnlink, Unlinked, JobRecord
  <2>2. job'[j].pc = "glob"
    BY <1>1, <1>13 DEF DeleteUnlink, Removal, JobRecord
  <2> QED
    BY <1>13, <2>1, <2>2 DEF Left, DeleteUnlink
<1>14. ASSUME NEW j \in Jobs, Delete(j) PROVE Left'
  <2>1. ASSUME NEW n \in Names, DeleteBegin(j, n) PROVE Left'
    BY <1>11, <2>1 DEF DeleteBegin, NewJob
  <2> QED
    BY <1>3, <1>13, <1>14, <2>1 DEF Delete, DeleteFails, Fails
<1>15. ASSUME NEW j \in Jobs, CopyOver(j) PROVE Left'
  <2>1. ASSUME NEW n \in Names, NEW m \in Names, CopyBegin(j, n, m) PROVE Left'
    BY <1>11, <2>1 DEF CopyBegin, NewJob
  <2>2. ASSUME CopyCreate(j) PROVE Left'
    BY <1>1, <2>2, LeftMoves DEF CopyCreate, Goes, JobRecord
  <2>3. ASSUME Copy(j) PROVE Left'
    BY <1>4, <2>3 DEF Copy
  <2> QED
    BY <1>15, <2>1, <2>2, <2>3 DEF CopyOver
<1>16. ASSUME NEW j \in Jobs, Create(j) PROVE Left'
  <2>1. ASSUME NEW n \in Names, NEW m \in Names, CreateBegin(j, n, m) PROVE Left'
    BY <1>11, <2>1 DEF CreateBegin, NewJob
  <2>2. ASSUME CreateFrom(j) \/ CreateBased(j) PROVE Left'
    <3>1. CASE CreateFrom(j)
      BY <1>1, <3>1, LeftMoves DEF CreateFrom, Goes, JobRecord
    <3>2. CASE CreateBased(j)
      BY <1>1, <3>2, LeftMoves DEF CreateBased, Goes, JobRecord
    <3> QED
      BY <2>2, <3>1, <3>2
  <2>3. ASSUME NEW d \in Digests, CreateBase(j, d) \/ CreateDrop(j, d) PROVE Left'
    <3>1. CASE CreateBase(j, d)
      BY <1>1, <3>1, LeftMoves DEF CreateBase, Goes, JobRecord
    <3>2. CASE CreateDrop(j, d)
      BY <1>1, <3>2, LeftMoves DEF CreateDrop, Removal, Goes, JobRecord
    <3> QED
      BY <2>3, <3>1, <3>2
  <2>4. ASSUME NEW d \in Digests, CreateLayer(j, d) \/ CreateConfig(j, d) PROVE Left'
    <3>1. ASSUME NEW pc \in {"config", "write"}, NewLayer(j, d, pc) PROVE Left'
      BY <1>1, <3>1, LeftMoves DEF NewLayer, Goes, JobRecord
    <3> QED
      BY <2>4, <3>1 DEF CreateLayer, CreateConfig
  <2>5. ASSUME CreateStuck(j) \/ CreateStops(j) PROVE Left'
    BY <1>3, <2>5 DEF CreateStuck, CreateStops, Fails
  <2> QED
    BY <1>16, <2>1, <2>2, <2>3, <2>4, <2>5 DEF Create
<1>17. ASSUME NEW S \in SUBSET Jobs, NEW d \in Digests, NEW content \in {"good", "bad"},
              PullLand(S, d, content)
       PROVE  Left'
  <2>1. \A i \in Jobs : \/ job'[i] = job[i] \/ job'[i] = Done
                       \/ job'[i] = Landed(job[i])
    BY <1>17 DEF PullLand
  <2>2. \A i \in Jobs : Landed(job[i]).get = None
    BY <1>1 DEF Landed, JobRecord
  <2> QED
    BY <1>2, <1>17, <2>1, <2>2 DEF Left, PullLand
<1>18. ASSUME NEW j \in Jobs, NEW n \in Names, ScanFails(j, n) PROVE Left'
  BY <1>3, <1>18 DEF ScanFails
<1>19. ASSUME NEW j \in Jobs, WriteFails(j) PROVE Left'
  BY <1>3, <1>19 DEF WriteFails, Fails
<1>20. ASSUME Crash PROVE Left'
  BY <1>3, <1>20 DEF Crash
<1>21. ASSUME Stutter PROVE Left'
  BY <1>21 DEF Stutter, Left
<1>22. ASSUME NEW j \in Jobs, Prune(j) PROVE Left'
  BY <1>5, <1>6, <1>7, <1>8, <1>18, <1>22 DEF Prune
<1> QED
  BY <1>9, <1>10, <1>12, <1>14, <1>15, <1>16, <1>17, <1>19, <1>20, <1>21, <1>22 DEF Next, Step

\* A download that lands with at least one request still waiting for it.
LEMMA PullLandAwaited ==
  ASSUME IInv, AInv, History, NEW S \in SUBSET Jobs, NEW d \in Digests,
         NEW content \in {"good", "bad"}, PullLand(S, d, content), \E i \in S : Running(i)
  PROVE  AInv'
<1>1. PICK j \in S : j \in Jobs /\ Running(j) /\ job[j].get = d
  BY DEF PullLand
<1>2. PICK q \in JobRecord : q = job[j] /\ Sound(q) /\ (j \in alone => Fine(q))
  BY <1>1, AloneRuns DEF IInv, Types
<1>3. q.get = d /\ d # None /\ q.pc = "fetch" /\ d \in q.todo /\ Running(j)
  BY <1>1, <1>2, StoreAssumption DEF Sound, Running
<1> DEFINE r == Landed(q)
<1>4. /\ job'[j] = r /\ manifests' = manifests /\ alone' = alone /\ tidy' = tidy
      /\ blobs'[d] = content /\ \A e \in Digests \ {d} : blobs'[e] = blobs[e]
  BY <1>1, <1>2 DEF PullLand, IInv, Types
<1>5. \A i \in Jobs \ {j} : Running(i)' => Running(i)
  <2>1. \A i \in Jobs : job'[i] = job[i] \/ job'[i] = Landed(job[i]) \/ job'[i] = Done
    BY DEF PullLand
  <2>2. \A i \in Jobs : Landed(job[i]).pc = job[i].pc
    BY DEF Landed, IInv, Types, JobRecord
  <2>3. Done.pc = "done"
    BY DEF Done, NewJob
  <2> QED
    BY <2>1, <2>2, <2>3 DEF Running
<1>6. /\ r.pc = q.pc /\ r.name = q.name /\ r.from = q.from /\ r.layers = q.layers
      /\ r.todo = q.todo \ {d} /\ r.verify = q.verify \cup {d} /\ r.old = q.old \ {d}
  BY <1>3 DEF Landed, JobRecord
<1> HIDE DEF r
<1>7. ASSUME Fine(q) PROVE Fine(r)'
  <2>1. Held(r) = Held(q) \cup {d} /\ Held(q) \subseteq Digests
    BY <1>2, <1>3, <1>6, HeldDigests DEF Held, Sound
  <2>2. ASSUME NEW e \in Held(r) PROVE Whole(e, unchecked \cup r.verify)'
    <3>1. CASE e = d
      BY <1>4, <1>6, <3>1, StoreAssumption DEF Whole
    <3>2. CASE e # d
      BY <1>3, <1>4, <1>6, <1>7, <2>1, <2>2, <3>2 DEF Kept, Fine, Whole, History
    <3> QED
      BY <3>1, <3>2
  <2>3. Kept(r)'
    BY <2>2 DEF Kept
  <2>4. Accounts(r) = Accounts(q) \cup {d}
    BY <1>3, <1>6, <2>1 DEF Accounts
  <2>5. ASSUME tidy' PROVE Tended(r)'
    BY <1>3, <1>4, <1>6, <1>7, <2>1, <2>5 DEF Fine, Tended, Readable, LayersOf
  <2>6. ASSUME tidy' PROVE Accounted(r)'
    BY <1>3, <1>4, <1>7, <2>4, <2>6 DEF Fine, Accounted, InManifest, Readable
  <2> QED
    BY <2>3, <2>5, <2>6 DEF Fine
<1>8. j \in alone => Fine(job[j])'
  BY <1>2, <1>4, <1>7
<1> QED
  BY <1>1, <1>3, <1>4, <1>5, <1>8, AloneActs

\* A download that lands when nobody waits for it any more.
LEMMA PullLandUnawaited ==
  ASSUME IInv, AInv, Left, History, NEW S \in SUBSET Jobs, NEW d \in Digests,
         NEW content \in {"good", "bad"}, PullLand(S, d, content), \A i \in S : ~Running(i)
  PROVE  AInv'
<1>1. PICK j \in S : j \in Jobs /\ job[j].get = d
  BY DEF PullLand
<1>2. job[j] \in JobRecord /\ Sound(job[j]) /\ d # None
  BY <1>1, StoreAssumption DEF IInv, Types
<1>3. job[j].pc = "done"
  BY <1>1, <1>2 DEF Sound, Running
<1>4. ~tidy /\ tidy' = tidy /\ alone' = alone
  BY <1>1, <1>2, <1>3 DEF Left, PullLand
<1>5. /\ \A i \in Jobs : job'[i] = job[i] \/ (~Running(i) /\ job'[i] = Done)
      /\ blobs'[d] = content /\ \A e \in Digests \ {d} : blobs'[e] = blobs[e]
  BY DEF PullLand, IInv, Types
<1>6. Done.pc = "done" /\ Held(Done) = {}
  BY DEF Done, NewJob, Held
<1>7. \A i \in Jobs : Running(i)' => Running(i)
  BY <1>5, <1>6 DEF Running
<1>8. ASSUME NEW i \in alone PROVE Fine(job[i])'
  <2>1. i \in Jobs /\ Kept(job[i]) /\ Sound(job[i]) /\ job[i] \in JobRecord
    BY <1>8 DEF AInv, Fine, IInv, Types
  <2>2. Held(job[i]) \subseteq Digests
    BY <2>1, HeldDigests
  <2>3. CASE job'[i] = Done
    BY <1>4, <1>6, <2>3 DEF Fine, Kept
  <2>4. CASE job'[i] = job[i]
    <3>1. \A e \in Digests : \A V : Whole(e, unchecked \cup V) => Whole(e, unchecked \cup V)'
      <4>1. SUFFICES ASSUME NEW e \in Digests, NEW V, Whole(e, unchecked \cup V)
                     PROVE  blobs'[e] # Absent /\ (blobs'[e] = "bad" => e \in unchecked' \cup V)
        BY DEF Whole
      <4>2. unchecked \subseteq unchecked'
        BY DEF History
      <4>3. CASE e = d
        BY <1>5, <4>1, <4>3, StoreAssumption DEF Whole, PullLand
      <4>4. CASE e # d
        BY <1>5, <4>1, <4>2, <4>4 DEF Whole
      <4> QED
        BY <4>3, <4>4
    <3>2. Kept(job[i])'
      BY <2>1, <2>2, <2>4, <3>1 DEF Kept, Whole
    <3> QED
      BY <1>4, <3>2 DEF Fine
  <2> QED
    BY <1>5, <2>1, <2>3, <2>4
<1> QED
  BY <1>4, <1>7, <1>8 DEF AInv

LEMMA PullLandAlone ==
  ASSUME IInv, AInv, Left, History, NEW S \in SUBSET Jobs, NEW d \in Digests,
         NEW content \in {"good", "bad"}, PullLand(S, d, content)
  PROVE  AInv'
BY PullLandAwaited, PullLandUnawaited

LEMMA DeleteUnlinkAlone ==
  ASSUME IInv, AInv, History, NEW j \in Jobs, DeleteUnlink(j)
  PROVE  AInv'
<1>1. PICK q \in JobRecord : q = job[j] /\ Sound(q) /\ (j \in alone => Fine(q))
  BY AloneRuns DEF IInv, Types
<1> DEFINE r == Removal(q, q.old, "done")
<1>2. /\ job'[j] = r /\ blobs' = blobs /\ q.pc = "unlink" /\ q.name \in Names
      /\ Running(j) /\ alone' = alone /\ tidy' = tidy
      /\ \A n \in Names : manifests'[n] = IF n = q.name THEN Absent ELSE manifests[n]
  BY <1>1 DEF DeleteUnlink, Running, IInv, Types, Sound
<1>3. \A i \in Jobs \ {j} : Running(i)' => Running(i)
  <2>1. \A i \in Jobs \ {j} : job'[i] = Unlinked(job[i], job[j].name)
    BY DEF DeleteUnlink
  <2>2. \A i \in Jobs : Unlinked(job[i], job[j].name).pc = job[i].pc
    BY DEF Unlinked, IInv, Types, JobRecord
  <2> QED
    BY <2>1, <2>2 DEF Running
<1>4. r.pc = "glob" /\ r.then = "done" /\ r.name = q.name /\ Held(r) = {} /\ Accounts(r) = q.old
  BY DEF Removal, Held, Accounts, JobRecord
<1>5. Accounts(q) = {}
  BY <1>2 DEF Accounts, Held
<1> HIDE DEF r
<1>6. ASSUME Fine(q) PROVE Fine(r)'
  <2>1. Kept(r)'
    BY <1>4 DEF Kept
  <2>2. ASSUME tidy' PROVE Tended(r)'
    BY <1>2, <1>4 DEF Tended
  <2>3. ASSUME tidy' PROVE Accounted(r)'
    BY <1>2, <1>4, <1>5, <1>6, <2>3
    DEF Fine, Tended, Accounted, InManifest, Readable, LayersOf
  <2> QED
    BY <2>1, <2>2, <2>3 DEF Fine
<1>7. j \in alone => Fine(job[j])'
  BY <1>1, <1>2, <1>6
<1> QED
  BY <1>2, <1>3, <1>7, AloneActs

LEMMA CopyCreateAlone ==
  ASSUME IInv, AInv, History, NEW j \in Jobs, CopyCreate(j)
  PROVE  AInv'
<1>1. PICK q \in JobRecord : q = job[j] /\ Sound(q) /\ (j \in alone => Fine(q))
  BY AloneRuns DEF IInv, Types
<1> DEFINE r == [q EXCEPT !.pc = "copy"]
<1>2. /\ job' = [job EXCEPT ![j] = r] /\ blobs' = blobs
      /\ Running(j) /\ q.pc = "open" /\ alone' = alone
      /\ tidy' = (tidy /\ manifests[q.name] = Absent)
      /\ \A n \in Names : manifests'[n] = IF n = q.name THEN Corrupt ELSE manifests[n]
  BY <1>1 DEF CopyCreate, WriteTo, Goes, Running
<1>3. r.pc = "copy" /\ r.name = q.name
  BY DEF JobRecord
<1>4. Accounts(r) = {} /\ Accounts(q) = {}
  BY <1>2, <1>3 DEF Accounts
<1> HIDE DEF r
<1>5. ASSUME Fine(q) PROVE Fine(r)'
  <2>1. Kept(r)'
    BY <1>3 DEF Kept
  <2>2. ASSUME tidy' PROVE Tended(r)'
    BY <1>2, <1>3, <1>5, <2>2 DEF Fine, Tended, Readable
  <2>3. ASSUME tidy' PROVE Accounted(r)'
    BY <1>2, <1>4, <1>5, <2>3 DEF Fine, Accounted, InManifest, Readable
  <2> QED
    BY <2>1, <2>2, <2>3 DEF Fine
<1> QED
  BY <1>1, <1>2, <1>5, AloneSteps

LEMMA CopyAlone ==
  ASSUME IInv, AInv, History, NEW j \in Jobs, Copy(j)
  PROVE  AInv'
<1>1. PICK q \in JobRecord : q = job[j] /\ Sound(q) /\ (j \in alone => Fine(q))
  BY AloneRuns DEF IInv, Types
<1>2. PICK x : x = Copied(j)
  OBVIOUS
<1>3. /\ job' = [job EXCEPT ![j] = Done] /\ blobs' = blobs
      /\ Running(j) /\ q.pc = "copy" /\ alone' = alone /\ tidy' = tidy
      /\ \A n \in Names : manifests'[n] = IF n = q.name THEN x ELSE manifests[n]
  BY <1>1, <1>2 DEF Copy, WriteTo, Goes, Running
<1>4. Done.pc = "done" /\ Held(Done) = {} /\ Accounts(Done) = {} /\ Accounts(q) = {}
  BY <1>3 DEF Done, NewJob, Held, Accounts
<1>5. ASSUME Fine(q) PROVE Fine(Done)'
  <2>1. Kept(Done)'
    BY <1>4 DEF Kept
  <2>2. Tended(Done)'
    BY <1>4 DEF Tended
  <2>3. ASSUME tidy' PROVE Accounted(Done)'
    BY <1>3, <1>4, <1>5, <2>3 DEF Fine, Tended, Accounted, InManifest, Readable
  <2> QED
    BY <2>1, <2>2, <2>3 DEF Fine
<1> QED
  BY <1>1, <1>3, <1>5, AloneSteps
-----------------------------------------------------------------------------
(* Requests that arrive. *)

LEMMA AloneComes ==
  ASSUME IInv, AInv, NEW j \in Jobs, NEW r, job' = [job EXCEPT ![j] = r],
         Arrives(j), r.pc \notin {"idle", "done"}, tidy' => tidy /\ alone' # {},
         Quiet => Fine(r)'
  PROVE  AInv'
<1>1. job'[j] = r /\ \A i \in Jobs \ {j} : job'[i] = job[i]
  BY DEF IInv, Types
<1>2. CASE Quiet
  <2>1. alone' = {j}
    BY <1>2 DEF Arrives, Quiet
  <2>2. \A i \in Jobs \ {j} : ~Running(i)'
    BY <1>1, <1>2 DEF Quiet, Running
  <2>3. Running(j)' /\ Fine(job[j])'
    BY <1>1, <1>2 DEF Running
  <2> QED
    BY <2>1, <2>2, <2>3 DEF AInv, Quiet
<1>3. CASE ~Quiet
  <2>1. alone' = {} /\ ~tidy'
    BY <1>3 DEF Arrives, Quiet
  <2> QED
    BY <2>1 DEF AInv
<1> QED
  BY <1>2, <1>3

\* One that begins with the layers of the manifest that it will replace or delete.
LEMMA BeginsAlone ==
  ASSUME IInv, AInv, NEW j \in Jobs, NEW r, NEW n \in Names, Begins(j, r),
         r.pc \in {"manifest", "unlink", "from"}, r.name = n, r.old = LayersOf(n)
  PROVE  AInv'
<1>1. PICK s : s = r
  OBVIOUS
<1>2. PICK L : L = LayersOf(n)
  OBVIOUS
<1>3. /\ job' = [job EXCEPT ![j] = s] /\ manifests' = manifests /\ blobs' = blobs
      /\ Arrives(j) /\ tidy' = (tidy /\ alone' # {})
  BY <1>1 DEF Begins, Goes, files
<1>4. Held(s) = {} /\ Accounts(s) = {} /\ LayersOf(n)' = s.old
  BY <1>1, <1>3 DEF Held, Accounts, LayersOf, Readable
<1>5. Kept(s)'
  BY <1>4 DEF Kept
<1>6. Tended(s)'
  BY <1>1, <1>4 DEF Tended
<1>7. ASSUME Quiet, tidy' PROVE Accounted(s)'
  BY <1>3, <1>4, <1>7 DEF AInv, Accounted, InManifest, Readable
<1>8. Quiet => Fine(s)'
  BY <1>5, <1>6, <1>7 DEF Fine
<1> QED
  BY <1>1, <1>3, <1>8, AloneComes

LEMMA PullBeginAlone ==
  ASSUME IInv, AInv, NEW j \in Jobs, NEW n \in Names, PullBegin(j, n)
  PROVE  AInv'
<1> DEFINE r == [NewJob EXCEPT !.pc = "manifest", !.op = "pull", !.name = n, !.old = LayersOf(n)]
<1>1. Begins(j, r) /\ r.pc = "manifest" /\ r.name = n /\ r.old = LayersOf(n)
  BY DEF PullBegin, NewJob
<1> HIDE DEF r
<1> QED
  BY <1>1, BeginsAlone

LEMMA DeleteBeginAlone ==
  ASSUME IInv, AInv, NEW j \in Jobs, NEW n \in Names, DeleteBegin(j, n)
  PROVE  AInv'
<1> DEFINE r == [NewJob EXCEPT !.pc = "unlink", !.op = "delete", !.name = n, !.old = manifests[n]]
<1>1. Begins(j, r) /\ r.pc = "unlink" /\ r.name = n /\ r.old = LayersOf(n)
  BY DEF DeleteBegin, NewJob, LayersOf
<1> HIDE DEF r
<1> QED
  BY <1>1, BeginsAlone

LEMMA CreateBeginAlone ==
  ASSUME IInv, AInv, NEW j \in Jobs, NEW n \in Names, NEW m \in Names, CreateBegin(j, n, m)
  PROVE  AInv'
<1> DEFINE r == [NewJob EXCEPT !.pc = "from", !.op = "create", !.name = m, !.from = n,
                               !.old = LayersOf(m)]
<1>1. Begins(j, r) /\ r.pc = "from" /\ r.name = m /\ r.old = LayersOf(m)
  BY DEF CreateBegin, NewJob
<1> HIDE DEF r
<1> QED
  BY <1>1, BeginsAlone

LEMMA CopyBeginAlone ==
  ASSUME IInv, AInv, NEW j \in Jobs, NEW n \in Names, NEW m \in Names, CopyBegin(j, n, m)
  PROVE  AInv'
<1> DEFINE r == [NewJob EXCEPT !.pc = "open", !.op = "copy", !.name = m, !.from = n]
<1>1. /\ job' = [job EXCEPT ![j] = r] /\ Arrives(j) /\ blobs' = blobs /\ manifests' = manifests
      /\ tidy' = (tidy /\ alone' # {})
  BY DEF CopyBegin, Begins, Goes, files
<1>2. r.pc = "open" /\ r.name = m /\ Accounts(r) = {}
  BY DEF NewJob, Accounts
<1> HIDE DEF r
<1>3. Kept(r)'
  BY <1>2 DEF Kept
<1>4. Tended(r)'
  BY <1>2 DEF Tended
<1>5. ASSUME Quiet, tidy' PROVE Accounted(r)'
  BY <1>1, <1>2, <1>5 DEF AInv, Accounted, InManifest, Readable
<1>6. Quiet => Fine(r)'
  BY <1>3, <1>4, <1>5 DEF Fine
<1> QED
  BY <1>1, <1>2, <1>6, AloneComes
-----------------------------------------------------------------------------
LEMMA InitAlone == Init => AInv
<1> SUFFICES ASSUME Init PROVE AInv
  OBVIOUS
<1>1. \A j \in Jobs : ~Running(j)
  BY DEF Init, NewJob, Running
<1>2. \A d \in Digests : blobs[d] # Absent => InManifest(d)
  BY DEF Init, Used, InManifest
<1> QED
  BY <1>1, <1>2 DEF AInv, Init

LEMMA PullAlone ==
  ASSUME IInv, AInv, History, NEW j \in Jobs, Pull(j)
  PROVE  AInv'
<1>1. ASSUME PullStops(j) PROVE AInv'
  BY <1>1, AloneEnds DEF PullStops, Goes, Done, NewJob, Running
<1>2. ASSUME NEW d \in Digests, PullMismatch(j, d) PROVE AInv'
  BY <1>2, AloneEnds DEF PullMismatch, Goes, NewJob, Running
<1>3. ASSUME PullRemoveBad(j) PROVE AInv'
  BY <1>3, AloneFails DEF PullRemoveBad, Running
<1>4. ASSUME NEW d \in Digests, PullVerifyFails(j, d) PROVE AInv'
  BY <1>4, AloneFails DEF PullVerifyFails, Running
<1> QED
  BY <1>1, <1>2, <1>3, <1>4, PullBeginAlone, PullManifestAlone, PullHitAlone, PullMissAlone,
     PullFetchedAlone, PullVerifyAlone, PullVerifiedAlone
  DEF Pull

LEMMA CreateAlone ==
  ASSUME IInv, AInv, History, NEW j \in Jobs, Create(j)
  PROVE  AInv'
<1>1. ASSUME CreateStops(j) \/ CreateStuck(j) PROVE AInv'
  BY <1>1, AloneFails DEF CreateStops, CreateStuck, BaseMissing, Running
<1>2. ASSUME NEW d \in Digests, CreateLayer(j, d) \/ CreateConfig(j, d) PROVE AInv'
  BY <1>2, NewLayerAlone DEF CreateLayer, CreateConfig
<1> QED
  BY <1>1, <1>2, CreateBeginAlone, CreateFromAlone, CreateBaseAlone, CreateBasedAlone,
     CreateDropAlone
  DEF Create

LEMMA NextAlone ==
  ASSUME IInv, AInv, Left, Next
  PROVE  AInv'
<1>1. History
  BY NextHistory
<1>2. ASSUME NEW j \in Jobs, Prune(j) PROVE AInv'
  <2>1. ASSUME NEW n \in Names, ScanFails(j, n) PROVE AInv'
    <3>1. PICK r : job' = [job EXCEPT ![j] = r] /\ r = Removed(job[j])
      BY <2>1 DEF ScanFails, Goes
    <3>2. Running(j) /\ alone' = alone /\ ~tidy' /\ blobs' = blobs /\ unchecked' = unchecked
      BY <2>1 DEF ScanFails, Running, files
    <3>3. job[j] \in JobRecord /\ Sound(job[j]) /\ job[j].pc = "scan"
      BY <2>1 DEF IInv, Types, ScanFails
    <3>4. Held(r) \subseteq Held(job[j]) /\ job[j].verify = {}
      BY <3>1, <3>3 DEF Removed, Done, NewJob, Held, Sound, JobRecord
    <3>5. j \in alone => \A d \in Held(r) : Whole(d, unchecked)
      BY <3>3, <3>4 DEF AInv, Fine, Kept
    <3>6. j \in alone => Fine(r)'
      BY <3>2, <3>5 DEF Fine, Kept, Whole
    <3> QED
      BY <3>1, <3>2, <3>6, AloneSteps
  <2> QED
    BY <1>1, <1>2, <2>1, GlobAlone, ScanAlone, RemoveAlone, RemovedAlone DEF Prune
<1>3. ASSUME NEW j \in Jobs, WriteFails(j) PROVE AInv'
  BY <1>3, AloneFails DEF WriteFails, Running
<1>4. ASSUME NEW j \in Jobs, Delete(j) PROVE AInv'
  <2>1. ASSUME DeleteFails(j) PROVE AInv'
    BY <2>1, AloneFails DEF DeleteFails, Running
  <2> QED
    BY <1>1, <1>4, <2>1, DeleteUnlinkAlone, DeleteBeginAlone DEF Delete
<1>5. ASSUME NEW j \in Jobs, CopyOver(j) PROVE AInv'
  BY <1>1, <1>5, CopyAlone, CopyCreateAlone, CopyBeginAlone DEF CopyOver
<1>6. ASSUME Crash PROVE AInv'
  BY <1>6 DEF Crash, AInv
<1>7. ASSUME Stutter PROVE AInv'
  BY <1>7
  DEF Stutter, files, AInv, Running, Quiet, Fine, Kept, Tended, Accounted, Whole, InManifest,
      Readable, LayersOf
<1> QED
  BY <1>1, <1>2, <1>3, <1>4, <1>5, <1>6, <1>7, PullAlone, CreateAlone, TruncateAlone, WriteAlone,
     PullLandAlone
  DEF Next, Step

LEMMA StepAlone == IInv /\ AInv /\ Left /\ [Next]_vars => AInv' /\ Left'
<1> SUFFICES ASSUME IInv, AInv, Left, [Next]_vars PROVE AInv' /\ Left'
  OBVIOUS
<1>1. CASE Next
  BY <1>1, NextAlone, StepLeft
<1>2. CASE UNCHANGED vars
  BY <1>2
  DEF vars, files, AInv, Running, Quiet, Fine, Kept, Tended, Accounted, Whole, InManifest,
      Readable, LayersOf, Left
<1> QED
  BY <1>1, <1>2

\* What holds of a request that is alone: its record stands with the files.
THEOREM InvariantAlone == Spec => []AInv
<1>1. Init => Left
  BY DEF Init, NewJob, Left
<1> QED
  BY <1>1, InitAlone, StepAlone, Invariant, PTL DEF Spec

\* Requests that come one by one, succeed, and copy over no model leave no blob
\* behind that no model uses.
THEOREM NothingLeftBehind == Spec => []NoGarbage
<1>1. ASSUME AInv PROVE NoGarbage
  <2>1. \A d \in Digests : InManifest(d) => d \in Used
    BY DEF InManifest, Used
  <2> QED
    BY <1>1, <2>1 DEF AInv, NoGarbage
<1> QED
  BY <1>1, InvariantAlone, PTL

\* Pulling again repairs: a pull that is alone writes a manifest only when its
\* layers are there, and verified but for those that it took over unverified.
THEOREM PullingAgainRepairs == Spec => PullRepairs
<1>1. ASSUME IInv, AInv, NEW j \in alone, job[j].op = "pull", job[j].pc = "writing",
             NEW d \in job[j].layers
      PROVE  blobs[d] # Absent /\ (blobs[d] = "bad" => d \in unchecked)
  <2>1. Sound(job[j]) /\ Kept(job[j])
    BY <1>1 DEF IInv, Types, AInv, Fine
  <2>2. d \in Held(job[j]) /\ job[j].verify = {}
    BY <1>1, <2>1 DEF Sound, Held
  <2> QED
    BY <1>1, <2>1, <2>2 DEF Kept, Whole
<1>2. IInv /\ AInv =>
        [\A j \in alone :
           job[j].op = "pull" /\ job[j].pc = "writing" /\ job'[j].pc # "writing" =>
           \A d \in job[j].layers : /\ blobs[d] # Absent
                                    /\ blobs[d] = "bad" => d \in unchecked]_vars
  BY <1>1
<1> QED
  BY <1>2, Invariant, InvariantAlone, PTL DEF PullRepairs

=============================================================================
