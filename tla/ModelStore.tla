----------------------------- MODULE ModelStore -----------------------------
(***************************************************************************)
(* The models on disk: a manifest file per name, listing the digests of    *)
(* its layers and its config, and a blob file per digest, shared by all    *)
(* manifests.  Pulls, creates, copies and deletes run in the goroutines of *)
(* their requests and share nothing but these files, on which there is no  *)
(* lock; each step below is one call of the file system.                   *)
(*                                                                         *)
(* A layer that is to be removed is first looked for in all manifests      *)
(* (glob, one manifest after the other, then the removals): that is the    *)
(* routine Glob, Scan, Remove below, which deleteUnusedLayers,             *)
(* Manifest.RemoveLayers and Layer.Remove share.                           *)
(*                                                                         *)
(* Downloading a blob is the abstract BlobFetch: the file appears in one   *)
(* step, and may turn out not to have the content of its digest.  It may   *)
(* appear when nobody waits for it any more.                               *)
(***************************************************************************)
EXTENDS Naturals, FiniteSets

CONSTANTS
  Names, Digests,
  Registry,     \* the versions of each model that the registry may serve
  Configs,      \* those of them that are configs; the others are layers
  Made,         \* digests of the layers and configs that a create can make
  Jobs,         \* requests: each runs one operation
  MaxRunning,   \* bound: requests that run at the same time
  MaxFaults,    \* bound: crashes, full disks and bad downloads
  Absent,       \* no such file
  Corrupt,      \* a manifest file that does not decode
  None

ASSUME StoreAssumption ==
  /\ None \notin Names \cup Digests
  /\ Absent \notin {"good", "bad"}
  /\ \A S \in SUBSET Digests : S # Absent /\ S # Corrupt
  /\ Registry \in [Names -> SUBSET SUBSET Digests]
  /\ Made \subseteq Digests
  /\ Made \cap Configs # {}
  /\ MaxRunning \in Nat \ {0}
  /\ MaxFaults \in Nat

VARIABLES
  manifests,    \* the manifest file of a name: its digests, Absent or Corrupt
  blobs,        \* the blob file of a digest: Absent, "good", or "bad" when its
                \* content is not that of the digest
  job,          \* the goroutine of each request
  faults,       \* counts against MaxFaults
  contested,    \* history: digests that one job was removing while another
                \* was counting on them
  unchecked,    \* history: digests whose bad file somebody else came to rely on
  alone,        \* history: requests that no other request ran together with
  tidy          \* history: so far requests came one by one, none failed and
                \* none copied over a model

files == <<manifests, blobs>>
vars == <<files, job, faults, contested, unchecked, alone, tidy>>

\* op: the operation; name: the model it writes or deletes; from: the one it
\* copies or builds on; layers: the digests of the manifest to be written; todo:
\* those still to be looked for; get: the one being downloaded, for a request that
\* has stopped waiting too; verify: those downloaded and not verified yet; old: those of the manifest that is replaced
\* or deleted; del: those to be removed; scan: the manifests still to be read
\* for that; then: where the request goes on when that is done.
NewJob == [pc |-> "idle", op |-> "none", name |-> None, from |-> None,
           layers |-> {}, todo |-> {}, get |-> None, verify |-> {},
           old |-> {}, del |-> {}, scan |-> {}, then |-> "done"]

Done == [NewJob EXCEPT !.pc = "done"]

\* ParseNamedManifest
Readable(n) == manifests[n] \notin {Absent, Corrupt}

Used == UNION {manifests[n] : n \in {m \in Names : Readable(m)}}

\* What ParseNamedManifest gives to a caller that goes on without it.
LayersOf(n) == IF Readable(n) THEN manifests[n] ELSE {}

Goes(j, r) == job' = [job EXCEPT ![j] = r]

Running(j) == job[j].pc \notin {"idle", "done"}

\* The store holds some of the models, complete, and nothing else.
Init ==
  /\ manifests \in [Names -> {Absent} \cup UNION {Registry[n] : n \in Names}]
  /\ \A n \in Names : manifests[n] \in {Absent} \cup Registry[n]
  /\ blobs = [d \in Digests |-> IF d \in Used THEN "good" ELSE Absent]
  /\ job = [j \in Jobs |-> NewJob]
  /\ faults = 0
  /\ contested = {}
  /\ unchecked = {}
  /\ alone = {}
  /\ tidy = TRUE

\* A request arrives.
Arrives(j) ==
  /\ job[j].pc = "idle"
  /\ Cardinality({i \in Jobs : Running(i)}) < MaxRunning
  /\ alone' = IF \E i \in Jobs : Running(i) THEN {} ELSE {j}

Begins(j, r) ==
  /\ Arrives(j)
  /\ Goes(j, r)
  /\ tidy' = (tidy /\ alone' # {})
  /\ UNCHANGED <<files, faults, unchecked>>

\* A request ends early, with an error.
Fails(j) == Goes(j, Done) /\ tidy' = FALSE /\ UNCHANGED alone
-----------------------------------------------------------------------------
(* Removing layers that no manifest uses *)

\* Mutant: returns after the first layer.
RemovalOfOne(r, del, then) ==
  [r EXCEPT !.pc = "glob", !.del = {CHOOSE d \in del : TRUE}, !.then = then]

Removal(r, del, then) == [r EXCEPT !.pc = "glob", !.del = del, !.then = then]

\* The end of a removal.
Removed(r) == IF r.then = "done" THEN Done
              ELSE [r EXCEPT !.pc = r.then, !.del = {}, !.scan = {}, !.then = "done"]

\* Manifests(true): the files there are.
Glob(j) ==
  /\ job[j].pc = "glob"
  /\ Goes(j, [job[j] EXCEPT !.pc = "scan",
                            !.scan = {n \in Names : manifests[n] # Absent}])
  /\ UNCHANGED <<files, faults, unchecked, alone, tidy>>

\* Mutant: only the manifest of the request's own name is looked at.
SpareOwnOnly(j, n) == IF n = job[j].name THEN job[j].del \ LayersOf(n) ELSE job[j].del

\* What is left to remove when manifest n has been read.
Spare(j, n) == job[j].del \ LayersOf(n)

\* One manifest is read; one that does not decode counts for nothing.
Scan(j, n) ==
  /\ job[j].pc = "scan"
  /\ n \in job[j].scan
  /\ Goes(j, [job[j] EXCEPT !.scan = @ \ {n}, !.del = Spare(j, n)])
  /\ UNCHANGED <<files, faults, unchecked, alone, tidy>>

\* os.Stat of a file that Glob has found and that is gone: nothing is removed.
ScanFails(j, n) ==
  /\ job[j].pc = "scan"
  /\ n \in job[j].scan
  /\ manifests[n] = Absent
  /\ Goes(j, Removed(job[j]))
  /\ tidy' = FALSE
  /\ UNCHANGED <<files, faults, unchecked, alone>>

Remove(j, d) ==
  /\ job[j].pc = "scan" /\ job[j].scan = {}
  /\ d \in job[j].del
  /\ blobs' = [blobs EXCEPT ![d] = Absent]
  /\ Goes(j, [job[j] EXCEPT !.del = @ \ {d}])
  /\ UNCHANGED <<manifests, faults, unchecked, alone, tidy>>

RemoveDone(j) ==
  /\ job[j].pc = "scan" /\ job[j].scan = {} /\ job[j].del = {}
  /\ Goes(j, Removed(job[j]))
  /\ UNCHANGED <<files, faults, unchecked, alone, tidy>>
-----------------------------------------------------------------------------
(* Writing a manifest: the file is truncated, and then written *)

\* A file that was deleted in between is written, but has no name any more.
WriteTo(n, x) == manifests' = [m \in Names |-> IF m = n THEN x ELSE manifests[m]]

Truncate(j) ==
  /\ job[j].pc = "write"
  /\ WriteTo(job[j].name, Corrupt)
  /\ Goes(j, [job[j] EXCEPT !.pc = "writing"])
  /\ UNCHANGED <<blobs, faults, unchecked, alone, tidy>>

\* Then the layers of the manifest that it replaces are removed.
Write(j) ==
  /\ job[j].pc = "writing"
  /\ WriteTo(job[j].name, job[j].layers)
  /\ Goes(j, IF job[j].old = {} THEN Done ELSE Removal(job[j], job[j].old, "done"))
  /\ UNCHANGED <<blobs, faults, unchecked, alone, tidy>>

\* The disk is full.
WriteFails(j) ==
  /\ job[j].pc \in {"writing", "copy"}
  /\ faults < MaxFaults
  /\ faults' = faults + 1
  /\ Fails(j)
  /\ UNCHANGED <<files, unchecked>>
-----------------------------------------------------------------------------
(* PullModel *)

PullBegin(j, n) ==
  Begins(j, [NewJob EXCEPT !.pc = "manifest", !.op = "pull", !.name = n,
                      !.old = LayersOf(n)])

PullManifest(j) ==
  /\ job[j].pc = "manifest"
  /\ \E L \in Registry[job[j].name] :
       Goes(j, [job[j] EXCEPT !.pc = "fetch", !.layers = L, !.todo = L])
  /\ UNCHANGED <<files, faults, unchecked, alone, tidy>>

\* Mutant: a layer of a listed model is taken to be there.
CachedIfListed(d) == blobs[d] # Absent \/ d \in Used

\* downloadBlob's os.Stat
Cached(d) == blobs[d] # Absent

\* A layer whose file is there is a cache hit: it is not verified.
PullHit(j, d) ==
  /\ job[j].pc = "fetch" /\ job[j].get = None
  /\ d \in job[j].todo
  /\ Cached(d)
  /\ Goes(j, [job[j] EXCEPT !.todo = @ \ {d}, !.old = @ \ {d}])
  /\ unchecked' = unchecked \cup (IF blobs[d] = "bad" THEN {d} ELSE {})
  /\ UNCHANGED <<files, faults, alone, tidy>>

PullMiss(j, d) ==
  /\ job[j].pc = "fetch" /\ job[j].get = None
  /\ d \in job[j].todo
  /\ ~Cached(d)
  /\ Goes(j, [job[j] EXCEPT !.get = d])
  /\ UNCHANGED <<files, faults, unchecked, alone, tidy>>

\* Mutant: what was downloaded counts as a cache hit.
LandedUnverified(r) == [r EXCEPT !.get = None, !.todo = @ \ {r.get}, !.old = @ \ {r.get}]

\* Mutant: the request goes on waiting for it.
LandedStillWaiting(r) == [r EXCEPT !.todo = @ \ {r.get}, !.old = @ \ {r.get},
                                   !.verify = @ \cup {r.get}]

\* A job whose download has come.
Landed(r) == [r EXCEPT !.get = None, !.todo = @ \ {r.get}, !.old = @ \ {r.get},
                       !.verify = @ \cup {r.get}]

\* A download ends well for those that share it (S), also when all of them have
\* stopped waiting.  One that was started after the blob had come replaces it.
PullLand(S, d, content) ==
  /\ S # {} /\ \A j \in S : job[j].get = d
  /\ content = "bad" => faults < MaxFaults
  /\ faults' = faults + (IF content = "bad" THEN 1 ELSE 0)
  /\ blobs' = [blobs EXCEPT ![d] = content]
  /\ job' = [j \in Jobs |-> IF j \in S
                          THEN IF Running(j) THEN Landed(job[j]) ELSE Done
                          ELSE job[j]]
  /\ unchecked' = unchecked \cup
       (IF content = "bad" /\ blobs[d] # Absent THEN {d} ELSE {})
  /\ UNCHANGED <<manifests, alone, tidy>>

PullFetched(j) ==
  /\ job[j].pc = "fetch" /\ job[j].todo = {}
  /\ Goes(j, [job[j] EXCEPT !.pc = "verify"])
  /\ UNCHANGED <<files, faults, unchecked, alone, tidy>>

\* What is verified is the file as it is opened; hashing it takes minutes.
PullVerify(j, d) ==
  /\ job[j].pc = "verify"
  /\ d \in job[j].verify
  /\ blobs[d] = "good"
  /\ Goes(j, [job[j] EXCEPT !.verify = @ \ {d}])
  /\ UNCHANGED <<files, faults, unchecked, alone, tidy>>

\* There is no file any more.  What else the pull downloaded stays, unverified.
PullVerifyFails(j, d) ==
  /\ job[j].pc = "verify"
  /\ d \in job[j].verify
  /\ blobs[d] = Absent
  /\ Fails(j)
  /\ UNCHANGED <<files, faults, unchecked>>

\* The file that has been opened has another digest.
PullMismatch(j, d) ==
  /\ job[j].pc = "verify"
  /\ d \in job[j].verify
  /\ blobs[d] = "bad"
  /\ Goes(j, [NewJob EXCEPT !.pc = "mismatch", !.op = "pull", !.del = {d}])
  /\ tidy' = FALSE
  /\ UNCHANGED <<files, faults, unchecked, alone>>

\* When that is known, what has the name by then is removed; the pull fails.
PullRemoveBad(j) ==
  /\ job[j].pc = "mismatch"
  /\ blobs' = [d \in Digests |-> IF d \in job[j].del THEN Absent ELSE blobs[d]]
  /\ Fails(j)
  /\ UNCHANGED <<manifests, faults, unchecked>>

PullVerified(j) ==
  /\ job[j].pc = "verify" /\ job[j].verify = {}
  /\ Goes(j, [job[j] EXCEPT !.pc = "write", !.old = @ \ job[j].layers])
  /\ UNCHANGED <<files, faults, unchecked, alone, tidy>>

\* The registry or the network fails, or the client goes away: then the pull is
\* cancelled, or blocks for ever in its next progress report.  The download that it
\* waits for may be past the point where it can be cancelled.
PullStops(j) ==
  /\ job[j].op = "pull" /\ job[j].pc \in {"manifest", "fetch", "verify", "write", "glob"}
  /\ Goes(j, [Done EXCEPT !.get = job[j].get])
  /\ tidy' = FALSE
  /\ UNCHANGED <<files, faults, unchecked, alone>>
-----------------------------------------------------------------------------
(* DeleteHandler *)

DeleteBegin(j, n) ==
  /\ Readable(n)
  /\ Begins(j, [NewJob EXCEPT !.pc = "unlink", !.op = "delete", !.name = n,
                               !.old = manifests[n]])

\* A request that has the file open: to copy it, it keeps what is in it; to write
\* it, it writes a file that has no name.
Unlinked(r, n) ==
  [r EXCEPT !.layers = IF r.pc \in {"open", "copy"} /\ r.from = n THEN manifests[n] ELSE @,
            !.from = IF r.pc \in {"open", "copy"} /\ @ = n THEN None ELSE @,
            !.name = IF r.pc \in {"writing", "copy"} /\ @ = n THEN None ELSE @]

\* Manifest.Remove: whatever is in the file by now.
DeleteUnlink(j) ==
  LET n == job[j].name
  IN  /\ job[j].pc = "unlink"
      /\ manifests[n] # Absent
      /\ manifests' = [manifests EXCEPT ![n] = Absent]
      /\ job' = [i \in Jobs |-> IF i = j THEN Removal(job[j], job[j].old, "done")
                                      ELSE Unlinked(job[i], n)]
      /\ UNCHANGED <<blobs, faults, unchecked, alone, tidy>>

DeleteFails(j) ==
  /\ job[j].pc = "unlink"
  /\ manifests[job[j].name] = Absent
  /\ Fails(j)
  /\ UNCHANGED <<files, faults, unchecked>>
-----------------------------------------------------------------------------
(* CopyModel *)

\* The source is opened.
CopyBegin(j, n, m) ==
  /\ n # m
  /\ manifests[n] # Absent
  /\ Begins(j, [NewJob EXCEPT !.pc = "open", !.op = "copy", !.name = m, !.from = n])

\* The destination is created, that is, truncated.
CopyCreate(j) ==
  /\ job[j].pc = "open"
  /\ WriteTo(job[j].name, Corrupt)
  /\ Goes(j, [job[j] EXCEPT !.pc = "copy"])
  /\ tidy' = (tidy /\ manifests[job[j].name] = Absent)
  /\ UNCHANGED <<blobs, faults, unchecked, alone>>

\* What is in the source at this moment.
Copied(j) == IF job[j].from = None THEN job[j].layers ELSE manifests[job[j].from]

Copy(j) ==
  /\ job[j].pc = "copy"
  /\ WriteTo(job[j].name, Copied(j))
  /\ Goes(j, Done)
  /\ UNCHANGED <<blobs, faults, unchecked, alone, tidy>>
-----------------------------------------------------------------------------
(* CreateHandler, from a model of the store *)

\* The manifest of the model to be replaced (m) is read, then that of the base (n).
CreateBegin(j, n, m) ==
  /\ manifests[n] # Absent
  /\ Begins(j, [NewJob EXCEPT !.pc = "from", !.op = "create", !.name = m, !.from = n,
                              !.old = LayersOf(m)])

CreateFrom(j) ==
  /\ job[j].pc = "from"
  /\ Readable(job[j].from)
  /\ LET L == manifests[job[j].from] \ Configs
     IN  Goes(j, [job[j] EXCEPT !.pc = "base", !.layers = L, !.todo = L])
  /\ UNCHANGED <<files, faults, unchecked, alone, tidy>>

\* NewLayerFromLayer: a layer of the base must be there.
CreateBase(j, d) ==
  /\ job[j].pc = "base"
  /\ d \in job[j].todo
  /\ blobs[d] # Absent
  /\ Goes(j, [job[j] EXCEPT !.todo = @ \ {d}])
  /\ unchecked' = unchecked \cup (IF blobs[d] = "bad" THEN {d} ELSE {})
  /\ UNCHANGED <<files, faults, alone, tidy>>

CreateBased(j) ==
  /\ job[j].pc = "base" /\ job[j].todo = {}
  /\ Goes(j, [job[j] EXCEPT !.pc = "layer"])
  /\ UNCHANGED <<files, faults, unchecked, alone, tidy>>

\* removeLayer: a layer of the base is replaced, and removed if unused.
CreateDrop(j, d) ==
  /\ job[j].pc = "layer"
  /\ d \in job[j].layers \cap Made
  /\ Goes(j, Removal([job[j] EXCEPT !.layers = @ \ {d}], {d}, "layer"))
  /\ UNCHANGED <<files, faults, unchecked, alone, tidy>>

\* NewLayer: a file that is there is kept.
NewLayer(j, d, pc) ==
  /\ d \in Made
  /\ blobs' = [blobs EXCEPT ![d] = IF @ = Absent THEN "good" ELSE @]
  /\ unchecked' = unchecked \cup (IF blobs[d] = "bad" THEN {d} ELSE {})
  /\ Goes(j, [job[j] EXCEPT !.pc = pc, !.layers = @ \cup {d}])
  /\ UNCHANGED <<manifests, faults, alone, tidy>>

\* A layer is set.  More than one goes the same way; here one does.
CreateLayer(j, d) == job[j].pc = "layer" /\ d \notin Configs /\ NewLayer(j, d, "config")

CreateConfig(j, d) == /\ job[j].pc \in {"layer", "config"}
                      /\ d \in Configs
                      /\ NewLayer(j, d, "write")

BaseMissing(j) == \/ job[j].pc = "from" /\ ~Readable(job[j].from)
                  \/ job[j].pc = "base" /\ \E d \in job[j].todo : blobs[d] # "good"

\* The base or a layer of it is missing or does not decode (a base without a
\* manifest is pulled first; here that fails).  The handler reports it and goes
\* on without a base, makes a config and maybe a layer, and blocks for ever in
\* its next progress report, before the manifest is written: nobody reads after
\* an error.
CreateStuck(j) ==
  /\ BaseMissing(j)
  /\ \E S \in SUBSET Made :
       /\ S \cap Configs # {}
       /\ blobs' = [d \in Digests |->
                      IF d \in S /\ blobs[d] = Absent THEN "good" ELSE blobs[d]]
  /\ Fails(j)
  /\ UNCHANGED <<manifests, faults, unchecked>>

\* A layer cannot be made, or the client goes away: the next progress report blocks
\* for ever.
CreateStops(j) ==
  /\ job[j].op = "create" /\ job[j].pc \in {"layer", "config", "write"}
  /\ Fails(j)
  /\ UNCHANGED <<files, faults, unchecked>>
-----------------------------------------------------------------------------
(* The server dies and starts again.  Serve prunes unless a manifest is    *)
(* corrupt: blobs that are not used and older than an hour.                *)

Crash ==
  /\ faults < MaxFaults
  /\ faults' = faults + 1
  /\ \E K \in SUBSET (Digests \ Used) :
       /\ K # {} => \A n \in Names : manifests[n] # Corrupt
       /\ blobs' = [d \in Digests |-> IF d \in K THEN Absent ELSE blobs[d]]
  /\ job' = [j \in Jobs |-> IF job[j].pc = "idle" THEN job[j] ELSE Done]
  /\ tidy' = FALSE
  /\ alone' = {}
  /\ UNCHANGED <<manifests, unchecked>>

\* All requests are done.
Quiet == \A j \in Jobs : ~Running(j)

Stutter == Quiet /\ UNCHANGED <<files, job, faults, unchecked, alone, tidy>>
-----------------------------------------------------------------------------
Prune(j) == \/ Glob(j) \/ RemoveDone(j)
            \/ \E n \in Names : Scan(j, n) \/ ScanFails(j, n)
            \/ \E d \in Digests : Remove(j, d)

Pull(j) == \/ \E n \in Names : PullBegin(j, n)
           \/ PullManifest(j) \/ PullFetched(j) \/ PullVerified(j) \/ PullStops(j)
           \/ PullRemoveBad(j)
           \/ \E d \in Digests : \/ PullHit(j, d) \/ PullMiss(j, d) \/ PullVerify(j, d)
                                 \/ PullVerifyFails(j, d) \/ PullMismatch(j, d)

Delete(j) == DeleteUnlink(j) \/ DeleteFails(j) \/ \E n \in Names : DeleteBegin(j, n)

CopyOver(j) == CopyCreate(j) \/ Copy(j) \/ \E n, m \in Names : CopyBegin(j, n, m)

Create(j) == \/ \E n, m \in Names : CreateBegin(j, n, m)
             \/ CreateFrom(j) \/ CreateBased(j) \/ CreateStuck(j) \/ CreateStops(j)
             \/ \E d \in Digests : \/ CreateBase(j, d) \/ CreateDrop(j, d)
                                  \/ CreateLayer(j, d) \/ CreateConfig(j, d)

Step == \/ \E j \in Jobs : \/ Prune(j) \/ Truncate(j) \/ Write(j) \/ WriteFails(j)
                           \/ Pull(j) \/ Delete(j) \/ CopyOver(j) \/ Create(j)
        \/ \E S \in SUBSET Jobs, d \in Digests, content \in {"good", "bad"} :
             PullLand(S, d, content)
        \/ Crash
        \/ Stutter

\* The digests that a request has found, or got and verified, and will refer to.
CountsOn(j) == IF job[j].pc \in {"fetch", "verify", "write", "writing",
                                  "base", "layer", "config"}
               THEN job[j].layers \ (job[j].todo \cup job[j].verify)
               ELSE IF job[j].pc \in {"glob", "scan"} /\ job[j].then = "layer"
               THEN job[j].layers
               ELSE IF job[j].pc \in {"open", "copy"} /\ Copied(j) \notin {Absent, Corrupt}
               THEN Copied(j) ELSE {}

\* The digests that a request is looking for in the manifests, has found to be
\* bad, or is removing.
Removing(j) == IF job[j].pc \in {"glob", "scan", "mismatch"} THEN job[j].del ELSE {}

Contest == {d \in Digests : \E i, j \in Jobs : i # j /\ d \in Removing(i) \cap CountsOn(j)}

Next == Step /\ contested' = contested \cup Contest'

Spec == Init /\ [][Next]_vars
-----------------------------------------------------------------------------
(* Properties *)

JobPc == {"idle", "manifest", "fetch", "verify", "write", "writing", "mismatch", "unlink",
          "open", "copy", "from", "base", "layer", "config", "glob", "scan", "done"}

\* The states of the files and of the requests.
TypeOK ==
  /\ manifests \in [Names -> (SUBSET Digests) \cup {Absent, Corrupt}]
  /\ blobs \in [Digests -> {Absent, "good", "bad"}]
  /\ \A j \in Jobs :
       /\ job[j].pc \in JobPc
       /\ job[j].name \in Names \cup {None} /\ job[j].from \in Names \cup {None}
       /\ job[j].op \in {"none", "pull", "delete", "copy", "create"}
       /\ job[j].layers \in (SUBSET Digests) \cup {Corrupt}
       /\ job[j].todo \subseteq job[j].layers
       /\ job[j].get \in (IF Running(j) THEN job[j].todo ELSE Digests) \cup {None}
       /\ job[j].verify \subseteq job[j].layers \ job[j].todo
       /\ {job[j].old, job[j].del} \subseteq SUBSET Digests
       /\ job[j].scan \subseteq Names
       /\ job[j].then \in {"done", "layer"}
  /\ contested \subseteq Digests
  /\ unchecked \subseteq Digests
  /\ alone \subseteq Jobs

\* A model that is listed has all its layers, whatever requests run together,
\* fail or die: one can be missing only when a request was removing it, as unused
\* or because it had read a bad file, while another one had found or verified it
\* there, or when somebody used a bad download before its own pull had verified it.
LayersPresent ==
  \A n \in Names : Readable(n) =>
    \A d \in manifests[n] : blobs[d] = Absent => d \in contested \cup unchecked

\* A model that is listed is made of verified layers, with the same exceptions:
\* a download that was interrupted before its verification is never verified.
LayersVerified ==
  \A n \in Names : Readable(n) =>
    \A d \in manifests[n] : blobs[d] = "bad" => d \in contested \cup unchecked

\* Requests that come one by one and succeed leave no blob behind that no model
\* uses, except those that copy over a model: its layers stay.
NoGarbage ==
  tidy /\ Quiet => \A d \in Digests : blobs[d] # Absent => d \in Used

\* Pulling again repairs: whatever crashes, full disks, races and failures have
\* left (missing layers, a corrupt manifest), a pull that no other request runs
\* together with writes a manifest only when all layers are there, verified but
\* for those that a hit took over unverified.
PullRepairs ==
  [][\A j \in alone :
       job[j].op = "pull" /\ job[j].pc = "writing" /\ job'[j].pc # "writing" =>
       \A d \in job[j].layers : /\ blobs[d] # Absent
                                /\ blobs[d] = "bad" => d \in unchecked]_vars
=============================================================================
