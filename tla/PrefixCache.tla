---------------------------- MODULE PrefixCache ----------------------------
(***************************************************************************)
(* The prefix cache of the MLX runner, x/mlxrunner/cache.go: a compressed  *)
(* trie of token sequences, one path of which is backed by the live caches *)
(* of the model's layers, while other nodes carry snapshots of them.       *)
(*                                                                         *)
(* Keys, values and states are not modelled, only what they were computed  *)
(* from: the cell of a position is the sequence of tokens up to it, a live *)
(* cache is the sequence of its cells, and its offset is the length.  Cells*)
(* that a rotating or a recurrent cache no longer has are Lost.  A node is *)
(* named by the tokens from the root to its end; its parent is the longest *)
(* other node that is a prefix of it.                                      *)
(*                                                                         *)
(* The runner serves one request after the other, in one goroutine.        *)
(***************************************************************************)
EXTENDS Integers, FiniteSets, SequencesExt

CONSTANTS
  Tokens,
  Models,            \* the kinds of the layers of the models that may be loaded
  Window,            \* maxSize of a rotating cache
  MaxPagedOut,       \* maxPagedOutBytes: how many cells of a model that holds
  SnapshotInterval, PreThinking, PrefillChunk,
  MaxPrompt,         \* bound: tokens in a prompt
  MaxTokens,         \* bound: tokens in a prompt and its answer
  None

ASSUME CacheAssumption ==
  /\ Models \subseteq Seq({"kv", "rotating", "recurrent"}) \ {<<>>}
  /\ MaxPagedOut \in [Models -> Nat]
  /\ {Window, SnapshotInterval, PrefillChunk} \subseteq Nat \ {0}
  /\ {PreThinking, MaxPrompt, MaxTokens} \subseteq Nat
  /\ None \notin [from : Nat, cells : Seq(Seq(Tokens))]

VARIABLES
  kinds,      \* the kinds of the layers
  cache,      \* kvCache: the trie (a function of its nodes), activePath (a set of
              \* nodes), the live caches by layer, pagedOutBytes
  session,    \* the pipeline and its cacheSession
  misfiled    \* history: a session was closed with less output than was cached

vars == <<kinds, cache, session, misfiled>>

Layers == DOMAIN kinds

Lost == <<>>

Least(a, b) == IF a < b THEN a ELSE b

LeastOf(S) == CHOOSE x \in S : \A y \in S : x <= y

GreatestOf(S) == CHOOSE x \in S : \A y \in S : y <= x

Longest(S) == CHOOSE n \in S : \A m \in S : Len(m) <= Len(n)

UpTo(s, n) == SubSeq(s, 1, n)

From(s, n) == SubSeq(s, n + 1, Len(s))
-----------------------------------------------------------------------------
(* The caches of a layer: cache/cache.go, cache/recurrent.go *)

\* The first position that is left when n tokens are appended at offset o.
FirstKept(l, o, n) ==
  CASE kinds[l] = "kv"        -> 1
    [] kinds[l] = "rotating"  -> IF n = 1 THEN o + 2 - Window
                                 ELSE IF o = 0 THEN 1 ELSE o + 2 - Window
    [] kinds[l] = "recurrent" -> o + n

\* Forward: the layer gets the cells of n more tokens of s.
Appended(l, live, s, n) ==
  [i \in 1 .. Len(live) + n |->
     IF i < FirstKept(l, Len(live), n) THEN Lost
     ELSE IF i <= Len(live) THEN live[i] ELSE UpTo(s, i)]

\* n tokens of s, one by one.
Fed(l, live, s, n) ==
  LET fed[i \in 0 .. n] == IF i = 0 THEN live ELSE Appended(l, fed[i - 1], s, 1)
  IN  fed[n]

\* A snapshot: its cells, from a given offset on.
Snap(from, cells) == [from |-> from, cells |-> cells]

End(snap) == snap.from + Len(snap.cells)

\* Snapshot(from): a slice of a KVCache, the whole state of the others.
SnapshotOf(l, live, from) ==
  IF live = <<>> \/ (kinds[l] # "recurrent" /\ Len(live) <= from) THEN None
  ELSE IF kinds[l] = "kv" THEN Snap(from, From(live, from)) ELSE Snap(0, live)

\* Mutant: a rotating cache is rewound after its window has moved.
RewindsAnyWindow(l, live, target) ==
  /\ target <= Len(live)
  /\ target = Len(live) \/ kinds[l] \in {"kv", "rotating"}

\* Restore(nil, target) succeeds.
Rewinds(l, live, target) ==
  /\ target <= Len(live)
  /\ \/ target = Len(live)
     \/ kinds[l] = "kv"
     \/ kinds[l] = "rotating" /\ Len(live) <= Window

\* Restore(snap, target) succeeds.
Restores(l, live, snap, target) ==
  CASE kinds[l] = "kv"        -> target <= End(snap) /\ snap.from <= Len(live)
    [] kinds[l] = "rotating"  -> /\ target <= End(snap)
                                 /\ target = End(snap) \/ End(snap) <= Window
    [] kinds[l] = "recurrent" -> target = End(snap)

Restored(live, snap, target) == UpTo(UpTo(live, snap.from) \o snap.cells, target)

Merged(l, parent, child) ==
  IF kinds[l] # "kv" THEN child
  ELSE IF None \in {parent, child} THEN None
  ELSE Snap(parent.from, parent.cells \o child.cells)

\* Mutant: the parent gets a snapshot of a state that is beyond its end.
SplitShared(l, snap, at) ==
  IF snap = None THEN <<None, None>>
  ELSE IF kinds[l] # "kv" THEN <<snap, snap>>
  ELSE <<Snap(snap.from, UpTo(snap.cells, at - snap.from)),
         Snap(at, From(snap.cells, at - snap.from))>>

\* Split: the snapshots of the parent and of the child.
Split(l, snap, at) ==
  IF snap = None THEN <<None, None>>
  ELSE IF kinds[l] # "kv" \/ at <= snap.from THEN <<None, snap>>
  ELSE IF at >= End(snap) THEN <<snap, None>>
  ELSE <<Snap(snap.from, UpTo(snap.cells, at - snap.from)),
         Snap(at, From(snap.cells, at - snap.from))>>

\* The cells of a snapshot, which are its Size.
Held(snap) == IF snap = None THEN {} ELSE {i \in DOMAIN snap.cells : snap.cells[i] # Lost}
-----------------------------------------------------------------------------
(* The trie: cache_trie.go *)

NoSnaps == [l \in Layers |-> None]

NewNode == [snaps |-> NoSnaps, user |-> FALSE]

HasSnapshots(node) == node.snaps # NoSnaps

HasAllSnapshots(node) == \A l \in Layers : node.snaps[l] # None

\* The nodes from the root to n.
PathTo(t, n) == {m \in DOMAIN t : IsPrefix(m, n)}

Parent(t, n) == Longest(PathTo(t, n) \ {n})

StartOffset(t, n) == Len(Parent(t, n))

Children(t, n) == {m \in DOMAIN t \ {<<>>} : Parent(t, m) = n}

HeldBy(snaps) == UNION {{l} \X Held(snaps[l]) : l \in Layers}

SnapshotBytes(snaps) == Cardinality(HeldBy(snaps))

\* Mutant: the counter only goes down.
SetSnapshotsUncounted(c, n, snaps) ==
  [c EXCEPT !.trie[n].snaps = snaps,
            !.pagedOutBytes = @ - SnapshotBytes(c.trie[n].snaps)]

\* setSnapshots, swapSnapshots: the counter follows.
SetSnapshots(c, n, snaps) ==
  [c EXCEPT !.trie[n].snaps = snaps,
            !.pagedOutBytes = @ - SnapshotBytes(c.trie[n].snaps) + SnapshotBytes(snaps)]

\* How far p and q agree.
Common(p, q) ==
  GreatestOf({i \in 0 .. Least(Len(p), Len(q)) : UpTo(p, i) = UpTo(q, i)})

\* Mutant: an edge matches in full or not at all.
FindFullMatch(t, n, q) ==
  LET full == {m \in PathTo(t, q) : Len(m) >= Len(n)}
  IN  [path |-> full, matched |-> Len(Longest(full))]

\* An edge that matches in part, the longest if there were several, ends the path.
WithPartial(path, edges, q) ==
  LET best == CHOOSE m \in edges : \A o \in edges : Common(o, q) <= Common(m, q)
  IN  IF edges = {} THEN [path |-> path, matched |-> Len(Longest(path))]
      ELSE [path |-> path \cup {best}, matched |-> Common(best, q)]

\* findBestMatch, from node n on, of the tokens that follow it in q: the nodes that
\* match, the last one perhaps in part, and the offset up to which they do.
FindBestMatch(t, n, q) ==
  LET full == {m \in PathTo(t, q) : Len(m) >= Len(n)}
      last == Longest(full)
  IN  WithPartial(full, {m \in Children(t, last) : Common(m, q) > Len(last)}, q)

With(t, n) == [m \in DOMAIN t \cup {n} |-> IF m \in DOMAIN t THEN t[m] ELSE NewNode]

\* splitNode: n gets a new parent at the given offset, and they share its snapshots.
SplitNode(c, n, at) ==
  LET p      == UpTo(n, at)
      halves == [l \in Layers |-> Split(l, c.trie[n].snaps[l], at)]
      d      == SetSnapshots([c EXCEPT !.trie = With(@, p)],
                             n, [l \in Layers |-> halves[l][2]])
  IN  SetSnapshots(d, p, [l \in Layers |-> halves[l][1]])

\* appendTokens: a new child at q, or the leaf n extended in place.
AppendTokens(c, n, q) ==
  IF n = <<>> \/ Children(c.trie, n) # {} \/ HasSnapshots(c.trie[n])
  THEN [c EXCEPT !.trie = With(@, q), !.activePath = @ \cup {q}]
  ELSE [c EXCEPT !.trie = [m \in (DOMAIN @ \ {n}) \cup {q} |-> @[IF m = q THEN n ELSE m]],
                 !.activePath = (@ \ {n}) \cup {q}]

Without(t, n) == [m \in DOMAIN t \ {n} |-> t[m]]

\* Mutant: a leaf is removed with its snapshots, but they still count.
EvictLeafStillCounted(c, n) == [c EXCEPT !.trie = Without(@, n)]

\* removeNode
EvictLeaf(c, n) == [SetSnapshots(c, n, NoSnaps) EXCEPT !.trie = Without(@, n)]

\* mergeWithChild: the node takes the place of its only child.
MergeWithChild(c, n, child) ==
  SetSnapshots(EvictLeaf(c, n), child,
               [l \in Layers |-> Merged(l, c.trie[n].snaps[l], c.trie[child].snaps[l])])

\* Neither the root, nor active, nor a branch point.
Evictable(c) == {n \in DOMAIN c.trie \ (c.activePath \cup {<<>>}) :
                   Cardinality(Children(c.trie, n)) <= 1}
-----------------------------------------------------------------------------
(* kvCache *)

MinCacheOffset(c) == LeastOf({Len(c.caches[l]) : l \in Layers})

Frontier(c) == Longest(c.activePath)

\* All layers are rewound to the lowest offset or, if one cannot be, freed.
Aligned(live, low) ==
  [l \in Layers |-> IF \A k \in Layers : Rewinds(k, live[k], low)
                    THEN UpTo(live[l], low) ELSE <<>>]

\* Mutant: a node that the caches do not reach stays on the path.
ReachedByAll(path, low) == path

\* The nodes of the path that the caches reach.
Reached(path, low) == {n \in path : Len(n) <= low}

\* attachSnapshots: of the live caches, from the start of the node on.
AttachSnapshots(c, node) ==
  SetSnapshots(c, node,
    [l \in Layers |-> SnapshotOf(l, c.caches[l], StartOffset(c.trie, node))])

\* The leaf of the old path is paged out if it is left or rewound.
PagedOut(c, common, matched) ==
  LET leaf == Frontier(c)
  IN  IF (leaf \in common /\ matched >= Len(leaf)) \/ HasAllSnapshots(c.trie[leaf])
      THEN c ELSE AttachSnapshots(c, leaf)

\* Mutant: page-in stops where a layer has no snapshot, although it may have one further on.
PageInLayerStops(r, l, snap, target) ==
  IF r.failed \/ Len(r.live[l]) >= target THEN r
  ELSE IF snap # None /\ Restores(l, r.live[l], snap, target)
  THEN [r EXCEPT !.live[l] = Restored(@, snap, target)]
  ELSE [r EXCEPT !.failed = TRUE]

\* A layer is restored from a node, unless it is there or a restoration has failed.
PageInLayer(r, l, snap, target) ==
  IF r.failed \/ snap = None \/ Len(r.live[l]) >= target THEN r
  ELSE IF Restores(l, r.live[l], snap, target)
  THEN [r EXCEPT !.live[l] = Restored(@, snap, target)]
  ELSE [r EXCEPT !.failed = TRUE]

\* The layers are restored from a node one after the other.
PageInNode(r, snaps, target) ==
  LET done[l \in 0 .. Len(kinds)] ==
        IF l = 0 THEN r ELSE PageInLayer(done[l - 1], l, snaps[l], target)
  IN  done[Len(kinds)]

\* The nodes of the path from the root on.
PagedIn(t, path, matched, live) ==
  LET leaf == Longest(path)
      done[i \in 0 .. Len(leaf)] ==
        IF i = 0 THEN [live |-> live, failed |-> FALSE]
        ELSE IF UpTo(leaf, i) \notin path THEN done[i - 1]
        ELSE PageInNode(done[i - 1], t[UpTo(leaf, i)].snaps, Least(i, matched))
  IN  done[Len(leaf)].live

\* The layers come to the lowest offset, and the path with them.
Align(c, path, live) ==
  LET low == LeastOf({Len(live[l]) : l \in Layers})
  IN  [c EXCEPT !.caches = Aligned(live, low), !.activePath = Reached(path, low)]

PageIn(c, path, matched, live) ==
  Align(c, path, PagedIn(c.trie, path, matched, live))

\* The old leaf is paged out, every layer rewound or freed, the new path paged in.
SwitchToPath(c, match) ==
  LET common == c.activePath \cap match.path
      target == Least(Len(Longest(common)), match.matched)
  IN  PageIn(PagedOut(c, common, match.matched), match.path, match.matched,
             [l \in Layers |-> IF Rewinds(l, c.caches[l], target)
                               THEN UpTo(c.caches[l], target) ELSE <<>>])

\* Mutant: a leaf is extended in place, whoever needs it.
ExtendAnyLeaf(c, dest, q) ==
  IF dest = q THEN c
  ELSE AppendTokens(IF Children(c.trie, dest) = {} THEN SetSnapshots(c, dest, NoSnaps) ELSE c,
                    dest, q)

\* What is left of q goes into a new node, or into the leaf if no user needs it.
Extend(c, dest, q) ==
  IF dest = q THEN c
  ELSE AppendTokens(IF Children(c.trie, dest) = {} /\ ~c.trie[dest].user
                    THEN SetSnapshots(c, dest, NoSnaps) ELSE c, dest, q)

\* The path goes on along a match, whose last edge is split if it ends within.
GoAlong(c, match, last, dest) ==
  [(IF dest = last THEN c ELSE SplitNode(c, last, match.matched)) EXCEPT
     !.activePath = @ \cup (match.path \ {last}) \cup {dest}]

\* advancePath to q, of which match is what the trie has beyond the frontier.
Follow(c, match, q) ==
  LET dest == UpTo(q, match.matched)
  IN  Extend(GoAlong(c, match, Longest(match.path), dest), dest, q)

AdvancePath(c, q) == Follow(c, FindBestMatch(c.trie, Frontier(c), q), q)
-----------------------------------------------------------------------------
(* The session, and the pipeline that uses it *)

NoSession == [pc |-> "idle", inputs |-> <<>>, outputs |-> <<>>, position |-> 0,
              pending |-> {}, evict |-> FALSE]

Init ==
  /\ kinds \in Models
  /\ cache = [trie |-> [n \in {<<>>} |-> NewNode], activePath |-> {<<>>},
              caches |-> [l \in Layers |-> <<>>], pagedOutBytes |-> 0]
  /\ session = NoSession
  /\ misfiled = FALSE

Stored == session.inputs \o session.outputs

\* enforceEvictionPolicy has something to do, and it goes before anything else.
\* Which node goes first (the oldest, the deepest, the largest) is not modelled.
Evicting == /\ session.evict
            /\ cache.pagedOutBytes > MaxPagedOut[kinds]
            /\ Evictable(cache) # {}

Evict ==
  /\ Evicting
  /\ \E n \in Evictable(cache) :
       cache' = IF Children(cache.trie, n) = {} THEN EvictLeaf(cache, n)
                ELSE MergeWithChild(cache, n, Longest(Children(cache.trie, n)))
  /\ UNCHANGED <<kinds, session, misfiled>>

\* requestSnapshot: where the pipeline wants them, after what is cached.
Wanted(inputs, prefix) ==
  {o \in prefix + 1 .. Len(inputs) :
     \/ o % SnapshotInterval = 0 /\ o < Len(inputs)
     \/ o = Len(inputs) - PreThinking}

\* Mutant: a prompt that is cached in full needs no evaluation.
MatchWhole(inputs) == FindBestMatch(cache.trie, <<>>, inputs)

\* A token is left to be evaluated.
Match(inputs) ==
  LET match == FindBestMatch(cache.trie, <<>>, inputs)
  IN  IF match.matched < Len(inputs) THEN match
      ELSE FindBestMatch(cache.trie, <<>>, UpTo(inputs, Len(inputs) - 1))

\* Besides, one where the prompt leaves what is in the trie, if it is not restored.
Pending(wanted, prefix, matched) ==
  {[offset |-> o, user |-> TRUE] : o \in wanted}
  \cup {[offset |-> o, user |-> FALSE] :
          o \in IF prefix < matched THEN {matched} \ wanted ELSE {}}

Begin(inputs) ==
  /\ session.pc = "idle"
  /\ cache' = SwitchToPath(cache, Match(inputs))
  /\ LET prefix == MinCacheOffset(cache')
     IN  session' = [NoSession EXCEPT
           !.pc = "prefill", !.inputs = inputs, !.position = prefix, !.evict = TRUE,
           !.pending = Pending(Wanted(inputs, prefix), prefix, Match(inputs).matched)]
  /\ UNCHANGED <<kinds, misfiled>>

\* Model.Forward: n more tokens of s, in all layers.
Forward(s, n) ==
  [cache EXCEPT !.caches = [l \in Layers |-> Appended(l, @[l], s, n)]]

Left == Len(session.inputs) - session.position

\* A batch ends at the next snapshot, and before the last token.
BatchSize ==
  LET n    == Least(PrefillChunk, Left - 1)
      next == {p.offset - session.position : p \in session.pending} \cap 1 .. n
  IN  IF next = {} THEN n ELSE LeastOf(next)

\* snapshot: the frontier is there already, with all snapshots, or is ahead.
SnapshotThere(c, q) ==
  \/ Len(Frontier(c)) > Len(q)
  \/ Len(Frontier(c)) = Len(q) /\ HasAllSnapshots(c.trie[Frontier(c)])

\* The frontier is kept for the user who asked for it.
MarkUser(c, user) == [c EXCEPT !.trie[Frontier(c)].user = @ \/ user]

\* The trie is advanced to q, and fresh snapshots of the live caches attached.
Snapshot(c, q, user) ==
  IF Len(Frontier(c)) > Len(q) THEN c
  ELSE IF SnapshotThere(c, q) THEN MarkUser(c, user)
  ELSE AttachSnapshots(
         MarkUser(IF Frontier(c) = q THEN c ELSE AdvancePath(c, q), user), q)

Prefill ==
  LET n     == BatchSize
      c     == Forward(session.inputs, n)
      q     == UpTo(session.inputs, MinCacheOffset(c))
      taken == {p \in session.pending : p.offset <= session.position + n}
  IN  /\ session.pc = "prefill" /\ ~Evicting
      /\ Left > 1
      /\ cache' = IF taken = {} THEN c ELSE Snapshot(c, q, \E p \in taken : p.user)
      /\ session' = [session EXCEPT !.position = @ + n, !.pending = @ \ taken,
                                    !.evict = taken # {} /\ ~SnapshotThere(c, q)]
      /\ UNCHANGED <<kinds, misfiled>>

\* The last token of the prompt.
Seed ==
  /\ session.pc = "prefill" /\ ~Evicting
  /\ Left = 1
  /\ cache' = Forward(session.inputs, 1)
  /\ session' = [session EXCEPT !.pc = "decode", !.position = @ + 1, !.evict = FALSE]
  /\ UNCHANGED <<kinds, misfiled>>

\* Tokens (xs) are generated and cached, of which some (out) are put out.
Generates(xs, out, pc) ==
  /\ session.pc = "decode"
  /\ Len(Stored) + Len(xs) <= MaxTokens
  /\ cache' = [cache EXCEPT !.caches =
       [l \in Layers |-> Fed(l, @[l], Stored \o xs, Len(xs))]]
  /\ session' = [session EXCEPT !.pc = pc, !.outputs = @ \o out, !.position = @ + Len(xs)]
  /\ UNCHANGED <<kinds, misfiled>>

Decode(x) == Generates(<<x>>, <<x>>, "decode")

\* Drafted tokens are accepted, cached at once, and put out one by one; the client
\* goes away in between.  If it stays, this is one Decode after the other, as it
\* is for a model with a recurrent layer, which cannot speculate.
DraftCut(xs, n) ==
  /\ \A l \in Layers : kinds[l] # "recurrent"
  /\ session.outputs # <<>>
  /\ n \in 1 .. Len(xs) - 1
  /\ Generates(xs, UpTo(xs, n), "cut")

\* The deferred close, at the end or when the client is gone.  A slice that goes
\* past the stored tokens takes what is in the array (junk), or panics: then the
\* runner dies with its cache.
Close(junk) ==
  LET offset == MinCacheOffset(cache)
      q      == UpTo(Stored \o junk, offset)
  IN  /\ session.pc \in {"decode", "cut"} \/ (session.pc = "prefill" /\ Left > 1)
      /\ ~Evicting
      /\ Len(Stored \o junk) = IF offset > Len(Stored) THEN offset ELSE Len(Stored)
      /\ cache' = IF offset > Len(Frontier(cache)) THEN AdvancePath(cache, q) ELSE cache
      /\ session' = NoSession
      /\ misfiled' = (misfiled \/ junk # <<>>)
      /\ UNCHANGED kinds

TokenSeqs(n) == UNION {[1 .. k -> Tokens] : k \in 1 .. n}

Next == \/ \E prompt \in TokenSeqs(MaxPrompt) : Begin(prompt)
        \/ Evict \/ Prefill \/ Seed
        \/ \E x \in Tokens : Decode(x)
        \/ \E xs \in TokenSeqs(2), n \in 1 .. 1 : DraftCut(xs, n)
        \/ \E junk \in TokenSeqs(1) \cup {<<>>} : Close(junk)

Spec == Init /\ [][Next]_vars
-----------------------------------------------------------------------------
(* Properties *)

Cells == Seq(Seq(Tokens))

\* The states of the trie, of the live caches and of the session.
TypeOK ==
  /\ kinds \in Models
  /\ \A n \in DOMAIN cache.trie :
       /\ n \in Seq(Tokens)
       /\ cache.trie[n] \in
            [snaps : [Layers -> {None} \cup [from : Nat, cells : Cells]], user : BOOLEAN]
  /\ cache.caches \in [Layers -> Cells]
  /\ cache.pagedOutBytes \in Nat
  /\ session \in [pc : {"idle", "prefill", "decode", "cut"},
                  inputs : Seq(Tokens), outputs : Seq(Tokens), position : Nat,
                  pending : SUBSET [offset : Nat, user : BOOLEAN], evict : BOOLEAN]

\* Children of a node begin with different tokens, through splits, extensions in
\* place, merges and removals: what was cached for a prefix is found again.
SiblingsDiffer ==
  \A n \in DOMAIN cache.trie : \A m, o \in Children(cache.trie, n) :
    m # o => m[Len(n) + 1] # o[Len(n) + 1]

\* The positions that a layer needs to go on at an offset.
Needed(l, offset) ==
  {i \in 1 .. offset : CASE kinds[l] = "kv"        -> TRUE
                         [] kinds[l] = "rotating"  -> i + Window > offset + 1
                         [] kinds[l] = "recurrent" -> i = offset}

\* A snapshot was computed from the tokens of its node, and is complete: in the
\* order of its creation, splits, merges and page-outs no state of another prompt
\* or of another offset gets there.
SnapshotsTrue ==
  ~misfiled => \A n \in DOMAIN cache.trie, l \in Layers :
    LET s == cache.trie[n].snaps[l]
    IN  s # None => /\ End(s) <= Len(n)
                    /\ \A i \in Needed(l, End(s)) :
                         i > s.from => s.cells[i - s.from] = UpTo(n, i)

\* The live caches were computed from the very tokens of the prompt and of the
\* answer so far, and between requests from those of the active path.
LiveTrue ==
  ~misfiled /\ session.pc # "cut" =>
    \A l \in Layers : \A i \in Needed(l, Len(cache.caches[l])) :
      cache.caches[l][i] =
        UpTo(IF session.pc = "idle" THEN Frontier(cache) ELSE Stored, i)

\* All layers stay at the same offset, where the pipeline believes them to be, and
\* a token of the prompt is left for it to evaluate.
InStep ==
  /\ \A l \in Layers : Len(cache.caches[l]) = MinCacheOffset(cache)
  /\ session.pc # "idle" => session.position = MinCacheOffset(cache)
  /\ session.pc = "prefill" => Left > 0

\* The active path is a path of the trie from the root on, whatever is split, merged
\* and evicted, and the live caches have reached its end; between requests they end
\* there.
PathBacked ==
  /\ cache.activePath = PathTo(cache.trie, Frontier(cache))
  /\ Len(Frontier(cache)) <= MinCacheOffset(cache)
  /\ session.pc = "idle" => Len(Frontier(cache)) = MinCacheOffset(cache)

\* pagedOutBytes is the size of the snapshots there are, so that eviction neither
\* stops early nor empties the trie.
CounterExact ==
  cache.pagedOutBytes =
    Cardinality(UNION {{n} \X HeldBy(cache.trie[n].snaps) : n \in DOMAIN cache.trie})

\* The nodes that the pipeline asked for and that every layer can be restored from.
RestorePoints == {n \in DOMAIN cache.trie :
                    cache.trie[n].user /\ HasAllSnapshots(cache.trie[n])}

\* A restore point outlasts whatever later requests do around it: splits of its edge,
\* extensions of the leaf it may be, page-outs, fresh snapshots, merges of its parent.
\* Only eviction takes one away, and never more than the one node it evicts.
RestorePointsKept ==
  [][\/ RestorePoints \subseteq RestorePoints'
     \/ /\ Evicting
        /\ \E n \in Evictable(cache) : RestorePoints \ {n} \subseteq RestorePoints']_vars

\* A request evaluates no token again for which every layer has a snapshot: begin
\* comes at least to the longest node with all snapshots that the prompt goes beyond,
\* although a layer may have to be rewound, restored and rewound again because others
\* cannot follow, and all are freed if one of them cannot.
SnapshotsServe ==
  [][session.pc = "idle" /\ session'.pc = "prefill" =>
       \A n \in DOMAIN cache.trie :
         HasAllSnapshots(cache.trie[n]) /\ IsStrictPrefix(n, session'.inputs)
           => Len(n) <= session'.position]_vars
=============================================================================
