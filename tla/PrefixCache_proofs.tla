------------------------ MODULE PrefixCache_proofs ------------------------
(***************************************************************************)
(* Proofs that no prompt is given the state of another: every snapshot of  *)
(* the trie and every live cache holds what was computed from the tokens   *)
(* it is used for (up to the first request closed with less output than    *)
(* was cached), all layers stay at one offset, the active path is backed,  *)
(* siblings differ and the counter of paged out bytes is exact; and that a *)
(* restore point stays until it is evicted and a request starts from the   *)
(* snapshots there are.  For any tokens, any models and any lengths; IInv  *)
(* is the inductive invariant.                                             *)
(*                                                                         *)
(* Each operation of the cache has a lemma that says what it makes of a    *)
(* good cache: EvictedIs, AdvanceIs, SnapshotTaken, PagedOutIs, PagedInIs, *)
(* AlignIs, SwitchIs, FedIs.  The steps of the session follow from these.  *)
(* What goes through the layers or along a path is a recursive function;   *)
(* StepsExist says that there is one.                                      *)
(***************************************************************************)
EXTENDS PrefixCache, FiniteSetTheorems, SequenceTheorems, TLAPS

\* The cells that a layer has at an offset: Needed, and the oldest of a full window.
Kept(l, len) ==
  {i \in 1 .. len : CASE kinds[l] = "kv"        -> TRUE
                      [] kinds[l] = "rotating"  -> i + Window > len
                      [] kinds[l] = "recurrent" -> i = len}

\* Types.
SnapRecord == [from : Nat, cells : Cells]

AnySnaps == [Layers -> {None} \cup SnapRecord]

NodeRecord == [snaps : AnySnaps, user : BOOLEAN]

AnyTrie == UNION {[D -> NodeRecord] : D \in SUBSET Seq(Tokens)}

CacheRecord ==
  [trie : AnyTrie, activePath : SUBSET Seq(Tokens),
   caches : [Layers -> Cells], pagedOutBytes : Int]

\* Two nodes part at a node.
MeetClosed(D) ==
  \A m, o \in D : \A i \in Nat :
    /\ i < Len(m) /\ i < Len(o)
    /\ UpTo(m, i) = UpTo(o, i)
    /\ UpTo(m, i + 1) # UpTo(o, i + 1)
    => UpTo(m, i) \in D

\* The nodes of a trie.
TrieShape(D) ==
  /\ D \subseteq Seq(Tokens)
  /\ IsFiniteSet(D)
  /\ <<>> \in D
  /\ MeetClosed(D)

\* A snapshot of a node starts and ends where the node does; that of a layer
\* which does not keep all cells starts at the root.
Fits(l, n, start, s) ==
  s # None => /\ n # <<>>
              /\ End(s) = Len(n)
              /\ s.from = IF kinds[l] = "kv" THEN start ELSE 0

\* Every snapshot fits its node.
SnapsFit(t) ==
  \A n \in DOMAIN t, l \in Layers : Fits(l, n, StartOffset(t, n), t[n].snaps[l])

\* Layers that do not keep all cells have their snapshots at the same nodes.
Together(snaps) ==
  \A k, l \in Layers : kinds[k] # "kv" /\ kinds[l] # "kv" =>
    (snaps[k] = None <=> snaps[l] = None)

SnapsTogether(t) == \A n \in DOMAIN t : Together(t[n].snaps)

\* A layer that keeps all cells has a snapshot.
HasKeys(snaps) == \A l \in Layers : kinds[l] = "kv" => snaps[l] # None

\* It has one at every node, unless the live caches alone have reached its end.
KeysBacked(t, f) ==
  \A n \in DOMAIN t \ {<<>>} :
    \/ HasKeys(t[n].snaps)
    \/ n = f /\ Children(t, n) = {} /\ t[n].snaps = NoSnaps

\* The cells that a snapshot should have were computed from the tokens of its node.
TrueSnap(l, n, s) ==
  s # None => \A i \in Kept(l, Len(n)) : i > s.from => s.cells[i - s.from] = UpTo(n, i)

SnapsTrue(t) == \A n \in DOMAIN t, l \in Layers : TrueSnap(l, n, t[n].snaps[l])

\* The cells that a trie holds, by node and layer.
AllHeld(t) == UNION {{n} \X HeldBy(t[n].snaps) : n \in DOMAIN t}

\* The counter says how many there are.
Counted(c) == c.pagedOutBytes = Cardinality(AllHeld(c.trie))

\* The active path ends at f.
EndsAt(c, f) == f \in DOMAIN c.trie /\ c.activePath = PathTo(c.trie, f)

\* A trie that is well made.
GoodTrie(t) == TrieShape(DOMAIN t) /\ SnapsFit(t) /\ SnapsTogether(t)

\* A cache with the active path to f.
Good(c, f) ==
  /\ c \in CacheRecord
  /\ GoodTrie(c.trie)
  /\ EndsAt(c, f)
  /\ KeysBacked(c.trie, f)
  /\ Counted(c)

\* The restore points of a trie.
Points(t) == {n \in DOMAIN t : t[n].user /\ HasAllSnapshots(t[n])}

\* All layers are at an offset.
AllAt(live, k) == \A l \in Layers : Len(live[l]) = k

\* The cells of the live caches are those of s.
LiveOf(live, s) == \A l \in Layers : \A i \in Kept(l, Len(live[l])) : live[l][i] = UpTo(s, i)

\* The session.
SessionRecord ==
  [pc : {"idle", "prefill", "decode", "cut"},
   inputs : Seq(Tokens), outputs : Seq(Tokens), position : Nat,
   pending : SUBSET [offset : Nat, user : BOOLEAN], evict : BOOLEAN]

\* Where the pipeline is, and what the active path is for.
InSession(f, k) ==
  /\ session.position = k
  /\ IsPrefix(f, Stored)
  /\ session.pc = "prefill" => session.outputs = <<>> /\ k < Len(session.inputs)
  /\ session.pc = "decode" => k = Len(Stored)
  /\ session.pc = "cut" => k > Len(Stored)

\* The inductive invariant: f is where the active path ends, k the offset of all layers.
\* After a request was closed with less output than was cached, nothing is said of what the
\* cells hold; the rest stays.
IInv ==
  /\ kinds \in Models
  /\ session \in SessionRecord
  /\ misfiled \in BOOLEAN
  /\ \E f \in DOMAIN cache.trie, k \in Nat :
       /\ Good(cache, f)
       /\ AllAt(cache.caches, k)
       /\ Len(f) <= k
       /\ session.pc = "idle" => session = NoSession /\ Len(f) = k
       /\ session.pc # "idle" => InSession(f, k)
       /\ ~misfiled => SnapsTrue(cache.trie)
       /\ ~misfiled /\ session.pc # "cut" =>
            LiveOf(cache.caches, IF session.pc = "idle" THEN f ELSE Stored)
-----------------------------------------------------------------------------
(* Prefixes of sequences *)

\* The first n elements of a sequence.
LEMMA UpToIs ==
  ASSUME NEW S, NEW s \in Seq(S), NEW n \in 0 .. Len(s)
  PROVE  /\ UpTo(s, n) \in Seq(S)
         /\ Len(UpTo(s, n)) = n
         /\ \A i \in 1 .. n : UpTo(s, n)[i] = s[i]
<1>1. \A i \in 1 .. n : s[i] \in S
  OBVIOUS
<1>2. n \in Int /\ 1 \in Int
  OBVIOUS
<1> QED
  BY <1>1, <1>2, SubSeqProperties DEF UpTo

\* Sequences are equal that agree at every position.
LEMMA SameSeq ==
  ASSUME NEW S, NEW s \in Seq(S), NEW t \in Seq(S), Len(s) = Len(t),
         \A i \in 1 .. Len(s) : s[i] = t[i]
  PROVE  s = t
BY SeqEqual

\* A prefix of a prefix.
LEMMA UpToUpTo ==
  ASSUME NEW S, NEW s \in Seq(S), NEW n \in 0 .. Len(s), NEW m \in 0 .. n
  PROVE  UpTo(UpTo(s, n), m) = UpTo(s, m)
<1>1. UpTo(s, n) \in Seq(S) /\ Len(UpTo(s, n)) = n /\ \A i \in 1 .. n : UpTo(s, n)[i] = s[i]
  BY UpToIs
<1>2. /\ UpTo(UpTo(s, n), m) \in Seq(S) /\ Len(UpTo(UpTo(s, n), m)) = m
      /\ \A i \in 1 .. m : UpTo(UpTo(s, n), m)[i] = UpTo(s, n)[i]
  BY <1>1, UpToIs
<1>3. m \in 0 .. Len(s) /\ \A i \in 1 .. m : i \in 1 .. n
  OBVIOUS
<1>4. UpTo(s, m) \in Seq(S) /\ Len(UpTo(s, m)) = m /\ \A i \in 1 .. m : UpTo(s, m)[i] = s[i]
  BY <1>3, UpToIs
<1> QED
  BY <1>1, <1>2, <1>3, <1>4, SameSeq

\* The longest and the shortest prefix.
LEMMA UpToWhole ==
  ASSUME NEW S, NEW s \in Seq(S)
  PROVE  UpTo(s, Len(s)) = s /\ UpTo(s, 0) = <<>> /\ Len(s) \in Nat
BY SubSeqFull, SubSeqEmpty DEF UpTo

\* A prefix is what UpTo gives.
LEMMA PrefixIs ==
  ASSUME NEW S, NEW s \in Seq(S), NEW t \in Seq(S)
  PROVE  IsPrefix(s, t) <=> Len(s) <= Len(t) /\ s = UpTo(t, Len(s))
BY UpToWhole DEF IsPrefix, UpTo

\* What UpTo gives is a prefix.
LEMMA UpToPrefix ==
  ASSUME NEW S, NEW s \in Seq(S), NEW n \in 0 .. Len(s)
  PROVE  IsPrefix(UpTo(s, n), s)
BY UpToIs, PrefixIs, UpToWhole

\* Of a prefix, the prefixes are those of the whole.
LEMMA PrefixUpTo ==
  ASSUME NEW S, NEW s \in Seq(S), NEW t \in Seq(S), IsPrefix(s, t), NEW n \in 0 .. Len(s)
  PROVE  UpTo(s, n) = UpTo(t, n) /\ n \in 0 .. Len(t) /\ Len(s) \in 0 .. Len(t)
<1>1. Len(s) \in Nat /\ Len(t) \in Nat /\ Len(s) <= Len(t) /\ s = UpTo(t, Len(s))
  BY PrefixIs, UpToWhole
<1>2. Len(s) \in 0 .. Len(t) /\ n \in 0 .. Len(t)
  BY <1>1
<1>3. UpTo(UpTo(t, Len(s)), n) = UpTo(t, n)
  BY <1>2, UpToUpTo
<1> QED
  BY <1>1, <1>2, <1>3

\* To be a prefix is transitive.
LEMMA PrefixTrans ==
  ASSUME NEW S, NEW r \in Seq(S), NEW s \in Seq(S), NEW t \in Seq(S),
         IsPrefix(r, s), IsPrefix(s, t)
  PROVE  IsPrefix(r, t)
<1>1. Len(r) \in Nat /\ Len(s) \in Nat /\ Len(t) \in Nat /\ Len(r) <= Len(s) /\ r = UpTo(s, Len(r)) /\ Len(s) <= Len(t)
  BY PrefixIs, UpToWhole
<1>2. UpTo(s, Len(r)) = UpTo(t, Len(r))
  BY <1>1, PrefixUpTo
<1> QED
  BY <1>1, <1>2, PrefixIs

\* Of two prefixes of a sequence the shorter is a prefix of the longer.
LEMMA PrefixComparable ==
  ASSUME NEW S, NEW r \in Seq(S), NEW s \in Seq(S), NEW t \in Seq(S),
         IsPrefix(r, t), IsPrefix(s, t), Len(r) <= Len(s)
  PROVE  IsPrefix(r, s)
<1>1. Len(r) \in Nat /\ Len(s) \in Nat /\ r = UpTo(t, Len(r)) /\ Len(r) \in 0 .. Len(s)
  BY PrefixIs, UpToWhole
<1>2. UpTo(s, Len(r)) = UpTo(t, Len(r))
  BY <1>1, PrefixUpTo
<1> QED
  BY <1>1, <1>2, PrefixIs

\* A sequence has one prefix of each length.
LEMMA PrefixEqual ==
  ASSUME NEW S, NEW r \in Seq(S), NEW s \in Seq(S), NEW t \in Seq(S),
         IsPrefix(r, t), IsPrefix(s, t), Len(r) = Len(s)
  PROVE  r = s
BY PrefixIs

\* The trivial prefixes.
LEMMA PrefixSelf ==
  ASSUME NEW S, NEW s \in Seq(S)
  PROVE  IsPrefix(s, s) /\ IsPrefix(<<>>, s) /\ <<>> \in Seq(S) /\ Len(<<>>) = 0
<1>1. <<>> \in Seq(S) /\ Len(<<>>) = 0
  BY EmptySeq
<1>2. Len(s) \in Nat /\ UpTo(s, Len(s)) = s /\ UpTo(s, 0) = <<>>
  BY UpToWhole
<1>3. IsPrefix(s, s)
  BY <1>2, PrefixIs
<1>4. IsPrefix(<<>>, s)
  <2>1. Len(<<>>) <= Len(s) /\ <<>> = UpTo(s, Len(<<>>))
    BY <1>1, <1>2
  <2> QED
    BY <1>1, <2>1, PrefixIs
<1> QED
  BY <1>1, <1>3, <1>4

\* Only the empty sequence has length 0.
LEMMA EmptyIs ==
  ASSUME NEW S, NEW s \in Seq(S)
  PROVE  s = <<>> <=> Len(s) = 0
BY EmptySeq

\* A sequence is a prefix of what extends it.
LEMMA PrefixConcat ==
  ASSUME NEW S, NEW s \in Seq(S), NEW t \in Seq(S)
  PROVE  /\ s \o t \in Seq(S) /\ Len(s \o t) = Len(s) + Len(t) /\ IsPrefix(s, s \o t)
         /\ \A n \in 0 .. Len(s) : UpTo(s \o t, n) = UpTo(s, n)
<1>1. /\ s \o t \in Seq(S) /\ Len(s \o t) = Len(s) + Len(t)
      /\ \A i \in 1 .. Len(s) + Len(t) : (s \o t)[i] = IF i <= Len(s) THEN s[i] ELSE t[i - Len(s)]
  BY ConcatProperties
<1>2. Len(s) \in Nat /\ Len(t) \in Nat /\ Len(s) \in 0 .. Len(s \o t)
  BY <1>1, UpToWhole
<1>3. UpTo(s \o t, Len(s)) \in Seq(S) /\ Len(UpTo(s \o t, Len(s))) = Len(s) /\ \A i \in 1 .. Len(s) : UpTo(s \o t, Len(s))[i] = (s \o t)[i]
  BY <1>1, <1>2, UpToIs
<1>4. UpTo(s \o t, Len(s)) = s
  <2>1. \A i \in 1 .. Len(s) : (s \o t)[i] = s[i]
    BY <1>1, <1>2
  <2> QED
    BY <1>3, <2>1, SameSeq
<1>5. IsPrefix(s, s \o t)
  <2>1. s \o t \in Seq(S) /\ Len(s) <= Len(s \o t)
    BY <1>1, <1>2
  <2> QED
    BY <1>4, <2>1, PrefixIs
<1> QED
  BY <1>1, <1>5, PrefixUpTo

\* Agreement up to one more position.
LEMMA UpToNext ==
  ASSUME NEW S, NEW s \in Seq(S), NEW t \in Seq(S), NEW n \in Nat,
         n + 1 <= Len(s), n + 1 <= Len(t), UpTo(s, n) = UpTo(t, n), s[n + 1] = t[n + 1]
  PROVE  UpTo(s, n + 1) = UpTo(t, n + 1)
<1>1. Len(s) \in Nat /\ Len(t) \in Nat /\ n \in 0 .. Len(s) /\ n \in 0 .. Len(t) /\ n + 1 \in 0 .. Len(s) /\ n + 1 \in 0 .. Len(t)
  BY UpToWhole
<1>2. /\ UpTo(s, n + 1) \in Seq(S) /\ Len(UpTo(s, n + 1)) = n + 1 /\ \A i \in 1 .. n + 1 : UpTo(s, n + 1)[i] = s[i]
      /\ UpTo(t, n + 1) \in Seq(S) /\ Len(UpTo(t, n + 1)) = n + 1 /\ \A i \in 1 .. n + 1 : UpTo(t, n + 1)[i] = t[i]
  BY <1>1, UpToIs
<1>3. (\A i \in 1 .. n : UpTo(s, n)[i] = s[i]) /\ \A i \in 1 .. n : UpTo(t, n)[i] = t[i]
  BY <1>1, UpToIs
<1>4. \A i \in 1 .. n + 1 : s[i] = t[i]
  BY <1>3
<1> QED
  BY <1>2, <1>4, SameSeq

-----------------------------------------------------------------------------
(* Least and greatest *)

\* A set of numbers has a least element.
LEMMA LeastNat ==
  ASSUME NEW S \in SUBSET Nat, S # {}
  PROVE  \E m \in S : \A k \in S : m <= k
<1>1. PICK m \in S : \A k \in S : <<k, m>> \notin OpToRel(<, Nat)
  BY NatLessThanWellFounded, WFMin
<1>2. \A k \in S : ~(k < m)
  BY <1>1 DEF OpToRel
<1> QED
  BY <1>2

\* LeastOf finds it.
LEMMA LeastOfIs ==
  ASSUME NEW S \in SUBSET Nat, S # {}
  PROVE  LeastOf(S) \in S /\ \A k \in S : LeastOf(S) <= k
BY LeastNat DEF LeastOf

\* A bounded set of numbers has a greatest element.
LEMMA GreatestNat ==
  ASSUME NEW S \in SUBSET Nat, S # {}, NEW b \in Nat, \A k \in S : k <= b
  PROVE  \E m \in S : \A k \in S : k <= m
<1> DEFINE R == {d \in Nat : \E k \in S : d = b - k}
<1>1. R \in SUBSET Nat /\ R # {}
  <2>1. PICK k \in S : TRUE
    OBVIOUS
  <2>2. b - k \in R
    OBVIOUS
  <2> QED
    BY <2>2
<1>2. PICK d \in R : \A e \in R : d <= e
  BY <1>1, LeastNat
<1>3. PICK m \in S : d = b - m
  OBVIOUS
<1>4. \A k \in S : b - k \in R
  OBVIOUS
<1> HIDE DEF R
<1>5. \A k \in S : k <= m
  BY <1>2, <1>3, <1>4
<1> QED
  BY <1>5

\* GreatestOf finds it.
LEMMA GreatestOfIs ==
  ASSUME NEW S \in SUBSET Nat, S # {}, NEW b \in Nat, \A k \in S : k <= b
  PROVE  GreatestOf(S) \in S /\ \A k \in S : k <= GreatestOf(S)
BY GreatestNat DEF GreatestOf

\* Longest finds the longest of sequences of bounded length.
LEMMA LongestIs ==
  ASSUME NEW S \in SUBSET Seq(Tokens), S # {}, NEW b \in Nat, \A s \in S : Len(s) <= b
  PROVE  Longest(S) \in S /\ \A s \in S : Len(s) <= Len(Longest(S))
<1> DEFINE R == {n \in Nat : \E s \in S : n = Len(s)}
<1>1. \A s \in S : Len(s) \in R
  BY UpToWhole
<1>2. R \in SUBSET Nat /\ R # {} /\ \A k \in R : k <= b
  BY <1>1
<1>3. PICK m \in R : \A k \in R : k <= m
  BY <1>2, GreatestNat
<1>4. PICK s \in S : m = Len(s)
  OBVIOUS
<1> HIDE DEF R
<1>5. \A r \in S : Len(r) <= Len(s)
  BY <1>1, <1>3, <1>4
<1> QED
  BY <1>5 DEF Longest

\* Of prefixes of one sequence, only one is the longest.
LEMMA LongestOf ==
  ASSUME NEW q \in Seq(Tokens), NEW S \in SUBSET Seq(Tokens), \A s \in S : IsPrefix(s, q),
         NEW f \in S, \A s \in S : Len(s) <= Len(f)
  PROVE  Longest(S) = f
<1>1. Len(f) \in Nat
  BY UpToWhole
<1>2. Longest(S) \in S /\ \A s \in S : Len(s) <= Len(Longest(S))
  BY <1>1, LongestIs
<1>3. Len(Longest(S)) = Len(f)
  BY <1>2, UpToWhole
<1> QED
  BY <1>2, <1>3, PrefixEqual

\* Common is the length of the longest prefix of both.
LEMMA CommonIs ==
  ASSUME NEW p \in Seq(Tokens), NEW q \in Seq(Tokens)
  PROVE  /\ Common(p, q) \in 0 .. Len(p)
         /\ Common(p, q) \in 0 .. Len(q)
         /\ UpTo(p, Common(p, q)) = UpTo(q, Common(p, q))
         /\ \A i \in 0 .. Len(p) : i <= Len(q) /\ UpTo(p, i) = UpTo(q, i) => i <= Common(p, q)
<1> DEFINE S == {i \in 0 .. Least(Len(p), Len(q)) : UpTo(p, i) = UpTo(q, i)}
<1>1. /\ Len(p) \in Nat /\ Len(q) \in Nat /\ Least(Len(p), Len(q)) \in Nat
      /\ Least(Len(p), Len(q)) <= Len(p) /\ Least(Len(p), Len(q)) <= Len(q)
      /\ \A i \in Nat : i <= Len(p) /\ i <= Len(q) => i <= Least(Len(p), Len(q))
  BY UpToWhole DEF Least
<1>2. UpTo(p, 0) = UpTo(q, 0)
  BY UpToWhole
<1>3. S \in SUBSET Nat /\ S # {} /\ \A k \in S : k <= Least(Len(p), Len(q))
  BY <1>1, <1>2
<1>4. GreatestOf(S) \in S /\ \A k \in S : k <= GreatestOf(S)
  BY <1>1, <1>3, GreatestOfIs
<1>5. Common(p, q) = GreatestOf(S)
  BY DEF Common
<1>6. \A i \in 0 .. Len(p) : i <= Len(q) /\ UpTo(p, i) = UpTo(q, i) => i \in S
  BY <1>1
<1>7. \A i \in S : i \in 0 .. Len(p) /\ i \in 0 .. Len(q) /\ UpTo(p, i) = UpTo(q, i)
  BY <1>1
<1> HIDE DEF S
<1> QED
  BY <1>4, <1>5, <1>6, <1>7

-----------------------------------------------------------------------------
(* Nodes and paths *)

\* The path of a sequence is made of its prefixes in the trie.
LEMMA PathIs ==
  ASSUME NEW t, TrieShape(DOMAIN t), NEW q \in Seq(Tokens)
  PROVE  /\ PathTo(t, q) \subseteq DOMAIN t
         /\ PathTo(t, q) \in SUBSET Seq(Tokens)
         /\ <<>> \in PathTo(t, q)
         /\ Len(q) \in Nat
         /\ \A m \in PathTo(t, q) : IsPrefix(m, q) /\ Len(m) <= Len(q)
         /\ \A m \in DOMAIN t : IsPrefix(m, q) => m \in PathTo(t, q)
<1>1. DOMAIN t \subseteq Seq(Tokens) /\ <<>> \in DOMAIN t
  BY DEF TrieShape
<1>2. IsPrefix(<<>>, q) /\ Len(q) \in Nat
  BY PrefixSelf, UpToWhole
<1>3. \A m \in PathTo(t, q) : m \in DOMAIN t /\ IsPrefix(m, q)
  BY DEF PathTo
<1>4. \A m \in DOMAIN t : IsPrefix(m, q) => m \in PathTo(t, q)
  BY DEF PathTo
<1>5. \A m \in PathTo(t, q) : Len(m) <= Len(q)
  BY <1>1, <1>3, PrefixIs
<1> QED
  BY <1>1, <1>2, <1>3, <1>4, <1>5

\* The end of a path is its longest node.
LEMMA PathEnd ==
  ASSUME NEW t, TrieShape(DOMAIN t), NEW f \in DOMAIN t
  PROVE  f \in PathTo(t, f) /\ Longest(PathTo(t, f)) = f /\ f \in Seq(Tokens) /\ Len(f) \in Nat
<1>1. f \in Seq(Tokens)
  BY DEF TrieShape
<1>2. IsPrefix(f, f)
  BY <1>1, PrefixSelf
<1>3. f \in PathTo(t, f)
  BY <1>1, <1>2, PathIs
<1> QED
  BY <1>1, <1>3, PathIs, LongestOf

\* The parent of a node is the longest node before it.
LEMMA ParentIs ==
  ASSUME NEW t, TrieShape(DOMAIN t), NEW n \in DOMAIN t, n # <<>>
  PROVE  /\ Parent(t, n) \in DOMAIN t /\ Parent(t, n) # n /\ IsPrefix(Parent(t, n), n)
         /\ StartOffset(t, n) \in Nat /\ StartOffset(t, n) < Len(n) /\ Len(n) \in Nat
         /\ Parent(t, n) = UpTo(n, StartOffset(t, n))
         /\ \A m \in DOMAIN t : IsPrefix(m, n) /\ m # n => Len(m) <= Len(Parent(t, n))
<1> DEFINE S == PathTo(t, n) \ {n}
<1>1. n \in Seq(Tokens) /\ DOMAIN t \subseteq Seq(Tokens)
  BY DEF TrieShape
<1>2. S \in SUBSET Seq(Tokens) /\ <<>> \in S /\ Len(n) \in Nat /\ \A m \in S : Len(m) <= Len(n)
  BY <1>1, PathIs
<1>3. Longest(S) \in S /\ \A m \in S : Len(m) <= Len(Longest(S))
  <2> HIDE DEF S
  <2> QED
    BY <1>2, LongestIs
<1>4. Parent(t, n) = Longest(S)
  BY DEF Parent
<1>5. Parent(t, n) \in DOMAIN t /\ Parent(t, n) # n /\ IsPrefix(Parent(t, n), n)
  BY <1>1, <1>3, <1>4, PathIs
<1>6. \A m \in DOMAIN t : IsPrefix(m, n) /\ m # n => m \in S
  BY <1>1, PathIs
<1>7. Parent(t, n) \in Seq(Tokens) /\ Len(Parent(t, n)) \in Nat /\ Parent(t, n) = UpTo(n, Len(Parent(t, n))) /\ Len(Parent(t, n)) <= Len(n)
  BY <1>1, <1>5, PrefixIs, UpToWhole
<1>8. Len(Parent(t, n)) # Len(n)
  BY <1>1, <1>5, <1>7, UpToWhole
<1> HIDE DEF S
<1> QED
  BY <1>2, <1>3, <1>4, <1>5, <1>6, <1>7, <1>8 DEF StartOffset

\* The children of a node: nothing of the trie is between.
LEMMA ChildIs ==
  ASSUME NEW t, TrieShape(DOMAIN t), NEW n \in DOMAIN t, NEW m \in DOMAIN t
  PROVE  m \in Children(t, n) <=>
           /\ IsPrefix(n, m) /\ n # m
           /\ \A o \in DOMAIN t : IsPrefix(o, m) /\ o # m => Len(o) <= Len(n)
<1>1. /\ n \in Seq(Tokens) /\ m \in Seq(Tokens) /\ DOMAIN t \subseteq Seq(Tokens) /\ <<>> \in DOMAIN t
      /\ Len(n) \in Nat /\ Len(m) \in Nat
  BY UpToWhole DEF TrieShape
<1>2. ASSUME m \in Children(t, n)
      PROVE  IsPrefix(n, m) /\ n # m /\ \A o \in DOMAIN t : IsPrefix(o, m) /\ o # m => Len(o) <= Len(n)
  <2>1. m # <<>> /\ Parent(t, m) = n
    BY <1>2 DEF Children
  <2> QED
    BY <2>1, ParentIs
<1>3. ASSUME IsPrefix(n, m), n # m, \A o \in DOMAIN t : IsPrefix(o, m) /\ o # m => Len(o) <= Len(n)
      PROVE  m \in Children(t, n)
  <2>1. m # <<>>
    <3>1. Len(n) <= Len(m) /\ n = UpTo(m, Len(n))
      BY <1>1, <1>3, PrefixIs
    <3> QED
      BY <1>1, <1>3, <3>1, EmptyIs
  <2>2. /\ Parent(t, m) \in DOMAIN t /\ Parent(t, m) # m /\ IsPrefix(Parent(t, m), m)
        /\ Len(n) <= Len(Parent(t, m))
    BY <1>3, <2>1, ParentIs
  <2>3. Len(Parent(t, m)) <= Len(n) /\ Parent(t, m) \in Seq(Tokens) /\ Len(Parent(t, m)) \in Nat
    BY <1>1, <1>3, <2>2, UpToWhole
  <2>4. Len(Parent(t, m)) = Len(n)
    BY <1>1, <2>2, <2>3
  <2>5. Parent(t, m) = n
    BY <1>1, <1>3, <2>2, <2>3, <2>4, PrefixEqual
  <2> QED
    BY <2>1, <2>5 DEF Children
<1> QED
  BY <1>2, <1>3

\* Below a node that is not the end of a path, the path goes on to a child.
LEMMA Descend ==
  ASSUME NEW t, TrieShape(DOMAIN t), NEW n \in DOMAIN t, NEW m \in DOMAIN t,
         IsPrefix(n, m), n # m
  PROVE  \E k \in Children(t, n) : IsPrefix(k, m) /\ k \in DOMAIN t
<1> DEFINE S == {o \in PathTo(t, m) : Len(o) > Len(n)}
           R == {i \in Nat : \E o \in S : i = Len(o)}
<1>1. /\ n \in Seq(Tokens) /\ m \in Seq(Tokens) /\ DOMAIN t \subseteq Seq(Tokens)
      /\ Len(n) \in Nat /\ Len(m) \in Nat
  BY UpToWhole DEF TrieShape
<1>2. Len(n) < Len(m)
  <2>1. Len(n) <= Len(m) /\ n = UpTo(m, Len(n))
    BY <1>1, PrefixIs
  <2>2. Len(n) # Len(m)
    BY <1>1, <2>1, UpToWhole
  <2> QED
    BY <1>1, <2>1, <2>2
<1>3. m \in S /\ \A o \in S : o \in DOMAIN t /\ Len(o) \in R /\ IsPrefix(o, m)
  <2>1. m \in PathTo(t, m)
    BY PathEnd
  <2>2. \A o \in PathTo(t, m) : o \in DOMAIN t /\ Len(o) \in Nat /\ IsPrefix(o, m)
    BY <1>1, PathIs, UpToWhole
  <2> QED
    BY <1>2, <2>1, <2>2
<1>4. PICK i \in R : \A j \in R : i <= j
  <2>1. R \in SUBSET Nat /\ R # {}
    BY <1>3
  <2> HIDE DEF R
  <2> QED
    BY <2>1, LeastNat
<1>5. PICK k \in S : i = Len(k)
  OBVIOUS
<1>6. \A o \in DOMAIN t : IsPrefix(o, m) /\ Len(o) > Len(n) => o \in S
  BY <1>1, PathIs
<1>7. Len(k) > Len(n)
  OBVIOUS
<1> HIDE DEF S, R
<1>8. k \in DOMAIN t /\ IsPrefix(k, m) /\ k \in Seq(Tokens) /\ Len(k) \in Nat
  BY <1>1, <1>3, UpToWhole
<1>9. IsPrefix(n, k) /\ n # k
  BY <1>1, <1>7, <1>8, PrefixComparable
<1>10. ASSUME NEW o \in DOMAIN t, IsPrefix(o, k), o # k
       PROVE  Len(o) <= Len(n)
  <2>1. o \in Seq(Tokens) /\ Len(o) \in Nat /\ IsPrefix(o, m)
    BY <1>1, <1>8, <1>10, PrefixTrans, UpToWhole
  <2>2. Len(o) <= Len(k) /\ o = UpTo(k, Len(o)) /\ UpTo(k, Len(k)) = k
    BY <1>8, <1>10, <2>1, PrefixIs, UpToWhole
  <2>3. Len(o) # Len(k)
    BY <1>10, <2>2
  <2>4. ~ Len(o) > Len(n)
    BY <1>3, <1>4, <1>5, <1>6, <1>8, <2>1, <2>2, <2>3
  <2> QED
    BY <1>1, <2>1, <2>4
<1>11. k \in Children(t, n)
  BY <1>8, <1>9, <1>10, ChildIs
<1> QED
  BY <1>8, <1>11

\* What is known of a child.
LEMMA ChildOf ==
  ASSUME NEW t, TrieShape(DOMAIN t), NEW n \in DOMAIN t, NEW m \in Children(t, n)
  PROVE  /\ m \in DOMAIN t /\ m \in Seq(Tokens) /\ n \in Seq(Tokens) /\ m # <<>>
         /\ IsPrefix(n, m) /\ n # m /\ Parent(t, m) = n /\ StartOffset(t, m) = Len(n)
         /\ Len(n) \in Nat /\ Len(m) \in Nat /\ Len(n) < Len(m) /\ n = UpTo(m, Len(n))
         /\ \A o \in DOMAIN t : IsPrefix(o, m) /\ o # m => Len(o) <= Len(n)
<1>1. m \in DOMAIN t /\ m # <<>> /\ Parent(t, m) = n
  BY DEF Children
<1>2. m \in Seq(Tokens) /\ n \in Seq(Tokens) /\ Len(n) \in Nat /\ Len(m) \in Nat
  BY <1>1, UpToWhole DEF TrieShape
<1> QED
  BY <1>1, <1>2, ParentIs DEF StartOffset

\* A child is no shorter than anything of the trie that goes on from the node the
\* same way.
LEMMA SiblingsPart ==
  ASSUME NEW t, TrieShape(DOMAIN t), NEW n \in DOMAIN t,
         NEW m \in Children(t, n), NEW o \in Children(t, n), m # o
  PROVE  m[Len(n) + 1] # o[Len(n) + 1]
<1> SUFFICES ASSUME m[Len(n) + 1] = o[Len(n) + 1] PROVE FALSE
  OBVIOUS
<1>1. /\ m \in DOMAIN t /\ m \in Seq(Tokens) /\ n \in Seq(Tokens)
      /\ Len(n) \in Nat /\ Len(m) \in Nat /\ Len(n) < Len(m) /\ n = UpTo(m, Len(n))
      /\ \A p \in DOMAIN t : IsPrefix(p, m) /\ p # m => Len(p) <= Len(n)
  BY ChildOf
<1>2. /\ o \in DOMAIN t /\ o \in Seq(Tokens)
      /\ Len(o) \in Nat /\ Len(n) < Len(o) /\ n = UpTo(o, Len(n))
      /\ \A p \in DOMAIN t : IsPrefix(p, o) /\ p # o => Len(p) <= Len(n)
  BY ChildOf
<1>3. PICK i \in Nat : i = Common(m, o)
  BY CommonIs, <1>1, <1>2
<1>4. /\ i \in 0 .. Len(m) /\ i \in 0 .. Len(o) /\ UpTo(m, i) = UpTo(o, i)
      /\ \A j \in 0 .. Len(m) : j <= Len(o) /\ UpTo(m, j) = UpTo(o, j) => j <= i
  BY <1>1, <1>2, <1>3, CommonIs
<1>5. Len(n) + 1 <= i
  <2>1. UpTo(m, Len(n) + 1) = UpTo(o, Len(n) + 1)
    BY <1>1, <1>2, UpToNext
  <2> QED
    BY <1>1, <1>2, <1>4, <2>1
<1>6. CASE i = Len(m)
  <2>1. IsPrefix(m, o)
    BY <1>1, <1>2, <1>4, <1>6, PrefixIs, UpToWhole
  <2> QED
    BY <1>1, <1>2, <2>1
<1>7. CASE i = Len(o)
  <2>1. IsPrefix(o, m)
    BY <1>1, <1>2, <1>4, <1>7, PrefixIs, UpToWhole
  <2> QED
    BY <1>1, <1>2, <2>1
<1>8. CASE i # Len(m) /\ i # Len(o)
  <2>1. UpTo(m, i + 1) # UpTo(o, i + 1)
    BY <1>1, <1>2, <1>4, <1>8
  <2>2. UpTo(m, i) \in DOMAIN t
    <3>1. MeetClosed(DOMAIN t)
      BY DEF TrieShape
    <3>2. i < Len(m) /\ i < Len(o)
      BY <1>1, <1>2, <1>4, <1>8
    <3> QED
      BY <1>1, <1>2, <1>4, <2>1, <3>1, <3>2 DEF MeetClosed
  <2>3. IsPrefix(UpTo(m, i), m) /\ Len(UpTo(m, i)) = i
    BY <1>1, <1>4, UpToPrefix, UpToIs
  <2>4. UpTo(m, i) # m
    BY <1>8, <2>3
  <2> QED
    BY <1>1, <1>5, <2>2, <2>3, <2>4
<1> QED
  BY <1>6, <1>7, <1>8

\* What findBestMatch returns, from a node that is on the way.
Matches(t, n, q, match, last) ==
  LET full == {m \in PathTo(t, q) : Len(m) >= Len(n)}
  IN  /\ last \in full /\ (\A m \in PathTo(t, q) : Len(m) <= Len(last))
      /\ match.matched \in 0 .. Len(q)
      /\ \/ match.path = full /\ match.matched = Len(last)
         \/ \E best \in Children(t, last) :
              /\ match.path = full \cup {best}
              /\ Len(last) < match.matched /\ match.matched < Len(best)
              /\ UpTo(best, match.matched) = UpTo(q, match.matched)
              /\ UpTo(q, match.matched) \notin DOMAIN t
      /\ \A m \in DOMAIN t : \A i \in 0 .. Len(m) :
           i <= Len(q) /\ UpTo(m, i) = UpTo(q, i) => i <= match.matched

\* A match comes at least to the nodes that it passes.
LEMMA NodeMatched ==
  ASSUME NEW t, DOMAIN t \subseteq Seq(Tokens), NEW n, NEW q \in Seq(Tokens), NEW match, NEW last,
         Matches(t, n, q, match, last), NEW m \in DOMAIN t, IsPrefix(m, q)
  PROVE  Len(m) <= match.matched
<1>1. m \in Seq(Tokens) /\ Len(m) \in Nat /\ UpTo(m, Len(m)) = m /\ Len(m) \in 0 .. Len(m)
  BY UpToWhole
<1>2. m = UpTo(q, Len(m)) /\ Len(m) <= Len(q)
  BY <1>1, PrefixIs
<1> QED
  BY <1>1, <1>2 DEF Matches

\* One of the edges agrees longest with a sequence.
LEMMA BestEdge ==
  ASSUME NEW E \in SUBSET Seq(Tokens), E # {}, NEW q \in Seq(Tokens)
  PROVE  \E m \in E : \A o \in E : Common(o, q) <= Common(m, q)
<1> DEFINE R == {i \in Nat : \E m \in E : i = Common(m, q)}
<1>1. Len(q) \in Nat /\ \A m \in E : Common(m, q) \in 0 .. Len(q)
  BY CommonIs, UpToWhole
<1>2. R \in SUBSET Nat /\ R # {} /\ (\A i \in R : i <= Len(q)) /\ \A m \in E : Common(m, q) \in R
  BY <1>1
<1>3. PICK i \in R : \A j \in R : j <= i
  <2> HIDE DEF R
  <2> QED
    BY <1>1, <1>2, GreatestNat
<1>4. PICK m \in E : i = Common(m, q)
  OBVIOUS
<1> HIDE DEF R
<1> QED
  BY <1>2, <1>3, <1>4

\* findBestMatch goes down to the last full node and perhaps into one edge below.
LEMMA BestMatchIs ==
  ASSUME NEW t, TrieShape(DOMAIN t), NEW n \in DOMAIN t, NEW q \in Seq(Tokens), IsPrefix(n, q)
  PROVE  \E last \in DOMAIN t : Matches(t, n, q, FindBestMatch(t, n, q), last)
<1> DEFINE full == {m \in PathTo(t, q) : Len(m) >= Len(n)}
           last == Longest(full)
           E == {m \in Children(t, last) : Common(m, q) > Len(last)}
           match == FindBestMatch(t, n, q)
<1>1. /\ n \in Seq(Tokens) /\ Len(n) \in Nat /\ Len(q) \in Nat
      /\ DOMAIN t \subseteq Seq(Tokens)
  BY UpToWhole DEF TrieShape
<1>2. PathTo(t, q) \subseteq DOMAIN t /\ n \in PathTo(t, q) /\ \A m \in PathTo(t, q) : IsPrefix(m, q) /\ Len(m) <= Len(q) /\ Len(m) \in Nat
  BY <1>1, PathIs, UpToWhole
<1>3. full \in SUBSET Seq(Tokens) /\ full # {} /\ (\A m \in full : Len(m) <= Len(q)) /\ full \subseteq DOMAIN t
  BY <1>1, <1>2
<1>4. last \in full /\ \A m \in full : Len(m) <= Len(last)
  <2> HIDE DEF full
  <2> QED
    BY <1>1, <1>3, LongestIs
<1>5. last \in DOMAIN t /\ last \in Seq(Tokens) /\ Len(last) \in Nat /\ IsPrefix(last, q) /\ Len(last) <= Len(q) /\ last \in PathTo(t, q)
  BY <1>1, <1>2, <1>3, <1>4
<1>6. \A m \in PathTo(t, q) : Len(m) <= Len(last)
  BY <1>1, <1>2, <1>4, <1>5
<1>7. match = WithPartial(full, E, q)
  BY DEF FindBestMatch
<1>8. \A m \in E : m \in DOMAIN t /\ m \in Seq(Tokens) /\ m \in Children(t, last) /\ Common(m, q) > Len(last)
  BY <1>5, ChildOf
<1>9. last \in full
  BY <1>4
<1> HIDE DEF last
<1>10. ASSUME NEW m \in DOMAIN t, NEW i \in 0 .. Len(m), i <= Len(q), UpTo(m, i) = UpTo(q, i), Len(last) < i
       PROVE  \E k \in E : i <= Common(k, q)
  <2>1. m \in Seq(Tokens) /\ Len(m) \in Nat
    BY <1>1, UpToWhole
  <2>2. Len(last) \in 0 .. i /\ i \in 0 .. Len(q) /\ last = UpTo(q, Len(last))
    BY <1>1, <1>5, <1>10, <2>1, PrefixIs
  <2>3. UpTo(UpTo(m, i), Len(last)) = UpTo(m, Len(last)) /\ UpTo(UpTo(q, i), Len(last)) = UpTo(q, Len(last))
    BY <2>1, <2>2, UpToUpTo
  <2>4. IsPrefix(last, m) /\ last # m
    <3>1. last = UpTo(m, Len(last)) /\ Len(last) < Len(m)
      BY <1>5, <1>10, <2>1, <2>2, <2>3
    <3> QED
      BY <1>5, <2>1, <3>1, PrefixIs
  <2>5. PICK k \in Children(t, last) : IsPrefix(k, m) /\ k \in DOMAIN t
    BY <1>5, <2>4, Descend
  <2>6. k \in Seq(Tokens) /\ Len(k) \in Nat /\ Len(last) < Len(k) /\ Len(k) <= Len(m)
    BY <1>1, <1>5, <2>1, <2>5, ChildOf, PrefixIs
  <2>7. CASE Len(k) <= i
    <3>1. k = UpTo(m, Len(k)) /\ Len(k) \in 0 .. i
      BY <2>1, <2>5, <2>6, <2>7, PrefixIs
    <3>2. UpTo(UpTo(m, i), Len(k)) = UpTo(m, Len(k)) /\ UpTo(UpTo(q, i), Len(k)) = UpTo(q, Len(k))
      BY <2>1, <2>2, <3>1, UpToUpTo
    <3>3. IsPrefix(k, q)
      BY <1>1, <1>10, <2>6, <2>7, <3>1, <3>2, PrefixIs
    <3>4. k \in PathTo(t, q)
      BY <2>5, <3>3, PathIs
    <3> QED
      BY <1>5, <1>6, <2>6, <3>4
  <2>8. CASE i < Len(k)
    <3>1. UpTo(k, i) = UpTo(q, i) /\ i \in 0 .. Len(k)
      BY <1>10, <2>1, <2>5, <2>6, <2>8, PrefixUpTo
    <3>2. i <= Common(k, q) /\ Common(k, q) \in Nat
      BY <1>10, <2>6, <3>1, CommonIs
    <3>3. k \in E
      BY <1>5, <1>10, <2>5, <3>2
    <3> QED
      BY <3>2, <3>3
  <2> QED
    BY <2>1, <2>6, <2>7, <2>8
<1>11. CASE E = {}
  <2>1. match = [path |-> full, matched |-> Len(Longest(full))]
    BY <1>7, <1>11 DEF WithPartial
  <2>2. Longest(full) = last
    BY DEF last
  <2>3. match.path = full /\ match.matched = Len(last)
    BY <2>1, <2>2
  <2>4. \A m \in DOMAIN t : \A i \in 0 .. Len(m) :
           i <= Len(q) /\ UpTo(m, i) = UpTo(q, i) => i <= match.matched
    BY <1>5, <1>10, <1>11, <2>3
  <2>5. match.matched \in 0 .. Len(q)
    BY <1>1, <1>5, <2>3
  <2> QED
    BY <1>5, <1>6, <1>9, <2>3, <2>4, <2>5 DEF Matches
<1>12. CASE E # {}
  <2> DEFINE best == CHOOSE m \in E : \A o \in E : Common(o, q) <= Common(m, q)
  <2>1. best \in E /\ \A o \in E : Common(o, q) <= Common(best, q)
    <3>1. E \in SUBSET Seq(Tokens)
      BY <1>8
    <3> HIDE DEF E
    <3> QED
      BY <1>12, <3>1, BestEdge
  <2>2. match.path = full \cup {best} /\ match.matched = Common(best, q)
    BY <1>7, <1>12 DEF WithPartial
  <2> HIDE DEF best
  <2>3. best \in DOMAIN t /\ best \in Seq(Tokens) /\ best \in Children(t, last) /\ Common(best, q) > Len(last)
    BY <1>8, <2>1
  <2>4. Common(best, q) \in 0 .. Len(best) /\ Common(best, q) \in 0 .. Len(q) /\ UpTo(best, Common(best, q)) = UpTo(q, Common(best, q))
    BY <2>3, CommonIs
  <2>5. Len(best) \in Nat /\ Len(last) < Len(best)
    BY <1>5, <2>3, ChildOf
  <2>6. \A p \in DOMAIN t : IsPrefix(p, q) => Len(p) <= Len(last)
    BY <1>6, PathIs
  <2>7. Common(best, q) # Len(best)
    <3>1. SUFFICES ASSUME Common(best, q) = Len(best) PROVE FALSE
      OBVIOUS
    <3>2. IsPrefix(best, q)
      BY <1>1, <2>3, <2>4, <3>1, PrefixIs, UpToWhole
    <3> QED
      BY <1>5, <2>3, <2>5, <2>6, <3>2
  <2>8. UpTo(q, Common(best, q)) \notin DOMAIN t
    <3>1. IsPrefix(UpTo(q, Common(best, q)), q) /\ Len(UpTo(q, Common(best, q))) = Common(best, q)
      BY <2>4, UpToPrefix, UpToIs
    <3> QED
      BY <1>5, <2>3, <2>4, <2>6, <3>1
  <2>9. \A m \in DOMAIN t : \A i \in 0 .. Len(m) :
           i <= Len(q) /\ UpTo(m, i) = UpTo(q, i) => i <= match.matched
    <3>1. SUFFICES ASSUME NEW m \in DOMAIN t, NEW i \in 0 .. Len(m), i <= Len(q), UpTo(m, i) = UpTo(q, i), Len(last) < i
                   PROVE i <= Common(best, q)
      <4>1. \A m \in DOMAIN t : Len(m) \in Nat
        BY <1>1, UpToWhole
      <4> QED
        BY <1>5, <2>2, <2>3, <2>4, <4>1
    <3>2. PICK k \in E : i <= Common(k, q)
      BY <1>10, <3>1
    <3>3. Common(k, q) \in Nat /\ Common(k, q) <= Common(best, q)
      BY <1>8, <2>1, CommonIs
    <3>4. i \in Nat
      BY <1>1, UpToWhole
    <3> QED
      BY <2>4, <3>2, <3>3, <3>4
  <2>10. Common(best, q) < Len(best)
    BY <2>4, <2>5, <2>7
  <2> QED
    BY <1>5, <1>6, <1>9, <2>2, <2>3, <2>4, <2>8, <2>9, <2>10 DEF Matches
<1> QED
  BY <1>11, <1>12

-----------------------------------------------------------------------------
(* Snapshots and their size *)

\* There is at least one layer, and each has a kind.
LEMMA LayersAre ==
  ASSUME kinds \in Models
  PROVE  /\ Len(kinds) \in Nat \ {0} /\ Layers = 1 .. Len(kinds) /\ IsFiniteSet(Layers) /\ 1 \in Layers
         /\ \A l \in Layers : kinds[l] \in {"kv", "rotating", "recurrent"}
<1>1. kinds \in Seq({"kv", "rotating", "recurrent"}) /\ kinds # <<>>
  BY CacheAssumption
<1>2. Len(kinds) \in Nat \ {0} /\ DOMAIN kinds = 1 .. Len(kinds)
  BY <1>1, EmptySeq, LenProperties
<1>3. IsFiniteSet(1 .. Len(kinds))
  BY <1>2, FS_Interval
<1> QED
  BY <1>1, <1>2, <1>3 DEF Layers

\* No snapshot is None.
LEMMA NoneIsNoSnap == None \notin SnapRecord
BY CacheAssumption DEF SnapRecord, Cells

\* The fields of a snapshot.
LEMMA SnapIs ==
  ASSUME NEW s \in SnapRecord
  PROVE  /\ s.from \in Nat /\ s.cells \in Cells /\ Len(s.cells) \in Nat /\ s # None
         /\ End(s) = s.from + Len(s.cells) /\ End(s) \in Nat
BY NoneIsNoSnap, UpToWhole DEF SnapRecord, End, Cells

\* A node holds finitely many cells.
LEMMA HeldFinite ==
  ASSUME kinds \in Models, NEW snaps \in AnySnaps
  PROVE  IsFiniteSet(HeldBy(snaps)) /\ SnapshotBytes(snaps) \in Nat
<1> DEFINE piece == [l \in Layers |-> {l} \X Held(snaps[l])]
           P == {{l} \X Held(snaps[l]) : l \in Layers}
<1>1. IsFiniteSet(P)
  <2>1. piece \in Surjection(Layers, P)
    BY DEF Surjection
  <2> QED
    BY <2>1, LayersAre, FS_Surjection
<1>2. ASSUME NEW l \in Layers PROVE IsFiniteSet({l} \X Held(snaps[l]))
  <2>1. IsFiniteSet(Held(snaps[l]))
    <3>1. CASE snaps[l] = None
      BY <3>1, FS_EmptySet DEF Held
    <3>2. CASE snaps[l] # None
      <4>1. snaps[l] \in SnapRecord
        BY <3>2 DEF AnySnaps
      <4>2. Len(snaps[l].cells) \in Nat /\ DOMAIN snaps[l].cells = 1 .. Len(snaps[l].cells)
        BY <4>1, SnapIs, LenProperties DEF Cells
      <4>3. IsFiniteSet(DOMAIN snaps[l].cells)
        BY <4>2, FS_Interval
      <4>4. Held(snaps[l]) \in SUBSET DOMAIN snaps[l].cells
        BY <3>2 DEF Held
      <4> QED
        BY <4>3, <4>4, FS_Subset
    <3> QED
      BY <3>1, <3>2
  <2>2. IsFiniteSet({l})
    BY FS_Singleton
  <2> QED
    BY <2>1, <2>2, FS_Product
<1>3. IsFiniteSet(UNION P)
  <2>1. \A x \in P : IsFiniteSet(x)
    BY <1>2
  <2> HIDE DEF P
  <2> QED
    BY <1>1, <2>1, FS_UNION
<1>4. IsFiniteSet(HeldBy(snaps))
  BY <1>3 DEF HeldBy
<1> QED
  BY <1>4, FS_CardinalityType DEF SnapshotBytes

\* A node without snapshots holds none.
LEMMA NothingHeld ==
  ASSUME kinds \in Models
  PROVE  NoSnaps \in AnySnaps /\ HeldBy(NoSnaps) = {} /\ SnapshotBytes(NoSnaps) = 0
<1>1. NoSnaps \in AnySnaps
  BY DEF NoSnaps, AnySnaps
<1>2. \A l \in Layers : Held(NoSnaps[l]) = {}
  BY DEF NoSnaps, Held
<1>3. HeldBy(NoSnaps) = {}
  BY <1>2 DEF HeldBy
<1> QED
  BY <1>1, <1>3, FS_EmptySet DEF SnapshotBytes

\* The cells of a node count as much when they are labelled by the node.
LEMMA NodeHeld ==
  ASSUME kinds \in Models, NEW n, NEW snaps \in AnySnaps
  PROVE  /\ IsFiniteSet({n} \X HeldBy(snaps))
         /\ Cardinality({n} \X HeldBy(snaps)) = SnapshotBytes(snaps)
<1>1. IsFiniteSet(HeldBy(snaps)) /\ SnapshotBytes(snaps) \in Nat
  BY HeldFinite
<1>2. IsFiniteSet({n}) /\ Cardinality({n}) = 1
  BY FS_Singleton
<1>3. Cardinality({n} \X HeldBy(snaps)) = 1 * Cardinality(HeldBy(snaps))
  BY <1>1, <1>2, FS_Product
<1> QED
  BY <1>1, <1>2, <1>3, FS_Product DEF SnapshotBytes

\* A trie holds finitely many cells.
LEMMA TrieHeld ==
  ASSUME kinds \in Models, NEW t, IsFiniteSet(DOMAIN t), \A n \in DOMAIN t : t[n].snaps \in AnySnaps
  PROVE  IsFiniteSet(AllHeld(t)) /\ Cardinality(AllHeld(t)) \in Nat
<1> DEFINE piece == [n \in DOMAIN t |-> {n} \X HeldBy(t[n].snaps)]
           P == {{n} \X HeldBy(t[n].snaps) : n \in DOMAIN t}
<1>1. IsFiniteSet(P)
  <2>1. piece \in Surjection(DOMAIN t, P)
    BY DEF Surjection
  <2> QED
    BY <2>1, FS_Surjection
<1>2. \A x \in P : IsFiniteSet(x)
  BY NodeHeld
<1>3. IsFiniteSet(UNION P)
  <2> HIDE DEF P
  <2> QED
    BY <1>1, <1>2, FS_UNION
<1>4. IsFiniteSet(AllHeld(t))
  BY <1>3 DEF AllHeld
<1> QED
  BY <1>4, FS_CardinalityType

\* When the snapshots of one node change, so does the size of all by as much.
LEMMA HeldChanges ==
  ASSUME kinds \in Models, NEW t, IsFiniteSet(DOMAIN t), \A n \in DOMAIN t : t[n].snaps \in AnySnaps,
         NEW u, DOMAIN u = DOMAIN t, NEW n \in DOMAIN t, u[n].snaps \in AnySnaps,
         \A m \in DOMAIN t \ {n} : u[m].snaps = t[m].snaps
  PROVE  Cardinality(AllHeld(u)) =
           Cardinality(AllHeld(t)) - SnapshotBytes(t[n].snaps) + SnapshotBytes(u[n].snaps)
<1> DEFINE old == {n} \X HeldBy(t[n].snaps)
           new == {n} \X HeldBy(u[n].snaps)
           rest == UNION {{m} \X HeldBy(t[m].snaps) : m \in DOMAIN t \ {n}}
<1>1. AllHeld(t) = rest \cup old /\ AllHeld(u) = rest \cup new
  BY DEF AllHeld
<1>2. rest \cap old = {} /\ rest \cap new = {}
  OBVIOUS
<1>3. IsFiniteSet(AllHeld(t)) /\ Cardinality(AllHeld(t)) \in Nat
  BY TrieHeld
<1>4. /\ IsFiniteSet(old) /\ Cardinality(old) = SnapshotBytes(t[n].snaps) /\ SnapshotBytes(t[n].snaps) \in Nat
      /\ IsFiniteSet(new) /\ Cardinality(new) = SnapshotBytes(u[n].snaps) /\ SnapshotBytes(u[n].snaps) \in Nat
  BY NodeHeld, HeldFinite
<1> HIDE DEF old, new, rest
<1>5. rest \in SUBSET AllHeld(t)
  BY <1>1
<1>6. IsFiniteSet(rest) /\ Cardinality(rest) \in Nat
  BY <1>3, <1>5, FS_Subset, FS_CardinalityType
<1>7. Cardinality(AllHeld(t)) = Cardinality(rest) + Cardinality(old) - 0
  BY <1>1, <1>2, <1>4, <1>6, FS_Union, FS_EmptySet
<1>8. Cardinality(AllHeld(u)) = Cardinality(rest) + Cardinality(new) - 0
  BY <1>1, <1>2, <1>4, <1>6, FS_Union, FS_EmptySet
<1> QED
  BY <1>4, <1>6, <1>7, <1>8

\* The records of a trie.
LEMMA TrieIs ==
  ASSUME NEW t \in AnyTrie
  PROVE  /\ DOMAIN t \subseteq Seq(Tokens) /\ t \in [DOMAIN t -> NodeRecord]
         /\ \A n \in DOMAIN t :
              /\ t[n].snaps \in AnySnaps /\ t[n].user \in BOOLEAN
              /\ t[n] = [snaps |-> t[n].snaps, user |-> t[n].user]
<1>1. PICK D \in SUBSET Seq(Tokens) : t \in [D -> NodeRecord]
  BY DEF AnyTrie
<1>2. DOMAIN t = D
  BY <1>1
<1>3. \A n \in D : t[n] \in NodeRecord
  BY <1>1
<1> QED
  BY <1>1, <1>2, <1>3 DEF NodeRecord

\* A function of token sequences to records is a trie.
LEMMA IsTrie ==
  ASSUME NEW D \in SUBSET Seq(Tokens), NEW t \in [D -> NodeRecord]
  PROVE  t \in AnyTrie /\ DOMAIN t = D
BY DEF AnyTrie

\* The fields of a cache.
LEMMA CacheIs ==
  ASSUME NEW c \in CacheRecord
  PROVE  /\ c.trie \in AnyTrie /\ c.activePath \in SUBSET Seq(Tokens)
         /\ c.caches \in [Layers -> Cells] /\ c.pagedOutBytes \in Int
BY DEF CacheRecord

\* The result of setSnapshots.
SetOn(c, d, n, snaps) ==
  /\ d \in CacheRecord
  /\ DOMAIN d.trie = DOMAIN c.trie
  /\ d.trie[n] = [snaps |-> snaps, user |-> c.trie[n].user]
  /\ \A m \in DOMAIN c.trie \ {n} : d.trie[m] = c.trie[m]
  /\ d.activePath = c.activePath
  /\ d.caches = c.caches
  /\ Counted(c) => Counted(d)

\* setSnapshots changes the snapshots of one node, and the counter with them.
LEMMA SetSnapshotsIs ==
  ASSUME kinds \in Models, NEW c \in CacheRecord, IsFiniteSet(DOMAIN c.trie),
         NEW n \in DOMAIN c.trie, NEW snaps \in AnySnaps
  PROVE  SetOn(c, SetSnapshots(c, n, snaps), n, snaps)
<1> DEFINE u == [c.trie EXCEPT ![n] = [snaps |-> snaps, user |-> c.trie[n].user]]
           b == c.pagedOutBytes - SnapshotBytes(c.trie[n].snaps) + SnapshotBytes(snaps)
           d == SetSnapshots(c, n, snaps)
<1>1. /\ c.trie \in AnyTrie /\ c.activePath \in SUBSET Seq(Tokens)
      /\ c.caches \in [Layers -> Cells] /\ c.pagedOutBytes \in Int
  BY CacheIs
<1>2. /\ DOMAIN c.trie \subseteq Seq(Tokens) /\ c.trie \in [DOMAIN c.trie -> NodeRecord]
      /\ \A m \in DOMAIN c.trie :
              /\ c.trie[m].snaps \in AnySnaps /\ c.trie[m].user \in BOOLEAN
              /\ c.trie[m] = [snaps |-> c.trie[m].snaps, user |-> c.trie[m].user]
  BY <1>1, TrieIs
<1>3. [c.trie[n] EXCEPT !.snaps = snaps] = [snaps |-> snaps, user |-> c.trie[n].user]
  <2>1. PICK r \in NodeRecord : r = c.trie[n]
    BY <1>2
  <2>2. [r EXCEPT !.snaps = snaps] = [snaps |-> snaps, user |-> r.user]
    BY DEF NodeRecord
  <2> QED
    BY <2>1, <2>2
<1>4. d = [c EXCEPT !.trie = u, !.pagedOutBytes = b]
  BY <1>3 DEF SetSnapshots
<1>5. [snaps |-> snaps, user |-> c.trie[n].user] \in NodeRecord
  BY <1>2 DEF NodeRecord
<1>6. u \in AnyTrie /\ DOMAIN u = DOMAIN c.trie
  <2>1. u \in [DOMAIN c.trie -> NodeRecord]
    <3> HIDE DEF NodeRecord
    <3> QED
      BY <1>2, <1>5
  <2> QED
    BY <1>2, <2>1, IsTrie
<1>7. b \in Int
  <2>1. SnapshotBytes(c.trie[n].snaps) \in Nat /\ SnapshotBytes(snaps) \in Nat
    BY <1>2, HeldFinite
  <2> QED
    BY <1>1, <2>1
<1>8. u[n] = [snaps |-> snaps, user |-> c.trie[n].user] /\ \A m \in DOMAIN c.trie \ {n} : u[m] = c.trie[m]
  BY <1>2
<1> HIDE DEF u, b, d
<1>9. d \in CacheRecord /\ d.trie = u /\ d.pagedOutBytes = b /\ d.activePath = c.activePath /\ d.caches = c.caches
  BY <1>1, <1>4, <1>6, <1>7 DEF CacheRecord
<1>10. Counted(c) => Counted(d)
  <2>1. u[n].snaps = snaps /\ \A m \in DOMAIN c.trie \ {n} : u[m].snaps = c.trie[m].snaps
    BY <1>8
  <2>2. Cardinality(AllHeld(u)) = Cardinality(AllHeld(c.trie)) - SnapshotBytes(c.trie[n].snaps) + SnapshotBytes(u[n].snaps)
    BY <1>2, <1>6, <2>1, HeldChanges
  <2> QED
    BY <1>9, <2>1, <2>2 DEF Counted, b
<1> QED
  BY <1>6, <1>8, <1>9, <1>10 DEF SetOn, d

\* The shape of a trie is that of its nodes.
LEMMA SameNodes ==
  ASSUME NEW t, NEW u, DOMAIN u = DOMAIN t
  PROVE  /\ \A q : PathTo(u, q) = PathTo(t, q)
         /\ \A n : Parent(u, n) = Parent(t, n) /\ StartOffset(u, n) = StartOffset(t, n)
         /\ \A n : Children(u, n) = Children(t, n)
<1>1. \A q : PathTo(u, q) = PathTo(t, q)
  BY DEF PathTo
<1>2. \A n : Parent(u, n) = Parent(t, n)
  BY <1>1 DEF Parent
<1> QED
  BY <1>1, <1>2 DEF StartOffset, Children

\* What is left of a sequence.
LEMMA FromIs ==
  ASSUME NEW S, NEW s \in Seq(S), NEW n \in 0 .. Len(s)
  PROVE  /\ From(s, n) \in Seq(S)
         /\ Len(From(s, n)) = Len(s) - n
         /\ \A i \in 1 .. Len(s) - n : From(s, n)[i] = s[n + i]
<1>1. Len(s) \in Int /\ n + 1 \in Int /\ \A i \in n + 1 .. Len(s) : s[i] \in S
  OBVIOUS
<1>2. /\ SubSeq(s, n + 1, Len(s)) \in Seq(S)
      /\ Len(SubSeq(s, n + 1, Len(s))) = IF n + 1 <= Len(s) THEN Len(s) - (n + 1) + 1 ELSE 0
      /\ \A i \in 1 .. Len(s) - (n + 1) + 1 : SubSeq(s, n + 1, Len(s))[i] = s[n + 1 + i - 1]
  BY <1>1, SubSeqProperties
<1> QED
  BY <1>1, <1>2 DEF From

\* A node gets other snapshots, all others keep theirs.
LEMMA GoodSnaps ==
  ASSUME NEW t, GoodTrie(t), NEW u, DOMAIN u = DOMAIN t, NEW n \in DOMAIN t,
         \A m \in DOMAIN t \ {n} : u[m].snaps = t[m].snaps,
         \A l \in Layers : Fits(l, n, StartOffset(t, n), u[n].snaps[l]),
         Together(u[n].snaps)
  PROVE  /\ GoodTrie(u)
         /\ SnapsTrue(t) /\ (\A l \in Layers : TrueSnap(l, n, u[n].snaps[l])) => SnapsTrue(u)
<1>1. \A m : StartOffset(u, m) = StartOffset(t, m)
  BY SameNodes
<1>2. SnapsFit(u)
  <2> SUFFICES ASSUME NEW m \in DOMAIN t, NEW l \in Layers PROVE Fits(l, m, StartOffset(u, m), u[m].snaps[l])
    BY DEF SnapsFit
  <2>1. CASE m = n
    BY <1>1, <2>1
  <2>2. CASE m # n
    BY <1>1, <2>2 DEF GoodTrie, SnapsFit
  <2> QED
    BY <2>1, <2>2
<1>3. SnapsTogether(u)
  <2> SUFFICES ASSUME NEW m \in DOMAIN t PROVE Together(u[m].snaps)
    BY DEF SnapsTogether
  <2>1. CASE m = n
    BY <2>1
  <2>2. CASE m # n
    BY <2>2 DEF GoodTrie, SnapsTogether
  <2> QED
    BY <2>1, <2>2
<1>4. ASSUME SnapsTrue(t), \A l \in Layers : TrueSnap(l, n, u[n].snaps[l])
      PROVE  SnapsTrue(u)
  <2> SUFFICES ASSUME NEW m \in DOMAIN t, NEW l \in Layers PROVE TrueSnap(l, m, u[m].snaps[l])
    BY DEF SnapsTrue
  <2>1. CASE m = n
    BY <1>4, <2>1
  <2>2. CASE m # n
    BY <1>4, <2>2 DEF SnapsTrue
  <2> QED
    BY <2>1, <2>2
<1> QED
  BY <1>2, <1>3, <1>4 DEF GoodTrie

\* Fresh snapshots of live caches that end where the node does.
LEMMA FreshSnap ==
  ASSUME kinds \in Models, NEW l \in Layers, NEW live \in Cells, NEW f \in Seq(Tokens), f # <<>>,
         Len(live) = Len(f), NEW start \in Nat, start < Len(f)
  PROVE  LET s == SnapshotOf(l, live, start)
         IN  /\ s \in SnapRecord
             /\ Fits(l, f, start, s)
             /\ (\A i \in Kept(l, Len(live)) : live[i] = UpTo(f, i)) => TrueSnap(l, f, s)
<1> DEFINE s == SnapshotOf(l, live, start)
<1>1. Len(live) \in Nat /\ live # <<>> /\ live \in Seq(Seq(Tokens)) /\ start \in 0 .. Len(live) /\ ~ Len(live) <= start
  BY UpToWhole, EmptyIs DEF Cells
<1>2. CASE kinds[l] = "kv"
  <2>1. s = Snap(start, From(live, start))
    BY <1>1, <1>2 DEF SnapshotOf
  <2>2. /\ From(live, start) \in Cells /\ Len(From(live, start)) = Len(live) - start
        /\ \A i \in 1 .. Len(live) - start : From(live, start)[i] = live[start + i]
    BY <1>1, FromIs DEF Cells
  <2> HIDE DEF s
  <2>3. s.from = start /\ s.cells = From(live, start) /\ s \in SnapRecord
    BY <2>1, <2>2 DEF Snap, SnapRecord
  <2>4. Fits(l, f, start, s)
    BY <1>1, <1>2, <2>2, <2>3 DEF Fits, End
  <2>5. ASSUME \A i \in Kept(l, Len(live)) : live[i] = UpTo(f, i)
        PROVE  TrueSnap(l, f, s)
    <3> SUFFICES ASSUME NEW i \in Kept(l, Len(f)), i > start PROVE From(live, start)[i - start] = UpTo(f, i)
      BY <2>3 DEF TrueSnap
    <3>1. i \in Int /\ i <= Len(live)
      BY DEF Kept
    <3>2. i - start \in 1 .. Len(live) - start /\ start + (i - start) = i
      BY <1>1, <3>1
    <3> QED
      BY <2>2, <2>5, <3>2
  <2> QED
    BY <2>3, <2>4, <2>5 DEF s
<1>3. CASE kinds[l] # "kv"
  <2>1. s = Snap(0, live)
    BY <1>1, <1>3 DEF SnapshotOf
  <2> HIDE DEF s
  <2>3. s.from = 0 /\ s.cells = live /\ s \in SnapRecord
    BY <2>1 DEF Snap, SnapRecord
  <2>4. Fits(l, f, start, s)
    BY <1>1, <1>3, <2>3 DEF Fits, End
  <2>5. ASSUME \A i \in Kept(l, Len(live)) : live[i] = UpTo(f, i)
        PROVE  TrueSnap(l, f, s)
    <3> SUFFICES ASSUME NEW i \in Kept(l, Len(f)) PROVE live[i - 0] = UpTo(f, i)
      BY <2>3 DEF TrueSnap
    <3>1. i \in Int
      BY DEF Kept
    <3> QED
      BY <2>5, <3>1
  <2> QED
    BY <2>3, <2>4, <2>5 DEF s
<1> QED
  BY <1>2, <1>3

\* A node without snapshots is all right.
LEMMA NoSnapsFit ==
  ASSUME NEW n, NEW start
  PROVE  /\ \A l \in Layers : Fits(l, n, start, NoSnaps[l]) /\ TrueSnap(l, n, NoSnaps[l])
         /\ Together(NoSnaps)
BY DEF NoSnaps, Fits, TrueSnap, Together

\* A node without any snapshot is not a restore point, and the root has none.
LEMMA NoPoint ==
  ASSUME kinds \in Models, NEW t
  PROVE  /\ \A n : t[n].snaps = NoSnaps => n \notin Points(t)
         /\ GoodTrie(t) => <<>> \notin Points(t)
<1>1. 1 \in Layers
  BY LayersAre
<1>2. ASSUME NEW n, t[n].snaps = NoSnaps PROVE n \notin Points(t)
  <2>1. t[n].snaps[1] = None
    BY <1>1, <1>2 DEF NoSnaps
  <2> QED
    BY <1>1, <2>1 DEF Points, HasAllSnapshots
<1>3. ASSUME GoodTrie(t) PROVE <<>> \notin Points(t)
  <2>1. SUFFICES ASSUME <<>> \in Points(t) PROVE FALSE
    OBVIOUS
  <2>2. <<>> \in DOMAIN t /\ t[<<>>].snaps[1] # None
    BY <1>1, <2>1 DEF Points, HasAllSnapshots
  <2>3. Fits(1, <<>>, StartOffset(t, <<>>), t[<<>>].snaps[1])
    BY <1>1, <1>3, <2>2 DEF GoodTrie, SnapsFit
  <2> QED
    BY <2>2, <2>3 DEF Fits
<1> QED
  BY <1>2, <1>3

\* Nodes that stay as they are stay restore points.
LEMMA SamePoints ==
  ASSUME NEW t, NEW u, NEW X, \A m \in DOMAIN t \ X : m \in DOMAIN u /\ u[m] = t[m]
  PROVE  Points(t) \ X \subseteq Points(u)
BY DEF Points

\* Every node is backed by snapshots.
AllBacked(t) == \A n \in DOMAIN t \ {<<>>} : HasKeys(t[n].snaps)

\* A trie with keys everywhere has them wherever they are needed.
LEMMA AllBackedIs ==
  ASSUME NEW t, AllBacked(t), NEW f
  PROVE  KeysBacked(t, f)
BY DEF AllBacked, KeysBacked

\* attachSnapshots gives the last node the snapshots of all layers.
LEMMA AttachIs ==
  ASSUME kinds \in Models, NEW c, NEW f, Good(c, f), AllAt(c.caches, Len(f))
  PROVE  LET d == AttachSnapshots(c, f)
         IN  /\ Good(d, f) /\ AllBacked(d.trie) /\ d.caches = c.caches
             /\ DOMAIN d.trie = DOMAIN c.trie /\ d.activePath = c.activePath
             /\ \A m \in DOMAIN c.trie \ {f} : d.trie[m] = c.trie[m]
             /\ Points(c.trie) \subseteq Points(d.trie)
             /\ SnapsTrue(c.trie) /\ LiveOf(c.caches, f) => SnapsTrue(d.trie)
<1> DEFINE start == StartOffset(c.trie, f)
           snaps == [l \in Layers |-> SnapshotOf(l, c.caches[l], start)]
           d == AttachSnapshots(c, f)
<1>1. /\ c \in CacheRecord /\ GoodTrie(c.trie) /\ TrieShape(DOMAIN c.trie) /\ IsFiniteSet(DOMAIN c.trie)
      /\ f \in DOMAIN c.trie /\ c.activePath = PathTo(c.trie, f) /\ KeysBacked(c.trie, f) /\ Counted(c)
  BY DEF Good, GoodTrie, TrieShape, EndsAt
<1>2. f \in Seq(Tokens) /\ Len(f) \in Nat /\ c.caches \in [Layers -> Cells]
  BY <1>1, CacheIs, UpToWhole DEF TrieShape
<1>3. /\ snaps \in AnySnaps /\ Together(snaps) /\ \A l \in Layers : Fits(l, f, start, snaps[l])
      /\ LiveOf(c.caches, f) => \A l \in Layers : TrueSnap(l, f, snaps[l])
      /\ f # <<>> => HasKeys(snaps) /\ \A l \in Layers : snaps[l] # None
  <2>1. CASE f = <<>>
    <3>1. \A l \in Layers : c.caches[l] = <<>>
      BY <1>2, <2>1, EmptyIs, PrefixSelf DEF AllAt, Cells
    <3>2. snaps = NoSnaps
      BY <3>1 DEF SnapshotOf, NoSnaps
    <3> QED
      BY <2>1, <3>2, NoSnapsFit, NothingHeld
  <2>2. CASE f # <<>>
    <3>1. start \in Nat /\ start < Len(f)
      BY <1>1, <2>2, ParentIs
    <3> HIDE DEF start
    <3>2. ASSUME NEW l \in Layers
          PROVE  /\ SnapshotOf(l, c.caches[l], start) \in SnapRecord
                 /\ Fits(l, f, start, SnapshotOf(l, c.caches[l], start))
                 /\ LiveOf(c.caches, f) => TrueSnap(l, f, SnapshotOf(l, c.caches[l], start))
      <4>1. c.caches[l] \in Cells /\ Len(c.caches[l]) = Len(f)
        BY <1>2 DEF AllAt
      <4> QED
        BY <1>2, <2>2, <3>1, <4>1, FreshSnap DEF LiveOf
    <3>3. \A l \in Layers : snaps[l] = SnapshotOf(l, c.caches[l], start)
      OBVIOUS
    <3>4. snaps \in AnySnaps
      BY <3>2 DEF AnySnaps
    <3> HIDE DEF snaps
    <3>5. \A l \in Layers : snaps[l] # None
      BY <3>2, <3>3, SnapIs
    <3> QED
      BY <3>2, <3>3, <3>4, <3>5 DEF Together, HasKeys
  <2> QED
    BY <2>1, <2>2
<1>4. d = SetSnapshots(c, f, snaps)
  BY DEF AttachSnapshots
<1> HIDE DEF snaps, d
<1>5. SetOn(c, d, f, snaps)
  BY <1>1, <1>3, <1>4, SetSnapshotsIs
<1>6. /\ d \in CacheRecord /\ DOMAIN d.trie = DOMAIN c.trie /\ d.trie[f].snaps = snaps
      /\ d.trie[f].user = c.trie[f].user
      /\ \A m \in DOMAIN c.trie \ {f} : d.trie[m] = c.trie[m]
      /\ \A m \in DOMAIN c.trie \ {f} : d.trie[m].snaps = c.trie[m].snaps
      /\ d.activePath = c.activePath /\ d.caches = c.caches /\ Counted(d)
  BY <1>1, <1>5 DEF SetOn
<1> HIDE DEF start
<1>7. /\ GoodTrie(d.trie)
      /\ SnapsTrue(c.trie) /\ (\A l \in Layers : TrueSnap(l, f, snaps[l])) => SnapsTrue(d.trie)
  <2>1. \A l \in Layers : Fits(l, f, StartOffset(c.trie, f), d.trie[f].snaps[l])
    BY <1>3, <1>6 DEF start
  <2>2. Together(d.trie[f].snaps)
    BY <1>3, <1>6
  <2> QED
    BY <1>1, <1>6, <2>1, <2>2, GoodSnaps
<1>8. AllBacked(d.trie)
  <2> SUFFICES ASSUME NEW n \in DOMAIN c.trie, n # <<>> PROVE HasKeys(d.trie[n].snaps)
    BY <1>6 DEF AllBacked
  <2>1. CASE n = f
    BY <1>3, <1>6, <2>1
  <2>2. CASE n # f
    BY <1>1, <1>6, <2>2 DEF KeysBacked
  <2> QED
    BY <2>1, <2>2
<1>9. EndsAt(d, f)
  BY <1>1, <1>6, SameNodes DEF EndsAt
<1>10. Good(d, f)
  BY <1>6, <1>7, <1>8, <1>9, AllBackedIs DEF Good
<1>11. SnapsTrue(c.trie) /\ LiveOf(c.caches, f) => SnapsTrue(d.trie)
  BY <1>3, <1>7
<1>12. Points(c.trie) \subseteq Points(d.trie)
  <2>1. Points(c.trie) \ {f} \subseteq Points(d.trie)
    BY <1>6, SamePoints
  <2>2. ASSUME f \in Points(c.trie) PROVE f \in Points(d.trie)
    <3>1. f # <<>>
      BY <1>1, <2>2, NoPoint
    <3>2. HasAllSnapshots(d.trie[f])
      BY <1>3, <1>6, <3>1 DEF HasAllSnapshots
    <3> QED
      BY <1>6, <2>2, <3>2 DEF Points
  <2> QED
    BY <2>1, <2>2
<1> QED
  BY <1>6, <1>8, <1>10, <1>11, <1>12 DEF d

-----------------------------------------------------------------------------
(* A node is split *)

\* The trie has a new node, without snapshots.
NodeOn(c, d, p) ==
  /\ d \in CacheRecord
  /\ DOMAIN d.trie = DOMAIN c.trie \cup {p}
  /\ d.trie[p] = NewNode
  /\ \A m \in DOMAIN c.trie : d.trie[m] = c.trie[m]
  /\ d.activePath = c.activePath
  /\ d.caches = c.caches
  /\ Counted(c) => Counted(d)

\* A new node has no snapshots.
LEMMA NewNodeIs == kinds \in Models => NewNode \in NodeRecord /\ NewNode.snaps = NoSnaps
BY NothingHeld DEF NewNode, NodeRecord

\* A node is added without snapshots.
LEMMA NodeAdded ==
  ASSUME kinds \in Models, NEW c \in CacheRecord, NEW p \in Seq(Tokens), p \notin DOMAIN c.trie
  PROVE  NodeOn(c, [c EXCEPT !.trie = With(@, p)], p)
<1> DEFINE u == With(c.trie, p)
           d == [c EXCEPT !.trie = With(@, p)]
<1>1. /\ c.trie \in AnyTrie /\ c.activePath \in SUBSET Seq(Tokens)
      /\ c.caches \in [Layers -> Cells] /\ c.pagedOutBytes \in Int
      /\ DOMAIN c.trie \subseteq Seq(Tokens) /\ c.trie \in [DOMAIN c.trie -> NodeRecord]
  BY CacheIs, TrieIs
<1>2. NewNode \in NodeRecord /\ NewNode.snaps = NoSnaps
  BY NewNodeIs
<1>3. u = [m \in DOMAIN c.trie \cup {p} |-> IF m \in DOMAIN c.trie THEN c.trie[m] ELSE NewNode]
  BY DEF With
<1>4. u \in [DOMAIN c.trie \cup {p} -> NodeRecord]
  <2> HIDE DEF u
  <2> QED
    BY <1>1, <1>2, <1>3
<1>5. u \in AnyTrie /\ DOMAIN u = DOMAIN c.trie \cup {p}
  <2> HIDE DEF u
  <2>1. DOMAIN c.trie \cup {p} \in SUBSET Seq(Tokens)
    BY <1>1
  <2> QED
    BY <1>4, <2>1, IsTrie
<1>6. u[p] = NewNode /\ \A m \in DOMAIN c.trie : u[m] = c.trie[m]
  BY <1>3
<1>7. d = [c EXCEPT !.trie = u]
  OBVIOUS
<1> HIDE DEF u, d
<1>8. d \in CacheRecord /\ d.trie = u /\ d.pagedOutBytes = c.pagedOutBytes /\ d.activePath = c.activePath /\ d.caches = c.caches
  BY <1>1, <1>5, <1>7 DEF CacheRecord
<1>9. AllHeld(u) = AllHeld(c.trie)
  <2>1. HeldBy(u[p].snaps) = {}
    BY <1>2, <1>6, NothingHeld
  <2> QED
    BY <1>5, <1>6, <2>1 DEF AllHeld
<1> QED
  BY <1>5, <1>6, <1>8, <1>9 DEF NodeOn, Counted, d

\* A node p within the edge to n: what goes on from p goes on from n.
LEMMA WithinEdge ==
  ASSUME NEW t, TrieShape(DOMAIN t), NEW x \in DOMAIN t, NEW n \in Children(t, x),
         NEW at \in Nat, Len(x) < at, at < Len(n)
  PROVE  /\ UpTo(n, at) \in Seq(Tokens) /\ Len(UpTo(n, at)) = at /\ UpTo(n, at) \notin DOMAIN t
         /\ UpTo(n, at) # <<>> /\ IsPrefix(UpTo(n, at), n) /\ IsPrefix(x, UpTo(n, at))
         /\ \A m \in DOMAIN t : IsPrefix(UpTo(n, at), m) => IsPrefix(n, m)
<1> DEFINE p == UpTo(n, at)
<1>1. /\ n \in DOMAIN t /\ n \in Seq(Tokens) /\ x \in Seq(Tokens) /\ IsPrefix(x, n)
      /\ Len(x) \in Nat /\ Len(n) \in Nat /\ x = UpTo(n, Len(x)) /\ at \in 0 .. Len(n)
      /\ \A o \in DOMAIN t : IsPrefix(o, n) /\ o # n => Len(o) <= Len(x)
  BY ChildOf
<1>2. p \in Seq(Tokens) /\ Len(p) = at /\ IsPrefix(p, n) /\ \A i \in 0 .. at : UpTo(p, i) = UpTo(n, i)
  BY <1>1, UpToIs, UpToPrefix, UpToUpTo
<1> HIDE DEF p
<1>3. p \notin DOMAIN t /\ p # <<>> /\ IsPrefix(x, p)
  <2>1. p # n
    BY <1>2
  <2>2. ~ Len(p) <= Len(x)
    BY <1>1, <1>2
  <2>3. Len(<<>>) = 0
    BY PrefixSelf
  <2>4. IsPrefix(x, p)
    BY <1>1, <1>2, PrefixComparable
  <2> QED
    BY <1>1, <1>2, <2>1, <2>2, <2>3, <2>4
<1>4. ASSUME NEW m \in DOMAIN t, IsPrefix(p, m), ~IsPrefix(n, m) PROVE FALSE
  <2>1. m \in Seq(Tokens) /\ Len(m) \in Nat
    BY UpToWhole DEF TrieShape
  <2>2. PICK i \in Nat : i = Common(n, m)
    BY <1>1, <2>1, CommonIs
  <2>3. /\ i \in 0 .. Len(n) /\ i \in 0 .. Len(m) /\ UpTo(n, i) = UpTo(m, i)
        /\ \A j \in 0 .. Len(n) : j <= Len(m) /\ UpTo(n, j) = UpTo(m, j) => j <= i
    BY <1>1, <2>1, <2>2, CommonIs
  <2>4. at <= i
    <3>1. p = UpTo(m, at) /\ at <= Len(m)
      BY <1>2, <1>4, <2>1, PrefixIs
    <3> QED
      BY <1>1, <2>3, <3>1 DEF p
  <2>5. i # Len(n)
    BY <1>1, <1>4, <2>1, <2>3, PrefixIs, UpToWhole
  <2>6. i # Len(m)
    <3>1. SUFFICES ASSUME i = Len(m) PROVE FALSE
      OBVIOUS
    <3>2. IsPrefix(m, n)
      BY <1>1, <2>1, <2>3, <3>1, PrefixIs, UpToWhole
    <3>3. m # n
      BY <2>5, <3>1
    <3> QED
      BY <1>1, <2>1, <2>4, <3>1, <3>2, <3>3
  <2>7. UpTo(n, i + 1) # UpTo(m, i + 1) /\ i < Len(n) /\ i < Len(m)
    BY <1>1, <2>1, <2>3, <2>5, <2>6
  <2>8. UpTo(n, i) \in DOMAIN t
    BY <1>1, <2>1, <2>3, <2>7 DEF TrieShape, MeetClosed
  <2>9. IsPrefix(UpTo(n, i), n) /\ Len(UpTo(n, i)) = i
    BY <1>1, <2>3, UpToPrefix, UpToIs
  <2> QED
    BY <1>1, <2>4, <2>7, <2>8, <2>9
<1> QED
  BY <1>2, <1>3, <1>4 DEF p

\* How a split changes the shape.
SplitShape(t, u, x, n, at) ==
  /\ TrieShape(DOMAIN u)
  /\ UpTo(n, at) \in Children(u, x) /\ n \in Children(u, UpTo(n, at))
  /\ StartOffset(u, UpTo(n, at)) = Len(x) /\ StartOffset(u, n) = at
  /\ \A m \in DOMAIN t \ {n, <<>>} : StartOffset(u, m) = StartOffset(t, m)

\* Splitting an edge changes the parent of its node alone.
LEMMA ShapeSplit ==
  ASSUME NEW t, TrieShape(DOMAIN t), NEW x \in DOMAIN t, NEW n \in Children(t, x),
         NEW at \in Nat, Len(x) < at, at < Len(n),
         NEW u, DOMAIN u = DOMAIN t \cup {UpTo(n, at)}
  PROVE  SplitShape(t, u, x, n, at)
<1> DEFINE p == UpTo(n, at)
<1>1. /\ n \in DOMAIN t /\ n \in Seq(Tokens) /\ x \in Seq(Tokens) /\ IsPrefix(x, n)
      /\ Len(x) \in Nat /\ Len(n) \in Nat /\ at \in 0 .. Len(n)
      /\ \A o \in DOMAIN t : IsPrefix(o, n) /\ o # n => Len(o) <= Len(x)
  BY ChildOf
<1>2. /\ p \in Seq(Tokens) /\ Len(p) = at /\ p \notin DOMAIN t /\ p # <<>> /\ IsPrefix(p, n)
      /\ IsPrefix(x, p) /\ \A m \in DOMAIN t : IsPrefix(p, m) => IsPrefix(n, m)
  BY WithinEdge
<1>3. \A i \in 0 .. at : UpTo(p, i) = UpTo(n, i)
  BY <1>1, UpToUpTo
<1>4. DOMAIN u = DOMAIN t \cup {p} /\ DOMAIN t \subseteq Seq(Tokens)
  BY DEF TrieShape
<1> HIDE DEF p
<1>5. TrieShape(DOMAIN u)
  <2>1. MeetClosed(DOMAIN u)
    <3> SUFFICES ASSUME NEW m \in DOMAIN u, NEW o \in DOMAIN u, NEW i \in Nat,
                        i < Len(m), i < Len(o), UpTo(m, i) = UpTo(o, i), UpTo(m, i + 1) # UpTo(o, i + 1)
                 PROVE  UpTo(m, i) \in DOMAIN u
      BY DEF MeetClosed
    <3>1. PICK mm \in DOMAIN t : UpTo(m, i) = UpTo(mm, i) /\ UpTo(m, i + 1) = UpTo(mm, i + 1) /\ i < Len(mm)
      <4>1. CASE m = p
        BY <1>1, <1>2, <1>3, <4>1
      <4>2. CASE m # p
        BY <1>4, <4>2
      <4> QED
        BY <4>1, <4>2
    <3>2. PICK oo \in DOMAIN t : UpTo(o, i) = UpTo(oo, i) /\ UpTo(o, i + 1) = UpTo(oo, i + 1) /\ i < Len(oo)
      <4>1. CASE o = p
        BY <1>1, <1>2, <1>3, <4>1
      <4>2. CASE o # p
        BY <1>4, <4>2
      <4> QED
        BY <4>1, <4>2
    <3>3. UpTo(mm, i) \in DOMAIN t
      BY <3>1, <3>2 DEF TrieShape, MeetClosed
    <3> QED
      BY <1>4, <3>1, <3>3
  <2>2. IsFiniteSet(DOMAIN u)
    BY <1>4, FS_AddElement DEF TrieShape
  <2>3. DOMAIN u \subseteq Seq(Tokens) /\ <<>> \in DOMAIN u
    BY <1>2, <1>4 DEF TrieShape
  <2> QED
    BY <2>1, <2>2, <2>3 DEF TrieShape
<1>6. p \in Children(u, x)
  <2>1. ASSUME NEW o \in DOMAIN u, IsPrefix(o, p), o # p PROVE Len(o) <= Len(x)
    <3>1. o \in DOMAIN t /\ o \in Seq(Tokens)
      BY <1>4, <2>1
    <3>2. IsPrefix(o, n) /\ Len(o) <= Len(p)
      BY <1>1, <1>2, <2>1, <3>1, PrefixTrans, PrefixIs
    <3>3. o # n
      BY <1>2, <3>2
    <3> QED
      BY <1>1, <3>1, <3>2, <3>3
  <2> QED
    BY <1>2, <1>4, <1>5, <2>1, ChildIs
<1>7. n \in Children(u, p)
  <2>1. ASSUME NEW o \in DOMAIN u, IsPrefix(o, n), o # n PROVE Len(o) <= Len(p)
    <3>1. CASE o = p
      BY <1>2, <3>1
    <3>2. CASE o # p
      <4>1. o \in DOMAIN t /\ Len(o) \in Nat
        BY <1>4, <3>2, UpToWhole
      <4> QED
        BY <1>1, <1>2, <2>1, <4>1
    <3> QED
      BY <3>1, <3>2
  <2>2. p # n
    BY <1>1, <1>2
  <2> QED
    BY <1>1, <1>2, <1>4, <1>5, <2>1, <2>2, ChildIs
<1>8. ASSUME NEW m \in DOMAIN t \ {n, <<>>} PROVE StartOffset(u, m) = StartOffset(t, m)
  <2>1. PICK y \in DOMAIN t : y = Parent(t, m)
    BY ParentIs
  <2>2. m \in Children(t, y)
    BY <2>1 DEF Children
  <2>3. /\ m \in Seq(Tokens) /\ y \in Seq(Tokens) /\ IsPrefix(y, m) /\ y # m /\ StartOffset(t, m) = Len(y)
        /\ Len(y) \in Nat
        /\ \A o \in DOMAIN t : IsPrefix(o, m) /\ o # m => Len(o) <= Len(y)
    BY <2>2, ChildOf
  <2>4. ASSUME NEW o \in DOMAIN u, IsPrefix(o, m), o # m PROVE Len(o) <= Len(y)
    <3>1. CASE o = p
      <4>1. IsPrefix(n, m) /\ n # m
        BY <1>2, <2>4, <3>1
      <4>2. Len(n) <= Len(y)
        BY <1>1, <2>3, <4>1
      <4> QED
        BY <1>1, <1>2, <2>3, <3>1, <4>2
    <3>2. CASE o # p
      BY <1>4, <2>3, <2>4, <3>2
    <3> QED
      BY <3>1, <3>2
  <2>5. m \in Children(u, y)
    BY <1>4, <1>5, <2>3, <2>4, ChildIs
  <2> QED
    BY <1>4, <1>5, <2>3, <2>5, ChildOf
<1>9. StartOffset(u, p) = Len(x) /\ StartOffset(u, n) = Len(p)
  BY <1>2, <1>4, <1>5, <1>6, <1>7, ChildOf
<1> QED
  BY <1>2, <1>5, <1>6, <1>7, <1>8, <1>9 DEF p, SplitShape

\* Split gives each half what belongs to it.
LEMMA SplitSnap ==
  ASSUME kinds \in Models, NEW l \in Layers, NEW n \in Seq(Tokens), NEW start \in Nat, NEW at \in Nat,
         start < at, at < Len(n), NEW s \in {None} \cup SnapRecord, Fits(l, n, start, s)
  PROVE  LET h == Split(l, s, at)
         IN  /\ h[1] \in {None} \cup SnapRecord /\ h[2] \in {None} \cup SnapRecord
             /\ Fits(l, UpTo(n, at), start, h[1]) /\ Fits(l, n, at, h[2])
             /\ kinds[l] # "kv" => h[1] = None /\ h[2] = s
             /\ kinds[l] = "kv" /\ s # None => h[1] # None /\ h[2] # None
             /\ TrueSnap(l, n, s) => TrueSnap(l, UpTo(n, at), h[1]) /\ TrueSnap(l, n, h[2])
<1> DEFINE h == Split(l, s, at)
           p == UpTo(n, at)
<1>1. Len(n) \in Nat /\ at \in 0 .. Len(n) /\ p \in Seq(Tokens) /\ Len(p) = at /\ \A i \in 0 .. at : UpTo(p, i) = UpTo(n, i)
  BY UpToWhole, UpToIs, UpToUpTo
<1>2. CASE s = None
  <2>1. h = <<None, None>>
    BY <1>2 DEF Split
  <2> QED
    BY <1>2, <2>1 DEF Fits, TrueSnap
<1>3. CASE s # None /\ kinds[l] # "kv"
  <2>1. h = <<None, s>>
    BY <1>3 DEF Split
  <2> QED
    BY <1>3, <2>1 DEF Fits, TrueSnap
<1>4. CASE s # None /\ kinds[l] = "kv"
  <2>1. s \in SnapRecord /\ End(s) = Len(n) /\ s.from = start /\ n # <<>>
    BY <1>4 DEF Fits
  <2>2. s.cells \in Seq(Seq(Tokens)) /\ Len(s.cells) \in Nat /\ End(s) = s.from + Len(s.cells)
    BY <2>1, SnapIs DEF Cells
  <2>3. h = <<Snap(start, UpTo(s.cells, at - start)), Snap(at, From(s.cells, at - start))>>
    <3>1. ~ at <= s.from /\ ~ at >= End(s)
      BY <1>1, <2>1
    <3> QED
      BY <1>4, <2>1, <3>1 DEF Split
  <2>4. at - start \in 0 .. Len(s.cells) /\ Len(s.cells) - (at - start) = Len(n) - at
    BY <1>1, <2>1, <2>2
  <2>5. /\ UpTo(s.cells, at - start) \in Cells /\ Len(UpTo(s.cells, at - start)) = at - start
        /\ \A i \in 1 .. at - start : UpTo(s.cells, at - start)[i] = s.cells[i]
    BY <2>2, <2>4, UpToIs DEF Cells
  <2>6. /\ From(s.cells, at - start) \in Cells /\ Len(From(s.cells, at - start)) = Len(n) - at
        /\ \A i \in 1 .. Len(n) - at : From(s.cells, at - start)[i] = s.cells[(at - start) + i]
    BY <2>2, <2>4, FromIs DEF Cells
  <2> HIDE DEF h
  <2>7. h[1] = [from |-> start, cells |-> UpTo(s.cells, at - start)] /\ h[2] = [from |-> at, cells |-> From(s.cells, at - start)]
    BY <2>3 DEF Snap
  <2>8. h[1] \in SnapRecord /\ h[2] \in SnapRecord
    BY <2>5, <2>6, <2>7 DEF SnapRecord
  <2> HIDE DEF p
  <2>9. Fits(l, p, start, h[1])
    <3>1. p # <<>>
      BY <1>1, PrefixSelf
    <3> QED
      BY <1>1, <1>4, <2>5, <2>7, <3>1 DEF Fits, End
  <2>10. Fits(l, n, at, h[2])
    BY <1>1, <1>4, <2>1, <2>6, <2>7 DEF Fits, End
  <2>11. ASSUME TrueSnap(l, n, s) PROVE TrueSnap(l, p, h[1]) /\ TrueSnap(l, n, h[2])
    <3>1. ASSUME NEW i \in 1 .. Len(n), i > start PROVE s.cells[i - start] = UpTo(n, i)
      BY <1>1, <1>4, <2>1, <2>11, <3>1 DEF TrueSnap, Kept
    <3>2. ASSUME NEW i \in Kept(l, Len(p)), i > start PROVE UpTo(s.cells, at - start)[i - start] = UpTo(p, i)
      <4>1. i \in 1 .. at /\ i \in 1 .. Len(n) /\ i \in 0 .. at /\ i - start \in 1 .. at - start
        BY <1>1, <3>2 DEF Kept
      <4> QED
        BY <1>1, <2>5, <3>1, <3>2, <4>1
    <3>3. ASSUME NEW i \in Kept(l, Len(n)), i > at PROVE From(s.cells, at - start)[i - at] = UpTo(n, i)
      <4>1. i \in 1 .. Len(n) /\ i - at \in 1 .. Len(n) - at /\ (at - start) + (i - at) = i - start /\ i > start
        BY <1>1, <3>3 DEF Kept
      <4> QED
        BY <2>6, <3>1, <4>1
    <3> QED
      BY <2>7, <3>2, <3>3 DEF TrueSnap
  <2> QED
    BY <1>4, <2>8, <2>9, <2>10, <2>11, SnapIs DEF p, h
<1> QED
  BY <1>2, <1>3, <1>4

\* What splitNode does.
SplitOn(c, d, n, p) ==
  /\ d \in CacheRecord /\ GoodTrie(d.trie) /\ Counted(d)
  /\ DOMAIN d.trie = DOMAIN c.trie \cup {p}
  /\ \A m \in DOMAIN c.trie \ {n} : d.trie[m] = c.trie[m]
  /\ HasKeys(c.trie[n].snaps) => HasKeys(d.trie[n].snaps) /\ HasKeys(d.trie[p].snaps)
  /\ n \in Children(d.trie, p)
  /\ d.activePath = c.activePath /\ d.caches = c.caches
  /\ Points(c.trie) \subseteq Points(d.trie)
  /\ SnapsTrue(c.trie) => SnapsTrue(d.trie)

\* splitNode leaves a good trie and changes no count.
LEMMA SplitIs ==
  ASSUME kinds \in Models, NEW c \in CacheRecord, GoodTrie(c.trie), Counted(c),
         NEW x \in DOMAIN c.trie, NEW n \in Children(c.trie, x),
         NEW at \in Nat, Len(x) < at, at < Len(n)
  PROVE  SplitOn(c, SplitNode(c, n, at), n, UpTo(n, at))
<1> DEFINE p == UpTo(n, at)
           t == c.trie
           halves == [l \in Layers |-> Split(l, c.trie[n].snaps[l], at)]
           first == [l \in Layers |-> halves[l][1]]
           second == [l \in Layers |-> halves[l][2]]
           b == [c EXCEPT !.trie = With(@, p)]
           e == SetSnapshots(b, n, second)
           d == SplitNode(c, n, at)
<1>1. TrieShape(DOMAIN t) /\ SnapsFit(t) /\ SnapsTogether(t) /\ t \in AnyTrie /\ IsFiniteSet(DOMAIN t)
  BY CacheIs DEF GoodTrie, TrieShape
<1>2. /\ n \in DOMAIN t /\ n \in Seq(Tokens) /\ Len(x) \in Nat /\ Len(n) \in Nat /\ at \in 0 .. Len(n)
      /\ StartOffset(t, n) = Len(x) /\ n # <<>> /\ <<>> \in DOMAIN t
  BY <1>1, ChildOf DEF TrieShape
<1>3. p \in Seq(Tokens) /\ p \notin DOMAIN t /\ p # <<>> /\ p # n
  BY <1>1, <1>2, WithinEdge
<1>4. ASSUME NEW l \in Layers
      PROVE  /\ first[l] \in {None} \cup SnapRecord /\ second[l] \in {None} \cup SnapRecord
             /\ Fits(l, p, Len(x), first[l]) /\ Fits(l, n, at, second[l])
             /\ kinds[l] # "kv" => first[l] = None /\ second[l] = t[n].snaps[l]
             /\ kinds[l] = "kv" /\ t[n].snaps[l] # None => first[l] # None /\ second[l] # None
             /\ TrueSnap(l, n, t[n].snaps[l]) => TrueSnap(l, p, first[l]) /\ TrueSnap(l, n, second[l])
  <2>1. first[l] = Split(l, t[n].snaps[l], at)[1] /\ second[l] = Split(l, t[n].snaps[l], at)[2]
    OBVIOUS
  <2> HIDE DEF halves, first, second
  <2>2. t[n].snaps[l] \in {None} \cup SnapRecord
    BY <1>1, <1>2, TrieIs DEF AnySnaps
  <2>3. Fits(l, n, Len(x), t[n].snaps[l])
    BY <1>1, <1>2 DEF SnapsFit
  <2> QED
    BY <1>2, <2>1, <2>2, <2>3, SplitSnap
<1>5. first \in AnySnaps /\ second \in AnySnaps
  <2>1. first = [l \in Layers |-> first[l]] /\ second = [l \in Layers |-> second[l]]
    OBVIOUS
  <2> HIDE DEF halves, first, second
  <2> QED
    BY <1>4, <2>1 DEF AnySnaps
<1>6. d = SetSnapshots(e, p, first)
  BY DEF SplitNode
<1> HIDE DEF first, second, halves, e, d
<1>7. NodeOn(c, b, p)
  BY <1>3, NodeAdded
<1> HIDE DEF b
<1>8. SetOn(b, e, n, second)
  <2>1. IsFiniteSet(DOMAIN b.trie) /\ n \in DOMAIN b.trie /\ b \in CacheRecord
    BY <1>1, <1>2, <1>7, FS_AddElement DEF NodeOn
  <2> QED
    BY <1>5, <2>1, SetSnapshotsIs DEF e
<1>9. SetOn(e, d, p, first)
  <2>1. IsFiniteSet(DOMAIN e.trie) /\ p \in DOMAIN e.trie /\ e \in CacheRecord
    BY <1>1, <1>7, <1>8, FS_AddElement DEF NodeOn, SetOn
  <2> QED
    BY <1>5, <1>6, <2>1, SetSnapshotsIs
<1>10. /\ d \in CacheRecord /\ Counted(d) /\ DOMAIN d.trie = DOMAIN t \cup {p}
       /\ d.activePath = c.activePath /\ d.caches = c.caches
  BY <1>7, <1>8, <1>9 DEF NodeOn, SetOn
<1>11. /\ d.trie[p].snaps = first /\ d.trie[n].snaps = second /\ d.trie[n].user = t[n].user
       /\ \A m \in DOMAIN t \ {n} : d.trie[m] = t[m]
  BY <1>2, <1>3, <1>7, <1>8, <1>9 DEF NodeOn, SetOn
<1> HIDE DEF p
<1>12. /\ TrieShape(DOMAIN d.trie) /\ n \in Children(d.trie, p)
       /\ StartOffset(d.trie, p) = Len(x) /\ StartOffset(d.trie, n) = at
       /\ \A m \in DOMAIN t \ {n, <<>>} : StartOffset(d.trie, m) = StartOffset(t, m)
  <2>1. DOMAIN d.trie = DOMAIN t \cup {UpTo(n, at)}
    BY <1>10 DEF p
  <2>2. SplitShape(t, d.trie, x, n, at)
    BY <1>1, <2>1, ShapeSplit
  <2> QED
    BY <2>2 DEF p, SplitShape
<1>13. SnapsFit(d.trie)
  <2> SUFFICES ASSUME NEW m \in DOMAIN t \cup {p}, NEW l \in Layers
               PROVE  Fits(l, m, StartOffset(d.trie, m), d.trie[m].snaps[l])
    BY <1>10 DEF SnapsFit
  <2>1. CASE m = p
    BY <1>4, <1>11, <1>12, <2>1
  <2>2. CASE m = n
    BY <1>4, <1>11, <1>12, <2>2
  <2>3. CASE m = <<>>
    <3>1. Fits(l, <<>>, StartOffset(t, <<>>), t[<<>>].snaps[l]) /\ d.trie[m] = t[<<>>]
      BY <1>1, <1>2, <1>11, <2>3 DEF SnapsFit
    <3> QED
      BY <2>3, <3>1 DEF Fits
  <2>4. CASE m \notin {p, n, <<>>}
    <3>1. d.trie[m] = t[m] /\ StartOffset(d.trie, m) = StartOffset(t, m) /\ Fits(l, m, StartOffset(t, m), t[m].snaps[l])
      BY <1>1, <1>11, <1>12, <2>4 DEF SnapsFit
    <3> QED
      BY <3>1
  <2> QED
    BY <2>1, <2>2, <2>3, <2>4
<1>14. SnapsTogether(d.trie)
  <2> SUFFICES ASSUME NEW m \in DOMAIN t \cup {p} PROVE Together(d.trie[m].snaps)
    BY <1>10 DEF SnapsTogether
  <2>1. CASE m = p
    BY <1>4, <1>11, <2>1 DEF Together
  <2>2. CASE m = n
    <3>1. Together(t[n].snaps)
      BY <1>1, <1>2 DEF SnapsTogether
    <3> QED
      BY <1>4, <1>11, <2>2, <3>1 DEF Together
  <2>3. CASE m \notin {p, n}
    BY <1>1, <1>11, <2>3 DEF SnapsTogether
  <2> QED
    BY <2>1, <2>2, <2>3
<1>15. HasKeys(t[n].snaps) => HasKeys(d.trie[n].snaps) /\ HasKeys(d.trie[p].snaps)
  BY <1>4, <1>11 DEF HasKeys
<1>16. ASSUME SnapsTrue(t) PROVE SnapsTrue(d.trie)
  <2> SUFFICES ASSUME NEW m \in DOMAIN t \cup {p}, NEW l \in Layers PROVE TrueSnap(l, m, d.trie[m].snaps[l])
    BY <1>10 DEF SnapsTrue
  <2>1. TrueSnap(l, n, t[n].snaps[l])
    BY <1>2, <1>16 DEF SnapsTrue
  <2>2. CASE m = p
    BY <1>4, <1>11, <2>1, <2>2
  <2>3. CASE m = n
    BY <1>4, <1>11, <2>1, <2>3
  <2>4. CASE m \notin {p, n}
    BY <1>11, <1>16, <2>4 DEF SnapsTrue
  <2> QED
    BY <2>2, <2>3, <2>4
<1>17. Points(t) \subseteq Points(d.trie)
  <2>1. Points(t) \ {n} \subseteq Points(d.trie)
    BY <1>10, <1>11, SamePoints
  <2>2. ASSUME n \in Points(t) PROVE n \in Points(d.trie)
    <3>1. ASSUME NEW l \in Layers PROVE second[l] # None
      <4>1. t[n].snaps[l] # None
        BY <2>2 DEF Points, HasAllSnapshots
      <4> QED
        BY <1>4, <4>1
    <3>2. HasAllSnapshots(d.trie[n])
      BY <1>11, <3>1 DEF HasAllSnapshots
    <3> QED
      BY <1>10, <1>11, <2>2, <3>2 DEF Points
  <2> QED
    BY <2>1, <2>2
<1> QED
  BY <1>10, <1>11, <1>12, <1>13, <1>14, <1>15, <1>16, <1>17 DEF SplitOn, GoodTrie, p, d

-----------------------------------------------------------------------------
(* A node is removed *)

\* Below a node without children there is nothing.
LEMMA LeafAlone ==
  ASSUME NEW t, TrieShape(DOMAIN t), NEW n \in DOMAIN t, Children(t, n) = {}
  PROVE  \A m \in DOMAIN t : IsPrefix(n, m) => m = n
BY Descend

\* How a removal of a node with at most one child changes the shape.
RemovedShape(t, u, n) ==
  /\ TrieShape(DOMAIN u)
  /\ \A m \in DOMAIN u \ {<<>>} :
       StartOffset(u, m) = IF m \in Children(t, n) THEN StartOffset(t, n) ELSE StartOffset(t, m)
  /\ \A m \in DOMAIN u : Children(t, m) = {} => Children(u, m) = {}

\* Removing a node with at most one child hands that child to its parent.
LEMMA ShapeRemoved ==
  ASSUME NEW t, TrieShape(DOMAIN t), NEW n \in DOMAIN t, n # <<>>,
         \A j, k \in Children(t, n) : j = k, NEW u, DOMAIN u = DOMAIN t \ {n}
  PROVE  RemovedShape(t, u, n)
<1>1. n \in Seq(Tokens) /\ Len(n) \in Nat /\ DOMAIN t \subseteq Seq(Tokens) /\ <<>> \in DOMAIN t
  BY UpToWhole DEF TrieShape
<1>2. PICK x \in DOMAIN t : x = Parent(t, n)
  BY ParentIs
<1>3. n \in Children(t, x)
  BY <1>2 DEF Children
<1>4. /\ x \in Seq(Tokens) /\ Len(x) \in Nat /\ IsPrefix(x, n) /\ x # n /\ StartOffset(t, n) = Len(x) /\ Len(x) < Len(n)
      /\ \A o \in DOMAIN t : IsPrefix(o, n) /\ o # n => Len(o) <= Len(x)
  BY <1>3, ChildOf
<1>5. MeetClosed(DOMAIN u)
  <2> SUFFICES ASSUME NEW m \in DOMAIN u, NEW o \in DOMAIN u, NEW i \in Nat,
                      i < Len(m), i < Len(o), UpTo(m, i) = UpTo(o, i), UpTo(m, i + 1) # UpTo(o, i + 1)
               PROVE  UpTo(m, i) \in DOMAIN u
    BY DEF MeetClosed
  <2>1. UpTo(m, i) \in DOMAIN t /\ m \in DOMAIN t /\ o \in DOMAIN t
    BY DEF TrieShape, MeetClosed
  <2>2. m \in Seq(Tokens) /\ o \in Seq(Tokens) /\ Len(m) \in Nat /\ Len(o) \in Nat
    BY <1>1, <2>1, UpToWhole
  <2>3. UpTo(m, i) # n
    <3>1. SUFFICES ASSUME UpTo(m, i) = n PROVE FALSE
      OBVIOUS
    <3>2. i \in 0 .. Len(m) /\ i \in 0 .. Len(o) /\ UpTo(o, i) = n
      BY <2>2, <3>1
    <3>3. IsPrefix(n, m) /\ IsPrefix(n, o) /\ Len(n) = i
      BY <2>2, <3>1, <3>2, UpToPrefix, UpToIs
    <3>4. n # m /\ n # o
      BY <3>3
    <3>5. PICK k \in Children(t, n) : IsPrefix(k, m) /\ k \in DOMAIN t
      BY <2>1, <3>3, <3>4, Descend
    <3>6. PICK j \in Children(t, n) : IsPrefix(j, o) /\ j \in DOMAIN t
      BY <2>1, <3>3, <3>4, Descend
    <3>7. j = k
      OBVIOUS
    <3>8. k \in Seq(Tokens) /\ Len(k) \in Nat /\ i < Len(k)
      BY <3>3, <3>5, ChildOf
    <3>9. i + 1 \in 0 .. Len(k)
      BY <3>8
    <3>10. UpTo(k, i + 1) = UpTo(m, i + 1) /\ UpTo(k, i + 1) = UpTo(o, i + 1)
      BY <2>2, <3>5, <3>6, <3>7, <3>8, <3>9, PrefixUpTo
    <3> QED
      BY <3>10
  <2> QED
    BY <2>1, <2>3
<1>6. TrieShape(DOMAIN u)
  <2>1. IsFiniteSet(DOMAIN u)
    BY FS_RemoveElement DEF TrieShape
  <2> QED
    BY <1>1, <1>5, <2>1 DEF TrieShape
<1>7. ASSUME NEW m \in DOMAIN u \ {<<>>}
      PROVE  StartOffset(u, m) = IF m \in Children(t, n) THEN StartOffset(t, n) ELSE StartOffset(t, m)
  <2>1. m \in DOMAIN t /\ m # n /\ m \in Seq(Tokens)
    BY <1>1
  <2>2. CASE m \in Children(t, n)
    <3>1. IsPrefix(n, m) /\ \A o \in DOMAIN t : IsPrefix(o, m) /\ o # m => Len(o) <= Len(n)
      BY <2>2, ChildOf
    <3>2. IsPrefix(x, m) /\ Len(n) <= Len(m)
      BY <1>1, <1>4, <2>1, <3>1, PrefixTrans, PrefixIs
    <3>3. ASSUME NEW o \in DOMAIN u, IsPrefix(o, m), o # m PROVE Len(o) <= Len(x)
      <4>1. o \in DOMAIN t /\ o # n /\ Len(o) <= Len(n) /\ o \in Seq(Tokens)
        BY <1>1, <3>1, <3>3
      <4>2. IsPrefix(o, n)
        BY <1>1, <2>1, <3>1, <3>3, <4>1, PrefixComparable
      <4> QED
        BY <1>4, <4>1, <4>2
    <3>4. x # m
      BY <1>1, <1>4, <2>1, <3>2, UpToWhole
    <3>5. x \in DOMAIN u
      BY <1>4
    <3>6. m \in Children(u, x)
      BY <1>6, <3>2, <3>3, <3>4, <3>5, ChildIs
    <3> QED
      BY <1>4, <1>6, <2>2, <3>5, <3>6, ChildOf
  <2>3. CASE m \notin Children(t, n)
    <3>1. PICK y \in DOMAIN t : y = Parent(t, m)
      BY <2>1, ParentIs
    <3>2. m \in Children(t, y) /\ y # n
      BY <2>1, <2>3, <3>1 DEF Children
    <3>3. /\ IsPrefix(y, m) /\ y # m /\ StartOffset(t, m) = Len(y)
          /\ \A o \in DOMAIN t : IsPrefix(o, m) /\ o # m => Len(o) <= Len(y)
      BY <3>2, ChildOf
    <3>4. y \in DOMAIN u /\ \A o \in DOMAIN u : IsPrefix(o, m) /\ o # m => Len(o) <= Len(y)
      BY <3>2, <3>3
    <3>5. m \in Children(u, y)
      BY <1>6, <3>3, <3>4, ChildIs
    <3> QED
      BY <1>6, <2>3, <3>3, <3>4, <3>5, ChildOf
  <2> QED
    BY <2>2, <2>3
<1>8. ASSUME NEW m \in DOMAIN u, Children(t, m) = {} PROVE Children(u, m) = {}
  <2>1. SUFFICES ASSUME NEW k \in Children(u, m) PROVE FALSE
    OBVIOUS
  <2>2. k \in DOMAIN u /\ IsPrefix(m, k) /\ m # k
    BY <1>6, ChildOf
  <2> QED
    BY <1>8, <2>2, LeafAlone
<1> QED
  BY <1>6, <1>7, <1>8 DEF RemovedShape

\* The result of removeNode.
RemovedOn(c, d, n) ==
  /\ d \in CacheRecord
  /\ DOMAIN d.trie = DOMAIN c.trie \ {n}
  /\ \A m \in DOMAIN d.trie : d.trie[m] = c.trie[m]
  /\ d.activePath = c.activePath /\ d.caches = c.caches
  /\ Counted(d)

\* A removed leaf is no longer counted.
LEMMA EvictLeafIs ==
  ASSUME kinds \in Models, NEW c \in CacheRecord, IsFiniteSet(DOMAIN c.trie), Counted(c), NEW n \in DOMAIN c.trie
  PROVE  RemovedOn(c, EvictLeaf(c, n), n)
<1> DEFINE b == SetSnapshots(c, n, NoSnaps)
           u == Without(b.trie, n)
           d == EvictLeaf(c, n)
<1>1. SetOn(c, b, n, NoSnaps)
  BY NothingHeld, SetSnapshotsIs
<1>2. d = [b EXCEPT !.trie = u]
  BY DEF EvictLeaf
<1> HIDE DEF b
<1>3. /\ b.trie \in AnyTrie /\ b.activePath \in SUBSET Seq(Tokens) /\ b.caches \in [Layers -> Cells] /\ b.pagedOutBytes \in Int
      /\ DOMAIN b.trie \subseteq Seq(Tokens) /\ b.trie \in [DOMAIN b.trie -> NodeRecord]
      /\ b \in CacheRecord
  BY <1>1, CacheIs, TrieIs DEF SetOn
<1>4. u = [m \in DOMAIN b.trie \ {n} |-> b.trie[m]]
  BY DEF Without
<1>5. u \in AnyTrie /\ DOMAIN u = DOMAIN b.trie \ {n} /\ \A m \in DOMAIN u : u[m] = b.trie[m]
  <2>1. u \in [DOMAIN b.trie \ {n} -> NodeRecord]
    <3> HIDE DEF u
    <3> QED
      BY <1>3, <1>4
  <2>2. DOMAIN b.trie \ {n} \in SUBSET Seq(Tokens)
    BY <1>3
  <2>3. \A m \in DOMAIN u : u[m] = b.trie[m]
    BY <1>4
  <2> HIDE DEF u
  <2> QED
    BY <2>1, <2>2, <2>3, IsTrie
<1> HIDE DEF u, d
<1>6. d \in CacheRecord /\ d.trie = u /\ d.pagedOutBytes = b.pagedOutBytes /\ d.activePath = b.activePath /\ d.caches = b.caches
  BY <1>2, <1>3, <1>5 DEF CacheRecord
<1>7. AllHeld(u) = AllHeld(b.trie)
  <2>1. b.trie[n].snaps = NoSnaps
    BY <1>1 DEF SetOn
  <2>2. HeldBy(b.trie[n].snaps) = {}
    BY <2>1, NothingHeld
  <2>3. \A m \in DOMAIN b.trie \ {n} : u[m].snaps = b.trie[m].snaps
    BY <1>5
  <2> QED
    BY <1>5, <2>2, <2>3 DEF AllHeld
<1>8. Counted(b)
  BY <1>1 DEF SetOn
<1> QED
  BY <1>1, <1>5, <1>6, <1>7, <1>8 DEF RemovedOn, SetOn, Counted, d

\* Merge joins the snapshots of a node and of its child.
LEMMA MergedSnap ==
  ASSUME kinds \in Models, NEW l \in Layers, NEW n \in Seq(Tokens), NEW k \in Seq(Tokens), IsPrefix(n, k),
         NEW start \in Nat, NEW r \in {None} \cup SnapRecord, NEW s \in {None} \cup SnapRecord,
         Fits(l, n, start, r), Fits(l, k, Len(n), s), k # <<>>
  PROVE  LET m == Merged(l, r, s)
         IN  /\ m \in {None} \cup SnapRecord
             /\ Fits(l, k, start, m)
             /\ kinds[l] # "kv" => m = s
             /\ kinds[l] = "kv" /\ r # None /\ s # None => m # None
             /\ TrueSnap(l, n, r) /\ TrueSnap(l, k, s) => TrueSnap(l, k, m)
<1> DEFINE m == Merged(l, r, s)
<1>0. Len(n) \in Nat /\ Len(k) \in Nat
  BY UpToWhole
<1>1. CASE kinds[l] # "kv"
  <2>1. m = s
    BY <1>1 DEF Merged
  <2> QED
    BY <1>1, <2>1 DEF Fits
<1>2. CASE kinds[l] = "kv" /\ None \in {r, s}
  <2>1. m = None
    BY <1>2 DEF Merged
  <2> QED
    BY <1>2, <2>1 DEF Fits, TrueSnap
<1>3. CASE kinds[l] = "kv" /\ None \notin {r, s}
  <2>1. r \in SnapRecord /\ s \in SnapRecord /\ End(r) = Len(n) /\ r.from = start /\ End(s) = Len(k) /\ s.from = Len(n)
    BY <1>3 DEF Fits
  <2>2. /\ r.cells \in Seq(Seq(Tokens)) /\ s.cells \in Seq(Seq(Tokens)) /\ Len(r.cells) \in Nat /\ Len(s.cells) \in Nat
        /\ Len(n) = start + Len(r.cells) /\ Len(k) = Len(n) + Len(s.cells)
    BY <2>1, SnapIs DEF Cells
  <2>3. /\ r.cells \o s.cells \in Cells /\ Len(r.cells \o s.cells) = Len(r.cells) + Len(s.cells)
        /\ \A i \in 1 .. Len(r.cells) + Len(s.cells) :
             (r.cells \o s.cells)[i] = IF i <= Len(r.cells) THEN r.cells[i] ELSE s.cells[i - Len(r.cells)]
    BY <2>2, ConcatProperties DEF Cells
  <2>4. m = [from |-> start, cells |-> r.cells \o s.cells]
    BY <1>3, <2>1 DEF Merged, Snap
  <2> HIDE DEF m
  <2>5. m \in SnapRecord /\ m.from = start /\ m.cells = r.cells \o s.cells
    BY <2>3, <2>4 DEF SnapRecord
  <2>6. Fits(l, k, start, m)
    <3>1. PICK a \in Nat, b \in Nat, g \in Nat : a = Len(r.cells) /\ b = Len(s.cells) /\ g = Len(n)
      BY <1>0, <2>2
    <3>2. Len(r.cells \o s.cells) = a + b /\ g = start + a /\ Len(k) = g + b
      BY <2>2, <2>3, <3>1
    <3>3. start + Len(r.cells \o s.cells) = Len(k)
      BY <3>2
    <3> QED
      BY <1>3, <2>5, <3>3 DEF Fits, End
  <2>7. ASSUME TrueSnap(l, n, r), TrueSnap(l, k, s) PROVE TrueSnap(l, k, m)
    <3> SUFFICES ASSUME NEW i \in Kept(l, Len(k)), i > start PROVE (r.cells \o s.cells)[i - start] = UpTo(k, i)
      BY <2>5 DEF TrueSnap
    <3>0. i \in 1 .. Len(k)
      BY DEF Kept
    <3>1. PICK a \in Nat, b \in Nat, g \in Nat : a = Len(r.cells) /\ b = Len(s.cells) /\ g = Len(n)
      BY <1>0, <2>2
    <3>2. g = start + a /\ Len(k) = g + b
      BY <2>2, <3>1
    <3>3. i \in 1 .. Len(k) /\ i - start \in 1 .. a + b
      BY <3>0, <3>2
    <3>4. i \in 1 .. Len(k) /\ i - start \in 1 .. Len(r.cells) + Len(s.cells)
      BY <3>1, <3>3
    <3>5. CASE i <= Len(n)
      <4>1. i \in Kept(l, Len(n)) /\ i \in 0 .. Len(n)
        BY <1>3, <2>2, <3>4, <3>5 DEF Kept
      <4>2. r.cells[i - start] = UpTo(n, i)
        BY <1>3, <2>1, <2>7, <4>1 DEF TrueSnap
      <4>3. UpTo(n, i) = UpTo(k, i)
        BY <4>1, PrefixUpTo
      <4>4. i - start <= Len(r.cells)
        BY <2>2, <3>4, <3>5
      <4> QED
        BY <2>3, <3>4, <4>2, <4>3, <4>4
    <3>6. CASE ~ i <= Len(n)
      <4>0. i > Len(n)
        BY <1>0, <3>4, <3>6
      <4>1. s.cells[i - Len(n)] = UpTo(k, i)
        BY <1>3, <2>1, <2>7, <4>0 DEF TrueSnap
      <4>2. ~ i - start <= Len(r.cells) /\ (i - start) - Len(r.cells) = i - Len(n)
        BY <2>2, <3>4, <3>6
      <4> QED
        BY <2>3, <3>4, <4>1, <4>2
    <3> QED
      BY <3>5, <3>6
  <2> QED
    BY <1>3, <2>5, <2>6, <2>7, SnapIs DEF m
<1> QED
  BY <1>1, <1>2, <1>3

\* An evictable node is off the active path and has at most one child.
LEMMA FewChildren ==
  ASSUME NEW c, NEW n \in Evictable(c), TrieShape(DOMAIN c.trie)
  PROVE  /\ n \in DOMAIN c.trie /\ n # <<>> /\ n \notin c.activePath
         /\ \A j, k \in Children(c.trie, n) : j = k
<1>1. n \in DOMAIN c.trie /\ n # <<>> /\ n \notin c.activePath /\ Cardinality(Children(c.trie, n)) <= 1
  BY DEF Evictable
<1> DEFINE S == Children(c.trie, n)
<1>2. IsFiniteSet(S)
  <2>1. S \in SUBSET DOMAIN c.trie
    BY DEF Children
  <2> QED
    BY <2>1, FS_Subset DEF TrieShape
<1> HIDE DEF S
<1>3. Cardinality(S) \in Nat /\ Cardinality(S) <= 1
  BY <1>1, <1>2, FS_CardinalityType DEF S
<1>4. CASE Cardinality(S) = 0
  BY <1>1, <1>2, <1>4, FS_EmptySet DEF S
<1>5. CASE Cardinality(S) = 1
  <2>1. PICK x : S = {x}
    BY <1>2, <1>5, FS_Singleton
  <2> QED
    BY <1>1, <2>1 DEF S
<1> QED
  BY <1>3, <1>4, <1>5

\* What evictNode does to a node.
Evicted(c, n) ==
  IF Children(c.trie, n) = {} THEN EvictLeaf(c, n)
  ELSE MergeWithChild(c, n, Longest(Children(c.trie, n)))

\* What an eviction of n keeps.
KeptOn(c, d, f, n) ==
  /\ Good(d, f) /\ d.caches = c.caches /\ d.activePath = c.activePath
  /\ Points(c.trie) \ {n} \subseteq Points(d.trie)
  /\ SnapsTrue(c.trie) => SnapsTrue(d.trie)

\* Evicting a leaf keeps the rest as it was.
LEMMA LeafEvicted ==
  ASSUME kinds \in Models, NEW c, NEW f, Good(c, f), NEW n \in Evictable(c), Children(c.trie, n) = {}
  PROVE  KeptOn(c, EvictLeaf(c, n), f, n)
<1> DEFINE t == c.trie
           d == EvictLeaf(c, n)
           u == d.trie
<1>1. /\ c \in CacheRecord /\ GoodTrie(t) /\ TrieShape(DOMAIN t) /\ IsFiniteSet(DOMAIN t)
      /\ f \in DOMAIN t /\ c.activePath = PathTo(t, f) /\ KeysBacked(t, f) /\ Counted(c)
      /\ SnapsFit(t) /\ SnapsTogether(t)
  BY DEF Good, GoodTrie, TrieShape, EndsAt
<1>2. n \in DOMAIN t /\ n # <<>> /\ n \notin c.activePath
  BY <1>1, FewChildren
<1>3. RemovedOn(c, d, n)
  BY <1>1, <1>2, EvictLeafIs
<1> HIDE DEF d
<1>4. /\ d \in CacheRecord /\ DOMAIN u = DOMAIN t \ {n} /\ (\A m \in DOMAIN u : u[m] = t[m])
      /\ d.activePath = c.activePath /\ d.caches = c.caches /\ Counted(d)
  BY <1>3 DEF RemovedOn
<1> HIDE DEF u
<1>5. RemovedShape(t, u, n)
  BY <1>1, <1>2, <1>4, ShapeRemoved
<1>6. GoodTrie(u)
  <2>1. ASSUME NEW m \in DOMAIN u, NEW l \in Layers PROVE Fits(l, m, StartOffset(u, m), u[m].snaps[l])
    <3>1. Fits(l, m, StartOffset(t, m), t[m].snaps[l]) /\ u[m] = t[m]
      BY <1>1, <1>4 DEF SnapsFit
    <3>2. CASE m = <<>>
      BY <3>1, <3>2 DEF Fits
    <3>3. CASE m # <<>>
      BY <1>5, <3>1, <3>3 DEF RemovedShape
    <3> QED
      BY <3>2, <3>3
  <2>2. \A m \in DOMAIN u : Together(u[m].snaps)
    BY <1>1, <1>4 DEF SnapsTogether
  <2> QED
    BY <1>5, <2>1, <2>2 DEF GoodTrie, RemovedShape, SnapsFit, SnapsTogether
<1>7. EndsAt(d, f)
  <2>1. f \in DOMAIN u
    BY <1>1, <1>2, <1>4, PathEnd
  <2>2. PathTo(u, f) = PathTo(t, f)
    BY <1>1, <1>2, <1>4 DEF PathTo
  <2> QED
    BY <1>1, <1>4, <2>1, <2>2 DEF EndsAt, u
<1>8. KeysBacked(u, f)
  BY <1>1, <1>4, <1>5 DEF KeysBacked, RemovedShape
<1>9. SnapsTrue(t) => SnapsTrue(u)
  BY <1>4 DEF SnapsTrue
<1>10. Points(t) \ {n} \subseteq Points(u)
  BY <1>4, SamePoints
<1> QED
  BY <1>4, <1>6, <1>7, <1>8, <1>9, <1>10 DEF KeptOn, Good, d, u

\* Merging a node into its only child keeps what both held.
LEMMA NodeMerged ==
  ASSUME kinds \in Models, NEW c, NEW f, Good(c, f), NEW n \in Evictable(c),
         NEW k \in Children(c.trie, n)
  PROVE  KeptOn(c, MergeWithChild(c, n, k), f, n)
<1> DEFINE t == c.trie
           e == EvictLeaf(c, n)
           merged == [l \in Layers |-> Merged(l, t[n].snaps[l], t[k].snaps[l])]
           d == MergeWithChild(c, n, k)
           u == d.trie
<1>1. /\ c \in CacheRecord /\ GoodTrie(t) /\ TrieShape(DOMAIN t) /\ IsFiniteSet(DOMAIN t)
      /\ f \in DOMAIN t /\ c.activePath = PathTo(t, f) /\ KeysBacked(t, f) /\ Counted(c)
      /\ SnapsFit(t) /\ SnapsTogether(t) /\ t \in AnyTrie
  BY CacheIs DEF Good, GoodTrie, TrieShape, EndsAt
<1>2. n \in DOMAIN t /\ n # <<>> /\ n \notin c.activePath /\ \A i, j \in Children(t, n) : i = j
  BY <1>1, FewChildren
<1>3. /\ k \in DOMAIN t /\ k \in Seq(Tokens) /\ n \in Seq(Tokens) /\ k # <<>> /\ k # n /\ IsPrefix(n, k)
      /\ StartOffset(t, k) = Len(n) /\ StartOffset(t, n) \in Nat
  BY <1>1, <1>2, ChildOf, ParentIs
<1>4. n # f /\ k # f
  BY <1>1, <1>2, <1>3, PathEnd DEF PathTo
<1>5. HasKeys(t[n].snaps) /\ HasKeys(t[k].snaps)
  BY <1>1, <1>2, <1>3, <1>4 DEF KeysBacked
<1>6. ASSUME NEW l \in Layers
      PROVE  /\ merged[l] \in {None} \cup SnapRecord
             /\ Fits(l, k, StartOffset(t, n), merged[l])
             /\ kinds[l] # "kv" => merged[l] = t[k].snaps[l]
             /\ kinds[l] = "kv" => merged[l] # None
             /\ TrueSnap(l, n, t[n].snaps[l]) /\ TrueSnap(l, k, t[k].snaps[l]) => TrueSnap(l, k, merged[l])
  <2>1. t[n].snaps[l] \in {None} \cup SnapRecord /\ t[k].snaps[l] \in {None} \cup SnapRecord
    BY <1>1, <1>2, <1>3, TrieIs DEF AnySnaps
  <2>2. Fits(l, n, StartOffset(t, n), t[n].snaps[l]) /\ Fits(l, k, Len(n), t[k].snaps[l])
    BY <1>1, <1>2, <1>3 DEF SnapsFit
  <2>3. kinds[l] = "kv" => t[n].snaps[l] # None /\ t[k].snaps[l] # None
    BY <1>5 DEF HasKeys
  <2>4. merged[l] = Merged(l, t[n].snaps[l], t[k].snaps[l])
    OBVIOUS
  <2> HIDE DEF merged
  <2> QED
    BY <1>3, <2>1, <2>2, <2>3, <2>4, MergedSnap
<1>7. merged \in AnySnaps
  <2>1. merged = [l \in Layers |-> merged[l]]
    OBVIOUS
  <2> HIDE DEF merged
  <2> QED
    BY <1>6, <2>1 DEF AnySnaps
<1>8. d = SetSnapshots(e, k, merged)
  BY DEF MergeWithChild
<1>9. RemovedOn(c, e, n)
  BY <1>1, <1>2, EvictLeafIs
<1> HIDE DEF merged, d, e
<1>10. SetOn(e, d, k, merged)
  <2>1. e \in CacheRecord /\ IsFiniteSet(DOMAIN e.trie) /\ k \in DOMAIN e.trie
    BY <1>1, <1>3, <1>9, FS_RemoveElement DEF RemovedOn
  <2> QED
    BY <1>7, <1>8, <2>1, SetSnapshotsIs
<1>11. /\ d \in CacheRecord /\ DOMAIN u = DOMAIN t \ {n} /\ u[k].snaps = merged
       /\ u[k].user = t[k].user
       /\ (\A m \in DOMAIN u \ {k} : u[m] = t[m])
       /\ d.activePath = c.activePath /\ d.caches = c.caches /\ Counted(d)
  <2>1. DOMAIN u = DOMAIN e.trie
    BY <1>10 DEF SetOn
  <2>2. \A m \in DOMAIN u \ {k} : u[m] = t[m]
    BY <1>9, <1>10, <2>1 DEF RemovedOn, SetOn
  <2>3. u[k].snaps = merged /\ u[k].user = t[k].user
    <3>1. k \in DOMAIN e.trie
      BY <1>3, <1>9 DEF RemovedOn
    <3>2. e.trie[k].user = t[k].user
      BY <1>9, <3>1 DEF RemovedOn
    <3>3. u[k] = [snaps |-> merged, user |-> e.trie[k].user]
      BY <1>10 DEF SetOn
    <3> QED
      BY <3>2, <3>3
  <2> QED
    BY <1>9, <1>10, <2>1, <2>2, <2>3 DEF RemovedOn, SetOn
<1> HIDE DEF u
<1>12. RemovedShape(t, u, n)
  BY <1>1, <1>2, <1>11, ShapeRemoved
<1>13. k \in DOMAIN u /\ StartOffset(u, k) = StartOffset(t, n)
  BY <1>3, <1>11, <1>12 DEF RemovedShape
<1>14. GoodTrie(u)
  <2>1. ASSUME NEW m \in DOMAIN u, NEW l \in Layers PROVE Fits(l, m, StartOffset(u, m), u[m].snaps[l])
    <3>1. CASE m = k
      BY <1>6, <1>11, <1>13, <3>1
    <3>2. CASE m # k
      <4>1. Fits(l, m, StartOffset(t, m), t[m].snaps[l]) /\ u[m] = t[m]
        BY <1>1, <1>11, <3>2 DEF SnapsFit
      <4>2. CASE m = <<>>
        BY <4>1, <4>2 DEF Fits
      <4>3. CASE m # <<>>
        <5>1. m \notin Children(t, n)
          BY <1>2, <3>2
        <5>2. StartOffset(u, m) = StartOffset(t, m)
          BY <1>12, <4>3, <5>1 DEF RemovedShape
        <5> QED
          BY <4>1, <5>2
      <4> QED
        BY <4>2, <4>3
    <3> QED
      BY <3>1, <3>2
  <2>2. ASSUME NEW m \in DOMAIN u PROVE Together(u[m].snaps)
    <3>1. CASE m = k
      <4>1. Together(t[k].snaps)
        BY <1>1, <1>3 DEF SnapsTogether
      <4> QED
        BY <1>6, <1>11, <3>1, <4>1 DEF Together
    <3>2. CASE m # k
      BY <1>1, <1>11, <3>2 DEF SnapsTogether
    <3> QED
      BY <3>1, <3>2
  <2> QED
    BY <1>12, <2>1, <2>2 DEF GoodTrie, RemovedShape, SnapsFit, SnapsTogether
<1>15. EndsAt(d, f)
  <2>1. f \in DOMAIN u
    BY <1>1, <1>4, <1>11
  <2>2. PathTo(u, f) = PathTo(t, f)
    BY <1>1, <1>2, <1>11 DEF PathTo
  <2> QED
    BY <1>1, <1>11, <2>1, <2>2 DEF EndsAt, u
<1>16. KeysBacked(u, f)
  <2> SUFFICES ASSUME NEW m \in DOMAIN u \ {<<>>}
               PROVE  HasKeys(u[m].snaps) \/ (m = f /\ Children(u, m) = {} /\ u[m].snaps = NoSnaps)
    BY DEF KeysBacked
  <2>1. CASE m = k
    BY <1>6, <1>11, <2>1 DEF HasKeys
  <2>2. CASE m # k
    <3>1. m \in DOMAIN t \ {<<>>} /\ u[m] = t[m] /\ (Children(t, m) = {} => Children(u, m) = {})
      BY <1>11, <1>12, <2>2 DEF RemovedShape
    <3> QED
      BY <1>1, <3>1 DEF KeysBacked
  <2> QED
    BY <2>1, <2>2
<1>17. ASSUME SnapsTrue(t) PROVE SnapsTrue(u)
  <2> SUFFICES ASSUME NEW m \in DOMAIN u, NEW l \in Layers PROVE TrueSnap(l, m, u[m].snaps[l])
    BY DEF SnapsTrue
  <2>1. CASE m = k
    BY <1>2, <1>3, <1>6, <1>11, <1>17, <2>1 DEF SnapsTrue
  <2>2. CASE m # k
    BY <1>11, <1>17, <2>2 DEF SnapsTrue
  <2> QED
    BY <2>1, <2>2
<1>18. Points(t) \ {n} \subseteq Points(u)
  <2>1. Points(t) \ {n, k} \subseteq Points(u)
    BY <1>11, SamePoints
  <2>2. ASSUME k \in Points(t) PROVE k \in Points(u)
    <3>1. ASSUME NEW l \in Layers PROVE merged[l] # None
      <4>1. t[k].snaps[l] # None
        BY <2>2 DEF Points, HasAllSnapshots
      <4> QED
        BY <1>6, <4>1
    <3>2. HasAllSnapshots(u[k])
      BY <1>11, <3>1 DEF HasAllSnapshots
    <3> QED
      BY <1>11, <1>13, <2>2, <3>2 DEF Points
  <2> QED
    BY <2>1, <2>2
<1> QED
  BY <1>11, <1>14, <1>15, <1>16, <1>17, <1>18 DEF KeptOn, Good, d, u

\* A round of enforceEvictionPolicy, whichever node it takes.
LEMMA EvictedIs ==
  ASSUME kinds \in Models, NEW c, NEW f, Good(c, f), NEW n \in Evictable(c)
  PROVE  KeptOn(c, Evicted(c, n), f, n)
<1>1. TrieShape(DOMAIN c.trie)
  BY DEF Good, GoodTrie
<1>2. CASE Children(c.trie, n) = {}
  BY <1>2, LeafEvicted DEF Evicted
<1>3. CASE Children(c.trie, n) # {}
  <2>1. \A j, k \in Children(c.trie, n) : j = k
    BY <1>1, FewChildren
  <2>2. Longest(Children(c.trie, n)) \in Children(c.trie, n)
    <3> DEFINE S == Children(c.trie, n)
    <3>1. PICK k : k \in S /\ S = {k}
      BY <1>3, <2>1
    <3>2. k \in Seq(Tokens)
      BY <1>1, <3>1, ChildOf, FewChildren
    <3>3. Len(k) <= Len(k)
      BY <3>2, UpToWhole
    <3> HIDE DEF S
    <3>4. \E m \in S : \A o \in S : Len(o) <= Len(m)
      BY <3>1, <3>3
    <3>5. Longest(S) \in S
      BY <3>4 DEF Longest
    <3> QED
      BY <3>5 DEF S
  <2> QED
    BY <1>3, <2>2, NodeMerged DEF Evicted
<1> QED
  BY <1>2, <1>3

-----------------------------------------------------------------------------
(* The trie grows *)

\* No node agrees with q beyond one that is a prefix of it.
Farthest(t, n, q) ==
  /\ n \in DOMAIN t /\ IsPrefix(n, q)
  /\ \A m \in DOMAIN t : \A i \in 0 .. Len(m) :
       i <= Len(q) /\ UpTo(m, i) = UpTo(q, i) => i <= Len(n)

\* How a new leaf changes the shape, which may take the place of one before it.
GrownShape(t, u, n, q, X) ==
  /\ TrieShape(DOMAIN u)
  /\ q \notin DOMAIN t /\ Children(u, q) = {}
  /\ PathTo(u, q) = (PathTo(t, n) \ X) \cup {q}
  /\ \A m \in DOMAIN u \ {q, <<>>} : StartOffset(u, m) = StartOffset(t, m)

\* A new leaf at the farthest node changes no other edge.
LEMMA ShapeGrown ==
  ASSUME NEW t, TrieShape(DOMAIN t), NEW n, NEW q \in Seq(Tokens), Farthest(t, n, q), n # q,
         NEW X, X = {} \/ (X = {n} /\ n # <<>> /\ Children(t, n) = {}),
         NEW u, DOMAIN u = (DOMAIN t \ X) \cup {q}
  PROVE  GrownShape(t, u, n, q, X)
<1>1. /\ n \in DOMAIN t /\ n \in Seq(Tokens) /\ Len(n) \in Nat /\ Len(q) \in Nat /\ IsPrefix(n, q)
      /\ DOMAIN t \subseteq Seq(Tokens) /\ <<>> \in DOMAIN t
  BY UpToWhole DEF TrieShape, Farthest
<1>2. Len(n) < Len(q) /\ n = UpTo(q, Len(n)) /\ Len(n) \in 0 .. Len(q)
  <2>1. Len(n) <= Len(q) /\ n = UpTo(q, Len(n))
    BY <1>1, PrefixIs
  <2>2. Len(n) # Len(q)
    BY <2>1, UpToWhole
  <2> QED
    BY <1>1, <2>1, <2>2
<1>3. ASSUME NEW m \in DOMAIN t, IsPrefix(m, q) PROVE Len(m) <= Len(n) /\ IsPrefix(m, n)
  <2>1. m \in Seq(Tokens) /\ Len(m) \in Nat /\ Len(m) <= Len(q) /\ UpTo(m, Len(m)) = UpTo(q, Len(m))
    BY <1>1, <1>3, PrefixIs, UpToWhole
  <2>2. Len(m) <= Len(n)
    BY <2>1 DEF Farthest
  <2> QED
    BY <1>1, <1>3, <2>1, <2>2, PrefixComparable
<1>4. ASSUME NEW m \in DOMAIN t PROVE ~IsPrefix(q, m)
  <2>1. SUFFICES ASSUME IsPrefix(q, m) PROVE FALSE
    OBVIOUS
  <2>2. m \in Seq(Tokens) /\ Len(m) \in Nat /\ Len(q) <= Len(m) /\ q = UpTo(m, Len(q)) /\ UpTo(q, Len(q)) = q
    BY <1>1, <2>1, PrefixIs, UpToWhole
  <2>3. Len(q) \in 0 .. Len(m)
    BY <1>1, <2>2
  <2>4. Len(q) <= Len(n)
    BY <1>1, <2>2, <2>3 DEF Farthest
  <2> QED
    BY <1>1, <1>2, <2>4
<1>5. q \notin DOMAIN t
  BY <1>1, <1>4, PrefixSelf
<1>6. ASSUME NEW m \in DOMAIN t, NEW i \in Nat, i < Len(m), i < Len(q),
             UpTo(m, i) = UpTo(q, i), UpTo(m, i + 1) # UpTo(q, i + 1)
      PROVE  UpTo(m, i) \in DOMAIN t \ X
  <2>1. m \in Seq(Tokens) /\ Len(m) \in Nat /\ i \in 0 .. Len(m) /\ i <= Len(q)
    BY <1>1, <1>6, UpToWhole
  <2>2. i <= Len(n)
    BY <1>6, <2>1 DEF Farthest
  <2>3. CASE i = Len(n)
    <3>1. UpTo(m, i) = n
      BY <1>2, <1>6, <2>3
    <3>2. IsPrefix(n, m) /\ m # n
      BY <1>6, <2>1, <2>3, <3>1, UpToPrefix
    <3>3. X # {n}
      BY <1>1, <3>2, LeafAlone
    <3> QED
      BY <1>1, <3>1, <3>3
  <2>4. CASE i < Len(n)
    <3>1. i \in 0 .. Len(n) /\ i + 1 \in 0 .. Len(n)
      BY <1>1, <2>4
    <3>2. UpTo(n, i) = UpTo(q, i) /\ UpTo(n, i + 1) = UpTo(q, i + 1)
      BY <1>1, <3>1, PrefixUpTo
    <3>3. UpTo(m, i) = UpTo(n, i) /\ UpTo(m, i + 1) # UpTo(n, i + 1)
      BY <1>6, <3>2
    <3>4. UpTo(m, i) \in DOMAIN t
      BY <1>1, <1>6, <2>4, <3>3 DEF TrieShape, MeetClosed
    <3>5. UpTo(m, i) # n
      <4>1. Len(UpTo(m, i)) = i
        BY <2>1, UpToIs
      <4> QED
        BY <2>4, <4>1
    <3> QED
      BY <3>4, <3>5
  <2> QED
    BY <1>1, <2>2, <2>3, <2>4
<1>7. MeetClosed(DOMAIN u)
  <2> SUFFICES ASSUME NEW m \in DOMAIN u, NEW o \in DOMAIN u, NEW i \in Nat,
                      i < Len(m), i < Len(o), UpTo(m, i) = UpTo(o, i), UpTo(m, i + 1) # UpTo(o, i + 1)
               PROVE  UpTo(m, i) \in DOMAIN u
    BY DEF MeetClosed
  <2>1. CASE m = q /\ o = q
    BY <2>1
  <2>2. CASE m = q /\ o # q
    BY <1>6, <2>2
  <2>3. CASE m # q /\ o = q
    BY <1>6, <2>3
  <2>4. CASE m # q /\ o # q
    <3>1. m \in DOMAIN t \ X /\ o \in DOMAIN t \ X
      BY <2>4
    <3>2. UpTo(m, i) \in DOMAIN t
      BY <3>1 DEF TrieShape, MeetClosed
    <3>3. X = {n} => UpTo(m, i) # n
      <4> SUFFICES ASSUME X = {n}, UpTo(m, i) = n PROVE FALSE
        OBVIOUS
      <4>1. m \in Seq(Tokens) /\ Len(m) \in Nat
        BY <1>1, <3>1, UpToWhole
      <4>2. i \in 0 .. Len(m)
        BY <4>1
      <4>3. IsPrefix(n, m)
        BY <4>1, <4>2, UpToPrefix
      <4> QED
        BY <1>1, <3>1, <4>3, LeafAlone
    <3> QED
      BY <3>2, <3>3
  <2> QED
    BY <2>1, <2>2, <2>3, <2>4
<1>8. TrieShape(DOMAIN u)
  <2>1. IsFiniteSet(DOMAIN t \ X)
    BY FS_Subset DEF TrieShape
  <2>2. IsFiniteSet((DOMAIN t \ X) \cup {q})
    BY <2>1, FS_AddElement
  <2>3. DOMAIN u \subseteq Seq(Tokens) /\ <<>> \in DOMAIN u
    BY <1>1
  <2> QED
    BY <1>7, <2>2, <2>3 DEF TrieShape
<1>9. Children(u, q) = {}
  <2>1. SUFFICES ASSUME NEW m \in Children(u, q) PROVE FALSE
    OBVIOUS
  <2>2. m \in DOMAIN u /\ IsPrefix(q, m) /\ q # m
    BY <1>8, ChildOf
  <2> QED
    BY <1>4, <2>2
<1>10. PathTo(u, q) = (PathTo(t, n) \ X) \cup {q}
  <2>1. ASSUME NEW m \in DOMAIN t PROVE IsPrefix(m, q) <=> IsPrefix(m, n)
    BY <1>1, <1>3, PrefixTrans
  <2>2. IsPrefix(q, q)
    BY PrefixSelf
  <2> QED
    BY <2>1, <2>2 DEF PathTo
<1>11. ASSUME NEW m \in DOMAIN u \ {q, <<>>} PROVE StartOffset(u, m) = StartOffset(t, m)
  <2>1. m \in DOMAIN t \ X /\ m # <<>> /\ m # q
    OBVIOUS
  <2>2. PICK y \in DOMAIN t : y = Parent(t, m)
    BY <2>1, ParentIs
  <2>3. m \in Children(t, y)
    BY <2>1, <2>2 DEF Children
  <2>4. /\ IsPrefix(y, m) /\ y # m /\ StartOffset(t, m) = Len(y)
        /\ \A o \in DOMAIN t : IsPrefix(o, m) /\ o # m => Len(o) <= Len(y)
    BY <2>3, ChildOf
  <2>5. y \in DOMAIN u
    BY <2>3
  <2>6. \A o \in DOMAIN u : IsPrefix(o, m) /\ o # m => Len(o) <= Len(y)
    BY <1>4, <2>1, <2>4
  <2>7. m \in Children(u, y)
    BY <1>8, <2>4, <2>5, <2>6, ChildIs
  <2> QED
    BY <1>8, <2>4, <2>5, <2>7, ChildOf
<1> QED
  BY <1>5, <1>8, <1>9, <1>10, <1>11 DEF GrownShape

\* The trie and the active path have come to q, where the caches are.
CameTo(c, d, q) ==
  /\ Good(d, q) /\ d.caches = c.caches
  /\ Points(c.trie) \subseteq Points(d.trie)
  /\ SnapsTrue(c.trie) => SnapsTrue(d.trie)

\* A trie that has grown, but for what backs its nodes.
LEMMA GrownGood ==
  ASSUME kinds \in Models, NEW c, NEW n, Good(c, n), NEW q \in Seq(Tokens), Farthest(c.trie, n, q), n # q,
         NEW X, X = {} \/ (X = {n} /\ n # <<>> /\ Children(c.trie, n) = {}),
         X = {} => n = <<>> \/ HasKeys(c.trie[n].snaps), X \cap Points(c.trie) = {},
         NEW d \in CacheRecord, DOMAIN d.trie = (DOMAIN c.trie \ X) \cup {q}, Counted(d),
         d.trie[q].snaps = NoSnaps, \A m \in DOMAIN c.trie \ X : d.trie[m] = c.trie[m],
         d.activePath = (c.activePath \ X) \cup {q}, d.caches = c.caches
  PROVE  CameTo(c, d, q)
<1> DEFINE t == c.trie
           u == d.trie
<1>1. /\ GoodTrie(t) /\ TrieShape(DOMAIN t) /\ SnapsFit(t) /\ SnapsTogether(t)
      /\ c.activePath = PathTo(t, n) /\ KeysBacked(t, n)
  BY DEF Good, GoodTrie, EndsAt
<1>2. GrownShape(t, u, n, q, X)
  BY <1>1, ShapeGrown
<1>3. q \notin DOMAIN t
  BY <1>2 DEF GrownShape
<1>4. GoodTrie(u)
  <2>1. ASSUME NEW m \in DOMAIN u, NEW l \in Layers PROVE Fits(l, m, StartOffset(u, m), u[m].snaps[l])
    <3>1. CASE m = q
      BY <3>1, NoSnapsFit
    <3>2. CASE m # q
      <4>1. Fits(l, m, StartOffset(t, m), t[m].snaps[l]) /\ u[m] = t[m]
        BY <1>1, <3>2 DEF SnapsFit
      <4>2. CASE m = <<>>
        BY <4>1, <4>2 DEF Fits
      <4>3. CASE m # <<>>
        BY <1>2, <3>2, <4>1, <4>3 DEF GrownShape
      <4> QED
        BY <4>2, <4>3
    <3> QED
      BY <3>1, <3>2
  <2>2. ASSUME NEW m \in DOMAIN u PROVE Together(u[m].snaps)
    <3>1. CASE m = q
      BY <3>1, NoSnapsFit
    <3>2. CASE m # q
      BY <1>1, <3>2 DEF SnapsTogether
    <3> QED
      BY <3>1, <3>2
  <2> QED
    BY <1>2, <2>1, <2>2 DEF GoodTrie, GrownShape, SnapsFit, SnapsTogether
<1>5. EndsAt(d, q)
  BY <1>1, <1>2 DEF EndsAt, GrownShape
<1>6. KeysBacked(u, q)
  <2> SUFFICES ASSUME NEW m \in DOMAIN u \ {<<>>}, m # q PROVE HasKeys(u[m].snaps)
    BY <1>2 DEF KeysBacked, GrownShape
  <2>1. m \in DOMAIN t \ X /\ u[m] = t[m]
    OBVIOUS
  <2>2. CASE m = n
    BY <2>1, <2>2
  <2>3. CASE m # n
    BY <1>1, <2>1, <2>3 DEF KeysBacked
  <2> QED
    BY <2>2, <2>3
<1>7. ASSUME SnapsTrue(t) PROVE SnapsTrue(u)
  <2> SUFFICES ASSUME NEW m \in DOMAIN u, NEW l \in Layers PROVE TrueSnap(l, m, u[m].snaps[l])
    BY DEF SnapsTrue
  <2>1. CASE m = q
    BY <2>1, NoSnapsFit
  <2>2. CASE m # q
    BY <1>7, <2>2 DEF SnapsTrue
  <2> QED
    BY <2>1, <2>2
<1>8. Points(t) \subseteq Points(u)
  <2>1. Points(t) \ X \subseteq Points(u)
    BY SamePoints
  <2> QED
    BY <2>1
<1> QED
  BY <1>4, <1>5, <1>6, <1>7, <1>8 DEF CameTo, Good

\* appendTokens makes a child or extends the leaf in place.
LEMMA AppendIs ==
  ASSUME kinds \in Models, NEW c, NEW n, Good(c, n), NEW q \in Seq(Tokens), Farthest(c.trie, n, q), n # q
  PROVE  CameTo(c, AppendTokens(c, n, q), q)
<1> DEFINE d == AppendTokens(c, n, q)
<1>1. /\ c \in CacheRecord /\ TrieShape(DOMAIN c.trie) /\ n \in DOMAIN c.trie
      /\ KeysBacked(c.trie, n) /\ Counted(c) /\ c.activePath = PathTo(c.trie, n)
  BY DEF Good, GoodTrie, EndsAt
<1>2. /\ c.trie \in AnyTrie /\ c.activePath \in SUBSET Seq(Tokens)
      /\ c.caches \in [Layers -> Cells] /\ c.pagedOutBytes \in Int
      /\ DOMAIN c.trie \subseteq Seq(Tokens) /\ c.trie \in [DOMAIN c.trie -> NodeRecord]
  BY <1>1, CacheIs, TrieIs
<1>3. q \notin DOMAIN c.trie
  <2>1. GrownShape(c.trie, [m \in (DOMAIN c.trie \ {}) \cup {q} |-> m], n, q, {})
    BY <1>1, ShapeGrown
  <2> QED
    BY <2>1 DEF GrownShape
<1>4. CASE n = <<>> \/ Children(c.trie, n) # {} \/ HasSnapshots(c.trie[n])
  <2> DEFINE b == [c EXCEPT !.trie = With(@, q)]
  <2>1. NodeOn(c, b, q)
    BY <1>1, <1>3, NodeAdded
  <2>2. d = [b EXCEPT !.activePath = c.activePath \cup {q}]
    BY <1>4 DEF AppendTokens
  <2> HIDE DEF b, d
  <2>3. /\ b \in CacheRecord /\ DOMAIN b.trie = DOMAIN c.trie \cup {q} /\ b.trie[q] = NewNode
        /\ (\A m \in DOMAIN c.trie : b.trie[m] = c.trie[m]) /\ b.caches = c.caches /\ Counted(b)
    BY <1>1, <2>1 DEF NodeOn
  <2>4. /\ d \in CacheRecord /\ d.trie = b.trie /\ d.activePath = c.activePath \cup {q} /\ d.caches = b.caches
        /\ d.pagedOutBytes = b.pagedOutBytes
    BY <1>2, <2>2, <2>3 DEF CacheRecord
  <2>5. d.trie[q].snaps = NoSnaps
    BY <2>3, <2>4, NewNodeIs
  <2>6. Counted(d)
    BY <2>3, <2>4 DEF Counted
  <2>7. n = <<>> \/ HasKeys(c.trie[n].snaps)
    BY <1>1, <1>4 DEF KeysBacked, HasSnapshots
  <2>8. /\ DOMAIN d.trie = (DOMAIN c.trie \ {}) \cup {q} /\ d.activePath = (c.activePath \ {}) \cup {q}
        /\ \A m \in DOMAIN c.trie \ {} : d.trie[m] = c.trie[m]
    BY <2>3, <2>4
  <2>9. d.caches = c.caches
    BY <2>3, <2>4
  <2>10. CameTo(c, d, q)
    BY <2>4, <2>5, <2>6, <2>7, <2>8, <2>9, GrownGood
  <2> QED
    BY <2>10 DEF d
<1>5. CASE n # <<>> /\ Children(c.trie, n) = {} /\ c.trie[n].snaps = NoSnaps
  <2> DEFINE D == (DOMAIN c.trie \ {n}) \cup {q}
             u == [m \in D |-> c.trie[IF m = q THEN n ELSE m]]
  <2>1. d = [c EXCEPT !.trie = u, !.activePath = (c.activePath \ {n}) \cup {q}]
    BY <1>5 DEF AppendTokens, HasSnapshots
  <2>2. D \in SUBSET Seq(Tokens) /\ \A m \in D : (IF m = q THEN n ELSE m) \in DOMAIN c.trie
    BY <1>1, <1>2
  <2>3. u \in [D -> NodeRecord]
    <3> HIDE DEF D
    <3> QED
      BY <1>2, <2>2
  <2>4. u[q] = c.trie[n] /\ \A m \in DOMAIN c.trie \ {n} : u[m] = c.trie[m]
    BY <1>3
  <2>5. u \in AnyTrie /\ DOMAIN u = D
    <3> HIDE DEF u, D
    <3> QED
      BY <2>2, <2>3, IsTrie
  <2> HIDE DEF u, d
  <2>6. (c.activePath \ {n}) \cup {q} \in SUBSET Seq(Tokens)
    BY <1>2
  <2>7. /\ d \in CacheRecord /\ d.trie = u /\ d.activePath = (c.activePath \ {n}) \cup {q} /\ d.caches = c.caches
        /\ d.pagedOutBytes = c.pagedOutBytes
    <3> HIDE DEF D
    <3> QED
      BY <1>1, <1>2, <2>1, <2>5, <2>6 DEF CacheRecord
  <2>8. Counted(d)
    <3>1. HeldBy(u[q].snaps) = {} /\ HeldBy(c.trie[n].snaps) = {}
      BY <1>5, <2>4, NothingHeld
    <3>2. AllHeld(u) = UNION {{m} \X HeldBy(c.trie[m].snaps) : m \in DOMAIN c.trie \ {n}}
      BY <2>4, <2>5, <3>1 DEF AllHeld
    <3>3. AllHeld(c.trie) = UNION {{m} \X HeldBy(c.trie[m].snaps) : m \in DOMAIN c.trie \ {n}}
      BY <1>1, <3>1 DEF AllHeld
    <3> QED
      BY <1>1, <2>7, <3>2, <3>3 DEF Counted
  <2>9. d.trie[q].snaps = NoSnaps
    BY <1>5, <2>4, <2>7
  <2>10. DOMAIN d.trie = (DOMAIN c.trie \ {n}) \cup {q} /\ \A m \in DOMAIN c.trie \ {n} : d.trie[m] = c.trie[m]
    BY <2>4, <2>5, <2>7
  <2>11. {n} \cap Points(c.trie) = {}
    BY <1>5, NoPoint
  <2>12. CameTo(c, d, q)
    BY <1>5, <2>7, <2>8, <2>9, <2>10, <2>11, GrownGood
  <2> QED
    BY <2>12 DEF d
<1> QED
  BY <1>4, <1>5 DEF HasSnapshots

\* What advancePath does with the tokens that are in no edge.
LEMMA ExtendIs ==
  ASSUME kinds \in Models, NEW c, NEW n, Good(c, n), NEW q \in Seq(Tokens), Farthest(c.trie, n, q)
  PROVE  CameTo(c, Extend(c, n, q), q)
<1>1. CASE n = q
  BY <1>1 DEF Extend, CameTo
<1>2. CASE n # q /\ Children(c.trie, n) = {} /\ ~c.trie[n].user
  <2> DEFINE b == SetSnapshots(c, n, NoSnaps)
  <2>1. /\ c \in CacheRecord /\ TrieShape(DOMAIN c.trie) /\ n \in DOMAIN c.trie /\ GoodTrie(c.trie)
        /\ KeysBacked(c.trie, n) /\ Counted(c) /\ c.activePath = PathTo(c.trie, n) /\ IsFiniteSet(DOMAIN c.trie)
    BY DEF Good, GoodTrie, EndsAt, TrieShape
  <2>2. SetOn(c, b, n, NoSnaps)
    BY <2>1, NothingHeld, SetSnapshotsIs
  <2>3. Extend(c, n, q) = AppendTokens(b, n, q)
    BY <1>2 DEF Extend
  <2> HIDE DEF b
  <2>4. /\ b \in CacheRecord /\ DOMAIN b.trie = DOMAIN c.trie /\ b.trie[n].snaps = NoSnaps
        /\ (\A m \in DOMAIN c.trie \ {n} : b.trie[m] = c.trie[m])
        /\ (\A m \in DOMAIN c.trie \ {n} : b.trie[m].snaps = c.trie[m].snaps)
        /\ b.activePath = c.activePath /\ b.caches = c.caches /\ Counted(b)
    BY <2>1, <2>2 DEF SetOn
  <2>5. GoodTrie(b.trie) /\ (SnapsTrue(c.trie) => SnapsTrue(b.trie))
    <3>1. /\ \A l \in Layers : Fits(l, n, StartOffset(c.trie, n), b.trie[n].snaps[l])
          /\ \A l \in Layers : TrueSnap(l, n, b.trie[n].snaps[l])
          /\ Together(b.trie[n].snaps)
      BY <2>4, NoSnapsFit
    <3> QED
      BY <2>1, <2>4, <3>1, GoodSnaps
  <2>6. Good(b, n)
    <3>1. EndsAt(b, n)
      BY <2>1, <2>4, SameNodes DEF EndsAt
    <3>2. KeysBacked(b.trie, n)
      <4>1. Children(b.trie, n) = {}
        BY <1>2, <2>4, SameNodes
      <4> QED
        BY <2>1, <2>4, <4>1 DEF KeysBacked
    <3> QED
      BY <2>4, <2>5, <3>1, <3>2 DEF Good
  <2>7. Farthest(b.trie, n, q)
    BY <2>4 DEF Farthest
  <2>8. CameTo(b, AppendTokens(b, n, q), q)
    BY <1>2, <2>6, <2>7, AppendIs
  <2>9. Points(c.trie) \subseteq Points(b.trie)
    <3>1. Points(c.trie) \ {n} \subseteq Points(b.trie)
      BY <2>4, SamePoints
    <3>2. n \notin Points(c.trie)
      BY <1>2 DEF Points
    <3> QED
      BY <3>1, <3>2
  <2> QED
    BY <2>3, <2>4, <2>5, <2>8, <2>9 DEF CameTo
<1>3. CASE n # q /\ ~(Children(c.trie, n) = {} /\ ~c.trie[n].user)
  <2>1. Extend(c, n, q) = AppendTokens(c, n, q)
    BY <1>3 DEF Extend
  <2> QED
    BY <1>3, <2>1, AppendIs
<1> QED
  BY <1>1, <1>2, <1>3

-----------------------------------------------------------------------------
(* The active path goes on *)

\* The path has gone on along the trie, as far as it agrees with q.
WentTo(c, d, dest, q) ==
  /\ Good(d, dest) /\ d.caches = c.caches /\ Farthest(d.trie, dest, q)
  /\ Points(c.trie) \subseteq Points(d.trie)
  /\ SnapsTrue(c.trie) => SnapsTrue(d.trie)

\* Along nodes that match in full.
LEMMA AlongNodes ==
  ASSUME kinds \in Models, NEW c, NEW f, Good(c, f), NEW q \in Seq(Tokens), IsPrefix(f, q),
         NEW match, NEW last \in DOMAIN c.trie, Matches(c.trie, f, q, match, last),
         match.path = {m \in PathTo(c.trie, q) : Len(m) >= Len(f)}, match.matched = Len(last)
  PROVE  /\ Longest(match.path) = last /\ UpTo(q, match.matched) = last
         /\ WentTo(c, GoAlong(c, match, last, last), last, q)
<1> DEFINE t == c.trie
           d == GoAlong(c, match, last, last)
<1>1. /\ c \in CacheRecord /\ GoodTrie(t) /\ TrieShape(DOMAIN t) /\ f \in DOMAIN t
      /\ c.activePath = PathTo(t, f) /\ KeysBacked(t, f) /\ Counted(c)
  BY DEF Good, GoodTrie, EndsAt
<1>2. /\ last \in PathTo(t, q) /\ Len(last) >= Len(f) /\ \A m \in PathTo(t, q) : Len(m) <= Len(last)
      /\ \A m \in DOMAIN t : \A i \in 0 .. Len(m) :
           i <= Len(q) /\ UpTo(m, i) = UpTo(q, i) => i <= match.matched
  BY DEF Matches
<1>3. /\ DOMAIN t \subseteq Seq(Tokens) /\ last \in Seq(Tokens) /\ f \in Seq(Tokens)
      /\ Len(last) \in Nat /\ Len(f) \in Nat /\ IsPrefix(last, q) /\ last = UpTo(q, Len(last))
      /\ IsPrefix(f, last)
  <2>1. DOMAIN t \subseteq Seq(Tokens) /\ last \in Seq(Tokens) /\ f \in Seq(Tokens)
    BY <1>1 DEF TrieShape
  <2>2. Len(last) \in Nat /\ Len(f) \in Nat /\ IsPrefix(last, q)
    BY <1>1, <1>2, <2>1, UpToWhole, PathIs
  <2> QED
    BY <1>2, <2>1, <2>2, PrefixIs, PrefixComparable
<1>4. Longest(match.path) = last
  <2>1. match.path \in SUBSET Seq(Tokens) /\ last \in match.path
    BY <1>1, <1>2, PathIs
  <2>2. (\A m \in match.path : IsPrefix(m, q)) /\ \A m \in match.path : Len(m) <= Len(last)
    BY <1>1, <1>2, PathIs
  <2> QED
    BY <2>1, <2>2, LongestOf
<1>5. c.activePath \cup (match.path \ {last}) \cup {last} = PathTo(t, last)
  <2>1. ASSUME NEW m \in DOMAIN t PROVE IsPrefix(m, q) <=> IsPrefix(m, last)
    <3>1. IsPrefix(m, q) => Len(m) <= Len(last)
      BY <1>1, <1>2, PathIs
    <3> QED
      BY <1>3, <3>1, PrefixTrans, PrefixComparable
  <2>2. ASSUME NEW m \in DOMAIN t PROVE m \in PathTo(t, f) <=> IsPrefix(m, q) /\ ~ Len(m) > Len(f)
    <3>1. m \in Seq(Tokens) /\ Len(m) \in Nat
      BY <1>3, UpToWhole
    <3>2. IsPrefix(m, f) => IsPrefix(m, q) /\ Len(m) <= Len(f)
      BY <1>3, <3>1, PrefixTrans, PrefixIs
    <3>3. IsPrefix(m, q) /\ Len(m) <= Len(f) => IsPrefix(m, f)
      BY <1>3, <3>1, PrefixComparable
    <3> QED
      BY <1>3, <3>1, <3>2, <3>3 DEF PathTo
  <2>3. ASSUME NEW m \in DOMAIN t PROVE m \in match.path <=> IsPrefix(m, q) /\ Len(m) >= Len(f)
    BY DEF PathTo
  <2>4. ASSUME NEW m \in DOMAIN t PROVE m \in PathTo(t, last) <=> IsPrefix(m, last)
    BY DEF PathTo
  <2>5. ASSUME NEW m \in DOMAIN t PROVE Len(m) > Len(f) => Len(m) >= Len(f)
    BY <1>3, UpToWhole
  <2>6. last \in PathTo(t, last) /\ match.path \subseteq DOMAIN t /\ PathTo(t, f) \subseteq DOMAIN t /\ PathTo(t, last) \subseteq DOMAIN t
    BY <1>1, PathEnd DEF PathTo
  <2>7. \A m \in DOMAIN t : m \in PathTo(t, f) \/ m \in match.path <=> m \in PathTo(t, last)
    BY <2>1, <2>2, <2>3, <2>4, <2>5
  <2> QED
    BY <1>1, <2>6, <2>7
<1>6. d = [c EXCEPT !.activePath = PathTo(t, last)]
  BY <1>5 DEF GoAlong
<1> HIDE DEF d
<1>7. /\ d \in CacheRecord /\ d.trie = t /\ d.activePath = PathTo(t, last) /\ d.caches = c.caches
      /\ d.pagedOutBytes = c.pagedOutBytes
  <2>1. PathTo(t, last) \in SUBSET Seq(Tokens)
    BY <1>1, <1>3, PathIs
  <2> QED
    BY <1>1, <1>6, <2>1 DEF CacheRecord
<1>8. KeysBacked(t, last)
  <2>1. CASE last = f
    BY <1>1, <2>1
  <2>2. CASE last # f
    <3>1. Children(t, f) # {}
      BY <1>1, <1>3, <2>2, LeafAlone
    <3> QED
      BY <1>1, <3>1 DEF KeysBacked
  <2> QED
    BY <2>1, <2>2
<1>9. Farthest(t, last, q)
  BY <1>2, <1>3 DEF Farthest
<1>10. Good(d, last)
  BY <1>1, <1>7, <1>8 DEF Good, EndsAt, Counted
<1> QED
  BY <1>3, <1>4, <1>7, <1>9, <1>10 DEF WentTo, d

\* Along an edge that matches in part, and is split.
LEMMA AlongEdge ==
  ASSUME kinds \in Models, NEW c, NEW f, Good(c, f), NEW q \in Seq(Tokens), IsPrefix(f, q),
         NEW match, NEW last \in DOMAIN c.trie, Matches(c.trie, f, q, match, last),
         NEW best \in Children(c.trie, last),
         match.path = {m \in PathTo(c.trie, q) : Len(m) >= Len(f)} \cup {best},
         Len(last) < match.matched, match.matched < Len(best),
         UpTo(best, match.matched) = UpTo(q, match.matched),
         UpTo(q, match.matched) \notin DOMAIN c.trie
  PROVE  /\ Longest(match.path) = best
         /\ WentTo(c, GoAlong(c, match, best, UpTo(q, match.matched)), UpTo(q, match.matched), q)
<1> DEFINE t == c.trie
           full == {m \in PathTo(t, q) : Len(m) >= Len(f)}
           p == UpTo(q, match.matched)
           s == SplitNode(c, best, match.matched)
           d == GoAlong(c, match, best, p)
<1>1. /\ c \in CacheRecord /\ GoodTrie(t) /\ TrieShape(DOMAIN t) /\ f \in DOMAIN t
      /\ c.activePath = PathTo(t, f) /\ KeysBacked(t, f) /\ Counted(c)
  BY DEF Good, GoodTrie, EndsAt
<1>2. /\ last \in PathTo(t, q) /\ Len(last) >= Len(f) /\ \A m \in PathTo(t, q) : Len(m) <= Len(last)
      /\ match.matched \in 0 .. Len(q)
      /\ \A m \in DOMAIN t : \A i \in 0 .. Len(m) :
           i <= Len(q) /\ UpTo(m, i) = UpTo(q, i) => i <= match.matched
  BY DEF Matches
<1>3. /\ DOMAIN t \subseteq Seq(Tokens) /\ last \in Seq(Tokens) /\ f \in Seq(Tokens)
      /\ Len(last) \in Nat /\ Len(f) \in Nat /\ IsPrefix(last, q) /\ Len(q) \in Nat
      /\ IsPrefix(f, last)
  <2>1. DOMAIN t \subseteq Seq(Tokens) /\ last \in Seq(Tokens) /\ f \in Seq(Tokens)
    BY <1>1 DEF TrieShape
  <2>2. Len(last) \in Nat /\ Len(f) \in Nat /\ IsPrefix(last, q)
    BY <1>1, <1>2, <2>1, UpToWhole, PathIs
  <2> QED
    BY <1>1, <1>2, <2>1, <2>2, PrefixComparable, UpToWhole
<1>4. /\ best \in DOMAIN t /\ best \in Seq(Tokens) /\ Len(best) \in Nat /\ Len(last) < Len(best)
      /\ IsPrefix(last, best) /\ best # <<>>
  BY <1>1, ChildOf
<1>5. p \in Seq(Tokens) /\ Len(p) = match.matched /\ IsPrefix(p, q) /\ match.matched \in Nat
  BY <1>2, <1>3, UpToIs, UpToPrefix
<1>6. Longest(match.path) = best
  <2>1. \A m \in match.path : m = best \/ (Len(m) <= Len(last) /\ Len(m) \in Nat)
    BY <1>1, <1>2, <1>3, PathIs, UpToWhole
  <2>2. best \in match.path /\ \A m \in match.path : Len(m) <= Len(best)
    BY <1>3, <1>4, <2>1
  <2>3. \A m \in match.path : m # best => ~ Len(best) <= Len(m)
    BY <1>3, <1>4, <2>1
  <2>4. \A m \in match.path : (\A o \in match.path : Len(o) <= Len(m)) => m = best
    BY <2>2, <2>3
  <2> QED
    BY <2>2, <2>4 DEF Longest
<1>7. SplitOn(c, s, best, p)
  <2>1. SplitOn(c, s, best, UpTo(best, match.matched))
    BY <1>1, <1>5, SplitIs
  <2> QED
    BY <2>1
<1>8. p # best
  BY <1>4
<1>9. d = [s EXCEPT !.activePath = @ \cup (match.path \ {best}) \cup {p}]
  BY <1>8 DEF GoAlong
<1> HIDE DEF s, d, p
<1>10. /\ s \in CacheRecord /\ GoodTrie(s.trie) /\ Counted(s) /\ DOMAIN s.trie = DOMAIN t \cup {p}
       /\ (\A m \in DOMAIN t \ {best} : s.trie[m] = t[m])
       /\ (HasKeys(t[best].snaps) => HasKeys(s.trie[best].snaps) /\ HasKeys(s.trie[p].snaps))
       /\ s.activePath = PathTo(t, f) /\ s.caches = c.caches
       /\ Points(t) \subseteq Points(s.trie)
       /\ (SnapsTrue(t) => SnapsTrue(s.trie))
  BY <1>1, <1>7 DEF SplitOn
<1>11. PathTo(t, f) \cup (match.path \ {best}) \cup {p} = PathTo(s.trie, p)
  <2>1. ASSUME NEW m \in DOMAIN t PROVE IsPrefix(m, q) <=> IsPrefix(m, p)
    <3>1. m \in Seq(Tokens) /\ Len(m) \in Nat
      BY <1>3, UpToWhole
    <3>2. IsPrefix(m, q) => Len(m) <= Len(last)
      BY <1>1, <1>2, PathIs
    <3>3. IsPrefix(m, q) => Len(m) <= Len(p)
      BY <1>3, <1>5, <3>1, <3>2
    <3> QED
      BY <1>3, <1>5, <3>1, <3>3, PrefixTrans, PrefixComparable
  <2>2. ASSUME NEW m \in DOMAIN t PROVE m \in PathTo(t, f) <=> IsPrefix(m, q) /\ ~ Len(m) > Len(f)
    <3>1. m \in Seq(Tokens) /\ Len(m) \in Nat
      BY <1>3, UpToWhole
    <3>2. IsPrefix(m, f) => IsPrefix(m, q) /\ Len(m) <= Len(f)
      BY <1>3, <3>1, PrefixTrans, PrefixIs
    <3>3. IsPrefix(m, q) /\ Len(m) <= Len(f) => IsPrefix(m, f)
      BY <1>3, <3>1, PrefixComparable
    <3> QED
      BY <1>3, <3>1, <3>2, <3>3 DEF PathTo
  <2>3. best \notin full
    <3>1. best \notin PathTo(t, q)
      BY <1>2, <1>3, <1>4
    <3> QED
      BY <3>1
  <2>4. match.path \ {best} = full
    BY <2>3
  <2>5. ASSUME NEW m \in DOMAIN t PROVE m \in full <=> IsPrefix(m, q) /\ Len(m) >= Len(f)
    BY DEF PathTo
  <2>6. ASSUME NEW m \in DOMAIN t PROVE Len(m) > Len(f) => Len(m) >= Len(f)
    BY <1>3, UpToWhole
  <2>7. full \subseteq DOMAIN t /\ PathTo(t, f) \subseteq DOMAIN t
    BY DEF PathTo
  <2>8. \A m \in DOMAIN t : m \in PathTo(t, f) \/ m \in full <=> IsPrefix(m, p)
    <3> HIDE DEF full
    <3> QED
      BY <2>1, <2>2, <2>5, <2>6
  <2>9. PathTo(s.trie, p) = {m \in DOMAIN t : IsPrefix(m, p)} \cup {p}
    <3>1. IsPrefix(p, p)
      BY <1>5, PrefixSelf
    <3> QED
      BY <1>10, <3>1 DEF PathTo
  <2> HIDE DEF full
  <2> QED
    BY <2>4, <2>7, <2>8, <2>9
<1>12. /\ d \in CacheRecord /\ d.trie = s.trie /\ d.activePath = PathTo(s.trie, p) /\ d.caches = c.caches
       /\ d.pagedOutBytes = s.pagedOutBytes
  <2>1. TrieShape(DOMAIN s.trie)
    BY <1>10 DEF GoodTrie
  <2>2. PathTo(s.trie, p) \in SUBSET Seq(Tokens)
    BY <1>5, <2>1, PathIs
  <2> QED
    BY <1>9, <1>10, <1>11, <2>2 DEF CacheRecord
<1>13. KeysBacked(s.trie, p)
  <2>1. IsPrefix(f, best) /\ f # best
    BY <1>2, <1>3, <1>4, PrefixTrans
  <2>2. Children(t, f) # {}
    BY <1>1, <1>4, <2>1, LeafAlone
  <2>3. \A m \in DOMAIN t \ {<<>>} : HasKeys(t[m].snaps)
    BY <1>1, <2>2 DEF KeysBacked
  <2>4. ASSUME NEW m \in DOMAIN s.trie \ {<<>>} PROVE HasKeys(s.trie[m].snaps)
    <3>1. CASE m = best \/ m = p
      BY <1>4, <1>10, <2>3, <3>1
    <3>2. CASE m # best /\ m # p
      BY <1>10, <2>3, <3>2
    <3> QED
      BY <3>1, <3>2
  <2> QED
    BY <2>4 DEF KeysBacked
<1>14. Farthest(s.trie, p, q)
  <2>1. ASSUME NEW m \in DOMAIN s.trie, NEW i \in 0 .. Len(m), i <= Len(q), UpTo(m, i) = UpTo(q, i) PROVE i <= Len(p)
    <3>1. CASE m = p
      BY <1>5, <2>1, <3>1
    <3>2. CASE m # p
      BY <1>2, <1>5, <1>10, <2>1, <3>2
    <3> QED
      BY <3>1, <3>2
  <2> QED
    BY <1>5, <1>10, <2>1 DEF Farthest
<1>15. Good(d, p)
  BY <1>10, <1>12, <1>13 DEF Good, EndsAt, Counted
<1> QED
  BY <1>6, <1>10, <1>12, <1>14, <1>15 DEF WentTo, d, p

\* What advancePath does.
LEMMA AdvanceIs ==
  ASSUME kinds \in Models, NEW c, NEW f, Good(c, f), NEW q \in Seq(Tokens), IsPrefix(f, q)
  PROVE  CameTo(c, AdvancePath(c, q), q)
<1> DEFINE match == FindBestMatch(c.trie, f, q)
           dest == UpTo(q, match.matched)
           d == GoAlong(c, match, Longest(match.path), dest)
<1>1. TrieShape(DOMAIN c.trie) /\ f \in DOMAIN c.trie /\ c.activePath = PathTo(c.trie, f)
  BY DEF Good, GoodTrie, EndsAt
<1>2. Frontier(c) = f
  BY <1>1, PathEnd DEF Frontier
<1>3. AdvancePath(c, q) = Extend(d, dest, q)
  BY <1>2 DEF AdvancePath, Follow
<1>4. PICK last \in DOMAIN c.trie : Matches(c.trie, f, q, match, last)
  BY <1>1, BestMatchIs
<1> HIDE DEF match
<1>5. WentTo(c, d, dest, q)
  <2>1. CASE match.path = {m \in PathTo(c.trie, q) : Len(m) >= Len(f)} /\ match.matched = Len(last)
    <3>1. /\ Longest(match.path) = last /\ UpTo(q, match.matched) = last
          /\ WentTo(c, GoAlong(c, match, last, last), last, q)
      BY <1>4, <2>1, AlongNodes
    <3> QED
      BY <3>1
  <2>2. ASSUME NEW best \in Children(c.trie, last),
               match.path = {m \in PathTo(c.trie, q) : Len(m) >= Len(f)} \cup {best},
               Len(last) < match.matched, match.matched < Len(best),
               UpTo(best, match.matched) = UpTo(q, match.matched),
               UpTo(q, match.matched) \notin DOMAIN c.trie
        PROVE  WentTo(c, d, dest, q)
    <3>1. /\ Longest(match.path) = best
          /\ WentTo(c, GoAlong(c, match, best, UpTo(q, match.matched)), UpTo(q, match.matched), q)
      BY <1>4, <2>2, AlongEdge
    <3> QED
      BY <3>1
  <2> QED
    BY <1>4, <2>1, <2>2 DEF Matches
<1> HIDE DEF d, dest
<1>6. CameTo(d, Extend(d, dest, q), q)
  BY <1>5, ExtendIs DEF WentTo
<1> QED
  BY <1>3, <1>5, <1>6 DEF CameTo, WentTo

-----------------------------------------------------------------------------
(* Snapshots are taken *)

\* What does not touch the snapshots, the path or the counter.
LEMMA SameSnaps ==
  ASSUME NEW c, NEW f, Good(c, f), NEW d \in CacheRecord, DOMAIN d.trie = DOMAIN c.trie,
         \A m \in DOMAIN c.trie : d.trie[m].snaps = c.trie[m].snaps,
         d.activePath = c.activePath, d.pagedOutBytes = c.pagedOutBytes
  PROVE  Good(d, f) /\ (SnapsTrue(c.trie) => SnapsTrue(d.trie))
<1>1. /\ GoodTrie(c.trie) /\ SnapsFit(c.trie) /\ SnapsTogether(c.trie) /\ KeysBacked(c.trie, f) /\ Counted(c)
      /\ TrieShape(DOMAIN c.trie) /\ EndsAt(c, f)
  BY DEF Good, GoodTrie
<1>2. /\ \A q : PathTo(d.trie, q) = PathTo(c.trie, q)
      /\ \A n : StartOffset(d.trie, n) = StartOffset(c.trie, n)
      /\ \A n : Children(d.trie, n) = Children(c.trie, n)
  BY SameNodes
<1>3. SnapsFit(d.trie)
  BY <1>1, <1>2 DEF SnapsFit
<1>4. SnapsTogether(d.trie)
  BY <1>1 DEF SnapsTogether
<1>5. KeysBacked(d.trie, f)
  BY <1>1, <1>2 DEF KeysBacked
<1>6. AllHeld(d.trie) = AllHeld(c.trie)
  BY DEF AllHeld
<1>7. Counted(d)
  BY <1>1, <1>6 DEF Counted
<1>8. SnapsTrue(c.trie) => SnapsTrue(d.trie)
  BY DEF SnapsTrue
<1>9. EndsAt(d, f)
  BY <1>1, <1>2 DEF EndsAt
<1> QED
  BY <1>1, <1>3, <1>4, <1>5, <1>7, <1>8, <1>9 DEF Good, GoodTrie

\* The frontier is the last node of the active path.
LEMMA FrontierIs ==
  ASSUME NEW c, NEW f, Good(c, f)
  PROVE  Frontier(c) = f /\ f \in DOMAIN c.trie /\ f \in Seq(Tokens) /\ Len(f) \in Nat
BY PathEnd DEF Frontier, Good, GoodTrie, EndsAt

\* Marking a node for a user changes no snapshot.
LEMMA MarkUserIs ==
  ASSUME kinds \in Models, NEW c, NEW f, Good(c, f), NEW user \in BOOLEAN
  PROVE  CameTo(c, MarkUser(c, user), f)
<1> DEFINE b == c.trie[f].user \/ user
           u == [c.trie EXCEPT ![f] = [snaps |-> c.trie[f].snaps, user |-> b]]
           d == MarkUser(c, user)
<1>1. c \in CacheRecord /\ f \in DOMAIN c.trie /\ Frontier(c) = f
  BY FrontierIs DEF Good
<1>2. /\ c.trie \in AnyTrie /\ c.activePath \in SUBSET Seq(Tokens)
      /\ c.caches \in [Layers -> Cells] /\ c.pagedOutBytes \in Int
      /\ DOMAIN c.trie \subseteq Seq(Tokens) /\ c.trie \in [DOMAIN c.trie -> NodeRecord]
      /\ c.trie[f].snaps \in AnySnaps /\ c.trie[f].user \in BOOLEAN
  BY <1>1, CacheIs, TrieIs
<1>3. [c.trie[f] EXCEPT !.user = @ \/ user] = [snaps |-> c.trie[f].snaps, user |-> b]
  <2>1. PICK r \in NodeRecord : r = c.trie[f]
    BY <1>1, <1>2
  <2>2. [r EXCEPT !.user = @ \/ user] = [snaps |-> r.snaps, user |-> r.user \/ user]
    BY DEF NodeRecord
  <2> QED
    BY <2>1, <2>2
<1>4. d = [c EXCEPT !.trie = u]
  BY <1>1, <1>3 DEF MarkUser
<1>5. [snaps |-> c.trie[f].snaps, user |-> b] \in NodeRecord
  BY <1>2 DEF NodeRecord
<1>6. u \in AnyTrie /\ DOMAIN u = DOMAIN c.trie
  <2>1. u \in [DOMAIN c.trie -> NodeRecord]
    <3> HIDE DEF NodeRecord, b
    <3> QED
      BY <1>1, <1>2, <1>5
  <2> QED
    BY <1>2, <2>1, IsTrie
<1>7. u[f] = [snaps |-> c.trie[f].snaps, user |-> b] /\ \A m \in DOMAIN c.trie \ {f} : u[m] = c.trie[m]
  BY <1>1, <1>2
<1>8. \A m \in DOMAIN c.trie : u[m].snaps = c.trie[m].snaps
  BY <1>7
<1>08. Points(c.trie) \subseteq Points(u)
  <2>1. \A m \in DOMAIN c.trie : c.trie[m].user => u[m].user
    BY <1>7
  <2>2. \A m \in DOMAIN c.trie : HasAllSnapshots(c.trie[m]) => HasAllSnapshots(u[m])
    BY <1>8 DEF HasAllSnapshots
  <2> HIDE DEF u
  <2> QED
    BY <1>6, <2>1, <2>2 DEF Points
<1> HIDE DEF u, b, d
<1>9. /\ d \in CacheRecord /\ d.trie = u /\ d.pagedOutBytes = c.pagedOutBytes
      /\ d.activePath = c.activePath /\ d.caches = c.caches
  BY <1>1, <1>2, <1>4, <1>6 DEF CacheRecord
<1>10. Good(d, f) /\ (SnapsTrue(c.trie) => SnapsTrue(d.trie))
  BY <1>6, <1>8, <1>9, SameSnaps
<1> QED
  BY <1>08, <1>9, <1>10 DEF CameTo, d

\* What the pipeline does where it wants a snapshot: the path comes to q.
LEMMA SnapshotTaken ==
  ASSUME kinds \in Models, NEW c, NEW f, Good(c, f), NEW q \in Seq(Tokens), IsPrefix(f, q),
         AllAt(c.caches, Len(q)), NEW user \in BOOLEAN
  PROVE  LET d == Snapshot(c, q, user)
         IN  /\ Good(d, q) /\ d.caches = c.caches
             /\ Points(c.trie) \subseteq Points(d.trie)
             /\ SnapsTrue(c.trie) /\ LiveOf(c.caches, q) => SnapsTrue(d.trie)
<1> DEFINE e == IF f = q THEN c ELSE AdvancePath(c, q)
           m == MarkUser(e, user)
<1>1. Frontier(c) = f /\ f \in Seq(Tokens) /\ Len(f) \in Nat /\ Len(q) \in Nat /\ Len(f) <= Len(q)
  BY FrontierIs, PrefixIs, UpToWhole
<1>2. CASE SnapshotThere(c, q)
  <2>1. Len(f) = Len(q)
    BY <1>1, <1>2 DEF SnapshotThere
  <2>2. IsPrefix(q, q)
    BY PrefixSelf
  <2>3. f = q
    BY <1>1, <2>1, <2>2, PrefixEqual
  <2>4. Snapshot(c, q, user) = MarkUser(c, user)
    BY <1>1, <1>2 DEF Snapshot
  <2>5. CameTo(c, MarkUser(c, user), q)
    BY <2>3, MarkUserIs
  <2> QED
    BY <2>4, <2>5 DEF CameTo
<1>3. CASE ~SnapshotThere(c, q)
  <2>1. Snapshot(c, q, user) = AttachSnapshots(m, q)
    BY <1>1, <1>3 DEF Snapshot
  <2>2. CameTo(c, e, q)
    BY AdvanceIs DEF CameTo
  <2> HIDE DEF e
  <2>3. CameTo(e, m, q)
    BY <2>2, MarkUserIs DEF CameTo
  <2> HIDE DEF m
  <2>4. /\ Good(m, q) /\ m.caches = c.caches /\ (SnapsTrue(c.trie) => SnapsTrue(m.trie))
        /\ Points(c.trie) \subseteq Points(m.trie)
    BY <2>2, <2>3 DEF CameTo
  <2>5. AllAt(m.caches, Len(q))
    BY <2>4
  <2> QED
    BY <2>1, <2>4, <2>5, AttachIs
<1> QED
  BY <1>2, <1>3

\* The leaf of the old path is paged out, or the new path goes through it.
LeftBehind(c, d, f, path, matched) ==
  /\ Good(d, f) /\ d.caches = c.caches
  /\ DOMAIN d.trie = DOMAIN c.trie
  /\ AllBacked(d.trie) \/ (f \in path /\ matched >= Len(f))
  /\ \A m \in DOMAIN c.trie : HasAllSnapshots(c.trie[m]) => d.trie[m] = c.trie[m]
  /\ Points(c.trie) \subseteq Points(d.trie)
  /\ SnapsTrue(c.trie) /\ LiveOf(c.caches, f) => SnapsTrue(d.trie)

\* switchToPath leaves a snapshot behind where the old path is left.
LEMMA PagedOutIs ==
  ASSUME kinds \in Models, NEW c, NEW f, Good(c, f), AllAt(c.caches, Len(f)), NEW path, NEW matched
  PROVE  LeftBehind(c, PagedOut(c, c.activePath \cap path, matched), f, path, matched)
<1> DEFINE d == PagedOut(c, c.activePath \cap path, matched)
<1>1. Frontier(c) = f /\ f \in c.activePath /\ f \in Seq(Tokens)
  BY FrontierIs, PathEnd DEF Good, GoodTrie, EndsAt
<1>2. CASE f \in path /\ matched >= Len(f)
  <2>1. d = c
    BY <1>1, <1>2 DEF PagedOut
  <2> QED
    BY <1>2, <2>1 DEF LeftBehind
<1>3. CASE ~(f \in path /\ matched >= Len(f)) /\ HasAllSnapshots(c.trie[f])
  <2>1. d = c
    BY <1>1, <1>3 DEF PagedOut
  <2>2. AllBacked(c.trie)
    <3>1. HasKeys(c.trie[f].snaps)
      BY <1>3 DEF HasAllSnapshots, HasKeys
    <3>2. KeysBacked(c.trie, f)
      BY DEF Good
    <3> QED
      BY <3>1, <3>2 DEF AllBacked, KeysBacked
  <2> QED
    BY <2>1, <2>2 DEF LeftBehind
<1>4. CASE ~(f \in path /\ matched >= Len(f)) /\ ~HasAllSnapshots(c.trie[f])
  <2>1. d = AttachSnapshots(c, f)
    BY <1>1, <1>4 DEF PagedOut
  <2> HIDE DEF d
  <2>2. /\ Good(d, f) /\ AllBacked(d.trie) /\ d.caches = c.caches /\ DOMAIN d.trie = DOMAIN c.trie
        /\ \A m \in DOMAIN c.trie \ {f} : d.trie[m] = c.trie[m]
        /\ Points(c.trie) \subseteq Points(d.trie)
        /\ SnapsTrue(c.trie) /\ LiveOf(c.caches, f) => SnapsTrue(d.trie)
    BY <2>1, AttachIs
  <2>3. \A m \in DOMAIN c.trie : HasAllSnapshots(c.trie[m]) => m # f
    BY <1>4
  <2> QED
    BY <2>2, <2>3 DEF LeftBehind, d
<1> QED
  BY <1>2, <1>3, <1>4

-----------------------------------------------------------------------------
(* Functions that are defined step by step *)

\* The states that a is taken through by N steps.
Steps(S, N) == [1 .. N -> [S -> S]]

\* f is defined from a step by step.
Stepped(f, S, a, N, step) ==
  f \in [0 .. N -> S] /\ f[0] = a /\ \A i \in 1 .. N : f[i] = step[i][f[i - 1]]

\* A function that is defined step by step exists: were there a first number up to which it
\* does not, one more step would give it.
LEMMA StepsExist ==
  ASSUME NEW S, NEW a \in S, NEW N \in Nat, NEW step \in Steps(S, N)
  PROVE  \E f : Stepped(f, S, a, N, step)
<1> USE DEF Steps, Stepped
<1> DEFINE Good1(f, n) == Stepped(f, S, a, n, step)
           Bad == {n \in 0 .. N : ~ \E f : Good1(f, n)}
<1>1. SUFFICES Bad = {}
  <2>1. N \in 0 .. N
    OBVIOUS
  <2>2. PICK f : Good1(f, N)
    BY <1>1, <2>1
  <2> QED
    BY <2>2
<1>2. SUFFICES ASSUME Bad # {} PROVE FALSE
  OBVIOUS
<1>3. PICK m \in Bad : \A k \in Bad : m <= k
  <2>1. Bad \in SUBSET Nat
    OBVIOUS
  <2> HIDE DEF Bad
  <2> QED
    BY <1>2, <2>1, LeastNat
<1>4. CASE m = 0
  <2>1. Good1([i \in 0 .. 0 |-> a], 0)
    OBVIOUS
  <2> QED
    BY <1>4, <2>1
<1>5. CASE m # 0
  <2>1. PICK n \in Nat : m = n + 1
    <3>1. m \in Nat /\ m - 1 \in Nat /\ m = (m - 1) + 1
      BY <1>5
    <3> QED
      BY <3>1
  <2>2. n \in 0 .. N /\ ~ m <= n /\ m \in 1 .. N
    BY <2>1
  <2>3. PICK g : Good1(g, n)
    BY <1>3, <2>2
  <2>4. step[m] \in [S -> S] /\ g[n] \in S
    BY <2>2, <2>3
  <2>5. step[m][g[n]] \in S
    BY <2>4
  <2> DEFINE h == [i \in 0 .. m |-> IF i = m THEN step[m][g[n]] ELSE g[i]]
  <2>6. h \in [0 .. m -> S]
    <3>1. \A i \in 0 .. m : i # m => i \in 0 .. n
      BY <2>1
    <3> QED
      BY <2>3, <2>5, <3>1
  <2>7. h[0] = a
    BY <1>5, <2>2, <2>3
  <2>8. ASSUME NEW i \in 1 .. m PROVE h[i] = step[i][h[i - 1]]
    <3>1. CASE i = m
      <4>1. h[m] = step[m][g[n]] /\ h[m - 1] = g[n] /\ m - 1 = n
        BY <2>1, <2>2
      <4> QED
        BY <3>1, <4>1
    <3>2. CASE i # m
      <4>1. i \in 1 .. n /\ i - 1 \in 0 .. m /\ i - 1 # m /\ i \in 0 .. m
        BY <2>1, <3>2
      <4>2. h[i] = g[i] /\ h[i - 1] = g[i - 1]
        BY <3>2, <4>1
      <4> QED
        BY <2>3, <4>1, <4>2
    <3> QED
      BY <3>1, <3>2
  <2> HIDE DEF h
  <2>9. Good1(h, m)
    BY <2>6, <2>7, <2>8
  <2> QED
    BY <2>9
<1> QED
  BY <1>4, <1>5

-----------------------------------------------------------------------------
(* The live caches go on *)

\* A function on 1 .. n is a sequence.
LEMMA FunIsSeq ==
  ASSUME NEW S, NEW n \in Nat, NEW f \in [1 .. n -> S]
  PROVE  f \in Seq(S) /\ Len(f) = n
OBVIOUS

\* A cache that takes n tokens holds what each kind keeps of them.
LEMMA AppendedIs ==
  ASSUME kinds \in Models, NEW l \in Layers, NEW live \in Cells, NEW s \in Seq(Tokens),
         NEW n \in Nat \ {0}, Len(live) + n <= Len(s)
  PROVE  LET d == Appended(l, live, s, n)
         IN  /\ d \in Cells /\ Len(d) = Len(live) + n
             /\ (\A i \in Kept(l, Len(live)) : live[i] = UpTo(s, i)) =>
                  \A i \in Kept(l, Len(live) + n) : d[i] = UpTo(s, i)
<1> DEFINE d == Appended(l, live, s, n)
<1>1. /\ Len(live) \in Nat /\ Len(s) \in Nat /\ Len(live) + n \in Nat
      /\ \A i \in 1 .. Len(live) : live[i] \in Seq(Tokens)
      /\ kinds[l] \in {"kv", "rotating", "recurrent"} /\ Window \in Nat \ {0}
  BY UpToWhole, LayersAre, CacheAssumption DEF Cells
<1>2. \A i \in 1 .. Len(live) + n : UpTo(s, i) \in Seq(Tokens)
  <2>1. \A i \in 1 .. Len(live) + n : i \in 0 .. Len(s)
    BY <1>1
  <2> QED
    BY <2>1, UpToIs
<1>3. d = [i \in 1 .. Len(live) + n |->
             IF i < FirstKept(l, Len(live), n) THEN Lost
             ELSE IF i <= Len(live) THEN live[i] ELSE UpTo(s, i)]
  BY DEF Appended
<1>4. Lost \in Seq(Tokens)
  BY EmptySeq DEF Lost
<1> HIDE DEF d
<1>5. \A i \in 1 .. Len(live) + n : d[i] \in Seq(Tokens)
  BY <1>1, <1>2, <1>3, <1>4
<1>6. d \in Cells /\ Len(d) = Len(live) + n
  <2>1. d \in [1 .. Len(live) + n -> Seq(Tokens)]
    BY <1>3, <1>5
  <2> QED
    BY <1>1, <2>1, FunIsSeq DEF Cells
<1>7. ASSUME \A i \in Kept(l, Len(live)) : live[i] = UpTo(s, i), NEW i \in Kept(l, Len(live) + n)
      PROVE  d[i] = UpTo(s, i)
  <2>1. i \in 1 .. Len(live) + n
    BY DEF Kept
  <2>2. /\ ~ i < FirstKept(l, Len(live), n)
        /\ i <= Len(live) => i \in Kept(l, Len(live))
    <3>1. PICK o \in Nat : o = Len(live)
      BY <1>1
    <3>2. CASE kinds[l] = "kv"
      BY <2>1, <3>1, <3>2 DEF FirstKept, Kept
    <3>3. CASE kinds[l] = "rotating"
      <4>1. i + Window > o + n
        BY <3>1, <3>3 DEF Kept
      <4>2. FirstKept(l, Len(live), n) = IF n = 1 THEN o + 2 - Window ELSE IF o = 0 THEN 1 ELSE o + 2 - Window
        BY <3>1, <3>3 DEF FirstKept
      <4>3. ~ i < FirstKept(l, Len(live), n)
        BY <1>1, <2>1, <3>1, <4>1, <4>2
      <4>4. i <= o => i \in 1 .. o /\ i + Window > o
        BY <1>1, <2>1, <3>1, <4>1
      <4> QED
        BY <3>1, <3>3, <4>3, <4>4 DEF Kept
    <3>4. CASE kinds[l] = "recurrent"
      BY <1>1, <2>1, <3>1, <3>4 DEF FirstKept, Kept
    <3> QED
      BY <1>1, <3>2, <3>3, <3>4
  <2> QED
    BY <1>3, <1>7, <2>1, <2>2
<1> QED
  BY <1>6, <1>7 DEF d

\* The same for n tokens one by one: what is lost in between is not kept either.
LEMMA FedIs ==
  ASSUME kinds \in Models, NEW l \in Layers, NEW live \in Cells, NEW s \in Seq(Tokens),
         NEW n \in Nat, Len(live) + n <= Len(s)
  PROVE  LET d == Fed(l, live, s, n)
         IN  /\ d \in Cells /\ Len(d) = Len(live) + n
             /\ (\A i \in Kept(l, Len(live)) : live[i] = UpTo(s, i)) =>
                  \A i \in Kept(l, Len(live) + n) : d[i] = UpTo(s, i)
<1> DEFINE fed[i \in 0 .. n] == IF i = 0 THEN live ELSE Appended(l, fed[i - 1], s, 1)
           Next1(x) == IF Appended(l, x, s, 1) \in Cells THEN Appended(l, x, s, 1) ELSE x
           step == [i \in 1 .. n |-> [x \in Cells |-> Next1(x)]]
           On(x, i) == /\ x \in Cells /\ Len(x) = Len(live) + i
                       /\ (\A j \in Kept(l, Len(live)) : live[j] = UpTo(s, j)) =>
                            \A j \in Kept(l, Len(live) + i) : x[j] = UpTo(s, j)
<1>1. Len(live) \in Nat /\ Len(s) \in Nat
  BY UpToWhole DEF Cells
<1>2. ASSUME NEW i \in 1 .. n, NEW x, On(x, i - 1) PROVE On(Appended(l, x, s, 1), i)
  <2>1. x \in Cells /\ Len(x) = Len(live) + (i - 1) /\ Len(x) + 1 <= Len(s) /\ Len(x) + 1 = Len(live) + i
    BY <1>1, <1>2
  <2>2. /\ Appended(l, x, s, 1) \in Cells /\ Len(Appended(l, x, s, 1)) = Len(x) + 1
        /\ (\A j \in Kept(l, Len(x)) : x[j] = UpTo(s, j)) =>
             \A j \in Kept(l, Len(x) + 1) : Appended(l, x, s, 1)[j] = UpTo(s, j)
    BY <2>1, AppendedIs
  <2> QED
    BY <1>2, <2>1, <2>2
<1>3. On(live, 0)
  BY <1>1
<1>4. PICK f : Stepped(f, Cells, live, n, step)
  <2>1. step \in Steps(Cells, n)
    <3>1. \A x \in Cells : Next1(x) \in Cells
      OBVIOUS
    <3> HIDE DEF Next1
    <3> QED
      BY <3>1 DEF Steps
  <2> HIDE DEF step
  <2> QED
    BY <2>1, StepsExist
<1>04. f \in [0 .. n -> Cells] /\ f[0] = live /\ \A i \in 1 .. n : f[i] = step[i][f[i - 1]]
  BY <1>4 DEF Stepped
<1>5. \A i \in 1 .. n : f[i] = Next1(f[i - 1])
  <2> SUFFICES ASSUME NEW i \in 1 .. n PROVE f[i] = Next1(f[i - 1])
    OBVIOUS
  <2>1. f[i - 1] \in Cells
    <3>1. i - 1 \in 0 .. n
      OBVIOUS
    <3> QED
      BY <1>04, <3>1
  <2> HIDE DEF Next1
  <2> QED
    BY <1>04, <2>1
<1> HIDE DEF step
<1>6. \A i \in 0 .. n : On(f[i], i)
  <2> DEFINE Bad == {i \in 0 .. n : ~On(f[i], i)}
  <2>1. SUFFICES ASSUME Bad # {} PROVE FALSE
    OBVIOUS
  <2>2. PICK m \in Bad : \A k \in Bad : m <= k
    <3>1. Bad \in SUBSET Nat
      OBVIOUS
    <3> HIDE DEF Bad
    <3> QED
      BY <2>1, <3>1, LeastNat
  <2>3. m # 0
    BY <1>3, <1>04
  <2>4. m \in 1 .. n /\ m - 1 \in 0 .. n /\ ~ m <= m - 1
    BY <2>3
  <2>5. On(f[m - 1], m - 1)
    BY <2>2, <2>4
  <2> HIDE DEF On
  <2>6. On(Appended(l, f[m - 1], s, 1), m)
    BY <1>2, <2>4, <2>5
  <2>7. f[m] = Appended(l, f[m - 1], s, 1)
    <3>1. Appended(l, f[m - 1], s, 1) \in Cells
      BY <2>6 DEF On
    <3> QED
      BY <1>5, <2>4, <3>1
  <2> QED
    BY <2>6, <2>7
<1>7. f = [i \in 0 .. n |-> IF i = 0 THEN live ELSE Appended(l, f[i - 1], s, 1)]
  <2>1. ASSUME NEW i \in 1 .. n PROVE f[i] = Appended(l, f[i - 1], s, 1)
    <3>1. i - 1 \in 0 .. n
      OBVIOUS
    <3>2. On(f[i - 1], i - 1)
      BY <1>6, <3>1
    <3> HIDE DEF On
    <3>3. On(Appended(l, f[i - 1], s, 1), i)
      BY <1>2, <3>2
    <3>4. Appended(l, f[i - 1], s, 1) \in Cells
      BY <3>3 DEF On
    <3> QED
      BY <1>5, <3>4
  <2>2. \A i \in 0 .. n : f[i] = IF i = 0 THEN live ELSE Appended(l, f[i - 1], s, 1)
    BY <1>04, <2>1
  <2>3. f = [i \in 0 .. n |-> f[i]]
    BY <1>04
  <2> QED
    BY <2>2, <2>3
<1>8. fed = [i \in 0 .. n |-> IF i = 0 THEN live ELSE Appended(l, fed[i - 1], s, 1)]
  BY <1>7, Zenon
<1>9. Fed(l, live, s, n) = fed[n]
  BY DEF Fed
<1> HIDE DEF fed
<1>10. \A i \in 0 .. n : On(fed[i], i)
  <2> DEFINE Bad == {i \in 0 .. n : ~On(fed[i], i)}
  <2>1. SUFFICES ASSUME Bad # {} PROVE FALSE
    OBVIOUS
  <2>2. PICK m \in Bad : \A k \in Bad : m <= k
    <3>1. Bad \in SUBSET Nat
      OBVIOUS
    <3> HIDE DEF Bad
    <3> QED
      BY <2>1, <3>1, LeastNat
  <2> HIDE DEF On
  <2>3. \A i \in 0 .. n : fed[i] = IF i = 0 THEN live ELSE Appended(l, fed[i - 1], s, 1)
    BY <1>8
  <2>4. m # 0
    BY <1>3, <2>3
  <2>5. m \in 1 .. n /\ m - 1 \in 0 .. n /\ ~ m <= m - 1 /\ m \in 0 .. n
    BY <2>4
  <2>6. On(fed[m - 1], m - 1)
    BY <2>2, <2>5
  <2>7. fed[m] = Appended(l, fed[m - 1], s, 1)
    BY <2>3, <2>4, <2>5
  <2> QED
    BY <1>2, <2>5, <2>6, <2>7
<1>11. On(fed[n], n)
  <2>1. n \in 0 .. n
    OBVIOUS
  <2> QED
    BY <1>10, <2>1
<1> QED
  BY <1>9, <1>11

-----------------------------------------------------------------------------
(* A path is paged in *)

\* The walk of switchToPath over the path.
PageState == [live : [Layers -> Cells], failed : BOOLEAN]

\* Snapshots as they are attached to nodes: those of layers that do not keep all
\* cells start at the root.
WholeSnaps(snaps) ==
  snaps \in AnySnaps /\ \A l \in Layers : kinds[l] # "kv" /\ snaps[l] # None => snaps[l].from = 0

\* Restore puts the cells of the snapshot behind those that are there.
LEMMA RestoredIs ==
  ASSUME kinds \in Models, NEW l \in Layers, NEW live \in Cells, NEW s \in SnapRecord, NEW target \in Nat,
         Restores(l, live, s, target), kinds[l] # "kv" => s.from = 0
  PROVE  LET d == Restored(live, s, target)
         IN  /\ d \in Cells /\ Len(d) = target
             /\ \A i \in 1 .. target : d[i] = IF i <= s.from THEN live[i] ELSE s.cells[i - s.from]
<1> DEFINE a == UpTo(live, s.from)
           d == Restored(live, s, target)
<1>1. /\ live \in Seq(Seq(Tokens)) /\ Len(live) \in Nat /\ s.from \in Nat /\ s.cells \in Seq(Seq(Tokens))
      /\ Len(s.cells) \in Nat /\ End(s) = s.from + Len(s.cells)
      /\ kinds[l] \in {"kv", "rotating", "recurrent"}
  BY SnapIs, UpToWhole, LayersAre DEF Cells
<1>2. s.from \in 0 .. Len(live) /\ target <= s.from + Len(s.cells)
  <2>1. PICK e \in Nat : e = End(s) /\ e = s.from + Len(s.cells)
    BY <1>1
  <2>2. target <= e
    <3>1. CASE kinds[l] = "kv" \/ kinds[l] = "rotating"
      BY <2>1, <3>1 DEF Restores
    <3>2. CASE kinds[l] = "recurrent"
      <4>1. target = End(s)
        BY <3>2 DEF Restores
      <4>2. target = e
        BY <2>1, <4>1
      <4> QED
        BY <4>2
    <3> QED
      BY <1>1, <3>1, <3>2
  <2>3. s.from \in 0 .. Len(live)
    <3>1. CASE kinds[l] = "kv"
      BY <1>1, <3>1 DEF Restores
    <3>2. CASE kinds[l] # "kv"
      BY <1>1, <3>2
    <3> QED
      BY <3>1, <3>2
  <2> QED
    BY <2>1, <2>2, <2>3
<1>3. a \in Seq(Seq(Tokens)) /\ Len(a) = s.from /\ \A i \in 1 .. s.from : a[i] = live[i]
  BY <1>1, <1>2, UpToIs
<1>4. d = UpTo(a \o s.cells, target)
  BY DEF Restored
<1> HIDE DEF a, d
<1>5. /\ a \o s.cells \in Seq(Seq(Tokens)) /\ Len(a \o s.cells) = s.from + Len(s.cells)
      /\ \A i \in 1 .. s.from + Len(s.cells) :
           (a \o s.cells)[i] = IF i <= s.from THEN a[i] ELSE s.cells[i - s.from]
  <2>1. /\ a \o s.cells \in Seq(Seq(Tokens)) /\ Len(a \o s.cells) = Len(a) + Len(s.cells)
        /\ \A i \in 1 .. Len(a) + Len(s.cells) :
             (a \o s.cells)[i] = IF i <= Len(a) THEN a[i] ELSE s.cells[i - Len(a)]
    BY <1>1, <1>3, ConcatProperties
  <2>2. Len(a) = s.from
    BY <1>3
  <2> HIDE DEF Cells
  <2> QED
    BY <2>1, <2>2
<1>6. target \in 0 .. Len(a \o s.cells)
  BY <1>2, <1>5
<1>7. d \in Seq(Seq(Tokens)) /\ Len(d) = target /\ \A i \in 1 .. target : d[i] = (a \o s.cells)[i]
  BY <1>4, <1>5, <1>6, UpToIs
<1>8. ASSUME NEW i \in 1 .. target PROVE d[i] = IF i <= s.from THEN live[i] ELSE s.cells[i - s.from]
  <2>1. i \in 1 .. s.from + Len(s.cells)
    BY <1>1, <1>2
  <2>2. i <= s.from => i \in 1 .. s.from
    BY <1>1
  <2>3. (a \o s.cells)[i] = IF i <= s.from THEN a[i] ELSE s.cells[i - s.from]
    BY <1>5, <2>1
  <2>4. d[i] = (a \o s.cells)[i]
    BY <1>7
  <2>5. i <= s.from => a[i] = live[i]
    BY <1>3, <2>2
  <2> QED
    BY <2>3, <2>4, <2>5
<1> QED
  BY <1>7, <1>8 DEF Cells, d

\* What happens to a layer.
Paged(l, old, new, s, target) ==
  \/ new = old
  \/ s # None /\ Len(old) < target /\ Restores(l, old, s, target) /\ new = Restored(old, s, target)

\* What happens to it as long as no layer fails.
PagedFully(old, new, s, target) ==
  IF s = None \/ Len(old) >= target THEN new = old ELSE new = Restored(old, s, target)

\* No layer fails.
AllRestore(live, snaps, target) ==
  \A l \in Layers : snaps[l] # None /\ Len(live[l]) < target => Restores(l, live[l], snaps[l], target)

\* One layer is paged in from one node, or the walk fails.
LEMMA LayerPaged ==
  ASSUME kinds \in Models, NEW snaps, WholeSnaps(snaps), NEW l \in Layers, NEW r \in PageState, NEW target \in Nat
  PROVE  LET d == PageInLayer(r, l, snaps[l], target)
         IN  /\ d \in PageState
             /\ \A k \in Layers \ {l} : d.live[k] = r.live[k]
             /\ Paged(l, r.live[l], d.live[l], snaps[l], target)
             /\ /\ ~r.failed
                /\ snaps[l] # None /\ Len(r.live[l]) < target => Restores(l, r.live[l], snaps[l], target)
                => ~d.failed /\ PagedFully(r.live[l], d.live[l], snaps[l], target)
<1> DEFINE d == PageInLayer(r, l, snaps[l], target)
<1>1. /\ r.live \in [Layers -> Cells] /\ r.failed \in BOOLEAN /\ r.live[l] \in Cells /\ Len(r.live[l]) \in Nat
      /\ r = [live |-> r.live, failed |-> r.failed]
  BY UpToWhole DEF PageState, Cells
<1>2. CASE r.failed \/ snaps[l] = None \/ Len(r.live[l]) >= target
  <2>1. d = r
    BY <1>2 DEF PageInLayer
  <2> HIDE DEF d
  <2>2. ~r.failed => PagedFully(r.live[l], d.live[l], snaps[l], target)
    BY <1>2, <2>1 DEF PagedFully
  <2> QED
    BY <2>1, <2>2 DEF Paged, d
<1>3. CASE ~(r.failed \/ snaps[l] = None \/ Len(r.live[l]) >= target) /\ Restores(l, r.live[l], snaps[l], target)
  <2> DEFINE new == Restored(r.live[l], snaps[l], target)
             live == [r.live EXCEPT ![l] = new]
  <2>1. d = [r EXCEPT !.live[l] = new]
    BY <1>3 DEF PageInLayer
  <2>2. new \in Cells
    <3>1. snaps[l] \in SnapRecord /\ (kinds[l] # "kv" => snaps[l].from = 0)
      BY <1>3 DEF WholeSnaps, AnySnaps
    <3> QED
      BY <1>1, <1>3, <3>1, RestoredIs
  <2> HIDE DEF new
  <2>3. live \in [Layers -> Cells] /\ live[l] = new /\ \A k \in Layers \ {l} : live[k] = r.live[k]
    BY <1>1, <2>2
  <2>4. d = [live |-> live, failed |-> r.failed]
    BY <1>1, <2>1
  <2> HIDE DEF d, live
  <2>5. d \in PageState /\ d.live = live /\ d.failed = r.failed
    BY <1>1, <2>3, <2>4 DEF PageState
  <2>6. Len(r.live[l]) < target
    BY <1>1, <1>3
  <2>7. Paged(l, r.live[l], new, snaps[l], target) /\ PagedFully(r.live[l], new, snaps[l], target)
    BY <1>1, <1>3, <2>6 DEF Paged, PagedFully, new
  <2> QED
    BY <1>3, <2>3, <2>5, <2>7 DEF d
<1>4. CASE ~(r.failed \/ snaps[l] = None \/ Len(r.live[l]) >= target) /\ ~Restores(l, r.live[l], snaps[l], target)
  <2>1. d = [r EXCEPT !.failed = TRUE]
    BY <1>4 DEF PageInLayer
  <2> HIDE DEF d
  <2>2. d \in PageState /\ d.live = r.live
    BY <1>1, <2>1 DEF PageState
  <2>3. Len(r.live[l]) < target
    BY <1>1, <1>4
  <2> QED
    BY <1>4, <2>2, <2>3 DEF Paged, d
<1> QED
  BY <1>2, <1>3, <1>4

\* What happens at a node.
NodePaged(r, d, snaps, target) ==
  /\ d \in PageState
  /\ \A l \in Layers : Paged(l, r.live[l], d.live[l], snaps[l], target)
  /\ ~r.failed /\ AllRestore(r.live, snaps, target) =>
       ~d.failed /\ \A l \in Layers : PagedFully(r.live[l], d.live[l], snaps[l], target)

\* All layers are paged in from one node, up to the one that fails.
LEMMA PageInNodeIs ==
  ASSUME kinds \in Models, NEW snaps, WholeSnaps(snaps), NEW r \in PageState, NEW target \in Nat
  PROVE  NodePaged(r, PageInNode(r, snaps, target), snaps, target)
<1> DEFINE N == Len(kinds)
           done[l \in 0 .. N] == IF l = 0 THEN r ELSE PageInLayer(done[l - 1], l, snaps[l], target)
           step == [l \in 1 .. N |-> [x \in PageState |-> PageInLayer(x, l, snaps[l], target)]]
           Hope == ~r.failed /\ AllRestore(r.live, snaps, target)
           On(x, i) == /\ x \in PageState
                       /\ \A l \in Layers : l > i => x.live[l] = r.live[l]
                       /\ \A l \in Layers : l <= i => Paged(l, r.live[l], x.live[l], snaps[l], target)
                       /\ Hope => ~x.failed /\ \A l \in Layers : l <= i => PagedFully(r.live[l], x.live[l], snaps[l], target)
<1>1. N \in Nat /\ Layers = 1 .. N
  BY LayersAre
<1> HIDE DEF N
<1>2. PICK f : Stepped(f, PageState, r, N, step)
  <2>1. step \in Steps(PageState, N)
    <3>1. \A l \in 1 .. N : \A x \in PageState : PageInLayer(x, l, snaps[l], target) \in PageState
      BY <1>1, LayerPaged
    <3> QED
      BY <3>1 DEF Steps
  <2> HIDE DEF step
  <2> QED
    BY <1>1, <2>1, StepsExist
<1>3. f = [l \in 0 .. N |-> IF l = 0 THEN r ELSE PageInLayer(f[l - 1], l, snaps[l], target)]
  <2>1. f \in [0 .. N -> PageState] /\ f[0] = r /\ \A i \in 1 .. N : f[i] = step[i][f[i - 1]]
    BY <1>2 DEF Stepped
  <2>2. ASSUME NEW l \in 1 .. N PROVE f[l] = PageInLayer(f[l - 1], l, snaps[l], target)
    <3>1. l - 1 \in 0 .. N
      BY <1>1
    <3>2. f[l - 1] \in PageState
      BY <2>1, <3>1
    <3> QED
      BY <2>1, <3>2
  <2>3. \A l \in 0 .. N : f[l] = IF l = 0 THEN r ELSE PageInLayer(f[l - 1], l, snaps[l], target)
    BY <1>1, <2>1, <2>2
  <2>4. f = [l \in 0 .. N |-> f[l]]
    BY <2>1
  <2> QED
    BY <2>3, <2>4
<1> HIDE DEF step
<1>4. done = [l \in 0 .. N |-> IF l = 0 THEN r ELSE PageInLayer(done[l - 1], l, snaps[l], target)]
  BY <1>3, Zenon
<1>5. PageInNode(r, snaps, target) = done[N]
  BY DEF PageInNode, N
<1> HIDE DEF done
<1>6. ASSUME NEW i \in 1 .. N, NEW x, On(x, i - 1) PROVE On(PageInLayer(x, i, snaps[i], target), i)
  <2> DEFINE y == PageInLayer(x, i, snaps[i], target)
  <2>1. x \in PageState /\ i \in Layers /\ x.live[i] = r.live[i]
    BY <1>1, <1>6
  <2>2. /\ y \in PageState
        /\ \A k \in Layers \ {i} : y.live[k] = x.live[k]
        /\ Paged(i, x.live[i], y.live[i], snaps[i], target)
        /\ /\ ~x.failed
           /\ snaps[i] # None /\ Len(x.live[i]) < target => Restores(i, x.live[i], snaps[i], target)
           => ~y.failed /\ PagedFully(x.live[i], y.live[i], snaps[i], target)
    BY <2>1, LayerPaged
  <2> HIDE DEF y, Hope
  <2>3. ASSUME NEW l \in Layers, l > i PROVE y.live[l] = r.live[l]
    BY <1>1, <1>6, <2>2, <2>3
  <2>4. ASSUME NEW l \in Layers, l <= i PROVE Paged(l, r.live[l], y.live[l], snaps[l], target)
    <3>1. CASE l = i
      BY <2>1, <2>2, <3>1
    <3>2. CASE l # i
      <4>1. l <= i - 1 /\ y.live[l] = x.live[l]
        BY <1>1, <2>2, <2>4, <3>2
      <4> QED
        BY <1>6, <4>1
    <3> QED
      BY <3>1, <3>2
  <2>5. ASSUME Hope PROVE ~y.failed /\ \A l \in Layers : l <= i => PagedFully(r.live[l], y.live[l], snaps[l], target)
    <3>1. ~x.failed
      BY <1>6, <2>5
    <3>2. snaps[i] # None /\ Len(x.live[i]) < target => Restores(i, x.live[i], snaps[i], target)
      BY <2>1, <2>5 DEF Hope, AllRestore
    <3>3. ~y.failed /\ PagedFully(x.live[i], y.live[i], snaps[i], target)
      BY <2>2, <3>1, <3>2
    <3>4. ASSUME NEW l \in Layers, l <= i, l # i PROVE PagedFully(r.live[l], y.live[l], snaps[l], target)
      <4>1. l <= i - 1 /\ y.live[l] = x.live[l]
        BY <1>1, <2>2, <3>4
      <4> QED
        BY <1>6, <2>5, <4>1
    <3> QED
      BY <2>1, <3>3, <3>4
  <2> QED
    BY <2>2, <2>3, <2>4, <2>5 DEF y
<1>7. On(r, 0)
  <2>1. \A l \in Layers : ~ l <= 0
    BY <1>1
  <2> QED
    BY <2>1
<1>8. \A i \in 0 .. N : On(done[i], i)
  <2> DEFINE Bad == {i \in 0 .. N : ~On(done[i], i)}
  <2>1. SUFFICES ASSUME Bad # {} PROVE FALSE
    OBVIOUS
  <2>2. PICK m \in Bad : \A k \in Bad : m <= k
    <3>1. Bad \in SUBSET Nat
      OBVIOUS
    <3> HIDE DEF Bad
    <3> QED
      BY <2>1, <3>1, LeastNat
  <2> HIDE DEF On
  <2>3. \A i \in 0 .. N : done[i] = IF i = 0 THEN r ELSE PageInLayer(done[i - 1], i, snaps[i], target)
    BY <1>4
  <2>4. m # 0
    BY <1>1, <1>7, <2>3
  <2>5. m \in 1 .. N /\ m - 1 \in 0 .. N /\ ~ m <= m - 1 /\ m \in 0 .. N
    BY <1>1, <2>4
  <2>6. On(done[m - 1], m - 1)
    BY <2>2, <2>5
  <2>7. done[m] = PageInLayer(done[m - 1], m, snaps[m], target)
    BY <2>3, <2>4, <2>5
  <2> QED
    BY <1>6, <2>5, <2>6, <2>7
<1>9. On(done[N], N)
  <2>1. N \in 0 .. N
    BY <1>1
  <2> QED
    BY <1>8, <2>1
<1>10. \A l \in Layers : l <= N
  BY <1>1
<1> QED
  BY <1>5, <1>9, <1>10 DEF NodePaged

\* The cells of one live cache are those of p.
CellsOf(l, cells, p) == \A i \in Kept(l, Len(cells)) : cells[i] = UpTo(p, i)

\* A layer that is restored has come to the target, from a snapshot that allows it.
LayerStep(l, old, new, n, s, target) ==
  \/ new = old
  \/ /\ s # None /\ Len(old) < target /\ Len(new) = target
     /\ kinds[l] = "recurrent" => target = Len(n)
     /\ kinds[l] = "rotating" => target = Len(n) \/ Len(n) <= Window

\* What paging in from a node does to the cells of a layer.
LEMMA LayerStepIs ==
  ASSUME kinds \in Models, NEW l \in Layers, NEW p \in Seq(Tokens), NEW n \in Seq(Tokens), IsPrefix(n, p),
         NEW old \in Cells, NEW s \in {None} \cup SnapRecord, NEW start, Fits(l, n, start, s),
         NEW target \in Nat, target <= Len(n), NEW new, Paged(l, old, new, s, target)
  PROVE  /\ new \in Cells
         /\ LayerStep(l, old, new, n, s, target)
         /\ TrueSnap(l, n, s) /\ CellsOf(l, old, p) => CellsOf(l, new, p)
<1>1. CASE new = old
  BY <1>1 DEF LayerStep
<1>2. CASE new # old
  <2>1. /\ s \in SnapRecord /\ s # None /\ Len(old) < target /\ Restores(l, old, s, target)
        /\ new = Restored(old, s, target)
    BY <1>2 DEF Paged
  <2>2. End(s) = Len(n) /\ (kinds[l] # "kv" => s.from = 0)
    BY <2>1 DEF Fits
  <2>3. /\ new \in Cells /\ Len(new) = target
        /\ \A i \in 1 .. target : new[i] = IF i <= s.from THEN old[i] ELSE s.cells[i - s.from]
    BY <2>1, <2>2, RestoredIs
  <2>4. /\ kinds[l] = "recurrent" => target = Len(n)
        /\ kinds[l] = "rotating" => target = Len(n) \/ Len(n) <= Window
    BY <2>1, <2>2 DEF Restores
  <2>5. LayerStep(l, old, new, n, s, target)
    BY <2>1, <2>3, <2>4 DEF LayerStep
  <2>6. ASSUME TrueSnap(l, n, s), CellsOf(l, old, p), NEW i \in Kept(l, Len(new)) PROVE new[i] = UpTo(p, i)
    <3>1. Len(n) \in Nat /\ Len(old) \in Nat /\ s.from \in Nat /\ kinds[l] \in {"kv", "rotating", "recurrent"} /\ Window \in Nat
      BY <2>1, UpToWhole, SnapIs, LayersAre, CacheAssumption DEF Cells
    <3>2. i \in 1 .. target /\ i \in 1 .. Len(n) /\ i \in 0 .. Len(n)
      BY <2>3, <3>1 DEF Kept
    <3>3. UpTo(n, i) = UpTo(p, i)
      BY <3>2, PrefixUpTo
    <3>4. CASE i <= s.from
      <4>1. kinds[l] = "kv"
        BY <2>2, <3>2, <3>4
      <4>2. s.from <= Len(old)
        BY <2>1, <4>1 DEF Restores
      <4>3. i \in Kept(l, Len(old))
        BY <3>1, <3>2, <3>4, <4>1, <4>2 DEF Kept
      <4>4. old[i] = UpTo(p, i)
        BY <2>6, <4>3 DEF CellsOf
      <4> QED
        BY <2>3, <3>2, <3>4, <4>4
    <3>5. CASE ~ i <= s.from
      <4>1. i \in Kept(l, Len(n))
        <5>1. CASE kinds[l] = "kv"
          BY <3>2, <5>1 DEF Kept
        <5>2. CASE kinds[l] = "rotating"
          <6>1. i + Window > target
            BY <2>3, <5>2 DEF Kept
          <6>2. i + Window > Len(n)
            BY <2>4, <3>1, <3>2, <5>2, <6>1
          <6> QED
            BY <3>2, <5>2, <6>2 DEF Kept
        <5>3. CASE kinds[l] = "recurrent"
          <6>1. i = target
            BY <2>3, <5>3 DEF Kept
          <6> QED
            BY <2>4, <3>2, <5>3, <6>1 DEF Kept
        <5> QED
          BY <3>1, <5>1, <5>2, <5>3
      <4>2. i > s.from
        BY <3>1, <3>2, <3>5
      <4>3. s.cells[i - s.from] = UpTo(n, i)
        BY <2>1, <2>6, <4>1, <4>2 DEF TrueSnap
      <4> QED
        BY <2>3, <3>2, <3>3, <3>5, <4>3
    <3> QED
      BY <3>4, <3>5
  <2> QED
    BY <2>3, <2>5, <2>6 DEF CellsOf
<1> QED
  BY <1>1, <1>2

\* All layers can be rewound to one offset: the recurrent ones are at R, and a
\* rotating one is, or has not moved its window.
Rewindable(live, R) ==
  \A l \in Layers : /\ R <= Len(live[l])
                    /\ kinds[l] = "recurrent" => Len(live[l]) = R
                    /\ kinds[l] = "rotating" => Len(live[l]) = R \/ Len(live[l]) <= Window

\* The path that a match is for, which agrees with it up to an offset.
Route(t, p, matched) ==
  /\ p \in DOMAIN t /\ matched \in Nat /\ matched <= Len(p)
  /\ p # <<>> => StartOffset(t, p) < matched

\* Where a path that is paged in has come to, when its nodes up to i are done.
Paging(t, p, matched, live, x, i) ==
  /\ x \in PageState
  /\ \A l \in Layers : Len(x.live[l]) <= matched /\ Len(live[l]) <= Len(x.live[l])
  /\ \E R \in Nat : Rewindable(x.live, R)
  /\ \A m \in PathTo(t, p), l \in Layers :
       Len(m) <= i /\ Len(m) <= matched /\ (kinds[l] = "kv" \/ t[m].snaps[l] # None)
         => Len(m) <= Len(x.live[l])
  /\ i < Len(p) => ~x.failed
  /\ SnapsTrue(t) /\ LiveOf(live, p) => LiveOf(x.live, p)

\* What the nodes have, or what the caches have already, is enough.
Enough(t, live, matched) == AllBacked(t) \/ \A l \in Layers : Len(live[l]) = matched

\* One more node is paged in, of which no layer fails.
LEMMA RewindableOn ==
  ASSUME kinds \in Models, NEW old \in [Layers -> Cells], NEW new \in [Layers -> Cells],
         NEW snaps, Together(snaps), NEW i \in Nat,
         \A l \in Layers : snaps[l] # None /\ Len(old[l]) < i => Len(new[l]) = i,
         \A l \in Layers : new[l] = old[l] \/ (snaps[l] # None /\ Len(old[l]) < i /\ Len(new[l]) = i),
         \A l \in Layers : kinds[l] = "kv" => i <= Len(new[l]),
         NEW R \in Nat, Rewindable(old, R)
  PROVE  \E Q \in Nat : Rewindable(new, Q)
<1>1. ASSUME NEW l \in Layers
      PROVE  Len(old[l]) \in Nat /\ Len(new[l]) \in Nat /\ kinds[l] \in {"kv", "rotating", "recurrent"}
             /\ Len(old[l]) <= Len(new[l])
  <2>1. Len(old[l]) \in Nat /\ Len(new[l]) \in Nat /\ kinds[l] \in {"kv", "rotating", "recurrent"}
    BY UpToWhole, LayersAre DEF Cells
  <2> QED
    BY <2>1
<1>2. Window \in Nat
  BY CacheAssumption
<1>3. CASE \A l \in Layers : kinds[l] # "kv" => new[l] = old[l]
  <2>1. ASSUME NEW l \in Layers
        PROVE  /\ R <= Len(new[l])
               /\ kinds[l] = "recurrent" => Len(new[l]) = R
               /\ kinds[l] = "rotating" => Len(new[l]) = R \/ Len(new[l]) <= Window
    <3>1. /\ R <= Len(old[l])
          /\ kinds[l] = "recurrent" => Len(old[l]) = R
          /\ kinds[l] = "rotating" => Len(old[l]) = R \/ Len(old[l]) <= Window
      BY DEF Rewindable
    <3>2. R <= Len(new[l])
      BY <1>1, <3>1
    <3> QED
      BY <1>3, <3>1, <3>2
  <2> QED
    BY <2>1 DEF Rewindable
<1>4. CASE ~ \A l \in Layers : kinds[l] # "kv" => new[l] = old[l]
  <2>1. PICK k \in Layers : kinds[k] # "kv" /\ new[k] # old[k]
    BY <1>4
  <2>2. snaps[k] # None /\ Len(old[k]) < i
    BY <2>1
  <2>3. R < i
    <3>1. R <= Len(old[k])
      BY DEF Rewindable
    <3> QED
      BY <1>1, <2>2, <3>1
  <2>4. ASSUME NEW l \in Layers
        PROVE  /\ i <= Len(new[l])
               /\ kinds[l] = "recurrent" => Len(new[l]) = i
               /\ kinds[l] = "rotating" => Len(new[l]) = i \/ Len(new[l]) <= Window
    <3>1. CASE kinds[l] = "kv"
      BY <3>1
    <3>2. CASE kinds[l] # "kv" /\ new[l] # old[l]
      BY <1>1, <3>2
    <3>3. CASE kinds[l] # "kv" /\ new[l] = old[l]
      <4>1. snaps[l] # None
        BY <2>1, <2>2, <3>3 DEF Together
      <4>2. Len(old[l]) >= i
        <5>1. SUFFICES ASSUME ~ Len(old[l]) >= i PROVE FALSE
          OBVIOUS
        <5>2. Len(old[l]) < i
          BY <1>1, <5>1
        <5>3. Len(new[l]) = i
          BY <4>1, <5>2
        <5> QED
          BY <1>1, <3>3, <5>2, <5>3
      <4>3. /\ R <= Len(old[l])
            /\ kinds[l] = "recurrent" => Len(old[l]) = R
            /\ kinds[l] = "rotating" => Len(old[l]) = R \/ Len(old[l]) <= Window
        BY DEF Rewindable
      <4> QED
        BY <1>1, <2>3, <3>3, <4>2, <4>3
    <3> QED
      BY <3>1, <3>2, <3>3
  <2> QED
    BY <2>4 DEF Rewindable
<1> QED
  BY <1>3, <1>4

\* The walk goes on over one node of the path.
LEMMA PageStep ==
  ASSUME kinds \in Models, NEW t \in AnyTrie, GoodTrie(t), NEW p, NEW matched, Route(t, p, matched),
         NEW live \in [Layers -> Cells], Enough(t, live, matched),
         NEW i \in 1 .. Len(p), UpTo(p, i) \in DOMAIN t,
         NEW x, Paging(t, p, matched, live, x, i - 1),
         NEW y, NodePaged(x, y, t[UpTo(p, i)].snaps, Least(i, matched))
  PROVE  Paging(t, p, matched, live, y, i)
<1> DEFINE n == UpTo(p, i)
           snaps == t[n].snaps
           start == StartOffset(t, n)
           target == Least(i, matched)
<1>1. /\ TrieShape(DOMAIN t) /\ SnapsFit(t) /\ SnapsTogether(t)
      /\ p \in DOMAIN t /\ matched \in Nat /\ matched <= Len(p) /\ (p # <<>> => StartOffset(t, p) < matched)
  BY DEF GoodTrie, Route
<1>2. /\ p \in Seq(Tokens) /\ Len(p) \in Nat /\ i \in Nat /\ i \in 0 .. Len(p)
  BY <1>1, UpToWhole DEF TrieShape
<1>3. n \in Seq(Tokens) /\ Len(n) = i /\ IsPrefix(n, p) /\ n \in DOMAIN t /\ n # <<>> /\ n \in PathTo(t, p)
  <2>1. n \in Seq(Tokens) /\ Len(n) = i /\ IsPrefix(n, p)
    BY <1>2, UpToIs, UpToPrefix
  <2>2. n # <<>>
    <3>1. i # 0
      OBVIOUS
    <3> QED
      BY <2>1, <3>1, PrefixSelf
  <2>3. n \in PathTo(t, p)
    BY <2>1 DEF PathTo
  <2> QED
    BY <2>1, <2>2, <2>3
<1>4. target \in Nat /\ target <= i /\ target <= matched /\ (target = i \/ target = matched)
      /\ (i <= matched => target = i)
  BY <1>1, <1>2 DEF Least
<1>5. PICK m \in DOMAIN t : m = Parent(t, n)
  BY <1>1, <1>3, ParentIs
<1>6. /\ IsPrefix(m, n) /\ Len(m) = start /\ start \in Nat /\ start < i
      /\ \A o \in DOMAIN t : IsPrefix(o, n) /\ o # n => Len(o) <= start
  BY <1>1, <1>3, <1>5, ParentIs DEF StartOffset
<1>7. m \in PathTo(t, p)
  <2>1. m \in Seq(Tokens)
    BY <1>1 DEF TrieShape
  <2>2. IsPrefix(m, p)
    BY <1>2, <1>3, <1>6, <2>1, PrefixTrans
  <2> QED
    BY <2>2 DEF PathTo
<1>8. snaps \in AnySnaps /\ Together(snaps) /\ \A l \in Layers : Fits(l, n, start, snaps[l])
  BY <1>1, <1>3, TrieIs DEF SnapsFit, SnapsTogether
<1> HIDE DEF n, snaps, start, target
<1>9. /\ x \in PageState /\ y \in PageState
      /\ \A l \in Layers : Paged(l, x.live[l], y.live[l], snaps[l], target)
      /\ ~x.failed /\ AllRestore(x.live, snaps, target) =>
           ~y.failed /\ \A l \in Layers : PagedFully(x.live[l], y.live[l], snaps[l], target)
  BY DEF Paging, NodePaged, n, snaps, target
<1>10. /\ x.live \in [Layers -> Cells] /\ y.live \in [Layers -> Cells]
       /\ \A l \in Layers : Len(x.live[l]) \in Nat /\ Len(y.live[l]) \in Nat /\ Len(live[l]) \in Nat
                            /\ kinds[l] \in {"kv", "rotating", "recurrent"}
  <2>1. x.live \in [Layers -> Cells] /\ y.live \in [Layers -> Cells]
    BY <1>9 DEF PageState
  <2>2. ASSUME NEW l \in Layers PROVE x.live[l] \in Cells /\ y.live[l] \in Cells /\ live[l] \in Cells
    BY <2>1
  <2> QED
    BY <2>1, <2>2, UpToWhole, LayersAre DEF Cells
<1>11. ASSUME NEW l \in Layers
       PROVE  /\ LayerStep(l, x.live[l], y.live[l], n, snaps[l], target)
              /\ TrueSnap(l, n, snaps[l]) /\ CellsOf(l, x.live[l], p) => CellsOf(l, y.live[l], p)
  <2>1. snaps[l] \in {None} \cup SnapRecord /\ Fits(l, n, start, snaps[l]) /\ x.live[l] \in Cells
    BY <1>8, <1>10 DEF AnySnaps
  <2>2. target <= Len(n)
    BY <1>3, <1>4
  <2> QED
    BY <1>2, <1>3, <1>4, <1>9, <2>1, <2>2, LayerStepIs
<1>12. ASSUME NEW l \in Layers
       PROVE  /\ y.live[l] = x.live[l] \/ (snaps[l] # None /\ Len(x.live[l]) < target /\ Len(y.live[l]) = target)
              /\ Len(x.live[l]) <= Len(y.live[l])
  BY <1>4, <1>10, <1>11 DEF LayerStep
<1>13. \A l \in Layers : Len(y.live[l]) <= matched /\ Len(live[l]) <= Len(y.live[l])
  <2> SUFFICES ASSUME NEW l \in Layers PROVE Len(y.live[l]) <= matched /\ Len(live[l]) <= Len(y.live[l])
    OBVIOUS
  <2>1. Len(x.live[l]) <= matched /\ Len(live[l]) <= Len(x.live[l])
    BY DEF Paging
  <2> QED
    BY <1>1, <1>4, <1>10, <1>12, <2>1
<1>14. start <= matched /\ (n # p => i <= matched)
  <2>1. CASE n = p
    BY <1>1, <1>2, <1>3, <1>6, <2>1 DEF start
  <2>2. CASE n # p
    <3>1. p # <<>>
      BY <1>2, <1>3, PrefixSelf
    <3>2. Len(n) <= Len(Parent(t, p)) /\ StartOffset(t, p) = Len(Parent(t, p)) /\ StartOffset(t, p) \in Nat
      BY <1>1, <1>3, <2>2, <3>1, ParentIs DEF StartOffset
    <3>3. StartOffset(t, p) < matched
      BY <1>1, <3>1
    <3> QED
      BY <1>1, <1>2, <1>3, <1>6, <3>2, <3>3
  <2> QED
    BY <2>1, <2>2
<1>15. AllRestore(x.live, snaps, target) \/ ~ i <= matched
  <2> SUFFICES ASSUME i <= matched, NEW l \in Layers, snaps[l] # None, Len(x.live[l]) < target
               PROVE  Restores(l, x.live[l], snaps[l], target)
    BY DEF AllRestore
  <2>1. target = i /\ End(snaps[l]) = i /\ snaps[l].from = IF kinds[l] = "kv" THEN start ELSE 0
    BY <1>3, <1>4, <1>8 DEF Fits
  <2>2. CASE kinds[l] = "kv"
    <3>0. Len(m) <= i - 1 /\ Len(m) <= matched
      BY <1>2, <1>6, <1>14
    <3>1. start <= Len(x.live[l])
      BY <1>6, <1>7, <2>2, <3>0 DEF Paging
    <3>2. target <= End(snaps[l])
      BY <1>2, <2>1
    <3> QED
      BY <2>1, <2>2, <3>1, <3>2 DEF Restores
  <2>3. CASE kinds[l] = "rotating"
    <3>1. target <= End(snaps[l]) /\ target = End(snaps[l])
      BY <1>2, <2>1
    <3> QED
      BY <2>3, <3>1 DEF Restores
  <2>4. CASE kinds[l] = "recurrent"
    BY <2>1, <2>4 DEF Restores
  <2> QED
    BY <1>10, <2>2, <2>3, <2>4
<1>16. ~x.failed
  <2>1. i - 1 < Len(p)
    BY <1>2
  <2> QED
    BY <2>1 DEF Paging
<1>17. ASSUME i <= matched, NEW l \in Layers
       PROVE  /\ ~y.failed
              /\ snaps[l] # None /\ Len(x.live[l]) < target => Len(y.live[l]) = target
  <2>1. ~y.failed /\ PagedFully(x.live[l], y.live[l], snaps[l], target)
    BY <1>9, <1>15, <1>16, <1>17
  <2>2. ASSUME snaps[l] # None, Len(x.live[l]) < target PROVE Len(y.live[l]) = target
    <3>1. ~ Len(x.live[l]) >= target
      BY <1>4, <1>10, <2>2
    <3>2. y.live[l] = Restored(x.live[l], snaps[l], target)
      BY <2>1, <2>2, <3>1 DEF PagedFully
    <3>3. snaps[l] \in SnapRecord /\ (kinds[l] # "kv" => snaps[l].from = 0)
      BY <1>8, <2>2 DEF AnySnaps, Fits
    <3>4. Restores(l, x.live[l], snaps[l], target)
      BY <1>15, <1>17, <2>2 DEF AllRestore
    <3>5. x.live[l] \in Cells
      BY <1>10
    <3> QED
      BY <1>4, <3>2, <3>3, <3>4, <3>5, RestoredIs
  <2> QED
    BY <2>1, <2>2
<1>18. ASSUME i <= matched, NEW l \in Layers, kinds[l] = "kv" PROVE i <= Len(y.live[l])
  <2>1. CASE AllBacked(t)
    <3>1. snaps[l] # None
      BY <1>3, <1>18, <2>1 DEF AllBacked, HasKeys, snaps
    <3>2. Len(x.live[l]) < target => Len(y.live[l]) = target
      BY <1>17, <1>18, <3>1
    <3> QED
      BY <1>4, <1>10, <1>12, <1>18, <3>2
  <2>2. CASE \A k \in Layers : Len(live[k]) = matched
    BY <1>2, <1>10, <1>13, <1>18, <2>2
  <2> QED
    BY <2>1, <2>2 DEF Enough
<1>19. \E R \in Nat : Rewindable(y.live, R)
  <2>1. PICK R \in Nat : Rewindable(x.live, R)
    BY DEF Paging
  <2>2. CASE i <= matched
    <3>1. target = i
      BY <1>4, <2>2
    <3>2. \A l \in Layers : snaps[l] # None /\ Len(x.live[l]) < i => Len(y.live[l]) = i
      BY <1>17, <2>2, <3>1
    <3>3. \A l \in Layers : y.live[l] = x.live[l] \/ (snaps[l] # None /\ Len(x.live[l]) < i /\ Len(y.live[l]) = i)
      BY <1>12, <3>1
    <3>4. \A l \in Layers : kinds[l] = "kv" => i <= Len(y.live[l])
      BY <1>18, <2>2
    <3> QED
      BY <1>2, <1>8, <1>10, <2>1, <3>2, <3>3, <3>4, RewindableOn
  <2>3. CASE ~ i <= matched
    <3>1. ASSUME NEW l \in Layers
          PROVE  /\ R <= Len(y.live[l])
                 /\ kinds[l] = "recurrent" => Len(y.live[l]) = R
                 /\ kinds[l] = "rotating" => Len(y.live[l]) = R \/ Len(y.live[l]) <= Window
      <4>1. /\ R <= Len(x.live[l])
            /\ kinds[l] = "recurrent" => Len(x.live[l]) = R
            /\ kinds[l] = "rotating" => Len(x.live[l]) = R \/ Len(x.live[l]) <= Window
        BY <2>1 DEF Rewindable
      <4>2. R <= Len(y.live[l])
        BY <1>10, <1>12, <4>1
      <4>3. CASE y.live[l] = x.live[l]
        BY <4>1, <4>3
      <4>4. CASE y.live[l] # x.live[l]
        <5>1. /\ Len(y.live[l]) = target /\ kinds[l] # "recurrent"
              /\ kinds[l] = "rotating" => Len(n) <= Window
          <6>1. target # Len(n)
            BY <1>1, <1>2, <1>3, <1>4, <2>3
          <6> QED
            BY <1>11, <4>4, <6>1 DEF LayerStep
        <5>2. Window \in Nat
          BY CacheAssumption
        <5> QED
          BY <1>2, <1>3, <1>4, <4>2, <5>1, <5>2
      <4> QED
        BY <4>3, <4>4
    <3> QED
      BY <3>1 DEF Rewindable
  <2> QED
    BY <2>2, <2>3
<1>20. ASSUME NEW o \in PathTo(t, p), NEW l \in Layers, Len(o) <= i, Len(o) <= matched,
              kinds[l] = "kv" \/ t[o].snaps[l] # None
       PROVE  Len(o) <= Len(y.live[l])
  <2>1. o \in Seq(Tokens) /\ Len(o) \in Nat /\ IsPrefix(o, p)
    BY <1>1, <1>2, PathIs, UpToWhole
  <2>2. CASE Len(o) <= i - 1
    <3>1. Len(o) <= Len(x.live[l])
      BY <1>20, <2>2 DEF Paging
    <3> QED
      BY <1>10, <1>12, <2>1, <3>1
  <2>3. CASE ~ Len(o) <= i - 1
    <3>1. Len(o) = i
      BY <1>2, <1>20, <2>1, <2>3
    <3>2. CASE kinds[l] = "kv"
      BY <1>18, <1>20, <3>1, <3>2
    <3>3. CASE t[o].snaps[l] # None
      <4>1. o = n
        BY <1>2, <2>1, <3>1, PrefixIs DEF n
      <4>2. snaps[l] # None
        BY <3>3, <4>1 DEF snaps
      <4>3. Len(x.live[l]) < target => Len(y.live[l]) = target
        BY <1>17, <1>20, <3>1, <4>2
      <4> QED
        BY <1>4, <1>10, <1>12, <1>20, <3>1, <4>3
    <3> QED
      BY <1>20, <3>2, <3>3
  <2> QED
    BY <2>2, <2>3
<1>21. i < Len(p) => ~y.failed
  <2>1. SUFFICES ASSUME i < Len(p) PROVE ~y.failed
    OBVIOUS
  <2>2. n # p
    BY <1>2, <1>3, <2>1
  <2>3. 1 \in Layers
    BY LayersAre
  <2> QED
    BY <1>14, <1>17, <2>2, <2>3
<1>22. ASSUME SnapsTrue(t), LiveOf(live, p) PROVE LiveOf(y.live, p)
  <2> SUFFICES ASSUME NEW l \in Layers PROVE CellsOf(l, y.live[l], p)
    BY DEF LiveOf, CellsOf
  <2>1. LiveOf(x.live, p)
    BY <1>22 DEF Paging
  <2>2. CellsOf(l, x.live[l], p)
    BY <2>1 DEF LiveOf, CellsOf
  <2>3. TrueSnap(l, n, snaps[l])
    BY <1>3, <1>22 DEF SnapsTrue, snaps
  <2> QED
    BY <1>11, <2>2, <2>3
<1> QED
  BY <1>9, <1>13, <1>19, <1>20, <1>21, <1>22 DEF Paging

\* An offset at which no node ends.
LEMMA PageSkip ==
  ASSUME NEW t, GoodTrie(t), NEW p, NEW matched, Route(t, p, matched), NEW live,
         NEW i \in 1 .. Len(p), UpTo(p, i) \notin DOMAIN t,
         NEW x, Paging(t, p, matched, live, x, i - 1)
  PROVE  Paging(t, p, matched, live, x, i)
<1>1. TrieShape(DOMAIN t) /\ p \in DOMAIN t /\ p \in Seq(Tokens) /\ Len(p) \in Nat
  BY UpToWhole DEF GoodTrie, Route, TrieShape
<1>2. ASSUME NEW m \in PathTo(t, p), Len(m) <= i PROVE Len(m) <= i - 1
  <2>1. m \in DOMAIN t /\ m \in Seq(Tokens) /\ Len(m) \in Nat /\ IsPrefix(m, p)
    BY <1>1, PathIs, UpToWhole
  <2>2. m = UpTo(p, Len(m))
    BY <1>1, <2>1, PrefixIs
  <2>3. Len(m) # i
    BY <2>1, <2>2
  <2> QED
    BY <1>1, <1>2, <2>1, <2>3
<1>3. i < Len(p) => i - 1 < Len(p)
  BY <1>1
<1> QED
  BY <1>2, <1>3 DEF Paging

\* The walk over the whole path.
LEMMA PagedInIs ==
  ASSUME kinds \in Models, NEW t \in AnyTrie, GoodTrie(t), NEW p, NEW matched, Route(t, p, matched),
         NEW live \in [Layers -> Cells], Enough(t, live, matched),
         Paging(t, p, matched, live, [live |-> live, failed |-> FALSE], 0)
  PROVE  \E x : /\ Paging(t, p, matched, live, x, Len(p))
                /\ PagedIn(t, PathTo(t, p), matched, live) = x.live
<1> DEFINE path == PathTo(t, p)
           leaf == Longest(path)
           N == Len(leaf)
           r == [live |-> live, failed |-> FALSE]
           Node(x, i) == IF UpTo(leaf, i) \notin path THEN x
                         ELSE PageInNode(x, t[UpTo(leaf, i)].snaps, Least(i, matched))
           done[i \in 0 .. N] == IF i = 0 THEN r ELSE Node(done[i - 1], i)
           step == [i \in 1 .. N |-> [x \in PageState |-> Node(x, i)]]
           On(x, i) == Paging(t, p, matched, live, x, i)
<1>1. /\ TrieShape(DOMAIN t) /\ SnapsFit(t) /\ p \in DOMAIN t /\ matched \in Nat
      /\ p \in Seq(Tokens) /\ Len(p) \in Nat /\ leaf = p /\ N = Len(p) /\ N \in Nat
  BY PathEnd DEF GoodTrie, Route
<1>2. r \in PageState
  BY DEF PageState
<1>3. \A n \in path : n \in DOMAIN t
  BY DEF PathTo
<1>4. ASSUME NEW n \in DOMAIN t PROVE WholeSnaps(t[n].snaps)
  <2>1. t[n].snaps \in AnySnaps
    BY TrieIs
  <2>2. \A l \in Layers : Fits(l, n, StartOffset(t, n), t[n].snaps[l])
    BY <1>1 DEF SnapsFit
  <2> QED
    BY <2>1, <2>2 DEF WholeSnaps, Fits
<1>5. \A i \in 1 .. N : \A n : UpTo(p, i) = n /\ n \in DOMAIN t => n \in path
  <2> SUFFICES ASSUME NEW i \in 1 .. N, UpTo(p, i) \in DOMAIN t PROVE UpTo(p, i) \in path
    OBVIOUS
  <2>1. i \in 0 .. Len(p)
    BY <1>1
  <2>2. IsPrefix(UpTo(p, i), p)
    BY <1>1, <2>1, UpToPrefix
  <2> QED
    BY <2>2 DEF PathTo
<1> HIDE DEF path, leaf, N
<1>6. ASSUME NEW i \in 1 .. N, NEW x \in PageState
      PROVE  /\ Node(x, i) \in PageState
             /\ UpTo(leaf, i) \in DOMAIN t => NodePaged(x, Node(x, i), t[UpTo(p, i)].snaps, Least(i, matched))
             /\ UpTo(leaf, i) \notin DOMAIN t => Node(x, i) = x
  <2>1. CASE UpTo(leaf, i) \in path
    <3>1. UpTo(leaf, i) \in DOMAIN t
      BY <1>3, <2>1
    <3>2. Least(i, matched) \in Nat
      BY <1>1 DEF Least
    <3>3. PICK n \in DOMAIN t : n = UpTo(leaf, i) /\ n = UpTo(p, i)
      BY <1>1, <3>1
    <3>4. NodePaged(x, PageInNode(x, t[n].snaps, Least(i, matched)), t[n].snaps, Least(i, matched))
      BY <1>4, <3>2, PageInNodeIs
    <3>5. Node(x, i) = PageInNode(x, t[n].snaps, Least(i, matched))
      BY <2>1, <3>3
    <3> QED
      BY <3>3, <3>4, <3>5 DEF NodePaged
  <2>2. CASE UpTo(leaf, i) \notin path
    <3>1. UpTo(leaf, i) \notin DOMAIN t
      BY <1>1, <1>5, <2>2
    <3> QED
      BY <2>2, <3>1
  <2> QED
    BY <2>1, <2>2
<1> HIDE DEF Node
<1>7. PICK f : Stepped(f, PageState, r, N, step)
  <2>1. step \in Steps(PageState, N)
    <3>1. \A i \in 1 .. N : \A x \in PageState : Node(x, i) \in PageState
      BY <1>6
    <3> QED
      BY <3>1 DEF Steps
  <2> HIDE DEF step
  <2> QED
    BY <1>1, <1>2, <2>1, StepsExist
<1> HIDE DEF r
<1>8. f = [i \in 0 .. N |-> IF i = 0 THEN r ELSE Node(f[i - 1], i)]
  <2>1. f \in [0 .. N -> PageState] /\ f[0] = r /\ \A i \in 1 .. N : f[i] = step[i][f[i - 1]]
    BY <1>7 DEF Stepped
  <2>2. ASSUME NEW i \in 1 .. N PROVE f[i] = Node(f[i - 1], i)
    <3>1. i - 1 \in 0 .. N
      BY <1>1
    <3>2. f[i - 1] \in PageState
      BY <2>1, <3>1
    <3> QED
      BY <2>1, <3>2
  <2>3. \A i \in 0 .. N : f[i] = IF i = 0 THEN r ELSE Node(f[i - 1], i)
    BY <1>1, <2>1, <2>2
  <2>4. f = [i \in 0 .. N |-> f[i]]
    BY <2>1
  <2> QED
    BY <2>3, <2>4
<1> HIDE DEF step
<1>9. done = [i \in 0 .. N |-> IF i = 0 THEN r ELSE Node(done[i - 1], i)]
  BY <1>8, Zenon
<1>10. PagedIn(t, path, matched, live) = done[N].live
  BY DEF PagedIn, N, leaf, Node, r
<1> HIDE DEF done
<1>11. ASSUME NEW i \in 1 .. N, NEW x, On(x, i - 1) PROVE On(Node(x, i), i)
  <2>1. x \in PageState /\ i \in 1 .. Len(p)
    BY <1>1, <1>11 DEF Paging
  <2>2. CASE UpTo(leaf, i) \in DOMAIN t
    <3>1. NodePaged(x, Node(x, i), t[UpTo(p, i)].snaps, Least(i, matched)) /\ UpTo(p, i) \in DOMAIN t
      BY <1>1, <1>6, <2>1, <2>2
    <3> QED
      BY <1>11, <2>1, <3>1, PageStep
  <2>3. CASE UpTo(leaf, i) \notin DOMAIN t
    <3>1. Node(x, i) = x /\ UpTo(p, i) \notin DOMAIN t
      BY <1>1, <1>6, <2>1, <2>3
    <3>2. On(x, i)
      BY <1>11, <2>1, <3>1, PageSkip
    <3> QED
      BY <3>1, <3>2
  <2> QED
    BY <2>2, <2>3
<1>12. On(r, 0)
  BY DEF r
<1>13. \A i \in 0 .. N : On(done[i], i)
  <2> DEFINE Bad == {i \in 0 .. N : ~On(done[i], i)}
  <2>1. SUFFICES ASSUME Bad # {} PROVE FALSE
    OBVIOUS
  <2>2. PICK m \in Bad : \A k \in Bad : m <= k
    <3>1. Bad \in SUBSET Nat
      OBVIOUS
    <3> HIDE DEF Bad
    <3> QED
      BY <2>1, <3>1, LeastNat
  <2> HIDE DEF On
  <2>3. \A i \in 0 .. N : done[i] = IF i = 0 THEN r ELSE Node(done[i - 1], i)
    BY <1>9
  <2>4. m # 0
    BY <1>1, <1>12, <2>3
  <2>5. m \in 1 .. N /\ m - 1 \in 0 .. N /\ ~ m <= m - 1 /\ m \in 0 .. N
    BY <1>1, <2>4
  <2>6. On(done[m - 1], m - 1)
    BY <2>2, <2>5
  <2>7. done[m] = Node(done[m - 1], m)
    BY <2>3, <2>4, <2>5
  <2> QED
    BY <1>11, <2>5, <2>6, <2>7
<1>14. On(done[N], N)
  <2>1. N \in 0 .. N
    BY <1>1
  <2> QED
    BY <1>13, <2>1
<1> QED
  BY <1>1, <1>10, <1>14 DEF path

-----------------------------------------------------------------------------
(* Another path becomes the active one *)

\* A match is for the path to a node p, and agrees with q as far as it goes.
RouteTo(t, q, match, p) ==
  /\ match.path = PathTo(t, p)
  /\ Route(t, p, match.matched)
  /\ match.matched \in 0 .. Len(q)
  /\ UpTo(p, match.matched) = UpTo(q, match.matched)

\* The path of a match is that of one of its nodes.
LEMMA RouteIs ==
  ASSUME NEW t, TrieShape(DOMAIN t), NEW q \in Seq(Tokens), NEW match, NEW last \in DOMAIN t,
         Matches(t, <<>>, q, match, last)
  PROVE  \E p \in DOMAIN t : RouteTo(t, q, match, p)
<1> DEFINE full == {m \in PathTo(t, q) : Len(m) >= Len(<<>>)}
<1>1. /\ last \in full /\ (\A m \in PathTo(t, q) : Len(m) <= Len(last))
      /\ match.matched \in 0 .. Len(q)
      /\ \/ match.path = full /\ match.matched = Len(last)
         \/ \E best \in Children(t, last) :
              /\ match.path = full \cup {best}
              /\ Len(last) < match.matched /\ match.matched < Len(best)
              /\ UpTo(best, match.matched) = UpTo(q, match.matched)
  BY DEF Matches
<1>2. /\ DOMAIN t \subseteq Seq(Tokens) /\ PathTo(t, q) \subseteq DOMAIN t
      /\ \A m \in DOMAIN t : Len(m) \in Nat
      /\ \A m \in DOMAIN t : m \in PathTo(t, q) <=> IsPrefix(m, q)
  BY UpToWhole DEF PathTo, TrieShape
<1>3. full = PathTo(t, q)
  <2>1. Len(<<>>) = 0
    BY PrefixSelf
  <2> QED
    BY <1>2, <2>1
<1> HIDE DEF full
<1>4. last \in Seq(Tokens) /\ Len(last) \in Nat /\ IsPrefix(last, q) /\ Len(q) \in Nat
  BY <1>1, <1>2, <1>3, UpToWhole
<1>5. PathTo(t, last) = PathTo(t, q)
  <2>1. ASSUME NEW m \in DOMAIN t, IsPrefix(m, q) PROVE IsPrefix(m, last)
    <3>1. Len(m) <= Len(last) /\ m \in Seq(Tokens)
      BY <1>1, <1>2, <2>1
    <3> QED
      BY <1>4, <2>1, <3>1, PrefixComparable
  <2>2. ASSUME NEW m \in DOMAIN t, IsPrefix(m, last) PROVE IsPrefix(m, q)
    BY <1>2, <1>4, <2>2, PrefixTrans
  <2> QED
    BY <2>1, <2>2 DEF PathTo
<1>6. CASE match.path = full /\ match.matched = Len(last)
  <2>1. UpTo(last, Len(last)) = last /\ last = UpTo(q, Len(last))
    BY <1>4, UpToWhole, PrefixIs
  <2>2. last # <<>> => StartOffset(t, last) < Len(last)
    BY ParentIs
  <2>3. Route(t, last, match.matched)
    BY <1>4, <1>6, <2>2 DEF Route
  <2> QED
    BY <1>1, <1>3, <1>5, <1>6, <2>1, <2>3 DEF RouteTo
<1>7. CASE ~(match.path = full /\ match.matched = Len(last))
  <2>1. PICK best \in Children(t, last) :
              /\ match.path = full \cup {best}
              /\ Len(last) < match.matched /\ match.matched < Len(best)
              /\ UpTo(best, match.matched) = UpTo(q, match.matched)
    BY <1>1, <1>7
  <2>2. /\ best \in DOMAIN t /\ best \in Seq(Tokens) /\ Len(best) \in Nat /\ IsPrefix(last, best)
        /\ StartOffset(t, best) = Len(last)
        /\ \A o \in DOMAIN t : IsPrefix(o, best) /\ o # best => Len(o) <= Len(last)
    BY ChildOf
  <2>3. ASSUME NEW m \in DOMAIN t, IsPrefix(m, best), m # best PROVE IsPrefix(m, q)
    <3>1. Len(m) <= Len(last) /\ m \in Seq(Tokens)
      BY <1>2, <2>2, <2>3
    <3>2. IsPrefix(m, last)
      BY <1>4, <2>2, <2>3, <3>1, PrefixComparable
    <3> QED
      BY <1>4, <3>1, <3>2, PrefixTrans
  <2>4. ASSUME NEW m \in DOMAIN t, IsPrefix(m, q) PROVE IsPrefix(m, best)
    <3>1. IsPrefix(m, last) /\ m \in Seq(Tokens)
      BY <1>2, <1>5, <2>4 DEF PathTo
    <3> QED
      BY <1>4, <2>2, <3>1, PrefixTrans
  <2>5. IsPrefix(best, best)
    BY <2>2, PrefixSelf
  <2>6. PathTo(t, best) = match.path
    BY <1>3, <2>1, <2>2, <2>3, <2>4, <2>5 DEF PathTo
  <2>7. Route(t, best, match.matched)
    BY <1>1, <2>1, <2>2 DEF Route
  <2> QED
    BY <1>1, <2>1, <2>2, <2>6, <2>7 DEF RouteTo
<1> QED
  BY <1>6, <1>7

\* The nodes of a path up to an offset are a path.
ReachedTo(t, p, low, g) ==
  /\ g \in DOMAIN t
  /\ Reached(PathTo(t, p), low) = PathTo(t, g)
  /\ IsPrefix(g, p) /\ Len(g) <= low
  /\ Len(p) <= low => g = p

\* The nodes that the layers have reached are a path again.
LEMMA ReachedIs ==
  ASSUME NEW t, TrieShape(DOMAIN t), NEW p \in DOMAIN t, NEW low \in Nat
  PROVE  \E g : ReachedTo(t, p, low, g)
<1> DEFINE S == Reached(PathTo(t, p), low)
           g == Longest(S)
<1>1. /\ DOMAIN t \subseteq Seq(Tokens) /\ \A m \in DOMAIN t : Len(m) \in Nat
      /\ \A m \in PathTo(t, p) : m \in DOMAIN t /\ IsPrefix(m, p)
      /\ \A m \in DOMAIN t : IsPrefix(m, p) => m \in PathTo(t, p)
      /\ <<>> \in PathTo(t, p) /\ Len(<<>>) = 0
  BY PathIs, PrefixSelf, UpToWhole DEF TrieShape, PathTo
<1>2. \A m : m \in S <=> m \in PathTo(t, p) /\ Len(m) <= low
  BY DEF Reached
<1>3. <<>> \in S
  BY <1>1, <1>2
<1> HIDE DEF S
<1>4. S \in SUBSET Seq(Tokens) /\ S # {} /\ \A m \in S : Len(m) <= low
  BY <1>1, <1>2, <1>3
<1>5. g \in S /\ \A m \in S : Len(m) <= Len(g)
  BY <1>4, LongestIs
<1> HIDE DEF g
<1>6. /\ g \in DOMAIN t /\ g \in Seq(Tokens) /\ IsPrefix(g, p) /\ Len(g) \in Nat /\ Len(g) <= low
      /\ p \in Seq(Tokens) /\ Len(p) \in Nat
  BY <1>1, <1>2, <1>5
<1>7. ASSUME NEW m \in S PROVE m \in PathTo(t, g)
  <2>1. m \in DOMAIN t /\ m \in Seq(Tokens) /\ IsPrefix(m, p) /\ Len(m) <= Len(g)
    BY <1>1, <1>2, <1>5
  <2>2. IsPrefix(m, g)
    BY <1>6, <2>1, PrefixComparable
  <2> QED
    BY <2>1, <2>2 DEF PathTo
<1>8. ASSUME NEW m \in PathTo(t, g) PROVE m \in S
  <2>1. m \in DOMAIN t /\ m \in Seq(Tokens) /\ IsPrefix(m, g) /\ Len(m) <= Len(g) /\ Len(m) \in Nat
    BY <1>1, <1>6, PathIs
  <2>2. IsPrefix(m, p)
    BY <1>6, <2>1, PrefixTrans
  <2> QED
    BY <1>1, <1>2, <1>6, <2>1, <2>2
<1>9. S = PathTo(t, g)
  BY <1>7, <1>8
<1>10. ASSUME Len(p) <= low PROVE g = p
  <2>1. IsPrefix(p, p)
    BY <1>6, PrefixSelf
  <2>2. p \in S
    BY <1>1, <1>2, <1>10, <2>1
  <2>3. Len(p) <= Len(g) /\ Len(g) <= Len(p)
    BY <1>5, <1>6, <2>2, PrefixIs
  <2> QED
    BY <1>6, <2>1, <2>3, PrefixEqual
<1> QED
  BY <1>6, <1>9, <1>10 DEF S, ReachedTo

\* A live cache that is rewound.
LEMMA RewoundIs ==
  ASSUME kinds \in Models, NEW l \in Layers, NEW live \in Cells, NEW low \in Nat, Rewinds(l, live, low)
  PROVE  /\ UpTo(live, low) \in Cells /\ Len(UpTo(live, low)) = low
         /\ \A p : CellsOf(l, live, p) => CellsOf(l, UpTo(live, low), p)
<1>1. /\ live \in Seq(Seq(Tokens)) /\ Len(live) \in Nat /\ low <= Len(live) /\ Window \in Nat
      /\ low = Len(live) \/ kinds[l] = "kv" \/ (kinds[l] = "rotating" /\ Len(live) <= Window)
  BY UpToWhole, CacheAssumption DEF Cells, Rewinds
<1>2. /\ UpTo(live, low) \in Seq(Seq(Tokens)) /\ Len(UpTo(live, low)) = low
      /\ \A i \in 1 .. low : UpTo(live, low)[i] = live[i]
  <2>1. low \in 0 .. Len(live)
    BY <1>1
  <2> QED
    BY <1>1, <2>1, UpToIs
<1>3. ASSUME NEW i \in Kept(l, low) PROVE i \in 1 .. low /\ i \in Kept(l, Len(live))
  <2>1. i \in 1 .. low
    BY DEF Kept
  <2>2. CASE low = Len(live)
    BY <2>1, <2>2
  <2>3. CASE kinds[l] = "kv"
    BY <1>1, <2>1, <2>3 DEF Kept
  <2>4. CASE kinds[l] = "rotating" /\ Len(live) <= Window
    BY <1>1, <2>1, <2>4 DEF Kept
  <2> QED
    BY <1>1, <2>1, <2>2, <2>3, <2>4
<1>4. ASSUME NEW p, CellsOf(l, live, p) PROVE CellsOf(l, UpTo(live, low), p)
  BY <1>2, <1>3, <1>4 DEF CellsOf
<1> QED
  BY <1>2, <1>4 DEF Cells

\* The layers have come to one offset, and the path is that of the nodes up to it.
Aligns(c, d, p, matched, live) ==
  /\ d.trie = c.trie
  /\ \E g \in DOMAIN c.trie, k \in Nat :
       /\ Good(d, g) /\ AllAt(d.caches, k) /\ Len(g) <= k /\ k <= matched
       /\ IsPrefix(g, p)
       /\ \E l \in Layers : k = Len(live[l])
       /\ LiveOf(live, p) => LiveOf(d.caches, p)

\* All layers come to one offset, and the active path ends at or before it.
LEMMA AlignIs ==
  ASSUME kinds \in Models, NEW c, NEW f, Good(c, f), NEW p, NEW matched, Route(c.trie, p, matched),
         NEW live \in [Layers -> Cells], NEW R \in Nat, Rewindable(live, R),
         \A l \in Layers : Len(live[l]) <= matched,
         AllBacked(c.trie) \/ (p = f /\ matched = Len(f) /\ AllAt(live, matched))
  PROVE  Aligns(c, Align(c, PathTo(c.trie, p), live), p, matched, live)
<1> DEFINE t == c.trie
           S == {Len(live[l]) : l \in Layers}
           low == LeastOf(S)
           d == Align(c, PathTo(t, p), live)
<1>1. /\ c \in CacheRecord /\ GoodTrie(t) /\ TrieShape(DOMAIN t) /\ KeysBacked(t, f) /\ Counted(c)
      /\ t \in AnyTrie /\ c.pagedOutBytes \in Int /\ p \in DOMAIN t /\ matched \in Nat
  BY CacheIs DEF Good, GoodTrie, Route
<1>2. ASSUME NEW l \in Layers
      PROVE  live[l] \in Cells /\ Len(live[l]) \in Nat /\ kinds[l] \in {"kv", "rotating", "recurrent"}
  <2>1. live[l] \in Cells
    OBVIOUS
  <2> QED
    BY <2>1, UpToWhole, LayersAre DEF Cells
<1>3. S \in SUBSET Nat /\ S # {}
  BY <1>2, LayersAre
<1>4. low \in S /\ \A k \in S : low <= k
  <2> HIDE DEF S
  <2> QED
    BY <1>3, LeastOfIs
<1>5. low \in Nat /\ low <= matched /\ R <= low /\ \A l \in Layers : low <= Len(live[l])
  <2>1. PICK l \in Layers : low = Len(live[l])
    BY <1>4
  <2>2. R <= Len(live[l])
    BY DEF Rewindable
  <2> HIDE DEF low
  <2>3. \A k \in Layers : low <= Len(live[k])
    BY <1>4
  <2> QED
    BY <1>2, <2>1, <2>2, <2>3
<1> HIDE DEF low
<1>6. ASSUME NEW l \in Layers PROVE Rewinds(l, live[l], low)
  <2>1. /\ R <= Len(live[l])
        /\ kinds[l] = "recurrent" => Len(live[l]) = R
        /\ kinds[l] = "rotating" => Len(live[l]) = R \/ Len(live[l]) <= Window
    BY DEF Rewindable
  <2>2. low <= Len(live[l]) /\ (Len(live[l]) = R => low = Len(live[l]))
    BY <1>2, <1>5
  <2> QED
    BY <1>2, <2>1, <2>2 DEF Rewinds
<1>7. Aligned(live, low) = [l \in Layers |-> UpTo(live[l], low)]
  BY <1>6 DEF Aligned
<1>8. ASSUME NEW l \in Layers
      PROVE  /\ UpTo(live[l], low) \in Cells /\ Len(UpTo(live[l], low)) = low
             /\ CellsOf(l, live[l], p) => CellsOf(l, UpTo(live[l], low), p)
  BY <1>2, <1>5, <1>6, RewoundIs
<1>09. PICK g : ReachedTo(t, p, low, g)
  BY <1>1, <1>5, ReachedIs
<1>9. /\ g \in DOMAIN t /\ Reached(PathTo(t, p), low) = PathTo(t, g)
      /\ IsPrefix(g, p) /\ Len(g) <= low
      /\ Len(p) <= low => g = p
  BY <1>09 DEF ReachedTo
<1>10. d = [c EXCEPT !.caches = Aligned(live, low), !.activePath = Reached(PathTo(t, p), low)]
  BY DEF Align, low
<1> HIDE DEF d
<1>11. /\ d \in CacheRecord /\ d.trie = t /\ d.pagedOutBytes = c.pagedOutBytes
       /\ d.activePath = PathTo(t, g) /\ d.caches = [l \in Layers |-> UpTo(live[l], low)]
  <2>1. [l \in Layers |-> UpTo(live[l], low)] \in [Layers -> Cells]
    BY <1>8
  <2>2. PathTo(t, g) \in SUBSET Seq(Tokens)
    BY <1>1, <1>9, PathIs DEF TrieShape
  <2>3. d = [trie |-> t, activePath |-> PathTo(t, g), caches |-> [l \in Layers |-> UpTo(live[l], low)],
             pagedOutBytes |-> c.pagedOutBytes]
    BY <1>1, <1>7, <1>9, <1>10 DEF CacheRecord
  <2> QED
    BY <1>1, <2>1, <2>2, <2>3 DEF CacheRecord
<1>12. AllAt(d.caches, low)
  BY <1>8, <1>11 DEF AllAt
<1>13. ASSUME LiveOf(live, p) PROVE LiveOf(d.caches, p)
  <2> SUFFICES ASSUME NEW l \in Layers PROVE CellsOf(l, d.caches[l], p)
    BY DEF LiveOf, CellsOf
  <2>1. CellsOf(l, live[l], p)
    BY <1>13 DEF LiveOf, CellsOf
  <2> QED
    BY <1>8, <1>11, <2>1
<1>14. KeysBacked(t, g)
  <2>1. CASE AllBacked(t)
    BY <2>1 DEF AllBacked, KeysBacked
  <2>2. CASE p = f /\ matched = Len(f) /\ AllAt(live, matched)
    <3>1. low = matched
      BY <1>4, <2>2 DEF AllAt, low
    <3>2. g = f
      BY <1>1, <1>9, <2>2, <3>1
    <3> QED
      BY <1>1, <3>2
  <2> QED
    BY <2>1, <2>2
<1>15. Good(d, g)
  BY <1>1, <1>9, <1>11, <1>14 DEF Good, EndsAt, Counted
<1>16. \E l \in Layers : low = Len(live[l])
  BY <1>4 DEF low
<1> QED
  BY <1>5, <1>9, <1>11, <1>12, <1>13, <1>15, <1>16 DEF Aligns, d

\* The layers as they are rewound, or freed, before a path is paged in.
LEMMA RewoundToIs ==
  ASSUME kinds \in Models, NEW caches \in [Layers -> Cells], NEW k \in Nat, AllAt(caches, k),
         NEW target \in Nat, target <= k, NEW f, NEW p, \A i \in 1 .. target : UpTo(f, i) = UpTo(p, i)
  PROVE  LET live == [l \in Layers |-> IF Rewinds(l, caches[l], target) THEN UpTo(caches[l], target) ELSE <<>>]
         IN  /\ live \in [Layers -> Cells]
             /\ \A l \in Layers : Len(live[l]) <= target
             /\ \E R \in Nat : Rewindable(live, R)
             /\ target = k => AllAt(live, k)
             /\ LiveOf(caches, f) => LiveOf(live, p)
<1> DEFINE New(l) == IF Rewinds(l, caches[l], target) THEN UpTo(caches[l], target) ELSE <<>>
           live == [l \in Layers |-> New(l)]
<1>1. ASSUME NEW l \in Layers
      PROVE  caches[l] \in Cells /\ Len(caches[l]) = k /\ kinds[l] \in {"kv", "rotating", "recurrent"}
             /\ Window \in Nat
  BY LayersAre, CacheAssumption DEF AllAt
<1>2. <<>> \in Cells /\ Len(<<>>) = 0
  BY EmptySeq DEF Cells
<1>3. ASSUME NEW l \in Layers
      PROVE  /\ New(l) \in Cells
             /\ Len(New(l)) = IF Rewinds(l, caches[l], target) THEN target ELSE 0
             /\ CellsOf(l, caches[l], f) => CellsOf(l, New(l), p)
  <2>1. CASE Rewinds(l, caches[l], target)
    <3>1. /\ UpTo(caches[l], target) \in Cells /\ Len(UpTo(caches[l], target)) = target
          /\ CellsOf(l, caches[l], f) => CellsOf(l, UpTo(caches[l], target), f)
      BY <1>1, <2>1, RewoundIs
    <3>2. ASSUME CellsOf(l, UpTo(caches[l], target), f) PROVE CellsOf(l, UpTo(caches[l], target), p)
      <4>1. \A i \in Kept(l, target) : i \in 1 .. target
        BY DEF Kept
      <4> QED
        BY <3>1, <3>2, <4>1 DEF CellsOf
    <3> QED
      BY <2>1, <3>1, <3>2
  <2>2. CASE ~Rewinds(l, caches[l], target)
    <3>1. \A i : i \notin Kept(l, 0)
      BY DEF Kept
    <3> QED
      BY <1>2, <2>2, <3>1 DEF CellsOf
  <2> QED
    BY <2>1, <2>2
<1> HIDE DEF New
<1>4. live \in [Layers -> Cells]
  BY <1>3
<1>5. \A l \in Layers : Len(live[l]) <= target
  BY <1>3
<1>6. ASSUME target = k, NEW l \in Layers PROVE Len(live[l]) = k
  <2>1. Rewinds(l, caches[l], target)
    BY <1>1, <1>6 DEF Rewinds
  <2> QED
    BY <1>3, <1>6, <2>1
<1>7. ASSUME LiveOf(caches, f) PROVE LiveOf(live, p)
  <2> SUFFICES ASSUME NEW l \in Layers PROVE CellsOf(l, New(l), p)
    BY DEF LiveOf, CellsOf
  <2>1. CellsOf(l, caches[l], f)
    BY <1>7 DEF LiveOf, CellsOf
  <2> QED
    BY <1>3, <2>1
<1>8. \E R \in Nat : Rewindable(live, R)
  <2>1. CASE target = k
    <3>1. \A l \in Layers : Len(live[l]) = k
      BY <1>6, <2>1
    <3>2. Rewindable(live, k)
      BY <3>1 DEF Rewindable
    <3> QED
      BY <3>2
  <2>2. CASE target # k
    <3>1. ASSUME NEW l \in Layers
          PROVE  /\ 0 <= Len(New(l))
                 /\ kinds[l] = "recurrent" => Len(New(l)) = 0
                 /\ kinds[l] = "rotating" => Len(New(l)) = 0 \/ Len(New(l)) <= Window
      <4>1. CASE Rewinds(l, caches[l], target)
        <5>1. kinds[l] = "kv" \/ (kinds[l] = "rotating" /\ k <= Window)
          BY <1>1, <2>2, <4>1 DEF Rewinds
        <5>2. Len(New(l)) = target
          BY <1>3, <4>1
        <5> QED
          BY <1>1, <5>1, <5>2
      <4>2. CASE ~Rewinds(l, caches[l], target)
        BY <1>3, <4>2
      <4> QED
        BY <4>1, <4>2
    <3>2. Rewindable(live, 0)
      BY <3>1 DEF Rewindable
    <3> QED
      BY <3>2
  <2> QED
    BY <2>1, <2>2
<1> QED
  BY <1>4, <1>5, <1>6, <1>7, <1>8 DEF AllAt, New

\* What switchToPath comes to, along a match of q.
SwitchedTo(c, d, f, q, matched) ==
  \E g \in DOMAIN d.trie, k \in Nat :
    /\ Good(d, g) /\ AllAt(d.caches, k) /\ Len(g) <= k /\ k <= matched
    /\ IsPrefix(g, q)
    /\ \A m \in DOMAIN c.trie :
         HasAllSnapshots(c.trie[m]) /\ IsPrefix(m, q) /\ Len(m) <= matched => Len(m) <= k
    /\ Points(c.trie) \subseteq Points(d.trie)
    /\ SnapsTrue(c.trie) /\ LiveOf(c.caches, f) => SnapsTrue(d.trie) /\ LiveOf(d.caches, q)

\* switchToPath as a whole.
LEMMA SwitchIs ==
  ASSUME kinds \in Models, NEW c, NEW f, Good(c, f), AllAt(c.caches, Len(f)), NEW q \in Seq(Tokens),
         NEW match, NEW last \in DOMAIN c.trie, Matches(c.trie, <<>>, q, match, last)
  PROVE  SwitchedTo(c, SwitchToPath(c, match), f, q, match.matched)
<1> DEFINE t == c.trie
           common == c.activePath \cap match.path
           g == Longest(common)
           target == Least(Len(g), match.matched)
           e == PagedOut(c, common, match.matched)
           live == [l \in Layers |-> IF Rewinds(l, c.caches[l], target)
                                     THEN UpTo(c.caches[l], target) ELSE <<>>]
           d == SwitchToPath(c, match)
<1>1. /\ c \in CacheRecord /\ GoodTrie(t) /\ TrieShape(DOMAIN t) /\ EndsAt(c, f) /\ f \in DOMAIN t
      /\ c.activePath = PathTo(t, f) /\ c.caches \in [Layers -> Cells]
  BY CacheIs DEF Good, GoodTrie, EndsAt
<1>2. PICK p \in DOMAIN t : RouteTo(t, q, match, p)
  BY <1>1, RouteIs
<1>3. /\ match.path = PathTo(t, p) /\ Route(t, p, match.matched) /\ match.matched \in Nat
      /\ match.matched \in 0 .. Len(q) /\ UpTo(p, match.matched) = UpTo(q, match.matched)
      /\ match.matched \in 0 .. Len(p)
      /\ p \in Seq(Tokens) /\ f \in Seq(Tokens) /\ Len(p) \in Nat /\ Len(f) \in Nat /\ Len(q) \in Nat
  <2>1. p \in Seq(Tokens) /\ f \in Seq(Tokens) /\ Len(p) \in Nat /\ Len(f) \in Nat /\ Len(q) \in Nat
    BY <1>1, UpToWhole DEF TrieShape
  <2> QED
    BY <1>2, <2>1 DEF RouteTo, Route
<1>4. g \in common /\ \A m \in common : Len(m) <= Len(g)
  <2>1. common \subseteq PathTo(t, f) /\ <<>> \in common
    BY <1>1, <1>3, PathIs
  <2>2. common \in SUBSET Seq(Tokens) /\ common # {} /\ \A m \in common : Len(m) <= Len(f)
    BY <1>1, <1>3, <2>1, PathIs
  <2> HIDE DEF common
  <2> QED
    BY <1>3, <2>2, LongestIs
<1>5. /\ g \in Seq(Tokens) /\ Len(g) \in Nat /\ IsPrefix(g, f) /\ IsPrefix(g, p)
      /\ Len(g) <= Len(f) /\ Len(g) <= Len(p)
  <2>1. g \in PathTo(t, f) /\ g \in PathTo(t, p)
    BY <1>1, <1>3, <1>4
  <2> HIDE DEF g
  <2> QED
    BY <1>1, <1>3, <2>1, PathIs, UpToWhole
<1> HIDE DEF g
<1>6. /\ target \in Nat /\ target <= Len(g) /\ target <= match.matched /\ target <= Len(f)
      /\ (target = Len(g) \/ target = match.matched)
  BY <1>3, <1>5 DEF Least
<1> HIDE DEF target
<1>7. ASSUME NEW i \in 1 .. target PROVE UpTo(f, i) = UpTo(p, i)
  <2>1. i \in 0 .. Len(g)
    BY <1>5, <1>6
  <2>2. UpTo(g, i) = UpTo(f, i) /\ UpTo(g, i) = UpTo(p, i)
    BY <1>3, <1>5, <2>1, PrefixUpTo
  <2> QED
    BY <2>2
<1>8. /\ live \in [Layers -> Cells]
      /\ \A l \in Layers : Len(live[l]) <= target
      /\ \E R \in Nat : Rewindable(live, R)
      /\ target = Len(f) => AllAt(live, Len(f))
      /\ LiveOf(c.caches, f) => LiveOf(live, p)
  BY <1>1, <1>3, <1>6, <1>7, RewoundToIs
<1> HIDE DEF live
<1>9. LeftBehind(c, e, f, match.path, match.matched)
  BY PagedOutIs
<1>10. d = PageIn(e, match.path, match.matched, live)
  BY DEF SwitchToPath, live, target, g
<1> HIDE DEF e, d
<1>11. /\ Good(e, f) /\ e.caches = c.caches /\ DOMAIN e.trie = DOMAIN t
       /\ AllBacked(e.trie) \/ (f \in match.path /\ match.matched >= Len(f))
       /\ \A m \in DOMAIN t : HasAllSnapshots(t[m]) => e.trie[m] = t[m]
       /\ Points(t) \subseteq Points(e.trie)
       /\ SnapsTrue(t) /\ LiveOf(c.caches, f) => SnapsTrue(e.trie)
  BY <1>9 DEF LeftBehind
<1>12. /\ e \in CacheRecord /\ e.trie \in AnyTrie /\ GoodTrie(e.trie) /\ TrieShape(DOMAIN e.trie)
       /\ KeysBacked(e.trie, f)
  BY <1>11, CacheIs DEF Good, GoodTrie
<1>13. PathTo(e.trie, p) = PathTo(t, p) /\ Route(e.trie, p, match.matched)
  BY <1>3, <1>11, SameNodes DEF Route
<1>14. AllBacked(e.trie) \/ (p = f /\ match.matched = Len(f) /\ target = Len(f))
  <2>1. SUFFICES ASSUME ~AllBacked(e.trie) PROVE p = f /\ match.matched = Len(f) /\ target = Len(f)
    OBVIOUS
  <2>2. f \in PathTo(t, p) /\ match.matched >= Len(f)
    BY <1>3, <1>11, <2>1
  <2>3. Children(e.trie, f) = {}
    BY <1>12, <2>1 DEF AllBacked, KeysBacked
  <2>4. IsPrefix(f, p)
    BY <2>2 DEF PathTo
  <2>5. p = f
    BY <1>1, <1>11, <1>12, <2>3, <2>4, Descend
  <2>6. match.matched = Len(f)
    BY <1>3, <2>2, <2>5
  <2>7. f \in common
    BY <1>1, <1>3, <2>2, PathEnd
  <2>8. Len(f) <= Len(g)
    BY <1>4, <2>7
  <2> QED
    BY <1>3, <1>5, <1>6, <2>5, <2>6, <2>8
<1>15. Enough(e.trie, live, match.matched)
  BY <1>8, <1>14 DEF Enough, AllAt
<1>16. Paging(e.trie, p, match.matched, live, [live |-> live, failed |-> FALSE], 0)
  <2> DEFINE r == [live |-> live, failed |-> FALSE]
  <2>1. r \in PageState /\ r.live = live /\ ~r.failed
    BY <1>8 DEF PageState
  <2> HIDE DEF r
  <2>2. ASSUME NEW l \in Layers
        PROVE  Len(r.live[l]) <= match.matched /\ Len(live[l]) <= Len(r.live[l]) /\ Len(r.live[l]) \in Nat
    <3>1. live[l] \in Cells /\ Len(live[l]) <= target
      BY <1>8
    <3>2. Len(live[l]) \in Nat
      BY <3>1, UpToWhole DEF Cells
    <3> QED
      BY <1>3, <1>6, <2>1, <3>1, <3>2
  <2>3. ASSUME NEW m \in PathTo(e.trie, p), NEW l \in Layers, Len(m) <= 0 PROVE Len(m) <= Len(r.live[l])
    <3>1. m \in Seq(Tokens) /\ Len(m) \in Nat
      BY <1>3, <1>12, PathIs, UpToWhole
    <3> QED
      BY <2>2, <2>3, <3>1
  <2>4. Paging(e.trie, p, match.matched, live, r, 0)
    BY <1>8, <2>1, <2>2, <2>3 DEF Paging
  <2> QED
    BY <2>4 DEF r
<1>17. PICK x : /\ Paging(e.trie, p, match.matched, live, x, Len(p))
                /\ PagedIn(e.trie, PathTo(e.trie, p), match.matched, live) = x.live
  BY <1>8, <1>12, <1>13, <1>15, <1>16, PagedInIs
<1>18. /\ x.live \in [Layers -> Cells]
       /\ \A l \in Layers : Len(x.live[l]) <= match.matched /\ Len(live[l]) <= Len(x.live[l])
       /\ \E R \in Nat : Rewindable(x.live, R)
       /\ SnapsTrue(e.trie) /\ LiveOf(live, p) => LiveOf(x.live, p)
  BY <1>17 DEF Paging, PageState
<1>19. AllBacked(e.trie) \/ (p = f /\ match.matched = Len(f) /\ AllAt(x.live, match.matched))
  <2>1. CASE AllBacked(e.trie)
    BY <2>1
  <2>2. CASE p = f /\ match.matched = Len(f) /\ target = Len(f)
    <3>1. ASSUME NEW l \in Layers PROVE Len(x.live[l]) = match.matched
      <4>1. x.live[l] \in Cells /\ Len(live[l]) = Len(f)
        BY <1>8, <1>18, <2>2 DEF AllAt
      <4>2. Len(x.live[l]) \in Nat
        BY <4>1, UpToWhole DEF Cells
      <4> QED
        BY <1>3, <1>18, <2>2, <4>1, <4>2
    <3> QED
      BY <2>2, <3>1 DEF AllAt
  <2> QED
    BY <1>14, <2>1, <2>2
<1>20. Aligns(e, Align(e, PathTo(e.trie, p), x.live), p, match.matched, x.live)
  <2>1. PICK R \in Nat : Rewindable(x.live, R)
    BY <1>18
  <2> QED
    BY <1>11, <1>13, <1>18, <1>19, <2>1, AlignIs
<1>21. d = Align(e, PathTo(e.trie, p), x.live)
  BY <1>3, <1>10, <1>13, <1>17 DEF PageIn
<1>22. PICK h \in DOMAIN e.trie, k \in Nat :
         /\ Good(d, h) /\ AllAt(d.caches, k) /\ Len(h) <= k /\ k <= match.matched
         /\ IsPrefix(h, p)
         /\ \E l \in Layers : k = Len(x.live[l])
         /\ LiveOf(x.live, p) => LiveOf(d.caches, p)
  BY <1>20, <1>21 DEF Aligns
<1>23. d.trie = e.trie
  BY <1>20, <1>21 DEF Aligns
<1>24. ASSUME NEW i \in 0 .. match.matched PROVE UpTo(p, i) = UpTo(q, i)
  <2>1. UpTo(UpTo(p, match.matched), i) = UpTo(p, i) /\ UpTo(UpTo(q, match.matched), i) = UpTo(q, i)
    BY <1>3, UpToUpTo
  <2> QED
    BY <1>3, <2>1
<1>25. IsPrefix(h, q)
  <2>1. h \in Seq(Tokens) /\ Len(h) \in Nat /\ h = UpTo(p, Len(h))
    BY <1>3, <1>12, <1>22, PrefixIs, UpToWhole DEF TrieShape
  <2>2. Len(h) \in 0 .. match.matched /\ Len(h) <= Len(q)
    BY <1>3, <1>22, <2>1
  <2> QED
    BY <1>24, <2>1, <2>2, PrefixIs
<1>26. ASSUME LiveOf(d.caches, p) PROVE LiveOf(d.caches, q)
  <2> SUFFICES ASSUME NEW l \in Layers, NEW i \in Kept(l, Len(d.caches[l])) PROVE d.caches[l][i] = UpTo(q, i)
    BY DEF LiveOf
  <2>1. Len(d.caches[l]) = k
    BY <1>22 DEF AllAt
  <2>2. i \in 1 .. k
    BY <2>1 DEF Kept
  <2>3. i \in 0 .. match.matched
    BY <1>3, <1>22, <2>2
  <2> QED
    BY <1>24, <1>26, <2>3 DEF LiveOf
<1>27. ASSUME NEW m \in DOMAIN t, HasAllSnapshots(t[m]), IsPrefix(m, q), Len(m) <= match.matched
       PROVE  Len(m) <= k
  <2>1. m \in DOMAIN e.trie /\ m \in Seq(Tokens) /\ Len(m) \in Nat /\ Len(m) \in 0 .. match.matched
    BY <1>1, <1>3, <1>11, <1>27, UpToWhole DEF TrieShape
  <2>2. m = UpTo(q, Len(m)) /\ Len(m) <= Len(p)
    BY <1>3, <1>27, <2>1, PrefixIs
  <2>3. IsPrefix(m, p)
    BY <1>3, <1>24, <2>1, <2>2, PrefixIs
  <2>4. m \in PathTo(e.trie, p)
    BY <2>1, <2>3 DEF PathTo
  <2>5. PICK l \in Layers : k = Len(x.live[l])
    BY <1>22
  <2>6. e.trie[m].snaps[l] # None
    BY <1>11, <1>27 DEF HasAllSnapshots
  <2>7. Len(m) <= Len(x.live[l])
    BY <1>17, <1>27, <2>2, <2>4, <2>6 DEF Paging
  <2> QED
    BY <2>5, <2>7
<1> QED
  BY <1>8, <1>11, <1>18, <1>22, <1>23, <1>25, <1>26, <1>27 DEF SwitchedTo, d

-----------------------------------------------------------------------------
(* The inductive invariant: a step leaves the kinds of the layers alone *)

\* What is said of a trie or of live caches depends on the state by the kinds alone.
LEMMA SameKinds ==
  ASSUME kinds' = kinds
  PROVE  /\ \A c, f : Good(c, f)' <=> Good(c, f)
         /\ \A t : SnapsTrue(t)' <=> SnapsTrue(t)
         /\ \A live, k : AllAt(live, k)' <=> AllAt(live, k)
         /\ \A live, s : LiveOf(live, s)' <=> LiveOf(live, s)
<1>1. Layers' = Layers
  BY DEF Layers
<1>2. CacheRecord' = CacheRecord
  <2>1. AnySnaps' = AnySnaps
    BY <1>1 DEF AnySnaps
  <2>2. NodeRecord' = NodeRecord
    BY <2>1 DEF NodeRecord
  <2>3. AnyTrie' = AnyTrie
    BY <2>2 DEF AnyTrie
  <2> QED
    BY <1>1, <2>3 DEF CacheRecord
<1>3. \A t : SnapsFit(t)' <=> SnapsFit(t)
  <2>1. \A l, n, start, s : Fits(l, n, start, s)' <=> Fits(l, n, start, s)
    BY DEF Fits
  <2> QED
    BY <1>1, <2>1 DEF SnapsFit
<1>4. \A t : SnapsTogether(t)' <=> SnapsTogether(t)
  <2>1. \A s : Together(s)' <=> Together(s)
    BY <1>1 DEF Together
  <2> QED
    BY <2>1 DEF SnapsTogether
<1>5. \A t, f : KeysBacked(t, f)' <=> KeysBacked(t, f)
  <2>1. \A s : HasKeys(s)' <=> HasKeys(s)
    BY <1>1 DEF HasKeys
  <2>2. NoSnaps' = NoSnaps
    BY <1>1 DEF NoSnaps
  <2> QED
    BY <2>1, <2>2 DEF KeysBacked
<1>6. \A c : Counted(c)' <=> Counted(c)
  <2>1. \A s : HeldBy(s)' = HeldBy(s)
    BY <1>1 DEF HeldBy
  <2>2. \A t : AllHeld(t)' = AllHeld(t)
    BY <2>1 DEF AllHeld
  <2> QED
    BY <2>2 DEF Counted
<1>7. \A c, f : Good(c, f)' <=> Good(c, f)
  <2>1. \A t : GoodTrie(t)' <=> GoodTrie(t)
    BY <1>3, <1>4 DEF GoodTrie
  <2> QED
    BY <1>2, <1>5, <1>6, <2>1 DEF Good
<1>8. \A l, n : Kept(l, n)' = Kept(l, n)
  BY DEF Kept
<1>9. \A t : SnapsTrue(t)' <=> SnapsTrue(t)
  <2>1. \A l, n, s : TrueSnap(l, n, s)' <=> TrueSnap(l, n, s)
    BY <1>8 DEF TrueSnap
  <2> QED
    BY <1>1, <2>1 DEF SnapsTrue
<1>10. \A live, k : AllAt(live, k)' <=> AllAt(live, k)
  BY <1>1 DEF AllAt
<1>11. \A live, s : LiveOf(live, s)' <=> LiveOf(live, s)
  BY <1>1, <1>8 DEF LiveOf
<1> QED
  BY <1>7, <1>9, <1>10, <1>11

\* Neither do the restore points.
LEMMA SamePointsNext ==
  ASSUME kinds' = kinds
  PROVE  RestorePoints = Points(cache.trie) /\ RestorePoints' = Points(cache'.trie)
<1>1. Layers' = Layers
  BY DEF Layers
<1> QED
  BY <1>1 DEF RestorePoints, Points, HasAllSnapshots

\* What is left to show of a step.
LEMMA IInvNext ==
  ASSUME kinds \in Models, kinds' = kinds, session' \in SessionRecord, misfiled' \in BOOLEAN,
         NEW f \in DOMAIN cache'.trie, NEW k \in Nat, Good(cache', f), AllAt(cache'.caches, k), Len(f) <= k,
         session'.pc = "idle" => session' = NoSession /\ Len(f) = k,
         session'.pc # "idle" => InSession(f, k)',
         ~misfiled' => SnapsTrue(cache'.trie),
         ~misfiled' /\ session'.pc # "cut" =>
            LiveOf(cache'.caches, IF session'.pc = "idle" THEN f ELSE Stored')
  PROVE  IInv'
<1>1. Good(cache, f)' /\ AllAt(cache.caches, k)'
  BY SameKinds
<1>2. (~misfiled => SnapsTrue(cache.trie))'
  BY SameKinds
<1>3. (~misfiled /\ session.pc # "cut" =>
            LiveOf(cache.caches, IF session.pc = "idle" THEN f ELSE Stored))'
  BY SameKinds
<1> QED
  BY <1>1, <1>2, <1>3 DEF IInv, SessionRecord, NoSession

\* What the invariant says, with its witnesses.
Holds(f, k) ==
  /\ f \in DOMAIN cache.trie /\ k \in Nat
  /\ Good(cache, f) /\ AllAt(cache.caches, k) /\ Len(f) <= k
  /\ session.pc = "idle" => session = NoSession /\ Len(f) = k
  /\ session.pc # "idle" => InSession(f, k)
  /\ ~misfiled => SnapsTrue(cache.trie)
  /\ ~misfiled /\ session.pc # "cut" =>
       LiveOf(cache.caches, IF session.pc = "idle" THEN f ELSE Stored)

\* A step takes no restore point away.
NoPointLost == Points(cache.trie) \subseteq Points(cache'.trie)

\* The invariant with its witnesses.
LEMMA IInvIs ==
  ASSUME IInv
  PROVE  /\ kinds \in Models /\ session \in SessionRecord /\ misfiled \in BOOLEAN
         /\ \E f, k : Holds(f, k)
<1>1. PICK f \in DOMAIN cache.trie, k \in Nat :
       /\ Good(cache, f)
       /\ AllAt(cache.caches, k)
       /\ Len(f) <= k
       /\ session.pc = "idle" => session = NoSession /\ Len(f) = k
       /\ session.pc # "idle" => InSession(f, k)
       /\ ~misfiled => SnapsTrue(cache.trie)
       /\ ~misfiled /\ session.pc # "cut" =>
            LiveOf(cache.caches, IF session.pc = "idle" THEN f ELSE Stored)
  BY DEF IInv
<1>2. Holds(f, k)
  BY <1>1 DEF Holds
<1> QED
  BY <1>2 DEF IInv

\* The fields of a session.
LEMMA SessionIs ==
  ASSUME session \in SessionRecord
  PROVE  /\ session.pc \in {"idle", "prefill", "decode", "cut"}
         /\ session.inputs \in Seq(Tokens) /\ session.outputs \in Seq(Tokens)
         /\ Len(session.inputs) \in Nat /\ Len(session.outputs) \in Nat
         /\ session.position \in Nat /\ session.evict \in BOOLEAN
         /\ session.pending \in SUBSET [offset : Nat, user : BOOLEAN]
         /\ Stored \in Seq(Tokens) /\ Len(Stored) = Len(session.inputs) + Len(session.outputs)
         /\ session = [pc |-> session.pc, inputs |-> session.inputs, outputs |-> session.outputs,
                       position |-> session.position, pending |-> session.pending, evict |-> session.evict]
<1>1. /\ session.pc \in {"idle", "prefill", "decode", "cut"}
      /\ session.inputs \in Seq(Tokens) /\ session.outputs \in Seq(Tokens)
      /\ session.position \in Nat /\ session.evict \in BOOLEAN
      /\ session.pending \in SUBSET [offset : Nat, user : BOOLEAN]
      /\ session = [pc |-> session.pc, inputs |-> session.inputs, outputs |-> session.outputs,
                    position |-> session.position, pending |-> session.pending, evict |-> session.evict]
  BY DEF SessionRecord
<1>2. Len(session.inputs) \in Nat /\ Len(session.outputs) \in Nat
  BY <1>1, UpToWhole
<1>3. Stored \in Seq(Tokens) /\ Len(Stored) = Len(session.inputs) + Len(session.outputs)
  BY <1>1, PrefixConcat DEF Stored
<1> QED
  BY <1>1, <1>2, <1>3

\* The lowest offset is that of every layer.
LEMMA OffsetIs ==
  ASSUME kinds \in Models, NEW c, NEW k \in Nat, AllAt(c.caches, k)
  PROVE  MinCacheOffset(c) = k
<1> DEFINE S == {Len(c.caches[l]) : l \in Layers}
<1>1. S \in SUBSET Nat /\ S # {} /\ \A i \in S : i = k
  BY LayersAre DEF AllAt
<1> HIDE DEF S
<1>2. LeastOf(S) \in S
  BY <1>1, LeastOfIs
<1> QED
  BY <1>1, <1>2 DEF MinCacheOffset, S

\* The live caches alone change.
LEMMA CachesChanged ==
  ASSUME kinds \in Models, NEW c, NEW f, Good(c, f), NEW live \in [Layers -> Cells]
  PROVE  LET d == [c EXCEPT !.caches = live]
         IN  Good(d, f) /\ d.trie = c.trie /\ d.caches = live /\ d.activePath = c.activePath
<1> DEFINE d == [c EXCEPT !.caches = live]
<1>1. c \in CacheRecord
  BY DEF Good
<1>2. /\ d \in CacheRecord /\ d.trie = c.trie /\ d.caches = live /\ d.activePath = c.activePath
      /\ d.pagedOutBytes = c.pagedOutBytes
  BY <1>1 DEF CacheRecord
<1> HIDE DEF d
<1>3. Good(d, f)
  BY <1>2 DEF Good, EndsAt, Counted
<1> QED
  BY <1>2, <1>3 DEF d

\* A forward pass adds n tokens to every layer.
LEMMA ForwardIs ==
  ASSUME kinds \in Models, NEW f, Good(cache, f), NEW k \in Nat, AllAt(cache.caches, k),
         NEW s \in Seq(Tokens), NEW n \in Nat \ {0}, k + n <= Len(s)
  PROVE  LET d == Forward(s, n)
         IN  /\ Good(d, f) /\ d.trie = cache.trie /\ AllAt(d.caches, k + n)
             /\ LiveOf(cache.caches, s) => LiveOf(d.caches, s)
<1> DEFINE New(l) == Appended(l, cache.caches[l], s, n)
           live == [l \in Layers |-> New(l)]
           d == Forward(s, n)
<1>1. cache.caches \in [Layers -> Cells]
  BY CacheIs DEF Good
<1>2. ASSUME NEW l \in Layers
      PROVE  /\ New(l) \in Cells /\ Len(New(l)) = k + n
             /\ CellsOf(l, cache.caches[l], s) => CellsOf(l, New(l), s)
  <2>1. cache.caches[l] \in Cells /\ Len(cache.caches[l]) = k
    BY <1>1 DEF AllAt
  <2>2. PICK old \in Cells : old = cache.caches[l]
    BY <2>1
  <2>3. /\ New(l) \in Cells /\ Len(New(l)) = Len(old) + n
        /\ (\A i \in Kept(l, Len(old)) : old[i] = UpTo(s, i)) =>
             \A i \in Kept(l, Len(old) + n) : New(l)[i] = UpTo(s, i)
    BY <2>1, <2>2, AppendedIs
  <2> HIDE DEF New
  <2> QED
    BY <2>1, <2>2, <2>3 DEF CellsOf
<1>3. d = [cache EXCEPT !.caches = live]
  BY DEF Forward
<1> HIDE DEF New, d
<1>4. live \in [Layers -> Cells]
  BY <1>2
<1> HIDE DEF live
<1>5. Good(d, f) /\ d.trie = cache.trie /\ d.caches = live
  BY <1>3, <1>4, CachesChanged
<1>6. AllAt(d.caches, k + n)
  BY <1>2, <1>5 DEF AllAt, live
<1>7. ASSUME LiveOf(cache.caches, s) PROVE LiveOf(d.caches, s)
  <2> SUFFICES ASSUME NEW l \in Layers PROVE CellsOf(l, New(l), s)
    BY <1>5 DEF LiveOf, CellsOf, live
  <2>1. CellsOf(l, cache.caches[l], s)
    BY <1>7 DEF LiveOf, CellsOf
  <2> QED
    BY <1>2, <2>1
<1> QED
  BY <1>5, <1>6, <1>7 DEF d

\* The invariant holds with an empty cache.
LEMMA InitIInv == Init => IInv
<1> SUFFICES ASSUME Init PROVE IInv
  OBVIOUS
<1> DEFINE t == [n \in {<<>>} |-> NewNode]
           live == [l \in Layers |-> <<>>]
<1>1. /\ kinds \in Models /\ session = NoSession /\ misfiled = FALSE
      /\ cache = [trie |-> t, activePath |-> {<<>>}, caches |-> live, pagedOutBytes |-> 0]
  BY DEF Init
<1>2. NewNode \in NodeRecord /\ NewNode.snaps = NoSnaps
  BY <1>1, NewNodeIs
<1>3. /\ <<>> \in Seq(Tokens) /\ <<>> \in Cells /\ Len(<<>>) = 0 /\ IsPrefix(<<>>, <<>>)
      /\ \A n \in {<<>>} : n = <<>>
  BY EmptySeq, PrefixSelf DEF Cells
<1>4. t \in AnyTrie /\ DOMAIN t = {<<>>} /\ t[<<>>].snaps = NoSnaps
  <2> HIDE DEF NewNode, NodeRecord
  <2>1. t \in [{<<>>} -> NodeRecord] /\ {<<>>} \in SUBSET Seq(Tokens)
    BY <1>2, <1>3
  <2> QED
    BY <1>2, <2>1, IsTrie
<1> HIDE DEF t
<1>5. live \in [Layers -> Cells] /\ \A l \in Layers : live[l] = <<>>
  BY <1>3
<1> HIDE DEF live
<1>6. cache \in CacheRecord
  BY <1>1, <1>3, <1>4, <1>5 DEF CacheRecord
<1>7. TrieShape(DOMAIN t)
  <2>1. MeetClosed({<<>>})
    BY <1>3 DEF MeetClosed
  <2>2. IsFiniteSet({<<>>})
    BY FS_Singleton
  <2> QED
    BY <1>3, <1>4, <2>1, <2>2 DEF TrieShape
<1>8. SnapsFit(t) /\ SnapsTogether(t) /\ SnapsTrue(t)
  BY <1>4, NoSnapsFit DEF SnapsFit, SnapsTogether, SnapsTrue
<1>9. EndsAt(cache, <<>>)
  <2>1. PathTo(t, <<>>) = {<<>>}
    BY <1>3, <1>4 DEF PathTo
  <2> QED
    BY <1>1, <1>4, <2>1 DEF EndsAt
<1>10. KeysBacked(t, <<>>)
  BY <1>4 DEF KeysBacked
<1>11. Counted(cache)
  <2>1. HeldBy(NoSnaps) = {}
    BY <1>1, NothingHeld
  <2>2. AllHeld(t) = {}
    BY <1>4, <2>1 DEF AllHeld
  <2> QED
    BY <1>1, <2>2, FS_EmptySet DEF Counted
<1>12. Good(cache, <<>>)
  BY <1>1, <1>6, <1>7, <1>8, <1>9, <1>10, <1>11 DEF Good, GoodTrie
<1>13. AllAt(cache.caches, 0)
  BY <1>1, <1>3, <1>5 DEF AllAt
<1>14. LiveOf(cache.caches, <<>>)
  BY <1>1, <1>3, <1>5 DEF LiveOf, Kept
<1>15. session \in SessionRecord /\ session.pc = "idle"
  BY <1>1, <1>3 DEF SessionRecord, NoSession
<1>16. <<>> \in DOMAIN cache.trie
  BY <1>1, <1>4
<1>17. SnapsTrue(cache.trie)
  BY <1>1, <1>8
<1>18. Holds(<<>>, 0)
  BY <1>1, <1>3, <1>12, <1>13, <1>14, <1>15, <1>16, <1>17 DEF Holds
<1>19. misfiled \in BOOLEAN
  BY <1>1
<1> QED
  BY <1>1, <1>15, <1>18, <1>19 DEF IInv, Holds

-----------------------------------------------------------------------------
(* Its steps *)

\* Nothing changes.
LEMMA StutterStep ==
  ASSUME IInv, UNCHANGED vars
  PROVE  IInv' /\ NoPointLost
<1>1. kinds' = kinds /\ cache' = cache /\ session' = session /\ misfiled' = misfiled
  BY DEF vars
<1>2. kinds \in Models /\ session \in SessionRecord /\ misfiled \in BOOLEAN
  BY IInvIs
<1>3. PICK f, k : Holds(f, k)
  BY IInvIs
<1>4. Stored' = Stored /\ (InSession(f, k)' <=> InSession(f, k))
  BY <1>1 DEF Stored, InSession
<1>5. IInv'
  BY <1>1, <1>2, <1>3, <1>4, IInvNext DEF Holds
<1> QED
  BY <1>1, <1>5 DEF NoPointLost

\* enforceEvictionPolicy after a session was closed.
LEMMA EvictStep ==
  ASSUME IInv, Evict
  PROVE  IInv' /\ \E n \in Evictable(cache) : Points(cache.trie) \ {n} \subseteq Points(cache'.trie)
<1>1. PICK n \in Evictable(cache) : cache' = Evicted(cache, n)
  BY DEF Evict, Evicted
<1>2. kinds' = kinds /\ session' = session /\ misfiled' = misfiled
  BY DEF Evict
<1>3. kinds \in Models /\ session \in SessionRecord /\ misfiled \in BOOLEAN
  BY IInvIs
<1>4. PICK f, k : Holds(f, k)
  BY IInvIs
<1>5. Good(cache, f)
  BY <1>4 DEF Holds
<1>6. KeptOn(cache, cache', f, n)
  BY <1>1, <1>3, <1>5, EvictedIs
<1>7. /\ Good(cache', f) /\ cache'.caches = cache.caches /\ f \in DOMAIN cache'.trie
      /\ Points(cache.trie) \ {n} \subseteq Points(cache'.trie)
      /\ SnapsTrue(cache.trie) => SnapsTrue(cache'.trie)
  BY <1>6 DEF KeptOn, Good, EndsAt
<1>8. Stored' = Stored /\ (InSession(f, k)' <=> InSession(f, k))
  BY <1>2 DEF Stored, InSession
<1>9. IInv'
  BY <1>2, <1>3, <1>4, <1>7, <1>8, IInvNext DEF Holds
<1> QED
  BY <1>7, <1>9

\* A match leaves a token to be evaluated.
LEMMA MatchIs ==
  ASSUME kinds \in Models, NEW f, Good(cache, f), NEW inputs \in Seq(Tokens), inputs # <<>>
  PROVE  \E q \in Seq(Tokens), last \in DOMAIN cache.trie :
           /\ Matches(cache.trie, <<>>, q, Match(inputs), last)
           /\ IsPrefix(q, inputs) /\ Match(inputs).matched < Len(inputs)
           /\ Match(inputs).matched \in 0 .. Len(q)
           /\ \A m \in DOMAIN cache.trie : IsStrictPrefix(m, inputs)
                => IsPrefix(m, q) /\ Len(m) <= Match(inputs).matched
<1> DEFINE t == cache.trie
           whole == FindBestMatch(t, <<>>, inputs)
           less == UpTo(inputs, Len(inputs) - 1)
<1>1. TrieShape(DOMAIN t) /\ <<>> \in DOMAIN t
  BY DEF Good, GoodTrie, TrieShape
<1>2. Len(inputs) \in Nat /\ Len(inputs) # 0 /\ IsPrefix(inputs, inputs)
  BY EmptyIs, UpToWhole, PrefixSelf
<1>3. PICK last \in DOMAIN t : Matches(t, <<>>, inputs, whole, last)
  BY <1>1, PrefixSelf, BestMatchIs
<1>4. CASE whole.matched < Len(inputs)
  <2>1. Match(inputs) = whole
    BY <1>4 DEF Match
  <2>2. whole.matched \in 0 .. Len(inputs)
    BY <1>3 DEF Matches
  <2>3. ASSUME NEW m \in DOMAIN t, IsStrictPrefix(m, inputs) PROVE Len(m) <= whole.matched /\ IsPrefix(m, inputs)
    <3>1. IsPrefix(m, inputs)
      BY <2>3 DEF IsStrictPrefix
    <3> QED
      BY <1>1, <1>3, <3>1, NodeMatched DEF TrieShape
  <2> HIDE DEF whole
  <2> QED
    BY <1>2, <1>3, <1>4, <2>1, <2>2, <2>3
<1>5. CASE ~ whole.matched < Len(inputs)
  <2>1. Match(inputs) = FindBestMatch(t, <<>>, less)
    BY <1>5 DEF Match
  <2>2. Len(inputs) - 1 \in 0 .. Len(inputs) /\ Len(inputs) - 1 < Len(inputs)
    BY <1>2
  <2>3. less \in Seq(Tokens) /\ Len(less) = Len(inputs) - 1 /\ IsPrefix(less, inputs)
    BY <2>2, UpToIs, UpToPrefix
  <2> HIDE DEF less
  <2>4. PICK l2 \in DOMAIN t : Matches(t, <<>>, less, Match(inputs), l2)
    BY <1>1, <2>1, <2>3, PrefixSelf, BestMatchIs
  <2>5. Match(inputs).matched \in 0 .. Len(less)
    BY <2>4 DEF Matches
  <2>6. Match(inputs).matched < Len(inputs)
    BY <1>2, <2>3, <2>5
  <2>7. ASSUME NEW m \in DOMAIN t, IsStrictPrefix(m, inputs)
        PROVE  IsPrefix(m, less) /\ Len(m) <= Match(inputs).matched
    <3>1. m \in Seq(Tokens) /\ Len(m) \in Nat /\ IsPrefix(m, inputs) /\ m # inputs
      BY <1>1, <2>7, UpToWhole DEF TrieShape, IsStrictPrefix
    <3>2. Len(m) <= Len(inputs) /\ Len(m) # Len(inputs)
      BY <1>2, <3>1, PrefixIs, UpToWhole
    <3>3. Len(m) <= Len(less)
      BY <1>2, <2>3, <3>1, <3>2
    <3>4. IsPrefix(m, less)
      BY <2>3, <3>1, <3>3, PrefixComparable
    <3> QED
      BY <1>1, <2>3, <2>4, <3>4, NodeMatched DEF TrieShape
  <2> QED
    BY <2>3, <2>4, <2>5, <2>6, <2>7
<1> QED
  BY <1>4, <1>5

\* Cells of a prefix are those of the whole, and the other way round.
LEMMA LiveOfPrefix ==
  ASSUME NEW live, NEW k \in Nat, AllAt(live, k), NEW q \in Seq(Tokens), NEW s \in Seq(Tokens),
         IsPrefix(q, s), k <= Len(q)
  PROVE  LiveOf(live, q) <=> LiveOf(live, s)
<1>1. ASSUME NEW i \in 1 .. k PROVE UpTo(q, i) = UpTo(s, i)
  <2>1. i \in 0 .. Len(q)
    BY UpToWhole
  <2> QED
    BY <2>1, PrefixUpTo
<1>2. \A l \in Layers : \A i \in Kept(l, Len(live[l])) : i \in 1 .. k
  BY DEF AllAt, Kept
<1> QED
  BY <1>1, <1>2 DEF LiveOf

\* begin finds a match and switches to its path.
LEMMA BeginStep ==
  ASSUME IInv, NEW inputs \in TokenSeqs(MaxPrompt), Begin(inputs)
  PROVE  IInv' /\ NoPointLost
<1>1. kinds \in Models /\ session \in SessionRecord /\ misfiled \in BOOLEAN
  BY IInvIs
<1>2. PICK f, k : Holds(f, k)
  BY IInvIs
<1>3. inputs \in Seq(Tokens) /\ inputs # <<>> /\ Len(inputs) \in Nat
  <2>1. PICK n \in 1 .. MaxPrompt : inputs \in [1 .. n -> Tokens]
    BY DEF TokenSeqs
  <2>2. inputs \in Seq(Tokens) /\ Len(inputs) = n /\ n # 0
    BY <2>1, CacheAssumption, FunIsSeq
  <2> QED
    BY <2>2, EmptySeq
<1>4. /\ session.pc = "idle" /\ cache' = SwitchToPath(cache, Match(inputs))
      /\ kinds' = kinds /\ misfiled' = misfiled
      /\ session' = [NoSession EXCEPT
           !.pc = "prefill", !.inputs = inputs, !.position = MinCacheOffset(cache'), !.evict = TRUE,
           !.pending = Pending(Wanted(inputs, MinCacheOffset(cache')), MinCacheOffset(cache'),
                               Match(inputs).matched)]
  BY DEF Begin
<1>5. /\ Good(cache, f) /\ AllAt(cache.caches, Len(f)) /\ k = Len(f) /\ k \in Nat
      /\ ~misfiled => SnapsTrue(cache.trie) /\ LiveOf(cache.caches, f)
  BY <1>2, <1>4 DEF Holds
<1>6. PICK q \in Seq(Tokens), last \in DOMAIN cache.trie :
           /\ Matches(cache.trie, <<>>, q, Match(inputs), last)
           /\ IsPrefix(q, inputs) /\ Match(inputs).matched < Len(inputs)
           /\ Match(inputs).matched \in 0 .. Len(q)
  BY <1>1, <1>3, <1>5, MatchIs
<1>7. SwitchedTo(cache, cache', f, q, Match(inputs).matched)
  BY <1>1, <1>4, <1>5, <1>6, SwitchIs
<1>8. PICK g \in DOMAIN cache'.trie, j \in Nat :
    /\ Good(cache', g) /\ AllAt(cache'.caches, j) /\ Len(g) <= j /\ j <= Match(inputs).matched
    /\ IsPrefix(g, q)
    /\ Points(cache.trie) \subseteq Points(cache'.trie)
    /\ SnapsTrue(cache.trie) /\ LiveOf(cache.caches, f) => SnapsTrue(cache'.trie) /\ LiveOf(cache'.caches, q)
  BY <1>7 DEF SwitchedTo
<1>9. MinCacheOffset(cache') = j
  BY <1>1, <1>8, OffsetIs
<1> DEFINE pending == Pending(Wanted(inputs, j), j, Match(inputs).matched)
<1>10. PICK m \in Nat : m = Match(inputs).matched /\ j <= m /\ m <= Len(q) /\ m < Len(inputs)
  BY <1>6, <1>8, UpToWhole
<1>11. pending \in SUBSET [offset : Nat, user : BOOLEAN]
  <2>1. \A o \in Wanted(inputs, j) : o \in Nat
    BY <1>3 DEF Wanted
  <2> DEFINE W == Wanted(inputs, j)
             E == IF j < m THEN {m} \ W ELSE {}
  <2>2. \A o \in E : o \in Nat
    OBVIOUS
  <2>3. pending = {[offset |-> o, user |-> TRUE] : o \in W} \cup {[offset |-> o, user |-> FALSE] : o \in E}
    BY <1>10 DEF Pending
  <2> DEFINE R == [offset : Nat, user : BOOLEAN]
  <2>4. \A o \in Nat : [offset |-> o, user |-> TRUE] \in R /\ [offset |-> o, user |-> FALSE] \in R
    OBVIOUS
  <2>5. \A o \in W : o \in Nat
    BY <2>1
  <2> HIDE DEF W, E, R, pending
  <2>6. {[offset |-> o, user |-> TRUE] : o \in W} \subseteq R
    BY <2>4, <2>5
  <2>7. {[offset |-> o, user |-> FALSE] : o \in E} \subseteq R
    BY <2>2, <2>4
  <2>8. pending \subseteq R
    BY <2>3, <2>6, <2>7
  <2> QED
    BY <2>8 DEF R
<1> HIDE DEF pending
<1>12. session' = [pc |-> "prefill", inputs |-> inputs, outputs |-> <<>>, position |-> j,
                   pending |-> pending, evict |-> TRUE]
  BY <1>4, <1>9 DEF NoSession, pending
<1>13. session' \in SessionRecord
  BY <1>3, <1>11, <1>12, EmptySeq DEF SessionRecord
<1>14. Stored' = inputs
  BY <1>3, <1>12, ConcatEmptySeq DEF Stored
<1>15. IsPrefix(g, inputs)
  <2>1. g \in Seq(Tokens)
    BY <1>8, FrontierIs
  <2> QED
    BY <1>3, <1>6, <1>8, <2>1, PrefixTrans
<1>16. InSession(g, j)'
  <2>1. j < Len(inputs)
    BY <1>3, <1>10
  <2>2. session'.pc = "prefill" /\ session'.position = j /\ session'.outputs = <<>> /\ session'.inputs = inputs
    BY <1>12
  <2> QED
    BY <1>14, <1>15, <2>1, <2>2 DEF InSession
<1>17. LiveOf(cache'.caches, q) <=> LiveOf(cache'.caches, inputs)
  <2>1. j <= Len(q)
    BY <1>10, UpToWhole
  <2> QED
    BY <1>3, <1>6, <1>8, <2>1, LiveOfPrefix
<1>18. session'.pc = "prefill"
  BY <1>12
<1>19. IInv'
  BY <1>1, <1>4, <1>5, <1>8, <1>13, <1>14, <1>16, <1>17, <1>18, IInvNext
<1> QED
  BY <1>8, <1>19 DEF NoPointLost

\* begin comes at least to every node on the way for which all layers have snapshots.
LEMMA BeginServes ==
  ASSUME IInv, NEW inputs \in TokenSeqs(MaxPrompt), Begin(inputs),
         NEW n \in DOMAIN cache.trie, HasAllSnapshots(cache.trie[n]), IsStrictPrefix(n, session'.inputs)
  PROVE  Len(n) <= session'.position
<1>1. kinds \in Models
  BY IInvIs
<1>2. PICK f, k : Holds(f, k)
  BY IInvIs
<1>3. inputs \in Seq(Tokens) /\ inputs # <<>>
  <2>1. PICK i \in 1 .. MaxPrompt : inputs \in [1 .. i -> Tokens]
    BY DEF TokenSeqs
  <2>2. inputs \in Seq(Tokens) /\ Len(inputs) = i /\ i # 0
    BY <2>1, CacheAssumption, FunIsSeq
  <2> QED
    BY <2>2, EmptySeq
<1>4. /\ session.pc = "idle" /\ cache' = SwitchToPath(cache, Match(inputs)) /\ kinds' = kinds
      /\ session'.inputs = inputs /\ session'.position = MinCacheOffset(cache')
  BY DEF Begin, NoSession
<1>5. Good(cache, f) /\ AllAt(cache.caches, Len(f))
  BY <1>2, <1>4 DEF Holds
<1>6. PICK q \in Seq(Tokens), last \in DOMAIN cache.trie :
           /\ Matches(cache.trie, <<>>, q, Match(inputs), last)
           /\ \A m \in DOMAIN cache.trie : IsStrictPrefix(m, inputs)
                => IsPrefix(m, q) /\ Len(m) <= Match(inputs).matched
  BY <1>1, <1>3, <1>5, MatchIs
<1>7. SwitchedTo(cache, cache', f, q, Match(inputs).matched)
  BY <1>1, <1>4, <1>5, <1>6, SwitchIs
<1>8. PICK g \in DOMAIN cache'.trie, j \in Nat :
    /\ Good(cache', g) /\ AllAt(cache'.caches, j)
    /\ \A m \in DOMAIN cache.trie :
         HasAllSnapshots(cache.trie[m]) /\ IsPrefix(m, q) /\ Len(m) <= Match(inputs).matched => Len(m) <= j
  BY <1>7 DEF SwitchedTo
<1>9. MinCacheOffset(cache') = j
  BY <1>1, <1>8, OffsetIs
<1>10. IsPrefix(n, q) /\ Len(n) <= Match(inputs).matched
  BY <1>4, <1>6
<1> QED
  BY <1>4, <1>8, <1>9, <1>10

\* How many tokens the next batch has.
LEMMA BatchIs ==
  ASSUME session \in SessionRecord, session.position < Len(session.inputs), Left > 1
  PROVE  BatchSize \in 1 .. Left - 1 /\ Left = Len(session.inputs) - session.position /\ Left \in Nat
<1> DEFINE n == Least(PrefillChunk, Left - 1)
           next == {p.offset - session.position : p \in session.pending} \cap 1 .. n
<1>1. /\ Len(session.inputs) \in Nat /\ session.position \in Nat
      /\ Left = Len(session.inputs) - session.position /\ Left \in Nat
      /\ PrefillChunk \in Nat \ {0}
  BY SessionIs, CacheAssumption DEF Left
<1>2. n \in 1 .. Left - 1
  BY <1>1 DEF Least
<1>3. BatchSize = IF next = {} THEN n ELSE LeastOf(next)
  BY DEF BatchSize
<1> HIDE DEF n
<1>4. next \in SUBSET Nat /\ \A i \in next : i \in 1 .. n
  BY <1>2
<1> HIDE DEF next
<1>5. next # {} => LeastOf(next) \in next
  BY <1>4, LeastOfIs
<1> QED
  BY <1>1, <1>2, <1>3, <1>4, <1>5

\* A batch of the prompt is evaluated, up to the next snapshot, which is taken.
LEMMA PrefillStep ==
  ASSUME IInv, Prefill
  PROVE  IInv' /\ NoPointLost
<1> DEFINE n == BatchSize
           s == session.inputs
           c == Forward(s, n)
           q == UpTo(s, MinCacheOffset(c))
           taken == {p \in session.pending : p.offset <= session.position + n}
           user == \E p \in taken : p.user
<1>1. kinds \in Models /\ session \in SessionRecord /\ misfiled \in BOOLEAN
  BY IInvIs
<1>2. PICK f, k : Holds(f, k)
  BY IInvIs
<1>3. /\ session.pc = "prefill" /\ Left > 1
      /\ cache' = IF taken = {} THEN c ELSE Snapshot(c, q, user)
      /\ session' = [session EXCEPT !.position = @ + n, !.pending = @ \ taken,
                                    !.evict = taken # {} /\ ~SnapshotThere(c, q)]
      /\ kinds' = kinds /\ misfiled' = misfiled
  BY DEF Prefill
<1>4. /\ Good(cache, f) /\ AllAt(cache.caches, k) /\ Len(f) <= k /\ k \in Nat
      /\ f \in Seq(Tokens) /\ Len(f) \in Nat
      /\ session.position = k /\ IsPrefix(f, Stored) /\ session.outputs = <<>> /\ k < Len(s)
      /\ ~misfiled => SnapsTrue(cache.trie) /\ LiveOf(cache.caches, Stored)
  BY <1>2, <1>3, FrontierIs DEF Holds, InSession
<1>5. s \in Seq(Tokens) /\ Len(s) \in Nat /\ Stored = s
  BY <1>1, <1>4, SessionIs, ConcatEmptySeq DEF Stored
<1>6. n \in Nat \ {0} /\ k + n < Len(s) /\ k + n <= Len(s) /\ k + n \in 0 .. Len(s)
  BY <1>1, <1>3, <1>4, <1>5, BatchIs
<1>06. PICK j \in Nat : j = k + n
  BY <1>4, <1>6
<1> HIDE DEF n
<1>7. /\ Good(c, f) /\ c.trie = cache.trie /\ AllAt(c.caches, j)
      /\ LiveOf(cache.caches, s) => LiveOf(c.caches, s)
  BY <1>1, <1>4, <1>5, <1>6, <1>06, ForwardIs
<1> HIDE DEF c
<1>8. MinCacheOffset(c) = j
  BY <1>1, <1>4, <1>6, <1>06, <1>7, OffsetIs
<1>9. q \in Seq(Tokens) /\ Len(q) = j /\ IsPrefix(q, s)
  BY <1>5, <1>6, <1>06, <1>8, UpToIs, UpToPrefix
<1> HIDE DEF q
<1>10. IsPrefix(f, q)
  <2>1. Len(f) <= Len(q)
    BY <1>4, <1>6, <1>06, <1>9
  <2> QED
    BY <1>4, <1>5, <1>9, <2>1, PrefixComparable
<1>11. LiveOf(c.caches, q) <=> LiveOf(c.caches, s)
  BY <1>5, <1>6, <1>06, <1>7, <1>9, LiveOfPrefix
<1>12. session' \in SessionRecord /\ session'.pc = "prefill" /\ session'.position = j
       /\ session'.inputs = s /\ session'.outputs = <<>>
  <2>1. session.pending \ taken \in SUBSET [offset : Nat, user : BOOLEAN]
    BY <1>1, SessionIs
  <2>2. (taken # {} /\ ~SnapshotThere(c, q)) \in BOOLEAN
    OBVIOUS
  <2> HIDE DEF taken, q
  <2> DEFINE b == taken # {} /\ ~SnapshotThere(c, q)
  <2> HIDE DEF b
  <2>3. session' = [pc |-> session.pc, inputs |-> session.inputs, outputs |-> session.outputs,
                    position |-> j, pending |-> session.pending \ taken, evict |-> b]
    BY <1>1, <1>06, <1>3, <1>4 DEF SessionRecord, b
  <2>4. b \in BOOLEAN
    BY <2>2 DEF b
  <2>5. PICK P \in SUBSET [offset : Nat, user : BOOLEAN] : P = session.pending \ taken
    BY <2>1
  <2>6. session' = [pc |-> session.pc, inputs |-> session.inputs, outputs |-> session.outputs,
                    position |-> j, pending |-> P, evict |-> b]
    BY <2>3, <2>5
  <2>7. /\ session.inputs \in Seq(Tokens) /\ session.outputs \in Seq(Tokens)
        /\ session.pc \in {"idle", "prefill", "decode", "cut"}
    BY <1>1, SessionIs
  <2>8. session' \in SessionRecord
    BY <2>4, <2>6, <2>7 DEF SessionRecord
  <2>9. session.pc = "prefill" /\ session.outputs = <<>>
    BY <1>3, <1>4
  <2> QED
    BY <2>6, <2>8, <2>9
<1>13. Stored' = s
  BY <1>5, <1>12, ConcatEmptySeq DEF Stored
<1>14. CASE taken = {}
  <2>1. cache' = c /\ f \in DOMAIN cache'.trie
    BY <1>3, <1>7, <1>14, FrontierIs
  <2>2. InSession(f, j)'
    BY <1>4, <1>5, <1>6, <1>06, <1>12, <1>13 DEF InSession
  <2>3. Len(f) <= j
    BY <1>4, <1>6, <1>06
  <2>4. IInv'
    BY <1>1, <1>3, <1>4, <1>5, <1>6, <1>06, <1>7, <1>12, <1>13, <2>1, <2>2, <2>3, IInvNext
  <2> QED
    BY <1>7, <2>1, <2>4 DEF NoPointLost
<1>15. CASE taken # {}
  <2>0. PICK r : r = q
    OBVIOUS
  <2>1. cache' = Snapshot(c, r, user) /\ user \in BOOLEAN
    BY <1>3, <1>15, <2>0
  <2>2. AllAt(c.caches, Len(r))
    BY <1>7, <1>9, <2>0
  <2> HIDE DEF user, taken
  <2>3. /\ Good(cache', r) /\ cache'.caches = c.caches
        /\ Points(c.trie) \subseteq Points(cache'.trie)
        /\ SnapsTrue(c.trie) /\ LiveOf(c.caches, r) => SnapsTrue(cache'.trie)
    BY <1>1, <1>7, <1>9, <1>10, <2>0, <2>1, <2>2, SnapshotTaken
  <2>4. InSession(r, j)'
    BY <1>4, <1>5, <1>6, <1>06, <1>9, <1>12, <1>13, <2>0 DEF InSession
  <2>5. r \in DOMAIN cache'.trie /\ Len(r) <= j
    BY <1>4, <1>6, <1>06, <1>9, <2>0, <2>3, FrontierIs
  <2>6. IInv'
    BY <1>1, <1>3, <1>4, <1>5, <1>6, <1>06, <1>7, <1>11, <1>12, <1>13, <2>0, <2>3, <2>4, <2>5, IInvNext
  <2> QED
    BY <1>7, <2>3, <2>6 DEF NoPointLost
<1> QED
  BY <1>14, <1>15

\* The last token of the prompt is evaluated.
LEMMA SeedStep ==
  ASSUME IInv, Seed
  PROVE  IInv' /\ NoPointLost
<1> DEFINE s == session.inputs
           c == Forward(s, 1)
<1>1. kinds \in Models /\ session \in SessionRecord /\ misfiled \in BOOLEAN
  BY IInvIs
<1>2. PICK f, k : Holds(f, k)
  BY IInvIs
<1>3. /\ session.pc = "prefill" /\ Left = 1 /\ cache' = c
      /\ session' = [session EXCEPT !.pc = "decode", !.position = @ + 1, !.evict = FALSE]
      /\ kinds' = kinds /\ misfiled' = misfiled
  BY DEF Seed
<1>4. /\ Good(cache, f) /\ AllAt(cache.caches, k) /\ Len(f) <= k /\ k \in Nat
      /\ Len(f) \in Nat
      /\ session.position = k /\ IsPrefix(f, Stored) /\ session.outputs = <<>>
      /\ ~misfiled => SnapsTrue(cache.trie) /\ LiveOf(cache.caches, Stored)
  BY <1>2, <1>3, FrontierIs DEF Holds, InSession
<1>5. s \in Seq(Tokens) /\ Len(s) \in Nat /\ Stored = s
  BY <1>1, <1>4, SessionIs, ConcatEmptySeq DEF Stored
<1>6. k + 1 = Len(s)
  BY <1>3, <1>4, <1>5 DEF Left
<1>7. /\ Good(c, f) /\ c.trie = cache.trie /\ AllAt(c.caches, k + 1)
      /\ LiveOf(cache.caches, s) => LiveOf(c.caches, s)
  BY <1>1, <1>4, <1>5, <1>6, ForwardIs
<1> HIDE DEF c
<1>8. session' = [pc |-> "decode", inputs |-> session.inputs, outputs |-> session.outputs,
                  position |-> k + 1, pending |-> session.pending, evict |-> FALSE]
  BY <1>1, <1>3, <1>4, SessionIs
<1>9. session' \in SessionRecord /\ session'.pc = "decode" /\ session'.position = k + 1
       /\ session'.inputs = s /\ session'.outputs = <<>>
  BY <1>1, <1>4, <1>8, SessionIs DEF SessionRecord
<1>10. Stored' = s
  BY <1>5, <1>9, ConcatEmptySeq DEF Stored
<1>11. InSession(f, k + 1)'
  BY <1>4, <1>5, <1>6, <1>9, <1>10 DEF InSession
<1>12. f \in DOMAIN cache'.trie /\ Len(f) <= k + 1
  BY <1>3, <1>4, <1>7, FrontierIs
<1>13. IInv'
  BY <1>1, <1>3, <1>4, <1>5, <1>7, <1>9, <1>10, <1>11, <1>12, IInvNext
<1> QED
  BY <1>3, <1>7, <1>13 DEF NoPointLost

\* Three sequences, and two of them in a row.
InARow(S, r, s, t, rs, st) == {r, s, t, rs, st} \subseteq Seq(S) /\ rs = r \o s /\ st = s \o t

\* Concatenation is associative.
LEMMA ConcatThree ==
  ASSUME NEW S, NEW r, NEW s, NEW t, NEW rs, NEW st, InARow(S, r, s, t, rs, st)
  PROVE  r \o st = rs \o t
<1>0. /\ r \in Seq(S) /\ s \in Seq(S) /\ t \in Seq(S) /\ rs \in Seq(S) /\ st \in Seq(S)
      /\ rs = r \o s /\ st = s \o t
  BY DEF InARow
<1>1. Len(r) \in Nat /\ Len(s) \in Nat /\ Len(t) \in Nat
  BY <1>0, UpToWhole
<1>2. /\ Len(st) = Len(s) + Len(t)
      /\ \A i \in 1 .. Len(s) + Len(t) : st[i] = IF i <= Len(s) THEN s[i] ELSE t[i - Len(s)]
  BY <1>0, ConcatProperties
<1>3. /\ Len(rs) = Len(r) + Len(s)
      /\ \A i \in 1 .. Len(r) + Len(s) : rs[i] = IF i <= Len(r) THEN r[i] ELSE s[i - Len(r)]
  BY <1>0, ConcatProperties
<1>4. PICK a \in Seq(S) :
        /\ a = r \o st /\ Len(a) = Len(r) + Len(st)
        /\ \A i \in 1 .. Len(r) + Len(st) : a[i] = IF i <= Len(r) THEN r[i] ELSE st[i - Len(r)]
  <2>1. /\ r \o st \in Seq(S) /\ Len(r \o st) = Len(r) + Len(st)
        /\ \A i \in 1 .. Len(r) + Len(st) : (r \o st)[i] = IF i <= Len(r) THEN r[i] ELSE st[i - Len(r)]
    BY ONLY <1>0, ConcatProperties
  <2> QED
    BY ONLY <2>1
<1>5. PICK b \in Seq(S) :
        /\ b = rs \o t /\ Len(b) = Len(rs) + Len(t)
        /\ \A i \in 1 .. Len(rs) + Len(t) : b[i] = IF i <= Len(rs) THEN rs[i] ELSE t[i - Len(rs)]
  <2>1. /\ rs \o t \in Seq(S) /\ Len(rs \o t) = Len(rs) + Len(t)
        /\ \A i \in 1 .. Len(rs) + Len(t) : (rs \o t)[i] = IF i <= Len(rs) THEN rs[i] ELSE t[i - Len(rs)]
    BY ONLY <1>0, ConcatProperties
  <2> QED
    BY ONLY <2>1
<1>6. Len(a) = Len(b) /\ Len(a) = Len(r) + Len(s) + Len(t)
  BY <1>1, <1>2, <1>3, <1>4, <1>5
<1>7. ASSUME NEW i \in 1 .. Len(a) PROVE a[i] = b[i]
  <2>1. CASE i <= Len(r)
    BY <1>1, <1>2, <1>3, <1>4, <1>5, <1>6, <2>1
  <2>2. CASE ~ i <= Len(r) /\ i <= Len(r) + Len(s)
    <3>1. i - Len(r) \in 1 .. Len(s) + Len(t) /\ i - Len(r) <= Len(s) /\ i \in 1 .. Len(r) + Len(s)
      BY <1>1, <1>6, <2>2
    <3>2. a[i] = s[i - Len(r)]
      BY <1>1, <1>2, <1>4, <2>2, <3>1
    <3>3. b[i] = s[i - Len(r)]
      BY <1>1, <1>3, <1>5, <1>6, <2>2, <3>1
    <3> QED
      BY <3>2, <3>3
  <2>3. CASE ~ i <= Len(r) + Len(s)
    <3>1. i - Len(r) \in 1 .. Len(s) + Len(t) /\ ~ i - Len(r) <= Len(s) /\ ~ i <= Len(r)
      BY <1>1, <1>6, <2>3
    <3>2. a[i] = t[(i - Len(r)) - Len(s)]
      BY <1>1, <1>2, <1>4, <3>1
    <3>3. b[i] = t[i - (Len(r) + Len(s))]
      BY <1>1, <1>3, <1>5, <1>6, <2>3
    <3>4. (i - Len(r)) - Len(s) = i - (Len(r) + Len(s))
      BY <1>1
    <3> QED
      BY <3>2, <3>3, <3>4
  <2> QED
    BY <2>1, <2>2, <2>3
<1>8. a = b
  BY <1>6, <1>7, SameSeq
<1> QED
  BY <1>4, <1>5, <1>8

\* Token sequences of bounded length.
LEMMA SomeTokens ==
  ASSUME NEW n \in Nat, NEW xs \in TokenSeqs(n)
  PROVE  xs \in Seq(Tokens) /\ Len(xs) \in 1 .. n /\ xs # <<>>
<1>1. PICK k \in 1 .. n : xs \in [1 .. k -> Tokens]
  BY DEF TokenSeqs
<1>2. xs \in Seq(Tokens) /\ Len(xs) = k
  BY <1>1, FunIsSeq
<1> QED
  BY <1>1, <1>2, EmptySeq

\* Tokens are generated, of which all or, if the pipeline ends, fewer are put out.
LEMMA GeneratesStep ==
  ASSUME IInv, NEW xs \in Seq(Tokens), NEW out \in Seq(Tokens), NEW pc \in {"decode", "cut"},
         pc = "decode" => out = xs, pc = "cut" => Len(out) < Len(xs),
         Generates(xs, out, pc)
  PROVE  IInv' /\ NoPointLost
<1>1. kinds \in Models /\ session \in SessionRecord /\ misfiled \in BOOLEAN
  BY IInvIs
<1>2. PICK f, k : Holds(f, k)
  BY IInvIs
<1>3. /\ session.pc = "decode" /\ kinds' = kinds /\ misfiled' = misfiled
      /\ cache' = [cache EXCEPT !.caches = [l \in Layers |-> Fed(l, @[l], Stored \o xs, Len(xs))]]
      /\ session' = [session EXCEPT !.pc = pc, !.outputs = @ \o out, !.position = @ + Len(xs)]
  BY DEF Generates
<1>4. /\ Good(cache, f) /\ AllAt(cache.caches, k) /\ Len(f) <= k /\ k \in Nat
      /\ f \in Seq(Tokens) /\ Len(f) \in Nat
      /\ session.position = k /\ IsPrefix(f, Stored) /\ k = Len(Stored)
      /\ ~misfiled => SnapsTrue(cache.trie) /\ LiveOf(cache.caches, Stored)
  BY <1>2, <1>3, FrontierIs DEF Holds, InSession
<1>5. PICK s \in Seq(Tokens), n \in Nat : s = Stored \o xs /\ n = Len(xs) /\ Len(s) = k + n /\ IsPrefix(Stored, s)
  <2>1. Stored \in Seq(Tokens) /\ Len(xs) \in Nat
    BY <1>1, SessionIs, UpToWhole
  <2> QED
    BY <1>4, <2>1, PrefixConcat
<1> DEFINE New(l) == Fed(l, cache.caches[l], s, n)
           live == [l \in Layers |-> New(l)]
<1>6. cache.caches \in [Layers -> Cells]
  BY <1>4, CacheIs DEF Good
<1>7. ASSUME NEW l \in Layers
      PROVE  /\ New(l) \in Cells /\ Len(New(l)) = k + n
             /\ CellsOf(l, cache.caches[l], s) => CellsOf(l, New(l), s)
  <2>1. PICK old \in Cells : old = cache.caches[l] /\ Len(old) = k
    BY <1>4, <1>6 DEF AllAt
  <2>2. /\ New(l) \in Cells /\ Len(New(l)) = Len(old) + n
        /\ (\A i \in Kept(l, Len(old)) : old[i] = UpTo(s, i)) =>
             \A i \in Kept(l, Len(old) + n) : New(l)[i] = UpTo(s, i)
    <3>1. Len(old) + n <= Len(s)
      BY <1>4, <1>5, <2>1
    <3>2. New(l) = Fed(l, old, s, n)
      BY <2>1
    <3> HIDE DEF New
    <3>3. /\ Fed(l, old, s, n) \in Cells /\ Len(Fed(l, old, s, n)) = Len(old) + n
          /\ (\A i \in Kept(l, Len(old)) : old[i] = UpTo(s, i)) =>
               \A i \in Kept(l, Len(old) + n) : Fed(l, old, s, n)[i] = UpTo(s, i)
      BY <1>1, <3>1, FedIs
    <3> QED
      BY <3>2, <3>3
  <2> HIDE DEF New
  <2> QED
    BY <2>1, <2>2 DEF CellsOf
<1>8. cache' = [cache EXCEPT !.caches = live]
  BY <1>3, <1>5
<1> HIDE DEF New
<1>9. live \in [Layers -> Cells]
  BY <1>7
<1> HIDE DEF live
<1>10. Good(cache', f) /\ cache'.trie = cache.trie /\ cache'.caches = live
  BY <1>1, <1>4, <1>8, <1>9, CachesChanged
<1>11. PICK j \in Nat : j = k + n
  BY <1>4
<1>12. AllAt(cache'.caches, j)
  BY <1>7, <1>10, <1>11 DEF AllAt, live
<1>13. LiveOf(cache.caches, Stored) => LiveOf(cache'.caches, s)
  <2> SUFFICES ASSUME LiveOf(cache.caches, Stored), NEW l \in Layers PROVE CellsOf(l, New(l), s)
    BY <1>10 DEF LiveOf, CellsOf, live
  <2>1. LiveOf(cache.caches, s)
    <3>1. PICK r \in Seq(Tokens) : r = Stored
      BY <1>1, SessionIs
    <3>2. k <= Len(r) /\ IsPrefix(r, s) /\ LiveOf(cache.caches, r)
      BY <1>4, <1>5, <3>1
    <3> QED
      BY <1>4, <3>2, LiveOfPrefix
  <2>2. CellsOf(l, cache.caches[l], s)
    BY <2>1 DEF LiveOf, CellsOf
  <2> QED
    BY <1>7, <2>2
<1>14. PICK o \in Seq(Tokens) : o = session.outputs \o out
  BY <1>1, SessionIs, PrefixConcat
<1>15. session' = [pc |-> pc, inputs |-> session.inputs, outputs |-> o,
                   position |-> j, pending |-> session.pending, evict |-> session.evict]
  BY <1>1, <1>3, <1>4, <1>5, <1>11, <1>14, SessionIs
<1>16. session' \in SessionRecord
  BY <1>1, <1>15, SessionIs DEF SessionRecord
<1>17. /\ Stored' = Stored \o out /\ Stored' \in Seq(Tokens) /\ Len(Stored') = k + Len(out)
       /\ IsPrefix(f, Stored')
  <2>1. Stored' = session.inputs \o o
    BY <1>15 DEF Stored
  <2>2. session.inputs \o o = Stored \o out
    <3>1. PICK a, b, ab, w, x :
            a = session.inputs /\ b = session.outputs /\ ab = Stored /\ w = out /\ x = o
      OBVIOUS
    <3>2. InARow(Tokens, a, b, w, ab, x)
      BY <1>1, <1>14, <3>1, SessionIs DEF Stored, InARow
    <3>3. a \o x = ab \o w
      BY ONLY <3>2, ConcatThree
    <3> QED
      BY <3>1, <3>3
  <2>3. PICK r \in Seq(Tokens) : r = Stored /\ Len(r) = k
    BY <1>1, <1>4, SessionIs
  <2>4. r \o out \in Seq(Tokens) /\ Len(r \o out) = Len(r) + Len(out) /\ IsPrefix(r, r \o out)
    BY PrefixConcat
  <2>5. IsPrefix(f, r \o out)
    BY <1>4, <2>3, <2>4, PrefixTrans
  <2> QED
    BY <2>1, <2>2, <2>3, <2>4, <2>5
<1>18. session'.pc = pc /\ session'.position = j
  BY <1>15
<1>19. pc = "cut" => j > Len(Stored')
  <2>1. Len(out) \in Nat
    BY UpToWhole
  <2> QED
    BY <1>4, <1>5, <1>11, <1>17, <2>1
<1>20. pc = "decode" => j = Len(Stored') /\ Stored' = s
  BY <1>5, <1>11, <1>17
<1>21. InSession(f, j)'
  BY <1>17, <1>18, <1>19, <1>20 DEF InSession
<1>22. f \in DOMAIN cache'.trie /\ Len(f) <= j
  BY <1>4, <1>10, <1>11, FrontierIs
<1>23. ~misfiled' => SnapsTrue(cache'.trie)
  BY <1>3, <1>4, <1>10
<1>24. ~misfiled' /\ session'.pc # "cut" =>
            LiveOf(cache'.caches, IF session'.pc = "idle" THEN f ELSE Stored')
  BY <1>3, <1>4, <1>13, <1>18, <1>20
<1>25. session'.pc # "idle"
  BY <1>18
<1>26. IInv'
  BY <1>1, <1>3, <1>10, <1>12, <1>16, <1>21, <1>22, <1>23, <1>24, <1>25, IInvNext
<1> QED
  BY <1>10, <1>26 DEF NoPointLost

\* close files what was generated.
LEMMA CloseStep ==
  ASSUME IInv, NEW junk \in Seq(Tokens), Close(junk)
  PROVE  IInv' /\ NoPointLost
<1>1. kinds \in Models /\ session \in SessionRecord /\ misfiled \in BOOLEAN
  BY IInvIs
<1>2. PICK f, k : Holds(f, k)
  BY IInvIs
<1>3. session.pc # "idle" /\ kinds' = kinds /\ session' = NoSession /\ misfiled' = (misfiled \/ junk # <<>>)
  BY DEF Close
<1>4. /\ Good(cache, f) /\ AllAt(cache.caches, k) /\ Len(f) <= k /\ k \in Nat
      /\ f \in Seq(Tokens) /\ Len(f) \in Nat /\ f \in DOMAIN cache.trie /\ Frontier(cache) = f
      /\ IsPrefix(f, Stored)
      /\ session.pc = "cut" => k > Len(Stored)
      /\ ~misfiled => SnapsTrue(cache.trie)
      /\ ~misfiled /\ session.pc # "cut" => LiveOf(cache.caches, Stored)
  BY <1>2, <1>3, FrontierIs DEF Holds, InSession
<1>5. MinCacheOffset(cache) = k
  BY <1>1, <1>4, OffsetIs
<1>6. PICK s \in Seq(Tokens) : s = Stored \o junk /\ IsPrefix(Stored, s)
  BY <1>1, SessionIs, PrefixConcat
<1>7. PICK q : q = UpTo(s, k)
  OBVIOUS
<1>8. /\ Len(s) = IF k > Len(Stored) THEN k ELSE Len(Stored)
      /\ cache' = IF k > Len(f) THEN AdvancePath(cache, q) ELSE cache
  BY <1>4, <1>5, <1>6, <1>7 DEF Close
<1>9. Stored \in Seq(Tokens) /\ Len(Stored) \in Nat
  BY <1>1, SessionIs, UpToWhole
<1>10. k \in 0 .. Len(s)
  BY <1>4, <1>8, <1>9
<1>11. q \in Seq(Tokens) /\ Len(q) = k /\ IsPrefix(q, s)
  BY <1>7, <1>10, UpToIs, UpToPrefix
<1>12. IsPrefix(f, q)
  <2>1. IsPrefix(f, s)
    BY <1>4, <1>6, <1>9, PrefixTrans
  <2> QED
    BY <1>4, <1>11, <2>1, PrefixComparable
<1>13. ~misfiled' => ~misfiled /\ s = Stored /\ session.pc # "cut"
  <2>1. SUFFICES ASSUME ~misfiled' PROVE ~misfiled /\ s = Stored /\ session.pc # "cut"
    OBVIOUS
  <2>2. ~misfiled /\ junk = <<>>
    BY <1>3, <2>1
  <2>3. s = Stored
    BY <1>6, <1>9, <2>2, ConcatEmptySeq
  <2>4. ~ k > Len(Stored)
    BY <1>4, <1>8, <1>9, <2>3
  <2> QED
    BY <1>4, <2>2, <2>3, <2>4
<1>14. ~misfiled' => SnapsTrue(cache.trie) /\ LiveOf(cache.caches, q)
  <2>1. SUFFICES ASSUME ~misfiled' PROVE SnapsTrue(cache.trie) /\ LiveOf(cache.caches, q)
    OBVIOUS
  <2>2. SnapsTrue(cache.trie) /\ LiveOf(cache.caches, s)
    BY <1>4, <1>13, <2>1
  <2> QED
    BY <1>4, <1>11, <2>2, LiveOfPrefix
<1>15. /\ Good(cache', q) /\ cache'.caches = cache.caches /\ (SnapsTrue(cache.trie) => SnapsTrue(cache'.trie))
       /\ Points(cache.trie) \subseteq Points(cache'.trie)
  <2>1. CASE k > Len(f)
    <3>1. CameTo(cache, AdvancePath(cache, q), q)
      BY <1>1, <1>4, <1>11, <1>12, AdvanceIs
    <3> QED
      BY <1>8, <2>1, <3>1 DEF CameTo
  <2>2. CASE ~ k > Len(f)
    <3>1. Len(f) = Len(q) /\ IsPrefix(q, q)
      BY <1>4, <1>11, <2>2, PrefixSelf
    <3>2. f = q
      BY <1>4, <1>11, <1>12, <3>1, PrefixEqual
    <3> QED
      BY <1>4, <1>8, <2>2, <3>2
  <2> QED
    BY <2>1, <2>2
<1>16. q \in DOMAIN cache'.trie
  BY <1>15, FrontierIs
<1>17. session' \in SessionRecord /\ session'.pc = "idle"
  BY <1>3, EmptySeq DEF NoSession, SessionRecord
<1>18. misfiled' \in BOOLEAN
  BY <1>1, <1>3
<1>19. IInv'
  BY <1>1, <1>3, <1>4, <1>11, <1>14, <1>15, <1>16, <1>17, <1>18, IInvNext
<1> QED
  BY <1>15, <1>19 DEF NoPointLost

\* What a step may do to the restore points.
OnePointEvicted ==
  Evicting /\ \E n \in Evictable(cache) : Points(cache.trie) \ {n} \subseteq Points(cache'.trie)

\* Every step keeps the invariant, and only eviction takes a restore point away.
LEMMA StepIInv == IInv /\ [Next]_vars => IInv' /\ (NoPointLost \/ OnePointEvicted)
<1> SUFFICES ASSUME IInv, [Next]_vars PROVE IInv' /\ (NoPointLost \/ OnePointEvicted)
  OBVIOUS
<1>1. CASE UNCHANGED vars
  BY <1>1, StutterStep
<1>2. ASSUME NEW prompt \in TokenSeqs(MaxPrompt), Begin(prompt) PROVE IInv' /\ NoPointLost
  BY <1>2, BeginStep
<1>3. CASE Evict
  BY <1>3, EvictStep DEF Evict, OnePointEvicted
<1>4. CASE Prefill
  BY <1>4, PrefillStep
<1>5. CASE Seed
  BY <1>5, SeedStep
<1>6. ASSUME NEW x \in Tokens, Decode(x) PROVE IInv' /\ NoPointLost
  <2>1. <<x>> \in Seq(Tokens)
    OBVIOUS
  <2> QED
    BY <1>6, <2>1, GeneratesStep DEF Decode
<1>7. ASSUME NEW xs \in TokenSeqs(2), NEW n \in 1 .. 1, DraftCut(xs, n) PROVE IInv' /\ NoPointLost
  <2>1. xs \in Seq(Tokens) /\ Len(xs) \in Nat
    BY SomeTokens
  <2>2. n \in 1 .. Len(xs) - 1 /\ Generates(xs, UpTo(xs, n), "cut")
    BY <1>7 DEF DraftCut
  <2>3. UpTo(xs, n) \in Seq(Tokens) /\ Len(UpTo(xs, n)) < Len(xs)
    <3>1. n \in 0 .. Len(xs) /\ n < Len(xs)
      BY <2>1, <2>2
    <3> QED
      BY <2>1, <3>1, UpToIs
  <2> QED
    BY <2>1, <2>2, <2>3, GeneratesStep
<1>8. ASSUME NEW junk \in TokenSeqs(1) \cup {<<>>}, Close(junk) PROVE IInv' /\ NoPointLost
  <2>1. junk \in Seq(Tokens)
    BY SomeTokens, EmptySeq
  <2> QED
    BY <1>8, <2>1, CloseStep
<1> QED
  BY <1>1, <1>2, <1>3, <1>4, <1>5, <1>6, <1>7, <1>8 DEF Next

\* The inductive invariant of the prefix cache.
LEMMA AlwaysIInv == Spec => []IInv
BY InitIInv, StepIInv, PTL DEF Spec

-----------------------------------------------------------------------------
(* What the invariant gives *)

\* What a layer needs to go on is among what it keeps.
LEMMA NeededKept ==
  ASSUME kinds \in Models, NEW l \in Layers, NEW n \in Nat
  PROVE  Needed(l, n) \subseteq Kept(l, n)
<1> SUFFICES ASSUME NEW i \in Needed(l, n) PROVE i \in Kept(l, n)
  OBVIOUS
<1>1. i \in 1 .. n /\ kinds[l] \in {"kv", "rotating", "recurrent"} /\ Window \in Nat
  BY LayersAre, CacheAssumption DEF Needed
<1>2. CASE kinds[l] = "kv"
  BY <1>1, <1>2 DEF Kept
<1>3. CASE kinds[l] = "rotating"
  <2>1. i + Window > n + 1
    BY <1>3 DEF Needed
  <2>2. i + Window > n
    BY <1>1, <2>1
  <2> QED
    BY <1>1, <1>3, <2>2 DEF Kept
<1>4. CASE kinds[l] = "recurrent"
  BY <1>1, <1>4 DEF Needed, Kept
<1> QED
  BY <1>1, <1>2, <1>3, <1>4

\* A counter that counts cells is a natural number.
LEMMA GoodCounter ==
  ASSUME kinds \in Models, NEW c, NEW f, Good(c, f)
  PROVE  c.pagedOutBytes \in Nat
<1>1. /\ c.trie \in AnyTrie /\ IsFiniteSet(DOMAIN c.trie)
      /\ c.pagedOutBytes = Cardinality(AllHeld(c.trie))
  BY CacheIs DEF Good, GoodTrie, TrieShape, Counted
<1>2. \A n \in DOMAIN c.trie : c.trie[n].snaps \in AnySnaps
  BY <1>1, TrieIs
<1> QED
  BY <1>1, <1>2, TrieHeld

\* The invariant gives the types ...
LEMMA IInvTypeOK == IInv => TypeOK
<1> SUFFICES ASSUME IInv PROVE TypeOK
  OBVIOUS
<1>1. kinds \in Models /\ session \in SessionRecord
  BY IInvIs
<1>2. PICK f, k : Holds(f, k)
  BY IInvIs
<1>3. Good(cache, f) /\ cache \in CacheRecord
  BY <1>2 DEF Holds, Good
<1>4. cache.pagedOutBytes \in Nat
  BY <1>1, <1>3, GoodCounter
<1>5. cache.trie \in AnyTrie /\ cache.caches \in [Layers -> Cells]
  BY <1>3, CacheIs
<1>6. ASSUME NEW n \in DOMAIN cache.trie
      PROVE  n \in Seq(Tokens) /\ cache.trie[n] \in NodeRecord
  BY <1>5, TrieIs
<1> QED
  BY <1>1, <1>4, <1>5, <1>6 DEF TypeOK, NodeRecord, AnySnaps, SnapRecord, SessionRecord

\* ... that siblings differ ...
LEMMA IInvSiblingsDiffer == IInv => SiblingsDiffer
<1> SUFFICES ASSUME IInv PROVE SiblingsDiffer
  OBVIOUS
<1>1. PICK f, k : Holds(f, k)
  BY IInvIs
<1>2. TrieShape(DOMAIN cache.trie)
  BY <1>1 DEF Holds, Good, GoodTrie
<1> QED
  BY <1>2, SiblingsPart DEF SiblingsDiffer

\* ... that snapshots are true ...
LEMMA IInvSnapshotsTrue == IInv => SnapshotsTrue
<1> SUFFICES ASSUME IInv, ~misfiled, NEW n \in DOMAIN cache.trie, NEW l \in Layers,
                    NEW s, s = cache.trie[n].snaps[l], s # None
             PROVE  /\ End(s) <= Len(n)
                    /\ \A i \in Needed(l, End(s)) : i > s.from => s.cells[i - s.from] = UpTo(n, i)
  BY DEF SnapshotsTrue
<1>1. kinds \in Models
  BY IInvIs
<1>2. PICK f, k : Holds(f, k)
  BY IInvIs
<1>3. TrieShape(DOMAIN cache.trie) /\ SnapsFit(cache.trie) /\ SnapsTrue(cache.trie)
  BY <1>2 DEF Holds, Good, GoodTrie
<1>4. n \in Seq(Tokens) /\ Len(n) \in Nat
  BY <1>3, UpToWhole DEF TrieShape
<1>5. End(s) = Len(n)
  BY <1>3 DEF SnapsFit, Fits
<1>6. TrueSnap(l, n, s)
  BY <1>3 DEF SnapsTrue
<1>7. Needed(l, End(s)) \subseteq Kept(l, Len(n))
  BY <1>1, <1>4, <1>5, NeededKept
<1> QED
  BY <1>4, <1>5, <1>6, <1>7 DEF TrueSnap

\* ... and the live caches ...
LEMMA IInvLiveTrue == IInv => LiveTrue
<1> DEFINE s == IF session.pc = "idle" THEN Frontier(cache) ELSE Stored
<1> SUFFICES ASSUME IInv, ~misfiled, session.pc # "cut", NEW l \in Layers,
                    NEW i \in Needed(l, Len(cache.caches[l]))
             PROVE  cache.caches[l][i] = UpTo(s, i)
  BY DEF LiveTrue
<1>1. kinds \in Models
  BY IInvIs
<1>2. PICK f, k : Holds(f, k)
  BY IInvIs
<1>3. Frontier(cache) = f /\ Len(cache.caches[l]) = k /\ k \in Nat
  BY <1>2, FrontierIs DEF Holds, AllAt
<1>4. LiveOf(cache.caches, s)
  BY <1>2, <1>3 DEF Holds
<1>5. i \in Kept(l, Len(cache.caches[l]))
  BY <1>1, <1>3, NeededKept
<1> HIDE DEF s
<1> QED
  BY <1>4, <1>5 DEF LiveOf

\* ... that the layers are in step ...
LEMMA IInvInStep == IInv => InStep
<1> SUFFICES ASSUME IInv PROVE InStep
  OBVIOUS
<1>1. kinds \in Models /\ session \in SessionRecord
  BY IInvIs
<1>2. PICK f, k : Holds(f, k)
  BY IInvIs
<1>3. k \in Nat /\ AllAt(cache.caches, k) /\ MinCacheOffset(cache) = k
  BY <1>1, <1>2, OffsetIs DEF Holds
<1>4. session.pc # "idle" => session.position = k
  BY <1>2 DEF Holds, InSession
<1>5. session.pc = "prefill" => Left > 0
  <2>1. SUFFICES ASSUME session.pc = "prefill" PROVE Left > 0
    OBVIOUS
  <2>2. k < Len(session.inputs) /\ session.position = k
    BY <1>2, <2>1 DEF Holds, InSession
  <2> QED
    BY <1>1, <1>3, <2>2, SessionIs DEF Left
<1> QED
  BY <1>3, <1>4, <1>5 DEF InStep, AllAt

\* ... that the active path is backed ...
LEMMA IInvPathBacked == IInv => PathBacked
<1> SUFFICES ASSUME IInv PROVE PathBacked
  OBVIOUS
<1>1. kinds \in Models
  BY IInvIs
<1>2. PICK f, k : Holds(f, k)
  BY IInvIs
<1>3. MinCacheOffset(cache) = k /\ Frontier(cache) = f
  BY <1>1, <1>2, OffsetIs, FrontierIs DEF Holds
<1>4. cache.activePath = PathTo(cache.trie, f)
  BY <1>2 DEF Holds, Good, EndsAt
<1> QED
  BY <1>2, <1>3, <1>4 DEF PathBacked, Holds

\* ... and that the counter is exact.
LEMMA IInvCounterExact == IInv => CounterExact
<1> SUFFICES ASSUME IInv PROVE CounterExact
  OBVIOUS
<1>1. PICK f, k : Holds(f, k)
  BY IInvIs
<1> QED
  BY <1>1 DEF Holds, Good, Counted, AllHeld, CounterExact
-----------------------------------------------------------------------------
(* The theorems *)

\* The trie is a set of token sequences with a record each, of one snapshot or none by
\* layer; the caches and the session have their types, and the counter of paged out
\* bytes never goes below 0 (cache_trie.go, cache.go, pipeline.go).
THEOREM CacheTypeOK == Spec => []TypeOK
BY AlwaysIInv, IInvTypeOK, PTL

\* Through all splits, in-place extensions, merges and removals, two children of a node
\* begin with different tokens, so that the first token decides in which edge
\* findBestMatch goes on (cache_trie.go).
THEOREM SiblingsDifferAlways == Spec => []SiblingsDiffer
BY AlwaysIInv, IInvSiblingsDiffer, PTL

\* As long as no session has been closed with less output than was cached, every
\* snapshot of the trie holds what was computed from the tokens of its own node: what
\* split, merge, page-out and prefill snapshots do never gives a prompt the state of
\* another (cache.go, cache_trie.go, cache/cache.go, cache/recurrent.go).
THEOREM SnapshotsTrueAlways == Spec => []SnapshotsTrue
BY AlwaysIInv, IInvSnapshotsTrue, PTL

\* Under the same condition the live caches hold what was computed from the prompt and
\* the answer of the session, however they were rewound and paged in, and between
\* requests from the tokens of the active path (cache.go, pipeline.go).
THEOREM LiveTrueAlways == Spec => []LiveTrue
BY AlwaysIInv, IInvLiveTrue, PTL

\* All layers stay at one offset, where the pipeline takes them to be, and begin leaves
\* at least one token of the prompt to be evaluated (cache.go, pipeline.go).
THEOREM LayersInStep == Spec => []InStep
BY AlwaysIInv, IInvInStep, PTL

\* The active path is the path of the trie to its last node, which the live caches have
\* reached, and where they end between requests (cache.go).
THEOREM ActivePathBacked == Spec => []PathBacked
BY AlwaysIInv, IInvPathBacked, PTL

\* pagedOutBytes counts every cell of every snapshot in the trie once, so that
\* enforceEvictionPolicy decides by what there is (cache.go, cache_trie.go).
THEOREM PagedOutBytesExact == Spec => []CounterExact
BY AlwaysIInv, IInvCounterExact, PTL


\* Only eviction takes a restore point away, and no more than the node it evicts: a
\* prompt that was marked to be kept is found again, in every layer, until it is evicted.
THEOREM RestorePointsStay == Spec => RestorePointsKept
<1>1. ASSUME IInv, [Next]_vars
      PROVE  [\/ RestorePoints \subseteq RestorePoints'
              \/ /\ Evicting
                 /\ \E n \in Evictable(cache) : RestorePoints \ {n} \subseteq RestorePoints']_vars
  <2>1. kinds' = kinds
    BY <1>1 DEF Next, vars, Begin, Evict, Prefill, Seed, Decode, DraftCut, Generates, Close
  <2>2. RestorePoints = Points(cache.trie) /\ RestorePoints' = Points(cache'.trie)
    BY <2>1, SamePointsNext
  <2>3. NoPointLost \/ OnePointEvicted
    BY <1>1, StepIInv
  <2> QED
    BY <2>2, <2>3 DEF NoPointLost, OnePointEvicted
<1> QED
  BY <1>1, AlwaysIInv, PTL DEF Spec, RestorePointsKept

\* A request starts no earlier than the longest node on its way for which every layer has
\* a snapshot, whichever layers have to be rewound, freed or restored on the way there.
THEOREM SnapshotsServeBegin == Spec => SnapshotsServe
<1>1. ASSUME IInv, [Next]_vars
      PROVE  [session.pc = "idle" /\ session'.pc = "prefill" =>
                \A n \in DOMAIN cache.trie :
                  HasAllSnapshots(cache.trie[n]) /\ IsStrictPrefix(n, session'.inputs)
                    => Len(n) <= session'.position]_vars
  <2>1. SUFFICES ASSUME session.pc = "idle", session'.pc = "prefill", NEW n \in DOMAIN cache.trie,
                        HasAllSnapshots(cache.trie[n]), IsStrictPrefix(n, session'.inputs)
                 PROVE  Len(n) <= session'.position
    OBVIOUS
  <2>2. PICK prompt \in TokenSeqs(MaxPrompt) : Begin(prompt)
    <3>1. session' # session
      BY <2>1
    <3>2. ~Evict /\ ~Prefill /\ ~Seed
      BY <2>1, <3>1 DEF Evict, Prefill, Seed
    <3>3. \A xs, out, pc : ~Generates(xs, out, pc)
      BY <2>1 DEF Generates
    <3>4. \A junk : ~Close(junk)
      BY <2>1 DEF Close
    <3> QED
      BY <1>1, <3>1, <3>2, <3>3, <3>4 DEF Next, vars, Decode, DraftCut
  <2> QED
    BY <1>1, <2>1, <2>2, BeginServes
<1> QED
  BY <1>1, AlwaysIInv, PTL DEF Spec, SnapshotsServe
=============================================================================
