------------------------------ MODULE Blocking ------------------------------
(***************************************************************************)
(* The blocking index: which destinations a source is compared with.  Each *)
(* name is known by its keys (tokens, trigrams, a phonetic key, trigrams   *)
(* of its romanization, a prefix); a destination is hit by the keys that   *)
(* it shares with the source, and the K that are hit most are candidates.  *)
(*                                                                         *)
(* Destinations are numbered from 1.  How names are cut into keys is not   *)
(* modelled.                                                               *)
(***************************************************************************)
EXTENDS Integers, Sequences, FiniteSets, Functions, Sorting

CONSTANTS
  ShortTokens,       \* tokens of less than two bytes
  NoKey,             \* an empty phonetic key, or prefix
  CapFrom,           \* how many destinations make an index whose keys are capped
  PostingPercent,    \* maxPostingRatio
  AbsoluteCeiling

ASSUME CapAssumption ==
  /\ CapFrom \in Nat /\ PostingPercent \in 0 .. 100 /\ AbsoluteCeiling \in Nat

----------------------------------------------------------------------------
(* build. *)

\* Zero: every key is indexed, however many destinations hold it.
Cutoff(dests) ==
  LET n == Len(dests)  byRatio == (n * PostingPercent) \div 100 IN
  IF n < CapFrom THEN 0 ELSE IF byRatio < AbsoluteCeiling THEN byRatio ELSE AbsoluteCeiling

Times(key, keys) == Cardinality({i \in DOMAIN keys : keys[i] = key})

KeysOf(field, name) ==
  CASE field = "token"     -> Picked(name.tokens, {i \in DOMAIN name.tokens : name.tokens[i] \notin ShortTokens})
    [] field = "trigram"   -> name.trigrams
    [] field = "romanized" -> name.romanized
    [] field = "phonetic"  -> IF name.phonetic = NoKey THEN << >> ELSE <<name.phonetic>>

\* A destination counts as often as it holds the key.
Frequency(dests, field, key) ==
  SumFunction([i \in DOMAIN dests |-> Times(key, KeysOf(field, dests[i]))])

Skipped(dests, field, key) ==
  Cutoff(dests) > 0 /\ Frequency(dests, field, key) > Cutoff(dests)

\* The posting list of a key: a destination is there as often as it holds it.
Posted(dests, field, key, i) ==
  IF Skipped(dests, field, key) THEN 0 ELSE Times(key, KeysOf(field, dests[i]))

----------------------------------------------------------------------------
(* QueryCandidates. *)

Fields == {"token", "phonetic", "trigram", "romanized"}
Weight(field) == CASE field = "token" -> 3 [] field = "phonetic" -> 4 [] OTHER -> 1

FieldHits(src, dests, field, i) ==
  LET keys == KeysOf(field, src) IN
  SumFunction([n \in DOMAIN keys |-> Weight(field) * Posted(dests, field, keys[n], i)])

Hits(src, dests, i) ==
  FieldHits(src, dests, "token", i) + FieldHits(src, dests, "phonetic", i)
    + FieldHits(src, dests, "trigram", i) + FieldHits(src, dests, "romanized", i)

Touched(src, dests) == {i \in DOMAIN dests : Hits(src, dests, i) > 0}

\* candidateHeap: the first to go has the fewest hits, and of those the largest index.
GoesBefore(c, d) == c.hits < d.hits \/ (c.hits = d.hits /\ c.index > d.index)
Root(heap) == CHOOSE c \in heap : \A d \in heap \ {c} : GoesBefore(c, d)

\* The heap of a full slice that turns away what does not beat the best.
OfferAgainstBest(heap, c, k) ==
  IF Cardinality(heap) < k THEN heap \cup {c}
  ELSE IF \A d \in heap : c.hits >= d.hits THEN (heap \ {Root(heap)}) \cup {c} ELSE heap

\* A tie replaces the root.
Offer(heap, c, k) ==
  IF Cardinality(heap) < k THEN heap \cup {c}
  ELSE IF c.hits >= Root(heap).hits THEN (heap \ {Root(heap)}) \cup {c}
  ELSE heap

\* Candidates are offered in the order of their indices.
TopK(src, dests, k) ==
  LET heap[n \in 0 .. Len(dests)] ==
        IF n = 0 THEN {}
        ELSE IF n \notin Touched(src, dests) THEN heap[n - 1]
        ELSE Offer(heap[n - 1], [index |-> n, hits |-> Hits(src, dests, n)], k)
  IN heap[Len(dests)]

Preferred(c, d) == c.hits > d.hits \/ (c.hits = d.hits /\ c.index < d.index)
BestFirst(heap) == InOrder(heap, {e \in heap \X heap : Preferred(e[1], e[2])})

\* prefixMap: the first k of those with the source's prefix.
SamePrefix(src, dests) ==
  IF src.prefix = NoKey THEN {} ELSE {i \in DOMAIN dests : dests[i].prefix = src.prefix}
FirstOf(S, k) == {i \in S : Cardinality({j \in S : j < i}) < k}
Ascending(S) == InOrder(S, Rising(S))

IndicesOf(ranked) == [i \in DOMAIN ranked |-> ranked[i].index]

\* The indices of the candidates, in the order they are returned in.
QueryCandidates(src, dests, k) ==
  IF Len(dests) <= k THEN [i \in DOMAIN dests |-> i]
  ELSE IF Touched(src, dests) = {} THEN Ascending(FirstOf(SamePrefix(src, dests), k))
  ELSE IndicesOf(BestFirst(TopK(src, dests, k)))

----------------------------------------------------------------------------
(* What the candidates promise. *)

NoneIsBetter(src, dests, k, found) ==
  LET kept == {found[i] : i \in DOMAIN found}
  IN Len(dests) > k /\ Touched(src, dests) # {} =>
       /\ kept \subseteq Touched(src, dests)
       /\ Cardinality(kept) = Len(found)
       /\ Cardinality(kept) < k => kept = Touched(src, dests)
       /\ Cardinality(kept) <= k
       /\ \A i \in kept, j \in Touched(src, dests) \ kept :
            Hits(src, dests, i) >= Hits(src, dests, j)
       /\ \A n \in 1 .. Len(found) - 1 :
            Hits(src, dests, found[n]) >= Hits(src, dests, found[n + 1])

\* The key is the source's and the destination's, and the index has it.
Shares(src, dests, i, field, key) ==
  /\ Times(key, KeysOf(field, src)) > 0 /\ Times(key, KeysOf(field, dests[i])) > 0
  /\ ~Skipped(dests, field, key)

SharesAKey(src, dests, i) ==
  \E field \in Fields : \E n \in DOMAIN KeysOf(field, src) :
    Shares(src, dests, i, field, KeysOf(field, src)[n])

\* A destination that shares an indexed key is a candidate, unless k others
\* were hit at least as often.
RareKeyIsEnough(src, dests, k, found) ==
  \A i \in DOMAIN dests :
    SharesAKey(src, dests, i) =>
      \/ \E n \in DOMAIN found : found[n] = i
      \/ Len(found) = k /\ \A n \in DOMAIN found :
           Hits(src, dests, found[n]) >= Hits(src, dests, i)

BestOf(src, dests, k, found) ==
  NoneIsBetter(src, dests, k, found) /\ RareKeyIsEnough(src, dests, k, found)
=============================================================================
