--------------------------------- MODULE Merkle ---------------------------------
(***************************************************************************)
(* Record batches (anchor/merkle.mjs): the root over an ordered list of    *)
(* record digests, the path from one digest to it, and the check of such   *)
(* a path.  Hashes are symbolic: two are equal only when they were made    *)
(* from equal parts, and the leaf and branch prefixes keep them apart.     *)
(***************************************************************************)
EXTENDS Naturals, Sequences, FiniteSetsExt, SequencesExt

MaxBatchSize == 512
MaxPath == 9

leaf(digest) == <<"leaf", digest>>
branch(left, right) == <<"branch", left, right>>

\* A plausible bug in split, used only to test the properties.
splitHalf(n) == (n + 1) \div 2
\* The largest power of two below n.
Widths == {1, 2, 4, 8, 16, 32, 64, 128, 256}
split(n) == Max({w \in Widths : w < n})

\* A slice of the entries: from (excluded) to (included); where it splits.
Parts(entries) == (0 .. Len(entries)) \X (0 .. Len(entries))
Middle(from, to) == from + split(to - from)

\* root, of every slice: the hash of nothing, of one leaf, or of the two sides of the split.
root(entries) ==
  LET of[part \in Parts(entries)] ==
        LET from == part[1]  to == part[2]  mid == Middle(from, to) IN
        IF to <= from THEN <<"empty">>
        ELSE IF to = from + 1 THEN leaf(entries[to])
        ELSE branch(of[<<from, mid>>], of[<<mid, to>>])
  IN of
merkleRoot(entries) == root(entries)[<<0, Len(entries)>>]

\* path, in every slice: the siblings on the way from the position's leaf up to the slice's root.
path(entries, position) ==
  LET within[part \in Parts(entries)] ==
        LET from == part[1]  to == part[2]  mid == Middle(from, to) IN
        IF to <= from + 1 THEN <<>>
        ELSE IF position < mid THEN Append(within[<<from, mid>>], merkleRoot(SubSeq(entries, mid + 1, to)))
        ELSE Append(within[<<mid, to>>], merkleRoot(SubSeq(entries, from + 1, mid)))
  IN within
inclusion(entries, position) ==
  [treeSize |-> Len(entries), position |-> position, root |-> merkleRoot(entries),
   path |-> path(entries, position)[<<0, Len(entries)>>]]

\* reconstruct, of a leaf's place in a tree: siblings are used from the leaf upwards; a path too short fails.
reconstruct(digest, siblings, size) ==
  LET up[place \in (1 .. size) \X (0 .. size - 1)] ==
        LET n     == place[1]
            index == place[2]
            k     == split(n)
            child == IF index < k THEN up[<<k, index>>] ELSE up[<<n - k, index - k>>]
        IN IF n = 1 THEN [hash |-> leaf(digest), used |-> 0]
           ELSE IF child.used >= Len(siblings) THEN [hash |-> <<"truncated">>, used |-> Len(siblings) + 1]
           ELSE [hash |-> IF index < k THEN branch(child.hash, siblings[child.used + 1])
                                       ELSE branch(siblings[child.used + 1], child.hash),
                 used |-> child.used + 1]
  IN up

\* verifyInclusion: the whole path is used and leads from the digest to the root.
verifyInclusion(digest, proof) ==
  /\ proof.treeSize \in 1 .. MaxBatchSize /\ proof.position < proof.treeSize /\ Len(proof.path) <= MaxPath
  /\ LET built == reconstruct(digest, proof.path, proof.treeSize)[<<proof.treeSize, proof.position>>] IN
     built.hash = proof.root /\ built.used = Len(proof.path)

-----------------------------------------------------------------------------
(* What the algorithms are compared with.                                  *)

\* The root by levels: neighbours are paired, an odd last one is promoted as it is.
Pair(level) ==
  [i \in 1 .. (Len(level) + 1) \div 2 |->
     IF 2 * i <= Len(level) THEN branch(level[2 * i - 1], level[2 * i]) ELSE level[2 * i - 1]]
Levels(entries) ==
  LET levels[n \in 0 .. MaxPath] == IF n = 0 THEN [i \in 1 .. Len(entries) |-> leaf(entries[i])] ELSE Pair(levels[n - 1])
  IN levels
RootByLevels(entries) ==
  IF entries = <<>> THEN <<"empty">> ELSE Levels(entries)[MaxPath][1]

\* A proof as made, and one that claims another place or size, or whose path lost or gained a step.
OtherPaths(proof) ==
  {proof.path, Append(proof.path, proof.root)} \cup
  (IF proof.path = <<>> THEN {} ELSE {Tail(proof.path), Front(proof.path), Reverse(proof.path)})
Tampered(proof, sizes) ==
  {[treeSize |-> size, position |-> position, root |-> proof.root, path |-> other] :
     size \in sizes, position \in 0 .. Len(proof.path) + proof.treeSize, other \in OtherPaths(proof)}

\* Every entry's proof is accepted; a proof under the batch's root is accepted for nothing but an
\* entry of it, and for that entry's own position when the size is the batch's own.
InclusionExact(entries, digests) ==
  /\ merkleRoot(entries) = RootByLevels(entries)
  /\ \A position \in 0 .. Len(entries) - 1 :
       LET proof == inclusion(entries, position) IN
       /\ verifyInclusion(entries[position + 1], proof)
       /\ \A digest \in digests, other \in Tampered(proof, 1 .. Len(entries) + 1) :
            verifyInclusion(digest, other) =>
              /\ digest \in {entries[i] : i \in DOMAIN entries}
              /\ other.treeSize = Len(entries) => digest = entries[other.position + 1]
=============================================================================
