------------------------------ MODULE AELMerkle ------------------------------
(***************************************************************************)
(* Merkle inclusion proofs.  The generator builds the root and the proofs  *)
(* of a log (checker/cmd/aelgen/main.go, merkleRoot and merkleProof); the  *)
(* checker, which is separate code, climbs from a leaf to a root           *)
(* (checker/internal/ael/checks.go, merkleRootFromProof).  AELRun takes    *)
(* the climb as ideal: it reaches the log's root exactly for a leaf in its *)
(* place.  This module checks that against the code.                       *)
(*                                                                         *)
(* A leaf hash and a node hash are tagged with the byte they are hashed    *)
(* under, 0 and 1, so that neither is ever the other.                      *)
(***************************************************************************)
EXTENDS Integers, Sequences, SequencesExt

CONSTANTS
    Payloads,       \* the payloads the log may hold
    MaxLeaves,      \* bound on the length of the log
    MaxTampers      \* bound on the changes made to a proof

ASSUME MerkleAssumption == MaxLeaves \in Nat \ {0} /\ MaxTampers \in Nat

VARIABLES
    leaves,     \* the leaf hashes of the log
    claim,      \* << >>, or <<[leaf, index, proof, tampers]>>, the entry presented
    climbed     \* << >>, or <<what the checker's climb returned>>

treeVars == <<leaves, claim, climbed>>

merkleLeaf(payload) == <<0, payload>>
merkleNode(left, right) == <<1, left, right>>
Failed == << >>     \* a climb that returned an error

\* The loop doubles p from 1 while its double is below n.
largestPowerOfTwoLessThan(n) ==
    LET grown[p \in 1..n] == IF 2 * p < n THEN grown[2 * p] ELSE p
    IN  grown[1]

----------------------------------------------------------------------------
(***************************************************************************)
(* The generator.  Its recursions descend to slices of the leaves, told    *)
(* here by their size and the place of their first leaf.                   *)
(***************************************************************************)
EmptyRoot == <<2>>

SliceRoots(ls) ==
    LET roots[size \in 1..Len(ls)] ==
          [first \in 1..(Len(ls) - size + 1) |->
             IF size = 1 THEN ls[first]
             ELSE LET split == largestPowerOfTwoLessThan(size)
                  IN  merkleNode(roots[split][first], roots[size - split][first + split])]
    IN  roots

merkleRoot(ls) == IF ls = << >> THEN EmptyRoot ELSE SliceRoots(ls)[Len(ls)][1]

\* Siblings from the leaf upwards, by the index of the leaf in the slice.
SliceProofs(ls) ==
    LET proofs[size \in 1..Len(ls)] ==
          [first \in 1..(Len(ls) - size + 1) |-> [index \in 0..(size - 1) |->
             IF size = 1 THEN << >>
             ELSE LET split == largestPowerOfTwoLessThan(size)
                  IN  IF index < split
                      THEN Append(proofs[split][first][index],
                                  SliceRoots(ls)[size - split][first + split])
                      ELSE Append(proofs[size - split][first + split][index - split],
                                  SliceRoots(ls)[split][first])]]
    IN  proofs

merkleProof(ls, index) == SliceProofs(ls)[Len(ls)][1][index]

----------------------------------------------------------------------------
(***************************************************************************)
(* The checker: the root reached and the number of proof nodes used, for   *)
(* a leaf at an index of a tree of some size.                              *)
(***************************************************************************)
Stuck == [root |-> Failed, used |-> 0]

merkleRootFromProofAt(leaf, size, proof) ==
    LET climbs[sz \in 1..size] ==
          [index \in 0..(sz - 1) |->
             IF sz = 1 THEN [root |-> leaf, used |-> 0]
             ELSE LET split == largestPowerOfTwoLessThan(sz)
                      onLeft == index < split
                      below == IF onLeft THEN climbs[split][index]
                               ELSE climbs[sz - split][index - split]
                      sibling == proof[below.used + 1]
                  IN  IF below.root = Failed \/ below.used >= Len(proof) THEN Stuck
                      ELSE [used |-> below.used + 1,
                            root |-> IF onLeft THEN merkleNode(below.root, sibling)
                                     ELSE merkleNode(sibling, below.root)]]
    IN  climbs

\* Mutant: proof nodes left over are ignored.
merkleRootFromProofLax(leaf, index, size, proof) ==
    IF size <= 0 \/ index < 0 \/ index >= size THEN Failed
    ELSE merkleRootFromProofAt(leaf, size, proof)[size][index].root

merkleRootFromProof(leaf, index, size, proof) ==
    IF size <= 0 \/ index < 0 \/ index >= size THEN Failed
    ELSE LET climb == merkleRootFromProofAt(leaf, size, proof)[size][index]
         IN  IF climb.used # Len(proof) THEN Failed ELSE climb.root

----------------------------------------------------------------------------
TreeInit == leaves = << >> /\ claim = << >> /\ climbed = << >>

Grow(payload) ==
    /\ claim = << >> /\ Len(leaves) < MaxLeaves
    /\ leaves' = Append(leaves, merkleLeaf(payload))
    /\ UNCHANGED <<claim, climbed>>

\* An entry for some leaf hash at some index, with the proof of some leaf.
Claim(payload, index, of) ==
    /\ claim = << >> /\ leaves # << >>
    /\ claim' = <<[leaf |-> merkleLeaf(payload), index |-> index,
                   proof |-> merkleProof(leaves, of), tampers |-> 0]>>
    /\ UNCHANGED <<leaves, climbed>>

\* The nodes of the log's tree: the leaves, and what any proof shows.
Nodes == Range(leaves) \cup
         UNION {Range(merkleProof(leaves, i)) : i \in 0..(Len(leaves) - 1)}

\* A proof of claim, longer, shorter or with another node in one place.
Tampered(proof) ==
    {RemoveAt(proof, i) : i \in DOMAIN proof}
    \cup {InsertAt(proof, i, node) : i \in 1..(Len(proof) + 1), node \in Nodes}
    \cup {ReplaceAt(proof, i, node) : i \in DOMAIN proof, node \in Nodes}

Tamper ==
    /\ claim # << >> /\ climbed = << >> /\ claim[1].tampers < MaxTampers
    /\ \E proof \in Tampered(claim[1].proof) :
          claim' = <<[claim[1] EXCEPT !.proof = proof, !.tampers = @ + 1]>>
    /\ UNCHANGED <<leaves, climbed>>

Climb ==
    /\ claim # << >> /\ climbed = << >>
    /\ climbed' = <<merkleRootFromProof(claim[1].leaf, claim[1].index, Len(leaves), claim[1].proof)>>
    /\ UNCHANGED <<leaves, claim>>

TreeNext ==
    \/ \E payload \in Payloads : Grow(payload)
    \/ \E payload \in Payloads, index \in -1..Len(leaves), of \in 0..(Len(leaves) - 1) :
          Claim(payload, index, of)
    \/ Tamper
    \/ Climb

TreeSpec == TreeInit /\ [][TreeNext]_treeVars

----------------------------------------------------------------------------
(***************************************************************************)
(* The checker reaches the root the generator computes exactly when the    *)
(* leaf is in the log at the index claimed and the proof is the one the    *)
(* generator builds for it: no other index, leaf, or proof that was cut,   *)
(* extended or altered gets there.  (merkleRootFromProof, checks.go        *)
(* 997-1038, against merkleRoot and merkleProof, aelgen main.go 2520-2553.)*)
(***************************************************************************)
InclusionExact ==
    climbed # << >> =>
        LET entry == claim[1]
            present == /\ entry.index \in 0..(Len(leaves) - 1)
                       /\ leaves[entry.index + 1] = entry.leaf
                       /\ entry.proof = merkleProof(leaves, entry.index)
        IN  climbed[1] = merkleRoot(leaves) <=> present
=============================================================================
