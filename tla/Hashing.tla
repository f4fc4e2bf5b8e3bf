------------------------------ MODULE Hashing -------------------------------
(***************************************************************************)
(* The hashes of services/governance/app/ledger.py, taken as injective:    *)
(* the hash of an anchor is the sequence of the Merkle roots it commits to *)
(* (sha256 of "prev:root" is collision free as far as any run can tell).   *)
(***************************************************************************)
EXTENDS Integers, Sequences

\* GENESIS_HASH commits to nothing.
Genesis == <<>>

\* LocalHashChainAnchor.anchor.
Hash(prev, root) == Append(prev, root)

\* The hash the next anchor is chained to.
Tip(anchors) == IF anchors = <<>> THEN Genesis ELSE anchors[Len(anchors)].hash

\* Every anchor points at the one before it and hashes what it says.
Linked(anchors) ==
    \A k \in DOMAIN anchors :
        /\ anchors[k].prev = IF k = 1 THEN Genesis ELSE anchors[k - 1].hash
        /\ anchors[k].hash = Hash(anchors[k].prev, anchors[k].root)
=============================================================================
