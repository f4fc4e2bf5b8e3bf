----------------------------- MODULE HashChain ------------------------------
(***************************************************************************)
(* What LocalHashChainAnchor promises (services/governance/app/ledger.py): *)
(* a chain of anchors that only ever grows at its end, each new anchor     *)
(* hashed over the one before it, from GENESIS_HASH on.                    *)
(***************************************************************************)
EXTENDS Hashing

VARIABLE chain

Init == chain = <<>>

Extend ==
    /\ Len(chain') = Len(chain) + 1
    /\ LET new == chain'[Len(chain')] IN
       /\ chain' = Append(chain, new)
       /\ new.prev = Tip(chain)
       /\ new.hash = Hash(new.prev, new.root)

Spec == Init /\ [][Extend]_chain
=============================================================================
