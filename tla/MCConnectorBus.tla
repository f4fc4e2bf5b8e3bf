--------------------------- MODULE MCConnectorBus ---------------------------
(* ConnectorBus on small instances: one connector that needs trust and a   *)
(* raised ceiling, and one name that is not in the catalogue.              *)
EXTENDS ConnectorBus, TLC

CONSTANTS guarded, missing, r1, r2, a1

MCMinTrust == [c \in Catalogue |-> 1]
MCRiskClass == [c \in Catalogue |-> 1]

Symmetry == Permutations(Requests)

=============================================================================
