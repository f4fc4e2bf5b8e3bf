------------------------------ MODULE Marketplace ------------------------------
(***************************************************************************)
(* The governed publication of services/marketplace/app/main.py, with the  *)
(* trust service it asks (TrustStore) and the policy it asks for.          *)
(*                                                                         *)
(* A publication reads the publisher's score over HTTP, then the policy,   *)
(* then writes the listing, each some time after the other: scores are     *)
(* adjusted, Postgres goes away and other publications of the listing run  *)
(* in between.  Both checks fail closed.  A publication that is refused    *)
(* puts the listing in review, whatever it was before.                     *)
(***************************************************************************)
EXTENDS TrustStore, FiniteSets, Folds

CONSTANTS
    Listings,
    MinPublish,    \* MIN_PUBLISH_TRUST
    RiskLabels,    \* the labels a listing may carry, "none" standing for one that no policy knows
    ChainReadings, \* the ordinals the registry contract may name, above 4 when it cannot be read
    MarketFaults   \* a subset of {"silent", "restart"}

ASSUME MarketAssumption == Listings # {} /\ RiskLabels # {}

VARIABLES
    listings,  \* _LISTINGS
    gate,      \* what each publication waits for
    cleared    \* auxiliary: the publications during which the publisher had the score

marketVars == <<trustVars, listings, gate, cleared>>

Drafts == [status : {"none", "draft", "review", "published"}, publisher : Entities, risk : RiskLabels]

MarketInit ==
    /\ TrustInit
    /\ listings = [l \in Listings |-> [status |-> "none", publisher |-> Idle.entity,
                                      risk |-> CHOOSE r \in RiskLabels : TRUE]]
    /\ gate = [k \in TrustCallers |-> [stage |-> "idle", listing |-> CHOOSE l \in Listings : TRUE]]
    /\ cleared = {}

-----------------------------------------------------------------------------
\* The rounded mean of the components; of five there is no tie to round.
Total(row) ==
    LET n == Cardinality(Components)
    IN (2 * MapThenFoldSet(+, 0, LAMBDA c : row[c], LAMBDA s : CHOOSE c \in s : TRUE, Components) + n)
           \div (2 * n)

\* The two scales name the same ordinals; a label of neither has none.
RiskRank(label) ==
    CASE label \in {"S0", "AIA-R0"} -> 0 [] label \in {"S1", "AIA-R1"} -> 1
      [] label \in {"S2", "AIA-R2"} -> 2 [] label \in {"S3", "AIA-R3"} -> 3
      [] label \in {"S4", "AIA-R4"} -> 4 [] OTHER -> -1

\* No contract, one that cannot be read and an ordinal without a level alike.
OnchainMaxRiskLevel(reading) ==
    IF reading \in 0..4 THEN <<"S0", "S1", "S2", "S3", "S4">>[reading + 1] ELSE "none"

\* The ceiling is the contract's when it can be read, else the seed policy's.
PolicyAllows(label, reading) ==
    LET onchain == OnchainMaxRiskLevel(reading)
        ceiling == IF onchain = "none" THEN "S2" ELSE onchain
    IN RiskRank(label) >= 0 /\ RiskRank(label) <= RiskRank(ceiling)

Clears(row) == Total(row) >= MinPublish

Marks == cleared' = {k \in TrustCallers :
    /\ gate'[k].stage # "idle"
    /\ LET e == listings'[gate'[k].listing].publisher
       IN k \in cleared \/ Clears(trustRows'[e]) \/ Clears(spareRows'[e])}

CreateListing(l, e, risk) ==
    /\ listings[l].status = "none"
    /\ listings' = [listings EXCEPT ![l] = [status |-> "draft", publisher |-> e, risk |-> risk]]
    /\ UNCHANGED <<trustVars, gate>>

Publish(k, l) ==
    /\ listings[l].status # "none" /\ gate[k].stage = "idle"
    /\ gate' = [gate EXCEPT ![k] = [stage |-> "trust", listing |-> l]]
    /\ TrustAsked(k, "get", listings[l].publisher, Idle.component, Idle.delta)
    /\ UNCHANGED listings

Closes(k, status) ==
    /\ gate' = [gate EXCEPT ![k].stage = "idle"]
    /\ listings' = [listings EXCEPT ![gate[k].listing].status = status]

Deny(k) == Closes(k, "review")

CheckTrust(k) ==
    /\ gate[k].stage = "trust" /\ TrustReturns(k)
    /\ IF Clears(job[k].read)
       THEN gate' = [gate EXCEPT ![k].stage = "policy"] /\ UNCHANGED listings
       ELSE Deny(k)

\* Mutant of TrustSilent: the platform's usual fail-open.
TrustSilentOpen(k) ==
    /\ "silent" \in MarketFaults
    /\ gate[k].stage = "trust"
    /\ gate' = [gate EXCEPT ![k].stage = "policy"]
    /\ UNCHANGED <<trustVars, listings>>

\* Either service may not answer in time; the trust request runs on alone.
TrustSilent(k) ==
    /\ "silent" \in MarketFaults
    /\ gate[k].stage = "trust"
    /\ Deny(k)
    /\ UNCHANGED trustVars

CheckPolicy(k) ==
    /\ gate[k].stage = "policy"
    /\ \/ \E reading \in ChainReadings :
            IF PolicyAllows(listings[gate[k].listing].risk, reading)
            THEN Closes(k, "published")
            ELSE Deny(k)
       \/ "silent" \in MarketFaults /\ Deny(k)
    /\ UNCHANGED trustVars

MarketRestart ==
    /\ "restart" \in MarketFaults
    /\ listings' = [l \in Listings |-> [listings[l] EXCEPT !.status = "none"]]
    /\ gate' = [k \in TrustCallers |-> [gate[k] EXCEPT !.stage = "idle"]]
    /\ UNCHANGED trustVars

\* The requests the bus makes of the trust service meanwhile.
TrustMoves ==
    /\ \/ \E k \in TrustCallers :
            \/ \E e \in Entities, c \in Components, d \in Deltas :
                 gate[k].stage = "idle" /\ TrustAsked(k, "adjust", e, c, d)
            \/ TrustStep(k)
            \/ gate[k].stage = "idle" /\ TrustReturns(k)
       \/ TrustRestart
    /\ UNCHANGED <<listings, gate>>

MarketNext ==
    /\ \/ \E l \in Listings :
            \/ \E e \in Entities, risk \in RiskLabels : CreateListing(l, e, risk)
            \/ \E k \in TrustCallers : Publish(k, l)
       \/ \E k \in TrustCallers : CheckTrust(k) \/ TrustSilent(k) \/ CheckPolicy(k)
       \/ MarketRestart \/ TrustMoves
    /\ Marks

MarketSpec == MarketInit /\ [][MarketNext]_marketVars

-----------------------------------------------------------------------------
MarketTypeOK ==
    /\ TrustTypeOK
    /\ listings \in [Listings -> Drafts]
    /\ gate \in [TrustCallers -> [stage : {"idle", "trust", "policy"}, listing : Listings]]
    /\ cleared \subseteq TrustCallers

\* A listing becomes published only through a publication during which its
\* publisher had, in one of the two stores, the score the gate asks for:
\* outages, silent services, adjustments and racing publications included.
Earned == \A l \in Listings :
    listings[l].status # "published" /\ listings'[l].status = "published"
        => \E k \in cleared : gate[k].listing = l

PublishedEarned == [][Earned]_marketVars
=============================================================================
