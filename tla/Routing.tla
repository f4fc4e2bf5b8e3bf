-------------------------------- MODULE Routing --------------------------------
(***************************************************************************)
(* The choice of a tier: POST /execute of services/gateway/app/main.py,    *)
(* which has each candidate scored by services/cost-optimiser/app/main.py  *)
(* in turn and takes the best.                                             *)
(*                                                                         *)
(* Every score reads the caller's trust again, and trust is adjusted while *)
(* the candidates are asked for, so one choice compares scores of several  *)
(* moments.  Utilities are scaled by 10 000.                               *)
(***************************************************************************)
EXTENDS Integers, Sequences

CONSTANTS
    Tiers,         \* ROUTES
    Defaults,      \* DEFAULT_CANDIDATES, cheapest first
    Readings,      \* the trust scores that may be read
    RouteFaults    \* a subset of {"raise"}

\* No default follows the large model or a human, and none is listed twice.
ASSUME RoutingAssumption ==
    /\ Defaults \in Seq(Tiers) /\ Defaults # <<>> /\ Readings \subseteq 0..100
    /\ \A j \in DOMAIN Defaults : \A i \in 1..(j - 1) : Defaults[i] \notin {Defaults[j], "large_model", "human"}

VARIABLES
    choosing,  \* what the request has asked for so far
    decision   \* its answer

routeVars == <<choosing, decision>>

Undecided == [status |-> "none", selected |-> "none"]

RouteInit ==
    /\ choosing = [stage |-> "idle", candidates |-> <<>>, read |-> <<>>]
    /\ decision = Undecided

-----------------------------------------------------------------------------
Utility(trust, tier) ==
    LET accuracy == 2250
        compliance == IF tier = "large_model" THEN 1350 ELSE 1500
        performance == 1000
        risk == IF tier = "human" THEN 50 ELSE 0
    IN accuracy + 20 * trust + compliance + performance - risk

\* Mutant of Best: the last of the best.
BestLast(tiers, read) ==
    CHOOSE i \in DOMAIN tiers : \A j \in DOMAIN tiers :
        LET u(k) == Utility(read[k], tiers[k]) IN u(i) > u(j) \/ (u(i) = u(j) /\ i >= j)

\* max() keeps the first of the best.
Best(tiers, read) ==
    CHOOSE i \in DOMAIN tiers : \A j \in DOMAIN tiers :
        LET u(k) == Utility(read[k], tiers[k]) IN u(i) > u(j) \/ (u(i) = u(j) /\ i <= j)

\* A request that pins an unknown tier is refused; the registry is asked first.
ExecuteRoute(pinned) ==
    /\ choosing.stage = "idle"
    /\ choosing' = [stage |-> "ask", read |-> <<>>,
                    candidates |-> IF pinned \in Tiers THEN <<pinned>> ELSE Defaults]
    /\ decision' = Undecided

Asking == choosing.stage = "ask" /\ Len(choosing.read) < Len(choosing.candidates)

Decide ==
    /\ Asking
    /\ \E trust \in Readings : choosing' = [choosing EXCEPT !.read = Append(@, trust)]
    /\ UNCHANGED decision

\* The optimiser cannot be reached or answers an error for one candidate.
DecideRaises ==
    /\ "raise" \in RouteFaults
    /\ Asking
    /\ decision' = [status |-> "unavailable", selected |-> "none"]
    /\ choosing' = [choosing EXCEPT !.stage = "idle"]

\* The registry cannot be reached, or what it answered cannot be read.
ExecuteRaises ==
    /\ "raise" \in RouteFaults
    /\ choosing.stage = "ask" /\ (choosing.read = <<>> \/ ~Asking)
    /\ choosing' = [choosing EXCEPT !.stage = "idle"]
    /\ UNCHANGED decision

Select ==
    /\ choosing.stage = "ask" /\ ~Asking
    /\ decision' = [status |-> "decided",
                    selected |-> choosing.candidates[Best(choosing.candidates, choosing.read)]]
    /\ choosing' = [choosing EXCEPT !.stage = "idle"]

RouteNext ==
    \/ \E pinned \in Tiers \cup {"none"} : ExecuteRoute(pinned)
    \/ Decide \/ DecideRaises \/ Select \/ ExecuteRaises

RouteSpec == RouteInit /\ [][RouteNext]_routeVars

-----------------------------------------------------------------------------
RouteTypeOK ==
    /\ choosing \in [stage : {"idle", "ask"}, candidates : Seq(Tiers), read : Seq(Readings)]
    /\ decision \in [status : {"none", "decided", "unavailable"}, selected : Tiers \cup {"none"}]

\* The cheapest candidate wins unless the caller's trust rose while the
\* candidates were asked for, and for the large model by more than what it
\* loses in compliance.
DearerOnlyIfTrustRose ==
    decision.status = "decided" =>
        \A i \in DOMAIN choosing.candidates : choosing.candidates[i] = decision.selected =>
            \A j \in 1..(i - 1) :
                choosing.read[i] - choosing.read[j] >= IF decision.selected = "large_model" THEN 8 ELSE 1
=============================================================================
