------------------------------ MODULE Conformance ------------------------------
(***************************************************************************)
(* The conformance suite (src/sdk/python/aepx/conformance) as the testing  *)
(* platform runs it (src/platform/conformance/app/main.py) against a       *)
(* deployment whose services all do what the protocol asks, but which      *)
(* lives: Postgres comes and goes, the ledgers grow and a restart of the   *)
(* governance service empties the one in memory, the risk ceiling of the   *)
(* registry contract changes or cannot be read, services go down and come  *)
(* back, all of it between any two calls of a check.                       *)
(***************************************************************************)
EXTENDS Naturals, Sequences, SequencesExt

CONSTANTS
    Selections,    \* the sets of checks a run may be asked for; no wish is a wish for all
    Ceilings,      \* the ordinals the policy's ceiling may have
    VerifyLimit,   \* 10_000, the anchors that a verification lists
    MaxChain,      \* bound on the anchors of a ledger
    MaxRuns,       \* bound on the runs
    MaxKept,       \* _MAX_RUNS
    SuiteFaults    \* a subset of {"skip", "postgres", "restart", "ceiling", "down"}

VARIABLES
    deployment, \* the store at hand, the anchors in each, the ceiling, whether a service is down
    bumps,      \* the adjustments of each entity in each store of the trust service
    suite,      \* the run under way: its number and checks, where it is, the calls made, the anchor read
    report,     \* whether a check passed, and those that failed
    kept,       \* _RUNS
    disturbed   \* auxiliary: the checks between whose calls what they rest on changed

suiteVars == <<deployment, bumps, suite, report, kept, disturbed>>

CHECKS == <<"envelope-shape", "envelope-routes", "unknown-connector", "default-score", "trust.adjust",
            "policy-ordinal", "audit-shape", "did.roundtrip", "did.malformed", "anchor-shape",
            "ledger.verify", "gateway.health">>

ASSUME SuiteAssumption ==
    /\ Selections \subseteq SUBSET ToSet(CHECKS) /\ {} \notin Selections
    /\ Ceilings \subseteq Nat /\ Ceilings # {}
    /\ VerifyLimit \in Nat /\ MaxChain \in Nat /\ MaxRuns \in Nat /\ MaxKept \in Nat

Stores == {"postgres", "memory"}

NoAnchor == [store |-> "postgres", seq |-> 0]
Unreported == [passed |-> FALSE, failed |-> {}]

SuiteInit ==
    /\ deployment = [store |-> "postgres", chains |-> [s \in Stores |-> 0],
                      ceiling |-> CHOOSE c \in Ceilings : TRUE, down |-> FALSE]
    /\ bumps = [e \in 1..MaxRuns |-> [s \in Stores |-> 0]]
    /\ suite = [run |-> 0, ids |-> {}, at |-> 0, calls |-> <<>>, newest |-> NoAnchor]
    /\ report = Unreported /\ kept = <<>> /\ disturbed = {}

-----------------------------------------------------------------------------
Running == suite.at # 0
Now == IF suite.at > Len(CHECKS) THEN "end" ELSE CHECKS[suite.at]

\* The next check that is asked for, the end after the last.
After(at, ids) ==
    CHOOSE n \in (at + 1)..(Len(CHECKS) + 1) :
        /\ n <= Len(CHECKS) => CHECKS[n] \in ids
        /\ \A m \in (at + 1)..(n - 1) : CHECKS[m] \notin ids

CreateRun(ids) ==
    /\ ~Running /\ suite.run < MaxRuns
    /\ suite' = [run |-> suite.run + 1, ids |-> ids, at |-> After(0, ids), calls |-> <<>>, newest |-> NoAnchor]
    /\ report' = Unreported /\ disturbed' = {}
    /\ UNCHANGED <<deployment, bumps, kept>>

Verdict(status) ==
    /\ suite' = [suite EXCEPT !.at = After(@, suite.ids), !.calls = <<>>, !.newest = NoAnchor]
    /\ report' = [passed |-> report.passed \/ status = "pass",
                  failed |-> report.failed \cup IF status = "fail" THEN {Now} ELSE {}]

PassIf(condition) == Verdict(IF condition THEN "pass" ELSE "fail")

Calls(answer) == suite' = [suite EXCEPT !.calls = Append(@, answer)] /\ UNCHANGED report

\* An exception of any kind skips the check.
Skip ==
    /\ "skip" \in SuiteFaults
    /\ Running /\ Now \notin {"end", "envelope-shape"}
    /\ Verdict("skip")
    /\ UNCHANGED <<deployment, bumps, kept, disturbed>>

\* One question with one answer, whatever the store it comes from.
Shape ==
    /\ Running
    /\ Now \in {"envelope-shape", "unknown-connector", "default-score", "audit-shape",
                "did.roundtrip", "did.malformed", "anchor-shape"}
    /\ Verdict("pass")
    /\ UNCHANGED <<deployment, bumps, kept, disturbed>>

\* A category service that is down is an error of the bus; one that is down
\* behind the gateway is not ok there.
Health ==
    /\ Running /\ Now \in {"envelope-routes", "gateway.health"}
    /\ PassIf(~deployment.down)
    /\ UNCHANGED <<deployment, bumps, kept, disturbed>>

\* A fresh one for every run.
Entity(run) == run

\* The entity is asked for, then adjusted, each time in the store at hand; an
\* adjustment whose commit loses its answer is made in both.
TrustAdjust ==
    /\ Running /\ Now = "trust.adjust"
    /\ IF suite.calls = <<>>
       THEN Calls(TRUE) /\ UNCHANGED bumps
       ELSE \E stores \in {{deployment.store}, {"memory"} \cup {deployment.store}} :
              LET answering == IF "memory" \in stores THEN "memory" ELSE "postgres"
                  e == Entity(suite.run)
              IN /\ stores = {deployment.store} \/ "postgres" \in SuiteFaults
                 /\ bumps' = [bumps EXCEPT ![e] = [s \in Stores |-> @[s] + IF s \in stores THEN 1 ELSE 0]]
                 /\ PassIf(bumps'[e][answering] = 1)
    /\ UNCHANGED <<deployment, kept, disturbed>>

\* S0 to S4, each against the ceiling of its moment.
PolicyOrdinal ==
    /\ Running /\ Now = "policy-ordinal"
    /\ IF Len(suite.calls) < 5
       THEN Calls(Len(suite.calls) <= deployment.ceiling)
       ELSE PassIf(\A i \in 1..5 : suite.calls[i] => \A j \in 1..i : suite.calls[j])
    /\ UNCHANGED <<deployment, bumps, kept, disturbed>>

\* Mutant of Covers: the last row of an anchor is not taken for one it seals.
CoversShort(s, anchor) ==
    IF s = anchor.store THEN {anchor.seq < deployment.chains[s]}
                        ELSE {FALSE, deployment.chains[s] # 0}

\* The newest anchor of the store at hand is read, then verified in the store
\* at hand by then.  A ledger covers the rows its anchors seal, in memory the
\* same ones after every restart; whether it covers a row of the other store
\* is chance.  The replay from genesis of a list that leaves out the first
\* anchor fails whatever the row.  Without an anchor, an id that no anchor has.
Covers(s, anchor) ==
    IF s = anchor.store THEN {anchor.seq <= deployment.chains[s]}
                        ELSE {FALSE, deployment.chains[s] # 0}

LedgerVerify ==
    /\ Running /\ Now = "ledger.verify"
    /\ LET s == deployment.store
       IN IF suite.calls = <<>>
          THEN /\ suite' = [suite EXCEPT !.calls = <<TRUE>>,
                                         !.newest = [store |-> s, seq |-> deployment.chains[s]]]
               /\ UNCHANGED report
          ELSE IF suite.newest.seq = 0 THEN Verdict("pass")
          ELSE \E anchored \in Covers(s, suite.newest) :
                 PassIf(anchored /\ deployment.chains[s] <= VerifyLimit)
    /\ UNCHANGED <<deployment, bumps, kept, disturbed>>

\* The report is kept, the oldest beyond the bound dropped.
EndRun ==
    /\ Running /\ Now = "end"
    /\ LET all == Append(kept, report.failed = {} /\ report.passed)
       IN kept' = SubSeq(all, IF Len(all) > MaxKept THEN Len(all) - MaxKept + 1 ELSE 1, Len(all))
    /\ suite' = [suite EXCEPT !.at = 0, !.ids = {}]
    /\ UNCHANGED <<deployment, bumps, report, disturbed>>

\* What the suite asks lives on.
Disturbs(check) ==
    disturbed' = disturbed \cup IF Running /\ Now = check /\ suite.calls # <<>> THEN {check} ELSE {}

\* Postgres is lost or back, for the readers of the ledger as for the trust service.
SwitchStore ==
    /\ "postgres" \in SuiteFaults
    /\ \E s \in Stores \ {deployment.store} : deployment' = [deployment EXCEPT !.store = s]
    /\ Disturbs("ledger.verify")
    /\ UNCHANGED <<bumps, suite, report, kept>>

\* The anchors of the ledgers change, and nothing else.
Becomes(chains) == deployment' = [deployment EXCEPT !.chains = chains]

\* The consumer's row completes a batch, in the store that took it.
AnchorRows ==
    /\ \E s \in Stores :
         /\ deployment.chains[s] < MaxChain
         /\ Becomes([deployment.chains EXCEPT ![s] = @ + 1])
    /\ UNCHANGED <<bumps, suite, report, kept, disturbed>>

RestartGovernance ==
    /\ "restart" \in SuiteFaults /\ deployment.chains["memory"] # 0
    /\ Becomes([deployment.chains EXCEPT !["memory"] = 0])
    /\ IF deployment.store = "memory" THEN Disturbs("ledger.verify") ELSE UNCHANGED disturbed
    /\ UNCHANGED <<bumps, suite, report, kept>>

MoveCeiling ==
    /\ "ceiling" \in SuiteFaults
    /\ \E c \in Ceilings \ {deployment.ceiling} : deployment' = [deployment EXCEPT !.ceiling = c]
    /\ Disturbs("policy-ordinal")
    /\ UNCHANGED <<bumps, suite, report, kept>>

ServiceUpDown ==
    /\ "down" \in SuiteFaults
    /\ deployment' = [deployment EXCEPT !.down = ~@]
    /\ UNCHANGED <<bumps, suite, report, kept, disturbed>>

Lives == SwitchStore \/ AnchorRows \/ RestartGovernance \/ MoveCeiling \/ ServiceUpDown

SuiteNext ==
    \/ \E ids \in Selections : CreateRun(ids)
    \/ Skip \/ Shape \/ Health \/ TrustAdjust \/ PolicyOrdinal \/ LedgerVerify \/ EndRun
    \/ Lives

SuiteSpec == SuiteInit /\ [][SuiteNext]_suiteVars

-----------------------------------------------------------------------------
SuiteTypeOK ==
    /\ deployment \in [store : Stores, chains : [Stores -> 0..MaxChain], ceiling : Ceilings, down : BOOLEAN]
    /\ suite \in [run : 0..MaxRuns, ids : SUBSET ToSet(CHECKS), at : 0..(Len(CHECKS) + 1),
                  calls : Seq(BOOLEAN), newest : [store : Stores, seq : 0..MaxChain]]
    /\ report.failed \subseteq ToSet(CHECKS)
    /\ kept \in Seq(BOOLEAN) /\ Len(kept) <= MaxKept

\* What excuses a check that fails now: between its calls the ceiling moved, or
\* the ledger was another or was emptied; a service is down; or the ledger at
\* hand has outgrown what a verification lists.
Excused(check) ==
    \/ check \in disturbed
    \/ check \in {"envelope-routes", "gateway.health"} /\ deployment.down
    \/ check = "ledger.verify" /\ deployment.chains[deployment.store] > VerifyLimit

Explained == \A check \in report'.failed \ report.failed : Excused(check)

\* A conforming deployment never fails a check without one of these, and a
\* ledger that only grows is none of them as long as a verification lists it
\* all.  The trust round trip never fails, over outages, lost answers and
\* repeated runs, nor does any check of one question.
FalseAlarmsExplained == [][Explained]_suiteVars
=============================================================================
