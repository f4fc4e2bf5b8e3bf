------------------------------ MODULE MCServices ------------------------------
(***************************************************************************)
(* One run for the services that meet neither each other nor the governed  *)
(* call: a behaviour is one of one of them, chosen at the start, and the   *)
(* others stay where they began.  The state space is the sum of theirs.    *)
(* Workflows and discovery both come with the registry they ask.           *)
(***************************************************************************)
EXTENDS Marketplace, WorkflowEngine, Discovery, ServiceMonitor, Routing, Connectors, Conformance

VARIABLE part

Parts == {"market", "flow", "seek", "monitor", "route", "vendor", "suite"}

engineVars == <<workflows, execution, completed, safetyVars>>
queryVars == <<cacheEntry, seeker, answers>>
servicesVars == <<part, marketVars, registryVars, engineVars, queryVars, monitorVars, routeVars,
                  vendorVars, suiteVars>>

ServicesInit ==
    /\ part \in Parts
    /\ part = "vendor" \/ secrets = {}
    /\ MarketInit /\ FlowInit /\ SeekInit /\ MonitorInit /\ RouteInit /\ VendorInit /\ SuiteInit

Market  == part = "market" /\ MarketNext
    /\ UNCHANGED <<part, registryVars, engineVars, queryVars, monitorVars, routeVars, vendorVars, suiteVars>>
Flow    == part = "flow" /\ FlowNext
    /\ UNCHANGED <<part, marketVars, queryVars, monitorVars, routeVars, vendorVars, suiteVars>>
Seek    == part = "seek" /\ SeekNext
    /\ UNCHANGED <<part, marketVars, engineVars, monitorVars, routeVars, vendorVars, suiteVars>>
Monitor == part = "monitor" /\ MonitorNext
    /\ UNCHANGED <<part, marketVars, registryVars, engineVars, queryVars, routeVars, vendorVars, suiteVars>>
Route   == part = "route" /\ RouteNext
    /\ UNCHANGED <<part, marketVars, registryVars, engineVars, queryVars, monitorVars, vendorVars, suiteVars>>
Vendor  == part = "vendor" /\ VendorNext
    /\ UNCHANGED <<part, marketVars, registryVars, engineVars, queryVars, monitorVars, routeVars, suiteVars>>
Suite   == part = "suite" /\ SuiteNext
    /\ UNCHANGED <<part, marketVars, registryVars, engineVars, queryVars, monitorVars, routeVars, vendorVars>>

ServicesNext == Market \/ Flow \/ Seek \/ Monitor \/ Route \/ Vendor \/ Suite

\* The safety engine's consumer and the brain's thread run for ever.
ServicesSpec ==
    /\ ServicesInit /\ [][ServicesNext]_servicesVars
    /\ WF_servicesVars(part = "flow" /\ Review
         /\ UNCHANGED <<part, marketVars, queryVars, monitorVars, routeVars, vendorVars, suiteVars>>)
    /\ WF_servicesVars(part = "monitor" /\ MonitorPass
         /\ UNCHANGED <<part, marketVars, registryVars, engineVars, queryVars, routeVars, vendorVars, suiteVars>>)

\* The values of every service's state, each module's invariant with the
\* shape of what its handlers read and write.
ServicesTypeOK ==
    MarketTypeOK /\ FlowTypeOK /\ SeekTypeOK /\ MonitorTypeOK /\ RouteTypeOK /\ VendorTypeOK /\ SuiteTypeOK

-----------------------------------------------------------------------------
MCDeltas == {-1, 1}
MCNames == <<"a1", "a2">>
MCStepLists == {<<>>, <<"a1">>}
MCServiceList == <<"registry", "trust", "governance">>
MCDefaults == <<"cache", "small_model", "large_model">>
MCSelections ==
    LET several == {"trust.adjust", "policy-ordinal", "ledger.verify"} IN {several, ToSet(CHECKS) \ several}

Order(name, op, domain) == [name |-> name, op |-> op, domain |-> domain]
MCOrders ==
    {Order("ethereum", "contract_write", "none"), Order("ethereum", "contract_read", "none"),
     Order("slack", "post_message", "none"), Order("slack", "other", "none"),
     Order("stripe", "checkout", "none"), Order("github", "list_open_issues", "none"),
     Order("dockerhub", "tags", "none"), Order("gitlab", "other", "none"),
     Order("ml", "completion", "scm"), Order("salesforce", "lookup_contact", "none"),
     Order("sap", "read", "scm"), Order("workday", "read", "scm"), Order("nowhere", "read", "none")}
=============================================================================
