------------------------------ MODULE Connectors ------------------------------
(***************************************************************************)
(* The category services behind the bus (src/connectors): a service looks  *)
(* its receiver up, an adapter calls the external system or answers in its *)
(* place.  The billing service calls one outside vendor the same way.      *)
(*                                                                         *)
(* Most adapters only read.  A Slack message, a checkout session and a     *)
(* contract write have an effect outside; whether it came about and what   *)
(* the caller is told are two things.  A write is sent with the account's  *)
(* mined transaction count as its nonce, read before it is sent: two       *)
(* writes that overlap, or one that follows another not yet mined, meet at *)
(* the same nonce, and the node turns the second away or, if it pays more, *)
(* puts it in the place of the first.                                      *)
(***************************************************************************)
EXTENDS Naturals, FiniteSets

CONSTANTS
    VendorCalls,   \* the calls, each made once
    Orders,        \* what may be called for: records of a receiver, an op and a domain
    Configured,    \* what secrets may hold
    VendorFaults   \* a subset of {"unreachable", "lost", "refused", "outbid", "dropped"}

ASSUME VendorAssumption == IsFiniteSet(VendorCalls) /\ Orders # {}

VARIABLES
    secrets,     \* those set: SLACK_BOT_TOKEN, EVM_PRIVATE_KEY, STRIPE_API_KEY
    vendorCall,  \* the order and the answer of each call
    posted,      \* the calls whose message is in the channel, or whose session is open
    pooled,      \* the calls whose transaction is pending, with its nonce
    mined,       \* the calls whose transaction is mined
    displaced    \* auxiliary: the calls whose transaction was replaced or dropped

vendorVars == <<secrets, vendorCall, posted, pooled, mined, displaced>>
outside == <<secrets, posted, pooled, mined, displaced>>

VendorInit ==
    /\ secrets \in Configured
    /\ vendorCall = [c \in VendorCalls |-> [stage |-> "idle", order |-> CHOOSE o \in Orders : TRUE,
                                            nonce |-> 0, answer |-> "none"]]
    /\ posted = {} /\ pooled = {} /\ mined = {} /\ displaced = {}

-----------------------------------------------------------------------------
Specialized == {"ethereum", "github", "dockerhub", "gitlab", "slack", "ml", "salesforce", "stripe"}

\* MY_CONNECTORS: what the catalogue names besides.
MyConnectors == {"sap", "workday"}

\* Those behind the enterprise service, the only one that knows domains.
Enterprise == MyConnectors \cup {"salesforce"}

\* DOMAIN_REGISTRY, as far as it concerns these connectors.
DomainOf(name) == CASE name = "sap" -> {"scm", "hrm"} [] name = "workday" -> {"hrm"} [] OTHER -> {}

Answers(c, answers) ==
    \E answer \in answers : vendorCall' = [vendorCall EXCEPT ![c] = [@ EXCEPT !.stage = "done", !.answer = answer]]

\* The enterprise service turns a connector away that the domain named does
\* not approve, whoever implements it; the others look the receiver up only.
Execute(c, o) ==
    /\ vendorCall[c].stage = "idle"
    /\ LET Begins(stage, answer) ==
             vendorCall' = [vendorCall EXCEPT ![c] =
                              [stage |-> stage, order |-> o, nonce |-> 0, answer |-> answer]]
       IN CASE o.name \in Enterprise /\ o.domain # "none" /\ o.domain \notin DomainOf(o.name) -> Begins("done", "400")
            [] o.name \in Specialized -> Begins("adapter", "none")
            [] o.name \in MyConnectors -> Begins("done", "stub")
            [] OTHER -> Begins("done", "404")
    /\ UNCHANGED outside

\* A call that changes nothing outside.
Reading == {"specialized"} \cup (IF "unreachable" \in VendorFaults THEN {"degraded"} ELSE {})

Serves(c, name) == vendorCall[c].stage = "adapter" /\ vendorCall[c].order.name = name

Op(c) == vendorCall[c].order.op

GitHub(c) ==
    /\ Serves(c, "github")
    /\ Answers(c, IF Op(c) = "list_open_issues" THEN Reading ELSE {"error"})
    /\ UNCHANGED outside

DockerHub(c) ==
    /\ Serves(c, "dockerhub")
    /\ Answers(c, IF Op(c) \in {"repo", "tags"} THEN Reading ELSE {"error"})
    /\ UNCHANGED outside

GitLab(c) ==
    /\ Serves(c, "gitlab")
    /\ Answers(c, IF Op(c) \in {"project", "list_issues"} THEN Reading ELSE {"error"})
    /\ UNCHANGED outside

\* Any prompt is a completion.
SelfHostedML(c) == Serves(c, "ml") /\ Answers(c, Reading) /\ UNCHANGED outside

Salesforce(c) ==
    /\ Serves(c, "salesforce")
    /\ Answers(c, IF Op(c) = "lookup_contact" THEN {"specialized"} ELSE {"error"})
    /\ UNCHANGED outside

\* Mutant of SlackSays: an answer 200 whose body says ok: false is a success.
SlackSaysOk(outcome) == IF outcome \in {"posted", "refused"} THEN {"specialized"} ELSE {"degraded"}

SlackSays(outcome) == IF outcome = "posted" THEN {"specialized"} ELSE {"degraded"}

Slack(c) ==
    /\ Serves(c, "slack")
    /\ IF Op(c) = "post_message" /\ "SLACK_BOT_TOKEN" \in secrets
       THEN \E outcome \in {"posted"} \cup (VendorFaults \cap {"unreachable", "lost", "refused"}) :
              /\ posted' = posted \cup (IF outcome \in {"posted", "lost"} THEN {c} ELSE {})
              /\ Answers(c, SlackSays(outcome))
              /\ UNCHANGED <<secrets, pooled, mined, displaced>>
       ELSE /\ Answers(c, IF Op(c) = "post_message" THEN {"degraded"} ELSE {"error"})
            /\ UNCHANGED outside

\* billing: a request the vendor refuses raises, as one without an answer does.
Checkout(c) ==
    /\ Serves(c, "stripe")
    /\ IF "STRIPE_API_KEY" \in secrets
       THEN \E outcome \in {"posted"} \cup (VendorFaults \cap {"unreachable", "lost"}) :
              /\ posted' = posted \cup (IF outcome \in {"posted", "lost"} THEN {c} ELSE {})
              /\ Answers(c, IF outcome = "posted" THEN {"specialized"} ELSE {"degraded"})
              /\ UNCHANGED <<secrets, pooled, mined, displaced>>
       ELSE Answers(c, {"unconfigured"}) /\ UNCHANGED outside

\* Both reads of the chain, and everything a write asks for before its nonce.
RawRpcOrRead(c) ==
    /\ Serves(c, "ethereum") /\ Op(c) # "contract_write"
    /\ Answers(c, Reading)
    /\ UNCHANGED outside

Signs == "EVM_PRIVATE_KEY" \in secrets

ContractWrite(c) ==
    /\ Serves(c, "ethereum") /\ Op(c) = "contract_write"
    /\ \/ /\ Signs
          /\ vendorCall' = [vendorCall EXCEPT ![c] = [@ EXCEPT !.stage = "send", !.nonce = Cardinality(mined)]]
       \/ /\ ~Signs \/ "unreachable" \in VendorFaults
          /\ Answers(c, {"degraded"})
    /\ UNCHANGED outside

Rivals(c) == {t \in pooled : t.nonce = vendorCall[c].nonce}

SendRaw(c) ==
    /\ vendorCall[c].stage = "send"
    /\ \/ /\ vendorCall[c].nonce = Cardinality(mined)
          /\ Rivals(c) = {} \/ "outbid" \in VendorFaults
          /\ pooled' = (pooled \ Rivals(c)) \cup {[call |-> c, nonce |-> vendorCall[c].nonce]}
          /\ displaced' = displaced \cup {t.call : t \in Rivals(c)}
          /\ Answers(c, {"specialized"} \cup (IF "lost" \in VendorFaults THEN {"degraded"} ELSE {}))
       \/ /\ \/ vendorCall[c].nonce < Cardinality(mined) \/ Rivals(c) # {}
             \/ "unreachable" \in VendorFaults
          /\ Answers(c, {"degraded"})
          /\ UNCHANGED <<pooled, displaced>>
    /\ UNCHANGED <<secrets, posted, mined>>

MineNext ==
    \E t \in pooled :
        /\ t.nonce = Cardinality(mined)
        /\ pooled' = pooled \ {t} /\ mined' = mined \cup {t.call}
        /\ UNCHANGED <<secrets, vendorCall, posted, displaced>>

DropPending ==
    \E t \in pooled :
        /\ "dropped" \in VendorFaults
        /\ pooled' = pooled \ {t} /\ displaced' = displaced \cup {t.call}
        /\ UNCHANGED <<secrets, vendorCall, posted, mined>>

Adapter(c) ==
    \/ GitHub(c) \/ DockerHub(c) \/ GitLab(c) \/ SelfHostedML(c) \/ Salesforce(c)
    \/ Slack(c) \/ Checkout(c) \/ RawRpcOrRead(c) \/ ContractWrite(c) \/ SendRaw(c)

VendorNext ==
    \/ \E c \in VendorCalls : Adapter(c) \/ (\E o \in Orders : Execute(c, o))
    \/ MineNext \/ DropPending

VendorSpec == VendorInit /\ [][VendorNext]_vendorVars

-----------------------------------------------------------------------------
VendorTypeOK ==
    /\ secrets \in Configured
    /\ vendorCall \in [VendorCalls ->
         [stage : {"idle", "adapter", "send", "done"}, order : Orders, nonce : Nat,
          answer : {"none", "specialized", "degraded", "unconfigured", "stub", "error", "400", "404"}]]
    /\ posted \cup mined \cup displaced \subseteq VendorCalls
    /\ pooled \subseteq [call : VendorCalls, nonce : Nat]

\* What an order that changes something has changed so far.
Took(c) == c \in posted \cup mined \cup {t.call : t \in pooled}

\* The orders that change something outside.
Effects == {<<"slack", "post_message">>, <<"stripe", "checkout">>, <<"ethereum", "contract_write">>}
Alters(c) == <<vendorCall[c].order.name, Op(c)>> \in Effects

\* A caller told that its message, session or transaction went out is told
\* the truth, unless the transaction is outbid or dropped, and one told
\* anything but that or degraded has changed nothing.  A transaction is never
\* both replaced and mined, and no two wait for the same nonce.
EffectMatchesAnswer ==
    /\ \A c \in VendorCalls :
        LET told == vendorCall[c].answer IN
        /\ (told = "specialized" /\ Alters(c)) => (Took(c) \/ c \in displaced)
        /\ Took(c) => told \in {"specialized", "degraded"}
        /\ ~(Took(c) /\ c \in displaced)
    /\ \A t, u \in pooled : t.nonce = u.nonce => t = u
=============================================================================
