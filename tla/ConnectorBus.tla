---------------------------- MODULE ConnectorBus ----------------------------
(***************************************************************************)
(* The Connector Bus of connector-bus/app/main.py: POST /bus/route.        *)
(*                                                                         *)
(* Every call of a connector goes through one coroutine that asks Trust,   *)
(* Governance and Brain, forwards the envelope to the category service,    *)
(* publishes one audit event and nudges the agent's trust.  The coroutines *)
(* of all calls share one event loop, so the code between two awaits is    *)
(* one step here and every await is a point where others may run.          *)
(*                                                                         *)
(* Trust scores, the risk ceiling and the circuits belong to other         *)
(* services; here they may change between any two steps.  The Kafka client *)
(* is modelled from its use: send() only queues the event, and a sender    *)
(* thread delivers or drops it later.                                      *)
(***************************************************************************)
EXTENDS Integers, Sequences

CONSTANTS
    Requests,    \* the calls of POST /bus/route
    Agents,      \* senders
    Names,       \* connector names a receiver may carry
    Catalogue,   \* the names in connectors/catalogue.json
    MinTrust,    \* Catalogue -> the trust score a connector requires
    RiskClass,   \* Catalogue -> its AIA-R class, as an ordinal
    MaxScore,    \* the upper end of the trust scale
    MaxLevel,    \* the upper end of the risk scale
    FaultKinds   \* which dependencies may fail

AllFaults == {"trust", "policy", "brain", "forward", "broker", "crash"}

ASSUME ScaleAssumption == MaxScore \in Nat /\ MaxLevel \in Nat
ASSUME CatalogueAssumption ==
    /\ Catalogue \subseteq Names
    /\ MinTrust \in [Catalogue -> 0..MaxScore]
    /\ RiskClass \in [Catalogue -> 0..MaxLevel]
ASSUME FaultAssumption == FaultKinds \subseteq AllFaults

VARIABLES
    \* one coroutine per request
    pc,         \* the await at which the coroutine of a request is suspended
    call,       \* who calls which connector
    seen,       \* what the checks of a request read
    reply,      \* what the caller was told
    \* the category services
    wire,       \* forwarded envelopes that no category service has handled
    answer,     \* what the category service did with a request
    \* the services the bus asks
    trust, ceiling, circuit,
    \* the Kafka client of the bus and the topics it writes
    producer, brokerUp, outbox, topicLog

busVars   == <<pc, call, seen, reply>>
worldVars == <<wire, answer>>
govVars   == <<trust, ceiling, circuit>>
kafkaVars == <<producer, brokerUp, outbox, topicLog>>
vars == <<busVars, worldVars, govVars, kafkaVars>>

Scores == 0..MaxScore
Levels == 0..MaxLevel
CircuitStates == {"closed", "open", "half_open"}
Stages == {"new", "trust", "policy", "circuit", "forward", "adjust", "done"}
Replies == {"none", "ok", "denied", "unavailable", "unknown", "error", "dead"}
Answers == {"none", "served", "refused", "garbled"}
Topics == {"connector.invoked", "connector.failed"}
Reasons == {"none", "trust_below_threshold", "policy_denied", "circuit_open"}

Calls == [agent : Agents, name : Names]
Readings == [score : Scores \cup {-1}, ceiling : Levels \cup {-1},
             circuit : CircuitStates \cup {"unread", "unreachable"}]
Events == [id : Requests, agent : Agents, connector : Names,
           outcome : {"invoked", "denied"}, reason : Reasons]

Unread == [score |-> -1, ceiling |-> -1, circuit |-> "unread"]

Init ==
    /\ pc = [r \in Requests |-> "new"]
    /\ call \in [Requests -> Calls]
    /\ seen = [r \in Requests |-> Unread]
    /\ reply = [r \in Requests |-> "none"]
    /\ wire = {}
    /\ answer = [r \in Requests |-> "none"]
    /\ trust \in [Agents -> Scores]
    /\ ceiling \in Levels
    /\ circuit = [c \in Catalogue |-> "closed"]
    /\ producer = FALSE
    /\ brokerUp \in (IF "broker" \in FaultKinds THEN BOOLEAN ELSE {TRUE})
    /\ outbox = [t \in Topics |-> <<>>]
    /\ topicLog = <<>>

-----------------------------------------------------------------------------
(* _audit, with the lazy producer.                                         *)

Topic(e) == IF e.outcome = "invoked" THEN "connector.invoked" ELSE "connector.failed"

Event(r, outcome, reason) ==
    [id |-> r, agent |-> call[r].agent, connector |-> call[r].name,
     outcome |-> outcome, reason |-> reason]

\* The producer exists or can be created: the event is queued.
Queued(e) ==
    /\ producer \/ brokerUp
    /\ producer' = TRUE
    /\ outbox' = [outbox EXCEPT ![Topic(e)] = Append(@, e)]
    /\ UNCHANGED <<brokerUp, topicLog>>

\* The broker was never reached: _get_producer returns None, nothing is sent.
NoProducer ==
    /\ ~producer /\ ~brokerUp
    /\ UNCHANGED kafkaVars

Audit(e) == Queued(e) \/ NoProducer

\* send() raises: no metadata for the topic within max_block_ms, or the
\* client's buffer is full, while the broker is away.
AuditRaises ==
    /\ producer /\ ~brokerUp
    /\ UNCHANGED kafkaVars

-----------------------------------------------------------------------------
(* The steps of route().                                                   *)

Finish(r, what) ==
    /\ pc' = [pc EXCEPT ![r] = "done"]
    /\ reply' = [reply EXCEPT ![r] = what]

Suspend(r, stage) ==
    /\ pc' = [pc EXCEPT ![r] = stage]
    /\ UNCHANGED reply

\* Mutant of Deny: the denial is raised before the audit.
DenyUnaudited(r, reason, what) == Finish(r, what) /\ UNCHANGED kafkaVars

\* A denial: audit, then the HTTPException - or the 500 of a failing audit.
Deny(r, reason, what) ==
    \/ Audit(Event(r, "denied", reason)) /\ Finish(r, what)
    \/ AuditRaises /\ Finish(r, "error")

Name(r) == call[r].name
Score(r) == trust[call[r].agent]

Arrive(r) ==
    /\ pc[r] = "new"
    /\ IF Name(r) \in Catalogue THEN Suspend(r, "trust") ELSE Finish(r, "unknown")
    /\ UNCHANGED <<call, seen, worldVars, govVars, kafkaVars>>

\* GET /trust/{agent} or POST /policy/evaluate raises: no handler, no audit.
CheckFails(r) ==
    /\ pc[r] \in {"trust", "policy"} \cap FaultKinds
    /\ Finish(r, "error")
    /\ UNCHANGED <<call, seen, worldVars, govVars, kafkaVars>>

\* Mutant of TrustPasses: the threshold is not compared.
TrustUnchecked(r) ==
    /\ pc[r] = "trust"
    /\ seen' = [seen EXCEPT ![r].score = Score(r)]
    /\ Suspend(r, "policy")
    /\ UNCHANGED <<call, worldVars, govVars, kafkaVars>>

TrustPasses(r) ==
    /\ pc[r] = "trust"
    /\ Score(r) >= MinTrust[Name(r)]
    /\ seen' = [seen EXCEPT ![r].score = Score(r)]
    /\ Suspend(r, "policy")
    /\ UNCHANGED <<call, worldVars, govVars, kafkaVars>>

TrustDenies(r) ==
    /\ pc[r] = "trust"
    /\ Score(r) < MinTrust[Name(r)]
    /\ seen' = [seen EXCEPT ![r].score = Score(r)]
    /\ Deny(r, "trust_below_threshold", "denied")
    /\ UNCHANGED <<call, worldVars, govVars>>

PolicyAllows(r) ==
    /\ pc[r] = "policy"
    /\ RiskClass[Name(r)] <= ceiling
    /\ seen' = [seen EXCEPT ![r].ceiling = ceiling]
    /\ Suspend(r, "circuit")
    /\ UNCHANGED <<call, worldVars, govVars, kafkaVars>>

\* A refusal by Governance; any answer but 200 counts as one.
PolicyDenies(r) ==
    /\ pc[r] = "policy"
    /\ RiskClass[Name(r)] > ceiling \/ "policy" \in FaultKinds
    /\ Deny(r, "policy_denied", "denied")
    /\ UNCHANGED <<call, seen, worldVars, govVars>>

\* The forward is sent as soon as the last check returns.
Forward(r, reading) ==
    /\ seen' = [seen EXCEPT ![r].circuit = reading]
    /\ wire' = wire \cup {r}
    /\ Suspend(r, "forward")

\* Mutant of CircuitAdmits: the audit is written before the forward returns.
AuditBeforeForward(r) ==
    /\ pc[r] = "circuit"
    /\ circuit[Name(r)] # "open"
    /\ Audit(Event(r, "invoked", "none"))
    /\ Forward(r, circuit[Name(r)])
    /\ UNCHANGED <<call, answer, govVars>>

CircuitAdmits(r) ==
    /\ pc[r] = "circuit"
    /\ circuit[Name(r)] # "open"
    /\ Forward(r, circuit[Name(r)])
    /\ UNCHANGED <<call, answer, govVars, kafkaVars>>

\* The except clause of the circuit check: fail open.
BrainUnreachable(r) ==
    /\ pc[r] = "circuit"
    /\ "brain" \in FaultKinds
    /\ Forward(r, "unreachable")
    /\ UNCHANGED <<call, answer, govVars, kafkaVars>>

\* Mutant of CircuitDenies: "except HTTPException: raise" is missing.
DenialSwallowed(r) ==
    /\ pc[r] = "circuit"
    /\ circuit[Name(r)] = "open"
    /\ Audit(Event(r, "denied", "circuit_open"))
    /\ Forward(r, "open")
    /\ UNCHANGED <<call, answer, govVars>>

CircuitDenies(r) ==
    /\ pc[r] = "circuit"
    /\ circuit[Name(r)] = "open"
    /\ Audit(Event(r, "denied", "circuit_open"))
    /\ seen' = [seen EXCEPT ![r].circuit = "open"]
    /\ Finish(r, "unavailable")
    /\ UNCHANGED <<call, worldVars, govVars>>

\* The audit of the denial is inside the same try: when send() raises, the
\* except clause meant for an unreachable Brain lets the call through.
CircuitDenialSwallowed(r) ==
    /\ pc[r] = "circuit"
    /\ circuit[Name(r)] = "open"
    /\ AuditRaises
    /\ Forward(r, "open")
    /\ UNCHANGED <<call, answer, govVars>>

\* The connector answered; whatever the status code, the call is "invoked".
ForwardReturns(r) ==
    /\ pc[r] = "forward"
    /\ answer[r] # "none"
    /\ \/ Audit(Event(r, "invoked", "none")) /\ Suspend(r, "adjust")
       \/ AuditRaises /\ Finish(r, "error")
    /\ UNCHANGED <<call, seen, worldVars, govVars>>

\* Mutant of ForwardFails: the forward has no timeout.
ForwardWaits(r) ==
    /\ pc[r] = "forward" /\ answer[r] # "none"
    /\ Finish(r, "error")
    /\ UNCHANGED <<call, seen, worldVars, govVars, kafkaVars>>

\* The 30 s timeout or a broken connection: the envelope may or may not
\* still reach the connector.
ForwardFails(r) ==
    /\ pc[r] = "forward"
    /\ "forward" \in FaultKinds
    /\ Finish(r, "error")
    /\ wire' \in {wire, wire \ {r}}
    /\ UNCHANGED <<call, seen, answer, govVars, kafkaVars>>

\* Mutant of Bump: the score is not clamped.
BumpUnclamped(s) == s + 1

Bump(s) == IF s < MaxScore THEN s + 1 ELSE MaxScore

\* POST /trust/{agent}/adjust, best effort: one of five components goes up,
\* so their average moves by one or not at all.  Then the response is built:
\* a body that is not JSON raises only now.
AdjustReturns(r) ==
    /\ pc[r] = "adjust"
    /\ trust' \in {trust, [trust EXCEPT ![call[r].agent] = Bump(@)]}
    /\ Finish(r, IF answer[r] = "garbled" THEN "error" ELSE "ok")
    /\ UNCHANGED <<call, seen, worldVars, ceiling, circuit, kafkaVars>>

RouteStep(r) ==
    \/ CheckFails(r)
    \/ TrustPasses(r) \/ TrustDenies(r)
    \/ PolicyAllows(r) \/ PolicyDenies(r)
    \/ CircuitAdmits(r) \/ CircuitDenies(r)
    \/ BrainUnreachable(r) \/ CircuitDenialSwallowed(r)
    \/ ForwardReturns(r) \/ ForwardFails(r)
    \/ AdjustReturns(r)

-----------------------------------------------------------------------------
(* Everything around the coroutines.                                       *)

\* A category service handles an envelope, possibly after the bus gave up.
Execute(r) ==
    /\ r \in wire
    /\ wire' = wire \ {r}
    /\ \E a \in Answers \ {"none"} : answer' = [answer EXCEPT ![r] = a]
    /\ UNCHANGED <<busVars, govVars, kafkaVars>>

\* The sender thread of the Kafka client.
Deliver(t) ==
    /\ brokerUp /\ outbox[t] # <<>>
    /\ topicLog' = Append(topicLog, Head(outbox[t]))
    /\ outbox' = [outbox EXCEPT ![t] = Tail(@)]
    /\ UNCHANGED <<busVars, worldVars, govVars, producer, brokerUp>>

\* A batch that cannot be delivered is dropped; nobody reads its future.
DropBatch(t) ==
    /\ ~brokerUp /\ outbox[t] # <<>>
    /\ outbox' = [outbox EXCEPT ![t] = Tail(@)]
    /\ UNCHANGED <<busVars, worldVars, govVars, producer, brokerUp, topicLog>>

BrokerFlips ==
    /\ "broker" \in FaultKinds
    /\ brokerUp' = ~brokerUp
    /\ UNCHANGED <<busVars, worldVars, govVars, producer, outbox, topicLog>>

\* The container restarts: suspended coroutines and queued events are gone.
Crash ==
    /\ "crash" \in FaultKinds
    /\ LET alive == {r \in Requests : pc[r] \notin {"new", "done"}} IN
       /\ pc' = [r \in Requests |-> IF r \in alive THEN "done" ELSE pc[r]]
       /\ reply' = [r \in Requests |-> IF r \in alive THEN "dead" ELSE reply[r]]
    /\ producer' = FALSE
    /\ outbox' = [t \in Topics |-> <<>>]
    /\ UNCHANGED <<call, seen, worldVars, govVars, brokerUp, topicLog>>

TrustChanges ==
    /\ \E a \in Agents, s \in Scores : trust' = [trust EXCEPT ![a] = s]
    /\ UNCHANGED <<busVars, worldVars, ceiling, circuit, kafkaVars>>

PolicyChanges ==
    /\ ceiling' \in Levels
    /\ UNCHANGED <<busVars, worldVars, trust, circuit, kafkaVars>>

CircuitChanges ==
    /\ \E c \in Catalogue, s \in CircuitStates : circuit' = [circuit EXCEPT ![c] = s]
    /\ UNCHANGED <<busVars, worldVars, trust, ceiling, kafkaVars>>

Next ==
    \/ \E r \in Requests : Arrive(r) \/ RouteStep(r) \/ Execute(r)
    \/ \E t \in Topics : Deliver(t) \/ DropBatch(t)
    \/ BrokerFlips \/ Crash
    \/ TrustChanges \/ PolicyChanges \/ CircuitChanges

Spec == Init /\ [][Next]_vars

\* httpx timeouts bound every await of route(), so a suspended coroutine
\* always resumes.  Connectors, callers and the broker promise nothing.
FairSpec == Spec /\ \A r \in Requests : WF_vars(RouteStep(r))

-----------------------------------------------------------------------------
TypeOK ==
    /\ pc \in [Requests -> Stages]
    /\ call \in [Requests -> Calls]
    /\ seen \in [Requests -> Readings]
    /\ reply \in [Requests -> Replies]
    /\ wire \subseteq Requests
    /\ answer \in [Requests -> Answers]
    /\ trust \in [Agents -> Scores]
    /\ ceiling \in Levels
    /\ circuit \in [Catalogue -> CircuitStates]
    /\ producer \in BOOLEAN
    /\ brokerUp \in BOOLEAN
    /\ outbox \in [Topics -> Seq(Events)]
    /\ topicLog \in Seq(Events)

InSeq(e, s) == \E i \in DOMAIN s : s[i] = e

\* An event the bus has sent and not lost.
Sent(e) == InSeq(e, topicLog) \/ \E t \in Topics : InSeq(e, outbox[t])

Touched(r) == r \in wire \/ answer[r] # "none"

\* Law 2, Trust Before Execution, and the policy gate: no envelope is on its
\* way to an external system, or handled by one, unless the score and the
\* ceiling read for that very request admitted it, however the scores and
\* the ceiling moved since and whatever failed.
GatedExecution ==
    \A r \in Requests : Touched(r) =>
        /\ Name(r) \in Catalogue
        /\ seen[r].score >= MinTrust[Name(r)]
        /\ RiskClass[Name(r)] <= seen[r].ceiling

\* The audit trail tells the truth about the world: an "invoked" event means
\* a category service did handle the request, a "denied" event that no
\* envelope of it was or will be sent, even if calls, broker and bus fail.
AuditTruthful ==
    \A r \in Requests, why \in Reasons :
        /\ Sent(Event(r, "invoked", why)) => answer[r] # "none"
        /\ Sent(Event(r, "denied", why)) => pc[r] = "done" /\ ~Touched(r)

\* A request is audited at most once: the two topics, the queue of the client
\* and the crash of the bus never leave two events for one call.
AuditedOnce ==
    LET sentAt == {<<"log", i>> : i \in DOMAIN topicLog}
                    \cup UNION {{<<t, i>> : i \in DOMAIN outbox[t]} : t \in Topics}
        at(p) == IF p[1] = "log" THEN topicLog[p[2]] ELSE outbox[p[1]][p[2]]
    IN \A p, q \in sentAt : at(p).id = at(q).id => p = q

\* Law 8 for answered calls: while neither broker nor bus fails, every
\* caller that got a 200, 403 or 503 has left its event, with its outcome.
RepliesAudited ==
    {"broker", "crash"} \cap FaultKinds = {} =>
        \A r \in Requests :
            /\ reply[r] = "ok" => Sent(Event(r, "invoked", "none"))
            /\ reply[r] = "unavailable" => Sent(Event(r, "denied", "circuit_open"))
            /\ reply[r] = "denied" =>
                 \E why \in {"trust_below_threshold", "policy_denied"} :
                     Sent(Event(r, "denied", why))

\* Every caller gets an answer (or loses its connection to a restart),
\* although connectors may never answer and the Brain may be away.
EveryCallAnswered ==
    \A r \in Requests : pc[r] = "trust" ~> pc[r] = "done"

\* The claim of lines 127-130: a connector whose circuit was read as open is
\* not called.
OpenCircuitBlocks ==
    \A r \in Requests : seen[r].circuit = "open" => ~Touched(r)
=============================================================================
