------------------------- MODULE ConnectorBusProofs -------------------------
(***************************************************************************)
(* Proofs about ConnectorBus for any sets of requests, agents and          *)
(* connectors, any scales and any combination of faults.                   *)
(***************************************************************************)
EXTENDS ConnectorBus, TLAPS

-----------------------------------------------------------------------------
(* The inductive invariant.  A request is only ever touched by a category service  *)
(* after the three checks, and each check leaves its reading behind, so    *)
(* the stage of a coroutine tells which gates its request has passed.      *)

PassedTrust(r) == Name(r) \in Catalogue /\ seen[r].score >= MinTrust[Name(r)]
PassedPolicy(r) == PassedTrust(r) /\ RiskClass[Name(r)] <= seen[r].ceiling

GateInv ==
    \A r \in Requests :
        /\ pc[r] \in {"trust", "policy", "circuit", "forward", "adjust"} => Name(r) \in Catalogue
        /\ pc[r] = "policy" => PassedTrust(r)
        /\ pc[r] \in {"circuit", "forward", "adjust"} => PassedPolicy(r)
        /\ Touched(r) => pc[r] \in {"forward", "adjust", "done"} /\ PassedPolicy(r)

-----------------------------------------------------------------------------
LEMMA EventType ==
    ASSUME TypeOK, NEW r \in Requests, NEW why \in Reasons, NEW o \in {"invoked", "denied"}
    PROVE  Event(r, o, why) \in Events
BY DEF TypeOK, Event, Events, Calls

LEMMA TopicType ==
    ASSUME NEW e \in Events
    PROVE  Topic(e) \in Topics
BY DEF Topic, Topics

\* What _audit does to the Kafka client keeps its types.
LEMMA AuditType ==
    ASSUME TypeOK, NEW e \in Events, Audit(e) \/ AuditRaises
    PROVE  /\ producer' \in BOOLEAN
           /\ brokerUp' \in BOOLEAN
           /\ outbox' \in [Topics -> Seq(Events)]
           /\ topicLog' \in Seq(Events)
<1>1. CASE Queued(e)
  <2>1. Append(outbox[Topic(e)], e) \in Seq(Events)
    BY TopicType DEF TypeOK
  <2>2. QED
    BY <1>1, <2>1 DEF TypeOK, Queued
<1>2. CASE NoProducer \/ AuditRaises
  BY <1>2 DEF TypeOK, NoProducer, AuditRaises, kafkaVars
<1>3. QED
  BY <1>1, <1>2 DEF Audit

LEMMA TypeInit == Init => TypeOK
<1> SUFFICES ASSUME Init PROVE TypeOK
  OBVIOUS
<1>1. seen \in [Requests -> Readings]
  BY DEF Init, Readings, Unread
<1>2. outbox \in [Topics -> Seq(Events)] /\ topicLog \in Seq(Events)
  BY DEF Init
<1>3. brokerUp \in BOOLEAN
  BY Zenon DEF Init
<1>4. QED
  BY <1>1, <1>2, <1>3 DEF Init, TypeOK, Stages, Replies, Answers, CircuitStates

\* A request at the circuit check names a connector of the catalogue (GateInv),
\* so what it reads there is a circuit state.
LEMMA TypeStep == TypeOK /\ GateInv /\ [Next]_vars => TypeOK'
<1> SUFFICES ASSUME TypeOK, GateInv, [Next]_vars PROVE TypeOK'
  OBVIOUS
<1> USE DEF busVars, worldVars, govVars, Suspend, Finish, Stages, Replies
<1>1. ASSUME NEW r \in Requests, Arrive(r) PROVE TypeOK'
  BY <1>1 DEF TypeOK, Arrive, kafkaVars
<1>2. ASSUME NEW r \in Requests, CheckFails(r) PROVE TypeOK'
  BY <1>2 DEF TypeOK, CheckFails, kafkaVars
<1>3. ASSUME NEW r \in Requests, TrustPasses(r) PROVE TypeOK'
  <2>1. Score(r) \in Scores
    BY DEF TypeOK, Score, Calls
  <2>2. seen' \in [Requests -> Readings]
    BY <1>3, <2>1 DEF TypeOK, TrustPasses, Readings
  <2>3. QED
    BY <1>3, <2>2 DEF TypeOK, TrustPasses, kafkaVars
<1>4. ASSUME NEW r \in Requests, TrustDenies(r) PROVE TypeOK'
  <2>1. Score(r) \in Scores
    BY DEF TypeOK, Score, Calls
  <2>2. seen' \in [Requests -> Readings]
    BY <1>4, <2>1 DEF TypeOK, TrustDenies, Readings
  <2>3. /\ Audit(Event(r, "denied", "trust_below_threshold")) \/ AuditRaises
        /\ pc' \in [Requests -> Stages] /\ reply' \in [Requests -> Replies]
    BY <1>4 DEF TypeOK, TrustDenies, Deny
  <2>4. QED
    BY <1>4, <2>2, <2>3, AuditType, EventType DEF TypeOK, TrustDenies, Reasons
<1>5. ASSUME NEW r \in Requests, PolicyAllows(r) PROVE TypeOK'
  <2>1. seen' \in [Requests -> Readings]
    BY <1>5 DEF TypeOK, PolicyAllows, Readings
  <2>2. QED
    BY <1>5, <2>1 DEF TypeOK, PolicyAllows, kafkaVars
<1>6. ASSUME NEW r \in Requests, PolicyDenies(r) PROVE TypeOK'
  <2>1. /\ Audit(Event(r, "denied", "policy_denied")) \/ AuditRaises
        /\ pc' \in [Requests -> Stages] /\ reply' \in [Requests -> Replies]
    BY <1>6 DEF TypeOK, PolicyDenies, Deny
  <2>2. QED
    BY <1>6, <2>1, AuditType, EventType DEF TypeOK, PolicyDenies, Reasons
<1>7. ASSUME NEW r \in Requests, NEW c \in CircuitStates \cup {"unreachable"}, Forward(r, c)
      PROVE  /\ seen' \in [Requests -> Readings]
             /\ wire' \subseteq Requests
             /\ pc' \in [Requests -> Stages]
             /\ reply' \in [Requests -> Replies]
  BY <1>7 DEF TypeOK, Forward, Readings
<1>8. ASSUME NEW r \in Requests, CircuitAdmits(r) PROVE TypeOK'
  <2>1. circuit[Name(r)] \in CircuitStates
    BY <1>8 DEF TypeOK, GateInv, CircuitAdmits
  <2>2. QED
    BY <1>7, <1>8, <2>1 DEF TypeOK, CircuitAdmits, kafkaVars
<1>9. ASSUME NEW r \in Requests, BrainUnreachable(r) PROVE TypeOK'
  BY <1>7, <1>9 DEF TypeOK, BrainUnreachable, kafkaVars
<1>10. ASSUME NEW r \in Requests, CircuitDenialSwallowed(r) PROVE TypeOK'
  <2>1. "open" \in CircuitStates
    BY DEF CircuitStates
  <2>2. QED
    BY <1>7, <1>10, <2>1 DEF TypeOK, CircuitDenialSwallowed, AuditRaises, kafkaVars
<1>11. ASSUME NEW r \in Requests, CircuitDenies(r) PROVE TypeOK'
  <2>1. seen' \in [Requests -> Readings]
    BY <1>11 DEF TypeOK, CircuitDenies, Readings, CircuitStates
  <2>2. QED
    BY <1>11, <2>1, AuditType, EventType DEF TypeOK, CircuitDenies, Reasons
<1>12. ASSUME NEW r \in Requests, ForwardReturns(r) PROVE TypeOK'
  <2>1. /\ Audit(Event(r, "invoked", "none")) \/ AuditRaises
        /\ pc' \in [Requests -> Stages] /\ reply' \in [Requests -> Replies]
    BY <1>12 DEF TypeOK, ForwardReturns
  <2>2. QED
    BY <1>12, <2>1, AuditType, EventType DEF TypeOK, ForwardReturns, Reasons
<1>13. ASSUME NEW r \in Requests, ForwardFails(r) PROVE TypeOK'
  BY <1>13 DEF TypeOK, ForwardFails, kafkaVars
<1>14. ASSUME NEW r \in Requests, AdjustReturns(r) PROVE TypeOK'
  <2>1. \A s \in Scores : Bump(s) \in Scores
    BY ScaleAssumption DEF Bump, Scores
  <2>2. trust' \in [Agents -> Scores]
    BY <1>14, <2>1 DEF TypeOK, AdjustReturns, Calls
  <2>3. QED
    BY <1>14, <2>2 DEF TypeOK, AdjustReturns, kafkaVars
<1>15. ASSUME NEW r \in Requests, Execute(r) PROVE TypeOK'
  BY <1>15 DEF TypeOK, Execute, kafkaVars
<1>16. ASSUME NEW t \in Topics, Deliver(t) \/ DropBatch(t) PROVE TypeOK'
  <2>1. Head(outbox[t]) \in Events /\ Tail(outbox[t]) \in Seq(Events)
    BY <1>16 DEF TypeOK, Deliver, DropBatch
  <2>2. CASE Deliver(t)
    <3>1. topicLog' \in Seq(Events)
      BY <2>1, <2>2 DEF TypeOK, Deliver
    <3>2. outbox' \in [Topics -> Seq(Events)]
      BY <2>1, <2>2 DEF TypeOK, Deliver
    <3>3. QED
      BY <2>2, <3>1, <3>2 DEF TypeOK, Deliver
  <2>3. CASE DropBatch(t)
    <3>1. outbox' \in [Topics -> Seq(Events)]
      BY <2>1, <2>3 DEF TypeOK, DropBatch
    <3>2. QED
      BY <2>3, <3>1 DEF TypeOK, DropBatch
  <2>4. QED
    BY <1>16, <2>2, <2>3
<1>17. CASE BrokerFlips
  BY <1>17 DEF TypeOK, BrokerFlips
<1>18. CASE Crash
  <2>1. pc' \in [Requests -> Stages] /\ reply' \in [Requests -> Replies]
    BY <1>18 DEF TypeOK, Crash
  <2>2. outbox' \in [Topics -> Seq(Events)]
    BY <1>18 DEF Crash
  <2>3. QED
    BY <1>18, <2>1, <2>2 DEF TypeOK, Crash
<1>19. CASE TrustChanges \/ PolicyChanges \/ CircuitChanges
  BY <1>19 DEF TypeOK, TrustChanges, PolicyChanges, CircuitChanges, kafkaVars
<1>20. CASE UNCHANGED vars
  BY <1>20 DEF TypeOK, vars, kafkaVars
<1>21. QED
  BY <1>1, <1>2, <1>3, <1>4, <1>5, <1>6, <1>8, <1>9, <1>10, <1>11, <1>12, <1>13, <1>14,
     <1>15, <1>16, <1>17, <1>18, <1>19, <1>20 DEF Next, RouteStep

LEMMA GateInit == Init => GateInv
BY DEF Init, GateInv, Touched

LEMMA GateStep == TypeOK /\ GateInv /\ [Next]_vars => GateInv'
<1> SUFFICES ASSUME TypeOK, GateInv, [Next]_vars PROVE GateInv'
  OBVIOUS
<1> USE DEF busVars, worldVars, Suspend, Finish, GateInv, PassedPolicy, PassedTrust, Touched, Name
<1>1. ASSUME NEW r \in Requests, Arrive(r) PROVE GateInv'
  BY <1>1 DEF TypeOK, Arrive
<1>2. ASSUME NEW r \in Requests, CheckFails(r) PROVE GateInv'
  BY <1>2 DEF TypeOK, CheckFails
<1>3. ASSUME NEW r \in Requests, TrustPasses(r) PROVE GateInv'
  BY <1>3 DEF TypeOK, TrustPasses, Readings
<1>4. ASSUME NEW r \in Requests, TrustDenies(r) PROVE GateInv'
  BY <1>4 DEF TypeOK, TrustDenies, Deny, Readings
<1>5. ASSUME NEW r \in Requests, PolicyAllows(r) PROVE GateInv'
  BY <1>5 DEF TypeOK, PolicyAllows, Readings
<1>6. ASSUME NEW r \in Requests, PolicyDenies(r) PROVE GateInv'
  BY <1>6 DEF TypeOK, PolicyDenies, Deny
<1>7. ASSUME NEW r \in Requests, NEW c, pc[r] = "circuit", Forward(r, c), UNCHANGED <<call, answer>>
      PROVE  GateInv'
  BY <1>7 DEF TypeOK, Forward, Readings
<1>8. ASSUME NEW r \in Requests,
             CircuitAdmits(r) \/ BrainUnreachable(r) \/ CircuitDenialSwallowed(r)
      PROVE  GateInv'
  BY <1>7, <1>8 DEF CircuitAdmits, BrainUnreachable, CircuitDenialSwallowed
<1>9. ASSUME NEW r \in Requests, CircuitDenies(r) PROVE GateInv'
  BY <1>9 DEF TypeOK, CircuitDenies, Readings
<1>10. ASSUME NEW r \in Requests, ForwardReturns(r) PROVE GateInv'
  BY <1>10 DEF TypeOK, ForwardReturns
<1>11. ASSUME NEW r \in Requests, ForwardFails(r) PROVE GateInv'
  BY <1>11 DEF TypeOK, ForwardFails
<1>12. ASSUME NEW r \in Requests, AdjustReturns(r) PROVE GateInv'
  BY <1>12 DEF TypeOK, AdjustReturns
<1>13. ASSUME NEW r \in Requests, Execute(r) PROVE GateInv'
  BY <1>13 DEF TypeOK, Execute
<1>14. CASE Crash
  BY <1>14 DEF TypeOK, Crash
<1>15. CASE \/ \E t \in Topics : Deliver(t) \/ DropBatch(t)
            \/ BrokerFlips \/ TrustChanges \/ PolicyChanges \/ CircuitChanges
            \/ UNCHANGED vars
  BY <1>15 DEF Deliver, DropBatch, BrokerFlips, TrustChanges, PolicyChanges, CircuitChanges, vars
<1>16. QED
  BY <1>1, <1>2, <1>3, <1>4, <1>5, <1>6, <1>8, <1>9, <1>10, <1>11, <1>12, <1>13, <1>14, <1>15
     DEF Next, RouteStep

\* Every variable of the bus keeps its type in every reachable state.
THEOREM TypeCorrect == Spec => []TypeOK
BY TypeInit, GateInit, TypeStep, GateStep, PTL DEF Spec

\* Trust Before Execution and the policy gate hold for any number of
\* concurrent calls, whatever fails.
THEOREM Gated == Spec => []GatedExecution
<1>1. GateInv => GatedExecution
  BY DEF GateInv, GatedExecution, PassedPolicy, PassedTrust
<1>2. QED
  BY <1>1, TypeInit, GateInit, TypeStep, GateStep, PTL DEF Spec
-----------------------------------------------------------------------------
(* The truth of the audit trail.  Only _audit adds an event, and the steps *)
(* that call it know what happened to their request.                       *)

LEMMA SentUnchanged ==
    ASSUME UNCHANGED <<outbox, topicLog>>, NEW e, Sent(e)'
    PROVE  Sent(e)
BY DEF Sent, InSeq

LEMMA SentQueued ==
    ASSUME TypeOK, NEW f \in Events, Audit(f) \/ AuditRaises, NEW e, Sent(e)'
    PROVE  Sent(e) \/ (e = f /\ Audit(f))
<1>1. CASE UNCHANGED kafkaVars
  BY <1>1, SentUnchanged DEF kafkaVars
<1>2. CASE Queued(f)
  <2>1. CASE InSeq(e, topicLog)'
    BY <1>2, <2>1 DEF Queued, Sent, InSeq
  <2>2. ASSUME NEW t \in Topics, InSeq(e, outbox[t])'
        PROVE  Sent(e) \/ e = f
    <3>1. CASE t = Topic(f)
      <4>1. outbox'[t] = Append(outbox[t], f) /\ outbox[t] \in Seq(Events)
        BY <1>2, <3>1 DEF Queued, TypeOK
      <4>2. PICK i \in DOMAIN outbox'[t] : outbox'[t][i] = e
        BY <2>2 DEF InSeq
      <4>3. (i \in DOMAIN outbox[t] /\ outbox[t][i] = e) \/ e = f
        BY <4>1, <4>2
      <4>4. QED
        BY <4>3 DEF Sent, InSeq
    <3>2. CASE t # Topic(f)
      BY <1>2, <2>2, <3>2 DEF Queued, TypeOK, Sent, InSeq
    <3>3. QED
      BY <3>1, <3>2
  <2>3. QED
    BY <1>2, <2>1, <2>2 DEF Sent, Audit
<1>3. QED
  BY <1>1, <1>2 DEF Audit, NoProducer, AuditRaises

LEMMA SentMoved ==
    ASSUME TypeOK, NEW t \in Topics, Deliver(t) \/ DropBatch(t), NEW e, Sent(e)'
    PROVE  Sent(e)
<1>1. outbox[t] \in Seq(Events) /\ outbox[t] # <<>> /\ topicLog \in Seq(Events)
  BY DEF TypeOK, Deliver, DropBatch
<1>2. ASSUME NEW u \in Topics, InSeq(e, outbox[u])' PROVE Sent(e)
  <2>1. CASE u = t
    <3>1. outbox'[u] = Tail(outbox[t])
      BY <2>1 DEF TypeOK, Deliver, DropBatch
    <3>2. PICK i \in DOMAIN Tail(outbox[t]) : Tail(outbox[t])[i] = e
      BY <1>2, <3>1 DEF InSeq
    <3>3. i + 1 \in DOMAIN outbox[t] /\ outbox[t][i + 1] = e
      BY <1>1, <3>2
    <3>4. QED
      BY <3>3 DEF Sent, InSeq
  <2>2. CASE u # t
    BY <1>2, <2>2 DEF TypeOK, Deliver, DropBatch, Sent, InSeq
  <2>3. QED
    BY <2>1, <2>2
<1>3. CASE InSeq(e, topicLog)'
  <2>1. CASE Deliver(t)
    <3>1. topicLog' = Append(topicLog, Head(outbox[t])) /\ Head(outbox[t]) = outbox[t][1]
      BY <1>1, <2>1 DEF Deliver
    <3>2. PICK i \in DOMAIN topicLog' : topicLog'[i] = e
      BY <1>3 DEF InSeq
    <3>3. CASE i \in DOMAIN topicLog
      BY <1>1, <3>1, <3>2, <3>3 DEF Sent, InSeq
    <3>4. CASE i \notin DOMAIN topicLog
      <4>1. e = outbox[t][1] /\ 1 \in DOMAIN outbox[t]
        BY <1>1, <3>1, <3>2, <3>4
      <4>2. QED
        BY <4>1 DEF Sent, InSeq
    <3>5. QED
      BY <3>3, <3>4
  <2>2. CASE DropBatch(t)
    BY <1>3, <2>2 DEF DropBatch, Sent, InSeq
  <2>3. QED
    BY <2>1, <2>2
<1>4. QED
  BY <1>2, <1>3 DEF Sent

\* Steps that send nothing and call nobody keep what the trail says, as long
\* as a finished request stays finished and untouched.
LEMMA TruthKept ==
    ASSUME TypeOK, AuditTruthful, UNCHANGED call,
           \A e : Sent(e)' => Sent(e),
           \A r \in Requests :
              /\ answer[r] # "none" => answer'[r] # "none"
              /\ pc[r] = "done" => pc'[r] = "done"
              /\ pc[r] = "done" /\ ~Touched(r) => ~Touched(r)'
    PROVE  AuditTruthful'
BY DEF AuditTruthful, Event

LEMMA TruthInit == Init => AuditTruthful
<1> SUFFICES ASSUME Init, NEW e PROVE ~Sent(e)
  BY DEF AuditTruthful
<1>1. topicLog = <<>> /\ \A t \in Topics : outbox[t] = <<>>
  BY DEF Init
<1>2. QED
  BY <1>1 DEF Sent, InSeq

LEMMA TruthStep == TypeOK /\ GateInv /\ AuditTruthful /\ [Next]_vars => AuditTruthful'
<1> SUFFICES ASSUME TypeOK, GateInv, AuditTruthful, [Next]_vars PROVE AuditTruthful'
  OBVIOUS
<1> USE DEF busVars, worldVars, kafkaVars, Suspend, Finish, Touched
<1>1. ASSUME NEW r \in Requests, NEW why \in Reasons,
             pc[r] \in {"trust", "policy", "circuit"},
             pc' = [pc EXCEPT ![r] = "done"],
             Audit(Event(r, "denied", why)) \/ AuditRaises,
             UNCHANGED <<call, wire, answer>>
      PROVE  AuditTruthful'
  <2>1. ~Touched(r) /\ pc'[r] = "done"
    BY <1>1 DEF GateInv, TypeOK
  <2>2. \A e : Sent(e)' => Sent(e) \/ e = Event(r, "denied", why)
    BY <1>1, EventType, SentQueued
  <2>3. ASSUME NEW q \in Requests, NEW w \in Reasons
        PROVE  /\ Sent(Event(q, "invoked", w))' => answer'[q] # "none"
               /\ Sent(Event(q, "denied", w))' => pc'[q] = "done" /\ ~Touched(q)'
    <3>1. Event(q, "invoked", w)' = Event(q, "invoked", w) /\ Event(q, "denied", w)' = Event(q, "denied", w)
      BY <1>1 DEF Event
    <3>2. Event(q, "invoked", w) # Event(r, "denied", why)
      BY DEF Event
    <3>3. Event(q, "denied", w) = Event(r, "denied", why) => q = r
      BY DEF Event
    <3>4. pc[q] = "done" => pc'[q] = "done"
      BY <1>1 DEF TypeOK
    <3>5. Sent(Event(q, "invoked", w))' => Sent(Event(q, "invoked", w))
      BY <2>2, <3>1, <3>2
    <3>6. Sent(Event(q, "denied", w))' => Sent(Event(q, "denied", w)) \/ q = r
      BY <2>2, <3>1, <3>3
    <3>7. QED
      BY <1>1, <2>1, <3>4, <3>5, <3>6 DEF AuditTruthful
  <2>4. QED
    BY <2>3 DEF AuditTruthful
<1>2. ASSUME NEW r \in Requests, TrustDenies(r) PROVE AuditTruthful'
  BY <1>1, <1>2 DEF TrustDenies, Deny, Reasons
<1>3. ASSUME NEW r \in Requests, PolicyDenies(r) PROVE AuditTruthful'
  BY <1>1, <1>3 DEF PolicyDenies, Deny, Reasons
<1>4. ASSUME NEW r \in Requests, CircuitDenies(r) PROVE AuditTruthful'
  BY <1>1, <1>4 DEF CircuitDenies, Reasons
<1>5. ASSUME NEW r \in Requests, ForwardReturns(r) PROVE AuditTruthful'
  <2>1. \A e : Sent(e)' => Sent(e) \/ e = Event(r, "invoked", "none")
    BY <1>5, EventType, SentQueued DEF ForwardReturns, Reasons
  <2>2. ASSUME NEW q \in Requests, NEW w \in Reasons
        PROVE  /\ Sent(Event(q, "invoked", w))' => answer'[q] # "none"
               /\ Sent(Event(q, "denied", w))' => pc'[q] = "done" /\ ~Touched(q)'
    <3>1. Event(q, "invoked", w)' = Event(q, "invoked", w) /\ Event(q, "denied", w)' = Event(q, "denied", w)
      BY <1>5 DEF ForwardReturns, Event
    <3>2. Event(q, "denied", w) # Event(r, "invoked", "none")
      BY DEF Event
    <3>3. Event(q, "invoked", w) = Event(r, "invoked", "none") => q = r
      BY DEF Event
    <3>4. pc[q] = "done" => pc'[q] = "done"
      BY <1>5 DEF ForwardReturns, TypeOK
    <3>5. Sent(Event(q, "denied", w))' => Sent(Event(q, "denied", w))
      BY <2>1, <3>1, <3>2
    <3>6. Sent(Event(q, "invoked", w))' => Sent(Event(q, "invoked", w)) \/ q = r
      BY <2>1, <3>1, <3>3
    <3>7. QED
      BY <1>5, <3>4, <3>5, <3>6 DEF AuditTruthful, ForwardReturns
  <2>3. QED
    BY <2>2 DEF AuditTruthful
<1>6. ASSUME NEW r \in Requests,
             \/ Arrive(r) \/ CheckFails(r) \/ TrustPasses(r) \/ PolicyAllows(r)
             \/ CircuitAdmits(r) \/ BrainUnreachable(r) \/ CircuitDenialSwallowed(r)
             \/ ForwardFails(r) \/ AdjustReturns(r)
      PROVE  AuditTruthful'
  <2>1. UNCHANGED <<outbox, topicLog, call>>
    BY <1>6 DEF Arrive, CheckFails, TrustPasses, PolicyAllows, CircuitAdmits, BrainUnreachable,
         CircuitDenialSwallowed, AuditRaises, ForwardFails, AdjustReturns
  <2>2. \A q \in Requests :
           /\ answer[q] # "none" => answer'[q] # "none"
           /\ pc[q] = "done" => pc'[q] = "done"
           /\ pc[q] = "done" /\ ~Touched(q) => ~Touched(q)'
    BY <1>6 DEF TypeOK, Arrive, CheckFails, TrustPasses, PolicyAllows, CircuitAdmits,
         BrainUnreachable, CircuitDenialSwallowed, Forward, ForwardFails, AdjustReturns
  <2>3. QED
    BY <2>1, <2>2, SentUnchanged, TruthKept
<1>7. ASSUME NEW r \in Requests, Execute(r) PROVE AuditTruthful'
  <2>1. \A q \in Requests :
           /\ answer[q] # "none" => answer'[q] # "none"
           /\ pc[q] = "done" => pc'[q] = "done"
           /\ pc[q] = "done" /\ ~Touched(q) => ~Touched(q)'
    BY <1>7 DEF TypeOK, Execute
  <2>2. QED
    BY <1>7, <2>1, SentUnchanged, TruthKept DEF Execute
<1>8. ASSUME NEW t \in Topics, Deliver(t) \/ DropBatch(t) PROVE AuditTruthful'
  <2>1. UNCHANGED <<pc, call, wire, answer>>
    BY <1>8 DEF Deliver, DropBatch
  <2>2. QED
    BY <1>8, <2>1, SentMoved, TruthKept
<1>9. CASE Crash
  <2>1. \A e : Sent(e)' => Sent(e)
    BY <1>9 DEF Crash, Sent, InSeq
  <2>2. \A q \in Requests : pc[q] = "done" => pc'[q] = "done"
    BY <1>9 DEF Crash
  <2>3. QED
    BY <1>9, <2>1, <2>2, TruthKept DEF Crash
<1>10. CASE BrokerFlips \/ TrustChanges \/ PolicyChanges \/ CircuitChanges \/ UNCHANGED vars
  <2>1. UNCHANGED <<pc, call, wire, answer, outbox, topicLog>>
    BY <1>10 DEF BrokerFlips, TrustChanges, PolicyChanges, CircuitChanges, vars
  <2>2. QED
    BY <2>1, SentUnchanged, TruthKept
<1>11. QED
  BY <1>2, <1>3, <1>4, <1>5, <1>6, <1>7, <1>8, <1>9, <1>10 DEF Next, RouteStep

\* The audit trail never claims a call that no connector handled, and never
\* denies one that was or will be forwarded.
THEOREM Truthful == Spec => []AuditTruthful
BY TypeInit, GateInit, TruthInit, TypeStep, GateStep, TruthStep, PTL DEF Spec

-----------------------------------------------------------------------------
(* One event per call.  A coroutine that has sent its event never comes    *)
(* back to a stage that sends one.                                         *)

\* The steps that touch the client's queue or the topics.
KafkaMoves ==
    \/ UNCHANGED <<outbox, topicLog>>
    \/ \E r \in Requests, o \in {"invoked", "denied"}, why \in Reasons :
          /\ Queued(Event(r, o, why))
          /\ pc[r] \in {"trust", "policy", "circuit", "forward"}
          /\ pc'[r] \in {"adjust", "done"}
    \/ \E t \in Topics : Deliver(t) \/ DropBatch(t)
    \/ Crash

LEMMA KafkaStep == TypeOK /\ [Next]_vars => KafkaMoves
<1> SUFFICES ASSUME TypeOK, [Next]_vars PROVE KafkaMoves
  OBVIOUS
<1> USE DEF busVars, worldVars, govVars, kafkaVars, Suspend, Finish
<1>1. ASSUME NEW r \in Requests, NEW o \in {"invoked", "denied"}, NEW why \in Reasons,
             Audit(Event(r, o, why)) \/ AuditRaises,
             pc[r] \in {"trust", "policy", "circuit", "forward"},
             pc'[r] \in {"adjust", "done"}
      PROVE  KafkaMoves
  BY <1>1 DEF Audit, NoProducer, AuditRaises, KafkaMoves
<1>2. ASSUME NEW r \in Requests, TrustDenies(r) \/ PolicyDenies(r) PROVE KafkaMoves
  <2>1. pc[r] \in {"trust", "policy"} /\ pc'[r] = "done"
    BY <1>2 DEF TypeOK, TrustDenies, PolicyDenies, Deny
  <2>2. \E why \in Reasons : Audit(Event(r, "denied", why)) \/ AuditRaises
    BY <1>2 DEF TrustDenies, PolicyDenies, Deny, Reasons
  <2>3. QED
    BY <1>1, <2>1, <2>2
<1>3. ASSUME NEW r \in Requests, CircuitDenies(r) PROVE KafkaMoves
  <2>1. pc[r] = "circuit" /\ pc'[r] = "done" /\ "circuit_open" \in Reasons
    BY <1>3 DEF TypeOK, CircuitDenies, Reasons
  <2>2. QED
    BY <1>1, <1>3, <2>1 DEF CircuitDenies
<1>4. ASSUME NEW r \in Requests, ForwardReturns(r) PROVE KafkaMoves
  <2>1. pc[r] = "forward" /\ pc'[r] \in {"adjust", "done"} /\ "none" \in Reasons
    BY <1>4 DEF TypeOK, ForwardReturns, Reasons
  <2>2. QED
    BY <1>1, <1>4, <2>1 DEF ForwardReturns
<1>5. ASSUME NEW r \in Requests,
             \/ Arrive(r) \/ CheckFails(r) \/ TrustPasses(r) \/ PolicyAllows(r)
             \/ CircuitAdmits(r) \/ BrainUnreachable(r) \/ CircuitDenialSwallowed(r)
             \/ ForwardFails(r) \/ AdjustReturns(r) \/ Execute(r)
      PROVE  KafkaMoves
  BY <1>5 DEF KafkaMoves, Arrive, CheckFails, TrustPasses, PolicyAllows, CircuitAdmits,
         BrainUnreachable, CircuitDenialSwallowed, AuditRaises, ForwardFails, AdjustReturns, Execute
<1>6. CASE BrokerFlips \/ TrustChanges \/ PolicyChanges \/ CircuitChanges \/ UNCHANGED vars
  BY <1>6 DEF KafkaMoves, BrokerFlips, TrustChanges, PolicyChanges, CircuitChanges, vars
<1>7. QED
  BY <1>2, <1>3, <1>4, <1>5, <1>6 DEF Next, RouteStep, KafkaMoves

Sending(r) == pc[r] \notin {"adjust", "done"}

LEMMA SentStages ==
    TypeOK /\ [Next]_vars => \A r \in Requests : ~Sending(r) => ~Sending(r)'
<1> SUFFICES ASSUME TypeOK, [Next]_vars, NEW q \in Requests, ~Sending(q) PROVE ~Sending(q)'
  OBVIOUS
<1> USE DEF busVars, Suspend, Finish, Sending
<1>1. ASSUME NEW r \in Requests, Arrive(r) \/ RouteStep(r) PROVE ~Sending(q)'
  BY <1>1 DEF TypeOK, Arrive, RouteStep, CheckFails, TrustPasses, TrustDenies, PolicyAllows,
         PolicyDenies, Deny, CircuitAdmits, CircuitDenies, BrainUnreachable,
         CircuitDenialSwallowed, Forward, ForwardReturns, ForwardFails, AdjustReturns
<1>2. CASE Crash
  BY <1>2 DEF TypeOK, Crash
<1>3. CASE \/ \E r \in Requests : Execute(r)
           \/ \E t \in Topics : Deliver(t) \/ DropBatch(t)
           \/ BrokerFlips \/ TrustChanges \/ PolicyChanges \/ CircuitChanges
           \/ UNCHANGED vars
  BY <1>3 DEF Execute, Deliver, DropBatch, BrokerFlips, TrustChanges, PolicyChanges,
         CircuitChanges, vars
<1>4. QED
  BY <1>1, <1>2, <1>3 DEF Next

\* No two events that are queued or delivered share an id.
LogOnce == \A i, j \in DOMAIN topicLog : topicLog[i].id = topicLog[j].id => i = j
QueuesOnce ==
    \A t, u \in Topics : \A i \in DOMAIN outbox[t], j \in DOMAIN outbox[u] :
        outbox[t][i].id = outbox[u][j].id => t = u /\ i = j
LogApart ==
    \A t \in Topics : \A i \in DOMAIN topicLog, j \in DOMAIN outbox[t] :
        topicLog[i].id # outbox[t][j].id
OnceInv ==
    /\ LogOnce /\ QueuesOnce /\ LogApart
    /\ \A e \in Events : Sent(e) => ~Sending(e.id)

LEMMA OnceQueued ==
    ASSUME TypeOK, OnceInv, NEW f \in Events, Queued(f), Sending(f.id)
    PROVE  LogOnce' /\ QueuesOnce' /\ LogApart'
<1> DEFINE t0 == Topic(f)
           n == Len(outbox[t0])
<1>1. t0 \in Topics /\ outbox[t0] \in Seq(Events) /\ n \in Nat
  BY TopicType DEF TypeOK
<1>2. /\ topicLog' = topicLog
      /\ \A t \in Topics : t # t0 => outbox'[t] = outbox[t]
      /\ outbox'[t0] = Append(outbox[t0], f)
  BY <1>1 DEF Queued, TypeOK
<1>3. /\ DOMAIN outbox[t0] = 1..n /\ DOMAIN outbox'[t0] = 1..(n + 1)
      /\ \A i \in 1..n : outbox'[t0][i] = outbox[t0][i]
      /\ outbox'[t0][n + 1] = f
  BY <1>1, <1>2
<1>4. \A t \in Topics : \A i \in DOMAIN outbox[t] : outbox[t][i].id # f.id
  <2> SUFFICES ASSUME NEW t \in Topics, NEW i \in DOMAIN outbox[t] PROVE outbox[t][i].id # f.id
    OBVIOUS
  <2>1. outbox[t][i] \in Events /\ Sent(outbox[t][i])
    BY DEF TypeOK, Sent, InSeq
  <2>2. QED
    BY <2>1 DEF OnceInv
<1>5. \A i \in DOMAIN topicLog : topicLog[i].id # f.id
  <2> SUFFICES ASSUME NEW i \in DOMAIN topicLog PROVE topicLog[i].id # f.id
    OBVIOUS
  <2>1. topicLog[i] \in Events /\ Sent(topicLog[i])
    BY DEF TypeOK, Sent, InSeq
  <2>2. QED
    BY <2>1 DEF OnceInv
<1> HIDE DEF t0, n
<1>6. \A t \in Topics : \A i \in DOMAIN outbox'[t] :
          \/ i \in DOMAIN outbox[t] /\ outbox'[t][i] = outbox[t][i]
          \/ t = t0 /\ i = n + 1 /\ outbox'[t][i] = f
  BY <1>1, <1>2, <1>3
<1>7. LogOnce'
  BY <1>2 DEF LogOnce, OnceInv
<1>8. QueuesOnce'
  BY <1>4, <1>6 DEF QueuesOnce, OnceInv
<1>9. LogApart'
  BY <1>2, <1>5, <1>6 DEF LogApart, OnceInv
<1>10. QED
  BY <1>7, <1>8, <1>9

LEMMA OnceMoved ==
    ASSUME TypeOK, OnceInv, NEW t0 \in Topics, Deliver(t0) \/ DropBatch(t0)
    PROVE  LogOnce' /\ QueuesOnce' /\ LogApart'
<1> DEFINE m == Len(topicLog)
<1>1. outbox[t0] \in Seq(Events) /\ outbox[t0] # <<>> /\ topicLog \in Seq(Events)
  BY DEF TypeOK, Deliver, DropBatch
<1>2. /\ \A t \in Topics : t # t0 => outbox'[t] = outbox[t]
      /\ outbox'[t0] = Tail(outbox[t0])
      /\ topicLog' = topicLog \/ topicLog' = Append(topicLog, Head(outbox[t0]))
  BY DEF Deliver, DropBatch, TypeOK
<1>3. /\ 1 \in DOMAIN outbox[t0] /\ Head(outbox[t0]) = outbox[t0][1]
      /\ \A i \in DOMAIN outbox'[t0] :
             i + 1 \in DOMAIN outbox[t0] /\ i + 1 # 1 /\ outbox'[t0][i] = outbox[t0][i + 1]
      /\ DOMAIN outbox'[t0] \subseteq Nat
  BY <1>1, <1>2
<1>4. /\ DOMAIN topicLog = 1..m /\ m \in Nat
      /\ \A i \in DOMAIN topicLog' :
             \/ i \in DOMAIN topicLog /\ topicLog'[i] = topicLog[i]
             \/ i = m + 1 /\ topicLog'[i] = outbox[t0][1]
  BY <1>1, <1>2, <1>3
<1> HIDE DEF m
<1>5. LogOnce'
  BY <1>3, <1>4 DEF LogOnce, LogApart, OnceInv
<1>6. QueuesOnce'
  <2> SUFFICES ASSUME NEW t \in Topics, NEW u \in Topics,
                      NEW i \in DOMAIN outbox'[t], NEW j \in DOMAIN outbox'[u],
                      outbox'[t][i].id = outbox'[u][j].id
               PROVE  t = u /\ i = j
    BY DEF QueuesOnce
  <2>1. CASE t = t0 /\ u = t0
    BY <1>3, <2>1 DEF QueuesOnce, OnceInv
  <2>2. CASE t = t0 /\ u # t0
    <3>1. /\ i + 1 \in DOMAIN outbox[t0] /\ j \in DOMAIN outbox[u]
          /\ outbox[t0][i + 1].id = outbox[u][j].id
      BY <1>2, <1>3, <2>2
    <3>2. QED
      BY <2>2, <3>1 DEF QueuesOnce, OnceInv
  <2>3. CASE t # t0 /\ u = t0
    <3>1. /\ j + 1 \in DOMAIN outbox[t0] /\ i \in DOMAIN outbox[t]
          /\ outbox[t][i].id = outbox[t0][j + 1].id
      BY <1>2, <1>3, <2>3
    <3>2. QED
      BY <2>3, <3>1 DEF QueuesOnce, OnceInv
  <2>4. CASE t # t0 /\ u # t0
    BY <1>2, <2>4 DEF QueuesOnce, OnceInv
  <2>5. QED
    BY <2>1, <2>2, <2>3, <2>4
<1>7. LogApart'
  <2> SUFFICES ASSUME NEW t \in Topics, NEW i \in DOMAIN topicLog', NEW j \in DOMAIN outbox'[t]
               PROVE  topicLog'[i].id # outbox'[t][j].id
    BY DEF LogApart
  <2>1. CASE t = t0
    BY <1>3, <1>4, <2>1 DEF QueuesOnce, LogApart, OnceInv
  <2>2. CASE t # t0
    BY <1>2, <1>3, <1>4, <2>2 DEF QueuesOnce, LogApart, OnceInv
  <2>3. QED
    BY <2>1, <2>2
<1>8. QED
  BY <1>5, <1>6, <1>7

LEMMA OnceInit == Init => OnceInv
<1> SUFFICES ASSUME Init PROVE OnceInv
  OBVIOUS
<1>1. topicLog = <<>> /\ \A t \in Topics : outbox[t] = <<>>
  BY DEF Init
<1>2. QED
  BY <1>1 DEF OnceInv, LogOnce, QueuesOnce, LogApart, Sent, InSeq

LEMMA OnceStep == TypeOK /\ OnceInv /\ [Next]_vars => OnceInv'
<1> SUFFICES ASSUME TypeOK, OnceInv, [Next]_vars PROVE OnceInv'
  OBVIOUS
<1>1. \A r \in Requests : ~Sending(r) => ~Sending(r)'
  BY SentStages
<1>2. \A e \in Events : e.id \in Requests
  BY DEF Events
<1>3. CASE UNCHANGED <<outbox, topicLog>>
  <2>1. LogOnce' /\ QueuesOnce' /\ LogApart'
    BY <1>3 DEF OnceInv, LogOnce, QueuesOnce, LogApart
  <2>2. \A e : Sent(e)' => Sent(e)
    BY <1>3, SentUnchanged
  <2>3. QED
    BY <1>1, <1>2, <2>1, <2>2 DEF OnceInv
<1>4. ASSUME NEW r \in Requests, NEW o \in {"invoked", "denied"}, NEW why \in Reasons,
             Queued(Event(r, o, why)),
             pc[r] \in {"trust", "policy", "circuit", "forward"}, pc'[r] \in {"adjust", "done"}
      PROVE  OnceInv'
  <2> DEFINE f == Event(r, o, why)
  <2>1. f \in Events /\ f.id = r
    BY EventType DEF Event
  <2>2. Sending(r) /\ ~Sending(r)'
    BY <1>4 DEF Sending
  <2> HIDE DEF f
  <2>3. LogOnce' /\ QueuesOnce' /\ LogApart'
    BY <1>4, <2>1, <2>2, OnceQueued DEF f
  <2>4. \A e : Sent(e)' => Sent(e) \/ e = f
    BY <1>4, <2>1, SentQueued DEF Audit, f
  <2>5. QED
    BY <1>1, <1>2, <2>1, <2>2, <2>3, <2>4 DEF OnceInv
<1>5. ASSUME NEW t \in Topics, Deliver(t) \/ DropBatch(t) PROVE OnceInv'
  <2>1. LogOnce' /\ QueuesOnce' /\ LogApart'
    BY <1>5, OnceMoved
  <2>2. \A e : Sent(e)' => Sent(e)
    BY <1>5, SentMoved
  <2>3. QED
    BY <1>1, <1>2, <2>1, <2>2 DEF OnceInv
<1>6. CASE Crash
  <2>1. topicLog' = topicLog /\ \A t \in Topics : outbox'[t] = <<>>
    BY <1>6 DEF Crash
  <2>2. \A e : Sent(e)' => Sent(e)
    BY <2>1 DEF Sent, InSeq
  <2>3. QED
    BY <1>1, <1>2, <2>1, <2>2 DEF OnceInv, LogOnce, QueuesOnce, LogApart
<1>7. QED
  BY <1>3, <1>4, <1>5, <1>6, KafkaStep DEF KafkaMoves

\* A call leaves at most one event in the two topics and the queues of the
\* client together, for any number of calls, whatever fails or crashes.
THEOREM OneEventPerCall == Spec => []AuditedOnce
<1>1. OnceInv => AuditedOnce
  <2> SUFFICES ASSUME OnceInv PROVE AuditedOnce
    OBVIOUS
  <2>1. "log" \notin Topics
    BY DEF Topics
  <2> DEFINE sentAt == {<<"log", i>> : i \in DOMAIN topicLog}
                           \cup UNION {{<<t, i>> : i \in DOMAIN outbox[t]} : t \in Topics}
             at(p) == IF p[1] = "log" THEN topicLog[p[2]] ELSE outbox[p[1]][p[2]]
  <2> SUFFICES ASSUME NEW p \in sentAt, NEW q \in sentAt, at(p).id = at(q).id PROVE p = q
    BY Zenon DEF AuditedOnce
  <2>2. ASSUME NEW x \in sentAt
        PROVE  \/ \E i \in DOMAIN topicLog : x = <<"log", i>> /\ at(x) = topicLog[i]
               \/ \E t \in Topics : \E i \in DOMAIN outbox[t] : x = <<t, i>> /\ at(x) = outbox[t][i]
    BY <2>1, <2>2
  <2> HIDE DEF sentAt, at
  <2>3. QED
    BY <2>2 DEF OnceInv, LogOnce, QueuesOnce, LogApart
<1>2. TypeOK /\ OnceInv /\ [Next]_vars => OnceInv'
  BY OnceStep
<1>3. QED
  BY <1>1, <1>2, OnceInit, TypeInit, GateInit, TypeStep, GateStep, PTL DEF Spec

-----------------------------------------------------------------------------
(* No answer without its event, as long as broker and bus stay up.         *)

Lossless == {"broker", "crash"} \cap FaultKinds = {}

Answered(r) ==
    /\ pc[r] = "adjust" => Sent(Event(r, "invoked", "none"))
    /\ reply[r] = "ok" => Sent(Event(r, "invoked", "none"))
    /\ reply[r] = "unavailable" => Sent(Event(r, "denied", "circuit_open"))
    /\ reply[r] = "denied" =>
         \E why \in {"trust_below_threshold", "policy_denied"} : Sent(Event(r, "denied", why))

AnsweredInv == Lossless => brokerUp /\ \A r \in Requests : Answered(r)

LEMMA QueuedSent ==
    ASSUME TypeOK, NEW f \in Events, Queued(f)
    PROVE  Sent(f)' /\ \A e : Sent(e) => Sent(e)'
<1> DEFINE t0 == Topic(f)
<1>1. t0 \in Topics /\ outbox[t0] \in Seq(Events)
  BY TopicType DEF TypeOK
<1>2. /\ topicLog' = topicLog
      /\ \A t \in Topics : t # t0 => outbox'[t] = outbox[t]
      /\ outbox'[t0] = Append(outbox[t0], f)
  BY <1>1 DEF Queued, TypeOK
<1>3. InSeq(f, outbox'[t0]) /\ \A e : InSeq(e, outbox[t0]) => InSeq(e, outbox'[t0])
  <2>1. Len(outbox[t0]) + 1 \in DOMAIN outbox'[t0] /\ outbox'[t0][Len(outbox[t0]) + 1] = f
    BY <1>1, <1>2
  <2>2. \A i \in DOMAIN outbox[t0] : i \in DOMAIN outbox'[t0] /\ outbox'[t0][i] = outbox[t0][i]
    BY <1>1, <1>2
  <2>3. QED
    BY <2>1, <2>2, Zenon DEF InSeq
<1> HIDE DEF t0
<1>4. QED
  BY <1>1, <1>2, <1>3 DEF Sent, InSeq

LEMMA DeliverKeeps ==
    ASSUME TypeOK, NEW t0 \in Topics, Deliver(t0), NEW e, Sent(e)
    PROVE  Sent(e)'
<1>1. outbox[t0] \in Seq(Events) /\ outbox[t0] # <<>> /\ topicLog \in Seq(Events)
  BY DEF TypeOK, Deliver
<1>2. /\ \A t \in Topics : t # t0 => outbox'[t] = outbox[t]
      /\ outbox'[t0] = Tail(outbox[t0])
      /\ topicLog' = Append(topicLog, outbox[t0][1])
  BY <1>1 DEF Deliver, TypeOK
<1>3. \A i \in DOMAIN topicLog : i \in DOMAIN topicLog' /\ topicLog'[i] = topicLog[i]
  BY <1>1, <1>2
<1>4. Len(topicLog) + 1 \in DOMAIN topicLog' /\ topicLog'[Len(topicLog) + 1] = outbox[t0][1]
  BY <1>1, <1>2
<1>5. \A i \in DOMAIN outbox[t0] :
          i = 1 \/ (i - 1 \in DOMAIN outbox'[t0] /\ outbox'[t0][i - 1] = outbox[t0][i])
  BY <1>1, <1>2
<1>6. CASE InSeq(e, topicLog)
  BY <1>3, <1>6, Zenon DEF Sent, InSeq
<1>7. ASSUME NEW t \in Topics, InSeq(e, outbox[t]) PROVE Sent(e)'
  <2>1. CASE t = t0
    BY <1>4, <1>5, <1>7, <2>1 DEF Sent, InSeq
  <2>2. CASE t # t0
    BY <1>2, <1>7, <2>2 DEF Sent, InSeq
  <2>3. QED
    BY <2>1, <2>2
<1>8. QED
  BY <1>6, <1>7 DEF Sent

\* Without a broker that fails and a bus that crashes, what was sent is kept.
LEMMA SentKept ==
    ASSUME TypeOK, Lossless, brokerUp, [Next]_vars
    PROVE  \A e : Sent(e) => Sent(e)'
<1>1. CASE UNCHANGED <<outbox, topicLog>>
  BY <1>1 DEF Sent, InSeq
<1>2. ASSUME NEW r \in Requests, NEW o \in {"invoked", "denied"}, NEW why \in Reasons,
             Queued(Event(r, o, why))
      PROVE  \A e : Sent(e) => Sent(e)'
  BY <1>2, EventType, QueuedSent
<1>3. ASSUME NEW t \in Topics, Deliver(t) \/ DropBatch(t)
      PROVE  \A e : Sent(e) => Sent(e)'
  BY <1>3, DeliverKeeps DEF DropBatch
<1>4. ~Crash
  BY DEF Crash, Lossless
<1>5. QED
  BY <1>1, <1>2, <1>3, <1>4, KafkaStep DEF KafkaMoves

LEMMA AuditSends ==
    ASSUME TypeOK, brokerUp, NEW r \in Requests, NEW o \in {"invoked", "denied"},
           NEW why \in Reasons, Audit(Event(r, o, why)), UNCHANGED call
    PROVE  Sent(Event(r, o, why))'
<1> DEFINE f == Event(r, o, why)
<1>1. Queued(f) /\ f \in Events
  BY EventType DEF Audit, NoProducer
<1>2. f' = f
  BY DEF Event
<1> HIDE DEF f
<1>3. \A e : e = f => Sent(e)'
  BY <1>1, QueuedSent
<1>4. QED
  BY <1>2, <1>3 DEF f

LEMMA AnsweredInit == Init => AnsweredInv
<1> SUFFICES ASSUME Init, Lossless PROVE brokerUp /\ \A r \in Requests : Answered(r)
  BY DEF AnsweredInv
<1>1. brokerUp
  <2>1. "broker" \notin FaultKinds
    BY DEF Lossless
  <2>2. QED
    BY <2>1 DEF Init
<1>2. QED
  BY <1>1 DEF Init, Answered

LEMMA AnsweredStep == TypeOK /\ AnsweredInv /\ [Next]_vars => AnsweredInv'
<1> SUFFICES ASSUME TypeOK, AnsweredInv, [Next]_vars, Lossless
             PROVE  brokerUp' /\ \A r \in Requests : Answered(r)'
  BY DEF AnsweredInv, Lossless
<1>1. brokerUp /\ \A r \in Requests : Answered(r)
  BY DEF AnsweredInv
<1>2. \A e : Sent(e) => Sent(e)'
  BY <1>1, SentKept
<1>3. ~BrokerFlips /\ ~Crash /\ ~AuditRaises
  BY <1>1 DEF Lossless, BrokerFlips, Crash, AuditRaises
<1> USE DEF busVars, worldVars, govVars, kafkaVars, Suspend, Finish
<1>4. call' = call /\ brokerUp' = brokerUp
  BY <1>3 DEF Next, Arrive, RouteStep, CheckFails, TrustPasses, TrustDenies, PolicyAllows,
         PolicyDenies, Deny, CircuitAdmits, CircuitDenies, BrainUnreachable,
         CircuitDenialSwallowed, ForwardReturns, ForwardFails, AdjustReturns, Execute, Deliver,
         DropBatch, TrustChanges, PolicyChanges, CircuitChanges, vars, Audit, Queued, NoProducer
<1>5. \A q \in Requests : \A o, why : Event(q, o, why)' = Event(q, o, why)
  BY <1>4 DEF Event
\* A request that does not move keeps its event.
<1>6. ASSUME NEW q \in Requests, pc'[q] = pc[q] /\ reply'[q] = reply[q] PROVE Answered(q)'
  BY <1>1, <1>2, <1>5, <1>6 DEF Answered
<1>7. ASSUME NEW r \in Requests, Arrive(r) \/ RouteStep(r) PROVE \A q \in Requests : Answered(q)'
  <2>1. \A q \in Requests : q # r => pc'[q] = pc[q] /\ reply'[q] = reply[q]
    BY <1>7 DEF TypeOK, Arrive, RouteStep, CheckFails, TrustPasses, TrustDenies, PolicyAllows,
           PolicyDenies, Deny, CircuitAdmits, CircuitDenies, BrainUnreachable,
           CircuitDenialSwallowed, Forward, ForwardReturns, ForwardFails, AdjustReturns
  <2>2. Answered(r)'
    <3>1. CASE TrustDenies(r)
      <4>1. Audit(Event(r, "denied", "trust_below_threshold")) /\ pc'[r] = "done" /\ reply'[r] = "denied"
        BY <1>3, <3>1 DEF TypeOK, TrustDenies, Deny
      <4>2. Sent(Event(r, "denied", "trust_below_threshold"))'
        BY <1>1, <1>4, <4>1, AuditSends DEF Reasons
      <4>3. QED
        BY <1>5, <4>1, <4>2 DEF Answered
    <3>2. CASE PolicyDenies(r)
      <4>1. Audit(Event(r, "denied", "policy_denied")) /\ pc'[r] = "done" /\ reply'[r] = "denied"
        BY <1>3, <3>2 DEF TypeOK, PolicyDenies, Deny
      <4>2. Sent(Event(r, "denied", "policy_denied"))'
        BY <1>1, <1>4, <4>1, AuditSends DEF Reasons
      <4>3. QED
        BY <1>5, <4>1, <4>2 DEF Answered
    <3>3. CASE CircuitDenies(r)
      <4>1. Audit(Event(r, "denied", "circuit_open")) /\ pc'[r] = "done" /\ reply'[r] = "unavailable"
        BY <3>3 DEF TypeOK, CircuitDenies
      <4>2. Sent(Event(r, "denied", "circuit_open"))'
        BY <1>1, <1>4, <4>1, AuditSends DEF Reasons
      <4>3. QED
        BY <1>5, <4>1, <4>2 DEF Answered
    <3>4. CASE ForwardReturns(r)
      <4>1. Audit(Event(r, "invoked", "none")) /\ pc'[r] = "adjust" /\ reply'[r] = reply[r]
        BY <1>3, <3>4 DEF TypeOK, ForwardReturns
      <4>2. Sent(Event(r, "invoked", "none"))'
        BY <1>1, <1>4, <4>1, AuditSends DEF Reasons
      <4>3. QED
        BY <1>1, <1>2, <1>5, <4>1, <4>2 DEF Answered
    <3>5. CASE AdjustReturns(r)
      <4>1. Sent(Event(r, "invoked", "none")) /\ pc'[r] = "done" /\ reply'[r] \in {"error", "ok"}
        BY <1>1, <3>5 DEF TypeOK, AdjustReturns, Answered
      <4>2. QED
        BY <1>2, <1>5, <4>1 DEF Answered
    <3>6. CASE \/ Arrive(r) \/ CheckFails(r) \/ TrustPasses(r) \/ PolicyAllows(r)
               \/ CircuitAdmits(r) \/ BrainUnreachable(r) \/ ForwardFails(r)
      <4>1. pc'[r] # "adjust" /\ (reply'[r] = reply[r] \/ reply'[r] \in {"unknown", "error"})
        BY <3>6 DEF TypeOK, Arrive, CheckFails, TrustPasses, PolicyAllows, CircuitAdmits,
               BrainUnreachable, Forward, ForwardFails
      <4>2. QED
        BY <1>1, <1>2, <1>5, <4>1 DEF Answered
    <3>7. QED
      BY <1>3, <1>7, <3>1, <3>2, <3>3, <3>4, <3>5, <3>6 DEF RouteStep, CircuitDenialSwallowed
  <2>3. QED
    BY <1>6, <2>1, <2>2
<1>8. CASE \/ \E r \in Requests : Execute(r)
           \/ \E t \in Topics : Deliver(t) \/ DropBatch(t)
           \/ TrustChanges \/ PolicyChanges \/ CircuitChanges \/ UNCHANGED vars
  <2>1. pc' = pc /\ reply' = reply
    BY <1>8 DEF Execute, Deliver, DropBatch, TrustChanges, PolicyChanges, CircuitChanges, vars
  <2>2. QED
    BY <1>1, <1>4, <1>6, <2>1
<1>9. QED
  BY <1>1, <1>3, <1>4, <1>7, <1>8 DEF Next

\* While broker and bus stay up, every caller that got a 200, a 403 or a 503
\* has left the event of exactly that outcome, for any number of calls.
THEOREM AnswersAudited == Spec => []RepliesAudited
<1>1. AnsweredInv => RepliesAudited
  BY DEF AnsweredInv, Answered, Lossless, RepliesAudited
<1>2. TypeOK /\ AnsweredInv /\ [Next]_vars => AnsweredInv'
  BY AnsweredStep
<1>3. QED
  BY <1>1, <1>2, AnsweredInit, TypeInit, GateInit, TypeStep, GateStep, PTL DEF Spec
=============================================================================
