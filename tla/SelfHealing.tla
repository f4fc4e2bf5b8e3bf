----------------------------- MODULE SelfHealing -----------------------------
(***************************************************************************)
(* The loop that connects the bus, the audit trail and the Brain: calls    *)
(* pass the gates of connector-bus/app/main.py, leave events, and the      *)
(* circuit breaker of services/brain/app/main.py moves the circuit that    *)
(* later calls meet.                                                       *)
(*                                                                         *)
(* The breaker is CircuitBreaker as it stands; its environment, any events *)
(* in any order, is replaced by the calls.  Of ConnectorBus only what the  *)
(* breaker can see is kept: which event a call leaves and when it read the *)
(* circuit.  Events reach the trail in the order in which they were sent.  *)
(* Traffic is unbounded, so the bound on events is not used.               *)
(***************************************************************************)
EXTENDS CircuitBreaker

CONSTANT Calls

ASSUME LoopAssumption == Calls # {}

VARIABLES
    target,    \* the connector each call is about, Other if it is not under way
    forwarded, \* the calls that have passed the gates
    answers,   \* whether each connector answers, in time, whatever it answers
    accepted,  \* whether trust and policy accept the calls of each connector
    denied     \* auxiliary: the connectors for which they ever denied a call

callVars == <<target, forwarded>>
envVars  == <<answers, accepted>>
loopVars == <<vars, callVars, envVars, denied>>

LoopInit ==
    /\ Init
    /\ target = [k \in Calls |-> Other]
    /\ forwarded = {}
    /\ answers \in [Connectors -> BOOLEAN]
    /\ accepted \in [Connectors -> BOOLEAN]
    /\ denied = {}

\* Governance records the event of the call.
Recorded(c, ok) ==
    /\ history' = WithNewest([connector |-> c, ok |-> ok])
    /\ UNCHANGED <<events, passVars, storeVars, toldVars, elapsed, restarts, missed>>

Ends(k) ==
    /\ target' = [target EXCEPT ![k] = Other]
    /\ forwarded' = forwarded \ {k}
    /\ UNCHANGED envVars

Call(k, c) ==
    /\ target[k] = Other
    /\ target' = [target EXCEPT ![k] = c]
    /\ UNCHANGED <<vars, forwarded, envVars, denied>>

\* Denied by trust or policy: the event has the topic connector.failed.
Deny(k) ==
    /\ target[k] # Other /\ k \notin forwarded
    /\ ~accepted[target[k]]
    /\ Recorded(target[k], FALSE)
    /\ denied' = denied \cup {target[k]}
    /\ Ends(k)

\* Denied by the open circuit: the same topic again.
Reject(k) ==
    /\ target[k] # Other /\ k \notin forwarded
    /\ accepted[target[k]]
    /\ pg[target[k]].state = "open"
    /\ Recorded(target[k], FALSE)
    /\ Ends(k)
    /\ UNCHANGED denied

\* A half-open circuit lets every call through.
Forward(k) ==
    /\ target[k] # Other /\ k \notin forwarded
    /\ accepted[target[k]]
    /\ pg[target[k]].state # "open"
    /\ forwarded' = forwarded \cup {k}
    /\ UNCHANGED <<vars, target, envVars, denied>>

\* Any answer, an error too, is audited as invoked.
Answer(k) ==
    /\ k \in forwarded
    /\ answers[target[k]]
    /\ Recorded(target[k], TRUE)
    /\ Ends(k)
    /\ UNCHANGED denied

\* Mutant of TimeOut: it is audited like a denial.
TimeOutAudited(k) ==
    /\ k \in forwarded
    /\ ~answers[target[k]]
    /\ Recorded(target[k], FALSE)
    /\ Ends(k)
    /\ UNCHANGED denied

\* A time-out is a 500 for the caller and leaves no event.
TimeOut(k) ==
    /\ k \in forwarded
    /\ ~answers[target[k]]
    /\ Ends(k)
    /\ UNCHANGED <<vars, denied>>

Routed(k) == Deny(k) \/ Reject(k) \/ Forward(k) \/ Answer(k) \/ TimeOut(k)

\* Events of other topics share the window.
OtherTraffic == Recorded(Other, TRUE) /\ UNCHANGED <<callVars, envVars, denied>>

\* Connectors come and go, scores and ceilings move.
Changes ==
    /\ \/ \E c \in Connectors : answers' = [answers EXCEPT ![c] = ~@] /\ UNCHANGED accepted
       \/ \E c \in Connectors : accepted' = [accepted EXCEPT ![c] = ~@] /\ UNCHANGED answers
    /\ UNCHANGED <<vars, callVars, denied>>

Brain == (Pass \/ Tick \/ Restart) /\ UNCHANGED <<callVars, envVars, denied>>

LoopNext ==
    \/ \E k \in Calls : (\E c \in Connectors : Call(k, c)) \/ Routed(k)
    \/ OtherTraffic \/ Changes \/ Brain

LoopSpec == LoopInit /\ [][LoopNext]_loopVars

\* A pass finds c in the window.
Found(c) == Fetch /\ About(history, c) # {} /\ UNCHANGED <<callVars, envVars, denied>>

\* While the monitor sleeps and the circuit of c is not open, a call to c is
\* made, let through, and answered; and the next pass finds it the newest.
Lull(c) == todo = {} /\ pending = NoIncident /\ pg[c].state # "open"
Made(c) == Lull(c) /\ \E k \in Calls : Call(k, c)
LetThrough(c) == Lull(c) /\ \E k \in Calls : target[k] = c /\ Forward(k)
Answered(c) == Lull(c) /\ \E k \in Calls : target[k] = c /\ Answer(k)
FoundOk(c) == Lull(c) /\ NewestOk(history, c) /\ Fetch /\ UNCHANGED <<callVars, envVars, denied>>

\* The monitor and the clock as in FairSpec; every call is made and ends; and
\* the calls to a connector are dense: what may happen to them in the lull
\* between two passes, again and again, does happen.
LoopFairSpec ==
    /\ LoopSpec
    /\ WF_loopVars(Pass /\ UNCHANGED <<callVars, envVars, denied>>)
    /\ WF_loopVars(Tick /\ UNCHANGED <<callVars, envVars, denied>>)
    /\ \A k \in Calls : WF_loopVars(Routed(k)) /\ WF_loopVars(\E c \in Connectors : Call(k, c))
    /\ \A c \in Connectors :
        /\ SF_loopVars(Found(c)) /\ SF_loopVars(FoundOk(c))
        /\ SF_loopVars(Made(c)) /\ SF_loopVars(LetThrough(c)) /\ SF_loopVars(Answered(c))

-----------------------------------------------------------------------------
\* A call under way is of a connector; only such calls are forwarded.
LoopTypeOK ==
    /\ target \in [Calls -> Connectors \cup {Other}]
    /\ forwarded \subseteq {k \in Calls : target[k] # Other}
    /\ answers \in [Connectors -> BOOLEAN] /\ accepted \in [Connectors -> BOOLEAN]
    /\ denied \subseteq Connectors

\* Denials are all the breaker learns from: without one by trust or policy the
\* circuit of a connector stays closed in both stores, however many calls were
\* answered with errors or timed out, and whatever fails in between.
OpensOnDenialsOnly ==
    \A c \in Connectors \ denied :
        pg[c].state = "closed" /\ (c \in DOMAIN mem => mem[c].state = "closed")

\* The loop heals: once a connector answers and its callers are accepted, its
\* circuit is closed again and again, whatever denials, rejections by the open
\* circuit itself and other traffic have done to the window.
AnsweringCloses ==
    \A c \in Connectors :
        <>[](answers[c] /\ accepted[c]) => []<>(pg[c].state = "closed")

\* No connector is cut off for good: while its callers are accepted they reach
\* it again and again, even one that has stopped answering.
AlwaysTriedAgain ==
    \A c \in Connectors :
        <>[]accepted[c] => []<>(\E k \in forwarded : target[k] = c)

\* The claim of the Brain, lines 7-11: "a connector having a bad day gets a
\* fast, honest denial instead of every caller re-discovering the same 30s
\* timeout".
BadDayIsCutOff ==
    \A c \in Connectors :
        <>[](~answers[c] /\ accepted[c]) => <>(pg[c].state # "closed")
=============================================================================
