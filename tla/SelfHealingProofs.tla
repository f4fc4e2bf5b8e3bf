-------------------------- MODULE SelfHealingProofs --------------------------
(***************************************************************************)
(* What opens a circuit, for any connectors, calls, thresholds, windows    *)
(* and faults.  The invariant of the breaker alone (CircuitBreakerProofs)  *)
(* carries over to the loop.  To it is added that the trail and the        *)
(* snapshot of the pass hold no failure of a connector that was never      *)
(* denied: a call that times out leaves nothing, and the rejections by an  *)
(* open circuit, which are failures too, need an open circuit first.       *)
(***************************************************************************)
EXTENDS SelfHealing, CircuitBreakerProofs, FiniteSetTheorems

\* Every event of c in the trail is a success.
AllOk(trail, c) == \A i \in DOMAIN trail : trail[i].connector = c => trail[i].ok

Blameless(c) ==
    /\ AllOk(history, c) /\ AllOk(snapshot, c)
    /\ pg[c].state = "closed" /\ (c \in DOMAIN mem => mem[c].state = "closed")

LoopInv == Inv /\ LoopTypeOK /\ \A c \in Connectors \ denied : Blameless(c)

-----------------------------------------------------------------------------
\* The window is the new event and events that were there.
LEMMA NewestFirst ==
    ASSUME Inv, NEW e \in Events
    PROVE  /\ WithNewest(e) \in Seq(Events) /\ Len(WithNewest(e)) <= Window
           /\ \A i \in DOMAIN WithNewest(e) :
                WithNewest(e)[i] = e \/ \E j \in DOMAIN history : WithNewest(e)[i] = history[j]
<1> DEFINE kept == IF Len(history) < Window THEN Len(history) ELSE Window - 1
           rest == SubSeq(history, 1, kept)
<1>1. history \in Seq(Events) /\ Len(history) <= Window /\ Window \in Nat /\ Window > 0
  BY BreakerAssumption DEF Inv, TypeOK
<1>2. kept \in Nat /\ kept <= Len(history) /\ kept + 1 <= Window
  BY <1>1
<1>3. rest \in Seq(Events) /\ Len(rest) = kept /\ \A j \in 1..kept : rest[j] = history[j]
  BY <1>1, <1>2
<1>4. WithNewest(e) = <<e>> \o rest
  BY DEF WithNewest
<1> HIDE DEF rest, kept
<1>5. WithNewest(e) \in Seq(Events) /\ Len(WithNewest(e)) = kept + 1
  BY <1>2, <1>3, <1>4
<1>6. ASSUME NEW i \in DOMAIN WithNewest(e), i # 1
      PROVE  \E j \in DOMAIN history : WithNewest(e)[i] = history[j]
  <2>1. i \in 2..(kept + 1) /\ i - 1 \in 1..kept /\ i - 1 \in DOMAIN history
    BY <1>1, <1>2, <1>5, <1>6
  <2>2. WithNewest(e)[i] = rest[i - 1]
    BY <1>2, <1>3, <1>4, <2>1
  <2>3. QED
    BY <1>3, <2>1, <2>2
<1>7. WithNewest(e)[1] = e
  BY <1>3, <1>4
<1>8. QED
  BY <1>2, <1>5, <1>6, <1>7

\* Recording an event keeps the invariant of the breaker.
LEMMA RecordedInv ==
    ASSUME Inv, NEW c \in Connectors \cup {Other}, NEW ok \in BOOLEAN, Recorded(c, ok)
    PROVE  Inv'
<1> DEFINE e == [connector |-> c, ok |-> ok]
<1>1. e \in Events /\ history' = WithNewest(e)
  BY Zenon DEF Recorded, Events
<1> HIDE DEF e
<1>2. history' \in Seq(Events) /\ Len(history') <= Window
  BY <1>1, NewestFirst
<1>3. QED
  BY <1>2 DEF Recorded, Inv, TypeOK, NeverWedged, passVars, storeVars, toldVars

\* A connector whose new event is a success stays blameless.
LEMMA RecordedBlameless ==
    ASSUME Inv, NEW c \in Connectors \cup {Other}, NEW ok \in BOOLEAN, Recorded(c, ok),
           NEW d \in Connectors, Blameless(d), d # c \/ ok
    PROVE  Blameless(d)'
<1> DEFINE e == [connector |-> c, ok |-> ok]
<1>1. e \in Events /\ history' = WithNewest(e) /\ e.connector = c /\ e.ok = ok
  BY Zenon DEF Recorded, Events
<1> HIDE DEF e
<1>2. AllOk(history, d)'
  BY <1>1, NewestFirst DEF AllOk, Blameless
<1>3. QED
  BY <1>2 DEF Recorded, Blameless, AllOk, passVars, storeVars

\* A closed circuit without a failure stays closed.
LEMMA JudgeOk ==
    ASSUME NEW trail \in Seq(Events), NEW c, AllOk(trail, c), NEW circuit, circuit.state = "closed"
    PROVE  Judge(circuit, trail, c) = circuit
<1>1. Failures(trail, c) = {}
  <2> SUFFICES ASSUME NEW i \in Failures(trail, c) PROVE FALSE
    OBVIOUS
  <2>1. i \in DOMAIN trail /\ trail[i].connector = c
    BY DEF Failures, About
  <2>2. \A j \in About(trail, c) : j <= i => ~trail[j].ok
    BY DEF Failures
  <2>3. i \in Nat
    BY <2>1
  <2>4. QED
    BY <2>1, <2>2, <2>3 DEF AllOk, About
<1>2. Cardinality(Failures(trail, c)) = 0
  BY <1>1, FS_EmptySet
<1>3. ~Failing(trail, c)
  BY <1>2, BreakerAssumption DEF Failing, Streak
<1>4. QED
  BY <1>3 DEF Judge

\* A pass leaves the circuits of blameless connectors closed.
LEMMA FetchBlameless ==
    ASSUME Inv, Fetch, NEW c \in Connectors, Blameless(c)
    PROVE  Blameless(c)'
<1>1. TypeOK /\ elapsed \in 0..Cooldown
  BY DEF Inv, TypeOK
<1>2. pg'[c].state = "closed"
  <2>1. pg[c] \in Circuits /\ Dated(pg[c]) /\ pg[c].state = "closed"
    BY <1>1, StoresOK DEF TypeOK, Blameless
  <2>2. pg'[c] = Older(pg[c])
    BY DEF Fetch
  <2>3. QED
    BY <1>1, <2>1, <2>2, OlderType
<1>3. ASSUME c \in DOMAIN mem' PROVE mem'[c].state = "closed"
  <2>1. c \in DOMAIN mem /\ mem'[c] = Older(mem[c])
    BY <1>3 DEF Fetch
  <2>2. mem[c] \in Circuits /\ Dated(mem[c]) /\ mem[c].state = "closed"
    BY <1>1, <2>1, StoresOK DEF TypeOK, Blameless
  <2>3. QED
    BY <1>1, <2>1, <2>2, OlderType
<1>4. AllOk(history, c)' /\ AllOk(snapshot, c)'
  BY DEF Fetch, Blameless, AllOk, auditVars
<1>5. QED
  BY <1>2, <1>3, <1>4 DEF Blameless

LEMMA ProcessBlameless ==
    ASSUME Inv, NEW d \in Connectors, Process(d), NEW c \in Connectors, Blameless(c)
    PROVE  Blameless(c)'
<1>1. PICK from \in Reachable, to \in Writable :
        LET old == Stored(from, d)
            new == Judge(old, snapshot, d)
        IN /\ Save(from, to, d, new)
           /\ missed' = (missed \/ "mem" \in {from, to})
           /\ IF new.state # old.state
              THEN pending' = [connector |-> d, state |-> new.state]
              ELSE UNCHANGED pending
  BY Zenon DEF Process
<1> DEFINE new == Judge(Stored(from, d), snapshot, d)
<1>2. Save(from, to, d, new)
  BY <1>1, Zenon
<1>3. c = d => new.state = "closed"
  <2> SUFFICES ASSUME c = d PROVE new.state = "closed"
    OBVIOUS
  <2>1. from \in {"pg", "mem"}
    BY DEF Reachable
  <2>2. Stored(from, d).state = "closed"
    BY <2>1 DEF Stored, Blameless, Fresh
  <2>3. AllOk(snapshot, d) /\ snapshot \in Seq(Events)
    BY DEF Blameless, Inv, TypeOK
  <2>4. QED
    BY <2>2, <2>3, JudgeOk
<1> HIDE DEF new
<1>4. pg'[c].state = "closed"
  BY <1>2, <1>3 DEF Save, Blameless, Inv, TypeOK
<1>5. c \in DOMAIN mem' => mem'[c].state = "closed"
  BY <1>2, <1>3 DEF Save, Entry, Blameless
<1>6. AllOk(history, c)' /\ AllOk(snapshot, c)'
  BY DEF Process, Blameless, AllOk, auditVars
<1>7. QED
  BY <1>4, <1>5, <1>6 DEF Blameless

LEMMA BrainBlameless ==
    ASSUME Inv, Pass \/ Tick \/ Restart, NEW c \in Connectors, Blameless(c)
    PROVE  Blameless(c)'
<1>1. CASE RecordIncident
  BY <1>1 DEF RecordIncident, CutShort, Blameless, AllOk, auditVars, storeVars
<1>2. CASE Tick
  BY <1>2 DEF Tick, Blameless, AllOk, auditVars, passVars, storeVars
<1>3. CASE Restart
  BY <1>3 DEF Restart, Blameless, AllOk, auditVars
<1>4. QED
  BY <1>1, <1>2, <1>3, FetchBlameless, ProcessBlameless DEF Pass

-----------------------------------------------------------------------------
(* The steps of the calls.                                                 *)

\* What a call does to the loop, apart from what the Brain keeps.
LEMMA CallTypes ==
    ASSUME LoopTypeOK, NEW k \in Calls,
           (\E c \in Connectors : Call(k, c)) \/ Routed(k)
    PROVE  LoopTypeOK'
<1>1. ASSUME NEW c \in Connectors, Call(k, c) PROVE LoopTypeOK'
  BY <1>1, BreakerAssumption DEF Call, LoopTypeOK, envVars
<1>2. CASE Forward(k)
  BY <1>2 DEF Forward, LoopTypeOK, envVars
<1>3. CASE Deny(k) \/ Reject(k) \/ Answer(k) \/ TimeOut(k)
  <2>1. Ends(k) /\ denied' \in {denied, denied \cup {target[k]}} /\ target[k] # Other
    BY <1>3 DEF Deny, Reject, Answer, TimeOut, LoopTypeOK
  <2>2. target[k] \in Connectors
    BY <2>1 DEF LoopTypeOK
  <2>3. QED
    BY <2>1, <2>2 DEF Ends, LoopTypeOK, envVars
<1>4. QED
  BY <1>1, <1>2, <1>3 DEF Routed

LEMMA CallInv ==
    ASSUME LoopInv, NEW k \in Calls,
           (\E c \in Connectors : Call(k, c)) \/ Routed(k)
    PROVE  LoopInv'
<1>1. Inv /\ LoopTypeOK /\ LoopTypeOK'
  BY CallTypes DEF LoopInv
<1>2. CASE UNCHANGED vars /\ UNCHANGED denied
  <2>1. Inv'
    BY <1>1, <1>2, InvStep
  <2>2. \A c \in Connectors \ denied' : Blameless(c)'
    BY <1>2 DEF LoopInv, Blameless, AllOk, vars, auditVars, passVars, storeVars
  <2>3. QED
    BY <1>1, <2>1, <2>2 DEF LoopInv
<1>3. CASE Deny(k)
  <2>1. target[k] \in Connectors /\ Recorded(target[k], FALSE) /\ denied' = denied \cup {target[k]}
    BY <1>1, <1>3 DEF Deny, LoopTypeOK
  <2>2. Inv'
    BY <1>1, <2>1, RecordedInv
  <2>3. \A c \in Connectors \ denied' : Blameless(c)'
    BY <1>1, <2>1, RecordedBlameless DEF LoopInv
  <2>4. QED
    BY <1>1, <2>2, <2>3 DEF LoopInv
<1>4. CASE Reject(k)
  <2>1. target[k] \in Connectors /\ Recorded(target[k], FALSE) /\ denied' = denied
    BY <1>1, <1>4 DEF Reject, LoopTypeOK
  <2>2. ~Blameless(target[k])
    BY <1>4 DEF Reject, Blameless
  <2>3. Inv'
    BY <1>1, <2>1, RecordedInv
  <2>4. \A c \in Connectors \ denied' : Blameless(c)'
    BY <1>1, <2>1, <2>2, RecordedBlameless DEF LoopInv
  <2>5. QED
    BY <1>1, <2>3, <2>4 DEF LoopInv
<1>5. CASE Answer(k)
  <2>1. target[k] \in Connectors /\ Recorded(target[k], TRUE) /\ denied' = denied
    BY <1>1, <1>5 DEF Answer, LoopTypeOK
  <2>2. Inv'
    BY <1>1, <2>1, RecordedInv
  <2>3. \A c \in Connectors \ denied' : Blameless(c)'
    BY <1>1, <2>1, RecordedBlameless DEF LoopInv
  <2>4. QED
    BY <1>1, <2>2, <2>3 DEF LoopInv
<1>6. QED
  BY <1>2, <1>3, <1>4, <1>5 DEF Call, Routed, Forward, TimeOut

LEMMA LoopStep == LoopInv /\ [LoopNext]_loopVars => LoopInv'
<1> SUFFICES ASSUME LoopInv, [LoopNext]_loopVars PROVE LoopInv'
  OBVIOUS
<1>1. Inv /\ LoopTypeOK
  BY DEF LoopInv
<1>2. CASE OtherTraffic
  <2>1. Recorded(Other, TRUE) /\ denied' = denied /\ LoopTypeOK'
    BY <1>1, <1>2 DEF OtherTraffic, LoopTypeOK, callVars, envVars
  <2>2. Inv' /\ \A c \in Connectors \ denied' : Blameless(c)'
    BY <1>1, <2>1, RecordedInv, RecordedBlameless DEF LoopInv
  <2>3. QED
    BY <2>1, <2>2 DEF LoopInv
<1>3. CASE Changes \/ UNCHANGED loopVars
  <2>1. UNCHANGED vars /\ denied' = denied /\ LoopTypeOK'
    BY <1>1, <1>3 DEF Changes, LoopTypeOK, loopVars, callVars, envVars
  <2>2. Inv'
    BY <1>1, <2>1, InvStep
  <2>3. \A c \in Connectors \ denied' : Blameless(c)'
    BY <2>1 DEF LoopInv, Blameless, AllOk, vars, auditVars, passVars, storeVars
  <2>4. QED
    BY <2>1, <2>2, <2>3 DEF LoopInv
<1>4. CASE Brain
  <2>1. (Pass \/ Tick \/ Restart) /\ denied' = denied /\ LoopTypeOK'
    BY <1>1, <1>4 DEF Brain, LoopTypeOK, callVars, envVars
  <2>2. Inv'
    BY <1>1, <2>1, InvStep DEF Next
  <2>3. \A c \in Connectors \ denied' : Blameless(c)'
    BY <1>1, <2>1, BrainBlameless DEF LoopInv
  <2>4. QED
    BY <2>1, <2>2, <2>3 DEF LoopInv
<1>5. QED
  BY <1>2, <1>3, <1>4, CallInv DEF LoopNext

LEMMA LoopStart == LoopInit => LoopInv
<1> SUFFICES ASSUME LoopInit PROVE LoopInv
  OBVIOUS
<1>1. Inv
  BY InvInit DEF LoopInit
<1>2. LoopTypeOK
  BY DEF LoopInit, LoopTypeOK
<1>3. \A c \in Connectors : Blameless(c)
  BY DEF LoopInit, Init, Blameless, AllOk, Fresh
<1>4. QED
  BY <1>1, <1>2, <1>3 DEF LoopInv

LEMMA LoopAlways == LoopSpec => []LoopInv
BY LoopStart, LoopStep, PTL DEF LoopSpec

\* The loop keeps its types, those of the breaker included.
THEOREM LoopTypeCorrect == LoopSpec => [](TypeOK /\ LoopTypeOK)
<1>1. LoopInv => TypeOK /\ LoopTypeOK
  BY DEF LoopInv, Inv
<1>2. QED
  BY <1>1, LoopAlways, PTL

\* However many calls to a connector fail or time out, its circuit opens only
\* if trust or policy has denied one.
THEOREM OnlyDenialsOpen == LoopSpec => []OpensOnDenialsOnly
<1>1. LoopInv => OpensOnDenialsOnly
  BY DEF LoopInv, Blameless, OpensOnDenialsOnly
<1>2. QED
  BY <1>1, LoopAlways, PTL

\* No circuit of the loop is wedged: every one that is not closed is dated, so
\* that a later pass can retry it.
THEOREM LoopNotWedged == LoopSpec => []NeverWedged
<1>1. LoopInv => NeverWedged
  BY DEF LoopInv, Inv
<1>2. QED
  BY <1>1, LoopAlways, PTL
=============================================================================
