------------------------ MODULE CircuitBreakerProofs ------------------------
(***************************************************************************)
(* Proofs about CircuitBreaker for any set of connectors, any thresholds   *)
(* and windows, and any number of events and restarts.                     *)
(***************************************************************************)
EXTENDS CircuitBreaker, FiniteSetTheorems, WellFoundedInduction, TLAPS

-----------------------------------------------------------------------------
(* What a pass does to one circuit.                                        *)

\* A circuit has an opened_at exactly when it is not closed.
Dated(circuit) == (circuit.age = -1) <=> (circuit.state = "closed")

LEMMA FreshType == Fresh \in Circuits /\ Dated(Fresh)
BY BreakerAssumption DEF Fresh, Circuits, States, Dated

LEMMA MovedType ==
    /\ Opened \in Circuits /\ Dated(Opened)
    /\ \A circuit : Closed(circuit) \in Circuits /\ Dated(Closed(circuit))
BY FreshType, BreakerAssumption DEF Opened, Closed, Circuits, States, Dated

LEMMA JudgeType ==
    ASSUME NEW circuit \in Circuits, Dated(circuit), NEW trail, NEW c
    PROVE  Judge(circuit, trail, c) \in Circuits /\ Dated(Judge(circuit, trail, c))
<1>1. CASE circuit.state = "closed" /\ Failing(trail, c)
  BY <1>1, MovedType DEF Judge
<1>2. CASE circuit.state = "open" /\ CooledDown(circuit)
  <2>1. Judge(circuit, trail, c) = [circuit EXCEPT !.state = "half_open"]
    BY <1>2 DEF Judge
  <2>2. QED
    BY <1>2, <2>1 DEF Circuits, States, Dated
<1>3. CASE circuit.state = "half_open"
  BY <1>3, MovedType DEF Judge, Trial
<1>4. CASE /\ ~(circuit.state = "closed" /\ Failing(trail, c))
           /\ ~(circuit.state = "open" /\ CooledDown(circuit))
           /\ circuit.state # "half_open"
  <2>1. Judge(circuit, trail, c) = circuit
    BY <1>4, Zenon DEF Judge
  <2>2. QED
    BY <2>1
<1>5. QED
  BY <1>1, <1>2, <1>3, <1>4

\* An open circuit moves only to half-open and only after the cooldown.
LEMMA JudgeOpen ==
    ASSUME NEW circuit \in Circuits, circuit.state = "open", NEW trail, NEW c,
           Judge(circuit, trail, c).state # "open"
    PROVE  Judge(circuit, trail, c).state = "half_open" /\ circuit.age = Cooldown
<1>1. CASE CooledDown(circuit)
  BY <1>1 DEF Judge, CooledDown, Circuits
<1>2. CASE ~CooledDown(circuit)
  <2>1. Judge(circuit, trail, c) = circuit
    BY <1>2 DEF Judge
  <2>2. QED
    BY <2>1
<1>3. QED
  BY <1>1, <1>2

LEMMA OlderType ==
    ASSUME NEW circuit \in Circuits, elapsed \in 0..Cooldown, Dated(circuit)
    PROVE  /\ Older(circuit) \in Circuits /\ Dated(Older(circuit))
           /\ Older(circuit).state = circuit.state
BY BreakerAssumption DEF Older, Circuits, Dated

-----------------------------------------------------------------------------
(* Types, with the dates of the circuits.                                  *)

Inv == TypeOK /\ NeverWedged

LEMMA StoresOK ==
    Inv <=> /\ TypeOK
            /\ \A c \in Connectors : Dated(pg[c])
            /\ \A c \in DOMAIN mem : Dated(mem[c])
BY Zenon DEF Inv, NeverWedged, Dated, TypeOK

LEMMA InvInit == Init => Inv
<1> SUFFICES ASSUME Init PROVE Inv
  OBVIOUS
<1>1. \A c \in Connectors : pg[c] \in Circuits /\ Dated(pg[c])
  BY FreshType DEF Init
<1>2. DOMAIN mem = {}
  BY DEF Init
<1>3. TypeOK
  <2>1. history \in Seq(Events) /\ Len(history) <= Window /\ snapshot \in Seq(Events)
    BY BreakerAssumption DEF Init
  <2>2. pg \in [Connectors -> Circuits]
    BY <1>1 DEF Init
  <2>3. pending \in [connector : Connectors \cup {Other}, state : States]
    BY DEF Init, NoIncident, States
  <2>4. recorded \in [Connectors -> States] /\ published \in [Connectors -> States]
    BY DEF Init, States
  <2>5. missed \in BOOLEAN
    BY Zenon DEF Init
  <2>6. QED
    BY <1>2, <2>1, <2>2, <2>3, <2>4, <2>5, BreakerAssumption, BreakerBounds DEF Init, TypeOK
<1>4. QED
  BY <1>1, <1>2, <1>3, StoresOK

\* Whichever store a load reaches, it finds a circuit.
LEMMA LoadType ==
    ASSUME Inv, NEW c \in Connectors, NEW from \in Reachable
    PROVE  Stored(from, c) \in Circuits /\ Dated(Stored(from, c))
<1>1. from \in {"pg", "mem"}
  BY DEF Reachable
<1>2. CASE from = "pg"
  BY <1>2, StoresOK DEF Stored, TypeOK
<1>3. CASE from = "mem"
  <2>1. Stored(from, c) = IF c \in DOMAIN mem THEN mem[c] ELSE Fresh
    BY <1>3 DEF Stored
  <2>2. QED
    BY <2>1, FreshType, StoresOK DEF TypeOK
<1>4. QED
  BY <1>1, <1>2, <1>3

LEMMA SaveType ==
    ASSUME Inv, NEW c \in Connectors, NEW from \in Reachable, NEW to \in Writable,
           NEW new \in Circuits, Dated(new), Save(from, to, c, new)
    PROVE  /\ pg' \in [Connectors -> Circuits] /\ \A d \in Connectors : Dated(pg'[d])
           /\ DOMAIN mem' \subseteq Connectors
           /\ \A d \in DOMAIN mem' : mem'[d] \in Circuits /\ Dated(mem'[d])
<1>1. pg \in [Connectors -> Circuits] /\ \A d \in Connectors : Dated(pg[d])
  BY StoresOK DEF TypeOK
<1>2. DOMAIN mem \subseteq Connectors /\ \A d \in DOMAIN mem : mem[d] \in Circuits /\ Dated(mem[d])
  BY StoresOK DEF TypeOK
<1>3. pg' = [pg EXCEPT ![c] = new] \/ pg' = pg
  BY DEF Save
<1>4. mem' = Entry(c, new) \/ mem' = mem
  BY DEF Save
<1>5. pg' \in [Connectors -> Circuits] /\ \A d \in Connectors : Dated(pg'[d])
  BY <1>1, <1>3
<1>6. CASE mem' = Entry(c, new)
  <2>1. DOMAIN mem' = DOMAIN mem \cup {c}
    BY <1>6 DEF Entry
  <2>2. \A d \in DOMAIN mem' : mem'[d] = IF d = c THEN new ELSE mem[d]
    BY <1>6 DEF Entry
  <2>3. QED
    BY <1>2, <1>5, <2>1, <2>2
<1>7. QED
  BY <1>2, <1>4, <1>5, <1>6

LEMMA FetchInv == ASSUME Inv, Fetch PROVE Inv'
<1>1. TypeOK
  BY DEF Inv
<1>2. elapsed \in 0..Cooldown
  BY <1>1 DEF TypeOK
<1>3. \A c \in Connectors : Older(pg[c]) \in Circuits /\ Dated(Older(pg[c]))
  BY <1>1, <1>2, StoresOK, OlderType DEF TypeOK
<1>4. \A c \in DOMAIN mem : Older(mem[c]) \in Circuits /\ Dated(Older(mem[c]))
  BY <1>1, <1>2, StoresOK, OlderType DEF TypeOK
<1>5. pg' \in [Connectors -> Circuits] /\ \A c \in Connectors : Dated(pg'[c])
  BY <1>3 DEF Fetch
<1>6. /\ DOMAIN mem' \subseteq Connectors
      /\ \A c \in DOMAIN mem' : mem'[c] \in Circuits /\ Dated(mem'[c])
  <2>1. DOMAIN mem' = DOMAIN mem /\ \A c \in DOMAIN mem : mem'[c] = Older(mem[c])
    BY DEF Fetch
  <2>2. QED
    BY <1>1, <1>4, <2>1 DEF TypeOK
<1>7. TypeOK'
  BY <1>1, <1>5, <1>6, BreakerAssumption DEF Fetch, TypeOK, auditVars, toldVars
<1>8. NeverWedged'
  BY <1>5, <1>6, Zenon DEF NeverWedged, Dated
<1>9. QED
  BY <1>7, <1>8 DEF Inv

LEMMA ProcessInv == ASSUME Inv, NEW c \in Connectors, Process(c) PROVE Inv'
<1>1. PICK from \in Reachable, to \in Writable :
        LET old == Stored(from, c)
            new == Judge(old, snapshot, c)
        IN /\ Save(from, to, c, new)
           /\ missed' = (missed \/ "mem" \in {from, to})
           /\ IF new.state # old.state
              THEN pending' = [connector |-> c, state |-> new.state]
              ELSE UNCHANGED pending
  BY Zenon DEF Process
<1> DEFINE new == Judge(Stored(from, c), snapshot, c)
<1>2. new \in Circuits /\ Dated(new)
  BY LoadType, JudgeType, Zenon
<1> HIDE DEF new
<1>3. Save(from, to, c, new)
  BY <1>1, Zenon DEF new
<1>4. TypeOK
  BY DEF Inv
<1>5. pending' \in [connector : Connectors \cup {Other}, state : States]
  BY <1>1, <1>2, <1>4 DEF Circuits, TypeOK, new
<1>6. /\ pg' \in [Connectors -> Circuits] /\ \A d \in Connectors : Dated(pg'[d])
      /\ DOMAIN mem' \subseteq Connectors
      /\ \A d \in DOMAIN mem' : mem'[d] \in Circuits /\ Dated(mem'[d])
  BY <1>2, <1>3, SaveType
<1>7. missed' \in BOOLEAN
  <2>1. missed' = (missed \/ "mem" \in {from, to})
    BY <1>1, Zenon
  <2>2. QED
    BY <2>1, Zenon
<1>8. TypeOK'
  BY <1>4, <1>5, <1>6, <1>7 DEF Process, TypeOK, auditVars, toldVars
<1>9. NeverWedged'
  BY <1>6, Zenon DEF NeverWedged, Dated
<1>10. QED
  BY <1>8, <1>9 DEF Inv

LEMMA EventInv == ASSUME Inv, NewEvent PROVE Inv'
<1>1. TypeOK
  BY DEF Inv
<1>2. PICK e \in Events : history' = WithNewest(e)
  BY DEF NewEvent
<1>3. history' \in Seq(Events) /\ Len(history') <= Window
  <2> DEFINE kept == IF Len(history) < Window THEN Len(history) ELSE Window - 1
             rest == SubSeq(history, 1, kept)
  <2>1. history \in Seq(Events) /\ Window \in Nat /\ Window > 0
    BY <1>1, BreakerAssumption DEF TypeOK
  <2>2. kept \in Nat /\ kept <= Len(history) /\ kept + 1 <= Window
    BY <2>1
  <2>3. rest \in Seq(Events) /\ Len(rest) = kept
    BY <2>1, <2>2
  <2>4. history' = <<e>> \o rest
    BY <1>2 DEF WithNewest
  <2> HIDE DEF rest, kept
  <2>5. QED
    BY <2>2, <2>3, <2>4
<1>4. QED
  BY <1>1, <1>3, BreakerBounds DEF NewEvent, Inv, TypeOK, NeverWedged, passVars, storeVars, toldVars

LEMMA InvStep == Inv /\ [Next]_vars => Inv'
<1> SUFFICES ASSUME Inv, [Next]_vars PROVE Inv'
  OBVIOUS
<1>1. CASE RecordIncident
  <2>1. pending.connector \in Connectors \cup {Other} /\ pending.state \in States
    BY DEF Inv, TypeOK
  <2>2. recorded' \in [Connectors -> States] /\ published' \in [Connectors -> States]
    BY <1>1, <2>1 DEF RecordIncident, Inv, TypeOK
  <2>3. pending' \in [connector : Connectors \cup {Other}, state : States]
    BY <1>1 DEF RecordIncident, NoIncident, States
  <2>4. todo' \subseteq Connectors /\ snapshot' \in Seq(Events)
    <3>1. CASE CutShort
      BY <3>1 DEF CutShort
    <3>2. CASE UNCHANGED <<todo, snapshot>>
      BY <3>2 DEF Inv, TypeOK
    <3>3. QED
      BY <1>1, <3>1, <3>2 DEF RecordIncident
  <2>5. QED
    BY <1>1, <2>2, <2>3, <2>4 DEF RecordIncident, Inv, TypeOK, NeverWedged, auditVars, storeVars
<1>2. CASE Tick
  BY <1>2, BreakerAssumption DEF Tick, Inv, TypeOK, NeverWedged, auditVars, passVars, storeVars, toldVars
<1>3. CASE Restart
  <2>1. pending' \in [connector : Connectors \cup {Other}, state : States]
    BY <1>3 DEF Restart, NoIncident, States
  <2>2. DOMAIN mem' = {} /\ snapshot' \in Seq(Events)
    BY <1>3 DEF Restart
  <2>3. QED
    BY <1>3, <2>1, <2>2, BreakerBounds DEF Restart, Inv, TypeOK, NeverWedged, auditVars, toldVars
<1>4. CASE UNCHANGED vars
  BY <1>4 DEF vars, auditVars, passVars, storeVars, toldVars, Inv, TypeOK, NeverWedged
<1>5. QED
  BY <1>1, <1>2, <1>3, <1>4, FetchInv, ProcessInv, EventInv DEF Next, Pass

LEMMA AlwaysInv == Spec => []Inv
BY InvInit, InvStep, PTL DEF Spec

-----------------------------------------------------------------------------
(* As long as every load and save has reached Postgres.                    *)

LEMMA ProcessPg ==
    ASSUME NEW d \in Connectors, Process(d), ~missed'
    PROVE  LET new == Judge(pg[d], snapshot, d) IN
           /\ pg' = [pg EXCEPT ![d] = new]
           /\ pending' = IF new.state # pg[d].state THEN [connector |-> d, state |-> new.state] ELSE pending
<1> DEFINE new == Judge(pg[d], snapshot, d)
<1>1. Reachable \subseteq {"pg", "mem"}
  BY DEF Reachable
<1>2. Stored("pg", d) = pg[d]
  BY DEF Stored
<1>3. PICK from \in Reachable, to \in Writable :
        LET old == Stored(from, d)
            judged == Judge(old, snapshot, d)
        IN /\ Save(from, to, d, judged)
           /\ missed' = (missed \/ "mem" \in {from, to})
           /\ IF judged.state # old.state
              THEN pending' = [connector |-> d, state |-> judged.state]
              ELSE UNCHANGED pending
  BY Zenon DEF Process
<1>4. from = "pg" /\ to # "mem"
  <2>1. missed' = (missed \/ "mem" \in {from, to})
    BY <1>3, Zenon
  <2>2. from # "mem" /\ to # "mem"
    BY <2>1, Zenon
  <2>3. QED
    BY <1>1, <2>2
<1> HIDE DEF new
<1>5. /\ Save("pg", to, d, new)
      /\ IF new.state # pg[d].state
         THEN pending' = [connector |-> d, state |-> new.state]
         ELSE UNCHANGED pending
  BY <1>2, <1>3, <1>4, Zenon DEF new
<1>6. pg' = [pg EXCEPT ![d] = new]
  BY <1>4, <1>5 DEF Save
<1>7. pending' = IF new.state # pg[d].state THEN [connector |-> d, state |-> new.state] ELSE pending
  BY <1>5
<1>8. QED
  BY <1>6, <1>7 DEF new

\* What was missed stays missed.
LEMMA MissedStays == ASSUME [Next]_vars, ~missed' PROVE ~missed
<1>1. ASSUME NEW d \in Connectors, Process(d) PROVE ~missed
  BY <1>1, Zenon DEF Process
<1>2. CASE Fetch \/ RecordIncident \/ NewEvent \/ Tick \/ Restart \/ UNCHANGED vars
  BY <1>2, Zenon DEF Fetch, RecordIncident, NewEvent, Tick, Restart, vars
<1>3. QED
  BY <1>1, <1>2, Zenon DEF Next, Pass

\* A step that changes the state of a stored circuit judges it.
LEMMA PgStep ==
    ASSUME Inv, [Next]_vars, ~missed', NEW c \in Connectors
    PROVE  \/ pg'[c].state = pg[c].state
           \/ pg'[c] = Judge(pg[c], snapshot, c)
<1>1. CASE Fetch
  <2>1. pg[c] \in Circuits /\ Dated(pg[c]) /\ elapsed \in 0..Cooldown
    BY StoresOK DEF TypeOK
  <2>2. pg'[c] = Older(pg[c])
    BY <1>1 DEF Fetch
  <2>3. QED
    BY <2>1, <2>2, OlderType
<1>2. ASSUME NEW d \in Connectors, Process(d)
      PROVE  pg'[c].state = pg[c].state \/ pg'[c] = Judge(pg[c], snapshot, c)
  <2>1. pg' = [pg EXCEPT ![d] = Judge(pg[d], snapshot, d)]
    BY <1>2, ProcessPg
  <2>2. pg \in [Connectors -> Circuits]
    BY DEF Inv, TypeOK
  <2>3. QED
    BY <2>1, <2>2
<1>3. CASE RecordIncident \/ NewEvent \/ Tick \/ Restart \/ UNCHANGED vars
  <2>1. pg' = pg
    BY <1>3 DEF RecordIncident, NewEvent, Tick, Restart, vars, storeVars
  <2>2. QED
    BY <2>1
<1>4. QED
  BY <1>1, <1>2, <1>3 DEF Next, Pass

-----------------------------------------------------------------------------
(* What a pass has looked at.                                              *)

\* A set of natural numbers that is not empty has a least one.
LEMMA LeastExists ==
    ASSUME NEW S \in SUBSET Nat, S # {}
    PROVE  \E i \in S : \A j \in S : i <= j
<1>1. PICK i \in S : \A j \in S : <<j, i>> \notin OpToRel(<, Nat)
  BY NatLessThanWellFounded, WFMin
<1>2. ASSUME NEW j \in S PROVE i <= j
  <2>1. \A ss \in Nat \X Nat : ss[1] < ss[2] => ss \in OpToRel(<, Nat)
    BY Zenon DEF OpToRel
  <2>2. <<j, i>> \in Nat \X Nat
    OBVIOUS
  <2>3. ~(<<j, i>>[1] < <<j, i>>[2])
    BY <1>1, <2>1, <2>2
  <2>4. QED
    BY <2>3
<1>3. QED
  BY <1>2

\* Positions have a first one, so Newest finds the newest event.
LEMMA NewestExists ==
    ASSUME NEW trail \in Seq(Events), NEW c, About(trail, c) # {}
    PROVE  /\ Newest(trail, c) \in About(trail, c)
           /\ \A j \in About(trail, c) : Newest(trail, c) <= j
<1>1. About(trail, c) \subseteq Nat
  BY DEF About
<1>2. PICK i \in About(trail, c) : \A j \in About(trail, c) : i <= j
  BY <1>1, LeastExists
<1>3. QED
  BY <1>2 DEF Newest

\* A connector whose newest event is a success, or that has none, has no streak.
LEMMA NoStreak ==
    ASSUME NEW trail \in Seq(Events), NEW c, About(trail, c) = {} \/ NewestOk(trail, c)
    PROVE  ~Failing(trail, c)
<1>1. Failures(trail, c) = {}
  <2>1. CASE About(trail, c) = {}
    BY <2>1 DEF Failures
  <2>2. CASE About(trail, c) # {}
    BY <2>2, NewestExists DEF Failures, NewestOk
  <2>3. QED
    BY <2>1, <2>2
<1>2. Streak(trail, c) = 0
  BY <1>1, FS_EmptySet DEF Streak
<1>3. QED
  BY <1>2, BreakerAssumption DEF Failing

\* A pass never leaves the circuit of a failing connector closed.
LEMMA JudgeFailing ==
    ASSUME NEW circuit \in Circuits, NEW trail \in Seq(Events), NEW c, Failing(trail, c)
    PROVE  Judge(circuit, trail, c).state # "closed"
<1>1. CASE circuit.state = "closed"
  BY <1>1 DEF Judge, Opened
<1>2. CASE circuit.state = "open"
  <2>1. Judge(circuit, trail, c) \in {circuit, [circuit EXCEPT !.state = "half_open"]}
    BY <1>2 DEF Judge
  <2>2. QED
    BY <1>2, <2>1 DEF Circuits
<1>3. CASE circuit.state = "half_open"
  <2>1. Judge(circuit, trail, c) = Trial(circuit, trail, c)
    BY <1>3 DEF Judge
  <2>2. ~NewestOk(trail, c)
    BY NoStreak
  <2>3. QED
    BY <2>1, <2>2 DEF Trial, Opened
<1>4. QED
  BY <1>1, <1>2, <1>3 DEF Circuits, States

\* Whatever a pass has behind it is judged by the trail it works on; what
\* happens outside the pass meanwhile does not change that trail.
PassedJudged ==
    ~missed => \A c \in Connectors \ todo : Failing(snapshot, c) => pg[c].state # "closed"

LEMMA NothingFails == \A c : ~Failing(<<>>, c)
<1> SUFFICES ASSUME NEW c PROVE ~Failing(<<>>, c)
  OBVIOUS
<1>1. About(<<>>, c) = {} /\ <<>> \in Seq(Events)
  BY DEF About
<1>2. QED
  BY <1>1, NoStreak

LEMMA PassedInit == Init => PassedJudged
BY NothingFails DEF Init, PassedJudged

LEMMA PassedStep == Inv /\ PassedJudged /\ [Next]_vars => PassedJudged'
<1> SUFFICES ASSUME Inv, PassedJudged, [Next]_vars, ~missed',
                    NEW c \in Connectors \ todo', Failing(snapshot', c)
             PROVE  pg'[c].state # "closed"
  BY DEF PassedJudged
<1>1. ~missed /\ pg \in [Connectors -> Circuits]
  BY MissedStays DEF Inv, TypeOK
<1>2. CASE Fetch
  <2>1. About(history, c) = {} /\ snapshot' = history /\ history \in Seq(Events)
    BY <1>2 DEF Fetch, Inv, TypeOK
  <2>2. QED
    BY <2>1, NoStreak
<1>3. ASSUME NEW d \in Connectors, Process(d) PROVE pg'[c].state # "closed"
  <2>1. /\ pg' = [pg EXCEPT ![d] = Judge(pg[d], snapshot, d)]
        /\ snapshot' = snapshot /\ todo' = todo \ {d}
    BY <1>3, ProcessPg DEF Process
  <2>2. CASE c = d
    <3>1. Judge(pg[d], snapshot, d).state # "closed"
      BY <1>1, <2>1, <2>2, JudgeFailing DEF Inv, TypeOK
    <3>2. QED
      BY <1>1, <2>1, <2>2, <3>1
  <2>3. CASE c # d
    BY <1>1, <2>1, <2>3 DEF PassedJudged
  <2>4. QED
    BY <2>2, <2>3
<1>4. CASE Restart \/ (RecordIncident /\ CutShort)
  BY <1>4, NothingFails DEF Restart, CutShort
<1>5. CASE RecordIncident /\ ~CutShort
  BY <1>1, <1>5 DEF RecordIncident, storeVars, PassedJudged
<1>6. CASE NewEvent \/ Tick \/ UNCHANGED vars
  BY <1>1, <1>6 DEF NewEvent, Tick, vars, passVars, storeVars, PassedJudged
<1>7. QED
  BY <1>2, <1>3, <1>4, <1>5, <1>6 DEF Next, Pass

-----------------------------------------------------------------------------
(* The theorems.                                                           *)

\* Every variable of the breaker keeps its type, for all fault combinations.
THEOREM BreakerTypeCorrect == Spec => []TypeOK
<1>1. Inv => TypeOK
  BY DEF Inv
<1>2. QED
  BY <1>1, AlwaysInv, PTL

\* In both stores a circuit has its opened_at exactly while it is not closed,
\* so line 203 can always retry it: however loads and saves miss Postgres.
THEOREM NotWedged == Spec => []NeverWedged
<1>1. Inv => NeverWedged
  BY DEF Inv
<1>2. QED
  BY <1>1, AlwaysInv, PTL

\* Until a load or save has missed Postgres, an open circuit is held for the
\* whole cooldown and left for half_open only, through restarts of the Brain
\* and unfinished passes.
THEOREM CooldownHeld == Spec => OpenHoldsCooldown
<1>1. Inv /\ [Next]_vars => [OpenHolds]_vars
  <2> SUFFICES ASSUME Inv, [Next]_vars, ~missed', NEW c \in Connectors,
                      pg[c].state = "open", pg'[c].state # "open"
               PROVE  pg'[c].state = "half_open" /\ TrueAge(c) >= Cooldown
    BY DEF OpenHolds
  <2>1. pg[c] \in Circuits /\ elapsed \in 0..Cooldown
    BY DEF Inv, TypeOK
  <2>2. pg'[c] = Judge(pg[c], snapshot, c)
    BY PgStep
  <2>3. pg'[c].state = "half_open" /\ pg[c].age = Cooldown
    BY <2>1, <2>2, JudgeOpen
  <2>4. QED
    BY <2>1, <2>3, BreakerAssumption DEF TrueAge
<1>2. QED
  BY <1>1, AlwaysInv, PTL DEF Spec, OpenHoldsCooldown

\* Until the Brain is restarted or misses Postgres, the newest incident of
\* every connector names the state of its circuit.
THEOREM IncidentsTell == Spec => []IncidentsTellState
<1>1. Init => IncidentsTellState
  BY BreakerAssumption DEF Init, IncidentsTellState, Fresh, NoIncident
<1>2. Inv /\ IncidentsTellState /\ [Next]_vars => IncidentsTellState'
  <2> SUFFICES ASSUME Inv, [Next]_vars, IncidentsTellState,
                      ~missed', restarts' = 0, NEW c \in Connectors
               PROVE  pg'[c].state = IF pending'.connector = c THEN pending'.state ELSE recorded'[c]
    BY DEF IncidentsTellState
  <2>0. ~Restart /\ restarts = 0
    <3>1. restarts \in Nat
      BY BreakerBounds DEF Inv, TypeOK
    <3>2. ~Restart
      BY <3>1 DEF Restart
    <3>3. QED
      BY <3>2 DEF Next, Pass, Fetch, Process, RecordIncident, NewEvent, Tick, vars
  <2>1. pg[c].state = IF pending.connector = c THEN pending.state ELSE recorded[c]
    BY <2>0, MissedStays, Zenon DEF IncidentsTellState
  <2>2. CASE Fetch
    <3>1. pg[c] \in Circuits /\ Dated(pg[c]) /\ elapsed \in 0..Cooldown
      BY StoresOK DEF TypeOK
    <3>2. pg'[c] = Older(pg[c])
      BY <2>2 DEF Fetch
    <3>3. pg'[c].state = pg[c].state
      BY <3>1, <3>2, OlderType
    <3>4. QED
      BY <2>1, <2>2, <3>3 DEF Fetch, toldVars
  <2>3. CASE RecordIncident
    <3>1. pg' = pg /\ pending' = NoIncident
          /\ recorded' = [recorded EXCEPT ![pending.connector] = pending.state]
      BY <2>3 DEF RecordIncident, storeVars
    <3>2. NoIncident.connector # c
      BY BreakerAssumption DEF NoIncident
    <3>3. recorded \in [Connectors -> States]
      BY DEF Inv, TypeOK
    <3>4. QED
      BY <2>1, <3>1, <3>2, <3>3
  <2>4. CASE NewEvent \/ Tick \/ UNCHANGED vars
    <3>1. pg' = pg /\ pending' = pending /\ recorded' = recorded
      BY <2>4 DEF NewEvent, Tick, vars, passVars, storeVars, toldVars
    <3>2. QED
      BY <2>1, <3>1
  <2>5. ASSUME NEW d \in Connectors, Process(d)
        PROVE  pg'[c].state = IF pending'.connector = c THEN pending'.state ELSE recorded'[c]
    <3>1. pending = NoIncident /\ recorded' = recorded
      BY <2>5 DEF Process, toldVars
    <3>2. NoIncident.connector # c /\ NoIncident.connector # d
      BY BreakerAssumption DEF NoIncident
    <3>3. pg \in [Connectors -> Circuits]
      BY DEF Inv, TypeOK
    <3> DEFINE new == Judge(pg[d], snapshot, d)
    <3>4. /\ pg' = [pg EXCEPT ![d] = new]
          /\ pending' = IF new.state # pg[d].state THEN [connector |-> d, state |-> new.state] ELSE pending
      BY <2>5, ProcessPg
    <3> HIDE DEF new
    <3>5. QED
      BY <2>1, <3>1, <3>2, <3>3, <3>4
  <2>6. QED
    BY <2>2, <2>3, <2>4, <2>5, <2>0 DEF Next, Pass
<1>3. QED
  BY <1>1, <1>2, AlwaysInv, PTL DEF Spec

\* Until a load or save misses Postgres, a pass that got through the trail it
\* read leaves no connector with a full streak of failures closed: whatever
\* passes cut short, restarts and events in between did to its circuit.
THEOREM StreakOpens == Spec => []StreakNotClosed
<1>1. PassedJudged => StreakNotClosed
  BY DEF PassedJudged, StreakNotClosed
<1>2. Inv /\ PassedJudged /\ [Next]_vars => PassedJudged'
  BY PassedStep
<1>3. QED
  BY <1>1, <1>2, PassedInit, AlwaysInv, PTL DEF Spec
=============================================================================
