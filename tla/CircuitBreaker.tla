--------------------------- MODULE CircuitBreaker ---------------------------
(***************************************************************************)
(* The circuit breakers of the Brain (services/brain/app/main.py).         *)
(*                                                                         *)
(* Every pass of the monitor thread reads the newest events of the audit   *)
(* trail and moves the circuit of each connector it finds there.  Circuits *)
(* are kept in Postgres, or in process memory whenever Postgres cannot be  *)
(* reached; each single load and save makes that choice anew.  A pass is   *)
(* not atomic: events arrive, time passes and the service may die between  *)
(* the fetch, the save of a circuit and the incident that reports it.      *)
(*                                                                         *)
(* Reliability scores and stored failure counts are left out: nothing      *)
(* reads them back to decide anything.                                     *)
(***************************************************************************)
EXTENDS Integers, Sequences, FiniteSets

CONSTANTS
    Connectors,
    Threshold,   \* CIRCUIT_FAILURE_THRESHOLD
    Cooldown,    \* CIRCUIT_COOLDOWN_SECONDS, in ticks
    Window,      \* the limit the Brain puts on GET /audit
    FaultKinds,  \* what may go wrong, a subset of AllFaults
    MaxEvents,   \* bound: events appended to the audit trail
    MaxRestarts  \* bound: restarts of the Brain

AllFaults == {"outage", "broker", "restart"}
Other == "other"   \* an audit event that is not about a connector

ASSUME BreakerAssumption ==
    /\ Threshold \in Nat \ {0} /\ Cooldown \in Nat /\ Window \in Nat \ {0}
    /\ Other \notin Connectors
ASSUME BreakerBounds == MaxEvents \in Nat /\ MaxRestarts \in Nat
ASSUME BreakerFaults == FaultKinds \subseteq AllFaults

VARIABLES
    \* Governance
    history,    \* what GET /audit answers: the newest Window events, newest first
    events,     \* events appended so far
    \* the pass of the monitor thread
    snapshot,   \* the answer this pass works on
    todo,       \* the connectors it has still to process
    pending,    \* a saved transition whose incident is not recorded yet
    \* the circuits
    pg,         \* brain.circuit_state
    mem,        \* _circuit_fallback, only the connectors it has an entry for
    \* what the outside is told
    recorded,   \* the state the newest incident row of a connector names, be it in
                \* brain.incidents or in _incidents_fallback
    published,  \* the state the newest published brain.* event names
    \* the clock
    elapsed,    \* ticks since the "now" of the latest pass
    restarts,
    \* auxiliary
    missed      \* whether a load or save has missed Postgres so far

auditVars == <<history, events>>
passVars  == <<snapshot, todo, pending>>
storeVars == <<pg, mem>>
toldVars  == <<recorded, published>>
vars == <<auditVars, passVars, storeVars, toldVars, elapsed, restarts, missed>>

States == {"closed", "open", "half_open"}
Events == [connector : Connectors \cup {Other}, ok : BOOLEAN]

\* The age of a circuit is the "now" of the latest pass minus opened_at, as
\* far as Cooldown; -1 stands for no opened_at.
Circuits == [state : States, age : -1..Cooldown]
Fresh == [state |-> "closed", age |-> -1]
NoIncident == [connector |-> Other, state |-> "closed"]

Init ==
    /\ history = <<>> /\ events = 0
    /\ snapshot = <<>> /\ todo = {} /\ pending = NoIncident
    /\ pg = [c \in Connectors |-> Fresh]
    /\ mem = <<>>
    /\ recorded = [c \in Connectors |-> "closed"]
    /\ published = [c \in Connectors |-> "closed"]
    /\ elapsed = 0
    /\ restarts = 0
    /\ missed = FALSE

-----------------------------------------------------------------------------
(* What a pass derives from the audit trail.                               *)

About(trail, c) == {i \in DOMAIN trail : trail[i].connector = c}

\* The position of the newest event of c.
Newest(trail, c) == CHOOSE i \in About(trail, c) : \A j \in About(trail, c) : i <= j

NewestOk(trail, c) == About(trail, c) # {} /\ trail[Newest(trail, c)].ok

\* The failures of c that are newer than its newest success.
Failures(trail, c) ==
    {i \in About(trail, c) : \A j \in About(trail, c) : j <= i => ~trail[j].ok}

Streak(trail, c) == Cardinality(Failures(trail, c))

Failing(trail, c) == Streak(trail, c) >= Threshold

\* Mutant of CooledDown: a tick too early.
CooledEarly(circuit) == circuit.age + 1 >= Cooldown

CooledDown(circuit) == circuit.age = Cooldown

Opened == [state |-> "open", age |-> 0]

\* Mutant of Closed: opened_at is kept.
ClosedDated(circuit) == [circuit EXCEPT !.state = "closed"]

Closed(circuit) == Fresh

\* Mutants of Trial: the outcome is not looked at; the oldest event is taken.
TrialTrusting(circuit, trail, c) == Closed(circuit)
TrialOldest(circuit, trail, c) ==
    IF \E i \in About(trail, c) : trail[i].ok /\ \A j \in About(trail, c) : j <= i
    THEN Closed(circuit) ELSE Opened

\* The newest event of c is taken to be the trial.
Trial(circuit, trail, c) == IF NewestOk(trail, c) THEN Closed(circuit) ELSE Opened

\* The circuit a pass computes from the stored one.
Judge(circuit, trail, c) ==
    CASE circuit.state = "closed" /\ Failing(trail, c) -> Opened
      [] circuit.state = "open" /\ CooledDown(circuit) -> [circuit EXCEPT !.state = "half_open"]
      [] circuit.state = "half_open" -> Trial(circuit, trail, c)
      [] OTHER -> circuit

-----------------------------------------------------------------------------
(* The two stores.                                                         *)

\* Postgres as long as it answers; _get_conn or the query may fail any time.
Reachable == IF "outage" \in FaultKinds THEN {"pg", "mem"} ELSE {"pg"}

\* A save whose commit succeeds but whose answer is lost goes to both.
Writable == IF "outage" \in FaultKinds THEN {"pg", "mem", "both"} ELSE {"pg"}

Stored(store, c) ==
    CASE store = "pg" -> pg[c]
      [] store = "mem" -> IF c \in DOMAIN mem THEN mem[c] ELSE Fresh

Entry(c, circuit) == [d \in DOMAIN mem \cup {c} |-> IF d = c THEN circuit ELSE mem[d]]

\* An entry of the fallback is a dict that the pass changes in place, so it
\* changes even when the result is then saved to Postgres.
Save(from, to, c, circuit) ==
    /\ pg' = IF to # "mem" THEN [pg EXCEPT ![c] = circuit] ELSE pg
    /\ mem' = IF to # "pg" \/ (from = "mem" /\ c \in DOMAIN mem) THEN Entry(c, circuit) ELSE mem

\* Mutant of Older: "now" was taken at start-up.
OlderNever(circuit) == circuit

\* "now" moves on to the pass that begins.  Every age from Cooldown on is
\* counted as Cooldown: no comparison tells them apart.
Older(circuit) ==
    LET age == circuit.age + elapsed IN
    IF circuit.age = -1 THEN circuit
    ELSE [circuit EXCEPT !.age = IF age < Cooldown THEN age ELSE Cooldown]

-----------------------------------------------------------------------------
(* The pass.                                                               *)

\* Mutant of Fetch: events that name no connector are not skipped.
FetchUnfiltered ==
    /\ todo = {} /\ pending = NoIncident
    /\ snapshot' = history
    /\ todo' = {history[i].connector : i \in DOMAIN history}
    /\ pg' = [c \in Connectors |-> Older(pg[c])]
    /\ mem' = [c \in DOMAIN mem |-> Older(mem[c])]
    /\ elapsed' = 0
    /\ UNCHANGED <<auditVars, pending, toldVars, restarts, missed>>

\* The audit trail is read, and "now" with it.
Fetch ==
    /\ todo = {} /\ pending = NoIncident
    /\ snapshot' = history
    /\ todo' = {c \in Connectors : About(history, c) # {}}
    /\ pg' = [c \in Connectors |-> Older(pg[c])]
    /\ mem' = [c \in DOMAIN mem |-> Older(mem[c])]
    /\ elapsed' = 0
    /\ UNCHANGED <<auditVars, pending, toldVars, restarts, missed>>

\* Connectors come in the order in which they appear in the trail.
Turn(c) ==
    /\ c \in todo
    /\ \A d \in todo : Newest(snapshot, c) <= Newest(snapshot, d)

Process(c) ==
    /\ pending = NoIncident
    /\ Turn(c)
    /\ \E from \in Reachable, to \in Writable :
        LET old == Stored(from, c)
            new == Judge(old, snapshot, c)
        IN /\ Save(from, to, c, new)
           /\ missed' = (missed \/ "mem" \in {from, to})
           /\ IF new.state # old.state
              THEN pending' = [connector |-> c, state |-> new.state]
              ELSE UNCHANGED pending
    /\ todo' = todo \ {c}
    /\ UNCHANGED <<auditVars, snapshot, toldVars, elapsed, restarts>>

\* An exception ends the pass; what it had read is gone with it.
CutShort == todo' = {} /\ snapshot' = <<>>

\* Mutant of RecordIncident: the event is sent before the row is written.
SendFirst ==
    /\ pending # NoIncident
    /\ pending' = NoIncident
    /\ \/ /\ recorded' = [recorded EXCEPT ![pending.connector] = pending.state]
          /\ published' = [published EXCEPT ![pending.connector] = pending.state]
          /\ UNCHANGED <<todo, snapshot>>
       \/ "broker" \in FaultKinds /\ UNCHANGED toldVars /\ CutShort
    /\ UNCHANGED <<auditVars, storeVars, elapsed, restarts, missed>>

\* _record_incident: a row in Postgres or in memory, then the Kafka event.
\* Which store got the row is left out: the pass never reads it back (GET
\* /brain/incidents shows the rows of one of the two).
\* Without a producer nothing is sent; a send that raises ends the pass.
RecordIncident ==
    /\ pending # NoIncident
    /\ recorded' = [recorded EXCEPT ![pending.connector] = pending.state]
    /\ pending' = NoIncident
    /\ \/ /\ published' = [published EXCEPT ![pending.connector] = pending.state]
          /\ UNCHANGED <<todo, snapshot>>
       \/ /\ "broker" \in FaultKinds
          /\ CutShort \/ UNCHANGED <<todo, snapshot>>
          /\ UNCHANGED published
    /\ UNCHANGED <<auditVars, storeVars, elapsed, restarts, missed>>

Pass == Fetch \/ (\E c \in Connectors : Process(c)) \/ RecordIncident

-----------------------------------------------------------------------------
(* Around the pass.                                                        *)

\* Governance records one more event.
WithNewest(e) ==
    LET kept == IF Len(history) < Window THEN Len(history) ELSE Window - 1
    IN <<e>> \o SubSeq(history, 1, kept)

NewEvent ==
    /\ events < MaxEvents
    /\ \E e \in Events :
        /\ e.connector = Other => e.ok
        /\ history' = WithNewest(e)
    /\ events' = events + 1
    /\ UNCHANGED <<passVars, storeVars, toldVars, elapsed, restarts, missed>>

Tick ==
    /\ elapsed < Cooldown
    /\ elapsed' = elapsed + 1
    /\ UNCHANGED <<auditVars, passVars, storeVars, toldVars, restarts, missed>>

\* The Brain is started again: Postgres is all that is left.
Restart ==
    /\ "restart" \in FaultKinds
    /\ restarts < MaxRestarts
    /\ restarts' = restarts + 1
    /\ snapshot' = <<>> /\ todo' = {} /\ pending' = NoIncident
    /\ mem' = <<>>
    /\ UNCHANGED <<auditVars, pg, toldVars, elapsed, missed>>

Next == Pass \/ NewEvent \/ Tick \/ Restart

Spec == Init /\ [][Next]_vars

\* The monitor thread loops for ever, every call it makes has a timeout, and
\* time does not stand still.
FairSpec == Spec /\ WF_vars(Pass) /\ WF_vars(Tick)

-----------------------------------------------------------------------------
TypeOK ==
    /\ history \in Seq(Events) /\ Len(history) <= Window
    /\ events \in 0..MaxEvents
    /\ snapshot \in Seq(Events)
    /\ todo \subseteq Connectors
    /\ pending \in [connector : Connectors \cup {Other}, state : States]
    /\ pg \in [Connectors -> Circuits]
    /\ DOMAIN mem \subseteq Connectors /\ \A c \in DOMAIN mem : mem[c] \in Circuits
    /\ recorded \in [Connectors -> States]
    /\ published \in [Connectors -> States]
    /\ elapsed \in 0..Cooldown
    /\ restarts \in 0..MaxRestarts
    /\ missed \in BOOLEAN

\* How long a circuit has been open, whatever the pass is doing.
TrueAge(c) == pg[c].age + elapsed

\* As long as no load or save has missed Postgres, an open circuit is left
\* only for a half-open trial and only when the cooldown has really passed;
\* restarts and passes cut short do not shorten it.  (Comment of line 51.)
OpenHolds ==
    ~missed' =>
        \A c \in Connectors :
            pg[c].state = "open" /\ pg'[c].state # "open" =>
                pg'[c].state = "half_open" /\ TrueAge(c) >= Cooldown
OpenHoldsCooldown == [][OpenHolds]_vars

\* A pass that got through the whole trail leaves no failing connector closed,
\* whatever earlier passes, cut short or overtaken by events, did to it.
StreakNotClosed ==
    ~missed /\ todo = {} /\ pending = NoIncident /\ snapshot = history =>
        \A c \in Connectors : Failing(history, c) => pg[c].state # "closed"

\* As long as the Brain was not restarted and the circuits not read from or
\* saved to memory, the newest incident row of a connector, whichever store
\* holds it, tells the stored state of its circuit, even when passes are cut
\* short by a broker that is away.
IncidentsTellState ==
    ~missed /\ restarts = 0 =>
        \A c \in Connectors :
            pg[c].state = IF pending.connector = c THEN pending.state ELSE recorded[c]

\* No circuit is wedged: in both stores, however they diverge, a circuit has
\* an opened_at (without which line 203 would never retry it) unless closed.
NeverWedged ==
    \A c \in Connectors :
        /\ (pg[c].age = -1) <=> (pg[c].state = "closed")
        /\ c \in DOMAIN mem => ((mem[c].age = -1) <=> (mem[c].state = "closed"))

\* An open circuit gets its trial as long as the connector stays in the
\* window; one that other traffic pushes out of it stays open.
VisibleOpenIsRetried ==
    \A c \in Connectors :
        pg[c].state = "open" ~> (pg[c].state # "open" \/ About(history, c) = {})
=============================================================================
