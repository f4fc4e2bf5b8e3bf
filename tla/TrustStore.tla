------------------------------ MODULE TrustStore ------------------------------
(***************************************************************************)
(* The scores of services/trust/app/main.py.                               *)
(*                                                                         *)
(* A score is a row of trust_scores, made on first use, or an entry of the *)
(* process's own dictionary whenever Postgres cannot be reached or a query *)
(* raises.  Handlers run in threads.  In Postgres a row is locked from the *)
(* read of an adjustment to its commit, but a row that does not exist yet  *)
(* cannot be locked: of two first uses at once one violates the primary    *)
(* key and goes to the dictionary, Postgres being up.  The dictionary has  *)
(* no lock at all.                                                         *)
(***************************************************************************)
EXTENDS Integers

CONSTANTS
    Entities,
    Components,
    TrustCallers,  \* the requests that may be under way
    MaxComponent,  \* 100
    DefaultScore,  \* _DEFAULT
    Deltas,        \* what a caller may adjust a component by
    TrustFaults    \* a subset of {"outage"}

ASSUME TrustAssumption ==
    /\ MaxComponent \in Nat /\ DefaultScore \in 0..MaxComponent
    /\ Entities # {} /\ Components # {} /\ Deltas # {} /\ Deltas \subseteq Int

VARIABLES
    trustRows,   \* the committed rows, the default for one that is not there
    trustKnown,  \* the entities that have a row
    spareRows,   \* _FALLBACK, the default for an entry that is not there
    spareKnown,  \* the entities that have an entry
    job,         \* what each request is doing
    due          \* auxiliary: what the committed adjustments add up to

trustVars == <<trustRows, trustKnown, spareRows, spareKnown, job, due>>
trustStores == <<trustRows, trustKnown, spareRows, spareKnown, due>>

TrustRows == [Components -> 0..MaxComponent]
DefaultRow == [c \in Components |-> DefaultScore]
JobStages == {"idle", "select", "insert", "locked", "away", "absent", "present", "computed", "answered"}
Jobs == [stage : JobStages, op : {"get", "adjust"}, entity : Entities,
         component : Components, delta : Deltas, read : TrustRows]

Idle == [stage |-> "idle", op |-> "get", entity |-> CHOOSE e \in Entities : TRUE,
         component |-> CHOOSE c \in Components : TRUE, delta |-> CHOOSE d \in Deltas : TRUE,
         read |-> DefaultRow]

TrustInit ==
    /\ trustRows = [e \in Entities |-> DefaultRow] /\ trustKnown = {}
    /\ spareRows = [e \in Entities |-> DefaultRow] /\ spareKnown = {}
    /\ job = [k \in TrustCallers |-> Idle]
    /\ due = trustRows

-----------------------------------------------------------------------------
\* Mutant of Clamp: capped above only.
ClampAbove(n) == IF n > MaxComponent THEN MaxComponent ELSE n

Clamp(n) == IF n < 0 THEN 0 ELSE IF n > MaxComponent THEN MaxComponent ELSE n

Adjusted(row, j) == [row EXCEPT ![j.component] = Clamp(@ + j.delta)]

To(k, stage) == job' = [job EXCEPT ![k].stage = stage]
Reads(k, stage, row) == job' = [job EXCEPT ![k] = [@ EXCEPT !.stage = stage, !.read = row]]

\* The row lock or the uncommitted insert of another request.
Held(k) == \E m \in TrustCallers \ {k} :
    job[m].stage = "locked" /\ job[m].entity = job[k].entity

TrustAsked(k, op, e, c, d) ==
    /\ job[k].stage = "idle"
    /\ job' = [job EXCEPT ![k] = [stage |-> "select", op |-> op, entity |-> e, component |-> c,
                                  delta |-> d, read |-> DefaultRow]]
    /\ UNCHANGED trustStores

Missing(k) == job[k].stage = "select" /\ job[k].entity \notin trustKnown

\* The SELECT of get_trust finds the row.
Got(k) ==
    /\ job[k].stage = "select" /\ job[k].op = "get" /\ ~Missing(k)
    /\ Reads(k, "answered", trustRows[job[k].entity])
    /\ UNCHANGED trustStores

\* Mutant of Lock: without FOR UPDATE.
LockFree(k) ==
    /\ job[k].stage = "select" /\ job[k].op = "adjust" /\ ~Missing(k)
    /\ Reads(k, "locked", trustRows[job[k].entity])
    /\ UNCHANGED trustStores

\* SELECT ... FOR UPDATE waits for whoever holds the row.
Lock(k) ==
    /\ job[k].stage = "select" /\ job[k].op = "adjust" /\ ~Missing(k)
    /\ ~Held(k)
    /\ Reads(k, "locked", trustRows[job[k].entity])
    /\ UNCHANGED trustStores

\* No row: the default is inserted; the insert waits for one of the same key,
\* and raises when that is committed.
Insert(k) ==
    /\ \/ Missing(k) /\ To(k, "insert")
       \/ /\ job[k].stage = "insert" /\ ~Held(k)
          /\ IF job[k].entity \in trustKnown THEN To(k, "away") ELSE Reads(k, "locked", DefaultRow)
    /\ UNCHANGED trustStores

\* What the transaction of k leaves behind.
Writes(k) ==
    LET j == job[k] IN
    /\ trustKnown' = trustKnown \cup {j.entity}
    /\ IF j.op = "adjust"
       THEN /\ trustRows' = [trustRows EXCEPT ![j.entity] =
                                 [@ EXCEPT ![j.component] = Adjusted(j.read, j)[j.component]]]
            /\ due' = [due EXCEPT ![j.entity] = Adjusted(@, j)]
       ELSE UNCHANGED <<trustRows, due>>

Commit(k) ==
    /\ job[k].stage = "locked"
    /\ Writes(k)
    /\ Reads(k, "answered", IF job[k].op = "adjust" THEN Adjusted(job[k].read, job[k]) ELSE job[k].read)
    /\ UNCHANGED <<spareRows, spareKnown>>

\* No connection, or the transaction raises: rolled back, or committed with
\* the answer lost.
PostgresFails(k) ==
    /\ "outage" \in TrustFaults
    /\ job[k].stage \in {"select", "insert", "locked"}
    /\ To(k, "away")
    /\ \/ UNCHANGED trustStores
       \/ job[k].stage = "locked" /\ Writes(k) /\ UNCHANGED <<spareRows, spareKnown>>

\* The dictionary: looked at, filled, read and written one after the other.
SpareLook(k) ==
    /\ job[k].stage = "away"
    /\ To(k, IF job[k].entity \in spareKnown THEN "present" ELSE "absent")
    /\ UNCHANGED trustStores

SpareCreate(k) ==
    /\ job[k].stage = "absent"
    /\ To(k, "present")
    /\ spareKnown' = spareKnown \cup {job[k].entity}
    /\ spareRows' = [spareRows EXCEPT ![job[k].entity] = DefaultRow]
    /\ UNCHANGED <<trustRows, trustKnown, due>>

SpareRead(k) ==
    /\ job[k].stage = "present"
    /\ Reads(k, IF job[k].op = "get" THEN "answered" ELSE "computed", spareRows[job[k].entity])
    /\ UNCHANGED trustStores

SpareWrite(k) ==
    /\ job[k].stage = "computed"
    /\ LET j == job[k]
           row == [spareRows[j.entity] EXCEPT ![j.component] = Clamp(j.read[j.component] + j.delta)]
       IN spareRows' = [spareRows EXCEPT ![j.entity] = row] /\ Reads(k, "answered", row)
    /\ UNCHANGED <<trustRows, trustKnown, spareKnown, due>>

TrustStep(k) ==
    \/ Got(k) \/ Lock(k) \/ Insert(k) \/ Commit(k) \/ PostgresFails(k)
    \/ SpareLook(k) \/ SpareCreate(k) \/ SpareRead(k) \/ SpareWrite(k)

TrustReturns(k) == job[k].stage = "answered" /\ job' = [job EXCEPT ![k] = Idle] /\ UNCHANGED trustStores

TrustRestart ==
    /\ "outage" \in TrustFaults
    /\ spareRows' = [e \in Entities |-> DefaultRow] /\ spareKnown' = {}
    /\ job' = [k \in TrustCallers |-> Idle]
    /\ UNCHANGED <<trustRows, trustKnown, due>>

TrustNext ==
    \/ \E k \in TrustCallers :
        \/ \E op \in {"get", "adjust"}, e \in Entities, c \in Components, d \in Deltas :
            TrustAsked(k, op, e, c, d)
        \/ TrustStep(k) \/ TrustReturns(k)
    \/ TrustRestart

TrustSpec == TrustInit /\ [][TrustNext]_trustVars

-----------------------------------------------------------------------------
\* Both stores hold scores of the scale, whatever is added up.
TrustTypeOK ==
    /\ trustRows \in [Entities -> TrustRows] /\ spareRows \in [Entities -> TrustRows]
    /\ trustKnown \subseteq Entities /\ spareKnown \subseteq Entities
    /\ job \in [TrustCallers -> Jobs]
    /\ due \in [Entities -> TrustRows]

\* No adjustment that Postgres committed is lost: the rows are what these add
\* up to, although adjustments overlap, first uses race for the same key,
\* transactions raise and commits lose their answer.
NoLostUpdate == trustRows = due
=============================================================================
