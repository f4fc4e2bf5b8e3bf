--------------------------- MODULE TrustStoreProofs ---------------------------
(***************************************************************************)
(* Proofs about TrustStore for any entities, callers and adjustments.      *)
(* The inductive invariant says what the lock is for: while an adjustment  *)
(* is between its read and its commit, nobody else is for that entity, and *)
(* what it read is still what the store holds.                             *)
(***************************************************************************)
EXTENDS TrustStore, TLAPS

Locked(k) == job[k].stage = "locked"

OneHolder == \A k, m \in TrustCallers :
    Locked(k) /\ Locked(m) /\ job[k].entity = job[m].entity => k = m

ReadIsCurrent == \A k \in TrustCallers : Locked(k) => job[k].read = trustRows[job[k].entity]

AbsentIsDefault == \A e \in Entities \ trustKnown : trustRows[e] = DefaultRow

TrustInv == TrustTypeOK /\ NoLostUpdate /\ OneHolder /\ ReadIsCurrent /\ AbsentIsDefault

LEMMA DefaultIsRow == DefaultRow \in TrustRows
  BY TrustAssumption DEF DefaultRow, TrustRows

LEMMA ClampInScale ==
  ASSUME NEW n \in Int
  PROVE  Clamp(n) \in 0..MaxComponent
  BY TrustAssumption DEF Clamp

\* What an adjustment writes is a row of the scale again.
LEMMA AdjustedIsRow ==
  ASSUME NEW row \in TrustRows, NEW j \in Jobs
  PROVE  Adjusted(row, j) \in TrustRows
<1>1. j.component \in Components /\ j.delta \in Int
  BY TrustAssumption DEF Jobs
<1>2. row[j.component] \in Int
  BY <1>1 DEF TrustRows
<1>3. Clamp(row[j.component] + j.delta) \in 0..MaxComponent
  BY <1>1, <1>2, ClampInScale
<1> QED
  BY <1>3 DEF Adjusted, TrustRows

\* Putting one adjusted component into the row it was read from gives the
\* adjusted row.
LEMMA OneComponent ==
  ASSUME NEW row \in TrustRows, NEW j \in Jobs
  PROVE  [row EXCEPT ![j.component] = Adjusted(row, j)[j.component]] = Adjusted(row, j)
<1>1. j.component \in Components /\ DOMAIN row = Components
  BY DEF Jobs, TrustRows
<1> QED
  BY <1>1 DEF Adjusted

LEMMA IdleIsJob == Idle \in Jobs
<1>1. /\ (CHOOSE e \in Entities : TRUE) \in Entities
      /\ (CHOOSE c \in Components : TRUE) \in Components
      /\ (CHOOSE d \in Deltas : TRUE) \in Deltas
  BY TrustAssumption
<1> QED
  BY <1>1, DefaultIsRow DEF Idle, Jobs, JobStages

-----------------------------------------------------------------------------
(***************************************************************************)
(* The three ways a request's record changes.                              *)
(***************************************************************************)
LEMMA ToKeeps ==
  ASSUME job \in [TrustCallers -> Jobs], NEW k \in TrustCallers, NEW stage \in JobStages,
         To(k, stage)
  PROVE  /\ job' \in [TrustCallers -> Jobs]
         /\ job'[k] = [job[k] EXCEPT !.stage = stage]
         /\ \A m \in TrustCallers : m # k => job'[m] = job[m]
<1>1. job' = [job EXCEPT ![k] = [@ EXCEPT !.stage = stage]]
  BY DEF To
<1>2. [job[k] EXCEPT !.stage = stage] \in Jobs
  BY DEF Jobs
<1> QED
  BY <1>1, <1>2

LEMMA ReadsKeeps ==
  ASSUME job \in [TrustCallers -> Jobs], NEW k \in TrustCallers, NEW stage \in JobStages,
         NEW row \in TrustRows, Reads(k, stage, row)
  PROVE  /\ job' \in [TrustCallers -> Jobs]
         /\ job'[k] = [[job[k] EXCEPT !.stage = stage] EXCEPT !.read = row]
         /\ \A m \in TrustCallers : m # k => job'[m] = job[m]
<1>1. job' = [job EXCEPT ![k] = [[@ EXCEPT !.stage = stage] EXCEPT !.read = row]]
  BY DEF Reads
<1>2. [[job[k] EXCEPT !.stage = stage] EXCEPT !.read = row] \in Jobs
  BY DEF Jobs
<1> QED
  BY <1>1, <1>2

\* A step that leaves the Postgres rows alone and puts one request into a
\* stage without the lock keeps the invariant.
LEMMA NoLockKeeps ==
  ASSUME TrustInv, NEW k \in TrustCallers, job' \in [TrustCallers -> Jobs],
         \A m \in TrustCallers : m # k => job'[m] = job[m],
         job'[k].stage # "locked",
         UNCHANGED <<trustRows, trustKnown, due>>,
         spareRows' \in [Entities -> TrustRows], spareKnown' \subseteq Entities
  PROVE  TrustInv'
<1>1. TrustTypeOK'
  BY DEF TrustInv, TrustTypeOK
<1>2. NoLostUpdate' /\ AbsentIsDefault'
  BY DEF TrustInv, NoLostUpdate, AbsentIsDefault
<1>3. \A m \in TrustCallers : Locked(m)' => Locked(m) /\ job'[m] = job[m]
  BY DEF Locked
<1>4. OneHolder' /\ ReadIsCurrent'
  BY <1>3 DEF TrustInv, OneHolder, ReadIsCurrent
<1> QED
  BY <1>1, <1>2, <1>4 DEF TrustInv

\* Taking the lock keeps it when nobody else holds it and what is read is
\* what the store holds.
LEMMA LockKeeps ==
  ASSUME TrustInv, NEW k \in TrustCallers, ~Held(k), UNCHANGED trustStores,
         Reads(k, "locked", trustRows[job[k].entity])
  PROVE  TrustInv'
<1>0. job \in [TrustCallers -> Jobs] /\ trustRows[job[k].entity] \in TrustRows /\ "locked" \in JobStages
  BY DEF TrustInv, TrustTypeOK, Jobs, JobStages
<1>1. /\ job' \in [TrustCallers -> Jobs]
      /\ job'[k] = [[job[k] EXCEPT !.stage = "locked"] EXCEPT !.read = trustRows[job[k].entity]]
      /\ \A m \in TrustCallers : m # k => job'[m] = job[m]
  BY <1>0, ReadsKeeps
<1>2. job'[k].entity = job[k].entity /\ job'[k].read = trustRows[job[k].entity]
  BY <1>0, <1>1 DEF Jobs
<1>3. TrustTypeOK' /\ NoLostUpdate' /\ AbsentIsDefault'
  BY <1>1 DEF TrustInv, TrustTypeOK, NoLostUpdate, AbsentIsDefault, trustStores
<1>4. ReadIsCurrent'
  <2> SUFFICES ASSUME NEW m \in TrustCallers, Locked(m)' PROVE job'[m].read = trustRows[job'[m].entity]
    BY DEF ReadIsCurrent, trustStores
  <2>1. CASE m = k
    BY <2>1, <1>2
  <2>2. CASE m # k
    BY <2>2, <1>1 DEF TrustInv, ReadIsCurrent, Locked
  <2> QED
    BY <2>1, <2>2
<1>5. OneHolder'
  <2> SUFFICES ASSUME NEW m \in TrustCallers, NEW n \in TrustCallers, Locked(m)', Locked(n)',
                      job'[m].entity = job'[n].entity
               PROVE  m = n
    BY DEF OneHolder
  <2>1. \A p \in TrustCallers : p # k => ~(Locked(p)' /\ job'[p].entity = job[k].entity)
    BY <1>1 DEF Held, Locked
  <2> QED
    BY <2>1, <1>1, <1>2 DEF TrustInv, OneHolder, Locked
<1> QED
  BY <1>3, <1>4, <1>5 DEF TrustInv

-----------------------------------------------------------------------------
\* What a transaction leaves behind: the holder's entity alone changes, by
\* what it adjusted.
LEMMA CommitKeeps ==
  ASSUME TrustInv, NEW k \in TrustCallers, Locked(k), Writes(k), job' \in [TrustCallers -> Jobs],
         \A m \in TrustCallers : m # k => job'[m] = job[m],
         job'[k].stage # "locked",
         UNCHANGED <<spareRows, spareKnown>>
  PROVE  TrustInv'
<1> DEFINE j == job[k]
           e == j.entity
<1>0. /\ j \in Jobs /\ e \in Entities /\ j.read = trustRows[e] /\ trustRows[e] \in TrustRows
      /\ trustRows \in [Entities -> TrustRows] /\ due = trustRows
  BY DEF TrustInv, TrustTypeOK, Jobs, ReadIsCurrent, NoLostUpdate
<1>1. Adjusted(trustRows[e], j) \in TrustRows
  BY <1>0, AdjustedIsRow
<1>2. /\ trustKnown' = trustKnown \cup {e}
      /\ \/ UNCHANGED <<trustRows, due>>
         \/ /\ trustRows' = [trustRows EXCEPT ![e] = Adjusted(trustRows[e], j)]
            /\ due' = [due EXCEPT ![e] = Adjusted(trustRows[e], j)]
  <2>1. CASE j.op = "adjust"
    <3>1. trustRows' = [trustRows EXCEPT ![e] =
                          [trustRows[e] EXCEPT ![j.component] = Adjusted(j.read, j)[j.component]]]
      BY <2>1 DEF Writes
    <3>2. [trustRows[e] EXCEPT ![j.component] = Adjusted(trustRows[e], j)[j.component]] = Adjusted(trustRows[e], j)
      BY <1>0, OneComponent
    <3>3. trustRows' = [trustRows EXCEPT ![e] = Adjusted(trustRows[e], j)]
      BY <3>1, <3>2, <1>0, Zenon
    <3> QED
      BY <2>1, <3>3, <1>0 DEF Writes
  <2>2. CASE j.op # "adjust"
    BY <2>2 DEF Writes
  <2> QED
    BY <2>1, <2>2
<1>3. /\ trustRows' \in [Entities -> TrustRows]
      /\ trustRows' = due'
      /\ \A x \in Entities : x # e => trustRows'[x] = trustRows[x]
  BY <1>0, <1>1, <1>2
<1>4. TrustTypeOK' /\ NoLostUpdate'
  BY <1>0, <1>2, <1>3 DEF TrustInv, TrustTypeOK, NoLostUpdate
<1>5. AbsentIsDefault'
  BY <1>2, <1>3 DEF TrustInv, AbsentIsDefault
<1>6. \A m \in TrustCallers : Locked(m)' => m # k /\ Locked(m) /\ job'[m] = job[m]
  BY DEF Locked
<1>7. \A m \in TrustCallers : Locked(m)' => job[m].entity # e
  BY <1>6 DEF TrustInv, OneHolder
<1>8. \A m \in TrustCallers : job[m].entity \in Entities
  BY DEF TrustInv, TrustTypeOK, Jobs
<1>9. OneHolder' /\ ReadIsCurrent'
  BY <1>3, <1>6, <1>7, <1>8 DEF TrustInv, OneHolder, ReadIsCurrent
<1> QED
  BY <1>4, <1>5, <1>9 DEF TrustInv

LEMMA TrustInvInit == TrustInit => TrustInv
<1> SUFFICES ASSUME TrustInit PROVE TrustInv
  OBVIOUS
<1>1. \A k \in TrustCallers : job[k].stage = "idle"
  BY DEF TrustInit, Idle
<1>2. OneHolder /\ ReadIsCurrent
  BY <1>1 DEF OneHolder, ReadIsCurrent, Locked
<1>3. TrustTypeOK
  BY DefaultIsRow, IdleIsJob DEF TrustInit, TrustTypeOK
<1> QED
  BY <1>2, <1>3 DEF TrustInit, TrustInv, NoLostUpdate, AbsentIsDefault

LEMMA TrustStepKeeps ==
  ASSUME TrustInv, NEW k \in TrustCallers, TrustStep(k)
  PROVE  TrustInv'
<1>0. /\ job \in [TrustCallers -> Jobs] /\ job[k] \in Jobs /\ job[k].entity \in Entities
      /\ job[k].read \in TrustRows /\ trustRows[job[k].entity] \in TrustRows
      /\ spareRows[job[k].entity] \in TrustRows
      /\ spareRows \in [Entities -> TrustRows] /\ spareKnown \subseteq Entities
      /\ job[k].component \in Components /\ job[k].delta \in Int
  BY TrustAssumption DEF TrustInv, TrustTypeOK, Jobs
<1>1. ASSUME NEW stage \in JobStages, stage # "locked", To(k, stage),
             UNCHANGED <<trustRows, trustKnown, due>>,
             spareRows' \in [Entities -> TrustRows], spareKnown' \subseteq Entities
      PROVE  TrustInv'
  <2>1. /\ job' \in [TrustCallers -> Jobs]
        /\ job'[k] = [job[k] EXCEPT !.stage = stage]
        /\ \A m \in TrustCallers : m # k => job'[m] = job[m]
    BY <1>0, <1>1, ToKeeps
  <2>2. job'[k].stage # "locked"
    BY <2>1, <1>0, <1>1 DEF Jobs
  <2> QED
    BY <2>1, <2>2, <1>1, NoLockKeeps
<1>2. ASSUME NEW stage \in JobStages, stage # "locked", NEW row \in TrustRows, Reads(k, stage, row),
             UNCHANGED <<trustRows, trustKnown, due>>,
             spareRows' \in [Entities -> TrustRows], spareKnown' \subseteq Entities
      PROVE  TrustInv'
  <2>1. /\ job' \in [TrustCallers -> Jobs]
        /\ job'[k] = [[job[k] EXCEPT !.stage = stage] EXCEPT !.read = row]
        /\ \A m \in TrustCallers : m # k => job'[m] = job[m]
    BY <1>0, <1>2, ReadsKeeps
  <2>2. job'[k].stage # "locked"
    BY <2>1, <1>0, <1>2 DEF Jobs
  <2> QED
    BY <2>1, <2>2, <1>2, NoLockKeeps
<1>3. CASE Got(k)
  BY <1>0, <1>2, <1>3 DEF Got, trustStores, JobStages
<1>4. CASE Lock(k)
  BY <1>4, LockKeeps DEF Lock
<1>5. CASE Insert(k)
  <2>1. CASE Missing(k) /\ To(k, "insert")
    BY <2>1, <1>5, <1>1, <1>0 DEF Insert, trustStores, JobStages
  <2>2. CASE ~Held(k) /\ job[k].entity \in trustKnown /\ To(k, "away")
    BY <2>2, <1>5, <1>1, <1>0 DEF Insert, trustStores, JobStages
  <2>3. CASE ~Held(k) /\ job[k].entity \notin trustKnown /\ Reads(k, "locked", DefaultRow)
    <3>1. trustRows[job[k].entity] = DefaultRow
      BY <2>3, <1>0 DEF TrustInv, AbsentIsDefault
    <3> QED
      BY <2>3, <3>1, <1>5, LockKeeps DEF Insert
  <2> QED
    BY <2>1, <2>2, <2>3, <1>5 DEF Insert
<1>6. CASE Commit(k)
  <2> DEFINE row == IF job[k].op = "adjust" THEN Adjusted(job[k].read, job[k]) ELSE job[k].read
  <2>1. row \in TrustRows /\ "answered" \in JobStages /\ Reads(k, "answered", row)
    BY <1>0, <1>6, AdjustedIsRow DEF Commit, JobStages
  <2> HIDE DEF row
  <2>2. /\ job' \in [TrustCallers -> Jobs]
        /\ job'[k] = [[job[k] EXCEPT !.stage = "answered"] EXCEPT !.read = row]
        /\ \A m \in TrustCallers : m # k => job'[m] = job[m]
    BY <2>1, <1>0, ReadsKeeps
  <2>3. job'[k].stage # "locked"
    BY <2>2, <1>0 DEF Jobs
  <2> QED
    BY <2>2, <2>3, <1>6, CommitKeeps DEF Commit, Locked
<1>7. CASE PostgresFails(k)
  <2>1. "away" \in JobStages /\ To(k, "away")
    BY <1>7 DEF PostgresFails, JobStages
  <2>2. CASE UNCHANGED trustStores
    BY <2>1, <2>2, <1>0, <1>1 DEF trustStores
  <2>3. CASE job[k].stage = "locked" /\ Writes(k) /\ UNCHANGED <<spareRows, spareKnown>>
    <3>1. /\ job' \in [TrustCallers -> Jobs]
          /\ job'[k] = [job[k] EXCEPT !.stage = "away"]
          /\ \A m \in TrustCallers : m # k => job'[m] = job[m]
      BY <2>1, <1>0, ToKeeps
    <3>2. job'[k].stage # "locked"
      BY <3>1, <1>0 DEF Jobs
    <3> QED
      BY <3>1, <3>2, <2>3, CommitKeeps DEF Locked
  <2> QED
    BY <2>2, <2>3, <1>7 DEF PostgresFails
<1>8. CASE SpareLook(k)
  BY <1>0, <1>1, <1>8 DEF SpareLook, trustStores, JobStages
<1>9. CASE SpareCreate(k)
  <2>1. spareRows' \in [Entities -> TrustRows] /\ spareKnown' \subseteq Entities
    BY <1>9, <1>0, DefaultIsRow DEF SpareCreate
  <2> QED
    BY <2>1, <1>1, <1>9 DEF SpareCreate, JobStages
<1>10. CASE SpareRead(k)
  BY <1>0, <1>2, <1>10 DEF SpareRead, trustStores, JobStages
<1>11. CASE SpareWrite(k)
  <2> DEFINE row == [spareRows[job[k].entity] EXCEPT
                       ![job[k].component] = Clamp(job[k].read[job[k].component] + job[k].delta)]
  <2>1. Clamp(job[k].read[job[k].component] + job[k].delta) \in 0..MaxComponent
    BY <1>0, ClampInScale DEF TrustRows
  <2>2. row \in TrustRows
    BY <2>1, <1>0 DEF TrustRows
  <2>3. spareRows' = [spareRows EXCEPT ![job[k].entity] = row] /\ Reads(k, "answered", row)
    BY <1>11 DEF SpareWrite
  <2>4. spareRows' \in [Entities -> TrustRows] /\ spareKnown' \subseteq Entities
    BY <2>2, <2>3, <1>0, <1>11 DEF SpareWrite
  <2> QED
    BY <2>2, <2>3, <2>4, <1>2, <1>11 DEF SpareWrite, JobStages
<1> QED
  BY <1>3, <1>4, <1>5, <1>6, <1>7, <1>8, <1>9, <1>10, <1>11 DEF TrustStep

LEMMA TrustInvNext == TrustInv /\ [TrustNext]_trustVars => TrustInv'
<1> SUFFICES ASSUME TrustInv, [TrustNext]_trustVars PROVE TrustInv'
  OBVIOUS
<1>0. job \in [TrustCallers -> Jobs] /\ spareRows \in [Entities -> TrustRows] /\ spareKnown \subseteq Entities
  BY DEF TrustInv, TrustTypeOK
<1>1. ASSUME NEW k \in TrustCallers, NEW op \in {"get", "adjust"}, NEW e \in Entities,
             NEW c \in Components, NEW d \in Deltas, TrustAsked(k, op, e, c, d)
      PROVE  TrustInv'
  <2>1. [stage |-> "select", op |-> op, entity |-> e, component |-> c, delta |-> d, read |-> DefaultRow] \in Jobs
    BY DefaultIsRow DEF Jobs, JobStages
  <2>2. /\ job' \in [TrustCallers -> Jobs] /\ job'[k].stage = "select"
        /\ \A m \in TrustCallers : m # k => job'[m] = job[m]
    BY <1>0, <1>1, <2>1 DEF TrustAsked
  <2> QED
    BY <2>2, <1>0, <1>1, NoLockKeeps DEF TrustAsked, trustStores
<1>2. ASSUME NEW k \in TrustCallers, TrustReturns(k) PROVE TrustInv'
  <2>1. /\ job' \in [TrustCallers -> Jobs] /\ job'[k].stage = "idle"
        /\ \A m \in TrustCallers : m # k => job'[m] = job[m]
    <3>1. Idle \in Jobs /\ Idle.stage = "idle" /\ job' = [job EXCEPT ![k] = Idle]
      BY <1>2, IdleIsJob DEF TrustReturns, Idle
    <3> QED
      BY <3>1, <1>0
  <2> QED
    BY <2>1, <1>0, <1>2, NoLockKeeps DEF TrustReturns, trustStores
<1>3. CASE TrustRestart
  <2>1. Idle \in Jobs /\ Idle.stage = "idle" /\ job' = [k \in TrustCallers |-> Idle]
    BY <1>3, IdleIsJob DEF TrustRestart, Idle
  <2>2. \A k \in TrustCallers : ~Locked(k)'
    BY <2>1 DEF Locked
  <2>3. OneHolder' /\ ReadIsCurrent'
    BY <2>2 DEF OneHolder, ReadIsCurrent
  <2> QED
    BY <2>1, <2>3, <1>3, DefaultIsRow
    DEF TrustRestart, TrustInv, TrustTypeOK, NoLostUpdate, AbsentIsDefault
<1>4. CASE UNCHANGED trustVars
  BY <1>4 DEF trustVars, TrustInv, TrustTypeOK, NoLostUpdate, OneHolder, ReadIsCurrent, AbsentIsDefault, Locked
<1> QED
  BY <1>1, <1>2, <1>3, <1>4, TrustStepKeeps DEF TrustNext

THEOREM TrustInvariant == TrustSpec => []TrustInv
  BY TrustInvInit, TrustInvNext, PTL DEF TrustSpec

\* Both stores hold scores of the scale, whatever is added up.
THEOREM TrustTypeCorrect == TrustSpec => []TrustTypeOK
<1>1. TrustInv => TrustTypeOK
  BY DEF TrustInv
<1> QED
  BY <1>1, TrustInvariant, PTL

\* The rows Postgres holds are what the committed adjustments add up to.
THEOREM NothingLost == TrustSpec => []NoLostUpdate
<1>1. TrustInv => NoLostUpdate
  BY DEF TrustInv
<1> QED
  BY <1>1, TrustInvariant, PTL
=============================================================================
