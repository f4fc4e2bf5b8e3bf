--------------------------- MODULE MarketplaceProofs ---------------------------
(***************************************************************************)
(* Proofs about Marketplace for any entities, listings, scores and         *)
(* requests.  A publication is earned because of what its trust request    *)
(* may hold at each stage: the row it has read is one the publisher had in *)
(* one of the two stores while the publication was under way, whichever    *)
(* store it was read from and whatever became of that store since.         *)
(***************************************************************************)
EXTENDS Marketplace, TrustStoreProofs

Publisher(k) == listings[gate[k].listing].publisher

\* What the trust request of publication k is, and what its answer vouches
\* for; a restart of the trust service takes the request away.
Vouched(k) ==
    \/ job[k].stage = "idle"
    \/ /\ job[k].op = "get" /\ job[k].entity = Publisher(k) /\ job[k].stage # "computed"
       /\ job[k].stage \in {"locked", "answered"} /\ Clears(job[k].read) => k \in cleared

Accounted(k) ==
    gate[k].stage # "idle" =>
        /\ listings[gate[k].listing].status # "none"
        /\ gate[k].stage = "policy" => k \in cleared
        /\ gate[k].stage = "trust" => Vouched(k)

MarketInv == TrustInv /\ MarketTypeOK /\ \A k \in TrustCallers : Accounted(k)

Gates == [stage : {"idle", "trust", "policy"}, listing : Listings]

-----------------------------------------------------------------------------
(***************************************************************************)
(* Every step of the marketplace is one of the trust service or leaves it  *)
(* alone, so the rows and locks are what TrustStore's invariant says.      *)
(***************************************************************************)
LEMMA MarketTrusts == MarketTypeOK /\ MarketNext => [TrustNext]_trustVars
<1> SUFFICES ASSUME MarketTypeOK, MarketNext PROVE [TrustNext]_trustVars
  OBVIOUS
<1>1. ASSUME NEW l \in Listings, NEW k \in TrustCallers, Publish(k, l) PROVE TrustNext
  <2>1. /\ Idle.component \in Components /\ Idle.delta \in Deltas
        /\ listings[l].publisher \in Entities
    BY IdleIsJob DEF Jobs, MarketTypeOK, Drafts
  <2> QED
    BY <1>1, <2>1 DEF Publish, TrustNext
<1>2. ASSUME NEW k \in TrustCallers, CheckTrust(k) PROVE TrustNext
  BY <1>2 DEF CheckTrust, TrustNext
<1>3. CASE TrustMoves
  BY <1>3 DEF TrustMoves, TrustNext
<1>4. CASE UNCHANGED trustVars
  BY <1>4
<1> QED
  BY <1>1, <1>2, <1>3, <1>4 DEF MarketNext, CreateListing, TrustSilent, CheckPolicy, MarketRestart

\* A read of a score moves on within its stages; what it has read is what it
\* had read before, or a row that one of the stores holds.
LEMMA GetMoves ==
  ASSUME TrustInv, NEW k \in TrustCallers, TrustStep(k), job[k].op = "get", job[k].stage # "computed"
  PROVE  /\ job'[k].op = "get" /\ job'[k].entity = job[k].entity /\ job'[k].stage # "computed"
         /\ job'[k].stage \in {"locked", "answered"} =>
              \/ job[k].stage \in {"locked", "answered"} /\ job'[k].read = job[k].read
              \/ job'[k].read \in {trustRows'[job[k].entity], spareRows'[job[k].entity]}
<1> DEFINE e == job[k].entity
<1>0. /\ job \in [TrustCallers -> Jobs] /\ job[k] \in Jobs /\ e \in Entities
      /\ trustRows[e] \in TrustRows /\ spareRows[e] \in TrustRows /\ job[k].read \in TrustRows
  BY DEF TrustInv, TrustTypeOK, Jobs
<1>1. ASSUME NEW stage \in JobStages, To(k, stage)
      PROVE  job'[k].op = "get" /\ job'[k].entity = e /\ job'[k].stage = stage /\ job'[k].read = job[k].read
  <2>1. job'[k] = [job[k] EXCEPT !.stage = stage]
    BY <1>0, <1>1, ToKeeps
  <2> QED
    BY <2>1, <1>0 DEF Jobs
<1>2. ASSUME NEW stage \in JobStages, NEW row \in TrustRows, Reads(k, stage, row)
      PROVE  job'[k].op = "get" /\ job'[k].entity = e /\ job'[k].stage = stage /\ job'[k].read = row
  <2>1. /\ job' \in [TrustCallers -> Jobs]
        /\ job'[k] = [[job[k] EXCEPT !.stage = stage] EXCEPT !.read = row]
        /\ \A m \in TrustCallers : m # k => job'[m] = job[m]
    BY <1>0, <1>2, ReadsKeeps
  <2> QED
    BY <2>1, <1>0 DEF Jobs
<1>3. CASE Got(k)
  BY <1>0, <1>2, <1>3 DEF Got, trustStores, JobStages
<1>4. CASE Lock(k)
  BY <1>4 DEF Lock
<1>5. CASE Insert(k)
  <2>1. CASE To(k, "insert")
    BY <2>1, <1>1 DEF JobStages
  <2>2. CASE To(k, "away")
    BY <2>2, <1>1 DEF JobStages
  <2>3. CASE e \notin trustKnown /\ Reads(k, "locked", DefaultRow)
    <3>1. trustRows'[e] = DefaultRow
      BY <2>3, <1>0, <1>5 DEF TrustInv, AbsentIsDefault, Insert, trustStores
    <3> QED
      BY <2>3, <3>1, <1>2, DefaultIsRow DEF JobStages
  <2> QED
    BY <2>1, <2>2, <2>3, <1>5 DEF Insert
<1>6. CASE Commit(k)
  BY <1>0, <1>2, <1>6 DEF Commit, JobStages
<1>7. CASE PostgresFails(k)
  BY <1>1, <1>7 DEF PostgresFails, JobStages
<1>8. CASE SpareLook(k)
  BY <1>1, <1>8 DEF SpareLook, JobStages
<1>9. CASE SpareCreate(k)
  BY <1>1, <1>9 DEF SpareCreate, JobStages
<1>10. CASE SpareRead(k)
  BY <1>0, <1>2, <1>10 DEF SpareRead, trustStores, JobStages
<1>11. CASE SpareWrite(k)
  BY <1>11 DEF SpareWrite
<1> QED
  BY <1>3, <1>4, <1>5, <1>6, <1>7, <1>8, <1>9, <1>10, <1>11 DEF TrustStep

\* A step of one request leaves the records of the others alone.
LEMMA StepMovesOne ==
  ASSUME TrustInv, NEW k \in TrustCallers, TrustStep(k), NEW m \in TrustCallers, m # k
  PROVE  job'[m] = job[m]
<1>0. job \in [TrustCallers -> Jobs]
  BY DEF TrustInv, TrustTypeOK
<1> QED
  BY <1>0 DEF TrustStep, Got, Lock, Insert, Commit, PostgresFails, SpareLook, SpareCreate, SpareRead,
              SpareWrite, To, Reads

-----------------------------------------------------------------------------
\* A publication whose gate, request and listing stay is accounted for still.
LEMMA UntouchedKeeps ==
  ASSUME MarketInv, NEW k \in TrustCallers, Marks, gate'[k] = gate[k], job'[k] = job[k],
         gate[k].stage # "idle" =>
            /\ listings'[gate[k].listing].status # "none"
            /\ listings'[gate[k].listing].publisher = Publisher(k)
  PROVE  Accounted(k)'
<1>1. gate[k].stage # "idle" /\ k \in cleared => k \in cleared'
  BY DEF Marks
<1> QED
  BY <1>1 DEF MarketInv, Accounted, Vouched, Publisher

\* Only CreateListing and MarketRestart change a listing beyond its status.
LEMMA ClosesKeeps ==
  ASSUME MarketInv, NEW k \in TrustCallers, gate[k].stage # "idle", NEW status \in {"review", "published"},
         Closes(k, status), Marks, \A m \in TrustCallers \ {k} : job'[m] = job[m]
  PROVE  /\ listings' \in [Listings -> Drafts] /\ gate' \in [TrustCallers -> Gates]
         /\ \A m \in TrustCallers : Accounted(m)'
<1>0. /\ listings \in [Listings -> Drafts] /\ gate \in [TrustCallers -> Gates]
      /\ gate[k].listing \in Listings
  BY DEF MarketInv, MarketTypeOK, Gates
<1>1. /\ gate' \in [TrustCallers -> Gates] /\ gate'[k].stage = "idle"
      /\ \A m \in TrustCallers \ {k} : gate'[m] = gate[m]
  BY <1>0 DEF Closes, Gates
<1>2. listings' \in [Listings -> Drafts]
  BY <1>0 DEF Closes, Drafts
<1>3. \A l \in Listings : /\ listings'[l].publisher = listings[l].publisher
                          /\ listings[l].status # "none" => listings'[l].status # "none"
  BY <1>0 DEF Closes, Drafts
<1>4. ASSUME NEW m \in TrustCallers PROVE Accounted(m)'
  <2>1. CASE m = k
    BY <2>1, <1>1 DEF Accounted
  <2>2. CASE m # k
    <3>1. gate[m].listing \in Listings
      BY <1>0 DEF Gates
    <3>2. gate[m].stage # "idle" => listings'[gate[m].listing].status # "none"
      BY <3>1, <1>3 DEF MarketInv, Accounted
    <3> QED
      BY <2>2, <3>1, <3>2, <1>1, <1>3, UntouchedKeeps DEF Publisher
  <2> QED
    BY <2>1, <2>2
<1> QED
  BY <1>1, <1>2, <1>4

-----------------------------------------------------------------------------
LEMMA MarketInvInit == MarketInit => MarketInv
<1> SUFFICES ASSUME MarketInit PROVE MarketInv
  OBVIOUS
<1>1. TrustInv
  BY TrustInvInit DEF MarketInit
<1>2. /\ (CHOOSE r \in RiskLabels : TRUE) \in RiskLabels /\ (CHOOSE l \in Listings : TRUE) \in Listings
      /\ Idle.entity \in Entities
  BY MarketAssumption, IdleIsJob DEF Jobs
<1>3. MarketTypeOK
  BY <1>1, <1>2 DEF MarketInit, MarketTypeOK, TrustInv, Drafts
<1>4. \A k \in TrustCallers : Accounted(k)
  BY DEF MarketInit, Accounted
<1> QED
  BY <1>1, <1>3, <1>4 DEF MarketInv

\* What the gates and the listings are after a step, by the handler that runs.
LEMMA CreateListingKeeps ==
  ASSUME MarketInv, NEW l \in Listings, NEW e \in Entities, NEW risk \in RiskLabels,
         CreateListing(l, e, risk), Marks
  PROVE  /\ listings' \in [Listings -> Drafts] /\ gate' \in [TrustCallers -> Gates]
         /\ \A k \in TrustCallers : Accounted(k)'
<1>0. listings \in [Listings -> Drafts] /\ gate \in [TrustCallers -> Gates]
  BY DEF MarketInv, MarketTypeOK, Gates
<1>1. listings' \in [Listings -> Drafts] /\ \A m \in Listings \ {l} : listings'[m] = listings[m]
  BY <1>0 DEF CreateListing, Drafts
<1>2. gate' = gate /\ job' = job
  BY DEF CreateListing, trustVars
<1>3. ASSUME NEW k \in TrustCallers PROVE Accounted(k)'
  <2>1. gate[k].stage # "idle" => gate[k].listing \in Listings \ {l}
    BY <1>0 DEF MarketInv, Accounted, CreateListing, Gates
  <2>2. gate[k].stage # "idle" => listings[gate[k].listing].status # "none"
    BY DEF MarketInv, Accounted
  <2> QED
    BY <2>1, <2>2, <1>1, <1>2, UntouchedKeeps DEF Publisher
<1> QED
  BY <1>0, <1>1, <1>2, <1>3

LEMMA PublishKeeps ==
  ASSUME MarketInv, NEW k \in TrustCallers, NEW l \in Listings, Publish(k, l), Marks
  PROVE  /\ listings' \in [Listings -> Drafts] /\ gate' \in [TrustCallers -> Gates]
         /\ \A m \in TrustCallers : Accounted(m)'
<1>0. /\ listings \in [Listings -> Drafts] /\ gate \in [TrustCallers -> Gates]
      /\ job \in [TrustCallers -> Jobs]
  BY DEF MarketInv, MarketTypeOK, TrustTypeOK, Gates
<1>1. /\ gate' \in [TrustCallers -> Gates] /\ gate'[k] = [stage |-> "trust", listing |-> l]
      /\ \A m \in TrustCallers \ {k} : gate'[m] = gate[m]
  BY <1>0 DEF Publish, Gates
<1>2. /\ job'[k].op = "get" /\ job'[k].entity = listings[l].publisher /\ job'[k].stage = "select"
      /\ \A m \in TrustCallers \ {k} : job'[m] = job[m]
  BY <1>0 DEF Publish, TrustAsked
<1>3. listings' = listings /\ listings[l].status # "none"
  BY DEF Publish
<1>4. ASSUME NEW m \in TrustCallers PROVE Accounted(m)'
  <2>1. CASE m = k
    BY <2>1, <1>1, <1>2, <1>3 DEF Accounted, Vouched, Publisher
  <2>2. CASE m # k
    <3>1. gate[m].stage # "idle" => listings[gate[m].listing].status # "none"
      BY DEF MarketInv, Accounted
    <3> QED
      BY <2>2, <3>1, <1>1, <1>2, <1>3, UntouchedKeeps DEF Publisher
  <2> QED
    BY <2>1, <2>2
<1> QED
  BY <1>0, <1>1, <1>3, <1>4

LEMMA CheckTrustKeeps ==
  ASSUME MarketInv, NEW k \in TrustCallers, CheckTrust(k), Marks
  PROVE  /\ listings' \in [Listings -> Drafts] /\ gate' \in [TrustCallers -> Gates]
         /\ \A m \in TrustCallers : Accounted(m)'
<1>0. /\ listings \in [Listings -> Drafts] /\ gate \in [TrustCallers -> Gates]
      /\ job \in [TrustCallers -> Jobs]
  BY DEF MarketInv, MarketTypeOK, TrustTypeOK, Gates
<1>1. gate[k].stage = "trust" /\ job[k].stage = "answered" /\ \A m \in TrustCallers \ {k} : job'[m] = job[m]
  BY <1>0 DEF CheckTrust, TrustReturns
<1>2. CASE ~Clears(job[k].read)
  BY <1>1, <1>2, ClosesKeeps DEF CheckTrust, Deny
<1>3. CASE Clears(job[k].read)
  <2>1. k \in cleared
    BY <1>1, <1>3 DEF MarketInv, Accounted, Vouched
  <2>2. /\ gate' \in [TrustCallers -> Gates] /\ gate'[k] = [gate[k] EXCEPT !.stage = "policy"]
        /\ \A m \in TrustCallers \ {k} : gate'[m] = gate[m]
        /\ listings' = listings
    BY <1>0, <1>3 DEF CheckTrust, Gates
  <2>3. gate'[k].stage = "policy" /\ gate'[k].listing = gate[k].listing
    BY <2>2, <1>0 DEF Gates
  <2>4. k \in cleared'
    BY <2>1, <2>3 DEF Marks
  <2>5. \A m \in TrustCallers : gate[m].stage # "idle" => listings[gate[m].listing].status # "none"
    BY DEF MarketInv, Accounted
  <2>6. ASSUME NEW m \in TrustCallers PROVE Accounted(m)'
    <3>1. CASE m = k
      BY <3>1, <2>2, <2>3, <2>4, <2>5, <1>1 DEF Accounted
    <3>2. CASE m # k
      BY <3>2, <2>2, <2>5, <1>1, UntouchedKeeps DEF Publisher
    <3> QED
      BY <3>1, <3>2
  <2> QED
    BY <2>2, <2>6, <1>0
<1> QED
  BY <1>2, <1>3

\* A step of the trust service: the request of a publication under way may
\* read a score, and whoever moves, the rows that clear it are marked.
LEMMA TrustMovesKeeps ==
  ASSUME MarketInv, TrustMoves, Marks
  PROVE  \A m \in TrustCallers : Accounted(m)'
<1>0. job \in [TrustCallers -> Jobs] /\ gate' = gate /\ listings' = listings /\ TrustInv
  BY DEF MarketInv, MarketTypeOK, TrustTypeOK, TrustMoves
<1> SUFFICES ASSUME NEW m \in TrustCallers PROVE Accounted(m)'
  OBVIOUS
<1>1. gate[m].stage # "idle" => listings[gate[m].listing].status # "none"
  BY DEF MarketInv, Accounted
<1>2. CASE gate[m].stage = "idle"
  BY <1>2, <1>0 DEF Accounted
<1>3. CASE job'[m] = job[m]
  BY <1>3, <1>0, <1>1, UntouchedKeeps DEF Publisher
<1>4. ASSUME gate[m].stage # "idle", m \in cleared PROVE m \in cleared'
  BY <1>0, <1>4 DEF Marks
<1>5. CASE job'[m].stage = "idle"
  BY <1>5, <1>0, <1>1, <1>4 DEF MarketInv, Accounted, Vouched
<1>6. CASE gate[m].stage # "idle" /\ TrustStep(m)
  <2>1. CASE gate[m].stage # "trust"
    BY <2>1, <1>6, <1>0, <1>1, <1>4 DEF MarketInv, Accounted
  <2>2. CASE gate[m].stage = "trust"
    <3>1. Vouched(m) /\ job[m].stage # "idle"
      BY <2>2, <1>6 DEF MarketInv, Accounted, TrustStep, Got, Lock, Insert, Missing, Commit,
                        PostgresFails, SpareLook, SpareCreate, SpareRead, SpareWrite
    <3>2. job[m].op = "get" /\ job[m].entity = Publisher(m) /\ job[m].stage # "computed"
      BY <3>1 DEF Vouched
    <3>3. /\ job'[m].op = "get" /\ job'[m].entity = Publisher(m) /\ job'[m].stage # "computed"
          /\ job'[m].stage \in {"locked", "answered"} =>
              \/ job[m].stage \in {"locked", "answered"} /\ job'[m].read = job[m].read
              \/ job'[m].read \in {trustRows'[Publisher(m)], spareRows'[Publisher(m)]}
      BY <3>2, <1>0, <1>6, GetMoves
    <3>4. job'[m].stage \in {"locked", "answered"} /\ Clears(job'[m].read) => m \in cleared'
      <4>1. CASE job[m].stage \in {"locked", "answered"} /\ job'[m].read = job[m].read
        BY <4>1, <3>1, <1>4, <1>6 DEF Vouched
      <4>2. CASE job'[m].read \in {trustRows'[Publisher(m)], spareRows'[Publisher(m)]}
        BY <4>2, <1>0, <1>6 DEF Marks, Publisher
      <4> QED
        BY <4>1, <4>2, <3>3
    <3>5. Vouched(m)'
      BY <3>3, <3>4, <1>0 DEF Vouched, Publisher
    <3> QED
      BY <3>5, <2>2, <1>0, <1>1 DEF Accounted
  <2> QED
    BY <2>1, <2>2
<1>7. ASSUME NEW k \in TrustCallers, k # m, TrustStep(k) PROVE job'[m] = job[m]
  BY <1>0, <1>7, StepMovesOne
<1>8. ASSUME NEW k \in TrustCallers, gate[k].stage = "idle", k # m,
             \/ \E e \in Entities, c \in Components, d \in Deltas : TrustAsked(k, "adjust", e, c, d)
             \/ TrustReturns(k)
      PROVE  job'[m] = job[m]
  BY <1>0, <1>8 DEF TrustAsked, TrustReturns
<1>9. CASE TrustRestart
  <2>1. job'[m].stage = "idle"
    BY <1>9 DEF TrustRestart, Idle
  <2> QED
    BY <2>1, <1>5
<1> QED
  BY <1>2, <1>3, <1>6, <1>7, <1>8, <1>9 DEF TrustMoves

LEMMA MarketInvNext == MarketInv /\ [MarketNext]_marketVars => MarketInv'
<1> SUFFICES ASSUME MarketInv, [MarketNext]_marketVars PROVE MarketInv'
  OBVIOUS
<1>0. /\ TrustInv /\ MarketTypeOK
      /\ listings \in [Listings -> Drafts] /\ gate \in [TrustCallers -> Gates]
  BY DEF MarketInv, MarketTypeOK, Gates
<1>1. CASE UNCHANGED marketVars
  <2>1. UNCHANGED trustVars /\ TrustInv'
    BY <1>0, <1>1, TrustInvNext DEF marketVars
  <2> QED
    BY <2>1, <1>1 DEF marketVars, trustVars, MarketInv, MarketTypeOK, TrustTypeOK, Accounted, Vouched,
                      Publisher
<1>2. CASE MarketNext
  <2>1. TrustInv'
    BY <1>0, <1>2, MarketTrusts, TrustInvNext
  <2>2. Marks
    BY <1>2 DEF MarketNext
  <2>3. cleared' \subseteq TrustCallers
    BY <2>2 DEF Marks
  <2> DEFINE Kept == /\ listings' \in [Listings -> Drafts] /\ gate' \in [TrustCallers -> Gates]
                     /\ \A k \in TrustCallers : Accounted(k)'
  <2>4. Kept
    <3>1. ASSUME NEW l \in Listings, NEW e \in Entities, NEW risk \in RiskLabels, CreateListing(l, e, risk)
          PROVE  Kept
      BY <3>1, <2>2, CreateListingKeeps
    <3>2. ASSUME NEW k \in TrustCallers, NEW l \in Listings, Publish(k, l) PROVE Kept
      BY <3>2, <2>2, PublishKeeps
    <3>3. ASSUME NEW k \in TrustCallers, CheckTrust(k) PROVE Kept
      BY <3>3, <2>2, CheckTrustKeeps
    <3>4. ASSUME NEW k \in TrustCallers, TrustSilent(k) \/ CheckPolicy(k) PROVE Kept
      <4>1. gate[k].stage # "idle" /\ job' = job
        BY <3>4 DEF TrustSilent, CheckPolicy, trustVars
      <4>2. Closes(k, "review") \/ Closes(k, "published")
        BY <3>4 DEF TrustSilent, CheckPolicy, Deny
      <4> QED
        BY <4>1, <4>2, <2>2, ClosesKeeps
    <3>5. CASE MarketRestart
      <4>1. listings' \in [Listings -> Drafts] /\ gate' \in [TrustCallers -> Gates]
        BY <3>5, <1>0 DEF MarketRestart, Drafts, Gates
      <4>2. \A k \in TrustCallers : gate'[k].stage = "idle"
        BY <3>5, <1>0 DEF MarketRestart, Gates
      <4> QED
        BY <4>1, <4>2 DEF Accounted
    <3>6. CASE TrustMoves
      BY <3>6, <2>2, <1>0, TrustMovesKeeps DEF TrustMoves
    <3> HIDE DEF Kept
    <3> QED
      BY <3>1, <3>2, <3>3, <3>4, <3>5, <3>6, <1>2, Zenon DEF MarketNext
  <2>5. MarketTypeOK'
    BY <2>1, <2>3, <2>4 DEF MarketTypeOK, TrustInv, Gates
  <2> QED
    BY <2>1, <2>4, <2>5 DEF MarketInv
<1> QED
  BY <1>1, <1>2

THEOREM MarketInvariant == MarketSpec => []MarketInv
  BY MarketInvInit, MarketInvNext, PTL DEF MarketSpec

\* The values of the marketplace's state, with those of the trust service.
THEOREM MarketTypeCorrect == MarketSpec => []MarketTypeOK
<1>1. MarketInv => MarketTypeOK
  BY DEF MarketInv
<1> QED
  BY <1>1, MarketInvariant, PTL

LEMMA PublishesEarned == MarketInv /\ [MarketNext]_marketVars => [Earned]_marketVars
<1> SUFFICES ASSUME MarketInv, MarketNext, NEW l \in Listings,
                    listings[l].status # "published", listings'[l].status = "published"
             PROVE  \E k \in cleared : gate[k].listing = l
  BY DEF Earned
<1>0. listings \in [Listings -> Drafts] /\ gate \in [TrustCallers -> Gates]
  BY DEF MarketInv, MarketTypeOK, Gates
<1>1. ASSUME NEW k \in TrustCallers, Deny(k) PROVE FALSE
  BY <1>0, <1>1 DEF Deny, Closes, Drafts
<1>2. ASSUME listings' = listings PROVE FALSE
  BY <1>2
<1>3. ASSUME NEW m \in Listings, NEW e \in Entities, NEW risk \in RiskLabels, CreateListing(m, e, risk)
      PROVE  FALSE
  BY <1>0, <1>3 DEF CreateListing, Drafts
<1>4. ASSUME MarketRestart PROVE FALSE
  BY <1>0, <1>4 DEF MarketRestart, Drafts
<1>5. ASSUME NEW k \in TrustCallers, gate[k].stage = "policy", Closes(k, "published")
      PROVE  k \in cleared /\ gate[k].listing = l
  <2>1. k \in cleared
    BY <1>5 DEF MarketInv, Accounted
  <2>2. gate[k].listing = l
    BY <1>0, <1>5 DEF Closes, Drafts
  <2> QED
    BY <2>1, <2>2
<1> QED
  BY <1>1, <1>2, <1>3, <1>4, <1>5
  DEF MarketNext, Publish, CheckTrust, TrustSilent, CheckPolicy, TrustMoves

\* No publication goes through that its publisher has not earned while it
\* was under way.
THEOREM PublicationsEarned == MarketSpec => PublishedEarned
  BY MarketInvariant, PublishesEarned, PTL DEF MarketSpec, PublishedEarned

=============================================================================
