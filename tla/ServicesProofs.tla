---------------------------- MODULE ServicesProofs ----------------------------
(***************************************************************************)
(* Proofs about the services of MCServices, each for any value of its      *)
(* constants: workflows and the safety engine, discovery, the service      *)
(* monitor, routing, the connector services and the conformance suite; and *)
(* the types of all of them together.                                      *)
(***************************************************************************)
EXTENDS MCServices, MarketplaceProofs, NaturalsInduction, WellFoundedInduction, FiniteSetTheorems

(***************************************************************************)
(* The registry, which workflows and discovery ask.                        *)
(***************************************************************************)
LEMMA RegistryInitKeeps == RegistryInit => RegistryTypeOK
  BY DEF RegistryInit, RegistryTypeOK

LEMMA RegistryStepKeeps ==
  ASSUME RegistryTypeOK, (\E a \in Agents : CreateAgent(a)) \/ RegistryRestart
  PROVE  RegistryTypeOK'
  BY DEF RegistryTypeOK, CreateAgent, RegistryRestart

LEMMA RegistryStays == RegistryTypeOK /\ UNCHANGED registryVars => RegistryTypeOK'
  BY DEF RegistryTypeOK, registryVars

LEMMA AgentsCounted == Cardinality(Agents) \in Nat
  BY RegistryAssumption, FS_CardinalityType

\* A listing has every agent of the store once, so no more than there are.
LEMMA ListingBounded ==
  ASSUME RegistryTypeOK, NEW agents \in ListAgents
  PROVE  agents \in Seq(Agents) /\ Len(agents) <= Cardinality(Agents)
<1>1. ASSUME NEW store \in SUBSET Agents, agents \in Listed(store)
      PROVE  agents \in Seq(Agents) /\ Len(agents) <= Cardinality(Agents)
  <2>1. Cardinality(store) \in Nat /\ Cardinality(store) <= Cardinality(Agents)
    BY RegistryAssumption, FS_Subset, FS_CardinalityType
  <2>2. agents \in [1..Cardinality(store) -> Agents]
    BY <1>1 DEF Listed
  <2>3. agents \in Seq(Agents) /\ Len(agents) = Cardinality(store)
    BY <2>1, <2>2
  <2> QED
    BY <2>1, <2>3
<1> QED
  BY <1>1 DEF ListAgents, RegistryTypeOK

-----------------------------------------------------------------------------
(***************************************************************************)
(* Discovery.  An entry's listing is older than the entry by at most what  *)
(* the collection took, and a collection takes one unit for each agent.    *)
(***************************************************************************)
EntryFresh == Alive => cacheEntry.listed <= Cardinality(Agents) + cacheEntry.kept

CollectionFresh == \A s \in Seekers :
    /\ seeker[s].stage = "trust" =>
         /\ seeker[s].listed <= Len(seeker[s].trust) + seeker[s].asked
         /\ Len(seeker[s].agents) <= Cardinality(Agents)
         /\ Collected(s) => seeker[s].asked = 0
    /\ seeker[s].stage = "list" => seeker[s].trust = <<>>

EntryShape == cacheEntry = [ranked |-> cacheEntry.ranked, kept |-> cacheEntry.kept, listed |-> cacheEntry.listed]

SeekInv == SeekTypeOK /\ EntryShape /\ EntryFresh /\ CollectionFresh /\ AnswersFresh

LEMMA RestingIsSeek ==
  /\ Resting \in Seeks /\ Resting.stage = "idle" /\ Resting.trust = <<>> /\ Resting.asked = 0
  /\ Resting.listed = 0
  BY DEF Resting, Seeks

LEMMA SeekInvInit == SeekInit => SeekInv
  BY RegistryInitKeeps, RestingIsSeek, DiscoveryAssumption, AgentsCounted
  DEF SeekInit, SeekInv, SeekTypeOK, EntryShape, EntryFresh, CollectionFresh, AnswersFresh, NoEntry,
      Alive, Resting

\* The answer given is as fresh as promised when what it comes from is.
LEMMA OlderFresh ==
  ASSUME SeekInv, NEW n \in Nat, n <= CacheTTL - 1 + Cardinality(Agents), answers' = Older(n)
  PROVE  answers' \in Nat /\ AnswersFresh'
  BY DiscoveryAssumption, AgentsCounted DEF SeekInv, SeekTypeOK, AnswersFresh, Older

\* A step of one request: the others' records stay.
LEMMA SeekerMoves ==
  ASSUME SeekInv, NEW s \in Seekers, NEW r \in Seeks, seeker' = [seeker EXCEPT ![s] = r],
         r.stage = "trust" =>
           /\ r.listed <= Len(r.trust) + r.asked
           /\ Len(r.agents) <= Cardinality(Agents)
           /\ Len(r.trust) = Len(r.agents) => r.asked = 0,
         r.stage = "list" => r.trust = <<>>
  PROVE  seeker' \in [Seekers -> Seeks] /\ CollectionFresh'
<1>1. seeker' \in [Seekers -> Seeks] /\ \A m \in Seekers : seeker'[m] = IF m = s THEN r ELSE seeker[m]
  BY DEF SeekInv, SeekTypeOK
<1> QED
  BY <1>1 DEF SeekInv, CollectionFresh, Collected

LEMMA ElapseKeeps == ASSUME SeekInv, Elapse PROVE SeekInv'
<1>0. /\ seeker \in [Seekers -> Seeks] /\ cacheEntry.kept \in 0..CacheTTL /\ cacheEntry.listed \in Nat
      /\ answers \in Nat /\ EntryShape
  BY DEF SeekInv, SeekTypeOK
<1>1. UNCHANGED <<registryVars, answers>> /\ RegistryTypeOK' /\ AnswersFresh'
  BY RegistryStays DEF Elapse, SeekInv, SeekTypeOK, AnswersFresh
<1>2. /\ EntryShape' /\ cacheEntry'.kept \in 0..CacheTTL /\ cacheEntry'.listed \in Nat
      /\ EntryFresh'
  <2>1. CASE cacheEntry.kept + 1 >= CacheTTL
    <3>1. cacheEntry' = [ranked |-> <<>>, kept |-> CacheTTL, listed |-> 0]
      BY <2>1 DEF Elapse, NoEntry
    <3> QED
      BY <3>1, DiscoveryAssumption DEF EntryShape, EntryFresh, Alive
  <2>2. CASE ~(cacheEntry.kept + 1 >= CacheTTL)
    <3>1. cacheEntry' = [ranked |-> cacheEntry.ranked, kept |-> cacheEntry.kept + 1,
                         listed |-> cacheEntry.listed + 1]
      BY <2>2, <1>0 DEF Elapse, EntryShape
    <3>2. Alive /\ cacheEntry.kept + 1 \in 0..CacheTTL
      BY <2>2, <1>0, DiscoveryAssumption DEF Alive
    <3> QED
      BY <3>1, <3>2, <1>0, AgentsCounted DEF SeekInv, EntryShape, EntryFresh
  <2> QED
    BY <2>1, <2>2
<1>3. ASSUME NEW s \in Seekers, seeker[s].stage # "idle"
      PROVE  \E n \in Nat : /\ n <= seeker[s].listed + 1
                            /\ seeker'[s] = [stage |-> seeker[s].stage, agents |-> seeker[s].agents,
                                             trust |-> seeker[s].trust, asked |-> 1, listed |-> n]
  <2> DEFINE n == IF seeker[s].listed < MaxAge THEN seeker[s].listed + 1 ELSE seeker[s].listed
  <2>1. seeker[s] \in Seeks
    BY <1>0
  <2>2. n \in Nat /\ n <= seeker[s].listed + 1
    BY <2>1, DiscoveryAssumption DEF Seeks
  <2>3. seeker'[s] = [seeker[s] EXCEPT !.asked = 1, !.listed = IF @ < MaxAge THEN @ + 1 ELSE @]
    BY <1>3 DEF Elapse
  <2>4. seeker'[s] = [stage |-> seeker[s].stage, agents |-> seeker[s].agents,
                      trust |-> seeker[s].trust, asked |-> 1, listed |-> n]
    BY <2>1, <2>3 DEF Seeks
  <2> QED
    BY <2>2, <2>4
<1>4. ASSUME NEW s \in Seekers, seeker[s].stage = "idle" PROVE seeker'[s] = Resting
  BY <1>4 DEF Elapse
<1>5. seeker' \in [Seekers -> Seeks]
  <2>1. ASSUME NEW s \in Seekers PROVE seeker'[s] \in Seeks
    <3>1. seeker[s] \in Seeks
      BY <1>0
    <3>2. CASE seeker[s].stage # "idle"
      <4>1. PICK n \in Nat : seeker'[s] = [stage |-> seeker[s].stage, agents |-> seeker[s].agents,
                                          trust |-> seeker[s].trust, asked |-> 1, listed |-> n]
        BY <3>2, <1>3
      <4> QED
        BY <3>1, <4>1 DEF Seeks
    <3> QED
      BY <3>2, <1>4, RestingIsSeek
  <2>2. seeker' = [s \in Seekers |-> seeker'[s]]
    BY DEF Elapse
  <2> QED
    BY <2>1, <2>2
<1>6. CollectionFresh'
  <2> SUFFICES ASSUME NEW s \in Seekers
               PROVE  /\ seeker'[s].stage = "trust" =>
                           /\ seeker'[s].listed <= Len(seeker'[s].trust) + seeker'[s].asked
                           /\ Len(seeker'[s].agents) <= Cardinality(Agents)
                           /\ Len(seeker'[s].trust) # Len(seeker'[s].agents)
                      /\ seeker'[s].stage = "list" => seeker'[s].trust = <<>>
    BY DEF CollectionFresh, Collected
  <2>1. CASE seeker[s].stage = "idle"
    BY <2>1, <1>4 DEF Resting
  <2>2. CASE seeker[s].stage # "idle"
    <3>0. seeker[s].asked = 0 /\ ~Collected(s)
      BY <2>2 DEF Elapse
    <3>1. seeker[s].asked = 0 /\ ~Collected(s) /\ seeker[s] \in Seeks /\ Len(seeker[s].trust) \in Nat
      BY <3>0, <1>0 DEF Seeks
    <3>2. PICK n \in Nat : /\ n <= seeker[s].listed + 1
                           /\ seeker'[s] = [stage |-> seeker[s].stage, agents |-> seeker[s].agents,
                                            trust |-> seeker[s].trust, asked |-> 1, listed |-> n]
      BY <2>2, <1>3
    <3>3. seeker[s].listed \in Nat
      BY <3>1 DEF Seeks
    <3> QED
      BY <3>1, <3>2, <3>3 DEF SeekInv, CollectionFresh, Collected
  <2> QED
    BY <2>1, <2>2
<1> QED
  BY <1>0, <1>1, <1>2, <1>5, <1>6 DEF SeekInv, SeekTypeOK

LEMMA SeekInvNext == SeekInv /\ [SeekNext]_seekVars => SeekInv'
<1> SUFFICES ASSUME SeekInv, [SeekNext]_seekVars PROVE SeekInv'
  OBVIOUS
<1>0. /\ seeker \in [Seekers -> Seeks] /\ cacheEntry.kept \in 0..CacheTTL /\ cacheEntry.listed \in Nat
      /\ answers \in Nat /\ RegistryTypeOK
  BY DEF SeekInv, SeekTypeOK
<1>1. ASSUME UNCHANGED <<cacheEntry, seeker, answers>>, RegistryTypeOK' PROVE SeekInv'
  BY <1>1 DEF SeekInv, SeekTypeOK, EntryShape, EntryFresh, CollectionFresh, AnswersFresh, Alive, Collected
<1>2. ASSUME NEW s \in Seekers, Hit(s) PROVE SeekInv'
  <2>1. answers' \in Nat /\ AnswersFresh'
    BY <1>0, <1>2, OlderFresh, AgentsCounted, DiscoveryAssumption DEF Hit, SeekInv, EntryFresh, Alive
  <2>2. UNCHANGED <<registryVars, cacheEntry, seeker>> /\ RegistryTypeOK'
    BY <1>0, <1>2, RegistryStays DEF Hit
  <2> QED
    BY <2>1, <2>2 DEF SeekInv, SeekTypeOK, EntryShape, EntryFresh, CollectionFresh, Alive, Collected
<1>3. ASSUME UNCHANGED <<registryVars, cacheEntry, answers>>, seeker' \in [Seekers -> Seeks], CollectionFresh'
      PROVE  SeekInv'
  BY <1>0, <1>3, RegistryStays DEF SeekInv, SeekTypeOK, EntryShape, EntryFresh, AnswersFresh, Alive
<1>4. ASSUME NEW s \in Seekers, Miss(s) PROVE SeekInv'
  <2> DEFINE r == [Resting EXCEPT !.stage = "list"]
  <2>1. r \in Seeks /\ r.stage = "list" /\ r.trust = <<>> /\ seeker' = [seeker EXCEPT ![s] = r]
    BY <1>4, RestingIsSeek DEF Miss, Seeks
  <2> HIDE DEF r
  <2>2. seeker' \in [Seekers -> Seeks] /\ CollectionFresh'
    BY <2>1, SeekerMoves
  <2> QED
    BY <2>2, <1>3, <1>4 DEF Miss
<1>5. ASSUME NEW s \in Seekers, List(s) PROVE SeekInv'
  <2>1. PICK agents \in ListAgents :
               seeker' = [seeker EXCEPT ![s] = [Resting EXCEPT !.stage = "trust", !.agents = agents]]
    BY <1>5 DEF List
  <2>2. agents \in Seq(Agents) /\ Len(agents) <= Cardinality(Agents)
    BY <1>0, ListingBounded
  <2> DEFINE r == [[Resting EXCEPT !.stage = "trust"] EXCEPT !.agents = agents]
  <2>3. seeker' = [seeker EXCEPT ![s] = r]
    BY <2>1
  <2>4. r \in Seeks /\ r.trust = <<>> /\ r.asked = 0 /\ r.listed = 0 /\ r.agents = agents /\ r.stage = "trust"
    BY <2>2, RestingIsSeek DEF Seeks
  <2> HIDE DEF r
  <2>5. /\ r.listed <= Len(r.trust) + r.asked /\ Len(r.agents) <= Cardinality(Agents)
        /\ Len(r.trust) = Len(r.agents) => r.asked = 0
        /\ r.stage # "list"
    BY <2>2, <2>4
  <2>6. seeker' \in [Seekers -> Seeks] /\ CollectionFresh'
    BY <2>3, <2>4, <2>5, SeekerMoves
  <2> QED
    BY <2>6, <1>3, <1>5 DEF List
<1>6. ASSUME NEW s \in Seekers, AskTrust(s) PROVE SeekInv'
  <2> DEFINE q == seeker[s]
  <2>1. PICK n \in Scores :
               seeker' = [seeker EXCEPT ![s].trust = Append(@, n), ![s].asked = 0]
    BY <1>6 DEF AskTrust
  <2> DEFINE r == [[seeker[s] EXCEPT !.trust = Append(@, n)] EXCEPT !.asked = 0]
  <2>2. q \in Seeks /\ q.stage = "trust" /\ Len(q.trust) \in Nat
    BY <1>0, <1>6 DEF AskTrust, Seeks
  <2>3. seeker' = [seeker EXCEPT ![s] = r]
    BY <2>1
  <2>4. Append(q.trust, n) \in Seq(Scores) /\ Len(Append(q.trust, n)) = Len(q.trust) + 1
    BY <2>2 DEF Seeks
  <2>5. /\ r \in Seeks /\ r.stage = "trust" /\ r.asked = 0 /\ r.listed = q.listed
        /\ r.agents = q.agents /\ Len(r.trust) = Len(q.trust) + 1
    BY <2>2, <2>4 DEF Seeks
  <2>6. q.listed <= Len(q.trust) + 1 /\ Len(q.agents) <= Cardinality(Agents)
    BY <2>2 DEF SeekInv, CollectionFresh, Seeks
  <2> HIDE DEF r, q
  <2>7. /\ r.listed <= Len(r.trust) + r.asked /\ Len(r.agents) <= Cardinality(Agents)
        /\ Len(r.trust) = Len(r.agents) => r.asked = 0
        /\ r.stage # "list"
    BY <2>2, <2>5, <2>6 DEF Seeks
  <2>8. seeker' \in [Seekers -> Seeks] /\ CollectionFresh'
    BY <2>3, <2>5, <2>7, SeekerMoves
  <2> QED
    BY <2>8, <1>3, <1>6 DEF AskTrust
<1>7. ASSUME NEW s \in Seekers, seeker' = [seeker EXCEPT ![s] = Resting]
      PROVE  seeker' \in [Seekers -> Seeks] /\ CollectionFresh'
  BY <1>7, RestingIsSeek, SeekerMoves DEF Resting
<1>8. ASSUME NEW s \in Seekers, SeekRaises(s) PROVE SeekInv'
  BY <1>8, <1>7, <1>3 DEF SeekRaises
<1>9. ASSUME NEW s \in Seekers, Store(s) PROVE SeekInv'
  <2>1. seeker' \in [Seekers -> Seeks] /\ CollectionFresh'
    BY <1>7, <1>9 DEF Store
  <2>2. seeker[s].listed \in Nat /\ seeker[s].listed <= Cardinality(Agents)
    <3>1. seeker[s] \in Seeks /\ seeker[s].stage = "trust" /\ Len(seeker[s].trust) = Len(seeker[s].agents)
      BY <1>0, <1>9 DEF Store, Collected
    <3>2. /\ seeker[s].listed <= Len(seeker[s].trust) + seeker[s].asked
          /\ Len(seeker[s].agents) <= Cardinality(Agents) /\ seeker[s].asked = 0
      BY <3>1, <1>9 DEF SeekInv, CollectionFresh, Store
    <3> QED
      BY <3>1, <3>2, AgentsCounted DEF Seeks
  <2>3. answers' \in Nat /\ AnswersFresh'
    BY <2>2, <1>9, OlderFresh, AgentsCounted, DiscoveryAssumption DEF Store
  <2>4. /\ EntryShape' /\ cacheEntry'.kept = 0 /\ cacheEntry'.listed = seeker[s].listed
    BY <1>9 DEF Store, EntryShape
  <2>5. EntryFresh' /\ RegistryTypeOK'
    BY <2>2, <2>4, <1>0, <1>9, RegistryStays, AgentsCounted DEF EntryFresh, Store
  <2> QED
    BY <2>1, <2>2, <2>3, <2>4, <2>5, DiscoveryAssumption DEF SeekInv, SeekTypeOK
<1> QED
  BY <1>1, <1>2, <1>4, <1>5, <1>6, <1>8, <1>9, ElapseKeeps, RegistryStepKeeps, RegistryStays, <1>0
  DEF SeekNext, seekVars

THEOREM SeekInvariant == SeekSpec => []SeekInv
  BY SeekInvInit, SeekInvNext, PTL DEF SeekSpec

\* No answer of discovery is older than an entry may be kept and a collection
\* may take, whoever collects and stores when.
THEOREM AnswersAreFresh == SeekSpec => []AnswersFresh
<1>1. SeekInv => AnswersFresh
  BY DEF SeekInv
<1> QED
  BY <1>1, SeekInvariant, PTL

-----------------------------------------------------------------------------
(***************************************************************************)
(* The service monitor.  A service held down has its failures counted to   *)
(* the threshold, so that the branch which tells of a recovery is the only *)
(* one that ever holds it up again.                                        *)
(***************************************************************************)
NotedOut == \A s \in Ids : ~service[s].up => service[s].failures = DownThreshold

MonitorInv == MonitorTypeOK /\ NotedOut /\ IncidentsMatch

LEMMA MonitorInvInit == MonitorInit => MonitorInv
  BY MonitorAssumption DEF MonitorInit, MonitorInv, MonitorTypeOK, NotedOut, IncidentsMatch, Ids

\* The pass goes to the next service, to Ollama after the last, or ends.
LEMMA PassMoves ==
  ASSUME MonitorTypeOK, passing.stage = "services", Moves \/ \E recovery \in BOOLEAN : Cuts(recovery)
  PROVE  passing' \in [stage : {"sleep", "services", "ollama", "circuits"}, next : Ids, cut : BOOLEAN]
<1>0. passing \in [stage : {"sleep", "services", "ollama", "circuits"}, next : Ids, cut : BOOLEAN]
  BY DEF MonitorTypeOK
<1>1. passing.next \in 1..Len(Services) /\ 1 \in Ids
  BY <1>0, MonitorAssumption DEF Ids
<1>2. CASE Moves /\ passing.next = Len(Services)
  BY <1>0, <1>2 DEF Moves
<1>3. CASE Moves /\ passing.next # Len(Services)
  <2>1. passing.next + 1 \in Ids
    BY <1>1, <1>3, MonitorAssumption DEF Ids
  <2> QED
    BY <1>0, <1>3, <2>1 DEF Moves
<1>4. CASE \E recovery \in BOOLEAN : Cuts(recovery)
  BY <1>1, <1>4 DEF Cuts
<1> QED
  BY <1>2, <1>3, <1>4

\* A step that looks at one service leaves what is held of the others.
LEMMA LookKeeps ==
  ASSUME MonitorInv, NEW s \in Ids, NEW r \in [up : BOOLEAN, failures : 0..DownThreshold],
         NEW t \in {"none", "down", "recovered"},
         service' = [service EXCEPT ![s] = r], told' = [told EXCEPT ![s] = t],
         unsent' \subseteq Ids, \A m \in Ids \ {s} : m \in unsent => m \in unsent',
         passing' \in [stage : {"sleep", "services", "ollama", "circuits"}, next : Ids, cut : BOOLEAN],
         ~r.up => r.failures = DownThreshold,
         IF r.up THEN t # "down" ELSE t = "down" \/ s \in unsent'
  PROVE  MonitorInv'
<1>1. /\ service \in [Ids -> [up : BOOLEAN, failures : 0..DownThreshold]]
      /\ told \in [Ids -> {"none", "down", "recovered"}]
  BY DEF MonitorInv, MonitorTypeOK
<1>2. /\ service'[s] = r /\ told'[s] = t
      /\ \A m \in Ids \ {s} : service'[m] = service[m] /\ told'[m] = told[m]
  BY <1>1
<1>3. MonitorTypeOK'
  BY <1>1 DEF MonitorTypeOK, Ids
<1>4. NotedOut'
  BY <1>2 DEF MonitorInv, NotedOut, Ids
<1>5. IncidentsMatch'
  <2> SUFFICES ASSUME NEW m \in Ids
               PROVE  IF service'[m].up THEN told'[m] # "down" ELSE told'[m] = "down" \/ m \in unsent'
    BY DEF IncidentsMatch, Ids
  <2>1. CASE m = s
    BY <2>1, <1>2
  <2>2. CASE m # s
    BY <2>2, <1>2 DEF MonitorInv, IncidentsMatch
  <2> QED
    BY <2>1, <2>2
<1> QED
  BY <1>3, <1>4, <1>5 DEF MonitorInv

LEMMA HealthyKeeps == ASSUME MonitorInv, Healthy(passing.next) PROVE MonitorInv'
<1> DEFINE s == passing.next
<1>0. /\ s \in Ids /\ passing.stage = "services" /\ unsent \subseteq Ids /\ MonitorTypeOK
      /\ service \in [Ids -> [up : BOOLEAN, failures : 0..DownThreshold]] /\ told \in [Ids -> {"none", "down", "recovered"}]
      /\ [up |-> TRUE, failures |-> 0] \in [up : BOOLEAN, failures : 0..DownThreshold]
  BY MonitorAssumption DEF MonitorInv, MonitorTypeOK, Healthy, Checked
<1>1. CASE ~service[s].up /\ service[s].failures >= DownThreshold
  <2>1. told' = [told EXCEPT ![s] = "recovered"]
    BY <1>1 DEF Healthy
  <2>2. CASE Moves /\ service' = [service EXCEPT ![s] = [up |-> TRUE, failures |-> 0]] /\ unsent' = unsent \ {s}
    BY <2>1, <2>2, <1>0, PassMoves, LookKeeps
  <2>3. CASE Cuts(TRUE) /\ unsent' = unsent \cup {s} /\ UNCHANGED service
    <3>1. service' = [service EXCEPT ![s] = service[s]]
      BY <2>3, <1>0
    <3>2. service[s] \in [up : BOOLEAN, failures : 0..DownThreshold] /\ service[s].failures = DownThreshold
      BY <1>0, <1>1 DEF MonitorInv, NotedOut
    <3>3. passing' \in [stage : {"sleep", "services", "ollama", "circuits"}, next : Ids, cut : BOOLEAN]
      BY <2>3, <1>0, PassMoves
    <3>4. unsent' \subseteq Ids /\ s \in unsent' /\ \A m \in Ids \ {s} : m \in unsent => m \in unsent'
      BY <2>3, <1>0
    <3> HIDE DEF s
    <3> QED
      BY <2>1, <3>1, <3>2, <3>3, <3>4, <1>0, <1>1, LookKeeps
  <2> QED
    BY <1>1, <2>2, <2>3 DEF Healthy
<1>2. CASE ~(~service[s].up /\ service[s].failures >= DownThreshold)
  <2>1. service' = [service EXCEPT ![s] = [up |-> TRUE, failures |-> 0]] /\ Moves /\ UNCHANGED <<told, unsent>>
    BY <1>2 DEF Healthy
  <2>2. service[s].up
    BY <1>0, <1>2, MonitorAssumption DEF MonitorInv, NotedOut
  <2>3. told[s] # "down" /\ told' = [told EXCEPT ![s] = told[s]]
    BY <1>0, <2>1, <2>2 DEF MonitorInv, IncidentsMatch
  <2> QED
    BY <1>0, <2>1, <2>3, PassMoves, LookKeeps
<1> QED
  BY <1>1, <1>2

LEMMA UnhealthyKeeps == ASSUME MonitorInv, Unhealthy(passing.next) PROVE MonitorInv'
<1> DEFINE s == passing.next
           n == IF service[s].failures < DownThreshold THEN service[s].failures + 1 ELSE DownThreshold
<1>0. /\ s \in Ids /\ passing.stage = "services" /\ unsent \subseteq Ids /\ MonitorTypeOK
      /\ service \in [Ids -> [up : BOOLEAN, failures : 0..DownThreshold]] /\ told \in [Ids -> {"none", "down", "recovered"}]
      /\ unsent' = unsent
  BY DEF MonitorInv, MonitorTypeOK, Unhealthy, Checked
<1>1. n \in 0..DownThreshold
  BY <1>0, MonitorAssumption
<1>2. CASE service[s].up /\ n >= DownThreshold
  <2> DEFINE r == [up |-> FALSE, failures |-> n]
  <2>1. /\ service' = [service EXCEPT ![s] = r] /\ told' = [told EXCEPT ![s] = "down"]
        /\ Moves \/ Cuts(FALSE)
    BY <1>2 DEF Unhealthy
  <2>2. r \in [up : BOOLEAN, failures : 0..DownThreshold] /\ ~r.up /\ r.failures = DownThreshold
    BY <1>1, <1>2, MonitorAssumption
  <2> HIDE DEF r
  <2> QED
    BY <2>1, <2>2, <1>0, PassMoves, LookKeeps
<1>3. CASE ~(service[s].up /\ n >= DownThreshold)
  <2> DEFINE r == [service[s] EXCEPT !.failures = n]
  <2>1. Moves /\ service' = [service EXCEPT ![s] = r] /\ told' = told
    BY <1>3 DEF Unhealthy
  <2>2. r \in [up : BOOLEAN, failures : 0..DownThreshold] /\ r.up = service[s].up /\ r.failures = n
    BY <1>0, <1>1
  <2>3. ~service[s].up => n = DownThreshold
    BY <1>0, MonitorAssumption DEF MonitorInv, NotedOut
  <2>4. told' = [told EXCEPT ![s] = told[s]] /\ told[s] \in {"none", "down", "recovered"}
    BY <1>0, <2>1
  <2>5. IF service[s].up THEN told[s] # "down" ELSE told[s] = "down" \/ s \in unsent
    BY <1>0 DEF MonitorInv, IncidentsMatch
  <2> HIDE DEF r, n
  <2> QED
    BY <2>1, <2>2, <2>3, <2>4, <2>5, <1>0, PassMoves, LookKeeps
<1> QED
  BY <1>2, <1>3

LEMMA MonitorInvNext == MonitorInv /\ [MonitorNext]_monitorVars => MonitorInv'
<1> SUFFICES ASSUME MonitorInv, [MonitorNext]_monitorVars PROVE MonitorInv'
  OBVIOUS
<1>0. MonitorTypeOK /\ 1 \in Ids
  BY MonitorAssumption DEF MonitorInv, Ids
<1>1. CASE Wake \/ CheckOllama \/ Circuits
  <2>1. UNCHANGED <<service, told, unsent>>
    BY <1>1 DEF Wake, CheckOllama, Circuits
  <2>2. passing' \in [stage : {"sleep", "services", "ollama", "circuits"}, next : Ids, cut : BOOLEAN]
    <3>1. passing \in [stage : {"sleep", "services", "ollama", "circuits"}, next : Ids, cut : BOOLEAN]
      BY <1>0 DEF MonitorTypeOK
    <3>2. CASE CheckOllama
      BY <3>1, <3>2 DEF CheckOllama
    <3>3. CASE Wake
      BY <1>0, <3>3 DEF Wake
    <3>4. CASE Circuits
      BY <1>0, <3>4 DEF Circuits
    <3> QED
      BY <1>1, <3>2, <3>3, <3>4
  <2> QED
    BY <2>1, <2>2 DEF MonitorInv, MonitorTypeOK, NotedOut, IncidentsMatch, Ids
<1>2. CASE MonitorRestart
  BY <1>0, <1>2, MonitorAssumption DEF MonitorRestart, MonitorInv, MonitorTypeOK, NotedOut, IncidentsMatch, Ids
<1>3. CASE UNCHANGED monitorVars
  BY <1>3 DEF monitorVars, MonitorInv, MonitorTypeOK, NotedOut, IncidentsMatch, Ids
<1> QED
  BY <1>1, <1>2, <1>3, HealthyKeeps, UnhealthyKeeps DEF MonitorNext, MonitorPass

THEOREM MonitorInvariant == MonitorSpec => []MonitorInv
  BY MonitorInvInit, MonitorInvNext, PTL DEF MonitorSpec

\* What the brain holds of a service is what it last recorded of it.
THEOREM IncidentsMatchState == MonitorSpec => []IncidentsMatch
<1>1. MonitorInv => IncidentsMatch
  BY DEF MonitorInv
<1> QED
  BY <1>1, MonitorInvariant, PTL

-----------------------------------------------------------------------------
(***************************************************************************)
(* Workflows and the safety engine.  An event tells how many steps its     *)
(* workflow has, as nothing changes the steps of a workflow that is there; *)
(* and what was flagged lies behind the consumer, which never goes back.   *)
(***************************************************************************)
EventsTrue == \A i \in DOMAIN completed :
    LET w == workflows[completed[i].workflow]
    IN w.status # "none" /\ completed[i].steps = Len(w.steps)

StartedOnly == \A x \in Executions :
    execution[x].stage = "steps" => workflows[execution[x].of].status # "none"

FlaggedBehind == \A i \in DOMAIN flagged : flagged[i] <= reader.read /\ completed[flagged[i]].steps = 0

FlowInv == FlowTypeOK /\ EventsTrue /\ StartedOnly /\ FlaggedBehind /\ IsInjective(flagged)

Statuses == {"none", "CREATED", "RUNNING", "COMPLETED", "gone"}
Workflowing == [status : Statuses, steps : Seq(Agents), results : Seq({"200", "404"})]
Executing == [stage : {"idle", "steps"}, of : Workflows, results : Seq({"200", "404"})]
Completion == [workflow : Workflows, steps : Nat]

LEMMA SeqWidens ==
  ASSUME NEW S, NEW T, S \subseteq T, NEW s \in Seq(S)
  PROVE  s \in Seq(T)
  OBVIOUS

LEMMA FlowTypes ==
  FlowTypeOK <=>
    /\ RegistryTypeOK /\ workflows \in [Workflows -> Workflowing] /\ execution \in [Executions -> Executing]
    /\ completed \in Seq(Completion) /\ reader \in [connected : BOOLEAN, read : 0..Len(completed)]
    /\ flagged \in Seq(1..Len(completed)) /\ passedBy \subseteq 1..Len(completed)
  BY DEF FlowTypeOK, Workflowing, Statuses, Executing, Completion

LEMMA IdlingIsExecuting == Idling \in Executing /\ Idling.stage = "idle"
  BY WorkflowAssumption DEF Idling, Executing

LEMMA FlowInvInit == FlowInit => FlowInv
<1> SUFFICES ASSUME FlowInit PROVE FlowInv
  OBVIOUS
<1>1. [status |-> "none", steps |-> <<>>, results |-> <<>>] \in Workflowing
  BY DEF Workflowing, Statuses
<1>2. completed = <<>> /\ flagged = <<>> /\ Len(<<>>) = 0
  BY DEF FlowInit
<1>3. FlowTypeOK
  BY <1>1, <1>2, IdlingIsExecuting, RegistryInitKeeps, FlowTypes DEF FlowInit
<1>4. EventsTrue /\ StartedOnly /\ FlaggedBehind /\ IsInjective(flagged)
  BY <1>2, IdlingIsExecuting DEF FlowInit, EventsTrue, StartedOnly, FlaggedBehind, IsInjective
<1> QED
  BY <1>3, <1>4 DEF FlowInv

\* A step of the workflow service that publishes nothing.
LEMMA EngineKeeps ==
  ASSUME FlowInv, UNCHANGED <<registryVars, completed, safetyVars>>,
         workflows' \in [Workflows -> Workflowing], execution' \in [Executions -> Executing],
         \A w \in Workflows : workflows[w].status # "none" =>
            workflows'[w].status # "none" /\ workflows'[w].steps = workflows[w].steps,
         \A x \in Executions : execution'[x].stage = "steps" => workflows'[execution'[x].of].status # "none"
  PROVE  FlowInv'
<1>1. FlowTypeOK'
  BY FlowTypes, RegistryStays DEF FlowInv, FlowTypeOK, Workflowing, Statuses, Executing, safetyVars
<1>2. \A i \in DOMAIN completed : completed[i].workflow \in Workflows
  <2>1. completed \in Seq(Completion)
    BY FlowTypes DEF FlowInv
  <2>2. \A i \in DOMAIN completed : completed[i] \in Completion
    BY <2>1
  <2> QED
    BY <2>2 DEF Completion
<1>3. EventsTrue'
  BY <1>2 DEF FlowInv, EventsTrue
<1> QED
  BY <1>1, <1>3 DEF FlowInv, StartedOnly, FlaggedBehind, IsInjective, safetyVars

LEMMA AnswerValues == ASSUME NEW a, NEW answer \in GetAgent(a) PROVE answer \in {"200", "404"}
  BY DEF GetAgent

LEMMA CompleteKeeps == ASSUME FlowInv, NEW x \in Executions, Complete(x) PROVE FlowInv'
<1> DEFINE e == execution[x]
<1>0. /\ RegistryTypeOK /\ workflows \in [Workflows -> Workflowing] /\ execution \in [Executions -> Executing]
      /\ completed \in Seq(Completion) /\ flagged \in Seq(1..Len(completed))
      /\ e \in Executing /\ e.of \in Workflows /\ e.stage = "steps" /\ e.results \in Seq({"200", "404"})
      /\ workflows[e.of] \in Workflowing /\ workflows[e.of].status # "none"
  BY FlowTypes DEF FlowInv, Executing, StartedOnly, Complete
<1>1. Len(e.results) \in Nat /\ Len(workflows[e.of].steps) = Len(e.results)
  BY <1>0 DEF Complete, Remaining, Workflowing
<1>2. /\ workflows' \in [Workflows -> Workflowing]
      /\ \A w \in Workflows : workflows[w].status # "none" =>
            workflows'[w].status # "none" /\ workflows'[w].steps = workflows[w].steps
  BY <1>0 DEF Complete, Workflowing, Statuses
<1>3. /\ execution' \in [Executions -> Executing]
      /\ \A y \in Executions : execution'[y].stage = "steps" => y # x /\ execution'[y] = execution[y]
  BY <1>0, IdlingIsExecuting DEF Complete
<1>4. \A y \in Executions : execution'[y].stage = "steps" => workflows'[execution'[y].of].status # "none"
  <2> SUFFICES ASSUME NEW y \in Executions, execution'[y].stage = "steps"
               PROVE  workflows'[execution'[y].of].status # "none"
    OBVIOUS
  <2>1. execution'[y] = execution[y] /\ execution[y].of \in Workflows
    BY <1>0, <1>3 DEF Executing
  <2> QED
    BY <2>1, <1>2 DEF FlowInv, StartedOnly
<1>5. UNCHANGED <<registryVars, safetyVars>>
  BY DEF Complete
<1>6. CASE UNCHANGED completed
  BY <1>2, <1>3, <1>4, <1>5, <1>6, EngineKeeps
<1>7. CASE completed' = Append(completed, [workflow |-> e.of, steps |-> Len(e.results)])
  <2> DEFINE new == [workflow |-> e.of, steps |-> Len(e.results)]
             n == Len(completed)
  <2>1. new \in Completion /\ n \in Nat
    BY <1>0, <1>1 DEF Completion
  <2>2. /\ completed' \in Seq(Completion) /\ Len(completed') = n + 1 /\ DOMAIN completed' = 1..(n + 1)
        /\ \A i \in 1..n : completed'[i] = completed[i]
        /\ completed'[n + 1] = new
    BY <2>1, <1>0, <1>7
  <2>3. FlowTypeOK'
    <3>1. 1..n \subseteq 1..(n + 1) /\ 0..n \subseteq 0..(n + 1)
      BY <2>1
    <3>2. /\ reader \in [connected : BOOLEAN, read : 0..(n + 1)] /\ passedBy \subseteq 1..(n + 1)
          /\ flagged \in Seq(1..(n + 1))
      BY <3>1, <1>0, FlowTypes, SeqWidens DEF FlowInv
    <3>3. RegistryTypeOK'
      BY <1>0, <1>5, RegistryStays
    <3> HIDE DEF n
    <3> QED
      BY <3>2, <3>3, <2>2, <1>2, <1>3, <1>5
      DEF FlowTypeOK, safetyVars, Workflowing, Statuses, Executing, Completion
  <2>4. EventsTrue'
    <3> SUFFICES ASSUME NEW i \in 1..(n + 1)
                 PROVE  LET w == workflows'[completed'[i].workflow]
                        IN w.status # "none" /\ completed'[i].steps = Len(w.steps)
      BY <2>2 DEF EventsTrue
    <3>1. CASE i = n + 1
      BY <3>1, <2>2, <1>0, <1>1, <1>2
    <3>2. CASE i \in 1..n
      <4>0. completed[i] \in Completion
        BY <3>2, <1>0
      <4>1. completed[i].workflow \in Workflows
        BY <4>0 DEF Completion
      <4>2. /\ workflows[completed[i].workflow].status # "none"
            /\ completed[i].steps = Len(workflows[completed[i].workflow].steps)
        BY <3>2, <1>0 DEF FlowInv, EventsTrue
      <4> QED
        BY <4>1, <4>2, <3>2, <2>2, <1>2
    <3> QED
      BY <3>1, <3>2, <2>1
  <2>5. FlaggedBehind'
    <3>1. \A i \in DOMAIN flagged : flagged[i] \in 1..n
      BY <1>0
    <3> QED
      BY <3>1, <2>2, <1>5 DEF FlowInv, FlaggedBehind, safetyVars
  <2>6. StartedOnly' /\ IsInjective(flagged)'
    BY <1>4, <1>5 DEF FlowInv, StartedOnly, IsInjective, safetyVars
  <2> QED
    BY <2>3, <2>4, <2>5, <2>6 DEF FlowInv
<1> QED
  BY <1>6, <1>7 DEF Complete

\* The consumer goes forward, and flags what it then has behind it.
LEMMA ReviewKeeps == ASSUME FlowInv, Review PROVE FlowInv'
<1> DEFINE n == reader.read + 1
<1>0. /\ completed \in Seq(Completion) /\ Len(completed) \in Nat
      /\ reader \in [connected : BOOLEAN, read : 0..Len(completed)] /\ reader.read < Len(completed)
      /\ flagged \in Seq(1..Len(completed)) /\ passedBy \subseteq 1..Len(completed)
  BY FlowTypes DEF FlowInv, Review
<1>1. /\ n \in 1..Len(completed) /\ reader' = [reader EXCEPT !.read = n]
      /\ UNCHANGED <<registryVars, workflows, execution, completed>>
  BY <1>0 DEF Review
<1>2. reader' \in [connected : BOOLEAN, read : 0..Len(completed)] /\ reader'.read = n
  BY <1>0, <1>1
<1>3. RegistryTypeOK' /\ EventsTrue' /\ StartedOnly'
  BY <1>1, RegistryStays DEF FlowInv, FlowTypeOK, EventsTrue, StartedOnly
<1>4. ASSUME flagged' \in Seq(1..Len(completed)), passedBy' \subseteq 1..Len(completed) PROVE FlowTypeOK'
  BY <1>1, <1>2, <1>3, <1>4 DEF FlowInv, FlowTypeOK
<1>5. CASE UNCHANGED flagged
  <2>1. passedBy' \subseteq 1..Len(completed)
    BY <1>0, <1>1, <1>5 DEF Review
  <2>2. FlaggedBehind' /\ IsInjective(flagged)'
    BY <1>0, <1>1, <1>2, <1>5 DEF FlowInv, FlaggedBehind, IsInjective
  <2> QED
    BY <2>1, <2>2, <1>0, <1>3, <1>4, <1>5 DEF FlowInv
<1>6. CASE flagged' = Append(flagged, n) /\ UNCHANGED passedBy /\ Empty(completed[n])
  <2> DEFINE f == Len(flagged)
  <2>1. /\ f \in Nat /\ flagged' \in Seq(1..Len(completed)) /\ DOMAIN flagged' = 1..(f + 1)
        /\ flagged'[f + 1] = n /\ \A i \in 1..f : flagged'[i] = flagged[i]
    BY <1>0, <1>1, <1>6
  <2>2. \A i \in 1..f : flagged[i] \in 1..Len(completed) /\ flagged[i] < n /\ completed[flagged[i]].steps = 0
    BY <1>0 DEF FlowInv, FlaggedBehind
  <2>3. completed[n].steps = 0
    BY <1>6 DEF Empty
  <2>4. FlaggedBehind'
    <3> SUFFICES ASSUME NEW i \in 1..(f + 1)
                 PROVE  flagged'[i] <= reader'.read /\ completed'[flagged'[i]].steps = 0
      BY <2>1 DEF FlaggedBehind
    <3>1. reader'.read = n /\ n \in Int /\ completed' = completed
      BY <1>0, <1>1, <1>2
    <3>2. CASE i = f + 1
      BY <3>1, <3>2, <2>1, <2>3
    <3>3. CASE i \in 1..f
      <4>1. flagged'[i] = flagged[i] /\ flagged[i] \in Int
        BY <3>3, <2>1, <2>2
      <4> QED
        BY <4>1, <3>1, <3>3, <2>2
    <3> QED
      BY <3>2, <3>3, <2>1
  <2>5. IsInjective(flagged)'
    <3> SUFFICES ASSUME NEW a \in 1..(f + 1), NEW b \in 1..(f + 1), flagged'[a] = flagged'[b] PROVE a = b
      BY <2>1 DEF IsInjective
    <3>1. CASE a \in 1..f /\ b \in 1..f
      <4>1. flagged[a] = flagged[b] /\ a \in DOMAIN flagged /\ b \in DOMAIN flagged
        BY <3>1, <2>1, <1>0
      <4> QED
        BY <4>1 DEF FlowInv, IsInjective
    <3>2. n \in Int /\ \A i \in 1..f : flagged'[i] \in Int /\ flagged'[i] < n
      BY <2>1, <2>2, <1>0
    <3>3. CASE a = f + 1 /\ b \in 1..f
      BY <3>2, <3>3, <2>1
    <3>4. CASE b = f + 1 /\ a \in 1..f
      BY <3>2, <3>4, <2>1
    <3> QED
      BY <3>1, <3>3, <3>4, <2>1
  <2> QED
    BY <2>1, <2>4, <2>5, <1>0, <1>3, <1>4, <1>6 DEF FlowInv
<1> QED
  BY <1>5, <1>6 DEF Review

LEMMA FlowInvNext == FlowInv /\ [FlowNext]_flowVars => FlowInv'
<1> SUFFICES ASSUME FlowInv, [FlowNext]_flowVars PROVE FlowInv'
  OBVIOUS
<1>0. /\ RegistryTypeOK /\ workflows \in [Workflows -> Workflowing] /\ execution \in [Executions -> Executing]
      /\ completed \in Seq(Completion) /\ reader \in [connected : BOOLEAN, read : 0..Len(completed)]
      /\ flagged \in Seq(1..Len(completed)) /\ passedBy \subseteq 1..Len(completed)
      /\ Len(completed) \in Nat
  BY FlowTypes DEF FlowInv
<1>1. ASSUME NEW w \in Workflows, NEW steps \in StepLists, CreateWorkflow(w, steps) PROVE FlowInv'
  <2>1. steps \in Seq(Agents) /\ workflows[w].status = "none"
    BY <1>1, WorkflowAssumption DEF CreateWorkflow
  <2>2. [status |-> "CREATED", steps |-> steps, results |-> <<>>] \in Workflowing
    BY <2>1 DEF Workflowing, Statuses
  <2>3. workflows' \in [Workflows -> Workflowing] /\ \A v \in Workflows \ {w} : workflows'[v] = workflows[v]
    BY <2>2, <1>0, <1>1 DEF CreateWorkflow
  <2>4. execution' = execution /\ UNCHANGED <<registryVars, completed, safetyVars>>
    BY <1>1 DEF CreateWorkflow
  <2>5. \A x \in Executions : execution[x].of \in Workflows
    BY <1>0 DEF Executing
  <2>6. \A x \in Executions : execution'[x].stage = "steps" => workflows'[execution'[x].of].status # "none"
    BY <2>1, <2>3, <2>4, <2>5 DEF FlowInv, StartedOnly
  <2> QED
    BY <2>1, <2>3, <2>4, <2>6, <1>0, EngineKeeps
<1>2. ASSUME NEW x \in Executions, NEW w \in Workflows, ExecuteWorkflow(x, w) PROVE FlowInv'
  <2>1. /\ workflows' \in [Workflows -> Workflowing] /\ workflows'[w].status = "RUNNING"
        /\ \A v \in Workflows : workflows'[v].steps = workflows[v].steps
        /\ \A v \in Workflows : workflows[v].status # "none" => workflows'[v].status # "none"
    BY <1>0, <1>2 DEF ExecuteWorkflow, Workflowing, Statuses
  <2>2. [stage |-> "steps", of |-> w, results |-> <<>>] \in Executing
    BY DEF Executing
  <2>3. /\ execution' \in [Executions -> Executing] /\ execution'[x].of = w
        /\ \A y \in Executions \ {x} : execution'[y] = execution[y]
    BY <2>2, <1>0, <1>2 DEF ExecuteWorkflow
  <2>4. \A y \in Executions : execution[y].of \in Workflows
    BY <1>0 DEF Executing
  <2>5. ASSUME NEW y \in Executions, execution'[y].stage = "steps"
        PROVE  workflows'[execution'[y].of].status # "none"
    BY <2>1, <2>3, <2>4, <2>5 DEF FlowInv, StartedOnly
  <2> QED
    BY <2>1, <2>3, <2>5, <1>2, EngineKeeps DEF ExecuteWorkflow
<1>3. ASSUME NEW x \in Executions, execution' \in [Executions -> Executing],
             execution'[x].stage = "idle" \/ (execution'[x].of = execution[x].of /\ execution[x].stage = "steps"),
             \A y \in Executions \ {x} : execution'[y] = execution[y],
             UNCHANGED <<registryVars, workflows, completed, safetyVars>>
      PROVE  FlowInv'
  BY <1>0, <1>3, EngineKeeps DEF FlowInv, StartedOnly
<1>4. ASSUME NEW x \in Executions, Step(x) PROVE FlowInv'
  <2>1. PICK answer \in {"200", "404"} : execution' = [execution EXCEPT ![x].results = Append(@, answer)]
    BY <1>4, AnswerValues DEF Step
  <2>2. Append(execution[x].results, answer) \in Seq({"200", "404"})
    BY <1>0 DEF Executing
  <2>3. execution' \in [Executions -> Executing] /\ execution'[x].of = execution[x].of
    BY <2>1, <2>2, <1>0 DEF Executing
  <2> QED
    BY <2>1, <2>3, <1>0, <1>3, <1>4 DEF Step
<1>5. ASSUME NEW x \in Executions, StepRaises(x) PROVE FlowInv'
  BY <1>0, <1>3, <1>5, IdlingIsExecuting DEF StepRaises
<1>6. CASE FlowRestart
  <2>1. /\ workflows' \in [Workflows -> Workflowing]
        /\ \A w \in Workflows : workflows'[w].status # "none" /\ workflows'[w].steps = workflows[w].steps
    BY <1>0, <1>6 DEF FlowRestart, Workflowing, Statuses
  <2>2. execution' \in [Executions -> Executing] /\ \A x \in Executions : execution'[x].stage = "idle"
    BY <1>6, IdlingIsExecuting DEF FlowRestart
  <2> QED
    BY <2>1, <2>2, <1>6, EngineKeeps DEF FlowRestart
<1>7. ASSUME UNCHANGED <<workflows, execution, completed, safetyVars>>, RegistryTypeOK' PROVE FlowInv'
  BY <1>7 DEF FlowInv, FlowTypeOK, EventsTrue, StartedOnly, FlaggedBehind, IsInjective, safetyVars
<1>8. ASSUME UNCHANGED <<registryVars, workflows, execution, completed, flagged>>,
             reader' \in [connected : BOOLEAN, read : 0..Len(completed)], reader'.read >= reader.read,
             passedBy' \subseteq 1..Len(completed)
      PROVE  FlowInv'
  <2>1. FlowTypeOK'
    BY <1>0, <1>8, RegistryStays DEF FlowInv, FlowTypeOK
  <2>2. \A i \in DOMAIN flagged : flagged[i] \in Int
    BY <1>0
  <2>3. FlaggedBehind'
    BY <2>2, <1>0, <1>8 DEF FlowInv, FlaggedBehind
  <2> QED
    BY <2>1, <2>3, <1>8 DEF FlowInv, EventsTrue, StartedOnly, IsInjective
<1>9. CASE Connect
  <2>1. /\ reader' = [connected |-> TRUE, read |-> Len(completed)]
        /\ UNCHANGED <<registryVars, workflows, execution, completed, flagged>>
        /\ passedBy' \subseteq 1..Len(completed)
    BY <1>0, <1>9 DEF Connect, Skipped
  <2>2. /\ reader' \in [connected : BOOLEAN, read : 0..Len(completed)]
        /\ reader'.read >= reader.read
    BY <1>0, <2>1
  <2> QED
    BY <2>1, <2>2, <1>8
<1>10. CASE Disconnect
  <2>1. /\ reader' = [reader EXCEPT !.connected = FALSE]
        /\ UNCHANGED <<registryVars, workflows, execution, completed, flagged, passedBy>>
    BY <1>10 DEF Disconnect
  <2>2. /\ reader' \in [connected : BOOLEAN, read : 0..Len(completed)]
        /\ reader'.read >= reader.read
    <3>1. reader.read \in Int /\ reader'.read = reader.read
      BY <1>0, <2>1
    <3>2. reader' \in [connected : BOOLEAN, read : 0..Len(completed)]
      BY <1>0, <2>1
    <3> QED
      BY <3>1, <3>2
  <2> QED
    BY <2>1, <2>2, <1>0, <1>8
<1>11. CASE Registers
  BY <1>0, <1>7, <1>11, RegistryStepKeeps DEF Registers
<1>12. CASE UNCHANGED flowVars
  BY <1>0, <1>7, <1>12, RegistryStays DEF flowVars, safetyVars
<1> QED
  BY <1>1, <1>2, <1>4, <1>5, <1>6, <1>9, <1>10, <1>11, <1>12, CompleteKeeps, ReviewKeeps DEF FlowNext

THEOREM FlowInvariant == FlowSpec => []FlowInv
  BY FlowInvInit, FlowInvNext, PTL DEF FlowSpec

LEMMA FlaggedOf == FlowInv => FlaggedOnce
<1> SUFFICES ASSUME FlowInv PROVE FlaggedOnce
  OBVIOUS
<1>1. ASSUME NEW i \in DOMAIN flagged PROVE workflows[completed[flagged[i]].workflow].steps = <<>>
  <2>1. flagged[i] \in DOMAIN completed /\ completed[flagged[i]] \in Completion
    BY <1>1, FlowTypes DEF FlowInv
  <2>2. completed[flagged[i]].steps = 0
    BY <1>1 DEF FlowInv, FlaggedBehind
  <2>3. Len(workflows[completed[flagged[i]].workflow].steps) = 0
    BY <2>1, <2>2 DEF FlowInv, EventsTrue
  <2>4. workflows[completed[flagged[i]].workflow].steps \in Seq(Agents)
    BY <2>1, FlowTypes DEF FlowInv, Completion, Workflowing
  <2> QED
    BY <2>3, <2>4
<1> QED
  BY <1>1 DEF FlowInv, FlaggedOnce

\* Only completions of workflows without steps are flagged, and none twice.
THEOREM FlagsOnce == FlowSpec => []FlaggedOnce
  BY FlowInvariant, FlaggedOf, PTL

-----------------------------------------------------------------------------
(***************************************************************************)
(* Routing.  max() finds the first of the best, whatever was read; and the *)
(* candidates stand in an order in which only the last may be one that     *)
(* costs more than the trust read for it.                                  *)
(***************************************************************************)
Ordered(tiers) ==
    \A j \in DOMAIN tiers : \A i \in 1..(j - 1) : tiers[i] \notin {tiers[j], "large_model", "human"}

RouteInv ==
    /\ RouteTypeOK /\ Ordered(choosing.candidates)
    /\ Len(choosing.read) <= Len(choosing.candidates)
    /\ choosing.stage = "ask" => choosing.candidates # <<>> /\ decision.status # "decided"
    /\ DearerOnlyIfTrustRose

\* A set of natural numbers that is not empty has a least one.
LEMMA LeastExists ==
  ASSUME NEW S \in SUBSET Nat, S # {}
  PROVE  \E i \in S : \A j \in S : i <= j
<1>1. PICK i \in S : \A j \in S : <<j, i>> \notin OpToRel(<, Nat)
  BY NatLessThanWellFounded, WFMin
<1>2. ASSUME NEW j \in S PROVE i <= j
  <2>1. \A ss \in Nat \X Nat : ss[1] < ss[2] => ss \in OpToRel(<, Nat)
    BY Zenon DEF OpToRel
  <2>2. <<j, i>> \in Nat \X Nat
    OBVIOUS
  <2>3. ~(<<j, i>>[1] < <<j, i>>[2])
    BY <1>1, <2>1, <2>2
  <2> QED
    BY <2>3
<1> QED
  BY <1>2

\* Of finitely many utilities there is a first of the best.
LEMMA FirstBest ==
  ASSUME NEW n \in Nat, n # 0, NEW Most \in Nat, NEW u \in [1..n -> 0..Most]
  PROVE  \E i \in 1..n : \A j \in 1..n : u[i] > u[j] \/ (u[i] = u[j] /\ i <= j)
<1> DEFINE Lacks == {Most - u[k] : k \in 1..n}
<1>1. \A k \in 1..n : u[k] \in 0..Most /\ Most - u[k] \in Nat
  OBVIOUS
<1>2. PICK v \in Lacks : \A w \in Lacks : v <= w
  <2>1. Lacks \in SUBSET Nat
    BY <1>1
  <2>2. 1 \in 1..n
    OBVIOUS
  <2>3. Lacks # {}
    BY <2>2
  <2> HIDE DEF Lacks
  <2> QED
    BY <2>1, <2>3, LeastExists
<1> DEFINE Bests == {k \in 1..n : Most - u[k] = v}
<1>3. PICK b \in Bests : \A j \in Bests : b <= j
  <2>1. Bests \in SUBSET Nat /\ Bests # {}
    BY <1>2
  <2> HIDE DEF Bests
  <2> QED
    BY <2>1, LeastExists
<1>4. b \in 1..n /\ u[b] \in Int /\ Most - u[b] = v
  BY <1>1, <1>3
<1>5. ASSUME NEW j \in 1..n PROVE u[b] > u[j] \/ (u[b] = u[j] /\ b <= j)
  <2>1. u[j] \in Int /\ v <= Most - u[j]
    BY <1>1, <1>2
  <2>2. Most - u[j] = v => b <= j
    BY <1>3
  <2> QED
    BY <1>4, <2>1, <2>2
<1> QED
  BY <1>4, <1>5

LEMMA ReadInScale == ASSUME NEW x \in Readings PROVE x \in Nat /\ x <= 100
  BY RoutingAssumption

LEMMA UtilityBounded ==
  ASSUME NEW trust \in Nat, trust <= 100, NEW tier
  PROVE  Utility(trust, tier) \in Nat /\ Utility(trust, tier) <= 10000
<1>1. CASE tier = "large_model"
  BY <1>1 DEF Utility
<1>2. CASE tier = "human"
  BY <1>2 DEF Utility
<1>3. CASE tier \notin {"large_model", "human"}
  BY <1>3 DEF Utility
<1> QED
  BY <1>1, <1>2, <1>3

Surpasses(tiers, read, i, j) ==
    \/ Utility(read[i], tiers[i]) > Utility(read[j], tiers[j])
    \/ Utility(read[i], tiers[i]) = Utility(read[j], tiers[j]) /\ i <= j

\* max() has something to find: the first candidate of the best utility.
LEMMA BestExists ==
  ASSUME NEW tiers \in Seq(Tiers), NEW read \in Seq(Readings), tiers # <<>>, Len(read) = Len(tiers)
  PROVE  /\ Best(tiers, read) \in DOMAIN tiers
         /\ \A j \in DOMAIN tiers : Surpasses(tiers, read, Best(tiers, read), j)
<1> DEFINE n == Len(tiers)
           u == [k \in 1..n |-> Utility(read[k], tiers[k])]
<1>1. DOMAIN tiers = 1..n /\ n \in Nat /\ n # 0
  OBVIOUS
<1>2. PICK Most \in Nat : Most = 10000
  OBVIOUS
<1>3. ASSUME NEW k \in 1..n PROVE Utility(read[k], tiers[k]) \in 0..Most
  <2>1. read[k] \in Readings
    BY <1>1, <1>3
  <2>2. read[k] \in Nat /\ read[k] <= 100
    BY <2>1, ReadInScale
  <2>3. Utility(read[k], tiers[k]) \in Nat /\ Utility(read[k], tiers[k]) <= Most
    BY <1>2, <2>2, UtilityBounded
  <2> QED
    BY <2>3
<1>4. u \in [1..n -> 0..Most]
  BY <1>3
<1>5. \A k \in 1..n : u[k] = Utility(read[k], tiers[k])
  OBVIOUS
<1> HIDE DEF u, n
<1>6. \E i \in 1..n : \A j \in 1..n : u[i] > u[j] \/ (u[i] = u[j] /\ i <= j)
  BY <1>1, <1>4, FirstBest
<1>7. \E i \in DOMAIN tiers : \A j \in DOMAIN tiers : Surpasses(tiers, read, i, j)
  BY <1>1, <1>5, <1>6 DEF Surpasses
<1>8. Best(tiers, read) = CHOOSE i \in DOMAIN tiers : \A j \in DOMAIN tiers : Surpasses(tiers, read, i, j)
  BY DEF Best, Surpasses
<1> QED
  BY <1>7, <1>8

\* By how much the trust read must have risen to make up for a dearer tier.
LEMMA RoseBy ==
  ASSUME NEW x \in 0..100, NEW y \in 0..100
  PROVE  /\ 20 * x + 4600 > 20 * y + 4750 => x - y >= 8
         /\ 20 * x + 4700 > 20 * y + 4750 \/ 20 * x + 4750 > 20 * y + 4750 => x - y >= 1
  OBVIOUS

LEMMA SelectKeeps == ASSUME RouteInv, Select PROVE RouteInv'
<1> DEFINE tiers == choosing.candidates
           read == choosing.read
           b == Best(tiers, read)
<1>0. /\ choosing \in [stage : {"idle", "ask"}, candidates : Seq(Tiers), read : Seq(Readings)]
      /\ tiers \in Seq(Tiers) /\ read \in Seq(Readings) /\ Len(read) = Len(tiers) /\ tiers # <<>>
      /\ Ordered(tiers) /\ choosing.stage = "ask"
  <2>1. choosing \in [stage : {"idle", "ask"}, candidates : Seq(Tiers), read : Seq(Readings)]
    BY DEF RouteInv, RouteTypeOK
  <2>2. tiers \in Seq(Tiers) /\ read \in Seq(Readings)
    BY <2>1
  <2> QED
    BY <2>1, <2>2 DEF RouteInv, Select, Asking
<1>1. /\ b \in DOMAIN tiers
      /\ \A j \in DOMAIN tiers : Surpasses(tiers, read, b, j)
  BY <1>0, BestExists
<1>2. /\ choosing'.candidates = tiers /\ choosing'.read = read /\ choosing'.stage = "idle"
      /\ choosing' \in [stage : {"idle", "ask"}, candidates : Seq(Tiers), read : Seq(Readings)]
      /\ decision' = [status |-> "decided", selected |-> tiers[b]]
  BY <1>0 DEF Select
<1>3. tiers[b] \in Tiers
  BY <1>0, <1>1
<1>4. DearerOnlyIfTrustRose'
  <2> SUFFICES ASSUME NEW i \in DOMAIN tiers, tiers[i] = tiers[b], NEW j \in 1..(i - 1)
               PROVE  read[i] - read[j] >= IF tiers[b] = "large_model" THEN 8 ELSE 1
    BY <1>2 DEF DearerOnlyIfTrustRose
  <2>1. i \in 1..Len(tiers) /\ b \in 1..Len(tiers) /\ j \in 1..Len(tiers) /\ j \in DOMAIN tiers
    BY <1>0, <1>1
  <2>2. i = b
    BY <2>1, <1>0, <1>1 DEF Ordered
  <2>3. tiers[j] \notin {"large_model", "human"}
    BY <2>1, <1>0 DEF Ordered
  <2>4. read[b] \in 0..100 /\ read[j] \in 0..100
    <3>1. read[b] \in Readings /\ read[j] \in Readings
      BY <2>1, <1>0
    <3> QED
      BY <3>1, RoutingAssumption
  <2>5. Utility(read[b], tiers[b]) > Utility(read[j], tiers[j])
    BY <2>1, <2>2, <1>1 DEF Surpasses
  <2> HIDE DEF b, read, tiers
  <2>6. PICK x \in 0..100 : x = read[b]
    BY <2>4
  <2>7. PICK y \in 0..100 : y = read[j]
    BY <2>4
  <2>8. Utility(read[j], tiers[j]) = 20 * y + 4750
    BY <2>3, <2>7 DEF Utility
  <2>9. CASE tiers[b] = "large_model"
    <3>1. Utility(read[b], tiers[b]) = 20 * x + 4600
      BY <2>6, <2>9 DEF Utility
    <3>2. x - y >= 8
      BY <2>5, <2>8, <3>1, RoseBy
    <3> QED
      BY <2>2, <2>9, <2>6, <2>7, <3>2
  <2>10. CASE tiers[b] # "large_model"
    <3>1. \/ Utility(read[b], tiers[b]) = 20 * x + 4700
          \/ Utility(read[b], tiers[b]) = 20 * x + 4750
      BY <2>6, <2>10 DEF Utility
    <3>2. x - y >= 1
      BY <2>5, <2>8, <3>1, RoseBy
    <3> QED
      BY <2>2, <2>10, <2>6, <2>7, <3>2
  <2> QED
    BY <2>9, <2>10
<1> QED
  BY <1>0, <1>2, <1>3, <1>4 DEF RouteInv, RouteTypeOK

LEMMA RouteInvInit == RouteInit => RouteInv
  BY DEF RouteInit, RouteInv, RouteTypeOK, Ordered, Undecided, DearerOnlyIfTrustRose

LEMMA RouteInvNext == RouteInv /\ [RouteNext]_routeVars => RouteInv'
<1> SUFFICES ASSUME RouteInv, [RouteNext]_routeVars PROVE RouteInv'
  OBVIOUS
<1>0. /\ choosing \in [stage : {"idle", "ask"}, candidates : Seq(Tiers), read : Seq(Readings)]
      /\ choosing.read \in Seq(Readings) /\ choosing.candidates \in Seq(Tiers)
      /\ decision \in [status : {"none", "decided", "unavailable"}, selected : Tiers \cup {"none"}]
  BY DEF RouteInv, RouteTypeOK
<1>1. ASSUME NEW pinned \in Tiers \cup {"none"}, ExecuteRoute(pinned) PROVE RouteInv'
  <2> DEFINE tiers == IF pinned \in Tiers THEN <<pinned>> ELSE Defaults
  <2>1. tiers \in Seq(Tiers) /\ tiers # <<>> /\ Len(tiers) \in Nat
    BY RoutingAssumption
  <2>2. Ordered(tiers)
    BY RoutingAssumption DEF Ordered
  <2>3. choosing' = [stage |-> "ask", read |-> <<>>, candidates |-> tiers] /\ decision' = Undecided
    BY <1>1 DEF ExecuteRoute
  <2> HIDE DEF tiers
  <2> QED
    BY <2>1, <2>2, <2>3 DEF RouteInv, RouteTypeOK, Undecided, DearerOnlyIfTrustRose
<1>2. CASE Decide
  <2>1. PICK trust \in Readings : choosing' = [choosing EXCEPT !.read = Append(@, trust)]
    BY <1>2 DEF Decide
  <2>2. /\ Append(choosing.read, trust) \in Seq(Readings)
        /\ Len(Append(choosing.read, trust)) = Len(choosing.read) + 1
    BY <1>0
  <2>3. /\ choosing' \in [stage : {"idle", "ask"}, candidates : Seq(Tiers), read : Seq(Readings)]
        /\ choosing'.read = Append(choosing.read, trust) /\ choosing'.candidates = choosing.candidates
        /\ choosing'.stage = choosing.stage
    BY <1>0, <2>1, <2>2
  <2>4. Len(choosing'.read) <= Len(choosing'.candidates)
    BY <1>0, <1>2, <2>2, <2>3 DEF Decide, Asking
  <2>5. decision' = decision /\ choosing.stage = "ask" /\ decision.status # "decided"
    BY <1>2 DEF Decide, Asking, RouteInv
  <2> QED
    BY <2>3, <2>4, <2>5, <1>0 DEF RouteInv, RouteTypeOK, DearerOnlyIfTrustRose
<1>3. CASE DecideRaises \/ ExecuteRaises
  <2>1. /\ choosing' \in [stage : {"idle", "ask"}, candidates : Seq(Tiers), read : Seq(Readings)]
        /\ choosing'.read = choosing.read /\ choosing'.candidates = choosing.candidates
        /\ choosing'.stage = "idle"
    BY <1>0, <1>3 DEF DecideRaises, ExecuteRaises
  <2>2. /\ decision' \in [status : {"none", "decided", "unavailable"}, selected : Tiers \cup {"none"}]
        /\ decision'.status # "decided"
    BY <1>0, <1>3 DEF DecideRaises, ExecuteRaises, Asking, RouteInv
  <2> QED
    BY <2>1, <2>2, <1>0 DEF RouteInv, RouteTypeOK, DearerOnlyIfTrustRose
<1>4. CASE UNCHANGED routeVars
  BY <1>4 DEF routeVars, RouteInv, RouteTypeOK, DearerOnlyIfTrustRose
<1> QED
  BY <1>1, <1>2, <1>3, <1>4, SelectKeeps DEF RouteNext

THEOREM RouteInvariant == RouteSpec => []RouteInv
  BY RouteInvInit, RouteInvNext, PTL DEF RouteSpec

\* A tier that is not the cheapest is chosen only for trust that rose while
\* the candidates were asked for.
THEOREM CheapestUnlessTrustRose == RouteSpec => []DearerOnlyIfTrustRose
<1>1. RouteInv => DearerOnlyIfTrustRose
  BY DEF RouteInv
<1> QED
  BY <1>1, RouteInvariant, PTL

-----------------------------------------------------------------------------
(***************************************************************************)
(* The connector services.  What a call changed outside is in one of the   *)
(* four sets: the posted messages and sessions, the pool, the mined        *)
(* transactions, and those replaced or dropped.  A call is in one of them  *)
(* only once it is answered.                                               *)
(***************************************************************************)
InPool == {t.call : t \in pooled}
Outgone == posted \cup mined \cup displaced \cup InPool

ToldTrue == \A c \in VendorCalls :
    /\ vendorCall[c].stage # "done" => vendorCall[c].answer = "none" /\ c \notin Outgone
    /\ c \in Outgone => vendorCall[c].answer \in {"specialized", "degraded"}
    /\ (vendorCall[c].answer = "specialized" /\ Alters(c)) => c \in Outgone

OnePlace ==
    /\ displaced \cap (posted \cup mined \cup InPool) = {}
    /\ InPool \cap (posted \cup mined) = {}
    /\ \A t, u \in pooled : t.call = u.call \/ t.nonce = u.nonce => t = u

VendorInv == VendorTypeOK /\ ToldTrue /\ OnePlace

Stages == {"idle", "adapter", "send", "done"}
Tellings == {"none", "specialized", "degraded", "unconfigured", "stub", "error", "400", "404"}
Calling == [stage : Stages, order : Orders, nonce : Nat, answer : Tellings]

LEMMA VendorTypes ==
  VendorTypeOK <=> /\ secrets \in Configured /\ vendorCall \in [VendorCalls -> Calling]
                   /\ posted \cup mined \cup displaced \subseteq VendorCalls
                   /\ pooled \subseteq [call : VendorCalls, nonce : Nat]
  BY DEF VendorTypeOK, Calling, Stages, Tellings

LEMMA MinedCounted == ASSUME VendorInv PROVE Cardinality(mined) \in Nat
<1>1. mined \subseteq VendorCalls
  BY VendorTypes DEF VendorInv
<1> QED
  BY <1>1, VendorAssumption, FS_Subset, FS_CardinalityType

LEMMA VendorInvInit == VendorInit => VendorInv
<1>1. (CHOOSE o \in Orders : TRUE) \in Orders
  BY VendorAssumption
<1> QED
  BY <1>1, VendorTypes
  DEF VendorInit, VendorInv, ToldTrue, OnePlace, Outgone, InPool, Calling, Stages, Tellings

\* A step of one call, which may move what others have outside but neither
\* add nor take away from it.
LEMMA CallMoves ==
  ASSUME VendorInv, NEW c \in VendorCalls, NEW r \in Calling,
         vendorCall[c].stage # "done", vendorCall' = [vendorCall EXCEPT ![c] = r],
         secrets' = secrets, posted' \cup mined' \cup displaced' \subseteq VendorCalls,
         pooled' \subseteq [call : VendorCalls, nonce : Nat], OnePlace',
         \A d \in VendorCalls : d # c => (d \in Outgone' <=> d \in Outgone),
         r.stage # "done" => r.answer = "none" /\ c \notin Outgone',
         c \in Outgone' => r.answer \in {"specialized", "degraded"},
         (r.answer = "specialized" /\ <<r.order.name, r.order.op>> \in Effects) => c \in Outgone'
  PROVE  VendorInv'
<1>1. vendorCall \in [VendorCalls -> Calling] /\ secrets \in Configured
  BY VendorTypes DEF VendorInv
<1>2. /\ vendorCall' \in [VendorCalls -> Calling]
      /\ \A d \in VendorCalls : vendorCall'[d] = IF d = c THEN r ELSE vendorCall[d]
  BY <1>1
<1>3. VendorTypeOK'
  BY <1>1, <1>2 DEF VendorTypeOK, Calling, Stages, Tellings
<1>4. ASSUME NEW d \in VendorCalls
      PROVE  /\ vendorCall'[d].stage # "done" => vendorCall'[d].answer = "none" /\ d \notin Outgone'
             /\ d \in Outgone' => vendorCall'[d].answer \in {"specialized", "degraded"}
             /\ (vendorCall'[d].answer = "specialized" /\ Alters(d)') => d \in Outgone'
  <2>1. CASE d = c
    BY <2>1, <1>2 DEF Alters, Op
  <2>2. CASE d # c
    <3>1. vendorCall'[d] = vendorCall[d] /\ (Alters(d)' <=> Alters(d))
      BY <2>2, <1>2 DEF Alters, Op
    <3> QED
      BY <2>2, <3>1 DEF VendorInv, ToldTrue
  <2> QED
    BY <2>1, <2>2
<1> QED
  BY <1>3, <1>4 DEF VendorInv, ToldTrue

\* A call is answered, and what it has outside is what it had.
LEMMA OnlyAnswers ==
  ASSUME VendorInv, NEW c \in VendorCalls, NEW answers_,
         vendorCall[c].stage # "done", Answers(c, answers_), answers_ \subseteq Tellings,
         "specialized" \in answers_ => ~Alters(c), UNCHANGED outside
  PROVE  VendorInv'
<1>1. PICK a \in answers_ : vendorCall' = [vendorCall EXCEPT ![c] = [@ EXCEPT !.stage = "done", !.answer = a]]
  BY DEF Answers
<1>2. vendorCall[c] \in Calling
  BY VendorTypes DEF VendorInv
<1> DEFINE r == [vendorCall[c] EXCEPT !.stage = "done", !.answer = a]
<1>3. /\ r \in Calling /\ r.stage = "done" /\ r.answer = a /\ r.order = vendorCall[c].order
      /\ vendorCall' = [vendorCall EXCEPT ![c] = r]
  BY <1>1, <1>2 DEF Calling, Stages
<1>4. /\ secrets' = secrets /\ Outgone' = Outgone /\ OnePlace' /\ c \notin Outgone
      /\ posted' \cup mined' \cup displaced' \subseteq VendorCalls
      /\ pooled' \subseteq [call : VendorCalls, nonce : Nat]
  BY VendorTypes DEF VendorInv, ToldTrue, OnePlace, Outgone, InPool, outside
<1>5. (a = "specialized") => <<r.order.name, r.order.op>> \notin Effects
  BY DEF Alters, Op
<1> QED
  BY <1>3, <1>4, <1>5, CallMoves

\* A message or a session: outside or not, with or without an answer.
LEMMA PostKeeps ==
  ASSUME VendorInv, NEW c \in VendorCalls, NEW answer \in {"specialized", "degraded"}, NEW sent \in SUBSET {c},
         vendorCall[c].stage # "done", Answers(c, {answer}), answer = "specialized" => c \in sent,
         posted' = posted \cup sent, UNCHANGED <<secrets, pooled, mined, displaced>>
  PROVE  VendorInv'
<1>1. vendorCall' = [vendorCall EXCEPT ![c] = [@ EXCEPT !.stage = "done", !.answer = answer]]
  BY DEF Answers
<1>2. vendorCall[c] \in Calling
  BY VendorTypes DEF VendorInv
<1> DEFINE r == [vendorCall[c] EXCEPT !.stage = "done", !.answer = answer]
<1>3. /\ r \in Calling /\ r.stage = "done" /\ r.answer = answer
      /\ vendorCall' = [vendorCall EXCEPT ![c] = r]
  BY <1>1, <1>2 DEF Calling, Stages, Tellings
<1>4. c \notin Outgone
  BY DEF VendorInv, ToldTrue
<1>5. /\ secrets' = secrets /\ OnePlace'
      /\ posted' \cup mined' \cup displaced' \subseteq VendorCalls
      /\ pooled' \subseteq [call : VendorCalls, nonce : Nat]
  BY <1>4, VendorTypes DEF VendorInv, OnePlace, Outgone, InPool
<1>6. Outgone' = Outgone \cup sent
  BY DEF Outgone, InPool
<1> QED
  BY <1>3, <1>5, <1>6, CallMoves

LEMMA ExecuteKeeps ==
  ASSUME VendorInv, NEW c \in VendorCalls, NEW o \in Orders, Execute(c, o)
  PROVE  VendorInv'
<1>1. PICK stage \in {"done", "adapter"}, answer \in {"400", "none", "stub", "404"} :
        /\ vendorCall' = [vendorCall EXCEPT ![c] =
                             [stage |-> stage, order |-> o, nonce |-> 0, answer |-> answer]]
        /\ stage # "done" => answer = "none"
  BY DEF Execute
<1> DEFINE r == [stage |-> stage, order |-> o, nonce |-> 0, answer |-> answer]
<1>2. r \in Calling /\ vendorCall[c].stage # "done"
  BY DEF Execute, Calling, Stages, Tellings
<1>3. /\ secrets' = secrets /\ Outgone' = Outgone /\ OnePlace' /\ c \notin Outgone
      /\ posted' \cup mined' \cup displaced' \subseteq VendorCalls
      /\ pooled' \subseteq [call : VendorCalls, nonce : Nat]
  BY <1>2, VendorTypes DEF Execute, VendorInv, ToldTrue, OnePlace, Outgone, InPool, outside
<1> QED
  BY <1>1, <1>2, <1>3, CallMoves

\* The adapters that only read, and those that turn an order away.
LEMMA ReaderKeeps ==
  ASSUME VendorInv, NEW c \in VendorCalls,
         GitHub(c) \/ DockerHub(c) \/ GitLab(c) \/ SelfHostedML(c) \/ Salesforce(c) \/ RawRpcOrRead(c)
  PROVE  VendorInv'
<1>1. Reading \subseteq Tellings /\ {"specialized"} \subseteq Tellings /\ {"error"} \subseteq Tellings
  BY DEF Reading, Tellings
<1>2. PICK answers_ \in {Reading, {"specialized"}, {"error"}} : Answers(c, answers_)
  BY DEF GitHub, DockerHub, GitLab, SelfHostedML, Salesforce, RawRpcOrRead
<1>3. vendorCall[c].stage # "done" /\ ~Alters(c) /\ UNCHANGED outside
  BY DEF GitHub, DockerHub, GitLab, SelfHostedML, Salesforce, RawRpcOrRead, Serves, Alters, Effects
<1> QED
  BY <1>1, <1>2, <1>3, OnlyAnswers

LEMMA SlackKeeps == ASSUME VendorInv, NEW c \in VendorCalls, Slack(c) PROVE VendorInv'
<1>1. vendorCall[c].stage # "done"
  BY DEF Slack, Serves
<1>2. CASE Op(c) = "post_message" /\ "SLACK_BOT_TOKEN" \in secrets
  <2>1. PICK outcome \in {"posted"} \cup (VendorFaults \cap {"unreachable", "lost", "refused"}) :
          /\ posted' = posted \cup (IF outcome \in {"posted", "lost"} THEN {c} ELSE {})
          /\ Answers(c, SlackSays(outcome)) /\ UNCHANGED <<secrets, pooled, mined, displaced>>
    BY <1>2 DEF Slack
  <2> QED
    BY <1>1, <2>1, PostKeeps DEF SlackSays
<1>3. CASE ~(Op(c) = "post_message" /\ "SLACK_BOT_TOKEN" \in secrets)
  <2>1. PICK answers_ \in {{"degraded"}, {"error"}} : Answers(c, answers_) /\ UNCHANGED outside
    BY <1>3 DEF Slack
  <2> QED
    BY <1>1, <2>1, OnlyAnswers DEF Tellings
<1> QED
  BY <1>2, <1>3

LEMMA CheckoutKeeps == ASSUME VendorInv, NEW c \in VendorCalls, Checkout(c) PROVE VendorInv'
<1>1. vendorCall[c].stage # "done"
  BY DEF Checkout, Serves
<1>2. CASE "STRIPE_API_KEY" \in secrets
  <2>1. PICK outcome \in {"posted"} \cup (VendorFaults \cap {"unreachable", "lost"}) :
          /\ posted' = posted \cup (IF outcome \in {"posted", "lost"} THEN {c} ELSE {})
          /\ Answers(c, IF outcome = "posted" THEN {"specialized"} ELSE {"degraded"})
          /\ UNCHANGED <<secrets, pooled, mined, displaced>>
    BY <1>2 DEF Checkout
  <2> QED
    BY <1>1, <2>1, PostKeeps
<1>3. CASE "STRIPE_API_KEY" \notin secrets
  BY <1>1, <1>3, OnlyAnswers DEF Checkout, Tellings
<1> QED
  BY <1>2, <1>3

LEMMA WriteKeeps == ASSUME VendorInv, NEW c \in VendorCalls, ContractWrite(c) PROVE VendorInv'
<1>1. vendorCall[c].stage # "done" /\ UNCHANGED outside
  BY DEF ContractWrite, Serves
<1>2. CASE vendorCall' = [vendorCall EXCEPT ![c] = [@ EXCEPT !.stage = "send", !.nonce = Cardinality(mined)]]
  <2>1. vendorCall[c] \in Calling /\ Cardinality(mined) \in Nat /\ vendorCall[c].answer = "none"
    BY <1>1, VendorTypes, MinedCounted DEF VendorInv, ToldTrue
  <2> DEFINE r == [vendorCall[c] EXCEPT !.stage = "send", !.nonce = Cardinality(mined)]
  <2>2. /\ r \in Calling /\ r.stage = "send" /\ r.answer = "none"
        /\ vendorCall' = [vendorCall EXCEPT ![c] = r]
    BY <1>2, <2>1 DEF Calling, Stages
  <2>3. /\ secrets' = secrets /\ Outgone' = Outgone /\ OnePlace' /\ c \notin Outgone
        /\ posted' \cup mined' \cup displaced' \subseteq VendorCalls
        /\ pooled' \subseteq [call : VendorCalls, nonce : Nat]
    BY <1>1, VendorTypes DEF VendorInv, ToldTrue, OnePlace, Outgone, InPool, outside
  <2> QED
    BY <1>1, <2>2, <2>3, CallMoves
<1>3. CASE Answers(c, {"degraded"})
  BY <1>1, <1>3, OnlyAnswers DEF Tellings
<1> QED
  BY <1>2, <1>3 DEF ContractWrite

\* Sending: the transactions at the same nonce leave the pool for this one.
LEMMA SendKeeps == ASSUME VendorInv, NEW c \in VendorCalls, SendRaw(c) PROVE VendorInv'
<1>1. vendorCall[c] \in Calling /\ vendorCall[c].stage # "done" /\ c \notin Outgone
  BY VendorTypes DEF SendRaw, VendorInv, ToldTrue
<1>2. ASSUME vendorCall[c].nonce = Cardinality(mined),
             pooled' = (pooled \ Rivals(c)) \cup {[call |-> c, nonce |-> vendorCall[c].nonce]},
             displaced' = displaced \cup {t.call : t \in Rivals(c)},
             Answers(c, {"specialized"} \cup (IF "lost" \in VendorFaults THEN {"degraded"} ELSE {}))
      PROVE  VendorInv'
  <2>1. PICK a \in {"specialized", "degraded"} :
          vendorCall' = [vendorCall EXCEPT ![c] = [@ EXCEPT !.stage = "done", !.answer = a]]
    BY <1>2 DEF Answers
  <2> DEFINE r == [vendorCall[c] EXCEPT !.stage = "done", !.answer = a]
             own == [call |-> c, nonce |-> vendorCall[c].nonce]
  <2>2. /\ r \in Calling /\ r.stage = "done" /\ r.answer = a
        /\ vendorCall' = [vendorCall EXCEPT ![c] = r]
    BY <2>1, <1>1 DEF Calling, Stages, Tellings
  <2>3. UNCHANGED <<secrets, posted, mined>>
    BY DEF SendRaw
  <2>4. /\ pooled \subseteq [call : VendorCalls, nonce : Nat]
        /\ own \in [call : VendorCalls, nonce : Nat] /\ own.call = c /\ own.nonce = vendorCall[c].nonce
        /\ posted \cup mined \cup displaced \subseteq VendorCalls
    BY <1>1, VendorTypes DEF VendorInv, Calling
  <2>5. /\ posted' \cup mined' \cup displaced' \subseteq VendorCalls
        /\ pooled' \subseteq [call : VendorCalls, nonce : Nat]
    BY <1>2, <2>3, <2>4 DEF Rivals
  <2>6. \A t \in pooled : t.call # c
    BY <1>1 DEF Outgone, InPool
  <2>7. InPool' = {t.call : t \in pooled \ Rivals(c)} \cup {c}
    BY <1>2, <2>4 DEF InPool
  <2>8. OnePlace'
    <3>1. \A t \in pooled \ Rivals(c) : t.call \notin {u.call : u \in Rivals(c)}
      BY DEF VendorInv, OnePlace, Rivals
    <3>2. (displaced \cup {t.call : t \in Rivals(c)}) \cap (posted \cup mined \cup InPool') = {}
      <4>1. {t.call : t \in Rivals(c)} \cap (posted \cup mined) = {}
        BY DEF VendorInv, OnePlace, InPool, Rivals
      <4> QED
        BY <2>7, <3>1, <2>6, <4>1, <1>1 DEF VendorInv, OnePlace, InPool, Outgone, Rivals
    <3>3. InPool' \cap (posted \cup mined) = {}
      BY <2>7, <1>1 DEF VendorInv, OnePlace, InPool, Outgone
    <3>4. \A t, u \in pooled' : t.call = u.call \/ t.nonce = u.nonce => t = u
      BY <1>2, <2>4, <2>6 DEF VendorInv, OnePlace, Rivals
    <3> QED
      BY <3>2, <3>3, <3>4, <1>2, <2>3 DEF OnePlace
  <2>9. \A d \in VendorCalls : d # c => (d \in Outgone' <=> d \in Outgone)
    BY <1>2, <2>3, <2>7 DEF Outgone, InPool, Rivals
  <2>10. c \in Outgone'
    BY <2>7 DEF Outgone
  <2> QED
    BY <1>1, <2>2, <2>3, <2>5, <2>8, <2>9, <2>10, CallMoves
<1>3. ASSUME Answers(c, {"degraded"}), UNCHANGED <<pooled, displaced>>
      PROVE  VendorInv'
  BY <1>1, <1>3, OnlyAnswers DEF SendRaw, outside, Tellings
<1> QED
  BY <1>2, <1>3 DEF SendRaw

\* Mining and dropping: one transaction leaves the pool.
LEMMA LeavesPool ==
  ASSUME VendorInv, NEW t \in pooled, pooled' = pooled \ {t}, UNCHANGED <<secrets, vendorCall, posted>>,
         \/ mined' = mined \cup {t.call} /\ displaced' = displaced
         \/ displaced' = displaced \cup {t.call} /\ mined' = mined
  PROVE  VendorInv'
<1>1. /\ secrets \in Configured /\ vendorCall \in [VendorCalls -> Calling]
      /\ posted \cup mined \cup displaced \subseteq VendorCalls
      /\ pooled \subseteq [call : VendorCalls, nonce : Nat]
  BY VendorTypes DEF VendorInv
<1>2. t.call \in VendorCalls /\ t.call \in InPool
  BY <1>1 DEF InPool
<1>3. VendorTypeOK'
  BY <1>1, <1>2 DEF VendorTypeOK, Calling, Stages, Tellings
<1>4. InPool' = InPool \ {t.call}
  BY DEF VendorInv, OnePlace, InPool
<1>5. Outgone' = Outgone
  BY <1>2, <1>4 DEF Outgone
<1>6. ToldTrue'
  BY <1>5 DEF VendorInv, ToldTrue, Alters, Op
<1>7. OnePlace'
  BY <1>2, <1>4 DEF VendorInv, OnePlace
<1> QED
  BY <1>3, <1>6, <1>7 DEF VendorInv

LEMMA VendorInvNext == VendorInv /\ [VendorNext]_vendorVars => VendorInv'
<1> SUFFICES ASSUME VendorInv, [VendorNext]_vendorVars PROVE VendorInv'
  OBVIOUS
<1>1. ASSUME NEW c \in VendorCalls, Adapter(c) PROVE VendorInv'
  BY <1>1, ReaderKeeps, SlackKeeps, CheckoutKeeps, WriteKeeps, SendKeeps DEF Adapter
<1>2. ASSUME NEW c \in VendorCalls, NEW o \in Orders, Execute(c, o) PROVE VendorInv'
  BY <1>2, ExecuteKeeps
<1>3. CASE MineNext
  BY <1>3, LeavesPool DEF MineNext
<1>4. CASE DropPending
  BY <1>4, LeavesPool DEF DropPending
<1>5. CASE UNCHANGED vendorVars
  BY <1>5 DEF vendorVars, VendorInv, VendorTypeOK, ToldTrue, OnePlace, Outgone, InPool, Alters, Op
<1> QED
  BY <1>1, <1>2, <1>3, <1>4, <1>5 DEF VendorNext

THEOREM VendorInvariant == VendorSpec => []VendorInv
  BY VendorInvInit, VendorInvNext, PTL DEF VendorSpec

LEMMA EffectsOf == VendorInv => EffectMatchesAnswer
  BY DEF VendorInv, ToldTrue, OnePlace, Outgone, InPool, EffectMatchesAnswer, Took

\* What a caller is told of a message, a session or a transaction is what
\* came about outside.
THEOREM EffectsToldTruly == VendorSpec => []EffectMatchesAnswer
  BY VendorInvariant, EffectsOf, PTL

-----------------------------------------------------------------------------
(***************************************************************************)
(* The conformance suite.  A run adjusts an entity of its own, once, when  *)
(* it comes to trust.adjust; an undisturbed check has read one ceiling all *)
(* along, and its ledger still holds the anchor it read.                   *)
(***************************************************************************)
CheckSet == ToSet(CHECKS)
Anchors == [store : Stores, seq : 0..MaxChain]
Suiting == [run : 0..MaxRuns, ids : SUBSET CheckSet, at : 0..13, calls : Seq(BOOLEAN), newest : Anchors]
Deployed == [store : Stores, chains : [Stores -> 0..MaxChain], ceiling : Ceilings, down : BOOLEAN]

Untouched == \A e \in 1..MaxRuns :
    (e > suite.run \/ (e = suite.run /\ suite.at \in 1..5)) => \A s \in Stores : bumps[e][s] = 0

OneCeiling == (Running /\ Now = "policy-ordinal" /\ Now \notin disturbed) =>
    \A i \in 1..Len(suite.calls) : suite.calls[i] <=> i <= deployment.ceiling + 1

SameLedger == (Running /\ Now = "ledger.verify" /\ Now \notin disturbed /\ suite.calls # <<>>) =>
    suite.newest.store = deployment.store /\ suite.newest.seq <= deployment.chains[deployment.store]

SuiteInv ==
    /\ SuiteTypeOK
    /\ Running => suite.run # 0
    /\ bumps \in [1..MaxRuns -> [Stores -> Nat]] /\ Untouched
    /\ OneCeiling /\ SameLedger

\* Where in the list the checks are that the proof follows.
LEMMA ChecksPlaced ==
  /\ Len(CHECKS) = 12
  /\ \A n \in 1..12 : CHECKS[n] \in CheckSet
  /\ \A n \in 1..12 : CHECKS[n] # "end" /\ (CHECKS[n] = "trust.adjust" => n = 5)
<1>1. Len(CHECKS) = 12 /\ DOMAIN CHECKS = 1..12
  BY DEF CHECKS
<1>2. \A n \in 1..12 : CHECKS[n] \in CheckSet
  BY <1>1 DEF CheckSet, ToSet
<1>3. ASSUME NEW n \in 1..12 PROVE CHECKS[n] # "end" /\ (CHECKS[n] = "trust.adjust" => n = 5)
  BY DEF CHECKS
<1> QED
  BY <1>1, <1>2, <1>3

LEMMA SuiteTypes ==
  SuiteTypeOK <=> /\ deployment \in Deployed
                  /\ suite \in Suiting /\ report.failed \subseteq CheckSet
                  /\ kept \in Seq(BOOLEAN) /\ Len(kept) <= MaxKept
  BY ChecksPlaced DEF SuiteTypeOK, Suiting, Deployed, Anchors, CheckSet

LEMMA AfterMoves ==
  ASSUME NEW at \in 0..12, NEW ids
  PROVE  After(at, ids) \in (at + 1)..13
<1> DEFINE Places == {n \in (at + 1)..13 : n <= 12 => CHECKS[n] \in ids}
<1>1. Places \in SUBSET Nat /\ 13 \in Places
  OBVIOUS
<1>2. PICK n \in Places : \A m \in Places : n <= m
  <2> HIDE DEF Places
  <2> QED
    BY <1>1, LeastExists
<1>3. n \in (at + 1)..13 /\ (n <= 12 => CHECKS[n] \in ids)
  BY <1>2
<1>4. \A m \in (at + 1)..(n - 1) : CHECKS[m] \notin ids
  BY <1>2, <1>3
<1>5. \E k \in (at + 1)..(Len(CHECKS) + 1) :
        /\ k <= Len(CHECKS) => CHECKS[k] \in ids
        /\ \A m \in (at + 1)..(k - 1) : CHECKS[m] \notin ids
  BY <1>3, <1>4, ChecksPlaced
<1> QED
  BY <1>5, ChecksPlaced DEF After

LEMMA SuiteInvInit == SuiteInit => SuiteInv
<1>1. (CHOOSE c \in Ceilings : TRUE) \in Ceilings
  BY SuiteAssumption
<1> QED
  BY <1>1, SuiteAssumption, SuiteTypes
  DEF SuiteInit, SuiteInv, Suiting, Deployed, Anchors, NoAnchor, Running, Untouched, OneCeiling,
      SameLedger, Unreported, Stores

\* A check ends: the run moves on.
LEMMA VerdictKeeps ==
  ASSUME SuiteInv, Running, Now # "end", NEW status \in {"pass", "fail", "skip"}, Verdict(status),
         UNCHANGED <<deployment, kept, disturbed>>,
         bumps' \in [1..MaxRuns -> [Stores -> Nat]],
         bumps' = bumps \/
           (Now = "trust.adjust" /\ \A e \in 1..MaxRuns : e # suite.run => bumps'[e] = bumps[e])
  PROVE  SuiteInv'
<1>1. suite \in Suiting /\ report.failed \subseteq CheckSet /\ suite.run # 0 /\ suite.at \in 1..12
  BY SuiteTypes, ChecksPlaced DEF SuiteInv, Running, Now, Suiting
<1>2. Now = CHECKS[suite.at] /\ Now \in CheckSet /\ (Now = "trust.adjust" => suite.at = 5)
  BY <1>1, ChecksPlaced DEF Now
<1> DEFINE n == After(suite.at, suite.ids)
<1>3. n \in (suite.at + 1)..13
  BY <1>1, AfterMoves
<1>4. /\ suite' \in Suiting /\ suite'.run = suite.run /\ suite'.at = n /\ suite'.calls = <<>>
  <2>1. suite' = [suite EXCEPT !.at = n, !.calls = <<>>, !.newest = NoAnchor]
    BY DEF Verdict
  <2>2. /\ suite.ids \in SUBSET CheckSet /\ suite.run \in 0..MaxRuns /\ <<>> \in Seq(BOOLEAN)
        /\ NoAnchor \in Anchors
    BY <1>1, SuiteAssumption DEF Suiting, NoAnchor, Anchors, Stores
  <2>3. n \in 0..13
    BY <1>1, <1>3
  <2> HIDE DEF n
  <2>4. /\ suite'.run = suite.run /\ suite'.ids = suite.ids /\ suite'.at = n /\ suite'.calls = <<>>
        /\ suite'.newest = NoAnchor
    BY <1>1, <2>1 DEF Suiting
  <2> QED
    BY <1>1, <2>1, <2>2, <2>3, <2>4 DEF Suiting
<1>5. report'.failed \subseteq CheckSet
  BY <1>1, <1>2 DEF Verdict
<1> HIDE DEF n
<1>6. SuiteTypeOK'
  <2>1. suite' \in [run : 0..MaxRuns, ids : SUBSET ToSet(CHECKS), at : 0..(Len(CHECKS) + 1),
                       calls : Seq(BOOLEAN), newest : [store : Stores, seq : 0..MaxChain]]
    BY <1>4, ChecksPlaced DEF Suiting, Anchors, CheckSet
  <2> QED
    BY <1>5, <2>1 DEF SuiteInv, SuiteTypeOK, CheckSet
<1>7. OneCeiling' /\ SameLedger'
  BY <1>4 DEF OneCeiling, SameLedger
<1>8. Untouched'
  <2>1. suite.at \in 1..12 /\ suite.run \in Nat
    BY <1>1 DEF Suiting
  <2>2. suite'.at \in 1..5 => suite.at \in 1..4
    BY <1>3, <1>4, <2>1
  <2> QED
    BY <1>2, <1>4, <2>1, <2>2 DEF SuiteInv, Untouched
<1> QED
  BY <1>1, <1>4, <1>6, <1>7, <1>8 DEF SuiteInv

\* A call within a check: the run stays where it is.
LEMMA CallsKeeps ==
  ASSUME SuiteInv, Running, NEW answer \in BOOLEAN, Calls(answer),
         UNCHANGED <<deployment, bumps, kept, disturbed>>, Now # "ledger.verify",
         Now = "policy-ordinal" => (answer <=> Len(suite.calls) <= deployment.ceiling)
  PROVE  SuiteInv'
<1>1. suite \in Suiting /\ suite' = [suite EXCEPT !.calls = Append(@, answer)]
  BY SuiteTypes DEF SuiteInv, Calls
<1>2. /\ suite' \in Suiting /\ suite'.run = suite.run /\ suite'.at = suite.at
      /\ suite'.calls = Append(suite.calls, answer) /\ suite.calls \in Seq(BOOLEAN)
  <2>1. suite.calls \in Seq(BOOLEAN)
    BY <1>1 DEF Suiting
  <2> DEFINE calls == Append(suite.calls, answer)
  <2>2. calls \in Seq(BOOLEAN) /\ suite' = [suite EXCEPT !.calls = calls]
    BY <1>1, <2>1
  <2> HIDE DEF calls
  <2>3. suite' \in Suiting /\ suite'.run = suite.run /\ suite'.at = suite.at /\ suite'.calls = calls
    BY <1>1, <2>2 DEF Suiting
  <2> QED
    BY <2>1, <2>3 DEF calls
<1>3. SuiteTypeOK' /\ Running' /\ Now' = Now
  <2>1. suite' \in [run : 0..MaxRuns, ids : SUBSET ToSet(CHECKS), at : 0..(Len(CHECKS) + 1),
                       calls : Seq(BOOLEAN), newest : [store : Stores, seq : 0..MaxChain]]
    BY <1>2, ChecksPlaced DEF Suiting, Anchors, CheckSet
  <2>2. Running' /\ Now' = Now
    BY <1>2 DEF Running, Now
  <2> QED
    BY <2>1, <2>2 DEF SuiteInv, SuiteTypeOK, Calls
<1>4. OneCeiling'
  <2>1. ASSUME Now = "policy-ordinal", Now \notin disturbed, NEW i \in 1..Len(suite'.calls)
        PROVE  suite'.calls[i] <=> i <= deployment.ceiling + 1
    <3>1. Len(suite'.calls) = Len(suite.calls) + 1 /\ Len(suite.calls) \in Nat
      BY <1>2
    <3>2. deployment.ceiling \in Nat
      BY SuiteTypes, SuiteAssumption DEF SuiteInv, Deployed
    <3>3. CASE i \in 1..Len(suite.calls)
      <4>1. suite'.calls[i] = suite.calls[i]
        BY <1>2, <3>3
      <4> QED
        BY <2>1, <3>3, <4>1 DEF SuiteInv, OneCeiling
    <3>4. CASE i = Len(suite.calls) + 1
      <4>1. suite'.calls[i] = answer
        BY <1>2, <3>1, <3>4
      <4>2. Len(suite.calls) <= deployment.ceiling <=> i <= deployment.ceiling + 1
        BY <3>1, <3>2, <3>4
      <4> QED
        BY <2>1, <4>1, <4>2
    <3> QED
      BY <3>1, <3>3, <3>4
  <2> QED
    BY <1>3, <2>1 DEF OneCeiling
<1>5. SameLedger'
  BY <1>3 DEF SameLedger
<1> QED
  BY <1>2, <1>3, <1>4, <1>5 DEF SuiteInv, Untouched, Calls, Running

LEMMA CreateRunKeeps == ASSUME SuiteInv, NEW ids \in Selections, CreateRun(ids) PROVE SuiteInv'
<1>1. suite \in Suiting /\ suite.at = 0 /\ suite.run \in 0..MaxRuns /\ suite.run < MaxRuns
  BY SuiteTypes DEF SuiteInv, CreateRun, Running, Suiting
<1> DEFINE n == After(0, ids)
<1>2. n \in 1..13
  BY AfterMoves
<1>3. suite' = [run |-> suite.run + 1, ids |-> ids, at |-> n, calls |-> <<>>,
               newest |-> NoAnchor]
  BY DEF CreateRun
<1> HIDE DEF n
<1>4. /\ ids \in SUBSET CheckSet /\ suite.run + 1 \in 0..MaxRuns /\ n \in 0..13 /\ <<>> \in Seq(BOOLEAN)
      /\ NoAnchor \in Anchors
  BY <1>1, <1>2, SuiteAssumption DEF CheckSet, NoAnchor, Anchors, Stores
<1>5. suite' \in Suiting /\ suite'.run = suite.run + 1 /\ suite'.calls = <<>>
  BY <1>3, <1>4 DEF Suiting
<1>6. UNCHANGED <<deployment, bumps, kept>> /\ report'.failed = {} /\ disturbed' = {}
  BY DEF CreateRun, Unreported
<1>7. SuiteTypeOK'
  <2>1. suite' \in [run : 0..MaxRuns, ids : SUBSET ToSet(CHECKS), at : 0..(Len(CHECKS) + 1),
                       calls : Seq(BOOLEAN), newest : [store : Stores, seq : 0..MaxChain]]
    BY <1>5, ChecksPlaced DEF Suiting, Anchors, CheckSet
  <2> QED
    BY <1>6, <2>1 DEF SuiteInv, SuiteTypeOK
<1>8. Untouched'
  BY <1>1, <1>5, <1>6 DEF SuiteInv, Untouched
<1>9. OneCeiling' /\ SameLedger'
  BY <1>5 DEF OneCeiling, SameLedger
<1> QED
  BY <1>1, <1>5, <1>6, <1>7, <1>8, <1>9 DEF SuiteInv

LEMMA PlainKeeps == ASSUME SuiteInv, Skip \/ Shape PROVE SuiteInv'
<1>1. PICK status \in {"pass", "skip"} : Verdict(status)
  BY DEF Skip, Shape
<1>2. /\ Running /\ Now # "end" /\ UNCHANGED <<deployment, bumps, kept, disturbed>>
      /\ bumps' \in [1..MaxRuns -> [Stores -> Nat]]
  BY DEF Skip, Shape, SuiteInv
<1> QED
  BY <1>1, <1>2, VerdictKeeps

LEMMA HealthKeeps == ASSUME SuiteInv, Health PROVE SuiteInv'
<1>1. PICK status \in {"pass", "fail"} : Verdict(status)
  BY DEF Health, PassIf
<1>2. /\ Running /\ Now # "end" /\ UNCHANGED <<deployment, bumps, kept, disturbed>>
      /\ bumps' \in [1..MaxRuns -> [Stores -> Nat]]
  BY DEF Health, SuiteInv
<1> QED
  BY <1>1, <1>2, VerdictKeeps

\* The entity of the run has not been adjusted before, in either store.
LEMMA TrustAdjustKeeps ==
  ASSUME SuiteInv, TrustAdjust
  PROVE  SuiteInv' /\ (suite.calls = <<>> \/ Verdict("pass"))
<1>1. Running /\ Now = "trust.adjust" /\ UNCHANGED <<deployment, kept, disturbed>>
  BY DEF TrustAdjust
<1>2. CASE suite.calls = <<>>
  BY <1>1, <1>2, CallsKeeps DEF TrustAdjust
<1>3. CASE suite.calls # <<>>
  <2>1. /\ suite \in Suiting /\ deployment.store \in Stores /\ suite.run \in 1..MaxRuns
        /\ suite.at = 5 /\ bumps \in [1..MaxRuns -> [Stores -> Nat]]
    <3>1. suite \in Suiting /\ deployment.store \in Stores /\ suite.at \in 1..12 /\ suite.run # 0
      BY <1>1, SuiteTypes, ChecksPlaced DEF SuiteInv, Running, Now, Suiting, Deployed
    <3>2. suite.at = 5
      BY <1>1, <3>1, ChecksPlaced DEF Now
    <3>3. suite.run \in 1..MaxRuns
      BY <3>1, SuiteAssumption DEF Suiting
    <3> QED
      BY <3>1, <3>2, <3>3 DEF SuiteInv
  <2>2. \A s \in Stores : bumps[suite.run][s] = 0
    BY <2>1, SuiteAssumption DEF SuiteInv, Untouched
  <2>3. PICK stores \in {{deployment.store}, {"memory"} \cup {deployment.store}} :
          LET answering == IF "memory" \in stores THEN "memory" ELSE "postgres"
          IN /\ bumps' = [bumps EXCEPT ![suite.run] = [s \in Stores |-> @[s] + IF s \in stores THEN 1 ELSE 0]]
             /\ PassIf(bumps'[suite.run][answering] = 1)
    BY <1>3 DEF TrustAdjust, Entity
  <2> DEFINE answering == IF "memory" \in stores THEN "memory" ELSE "postgres"
             bumped == [s \in Stores |-> bumps[suite.run][s] + IF s \in stores THEN 1 ELSE 0]
  <2>4. answering \in stores /\ answering \in Stores
    BY <2>1 DEF Stores
  <2>5. bumps' = [bumps EXCEPT ![suite.run] = bumped]
    BY <2>3
  <2>6. bumped \in [Stores -> Nat] /\ bumped[answering] = 1
    BY <2>2, <2>4
  <2> HIDE DEF bumped, answering
  <2>7. /\ bumps' \in [1..MaxRuns -> [Stores -> Nat]] /\ bumps'[suite.run] = bumped
        /\ \A e \in 1..MaxRuns : e # suite.run => bumps'[e] = bumps[e]
    BY <2>1, <2>5, <2>6
  <2>8. Verdict("pass")
    BY <2>3, <2>6, <2>7 DEF PassIf, answering
  <2> QED
    BY <1>1, <2>7, <2>8, VerdictKeeps
<1> QED
  BY <1>2, <1>3

\* Against one ceiling the answers to S0 to S4 never rise again.
LEMMA PolicyOrdinalKeeps ==
  ASSUME SuiteInv, PolicyOrdinal
  PROVE  SuiteInv' /\ (Len(suite.calls) < 5 \/ Now \in disturbed \/ Verdict("pass"))
<1>1. /\ Running /\ Now = "policy-ordinal" /\ UNCHANGED <<deployment, bumps, kept, disturbed>>
      /\ suite.calls \in Seq(BOOLEAN) /\ deployment.ceiling \in Nat
      /\ bumps' \in [1..MaxRuns -> [Stores -> Nat]]
  BY SuiteTypes, SuiteAssumption DEF PolicyOrdinal, SuiteInv, Suiting, Deployed
<1>2. CASE Len(suite.calls) < 5
  <2> DEFINE answer == Len(suite.calls) <= deployment.ceiling
  <2>1. Calls(answer) /\ answer \in BOOLEAN
    BY <1>2 DEF PolicyOrdinal
  <2>2. answer <=> Len(suite.calls) <= deployment.ceiling
    OBVIOUS
  <2> HIDE DEF answer
  <2> QED
    BY <1>1, <1>2, <2>1, <2>2, CallsKeeps
<1>3. CASE ~(Len(suite.calls) < 5)
  <2>1. SuiteInv'
    BY <1>1, <1>3, VerdictKeeps DEF PolicyOrdinal, PassIf
  <2>2. CASE Now \notin disturbed
    <3>1. \A i \in 1..5 : suite.calls[i] <=> i <= deployment.ceiling + 1
      BY <1>1, <1>3, <2>2 DEF SuiteInv, OneCeiling
    <3>2. ASSUME NEW i \in 1..5, suite.calls[i], NEW j \in 1..i PROVE suite.calls[j]
      <4>1. j \in 1..5 /\ j <= i
        OBVIOUS
      <4>2. i <= deployment.ceiling + 1
        BY <3>1, <3>2
      <4>3. j <= deployment.ceiling + 1
        BY <1>1, <4>1, <4>2
      <4> QED
        BY <3>1, <4>1, <4>3
    <3>3. Verdict("pass")
      BY <1>3, <3>2 DEF PolicyOrdinal, PassIf
    <3> QED
      BY <2>1, <3>3
  <2> QED
    BY <2>1, <2>2
<1> QED
  BY <1>2, <1>3

\* An anchor read is verified in its own ledger, which holds it still, unless
\* the check was disturbed or the list leaves out the first.
LEMMA LedgerVerifyKeeps ==
  ASSUME SuiteInv, LedgerVerify
  PROVE  /\ SuiteInv'
         /\ \/ suite.calls = <<>> \/ Now \in disturbed \/ Verdict("pass")
            \/ deployment.chains[deployment.store] > VerifyLimit
<1>1. /\ Running /\ Now = "ledger.verify" /\ UNCHANGED <<deployment, bumps, kept, disturbed>>
      /\ bumps' \in [1..MaxRuns -> [Stores -> Nat]] /\ suite \in Suiting
      /\ deployment.store \in Stores /\ deployment.chains \in [Stores -> 0..MaxChain]
  BY SuiteTypes DEF LedgerVerify, SuiteInv, Deployed
<1> DEFINE length == deployment.chains[deployment.store]
<1>2. length \in 0..MaxChain /\ length \in Nat
  BY <1>1, SuiteAssumption
<1>3. CASE suite.calls = <<>>
  <2> DEFINE anchor == [store |-> deployment.store, seq |-> length]
  <2>1. suite' = [suite EXCEPT !.calls = <<TRUE>>, !.newest = anchor] /\ UNCHANGED report
    BY <1>3 DEF LedgerVerify
  <2>2. anchor \in Anchors /\ anchor.store = deployment.store /\ anchor.seq = length
    BY <1>1, <1>2 DEF Anchors
  <2> HIDE DEF anchor
  <2>3. <<TRUE>> \in Seq(BOOLEAN)
    OBVIOUS
  <2>4. /\ suite' \in Suiting /\ suite'.run = suite.run /\ suite'.at = suite.at
        /\ suite'.newest = anchor
    BY <1>1, <2>1, <2>2, <2>3 DEF Suiting
  <2>5. SuiteTypeOK' /\ (Running' <=> Running) /\ Now' = Now
    <3>1. suite' \in [run : 0..MaxRuns, ids : SUBSET ToSet(CHECKS), at : 0..(Len(CHECKS) + 1),
                       calls : Seq(BOOLEAN), newest : [store : Stores, seq : 0..MaxChain]]
      BY <2>4, ChecksPlaced DEF Suiting, Anchors, CheckSet
    <3>2. (Running' <=> Running) /\ Now' = Now
      BY <2>4 DEF Running, Now
    <3> QED
      BY <1>1, <2>1, <3>1, <3>2 DEF SuiteInv, SuiteTypeOK
  <2>6. SameLedger'
    BY <1>1, <1>2, <2>2, <2>4 DEF SameLedger
  <2>7. OneCeiling'
    BY <1>1, <2>5 DEF OneCeiling
  <2>8. Untouched'
    BY <1>1, <2>4 DEF SuiteInv, Untouched
  <2> QED
    BY <1>1, <1>3, <2>4, <2>5, <2>6, <2>7, <2>8 DEF SuiteInv
<1>4. CASE suite.calls # <<>>
  <2>1. SuiteInv'
    BY <1>1, <1>4, VerdictKeeps DEF LedgerVerify, PassIf
  <2>2. ASSUME Now \notin disturbed, ~(length > VerifyLimit), suite.newest.seq # 0
        PROVE  Verdict("pass")
    <3>1. suite.newest.store = deployment.store /\ suite.newest.seq <= length
      BY <1>1, <1>4, <2>2 DEF SuiteInv, SameLedger
    <3>2. PICK anchored \in Covers(deployment.store, suite.newest) :
            PassIf(anchored /\ length <= VerifyLimit)
      BY <1>4, <2>2 DEF LedgerVerify
    <3>3. anchored
      BY <3>1, <3>2 DEF Covers
    <3>4. length <= VerifyLimit
      BY <1>2, <2>2, SuiteAssumption
    <3> QED
      BY <3>2, <3>3, <3>4 DEF PassIf
  <2>3. suite.newest.seq = 0 => Verdict("pass")
    BY <1>4 DEF LedgerVerify
  <2> QED
    BY <2>1, <2>2, <2>3
<1> QED
  BY <1>3, <1>4

LEMMA EndRunKeeps == ASSUME SuiteInv, EndRun PROVE SuiteInv'
<1>1. /\ suite \in Suiting /\ kept \in Seq(BOOLEAN) /\ Len(kept) <= MaxKept /\ MaxKept \in Nat
      /\ suite' = [suite EXCEPT !.at = 0, !.ids = {}]
  BY SuiteTypes, SuiteAssumption DEF SuiteInv, EndRun
<1>2. suite' \in Suiting /\ suite'.run = suite.run /\ suite'.at = 0
  <2>1. /\ {} \in SUBSET CheckSet /\ suite.run \in 0..MaxRuns /\ suite.calls \in Seq(BOOLEAN)
        /\ 0 \in 0..13 /\ suite.newest \in Anchors
    BY <1>1 DEF Suiting
  <2>2. /\ suite'.run = suite.run /\ suite'.at = 0 /\ suite'.ids = {} /\ suite'.calls = suite.calls
        /\ suite'.newest = suite.newest
    BY <1>1 DEF Suiting
  <2> QED
    BY <1>1, <2>1, <2>2 DEF Suiting
<1>3. kept' \in Seq(BOOLEAN) /\ Len(kept') <= MaxKept
  <2> DEFINE verdict == report.failed = {} /\ report.passed
             all == Append(kept, verdict)
             first == IF Len(all) > MaxKept THEN Len(all) - MaxKept + 1 ELSE 1
  <2>1. verdict \in BOOLEAN
    OBVIOUS
  <2>2. kept' = SubSeq(all, first, Len(all))
    BY DEF EndRun
  <2> HIDE DEF verdict
  <2>3. all \in Seq(BOOLEAN) /\ Len(all) = Len(kept) + 1 /\ Len(kept) \in Nat
    BY <1>1, <2>1
  <2> HIDE DEF all
  <2>4. first \in 1..(Len(all) + 1) /\ Len(all) - first + 1 <= MaxKept
    BY <1>1, <2>3
  <2> HIDE DEF first
  <2> QED
    BY <2>2, <2>3, <2>4
<1>4. UNCHANGED <<deployment, bumps, report, disturbed>>
  BY DEF EndRun
<1>5. SuiteTypeOK'
  <2>1. suite' \in [run : 0..MaxRuns, ids : SUBSET ToSet(CHECKS), at : 0..(Len(CHECKS) + 1),
                       calls : Seq(BOOLEAN), newest : [store : Stores, seq : 0..MaxChain]]
    BY <1>2, ChecksPlaced DEF Suiting, Anchors, CheckSet
  <2> QED
    BY <1>3, <1>4, <2>1 DEF SuiteInv, SuiteTypeOK
<1> QED
  BY <1>2, <1>4, <1>5 DEF SuiteInv, Running, Untouched, OneCeiling, SameLedger

\* What the suite asks lives on: a check whose ceiling or ledger moves between
\* its calls is disturbed, and a ledger that grows keeps the anchor read.
LEMMA LivesKeeps == ASSUME SuiteInv, Lives PROVE SuiteInv'
<1>1. deployment \in Deployed /\ UNCHANGED <<bumps, suite, report, kept>>
  BY SuiteTypes
  DEF SuiteInv, Lives, SwitchStore, AnchorRows, RestartGovernance, MoveCeiling, ServiceUpDown
<1>2. (Running' <=> Running) /\ Now' = Now
  BY <1>1 DEF Running, Now
<1>3. SUFFICES deployment' \in Deployed /\ OneCeiling' /\ SameLedger'
  BY <1>1, <1>2 DEF SuiteInv, SuiteTypeOK, Deployed, Untouched
<1>4. ASSUME NEW s \in Stores, deployment' = [deployment EXCEPT !.store = s], Disturbs("ledger.verify")
      PROVE  deployment' \in Deployed /\ OneCeiling' /\ SameLedger'
  <2>1. deployment' \in Deployed /\ deployment'.ceiling = deployment.ceiling
    BY <1>1, <1>4 DEF Deployed
  <2>2. OneCeiling'
    BY <1>1, <1>2, <1>4, <2>1 DEF SuiteInv, OneCeiling, Disturbs
  <2>3. SameLedger'
    BY <1>1, <1>2, <1>4 DEF SameLedger, Disturbs
  <2> QED
    BY <2>1, <2>2, <2>3
<1>5. ASSUME NEW s \in Stores, deployment.chains[s] < MaxChain, UNCHANGED disturbed,
             Becomes([deployment.chains EXCEPT ![s] = @ + 1])
      PROVE  deployment' \in Deployed /\ OneCeiling' /\ SameLedger'
  <2> DEFINE chains == [deployment.chains EXCEPT ![s] = deployment.chains[s] + 1]
  <2>1. deployment' = [deployment EXCEPT !.chains = chains]
    BY <1>5 DEF Becomes
  <2>2. /\ chains \in [Stores -> 0..MaxChain]
        /\ \A t \in Stores : /\ chains[t] \in Nat /\ deployment.chains[t] \in Nat
                             /\ deployment.chains[t] <= chains[t]
    BY <1>1, <1>5, SuiteAssumption DEF Deployed
  <2> HIDE DEF chains
  <2>3. /\ deployment' \in Deployed /\ deployment'.ceiling = deployment.ceiling
        /\ deployment'.store = deployment.store /\ deployment'.chains = chains
        /\ deployment.store \in Stores
    BY <1>1, <2>1, <2>2 DEF Deployed
  <2>4. OneCeiling'
    BY <1>1, <1>2, <1>5, <2>3 DEF SuiteInv, OneCeiling
  <2>5. suite.newest.seq \in Nat
    BY SuiteTypes, SuiteAssumption DEF SuiteInv, Suiting, Anchors
  <2>6. SameLedger'
    BY <1>1, <1>2, <1>5, <2>2, <2>3, <2>5 DEF SuiteInv, SameLedger
  <2> QED
    BY <2>3, <2>4, <2>6
<1>6. ASSUME Becomes([deployment.chains EXCEPT !["memory"] = 0]),
             IF deployment.store = "memory" THEN Disturbs("ledger.verify") ELSE UNCHANGED disturbed
      PROVE  deployment' \in Deployed /\ OneCeiling' /\ SameLedger'
  <2> DEFINE chains == [deployment.chains EXCEPT !["memory"] = 0]
  <2>1. deployment' = [deployment EXCEPT !.chains = chains]
    BY <1>6 DEF Becomes
  <2>2. deployment.chains \in [Stores -> 0..MaxChain] /\ 0 \in 0..MaxChain
    BY <1>1, SuiteAssumption DEF Deployed
  <2>3. /\ chains \in [Stores -> 0..MaxChain]
        /\ \A t \in Stores : t # "memory" => chains[t] = deployment.chains[t]
    BY <2>2
  <2> HIDE DEF chains
  <2>4. /\ deployment' \in Deployed /\ deployment'.ceiling = deployment.ceiling
        /\ deployment'.store = deployment.store /\ deployment'.chains = chains
        /\ deployment.store \in Stores
    BY <1>1, <2>1, <2>3 DEF Deployed
  <2>5. Now # "ledger.verify" => disturbed' = disturbed
    BY <1>6 DEF Disturbs
  <2>6. OneCeiling'
    BY <1>1, <1>2, <2>4, <2>5 DEF SuiteInv, OneCeiling
  <2>7. SameLedger'
    <3>1. CASE deployment.store = "memory"
      BY <1>1, <1>2, <1>6, <3>1 DEF SameLedger, Disturbs
    <3>2. CASE deployment.store # "memory"
      BY <1>1, <1>2, <1>6, <2>3, <2>4, <3>2 DEF SuiteInv, SameLedger
    <3> QED
      BY <3>1, <3>2
  <2> QED
    BY <2>4, <2>6, <2>7
<1>7. ASSUME NEW c \in Ceilings, deployment' = [deployment EXCEPT !.ceiling = c],
             Disturbs("policy-ordinal")
      PROVE  deployment' \in Deployed /\ OneCeiling' /\ SameLedger'
  <2>1. /\ deployment' \in Deployed /\ deployment'.store = deployment.store
        /\ deployment'.chains = deployment.chains
    BY <1>1, <1>7 DEF Deployed
  <2>2. SameLedger'
    BY <1>1, <1>2, <1>7, <2>1 DEF SuiteInv, SameLedger, Disturbs
  <2>3. OneCeiling'
    BY <1>1, <1>2, <1>7 DEF SuiteInv, OneCeiling, Disturbs
  <2> QED
    BY <2>1, <2>2, <2>3
<1>8. ASSUME deployment' = [deployment EXCEPT !.down = ~@], UNCHANGED disturbed
      PROVE  deployment' \in Deployed /\ OneCeiling' /\ SameLedger'
  <2>1. /\ deployment' \in Deployed /\ deployment'.store = deployment.store
        /\ deployment'.chains = deployment.chains /\ deployment'.ceiling = deployment.ceiling
    BY <1>1, <1>8 DEF Deployed
  <2> QED
    BY <1>1, <1>2, <1>8, <2>1 DEF SuiteInv, OneCeiling, SameLedger
<1> QED
  BY <1>4, <1>5, <1>6, <1>7, <1>8
  DEF Lives, SwitchStore, AnchorRows, RestartGovernance, MoveCeiling, ServiceUpDown

LEMMA SuiteInvNext == SuiteInv /\ [SuiteNext]_suiteVars => SuiteInv'
<1> SUFFICES ASSUME SuiteInv, [SuiteNext]_suiteVars PROVE SuiteInv'
  OBVIOUS
<1>1. CASE UNCHANGED suiteVars
  BY <1>1 DEF suiteVars, SuiteInv, SuiteTypeOK, Running, Now, Untouched, OneCeiling, SameLedger
<1> QED
  BY <1>1, CreateRunKeeps, PlainKeeps, HealthKeeps, TrustAdjustKeeps, PolicyOrdinalKeeps,
     LedgerVerifyKeeps, EndRunKeeps, LivesKeeps
  DEF SuiteNext

THEOREM SuiteInvariant == SuiteSpec => []SuiteInv
  BY SuiteInvInit, SuiteInvNext, PTL DEF SuiteSpec

\* A verdict adds the check of the moment to those that failed, or none.
LEMMA VerdictFails ==
  ASSUME NEW status, Verdict(status), NEW check \in report'.failed \ report.failed
  PROVE  check = Now /\ status = "fail"
  BY DEF Verdict

LEMMA FailsExcused ==
  ASSUME SuiteInv, SuiteNext, NEW check \in report'.failed \ report.failed
  PROVE  Excused(check)
<1>1. CASE Skip \/ Shape
  BY <1>1, VerdictFails DEF Skip, Shape
<1>2. CASE Health
  <2>1. PICK status \in {"pass", "fail"} : Verdict(status) /\ (status = "fail" => deployment.down)
    BY <1>2 DEF Health, PassIf
  <2>2. check = Now /\ deployment.down
    BY <2>1, VerdictFails
  <2> QED
    BY <1>2, <2>2 DEF Health, Excused
<1>3. CASE TrustAdjust
  <2>1. suite.calls # <<>>
    BY <1>3 DEF TrustAdjust, Calls
  <2>2. Verdict("pass")
    BY <1>3, <2>1, TrustAdjustKeeps
  <2> QED
    BY <2>2, VerdictFails
<1>4. CASE PolicyOrdinal
  <2>1. ~(Len(suite.calls) < 5)
    BY <1>4 DEF PolicyOrdinal, Calls
  <2>2. CASE Verdict("pass")
    BY <2>2, VerdictFails
  <2>3. CASE Now \in disturbed
    <3>1. PICK status \in {"pass", "fail"} : Verdict(status)
      BY <1>4, <2>1 DEF PolicyOrdinal, PassIf
    <3>2. check = Now
      BY <3>1, VerdictFails
    <3> QED
      BY <2>3, <3>2 DEF Excused
  <2> QED
    BY <1>4, <2>1, <2>2, <2>3, PolicyOrdinalKeeps
<1>5. CASE LedgerVerify
  <2>1. suite.calls # <<>>
    BY <1>5 DEF LedgerVerify
  <2>2. CASE Verdict("pass")
    BY <2>2, VerdictFails
  <2>3. CASE Now \in disturbed \/ deployment.chains[deployment.store] > VerifyLimit
    <3>1. PICK status \in {"pass", "fail"} : Verdict(status)
      BY <1>5, <2>1 DEF LedgerVerify, PassIf
    <3>2. check = Now /\ Now = "ledger.verify"
      BY <1>5, <3>1, VerdictFails DEF LedgerVerify
    <3> QED
      BY <2>3, <3>2 DEF Excused
  <2> QED
    BY <1>5, <2>1, <2>2, <2>3, LedgerVerifyKeeps
<1>6. CASE (\E ids \in Selections : CreateRun(ids)) \/ EndRun \/ Lives
  BY <1>6 DEF CreateRun, Unreported, EndRun, Lives, SwitchStore, AnchorRows, RestartGovernance,
     MoveCeiling, ServiceUpDown
<1> QED
  BY <1>1, <1>2, <1>3, <1>4, <1>5, <1>6 DEF SuiteNext

\* A deployment that does what the protocol asks fails a check only if the
\* check's ceiling or ledger moved between its calls, a service is down, or the
\* ledger at hand has outgrown what a verification lists.
THEOREM AlarmsExplained == SuiteSpec => FalseAlarmsExplained
<1>1. SuiteInv /\ [SuiteNext]_suiteVars => [Explained]_suiteVars
  BY FailsExcused DEF Explained
<1> QED
  BY <1>1, SuiteInvariant, PTL DEF SuiteSpec, FalseAlarmsExplained

-----------------------------------------------------------------------------
(***************************************************************************)
(* All of them together.  Workflows and discovery share the registry, of   *)
(* which each asks only that its rows are agents.                          *)
(***************************************************************************)
ServicesInv == MarketInv /\ FlowInv /\ SeekInv /\ MonitorInv /\ RouteInv /\ VendorInv /\ SuiteInv

LEMMA FlowApart == FlowInv /\ RegistryTypeOK' /\ UNCHANGED engineVars => FlowInv'
  BY DEF engineVars, safetyVars, FlowInv, FlowTypeOK, EventsTrue, StartedOnly, FlaggedBehind

LEMMA SeekApart == SeekInv /\ RegistryTypeOK' /\ UNCHANGED queryVars => SeekInv'
  BY DEF queryVars, SeekInv, SeekTypeOK, EntryShape, EntryFresh, CollectionFresh, AnswersFresh, Alive, Collected

LEMMA ServicesInvInit == ServicesInit => ServicesInv
  BY MarketInvInit, FlowInvInit, SeekInvInit, MonitorInvInit, RouteInvInit, VendorInvInit, SuiteInvInit
  DEF ServicesInit, ServicesInv

LEMMA ServicesInvNext == ServicesInv /\ [ServicesNext]_servicesVars => ServicesInv'
<1> SUFFICES ASSUME ServicesInv, [ServicesNext]_servicesVars PROVE ServicesInv'
  OBVIOUS
<1>1. MarketInv'
  BY MarketInvNext
  DEF ServicesInv, ServicesNext, servicesVars, Market, Flow, Seek, Monitor, Route, Vendor, Suite
<1>2. MonitorInv'
  BY MonitorInvNext
  DEF ServicesInv, ServicesNext, servicesVars, Market, Flow, Seek, Monitor, Route, Vendor, Suite
<1>3. RouteInv'
  BY RouteInvNext
  DEF ServicesInv, ServicesNext, servicesVars, Market, Flow, Seek, Monitor, Route, Vendor, Suite
<1>4. VendorInv'
  BY VendorInvNext
  DEF ServicesInv, ServicesNext, servicesVars, Market, Flow, Seek, Monitor, Route, Vendor, Suite
<1>5. SuiteInv'
  BY SuiteInvNext
  DEF ServicesInv, ServicesNext, servicesVars, Market, Flow, Seek, Monitor, Route, Vendor, Suite
<1>6. CASE Flow
  <2>1. FlowInv' /\ RegistryTypeOK' /\ UNCHANGED queryVars
    BY <1>6, FlowInvNext DEF ServicesInv, Flow, FlowInv, FlowTypeOK
  <2> QED
    BY <1>1, <1>2, <1>3, <1>4, <1>5, <2>1, SeekApart DEF ServicesInv
<1>7. CASE Seek
  <2>1. SeekInv' /\ RegistryTypeOK' /\ UNCHANGED engineVars
    BY <1>7, SeekInvNext DEF ServicesInv, Seek, SeekInv, SeekTypeOK
  <2> QED
    BY <1>1, <1>2, <1>3, <1>4, <1>5, <2>1, FlowApart DEF ServicesInv
<1>8. CASE Market \/ Monitor \/ Route \/ Vendor \/ Suite \/ UNCHANGED servicesVars
  <2>1. UNCHANGED <<registryVars, engineVars, queryVars>>
    BY <1>8 DEF servicesVars, Market, Monitor, Route, Vendor, Suite
  <2>2. RegistryTypeOK'
    BY <2>1, RegistryStays DEF ServicesInv, FlowInv, FlowTypeOK
  <2> QED
    BY <1>1, <1>2, <1>3, <1>4, <1>5, <2>1, <2>2, FlowApart, SeekApart DEF ServicesInv
<1> QED
  BY <1>6, <1>7, <1>8 DEF ServicesNext

THEOREM ServicesInvariant == ServicesSpec => []ServicesInv
  BY ServicesInvInit, ServicesInvNext, PTL DEF ServicesSpec

\* Every service's state keeps the shape its handlers read and write.
THEOREM ServicesTypeCorrect == ServicesSpec => []ServicesTypeOK
<1>1. ServicesInv => ServicesTypeOK
  BY DEF ServicesInv, MarketInv, FlowInv, SeekInv, MonitorInv, RouteInv, VendorInv, SuiteInv, ServicesTypeOK
<1> QED
  BY <1>1, ServicesInvariant, PTL

\* All these services together keep what each of them promises.
THEOREM ServicesSafe ==
  ServicesSpec =>
    /\ [](/\ NoLostUpdate /\ FlaggedOnce /\ AnswersFresh /\ IncidentsMatch /\ DearerOnlyIfTrustRose
          /\ EffectMatchesAnswer)
    /\ PublishedEarned /\ FalseAlarmsExplained
<1>1. ServicesInv => /\ NoLostUpdate /\ FlaggedOnce /\ AnswersFresh /\ IncidentsMatch
                     /\ DearerOnlyIfTrustRose /\ EffectMatchesAnswer
  BY FlaggedOf, EffectsOf DEF ServicesInv, MarketInv, TrustInv, SeekInv, MonitorInv, RouteInv
<1>2. ServicesInv /\ [ServicesNext]_servicesVars => [Earned]_marketVars
  BY PublishesEarned
  DEF ServicesInv, ServicesNext, servicesVars, Market, Flow, Seek, Monitor, Route, Vendor, Suite
<1>3. ServicesInv /\ [ServicesNext]_servicesVars => [Explained]_suiteVars
  BY FailsExcused
  DEF Explained, ServicesInv, ServicesNext, servicesVars, Market, Flow, Seek, Monitor, Route, Vendor, Suite
<1> QED
  BY <1>1, <1>2, <1>3, ServicesInvariant, PTL DEF ServicesSpec, PublishedEarned, FalseAlarmsExplained
=============================================================================
