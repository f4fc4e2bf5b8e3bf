------------------------------- MODULE Discovery -------------------------------
(***************************************************************************)
(* The cached ranking of services/discovery/app/main.py over the agents of *)
(* the registry.                                                           *)
(*                                                                         *)
(* Requests are coroutines: two misses collect at the same time, and the   *)
(* one that stores last decides what the cache holds, although it may have *)
(* listed the agents first.  A unit of time is what a request to another   *)
(* service may take before its client gives it up.                         *)
(***************************************************************************)
EXTENDS Registry, SequencesExt

CONSTANTS
    Seekers,    \* the requests under way
    Scores,     \* the trust scores an agent may have
    CacheTTL,   \* the time an entry is kept
    MaxAge,     \* bound on the ages counted
    SeekFaults  \* a subset of {"raise"}

ASSUME DiscoveryAssumption == CacheTTL \in Nat \ {0} /\ MaxAge \in Nat

VARIABLES
    cacheEntry, \* the ranking under the key of the capability, with its ages
    seeker,     \* what each request has collected
    answers     \* auxiliary: the oldest listing answered with so far

seekVars == <<registryVars, cacheEntry, seeker, answers>>

Seeks == [stage : {"idle", "list", "trust"}, agents : Seq(Agents), trust : Seq(Scores), asked : {0, 1},
          listed : Nat]

NoEntry == [ranked |-> <<>>, kept |-> CacheTTL, listed |-> 0]
Resting == [stage |-> "idle", agents |-> <<>>, trust |-> <<>>, asked |-> 0, listed |-> 0]

SeekInit ==
    /\ RegistryInit
    /\ cacheEntry = NoEntry
    /\ seeker = [s \in Seekers |-> Resting]
    /\ answers = 0

-----------------------------------------------------------------------------
\* Only the trust score differs between agents: the registry knows neither
\* confidence, latency nor cost.  Best first, equals in the order listed.
Ranked(agents, trust) ==
    LET Before(i, j) == trust[i] > trust[j] \/ (trust[i] = trust[j] /\ i < j)
        order == SetToSortSeq(DOMAIN agents, Before)
    IN [i \in DOMAIN order |-> agents[order[i]]]

Alive == cacheEntry.kept < CacheTTL

Older(n) == IF n > answers THEN n ELSE answers

\* Mutant of Hit: an entry that is used is kept on.
HitRenews(s) ==
    /\ seeker[s].stage = "idle" /\ Alive
    /\ answers' = Older(cacheEntry.listed)
    /\ cacheEntry' = [cacheEntry EXCEPT !.kept = 0]
    /\ UNCHANGED <<registryVars, seeker>>

Hit(s) ==
    /\ seeker[s].stage = "idle" /\ Alive
    /\ answers' = Older(cacheEntry.listed)
    /\ UNCHANGED <<registryVars, cacheEntry, seeker>>

Miss(s) ==
    /\ seeker[s].stage = "idle" /\ ~Alive
    /\ seeker' = [seeker EXCEPT ![s] = [Resting EXCEPT !.stage = "list"]]
    /\ UNCHANGED <<registryVars, cacheEntry, answers>>

List(s) ==
    /\ seeker[s].stage = "list"
    /\ \E agents \in ListAgents :
         seeker' = [seeker EXCEPT ![s] = [Resting EXCEPT !.stage = "trust", !.agents = agents]]
    /\ UNCHANGED <<registryVars, cacheEntry, answers>>

Collected(s) == seeker[s].stage = "trust" /\ Len(seeker[s].trust) = Len(seeker[s].agents)

AskTrust(s) ==
    /\ seeker[s].stage = "trust" /\ ~Collected(s)
    /\ \E n \in Scores :
         seeker' = [seeker EXCEPT ![s].trust = Append(@, n), ![s].asked = 0]
    /\ UNCHANGED <<registryVars, cacheEntry, answers>>

\* A service that does not answer ends the request, and so does Redis.
SeekRaises(s) ==
    /\ "raise" \in SeekFaults
    /\ seeker[s].stage # "idle"
    /\ seeker' = [seeker EXCEPT ![s] = Resting]
    /\ UNCHANGED <<registryVars, cacheEntry, answers>>

Store(s) ==
    /\ Collected(s)
    /\ cacheEntry' = [ranked |-> Ranked(seeker[s].agents, seeker[s].trust), kept |-> 0,
                      listed |-> seeker[s].listed]
    /\ answers' = Older(seeker[s].listed)
    /\ seeker' = [seeker EXCEPT ![s] = Resting]
    /\ UNCHANGED registryVars

\* Time passes as long as no request outlasts its time.
Elapse ==
    /\ \A s \in Seekers : seeker[s].stage # "idle" => seeker[s].asked = 0 /\ ~Collected(s)
    /\ cacheEntry' = IF cacheEntry.kept + 1 >= CacheTTL THEN NoEntry
                     ELSE [cacheEntry EXCEPT !.kept = @ + 1, !.listed = @ + 1]
    /\ seeker' = [s \in Seekers |->
         IF seeker[s].stage = "idle" THEN Resting
         ELSE [seeker[s] EXCEPT !.asked = 1, !.listed = IF @ < MaxAge THEN @ + 1 ELSE @]]
    /\ UNCHANGED <<registryVars, answers>>

SeekNext ==
    \/ \E s \in Seekers : Hit(s) \/ Miss(s) \/ List(s) \/ AskTrust(s) \/ SeekRaises(s) \/ Store(s)
    \/ Elapse
    \/ /\ (\E a \in Agents : CreateAgent(a)) \/ RegistryRestart
       /\ UNCHANGED <<cacheEntry, seeker, answers>>

SeekSpec == SeekInit /\ [][SeekNext]_seekVars

-----------------------------------------------------------------------------
SeekTypeOK ==
    /\ RegistryTypeOK
    /\ cacheEntry.kept \in 0..CacheTTL /\ cacheEntry.listed \in Nat
    /\ seeker \in [Seekers -> Seeks]
    /\ answers \in Nat

\* No answer is older than an entry may be kept and a collection may take:
\* a slow collection that overwrites a fresher ranking included.
AnswersFresh == answers <= (CacheTTL - 1) + Cardinality(Agents)
=============================================================================
