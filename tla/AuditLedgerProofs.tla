------------------------- MODULE AuditLedgerProofs --------------------------
(***************************************************************************)
(* Proofs about AuditLedger for any batch size, any number of messages and *)
(* replays and any combination of faults.                                  *)
(***************************************************************************)
EXTENDS AuditLedger, FiniteSetTheorems, WellFoundedInduction, TLAPS

-----------------------------------------------------------------------------
(* The inductive invariant.                                                *)

Roots == UNION {[ids -> 0..MaxLog] : ids \in SUBSET Nat}

AnchorT == [prev : Seq(Roots), root : Roots, hash : Seq(Roots), first : Nat, last : Nat]

Alterations == [store : {"none", "pg", "mem"}, what : {"none", "chain", "range", "row"}, at : Nat]

\* An id is drawn from the sequence once, so every row is older than nextId.
Types ==
    /\ published \in 0..MaxLog
    /\ pos \in 0..published
    /\ stage \in {"idle", "anchor_pg", "anchor_mem"}
    /\ pgUp \in BOOLEAN
    /\ nextId \in Nat \ {0}
    /\ pgLog \in [DOMAIN pgLog -> 0..MaxLog]
    /\ DOMAIN pgLog \subseteq 1..(nextId - 1)
    /\ memLog \in Seq(0..MaxLog)
    /\ pgAnchors \in Seq(AnchorT)
    /\ memAnchors \in Seq(AnchorT)
    /\ replays \in 0..MaxReplays
    /\ altered \in Alterations

\* Anchors seal up to greater and greater ids.
Ascending(anchors) ==
    \A k \in DOMAIN anchors : \A j \in DOMAIN anchors : j < k => anchors[j].last < anchors[k].last

Sound(log, anchors) == Linked(anchors) /\ SealsInOrder(log, anchors) /\ Ascending(anchors)

\* Altering one store leaves the other sound, which matters because a restart
\* forgets an alteration of the memory.
BothSound ==
    /\ altered.store # "pg" => Sound(pgLog, pgAnchors)
    /\ altered.store # "mem" => Sound(memLog, memAnchors)

-----------------------------------------------------------------------------
(* Anchoring, for any log and any list of anchors.                         *)

\* Rows with new, greater ids leave every seal as it is.
LEMMA GrowKeepsSeals ==
    ASSUME NEW log, NEW longer, NEW anchors \in Seq(AnchorT),
           DOMAIN longer \subseteq Nat, DOMAIN log \subseteq DOMAIN longer,
           \A i \in DOMAIN log : longer[i] = log[i],
           \A i \in DOMAIN longer \ DOMAIN log : \A j \in DOMAIN log : j < i,
           SealsInOrder(log, anchors)
    PROVE  SealsInOrder(longer, anchors)
<1> DEFINE after(k) == IF k = 1 THEN 0 ELSE anchors[k - 1].last
           rows(l, k) == {i \in DOMAIN l : after(k) < i /\ i <= anchors[k].last}
<1> SUFFICES ASSUME NEW k \in DOMAIN anchors
             PROVE  /\ anchors[k].root = [i \in rows(longer, k) |-> longer[i]]
                    /\ Cardinality(rows(longer, k)) = Batch
                    /\ anchors[k].first \in rows(longer, k)
                    /\ anchors[k].last \in rows(longer, k)
                    /\ \A i \in rows(longer, k) : anchors[k].first <= i
  BY Zenon DEF SealsInOrder
<1>1. /\ anchors[k].root = [i \in rows(log, k) |-> log[i]]
      /\ Cardinality(rows(log, k)) = Batch
      /\ anchors[k].first \in rows(log, k)
      /\ anchors[k].last \in rows(log, k)
      /\ \A i \in rows(log, k) : anchors[k].first <= i
  BY Zenon DEF SealsInOrder
<1>2. anchors[k].last \in DOMAIN log /\ anchors[k].last \in Nat
  BY <1>1
<1>3. rows(longer, k) = rows(log, k)
  <2>1. ASSUME NEW i \in rows(longer, k) PROVE i \in DOMAIN log
    BY <1>2
  <2>2. QED
    BY <2>1
<1>4. [i \in rows(log, k) |-> log[i]] = [i \in rows(log, k) |-> longer[i]]
  OBVIOUS
<1> HIDE DEF rows
<1>5. QED
  BY <1>1, <1>3, <1>4

LEMMA RootType ==
    ASSUME NEW ids \in SUBSET Nat, NEW log, \A i \in ids : log[i] \in 0..MaxLog
    PROVE  [i \in ids |-> log[i]] \in Roots
<1>1. [i \in ids |-> log[i]] \in [ids -> 0..MaxLog]
  OBVIOUS
<1>2. QED
  BY <1>1 DEF Roots

LEMMA TipType ==
    ASSUME NEW anchors \in Seq(AnchorT)
    PROVE  Tip(anchors) \in Seq(Roots)
<1>1. CASE anchors = <<>>
  BY <1>1 DEF Tip, Genesis
<1>2. CASE anchors # <<>>
  <2>1. anchors[Len(anchors)] \in AnchorT
    BY <1>2
  <2>2. QED
    BY <1>2, <2>1 DEF Tip, AnchorT
<1>3. QED
  BY <1>1, <1>2

\* A sealed batch is an anchor.
LEMMA SealType ==
    ASSUME NEW log, DOMAIN log \subseteq Nat, \A i \in DOMAIN log : log[i] \in 0..MaxLog,
           NEW anchors \in Seq(AnchorT),
           NEW b \in FullBatches(Pending(log, anchors))
    PROVE  Seal(log, anchors, b) \in AnchorT
<1> DEFINE ids == {j \in Pending(log, anchors) : j <= b.last}
           root == [i \in ids |-> log[i]]
<1>1. ids \in SUBSET Nat /\ \A i \in ids : log[i] \in 0..MaxLog
  BY DEF Pending
<1>2. root \in Roots
  BY <1>1, RootType, Zenon
<1>3. b.first \in Nat /\ b.last \in Nat
  BY DEF FullBatches, Pending
<1> HIDE DEF ids
<1>4. Append(Tip(anchors), root) \in Seq(Roots)
  <2> HIDE DEF root
  <2>1. QED
    BY <1>2, TipType
<1>5. Seal(log, anchors, b) = [prev |-> Tip(anchors), root |-> root, hash |-> Append(Tip(anchors), root),
                               first |-> b.first, last |-> b.last]
  BY DEF Seal, Hash, ids
<1> HIDE DEF root
<1>6. QED
  BY <1>2, <1>3, <1>4, <1>5, TipType DEF AnchorT

\* A sealed batch extends the chain of anchors.
LEMMA SealKeepsLinked ==
    ASSUME NEW log, NEW anchors \in Seq(AnchorT), NEW b, Linked(anchors)
    PROVE  Linked(Append(anchors, Seal(log, anchors, b)))
<1> DEFINE new == Seal(log, anchors, b)
           longer == Append(anchors, new)
           n == Len(anchors) + 1
<1>1. new.prev = Tip(anchors) /\ new.hash = Hash(Tip(anchors), new.root)
  BY DEF Seal
<1>2. DOMAIN longer = 1..n /\ longer[n] = new /\ n \in Nat
      /\ \A k \in DOMAIN anchors : longer[k] = anchors[k]
  <2> HIDE DEF new
  <2>1. QED
    OBVIOUS
<1>3. Tip(anchors) = IF n = 1 THEN Genesis ELSE longer[n - 1].hash
  <2> HIDE DEF longer
  <2>1. anchors = <<>> <=> n = 1
    OBVIOUS
  <2>2. n # 1 => n - 1 \in DOMAIN anchors /\ n - 1 = Len(anchors)
    OBVIOUS
  <2>3. QED
    BY <1>2, <2>1, <2>2 DEF Tip
<1> HIDE DEF new, longer
<1> SUFFICES ASSUME NEW k \in 1..n
             PROVE  /\ longer[k].prev = IF k = 1 THEN Genesis ELSE longer[k - 1].hash
                    /\ longer[k].hash = Hash(longer[k].prev, longer[k].root)
  BY <1>2 DEF Linked, new, longer
<1>4. CASE k = n
  BY <1>1, <1>2, <1>3, <1>4
<1>5. CASE k # n
  <2>1. k \in DOMAIN anchors /\ (k # 1 => k - 1 \in DOMAIN anchors)
    BY <1>5
  <2>2. QED
    BY <1>2, <2>1 DEF Linked
<1>6. QED
  BY <1>4, <1>5

\* A sealed batch holds the rows that follow those sealed before.
LEMMA SealKeepsOrder ==
    ASSUME NEW log, DOMAIN log \subseteq Nat \ {0}, NEW anchors \in Seq(AnchorT),
           NEW b \in FullBatches(Pending(log, anchors)),
           SealsInOrder(log, anchors), Ascending(anchors)
    PROVE  SealsInOrder(log, Append(anchors, Seal(log, anchors, b)))
<1> DEFINE new == Seal(log, anchors, b)
           longer == Append(anchors, new)
           n == Len(anchors) + 1
           ids == {i \in Pending(log, anchors) : i <= b.last}
<1>1. new.root = [i \in ids |-> log[i]] /\ new.first = b.first /\ new.last = b.last
  BY DEF Seal
<1>2. DOMAIN longer = 1..n /\ longer[n] = new /\ n \in Nat
      /\ \A k \in DOMAIN anchors : longer[k] = anchors[k]
  <2> HIDE DEF new
  <2>1. QED
    OBVIOUS
<1> DEFINE tip == IF n = 1 THEN 0 ELSE longer[n - 1].last
<1>3. Pending(log, anchors) = {i \in DOMAIN log : tip < i}
  <2> HIDE DEF longer
  <2>1. CASE n = 1
    <3>1. DOMAIN anchors = {}
      BY <2>1
    <3>2. QED
      BY <2>1, <3>1 DEF Pending
  <2>2. CASE n # 1
    <3>1. n - 1 \in DOMAIN anchors /\ \A k \in DOMAIN anchors : k < n - 1 \/ k = n - 1
      BY <2>2
    <3>2. tip = anchors[n - 1].last
      BY <1>2, <2>2, <3>1
    <3>3. \A k \in DOMAIN anchors : anchors[k].last \in Nat /\ anchors[k].last <= tip
      <4>1. \A k \in DOMAIN anchors : anchors[k] \in AnchorT
        OBVIOUS
      <4>2. \A k \in DOMAIN anchors : anchors[k].last \in Nat
        BY <4>1 DEF AnchorT
      <4>3. \A k \in DOMAIN anchors : k < n - 1 => anchors[k].last < anchors[n - 1].last
        BY <3>1 DEF Ascending
      <4> HIDE DEF tip, n
      <4>4. QED
        BY <3>1, <3>2, <4>2, <4>3
    <3> HIDE DEF tip, n
    <3>4. \A i \in DOMAIN log : tip < i => \A k \in DOMAIN anchors : anchors[k].last < i
      BY <3>1, <3>2, <3>3
    <3>5. QED
      BY <3>1, <3>2, <3>4 DEF Pending
  <2>3. QED
    BY <2>1, <2>2
<1>4. /\ Cardinality(ids) = Batch
      /\ b.first \in Pending(log, anchors) /\ b.last \in Pending(log, anchors)
      /\ \A i \in ids : b.first <= i
  BY DEF FullBatches
<1>6. b.first \in ids /\ b.last \in ids
  <2>1. b.last \in Nat /\ b.first \in Nat /\ ids \subseteq Nat
    BY <1>4 DEF Pending
  <2>2. b.last \in ids
    BY <1>4, <2>1
  <2>3. QED
    BY <1>4, <2>1, <2>2
<1>7. ids = {i \in DOMAIN log : tip < i /\ i <= b.last}
  <2> HIDE DEF tip
  <2>1. QED
    BY <1>3
<1> HIDE DEF new, longer, ids
<1> DEFINE after(k) == IF k = 1 THEN 0 ELSE longer[k - 1].last
           rows(k) == {i \in DOMAIN log : after(k) < i /\ i <= longer[k].last}
<1> SUFFICES ASSUME NEW k \in 1..n
             PROVE  /\ longer[k].root = [i \in rows(k) |-> log[i]]
                    /\ Cardinality(rows(k)) = Batch
                    /\ longer[k].first \in rows(k) /\ longer[k].last \in rows(k)
                    /\ \A i \in rows(k) : longer[k].first <= i
  BY <1>2, Zenon DEF SealsInOrder, new, longer
<1>8. CASE k = n
  <2>1. rows(k) = ids
    BY <1>1, <1>2, <1>3, <1>7, <1>8
  <2> HIDE DEF rows
  <2>2. QED
    BY <1>1, <1>2, <1>4, <1>6, <1>8, <2>1
<1>9. CASE k # n
  <2> DEFINE before(j) == IF j = 1 THEN 0 ELSE anchors[j - 1].last
             was(j) == {i \in DOMAIN log : before(j) < i /\ i <= anchors[j].last}
  <2>1. k \in DOMAIN anchors /\ (k # 1 => k - 1 \in DOMAIN anchors)
    BY <1>9
  <2>2. rows(k) = was(k)
    BY <1>2, <2>1
  <2>3. /\ anchors[k].root = [i \in was(k) |-> log[i]]
        /\ Cardinality(was(k)) = Batch
        /\ anchors[k].first \in was(k) /\ anchors[k].last \in was(k)
        /\ \A i \in was(k) : anchors[k].first <= i
    BY <2>1, Zenon DEF SealsInOrder
  <2> HIDE DEF rows, was
  <2>4. QED
    BY <1>2, <2>1, <2>2, <2>3
<1>10. QED
  BY <1>8, <1>9

\* A sealed batch ends after everything sealed before.
LEMMA SealAscends ==
    ASSUME NEW log, NEW anchors \in Seq(AnchorT),
           NEW b \in FullBatches(Pending(log, anchors)), Ascending(anchors)
    PROVE  Ascending(Append(anchors, Seal(log, anchors, b)))
<1> DEFINE new == Seal(log, anchors, b)
           longer == Append(anchors, new)
           n == Len(anchors) + 1
<1>1. new.last = b.last /\ b.last \in Pending(log, anchors)
  BY DEF Seal, FullBatches
<1>2. \A j \in DOMAIN anchors : anchors[j].last < new.last
  BY <1>1 DEF Pending
<1>3. /\ DOMAIN longer = 1..n /\ n \in Nat /\ longer[n] = new /\ DOMAIN anchors = 1..(n - 1)
      /\ \A k \in DOMAIN anchors : longer[k] = anchors[k]
  <2> HIDE DEF new
  <2>1. QED
    OBVIOUS
<1> HIDE DEF new, longer, n
<1> SUFFICES ASSUME NEW k \in 1..n, NEW j \in 1..n, j < k
             PROVE  longer[j].last < longer[k].last
  BY <1>3 DEF Ascending, longer, new
<1>4. j \in DOMAIN anchors /\ longer[j] = anchors[j]
  BY <1>3
<1>5. CASE k = n
  BY <1>2, <1>3, <1>4, <1>5
<1>6. CASE k # n
  <2>1. k \in DOMAIN anchors /\ longer[k] = anchors[k]
    BY <1>3, <1>6
  <2>2. QED
    BY <1>4, <2>1 DEF Ascending
<1>7. QED
  BY <1>5, <1>6

-----------------------------------------------------------------------------
(* Types.                                                                  *)

LEMMA TypesInit == Init => Types
<1> SUFFICES ASSUME Init PROVE Types
  OBVIOUS
<1>1. pgLog \in [DOMAIN pgLog -> 0..MaxLog] /\ DOMAIN pgLog \subseteq 1..(nextId - 1)
  BY DEF Init
<1>2. pgUp \in BOOLEAN
  BY Zenon DEF Init
<1>3. altered \in Alterations
  BY DEF Init, Unaltered, Alterations
<1>4. pgAnchors \in Seq(AnchorT) /\ memAnchors \in Seq(AnchorT) /\ memLog \in Seq(0..MaxLog)
  BY DEF Init
<1>5. QED
  BY <1>1, <1>2, <1>3, <1>4, BoundAssumption DEF Init, Types

LEMMA ElementType ==
    ASSUME NEW S, NEW s \in Seq(S)
    PROVE  \A i \in 1..Len(s) : s[i] \in S
OBVIOUS

\* The rows in memory are numbered from 1.
LEMMA MemRows ==
    ASSUME Types
    PROVE  /\ DOMAIN memLog \subseteq Nat /\ DOMAIN memLog \subseteq Nat \ {0}
           /\ \A i \in DOMAIN memLog : memLog[i] \in 0..MaxLog
<1>1. memLog \in Seq(0..MaxLog)
  BY DEF Types
<1>2. DOMAIN memLog = 1..Len(memLog) /\ Len(memLog) \in Nat
  BY <1>1
<1>3. \A i \in 1..Len(memLog) : memLog[i] \in 0..MaxLog
  BY <1>1, ElementType, Zenon
<1>4. QED
  BY <1>2, <1>3

LEMMA InsertType ==
    ASSUME Types, CanTake, InsertPg
    PROVE  /\ pgLog' \in [DOMAIN pgLog' -> 0..MaxLog]
           /\ DOMAIN pgLog' \subseteq 1..(nextId' - 1)
           /\ nextId' \in Nat \ {0}
<1>1. pos + 1 \in 0..MaxLog
  BY BoundAssumption DEF Types, CanTake
<1>2. \A i \in DOMAIN pgLog \cup {nextId} : (IF i = nextId THEN pos + 1 ELSE pgLog[i]) \in 0..MaxLog
  BY <1>1 DEF Types
<1>3. QED
  BY <1>2 DEF InsertPg, Types

LEMMA AppendType ==
    ASSUME Types, CanTake, AppendMem
    PROVE  memLog' \in Seq(0..MaxLog)
<1>1. pos + 1 \in 0..MaxLog
  BY BoundAssumption DEF Types, CanTake
<1>2. QED
  BY <1>1 DEF AppendMem, Types

LEMMA TamperType ==
    ASSUME NEW anchors \in Seq(AnchorT), NEW k \in DOMAIN anchors,
           NEW changed \in HashedChanges(anchors, k)
    PROVE  changed \in Seq(AnchorT)
<1>1. anchors[k] \in AnchorT
  OBVIOUS
<1>2. Tamper(anchors[k].root) \in Roots
  <2>1. PICK ids \in SUBSET Nat : anchors[k].root \in [ids -> 0..MaxLog]
    BY <1>1 DEF AnchorT, Roots
  <2>2. DOMAIN anchors[k].root = ids
    BY <2>1
  <2>3. [i \in ids |-> 0] \in [ids -> 0..MaxLog]
    BY BoundAssumption
  <2>4. QED
    BY <2>2, <2>3 DEF Tamper, Roots
<1>3. Append(anchors[k].prev, Tamper(anchors[k].root)) \in Seq(Roots) /\ Genesis \in Seq(Roots)
  BY <1>1, <1>2 DEF AnchorT, Genesis
<1>4. \E a \in AnchorT : changed = [anchors EXCEPT ![k] = a]
  <2>1. CASE changed = [anchors EXCEPT ![k].hash = Genesis]
    BY <1>1, <1>3, <2>1 DEF AnchorT
  <2>2. CASE changed = [anchors EXCEPT ![k].prev = Append(@, Tamper(anchors[k].root))]
    BY <1>1, <1>3, <2>2 DEF AnchorT
  <2>3. CASE changed = [anchors EXCEPT ![k].root = Tamper(@)]
    BY <1>1, <1>2, <2>3 DEF AnchorT
  <2>4. QED
    BY <2>1, <2>2, <2>3 DEF HashedChanges
<1>5. QED
  BY <1>4

LEMMA RangeType ==
    ASSUME NEW anchors \in Seq(AnchorT), NEW k \in DOMAIN anchors, nextId \in Nat,
           NEW changed \in RangeChanges(anchors, k)
    PROVE  changed \in Seq(AnchorT)
<1>1. anchors[k] \in AnchorT
  OBVIOUS
<1>2. \E id \in Nat : \/ changed = [anchors EXCEPT ![k].first = id]
                       \/ changed = [anchors EXCEPT ![k].last = id]
  BY DEF RangeChanges
<1>3. \E a \in AnchorT : changed = [anchors EXCEPT ![k] = a]
  BY <1>1, <1>2 DEF AnchorT
<1>4. QED
  BY <1>3

\* What is left of a list without its k-th element.
LEMMA Without ==
    ASSUME NEW S, NEW anchors \in Seq(S), NEW k \in DOMAIN anchors
    PROVE  /\ RemoveAt(anchors, k) \in Seq(S)
           /\ Len(RemoveAt(anchors, k)) = Len(anchors) - 1
           /\ \A i \in 1..(k - 1) : RemoveAt(anchors, k)[i] = anchors[i]
           /\ \A i \in k..(Len(anchors) - 1) : RemoveAt(anchors, k)[i] = anchors[i + 1]
<1> DEFINE front == SubSeq(anchors, 1, k - 1)
           back == SubSeq(anchors, k + 1, Len(anchors))
<1>1. RemoveAt(anchors, k) = front \o back
  BY DEF RemoveAt
<1>2. /\ front \in Seq(S) /\ Len(front) = k - 1 /\ \A i \in 1..(k - 1) : front[i] = anchors[i]
      /\ back \in Seq(S) /\ Len(back) = Len(anchors) - k
      /\ \A i \in 1..(Len(anchors) - k) : back[i] = anchors[k + i]
  OBVIOUS
<1>3. k \in Nat /\ Len(anchors) \in Nat /\ k >= 1 /\ k <= Len(anchors)
  OBVIOUS
<1> HIDE DEF front, back
<1>4. front \o back \in Seq(S) /\ Len(front \o back) = Len(anchors) - 1
  BY <1>2, <1>3
<1>5. \A i \in 1..(k - 1) : (front \o back)[i] = front[i]
  BY <1>2, <1>3
<1>6. \A i \in k..(Len(anchors) - 1) : (front \o back)[i] = back[i - (k - 1)]
  BY <1>2, <1>3
<1>7. \A i \in k..(Len(anchors) - 1) : i - (k - 1) \in 1..(Len(anchors) - k) /\ k + (i - (k - 1)) = i + 1
  BY <1>3
<1>8. \A i \in k..(Len(anchors) - 1) : back[i - (k - 1)] = anchors[i + 1]
  BY <1>2, <1>7
<1>9. QED
  BY <1>1, <1>2, <1>4, <1>5, <1>6, <1>8

LEMMA Prepended ==
    ASSUME NEW S, NEW s \in Seq(S), NEW x \in S
    PROVE  <<x>> \o s \in Seq(S) /\ Len(<<x>> \o s) = 1 + Len(s) /\ (<<x>> \o s)[1] = x
OBVIOUS

\* Where the anchors are once the k-th has become the first.
LEMMA MovedFirstAt ==
    ASSUME NEW S, NEW anchors \in Seq(S), NEW k \in DOMAIN anchors
    PROVE  /\ MovedFirst(anchors, k) \in Seq(S)
           /\ DOMAIN MovedFirst(anchors, k) = DOMAIN anchors
           /\ \A i \in DOMAIN anchors : MovedFirst(anchors, k)[i] =
                  anchors[IF i = 1 THEN k ELSE IF i <= k THEN i - 1 ELSE i]
<1> DEFINE others == RemoveAt(anchors, k)
           moved == <<anchors[k]>> \o others
<1>1. k \in Nat /\ Len(anchors) \in Nat /\ k >= 1 /\ k <= Len(anchors)
      /\ DOMAIN anchors = 1..Len(anchors) /\ anchors[k] \in S
  OBVIOUS
<1>2. /\ others \in Seq(S) /\ Len(others) = Len(anchors) - 1
      /\ \A i \in 1..(k - 1) : others[i] = anchors[i]
      /\ \A i \in k..(Len(anchors) - 1) : others[i] = anchors[i + 1]
  BY Without
<1> HIDE DEF others
<1>3. moved \in Seq(S) /\ Len(moved) = Len(anchors) /\ moved[1] = anchors[k]
  <2>1. moved \in Seq(S) /\ Len(moved) = 1 + Len(others) /\ moved[1] = anchors[k]
    BY <1>1, <1>2, Prepended
  <2> HIDE DEF moved
  <2>2. QED
    BY <1>1, <1>2, <2>1
<1>4. \A i \in 2..Len(anchors) : moved[i] = others[i - 1]
  BY <1>1, <1>2
<1> HIDE DEF moved
<1>5. ASSUME NEW i \in DOMAIN anchors
      PROVE  moved[i] = anchors[IF i = 1 THEN k ELSE IF i <= k THEN i - 1 ELSE i]
  <2>1. CASE i = 1
    BY <1>3, <2>1
  <2>2. CASE i # 1 /\ i <= k
    <3>1. i \in 2..Len(anchors) /\ i - 1 \in 1..(k - 1)
      BY <1>1, <2>2
    <3>2. QED
      BY <1>2, <1>4, <2>2, <3>1
  <2>3. CASE i # 1 /\ ~(i <= k)
    <3>1. i \in 2..Len(anchors) /\ i - 1 \in k..(Len(anchors) - 1) /\ (i - 1) + 1 = i
      BY <1>1, <2>3
    <3>2. moved[i] = anchors[(i - 1) + 1]
      BY <1>2, <1>4, <3>1
    <3>3. QED
      BY <2>3, <3>1, <3>2
  <2>4. QED
    BY <2>1, <2>2, <2>3
<1>6. MovedFirst(anchors, k) = moved
  BY DEF MovedFirst, moved, others
<1>7. DOMAIN moved = DOMAIN anchors
  BY <1>1, <1>3
<1>8. QED
  BY <1>3, <1>5, <1>6, <1>7, Zenon

\* Where they are once the k-th has become the last.
LEMMA MovedLastAt ==
    ASSUME NEW S, NEW anchors \in Seq(S), NEW k \in DOMAIN anchors
    PROVE  /\ MovedLast(anchors, k) \in Seq(S)
           /\ DOMAIN MovedLast(anchors, k) = DOMAIN anchors
           /\ \A i \in DOMAIN anchors : MovedLast(anchors, k)[i] =
                  anchors[IF i = Len(anchors) THEN k ELSE IF i < k THEN i ELSE i + 1]
<1> DEFINE others == RemoveAt(anchors, k)
           moved == Append(others, anchors[k])
<1>1. k \in Nat /\ Len(anchors) \in Nat /\ k >= 1 /\ k <= Len(anchors)
      /\ DOMAIN anchors = 1..Len(anchors) /\ anchors[k] \in S
  OBVIOUS
<1>2. /\ others \in Seq(S) /\ Len(others) = Len(anchors) - 1
      /\ \A i \in 1..(k - 1) : others[i] = anchors[i]
      /\ \A i \in k..(Len(anchors) - 1) : others[i] = anchors[i + 1]
  BY Without
<1> HIDE DEF others
<1>3. moved \in Seq(S) /\ Len(moved) = Len(anchors) /\ moved[Len(anchors)] = anchors[k]
  <2>1. moved \in Seq(S)
    BY <1>1, <1>2
  <2>4. Len(moved) = Len(others) + 1
    BY <1>2
  <2>2. moved[Len(others) + 1] = anchors[k]
    BY <1>1, <1>2
  <2> HIDE DEF moved
  <2>3. QED
    BY <1>1, <1>2, <2>1, <2>2, <2>4
<1>4. \A i \in 1..(Len(anchors) - 1) : moved[i] = others[i]
  BY <1>1, <1>2
<1> HIDE DEF moved
<1>5. ASSUME NEW i \in DOMAIN anchors
      PROVE  moved[i] = anchors[IF i = Len(anchors) THEN k ELSE IF i < k THEN i ELSE i + 1]
  <2>1. CASE i = Len(anchors)
    BY <1>3, <2>1
  <2>2. CASE i # Len(anchors) /\ i < k
    <3>1. i \in 1..(Len(anchors) - 1) /\ i \in 1..(k - 1)
      BY <1>1, <2>2
    <3>2. QED
      BY <1>2, <1>4, <2>2, <3>1
  <2>3. CASE i # Len(anchors) /\ ~(i < k)
    <3>1. i \in 1..(Len(anchors) - 1) /\ i \in k..(Len(anchors) - 1)
      BY <1>1, <2>3
    <3>2. QED
      BY <1>2, <1>4, <2>3, <3>1
  <2>4. QED
    BY <2>1, <2>2, <2>3
<1>6. MovedLast(anchors, k) = moved
  BY DEF MovedLast, moved, others
<1>7. DOMAIN moved = DOMAIN anchors
  BY <1>1, <1>3
<1>8. QED
  BY <1>3, <1>5, <1>6, <1>7, Zenon

LEMMA AlterPgType ==
    ASSUME Types, AlterPgAnchor
    PROVE  pgAnchors' \in Seq(AnchorT) /\ altered' \in Alterations
<1>1. pgAnchors \in Seq(AnchorT) /\ nextId \in Nat
  BY DEF Types
<1>2. PICK k \in DOMAIN pgAnchors :
        \/ /\ pgAnchors' \in HashedChanges(pgAnchors, k)
           /\ altered' = [store |-> "pg", what |-> "chain", at |-> k]
        \/ /\ pgAnchors' \in RangeChanges(pgAnchors, k)
           /\ altered' = [store |-> "pg", what |-> "range", at |-> k]
        \/ /\ k > 1 /\ pgAnchors' = MovedFirst(pgAnchors, k)
           /\ altered' = [store |-> "pg", what |-> "chain", at |-> 1]
        \/ /\ k < Len(pgAnchors) /\ pgAnchors' = MovedLast(pgAnchors, k)
           /\ altered' = [store |-> "pg", what |-> "chain", at |-> k]
  BY Zenon DEF AlterPgAnchor
<1>3. k \in Nat
  BY <1>1
<1>4. altered' \in Alterations
  BY <1>2, <1>3 DEF Alterations
<1>5. pgAnchors' \in Seq(AnchorT)
  BY <1>1, <1>2, TamperType, RangeType, MovedFirstAt, MovedLastAt
<1>6. QED
  BY <1>4, <1>5

LEMMA TypesStep == Types /\ [Next]_vars => Types'
<1> SUFFICES ASSUME Types, [Next]_vars PROVE Types'
  OBVIOUS
<1>1. CASE Publish
  BY <1>1, BoundAssumption DEF Types, Publish, pgVars, memVars
<1>2. CASE RecordPg
  <2>1. pos + 1 \in 0..published
    BY <1>2 DEF RecordPg, CanTake, Types
  <2>2. QED
    BY <1>2, <2>1, InsertType DEF RecordPg, Types, memVars
<1>3. CASE RecordMem
  <2>1. pos + 1 \in 0..published
    BY <1>3 DEF RecordMem, CanTake, Types
  <2>2. stage' = "anchor_mem"
    BY <1>3 DEF RecordMem, AppendMem
  <2>3. QED
    BY <1>3, <2>1, <2>2, AppendType DEF RecordMem, Types, pgVars
<1>4. CASE RecordPgRaises
  <2>1. pos + 1 \in 0..published
    BY <1>4 DEF RecordPgRaises, CanTake, Types
  <2>2. stage' = "anchor_mem" /\ memLog' \in Seq(0..MaxLog)
    BY <1>4, AppendType DEF RecordPgRaises, AppendMem
  <2>3. /\ pgLog' \in [DOMAIN pgLog' -> 0..MaxLog]
        /\ DOMAIN pgLog' \subseteq 1..(nextId' - 1)
        /\ nextId' \in Nat \ {0}
    <3>1. CASE InsertPg
      BY <1>4, <3>1, InsertType DEF RecordPgRaises
    <3>2. CASE nextId' \in {nextId, nextId + 1} /\ UNCHANGED pgLog
      BY <3>2 DEF Types
    <3>3. QED
      BY <1>4, <3>1, <3>2 DEF RecordPgRaises
  <2>4. QED
    BY <1>4, <2>1, <2>2, <2>3 DEF RecordPgRaises, Types
<1>5. CASE AnchorPg
  <2>1. pgAnchors' \in Seq(AnchorT)
    <3>1. ASSUME NEW b \in FullBatches(Pending(pgLog, pgAnchors)),
                 pgAnchors' = Append(pgAnchors, Seal(pgLog, pgAnchors, b))
          PROVE  pgAnchors' \in Seq(AnchorT)
      <4>1. DOMAIN pgLog \subseteq Nat /\ \A i \in DOMAIN pgLog : pgLog[i] \in 0..MaxLog
        BY DEF Types
      <4>2. Seal(pgLog, pgAnchors, b) \in AnchorT
        BY <4>1, SealType DEF Types
      <4>3. QED
        BY <3>1, <4>2 DEF Types
    <3>2. QED
      BY <1>5, <3>1 DEF AnchorPg, Types
  <2>2. QED
    BY <1>5, <2>1 DEF AnchorPg, Types, memVars
<1>6. CASE AnchorMem
  <2>1. memAnchors' \in Seq(AnchorT)
    <3>1. ASSUME NEW b \in FullBatches(Pending(memLog, memAnchors)),
                 memAnchors' = Append(memAnchors, Seal(memLog, memAnchors, b))
          PROVE  memAnchors' \in Seq(AnchorT)
      <4>1. DOMAIN memLog \subseteq Nat /\ \A i \in DOMAIN memLog : memLog[i] \in 0..MaxLog
        BY MemRows
      <4>2. Seal(memLog, memAnchors, b) \in AnchorT
        BY <4>1, SealType DEF Types
      <4>3. QED
        BY <3>1, <4>2 DEF Types
    <3>2. QED
      BY <1>6, <3>1 DEF AnchorMem, Types
  <2>2. QED
    BY <1>6, <2>1 DEF AnchorMem, Types, pgVars
<1>7. CASE Reconnect
  BY <1>7, BoundAssumption DEF Types, Reconnect, pgVars, memVars
<1>8. CASE Restart
  <2>1. altered' \in Alterations
    BY <1>8 DEF Restart, Types, Alterations, Unaltered
  <2>2. QED
    BY <1>8, <2>1, BoundAssumption DEF Types, Restart, pgVars
<1>9. CASE PgFlips
  <2>1. pgUp' \in BOOLEAN
    BY <1>9 DEF PgFlips
  <2>2. QED
    BY <1>9, <2>1 DEF Types, PgFlips, pgVars, memVars
<1>10. CASE Alter
  <2>1. CASE AlterPgAnchor /\ UNCHANGED <<pgLog, memVars>>
    BY <1>10, <2>1, AlterPgType DEF Alter, Types, memVars
  <2>2. ASSUME NEW k \in DOMAIN memAnchors, memAnchors' \in HashedChanges(memAnchors, k),
               altered' = [store |-> "mem", what |-> "chain", at |-> k],
               UNCHANGED <<pgLog, pgAnchors, memLog>>
        PROVE  Types'
    <3>1. memAnchors' \in Seq(AnchorT) /\ k \in Nat
      BY <2>2, TamperType DEF Types
    <3>2. QED
      BY <1>10, <2>2, <3>1 DEF Alter, Types, Alterations
  <2>3. ASSUME NEW i \in DOMAIN pgLog, pgLog' = [pgLog EXCEPT ![i] = 0],
               altered' = [store |-> "pg", what |-> "row", at |-> i],
               UNCHANGED <<pgAnchors, memVars>>
        PROVE  Types'
    <3>1. i \in Nat /\ DOMAIN pgLog' = DOMAIN pgLog
      BY <2>3 DEF Types
    <3>2. pgLog' \in [DOMAIN pgLog' -> 0..MaxLog]
      BY <2>3, <3>1, BoundAssumption DEF Types
    <3>3. QED
      BY <1>10, <2>3, <3>1, <3>2 DEF Alter, Types, memVars, Alterations
  <2>4. ASSUME NEW i \in DOMAIN memLog, memLog' = [memLog EXCEPT ![i] = 0],
               altered' = [store |-> "mem", what |-> "row", at |-> i],
               UNCHANGED <<pgLog, pgAnchors, memAnchors>>
        PROVE  Types'
    <3>1. i \in Nat /\ memLog' \in Seq(0..MaxLog)
      BY <2>4, BoundAssumption DEF Types
    <3>2. QED
      BY <1>10, <2>4, <3>1 DEF Alter, Types, Alterations
  <2>5. QED
    BY <1>10, <2>1, <2>2, <2>3, <2>4 DEF Alter
<1>11. CASE UNCHANGED vars
  BY <1>11 DEF vars, pgVars, memVars, Types
<1>12. QED
  BY <1>1, <1>2, <1>3, <1>4, <1>5, <1>6, <1>7, <1>8, <1>9, <1>10, <1>11 DEF Next, Consume

-----------------------------------------------------------------------------
(* Both ledgers stay sound.                                                *)

LEMMA InsertKeepsSeals ==
    ASSUME Types, InsertPg, SealsInOrder(pgLog, pgAnchors)
    PROVE  SealsInOrder(pgLog', pgAnchors)
<1>1. DOMAIN pgLog \subseteq 1..(nextId - 1) /\ nextId \in Nat /\ pgAnchors \in Seq(AnchorT)
  BY DEF Types
<1>2. DOMAIN pgLog' = DOMAIN pgLog \cup {nextId}
  BY DEF InsertPg
<1>3. \A i \in DOMAIN pgLog : pgLog'[i] = pgLog[i]
  BY <1>1 DEF InsertPg
<1>4. QED
  BY <1>1, <1>2, <1>3, GrowKeepsSeals

LEMMA AppendKeepsSeals ==
    ASSUME Types, AppendMem, SealsInOrder(memLog, memAnchors)
    PROVE  SealsInOrder(memLog', memAnchors)
<1>1. memLog \in Seq(0..MaxLog) /\ memAnchors \in Seq(AnchorT) /\ memLog' = Append(memLog, pos + 1)
  BY DEF Types, AppendMem
<1>2. /\ DOMAIN memLog = 1..Len(memLog)
      /\ DOMAIN memLog' = 1..(Len(memLog) + 1)
      /\ \A i \in 1..Len(memLog) : memLog'[i] = memLog[i]
      /\ Len(memLog) \in Nat
  BY <1>1
<1>3. DOMAIN memLog' \subseteq Nat /\ DOMAIN memLog \subseteq DOMAIN memLog'
  BY <1>2
<1>4. \A i \in DOMAIN memLog : memLog'[i] = memLog[i]
  BY <1>2
<1>5. \A i \in DOMAIN memLog' \ DOMAIN memLog : \A j \in DOMAIN memLog : j < i
  BY <1>2
<1>6. QED
  BY <1>1, <1>3, <1>4, <1>5, GrowKeepsSeals, Zenon

LEMMA SoundInit == Init => BothSound
BY DEF Init, BothSound, Sound, Linked, SealsInOrder, Ascending

LEMMA SoundStep == Types /\ BothSound /\ [Next]_vars => BothSound'
<1> SUFFICES ASSUME Types, BothSound, [Next]_vars PROVE BothSound'
  OBVIOUS
<1>1. CASE Publish \/ Reconnect \/ PgFlips \/ UNCHANGED vars
  <2>1. UNCHANGED <<pgLog, pgAnchors, memLog, memAnchors, altered>>
    BY <1>1 DEF Publish, Reconnect, PgFlips, vars, pgVars, memVars
  <2>2. QED
    BY <2>1, Zenon DEF BothSound, Sound
<1>2. CASE RecordPg
  <2>1. UNCHANGED <<pgAnchors, memLog, memAnchors, altered>> /\ InsertPg
    BY <1>2 DEF RecordPg, memVars
  <2>2. QED
    BY <2>1, InsertKeepsSeals, Zenon DEF BothSound, Sound
<1>3. CASE RecordMem
  <2>1. UNCHANGED <<pgLog, pgAnchors, memAnchors, altered>> /\ AppendMem
    BY <1>3 DEF RecordMem, pgVars
  <2>2. QED
    BY <2>1, AppendKeepsSeals, Zenon DEF BothSound, Sound
<1>4. CASE RecordPgRaises
  <2>1. UNCHANGED <<pgAnchors, memAnchors, altered>> /\ AppendMem /\ (InsertPg \/ UNCHANGED pgLog)
    BY <1>4 DEF RecordPgRaises
  <2>2. QED
    BY <2>1, InsertKeepsSeals, AppendKeepsSeals, Zenon DEF BothSound, Sound
<1>5. CASE AnchorPg
  <2>1. UNCHANGED <<pgLog, memLog, memAnchors, altered>>
    BY <1>5 DEF AnchorPg, memVars
  <2>2. ASSUME NEW b \in FullBatches(Pending(pgLog, pgAnchors)),
               pgAnchors' = Append(pgAnchors, Seal(pgLog, pgAnchors, b)),
               Sound(pgLog, pgAnchors)
        PROVE  Sound(pgLog, pgAnchors')
    <3>1. DOMAIN pgLog \subseteq Nat \ {0} /\ pgAnchors \in Seq(AnchorT)
      BY DEF Types
    <3>2. QED
      BY <2>2, <3>1, SealKeepsLinked, SealKeepsOrder, SealAscends DEF Sound
  <2>3. QED
    BY <1>5, <2>1, <2>2, Zenon DEF AnchorPg, BothSound
<1>6. CASE AnchorMem
  <2>1. UNCHANGED <<pgLog, pgAnchors, memLog, altered>>
    BY <1>6 DEF AnchorMem, pgVars
  <2>2. ASSUME NEW b \in FullBatches(Pending(memLog, memAnchors)),
               memAnchors' = Append(memAnchors, Seal(memLog, memAnchors, b)),
               Sound(memLog, memAnchors)
        PROVE  Sound(memLog, memAnchors')
    <3>1. DOMAIN memLog \subseteq Nat \ {0} /\ memAnchors \in Seq(AnchorT)
      BY MemRows DEF Types
    <3>2. QED
      BY <2>2, <3>1, SealKeepsLinked, SealKeepsOrder, SealAscends DEF Sound
  <2>3. QED
    BY <1>6, <2>1, <2>2, Zenon DEF AnchorMem, BothSound
<1>7. CASE Restart
  <2>1. UNCHANGED <<pgLog, pgAnchors>> /\ memLog' = <<>> /\ memAnchors' = <<>>
    BY <1>7 DEF Restart, pgVars
  <2>2. Sound(memLog', memAnchors')
    BY <2>1 DEF Sound, Linked, SealsInOrder, Ascending
  <2>3. altered.store = "pg" => altered'.store = "pg"
    BY <1>7 DEF Restart
  <2>4. QED
    BY <2>1, <2>2, <2>3, Zenon DEF BothSound
<1>8. CASE Alter
  <2>1. \/ altered'.store = "pg" /\ UNCHANGED <<memLog, memAnchors>>
        \/ altered'.store = "mem" /\ UNCHANGED <<pgLog, pgAnchors>>
    BY <1>8 DEF Alter, AlterPgAnchor, memVars
  <2>2. Sound(pgLog, pgAnchors) /\ Sound(memLog, memAnchors)
    BY <1>8 DEF Alter, Unaltered, BothSound
  <2>3. "pg" # "mem"
    OBVIOUS
  <2>4. QED
    BY <2>1, <2>2, <2>3, Zenon DEF BothSound, Sound
<1>9. QED
  BY <1>1, <1>2, <1>3, <1>4, <1>5, <1>6, <1>7, <1>8 DEF Next, Consume

-----------------------------------------------------------------------------
(* Nothing consumed is lost.                                               *)

LEMMA RecordedInit == Init => ConsumedRecorded
<1> SUFFICES ASSUME Init PROVE \A m \in 1..pos : FALSE
  BY DEF ConsumedRecorded
<1>1. QED
  BY DEF Init

\* The rows a store already holds stay there when it is written to.
LEMMA InsertHolds ==
    ASSUME Types, InsertPg
    PROVE  Holds(pgLog', pos + 1) /\ \A m : Holds(pgLog, m) => Holds(pgLog', m)
<1>1. nextId \notin DOMAIN pgLog
  BY DEF Types
<1>2. DOMAIN pgLog' = DOMAIN pgLog \cup {nextId} /\ pgLog'[nextId] = pos + 1
  BY DEF InsertPg
<1>3. \A i \in DOMAIN pgLog : pgLog'[i] = pgLog[i]
  BY <1>1 DEF InsertPg
<1>4. QED
  BY <1>2, <1>3, Zenon DEF Holds

LEMMA AppendHolds ==
    ASSUME Types, AppendMem
    PROVE  Holds(memLog', pos + 1) /\ \A m : Holds(memLog, m) => Holds(memLog', m)
<1>1. memLog \in Seq(0..MaxLog) /\ memLog' = Append(memLog, pos + 1)
  BY DEF Types, AppendMem
<1>2. DOMAIN memLog' = 1..(Len(memLog) + 1) /\ memLog'[Len(memLog) + 1] = pos + 1
      /\ Len(memLog) + 1 \in 1..(Len(memLog) + 1)
  BY <1>1
<1>3. \A i \in DOMAIN memLog : i \in DOMAIN memLog' /\ memLog'[i] = memLog[i]
  BY <1>1
<1>4. QED
  BY <1>2, <1>3, Zenon DEF Holds

LEMMA RecordedStep == Types /\ ConsumedRecorded /\ [Next]_vars => ConsumedRecorded'
<1> SUFFICES ASSUME Types, ConsumedRecorded, [Next]_vars, altered' = Unaltered, NEW m \in 1..pos'
             PROVE  Holds(pgLog', m) \/ Holds(memLog', m)
  BY DEF ConsumedRecorded
<1>1. CASE RecordPg \/ RecordMem \/ RecordPgRaises
  <2>1. altered = Unaltered /\ pos' = pos + 1
    BY <1>1 DEF RecordPg, RecordMem, RecordPgRaises
  <2>2. m \in 1..pos \/ m = pos + 1
    BY <2>1 DEF Types
  <2>3. m \in 1..pos => Holds(pgLog, m) \/ Holds(memLog, m)
    BY <2>1 DEF ConsumedRecorded
  <2>4. InsertPg \/ UNCHANGED pgLog
    BY <1>1 DEF RecordPg, RecordMem, RecordPgRaises, pgVars
  <2>5. AppendMem \/ UNCHANGED memLog
    BY <1>1 DEF RecordPg, RecordMem, RecordPgRaises, memVars
  <2>6. InsertPg \/ AppendMem
    BY <1>1 DEF RecordPg, RecordMem, RecordPgRaises
  <2>7. QED
    BY <2>2, <2>3, <2>4, <2>5, <2>6, InsertHolds, AppendHolds, Zenon
<1>2. CASE Reconnect \/ Restart
  BY <1>2 DEF Reconnect, Restart
<1>3. CASE Publish \/ AnchorPg \/ AnchorMem \/ PgFlips \/ UNCHANGED vars
  <2>1. UNCHANGED <<pgLog, memLog, altered, pos>>
    BY <1>3 DEF Publish, AnchorPg, AnchorMem, PgFlips, vars, pgVars, memVars
  <2>2. QED
    BY <2>1 DEF ConsumedRecorded, Holds
<1>4. CASE Alter
  BY <1>4 DEF Alter, AlterPgAnchor, Unaltered
<1>5. QED
  BY <1>1, <1>2, <1>3, <1>4 DEF Next, Consume

-----------------------------------------------------------------------------
(* How often a message is recorded.                                        *)

\* The rows of a log that hold message m.
RowsOf(log, m) == {i \in DOMAIN log : log[i] = m}

\* How many rows one reading of a message may leave.
PerReading == IF "commit" \in FaultKinds THEN 2 ELSE 1

Readings(m) == IF m <= pos THEN replays + 1 ELSE replays

\* Every earlier connection of the consumer has read a message once at most,
\* this one only if it is past it.  Altering a row takes a copy away.
Counted ==
    \A m \in Nat \ {0} : Copies(pgLog, m) + Copies(memLog, m) <= Readings(m) * PerReading

LEMMA CopiesFinite ==
    ASSUME NEW log, IsFiniteSet(DOMAIN log), NEW m
    PROVE  /\ IsFiniteSet(RowsOf(log, m))
           /\ Copies(log, m) = Cardinality(RowsOf(log, m)) /\ Copies(log, m) \in Nat
<1>1. RowsOf(log, m) \subseteq DOMAIN log
  BY DEF RowsOf
<1>2. IsFiniteSet(RowsOf(log, m))
  BY <1>1, FS_Subset
<1>3. QED
  BY <1>2, FS_CardinalityType DEF Copies, RowsOf

LEMMA LogsFinite ==
    ASSUME Types
    PROVE  IsFiniteSet(DOMAIN pgLog) /\ IsFiniteSet(DOMAIN memLog)
<1>1. nextId - 1 \in Int /\ DOMAIN pgLog \in SUBSET (1..(nextId - 1))
  BY DEF Types
<1>2. Len(memLog) \in Int /\ DOMAIN memLog = 1..Len(memLog)
  BY DEF Types
<1>3. IsFiniteSet(1..(nextId - 1)) /\ IsFiniteSet(1..Len(memLog))
  BY <1>1, <1>2, FS_Interval
<1>4. QED
  BY <1>1, <1>2, <1>3, FS_Subset

\* A row added to a log is one more copy of the message it holds.
LEMMA AddedRow ==
    ASSUME NEW log, NEW longer, NEW id, NEW n \in Nat, NEW m \in Nat,
           id \notin DOMAIN log, DOMAIN longer = DOMAIN log \cup {id}, longer[id] = n,
           \A i \in DOMAIN log : longer[i] = log[i],
           IsFiniteSet(DOMAIN log)
    PROVE  Copies(longer, m) = IF m = n THEN Copies(log, m) + 1 ELSE Copies(log, m)
<1>1. /\ Copies(log, m) = Cardinality(RowsOf(log, m)) /\ IsFiniteSet(RowsOf(log, m))
      /\ Copies(longer, m) = Cardinality(RowsOf(longer, m))
  BY CopiesFinite DEF Copies, RowsOf
<1>2. id \notin RowsOf(log, m)
  BY DEF RowsOf
<1>3. CASE m = n
  <2>1. RowsOf(longer, m) = RowsOf(log, m) \cup {id}
    BY <1>3 DEF RowsOf
  <2>2. Cardinality(RowsOf(log, m) \cup {id}) = Cardinality(RowsOf(log, m)) + 1
    BY <1>1, <1>2, FS_AddElement
  <2>3. QED
    BY <1>1, <1>3, <2>1, <2>2
<1>4. CASE m # n
  <2>1. RowsOf(longer, m) = RowsOf(log, m)
    BY <1>4 DEF RowsOf
  <2>2. QED
    BY <1>1, <1>4, <2>1
<1>5. QED
  BY <1>3, <1>4

LEMMA InsertCopies ==
    ASSUME Types, InsertPg, NEW m \in Nat
    PROVE  Copies(pgLog', m) = IF m = pos + 1 THEN Copies(pgLog, m) + 1 ELSE Copies(pgLog, m)
<1>1. nextId \notin DOMAIN pgLog /\ pos + 1 \in Nat
  BY BoundAssumption DEF Types
<1>2. DOMAIN pgLog' = DOMAIN pgLog \cup {nextId} /\ pgLog'[nextId] = pos + 1
  BY DEF InsertPg
<1>3. \A i \in DOMAIN pgLog : pgLog'[i] = pgLog[i]
  BY <1>1 DEF InsertPg
<1>4. QED
  BY <1>1, <1>2, <1>3, LogsFinite, AddedRow

LEMMA AppendCopies ==
    ASSUME Types, AppendMem, NEW m \in Nat
    PROVE  Copies(memLog', m) = IF m = pos + 1 THEN Copies(memLog, m) + 1 ELSE Copies(memLog, m)
<1> DEFINE id == Len(memLog) + 1
<1>1. memLog \in Seq(0..MaxLog) /\ memLog' = Append(memLog, pos + 1) /\ pos + 1 \in Nat
  BY BoundAssumption DEF Types, AppendMem
<1>2. id \notin DOMAIN memLog /\ DOMAIN memLog' = DOMAIN memLog \cup {id} /\ memLog'[id] = pos + 1
  BY <1>1
<1>3. \A i \in DOMAIN memLog : memLog'[i] = memLog[i]
  BY <1>1
<1> HIDE DEF id
<1>4. QED
  BY <1>1, <1>2, <1>3, LogsFinite, AddedRow

\* An altered row holds no message any more.
LEMMA AlteredCopies ==
    ASSUME NEW log, NEW i \in DOMAIN log, NEW m \in Nat \ {0}, IsFiniteSet(DOMAIN log)
    PROVE  /\ Copies([log EXCEPT ![i] = 0], m) <= Copies(log, m)
           /\ Copies([log EXCEPT ![i] = 0], m) \in Nat
<1> DEFINE changed == [log EXCEPT ![i] = 0]
<1>1. DOMAIN changed = DOMAIN log /\ RowsOf(changed, m) \subseteq RowsOf(log, m)
  BY DEF RowsOf
<1> HIDE DEF changed
<1>2. Copies(changed, m) = Cardinality(RowsOf(changed, m)) /\ Copies(changed, m) \in Nat
  BY <1>1, CopiesFinite
<1>3. Copies(log, m) = Cardinality(RowsOf(log, m)) /\ IsFiniteSet(RowsOf(log, m))
  BY CopiesFinite
<1>4. Copies(changed, m) <= Copies(log, m)
  BY <1>1, <1>2, <1>3, FS_Subset
<1>5. QED
  BY <1>2, <1>4 DEF changed

LEMMA CountedInit == Init => Counted
<1> SUFFICES ASSUME Init, NEW m \in Nat \ {0}
             PROVE  Copies(pgLog, m) + Copies(memLog, m) <= Readings(m) * PerReading
  BY DEF Counted
<1>1. Copies(pgLog, m) = 0 /\ Copies(memLog, m) = 0
  BY FS_EmptySet DEF Init, Copies
<1>2. QED
  BY <1>1 DEF Init, Readings, PerReading

LEMMA CountedStep == Types /\ Counted /\ [Next]_vars => Counted'
<1> SUFFICES ASSUME Types, Counted, [Next]_vars, NEW m \in Nat \ {0}
             PROVE  Copies(pgLog', m) + Copies(memLog', m) <= Readings(m)' * PerReading
  BY DEF Counted, PerReading
<1>1. /\ Copies(pgLog, m) + Copies(memLog, m) <= Readings(m) * PerReading
      /\ Copies(pgLog, m) \in Nat /\ Copies(memLog, m) \in Nat
      /\ pos \in Nat /\ replays \in Nat
  BY LogsFinite, CopiesFinite, BoundAssumption DEF Counted, Types
<1>2. PerReading = (IF "commit" \in FaultKinds THEN 2 ELSE 1)
  BY DEF PerReading
<1>3. CASE RecordPg \/ RecordMem
  <2>1. pos' = pos + 1 /\ replays' = replays
    BY <1>3 DEF RecordPg, RecordMem
  <2>2. \/ InsertPg /\ memLog' = memLog
        \/ AppendMem /\ pgLog' = pgLog
    BY <1>3 DEF RecordPg, RecordMem, memVars, pgVars
  <2>3. Copies(pgLog', m) + Copies(memLog', m)
            <= Copies(pgLog, m) + Copies(memLog, m) + (IF m = pos + 1 THEN 1 ELSE 0)
    BY <1>1, <2>2, InsertCopies, AppendCopies
  <2>4. Copies(pgLog', m) \in Nat /\ Copies(memLog', m) \in Nat
    BY <1>1, <2>1, <2>2, InsertCopies, AppendCopies
  <2>5. Readings(m)' = IF m = pos + 1 THEN Readings(m) + 1 ELSE Readings(m)
    BY <1>1, <2>1 DEF Readings
  <2>6. Readings(m) \in Nat
    BY <1>1 DEF Readings
  <2>7. QED
    BY <1>1, <1>2, <2>3, <2>4, <2>5, <2>6
<1>4. CASE RecordPgRaises
  <2>1. pos' = pos + 1 /\ replays' = replays /\ AppendMem
    BY <1>4 DEF RecordPgRaises
  <2>2. pgLog' = pgLog \/ ("commit" \in FaultKinds /\ InsertPg)
    BY <1>4 DEF RecordPgRaises
  <2>3. Copies(pgLog', m) + Copies(memLog', m)
            <= Copies(pgLog, m) + Copies(memLog, m) + (IF m = pos + 1 THEN PerReading ELSE 0)
    BY <1>1, <1>2, <2>1, <2>2, InsertCopies, AppendCopies
  <2>4. Copies(pgLog', m) \in Nat /\ Copies(memLog', m) \in Nat
    BY <1>1, <2>1, <2>2, InsertCopies, AppendCopies
  <2>5. Readings(m)' = IF m = pos + 1 THEN Readings(m) + 1 ELSE Readings(m)
    BY <1>1, <2>1 DEF Readings
  <2>6. Readings(m) \in Nat
    BY <1>1 DEF Readings
  <2>7. QED
    BY <1>1, <1>2, <2>3, <2>4, <2>5, <2>6
<1>5. CASE Reconnect \/ Restart
  <2>1. pos' = 0 /\ replays' = replays + 1 /\ pgLog' = pgLog
    BY <1>5 DEF Reconnect, Restart, pgVars
  <2>2. Copies(memLog', m) <= Copies(memLog, m) /\ Copies(memLog', m) \in Nat
    <3>1. CASE memLog' = memLog
      BY <1>1, <3>1
    <3>2. CASE memLog' = <<>>
      <4>1. Copies(memLog', m) = 0
        BY <3>2, FS_EmptySet DEF Copies
      <4>2. QED
        BY <1>1, <4>1
    <3>3. QED
      BY <1>5, <3>1, <3>2 DEF Reconnect, Restart, memVars
  <2>3. Readings(m) * PerReading <= Readings(m)' * PerReading
    BY <1>1, <1>2, <2>1 DEF Readings
  <2>4. QED
    BY <1>1, <1>2, <2>1, <2>2, <2>3 DEF Readings
<1>6. CASE Publish \/ AnchorPg \/ AnchorMem \/ PgFlips \/ UNCHANGED vars
  <2>1. UNCHANGED <<pgLog, memLog, pos, replays>>
    BY <1>6 DEF Publish, AnchorPg, AnchorMem, PgFlips, vars, pgVars, memVars
  <2>2. QED
    BY <1>1, <2>1 DEF Readings
<1>7. CASE Alter
  <2>1. UNCHANGED <<pos, replays>>
    BY <1>7 DEF Alter
  <2>2. /\ pgLog' = pgLog \/ \E i \in DOMAIN pgLog : pgLog' = [pgLog EXCEPT ![i] = 0]
        /\ memLog' = memLog \/ \E i \in DOMAIN memLog : memLog' = [memLog EXCEPT ![i] = 0]
    BY <1>7 DEF Alter, memVars
  <2>3. /\ Copies(pgLog', m) <= Copies(pgLog, m) /\ Copies(pgLog', m) \in Nat
        /\ Copies(memLog', m) <= Copies(memLog, m) /\ Copies(memLog', m) \in Nat
    BY <1>1, <2>2, LogsFinite, AlteredCopies
  <2>4. Readings(m)' = Readings(m)
    BY <2>1 DEF Readings
  <2>5. QED
    BY <1>1, <1>2, <2>3, <2>4 DEF Readings
<1>8. QED
  BY <1>3, <1>4, <1>5, <1>6, <1>7 DEF Next, Consume

-----------------------------------------------------------------------------
(* What GET /ledger/verify answers.                                        *)

\* A set of natural numbers that is not empty has a least one.
LEMMA LeastExists ==
    ASSUME NEW S \in SUBSET Nat, S # {}
    PROVE  \E i \in S : \A j \in S : i <= j
<1>1. PICK i \in S : \A j \in S : <<j, i>> \notin OpToRel(<, Nat)
  BY NatLessThanWellFounded, WFMin
<1>2. ASSUME NEW j \in S PROVE i <= j
  <2>1. \A ss \in Nat \X Nat : ss[1] < ss[2] => ss \in OpToRel(<, Nat)
    BY Zenon DEF OpToRel
  <2>2. <<j, i>> \in Nat \X Nat
    OBVIOUS
  <2>3. ~(<<j, i>>[1] < <<j, i>>[2])
    BY <1>1, <2>1, <2>2
  <2>4. QED
    BY <2>3
<1>3. QED
  BY <1>2

Before(anchors, k) == IF k = 1 THEN Genesis ELSE anchors[k - 1].hash

Replays(anchors, k) ==
    /\ anchors[k].prev = Before(anchors, k)
    /\ anchors[k].hash = Hash(Before(anchors, k), anchors[k].root)

Hits(anchors, id) == {k \in DOMAIN anchors : Covers(anchors[k], id)}

LEMMA ListedWhole ==
    ASSUME NEW anchors \in Seq(AnchorT), Len(anchors) <= VerifyLimit
    PROVE  Listed(anchors) = anchors
<1>1. ~(Len(anchors) > VerifyLimit)
  BY BatchAssumption
<1>2. Listed(anchors) = SubSeq(anchors, 1, Len(anchors))
  BY <1>1, Zenon DEF Listed
<1>3. SubSeq(anchors, 1, Len(anchors)) = anchors
  OBVIOUS
<1>4. QED
  BY <1>2, <1>3

\* An answer is given for the first listed anchor that covers the row.
LEMMA Answer ==
    ASSUME NEW anchors, Listed(anchors) \in Seq(AnchorT), NEW id
    PROVE  LET listed == Listed(anchors) IN
           \/ Hits(listed, id) = {} /\ VerifyAnchor(anchors, id) = [anchored |-> FALSE, valid |-> FALSE]
           \/ \E match \in Hits(listed, id) :
                /\ match \in 1..Len(listed)
                /\ \E b \in BOOLEAN : VerifyAnchor(anchors, id) = [anchored |-> TRUE, valid |-> b]
                /\ VerifyAnchor(anchors, id).valid <=> \A k \in 1..match : Replays(listed, k)
<1> DEFINE listed == Listed(anchors)
           hits == Hits(listed, id)
           match == CHOOSE k \in hits : \A j \in hits : k <= j
<1>1. VerifyAnchor(anchors, id) =
        IF hits = {} THEN [anchored |-> FALSE, valid |-> FALSE]
        ELSE [anchored |-> TRUE, valid |-> \A k \in 1..match : Replays(listed, k)]
  BY Zenon DEF VerifyAnchor, Hits, Replays, Before
<1>2. hits \in SUBSET (1..Len(listed)) /\ Len(listed) \in Nat
  BY DEF Hits
<1> HIDE DEF hits
<1>3. CASE hits = {}
  BY <1>1, <1>3 DEF hits
<1>4. CASE hits # {}
  <2>1. \E k \in hits : \A j \in hits : k <= j
    BY <1>2, <1>4, LeastExists
  <2>2. match \in hits
    BY <2>1
  <2> HIDE DEF match, listed
  <2>3. VerifyAnchor(anchors, id).valid <=> \A k \in 1..match : Replays(listed, k)
    BY <1>1, <1>4
  <2>4. \E b \in BOOLEAN : VerifyAnchor(anchors, id) = [anchored |-> TRUE, valid |-> b]
    <3> DEFINE b == \A k \in 1..match : Replays(listed, k)
    <3>1. b \in BOOLEAN
      OBVIOUS
    <3>2. VerifyAnchor(anchors, id) = [anchored |-> TRUE, valid |-> b]
      BY <1>1, <1>4, Zenon
    <3> HIDE DEF b
    <3>3. QED
      BY <3>1, <3>2
  <2>5. QED
    BY <1>2, <2>2, <2>3, <2>4 DEF hits, listed
<1>5. QED
  BY <1>3, <1>4

\* A sealed row is covered by the first anchor that reaches as far.
LEMMA SealedCovered ==
    ASSUME NEW log, DOMAIN log \subseteq Nat \ {0}, NEW anchors \in Seq(AnchorT),
           SealsInOrder(log, anchors), NEW id \in DOMAIN log \ Pending(log, anchors)
    PROVE  Hits(anchors, id) # {}
<1> DEFINE reaching == {k \in DOMAIN anchors : id <= anchors[k].last}
<1>1. DOMAIN anchors = 1..Len(anchors) /\ Len(anchors) \in Nat
      /\ \A k \in DOMAIN anchors : anchors[k] \in AnchorT
  OBVIOUS
<1>2. id \in Nat /\ id > 0
  OBVIOUS
<1>3. reaching # {}
  <2>1. PICK j \in DOMAIN anchors : ~(anchors[j].last < id)
    BY DEF Pending
  <2>2. anchors[j].last \in Nat
    BY <1>1 DEF AnchorT
  <2>3. QED
    BY <1>2, <2>1, <2>2
<1>4. PICK k \in reaching : \A j \in reaching : k <= j
  <2>1. reaching \in SUBSET Nat
    BY <1>1
  <2>2. QED
    BY <1>3, <2>1, LeastExists
<1> DEFINE after == IF k = 1 THEN 0 ELSE anchors[k - 1].last
           rows == {i \in DOMAIN log : after < i /\ i <= anchors[k].last}
<1>5. k \in DOMAIN anchors /\ id <= anchors[k].last
  BY <1>4
<1>6. after < id
  <2>1. CASE k = 1
    BY <1>2, <2>1
  <2>2. CASE k # 1
    <3>1. k - 1 \in DOMAIN anchors /\ ~(k <= k - 1)
      BY <1>1, <1>5, <2>2
    <3>2. ~(id <= anchors[k - 1].last)
      BY <1>4, <3>1
    <3>3. anchors[k - 1].last \in Nat
      BY <1>1, <3>1 DEF AnchorT
    <3>4. QED
      BY <1>2, <2>2, <3>2, <3>3
  <2>3. QED
    BY <2>1, <2>2
<1>7. id \in rows
  BY <1>5, <1>6
<1>8. anchors[k].first <= id
  <2>1. \A i \in rows : anchors[k].first <= i
    BY <1>5, Zenon DEF SealsInOrder
  <2>2. QED
    BY <1>7, <2>1
<1>9. QED
  BY <1>5, <1>8 DEF Hits, Covers

LEMMA HonestVerifies ==
    ASSUME NEW log, DOMAIN log \subseteq Nat \ {0}, NEW anchors \in Seq(AnchorT),
           Sound(log, anchors), NEW id \in DOMAIN log \ Pending(log, anchors)
    PROVE  VerifyAnchor(anchors, id).valid <=> Len(anchors) <= VerifyLimit
<1> USE BatchAssumption
<1>1. CASE Len(anchors) <= VerifyLimit
  <2>1. Listed(anchors) = anchors
    BY <1>1, ListedWhole
  <2>2. Hits(anchors, id) # {}
    BY SealedCovered DEF Sound
  <2>3. PICK match \in 1..Len(anchors) :
            VerifyAnchor(anchors, id).valid <=> \A k \in 1..match : Replays(anchors, k)
    BY <2>1, <2>2, Answer
  <2>4. \A k \in DOMAIN anchors : Replays(anchors, k)
    BY DEF Sound, Linked, Replays, Before
  <2>5. QED
    BY <1>1, <2>3, <2>4
<1>2. CASE ~(Len(anchors) <= VerifyLimit)
  <2> DEFINE d == Len(anchors) - VerifyLimit
             listed == Listed(anchors)
  <2>1. d \in DOMAIN anchors /\ d + 1 \in DOMAIN anchors /\ d + 1 # 1
    BY <1>2
  <2>2. listed = SubSeq(anchors, d + 1, Len(anchors))
    <3>1. Len(anchors) > VerifyLimit
      BY <1>2
    <3>2. QED
      BY <3>1, Zenon DEF Listed
  <2>3. listed \in Seq(AnchorT) /\ Len(listed) = VerifyLimit /\ listed[1] = anchors[d + 1]
    BY <1>2, <2>1, <2>2
  <2>4. anchors[d + 1].prev = anchors[d].hash /\ anchors[d].hash = Hash(anchors[d].prev, anchors[d].root)
    BY <2>1 DEF Sound, Linked
  <2>5. anchors[d].hash # Genesis
    <3>1. anchors[d] \in AnchorT
      BY <2>1
    <3>2. anchors[d].prev \in Seq(Roots)
      BY <3>1 DEF AnchorT
    <3>3. QED
      BY <2>4, <3>2 DEF Hash, Genesis
  <2>6. ~Replays(listed, 1)
    BY <2>3, <2>4, <2>5 DEF Replays, Before
  <2> HIDE DEF listed
  <2>7. ~VerifyAnchor(anchors, id).valid
    BY <2>3, <2>6, Answer DEF listed
  <2>8. QED
    BY <1>2, <2>7
<1>3. QED
  BY <1>1, <1>2

-----------------------------------------------------------------------------
(* What alteration leaves behind.                                          *)

\* The rows under an anchor are claimed by it and by no other one.
Apart(anchors) ==
    \A k \in DOMAIN anchors : \A id \in DOMAIN anchors[k].root :
        /\ Covers(anchors[k], id)
        /\ \A j \in DOMAIN anchors : j # k => ~Covers(anchors[j], id)

BrokenAt(anchors, k) == k \in DOMAIN anchors /\ ~Replays(anchors, k)

Messages(log) == \A i \in DOMAIN log : log[i] # 0

\* Nothing that is written later mends a broken chain, and nothing breaks the
\* chain but an edit of what it hashes or of its order.
Marked ==
    /\ Apart(memAnchors) /\ (altered.what # "range" => Apart(pgAnchors))
    /\ altered.what = "range" => altered.store = "pg"
    /\ altered.store # "pg" => Messages(pgLog)
    /\ altered.store # "mem" => Messages(memLog)
    /\ altered.what # "chain" => Linked(pgAnchors) /\ Linked(memAnchors)
    /\ altered.what = "chain" =>
           /\ altered.store # "none"
           /\ BrokenAt(IF altered.store = "pg" THEN pgAnchors ELSE memAnchors, altered.at)

LEMMA SealKeepsApart ==
    ASSUME NEW log, DOMAIN log \subseteq Nat, NEW anchors \in Seq(AnchorT),
           NEW b \in FullBatches(Pending(log, anchors)), Apart(anchors)
    PROVE  Apart(Append(anchors, Seal(log, anchors, b)))
<1> DEFINE new == Seal(log, anchors, b)
           longer == Append(anchors, new)
           n == Len(anchors) + 1
<1>1. /\ new.first = b.first /\ new.last = b.last
      /\ DOMAIN new.root = {i \in Pending(log, anchors) : i <= b.last}
  BY DEF Seal
<1>2. /\ b.first \in Pending(log, anchors) /\ Pending(log, anchors) \subseteq Nat
      /\ \A i \in Pending(log, anchors) : i <= b.last => b.first <= i
  BY DEF FullBatches, Pending
<1>3. \A id \in DOMAIN new.root : Covers(new, id)
  BY <1>1, <1>2 DEF Covers
<1>4. \A j \in DOMAIN anchors : anchors[j].last \in Nat
                              /\ \A id \in DOMAIN anchors[j].root : id \in Nat
  <2>1. \A j \in DOMAIN anchors : anchors[j] \in AnchorT
    OBVIOUS
  <2>2. QED
    BY <2>1 DEF AnchorT, Roots
<1>5. \A id \in DOMAIN new.root, j \in DOMAIN anchors : ~Covers(anchors[j], id)
  <2> SUFFICES ASSUME NEW id \in Pending(log, anchors), NEW j \in DOMAIN anchors
               PROVE  ~(id <= anchors[j].last)
    BY <1>1 DEF Covers
  <2>1. QED
    BY <1>2, <1>4 DEF Pending
<1>6. \A j \in DOMAIN anchors : \A id \in DOMAIN anchors[j].root : ~Covers(new, id)
  <2> SUFFICES ASSUME NEW j \in DOMAIN anchors, NEW id \in DOMAIN anchors[j].root
               PROVE  ~(b.first <= id)
    BY <1>1 DEF Covers
  <2>1. id <= anchors[j].last
    BY DEF Apart, Covers
  <2>2. anchors[j].last < b.first
    BY <1>2 DEF Pending
  <2>3. id \in Nat /\ anchors[j].last \in Nat /\ b.first \in Nat
    BY <1>2, <1>4
  <2>4. QED
    BY <2>1, <2>2, <2>3
<1>7. /\ DOMAIN longer = 1..n /\ n \in Nat /\ longer[n] = new /\ DOMAIN anchors = 1..(n - 1)
      /\ \A k \in DOMAIN anchors : longer[k] = anchors[k]
  <2> HIDE DEF new
  <2>1. QED
    OBVIOUS
<1> HIDE DEF new, longer, n
<1> SUFFICES ASSUME NEW k \in 1..n, NEW id \in DOMAIN longer[k].root
             PROVE  /\ Covers(longer[k], id)
                    /\ \A j \in 1..n : j # k => ~Covers(longer[j], id)
  BY <1>7, Zenon DEF Apart, longer, new
<1>8. \A j \in 1..n : j = n \/ (j \in DOMAIN anchors /\ longer[j] = anchors[j])
  BY <1>7
<1>9. CASE k = n
  BY <1>3, <1>5, <1>7, <1>8, <1>9
<1>10. CASE k # n
  <2>1. k \in DOMAIN anchors /\ longer[k] = anchors[k]
    BY <1>8, <1>10
  <2>2. QED
    BY <1>6, <1>7, <1>8, <2>1, Zenon DEF Apart
<1>11. QED
  BY <1>9, <1>10

LEMMA SealKeepsBroken ==
    ASSUME NEW anchors \in Seq(AnchorT), NEW k, BrokenAt(anchors, k), NEW a
    PROVE  BrokenAt(Append(anchors, a), k)
<1>1. k \in DOMAIN anchors /\ (k # 1 => k - 1 \in DOMAIN anchors)
  BY DEF BrokenAt
<1>2. \A j \in DOMAIN anchors : j \in DOMAIN Append(anchors, a) /\ Append(anchors, a)[j] = anchors[j]
  OBVIOUS
<1>3. QED
  BY <1>1, <1>2 DEF BrokenAt, Replays, Before

\* An anchor changed where it is hashed no longer replays.
LEMMA AlterBreaks ==
    ASSUME NEW log, Messages(log), NEW anchors \in Seq(AnchorT), Sound(log, anchors),
           NEW k \in DOMAIN anchors, NEW changed \in HashedChanges(anchors, k)
    PROVE  BrokenAt(changed, k)
<1> DEFINE root == anchors[k].root
           before == Before(anchors, k)
<1>1. anchors[k] \in AnchorT /\ k \in Nat
  OBVIOUS
<1>2. anchors[k].prev = before /\ anchors[k].hash = Append(before, root) /\ before \in Seq(Roots)
  BY <1>1 DEF Sound, Linked, Before, Hash, AnchorT
<1>3. DOMAIN changed = DOMAIN anchors /\ Before(changed, k) = before
  <2>1. DOMAIN changed = DOMAIN anchors /\ \A j \in DOMAIN anchors : j # k => changed[j] = anchors[j]
    BY DEF HashedChanges
  <2>2. k # 1 => k - 1 \in DOMAIN anchors /\ k - 1 # k
    OBVIOUS
  <2>3. QED
    BY <2>1, <2>2 DEF Before
<1>4. Tamper(root) # root
  <2> DEFINE after == IF k = 1 THEN 0 ELSE anchors[k - 1].last
             rows == {i \in DOMAIN log : after < i /\ i <= anchors[k].last}
  <2>1. root = [i \in rows |-> log[i]] /\ anchors[k].last \in rows
    BY Zenon DEF Sound, SealsInOrder
  <2> HIDE DEF root
  <2>2. rows \subseteq DOMAIN log
    OBVIOUS
  <2> HIDE DEF rows
  <2>3. anchors[k].last \in DOMAIN root /\ root[anchors[k].last] # 0
    BY <2>1, <2>2 DEF Messages
  <2>4. Tamper(root)[anchors[k].last] = 0
    BY <2>3 DEF Tamper
  <2>5. QED
    BY <2>3, <2>4
<1> HIDE DEF root, before
<1>5. CASE changed = [anchors EXCEPT ![k].hash = Genesis]
  <2>1. changed[k].hash = Genesis
    BY <1>1, <1>5 DEF AnchorT
  <2>2. QED
    BY <1>2, <1>3, <2>1 DEF BrokenAt, Replays, Hash, Genesis
<1>6. CASE changed = [anchors EXCEPT ![k].prev = Append(@, Tamper(anchors[k].root))]
  <2>1. changed[k].prev = Append(before, Tamper(root))
    BY <1>1, <1>2, <1>6 DEF AnchorT, root
  <2>2. Len(Append(before, Tamper(root))) # Len(before)
    BY <1>2
  <2>3. QED
    BY <1>3, <2>1, <2>2 DEF BrokenAt, Replays
<1>7. CASE changed = [anchors EXCEPT ![k].root = Tamper(@)]
  <2>1. changed[k].root = Tamper(root) /\ changed[k].hash = Append(before, root)
    BY <1>1, <1>2, <1>7 DEF AnchorT, root
  <2>2. Append(before, Tamper(root))[Len(before) + 1] = Tamper(root)
        /\ Append(before, root)[Len(before) + 1] = root
    BY <1>2
  <2>3. QED
    BY <1>3, <1>4, <2>1, <2>2 DEF BrokenAt, Replays, Hash
<1>8. QED
  BY <1>5, <1>6, <1>7 DEF HashedChanges

LEMMA AlterKeepsApart ==
    ASSUME NEW anchors \in Seq(AnchorT), Apart(anchors),
           NEW k \in DOMAIN anchors, NEW changed \in HashedChanges(anchors, k)
    PROVE  Apart(changed)
<1>1. /\ DOMAIN changed = DOMAIN anchors
      /\ \A j \in DOMAIN anchors : /\ changed[j].first = anchors[j].first
                                   /\ changed[j].last = anchors[j].last
                                   /\ DOMAIN changed[j].root = DOMAIN anchors[j].root
  <2>1. \A j \in DOMAIN anchors : anchors[j] \in AnchorT
    OBVIOUS
  <2>2. \A root : DOMAIN Tamper(root) = DOMAIN root
    BY DEF Tamper
  <2>3. CASE changed = [anchors EXCEPT ![k].hash = Genesis]
    BY <2>1, <2>3 DEF AnchorT
  <2>4. CASE changed = [anchors EXCEPT ![k].prev = Append(@, Tamper(anchors[k].root))]
    BY <2>1, <2>4 DEF AnchorT
  <2>5. CASE changed = [anchors EXCEPT ![k].root = Tamper(@)]
    <3>1. DOMAIN changed = DOMAIN anchors /\ changed[k] = [anchors[k] EXCEPT !.root = Tamper(@)]
          /\ \A j \in DOMAIN anchors : j # k => changed[j] = anchors[j]
      BY <2>5
    <3>2. changed[k].first = anchors[k].first /\ changed[k].last = anchors[k].last /\ changed[k].root = Tamper(anchors[k].root)
      BY <2>1, <3>1 DEF AnchorT
    <3>3. QED
      BY <2>2, <3>1, <3>2
  <2>6. QED
    BY <2>3, <2>4, <2>5 DEF HashedChanges
<1>2. \A j \in DOMAIN anchors : \A id : Covers(changed[j], id) <=> Covers(anchors[j], id)
  BY <1>1 DEF Covers
<1>3. QED
  BY <1>1, <1>2, Zenon DEF Apart

\* An anchor that has become the first or the last one leaves the chain broken
\* at the first place that changed.
LEMMA MovedFirstBreaks ==
    ASSUME NEW anchors \in Seq(AnchorT), Linked(anchors), Apart(anchors),
           NEW k \in DOMAIN anchors, k > 1
    PROVE  BrokenAt(MovedFirst(anchors, k), 1) /\ Apart(MovedFirst(anchors, k))
<1> DEFINE moved == MovedFirst(anchors, k)
           from(i) == IF i = 1 THEN k ELSE IF i <= k THEN i - 1 ELSE i
<1>1. DOMAIN moved = DOMAIN anchors /\ \A i \in DOMAIN anchors : moved[i] = anchors[from(i)]
  BY MovedFirstAt
<1>2. \A i \in DOMAIN anchors : from(i) \in DOMAIN anchors
  OBVIOUS
<1>3. \A i, j \in DOMAIN anchors : i # j => from(i) # from(j)
  OBVIOUS
<1>4. 1 \in DOMAIN anchors /\ k - 1 \in DOMAIN anchors /\ anchors[k - 1] \in AnchorT
  OBVIOUS
<1>5. moved[1].prev = anchors[k - 1].hash
  BY <1>1, <1>4 DEF Linked
<1>6. anchors[k - 1].hash = Append(anchors[k - 1].prev, anchors[k - 1].root)
  BY <1>4 DEF Linked, Hash
<1>7. anchors[k - 1].hash # Genesis
  <2>1. anchors[k - 1].prev \in Seq(Roots)
    BY <1>4 DEF AnchorT
  <2>2. Len(Append(anchors[k - 1].prev, anchors[k - 1].root)) = Len(anchors[k - 1].prev) + 1
        /\ Len(anchors[k - 1].prev) \in Nat
    BY <2>1
  <2>3. Len(Genesis) = 0
    BY DEF Genesis
  <2>4. QED
    BY <1>6, <2>2, <2>3
<1>8. Apart(moved)
  <2> HIDE DEF moved, from
  <2> SUFFICES ASSUME NEW i \in DOMAIN anchors, NEW id \in DOMAIN moved[i].root
               PROVE  /\ Covers(moved[i], id)
                      /\ \A j \in DOMAIN anchors : j # i => ~Covers(moved[j], id)
    BY <1>1, Zenon DEF Apart
  <2>1. id \in DOMAIN anchors[from(i)].root /\ from(i) \in DOMAIN anchors
    BY <1>1, <1>2
  <2>2. Covers(moved[i], id)
    BY <1>1, <2>1 DEF Apart
  <2>3. ASSUME NEW j \in DOMAIN anchors, j # i PROVE ~Covers(moved[j], id)
    <3>1. from(j) \in DOMAIN anchors /\ from(j) # from(i)
      BY <1>2, <1>3, <2>3
    <3>2. ~Covers(anchors[from(j)], id)
      BY <2>1, <3>1 DEF Apart
    <3>3. QED
      BY <1>1, <3>2
  <2>4. QED
    BY <2>2, <2>3
<1> HIDE DEF moved
<1>9. QED
  BY <1>1, <1>4, <1>5, <1>7, <1>8 DEF BrokenAt, Replays, Before, moved

LEMMA MovedLastBreaks ==
    ASSUME NEW anchors \in Seq(AnchorT), Linked(anchors), Apart(anchors),
           NEW k \in DOMAIN anchors, k < Len(anchors)
    PROVE  BrokenAt(MovedLast(anchors, k), k) /\ Apart(MovedLast(anchors, k))
<1> DEFINE moved == MovedLast(anchors, k)
           from(i) == IF i = Len(anchors) THEN k ELSE IF i < k THEN i ELSE i + 1
<1>1. DOMAIN moved = DOMAIN anchors /\ \A i \in DOMAIN anchors : moved[i] = anchors[from(i)]
  BY MovedLastAt
<1>2. \A i \in DOMAIN anchors : from(i) \in DOMAIN anchors
  OBVIOUS
<1>3. \A i, j \in DOMAIN anchors : i # j => from(i) # from(j)
  OBVIOUS
<1>4. k + 1 \in DOMAIN anchors /\ anchors[k] \in AnchorT /\ k + 1 # 1
      /\ (k # 1 => k - 1 \in DOMAIN anchors)
  OBVIOUS
<1>5. moved[k].prev = anchors[k].hash
  BY <1>1, <1>4 DEF Linked
<1>6. Before(moved, k) = anchors[k].prev /\ anchors[k].hash = Append(anchors[k].prev, anchors[k].root)
  <2>1. k # 1 => moved[k - 1] = anchors[k - 1]
    BY <1>1, <1>4
  <2>2. QED
    BY <2>1 DEF Before, Linked, Hash
<1>7. anchors[k].hash # anchors[k].prev
  <2>1. Len(anchors[k].hash) = Len(anchors[k].prev) + 1 /\ Len(anchors[k].prev) \in Nat
    BY <1>4, <1>6 DEF AnchorT
  <2>2. QED
    BY <2>1
<1>8. Apart(moved)
  <2> HIDE DEF moved, from
  <2> SUFFICES ASSUME NEW i \in DOMAIN anchors, NEW id \in DOMAIN moved[i].root
               PROVE  /\ Covers(moved[i], id)
                      /\ \A j \in DOMAIN anchors : j # i => ~Covers(moved[j], id)
    BY <1>1, Zenon DEF Apart
  <2>1. id \in DOMAIN anchors[from(i)].root /\ from(i) \in DOMAIN anchors
    BY <1>1, <1>2
  <2>2. Covers(moved[i], id)
    BY <1>1, <2>1 DEF Apart
  <2>3. ASSUME NEW j \in DOMAIN anchors, j # i PROVE ~Covers(moved[j], id)
    <3>1. from(j) \in DOMAIN anchors /\ from(j) # from(i)
      BY <1>2, <1>3, <2>3
    <3>2. ~Covers(anchors[from(j)], id)
      BY <2>1, <3>1 DEF Apart
    <3>3. QED
      BY <1>1, <3>2
  <2>4. QED
    BY <2>2, <2>3
<1> HIDE DEF moved
<1>9. QED
  BY <1>1, <1>5, <1>6, <1>7, <1>8 DEF BrokenAt, Replays, moved

\* A row under a broken anchor or a later one is answered as invalid.
LEMMA BrokenRejected ==
    ASSUME NEW anchors \in Seq(AnchorT), Apart(anchors), Len(anchors) <= VerifyLimit,
           NEW broken, BrokenAt(anchors, broken), NEW k \in broken..Len(anchors),
           NEW id \in DOMAIN anchors[k].root
    PROVE  VerifyAnchor(anchors, id) = [anchored |-> TRUE, valid |-> FALSE]
<1>1. broken \in 1..Len(anchors) /\ k \in DOMAIN anchors
  BY DEF BrokenAt
<1>2. Hits(anchors, id) = {k}
  BY <1>1 DEF Apart, Hits
<1> DEFINE answer == VerifyAnchor(anchors, id)
<1>3. /\ \E b \in BOOLEAN : answer = [anchored |-> TRUE, valid |-> b]
      /\ answer.valid <=> \A j \in 1..k : Replays(anchors, j)
  <2>1. Listed(anchors) = anchors
    BY ListedWhole
  <2>2. PICK match \in Hits(anchors, id) :
          /\ \E b \in BOOLEAN : answer = [anchored |-> TRUE, valid |-> b]
          /\ answer.valid <=> \A j \in 1..match : Replays(anchors, j)
    <3> HIDE DEF answer
    <3>1. Hits(anchors, id) # {}
      BY <1>2
    <3>2. QED
      BY <2>1, <3>1, Answer DEF answer
  <2>3. match = k
    BY <1>2, <2>2
  <2> HIDE DEF answer
  <2>4. QED
    BY <2>2, <2>3
<1> HIDE DEF answer
<1>4. ~answer.valid
  BY <1>1, <1>3 DEF BrokenAt
<1>5. PICK b \in BOOLEAN : answer = [anchored |-> TRUE, valid |-> b]
  BY <1>3
<1>6. answer.valid = b
  BY <1>5
<1>7. b = FALSE
  BY <1>4, <1>6
<1>8. QED
  BY <1>5, <1>7 DEF answer

\* Any id some anchor of a linked chain claims is confirmed.
LEMMA LinkedConfirmed ==
    ASSUME NEW anchors \in Seq(AnchorT), Linked(anchors), Len(anchors) <= VerifyLimit,
           NEW id, VerifyAnchor(anchors, id).anchored
    PROVE  VerifyAnchor(anchors, id).valid
<1>1. \A k \in DOMAIN anchors : Replays(anchors, k)
  BY DEF Linked, Replays, Before
<1>2. VerifyAnchor(anchors, id) # [anchored |-> FALSE, valid |-> FALSE]
  OBVIOUS
<1>3. PICK match \in 1..Len(anchors) :
        VerifyAnchor(anchors, id).valid <=> \A k \in 1..match : Replays(anchors, k)
  BY <1>2, ListedWhole, Answer
<1>4. QED
  BY <1>1, <1>3

\* No hash covers an id range.
LEMMA RangeKeepsLinked ==
    ASSUME NEW anchors \in Seq(AnchorT), Linked(anchors), NEW k \in DOMAIN anchors,
           NEW changed \in RangeChanges(anchors, k)
    PROVE  Linked(changed)
<1>1. /\ DOMAIN changed = DOMAIN anchors
      /\ \A j \in DOMAIN anchors : /\ changed[j].prev = anchors[j].prev
                                   /\ changed[j].root = anchors[j].root
                                   /\ changed[j].hash = anchors[j].hash
  <2>1. \A j \in DOMAIN anchors : anchors[j] \in AnchorT
    OBVIOUS
  <2>2. PICK id : changed = [anchors EXCEPT ![k].first = id] \/ changed = [anchors EXCEPT ![k].last = id]
    BY DEF RangeChanges
  <2>3. QED
    BY <2>1, <2>2 DEF AnchorT
<1>2. \A j \in DOMAIN anchors : j # 1 => j - 1 \in DOMAIN anchors
  OBVIOUS
<1>3. QED
  BY <1>1, <1>2 DEF Linked

LEMMA MarkedInit == Init => Marked
BY DEF Init, Marked, Apart, Linked, Messages, Unaltered

LEMMA MarkedStep == Types /\ BothSound /\ Marked /\ [Next]_vars => Marked'
<1> SUFFICES ASSUME Types, BothSound, Marked, [Next]_vars PROVE Marked'
  OBVIOUS
<1>1. CASE Publish \/ Reconnect \/ PgFlips \/ UNCHANGED vars
  <2>1. UNCHANGED <<pgLog, pgAnchors, memLog, memAnchors, altered>>
    BY <1>1 DEF Publish, Reconnect, PgFlips, vars, pgVars, memVars
  <2>2. QED
    BY <2>1, Zenon DEF Marked
<1>2. CASE RecordPg \/ RecordMem \/ RecordPgRaises
  <2>1. UNCHANGED <<pgAnchors, memAnchors, altered>>
    BY <1>2 DEF RecordPg, RecordMem, RecordPgRaises, pgVars, memVars
  <2>2. (InsertPg \/ UNCHANGED pgLog) /\ (AppendMem \/ UNCHANGED memLog)
    BY <1>2 DEF RecordPg, RecordMem, RecordPgRaises, pgVars, memVars
  <2>3. pos + 1 # 0 /\ memLog \in Seq(0..MaxLog)
    BY DEF Types
  <2>4. Messages(pgLog) => Messages(pgLog')
    BY <2>2, <2>3 DEF InsertPg, Messages
  <2>5. Messages(memLog) => Messages(memLog')
    BY <2>2, <2>3 DEF AppendMem, Messages
  <2>6. QED
    BY <2>1, <2>4, <2>5, Zenon DEF Marked
<1>3. CASE AnchorPg
  <2>1. UNCHANGED <<pgLog, memLog, memAnchors, altered>>
    BY <1>3 DEF AnchorPg, memVars
  <2>2. CASE pgAnchors' = pgAnchors
    BY <2>1, <2>2, Zenon DEF Marked
  <2>3. ASSUME NEW b \in FullBatches(Pending(pgLog, pgAnchors)),
               pgAnchors' = Append(pgAnchors, Seal(pgLog, pgAnchors, b))
        PROVE  Marked'
    <3>1. DOMAIN pgLog \subseteq Nat /\ pgAnchors \in Seq(AnchorT)
      BY DEF Types
    <3>2. /\ Apart(pgAnchors) => Apart(pgAnchors')
          /\ Linked(pgAnchors) => Linked(pgAnchors')
      BY <2>3, <3>1, SealKeepsApart, SealKeepsLinked
    <3>3. \A k : BrokenAt(pgAnchors, k) => BrokenAt(pgAnchors', k)
      BY <2>3, <3>1, SealKeepsBroken
    <3>4. QED
      BY <2>1, <3>2, <3>3, Zenon DEF Marked
  <2>4. QED
    BY <1>3, <2>2, <2>3 DEF AnchorPg
<1>4. CASE AnchorMem
  <2>1. UNCHANGED <<pgLog, memLog, pgAnchors, altered>>
    BY <1>4 DEF AnchorMem, pgVars
  <2>2. CASE memAnchors' = memAnchors
    BY <2>1, <2>2, Zenon DEF Marked
  <2>3. ASSUME NEW b \in FullBatches(Pending(memLog, memAnchors)),
               memAnchors' = Append(memAnchors, Seal(memLog, memAnchors, b))
        PROVE  Marked'
    <3>1. DOMAIN memLog \subseteq Nat /\ memAnchors \in Seq(AnchorT)
      BY MemRows DEF Types
    <3>2. /\ Apart(memAnchors) => Apart(memAnchors')
          /\ Linked(memAnchors) => Linked(memAnchors')
      BY <2>3, <3>1, SealKeepsApart, SealKeepsLinked
    <3>3. \A k : BrokenAt(memAnchors, k) => BrokenAt(memAnchors', k)
      BY <2>3, <3>1, SealKeepsBroken
    <3>4. QED
      BY <2>1, <3>2, <3>3, Zenon DEF Marked
  <2>4. QED
    BY <1>4, <2>2, <2>3 DEF AnchorMem
<1>5. CASE Restart
  <2>1. UNCHANGED <<pgLog, pgAnchors>> /\ memLog' = <<>> /\ memAnchors' = <<>>
    BY <1>5 DEF Restart, pgVars
  <2>2. Apart(memAnchors') /\ Linked(memAnchors') /\ Messages(memLog')
    BY <2>1 DEF Apart, Linked, Messages
  <2>3. altered' = IF altered.store = "mem" THEN Unaltered ELSE altered
    BY <1>5 DEF Restart
  <2>4. CASE altered.store = "mem"
    <3>1. altered' = Unaltered
      BY <2>3, <2>4
    <3>2. Linked(pgAnchors) /\ Apart(pgAnchors) /\ Messages(pgLog)
      BY <2>4 DEF BothSound, Sound, Marked
    <3>3. QED
      BY <2>1, <2>2, <3>1, <3>2 DEF Marked, Unaltered
  <2>5. CASE altered.store # "mem"
    <3>1. altered' = altered
      BY <2>3, <2>5
    <3>2. altered.what = "chain" => altered.store = "pg"
      BY <2>5 DEF Marked, Types, Alterations
    <3>3. QED
      BY <2>1, <2>2, <3>1, <3>2 DEF Marked
  <2>6. QED
    BY <2>4, <2>5
<1>6. CASE Alter
  <2>1. /\ Sound(pgLog, pgAnchors) /\ Sound(memLog, memAnchors)
        /\ Messages(pgLog) /\ Messages(memLog)
        /\ Apart(pgAnchors) /\ Apart(memAnchors)
        /\ Linked(pgAnchors) /\ Linked(memAnchors)
        /\ pgAnchors \in Seq(AnchorT) /\ memAnchors \in Seq(AnchorT)
    BY <1>6 DEF Alter, Unaltered, BothSound, Sound, Marked, Types
  <2>2. CASE AlterPgAnchor /\ UNCHANGED <<pgLog, memVars>>
    <3>1. UNCHANGED <<memLog, memAnchors>>
      BY <2>2 DEF memVars
    <3>2. ASSUME NEW k, BrokenAt(pgAnchors', k), Apart(pgAnchors'),
                 altered' = [store |-> "pg", what |-> "chain", at |-> k]
          PROVE  Marked'
      BY <2>1, <2>2, <3>1, <3>2 DEF Marked
    <3>3. ASSUME NEW k, Linked(pgAnchors'), altered' = [store |-> "pg", what |-> "range", at |-> k]
          PROVE  Marked'
      BY <2>1, <2>2, <3>1, <3>3 DEF Marked
    <3>4. PICK k \in DOMAIN pgAnchors :
        \/ /\ pgAnchors' \in HashedChanges(pgAnchors, k)
           /\ altered' = [store |-> "pg", what |-> "chain", at |-> k]
        \/ /\ pgAnchors' \in RangeChanges(pgAnchors, k)
           /\ altered' = [store |-> "pg", what |-> "range", at |-> k]
        \/ /\ k > 1 /\ pgAnchors' = MovedFirst(pgAnchors, k)
           /\ altered' = [store |-> "pg", what |-> "chain", at |-> 1]
        \/ /\ k < Len(pgAnchors) /\ pgAnchors' = MovedLast(pgAnchors, k)
           /\ altered' = [store |-> "pg", what |-> "chain", at |-> k]
      BY <2>2, Zenon DEF AlterPgAnchor
    <3>5. CASE pgAnchors' \in HashedChanges(pgAnchors, k) /\ altered' = [store |-> "pg", what |-> "chain", at |-> k]
      <4>1. BrokenAt(pgAnchors', k) /\ Apart(pgAnchors')
        BY <2>1, <3>5, AlterBreaks, AlterKeepsApart
      <4>2. QED
        BY <3>2, <3>5, <4>1
    <3>6. CASE pgAnchors' \in RangeChanges(pgAnchors, k) /\ altered' = [store |-> "pg", what |-> "range", at |-> k]
      <4>1. Linked(pgAnchors')
        BY <2>1, <3>6, RangeKeepsLinked
      <4>2. QED
        BY <3>3, <3>6, <4>1
    <3>7. CASE k > 1 /\ pgAnchors' = MovedFirst(pgAnchors, k) /\ altered' = [store |-> "pg", what |-> "chain", at |-> 1]
      <4>1. BrokenAt(pgAnchors', 1) /\ Apart(pgAnchors')
        BY <2>1, <3>7, MovedFirstBreaks
      <4>2. QED
        BY <3>2, <3>7, <4>1
    <3>8. CASE k < Len(pgAnchors) /\ pgAnchors' = MovedLast(pgAnchors, k) /\ altered' = [store |-> "pg", what |-> "chain", at |-> k]
      <4>1. BrokenAt(pgAnchors', k) /\ Apart(pgAnchors')
        BY <2>1, <3>8, MovedLastBreaks
      <4>2. QED
        BY <3>2, <3>8, <4>1
    <3>9. QED
      BY <3>4, <3>5, <3>6, <3>7, <3>8, Zenon
  <2>3. ASSUME NEW k \in DOMAIN memAnchors, memAnchors' \in HashedChanges(memAnchors, k),
               altered' = [store |-> "mem", what |-> "chain", at |-> k],
               UNCHANGED <<pgLog, pgAnchors, memLog>>
        PROVE  Marked'
    <3>1. BrokenAt(memAnchors', k) /\ Apart(memAnchors')
      BY <2>1, <2>3, AlterBreaks, AlterKeepsApart
    <3>2. QED
      BY <2>1, <2>3, <3>1 DEF Marked
  <2>4. CASE /\ altered'.store = "pg" /\ altered'.what = "row"
             /\ UNCHANGED <<pgAnchors, memVars>>
    BY <2>1, <2>4 DEF Marked, memVars
  <2>5. CASE /\ altered'.store = "mem" /\ altered'.what = "row"
             /\ UNCHANGED <<pgLog, pgAnchors, memAnchors>>
    BY <2>1, <2>5 DEF Marked
  <2>6. QED
    BY <1>6, <2>2, <2>3, <2>4, <2>5 DEF Alter
<1>7. QED
  BY <1>1, <1>2, <1>3, <1>4, <1>5, <1>6 DEF Next, Consume

-----------------------------------------------------------------------------
(* The theorems.                                                           *)

LEMMA Inductive == Spec => [](Types /\ BothSound)
<1>1. Init => Types /\ BothSound
  BY TypesInit, SoundInit
<1>2. (Types /\ BothSound) /\ [Next]_vars => (Types /\ BothSound)'
  BY TypesStep, SoundStep
<1>3. QED
  BY <1>1, <1>2, PTL DEF Spec

\* The state of the governance service always has the types AuditLedger gives
\* it, whatever fails and whichever stored value is altered.
THEOREM LedgerTypeCorrect == Spec => []TypeOK
<1>1. Types => TypeOK
  <2> SUFFICES ASSUME Types PROVE TypeOK
    OBVIOUS
  <2>1. IsLog(pgLog)
    BY DEF Types, IsLog
  <2>2. IsLog(memLog)
    BY MemRows DEF IsLog
  <2>3. ASSUME NEW anchors \in Seq(AnchorT) PROVE IsAnchorList(anchors)
    <3>1. \A k \in DOMAIN anchors : anchors[k] \in AnchorT
      OBVIOUS
    <3>2. QED
      BY <3>1 DEF AnchorT, IsAnchorList
  <2>4. QED
    BY <2>1, <2>2, <2>3 DEF Types, TypeOK
<1>2. QED
  BY <1>1, Inductive, PTL

\* The anchors of either store are a hash chain from genesis that seals the
\* rows of that store in order, full batches only, without gap or overlap:
\* for every batch size, through every failure, replay and restart.
THEOREM Soundness == Spec => []LedgersSound
<1>1. BothSound => LedgersSound
  BY DEF BothSound, LedgersSound, Sound, Unaltered
<1>2. QED
  BY <1>1, Inductive, PTL

\* Whatever the consumer has taken since it connected is in one of the stores.
THEOREM NothingLost == Spec => []ConsumedRecorded
<1>1. Types /\ ConsumedRecorded /\ [Next]_vars => ConsumedRecorded'
  BY RecordedStep
<1>2. QED
  BY <1>1, RecordedInit, Inductive, PTL DEF Spec

\* A message has at most one row per reading of the topics, two when a commit
\* may succeed without an answer: for any number of reconnects and restarts.
THEOREM NoSurplusCopies == Spec => []CopiesBounded
<1>1. Types /\ Counted => CopiesBounded
  <2> SUFFICES ASSUME Types, Counted, NEW m \in 1..published
               PROVE  Copies(pgLog, m) + Copies(memLog, m)
                          <= (1 + replays) * (IF "commit" \in FaultKinds THEN 2 ELSE 1)
    BY DEF CopiesBounded
  <2>1. m \in Nat \ {0} /\ replays \in Nat
    BY BoundAssumption DEF Types
  <2>2. Copies(pgLog, m) + Copies(memLog, m) <= Readings(m) * PerReading
    BY <2>1 DEF Counted
  <2>3. Copies(pgLog, m) + Copies(memLog, m) \in Nat
    BY LogsFinite, CopiesFinite
  <2>4. QED
    BY <2>1, <2>2, <2>3 DEF Readings, PerReading, Types
<1>2. Types /\ Counted /\ [Next]_vars => Counted'
  BY CountedStep
<1>3. QED
  BY <1>1, <1>2, CountedInit, Inductive, PTL DEF Spec

\* A history nobody altered verifies, row by row, exactly as long as the chain
\* has no more anchors than GET /ledger/verify lists.
THEOREM HonestRowsVerify == Spec => []HonestHistoryVerifies
<1>1. Types /\ BothSound => HonestHistoryVerifies
  <2> SUFFICES ASSUME Types, BothSound, altered = Unaltered,
                      NEW id \in DOMAIN ViewLog \ Pending(ViewLog, ViewAnchors)
               PROVE  VerifyAnchor(ViewAnchors, id).valid <=> HistoryFits
    BY DEF HonestHistoryVerifies
  <2>1. DOMAIN pgLog \subseteq Nat \ {0} /\ DOMAIN memLog \subseteq Nat \ {0}
    BY MemRows DEF Types
  <2>2. Sound(pgLog, pgAnchors) /\ Sound(memLog, memAnchors)
    BY DEF BothSound, Unaltered
  <2>3. CASE pgUp
    BY <2>1, <2>2, <2>3, HonestVerifies DEF ViewLog, ViewAnchors, HistoryFits, Types
  <2>4. CASE ~pgUp
    BY <2>1, <2>2, <2>4, HonestVerifies DEF ViewLog, ViewAnchors, HistoryFits, Types
  <2>5. QED
    BY <2>3, <2>4
<1>2. QED
  BY <1>1, Inductive, PTL

\* While GET /ledger/verify lists the whole chain, it answers "invalid" for
\* every row of an anchor whose prev_hash, merkle_root, anchor_hash or place in
\* the order was changed, and of every later one, however many anchors and rows
\* came after; a changed id range or audit row makes no answer invalid.
THEOREM AlterationsReported == Spec => []ReportsWhatIsHashed
<1>1. Types /\ Marked => ReportsWhatIsHashed
  <2> SUFFICES ASSUME Types, Marked, HistoryFits, altered.store = "pg" <=> pgUp
               PROVE  /\ altered.what = "chain" =>
                          \A k \in altered.at..Len(ViewAnchors) : \A id \in DOMAIN ViewAnchors[k].root :
                              VerifyAnchor(ViewAnchors, id) = [anchored |-> TRUE, valid |-> FALSE]
                      /\ altered.what \in {"range", "row"} =>
                          \A id \in DOMAIN ViewLog \cup {nextId} :
                              VerifyAnchor(ViewAnchors, id).anchored => VerifyAnchor(ViewAnchors, id).valid
    BY Zenon DEF ReportsWhatIsHashed
  <2>1. ViewAnchors \in Seq(AnchorT) /\ Len(ViewAnchors) <= VerifyLimit
    BY DEF ViewAnchors, Types, HistoryFits
  <2>2. ASSUME altered.what = "chain", NEW k \in altered.at..Len(ViewAnchors),
               NEW id \in DOMAIN ViewAnchors[k].root
        PROVE  VerifyAnchor(ViewAnchors, id) = [anchored |-> TRUE, valid |-> FALSE]
    <3>1. BrokenAt(ViewAnchors, altered.at)
      BY <2>2 DEF ViewAnchors, Marked
    <3>2. Apart(ViewAnchors)
      BY <2>2 DEF ViewAnchors, Marked
    <3>3. QED
      BY <2>1, <2>2, <3>1, <3>2, BrokenRejected
  <2>3. ASSUME altered.what \in {"range", "row"}, NEW id, VerifyAnchor(ViewAnchors, id).anchored
        PROVE  VerifyAnchor(ViewAnchors, id).valid
    <3>1. altered.what # "chain"
      BY <2>3
    <3>2. Linked(ViewAnchors)
      BY <3>1, Zenon DEF ViewAnchors, Marked
    <3>3. QED
      BY <2>1, <2>3, <3>2, LinkedConfirmed
  <2>4. QED
    BY <2>2, <2>3
<1>2. Types /\ BothSound /\ Marked /\ [Next]_vars => Marked'
  BY MarkedStep
<1>3. QED
  BY <1>1, <1>2, MarkedInit, Inductive, PTL DEF Spec

\* As long as nobody alters a stored value, the anchors in Postgres implement
\* the append-only hash chain of HashChain.
THEOREM Refinement == "alter" \notin FaultKinds /\ Spec => PgChainSpec
<1> SUFFICES ASSUME "alter" \notin FaultKinds PROVE Spec => PgChainSpec
  OBVIOUS
<1>1. Init => PgChain!Init
  BY DEF Init, PgChain!Init
<1>2. Types /\ [Next]_vars => [PgChain!Extend]_pgAnchors
  <2> SUFFICES ASSUME Types, [Next]_vars, pgAnchors' # pgAnchors PROVE PgChain!Extend
    OBVIOUS
  <2>1. AnchorPg
    BY DEF Next, Consume, Publish, RecordPg, RecordMem, RecordPgRaises, AnchorMem, Reconnect,
           Restart, PgFlips, Alter, vars, pgVars
  <2>2. PICK b \in FullBatches(Pending(pgLog, pgAnchors)) :
            pgAnchors' = Append(pgAnchors, Seal(pgLog, pgAnchors, b))
    BY <2>1 DEF AnchorPg
  <2> DEFINE new == Seal(pgLog, pgAnchors, b)
  <2>3. new.prev = Tip(pgAnchors) /\ new.hash = Hash(new.prev, new.root)
    BY DEF Seal
  <2> HIDE DEF new
  <2>4. Len(pgAnchors') = Len(pgAnchors) + 1 /\ pgAnchors'[Len(pgAnchors')] = new
    <3>1. pgAnchors \in Seq(AnchorT)
      BY DEF Types
    <3>2. pgAnchors' = Append(pgAnchors, new)
      BY <2>2 DEF new
    <3>3. QED
      BY <3>1, <3>2
  <2>5. QED
    BY <2>2, <2>3, <2>4 DEF PgChain!Extend, new, Tip, PgChain!Tip, Hash, PgChain!Hash, Genesis, PgChain!Genesis
<1>3. QED
  BY <1>1, <1>2, Inductive, PTL DEF Spec, PgChainSpec, PgChain!Spec
=============================================================================
