------------------------ MODULE NeighborMonitorProofs ------------------------
(***************************************************************************)
(* What the heartbeat monitor promises whatever calls race with each other,*)
(* for every set of neighbours, every timeout and every bound.             *)
(***************************************************************************)
EXTENDS NeighborMonitor, FiniteSetTheorems, TLAPS

\* A dictionary of timestamps, and the record of check_dead's locals.
Stamps == UNION {[S -> Nat] : S \in SUBSET Neighbors}
Checks == [pc : {"out", "collect", "remove"}, now : Nat, size : Nat,
           todo : SUBSET Neighbors, dead : SUBSET Neighbors, removed : SUBSET Neighbors,
           before : Stamps, touched : SUBSET Neighbors]

Types == TypeOK /\ lastSeen \in Stamps /\ check \in Checks /\ IsFiniteSet(Tracked)

\* Entries are left to visit only while it collects, and removed only after
\* that; and without a forget() what it has still to remove is there.
Removal ==
  /\ check.pc # "collect" => check.todo = {}
  /\ check.pc # "remove" => check.removed = {}
  /\ forgets = 0 => Due \subseteq Tracked

One(b) == IF b THEN 1 ELSE 0

Balance ==
  /\ \A n \in Neighbors :
       joins[n] = reports[n] + losses[n] + One(n \in Tracked) + One(n \in check.removed)
  /\ forgets = 0 => losses = Zero

\* Of the neighbours nobody has touched, a check still has to visit those of
\* todo, and has judged the others by the timestamps it began with.
Verdicts ==
  LET Same == DOMAIN check.before \ check.touched
      Judged(n) == n \in check.dead <=> check.now > check.before[n] + Timeout
  IN /\ check.pc = "collect" =>
          \A n \in Same : /\ n \in Tracked /\ lastSeen[n] = check.before[n]
                          /\ IF n \in check.todo THEN n \notin check.dead ELSE Judged(n)
     /\ check.pc = "remove" => \A n \in Same : Judged(n)

\* The inductive invariant.
Ledger == Types /\ Removal /\ Balance /\ Verdicts

-----------------------------------------------------------------------------
(* Dictionaries.                                                            *)

LEMMA StampsValue ==
  ASSUME NEW d, NEW S \in SUBSET Neighbors, d \in [S -> Nat]
  PROVE  d \in Stamps
BY DEF Stamps

LEMMA StampsDomain ==
  ASSUME NEW d \in Stamps
  PROVE  /\ DOMAIN d \in SUBSET Neighbors
         /\ d = [n \in DOMAIN d |-> d[n]]
         /\ \A n \in DOMAIN d : d[n] \in Nat
<1>1. PICK S \in SUBSET Neighbors : d \in [S -> Nat]
  BY DEF Stamps
<1> QED BY <1>1

LEMMA Assigned ==
  ASSUME NEW d \in Stamps, NEW n \in Neighbors, NEW t \in Nat
  PROVE  /\ Assign(d, n, t) \in Stamps
         /\ DOMAIN Assign(d, n, t) = DOMAIN d \cup {n}
         /\ \A k \in DOMAIN d \ {n} : Assign(d, n, t)[k] = d[k]
         /\ Assign(d, n, t)[n] = t
<1> DEFINE D == DOMAIN d \cup {n}
<1>1. DOMAIN d \in SUBSET Neighbors /\ \A k \in DOMAIN d : d[k] \in Nat
  BY StampsDomain
<1>2. Assign(d, n, t) = [k \in D |-> IF k = n THEN t ELSE d[k]]
  BY DEF Assign, Update
<1>3. Assign(d, n, t) \in [D -> Nat]
  BY <1>1, <1>2
<1> QED BY <1>1, <1>2, <1>3, StampsValue

LEMMA Popped ==
  ASSUME NEW d \in Stamps, NEW n \in Neighbors
  PROVE  /\ Pop(d, n) \in Stamps
         /\ DOMAIN Pop(d, n) = DOMAIN d \ {n}
         /\ \A k \in DOMAIN d \ {n} : Pop(d, n)[k] = d[k]
<1> DEFINE D == DOMAIN d \ {n}
<1>1. DOMAIN d \in SUBSET Neighbors /\ \A k \in DOMAIN d : d[k] \in Nat
  BY StampsDomain
<1>2. Pop(d, n) = [k \in D |-> d[k]]
  BY DEF Pop, Restrict
<1>3. Pop(d, n) \in [D -> Nat]
  BY <1>1, <1>2
<1> QED BY <1>1, <1>2, <1>3, StampsValue

LEMMA EmptyDictionary == <<>> \in Stamps /\ DOMAIN <<>> = {}
<1>1. <<>> \in [{} -> Nat]
  OBVIOUS
<1> QED BY <1>1, StampsValue

LEMMA Counted ==
  ASSUME NEW f \in [Neighbors -> Nat], NEW S
  PROVE  /\ Plus1(f, S) \in [Neighbors -> Nat]
         /\ \A n \in Neighbors : Plus1(f, S)[n] = f[n] + One(n \in S)
BY DEF Plus1, One

LEMMA NoCheckType == NoCheck \in Checks
BY EmptyDictionary DEF NoCheck, Checks

LEMMA OneOfSet ==
  ASSUME NEW n, NEW S
  PROVE  Cardinality({n} \cap S) = One(n \in S)
<1>1. CASE n \in S
  <2>1. {n} \cap S = {n}
    BY <1>1
  <2> QED BY <1>1, <2>1, FS_Singleton DEF One
<1>2. CASE n \notin S
  <2>1. {n} \cap S = {}
    BY <1>2
  <2> QED BY <1>2, <2>1, FS_EmptySet DEF One
<1> QED BY <1>1, <1>2

-----------------------------------------------------------------------------
(* One lemma per operation.                                                 *)

LEMMA Begins == Init => Ledger
<1> SUFFICES ASSUME Init PROVE Ledger
  OBVIOUS
<1>1. Types
  BY NoCheckType, EmptyDictionary, MonitorConstants, FS_EmptySet
  DEF Init, Types, TypeOK, Zero, Tracked, NoCheck
<1>2. Removal
  BY DEF Init, Removal, NoCheck, Due
<1>3. Balance
  BY EmptyDictionary DEF Init, Balance, NoCheck, Zero, Tracked, One
<1>4. Verdicts
  BY DEF Init, Verdicts, NoCheck
<1> QED BY <1>1, <1>2, <1>3, <1>4 DEF Ledger

LEMMA BeatStored ==
  ASSUME Ledger, NEW n \in Neighbors, HeartbeatStore(n)
  PROVE  Ledger'
<1>0. Types /\ Removal /\ Balance /\ Verdicts
  BY DEF Ledger
<1>1. stamp[n] \in 0 .. clock /\ clock \in Nat
  BY <1>0 DEF HeartbeatStore, Types, TypeOK
<1>2. /\ lastSeen' \in Stamps /\ Tracked' = Tracked \cup {n} /\ IsFiniteSet(Tracked')
      /\ \A k \in Tracked \ {n} : lastSeen'[k] = lastSeen[k]
      /\ lastSeen'[n] = stamp[n]
  <2>1. lastSeen \in Stamps /\ IsFiniteSet(Tracked) /\ stamp[n] \in Nat
    BY <1>0, <1>1 DEF Types
  <2>2. lastSeen' = Assign(lastSeen, n, stamp[n])
    BY DEF HeartbeatStore
  <2>3. IsFiniteSet(Tracked \cup {n})
    BY <2>1, FS_AddElement
  <2> DEFINE t == stamp[n]
  <2>4. t \in Nat /\ lastSeen' = Assign(lastSeen, n, t)
    BY <2>1, <2>2
  <2> HIDE DEF t
  <2>5. /\ lastSeen' \in Stamps /\ DOMAIN lastSeen' = DOMAIN lastSeen \cup {n}
        /\ \A k \in DOMAIN lastSeen \ {n} : lastSeen'[k] = lastSeen[k]
        /\ lastSeen'[n] = t
    <3>1. lastSeen \in Stamps
      BY <2>1
    <3>2. /\ Assign(lastSeen, n, t) \in Stamps
          /\ DOMAIN Assign(lastSeen, n, t) = DOMAIN lastSeen \cup {n}
          /\ \A k \in DOMAIN lastSeen \ {n} : Assign(lastSeen, n, t)[k] = lastSeen[k]
          /\ Assign(lastSeen, n, t)[n] = t
      BY <2>4, <3>1, Assigned
    <3> QED BY <2>4, <3>2
  <2> QED BY <2>3, <2>5 DEF Tracked, t
<1>3. /\ check' \in Checks /\ check'.pc = check.pc /\ check'.before = check.before
      /\ check'.now = check.now /\ check'.dead = check.dead /\ check'.removed = check.removed
      /\ check.todo \subseteq check'.todo /\ check'.todo \subseteq check.todo \cup {n}
      /\ check.pc # "collect" => check'.todo = check.todo
      /\ check.pc # "out" => check'.touched = check.touched \cup {n}
  BY <1>0 DEF HeartbeatStore, Types, Checks
<1>4. /\ joins' \in [Neighbors -> Nat] /\ beats' \in [Neighbors -> Nat]
      /\ \A k \in Neighbors : joins'[k] = joins[k] + One(k \in {n} \ Tracked)
  BY <1>0, Counted DEF HeartbeatStore, Types, TypeOK
<1>5. UNCHANGED <<clock, reports, losses, forgets>>
  BY DEF HeartbeatStore
<1>6. TypeOK'
  <2>1. /\ Tracked' \subseteq Neighbors /\ \A k \in Tracked' : lastSeen'[k] \in 0 .. clock'
        /\ check'.todo \subseteq Tracked'
    BY <1>0, <1>1, <1>2, <1>3, <1>5 DEF Types, TypeOK
  <2>2. stamp' \in [Neighbors -> 0 .. clock' \cup {Never}]
    BY <1>0, <1>5 DEF HeartbeatStore, Types, TypeOK
  <2>3. /\ check'.pc \in {"out", "collect", "remove"} /\ check'.now \in 0 .. clock'
        /\ check'.size \in Nat /\ check'.removed \subseteq check'.dead
        /\ check'.dead \subseteq Neighbors /\ check'.touched \subseteq Neighbors
    BY <1>0, <1>3, <1>5 DEF Types, TypeOK, Checks
  <2> QED BY <1>0, <1>4, <1>5, <2>1, <2>2, <2>3 DEF Types, TypeOK
<1>7. Removal'
  BY <1>0, <1>2, <1>3, <1>5 DEF Removal, Due
<1>8. Balance'
  BY <1>0, <1>2, <1>3, <1>4, <1>5 DEF Balance, One, Types, TypeOK
<1>9. Verdicts'
  BY <1>0, <1>2, <1>3 DEF Types, Checks, Verdicts
<1> QED BY <1>2, <1>3, <1>6, <1>7, <1>8, <1>9 DEF Ledger, Types

LEMMA Forgotten ==
  ASSUME Ledger, NEW n \in Neighbors, Forget(n)
  PROVE  Ledger'
<1>0. Types /\ Removal /\ Balance /\ Verdicts
  BY DEF Ledger
<1>1. /\ lastSeen' \in Stamps /\ Tracked' = Tracked \ {n} /\ IsFiniteSet(Tracked')
      /\ \A k \in Tracked \ {n} : lastSeen'[k] = lastSeen[k]
  <2>1. lastSeen \in Stamps /\ IsFiniteSet(Tracked) /\ lastSeen' = Pop(lastSeen, n)
    BY <1>0 DEF Forget, Types
  <2>2. IsFiniteSet(Tracked \ {n})
    BY <2>1, FS_RemoveElement
  <2> QED BY <2>1, <2>2, Popped DEF Tracked
<1>2. /\ check' \in Checks /\ check'.pc = check.pc /\ check'.before = check.before
      /\ check'.now = check.now /\ check'.dead = check.dead /\ check'.removed = check.removed
      /\ check.pc # "out" => check'.todo = check.todo \ {n}
      /\ check.pc = "out" => check' = check
      /\ check.pc # "out" => check'.touched = check.touched \cup {n}
  BY <1>0 DEF Forget, Types, Checks
<1>3. /\ losses' \in [Neighbors -> Nat]
      /\ \A k \in Neighbors : losses'[k] = losses[k] + One(k \in {n} \cap Tracked)
  BY <1>0, Counted DEF Forget, Types, TypeOK
<1>4. forgets' \in 0 .. MaxForgets /\ forgets' # 0
  BY <1>0, MonitorConstants DEF Forget, Types, TypeOK
<1>5. UNCHANGED <<clock, stamp, beats, joins, reports>>
  BY DEF Forget
<1>6. TypeOK'
  <2>1. Tracked' \subseteq Neighbors /\ \A k \in Tracked' : lastSeen'[k] \in 0 .. clock'
    BY <1>0, <1>1, <1>5 DEF Types, TypeOK
  <2>2. check'.todo \subseteq Tracked'
    <3>1. CASE check.pc = "out"
      BY <1>0, <1>2, <3>1 DEF Removal
    <3>2. CASE check.pc # "out"
      BY <1>0, <1>1, <1>2, <3>2 DEF Types, TypeOK
    <3> QED BY <3>1, <3>2
  <2>3. /\ check'.pc \in {"out", "collect", "remove"} /\ check'.now \in 0 .. clock'
        /\ check'.size \in Nat /\ check'.removed \subseteq check'.dead
        /\ check'.dead \subseteq Neighbors /\ check'.touched \subseteq Neighbors
    BY <1>0, <1>2, <1>5 DEF Types, TypeOK, Checks
  <2> QED BY <1>0, <1>3, <1>4, <1>5, <2>1, <2>2, <2>3 DEF Types, TypeOK
<1>7. Removal'
  BY <1>0, <1>2, <1>4 DEF Removal
<1>8. Balance'
  BY <1>0, <1>1, <1>2, <1>3, <1>4, <1>5 DEF Balance, One, Types, TypeOK
<1>9. Verdicts'
  BY <1>0, <1>1, <1>2 DEF Types, Checks, Verdicts
<1> QED BY <1>1, <1>2, <1>6, <1>7, <1>8, <1>9 DEF Ledger, Types
LEMMA CheckBegun ==
  ASSUME Ledger, CheckBegin
  PROVE  Ledger'
<1>0. Types /\ Removal /\ Balance /\ Verdicts
  BY DEF Ledger
<1>1. UNCHANGED <<clock, lastSeen, stamp, beats, joins, reports, losses, forgets, Tracked>>
  BY DEF CheckBegin, Tracked
<1>2. Tracked \in SUBSET Neighbors /\ Cardinality(Tracked) \in Nat /\ clock \in Nat
  BY <1>0, FS_CardinalityType DEF Types, TypeOK
<1>3. check' = [pc |-> "collect", now |-> clock, size |-> Cardinality(Tracked), todo |-> Tracked,
                dead |-> {}, removed |-> {}, before |-> lastSeen, touched |-> {}]
  BY DEF CheckBegin, NoCheck
<1>4. check' \in Checks /\ check.removed = {}
  BY <1>0, <1>2, <1>3 DEF CheckBegin, Types, Checks, Removal
<1>5. TypeOK'
  BY <1>0, <1>1, <1>2, <1>3 DEF Types, TypeOK
<1>6. Removal' /\ Balance'
  BY <1>0, <1>1, <1>3, <1>4 DEF Removal, Due, Balance
<1>7. Verdicts'
  BY <1>1, <1>3 DEF Verdicts, Tracked
<1> QED BY <1>0, <1>1, <1>4, <1>5, <1>6, <1>7 DEF Ledger, Types

LEMMA Visited ==
  ASSUME Ledger, NEW n \in Neighbors, Visit(n)
  PROVE  Ledger'
<1>0. Types /\ Removal /\ Balance /\ Verdicts
  BY DEF Ledger
<1>1. UNCHANGED <<clock, lastSeen, stamp, beats, joins, reports, losses, forgets, Tracked>>
  BY DEF Visit, Tracked
<1>2. /\ check.pc = "collect" /\ n \in check.todo
      /\ check' = [check EXCEPT !.todo = @ \ {n},
                                !.dead = IF Silent(lastSeen[n]) THEN @ \cup {n} ELSE @]
  BY DEF Visit
<1>3. /\ check' \in Checks /\ check'.pc = "collect" /\ check'.before = check.before
      /\ check'.now = check.now /\ check'.removed = check.removed
      /\ check'.touched = check.touched /\ check'.size = check.size
      /\ check'.todo = check.todo \ {n}
      /\ check'.dead = IF Silent(lastSeen[n]) THEN check.dead \cup {n} ELSE check.dead
  BY <1>0, <1>2 DEF Types, Checks
<1>4. TypeOK'
  BY <1>0, <1>1, <1>3 DEF Types, TypeOK, Checks
<1>5. Removal'
  BY <1>0, <1>1, <1>2, <1>3 DEF Removal, Due, Types, TypeOK
<1>6. Balance'
  BY <1>0, <1>1, <1>3 DEF Balance
<1>7. Verdicts'
  <2>1. SUFFICES ASSUME NEW k \in DOMAIN check.before \ check.touched
                 PROVE  /\ k \in Tracked /\ lastSeen[k] = check.before[k]
                        /\ IF k \in check'.todo THEN k \notin check'.dead
                           ELSE k \in check'.dead <=> check.now > check.before[k] + Timeout
    BY <1>1, <1>3 DEF Verdicts
  <2>2. /\ k \in Tracked /\ lastSeen[k] = check.before[k]
        /\ IF k \in check.todo THEN k \notin check.dead
           ELSE k \in check.dead <=> check.now > check.before[k] + Timeout
    BY <1>0, <1>2, <2>1 DEF Verdicts
  <2>3. CASE k = n
    <3>1. lastSeen[n] \in Nat /\ check.now \in Nat /\ Timeout \in Nat
      BY <1>0, <2>2, <2>3, MonitorConstants DEF Types, TypeOK
    <3>2. Silent(lastSeen[n]) <=> check.now > check.before[k] + Timeout
      BY <2>2, <2>3, <3>1 DEF Silent
    <3> QED BY <1>0, <1>2, <1>3, <2>2, <2>3, <3>2 DEF Types, TypeOK, Removal
  <2>4. CASE k # n
    BY <1>3, <2>2, <2>4
  <2> QED BY <2>3, <2>4
<1> QED BY <1>0, <1>1, <1>3, <1>4, <1>5, <1>6, <1>7 DEF Ledger, Types

LEMMA Collected ==
  ASSUME Ledger, CollectDone
  PROVE  Ledger'
<1>0. Types /\ Removal /\ Balance /\ Verdicts
  BY DEF Ledger
<1>1. UNCHANGED <<clock, lastSeen, stamp, beats, joins, reports, losses, forgets, Tracked>>
  BY DEF CollectDone, Tracked
<1>2. /\ check' \in Checks /\ check'.pc = "remove" /\ check'.before = check.before
      /\ check'.now = check.now /\ check'.removed = check.removed
      /\ check'.touched = check.touched /\ check'.size = check.size
      /\ check'.todo = {} /\ check'.dead = check.dead
  BY <1>0 DEF CollectDone, Types, Checks
<1>3. TypeOK'
  BY <1>0, <1>1, <1>2 DEF Types, TypeOK, Checks
<1>4. Removal'
  BY <1>0, <1>1, <1>2 DEF Removal, Due
<1>5. Balance'
  BY <1>0, <1>1, <1>2 DEF Balance
<1>6. Verdicts'
  BY <1>0, <1>1, <1>2 DEF Verdicts, CollectDone
<1> QED BY <1>0, <1>1, <1>2, <1>3, <1>4, <1>5, <1>6 DEF Ledger, Types

LEMMA CheckEnded ==
  ASSUME Ledger, check' = NoCheck, UNCHANGED <<clock, lastSeen, stamp, forgets>>,
         beats' \in [Neighbors -> Nat], joins' \in [Neighbors -> Nat],
         reports' \in [Neighbors -> Nat], losses' \in [Neighbors -> Nat], Balance'
  PROVE  Ledger'
<1>0. Types
  BY DEF Ledger
<1>1. Tracked' = Tracked
  BY DEF Tracked
<1>2. check' \in Checks
  BY NoCheckType
<1>3. TypeOK'
  BY <1>0, <1>1 DEF Types, TypeOK, NoCheck
<1>4. Removal' /\ Verdicts'
  BY DEF Removal, Verdicts, NoCheck, Due
<1> QED BY <1>0, <1>1, <1>2, <1>3, <1>4 DEF Ledger, Types

LEMMA CheckFailed ==
  ASSUME Ledger, CollectFails
  PROVE  Ledger'
<1>0. Types /\ Removal /\ Balance
  BY DEF Ledger
<1>1. /\ check' = NoCheck /\ Tracked' = Tracked /\ check.removed = {}
      /\ UNCHANGED <<clock, lastSeen, stamp, beats, joins, reports, losses, forgets>>
  BY <1>0 DEF CollectFails, Tracked, Removal
<1>2. Balance'
  BY <1>0, <1>1 DEF Balance, NoCheck
<1> QED BY <1>0, <1>1, <1>2, CheckEnded DEF Types, TypeOK

LEMMA Deleted ==
  ASSUME Ledger, NEW n \in Neighbors, Delete(n)
  PROVE  Ledger'
<1>0. Types /\ Removal /\ Balance /\ Verdicts
  BY DEF Ledger
<1>1. /\ check.pc = "remove" /\ n \in Tracked /\ n \in check.dead /\ n \notin check.removed
      /\ UNCHANGED <<clock, stamp, beats, joins, reports, losses, forgets>>
  BY DEF Delete, Due
<1>2. /\ lastSeen' \in Stamps /\ Tracked' = Tracked \ {n} /\ IsFiniteSet(Tracked')
      /\ \A k \in Tracked \ {n} : lastSeen'[k] = lastSeen[k]
  <2>1. lastSeen \in Stamps /\ IsFiniteSet(Tracked) /\ lastSeen' = Pop(lastSeen, n)
    BY <1>0 DEF Delete, Types
  <2>2. IsFiniteSet(Tracked \ {n})
    BY <2>1, FS_RemoveElement
  <2> QED BY <2>1, <2>2, Popped DEF Tracked
<1>3. /\ check' \in Checks /\ check'.pc = check.pc /\ check'.before = check.before
      /\ check'.now = check.now /\ check'.dead = check.dead /\ check'.todo = check.todo
      /\ check'.touched = check.touched /\ check'.size = check.size
      /\ check'.removed = check.removed \cup {n}
  BY <1>0 DEF Delete, Types, Checks
<1>4. TypeOK'
  <2>1. Tracked' \subseteq Neighbors /\ \A k \in Tracked' : lastSeen'[k] \in 0 .. clock'
    BY <1>0, <1>1, <1>2 DEF Types, TypeOK
  <2>2. /\ check'.pc \in {"out", "collect", "remove"} /\ check'.now \in 0 .. clock'
        /\ check'.size \in Nat /\ check'.todo \subseteq Tracked'
        /\ check'.removed \subseteq check'.dead
        /\ check'.dead \subseteq Neighbors /\ check'.touched \subseteq Neighbors
    BY <1>0, <1>1, <1>3 DEF Types, TypeOK, Checks, Removal
  <2> QED BY <1>0, <1>1, <2>1, <2>2 DEF Types, TypeOK
<1>5. Removal'
  BY <1>0, <1>1, <1>2, <1>3 DEF Removal, Due
<1>6. Balance'
  BY <1>0, <1>1, <1>2, <1>3 DEF Balance, One, Types, TypeOK
<1>7. Verdicts'
  BY <1>0, <1>1, <1>3 DEF Verdicts
<1> QED BY <1>2, <1>3, <1>4, <1>5, <1>6, <1>7 DEF Ledger, Types

LEMMA DeleteFailed ==
  ASSUME Ledger, NEW n \in Neighbors, DeleteFails(n)
  PROVE  Ledger'
<1>0. Types /\ Removal /\ Balance
  BY DEF Ledger
<1>1. /\ check' = NoCheck /\ Tracked' = Tracked /\ n \in Due \ Tracked
      /\ UNCHANGED <<clock, lastSeen, stamp, beats, joins, reports, forgets>>
  BY DEF DeleteFails, Tracked
<1>2. /\ losses' \in [Neighbors -> Nat]
      /\ \A k \in Neighbors : losses'[k] = losses[k] + One(k \in check.removed)
  BY <1>0, Counted DEF DeleteFails, Types, TypeOK
<1>3. Balance'
  <2>1. forgets' # 0
    BY <1>0, <1>1 DEF Removal
  <2>2. SUFFICES ASSUME NEW k \in Neighbors
                 PROVE  joins'[k] = reports'[k] + losses'[k] + One(k \in Tracked') + 0
    BY <1>1, <2>1 DEF Balance, One, NoCheck
  <2> DEFINE t == One(k \in Tracked)
             r == One(k \in check.removed)
  <2>3. /\ joins'[k] = joins[k] /\ reports'[k] = reports[k] /\ losses'[k] = losses[k] + r
        /\ One(k \in Tracked') = t /\ joins[k] = reports[k] + losses[k] + t + r
    BY <1>0, <1>1, <1>2 DEF Balance
  <2>4. t \in Nat /\ r \in Nat /\ reports[k] \in Nat /\ losses[k] \in Nat
    BY <1>0 DEF One, Types, TypeOK
  <2> QED BY <2>3, <2>4
<1> QED BY <1>0, <1>1, <1>2, <1>3, CheckEnded DEF Types, TypeOK

LEMMA Returned ==
  ASSUME Ledger, Return
  PROVE  Ledger'
<1>0. Types /\ Removal /\ Balance
  BY DEF Ledger
<1>1. /\ check' = NoCheck /\ Tracked' = Tracked /\ check.dead = check.removed
      /\ UNCHANGED <<clock, lastSeen, stamp, beats, joins, losses, forgets>>
  BY <1>0 DEF Return, Tracked, Due, Types, TypeOK
<1>2. /\ reports' \in [Neighbors -> Nat]
      /\ \A k \in Neighbors : reports'[k] = reports[k] + One(k \in check.removed)
  BY <1>0, <1>1, Counted DEF Return, Types, TypeOK
<1>3. Balance'
  <2>1. forgets' = 0 => losses' = Zero
    BY <1>0, <1>1 DEF Balance
  <2>2. SUFFICES ASSUME NEW k \in Neighbors
                 PROVE  joins'[k] = reports'[k] + losses'[k] + One(k \in Tracked') + 0
    BY <1>1, <2>1 DEF Balance, One, NoCheck
  <2> DEFINE t == One(k \in Tracked)
             r == One(k \in check.removed)
  <2>3. /\ joins'[k] = joins[k] /\ losses'[k] = losses[k] /\ reports'[k] = reports[k] + r
        /\ One(k \in Tracked') = t /\ joins[k] = reports[k] + losses[k] + t + r
    BY <1>0, <1>1, <1>2 DEF Balance
  <2>4. t \in Nat /\ r \in Nat /\ reports[k] \in Nat /\ losses[k] \in Nat
    BY <1>0 DEF One, Types, TypeOK
  <2> QED BY <2>3, <2>4
<1> QED BY <1>0, <1>1, <1>2, <1>3, CheckEnded DEF Types, TypeOK

\* The clock moves, a thread reads it, or nothing happens.
LEMMA TimePassed ==
  ASSUME Ledger, \/ Tick \/ (\E n \in Neighbors : HeartbeatRead(n)) \/ UNCHANGED vars
  PROVE  Ledger'
<1>0. Types /\ Removal /\ Balance /\ Verdicts
  BY DEF Ledger
<1>1. /\ UNCHANGED <<lastSeen, check, beats, joins, reports, losses, forgets, Tracked>>
      /\ clock' \in 0 .. MaxTime /\ clock <= clock' /\ clock \in Nat
      /\ stamp' \in [Neighbors -> 0 .. clock' \cup {Never}]
  BY <1>0, MonitorConstants DEF Tick, HeartbeatRead, vars, Types, TypeOK, Tracked
<1>2. TypeOK'
  BY <1>0, <1>1 DEF Types, TypeOK
<1>3. Removal' /\ Balance' /\ Verdicts'
  BY <1>0, <1>1 DEF Removal, Due, Balance, Verdicts
<1> QED BY <1>0, <1>1, <1>2, <1>3 DEF Ledger, Types

LEMMA Steps == Ledger /\ [Next]_vars => Ledger'
BY BeatStored, Forgotten, CheckBegun, Visited, Collected, CheckFailed, Deleted, DeleteFailed,
   Returned, TimePassed DEF Next, CheckNext

-----------------------------------------------------------------------------
(* The theorems.                                                            *)

LEMMA LedgerHolds == Spec => []Ledger
BY Begins, Steps, PTL DEF Spec

\* No timestamp lies ahead of the clock and a check visits and deletes only
\* entries it may, whatever thread writes the dictionary under it.
THEOREM MonitorTypes == Spec => []TypeOK
<1>1. Ledger => TypeOK
  BY DEF Ledger, Types
<1> QED BY <1>1, LedgerHolds, PTL

\* Nobody is reported twice for one silence or drops out of sight: every entry
\* into the dictionary ends in one report, or in a loss a forget() caused.
THEOREM JoinsAnswered == Spec => []EveryJoinAnswered
<1>1. Ledger => EveryJoinAnswered
  BY OneOfSet DEF Ledger, Balance, EveryJoinAnswered
<1> QED BY <1>1, LedgerHolds, PTL

\* A check's verdict on a neighbour nobody touched meanwhile is exact.
THEOREM ExactChecks == Spec => []CheckIsExact
<1>1. Ledger => CheckIsExact
  BY DEF Ledger, Verdicts, CheckIsExact
<1> QED BY <1>1, LedgerHolds, PTL
=============================================================================
