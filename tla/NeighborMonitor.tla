--------------------------- MODULE NeighborMonitor ---------------------------
(***************************************************************************)
(* The heartbeat monitor (NeighborMonitor of src/src/common/routing.py):   *)
(* a dictionary of timestamps without a lock.  One rx thread per neighbour *)
(* calls heartbeat_received, one thread calls check_dead again and again,  *)
(* the application may forget a neighbour.  Reading the clock and storing  *)
(* it are two steps; check_dead reads the clock, iterates over the         *)
(* dictionary and deletes what it collected, one entry at a time, and any  *)
(* of the other calls may come between.                                    *)
(***************************************************************************)
EXTENDS Routing, FiniteSets

CONSTANTS
  Neighbors,
  Timeout,    \* timeout_ms, in ticks
  Never,      \* stands for "no timestamp at hand"
  MaxTime,    \* bound: ticks of the clock
  MaxBeats,   \* bound: heartbeats recorded of each neighbour
  MaxForgets  \* bound: forget() calls

ASSUME MonitorConstants ==
  /\ Timeout \in Nat /\ MaxTime \in Nat /\ MaxBeats \in Nat /\ MaxForgets \in Nat
  /\ Never \notin Nat

VARIABLES
  clock,      \* time.monotonic()
  lastSeen,   \* self._last_seen
  stamp,      \* the time each rx thread has read and is about to store
  check,      \* the locals of check_dead
  beats,      \* history: heartbeats recorded of each neighbour
  joins, reports, losses,  \* history: how often each was entered into the
              \* dictionary, reported dead, and taken out unreported
  forgets     \* history: forget() calls

vars == <<clock, lastSeen, stamp, check, beats, joins, reports, losses, forgets>>

\* check_dead's clock reading, the dictionary's size when iteration began, the
\* entries not visited yet, those collected, and those deleted since; and as
\* history the dictionary when it began and the keys changed meanwhile.
NoCheck == [pc |-> "out", now |-> 0, size |-> 0, todo |-> {}, dead |-> {}, removed |-> {},
            before |-> <<>>, touched |-> {}]

Zero == [n \in Neighbors |-> 0]
Plus1(f, S) == [n \in Neighbors |-> IF n \in S THEN f[n] + 1 ELSE f[n]]
Tracked == DOMAIN lastSeen

Init ==
  /\ clock = 0 /\ lastSeen = <<>> /\ stamp = [n \in Neighbors |-> Never]
  /\ check = NoCheck /\ forgets = 0
  /\ beats = Zero /\ joins = Zero /\ reports = Zero /\ losses = Zero

Tick ==
  /\ clock < MaxTime /\ clock' = clock + 1
  /\ UNCHANGED <<lastSeen, stamp, check, beats, joins, reports, losses, forgets>>

-----------------------------------------------------------------------------
(* heartbeat_received and forget.                                           *)

\* Mutant: the deadline is recorded in place of the time.
HeartbeatReadsDeadline(n) ==
  /\ stamp[n] = Never /\ beats[n] < MaxBeats
  /\ stamp' = [stamp EXCEPT ![n] = clock + Timeout]
  /\ UNCHANGED <<clock, lastSeen, check, beats, joins, reports, losses, forgets>>

HeartbeatRead(n) ==
  /\ stamp[n] = Never /\ beats[n] < MaxBeats
  /\ stamp' = [stamp EXCEPT ![n] = clock]
  /\ UNCHANGED <<clock, lastSeen, check, beats, joins, reports, losses, forgets>>

\* A key that is new comes last in a running iteration.
HeartbeatStore(n) ==
  /\ stamp[n] # Never /\ stamp' = [stamp EXCEPT ![n] = Never]
  /\ lastSeen' = Assign(lastSeen, n, stamp[n])
  /\ check' = IF check.pc = "out" THEN check
              ELSE [check EXCEPT !.touched = @ \cup {n},
                                 !.todo = IF check.pc = "collect" THEN @ \cup ({n} \ Tracked) ELSE @]
  /\ beats' = Plus1(beats, {n}) /\ joins' = Plus1(joins, {n} \ Tracked)
  /\ UNCHANGED <<clock, reports, losses, forgets>>

Forget(n) ==
  /\ forgets < MaxForgets /\ forgets' = forgets + 1
  /\ lastSeen' = Pop(lastSeen, n)
  /\ check' = IF check.pc = "out" THEN check
              ELSE [check EXCEPT !.touched = @ \cup {n}, !.todo = @ \ {n}]
  /\ losses' = Plus1(losses, {n} \cap Tracked)
  /\ UNCHANGED <<clock, stamp, beats, joins, reports>>

-----------------------------------------------------------------------------
(* check_dead.                                                              *)

CheckBegin ==
  /\ check.pc = "out"
  /\ check' = [NoCheck EXCEPT !.pc = "collect", !.now = clock, !.size = Cardinality(Tracked),
                              !.todo = Tracked, !.before = lastSeen]
  /\ UNCHANGED <<clock, lastSeen, stamp, beats, joins, reports, losses, forgets>>

SilentInMs(ts) == check.now - ts > 1000 * Timeout  \* mutant: milliseconds taken for seconds
Silent(ts) == check.now - ts > Timeout

\* The iterator looks at the dictionary's size with every step.
SameSize == Cardinality(Tracked) = check.size

Visit(n) ==
  /\ check.pc = "collect" /\ SameSize /\ n \in check.todo
  /\ check' = [check EXCEPT !.todo = @ \ {n},
                            !.dead = IF Silent(lastSeen[n]) THEN @ \cup {n} ELSE @]
  /\ UNCHANGED <<clock, lastSeen, stamp, beats, joins, reports, losses, forgets>>

CollectDone ==
  /\ check.pc = "collect" /\ SameSize /\ check.todo = {}
  /\ check' = [check EXCEPT !.pc = "remove"]
  /\ UNCHANGED <<clock, lastSeen, stamp, beats, joins, reports, losses, forgets>>

\* RuntimeError, "dictionary changed size during iteration": nothing is removed.
CollectFails ==
  /\ check.pc = "collect" /\ ~SameSize /\ check' = NoCheck
  /\ UNCHANGED <<clock, lastSeen, stamp, beats, joins, reports, losses, forgets>>

Due == check.dead \ check.removed

\* Mutant: the dead are reported but stay in the dictionary.
DeleteNothing(n) ==
  /\ check.pc = "remove" /\ n \in Due \cap Tracked
  /\ check' = [check EXCEPT !.removed = @ \cup {n}]
  /\ UNCHANGED <<clock, lastSeen, stamp, beats, joins, reports, losses, forgets>>

Delete(n) ==
  /\ check.pc = "remove" /\ n \in Due \cap Tracked
  /\ lastSeen' = Pop(lastSeen, n)
  /\ check' = [check EXCEPT !.removed = @ \cup {n}]
  /\ UNCHANGED <<clock, stamp, beats, joins, reports, losses, forgets>>

\* KeyError: those deleted so far are never returned.
DeleteFails(n) ==
  /\ check.pc = "remove" /\ n \in Due \ Tracked
  /\ check' = NoCheck /\ losses' = Plus1(losses, check.removed)
  /\ UNCHANGED <<clock, lastSeen, stamp, beats, joins, reports, forgets>>

Return ==
  /\ check.pc = "remove" /\ Due = {}
  /\ check' = NoCheck /\ reports' = Plus1(reports, check.dead)
  /\ UNCHANGED <<clock, lastSeen, stamp, beats, joins, losses, forgets>>

-----------------------------------------------------------------------------
CheckNext == \/ CheckBegin \/ CollectDone \/ CollectFails \/ Return
             \/ \E n \in Neighbors : Visit(n) \/ Delete(n) \/ DeleteFails(n)
Next == \/ Tick \/ CheckNext
        \/ \E n \in Neighbors : HeartbeatRead(n) \/ HeartbeatStore(n) \/ Forget(n)

Spec == Init /\ [][Next]_vars

\* The application keeps calling check_dead, whatever the last call raised.
FairSpec == Spec /\ WF_vars(CheckNext)

-----------------------------------------------------------------------------
\* The types; no timestamp lies ahead of the clock, and a check deletes only
\* what it has collected.
TypeOK ==
  /\ clock \in 0 .. MaxTime /\ forgets \in 0 .. MaxForgets
  /\ Tracked \subseteq Neighbors /\ \A n \in Tracked : lastSeen[n] \in 0 .. clock
  /\ stamp \in [Neighbors -> 0 .. clock \cup {Never}]
  /\ check.pc \in {"out", "collect", "remove"} /\ check.now \in 0 .. clock /\ check.size \in Nat
  /\ check.todo \subseteq Tracked /\ check.removed \subseteq check.dead
  /\ check.dead \subseteq Neighbors /\ check.touched \subseteq Neighbors
  /\ \A f \in {beats, joins, reports, losses} : f \in [Neighbors -> Nat]

\* "After a neighbor is reported dead, it will NOT be reported again unless
\* heartbeat_received() is called" (the class's contract), and nobody drops out
\* of sight: each entry into the dictionary ends in one report, or in a loss
\* that only a forget() can cause, racing calls and exceptions included.
EveryJoinAnswered ==
  /\ \A n \in Neighbors :
       joins[n] = reports[n] + losses[n] + Cardinality({n} \cap Tracked)
                    + Cardinality({n} \cap check.removed)
  /\ forgets = 0 => losses = Zero

\* A check that gets past its iteration has collected exactly the neighbours
\* silent for longer than the timeout, of those nobody touched meanwhile: the
\* races change its verdict on no one else.
CheckIsExact ==
  check.pc = "remove" =>
    \A n \in DOMAIN check.before \ check.touched :
      n \in check.dead <=> check.now > check.before[n] + Timeout

\* No neighbour stays tracked and silent past the timeout for ever: checks that
\* heartbeats and forget() make fail are not the last to see it.
SilenceEnds ==
  \A n \in Neighbors : []<>(n \notin Tracked \/ clock <= lastSeen[n] + Timeout)
=============================================================================
