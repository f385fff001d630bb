-------------------------- MODULE WeightedRRTurns --------------------------
(***************************************************************************)
(* What the weighted round robin of OS/pj2/Part2/sched_weighted_rr.c owes  *)
(* its tasks.  A variable remembers, for every task in the queue, who has  *)
(* finished a turn since it took its place there.                          *)
(***************************************************************************)
EXTENDS WeightedRR

VARIABLE had

turnVars == <<vars, had>>

(* The running task finishes its turn: its slice is over, or it yields.    *)
TurnOver ==
  /\ curr \in Queued
  /\ Yield \/ (Tick /\ slice[curr] - 1 <= 0)

(* p takes a new place: it has joined the queue or gone to its tail.       *)
NewPlace(p) ==
  \/ p \notin Queued \/ p \notin Queued'
  \/ Place(queue', p) > Place(queue, p)

(* Turns are counted from a start with an empty queue.                    *)
TurnInit == Init /\ had = [p \in Tasks |-> {}]

TurnNext ==
  /\ Next
  /\ had' = [p \in Tasks |->
       IF NewPlace(p) THEN {} ELSE had[p] \cup (IF TurnOver THEN {curr} ELSE {})]

TurnSpec == TurnInit /\ [][TurnNext]_turnVars

FairTurnSpec == TurnSpec /\ Fairness

----------------------------------------------------------------------------
(* Round robin: while p keeps its place in the queue nobody finishes two   *)
(* turns, unless it does so before a pending reschedule.                   *)
OneTurnEach ==
  [][(TurnOver /\ ~resched /\ ~boosted[curr]) =>
       \A p \in Queued \ {curr} : curr \notin had[p]]_turnVars

(* Who stands before p in the list q.                                      *)
Ahead(q, p) == {t \in ToSet(q) : Place(q, t) < Place(q, p)}

(* p sleeps, finishes its turn, or somebody gives it another priority or   *)
(* policy.                                                                 *)
GivesUpPlace(p) ==
  \/ p = curr /\ (Block \/ TurnOver)
  \/ SetNice(p) \/ SetPrio(p) \/ \E c \in Classes : SetScheduler(p, c)

(* What EveryTaskRuns promises, step by step: until p gives up its place   *)
(* nobody gets before it who was not before it, whatever wakes up, forks,  *)
(* yields or changes its priority; and while the same tasks stand before p *)
(* the first of them is not given more time, and every tick it runs is     *)
(* taken off its slice.  So the wait of p is counted down.                 *)
WaitShrinks ==
  [][\A p \in Queued :
       (Ahead(queue, p) # {} /\ p \in Queued' /\ ~GivesUpPlace(p)) =>
         /\ Ahead(queue', p) \subseteq Ahead(queue, p)
         /\ Ahead(queue', p) = Ahead(queue, p) =>
              LET h == Head(queue) IN
              /\ Head(queue') = h
              /\ slice'[h] <= slice[h]
              /\ (Tick /\ curr = h) => slice'[h] < slice[h]]_turnVars
=============================================================================
