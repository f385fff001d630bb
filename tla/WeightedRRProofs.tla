-------------------------- MODULE WeightedRRProofs --------------------------
(***************************************************************************)
(* Proof that the processor never stays with a task of the weighted class  *)
(* of OS/pj2/Part2/sched_weighted_rr.c while a task of a higher class is   *)
(* runnable.  The invariant needs the types, that the running task is      *)
(* runnable, and that a task that is not born is not.                      *)
(***************************************************************************)
EXTENDS WeightedRR, TLAPS

SchedTypeOK ==
  /\ curr \in onRq \cup {Idle}
  /\ onRq \subseteq born /\ born \subseteq Tasks
  /\ class \in [Tasks -> Classes]
  /\ policy \in [Tasks -> Classes]
  /\ resched \in BOOLEAN /\ oops \in BOOLEAN

SchedInv == SchedTypeOK /\ NeverOutranked

(* Ranks compare as numbers.                                               *)
LEMMA RankIsNat == \A c \in Classes : Rank(c) \in 1..3
BY DEF Classes, Rank

(* The core hands the processor to a task that no runnable one outranks.   *)
LEMMA SwitchToIsFair ==
  ASSUME SchedTypeOK, WeightedAssumption,
         NEW q, NEW ready \in SUBSET Tasks, SwitchTo(q, ready),
         onRq' = ready, ready \subseteq born, UNCHANGED <<class, born, policy, oops>>
  PROVE  SchedInv'
<1>1. CASE ready = {}
  BY <1>1 DEF SwitchTo, PickNext, SchedInv, SchedTypeOK, NeverOutranked, CurrRank
<1>2. CASE ready # {}
  <2>1. curr' \in ready /\ \A u \in ready : Rank(class[curr']) >= Rank(class[u])
    BY <1>2 DEF SwitchTo, PickNext
  <2>2. SchedTypeOK'
    BY <2>1 DEF SchedTypeOK, SwitchTo
  <2>3. curr' # Idle
    BY <2>1 DEF WeightedAssumption
  <2>4. NeverOutranked'
    BY <2>1, <2>3, RankIsNat DEF NeverOutranked, CurrRank, SchedTypeOK
  <2> QED BY <2>2, <2>4 DEF SchedInv
<1> QED BY <1>1, <1>2

(* A task that becomes runnable, or changes class without running, sends   *)
(* the running one away if it outranks it.                                 *)
LEMMA CheckPreemptKeeps ==
  ASSUME SchedInv, WeightedAssumption,
         NEW p \in Tasks, NEW c \in Classes, p # curr,
         CheckPreempt(p, c), ~oops,
         class' = [class EXCEPT ![p] = c],
         onRq' = onRq \cup {p}, born' = born \cup {p},
         policy' \in [Tasks -> Classes], oops' \in BOOLEAN, UNCHANGED curr
  PROVE  SchedInv'
<1>1. resched' \in BOOLEAN /\ (~resched' => ~resched /\ Rank(c) <= CurrRank)
  <2>1. CurrRank \in 0..3 /\ Rank(c) \in 1..3
    BY RankIsNat DEF CurrRank, SchedInv, SchedTypeOK
  <2>2. CASE Rank(c) > CurrRank
    BY <2>2 DEF CheckPreempt
  <2>3. CASE ~(Rank(c) > CurrRank)
    <3>1. resched' \in {resched, TRUE}
      BY <2>3 DEF CheckPreempt
    <3>2. Rank(c) <= CurrRank
      BY <2>1, <2>3
    <3> QED BY <3>1, <3>2 DEF SchedInv, SchedTypeOK
  <2> QED BY <2>2, <2>3
<1>2. SchedTypeOK'
  BY <1>1 DEF SchedInv, SchedTypeOK
<1>3. CurrRank' = CurrRank
  BY WeightedAssumption DEF CurrRank, SchedInv, SchedTypeOK
<1>4. ASSUME ~resched', NEW u \in onRq' PROVE Rank(class'[u]) <= CurrRank'
  <2>1. CASE u = p
    BY <1>1, <1>3, <1>4, <2>1 DEF SchedInv, SchedTypeOK
  <2>2. CASE u # p
    BY <1>1, <1>3, <1>4, <2>2 DEF SchedInv, SchedTypeOK, NeverOutranked
  <2> QED BY <2>1, <2>2
<1> QED BY <1>2, <1>4 DEF SchedInv, NeverOutranked

(* Nothing that leaves the tasks, their classes and the processor alone    *)
(* and keeps a pending reschedule matters.                                 *)
LEMMA SameTasks ==
  ASSUME SchedInv, resched' \in {resched, TRUE}, oops' \in BOOLEAN, ~oops,
         UNCHANGED <<onRq, curr, born, policy, class>>
  PROVE  SchedInv'
<1>1. SchedTypeOK'
  BY DEF SchedInv, SchedTypeOK
<1>2. CurrRank' = CurrRank
  BY DEF CurrRank
<1>3. ~resched' => ~resched
  OBVIOUS
<1> QED BY <1>1, <1>2, <1>3 DEF SchedInv, NeverOutranked

(* The change of class that setscheduler and setprio share.                *)
LEMMA ChangeClassKeeps ==
  ASSUME SchedInv, WeightedAssumption, NEW p \in born, NEW c \in Classes,
         ChangeClass(p, c), ~oops, policy' \in [Tasks -> Classes]
  PROVE  SchedInv'
<1>0. p \in Tasks /\ class' = [class EXCEPT ![p] = c] /\ UNCHANGED <<onRq, curr, born>>
  BY DEF ChangeClass, SchedInv, SchedTypeOK
<1>1. CASE p \notin onRq
  <2>1. SchedTypeOK' /\ UNCHANGED <<resched, oops>>
    BY <1>0, <1>1 DEF ChangeClass, SchedInv, SchedTypeOK
  <2>2. p # curr
    BY <1>0, <1>1, WeightedAssumption DEF SchedInv, SchedTypeOK
  <2>3. CurrRank' = CurrRank
    BY <1>0, <2>2, WeightedAssumption DEF CurrRank, SchedInv, SchedTypeOK
  <2>4. \A u \in onRq : class'[u] = class[u]
    BY <1>0, <1>1 DEF SchedInv, SchedTypeOK
  <2> QED BY <1>0, <2>1, <2>3, <2>4 DEF SchedInv, NeverOutranked
<1>2. CASE p \in onRq /\ p # curr
  BY <1>0, <1>2, CheckPreemptKeeps DEF ChangeClass, CheckClassChanged, SchedInv, SchedTypeOK
<1>3. CASE p \in onRq /\ p = curr
  <2>1. /\ resched' \in IF class[p] # c /\ c # "rt" THEN {TRUE} ELSE {resched, TRUE}
        /\ oops' \in BOOLEAN
    BY <1>3 DEF ChangeClass, CheckClassChanged
  <2>2. resched' \in {resched, TRUE}
    BY <2>1
  <2>3. SchedTypeOK'
    BY <1>0, <2>1, <2>2 DEF SchedInv, SchedTypeOK
  <2>4. CurrRank' = Rank(c) /\ CurrRank = Rank(class[p])
    BY <1>0, <1>3, WeightedAssumption DEF CurrRank, SchedInv, SchedTypeOK
  <2>5. ASSUME ~resched', NEW u \in onRq' PROVE Rank(class'[u]) <= CurrRank'
    <3>1. CASE class[p] = c
      <4>1. class' = class
        BY <1>0, <3>1 DEF SchedInv, SchedTypeOK
      <4> QED BY <1>0, <2>2, <2>4, <2>5, <3>1, <4>1 DEF SchedInv, NeverOutranked
    <3>2. CASE c = "rt"
      <4>1. class'[u] \in Classes /\ Rank(c) = 3
        BY <2>3, <3>2 DEF SchedTypeOK, Rank
      <4> QED BY <2>4, <4>1, RankIsNat
    <3> QED BY <2>1, <2>5, <3>1, <3>2
  <2> QED BY <2>3, <2>5 DEF SchedInv, NeverOutranked
<1> QED BY <1>1, <1>2, <1>3

LEMMA SchedInvInit == WeightedAssumption /\ Init => SchedInv
<1> SUFFICES ASSUME WeightedAssumption, Init PROVE SchedInv
  OBVIOUS
<1>1. SchedTypeOK
  BY DEF WeightedAssumption, Init, SchedTypeOK, Classes
<1>2. CurrRank = 2 /\ \A p \in onRq : Rank(class[p]) = 2
  BY DEF WeightedAssumption, Init, CurrRank, Rank
<1> QED BY <1>1, <1>2 DEF SchedInv, NeverOutranked

(* One step per operation of the core.                                     *)
LEMMA SchedInvNext == WeightedAssumption /\ SchedInv /\ [Next]_vars => SchedInv'
<1> SUFFICES ASSUME WeightedAssumption, SchedInv, [Next]_vars PROVE SchedInv'
  OBVIOUS
<1>a. CASE UNCHANGED vars
  <2>1. SchedTypeOK'
    BY <1>a DEF vars, rqVars, policyVars, SchedInv, SchedTypeOK
  <2>2. CurrRank' = CurrRank
    BY <1>a DEF vars, rqVars, policyVars, CurrRank
  <2> QED BY <1>a, <2>1, <2>2 DEF vars, rqVars, policyVars, SchedInv, NeverOutranked
<1> SUFFICES ASSUME Next PROVE SchedInv'
  BY <1>a
<1>0. ~oops /\ oops \in BOOLEAN
  BY DEF Next, SchedInv, SchedTypeOK
<1>1. CASE Block
  <2>1. onRq' = onRq \ {curr} /\ onRq \ {curr} \in SUBSET Tasks /\ onRq \ {curr} \subseteq born
    BY <1>1 DEF Block, SchedInv, SchedTypeOK
  <2>2. PICK q : SwitchTo(q, onRq \ {curr})
    BY <1>1 DEF Block
  <2> QED BY <1>1, <2>1, <2>2, SwitchToIsFair DEF Block, policyVars, SchedInv
<1>2. CASE Resched
  <2>1. onRq \in SUBSET Tasks /\ onRq \subseteq born
    BY DEF SchedInv, SchedTypeOK
  <2> QED BY <1>2, <2>1, SwitchToIsFair DEF Resched, rqVars, policyVars, SchedInv
<1>3. CASE Yield
  <2>1. onRq \in SUBSET Tasks /\ onRq \subseteq born
    BY DEF SchedInv, SchedTypeOK
  <2>2. PICK q : SwitchTo(q, onRq)
    BY <1>3 DEF Yield
  <2> QED BY <1>3, <2>1, <2>2, SwitchToIsFair DEF Yield, policyVars, SchedInv
<1>4. CASE Tick
  <2>1. resched' \in {resched, TRUE}
    BY <1>4 DEF Tick, SchedInv, SchedTypeOK
  <2> QED BY <1>0, <1>4, <2>1, SameTasks DEF Tick, policyVars
<1>5. ASSUME NEW p \in Tasks, Fork(p) PROVE SchedInv'
  <2>1. PICK c \in Classes : class' = [class EXCEPT ![p] = c] /\ CheckPreempt(p, c)
    BY <1>5 DEF Fork, Classes
  <2>2. p # curr
    BY <1>5 DEF Fork, SchedInv, SchedTypeOK
  <2>3. policy' \in [Tasks -> Classes]
    BY <1>5, WeightedAssumption DEF Fork, SchedInv, SchedTypeOK
  <2>4. onRq' = onRq \cup {p} /\ born' = born \cup {p} /\ UNCHANGED <<curr, oops>>
    BY <1>5 DEF Fork
  <2> QED BY <1>0, <2>1, <2>2, <2>3, <2>4, CheckPreemptKeeps
<1>6. ASSUME NEW p \in Tasks, WakeUp(p) PROVE SchedInv'
  <2>1. /\ class[p] \in Classes /\ class' = [class EXCEPT ![p] = class[p]]
        /\ CheckPreempt(p, class[p])
    BY <1>6 DEF WakeUp, policyVars, SchedInv, SchedTypeOK
  <2>2. p # curr
    BY <1>6, WeightedAssumption DEF WakeUp, SchedInv, SchedTypeOK
  <2>3. policy' \in [Tasks -> Classes] /\ UNCHANGED <<curr, oops>>
    BY <1>6 DEF WakeUp, policyVars, SchedInv, SchedTypeOK
  <2>4. onRq' = onRq \cup {p} /\ born' = born \cup {p}
    BY <1>6 DEF WakeUp
  <2> QED BY <1>0, <2>1, <2>2, <2>3, <2>4, CheckPreemptKeeps
<1>7. ASSUME NEW p \in Tasks, NEW c \in Classes, SetScheduler(p, c) PROVE SchedInv'
  <2>1. policy' \in [Tasks -> Classes]
    BY <1>7 DEF SetScheduler, SchedInv, SchedTypeOK
  <2> QED BY <1>0, <1>7, <2>1, ChangeClassKeeps DEF SetScheduler
<1>8. ASSUME NEW p \in Tasks, SetPrio(p) PROVE SchedInv'
  <2>1. PICK c \in Classes : ChangeClass(p, c)
    BY <1>8 DEF SetPrio, Classes
  <2>2. policy' \in [Tasks -> Classes] /\ p \in born
    BY <1>8 DEF SetPrio, SchedInv, SchedTypeOK
  <2> QED BY <1>0, <2>1, <2>2, ChangeClassKeeps
<1>9. ASSUME NEW p \in Tasks, SetNice(p) PROVE SchedInv'
  <2>1. resched' \in {resched, TRUE}
    BY <1>9 DEF SetNice
  <2> QED BY <1>0, <1>9, <2>1, SameTasks DEF SetNice, policyVars
<1>10. ASSUME NEW n \in Quanta, SetQuantum(n) PROVE SchedInv'
  BY <1>0, <1>10, SameTasks DEF SetQuantum, rqVars, policyVars
<1>11. ASSUME NEW p \in Tasks, RrGetInterval(p) PROVE SchedInv'
  <2>1. oops' \in BOOLEAN
    BY <1>11 DEF RrGetInterval
  <2> QED BY <1>0, <1>11, <2>1, SameTasks DEF RrGetInterval, rqVars, policyVars
<1>12. CASE Call
  BY <1>12, <1>7, <1>8, <1>9, <1>10, <1>11 DEF Call
<1> QED BY <1>1, <1>2, <1>3, <1>4, <1>5, <1>6, <1>12 DEF Next

(* In every state of one runqueue, for any tasks and any quanta, a         *)
(* reschedule is pending, or no runnable task belongs to a class above the *)
(* running one's.                                                          *)
THEOREM NoInversion == Spec => []NeverOutranked
<1>1. SchedInv => NeverOutranked
  BY DEF SchedInv
<1> QED BY <1>1, SchedInvInit, SchedInvNext, WeightedAssumption, PTL DEF Spec
----------------------------------------------------------------------------
(* The slices: who joins the queue gets its weight, who is charged its     *)
(* last tick too.                                                          *)
SliceTypeOK ==
  /\ onRq \subseteq born /\ born \subseteq Tasks
  /\ curr \in onRq \cup {Idle}
  /\ class \in [Tasks -> Classes]
  /\ slice \in [Tasks -> Int]
  /\ weight \in [Tasks -> Nat] /\ quantum \in Nat

SliceInv == SliceTypeOK /\ SliceReady

(* The slices after each operation of the class.                           *)
LEMMA SliceOps ==
  ASSUME NEW rq, NEW p, NEW c
  PROVE  /\ Enqueued(rq, p, c).s = IF c = "wrr" THEN [rq.s EXCEPT ![p] = weight[p]] ELSE rq.s
         /\ Dequeued(rq, p, c).s = IF c = "wrr" THEN [rq.s EXCEPT ![p] = 0] ELSE rq.s
BY DEF Enqueued, Dequeued

LEMMA SliceOfRequeued ==
  ASSUME NEW p \in Tasks
  PROVE  Requeued(RunQueue, p).s = [slice EXCEPT ![p] = weight[p]]
BY DEF Requeued, RunQueue

LEMMA SliceOfRunQueue == RunQueue.s = slice
BY DEF RunQueue

(* A step touches the slice of one task, p; p is out of the queue after    *)
(* it or has its full weight.                                              *)
LEMMA SliceStep ==
  ASSUME SliceInv, SliceTypeOK', NEW p \in Tasks,
         \A u \in Queued' : u # p =>
            u \in Queued /\ slice'[u] = slice[u] /\ weight'[u] = weight[u],
         p \in Queued' => slice'[p] = weight'[p]
  PROVE  SliceInv'
<1> SUFFICES ASSUME NEW u \in Queued'
             PROVE  slice'[u] <= weight'[u] /\ (slice'[u] > 0 \/ weight'[u] = 0)
  BY DEF SliceInv, SliceReady
<1>1. CASE u = p
  <2>1. weight'[p] \in Nat /\ slice'[p] = weight'[p]
    BY <1>1 DEF SliceTypeOK
  <2> QED BY <1>1, <2>1
<1>2. CASE u # p
  BY <1>2 DEF SliceInv, SliceReady
<1> QED BY <1>1, <1>2

(* The operations that move one task off the queue, on to it, or both.     *)
LEMMA SliceMoves ==
  ASSUME SliceInv, NEW p \in born, NEW c \in Classes,
         slice' \in {Enqueued(RunQueue, p, c).s, Enqueued(Dequeued(RunQueue, p, class[p]), p, c).s},
         class' = [class EXCEPT ![p] = c], onRq' = onRq \cup {p},
         UNCHANGED <<curr, born, weight, quantum>>
  PROVE  SliceInv'
<1>0. p \in Tasks /\ weight[p] \in Int
  BY DEF SliceInv, SliceTypeOK
<1>1. PICK s \in {slice, [slice EXCEPT ![p] = 0]} :
        slice' = IF c = "wrr" THEN [s EXCEPT ![p] = weight[p]] ELSE s
  <2>1. Dequeued(RunQueue, p, class[p]).s \in {slice, [slice EXCEPT ![p] = 0]}
    BY SliceOps, SliceOfRunQueue
  <2>2. CASE slice' = Enqueued(RunQueue, p, c).s
    BY <2>2, SliceOps, SliceOfRunQueue
  <2>3. CASE slice' = Enqueued(Dequeued(RunQueue, p, class[p]), p, c).s
    <3>1. slice' = IF c = "wrr" THEN [Dequeued(RunQueue, p, class[p]).s EXCEPT ![p] = weight[p]]
                                ELSE Dequeued(RunQueue, p, class[p]).s
      BY <2>3, SliceOps
    <3> QED BY <2>1, <3>1
  <2> QED BY <2>2, <2>3
<1>2. SliceTypeOK'
  BY <1>0, <1>1 DEF SliceInv, SliceTypeOK
<1>3. \A u \in Queued' : u # p =>
        u \in Queued /\ slice'[u] = slice[u] /\ weight'[u] = weight[u]
  BY <1>0, <1>1 DEF Queued, SliceInv, SliceTypeOK
<1>4. p \in Queued' => slice'[p] = weight'[p]
  BY <1>0, <1>1 DEF Queued, SliceInv, SliceTypeOK
<1> QED BY <1>0, <1>2, <1>3, <1>4, SliceStep

LEMMA SliceInvInit == WeightedAssumption /\ Init => SliceInv
<1> SUFFICES ASSUME WeightedAssumption, Init PROVE SliceInv
  OBVIOUS
<1>1. SliceTypeOK
  BY DEF WeightedAssumption, Init, SliceTypeOK, Classes
<1>2. Queued = {}
  BY DEF Init, Queued, WeightedAssumption
<1> QED BY <1>1, <1>2 DEF SliceInv, SliceReady

LEMMA SliceInvNext == WeightedAssumption /\ SliceInv /\ [Next]_vars => SliceInv'
<1> SUFFICES ASSUME WeightedAssumption, SliceInv, [Next]_vars PROVE SliceInv'
  OBVIOUS
<1> USE DEF policyVars, rqVars
<1>same. ASSUME UNCHANGED <<onRq, born, class, slice, weight>>,
                curr' \in onRq \cup {Idle}, quantum' \in Nat
         PROVE  SliceInv'
  <2>1. SliceTypeOK'
    BY <1>same DEF SliceInv, SliceTypeOK
  <2> QED BY <1>same, <2>1 DEF SliceInv, SliceReady, Queued
<1>a. CASE UNCHANGED vars
  BY <1>same, <1>a DEF vars, SliceInv, SliceTypeOK
<1> SUFFICES ASSUME Next PROVE SliceInv'
  BY <1>a
<1>pick. ASSUME NEW q, NEW ready \in SUBSET Tasks, SwitchTo(q, ready) PROVE curr' \in ready \cup {Idle}
  BY <1>pick DEF SwitchTo, PickNext
<1>1. CASE Block
  <2>1. onRq' = onRq \ {curr} /\ curr # Idle /\ curr \in Tasks
        /\ UNCHANGED <<class, born, weight, quantum>>
    BY <1>1 DEF Block, SliceInv, SliceTypeOK
  <2>2. slice' \in {slice, [slice EXCEPT ![curr] = 0]}
    BY <1>1, SliceOps, SliceOfRunQueue DEF Block, Becomes
  <2>3. curr' \in onRq' \cup {Idle}
    BY <1>1, <1>pick, <2>1 DEF Block, SliceInv, SliceTypeOK
  <2>4. SliceTypeOK'
    BY <2>1, <2>2, <2>3 DEF SliceInv, SliceTypeOK
  <2>5. \A u \in Queued' : u # curr =>
          u \in Queued /\ slice'[u] = slice[u] /\ weight'[u] = weight[u]
    BY <2>1, <2>2 DEF Queued, SliceInv, SliceTypeOK
  <2>6. curr \notin Queued'
    BY <2>1 DEF Queued
  <2> QED BY <2>1, <2>4, <2>5, <2>6, SliceStep
<1>2. CASE Resched
  BY <1>2, <1>same, <1>pick DEF Resched, SliceInv, SliceTypeOK
<1>turn. ASSUME curr \in Tasks, Requeued(RunQueue, curr).s = slice',
                UNCHANGED <<onRq, born, class, weight, quantum>>, curr' \in onRq \cup {Idle}
         PROVE  SliceInv'
  <2>1. slice' = [slice EXCEPT ![curr] = weight[curr]]
    BY <1>turn, SliceOfRequeued
  <2>2. SliceTypeOK'
    BY <1>turn, <2>1 DEF SliceInv, SliceTypeOK
  <2>3. \A u \in Queued' : u # curr =>
          u \in Queued /\ slice'[u] = slice[u] /\ weight'[u] = weight[u]
    BY <1>turn, <2>1 DEF Queued, SliceInv, SliceTypeOK
  <2>4. slice'[curr] = weight'[curr]
    BY <1>turn, <2>1 DEF SliceInv, SliceTypeOK
  <2> QED BY <1>turn, <2>2, <2>3, <2>4, SliceStep
<1>3. CASE Yield
  <2>1. curr \in Tasks /\ onRq \in SUBSET Tasks
    BY <1>3 DEF Yield, SliceInv, SliceTypeOK
  <2>2. UNCHANGED <<onRq, born, class, weight, quantum>> /\ curr' \in onRq \cup {Idle}
    BY <1>3, <1>pick, <2>1 DEF Yield
  <2>3. slice' = slice \/ slice' = Requeued(RunQueue, curr).s
    BY <1>3, SliceOfRunQueue DEF Yield, Becomes
  <2> QED BY <1>same, <1>turn, <2>1, <2>2, <2>3 DEF SliceInv, SliceTypeOK
<1>4. CASE Tick
  <2>1. curr \in Tasks /\ UNCHANGED <<onRq, born, class, weight, quantum, curr>>
        /\ curr' \in onRq \cup {Idle}
    BY <1>4 DEF Tick, SliceInv, SliceTypeOK
  <2>2. CASE slice' = slice
    BY <1>same, <2>1, <2>2 DEF SliceInv, SliceTypeOK
  <2>3. CASE slice' = Requeued(RunQueue, curr).s
    BY <1>turn, <2>1, <2>3
  <2>4. CASE ~(slice[curr] - 1 <= 0) /\ slice' = [slice EXCEPT ![curr] = @ - 1]
    <3>1. slice[curr] \in Int /\ slice'[curr] = slice[curr] - 1 /\ slice'[curr] > 0
      BY <2>1, <2>4 DEF SliceInv, SliceTypeOK
    <3>2. SliceTypeOK'
      BY <2>1, <2>4 DEF SliceInv, SliceTypeOK
    <3>3. ASSUME NEW u \in Queued'
          PROVE  slice'[u] <= weight'[u] /\ (slice'[u] > 0 \/ weight'[u] = 0)
      <4>1. u \in Queued /\ u \in Tasks /\ weight'[u] = weight[u] /\ weight[u] \in Nat
        BY <2>1 DEF Queued, SliceInv, SliceTypeOK
      <4>2. CASE u = curr
        BY <3>1, <4>1, <4>2 DEF SliceInv, SliceReady
      <4>3. CASE u # curr
        <5>1. slice'[u] = slice[u]
          BY <2>4, <4>1, <4>3 DEF SliceInv, SliceTypeOK
        <5> QED BY <4>1, <5>1 DEF SliceInv, SliceReady
      <4> QED BY <4>2, <4>3
    <3> QED BY <3>2, <3>3 DEF SliceInv, SliceReady
  <2> QED BY <1>4, <2>2, <2>3, <2>4 DEF Tick, Becomes
<1>5. ASSUME NEW p \in Tasks, Fork(p) PROVE SliceInv'
  <2>1. PICK c \in Classes :
          /\ class' = [class EXCEPT ![p] = c]
          /\ slice' = [Enqueued(RunQueue, p, c) EXCEPT !.s[p] = quantum].s
    BY <1>5 DEF Fork, Classes, Becomes
  <2>2. onRq' = onRq \cup {p} /\ born' = born \cup {p}
        /\ weight' = [weight EXCEPT ![p] = quantum] /\ UNCHANGED <<curr, quantum>>
    BY <1>5 DEF Fork
  <2>3. [Enqueued(RunQueue, p, c) EXCEPT !.s[p] = quantum].s
          = [Enqueued(RunQueue, p, c).s EXCEPT ![p] = quantum]
    BY DEF Enqueued, RunQueue
  <2>4. slice' = [slice EXCEPT ![p] = quantum]
    <3>1. slice' = IF c = "wrr" THEN [[slice EXCEPT ![p] = weight[p]] EXCEPT ![p] = quantum]
                                ELSE [slice EXCEPT ![p] = quantum]
      <4>1. slice' = [Enqueued(RunQueue, p, c).s EXCEPT ![p] = quantum]
        BY <2>1, <2>3
      <4>2. Enqueued(RunQueue, p, c).s = IF c = "wrr" THEN [slice EXCEPT ![p] = weight[p]] ELSE slice
        <5>1. Enqueued(RunQueue, p, c).s
                = IF c = "wrr" THEN [RunQueue.s EXCEPT ![p] = weight[p]] ELSE RunQueue.s
          BY SliceOps
        <5> QED BY <5>1, SliceOfRunQueue
      <4> QED BY <4>1, <4>2
    <3>2. [[slice EXCEPT ![p] = weight[p]] EXCEPT ![p] = quantum] = [slice EXCEPT ![p] = quantum]
      BY DEF SliceInv, SliceTypeOK
    <3> QED BY <3>1, <3>2
  <2>5. SliceTypeOK'
    <3>1. slice' \in [Tasks -> Int] /\ weight' \in [Tasks -> Nat]
      BY <2>2, <2>4 DEF SliceInv, SliceTypeOK
    <3>2. class' \in [Tasks -> Classes]
      BY <2>1 DEF SliceInv, SliceTypeOK
    <3> QED BY <2>2, <3>1, <3>2 DEF SliceInv, SliceTypeOK
  <2>6. \A u \in Queued' : u # p =>
          u \in Queued /\ slice'[u] = slice[u] /\ weight'[u] = weight[u]
    BY <2>1, <2>2, <2>4 DEF Queued, SliceInv, SliceTypeOK
  <2>7. slice'[p] = weight'[p]
    BY <2>2, <2>4 DEF SliceInv, SliceTypeOK
  <2> QED BY <2>5, <2>6, <2>7, SliceStep
<1>6. ASSUME NEW p \in Tasks, WakeUp(p) PROVE SliceInv'
  <2>1. /\ p \in born /\ class[p] \in Classes /\ class' = [class EXCEPT ![p] = class[p]]
        /\ onRq' = onRq \cup {p} /\ UNCHANGED <<curr, born, weight, quantum>>
    BY <1>6 DEF WakeUp, SliceInv, SliceTypeOK
  <2>2. slice' = Enqueued(RunQueue, p, class[p]).s
    BY <1>6 DEF WakeUp, Becomes
  <2> QED BY <2>1, <2>2, SliceMoves
<1>change. ASSUME NEW p \in born, NEW c \in Classes, ChangeClass(p, c) PROVE SliceInv'
  <2>1. class' = [class EXCEPT ![p] = c] /\ UNCHANGED <<onRq, curr, born, weight, quantum>>
    BY <1>change DEF ChangeClass
  <2>2. CASE p \in onRq
    <3>1. slice' = Enqueued(Dequeued(RunQueue, p, class[p]), p, c).s
      BY <1>change, <2>2 DEF ChangeClass, Becomes
    <3> QED BY <2>1, <2>2, <3>1, SliceMoves
  <2>3. CASE p \notin onRq
    <3>1. slice' = slice
      BY <1>change, <2>3 DEF ChangeClass
    <3>2. SliceTypeOK'
      BY <2>1, <3>1 DEF SliceInv, SliceTypeOK
    <3>3. Queued' = Queued
      BY <2>1, <2>3 DEF Queued, SliceInv, SliceTypeOK
    <3> QED BY <2>1, <3>1, <3>2, <3>3 DEF SliceInv, SliceReady
  <2> QED BY <2>2, <2>3
<1>7. ASSUME NEW p \in Tasks, NEW c \in Classes, SetScheduler(p, c) PROVE SliceInv'
  BY <1>7, <1>change DEF SetScheduler
<1>8. ASSUME NEW p \in Tasks, SetPrio(p) PROVE SliceInv'
  <2>1. PICK c \in Classes : ChangeClass(p, c)
    BY <1>8 DEF SetPrio, Classes
  <2> QED BY <1>8, <1>change, <2>1 DEF SetPrio
<1>9. ASSUME NEW p \in Tasks, SetNice(p) PROVE SliceInv'
  <2>1. /\ p \in born /\ class[p] \in Classes /\ class' = [class EXCEPT ![p] = class[p]]
        /\ onRq' = onRq \cup {p} /\ UNCHANGED <<curr, born, weight, quantum>>
    BY <1>9 DEF SetNice, SliceInv, SliceTypeOK
  <2>2. slice' = Enqueued(Dequeued(RunQueue, p, class[p]), p, class[p]).s
    BY <1>9 DEF SetNice, Becomes
  <2> QED BY <2>1, <2>2, SliceMoves
<1>10. ASSUME NEW n \in Quanta, SetQuantum(n) PROVE SliceInv'
  BY <1>10, <1>same, WeightedAssumption DEF SetQuantum, WeightedAssumption, SliceInv, SliceTypeOK
<1>11. ASSUME NEW p \in Tasks, RrGetInterval(p) PROVE SliceInv'
  BY <1>11, <1>same DEF RrGetInterval, SliceInv, SliceTypeOK
<1>12. CASE Call
  BY <1>12, <1>7, <1>8, <1>9, <1>10, <1>11 DEF Call
<1> QED BY <1>1, <1>2, <1>3, <1>4, <1>5, <1>6, <1>12 DEF Next

(* Whatever the core does, no task waits with a used up slice or with more *)
(* than its weight.                                                        *)
THEOREM SlicesAreReady == Spec => []SliceReady
<1>1. SliceInv => SliceReady
  BY DEF SliceInv
<1> QED BY <1>1, SliceInvInit, SliceInvNext, WeightedAssumption, PTL DEF Spec
=============================================================================
