------------------------ MODULE WeightedRRQueueProofs ------------------------
(***************************************************************************)
(* Proof that the list of OS/pj2/Part2/sched_weighted_rr.c holds exactly   *)
(* the runnable tasks of its class, that nr_running counts them, and that  *)
(* the running one is its head and that turns go round, for any tasks,     *)
(* quanta and calls.                                                       *)
(***************************************************************************)
EXTENDS WeightedRRTurns, WeightedRRProofs, SequenceTheorems

(* A list: nobody is linked twice.                                         *)
Lists == {q \in Seq(Tasks) : IsInjective(q)}

First(q, t) == q # <<>> /\ Head(q) = t

(* list_add_tail                                                           *)
LEMMA Linking ==
  ASSUME NEW q \in Lists, NEW p \in Tasks, p \notin ToSet(q)
  PROVE  /\ Append(q, p) \in Lists
         /\ Len(Append(q, p)) = Len(q) + 1
         /\ ToSet(Append(q, p)) = ToSet(q) \cup {p}
         /\ \A t : First(q, t) => First(Append(q, p), t)
<1> DEFINE r == Append(q, p)
<1>1. /\ q \in Seq(Tasks) /\ Len(q) \in Nat /\ DOMAIN q = 1..Len(q)
      /\ \A k, m \in DOMAIN q : q[k] = q[m] => k = m
      /\ \A k \in DOMAIN q : q[k] # p
  BY DEF Lists, IsInjective, ToSet
<1>2. /\ r \in Seq(Tasks) /\ Len(r) = Len(q) + 1 /\ DOMAIN r = 1..(Len(q) + 1)
      /\ r[Len(q) + 1] = p
      /\ \A k \in 1..Len(q) : r[k] = q[k]
  BY <1>1
<1> HIDE DEF r
<1>3. IsInjective(r)
  <2> SUFFICES ASSUME NEW k \in DOMAIN r, NEW m \in DOMAIN r, r[k] = r[m] PROVE k = m
    BY DEF IsInjective
  <2> QED BY <1>1, <1>2
<1>4. ToSet(r) = ToSet(q) \cup {p}
  <2>1. \A x : x \in ToSet(r) => x \in ToSet(q) \cup {p}
    BY <1>1, <1>2 DEF ToSet
  <2>2. p \in ToSet(r)
    <3>1. Len(q) + 1 \in DOMAIN r
      BY <1>1, <1>2
    <3> QED BY <3>1, <1>2 DEF ToSet
  <2>3. \A x \in ToSet(q) : x \in ToSet(r)
    BY <1>1, <1>2 DEF ToSet
  <2> QED BY <2>1, <2>2, <2>3
<1>5. ASSUME NEW t, First(q, t) PROVE First(r, t)
  <2>1. Len(q) > 0 /\ q[1] = t
    BY <1>1, <1>5 DEF First
  <2> QED BY <1>1, <1>2, <2>1 DEF First
<1> QED BY <1>2, <1>3, <1>4, <1>5 DEF Lists, r

(* list_del                                                                *)
LEMMA Unlinking ==
  ASSUME NEW q \in Lists, NEW p \in ToSet(q)
  PROVE  /\ Unlinked(q, p) \in Lists
         /\ Len(Unlinked(q, p)) = Len(q) - 1
         /\ ToSet(Unlinked(q, p)) = ToSet(q) \ {p}
         /\ \A t : First(q, t) /\ t # p => First(Unlinked(q, p), t)
        /\ \A k \in 1..(Len(q) - 1) :
             Unlinked(q, p)[k] = q[IF k < Place(q, p) THEN k ELSE k + 1]
<1> DEFINE j == Place(q, p)
           r == Unlinked(q, p)
<1>1. /\ q \in Seq(Tasks) /\ Len(q) \in Nat /\ DOMAIN q = 1..Len(q)
      /\ \A k, m \in DOMAIN q : q[k] = q[m] => k = m
  BY DEF Lists, IsInjective
<1>2. j \in DOMAIN q /\ q[j] = p
  BY DEF Place, ToSet
<1> HIDE DEF j
<1>3. j \in Nat /\ 1 <= j /\ j <= Len(q)
  BY <1>1, <1>2
<1> DEFINE before == SubSeq(q, 1, j - 1)
           after  == SubSeq(q, j + 1, Len(q))
<1>4. r = before \o after
  BY DEF Unlinked, RemoveAt, j
<1>5. /\ before \in Seq(Tasks) /\ Len(before) = j - 1
      /\ \A k \in 1..(j - 1) : before[k] = q[k]
  <2>1. \A k \in 1..(j - 1) : q[k] \in Tasks
    BY <1>1, <1>3
  <2>2. /\ before \in Seq(Tasks)
        /\ Len(before) = IF 1 <= j - 1 THEN (j - 1) - 1 + 1 ELSE 0
        /\ \A k \in 1..((j - 1) - 1 + 1) : before[k] = q[1 + k - 1]
    BY <2>1, <1>3, SubSeqProperties
  <2> HIDE DEF before
  <2> QED BY <2>2, <1>3
<1>6. /\ after \in Seq(Tasks) /\ Len(after) = Len(q) - j
      /\ \A k \in 1..(Len(q) - j) : after[k] = q[j + k]
  <2>1. \A k \in (j + 1)..Len(q) : q[k] \in Tasks
    BY <1>1, <1>3
  <2>2. /\ after \in Seq(Tasks)
        /\ Len(after) = IF j + 1 <= Len(q) THEN Len(q) - (j + 1) + 1 ELSE 0
        /\ \A k \in 1..(Len(q) - (j + 1) + 1) : after[k] = q[(j + 1) + k - 1]
    BY <2>1, <1>1, <1>3, SubSeqProperties
  <2> HIDE DEF after
  <2>3. Len(after) = Len(q) - j
    <3>1. j \in Nat /\ Len(q) \in Nat /\ j <= Len(q)
      BY <1>1, <1>3
    <3>2. (IF j + 1 <= Len(q) THEN Len(q) - (j + 1) + 1 ELSE 0) = Len(q) - j
      BY ONLY <3>1
    <3> QED BY <2>2, <3>2
  <2>4. ASSUME NEW k \in 1..(Len(q) - j) PROVE after[k] = q[j + k]
    <3>1. k \in 1..(Len(q) - (j + 1) + 1) /\ (j + 1) + k - 1 = j + k
      BY <1>1, <1>3
    <3> QED BY <2>2, <3>1
  <2> QED BY <2>2, <2>3, <2>4
<1> HIDE DEF r, before, after
<1>12. /\ r \in Seq(Tasks) /\ Len(r) = (j - 1) + (Len(q) - j)
       /\ \A k \in 1..((j - 1) + (Len(q) - j)) :
            r[k] = IF k <= j - 1 THEN before[k] ELSE after[k - (j - 1)]
  <2>1. /\ before \o after \in Seq(Tasks)
        /\ Len(before \o after) = Len(before) + Len(after)
        /\ \A k \in 1..(Len(before) + Len(after)) : (before \o after)[k]
             = IF k <= Len(before) THEN before[k] ELSE after[k - Len(before)]
    BY <1>5, <1>6, ConcatProperties
  <2> QED BY <2>1, <1>4, <1>5, <1>6
<1>7. r \in Seq(Tasks) /\ Len(r) = Len(q) - 1 /\ DOMAIN r = 1..(Len(q) - 1)
  BY <1>12, <1>1, <1>3
<1>8. /\ \A k \in 1..(j - 1) : r[k] = q[k]
      /\ \A k \in j..(Len(q) - 1) : r[k] = q[k + 1]
  <2>1. ASSUME NEW k \in 1..(j - 1) PROVE r[k] = q[k]
    BY <1>1, <1>3, <1>5, <1>12
  <2>2. ASSUME NEW k \in j..(Len(q) - 1) PROVE r[k] = q[k + 1]
    <3>1. r[k] = after[k - (j - 1)]
      BY <1>1, <1>3, <1>12
    <3>2. k - (j - 1) \in 1..(Len(q) - j) /\ j + (k - (j - 1)) = k + 1
      BY <1>1, <1>3
    <3> QED BY <3>1, <3>2, <1>6
  <2> QED BY <2>1, <2>2
<1>9. IsInjective(r)
  <2> SUFFICES ASSUME NEW k \in DOMAIN r, NEW m \in DOMAIN r, r[k] = r[m] PROVE k = m
    BY DEF IsInjective
  <2>1. k \in 1..(Len(q) - 1) /\ m \in 1..(Len(q) - 1)
    BY <1>7
  <2>2. CASE k < j /\ m < j
    BY <2>1, <2>2, <1>1, <1>3, <1>8
  <2>3. CASE k >= j /\ m >= j
    BY <2>1, <2>3, <1>1, <1>3, <1>8
  <2>4. CASE k < j /\ m >= j
    BY <2>1, <2>4, <1>1, <1>3, <1>8
  <2>5. CASE k >= j /\ m < j
    BY <2>1, <2>5, <1>1, <1>3, <1>8
  <2> QED BY <2>1, <2>2, <2>3, <2>4, <2>5, <1>3
<1>10. ToSet(r) = ToSet(q) \ {p}
  <2>1. ASSUME NEW x \in ToSet(r) PROVE x \in ToSet(q) /\ x # p
    <3>1. PICK k \in 1..(Len(q) - 1) : x = r[k]
      BY <1>7 DEF ToSet
    <3>2. PICK m \in DOMAIN q : m # j /\ x = q[m]
      <4>1. CASE k < j
        BY <4>1, <3>1, <1>1, <1>3, <1>8
      <4>2. CASE k >= j
        BY <4>2, <3>1, <1>1, <1>3, <1>8
      <4> QED BY <4>1, <4>2, <1>3
    <3> QED BY <3>2, <1>1, <1>2 DEF ToSet
  <2>2. ASSUME NEW x \in ToSet(q), x # p PROVE x \in ToSet(r)
    <3>1. PICK m \in DOMAIN q : x = q[m]
      BY DEF ToSet
    <3>2. m # j /\ m \in 1..Len(q)
      BY <3>1, <2>2, <1>1, <1>2
    <3>3. PICK k \in DOMAIN r : x = r[k]
      <4>1. CASE m < j
        BY <4>1, <3>1, <3>2, <1>1, <1>3, <1>7, <1>8
      <4>2. CASE m > j
        <5>1. m - 1 \in j..(Len(q) - 1) /\ m - 1 \in DOMAIN r /\ (m - 1) + 1 = m
          BY <4>2, <3>2, <1>1, <1>3, <1>7
        <5>2. r[m - 1] = q[m]
          BY <5>1, <1>8
        <5> QED BY <5>1, <5>2, <3>1
      <4> QED BY <4>1, <4>2, <3>2, <1>3
    <3> QED BY <3>3 DEF ToSet
  <2> QED BY <2>1, <2>2
<1>11. ASSUME NEW t, First(q, t), t # p PROVE First(r, t)
  <2>1. Len(q) > 0 /\ q[1] = t
    BY <1>1, <1>11 DEF First
  <2>2. j # 1
    BY <2>1, <1>2, <1>11
  <2>3. Len(r) > 0 /\ r[1] = t
    BY <2>1, <2>2, <1>1, <1>3, <1>7, <1>8
  <2> QED BY <2>3, <1>7 DEF First
<1>13. \A k \in 1..(Len(q) - 1) : r[k] = q[IF k < j THEN k ELSE k + 1]
  BY <1>1, <1>3, <1>8
<1> QED BY <1>7, <1>9, <1>10, <1>11, <1>13 DEF Lists, r, j
----------------------------------------------------------------------------
(* The operations of the class on a run queue whose list is the set S.     *)
IsQueue(rq, S) == rq.q \in Lists /\ ToSet(rq.q) = S /\ rq.n = Len(rq.q)

LEMMA EnqueuedQueue ==
  ASSUME NEW rq, NEW S, NEW p \in Tasks, NEW c, IsQueue(rq, S), c = "wrr" => p \notin S
  PROVE  /\ IsQueue(Enqueued(rq, p, c), IF c = "wrr" THEN S \cup {p} ELSE S)
         /\ \A t : First(rq.q, t) => First(Enqueued(rq, p, c).q, t)
<1>1. CASE c = "wrr"
  <2>1. Enqueued(rq, p, c).q = Append(rq.q, p) /\ Enqueued(rq, p, c).n = rq.n + 1
    BY <1>1 DEF Enqueued
  <2>2. rq.q \in Lists /\ ToSet(rq.q) = S /\ rq.n = Len(rq.q) /\ p \notin ToSet(rq.q)
    BY <1>1 DEF IsQueue
  <2> QED BY <1>1, <2>1, <2>2, Linking DEF IsQueue
<1>2. CASE c # "wrr"
  BY <1>2 DEF Enqueued
<1> QED BY <1>1, <1>2

LEMMA DequeuedQueue ==
  ASSUME NEW rq, NEW S, NEW p \in Tasks, NEW c, IsQueue(rq, S), c = "wrr" => p \in S
  PROVE  /\ IsQueue(Dequeued(rq, p, c), IF c = "wrr" THEN S \ {p} ELSE S)
         /\ \A t : t # p /\ First(rq.q, t) => First(Dequeued(rq, p, c).q, t)
<1>1. CASE c = "wrr"
  <2>1. Dequeued(rq, p, c).q = Unlinked(rq.q, p) /\ Dequeued(rq, p, c).n = rq.n - 1
    BY <1>1 DEF Dequeued
  <2>2. rq.q \in Lists /\ ToSet(rq.q) = S /\ rq.n = Len(rq.q) /\ p \in ToSet(rq.q)
    BY <1>1 DEF IsQueue
  <2> QED BY <1>1, <2>1, <2>2, Unlinking DEF IsQueue
<1>2. CASE c # "wrr"
  BY <1>2 DEF Dequeued
<1> QED BY <1>1, <1>2

(* list_move_tail                                                          *)
LEMMA RequeuedQueue ==
  ASSUME NEW S, NEW p \in S \cap Tasks, IsQueue(RunQueue, S)
  PROVE  IsQueue(Requeued(RunQueue, p), S)
<1> DEFINE u == Unlinked(queue, p)
<1>1. queue \in Lists /\ ToSet(queue) = S /\ nrRunning = Len(queue) /\ p \in ToSet(queue)
  BY DEF IsQueue, RunQueue
<1>2. u \in Lists /\ Len(u) = Len(queue) - 1 /\ ToSet(u) = S \ {p}
  BY <1>1, Unlinking
<1>3. Requeued(RunQueue, p).q = Append(u, p) /\ Requeued(RunQueue, p).n = nrRunning
  BY DEF Requeued, RunQueue
<1> HIDE DEF u
<1>4. /\ Append(u, p) \in Lists /\ Len(Append(u, p)) = Len(u) + 1
      /\ ToSet(Append(u, p)) = ToSet(u) \cup {p}
  BY <1>2, Linking
<1>5. Len(queue) \in Nat
  BY <1>1 DEF Lists
<1> QED BY <1>1, <1>2, <1>3, <1>4, <1>5 DEF IsQueue
----------------------------------------------------------------------------
(* The invariant: types, the list, and who runs.                           *)
OrderInv ==
  /\ boosted \in [Tasks -> BOOLEAN]
  /\ IsQueue(RunQueue, Queued)
  /\ HeadRuns

LEMMA OrderInit == WeightedAssumption /\ Init => OrderInv
<1> SUFFICES ASSUME WeightedAssumption, Init PROVE OrderInv
  OBVIOUS
<1>1. Queued = {}
  BY DEF Init, Queued, WeightedAssumption
<1>2. <<>> \in Lists /\ ToSet(<<>>) = {} /\ Len(<<>>) = 0
  BY DEF Lists, IsInjective, ToSet
<1> QED BY <1>1, <1>2 DEF Init, OrderInv, IsQueue, RunQueue, HeadRuns

(* A step that leaves the processor alone keeps its task at the head, if   *)
(* it keeps it in the list at all.                                         *)
LEMMA HeadKept ==
  ASSUME OrderInv, ~oops, UNCHANGED curr, ~resched' => ~resched,
         \/ resched' \/ oops' \/ curr \notin Queued' \/ boosted'[curr]
         \/ curr \in Queued /\ ~boosted[curr] /\ (First(queue, curr) => First(queue', curr))
  PROVE  HeadRuns'
<1>1. curr \in Queued => queue # <<>>
  <2>1. ToSet(queue) = Queued
    BY DEF OrderInv, IsQueue, RunQueue
  <2>2. queue = <<>> => ToSet(queue) = {}
    BY DEF ToSet
  <2> QED BY <2>1, <2>2
<1> QED BY <1>1 DEF OrderInv, HeadRuns, First

(* The core picks the head of the list, if it picks a task of the class.   *)
LEMMA HeadPicked ==
  ASSUME WeightedAssumption, NEW q, NEW ready \in SUBSET Tasks, SwitchTo(q, ready),
         onRq' = ready, UNCHANGED class, queue' = q
  PROVE  HeadRuns'
  BY DEF WeightedAssumption, SwitchTo, PickNext, HeadRuns, Queued

(* p leaves the list of its class and joins that of class c.               *)
LEMMA Moved ==
  ASSUME SchedInv, OrderInv, NEW p \in onRq, NEW c \in Classes,
         Becomes(Enqueued(Dequeued(RunQueue, p, class[p]), p, c)),
         class' = [class EXCEPT ![p] = c], UNCHANGED onRq
  PROVE  /\ IsQueue(RunQueue, Queued)'
         /\ \A t : t # p /\ First(queue, t) => First(queue', t)
<1> DEFINE out == Dequeued(RunQueue, p, class[p])
           T == IF class[p] = "wrr" THEN Queued \ {p} ELSE Queued
<1>1. p \in Tasks /\ (class[p] = "wrr" <=> p \in Queued)
  BY DEF SchedInv, SchedTypeOK, Queued
<1>2. IsQueue(out, T) /\ \A t : t # p /\ First(queue, t) => First(out.q, t)
  BY <1>1, DequeuedQueue DEF OrderInv, RunQueue
<1>3. p \notin T
  BY <1>1
<1> HIDE DEF out, T
<1>4. /\ IsQueue(Enqueued(out, p, c), IF c = "wrr" THEN T \cup {p} ELSE T)
      /\ \A t : First(out.q, t) => First(Enqueued(out, p, c).q, t)
  BY <1>1, <1>2, <1>3, EnqueuedQueue
<1>5. Queued' = IF c = "wrr" THEN T \cup {p} ELSE T
  BY DEF T, Queued, SchedInv, SchedTypeOK
<1>6. queue' = Enqueued(out, p, c).q /\ nrRunning' = Enqueued(out, p, c).n
  BY DEF Becomes, out
<1>7. RunQueue'.q = queue' /\ RunQueue'.n = nrRunning'
  BY DEF RunQueue
<1> QED BY <1>2, <1>4, <1>5, <1>6, <1>7 DEF IsQueue

(* A task joins the list, or does not belong to it.                        *)
LEMMA Joined ==
  ASSUME SchedInv, OrderInv, NEW p \in Tasks \ onRq, NEW c \in Classes,
         queue' = Enqueued(RunQueue, p, c).q, nrRunning' = Enqueued(RunQueue, p, c).n,
         class' = [class EXCEPT ![p] = c], onRq' = onRq \cup {p}
  PROVE  /\ IsQueue(RunQueue, Queued)'
         /\ \A t : First(queue, t) => First(queue', t)
<1>1. p \notin Queued
  BY DEF Queued
<1>2. /\ IsQueue(Enqueued(RunQueue, p, c), IF c = "wrr" THEN Queued \cup {p} ELSE Queued)
      /\ \A t : First(queue, t) => First(Enqueued(RunQueue, p, c).q, t)
  BY <1>1, EnqueuedQueue DEF OrderInv, RunQueue
<1>3. Queued' = IF c = "wrr" THEN Queued \cup {p} ELSE Queued
  BY DEF Queued, SchedInv, SchedTypeOK
<1>4. RunQueue'.q = queue' /\ RunQueue'.n = nrRunning'
  BY DEF RunQueue
<1> QED BY <1>2, <1>3, <1>4 DEF IsQueue

(* check_preempt_curr takes no pending reschedule back.                    *)
LEMMA PreemptKeeps ==
  ASSUME SchedInv, NEW p, NEW c, CheckPreempt(p, c)
  PROVE  resched' \in {resched, TRUE}
  BY DEF CheckPreempt

LEMMA OrderChangeClass ==
  ASSUME WeightedAssumption, SchedInv, OrderInv, ~oops, NEW p \in born, NEW c \in Classes,
         ChangeClass(p, c), boosted' \in [Tasks -> BOOLEAN],
         \A t \in Tasks : t # p => boosted'[t] = boosted[t]
  PROVE  OrderInv'
<1>0. class' = [class EXCEPT ![p] = c] /\ UNCHANGED <<onRq, curr>> /\ p \in Tasks
  BY DEF ChangeClass, SchedInv, SchedTypeOK
<1>1. CASE p \notin onRq
  <2>1. UNCHANGED <<queue, nrRunning, slice, resched, oops>> /\ p # curr
    BY <1>1, WeightedAssumption DEF ChangeClass, SchedInv, SchedTypeOK
  <2>2. Queued' = Queued
    BY <1>0, <1>1 DEF Queued, SchedInv, SchedTypeOK
  <2>3. IsQueue(RunQueue, Queued)'
    BY <2>1, <2>2 DEF OrderInv, IsQueue, RunQueue
  <2>4. curr \in Queued => boosted'[curr] = boosted[curr]
    BY <2>1 DEF Queued, SchedInv, SchedTypeOK
  <2>5. HeadRuns'
    BY <1>0, <2>1, <2>2, <2>4, HeadKept
  <2> QED BY <2>3, <2>5 DEF OrderInv
<1>2. CASE p \in onRq
  <2>1. /\ IsQueue(RunQueue, Queued)'
        /\ \A t : t # p /\ First(queue, t) => First(queue', t)
    BY <1>0, <1>2, Moved DEF ChangeClass
  <2>2. CheckClassChanged(p, c)
    BY <1>2 DEF ChangeClass
  <2>3. CASE p # curr
    <3>1. resched' \in {resched, TRUE}
      BY <2>2, <2>3, PreemptKeeps DEF CheckClassChanged
    <3>2. curr \in Queued' => curr \in Queued /\ boosted'[curr] = boosted[curr]
      BY <1>0, <2>3 DEF Queued, SchedInv, SchedTypeOK
    <3>3. HeadRuns'
      <4>1. First(queue, curr) => First(queue', curr)
        BY <2>1, <2>3
      <4>2. ~resched' => ~resched
        BY <3>1
      <4> QED BY <1>0, <3>2, <4>1, <4>2, HeadKept
    <3> QED BY <2>1, <3>3 DEF OrderInv
  <2>4. CASE p = curr
    <3>1. /\ resched' \in IF class[p] # c /\ c # "rt" THEN {TRUE} ELSE {resched, TRUE}
          /\ oops' = (class[p] = c /\ c = "wrr")
      BY <2>2, <2>4 DEF CheckClassChanged
    <3>2. curr \in Queued' => c = "wrr"
      BY <1>0, <2>4 DEF Queued, SchedInv, SchedTypeOK
    <3>3. resched' \/ oops' \/ curr \notin Queued'
      BY <3>1, <3>2
    <3>4. HeadRuns'
      BY <1>0, <3>3 DEF HeadRuns
    <3> QED BY <2>1, <3>4 DEF OrderInv
  <2> QED BY <2>3, <2>4
<1> QED BY <1>1, <1>2

(* One step per operation of the core.                                     *)
LEMMA OrderNext ==
  ASSUME WeightedAssumption, SchedInv, OrderInv, [Next]_vars
  PROVE  OrderInv'
<1> USE DEF policyVars, rqVars
<1>same. ASSUME UNCHANGED <<queue, nrRunning, onRq, class, boosted, curr>>, ~oops,
                ~resched' => ~resched
         PROVE  OrderInv'
  <2>1. Queued' = Queued
    BY <1>same DEF Queued
  <2>2. IsQueue(RunQueue, Queued)'
    BY <1>same, <2>1 DEF OrderInv, IsQueue, RunQueue
  <2>3. HeadRuns'
    BY <1>same, <2>1, HeadKept
  <2> QED BY <1>same, <2>2, <2>3 DEF OrderInv
<1>a. CASE UNCHANGED vars
  <2>1. Queued' = Queued
    BY <1>a DEF vars, Queued
  <2> QED BY <1>a, <2>1 DEF vars, OrderInv, IsQueue, RunQueue, HeadRuns
<1> SUFFICES ASSUME Next PROVE OrderInv'
  BY <1>a
<1>0. ~oops
  BY DEF Next
<1>t. /\ onRq \in SUBSET Tasks /\ IsQueue(RunQueue, Queued)
      /\ curr # Idle => curr \in onRq /\ curr \in Tasks /\ (curr \in Queued <=> class[curr] = "wrr")
  BY DEF SchedInv, SchedTypeOK, OrderInv, Queued
<1>r. RunQueue'.q = queue' /\ RunQueue'.n = nrRunning'
  BY DEF RunQueue
<1>1. CASE Block
  <2> DEFINE rq == Dequeued(RunQueue, curr, class[curr])
             S == IF class[curr] = "wrr" THEN Queued \ {curr} ELSE Queued
  <2>1. IsQueue(rq, S)
    BY <1>1, <1>t, DequeuedQueue DEF Block
  <2>2. /\ queue' = rq.q /\ nrRunning' = rq.n /\ onRq' = onRq \ {curr}
        /\ SwitchTo(rq.q, onRq') /\ UNCHANGED <<class, boosted>>
    BY <1>1 DEF Block, Becomes
  <2>3. Queued' = S
    BY <1>1, <1>t, <2>2 DEF Block, Queued
  <2>4. IsQueue(RunQueue, Queued)'
    BY <1>r, <2>1, <2>2, <2>3 DEF IsQueue
  <2>5. HeadRuns'
    <3>1. onRq \ {curr} \in SUBSET Tasks
      BY <1>t
    <3> QED BY <2>2, <3>1, HeadPicked
  <2> QED BY <2>2, <2>4, <2>5 DEF OrderInv
<1>2. CASE Resched
  <2>1. UNCHANGED <<queue, nrRunning, onRq, class, boosted>> /\ SwitchTo(queue, onRq)
    BY <1>2 DEF Resched
  <2>2. Queued' = Queued
    BY <2>1 DEF Queued
  <2>3. HeadRuns'
    BY <1>t, <2>1, HeadPicked
  <2> QED BY <1>t, <1>r, <2>1, <2>2, <2>3 DEF OrderInv, IsQueue, RunQueue
<1>3. CASE Yield
  <2>1. UNCHANGED <<onRq, class, boosted>> /\ curr # Idle
    BY <1>3 DEF Yield
  <2>2. Queued' = Queued
    BY <2>1 DEF Queued
  <2>3. PICK rq : /\ rq = IF class[curr] = "wrr" THEN Requeued(RunQueue, curr) ELSE RunQueue
                  /\ Becomes(rq) /\ SwitchTo(rq.q, onRq)
    BY <1>3 DEF Yield
  <2>4. IsQueue(rq, Queued)
    BY <1>t, <2>1, <2>3, RequeuedQueue
  <2>5. IsQueue(RunQueue, Queued)'
    BY <1>r, <2>2, <2>3, <2>4 DEF IsQueue, Becomes
  <2>6. HeadRuns'
    BY <1>t, <2>1, <2>3, HeadPicked DEF Becomes
  <2> QED BY <2>1, <2>5, <2>6 DEF OrderInv
<1>4. CASE Tick
  <2>1. UNCHANGED <<onRq, class, boosted, curr>> /\ curr # Idle
    BY <1>4 DEF Tick
  <2>2. Queued' = Queued
    BY <2>1 DEF Queued
  <2>3. CASE Becomes(Requeued(RunQueue, curr)) /\ resched' = TRUE /\ class[curr] = "wrr"
    <3>1. IsQueue(Requeued(RunQueue, curr), Queued)
      BY <1>t, <2>1, <2>3, RequeuedQueue
    <3>2. IsQueue(RunQueue, Queued)'
      BY <1>r, <2>2, <2>3, <3>1 DEF IsQueue, Becomes
    <3>3. HeadRuns'
      BY <2>3 DEF HeadRuns
    <3> QED BY <2>1, <3>2, <3>3 DEF OrderInv
  <2>4. CASE UNCHANGED <<queue, nrRunning>> /\ (~resched' => ~resched)
    BY <1>0, <1>same, <2>1, <2>4
  <2> QED BY <1>4, <2>3, <2>4 DEF Tick
<1>5. ASSUME NEW p \in Tasks, Fork(p) PROVE OrderInv'
  <2>1. PICK c \in Classes :
          /\ class' = [class EXCEPT ![p] = c]
          /\ Becomes([Enqueued(RunQueue, p, c) EXCEPT !.s[p] = quantum])
          /\ CheckPreempt(p, c)
    BY <1>5 DEF Fork, Classes
  <2>2. /\ p \notin onRq /\ onRq' = onRq \cup {p} /\ UNCHANGED <<curr, boosted>>
        /\ p # curr
    BY <1>5, WeightedAssumption DEF Fork, SchedInv, SchedTypeOK
  <2>3. queue' = Enqueued(RunQueue, p, c).q /\ nrRunning' = Enqueued(RunQueue, p, c).n
    BY <2>1 DEF Becomes, Enqueued, RunQueue
  <2>4. /\ IsQueue(RunQueue, Queued)'
        /\ \A t : First(queue, t) => First(queue', t)
    BY <2>1, <2>2, <2>3, Joined
  <2>5. curr \in Queued' => curr \in Queued
    BY <2>1, <2>2 DEF Queued, SchedInv, SchedTypeOK
  <2>6. HeadRuns'
    BY <1>0, <2>1, <2>2, <2>4, <2>5, PreemptKeeps, HeadKept
  <2> QED BY <2>2, <2>4, <2>6 DEF OrderInv
<1>6. ASSUME NEW p \in Tasks, WakeUp(p) PROVE OrderInv'
  <2>1. /\ class[p] \in Classes /\ class' = [class EXCEPT ![p] = class[p]]
        /\ CheckPreempt(p, class[p]) /\ class' = class
    BY <1>6 DEF WakeUp, SchedInv, SchedTypeOK
  <2>2. /\ p \notin onRq /\ onRq' = onRq \cup {p} /\ UNCHANGED <<curr, boosted>>
        /\ p # curr
    BY <1>6, WeightedAssumption DEF WakeUp, SchedInv, SchedTypeOK
  <2>3. queue' = Enqueued(RunQueue, p, class[p]).q /\ nrRunning' = Enqueued(RunQueue, p, class[p]).n
    BY <1>6 DEF WakeUp, Becomes
  <2>4. /\ IsQueue(RunQueue, Queued)'
        /\ \A t : First(queue, t) => First(queue', t)
    BY <2>1, <2>2, <2>3, Joined
  <2>5. curr \in Queued' => curr \in Queued
    BY <2>1, <2>2 DEF Queued
  <2>6. HeadRuns'
    BY <1>0, <2>1, <2>2, <2>4, <2>5, PreemptKeeps, HeadKept
  <2> QED BY <2>2, <2>4, <2>6 DEF OrderInv
<1>7. ASSUME NEW p \in Tasks, NEW c \in Classes, SetScheduler(p, c) PROVE OrderInv'
  BY <1>0, <1>7, OrderChangeClass DEF SetScheduler, OrderInv
<1>8. ASSUME NEW p \in Tasks, SetPrio(p) PROVE OrderInv'
  <2>1. PICK c \in Classes : ChangeClass(p, c)
    BY <1>8 DEF SetPrio, Classes
  <2>2. p \in born /\ boosted' \in [Tasks -> BOOLEAN]
        /\ \A t \in Tasks : t # p => boosted'[t] = boosted[t]
    BY <1>8 DEF SetPrio, OrderInv
  <2> QED BY <1>0, <2>1, <2>2, OrderChangeClass
<1>9. ASSUME NEW p \in Tasks, SetNice(p) PROVE OrderInv'
  <2>1. /\ p \in onRq /\ class[p] \in Classes /\ class' = [class EXCEPT ![p] = class[p]]
        /\ UNCHANGED <<onRq, curr, class, boosted>>
        /\ Becomes(Enqueued(Dequeued(RunQueue, p, class[p]), p, class[p]))
        /\ resched' \in IF boosted[p] THEN {resched} ELSE IF p = curr THEN {TRUE} ELSE {resched, TRUE}
    BY <1>9 DEF SetNice, SchedInv, SchedTypeOK
  <2>2. /\ IsQueue(RunQueue, Queued)'
        /\ \A t : t # p /\ First(queue, t) => First(queue', t)
    BY <2>1, Moved
  <2>3. Queued' = Queued
    BY <2>1 DEF Queued
  <2>4. ~resched' => ~resched
    BY <2>1
  <2>5. HeadRuns'
    <3>1. CASE p = curr
      <4>1. resched' \/ boosted'[curr]
        BY <2>1, <3>1
      <4> QED BY <2>1, <4>1 DEF HeadRuns
    <3>2. CASE p # curr
      <4>1. First(queue, curr) => First(queue', curr)
        BY <2>2, <3>2
      <4>2. boosted' = boosted /\ curr' = curr
        BY <2>1
      <4> QED BY <1>0, <2>3, <2>4, <4>1, <4>2, HeadKept
    <3> QED BY <3>1, <3>2
  <2> QED BY <2>1, <2>2, <2>5 DEF OrderInv
<1>10. ASSUME NEW n \in Quanta, SetQuantum(n) PROVE OrderInv'
  BY <1>0, <1>10, <1>same DEF SetQuantum
<1>11. ASSUME NEW p \in Tasks, RrGetInterval(p) PROVE OrderInv'
  BY <1>0, <1>11, <1>same DEF RrGetInterval
<1>12. CASE Call
  BY <1>12, <1>7, <1>8, <1>9, <1>10, <1>11 DEF Call
<1> QED BY <1>1, <1>2, <1>3, <1>4, <1>5, <1>6, <1>12 DEF Next

(* The list and the order in which it is served hold in every reachable    *)
(* state.                                                                  *)
THEOREM OrderInvariant == Spec => [](SchedInv /\ OrderInv)
<1>1. Init => SchedInv /\ OrderInv
  BY SchedInvInit, OrderInit, WeightedAssumption
<1>2. SchedInv /\ OrderInv /\ [Next]_vars => (SchedInv /\ OrderInv)'
  BY SchedInvNext, OrderNext, WeightedAssumption
<1> QED BY <1>1, <1>2, PTL DEF Spec

(* The list holds the runnable tasks of the class, once each, and          *)
(* nr_running counts them; so list_del only ever meets a linked task.      *)
THEOREM ListIsExact == Spec => []QueueExact
<1>1. SchedInv /\ OrderInv => QueueExact
  BY DEF SchedInv, SchedTypeOK, OrderInv, IsQueue, RunQueue, Lists, QueueExact
<1> QED BY <1>1, OrderInvariant, PTL

(* The running task of the class is the head of the list, unless a         *)
(* reschedule is pending or its priority is lent.                          *)
THEOREM TheHeadRuns == Spec => []HeadRuns
<1>1. OrderInv => HeadRuns
  BY DEF OrderInv
<1> QED BY <1>1, OrderInvariant, PTL
----------------------------------------------------------------------------
(* Places in the list.                                                     *)
LEMMA PlaceFacts ==
  ASSUME NEW q \in Lists, NEW t \in ToSet(q)
  PROVE  /\ Len(q) \in Nat /\ Place(q, t) \in 1..Len(q) /\ q[Place(q, t)] = t
         /\ \A k \in 1..Len(q) : q[k] = t => k = Place(q, t)
<1>1. Len(q) \in Nat /\ DOMAIN q = 1..Len(q) /\ \A k, m \in DOMAIN q : q[k] = q[m] => k = m
  BY DEF Lists, IsInjective
<1>2. Place(q, t) \in DOMAIN q /\ q[Place(q, t)] = t
  BY DEF Place, ToSet
<1> QED BY <1>1, <1>2

LEMMA PlacesAppended ==
  ASSUME NEW u \in Lists, NEW p \in Tasks, p \notin ToSet(u)
  PROVE  /\ Place(Append(u, p), p) = Len(u) + 1
         /\ \A t \in ToSet(u) : Place(Append(u, p), t) = Place(u, t)
<1> DEFINE r == Append(u, p)
<1>1. r \in Lists /\ Len(r) = Len(u) + 1 /\ ToSet(r) = ToSet(u) \cup {p}
  BY Linking
<1>2. /\ u \in Seq(Tasks) /\ Len(u) \in Nat
      /\ r[Len(u) + 1] = p /\ \A k \in 1..Len(u) : r[k] = u[k]
  BY DEF Lists
<1> HIDE DEF r
<1>3. Place(r, p) = Len(u) + 1
  BY <1>1, <1>2, PlaceFacts
<1>4. ASSUME NEW t \in ToSet(u) PROVE Place(r, t) = Place(u, t)
  <2>1. Place(u, t) \in 1..Len(u) /\ u[Place(u, t)] = t
    BY PlaceFacts
  <2>2. Place(u, t) \in 1..Len(r) /\ r[Place(u, t)] = t
    BY <1>1, <1>2, <2>1
  <2> QED BY <1>1, <2>2, PlaceFacts
<1> QED BY <1>3, <1>4 DEF r

(* u is q without p, the others in their order.                            *)
Drops(q, u, p) ==
  /\ u \in Lists /\ ToSet(u) = ToSet(q) \ {p}
  /\ Len(u) = Len(q) - (IF p \in ToSet(q) THEN 1 ELSE 0)
  /\ \A s, t \in ToSet(u) : Place(q, s) < Place(q, t) => Place(u, s) < Place(u, t)

(* r is q but for p, which has left or stands at the tail.                 *)
Retailed(q, r, p) == \E u : Drops(q, u, p) /\ r \in {u, Append(u, p)}

LEMMA SameDrops ==
  ASSUME NEW q \in Lists, NEW p, p \notin ToSet(q) PROVE Drops(q, q, p)
<1>1. Len(q) \in Nat
  BY DEF Lists
<1> QED BY <1>1 DEF Drops

LEMMA UnlinkedDrops ==
  ASSUME NEW q \in Lists, NEW p \in ToSet(q) PROVE Drops(q, Unlinked(q, p), p)
<1> DEFINE u == Unlinked(q, p)
           j == Place(q, p)
<1>1. /\ u \in Lists /\ Len(u) = Len(q) - 1 /\ ToSet(u) = ToSet(q) \ {p}
      /\ \A k \in 1..(Len(q) - 1) : u[k] = q[IF k < j THEN k ELSE k + 1]
  BY Unlinking
<1>2. j \in 1..Len(q) /\ q[j] = p /\ Len(q) \in Nat
  BY PlaceFacts
<1> HIDE DEF u, j
<1>3. ASSUME NEW t \in ToSet(u)
      PROVE  /\ Place(u, t) \in Nat
             /\ Place(q, t) = IF Place(u, t) < j THEN Place(u, t) ELSE Place(u, t) + 1
  <2> DEFINE k == Place(u, t)
             m == IF k < j THEN k ELSE k + 1
  <2>1. k \in 1..(Len(q) - 1) /\ u[k] = t
    BY <1>1, PlaceFacts
  <2>2. q[m] = t
    BY <1>1, <2>1
  <2> HIDE DEF k
  <2>3. m \in 1..Len(q) /\ k \in Nat
    BY <1>2, <2>1
  <2>4. t \in ToSet(q)
    BY <1>1
  <2> HIDE DEF m
  <2>5. m = Place(q, t)
    BY <2>2, <2>3, <2>4, PlaceFacts
  <2> QED BY <2>3, <2>5 DEF m, k
<1>4. ASSUME NEW s \in ToSet(u), NEW t \in ToSet(u), Place(q, s) < Place(q, t)
      PROVE  Place(u, s) < Place(u, t)
  BY <1>2, <1>3, <1>4
<1> QED BY <1>1, <1>4 DEF Drops, u

(* Who does not go back keeps the others that stand behind it behind it,   *)
(* and gets the one that is moved behind it.                               *)
LEMMA BehindStays ==
  ASSUME NEW q \in Lists, NEW r, NEW m \in Tasks, Retailed(q, r, m),
         NEW p \in ToSet(q) \cap ToSet(r), NEW t \in ToSet(r), p # t,
         Place(r, p) <= Place(q, p),
         t = m \/ (t \in ToSet(q) => Place(q, p) < Place(q, t))
  PROVE  Place(r, p) < Place(r, t)
<1>1. PICK u : Drops(q, u, m) /\ r \in {u, Append(u, m)}
  BY DEF Retailed
<1>2. /\ u \in Lists /\ ToSet(u) = ToSet(q) \ {m} /\ Len(q) \in Nat
      /\ Len(u) = Len(q) - (IF m \in ToSet(q) THEN 1 ELSE 0)
      /\ \A x, y \in ToSet(u) : Place(q, x) < Place(q, y) => Place(u, x) < Place(u, y)
  BY <1>1, PlaceFacts DEF Drops
<1>3. Len(u) \in Nat /\ \A x \in ToSet(u) : Place(u, x) \in 1..Len(u)
  BY <1>2, PlaceFacts DEF Lists
<1>4. /\ Place(Append(u, m), m) = Len(u) + 1
      /\ \A x \in ToSet(u) : Place(Append(u, m), x) = Place(u, x)
      /\ ToSet(Append(u, m)) = ToSet(u) \cup {m}
  BY <1>2, PlacesAppended, Linking
<1>5. CASE t = m
  <2>1. p \in ToSet(u) /\ r = Append(u, m)
    BY <1>1, <1>2, <1>5
  <2> QED BY <1>3, <1>4, <1>5, <2>1
<1>6. CASE p = m
  <2>1. t \in ToSet(u) /\ t \in ToSet(q) /\ r = Append(u, m)
    BY <1>1, <1>2, <1>4, <1>6
  <2>2. Place(r, p) = Len(q)
    BY <1>2, <1>4, <1>6, <2>1
  <2>3. Place(q, p) < Place(q, t) /\ Place(q, p) \in 1..Len(q) /\ Place(q, t) \in 1..Len(q)
    BY <1>6, <2>1, PlaceFacts
  <2> QED BY <1>2, <2>2, <2>3
<1>7. CASE p # m /\ t # m
  <2>1. p \in ToSet(u) /\ t \in ToSet(u) /\ t \in ToSet(q)
    BY <1>1, <1>2, <1>4, <1>7
  <2>2. Place(u, p) < Place(u, t)
    BY <1>2, <1>7, <2>1
  <2> QED BY <1>1, <1>4, <2>1, <2>2
<1> QED BY <1>5, <1>6, <1>7
----------------------------------------------------------------------------
(* Turns.  A task of the class has the policy of the class.                *)
PolicyFits == \A p \in Tasks : class[p] = "wrr" => policy[p] = "wrr"

(* Who has finished a turn since p took its place stands behind p.         *)
TurnInv ==
  /\ PolicyFits
  /\ \A p, t \in Queued : (t \in had[p] /\ t # p) => Place(queue, p) < Place(queue, t)

LEMMA PolicyFitsNext ==
  ASSUME WeightedAssumption, SchedInv, PolicyFits, [Next]_vars
  PROVE  PolicyFits'
<1> USE DEF policyVars, rqVars
<1>1. /\ class \in [Tasks -> Classes] /\ policy \in [Tasks -> Classes]
      /\ curr # Idle => curr \in Tasks
  BY DEF SchedInv, SchedTypeOK
<1>2. CASE UNCHANGED <<policy, class>>
  BY <1>2 DEF PolicyFits
<1>3. ASSUME NEW p \in Tasks, Fork(p) PROVE PolicyFits'
  BY <1>1, <1>3 DEF PolicyFits, Fork, Classes
<1>4. ASSUME NEW p \in Tasks, NEW c \in Classes, SetScheduler(p, c) PROVE PolicyFits'
  BY <1>1, <1>4 DEF PolicyFits, SetScheduler, ChangeClass
<1>5. ASSUME NEW p \in Tasks, SetPrio(p) PROVE PolicyFits'
  BY <1>1, <1>5 DEF PolicyFits, SetPrio, ChangeClass
<1>6. CASE Call
  BY <1>2, <1>4, <1>5, <1>6 DEF Call, SetNice, SetQuantum, RrGetInterval
<1> QED BY <1>2, <1>3, <1>6 DEF Next, vars, Block, Resched, Yield, Tick, WakeUp

LEMMA MovedRetails ==
  ASSUME SchedInv, OrderInv, NEW p \in onRq, NEW c,
         Becomes(Enqueued(Dequeued(RunQueue, p, class[p]), p, c))
  PROVE  Retailed(queue, queue', p)
<1>1. queue \in Lists /\ ToSet(queue) = Queued
  BY DEF OrderInv, IsQueue, RunQueue
<1>2. PICK u : Drops(queue, u, p) /\ Dequeued(RunQueue, p, class[p]).q = u
  <2>1. CASE class[p] = "wrr"
    <3>1. p \in ToSet(queue) /\ Dequeued(RunQueue, p, class[p]).q = Unlinked(queue, p)
      BY <1>1, <2>1 DEF Queued, Dequeued, RunQueue
    <3> QED BY <1>1, <3>1, UnlinkedDrops
  <2>2. CASE class[p] # "wrr"
    <3>1. p \notin ToSet(queue) /\ Dequeued(RunQueue, p, class[p]).q = queue
      BY <1>1, <2>2 DEF Queued, Dequeued, RunQueue
    <3> QED BY <1>1, <3>1, SameDrops
  <2> QED BY <2>1, <2>2
<1>3. queue' \in {u, Append(u, p)}
  BY <1>2 DEF Becomes, Enqueued
<1> QED BY <1>2, <1>3 DEF Retailed

(* Every step changes the list by one task at most, the one that finishes  *)
(* its turn if one does.                                                   *)
LEMMA ListStep ==
  ASSUME WeightedAssumption, SchedInv, OrderInv, PolicyFits, Next
  PROVE  \/ queue' = queue /\ ~TurnOver
         \/ \E m \in Tasks : Retailed(queue, queue', m) /\ (TurnOver => m = curr)
<1> USE DEF policyVars, rqVars
<1>1. /\ queue \in Lists /\ ToSet(queue) = Queued /\ onRq \subseteq Tasks
      /\ curr # Idle => curr \in onRq
  BY DEF OrderInv, IsQueue, RunQueue, SchedInv, SchedTypeOK
<1>2. ASSUME curr \in Queued, Becomes(Requeued(RunQueue, curr))
      PROVE  Retailed(queue, queue', curr)
  <2>1. queue' = Append(Unlinked(queue, curr), curr)
    BY <1>2 DEF Becomes, Requeued, RunQueue
  <2> QED BY <1>1, <1>2, <2>1, UnlinkedDrops DEF Retailed
<1>3. CASE TurnOver
  <2>1. curr \in Queued /\ curr \in Tasks /\ class[curr] = "wrr" /\ policy[curr] = "wrr"
    BY <1>1, <1>3 DEF TurnOver, Queued, PolicyFits
  <2>2. Becomes(Requeued(RunQueue, curr))
    <3>1. CASE Yield
      BY <2>1, <3>1 DEF Yield
    <3>2. CASE Tick /\ slice[curr] - 1 <= 0
      BY <2>1, <3>2 DEF Tick
    <3> QED BY <1>3, <3>1, <3>2 DEF TurnOver
  <2> QED BY <1>2, <2>1, <2>2
<1>4. CASE ~TurnOver
  <2> SUFFICES queue' = queue \/ \E m \in Tasks : Retailed(queue, queue', m)
    BY <1>4
  <2>1. CASE Block
    <3>1. curr \in onRq /\ Becomes(Dequeued(RunQueue, curr, class[curr]))
      BY <1>1, <2>1 DEF Block
    <3>2. Enqueued(Dequeued(RunQueue, curr, class[curr]), curr, "rt")
            = Dequeued(RunQueue, curr, class[curr])
      BY DEF Enqueued
    <3> QED BY <1>1, <3>1, <3>2, MovedRetails
  <2>2. CASE Resched \/ UNCHANGED queue
    BY <2>2 DEF Resched
  <2>3. CASE Yield \/ Tick
    <3>1. UNCHANGED queue \/ (curr \in Queued /\ Becomes(Requeued(RunQueue, curr)))
      BY <1>1, <2>3 DEF Yield, Tick, Becomes, RunQueue, Queued
    <3> QED BY <1>1, <1>2, <3>1 DEF Queued
  <2>4. ASSUME NEW p \in Tasks, Fork(p) \/ WakeUp(p)
        PROVE  Retailed(queue, queue', p)
    <3>1. p \notin ToSet(queue)
      BY <1>1, <2>4 DEF Fork, WakeUp, Queued, SchedInv, SchedTypeOK
    <3>2. queue' \in {queue, Append(queue, p)}
      BY <2>4 DEF Fork, WakeUp, Becomes, Enqueued, RunQueue
    <3> QED BY <1>1, <3>1, <3>2, SameDrops DEF Retailed
  <2>5. ASSUME NEW p \in Tasks, NEW c, ChangeClass(p, c)
        PROVE  queue' = queue \/ Retailed(queue, queue', p)
    BY <2>5, MovedRetails DEF ChangeClass
  <2>6. ASSUME NEW p \in Tasks, SetNice(p)
        PROVE  Retailed(queue, queue', p)
    BY <2>6, MovedRetails DEF SetNice
  <2>7. CASE Call
    BY <2>5, <2>6, <2>7 DEF Call, SetPrio, SetScheduler, SetQuantum, RrGetInterval
  <2> QED BY <2>1, <2>2, <2>3, <2>4, <2>7 DEF Next
<1> QED BY <1>3, <1>4

LEMMA TurnStep ==
  ASSUME WeightedAssumption, SchedInv, OrderInv, TurnInv, [TurnNext]_turnVars
  PROVE  TurnInv'
<1>1. [Next]_vars
  BY DEF TurnNext, turnVars
<1>2. PolicyFits' /\ OrderInv'
  BY <1>1, PolicyFitsNext, OrderNext DEF TurnInv
<1>3. CASE UNCHANGED turnVars
  <2>1. Queued' = Queued /\ queue' = queue /\ had' = had
    BY <1>3 DEF turnVars, vars, rqVars, policyVars, Queued
  <2> QED BY <1>2, <2>1 DEF TurnInv
<1>4. CASE TurnNext
  <2> SUFFICES ASSUME NEW p \in Queued', NEW t \in Queued', t \in had'[p], t # p
               PROVE  Place(queue', p) < Place(queue', t)
    BY <1>2 DEF TurnInv
  <2>1. /\ queue \in Lists /\ ToSet(queue) = Queued
        /\ queue' \in Lists /\ ToSet(queue') = Queued'
    BY <1>2 DEF OrderInv, IsQueue, RunQueue
  <2>2. p \in Tasks
    BY <1>4, SchedInvNext DEF TurnNext, SchedInv, SchedTypeOK, Queued
  <2>3. /\ ~NewPlace(p)
        /\ t \in had[p] \/ (TurnOver /\ t = curr)
    BY <1>4, <2>2 DEF TurnNext
  <2>4. /\ p \in Queued
        /\ Place(queue', p) <= Place(queue, p)
    <3>1. Place(queue', p) \in Nat /\ (p \in Queued => Place(queue, p) \in Nat)
      BY <2>1, PlaceFacts
    <3> QED BY <2>3, <3>1 DEF NewPlace
  <2>5. t \in had[p] /\ t \in Queued => Place(queue, p) < Place(queue, t)
    BY <2>4 DEF TurnInv
  <2>6. CASE queue' = queue /\ ~TurnOver
    BY <2>1, <2>3, <2>5, <2>6
  <2>7. ASSUME NEW m \in Tasks, Retailed(queue, queue', m), TurnOver => m = curr
        PROVE  Place(queue', p) < Place(queue', t)
    <3>1. t = m \/ (t \in ToSet(queue) => Place(queue, p) < Place(queue, t))
      BY <2>1, <2>3, <2>5, <2>7
    <3> QED BY <2>1, <2>4, <2>7, <3>1, BehindStays
  <2> QED BY <1>4, <2>6, <2>7, ListStep DEF TurnNext, TurnInv
<1> QED BY <1>3, <1>4

(* Round robin: while a task keeps its place nobody finishes two turns,    *)
(* unless it does so before a pending reschedule or with a lent priority.  *)
THEOREM TurnsGoRound == TurnSpec => OneTurnEach
<1> DEFINE Inv == SchedInv /\ OrderInv /\ TurnInv
<1>1. TurnInit => Inv
  <2> SUFFICES ASSUME TurnInit PROVE Inv
    OBVIOUS
  <2>1. SchedInv /\ OrderInv
    BY SchedInvInit, OrderInit, WeightedAssumption DEF TurnInit
  <2>2. Queued = {} /\ PolicyFits
    BY WeightedAssumption DEF TurnInit, Init, Queued, PolicyFits
  <2> QED BY <2>1, <2>2 DEF TurnInv
<1>2. Inv /\ [TurnNext]_turnVars => Inv'
  <2> SUFFICES ASSUME Inv, [TurnNext]_turnVars PROVE Inv'
    OBVIOUS
  <2>1. [Next]_vars
    BY DEF TurnNext, turnVars
  <2> QED BY <2>1, SchedInvNext, OrderNext, TurnStep, WeightedAssumption
<1>3. ASSUME Inv, TurnNext, TurnOver, ~resched, ~boosted[curr],
             NEW p \in Queued \ {curr}, curr \in had[p]
      PROVE  FALSE
  <2>1. /\ queue \in Lists /\ ToSet(queue) = Queued /\ curr \in Queued
        /\ Place(queue, p) < Place(queue, curr)
    BY <1>3 DEF OrderInv, IsQueue, RunQueue, TurnInv, TurnOver
  <2>2. curr = Head(queue)
    BY <1>3, <2>1 DEF TurnNext, Next, OrderInv, HeadRuns
  <2>3. Place(queue, curr) \in 1..Len(queue) /\ Place(queue, p) \in 1..Len(queue)
        /\ Len(queue) \in Nat
        /\ \A k \in 1..Len(queue) : queue[k] = curr => k = Place(queue, curr)
    BY <2>1, PlaceFacts
  <2>4. queue[1] = curr /\ 1 \in 1..Len(queue)
    BY <2>1, <2>2, <2>3 DEF Lists
  <2>5. Place(queue, curr) = 1
    BY <2>3, <2>4
  <2> QED BY <2>1, <2>3, <2>5
<1>4. Inv /\ [TurnNext]_turnVars
        => [(TurnOver /\ ~resched /\ ~boosted[curr]) =>
              \A p \in Queued \ {curr} : curr \notin had[p]]_turnVars
  BY <1>3
<1> HIDE DEF Inv
<1> QED BY <1>1, <1>2, <1>4, PTL DEF TurnSpec, OneTurnEach
----------------------------------------------------------------------------
(* The wait.  Two tasks of a list stand one before the other.              *)
LEMMA PlacesDiffer ==
  ASSUME NEW q \in Lists, NEW s \in ToSet(q), NEW t \in ToSet(q), s # t
  PROVE  /\ Place(q, s) \in Nat /\ Place(q, t) \in Nat
         /\ Place(q, s) < Place(q, t) \/ Place(q, t) < Place(q, s)
<1>1. Place(q, s) \in 1..Len(q) /\ Place(q, t) \in 1..Len(q) /\ Len(q) \in Nat
  BY PlaceFacts
<1>2. Place(q, s) # Place(q, t)
  BY PlaceFacts
<1> QED BY <1>1, <1>2

LEMMA HeadPlace ==
  ASSUME NEW q \in Lists, q # <<>>
  PROVE  Head(q) \in ToSet(q) /\ Place(q, Head(q)) = 1
<1>1. Len(q) \in Nat /\ q[1] = Head(q) /\ 1 \in 1..Len(q) /\ DOMAIN q = 1..Len(q)
  BY DEF Lists
<1>2. Head(q) \in ToSet(q)
  BY <1>1 DEF ToSet
<1> QED BY <1>1, <1>2, PlaceFacts

(* Whoever does not move itself has nobody new before it, and if nobody    *)
(* before it has gone the first one is still the first.                    *)
LEMMA AheadShrinks ==
  ASSUME NEW q \in Lists, NEW r \in Lists, NEW m \in Tasks, Retailed(q, r, m),
         NEW p \in ToSet(q) \cap ToSet(r), p # m
  PROVE  /\ Ahead(r, p) \subseteq Ahead(q, p)
         /\ m \notin Ahead(r, p)
         /\ Ahead(q, p) # {} /\ Ahead(r, p) = Ahead(q, p) =>
              Head(q) # m /\ Head(r) = Head(q)
<1>1. PICK u : Drops(q, u, m) /\ r \in {u, Append(u, m)}
  BY DEF Retailed
<1>2. /\ u \in Lists /\ ToSet(u) = ToSet(q) \ {m}
      /\ \A x, y \in ToSet(u) : Place(q, x) < Place(q, y) => Place(u, x) < Place(u, y)
      /\ p \in ToSet(u)
  BY <1>1 DEF Drops
<1>3. Len(u) \in Nat /\ \A x \in ToSet(u) : Place(u, x) \in 1..Len(u)
  BY <1>2, PlaceFacts DEF Lists
<1>4. /\ Place(Append(u, m), m) = Len(u) + 1
      /\ \A x \in ToSet(u) : Place(Append(u, m), x) = Place(u, x)
      /\ ToSet(Append(u, m)) = ToSet(u) \cup {m}
  BY <1>2, PlacesAppended, Linking
<1>5. /\ \A x \in ToSet(u) : Place(r, x) = Place(u, x)
      /\ ToSet(r) \subseteq ToSet(u) \cup {m} /\ ToSet(u) \subseteq ToSet(r)
      /\ m \in ToSet(r) => Place(r, m) = Len(u) + 1
  BY <1>1, <1>2, <1>4
<1>6. m \notin Ahead(r, p)
  BY <1>2, <1>3, <1>5 DEF Ahead
<1>7. ASSUME NEW t \in Ahead(r, p) PROVE t \in Ahead(q, p)
  <2>1. t \in ToSet(u) /\ t \in ToSet(q) /\ Place(u, t) < Place(u, p)
    BY <1>2, <1>5, <1>6, <1>7 DEF Ahead
  <2>2. Place(u, t) \in Nat /\ Place(u, p) \in Nat
    BY <1>2, <1>3, <2>1
  <2>3. t # p /\ ~(Place(u, p) < Place(u, t))
    BY <2>1, <2>2
  <2>4. ~(Place(q, p) < Place(q, t))
    BY <1>2, <2>1, <2>3
  <2>5. Place(q, t) < Place(q, p)
    BY <2>1, <2>3, <2>4, PlacesDiffer
  <2> QED BY <2>1, <2>5 DEF Ahead
<1>8. ASSUME Ahead(q, p) # {}, Ahead(r, p) = Ahead(q, p)
      PROVE  Head(q) # m /\ Head(r) = Head(q)
  <2> DEFINE h == Head(q)
             g == Head(r)
  <2>1. q # <<>> /\ r # <<>>
    <3>1. ToSet(<<>>) = {}
      BY DEF ToSet
    <3> QED BY <3>1
  <2>2. h \in ToSet(q) /\ Place(q, h) = 1 /\ g \in ToSet(r) /\ Place(r, g) = 1
    BY <2>1, HeadPlace
  <2> HIDE DEF h, g
  <2>3. h \in Ahead(q, p)
    <3>1. PICK t : t \in ToSet(q) /\ Place(q, t) < Place(q, p)
      BY <1>8 DEF Ahead
    <3>2. Place(q, t) \in 1..Len(q) /\ Place(q, p) \in 1..Len(q) /\ Len(q) \in Nat
      BY <3>1, PlaceFacts
    <3>3. 1 < Place(q, p)
      BY <3>1, <3>2
    <3> QED BY <2>2, <3>3 DEF Ahead
  <2>4. h # m /\ h \in ToSet(r)
    BY <1>6, <1>8, <2>3 DEF Ahead
  <2>5. g = h
    <3> SUFFICES ASSUME g # h PROVE FALSE
      OBVIOUS
    <3>1. g # m
      <4>1. p \in ToSet(r) /\ h \in ToSet(r) /\ Place(r, h) \in 1..Len(r) /\ Len(r) \in Nat
        BY <2>4, PlaceFacts
      <4>2. Place(r, h) = Place(u, h) /\ Place(u, h) \in 1..Len(u)
        BY <1>2, <1>3, <1>5, <2>2, <2>4
      <4>3. g = m => Len(u) + 1 = 1
        BY <1>5, <2>2
      <4> QED BY <1>3, <4>2, <4>3
    <3>2. g \in ToSet(u) /\ g \in ToSet(q) /\ h \in ToSet(u)
      BY <1>2, <1>5, <2>2, <2>4, <3>1
    <3>3. Place(q, h) < Place(q, g)
      <4>1. Place(q, g) \in 1..Len(q) /\ Len(q) \in Nat /\ Place(q, g) # Place(q, h)
        BY <2>2, <3>2, PlaceFacts
      <4> QED BY <2>2, <4>1
    <3>4. Place(u, h) < Place(u, g)
      BY <1>2, <3>2, <3>3
    <3>5. Place(u, g) = 1 /\ Place(u, h) \in 1..Len(u)
      BY <1>3, <1>5, <2>2, <3>2
    <3> QED BY <1>3, <3>4, <3>5
  <2> QED BY <2>4, <2>5 DEF h, g
<1> QED BY <1>6, <1>7, <1>8

(* The task that moves joins the queue or gives up its place.              *)
LEMMA MoverGivesUp ==
  ASSUME WeightedAssumption, SchedInv, OrderInv, PolicyFits, Next
  PROVE  \/ queue' = queue
         \/ \E m \in Tasks : /\ Retailed(queue, queue', m)
                             /\ m \notin Queued \/ GivesUpPlace(m)
<1> USE DEF policyVars, rqVars
<1>1. /\ queue \in Lists /\ ToSet(queue) = Queued /\ onRq \subseteq Tasks
      /\ curr # Idle => curr \in onRq
  BY DEF OrderInv, IsQueue, RunQueue, SchedInv, SchedTypeOK
<1>2. CASE TurnOver
  <2>1. curr \in Tasks /\ GivesUpPlace(curr)
    BY <1>1, <1>2 DEF TurnOver, Queued, GivesUpPlace
  <2> QED BY <1>2, <2>1, ListStep
<1>3. CASE Block
  <2>1. curr \in onRq /\ Becomes(Dequeued(RunQueue, curr, class[curr]))
    BY <1>1, <1>3 DEF Block
  <2>2. Enqueued(Dequeued(RunQueue, curr, class[curr]), curr, "rt")
          = Dequeued(RunQueue, curr, class[curr])
    BY DEF Enqueued
  <2> QED BY <1>1, <1>3, <2>1, <2>2, MovedRetails DEF GivesUpPlace
<1>4. CASE Resched
  BY <1>4 DEF Resched
<1>5. CASE (Yield \/ Tick) /\ ~TurnOver
  BY <1>1, <1>5 DEF Yield, Tick, TurnOver, Becomes, RunQueue, Queued
<1>6. ASSUME NEW p \in Tasks, Fork(p) \/ WakeUp(p)
      PROVE  Retailed(queue, queue', p) /\ p \notin Queued
  <2>1. p \notin ToSet(queue)
    BY <1>1, <1>6 DEF Fork, WakeUp, Queued, SchedInv, SchedTypeOK
  <2>2. queue' \in {queue, Append(queue, p)}
    BY <1>6 DEF Fork, WakeUp, Becomes, Enqueued, RunQueue
  <2> QED BY <1>1, <2>1, <2>2, SameDrops DEF Retailed
<1>7. ASSUME NEW p \in Tasks, NEW c, ChangeClass(p, c)
      PROVE  queue' = queue \/ Retailed(queue, queue', p)
  BY <1>7, MovedRetails DEF ChangeClass
<1>8. ASSUME NEW p \in Tasks, SetNice(p)
      PROVE  Retailed(queue, queue', p) /\ GivesUpPlace(p)
  BY <1>8, MovedRetails DEF SetNice, GivesUpPlace
<1>9. ASSUME NEW p \in Tasks, SetPrio(p)
      PROVE  GivesUpPlace(p) /\ (queue' = queue \/ Retailed(queue, queue', p))
  BY <1>7, <1>9 DEF SetPrio, GivesUpPlace
<1>10. ASSUME NEW p \in Tasks, NEW c \in Classes, SetScheduler(p, c)
       PROVE  GivesUpPlace(p) /\ (queue' = queue \/ Retailed(queue, queue', p))
  BY <1>7, <1>10 DEF SetScheduler, GivesUpPlace
<1>11. CASE Call
  BY <1>8, <1>9, <1>10, <1>11 DEF Call, SetQuantum, RrGetInterval
<1> QED BY <1>2, <1>3, <1>4, <1>5, <1>6, <1>11 DEF Next

(* Nobody who stays where it is gets more time, and a tick is charged.     *)
LEMMA SliceGoesDown ==
  ASSUME WeightedAssumption, SliceInv, PolicyFits, Next, NEW h \in Queued, ~GivesUpPlace(h)
  PROVE  slice'[h] <= slice[h] /\ ((Tick /\ curr = h) => slice'[h] < slice[h])
<1> USE DEF policyVars, rqVars
<1>1. /\ h \in Tasks /\ h \in onRq /\ h \in born /\ class[h] = "wrr" /\ policy[h] = "wrr"
      /\ slice \in [Tasks -> Int] /\ slice[h] \in Int
      /\ curr # Idle => curr \in Tasks
  BY DEF Queued, SliceInv, SliceTypeOK, PolicyFits
<1>2. CASE Tick
  <2>1. CASE curr = h
    <3>1. ~(slice[h] - 1 <= 0)
      BY <1>2, <2>1 DEF GivesUpPlace, TurnOver
    <3>2. slice' = [slice EXCEPT ![h] = slice[h] - 1]
      BY <1>1, <1>2, <2>1, <3>1 DEF Tick
    <3> QED BY <1>1, <3>2
  <2>2. CASE curr # h
    <3>1. curr \in Tasks
      BY <1>1, <1>2 DEF Tick
    <3>2. \/ slice' = slice
          \/ slice' = [slice EXCEPT ![curr] = weight[curr]]
          \/ slice' = [slice EXCEPT ![curr] = slice[curr] - 1]
      BY <1>2, <3>1, SliceOfRequeued DEF Tick, Becomes
    <3>3. slice'[h] = slice[h]
      BY <1>1, <2>2, <3>1, <3>2
    <3> QED BY <1>1, <2>2, <3>3
  <2> QED BY <2>1, <2>2
<1>3. ASSUME slice'[h] = slice[h], ~Tick
      PROVE  slice'[h] <= slice[h] /\ ((Tick /\ curr = h) => slice'[h] < slice[h])
  BY <1>1, <1>3
<1>4. CASE ~Tick
  <2>1. CASE Block
    <3>1. curr # h /\ curr \in Tasks
      BY <1>1, <2>1 DEF Block, GivesUpPlace
    <3>2. slice' \in {slice, [slice EXCEPT ![curr] = 0]}
      BY <2>1, SliceOps, SliceOfRunQueue DEF Block, Becomes
    <3> QED BY <1>1, <1>3, <1>4, <3>1, <3>2
  <2>2. CASE Resched
    BY <1>3, <1>4, <2>2 DEF Resched
  <2>3. CASE Yield
    <3>1. curr # h /\ curr \in Tasks
      BY <1>1, <2>3 DEF Yield, GivesUpPlace, TurnOver
    <3>2. slice' \in {slice, [slice EXCEPT ![curr] = weight[curr]]}
      BY <2>3, <3>1, SliceOfRequeued, SliceOfRunQueue DEF Yield, Becomes
    <3> QED BY <1>1, <1>3, <1>4, <3>1, <3>2
  <2>4. ASSUME NEW p \in Tasks, Fork(p) PROVE slice'[h] = slice[h]
    <3>1. p # h
      BY <1>1, <2>4 DEF Fork
    <3>2. PICK c : slice' = [Enqueued(RunQueue, p, c) EXCEPT !.s[p] = quantum].s
      BY <2>4 DEF Fork, Becomes
    <3>3. CASE c = "wrr"
      <4>1. slice' = [[slice EXCEPT ![p] = weight[p]] EXCEPT ![p] = quantum]
        BY <3>2, <3>3 DEF Enqueued, RunQueue
      <4> QED BY <1>1, <3>1, <4>1
    <3>4. CASE c # "wrr"
      <4>1. slice' = [slice EXCEPT ![p] = quantum]
        BY <3>2, <3>4 DEF Enqueued, RunQueue
      <4> QED BY <1>1, <3>1, <4>1
    <3> QED BY <3>3, <3>4
  <2>5. ASSUME NEW p \in Tasks, WakeUp(p) PROVE slice'[h] = slice[h]
    <3>1. p # h
      BY <1>1, <2>5 DEF WakeUp
    <3>2. slice' \in {slice, [slice EXCEPT ![p] = weight[p]]}
      BY <2>5, SliceOps, SliceOfRunQueue DEF WakeUp, Becomes
    <3> QED BY <1>1, <3>1, <3>2
  <2>6. ASSUME NEW p \in Tasks, p # h, NEW c,
               slice' = Enqueued(Dequeued(RunQueue, p, class[p]), p, c).s
        PROVE  slice'[h] = slice[h]
    <3> DEFINE s == Dequeued(RunQueue, p, class[p]).s
    <3>1. s \in {slice, [slice EXCEPT ![p] = 0]}
      BY SliceOps, SliceOfRunQueue
    <3>2. slice' = IF c = "wrr" THEN [s EXCEPT ![p] = weight[p]] ELSE s
      BY <2>6, SliceOps
    <3> HIDE DEF s
    <3> QED BY <1>1, <2>6, <3>1, <3>2
  <2>7. ASSUME NEW p \in Tasks, p # h, NEW c, ChangeClass(p, c) PROVE slice'[h] = slice[h]
    BY <2>6, <2>7 DEF ChangeClass, Becomes
  <2>8. CASE Call
    <3>1. ASSUME NEW p \in Tasks, SetPrio(p) PROVE slice'[h] = slice[h]
      <4>1. p # h /\ \E c : ChangeClass(p, c)
        BY <3>1 DEF SetPrio, GivesUpPlace
      <4> QED BY <2>7, <4>1
    <3>2. ASSUME NEW p \in Tasks, NEW c \in Classes, SetScheduler(p, c) PROVE slice'[h] = slice[h]
      <4>1. p # h /\ ChangeClass(p, c)
        BY <3>2 DEF SetScheduler, GivesUpPlace
      <4> QED BY <2>7, <4>1
    <3>3. ASSUME NEW p \in Tasks, SetNice(p) PROVE slice'[h] = slice[h]
      <4>1. p # h /\ slice' = Enqueued(Dequeued(RunQueue, p, class[p]), p, class[p]).s
        BY <3>3 DEF SetNice, GivesUpPlace, Becomes
      <4> QED BY <2>6, <4>1
    <3> QED BY <1>3, <1>4, <2>8, <3>1, <3>2, <3>3 DEF Call, SetQuantum, RrGetInterval
  <2> QED BY <1>3, <1>4, <2>1, <2>2, <2>3, <2>4, <2>5, <2>8 DEF Next
<1> QED BY <1>2, <1>4

(* A task in the queue that gives up its place is taken out, or put last.  *)
LEMMA GiverMoves ==
  ASSUME WeightedAssumption, SchedInv, OrderInv, PolicyFits, Next,
         NEW h \in Queued, GivesUpPlace(h)
  PROVE  Retailed(queue, queue', h)
<1>1. h \in onRq /\ class[h] = "wrr" /\ queue \in Lists /\ ToSet(queue) = Queued
  BY DEF Queued, OrderInv, IsQueue, RunQueue
<1>2. CASE h = curr /\ Block
  <2>1. Becomes(Dequeued(RunQueue, h, class[h]))
    BY <1>2 DEF Block
  <2>2. Enqueued(Dequeued(RunQueue, h, class[h]), h, "rt") = Dequeued(RunQueue, h, class[h])
    BY DEF Enqueued
  <2> QED BY <1>1, <2>1, <2>2, MovedRetails
<1>3. CASE h = curr /\ TurnOver
  <2>1. \/ queue' = queue /\ ~TurnOver
        \/ \E m \in Tasks : Retailed(queue, queue', m) /\ (TurnOver => m = curr)
    BY ListStep
  <2> QED BY <1>3, <2>1
<1>4. ASSUME NEW c, ChangeClass(h, c) PROVE Retailed(queue, queue', h)
  BY <1>1, <1>4, MovedRetails DEF ChangeClass
<1>5. CASE SetNice(h)
  BY <1>1, <1>5, MovedRetails DEF SetNice
<1>6. CASE SetPrio(h) \/ \E c \in Classes : SetScheduler(h, c)
  BY <1>4, <1>6 DEF SetPrio, SetScheduler
<1> QED BY <1>2, <1>3, <1>5, <1>6 DEF GivesUpPlace

(* While p waits nobody gets before it, the first before it gets no more   *)
(* time, and every tick that one runs is charged to it.                    *)
LEMMA WaitStep ==
  ASSUME WeightedAssumption, SchedInv, OrderInv, OrderInv', SliceInv, PolicyFits, Next,
         NEW p \in Queued, p \in Queued', Ahead(queue, p) # {}, ~GivesUpPlace(p)
  PROVE  /\ Ahead(queue', p) \subseteq Ahead(queue, p)
         /\ Ahead(queue', p) = Ahead(queue, p) =>
              /\ Head(queue') = Head(queue)
              /\ slice'[Head(queue)] <= slice[Head(queue)]
              /\ (Tick /\ curr = Head(queue)) => slice'[Head(queue)] < slice[Head(queue)]
<1> DEFINE h == Head(queue)
<1>1. /\ queue \in Lists /\ ToSet(queue) = Queued
      /\ queue' \in Lists /\ ToSet(queue') = Queued'
  BY DEF OrderInv, IsQueue, RunQueue
<1>2. queue # <<>>
  <2>1. ToSet(<<>>) = {}
    BY DEF ToSet
  <2> QED BY <1>1, <2>1
<1>3. h \in Queued /\ Place(queue, h) = 1
  BY <1>1, <1>2, HeadPlace
<1>4. p # h /\ h \in Ahead(queue, p)
  <2>1. PICK t : t \in ToSet(queue) /\ Place(queue, t) < Place(queue, p)
    BY DEF Ahead
  <2>2. Place(queue, t) \in 1..Len(queue) /\ Place(queue, p) \in 1..Len(queue) /\ Len(queue) \in Nat
    BY <1>1, <2>1, PlaceFacts
  <2>3. 1 < Place(queue, p)
    BY <2>1, <2>2
  <2> QED BY <1>1, <1>3, <2>3 DEF Ahead
<1>5. h \in Tasks
  BY <1>3 DEF Queued, SliceInv, SliceTypeOK
<1> HIDE DEF h
<1>6. ASSUME NEW m \in Tasks, Retailed(queue, queue', m), p # m
      PROVE  /\ Ahead(queue', p) \subseteq Ahead(queue, p)
             /\ Ahead(queue', p) = Ahead(queue, p) => h # m /\ Head(queue') = h
  BY <1>1, <1>6, AheadShrinks DEF h
<1>7. CASE GivesUpPlace(h)
  <2>1. Retailed(queue, queue', h)
    BY <1>3, <1>7, GiverMoves
  <2> QED BY <1>4, <1>5, <1>6, <2>1 DEF h
<1>8. CASE ~GivesUpPlace(h)
  <2>1. slice'[h] <= slice[h] /\ ((Tick /\ curr = h) => slice'[h] < slice[h])
    BY <1>3, <1>8, SliceGoesDown
  <2>2. CASE queue' = queue
    BY <2>1, <2>2 DEF h
  <2>3. CASE queue' # queue
    <3>1. PICK m \in Tasks : Retailed(queue, queue', m) /\ (m \notin Queued \/ GivesUpPlace(m))
      BY <2>3, MoverGivesUp
    <3>2. p # m
      BY <3>1
    <3> QED BY <1>6, <2>1, <3>1, <3>2 DEF h
  <2> QED BY <2>2, <2>3
<1> QED BY <1>7, <1>8

(* The wait of a task in the queue is counted down, step by step.          *)
THEOREM WaitsAreCounted == TurnSpec => WaitShrinks
<1> DEFINE Inv == SchedInv /\ OrderInv /\ SliceInv /\ PolicyFits
           Shrinks == \A p \in Queued :
             (Ahead(queue, p) # {} /\ p \in Queued' /\ ~GivesUpPlace(p)) =>
               /\ Ahead(queue', p) \subseteq Ahead(queue, p)
               /\ Ahead(queue', p) = Ahead(queue, p) =>
                    LET h == Head(queue) IN
                    /\ Head(queue') = h
                    /\ slice'[h] <= slice[h]
                    /\ (Tick /\ curr = h) => slice'[h] < slice[h]
<1>1. TurnInit => Inv
  <2> SUFFICES ASSUME TurnInit PROVE Inv
    OBVIOUS
  <2>1. SchedInv /\ OrderInv /\ SliceInv
    BY SchedInvInit, OrderInit, SliceInvInit, WeightedAssumption DEF TurnInit
  <2>2. PolicyFits
    BY WeightedAssumption DEF TurnInit, Init, PolicyFits
  <2> QED BY <2>1, <2>2
<1>2. Inv /\ [TurnNext]_turnVars => Inv'
  <2> SUFFICES ASSUME Inv, [TurnNext]_turnVars PROVE Inv'
    OBVIOUS
  <2>1. [Next]_vars
    BY DEF TurnNext, turnVars
  <2> QED BY <2>1, SchedInvNext, OrderNext, SliceInvNext, PolicyFitsNext, WeightedAssumption
<1>3. ASSUME Inv, TurnNext PROVE Shrinks
  <2>1. Next /\ OrderInv'
    BY <1>2, <1>3 DEF TurnNext
  <2> SUFFICES ASSUME NEW p \in Queued, p \in Queued', Ahead(queue, p) # {}, ~GivesUpPlace(p)
               PROVE  /\ Ahead(queue', p) \subseteq Ahead(queue, p)
                      /\ Ahead(queue', p) = Ahead(queue, p) =>
                           /\ Head(queue') = Head(queue)
                           /\ slice'[Head(queue)] <= slice[Head(queue)]
                           /\ (Tick /\ curr = Head(queue)) => slice'[Head(queue)] < slice[Head(queue)]
    OBVIOUS
  <2> QED BY <1>3, <2>1, WaitStep, WeightedAssumption
<1>4. Inv /\ [TurnNext]_turnVars => [Shrinks]_turnVars
  BY <1>3
<1> HIDE DEF Inv
<1> QED BY <1>1, <1>2, <1>4, PTL DEF TurnSpec, WaitShrinks

==============================================================================
