---------------------------- MODULE WeightedRR -----------------------------
(***************************************************************************)
(* OS/pj2: one runqueue of the kernel with the SCHED_WEIGHTED_RR class of  *)
(* Part2/sched_weighted_rr.c under the core of Bonus/sched.c.  Every       *)
(* operation holds rq->lock, so it is one action.  Of the classes above,   *)
(* "rt" and "fair", the model keeps which tasks they have and that they    *)
(* may ask for a reschedule when they like.  Time accounting and moving    *)
(* tasks between processors are left out.                                  *)
(***************************************************************************)
EXTENDS Integers, SequencesExt

CONSTANTS
  Tasks,      \* task_structs
  Root,       \* the first one, running at the start
  Quanta,     \* values of weighted_rr_time_slice, in ticks
  DefaultQuantum,
  MaxCalls,   \* bound of the model on calls that change a policy, a priority or the quantum
  Idle

ASSUME WeightedAssumption ==
  /\ Root \in Tasks /\ Idle \notin Tasks
  /\ Quanta \subseteq Nat /\ DefaultQuantum \in Quanta
  /\ MaxCalls \in Nat

VARIABLES
  queue,      \* rq->weighted_rr.queue, first entry first
  nrRunning,  \* rq->weighted_rr.nr_running
  curr,       \* rq->curr
  resched,    \* TIF_NEED_RESCHED of curr
  born, onRq,
  policy, class, boosted,  \* boosted: its prio is a real-time one, lent by an rt_mutex
  slice,      \* task_time_slice
  weight,     \* weighted_time_slice
  quantum,    \* weighted_rr_time_slice
  calls, oops \* oops: a null function pointer was called

rqVars     == <<queue, nrRunning, onRq>>
policyVars == <<policy, class, boosted>>
vars == <<rqVars, curr, resched, born, policyVars, slice, weight, quantum, calls, oops>>

Classes == {"rt", "fair", "wrr"}
Rank(c) == CASE c = "rt" -> 3 [] c = "fair" -> 2 [] c = "wrr" -> 1

CurrRank == IF curr = Idle THEN 0 ELSE Rank(class[curr])

(* The runnable tasks of the weighted class.                               *)
Queued == {p \in onRq : class[p] = "wrr"}

Init ==
  /\ queue = <<>> /\ nrRunning = 0
  /\ curr = Root /\ resched = FALSE
  /\ born = {Root} /\ onRq = {Root}
  /\ policy = [p \in Tasks |-> "fair"]
  /\ class = [p \in Tasks |-> "fair"]
  /\ boosted = [p \in Tasks |-> FALSE]
  /\ slice = [p \in Tasks |-> DefaultQuantum]
  /\ weight = [p \in Tasks |-> DefaultQuantum]
  /\ quantum = DefaultQuantum
  /\ calls = 0 /\ oops = FALSE
----------------------------------------------------------------------------
(* The operations of the class on the queue, the count and the slice; q, n *)
(* and s are their values before.                                          *)

Place(q, p) == CHOOSE k \in DOMAIN q : q[k] = p

(* list_del: the task must be linked.                                      *)
Unlinked(q, p) == RemoveAt(q, Place(q, p))

(* Mutant: the slice is left as it was when the task slept.                *)
EnqueuedMutant(rq, p, c) ==
  IF c = "wrr" THEN [rq EXCEPT !.q = Append(rq.q, p), !.n = @ + 1] ELSE rq

(* Mutant: list_add for list_add_tail.                                     *)
JumpedMutant(rq, p, c) ==
  IF c = "wrr"
    THEN [q |-> <<p>> \o rq.q, n |-> rq.n + 1, s |-> [rq.s EXCEPT ![p] = weight[p]]]
    ELSE rq

Enqueued(rq, p, c) ==
  IF c = "wrr"
    THEN [q |-> Append(rq.q, p), n |-> rq.n + 1, s |-> [rq.s EXCEPT ![p] = weight[p]]]
    ELSE rq

(* Mutant: nr_running is not decreased.                                    *)
DequeuedMutant(rq, p, c) ==
  IF c = "wrr" THEN [rq EXCEPT !.q = Unlinked(rq.q, p), !.s[p] = 0] ELSE rq

Dequeued(rq, p, c) ==
  IF c = "wrr"
    THEN [q |-> Unlinked(rq.q, p), n |-> rq.n - 1, s |-> [rq.s EXCEPT ![p] = 0]]
    ELSE rq

(* Mutant: list_move for list_move_tail.                                   *)
RequeuedMutant(rq, p) ==
  [rq EXCEPT !.q = <<p>> \o Unlinked(rq.q, p), !.s[p] = weight[p]]

Requeued(rq, p) ==
  [rq EXCEPT !.q = Append(Unlinked(rq.q, p), p), !.s[p] = weight[p]]

RunQueue == [q |-> queue, n |-> nrRunning, s |-> slice]
Becomes(rq) == queue' = rq.q /\ nrRunning' = rq.n /\ slice' = rq.s

(* pick_next_task: the first class that has a task; within rt and fair any *)
(* of theirs.                                                              *)
PickNext(q, ready, c) ==
  LET top(t) == \A u \in ready : Rank(c[t]) >= Rank(c[u]) IN
  IF ready = {} THEN {Idle}
  ELSE {t \in ready : top(t) /\ (c[t] = "wrr" => t = Head(q))}

(* check_preempt_curr: within the class nothing happens, the other classes *)
(* decide for themselves; a higher class preempts.                         *)
(* Mutant: curr's class is asked, and the weighted one does nothing.       *)
CheckPreemptMutant(p, c) ==
  resched' \in IF CurrRank = 1 THEN {resched}
               ELSE IF Rank(c) > CurrRank THEN {TRUE} ELSE {resched, TRUE}

CheckPreempt(p, c) ==
  resched' \in IF Rank(c) > CurrRank THEN {TRUE}
               ELSE IF Rank(c) = CurrRank /\ c # "wrr" THEN {resched, TRUE}
               ELSE {resched}
----------------------------------------------------------------------------
(* sched_fork and wake_up_new_task: the child is a copy of curr.           *)
Fork(p) ==
  /\ curr # Idle /\ p \notin born
  /\ born' = born \cup {p} /\ onRq' = onRq \cup {p}
  /\ LET c == IF policy[curr] = "rt" THEN "rt"
              ELSE IF class[curr] = "wrr" THEN "wrr" ELSE "fair"
     IN /\ class' = [class EXCEPT ![p] = c]
        /\ Becomes([Enqueued(RunQueue, p, c) EXCEPT !.s[p] = quantum])
        /\ CheckPreempt(p, c)
  /\ policy' = [policy EXCEPT ![p] = policy[curr]]
  /\ weight' = [weight EXCEPT ![p] = quantum]
  /\ UNCHANGED <<curr, boosted, quantum, calls, oops>>

(* try_to_wake_up, from any processor or interrupt *)
WakeUp(p) ==
  /\ p \in born \ onRq
  /\ onRq' = onRq \cup {p}
  /\ Becomes(Enqueued(RunQueue, p, class[p]))
  /\ CheckPreempt(p, class[p])
  /\ UNCHANGED <<curr, born, policyVars, weight, quantum, calls, oops>>

SwitchTo(q, ready) ==
  /\ curr' \in PickNext(q, ready, class)
  /\ resched' = FALSE

(* schedule() by a task that goes to sleep *)
Block ==
  /\ curr # Idle
  /\ onRq' = onRq \ {curr}
  /\ LET rq == Dequeued(RunQueue, curr, class[curr])
     IN Becomes(rq) /\ SwitchTo(rq.q, onRq')
  /\ UNCHANGED <<born, policyVars, weight, quantum, calls, oops>>

(* schedule() because TIF_NEED_RESCHED is set *)
Resched ==
  /\ resched
  /\ SwitchTo(queue, onRq)
  /\ UNCHANGED <<rqVars, born, policyVars, slice, weight, quantum, calls, oops>>

(* sys_sched_yield calls schedule() itself.                                *)
Yield ==
  /\ curr # Idle
  /\ LET rq == IF class[curr] = "wrr" THEN Requeued(RunQueue, curr) ELSE RunQueue
     IN Becomes(rq) /\ SwitchTo(rq.q, onRq)
  /\ UNCHANGED <<onRq, born, policyVars, weight, quantum, calls, oops>>

(* Mutant: the end of a slice does not ask for a reschedule.               *)
TickMutant ==
  /\ curr # Idle
  /\ IF class[curr] # "wrr" \/ policy[curr] # "wrr"
       THEN /\ UNCHANGED <<queue, nrRunning, slice>>
            /\ resched' \in {resched} \cup (IF class[curr] # "wrr" THEN {TRUE} ELSE {})
       ELSE /\ IF slice[curr] - 1 <= 0
                 THEN Becomes(Requeued(RunQueue, curr))
                 ELSE /\ slice' = [slice EXCEPT ![curr] = @ - 1]
                      /\ UNCHANGED <<queue, nrRunning>>
            /\ UNCHANGED resched
  /\ UNCHANGED <<onRq, curr, born, policyVars, weight, quantum, calls, oops>>

(* scheduler_tick; task_tick of rt and fair may ask for a reschedule.      *)
Tick ==
  /\ curr # Idle
  /\ IF class[curr] # "wrr" \/ policy[curr] # "wrr"
       THEN /\ UNCHANGED <<queue, nrRunning, slice>>
            /\ resched' \in {resched} \cup (IF class[curr] # "wrr" THEN {TRUE} ELSE {})
       ELSE IF slice[curr] - 1 <= 0
              THEN Becomes(Requeued(RunQueue, curr)) /\ resched' = TRUE
              ELSE /\ slice' = [slice EXCEPT ![curr] = @ - 1]
                   /\ UNCHANGED <<queue, nrRunning, resched>>
  /\ UNCHANGED <<onRq, curr, born, policyVars, weight, quantum, calls, oops>>
----------------------------------------------------------------------------
(* check_class_changed: the weighted class has no prio_changed.            *)
CheckClassChanged(p, new) ==
  /\ oops' = (class[p] = new /\ new = "wrr")
  /\ IF p # curr THEN CheckPreempt(p, new)
     ELSE resched' \in IF class[p] # new /\ new # "rt" THEN {TRUE} ELSE {resched, TRUE}

(* What __sched_setscheduler and rt_mutex_setprio share: p leaves its      *)
(* class's queue, changes class and joins the other's.                     *)
ChangeClass(p, new) ==
  /\ class' = [class EXCEPT ![p] = new]
  /\ IF p \in onRq
       THEN /\ Becomes(Enqueued(Dequeued(RunQueue, p, class[p]), p, new))
            /\ CheckClassChanged(p, new)
       ELSE UNCHANGED <<queue, nrRunning, slice, resched, oops>>
  /\ UNCHANGED <<onRq, curr, born, weight, quantum>>

SetScheduler(p, new) ==
  /\ p \in born
  /\ policy' = [policy EXCEPT ![p] = new]
  /\ ChangeClass(p, new)
  /\ UNCHANGED boosted

(* rt_mutex_setprio, to a real-time priority and back to the task's own    *)
SetPrio(p) ==
  /\ p \in born
  /\ boosted' = [boosted EXCEPT ![p] = ~@]
  /\ ChangeClass(p, IF boosted'[p] \/ policy[p] = "rt" THEN "rt"
                    ELSE IF class[p] = "wrr" THEN "wrr" ELSE "fair")
  /\ UNCHANGED policy

(* set_user_nice: off the queue and on again, and a reschedule when the    *)
(* running task gets another priority or any task a better one             *)
SetNice(p) ==
  /\ p \in onRq /\ policy[p] # "rt"
  /\ Becomes(Enqueued(Dequeued(RunQueue, p, class[p]), p, class[p]))
  /\ resched' \in IF boosted[p] THEN {resched} ELSE IF p = curr THEN {TRUE} ELSE {resched, TRUE}
  /\ UNCHANGED <<onRq, curr, born, policyVars, weight, quantum, oops>>

SetQuantum(n) ==
  /\ quantum' = n
  /\ UNCHANGED <<rqVars, curr, resched, born, policyVars, slice, weight, oops>>

(* sys_sched_rr_get_interval: the class has no get_rr_interval either.     *)
RrGetInterval(p) ==
  /\ p \in born
  /\ oops' = (class[p] = "wrr")
  /\ UNCHANGED <<rqVars, curr, resched, born, policyVars, slice, weight, quantum>>

Call ==
  /\ calls < MaxCalls
  /\ calls' = calls + 1
  /\ \/ \E p \in Tasks : SetPrio(p) \/ SetNice(p) \/ RrGetInterval(p)
     \/ \E p \in Tasks, new \in Classes : SetScheduler(p, new)
     \/ \E n \in Quanta : SetQuantum(n)
----------------------------------------------------------------------------
Next ==
  /\ ~oops
  /\ \/ Block \/ Resched \/ Yield \/ Tick \/ Call
     \/ \E p \in Tasks : Fork(p) \/ WakeUp(p)

Spec == Init /\ [][Next]_vars

(* A pending reschedule happens, and a task of the class that runs again   *)
(* and again is charged a tick now and then.                               *)
Fairness ==
  /\ WF_vars(~oops /\ Resched)
  /\ SF_vars(~oops /\ Tick /\ curr \in Queued)
----------------------------------------------------------------------------
(* The queue holds the runnable tasks of the class once each and           *)
(* nr_running counts them, whatever changes of policy, priority and state  *)
(* go on; curr is runnable.                                                *)
QueueExact ==
  /\ ToSet(queue) = Queued
  /\ IsInjective(queue)
  /\ nrRunning = Len(queue)
  /\ curr \in onRq \cup {Idle}

(* Nobody waits in the queue with a used up slice, or more than its weight.*)
SliceReady ==
  \A p \in Queued : slice[p] <= weight[p] /\ (slice[p] > 0 \/ weight[p] = 0)

(* Unless a reschedule is on its way or the kernel has stopped, no         *)
(* runnable task belongs to a higher class than curr:                      *)
(* check_preempt_curr_weighted_rr is empty, so this rests on the core.     *)
NeverOutranked ==
  (~resched /\ ~oops) => \A p \in onRq : Rank(class[p]) <= CurrRank

(* Unless a reschedule is on its way or the kernel has stopped, the task   *)
(* that runs is the first in the queue.                                    *)
HeadRuns ==
  (~resched /\ ~oops /\ curr \in Queued /\ ~boosted[curr]) => curr = Head(queue)

(* Every task in the queue runs or leaves it, if time and again no task of *)
(* a higher class is runnable.                                             *)
EveryTaskRuns ==
  []<>(onRq = Queued) => \A p \in Tasks : p \in Queued ~> (curr = p \/ p \notin Queued \/ oops)

(* sched.c:6295, rt_mutex_setprio changes the effective priority: when it  *)
(* is given back the task is in the class of its policy again.             *)
PolicyKept == \A p \in born : ~boosted[p] => class[p] = policy[p]
=============================================================================
