------------------------- MODULE CsieboxPoolProofs -------------------------
(***************************************************************************)
(* The csiebox server for any number of workers, clients and descriptors:  *)
(* first the locking of the worker pool, then the types of the server's    *)
(* state, what can stop it, whose account a change is made under, who is   *)
(* forgotten or cut off, and, until a first client has gone, who reads     *)
(* from a connection.                                                      *)
(***************************************************************************)
EXTENDS CsieboxPool, FiniteSetTheorems, WellFoundedInduction, TLAPS

HandlerPlaces == {"recv", "logout", "close", "download", "spin", "sync_file"}
WorkerPlaces  == {"start", "check", "wait", "woken"} \cup HandlerPlaces
LoopPlaces    == {"select", "selecting", "accept", "scan", "test", "argument",
                  "add", "signal", "rebuild", "set", "max_fd"}
MainPlaces    == LoopPlaces \cup HandlerPlaces
Places        == MainPlaces \cup WorkerPlaces

(* The part of the state that locking is about.                            *)
PlacesOK ==
  /\ pc \in [Threads -> Places]
  /\ \A w \in Workers : pc[w] \in WorkerPlaces
  /\ pc[Main] \in MainPlaces

Asleep == {w \in Workers : pc[w] \in {"wait", "woken"}}

MutexHeld ==
  /\ mutex \in Workers \cup {None}
  /\ \A w \in Workers : pc[w] \in {"check"} \cup HandlerPlaces <=> mutex = w

PoolInv == PlacesOK /\ MutexHeld /\ NoLostWakeup
----------------------------------------------------------------------------
(* What a step of handle_request does to the pool: it moves one thread     *)
(* from a place in a handler to another, or back to its caller.            *)
HandlerMove(t) ==
  /\ pc[t] \in HandlerPlaces
  /\ \E place \in HandlerPlaces \cup (IF t = Main THEN {"rebuild"} ELSE {"check"}) :
       pc' = [pc EXCEPT ![t] = place]
  /\ UNCHANGED poolVars

(* A step of handle_request that does not end the process is such a move.  *)
LEMMA HandlerMoves ==
  ASSUME NEW t \in Threads, HandleRequest(t)
  PROVE  HandlerMove(t) \/ (pc' = pc /\ UNCHANGED poolVars)
<1>1. CASE EndOfConnection(t)
  BY <1>1 DEF EndOfConnection, HandlerMove, HandlerPlaces, Go
<1>2. CASE Logout(t)
  BY <1>2 DEF Logout, HandlerMove, HandlerPlaces, Go
<1>3. CASE Close(t)
  BY <1>3 DEF Close, HandlerMove, HandlerPlaces, Return, Rebuild, Go
<1>4. CASE LoginRequest(t)
  BY <1>4 DEF LoginRequest, LoginFails, LoginSucceeds, HandlerMove, HandlerPlaces, Return,
     Rebuild, Go
<1>5. CASE Download(t)
  BY <1>5 DEF Download, HandlerMove, HandlerPlaces, Return, Rebuild, Go
<1>6. CASE SyncRequest(t)
  BY <1>6 DEF SyncRequest, HandlerMove, HandlerPlaces, Return, Rebuild, Go
<1>7. CASE WrongMagic(t)
  BY <1>7 DEF WrongMagic, HandlerMove, HandlerPlaces, Return, Rebuild, Go
<1>8. CASE SyncFile(t)
  BY <1>8 DEF SyncFile, HandlerMove, HandlerPlaces, Return, Rebuild, Go
<1> QED BY <1>1, <1>2, <1>3, <1>4, <1>5, <1>6, <1>7, <1>8 DEF HandleRequest

(* What the main thread does to the pool outside add_request: it moves     *)
(* from a place other than the signal to one of its own.                   *)
MainMove ==
  /\ \/ pc' = pc
     \/ /\ pc[Main] # "signal"
        /\ \E place \in MainPlaces : pc' = [pc EXCEPT ![Main] = place]
  /\ UNCHANGED poolVars

(* So is every step of the main thread but those of add_request.           *)
LEMMA MainMoves ==
  ASSUME MainStep, ~AddRequest, ~CondSignal
  PROVE  MainMove
<1>1. CASE SelectCall
  BY <1>1 DEF SelectCall, MainMove, MainPlaces, LoopPlaces, Go
<1>2. CASE SelectReturn
  BY <1>2 DEF SelectReturn, MainMove, MainPlaces, LoopPlaces, Go
<1>3. CASE Accept
  BY <1>3 DEF Accept, MainMove, MainPlaces, LoopPlaces, HandlerPlaces, Rebuild, Go
<1>4. CASE HandleRequest(Main)
  BY <1>4, HandlerMoves DEF HandlerMove, MainMove, MainPlaces, LoopPlaces, HandlerPlaces, Threads
<1>5. CASE LoopCheck
  BY <1>5 DEF LoopCheck, MainMove, MainPlaces, LoopPlaces, Go
<1>6. CASE ScanTest
  BY <1>6 DEF ScanTest, MainMove, MainPlaces, LoopPlaces, Go
<1>7. CASE RebuildSet
  BY <1>7 DEF RebuildSet, MainMove, MainPlaces, LoopPlaces, Go
<1>8. CASE LoopEnd
  BY <1>8 DEF LoopEnd, MainMove, MainPlaces, LoopPlaces, Rebuild, Go
<1>9. CASE ScanArgument
  BY <1>9 DEF ScanArgument, MainMove, MainPlaces, LoopPlaces, Go
<1>10. CASE RebuildMaxFd
  BY <1>10 DEF RebuildMaxFd, MainMove, MainPlaces, LoopPlaces, Go
<1> QED BY <1>1, <1>2, <1>3, <1>4, <1>5, <1>6, <1>7, <1>8, <1>9, <1>10 DEF MainStep

(* A client moves no thread and takes no lock.                             *)
LEMMA ClientMoves ==
  ASSUME NEW c \in Clients, ClientStep(c)
  PROVE  UNCHANGED <<pc, poolVars>>
  BY DEF ClientStep, Connect, SendLogin, SendAnswer, SendSync, Leave, Send
----------------------------------------------------------------------------
(* The pool's invariant holds at the start, and every step preserves it.   *)
LEMMA PoolInvInit == Init => PoolInv
  BY PoolAssumption DEF Init, PoolInv, PlacesOK, MutexHeld, NoLostWakeup, Threads,
     HandlerPlaces, WorkerPlaces, MainPlaces, LoopPlaces, Places

(* One case per kind of step: only locking and waiting touch the mutex.    *)
LEMMA PoolInvNext == PoolInv /\ [Next]_vars => PoolInv'
<1> SUFFICES ASSUME PoolInv, [Next]_vars PROVE PoolInv'
  OBVIOUS
<1> USE PoolAssumption
<1> USE DEF PoolInv, PlacesOK, MutexHeld, NoLostWakeup, Threads,
     HandlerPlaces, WorkerPlaces, MainPlaces, LoopPlaces, Places
<1>1. CASE UNCHANGED <<pc, poolVars>>
  BY <1>1 DEF poolVars
<1>2. CASE MainMove
  BY <1>2 DEF MainMove, poolVars
<1>3. ASSUME NEW w \in Workers, HandlerMove(w) PROVE PoolInv'
  BY <1>3 DEF HandlerMove, poolVars
<1>4. ASSUME NEW w \in Workers, Lock(w) PROVE PoolInv'
  BY <1>4 DEF Lock, Go
<1>5. ASSUME NEW w \in Workers, Pop(w) PROVE PoolInv'
  BY <1>5 DEF Pop, Go
<1>6. ASSUME NEW w \in Workers, CondWait(w) PROVE PoolInv'
  BY <1>6 DEF CondWait, Go
<1>7. ASSUME NEW w \in Workers, SpuriousWakeup(w) PROVE PoolInv'
  BY <1>7 DEF SpuriousWakeup, poolVars, Go
<1>8. CASE AddRequest
  BY <1>8 DEF AddRequest, Go
<1>9. CASE CondSignal
  BY <1>9 DEF CondSignal, poolVars, Go
<1>10. ASSUME NEW w \in Workers, HandleRequest(w) PROVE PoolInv'
  BY <1>10, <1>1, <1>3, HandlerMoves
<1> QED BY <1>1, <1>2, <1>4, <1>5, <1>6, <1>7, <1>8, <1>9, <1>10, MainMoves, ClientMoves
        DEF Next, WorkerStep, vars

(* In every reachable state the mutex is with the worker that looks at the *)
(* queue or serves a request, and with nobody else.                        *)
THEOREM PoolInvariant == Spec => []PoolInv
  BY PoolInvInit, PoolInvNext, PTL DEF Spec

(* A queued request never sleeps with the whole pool, however the signal,  *)
(* the unlock before it and the workers' checks interleave.                *)
THEOREM NoRequestSleeps == Spec => []NoLostWakeup
<1>1. PoolInv => NoLostWakeup
  BY DEF PoolInv
<1> QED BY <1>1, PoolInvariant, PTL

(* Two workers never serve at once: handle_request runs under the mutex.   *)
THEOREM RequestsAreSerial == Spec => []OneRequestAtATime
<1>1. PoolInv => OneRequestAtATime
  BY PoolAssumption DEF PoolInv, PlacesOK, MutexHeld, OneRequestAtATime, Serving, HandlerPlaces
<1> QED BY <1>1, PoolInvariant, PTL
----------------------------------------------------------------------------
(* A step changes the set of sleeping workers by at most one, and waiting  *)
(* with it.                                                                *)
WaitingInv == waiting = Cardinality(Asleep)

(* There are finitely many sleepers.                                       *)
LEMMA AsleepFinite == IsFiniteSet(Asleep) /\ Cardinality(Asleep) \in Nat
<1>1. IsFiniteSet(Asleep)
  BY PoolAssumption, FS_Subset DEF Asleep
<1> QED BY <1>1, FS_CardinalityType

(* No worker is in pthread_cond_wait at the start.                         *)
LEMMA WaitingInit == Init => WaitingInv
<1> SUFFICES ASSUME Init PROVE WaitingInv
  OBVIOUS
<1>1. Asleep = {}
  BY PoolAssumption DEF Init, Asleep, Threads
<1> QED BY <1>1, FS_EmptySet DEF Init, WaitingInv

(* pthread_cond_wait takes one worker in and the lock after it lets one    *)
(* out, no other step does either.                                         *)
LEMMA WaitingNext == PoolInv /\ WaitingInv /\ [Next]_vars => WaitingInv'
<1> SUFFICES ASSUME PoolInv, WaitingInv, [Next]_vars PROVE WaitingInv'
  OBVIOUS
<1> USE PoolAssumption
<1> USE DEF PoolInv, PlacesOK, Threads, HandlerPlaces, WorkerPlaces, MainPlaces, LoopPlaces, Places
<1>a. ASSUME Asleep' = Asleep, waiting' = waiting PROVE WaitingInv'
  BY <1>a DEF WaitingInv
<1>1. CASE UNCHANGED <<pc, poolVars>>
  BY <1>1, <1>a DEF poolVars, Asleep
<1>2. CASE MainMove
  <2>1. Asleep' = Asleep
    BY <1>2 DEF MainMove, Asleep
  <2> QED BY <2>1, <1>2, <1>a DEF MainMove, poolVars
<1>3. ASSUME NEW w \in Workers, HandlerMove(w) PROVE WaitingInv'
  <2>1. Asleep' = Asleep
    BY <1>3 DEF HandlerMove, Asleep
  <2> QED BY <2>1, <1>3, <1>a DEF HandlerMove, poolVars
<1>4. ASSUME NEW w \in Workers, Lock(w) PROVE WaitingInv'
  <2>1. CASE pc[w] = "start"
    <3>1. Asleep' = Asleep
      BY <2>1, <1>4 DEF Lock, Go, Asleep
    <3> QED BY <3>1, <2>1, <1>4, <1>a DEF Lock
  <2>2. CASE pc[w] = "woken"
    <3>1. w \in Asleep /\ Asleep' = Asleep \ {w}
      BY <2>2, <1>4 DEF Lock, Go, Asleep
    <3>2. Cardinality(Asleep') = Cardinality(Asleep) - 1
      BY <3>1, AsleepFinite, FS_RemoveElement
    <3> QED BY <3>2, <2>2, <1>4 DEF Lock, WaitingInv
  <2> QED BY <2>1, <2>2, <1>4 DEF Lock
<1>5. ASSUME NEW w \in Workers, Pop(w) PROVE WaitingInv'
  <2>1. Asleep' = Asleep
    BY <1>5 DEF Pop, Go, Asleep
  <2> QED BY <2>1, <1>5, <1>a DEF Pop
<1>6. ASSUME NEW w \in Workers, CondWait(w) PROVE WaitingInv'
  <2>1. w \notin Asleep /\ Asleep' = Asleep \cup {w}
    BY <1>6 DEF CondWait, Go, Asleep
  <2>2. Cardinality(Asleep') = Cardinality(Asleep) + 1
    BY <2>1, AsleepFinite, FS_AddElement
  <2> QED BY <2>2, <1>6 DEF CondWait, WaitingInv
<1>7. ASSUME NEW w \in Workers, SpuriousWakeup(w) PROVE WaitingInv'
  <2>1. Asleep' = Asleep
    BY <1>7 DEF SpuriousWakeup, Go, Asleep
  <2> QED BY <2>1, <1>7, <1>a DEF SpuriousWakeup, poolVars
<1>8. CASE AddRequest
  <2>1. Asleep' = Asleep
    BY <1>8 DEF AddRequest, Go, Asleep
  <2> QED BY <2>1, <1>8, <1>a DEF AddRequest
<1>9. CASE CondSignal
  <2>1. Asleep' = Asleep
    BY <1>9 DEF CondSignal, Go, Asleep
  <2> QED BY <2>1, <1>9, <1>a DEF CondSignal, poolVars
<1>10. ASSUME NEW w \in Workers, HandleRequest(w) PROVE WaitingInv'
  BY <1>10, <1>1, <1>3, HandlerMoves
<1> QED BY <1>1, <1>2, <1>4, <1>5, <1>6, <1>7, <1>8, <1>9, <1>10, MainMoves, ClientMoves
        DEF Next, WorkerStep, vars

(* waiting is the number of workers in pthread_cond_wait, the ones that    *)
(* wait for the mutex on their way out included.                           *)
THEOREM WaitingIsExact == Spec => []WaitingCount
<1>1. Init => PoolInv /\ WaitingInv
  BY PoolInvInit, WaitingInit
<1>2. PoolInv /\ WaitingInv /\ [Next]_vars => (PoolInv /\ WaitingInv)'
  BY PoolInvNext, WaitingNext
<1>3. WaitingInv => WaitingCount
  BY DEF WaitingInv, WaitingCount, Asleep
<1> QED BY <1>1, <1>2, <1>3, PTL DEF Spec
----------------------------------------------------------------------------
(* The types of everything but waiting, and: the body of a loop of         *)
(* csiebox_server_run is entered with i within the table.                  *)
ClientStates == {"off", "connected", "await", "asked", "idle", "synced",
                 "unanswered", "refused", "dropped", "gone"}
Messages == {"empty", "login", "res", "rest"} \cup Changes

TypeInv ==
  /\ backlog \in Seq(Clients)
  /\ sock \in [Fds -> Clients \cup {None}]
  /\ client \in [Fds -> Clients \cup {None}]
  /\ cstate \in [Clients -> ClientStates]
  /\ inbox \in [Clients -> Messages]
  /\ que \in Seq(Fds)
  /\ mutex \in Workers \cup {None}
  /\ pc \in [Threads -> Places]
  /\ fd \in [Threads -> Fds]
  /\ readSet \in SUBSET Fds
  /\ i \in 1..(NumFds + 1)
  /\ killed \in {"no", "SIGSEGV", "SIGPIPE"}
  /\ pc[Main] \in {"test", "argument", "add", "signal", "set", "max_fd"} => i \in Fds

(* accept finds the lowest free descriptor.                                *)
LEMMA LowestFd ==
  ASSUME NEW S, S \subseteq Fds, S # {}
  PROVE  \E f \in S : \A g \in S : f <= g
<1> DEFINE R == {ss \in Nat \X Nat : ss[1] < ss[2]}
<1>1. IsWellFoundedOn(R, Nat)
  BY NatLessThanWellFounded DEF OpToRel
<1>2. PICK f \in S : \A g \in S : <<g, f>> \notin R
  BY <1>1, WFMin, PoolAssumption DEF Fds
<1>3. ASSUME NEW g \in S PROVE f <= g
  <2>1. f \in Nat /\ g \in Nat
    BY PoolAssumption DEF Fds
  <2>2. ~(g < f)
    <3>1. g < f => <<g, f>> \in R
      BY <2>1
    <3> QED BY <3>1, <1>2
  <2> QED BY <2>1, <2>2
<1> QED BY <1>3

(* The server starts with empty tables and everybody in a first place.     *)
LEMMA TypeInvInit == Init => TypeInv
<1> SUFFICES ASSUME Init PROVE TypeInv
  OBVIOUS
<1> USE PoolAssumption DEF Init
<1>1. 1 \in Fds /\ 1 \in 1..(NumFds + 1)
  BY DEF Fds
<1>2. "select" \in Places /\ "start" \in Places
  BY DEF Places, MainPlaces, LoopPlaces, WorkerPlaces
<1>3. pc \in [Threads -> Places] /\ pc[Main] = "select"
  BY <1>2 DEF Threads
<1>4. cstate \in [Clients -> ClientStates] /\ inbox \in [Clients -> Messages]
  BY DEF ClientStates, Messages
<1> QED BY <1>1, <1>3, <1>4 DEF TypeInv
----------------------------------------------------------------------------
(* What a step of handle_request can change at all.                        *)

(* A message of the client behind the descriptor is taken, or its start.   *)
Took(t) ==
  /\ Peer(t) # None /\ inbox[Peer(t)] # "empty"
  /\ \E left \in {"empty", "rest"} : inbox' = [inbox EXCEPT ![Peer(t)] = left]

(* What the client of the descriptor meets with, if it is still there.     *)
Fate(t, next) ==
  /\ Peer(t) # None /\ cstate[Peer(t)] # "gone"
  /\ cstate' = [cstate EXCEPT ![Peer(t)] = next]

(* A client is told something when its message is taken; good news if it   *)
(* has sent what needs a session or gets one, bad news or a session for a  *)
(* login.  Nothing is taken from a client that is dropped.                 *)
Told(t) ==
  \/ UNCHANGED <<cstate, inbox>>
  \/ UNCHANGED inbox /\ pc[t] = "close" /\ Fate(t, "dropped")
  \/ /\ Took(t)
     /\ \/ cstate' = cstate
        \/ Fate(t, "refused") \/ Fate(t, "unanswered")
        \/ /\ inbox[Peer(t)] \in Changes \cup {"res"} \/ client'[fd[t]] = Peer(t)
           /\ Fate(t, "asked") \/ Fate(t, "idle")
     /\ inbox[Peer(t)] = "login" =>
          cstate'[Peer(t)] \in {"refused", "unanswered", "gone"} \/ client'[fd[t]] = Peer(t)

(* A thread goes to another place of the handler, or back to its caller.   *)
Moved(t) ==
  \/ UNCHANGED <<pc, mainVars>>
  \/ pc[t] = "recv" /\ RecvFails(t) /\ Go(t, "logout") /\ UNCHANGED mainVars
  \/ pc[t] = "logout" /\ Go(t, "close") /\ UNCHANGED mainVars
  \/ /\ pc[t] = "recv" /\ (client[fd[t]] # None \/ inbox[Peer(t)] = "login")
     /\ client'[fd[t]] # None
     /\ Go(t, "download") /\ UNCHANGED mainVars
  \/ /\ pc[t] = "recv" /\ client[fd[t]] # None
     /\ Go(t, "spin") \/ Go(t, "sync_file")
     /\ UNCHANGED mainVars
  \/ Return(t)

(* A session is ended on the way to close, and made by a login.            *)
Sessions(t) ==
  \/ client' = client
  \/ pc[t] = "logout" /\ Go(t, "close") /\ client' = [client EXCEPT ![fd[t]] = None]
  \/ /\ Peer(t) # None /\ inbox[Peer(t)] = "login"
     /\ client' = [client EXCEPT ![fd[t]] = Peer(t)]
     /\ Go(t, "download") \/ Return(t)

Effect(t) ==
  /\ pc[t] \in HandlerPlaces
  /\ Told(t) /\ Moved(t) /\ Sessions(t)
  /\ pc[t] = "recv" => RecvFails(t) \/ Took(t)
  /\ UNCHANGED <<backlog, que, mutex, fd>>
  /\ IF pc[t] = "close" THEN sock' = [sock EXCEPT ![fd[t]] = None] ELSE sock' = sock
  /\ killed' \in {killed, "no", "SIGPIPE", "SIGSEGV"}

(* What is replied or met with is a fate.                                  *)
LEMMA Fates ==
  ASSUME NEW t \in Threads, TypeInv, Peer(t) # None, NEW next,
         Meets(Peer(t), next)
  PROVE  cstate' = cstate \/ Fate(t, next)
<1>1. cstate[Peer(t)] = "gone" => cstate' = cstate
  BY DEF Meets, TypeInv
<1>2. cstate[Peer(t)] # "gone" => cstate' = [cstate EXCEPT ![Peer(t)] = next]
  BY DEF Meets
<1> QED BY <1>1, <1>2 DEF Fate

(* A step of handle_request changes no more than this.                     *)
LEMMA HandleEffect ==
  ASSUME NEW t \in Threads, TypeInv, HandleRequest(t)
  PROVE  Effect(t)
<1> USE DEF HandlerPlaces
<1>a. \A next : Reply(Peer(t), next) => Meets(Peer(t), next) /\ killed' \in {"no", "SIGPIPE"}
  BY DEF Reply
<1>b. /\ fd[t] \in Fds /\ (Peer(t) # None => Peer(t) \in Clients)
      /\ client \in [Fds -> Clients \cup {None}] /\ cstate \in [Clients -> ClientStates]
  BY DEF TypeInv, Peer
<1>c. "login" \notin Changes /\ "empty" \notin Changes /\ "res" \notin Changes
      /\ "rest" \notin Changes
  BY PoolAssumption DEF ChangeKinds
<1>1. CASE EndOfConnection(t)
  BY <1>1 DEF EndOfConnection, Effect, Told, Moved, Sessions, tableVars, clientVars, poolVars
<1>2. CASE Logout(t)
  BY <1>2 DEF Logout, Effect, Told, Moved, Sessions, clientVars, poolVars
<1>3. CASE Close(t)
  <2>1. cstate' = cstate \/ Fate(t, "dropped")
    BY <1>3, Fates DEF Close
  <2>2. pc[t] = "close" /\ Return(t) /\ UNCHANGED <<backlog, client, inbox, que, mutex, fd, killed>>
        /\ sock' = [sock EXCEPT ![fd[t]] = None]
    BY <1>3 DEF Close, poolVars
  <2> QED BY <2>1, <2>2 DEF Effect, Told, Moved, Sessions
<1>4. CASE LoginRequest(t)
  <2>1. /\ pc[t] = "recv" /\ Took(t) /\ inbox[Peer(t)] = "login"
        /\ UNCHANGED <<backlog, sock, que, mutex, fd>>
    BY <1>4 DEF LoginRequest, Receives, Takes, Took, poolVars
  <2>2. Peer(t) \in Clients /\ Peer(t) # None
    BY <1>b, <2>1 DEF Took
  <2>3. CASE LoginFails(t)
    <3>1. /\ UNCHANGED client /\ killed' \in {"no", "SIGPIPE"}
          /\ Return(t) \/ (client[fd[t]] # None /\ Go(t, "download") /\ UNCHANGED mainVars)
      BY <2>3, <1>a DEF LoginFails
    <3>2. cstate' = cstate \/ Fate(t, "refused")
      BY <2>2, <2>3, <1>a, Fates DEF LoginFails
    <3>3. cstate'[Peer(t)] \in {"refused", "gone"}
      BY <2>2, <2>3, <1>a, <1>b DEF LoginFails, Meets
    <3>4. Told(t)
      BY <2>1, <3>2, <3>3 DEF Told
    <3>5. Moved(t) /\ Sessions(t)
      BY <2>1, <3>1 DEF Moved, Sessions
    <3> QED BY <2>1, <3>1, <3>4, <3>5 DEF Effect
  <2>4. CASE LoginSucceeds(t)
    <3>1. /\ client' = [client EXCEPT ![fd[t]] = Peer(t)]
          /\ \/ Reply(Peer(t), "idle") /\ Return(t)
             \/ Reply(Peer(t), "asked") /\ Go(t, "download") /\ UNCHANGED mainVars
      BY <2>4 DEF LoginSucceeds
    <3>2. client'[fd[t]] = Peer(t)
      BY <3>1, <1>b
    <3>3. cstate' = cstate \/ Fate(t, "idle") \/ Fate(t, "asked")
      BY <2>2, <3>1, <1>a, Fates
    <3>4. Told(t)
      BY <2>1, <3>2, <3>3 DEF Told
    <3>5. Moved(t) /\ Sessions(t) /\ killed' \in {"no", "SIGPIPE"}
      BY <2>1, <2>2, <3>1, <3>2, <1>a DEF Moved, Sessions
    <3> QED BY <2>1, <3>4, <3>5 DEF Effect
  <2> QED BY <1>4, <2>3, <2>4 DEF LoginRequest
<1>5. CASE Download(t)
  <2>1. Return(t) /\ pc[t] = "download" /\ UNCHANGED <<backlog, sock, client, que, mutex, fd>>
    BY <1>5 DEF Download, tableVars, poolVars
  <2>2. Told(t) /\ killed' \in {"no", "SIGPIPE"}
    <3>1. CASE Receives(t, "res") /\ Reply(Peer(t), "idle")
      <4>1. Took(t) /\ inbox[Peer(t)] = "res" /\ Peer(t) # None
        BY <3>1 DEF Receives, Takes, Took
      <4>2. cstate' = cstate \/ Fate(t, "idle")
        BY <3>1, <4>1, <1>a, Fates
      <4> QED BY <3>1, <4>1, <4>2, <1>a DEF Told
    <3>2. CASE Takes(t, "login", "rest") /\ Reply(Peer(t), "refused")
      <4>1. Took(t) /\ inbox[Peer(t)] = "login" /\ Peer(t) # None /\ Peer(t) \in Clients
        BY <3>2, <1>b DEF Takes, Took
      <4>2. cstate' = cstate \/ Fate(t, "refused")
        BY <3>2, <4>1, <1>a, Fates
      <4>3. cstate'[Peer(t)] \in {"refused", "gone"}
        BY <3>2, <4>1, <1>a, <1>b DEF Meets
      <4> QED BY <3>2, <4>1, <4>2, <4>3, <1>a DEF Told
    <3>3. CASE \E m \in Changes : Takes(t, m, "rest") /\ Reply(Peer(t), "idle")
      <4>1. Took(t) /\ inbox[Peer(t)] \in Changes /\ Peer(t) # None
        BY <3>3, <1>c DEF Takes, Took
      <4>2. cstate' = cstate \/ Fate(t, "idle")
        BY <3>3, <4>1, <1>a, Fates
      <4> QED BY <3>3, <4>1, <4>2, <1>a, <1>c DEF Told
    <3>4. CASE RecvFails(t) /\ UNCHANGED clientVars /\ killed' \in {"no", "SIGPIPE"}
      BY <3>4 DEF Told, clientVars
    <3> QED BY <1>5, <3>1, <3>2, <3>3, <3>4 DEF Download
  <2>3. Moved(t) /\ Sessions(t)
    BY <2>1 DEF Moved, Sessions
  <2> QED BY <2>1, <2>2, <2>3 DEF Effect
<1>6. CASE SyncRequest(t)
  <2>1. pc[t] = "recv" /\ UNCHANGED <<backlog, sock, client, que, mutex, fd>>
    BY <1>6 DEF SyncRequest, tableVars, poolVars
  <2>2. Took(t) /\ Peer(t) # None /\ inbox[Peer(t)] # "login"
        /\ (inbox[Peer(t)] \in Changes \/ inbox[Peer(t)] \in ChangeKinds)
    BY <1>6, <1>c DEF SyncRequest, Receives, Takes, Took, ChangeKinds
  <2>3. inbox[Peer(t)] \in Changes
    BY <2>2, <1>b DEF TypeInv, Messages, ChangeKinds
  <2>4. \/ Reply(Peer(t), "idle") \/ Reply(Peer(t), "unanswered")
        \/ UNCHANGED cstate /\ killed' \in {killed, "SIGSEGV"}
    BY <1>6 DEF SyncRequest
  <2>5. cstate' = cstate \/ Fate(t, "idle") \/ Fate(t, "unanswered")
    BY <2>2, <2>4, <1>a, Fates
  <2>6. Told(t)
    BY <2>2, <2>3, <2>5 DEF Told
  <2>7. Moved(t) /\ Sessions(t)
    BY <1>6, <2>1 DEF SyncRequest, Moved, Sessions
  <2>8. killed' \in {killed, "no", "SIGPIPE", "SIGSEGV"}
    BY <2>4, <1>a
  <2> QED BY <2>1, <2>2, <2>6, <2>7, <2>8 DEF Effect
<1>7. CASE WrongMagic(t)
  <2>1. /\ pc[t] = "recv" /\ Return(t)
        /\ UNCHANGED <<backlog, sock, client, cstate, que, mutex, fd, killed>>
    BY <1>7 DEF WrongMagic, tableVars, poolVars
  <2>2. Took(t) /\ inbox[Peer(t)] # "login"
    BY <1>7 DEF WrongMagic, Receives, Takes, Took
  <2> QED BY <2>1, <2>2 DEF Effect, Told, Moved, Sessions
<1>8. CASE SyncFile(t)
  <2>1. pc[t] = "sync_file" /\ UNCHANGED <<backlog, sock, client, que, mutex, fd, killed>>
    BY <1>8 DEF SyncFile, tableVars, poolVars
  <2>2. Moved(t) /\ Sessions(t)
    BY <1>8, <2>1 DEF SyncFile, Moved, Sessions
  <2>3. Told(t)
    <3>1. CASE /\ \E m \in Changes \cup {"login", "rest"} : Takes(t, m, "rest")
               /\ Meets(Peer(t), "unanswered")
      <4>1. Took(t) /\ Peer(t) # None /\ Peer(t) \in Clients
        BY <3>1, <1>b, <1>c DEF Takes, Took
      <4>2. cstate' = cstate \/ Fate(t, "unanswered")
        BY <3>1, <4>1, Fates
      <4>3. cstate'[Peer(t)] \in {"unanswered", "gone"}
        BY <3>1, <4>1, <1>b DEF Meets
      <4> QED BY <4>1, <4>2, <4>3 DEF Told
    <3>2. CASE Receives(t, "res") /\ UNCHANGED cstate
      <4>1. Took(t) /\ inbox[Peer(t)] # "login"
        BY <3>2 DEF Receives, Takes, Took
      <4> QED BY <3>2, <4>1 DEF Told
    <3>3. CASE UNCHANGED clientVars
      BY <3>3 DEF Told, clientVars
    <3> QED BY <1>8, <3>1, <3>2, <3>3 DEF SyncFile
  <2> QED BY <2>1, <2>2, <2>3 DEF Effect
<1> QED BY <1>1, <1>2, <1>3, <1>4, <1>5, <1>6, <1>7, <1>8 DEF HandleRequest

(* A step of handle_request keeps the types.                               *)
LEMMA TypeHandle ==
  ASSUME NEW t \in Threads, TypeInv, HandleRequest(t)
  PROVE  TypeInv'
<1> USE PoolAssumption DEF TypeInv
<1>1. /\ Main \in Threads /\ fd[t] \in Fds
      /\ Peer(t) # None => Peer(t) \in Clients
  BY DEF Peer, Threads
<1>2. Effect(t)
  BY HandleEffect
<1>3. cstate' \in [Clients -> ClientStates]
  BY <1>1, <1>2 DEF Effect, Told, Fate, ClientStates
<1>4. inbox' \in [Clients -> Messages]
  BY <1>1, <1>2 DEF Effect, Told, Took, Messages
<1>5. sock' \in [Fds -> Clients \cup {None}]
  BY <1>1, <1>2 DEF Effect
<1>6. client' \in [Fds -> Clients \cup {None}]
  BY <1>1, <1>2 DEF Effect, Sessions
<1>7. 1 \in 1..(NumFds + 1)
  OBVIOUS
<1>8. /\ pc' \in [Threads -> Places]
      /\ readSet' \in SUBSET Fds /\ i' \in 1..(NumFds + 1)
      /\ pc'[Main] \in {"test", "argument", "add", "signal", "set", "max_fd"} => i' \in Fds
  BY <1>1, <1>2, <1>7 DEF Effect, Moved, Return, Rebuild, Go, mainVars, Places, MainPlaces,
     LoopPlaces, WorkerPlaces, HandlerPlaces
<1>9. killed' \in {"no", "SIGSEGV", "SIGPIPE"} /\ UNCHANGED <<backlog, que, mutex, fd>>
  BY <1>2 DEF Effect
<1> QED BY <1>3, <1>4, <1>5, <1>6, <1>8, <1>9

(* So does every step.                                                     *)
LEMMA TypeNext == TypeInv /\ MutexHeld' /\ [Next]_vars => TypeInv'
<1> SUFFICES ASSUME TypeInv, MutexHeld', [Next]_vars PROVE TypeInv'
  OBVIOUS
<1> USE PoolAssumption DEF TypeInv, Fds, Threads, Places, MainPlaces, LoopPlaces, WorkerPlaces,
        HandlerPlaces
<1>1. CASE UNCHANGED vars
  BY <1>1 DEF vars, tableVars, clientVars, poolVars, mainVars
<1>2. ASSUME NEW c \in Clients, ClientStep(c) PROVE TypeInv'
  <2>1. CASE Connect(c)
    BY <1>2, <2>1 DEF Connect, tableVars, poolVars, mainVars, ClientStates
  <2>2. ASSUME NEW m \in Messages, NEW n \in {"await", "synced", "gone"}, Send(c, m, n)
        PROVE  TypeInv'
    <3>1. cstate' \in [Clients -> ClientStates] /\ inbox' \in [Clients -> Messages]
      BY <2>2 DEF Send, ClientStates, Messages
    <3> QED BY <2>2, <3>1 DEF Send, tableVars, poolVars, mainVars
  <2> QED BY <1>2, <2>1, <2>2 DEF ClientStep, SendLogin, SendAnswer, SendSync, Leave, Messages
<1>3. ASSUME NEW t \in Threads, HandleRequest(t) PROVE TypeInv'
  BY <1>3, TypeHandle
<1>4. ASSUME NEW w \in Workers, Lock(w) \/ CondWait(w) \/ SpuriousWakeup(w) PROVE TypeInv'
  <2>1. CASE Lock(w)
    BY <1>4, <2>1 DEF Lock, Go, tableVars, clientVars, mainVars
  <2>2. CASE CondWait(w)
    BY <1>4, <2>2 DEF CondWait, Go, tableVars, clientVars, mainVars
  <2>3. CASE SpuriousWakeup(w)
    BY <1>4, <2>3 DEF SpuriousWakeup, Go, tableVars, clientVars, mainVars, poolVars
  <2> QED BY <1>4, <2>1, <2>2, <2>3
<1>5. ASSUME NEW w \in Workers, Pop(w) PROVE TypeInv'
  <2>1. que \in Seq(Fds) /\ Len(que) > 0
    BY <1>5 DEF Pop
  <2>2. que[Len(que)] \in Fds /\ SubSeq(que, 1, Len(que) - 1) \in Seq(Fds)
    BY <2>1
  <2> DEFINE f == que[Len(que)]
             q == SubSeq(que, 1, Len(que) - 1)
  <2>3. /\ fd' = [fd EXCEPT ![w] = f]
        /\ que' = q
        /\ Go(w, "recv")
        /\ UNCHANGED <<backlog, tableVars, clientVars, mutex, mainVars, killed>>
    BY <1>5 DEF Pop
  <2> HIDE DEF f, q
  <2> QED BY <2>2, <2>3 DEF f, q, Go, tableVars, clientVars, mainVars
<1>6. CASE SelectCall \/ SelectReturn
  <2>1. CASE SelectCall
    BY <2>1 DEF SelectCall, Go, tableVars, clientVars, mainVars, poolVars
  <2>2. CASE SelectReturn
    <3>a. readSet' \subseteq readSet /\ i' = 1
      <4>1. readSet' = {f \in readSet : Readable(f)} /\ i' = 1
        BY <2>2 DEF SelectReturn
      <4> QED BY ONLY <4>1
    <3>1. readSet' \in SUBSET Fds /\ i' \in 1..(NumFds + 1)
      BY <3>a
    <3>2. Go(Main, "accept") \/ Go(Main, "scan")
      BY <2>2 DEF SelectReturn
    <3>3. UNCHANGED <<backlog, tableVars, clientVars, poolVars, fd, killed>>
      BY <2>2 DEF SelectReturn
    <3> QED BY <3>1, <3>2, <3>3 DEF Go, tableVars, clientVars, poolVars
  <2> QED BY <1>6, <2>1, <2>2
<1>7. CASE Accept
  <2>1. CASE FreeFds = {}
    BY <2>1, <1>7 DEF Accept, Rebuild, Go, clientVars, mainVars, poolVars
  <2>2. CASE FreeFds # {}
    <3> DEFINE f == CHOOSE f \in FreeFds : \A g \in FreeFds : f <= g
    <3>1. f \in FreeFds
      BY <2>2, LowestFd DEF FreeFds
    <3>2. f \in Fds
      BY <3>1 DEF FreeFds
    <3> HIDE DEF f
    <3>3. Head(backlog) \in Clients /\ Tail(backlog) \in Seq(Clients)
      BY <1>7, <2>2 DEF Accept
    <3>4. /\ sock' = [sock EXCEPT ![f] = Head(backlog)]
          /\ fd' = [fd EXCEPT ![Main] = f]
          /\ backlog' = Tail(backlog)
          /\ Go(Main, "recv")
          /\ UNCHANGED <<mainVars, client, clientVars, poolVars, killed>>
      BY <1>7, <2>2 DEF Accept, f
    <3>5. fd' \in [Threads -> Fds] /\ sock' \in [Fds -> Clients \cup {None}]
      BY <3>2, <3>3, <3>4
    <3>6. UNCHANGED <<client, cstate, inbox, que, mutex, readSet, i, killed>>
      BY <3>4 DEF clientVars, mainVars, poolVars
    <3>7. /\ pc' \in [Threads -> Places]
          /\ pc'[Main] = "recv"
      BY <3>4 DEF Go
    <3>8. backlog' \in Seq(Clients)
      BY <3>3, <3>4
    <3> QED BY <3>5, <3>6, <3>7, <3>8
  <2> QED BY <2>1, <2>2
<1>8. CASE LoopCheck \/ ScanTest \/ ScanArgument \/ RebuildSet \/ RebuildMaxFd \/ LoopEnd
  <2>1. CASE LoopCheck
    BY <2>1 DEF LoopCheck, Go, tableVars, clientVars, poolVars
  <2>2. CASE ScanTest
    BY <2>2 DEF ScanTest, Go, tableVars, clientVars, poolVars
  <2>3. CASE RebuildSet
    <3>1. CASE client[i] = None
      BY <2>3, <3>1 DEF RebuildSet, tableVars, clientVars, poolVars
    <3>2. CASE client[i] # None
      <4>1. i \in Fds
        BY <2>3 DEF RebuildSet
      <4>2. /\ readSet' = readSet \cup {i}
            /\ Go(Main, "max_fd")
            /\ UNCHANGED <<killed, backlog, tableVars, clientVars, poolVars, fd, i>>
        BY <2>3, <3>2 DEF RebuildSet
      <4>3. readSet' \in SUBSET Fds
        BY <4>1, <4>2
      <4> QED BY <4>1, <4>2, <4>3 DEF Go, tableVars, clientVars, poolVars
    <3> QED BY <3>1, <3>2
  <2>5. CASE ScanArgument
    BY <2>5 DEF ScanArgument, Go, tableVars, clientVars, poolVars, mainVars
  <2>6. CASE RebuildMaxFd
    BY <2>6 DEF RebuildMaxFd, Go, tableVars, clientVars, poolVars
  <2>4. CASE LoopEnd
    <3>1. CASE Rebuild
      <4>1. readSet' \in SUBSET Fds /\ i' \in 1..(NumFds + 1)
        BY <3>1 DEF Rebuild
      <4> QED BY <2>4, <3>1, <4>1 DEF LoopEnd, Rebuild, Go, tableVars, clientVars, poolVars
    <3>2. CASE Go(Main, "select") /\ UNCHANGED mainVars
      BY <2>4, <3>2 DEF LoopEnd, Go, tableVars, clientVars, mainVars, poolVars
    <3> QED BY <2>4, <3>1, <3>2 DEF LoopEnd
  <2> QED BY <1>8, <2>1, <2>2, <2>3, <2>4, <2>5, <2>6
<1>9. CASE AddRequest
  <2>1. i \in Fds /\ que' = Append(que, i)
    BY <1>9 DEF AddRequest
  <2>2. que' \in Seq(Fds)
    BY <2>1
  <2> QED BY <1>9, <2>1, <2>2 DEF AddRequest, Go, tableVars, clientVars, mainVars
<1>10. CASE CondSignal
  <2>1. i' \in 1..(NumFds + 1)
    BY <1>10 DEF CondSignal
  <2>2. \/ \E w \in Workers : pc' = [pc EXCEPT ![w] = "woken", ![Main] = "scan"]
        \/ pc' = [pc EXCEPT ![Main] = "scan"]
    BY <1>10 DEF CondSignal, Go
  <2>3. /\ pc' \in [Threads -> Places]
        /\ pc'[Main] = "scan"
    BY <2>2
  <2>4. UNCHANGED <<backlog, sock, client, cstate, inbox, que, mutex, fd, readSet, killed>>
    BY <1>10 DEF CondSignal, tableVars, clientVars, poolVars
  <2> QED BY <2>1, <2>3, <2>4
<1> QED BY <1>1, <1>2, <1>3, <1>4, <1>5, <1>6, <1>7, <1>8, <1>9, <1>10
        DEF Next, MainStep, WorkerStep

(* Every variable stays within its type.                                   *)
THEOREM PoolTypes == Spec => []TypeOK
<1>1. Init => PoolInv /\ WaitingInv /\ TypeInv
  BY PoolInvInit, WaitingInit, TypeInvInit
<1>2. PoolInv /\ WaitingInv /\ TypeInv /\ [Next]_vars => (PoolInv /\ WaitingInv /\ TypeInv)'
  BY PoolInvNext, WaitingNext, TypeNext DEF PoolInv
<1>3. WaitingInv /\ TypeInv => TypeOK
  BY AsleepFinite DEF WaitingInv, TypeInv, TypeOK, ClientStates, Messages, Places, MainPlaces,
     LoopPlaces, WorkerPlaces, HandlerPlaces
<1> QED BY <1>1, <1>2, <1>3, PTL DEF Spec
----------------------------------------------------------------------------
(* Where the connections are, whoever leaves.                              *)

(* A connection is in one place: not made, in the backlog, or behind one   *)
(* descriptor.                                                             *)
OnePlaceEach ==
  /\ \A f, g \in Fds : sock[f] = sock[g] => sock[f] = None \/ f = g
  /\ \A k \in DOMAIN backlog :
       /\ cstate[backlog[k]] # "off"
       /\ \A f \in Fds : sock[f] # backlog[k]
       /\ \A m \in DOMAIN backlog : backlog[m] = backlog[k] => m = k
  /\ \A f \in Fds : sock[f] # None => cstate[sock[f]] # "off"

(* Nothing is connected at the start.                                      *)
LEMMA PlaceInit == Init => OnePlaceEach
  BY DEF Init, OnePlaceEach

(* A descriptor is closed, or a client meets with something else than its  *)
(* start.                                                                  *)
LEMMA PlaceHandle ==
  ASSUME TypeInv, OnePlaceEach, NEW t \in Threads, Effect(t)
  PROVE  OnePlaceEach'
<1> USE PoolAssumption
<1>1. fd[t] \in Fds /\ (Peer(t) # None => Peer(t) \in Clients)
  BY DEF TypeInv, Peer
<1>2. \A f \in Fds : sock'[f] = sock[f] \/ sock'[f] = None
  BY <1>1 DEF Effect, TypeInv
<1>3. \A c \in Clients : cstate[c] # "off" => cstate'[c] # "off"
  BY <1>1 DEF Effect, Told, Fate, TypeInv
<1>4. backlog' = backlog /\ \A k \in DOMAIN backlog : backlog[k] \in Clients
  BY DEF Effect, TypeInv
<1>5. \A f \in Fds : sock[f] \in Clients \cup {None}
  BY DEF TypeInv
<1>6. \A k \in DOMAIN backlog : \A f \in Fds : sock'[f] # backlog[k]
  BY <1>2, <1>4 DEF OnePlaceEach
<1> QED BY <1>2, <1>3, <1>4, <1>5, <1>6 DEF OnePlaceEach

(* A client that connects goes to the end of the backlog.                  *)
LEMMA PlaceConnect ==
  ASSUME TypeInv, OnePlaceEach, NEW c \in Clients, Connect(c)
  PROVE  OnePlaceEach'
<1> USE PoolAssumption
<1>1. /\ cstate[c] = "off" /\ cstate' = [cstate EXCEPT ![c] = "connected"]
      /\ backlog' = Append(backlog, c) /\ UNCHANGED sock
  BY DEF Connect, tableVars
<1>2. /\ backlog \in Seq(Clients) /\ Len(backlog) \in Nat /\ DOMAIN backlog = 1..Len(backlog)
      /\ DOMAIN backlog' = 1..(Len(backlog) + 1)
      /\ \A k \in 1..Len(backlog) : backlog'[k] = backlog[k]
      /\ backlog'[Len(backlog) + 1] = c
  BY <1>1 DEF TypeInv
<1>3. \A k \in 1..Len(backlog) : backlog[k] # c /\ backlog[k] \in Clients
  BY <1>1, <1>2 DEF OnePlaceEach
<1>4. \A g \in Fds : sock[g] # c
  BY <1>1 DEF OnePlaceEach
<1>5. ASSUME NEW k \in DOMAIN backlog'
      PROVE  /\ cstate'[backlog'[k]] # "off"
             /\ \A g \in Fds : sock'[g] # backlog'[k]
             /\ \A m \in DOMAIN backlog' : backlog'[m] = backlog'[k] => m = k
  <2>1. CASE k = Len(backlog) + 1
    BY <2>1, <1>1, <1>2, <1>3, <1>4 DEF TypeInv
  <2>2. CASE k \in 1..Len(backlog)
    <3>1. /\ cstate[backlog[k]] # "off"
          /\ \A g \in Fds : sock[g] # backlog[k]
          /\ \A m \in 1..Len(backlog) : backlog[m] = backlog[k] => m = k
      BY <2>2, <1>2 DEF OnePlaceEach
    <3>2. backlog'[k] = backlog[k] /\ backlog[k] # c /\ backlog[k] \in Clients
      BY <2>2, <1>2, <1>3
    <3>3. \A m \in DOMAIN backlog' : backlog'[m] = backlog'[k] => m = k
      BY <3>1, <3>2, <1>2
    <3> QED BY <3>1, <3>2, <3>3, <1>1 DEF TypeInv
  <2> QED BY <2>1, <2>2, <1>2
<1>6. \A g \in Fds : sock[g] # None => cstate'[sock[g]] # "off"
  BY <1>1, <1>4 DEF OnePlaceEach, TypeInv
<1> QED BY <1>1, <1>5, <1>6 DEF OnePlaceEach

(* What a client sends, or its end, leaves its connection where it is.     *)
Sends(c) ==
  \E m \in Messages, next \in {"await", "synced", "gone"} :
    /\ cstate[c] \notin {"off", "gone"}
    /\ \/ cstate[c] = "connected" /\ m = "login" /\ next = "await"
       \/ cstate[c] = "asked" /\ m = "res" /\ next = "await"
       \/ cstate[c] = "idle" /\ m \in Changes /\ next = "synced"
       \/ m = inbox[c] /\ next = "gone"
    /\ inbox' = [inbox EXCEPT ![c] = IF @ = "rest" THEN @ ELSE m]
    /\ cstate' = [cstate EXCEPT ![c] = next]
    /\ UNCHANGED <<backlog, sock, client, que, mutex, pc, fd, readSet, i, killed>>

(* What a client does is that, or to connect.                              *)
LEMMA ClientSends ==
  ASSUME TypeInv, NEW c \in Clients, ClientStep(c)
  PROVE  Connect(c) \/ Sends(c)
<1>1. CASE SendLogin(c)
  BY <1>1 DEF SendLogin, Send, Sends, Messages, tableVars, poolVars, mainVars
<1>2. CASE SendAnswer(c)
  BY <1>2 DEF SendAnswer, Send, Sends, Messages, tableVars, poolVars, mainVars
<1>3. CASE SendSync(c)
  BY <1>3 DEF SendSync, Send, Sends, Messages, tableVars, poolVars, mainVars
<1>4. CASE Leave(c)
  <2>1. inbox[c] \in Messages
    BY DEF TypeInv
  <2> QED BY <1>4, <2>1 DEF Leave, Send, Sends, tableVars, poolVars, mainVars
<1> QED BY <1>1, <1>2, <1>3, <1>4 DEF ClientStep

(* A connection stays where it is while its client sends.                  *)
LEMMA PlaceSends ==
  ASSUME TypeInv, OnePlaceEach, NEW c \in Clients, Sends(c)
  PROVE  OnePlaceEach'
<1>1. UNCHANGED <<backlog, sock>>
  BY DEF Sends
<1>2. \A d \in Clients : cstate[d] # "off" => cstate'[d] # "off"
  BY DEF Sends, TypeInv
<1>3. /\ \A k \in DOMAIN backlog : backlog[k] \in Clients
      /\ \A f \in Fds : sock[f] \in Clients \cup {None}
  BY DEF TypeInv
<1> QED BY <1>1, <1>2, <1>3 DEF OnePlaceEach

(* accept puts the oldest connection behind a free descriptor f.           *)
Accepts(f) ==
  /\ f \in Fds /\ sock[f] = None
  /\ backlog # <<>> /\ Head(backlog) \in Clients
  /\ sock' = [sock EXCEPT ![f] = Head(backlog)]
  /\ fd' = [fd EXCEPT ![Main] = f]
  /\ backlog' = Tail(backlog)
  /\ pc' = [pc EXCEPT ![Main] = "recv"]
  /\ UNCHANGED <<client, cstate, inbox, que, mutex, readSet, i, killed>>

(* accept does this, or fails for want of a descriptor.                    *)
LEMMA AcceptAccepts ==
  ASSUME TypeInv, Accept
  PROVE  \/ \E f : Accepts(f)
         \/ /\ pc' = [pc EXCEPT ![Main] = "rebuild"] /\ i' = 1
            /\ UNCHANGED <<backlog, sock, fd, client, cstate, inbox, que, mutex, killed>>
<1>1. CASE FreeFds = {}
  BY <1>1 DEF Accept, Rebuild, Go, clientVars, poolVars
<1>2. CASE FreeFds # {}
  <2> DEFINE f == CHOOSE f \in FreeFds : \A g \in FreeFds : f <= g
  <2>1. f \in FreeFds
    BY <1>2, LowestFd DEF FreeFds
  <2>2. f \in Fds /\ sock[f] = None
    BY <2>1 DEF FreeFds
  <2>3. /\ backlog # <<>>
        /\ sock' = [sock EXCEPT ![f] = Head(backlog)]
        /\ fd' = [fd EXCEPT ![Main] = f]
        /\ backlog' = Tail(backlog)
        /\ pc' = [pc EXCEPT ![Main] = "recv"]
        /\ UNCHANGED <<client, cstate, inbox, que, mutex, readSet, i, killed>>
    BY <1>2 DEF Accept, f, Go, clientVars, poolVars, mainVars
  <2> HIDE DEF f
  <2>4. Head(backlog) \in Clients
    BY <2>3 DEF TypeInv
  <2> QED BY <2>2, <2>3, <2>4 DEF Accepts
<1> QED BY <1>1, <1>2

(* The rest of the backlog is what is left of it.                          *)
LEMMA TailOfBacklog ==
  ASSUME TypeInv, backlog # <<>>
  PROVE  /\ Head(backlog) = backlog[1] /\ 1 \in DOMAIN backlog
         /\ \A k \in DOMAIN Tail(backlog) :
              /\ k \in Nat /\ k + 1 \in DOMAIN backlog /\ k + 1 # 1
              /\ Tail(backlog)[k] = backlog[k + 1]
  BY DEF TypeInv

(* The connection leaves the backlog for one descriptor.                   *)
LEMMA PlaceAccepts ==
  ASSUME TypeInv, OnePlaceEach, NEW f, Accepts(f)
  PROVE  OnePlaceEach'
<1> USE PoolAssumption
<1> DEFINE c == Head(backlog)
<1>1. /\ f \in Fds /\ sock[f] = None /\ c \in Clients
      /\ sock' = [sock EXCEPT ![f] = c] /\ UNCHANGED cstate
  BY DEF Accepts
<1>2. /\ c = backlog[1] /\ 1 \in DOMAIN backlog
      /\ \A k \in DOMAIN backlog' :
           k \in Nat /\ k + 1 \in DOMAIN backlog /\ k + 1 # 1 /\ backlog'[k] = backlog[k + 1]
  BY TailOfBacklog DEF Accepts
<1> HIDE DEF c
<1>3. c # None /\ cstate[c] # "off" /\ \A g \in Fds : sock[g] # c
  BY <1>1, <1>2 DEF OnePlaceEach
<1>4. \A g, h \in Fds : sock'[g] = sock'[h] => sock'[g] = None \/ g = h
  BY <1>1, <1>3 DEF OnePlaceEach, TypeInv
<1>5. ASSUME NEW k \in DOMAIN backlog'
      PROVE  /\ cstate'[backlog'[k]] # "off"
             /\ \A g \in Fds : sock'[g] # backlog'[k]
             /\ \A m \in DOMAIN backlog' : backlog'[m] = backlog'[k] => m = k
  <2>1. /\ cstate[backlog[k + 1]] # "off"
        /\ \A g \in Fds : sock[g] # backlog[k + 1]
        /\ \A m \in DOMAIN backlog : backlog[m] = backlog[k + 1] => m = k + 1
    BY <1>2 DEF OnePlaceEach
  <2>2. backlog'[k] # c
    BY <1>2, <2>1
  <2>3. \A g \in Fds : sock'[g] # backlog'[k]
    BY <1>1, <1>2, <2>1, <2>2 DEF TypeInv
  <2>4. \A m \in DOMAIN backlog' : backlog'[m] = backlog'[k] => m = k
    BY <1>2, <2>1
  <2> QED BY <1>1, <1>2, <2>1, <2>3, <2>4
<1>6. \A g \in Fds : sock'[g] # None => cstate'[sock'[g]] # "off"
  BY <1>1, <1>3 DEF OnePlaceEach, TypeInv
<1> QED BY <1>4, <1>5, <1>6 DEF OnePlaceEach

(* The steps outside handle_request and accept move a thread, queue, pop   *)
(* or go through the table.                                                *)
Elsewhere ==
  /\ UNCHANGED <<backlog, sock, client, cstate, inbox>>
  /\ \/ /\ \E w \in Workers, place \in {"check", "recv", "wait", "woken"} :
             /\ pc[w] \notin HandlerPlaces
             /\ pc' = [pc EXCEPT ![w] = place]
             /\ IF place = "recv" THEN que # <<>> /\ fd' = [fd EXCEPT ![w] = que[Len(que)]]
                                  ELSE UNCHANGED fd
        /\ que' \in {que, SubSeq(que, 1, Len(que) - 1)}
        /\ UNCHANGED <<readSet, i>>
     \/ /\ pc[Main] \in LoopPlaces
        /\ pc'[Main] \in LoopPlaces
        /\ \A w \in Workers : pc'[w] = pc[w] \/ (pc[w] = "wait" /\ pc'[w] = "woken")
        /\ que' = que \/ (que' = Append(que, i) /\ pc[Main] = "add")
        /\ pc'[Main] = "add" => i' = i /\ client[i] # None
        /\ UNCHANGED fd

LoopStep ==
  \/ SelectCall \/ SelectReturn \/ LoopCheck \/ ScanTest \/ ScanArgument \/ RebuildSet
  \/ RebuildMaxFd \/ LoopEnd \/ AddRequest \/ CondSignal

(* A worker outside handle_request does no more than this.                 *)
LEMMA WorkerElsewhere ==
  ASSUME TypeInv, NEW w \in Workers, Lock(w) \/ Pop(w) \/ CondWait(w) \/ SpuriousWakeup(w)
  PROVE  Elsewhere
<1>1. CASE Lock(w)
  BY <1>1 DEF Lock, Elsewhere, Go, tableVars, clientVars, mainVars, HandlerPlaces
<1>2. CASE Pop(w)
  BY <1>2 DEF Pop, Elsewhere, Go, tableVars, clientVars, mainVars, HandlerPlaces
<1>3. CASE CondWait(w)
  BY <1>3 DEF CondWait, Elsewhere, Go, tableVars, clientVars, mainVars, HandlerPlaces
<1>4. CASE SpuriousWakeup(w)
  BY <1>4 DEF SpuriousWakeup, Elsewhere, Go, tableVars, clientVars, mainVars, poolVars,
     HandlerPlaces
<1> QED BY <1>1, <1>2, <1>3, <1>4

(* Nor does the main thread in its loops.                                  *)
LEMMA LoopElsewhere ==
  ASSUME TypeInv, LoopStep
  PROVE  Elsewhere
<1> USE PoolAssumption DEF Threads, LoopPlaces
<1>a. Main \in Threads /\ pc \in [Threads -> Places]
  BY DEF TypeInv
<1> DEFINE Only(place) == UNCHANGED <<backlog, sock, client, cstate, inbox, que, fd>>
                          /\ pc[Main] \in LoopPlaces
                          /\ pc' = [pc EXCEPT ![Main] = place]
<1>b. ASSUME NEW place \in LoopPlaces \ {"add"}, Only(place) PROVE Elsewhere
  BY <1>a, <1>b DEF Elsewhere
<1>c. ASSUME UNCHANGED <<backlog, sock, client, cstate, inbox, que, fd, i, pc>>,
             pc[Main] \in LoopPlaces \ {"add"}
      PROVE  Elsewhere
  BY <1>a, <1>c DEF Elsewhere
<1>1. CASE SelectCall
  BY <1>1, <1>b DEF SelectCall, Go, tableVars, clientVars, poolVars
<1>2. CASE SelectReturn
  BY <1>2, <1>b DEF SelectReturn, Go, tableVars, clientVars, poolVars
<1>3. CASE LoopCheck
  <2>1. CASE client[i] = None
    <3>1. /\ UNCHANGED <<backlog, sock, client, cstate, inbox, que, fd, pc>>
          /\ pc[Main] \in {"scan", "rebuild"}
      BY <1>3, <2>1 DEF LoopCheck, tableVars, clientVars, poolVars
    <3> QED BY <3>1 DEF Elsewhere
  <2>2. CASE client[i] # None
    BY <1>3, <2>2, <1>b DEF LoopCheck, Go, tableVars, clientVars, poolVars
  <2> QED BY <2>1, <2>2
<1>4. CASE ScanTest
  BY <1>4, <1>b, <1>c DEF ScanTest, Go, tableVars, clientVars, poolVars
<1>5. CASE ScanArgument
  <2>1. CASE client[i] = None
    BY <1>5, <2>1, <1>c DEF ScanArgument, tableVars, clientVars, poolVars, mainVars
  <2>2. CASE client[i] # None
    BY <1>5, <2>2, <1>a DEF ScanArgument, Go, tableVars, clientVars, poolVars, mainVars, Elsewhere
  <2> QED BY <2>1, <2>2
<1>6. CASE RebuildSet
  BY <1>6, <1>b, <1>c DEF RebuildSet, Go, tableVars, clientVars, poolVars
<1>7. CASE RebuildMaxFd
  BY <1>7, <1>b, <1>c DEF RebuildMaxFd, Go, tableVars, clientVars, poolVars
<1>8. CASE LoopEnd
  BY <1>8, <1>b DEF LoopEnd, Rebuild, Go, tableVars, clientVars, poolVars
<1>9. CASE AddRequest
  BY <1>9, <1>a DEF AddRequest, Go, tableVars, clientVars, mainVars, Elsewhere
<1>10. CASE CondSignal
  <2>1. /\ pc'[Main] = "scan"
        /\ \A w \in Workers : pc'[w] = pc[w] \/ (pc[w] = "wait" /\ pc'[w] = "woken")
    BY <1>10, <1>a DEF CondSignal, Go
  <2> QED BY <1>10, <2>1 DEF CondSignal, tableVars, clientVars, poolVars, Elsewhere
<1> QED BY <1>1, <1>2, <1>3, <1>4, <1>5, <1>6, <1>7, <1>8, <1>9, <1>10 DEF LoopStep

(* Every step is one of these.                                             *)
LEMMA Steps ==
  ASSUME TypeInv, [Next]_vars
  PROVE  \/ UNCHANGED vars
         \/ \E c \in Clients : Connect(c) \/ Sends(c)
         \/ \E t \in Threads : HandleRequest(t) /\ Effect(t)
         \/ Accept
         \/ \E w \in Workers : Lock(w) \/ Pop(w) \/ CondWait(w) \/ SpuriousWakeup(w)
         \/ LoopStep
<1>1. ASSUME NEW t \in Threads, HandleRequest(t) PROVE Effect(t)
  BY <1>1, HandleEffect
<1>2. Main \in Threads /\ Workers \subseteq Threads
  BY DEF Threads
<1> QED BY <1>1, <1>2, ClientSends DEF Next, WorkerStep, MainStep, LoopStep

(* Every connection stays in one place.                                    *)
LEMMA PlaceNext == TypeInv /\ OnePlaceEach /\ [Next]_vars => OnePlaceEach'
<1> SUFFICES ASSUME TypeInv, OnePlaceEach, [Next]_vars PROVE OnePlaceEach'
  OBVIOUS
<1>1. CASE UNCHANGED <<backlog, sock, cstate>>
  BY <1>1 DEF OnePlaceEach
<1>2. CASE Accept
  BY <1>1, <1>2, AcceptAccepts, PlaceAccepts
<1>3. CASE Elsewhere
  BY <1>1, <1>3 DEF Elsewhere
<1>4. CASE UNCHANGED vars
  BY <1>1, <1>4 DEF vars, tableVars, clientVars
<1> QED BY <1>2, <1>3, <1>4, Steps, PlaceHandle, PlaceConnect, PlaceSends, WorkerElsewhere,
           LoopElsewhere
----------------------------------------------------------------------------
(* What stops the server, whoever leaves.  The main thread asks select     *)
(* about every session: it is the only one to meet a login, because it     *)
(* receives the first request of a connection before it does anything      *)
(* else, and it builds read_set anew after that.                           *)

(* A client sends nothing before its login.                                *)
Quiet == \A c \in Clients : cstate[c] \in {"off", "connected"} => inbox[c] = "empty"

(* A login that nobody has taken is one the main thread is waiting for.    *)
Coming(f) == sock[f] # None /\ (cstate[sock[f]] = "connected" \/ inbox[sock[f]] = "login")

LoginsAtMain == \A f \in Fds : Coming(f) => pc[Main] = "recv" /\ fd[Main] = f

(* read_set has the sessions the loop has passed, and at select all.       *)
Watched ==
  /\ pc[Main] \in {"select", "selecting"} => \A f \in Fds : client[f] # None => f \in readSet
  /\ pc[Main] \in {"rebuild", "set", "max_fd"} =>
       \A f \in Fds : client[f] # None /\ (f < i \/ (f = i /\ pc[Main] = "max_fd"))
                        => f \in readSet

WatchInv == OnePlaceEach /\ Quiet /\ LoginsAtMain /\ Watched

(* At the start there is nobody to watch.                                  *)
LEMMA WatchInit == Init => WatchInv
<1> SUFFICES ASSUME Init PROVE WatchInv
  OBVIOUS
<1>1. \A f \in Fds : sock[f] = None /\ client[f] = None
  BY DEF Init
<1>2. pc[Main] = "select"
  BY DEF Init, Threads
<1>3. Quiet
  BY DEF Init, Quiet
<1> QED BY <1>1, <1>2, <1>3, PlaceInit DEF WatchInv, LoginsAtMain, Coming, Watched

(* The client behind a served descriptor is quiet, or past its start.      *)
LEMMA QuietHandle ==
  ASSUME TypeInv, Quiet, NEW t \in Threads, Effect(t)
  PROVE  Quiet'
<1>1. Peer(t) # None => Peer(t) \in Clients
  BY DEF TypeInv, Peer
<1>2. ASSUME NEW c \in Clients, cstate'[c] \in {"off", "connected"}
      PROVE  cstate'[c] = cstate[c] /\ inbox'[c] \in {inbox[c], "empty", "rest"}
             /\ (inbox[c] = "empty" => inbox'[c] = "empty")
  BY <1>1, <1>2 DEF Effect, Told, Took, Fate, TypeInv
<1> QED BY <1>2 DEF Quiet

(* A login that is coming after a step of a handler was coming before it.  *)
LEMMA ComingHandle ==
  ASSUME TypeInv, Quiet, NEW t \in Threads, Effect(t), NEW f \in Fds, Coming(f)'
  PROVE  Coming(f) /\ sock'[f] = sock[f] /\ (Took(t) => Peer(t) # sock[f])
<1> USE PoolAssumption
<1>1. fd[t] \in Fds /\ (Peer(t) # None => Peer(t) \in Clients)
  BY DEF TypeInv, Peer
<1>2. sock'[f] = sock[f] /\ sock[f] \in Clients
  BY <1>1 DEF Coming, Effect, TypeInv
<1>3. cstate'[sock[f]] = "connected" => cstate[sock[f]] = "connected"
  BY <1>1, <1>2 DEF Effect, Told, Fate, TypeInv
<1>4. inbox'[sock[f]] = "login" => inbox[sock[f]] = "login"
  BY <1>1, <1>2 DEF Effect, Told, Took, TypeInv
<1>5. ASSUME Took(t), Peer(t) = sock[f] PROVE FALSE
  <2>1. inbox'[sock[f]] # "login"
    BY <1>2, <1>5 DEF Took, TypeInv
  <2>2. cstate[sock[f]] # "connected"
    BY <1>2, <1>5 DEF Took, Quiet
  <2> QED BY <1>2, <1>3, <2>1, <2>2 DEF Coming
<1> QED BY <1>2, <1>3, <1>4, <1>5 DEF Coming

(* So does every step of a handler: the main thread has a login coming     *)
(* until it takes it, and begins read_set anew when it has served.         *)
LEMMA WatchHandle ==
  ASSUME TypeInv, WatchInv, NEW t \in Threads, Effect(t)
  PROVE  WatchInv'
<1> USE PoolAssumption
<1>1. fd[t] \in Fds /\ Main \in Threads /\ pc \in [Threads -> Places]
  BY DEF TypeInv, Threads
<1>2. Quiet' /\ OnePlaceEach'
  BY QuietHandle, PlaceHandle DEF WatchInv
<1>3. ASSUME t # Main PROVE pc'[Main] = pc[Main] /\ UNCHANGED <<readSet, i>>
  BY <1>1, <1>3 DEF Effect, Moved, Return, Go, mainVars
<1>4. LoginsAtMain'
  <2> SUFFICES ASSUME NEW f \in Fds, Coming(f)' PROVE pc'[Main] = "recv" /\ fd'[Main] = f
    BY DEF LoginsAtMain
  <2>1. Coming(f) /\ (Took(t) => Peer(t) # sock[f])
    BY ComingHandle DEF WatchInv
  <2>2. pc[Main] = "recv" /\ fd[Main] = f /\ fd' = fd
    BY <2>1 DEF WatchInv, LoginsAtMain, Effect
  <2>3. t # Main
    <3> SUFFICES ASSUME t = Main PROVE FALSE
      OBVIOUS
    <3>1. RecvFails(Main) /\ Peer(Main) = sock[f]
      BY <2>1, <2>2 DEF Effect, Peer
    <3> QED BY <2>1, <3>1 DEF RecvFails, Coming
  <2> QED BY <1>3, <2>2, <2>3
<1>5. Watched'
  <2>1. CASE t = Main
    <3>1. \/ pc'[Main] \in HandlerPlaces
          \/ pc'[Main] = "rebuild" /\ i' = 1
      BY <1>1, <2>1 DEF Effect, Moved, Return, Rebuild, Go, HandlerPlaces
    <3>2. \A f \in Fds : ~(f < 1)
      BY DEF Fds
    <3> QED BY <3>1, <3>2 DEF Watched, HandlerPlaces
  <2>2. CASE t # Main
    <3>1. CASE pc[Main] = "recv"
      BY <1>3, <2>2, <3>1 DEF Watched
    <3>2. CASE pc[Main] # "recv"
      <4>1. Peer(t) = None \/ inbox[Peer(t)] # "login"
        BY <1>1, <3>2 DEF WatchInv, LoginsAtMain, Coming, Peer
      <4>2. \A f \in Fds : client'[f] # None => client[f] # None
        BY <1>1, <4>1 DEF Effect, Sessions, TypeInv
      <4> QED BY <1>3, <2>2, <4>2 DEF WatchInv, Watched
    <3> QED BY <3>1, <3>2
  <2> QED BY <2>1, <2>2
<1> QED BY <1>2, <1>4, <1>5 DEF WatchInv

(* So does what a client does.                                             *)
LEMMA WatchConnect ==
  ASSUME TypeInv, WatchInv, NEW c \in Clients, Connect(c)
  PROVE  WatchInv'
<1> USE PoolAssumption
<1>1. /\ cstate[c] = "off" /\ cstate' = [cstate EXCEPT ![c] = "connected"]
      /\ UNCHANGED <<sock, client, inbox, pc, fd, readSet, i>>
  BY DEF Connect, tableVars, mainVars
<1>2. OnePlaceEach'
  BY PlaceConnect DEF WatchInv
<1>3. \A f \in Fds : sock[f] # c
  BY <1>1 DEF WatchInv, OnePlaceEach
<1>4. Quiet'
  BY <1>1 DEF WatchInv, Quiet, TypeInv
<1>5. LoginsAtMain'
  BY <1>1, <1>3 DEF WatchInv, LoginsAtMain, Coming, TypeInv
<1> QED BY <1>1, <1>2, <1>4, <1>5 DEF WatchInv, Watched

(* Only a client that was coming before sends a login.                     *)
LEMMA WatchSends ==
  ASSUME TypeInv, WatchInv, NEW c \in Clients, Sends(c)
  PROVE  WatchInv'
<1> USE PoolAssumption
<1>1. UNCHANGED <<sock, client, pc, fd, readSet, i>>
  BY DEF Sends
<1>2. OnePlaceEach'
  BY PlaceSends DEF WatchInv
<1>3. Quiet'
  BY DEF Sends, WatchInv, Quiet, TypeInv
<1>4. "login" \notin Changes
  BY DEF ChangeKinds
<1>5. \A f \in Fds : Coming(f)' => Coming(f)
  BY <1>1, <1>4 DEF Sends, Coming, TypeInv
<1>6. LoginsAtMain'
  BY <1>1, <1>5 DEF WatchInv, LoginsAtMain
<1> QED BY <1>1, <1>2, <1>3, <1>6 DEF WatchInv, Watched

(* accept: the main thread goes to receive what the new client sends.      *)
LEMMA WatchAccept ==
  ASSUME TypeInv, WatchInv, Accept
  PROVE  WatchInv'
<1> USE PoolAssumption
<1>1. pc[Main] = "accept" /\ UNCHANGED <<client, cstate, inbox>> /\ Main \in Threads
  BY DEF Accept, clientVars, Threads
<1>2. \A f \in Fds : ~Coming(f)
  BY <1>1 DEF WatchInv, LoginsAtMain
<1>3. Quiet'
  BY <1>1 DEF WatchInv, Quiet
<1>4. CASE pc' = [pc EXCEPT ![Main] = "rebuild"] /\ i' = 1 /\ UNCHANGED <<backlog, sock, fd>>
  <2>1. LoginsAtMain' /\ OnePlaceEach'
    BY <1>1, <1>2, <1>4 DEF WatchInv, LoginsAtMain, Coming, OnePlaceEach
  <2>2. Watched'
    BY <1>1, <1>4 DEF Watched, TypeInv, Fds
  <2> QED BY <1>3, <2>1, <2>2 DEF WatchInv
<1>5. ASSUME NEW f, Accepts(f) PROVE WatchInv'
  <2>1. OnePlaceEach'
    BY <1>5, PlaceAccepts DEF WatchInv
  <2>2. \A g \in Fds : g # f => sock'[g] = sock[g]
    BY <1>5 DEF Accepts, TypeInv
  <2>3. pc'[Main] = "recv" /\ fd'[Main] = f
    BY <1>1, <1>5 DEF Accepts, TypeInv
  <2>4. LoginsAtMain'
    BY <1>1, <1>2, <2>2, <2>3 DEF LoginsAtMain, Coming
  <2>5. Watched'
    BY <2>3 DEF Watched
  <2> QED BY <1>3, <2>1, <2>4, <2>5 DEF WatchInv
<1> QED BY <1>4, <1>5, AcceptAccepts

(* The loop that fills read_set passes no session over.                    *)
LEMMA WatchedLoops ==
  ASSUME TypeInv, WatchInv, LoopStep
  PROVE  Watched'
<1> USE PoolAssumption
<1>1. UNCHANGED client /\ Main \in Threads /\ pc \in [Threads -> Places]
  BY LoopElsewhere DEF Elsewhere, Threads, TypeInv
<1>2. \A f, g \in Fds : f \in Nat /\ (f < g + 1 => f < g \/ f = g)
  BY DEF Fds
<1>3. CASE SelectCall
  BY <1>1, <1>3 DEF SelectCall, Go, mainVars, WatchInv, Watched
<1>4. CASE SelectReturn \/ ScanTest \/ ScanArgument \/ AddRequest \/ CondSignal
  <2>1. pc'[Main] \in {"accept", "scan", "test", "argument", "add", "signal"}
    BY <1>1, <1>4 DEF SelectReturn, ScanTest, ScanArgument, AddRequest, CondSignal, Go
  <2> QED BY <2>1 DEF Watched
<1>5. CASE LoopCheck
  <2>1. UNCHANGED readSet /\ i \in Fds /\ pc[Main] \in {"scan", "rebuild"}
    BY <1>5 DEF LoopCheck
  <2>2. \/ client[i] = None /\ i' = i + 1 /\ UNCHANGED pc
        \/ UNCHANGED i /\ pc[Main] = "scan" /\ pc'[Main] = "test"
        \/ UNCHANGED i /\ pc[Main] = "rebuild" /\ pc'[Main] = "set"
    BY <1>1, <1>5 DEF LoopCheck, Go
  <2> QED BY <1>1, <1>2, <2>1, <2>2 DEF WatchInv, Watched
<1>6. CASE RebuildSet
  <2>1. pc[Main] = "set" /\ UNCHANGED i
    BY <1>6 DEF RebuildSet
  <2>2. \/ UNCHANGED <<pc, readSet>>
        \/ readSet' = readSet \cup {i} /\ pc'[Main] = "max_fd"
    BY <1>1, <1>6 DEF RebuildSet, Go
  <2> QED BY <1>1, <2>1, <2>2 DEF WatchInv, Watched
<1>7. CASE RebuildMaxFd
  <2>1. pc[Main] = "max_fd" /\ UNCHANGED readSet /\ i \in Fds
    BY <1>7 DEF RebuildMaxFd, TypeInv
  <2>2. UNCHANGED <<pc, i>> \/ (pc'[Main] = "rebuild" /\ i' = i + 1)
    BY <1>1, <1>7 DEF RebuildMaxFd, Go
  <2> QED BY <1>1, <1>2, <2>1, <2>2 DEF WatchInv, Watched
<1>8. CASE LoopEnd
  <2>1. \A f \in Fds : f < i /\ ~(f < 1)
    BY <1>8 DEF LoopEnd, TypeInv, Fds
  <2>2. \/ pc'[Main] = "rebuild" /\ i' = 1
        \/ pc[Main] = "rebuild" /\ pc'[Main] = "select" /\ UNCHANGED readSet
    BY <1>1, <1>8 DEF LoopEnd, Rebuild, Go, mainVars
  <2> QED BY <1>1, <2>1, <2>2 DEF WatchInv, Watched
<1> QED BY <1>3, <1>4, <1>5, <1>6, <1>7, <1>8 DEF LoopStep

(* The other threads' places are not what a login is at.                   *)
LEMMA WatchElsewhere ==
  ASSUME TypeInv, WatchInv, Elsewhere
  PROVE  OnePlaceEach' /\ Quiet' /\ LoginsAtMain'
<1>1. UNCHANGED <<backlog, sock, client, cstate, inbox>>
  BY DEF Elsewhere
<1>2. OnePlaceEach' /\ Quiet'
  BY <1>1 DEF WatchInv, OnePlaceEach, Quiet
<1>3. pc[Main] = "recv" => pc'[Main] = "recv" /\ fd'[Main] = fd[Main]
  BY PoolAssumption DEF Elsewhere, LoopPlaces, TypeInv, Threads
<1>4. LoginsAtMain'
  BY <1>1, <1>3 DEF WatchInv, LoginsAtMain, Coming
<1> QED BY <1>2, <1>4

(* Every step keeps what select is asked about.                            *)
LEMMA WatchNext == TypeInv /\ WatchInv /\ [Next]_vars => WatchInv'
<1> SUFFICES ASSUME TypeInv, WatchInv, [Next]_vars PROVE WatchInv'
  OBVIOUS
<1>1. CASE UNCHANGED vars
  BY <1>1 DEF vars, tableVars, clientVars, mainVars, WatchInv, OnePlaceEach, Quiet, LoginsAtMain,
     Coming, Watched
<1>2. CASE LoopStep
  BY <1>2, WatchedLoops, WatchElsewhere, LoopElsewhere DEF WatchInv
<1>3. ASSUME NEW w \in Workers, Lock(w) \/ Pop(w) \/ CondWait(w) \/ SpuriousWakeup(w)
      PROVE  WatchInv'
  <2>1. UNCHANGED <<readSet, i, client>> /\ pc'[Main] = pc[Main]
    BY <1>3, PoolAssumption DEF Lock, Pop, CondWait, SpuriousWakeup, Go, mainVars, tableVars,
       TypeInv, Threads
  <2> QED BY <1>3, <2>1, WorkerElsewhere, WatchElsewhere DEF WatchInv, Watched
<1> QED BY <1>1, <1>2, <1>3, Steps, WatchHandle, WatchConnect, WatchSends, WatchAccept

(* Stopped, with no thread in recv or in the flock loop, the server has    *)
(* nothing to do: no worker has the mutex, all sleep, so the queue is      *)
(* empty, and the main thread is in select, which has all sessions to look *)
(* at.                                                                     *)
LEMMA StoppedIsIdle ==
  ASSUME TypeInv, PoolInv, WatchInv, Stopped, \A t \in Threads : ~WaitsForPeer(t) /\ pc[t] # "spin"
  PROVE  pc[Main] = "accept" \/ ~WorkWaits
<1> USE PoolAssumption
<1>1. \A t \in Threads : pc[t] \notin HandlerPlaces
  BY DEF Stopped, MainCan, WorkerCan, HandlerCan, HandlerPlaces, Threads
<1>2. \A w \in Workers : pc[w] # "check"
  BY DEF Stopped, WorkerCan
<1>3. mutex = None
  BY <1>1, <1>2 DEF PoolInv, MutexHeld, Threads
<1>4. \A w \in Workers : pc[w] = "wait"
  BY <1>1, <1>2, <1>3 DEF Stopped, WorkerCan, PoolInv, PlacesOK, WorkerPlaces, Threads
<1>5. pc[Main] # "signal"
  BY DEF Stopped, MainCan
<1>6. que = <<>>
  BY <1>4, <1>5 DEF PoolInv, NoLostWakeup
<1>7. Len(que) < QueueBound
  BY <1>6
<1>8. pc[Main] \in {"selecting", "accept"}
  BY <1>1, <1>3, <1>7 DEF Stopped, MainCan, PoolInv, PlacesOK, MainPlaces, LoopPlaces, Threads
<1>9. CASE pc[Main] = "selecting"
  <2>1. backlog = <<>> /\ \A f \in readSet : ~Readable(f)
    BY <1>9 DEF Stopped, MainCan
  <2>2. \A f \in Fds : client[f] # None => f \in readSet
    BY <1>9 DEF WatchInv, Watched
  <2> QED BY <1>6, <2>1, <2>2 DEF WorkWaits
<1> QED BY <1>8, <1>9

(* Whoever leaves, and whatever the workers and the main thread do in      *)
(* between: if the server stops while somebody waits for it, a thread is   *)
(* in recv with a silent client or in the flock loop of a modified file,   *)
(* or the main thread is in accept.                                        *)
THEOREM StopsAreKnown == Spec => []NoOtherStop
<1>1. Init => TypeInv /\ PoolInv /\ WatchInv
  BY TypeInvInit, PoolInvInit, WatchInit
<1>2. TypeInv /\ PoolInv /\ WatchInv /\ [Next]_vars => (TypeInv /\ PoolInv /\ WatchInv)'
  BY TypeNext, PoolInvNext, WatchNext DEF PoolInv
<1>3. TypeInv /\ PoolInv /\ WatchInv => NoOtherStop
  BY StoppedIsIdle DEF NoOtherStop
<1> QED BY <1>1, <1>2, <1>3, PTL DEF Spec
----------------------------------------------------------------------------
(* Whose account a change is made under, and who is forgotten.             *)

(* A connection in the backlog has sent its login at most.                 *)
Fresh(c) ==
  /\ inbox[c] \in {"empty", "login"}
  /\ cstate[c] \in {"connected", "gone"} \/ (cstate[c] = "await" /\ inbox[c] = "login")

(* A client with a session, of what it has done and sent.                  *)
Account(c) == cstate[c] \in {"asked", "idle", "synced"} \/ inbox[c] \in Changes \cup {"res"}

(* A login that is still to be taken is of a client that waits for it, and *)
(* one that was turned away or left without an answer says nothing more.   *)
Waiting(c) ==
  /\ inbox[c] = "login" => cstate[c] \in {"await", "dropped", "gone"}
  /\ cstate[c] \in {"refused", "unanswered"} => inbox[c] \in {"empty", "rest"}

Honest ==
  /\ \A k \in DOMAIN backlog : Fresh(backlog[k])
  /\ \A c \in Clients : Waiting(c)

(* What a session says is true.                                            *)
Sound(f) == sock[f] # None /\ Account(sock[f]) => client[f] \in {sock[f], None}

Lost(f) ==
  /\ sock[f] # None /\ cstate[sock[f]] \notin {"refused", "unanswered", "gone"}
  /\ client[f] = None

Closing(f) == \E t \in Threads : pc[t] = "close" /\ fd[t] = f

(* A connection without a session is new, or about to be closed.           *)
Known(f) == Lost(f) => Coming(f) \/ Closing(f)

AccountInv == Honest /\ \A f \in Fds : Sound(f) /\ Known(f)

(* There are no connections at the start.                                  *)
LEMMA AccountInit == Init => AccountInv
  BY DEF Init, AccountInv, Honest, Waiting, Sound, Known, Lost

(* A step of a handler concerns one client that is not in the backlog.     *)
LEMMA HonestHandle ==
  ASSUME TypeInv, WatchInv, AccountInv, NEW t \in Threads, Effect(t)
  PROVE  Honest'
<1> USE PoolAssumption
<1>1. fd[t] \in Fds /\ (Peer(t) # None => Peer(t) \in Clients)
  BY DEF TypeInv, Peer
<1>2. ASSUME NEW k \in DOMAIN backlog' PROVE Fresh(backlog[k])'
  <2>1. backlog' = backlog /\ backlog[k] \in Clients /\ Fresh(backlog[k])
    BY <1>2 DEF Effect, TypeInv, AccountInv, Honest
  <2>2. backlog[k] # Peer(t)
    BY <1>1, <1>2, <2>1 DEF WatchInv, OnePlaceEach, Peer
  <2>3. cstate'[backlog[k]] = cstate[backlog[k]] /\ inbox'[backlog[k]] = inbox[backlog[k]]
    BY <1>1, <2>1, <2>2 DEF Effect, Told, Took, Fate, TypeInv
  <2> QED BY <2>1, <2>3 DEF Fresh
<1>3. ASSUME NEW c \in Clients PROVE Waiting(c)'
  <2>1. Waiting(c)
    BY DEF AccountInv, Honest
  <2>2. CASE c = Peer(t) /\ Took(t)
    <3>1. inbox'[c] \in {"empty", "rest"}
      BY <2>2 DEF Took, TypeInv
    <3> QED BY <3>1 DEF Waiting
  <2>3. CASE c = Peer(t) /\ ~Took(t)
    <3>1. inbox' = inbox /\ (cstate'[c] = cstate[c] \/ cstate'[c] = "dropped")
      BY <2>3 DEF Effect, Told, Fate, TypeInv
    <3> QED BY <2>1, <3>1 DEF Waiting
  <2>4. CASE c # Peer(t)
    <3>1. cstate'[c] = cstate[c] /\ inbox'[c] = inbox[c]
      BY <1>1, <2>4 DEF Effect, Told, Took, Fate, TypeInv
    <3> QED BY <2>1, <3>1 DEF Waiting
  <2> QED BY <2>2, <2>3, <2>4
<1>4. backlog' = backlog
  BY DEF Effect
<1> QED BY <1>2, <1>3, <1>4 DEF Honest

(* A session is the one of the client whose login was good; nobody gets    *)
(* good news without one.                                                  *)
LEMMA SoundHandle ==
  ASSUME TypeInv, WatchInv, AccountInv, NEW t \in Threads, Effect(t), NEW f \in Fds
  PROVE  Sound(f)'
<1> USE PoolAssumption
<1>1. fd[t] \in Fds /\ (Peer(t) # None => Peer(t) \in Clients)
  BY DEF TypeInv, Peer
<1> SUFFICES ASSUME sock'[f] # None, Account(sock[f])' PROVE client'[f] \in {sock'[f], None}
  BY DEF Sound
<1>2. sock'[f] = sock[f] /\ sock[f] \in Clients /\ Account(sock[f])'
  BY <1>1 DEF Effect, TypeInv
<1>3. CASE f # fd[t]
  <2>1. sock[f] # Peer(t)
    BY <1>1, <1>2, <1>3 DEF WatchInv, OnePlaceEach, Peer
  <2>2. cstate'[sock[f]] = cstate[sock[f]] /\ inbox'[sock[f]] = inbox[sock[f]]
    BY <1>1, <1>2, <2>1 DEF Effect, Told, Took, Fate, TypeInv
  <2>3. client'[f] = client[f]
    BY <1>1, <1>3 DEF Effect, Sessions, TypeInv
  <2> QED BY <1>2, <2>2, <2>3 DEF Account, AccountInv, Sound
<1>4. CASE f = fd[t]
  <2>1. Peer(t) = sock[f]
    BY <1>4 DEF Peer
  <2>2. client'[f] = client[f] \/ client'[f] \in {None, Peer(t)}
    BY <1>1, <1>4 DEF Effect, Sessions, TypeInv
  <2>3. Account(sock[f]) \/ client'[f] = Peer(t)
    BY <1>2, <1>4, <2>1 DEF Effect, Told, Took, Fate, Account, TypeInv, ChangeKinds
  <2> QED BY <1>2, <2>1, <2>2, <2>3 DEF AccountInv, Sound
<1> QED BY <1>3, <1>4

(* A connection loses its session on the way to close, and a login that    *)
(* was taken has its answer.                                               *)
LEMMA KnownHandle ==
  ASSUME TypeInv, WatchInv, AccountInv, NEW t \in Threads, Effect(t), NEW f \in Fds
  PROVE  Known(f)'
<1> USE PoolAssumption
<1>1. fd[t] \in Fds /\ (Peer(t) # None => Peer(t) \in Clients) /\ pc \in [Threads -> Places]
      /\ fd' = fd
  BY DEF TypeInv, Peer, Effect
<1> SUFFICES ASSUME Lost(f)' PROVE Coming(f)' \/ Closing(f)'
  BY DEF Known
<1>2. /\ sock'[f] = sock[f] /\ sock[f] \in Clients /\ sock[f] # None /\ client'[f] = None
      /\ cstate'[sock[f]] \notin {"refused", "unanswered", "gone"}
  BY <1>1 DEF Lost, Effect, TypeInv
<1>a. ASSUME Closing(f) PROVE Closing(f)'
  <2>1. PICK u \in Threads : pc[u] = "close" /\ fd[u] = f
    BY <1>a DEF Closing
  <2>2. u # t
    BY <1>2, <2>1, <1>1 DEF Effect, TypeInv
  <2>3. pc'[u] = "close"
    BY <1>1, <2>1, <2>2 DEF Effect, Moved, Return, Rebuild, Go
  <2> QED BY <1>1, <2>1, <2>3 DEF Closing
<1>3. CASE client[f] # None
  <2>1. f = fd[t] /\ Go(t, "close")
    BY <1>1, <1>2, <1>3 DEF Effect, Sessions, TypeInv
  <2> QED BY <1>1, <2>1 DEF Closing, Go
<1>4. CASE client[f] = None
  <2>1. CASE ~(f = fd[t] /\ Took(t))
    <3>1. sock[f] # Peer(t) \/ inbox' = inbox
      BY <1>1, <1>2, <2>1 DEF WatchInv, OnePlaceEach, Peer, Effect, Told
    <3>2. inbox'[sock[f]] = inbox[sock[f]]
      BY <1>1, <1>2, <3>1 DEF Effect, Told, Took, TypeInv
    <3>3. CASE cstate'[sock[f]] = cstate[sock[f]]
      <4>1. Coming(f) \/ Closing(f)
        BY <1>2, <1>4, <3>3 DEF AccountInv, Known, Lost
      <4>2. CASE Coming(f)
        BY <1>2, <3>2, <3>3, <4>2 DEF Coming
      <4> QED BY <4>1, <4>2, <1>a
    <3>4. CASE cstate'[sock[f]] # cstate[sock[f]]
      <4>1. sock[f] = Peer(t)
        BY <1>1, <1>2, <3>4 DEF Effect, Told, Fate, TypeInv
      <4>2. f = fd[t]
        BY <1>1, <1>2, <4>1 DEF WatchInv, OnePlaceEach, Peer
      <4>3. pc[t] = "close"
        BY <2>1, <3>4, <4>2, <1>1 DEF Effect, Told
      <4>4. sock'[f] = None
        BY <4>2, <4>3, <1>1 DEF Effect, TypeInv
      <4> QED BY <4>4, <1>2
    <3> QED BY <3>3, <3>4
  <2>2. CASE f = fd[t] /\ Took(t)
    <3>1. Peer(t) = sock[f] /\ inbox[sock[f]] # "empty"
      BY <2>2 DEF Peer, Took
    <3>2. inbox[sock[f]] = "login" => FALSE
      BY <1>2, <2>2, <3>1 DEF Effect, Told, Took, TypeInv
    <3>3. cstate[sock[f]] \notin {"refused", "unanswered", "gone"}
      BY <1>2, <2>2, <3>1, <3>2 DEF Effect, Told, Took, Fate, TypeInv, AccountInv, Honest, Waiting,
         ChangeKinds
    <3>4. ~Coming(f)
      BY <1>2, <3>1, <3>2 DEF Coming, WatchInv, Quiet
    <3>5. Closing(f)
      BY <1>2, <1>4, <3>3, <3>4 DEF AccountInv, Known, Lost
    <3> QED BY <3>5, <1>a
  <2> QED BY <2>1, <2>2
<1> QED BY <1>3, <1>4

(* So a step of a handler keeps it all.                                    *)
LEMMA AccountHandle ==
  ASSUME TypeInv, WatchInv, AccountInv, NEW t \in Threads, Effect(t)
  PROVE  AccountInv'
  BY HonestHandle, SoundHandle, KnownHandle DEF AccountInv

(* A client that connects is fresh.                                        *)
LEMMA AccountConnect ==
  ASSUME TypeInv, WatchInv, AccountInv, NEW c \in Clients, Connect(c)
  PROVE  AccountInv'
<1> USE PoolAssumption
<1>1. /\ cstate[c] = "off" /\ cstate' = [cstate EXCEPT ![c] = "connected"]
      /\ backlog' = Append(backlog, c)
      /\ UNCHANGED <<sock, client, inbox, pc, fd>>
  BY DEF Connect, tableVars
<1>2. inbox[c] = "empty" /\ \A f \in Fds : sock[f] # c
  BY <1>1 DEF WatchInv, Quiet, OnePlaceEach
<1>3. \A d \in Clients : Fresh(d) => Fresh(d)'
  BY <1>1, <1>2 DEF Fresh, TypeInv
<1>4. Fresh(c)'
  BY <1>1, <1>2 DEF Fresh, TypeInv
<1>5. ASSUME NEW k \in DOMAIN backlog' PROVE Fresh(backlog[k])'
  <2>1. /\ Len(backlog) \in Nat /\ DOMAIN backlog = 1..Len(backlog)
        /\ DOMAIN backlog' = 1..(Len(backlog) + 1)
        /\ \A j \in 1..Len(backlog) : backlog'[j] = backlog[j] /\ backlog[j] \in Clients
        /\ backlog'[Len(backlog) + 1] = c
    BY <1>1 DEF TypeInv
  <2>2. CASE k \in 1..Len(backlog)
    <3>1. backlog[k] \in Clients /\ Fresh(backlog[k]) /\ backlog'[k] = backlog[k]
      BY <2>1, <2>2 DEF AccountInv, Honest
    <3> QED BY <3>1, <1>3 DEF Fresh
  <2>3. CASE k = Len(backlog) + 1
    BY <2>1, <2>3, <1>4 DEF Fresh
  <2> QED BY <1>5, <2>1, <2>2, <2>3
<1>6. Honest'
  <2>1. \A d \in Clients : Waiting(d)'
    BY <1>1, <1>2 DEF AccountInv, Honest, Waiting, TypeInv
  <2> QED BY <2>1, <1>5 DEF Honest
<1>7. ASSUME NEW f \in Fds PROVE Sound(f)' /\ Known(f)'
  <2>1. sock[f] # None => cstate'[sock[f]] = cstate[sock[f]]
    BY <1>1, <1>2 DEF TypeInv
  <2> QED BY <1>1, <2>1 DEF AccountInv, Sound, Known, Account, Lost, Coming, Closing
<1> QED BY <1>6, <1>7 DEF AccountInv

(* What a client sends keeps it fresh, and it sends what needs a session   *)
(* only after it was told that it has one.                                 *)
LEMMA AccountSends ==
  ASSUME TypeInv, WatchInv, AccountInv, NEW c \in Clients, Sends(c)
  PROVE  AccountInv'
<1> USE PoolAssumption
<1>1. /\ UNCHANGED <<backlog, sock, client, pc, fd>>
      /\ \A d \in Clients \ {c} : cstate'[d] = cstate[d] /\ inbox'[d] = inbox[d]
      /\ \A k \in DOMAIN backlog : backlog[k] \in Clients
      /\ \A f \in Fds : sock[f] \in Clients \cup {None}
  BY DEF Sends, TypeInv
<1>2. "login" \notin Changes /\ "empty" \notin Changes /\ "res" \notin Changes
      /\ "rest" \notin Changes
  BY DEF ChangeKinds
<1>3. cstate[c] = "connected" => inbox[c] = "empty"
  BY DEF WatchInv, Quiet
<1>4. Waiting(c)
  BY DEF AccountInv, Honest
<1>5. Fresh(c) => Fresh(c)'
  BY <1>2, <1>3 DEF Sends, Fresh, TypeInv
<1>6. Waiting(c)'
  BY <1>2, <1>4 DEF Sends, Waiting, TypeInv
<1>7. Account(c)' => Account(c)
  BY <1>2, <1>3 DEF Sends, Account, TypeInv
<1>8. ASSUME NEW f \in Fds, sock[f] = c
      PROVE  (Lost(f)' => Lost(f)) /\ (Lost(f)' /\ Coming(f) => Coming(f)')
  <2>1. Lost(f)' => Lost(f)
    BY <1>1, <1>8 DEF Sends, Lost, TypeInv
  <2>2. Lost(f)' /\ Coming(f) => Coming(f)'
    BY <1>1, <1>3, <1>4, <1>8 DEF Sends, Lost, Coming, Waiting, TypeInv
  <2> QED BY <2>1, <2>2
<1>9. Honest'
  <2>1. \A k \in DOMAIN backlog : Fresh(backlog[k])'
    <3>1. \A d \in Clients \ {c} : Fresh(d) => Fresh(d)'
      BY <1>1 DEF Fresh
    <3> QED BY <1>1, <1>5, <3>1 DEF AccountInv, Honest
  <2>2. \A d \in Clients : Waiting(d)'
    <3>1. \A d \in Clients \ {c} : Waiting(d)'
      BY <1>1 DEF Waiting, AccountInv, Honest
    <3> QED BY <1>6, <3>1
  <2> QED BY <1>1, <2>1, <2>2 DEF Honest
<1>10. ASSUME NEW f \in Fds PROVE Sound(f)' /\ Known(f)'
  <2>1. CASE sock[f] = c
    BY <1>1, <1>7, <1>8, <2>1 DEF AccountInv, Sound, Known, Closing
  <2>2. CASE sock[f] = None
    BY <1>1, <2>2 DEF Sound, Known, Lost
  <2>3. CASE sock[f] \in Clients \ {c}
    BY <1>1, <2>3 DEF AccountInv, Sound, Known, Account, Lost, Coming, Closing
  <2> QED BY <1>1, <2>1, <2>2, <2>3
<1> QED BY <1>9, <1>10 DEF AccountInv

(* accept returns a fresh connection: it has no account yet, and its login *)
(* is coming, unless its client has gone.                                  *)
LEMMA AccountAccepts ==
  ASSUME TypeInv, WatchInv, AccountInv, pc[Main] = "accept", NEW f, Accepts(f)
  PROVE  AccountInv'
<1> USE PoolAssumption
<1>0. PICK c \in Clients : c = Head(backlog)
  BY DEF Accepts
<1>1. /\ f \in Fds /\ c # None
      /\ sock' = [sock EXCEPT ![f] = c]
      /\ UNCHANGED <<client, cstate, inbox>>
  BY <1>0 DEF Accepts
<1>2. /\ c = backlog[1] /\ 1 \in DOMAIN backlog
      /\ \A k \in DOMAIN backlog' : k + 1 \in DOMAIN backlog /\ backlog'[k] = backlog[k + 1]
  BY <1>0, TailOfBacklog DEF Accepts
<1>3. Fresh(c)
  BY <1>2 DEF AccountInv, Honest
<1>4. Honest'
  BY <1>1, <1>2 DEF AccountInv, Honest, Fresh, Waiting
<1>5. Sound(f)' /\ Known(f)'
  <2>1. sock'[f] = c
    BY <1>1 DEF TypeInv
  <2>2. ~Account(c)'
    BY <1>1, <1>3 DEF Fresh, Account, ChangeKinds
  <2>3. cstate[c] # "gone" => Coming(f)'
    BY <1>1, <1>3, <2>1 DEF Fresh, Coming
  <2> QED BY <1>1, <2>1, <2>2, <2>3 DEF Sound, Known, Lost
<1>6. ASSUME NEW g \in Fds, g # f PROVE Sound(g)' /\ Known(g)'
  <2>1. sock'[g] = sock[g] /\ client'[g] = client[g]
    BY <1>1, <1>6 DEF TypeInv
  <2>2. \A t \in Threads : pc[t] = "close" => pc'[t] = "close" /\ fd'[t] = fd[t]
    BY DEF Accepts, TypeInv
  <2> QED BY <1>1, <2>1, <2>2 DEF AccountInv, Sound, Known, Account, Lost, Coming, Closing
<1> QED BY <1>4, <1>5, <1>6 DEF AccountInv

(* Nobody on its way to close is kept from it by the steps elsewhere.      *)
LEMMA AccountElsewhere ==
  ASSUME TypeInv, AccountInv, UNCHANGED <<backlog, sock, client, cstate, inbox>>,
         \A t \in Threads : pc[t] = "close" => pc'[t] = "close" /\ fd'[t] = fd[t]
  PROVE  AccountInv'
<1>1. Honest'
  BY DEF AccountInv, Honest, Fresh, Waiting
<1>2. \A f \in Fds : Closing(f) => Closing(f)'
  BY DEF Closing
<1>3. \A f \in Fds : Sound(f)' /\ Known(f)'
  BY <1>2 DEF AccountInv, Sound, Known, Account, Lost, Coming
<1> QED BY <1>1, <1>3 DEF AccountInv

(* Every step keeps the accounts.                                          *)
LEMMA AccountNext == TypeInv /\ WatchInv /\ AccountInv /\ [Next]_vars => AccountInv'
<1> SUFFICES ASSUME TypeInv, WatchInv, AccountInv, [Next]_vars PROVE AccountInv'
  OBVIOUS
<1>1. CASE UNCHANGED vars
  BY <1>1, AccountElsewhere DEF vars, tableVars, clientVars
<1>2. CASE Elsewhere
  <2>1. \A t \in Threads : pc[t] = "close" => pc'[t] = "close" /\ fd'[t] = fd[t]
    BY <1>2, PoolAssumption DEF Elsewhere, TypeInv, Threads, LoopPlaces, HandlerPlaces
  <2> QED BY <1>2, <2>1, AccountElsewhere DEF Elsewhere
<1>3. CASE Accept
  <2>1. pc[Main] = "accept"
    BY <1>3 DEF Accept
  <2>2. CASE /\ pc' = [pc EXCEPT ![Main] = "rebuild"]
             /\ UNCHANGED <<backlog, sock, fd, client, cstate, inbox>>
    <3>1. \A t \in Threads : pc[t] = "close" => pc'[t] = "close" /\ fd'[t] = fd[t]
      BY <2>1, <2>2 DEF TypeInv
    <3> QED BY <2>2, <3>1, AccountElsewhere
  <2> QED BY <1>3, <2>1, <2>2, AcceptAccepts, AccountAccepts
<1> QED BY <1>1, <1>2, <1>3, Steps, AccountHandle, AccountConnect, AccountSends, WorkerElsewhere,
           LoopElsewhere

(* What the following theorems rest on.                                    *)
LEMMA AccountsInvariant == Spec => [](TypeInv /\ WatchInv /\ AccountInv)
<1>1. Init => TypeInv /\ PoolInv /\ WatchInv /\ AccountInv
  BY TypeInvInit, PoolInvInit, WatchInit, AccountInit
<1>2. TypeInv /\ PoolInv /\ WatchInv /\ AccountInv /\ [Next]_vars
        => (TypeInv /\ PoolInv /\ WatchInv /\ AccountInv)'
  BY TypeNext, PoolInvNext, WatchNext, AccountNext DEF PoolInv
<1> QED BY <1>1, <1>2, PTL DEF Spec

(* Whoever leaves, and however often a descriptor is given again: a change *)
(* is never made under the account of another client.                      *)
THEOREM AccountsAreRight == Spec => []RightAccount
<1>1. AccountInv => RightAccount
  BY DEF AccountInv, Sound, Account, RightAccount
<1> QED BY <1>1, AccountsInvariant, PTL

(* An open connection whose client was not turned away has a session, or a *)
(* thread that serves it: the main thread, from accept until the login is  *)
(* answered, or one that is about to close it.                             *)
THEOREM NobodyIsForgotten == Spec => []NobodyForgotten
<1>1. TypeInv /\ WatchInv /\ AccountInv => NobodyForgotten
  BY DEF WatchInv, LoginsAtMain, AccountInv, Known, Lost, Closing, NobodyForgotten, Serving, Threads
<1> QED BY <1>1, AccountsInvariant, PTL
----------------------------------------------------------------------------
(* Until a first client has gone, whatever the clients send: no session is *)
(* ended and nothing is closed, so what the main thread and the workers    *)
(* hold of a descriptor stays true without a lock.                         *)

(* No client has ended.                                                    *)
NobodyGone == \A c \in Clients : cstate[c] # "gone"

(* Descriptors that are queued or served by a worker have a session, and   *)
(* sessions a connection.  The one the main thread logs in has none before *)
(* the login, and nobody else has it until the download is over.           *)
AloneInv ==
  /\ pc[Main] \notin {"logout", "close", "spin", "sync_file"}
  /\ \A w \in Workers : pc[w] \notin {"logout", "close"}
  /\ \A f \in Fds : client[f] # None => sock[f] # None
  /\ \A k \in DOMAIN que : client[que[k]] # None
  /\ \A w \in Workers : Serving(w) => client[fd[w]] # None
  /\ Serving(Main) => sock[fd[Main]] # None
  /\ pc[Main] = "recv" => client[fd[Main]] = None
  /\ pc[Main] = "download" =>
       /\ client[fd[Main]] # None
       /\ \A k \in DOMAIN que : que[k] # fd[Main]
       /\ \A w \in Workers : Serving(w) => fd[w] # fd[Main]
  /\ pc[Main] = "add" => client[i] # None

(* Nothing is served or queued at the start.                               *)
LEMMA AloneInit == Init => AloneInv
<1> SUFFICES ASSUME Init PROVE AloneInv
  OBVIOUS
<1>1. /\ Main \in Threads /\ pc[Main] = "select"
      /\ \A w \in Workers : w \in Threads /\ pc[w] = "start"
  BY PoolAssumption DEF Init, Threads
<1>2. \A f \in Fds : client[f] = None
  BY DEF Init
<1>3. DOMAIN que = {}
  BY DEF Init
<1> QED BY <1>1, <1>2, <1>3 DEF AloneInv, Serving

(* Those who have gone have gone for good.                                 *)
LEMMA GoneForGood == TypeInv /\ [Next]_vars /\ NobodyGone' => NobodyGone
<1> SUFFICES ASSUME TypeInv, [Next]_vars, NEW c \in Clients, cstate[c] = "gone"
             PROVE  cstate'[c] = "gone"
  BY DEF NobodyGone
<1>1. CASE UNCHANGED cstate
  BY <1>1
<1>2. ASSUME NEW t \in Threads, Effect(t) PROVE cstate'[c] = "gone"
  <2>1. Peer(t) # None => Peer(t) \in Clients
    BY DEF TypeInv, Peer
  <2> QED BY <1>2, <2>1 DEF Effect, Told, Fate, TypeInv
<1>3. ASSUME NEW d \in Clients, Connect(d) \/ Sends(d) PROVE cstate'[c] = "gone"
  BY <1>3 DEF Connect, Sends, TypeInv
<1>4. CASE Accept
  BY <1>1, <1>4 DEF Accept, clientVars
<1>5. CASE Elsewhere
  BY <1>1, <1>5 DEF Elsewhere
<1>6. CASE UNCHANGED vars
  BY <1>1, <1>6 DEF vars, clientVars
<1> QED BY <1>2, <1>3, <1>4, <1>5, <1>6, Steps, WorkerElsewhere, LoopElsewhere

(* A handler ends no session, since recv fails for nobody.                 *)
LEMMA AloneHandle ==
  ASSUME TypeInv, PoolInv, NobodyGone, AloneInv, NEW t \in Threads, Effect(t)
  PROVE  AloneInv'
<1> USE PoolAssumption
<1>1. /\ fd[t] \in Fds /\ (Peer(t) # None => Peer(t) \in Clients) /\ Main \in Threads
      /\ pc \in [Threads -> Places]
  BY DEF TypeInv, Peer, Threads
<1>2. sock[fd[t]] # None /\ Peer(t) = sock[fd[t]]
  BY <1>1 DEF Effect, AloneInv, Peer, Serving, HandlerPlaces, Threads
<1>3. ~RecvFails(t)
  BY <1>1, <1>2 DEF RecvFails, NobodyGone
<1>4. pc[t] \notin {"logout", "close"}
  BY DEF AloneInv, Threads
<1>5. /\ UNCHANGED <<sock, que, fd>>
      /\ \/ client' = client
         \/ inbox[Peer(t)] = "login" /\ client' = [client EXCEPT ![fd[t]] = Peer(t)]
  BY <1>4 DEF Effect, Sessions
<1>6. \A f \in Fds : client[f] # None => client'[f] # None
  BY <1>1, <1>2, <1>5 DEF TypeInv
<1>7. \A f \in Fds : client'[f] # None => sock'[f] # None
  BY <1>1, <1>2, <1>5 DEF AloneInv, TypeInv
<1>8. /\ \A k \in DOMAIN que : que[k] \in Fds /\ client[que[k]] # None
      /\ \A w \in Workers : fd[w] \in Fds /\ (Serving(w) => client[fd[w]] # None)
  BY DEF TypeInv, AloneInv, Threads
<1>9. CASE t = Main
  <2>1. \A w \in Workers : pc'[w] = pc[w]
    BY <1>1, <1>9 DEF Effect, Moved, Return, Rebuild, Go, Threads
  <2>2. CASE pc[Main] = "recv"
    <3>1. client[fd[Main]] = None
      BY <2>2 DEF AloneInv
    <3>2. \/ pc'[Main] = "rebuild"
          \/ pc'[Main] = "download" /\ client'[fd[Main]] # None
          \/ UNCHANGED pc /\ client' = client
      <4>0. Effect(Main) /\ ~RecvFails(Main)
        BY <1>3, <1>9
      <4>1. CASE Return(Main)
        BY <1>1, <4>1 DEF Return, Rebuild, Go
      <4>2. CASE Go(Main, "download") /\ client'[fd[Main]] # None
        BY <1>1, <4>2 DEF Go
      <4>3. CASE UNCHANGED pc
        <5>1. ~Go(Main, "download") /\ ~Return(Main)
          BY <1>1, <2>2, <4>3 DEF Return, Rebuild, Go
        <5> QED BY <2>2, <4>0, <4>3, <5>1 DEF Effect, Sessions
      <4> QED BY <2>2, <3>1, <4>0, <4>1, <4>2, <4>3 DEF Effect, Moved, mainVars
    <3> QED BY <2>1, <2>2, <3>1, <3>2, <1>2, <1>5, <1>6, <1>7, <1>8, <1>9
            DEF AloneInv, Serving
  <2>3. CASE pc[Main] # "recv"
    <3>1. pc[Main] = "download"
      BY <1>9, <2>3 DEF Effect, AloneInv, HandlerPlaces
    <3>2. pc'[Main] = "rebuild" \/ UNCHANGED pc
      BY <1>1, <1>4, <1>9, <3>1 DEF Effect, Moved, Return, Rebuild, Go
    <3>3. CASE pc'[Main] = "rebuild"
      BY <2>1, <3>3, <1>5, <1>6, <1>7, <1>8 DEF AloneInv, Serving
    <3>4. CASE UNCHANGED pc
      <4>1. client'[fd[Main]] # None /\ sock[fd[Main]] # None
        BY <1>1, <1>2, <1>6, <1>9, <3>1 DEF AloneInv
      <4> QED BY <3>1, <3>4, <4>1, <1>5, <1>6, <1>7, <1>8 DEF AloneInv, Serving
    <3> QED BY <3>2, <3>3, <3>4
  <2> QED BY <2>2, <2>3
<1>10. CASE t # Main
  <2>1. t \in Workers
    BY <1>10 DEF Threads
  <2>2. pc'[Main] = pc[Main] /\ UNCHANGED i /\ \A w \in Workers \ {t} : pc'[w] = pc[w]
    BY <1>1, <1>10 DEF Effect, Moved, Return, Go, mainVars, Threads
  <2>3. Serving(t) /\ pc'[t] \notin {"logout", "close"}
    BY <1>1, <1>3, <1>4, <1>10 DEF Effect, Moved, Return, Go, Serving, HandlerPlaces
  <2>4. client'[fd[Main]] = client[fd[Main]] \/ pc[Main] # "recv"
    BY <1>1, <1>5, <1>8, <2>1, <2>3 DEF AloneInv, TypeInv
  <2>5. pc[Main] = "add" => i \in Fds
    BY DEF TypeInv
  <2>6. fd[Main] \in Fds
    BY <1>1 DEF TypeInv
  <2> QED BY <2>1, <2>2, <2>3, <2>4, <2>5, <2>6, <1>2, <1>5, <1>6, <1>7, <1>8
          DEF AloneInv, Serving
<1> QED BY <1>9, <1>10

(* accept: the descriptor was free, so it has no session and is nobody's.  *)
LEMMA AloneAccepts ==
  ASSUME TypeInv, AloneInv, NEW f, Accepts(f)
  PROVE  AloneInv'
<1> USE PoolAssumption
<1>1. /\ f \in Fds /\ Main \in Threads /\ Main \notin Workers /\ client[f] = None
      /\ sock'[f] # None /\ \A g \in Fds \ {f} : sock'[g] = sock[g]
  BY DEF Accepts, TypeInv, AloneInv, Threads
<1>2. /\ pc'[Main] = "recv" /\ fd'[Main] = f /\ UNCHANGED <<client, que, i>>
      /\ \A w \in Workers : pc'[w] = pc[w] /\ fd'[w] = fd[w]
  BY <1>1 DEF Accepts, TypeInv, Threads
<1> QED BY <1>1, <1>2 DEF AloneInv, Serving

(* What is queued has a session, and so what a worker takes off the queue. *)
LEMMA AloneElsewhere ==
  ASSUME TypeInv, AloneInv, Elsewhere
  PROVE  AloneInv'
<1> USE PoolAssumption
<1>1. /\ que \in Seq(Fds) /\ Len(que) \in Nat /\ DOMAIN que = 1..Len(que)
      /\ Main \in Threads /\ Main \notin Workers
      /\ pc \in [Threads -> Places] /\ fd \in [Threads -> Fds]
      /\ UNCHANGED <<sock, client>>
  BY DEF TypeInv, Threads, Elsewhere
<1>2. CASE /\ \E w \in Workers, place \in {"check", "recv", "wait", "woken"} :
                /\ pc[w] \notin HandlerPlaces
                /\ pc' = [pc EXCEPT ![w] = place]
                /\ IF place = "recv" THEN que # <<>> /\ fd' = [fd EXCEPT ![w] = que[Len(que)]]
                                     ELSE UNCHANGED fd
           /\ que' \in {que, SubSeq(que, 1, Len(que) - 1)}
           /\ UNCHANGED <<readSet, i>>
  <2>1. PICK w \in Workers, place \in {"check", "recv", "wait", "woken"} :
          /\ pc' = [pc EXCEPT ![w] = place]
          /\ IF place = "recv" THEN que # <<>> /\ fd' = [fd EXCEPT ![w] = que[Len(que)]]
                               ELSE UNCHANGED fd
    BY <1>2
  <2>2. \A k \in DOMAIN que' : k \in DOMAIN que /\ que'[k] = que[k]
    BY <1>1, <1>2
  <2>3. /\ pc'[Main] = pc[Main] /\ fd'[Main] = fd[Main] /\ UNCHANGED i
        /\ \A v \in Workers \ {w} : pc'[v] = pc[v] /\ fd'[v] = fd[v]
        /\ w \in Threads /\ pc'[w] = place
    BY <1>1, <1>2, <2>1 DEF Threads
  <2>4. Serving(w)' => Len(que) \in DOMAIN que /\ fd'[w] = que[Len(que)]
    BY <1>1, <2>1, <2>3 DEF Serving
  <2> QED BY <1>1, <2>2, <2>3, <2>4 DEF AloneInv, Serving
<1>3. CASE /\ pc'[Main] \in LoopPlaces
           /\ \A w \in Workers : pc'[w] = pc[w] \/ (pc[w] = "wait" /\ pc'[w] = "woken")
           /\ que' = que \/ (que' = Append(que, i) /\ pc[Main] = "add")
           /\ pc'[Main] = "add" => i' = i /\ client[i] # None
           /\ UNCHANGED fd
  <2>1. \A k \in DOMAIN que' : client[que'[k]] # None
    <3>1. CASE que' = que
      BY <3>1 DEF AloneInv
    <3>2. CASE que' = Append(que, i) /\ pc[Main] = "add"
      <4>1. i \in Fds /\ client[i] # None
        BY <3>2 DEF TypeInv, AloneInv
      <4>2. /\ DOMAIN que' = 1..(Len(que) + 1) /\ que'[Len(que) + 1] = i
            /\ \A k \in 1..Len(que) : que'[k] = que[k]
        BY <1>1, <3>2, <4>1
      <4> QED BY <1>1, <4>1, <4>2 DEF AloneInv
    <3> QED BY <1>3, <3>1, <3>2
  <2>2. \A w \in Workers : (Serving(w)' <=> Serving(w)) /\ pc'[w] \notin {"logout", "close"}
    BY <1>3 DEF Serving, AloneInv
  <2> QED BY <1>1, <1>3, <2>1, <2>2 DEF AloneInv, Serving, LoopPlaces
<1> QED BY <1>2, <1>3 DEF Elsewhere

(* Every step before somebody goes keeps the readers apart.                *)
LEMMA AloneNext ==
  TypeInv /\ PoolInv /\ (NobodyGone => AloneInv) /\ [Next]_vars => (NobodyGone => AloneInv)'
<1> SUFFICES ASSUME TypeInv, PoolInv, NobodyGone => AloneInv, [Next]_vars, NobodyGone'
             PROVE  AloneInv'
  OBVIOUS
<1>1. NobodyGone /\ AloneInv
  BY GoneForGood
<1>2. CASE UNCHANGED <<sock, client, que, pc, fd, i>>
  BY <1>1, <1>2 DEF AloneInv, Serving
<1>3. ASSUME NEW c \in Clients, Connect(c) \/ Sends(c) PROVE AloneInv'
  BY <1>2, <1>3 DEF Connect, Sends, tableVars, poolVars, mainVars
<1>4. CASE Accept
  <2>1. CASE pc' = [pc EXCEPT ![Main] = "rebuild"] /\ UNCHANGED <<sock, fd, client, que>>
    <3>1. pc'[Main] = "rebuild" /\ \A w \in Workers : pc'[w] = pc[w]
      BY <2>1, PoolAssumption DEF TypeInv, Threads
    <3> QED BY <1>1, <2>1, <3>1 DEF AloneInv, Serving
  <2> QED BY <1>1, <1>4, <2>1, AcceptAccepts, AloneAccepts
<1>5. CASE UNCHANGED vars
  BY <1>2, <1>5 DEF vars, tableVars, poolVars, mainVars
<1> QED BY <1>1, <1>3, <1>4, <1>5, Steps, AloneHandle, AloneElsewhere, WorkerElsewhere,
           LoopElsewhere

(* What the following theorems rest on.                                    *)
LEMMA AloneInvariant == Spec => [](TypeInv /\ PoolInv /\ (NobodyGone => AloneInv))
<1>1. Init => TypeInv /\ PoolInv /\ (NobodyGone => AloneInv)
  BY TypeInvInit, PoolInvInit, AloneInit
<1>2. TypeInv /\ PoolInv /\ (NobodyGone => AloneInv) /\ [Next]_vars
        => (TypeInv /\ PoolInv /\ (NobodyGone => AloneInv))'
  BY TypeNext, PoolInvNext, AloneNext DEF PoolInv
<1> QED BY <1>1, <1>2, PTL DEF Spec

(* Until a first client has gone, no two threads read from one connection, *)
(* the main thread in a login included, duplicates in the queue            *)
(* notwithstanding.                                                        *)
THEOREM ReadersAreAlone == Spec => [](NobodyGone => OneReaderPerConnection)
<1>1. TypeInv /\ PoolInv /\ (NobodyGone => AloneInv) => (NobodyGone => OneReaderPerConnection)
  <2> SUFFICES ASSUME TypeInv, PoolInv, AloneInv, NEW t \in Threads, NEW u \in Threads,
                      Serving(t), Serving(u), fd[t] = fd[u]
               PROVE  t = u
    BY DEF OneReaderPerConnection
  <2>1. ASSUME NEW v \in Workers, Serving(v), Serving(Main) PROVE fd[v] # fd[Main]
    BY <2>1 DEF AloneInv, Serving
  <2>2. CASE t \in Workers /\ u \in Workers
    BY <2>2, PoolAssumption DEF PoolInv, PlacesOK, MutexHeld, Serving, HandlerPlaces
  <2> QED BY <2>1, <2>2 DEF Threads
<1> QED BY <1>1, AloneInvariant, PTL
----------------------------------------------------------------------------
(* Whom the main thread closes: the one whose end it has met with.         *)
MainEnds ==
  pc[Main] \in {"logout", "close"} => Peer(Main) = None \/ cstate[Peer(Main)] = "gone"

(* A worker can only close the connection under it.                        *)
LEMMA MainEndsNext == TypeInv /\ MainEnds /\ [Next]_vars => MainEnds'
<1> SUFFICES ASSUME TypeInv, MainEnds, [Next]_vars, pc'[Main] \in {"logout", "close"}
             PROVE  Peer(Main)' = None \/ cstate'[Peer(Main)'] = "gone"
  BY DEF MainEnds
<1> USE PoolAssumption
<1>1. /\ Main \in Threads /\ fd[Main] \in Fds /\ pc \in [Threads -> Places]
      /\ Peer(Main) \in Clients \cup {None} /\ Peer(Main) = sock[fd[Main]]
      /\ Peer(Main)' = sock'[fd'[Main]]
  BY DEF TypeInv, Threads, Peer
<1>2. \A c \in Clients : cstate[c] = "gone" => cstate'[c] = "gone"
  <2>1. ASSUME NEW t \in Threads, Effect(t), NEW c \in Clients, cstate[c] = "gone"
        PROVE  cstate'[c] = "gone"
    <3>1. Peer(t) # None => Peer(t) \in Clients
      BY DEF TypeInv, Peer
    <3> QED BY <2>1, <3>1 DEF Effect, Told, Fate, TypeInv
  <2>2. ASSUME NEW d \in Clients, Connect(d) \/ Sends(d), NEW c \in Clients, cstate[c] = "gone"
        PROVE  cstate'[c] = "gone"
    BY <2>2 DEF Connect, Sends, TypeInv
  <2>3. Accept \/ Elsewhere \/ UNCHANGED vars => UNCHANGED cstate
    BY DEF Accept, Elsewhere, vars, clientVars
  <2> QED BY <2>1, <2>2, <2>3, Steps, WorkerElsewhere, LoopElsewhere
<1>a. ASSUME pc'[Main] = pc[Main], fd'[Main] = fd[Main],
             sock'[fd[Main]] \in {sock[fd[Main]], None}
      PROVE  Peer(Main)' = None \/ cstate'[Peer(Main)'] = "gone"
  BY <1>a, <1>1, <1>2 DEF MainEnds
<1>3. ASSUME NEW t \in Threads, Effect(t)
      PROVE  Peer(Main)' = None \/ cstate'[Peer(Main)'] = "gone"
  <2>1. fd' = fd /\ sock'[fd[Main]] \in {sock[fd[Main]], None}
    BY <1>1, <1>3 DEF Effect, TypeInv
  <2>2. CASE t # Main
    <3>1. pc'[Main] = pc[Main]
      BY <1>1, <1>3, <2>2 DEF Effect, Moved, Return, Go
    <3> QED BY <2>1, <3>1, <1>a
  <2>3. CASE t = Main
    <3>1. pc[Main] \in {"logout", "close"} \/ RecvFails(Main)
      BY <1>1, <1>3, <2>3 DEF Effect, Moved, Return, Rebuild, Go
    <3>2. Peer(Main) = None \/ cstate[Peer(Main)] = "gone"
      BY <3>1 DEF MainEnds, RecvFails
    <3> QED BY <1>1, <1>2, <2>1, <3>2
  <2> QED BY <2>2, <2>3
<1>4. ASSUME NEW c \in Clients, Connect(c) \/ Sends(c)
      PROVE  Peer(Main)' = None \/ cstate'[Peer(Main)'] = "gone"
  BY <1>4, <1>a DEF Connect, Sends, tableVars
<1>5. CASE Accept
  <2>1. pc'[Main] \in {"recv", "rebuild"}
    BY <1>1, <1>5, AcceptAccepts DEF Accepts
  <2> QED BY <2>1
<1>6. CASE Elsewhere
  <2>1. UNCHANGED sock /\ pc'[Main] = pc[Main] /\ fd'[Main] = fd[Main]
    BY <1>1, <1>6 DEF Elsewhere, LoopPlaces, TypeInv
  <2> QED BY <2>1, <1>a
<1>7. CASE UNCHANGED vars
  BY <1>7, <1>a DEF vars, tableVars
<1> QED BY <1>3, <1>4, <1>5, <1>6, <1>7, Steps, WorkerElsewhere, LoopElsewhere

(* Who is there is cut off by a worker only, and not before somebody has   *)
(* gone.                                                                   *)
THEOREM CutOffsAreLate == Spec => []CutOffLate
<1>1. Init => MainEnds
  BY DEF Init, MainEnds, Threads
<1>2. TypeInv /\ PoolInv /\ MainEnds /\ [Next]_vars => MainEnds'
  BY MainEndsNext
<1>3. TypeInv /\ PoolInv /\ (NobodyGone => AloneInv) /\ MainEnds => CutOffLate
  BY DEF NobodyGone, AloneInv, MainEnds, CutOffLate, Threads
<1> QED BY <1>1, <1>2, <1>3, AloneInvariant, PTL DEF Spec
=============================================================================
