---------------------------- MODULE CsieboxPool ----------------------------
(***************************************************************************)
(* SP/MP4/src/csiebox_server.c: the main thread multiplexes connections    *)
(* with select, logs new ones in itself and queues the requests of the     *)
(* others for a pool of worker threads.                                    *)
(*                                                                         *)
(* A request or an answer is one message.  Every client of the model       *)
(* connects once and behaves as csiebox_client.c: login, then one request  *)
(* at a time.  Descriptors are given out as accept does, lowest first, and *)
(* come back when the server closes them, so a number can name two         *)
(* connections in turn.                                                    *)
(***************************************************************************)
EXTENDS Naturals, Sequences, FiniteSets

CONSTANTS
  Clients,      \* client processes, one connection each
  BadClients,   \* those whose user name or password may be wrong
  Leavers,      \* those that may end at any time
  Changes,      \* the kinds of change clients make to their trees
  Workers,      \* thread_num worker threads
  NumFds,       \* descriptors getdtablesize() leaves for connections
  QueueBound,   \* bound of the model; the code allocates room for 1024
  Main, None

(* How server_function.c goes through the exchange of a change:            *)
(* "sync"          it is answered;                                         *)
(* "modified"      a file the server has with other contents:              *)
(*                 while (!flock(...)) sleep(3) goes on while the lock is  *)
(*                 had, with request_mutex held;                           *)
(* "unanswerable"  mode 0, of a name that vanished before lstat, takes no  *)
(*                 branch; symlink fails on a link that exists, or open on *)
(*                 the server's copy, after MORE is sent;                  *)
(* "unopened"      a new file or link that vanishes before the client has  *)
(*                 opened it: it is asked for MORE and sends nothing.      *)
ChangeKinds == {"sync", "modified", "unanswerable", "unopened"}

Fds     == 1..NumFds
Threads == Workers \cup {Main}

ASSUME PoolAssumption ==
  /\ BadClients \subseteq Clients /\ Leavers \subseteq Clients
  /\ Changes \subseteq ChangeKinds
  /\ IsFiniteSet(Workers) /\ Workers # {} /\ Main \notin Workers
  /\ None \notin Clients \cup Workers \cup {Main}
  /\ NumFds \in Nat \ {0} /\ QueueBound \in Nat \ {0}

VARIABLES
  backlog,   \* connections accept has not returned yet
  sock,      \* the descriptor table: the connection behind a descriptor
  client,    \* server->client: the account logged in on a descriptor
  cstate,    \* what each client process is doing
  inbox,     \* the message of each client the server has not received
  que, mutex, waiting,
  pc, fd,    \* each thread's place in the code and conn_fd
  readSet,   \* read_set: what select is asked, then what it answered
  i,         \* the loop variable of csiebox_server_run
  killed     \* the signal that ended the server process, if one did

clientVars == <<cstate, inbox>>
tableVars  == <<sock, client>>
poolVars   == <<que, mutex, waiting>>
mainVars   == <<readSet, i>>
vars == <<backlog, tableVars, clientVars, poolVars, pc, fd, mainVars, killed>>

Init ==
  /\ backlog = <<>>
  /\ sock = [f \in Fds |-> None]
  /\ client = [f \in Fds |-> None]
  /\ cstate = [c \in Clients |-> "off"]
  /\ inbox = [c \in Clients |-> "empty"]
  /\ que = <<>> /\ mutex = None /\ waiting = 0
  /\ pc = [t \in Threads |-> IF t = Main THEN "select" ELSE "start"]
  /\ fd = [t \in Threads |-> 1]
  /\ readSet = {} /\ i = 1
  /\ killed = "no"
----------------------------------------------------------------------------
(* Clients, SP/MP4/src/csiebox_client.c. *)

(* What follows a message that was read in part, "rest", is read with it.  *)
Send(c, message, next) ==
  /\ inbox' = [inbox EXCEPT ![c] = IF @ = "rest" THEN @ ELSE message]
  /\ cstate' = [cstate EXCEPT ![c] = next]
  /\ UNCHANGED <<backlog, tableVars, poolVars, pc, fd, mainVars, killed>>

Connect(c) ==
  /\ cstate[c] = "off"
  /\ cstate' = [cstate EXCEPT ![c] = "connected"]
  /\ backlog' = Append(backlog, c)
  /\ UNCHANGED <<tableVars, inbox, poolVars, pc, fd, mainVars, killed>>

SendLogin(c) == cstate[c] = "connected" /\ Send(c, "login", "await")

(* The answer to a file the server sends after the login. *)
SendAnswer(c) == cstate[c] = "asked" /\ Send(c, "res", "await")

(* A change of the watched tree: one SYNC_META, HARDLINK or RM exchange. *)
SendSync(c) == cstate[c] = "idle" /\ \E m \in Changes : Send(c, m, "synced")

(* The process ends, its end of the connection is closed; what it has sent *)
(* can still be received.  A refused or dropped client ends.               *)
Leave(c) ==
  /\ cstate[c] \notin {"off", "gone"}
  /\ c \in Leavers \/ cstate[c] \in {"refused", "dropped"}
  /\ Send(c, inbox[c], "gone")

(* What happens to a client on the server's initiative. *)
Meets(c, next) == cstate' = [cstate EXCEPT ![c] = IF @ = "gone" THEN @ ELSE next]

(* The server sends: once the other end is closed, a second send (the      *)
(* SYNC_END after a login, the next part of a download) raises SIGPIPE,    *)
(* which nobody catches.                                                   *)
Reply(c, next) ==
  /\ Meets(c, next)
  /\ killed' \in IF cstate[c] = "gone" THEN {"no", "SIGPIPE"} ELSE {"no"}
----------------------------------------------------------------------------
(* handle_request, in a worker or, for a new connection, in the main       *)
(* thread; recv blocks until a message or the end of the connection.       *)

Go(t, place) == pc' = [pc EXCEPT ![t] = place]

(* FD_ZERO, and the loop that fills read_set with the sessions' descriptors.*)
Rebuild == Go(Main, "rebuild") /\ readSet' = {} /\ i' = 1

(* Mutant: after a login the main thread calls select with the old set.    *)
ReturnMutant(t) ==
  IF t = Main THEN Go(Main, "select") /\ UNCHANGED mainVars
              ELSE Go(t, "check") /\ UNCHANGED mainVars

(* Back in the caller; the main thread begins to rebuild its read_set. *)
Return(t) ==
  IF t = Main THEN Rebuild ELSE Go(t, "check") /\ UNCHANGED mainVars

Peer(t) == sock[fd[t]]

(* recv takes the message, or the start of it only.                        *)
Takes(t, message, left) ==
  /\ Peer(t) # None
  /\ inbox[Peer(t)] = message
  /\ inbox' = [inbox EXCEPT ![Peer(t)] = left]

Receives(t, message) == Takes(t, message, "empty")

(* Mutant: the sockets are non-blocking, and EAGAIN is taken for the end.  *)
RecvFailsMutant(t) == Peer(t) # None => inbox[Peer(t)] = "empty"

(* recv returns 0 at the end of a connection and -1 on a closed descriptor.*)
RecvFails(t) ==
  Peer(t) # None => (inbox[Peer(t)] = "empty" /\ cstate[Peer(t)] = "gone")

EndOfConnection(t) ==
  /\ pc[t] = "recv"
  /\ RecvFails(t)
  /\ Go(t, "logout")
  /\ UNCHANGED <<backlog, tableVars, clientVars, poolVars, fd, mainVars, killed>>

Logout(t) ==
  /\ pc[t] = "logout"
  /\ client' = [client EXCEPT ![fd[t]] = None]
  /\ Go(t, "close")
  /\ UNCHANGED <<backlog, sock, clientVars, poolVars, fd, mainVars, killed>>

Close(t) ==
  /\ pc[t] = "close"
  /\ sock' = [sock EXCEPT ![fd[t]] = None]
  /\ IF Peer(t) = None THEN UNCHANGED cstate ELSE Meets(Peer(t), "dropped")
  /\ UNCHANGED client
  /\ Return(t)
  /\ UNCHANGED <<backlog, inbox, poolVars, fd, killed>>

(* A good login makes the session and starts the download of the home      *)
(* directory, empty or not.  After a bad one the connection is left as is, *)
(* and handle_download follows the session of the descriptor all the same: *)
(* the name of a null session is printed into the path, which is then no   *)
(* directory; one left over from an earlier connection has a directory.    *)
LoginFails(t) ==
  /\ Peer(t) \in BadClients
  /\ Reply(Peer(t), "refused")
  /\ UNCHANGED client
  /\ \/ Return(t)
     \/ client[fd[t]] # None /\ Go(t, "download") /\ UNCHANGED mainVars

(* Mutant: a session that is there is kept.                                *)
LoginSucceedsMutant(t) ==
  /\ client' = [client EXCEPT ![fd[t]] = IF @ = None THEN Peer(t) ELSE @]
  /\ \/ Reply(Peer(t), "idle") /\ Return(t)
     \/ Reply(Peer(t), "asked") /\ Go(t, "download") /\ UNCHANGED mainVars

LoginSucceeds(t) ==
  /\ client' = [client EXCEPT ![fd[t]] = Peer(t)]
  /\ \/ Reply(Peer(t), "idle") /\ Return(t)
     \/ Reply(Peer(t), "asked") /\ Go(t, "download") /\ UNCHANGED mainVars

LoginRequest(t) ==
  /\ pc[t] = "recv"
  /\ Receives(t, "login")
  /\ LoginFails(t) \/ LoginSucceeds(t)
  /\ UNCHANGED <<backlog, sock, poolVars, fd>>

(* server_send_meta waits for the client's answer, then SYNC_END is sent.  *)
(* On a descriptor that was given again it takes the start of what the     *)
(* next client has sent for that answer, and one that logs in takes        *)
(* SYNC_END for a refusal.                                                 *)
Download(t) ==
  /\ pc[t] = "download"
  /\ \/ Receives(t, "res") /\ Reply(Peer(t), "idle")
     \/ Takes(t, "login", "rest") /\ Reply(Peer(t), "refused")
     \/ \E m \in Changes : Takes(t, m, "rest") /\ Reply(Peer(t), "idle")
     \/ RecvFails(t) /\ UNCHANGED clientVars /\ killed' \in {"no", "SIGPIPE"}
  /\ Return(t)
  /\ UNCHANGED <<backlog, tableVars, poolVars, fd>>

(* An exchange of a change.  server_sync_meta and the others follow        *)
(* client[conn_fd]->account; where the name of a null session is only      *)
(* printed, they survive it.  A client that gets no answer waits for ever; *)
(* what it has sent after MORE is left unread if the copy cannot be opened.*)
SyncRequest(t) ==
  /\ pc[t] = "recv"
  /\ \/ Receives(t, "sync") /\ Reply(Peer(t), "idle") /\ Return(t)
     \/ /\ client[fd[t]] # None
        /\ Receives(t, "modified")
        /\ Go(t, "spin") /\ UNCHANGED <<cstate, mainVars, killed>>
     \/ /\ client[fd[t]] # None
        /\ \E left \in {"empty", "rest"} : Takes(t, "unanswerable", left)
        /\ Reply(Peer(t), "unanswered") /\ Return(t)
     \/ /\ client[fd[t]] # None
        /\ Receives(t, "unopened")
        /\ Reply(Peer(t), "idle") /\ Go(t, "sync_file") /\ UNCHANGED mainVars
     \/ /\ client[fd[t]] = None
        /\ \E m \in Changes : Receives(t, m)
        /\ killed' = "SIGSEGV" /\ UNCHANGED <<cstate, pc, mainVars>>
  /\ UNCHANGED <<backlog, tableVars, poolVars, fd>>

(* server_sync_file reads what comes next for the head of the file's data, *)
(* an answer being too short for that; nobody replies to it.               *)
SyncFile(t) ==
  /\ pc[t] = "sync_file"
  /\ \/ /\ \E m \in Changes \cup {"login", "rest"} : Takes(t, m, "rest")
        /\ Meets(Peer(t), "unanswered")
        /\ Return(t)
     \/ Receives(t, "res") /\ UNCHANGED <<cstate, pc, mainVars>>
     \/ RecvFails(t) /\ UNCHANGED clientVars /\ Return(t)
  /\ UNCHANGED <<backlog, tableVars, poolVars, fd, killed>>

(* An answer, or the rest of a message, where a request is expected has    *)
(* the wrong magic number.  A rest comes to its end some time.             *)
WrongMagic(t) ==
  /\ pc[t] = "recv"
  /\ \/ Receives(t, "res")
     \/ \E left \in {"empty", "rest"} : Takes(t, "rest", left)
  /\ Return(t)
  /\ UNCHANGED <<backlog, tableVars, cstate, poolVars, fd, killed>>

HandleRequest(t) ==
  \/ EndOfConnection(t) \/ Logout(t) \/ Close(t)
  \/ LoginRequest(t) \/ Download(t) \/ SyncRequest(t) \/ SyncFile(t) \/ WrongMagic(t)
----------------------------------------------------------------------------
(* handle_requests_loop, the worker threads *)

(* Mutant: waiting-- at every lock, the one before the loop included.      *)
LockMutant(w) ==
  /\ pc[w] \in {"start", "woken"}
  /\ mutex = None
  /\ mutex' = w
  /\ waiting' = waiting - 1
  /\ Go(w, "check")
  /\ UNCHANGED <<backlog, tableVars, clientVars, que, fd, mainVars, killed>>

(* Mutant: waiting-- is forgotten.                                         *)
LockMutant2(w) ==
  /\ pc[w] \in {"start", "woken"}
  /\ mutex = None
  /\ mutex' = w
  /\ Go(w, "check")
  /\ UNCHANGED <<backlog, tableVars, clientVars, que, waiting, fd, mainVars, killed>>

Lock(w) ==
  /\ pc[w] \in {"start", "woken"}
  /\ mutex = None
  /\ mutex' = w
  /\ waiting' = IF pc[w] = "woken" THEN waiting - 1 ELSE waiting
  /\ Go(w, "check")
  /\ UNCHANGED <<backlog, tableVars, clientVars, que, fd, mainVars, killed>>

(* Mutant: the mutex is released around handle_request.                    *)
PopMutant(w) ==
  /\ pc[w] = "check"
  /\ que # <<>>
  /\ fd' = [fd EXCEPT ![w] = que[Len(que)]]
  /\ que' = SubSeq(que, 1, Len(que) - 1)
  /\ mutex' = None
  /\ Go(w, "recv")
  /\ UNCHANGED <<backlog, tableVars, clientVars, waiting, mainVars, killed>>

Pop(w) ==
  /\ pc[w] = "check"
  /\ que # <<>>
  /\ fd' = [fd EXCEPT ![w] = que[Len(que)]]
  /\ que' = SubSeq(que, 1, Len(que) - 1)
  /\ Go(w, "recv")
  /\ UNCHANGED <<backlog, tableVars, clientVars, mutex, waiting, mainVars, killed>>

CondWait(w) ==
  /\ pc[w] = "check"
  /\ que = <<>>
  /\ waiting' = waiting + 1
  /\ mutex' = None
  /\ Go(w, "wait")
  /\ UNCHANGED <<backlog, tableVars, clientVars, que, fd, mainVars, killed>>

(* POSIX lets pthread_cond_wait return without a signal. *)
SpuriousWakeup(w) ==
  /\ pc[w] = "wait"
  /\ Go(w, "woken")
  /\ UNCHANGED <<backlog, tableVars, clientVars, poolVars, fd, mainVars, killed>>
----------------------------------------------------------------------------
(* csiebox_server_run, the main thread *)

(* A descriptor closed since read_set was rebuilt makes select fail with   *)
(* EBADF and leave every bit of the set as it was, the listener's included.*)
SelectCall ==
  /\ pc[Main] = "select"
  /\ IF \E f \in readSet : sock[f] = None
       THEN Go(Main, "accept")
       ELSE Go(Main, "selecting")
  /\ UNCHANGED <<backlog, tableVars, clientVars, poolVars, fd, mainVars, killed>>

Readable(f) ==
  sock[f] # None /\ (inbox[sock[f]] # "empty" \/ cstate[sock[f]] = "gone")

SelectReturn ==
  /\ pc[Main] = "selecting"
  /\ readSet' = {f \in readSet : Readable(f)}
  /\ \/ backlog # <<>> /\ Go(Main, "accept")
     \/ backlog = <<>> /\ readSet' # {} /\ Go(Main, "scan")
  /\ i' = 1
  /\ UNCHANGED <<backlog, tableVars, clientVars, poolVars, fd, killed>>

FreeFds == {f \in Fds : sock[f] = None}

(* Mutant: the first request of a connection is left to select as well.    *)
AcceptMutant ==
  /\ pc[Main] = "accept"
  /\ IF FreeFds = {}
       THEN Rebuild /\ UNCHANGED <<backlog, sock, fd>>
       ELSE LET f == CHOOSE f \in FreeFds : \A g \in FreeFds : f <= g
            IN /\ backlog # <<>>
               /\ sock' = [sock EXCEPT ![f] = Head(backlog)]
               /\ fd' = [fd EXCEPT ![Main] = f]
               /\ backlog' = Tail(backlog)
               /\ Rebuild
  /\ UNCHANGED <<client, clientVars, poolVars, killed>>

Accept ==
  /\ pc[Main] = "accept"
  /\ IF FreeFds = {}
       THEN Rebuild /\ UNCHANGED <<backlog, sock, fd>>
       ELSE LET f == CHOOSE f \in FreeFds : \A g \in FreeFds : f <= g
            IN /\ backlog # <<>>
               /\ sock' = [sock EXCEPT ![f] = Head(backlog)]
               /\ fd' = [fd EXCEPT ![Main] = f]
               /\ backlog' = Tail(backlog)
               /\ Go(Main, "recv")
               /\ UNCHANGED mainVars
  /\ UNCHANGED <<client, clientVars, poolVars, killed>>

(* The loops over server->client[] take no lock.  First                    *)
(* if (!server->client[i]) continue;                                       *)
LoopCheck ==
  /\ pc[Main] \in {"scan", "rebuild"}
  /\ i \in Fds
  /\ IF client[i] = None
       THEN i' = i + 1 /\ UNCHANGED pc
       ELSE Go(Main, IF pc[Main] = "scan" THEN "test" ELSE "set") /\ UNCHANGED i
  /\ UNCHANGED <<backlog, tableVars, clientVars, poolVars, fd, readSet, killed>>

(* then FD_ISSET(server->client[i]->conn_fd, &read_set), the pointer read  *)
(* again,                                                                  *)
ScanTest ==
  /\ pc[Main] = "test"
  /\ IF client[i] = None
       THEN killed' = "SIGSEGV" /\ UNCHANGED <<pc, i>>
       ELSE /\ IF i \in readSet
                 THEN Go(Main, "argument") /\ UNCHANGED i
                 ELSE Go(Main, "scan") /\ i' = i + 1
            /\ UNCHANGED killed
  /\ UNCHANGED <<backlog, tableVars, clientVars, poolVars, fd, readSet>>

(* and again for the call add_request(server->client[i]->conn_fd);         *)
ScanArgument ==
  /\ pc[Main] = "argument"
  /\ IF client[i] = None
       THEN killed' = "SIGSEGV" /\ UNCHANGED pc
       ELSE Go(Main, "add") /\ UNCHANGED killed
  /\ UNCHANGED <<backlog, tableVars, clientVars, poolVars, fd, mainVars>>

(* or FD_SET(server->client[i]->conn_fd, &read_set),                       *)
RebuildSet ==
  /\ pc[Main] = "set"
  /\ IF client[i] = None
       THEN killed' = "SIGSEGV" /\ UNCHANGED <<pc, readSet>>
       ELSE /\ readSet' = readSet \cup {i}
            /\ Go(Main, "max_fd")
            /\ UNCHANGED killed
  /\ UNCHANGED <<backlog, tableVars, clientVars, poolVars, fd, i>>

(* and once more, or twice, for max_fd.                                    *)
RebuildMaxFd ==
  /\ pc[Main] = "max_fd"
  /\ IF client[i] = None
       THEN killed' = "SIGSEGV" /\ UNCHANGED <<pc, i>>
       ELSE Go(Main, "rebuild") /\ i' = i + 1 /\ UNCHANGED killed
  /\ UNCHANGED <<backlog, tableVars, clientVars, poolVars, fd, readSet>>

LoopEnd ==
  /\ i \notin Fds
  /\ \/ pc[Main] = "scan" /\ Rebuild
     \/ pc[Main] = "rebuild" /\ Go(Main, "select") /\ UNCHANGED mainVars
  /\ UNCHANGED <<backlog, tableVars, clientVars, poolVars, fd, killed>>

AddRequest ==
  /\ pc[Main] = "add"
  /\ mutex = None
  /\ Len(que) < QueueBound
  /\ que' = Append(que, i)
  /\ Go(Main, "signal")
  /\ UNCHANGED <<backlog, tableVars, clientVars, mutex, waiting, fd, mainVars, killed>>

(* Mutant: the signal is sent to nobody.                                   *)
CondSignalMutant ==
  /\ pc[Main] = "signal"
  /\ Go(Main, "scan")
  /\ i' = i + 1
  /\ UNCHANGED <<backlog, tableVars, clientVars, poolVars, fd, readSet, killed>>

CondSignal ==
  /\ pc[Main] = "signal"
  /\ \/ \E w \in Workers :
          /\ pc[w] = "wait"
          /\ pc' = [pc EXCEPT ![w] = "woken", ![Main] = "scan"]
     \/ /\ \A w \in Workers : pc[w] # "wait"
        /\ Go(Main, "scan")
  /\ i' = i + 1
  /\ UNCHANGED <<backlog, tableVars, clientVars, poolVars, fd, readSet, killed>>
----------------------------------------------------------------------------
ClientStep(c) ==
  Connect(c) \/ SendLogin(c) \/ SendAnswer(c) \/ SendSync(c) \/ Leave(c)

WorkerStep(w) ==
  Lock(w) \/ Pop(w) \/ CondWait(w) \/ SpuriousWakeup(w) \/ HandleRequest(w)

MainStep ==
  \/ SelectCall \/ SelectReturn \/ Accept \/ HandleRequest(Main)
  \/ LoopCheck \/ ScanTest \/ ScanArgument \/ RebuildSet \/ RebuildMaxFd \/ LoopEnd
  \/ AddRequest \/ CondSignal

Next ==
  /\ killed = "no"
  /\ MainStep \/ (\E w \in Workers : WorkerStep(w)) \/ (\E c \in Clients : ClientStep(c))

Spec == Init /\ [][Next]_vars

(* Threads run, and a thread that waits for request_mutex gets it if it    *)
(* comes free again and again (spurious wakeups contend for it).  Clients  *)
(* answer; those of BusySpec also find a change in their tree now and then.*)
FairThreads ==
  /\ WF_vars(killed = "no" /\ MainStep)
  /\ SF_vars(killed = "no" /\ AddRequest)
  /\ \A w \in Workers :
       /\ WF_vars(killed = "no" /\ (Pop(w) \/ CondWait(w) \/ HandleRequest(w)))
       /\ SF_vars(killed = "no" /\ Lock(w))

FairClients ==
  \A c \in Clients :
    WF_vars(killed = "no" /\ (SendLogin(c) \/ SendAnswer(c)))

QuietSpec == Spec /\ FairThreads /\ FairClients

BusySpec ==
  /\ QuietSpec
  /\ \A c \in Clients : WF_vars(killed = "no" /\ SendSync(c))
----------------------------------------------------------------------------
Serving(t) == pc[t] \in {"recv", "logout", "close", "download", "spin", "sync_file"}

TypeOK ==
  /\ backlog \in Seq(Clients)
  /\ sock \in [Fds -> Clients \cup {None}]
  /\ client \in [Fds -> Clients \cup {None}]
  /\ cstate \in [Clients -> {"off", "connected", "await", "asked", "idle",
                            "synced", "unanswered", "refused", "dropped", "gone"}]
  /\ inbox \in [Clients -> {"empty", "login", "res", "rest"} \cup Changes]
  /\ que \in Seq(Fds)
  /\ mutex \in Workers \cup {None}
  /\ waiting \in Nat
  /\ pc \in [Threads -> {"start", "check", "wait", "woken", "recv", "logout",
                         "close", "download", "spin", "sync_file", "select",
                         "selecting", "accept", "scan", "test", "argument", "add",
                         "signal", "rebuild", "set", "max_fd"}]
  /\ fd \in [Threads -> Fds]
  /\ readSet \in SUBSET Fds
  /\ i \in 1..(NumFds + 1)
  /\ killed \in {"no", "SIGSEGV", "SIGPIPE"}

(* A queued request never sleeps with the whole pool: add_request signals  *)
(* after it has released the mutex, and a worker looks at the queue under  *)
(* the mutex before every wait.                                            *)
NoLostWakeup ==
  que # <<>> => \/ pc[Main] = "signal"
               \/ \E w \in Workers : pc[w] # "wait"

(* The pool serves one request at a time: the mutex is released in         *)
(* pthread_cond_wait only, so it is held through the whole of a request.   *)
OneRequestAtATime ==
  \A v, w \in Workers : (Serving(v) /\ Serving(w)) => v = w

(* waiting counts the threads in pthread_cond_wait, the ones that were     *)
(* signalled but do not have the mutex back included.                      *)
WaitingCount == waiting = Cardinality({w \in Workers : pc[w] \in {"wait", "woken"}})

(* A change is never made under the account of another client: whatever    *)
(* is left of an earlier connection on the descriptor, the session that a  *)
(* worker follows when it takes the request is the sender's, or none.      *)
RightAccount ==
  \A f \in Fds :
    sock[f] # None /\ inbox[sock[f]] \in Changes => client[f] \in {sock[f], None}

(* No open connection is forgotten: it has a session, so that select is    *)
(* asked about it, or a thread has it, until the client is refused, is     *)
(* left without an answer or goes.                                         *)
NobodyForgotten ==
  \A f \in Fds :
    sock[f] # None /\ cstate[sock[f]] \notin {"refused", "unanswered", "gone"}
      => client[f] # None \/ \E t \in Threads : Serving(t) /\ fd[t] = f

(* The connection of a client that is there is ended by a worker only,     *)
(* one with the number of a connection whose client has gone: by the main  *)
(* thread, or before anybody has gone, nobody is cut off.                  *)
CutOffLate ==
  \A t \in Threads :
    pc[t] \in {"logout", "close"} /\ Peer(t) # None /\ cstate[Peer(t)] # "gone"
      => t # Main /\ \E c \in Clients : cstate[c] = "gone"

(* At any time at most one thread, the main thread included, reads from a  *)
(* connection, so no thread takes a message meant for another.             *)
OneReaderPerConnection ==
  \A t, u \in Threads :
    (Serving(t) /\ Serving(u) /\ fd[t] = fd[u] /\ Peer(t) # None) => t = u

(* A thread holds request_mutex for ever, or a client will never hear of   *)
(* its change again: the exchanges of server_function.c that do not end.   *)
Jammed ==
  \/ \E t \in Threads : pc[t] = "spin"
  \/ \E c \in Clients : cstate[c] = "unanswered"

(* A client that sends a change, and one that logs in, get their answer:   *)
(* the pool takes every request off its connection.  Only an exchange that *)
(* does not end, and none but those of Jammed, keeps others waiting.       *)
RequestsServed ==
  \A c \in Clients :
    cstate[c] \in {"synced", "await"} ~> (cstate[c] \in {"idle", "refused"} \/ Jammed)

(* What stops a thread.  recv waits while the other end of the connection  *)
(* is there and has sent nothing; select, while nothing has come; accept,  *)
(* while nobody connects; a lock, while another thread has request_mutex.  *)
(* The flock loop of a modified file stops a thread for good.  A spurious  *)
(* wake-up is nothing to count on.                                         *)
WaitsForPeer(t) ==
  /\ pc[t] \in {"recv", "download", "sync_file"}
  /\ Peer(t) # None
  /\ inbox[Peer(t)] = "empty" /\ cstate[Peer(t)] # "gone"

HandlerCan(t) ==
  \/ pc[t] \in {"logout", "close"}
  \/ pc[t] \in {"recv", "download", "sync_file"} /\ ~WaitsForPeer(t)

WorkerCan(w) ==
  \/ pc[w] \in {"start", "woken"} /\ mutex = None
  \/ pc[w] = "check"
  \/ HandlerCan(w)

MainCan ==
  \/ pc[Main] \in {"select", "scan", "test", "argument", "signal", "rebuild", "set",
                    "max_fd"}
  \/ pc[Main] = "selecting" /\ (backlog # <<>> \/ \E f \in readSet : Readable(f))
  \/ pc[Main] = "accept" /\ (backlog # <<>> \/ FreeFds = {})
  \/ pc[Main] = "add" /\ mutex = None /\ Len(que) < QueueBound
  \/ HandlerCan(Main)

Stopped == ~MainCan /\ \A w \in Workers : ~WorkerCan(w)

(* Somebody waits for the server: a connection, a queued descriptor, or a  *)
(* client with a session that has sent something or has ended.             *)
WorkWaits ==
  \/ backlog # <<>> \/ que # <<>>
  \/ \E f \in Fds : client[f] # None /\ Readable(f)

(* The server leaves work lying for three reasons only: a thread waits in  *)
(* recv for a client that has nothing to say, a thread is in the flock     *)
(* loop, or the main thread waits in accept because a closed descriptor    *)
(* made select fail.  Neither a full queue, nor a missed signal, nor a     *)
(* session that select is not asked about ever stops it.                   *)
NoOtherStop ==
  killed = "no" /\ Stopped /\ WorkWaits
    => \/ pc[Main] = "accept"
       \/ \E t \in Threads : WaitsForPeer(t) \/ pc[t] = "spin"
=============================================================================
