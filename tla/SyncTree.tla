------------------------------ MODULE SyncTree ------------------------------
(***************************************************************************)
(* The synchronisation protocol of csiebox (SP/MP2, SP/MP4, SP/MP5): one   *)
(* client that keeps the tree cdir, the server that keeps the user's tree  *)
(* sdir, and the connection between them.                                  *)
(*                                                                         *)
(* At login the server sends its whole tree (handle_download), then the    *)
(* client sends its own, and from then on one exchange for each inotify    *)
(* event.  The code of an exchange exists twice, in client_function.c and  *)
(* in server_function.c; here a side s sends or receives, and the actions  *)
(* of the two programs are instances of it.                                *)
(*                                                                         *)
(* A file is the sequence of the blocks that read(fd, buf, 4096) returns:  *)
(* full ones and, last, perhaps a shorter one; its MD5 is taken to be the  *)
(* contents.  A link is <<target>>, a directory <<>>.  Names are those of  *)
(* one directory, and a name never changes its kind.                       *)
(***************************************************************************)
EXTENDS Integers, Sequences, FiniteSets

CONSTANTS
  Names, Kind,         \* the names and what each is: "dir", "file" or "link"
  Full, Short, Empty,  \* blocks of 4096 bytes, shorter ones, the empty read
  Contents, Edited,    \* what users write, and to which names
  InitTrees,           \* the pairs of trees a behaviour may start with
  None,                \* no such name
  Locking,             \* {TRUE}: the flock loop of MP4; {FALSE}: MP2, MP5
  MaxEdits, MaxKills   \* bounds on what users do

Sides  == {"client", "server"}
Blocks == Full \cup Short
Data   == Seq(Blocks)

\* What a name of a kind can hold: only the last block of a file is short.
Holds(d, kind) ==
  /\ kind = "dir"  => d = <<>>
  /\ kind = "link" => Len(d) = 1
  /\ kind = "file" => \A i \in 1 .. Len(d) - 1 : d[i] \in Full

ASSUME SyncAssumption ==
  /\ IsFiniteSet(Names)
  /\ Kind \in [Names -> {"dir", "file", "link"}]
  /\ Edited \subseteq {n \in Names : Kind[n] # "link"}
  /\ Empty \notin Blocks /\ None \notin Data /\ None \notin Names
  /\ Full \cap Short = {}
  /\ Contents \subseteq {d \in Data : Holds(d, "file")}
  /\ InitTrees \subseteq [Sides -> [Names -> Data \cup {None}]]
  /\ \A t \in InitTrees, s \in Sides, n \in Names :
       t[s][n] # None => Holds(t[s][n], Kind[n])
  /\ Locking \subseteq BOOLEAN
  /\ MaxEdits \in Nat /\ MaxKills \in Nat

VARIABLES
  tree,       \* tree[s]: the tree of side s
  at,         \* at[s]: where the program of side s is
  todo,       \* todo[s]: what it goes through: a listing, a batch of events
  inbox,      \* inbox[s]: what is on its way to side s
  file,       \* file[s]: the name side s is receiving
  block,      \* block[s]: the number of blocks side s has sent of a file
  orphan,     \* what the client has open, once the user has removed it
  events,     \* the inotify queue
  watching,   \* the client has added its watch
  missed,     \* names changed with no watch in place (for properties only)
  locking,    \* the build of this behaviour
  edits, kills

local == <<file, block, orphan>>
users == <<events, watching, missed, locking, edits, kills>>
vars  == <<tree, at, todo, inbox, local, users>>

Peer(s) == IF s = "client" THEN "server" ELSE "client"
Idle(s) == IF s = "client" THEN "download" ELSE "handle_request"

Meta(n, d) == [op |-> "meta", name |-> n, data |-> d]
File(b)    == [op |-> "file", data |-> b]
Rm(n)      == [op |-> "rm", name |-> n]
Res(st)    == [op |-> "res", status |-> st]
Login      == [op |-> "login"]
SyncEnd    == [op |-> "end"]
Eof        == [op |-> "eof"]

Sync(n)   == [op |-> "sync", mask |-> "listed", name |-> n]
Event(k, n) == [op |-> IF k = "delete" THEN "rm" ELSE "sync", mask |-> k, name |-> n]

Present(s)  == {n \in Names : tree[s][n] # None}
\* A listing of a directory, in any order.
Listing(S) == {q \in [1 .. Cardinality(S) -> {Sync(n) : n \in S}] :
                 \A n \in S : \E i \in DOMAIN q : q[i].name = n}

Go(s, place)    == at' = [at EXCEPT ![s] = place]
Send(s, m)      == inbox' = [inbox EXCEPT ![Peer(s)] = Append(@, m)]
Receives(s, op) == inbox[s] # <<>> /\ Head(inbox[s]).op = op
Took(s)         == inbox' = [inbox EXCEPT ![s] = Tail(@)]
Reply(s, m)     == inbox' = [inbox EXCEPT ![s] = Tail(@), ![Peer(s)] = Append(@, m)]
SetTree(s, n, d) == tree' = [tree EXCEPT ![s][n] = d]
-----------------------------------------------------------------------------
(* The sending half of an exchange.                                        *)
Current(s) == Head(todo[s])
Turn(s, op) == at[s] = "next" /\ todo[s] # <<>> /\ Current(s).op = op
\* A server whose client is gone is left to ServerBroken.
Connected(s) == s = "server" => at["client"] # "down"

\* The next block of what is open: past the end, read returns 0 bytes.
Opened(s) == IF orphan[s] # None THEN orphan[s] ELSE tree[s][Current(s).name]
ReadBlock(s, i) == IF i <= Len(Opened(s)) THEN Opened(s)[i] ELSE Empty

(* The meta data and the hash are those of this moment.  Of a name that    *)
(* has vanished, lstat leaves a mode of 0.                                 *)
SendMeta(s) ==
  /\ Turn(s, "sync") /\ Connected(s)
  /\ LET n == Current(s).name IN
       /\ Send(s, Meta(n, tree[s][n]))
       /\ Go(s, IF tree[s][n] = None THEN "no_reply" ELSE "meta_reply")
  /\ UNCHANGED <<tree, todo, local, users>>

Done(s) ==
  /\ Go(s, "next")
  /\ todo' = [todo EXCEPT ![s] = Tail(@)]
  /\ block' = [block EXCEPT ![s] = 0]
  /\ orphan' = [orphan EXCEPT ![s] = None]

\* The answer to the last message of an exchange.
Answered(s) ==
  /\ \/ at[s] = "meta_reply" /\ Receives(s, "res") /\ Head(inbox[s]).status = "ok"
     \/ at[s] \in {"last_reply", "link_reply", "rm_reply"} /\ Receives(s, "res")
  /\ Connected(s)
  /\ Took(s)
  /\ Done(s)
  /\ UNCHANGED <<tree, file, users>>

SendBlock(s, i) ==
  LET b == ReadBlock(s, i) IN
    /\ Reply(s, File(b))
    /\ block' = [block EXCEPT ![s] = i]
    /\ Go(s, IF b \in Full THEN "full_reply" ELSE "last_reply")
    /\ UNCHANGED <<tree, todo, file, orphan, users>>

(* The receiver wants more.  If the name has vanished in between, open or  *)
(* readlink fails and nothing is sent.                                     *)
SendMore(s) ==
  /\ at[s] = "meta_reply" /\ Receives(s, "res") /\ Head(inbox[s]).status = "more"
  /\ Connected(s)
  /\ LET n == Current(s).name IN
       \/ tree[s][n] = None /\ Took(s) /\ Done(s) /\ UNCHANGED <<tree, file, users>>
       \/ tree[s][n] # None /\ Kind[n] = "file" /\ SendBlock(s, 1)
       \/ /\ tree[s][n] # None /\ Kind[n] = "link"
          /\ Reply(s, File(tree[s][n][1]))
          /\ Go(s, "link_reply")
          /\ UNCHANGED <<tree, todo, local, users>>

SendNext(s) ==
  /\ at[s] = "full_reply" /\ Receives(s, "res") /\ Connected(s)
  /\ SendBlock(s, block[s] + 1)
-----------------------------------------------------------------------------
(* The receiving half.  A file is opened with O_TRUNC once MORE is sent.   *)
(* Mutant: it is opened without O_TRUNC.                                   *)
MoreMutant(s, n, place) ==
  /\ Reply(s, Res("more"))
  /\ Go(s, place)
  /\ file' = [file EXCEPT ![s] = n]
  /\ IF place = "receive" /\ tree[s][n] = None THEN SetTree(s, n, <<>>) ELSE UNCHANGED tree

More(s, n, place) ==
  /\ Reply(s, Res("more"))
  /\ Go(s, place)
  /\ file' = [file EXCEPT ![s] = n]
  /\ IF place = "receive" THEN SetTree(s, n, <<>>) ELSE UNCHANGED tree

Ok(s) == Reply(s, Res("ok")) /\ UNCHANGED <<at, file>>

\* flock returns 0 when it has the lock, and the loop goes on while it does.
\* Mutant: the loop is in client_download_meta too.
SpinsOnLockMutant(s, n) == locking /\ tree[s][n] # None
SpinsOnLock(s, n) == s = "server" /\ locking /\ tree[s][n] # None

ReceiveMeta(s) ==
  /\ at[s] = Idle(s) /\ Receives(s, "meta")
  /\ LET n == Head(inbox[s]).name
         d == Head(inbox[s]).data
     IN  \/ d = None /\ Took(s) /\ UNCHANGED <<tree, at, file>>
         \/ d # None /\ Kind[n] = "dir" /\ SetTree(s, n, <<>>) /\ Ok(s)
         \/ d # None /\ Kind[n] # "dir" /\ tree[s][n] = d /\ Ok(s) /\ UNCHANGED tree
         \/ /\ d # None /\ Kind[n] = "file" /\ tree[s][n] # d
            /\ IF SpinsOnLock(s, n)
               THEN Go(s, "spin") /\ Took(s) /\ UNCHANGED <<tree, file>>
               ELSE More(s, n, "receive")
         \/ d # None /\ Kind[n] = "link" /\ tree[s][n] # d /\ More(s, n, "receive_link")
  /\ UNCHANGED <<todo, block, orphan, users>>

ReceiveFile(s) ==
  /\ at[s] = "receive" /\ Receives(s, "file")
  /\ LET b == Head(inbox[s]).data IN
       /\ IF b = Empty THEN UNCHANGED tree
          ELSE SetTree(s, file[s], Append(tree[s][file[s]], b))
       /\ IF b \in Full THEN UNCHANGED <<at, file>>
          ELSE Go(s, Idle(s)) /\ file' = [file EXCEPT ![s] = None]
  /\ Reply(s, Res("ok"))
  /\ UNCHANGED <<todo, block, orphan, users>>

(* symlink fails on a link that exists, and then nothing is answered.      *)
ReceiveLink(s) ==
  /\ at[s] = "receive_link" /\ Receives(s, "file")
  /\ IF tree[s][file[s]] # None
     THEN Took(s) /\ UNCHANGED tree
     ELSE /\ SetTree(s, file[s], <<Head(inbox[s]).data>>)
          /\ Reply(s, Res("ok"))
  /\ Go(s, Idle(s))
  /\ file' = [file EXCEPT ![s] = None]
  /\ UNCHANGED <<todo, block, orphan, users>>

(* Anything else ends the loop half-read: what is left of it is no header. *)
OutOfPhase(s) ==
  /\ at[s] \in {"receive", "receive_link"} /\ inbox[s] # <<>>
  /\ Head(inbox[s]).op \notin {"file", "eof"}
  /\ Took(s)
  /\ Go(s, "lost")
  /\ file' = [file EXCEPT ![s] = None]
  /\ UNCHANGED <<tree, todo, block, orphan, users>>
-----------------------------------------------------------------------------
(* The server.                                                             *)
server_login ==
  /\ at["server"] = "handle_request" /\ Receives("server", "login")
  /\ Reply("server", Res("ok"))
  /\ \E q \in Listing(Present("server")) : todo' = [todo EXCEPT !["server"] = q]
  /\ Go("server", "next")
  /\ UNCHANGED <<tree, local, users>>

server_send_meta == SendMeta("server")
server_send_file == SendMore("server") \/ SendNext("server")
handle_download  == Answered("server")

server_sync_end ==
  /\ at["server"] = "next" /\ todo["server"] = <<>> /\ Connected("server")
  /\ Send("server", SyncEnd)
  /\ Go("server", "handle_request")
  /\ UNCHANGED <<tree, todo, local, users>>

server_sync_meta     == ReceiveMeta("server")
server_sync_file     == ReceiveFile("server")
server_sync_symblink == ReceiveLink("server")
server_out_of_phase  == OutOfPhase("server")

\* Mutant: a name that is not there is not answered.
server_rmMutant ==
  /\ at["server"] = "handle_request" /\ Receives("server", "rm")
  /\ LET n == Head(inbox["server"]).name IN
       IF tree["server"][n] = None THEN Took("server") /\ UNCHANGED tree
       ELSE Reply("server", Res("ok")) /\ SetTree("server", n, None)
  /\ UNCHANGED <<at, todo, local, users>>

server_rm ==
  /\ at["server"] = "handle_request" /\ Receives("server", "rm")
  /\ LET n == Head(inbox["server"]).name IN
       IF tree["server"][n] = None
       THEN Reply("server", Res("fail")) /\ UNCHANGED tree
       ELSE Reply("server", Res("ok")) /\ SetTree("server", n, None)
  /\ UNCHANGED <<at, todo, local, users>>

(* The connection has ended: what is being received stays as it is, and    *)
(* handle_request logs the client out.                                     *)
server_recv_fails ==
  /\ at["server"] \in {"receive", "receive_link"} /\ Receives("server", "eof")
  /\ Go("server", "handle_request")
  /\ file' = [file EXCEPT !["server"] = None]
  /\ UNCHANGED <<tree, todo, inbox, block, orphan, users>>

logout ==
  /\ \/ at["server"] = "handle_request" /\ Receives("server", "eof")
     \/ at["server"] = "lost" /\ at["client"] = "down"
  /\ Go("server", "accept")
  /\ inbox' = [s \in Sides |-> <<>>]
  /\ UNCHANGED <<tree, todo, local, users>>

(* The client has gone in the middle of its download: recv fails for every *)
(* name that is left, and the second send on the connection may raise      *)
(* SIGPIPE, which ends the server.                                         *)
ServerBroken ==
  /\ at["client"] = "down"
  /\ at["server"] \in {"next", "meta_reply", "full_reply", "last_reply", "link_reply"}
  /\ \/ Go("server", "handle_request") /\ inbox' = [inbox EXCEPT !["server"] = <<Eof>>]
     \/ Go("server", "dead") /\ inbox' = [s \in Sides |-> <<>>]
  /\ todo' = [todo EXCEPT !["server"] = <<>>]
  /\ block' = [block EXCEPT !["server"] = 0]
  /\ UNCHANGED <<tree, file, orphan, users>>
-----------------------------------------------------------------------------
(* The client.                                                             *)
Connect ==
  /\ at = [client |-> "down", server |-> "accept"]
  /\ at' = [client |-> "login", server |-> "handle_request"]
  /\ inbox' = [client |-> <<>>, server |-> <<Login>>]
  /\ UNCHANGED <<tree, todo, local, users>>

client_login ==
  /\ at["client"] = "login" /\ Receives("client", "res")
  /\ Took("client")
  /\ Go("client", "download")
  /\ UNCHANGED <<tree, todo, local, users>>

client_download_meta     == ReceiveMeta("client")
client_download_file     == ReceiveFile("client")
client_download_symblink == ReceiveLink("client")

(* fts_children lists and stats the tree; a watch is added only if there   *)
(* is something in it.                                                     *)
download_end ==
  /\ at["client"] = "download" /\ Receives("client", "end")
  /\ Took("client")
  /\ \E q \in Listing(Present("client")) : todo' = [todo EXCEPT !["client"] = q]
  /\ Go("client", "listed")
  /\ UNCHANGED <<tree, local, users>>

add_watch ==
  /\ at["client"] = "listed"
  /\ watching' = (todo["client"] # <<>>)
  /\ Go("client", "next")
  /\ UNCHANGED <<tree, todo, inbox, local, events, missed, locking, edits, kills>>

client_send_meta == SendMeta("client")
client_send_file == SendMore("client") \/ SendNext("client")
client_sync_file == Answered("client")

client_rm ==
  /\ Turn("client", "rm")
  /\ Send("client", Rm(Current("client").name))
  /\ Go("client", "rm_reply")
  /\ UNCHANGED <<tree, todo, local, users>>

\* One read returns all events that are queued.
read_events ==
  /\ at["client"] = "next" /\ todo["client"] = <<>> /\ events # <<>>
  /\ todo' = [todo EXCEPT !["client"] = events]
  /\ events' = <<>>
  /\ UNCHANGED <<tree, at, inbox, local, watching, missed, locking, edits, kills>>
-----------------------------------------------------------------------------
(* The user, who edits the client's tree, and may kill the client.         *)
Sending(n) == at["client"] \in {"full_reply", "last_reply"} /\ Current("client").name = n
Receiving(n) == at["client"] = "receive" /\ file["client"] = n

(* inotify merges an event with an identical one at the end of its queue.  *)
Notify(k, n) ==
  IF watching
  THEN /\ events' = IF events # <<>> /\ events[Len(events)] = Event(k, n) THEN events
                    ELSE Append(events, Event(k, n))
       /\ UNCHANGED missed
  ELSE /\ missed' = IF \/ at["client"] \in {"listed", "next"}
                       \/ at["client"] # "down" /\ k = "delete"
                    THEN missed \cup {n} ELSE missed
       /\ UNCHANGED events

Edit(k, n, d) ==
  /\ edits < MaxEdits /\ ~ Receiving(n)
  /\ SetTree("client", n, d)
  /\ Notify(k, n)
  /\ edits' = edits + 1
  /\ UNCHANGED <<at, todo, inbox, file, block, watching, locking, kills>>

Create(n) ==
  /\ tree["client"][n] = None
  /\ Edit("create", n, <<>>)
  /\ UNCHANGED orphan
Modify(n, d) ==
  /\ Kind[n] = "file" /\ tree["client"][n] # None
  /\ Edit("modify", n, d)
  /\ UNCHANGED orphan
Remove(n) ==
  /\ tree["client"][n] # None
  /\ Edit("delete", n, None)
  /\ orphan' = IF Sending(n) /\ orphan["client"] = None
               THEN [orphan EXCEPT !["client"] = tree["client"][n]] ELSE orphan

User == \E n \in Edited : Create(n) \/ Remove(n) \/ \E d \in Contents : Modify(n, d)

Kill ==
  /\ at["client"] # "down" /\ kills < MaxKills
  /\ Go("client", "down")
  /\ inbox' = [client |-> <<>>, server |-> Append(inbox["server"], Eof)]
  /\ todo' = [todo EXCEPT !["client"] = <<>>]
  /\ file' = [file EXCEPT !["client"] = None]
  /\ block' = [block EXCEPT !["client"] = 0]
  /\ orphan' = [orphan EXCEPT !["client"] = None]
  /\ events' = <<>> /\ watching' = FALSE /\ missed' = {}
  /\ kills' = kills + 1
  /\ UNCHANGED <<tree, locking, edits>>
-----------------------------------------------------------------------------
Init ==
  /\ tree \in InitTrees
  /\ locking \in Locking
  /\ at = [client |-> "down", server |-> "accept"]
  /\ todo = [s \in Sides |-> <<>>] /\ inbox = [s \in Sides |-> <<>>]
  /\ file = [s \in Sides |-> None] /\ block = [s \in Sides |-> 0]
  /\ orphan = [s \in Sides |-> None]
  /\ events = <<>> /\ watching = FALSE /\ missed = {}
  /\ edits = 0 /\ kills = 0

Server ==
  \/ server_login \/ server_send_meta \/ server_send_file \/ handle_download
  \/ server_sync_end \/ server_sync_meta \/ server_sync_file
  \/ server_sync_symblink \/ server_out_of_phase \/ server_rm
  \/ server_recv_fails \/ logout \/ ServerBroken
Client ==
  \/ Connect \/ client_login \/ client_download_meta \/ client_download_file
  \/ client_download_symblink \/ download_end \/ add_watch
  \/ client_send_meta \/ client_send_file \/ client_sync_file \/ client_rm
  \/ read_events

Next == Server \/ Client \/ User \/ Kill
Spec == Init /\ [][Next]_vars /\ WF_vars(Server) /\ WF_vars(Client)
-----------------------------------------------------------------------------
Messages ==
  [op : {"meta"}, name : Names, data : Data \cup {None}]
    \cup [op : {"file"}, data : Blocks \cup {Empty}] \cup [op : {"rm"}, name : Names]
    \cup [op : {"res"}, status : {"ok", "more", "fail"}] \cup {Login, SyncEnd, Eof}
Items == [op : {"sync", "rm"}, mask : {"listed", "create", "modify", "delete"}, name : Names]

Sender   == {"next", "meta_reply", "full_reply", "last_reply", "link_reply"}
Receiver == {"receive", "receive_link"}

ServerPlaces == Sender \cup Receiver
                  \cup {"accept", "handle_request", "spin", "lost", "dead"}
ClientPlaces == Sender \cup Receiver
                  \cup {"down", "login", "download", "listed", "no_reply", "rm_reply"}

TypeOK ==
  /\ tree \in [Sides -> [Names -> Data \cup {None}]]
  /\ at \in [Sides -> ServerPlaces \cup ClientPlaces]
  /\ at["server"] \in ServerPlaces /\ at["client"] \in ClientPlaces
  /\ todo \in [Sides -> Seq(Items)] /\ events \in Seq(Items)
  /\ inbox \in [Sides -> Seq(Messages)]
  /\ file \in [Sides -> Names \cup {None}] /\ block \in [Sides -> Nat]
  /\ orphan \in [Sides -> Data \cup {None}]
  /\ watching \in BOOLEAN /\ missed \subseteq Names /\ locking \in BOOLEAN
  /\ edits \in Nat /\ kills \in Nat

Downloading == at["client"] \in {"login", "download", "receive", "receive_link"}
NamesIn(q)  == {q[i].name : i \in DOMAIN q}
Pending     == NamesIn(events) \cup NamesIn(todo["client"])

(* Once the client has listed its tree, every name on which the two trees  *)
(* differ is still to be looked at, unless it changed while there was no   *)
(* watch: no event, and no change during a transfer, is lost.              *)
ChangesPending ==
  at["client"] # "down" /\ ~ Downloading =>
    \A n \in Names : tree["client"][n] # tree["server"][n] => n \in Pending \cup missed

Quiet ==
  /\ at = [client |-> "next", server |-> "handle_request"]
  /\ todo["client"] = <<>> /\ events = <<>> /\ inbox = [s \in Sides |-> <<>>]

(* The ways in which the two can wait for each other for ever: the lock;   *)
(* a SIGPIPE; a name that vanished before its meta data was read or before *)
(* its file was opened; a link that has changed.                           *)
Locked   == at["server"] = "spin"
Vanished == at["client"] = "no_reply" \/ at["server"] = "lost"
Dead     == at["server"] = "dead"
LinkRefused == \E s \in Sides : at[s] = "link_reply" /\ at[Peer(s)] = Idle(Peer(s))

(* What the guards of the two programs ask for.                            *)
ReplyCame(s) ==
  Receives(s, "res") /\ (at[s] = "meta_reply" => Head(inbox[s]).status # "fail")

ServerCan ==
  \/ at["server"] = "handle_request" /\ \E op \in {"login", "meta", "rm", "eof"} : Receives("server", op)
  \/ at["server"] \in Receiver /\ inbox["server"] # <<>>
  \/ at["server"] \in Sender /\ (at["client"] = "down" \/ at["server"] = "next" \/ ReplyCame("server"))
  \/ at["server"] = "lost" /\ at["client"] = "down"

ClientCan ==
  \/ at["client"] = "down" /\ at["server"] = "accept"
  \/ at["client"] = "login" /\ Receives("client", "res")
  \/ at["client"] = "download" /\ (Receives("client", "meta") \/ Receives("client", "end"))
  \/ at["client"] \in Receiver /\ Receives("client", "file")
  \/ at["client"] = "listed"
  \/ at["client"] = "next" /\ (todo["client"] # <<>> \/ events # <<>>)
  \/ at["client"] \in (Sender \ {"next"}) \cup {"rm_reply"} /\ ReplyCame("client")

(* There is no other: wherever edits and kills catch client and server,    *)
(* one of them can go on, or they are at rest with every event dealt with, *)
(* or hang in one of these ways.                                           *)
NoOtherHang ==
  ServerCan \/ ClientCan \/ Quiet \/ Locked \/ Vanished \/ Dead \/ LinkRefused

(* So they do go on: unless they are stuck for good, client and server   *)
(* come to rest again and again, every event dealt with.                   *)
Settles == <>[](Locked \/ Vanished \/ Dead \/ LinkRefused) \/ []<>Quiet

(* assignment1_test.py:157 modifies a file and compares the trees      *)
(* after a while: whatever is wrong with names that vanish, with links and *)
(* with a killed client, a file that is only modified arrives.             *)
ChangesArrive == <>[](Vanished \/ Dead \/ LinkRefused) \/ []<>Quiet
=============================================================================
