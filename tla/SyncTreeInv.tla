----------------------------- MODULE SyncTreeInv -----------------------------
(***************************************************************************)
(* Why SyncTree loses no change: the invariant that ChangesPending is a    *)
(* part of.  It says, for each place the client is at, where the server    *)
(* is, what is between them, and what is known of the name the exchange is *)
(* about; and why nobody waits for ever in a way that NoOtherHang does not *)
(* name.                                                                   *)
(***************************************************************************)
EXTENDS SyncTree

Name(s) == Current(s).name

\* What is between the two.
Between(q, r) == inbox["client"] = q /\ inbox["server"] = r
Silence       == Between(<<>>, <<>>)

(* Contents fit their names; what is being received are full blocks.       *)
TreesFit ==
  /\ \A s \in Sides, n \in Names : tree[s][n] # None => Holds(tree[s][n], Kind[n])
  /\ \A s \in Sides : at[s] = "receive" =>
       /\ file[s] \in Names /\ Kind[file[s]] = "file" /\ tree[s][file[s]] # None
       /\ \A i \in 1 .. Len(tree[s][file[s]]) : tree[s][file[s]][i] \in Full
  /\ \A s \in Sides : at[s] = "receive_link" => file[s] \in Names /\ Kind[file[s]] = "link"

(* What a side holds only while it is sending.                             *)
AtRest ==
  /\ orphan["server"] = None
  /\ at["server"] \notin Sender => todo["server"] = <<>>
  /\ at["server"] \in Sender => at["server"] = "next" \/ todo["server"] # <<>>
  /\ at["client"] = "down" \/ Downloading => todo["client"] = <<>>
  /\ at["client"] \notin {"full_reply", "last_reply"} => orphan["client"] = None
  /\ at["client"] \in {"down", "listed"} \/ Downloading => ~ watching
  /\ ~ watching => events = <<>> /\ (at["client"] # "listed" => todo["client"] = <<>>)
  /\ at["client"] = "listed" =>
       \A i \in DOMAIN todo["client"] : todo["client"][i].op = "sync"

(* A removal is followed by another event if the name is there again.      *)
Followed ==
  /\ \A i \in DOMAIN events :
       events[i].op = "rm" /\ tree["client"][events[i].name] # None =>
         \E j \in i + 1 .. Len(events) : events[j].name = events[i].name
  /\ \A i \in DOMAIN todo["client"] :
       todo["client"][i].op = "rm" /\ tree["client"][todo["client"][i].name] # None =>
         \/ todo["client"][i].name \in NamesIn(events)
         \/ \E j \in i + 1 .. Len(todo["client"]) :
              todo["client"][j].name = todo["client"][i].name
-----------------------------------------------------------------------------
(* The client is gone: the server reads what it has left, then the end.    *)
DownPhase ==
  /\ \/ inbox["server"] \in {<<>>, <<Eof>>}
     \/ inbox["server"] = <<inbox["server"][1], Eof>>
  /\ at["server"] = "receive_link" /\ Receives("server", "file") =>
       Head(inbox["server"]).data \in Blocks
-----------------------------------------------------------------------------
(* The download.  What the server holds the client has, or will be sent,   *)
(* or the user has removed it meanwhile.                                   *)
Has(n) == tree["client"][n] # None \/ n \in missed

\* The answer to the login may still be in front of the first message.
Sent(m) ==
  \/ at["client"] = "login" /\ Between(<<Res("ok"), m>>, <<>>)
  \/ at["client"] = "download" /\ Between(<<m>>, <<>>)
NoneSent ==
  \/ at["client"] = "login" /\ Between(<<Res("ok")>>, <<>>)
  \/ at["client"] = "download" /\ Silence

Replied(st)    == Between(<<>>, <<Res(st)>>)
Halfway(place) == at["client"] = place /\ file["client"] = Name("server")
Served         == at["client"] = "download" /\ Replied("ok") /\ Has(Name("server"))

LoggingIn ==
  /\ at["client"] = "login" /\ at["server"] = "handle_request"
  /\ Between(<<>>, <<Login>>)

DownloadMeta ==
  /\ at["server"] = "meta_reply"
  /\ \/ Sent(Meta(Name("server"), tree["server"][Name("server")]))
     \/ Served
     \/ Halfway("receive") /\ Replied("more")
     \/ Halfway("receive_link") /\ Replied("more")

DownloadFile ==
  /\ at["server"] \in {"full_reply", "last_reply"}
  /\ \/ /\ Halfway("receive")
        /\ \E b \in Blocks \cup {Empty} :
             Between(<<File(b)>>, <<>>) /\ (b \in Full <=> at["server"] = "full_reply")
     \/ at["server"] = "full_reply" /\ Halfway("receive") /\ Replied("ok")
     \/ at["server"] = "last_reply" /\ Served

DownloadLink ==
  /\ at["server"] = "link_reply"
  /\ \/ Halfway("receive_link") /\ \E b \in Blocks : Between(<<File(b)>>, <<>>)
     \/ Served
     \/ at["client"] = "download" /\ Silence

Serving ==
  /\ \A n \in Names : tree["server"][n] # None => Has(n) \/ n \in NamesIn(todo["server"])
  /\ \A i \in DOMAIN todo["server"] :
       todo["server"][i].op = "sync" /\ tree["server"][todo["server"][i].name] # None
  /\ \/ at["server"] = "next" /\ NoneSent
     \/ at["server"] = "handle_request" /\ Sent(SyncEnd)
     \/ DownloadMeta \/ DownloadFile \/ DownloadLink

DownloadPhase == LoggingIn \/ Serving
-----------------------------------------------------------------------------
(* The upload.  If there will be another exchange for the name, nothing    *)
(* need be known of this one.                                              *)
Later(n) == n \in missed \cup NamesIn(events) \cup NamesIn(Tail(todo["client"]))

Ready      == at["server"] \in {"handle_request"} \cup Receiver
Agreed(n)  == at["server"] = "handle_request" /\ (Later(n) \/ tree["client"][n] = tree["server"][n])
Asked(m)   == Between(<<>>, <<m>>)
Answer(st) == Between(<<Res(st)>>, <<>>)

\* The first k blocks have been copied.
Copied(n, k) ==
  \/ Later(n)
  \/ /\ tree["client"][n] # None /\ tree["server"][n] # None
     /\ Len(tree["server"][n]) = k /\ k <= Len(tree["client"][n])
     /\ \A i \in 1 .. k : tree["server"][n][i] = tree["client"][n][i]

RmSent(n) ==
  /\ Head(todo["client"]).op = "rm"
  /\ \/ Ready /\ Asked(Rm(n))
     \/ at["server"] = "lost" /\ Silence
     \/ /\ at["server"] = "handle_request" /\ tree["server"][n] = None
        /\ Answer("ok") \/ Answer("fail")

MetaSent(n) ==
  \/ LET d == Head(inbox["server"]).data IN
       Ready /\ Asked(Meta(n, d)) /\ d # None /\ (Later(n) \/ tree["client"][n] = d)
  \/ at["server"] \in {"spin", "lost"} /\ Silence
  \/ Agreed(n) /\ Answer("ok")
  \/ /\ at["server"] \in Receiver /\ file["server"] = n /\ Answer("more")
     /\ at["server"] = "receive" => Copied(n, 0)
     /\ Later(n) \/ tree["client"][n] # None

FileSent(n) ==
  /\ Kind[n] = "file" /\ block["client"] > 0
  /\ Later(n) \/ orphan["client"] = None
  /\ Opened("client") # None
  /\ \/ /\ at["server"] = "receive" /\ file["server"] = n /\ Copied(n, block["client"] - 1)
        /\ \E b \in Blocks \cup {Empty} :
             /\ Asked(File(b)) /\ (b \in Full <=> at["client"] = "full_reply")
             /\ Later(n) \/ b = ReadBlock("client", block["client"])
     \/ /\ at["client"] = "full_reply" /\ at["server"] = "receive" /\ file["server"] = n
        /\ Answer("ok") /\ Copied(n, block["client"])
     \/ at["client"] = "last_reply" /\ Agreed(n) /\ Answer("ok")

LinkSent(n) ==
  /\ Kind[n] = "link"
  /\ \/ /\ at["server"] = "receive_link" /\ file["server"] = n
        /\ \E b \in Blocks : Asked(File(b)) /\ (Later(n) \/ tree["client"][n] = <<b>>)
     \/ Agreed(n) /\ Answer("ok")
     \/ at["server"] = "handle_request" /\ Silence

UploadPhase ==
  LET n == Name("client") IN
  /\ at["client"] \notin {"listed", "next"} => todo["client"] # <<>>
  /\ \/ at["client"] \in {"listed", "next"} /\ Ready /\ Silence
     \/ at["client"] = "no_reply" /\ Ready /\ Asked(Meta(n, None))
     \/ at["client"] = "no_reply" /\ (Ready \/ at["server"] = "lost") /\ Silence
     \/ at["client"] = "rm_reply" /\ RmSent(n)
     \/ at["client"] = "meta_reply" /\ MetaSent(n)
     \/ at["client"] \in {"full_reply", "last_reply"} /\ FileSent(n)
     \/ at["client"] = "link_reply" /\ LinkSent(n)
-----------------------------------------------------------------------------
SyncInv ==
  /\ TypeOK /\ TreesFit /\ AtRest /\ Followed /\ ChangesPending
  /\ IF at["client"] = "down" THEN DownPhase
     ELSE IF Downloading THEN DownloadPhase ELSE UploadPhase
-----------------------------------------------------------------------------
(* Why client and server do not wait for each other in any other way: a    *)
(* killed client leaves the server a request and the end of the            *)
(* connection, or the end alone, and a receiver that has been deserted,    *)
(* because the name has vanished, gets another request.                    *)
EndInSight ==
  at["client"] = "down" =>
    \/ at["server"] \in {"accept", "dead"}
    \/ /\ inbox["server"] # <<>>
       /\ at["server"] = "handle_request" =>
            \E op \in {"login", "meta", "rm", "eof"} : Receives("server", op)

MoreToCome ==
  /\ at["client"] = "listed" => at["server"] = "handle_request"
  /\ (at["client"] = "meta_reply" /\ tree["client"][Name("client")] = None) =>
       Tail(todo["client"]) # <<>> \/ events # <<>>
  /\ (at["client"] = "next" /\ at["server"] \in Receiver) =>
       todo["client"] # <<>> \/ events # <<>>

HangInv == EndInSight /\ MoreToCome
=============================================================================
