--------------------------- MODULE SyncTreeProofs ---------------------------
(***************************************************************************)
(* Proof that SyncInv is an invariant of the synchronisation protocol, and *)
(* with it that no change of the user is lost, for any names, contents,    *)
(* blocks, numbers of edits and kills; and that the two hang in no other   *)
(* way than those SyncTree lists.                                          *)
(***************************************************************************)
EXTENDS SyncTreeInv, SequenceTheorems, FiniteSetTheorems, TLAPS

-----------------------------------------------------------------------------
(* Sequences of one and two messages.                                      *)
LEMMA One ==
  ASSUME NEW m
  PROVE  /\ Head(<<m>>) = m /\ Tail(<<m>>) = <<>> /\ Append(<<>>, m) = <<m>>
         /\ <<m>> # <<>> /\ Len(<<m>>) = 1
OBVIOUS

LEMMA Two ==
  ASSUME NEW S, NEW m \in S, NEW k \in S
  PROVE  /\ Head(<<m, k>>) = m /\ Tail(<<m, k>>) = <<k>>
         /\ Append(<<m>>, k) = <<m, k>> /\ <<m, k>> # <<>>
         /\ <<m, k>>[1] = m /\ <<m, k>>[2] = k
<1>1. <<m, k>> \in Seq(S) /\ <<k>> \in Seq(S) /\ <<m, k>> # <<>>
  OBVIOUS
<1>2. Tail(<<m, k>>) \in Seq(S) /\ Len(Tail(<<m, k>>)) = 1 /\ Tail(<<m, k>>)[1] = k
  BY <1>1
<1>3. Tail(<<m, k>>) = <<k>>
  BY <1>1, <1>2, SeqEqual
<1>4. Head(<<m, k>>) = m
  OBVIOUS
<1>5. Append(<<m>>, k) = <<m, k>>
  <2>1. /\ Append(<<m>>, k) \in Seq(S) /\ Len(Append(<<m>>, k)) = 2
        /\ Append(<<m>>, k)[1] = m /\ Append(<<m>>, k)[2] = k
    BY <1>1
  <2>2. Len(<<m, k>>) = 2 /\ <<m, k>>[1] = m /\ <<m, k>>[2] = k
    OBVIOUS
  <2>3. \A i \in 1 .. 2 : i = 1 \/ i = 2
    OBVIOUS
  <2>4. \A i \in 1 .. Len(Append(<<m>>, k)) : Append(<<m>>, k)[i] = <<m, k>>[i]
    BY <2>1, <2>2, <2>3
  <2> HIDE <2>2
  <2>5. Len(<<m, k>>) = 2
    BY <2>2
  <2> QED
    BY <1>1, <2>1, <2>4, <2>5, SeqEqual
<1>6. <<m, k>>[1] = m /\ <<m, k>>[2] = k
  OBVIOUS
<1> QED
  BY <1>1, <1>3, <1>4, <1>5, <1>6

(* The names in a queue when it grows at its end and loses its head.       *)
LEMMA NamesEmpty == NamesIn(<<>>) = {}
BY DEF NamesIn

LEMMA NamesTail ==
  ASSUME NEW S, NEW q \in Seq(S), q # <<>>
  PROVE  NamesIn(q) = {Head(q).name} \cup NamesIn(Tail(q))
<1>1. Head(q) = q[1] /\ 1 \in DOMAIN q /\ Len(q) \in Nat
  OBVIOUS
<1>2. Tail(q) \in Seq(S) /\ Len(Tail(q)) = Len(q) - 1
      /\ \A i \in 1 .. Len(Tail(q)) : Tail(q)[i] = q[i + 1]
  BY HeadTailProperties
<1>3. ASSUME NEW i \in DOMAIN q PROVE q[i].name \in {Head(q).name} \cup NamesIn(Tail(q))
  <2>1. CASE i = 1
    BY <1>1, <2>1
  <2>2. CASE i # 1
    <3>1. i - 1 \in 1 .. Len(Tail(q)) /\ q[i] = Tail(q)[i - 1]
      BY <1>1, <1>2, <2>2
    <3> QED
      BY <3>1, <1>2 DEF NamesIn
  <2> QED
    BY <2>1, <2>2
<1>4. ASSUME NEW i \in DOMAIN Tail(q) PROVE Tail(q)[i].name \in NamesIn(q)
  <2>1. i + 1 \in DOMAIN q /\ Tail(q)[i] = q[i + 1]
    BY <1>1, <1>2
  <2> QED
    BY <2>1 DEF NamesIn
<1> QED
  BY <1>1, <1>3, <1>4 DEF NamesIn

LEMMA NamesAppend ==
  ASSUME NEW S, NEW q \in Seq(S), NEW e \in S
  PROVE  NamesIn(Append(q, e)) = NamesIn(q) \cup {e.name}
<1>1. /\ DOMAIN Append(q, e) = 1 .. Len(q) + 1 /\ DOMAIN q = 1 .. Len(q) /\ Len(q) \in Nat
      /\ \A i \in 1 .. Len(q) : Append(q, e)[i] = q[i]
      /\ Append(q, e)[Len(q) + 1] = e
  OBVIOUS
<1>2. ASSUME NEW i \in DOMAIN q PROVE q[i].name \in NamesIn(Append(q, e))
  <2>1. i \in DOMAIN Append(q, e) /\ Append(q, e)[i] = q[i]
    BY <1>1
  <2> QED
    BY <2>1 DEF NamesIn
<1>3. e.name \in NamesIn(Append(q, e))
  <2>1. Len(q) + 1 \in DOMAIN Append(q, e)
    BY <1>1
  <2> QED
    BY <1>1, <2>1 DEF NamesIn
<1>4. ASSUME NEW i \in DOMAIN Append(q, e) PROVE Append(q, e)[i].name \in NamesIn(q) \cup {e.name}
  <2>1. i \in DOMAIN q \/ i = Len(q) + 1
    BY <1>1
  <2> QED
    BY <1>1, <2>1 DEF NamesIn
<1> QED
  BY <1>2, <1>3, <1>4 DEF NamesIn

LEMMA NamesTyped ==
  ASSUME NEW q \in Seq(Items)
  PROVE  NamesIn(q) \subseteq Names
<1> SUFFICES ASSUME NEW i \in DOMAIN q PROVE q[i].name \in Names
  BY DEF NamesIn
<1>1. q[i] \in Items
  BY ElementOfSeq
<1> QED
  BY <1>1 DEF Items
-----------------------------------------------------------------------------
(* Messages and items.                                                     *)
LEMMA MessagesMade ==
  /\ \A n \in Names, d \in Data \cup {None} : Meta(n, d) \in Messages
  /\ \A b \in Blocks \cup {Empty} : File(b) \in Messages
  /\ \A n \in Names : Rm(n) \in Messages
  /\ \A st \in {"ok", "more", "fail"} : Res(st) \in Messages
  /\ Login \in Messages /\ SyncEnd \in Messages /\ Eof \in Messages
BY DEF Messages, Meta, File, Rm, Res

LEMMA MessagesRead ==
  /\ \A n, d : Meta(n, d).op = "meta" /\ Meta(n, d).name = n /\ Meta(n, d).data = d
  /\ \A b : File(b).op = "file" /\ File(b).data = b
  /\ \A n : Rm(n).op = "rm" /\ Rm(n).name = n
  /\ \A st : Res(st).op = "res" /\ Res(st).status = st
  /\ Login.op = "login" /\ SyncEnd.op = "end" /\ Eof.op = "eof"
BY DEF Meta, File, Rm, Res, Login, SyncEnd, Eof

LEMMA MessagesHold ==
  ASSUME NEW m \in Messages
  PROVE  /\ m.op = "meta" => m.name \in Names /\ m.data \in Data \cup {None}
         /\ m.op = "file" => m.data \in Blocks \cup {Empty}
         /\ m.op = "rm" => m.name \in Names
BY DEF Messages, Login, SyncEnd, Eof

LEMMA ItemsMade ==
  /\ \A n \in Names : Sync(n) \in Items /\ Sync(n).op = "sync" /\ Sync(n).name = n
  /\ \A n \in Names : \A k \in {"create", "modify", "delete"} :
       /\ Event(k, n) \in Items /\ Event(k, n).name = n
       /\ Event(k, n).op = "rm" <=> k = "delete"
  /\ \A e \in Items : e.name \in Names
BY DEF Items, Sync, Event

LEMMA Peers ==
  /\ Peer("client") = "server" /\ Peer("server") = "client"
  /\ Idle("client") = "download" /\ Idle("server") = "handle_request"
  /\ Sides = {"client", "server"}
BY DEF Peer, Idle, Sides
-----------------------------------------------------------------------------
(* What the helpers of the actions do to one side and to the other.        *)
LEMMA SetTreeEffect ==
  ASSUME TypeOK, NEW s \in Sides, NEW n \in Names, NEW d \in Data \cup {None},
         SetTree(s, n, d)
  PROVE  /\ tree' \in [Sides -> [Names -> Data \cup {None}]]
         /\ tree'[s][n] = d
         /\ \A r \in Sides, m \in Names : r # s \/ m # n => tree'[r][m] = tree[r][m]
         /\ tree'[Peer(s)] = tree[Peer(s)]
BY Peers DEF TypeOK, SetTree

LEMMA ReplyEffect ==
  ASSUME TypeOK, NEW s \in Sides, NEW m \in Messages, inbox[s] # <<>>, Reply(s, m)
  PROVE  /\ inbox' \in [Sides -> Seq(Messages)]
         /\ inbox'[s] = Tail(inbox[s])
         /\ inbox'[Peer(s)] = Append(inbox[Peer(s)], m)
<1>1. Tail(inbox[s]) \in Seq(Messages)
  BY HeadTailProperties DEF TypeOK
<1>2. inbox[Peer(s)] \in Seq(Messages) /\ Append(inbox[Peer(s)], m) \in Seq(Messages)
  BY Peers DEF TypeOK
<1> QED
  BY <1>1, <1>2, Peers DEF TypeOK, Reply

LEMMA TookEffect ==
  ASSUME TypeOK, NEW s \in Sides, inbox[s] # <<>>, Took(s)
  PROVE  /\ inbox' \in [Sides -> Seq(Messages)]
         /\ inbox'[s] = Tail(inbox[s])
         /\ inbox'[Peer(s)] = inbox[Peer(s)]
<1>1. Tail(inbox[s]) \in Seq(Messages)
  BY HeadTailProperties DEF TypeOK
<1> QED
  BY <1>1, Peers DEF TypeOK, Took

LEMMA SendEffect ==
  ASSUME TypeOK, NEW s \in Sides, NEW m \in Messages, Send(s, m)
  PROVE  /\ inbox' \in [Sides -> Seq(Messages)]
         /\ inbox'[s] = inbox[s]
         /\ inbox'[Peer(s)] = Append(inbox[Peer(s)], m)
<1>1. inbox[Peer(s)] \in Seq(Messages) /\ Append(inbox[Peer(s)], m) \in Seq(Messages)
  BY Peers DEF TypeOK
<1> QED
  BY <1>1, Peers DEF TypeOK, Send

LEMMA GoEffect ==
  ASSUME TypeOK, NEW s \in Sides, NEW p, Go(s, p)
  PROVE  /\ at'[s] = p
         /\ at'[Peer(s)] = at[Peer(s)]
         /\ p \in ServerPlaces \cap ClientPlaces =>
              at' \in [Sides -> ServerPlaces \cup ClientPlaces] /\ at'["server"] \in ServerPlaces
                /\ at'["client"] \in ClientPlaces
         /\ s = "server" /\ p \in ServerPlaces =>
              at' \in [Sides -> ServerPlaces \cup ClientPlaces] /\ at'["server"] \in ServerPlaces
                /\ at'["client"] \in ClientPlaces
         /\ s = "client" /\ p \in ClientPlaces =>
              at' \in [Sides -> ServerPlaces \cup ClientPlaces] /\ at'["server"] \in ServerPlaces
                /\ at'["client"] \in ClientPlaces
<1>1. at'[s] = p /\ at'[Peer(s)] = at[Peer(s)]
  BY Peers DEF TypeOK, Go
<1>2. at["server"] \in ServerPlaces /\ at["client"] \in ClientPlaces
  BY DEF TypeOK
<1>3. p \in ServerPlaces \cup ClientPlaces => at' \in [Sides -> ServerPlaces \cup ClientPlaces]
  BY DEF TypeOK, Go
<1> QED
  BY <1>1, <1>2, <1>3, Peers
-----------------------------------------------------------------------------
(* Type correctness, action by action.                                     *)
LEMMA DataFacts ==
  /\ <<>> \in Data /\ <<>> # None
  /\ \A b \in Blocks : <<b>> \in Data /\ <<b>> # None
  /\ \A d \in Data, b \in Blocks : Append(d, b) \in Data /\ Append(d, b) # None
<1>1. None \notin Data
  BY SyncAssumption
<1>2. <<>> \in Data
  BY DEF Data
<1>3. ASSUME NEW b \in Blocks PROVE <<b>> \in Data
  BY DEF Data
<1>4. ASSUME NEW d \in Data, NEW b \in Blocks PROVE Append(d, b) \in Data
  BY DEF Data
<1> QED
  BY <1>1, <1>2, <1>3, <1>4

LEMMA TurnFacts ==
  ASSUME TypeOK, NEW s \in Sides, todo[s] # <<>>
  PROVE  Current(s) \in Items /\ Current(s).name \in Names /\ Tail(todo[s]) \in Seq(Items)
<1>1. todo[s] \in Seq(Items)
  BY DEF TypeOK
<1> QED
  BY <1>1, HeadTailProperties, ItemsMade DEF Current

LEMMA MessageHead ==
  ASSUME TypeOK, NEW s \in Sides, inbox[s] # <<>>
  PROVE  Head(inbox[s]) \in Messages
BY HeadTailProperties DEF TypeOK

LEMMA DoneType ==
  ASSUME TypeOK, NEW s \in Sides, todo[s] # <<>>, Done(s)
  PROVE  /\ at' \in [Sides -> ServerPlaces \cup ClientPlaces]
         /\ at'["server"] \in ServerPlaces /\ at'["client"] \in ClientPlaces
         /\ todo' \in [Sides -> Seq(Items)] /\ block' \in [Sides -> Nat]
         /\ orphan' \in [Sides -> Data \cup {None}]
<1>1. Tail(todo[s]) \in Seq(Items)
  BY TurnFacts
<1>2. "next" \in ServerPlaces \cap ClientPlaces
  BY DEF ServerPlaces, ClientPlaces, Sender
<1>3. Go(s, "next")
  BY DEF Done
<1> QED
  BY <1>1, <1>2, <1>3, GoEffect DEF TypeOK, Done

LEMMA SendMetaType ==
  ASSUME TypeOK, NEW s \in Sides, SendMeta(s), s = "server" => tree[s][Name(s)] # None
  PROVE  TypeOK'
<1> DEFINE n == Current(s).name
<1>1. n \in Names
  BY TurnFacts DEF SendMeta, Turn
<1>2. tree[s][n] \in Data \cup {None}
  BY <1>1 DEF TypeOK
<1>3. Meta(n, tree[s][n]) \in Messages
  BY <1>1, <1>2, MessagesMade
<1>4. inbox' \in [Sides -> Seq(Messages)]
  BY <1>3, SendEffect DEF SendMeta
<1>5. /\ at' \in [Sides -> ServerPlaces \cup ClientPlaces]
      /\ at'["server"] \in ServerPlaces /\ at'["client"] \in ClientPlaces
  <2>1. "meta_reply" \in ServerPlaces \cap ClientPlaces /\ "no_reply" \in ClientPlaces
    BY DEF ServerPlaces, ClientPlaces, Sender
  <2>2. s = "client" \/ s = "server"
    BY DEF Sides
  <2> QED
    BY <2>1, <2>2, GoEffect DEF SendMeta, Name
<1> QED
  BY <1>4, <1>5 DEF TypeOK, SendMeta, local, users

LEMMA AnsweredType ==
  ASSUME TypeOK, NEW s \in Sides, Answered(s), todo[s] # <<>>
  PROVE  TypeOK'
<1>1. inbox' \in [Sides -> Seq(Messages)]
  BY TookEffect DEF Answered, Receives
<1>2. Done(s)
  BY DEF Answered
<1> QED
  BY <1>1, <1>2, DoneType DEF TypeOK, Answered, users

LEMMA OpenedType ==
  ASSUME TypeOK, NEW s \in Sides, todo[s] # <<>>, Opened(s) # None, NEW i \in Nat \ {0}
  PROVE  Opened(s) \in Data /\ ReadBlock(s, i) \in Blocks \cup {Empty}
<1>1. tree[s][Current(s).name] \in Data \cup {None} /\ orphan[s] \in Data \cup {None}
  BY TurnFacts DEF TypeOK
<1>2. Opened(s) \in Data
  BY <1>1 DEF Opened
<1>3. i <= Len(Opened(s)) => Opened(s)[i] \in Blocks
  BY <1>2 DEF Data
<1> QED
  BY <1>2, <1>3 DEF ReadBlock

LEMMA SendBlockType ==
  ASSUME TypeOK, NEW s \in Sides, todo[s] # <<>>, inbox[s] # <<>>, Opened(s) # None,
         NEW i \in Nat \ {0}, SendBlock(s, i)
  PROVE  TypeOK'
<1> DEFINE b == ReadBlock(s, i)
<1>1. b \in Blocks \cup {Empty}
  BY OpenedType
<1>2. inbox' \in [Sides -> Seq(Messages)]
  BY <1>1, ReplyEffect, MessagesMade DEF SendBlock
<1>3. /\ at' \in [Sides -> ServerPlaces \cup ClientPlaces]
      /\ at'["server"] \in ServerPlaces /\ at'["client"] \in ClientPlaces
  <2>1. {"full_reply", "last_reply"} \subseteq ServerPlaces \cap ClientPlaces
    BY DEF ServerPlaces, ClientPlaces, Sender
  <2> QED
    BY <2>1, GoEffect DEF SendBlock
<1> QED
  BY <1>2, <1>3 DEF TypeOK, SendBlock, users

LEMMA SendNextType ==
  ASSUME TypeOK, NEW s \in Sides, SendNext(s), todo[s] # <<>>, Opened(s) # None
  PROVE  TypeOK'
<1>1. block[s] + 1 \in Nat \ {0} /\ inbox[s] # <<>>
  BY DEF TypeOK, SendNext, Receives
<1> QED
  BY <1>1, SendBlockType DEF SendNext

LEMMA SendMoreType ==
  ASSUME TypeOK, TreesFit, NEW s \in Sides, SendMore(s), todo[s] # <<>>
  PROVE  TypeOK'
<1> DEFINE n == Current(s).name
<1>1. n \in Names /\ inbox[s] # <<>>
  BY TurnFacts DEF SendMore, Receives
<1>2. CASE tree[s][n] = None /\ Took(s) /\ Done(s) /\ UNCHANGED <<tree, file, users>>
  BY <1>1, <1>2, TookEffect, DoneType DEF TypeOK, users
<1>3. CASE tree[s][n] # None /\ SendBlock(s, 1)
  <2>1. Opened(s) # None
    BY <1>3 DEF Opened
  <2> QED
    BY <1>1, <1>3, <2>1, SendBlockType
<1>4. CASE /\ tree[s][n] # None /\ Kind[n] = "link"
           /\ Reply(s, File(tree[s][n][1]))
           /\ Go(s, "link_reply")
           /\ UNCHANGED <<tree, todo, local, users>>
  <2>1. tree[s][n] \in Data /\ Len(tree[s][n]) = 1
    BY <1>1, <1>4 DEF TypeOK, TreesFit, Holds
  <2>2. tree[s][n][1] \in Blocks
    BY <2>1 DEF Data
  <2>3. inbox' \in [Sides -> Seq(Messages)]
    BY <1>1, <1>4, <2>2, ReplyEffect, MessagesMade
  <2>4. "link_reply" \in ServerPlaces \cap ClientPlaces
    BY DEF ServerPlaces, ClientPlaces, Sender
  <2> QED
    BY <1>4, <2>3, <2>4, GoEffect DEF TypeOK, local, users
<1> QED
  BY <1>2, <1>3, <1>4 DEF SendMore

LEMMA ReceiveMetaType ==
  ASSUME TypeOK, NEW s \in Sides, ReceiveMeta(s)
  PROVE  TypeOK'
<1> DEFINE n == Head(inbox[s]).name
           d == Head(inbox[s]).data
<1>1. inbox[s] # <<>> /\ n \in Names /\ d \in Data \cup {None}
  BY MessageHead, MessagesHold DEF ReceiveMeta, Receives
<1>2. Res("ok") \in Messages /\ Res("more") \in Messages
  BY MessagesMade
<1>3. {"receive", "receive_link"} \subseteq ServerPlaces \cap ClientPlaces
      /\ "spin" \in ServerPlaces
  BY DEF ServerPlaces, ClientPlaces, Receiver
<1>4. UNCHANGED <<todo, block, orphan, users>>
  BY DEF ReceiveMeta
<1>5. CASE d = None /\ Took(s) /\ UNCHANGED <<tree, at, file>>
  BY <1>1, <1>4, <1>5, TookEffect DEF TypeOK, users
<1>6. CASE SetTree(s, n, <<>>) /\ Ok(s)
  <2>1. tree' \in [Sides -> [Names -> Data \cup {None}]]
    BY <1>1, <1>6, SetTreeEffect, DataFacts
  <2>2. inbox' \in [Sides -> Seq(Messages)]
    BY <1>1, <1>2, <1>6, ReplyEffect DEF Ok
  <2> QED
    BY <1>4, <1>6, <2>1, <2>2 DEF TypeOK, users, Ok
<1>7. CASE Ok(s) /\ UNCHANGED tree
  <2>1. inbox' \in [Sides -> Seq(Messages)]
    BY <1>1, <1>2, <1>7, ReplyEffect DEF Ok
  <2> QED
    BY <1>4, <1>7, <2>1 DEF TypeOK, users, Ok
<1>8. CASE SpinsOnLock(s, n) /\ Go(s, "spin") /\ Took(s) /\ UNCHANGED <<tree, file>>
  <2>1. s = "server"
    BY <1>8 DEF SpinsOnLock
  <2>2. inbox' \in [Sides -> Seq(Messages)]
    BY <1>1, <1>8, TookEffect
  <2>3. /\ at' \in [Sides -> ServerPlaces \cup ClientPlaces]
        /\ at'["server"] \in ServerPlaces /\ at'["client"] \in ClientPlaces
    BY <1>3, <1>8, <2>1, GoEffect
  <2> QED
    BY <1>4, <1>8, <2>2, <2>3 DEF TypeOK, users
<1>9. ASSUME NEW place \in {"receive", "receive_link"}, More(s, n, place) PROVE TypeOK'
  <2>1. inbox' \in [Sides -> Seq(Messages)]
    BY <1>1, <1>2, <1>9, ReplyEffect DEF More
  <2>2. /\ at' \in [Sides -> ServerPlaces \cup ClientPlaces]
        /\ at'["server"] \in ServerPlaces /\ at'["client"] \in ClientPlaces
    BY <1>3, <1>9, GoEffect DEF More
  <2>3. tree' \in [Sides -> [Names -> Data \cup {None}]]
    BY <1>1, <1>9, SetTreeEffect, DataFacts DEF More, TypeOK
  <2> QED
    BY <1>1, <1>4, <1>9, <2>1, <2>2, <2>3 DEF TypeOK, users, More
<1> QED
  BY <1>5, <1>6, <1>7, <1>8, <1>9 DEF ReceiveMeta

LEMMA ReceiveFileType ==
  ASSUME TypeOK, TreesFit, NEW s \in Sides, ReceiveFile(s)
  PROVE  TypeOK'
<1> DEFINE b == Head(inbox[s]).data
<1>1. inbox[s] # <<>> /\ b \in Blocks \cup {Empty}
  BY MessageHead, MessagesHold DEF ReceiveFile, Receives
<1>2. file[s] \in Names /\ tree[s][file[s]] \in Data
  BY DEF ReceiveFile, TreesFit, TypeOK
<1>3. tree' \in [Sides -> [Names -> Data \cup {None}]]
  <2>1. CASE b = Empty
    BY <2>1 DEF ReceiveFile, TypeOK
  <2>2. CASE b # Empty
    BY <1>1, <1>2, <2>2, SetTreeEffect, DataFacts DEF ReceiveFile
  <2> QED
    BY <2>1, <2>2
<1>4. inbox' \in [Sides -> Seq(Messages)]
  BY <1>1, ReplyEffect, MessagesMade DEF ReceiveFile
<1>5. /\ at' \in [Sides -> ServerPlaces \cup ClientPlaces]
      /\ at'["server"] \in ServerPlaces /\ at'["client"] \in ClientPlaces
      /\ file' \in [Sides -> Names \cup {None}]
  <2>1. CASE b \in Full
    BY <2>1 DEF ReceiveFile, TypeOK
  <2>2. CASE b \notin Full
    <3>1. Go(s, Idle(s)) /\ file' = [file EXCEPT ![s] = None]
      BY <2>2 DEF ReceiveFile
    <3>2. (s = "server" => Idle(s) \in ServerPlaces) /\ (s = "client" => Idle(s) \in ClientPlaces)
      BY Peers DEF ServerPlaces, ClientPlaces
    <3> QED
      BY <3>1, <3>2, GoEffect, Peers DEF TypeOK
  <2> QED
    BY <2>1, <2>2
<1> QED
  BY <1>3, <1>4, <1>5 DEF TypeOK, ReceiveFile, users

LEMMA ReceiveLinkType ==
  ASSUME TypeOK, TreesFit, NEW s \in Sides, ReceiveLink(s), Head(inbox[s]).data \in Blocks
  PROVE  TypeOK'
<1>1. inbox[s] # <<>> /\ file[s] \in Names
  BY DEF ReceiveLink, Receives, TreesFit
<1>2. tree' \in [Sides -> [Names -> Data \cup {None}]]
  <2>1. CASE UNCHANGED tree
    BY <2>1 DEF TypeOK
  <2>2. CASE SetTree(s, file[s], <<Head(inbox[s]).data>>)
    BY <1>1, <2>2, SetTreeEffect, DataFacts
  <2> QED
    BY <2>1, <2>2 DEF ReceiveLink
<1>3. inbox' \in [Sides -> Seq(Messages)]
  BY <1>1, ReplyEffect, TookEffect, MessagesMade DEF ReceiveLink
<1>4. /\ at' \in [Sides -> ServerPlaces \cup ClientPlaces]
      /\ at'["server"] \in ServerPlaces /\ at'["client"] \in ClientPlaces
  <2>1. (s = "server" => Idle(s) \in ServerPlaces) /\ (s = "client" => Idle(s) \in ClientPlaces)
    BY Peers DEF ServerPlaces, ClientPlaces
  <2> QED
    BY <2>1, GoEffect, Peers DEF ReceiveLink
<1> QED
  BY <1>2, <1>3, <1>4 DEF TypeOK, ReceiveLink, users
-----------------------------------------------------------------------------
(* What a step leaves alone.                                               *)
LEMMA Calm ==
  ASSUME at'["client"] = "down" \/ Downloading', todo'["client"] = <<>>, events' = <<>>
  PROVE  Followed' /\ ChangesPending'
BY DEF Followed, ChangesPending

LEMMA SameFits ==
  ASSUME TreesFit, UNCHANGED <<tree, file>>,
         \A s \in Sides : at'[s] = at[s] \/ at'[s] \notin Receiver
  PROVE  TreesFit'
<1>1. "receive" \in Receiver /\ "receive_link" \in Receiver
  BY DEF Receiver
<1> QED
  BY <1>1 DEF TreesFit

LEMMA SameFollowed ==
  ASSUME Followed, UNCHANGED <<tree["client"], todo["client"], events>>
  PROVE  Followed'
BY DEF Followed, NamesIn

(* The receiving half keeps contents fit.                                  *)
LEMMA HoldsEmpty == ASSUME NEW k \in {"dir", "file"} PROVE Holds(<<>>, k)
BY DEF Holds

LEMMA SetTreeFits ==
  ASSUME TypeOK, TreesFit, NEW s \in Sides, NEW n \in Names, NEW d \in Data \cup {None},
         SetTree(s, n, d), d # None => Holds(d, Kind[n])
  PROVE  \A r \in Sides, m \in Names : tree'[r][m] # None => Holds(tree'[r][m], Kind[m])
<1>1. \A r \in Sides, m \in Names : r # s \/ m # n => tree'[r][m] = tree[r][m]
  BY SetTreeEffect
<1>2. tree'[s][n] = d
  BY SetTreeEffect
<1> QED
  BY <1>1, <1>2 DEF TreesFit

LEMMA ReceiveMetaFits ==
  ASSUME TypeOK, TreesFit, NEW s \in Sides, ReceiveMeta(s)
  PROVE  TreesFit'
<1> DEFINE n == Head(inbox[s]).name
           d == Head(inbox[s]).data
<1>1. inbox[s] # <<>> /\ n \in Names /\ Kind[n] \in {"dir", "file", "link"}
  BY MessageHead, MessagesHold, SyncAssumption DEF ReceiveMeta, Receives
<1>2. CASE UNCHANGED <<tree, file>> /\ (UNCHANGED at \/ Go(s, "spin"))
  <2>1. "spin" \notin Receiver
    BY DEF Receiver
  <2>2. \A r \in Sides : at'[r] = at[r] \/ at'[r] = "spin"
    BY <1>2, GoEffect, Peers DEF TypeOK
  <2> QED
    BY <1>2, <2>1, <2>2, SameFits
<1>3. CASE Kind[n] = "dir" /\ SetTree(s, n, <<>>) /\ UNCHANGED <<at, file>>
  <2>1. \A r \in Sides, m \in Names : tree'[r][m] # None => Holds(tree'[r][m], Kind[m])
    BY <1>1, <1>3, SetTreeFits, HoldsEmpty, DataFacts
  <2>2. \A r \in Sides : at[r] = "receive" =>
          file[r] \in Names /\ Kind[file[r]] = "file" /\ tree'[r][file[r]] = tree[r][file[r]]
    BY <1>1, <1>3, SetTreeEffect, DataFacts DEF TreesFit
  <2> QED
    BY <1>3, <2>1, <2>2 DEF TreesFit
<1>4. CASE at[s] = Idle(s) /\ Kind[n] = "file" /\ More(s, n, "receive")
  <2>1. SetTree(s, n, <<>>) /\ Go(s, "receive") /\ file' = [file EXCEPT ![s] = n]
    BY <1>4 DEF More
  <2>2. \A r \in Sides, m \in Names : tree'[r][m] # None => Holds(tree'[r][m], Kind[m])
    BY <1>1, <1>4, <2>1, SetTreeFits, HoldsEmpty, DataFacts
  <2>3. tree'[s][n] = <<>> /\ tree'[Peer(s)] = tree[Peer(s)]
    BY <1>1, <2>1, SetTreeEffect, DataFacts
  <2>4. at'[s] = "receive" /\ at'[Peer(s)] = at[Peer(s)] /\ file'[s] = n /\ file'[Peer(s)] = file[Peer(s)]
    BY <2>1, GoEffect, Peers DEF TypeOK
  <2>5. <<>> # None /\ \A i \in 1 .. Len(<<>>) : <<>>[i] \in Full
    BY DataFacts
  <2>6. \A r \in Sides : r = s \/ r = Peer(s)
    BY Peers
  <2> QED
    BY <1>1, <1>4, <2>2, <2>3, <2>4, <2>5, <2>6 DEF TreesFit
<1>5. CASE at[s] = Idle(s) /\ Kind[n] = "link" /\ More(s, n, "receive_link")
  <2>1. UNCHANGED tree /\ Go(s, "receive_link") /\ file' = [file EXCEPT ![s] = n]
    BY <1>5 DEF More
  <2>2. at'[s] = "receive_link" /\ at'[Peer(s)] = at[Peer(s)] /\ file'[s] = n /\ file'[Peer(s)] = file[Peer(s)]
    BY <2>1, GoEffect, Peers DEF TypeOK
  <2>3. \A r \in Sides : r = s \/ r = Peer(s)
    BY Peers
  <2> QED
    BY <1>1, <1>5, <2>1, <2>2, <2>3 DEF TreesFit
<1> QED
  BY <1>2, <1>3, <1>4, <1>5 DEF ReceiveMeta, Ok

LEMMA ReceiveFileFits ==
  ASSUME TypeOK, TreesFit, NEW s \in Sides, ReceiveFile(s)
  PROVE  TreesFit'
<1> DEFINE b == Head(inbox[s]).data
           n == file[s]
           d == tree[s][n]
<1>1. b \in Blocks \cup {Empty} /\ at[s] = "receive"
  BY MessageHead, MessagesHold DEF ReceiveFile, Receives
<1>2. n \in Names /\ d \in Data /\ Kind[n] = "file" /\ \A i \in 1 .. Len(d) : d[i] \in Full
  BY DEF ReceiveFile, TreesFit, TypeOK
<1>3. \A r \in Sides : r = s \/ r = Peer(s)
  BY Peers
<1>4. Empty \notin Full
  BY SyncAssumption DEF Blocks
<1>5. CASE b \in Full
  <2>1. SetTree(s, n, Append(d, b)) /\ UNCHANGED <<at, file>> /\ Append(d, b) \in Data
    BY <1>1, <1>2, <1>4, <1>5, DataFacts DEF ReceiveFile
  <2>2. \A i \in 1 .. Len(Append(d, b)) : Append(d, b)[i] \in Full
    BY <1>2, <1>5 DEF Data
  <2>3. Holds(Append(d, b), Kind[n])
    <3>1. Len(Append(d, b)) \in Nat
      BY <1>2, <1>5 DEF Data
    <3> QED
      BY <1>2, <2>2, <3>1 DEF Holds
  <2>4. \A r \in Sides, m \in Names : tree'[r][m] # None => Holds(tree'[r][m], Kind[m])
    BY <1>2, <2>1, <2>3, SetTreeFits
  <2>5. tree'[s][n] = Append(d, b) /\ tree'[Peer(s)] = tree[Peer(s)] /\ Append(d, b) # None
    <3>1. Append(d, b) # None
      BY <2>1, SyncAssumption
    <3>2. Append(d, b) \in Data \cup {None}
      BY <2>1
    <3>3. SetTree(s, n, Append(d, b)) /\ n \in Names
      BY <1>2, <2>1
    <3> HIDE DEF n, d, b
    <3> QED
      BY <3>1, <3>2, <3>3, SetTreeEffect
  <2> QED
    BY <1>1, <1>2, <1>3, <2>1, <2>2, <2>4, <2>5 DEF TreesFit
<1>6. CASE b \notin Full
  <2>1. Go(s, Idle(s)) /\ file' = [file EXCEPT ![s] = None]
    BY <1>6 DEF ReceiveFile
  <2>2. at'[s] = Idle(s) /\ at'[Peer(s)] = at[Peer(s)] /\ file'[Peer(s)] = file[Peer(s)]
    BY <2>1, GoEffect, Peers DEF TypeOK
  <2>3. tree'[Peer(s)] = tree[Peer(s)]
        /\ \A r \in Sides, m \in Names : tree'[r][m] # None => Holds(tree'[r][m], Kind[m])
    <3>1. CASE b = Empty
      BY <3>1 DEF ReceiveFile, TreesFit
    <3>2. CASE b # Empty
      <4>1. SetTree(s, n, Append(d, b)) /\ Append(d, b) \in Data
        BY <1>1, <1>2, <3>2, DataFacts DEF ReceiveFile
      <4>2. Len(d) \in Nat /\ Len(Append(d, b)) = Len(d) + 1 /\ \A i \in 1 .. Len(d) : Append(d, b)[i] = d[i]
        BY <1>1, <1>2, <3>2 DEF Data
      <4>3. Holds(Append(d, b), Kind[n])
        BY <1>2, <4>2 DEF Holds
      <4> QED
        BY <1>2, <4>1, <4>3, SetTreeFits, SetTreeEffect
    <3> QED
      BY <3>1, <3>2
  <2> QED
    BY <1>3, <2>2, <2>3 DEF TreesFit, Idle
<1> QED
  BY <1>5, <1>6

LEMMA ReceiveLinkFits ==
  ASSUME TypeOK, TreesFit, NEW s \in Sides, ReceiveLink(s), Head(inbox[s]).data \in Blocks
  PROVE  TreesFit'
<1> DEFINE d == <<Head(inbox[s]).data>>
<1>1. file[s] \in Names /\ Kind[file[s]] = "link" /\ d \in Data /\ Len(d) = 1
  BY DataFacts DEF ReceiveLink, TreesFit
<1>2. at'[s] = Idle(s) /\ at'[Peer(s)] = at[Peer(s)] /\ file'[Peer(s)] = file[Peer(s)]
  BY GoEffect, Peers DEF ReceiveLink, TypeOK
<1>3. tree'[Peer(s)] = tree[Peer(s)]
      /\ \A r \in Sides, m \in Names : tree'[r][m] # None => Holds(tree'[r][m], Kind[m])
  <2>1. CASE UNCHANGED tree
    BY <2>1 DEF TreesFit
  <2>2. CASE SetTree(s, file[s], d)
    <3>1. Holds(d, Kind[file[s]])
      BY <1>1 DEF Holds
    <3> QED
      BY <1>1, <2>2, <3>1, SetTreeFits, SetTreeEffect
  <2> QED
    BY <2>1, <2>2 DEF ReceiveLink
<1>4. \A r \in Sides : r = s \/ r = Peer(s)
  BY Peers
<1> QED
  BY <1>2, <1>3, <1>4 DEF TreesFit, Idle
-----------------------------------------------------------------------------
(* What the invariant says of a side that receives or sends.               *)
LEMMA LinkData ==
  ASSUME SyncInv, NEW s \in Sides, ReceiveLink(s)
  PROVE  Head(inbox[s]).data \in Blocks
<1>1. at[s] = "receive_link" /\ inbox[s] # <<>> /\ Head(inbox[s]).op = "file"
  BY DEF ReceiveLink, Receives
<1>2. CASE s = "client"
  <2>1. DownloadPhase
    BY <1>1, <1>2 DEF SyncInv, Downloading
  <2>2. DownloadLink
    BY <1>1, <1>2, <2>1, One, MessagesRead
       DEF DownloadPhase, LoggingIn, Serving, NoneSent, Sent, DownloadMeta, DownloadFile,
           Served, Halfway, Replied, Between
  <2> QED
    BY <1>1, <1>2, <2>2, One, MessagesRead DEF DownloadLink, Served, Silence, Between
<1>3. CASE s = "server"
  <2>1. CASE at["client"] = "down"
    BY <1>1, <1>3, <2>1 DEF SyncInv, DownPhase, Receives
  <2>2. CASE at["client"] # "down" /\ Downloading
    BY <1>1, <1>3, <2>2 DEF SyncInv, DownloadPhase, LoggingIn, Serving, DownloadMeta,
         DownloadFile, DownloadLink
  <2>3. CASE at["client"] # "down" /\ ~ Downloading
    <3>1. UploadPhase
      BY <2>3 DEF SyncInv
    <3>2. at["client"] = "link_reply" /\ LinkSent(Name("client"))
      BY <1>1, <1>3, <3>1, One, MessagesRead
         DEF UploadPhase, RmSent, MetaSent, FileSent, Silence, Agreed, Asked, Answer, Between
    <3> QED
      BY <1>1, <1>3, <3>2, One, MessagesRead
         DEF LinkSent, Silence, Agreed, Asked, Answer, Between
  <2> QED
    BY <2>1, <2>2, <2>3
<1> QED
  BY <1>2, <1>3, Peers

LEMMA ServerSends ==
  ASSUME SyncInv, at["server"] \in Sender, at["client"] # "down"
  PROVE  Downloading /\ Serving
<1>1. Downloading
  <2> SUFFICES ASSUME ~ Downloading PROVE FALSE
    OBVIOUS
  <2>1. UploadPhase
    BY DEF SyncInv
  <2> QED
    BY <2>1 DEF UploadPhase, RmSent, MetaSent, FileSent, LinkSent, Agreed, Ready, Sender, Receiver
<1> QED
  BY <1>1 DEF SyncInv, DownloadPhase, LoggingIn, Sender

LEMMA ServerReceives ==
  ASSUME SyncInv, at["server"] \in {"handle_request"} \cup Receiver, inbox["server"] # <<>>
  PROVE  \/ at["client"] = "down"
         \/ LoggingIn
         \/ at["client"] # "down" /\ ~ Downloading /\ UploadPhase
<1>1. CASE at["client"] # "down" /\ Downloading
  <2>1. DownloadPhase
    BY <1>1 DEF SyncInv
  <2> QED
    BY <2>1 DEF DownloadPhase, Serving, Sent, NoneSent, DownloadMeta, DownloadFile,
         DownloadLink, Between, Receiver
<1> QED
  BY <1>1 DEF SyncInv

LEMMA ClientReceives ==
  ASSUME SyncInv, Downloading, inbox["client"] # <<>>
  PROVE  Serving
BY DEF SyncInv, Downloading, DownloadPhase, LoggingIn, Between

LEMMA ClientUploads ==
  ASSUME SyncInv, at["client"] \notin {"down", "login", "download", "receive", "receive_link"}
  PROVE  ~ Downloading /\ UploadPhase
BY DEF SyncInv, Downloading
-----------------------------------------------------------------------------
(* Steps of the server while the client is down.                           *)
LEMMA DownTail ==
  ASSUME TypeOK, DownPhase, inbox["server"] # <<>>, inbox'["server"] = Tail(inbox["server"])
  PROVE  DownPhase'
<1>1. inbox'["server"] \in {<<>>, <<Eof>>}
  <2>1. CASE inbox["server"] = <<Eof>>
    BY <2>1, One
  <2>2. CASE inbox["server"] = <<inbox["server"][1], Eof>>
    <3>1. inbox["server"] \in Seq(Messages)
      BY Peers DEF TypeOK
    <3>2. inbox["server"][1] \in Messages
      <4>1. Head(inbox["server"]) \in Messages /\ Head(inbox["server"]) = inbox["server"][1]
        BY <3>1, HeadTailProperties
      <4> QED
        BY <4>1
    <3>3. Tail(<<inbox["server"][1], Eof>>) = <<Eof>>
      BY <3>2, Two, MessagesMade
    <3> QED
      BY <2>2, <3>3
  <2> QED
    BY <2>1, <2>2 DEF DownPhase
<1> QED
  BY <1>1, One, MessagesRead DEF DownPhase, Receives

LEMMA DownEnded ==
  ASSUME inbox'["server"] \in {<<>>, <<Eof>>}
  PROVE  DownPhase'
BY One, MessagesRead DEF DownPhase, Receives

\* The server's part of AtRest, and the client's when it is down.
LEMMA DownRest ==
  ASSUME AtRest, at["client"] = "down", at'["client"] = "down",
         todo'["client"] = todo["client"], UNCHANGED <<orphan, events, watching>>,
         at'["server"] \notin Sender => todo'["server"] = <<>>,
         at'["server"] \in Sender => at'["server"] = "next" \/ todo'["server"] # <<>>
  PROVE  AtRest' /\ Followed' /\ ChangesPending'
<1>1. todo["client"] = <<>> /\ ~ watching /\ events = <<>>
  BY DEF AtRest
<1>2. Followed' /\ ChangesPending'
  BY <1>1, Calm
<1>3. ~ Downloading'
  BY DEF Downloading
<1> QED
  BY <1>1, <1>2, <1>3 DEF AtRest

LEMMA DownReceives ==
  ASSUME SyncInv, at["client"] = "down",
         \/ ReceiveMeta("server") \/ ReceiveFile("server") \/ ReceiveLink("server")
  PROVE  SyncInv'
<1>1. TypeOK /\ TreesFit /\ AtRest /\ DownPhase /\ "server" \in Sides
  BY Peers DEF SyncInv
<1>2. TypeOK' /\ TreesFit'
  BY <1>1, LinkData, ReceiveMetaType, ReceiveFileType, ReceiveLinkType,
     ReceiveMetaFits, ReceiveFileFits, ReceiveLinkFits
<1>3. at["server"] \in {"handle_request", "receive", "receive_link"} /\ inbox["server"] # <<>>
  BY Peers DEF ReceiveMeta, ReceiveFile, ReceiveLink, Receives
<1>4. inbox'["server"] = Tail(inbox["server"])
  BY <1>1, <1>3, ReplyEffect, TookEffect, MessagesMade
     DEF ReceiveMeta, ReceiveFile, ReceiveLink, Ok, More
<1>5. at'["client"] = at["client"]
      /\ at'["server"] \in {"handle_request", "receive", "receive_link", "spin"}
  BY <1>1, <1>3, GoEffect, Peers DEF ReceiveMeta, ReceiveFile, ReceiveLink, Ok, More
<1>6. UNCHANGED <<todo, block, orphan, users>>
  BY DEF ReceiveMeta, ReceiveFile, ReceiveLink
<1>7. AtRest' /\ Followed' /\ ChangesPending'
  <2>1. at["server"] \notin Sender /\ at'["server"] \notin Sender
    BY <1>3, <1>5 DEF Sender
  <2> QED
    BY <1>1, <1>5, <1>6, <2>1, DownRest DEF AtRest, users
<1> QED
  BY <1>1, <1>2, <1>3, <1>4, <1>5, <1>7, DownTail DEF SyncInv

LEMMA ListingFacts ==
  ASSUME NEW S \in SUBSET Names, NEW q \in Listing(S)
  PROVE  /\ q \in Seq(Items) /\ NamesIn(q) = S
         /\ \A i \in DOMAIN q : q[i].op = "sync" /\ q[i].name \in S
<1>1. Cardinality(S) \in Nat
  BY SyncAssumption, FS_Subset, FS_CardinalityType
<1>2. q \in [1 .. Cardinality(S) -> {Sync(n) : n \in S}] /\ \A n \in S : \E i \in DOMAIN q : q[i].name = n
  BY DEF Listing
<1>3. \A e \in {Sync(n) : n \in S} : e \in Items /\ e.op = "sync" /\ e.name \in S
  BY ItemsMade
<1>4. q \in Seq(Items)
  BY <1>1, <1>2, <1>3
<1>5. \A i \in DOMAIN q : q[i].op = "sync" /\ q[i].name \in S
  BY <1>2, <1>3
<1>6. NamesIn(q) = S
  BY <1>2, <1>5 DEF NamesIn
<1> QED
  BY <1>4, <1>5, <1>6

LEMMA LoginTypes ==
  ASSUME TypeOK, TreesFit, server_login
  PROVE  /\ TypeOK' /\ TreesFit' /\ inbox["server"] # <<>>
         /\ inbox'["server"] = Tail(inbox["server"])
         /\ inbox'["client"] = Append(inbox["client"], Res("ok"))
         /\ at'["server"] = "next" /\ at'["client"] = at["client"]
         /\ todo'["client"] = todo["client"]
         /\ NamesIn(todo'["server"]) = Present("server")
         /\ \A i \in DOMAIN todo'["server"] :
              todo'["server"][i].op = "sync" /\ todo'["server"][i].name \in Present("server")
<1>1. "server" \in Sides /\ inbox["server"] # <<>> /\ Present("server") \in SUBSET Names
  BY Peers DEF server_login, Receives, Present
<1>2. PICK q \in Listing(Present("server")) : todo' = [todo EXCEPT !["server"] = q]
  BY DEF server_login
<1>3. /\ q \in Seq(Items) /\ NamesIn(q) = Present("server")
      /\ \A i \in DOMAIN q : q[i].op = "sync" /\ q[i].name \in Present("server")
  BY <1>1, ListingFacts
<1>4. /\ inbox' \in [Sides -> Seq(Messages)]
      /\ inbox'["server"] = Tail(inbox["server"])
      /\ inbox'["client"] = Append(inbox["client"], Res("ok"))
  BY <1>1, ReplyEffect, MessagesMade, Peers DEF server_login
<1>5. todo'["client"] = todo["client"] /\ todo'["server"] = q /\ todo' \in [Sides -> Seq(Items)]
  BY <1>2, <1>3, Peers DEF TypeOK
<1>6. "next" \in ServerPlaces \cap ClientPlaces /\ "next" \notin Receiver
  BY DEF ServerPlaces, ClientPlaces, Sender, Receiver
<1>7. /\ at'["server"] = "next" /\ at'["client"] = at["client"]
      /\ at' \in [Sides -> ServerPlaces \cup ClientPlaces]
      /\ at'["server"] \in ServerPlaces /\ at'["client"] \in ClientPlaces
  BY <1>1, <1>6, GoEffect, Peers DEF server_login
<1>8. TypeOK'
  BY <1>4, <1>5, <1>7 DEF TypeOK, server_login, local, users
<1>9. TreesFit'
  <2>1. \A s \in Sides : at'[s] = at[s] \/ at'[s] \notin Receiver
    BY <1>6, <1>7, Peers
  <2> QED
    BY <2>1, SameFits DEF server_login, local
<1> QED
  BY <1>1, <1>3, <1>4, <1>5, <1>7, <1>8, <1>9

LEMMA DownOthers ==
  ASSUME SyncInv, at["client"] = "down",
         \/ server_login \/ server_rm \/ OutOfPhase("server")
         \/ server_recv_fails \/ logout \/ ServerBroken
  PROVE  SyncInv'
<1>1. TypeOK /\ TreesFit /\ AtRest /\ DownPhase /\ "server" \in Sides
  BY Peers DEF SyncInv
<1>2. todo["client"] = <<>>
  BY <1>1 DEF AtRest
<1>3. ASSUME TypeOK', TreesFit', DownPhase', at'["client"] = "down",
             todo'["client"] = todo["client"], UNCHANGED <<orphan, events, watching>>,
             at'["server"] \notin Sender => todo'["server"] = <<>>,
             at'["server"] \in Sender => at'["server"] = "next" \/ todo'["server"] # <<>>
      PROVE  SyncInv'
  <2>1. AtRest' /\ Followed' /\ ChangesPending'
    BY <1>1, <1>3, DownRest
  <2> QED
    BY <1>3, <2>1 DEF SyncInv
<1>4. CASE server_login
  <2>1. /\ TypeOK' /\ TreesFit' /\ inbox["server"] # <<>>
        /\ inbox'["server"] = Tail(inbox["server"])
        /\ at'["server"] = "next" /\ at'["client"] = at["client"]
        /\ todo'["client"] = todo["client"]
    BY <1>1, <1>4, LoginTypes
  <2>2. DownPhase'
    BY <1>1, <2>1, DownTail
  <2>3. "next" \in Sender
    BY DEF Sender
  <2> QED
    BY <1>3, <1>4, <2>1, <2>2, <2>3 DEF server_login, local, users
<1>5. CASE server_rm
  <2> DEFINE n == Head(inbox["server"]).name
  <2>1. inbox["server"] # <<>> /\ n \in Names
    BY <1>1, <1>5, MessageHead, MessagesHold DEF server_rm, Receives
  <2>2. inbox' \in [Sides -> Seq(Messages)] /\ inbox'["server"] = Tail(inbox["server"])
    BY <1>1, <1>5, <2>1, ReplyEffect, MessagesMade DEF server_rm
  <2>3. DownPhase'
    BY <1>1, <2>1, <2>2, DownTail
  <2>4. UNCHANGED tree \/ SetTree("server", n, None)
    BY <1>5 DEF server_rm
  <2>5. tree' \in [Sides -> [Names -> Data \cup {None}]]
        /\ \A r \in Sides, m \in Names : tree'[r][m] # None => Holds(tree'[r][m], Kind[m])
    BY <1>1, <2>1, <2>4, SetTreeEffect, SetTreeFits DEF TypeOK, TreesFit
  <2>6. UNCHANGED <<at, todo, local, users>>
    BY <1>5 DEF server_rm
  <2>7. TypeOK'
    BY <1>1, <2>2, <2>5, <2>6 DEF TypeOK, local, users
  <2>8. tree'["client"] = tree["client"] /\ at["server"] = "handle_request"
    BY <1>1, <1>5, <2>1, <2>4, SetTreeEffect, Peers DEF server_rm
  <2>9. TreesFit'
    BY <1>1, <2>5, <2>6, <2>8, Peers DEF TreesFit, local
  <2> QED
    BY <1>1, <1>3, <2>3, <2>6, <2>7, <2>9 DEF AtRest, local, users
<1>6. CASE OutOfPhase("server")
  <2>1. inbox["server"] # <<>> /\ at["server"] \in Receiver
    BY <1>6 DEF OutOfPhase, Receiver
  <2>2. inbox' \in [Sides -> Seq(Messages)] /\ inbox'["server"] = Tail(inbox["server"])
    BY <1>1, <1>6, <2>1, TookEffect DEF OutOfPhase
  <2>3. DownPhase'
    BY <1>1, <2>1, <2>2, DownTail
  <2>4. "lost" \in ServerPlaces /\ "lost" \notin Sender \cup Receiver
    BY DEF ServerPlaces, Sender, Receiver
  <2>5. /\ at'["server"] = "lost" /\ at'["client"] = at["client"]
        /\ at' \in [Sides -> ServerPlaces \cup ClientPlaces]
        /\ at'["server"] \in ServerPlaces /\ at'["client"] \in ClientPlaces
    BY <1>1, <1>6, <2>4, GoEffect, Peers DEF OutOfPhase
  <2>6. file' = [file EXCEPT !["server"] = None] /\ UNCHANGED <<tree, todo, block, orphan, users>>
    BY <1>6 DEF OutOfPhase
  <2>7. TypeOK'
    BY <1>1, <2>2, <2>5, <2>6 DEF TypeOK, users
  <2>8. TreesFit'
    <3>1. file'["client"] = file["client"]
      BY <1>1, <2>6, Peers DEF TypeOK
    <3> QED
      BY <1>1, <2>5, <2>6, <3>1, Peers DEF TreesFit
  <2>9. at["server"] \notin Sender
    BY <2>1 DEF Sender, Receiver
  <2> QED
    BY <1>1, <1>3, <2>3, <2>4, <2>5, <2>6, <2>7, <2>8, <2>9 DEF AtRest, users
<1>7. CASE server_recv_fails
  <2>1. "handle_request" \in ServerPlaces /\ "handle_request" \notin Sender \cup Receiver
    BY DEF ServerPlaces, Sender, Receiver
  <2>2. /\ at'["server"] = "handle_request" /\ at'["client"] = at["client"]
        /\ at' \in [Sides -> ServerPlaces \cup ClientPlaces]
        /\ at'["server"] \in ServerPlaces /\ at'["client"] \in ClientPlaces
    BY <1>1, <1>7, <2>1, GoEffect, Peers DEF server_recv_fails
  <2>3. file' = [file EXCEPT !["server"] = None] /\ UNCHANGED <<tree, todo, inbox, block, orphan, users>>
    BY <1>7 DEF server_recv_fails
  <2>4. TypeOK'
    BY <1>1, <2>2, <2>3 DEF TypeOK, users
  <2>5. TreesFit'
    <3>1. file'["client"] = file["client"]
      BY <1>1, <2>3, Peers DEF TypeOK
    <3> QED
      BY <1>1, <2>2, <2>3, <3>1, Peers DEF TreesFit
  <2>6. DownPhase'
    BY <1>1, <2>2, <2>3 DEF DownPhase, Receives
  <2>7. at["server"] \notin Sender
    BY <1>7 DEF server_recv_fails, Sender
  <2> QED
    BY <1>1, <1>3, <2>1, <2>2, <2>3, <2>4, <2>5, <2>6, <2>7 DEF AtRest, users
<1>8. CASE logout
  <2>1. "accept" \in ServerPlaces /\ "accept" \notin Sender \cup Receiver
    BY DEF ServerPlaces, Sender, Receiver
  <2>2. /\ at'["server"] = "accept" /\ at'["client"] = at["client"]
        /\ at' \in [Sides -> ServerPlaces \cup ClientPlaces]
        /\ at'["server"] \in ServerPlaces /\ at'["client"] \in ClientPlaces
    BY <1>1, <1>8, <2>1, GoEffect, Peers DEF logout
  <2>3. inbox' = [s \in Sides |-> <<>>] /\ UNCHANGED <<tree, todo, local, users>>
    BY <1>8 DEF logout
  <2>4. TypeOK'
    BY <1>1, <2>2, <2>3 DEF TypeOK, local, users
  <2>5. TreesFit'
    BY <1>1, <2>1, <2>2, <2>3, SameFits, Peers DEF local
  <2>6. DownPhase'
    BY <1>1, <2>3, DownEnded
  <2>7. at["server"] \notin Sender
    BY <1>8 DEF logout, Sender
  <2> QED
    BY <1>1, <1>3, <2>1, <2>2, <2>3, <2>4, <2>5, <2>6, <2>7 DEF AtRest, local, users
<1>9. CASE ServerBroken
  <2>1. {"handle_request", "dead"} \subseteq ServerPlaces
        /\ {"handle_request", "dead"} \cap (Sender \cup Receiver) = {}
    BY DEF ServerPlaces, Sender, Receiver
  <2>2. /\ at'["server"] \in {"handle_request", "dead"} /\ at'["client"] = at["client"]
        /\ at' \in [Sides -> ServerPlaces \cup ClientPlaces]
        /\ at'["server"] \in ServerPlaces /\ at'["client"] \in ClientPlaces
    BY <1>1, <1>9, <2>1, GoEffect, Peers DEF ServerBroken
  <2>3. inbox' \in [Sides -> Seq(Messages)] /\ inbox'["server"] \in {<<>>, <<Eof>>}
    <3>1. <<Eof>> \in Seq(Messages)
      BY MessagesMade
    <3>2. CASE inbox' = [inbox EXCEPT !["server"] = <<Eof>>]
      BY <1>1, <3>1, <3>2 DEF TypeOK
    <3>3. CASE inbox' = [s \in Sides |-> <<>>]
      BY <1>1, <3>3
    <3> QED
      BY <1>9, <3>2, <3>3 DEF ServerBroken
  <2>4. /\ todo' \in [Sides -> Seq(Items)] /\ todo'["server"] = <<>> /\ todo'["client"] = todo["client"]
        /\ block' \in [Sides -> Nat] /\ UNCHANGED <<tree, file, orphan, users>>
    BY <1>1, <1>9, Peers DEF ServerBroken, TypeOK
  <2>5. TypeOK'
    BY <1>1, <2>2, <2>3, <2>4 DEF TypeOK, users
  <2>6. TreesFit'
    BY <1>1, <2>1, <2>2, <2>4, SameFits, Peers
  <2>7. DownPhase'
    BY <2>3, DownEnded
  <2> QED
    BY <1>1, <1>3, <2>1, <2>2, <2>4, <2>5, <2>6, <2>7 DEF users
<1> QED
  BY <1>4, <1>5, <1>6, <1>7, <1>8, <1>9
-----------------------------------------------------------------------------
(* The download: steps of the server.                                      *)
LEMMA ServingStep ==
  ASSUME SyncInv, Downloading, TypeOK', at'["client"] = at["client"],
         UNCHANGED <<tree, file, events, watching>>,
         todo'["client"] = todo["client"], orphan'["client"] = orphan["client"],
         orphan'["server"] = None, at'["server"] \notin Receiver,
         at'["server"] \notin Sender => todo'["server"] = <<>>,
         at'["server"] \in Sender => at'["server"] = "next" \/ todo'["server"] # <<>>,
         Serving'
  PROVE  SyncInv'
<1>1. TreesFit /\ AtRest /\ at["client"] # "down" /\ Downloading'
  BY DEF SyncInv, Downloading
<1>2. todo'["client"] = <<>> /\ events' = <<>> /\ ~ watching'
      /\ (at'["client"] \notin {"full_reply", "last_reply"} => orphan'["client"] = None)
  BY <1>1 DEF AtRest
<1>3. Followed' /\ ChangesPending'
  BY <1>1, <1>2, Calm
<1>4. TreesFit'
  BY <1>1, SameFits, Peers
<1>5. AtRest'
  <2>1. at'["client"] # "listed"
    BY <1>1 DEF Downloading
  <2> QED
    BY <1>2, <2>1 DEF AtRest
<1> QED
  BY <1>1, <1>3, <1>4, <1>5 DEF SyncInv, DownloadPhase

LEMMA ServerFirst ==
  ASSUME SyncInv, Serving, todo["server"] # <<>>
  PROVE  /\ Name("server") \in Names /\ tree["server"][Name("server")] # None
         /\ NamesIn(todo["server"]) = {Name("server")} \cup NamesIn(Tail(todo["server"]))
         /\ \A i \in DOMAIN Tail(todo["server"]) :
              /\ Tail(todo["server"])[i].op = "sync"
              /\ tree["server"][Tail(todo["server"])[i].name] # None
<1>1. TypeOK /\ "server" \in Sides /\ todo["server"] \in Seq(Items)
  BY Peers DEF SyncInv, TypeOK
<1>2. Head(todo["server"]) = todo["server"][1] /\ 1 \in DOMAIN todo["server"] /\ Len(todo["server"]) \in Nat
      /\ DOMAIN todo["server"] = 1 .. Len(todo["server"])
  BY <1>1
<1>3. tree["server"][Name("server")] # None
  BY <1>2 DEF Serving, Name, Current
<1>4. Name("server") \in Names
  BY <1>1, TurnFacts DEF Name
<1>5. NamesIn(todo["server"]) = {Name("server")} \cup NamesIn(Tail(todo["server"]))
  BY <1>1, NamesTail DEF Name, Current
<1>6. Tail(todo["server"]) \in Seq(Items) /\ Len(Tail(todo["server"])) = Len(todo["server"]) - 1
      /\ \A i \in 1 .. Len(Tail(todo["server"])) : Tail(todo["server"])[i] = todo["server"][i + 1]
  BY <1>1, HeadTailProperties
<1>7. ASSUME NEW i \in DOMAIN Tail(todo["server"])
      PROVE  /\ Tail(todo["server"])[i].op = "sync"
             /\ tree["server"][Tail(todo["server"])[i].name] # None
  <2>1. i + 1 \in DOMAIN todo["server"] /\ Tail(todo["server"])[i] = todo["server"][i + 1]
    BY <1>2, <1>6
  <2> QED
    BY <2>1 DEF Serving
<1> QED
  BY <1>3, <1>4, <1>5, <1>7

LEMMA LoginStep ==
  ASSUME SyncInv, at["client"] # "down", server_login
  PROVE  SyncInv'
<1>1. TypeOK /\ TreesFit /\ AtRest
  BY DEF SyncInv
<1>2. /\ TypeOK' /\ inbox["server"] # <<>>
      /\ inbox'["server"] = Tail(inbox["server"])
      /\ inbox'["client"] = Append(inbox["client"], Res("ok"))
      /\ at'["server"] = "next" /\ at'["client"] = at["client"]
      /\ todo'["client"] = todo["client"]
      /\ NamesIn(todo'["server"]) = Present("server")
      /\ \A i \in DOMAIN todo'["server"] :
           todo'["server"][i].op = "sync" /\ todo'["server"][i].name \in Present("server")
  BY <1>1, LoginTypes
<1>3. UNCHANGED <<tree, local, users>> /\ at["server"] = "handle_request"
      /\ Head(inbox["server"]).op = "login"
  BY DEF server_login, Receives
<1>4. LoggingIn
  <2>1. \/ LoggingIn
        \/ at["client"] # "down" /\ ~ Downloading /\ UploadPhase
    BY <1>2, <1>3, ServerReceives
  <2>2. CASE ~ Downloading /\ UploadPhase
    BY <1>2, <1>3, <2>2, One, MessagesRead DEF UploadPhase, RmSent, MetaSent, FileSent, LinkSent,
      Agreed, Ready, Silence, Asked, Answer, Between
  <2> QED
    BY <2>1, <2>2
<1>5. at["client"] = "login" /\ Downloading
  BY <1>4 DEF LoggingIn, Downloading
<1>6. inbox'["client"] = <<Res("ok")>> /\ inbox'["server"] = <<>>
  BY <1>2, <1>4, One DEF LoggingIn, Between
<1>7. Serving'
  <2>1. NoneSent'
    BY <1>2, <1>5, <1>6 DEF NoneSent, Between
  <2> QED
    BY <1>2, <1>3, <2>1 DEF Serving, Present
<1>8. "next" \in Sender /\ "next" \notin Receiver
  BY DEF Sender, Receiver
<1> QED
  BY <1>1, <1>2, <1>3, <1>5, <1>7, <1>8, ServingStep DEF local, users, AtRest

LEMMA ServerSendMeta ==
  ASSUME SyncInv, SendMeta("server")
  PROVE  SyncInv'
<1> DEFINE n == Name("server")
<1>1. TypeOK /\ AtRest /\ "server" \in Sides
  BY Peers DEF SyncInv
<1>2. at["server"] = "next" /\ todo["server"] # <<>> /\ at["client"] # "down"
  BY DEF SendMeta, Turn, Connected
<1>3. Downloading /\ Serving
  BY <1>2, ServerSends DEF Sender
<1>4. n \in Names /\ tree["server"][n] # None
  BY <1>2, <1>3, ServerFirst
<1>5. TypeOK'
  BY <1>1, <1>4, SendMetaType
<1>6. /\ Send("server", Meta(n, tree["server"][n])) /\ Go("server", "meta_reply")
      /\ UNCHANGED <<tree, todo, local, users>>
  BY <1>4 DEF SendMeta, Name
<1>7. Meta(n, tree["server"][n]) \in Messages /\ Res("ok") \in Messages
  BY <1>1, <1>4, MessagesMade DEF TypeOK
<1>8. inbox'["server"] = inbox["server"]
      /\ inbox'["client"] = Append(inbox["client"], Meta(n, tree["server"][n]))
  BY <1>1, <1>6, <1>7, SendEffect, Peers
<1>9. at'["server"] = "meta_reply" /\ at'["client"] = at["client"]
  BY <1>1, <1>6, GoEffect, Peers
<1>10. NoneSent
  BY <1>2, <1>3 DEF Serving, DownloadMeta, DownloadFile, DownloadLink
<1>11. Serving'
  <2>1. Name("server")' = n
    BY <1>6 DEF Name, Current
  <2> DEFINE m == Meta(n, tree["server"][n])
  <2>0. Meta(Name("server"), tree["server"][Name("server")])' = m
    BY <1>6, <2>1
  <2>2. ASSUME at["client"] = "login", Between(<<Res("ok")>>, <<>>)
        PROVE  DownloadMeta'
    <3>1. Append(<<Res("ok")>>, m) = <<Res("ok"), m>>
      BY <1>7, Two
    <3>2. inbox'["client"] = <<Res("ok"), m>> /\ inbox'["server"] = <<>>
      BY <1>8, <2>2, <3>1 DEF Between
    <3>3. Sent(Meta(Name("server"), tree["server"][Name("server")]))'
      BY <1>9, <2>0, <2>2, <3>2 DEF Sent, Between
    <3> QED
      BY <1>9, <3>3 DEF DownloadMeta
  <2>3. ASSUME at["client"] = "download", Silence
        PROVE  DownloadMeta'
    <3>1. inbox'["client"] = <<m>> /\ inbox'["server"] = <<>>
      BY <1>8, <2>3, One DEF Silence, Between
    <3>2. Sent(Meta(Name("server"), tree["server"][Name("server")]))'
      BY <1>9, <2>0, <2>3, <3>1 DEF Sent, Between
    <3> QED
      BY <1>9, <3>2 DEF DownloadMeta
  <2>5. DownloadMeta'
    BY <1>10, <2>2, <2>3 DEF NoneSent
  <2> QED
    BY <1>3, <1>6, <2>5 DEF Serving, Has, users
<1>12. "meta_reply" \in Sender /\ "meta_reply" \notin Receiver
  BY DEF Sender, Receiver
<1> QED
  BY <1>1, <1>2, <1>3, <1>5, <1>6, <1>9, <1>11, <1>12, ServingStep DEF local, users, AtRest

LEMMA ServerDone ==
  ASSUME SyncInv, Downloading, Serving, todo["server"] # <<>>, TypeOK', Done("server"),
         UNCHANGED <<tree, file, users>>, Has(Name("server")),
         at["client"] = "download", inbox'["client"] = <<>>, inbox'["server"] = <<>>
  PROVE  SyncInv'
<1>1. TypeOK /\ AtRest /\ "server" \in Sides
  BY Peers DEF SyncInv
<1>2. /\ NamesIn(todo["server"]) = {Name("server")} \cup NamesIn(Tail(todo["server"]))
      /\ \A i \in DOMAIN Tail(todo["server"]) :
           /\ Tail(todo["server"])[i].op = "sync"
           /\ tree["server"][Tail(todo["server"])[i].name] # None
  BY ServerFirst
<1>3. /\ todo'["server"] = Tail(todo["server"]) /\ todo'["client"] = todo["client"]
      /\ orphan'["server"] = None /\ orphan'["client"] = orphan["client"]
  BY <1>1, Peers DEF Done, TypeOK
<1>4. at'["server"] = "next" /\ at'["client"] = "download"
  BY <1>1, GoEffect, Peers DEF Done
<1>5. Serving'
  <2>1. NoneSent'
    BY <1>4 DEF NoneSent, Silence, Between
  <2>2. \A n \in Names : tree'["server"][n] # None => Has(n)' \/ n \in NamesIn(todo'["server"])
    <3> SUFFICES ASSUME NEW n \in Names, tree["server"][n] # None
                 PROVE  Has(n) \/ n \in NamesIn(Tail(todo["server"]))
      BY <1>3 DEF Has, users
    <3> QED
      BY <1>2 DEF Serving
  <2>3. \A i \in DOMAIN todo'["server"] :
          todo'["server"][i].op = "sync" /\ tree'["server"][todo'["server"][i].name] # None
    BY <1>2, <1>3
  <2> QED
    BY <1>4, <2>1, <2>2, <2>3 DEF Serving
<1>6. "next" \in Sender /\ "next" \notin Receiver
  BY DEF Sender, Receiver
<1> QED
  BY <1>3, <1>4, <1>5, <1>6, ServingStep DEF users

LEMMA ServerAnswered ==
  ASSUME SyncInv, Answered("server")
  PROVE  SyncInv'
<1>1. TypeOK /\ AtRest /\ "server" \in Sides
  BY Peers DEF SyncInv
<1>2. /\ \/ at["server"] = "meta_reply" /\ Head(inbox["server"]).status = "ok"
         \/ at["server"] \in {"last_reply", "link_reply", "rm_reply"}
      /\ inbox["server"] # <<>> /\ at["client"] # "down" /\ Done("server") /\ Took("server")
      /\ UNCHANGED <<tree, file, users>>
  BY DEF Answered, Receives, Connected
<1>3. at["server"] \in Sender /\ at["server"] # "next"
  BY <1>1, <1>2 DEF Sender, TypeOK, ServerPlaces, Receiver
<1>4. Downloading /\ Serving /\ todo["server"] # <<>>
  BY <1>1, <1>2, <1>3, ServerSends DEF AtRest
<1>5. Served
  BY <1>2, <1>3, <1>4, One, MessagesRead
     DEF Serving, NoneSent, Sent, DownloadMeta, DownloadFile, DownloadLink, Served, Replied,
         Silence, Between, Sender
<1>6. inbox'["server"] = <<>> /\ inbox'["client"] = <<>>
  BY <1>1, <1>2, <1>5, TookEffect, One, Peers DEF Served, Replied, Between
<1>7. TypeOK'
  BY <1>1, <1>4, AnsweredType
<1> QED
  BY <1>2, <1>4, <1>5, <1>6, <1>7, ServerDone DEF Served

LEMMA ServerSendBlock ==
  ASSUME SyncInv, Downloading, Serving, todo["server"] # <<>>, inbox["server"] # <<>>,
         Halfway("receive"), Between(<<>>, inbox["server"]), Tail(inbox["server"]) = <<>>,
         NEW i \in Nat \ {0}, SendBlock("server", i)
  PROVE  SyncInv'
<1> DEFINE b == ReadBlock("server", i)
<1>1. TypeOK /\ AtRest /\ "server" \in Sides
  BY Peers DEF SyncInv
<1>2. Opened("server") # None
  BY <1>1, ServerFirst DEF Opened, Name, AtRest
<1>3. TypeOK' /\ b \in Blocks \cup {Empty}
  BY <1>1, <1>2, SendBlockType, OpenedType
<1>4. inbox'["server"] = <<>> /\ inbox'["client"] = <<File(b)>>
  BY <1>1, <1>3, ReplyEffect, MessagesMade, One, Peers DEF SendBlock, Between
<1>5. at'["server"] = (IF b \in Full THEN "full_reply" ELSE "last_reply")
      /\ at'["client"] = at["client"]
  BY <1>1, GoEffect, Peers DEF SendBlock
<1>6. UNCHANGED <<tree, todo, file, orphan, users>>
  BY DEF SendBlock
<1>7. Serving'
  <2>1. Halfway("receive")'
    BY <1>5, <1>6 DEF Halfway, Name, Current
  <2>3. \E c \in Blocks \cup {Empty} :
          /\ inbox'["client"] = <<File(c)>> /\ inbox'["server"] = <<>>
          /\ c \in Full <=> at'["server"] = "full_reply"
    BY <1>3, <1>4, <1>5
  <2>4. DownloadFile'
    BY <1>5, <2>1, <2>3 DEF DownloadFile, Between
  <2> QED
    BY <1>6, <2>4 DEF Serving, Has, users
<1>8. at'["server"] \in Sender /\ at'["server"] \notin Receiver
  BY <1>5 DEF Sender, Receiver
<1> QED
  BY <1>1, <1>3, <1>5, <1>6, <1>7, <1>8, ServingStep DEF users, AtRest

LEMMA ServerSendMore ==
  ASSUME SyncInv, SendMore("server") \/ SendNext("server")
  PROVE  SyncInv'
<1> DEFINE n == Name("server")
<1>1. TypeOK /\ TreesFit /\ AtRest /\ "server" \in Sides
  BY Peers DEF SyncInv
<1>2. /\ at["server"] \in {"meta_reply", "full_reply"} /\ inbox["server"] # <<>>
      /\ at["client"] # "down"
  BY DEF SendMore, SendNext, Receives, Connected
<1>3. Downloading /\ Serving /\ todo["server"] # <<>>
  BY <1>1, <1>2, ServerSends DEF AtRest, Sender
<1>4. n \in Names /\ tree["server"][n] # None
  BY <1>3, ServerFirst
<1>5. CASE SendMore("server")
  <2>1. at["server"] = "meta_reply" /\ Head(inbox["server"]).status = "more"
    BY <1>5 DEF SendMore
  <2>2. Replied("more") /\ (Halfway("receive") \/ Halfway("receive_link"))
    BY <1>2, <1>3, <2>1, One, MessagesRead
       DEF Serving, DownloadMeta, DownloadFile, DownloadLink, Sent, Served, Replied, Between
  <2>3. Between(<<>>, inbox["server"]) /\ Tail(inbox["server"]) = <<>>
    BY <2>2, One DEF Replied, Between
  <2>4. CASE Kind[n] = "file" /\ SendBlock("server", 1)
    <3>1. Halfway("receive")
      BY <1>1, <2>2, <2>4, Peers DEF Halfway, TreesFit
    <3> QED
      BY <1>2, <1>3, <2>3, <2>4, <3>1, ServerSendBlock
  <2>5. CASE /\ Kind[n] = "link"
             /\ Reply("server", File(tree["server"][n][1]))
             /\ Go("server", "link_reply")
             /\ UNCHANGED <<tree, todo, local, users>>
    <3> DEFINE b == tree["server"][n][1]
    <3>1. Halfway("receive_link")
      BY <1>1, <2>2, <2>5, Peers DEF Halfway, TreesFit
    <3>2. b \in Blocks
      <4>1. tree["server"][n] \in Data /\ Len(tree["server"][n]) = 1
        BY <1>1, <1>4, <2>5 DEF TypeOK, TreesFit, Holds
      <4> QED
        BY <4>1 DEF Data
    <3>3. inbox'["server"] = <<>> /\ inbox'["client"] = <<File(b)>>
      <4>1. File(b) \in Messages
        BY <3>2, MessagesMade
      <4>2. inbox'["server"] = Tail(inbox["server"]) /\ inbox'["client"] = Append(inbox["client"], File(b))
        BY <1>1, <1>2, <2>5, <4>1, ReplyEffect, Peers
      <4> QED
        BY <2>3, <4>2, One DEF Between
    <3>4. at'["server"] = "link_reply" /\ at'["client"] = at["client"]
      BY <1>1, <2>5, GoEffect, Peers
    <3>5. TypeOK'
      BY <1>1, <1>3, <1>5, SendMoreType
    <3>6. Serving'
      <4>1. Halfway("receive_link")'
        BY <2>5, <3>1, <3>4 DEF Halfway, Name, Current, local
      <4>2. \E c \in Blocks : inbox'["client"] = <<File(c)>> /\ inbox'["server"] = <<>>
        BY <3>2, <3>3
      <4>3. DownloadLink'
        BY <3>4, <4>1, <4>2 DEF DownloadLink, Between
      <4> QED
        BY <1>3, <2>5, <4>3 DEF Serving, Has, users
    <3>7. "link_reply" \in Sender /\ "link_reply" \notin Receiver
      BY DEF Sender, Receiver
    <3> QED
      BY <1>1, <1>3, <2>5, <3>4, <3>5, <3>6, <3>7, ServingStep DEF local, users, AtRest
  <2> QED
    BY <1>4, <1>5, <2>4, <2>5 DEF SendMore, Name
<1>6. CASE SendNext("server")
  <2>1. at["server"] = "full_reply" /\ SendBlock("server", block["server"] + 1)
        /\ block["server"] + 1 \in Nat \ {0}
    BY <1>1, <1>6 DEF SendNext, TypeOK
  <2>2. Replied("ok") /\ Halfway("receive")
    BY <1>2, <1>3, <2>1, One, MessagesRead
       DEF Serving, DownloadMeta, DownloadFile, DownloadLink, Sent, Served, Replied, Between
  <2>3. Between(<<>>, inbox["server"]) /\ Tail(inbox["server"]) = <<>>
    BY <2>2, One DEF Replied, Between
  <2> QED
    BY <1>2, <1>3, <2>1, <2>2, <2>3, ServerSendBlock
<1> QED
  BY <1>5, <1>6

LEMMA ServerSyncEnd ==
  ASSUME SyncInv, server_sync_end
  PROVE  SyncInv'
<1>1. TypeOK /\ AtRest /\ "server" \in Sides
  BY Peers DEF SyncInv
<1>2. /\ at["server"] = "next" /\ todo["server"] = <<>> /\ at["client"] # "down"
      /\ Send("server", SyncEnd) /\ Go("server", "handle_request")
      /\ UNCHANGED <<tree, todo, local, users>>
  BY DEF server_sync_end, Connected
<1>3. Downloading /\ Serving
  BY <1>2, ServerSends DEF Sender
<1>4. NoneSent
  BY <1>2, <1>3 DEF Serving, DownloadMeta, DownloadFile, DownloadLink
<1>5. /\ inbox' \in [Sides -> Seq(Messages)] /\ inbox'["server"] = inbox["server"]
      /\ inbox'["client"] = Append(inbox["client"], SyncEnd)
  BY <1>1, <1>2, SendEffect, MessagesMade, Peers
<1>6. "handle_request" \in ServerPlaces /\ "handle_request" \notin Sender \cup Receiver
  BY DEF ServerPlaces, Sender, Receiver
<1>7. /\ at'["server"] = "handle_request" /\ at'["client"] = at["client"]
      /\ at' \in [Sides -> ServerPlaces \cup ClientPlaces]
      /\ at'["server"] \in ServerPlaces /\ at'["client"] \in ClientPlaces
  BY <1>1, <1>2, <1>6, GoEffect, Peers
<1>8. TypeOK'
  BY <1>1, <1>2, <1>5, <1>7 DEF TypeOK, local, users
<1>9. Serving'
  <2>1. CASE at["client"] = "login" /\ Between(<<Res("ok")>>, <<>>)
    <3>0. Append(<<Res("ok")>>, SyncEnd) = <<Res("ok"), SyncEnd>>
      BY Two, MessagesMade
    <3>1. inbox'["client"] = <<Res("ok"), SyncEnd>> /\ inbox'["server"] = <<>>
      BY <1>5, <2>1, <3>0 DEF Between
    <3> QED
      BY <1>2, <1>3, <1>7, <2>1, <3>1 DEF Serving, Sent, Between, Has, users
  <2>2. CASE at["client"] = "download" /\ Silence
    <3>1. inbox'["client"] = <<SyncEnd>> /\ inbox'["server"] = <<>>
      BY <1>5, <2>2, One DEF Silence, Between
    <3> QED
      BY <1>2, <1>3, <1>7, <2>2, <3>1 DEF Serving, Sent, Between, Has, users
  <2> QED
    BY <1>4, <2>1, <2>2 DEF NoneSent
<1> QED
  BY <1>1, <1>2, <1>3, <1>6, <1>7, <1>8, <1>9, ServingStep DEF local, users, AtRest
-----------------------------------------------------------------------------
(* The download: steps of the client.                                      *)
LEMMA FetchStep ==
  ASSUME SyncInv, Downloading, TypeOK', TreesFit', Downloading',
         at'["server"] = at["server"], UNCHANGED <<todo, orphan, events, watching>>,
         DownloadPhase'
  PROVE  SyncInv'
<1>1. AtRest
  BY DEF SyncInv
<1>2. todo["client"] = <<>> /\ events = <<>> /\ ~ watching /\ orphan["client"] = None
  BY <1>1 DEF AtRest, Downloading
<1>3. Followed' /\ ChangesPending'
  BY <1>2, Calm
<1>4. at'["client"] \notin {"down", "listed"}
  BY DEF Downloading
<1>5. AtRest'
  BY <1>1, <1>2, <1>4 DEF AtRest
<1> QED
  BY <1>3, <1>4, <1>5 DEF SyncInv

LEMMA ConnectStep ==
  ASSUME SyncInv, Connect
  PROVE  SyncInv'
<1>1. TypeOK /\ TreesFit /\ AtRest
  BY DEF SyncInv
<1>2. /\ at["client"] = "down" /\ at["server"] = "accept"
      /\ at'["client"] = "login" /\ at'["server"] = "handle_request"
      /\ inbox'["client"] = <<>> /\ inbox'["server"] = <<Login>>
      /\ UNCHANGED <<tree, todo, local, users>>
  BY DEF Connect
<1>3. todo["client"] = <<>> /\ events = <<>> /\ ~ watching /\ todo["server"] = <<>>
  BY <1>1, <1>2 DEF AtRest, Sender
<1>4. Downloading' /\ LoggingIn'
  BY <1>2 DEF Downloading, LoggingIn, Between
<1>5. Followed' /\ ChangesPending'
  BY <1>2, <1>3, <1>4, Calm DEF users
<1>6. AtRest'
  BY <1>1, <1>2, <1>3, <1>4 DEF AtRest, local, users, Sender
<1>7. TypeOK'
  <2>1. "login" \in ClientPlaces /\ "handle_request" \in ServerPlaces
    BY DEF ClientPlaces, ServerPlaces
  <2>2. at' = [s \in Sides |-> IF s = "client" THEN "login" ELSE "handle_request"]
    BY DEF Connect, Sides
  <2>3. at' \in [Sides -> ServerPlaces \cup ClientPlaces]
    BY <2>1, <2>2
  <2>4. inbox' = [s \in Sides |-> IF s = "client" THEN <<>> ELSE <<Login>>]
    BY DEF Connect, Sides
  <2>5. <<Login>> \in Seq(Messages) /\ <<>> \in Seq(Messages)
    BY MessagesMade
  <2>6. inbox' \in [Sides -> Seq(Messages)]
    BY <2>4, <2>5
  <2> QED
    BY <1>1, <1>2, <2>1, <2>3, <2>6 DEF TypeOK, local, users
<1>8. TreesFit'
  <2>1. \A s \in Sides : at'[s] \notin Receiver
    BY <1>2, Peers DEF Receiver
  <2> QED
    BY <1>1, <1>2, <2>1, SameFits DEF local
<1> QED
  BY <1>2, <1>4, <1>5, <1>6, <1>7, <1>8 DEF SyncInv, DownloadPhase

LEMMA ClientLogin ==
  ASSUME SyncInv, client_login
  PROVE  SyncInv'
<1>1. TypeOK /\ TreesFit /\ AtRest /\ "client" \in Sides
  BY Peers DEF SyncInv
<1>2. /\ at["client"] = "login" /\ inbox["client"] # <<>>
      /\ Took("client") /\ Go("client", "download") /\ UNCHANGED <<tree, todo, local, users>>
  BY DEF client_login, Receives
<1>3. Downloading /\ Serving
  BY <1>2, ClientReceives DEF Downloading
<1>4. "download" \in ClientPlaces /\ "download" \notin Receiver
  BY DEF ClientPlaces, Receiver
<1>5. /\ at'["client"] = "download" /\ at'["server"] = at["server"]
      /\ at' \in [Sides -> ServerPlaces \cup ClientPlaces]
      /\ at'["server"] \in ServerPlaces /\ at'["client"] \in ClientPlaces
  BY <1>1, <1>2, <1>4, GoEffect, Peers
<1>6. /\ inbox' \in [Sides -> Seq(Messages)]
      /\ inbox'["client"] = Tail(inbox["client"]) /\ inbox'["server"] = inbox["server"]
  BY <1>1, <1>2, TookEffect, Peers
<1>7. TypeOK'
  BY <1>1, <1>2, <1>5, <1>6 DEF TypeOK, local, users
<1>8. TreesFit'
  BY <1>1, <1>2, <1>4, <1>5, SameFits, Peers DEF local
<1>9. Downloading'
  BY <1>5 DEF Downloading
<1>10. Name("server")' = Name("server")
  BY <1>2 DEF Name, Current
<1>11. ASSUME NEW m \in Messages, Sent(m)
       PROVE  inbox'["client"] = <<m>> /\ inbox'["server"] = <<>>
  <2>1. inbox["client"] = <<Res("ok"), m>> /\ inbox["server"] = <<>>
    BY <1>2, <1>11 DEF Sent, Between
  <2>2. Tail(<<Res("ok"), m>>) = <<m>>
    BY <1>11, Two, MessagesMade
  <2> QED
    BY <1>6, <2>1, <2>2
<1>12. Serving'
  <2>1. CASE at["server"] = "next" /\ NoneSent
    <3>1. inbox'["client"] = <<>> /\ inbox'["server"] = <<>>
      BY <1>2, <1>6, <2>1, One DEF NoneSent, Between
    <3>2. NoneSent'
      BY <1>5, <3>1 DEF NoneSent, Silence, Between
    <3> QED
      BY <1>2, <1>3, <1>5, <2>1, <3>2 DEF Serving, Has, users
  <2>2. CASE at["server"] = "handle_request" /\ Sent(SyncEnd)
    <3>1. inbox'["client"] = <<SyncEnd>> /\ inbox'["server"] = <<>>
      BY <1>11, <2>2, MessagesMade
    <3>2. Sent(SyncEnd)'
      BY <1>5, <3>1 DEF Sent, Between
    <3> QED
      BY <1>2, <1>3, <1>5, <2>2, <3>2 DEF Serving, Has, users
  <2>3. CASE DownloadMeta \/ DownloadFile \/ DownloadLink
    <3> DEFINE m == Meta(Name("server"), tree["server"][Name("server")])
    <3>1. at["server"] = "meta_reply" /\ Sent(m)
      BY <1>2, <2>3, One DEF DownloadMeta, DownloadFile, DownloadLink, Served, Halfway
    <3>2. todo["server"] # <<>>
      BY <1>1, <3>1 DEF AtRest, Sender
    <3>3. m \in Messages
      <4>1. Name("server") \in Names
        BY <1>3, <3>2, ServerFirst
      <4> QED
        BY <1>1, <4>1, MessagesMade, Peers DEF TypeOK
    <3>4. inbox'["client"] = <<m>> /\ inbox'["server"] = <<>>
      BY <1>11, <3>1, <3>3
    <3>5. Meta(Name("server"), tree["server"][Name("server")])' = m
      BY <1>2, <1>10
    <3>6. Sent(Meta(Name("server"), tree["server"][Name("server")]))'
      BY <1>5, <3>4, <3>5 DEF Sent, Between
    <3>7. DownloadMeta'
      BY <1>5, <3>1, <3>6 DEF DownloadMeta
    <3> QED
      BY <1>2, <1>3, <3>7 DEF Serving, Has, users
  <2> QED
    BY <1>3, <2>1, <2>2, <2>3 DEF Serving
<1> QED
  BY <1>2, <1>3, <1>5, <1>7, <1>8, <1>9, <1>12, FetchStep DEF DownloadPhase, local, users

\* What the client has it keeps, whatever it receives.
LEMMA StillServing ==
  ASSUME Serving, UNCHANGED <<todo, missed>>, tree'["server"] = tree["server"],
         \A n \in Names : tree["client"][n] # None => tree'["client"][n] # None,
         DownloadMeta' \/ DownloadFile' \/ DownloadLink'
  PROVE  Serving'
BY DEF Serving, Has

LEMMA ClientReceiveMeta ==
  ASSUME SyncInv, ReceiveMeta("client")
  PROVE  SyncInv'
<1> DEFINE n == Name("server")
           d == tree["server"][n]
<1>1. TypeOK /\ TreesFit /\ AtRest /\ "client" \in Sides
  BY Peers DEF SyncInv
<1>2. /\ at["client"] = "download" /\ inbox["client"] # <<>> /\ Head(inbox["client"]).op = "meta"
      /\ UNCHANGED <<todo, block, orphan, users>>
  BY Peers DEF ReceiveMeta, Receives
<1>3. Downloading /\ Serving
  BY <1>2, ClientReceives DEF Downloading
<1>4. at["server"] = "meta_reply" /\ Between(<<Meta(n, d)>>, <<>>)
  BY <1>2, <1>3, One, MessagesRead
     DEF Serving, NoneSent, Silence, Sent, DownloadMeta, DownloadFile, DownloadLink, Served,
         Replied, Halfway, Between
<1>5. todo["server"] # <<>>
  BY <1>1, <1>4 DEF AtRest, Sender
<1>6. n \in Names /\ d # None
  BY <1>3, <1>5, ServerFirst
<1>7. Head(inbox["client"]).name = n /\ Head(inbox["client"]).data = d
  BY <1>4, One, MessagesRead DEF Between
<1>8. TypeOK' /\ TreesFit'
  BY <1>1, ReceiveMetaType, ReceiveMetaFits
<1>9. Name("server")' = n
  BY <1>2 DEF Name, Current
<1>10. ASSUME NEW st \in {"ok", "more"}, Reply("client", Res(st))
       PROVE  inbox'["client"] = <<>> /\ inbox'["server"] = <<Res(st)>>
  <2>1. Res(st) \in Messages
    BY MessagesMade
  <2>2. inbox'["client"] = Tail(inbox["client"]) /\ inbox'["server"] = Append(inbox["server"], Res(st))
    BY <1>1, <1>2, <1>10, <2>1, ReplyEffect, Peers
  <2> QED
    BY <1>4, <2>2, One DEF Between
<1>11. ASSUME Ok("client"), tree'["client"][n] # None, tree'["server"] = tree["server"],
              \A m \in Names : tree["client"][m] # None => tree'["client"][m] # None
       PROVE  SyncInv'
  <2>1. Reply("client", Res("ok")) /\ UNCHANGED <<at, file>>
    BY <1>11 DEF Ok
  <2>2. DownloadMeta'
    BY <1>2, <1>4, <1>9, <1>10, <1>11, <2>1 DEF DownloadMeta, Served, Replied, Has, Between
  <2>3. Serving'
    BY <1>2, <1>3, <1>11, <2>2, StillServing DEF users
  <2>4. Downloading'
    BY <1>3, <2>1 DEF Downloading
  <2> QED
    BY <1>2, <1>3, <1>8, <2>1, <2>3, <2>4, FetchStep DEF DownloadPhase, users
<1>12. ASSUME NEW place \in {"receive", "receive_link"}, More("client", n, place)
       PROVE  SyncInv'
  <2>1. /\ Reply("client", Res("more")) /\ Go("client", place)
        /\ file' = [file EXCEPT !["client"] = n]
        /\ UNCHANGED tree \/ SetTree("client", n, <<>>)
    BY <1>12 DEF More
  <2>2. at'["client"] = place /\ at'["server"] = at["server"]
    BY <1>1, <2>1, GoEffect, Peers
  <2>3. file'["client"] = n
    BY <1>1, <2>1, Peers DEF TypeOK
  <2>4. /\ tree'["server"] = tree["server"]
        /\ \A m \in Names : tree["client"][m] # None => tree'["client"][m] # None
    <3>1. CASE UNCHANGED tree
      BY <3>1
    <3>2. CASE SetTree("client", n, <<>>)
      BY <1>1, <1>6, <3>2, SetTreeEffect, DataFacts, Peers
    <3> QED
      BY <2>1, <3>1, <3>2
  <2>5. Halfway(place)' /\ Replied("more")'
    BY <1>9, <1>10, <2>1, <2>2, <2>3 DEF Halfway, Replied, Between
  <2>6. DownloadMeta'
    BY <1>4, <2>2, <2>5 DEF DownloadMeta
  <2>7. Serving'
    BY <1>2, <1>3, <2>4, <2>6, StillServing DEF users
  <2>8. Downloading'
    BY <2>2 DEF Downloading
  <2> QED
    BY <1>2, <1>3, <1>8, <2>2, <2>7, <2>8, FetchStep DEF DownloadPhase, users
<1>13. CASE SetTree("client", n, <<>>) /\ Ok("client")
  <2>1. /\ tree'["client"][n] = <<>> /\ tree'["server"] = tree["server"]
        /\ \A m \in Names : tree["client"][m] # None => tree'["client"][m] # None
    BY <1>1, <1>6, <1>13, SetTreeEffect, DataFacts, Peers
  <2> QED
    BY <1>11, <1>13, <2>1, DataFacts
<1>14. CASE tree["client"][n] = d /\ Ok("client") /\ UNCHANGED tree
  BY <1>6, <1>11, <1>14
<1>15. ~ SpinsOnLock("client", n)
  BY DEF SpinsOnLock
<1> QED
  BY <1>6, <1>7, <1>12, <1>13, <1>14, <1>15 DEF ReceiveMeta

LEMMA ClientReceiveFile ==
  ASSUME SyncInv, ReceiveFile("client")
  PROVE  SyncInv'
<1> DEFINE n == Name("server")
           b == Head(inbox["client"]).data
<1>1. TypeOK /\ TreesFit /\ AtRest /\ "client" \in Sides
  BY Peers DEF SyncInv
<1>2. /\ at["client"] = "receive" /\ inbox["client"] # <<>> /\ Head(inbox["client"]).op = "file"
      /\ UNCHANGED <<todo, block, orphan, users>>
  BY DEF ReceiveFile, Receives
<1>3. Downloading /\ Serving
  BY <1>2, ClientReceives DEF Downloading
<1>4. /\ at["server"] \in {"full_reply", "last_reply"} /\ Halfway("receive")
      /\ inbox["client"] = <<File(b)>> /\ inbox["server"] = <<>>
      /\ b \in Blocks \cup {Empty} /\ (b \in Full <=> at["server"] = "full_reply")
  BY <1>2, <1>3, One, MessagesRead
     DEF Serving, NoneSent, Silence, Sent, DownloadMeta, DownloadFile, DownloadLink, Served,
         Replied, Halfway, Between
<1>5. TypeOK' /\ TreesFit'
  BY <1>1, ReceiveFileType, ReceiveFileFits
<1>6. Name("server")' = n
  BY <1>2 DEF Name, Current
<1>7. inbox'["client"] = <<>> /\ inbox'["server"] = <<Res("ok")>>
  <2>1. inbox'["client"] = Tail(inbox["client"]) /\ inbox'["server"] = Append(inbox["server"], Res("ok"))
    BY <1>1, <1>2, ReplyEffect, MessagesMade, Peers DEF ReceiveFile
  <2> QED
    BY <1>4, <2>1, One
<1>8. file["client"] = n /\ n \in Names /\ tree["client"][n] \in Data
  BY <1>1, <1>2, <1>4 DEF TreesFit, TypeOK, Halfway
<1>9. /\ tree'["server"] = tree["server"] /\ tree'["client"][n] # None
      /\ \A m \in Names : tree["client"][m] # None => tree'["client"][m] # None
  <2> DEFINE e == Append(tree["client"][n], b)
  <2>1. CASE b = Empty
    BY <1>8, <2>1, SyncAssumption DEF ReceiveFile
  <2>2. CASE b # Empty
    <3>1. SetTree("client", n, e) /\ e \in Data /\ e # None
      BY <1>4, <1>8, <2>2, DataFacts DEF ReceiveFile
    <3> HIDE DEF e, n
    <3> QED
      BY <1>1, <1>8, <3>1, SetTreeEffect, Peers
  <2> QED
    BY <2>1, <2>2
<1>10. CASE b \in Full
  <2>1. UNCHANGED <<at, file>>
    BY <1>10 DEF ReceiveFile
  <2>2. DownloadFile'
    BY <1>4, <1>6, <1>7, <1>10, <2>1 DEF DownloadFile, Halfway, Replied, Between
  <2>3. Serving'
    BY <1>2, <1>3, <1>9, <2>2, StillServing DEF users
  <2>4. Downloading'
    BY <1>3, <2>1 DEF Downloading
  <2> QED
    BY <1>2, <1>3, <1>5, <2>1, <2>3, <2>4, FetchStep DEF DownloadPhase, users
<1>11. CASE b \notin Full
  <2>1. Go("client", "download")
    BY <1>11, Peers DEF ReceiveFile
  <2>2. at'["client"] = "download" /\ at'["server"] = "last_reply" /\ at["server"] = "last_reply"
    BY <1>1, <1>4, <1>11, <2>1, GoEffect, Peers
  <2>3. DownloadFile'
    BY <1>6, <1>7, <1>9, <2>2 DEF DownloadFile, Served, Has, Replied, Between
  <2>4. Serving'
    BY <1>2, <1>3, <1>9, <2>3, StillServing DEF users
  <2>5. Downloading'
    BY <2>2 DEF Downloading
  <2> QED
    BY <1>2, <1>3, <1>5, <2>2, <2>4, <2>5, FetchStep DEF DownloadPhase, users
<1> QED
  BY <1>10, <1>11

LEMMA ClientReceiveLink ==
  ASSUME SyncInv, ReceiveLink("client")
  PROVE  SyncInv'
<1> DEFINE n == Name("server")
           b == Head(inbox["client"]).data
<1>1. TypeOK /\ TreesFit /\ AtRest /\ "client" \in Sides
  BY Peers DEF SyncInv
<1>2. /\ at["client"] = "receive_link" /\ inbox["client"] # <<>>
      /\ Head(inbox["client"]).op = "file"
      /\ UNCHANGED <<todo, block, orphan, users>> /\ Go("client", "download")
  BY Peers DEF ReceiveLink, Receives
<1>3. Downloading /\ Serving /\ b \in Blocks
  BY <1>1, <1>2, ClientReceives, LinkData DEF Downloading
<1>4. /\ at["server"] = "link_reply" /\ Halfway("receive_link")
      /\ inbox["client"] = <<File(b)>> /\ inbox["server"] = <<>>
  BY <1>2, <1>3, One, MessagesRead
     DEF Serving, NoneSent, Silence, Sent, DownloadMeta, DownloadFile, DownloadLink, Served,
         Replied, Halfway, Between
<1>5. TypeOK' /\ TreesFit'
  BY <1>1, <1>3, ReceiveLinkType, ReceiveLinkFits
<1>6. Name("server")' = n /\ file["client"] = n /\ n \in Names
  BY <1>1, <1>2, <1>4 DEF Name, Current, TreesFit, Halfway
<1>7. at'["client"] = "download" /\ at'["server"] = at["server"]
  BY <1>1, <1>2, GoEffect, Peers
<1>8. /\ tree'["server"] = tree["server"]
      /\ \A m \in Names : tree["client"][m] # None => tree'["client"][m] # None
      /\ DownloadLink'
  <2>1. CASE Took("client") /\ UNCHANGED tree
    <3>1. inbox'["client"] = <<>> /\ inbox'["server"] = <<>>
      BY <1>1, <1>2, <1>4, <2>1, TookEffect, One, Peers
    <3> QED
      BY <1>4, <1>7, <2>1, <3>1 DEF DownloadLink, Silence, Between
  <2>2. CASE SetTree("client", n, <<b>>) /\ Reply("client", Res("ok"))
    <3>1. inbox'["client"] = <<>> /\ inbox'["server"] = <<Res("ok")>>
      <4>1. inbox'["client"] = Tail(inbox["client"]) /\ inbox'["server"] = Append(inbox["server"], Res("ok"))
        BY <1>1, <1>2, <2>2, ReplyEffect, MessagesMade, Peers
      <4> QED
        BY <1>4, <4>1, One
    <3>2. /\ tree'["server"] = tree["server"] /\ tree'["client"][n] # None
          /\ \A m \in Names : tree["client"][m] # None => tree'["client"][m] # None
      BY <1>1, <1>3, <1>6, <2>2, SetTreeEffect, DataFacts, Peers
    <3> QED
      BY <1>4, <1>6, <1>7, <3>1, <3>2 DEF DownloadLink, Served, Has, Replied, Between
  <2> QED
    BY <1>6, <2>1, <2>2 DEF ReceiveLink
<1>9. Serving'
  BY <1>2, <1>3, <1>8, StillServing DEF users
<1>10. Downloading'
  BY <1>7 DEF Downloading
<1> QED
  BY <1>2, <1>3, <1>5, <1>7, <1>9, <1>10, FetchStep DEF DownloadPhase, users
-----------------------------------------------------------------------------
(* The upload: steps of the client.                                        *)
LEMMA DownloadEnd ==
  ASSUME SyncInv, download_end
  PROVE  SyncInv'
<1>1. TypeOK /\ TreesFit /\ AtRest /\ "client" \in Sides
  BY Peers DEF SyncInv
<1>2. /\ at["client"] = "download" /\ inbox["client"] # <<>> /\ Head(inbox["client"]).op = "end"
      /\ Took("client") /\ Go("client", "listed") /\ UNCHANGED <<tree, local, users>>
  BY DEF download_end, Receives
<1>3. Downloading /\ Serving
  BY <1>2, ClientReceives DEF Downloading
<1>4. at["server"] = "handle_request" /\ inbox["client"] = <<SyncEnd>> /\ inbox["server"] = <<>>
  BY <1>2, <1>3, One, MessagesRead
     DEF Serving, NoneSent, Silence, Sent, DownloadMeta, DownloadFile, DownloadLink, Served,
         Replied, Halfway, Between
<1>5. PICK q \in Listing(Present("client")) : todo' = [todo EXCEPT !["client"] = q]
  BY DEF download_end
<1>6. /\ q \in Seq(Items) /\ NamesIn(q) = Present("client")
      /\ \A i \in DOMAIN q : q[i].op = "sync"
  BY ListingFacts DEF Present
<1>7. /\ todo'["client"] = q /\ todo'["server"] = todo["server"] /\ todo' \in [Sides -> Seq(Items)]
  BY <1>1, <1>5, <1>6, Peers DEF TypeOK
<1>8. "listed" \in ClientPlaces /\ "listed" \notin Receiver
  BY DEF ClientPlaces, Receiver
<1>9. /\ at'["client"] = "listed" /\ at'["server"] = "handle_request"
      /\ at' \in [Sides -> ServerPlaces \cup ClientPlaces]
      /\ at'["server"] \in ServerPlaces /\ at'["client"] \in ClientPlaces
  BY <1>1, <1>2, <1>4, <1>8, GoEffect, Peers
<1>10. /\ inbox' \in [Sides -> Seq(Messages)]
       /\ inbox'["client"] = <<>> /\ inbox'["server"] = <<>>
  BY <1>1, <1>2, <1>4, TookEffect, One, Peers
<1>11. TypeOK'
  BY <1>1, <1>2, <1>7, <1>9, <1>10 DEF TypeOK, local, users
<1>12. TreesFit'
  BY <1>1, <1>2, <1>4, <1>8, <1>9, SameFits, Peers DEF local
<1>13. ~ watching /\ events = <<>> /\ todo["server"] = <<>> /\ orphan["client"] = None /\ orphan["server"] = None
  BY <1>1, <1>2, <1>3, <1>4 DEF AtRest, Sender
<1>14. AtRest'
  BY <1>2, <1>6, <1>7, <1>9, <1>13 DEF AtRest, local, users, Sender, Downloading
<1>15. Followed'
  BY <1>2, <1>6, <1>7, <1>13 DEF Followed, users
<1>16. ChangesPending'
  <2> SUFFICES ASSUME NEW n \in Names, tree["client"][n] # tree["server"][n]
               PROVE  n \in NamesIn(q) \cup missed
    BY <1>2, <1>7 DEF ChangesPending, Pending, users
  <2>1. CASE tree["client"][n] # None
    BY <1>6, <2>1 DEF Present
  <2>2. CASE tree["client"][n] = None
    <3>1. Has(n)
      BY <1>3, <1>13, <2>2, NamesEmpty DEF Serving
    <3> QED
      BY <2>2, <3>1 DEF Has
  <2> QED
    BY <2>1, <2>2
<1>17. UploadPhase' /\ ~ Downloading'
  BY <1>9, <1>10 DEF UploadPhase, Downloading, Ready, Silence, Between
<1> QED
  BY <1>9, <1>11, <1>12, <1>14, <1>15, <1>16, <1>17 DEF SyncInv

LEMMA AddWatch ==
  ASSUME SyncInv, add_watch
  PROVE  SyncInv'
<1>1. TypeOK /\ TreesFit /\ AtRest /\ Followed /\ ChangesPending /\ "client" \in Sides
  BY Peers DEF SyncInv
<1>2. /\ at["client"] = "listed" /\ watching' = (todo["client"] # <<>>) /\ Go("client", "next")
      /\ UNCHANGED <<tree, todo, inbox, local, events, missed, locking, edits, kills>>
  BY DEF add_watch
<1>3. ~ Downloading /\ UploadPhase
  BY <1>2, ClientUploads
<1>4. "next" \in ClientPlaces /\ "next" \notin Receiver
  BY DEF ClientPlaces, Sender, Receiver
<1>5. /\ at'["client"] = "next" /\ at'["server"] = at["server"]
      /\ at' \in [Sides -> ServerPlaces \cup ClientPlaces]
      /\ at'["server"] \in ServerPlaces /\ at'["client"] \in ClientPlaces
  BY <1>1, <1>2, <1>4, GoEffect, Peers
<1>6. TypeOK'
  BY <1>1, <1>2, <1>5 DEF TypeOK, local
<1>7. TreesFit'
  BY <1>1, <1>2, <1>4, <1>5, SameFits, Peers DEF local
<1>8. Followed'
  BY <1>1, <1>2, SameFollowed
<1>9. ChangesPending'
  BY <1>1, <1>2, <1>3, <1>5 DEF ChangesPending, Pending, Downloading
<1>10. AtRest'
  BY <1>1, <1>2, <1>5 DEF AtRest, local, Downloading
<1>11. UploadPhase' /\ ~ Downloading'
  BY <1>2, <1>3, <1>5 DEF UploadPhase, Downloading, Ready, Silence, Between
<1> QED
  BY <1>5, <1>6, <1>7, <1>8, <1>9, <1>10, <1>11 DEF SyncInv

LEMMA ReadEvents ==
  ASSUME SyncInv, read_events
  PROVE  SyncInv'
<1>1. TypeOK /\ TreesFit /\ AtRest /\ Followed /\ ChangesPending /\ "client" \in Sides
  BY Peers DEF SyncInv
<1>2. /\ at["client"] = "next" /\ todo["client"] = <<>> /\ events # <<>>
      /\ todo' = [todo EXCEPT !["client"] = events] /\ events' = <<>>
      /\ UNCHANGED <<tree, at, inbox, local, watching, missed, locking, edits, kills>>
  BY DEF read_events
<1>3. ~ Downloading /\ UploadPhase
  BY <1>2, ClientUploads
<1>4. /\ todo'["client"] = events /\ todo'["server"] = todo["server"]
      /\ todo' \in [Sides -> Seq(Items)] /\ events' \in Seq(Items)
  BY <1>1, <1>2, Peers DEF TypeOK
<1>5. TypeOK'
  BY <1>1, <1>2, <1>4 DEF TypeOK, local
<1>6. TreesFit'
  BY <1>1, <1>2, SameFits DEF local
<1>7. watching
  BY <1>1, <1>2 DEF AtRest
<1>8. AtRest'
  BY <1>1, <1>2, <1>3, <1>4, <1>7 DEF AtRest, local, Downloading
<1>9. Followed'
  BY <1>1, <1>2, <1>4 DEF Followed
<1>10. ChangesPending'
  BY <1>1, <1>2, <1>3, <1>4, NamesEmpty DEF ChangesPending, Pending, Downloading
<1>11. UploadPhase' /\ ~ Downloading'
  BY <1>2, <1>3 DEF UploadPhase, Downloading, Ready, Silence, Between
<1> QED
  BY <1>2, <1>5, <1>6, <1>8, <1>9, <1>10, <1>11 DEF SyncInv

\* A step of the client that leaves trees, queues and the server alone.
LEMMA AskStep ==
  ASSUME SyncInv, ~ Downloading, at["client"] \notin {"down", "listed"}, TypeOK',
         UNCHANGED <<tree, todo, file, users>>, orphan' = orphan,
         at'["server"] = at["server"],
         at'["client"] \notin Receiver \cup {"down", "login", "download", "listed"},
         at'["client"] \notin {"full_reply", "last_reply"} => orphan["client"] = None,
         UploadPhase'
  PROVE  SyncInv'
<1>1. TypeOK /\ TreesFit /\ AtRest /\ Followed /\ ChangesPending
  BY DEF SyncInv
<1>2. TreesFit'
  BY <1>1, SameFits, Peers
<1>3. ~ Downloading'
  BY DEF Downloading, Receiver
<1>4. Followed'
  BY <1>1, SameFollowed DEF users
<1>5. ChangesPending'
  BY <1>1 DEF ChangesPending, Pending, users
<1>6. AtRest'
  BY <1>1, <1>3 DEF AtRest, users
<1> QED
  BY <1>2, <1>3, <1>4, <1>5, <1>6 DEF SyncInv

LEMMA ClientSendMeta ==
  ASSUME SyncInv, SendMeta("client")
  PROVE  SyncInv'
<1> DEFINE n == Name("client")
           d == tree["client"][n]
<1>1. TypeOK /\ TreesFit /\ AtRest /\ "client" \in Sides
  BY Peers DEF SyncInv
<1>2. /\ at["client"] = "next" /\ todo["client"] # <<>>
      /\ Send("client", Meta(n, d))
      /\ Go("client", IF d = None THEN "no_reply" ELSE "meta_reply")
      /\ UNCHANGED <<tree, todo, local, users>>
  BY DEF SendMeta, Turn, Name
<1>3. ~ Downloading /\ UploadPhase
  BY <1>2, ClientUploads
<1>4. TypeOK'
  BY <1>1, SendMetaType
<1>5. Ready /\ Silence
  BY <1>2, <1>3 DEF UploadPhase
<1>6. n \in Names /\ d \in Data \cup {None}
  BY <1>1, <1>2, TurnFacts DEF Name, TypeOK
<1>7. inbox'["client"] = <<>> /\ inbox'["server"] = <<Meta(n, d)>>
  <2>1. inbox'["client"] = inbox["client"] /\ inbox'["server"] = Append(inbox["server"], Meta(n, d))
    BY <1>1, <1>2, <1>6, SendEffect, MessagesMade, Peers
  <2> QED
    BY <1>5, <2>1, One DEF Silence, Between
<1>8. at'["client"] = (IF d = None THEN "no_reply" ELSE "meta_reply") /\ at'["server"] = at["server"]
  BY <1>1, <1>2, GoEffect, Peers
<1>9. Name("client")' = n
  BY <1>2 DEF Name, Current
<1>10. UploadPhase'
  <2>1. CASE d = None
    <3>1. Asked(Meta(Name("client"), None))'
      BY <1>7, <1>9, <2>1 DEF Asked, Between
    <3> QED
      BY <1>2, <1>5, <1>8, <2>1, <3>1 DEF UploadPhase, Ready
  <2>2. CASE d # None
    <3>1. Head(inbox'["server"]).data = d
      BY <1>7, One, MessagesRead
    <3>2. Asked(Meta(n, Head(inbox["server"]).data))'
      BY <1>7, <1>9, <3>1 DEF Asked, Between
    <3>3. MetaSent(Name("client"))'
      BY <1>2, <1>5, <1>8, <1>9, <2>2, <3>1, <3>2 DEF MetaSent, Ready
    <3> QED
      BY <1>2, <1>8, <2>2, <3>3 DEF UploadPhase
  <2> QED
    BY <2>1, <2>2
<1>11. orphan["client"] = None
  BY <1>1, <1>2 DEF AtRest
<1>12. at'["client"] \notin Receiver \cup {"down", "login", "download", "listed"}
  BY <1>8 DEF Receiver
<1> QED
  BY <1>2, <1>3, <1>4, <1>8, <1>10, <1>11, <1>12, AskStep DEF local

LEMMA ClientRm ==
  ASSUME SyncInv, client_rm
  PROVE  SyncInv'
<1> DEFINE n == Name("client")
<1>1. TypeOK /\ TreesFit /\ AtRest /\ "client" \in Sides
  BY Peers DEF SyncInv
<1>2. /\ at["client"] = "next" /\ todo["client"] # <<>> /\ Head(todo["client"]).op = "rm"
      /\ Send("client", Rm(n)) /\ Go("client", "rm_reply")
      /\ UNCHANGED <<tree, todo, local, users>>
  BY DEF client_rm, Turn, Name, Current
<1>3. ~ Downloading /\ UploadPhase
  BY <1>2, ClientUploads
<1>4. Ready /\ Silence
  BY <1>2, <1>3 DEF UploadPhase
<1>5. n \in Names
  BY <1>1, <1>2, TurnFacts DEF Name
<1>6. /\ inbox' \in [Sides -> Seq(Messages)]
      /\ inbox'["client"] = inbox["client"] /\ inbox'["server"] = Append(inbox["server"], Rm(n))
  BY <1>1, <1>2, <1>5, SendEffect, MessagesMade, Peers
<1>7. inbox'["client"] = <<>> /\ inbox'["server"] = <<Rm(n)>>
  BY <1>4, <1>6, One DEF Silence, Between
<1>8. "rm_reply" \in ClientPlaces
  BY DEF ClientPlaces
<1>9. /\ at'["client"] = "rm_reply" /\ at'["server"] = at["server"]
      /\ at' \in [Sides -> ServerPlaces \cup ClientPlaces]
      /\ at'["server"] \in ServerPlaces /\ at'["client"] \in ClientPlaces
  BY <1>1, <1>2, <1>8, GoEffect, Peers
<1>10. TypeOK'
  BY <1>1, <1>2, <1>6, <1>9 DEF TypeOK, local, users
<1>11. Name("client")' = n
  BY <1>2 DEF Name, Current
<1>12. UploadPhase'
  <2>1. Asked(Rm(n))'
    BY <1>7, <1>11 DEF Asked, Between
  <2>2. RmSent(Name("client"))'
    BY <1>2, <1>4, <1>9, <1>11, <2>1 DEF RmSent, Ready
  <2> QED
    BY <1>2, <1>9, <2>2 DEF UploadPhase
<1>13. orphan["client"] = None
  BY <1>1, <1>2 DEF AtRest
<1>14. at'["client"] \notin Receiver \cup {"down", "login", "download", "listed"}
  BY <1>9 DEF Receiver
<1> QED
  BY <1>2, <1>3, <1>9, <1>10, <1>12, <1>13, <1>14, AskStep DEF local

\* The end of an exchange: the head of the queue goes.
LEMMA ClientDone ==
  ASSUME SyncInv, UploadPhase, ~ Downloading, at["client"] \notin {"down", "next", "listed"},
         Done("client"), UNCHANGED <<tree, file, users>>, TypeOK',
         at["server"] \in {"handle_request"} \cup Receiver,
         inbox'["client"] = <<>>, inbox'["server"] = <<>>,
         Later(Name("client")) \/ tree["client"][Name("client")] = tree["server"][Name("client")]
  PROVE  SyncInv'
<1> DEFINE n == Name("client")
<1>1. TypeOK /\ TreesFit /\ AtRest /\ Followed /\ ChangesPending /\ "client" \in Sides
  BY Peers DEF SyncInv
<1>2. todo["client"] # <<>> /\ todo["client"] \in Seq(Items)
  BY <1>1 DEF UploadPhase, TypeOK
<1>3. /\ todo'["client"] = Tail(todo["client"]) /\ todo'["server"] = todo["server"]
      /\ orphan'["client"] = None /\ orphan'["server"] = orphan["server"]
  BY <1>1, Peers DEF Done, TypeOK
<1>4. at'["client"] = "next" /\ at'["server"] = at["server"]
  BY <1>1, GoEffect, Peers DEF Done
<1>5. TreesFit'
  BY <1>1, <1>4, SameFits, Peers DEF Receiver
<1>6. watching
  BY <1>1, <1>2 DEF AtRest
<1>7. AtRest'
  BY <1>1, <1>3, <1>4, <1>6 DEF AtRest, users, Downloading
<1>8. Followed'
  <2> DEFINE q == todo["client"]
             r == Tail(q)
  <2>1. /\ Len(q) \in Nat /\ Len(r) = Len(q) - 1 /\ DOMAIN r = 1 .. Len(r) /\ DOMAIN q = 1 .. Len(q)
        /\ \A i \in 1 .. Len(r) : r[i] = q[i + 1]
    BY <1>2, HeadTailProperties
  <2>2. ASSUME NEW i \in DOMAIN r, r[i].op = "rm", tree["client"][r[i].name] # None,
               r[i].name \notin NamesIn(events)
        PROVE  \E j \in i + 1 .. Len(r) : r[j].name = r[i].name
    <3>1. i + 1 \in DOMAIN q /\ r[i] = q[i + 1]
      BY <2>1
    <3>2. PICK j \in (i + 1) + 1 .. Len(q) : q[j].name = q[i + 1].name
      BY <1>1, <2>2, <3>1 DEF Followed
    <3>3. j - 1 \in i + 1 .. Len(r) /\ r[j - 1] = q[j]
      BY <2>1, <3>2
    <3> QED
      BY <3>1, <3>2, <3>3
  <2> QED
    BY <1>1, <1>3, <2>2 DEF Followed, users
<1>9. ChangesPending'
  <2>1. NamesIn(todo["client"]) = {n} \cup NamesIn(Tail(todo["client"]))
    BY <1>2, NamesTail DEF Name, Current
  <2> SUFFICES ASSUME NEW m \in Names, tree["client"][m] # tree["server"][m]
               PROVE  m \in NamesIn(events) \cup NamesIn(Tail(todo["client"])) \cup missed
    BY <1>3 DEF ChangesPending, Pending, users
  <2>2. m \in NamesIn(events) \cup NamesIn(todo["client"]) \cup missed
    BY <1>1 DEF ChangesPending, Pending
  <2>3. CASE m = n
    BY <2>3 DEF Later
  <2>4. CASE m # n
    BY <2>1, <2>2, <2>4
  <2> QED
    BY <2>3, <2>4
<1>10. UploadPhase' /\ ~ Downloading'
  BY <1>4 DEF UploadPhase, Downloading, Ready, Silence, Between
<1> QED
  BY <1>4, <1>5, <1>7, <1>8, <1>9, <1>10 DEF SyncInv

LEMMA ClientAnswered ==
  ASSUME SyncInv, Answered("client")
  PROVE  SyncInv'
<1> DEFINE n == Name("client")
<1>1. TypeOK /\ AtRest /\ Followed /\ "client" \in Sides
  BY Peers DEF SyncInv
<1>2. /\ at["client"] \in {"meta_reply", "last_reply", "link_reply", "rm_reply"}
      /\ inbox["client"] # <<>> /\ Took("client") /\ Done("client")
      /\ UNCHANGED <<tree, file, users>>
      /\ at["client"] = "meta_reply" => Head(inbox["client"]).status = "ok"
  BY DEF Answered, Receives
<1>3. ~ Downloading /\ UploadPhase
  BY <1>2, ClientUploads
<1>4. todo["client"] # <<>> /\ todo["client"] \in Seq(Items)
  BY <1>1, <1>2, <1>3 DEF UploadPhase, TypeOK
<1>5. TypeOK'
  BY <1>1, <1>4, AnsweredType
<1>6. /\ at["server"] = "handle_request" /\ inbox["server"] = <<>>
      /\ \/ Answer("ok") \/ Answer("fail")
      /\ \/ Agreed(n)
         \/ Head(todo["client"]).op = "rm" /\ tree["server"][n] = None
  <2>1. CASE at["client"] = "meta_reply"
    <3>1. Res("more").status # "ok"
      BY DEF Res
    <3> QED
      BY <1>2, <1>3, <2>1, <3>1, One
         DEF UploadPhase, MetaSent, Silence, Asked, Answer, Agreed, Between
  <2>2. CASE at["client"] = "last_reply"
    BY <1>2, <1>3, <2>2 DEF UploadPhase, FileSent, Asked, Answer, Agreed, Between
  <2>3. CASE at["client"] = "link_reply"
    BY <1>2, <1>3, <2>3 DEF UploadPhase, LinkSent, Silence, Asked, Answer, Agreed, Between
  <2>4. CASE at["client"] = "rm_reply"
    BY <1>2, <1>3, <2>4 DEF UploadPhase, RmSent, Silence, Asked, Answer, Between
  <2> QED
    BY <1>2, <2>1, <2>2, <2>3, <2>4
<1>7. inbox'["client"] = <<>> /\ inbox'["server"] = <<>>
  <2>1. Tail(inbox["client"]) = <<>>
    BY <1>6, One DEF Answer, Between
  <2> QED
    BY <1>1, <1>2, <1>6, <2>1, TookEffect, Peers
<1>8. Later(n) \/ tree["client"][n] = tree["server"][n]
  <2>1. CASE Agreed(n)
    BY <2>1 DEF Agreed
  <2>2. CASE /\ Head(todo["client"]).op = "rm" /\ tree["server"][n] = None
             /\ tree["client"][n] # None
    <3> DEFINE q == todo["client"]
               r == Tail(q)
    <3>1. /\ Len(q) \in Nat \ {0} /\ Len(r) = Len(q) - 1 /\ DOMAIN r = 1 .. Len(r)
          /\ DOMAIN q = 1 .. Len(q) /\ q[1] = Head(q)
          /\ \A i \in 1 .. Len(r) : r[i] = q[i + 1]
      BY <1>4, HeadTailProperties
    <3>2. n = q[1].name /\ q[1].op = "rm" /\ 1 \in DOMAIN q
      BY <2>2, <3>1 DEF Name, Current
    <3>3. \/ n \in NamesIn(events)
          \/ \E j \in 1 + 1 .. Len(q) : q[j].name = n
      BY <1>1, <2>2, <3>2 DEF Followed
    <3>4. CASE \E j \in 1 + 1 .. Len(q) : q[j].name = n
      <4>1. PICK j \in 1 + 1 .. Len(q) : q[j].name = n
        BY <3>4
      <4>2. j - 1 \in DOMAIN r /\ r[j - 1] = q[j]
        BY <3>1, <4>1
      <4> QED
        BY <4>1, <4>2 DEF Later, NamesIn
    <3> QED
      BY <3>3, <3>4 DEF Later
  <2> QED
    BY <1>6, <2>1, <2>2
<1> QED
  BY <1>2, <1>3, <1>5, <1>6, <1>7, <1>8, ClientDone

LEMMA ClientSendBlock ==
  ASSUME SyncInv, at["client"] \in {"meta_reply", "full_reply"}, NEW st, Answer(st),
         Kind[Name("client")] = "file", Opened("client") # None,
         Later(Name("client")) \/ orphan["client"] = None,
         at["server"] = "receive", file["server"] = Name("client"),
         NEW i \in Nat \ {0}, Copied(Name("client"), i - 1), SendBlock("client", i)
  PROVE  SyncInv'
<1> DEFINE n == Name("client")
           b == ReadBlock("client", i)
<1>1. TypeOK /\ AtRest /\ "client" \in Sides
  BY Peers DEF SyncInv
<1>2. ~ Downloading /\ UploadPhase
  BY ClientUploads
<1>3. todo["client"] # <<>> /\ inbox["client"] = <<Res(st)>> /\ inbox["server"] = <<>>
      /\ inbox["client"] # <<>>
  BY <1>2, One DEF UploadPhase, Answer, Between
<1>4. /\ Reply("client", File(b)) /\ block' = [block EXCEPT !["client"] = i]
      /\ Go("client", IF b \in Full THEN "full_reply" ELSE "last_reply")
      /\ UNCHANGED <<tree, todo, file, orphan, users>>
  BY DEF SendBlock
<1>5. TypeOK'
  BY <1>1, <1>3, SendBlockType
<1>6. b \in Blocks \cup {Empty}
  BY <1>1, <1>3, OpenedType
<1>7. inbox'["client"] = <<>> /\ inbox'["server"] = <<File(b)>>
  <2>1. inbox'["client"] = Tail(inbox["client"]) /\ inbox'["server"] = Append(inbox["server"], File(b))
    BY <1>1, <1>3, <1>4, <1>6, ReplyEffect, MessagesMade, Peers
  <2> QED
    BY <1>3, <2>1, One
<1>8. at'["client"] = (IF b \in Full THEN "full_reply" ELSE "last_reply") /\ at'["server"] = at["server"]
  BY <1>1, <1>4, GoEffect, Peers
<1>9. Name("client")' = n /\ block'["client"] = i
  BY <1>1, <1>4 DEF Name, Current, TypeOK
<1>10. Opened("client")' = Opened("client")
  BY <1>4 DEF Opened, Current
<1>11. ReadBlock("client", block["client"])' = b
  BY <1>9, <1>10 DEF ReadBlock
<1>12. (Later(n) => Later(Name("client"))') /\ Copied(Name("client"), block["client"] - 1)'
  <2>1. Later(n) => Later(Name("client"))'
    BY <1>4, <1>9 DEF Later, users
  <2> QED
    BY <1>4, <1>9, <2>1 DEF Copied
<1>13. FileSent(Name("client"))'
  <2>1. b \in Full <=> at'["client"] = "full_reply"
    BY <1>8
  <2>2. \E c \in Blocks \cup {Empty} :
          /\ inbox'["client"] = <<>> /\ inbox'["server"] = <<File(c)>>
          /\ c \in Full <=> at'["client"] = "full_reply"
          /\ Later(Name("client"))' \/ c = ReadBlock("client", block["client"])'
    <3> HIDE DEF b
    <3> QED
      BY <1>6, <1>7, <1>11, <2>1
  <2>3. \E c \in Blocks \cup {Empty} :
          /\ Asked(File(c))' /\ (c \in Full <=> at'["client"] = "full_reply")
          /\ Later(Name("client"))' \/ c = ReadBlock("client", block["client"])'
    BY <2>2 DEF Asked, Between
  <2>4. Later(Name("client"))' \/ orphan'["client"] = None
    BY <1>4, <1>12
  <2>5. Kind[Name("client")'] = "file" /\ block'["client"] > 0 /\ Opened("client")' # None
        /\ at'["server"] = "receive" /\ file'["server"] = Name("client")'
    BY <1>4, <1>8, <1>9, <1>10
  <2> QED
    BY <1>12, <2>3, <2>4, <2>5 DEF FileSent
<1>14. at'["client"] \in {"full_reply", "last_reply"}
  BY <1>8
<1>15. UploadPhase'
  BY <1>3, <1>4, <1>13, <1>14 DEF UploadPhase
<1> QED
  BY <1>2, <1>4, <1>5, <1>8, <1>14, <1>15, AskStep DEF Receiver

LEMMA ClientSendNext ==
  ASSUME SyncInv, SendNext("client")
  PROVE  SyncInv'
<1> DEFINE n == Name("client")
<1>1. at["client"] = "full_reply" /\ inbox["client"] # <<>> /\ SendBlock("client", block["client"] + 1)
  BY DEF SendNext, Receives
<1>2. ~ Downloading /\ UploadPhase
  BY <1>1, ClientUploads
<1>3. FileSent(n)
  BY <1>1, <1>2 DEF UploadPhase
<1>4. /\ at["server"] = "receive" /\ file["server"] = n
      /\ Answer("ok") /\ Copied(n, block["client"])
  BY <1>1, <1>3 DEF FileSent, Asked, Between
<1>5. block["client"] \in Nat
  BY Peers DEF SyncInv, TypeOK
<1>6. block["client"] + 1 \in Nat \ {0} /\ (block["client"] + 1) - 1 = block["client"]
  BY <1>5
<1>7. Kind[n] = "file" /\ Opened("client") # None /\ (Later(n) \/ orphan["client"] = None)
  BY <1>3 DEF FileSent
<1> HIDE DEF n
<1> QED
  BY <1>1, <1>4, <1>6, <1>7, ClientSendBlock DEF n

LEMMA ClientSendMore ==
  ASSUME SyncInv, SendMore("client")
  PROVE  SyncInv'
<1> DEFINE n == Name("client")
           d == tree["client"][n]
<1>1. TypeOK /\ TreesFit /\ AtRest /\ "client" \in Sides
  BY Peers DEF SyncInv
<1>2. at["client"] = "meta_reply" /\ inbox["client"] # <<>> /\ Head(inbox["client"]).status = "more"
  BY DEF SendMore, Receives
<1>3. ~ Downloading /\ UploadPhase
  BY <1>2, ClientUploads
<1>4. /\ at["server"] \in Receiver /\ file["server"] = n /\ Answer("more")
      /\ at["server"] = "receive" => Copied(n, 0)
      /\ Later(n) \/ d # None
  <2>1. Res("ok").status # "more"
    BY DEF Res
  <2>2. MetaSent(n)
    BY <1>2, <1>3 DEF UploadPhase
  <2> QED
    BY <1>2, <2>1, <2>2, One DEF MetaSent, Silence, Asked, Answer, Agreed, Between
<1>5. todo["client"] # <<>> /\ inbox["client"] = <<Res("more")>> /\ inbox["server"] = <<>>
  BY <1>2, <1>3, <1>4 DEF UploadPhase, Answer, Between
<1>6. n \in Names /\ Current("client").name = n
  BY <1>1, <1>5, TurnFacts DEF Name
<1>7. TypeOK'
  BY <1>1, <1>5, SendMoreType
<1>8. orphan["client"] = None
  BY <1>1, <1>2 DEF AtRest
<1>9. at["server"] = "receive" => Kind[n] = "file"
  BY <1>1, <1>4, Peers DEF TreesFit
<1>10. at["server"] = "receive_link" => Kind[n] = "link"
  BY <1>1, <1>4, Peers DEF TreesFit
<1>11. at["server"] = "receive" \/ at["server"] = "receive_link"
  BY <1>4 DEF Receiver
<1>12. CASE d = None /\ Took("client") /\ Done("client") /\ UNCHANGED <<tree, file, users>>
  <2>1. inbox'["client"] = <<>> /\ inbox'["server"] = <<>>
    BY <1>1, <1>2, <1>5, <1>12, TookEffect, One, Peers
  <2> QED
    BY <1>2, <1>3, <1>4, <1>7, <1>12, <2>1, ClientDone
<1>13. CASE d # None /\ Kind[n] = "file" /\ SendBlock("client", 1)
  <2>1. at["server"] = "receive" /\ Opened("client") # None
    BY <1>6, <1>8, <1>10, <1>11, <1>13 DEF Opened
  <2>2. Copied(n, 1 - 1) /\ 1 \in Nat \ {0}
    BY <1>4, <2>1
  <2> HIDE DEF n
  <2> QED
    BY <1>2, <1>4, <1>8, <1>13, <2>1, <2>2, ClientSendBlock DEF n
<1>14. CASE /\ d # None /\ Kind[n] = "link"
            /\ Reply("client", File(d[1])) /\ Go("client", "link_reply")
            /\ UNCHANGED <<tree, todo, local, users>>
  <2>1. d \in Data /\ Len(d) = 1
    BY <1>1, <1>6, <1>14 DEF TypeOK, TreesFit, Holds
  <2>2. d[1] \in Blocks /\ d = <<d[1]>>
    BY <2>1 DEF Data
  <2>3. inbox'["client"] = <<>> /\ inbox'["server"] = <<File(d[1])>>
    <3>1. File(d[1]) \in Messages
      BY <2>2, MessagesMade
    <3>2. inbox'["client"] = Tail(inbox["client"]) /\ inbox'["server"] = Append(inbox["server"], File(d[1]))
      BY <1>1, <1>2, <1>14, <3>1, ReplyEffect, Peers
    <3> QED
      BY <1>5, <3>2, One
  <2>4. at'["client"] = "link_reply" /\ at'["server"] = at["server"] /\ at["server"] = "receive_link"
    BY <1>1, <1>9, <1>11, <1>14, GoEffect, Peers
  <2>5. Name("client")' = n
    BY <1>14 DEF Name, Current
  <2>6. LinkSent(Name("client"))'
    <3>1. tree'["client"][n] = <<d[1]>> /\ file'["server"] = n
      BY <1>4, <1>14, <2>2 DEF local
    <3>2. \E c \in Blocks :
            /\ inbox'["client"] = <<>> /\ inbox'["server"] = <<File(c)>>
            /\ tree'["client"][n] = <<c>>
      BY <2>2, <2>3, <3>1
    <3>3. \E c \in Blocks : Asked(File(c))' /\ tree'["client"][Name("client")'] = <<c>>
      BY <2>5, <3>2 DEF Asked, Between
    <3> QED
      BY <1>14, <2>4, <2>5, <3>1, <3>3 DEF LinkSent
  <2>7. UploadPhase'
    BY <1>5, <1>14, <2>4, <2>6 DEF UploadPhase
  <2>8. at'["client"] \notin Receiver \cup {"down", "login", "download", "listed"}
    BY <2>4 DEF Receiver
  <2> QED
    BY <1>2, <1>3, <1>7, <1>8, <1>14, <2>4, <2>7, <2>8, AskStep DEF local
<1> QED
  BY <1>6, <1>12, <1>13, <1>14 DEF SendMore
-----------------------------------------------------------------------------
(* The upload: steps of the server.                                        *)
LEMMA UploadAsked ==
  ASSUME SyncInv, at["client"] # "down", at["server"] \in {"handle_request"} \cup Receiver,
         inbox["server"] # <<>>, Head(inbox["server"]).op # "login"
  PROVE  /\ ~ Downloading /\ UploadPhase /\ todo["client"] # <<>> /\ Name("client") \in Names
         /\ at["client"] \notin {"listed", "next"}
         /\ inbox["client"] = <<>> /\ Tail(inbox["server"]) = <<>>
         /\ LET n == Name("client")
                m == Head(inbox["server"])
            IN  \/ at["client"] = "no_reply" /\ m = Meta(n, None)
                \/ at["client"] = "rm_reply" /\ m = Rm(n) /\ Head(todo["client"]).op = "rm"
                \/ /\ at["client"] = "meta_reply" /\ m = Meta(n, m.data) /\ m.data # None
                   /\ Later(n) \/ tree["client"][n] = m.data
                \/ /\ at["client"] \in {"full_reply", "last_reply"} /\ FileSent(n)
                   /\ at["server"] = "receive" /\ m = File(m.data)
                \/ /\ at["client"] = "link_reply" /\ LinkSent(n)
                   /\ at["server"] = "receive_link" /\ m = File(m.data)
<1> DEFINE n == Name("client")
           m == Head(inbox["server"])
<1>1. TypeOK /\ "client" \in Sides
  BY Peers DEF SyncInv
<1>2. ~ Downloading /\ UploadPhase
  BY ServerReceives, One, MessagesRead DEF LoggingIn, Between
<1>3. at["client"] \notin {"listed", "next"}
  BY <1>2 DEF UploadPhase, RmSent, MetaSent, FileSent, LinkSent, Silence, Between
<1>4. todo["client"] # <<>>
  BY <1>2, <1>3 DEF UploadPhase
<1>5. n \in Names
  BY <1>1, <1>4, TurnFacts DEF Name
<1>6. CASE at["client"] = "no_reply"
  <2>1. Asked(Meta(n, None))
    BY <1>2, <1>6 DEF UploadPhase, Silence, Between
  <2> QED
    BY <1>2, <1>4, <1>5, <1>6, <2>1, One DEF Asked, Between
<1>7. CASE at["client"] = "rm_reply"
  <2>1. Head(todo["client"]).op = "rm" /\ Asked(Rm(n))
    BY <1>2, <1>7 DEF UploadPhase, RmSent, Silence, Answer, Between
  <2> QED
    BY <1>2, <1>4, <1>5, <1>7, <2>1, One DEF Asked, Between
<1>8. CASE at["client"] = "meta_reply"
  <2>1. Asked(Meta(n, m.data)) /\ m.data # None /\ (Later(n) \/ tree["client"][n] = m.data)
    BY <1>2, <1>8 DEF UploadPhase, MetaSent, Agreed, Silence, Answer, Between
  <2> QED
    BY <1>2, <1>4, <1>5, <1>8, <2>1, One DEF Asked, Between
<1>9. CASE at["client"] \in {"full_reply", "last_reply"}
  <2>1. FileSent(n)
    BY <1>2, <1>9 DEF UploadPhase
  <2>2. at["server"] = "receive" /\ \E b \in Blocks \cup {Empty} : Asked(File(b))
    BY <2>1 DEF FileSent, Agreed, Answer, Between
  <2>3. inbox["client"] = <<>> /\ Tail(inbox["server"]) = <<>> /\ m = File(m.data)
    BY <2>2, One, MessagesRead DEF Asked, Between
  <2> QED
    BY <1>2, <1>4, <1>5, <1>9, <2>1, <2>2, <2>3
<1>10. CASE at["client"] = "link_reply"
  <2>1. LinkSent(n)
    BY <1>2, <1>10 DEF UploadPhase
  <2>2. at["server"] = "receive_link" /\ \E b \in Blocks : Asked(File(b))
    BY <2>1 DEF LinkSent, Silence, Agreed, Answer, Between
  <2>3. inbox["client"] = <<>> /\ Tail(inbox["server"]) = <<>> /\ m = File(m.data)
    BY <2>2, One, MessagesRead DEF Asked, Between
  <2> QED
    BY <1>2, <1>4, <1>5, <1>10, <2>1, <2>2, <2>3
<1> QED
  BY <1>2, <1>3, <1>6, <1>7, <1>8, <1>9, <1>10 DEF UploadPhase

LEMMA CopyStep ==
  ASSUME SyncInv, ~ Downloading, UploadPhase, at["client"] # "down", todo["client"] # <<>>,
         at["server"] \notin Sender, at'["server"] \notin Sender, at'["client"] = at["client"],
         TypeOK', TreesFit', UNCHANGED <<todo, orphan, users>>,
         tree'["client"] = tree["client"],
         \A m \in Names : m # Name("client") => tree'["server"][m] = tree["server"][m],
         UploadPhase'
  PROVE  SyncInv'
<1>1. AtRest /\ Followed /\ ChangesPending /\ TypeOK
  BY DEF SyncInv
<1>2. ~ Downloading'
  BY DEF Downloading
<1>3. AtRest'
  BY <1>1, <1>2 DEF AtRest, users
<1>4. Followed'
  BY <1>1, SameFollowed DEF users
<1>5. ChangesPending'
  <2>1. Name("client") \in NamesIn(todo["client"])
    BY <1>1, NamesTail, Peers DEF TypeOK, Name, Current
  <2> QED
    BY <1>1, <2>1 DEF ChangesPending, Pending, users
<1> QED
  BY <1>2, <1>3, <1>4, <1>5 DEF SyncInv

LEMMA UploadReceiveMeta ==
  ASSUME SyncInv, at["client"] # "down", ReceiveMeta("server")
  PROVE  SyncInv'
<1> DEFINE n == Name("client")
           d == Head(inbox["server"]).data
<1>1. TypeOK /\ TreesFit /\ AtRest /\ "server" \in Sides
  BY Peers DEF SyncInv
<1>2. /\ at["server"] = "handle_request" /\ inbox["server"] # <<>>
      /\ Head(inbox["server"]).op = "meta" /\ UNCHANGED <<todo, block, orphan, users>>
  BY Peers DEF ReceiveMeta, Receives
<1>3. /\ ~ Downloading /\ UploadPhase /\ todo["client"] # <<>> /\ n \in Names
      /\ inbox["client"] = <<>> /\ Tail(inbox["server"]) = <<>>
      /\ \/ at["client"] = "no_reply" /\ d = None
         \/ at["client"] = "meta_reply" /\ d # None /\ (Later(n) \/ tree["client"][n] = d)
      /\ Head(inbox["server"]).name = n
  BY <1>2, UploadAsked, MessagesRead
<1>4. TypeOK' /\ TreesFit'
  BY <1>1, ReceiveMetaType, ReceiveMetaFits
<1>5. Name("client")' = n /\ (Later(n) => Later(Name("client"))')
  BY <1>2 DEF Name, Current, Later, users
<1>6. "spin" \notin Sender /\ "receive" \notin Sender /\ "receive_link" \notin Sender
      /\ "handle_request" \notin Sender
  BY DEF Sender
<1>7. ASSUME Took("server") PROVE inbox'["client"] = <<>> /\ inbox'["server"] = <<>>
  BY <1>1, <1>2, <1>3, <1>7, TookEffect, Peers
<1>8. ASSUME NEW st \in {"ok", "more"}, Reply("server", Res(st))
      PROVE  inbox'["client"] = <<Res(st)>> /\ inbox'["server"] = <<>>
  <2>1. inbox'["server"] = Tail(inbox["server"]) /\ inbox'["client"] = Append(inbox["client"], Res(st))
    BY <1>1, <1>2, <1>8, ReplyEffect, MessagesMade, Peers
  <2> QED
    BY <1>3, <2>1, One
<1>9. CASE d = None /\ Took("server") /\ UNCHANGED <<tree, at, file>>
  <2>1. UploadPhase'
    BY <1>2, <1>3, <1>7, <1>9 DEF UploadPhase, Ready, Silence, Between
  <2> QED
    BY <1>2, <1>3, <1>4, <1>6, <1>9, <2>1, CopyStep
<1>10. ASSUME d # None, Ok("server"), tree'["client"] = tree["client"],
              \A m \in Names : m # n => tree'["server"][m] = tree["server"][m],
              Later(n) \/ tree'["client"][n] = tree'["server"][n]
       PROVE  SyncInv'
  <2>1. Reply("server", Res("ok")) /\ UNCHANGED <<at, file>>
    BY <1>10 DEF Ok
  <2>2. Agreed(Name("client"))' /\ Answer("ok")'
    BY <1>2, <1>5, <1>8, <1>10, <2>1 DEF Agreed, Answer, Between
  <2>3. UploadPhase'
    BY <1>2, <1>3, <1>10, <2>1, <2>2 DEF UploadPhase, MetaSent
  <2> QED
    BY <1>2, <1>3, <1>4, <1>6, <1>10, <2>1, <2>3, CopyStep
<1>11. CASE d # None /\ Kind[n] = "dir" /\ SetTree("server", n, <<>>) /\ Ok("server")
  <2>1. /\ tree'["server"][n] = <<>> /\ tree'["client"] = tree["client"]
        /\ \A m \in Names : m # n => tree'["server"][m] = tree["server"][m]
    BY <1>1, <1>3, <1>11, SetTreeEffect, DataFacts, Peers
  <2>2. Later(n) \/ tree["client"][n] = <<>>
    BY <1>1, <1>3, <1>11, Peers DEF TreesFit, Holds
  <2> QED
    BY <1>10, <1>11, <2>1, <2>2
<1>12. CASE d # None /\ tree["server"][n] = d /\ Ok("server") /\ UNCHANGED tree
  BY <1>3, <1>10, <1>12
<1>13. CASE d # None /\ Go("server", "spin") /\ Took("server") /\ UNCHANGED <<tree, file>>
  <2>1. at'["server"] = "spin" /\ at'["client"] = at["client"]
    BY <1>1, <1>13, GoEffect, Peers
  <2>2. UploadPhase'
    BY <1>2, <1>3, <1>7, <1>13, <2>1 DEF UploadPhase, MetaSent, Silence, Between
  <2> QED
    BY <1>2, <1>3, <1>4, <1>6, <1>13, <2>1, <2>2, CopyStep
<1>14. ASSUME d # None, NEW place \in {"receive", "receive_link"}, More("server", n, place)
       PROVE  SyncInv'
  <2>1. /\ Reply("server", Res("more")) /\ Go("server", place)
        /\ file' = [file EXCEPT !["server"] = n]
        /\ IF place = "receive" THEN SetTree("server", n, <<>>) ELSE UNCHANGED tree
    BY <1>14 DEF More
  <2>2. at'["server"] = place /\ at'["client"] = at["client"]
    BY <1>1, <2>1, GoEffect, Peers
  <2>3. file'["server"] = n
    BY <1>1, <2>1 DEF TypeOK
  <2>4. /\ tree'["client"] = tree["client"]
        /\ \A m \in Names : m # n => tree'["server"][m] = tree["server"][m]
        /\ place = "receive" => tree'["server"][n] = <<>> /\ tree'["server"][n] # None
    BY <1>1, <1>3, <2>1, SetTreeEffect, DataFacts, Peers
  <2>5. Later(n) \/ (tree["client"][n] \in Data /\ tree["client"][n] # None)
    BY <1>1, <1>3, <1>14, Peers DEF TypeOK
  <2>6. place = "receive" => Copied(n, 0)'
    <3> SUFFICES ASSUME place = "receive" PROVE Copied(n, 0)'
      OBVIOUS
    <3>1. CASE Later(n)
      BY <1>5, <3>1 DEF Copied
    <3>2. CASE tree["client"][n] \in Data /\ tree["client"][n] # None
      <4>1. Len(tree'["server"][n]) = 0 /\ tree'["server"][n] # None
        BY <2>4
      <4>2. 0 <= Len(tree["client"][n])
        BY <3>2 DEF Data
      <4>3. \A i \in 1 .. 0 : FALSE
        OBVIOUS
      <4> QED
        BY <1>5, <2>4, <3>2, <4>1, <4>2, <4>3 DEF Copied
    <3> QED
      BY <2>5, <3>1, <3>2
  <2>7. Answer("more")'
    BY <1>8, <2>1 DEF Answer, Between
  <2>8. MetaSent(Name("client"))'
    BY <1>5, <2>2, <2>3, <2>4, <2>5, <2>6, <2>7 DEF MetaSent, Receiver
  <2>9. UploadPhase'
    BY <1>2, <1>3, <1>14, <2>2, <2>8 DEF UploadPhase
  <2> QED
    BY <1>2, <1>3, <1>4, <1>6, <2>2, <2>4, <2>9, CopyStep
<1> QED
  BY <1>3, <1>9, <1>11, <1>12, <1>13, <1>14 DEF ReceiveMeta

\* The last block of a file makes the copy complete.
LEMMA LastBlock ==
  ASSUME NEW c \in Data, NEW d \in Data, NEW k \in Nat \ {0}, NEW b,
         Holds(c, "file"), Len(d) = k - 1, k - 1 <= Len(c),
         \A i \in 1 .. k - 1 : d[i] = c[i],
         b = (IF k <= Len(c) THEN c[k] ELSE Empty), b \notin Full
  PROVE  c = (IF b = Empty THEN d ELSE Append(d, b))
<1>1. c \in Seq(Blocks) /\ d \in Seq(Blocks) /\ Len(c) \in Nat /\ Empty \notin Blocks
  BY SyncAssumption DEF Data
<1>2. CASE k <= Len(c)
  <2>1. b = c[k] /\ b \in Blocks /\ b # Empty
    BY <1>1, <1>2
  <2>2. k = Len(c)
    BY <1>1, <1>2, <2>1 DEF Holds
  <2>3. Append(d, b) \in Seq(Blocks) /\ Len(Append(d, b)) = k
        /\ \A i \in 1 .. k - 1 : Append(d, b)[i] = d[i]
        /\ Append(d, b)[k] = b
    BY <1>1, <2>1
  <2>4. \A i \in 1 .. Len(c) : Append(d, b)[i] = c[i]
    BY <2>1, <2>2, <2>3
  <2>5. c = Append(d, b)
    BY <1>1, <2>2, <2>3, <2>4, SeqEqual
  <2> QED
    BY <2>1, <2>5
<1>3. CASE ~ (k <= Len(c))
  <2>1. b = Empty /\ Len(c) = k - 1
    BY <1>1, <1>3
  <2>2. \A i \in 1 .. Len(c) : d[i] = c[i]
    BY <2>1
  <2>3. c = d
    BY <1>1, <2>1, <2>2, SeqEqual
  <2> QED
    BY <2>1, <2>3
<1> QED
  BY <1>2, <1>3

LEMMA UploadReceiveFile ==
  ASSUME SyncInv, at["client"] # "down", ReceiveFile("server")
  PROVE  SyncInv'
<1> DEFINE n == Name("client")
           b == Head(inbox["server"]).data
           c == tree["client"][n]
           d == tree["server"][n]
           k == block["client"]
<1>1. TypeOK /\ TreesFit /\ AtRest /\ "server" \in Sides
  BY Peers DEF SyncInv
<1>2. /\ at["server"] = "receive" /\ inbox["server"] # <<>>
      /\ Head(inbox["server"]).op = "file" /\ UNCHANGED <<todo, block, orphan, users>>
      /\ Reply("server", Res("ok"))
  BY DEF ReceiveFile, Receives
<1>3. /\ ~ Downloading /\ UploadPhase /\ todo["client"] # <<>> /\ n \in Names
      /\ inbox["client"] = <<>> /\ Tail(inbox["server"]) = <<>>
      /\ at["client"] \in {"full_reply", "last_reply"} /\ FileSent(n)
  BY <1>2, UploadAsked, MessagesRead DEF Receiver
<1>4. TypeOK' /\ TreesFit'
  BY <1>1, ReceiveFileType, ReceiveFileFits
<1>5. Name("client")' = n /\ (Later(n) => Later(Name("client"))') /\ block'["client"] = k
  BY <1>2 DEF Name, Current, Later, users
<1>6. /\ Kind[n] = "file" /\ k \in Nat \ {0} /\ file["server"] = n /\ Copied(n, k - 1)
      /\ b \in Blocks \cup {Empty} /\ (b \in Full <=> at["client"] = "full_reply")
      /\ Later(n) \/ b = ReadBlock("client", k)
  <2>1. k \in Nat
    BY <1>1, Peers DEF TypeOK
  <2> QED
    BY <1>2, <1>3, <2>1, One, MessagesRead DEF FileSent, Asked, Answer, Agreed, Between
<1>7. d \in Data /\ d # None
  BY <1>1, <1>2, <1>6 DEF TreesFit, TypeOK
<1>8. Later(n) \/ (c \in Data /\ Holds(c, "file") /\ c # None /\ orphan["client"] = None)
  BY <1>1, <1>3, <1>6, Peers DEF Copied, TypeOK, TreesFit, FileSent
<1>9. Later(n) \/ b = (IF k <= Len(c) THEN c[k] ELSE Empty)
  BY <1>6, <1>8 DEF ReadBlock, Opened, Name
<1>10. Later(n) \/ (Len(d) = k - 1 /\ k - 1 <= Len(c) /\ \A i \in 1 .. k - 1 : d[i] = c[i])
  BY <1>6 DEF Copied
<1>11. inbox'["client"] = <<Res("ok")>> /\ inbox'["server"] = <<>>
  <2>1. inbox'["server"] = Tail(inbox["server"]) /\ inbox'["client"] = Append(inbox["client"], Res("ok"))
    BY <1>1, <1>2, ReplyEffect, MessagesMade, Peers
  <2> QED
    BY <1>3, <2>1, One
<1>12. Answer("ok")'
  BY <1>11 DEF Answer, Between
<1>13. /\ \A m \in Names : m # n => tree'["server"][m] = tree["server"][m]
       /\ tree'["server"][n] = IF b = Empty THEN d ELSE Append(d, b)
       /\ tree'["server"][n] \in Data /\ tree'["server"][n] # None
       /\ tree'["client"] = tree["client"]
  <2>1. CASE b = Empty
    BY <1>7, <2>1 DEF ReceiveFile
  <2>2. CASE b # Empty
    <3> DEFINE e == Append(d, b)
    <3>1. e \in Data /\ e # None /\ SetTree("server", n, e)
      BY <1>6, <1>7, <2>2, DataFacts DEF ReceiveFile
    <3>2. e \in Data \cup {None}
      BY <3>1
    <3>3. b # Empty /\ n \in Names
      BY <1>3, <2>2
    <3> HIDE DEF e, n, b
    <3>4. /\ tree'["server"][n] = e /\ tree'["client"] = tree["client"]
          /\ \A m \in Names : m # n => tree'["server"][m] = tree["server"][m]
      BY <1>1, <3>1, <3>2, <3>3, SetTreeEffect, Peers
    <3> QED
      BY <3>1, <3>3, <3>4 DEF e
  <2> QED
    BY <2>1, <2>2
<1>14. UNCHANGED orphan /\ at["server"] \notin Sender
  BY <1>2 DEF Sender
<1>15. CASE b \in Full
  <2>1. UNCHANGED <<at, file>> /\ b # Empty /\ b \in Blocks
    BY <1>15, SyncAssumption DEF ReceiveFile, Blocks
  <2>2. Copied(n, k)'
    <3>1. CASE Later(n)
      BY <1>5, <3>1 DEF Copied
    <3>2. CASE ~ Later(n)
      <4>1. /\ c \in Data /\ c # None /\ Len(d) = k - 1 /\ k - 1 <= Len(c)
            /\ \A i \in 1 .. k - 1 : d[i] = c[i]
            /\ b = IF k <= Len(c) THEN c[k] ELSE Empty
        BY <1>8, <1>9, <1>10, <3>2
      <4>2. k <= Len(c) /\ b = c[k]
        BY <2>1, <4>1
      <4>3. Len(Append(d, b)) = k /\ Append(d, b)[k] = b
            /\ \A i \in 1 .. k - 1 : Append(d, b)[i] = d[i]
        <5>1. Len(d) = k - 1 /\ k \in Nat \ {0} /\ d \in Seq(Blocks) /\ b \in Blocks
          BY <1>6, <1>7, <2>1, <4>1 DEF Data
        <5> HIDE DEF d, k, b
        <5> QED
          BY <5>1
      <4>4. \A i \in 1 .. k : Append(d, b)[i] = c[i]
        BY <1>6, <4>1, <4>2, <4>3
      <4>5. tree'["server"][n] = Append(d, b) /\ tree'["server"][n] # None /\ tree'["client"][n] = c
        BY <1>13, <2>1
      <4> QED
        BY <1>5, <4>1, <4>2, <4>3, <4>4, <4>5 DEF Copied
    <3> QED
      BY <3>1, <3>2
  <2>3. Opened("client")' # None /\ (Later(Name("client"))' \/ orphan'["client"] = None)
    BY <1>2, <1>3, <1>5, <1>13 DEF FileSent, Opened, Current
  <2>4. FileSent(Name("client"))'
    <3>1. Kind[Name("client")'] = "file" /\ block'["client"] > 0
      BY <1>5, <1>6
    <3>2. at'["client"] = "full_reply" /\ at'["server"] = "receive" /\ file'["server"] = Name("client")'
      BY <1>2, <1>5, <1>6, <1>15, <2>1
    <3>3. Copied(Name("client"), block["client"])'
      BY <2>2
    <3> QED
      BY <1>12, <2>3, <3>1, <3>2, <3>3 DEF FileSent
  <2>5. UploadPhase'
    BY <1>2, <1>3, <2>1, <2>4 DEF UploadPhase
  <2> QED
    BY <1>2, <1>3, <1>4, <1>13, <1>14, <2>1, <2>5, CopyStep
<1>16. CASE b \notin Full
  <2>1. Go("server", "handle_request")
    BY <1>16, Peers DEF ReceiveFile
  <2>2. at'["server"] = "handle_request" /\ at'["client"] = at["client"] /\ at["client"] = "last_reply"
    BY <1>1, <1>3, <1>6, <1>16, <2>1, GoEffect, Peers
  <2>3. Later(n) \/ c = tree'["server"][n]
    <3> SUFFICES ASSUME ~ Later(n) PROVE c = tree'["server"][n]
      OBVIOUS
    <3>1. /\ c \in Data /\ Holds(c, "file") /\ Len(d) = k - 1 /\ k - 1 <= Len(c)
          /\ \A i \in 1 .. k - 1 : d[i] = c[i]
          /\ b = IF k <= Len(c) THEN c[k] ELSE Empty
      BY <1>8, <1>9, <1>10
    <3>2. d \in Data /\ k \in Nat \ {0} /\ b \notin Full
      BY <1>6, <1>7, <1>16
    <3>3. tree'["server"][n] = IF b = Empty THEN d ELSE Append(d, b)
      BY <1>13
    <3> HIDE DEF b, c, d, k, n
    <3>4. c = IF b = Empty THEN d ELSE Append(d, b)
      BY <3>1, <3>2, LastBlock
    <3> QED
      BY <3>3, <3>4
  <2>4. Agreed(Name("client"))'
    <3>1. tree'["client"][n] = c
      BY <1>13
    <3> QED
      BY <1>5, <2>2, <2>3, <3>1 DEF Agreed
  <2>5. Opened("client")' # None /\ (Later(Name("client"))' \/ orphan'["client"] = None)
    BY <1>2, <1>3, <1>5, <1>13 DEF FileSent, Opened, Current
  <2>6. FileSent(Name("client"))'
    <3>1. Kind[Name("client")'] = "file" /\ block'["client"] > 0
      BY <1>5, <1>6
    <3> QED
      BY <1>12, <2>2, <2>4, <2>5, <3>1 DEF FileSent
  <2>7. UploadPhase'
    BY <1>2, <1>3, <2>2, <2>6 DEF UploadPhase
  <2>8. "handle_request" \notin Sender
    BY DEF Sender
  <2> QED
    BY <1>2, <1>3, <1>4, <1>13, <1>14, <2>2, <2>7, <2>8, CopyStep
<1> QED
  BY <1>15, <1>16

LEMMA UploadReceiveLink ==
  ASSUME SyncInv, at["client"] # "down", ReceiveLink("server")
  PROVE  SyncInv'
<1> DEFINE n == Name("client")
           b == Head(inbox["server"]).data
<1>1. TypeOK /\ TreesFit /\ AtRest /\ "server" \in Sides
  BY Peers DEF SyncInv
<1>2. /\ at["server"] = "receive_link" /\ inbox["server"] # <<>>
      /\ Head(inbox["server"]).op = "file" /\ UNCHANGED <<todo, block, orphan, users>>
      /\ Go("server", "handle_request")
  BY Peers DEF ReceiveLink, Receives
<1>3. /\ ~ Downloading /\ UploadPhase /\ todo["client"] # <<>> /\ n \in Names
      /\ inbox["client"] = <<>> /\ Tail(inbox["server"]) = <<>>
      /\ at["client"] = "link_reply" /\ LinkSent(n)
  BY <1>2, UploadAsked, MessagesRead DEF Receiver
<1>4. b \in Blocks
  BY <1>1, LinkData
<1>5. TypeOK' /\ TreesFit'
  BY <1>1, <1>4, ReceiveLinkType, ReceiveLinkFits
<1>6. Name("client")' = n /\ (Later(n) => Later(Name("client"))')
  BY <1>2 DEF Name, Current, Later, users
<1>7. Kind[n] = "link" /\ file["server"] = n /\ (Later(n) \/ tree["client"][n] = <<b>>)
  BY <1>2, <1>3, One, MessagesRead DEF LinkSent, Asked, Agreed, Silence, Between
<1>8. at'["server"] = "handle_request" /\ at'["client"] = at["client"]
  BY <1>1, <1>2, GoEffect, Peers
<1>9. /\ tree'["client"] = tree["client"]
      /\ \A m \in Names : m # n => tree'["server"][m] = tree["server"][m]
      /\ LinkSent(Name("client"))'
  <2>1. CASE Took("server") /\ UNCHANGED tree
    <3>1. inbox'["client"] = <<>> /\ inbox'["server"] = <<>>
      BY <1>1, <1>2, <1>3, <2>1, TookEffect, Peers
    <3> QED
      BY <1>6, <1>7, <1>8, <2>1, <3>1 DEF LinkSent, Silence, Between
  <2>2. CASE SetTree("server", n, <<b>>) /\ Reply("server", Res("ok"))
    <3>1. inbox'["client"] = <<Res("ok")>> /\ inbox'["server"] = <<>>
      <4>1. inbox'["server"] = Tail(inbox["server"]) /\ inbox'["client"] = Append(inbox["client"], Res("ok"))
        BY <1>1, <1>2, <2>2, ReplyEffect, MessagesMade, Peers
      <4> QED
        BY <1>3, <4>1, One
    <3>2. /\ tree'["client"] = tree["client"] /\ tree'["server"][n] = <<b>>
          /\ \A m \in Names : m # n => tree'["server"][m] = tree["server"][m]
      BY <1>1, <1>3, <1>4, <2>2, SetTreeEffect, DataFacts, Peers
    <3>3. Agreed(Name("client"))'
      BY <1>6, <1>7, <1>8, <3>2 DEF Agreed
    <3> QED
      BY <1>6, <1>7, <3>1, <3>2, <3>3 DEF LinkSent, Answer, Between
  <2> QED
    BY <1>7, <2>1, <2>2 DEF ReceiveLink
<1>10. UploadPhase'
  BY <1>2, <1>3, <1>8, <1>9 DEF UploadPhase
<1>11. "handle_request" \notin Sender /\ "receive_link" \notin Sender
  BY DEF Sender
<1> QED
  BY <1>2, <1>3, <1>5, <1>8, <1>9, <1>10, <1>11, CopyStep

LEMMA UploadOutOfPhase ==
  ASSUME SyncInv, at["client"] # "down", OutOfPhase("server")
  PROVE  SyncInv'
<1>1. TypeOK /\ TreesFit /\ "server" \in Sides
  BY Peers DEF SyncInv
<1>2. /\ at["server"] \in Receiver /\ inbox["server"] # <<>>
      /\ Head(inbox["server"]).op \notin {"file", "eof"}
      /\ Took("server") /\ Go("server", "lost") /\ file' = [file EXCEPT !["server"] = None]
      /\ UNCHANGED <<tree, todo, block, orphan, users>>
  BY DEF OutOfPhase, Receiver
<1>3. Head(inbox["server"]).op # "login"
  <2> SUFFICES ASSUME Head(inbox["server"]).op = "login" PROVE FALSE
    OBVIOUS
  <2>1. UploadPhase
    BY <1>2, ServerReceives DEF LoggingIn, Receiver
  <2> QED
    BY <1>2, <2>1, One, MessagesRead
       DEF UploadPhase, RmSent, MetaSent, FileSent, LinkSent, Silence, Agreed, Asked, Answer, Between
<1>4. /\ ~ Downloading /\ UploadPhase /\ todo["client"] # <<>>
      /\ inbox["client"] = <<>> /\ Tail(inbox["server"]) = <<>>
      /\ \/ at["client"] = "no_reply"
         \/ at["client"] = "rm_reply" /\ Head(todo["client"]).op = "rm"
         \/ at["client"] = "meta_reply"
  BY <1>2, <1>3, UploadAsked, MessagesRead
<1>5. inbox'["client"] = <<>> /\ inbox'["server"] = <<>> /\ inbox' \in [Sides -> Seq(Messages)]
  BY <1>1, <1>2, <1>4, TookEffect, Peers
<1>6. "lost" \in ServerPlaces /\ "lost" \notin Sender /\ "lost" \notin Receiver
  BY DEF ServerPlaces, Sender, Receiver
<1>7. /\ at'["server"] = "lost" /\ at'["client"] = at["client"]
      /\ at' \in [Sides -> ServerPlaces \cup ClientPlaces]
      /\ at'["server"] \in ServerPlaces /\ at'["client"] \in ClientPlaces
  BY <1>1, <1>2, <1>6, GoEffect, Peers
<1>8. TypeOK'
  BY <1>1, <1>2, <1>5, <1>7 DEF TypeOK, users
<1>9. TreesFit'
  <2>1. file'["client"] = file["client"]
    BY <1>1, <1>2, Peers DEF TypeOK
  <2> QED
    BY <1>1, <1>2, <1>7, <2>1, Peers DEF TreesFit
<1>10. UploadPhase'
  BY <1>2, <1>4, <1>5, <1>7 DEF UploadPhase, RmSent, MetaSent, Silence, Between
<1>11. at["server"] \notin Sender
  BY <1>2 DEF Sender, Receiver
<1> QED
  BY <1>2, <1>4, <1>6, <1>7, <1>8, <1>9, <1>10, <1>11, CopyStep

LEMMA UploadRm ==
  ASSUME SyncInv, at["client"] # "down", server_rm
  PROVE  SyncInv'
<1> DEFINE n == Name("client")
<1>1. TypeOK /\ TreesFit /\ "server" \in Sides
  BY Peers DEF SyncInv
<1>2. /\ at["server"] = "handle_request" /\ inbox["server"] # <<>>
      /\ Head(inbox["server"]).op = "rm" /\ UNCHANGED <<at, todo, local, users>>
  BY DEF server_rm, Receives
<1>3. /\ ~ Downloading /\ UploadPhase /\ todo["client"] # <<>> /\ n \in Names
      /\ inbox["client"] = <<>> /\ Tail(inbox["server"]) = <<>>
      /\ at["client"] = "rm_reply" /\ Head(todo["client"]).op = "rm"
      /\ Head(inbox["server"]).name = n
  BY <1>2, UploadAsked, MessagesRead
<1>4. \/ tree["server"][n] = None /\ Reply("server", Res("fail")) /\ UNCHANGED tree
      \/ Reply("server", Res("ok")) /\ SetTree("server", n, None)
  BY <1>3 DEF server_rm
<1>5. /\ inbox' \in [Sides -> Seq(Messages)] /\ inbox'["server"] = <<>>
      /\ inbox'["client"] = <<Res("ok")>> \/ inbox'["client"] = <<Res("fail")>>
  <2>1. ASSUME NEW st \in {"ok", "fail"}, Reply("server", Res(st))
        PROVE  /\ inbox' \in [Sides -> Seq(Messages)] /\ inbox'["server"] = <<>>
               /\ inbox'["client"] = <<Res(st)>>
    <3>1. /\ inbox' \in [Sides -> Seq(Messages)] /\ inbox'["server"] = Tail(inbox["server"])
          /\ inbox'["client"] = Append(inbox["client"], Res(st))
      BY <1>1, <1>2, <2>1, ReplyEffect, MessagesMade, Peers
    <3> QED
      BY <1>3, <3>1, One
  <2> QED
    BY <1>4, <2>1
<1>6. /\ tree' \in [Sides -> [Names -> Data \cup {None}]]
      /\ tree'["client"] = tree["client"] /\ tree'["server"][n] = None
      /\ \A m \in Names : m # n => tree'["server"][m] = tree["server"][m]
      /\ \A r \in Sides, m \in Names : tree'[r][m] # None => Holds(tree'[r][m], Kind[m])
  BY <1>1, <1>3, <1>4, SetTreeEffect, SetTreeFits, Peers DEF TypeOK, TreesFit
<1>7. TypeOK'
  BY <1>1, <1>2, <1>5, <1>6 DEF TypeOK, local, users
<1>8. TreesFit'
  BY <1>1, <1>2, <1>6, Peers DEF TreesFit, local
<1>9. Name("client")' = n
  BY <1>2 DEF Name, Current
<1>10. UploadPhase'
  <2>1. RmSent(Name("client"))'
    BY <1>2, <1>3, <1>5, <1>6, <1>9 DEF RmSent, Answer, Between
  <2> QED
    BY <1>2, <1>3, <2>1 DEF UploadPhase
<1>11. at["server"] \notin Sender
  BY <1>2 DEF Sender
<1> QED
  BY <1>2, <1>3, <1>6, <1>7, <1>8, <1>10, <1>11, CopyStep DEF local

\* While the client is there, its connection has not ended.
LEMMA NotEnded ==
  ASSUME SyncInv, at["client"] # "down"
  PROVE  ~ server_recv_fails /\ ~ logout /\ ~ ServerBroken
<1>1. ASSUME at["server"] \in {"handle_request"} \cup Receiver, Receives("server", "eof")
      PROVE  FALSE
  BY <1>1, UploadAsked, MessagesRead DEF Receives
<1>2. ~ server_recv_fails
  BY <1>1 DEF server_recv_fails, Receiver
<1>3. ~ logout
  BY <1>1 DEF logout
<1> QED
  BY <1>2, <1>3 DEF ServerBroken

LEMMA ServerStep ==
  ASSUME SyncInv, Server
  PROVE  SyncInv'
<1>1. CASE server_login
  BY <1>1, LoginStep, DownOthers
<1>2. CASE server_send_meta \/ server_send_file \/ handle_download \/ server_sync_end
  BY <1>2, ServerSendMeta, ServerSendMore, ServerAnswered, ServerSyncEnd
     DEF server_send_meta, server_send_file, handle_download
<1>3. CASE server_sync_meta \/ server_sync_file \/ server_sync_symblink
  BY <1>3, DownReceives, UploadReceiveMeta, UploadReceiveFile, UploadReceiveLink
     DEF server_sync_meta, server_sync_file, server_sync_symblink
<1>4. CASE server_out_of_phase \/ server_rm
  BY <1>4, DownOthers, UploadOutOfPhase, UploadRm DEF server_out_of_phase
<1>5. CASE server_recv_fails \/ logout \/ ServerBroken
  BY <1>5, DownOthers, NotEnded
<1> QED
  BY <1>1, <1>2, <1>3, <1>4, <1>5 DEF Server

LEMMA ClientStep ==
  ASSUME SyncInv, Client
  PROVE  SyncInv'
<1>1. CASE Connect \/ client_login \/ download_end \/ add_watch \/ client_rm \/ read_events
  BY <1>1, ConnectStep, ClientLogin, DownloadEnd, AddWatch, ClientRm, ReadEvents
<1>2. CASE client_download_meta \/ client_download_file \/ client_download_symblink
  BY <1>2, ClientReceiveMeta, ClientReceiveFile, ClientReceiveLink
     DEF client_download_meta, client_download_file, client_download_symblink
<1>3. CASE client_send_meta \/ client_send_file \/ client_sync_file
  BY <1>3, ClientSendMeta, ClientSendMore, ClientSendNext, ClientAnswered
     DEF client_send_meta, client_send_file, client_sync_file
<1> QED
  BY <1>1, <1>2, <1>3 DEF Client
-----------------------------------------------------------------------------
(* The user's edits.                                                       *)
LEMMA NotifyEffect ==
  ASSUME TypeOK, NEW n \in Names, NEW k \in {"create", "modify", "delete"}, Notify(k, n)
  PROVE  /\ events' \in Seq(Items) /\ missed' \subseteq Names /\ missed \subseteq missed'
         /\ NamesIn(events) \subseteq NamesIn(events')
         /\ watching => n \in NamesIn(events')
         /\ ~ watching => events' = events
         /\ ~ watching /\ at["client"] \in {"listed", "next"} => n \in missed'
         /\ ~ watching /\ at["client"] # "down" /\ k = "delete" => n \in missed'
<1>1. events \in Seq(Items) /\ missed \subseteq Names
  BY DEF TypeOK
<1>2. Event(k, n) \in Items /\ Event(k, n).name = n
  BY ItemsMade
<1>3. CASE watching /\ events' = events /\ events # <<>> /\ events[Len(events)] = Event(k, n)
           /\ UNCHANGED missed
  <2>1. Len(events) \in DOMAIN events
    BY <1>1, <1>3
  <2>2. events[Len(events)].name \in NamesIn(events)
    BY <2>1 DEF NamesIn
  <2> QED
    BY <1>1, <1>2, <1>3, <2>2
<1>4. CASE watching /\ events' = Append(events, Event(k, n)) /\ UNCHANGED missed
  <2>1. NamesIn(Append(events, Event(k, n))) = NamesIn(events) \cup {n}
    BY <1>1, <1>2, NamesAppend
  <2>2. Append(events, Event(k, n)) \in Seq(Items)
    BY <1>1, <1>2
  <2> QED
    BY <1>1, <1>4, <2>1, <2>2
<1>5. CASE ~ watching
  BY <1>1, <1>5 DEF Notify
<1> QED
  BY <1>3, <1>4, <1>5 DEF Notify

\* The newest event is for n, and is a removal only if n is gone.
LEMMA NotifyFollowed ==
  ASSUME TypeOK, Followed, NEW n \in Names, NEW k \in {"create", "modify", "delete"}, Notify(k, n),
         watching, tree'["client"][n] = None <=> k = "delete",
         \A m \in Names : m # n => tree'["client"][m] = tree["client"][m]
  PROVE  \A i \in DOMAIN events' :
           events'[i].op = "rm" /\ tree'["client"][events'[i].name] # None =>
             \E j \in i + 1 .. Len(events') : events'[j].name = events'[i].name
<1> DEFINE e == Event(k, n)
<1>1. events \in Seq(Items) /\ Len(events) \in Nat /\ DOMAIN events = 1 .. Len(events)
  BY DEF TypeOK
<1>2. e \in Items /\ e.name = n /\ (e.op = "rm" <=> k = "delete")
  BY ItemsMade
<1>3. \A i \in DOMAIN events : events[i].name \in Names
  <2>1. \A i \in DOMAIN events : events[i] \in Items
    BY <1>1
  <2> QED
    BY <2>1, ItemsMade
<1>4. \A i \in DOMAIN events :
        events[i].op = "rm" /\ events[i].name # n /\ tree'["client"][events[i].name] # None =>
          \E j \in i + 1 .. Len(events) : events[j].name = events[i].name
  BY <1>3 DEF Followed
<1>5. CASE events' = events /\ events # <<>> /\ events[Len(events)] = e
  <2>1. ASSUME NEW i \in DOMAIN events, events[i].op = "rm", events[i].name = n,
               tree'["client"][n] # None
        PROVE  Len(events) \in i + 1 .. Len(events) /\ events[Len(events)].name = n
    <3>1. i # Len(events)
      BY <1>2, <1>5, <2>1
    <3> QED
      BY <1>1, <1>2, <1>5, <3>1
  <2> QED
    BY <1>4, <1>5, <2>1
<1>6. CASE events' = Append(events, e)
  <2>1. /\ DOMAIN events' = 1 .. Len(events) + 1 /\ Len(events') = Len(events) + 1
        /\ \A i \in 1 .. Len(events) : events'[i] = events[i]
        /\ events'[Len(events) + 1] = e
    BY <1>1, <1>2, <1>6
  <2> SUFFICES ASSUME NEW i \in DOMAIN events', events'[i].op = "rm",
                      tree'["client"][events'[i].name] # None
               PROVE  \E j \in i + 1 .. Len(events') : events'[j].name = events'[i].name
    OBVIOUS
  <2>2. i \in DOMAIN events /\ events'[i] = events[i]
    <3>1. i # Len(events) + 1
      BY <1>2, <2>1
    <3> QED
      BY <1>1, <2>1, <3>1
  <2>3. CASE events[i].name = n
    <3>1. Len(events) + 1 \in i + 1 .. Len(events')
      BY <1>1, <2>1, <2>2
    <3> QED
      BY <1>2, <2>1, <2>2, <2>3, <3>1
  <2>4. CASE events[i].name # n
    <3>1. PICK j \in i + 1 .. Len(events) : events[j].name = events[i].name
      BY <1>4, <2>2, <2>4
    <3>2. j \in i + 1 .. Len(events') /\ events'[j] = events[j]
      BY <1>1, <2>1, <2>2, <3>1
    <3> QED
      BY <2>2, <3>1, <3>2
  <2> QED
    BY <2>3, <2>4
<1> QED
  BY <1>5, <1>6 DEF Notify

LEMMA EditServing ==
  ASSUME Serving, TypeOK, NEW n \in Names,
         UNCHANGED <<at, todo, inbox, file>>, tree'["server"] = tree["server"],
         missed \subseteq missed',
         \A m \in Names : m # n => tree'["client"][m] = tree["client"][m],
         tree'["client"][n] # None \/ n \in missed', AtRest
  PROVE  Serving'
<1>1. \A m \in Names : Has(m) => Has(m)'
  BY DEF Has
<1>2. todo["server"] # <<>> => Name("server") \in Names
  BY TurnFacts, Peers DEF Name
<1>3. Name("server")' = Name("server")
  BY DEF Name, Current
<1>4. at["server"] \in {"meta_reply", "full_reply", "last_reply", "link_reply"} => todo["server"] # <<>>
  BY DEF AtRest, Sender
<1>5. todo["server"] # <<>> /\ Served => Served'
  BY <1>1, <1>2, <1>3 DEF Served, Replied, Between
<1>6. NoneSent => NoneSent'
  BY DEF NoneSent, Silence, Between
<1>7. Sent(SyncEnd) => Sent(SyncEnd)'
  BY DEF Sent, Between
<1>8. DownloadMeta => DownloadMeta'
  BY <1>3, <1>4, <1>5 DEF DownloadMeta, Sent, Halfway, Replied, Between
<1>9. DownloadFile => DownloadFile'
  BY <1>3, <1>4, <1>5 DEF DownloadFile, Halfway, Replied, Between
<1>10. DownloadLink => DownloadLink'
  BY <1>3, <1>4, <1>5 DEF DownloadLink, Halfway, Silence, Between
<1> QED
  BY <1>1, <1>6, <1>7, <1>8, <1>9, <1>10 DEF Serving

LEMMA EditUpload ==
  ASSUME UploadPhase, TypeOK, NEW n \in Names,
         UNCHANGED <<at, todo, inbox, file, block>>, tree'["server"] = tree["server"],
         missed \subseteq missed', NamesIn(events) \subseteq NamesIn(events'),
         \A m \in Names : m # n => tree'["client"][m] = tree["client"][m],
         at["client"] \notin {"listed", "next"} => n \in NamesIn(events'),
         orphan'["client"] # orphan["client"] => Sending(n),
         at["client"] \in {"full_reply", "last_reply"} /\ Opened("client") # None =>
           Opened("client")' # None
  PROVE  UploadPhase'
<1> DEFINE q == Name("client")
<1>1. Name("client")' = q
  BY DEF Name, Current
<1>2. CASE at["client"] \in {"listed", "next"}
  BY <1>2 DEF UploadPhase, Ready, Silence, Between
<1>3. CASE at["client"] \notin {"listed", "next"}
  <2>1. todo["client"] # <<>> /\ n \in NamesIn(events')
    BY <1>3 DEF UploadPhase
  <2>2. q \in Names
    BY <2>1, TurnFacts, Peers DEF Name
  <2>3. Later(q) => Later(q)'
    BY <1>1 DEF Later
  <2>4. Later(q)' \/ (q # n /\ tree'["client"][q] = tree["client"][q])
    <3>1. q = n => Later(q)'
      BY <1>1, <2>1 DEF Later
    <3> QED
      BY <2>2, <3>1
  <2>5. Ready' = Ready /\ \A m : Asked(m)' = Asked(m) /\ Answer(m)' = Answer(m)
    BY DEF Ready, Asked, Answer, Between
  <2>6. Silence' = Silence
    BY DEF Silence, Between
  <2>7. Agreed(q) => Agreed(q)'
    BY <1>1, <2>3, <2>4 DEF Agreed
  <2>8. \A i : Copied(q, i) =>
          \/ Later(q)'
          \/ /\ tree'["client"][q] # None /\ tree'["server"][q] # None
             /\ Len(tree'["server"][q]) = i /\ i <= Len(tree'["client"][q])
             /\ \A j \in 1 .. i : tree'["server"][q][j] = tree'["client"][q][j]
    BY <2>3, <2>4 DEF Copied
  <2>9. CASE at["client"] = "no_reply"
    BY <1>1, <2>1, <2>9 DEF UploadPhase, Ready, Asked, Silence, Between
  <2>10. CASE at["client"] = "rm_reply"
    <3>1. RmSent(Name("client"))'
      BY <1>1, <2>10 DEF UploadPhase, RmSent, Ready, Asked, Answer, Silence, Between
    <3> QED
      BY <2>1, <2>10, <3>1 DEF UploadPhase
  <2>11. CASE at["client"] = "meta_reply"
    <3>1. MetaSent(q)
      BY <2>11 DEF UploadPhase
    <3>2. CASE LET d == Head(inbox["server"]).data IN
                 Ready /\ Asked(Meta(q, d)) /\ d # None /\ (Later(q) \/ tree["client"][q] = d)
      <4>1. Later(q)' \/ tree'["client"][q] = Head(inbox["server"]).data
        BY <2>3, <2>4, <3>2
      <4>2. MetaSent(Name("client"))'
        BY <1>1, <3>2, <4>1 DEF MetaSent, Ready, Asked, Between
      <4> QED
        BY <2>1, <2>11, <4>2 DEF UploadPhase
    <3>3. CASE at["server"] \in {"spin", "lost"} /\ Silence
      <4>1. MetaSent(Name("client"))'
        BY <3>3 DEF MetaSent, Silence, Between
      <4> QED
        BY <2>1, <2>11, <4>1 DEF UploadPhase
    <3>4. CASE Agreed(q) /\ Answer("ok")
      <4>1. MetaSent(Name("client"))'
        BY <1>1, <2>7, <3>4 DEF MetaSent, Answer, Between
      <4> QED
        BY <2>1, <2>11, <4>1 DEF UploadPhase
    <3>5. CASE /\ at["server"] \in Receiver /\ file["server"] = q /\ Answer("more")
               /\ at["server"] = "receive" => Copied(q, 0)
               /\ Later(q) \/ tree["client"][q] # None
      <4>1. at["server"] = "receive" => Copied(Name("client"), 0)'
        BY <1>1, <2>8, <3>5 DEF Copied
      <4>2. Later(q)' \/ tree'["client"][q] # None
        BY <2>3, <2>4, <3>5
      <4>3. MetaSent(Name("client"))'
        BY <1>1, <3>5, <4>1, <4>2 DEF MetaSent, Answer, Between
      <4> QED
        BY <2>1, <2>11, <4>3 DEF UploadPhase
    <3> QED
      BY <3>1, <3>2, <3>3, <3>4, <3>5 DEF MetaSent
  <2>12. CASE at["client"] \in {"full_reply", "last_reply"}
    <3>1. FileSent(q)
      BY <2>12 DEF UploadPhase
    <3>2. Later(q)' \/ orphan'["client"] = orphan["client"]
      BY <2>4 DEF Sending, Name
    <3>3. Later(q)' \/ orphan'["client"] = None
      BY <2>3, <3>1, <3>2 DEF FileSent
    <3>4. Opened("client")' # None
      BY <2>12, <3>1 DEF FileSent
    <3>5. Later(q)' \/ ReadBlock("client", block["client"])' = ReadBlock("client", block["client"])
      <4>1. ASSUME q # n, tree'["client"][q] = tree["client"][q], orphan'["client"] = orphan["client"]
            PROVE  ReadBlock("client", block["client"])' = ReadBlock("client", block["client"])
        BY <4>1 DEF ReadBlock, Opened, Name, Current
      <4> QED
        BY <2>4, <3>2, <4>1
    <3>6. CASE /\ at["server"] = "receive" /\ file["server"] = q /\ Copied(q, block["client"] - 1)
               /\ \E b \in Blocks \cup {Empty} :
                    /\ Asked(File(b)) /\ (b \in Full <=> at["client"] = "full_reply")
                    /\ Later(q) \/ b = ReadBlock("client", block["client"])
      <4>1. Copied(Name("client"), block["client"] - 1)'
        BY <1>1, <2>8, <3>6 DEF Copied
      <4>2. \E b \in Blocks \cup {Empty} :
              /\ Asked(File(b))' /\ (b \in Full <=> at'["client"] = "full_reply")
              /\ Later(q)' \/ b = ReadBlock("client", block["client"])'
        BY <2>3, <3>5, <3>6 DEF Asked, Between
      <4>3. FileSent(Name("client"))'
        BY <1>1, <3>1, <3>3, <3>4, <3>6, <4>1, <4>2 DEF FileSent
      <4> QED
        BY <2>1, <2>12, <4>3 DEF UploadPhase
    <3>7. CASE /\ at["client"] = "full_reply" /\ at["server"] = "receive" /\ file["server"] = q
               /\ Answer("ok") /\ Copied(q, block["client"])
      <4>1. Copied(Name("client"), block["client"])'
        BY <1>1, <2>8, <3>7 DEF Copied
      <4>2. FileSent(Name("client"))'
        BY <1>1, <3>1, <3>3, <3>4, <3>7, <4>1 DEF FileSent, Answer, Between
      <4> QED
        BY <2>1, <2>12, <4>2 DEF UploadPhase
    <3>8. CASE at["client"] = "last_reply" /\ Agreed(q) /\ Answer("ok")
      <4>1. FileSent(Name("client"))'
        BY <1>1, <2>7, <3>1, <3>3, <3>4, <3>8 DEF FileSent, Answer, Between
      <4> QED
        BY <2>1, <2>12, <4>1 DEF UploadPhase
    <3> QED
      BY <3>1, <3>6, <3>7, <3>8 DEF FileSent
  <2>13. CASE at["client"] = "link_reply"
    <3>1. LinkSent(q)
      BY <2>13 DEF UploadPhase
    <3>2. \A b : (Later(q) \/ tree["client"][q] = <<b>>) => (Later(q)' \/ tree'["client"][q] = <<b>>)
      BY <2>3, <2>4
    <3>3. LinkSent(Name("client"))'
      BY <1>1, <2>7, <3>1, <3>2 DEF LinkSent, Asked, Answer, Silence, Between
    <3> QED
      BY <2>1, <2>13, <3>3 DEF UploadPhase
  <2> QED
    BY <1>3, <2>9, <2>10, <2>11, <2>12, <2>13 DEF UploadPhase
<1> QED
  BY <1>2, <1>3

LEMMA EditKeeps ==
  ASSUME SyncInv, NEW n \in Names, NEW k \in {"create", "modify", "delete"},
         NEW d \in Data \cup {None}, Edit(k, n, d), d = None <=> k = "delete",
         d # None => Holds(d, Kind[n]),
         orphan' \in [Sides -> Data \cup {None}], orphan'["server"] = orphan["server"],
         orphan'["client"] # orphan["client"] => Sending(n),
         at["client"] \in {"full_reply", "last_reply"} /\ Opened("client") # None =>
           Opened("client")' # None
  PROVE  SyncInv'
<1>1. TypeOK /\ TreesFit /\ AtRest /\ Followed /\ ChangesPending /\ "client" \in Sides
  BY Peers DEF SyncInv
<1>2. /\ SetTree("client", n, d) /\ Notify(k, n) /\ edits' = edits + 1 /\ ~ Receiving(n)
      /\ UNCHANGED <<at, todo, inbox, file, block, watching, locking, kills>>
  BY DEF Edit
<1>3. /\ tree' \in [Sides -> [Names -> Data \cup {None}]]
      /\ tree'["client"][n] = d /\ tree'["server"] = tree["server"]
      /\ \A m \in Names : m # n => tree'["client"][m] = tree["client"][m]
  BY <1>1, <1>2, SetTreeEffect, Peers
<1>4. /\ events' \in Seq(Items) /\ missed' \subseteq Names /\ missed \subseteq missed'
      /\ NamesIn(events) \subseteq NamesIn(events')
      /\ watching => n \in NamesIn(events')
      /\ ~ watching => events' = events
      /\ ~ watching /\ at["client"] \in {"listed", "next"} => n \in missed'
      /\ ~ watching /\ at["client"] # "down" /\ k = "delete" => n \in missed'
  BY <1>1, <1>2, NotifyEffect
<1>5. TypeOK'
  BY <1>1, <1>2, <1>3, <1>4 DEF TypeOK
<1>6. TreesFit'
  <2>1. \A s \in Sides, m \in Names : tree'[s][m] # None => Holds(tree'[s][m], Kind[m])
    BY <1>1, <1>2, SetTreeFits
  <2>2. at["client"] = "receive" => file["client"] # n
    BY <1>2 DEF Receiving
  <2>3. \A s \in Sides : at[s] = "receive" => tree'[s][file[s]] = tree[s][file[s]]
    BY <1>1, <1>3, <2>2, Peers DEF TreesFit
  <2> QED
    BY <1>1, <1>2, <2>1, <2>3 DEF TreesFit
<1>7. AtRest'
  BY <1>1, <1>2, <1>4 DEF AtRest, Downloading, Sending
<1>8. Followed'
  <2>1. CASE watching
    <3>1. \A i \in DOMAIN events' :
            events'[i].op = "rm" /\ tree'["client"][events'[i].name] # None =>
              \E j \in i + 1 .. Len(events') : events'[j].name = events'[i].name
      BY <1>1, <1>2, <1>3, <2>1, NotifyFollowed
    <3>2. \A i \in DOMAIN todo["client"] : todo["client"][i].name \in Names
      <4>1. \A i \in DOMAIN todo["client"] : todo["client"][i] \in Items
        BY <1>1 DEF TypeOK
      <4> QED
        BY <4>1, ItemsMade
    <3>3. ASSUME NEW i \in DOMAIN todo["client"], todo["client"][i].op = "rm",
                 tree'["client"][todo["client"][i].name] # None
          PROVE  \/ todo["client"][i].name \in NamesIn(events')
                 \/ \E j \in i + 1 .. Len(todo["client"]) :
                      todo["client"][j].name = todo["client"][i].name
      BY <1>1, <1>3, <1>4, <2>1, <3>2, <3>3 DEF Followed
    <3> QED
      BY <1>2, <3>1, <3>3 DEF Followed
  <2>2. CASE ~ watching
    <3>1. events' = <<>>
      BY <1>1, <1>4, <2>2 DEF AtRest
    <3>2. \A i \in DOMAIN todo["client"] : todo["client"][i].op = "sync"
      BY <1>1, <2>2 DEF AtRest
    <3> QED
      BY <1>2, <3>1, <3>2 DEF Followed
  <2> QED
    BY <2>1, <2>2
<1>9. at["client"] # "down" /\ ~ Downloading =>
        UploadPhase /\ (at["client"] \in {"listed", "next"} \/ watching)
  <2>1. at["client"] # "down" /\ ~ Downloading => UploadPhase
    BY DEF SyncInv
  <2> QED
    BY <1>1, <2>1 DEF UploadPhase, AtRest
<1>10. Downloading' = Downloading
  BY <1>2 DEF Downloading
<1>11. ChangesPending'
  BY <1>1, <1>2, <1>3, <1>4, <1>9, <1>10 DEF ChangesPending, Pending
<1>12. CASE at["client"] = "down"
  <2>1. DownPhase'
    BY <1>2, <1>12 DEF SyncInv, DownPhase, Receives
  <2> QED
    BY <1>2, <1>5, <1>6, <1>7, <1>8, <1>11, <1>12, <2>1 DEF SyncInv
<1>13. CASE at["client"] # "down" /\ Downloading
  <2>1. DownloadPhase
    BY <1>13 DEF SyncInv
  <2>2. LoggingIn => LoggingIn'
    BY <1>2 DEF LoggingIn, Between
  <2>3. tree'["client"][n] # None \/ n \in missed'
    BY <1>1, <1>3, <1>4, <1>13 DEF AtRest
  <2>4. Serving => Serving'
    BY <1>1, <1>2, <1>3, <1>4, <2>3, EditServing
  <2>5. DownloadPhase'
    BY <2>1, <2>2, <2>4 DEF DownloadPhase
  <2> QED
    BY <1>2, <1>5, <1>6, <1>7, <1>8, <1>10, <1>11, <1>13, <2>5 DEF SyncInv
<1>14. CASE at["client"] # "down" /\ ~ Downloading
  <2>1. UploadPhase'
    BY <1>1, <1>2, <1>3, <1>4, <1>9, <1>14, EditUpload
  <2> QED
    BY <1>2, <1>5, <1>6, <1>7, <1>8, <1>10, <1>11, <1>14, <2>1 DEF SyncInv
<1> QED
  BY <1>12, <1>13, <1>14

LEMMA UserStep ==
  ASSUME SyncInv, User
  PROVE  SyncInv'
<1>1. PICK n \in Edited : Create(n) \/ Remove(n) \/ \E d \in Contents : Modify(n, d)
  BY DEF User
<1>2. n \in Names /\ Kind[n] \in {"dir", "file"}
  BY SyncAssumption
<1>3. TypeOK /\ "client" \in Sides
  BY Peers DEF SyncInv
<1>4. CASE Create(n)
  <2>1. tree["client"][n] = None /\ Edit("create", n, <<>>) /\ UNCHANGED orphan
    BY <1>4 DEF Create
  <2>2. ASSUME Opened("client") # None, at["client"] \in {"full_reply", "last_reply"}
        PROVE  Opened("client")' # None
    <3>1. todo["client"] # <<>>
      BY <2>2, ClientUploads DEF UploadPhase
    <3>2. Current("client").name \in Names
      BY <1>3, <3>1, TurnFacts
    <3>3. /\ tree'["client"][n] = <<>>
          /\ \A m \in Names : m # n => tree'["client"][m] = tree["client"][m]
      BY <1>2, <1>3, <2>1, SetTreeEffect, DataFacts DEF Edit
    <3> QED
      BY <2>1, <2>2, <3>2, <3>3, DataFacts DEF Opened, Edit, Current
  <2>3. Holds(<<>>, Kind[n]) /\ <<>> \in Data \cup {None} /\ <<>> # None
    BY <1>2, HoldsEmpty, DataFacts
  <2>4. orphan' \in [Sides -> Data \cup {None}]
    BY <1>3, <2>1 DEF TypeOK
  <2> QED
    BY <1>2, <2>1, <2>2, <2>3, <2>4, EditKeeps
<1>5. ASSUME NEW d \in Contents, Modify(n, d) PROVE SyncInv'
  <2>1. Kind[n] = "file" /\ tree["client"][n] # None /\ Edit("modify", n, d) /\ UNCHANGED orphan
    BY <1>5 DEF Modify
  <2>2. d \in Data /\ Holds(d, "file") /\ d # None
    BY SyncAssumption
  <2>3. ASSUME Opened("client") # None, at["client"] \in {"full_reply", "last_reply"}
        PROVE  Opened("client")' # None
    <3>1. todo["client"] # <<>>
      BY <2>3, ClientUploads DEF UploadPhase
    <3>2. Current("client").name \in Names
      BY <1>3, <3>1, TurnFacts
    <3>3. /\ tree'["client"][n] = d
          /\ \A m \in Names : m # n => tree'["client"][m] = tree["client"][m]
      BY <1>2, <1>3, <2>1, <2>2, SetTreeEffect DEF Edit
    <3> QED
      BY <2>1, <2>2, <2>3, <3>2, <3>3 DEF Opened, Edit, Current
  <2>4. orphan' \in [Sides -> Data \cup {None}]
    BY <1>3, <2>1 DEF TypeOK
  <2> QED
    BY <1>2, <2>1, <2>2, <2>3, <2>4, EditKeeps
<1>6. CASE Remove(n)
  <2>1. /\ tree["client"][n] # None /\ Edit("delete", n, None)
        /\ orphan' = IF Sending(n) /\ orphan["client"] = None
                     THEN [orphan EXCEPT !["client"] = tree["client"][n]] ELSE orphan
    BY <1>6 DEF Remove
  <2>2. tree["client"][n] \in Data
    BY <1>2, <1>3, <2>1 DEF TypeOK
  <2>3. /\ orphan' \in [Sides -> Data \cup {None}] /\ orphan'["server"] = orphan["server"]
        /\ orphan'["client"] # orphan["client"] => Sending(n)
        /\ orphan["client"] # None => orphan'["client"] = orphan["client"]
        /\ Sending(n) => orphan'["client"] # None
    BY <1>3, <2>1, <2>2, Peers DEF TypeOK
  <2>4. ASSUME Opened("client") # None, at["client"] \in {"full_reply", "last_reply"}
        PROVE  Opened("client")' # None
    <3>1. todo["client"] # <<>> /\ UNCHANGED todo
      BY <2>1, <2>4, ClientUploads DEF UploadPhase, Edit
    <3>2. Current("client").name \in Names /\ Current("client")' = Current("client")
      BY <1>3, <3>1, TurnFacts DEF Current
    <3>3. \A m \in Names : m # n => tree'["client"][m] = tree["client"][m]
      BY <1>2, <1>3, <2>1, SetTreeEffect DEF Edit
    <3>4. CASE Current("client").name = n
      <4>1. Sending(n)
        BY <2>4, <3>4 DEF Sending
      <4> QED
        BY <2>3, <4>1 DEF Opened
    <3>5. CASE Current("client").name # n
      BY <2>3, <2>4, <3>2, <3>3, <3>5 DEF Opened, Sending
    <3> QED
      BY <3>4, <3>5
  <2> QED
    BY <1>2, <2>1, <2>3, <2>4, EditKeeps
<1> QED
  BY <1>1, <1>4, <1>5, <1>6
-----------------------------------------------------------------------------
(* The end of the client.                                                  *)
LEMMA OneAsked ==
  ASSUME SyncInv, at["client"] # "down"
  PROVE  inbox["server"] = <<>> \/ \E m \in Messages : inbox["server"] = <<m>>
<1>1. inbox["server"] \in Seq(Messages)
  BY Peers DEF SyncInv, TypeOK
<1>2. inbox["server"] = <<>> \/ \E m : inbox["server"] = <<m>>
  <2>1. CASE Downloading
    <3>1. CASE LoggingIn
      BY <3>1 DEF LoggingIn, Between
    <3>2. CASE Serving
      BY <3>2 DEF Serving, NoneSent, Silence, Sent, DownloadMeta, DownloadFile,
        DownloadLink, Served, Replied, Halfway, Between
    <3> QED
      BY <2>1, <3>1, <3>2 DEF SyncInv, DownloadPhase
  <2>2. CASE ~ Downloading
    <3>1. UploadPhase
      BY <2>2 DEF SyncInv
    <3> QED
      BY <3>1 DEF UploadPhase, RmSent, MetaSent, FileSent, LinkSent, Silence, Agreed,
           Asked, Answer, Between
  <2> QED
    BY <2>1, <2>2
<1>3. ASSUME NEW m, inbox["server"] = <<m>> PROVE m \in Messages
  BY <1>1, <1>3, One, HeadTailProperties
<1> QED
  BY <1>2, <1>3

LEMMA LinkHead ==
  ASSUME SyncInv, at["client"] # "down", at["server"] = "receive_link",
         inbox["server"] # <<>>, Head(inbox["server"]).op = "file"
  PROVE  Head(inbox["server"]).data \in Blocks
<1>1. at["client"] = "link_reply" /\ LinkSent(Name("client"))
  BY UploadAsked, MessagesRead DEF Receiver
<1> QED
  BY <1>1, One, MessagesRead DEF LinkSent, Silence, Agreed, Asked, Answer, Between

LEMMA KillStep ==
  ASSUME SyncInv, Kill
  PROVE  SyncInv'
<1>1. TypeOK /\ TreesFit /\ AtRest /\ "client" \in Sides
  BY Peers DEF SyncInv
<1>2. /\ at["client"] # "down" /\ Go("client", "down")
      /\ inbox' = [client |-> <<>>, server |-> Append(inbox["server"], Eof)]
      /\ todo' = [todo EXCEPT !["client"] = <<>>]
      /\ file' = [file EXCEPT !["client"] = None]
      /\ block' = [block EXCEPT !["client"] = 0]
      /\ orphan' = [orphan EXCEPT !["client"] = None]
      /\ events' = <<>> /\ watching' = FALSE /\ missed' = {}
      /\ kills' = kills + 1 /\ UNCHANGED <<tree, locking, edits>>
  BY DEF Kill
<1>3. "down" \in ClientPlaces /\ "down" \notin Receiver
  BY DEF ClientPlaces, Receiver
<1>4. /\ at'["client"] = "down" /\ at'["server"] = at["server"]
      /\ at' \in [Sides -> ServerPlaces \cup ClientPlaces]
      /\ at'["server"] \in ServerPlaces /\ at'["client"] \in ClientPlaces
  BY <1>1, <1>2, <1>3, GoEffect, Peers
<1>5. inbox' \in [Sides -> Seq(Messages)] /\ inbox'["server"] = Append(inbox["server"], Eof)
  <2>1. inbox["server"] \in Seq(Messages) /\ Append(inbox["server"], Eof) \in Seq(Messages)
    BY <1>1, MessagesMade, Peers DEF TypeOK
  <2> DEFINE q == Append(inbox["server"], Eof)
  <2>2. inbox' = [client |-> <<>>, server |-> q] /\ q \in Seq(Messages) /\ <<>> \in Seq(Messages)
    BY <1>2, <2>1
  <2> HIDE DEF q
  <2>3. inbox' = [s \in Sides |-> IF s = "client" THEN <<>> ELSE q]
    BY <2>2 DEF Sides
  <2>4. inbox' \in [Sides -> Seq(Messages)] /\ inbox'["server"] = q
    BY <2>2, <2>3, Peers
  <2> QED
    BY <2>4 DEF q
<1>6. /\ todo' \in [Sides -> Seq(Items)] /\ file' \in [Sides -> Names \cup {None}]
      /\ block' \in [Sides -> Nat] /\ orphan' \in [Sides -> Data \cup {None}]
      /\ todo'["client"] = <<>> /\ todo'["server"] = todo["server"]
      /\ orphan'["client"] = None /\ orphan'["server"] = orphan["server"]
      /\ file'["server"] = file["server"]
  BY <1>1, <1>2, Peers DEF TypeOK
<1>7. TypeOK'
  <2>1. events' \in Seq(Items) /\ watching' \in BOOLEAN /\ missed' \subseteq Names
    <3>1. events' = <<>> /\ watching' = FALSE /\ missed' = {}
      BY <1>2
    <3>2. events' \in Seq(Items) /\ missed' \subseteq Names
      BY <3>1
    <3>3. watching' \in BOOLEAN
      BY <3>1, Zenon
    <3> QED
      BY <3>2, <3>3
  <2>2. kills' \in Nat
    <3>1. kills \in Nat
      BY <1>1 DEF TypeOK
    <3>2. kills' = kills + 1
      BY DEF Kill
    <3> QED
      BY <3>1, <3>2
  <2>3. UNCHANGED <<tree, locking, edits>>
    BY <1>2
  <2>4. /\ tree' \in [Sides -> [Names -> Data \cup {None}]]
        /\ locking' \in BOOLEAN /\ edits' \in Nat
    BY <1>1, <2>3 DEF TypeOK
  <2> QED
    BY <1>4, <1>5, <1>6, <2>1, <2>2, <2>4 DEF TypeOK
<1>8. TreesFit'
  BY <1>1, <1>2, <1>4, <1>6, Peers DEF TreesFit
<1>9. AtRest'
  BY <1>1, <1>2, <1>4, <1>6 DEF AtRest
<1>10. Followed' /\ ChangesPending'
  BY <1>2, <1>4, <1>6, Calm
<1>11. DownPhase'
  <2>1. CASE inbox["server"] = <<>>
    BY <1>5, <2>1, DownEnded, One
  <2>2. ASSUME NEW m \in Messages, inbox["server"] = <<m>> PROVE DownPhase'
    <3>1. inbox'["server"] = <<m, Eof>>
      <4>1. Append(<<m>>, Eof) = <<m, Eof>>
        BY Two, MessagesMade
      <4> QED
        BY <1>5, <2>2, <4>1
    <3>2. <<m, Eof>>[1] = m /\ Head(<<m, Eof>>) = m
      BY Two, MessagesMade
    <3>3. inbox'["server"] = <<inbox'["server"][1], Eof>> /\ Head(inbox'["server"]) = m
      BY <3>1, <3>2
    <3>4. at["server"] = "receive_link" /\ m.op = "file" => m.data \in Blocks
      BY <1>2, <2>2, LinkHead, One
    <3> QED
      BY <1>4, <3>3, <3>4 DEF DownPhase, Receives
  <2> QED
    BY <1>2, <2>1, <2>2, OneAsked
<1> QED
  BY <1>4, <1>7, <1>8, <1>9, <1>10, <1>11 DEF SyncInv
-----------------------------------------------------------------------------
LEMMA InitInv ==
  ASSUME Init
  PROVE  SyncInv
<1>1. /\ tree \in InitTrees /\ locking \in Locking
      /\ at = [client |-> "down", server |-> "accept"]
      /\ todo = [s \in Sides |-> <<>>] /\ inbox = [s \in Sides |-> <<>>]
      /\ file = [s \in Sides |-> None] /\ block = [s \in Sides |-> 0]
      /\ orphan = [s \in Sides |-> None]
      /\ events = <<>> /\ watching = FALSE /\ missed = {} /\ edits = 0 /\ kills = 0
  BY DEF Init
<1>2. at["client"] = "down" /\ at["server"] = "accept"
  BY <1>1
<1>3. TypeOK
  <2>1. at = [s \in Sides |-> IF s = "client" THEN "down" ELSE "accept"]
    BY <1>1 DEF Sides
  <2>2. "down" \in ClientPlaces /\ "accept" \in ServerPlaces
    BY DEF ClientPlaces, ServerPlaces
  <2>3. at \in [Sides -> ServerPlaces \cup ClientPlaces]
    BY <2>1, <2>2
  <2>4. tree \in [Sides -> [Names -> Data \cup {None}]] /\ locking \in BOOLEAN
    BY <1>1, SyncAssumption
  <2>5. /\ todo \in [Sides -> Seq(Items)] /\ inbox \in [Sides -> Seq(Messages)]
        /\ events \in Seq(Items)
    BY <1>1
  <2>6. /\ file \in [Sides -> Names \cup {None}] /\ block \in [Sides -> Nat]
        /\ orphan \in [Sides -> Data \cup {None}]
    BY <1>1
  <2>7. watching \in BOOLEAN /\ missed \subseteq Names /\ edits \in Nat /\ kills \in Nat
    BY <1>1
  <2> QED
    BY <1>2, <2>2, <2>3, <2>4, <2>5, <2>6, <2>7 DEF TypeOK
<1>4. TreesFit
  BY <1>1, <1>2, SyncAssumption, Peers DEF TreesFit
<1>5. AtRest
  BY <1>1, <1>2, Peers DEF AtRest, Sender
<1>6. Followed /\ ChangesPending
  BY <1>1, <1>2, Peers DEF Followed, ChangesPending
<1>7. DownPhase
  BY <1>1, <1>2, Peers DEF DownPhase
<1> QED
  BY <1>2, <1>3, <1>4, <1>5, <1>6, <1>7 DEF SyncInv

LEMMA StutterStep ==
  ASSUME SyncInv, UNCHANGED vars
  PROVE  SyncInv'
<1>1. UNCHANGED <<tree, at, todo, inbox, file, block, orphan, events, watching, missed,
                  locking, edits, kills>>
  BY DEF vars, local, users
<1>2. TypeOK' /\ TreesFit' /\ AtRest' /\ Followed' /\ ChangesPending'
  BY <1>1 DEF SyncInv, TypeOK, TreesFit, AtRest, Followed, ChangesPending, Pending, NamesIn,
       Downloading
<1>3. DownPhase => DownPhase'
  BY <1>1 DEF DownPhase, Receives
<1>4. DownloadPhase => DownloadPhase'
  <2>1. \A n : Has(n) => Has(n)'
    BY <1>1 DEF Has
  <2>2. Served => Served'
    BY <1>1 DEF Served, Has, Replied, Between, Name, Current
  <2>3. DownloadMeta => DownloadMeta'
    BY <1>1, <2>2 DEF DownloadMeta, Sent, Halfway, Replied, Between, Name, Current
  <2>4. DownloadFile => DownloadFile'
    BY <1>1, <2>2 DEF DownloadFile, Halfway, Replied, Between, Name, Current
  <2>5. DownloadLink => DownloadLink'
    BY <1>1, <2>2 DEF DownloadLink, Halfway, Silence, Between, Name, Current
  <2>6. Serving => Serving'
    BY <1>1, <2>1, <2>3, <2>4, <2>5 DEF Serving, NoneSent, Silence, Sent, Between
  <2>7. LoggingIn => LoggingIn'
    BY <1>1 DEF LoggingIn, Between
  <2> QED
    BY <2>6, <2>7 DEF DownloadPhase
<1>5. UploadPhase => UploadPhase'
  BY <1>1 DEF UploadPhase, RmSent, MetaSent, FileSent, LinkSent, Copied, Agreed, Later, Ready,
       Silence, Asked, Answer, Between, ReadBlock, Opened, NamesIn, Name, Current
<1>6. Downloading' = Downloading
  BY <1>1 DEF Downloading
<1> QED
  BY <1>1, <1>2, <1>3, <1>4, <1>5, <1>6 DEF SyncInv

(* The phases of the protocol, the agreement of the two trees as far as an *)
(* exchange has gone, and the order of the events hold in every state the  *)
(* client (client_function.c) and the server (server_function.c) reach.    *)
THEOREM SyncInvariant == Spec => []SyncInv
<1>1. Init => SyncInv
  BY InitInv
<1>2. SyncInv /\ [Next]_vars => SyncInv'
  BY ServerStep, ClientStep, UserStep, KillStep, StutterStep DEF Next
<1> QED
  BY <1>1, <1>2, PTL DEF Spec

(* Whatever the user does while client and server exchange names, and      *)
(* however often the client is killed: a name on which the two trees       *)
(* differ after the download is still to be looked at by                   *)
(* client_sync_file, or it changed before add_watch.                       *)
THEOREM NoChangeLost == Spec => []ChangesPending
<1>1. SyncInv => ChangesPending
  BY DEF SyncInv
<1> QED
  BY <1>1, SyncInvariant, PTL
-----------------------------------------------------------------------------
(* Waiting.  The server leaves what is the client's alone.                 *)
LEMMA ServerTrees ==
  ASSUME TypeOK, Server
  PROVE  tree'["client"] = tree["client"]
<1>1. "server" \in Sides
  BY Peers
<1>2. UNCHANGED tree \/ \E n, d : SetTree("server", n, d)
  <2>1. CASE server_sync_meta
    BY <2>1 DEF server_sync_meta, ReceiveMeta, More
  <2>2. CASE server_sync_file \/ server_sync_symblink \/ server_rm
    BY <2>2 DEF server_sync_file, server_sync_symblink, server_rm, ReceiveFile, ReceiveLink
  <2>3. CASE server_login \/ server_send_meta \/ server_send_file \/ handle_download \/ server_sync_end
    BY <2>3 DEF server_login, server_send_meta, server_send_file, handle_download, server_sync_end,
         SendMeta, SendMore, SendNext, SendBlock, Answered
  <2>4. CASE server_out_of_phase \/ server_recv_fails \/ logout \/ ServerBroken
    BY <2>4 DEF server_out_of_phase, OutOfPhase, server_recv_fails, logout, ServerBroken
  <2> QED
    BY <2>1, <2>2, <2>3, <2>4 DEF Server
<1> QED
  BY <1>1, <1>2, Peers DEF SetTree, TypeOK

LEMMA ServerPlace ==
  ASSUME TypeOK, Server
  PROVE  at'["client"] = at["client"]
<1>1. UNCHANGED at \/ \E p : Go("server", p)
  <2>1. CASE server_sync_meta
    BY <2>1 DEF server_sync_meta, ReceiveMeta, More, Ok
  <2>2. CASE server_sync_file \/ server_sync_symblink \/ server_rm
    BY <2>2 DEF server_sync_file, server_sync_symblink, server_rm, ReceiveFile, ReceiveLink
  <2>3. CASE server_login \/ server_send_meta \/ server_send_file \/ handle_download \/ server_sync_end
    BY <2>3 DEF server_login, server_send_meta, server_send_file, handle_download, server_sync_end,
         SendMeta, SendMore, SendNext, SendBlock, Answered, Done
  <2>4. CASE server_out_of_phase \/ server_recv_fails \/ logout \/ ServerBroken
    BY <2>4 DEF server_out_of_phase, OutOfPhase, server_recv_fails, logout, ServerBroken
  <2> QED
    BY <2>1, <2>2, <2>3, <2>4 DEF Server
<1> QED
  BY <1>1, GoEffect, Peers

LEMMA ServerLists ==
  ASSUME TypeOK, Server
  PROVE  todo'["client"] = todo["client"] /\ UNCHANGED events
<1>1. UNCHANGED events
  BY DEF Server, server_login, server_send_meta, server_send_file, handle_download, server_sync_end,
       server_sync_meta, server_sync_file, server_sync_symblink, server_out_of_phase, server_rm,
       server_recv_fails, logout, ServerBroken, ReceiveMeta, ReceiveFile, ReceiveLink, OutOfPhase,
       SendMeta, SendMore, SendNext, SendBlock, Answered, users
<1>2. UNCHANGED todo \/ \E q : todo' = [todo EXCEPT !["server"] = q]
  <2>1. CASE server_sync_meta \/ server_sync_file \/ server_sync_symblink \/ server_rm
    BY <2>1 DEF server_sync_meta, server_sync_file, server_sync_symblink, server_rm, ReceiveMeta,
         ReceiveFile, ReceiveLink
  <2>2. CASE server_login \/ server_send_meta \/ server_sync_end
    BY <2>2 DEF server_login, server_send_meta, server_sync_end, SendMeta
  <2>3. CASE server_send_file \/ handle_download
    BY <2>3 DEF server_send_file, handle_download, SendMore, SendNext, SendBlock, Answered, Done
  <2>4. CASE server_out_of_phase \/ server_recv_fails \/ logout \/ ServerBroken
    BY <2>4 DEF server_out_of_phase, OutOfPhase, server_recv_fails, logout, ServerBroken
  <2> QED
    BY <2>1, <2>2, <2>3, <2>4 DEF Server
<1> QED
  BY <1>1, <1>2, Peers DEF TypeOK

\* Between two exchanges the server has nothing to do.
LEMMA ServerWaits ==
  ASSUME SyncInv, at["client"] \in {"listed", "next"}
  PROVE  ~ Server
<1>1. at["server"] \in {"handle_request"} \cup Receiver /\ inbox["server"] = <<>> /\ at["client"] # "down"
  BY ClientUploads DEF UploadPhase, RmSent, MetaSent, FileSent, LinkSent, Ready, Silence, Between
<1>2. at["server"] \notin Sender /\ at["server"] # "lost"
  BY <1>1 DEF Sender, Receiver
<1>3. ~ (server_login \/ server_rm \/ server_recv_fails \/ logout \/ ServerBroken)
  BY <1>1, <1>2 DEF server_login, server_rm, server_recv_fails, logout, ServerBroken, Receives
<1>4. ~ (server_sync_meta \/ server_sync_file \/ server_sync_symblink \/ server_out_of_phase)
  BY <1>1 DEF server_sync_meta, server_sync_file, server_sync_symblink, server_out_of_phase,
       ReceiveMeta, ReceiveFile, ReceiveLink, OutOfPhase, Receives
<1>5. ~ (server_send_meta \/ server_send_file \/ handle_download \/ server_sync_end)
  <2>1. at["server"] \notin {"next", "meta_reply", "full_reply", "last_reply", "link_reply", "rm_reply"}
    BY <1>1 DEF Receiver
  <2> QED
    BY <2>1 DEF server_send_meta, server_send_file, handle_download, server_sync_end, SendMeta, Turn,
         SendMore, SendNext, Answered
<1> QED
  BY <1>3, <1>4, <1>5 DEF Server
-----------------------------------------------------------------------------
\* The end is all that is left once the request before it has been read.
LEMMA EndIsLeft ==
  ASSUME TypeOK, DownPhase, inbox["server"] # <<>>, Head(inbox["server"]).op # "eof",
         inbox'["server"] = Tail(inbox["server"])
  PROVE  inbox'["server"] = <<Eof>>
<1>1. CASE inbox["server"] = <<Eof>>
  BY <1>1, One, MessagesRead
<1>2. CASE inbox["server"] = <<inbox["server"][1], Eof>>
  <2>1. inbox["server"] \in Seq(Messages)
    BY Peers DEF TypeOK
  <2>2. Head(inbox["server"]) \in Messages /\ Head(inbox["server"]) = inbox["server"][1]
    BY <2>1, HeadTailProperties
  <2>3. Tail(<<inbox["server"][1], Eof>>) = <<Eof>>
    BY <2>2, Two, MessagesMade
  <2> QED
    BY <1>2, <2>3
<1> QED
  BY <1>1, <1>2 DEF DownPhase

LEMMA EndShown ==
  ASSUME inbox'["server"] = <<Eof>>
  PROVE  EndInSight'
BY One, MessagesRead DEF EndInSight, Receives

LEMMA EndServer ==
  ASSUME SyncInv, EndInSight, Server
  PROVE  EndInSight'
<1>1. TypeOK /\ at'["client"] = at["client"] /\ "server" \in Sides
  BY ServerPlace, Peers DEF SyncInv
<1>2. CASE at["client"] # "down"
  BY <1>1, <1>2 DEF EndInSight
<1>3. CASE at["client"] = "down"
  <2>1. DownPhase
    BY <1>3 DEF SyncInv
  <2>2. ~ (server_send_meta \/ server_send_file \/ handle_download \/ server_sync_end)
    BY <1>3 DEF server_send_meta, server_send_file, handle_download, server_sync_end, SendMeta,
         SendMore, SendNext, Answered, Connected
  <2>3. ASSUME inbox["server"] # <<>>, Head(inbox["server"]).op # "eof",
               Took("server") \/ \E m \in Messages : Reply("server", m)
        PROVE  EndInSight'
    <3>1. inbox'["server"] = Tail(inbox["server"])
      BY <1>1, <2>3, TookEffect, ReplyEffect
    <3> QED
      BY <1>1, <2>1, <2>3, <3>1, EndIsLeft, EndShown
  <2>4. CASE server_login \/ server_rm
    BY <2>3, <2>4, MessagesMade DEF server_login, server_rm, Receives
  <2>5. CASE server_sync_meta
    BY <2>3, <2>5, MessagesMade DEF server_sync_meta, ReceiveMeta, Receives, More, Ok
  <2>6. CASE server_sync_file \/ server_sync_symblink
    BY <2>3, <2>6, MessagesMade DEF server_sync_file, server_sync_symblink, ReceiveFile, ReceiveLink, Receives
  <2>7. CASE server_out_of_phase
    BY <2>3, <2>7 DEF server_out_of_phase, OutOfPhase
  <2>8. CASE server_recv_fails
    BY <2>8 DEF server_recv_fails, EndInSight, Receives
  <2>9. CASE logout
    <3>1. at'["server"] = "accept"
      BY <1>1, <2>9, GoEffect DEF logout
    <3> QED
      BY <3>1 DEF EndInSight
  <2>10. CASE ServerBroken
    <3>1. CASE Go("server", "dead")
      <4>1. at'["server"] = "dead"
        BY <1>1, <3>1, GoEffect
      <4> QED
        BY <4>1 DEF EndInSight
    <3>2. CASE inbox' = [inbox EXCEPT !["server"] = <<Eof>>]
      <4>1. inbox'["server"] = <<Eof>>
        BY <1>1, <3>2 DEF TypeOK
      <4> QED
        BY <4>1, EndShown
    <3> QED
      BY <2>10, <3>1, <3>2 DEF ServerBroken
  <2> QED
    BY <2>2, <2>4, <2>5, <2>6, <2>7, <2>8, <2>9, <2>10 DEF Server
<1> QED
  BY <1>2, <1>3

LEMMA EndKill ==
  ASSUME SyncInv, Kill
  PROVE  EndInSight'
<1>1. /\ at["client"] # "down" /\ at'["server"] = at["server"]
      /\ inbox'["server"] = Append(inbox["server"], Eof)
  BY GoEffect, Peers DEF Kill, SyncInv
<1>2. CASE inbox["server"] = <<>>
  BY <1>1, <1>2, One, EndShown
<1>3. ASSUME NEW m \in Messages, inbox["server"] = <<m>>
      PROVE  EndInSight'
  <2>1. inbox'["server"] # <<>> /\ Head(inbox'["server"]) = m
    <3>1. Append(<<m>>, Eof) = <<m, Eof>> /\ <<m, Eof>> # <<>> /\ Head(<<m, Eof>>) = m
      BY Two, MessagesMade
    <3> QED
      BY <1>1, <1>3, <3>1
  <2>2. at["server"] = "handle_request" => m.op \in {"login", "meta", "rm"}
    <3>1. Head(inbox["server"]) = m /\ inbox["server"] # <<>>
      BY <1>3, One
    <3> QED
      BY <1>1, <3>1, UploadAsked, MessagesRead
         DEF FileSent, LinkSent, Receiver
  <2> QED
    BY <1>1, <2>1, <2>2 DEF EndInSight, Receives
<1> QED
  BY <1>1, <1>2, <1>3, OneAsked

LEMMA EndNext ==
  ASSUME SyncInv, EndInSight, [Next]_vars
  PROVE  EndInSight'
<1>1. TypeOK /\ "client" \in Sides
  BY Peers DEF SyncInv
<1>2. CASE Server
  BY <1>2, EndServer
<1>3. CASE Kill
  BY <1>3, EndKill
<1>4. CASE User
  <2>1. UNCHANGED <<at, inbox>>
    BY <1>4 DEF User, Create, Modify, Remove, Edit
  <2> QED
    BY <2>1 DEF EndInSight, Receives
<1>5. CASE UNCHANGED vars
  BY <1>5 DEF vars, EndInSight, Receives
<1>6. CASE Client
  <2>1. ASSUME NEW p, Go("client", p), p # "down" PROVE EndInSight'
    <3>1. at'["client"] = p
      BY <1>1, <2>1, GoEffect
    <3> QED
      BY <2>1, <3>1 DEF EndInSight
  <2>2. CASE Connect
    BY <2>2 DEF Connect, EndInSight
  <2>3. CASE client_login \/ download_end \/ add_watch \/ client_rm
    BY <2>1, <2>3 DEF client_login, download_end, add_watch, client_rm
  <2>4. CASE read_events
    BY <2>4 DEF read_events, EndInSight
  <2>5. CASE client_download_meta
    <3>1. at["client"] = "download" /\ (UNCHANGED at \/ Go("client", "spin") \/ \E p \in Receiver : Go("client", p))
      BY <2>5, Peers DEF client_download_meta, ReceiveMeta, More, Ok, Receiver
    <3>2. "down" \notin Receiver
      BY DEF Receiver
    <3> QED
      BY <2>1, <3>1, <3>2 DEF EndInSight
  <2>6. CASE client_download_file \/ client_download_symblink
    <3>1. at["client"] # "down" /\ (UNCHANGED at \/ Go("client", "download"))
      BY <2>6, Peers DEF client_download_file, client_download_symblink, ReceiveFile, ReceiveLink
    <3> QED
      BY <2>1, <3>1 DEF EndInSight
  <2>7. CASE client_send_meta \/ client_sync_file
    BY <2>1, <2>7 DEF client_send_meta, client_sync_file, SendMeta, Answered, Done
  <2>8. CASE client_send_file
    BY <2>1, <2>8 DEF client_send_file, SendMore, SendNext, SendBlock, Done
  <2> QED
    BY <1>6, <2>2, <2>3, <2>4, <2>5, <2>6, <2>7, <2>8 DEF Client
<1> QED
  BY <1>2, <1>3, <1>4, <1>5, <1>6 DEF Next
-----------------------------------------------------------------------------
\* The steps of the client that end an exchange.
LEMMA AnsweredAtRest ==
  ASSUME SyncInv, Answered("client")
  PROVE  at["server"] = "handle_request"
<1>1. /\ at["client"] \in {"meta_reply", "last_reply", "link_reply", "rm_reply"}
      /\ inbox["client"] # <<>>
      /\ at["client"] = "meta_reply" => Head(inbox["client"]).status = "ok"
  BY DEF Answered, Receives
<1>2. ~ Downloading /\ UploadPhase
  BY <1>1, ClientUploads
<1>3. CASE at["client"] = "meta_reply"
  <2>1. Res("more").status # "ok"
    BY DEF Res
  <2> QED
    BY <1>1, <1>2, <1>3, <2>1, One
       DEF UploadPhase, MetaSent, Silence, Asked, Answer, Agreed, Between
<1>4. CASE at["client"] = "last_reply"
  BY <1>1, <1>2, <1>4 DEF UploadPhase, FileSent, Asked, Answer, Agreed, Between
<1>5. CASE at["client"] = "link_reply"
  BY <1>1, <1>2, <1>5 DEF UploadPhase, LinkSent, Silence, Asked, Answer, Agreed, Between
<1>6. CASE at["client"] = "rm_reply"
  BY <1>1, <1>2, <1>6 DEF UploadPhase, RmSent, Silence, Asked, Answer, Between
<1> QED
  BY <1>1, <1>3, <1>4, <1>5, <1>6

LEMMA ListedAtRest ==
  ASSUME SyncInv, download_end
  PROVE  at["server"] = "handle_request"
<1>1. at["client"] = "download" /\ inbox["client"] # <<>> /\ Head(inbox["client"]).op = "end"
  BY DEF download_end, Receives
<1>2. Serving
  BY <1>1, ClientReceives DEF Downloading
<1> QED
  BY <1>1, <1>2, One, MessagesRead
     DEF Serving, NoneSent, Silence, Sent, DownloadMeta, DownloadFile, DownloadLink, Served,
         Replied, Halfway, Between

\* What MoreToCome says of the three places, and of no other.
LEMMA MoreElsewhere ==
  ASSUME at'["client"] \notin {"listed", "meta_reply", "next"}
  PROVE  MoreToCome'
BY DEF MoreToCome

LEMMA MoreClient ==
  ASSUME SyncInv, MoreToCome, Client
  PROVE  MoreToCome'
<1>1. TypeOK /\ "client" \in Sides
  BY Peers DEF SyncInv
<1>2. ASSUME NEW p, Go("client", p)
      PROVE  at'["client"] = p /\ at'["server"] = at["server"]
  BY <1>1, <1>2, GoEffect, Peers
<1>3. ASSUME NEW p, Go("client", p), p \notin {"listed", "meta_reply", "next"}
      PROVE  MoreToCome'
  BY <1>2, <1>3, MoreElsewhere
<1>4. ASSUME Go("client", "next"), at["server"] = "handle_request"
      PROVE  MoreToCome'
  BY <1>2, <1>4 DEF MoreToCome, Receiver
<1>5. CASE Connect
  BY <1>5, MoreElsewhere DEF Connect
<1>6. CASE client_login \/ client_rm
  BY <1>3, <1>6 DEF client_login, client_rm
<1>7. CASE client_download_meta
  <2>1. at["client"] = "download" /\ (UNCHANGED at \/ Go("client", "spin") \/ \E p \in Receiver : Go("client", p))
    BY <1>7, Peers DEF client_download_meta, ReceiveMeta, More, Ok, Receiver
  <2>2. Receiver \cap {"listed", "meta_reply", "next"} = {}
    BY DEF Receiver
  <2> QED
    BY <1>3, <2>1, <2>2, MoreElsewhere
<1>8. CASE client_download_file \/ client_download_symblink
  <2>1. /\ at["client"] \in {"receive", "receive_link"}
        /\ UNCHANGED at \/ Go("client", "download")
    BY <1>8, Peers DEF client_download_file, client_download_symblink, ReceiveFile, ReceiveLink
  <2> QED
    BY <1>3, <2>1, MoreElsewhere
<1>9. CASE download_end
  <2>1. at["server"] = "handle_request" /\ Go("client", "listed")
    BY <1>9, ListedAtRest DEF download_end
  <2> QED
    BY <1>2, <2>1 DEF MoreToCome
<1>10. CASE add_watch
  BY <1>4, <1>10 DEF add_watch, MoreToCome
<1>11. CASE client_send_meta
  <2>1. /\ SendMeta("client") /\ UNCHANGED <<tree, todo, events>>
    BY <1>11 DEF client_send_meta, SendMeta, users
  <2>2. CASE tree["client"][Name("client")] = None
    BY <1>3, <2>1, <2>2 DEF SendMeta, Name
  <2>3. CASE tree["client"][Name("client")] # None
    <3>1. at'["client"] = "meta_reply" /\ tree'["client"][Name("client")'] # None
      BY <1>2, <2>1, <2>3 DEF SendMeta, Name, Current
    <3> QED
      BY <3>1 DEF MoreToCome
  <2> QED
    BY <2>2, <2>3
<1>12. CASE client_sync_file
  BY <1>4, <1>12, AnsweredAtRest DEF client_sync_file, Answered, Done
<1>13. CASE client_send_file
  <2>1. CASE \E i : SendBlock("client", i)
    BY <1>3, <2>1 DEF SendBlock
  <2>2. CASE SendMore("client") /\ tree["client"][Name("client")] = None /\ Done("client") /\ UNCHANGED users
    <3>1. at["client"] = "meta_reply" /\ (Tail(todo["client"]) # <<>> \/ events # <<>>)
      BY <2>2 DEF SendMore, MoreToCome
    <3>2. at'["client"] = "next" /\ todo'["client"] = Tail(todo["client"]) /\ events' = events
      BY <1>1, <1>2, <2>2, Peers DEF Done, users, TypeOK
    <3> QED
      BY <3>1, <3>2 DEF MoreToCome
  <2>3. CASE Go("client", "link_reply")
    BY <1>3, <2>3
  <2> QED
    BY <1>13, <2>1, <2>2, <2>3 DEF client_send_file, SendMore, SendNext, Name
<1>14. CASE read_events
  <2>1. /\ at["client"] = "next" /\ at' = at /\ todo'["client"] = events /\ events # <<>>
    BY <1>1, <1>14, Peers DEF read_events, TypeOK
  <2> QED
    BY <2>1 DEF MoreToCome
<1> QED
  BY <1>5, <1>6, <1>7, <1>8, <1>9, <1>10, <1>11, <1>12, <1>13, <1>14 DEF Client

LEMMA MoreServer ==
  ASSUME SyncInv, MoreToCome, Server
  PROVE  MoreToCome'
<1>1. TypeOK /\ at["client"] \notin {"listed", "next"}
  BY ServerWaits DEF SyncInv
<1>2. /\ at'["client"] = at["client"] /\ tree'["client"] = tree["client"]
      /\ todo'["client"] = todo["client"] /\ events' = events
  BY <1>1, ServerPlace, ServerTrees, ServerLists
<1> QED
  BY <1>1, <1>2 DEF MoreToCome, Name, Current

LEMMA MoreUser ==
  ASSUME SyncInv, MoreToCome, User
  PROVE  MoreToCome'
<1>1. PICK n \in Edited : Create(n) \/ Remove(n) \/ \E d \in Contents : Modify(n, d)
  BY DEF User
<1>2. TypeOK /\ AtRest /\ "client" \in Sides /\ n \in Names
  BY SyncAssumption, Peers DEF SyncInv
<1>3. PICK k \in {"create", "modify", "delete"}, d \in Data \cup {None} :
        Edit(k, n, d) /\ (d = None => k = "delete")
  BY <1>1, SyncAssumption, DataFacts DEF Create, Remove, Modify
<1>4. /\ SetTree("client", n, d) /\ Notify(k, n) /\ UNCHANGED <<at, todo>>
  BY <1>3 DEF Edit
<1>5. /\ NamesIn(events) \subseteq NamesIn(events')
      /\ watching => n \in NamesIn(events')
      /\ ~ watching => events' = events
  BY <1>2, <1>4, NotifyEffect
<1>6. events # <<>> => events' # <<>>
  BY <1>2, <1>4 DEF Notify, TypeOK
<1>7. watching => events' # <<>>
  BY <1>5, NamesEmpty
<1>8. CASE at["client"] = "meta_reply"
  <2>1. todo["client"] # <<>>
    BY <1>8, ClientUploads DEF UploadPhase
  <2>2. watching
    BY <1>2, <1>8, <2>1 DEF AtRest
  <2> QED
    BY <1>4, <1>7, <1>8, <2>2 DEF MoreToCome
<1>9. CASE at["client"] # "meta_reply"
  BY <1>4, <1>6, <1>9 DEF MoreToCome
<1> QED
  BY <1>8, <1>9

LEMMA MoreNext ==
  ASSUME SyncInv, MoreToCome, [Next]_vars
  PROVE  MoreToCome'
<1>1. CASE Kill
  <2>1. at'["client"] = "down"
    BY <1>1, GoEffect, Peers DEF Kill, SyncInv
  <2> QED
    BY <2>1, MoreElsewhere
<1>2. CASE UNCHANGED vars
  BY <1>2 DEF vars, local, users, MoreToCome, Name, Current
<1> QED
  BY <1>1, <1>2, MoreClient, MoreServer, MoreUser DEF Next
-----------------------------------------------------------------------------
(* Who can go on, phase by phase.                                          *)
LEMMA DownCan ==
  ASSUME SyncInv, HangInv, at["client"] = "down"
  PROVE  NoOtherHang
<1>1. at["server"] \in ServerPlaces
  BY DEF SyncInv, TypeOK
<1>2. CASE at["server"] \in {"accept", "dead", "spin"}
  BY <1>2 DEF NoOtherHang, ClientCan, Dead, Locked
<1>3. CASE at["server"] \notin {"accept", "dead", "spin"}
  <2>1. /\ inbox["server"] # <<>>
        /\ at["server"] = "handle_request" =>
             \E op \in {"login", "meta", "rm", "eof"} : Receives("server", op)
    BY <1>3 DEF HangInv, EndInSight
  <2>2. at["server"] \in Sender \cup Receiver \cup {"handle_request", "lost"}
    BY <1>1, <1>3 DEF ServerPlaces
  <2> QED
    BY <2>1, <2>2 DEF NoOtherHang, ServerCan
<1> QED
  BY <1>2, <1>3

LEMMA ServingCan ==
  ASSUME SyncInv, Downloading, Serving
  PROVE  NoOtherHang
<1>1. at["client"] \in {"login", "download", "receive", "receive_link"} /\ at["client"] # "down"
  BY DEF Downloading
<1>2. ASSUME ReplyCame("server"), at["server"] \in Sender PROVE NoOtherHang
  BY <1>2 DEF NoOtherHang, ServerCan
<1>3. ASSUME NEW st \in {"ok", "more"}, Replied(st) PROVE ReplyCame("server")
  <2>1. inbox["server"] = <<Res(st)>>
    BY <1>3 DEF Replied, Between
  <2> QED
    BY <1>3, <2>1, One, MessagesRead DEF ReplyCame, Receives
<1>4. ASSUME NEW m, Sent(m), m.op \in {"meta", "end"} PROVE ClientCan
  <2>1. CASE at["client"] = "login" /\ inbox["client"] = <<Res("ok"), m>>
    <3>1. Head(<<Res("ok"), m>>) = Res("ok") /\ <<Res("ok"), m>> # <<>>
      OBVIOUS
    <3> QED
      BY <2>1, <3>1, MessagesRead DEF ClientCan, Receives
  <2>2. CASE at["client"] = "download" /\ inbox["client"] = <<m>>
    BY <1>4, <2>2, One DEF ClientCan, Receives
  <2> QED
    BY <1>4, <2>1, <2>2 DEF Sent, Between
<1>5. ASSUME NEW place \in Receiver, NEW b, Halfway(place), Between(<<File(b)>>, <<>>) PROVE ClientCan
  BY <1>5, One, MessagesRead DEF ClientCan, Halfway, Between, Receives
<1>6. Sender = {"next", "meta_reply", "full_reply", "last_reply", "link_reply"}
  BY DEF Sender
<1>7. CASE at["server"] = "next"
  BY <1>6, <1>7 DEF NoOtherHang, ServerCan
<1>8. CASE at["server"] = "handle_request" /\ Sent(SyncEnd)
  BY <1>4, <1>8, MessagesRead DEF NoOtherHang
<1>9. CASE DownloadMeta
  BY <1>2, <1>3, <1>4, <1>6, <1>9, MessagesRead DEF DownloadMeta, Served, NoOtherHang
<1>10. CASE DownloadFile
  <2>1. "receive" \in Receiver
    BY DEF Receiver
  <2> QED
    BY <1>2, <1>3, <1>5, <1>6, <1>10, <2>1 DEF DownloadFile, Served, NoOtherHang
<1>11. CASE DownloadLink
  <2>1. "receive_link" \in Receiver
    BY DEF Receiver
  <2>2. CASE at["client"] = "download" /\ Silence
    BY <1>11, <2>2, Peers DEF DownloadLink, NoOtherHang, LinkRefused
  <2> QED
    BY <1>2, <1>3, <1>5, <1>6, <1>11, <2>1, <2>2 DEF DownloadLink, Served, NoOtherHang
<1> QED
  BY <1>7, <1>8, <1>9, <1>10, <1>11 DEF Serving

LEMMA UploadCan ==
  ASSUME SyncInv, HangInv, at["client"] # "down", ~ Downloading
  PROVE  NoOtherHang
<1> DEFINE n == Name("client")
<1>1. UploadPhase /\ TypeOK
  BY DEF SyncInv
<1>2. ASSUME NEW m, Asked(m), Ready, m.op \in {"meta", "rm"} \/ at["server"] \in Receiver
      PROVE  NoOtherHang
  <2>1. inbox["server"] # <<>> /\ Head(inbox["server"]) = m
    BY <1>2, One DEF Asked, Between
  <2> QED
    BY <1>2, <2>1 DEF NoOtherHang, ServerCan, Ready, Receives
<1>3. ASSUME NEW st, Answer(st), at["client"] \in (Sender \ {"next"}) \cup {"rm_reply"},
             at["client"] = "meta_reply" => st # "fail"
      PROVE  NoOtherHang
  <2>1. inbox["client"] = <<Res(st)>>
    BY <1>3 DEF Answer, Between
  <2>2. ReplyCame("client")
    BY <1>3, <2>1, One, MessagesRead DEF ReplyCame, Receives
  <2> QED
    BY <1>3, <2>2 DEF NoOtherHang, ClientCan
<1>4. CASE at["client"] = "listed"
  BY <1>4 DEF NoOtherHang, ClientCan
<1>5. CASE at["client"] = "next" /\ Ready /\ Silence
  <2>1. CASE todo["client"] # <<>> \/ events # <<>>
    BY <1>5, <2>1 DEF NoOtherHang, ClientCan
  <2>2. CASE todo["client"] = <<>> /\ events = <<>>
    <3>1. at["server"] = "handle_request"
      BY <1>5, <2>2 DEF HangInv, MoreToCome, Ready
    <3>2. at = [client |-> "next", server |-> "handle_request"]
      BY <1>1, <1>5, <3>1, Peers DEF TypeOK
    <3>3. inbox = [s \in Sides |-> <<>>]
      BY <1>1, <1>5, Peers DEF TypeOK, Silence, Between
    <3> QED
      BY <2>2, <3>2, <3>3 DEF NoOtherHang, Quiet
  <2> QED
    BY <2>1, <2>2
<1>6. CASE at["client"] = "no_reply"
  BY <1>6 DEF NoOtherHang, Vanished
<1>7. CASE at["server"] = "lost" \/ at["server"] = "spin"
  BY <1>7 DEF NoOtherHang, Vanished, Locked
<1>8. CASE at["client"] = "rm_reply" /\ RmSent(n)
  BY <1>2, <1>3, <1>7, <1>8, MessagesRead DEF RmSent
<1>9. CASE at["client"] = "meta_reply" /\ MetaSent(n)
  <2>1. "meta_reply" \in Sender \ {"next"}
    BY DEF Sender
  <2> QED
    BY <1>2, <1>3, <1>7, <1>9, <2>1, MessagesRead DEF MetaSent
<1>10. CASE at["client"] \in {"full_reply", "last_reply"} /\ FileSent(n)
  <2>1. {"full_reply", "last_reply"} \subseteq Sender \ {"next"} /\ "receive" \in Receiver
    BY DEF Sender, Receiver
  <2> QED
    BY <1>2, <1>3, <1>10, <2>1 DEF FileSent, Ready
<1>11. CASE at["client"] = "link_reply" /\ LinkSent(n)
  <2>1. "link_reply" \in Sender \ {"next"} /\ "receive_link" \in Receiver
    BY DEF Sender, Receiver
  <2>2. CASE at["server"] = "handle_request"
    BY <1>11, <2>2, Peers DEF NoOtherHang, LinkRefused
  <2> QED
    BY <1>2, <1>3, <1>11, <2>1, <2>2 DEF LinkSent, Ready, Agreed
<1> QED
  BY <1>1, <1>4, <1>5, <1>6, <1>8, <1>9, <1>10, <1>11 DEF UploadPhase

(* Client and server hang in the known ways only: after a link that is     *)
(* refused, a name that vanished, a lock or a SIGPIPE.                     *)
THEOREM HangsAreKnown == Spec => []NoOtherHang
<1>1. Init => HangInv
  <2> SUFFICES ASSUME Init PROVE HangInv
    OBVIOUS
  <2>1. at["client"] = "down" /\ at["server"] = "accept"
    BY DEF Init
  <2> QED
    BY <2>1 DEF HangInv, EndInSight, MoreToCome
<1>2. SyncInv /\ HangInv /\ [Next]_vars => HangInv'
  BY EndNext, MoreNext DEF HangInv
<1>3. SyncInv /\ HangInv => NoOtherHang
  <2> SUFFICES ASSUME SyncInv, HangInv PROVE NoOtherHang
    OBVIOUS
  <2>1. CASE at["client"] # "down" /\ Downloading
    <3>1. CASE LoggingIn
      BY <3>1, One, MessagesRead DEF LoggingIn, Between, NoOtherHang, ServerCan, Receives
    <3> QED
      BY <2>1, <3>1, ServingCan DEF SyncInv, DownloadPhase
  <2> QED
    BY <2>1, DownCan, UploadCan
<1> QED
  BY <1>1, <1>2, <1>3, SyncInvariant, PTL DEF Spec
=============================================================================
