---------------------------- MODULE PortRegister ----------------------------
(***************************************************************************)
(* SP/MP4/src/port_register.c with hash.c: one process gives the students' *)
(* servers a port each (server_start in connect.c) and tells clients which *)
(* (client_start).  It serves a connection at a time; after five silent    *)
(* seconds it tries every port with bind and takes back those that bind.   *)
(* The servers start, bind and end while it does so.                       *)
(***************************************************************************)
EXTENDS Integers, SequencesExt

CONSTANTS
  Users,      \* names: [rest, last], last standing for the last four characters
  Servers,    \* processes that call server_start, again and again
  Size,       \* port_reserve_size: ports are 1..Size
  Buckets,    \* record_hash.n
  Prompt,     \* a server binds sooner than five seconds after the answer
  None

Ports == 1 .. Size

ASSUME RegisterAssumption ==
  /\ \A u \in Users : u.last \in Int
  /\ Size \in Nat \ {0} /\ Buckets \in Nat \ {0}
  /\ Prompt \in BOOLEAN /\ None \notin Ports \cup Servers

VARIABLES
  reserve,    \* port_reserve
  chain,      \* record_hash.node: for each bucket its records [code, port]
  pc,         \* of the register: "select", "clean" or "check"
  walk,       \* the nodes of a chain clean_port_reserve has still to visit
  at,         \* i of clean_port_reserve and of check_port_reserve
  server,     \* of each server its state, user and port
  newest,     \* bookkeeping: the server that booked last for each user
  busy        \* ports other programs use, or the system after a server's end

regVars == <<reserve, chain, pc, walk, at>>
vars == <<regVars, server, newest, busy>>

(* get_hash_code: code*256 + name[i] in 32 bits keeps four characters.     *)
Code(u) == u.last
Bucket(code) == code % Buckets

Bound(p) == \E s \in Servers : server[s].state = "bound" /\ server[s].port = p

(* bind succeeds                                                           *)
Binds(p) == ~Bound(p) /\ p \notin busy

Off == [state |-> "off", user |-> None, port |-> None]
----------------------------------------------------------------------------
(* hash.c                                                                  *)

Has(c, code) == \E k \in DOMAIN c : c[k].code = code
At(c, code)  == CHOOSE k \in DOMAIN c : c[k].code = code

(* Mutant: the record of a user who books again keeps its old port.        *)
BookedMutant(c, code, p) ==
  IF Has(c, code) THEN c ELSE Append(c, [code |-> code, port |-> p])

(* get_from_hash, then put_into_hash or a new port in the old record       *)
Booked(c, code, p) ==
  IF Has(c, code) THEN [c EXCEPT ![At(c, code)].port = p]
                  ELSE Append(c, [code |-> code, port |-> p])

(* Mutant: the head goes in place of the record.                           *)
DeletedMutant(c, code) == IF Has(c, code) THEN Tail(c) ELSE c

(* del_from_hash: with its first node the whole chain goes.                *)
Deleted(c, code) ==
  IF ~Has(c, code) THEN c
  ELSE IF At(c, code) = 1 THEN <<>> ELSE RemoveAt(c, At(c, code))

(* get_port, the answer to a client                                        *)
GetPort(u) ==
  LET c == chain[Bucket(Code(u))]
  IN IF Has(c, Code(u)) THEN c[At(c, Code(u))].port ELSE None
----------------------------------------------------------------------------
Init ==
  /\ reserve = [p \in Ports |-> 0]
  /\ chain = [b \in 0 .. Buckets - 1 |-> <<>>]
  /\ pc = "check" /\ walk = <<>> /\ at = 1
  /\ server = [s \in Servers |-> Off]
  /\ newest = [u \in Users |-> None]
  /\ busy \in SUBSET Ports

(* A server asks for a port; one that ends meanwhile leaves its request.   *)
Ask(s, u) ==
  /\ server[s].state = "off"
  /\ server' = [server EXCEPT ![s] = [state |-> "asking", user |-> u, port |-> None]]
  /\ UNCHANGED <<regVars, newest, busy>>

Pending(s) == server[s].state \in {"asking", "gone"}

Free == {p \in Ports : reserve[p] = 0}

(* Mutant: get_next_port does not mark the port.                           *)
ReservedMutant(p) == reserve

Reserved(p) == [reserve EXCEPT ![p] = 1]

(* handle_request with book_port: the first free port, or -1 to a server   *)
(* that gives up                                                           *)
Book(s) ==
  LET u == server[s].user
      b == Bucket(Code(u))
  IN
  /\ pc = "select" /\ Pending(s)
  /\ IF Free = {}
       THEN /\ server' = [server EXCEPT ![s] = Off]
            /\ UNCHANGED <<regVars, newest>>
       ELSE \E p \in Free :
            /\ \A q \in Free : p <= q
            /\ reserve' = Reserved(p)
            /\ chain' = [chain EXCEPT ![b] = Booked(@, Code(u), p)]
            /\ newest' = [newest EXCEPT ![u] = s]
            /\ server' = [server EXCEPT ![s] =
                 IF @.state = "gone" THEN Off
                 ELSE [state |-> "given", user |-> u, port |-> p]]
            /\ UNCHANGED <<pc, walk, at>>
  /\ UNCHANGED busy

(* init_server                                                             *)
Bind(s) ==
  /\ server[s].state = "given"
  /\ server' = [server EXCEPT ![s] =
       IF Binds(@.port) THEN [@ EXCEPT !.state = "bound"] ELSE Off]
  /\ UNCHANGED <<regVars, newest, busy>>

(* A server ends; the system may keep its port for a while.                *)
End(s) ==
  /\ \/ server[s].state = "asking" /\ server' = [server EXCEPT ![s].state = "gone"]
     \/ server[s].state \in {"given", "bound"} /\ server' = [server EXCEPT ![s] = Off]
  /\ busy' \in {busy} \cup (IF server[s].state = "bound"
                              THEN {busy \cup {server[s].port}} ELSE {})
  /\ UNCHANGED <<regVars, newest>>

Others ==
  /\ \E p \in Ports : \/ Binds(p) /\ busy' = busy \cup {p}
                      \/ p \in busy /\ busy' = busy \ {p}
  /\ UNCHANGED <<regVars, server, newest>>
----------------------------------------------------------------------------
(* select times out only when nobody has connected.                        *)
Silent ==
  /\ pc = "select"
  /\ \A s \in Servers : ~Pending(s) /\ (Prompt => server[s].state # "given")

StartClean ==
  /\ Silent
  /\ pc' = "clean"
  /\ at' = 0 /\ walk' = chain[0]
  /\ UNCHANGED <<reserve, chain, server, newest, busy>>

(* clean_port_reserve, one record.  A record that went with the head of    *)
(* its chain is visited all the same.                                      *)
CleanRecord ==
  /\ pc = "clean" /\ walk # <<>>
  /\ LET n == Head(walk)
     IN IF Binds(n.port)
          THEN /\ reserve' = [reserve EXCEPT ![n.port] = 0]
               /\ chain' = [chain EXCEPT ![Bucket(n.code)] = Deleted(@, n.code)]
          ELSE UNCHANGED <<reserve, chain>>
  /\ walk' = Tail(walk)
  /\ UNCHANGED <<pc, at, server, newest, busy>>

(* clean_port_reserve, the next bucket of the table                        *)
NextChain ==
  /\ pc = "clean" /\ walk = <<>> /\ at + 1 < Buckets
  /\ at' = at + 1 /\ walk' = chain[at + 1]
  /\ UNCHANGED <<reserve, chain, pc, server, newest, busy>>

StartCheck ==
  /\ pc = "clean" /\ walk = <<>> /\ at + 1 = Buckets
  /\ pc' = "check" /\ at' = 1
  /\ UNCHANGED <<reserve, chain, walk, server, newest, busy>>

(* Mutant: a port that binds is not given back.                            *)
CheckedMutant(p) == IF Binds(p) THEN reserve[p] ELSE 1

Checked(p) == IF Binds(p) THEN 0 ELSE 1

(* check_port_reserve, one port                                            *)
CheckPort ==
  /\ pc = "check"
  /\ reserve' = [reserve EXCEPT ![at] = Checked(at)]
  /\ IF at < Size THEN at' = at + 1 /\ UNCHANGED pc ELSE at' = 1 /\ pc' = "select"
  /\ UNCHANGED <<chain, walk, server, newest, busy>>
----------------------------------------------------------------------------
(* clean_port_reserve, which ends with check_port_reserve                  *)
Clean == CleanRecord \/ NextChain \/ StartCheck \/ CheckPort

Register == StartClean \/ Clean

Next ==
  \/ Register \/ Others
  \/ \E s \in Servers : Book(s) \/ Bind(s) \/ End(s) \/ \E u \in Users : Ask(s, u)

Spec == Init /\ [][Next]_vars

(* The register runs on, and takes the time-outs it is offered.            *)
FairSpec ==
  /\ Spec
  /\ WF_vars(Clean)
  /\ \A s \in Servers : WF_vars(Book(s))
  /\ SF_vars(StartClean)
----------------------------------------------------------------------------
Holds(s, p) == server[s].state \in {"given", "bound"} /\ server[s].port = p

(* No port is given to a server while another has it, however bookings,    *)
(* ends of servers and the tries of the clean-up fall together.            *)
PortsGivenOnce ==
  \A s, t \in Servers, p \in Ports : Holds(s, p) /\ Holds(t, p) => s = t

(* A client is sent to the newest server of the user it asks for, or told  *)
(* that there is none, as long as that server is alive.                    *)
AnswerIsOwn ==
  \A u \in Users, s \in Servers :
    (newest[u] = s /\ server[s].user = u /\ server[s].state \in {"given", "bound"})
      => GetPort(u) \in {None, server[s].port}

(* What the programs see of the register: the port a server has, and the   *)
(* answer a client gets.                                                   *)
Held == [s \in Servers |->
           IF server[s].state \in {"given", "bound"} THEN server[s].port ELSE None]

Told == [u \in Users |-> GetPort(u)]

Directory == INSTANCE PortDirectory WITH held <- Held, told <- Told

(* The register implements the directory: every step of its table, chains  *)
(* and clean-up is a booking, an end or a forgetting, or is not seen.      *)
ImplementsDirectory == Directory!Spec

(* A port that nobody uses is free in the end, its record lost or not, if  *)
(* there are silent times.                                                 *)
PortsComeBack ==
  []<>Silent => \A p \in Ports :
    reserve[p] = 1 ~> (reserve[p] = 0 \/ p \in busy \/ \E s \in Servers : Holds(s, p))

(* connect.h:46, the client reports "server no start" when you haven't run *)
(* your server: a server that runs is found.                               *)
ServerFound ==
  \A u \in Users, s \in Servers :
    (newest[u] = s /\ server[s].user = u /\ server[s].state = "bound")
      => GetPort(u) = server[s].port
=============================================================================
