------------------------- MODULE PortRegisterProofs -------------------------
(***************************************************************************)
(* Proof that SP/MP4/src/port_register.c never gives a port to two servers *)
(* at a time, for any users, servers, ports and buckets, when a server     *)
(* binds its port before the register has waited five seconds.             *)
(***************************************************************************)
EXTENDS PortRegister, SequenceTheorems, TLAPS

ServerStates ==
  [state : {"off", "asking", "gone", "given", "bound"},
   user : Users \cup {None}, port : Ports \cup {None}]

RegisterTypeOK ==
  /\ reserve \in [Ports -> {0, 1}]
  /\ server \in [Servers -> ServerStates]
  /\ pc = "check" => at \in Ports

(* What a server has is marked; and while the register tries the ports no  *)
(* server is between its answer and its bind.                              *)
HeldIsReserved == \A s \in Servers, p \in Ports : Holds(s, p) => reserve[p] = 1

NobodyBetween ==
  pc # "select" => \A s \in Servers : server[s].state # "given"

RegisterInv ==
  /\ RegisterTypeOK
  /\ HeldIsReserved
  /\ NobodyBetween
  /\ PortsGivenOnce

LEMMA RegisterInvInit == RegisterAssumption /\ Init => RegisterInv
<1> SUFFICES ASSUME RegisterAssumption, Init PROVE RegisterInv
  OBVIOUS
<1>1. RegisterTypeOK
  BY DEF RegisterAssumption, Init, RegisterTypeOK, ServerStates, Off, Ports
<1>2. \A s \in Servers : server[s].state = "off"
  BY DEF Init, Off
<1> QED BY <1>1, <1>2 DEF RegisterInv, HeldIsReserved, NobodyBetween, PortsGivenOnce, Holds

(* A step in which one server at most takes, keeps or loses a port that is *)
(* marked for it alone.                                                    *)
LEMMA ServerStep ==
  ASSUME RegisterInv, NEW s \in Servers, NEW v \in ServerStates,
         server' = [server EXCEPT ![s] = v],
         v.state \in {"given", "bound"} =>
           v.port = server[s].port /\ server[s].state \in {"given", "bound"},
         v.state = "given" => server[s].state = "given",
         UNCHANGED regVars
  PROVE  RegisterInv'
<1>1. server'[s] = v /\ \A t \in Servers : t # s => server'[t] = server[t]
  BY DEF RegisterInv, RegisterTypeOK
<1>2. \A t \in Servers, p \in Ports : Holds(t, p)' => Holds(t, p)
  BY <1>1 DEF Holds
<1>3. RegisterTypeOK' /\ UNCHANGED <<reserve, pc>>
  BY DEF RegisterInv, RegisterTypeOK, regVars
<1>4. HeldIsReserved'
  BY <1>2, <1>3 DEF RegisterInv, HeldIsReserved
<1>5. NobodyBetween'
  BY <1>1, <1>3 DEF RegisterInv, NobodyBetween
<1>6. PortsGivenOnce'
  BY <1>2 DEF RegisterInv, PortsGivenOnce
<1> QED BY <1>3, <1>4, <1>5, <1>6 DEF RegisterInv

(* A step that leaves the servers alone and takes back only ports that     *)
(* bind, while nobody is between its answer and its bind.                  *)
LEMMA TryStep ==
  ASSUME RegisterInv, UNCHANGED server, pc # "select",
         reserve' \in [Ports -> {0, 1}], pc' = "check" => at' \in Ports,
         \A p \in Ports : Binds(p) \/ reserve'[p] = reserve[p] \/ reserve'[p] = 1
  PROVE  RegisterInv'
<1>1. RegisterTypeOK' /\ NobodyBetween' /\ PortsGivenOnce'
  BY DEF RegisterInv, RegisterTypeOK, NobodyBetween, PortsGivenOnce, Holds
<1>2. ASSUME NEW s \in Servers, NEW p \in Ports, Holds(s, p)' PROVE reserve'[p] = 1
  <2>1. Holds(s, p) /\ reserve[p] = 1
    BY <1>2 DEF RegisterInv, HeldIsReserved, Holds
  <2>2. server[s].state = "bound"
    BY <2>1 DEF RegisterInv, NobodyBetween, Holds
  <2>3. ~Binds(p)
    BY <2>1, <2>2 DEF Binds, Bound, Holds
  <2> QED BY <2>1, <2>3
<1> QED BY <1>1, <1>2 DEF RegisterInv, HeldIsReserved

LEMMA RegisterInvNext ==
  RegisterAssumption /\ Prompt /\ RegisterInv /\ [Next]_vars => RegisterInv'
<1> SUFFICES ASSUME RegisterAssumption, Prompt, RegisterInv, [Next]_vars PROVE RegisterInv'
  OBVIOUS
<1>same. ASSUME UNCHANGED <<reserve, server>>, pc' = pc \/ pc # "select",
                pc' = "check" => at' = at /\ pc = "check"
         PROVE  RegisterInv'
  BY <1>same DEF RegisterInv, RegisterTypeOK, HeldIsReserved, NobodyBetween, PortsGivenOnce, Holds
<1>off. Off \in ServerStates
  BY DEF Off, ServerStates
<1>0. CASE UNCHANGED vars
  BY <1>same, <1>0 DEF vars, regVars
<1>1. ASSUME NEW s \in Servers, NEW u \in Users, Ask(s, u) PROVE RegisterInv'
  <2>1. [state |-> "asking", user |-> u, port |-> None] \in ServerStates
    BY DEF ServerStates
  <2> QED BY <1>1, <2>1, ServerStep DEF Ask
<1>2. ASSUME NEW s \in Servers, Book(s) PROVE RegisterInv'
  <2>1. CASE Free = {}
    BY <1>2, <1>off, <2>1, ServerStep DEF Book, Off
  <2>2. CASE Free # {}
    <3>1. PICK p \in Free :
            /\ reserve' = Reserved(p)
            /\ server' = [server EXCEPT ![s] =
                 IF server[s].state = "gone" THEN Off
                 ELSE [state |-> "given", user |-> server[s].user, port |-> p]]
            /\ UNCHANGED <<pc, at>>
      BY <1>2, <2>2 DEF Book
    <3>2. pc = "select" /\ Pending(s)
      BY <1>2 DEF Book
    <3>3. p \in Ports /\ \A t \in Servers : ~Holds(t, p)
      BY DEF Free, RegisterInv, HeldIsReserved
    <3>4. \A t \in Servers, q \in Ports :
            Holds(t, q)' => (t = s /\ q = p) \/ (t # s /\ Holds(t, q))
      BY <3>1 DEF Holds, Off, RegisterInv, RegisterTypeOK
    <3>5. reserve'[p] = 1 /\ \A q \in Ports : q # p => reserve'[q] = reserve[q]
      BY <3>1, <3>3 DEF Reserved, RegisterInv, RegisterTypeOK
    <3>6. RegisterTypeOK'
      <4>1. reserve' \in [Ports -> {0, 1}]
        BY <3>1, <3>3 DEF Reserved, RegisterInv, RegisterTypeOK
      <4>2. server[s].user \in Users \cup {None}
        BY DEF RegisterInv, RegisterTypeOK, ServerStates
      <4>3. server' \in [Servers -> ServerStates]
        BY <1>off, <3>1, <3>3, <4>2 DEF RegisterInv, RegisterTypeOK, ServerStates
      <4> QED BY <3>1, <4>1, <4>3 DEF RegisterInv, RegisterTypeOK
    <3>7. HeldIsReserved'
      BY <3>4, <3>5 DEF HeldIsReserved, RegisterInv
    <3>8. PortsGivenOnce'
      BY <3>3, <3>4 DEF PortsGivenOnce, RegisterInv
    <3>9. NobodyBetween'
      BY <3>1, <3>2 DEF NobodyBetween
    <3> QED BY <3>6, <3>7, <3>8, <3>9 DEF RegisterInv
  <2> QED BY <2>1, <2>2
<1>3. ASSUME NEW s \in Servers, Bind(s) PROVE RegisterInv'
  <2> DEFINE v == IF Binds(server[s].port) THEN [server[s] EXCEPT !.state = "bound"] ELSE Off
  <2>1. v \in ServerStates
    BY <1>off DEF RegisterInv, RegisterTypeOK, ServerStates
  <2>2. server' = [server EXCEPT ![s] = v] /\ server[s].state = "given" /\ UNCHANGED regVars
    BY <1>3 DEF Bind
  <2>3. /\ v.state \in {"given", "bound"} => v.port = server[s].port
        /\ v.state # "given"
    BY DEF Off, RegisterInv, RegisterTypeOK, ServerStates
  <2> HIDE DEF v
  <2> QED BY <2>1, <2>2, <2>3, ServerStep
<1>4. ASSUME NEW s \in Servers, End(s) PROVE RegisterInv'
  <2>1. CASE server[s].state = "asking" /\ server' = [server EXCEPT ![s].state = "gone"]
    <3> DEFINE v == [server[s] EXCEPT !.state = "gone"]
    <3>1. v \in ServerStates /\ v.state = "gone"
      BY DEF RegisterInv, RegisterTypeOK, ServerStates
    <3>2. server' = [server EXCEPT ![s] = v] /\ UNCHANGED regVars
      BY <1>4, <2>1 DEF End
    <3> HIDE DEF v
    <3> QED BY <3>1, <3>2, ServerStep
  <2>2. CASE server' = [server EXCEPT ![s] = Off]
    <3>1. Off.state = "off" /\ UNCHANGED regVars
      BY <1>4 DEF End, Off
    <3> QED BY <1>off, <2>2, <3>1, ServerStep
  <2> QED BY <1>4, <2>1, <2>2 DEF End
<1>5. CASE Others
  BY <1>5, <1>same DEF Others, regVars
<1>6. CASE StartClean
  <2>1. \A s \in Servers : server[s].state # "given"
    BY <1>6 DEF StartClean, Silent
  <2>2. UNCHANGED <<reserve, server>> /\ pc' = "clean"
    BY <1>6 DEF StartClean
  <2> QED BY <2>1, <2>2 DEF RegisterInv, RegisterTypeOK, HeldIsReserved, NobodyBetween, PortsGivenOnce, Holds
<1>7. CASE CleanRecord
  <2>1. pc = "clean" /\ pc' = pc /\ UNCHANGED server
    BY <1>7 DEF CleanRecord
  <2>2. CASE Binds(Head(walk).port)
    <3>1. reserve' = [reserve EXCEPT ![Head(walk).port] = 0]
      BY <1>7, <2>2 DEF CleanRecord
    <3>2. reserve' \in [Ports -> {0, 1}]
      BY <3>1 DEF RegisterInv, RegisterTypeOK
    <3>3. \A p \in Ports : Binds(p) \/ reserve'[p] = reserve[p]
      BY <2>2, <3>1 DEF RegisterInv, RegisterTypeOK
    <3> QED BY <2>1, <3>2, <3>3, TryStep DEF RegisterInv, RegisterTypeOK
  <2>3. CASE ~Binds(Head(walk).port)
    BY <1>7, <2>1, <2>3, <1>same DEF CleanRecord
  <2> QED BY <2>2, <2>3
<1>8. CASE StartCheck
  <2>1. 1 \in Ports /\ at' = 1 /\ pc # "select" /\ UNCHANGED <<server, reserve>>
    BY <1>8 DEF StartCheck, RegisterAssumption, Ports
  <2> QED BY <2>1, TryStep DEF RegisterInv, RegisterTypeOK
<1>10. CASE NextChain
  BY <1>10, <1>same DEF NextChain
<1>9. CASE CheckPort
  <2>1. pc # "select" /\ UNCHANGED server /\ reserve' = [reserve EXCEPT ![at] = Checked(at)]
    BY <1>9 DEF CheckPort
  <2>2. pc' = "check" => at' \in Ports
    BY <1>9 DEF CheckPort, RegisterAssumption, Ports, RegisterInv, RegisterTypeOK
  <2>3. reserve' \in [Ports -> {0, 1}]
    BY <2>1 DEF Checked, RegisterInv, RegisterTypeOK
  <2>4. \A p \in Ports : Binds(p) \/ reserve'[p] = reserve[p] \/ reserve'[p] = 1
    BY <2>1 DEF Checked, RegisterInv, RegisterTypeOK
  <2> QED BY <2>1, <2>2, <2>3, <2>4, TryStep
<1> QED BY <1>0, <1>1, <1>2, <1>3, <1>4, <1>5, <1>6, <1>7, <1>8, <1>9, <1>10 DEF Next, Register, Clean

(* No port is given to a server while another has it.                      *)
THEOREM NoPortTwice == ASSUME Prompt PROVE Spec => []PortsGivenOnce
<1>1. RegisterInv => PortsGivenOnce
  BY DEF RegisterInv
<1>2. RegisterInv /\ [Next]_vars => RegisterInv'
  BY RegisterInvNext, RegisterAssumption
<1> QED BY <1>1, <1>2, RegisterInvInit, RegisterAssumption, PTL DEF Spec
----------------------------------------------------------------------------
(* Answers.  Names that differ in their last four characters have records  *)
(* of their own; prompt servers are not needed here.                       *)
DistinctCodes == \A u, v \in Users : Code(u) = Code(v) => u = v

Records == [code : Int, port : Ports]

(* A chain has at most one record of a code.                               *)
Chains ==
  {c \in Seq(Records) : \A k, m \in DOMAIN c : c[k].code = c[m].code => k = m}

AnswerTypeOK ==
  /\ server \in [Servers -> ServerStates]
  /\ \A s \in Servers : Pending(s) => server[s].user \in Users
  /\ newest \in [Users -> Servers \cup {None}]
  /\ chain \in [0 .. Buckets - 1 -> Chains]

(* s is alive and the last server that booked for u.                       *)
Current(u, s) ==
  newest[u] = s /\ server[s].user = u /\ server[s].state \in {"given", "bound"}

Tells(c, code, p) == \A k \in DOMAIN c : c[k].code = code => c[k].port = p

AnswerInv ==
  /\ AnswerTypeOK
  /\ \A u \in Users, s \in Servers :
       Current(u, s) => Tells(chain[Bucket(Code(u))], Code(u), server[s].port)

(* Codes fall into the table.                                              *)
LEMMA BucketInTable ==
  ASSUME RegisterAssumption, NEW u \in Users
  PROVE  Code(u) \in Int /\ Bucket(Code(u)) \in 0 .. Buckets - 1
  BY DEF RegisterAssumption, Code, Bucket

(* put_into_hash, or a new port in the old record: the chain then tells    *)
(* the new port for this code, and what it told before for the others.     *)
LEMMA BookedTells ==
  ASSUME NEW c \in Chains, NEW code \in Int, NEW p \in Ports
  PROVE  /\ Booked(c, code, p) \in Chains
         /\ Tells(Booked(c, code, p), code, p)
         /\ \A d, q : d # code /\ Tells(c, d, q) => Tells(Booked(c, code, p), d, q)
         /\ \A k \in DOMAIN Booked(c, code, p) :
              \/ Booked(c, code, p)[k].code = code
              \/ \E m \in DOMAIN c : Booked(c, code, p)[k] = c[m]
         /\ \A m \in DOMAIN c : c[m].code # code =>
              \E k \in DOMAIN Booked(c, code, p) : Booked(c, code, p)[k] = c[m]
         /\ \E k \in DOMAIN Booked(c, code, p) : Booked(c, code, p)[k].code = code
<1> DEFINE r == Booked(c, code, p)
<1>1. /\ c \in Seq(Records) /\ Len(c) \in Nat /\ DOMAIN c = 1 .. Len(c)
      /\ \A k \in DOMAIN c : c[k] \in Records
      /\ \A k, m \in DOMAIN c : c[k].code = c[m].code => k = m
  BY DEF Chains
<1>2. CASE Has(c, code)
  <2> DEFINE j == At(c, code)
  <2>1. j \in DOMAIN c /\ c[j].code = code
    BY <1>2 DEF Has, At
  <2>2. r = [c EXCEPT ![j] = [c[j] EXCEPT !.port = p]]
    BY <1>2 DEF Booked
  <2> HIDE DEF j, r
  <2>3. /\ DOMAIN r = DOMAIN c /\ r[j].code = code /\ r[j].port = p /\ r[j] \in Records
        /\ \A k \in DOMAIN c : k # j => r[k] = c[k]
        /\ r \in Seq(Records)
    <3>1. [c[j] EXCEPT !.port = p] = [code |-> c[j].code, port |-> p]
      BY <1>1, <2>1 DEF Records
    <3>2. [code |-> c[j].code, port |-> p] \in Records
      BY <1>1, <2>1 DEF Records
    <3>3. r \in [1 .. Len(c) -> Records]
      BY <1>1, <2>1, <2>2, <3>1, <3>2
    <3> QED BY <1>1, <2>1, <2>2, <3>1, <3>2, <3>3
  <2>4. \A k \in DOMAIN c : r[k].code = c[k].code
    BY <2>1, <2>3
  <2>5. r \in Chains
    BY <1>1, <2>3, <2>4 DEF Chains
  <2>6. Tells(r, code, p)
    BY <1>1, <2>1, <2>3, <2>4 DEF Tells
  <2>7. \A d, q : d # code /\ Tells(c, d, q) => Tells(r, d, q)
    BY <2>1, <2>3, <2>4 DEF Tells
  <2>8. /\ \A k \in DOMAIN r : r[k].code = code \/ \E m \in DOMAIN c : r[k] = c[m]
        /\ \A m \in DOMAIN c : c[m].code # code => \E k \in DOMAIN r : r[k] = c[m]
        /\ \E k \in DOMAIN r : r[k].code = code
    BY <2>1, <2>3
  <2> QED BY <2>5, <2>6, <2>7, <2>8 DEF r
<1>3. CASE ~Has(c, code)
  <2> DEFINE n == [code |-> code, port |-> p]
  <2>1. r = Append(c, n)
    BY <1>3 DEF Booked
  <2>2. n \in Records /\ n.code = code /\ n.port = p
    BY DEF Records
  <2>3. \A k \in DOMAIN c : c[k].code # code
    BY <1>3 DEF Has
  <2> HIDE DEF n, r
  <2>4. /\ r \in Seq(Records) /\ DOMAIN r = 1 .. (Len(c) + 1)
        /\ r[Len(c) + 1] = n
        /\ \A k \in 1 .. Len(c) : r[k] = c[k]
    BY <1>1, <2>1, <2>2
  <2>5. r \in Chains
    <3> SUFFICES ASSUME NEW k \in DOMAIN r, NEW m \in DOMAIN r, r[k].code = r[m].code
                 PROVE  k = m
      BY <2>4 DEF Chains
    <3> QED BY <1>1, <2>2, <2>3, <2>4
  <2>6. Tells(r, code, p)
    BY <1>1, <2>2, <2>3, <2>4 DEF Tells
  <2>7. \A d, q : d # code /\ Tells(c, d, q) => Tells(r, d, q)
    BY <1>1, <2>2, <2>4 DEF Tells
  <2>8. /\ \A k \in DOMAIN r : r[k].code = code \/ \E m \in DOMAIN c : r[k] = c[m]
        /\ \A m \in DOMAIN c : c[m].code # code => \E k \in DOMAIN r : r[k] = c[m]
        /\ \E k \in DOMAIN r : r[k].code = code
    BY <1>1, <2>2, <2>4
  <2> QED BY <2>5, <2>6, <2>7, <2>8 DEF r
<1> QED BY <1>2, <1>3

(* del_from_hash: what is left of a chain tells nothing new.               *)
LEMMA DeletedTells ==
  ASSUME NEW c \in Chains, NEW code
  PROVE  /\ Deleted(c, code) \in Chains
         /\ \A d, q : Tells(c, d, q) => Tells(Deleted(c, code), d, q)
         /\ \A k \in DOMAIN Deleted(c, code) :
              /\ Deleted(c, code)[k].code # code
              /\ \E m \in DOMAIN c : Deleted(c, code)[k] = c[m]
<1>1. /\ c \in Seq(Records) /\ Len(c) \in Nat /\ DOMAIN c = 1 .. Len(c)
      /\ \A k \in DOMAIN c : c[k] \in Records
      /\ \A k, m \in DOMAIN c : c[k].code = c[m].code => k = m
  BY DEF Chains
<1>2. CASE ~Has(c, code)
  BY <1>2 DEF Deleted, Has
<1>3. CASE Has(c, code) /\ At(c, code) = 1
  <2>1. <<>> \in Chains /\ \A d, q : Tells(<<>>, d, q)
    BY DEF Chains, Tells
  <2>2. DOMAIN <<>> = {}
    OBVIOUS
  <2> QED BY <1>3, <2>1, <2>2 DEF Deleted
<1>4. CASE Has(c, code) /\ At(c, code) # 1
  <2> DEFINE j == At(c, code)
             r == Deleted(c, code)
             before == SubSeq(c, 1, j - 1)
             after  == SubSeq(c, j + 1, Len(c))
  <2>1. r = before \o after
    BY <1>4 DEF Deleted, RemoveAt
  <2>2. j \in DOMAIN c /\ c[j].code = code
    BY <1>4 DEF Has, At
  <2> HIDE DEF j, r
  <2>3. j \in Nat /\ 1 <= j /\ j <= Len(c)
    BY <1>1, <2>2
  <2>4. /\ before \in Seq(Records)
        /\ Len(before) = IF 1 <= j - 1 THEN (j - 1) - 1 + 1 ELSE 0
        /\ \A k \in 1 .. ((j - 1) - 1 + 1) : before[k] = c[1 + k - 1]
    <3>1. \A k \in 1 .. (j - 1) : c[k] \in Records
      BY <1>1, <2>3
    <3> QED BY <3>1, <2>3, SubSeqProperties
  <2>5. /\ after \in Seq(Records)
        /\ Len(after) = IF j + 1 <= Len(c) THEN Len(c) - (j + 1) + 1 ELSE 0
        /\ \A k \in 1 .. (Len(c) - (j + 1) + 1) : after[k] = c[(j + 1) + k - 1]
    <3>1. \A k \in (j + 1) .. Len(c) : c[k] \in Records
      BY <1>1, <2>3
    <3> QED BY <3>1, <1>1, <2>3, SubSeqProperties
  <2> HIDE DEF before, after
  <2>6. Len(before) = j - 1 /\ Len(after) = Len(c) - j
    <3>1. j \in Nat /\ Len(c) \in Nat /\ 1 <= j /\ j <= Len(c)
      BY <1>1, <2>3
    <3>2. /\ (IF 1 <= j - 1 THEN (j - 1) - 1 + 1 ELSE 0) = j - 1
          /\ (IF j + 1 <= Len(c) THEN Len(c) - (j + 1) + 1 ELSE 0) = Len(c) - j
      BY ONLY <3>1
    <3> QED BY <2>4, <2>5, <3>2
  <2>7. /\ r \in Seq(Records)
        /\ Len(r) = (j - 1) + (Len(c) - j)
        /\ \A k \in 1 .. ((j - 1) + (Len(c) - j)) :
             r[k] = IF k <= j - 1 THEN before[k] ELSE after[k - (j - 1)]
    <3>1. /\ before \o after \in Seq(Records)
          /\ Len(before \o after) = Len(before) + Len(after)
          /\ \A k \in 1 .. (Len(before) + Len(after)) : (before \o after)[k]
               = IF k <= Len(before) THEN before[k] ELSE after[k - Len(before)]
      BY <2>4, <2>5, ConcatProperties
    <3> QED BY <3>1, <2>1, <2>6
  <2>8. DOMAIN r = 1 .. (Len(c) - 1)
    BY <1>1, <2>3, <2>7
  <2>9. ASSUME NEW k \in DOMAIN r
        PROVE  r[k] = c[IF k < j THEN k ELSE k + 1]
    <3>1. k \in Nat /\ 1 <= k /\ k <= Len(c) - 1
      BY <2>8, <1>1
    <3>n. j \in Nat /\ Len(c) \in Nat
      BY <1>1, <2>3
    <3>2. CASE k < j
      <4>1. /\ k \in 1 .. ((j - 1) + (Len(c) - j)) /\ k <= j - 1
            /\ k \in 1 .. ((j - 1) - 1 + 1) /\ 1 + k - 1 = k
        BY ONLY <3>1, <3>2, <3>n
      <4>2. r[k] = before[k]
        BY <4>1, <2>7
      <4>3. before[k] = c[k]
        BY <4>1, <2>4
      <4> QED BY <4>2, <4>3, <3>2
    <3>3. CASE ~(k < j)
      <4> DEFINE m == k - (j - 1)
      <4>1. /\ k \in 1 .. ((j - 1) + (Len(c) - j)) /\ ~(k <= j - 1)
            /\ m \in 1 .. (Len(c) - (j + 1) + 1)
            /\ (j + 1) + m - 1 = k + 1
        BY ONLY <3>1, <3>3, <3>n
      <4>2. r[k] = after[m]
        BY <4>1, <2>7
      <4> HIDE DEF m
      <4>3. after[m] = c[(j + 1) + m - 1]
        BY <4>1, <2>5
      <4> QED BY <4>1, <4>2, <4>3, <3>3
    <3> QED BY <3>2, <3>3
  <2>10. \A k \in DOMAIN r : (IF k < j THEN k ELSE k + 1) \in DOMAIN c
    BY <1>1, <2>3, <2>8
  <2>11. r \in Chains
    <3> SUFFICES ASSUME NEW k \in DOMAIN r, NEW m \in DOMAIN r, r[k].code = r[m].code
                 PROVE  k = m
      BY <2>7 DEF Chains
    <3>1. (IF k < j THEN k ELSE k + 1) = (IF m < j THEN m ELSE m + 1)
      BY <1>1, <2>9, <2>10
    <3>2. k \in Nat /\ m \in Nat
      BY <2>8
    <3> QED BY <3>1, <3>2, <2>3
  <2>12. \A d, q : Tells(c, d, q) => Tells(r, d, q)
    BY <2>9, <2>10 DEF Tells
  <2>13. ASSUME NEW k \in DOMAIN r
         PROVE  r[k].code # code /\ \E m \in DOMAIN c : r[k] = c[m]
    <3> DEFINE m == IF k < j THEN k ELSE k + 1
    <3>1. m \in DOMAIN c /\ r[k] = c[m]
      BY <2>9, <2>10
    <3>2. m # j
      <4>1. k \in Nat
        BY <2>8
      <4> QED BY <4>1, <2>3
    <3> HIDE DEF m
    <3> QED BY <1>1, <2>2, <3>1, <3>2
  <2> QED BY <2>11, <2>12, <2>13 DEF r
<1> QED BY <1>2, <1>3, <1>4

LEMMA AnswerInit == RegisterAssumption /\ Init => AnswerInv
<1> SUFFICES ASSUME RegisterAssumption, Init PROVE AnswerInv
  OBVIOUS
<1>1. <<>> \in Chains
  BY DEF Chains
<1>2. \A s \in Servers : server[s] = Off /\ server[s].state = "off"
  BY DEF Init, Off
<1>3. Off \in ServerStates
  BY DEF Off, ServerStates
<1> QED BY <1>1, <1>2, <1>3 DEF Init, AnswerInv, AnswerTypeOK, Current, Pending

(* A step of one server that books nothing: it gets no new port.           *)
LEMMA AnswerServer ==
  ASSUME AnswerInv, NEW s \in Servers, NEW v \in ServerStates,
         server' = [server EXCEPT ![s] = v],
         v.state \in {"given", "bound"} =>
           /\ v.port = server[s].port /\ v.user = server[s].user
           /\ server[s].state \in {"given", "bound"},
         v.state \in {"asking", "gone"} => v.user \in Users,
         UNCHANGED <<chain, newest>>
  PROVE  AnswerInv'
<1>1. server'[s] = v /\ \A t \in Servers : t # s => server'[t] = server[t]
  BY DEF AnswerInv, AnswerTypeOK
<1>2. AnswerTypeOK'
  BY <1>1 DEF AnswerInv, AnswerTypeOK, Pending
<1>3. \A u \in Users, t \in Servers :
        Current(u, t)' => Current(u, t) /\ server'[t].port = server[t].port
  BY <1>1 DEF Current
<1> QED BY <1>2, <1>3 DEF AnswerInv

LEMMA AnswerNext ==
  ASSUME RegisterAssumption, DistinctCodes, AnswerInv, [Next]_vars
  PROVE  AnswerInv'
<1>same. ASSUME UNCHANGED <<chain, server, newest>> PROVE AnswerInv'
  BY <1>same DEF AnswerInv, AnswerTypeOK, Current, Pending
<1>off. Off \in ServerStates /\ Off.state = "off"
  BY DEF Off, ServerStates
<1>0. CASE UNCHANGED vars
  BY <1>same, <1>0 DEF vars, regVars
<1>1. ASSUME NEW s \in Servers, NEW u \in Users, Ask(s, u) PROVE AnswerInv'
  <2> DEFINE v == [state |-> "asking", user |-> u, port |-> None]
  <2>1. v \in ServerStates /\ v.state = "asking" /\ v.user = u
    BY DEF ServerStates
  <2>2. server' = [server EXCEPT ![s] = v] /\ UNCHANGED <<chain, newest>>
    BY <1>1 DEF Ask, regVars
  <2> HIDE DEF v
  <2> QED BY <2>1, <2>2, AnswerServer
<1>2. ASSUME NEW s \in Servers, Book(s) PROVE AnswerInv'
  <2> DEFINE u == server[s].user
             b == Bucket(Code(u))
  <2>1. u \in Users /\ Code(u) \in Int /\ b \in 0 .. Buckets - 1
    BY <1>2, BucketInTable DEF Book, AnswerInv, AnswerTypeOK
  <2>2. CASE Free = {}
    <3>1. server' = [server EXCEPT ![s] = Off] /\ UNCHANGED <<chain, newest>>
      BY <1>2, <2>2 DEF Book, regVars
    <3> QED BY <3>1, <1>off, AnswerServer
  <2>3. CASE Free # {}
    <3>1. PICK p \in Free :
            /\ chain' = [chain EXCEPT ![b] = Booked(chain[b], Code(u), p)]
            /\ newest' = [newest EXCEPT ![u] = s]
            /\ server' = [server EXCEPT ![s] =
                 IF server[s].state = "gone" THEN Off
                 ELSE [state |-> "given", user |-> u, port |-> p]]
      BY <1>2, <2>3 DEF Book
    <3>2. p \in Ports
      BY DEF Free
    <3>3. chain[b] \in Chains
      BY <2>1 DEF AnswerInv, AnswerTypeOK
    <3>4. /\ Booked(chain[b], Code(u), p) \in Chains
          /\ Tells(Booked(chain[b], Code(u), p), Code(u), p)
          /\ \A d, q : d # Code(u) /\ Tells(chain[b], d, q) => Tells(Booked(chain[b], Code(u), p), d, q)
      BY <2>1, <3>2, <3>3, BookedTells
    <3>5. [state |-> "given", user |-> u, port |-> p] \in ServerStates
      BY <2>1, <3>2 DEF ServerStates
    <3> DEFINE v == IF server[s].state = "gone" THEN Off
                    ELSE [state |-> "given", user |-> u, port |-> p]
    <3>6. /\ v \in ServerStates /\ v.state \in {"off", "given"}
          /\ v.state = "given" => v.user = u /\ v.port = p
      BY <3>5, <1>off
    <3> HIDE DEF v, u, b
    <3>7. /\ server'[s] = v /\ \A t \in Servers : t # s => server'[t] = server[t]
          /\ newest'[u] = s /\ \A w \in Users : w # u => newest'[w] = newest[w]
          /\ chain'[b] = Booked(chain[b], Code(u), p)
          /\ \A x \in 0 .. Buckets - 1 : x # b => chain'[x] = chain[x]
      BY <2>1, <3>1 DEF AnswerInv, AnswerTypeOK, v, u
    <3>8. AnswerTypeOK'
      <4>1. server' \in [Servers -> ServerStates]
        BY <3>1, <3>6 DEF AnswerInv, AnswerTypeOK, v, u
      <4>2. chain' \in [0 .. Buckets - 1 -> Chains]
        BY <2>1, <3>1, <3>4 DEF AnswerInv, AnswerTypeOK
      <4>3. newest' \in [Users -> Servers \cup {None}]
        BY <2>1, <3>1 DEF AnswerInv, AnswerTypeOK
      <4>4. \A t \in Servers : Pending(t)' => server'[t].user \in Users
        BY <3>6, <3>7 DEF AnswerInv, AnswerTypeOK, Pending
      <4> QED BY <4>1, <4>2, <4>3, <4>4 DEF AnswerTypeOK
    <3>9. ASSUME NEW w \in Users, NEW t \in Servers, Current(w, t)'
          PROVE  Tells(chain'[Bucket(Code(w))], Code(w), server'[t].port)
      <4>0. Bucket(Code(w)) \in 0 .. Buckets - 1
        BY BucketInTable
      <4>1. CASE w = u
        <5>1. t = s /\ server'[t].port = p
          BY <3>6, <3>7, <3>9, <4>1 DEF Current
        <5> QED BY <3>4, <3>7, <4>1, <5>1 DEF b, u
      <4>2. CASE w # u
        <5>1. Current(w, t) /\ server'[t] = server[t]
          BY <3>6, <3>7, <3>9, <4>2 DEF Current
        <5>2. Tells(chain[Bucket(Code(w))], Code(w), server[t].port)
          BY <5>1 DEF AnswerInv
        <5>3. Code(w) # Code(u)
          BY <2>1, <4>2 DEF DistinctCodes
        <5>4. CASE Bucket(Code(w)) = b
          BY <3>4, <3>7, <5>1, <5>2, <5>3, <5>4
        <5>5. CASE Bucket(Code(w)) # b
          BY <3>7, <4>0, <5>1, <5>2, <5>5
        <5> QED BY <5>4, <5>5
      <4> QED BY <4>1, <4>2
    <3> QED BY <3>8, <3>9 DEF AnswerInv
  <2> QED BY <2>2, <2>3
<1>3. ASSUME NEW s \in Servers, Bind(s) PROVE AnswerInv'
  <2>1. server[s] \in ServerStates /\ server[s].state = "given"
    BY <1>3 DEF Bind, AnswerInv, AnswerTypeOK
  <2>2. PICK v \in {Off, [server[s] EXCEPT !.state = "bound"]} :
          server' = [server EXCEPT ![s] = v] /\ UNCHANGED <<chain, newest>>
    BY <1>3 DEF Bind, regVars
  <2>3. CASE v = Off
    BY <2>2, <2>3, <1>off, AnswerServer
  <2>4. CASE v = [server[s] EXCEPT !.state = "bound"]
    <3>1. /\ v \in ServerStates /\ v.state = "bound"
          /\ v.port = server[s].port /\ v.user = server[s].user
      BY <2>1, <2>4 DEF ServerStates
    <3> QED BY <2>1, <2>2, <3>1, AnswerServer
  <2> QED BY <2>3, <2>4
<1>4. ASSUME NEW s \in Servers, End(s) PROVE AnswerInv'
  <2>1. CASE server[s].state = "asking" /\ server' = [server EXCEPT ![s].state = "gone"]
    <3> DEFINE v == [server[s] EXCEPT !.state = "gone"]
    <3>1. server[s] \in ServerStates /\ server[s].user \in Users
      BY <2>1 DEF AnswerInv, AnswerTypeOK, Pending
    <3>2. v \in ServerStates /\ v.state = "gone" /\ v.user = server[s].user
      BY <3>1 DEF ServerStates
    <3>3. server' = [server EXCEPT ![s] = v] /\ UNCHANGED <<chain, newest>>
      BY <1>4, <2>1 DEF End, regVars
    <3> HIDE DEF v
    <3> QED BY <3>1, <3>2, <3>3, AnswerServer
  <2>2. CASE server' = [server EXCEPT ![s] = Off]
    BY <1>4, <2>2, <1>off, AnswerServer DEF End, regVars
  <2> QED BY <1>4, <2>1, <2>2 DEF End
<1>5. CASE CleanRecord
  <2> DEFINE n == Head(walk)
             b == Bucket(n.code)
  <2>1. UNCHANGED <<server, newest>>
    BY <1>5 DEF CleanRecord
  <2>2. chain' = chain \/ chain' = [chain EXCEPT ![b] = Deleted(chain[b], n.code)]
    BY <1>5 DEF CleanRecord
  <2> HIDE DEF n, b
  <2>3. ASSUME NEW x \in 0 .. Buckets - 1
        PROVE  /\ chain'[x] \in Chains
               /\ \A d, q : Tells(chain[x], d, q) => Tells(chain'[x], d, q)
    <3>1. chain[x] \in Chains
      BY DEF AnswerInv, AnswerTypeOK
    <3>2. chain'[x] = chain[x] \/ chain'[x] = Deleted(chain[x], n.code)
      BY <2>2 DEF AnswerInv, AnswerTypeOK
    <3> QED BY <3>1, <3>2, DeletedTells
  <2>4. chain' \in [0 .. Buckets - 1 -> Chains]
    BY <2>2, <2>3 DEF AnswerInv, AnswerTypeOK
  <2>5. AnswerTypeOK'
    BY <2>1, <2>4 DEF AnswerInv, AnswerTypeOK, Pending
  <2>6. ASSUME NEW u \in Users, NEW s \in Servers, Current(u, s)'
        PROVE  Tells(chain'[Bucket(Code(u))], Code(u), server'[s].port)
    <3>1. Tells(chain[Bucket(Code(u))], Code(u), server[s].port)
      BY <2>1, <2>6 DEF AnswerInv, Current
    <3> QED BY <2>1, <2>3, <3>1, BucketInTable
  <2> QED BY <2>5, <2>6 DEF AnswerInv
<1>6. CASE StartClean \/ NextChain \/ StartCheck \/ CheckPort \/ Others
  BY <1>6, <1>same DEF StartClean, NextChain, StartCheck, CheckPort, Others, regVars
<1> QED BY <1>0, <1>1, <1>2, <1>3, <1>4, <1>5, <1>6 DEF Next, Register, Clean

(* A client is never sent to a strange server: it gets the port of the     *)
(* newest server of the user it asks for, or none, if the names of the     *)
(* users have codes of their own.                                          *)
THEOREM NobodySentAstray == ASSUME DistinctCodes PROVE Spec => []AnswerIsOwn
<1>1. AnswerInv => AnswerIsOwn
  <2> SUFFICES ASSUME AnswerInv, NEW u \in Users, NEW s \in Servers, Current(u, s)
               PROVE  GetPort(u) \in {None, server[s].port}
    BY DEF AnswerIsOwn, Current
  <2>1. Tells(chain[Bucket(Code(u))], Code(u), server[s].port)
    BY DEF AnswerInv
  <2>2. ASSUME Has(chain[Bucket(Code(u))], Code(u))
        PROVE  GetPort(u) = server[s].port
    <3> DEFINE c == chain[Bucket(Code(u))]
    <3>1. At(c, Code(u)) \in DOMAIN c /\ c[At(c, Code(u))].code = Code(u)
      BY <2>2 DEF Has, At
    <3> QED BY <2>1, <2>2, <3>1 DEF GetPort, Tells
  <2> QED BY <2>2 DEF GetPort
<1>2. AnswerInv /\ [Next]_vars => AnswerInv'
  BY AnswerNext, RegisterAssumption
<1> QED BY <1>1, <1>2, AnswerInit, RegisterAssumption, PTL DEF Spec
----------------------------------------------------------------------------
(* The register implements the directory of PortDirectory.tla.             *)

Looked(c, code) == IF Has(c, code) THEN c[At(c, code)].port ELSE None

(* A record on its chain: of the right bucket, and of one of the users.    *)
Home(n, b) == Bucket(n.code) = b /\ \E u \in Users : Code(u) = n.code

Homes ==
  \A b \in 0 .. Buckets - 1 : \A k \in DOMAIN chain[b] : Home(chain[b][k], b)

(* What the clean-up has still to visit was on the chain when it came by;  *)
(* by now a record may have gone with the head, but none has another port. *)
WalkInv ==
  pc = "clean" =>
    /\ at \in 0 .. Buckets - 1
    /\ walk \in Seq(Records)
    /\ \A k \in DOMAIN walk :
         /\ Home(walk[k], at)
         /\ Looked(chain[at], walk[k].code) \in {walk[k].port, None}

DirectoryInv == RegisterInv /\ AnswerInv /\ Homes /\ WalkInv

LEMMA LookedIs ==
  ASSUME NEW c \in Chains, NEW k \in DOMAIN c
  PROVE  Looked(c, c[k].code) = c[k].port
<1>1. Has(c, c[k].code)
  BY DEF Has
<1>2. At(c, c[k].code) \in DOMAIN c /\ c[At(c, c[k].code)].code = c[k].code
  BY DEF At
<1>3. At(c, c[k].code) = k
  BY <1>2 DEF Chains
<1> QED BY <1>1, <1>3 DEF Looked

LEMMA LookedType ==
  ASSUME NEW c \in Chains, NEW code
  PROVE  /\ Looked(c, code) \in Ports \cup {None}
         /\ ~Has(c, code) => Looked(c, code) = None
         /\ Has(c, code) => \E k \in DOMAIN c : c[k].code = code /\ Looked(c, code) = c[k].port
<1>1. \A k \in DOMAIN c : c[k] \in Records
  BY DEF Chains
<1>2. Has(c, code) => At(c, code) \in DOMAIN c /\ c[At(c, code)].code = code
  BY DEF Has, At
<1> QED BY <1>1, <1>2 DEF Looked, Records

LEMMA BookedLooks ==
  ASSUME NEW c \in Chains, NEW code \in Int, NEW p \in Ports
  PROVE  /\ Looked(Booked(c, code, p), code) = p
         /\ \A d : d # code => Looked(Booked(c, code, p), d) = Looked(c, d)
<1> DEFINE r == Booked(c, code, p)
<1>1. /\ r \in Chains
      /\ Tells(r, code, p)
      /\ \A k \in DOMAIN r : r[k].code = code \/ \E m \in DOMAIN c : r[k] = c[m]
      /\ \A m \in DOMAIN c : c[m].code # code => \E k \in DOMAIN r : r[k] = c[m]
      /\ \E k \in DOMAIN r : r[k].code = code
  BY BookedTells
<1> HIDE DEF r
<1>2. Looked(r, code) = p
  BY <1>1, LookedIs DEF Tells
<1>3. ASSUME NEW d, d # code PROVE Looked(r, d) = Looked(c, d)
  <2>1. CASE Has(c, d)
    <3>1. PICK m \in DOMAIN c : c[m].code = d /\ Looked(c, d) = c[m].port
      BY <2>1, LookedType
    <3>2. PICK k \in DOMAIN r : r[k] = c[m]
      BY <1>1, <1>3, <3>1
    <3> QED BY <1>1, <3>1, <3>2, LookedIs
  <2>2. CASE ~Has(c, d)
    <3>1. ~Has(r, d)
      BY <1>1, <1>3, <2>2 DEF Has
    <3> QED BY <1>1, <2>2, <3>1, LookedType
  <2> QED BY <2>1, <2>2
<1> QED BY <1>2, <1>3 DEF r

LEMMA DeletedLooks ==
  ASSUME NEW c \in Chains, NEW code
  PROVE  /\ Looked(Deleted(c, code), code) = None
         /\ \A d : Looked(Deleted(c, code), d) \in {Looked(c, d), None}
         /\ ~Has(c, code) => Deleted(c, code) = c
<1> DEFINE r == Deleted(c, code)
<1>1. /\ r \in Chains
      /\ \A k \in DOMAIN r : r[k].code # code /\ \E m \in DOMAIN c : r[k] = c[m]
  BY DeletedTells
<1>2. ~Has(c, code) => r = c
  BY DEF Deleted
<1> HIDE DEF r
<1>3. Looked(r, code) = None
  BY <1>1, LookedType DEF Has
<1>4. ASSUME NEW d, Has(r, d) PROVE Looked(r, d) = Looked(c, d)
  <2>1. PICK k \in DOMAIN r : r[k].code = d /\ Looked(r, d) = r[k].port
    BY <1>1, <1>4, LookedType
  <2>2. PICK m \in DOMAIN c : r[k] = c[m]
    BY <1>1
  <2> QED BY <2>1, <2>2, LookedIs
<1> QED BY <1>1, <1>2, <1>3, <1>4, LookedType DEF r

LEMMA DirectoryInvInit == RegisterAssumption /\ Init => DirectoryInv
<1> SUFFICES ASSUME RegisterAssumption, Init PROVE DirectoryInv
  OBVIOUS
<1>1. DOMAIN <<>> = {} /\ pc = "check"
  BY DEF Init
<1>2. Homes
  BY <1>1 DEF Init, Homes
<1> QED BY <1>1, <1>2, RegisterInvInit, AnswerInit DEF DirectoryInv, WalkInv

(* A walk that begins: the records are on their chain.                     *)
LEMMA WalkBegins ==
  ASSUME DirectoryInv, NEW b \in 0 .. Buckets - 1, walk' = chain[b], at' = b,
         chain' = chain
  PROVE  Homes' /\ WalkInv'
<1>1. Homes'
  BY DEF DirectoryInv, Homes
<1>2. chain[b] \in Chains /\ chain[b] \in Seq(Records)
  BY DEF DirectoryInv, AnswerInv, AnswerTypeOK, Chains
<1>3. \A k \in DOMAIN chain[b] :
        Home(chain[b][k], b) /\ Looked(chain[b], chain[b][k].code) = chain[b][k].port
  BY <1>2, LookedIs DEF DirectoryInv, Homes
<1> QED BY <1>1, <1>2, <1>3 DEF WalkInv

LEMMA WalkNext ==
  ASSUME RegisterAssumption, DirectoryInv, [Next]_vars
  PROVE  Homes' /\ WalkInv'
<1>0. ASSUME UNCHANGED <<chain, walk, at>>, pc' = pc \/ pc' # "clean"
      PROVE  Homes' /\ WalkInv'
  BY <1>0 DEF DirectoryInv, Homes, WalkInv
<1>1. CASE \/ UNCHANGED vars \/ Others
           \/ \E s \in Servers : Bind(s) \/ End(s) \/ \E u \in Users : Ask(s, u)
  BY <1>0, <1>1 DEF vars, regVars, Others, Bind, End, Ask
<1>2. ASSUME NEW s \in Servers, Book(s) PROVE Homes' /\ WalkInv'
  <2> DEFINE u == server[s].user
             b == Bucket(Code(u))
  <2>1. /\ u \in Users /\ Code(u) \in Int /\ b \in 0 .. Buckets - 1
        /\ pc = "select" /\ pc' = pc
    BY <1>2, BucketInTable DEF Book, DirectoryInv, AnswerInv, AnswerTypeOK, regVars
  <2>2. CASE Free = {}
    BY <1>0, <1>2, <2>2 DEF Book, regVars
  <2>3. CASE Free # {}
    <3>1. PICK p \in Free : chain' = [chain EXCEPT ![b] = Booked(chain[b], Code(u), p)]
      BY <1>2, <2>3 DEF Book
    <3>2. p \in Ports /\ chain[b] \in Chains /\ chain \in [0 .. Buckets - 1 -> Chains]
      BY <2>1 DEF Free, DirectoryInv, AnswerInv, AnswerTypeOK
    <3> DEFINE r == Booked(chain[b], Code(u), p)
    <3>3. \A k \in DOMAIN r :
            r[k].code = Code(u) \/ \E m \in DOMAIN chain[b] : r[k] = chain[b][m]
      BY <2>1, <3>2, BookedTells
    <3> HIDE DEF r
    <3>4. \A k \in DOMAIN r : Home(r[k], b)
      BY <2>1, <3>3 DEF DirectoryInv, Homes, Home
    <3>5. \A x \in 0 .. Buckets - 1 : chain'[x] = IF x = b THEN r ELSE chain[x]
      BY <3>1, <3>2 DEF r
    <3>6. Homes'
      BY <3>4, <3>5 DEF DirectoryInv, Homes
    <3> QED BY <2>1, <3>6 DEF WalkInv
  <2> QED BY <2>2, <2>3
<1>3. CASE StartClean
  <2>1. 0 \in 0 .. Buckets - 1
    BY DEF RegisterAssumption
  <2> QED BY <1>3, <2>1, WalkBegins DEF StartClean
<1>4. CASE NextChain
  <2>1. at + 1 \in 0 .. Buckets - 1
    BY <1>4 DEF NextChain, DirectoryInv, WalkInv, RegisterAssumption
  <2> QED BY <1>4, <2>1, WalkBegins DEF NextChain
<1>5. CASE StartCheck \/ CheckPort
  BY <1>5 DEF StartCheck, CheckPort, DirectoryInv, Homes, WalkInv
<1>6. CASE CleanRecord
  <2> DEFINE n == Head(walk)
  <2>1. /\ at \in 0 .. Buckets - 1 /\ walk \in Seq(Records) /\ walk # <<>>
        /\ at' = at /\ pc' = pc /\ walk' = Tail(walk)
        /\ \A k \in DOMAIN walk :
             Home(walk[k], at) /\ Looked(chain[at], walk[k].code) \in {walk[k].port, None}
    BY <1>6 DEF CleanRecord, DirectoryInv, WalkInv
  <2>2. Bucket(n.code) = at
    BY <2>1 DEF Home
  <2>3. /\ walk' \in Seq(Records)
        /\ \A k \in DOMAIN walk' : k + 1 \in DOMAIN walk /\ walk'[k] = walk[k + 1]
    BY <2>1
  <2>4. chain' = chain \/ chain' = [chain EXCEPT ![at] = Deleted(chain[at], n.code)]
    BY <1>6, <2>2 DEF CleanRecord
  <2>5. chain \in [0 .. Buckets - 1 -> Chains] /\ chain[at] \in Chains
    BY <2>1 DEF DirectoryInv, AnswerInv, AnswerTypeOK
  <2> HIDE DEF n
  <2>6. /\ \A d : Looked(chain'[at], d) \in {Looked(chain[at], d), None}
        /\ \A k \in DOMAIN chain'[at] : \E m \in DOMAIN chain[at] : chain'[at][k] = chain[at][m]
    <3>1. CASE chain' = chain
      BY <3>1
    <3>2. CASE chain' = [chain EXCEPT ![at] = Deleted(chain[at], n.code)]
      <4>1. chain'[at] = Deleted(chain[at], n.code)
        BY <2>1, <2>5, <3>2
      <4> QED BY <2>5, <4>1, DeletedLooks, DeletedTells
    <3> QED BY <2>4, <3>1, <3>2
  <2>7. \A b \in 0 .. Buckets - 1 : b # at => chain'[b] = chain[b]
    BY <2>4, <2>5
  <2>8. Homes'
    BY <2>1, <2>6, <2>7 DEF DirectoryInv, Homes
  <2>9. WalkInv'
    BY <2>1, <2>3, <2>6 DEF WalkInv
  <2> QED BY <2>8, <2>9
<1> QED BY <1>1, <1>2, <1>3, <1>4, <1>5, <1>6 DEF Next, Register, Clean

LEMMA DirectoryInvNext ==
  ASSUME RegisterAssumption, Prompt, DistinctCodes
  PROVE  DirectoryInv /\ [Next]_vars => DirectoryInv'
  BY RegisterInvNext, AnswerNext, WalkNext DEF DirectoryInv

LEMMA ToldIs ==
  ASSUME NEW u \in Users
  PROVE  Told[u] = Looked(chain[Bucket(Code(u))], Code(u))
  BY DEF Told, GetPort, Looked

(* A port that is not marked is held by nobody.                            *)
LEMMA FreeIsUnheld ==
  ASSUME RegisterInv, RegisterAssumption, NEW p \in Free
  PROVE  Directory!Unheld(p)
<1>1. p \in Ports /\ p # None /\ \A t \in Servers : ~Holds(t, p)
  BY DEF Free, RegisterInv, HeldIsReserved, RegisterAssumption
<1> QED BY <1>1 DEF Directory!Unheld, Held, Holds

(* Only the servers tell who holds a port, only the chains who is told.    *)
LEMMA SameDirectory ==
  ASSUME UNCHANGED chain,
         \A s \in Servers : Held'[s] = Held[s]
  PROVE  UNCHANGED Directory!dirVars
<1>1. Held' = Held
  BY DEF Held
<1>2. Told' = Told
  BY DEF Told, GetPort
<1> QED BY <1>1, <1>2 DEF Directory!dirVars

LEMMA ServerLetsGo ==
  ASSUME NEW s \in Servers, server \in [Servers -> ServerStates],
         server' = [server EXCEPT ![s] = Off], UNCHANGED chain
  PROVE  [Directory!Next]_(Directory!dirVars)
<1>1. Held' = [Held EXCEPT ![s] = None] /\ Told' = Told
  BY DEF Held, Told, GetPort, Off
<1>2. CASE Held[s] = None
  <2>1. Held' = Held
    BY <1>1, <1>2 DEF Held
  <2> QED BY <1>1, <2>1 DEF Directory!dirVars
<1>3. CASE Held[s] # None
  BY <1>1, <1>3 DEF Directory!Next, Directory!LetGo
<1> QED BY <1>2, <1>3

(* A booking gives a port nobody holds, to the server and its user.        *)
LEMMA BookGives ==
  ASSUME RegisterAssumption, DistinctCodes, DirectoryInv, NEW s \in Servers, Book(s)
  PROVE  [Directory!Next]_(Directory!dirVars)
<1> DEFINE u == server[s].user
           b == Bucket(Code(u))
<1>1. /\ u \in Users /\ Code(u) \in Int /\ b \in 0 .. Buckets - 1
      /\ server[s].state \in {"asking", "gone"}
      /\ server \in [Servers -> ServerStates]
      /\ chain \in [0 .. Buckets - 1 -> Chains]
  BY BucketInTable DEF Book, Pending, DirectoryInv, AnswerInv, AnswerTypeOK
<1>2. Held[s] = None
  BY <1>1 DEF Held
<1>3. CASE Free = {}
  <2>1. server' = [server EXCEPT ![s] = Off] /\ UNCHANGED chain
    BY <1>3 DEF Book, regVars
  <2> QED BY <1>1, <2>1, ServerLetsGo
<1>4. CASE Free # {}
  <2>1. PICK p \in Free :
          /\ chain' = [chain EXCEPT ![b] = Booked(chain[b], Code(u), p)]
          /\ server' = [server EXCEPT ![s] =
               IF server[s].state = "gone" THEN Off
               ELSE [state |-> "given", user |-> u, port |-> p]]
    BY <1>4 DEF Book
  <2>2. p \in Ports /\ Directory!Unheld(p)
    BY FreeIsUnheld DEF Free, DirectoryInv
  <2>3. Held' \in {Held, [Held EXCEPT ![s] = p]}
    <3>1. CASE server[s].state = "gone"
      <4>1. server' = [server EXCEPT ![s] = Off]
        BY <2>1, <3>1
      <4>2. \A t \in Servers : Held'[t] = Held[t]
        BY <1>1, <1>2, <4>1 DEF Held, Off
      <4> QED BY <4>2 DEF Held
    <3>2. CASE server[s].state # "gone"
      <4>1. server' = [server EXCEPT ![s] = [state |-> "given", user |-> u, port |-> p]]
        BY <2>1, <3>2
      <4>2. \A t \in Servers : Held'[t] = IF t = s THEN p ELSE Held[t]
        BY <1>1, <4>1 DEF Held
      <4> QED BY <4>2 DEF Held
    <3> QED BY <3>1, <3>2
  <2>4. \A v \in Users : Told'[v] = IF v = u THEN p ELSE Told[v]
    <3> SUFFICES ASSUME NEW v \in Users
                 PROVE  Told'[v] = IF v = u THEN p ELSE Told[v]
      OBVIOUS
    <3> DEFINE x == Bucket(Code(v))
    <3>1. x \in 0 .. Buckets - 1
      BY BucketInTable
    <3>2. Told'[v] = Looked(chain'[x], Code(v)) /\ Told[v] = Looked(chain[x], Code(v))
      BY DEF Told, GetPort, Looked
    <3> HIDE DEF x
    <3>3. chain[b] \in Chains
      BY <1>1
    <3>4. CASE x = b
      <4>1. chain'[x] = Booked(chain[b], Code(u), p)
        BY <1>1, <2>1, <3>4
      <4>2. v # u => Code(v) # Code(u)
        BY <1>1 DEF DistinctCodes
      <4> QED BY <1>1, <2>2, <3>2, <3>3, <3>4, <4>1, <4>2, BookedLooks
    <3>5. CASE x # b
      <4>1. chain'[x] = chain[x]
        BY <1>1, <2>1, <3>1, <3>5
      <4>2. v # u
        BY <3>5 DEF x
      <4> QED BY <3>2, <4>1, <4>2
    <3> QED BY <3>4, <3>5
  <2>5. Told' = [Told EXCEPT ![u] = p]
    BY <2>4 DEF Told
  <2> QED BY <1>1, <1>2, <2>2, <2>3, <2>5 DEF Directory!Next, Directory!Give
<1> QED BY <1>3, <1>4

(* A record goes only if its port binds; its user is forgotten, and with   *)
(* the head of a chain all users behind it.                                *)
LEMMA CleanForgets ==
  ASSUME RegisterAssumption, DirectoryInv, CleanRecord
  PROVE  [Directory!Next]_(Directory!dirVars)
<1> DEFINE n == Head(walk)
<1>1. /\ at \in 0 .. Buckets - 1 /\ walk \in Seq(Records) /\ walk # <<>>
      /\ 1 \in DOMAIN walk /\ n = walk[1]
  BY DEF CleanRecord, DirectoryInv, WalkInv
<1>2. /\ Bucket(n.code) = at /\ n.port \in Ports
      /\ Looked(chain[at], n.code) \in {n.port, None}
      /\ \E u \in Users : Code(u) = n.code
  <2>1. walk[1] \in Records
    BY <1>1
  <2>2. Home(walk[1], at) /\ Looked(chain[at], walk[1].code) \in {walk[1].port, None}
    BY <1>1 DEF CleanRecord, DirectoryInv, WalkInv
  <2> HIDE DEF n
  <2> QED BY <1>1, <2>1, <2>2 DEF Home, Records
<1>3. /\ UNCHANGED server
      /\ chain \in [0 .. Buckets - 1 -> Chains] /\ chain[at] \in Chains
  BY <1>1 DEF CleanRecord, DirectoryInv, AnswerInv, AnswerTypeOK
<1>4. Held' = Held
  BY <1>3 DEF Held
<1>5. CASE ~Binds(n.port)
  <2>1. UNCHANGED chain
    BY <1>5 DEF CleanRecord
  <2> QED BY <1>4, <2>1, SameDirectory
<1>6. CASE Binds(n.port)
  <2>1. chain' = [chain EXCEPT ![at] = Deleted(chain[at], n.code)]
    BY <1>2, <1>6 DEF CleanRecord
  <2>2. CASE ~Has(chain[at], n.code)
    <3>1. chain' = chain
      BY <1>1, <1>3, <2>1, <2>2, DeletedLooks
    <3> QED BY <1>4, <3>1, SameDirectory
  <2>3. CASE Has(chain[at], n.code)
    <3>1. PICK w \in Users : Code(w) = n.code
      BY <1>2
    <3>2. Told[w] = n.port /\ n.port # None
      <4>1. Looked(chain[at], n.code) \in Ports
        <5>1. PICK k \in DOMAIN chain[at] : Looked(chain[at], n.code) = chain[at][k].port
          BY <1>3, <2>3, LookedType
        <5>2. chain[at][k] \in Records
          BY <1>3 DEF Chains
        <5> QED BY <5>1, <5>2 DEF Records
      <4>2. None \notin Ports
        BY DEF RegisterAssumption
      <4> QED BY <1>2, <3>1, <4>1, <4>2, ToldIs
    <3>3. Directory!Unheld(n.port)
      <4>1. \A s \in Servers : server[s].state # "given"
        BY DEF CleanRecord, DirectoryInv, RegisterInv, NobodyBetween
      <4>2. \A s \in Servers : ~(server[s].state = "bound" /\ server[s].port = n.port)
        BY <1>6 DEF Binds, Bound
      <4> QED BY <3>2, <4>1, <4>2 DEF Directory!Unheld, Held
    <3>4. ASSUME NEW v \in Users
          PROVE  Told'[v] \in {Told[v], None} /\ (v = w => Told'[v] = None)
      <4> DEFINE x == Bucket(Code(v))
      <4>1. x \in 0 .. Buckets - 1
        BY BucketInTable
      <4>2. Told'[v] = Looked(chain'[x], Code(v)) /\ Told[v] = Looked(chain[x], Code(v))
        BY DEF Told, GetPort, Looked
      <4>3. x = at => chain'[x] = Deleted(chain[at], n.code)
        BY <1>1, <1>3, <2>1
      <4>4. x # at => chain'[x] = chain[x]
        BY <1>3, <2>1, <4>1
      <4>5. v = w => x = at /\ Code(v) = n.code
        BY <1>2, <3>1
      <4> HIDE DEF x
      <4> QED BY <1>3, <4>2, <4>3, <4>4, <4>5, DeletedLooks
    <3> DEFINE W == {v \in Users : Told[v] # None /\ Told'[v] = None}
    <3>5. w \in W /\ W \in SUBSET Users /\ \A v \in W : Told[v] # None
      BY <3>2, <3>4
    <3>6. Told' = [v \in Users |-> IF v \in W THEN None ELSE Told[v]]
      <4>1. \A v \in Users : Told'[v] = IF v \in W THEN None ELSE Told[v]
        BY <3>4
      <4>2. Told' = [v \in Users |-> Told'[v]]
        BY DEF Told
      <4> HIDE DEF W
      <4> QED BY <4>1, <4>2
    <3> HIDE DEF W
    <3>7. Directory!Forget(W)
      BY <1>4, <3>2, <3>3, <3>5, <3>6 DEF Directory!Forget
    <3> QED BY <3>5, <3>7 DEF Directory!Next
  <2> QED BY <2>2, <2>3
<1> QED BY <1>5, <1>6

LEMMA StepIsDirectory ==
  ASSUME RegisterAssumption, DistinctCodes, DirectoryInv, [Next]_vars
  PROVE  [Directory!Next]_(Directory!dirVars)
<1>0. server \in [Servers -> ServerStates]
  BY DEF DirectoryInv, AnswerInv, AnswerTypeOK
<1>1. ASSUME UNCHANGED <<chain, server>> PROVE UNCHANGED Directory!dirVars
  <2>1. \A s \in Servers : Held'[s] = Held[s]
    BY <1>1 DEF Held
  <2> QED BY <1>1, <2>1, SameDirectory
<1>2. CASE UNCHANGED vars \/ Others \/ StartClean \/ NextChain \/ StartCheck \/ CheckPort
  BY <1>1, <1>2 DEF vars, regVars, Others, StartClean, NextChain, StartCheck, CheckPort
<1>3. CASE CleanRecord
  BY <1>3, CleanForgets
<1>4. ASSUME NEW s \in Servers, Book(s) PROVE [Directory!Next]_(Directory!dirVars)
  BY <1>4, BookGives
<1>5. ASSUME NEW s \in Servers, NEW u \in Users, Ask(s, u)
      PROVE  [Directory!Next]_(Directory!dirVars)
  <2>1. \A t \in Servers : Held'[t] = Held[t]
    BY <1>0, <1>5 DEF Ask, Held
  <2> QED BY <1>5, <2>1, SameDirectory DEF Ask, regVars
<1>6. ASSUME NEW s \in Servers, Bind(s) PROVE [Directory!Next]_(Directory!dirVars)
  <2>1. CASE server' = [server EXCEPT ![s] = Off]
    BY <1>0, <1>6, <2>1, ServerLetsGo DEF Bind, regVars
  <2>2. CASE server' = [server EXCEPT ![s] = [server[s] EXCEPT !.state = "bound"]]
    <3>1. \A t \in Servers : Held'[t] = Held[t]
      BY <1>0, <1>6, <2>2 DEF Bind, Held, ServerStates
    <3> QED BY <1>6, <3>1, SameDirectory DEF Bind, regVars
  <2> QED BY <1>6, <2>1, <2>2 DEF Bind
<1>7. ASSUME NEW s \in Servers, End(s) PROVE [Directory!Next]_(Directory!dirVars)
  <2>1. CASE server' = [server EXCEPT ![s] = Off]
    BY <1>0, <1>7, <2>1, ServerLetsGo DEF End, regVars
  <2>2. CASE server[s].state = "asking" /\ server' = [server EXCEPT ![s].state = "gone"]
    <3>1. \A t \in Servers : Held'[t] = Held[t]
      BY <1>0, <2>2 DEF Held, ServerStates
    <3> QED BY <1>7, <3>1, SameDirectory DEF End, regVars
  <2> QED BY <1>7, <2>1, <2>2 DEF End
<1> QED BY <1>2, <1>3, <1>4, <1>5, <1>6, <1>7 DEF Next, Register, Clean

(* The register is a directory: a port handed out is held by nobody else,  *)
(* a user's entry changes by a booking of its own, and is forgotten only   *)
(* in a clean-up that has found an entry whose port nobody holds.          *)
THEOREM RegisterIsDirectory ==
  ASSUME Prompt, DistinctCodes PROVE Spec => ImplementsDirectory
<1>1. Init => Directory!Init
  <2> SUFFICES ASSUME Init PROVE Directory!Init
    OBVIOUS
  <2>1. Held = [s \in Servers |-> None]
    BY DEF Init, Held, Off
  <2>2. \A u \in Users : Bucket(Code(u)) \in 0 .. Buckets - 1
    BY BucketInTable, RegisterAssumption
  <2>3. \A u \in Users : ~Has(chain[Bucket(Code(u))], Code(u))
    <3>1. DOMAIN <<>> = {}
      OBVIOUS
    <3>2. \A u \in Users : chain[Bucket(Code(u))] = <<>>
      BY <2>2 DEF Init
    <3> QED BY <3>1, <3>2 DEF Has
  <2>4. Told = [u \in Users |-> None]
    BY <2>3 DEF Told, GetPort
  <2> QED BY <2>1, <2>4 DEF Directory!Init
<1>2. DirectoryInv /\ [Next]_vars => DirectoryInv'
  BY DirectoryInvNext, RegisterAssumption
<1>3. DirectoryInv /\ [Next]_vars => [Directory!Next]_(Directory!dirVars)
  BY StepIsDirectory, RegisterAssumption
<1>4. Init => DirectoryInv
  BY DirectoryInvInit, RegisterAssumption
<1> QED BY <1>1, <1>2, <1>3, <1>4, PTL DEF Spec, ImplementsDirectory, Directory!Spec
=============================================================================
