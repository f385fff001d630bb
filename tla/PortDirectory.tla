---------------------------- MODULE PortDirectory ----------------------------
(***************************************************************************)
(* What the port register of SP/MP4 promises to the programs it serves: a  *)
(* server is handed a port that no server holds, the user it books for is  *)
(* found at that port from then on, and nobody's entry is touched except   *)
(* by a booking of its own user or by a clean-up.                          *)
(***************************************************************************)
CONSTANTS Users, Servers, Ports, None

VARIABLES
  held,    \* of each server the port it has been handed, until it ends
  told     \* of each user the port clients are sent to

dirVars == <<held, told>>

Unheld(p) == \A s \in Servers : held[s] # p

Init ==
  /\ held = [s \in Servers |-> None]
  /\ told = [u \in Users |-> None]

(* A booking.  The server may have gone before the answer is ready: its    *)
(* user is then sent to a port nobody holds until the clean-up.            *)
Give(s, u, p) ==
  /\ held[s] = None /\ Unheld(p)
  /\ held' \in {held, [held EXCEPT ![s] = p]}
  /\ told' = [told EXCEPT ![u] = p]

LetGo(s) ==
  /\ held[s] # None
  /\ held' = [held EXCEPT ![s] = None]
  /\ UNCHANGED told

(* One step of a clean-up.  Users are forgotten together, the ones that    *)
(* share a chain, but never unless a port of theirs is held by nobody.     *)
Forget(W) ==
  /\ \A u \in W : told[u] # None
  /\ \E u \in W : Unheld(told[u])
  /\ told' = [u \in Users |-> IF u \in W THEN None ELSE told[u]]
  /\ UNCHANGED held

Next ==
  \/ \E s \in Servers : LetGo(s) \/ \E u \in Users, p \in Ports : Give(s, u, p)
  \/ \E W \in SUBSET Users : Forget(W)

Spec == Init /\ [][Next]_dirVars
==============================================================================
