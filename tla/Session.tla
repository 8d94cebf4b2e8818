------------------------------ MODULE Session ------------------------------
(***************************************************************************)
(* What vcat promises: a session with one peer at a time, in which every   *)
(* byte the peer sends is shown once, and which is not over before all of  *)
(* them are.                                                               *)
(***************************************************************************)
EXTENDS Naturals

CONSTANTS Peers, Window   \* bytes a peer may have sent and not had shown

VARIABLES open, onWay     \* peers in a session; what each sent, not yet shown

Open(p) == open = {} /\ open' = {p} /\ UNCHANGED onWay

Receive(p, n) ==
  /\ p \in open
  /\ onWay[p] + n <= Window
  /\ onWay' = [onWay EXCEPT ![p] = @ + n]
  /\ UNCHANGED open

Show(p, n) ==
  /\ p \in open
  /\ n <= onWay[p]
  /\ onWay' = [onWay EXCEPT ![p] = @ - n]
  /\ UNCHANGED open

Close(p) == open = {p} /\ onWay[p] = 0 /\ open' = {} /\ UNCHANGED onWay

Init == open = {} /\ onWay = [p \in Peers |-> 0]

Next ==
  \E p \in Peers :
    \/ Open(p) \/ Close(p)
    \/ \E n \in 1..Window : Receive(p, n) \/ Show(p, n)

Spec == Init /\ [][Next]_<<open, onWay>>
=============================================================================
