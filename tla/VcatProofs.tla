----------------------------- MODULE VcatProofs -----------------------------
(***************************************************************************)
(* Proofs about Vcat, for any peers, buffer sizes and bounds.              *)
(*                                                                         *)
(* What vcat promises when it returns rests on what is still on its way.   *)
(* IInv follows one connection from connect to the disconnect: everything  *)
(* in the queue is of the current peer, a disconnect is the last event,    *)
(* and the bytes not yet shown are those in the ring buffer and those in   *)
(* the queue.  The sum over the queue is the last element of a sequence of *)
(* partial sums, which grows and shrinks with the queue.                   *)
(***************************************************************************)
EXTENDS Vcat, TLAPS

IsDisconnect(e) == e.type \in {"Shutdown", "Reset"}

(* No vcat, or one that has yet to connect: nothing is left of the last. *)
Quiet ==
  /\ queue = <<>>
  /\ DOMAIN conns = {}
  /\ \A p \in Peers : host[p] = "idle" /\ unshown[p] = 0

(* acc[i] is what will have been received and not shown after i events. *)
IsBacklog(acc) ==
  /\ acc \in [0..Len(queue) -> 0..CAPACITY]
  /\ acc[0] = conns[peer].buffer
  /\ \A i \in 1..Len(queue) : acc[i] = acc[i - 1] + queue[i].length
  /\ \A i, j \in 0..Len(queue) : i <= j => acc[i] <= acc[j]
  /\ acc[Len(queue)] = unshown[peer]

Backlog == \E acc \in [0..Len(queue) -> 0..CAPACITY] : IsBacklog(acc)

(* The queue of the current connection. *)
QueueOfPeer ==
  /\ \A i \in 1..Len(queue) :
       /\ queue[i].from = peer
       /\ queue[i].type = "Received" <=> queue[i].length > 0
       /\ IsDisconnect(queue[i]) => host[peer] = "idle" /\ i = Len(queue)
  /\ host[peer] = "asked" => queue = <<>>
  /\ host[peer] = "idle" => Len(queue) > 0 /\ IsDisconnect(queue[Len(queue)])

(* The loop of vcat, from connect to the disconnect. *)
Busy ==
  /\ DOMAIN conns = {peer}
  /\ ~conns[peer].closing
  /\ pc = "drain" <=> conns[peer].buffer > 0
  /\ \A p \in Peers \ {peer} : host[p] = "idle" /\ unshown[p] = 0
  /\ QueueOfPeer
  /\ Backlog

IInv ==
  /\ TypeOK
  /\ ConnectionThere
  /\ pc \in {"prompt", "connect"} => Quiet
  /\ pc \in {"send", "poll", "drain"} => Busy

-----------------------------------------------------------------------------
(* Facts about the operators of the model *)

LEMMA MinFact ==
  ASSUME NEW a \in Nat, NEW b \in Nat
  PROVE  /\ Min({a, b}) \in {a, b}
         /\ Min({a, b}) <= a
         /\ Min({a, b}) <= b
<1>1. \E x \in {a, b} : \A y \in {a, b} : x =< y
  <2>1. CASE a <= b  BY <2>1
  <2>2. CASE b <= a  BY <2>2
  <2> QED BY <2>1, <2>2
<1> QED BY <1>1 DEF Min

LEMMA ConnectionOfPeer ==
  ASSUME TypeOK, NEW p \in DOMAIN conns
  PROVE  /\ conns[p] \in Connection
         /\ conns[p].buffer \in 0..CAPACITY
         /\ conns[p].closing \in BOOLEAN
         /\ conns[p].credit \in 0..MAX_CREDIT
<1>1. conns[p] \in Connection
  BY DEF TypeOK, Range
<1> QED BY <1>1 DEF Connection

LEMMA EventOfQueue ==
  ASSUME TypeOK, NEW i \in 1..Len(queue)
  PROVE  /\ queue[i] \in Event
         /\ queue[i].type \in EventTypes
         /\ queue[i].length \in 0..CAPACITY
         /\ queue[i].credit \in 0..MAX_CREDIT
<1>1. queue[i] \in Event
  BY DEF TypeOK
<1> QED BY <1>1 DEF Event

(* A peer that has an event to emit is the one vcat is connected to. *)
LEMMA OnlyPeerTalks ==
  ASSUME IInv, NEW p \in Peers, host[p] # "idle"
  PROVE  p = peer /\ pc \in {"send", "poll", "drain"} /\ Busy
  BY DEF IInv, TypeOK, Quiet, Busy

(* An event that the peer emits is added at the end of the queue. *)
LEMMA EmitIsAppend ==
  ASSUME TypeOK, NEW t \in EventTypes, NEW p \in Peers, NEW n \in 0..CAPACITY,
         Emit(t, p, n)
  PROVE  \E e \in Event :
           /\ e.type = t /\ e.from = p /\ e.length = n
           /\ queue' = Append(queue, e)
  BY DEF Emit, Event

LEMMA AppendFacts ==
  ASSUME TypeOK, NEW e \in Event, queue' = Append(queue, e)
  PROVE  /\ queue' \in Seq(Event)
         /\ Len(queue) \in Nat
         /\ Len(queue') = Len(queue) + 1
         /\ queue'[Len(queue) + 1] = e
         /\ \A i \in 1..Len(queue) : queue'[i] = queue[i]
  BY DEF TypeOK

(* Positions of a queue that grows by one event. *)
LEMMA Positions ==
  ASSUME NEW m \in Nat
  PROVE  /\ m + 1 \in Nat /\ (m + 1) - 1 = m
         /\ m \in 0..m /\ m + 1 \in 0..(m + 1) /\ m + 1 \notin 0..m
         /\ \A i \in 0..m : i <= m /\ i # m + 1 /\ i \in 0..(m + 1)
         /\ \A i \in 0..(m + 1) : i = m + 1 \/ i \in 0..m
         /\ \A i \in 1..(m + 1) : i = m + 1 \/ i \in 1..m
         /\ \A i \in 1..m : i \in 0..m /\ i - 1 \in 0..m
         /\ \A j \in 0..m, i \in 0..(m + 1) : i <= j => i \in 0..m
  OBVIOUS

(* Bytes added to those already there. *)
LEMMA SumGrows ==
  ASSUME NEW cap \in Nat, NEW b \in Nat, NEW l \in 0..cap
  PROVE  /\ b + l <= cap => b + l \in 0..cap
         /\ b + l <= b + l
         /\ \A a \in 0..cap : a <= b => a <= b + l
  OBVIOUS

(* An event of n bytes adds them to the backlog. *)
LEMMA AppendExtendsBacklog ==
  ASSUME TypeOK, VcatAssumption, Backlog, UNCHANGED <<conns, peer>>, peer \in DOMAIN conns,
         NEW e \in Event, queue' = Append(queue, e),
         unshown[peer] + e.length <= CAPACITY,
         unshown'[peer] = unshown[peer] + e.length
  PROVE  Backlog'
<1>1. PICK acc \in [0..Len(queue) -> 0..CAPACITY] : IsBacklog(acc)
  BY DEF Backlog
<1> DEFINE m == Len(queue)
           new == [i \in 0..(m + 1) |-> IF i = m + 1 THEN unshown[peer] + e.length
                                                     ELSE acc[i]]
<1>2. m \in Nat /\ Len(queue') = m + 1 /\ queue'[m + 1] = e
      /\ \A i \in 1..m : queue'[i] = queue[i]
  BY AppendFacts
<1>3. e.length \in 0..CAPACITY /\ CAPACITY \in Nat /\ unshown[peer] \in Nat
  BY VcatAssumption DEF Event, TypeOK
<1>4. \A i \in 0..m : acc[i] \in 0..CAPACITY /\ acc[i] <= acc[m] /\ new[i] = acc[i]
  <2> TAKE i \in 0..m
  <2>1. i <= m /\ i # m + 1 /\ i \in 0..(m + 1) /\ m \in 0..m
    BY <1>2, Positions, Zenon
  <2>2. acc[i] \in 0..CAPACITY
    BY Zenon
  <2>3. acc[i] <= acc[m]
    BY <2>1, <1>1, <1>2, Zenon DEF IsBacklog
  <2> QED BY <2>1, <2>2, <2>3, Zenon
<1>5. new[m + 1] = unshown[peer] + e.length /\ acc[m] = unshown[peer]
  BY <1>1, <1>2, Positions, Zenon DEF IsBacklog
<1>6. new \in [0..Len(queue') -> 0..CAPACITY]
  <2>1. unshown[peer] + e.length \in 0..CAPACITY
    BY <1>3, SumGrows, Zenon
  <2>2. \A i \in 0..(m + 1) : new[i] \in 0..CAPACITY
    BY <1>2, <1>4, <1>5, <2>1, Positions, Zenon
  <2> QED BY <1>2, <2>2, Zenon
<1>7. new[0] = conns'[peer'].buffer
  BY <1>1, <1>2, <1>4 DEF IsBacklog
<1> HIDE DEF new
<1>8. \A i \in 1..Len(queue') : new[i] = new[i - 1] + queue'[i].length
  <2> TAKE i \in 1..Len(queue')
  <2>1. CASE i = m + 1
    <3>1. i - 1 = m /\ queue'[i] = e /\ new[m] = acc[m]
      BY <2>1, <1>2, <1>4, Positions, Zenon
    <3> QED BY <2>1, <3>1, <1>5, Zenon
  <2>2. CASE i \in 1..m
    <3>1. i \in 0..m /\ i - 1 \in 0..m
      BY <2>2, <1>2, Positions, Zenon
    <3>2. acc[i] = acc[i - 1] + queue[i].length /\ queue'[i] = queue[i]
      BY <2>2, <1>1, <1>2, Zenon DEF IsBacklog
    <3>3. new[i] = acc[i] /\ new[i - 1] = acc[i - 1]
      BY <3>1, <1>4, Zenon
    <3> QED BY <3>2, <3>3, Zenon
  <2>3. i = m + 1 \/ i \in 1..m
    BY <1>2, Positions, Zenon
  <2> QED BY <2>1, <2>2, <2>3, Zenon
<1>9. \A i, j \in 0..Len(queue') : i <= j => new[i] <= new[j]
  <2> TAKE i, j \in 0..Len(queue')
  <2> HAVE i <= j
  <2>1. CASE j \in 0..m
    <3>1. i \in 0..m
      BY <2>1, <1>2, Positions, Zenon
    <3>2. acc[i] <= acc[j]
      BY <2>1, <3>1, <1>1, Zenon DEF IsBacklog
    <3> QED BY <2>1, <3>1, <3>2, <1>4, Zenon
  <2>2. CASE j = m + 1 /\ i \in 0..m
    <3>1. new[i] = acc[i] /\ acc[i] <= unshown[peer] /\ acc[i] \in 0..CAPACITY
      BY <2>2, <1>4, <1>5, Zenon
    <3>2. new[j] = unshown[peer] + e.length
      BY <2>2, <1>5, Zenon
    <3>3. acc[i] <= unshown[peer] + e.length
      BY <3>1, <1>3, SumGrows, Zenon
    <3> QED BY <3>1, <3>2, <3>3, Zenon
  <2>3. CASE j = m + 1 /\ i = m + 1
    <3>1. unshown[peer] + e.length <= unshown[peer] + e.length
      BY <1>3, SumGrows, Zenon
    <3> QED BY <2>3, <3>1, <1>5, Zenon
  <2>4. j \in 0..m \/ (j = m + 1 /\ i \in 0..m) \/ (j = m + 1 /\ i = m + 1)
    BY <1>2, Positions, Zenon
  <2> QED BY <2>1, <2>2, <2>3, <2>4, Zenon
<1> QED BY <1>2, <1>5, <1>6, <1>7, <1>8, <1>9, Zenon DEF Backlog, IsBacklog

LEMMA TailFacts ==
  ASSUME TypeOK, queue # <<>>, queue' = Tail(queue)
  PROVE  /\ Len(queue) \in Nat \ {0}
         /\ queue' \in Seq(Event)
         /\ Len(queue') = Len(queue) - 1
         /\ \A i \in 1..Len(queue') : i + 1 \in 1..Len(queue) /\ queue'[i] = queue[i + 1]
         /\ Head(queue) = queue[1]
  BY DEF TypeOK

(* poll moves the first event from the queue to the ring buffer, which has *)
(* room for it.                                                            *)
LEMMA PollShiftsBacklog ==
  ASSUME TypeOK, Backlog, queue # <<>>, queue' = Tail(queue), UNCHANGED <<peer, unshown>>
  PROVE  /\ conns[peer].buffer + queue[1].length \in 0..CAPACITY
         /\ conns'[peer].buffer = conns[peer].buffer + queue[1].length => Backlog'
<1>1. PICK acc \in [0..Len(queue) -> 0..CAPACITY] : IsBacklog(acc)
  BY DEF Backlog
<1> DEFINE m == Len(queue)
           new == [i \in 0..(m - 1) |-> acc[i + 1]]
<1>2. m \in Nat \ {0} /\ Len(queue') = m - 1
      /\ \A i \in 1..(m - 1) : i + 1 \in 1..m /\ queue'[i] = queue[i + 1]
  BY TailFacts
<1>3. \A i \in 0..(m - 1) : i + 1 \in 0..m /\ new[i] = acc[i + 1] /\ new[i] \in 0..CAPACITY
  BY <1>2
<1>4. acc[1] = conns[peer].buffer + queue[1].length
  <2>1. 1 \in 1..m /\ 1 - 1 = 0
    BY <1>2
  <2> QED BY <1>1, <2>1 DEF IsBacklog
<1>5. new \in [0..Len(queue') -> 0..CAPACITY] /\ acc[1] \in 0..CAPACITY /\ new[0] = acc[1]
  BY <1>2, <1>3
<1> HIDE DEF new
<1>6. \A i \in 1..(m - 1) : new[i] = new[i - 1] + queue'[i].length
  <2> TAKE i \in 1..(m - 1)
  <2>1. i \in 0..(m - 1) /\ i - 1 \in 0..(m - 1) /\ (i - 1) + 1 = i /\ (i + 1) - 1 = i
        /\ i + 1 \in 1..m
    BY <1>2
  <2>2. acc[i + 1] = acc[i] + queue[i + 1].length
    BY <1>1, <2>1 DEF IsBacklog
  <2> QED BY <2>1, <2>2, <1>2, <1>3
<1>7. \A i, j \in 0..(m - 1) : i <= j => new[i] <= new[j]
  <2> TAKE i, j \in 0..(m - 1)
  <2> HAVE i <= j
  <2>1. i + 1 \in 0..m /\ j + 1 \in 0..m /\ i + 1 <= j + 1
    BY <1>2
  <2>2. acc[i + 1] <= acc[j + 1]
    BY <2>1, <1>1, Zenon DEF IsBacklog
  <2> QED BY <2>2, <1>3, Zenon
<1>8. new[m - 1] = unshown[peer]
  <2>1. m - 1 \in 0..(m - 1) /\ (m - 1) + 1 = m
    BY <1>2
  <2> QED BY <2>1, <1>1, <1>3 DEF IsBacklog
<1>9. ASSUME conns'[peer].buffer = conns[peer].buffer + queue[1].length PROVE Backlog'
  BY <1>9, <1>2, <1>4, <1>5, <1>6, <1>7, <1>8, Zenon DEF Backlog, IsBacklog
<1> QED BY <1>4, <1>5, <1>9

(* What drain writes to the console leaves the ring buffer. *)
LEMMA DrainLowersBacklog ==
  ASSUME TypeOK, Backlog, UNCHANGED <<peer, queue>>, NEW n \in Nat, n <= conns[peer].buffer,
         conns'[peer].buffer = conns[peer].buffer - n,
         unshown'[peer] = unshown[peer] - n
  PROVE  Backlog' /\ unshown[peer] - n \in Nat
<1>1. PICK acc \in [0..Len(queue) -> 0..CAPACITY] : IsBacklog(acc)
  BY DEF Backlog
<1> DEFINE m == Len(queue)
           new == [i \in 0..m |-> acc[i] - n]
<1>2. m \in Nat /\ CAPACITY \in Nat
  BY VcatAssumption DEF TypeOK
<1>3. \A i \in 0..m : acc[i] \in 0..CAPACITY /\ acc[0] <= acc[i] /\ n <= acc[i]
  <2> TAKE i \in 0..m
  <2>1. 0 \in 0..m /\ 0 <= i
    BY <1>2
  <2>2. acc[i] \in 0..CAPACITY /\ acc[0] \in 0..CAPACITY
    BY <2>1
  <2>3. acc[0] <= acc[i] /\ acc[0] = conns[peer].buffer
    BY <2>1, <1>1 DEF IsBacklog
  <2> QED BY <2>2, <2>3, <1>2
<1>4. \A i \in 0..m : new[i] = acc[i] - n /\ new[i] \in 0..CAPACITY
  BY <1>2, <1>3
<1>5. new \in [0..m -> 0..CAPACITY]
  BY <1>4
<1> HIDE DEF new
<1>6. \A i \in 1..m : new[i] = new[i - 1] + queue[i].length
  <2> TAKE i \in 1..m
  <2>1. i \in 0..m /\ i - 1 \in 0..m
    BY <1>2
  <2>2. acc[i] = acc[i - 1] + queue[i].length /\ queue[i].length \in 0..CAPACITY
    BY <1>1, EventOfQueue DEF IsBacklog
  <2>3. new[i] = acc[i] - n /\ new[i - 1] = acc[i - 1] - n
        /\ acc[i] \in Nat /\ acc[i - 1] \in Nat /\ queue[i].length \in Nat
    <3>1. new[i] = acc[i] - n /\ new[i - 1] = acc[i - 1] - n
      BY <2>1, <1>4
    <3>2. acc[i] \in 0..CAPACITY /\ acc[i - 1] \in 0..CAPACITY
      BY <2>1
    <3> QED BY <2>2, <3>1, <3>2, <1>2
  <2> QED BY <2>2, <2>3, SMTT(30)
<1>7. \A i, j \in 0..m : i <= j => new[i] <= new[j]
  <2> TAKE i, j \in 0..m
  <2> HAVE i <= j
  <2>1. acc[i] <= acc[j]
    BY <1>1 DEF IsBacklog
  <2>2. new[i] = acc[i] - n /\ new[j] = acc[j] - n /\ acc[i] \in Nat /\ acc[j] \in Nat
    BY <1>2, <1>3, <1>4
  <2> QED BY <2>1, <2>2
<1>8. m \in 0..m /\ 0 \in 0..m
  BY <1>2
<1>9. new[m] = unshown'[peer'] /\ new[0] = conns'[peer'].buffer /\ new[m] \in Nat
  BY <1>1, <1>2, <1>4, <1>8 DEF IsBacklog
<1> QED BY <1>5, <1>6, <1>7, <1>9, Zenon DEF Backlog, IsBacklog

LEMMA BacklogBounded ==
  ASSUME TypeOK, Backlog
  PROVE  unshown[peer] \in 0..CAPACITY
<1>1. PICK acc \in [0..Len(queue) -> 0..CAPACITY] : IsBacklog(acc)
  BY DEF Backlog
<1>2. Len(queue) \in 0..Len(queue)
  BY DEF TypeOK
<1> QED BY <1>1, <1>2 DEF IsBacklog

-----------------------------------------------------------------------------
(* The steps *)

(* An event of a peer that has not disconnected: a disconnect is the last  *)
(* one, and bytes are added to the backlog.                                *)
LEMMA EmitKeepsIInv ==
  ASSUME IInv, NEW p \in Peers, host[p] # "idle",
         NEW e \in Event, e.from = p, queue' = Append(queue, e),
         e.type = "Received" <=> e.length > 0,
         UNCHANGED <<pc, failure, peer, conns, typed>>,
         host' \in [Peers -> {"idle", "open"}],
         IsDisconnect(e) <=> host'[p] = "idle",
         unshown' \in [Peers -> Nat],
         unshown'[p] = unshown[p] + e.length,
         unshown[p] + e.length <= CAPACITY,
         \A q \in Peers \ {p} : host'[q] = host[q] /\ unshown'[q] = unshown[q]
  PROVE  IInv'
<1>1. p = peer /\ pc \in {"send", "poll", "drain"} /\ Busy
  BY OnlyPeerTalks
<1>2. TypeOK
  BY DEF IInv
<1>3. /\ queue' \in Seq(Event)
      /\ Len(queue) \in Nat
      /\ Len(queue') = Len(queue) + 1
      /\ queue'[Len(queue) + 1] = e
      /\ \A i \in 1..Len(queue) : queue'[i] = queue[i]
  BY <1>2, AppendFacts
<1>4. TypeOK'
  BY <1>2, <1>3 DEF TypeOK
<1>5. Backlog'
  BY <1>1, <1>2, VcatAssumption, AppendExtendsBacklog, Zenon DEF Busy
<1>6. QueueOfPeer'
  <2>1. ASSUME NEW i \in 1..Len(queue')
        PROVE  /\ queue'[i].from = peer
               /\ queue'[i].type = "Received" <=> queue'[i].length > 0
               /\ IsDisconnect(queue'[i]) => host'[peer] = "idle" /\ i = Len(queue')
    <3>1. CASE i = Len(queue) + 1
      BY <3>1, <1>1, <1>3, Zenon
    <3>2. CASE i \in 1..Len(queue)
      <4>1. ~IsDisconnect(queue[i])
        BY <3>2, <1>1 DEF Busy, QueueOfPeer
      <4>2. queue'[i] = queue[i]
        BY <3>2, <1>3
      <4> QED BY <3>2, <4>1, <4>2, <1>1, ZenonT(30) DEF Busy, QueueOfPeer
    <3> QED BY <3>1, <3>2, <1>3
  <2>2. host'[peer] # "asked"
    BY <1>1
  <2>3. host'[peer] = "idle" => Len(queue') > 0 /\ IsDisconnect(queue'[Len(queue')])
    BY <1>1, <1>3
  <2>4. peer' = peer
    OBVIOUS
  <2> HIDE DEF IsDisconnect
  <2> QED BY <2>1, <2>2, <2>3, <2>4 DEF QueueOfPeer, IsDisconnect
<1>7. Busy'
  BY <1>1, <1>5, <1>6, Zenon DEF Busy
<1> QED BY <1>1, <1>4, <1>7, Zenon DEF IInv, ConnectionThere

LEMMA PeerActionsKeepIInv ==
  ASSUME IInv, NEW p \in Peers,
         PeerSends(p) \/ PeerAccepts(p) \/ PeerCloses(p) \/ PeerTalks(p)
  PROVE  IInv'
<1>1. TypeOK
  BY DEF IInv
<1>2. CAPACITY \in Nat /\ 0 \in 0..CAPACITY /\ host[p] \in {"idle", "asked", "open"}
      /\ unshown[p] \in Nat
  BY <1>1, VcatAssumption DEF TypeOK
<1>3. host[p] # "idle"
  BY DEF PeerSends, PeerAccepts, PeerCloses, PeerTalks
<1>4. p = peer /\ Busy
  BY <1>3, OnlyPeerTalks
<1>5. unshown[p] \in 0..CAPACITY
  BY <1>1, <1>4, BacklogBounded DEF Busy
<1>6. \A q \in Peers : q # p => host[q] = "idle"
  BY <1>4 DEF Busy
<1>7. CASE PeerSends(p)
  <2>1. PICK n \in 1..(CAPACITY - unshown[p]) :
          Emit("Received", p, n) /\ unshown' = [unshown EXCEPT ![p] = @ + n]
    BY <1>7, Zenon DEF PeerSends
  <2>2. n \in 0..CAPACITY /\ n > 0 /\ unshown[p] + n <= CAPACITY
    BY <2>1, <1>2, <1>5
  <2>3. PICK e \in Event : /\ e.type = "Received" /\ e.from = p /\ e.length = n
                           /\ queue' = Append(queue, e)
    BY <1>1, <2>1, <2>2, EmitIsAppend DEF EventTypes
  <2>4. unshown' \in [Peers -> Nat] /\ unshown'[p] = unshown[p] + e.length
        /\ \A q \in Peers \ {p} : unshown'[q] = unshown[q]
    BY <1>1, <2>1, <2>2, <2>3 DEF TypeOK
  <2>5. host' = host /\ host \in [Peers -> {"idle", "open"}] /\ host'[p] = "open"
    BY <1>1, <1>6, <1>7, SMTT(30) DEF PeerSends, TypeOK
  <2>6. ~IsDisconnect(e)
    BY <2>3 DEF IsDisconnect
  <2>7. UNCHANGED <<pc, failure, peer, conns, typed>>
    BY <1>7 DEF PeerSends
  <2> QED BY <1>3, <2>2, <2>3, <2>4, <2>5, <2>6, <2>7, EmitKeepsIInv
<1>8. ASSUME UNCHANGED <<pc, failure, peer, conns, typed, unshown>>,
             NEW t \in EventTypes \ {"Received"}, Emit(t, p, 0),
             NEW h \in {"idle", "open"}, host' = [host EXCEPT ![p] = h],
             t \in {"Shutdown", "Reset"} <=> h = "idle"
      PROVE  IInv'
  <2>1. PICK e \in Event : /\ e.type = t /\ e.from = p /\ e.length = 0
                           /\ queue' = Append(queue, e)
    BY <1>1, <1>2, <1>8, EmitIsAppend
  <2>2. unshown' \in [Peers -> Nat] /\ unshown'[p] = unshown[p] + e.length
        /\ unshown[p] + e.length <= CAPACITY
    BY <1>1, <1>2, <1>5, <1>8, <2>1 DEF TypeOK
  <2>3. host' \in [Peers -> {"idle", "open"}] /\ host'[p] = h
        /\ \A q \in Peers \ {p} : host'[q] = host[q]
    BY <1>1, <1>6, <1>8 DEF TypeOK
  <2>4. IsDisconnect(e) <=> h = "idle"
    BY <1>8, <2>1 DEF IsDisconnect
  <2>5. e.type = "Received" <=> e.length > 0
    BY <2>1
  <2> QED BY <1>3, <1>8, <2>1, <2>2, <2>3, <2>4, <2>5, EmitKeepsIInv, Zenon
<1>9. CASE PeerAccepts(p)
  BY <1>8, <1>9 DEF PeerAccepts, EventTypes
<1>10. CASE PeerCloses(p)
  BY <1>8, <1>10 DEF PeerCloses, EventTypes
<1>11. CASE PeerTalks(p)
  <2>1. host[p] = "open" /\ host' = [host EXCEPT ![p] = "open"]
    BY <1>1, <1>11 DEF PeerTalks, TypeOK
  <2> QED BY <1>8, <1>11, <2>1, Zenon DEF PeerTalks, EventTypes
<1> QED BY <1>7, <1>9, <1>10, <1>11

LEMMA TypeKeepsIInv == IInv /\ Type => IInv'
<1> SUFFICES ASSUME IInv, Type PROVE IInv'
  OBVIOUS
<1>1. TypeOK'
  BY VcatAssumption, SMTT(30) DEF IInv, TypeOK, Type
<1> QED BY <1>1 DEF IInv, Type, ConnectionThere, Quiet, Busy, QueueOfPeer, Backlog, IsBacklog

LEMMA VcatKeepsIInv ==
  ASSUME IInv, NEW n \in 0..(MAX_ARGS + 1), NEW p \in Peers, vcat(n, p)
  PROVE  IInv'
<1>1. TypeOK'
  BY DEF IInv, TypeOK, vcat, At, Unwrap
<1>2. ConnectionThere' /\ pc' \in {"prompt", "connect"} /\ Quiet
  BY DEF IInv, vcat, At, Unwrap, ConnectionThere
<1>3. Quiet'
  BY <1>2 DEF vcat, Quiet
<1> QED BY <1>1, <1>2, <1>3 DEF IInv

LEMMA ConnectKeepsIInv == IInv /\ connect => IInv'
<1> SUFFICES ASSUME IInv, connect PROVE IInv'
  OBVIOUS
<1>1. TypeOK /\ Quiet /\ CAPACITY \in Nat /\ MAX_CREDIT \in Nat /\ peer \in Peers
  BY VcatAssumption, Zenon DEF IInv, connect, At, TypeOK
<1> DEFINE fresh == [buffer |-> 0, closing |-> FALSE, credit |-> 0]
<1>2. /\ conns' = [p \in {peer} |-> fresh]
      /\ host' = [host EXCEPT ![peer] = "asked"]
      /\ pc' = "send"
      /\ UNCHANGED <<failure, peer, queue, typed, unshown>>
  <2>1. peer \notin DOMAIN conns /\ DOMAIN conns \union {peer} = {peer}
    BY <1>1 DEF Quiet
  <2>2. conns' = [p \in DOMAIN conns \union {peer} |-> IF p = peer THEN fresh ELSE conns[p]]
    BY <2>1 DEF connect
  <2> QED BY <2>1, <2>2 DEF connect
<1>3. fresh \in Connection /\ conns'[peer] = fresh /\ DOMAIN conns' = {peer}
  BY <1>1, <1>2 DEF Connection
<1>4. TypeOK'
  BY <1>1, <1>2, <1>3, Zenon DEF TypeOK, Range
<1>5. QueueOfPeer'
  BY <1>1, <1>2 DEF QueueOfPeer, Quiet, TypeOK
<1>6. Backlog'
  <2>1. Len(queue') = 0 /\ unshown'[peer'] = 0
    BY <1>1, <1>2 DEF Quiet
  <2> DEFINE acc == [i \in 0..0 |-> 0]
  <2>2. acc \in [0..Len(queue') -> 0..CAPACITY] /\ acc[0] = 0
    BY <1>1, <2>1
  <2> HIDE DEF acc
  <2>3. acc[0] = conns'[peer'].buffer
    BY <1>2, <1>3, <2>2
  <2> QED BY <2>1, <2>2, <2>3 DEF Backlog, IsBacklog
<1>7. Busy'
  BY <1>1, <1>2, <1>3, <1>5, <1>6 DEF Busy, Quiet, TypeOK
<1> QED BY <1>2, <1>4, <1>7, Zenon DEF IInv, ConnectionThere

(* A send changes the credit and nothing else of the connection. *)
LEMMA SendKeepsIInv == IInv /\ send => IInv'
<1> SUFFICES ASSUME IInv, send PROVE IInv'
  OBVIOUS
<1>1. TypeOK /\ Busy /\ pc = "send" /\ failure = "none" /\ UNCHANGED <<peer, queue, host, unshown>>
  BY DEF IInv, send, At
<1>2. peer \in DOMAIN conns /\ conns[peer] \in Connection
      /\ conns[peer].credit \in 0..MAX_CREDIT /\ conns[peer].buffer \in 0..CAPACITY
  BY <1>1, ConnectionOfPeer DEF Busy
<1>3. conns[peer].buffer = 0
  BY <1>1, <1>2, VcatAssumption DEF Busy
<1>4. ASSUME DOMAIN conns' = {peer}, conns'[peer] \in Connection,
             conns'[peer].buffer = conns[peer].buffer,
             conns'[peer].closing = conns[peer].closing,
             pc' \in {"send", "poll"}, failure' \in {"none", "no_credit"},
             typed' \in 0..MAX_TYPED
      PROVE  IInv'
  <2>1. TypeOK'
    BY <1>1, <1>4 DEF TypeOK, Range
  <2>2. Busy'
    BY <1>1, <1>3, <1>4, SMTT(30) DEF Busy, QueueOfPeer, Backlog, IsBacklog
  <2> QED BY <1>4, <2>1, <2>2 DEF IInv, ConnectionThere
<1>5. CASE Idle
  BY <1>1, <1>2, <1>4, <1>5 DEF send, TypeOK, Busy
<1>6. CASE ~Idle
  <2>1. typed \in Nat /\ SEND_BUFFER \in Nat /\ MAX_CREDIT \in Nat /\ MAX_TYPED \in Nat
    BY <1>1, VcatAssumption DEF TypeOK
  <2>2. PICK n \in 1..Min({typed, SEND_BUFFER}) :
          /\ typed' = typed - n
          /\ IF conns[peer].credit < n
             THEN Unwrap("no_credit") /\ UNCHANGED conns
             ELSE /\ conns' = [conns EXCEPT ![peer].credit = @ - n]
                  /\ pc' = "poll"
                  /\ UNCHANGED failure
    BY <1>2, <1>6 DEF send
  <2>3. n \in Nat /\ n <= typed /\ typed' \in 0..MAX_TYPED
    <3>1. Min({typed, SEND_BUFFER}) \in Nat /\ Min({typed, SEND_BUFFER}) <= typed
      BY <2>1, MinFact
    <3> QED BY <1>1, <2>1, <2>2, <3>1 DEF TypeOK
  <2>4. CASE conns[peer].credit < n
    BY <1>1, <1>2, <1>4, <2>2, <2>3, <2>4 DEF Unwrap, Busy
  <2>5. CASE ~(conns[peer].credit < n)
    <3>1. conns' = [conns EXCEPT ![peer].credit = @ - n] /\ pc' = "poll" /\ UNCHANGED failure
      BY <2>2, <2>5
    <3>2. conns[peer].credit - n \in 0..MAX_CREDIT
      BY <1>2, <2>1, <2>3, <2>5
    <3>3. conns'[peer] = [conns[peer] EXCEPT !.credit = conns[peer].credit - n]
      BY <1>2, <3>1
    <3>4. conns'[peer] \in Connection /\ DOMAIN conns' = {peer}
          /\ conns'[peer].buffer = conns[peer].buffer
          /\ conns'[peer].closing = conns[peer].closing
      BY <1>1, <1>2, <3>1, <3>2, <3>3 DEF Connection, Busy
    <3> QED BY <1>1, <1>4, <2>3, <3>1, <3>4
  <2> QED BY <2>4, <2>5
<1> QED BY <1>5, <1>6

(* A disconnect ends the connection at once, since it finds the ring       *)
(* buffer empty and the queue ends with it; any other event leaves it      *)
(* open.                                                                   *)
LEMMA PollKeepsIInv == IInv /\ poll => IInv'
<1> SUFFICES ASSUME IInv, poll PROVE IInv'
  OBVIOUS
<1>1. TypeOK /\ Busy /\ pc = "poll" /\ UNCHANGED <<failure, peer, host, typed, unshown>>
  BY DEF IInv, poll, At
<1>2. peer \in DOMAIN conns /\ DOMAIN conns = {peer} /\ conns[peer] \in Connection
      /\ conns[peer].buffer \in 0..CAPACITY /\ ~conns[peer].closing
  BY <1>1, ConnectionOfPeer DEF Busy
<1>3. conns[peer].buffer = 0 /\ CAPACITY \in Nat
  BY <1>1, <1>2, VcatAssumption DEF Busy
<1>4. CASE queue = <<>>
  <2>1. pc' = "send" /\ UNCHANGED <<conns, queue>>
    BY <1>4 DEF poll
  <2>2. TypeOK'
    BY <1>1, <2>1, Zenon DEF TypeOK
  <2>3. QueueOfPeer' /\ Backlog'
    BY <1>1, <2>1, Zenon DEF Busy, QueueOfPeer, Backlog, IsBacklog
  <2>4. Busy'
    BY <1>1, <1>3, <2>1, <2>3 DEF Busy
  <2> QED BY <1>1, <2>1, <2>2, <2>4 DEF IInv, ConnectionThere
<1>5. CASE queue # <<>>
  <2> DEFINE e == queue[1]
             c == [conns[peer] EXCEPT !.credit = e.credit, !.buffer = @ + e.length]
             d == [c EXCEPT !.closing = e.type \in {"Shutdown", "Reset"}]
  <2>1. /\ queue' = Tail(queue)
        /\ Polled(Head(queue))
        /\ pc' = IF Head(queue).from \in DOMAIN conns /\ Head(queue).from = peer
                 THEN Handled(Head(queue)) ELSE "send"
    BY <1>5 DEF poll
  <2>2. /\ Len(queue) \in Nat \ {0}
        /\ queue' \in Seq(Event)
        /\ Len(queue') = Len(queue) - 1
        /\ \A i \in 1..Len(queue') : i + 1 \in 1..Len(queue) /\ queue'[i] = queue[i + 1]
        /\ Head(queue) = e
    BY <1>1, <1>5, <2>1, TailFacts
  <2>3. 1 \in 1..Len(queue)
    BY <2>2
  <2>4. /\ e.from = peer
        /\ e.type = "Received" <=> e.length > 0
        /\ IsDisconnect(e) => host[peer] = "idle" /\ Len(queue) = 1
    BY <1>1, <2>3, Zenon DEF Busy, QueueOfPeer
  <2>5. e.type \in EventTypes /\ e.length \in 0..CAPACITY /\ e.credit \in 0..MAX_CREDIT
    BY <1>1, <2>3, EventOfQueue
  <2>6. pc' = Handled(e) /\ Polled(e)
    BY <1>2, <2>1, <2>2, <2>4
  <2>7. conns[peer].buffer + e.length \in 0..CAPACITY
    BY <1>1, <1>5, <2>1, PollShiftsBacklog DEF Busy
  <2>8. c.buffer = conns[peer].buffer + e.length /\ c \in Connection
    BY <1>2, <2>5, <2>7, Zenon DEF Connection
  <2>9. CASE IsDisconnect(e)
    <3>1. e.length = 0 /\ c.buffer = 0
      BY <1>3, <2>4, <2>5, <2>8, <2>9 DEF IsDisconnect
    <3>2. conns' = Restrict(conns, DOMAIN conns \ {peer})
      BY <1>2, <2>4, <2>6, <2>9, <3>1 DEF Polled, Forget, IsDisconnect
    <3>3. DOMAIN conns' = {} /\ Range(conns') = {}
      BY <1>2, <3>2 DEF Restrict, Range
    <3>4. pc' = "prompt"
      BY <2>6, <2>9 DEF Handled, IsDisconnect
    <3>5. queue' = <<>>
      <4>1. Len(queue) = 1
        BY <2>4, <2>9
      <4>2. Len(queue') = 0
        BY <2>2, <4>1
      <4> QED BY <2>2, <4>2
    <3>6. unshown[peer] = 0
      <4>1. PICK acc \in [0..Len(queue) -> 0..CAPACITY] : IsBacklog(acc)
        BY <1>1, Zenon DEF Busy, Backlog
      <4>2. Len(queue) = 1 /\ acc[1] = acc[1 - 1] + e.length
        BY <2>3, <2>4, <2>9, <4>1, Zenon DEF IsBacklog
      <4> QED BY <1>3, <3>1, <4>1, <4>2 DEF IsBacklog
    <3>7. Quiet'
      BY <1>1, <2>4, <2>9, <3>3, <3>5, <3>6, Zenon DEF Quiet, Busy
    <3>8. TypeOK'
      BY <1>1, <2>2, <3>3, <3>4, Zenon DEF TypeOK
    <3> QED BY <1>1, <3>4, <3>7, <3>8 DEF IInv, ConnectionThere
  <2>10. CASE ~IsDisconnect(e)
    <3>1. conns' = [conns EXCEPT ![peer] = d] /\ d = [c EXCEPT !.closing = FALSE]
      <4>1. (e.type \in {"Shutdown", "Reset"}) = FALSE
        BY <2>10 DEF IsDisconnect
      <4>2. conns' = [conns EXCEPT ![peer] = d]
        BY <1>2, <2>4, <2>6, <4>1 DEF Polled
      <4> QED BY <4>1, <4>2, Zenon
    <3> HIDE DEF c, d
    <3>2. d \in Connection /\ d.buffer = c.buffer /\ ~d.closing
      BY <2>8, <3>1, Zenon DEF Connection
    <3>3. DOMAIN conns' = {peer} /\ conns'[peer] = d
      BY <1>2, <3>1
    <3>4. Backlog'
      BY <1>1, <1>5, <2>1, <2>8, <3>2, <3>3, PollShiftsBacklog DEF Busy
    <3>5. pc' = (IF e.type = "Received" THEN "drain" ELSE "send")
      BY <2>6, <2>10, Zenon DEF Handled, IsDisconnect
    <3>6. pc' = "drain" <=> conns'[peer].buffer > 0
      BY <1>3, <2>4, <2>5, <2>8, <3>2, <3>3, <3>5
    <3>7. TypeOK'
      BY <1>1, <2>2, <3>2, <3>3, <3>5, Zenon DEF TypeOK, Range
    <3>8. QueueOfPeer'
      <4>1. ASSUME NEW i \in 1..Len(queue')
            PROVE  /\ queue'[i].from = peer
                   /\ queue'[i].type = "Received" <=> queue'[i].length > 0
                   /\ IsDisconnect(queue'[i]) => host[peer] = "idle" /\ i = Len(queue')
        <5>1. i + 1 \in 1..Len(queue) /\ queue'[i] = queue[i + 1]
          BY <2>2, Zenon
        <5> QED BY <1>1, <2>2, <5>1 DEF Busy, QueueOfPeer
      <4>2. host[peer] # "asked"
        BY <1>1, <1>5 DEF Busy, QueueOfPeer
      <4>3. host[peer] = "idle" => Len(queue') > 0 /\ IsDisconnect(queue'[Len(queue')])
        <5> HAVE host[peer] = "idle"
        <5>1. IsDisconnect(queue[Len(queue)])
          BY <1>1 DEF Busy, QueueOfPeer
        <5>2. Len(queue) # 1
          BY <2>10, <5>1, Zenon
        <5>3. Len(queue') \in 1..Len(queue') /\ Len(queue') + 1 = Len(queue)
          BY <2>2, <5>2
        <5> QED BY <2>2, <5>1, <5>3
      <4> QED BY <1>1, <4>1, <4>2, <4>3, Zenon DEF QueueOfPeer, IsDisconnect
    <3>9. Busy'
      BY <1>1, <3>2, <3>3, <3>4, <3>6, <3>8 DEF Busy
    <3> QED BY <1>1, <3>5, <3>7, <3>9 DEF IInv, ConnectionThere
  <2> QED BY <2>9, <2>10
<1> QED BY <1>4, <1>5

(* drain shows what it takes from the ring buffer, and goes on until that  *)
(* is empty: the connection it reads is not one that waits to be closed.   *)
LEMMA DrainKeepsIInv == IInv /\ drain => IInv'
<1> SUFFICES ASSUME IInv, drain PROVE IInv'
  OBVIOUS
<1> DEFINE n == Min({conns[peer].buffer, RECV_BUFFER})
           c == [conns[peer] EXCEPT !.buffer = @ - n]
<1>1. TypeOK /\ Busy /\ pc = "drain" /\ UNCHANGED <<peer, queue, host, typed>>
  BY Zenon DEF IInv, drain, At
<1>2. peer \in DOMAIN conns /\ DOMAIN conns = {peer} /\ conns[peer] \in Connection
      /\ conns[peer].buffer \in 0..CAPACITY /\ ~conns[peer].closing
  BY <1>1, ConnectionOfPeer DEF Busy
<1>3. CAPACITY \in Nat /\ RECV_BUFFER \in Nat /\ conns[peer].buffer \in Nat
  BY <1>2, VcatAssumption
<1>4. n \in Nat /\ n <= conns[peer].buffer
  BY <1>3, MinFact
<1>5. /\ ~c.closing => /\ conns' = [conns EXCEPT ![peer] = c]
                       /\ pc' = Again(c) /\ UNCHANGED failure
      /\ unshown' = [unshown EXCEPT ![peer] = @ - n]
  BY Zenon DEF drain, Written
<1> HIDE DEF n
<1>6. c.buffer = conns[peer].buffer - n /\ c.buffer \in 0..CAPACITY
  BY <1>2, <1>3, <1>4 DEF Connection
<1>7. c \in Connection /\ c.closing = conns[peer].closing
  BY <1>2, <1>6 DEF Connection
<1> HIDE DEF c
<1>8. conns' = [conns EXCEPT ![peer] = c] /\ pc' = Again(c) /\ UNCHANGED failure
  BY <1>2, <1>5, <1>7
<1>9. DOMAIN conns' = {peer} /\ conns'[peer] = c
  BY <1>2, <1>8
<1>10. unshown'[peer] = unshown[peer] - n
       /\ \A p \in Peers \ {peer} : unshown'[p] = unshown[p]
  BY <1>1, <1>5 DEF TypeOK
<1>11. Backlog' /\ unshown[peer] - n \in Nat
  BY <1>1, <1>4, <1>6, <1>9, <1>10, DrainLowersBacklog DEF Busy
<1>12. pc' \in {"drain", "send"} /\ (pc' = "drain" <=> c.buffer > 0)
  BY <1>8 DEF Again
<1>13. TypeOK'
  BY <1>1, <1>5, <1>7, <1>8, <1>9, <1>11, <1>12 DEF TypeOK, Range
<1>14. QueueOfPeer'
  BY <1>1 DEF Busy, QueueOfPeer
<1>15. Busy'
  BY <1>1, <1>2, <1>7, <1>9, <1>10, <1>11, <1>12, <1>14 DEF Busy
<1> QED BY <1>1, <1>8, <1>12, <1>13, <1>15 DEF IInv, ConnectionThere

-----------------------------------------------------------------------------
(* The theorems *)

LEMMA InitIInv == Init => IInv
<1> SUFFICES ASSUME Init PROVE IInv
  OBVIOUS
<1>1. DOMAIN conns = {} /\ Range(conns) = {}
  BY Zenon DEF Init, Range
<1>2. TypeOK
  BY <1>1, VcatAssumption DEF Init, TypeOK
<1> QED BY <1>1, <1>2 DEF Init, IInv, ConnectionThere, Quiet

LEMMA NextKeepsIInv == IInv /\ [Next]_vars => IInv'
<1> SUFFICES ASSUME IInv, [Next]_vars PROVE IInv'
  OBVIOUS
<1>1. CASE UNCHANGED vars
  <2>1. TypeOK' /\ ConnectionThere'
    BY <1>1 DEF IInv, TypeOK, ConnectionThere, vars
  <2>2. Quiet => Quiet'
    BY <1>1, Zenon DEF Quiet, vars
  <2>3. Busy => Busy'
    BY <1>1, SMTT(30) DEF Busy, QueueOfPeer, Backlog, IsBacklog, vars
  <2>4. pc' = pc
    BY <1>1 DEF vars
  <2> QED BY <2>1, <2>2, <2>3, <2>4, Zenon DEF IInv
<1>2. ASSUME NEW p \in Peers, NEW n \in 0..(MAX_ARGS + 1), vcat(n, p) PROVE IInv'
  BY <1>2, VcatKeepsIInv
<1>3. ASSUME NEW p \in Peers,
             PeerAccepts(p) \/ PeerSends(p) \/ PeerCloses(p) \/ PeerTalks(p)
      PROVE  IInv'
  BY <1>3, PeerActionsKeepIInv
<1> QED BY <1>1, <1>2, <1>3, TypeKeepsIInv, ConnectKeepsIInv, SendKeepsIInv,
           PollKeepsIInv, DrainKeepsIInv DEF Next

LEMMA AlwaysIInv == Spec => []IInv
  BY InitIInv, NextKeepsIInv, PTL DEF Spec

(* Type correctness.  A ring buffer never holds more than its capacity: a  *)
(* peer that keeps to the credit it was given finds room in it.            *)
THEOREM VcatTypeCorrect == Spec => []TypeOK
<1>1. IInv => TypeOK
  BY DEF IInv
<1> QED BY <1>1, AlwaysIInv, PTL

(* When vcat has returned to the prompt, its connection is gone from the   *)
(* manager, whichever event made it return.                                *)
THEOREM VcatLeavesNoConnection == Spec => []NoConnectionLeft
<1>1. IInv => NoConnectionLeft
  BY DEF IInv, Quiet, NoConnectionLeft
<1> QED BY <1>1, AlwaysIInv, PTL

(* When vcat has returned to the prompt, every byte that a peer sent was   *)
(* written to the console, however the data was cut into events and into   *)
(* reads of the ring buffer.                                               *)
THEOREM VcatShowsAll == Spec => []AllShown
<1>1. IInv => AllShown
  BY DEF IInv, Quiet, AllShown
<1> QED BY <1>1, AlwaysIInv, PTL

(* The unwraps of connect, send and recv never fail for a connection that  *)
(* exists already or that is not there.                                    *)
THEOREM VcatFindsConnection == Spec => []ConnectionThere
<1>1. IInv => ConnectionThere
  BY DEF IInv
<1> QED BY <1>1, AlwaysIInv, PTL

(* Steps that neither connect, return, receive nor show. *)
LEMMA SessionStutters ==
  ASSUME IInv,
         \/ Type \/ send
         \/ \E p \in Peers : \/ \E n \in 0..(MAX_ARGS + 1) : vcat(n, p)
                             \/ PeerAccepts(p) \/ PeerCloses(p) \/ PeerTalks(p)
  PROVE  UNCHANGED <<Connected, unshown>>
<1>1. CASE Type \/ \E p \in Peers : PeerAccepts(p) \/ PeerCloses(p) \/ PeerTalks(p)
  BY <1>1, Zenon DEF Type, PeerAccepts, PeerCloses, PeerTalks, Connected
<1>2. CASE send
  <2>1. pc = "send" /\ pc' \in {"send", "poll"} /\ UNCHANGED <<peer, unshown>>
    BY <1>2, Zenon DEF send, At, Unwrap
  <2> QED BY <2>1 DEF Connected
<1>3. CASE \E p \in Peers, n \in 0..(MAX_ARGS + 1) : vcat(n, p)
  <2>1. pc = "prompt" /\ pc' \in {"prompt", "connect"} /\ UNCHANGED unshown
    BY <1>3, Zenon DEF vcat, At, Unwrap
  <2> QED BY <2>1 DEF Connected
<1> QED BY <1>1, <1>2, <1>3, Zenon

(* The peer's bytes come from the peer of the session, and keep within the *)
(* ring buffer.                                                            *)
LEMMA SessionReceives ==
  ASSUME IInv, NEW p \in Peers, PeerSends(p)
  PROVE  \E n \in 1..CAPACITY : Sessions!Receive(p, n)
<1>1. p = peer /\ pc \in {"send", "poll", "drain"}
  BY OnlyPeerTalks, Zenon DEF PeerSends
<1>2. PICK n \in 1..(CAPACITY - unshown[p]) : unshown' = [unshown EXCEPT ![p] = @ + n]
  BY Zenon DEF PeerSends
<1>3. unshown[p] \in Nat /\ CAPACITY \in Nat
  BY VcatAssumption DEF IInv, TypeOK
<1>4. n \in 1..CAPACITY /\ unshown[p] + n <= CAPACITY
  BY <1>3
<1>5. p \in Connected /\ UNCHANGED Connected
  BY <1>1, Zenon DEF Connected, PeerSends
<1> QED BY <1>2, <1>4, <1>5, Zenon DEF Sessions!Receive

(* One recv shows some of what the peer sent, and no more. *)
LEMMA SessionShows ==
  ASSUME IInv, IInv', drain
  PROVE  \E n \in 1..CAPACITY : Sessions!Show(peer, n)
<1>1. /\ pc = "drain" /\ UNCHANGED peer /\ Busy /\ TypeOK
      /\ peer \in Peers /\ unshown \in [Peers -> Nat] /\ unshown' \in [Peers -> Nat]
  BY Zenon DEF drain, At, IInv, TypeOK
<1>2. conns[peer].buffer \in 1..CAPACITY
  <2>1. peer \in DOMAIN conns /\ conns[peer].buffer > 0
    BY <1>1 DEF Busy
  <2> QED BY <1>1, <2>1, ConnectionOfPeer
<1> DEFINE n == Min({conns[peer].buffer, RECV_BUFFER})
<1>3. RECV_BUFFER \in Nat \ {0} /\ CAPACITY \in Nat
  BY VcatAssumption
<1>4. n \in 1..CAPACITY
  BY <1>2, <1>3, MinFact
<1>5. unshown' = [unshown EXCEPT ![peer] = @ - n] /\ pc' \in {"drain", "send"}
  BY <1>1, Zenon DEF drain, Written, Again, Unwrap
<1> HIDE DEF n
<1>6. n <= unshown[peer]
  <2>1. unshown'[peer] = unshown[peer] - n /\ unshown'[peer] \in Nat
    BY <1>1, <1>5, Zenon
  <2> QED BY <1>1, <1>4, <2>1
<1>7. peer \in Connected /\ UNCHANGED Connected
  BY <1>1, <1>5 DEF Connected
<1> QED BY <1>4, <1>5, <1>6, <1>7, Zenon DEF Sessions!Show

(* vcat implements Session, for any peers, however the data is cut into    *)
(* events and reads: one session at a time, every byte of the peer shown   *)
(* once, and all of them before vcat returns.                              *)
THEOREM VcatIsSession == Spec => SessionSpec
<1>1. Init => Sessions!Init
  BY DEF Init, Sessions!Init, Connected
<1>2. IInv /\ IInv' /\ [Next]_vars => [Sessions!Next]_<<Connected, unshown>>
  <2> SUFFICES ASSUME IInv, IInv', [Next]_vars
               PROVE  Sessions!Next \/ UNCHANGED <<Connected, unshown>>
    OBVIOUS
  <2>1. CASE connect
    <3>1. pc = "connect" /\ UNCHANGED <<peer, unshown>> /\ peer \in Peers
      BY <2>1, Zenon DEF connect, At, IInv, TypeOK
    <3>2. pc' = pc \/ pc' = "send"
      BY <2>1, Zenon DEF connect, Unwrap
    <3>3. Connected = {} /\ (Connected' = {} \/ Connected' = {peer})
      BY <3>1, <3>2 DEF Connected
    <3> QED BY <3>1, <3>3, Zenon DEF Sessions!Next, Sessions!Open
  <2>2. CASE poll
    <3>1. pc = "poll" /\ UNCHANGED <<peer, unshown>> /\ peer \in Peers
      BY <2>2, Zenon DEF poll, At, IInv, TypeOK
    <3>2. pc' \in {"prompt", "drain", "send"}
      BY <2>2, Zenon DEF poll, Handled
    <3>3. pc' = "prompt" => unshown[peer] = 0
      BY <3>1, Zenon DEF IInv, Quiet
    <3>4. Connected = {peer} /\ Connected' = IF pc' = "prompt" THEN {} ELSE {peer}
      BY <3>1, <3>2 DEF Connected
    <3> QED BY <3>1, <3>3, <3>4, Zenon DEF Sessions!Next, Sessions!Close
  <2>3. CASE drain
    <3>1. peer \in Peers
      BY Zenon DEF IInv, TypeOK
    <3> QED BY <2>3, <3>1, SessionShows, Zenon DEF Sessions!Next
  <2>4. CASE \E p \in Peers : PeerSends(p)
    BY <2>4, SessionReceives, Zenon DEF Sessions!Next
  <2>5. CASE UNCHANGED vars
    BY <2>5, Zenon DEF vars, Connected
  <2> QED BY <2>1, <2>2, <2>3, <2>4, <2>5, SessionStutters, Zenon DEF Next
<1> QED BY <1>1, <1>2, AlwaysIInv, PTL DEF Spec, SessionSpec, Sessions!Spec
=============================================================================
