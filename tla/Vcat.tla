-------------------------------- MODULE Vcat --------------------------------
(***************************************************************************)
(* The vcat command of src/apps/shell.rs, with the device queue, the peers *)
(* and the VsockConnectionManager of the virtio-drivers crate, which keeps *)
(* its connections between one vcat and the next.                          *)
(***************************************************************************)
EXTENDS Naturals, Sequences, FiniteSetsExt, Functions

CONSTANTS
  Peers,        \* addresses that may be named on the command line
  MAX_ARGS,     \* capacity of the ArrayVec of arguments
  SEND_BUFFER,  \* size of vcat's buffer for what is typed
  RECV_BUFFER,  \* size of vcat's buffer for what is received
  CAPACITY,     \* size of a connection's ring buffer
  MAX_TYPED,    \* bound: bytes waiting in the UART
  MAX_CREDIT,   \* bound: bytes a peer has room for
  MAX_EVENTS    \* bound: length of the device's queue

ASSUME VcatAssumption ==
  /\ {MAX_ARGS, SEND_BUFFER, RECV_BUFFER, CAPACITY} \subseteq Nat \ {0}
  /\ MAX_ARGS >= 2
  /\ {MAX_TYPED, MAX_CREDIT, MAX_EVENTS} \subseteq Nat

EventTypes ==
  {"Connected", "Received", "CreditUpdate", "CreditRequest",
   "Shutdown", "Reset"}

VARIABLES
  pc,       \* "prompt", or where vcat is: "connect", "send", "poll", "drain"
  failure,  \* the unwrap that panicked, "none" before
  peer,     \* the peer of the current or the last vcat
  conns,    \* external: connections of the manager, by peer
  queue,    \* external: events of the device that poll has yet to see
  host,     \* external: each peer's side of the connection
  typed,    \* bytes typed and not read
  unshown   \* history: bytes a peer sent that were not written to the console

vars == <<pc, failure, peer, conns, queue, host, typed, unshown>>

Connection == [buffer : 0..CAPACITY, closing : BOOLEAN, credit : 0..MAX_CREDIT]
Event == [type : EventTypes, from : Peers, length : 0..CAPACITY, credit : 0..MAX_CREDIT]

(* Every component holds values of its type: a connection has no more than *)
(* its ring buffer takes, so poll never fails for lack of room.            *)
TypeOK ==
  /\ pc \in {"prompt", "connect", "send", "poll", "drain"}
  /\ failure \in {"none", "args", "exists", "not_connected", "no_credit"}
  /\ peer \in Peers
  /\ DOMAIN conns \subseteq Peers
  /\ Range(conns) \subseteq Connection
  /\ queue \in Seq(Event)
  /\ host \in [Peers -> {"idle", "asked", "open"}]
  /\ typed \in 0..MAX_TYPED
  /\ unshown \in [Peers -> Nat]

Init ==
  /\ pc = "prompt"
  /\ failure = "none"
  /\ peer \in Peers
  /\ conns = [p \in {} |-> 0]
  /\ queue = <<>>
  /\ host = [p \in Peers |-> "idle"]
  /\ typed = 0
  /\ unshown = [p \in Peers |-> 0]

At(l) == pc = l /\ failure = "none"
Unwrap(error) == failure' = error /\ UNCHANGED pc
Forget(p) == conns' = Restrict(conns, DOMAIN conns \ {p})

-----------------------------------------------------------------------------
(* External: what is typed, and what the peers and the device do.  Poll    *)
(* rejects requests for a connection without passing them on: they are     *)
(* left out.                                                               *)

Type ==
  /\ typed < MAX_TYPED
  /\ typed' = typed + 1
  /\ UNCHANGED <<pc, failure, peer, conns, queue, host, unshown>>

Emit(type, p, n) ==
  /\ Len(queue) < MAX_EVENTS
  /\ \E k \in 0..MAX_CREDIT :
       queue' = Append(queue, [type |-> type, from |-> p, length |-> n, credit |-> k])

(* A peer keeps within the buffer it was told of, which unshown measures:  *)
(* what it sent is in the queue or in the ring buffer.                     *)
PeerSends(p) ==
  /\ host[p] = "open"
  /\ \E n \in 1..(CAPACITY - unshown[p]) :
       /\ Emit("Received", p, n)
       /\ unshown' = [unshown EXCEPT ![p] = @ + n]
  /\ UNCHANGED <<pc, failure, peer, conns, host, typed>>

PeerAccepts(p) ==
  /\ host[p] = "asked"
  /\ Emit("Connected", p, 0)
  /\ host' = [host EXCEPT ![p] = "open"]
  /\ UNCHANGED <<pc, failure, peer, conns, typed, unshown>>

(* A refusal is a reset. *)
PeerCloses(p) ==
  /\ host[p] # "idle"
  /\ \E r \in {"Shutdown", "Reset"} :
       /\ host[p] = "asked" => r = "Reset"
       /\ Emit(r, p, 0)
  /\ host' = [host EXCEPT ![p] = "idle"]
  /\ UNCHANGED <<pc, failure, peer, conns, typed, unshown>>

PeerTalks(p) ==
  /\ \E t \in {"CreditUpdate", "CreditRequest"} : host[p] = "open" /\ Emit(t, p, 0)
  /\ UNCHANGED <<pc, failure, peer, conns, host, typed, unshown>>

-----------------------------------------------------------------------------
(* vcat *)

(* The arguments are collected before they are counted.  Usage, invalid    *)
(* arguments and no vsock device return to the prompt.                     *)
vcat(n, p) ==
  /\ At("prompt")
  /\ IF n > MAX_ARGS THEN Unwrap("args") /\ UNCHANGED peer
     ELSE /\ n = 2
          /\ pc' = "connect"
          /\ peer' = p
          /\ UNCHANGED failure
  /\ UNCHANGED <<conns, queue, host, typed, unshown>>

connect ==
  /\ At("connect")
  /\ IF peer \in DOMAIN conns
     THEN Unwrap("exists") /\ UNCHANGED <<conns, host>>
     ELSE /\ conns' = [p \in DOMAIN conns \union {peer} |->
                         IF p = peer THEN [buffer |-> 0, closing |-> FALSE, credit |-> 0]
                         ELSE conns[p]]
          /\ host' = [host EXCEPT ![peer] = "asked"]
          /\ pc' = "send"
          /\ UNCHANGED failure
  /\ UNCHANGED <<peer, queue, typed, unshown>>

(* Mutant: vcat reads without asking whether there is something to read. *)
MutantIdle == FALSE

(* read_ready says that nothing is typed. *)
Idle == typed = 0

(* read_ready, read and send.  A send needs a connection and credit. *)
send ==
  /\ At("send")
  /\ IF Idle THEN pc' = "poll" /\ UNCHANGED <<failure, conns, typed>>
     ELSE \E n \in 1..Min({typed, SEND_BUFFER}) :
            /\ typed' = typed - n
            /\ IF peer \notin DOMAIN conns
               THEN Unwrap("not_connected") /\ UNCHANGED conns
               ELSE IF conns[peer].credit < n
               THEN Unwrap("no_credit") /\ UNCHANGED conns
               ELSE /\ conns' = [conns EXCEPT ![peer].credit = @ - n]
                    /\ pc' = "poll"
                    /\ UNCHANGED failure
  /\ UNCHANGED <<peer, queue, host, unshown>>

(* External: VsockConnectionManager::poll on event e.  Every event of a    *)
(* connection updates its credit; a disconnect ends it, or marks it when   *)
(* data is left in its buffer.                                             *)
Polled(e) ==
  IF e.from \notin DOMAIN conns THEN UNCHANGED conns
  ELSE LET c == [conns[e.from] EXCEPT !.credit = e.credit, !.buffer = @ + e.length]
       IN  IF e.type \in {"Shutdown", "Reset"} /\ c.buffer = 0
           THEN Forget(e.from)
           ELSE conns' = [conns EXCEPT ![e.from] =
                            [c EXCEPT !.closing = e.type \in {"Shutdown", "Reset"}]]

(* Mutant: a connection that is shut down does not end vcat. *)
MutantHandled(e) ==
  CASE e.type = "Reset"    -> "prompt"
    [] e.type = "Received" -> "drain"
    [] OTHER               -> "send"

(* Where vcat continues after it handled an event of its connection. *)
Handled(e) ==
  CASE e.type \in {"Shutdown", "Reset"} -> "prompt"
    [] e.type = "Received"              -> "drain"
    [] OTHER                            -> "send"

(* An event poll does not pass on, or of another connection, changes       *)
(* nothing in vcat.                                                        *)
poll ==
  /\ At("poll")
  /\ IF queue = <<>> THEN pc' = "send" /\ UNCHANGED <<conns, queue>>
     ELSE LET e == Head(queue)
              passed == e.from \in DOMAIN conns /\ e.from = peer
          IN  /\ queue' = Tail(queue)
              /\ Polled(e)
              /\ pc' = IF passed THEN Handled(e) ELSE "send"
  /\ UNCHANGED <<failure, peer, host, typed, unshown>>

(* Mutants: the data received is read once; the buffer is written with     *)
(* write, which may write less than it was given; all of the buffer is     *)
(* written.                                                                *)
MutantAgain(c) == "send"
MutantWritten(n) == 0..n
MutantWhole(n) == {RECV_BUFFER}

(* Where vcat continues after a recv that left connection c, and how much  *)
(* of n bytes write_all writes.                                            *)
Again(c) == IF c.buffer > 0 THEN "drain" ELSE "send"
Written(n) == {n}

(* One turn of the loop over recv_buffer_available_bytes and recv.  A recv *)
(* that finishes a shutdown, which was waiting for its data to be read,    *)
(* ends the connection: the condition of the loop would be an error.       *)
drain ==
  /\ At("drain")
  /\ LET n == Min({conns[peer].buffer, RECV_BUFFER})
         c == [conns[peer] EXCEPT !.buffer = @ - n]
     IN  /\ IF c.closing /\ c.buffer = 0
            THEN Forget(peer) /\ Unwrap("not_connected")
            ELSE /\ conns' = [conns EXCEPT ![peer] = c]
                 /\ pc' = Again(c)
                 /\ UNCHANGED failure
         /\ \E w \in Written(n) : unshown' = [unshown EXCEPT ![peer] = @ - w]
  /\ UNCHANGED <<peer, queue, host, typed>>

Next ==
  \/ Type \/ connect \/ send \/ poll \/ drain
  \/ \E p \in Peers :
       \/ \E n \in 0..(MAX_ARGS + 1) : vcat(n, p)
       \/ PeerAccepts(p) \/ PeerSends(p) \/ PeerCloses(p) \/ PeerTalks(p)

Spec == Init /\ [][Next]_vars

(* The loop of vcat runs on: nothing it calls waits. *)
FairSpec == Spec /\ WF_vars(send \/ poll \/ drain)

-----------------------------------------------------------------------------
(* Properties *)

(* The manager keeps no connection once vcat has returned, so the connect  *)
(* of the next vcat, to the same peer or another, finds none: everything   *)
(* received was drained before the disconnect was seen.                    *)
NoConnectionLeft == pc = "prompt" => DOMAIN conns = {}

(* All that the peer sent before it disconnected was written to the        *)
(* console when vcat returns.                                              *)
AllShown == pc = "prompt" => \A p \in Peers : unshown[p] = 0

(* Of the unwraps in vcat, only the one of send can fail, and it fails for *)
(* want of credit: connect finds no connection to the same peer, and send  *)
(* and recv find theirs.                                                   *)
ConnectionThere == failure \notin {"exists", "not_connected"}

(* The peer of a vcat that has connected and not returned. *)
Connected == IF pc \in {"send", "poll", "drain"} THEN {peer} ELSE {}

Sessions == INSTANCE Session WITH Window <- CAPACITY, open <- Connected,
                                  onWay <- unshown

(* connect, the events of the device and the two buffers implement a       *)
(* session: only bytes of the peer are shown, none more than once, and the *)
(* session is over when vcat returns and no sooner.                        *)
SessionSpec == Sessions!Spec

(* A vcat whose peer has disconnected returns to the prompt, unless it     *)
(* panics.                                                                 *)
DisconnectReturns ==
  \A p \in Peers :
    pc \in {"send", "poll", "drain"} /\ peer = p /\ host[p] = "idle"
      ~> pc = "prompt" \/ failure # "none"
=============================================================================
