----------------------------- MODULE AlarmClock -----------------------------
(***************************************************************************)
(* What the alarm command promises: a clock that rings for an alarm that   *)
(* was set, when it is due and not before, and once.  Setting an alarm     *)
(* replaces the one that is ahead, not one that is due and may ring any    *)
(* moment; an alarm set to a time already past stays silent.  Alarms that  *)
(* come due while the clock rings are silenced with it.                    *)
(***************************************************************************)
EXTENDS Naturals

VARIABLES
  now,
  due,   \* times of the alarms that are set and have not rung
  rung   \* it rang and was not silenced

Ahead == {t \in due : t > now}

Init == now \in Nat /\ due = {} /\ rung = FALSE

Tick == now' = now + 1 /\ UNCHANGED <<due, rung>>

Set ==
  /\ due \ Ahead \subseteq due'
  /\ \A t, u \in due' \ (due \ Ahead) : t = u /\ t >= now
  /\ UNCHANGED <<now, rung>>

Ring ==
  /\ ~rung
  /\ Ahead # due
  /\ rung' = TRUE
  /\ due' = Ahead
  /\ UNCHANGED now

Silence == rung /\ rung' = FALSE /\ due' = Ahead /\ UNCHANGED now

Next == Tick \/ Set \/ Ring \/ Silence

Spec == Init /\ [][Next]_<<now, due, rung>>
=============================================================================
