--------------------------- MODULE CoreLifecycle ---------------------------
(***************************************************************************)
(* What start_cpu promises: a core that is off is started, in one step,    *)
(* with an argument, runs with that argument and no other, and stops.      *)
(***************************************************************************)
CONSTANTS Cores, Args, Off

VARIABLE life   \* Off, or the PSCI state of each core and its argument

Starting(a) == [state |-> "OnPending", arg |-> a]
Running(a) == [state |-> "On", arg |-> a]

Start(c, a) == life[c] = Off /\ life' = [life EXCEPT ![c] = Starting(a)]
Enter(c, a) == life[c] = Starting(a) /\ life' = [life EXCEPT ![c] = Running(a)]
Stop(c, a) == life[c] = Running(a) /\ life' = [life EXCEPT ![c] = Off]

Init == life = [c \in Cores |-> Off]

Next == \E c \in Cores, a \in Args : Start(c, a) \/ Enter(c, a) \/ Stop(c, a)

Spec == Init /\ [][Next]_life
=============================================================================
