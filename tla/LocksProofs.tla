---------------------------- MODULE LocksProofs ----------------------------
(***************************************************************************)
(* Proofs about Locks, for any number of cores.                            *)
(*                                                                         *)
(* The argument goes through the programs.  What a core is left to do is   *)
(* annotated with a state before each instruction and one after the last:  *)
(* the depth of the mask, the locks held, how far the program has come and *)
(* the core about to be started.  May says which instruction is allowed in *)
(* which state, and what it makes of it.  Runs(c, bad, s, x, y) is that s  *)
(* has such annotations from x to y; it is proved of every function from   *)
(* the functions it calls.  IInv is that every core follows annotations of *)
(* what it has left to do, which start at what it really holds.            *)
(***************************************************************************)
EXTENDS Locks, TLAPS

(* How far a core has come.  On the primary, the table of private handlers *)
(* is made, a shared handler is registered, exceptions are unmasked and    *)
(* cores may be started, and the handler is removed.  A secondary core     *)
(* runs in "up" only.                                                      *)
Phases == {"fresh", "forced", "ready", "up", "leaving"}

Booting(p) == p \in {"fresh", "forced", "ready"}

Instructions ==
  {Take(l) : l \in Locks} \union {Drop(l) : l \in Locks} \union {CpuOn(c) : c \in Cores}
    \union {Do(op) : op \in {"mask", "restore", "irq_enable", "private", "force", "unwrap",
                             "panic", "system_off", "cpu_off", "register",
                             "unregister", "loop"}}

S(d, h, p, s) == [depth |-> d, held |-> h, phase |-> p, starts |-> s]

(* An IRQ that comes with exceptions unmasked may take the locks of the    *)
(* handlers, and may panic when the handler is removed.                    *)
Interruptible(c, x) ==
  \/ x.phase \in {"up", "leaving"} /\ x.held = {}
  \/ c = Primary /\ x.phase = "up" /\ x.held \subseteq {"STACKS", "HEAP"}

States(c) ==
  {x \in [depth : 0..5, held : SUBSET Locks, phase : Phases,
          starts : Secondaries \union {None}] :
     /\ x.depth = 0 => Interruptible(c, x)
     /\ c # Primary => x.phase = "up" /\ x.starts = None}

(* A core may stop with the locks it holds: no other waits for them, or    *)
(* only others that are starting.                                          *)
MayHalt(c, x) ==
  IF c = Primary THEN x.held \subseteq {"STACKS"} \/ Booting(x.phase)
                 ELSE x.held \in {{}, {"GIC"}}

MayPanic(c, x) ==
  IF "CONSOLE" \in x.held THEN x.depth \in 1..4 ELSE x.depth \in 0..3 /\ MayHalt(c, x)

(* Lock l may be asked for by a core that holds those in h: CONSOLE comes  *)
(* last, and a secondary core holds no other, except after a panic with    *)
(* the GIC.                                                                *)
MayTake(c, h, p, l) ==
  /\ "CONSOLE" \notin h
  /\ c = Primary /\ l = "GIC" => Booting(p)
  /\ c # Primary => l # "STACKS" /\ (h = {} \/ (h = {"GIC"} /\ l = "CONSOLE"))

(* Instruction op is allowed in state x and leads to y.  A panic and the   *)
(* loop lead nowhere, and neither does waiting for a lock one holds, which *)
(* happens when the logger has panicked.                                   *)
May(c, bad, op, x, y) ==
  /\ op[1] = "mask" => y = S(x.depth + 1, x.held, x.phase, x.starts)
  /\ op[1] = "restore" => y = S(x.depth - 1, x.held, x.phase, x.starts)
  /\ op[1] = "irq_enable" =>
       /\ x.depth = 1 /\ x.phase \in {"ready", "up"}
       /\ y = S(0, x.held, "up", x.starts)
  /\ op[1] = "take" =>
       \/ op[2] \in x.held /\ bad
       \/ /\ op[2] \notin x.held
          /\ MayTake(c, x.held, x.phase, op[2])
          /\ y = S(x.depth, x.held \union {op[2]}, x.phase, x.starts)
  /\ op[1] = "drop" =>
       op[2] \in x.held /\ y = S(x.depth, x.held \ {op[2]}, x.phase, x.starts)
  /\ op[1] = "private" =>
       IF x.phase = "fresh"
       THEN /\ x.depth \in 1..3
            /\ x.held \intersect {"PRIVATE", "HEAP", "CONSOLE"} = {}
            /\ y = S(x.depth, x.held, "forced", x.starts)
       ELSE y = x
  /\ op[1] = "force" =>
       x.phase = "fresh" /\ y = S(x.depth, x.held, "forced", x.starts)
  /\ op[1] = "register" =>
       IF x.phase = "forced" THEN y = S(x.depth, x.held, "ready", x.starts) ELSE y = x
  /\ op[1] = "unregister" =>
       IF c = Primary
       THEN x.phase = "up" /\ y = S(x.depth, x.held, "leaving", x.starts)
       ELSE y = x
  /\ op[1] = "unwrap" => MayPanic(c, x) /\ y = x
  /\ op[1] = "panic" => MayPanic(c, x)
  /\ op[1] = "system_off" => y = x
  /\ op[1] = "cpu_off" => c # Primary /\ x.held = {} /\ MayPanic(c, x) /\ y = x
  /\ op[1] = "cpu_on" =>
       /\ c = Primary /\ x.phase = "up" /\ x.starts = op[2]
       /\ y = S(x.depth, x.held, x.phase, None)
  /\ op[1] = "loop" => MayHalt(c, x)

Annotates(c, bad, s, t) ==
  /\ t \in [1..(Len(s) + 1) -> States(c)]
  /\ \A i \in 1..Len(s) : May(c, bad, s[i], t[i], t[i + 1])

Runs(c, bad, s, x, y) ==
  /\ s \in Seq(Instructions)
  /\ \E t \in [1..(Len(s) + 1) -> States(c)] :
       Annotates(c, bad, s, t) /\ t[1] = x /\ t[Len(s) + 1] = y

-----------------------------------------------------------------------------
(* Annotated programs *)

LEMMA RunsEmpty ==
  ASSUME NEW c, NEW bad, NEW x \in States(c)
  PROVE  Runs(c, bad, <<>>, x, x)
<1> DEFINE t == [i \in 1..1 |-> x]
<1>1. <<>> \in Seq(Instructions) /\ Len(<<>>) = 0
  OBVIOUS
<1>2. t \in [1..(0 + 1) -> States(c)] /\ t[1] = x
  OBVIOUS
<1> HIDE DEF t
<1> QED BY <1>1, <1>2 DEF Runs, Annotates

LEMMA RunsOne ==
  ASSUME NEW c, NEW bad, NEW op \in Instructions, NEW x \in States(c), NEW y \in States(c),
         May(c, bad, op, x, y)
  PROVE  Runs(c, bad, <<op>>, x, y)
<1> DEFINE t == [i \in 1..2 |-> IF i = 1 THEN x ELSE y]
<1>1. <<op>> \in Seq(Instructions) /\ Len(<<op>>) = 1 /\ <<op>>[1] = op
  OBVIOUS
<1>2. t \in [1..2 -> States(c)] /\ t[1] = x /\ t[2] = y
  OBVIOUS
<1> HIDE DEF t
<1>3. Annotates(c, bad, <<op>>, t)
  <2>1. \A i \in 1..1 : i = 1
    OBVIOUS
  <2>2. 1 + 1 = 2
    OBVIOUS
  <2> QED BY <1>1, <1>2, <2>1, <2>2 DEF Annotates
<1> QED BY <1>1, <1>2, <1>3 DEF Runs

(* One program after the other. *)
LEMMA RunsThen ==
  ASSUME NEW c, NEW bad, NEW s, NEW u, NEW x, NEW y, NEW z,
         Runs(c, bad, s, x, y), Runs(c, bad, u, y, z)
  PROVE  Runs(c, bad, s \o u, x, z)
<1>1. s \in Seq(Instructions) /\ u \in Seq(Instructions)
  BY DEF Runs
<1>2. PICK t \in [1..(Len(s) + 1) -> States(c)] :
        Annotates(c, bad, s, t) /\ t[1] = x /\ t[Len(s) + 1] = y
  BY DEF Runs
<1>3. PICK v \in [1..(Len(u) + 1) -> States(c)] :
        Annotates(c, bad, u, v) /\ v[1] = y /\ v[Len(u) + 1] = z
  BY Zenon DEF Runs
<1> DEFINE m == Len(s)
           n == Len(u)
           w == [i \in 1..(m + n + 1) |-> IF i <= m THEN t[i] ELSE v[i - m]]
<1>4. /\ m \in Nat /\ n \in Nat
      /\ s \o u \in Seq(Instructions) /\ Len(s \o u) = m + n
      /\ \A i \in 1..m : (s \o u)[i] = s[i]
      /\ \A i \in (m + 1)..(m + n) : (s \o u)[i] = u[i - m]
  BY <1>1
<1>5. ASSUME NEW i \in 1..m PROVE w[i] = t[i] /\ t[i] \in States(c)
  <2>1. i \in 1..(m + n + 1) /\ i <= m /\ i \in 1..(m + 1)
    BY <1>4
  <2> QED BY <2>1
<1>6. ASSUME NEW i \in (m + 1)..(m + n + 1)
      PROVE  w[i] = v[i - m] /\ i - m \in 1..(n + 1) /\ v[i - m] \in States(c)
  <2>1. i \in 1..(m + n + 1) /\ ~(i <= m) /\ i - m \in 1..(n + 1)
    BY <1>4
  <2> QED BY <2>1, Zenon
<1>7. w \in [1..(m + n + 1) -> States(c)]
  <2>1. \A i \in 1..(m + n + 1) : w[i] \in States(c)
    <3> TAKE i \in 1..(m + n + 1)
    <3>1. i \in 1..m \/ i \in (m + 1)..(m + n + 1)
      BY <1>4
    <3> QED BY <3>1, <1>5, <1>6, Zenon
  <2> QED BY <2>1
<1> HIDE DEF w
<1>8. w[m + 1] = y
  <2>1. m + 1 \in (m + 1)..(m + n + 1) /\ (m + 1) - m = 1
    BY <1>4
  <2> QED BY <2>1, <1>3, <1>6
<1>9. ASSUME NEW i \in 1..(m + n) PROVE May(c, bad, (s \o u)[i], w[i], w[i + 1])
  <2>1. CASE i \in 1..m
    <3>1. May(c, bad, s[i], t[i], t[i + 1])
      BY <2>1, <1>2 DEF Annotates
    <3>2. w[i + 1] = t[i + 1]
      <4>1. CASE i = m
        BY <4>1, <1>2, <1>8
      <4>2. CASE i # m
        <5>1. i + 1 \in 1..m
          BY <2>1, <4>2, <1>4
        <5> QED BY <5>1, <1>5
      <4> QED BY <4>1, <4>2
    <3> QED BY <2>1, <3>1, <3>2, <1>4, <1>5
  <2>2. CASE i \in (m + 1)..(m + n)
    <3>1. i - m \in 1..n /\ (i + 1) - m = (i - m) + 1 /\ i + 1 \in (m + 1)..(m + n + 1)
          /\ i \in (m + 1)..(m + n + 1)
      BY <2>2, <1>4, SMTT(30)
    <3>2. May(c, bad, u[i - m], v[i - m], v[(i - m) + 1])
      BY <3>1, <1>3, Zenon DEF Annotates
    <3>3. w[i] = v[i - m] /\ w[i + 1] = v[(i + 1) - m]
      BY <3>1, <1>6, Zenon
    <3> QED BY <2>2, <3>1, <3>2, <3>3, <1>4
  <2>3. i \in 1..m \/ i \in (m + 1)..(m + n)
    BY <1>4
  <2> QED BY <2>1, <2>2, <2>3
<1>10. w[1] = x
  <2>1. CASE m = 0
    BY <2>1, <1>2, <1>8
  <2>2. CASE m # 0
    <3>1. 1 \in 1..m
      BY <2>2, <1>4
    <3> QED BY <3>1, <1>2, <1>5
  <2> QED BY <2>1, <2>2
<1>11. w[m + n + 1] = z
  <2>1. m + n + 1 \in (m + 1)..(m + n + 1) /\ (m + n + 1) - m = n + 1
    BY <1>4
  <2> QED BY <2>1, <1>3, <1>6
<1> QED BY <1>4, <1>7, <1>9, <1>10, <1>11, Zenon DEF Runs, Annotates

LEMMA RunsHead ==
  ASSUME NEW c, NEW bad, NEW s, NEW x, NEW y, Runs(c, bad, s, x, y), s # <<>>
  PROVE  \E z \in States(c) :
           May(c, bad, Head(s), x, z) /\ Runs(c, bad, Tail(s), z, y)
<1>1. PICK t \in [1..(Len(s) + 1) -> States(c)] :
        Annotates(c, bad, s, t) /\ t[1] = x /\ t[Len(s) + 1] = y
  BY DEF Runs
<1> DEFINE m == Len(s)
           w == [i \in 1..m |-> t[i + 1]]
<1>2. /\ s \in Seq(Instructions) /\ m \in Nat \ {0} /\ Head(s) = s[1]
      /\ Tail(s) \in Seq(Instructions) /\ Len(Tail(s)) = m - 1
      /\ \A i \in 1..(m - 1) : Tail(s)[i] = s[i + 1]
  BY DEF Runs
<1>3. \A i \in 1..m : i + 1 \in 1..(m + 1) /\ w[i] = t[i + 1] /\ w[i] \in States(c)
  BY <1>2
<1>4. w \in [1..m -> States(c)]
  BY <1>3
<1> HIDE DEF w
<1>5. 1 \in 1..m /\ m \in 1..m /\ 1 + 1 = 2 /\ (m - 1) + 1 = m
  BY <1>2
<1>6. May(c, bad, Head(s), x, w[1])
  BY <1>1, <1>2, <1>3, <1>5 DEF Annotates
<1>7. w[m] = y
  BY <1>1, <1>3, <1>5
<1>8. ASSUME NEW i \in 1..(m - 1) PROVE May(c, bad, Tail(s)[i], w[i], w[i + 1])
  <2>1. i \in 1..m /\ i + 1 \in 1..m
    BY <1>2
  <2>2. May(c, bad, s[i + 1], t[i + 1], t[(i + 1) + 1])
    BY <2>1, <1>1 DEF Annotates
  <2> QED BY <2>1, <2>2, <1>2, <1>3
<1>9. Runs(c, bad, Tail(s), w[1], y)
  BY <1>2, <1>4, <1>5, <1>7, <1>8, Zenon DEF Runs, Annotates
<1> QED BY <1>3, <1>5, <1>6, <1>9

LEMMA RunsEnds ==
  ASSUME NEW c, NEW bad, NEW s, NEW x, NEW y, Runs(c, bad, s, x, y)
  PROVE  /\ s \in Seq(Instructions)
         /\ x \in States(c) /\ y \in States(c)
         /\ s = <<>> => x = y
<1>1. PICK t \in [1..(Len(s) + 1) -> States(c)] : t[1] = x /\ t[Len(s) + 1] = y
  BY DEF Runs
<1>2. s \in Seq(Instructions) /\ Len(s) \in Nat /\ (s = <<>> => Len(s) = 0)
  BY DEF Runs
<1>3. 1 \in 1..(Len(s) + 1) /\ Len(s) + 1 \in 1..(Len(s) + 1)
  BY <1>2
<1>4. s = <<>> => Len(s) + 1 = 1
  BY <1>2
<1> QED BY <1>1, <1>2, <1>3, <1>4

(* A core that has panicked under CONSOLE makes no program worse. *)
LEMMA RunsWeaken ==
  ASSUME NEW c, NEW bad, NEW worse, bad => worse, NEW s, NEW x, NEW y, Runs(c, bad, s, x, y)
  PROVE  Runs(c, worse, s, x, y)
<1>1. \A op, u, v : May(c, bad, op, u, v) => May(c, worse, op, u, v)
  BY DEF May
<1> QED BY <1>1, Zenon DEF Runs, Annotates

-----------------------------------------------------------------------------
(* States and instructions *)

LEMMA StateFields ==
  ASSUME NEW c, NEW x \in States(c)
  PROVE  /\ x.depth \in 0..5 /\ x.held \subseteq Locks /\ x.phase \in Phases
         /\ x.starts \in Secondaries \union {None}
         /\ x = S(x.depth, x.held, x.phase, x.starts)
  BY DEF States, S

LEMMA StateOf ==
  ASSUME NEW d, NEW h, NEW p, NEW s
  PROVE  /\ S(d, h, p, s).depth = d /\ S(d, h, p, s).held = h
         /\ S(d, h, p, s).phase = p /\ S(d, h, p, s).starts = s
  BY DEF S

(* While exceptions are masked any lock may be held. *)
LEMMA MaskedState ==
  ASSUME NEW c, NEW d, NEW h, NEW p, NEW s, S(d, h, p, s) \in States(c),
         NEW e \in 1..5, NEW k \in SUBSET Locks
  PROVE  S(e, k, p, s) \in States(c)
  BY DEF S, States

(* A phase of the primary other than the present one. *)
LEMMA MaskedPhase ==
  ASSUME NEW d, NEW h, NEW p, NEW s, S(d, h, p, s) \in States(Primary),
         d # 0, NEW q \in Phases
  PROVE  S(d, h, q, s) \in States(Primary)
  BY DEF S, States

LEMMA InstructionsHas ==
  /\ \A l \in Locks : Take(l) \in Instructions /\ Drop(l) \in Instructions
  /\ \A c \in Cores : CpuOn(c) \in Instructions
  /\ \A op \in {"mask", "restore", "irq_enable", "private", "force", "unwrap", "panic",
                 "system_off", "cpu_off", "register", "unregister", "loop"} :
       Do(op) \in Instructions
  BY DEF Instructions

LEMMA RunsMask ==
  ASSUME NEW c, NEW bad, NEW d \in 0..4, NEW h, NEW p, NEW s, S(d, h, p, s) \in States(c)
  PROVE  /\ S(d + 1, h, p, s) \in States(c)
         /\ Runs(c, bad, <<Do("mask")>>, S(d, h, p, s), S(d + 1, h, p, s))
<1>1. h \in SUBSET Locks /\ d + 1 \in 1..5
  BY StateFields, StateOf
<1>2. S(d + 1, h, p, s) \in States(c)
  BY <1>1, MaskedState, Zenon
<1>3. May(c, bad, Do("mask"), S(d, h, p, s), S(d + 1, h, p, s))
  BY DEF May, Do, S
<1> QED BY <1>2, <1>3, RunsOne, InstructionsHas

LEMMA RunsRestore ==
  ASSUME NEW c, NEW bad, NEW d \in 0..4, NEW h, NEW p, NEW s,
         S(d, h, p, s) \in States(c), S(d + 1, h, p, s) \in States(c)
  PROVE  Runs(c, bad, <<Do("restore")>>, S(d + 1, h, p, s), S(d, h, p, s))
<1>1. (d + 1) - 1 = d
  OBVIOUS
<1>2. May(c, bad, Do("restore"), S(d + 1, h, p, s), S(d, h, p, s))
  BY <1>1 DEF May, Do, S
<1> QED BY <1>2, RunsOne, InstructionsHas

LEMMA RunsTake ==
  ASSUME NEW c, NEW bad, NEW d, NEW h, NEW p, NEW s, NEW l \in Locks, l \notin h,
         MayTake(c, h, p, l),
         S(d, h, p, s) \in States(c), S(d, h \union {l}, p, s) \in States(c)
  PROVE  Runs(c, bad, <<Take(l)>>, S(d, h, p, s), S(d, h \union {l}, p, s))
<1>1. Take(l)[1] = "take" /\ Take(l)[2] = l
  BY Zenon DEF Take
<1>2. May(c, bad, Take(l), S(d, h, p, s), S(d, h \union {l}, p, s))
  BY <1>1 DEF May, S
<1> QED BY <1>2, RunsOne, InstructionsHas

LEMMA RunsDrop ==
  ASSUME NEW c, NEW bad, NEW d, NEW h, NEW p, NEW s, NEW l \in Locks, l \notin h,
         S(d, h, p, s) \in States(c), S(d, h \union {l}, p, s) \in States(c)
  PROVE  Runs(c, bad, <<Drop(l)>>, S(d, h \union {l}, p, s), S(d, h, p, s))
<1>1. (h \union {l}) \ {l} = h
  OBVIOUS
<1>2. Drop(l)[1] = "drop" /\ Drop(l)[2] = l
  BY DEF Drop
<1> DEFINE x == S(d, h \union {l}, p, s)
<1>3. l \in x.held /\ S(d, h, p, s) = S(x.depth, x.held \ {l}, x.phase, x.starts)
  BY <1>1, StateOf
<1>4. May(c, bad, Drop(l), x, S(d, h, p, s))
  BY <1>2, <1>3, Zenon DEF May
<1> QED BY <1>4, RunsOne, InstructionsHas

(* Instructions that leave the state as it is. *)
LEMMA RunsUnwrap ==
  ASSUME NEW c, NEW bad, NEW x \in States(c), MayPanic(c, x)
  PROVE  Runs(c, bad, <<Do("unwrap")>>, x, x)
<1>1. May(c, bad, Do("unwrap"), x, x)
  BY DEF May, Do
<1> QED BY <1>1, RunsOne, InstructionsHas, Zenon

LEMMA RunsSystemOff ==
  ASSUME NEW c, NEW bad, NEW x \in States(c)
  PROVE  Runs(c, bad, <<Do("system_off")>>, x, x)
<1>1. May(c, bad, Do("system_off"), x, x)
  BY DEF May, Do
<1> QED BY <1>1, RunsOne, InstructionsHas, Zenon

(* The table of private handlers exists. *)
LEMMA RunsPrivate ==
  ASSUME NEW c, NEW bad, NEW x \in States(c), x.phase # "fresh"
  PROVE  Runs(c, bad, <<Do("private")>>, x, x)
<1>1. May(c, bad, Do("private"), x, x)
  BY DEF May, Do
<1> QED BY <1>1, RunsOne, InstructionsHas, Zenon

(* Instructions that lead nowhere. *)
LEMMA RunsPanic ==
  ASSUME NEW c, NEW bad, NEW x \in States(c), NEW y \in States(c), MayPanic(c, x)
  PROVE  Runs(c, bad, <<Do("panic")>>, x, y)
<1>1. May(c, bad, Do("panic"), x, y)
  BY DEF May, Do
<1> QED BY <1>1, RunsOne, InstructionsHas, ZenonT(30)

LEMMA RunsLoop ==
  ASSUME NEW c, NEW bad, NEW x \in States(c), NEW y \in States(c), MayHalt(c, x)
  PROVE  Runs(c, bad, <<Do("loop")>>, x, y)
<1>1. May(c, bad, Do("loop"), x, y)
  BY Zenon DEF May, Do
<1> QED BY <1>1, RunsOne, InstructionsHas, Zenon

-----------------------------------------------------------------------------
(* Functions *)

LEMMA LockedRuns ==
  ASSUME NEW c, NEW bad, NEW d, NEW h, NEW p, NEW q, NEW s, NEW l \in Locks, l \notin h,
         MayTake(c, h, p, l),
         S(d, h, p, s) \in States(c), S(d, h, q, s) \in States(c), NEW body,
         Runs(c, bad, body, S(d, h \union {l}, p, s), S(d, h \union {l}, q, s))
  PROVE  Runs(c, bad, Locked(l, body), S(d, h, p, s), S(d, h, q, s))
<1>1. S(d, h \union {l}, p, s) \in States(c) /\ S(d, h \union {l}, q, s) \in States(c)
  BY RunsEnds
<1>2. Runs(c, bad, <<Take(l)>>, S(d, h, p, s), S(d, h \union {l}, p, s))
  BY <1>1, RunsTake
<1>3. Runs(c, bad, <<Drop(l)>>, S(d, h \union {l}, q, s), S(d, h, q, s))
  BY <1>1, RunsDrop
<1>4. Runs(c, bad, <<Take(l)>> \o body, S(d, h, p, s), S(d, h \union {l}, q, s))
  BY <1>2, RunsThen, Zenon
<1> QED BY <1>3, <1>4, RunsThen DEF Locked

LEMMA LockedEmptyRuns ==
  ASSUME NEW c, NEW bad, NEW d, NEW h, NEW p, NEW s, NEW l \in Locks, l \notin h,
         MayTake(c, h, p, l),
         S(d, h, p, s) \in States(c), S(d, h \union {l}, p, s) \in States(c)
  PROVE  Runs(c, bad, Locked(l, <<>>), S(d, h, p, s), S(d, h, p, s))
  BY RunsEmpty, LockedRuns, Zenon

LEMMA ExceptionFreeRuns ==
  ASSUME NEW c, NEW bad, NEW d \in 0..4, NEW h, NEW p, NEW q, NEW s,
         S(d, h, p, s) \in States(c), S(d, h, q, s) \in States(c), NEW body,
         Runs(c, bad, body, S(d + 1, h, p, s), S(d + 1, h, q, s))
  PROVE  Runs(c, bad, exception_free(body), S(d, h, p, s), S(d, h, q, s))
<1>1. S(d + 1, h, q, s) \in States(c)
  BY RunsEnds
<1>2. Runs(c, bad, <<Do("mask")>> \o body, S(d, h, p, s), S(d + 1, h, q, s))
  BY RunsMask, RunsThen, Zenon
<1>3. Runs(c, bad, <<Do("restore")>>, S(d + 1, h, q, s), S(d, h, q, s))
  BY <1>1, RunsRestore, Zenon
<1> QED BY <1>2, <1>3, RunsThen DEF exception_free

(* Under CONSOLE, with exceptions masked, any body may follow that keeps   *)
(* the state.                                                              *)
LEMMA ConsoleRuns ==
  ASSUME NEW c, NEW bad, NEW d \in 0..4, NEW h, NEW p, NEW s, S(d, h, p, s) \in States(c),
         "CONSOLE" \notin h, c # Primary => h \in {{}, {"GIC"}}, NEW body,
         S(d + 1, h \union {"CONSOLE"}, p, s) \in States(c) =>
           Runs(c, bad, body, S(d + 1, h \union {"CONSOLE"}, p, s),
                              S(d + 1, h \union {"CONSOLE"}, p, s))
  PROVE  Runs(c, bad, exception_free(Locked("CONSOLE", body)), S(d, h, p, s), S(d, h, p, s))
<1>1. h \in SUBSET Locks /\ h \union {"CONSOLE"} \in SUBSET Locks /\ d + 1 \in 1..5
      /\ "CONSOLE" \in Locks
  BY StateFields, StateOf DEF Locks
<1>2. S(d + 1, h, p, s) \in States(c) /\ S(d + 1, h \union {"CONSOLE"}, p, s) \in States(c)
  BY <1>1, MaskedState, Zenon
<1>3. MayTake(c, h, p, "CONSOLE")
  BY Zenon DEF MayTake
<1>4. Runs(c, bad, Locked("CONSOLE", body), S(d + 1, h, p, s), S(d + 1, h, p, s))
  BY <1>1, <1>2, <1>3, LockedRuns, Zenon
<1> QED BY <1>4, ExceptionFreeRuns, Zenon

LEMMA WriteFmtRuns ==
  ASSUME NEW c, NEW bad, NEW d \in 0..4, NEW h, NEW p, NEW s, S(d, h, p, s) \in States(c),
         "CONSOLE" \notin h, c # Primary => h \in {{}, {"GIC"}}
  PROVE  Runs(c, bad, exception_free(Locked("CONSOLE", <<>>)), S(d, h, p, s), S(d, h, p, s))
  BY RunsEmpty, ConsoleRuns, Zenon

LEMMA LogRuns ==
  ASSUME NEW c, NEW bad, NEW d \in 0..3, NEW h, NEW p, NEW s, S(d, h, p, s) \in States(c),
         "CONSOLE" \notin h, c # Primary => h \in {{}, {"GIC"}}
  PROVE  Runs(c, bad, log, S(d, h, p, s), S(d, h, p, s))
<1> DEFINE x == S(d + 1, h \union {"CONSOLE"}, p, s)
<1>1. d \in 0..4 /\ d + 1 \in 1..4
  OBVIOUS
<1>2. MayPanic(c, x)
  BY <1>1 DEF MayPanic, S
<1>3. x \in States(c) => Runs(c, bad, <<Do("unwrap")>>, x, x)
  BY <1>2, RunsUnwrap
<1> QED BY <1>1, <1>3, ConsoleRuns, Zenon DEF log

LEMMA WriteRuns ==
  ASSUME NEW c, NEW bad, NEW d \in 0..3, NEW h, NEW p, NEW s, S(d, h, p, s) \in States(c),
         "CONSOLE" \notin h, c # Primary => h \in {{}, {"GIC"}}, MayHalt(c, S(d, h, p, s))
  PROVE  /\ Runs(c, bad, write, S(d, h, p, s), S(d, h, p, s))
         /\ Runs(c, bad, read, S(d, h, p, s), S(d, h, p, s))
<1> d \in 0..4
  OBVIOUS
<1>1. Runs(c, bad, exception_free(Locked("CONSOLE", <<>>)), S(d, h, p, s), S(d, h, p, s))
  BY WriteFmtRuns, Zenon
<1>2. MayPanic(c, S(d, h, p, s))
  BY DEF MayPanic, S
<1>3. Runs(c, bad, <<Do("unwrap")>>, S(d, h, p, s), S(d, h, p, s))
  BY <1>2, RunsUnwrap, Zenon
<1> QED BY <1>1, <1>3, RunsThen DEF write, read

LEMMA DeallocRuns ==
  ASSUME NEW c, NEW bad, NEW d, NEW h, NEW p, NEW s, S(d, h, p, s) \in States(c),
         S(d, h \union {"HEAP"}, p, s) \in States(c),
         "HEAP" \notin h, "CONSOLE" \notin h, c # Primary => h = {}
  PROVE  Runs(c, bad, dealloc, S(d, h, p, s), S(d, h, p, s))
<1>1. MayTake(c, h, p, "HEAP") /\ "HEAP" \in Locks
  BY Zenon DEF MayTake, Locks
<1> QED BY <1>1, LockedEmptyRuns, Zenon DEF dealloc

LEMMA AllocRuns ==
  ASSUME NEW c, NEW bad, NEW d, NEW h, NEW p, NEW s, S(d, h, p, s) \in States(c),
         S(d, h \union {"HEAP"}, p, s) \in States(c),
         "HEAP" \notin h, "CONSOLE" \notin h, c # Primary => h = {},
         MayPanic(c, S(d, h, p, s))
  PROVE  Runs(c, bad, alloc, S(d, h, p, s), S(d, h, p, s))
<1>1. MayTake(c, h, p, "HEAP") /\ "HEAP" \in Locks
  BY Zenon DEF MayTake, Locks
<1>2. Runs(c, bad, Locked("HEAP", <<>>), S(d, h, p, s), S(d, h, p, s))
  BY <1>1, LockedEmptyRuns, Zenon
<1> QED BY <1>2, RunsUnwrap, RunsThen DEF alloc

LEMMA PowerOffRuns ==
  ASSUME NEW c, NEW bad, NEW d \in 0..3, NEW h, NEW p, NEW s, S(d, h, p, s) \in States(c),
         "CONSOLE" \notin h, MayHalt(c, S(d, h, p, s)), NEW y \in States(c)
  PROVE  Runs(c, bad, power_off, S(d, h, p, s), y)
<1>1. c # Primary => h \in {{}, {"GIC"}}
  BY DEF MayHalt, S
<1>2. Runs(c, bad, <<Do("system_off")>> \o log, S(d, h, p, s), S(d, h, p, s))
  BY <1>1, RunsSystemOff, LogRuns, RunsThen
<1>3. Runs(c, bad, <<Do("loop")>>, S(d, h, p, s), y)
  BY RunsLoop, Zenon
<1> QED BY <1>2, <1>3, RunsThen DEF power_off

(* A panic under CONSOLE waits for its own core; any other comes to the    *)
(* loop of power_off.                                                      *)
LEMMA PanicRuns ==
  ASSUME NEW c, NEW bad, NEW x \in States(c), MayPanic(c, x), "CONSOLE" \in x.held => bad,
         NEW y \in States(c)
  PROVE  Runs(c, bad, panic, x, y)
<1>1. PICK d, h, p, s : /\ x = S(d, h, p, s) /\ d \in 0..5 /\ h \in SUBSET Locks
                        /\ x.held = h /\ x.depth = d
  BY StateFields, Zenon
<1>2. CASE "CONSOLE" \in h
  <2> DEFINE z(e, k) == S(e, k, p, s)
  <2>1. bad /\ d \in 0..4 /\ d + 1 \in 1..5
    BY <1>1, <1>2 DEF MayPanic
  <2>2. /\ z(d + 1, h) \in States(c) /\ z(2, {"CONSOLE"}) \in States(c)
        /\ z(2, {}) \in States(c) /\ z(1, {}) \in States(c)
    BY <1>1, <2>1, MaskedState DEF Locks
  <2>3. Runs(c, bad, <<Do("mask")>>, x, z(d + 1, h))
    BY <1>1, <2>1, RunsMask, Zenon
  <2>4. Runs(c, bad, <<Take("CONSOLE")>>, z(d + 1, h), z(2, {"CONSOLE"}))
    <3>1. Take("CONSOLE")[1] = "take" /\ Take("CONSOLE")[2] = "CONSOLE"
          /\ Take("CONSOLE") \in Instructions
      BY InstructionsHas DEF Take, Locks
    <3>2. "CONSOLE" \in z(d + 1, h).held
      BY <1>2, StateOf
    <3>3. May(c, bad, Take("CONSOLE"), z(d + 1, h), z(2, {"CONSOLE"}))
      BY <2>1, <3>1, <3>2, Zenon DEF May
    <3> QED BY <2>2, <3>1, <3>3, RunsOne
  <2>5. Runs(c, bad, <<>>, z(2, {"CONSOLE"}), z(2, {"CONSOLE"}))
    BY <2>2, RunsEmpty, Zenon
  <2>6. Runs(c, bad, <<Drop("CONSOLE")>>, z(2, {"CONSOLE"}), z(2, {}))
    <3>1. {} \union {"CONSOLE"} = {"CONSOLE"} /\ "CONSOLE" \notin {} /\ "CONSOLE" \in Locks
      BY Zenon DEF Locks
    <3> QED BY <2>2, <3>1, RunsDrop, Zenon
  <2>7. Runs(c, bad, Locked("CONSOLE", <<>>), z(d + 1, h), z(2, {}))
    <3>1. Runs(c, bad, <<Take("CONSOLE")>> \o <<>>, z(d + 1, h), z(2, {"CONSOLE"}))
      BY <2>4, <2>5, RunsThen, Zenon
    <3> QED BY <2>6, <3>1, RunsThen, Zenon DEF Locked
  <2>8. Runs(c, bad, <<Do("restore")>>, z(2, {}), z(1, {}))
    <3>1. 1 \in 0..4 /\ 1 + 1 = 2
      OBVIOUS
    <3> QED BY <2>2, <3>1, RunsRestore, Zenon
  <2>9. Runs(c, bad, exception_free(Locked("CONSOLE", <<>>)), x, z(1, {}))
    <3>1. Runs(c, bad, <<Do("mask")>> \o Locked("CONSOLE", <<>>), x, z(2, {}))
      BY <2>3, <2>7, RunsThen, Zenon
    <3> QED BY <2>8, <3>1, RunsThen, Zenon DEF exception_free
  <2>10. Runs(c, bad, power_off, z(1, {}), y)
    <3>1. MayHalt(c, z(1, {}))
      BY DEF MayHalt, S
    <3> QED BY <2>2, <3>1, PowerOffRuns, SMTT(30)
  <2> QED BY <2>9, <2>10, RunsThen, Zenon DEF panic
<1>3. CASE "CONSOLE" \notin h
  <2>1. d \in 0..3 /\ d \in 0..4 /\ MayHalt(c, x)
    BY <1>1, <1>3 DEF MayPanic
  <2>2. c # Primary => h \in {{}, {"GIC"}}
    BY <1>1, <2>1, Zenon DEF MayHalt
  <2>3. Runs(c, bad, exception_free(Locked("CONSOLE", <<>>)), x, x)
    BY <1>1, <1>3, <2>1, <2>2, WriteFmtRuns, Zenon
  <2>4. Runs(c, bad, power_off, x, y)
    BY <1>1, <1>3, <2>1, PowerOffRuns, Zenon
  <2> QED BY <2>3, <2>4, RunsThen DEF panic
<1> QED BY <1>2, <1>3, Zenon

(* The table of private handlers is made, by the primary, in two steps:    *)
(* the first use of it, and what that is replaced by.                      *)
LEMMA MakePrivateRuns ==
  ASSUME NEW bad, NEW d \in 1..3, NEW h, NEW s, S(d, h, "fresh", s) \in States(Primary),
         h \intersect {"PRIVATE", "HEAP", "CONSOLE"} = {}
  PROVE  /\ Runs(Primary, bad, <<Do("private")>>, S(d, h, "fresh", s), S(d, h, "forced", s))
         /\ Runs(Primary, bad, Locked("PRIVATE", alloc \o <<Do("force")>>),
                 S(d, h, "fresh", s), S(d, h, "forced", s))
<1> DEFINE k == h \union {"PRIVATE"}
           x(g, p) == S(d, g, p, s)
<1>1. h \in SUBSET Locks /\ k \in SUBSET Locks /\ k \union {"HEAP"} \in SUBSET Locks
      /\ d \in 1..5 /\ "PRIVATE" \in Locks /\ "HEAP" \notin k /\ "CONSOLE" \notin k
      /\ "PRIVATE" \notin h /\ "CONSOLE" \notin h
  BY StateFields, StateOf DEF Locks
<1>2. /\ x(h, "forced") \in States(Primary) /\ x(k, "fresh") \in States(Primary)
      /\ x(k \union {"HEAP"}, "fresh") \in States(Primary)
  BY <1>1, MaskedState, MaskedPhase DEF Phases
<1>3. x(k, "forced") \in States(Primary)
  BY <1>1, <1>2, MaskedState, Zenon
<1>4. May(Primary, bad, Do("private"), x(h, "fresh"), x(h, "forced"))
  BY Zenon DEF May, Do, S
<1>5. May(Primary, bad, Do("force"), x(k, "fresh"), x(k, "forced"))
  BY Zenon DEF May, Do, S
<1>6. MayPanic(Primary, x(k, "fresh"))
  BY DEF MayPanic, MayHalt, Booting, S
<1>7. Runs(Primary, bad, alloc, x(k, "fresh"), x(k, "fresh"))
  BY <1>1, <1>2, <1>6, AllocRuns, Zenon
<1>8. Runs(Primary, bad, alloc \o <<Do("force")>>, x(k, "fresh"), x(k, "forced"))
  BY <1>2, <1>3, <1>5, <1>7, RunsOne, RunsThen, InstructionsHas, Zenon
<1>9. Runs(Primary, bad, Locked("PRIVATE", alloc \o <<Do("force")>>), x(h, "fresh"), x(h, "forced"))
  BY <1>1, <1>2, <1>8, LockedRuns, Zenon DEF MayTake
<1> QED BY <1>2, <1>4, <1>9, RunsOne, InstructionsHas, Zenon

(* Registering a shared handler while the system boots. *)
LEMMA SetSharedRuns ==
  ASSUME NEW bad, NEW h \in {{}, {"GIC"}}, NEW p \in {"fresh", "ready"}
  PROVE  Runs(Primary, bad, set_shared_irq_handler, S(1, h, p, None), S(1, h, "ready", None))
<1> DEFINE k == h \union {"SHARED"}
           q == IF p = "fresh" THEN "forced" ELSE p
           x(e, g, r) == S(e, g, r, None)
           body == alloc \o <<Do("register")>>
<1>1. /\ h \in SUBSET Locks /\ k \in SUBSET Locks /\ k \union {"HEAP"} \in SUBSET Locks
      /\ "SHARED" \in Locks /\ MayTake(Primary, h, "forced", "SHARED")
      /\ MayTake(Primary, h, p, "SHARED") /\ "CONSOLE" \notin k /\ "HEAP" \notin k
  BY Zenon DEF Locks, MayTake
<1>2. \A e \in 1..5, g \in SUBSET Locks, r \in Phases : x(e, g, r) \in States(Primary)
  BY DEF S, States
<1>3. p \in Phases /\ q \in Phases /\ "ready" \in Phases /\ "forced" \in Phases
  BY DEF Phases
<1>4. Runs(Primary, bad, <<Do("private")>>, x(2, h, p), x(2, h, q))
  <2>1. x(2, h, p) \in States(Primary)
    BY <1>1, <1>2, <1>3
  <2>2. CASE p = "fresh"
    <3>1. h \intersect {"PRIVATE", "HEAP", "CONSOLE"} = {} /\ 2 \in 1..3
      OBVIOUS
    <3> QED BY <2>1, <2>2, <3>1, MakePrivateRuns, Zenon
  <2>3. CASE p = "ready"
    <3>1. x(2, h, p).phase # "fresh" /\ q = p
      BY <2>3, StateOf
    <3> QED BY <2>1, <3>1, RunsPrivate, Zenon
  <2> QED BY <2>2, <2>3
<1>5. Runs(Primary, bad, body, x(2, k, q), x(2, k, "ready"))
  <2>1. /\ x(2, k, q) \in States(Primary) /\ x(2, k, "ready") \in States(Primary)
        /\ x(2, k \union {"HEAP"}, q) \in States(Primary)
    BY <1>1, <1>2, <1>3
  <2>2. MayPanic(Primary, x(2, k, q))
    BY DEF MayPanic, MayHalt, Booting, S
  <2>3. Runs(Primary, bad, alloc, x(2, k, q), x(2, k, q))
    BY <1>1, <2>1, <2>2, AllocRuns, Zenon
  <2>4. May(Primary, bad, Do("register"), x(2, k, q), x(2, k, "ready"))
    BY Zenon DEF May, Do, S
  <2> QED BY <2>1, <2>3, <2>4, RunsOne, RunsThen, InstructionsHas, Zenon
<1> HIDE DEF body, q
<1>6. Runs(Primary, bad, Locked("SHARED", body), x(2, h, q), x(2, h, "ready"))
  <2>1. x(2, h, q) \in States(Primary) /\ x(2, h, "ready") \in States(Primary)
    BY <1>1, <1>2, <1>3
  <2>2. MayTake(Primary, h, q, "SHARED")
    BY <1>1 DEF q
  <2> QED BY <1>1, <1>5, <2>1, <2>2, LockedRuns, Zenon
<1>7. Runs(Primary, bad, <<Do("private")>> \o Locked("SHARED", body), x(2, h, p), x(2, h, "ready"))
  BY <1>4, <1>6, RunsThen, Zenon
<1>8. x(1, h, p) \in States(Primary) /\ x(1, h, "ready") \in States(Primary)
  BY <1>1, <1>2, <1>3
<1>9. 1 \in 0..4 /\ 1 + 1 = 2
  OBVIOUS
<1>10. Runs(Primary, bad, exception_free(<<Do("private")>> \o Locked("SHARED", body)),
            x(1, h, p), x(1, h, "ready"))
  BY <1>7, <1>8, <1>9, ExceptionFreeRuns, Zenon
<1> QED BY <1>10 DEF set_shared_irq_handler, body

LEMMA TwoInstructions ==
  ASSUME NEW a \in Instructions, NEW b \in Instructions
  PROVE  <<a>> \o <<b>> = <<a, b>>
<1> DEFINE s == <<a>> \o <<b>>
<1>1. <<a>> \in Seq(Instructions) /\ <<b>> \in Seq(Instructions)
  OBVIOUS
<1>2. s \in Seq(Instructions) /\ Len(s) = 2 /\ s[1] = a /\ s[2] = b
  BY <1>1
<1> HIDE DEF s
<1>3. \A i \in 1..2 : s[i] = <<a, b>>[i]
  <2>1. \A i \in 1..2 : i = 1 \/ i = 2
    OBVIOUS
  <2> QED BY <1>2, <2>1
<1>4. s = [i \in 1..2 |-> s[i]] /\ <<a, b>> = [i \in 1..2 |-> <<a, b>>[i]]
  BY <1>2
<1>5. s = <<a, b>>
  BY <1>3, <1>4, Zenon
<1> QED BY <1>5 DEF s

(* The states in which the shell and a secondary core run. *)
LEMMA BasicStates ==
  /\ \A e \in 1..5, g \in SUBSET Locks, r \in Phases, s \in Secondaries \union {None} :
       S(e, g, r, s) \in States(Primary)
  /\ \A s \in Secondaries \union {None}, g \in SUBSET {"STACKS", "HEAP"} :
       S(0, g, "up", s) \in States(Primary)
  /\ S(0, {}, "leaving", None) \in States(Primary)
  /\ \A c \in Secondaries, e \in 0..5 : S(e, {}, "up", None) \in States(c)
  /\ \A c \in Secondaries, e \in 1..5, g \in SUBSET Locks : S(e, g, "up", None) \in States(c)
<1>1. \A e \in 1..5, g \in SUBSET Locks, r \in Phases, s \in Secondaries \union {None} :
        S(e, g, r, s) \in States(Primary)
  BY DEF S, States
<1>2. ASSUME NEW s \in Secondaries \union {None}, NEW g \in SUBSET {"STACKS", "HEAP"}
      PROVE  S(0, g, "up", s) \in States(Primary)
  <2>1. g \in SUBSET Locks /\ "up" \in Phases
    BY Zenon DEF Locks, Phases
  <2> DEFINE x == S(0, g, "up", s)
  <2>2. x.phase = "up" /\ x.held = g /\ g \subseteq {"STACKS", "HEAP"}
    BY StateOf
  <2>3. Interruptible(Primary, x)
    BY <2>2, Zenon DEF Interruptible
  <2> QED BY <2>1, <2>3 DEF S, States
<1>3. S(0, {}, "leaving", None) \in States(Primary)
  BY DEF S, States, Interruptible, Phases
<1>4. ASSUME NEW c \in Secondaries, NEW e \in 0..5
      PROVE  S(e, {}, "up", None) \in States(c)
  BY Zenon DEF S, States, Interruptible, Phases
<1>5. ASSUME NEW c \in Secondaries, NEW e \in 1..5, NEW g \in SUBSET Locks
      PROVE  S(e, g, "up", None) \in States(c)
  BY DEF S, States, Phases
<1> QED BY <1>1, <1>2, <1>3, <1>4, <1>5, Zenon

LEMMA BootRuns ==
  ASSUME NEW bad
  PROVE  Runs(Primary, bad, boot, S(1, {}, "fresh", None), S(0, {}, "up", None))
<1> DEFINE x(d, p) == S(d, {}, p, None)
<1>1. x(1, "fresh") \in States(Primary) /\ x(1, "ready") \in States(Primary)
      /\ x(0, "up") \in States(Primary)
  <2>1. 1 \in 1..5
    OBVIOUS
  <2>2. "fresh" \in Phases /\ "ready" \in Phases /\ {} \in SUBSET Locks
        /\ {} \in SUBSET {"STACKS", "HEAP"} /\ None \in Secondaries \union {None}
    BY Zenon DEF Phases
  <2> QED BY <2>1, <2>2, BasicStates, Zenon
<1>2. Runs(Primary, bad, set_shared_irq_handler, x(1, "fresh"), x(1, "ready"))
  BY SetSharedRuns
<1>3. Runs(Primary, bad, log, x(1, "ready"), x(1, "ready"))
  BY <1>1, LogRuns
<1>4. Runs(Primary, bad, irq_setup, x(1, "ready"), x(1, "ready"))
  <2>1. Runs(Primary, bad, set_shared_irq_handler, S(1, {"GIC"}, "ready", None),
             S(1, {"GIC"}, "ready", None))
    BY SetSharedRuns
  <2> DEFINE y == S(1, {"GIC"}, "ready", None)
             body == set_shared_irq_handler \o <<Do("unwrap")>>
  <2>2. {} \union {"GIC"} = {"GIC"} /\ "GIC" \in Locks /\ "GIC" \notin {}
        /\ MayTake(Primary, {}, "ready", "GIC")
    BY DEF Locks, MayTake, Booting
  <2>3. y \in States(Primary)
    BY <2>1, RunsEnds
  <2>4. MayPanic(Primary, y)
    BY DEF MayPanic, MayHalt, Booting, S
  <2>5. Runs(Primary, bad, body, y, y)
    BY <2>1, <2>3, <2>4, RunsUnwrap, RunsThen, Zenon
  <2> HIDE DEF body
  <2>6. Runs(Primary, bad, Locked("GIC", body), x(1, "ready"), x(1, "ready"))
    BY <1>1, <2>2, <2>5, LockedRuns, Zenon
  <2> QED BY <2>6, Zenon DEF irq_setup, body
<1>5. Runs(Primary, bad, <<Do("irq_enable")>>, x(1, "ready"), x(0, "up"))
  <2>1. May(Primary, bad, Do("irq_enable"), x(1, "ready"), x(0, "up"))
    BY Zenon DEF May, Do, S
  <2> QED BY <1>1, <2>1, RunsOne, InstructionsHas
<1>6. Runs(Primary, bad, set_shared_irq_handler \o log, x(1, "fresh"), x(1, "ready"))
  BY <1>2, <1>3, RunsThen, Zenon
<1>7. Runs(Primary, bad, set_shared_irq_handler \o log \o irq_setup, x(1, "fresh"), x(1, "ready"))
  BY <1>4, <1>6, RunsThen, Zenon
<1> QED BY <1>5, <1>7, RunsThen, Zenon DEF boot

LEMMA ExitRuns ==
  ASSUME NEW bad
  PROVE  Runs(Primary, bad, exit, S(0, {}, "up", None), S(0, {}, "up", None))
<1> DEFINE x(d, g, p) == S(d, g, p, None)
           k == {"SHARED"}
           body == <<Do("unregister")>> \o dealloc
<1>1. /\ x(0, {}, "up") \in States(Primary) /\ x(0, {}, "leaving") \in States(Primary)
      /\ x(1, {}, "up") \in States(Primary) /\ x(1, {}, "leaving") \in States(Primary)
      /\ x(1, k, "up") \in States(Primary) /\ x(1, k, "leaving") \in States(Primary)
      /\ x(1, k \union {"HEAP"}, "leaving") \in States(Primary)
  <2>1. /\ {} \in SUBSET Locks /\ k \in SUBSET Locks /\ k \union {"HEAP"} \in SUBSET Locks
        /\ {} \in SUBSET {"STACKS", "HEAP"} /\ "up" \in Phases /\ "leaving" \in Phases
        /\ 1 \in 1..5 /\ None \in Secondaries \union {None}
    BY DEF Locks, Phases
  <2> QED BY <2>1, BasicStates
<1>2. Runs(Primary, bad, body, x(1, k, "up"), x(1, k, "leaving"))
  <2>1. May(Primary, bad, Do("unregister"), x(1, k, "up"), x(1, k, "leaving"))
    BY Zenon DEF May, Do, S
  <2>2. Runs(Primary, bad, <<Do("unregister")>>, x(1, k, "up"), x(1, k, "leaving"))
    BY <1>1, <2>1, RunsOne, InstructionsHas, Zenon
  <2>3. Runs(Primary, bad, dealloc, x(1, k, "leaving"), x(1, k, "leaving"))
    BY <1>1, DeallocRuns, Zenon
  <2> QED BY <2>2, <2>3, RunsThen, Zenon
<1> HIDE DEF body
<1>3. Runs(Primary, bad, Locked("SHARED", body), x(1, {}, "up"), x(1, {}, "leaving"))
  <2>1. {} \union {"SHARED"} = k /\ "SHARED" \in Locks /\ "SHARED" \notin {}
        /\ MayTake(Primary, {}, "up", "SHARED")
    BY Zenon DEF Locks, MayTake
  <2> QED BY <1>1, <1>2, <2>1, LockedRuns, Zenon
<1>4. Runs(Primary, bad, remove_shared_irq_handler, x(0, {}, "up"), x(0, {}, "leaving"))
  <2>1. 0 \in 0..4 /\ 0 + 1 = 1
    OBVIOUS
  <2> QED BY <1>1, <1>3, <2>1, ExceptionFreeRuns, Zenon DEF remove_shared_irq_handler, body
<1>5. Runs(Primary, bad, log, x(0, {}, "leaving"), x(0, {}, "leaving"))
  BY <1>1, LogRuns
<1>6. Runs(Primary, bad, power_off, x(0, {}, "leaving"), x(0, {}, "up"))
  <2>1. MayHalt(Primary, x(0, {}, "leaving"))
    BY DEF MayHalt, S
  <2>2. 0 \in 0..3 /\ "CONSOLE" \notin {}
    OBVIOUS
  <2> QED BY <1>1, <2>1, <2>2, PowerOffRuns, Zenon
<1>7. Runs(Primary, bad, remove_shared_irq_handler \o log, x(0, {}, "up"), x(0, {}, "leaving"))
  BY <1>4, <1>5, RunsThen
<1> QED BY <1>6, <1>7, RunsThen, Zenon DEF exit

LEMMA StartCoreRuns ==
  ASSUME NEW bad, NEW c \in Secondaries
  PROVE  Runs(Primary, bad, start_core(c), S(0, {}, "up", c), S(0, {}, "up", None))
<1> DEFINE x(g) == S(0, g, "up", c)
           y == S(0, {}, "up", None)
<1>1. /\ x({}) \in States(Primary) /\ x({"STACKS"}) \in States(Primary)
      /\ x({"STACKS"} \union {"HEAP"}) \in States(Primary) /\ y \in States(Primary)
  BY BasicStates
<1>2. Runs(Primary, bad, get_secondary_stack, x({}), x({}))
  <2>1. MayPanic(Primary, x({"STACKS"}))
    BY DEF MayPanic, MayHalt, S
  <2>2. Runs(Primary, bad, alloc, x({"STACKS"}), x({"STACKS"}))
    BY <1>1, <2>1, AllocRuns
  <2>3. {} \union {"STACKS"} = {"STACKS"} /\ "STACKS" \in Locks /\ "STACKS" \notin {}
        /\ MayTake(Primary, {}, "up", "STACKS")
    BY Zenon DEF Locks, MayTake
  <2> QED BY <1>1, <2>2, <2>3, LockedRuns DEF get_secondary_stack
<1>3. Runs(Primary, bad, <<CpuOn(c)>>, x({}), y)
  <2>1. CpuOn(c)[1] = "cpu_on" /\ CpuOn(c)[2] = c
    BY Zenon DEF CpuOn
  <2>2. May(Primary, bad, CpuOn(c), x({}), y)
    BY <2>1, Zenon DEF May, S
  <2>3. CpuOn(c) \in Instructions
    BY InstructionsHas, Zenon DEF Secondaries
  <2> QED BY <1>1, <2>2, <2>3, RunsOne, Zenon
<1>4. Runs(Primary, bad, write, y, y)
  <2>1. MayHalt(Primary, y)
    BY Zenon DEF MayHalt, S
  <2> QED BY <1>1, <2>1, WriteRuns
<1>5. Runs(Primary, bad, get_secondary_stack \o <<CpuOn(c)>>, x({}), y)
  BY <1>2, <1>3, RunsThen, Zenon
<1> QED BY <1>4, <1>5, RunsThen DEF start_core

LEMMA ReadWriteRuns ==
  ASSUME NEW bad, NEW s \in {read, write, log}
  PROVE  Runs(Primary, bad, s, S(0, {}, "up", None), S(0, {}, "up", None))
<1> DEFINE y == S(0, {}, "up", None)
<1>1. y \in States(Primary)
  BY BasicStates, Zenon
<1>2. MayHalt(Primary, y)
  BY Zenon DEF MayHalt, S
<1>3. Runs(Primary, bad, read, y, y) /\ Runs(Primary, bad, write, y, y)
  BY <1>1, <1>2, WriteRuns
<1>4. Runs(Primary, bad, log, y, y)
  BY <1>1, LogRuns
<1> QED BY <1>3, <1>4, Zenon

LEMMA SetPrivateRuns ==
  ASSUME NEW bad, NEW c \in Secondaries
  PROVE  Runs(c, bad, set_private_irq_handler, S(1, {}, "up", None), S(1, {}, "up", None))
<1> DEFINE x(d, g) == S(d, g, "up", None)
<1>1. /\ x(1, {}) \in States(c) /\ x(2, {}) \in States(c)
      /\ x(2, {} \union {"SHARED"}) \in States(c) /\ x(2, {} \union {"HEAP"}) \in States(c)
  BY BasicStates DEF Locks
<1>2. c # Primary /\ "SHARED" \in Locks /\ MayTake(c, {}, "up", "SHARED")
  BY Zenon DEF Secondaries, Locks, MayTake
<1>3. Runs(c, bad, Locked("SHARED", <<>>), x(2, {}), x(2, {}))
  BY <1>1, <1>2, LockedEmptyRuns, ZenonT(30)
<1>4. Runs(c, bad, <<Do("private")>>, x(2, {}), x(2, {}))
  BY <1>1, StateOf, RunsPrivate
<1>5. Runs(c, bad, alloc, x(2, {}), x(2, {}))
  <2>1. MayPanic(c, x(2, {}))
    BY <1>2 DEF MayPanic, MayHalt, S
  <2> QED BY <1>1, <2>1, AllocRuns, Zenon
<1>6. Runs(c, bad, <<Do("register")>>, x(2, {}), x(2, {}))
  <2>1. May(c, bad, Do("register"), x(2, {}), x(2, {}))
    BY Zenon DEF May, Do, S
  <2> QED BY <1>1, <2>1, RunsOne, InstructionsHas, Zenon
<1> DEFINE body == Locked("SHARED", <<>>) \o <<Do("private")>> \o alloc \o <<Do("register")>>
<1>7. Runs(c, bad, body, x(2, {}), x(2, {}))
  <2>1. Runs(c, bad, Locked("SHARED", <<>>) \o <<Do("private")>>, x(2, {}), x(2, {}))
    BY <1>3, <1>4, RunsThen, Zenon
  <2>2. Runs(c, bad, Locked("SHARED", <<>>) \o <<Do("private")>> \o alloc, x(2, {}), x(2, {}))
    BY <1>5, <2>1, RunsThen
  <2> QED BY <1>6, <2>2, RunsThen, Zenon
<1> HIDE DEF body
<1>8. 1 \in 0..4 /\ 1 + 1 = 2
  OBVIOUS
<1>9. Runs(c, bad, exception_free(body), x(1, {}), x(1, {}))
  BY <1>1, <1>7, <1>8, ExceptionFreeRuns, Zenon
<1> QED BY <1>9, Zenon DEF set_private_irq_handler, body

LEMMA RemovePrivateRuns ==
  ASSUME NEW bad, NEW c \in Secondaries
  PROVE  Runs(c, bad, remove_private_irq_handler, S(0, {}, "up", None), S(0, {}, "up", None))
<1> DEFINE x(d, g) == S(d, g, "up", None)
           y == x(1, {})
           both == <<Do("private"), Do("unregister")>>
<1>1. x(0, {}) \in States(c) /\ y \in States(c) /\ x(1, {} \union {"HEAP"}) \in States(c)
  BY BasicStates DEF Locks
<1>2. Runs(c, bad, both, y, y)
  <2>1. May(c, bad, Do("unregister"), y, y)
    BY ZenonT(30) DEF May, Do, S, Secondaries
  <2>2. Runs(c, bad, <<Do("unregister")>>, y, y)
    BY <1>1, <2>1, RunsOne, InstructionsHas, Zenon
  <2>3. Runs(c, bad, <<Do("private")>>, y, y)
    BY <1>1, StateOf, RunsPrivate
  <2>4. Runs(c, bad, <<Do("private")>> \o <<Do("unregister")>>, y, y)
    BY <2>2, <2>3, RunsThen, Zenon
  <2>5. <<Do("private")>> \o <<Do("unregister")>> = both
    BY InstructionsHas, TwoInstructions, Zenon
  <2> QED BY <2>4, <2>5, Zenon
<1>3. Runs(c, bad, dealloc, y, y)
  BY <1>1, DeallocRuns, Zenon
<1> DEFINE body == both \o dealloc
<1>4. Runs(c, bad, body, y, y)
  BY <1>2, <1>3, RunsThen, Zenon
<1> HIDE DEF body
<1>5. 0 \in 0..4 /\ 0 + 1 = 1
  OBVIOUS
<1>6. Runs(c, bad, exception_free(body), x(0, {}), x(0, {}))
  BY <1>1, <1>4, <1>5, ExceptionFreeRuns, Zenon
<1> QED BY <1>6, Zenon DEF remove_private_irq_handler, body

LEMMA SecondaryEntryRuns ==
  ASSUME NEW bad, NEW c \in Secondaries
  PROVE  Runs(c, bad, secondary_entry, S(1, {}, "up", None), S(1, {}, "up", None))
<1> DEFINE x == S(1, {}, "up", None)
           y == S(0, {}, "up", None)
           gic == Locked("GIC", <<>>)
           sgis == Locked("GIC", <<Do("unwrap")>>)
<1>1. /\ x \in States(c) /\ y \in States(c)
      /\ S(1, {} \union {"GIC"}, "up", None) \in States(c)
  BY BasicStates DEF Locks
<1>2. c # Primary /\ "GIC" \in Locks /\ MayTake(c, {}, "up", "GIC")
  BY Zenon DEF Secondaries, Locks, MayTake
<1>3. Runs(c, bad, log, x, x) /\ Runs(c, bad, log, y, y)
  BY <1>1, LogRuns
<1>4. Runs(c, bad, gic, x, x) /\ Runs(c, bad, sgis, x, x)
  <2> DEFINE y1 == S(1, {} \union {"GIC"}, "up", None)
  <2>1. {} \union {"GIC"} = {"GIC"}
    OBVIOUS
  <2>2. MayPanic(c, y1)
    BY <1>2, <2>1 DEF MayPanic, MayHalt, S
  <2>3. Runs(c, bad, <<Do("unwrap")>>, y1, y1)
    BY <1>1, <2>2, RunsUnwrap, Zenon
  <2>4. Runs(c, bad, sgis, x, x)
    BY <1>1, <1>2, <2>3, LockedRuns, Zenon
  <2>5. Runs(c, bad, gic, x, x)
    BY <1>1, <1>2, LockedEmptyRuns, Zenon
  <2> QED BY <2>4, <2>5, Zenon
<1>5. Runs(c, bad, <<Do("irq_enable")>>, x, y)
  <2>1. May(c, bad, Do("irq_enable"), x, y)
    BY Zenon DEF May, Do, S
  <2> QED BY <1>1, <2>1, RunsOne, InstructionsHas, Zenon
<1>6. Runs(c, bad, cpu_off, y, x)
  <2>1. MayPanic(c, y) /\ MayHalt(c, y)
    BY <1>2 DEF MayPanic, MayHalt, S
  <2>2. May(c, bad, Do("cpu_off"), y, y)
    BY <1>2, <2>1, Zenon DEF May, Do, S
  <2>3. Runs(c, bad, <<Do("cpu_off")>>, y, y) /\ Runs(c, bad, <<Do("loop")>>, y, x)
    BY <1>1, <2>1, <2>2, RunsOne, RunsLoop, InstructionsHas, Zenon
  <2>4. Runs(c, bad, <<Do("cpu_off")>> \o log, y, y)
    BY <1>3, <2>3, RunsThen, Zenon
  <2> QED BY <2>3, <2>4, RunsThen, Zenon DEF cpu_off
<1> HIDE DEF gic, sgis, x, y
<1> DEFINE s1 == log \o gic
           s2 == s1 \o log
           s3 == s2 \o sgis
           s4 == s3 \o set_private_irq_handler
           s5 == s4 \o <<Do("irq_enable")>>
           s6 == s5 \o log
           s7 == s6 \o remove_private_irq_handler
           s8 == s7 \o cpu_off
<1>7. Runs(c, bad, s3, x, x)
  <2>1. Runs(c, bad, s1, x, x)
    BY <1>3, <1>4, RunsThen, Zenon
  <2> HIDE DEF s1
  <2>2. Runs(c, bad, s2, x, x)
    BY <1>3, <2>1, RunsThen, Zenon
  <2> HIDE DEF s2
  <2> QED BY <1>4, <2>2, RunsThen, Zenon
<1> HIDE DEF s3
<1>8. Runs(c, bad, s5, x, y)
  <2>1. Runs(c, bad, s4, x, x)
    BY <1>7, SetPrivateRuns, RunsThen, Zenon DEF x
  <2> HIDE DEF s4
  <2> QED BY <1>5, <2>1, RunsThen, Zenon
<1> HIDE DEF s5
<1>9. Runs(c, bad, s6, x, y)
  BY <1>3, <1>8, RunsThen, Zenon
<1> HIDE DEF s6
<1>10. Runs(c, bad, s8, x, x)
  <2>1. Runs(c, bad, s7, x, y)
    BY <1>9, RemovePrivateRuns, RunsThen, Zenon DEF y
  <2> HIDE DEF s7
  <2> QED BY <1>6, <2>1, RunsThen, Zenon
<1> QED BY <1>10, Zenon DEF secondary_entry, x, gic, sgis, s3, s5, s6

(* The handlers, which an IRQ starts with exceptions masked once. *)
LEMMA HandlePrivateRuns ==
  ASSUME NEW bad, NEW c \in Secondaries
  PROVE  Runs(c, bad, handle_private, S(1, {}, "up", None), S(1, {}, "up", None))
<1> DEFINE x(d) == S(d, {}, "up", None)
           body == <<Do("private")>> \o secondary_irq_handler
<1>1. x(1) \in States(c) /\ x(2) \in States(c)
  BY BasicStates
<1>2. Runs(c, bad, <<Do("private")>>, x(2), x(2))
  BY <1>1, StateOf, RunsPrivate
<1>3. Runs(c, bad, log, x(2), x(2))
  BY <1>1, LogRuns
<1>4. Runs(c, bad, body, x(2), x(2))
  BY <1>2, <1>3, RunsThen, Zenon DEF secondary_irq_handler
<1> HIDE DEF body
<1>5. 1 \in 0..4 /\ 1 + 1 = 2
  OBVIOUS
<1>6. Runs(c, bad, exception_free(body), x(1), x(1))
  BY <1>1, <1>4, <1>5, ExceptionFreeRuns, Zenon
<1> QED BY <1>6, Zenon DEF handle_private, body

LEMMA HandleSharedRuns ==
  ASSUME NEW bad, NEW h \in SUBSET {"STACKS", "HEAP"}, NEW p \in {"up", "leaving"},
         NEW s \in Secondaries \union {None},
         NEW handler \in {console_handle_irq, irq_handle}
  PROVE  Runs(Primary, bad, handle_shared(handler), S(1, h, p, s), S(1, h, p, s))
<1> DEFINE k == h \union {"SHARED"}
           x(d, g) == S(d, g, p, s)
           body == <<Do("private")>> \o Locked("SHARED", handler)
<1>1. /\ h \in SUBSET Locks /\ k \in SUBSET Locks /\ "SHARED" \in Locks
      /\ "SHARED" \notin h /\ "CONSOLE" \notin k /\ p \in Phases
      /\ MayTake(Primary, h, p, "SHARED")
  BY Zenon DEF Locks, Phases, MayTake
<1>2. x(1, h) \in States(Primary) /\ x(2, h) \in States(Primary) /\ x(2, k) \in States(Primary)
  BY <1>1, BasicStates
<1>3. Runs(Primary, bad, handler, x(2, k), x(2, k))
  <2>1. Runs(Primary, bad, log, x(2, k), x(2, k))
    BY <1>1, <1>2, LogRuns
  <2>2. Runs(Primary, bad, console_handle_irq, x(2, k), x(2, k))
    <3>1. 2 \in 0..4
      OBVIOUS
    <3> QED BY <3>1, <1>1, <1>2, WriteFmtRuns, Zenon DEF console_handle_irq
  <2> QED BY <2>1, <2>2, Zenon DEF irq_handle
<1>4. Runs(Primary, bad, Locked("SHARED", handler), x(2, h), x(2, h))
  BY <1>1, <1>2, <1>3, LockedRuns
<1>5. Runs(Primary, bad, <<Do("private")>>, x(2, h), x(2, h))
  <2>1. x(2, h).phase # "fresh"
    BY StateOf
  <2> QED BY <1>2, <2>1, RunsPrivate
<1>6. Runs(Primary, bad, body, x(2, h), x(2, h))
  BY <1>4, <1>5, RunsThen, Zenon
<1> HIDE DEF body
<1>7. 1 \in 0..4 /\ 1 + 1 = 2
  OBVIOUS
<1>8. Runs(Primary, bad, exception_free(body), x(1, h), x(1, h))
  BY <1>2, <1>6, <1>7, ExceptionFreeRuns, Zenon
<1> QED BY <1>8 DEF handle_shared, body

(* No handler is found: the core panics, and holds nothing. *)
LEMMA HandleNoneRuns ==
  ASSUME NEW bad, NEW c \in Cores, NEW p \in {"up", "leaving"}, NEW s,
         S(1, {}, p, s) \in States(c)
  PROVE  Runs(c, bad, handle_none, S(1, {}, p, s), S(1, {}, p, s))
<1> DEFINE x(d, g) == S(d, g, p, s)
           start == <<Do("private")>> \o Locked("SHARED", <<>>)
           body == start \o <<Do("panic")>>
<1>1. x(2, {}) \in States(c) /\ x(2, {} \union {"SHARED"}) \in States(c)
      /\ "SHARED" \in Locks /\ MayTake(c, {}, p, "SHARED")
  BY MaskedState DEF Locks, MayTake
<1>2. Runs(c, bad, <<Do("private")>>, x(2, {}), x(2, {}))
  <2>1. x(2, {}).phase # "fresh"
    BY StateOf
  <2> QED BY <1>1, <2>1, RunsPrivate, Zenon
<1>3. Runs(c, bad, Locked("SHARED", <<>>), x(2, {}), x(2, {}))
  BY <1>1, LockedEmptyRuns, Zenon
<1>4. Runs(c, bad, <<Do("panic")>>, x(2, {}), x(2, {}))
  <2>1. MayPanic(c, x(2, {}))
    BY DEF MayPanic, MayHalt, S
  <2> QED BY <1>1, <2>1, RunsPanic, Zenon
<1>5. Runs(c, bad, start, x(2, {}), x(2, {}))
  BY <1>2, <1>3, RunsThen, Zenon
<1>6. Runs(c, bad, body, x(2, {}), x(2, {}))
  BY <1>4, <1>5, RunsThen, Zenon
<1> HIDE DEF body
<1>7. 1 \in 0..4 /\ 1 + 1 = 2
  OBVIOUS
<1>8. Runs(c, bad, exception_free(body), x(1, {}), x(1, {}))
  BY <1>1, <1>6, <1>7, ExceptionFreeRuns, Zenon
<1> QED BY <1>8, Zenon DEF handle_none, body

-----------------------------------------------------------------------------
(* The invariant *)

Held(c) == {l \in Locks : owner[l] = c}

(* The prompt of the shell, and a core that is off. *)
End(c) == IF c = Primary THEN S(0, {}, "up", None) ELSE S(1, {}, "up", None)

(* Core c is in state x and its program leads to its end. *)
Follows(c, x) ==
  /\ x.depth = depth[c] /\ x.held = Held(c)
  /\ Runs(c, failed, todo[c], x, End(c))

(* What state x of the primary says about the system. *)
Boots(x) ==
  /\ forced <=> x.phase # "fresh"
  /\ x.phase \in {"ready", "up"} => registered[Primary]
  /\ x.starts # None => todo[x.starts] = <<>>
  /\ Booting(x.phase) => \A c \in Secondaries : todo[c] = <<>>

AsAnnotated(c, x) == Follows(c, x) /\ (c = Primary => Boots(x))

IInv ==
  /\ TypeOK
  /\ todo \in [Cores -> Seq(Instructions)]
  /\ \A c \in Cores : \E x \in States(c) : AsAnnotated(c, x)

LEMMA EndStates ==
  ASSUME NEW c \in Cores
  PROVE  /\ End(c) \in States(c) /\ End(c).held = {}
         /\ End(c).depth = IF c = Primary THEN 0 ELSE 1
  BY BasicStates, StateOf DEF End, Secondaries

(* The next instruction of a core. *)
LEMMA NextInstruction ==
  ASSUME IInv, NEW c \in Cores, todo[c] # <<>>
  PROVE  \E x, z \in States(c) :
           /\ AsAnnotated(c, x)
           /\ May(c, failed, Head(todo[c]), x, z)
           /\ Runs(c, failed, Tail(todo[c]), z, End(c))
<1>1. PICK x \in States(c) : AsAnnotated(c, x)
  BY Zenon DEF IInv
<1>2. Runs(c, failed, todo[c], x, End(c))
  BY <1>1, Zenon DEF AsAnnotated, Follows
<1> QED BY <1>1, <1>2, RunsHead, Zenon

LEMMA IdleCore ==
  ASSUME IInv, NEW c \in Cores, todo[c] = <<>>
  PROVE  Held(c) = {} /\ depth[c] = IF c = Primary THEN 0 ELSE 1
<1>1. PICK x \in States(c) : AsAnnotated(c, x)
  BY Zenon DEF IInv
<1>2. x = End(c)
  BY <1>1, RunsEnds, Zenon DEF AsAnnotated, Follows
<1> QED BY <1>1, <1>2, EndStates, Zenon DEF AsAnnotated, Follows

LEMMA BootingAlone ==
  ASSUME IInv, NEW c \in Secondaries, todo[c] # <<>>
  PROVE  \E x \in States(Primary) :
           AsAnnotated(Primary, x) /\ ~Booting(x.phase) /\ forced /\ x.starts # c
<1>1. PICK x \in States(Primary) : AsAnnotated(Primary, x)
  BY LocksAssumption, Zenon DEF IInv
<1>2. ~Booting(x.phase) /\ x.starts # c
  <2>1. Boots(x)
    BY <1>1, Zenon DEF AsAnnotated
  <2>2. c \in Cores /\ c # None
    BY LocksAssumption, Zenon DEF Secondaries
  <2> QED BY <2>1, <2>2, Zenon DEF Boots
<1>3. forced
  BY <1>1, <1>2, Zenon DEF AsAnnotated, Boots, Booting
<1> QED BY <1>1, <1>2, <1>3, Zenon

(* No core that holds CONSOLE waits.  A secondary core that waits for      *)
(* another lock holds none, and the primary does not wait for itself, nor  *)
(* for the GIC once it has booted.                                         *)
LEMMA Waiting ==
  ASSUME IInv, ~failed, NEW c \in Cores, Waits(c)
  PROVE  /\ Head(todo[c])[2] \in Locks /\ Holder(c) \in Cores \ {c}
         /\ \E x \in States(c) : /\ AsAnnotated(c, x) /\ x.held = Held(c)
                                 /\ MayTake(c, Held(c), x.phase, Head(todo[c])[2])
<1> DEFINE op == Head(todo[c])
<1>1. todo[c] # <<>> /\ op[1] = "take" /\ owner[op[2]] # None
  BY Zenon DEF Waits
<1>2. op \in Instructions
  BY <1>1 DEF IInv
<1>3. op[2] \in Locks
  BY <1>1, <1>2 DEF Instructions, Take, Drop, CpuOn, Do
<1>4. PICK x, z \in States(c) : AsAnnotated(c, x) /\ May(c, failed, op, x, z)
  BY <1>1, NextInstruction, Zenon
<1>5. op[2] \notin x.held /\ MayTake(c, x.held, x.phase, op[2])
  BY <1>1, <1>4, Zenon DEF May
<1>6. x.held = Held(c)
  BY <1>4, Zenon DEF AsAnnotated, Follows
<1>7. owner[op[2]] \in Cores
  BY <1>1, <1>3, Zenon DEF IInv, TypeOK
<1>8. owner[op[2]] # c
  BY <1>3, <1>5, <1>6, Zenon DEF Held
<1> QED BY <1>3, <1>4, <1>5, <1>6, <1>7, <1>8, Zenon DEF Holder

LEMMA IInvNoDeadlock == IInv => NoDeadlock
<1> SUFFICES ASSUME IInv, ~failed, NEW W \in (SUBSET {c \in Cores : Waits(c)}) \ {{}}
             PROVE  \E c \in W : Holder(c) \notin W
  BY DEF NoDeadlock
<1>1. \A c \in W : c \in Cores /\ Waits(c)
  OBVIOUS
<1> SUFFICES ASSUME \A c \in W : Holder(c) \in W
             PROVE  FALSE
  BY Zenon
<1>2. ASSUME NEW c \in W, Holder(c) # Primary PROVE FALSE
  <2> DEFINE l == Head(todo[c])[2]
             h == Holder(c)
  <2>1. l \in Locks /\ h \in W
    BY <1>1, Waiting, Zenon
  <2>2. l \in Held(h)
    BY <2>1, Zenon DEF Held, Holder
  <2> HIDE DEF l
  <2>3. PICK p : MayTake(h, Held(h), p, Head(todo[h])[2])
    BY <1>1, <2>1, Waiting, Zenon
  <2>4. Held(h) = {"GIC"} /\ Head(todo[h])[2] = "CONSOLE"
    BY <1>2, <2>2, <2>3, Zenon DEF MayTake
  <2>5. Holder(h) \in W /\ "CONSOLE" \in Held(Holder(h))
    BY <2>1, <2>4, Zenon DEF Held, Holder, Locks
  <2>6. PICK q : MayTake(Holder(h), Held(Holder(h)), q, Head(todo[Holder(h)])[2])
    BY <1>1, <2>5, Waiting, Zenon
  <2> QED BY <2>5, <2>6, Zenon DEF MayTake
<1>3. CASE Primary \in W
  <2>1. Holder(Primary) # Primary
    BY <1>1, <1>3, Waiting, Zenon
  <2> QED BY <1>2, <1>3, <2>1, Zenon
<1>4. CASE Primary \notin W
  <2>1. PICK c \in W : TRUE
    <3>1. W # {}
      BY Zenon
    <3> QED BY <3>1
  <2> QED BY <1>2, <1>4, <2>1, Zenon
<1> QED BY <1>3, <1>4, Zenon

LEMMA IInvHalted == IInv => HaltedCoreStopsOnlyStarting
<1> SUFFICES ASSUME IInv, ~failed, NEW c \in Cores, Waits(c),
                    Head(todo[Holder(c)]) = Do("loop")
             PROVE  c \in Secondaries /\ Head(todo[c]) = Take("GIC")
  BY Zenon DEF HaltedCoreStopsOnlyStarting
<1> DEFINE l == Head(todo[c])[2]
           h == Holder(c)
<1>1. l \in Locks /\ h \in Cores \ {c} /\ l \in Held(h)
  BY Waiting, Zenon DEF Held, Holder
<1>2. todo[h] # <<>>
  BY <1>1, IdleCore, Zenon
<1>3. PICK x, z \in States(h) : AsAnnotated(h, x) /\ May(h, failed, Head(todo[h]), x, z)
  BY <1>1, <1>2, NextInstruction, Zenon
<1>4. Head(todo[h])[1] = "loop"
  BY DEF Do
<1>5. MayHalt(h, x) /\ l \in x.held
  BY <1>1, <1>3, <1>4, Zenon DEF May, AsAnnotated, Follows
<1>6. PICK w \in States(c) : AsAnnotated(c, w) /\ MayTake(c, w.held, w.phase, l)
  BY Waiting, Zenon
<1>7. CASE h = Primary
  <2>1. c \in Secondaries /\ l # "STACKS"
    BY <1>1, <1>6, <1>7, Zenon DEF MayTake, Secondaries
  <2>2. Booting(x.phase)
    BY <1>5, <1>7, <2>1, Zenon DEF MayHalt
  <2>3. todo[c] = <<>>
    BY <1>3, <1>7, <2>1, <2>2, Zenon DEF AsAnnotated, Boots
  <2> QED BY <2>3, Zenon DEF Waits
<1>8. CASE h # Primary
  <2>1. l = "GIC" /\ h \in Secondaries
    BY <1>1, <1>5, <1>8, Zenon DEF MayHalt, Secondaries
  <2>2. c # Primary
    <3> SUFFICES ASSUME c = Primary PROVE FALSE
      BY Zenon
    <3>1. Booting(w.phase)
      BY <1>6, <2>1, Zenon DEF MayTake
    <3>2. todo[h] = <<>>
      BY <1>6, <2>1, <3>1, Zenon DEF AsAnnotated, Boots
    <3> QED BY <1>2, <3>2, Zenon
  <2>3. Head(todo[c]) = Take("GIC")
    <3>1. Head(todo[c]) \in Instructions /\ Head(todo[c])[1] = "take"
      BY DEF IInv, Waits
    <3> QED BY <2>1, <3>1 DEF Instructions, Take, Drop, CpuOn, Do
  <2> QED BY <2>2, <2>3, Zenon DEF Secondaries
<1> QED BY <1>7, <1>8, Zenon

LEMMA InitIInv == Init => IInv
<1> SUFFICES ASSUME Init PROVE IInv
  BY Zenon
<1>1. TypeOK
  <2>1. depth \in [Cores -> 0..5] /\ owner \in [Locks -> Cores \union {None}]
    BY DEF Init
  <2>2. registered \in [Cores -> BOOLEAN]
    BY DEF Init
  <2> QED BY <2>1, <2>2, Zenon DEF Init, TypeOK
<1>2. \A c \in Cores : Held(c) = {}
  BY LocksAssumption, Zenon DEF Init, Held
<1>3. boot \in Seq(Instructions)
  BY BootRuns, RunsEnds
<1>4. todo \in [Cores -> Seq(Instructions)]
  BY <1>3 DEF Init
<1>5. ASSUME NEW c \in Secondaries PROVE \E x \in States(c) : AsAnnotated(c, x)
  <2>1. c \in Cores /\ c # Primary
    BY DEF Secondaries
  <2>2. todo[c] = <<>> /\ depth[c] = 1
    BY <2>1 DEF Init
  <2>3. Runs(c, failed, todo[c], End(c), End(c))
    BY <2>1, <2>2, EndStates, RunsEmpty
  <2> QED BY <1>2, <2>1, <2>2, <2>3, EndStates, Zenon DEF AsAnnotated, Follows
<1>6. \E x \in States(Primary) : AsAnnotated(Primary, x)
  <2> DEFINE x == S(1, {}, "fresh", None)
  <2>1. x.depth = 1 /\ x.held = {} /\ x.phase = "fresh" /\ x.starts = None
    BY StateOf
  <2>2. todo[Primary] = boot /\ depth[Primary] = 1 /\ forced = FALSE
    BY LocksAssumption, Zenon DEF Init
  <2>3. Runs(Primary, failed, todo[Primary], x, End(Primary))
    BY <2>2, BootRuns, Zenon DEF End
  <2>4. x \in States(Primary)
    BY <2>3, RunsEnds
  <2> HIDE DEF x
  <2>5. Follows(Primary, x)
    BY <1>2, <2>1, <2>2, <2>3, LocksAssumption, Zenon DEF Follows
  <2>6. Boots(x)
    <3>1. \A c \in Secondaries : todo[c] = <<>>
      BY Zenon DEF Init, Secondaries
    <3> QED BY <2>1, <2>2, <3>1, Zenon DEF Boots
  <2> QED BY <2>4, <2>5, <2>6 DEF AsAnnotated
<1> QED BY <1>1, <1>4, <1>5, <1>6, Zenon DEF IInv, Secondaries

-----------------------------------------------------------------------------
(* The steps *)

(* A step of one core, which leads it to state z. *)
LEMMA CoreStep ==
  ASSUME IInv, TypeOK', NEW c \in Cores, NEW z \in States(c),
         todo' \in [Cores -> Seq(Instructions)], failed => failed',
         \A d \in Cores \ {c} : /\ todo'[d] = todo[d] /\ depth'[d] = depth[d]
                               /\ Held(d)' = Held(d),
         z.depth = depth'[c], z.held = Held(c)', Runs(c, failed', todo'[c], z, End(c)),
         c = Primary => Boots(z)',
         c # Primary => /\ todo[c] # <<>> /\ forced' = forced
                        /\ registered'[Primary] = registered[Primary]
  PROVE  IInv'
<1>1. AsAnnotated(c, z)'
  BY Zenon DEF AsAnnotated, Follows
<1>2. ASSUME NEW d \in Cores \ {c}, NEW x \in States(d), AsAnnotated(d, x)
      PROVE  AsAnnotated(d, x)'
  <2>1. Follows(d, x)'
    <3>1. Runs(d, failed', todo'[d], x, End(d))
      BY <1>2, RunsWeaken, Zenon DEF AsAnnotated, Follows
    <3> QED BY <1>2, <3>1, Zenon DEF AsAnnotated, Follows
  <2>2. ASSUME d = Primary PROVE Boots(x)'
    <3>1. Boots(x) /\ c \in Secondaries /\ todo[c] # <<>>
      BY <1>2, <2>2, Zenon DEF AsAnnotated, Secondaries
    <3>2. ~Booting(x.phase)
      BY <3>1, Zenon DEF Boots
    <3>3. x.starts # None => todo'[x.starts] = <<>>
      <4> HAVE x.starts # None
      <4>1. x.starts \in Cores /\ x.starts # Primary
        BY StateFields, Zenon DEF Secondaries
      <4>2. todo[x.starts] = <<>> /\ x.starts # c
        BY <3>1, Zenon DEF Boots
      <4> QED BY <4>1, <4>2, ZenonT(30)
    <3>4. forced' = forced /\ registered'[Primary] = registered[Primary]
      BY <2>2, Zenon
    <3>5. (forced' <=> x.phase # "fresh") /\ (x.phase \in {"ready", "up"} => registered'[Primary])
      BY <3>1, <3>4, Zenon DEF Boots
    <3> QED BY <3>2, <3>3, <3>5, Zenon DEF Boots
  <2> QED BY <2>1, <2>2, Zenon DEF AsAnnotated
<1>3. ASSUME NEW d \in Cores PROVE \E x \in States(d) : AsAnnotated(d, x)'
  <2>1. CASE d = c
    BY <1>1, <2>1, Zenon
  <2>2. CASE d # c
    <3>1. PICK x \in States(d) : AsAnnotated(d, x)
      BY Zenon DEF IInv
    <3> QED BY <1>2, <2>2, <3>1, Zenon
  <2> QED BY <2>1, <2>2, Zenon
<1> QED BY <1>3, Zenon DEF IInv

(* A step of core c that ends with Continue. *)
LEMMA ContinueStep ==
  ASSUME IInv, TypeOK', NEW c \in Cores, todo[c] # <<>>, Continue(c),
         NEW x \in States(c), NEW z \in States(c), AsAnnotated(c, x),
         Runs(c, failed, Tail(todo[c]), z, End(c)), failed' = failed,
         \A d \in Cores \ {c} : depth'[d] = depth[d] /\ Held(d)' = Held(d),
         z.depth = depth'[c], z.held = Held(c)',
         c = Primary => /\ z.starts = x.starts
                        /\ forced' <=> z.phase # "fresh"
                        /\ z.phase \in {"ready", "up"} => registered'[Primary]
                        /\ Booting(z.phase) => Booting(x.phase),
         c # Primary => forced' = forced /\ registered'[Primary] = registered[Primary]
  PROVE  IInv'
<1>1. todo \in [Cores -> Seq(Instructions)]
  BY Zenon DEF IInv
<1>2. Tail(todo[c]) \in Seq(Instructions)
  BY RunsEnds, Zenon
<1>3. todo'[c] = Tail(todo[c]) /\ \A d \in Cores \ {c} : todo'[d] = todo[d]
  BY <1>1, Zenon DEF Continue
<1>4. todo' \in [Cores -> Seq(Instructions)]
  BY <1>1, <1>2, Zenon DEF Continue
<1>5. ASSUME c = Primary PROVE Boots(z)'
  <2>1. Boots(x)
    BY <1>5, Zenon DEF AsAnnotated
  <2>2. \A d \in Secondaries : todo'[d] = todo[d]
    BY <1>3, <1>5, Zenon DEF Secondaries
  <2>3. z.starts # None => todo'[z.starts] = <<>>
    BY <1>5, <2>1, <2>2, StateFields, ZenonT(30) DEF Boots
  <2>4. Booting(z.phase) => \A d \in Secondaries : todo'[d] = <<>>
    BY <1>5, <2>1, <2>2, Zenon DEF Boots
  <2>5. (forced' <=> z.phase # "fresh") /\ (z.phase \in {"ready", "up"} => registered'[Primary])
    BY <1>5, Zenon
  <2> QED BY <2>3, <2>4, <2>5, Zenon DEF Boots
<1> QED BY <1>3, <1>4, <1>5, CoreStep, Zenon

(* As above, when neither the phase nor what it stands for changes. *)
LEMMA QuietStep ==
  ASSUME IInv, TypeOK', NEW c \in Cores, todo[c] # <<>>, Continue(c),
         NEW x \in States(c), NEW z \in States(c), AsAnnotated(c, x),
         Runs(c, failed, Tail(todo[c]), z, End(c)),
         UNCHANGED <<failed, forced, registered>>,
         \A d \in Cores \ {c} : depth'[d] = depth[d] /\ Held(d)' = Held(d),
         z.depth = depth'[c], z.held = Held(c)',
         z.phase = x.phase, z.starts = x.starts
  PROVE  IInv'
<1>1. ASSUME c = Primary
      PROVE  /\ forced' <=> z.phase # "fresh"
             /\ z.phase \in {"ready", "up"} => registered'[Primary]
  BY <1>1, Zenon DEF AsAnnotated, Boots
<1> QED BY <1>1, ContinueStep, Zenon

LEMMA MaskStep ==
  ASSUME IInv, NEW c \in Cores, Mask(c) \/ Unmask(c)
  PROVE  IInv'
<1> DEFINE op == Head(todo[c])
<1>1. todo[c] # <<>> /\ Continue(c) /\ UNCHANGED <<system, owner, forced, registered, failed>>
  BY Zenon DEF Mask, Unmask, Executes
<1>2. PICK x, z \in States(c) : /\ AsAnnotated(c, x) /\ May(c, failed, op, x, z)
                               /\ Runs(c, failed, Tail(todo[c]), z, End(c))
  BY <1>1, NextInstruction, Zenon
<1>3. x.depth = depth[c] /\ x.held = Held(c)
  BY <1>2, Zenon DEF AsAnnotated, Follows
<1>4. \A d \in Cores : Held(d)' = Held(d)
  BY <1>1, Zenon DEF Held
<1>5. TypeOK /\ depth \in [Cores -> 0..5] /\ z.depth \in 0..5
  BY StateFields, Zenon DEF IInv, TypeOK
<1>6. ASSUME depth' = [depth EXCEPT ![c] = z.depth] PROVE TypeOK' /\ z.depth = depth'[c]
        /\ \A d \in Cores \ {c} : depth'[d] = depth[d]
  BY <1>1, <1>5, <1>6, Zenon DEF TypeOK
<1>7. CASE op[1] = "mask"
  <2>1. /\ z.depth = x.depth + 1 /\ z.held = x.held
        /\ z.phase = x.phase /\ z.starts = x.starts
    <3>1. z = S(x.depth + 1, x.held, x.phase, x.starts)
      BY <1>2, <1>7, Zenon DEF May
    <3> QED BY <3>1, Zenon DEF S
  <2>2. depth' = [depth EXCEPT ![c] = z.depth]
    BY <1>3, <1>7, <2>1, Zenon DEF Mask, Unmask, Executes
  <2> HIDE DEF op
  <2> QED BY <1>1, <1>2, <1>3, <1>4, <1>6, <2>1, <2>2, QuietStep, ZenonT(30)
<1>8. CASE op[1] = "restore"
  <2>1. /\ z.depth = x.depth - 1 /\ z.held = x.held
        /\ z.phase = x.phase /\ z.starts = x.starts
    <3>1. z = S(x.depth - 1, x.held, x.phase, x.starts)
      BY <1>2, <1>8, Zenon DEF May
    <3> QED BY <3>1, Zenon DEF S
  <2>2. depth' = [depth EXCEPT ![c] = z.depth]
    BY <1>3, <1>8, <2>1, Zenon DEF Mask, Unmask, Executes
  <2> HIDE DEF op
  <2> QED BY <1>1, <1>2, <1>3, <1>4, <1>6, <2>1, <2>2, QuietStep, Zenon
<1>9. CASE op[1] = "irq_enable"
  <2>1. /\ x.depth = 1 /\ x.phase \in {"ready", "up"} /\ z.depth = 0
        /\ z.held = x.held /\ z.phase = "up" /\ z.starts = x.starts
    <3>1. x.depth = 1 /\ x.phase \in {"ready", "up"} /\ z = S(0, x.held, "up", x.starts)
      BY <1>2, <1>9, Zenon DEF May
    <3> QED BY <3>1, Zenon DEF S
  <2>2. depth' = [depth EXCEPT ![c] = z.depth]
    <3>1. depth' = [depth EXCEPT ![c] = @ - 1]
      BY <1>9, Zenon DEF Mask, Unmask, Executes
    <3>2. depth[c] - 1 = z.depth
      BY <1>3, <2>1
    <3> QED BY <3>1, <3>2, Zenon
  <2>3. z.held = x.held /\ z.phase = "up" /\ z.starts = x.starts
    BY <2>1, Zenon
  <2>4. ASSUME c = Primary PROVE (forced' <=> z.phase # "fresh") /\ registered'[Primary]
    BY <1>1, <1>2, <2>1, <2>3, <2>4, Zenon DEF AsAnnotated, Boots
  <2>5. ~Booting(z.phase)
    BY <2>3, Zenon DEF Booting
  <2> HIDE DEF op
  <2> QED BY <1>1, <1>2, <1>3, <1>4, <1>6, <2>2, <2>3, <2>4, <2>5, ContinueStep, Zenon
<1> QED BY <1>7, <1>8, <1>9, Zenon DEF Mask, Unmask, Executes

LEMMA LockStep ==
  ASSUME IInv, NEW c \in Cores, TakeLock(c) \/ DropLock(c)
  PROVE  IInv'
<1> DEFINE op == Head(todo[c])
           l == op[2]
<1>1. /\ todo[c] # <<>> /\ Continue(c) /\ UNCHANGED <<system, depth, forced, registered, failed>>
      /\ op[1] \in {"take", "drop"}
  BY Zenon DEF TakeLock, DropLock, Executes
<1>2. PICK x, z \in States(c) : /\ AsAnnotated(c, x) /\ May(c, failed, op, x, z)
                               /\ Runs(c, failed, Tail(todo[c]), z, End(c))
  BY <1>1, NextInstruction, Zenon
<1>3. x.depth = depth[c] /\ x.held = Held(c)
  BY <1>2 DEF AsAnnotated, Follows
<1>4. TypeOK /\ owner \in [Locks -> Cores \union {None}] /\ c # None
  BY LocksAssumption, Zenon DEF IInv, TypeOK
<1>5. l \in Locks
  <2>1. op \in Instructions
    BY <1>1 DEF IInv
  <2> QED BY <1>1, <2>1 DEF Instructions, Take, Drop, CpuOn, Do
<1>6. CASE op[1] = "take"
  <2>1. owner[l] = None /\ owner' = [owner EXCEPT ![l] = c]
    BY <1>6, Zenon DEF TakeLock, DropLock, Executes
  <2>2. z = S(x.depth, x.held \union {l}, x.phase, x.starts)
    BY <1>2, <1>3, <1>4, <1>6, <2>1, Zenon DEF May, Held
  <2>3. TypeOK'
    BY <1>1, <1>4, <2>1, Zenon DEF TypeOK
  <2>4. Held(c)' = Held(c) \union {l} /\ \A d \in Cores \ {c} : Held(d)' = Held(d)
    BY <1>4, <1>5, <2>1, LocksAssumption, ZenonT(30) DEF Held
  <2>5. z.depth = depth'[c] /\ z.held = Held(c)' /\ z.phase = x.phase /\ z.starts = x.starts
        /\ \A d \in Cores : depth'[d] = depth[d]
    BY <1>1, <1>3, <2>2, <2>4 DEF S
  <2> HIDE DEF op
  <2> QED BY <1>1, <1>2, <2>3, <2>4, <2>5, QuietStep, Zenon
<1>7. CASE op[1] = "drop"
  <2>1. owner' = [owner EXCEPT ![l] = None]
    BY <1>7, Zenon DEF TakeLock, DropLock, Executes
  <2>2. z = S(x.depth, x.held \ {l}, x.phase, x.starts) /\ l \in Held(c)
    BY <1>2, <1>3, <1>7, Zenon DEF May
  <2>3. TypeOK'
    BY <1>1, <1>4, <2>1, Zenon DEF TypeOK
  <2>4. Held(c)' = Held(c) \ {l} /\ \A d \in Cores \ {c} : Held(d)' = Held(d)
    BY <1>4, <1>5, <2>1, <2>2, LocksAssumption, Zenon DEF Held
  <2>5. z.depth = depth'[c] /\ z.held = Held(c)' /\ z.phase = x.phase /\ z.starts = x.starts
        /\ \A d \in Cores : depth'[d] = depth[d]
    BY <1>1, <1>3, <2>2, <2>4, Zenon DEF S
  <2> HIDE DEF op
  <2> QED BY <1>1, <1>2, <2>3, <2>4, <2>5, QuietStep, Zenon
<1> QED BY <1>1, <1>6, <1>7, Zenon

LEMMA ProceedStep ==
  ASSUME IInv, NEW c \in Cores, Proceed(c)
  PROVE  IInv'
<1> DEFINE op == Head(todo[c])
<1>1. /\ todo[c] # <<>> /\ Continue(c)
      /\ UNCHANGED <<system, depth, owner, forced, registered, failed>>
      /\ op[1] \in {"unwrap", "system_off", "cpu_off"}
  BY Zenon DEF Proceed, Executes
<1>2. PICK x, z \in States(c) : /\ AsAnnotated(c, x) /\ May(c, failed, op, x, z)
                               /\ Runs(c, failed, Tail(todo[c]), z, End(c))
  BY <1>1, NextInstruction, Zenon
<1>3. x.depth = depth[c] /\ x.held = Held(c)
  BY <1>2, Zenon DEF AsAnnotated, Follows
<1>4. z = x
  BY <1>1, <1>2, Zenon DEF May
<1>5. TypeOK' /\ \A d \in Cores : Held(d)' = Held(d) /\ depth'[d] = depth[d]
  BY <1>1, Zenon DEF IInv, TypeOK, Held
<1> QED BY <1>1, <1>2, <1>3, <1>4, <1>5, QuietStep, Zenon

LEMMA ForceStep ==
  ASSUME IInv, NEW c \in Cores, ForceLazy(c)
  PROVE  IInv'
<1> DEFINE op == Head(todo[c])
<1>1. /\ todo[c] # <<>> /\ Continue(c) /\ op[1] = "force" /\ forced' = TRUE
      /\ UNCHANGED <<system, depth, owner, registered, failed>>
  BY Zenon DEF ForceLazy, Executes
<1>2. PICK x, z \in States(c) : /\ AsAnnotated(c, x) /\ May(c, failed, op, x, z)
                               /\ Runs(c, failed, Tail(todo[c]), z, End(c))
  BY <1>1, NextInstruction, Zenon
<1>3. x.phase = "fresh" /\ z = S(x.depth, x.held, "forced", x.starts)
  BY <1>1, <1>2, Zenon DEF May
<1>4. c = Primary
  BY <1>3, Zenon DEF States
<1>5. z.depth = depth[c] /\ z.held = Held(c) /\ z.phase = "forced" /\ z.starts = x.starts
  <2>1. z.depth = x.depth /\ z.held = x.held /\ z.phase = "forced" /\ z.starts = x.starts
    BY <1>3, Zenon DEF S
  <2>2. x.depth = depth[c] /\ x.held = Held(c)
    BY <1>2 DEF AsAnnotated, Follows
  <2> QED BY <2>1, <2>2, Zenon
<1>6. TypeOK' /\ \A d \in Cores : Held(d)' = Held(d) /\ depth'[d] = depth[d]
  BY <1>1, Zenon DEF IInv, TypeOK, Held
<1>7. Booting("fresh") /\ z.phase # "fresh"
  BY <1>5, Zenon DEF Booting
<1> HIDE DEF op
<1> QED BY <1>1, <1>2, <1>3, <1>4, <1>5, <1>6, <1>7, ContinueStep, Zenon

LEMMA RegisterStep ==
  ASSUME IInv, NEW c \in Cores, Register(c)
  PROVE  IInv'
<1> DEFINE op == Head(todo[c])
<1>1. /\ todo[c] # <<>> /\ Continue(c) /\ op[1] \in {"register", "unregister"}
      /\ UNCHANGED <<system, depth, owner, forced, failed>>
      /\ registered' = [registered EXCEPT ![c] = Executes(c, "register")]
  BY Zenon DEF Register, Executes
<1>2. PICK x, z \in States(c) : /\ AsAnnotated(c, x) /\ May(c, failed, op, x, z)
                               /\ Runs(c, failed, Tail(todo[c]), z, End(c))
  BY <1>1, NextInstruction, Zenon
<1>3. TypeOK /\ registered \in [Cores -> BOOLEAN]
  BY Zenon DEF IInv, TypeOK
<1>4. registered' \in [Cores -> BOOLEAN]
  <2>1. Executes(c, "register") \in BOOLEAN
    BY Zenon DEF Executes
  <2> QED BY <1>1, <1>3, <2>1, Zenon
<1>5. TypeOK' /\ \A d \in Cores : Held(d)' = Held(d) /\ depth'[d] = depth[d]
  BY <1>1, <1>3, <1>4, Zenon DEF TypeOK, Held
<1>6. registered'[c] = Executes(c, "register")
      /\ \A d \in Cores \ {c} : registered'[d] = registered[d]
  BY <1>1, <1>3, Zenon
<1>7. op[1] = "register" => registered'[c]
  BY <1>1, <1>6, ZenonT(30) DEF Register, Executes
<1>8. z.depth = depth[c] /\ z.held = Held(c) /\ z.starts = x.starts
  <2>1. z = x \/ \E ph : z = S(x.depth, x.held, ph, x.starts)
    BY <1>1, <1>2, ZenonT(30) DEF May
  <2>2. z.depth = x.depth /\ z.held = x.held /\ z.starts = x.starts
    BY <2>1 DEF S
  <2> QED BY <1>2, <2>2 DEF AsAnnotated, Follows
<1>9. ASSUME c = Primary
      PROVE  /\ forced' <=> z.phase # "fresh"
             /\ z.phase \in {"ready", "up"} => registered'[Primary]
             /\ Booting(z.phase) => Booting(x.phase)
  <2>1. forced <=> x.phase # "fresh"
    BY <1>2, <1>9, Zenon DEF AsAnnotated, Boots
  <2>2. CASE op[1] = "register"
    <3>1. z.phase = IF x.phase = "forced" THEN "ready" ELSE x.phase
      <4>1. z = IF x.phase = "forced" THEN S(x.depth, x.held, "ready", x.starts) ELSE x
        BY <1>2, <2>2, Zenon DEF May
      <4> QED BY <4>1, Zenon DEF S
    <3> QED BY <1>1, <1>7, <1>9, <2>1, <2>2, <3>1, Zenon DEF Booting
  <2>3. CASE op[1] = "unregister"
    <3>1. x.phase = "up" /\ z.phase = "leaving"
      <4>1. x.phase = "up" /\ z = S(x.depth, x.held, "leaving", x.starts)
        BY <1>2, <1>9, <2>3, Zenon DEF May
      <4> QED BY <4>1, Zenon DEF S
    <3> QED BY <1>1, <2>1, <3>1, Zenon DEF Booting
  <2> QED BY <1>1, <2>2, <2>3, Zenon
<1>10. c # Primary => registered'[Primary] = registered[Primary]
  BY <1>6, LocksAssumption, Zenon
<1> HIDE DEF op
<1> QED BY <1>1, <1>2, <1>5, <1>8, <1>9, <1>10, ContinueStep, Zenon

LEMMA UsePrivateStep ==
  ASSUME IInv, NEW c \in Cores, UsePrivate(c)
  PROVE  IInv'
<1> DEFINE op == Head(todo[c])
           make == Locked("PRIVATE", alloc \o <<Do("force")>>)
<1>1. /\ todo[c] # <<>> /\ op[1] = "private"
      /\ UNCHANGED <<system, depth, owner, forced, registered, failed>>
  BY Zenon DEF UsePrivate, Executes
<1>2. PICK x, z \in States(c) : /\ AsAnnotated(c, x) /\ May(c, failed, op, x, z)
                               /\ Runs(c, failed, Tail(todo[c]), z, End(c))
  BY <1>1, NextInstruction, Zenon
<1>3. x.depth = depth[c] /\ x.held = Held(c)
  BY <1>2 DEF AsAnnotated, Follows
<1>4. TypeOK' /\ \A d \in Cores : Held(d)' = Held(d) /\ depth'[d] = depth[d]
  BY <1>1, Zenon DEF IInv, TypeOK, Held
<1>5. forced <=> x.phase # "fresh"
  <2>1. CASE c = Primary
    BY <1>2, <2>1, Zenon DEF AsAnnotated, Boots
  <2>2. CASE c # Primary
    <3>1. forced
      BY <1>1, <2>2, BootingAlone, Zenon DEF Secondaries
    <3>2. x.phase = "up"
      BY <2>2, Zenon DEF States
    <3> QED BY <3>1, <3>2, Zenon
  <2> QED BY <2>1, <2>2, Zenon
<1>6. CASE forced
  <2>1. Continue(c)
    BY <1>6, Zenon DEF UsePrivate, Continue
  <2>2. z = x
    BY <1>1, <1>2, <1>5, <1>6, ZenonT(30) DEF May
  <2> HIDE DEF op
  <2> QED BY <1>1, <1>2, <1>3, <1>4, <2>1, <2>2, QuietStep, Zenon
<1>7. CASE ~forced
  <2>1. todo' = [todo EXCEPT ![c] = make \o Tail(todo[c])]
    BY <1>7, Zenon DEF UsePrivate
  <2>2. c = Primary
    BY <1>5, <1>7, Zenon DEF States
  <2>3. /\ x.depth \in 1..3 /\ x.held \intersect {"PRIVATE", "HEAP", "CONSOLE"} = {}
        /\ z = S(x.depth, x.held, "forced", x.starts)
    BY <1>1, <1>2, <1>5, <1>7, Zenon DEF May
  <2>4. x = S(x.depth, x.held, "fresh", x.starts)
    BY <1>5, <1>7, StateFields, Zenon
  <2>5. Runs(c, failed, make, x, z)
    BY <2>2, <2>3, <2>4, MakePrivateRuns, Zenon
  <2> HIDE DEF make
  <2>6. Runs(c, failed, make \o Tail(todo[c]), x, End(c))
    BY <1>2, <2>5, RunsThen, ZenonT(30)
  <2>7. /\ todo' \in [Cores -> Seq(Instructions)]
        /\ todo'[c] = make \o Tail(todo[c])
        /\ \A d \in Cores \ {c} : todo'[d] = todo[d]
    BY <2>1, <2>6, RunsEnds, ZenonT(30) DEF IInv
  <2>8. Boots(x)'
    <3>1. Boots(x)
      BY <1>2, <2>2 DEF AsAnnotated
    <3>2. \A d \in Secondaries : todo'[d] = todo[d]
      BY <2>2, <2>7, Zenon DEF Secondaries
    <3> QED BY <1>1, <3>1, <3>2, StateFields DEF Boots
  <2> HIDE DEF op
  <2> QED BY <1>1, <1>3, <1>4, <2>2, <2>6, <2>7, <2>8, CoreStep, ZenonT(30)
<1> QED BY <1>6, <1>7, Zenon

(* A panic replaces what the core had left to do. *)
LEMMA PanicsStep ==
  ASSUME IInv, NEW c \in Cores, Panics(c)
  PROVE  IInv'
<1> DEFINE op == Head(todo[c])
<1>1. /\ todo[c] # <<>> /\ op[1] \in {"unwrap", "panic", "cpu_off"}
      /\ UNCHANGED <<system, depth, owner, forced, registered>>
      /\ todo' = [todo EXCEPT ![c] = panic]
      /\ failed' = (failed \/ owner["CONSOLE"] = c)
  BY Zenon DEF Panics, Executes
<1>2. PICK x, z \in States(c) : AsAnnotated(c, x) /\ May(c, failed, op, x, z)
  BY <1>1, NextInstruction, Zenon
<1>3. x.depth = depth[c] /\ x.held = Held(c)
  BY <1>2, Zenon DEF AsAnnotated, Follows
<1>4. TypeOK' /\ \A d \in Cores : Held(d)' = Held(d) /\ depth'[d] = depth[d]
  <2>1. failed' \in BOOLEAN
    BY <1>1, Zenon DEF IInv, TypeOK
  <2> QED BY <1>1, <2>1, Zenon DEF IInv, TypeOK, Held
<1>5. MayPanic(c, x)
  BY <1>1, <1>2, Zenon DEF May
<1>6. "CONSOLE" \in x.held => failed'
  BY <1>1, <1>3, Zenon DEF Held
<1>7. Runs(c, failed', panic, x, End(c))
  BY <1>5, <1>6, EndStates, PanicRuns, Zenon
<1>8. /\ todo' \in [Cores -> Seq(Instructions)] /\ todo'[c] = panic
      /\ \A d \in Cores \ {c} : todo'[d] = todo[d]
  BY <1>1, <1>7, RunsEnds, Zenon DEF IInv
<1>9. c = Primary => Boots(x)'
  <2> HAVE c = Primary
  <2>1. Boots(x)
    BY <1>2, Zenon DEF AsAnnotated
  <2>2. \A d \in Secondaries : todo'[d] = todo[d]
    BY <1>8, Zenon DEF Secondaries
  <2> QED BY <1>1, <2>1, <2>2, StateFields, Zenon DEF Boots
<1>10. failed => failed'
  BY <1>1, Zenon
<1> HIDE DEF op
<1> QED BY <1>1, <1>3, <1>4, <1>7, <1>8, <1>9, <1>10, CoreStep, Zenon

(* A core that is switched off holds no lock. *)
LEMMA CpuOffStep ==
  ASSUME IInv, NEW c \in Cores, CpuOff(c)
  PROVE  IInv'
<1> DEFINE op == Head(todo[c])
<1>1. /\ todo[c] # <<>> /\ op[1] = "cpu_off"
      /\ UNCHANGED <<system, owner, forced, registered, failed>>
      /\ todo' = [todo EXCEPT ![c] = <<>>] /\ depth' = [depth EXCEPT ![c] = 1]
  BY Zenon DEF CpuOff, Executes
<1>2. PICK x, z \in States(c) : AsAnnotated(c, x) /\ May(c, failed, op, x, z)
  BY <1>1, NextInstruction, Zenon
<1>3. c # Primary /\ x.held = {}
  BY <1>1, <1>2, Zenon DEF May
<1>4. Held(c) = {}
  BY <1>2, <1>3, Zenon DEF AsAnnotated, Follows
<1>5. depth \in [Cores -> 0..5] /\ todo \in [Cores -> Seq(Instructions)]
  BY Zenon DEF IInv, TypeOK
<1>6. depth' \in [Cores -> 0..5] /\ depth'[c] = 1 /\ \A d \in Cores \ {c} : depth'[d] = depth[d]
  BY <1>1, <1>5
<1>7. TypeOK' /\ \A d \in Cores : Held(d)' = Held(d)
  BY <1>1, <1>6, Zenon DEF IInv, TypeOK, Held
<1>8. /\ todo' \in [Cores -> Seq(Instructions)] /\ todo'[c] = <<>>
      /\ \A d \in Cores \ {c} : todo'[d] = todo[d]
  BY <1>1, <1>5
<1>9. Runs(c, failed', todo'[c], End(c), End(c))
  <2>1. End(c) \in States(c)
    BY EndStates, Zenon
  <2>2. Runs(c, failed', <<>>, End(c), End(c))
    BY <2>1, RunsEmpty, Zenon
  <2> QED BY <1>8, <2>2, Zenon
<1>10. End(c) \in States(c) /\ End(c).depth = depth'[c] /\ End(c).held = Held(c)'
  BY <1>3, <1>4, <1>6, <1>7, EndStates, Zenon
<1> HIDE DEF op
<1> QED BY <1>1, <1>3, <1>6, <1>7, <1>8, <1>9, <1>10, CoreStep, ZenonT(30)

LEMMA SystemOffStep ==
  ASSUME IInv, NEW c \in Cores, SystemOff(c)
  PROVE  IInv'
<1>1. UNCHANGED <<todo, depth, owner, forced, registered, failed>> /\ system' = "off"
  BY Zenon DEF SystemOff
<1>2. TypeOK'
  BY <1>1, Zenon DEF IInv, TypeOK
<1>3. \A d \in Cores : \E x \in States(d) : AsAnnotated(d, x)'
  <2> TAKE d \in Cores
  <2>1. PICK x \in States(d) : AsAnnotated(d, x)
    BY Zenon DEF IInv
  <2>2. AsAnnotated(d, x)'
    BY <1>1, <2>1, Zenon DEF AsAnnotated, Follows, Boots, Held
  <2> QED BY <2>2, Zenon
<1> QED BY <1>1, <1>2, <1>3, Zenon DEF IInv

(* The core the shell has chosen is off, and starts with no lock. *)
LEMMA StartCoreStep ==
  ASSUME IInv, NEW c \in Cores, StartCore(c)
  PROVE  IInv'
<1> DEFINE op == Head(todo[c])
<1>1. /\ todo[c] # <<>> /\ op[1] = "cpu_on"
      /\ UNCHANGED <<system, owner, forced, registered, failed>>
      /\ todo' = [todo EXCEPT ![c] = Tail(@), ![op[2]] = secondary_entry]
      /\ depth' = [depth EXCEPT ![op[2]] = 1]
  BY Zenon DEF StartCore, Executes
<1>2. PICK x, z \in States(c) : /\ AsAnnotated(c, x) /\ May(c, failed, op, x, z)
                               /\ Runs(c, failed, Tail(todo[c]), z, End(c))
  BY <1>1, NextInstruction, Zenon
<1>3. /\ c = Primary /\ x.phase = "up" /\ x.starts = op[2]
      /\ z = S(x.depth, x.held, x.phase, None)
  BY <1>1, <1>2, Zenon DEF May
<1>4. PICK d \in Cores : d = op[2] /\ d # None /\ d # Primary
  <2>1. op \in Instructions
    BY <1>1 DEF IInv
  <2>2. op[2] \in Cores
    BY <1>1, <2>1 DEF Instructions, Take, Drop, CpuOn, Do
  <2>3. op[2] \in Secondaries \union {None}
    BY <1>3, StateFields, Zenon
  <2> QED BY <2>2, <2>3, LocksAssumption, Zenon DEF Secondaries
<1> HIDE DEF op
<1>5. todo[d] = <<>> /\ Held(d) = {}
  <2>1. todo[d] = <<>>
    BY <1>2, <1>3, <1>4, Zenon DEF AsAnnotated, Boots
  <2> QED BY <1>4, <2>1, IdleCore, Zenon
<1>6. PICK y : y = S(1, {}, "up", None) /\ Runs(d, failed, secondary_entry, y, y)
  BY <1>4, SecondaryEntryRuns, Zenon DEF Secondaries
<1>7. /\ Tail(todo[c]) \in Seq(Instructions) /\ secondary_entry \in Seq(Instructions)
      /\ y \in States(d)
  <2>1. Tail(todo[c]) \in Seq(Instructions)
    BY <1>2, RunsEnds, Zenon
  <2>2. secondary_entry \in Seq(Instructions) /\ y \in States(d)
    BY <1>6, RunsEnds
  <2> QED BY <2>1, <2>2, Zenon
<1>8. /\ todo' \in [Cores -> Seq(Instructions)]
      /\ todo'[c] = Tail(todo[c]) /\ todo'[d] = secondary_entry
      /\ \A e \in Cores \ {c, d} : todo'[e] = todo[e]
  <2> DEFINE t == [todo EXCEPT ![c] = Tail(@)]
  <2>1. /\ t \in [Cores -> Seq(Instructions)] /\ t[c] = Tail(todo[c])
        /\ \A e \in Cores \ {c} : t[e] = todo[e]
    BY <1>7, Zenon DEF IInv
  <2>2. todo' = [t EXCEPT ![d] = secondary_entry]
    BY <1>1, <1>4, Zenon
  <2> HIDE DEF t
  <2> QED BY <1>3, <1>4, <1>7, <2>1, <2>2, Zenon
<1>9. /\ depth' \in [Cores -> 0..5] /\ depth'[d] = 1
      /\ \A e \in Cores \ {d} : depth'[e] = depth[e]
  BY <1>1, <1>4 DEF IInv, TypeOK
<1>10. TypeOK' /\ \A e \in Cores : Held(e)' = Held(e)
  BY <1>1, <1>9, Zenon DEF IInv, TypeOK, Held
<1>11. AsAnnotated(c, z)'
  <2>1. z.depth = x.depth /\ z.held = x.held /\ z.phase = "up" /\ z.starts = None
    BY <1>3, Zenon DEF S
  <2>2. x.depth = depth[c] /\ x.held = Held(c) /\ Boots(x)
    BY <1>2, <1>3, Zenon DEF AsAnnotated, Follows
  <2>3. z.depth = depth'[c] /\ z.held = Held(c)'
    BY <2>1, <2>2, <1>3, <1>4, <1>9, <1>10, Zenon
  <2>4. Runs(c, failed', todo'[c], z, End(c))
    BY <1>1, <1>2, <1>8, Zenon
  <2>5. Follows(c, z)'
    BY <2>3, <2>4, SMTT(30) DEF Follows
  <2>6. Boots(z)'
    BY <1>1, <1>3, <2>1, <2>2 DEF Boots, Booting
  <2> QED BY <2>5, <2>6, Zenon DEF AsAnnotated
<1>12. AsAnnotated(d, y)'
  <2>1. y.depth = 1 /\ y.held = {}
    BY <1>6, Zenon DEF S
  <2>2. y.depth = depth'[d] /\ y.held = Held(d)'
    BY <2>1, <1>4, <1>5, <1>9, <1>10, Zenon
  <2>3. Runs(d, failed', todo'[d], y, End(d))
    <3>1. End(d) = y
      BY <1>4, <1>6, Zenon DEF End
    <3>2. failed' = failed /\ todo'[d] = secondary_entry
      BY <1>1, <1>8, ZenonT(30)
    <3> QED BY <1>6, <3>1, <3>2, Zenon
  <2>4. Follows(d, y)'
    BY <2>2, <2>3, SMTT(30) DEF Follows
  <2> QED BY <1>4, <2>4, Zenon DEF AsAnnotated
<1>13. ASSUME NEW e \in Cores \ {c, d} PROVE \E w \in States(e) : AsAnnotated(e, w)'
  <2>1. PICK w \in States(e) : AsAnnotated(e, w)
    BY Zenon DEF IInv
  <2>2. todo'[e] = todo[e] /\ depth'[e] = depth[e] /\ Held(e)' = Held(e) /\ failed' = failed
    BY <1>1, <1>8, <1>9, <1>10, Zenon
  <2>3. Follows(e, w)'
    BY <2>1, <2>2, Zenon DEF AsAnnotated, Follows
  <2> QED BY <1>3, <2>1, <2>3 DEF AsAnnotated
<1>14. ASSUME NEW e \in Cores PROVE \E w \in States(e) : AsAnnotated(e, w)'
  <2>1. CASE e = c
    BY <1>11, <2>1, Zenon
  <2>2. CASE e = d
    BY <1>7, <1>12, <2>2, Zenon
  <2>3. CASE e \in Cores \ {c, d}
    BY <1>13, <2>3, Zenon
  <2> QED BY <2>1, <2>2, <2>3, Zenon
<1> QED BY <1>8, <1>10, <1>14, Zenon DEF IInv

(* The shell runs a command from its prompt. *)
LEMMA CommandStep ==
  ASSUME IInv, Command
  PROVE  IInv'
<1>1. /\ Primary \in Cores /\ todo[Primary] = <<>>
      /\ UNCHANGED <<system, depth, owner, forced, registered, failed>>
  BY LocksAssumption, Zenon DEF Command
<1>2. PICK p \in Commands : todo' = [todo EXCEPT ![Primary] = p]
  BY Zenon DEF Command
<1>3. PICK x \in States(Primary) : AsAnnotated(Primary, x)
  BY <1>1 DEF IInv
<1>4. x = End(Primary)
  BY <1>1, <1>3, RunsEnds, Zenon DEF AsAnnotated, Follows
<1>5. x = S(0, {}, "up", None)
  BY <1>4, Zenon DEF End
<1>6. x.depth = 0 /\ x.held = {} /\ x.phase = "up" /\ Boots(x)
      /\ depth[Primary] = 0 /\ Held(Primary) = {}
  BY <1>3, <1>5, Zenon DEF S, AsAnnotated, Follows
<1>7. PICK s \in Secondaries \union {None} :
        /\ Runs(Primary, failed, p, S(0, {}, "up", s), End(Primary))
        /\ s # None => todo[s] = <<>>
  <2>1. CASE p \in {read, write, log, exit}
    BY <2>1, ReadWriteRuns, ExitRuns, Zenon DEF End
  <2>2. CASE \E c \in {d \in Secondaries : todo[d] = <<>>} : p = start_core(c)
    BY <2>2, StartCoreRuns, Zenon DEF End
  <2> QED BY <2>1, <2>2, Zenon DEF Commands
<1> DEFINE z == S(0, {}, "up", s)
<1>8. z.depth = 0 /\ z.held = {} /\ z.phase = "up" /\ z.starts = s
  BY Zenon DEF S
<1>9. z \in States(Primary) /\ p \in Seq(Instructions)
  BY <1>7, RunsEnds
<1> HIDE DEF z
<1>10. /\ todo' \in [Cores -> Seq(Instructions)] /\ todo'[Primary] = p
       /\ \A d \in Cores \ {Primary} : todo'[d] = todo[d]
  BY <1>1, <1>2, <1>9, Zenon DEF IInv
<1>11. TypeOK' /\ \A d \in Cores : Held(d)' = Held(d) /\ depth'[d] = depth[d]
  BY <1>1, Zenon DEF IInv, TypeOK, Held
<1>12. Boots(z)'
  <2>1. s # None => todo'[s] = <<>>
    BY <1>7, <1>10, Zenon DEF Secondaries
  <2> QED BY <1>1, <1>6, <1>8, <2>1, Zenon DEF Boots, Booting
<1>13. Runs(Primary, failed', todo'[Primary], z, End(Primary))
  BY <1>1, <1>7, <1>10, Zenon DEF z
<1>14. z.depth = depth'[Primary] /\ z.held = Held(Primary)'
  BY <1>1, <1>6, <1>8, <1>11, Zenon
<1> QED BY <1>1, <1>9, <1>10, <1>11, <1>12, <1>13, <1>14, CoreStep, Zenon

(* What an IRQ starts runs with exceptions masked once, on top of what the *)
(* core was doing, and takes no lock the core holds.                       *)
LEMMA HandlerRuns ==
  ASSUME IInv, NEW c \in Cores, NEW x \in States(c), AsAnnotated(c, x), x.depth = 0,
         NEW p \in Handlers(c), NEW z, z = S(1, x.held, x.phase, x.starts)
  PROVE  Runs(c, failed, p, z, z)
<1>1. Interruptible(c, x) /\ (c # Primary => x.phase = "up" /\ x.starts = None)
  BY Zenon DEF States
<1>2. z \in States(c) /\ x.starts \in Secondaries \union {None}
  <2>1. x \in [depth : 0..5, held : SUBSET Locks, phase : Phases,
               starts : Secondaries \union {None}]
    BY Zenon DEF States
  <2>2. z \in [depth : 0..5, held : SUBSET Locks, phase : Phases,
               starts : Secondaries \union {None}] /\ z.depth # 0
        /\ z.phase = x.phase /\ z.starts = x.starts
    BY <2>1 DEF S
  <2> QED BY <1>1, <2>1, <2>2, Zenon DEF States
<1>3. CASE c # Primary
  <2>1. z = S(1, {}, "up", None) /\ c \in Secondaries
    BY <1>1, <1>3, Zenon DEF Interruptible, Secondaries
  <2>2. p \in {handle_private, handle_none}
    BY <1>3, Zenon DEF Handlers
  <2>3. Runs(c, failed, handle_private, z, z)
    BY <2>1, HandlePrivateRuns, Zenon
  <2>4. Runs(c, failed, handle_none, z, z)
    <3>1. S(1, {}, "up", None) \in States(c)
      BY <1>2, <2>1, Zenon
    <3> QED BY <2>1, <3>1, HandleNoneRuns, Zenon
  <2> QED BY <2>2, <2>3, <2>4, Zenon
<1>4. CASE c = Primary
  <2>1. x.held \in SUBSET {"STACKS", "HEAP"} /\ x.phase \in {"up", "leaving"}
    BY <1>1, Zenon DEF Interruptible
  <2>2. CASE p \in {handle_shared(console_handle_irq), handle_shared(irq_handle)}
    <3>1. \A handler \in {console_handle_irq, irq_handle} :
            Runs(Primary, failed, handle_shared(handler), S(1, x.held, x.phase, x.starts),
                 S(1, x.held, x.phase, x.starts))
      BY <1>2, <2>1, HandleSharedRuns, ZenonT(30)
    <3>2. \A handler \in {console_handle_irq, irq_handle} :
            Runs(c, failed, handle_shared(handler), z, z)
      BY <1>4, <3>1, Zenon
    <3> QED BY <2>2, <3>2, Zenon
  <2>3. CASE ~registered[Primary] /\ p = handle_none
    <3>1. x.phase # "up"
      BY <1>4, <2>3, Zenon DEF AsAnnotated, Boots
    <3>2. x.held = {} /\ x.phase = "leaving"
      BY <1>1, <2>1, <3>1, Zenon DEF Interruptible
    <3>3. z = S(1, {}, "leaving", x.starts)
      BY <3>2, Zenon
    <3>4. S(1, {}, "leaving", x.starts) \in States(c)
      BY <1>2, <3>3, Zenon
    <3>5. Runs(c, failed, handle_none, S(1, {}, "leaving", x.starts), S(1, {}, "leaving", x.starts))
      BY <3>4, HandleNoneRuns, Zenon
    <3> QED BY <2>3, <3>3, <3>5, Zenon
  <2>4. \/ p \in {handle_shared(console_handle_irq), handle_shared(irq_handle)}
        \/ ~registered[Primary] /\ p = handle_none
    <3>1. CASE registered[Primary]
      BY <1>4, <3>1, Zenon DEF Handlers
    <3>2. CASE ~registered[Primary]
      BY <1>4, <3>2, Zenon DEF Handlers
    <3> QED BY <3>1, <3>2
  <2> QED BY <2>2, <2>3, <2>4, Zenon
<1> QED BY <1>3, <1>4, Zenon

LEMMA IrqStep ==
  ASSUME IInv, NEW c \in Cores, irq_current(c)
  PROVE  IInv'
<1>1. /\ depth[c] = 0 /\ depth' = [depth EXCEPT ![c] = 1]
      /\ UNCHANGED <<system, owner, forced, registered, failed>>
  BY Zenon DEF irq_current
<1>2. PICK p \in Handlers(c) : todo' = [todo EXCEPT ![c] = p \o <<Do("restore")>> \o @]
  BY Zenon DEF irq_current
<1>3. PICK x \in States(c) : AsAnnotated(c, x)
  BY DEF IInv
<1>4. x.depth = 0 /\ x.held = Held(c) /\ Runs(c, failed, todo[c], x, End(c))
  BY <1>1, <1>3 DEF AsAnnotated, Follows
<1>5. PICK z : z = S(1, x.held, x.phase, x.starts)
  OBVIOUS
<1>6. z.depth = 1 /\ z.held = x.held /\ z.phase = x.phase /\ z.starts = x.starts
  BY <1>5 DEF S
<1>7. Runs(c, failed, p, z, z)
  BY <1>3, <1>4, <1>5, HandlerRuns
<1>8. z \in States(c)
  BY <1>7, RunsEnds, Zenon
<1>9. Runs(c, failed, <<Do("restore")>>, z, x)
  <2>1. x = S(0, x.held, x.phase, x.starts)
    BY <1>4, StateFields, ZenonT(30)
  <2>2. x = S(z.depth - 1, z.held, z.phase, z.starts)
    BY <1>6, <2>1
  <2>3. May(c, failed, Do("restore"), z, x)
    BY <2>2, Zenon DEF May, Do
  <2> QED BY <1>8, <2>3, RunsOne, InstructionsHas, Zenon
<1>10. Runs(c, failed, p \o <<Do("restore")>>, z, x)
  BY <1>7, <1>9, RunsThen, Zenon
<1>11. Runs(c, failed, p \o <<Do("restore")>> \o todo[c], z, End(c))
  BY <1>4, <1>10, RunsThen, Zenon
<1>12. p \o <<Do("restore")>> \o todo[c] \in Seq(Instructions)
  BY <1>11, Zenon DEF Runs
<1>13. todo \in [Cores -> Seq(Instructions)] /\ depth \in [Cores -> 0..5]
  BY Zenon DEF IInv, TypeOK
<1>14. /\ todo' \in [Cores -> Seq(Instructions)]
       /\ todo'[c] = p \o <<Do("restore")>> \o todo[c]
       /\ \A d \in Cores \ {c} : todo'[d] = todo[d]
  BY <1>2, <1>12, <1>13, Zenon
<1>15. depth' \in [Cores -> 0..5] /\ depth'[c] = 1
       /\ \A d \in Cores \ {c} : depth'[d] = depth[d]
  BY <1>1, <1>13
<1>16. TypeOK' /\ \A d \in Cores : Held(d)' = Held(d)
  BY <1>1, <1>15, Zenon DEF IInv, TypeOK, Held
<1>17. c = Primary => Boots(z)'
  <2> HAVE c = Primary
  <2>1. Boots(x)
    BY <1>3, Zenon DEF AsAnnotated
  <2>2. \A d \in Secondaries : todo'[d] = todo[d]
    BY <1>14, Zenon DEF Secondaries
  <2>3. x.starts # None => todo'[x.starts] = todo[x.starts]
    BY <2>2, StateFields, Zenon
  <2> QED BY <1>1, <1>6, <2>1, <2>2, <2>3, Zenon DEF Boots
<1>18. c # Primary => todo[c] # <<>>
  BY <1>1, IdleCore
<1>19. Runs(c, failed', todo'[c], z, End(c))
  BY <1>1, <1>11, <1>14, Zenon
<1>20. z.depth = depth'[c] /\ z.held = Held(c)'
  BY <1>4, <1>6, <1>15, <1>16, Zenon
<1> QED BY <1>1, <1>8, <1>14, <1>15, <1>16, <1>17, <1>18, <1>19, <1>20, CoreStep, ZenonT(30)

LEMMA NextKeepsIInv == IInv /\ [Next]_vars => IInv'
<1> SUFFICES ASSUME IInv, [Next]_vars PROVE IInv'
  BY Zenon
<1>1. CASE UNCHANGED vars
  <2>1. UNCHANGED <<system, todo, depth, owner, forced, registered, failed>>
    BY <1>1, Zenon DEF vars
  <2>2. TypeOK' /\ todo' \in [Cores -> Seq(Instructions)]
    BY <2>1, Zenon DEF IInv, TypeOK
  <2>3. ASSUME NEW c \in Cores, NEW x PROVE AsAnnotated(c, x)' <=> AsAnnotated(c, x)
    <3>1. Follows(c, x)' <=> Follows(c, x)
      BY <2>1, Zenon DEF Follows, Held
    <3>2. Boots(x)' <=> Boots(x)
      BY <2>1 DEF Boots
    <3> QED BY <3>1, <3>2, Zenon DEF AsAnnotated
  <2> QED BY <2>2, <2>3, Zenon DEF IInv
<1>2. CASE Command
  BY <1>2, CommandStep, Zenon
<1>3. ASSUME NEW c \in Cores, Mask(c) \/ Unmask(c) PROVE IInv'
  BY <1>3, MaskStep, Zenon
<1>4. ASSUME NEW c \in Cores, TakeLock(c) \/ DropLock(c) PROVE IInv'
  BY <1>4, LockStep, Zenon
<1>5. ASSUME NEW c \in Cores, Proceed(c) PROVE IInv'
  BY <1>5, ProceedStep, Zenon
<1>6. ASSUME NEW c \in Cores, UsePrivate(c) PROVE IInv'
  BY <1>6, UsePrivateStep, Zenon
<1>7. ASSUME NEW c \in Cores, ForceLazy(c) PROVE IInv'
  BY <1>7, ForceStep
<1>8. ASSUME NEW c \in Cores, Panics(c) PROVE IInv'
  BY <1>8, PanicsStep, SMTT(30)
<1>9. ASSUME NEW c \in Cores, Register(c) PROVE IInv'
  BY <1>9, RegisterStep
<1>10. ASSUME NEW c \in Cores, StartCore(c) PROVE IInv'
  BY <1>10, StartCoreStep
<1>11. ASSUME NEW c \in Cores, CpuOff(c) PROVE IInv'
  BY <1>11, CpuOffStep
<1>12. ASSUME NEW c \in Cores, SystemOff(c) PROVE IInv'
  BY <1>12, SystemOffStep
<1>13. ASSUME NEW c \in Cores, irq_current(c) PROVE IInv'
  BY <1>13, IrqStep
<1> QED BY <1>1, <1>2, <1>3, <1>4, <1>5, <1>6, <1>7, <1>8, <1>9, <1>10, <1>11, <1>12, <1>13, ZenonT(30)
        DEF Next

-----------------------------------------------------------------------------
(* Theorems *)

LEMMA AlwaysIInv == Spec => []IInv
  BY InitIInv, NextKeepsIInv, PTL DEF Spec

(* The depth of the mask stays within 0..5 whatever IRQs and panics come   *)
(* in between, so that no exception_free restores a mask it did not set,   *)
(* and each lock is held by at most one core.                              *)
THEOREM LocksTypeCorrect == Spec => []TypeOK
<1>1. IInv => TypeOK
  BY DEF IInv
<1> QED BY <1>1, AlwaysIInv, PTL

(* On any number of cores, and as long as the logger has not panicked with *)
(* CONSOLE held, no cores wait for locks in a circle, and no handler waits *)
(* for a lock of what it interrupted.                                      *)
THEOREM LocksNoDeadlock == Spec => []NoDeadlock
  BY IInvNoDeadlock, AlwaysIInv, PTL

(* A core that ends in a loop, after a panic, an exit or CPU_OFF, stops no *)
(* other core, and the shell and the handlers least of all, except one     *)
(* that starts after it and asks for the GIC.                              *)
THEOREM HaltedCoreLeavesOthers == Spec => []HaltedCoreStopsOnlyStarting
  BY IInvHalted, AlwaysIInv, PTL

(* A core that CPU_OFF has stopped, and the shell at its prompt, hold no   *)
(* lock, on any number of cores and after any IRQs and panics.             *)
THEOREM IdleCoreLeavesLocks == Spec => []NoLockLeftBehind
<1>1. IInv => NoLockLeftBehind
  <2> SUFFICES ASSUME IInv, NEW l \in Locks, owner[l] # None, todo[owner[l]] = <<>>
               PROVE  FALSE
    BY Zenon DEF NoLockLeftBehind
  <2>1. owner[l] \in Cores
    BY Zenon DEF IInv, TypeOK
  <2> QED BY <2>1, IdleCore, Zenon DEF Held
<1> QED BY <1>1, AlwaysIInv, PTL
=============================================================================
