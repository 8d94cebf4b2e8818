------------------------ MODULE SecondaryCpusProofs ------------------------
(***************************************************************************)
(* Proofs about SecondaryCpus, for any number of cores, SGIs, stacks and   *)
(* arguments.                                                              *)
(***************************************************************************)
EXTENDS SecondaryCpus, TLAPS

-----------------------------------------------------------------------------
(* The inductive invariant. *)

(* Private handlers are for SGIs and shared ones for SPIs, and only SGIs   *)
(* are ever pending or acknowledged on a secondary core.                   *)
IdsSeparate ==
  /\ shared \subseteq Spis
  /\ \A c \in Cores : private[c] \subseteq Sgis
  /\ \A c \in Secondaries :
       /\ pending[c] \subseteq Sgis
       /\ line[c] = {}
       /\ running[c] \subseteq Sgis

(* A core sees interrupts only while all its handlers are registered, or   *)
(* after it took one, or after its wfi returned early.                     *)
HandlersCover(c) ==
  /\ pc[c] \in {"off", "secondary_init", "enable_sgis", "set_handlers",
                "irq_enable"} => masked[c]
  /\ pc[c] = "set_handlers" => \A i \in Sgis : i < next[c] => i \in private[c]
  /\ pc[c] \in {"irq_enable", "before_wfi", "wfi", "woken"} =>
       private[c] = Sgis
  /\ pc[c] \in {"woken", "remove_handlers", "cpu_off", "halted"} =>
       early[c] \/ running[c] # {}

(* PSCI's view of a core agrees with the core, and start_cpu only works on *)
(* a core that is off.                                                     *)
PsciAgrees ==
  /\ psci[Primary] = "On"
  /\ \A c \in Secondaries : pc[c] = "off" <=> psci[c] \in {"Off", "OnPending"}
  /\ pc[Primary] \in {"get_stack", "write_args", "cpu_on"} =>
       target \in Secondaries /\ psci[target] = "Off"

(* A stack belongs to one core. *)
StacksSeparate ==
  /\ \A c, d \in Cores :
       c # d /\ stackOf[c] # NoStack => stackOf[c] # stackOf[d]
  /\ pc[Primary] \in {"write_args", "cpu_on"} => stackOf[target] # NoStack
  /\ pc[Primary] = "cpu_on" => stackTop[stackOf[target]] = argument

IInv ==
  /\ TypeOK
  /\ system # "handler_exists"
  /\ IdsSeparate
  /\ \A c \in Secondaries : HandlersCover(c)
  /\ UnexpectedIrqOnlyAfterEarlyWake
  /\ OneSgiPerPowerOn
  /\ PsciAgrees
  /\ StacksSeparate
  /\ RunningStackIntact

-----------------------------------------------------------------------------
(* Type correctness. *)

(* The value start_cpu's locals have between commands is an argument. *)
LEMMA SomeArgType == SomeArg \in Args
  BY SecondaryCpusAssumption DEF SomeArg

(* The state on entering the shell is well typed. *)
LEMMA InitTypeOK == Init => TypeOK
  <1> SUFFICES ASSUME Init PROVE TypeOK
    OBVIOUS
  <1>1. InterruptsTypeOK
    BY InterruptsAssumption
    DEF Init, InterruptsTypeOK, Panics, IntIds, Sgis, Spis
  <1>2. /\ pc \in [Cores -> ShellLabels \union SecondaryLabels]
        /\ pc[Primary] \in ShellLabels
        /\ \A c \in Secondaries : pc[c] \in SecondaryLabels
        /\ psci \in [Cores -> AffinityStates]
    BY InterruptsAssumption
    DEF Init, Secondaries, ShellLabels, SecondaryLabels, AffinityStates
  <1>3. /\ stackOf \in [Cores -> Stacks \union {NoStack}]
        /\ stackTop \in [Stacks -> Args]
        /\ target \in Cores /\ argument \in Args
        /\ next \in [Cores -> 0..SGI_COUNT]
        /\ launched \in [Cores -> Args]
        /\ early \in [Cores -> BOOLEAN]
    BY SomeArgType, InterruptsAssumption DEF Init
  <1>4. QED
    BY <1>1, <1>2, <1>3 DEF TypeOK

(* Every step of every core keeps the state well typed. *)
LEMMA NextTypeOK == TypeOK /\ [Next]_vars => TypeOK'
  <1> SUFFICES ASSUME TypeOK, [Next]_vars PROVE TypeOK'
    OBVIOUS
  <1> USE SomeArgType, InterruptsAssumption
      DEF TypeOK, InterruptsTypeOK, Panics, Panic, Goto, At, IntIds, Sgis,
          Secondaries, ShellLabels, SecondaryLabels, AffinityStates, gicVars,
          cpuVars
  <1>1. CASE \E c \in Cores, a \in Args : start_cpu(c, a)
    BY <1>1 DEF start_cpu
  <1>2. CASE get_secondary_stack
    <2>1. stackOf' \in [Cores -> Stacks \union {NoStack}]
      BY <1>2 DEF get_secondary_stack, FreeStacks
    <2>2. QED
      BY <1>2, <2>1 DEF get_secondary_stack
  <1>3. CASE start_core_write
    BY <1>3, Zenon DEF start_core_write
  <1>4. CASE start_core_cpu_on
    <2>1. psci' = psci \/ psci' = [psci EXCEPT ![target] = "OnPending"]
      BY <1>4, Zenon DEF start_core_cpu_on
    <2>2. launched' = launched \/ launched' = [launched EXCEPT ![target] = argument]
      BY <1>4, Zenon DEF start_core_cpu_on
    <2>3. psci' \in [Cores -> AffinityStates]
      BY <2>1, Zenon
    <2>4. launched' \in [Cores -> Args]
      BY <2>2, Zenon
    <2>5. /\ pc' \in [Cores -> ShellLabels \union SecondaryLabels]
          /\ pc'[Primary] \in ShellLabels
          /\ \A d \in Secondaries : pc'[d] \in SecondaryLabels
      <3>1. pc' = [pc EXCEPT ![Primary] = "shell"]
        BY <1>4, Zenon DEF start_core_cpu_on
      <3> HIDE DEF InterruptsTypeOK, Panics, At, IntIds, Sgis
      <3>2. QED
        BY <3>1
    <2>6. QED
      BY <1>4, <2>3, <2>4, <2>5, Zenon DEF start_core_cpu_on
  <1>5. CASE \E i \in Sgis : sgi(i)
    BY <1>5 DEF sgi, send_sgi
  <1>6. CASE exit
    BY <1>6 DEF exit, remove_shared_irq_handler
  <1>7. CASE power_off
    BY <1>7, ZenonT(30) DEF power_off
  <1>8. CASE \E c \in Secondaries : PsciBoot(c)
    BY <1>8 DEF PsciBoot
  <1>9. CASE \E c \in Secondaries : secondary_init(c)
    BY <1>9 DEF secondary_init, secondary_init_gic
  <1>10. CASE \E c \in Secondaries : enable_sgis(c)
    BY <1>10 DEF enable_sgis, enable_interrupts
  <1>11. CASE \E c \in Secondaries : set_handlers(c)
    <2> PICK c \in Secondaries : set_handlers(c)
      BY <1>11
    <2>1. next' \in [Cores -> 0..SGI_COUNT]
      BY DEF set_handlers
    <2>2. private' \in [Cores -> SUBSET IntIds]
      BY SMTT(30) DEF set_handlers, set_private_irq_handler
    <2>3. system' \in {system, "handler_exists"}
      BY DEF set_handlers, set_private_irq_handler
    <2>4. pc' \in {pc, [pc EXCEPT ![c] = "irq_enable"]}
      BY DEF set_handlers, Goto
    <2>5. UNCHANGED <<masked, gicVars, shared, psci, stackOf, stackTop, target,
                      argument, launched, early>>
      BY DEF set_handlers
    <2>6. InterruptsTypeOK'
      BY <2>2, <2>3, <2>5
    <2> HIDE DEF InterruptsTypeOK, Panics, At, IntIds, Sgis
    <2>7. /\ pc' \in [Cores -> ShellLabels \union SecondaryLabels]
          /\ pc'[Primary] \in ShellLabels
          /\ \A d \in Secondaries : pc'[d] \in SecondaryLabels
      BY <2>4
    <2> HIDE DEF ShellLabels, SecondaryLabels, AffinityStates
    <2>8. QED
      BY <2>1, <2>5, <2>6, <2>7
  <1>12. CASE \E c \in Secondaries : irq_enable(c)
    BY <1>12 DEF irq_enable
  <1>13. CASE \E c \in Secondaries : wfi(c)
    BY <1>13 DEF wfi
  <1>14. CASE \E c \in Secondaries : wfi_returns_early(c)
    BY <1>14 DEF wfi_returns_early, WfiReturnsEarly
  <1>15. CASE \E c \in Secondaries : finish_waiting(c)
    BY <1>15 DEF finish_waiting
  <1>16. CASE \E c \in Secondaries : remove_handlers(c)
    <2> PICK c \in Secondaries : remove_handlers(c)
      BY <1>16
    <2>1. next' \in [Cores -> 0..SGI_COUNT]
      BY DEF remove_handlers
    <2>2. private' \in [Cores -> SUBSET IntIds]
      BY DEF remove_handlers, remove_private_irq_handler
    <2>3. pc' = pc \/ pc' = [pc EXCEPT ![c] = "cpu_off"]
      BY Zenon DEF remove_handlers, Goto
    <2>4. /\ pc' \in [Cores -> ShellLabels \union SecondaryLabels]
          /\ pc'[Primary] \in ShellLabels
          /\ \A d \in Secondaries : pc'[d] \in SecondaryLabels
      <3> HIDE DEF InterruptsTypeOK, Panics, At, IntIds, Sgis
      <3>1. QED
        BY <2>3
    <2>5. QED
      BY <2>1, <2>2, <2>4, Zenon DEF remove_handlers
  <1>17. CASE \E c \in Secondaries : cpu_off(c)
    <2> PICK c \in Secondaries : cpu_off(c)
      BY <1>17
    <2>1. /\ masked' \in [Cores -> BOOLEAN]
          /\ ready' \in [Cores -> BOOLEAN]
          /\ early' \in [Cores -> BOOLEAN]
      BY Zenon DEF cpu_off, PowerDown
    <2>2. /\ running' \in [Cores -> SUBSET IntIds]
          /\ psci' \in [Cores -> AffinityStates]
      BY Zenon DEF cpu_off, PowerDown
    <2>3. system' \in {"up", "off"} \union Panics
      BY DEF cpu_off
    <2>4. \/ pc' = pc
          \/ pc' = [pc EXCEPT ![c] = "off"]
          \/ pc' = [pc EXCEPT ![c] = "halted"]
      BY Zenon DEF cpu_off
    <2>5. /\ pc' \in [Cores -> ShellLabels \union SecondaryLabels]
          /\ pc'[Primary] \in ShellLabels
          /\ \A d \in Secondaries : pc'[d] \in SecondaryLabels
      <3> HIDE DEF InterruptsTypeOK, Panics, At, IntIds, Sgis
      <3>1. QED
        BY <2>4
    <2>6. QED
      BY <2>1, <2>2, <2>3, <2>5, Zenon DEF cpu_off, PowerDown
  <1>18. CASE \E c \in Secondaries, i \in IntIds : secondary_irq_handler(c, i)
    BY <1>18 DEF secondary_irq_handler, IrqLeftActive, ReturnFromIrq, irq_current, Acknowledgeable, Signalled
  <1>19. CASE \E c \in Secondaries, i \in IntIds : unexpected_irq(c, i)
    BY <1>19 DEF unexpected_irq, IrqUnexpected, irq_current, Acknowledgeable, Signalled
  <1>20. CASE UNCHANGED vars
    BY <1>20 DEF vars, irqVars
  <1> HIDE DEF TypeOK, InterruptsTypeOK, Panics, Panic, Goto, At, IntIds, Sgis,
               Secondaries, ShellLabels, SecondaryLabels, AffinityStates,
               gicVars, cpuVars
  <1>21. QED
    BY <1>1, <1>2, <1>3, <1>4, <1>5, <1>6, <1>7, <1>8, <1>9, <1>10, <1>11,
       <1>12, <1>13, <1>14, <1>15, <1>16, <1>17, <1>18, <1>19, <1>20, Zenon
    DEF Next, Shell, Thread, Irq

(* Every reachable state is well typed. *)
THEOREM TypeCorrect == Spec => []TypeOK
  BY InitTypeOK, NextTypeOK, PTL DEF Spec

-----------------------------------------------------------------------------
(* The inductive invariant holds. *)

(* A step of secondary core c. *)
SecondaryStep(c) ==
  PsciBoot(c) \/ Thread(c) \/ wfi_returns_early(c) \/ Irq(c)

(* A secondary core that has acknowledged an SGI is signalled no other:    *)
(* all its interrupts are SGIs and have one priority.                      *)
LEMMA QuietWhileRunning ==
  ASSUME IdsSeparate, NEW c \in Secondaries, running[c] # {}
  PROVE  Signalled(c) = {}
  <1> SUFFICES ASSUME NEW i \in Signalled(c) PROVE FALSE
    OBVIOUS
  <1>1. i \in Sgis
    BY DEF Signalled, IdsSeparate
  <1>2. PICK j \in running[c] : Priority(i) < Priority(j)
    BY DEF Signalled
  <1>3. j \in Sgis
    BY <1>2 DEF IdsSeparate
  <1>4. Priority(i) = 128 /\ Priority(j) = 128
    BY <1>1, <1>3, InterruptsAssumption DEF Sgis, Priority
  <1>5. QED
    BY <1>2, <1>4

(* What a secondary core acknowledges is an SGI, and the first since its   *)
(* power-on.                                                               *)
LEMMA AcknowledgedIsFirstSgi ==
  ASSUME IdsSeparate, NEW c \in Secondaries, NEW i, irq_current(c, i)
  PROVE  i \in Sgis /\ running[c] = {} /\ ~masked[c]
  <1>1. i \in Signalled(c) /\ ~masked[c]
    BY DEF irq_current, Acknowledgeable
  <1>2. i \in Sgis
    BY <1>1 DEF Signalled, IdsSeparate
  <1>3. QED
    BY <1>1, <1>2, QuietWhileRunning

(* A command of the shell touches a secondary core only through PSCI and   *)
(* the pending state of its SGIs.                                          *)
LEMMA ShellFrame ==
  ASSUME TypeOK, Shell
  PROVE  /\ UNCHANGED <<masked, line, running, private, next, early>>
         /\ \A c \in Secondaries : pc'[c] = pc[c]
  <1>1. UNCHANGED <<masked, line, running, private, next, early>>
    BY Zenon DEF Shell, start_cpu, get_secondary_stack, start_core_write,
           start_core_cpu_on, sgi, exit, power_off, gicVars, cpuVars
  <1>2. pc' = pc \/ \E l \in ShellLabels : pc' = [pc EXCEPT ![Primary] = l]
    BY Zenon DEF Shell, start_cpu, get_secondary_stack, start_core_write,
           start_core_cpu_on, sgi, exit, power_off, ShellLabels, Goto
  <1>3. QED
    BY <1>1, <1>2, Zenon DEF TypeOK, Secondaries

(* What a step of secondary core c leaves alone: the shell's start_cpu and *)
(* all that belongs to another core.                                       *)
LeavesOthers(c) ==
  /\ UNCHANGED <<line, shared, stackOf, stackTop, target, argument, launched>>
  /\ \A d \in Cores \ {c} :
       /\ pc'[d] = pc[d]
       /\ masked'[d] = masked[d]
       /\ pending'[d] = pending[d]
       /\ running'[d] = running[d]
       /\ private'[d] = private[d]
       /\ psci'[d] = psci[d]
       /\ next'[d] = next[d]
       /\ early'[d] = early[d]

(* A secondary core leaves the shell and the other cores alone. *)
LEMMA SecondaryFrame ==
  ASSUME TypeOK, NEW c \in Secondaries, SecondaryStep(c)
  PROVE  LeavesOthers(c)
  <1> USE DEF LeavesOthers, TypeOK, InterruptsTypeOK, gicVars, cpuVars, Goto
  <1>1. CASE PsciBoot(c)
    BY <1>1, Zenon DEF PsciBoot
  <1>2. CASE secondary_init(c) \/ irq_enable(c) \/ wfi(c)
    BY <1>2, ZenonT(30) DEF secondary_init, irq_enable, wfi
  <1>9. CASE enable_sgis(c) \/ finish_waiting(c)
    BY <1>9, ZenonT(30) DEF enable_sgis, finish_waiting
  <1>3. CASE set_handlers(c)
    BY <1>3 DEF set_handlers, set_private_irq_handler
  <1>4. CASE remove_handlers(c)
    BY <1>4 DEF remove_handlers, remove_private_irq_handler
  <1>5. CASE cpu_off(c)
    BY <1>5 DEF cpu_off, PowerDown
  <1>6. CASE wfi_returns_early(c)
    BY <1>6, Zenon DEF wfi_returns_early, WfiReturnsEarly
  <1>7. CASE Irq(c)
    BY <1>7 DEF Irq, secondary_irq_handler, unexpected_irq, IrqLeftActive,
                IrqUnexpected, ReturnFromIrq, irq_current
  <1>10. QED
    BY <1>1, <1>2, <1>3, <1>4, <1>5, <1>6, <1>7, <1>9, Zenon DEF SecondaryStep, Thread

(* start_cpu, one step after the other, keeps PSCI's view and the stacks   *)
(* of the cores.                                                           *)
LEMMA ShellKeepsStacks ==
  ASSUME IInv, Shell
  PROVE  PsciAgrees' /\ StacksSeparate' /\ RunningStackIntact'
  <1>1. /\ Primary \in Cores /\ target \in Cores
        /\ pc \in [Cores -> ShellLabels \union SecondaryLabels]
        /\ psci \in [Cores -> AffinityStates]
        /\ stackOf \in [Cores -> Stacks \union {NoStack}]
        /\ stackTop \in [Stacks -> Args]
        /\ launched \in [Cores -> Args]
    BY InterruptsAssumption, Zenon DEF IInv, TypeOK
  <1>2. \A c \in Secondaries : c \in Cores /\ c # Primary /\ pc'[c] = pc[c]
    BY ShellFrame DEF IInv, Secondaries
  <1>3. PsciAgrees /\ StacksSeparate /\ RunningStackIntact
    BY DEF IInv
  <1>4. ASSUME UNCHANGED <<psci, stackOf, stackTop, launched>>,
               pc'[Primary] \notin {"get_stack", "write_args", "cpu_on"}
        PROVE  PsciAgrees' /\ StacksSeparate' /\ RunningStackIntact'
    <2>1. PsciAgrees'
      BY <1>2, <1>3, <1>4, SMTT(30) DEF PsciAgrees
    <2>2. StacksSeparate' /\ RunningStackIntact'
      BY <1>3, <1>4 DEF StacksSeparate, RunningStackIntact
    <2>3. QED
      BY <2>1, <2>2, Zenon
  <1>5. CASE \E c \in Cores, a \in Args : start_cpu(c, a)
    <2> PICK c \in Cores, a \in Args : start_cpu(c, a)
      BY <1>5
    <2>1. UNCHANGED <<psci, stackOf, stackTop, launched>>
      BY DEF start_cpu
    <2>2. CASE psci[c] = "Off" /\ target' = c /\ Goto(Primary, "get_stack")
      <3>1. pc'[Primary] = "get_stack" /\ c \in Secondaries
        BY <1>1, <1>3, <2>2, Zenon DEF Goto, PsciAgrees, Secondaries
      <3>2. PsciAgrees'
        BY <1>2, <1>3, <2>1, <2>2, <3>1, Zenon DEF PsciAgrees
      <3>3. StacksSeparate' /\ RunningStackIntact'
        BY <1>3, <2>1, <3>1 DEF StacksSeparate, RunningStackIntact
      <3>4. QED
        BY <3>2, <3>3
    <2>3. CASE pc[Primary] = "shell" /\ UNCHANGED pc
      BY <1>4, <2>1, <2>3
    <2>4. QED
      BY <2>2, <2>3 DEF start_cpu, At
  <1>6. CASE get_secondary_stack
    <2>1. /\ pc[Primary] = "get_stack"
          /\ UNCHANGED <<psci, stackTop, target, launched>>
          /\ target \in Secondaries /\ psci[target] = "Off"
      BY <1>3, <1>6 DEF get_secondary_stack, At, PsciAgrees
    <2>2. \/ stackOf' = stackOf /\ pc' = pc
          \/ /\ pc'[Primary] = "write_args"
             /\ \/ stackOf' = stackOf /\ stackOf[target] # NoStack
                \/ \E s \in FreeStacks : stackOf' = [stackOf EXCEPT ![target] = s]
      BY <1>1, <1>6 DEF get_secondary_stack, Goto
    <2>3. PICK s \in FreeStacks \union {stackOf[target]} :
            stackOf' = [stackOf EXCEPT ![target] = s]
      BY <1>1, <2>2
    <2>4. stackOf'[target] = s /\ \A c \in Cores : c # target => stackOf'[c] = stackOf[c]
      BY <1>1, <2>3
    <2>5. pc'[Primary] \in {"get_stack", "write_args"} /\ (pc'[Primary] = "write_args" => s # NoStack)
      BY <1>1, <2>1, <2>2, <2>4, SecondaryCpusAssumption, Zenon DEF FreeStacks
    <2>6. PsciAgrees'
      BY <1>2, <1>3, <2>1 DEF PsciAgrees
    <2>7. ASSUME NEW c \in Cores, NEW d \in Cores, c # d, stackOf'[c] # NoStack
          PROVE  stackOf'[c] # stackOf'[d]
      <3>1. ASSUME NEW e \in Cores, e # target, s # NoStack PROVE stackOf[e] # s
        BY <1>1, <1>3, <2>3, <3>1, Zenon DEF FreeStacks, StacksSeparate
      <3>2. CASE c # target /\ d # target
        BY <1>3, <2>4, <2>7, <3>2 DEF StacksSeparate
      <3>3. CASE c = target
        BY <2>4, <2>7, <3>1, <3>3
      <3>4. CASE d = target
        BY <2>4, <2>7, <3>1, <3>4
      <3>5. QED
        BY <3>2, <3>3, <3>4
    <2>8. StacksSeparate'
      BY <2>1, <2>4, <2>5, <2>7, Zenon DEF StacksSeparate
    <2>9. RunningStackIntact'
      BY <1>2, <1>3, <2>1, <2>4 DEF RunningStackIntact
    <2>10. QED
      BY <2>6, <2>8, <2>9, Zenon
  <1>7. CASE start_core_write
    <2>1. /\ pc[Primary] = "write_args" /\ pc'[Primary] = "cpu_on"
          /\ UNCHANGED <<psci, stackOf, target, argument, launched>>
          /\ stackTop' = [stackTop EXCEPT ![stackOf[target]] = argument]
      BY <1>1, <1>7, Zenon DEF start_core_write, At, Goto
    <2>2. /\ target \in Secondaries /\ psci[target] = "Off"
          /\ stackOf[target] \in Stacks
      BY <1>1, <1>3, <2>1 DEF PsciAgrees, StacksSeparate
    <2>3. /\ stackTop'[stackOf[target]] = argument
          /\ \A t \in Stacks : t # stackOf[target] => stackTop'[t] = stackTop[t]
      BY <1>1, <2>1, <2>2, Zenon
    <2>4. PsciAgrees'
      BY <1>2, <1>3, <2>1, <2>2, Zenon DEF PsciAgrees
    <2>5. StacksSeparate'
      BY <1>3, <2>1, <2>2, <2>3, Zenon DEF StacksSeparate
    <2>6. ASSUME NEW c \in Secondaries, psci[c] # "Off"
          PROVE  stackOf[c] # NoStack /\ stackTop'[stackOf[c]] = launched[c]
      <3>1. /\ c \in Cores /\ target \in Cores /\ c # target
            /\ stackOf[c] # NoStack /\ stackOf[c] \in Stacks
            /\ stackTop[stackOf[c]] = launched[c]
        BY <1>1, <1>2, <1>3, <2>2, <2>6, Zenon DEF RunningStackIntact
      <3>2. stackOf[c] # stackOf[target]
        BY <1>3, <3>1 DEF StacksSeparate
      <3>3. QED
        BY <1>3, <2>3, <2>6, <3>1, <3>2 DEF RunningStackIntact
    <2>7. RunningStackIntact'
      BY <2>1, <2>6 DEF RunningStackIntact
    <2>8. QED
      BY <2>4, <2>5, <2>7
  <1>8. CASE start_core_cpu_on
    <2>1. /\ pc[Primary] = "cpu_on" /\ pc'[Primary] = "shell"
          /\ UNCHANGED <<stackOf, stackTop>>
      BY <1>1, <1>8, Zenon DEF start_core_cpu_on, At, Goto
    <2>2. CASE UNCHANGED <<psci, launched>>
      BY <1>4, <2>1, <2>2, Zenon
    <2>3. CASE /\ psci' = [psci EXCEPT ![target] = "OnPending"]
               /\ launched' = [launched EXCEPT ![target] = argument]
      <3>1. /\ target \in Secondaries /\ psci[target] = "Off"
            /\ stackOf[target] # NoStack /\ stackTop[stackOf[target]] = argument
        BY <1>3, <2>1 DEF PsciAgrees, StacksSeparate
      <3>2. /\ psci'[target] = "OnPending" /\ launched'[target] = argument
            /\ \A c \in Cores : c # target => psci'[c] = psci[c] /\ launched'[c] = launched[c]
        BY <1>1, <2>3, Zenon
      <3>3. PsciAgrees'
        BY <1>1, <1>2, <1>3, <2>1, <3>1, <3>2, Zenon DEF PsciAgrees
      <3>4. StacksSeparate'
        BY <1>3, <2>1, Zenon DEF StacksSeparate
      <3>5. RunningStackIntact'
        BY <1>2, <1>3, <2>1, <3>1, <3>2 DEF RunningStackIntact
      <3>6. QED
        BY <3>3, <3>4, <3>5
    <2>4. QED
      BY <1>8, <2>2, <2>3 DEF start_core_cpu_on
  <1>9. CASE (\E i \in Sgis : sgi(i)) \/ exit \/ power_off
    <2>1. UNCHANGED <<psci, stackOf, stackTop, launched>>
      BY <1>9, Zenon DEF sgi, exit, power_off, cpuVars
    <2>2. pc'[Primary] \in {"shell", "power_off", "halted"}
      BY <1>1, <1>9 DEF sgi, exit, power_off, At, Goto
    <2>3. QED
      BY <1>4, <2>1, <2>2, Zenon
  <1>10. QED
    BY <1>5, <1>6, <1>7, <1>8, <1>9 DEF Shell

(* The commands of the shell keep the invariant. *)
LEMMA ShellKeepsIInv ==
  ASSUME IInv, Shell
  PROVE  IInv'
  <1>1. TypeOK /\ TypeOK'
    BY NextTypeOK DEF IInv, Next
  <1>2. /\ UNCHANGED <<masked, line, running, private, next, early>>
        /\ \A c \in Secondaries : pc'[c] = pc[c]
    BY <1>1, ShellFrame, Zenon
  <1>3. system' \notin {"handler_exists", "unexpected_irq"}
    BY Zenon DEF Shell, start_cpu, get_secondary_stack, start_core_write,
           start_core_cpu_on, sgi, exit, power_off, At, Panic
  <1>4. shared' \subseteq shared
    BY Zenon DEF Shell, start_cpu, get_secondary_stack, start_core_write,
           start_core_cpu_on, sgi, exit, power_off, remove_shared_irq_handler
  <1>5. ASSUME NEW c \in Secondaries PROVE pending'[c] \subseteq Sgis
    <2>1. c \in Cores /\ pending[c] \subseteq Sgis
      BY Zenon DEF IInv, IdsSeparate, Secondaries
    <2>2. CASE \E i \in Sgis : sgi(i)
      BY <2>1, <2>2 DEF sgi, send_sgi
    <2>3. CASE UNCHANGED pending
      BY <2>1, <2>3, Zenon
    <2>4. QED
      BY <2>2, <2>3, Zenon DEF Shell, start_cpu, get_secondary_stack, start_core_write,
                        start_core_cpu_on, exit, power_off, gicVars
  <1>6. IdsSeparate'
    BY <1>2, <1>4, <1>5, Zenon DEF IInv, IdsSeparate
  <1>7. ASSUME NEW c \in Secondaries PROVE HandlersCover(c)'
    <2>1. HandlersCover(c)
      BY DEF IInv
    <2>2. QED
      BY <1>2, <2>1 DEF HandlersCover
  <1>8. UnexpectedIrqOnlyAfterEarlyWake'
    BY <1>3 DEF UnexpectedIrqOnlyAfterEarlyWake
  <1>9. OneSgiPerPowerOn'
    BY <1>2, Zenon DEF IInv, OneSgiPerPowerOn
  <1>10. QED
    BY <1>1, <1>3, <1>6, <1>7, <1>8, <1>9, ShellKeepsStacks DEF IInv

(* The steps of a secondary core keep its private handlers and its         *)
(* acknowledged interrupts among the SGIs, and its handlers in step with   *)
(* the interrupts it can take.                                             *)
LEMMA SecondaryKeepsHandlers ==
  ASSUME IInv, NEW c \in Secondaries, SecondaryStep(c)
  PROVE  /\ private'[c] \subseteq Sgis
         /\ pending'[c] \subseteq Sgis
         /\ running'[c] \subseteq Sgis
         /\ \A i, j \in running'[c] : i = j
         /\ HandlersCover(c)'
         /\ system' # "handler_exists"
  <1>a. /\ c \in Cores
        /\ pc[c] = "off" <=> psci[c] \in {"Off", "OnPending"}
        /\ pc \in [Cores -> ShellLabels \union SecondaryLabels]
        /\ masked \in [Cores -> BOOLEAN]
        /\ pending \in [Cores -> SUBSET IntIds]
        /\ running \in [Cores -> SUBSET IntIds]
        /\ private \in [Cores -> SUBSET IntIds]
        /\ next \in [Cores -> 0..SGI_COUNT]
        /\ early \in [Cores -> BOOLEAN]
    BY Zenon DEF IInv, TypeOK, InterruptsTypeOK, PsciAgrees, Secondaries
  <1>b. /\ private[c] \subseteq Sgis /\ pending[c] \subseteq Sgis
        /\ running[c] \subseteq Sgis /\ shared \subseteq Spis
        /\ \A i, j \in running[c] : i = j
        /\ system # "handler_exists"
        /\ HandlersCover(c)
    BY <1>a, Zenon DEF IInv, IdsSeparate, OneSgiPerPowerOn
  <1> USE <1>a, <1>b DEF HandlersCover, gicVars, cpuVars, Goto, At, Panic
  <1>1. CASE PsciBoot(c)
    BY <1>1, Zenon DEF PsciBoot
  <1>2. CASE secondary_init(c) \/ irq_enable(c) \/ wfi(c) \/ finish_waiting(c)
    BY <1>2 DEF secondary_init, irq_enable, wfi, finish_waiting
  <1>3. CASE enable_sgis(c)
    BY <1>3, InterruptsAssumption DEF enable_sgis, Sgis
  <1>4. CASE set_handlers(c)
    <2>1. CASE next[c] = SGI_COUNT
      <3>1. private[c] = Sgis
        <4>1. \A i \in Sgis : i < next[c]
          BY <2>1, InterruptsAssumption DEF Sgis
        <4>2. pc[c] = "set_handlers"
          BY <1>4 DEF set_handlers
        <4>3. private[c] \subseteq Sgis /\ Sgis \subseteq private[c]
          BY <4>1, <4>2, Zenon
        <4>4. QED
          BY <4>3, Zenon
      <3>2. pc' = [pc EXCEPT ![c] = "irq_enable"] /\ UNCHANGED <<system, private>>
        <4>1. ~(next[c] < SGI_COUNT)
          BY <2>1, InterruptsAssumption
        <4>2. QED
          BY <1>4, <4>1, Zenon DEF set_handlers, Goto
      <3>3. QED
        BY <1>4, <3>1, <3>2 DEF set_handlers
    <2>2. CASE next[c] < SGI_COUNT
      <3>1. next[c] \in Sgis /\ next[c] \notin shared
        BY <2>2, InterruptsAssumption DEF Sgis, Spis
      <3>2. private' = [private EXCEPT ![c] = @ \union {next[c]}]
        BY <1>4, <2>2, <3>1 DEF set_handlers, set_private_irq_handler
      <3>3. \A i \in Sgis : i < next[c] + 1 => i \in private'[c]
        BY <1>4, <3>1, <3>2, InterruptsAssumption DEF set_handlers, Sgis
      <3>4. /\ UNCHANGED <<system, pc, masked, pending, running, early>>
            /\ next' = [next EXCEPT ![c] = @ + 1]
            /\ pc[c] = "set_handlers"
        BY <1>4, <2>2, <3>1, InterruptsAssumption
        DEF set_handlers, set_private_irq_handler
      <3>5. private'[c] \subseteq Sgis
        BY <3>1, <3>2, Zenon
      <3>6. HandlersCover(c)'
        BY <3>3, <3>4, Zenon
      <3>7. QED
        BY <3>4, <3>5, <3>6, Zenon
    <2>3. next[c] = SGI_COUNT \/ next[c] < SGI_COUNT
      <3>1. next[c] \in 0..SGI_COUNT
        BY Zenon
      <3>2. QED
        BY <3>1, InterruptsAssumption
    <2>4. QED
      BY <2>1, <2>2, <2>3, Zenon
  <1>5. CASE remove_handlers(c)
    BY <1>5 DEF remove_handlers, remove_private_irq_handler
  <1>6. CASE cpu_off(c)
    BY <1>6 DEF cpu_off, PowerDown
  <1>7. CASE wfi_returns_early(c)
    BY <1>7, ZenonT(30) DEF wfi_returns_early, WfiReturnsEarly
  <1>8. CASE Irq(c)
    <2> PICK i \in IntIds : secondary_irq_handler(c, i) \/ unexpected_irq(c, i)
      BY <1>8, Zenon DEF Irq
    <2>1. irq_current(c, i)
      BY Zenon DEF secondary_irq_handler, unexpected_irq, IrqLeftActive, IrqUnexpected
    <2>2. i \in Sgis /\ running[c] = {} /\ ~masked[c]
      BY <2>1, AcknowledgedIsFirstSgi, Zenon DEF IInv
    <2>3. /\ running' = [running EXCEPT ![c] = @ \union {i}]
          /\ pending' = [pending EXCEPT ![c] = @ \ {i}]
          /\ UNCHANGED <<masked, private, next, early>>
          /\ pc' = pc \/ (pc[c] = "wfi" /\ pc' = [pc EXCEPT ![c] = "woken"])
          /\ system' = system \/ system' = "unexpected_irq"
      <3>1. CASE secondary_irq_handler(c, i)
        <4>1. pc' = [pc EXCEPT ![c] = IF pc[c] = "wfi" THEN "woken" ELSE pc[c]]
          BY <3>1, Zenon DEF secondary_irq_handler, IrqLeftActive, ReturnFromIrq
        <4>2. pc' = pc \/ (pc[c] = "wfi" /\ pc' = [pc EXCEPT ![c] = "woken"])
          BY <4>1
        <4>3. QED
          BY <3>1, <4>2, Zenon DEF secondary_irq_handler, IrqLeftActive, irq_current,
                                   ReturnFromIrq
      <3>2. CASE unexpected_irq(c, i)
        BY <3>2, Zenon DEF unexpected_irq, IrqUnexpected, irq_current
      <3>3. QED
        BY <3>1, <3>2, Zenon
    <2>4. running'[c] = {i} /\ pending'[c] \subseteq pending[c]
      BY <2>2, <2>3
    <2>5. pc'[c] = pc[c] \/ (pc[c] = "wfi" /\ pc'[c] = "woken")
      BY <2>3, Zenon
    <2>6. HandlersCover(c)'
      BY <2>2, <2>3, <2>4, <2>5
    <2>7. QED
      BY <2>2, <2>3, <2>4, <2>6
  <1>9. QED
    BY <1>1, <1>2, <1>3, <1>4, <1>5, <1>6, <1>7, <1>8, Zenon
    DEF SecondaryStep, Thread

(* A secondary core panics for want of a handler only once its wfi has     *)
(* returned early.                                                         *)
LEMMA SecondaryUnexpectedIrq ==
  ASSUME IInv, NEW c \in Secondaries, SecondaryStep(c)
  PROVE  UnexpectedIrqOnlyAfterEarlyWake'
  <1>1. CASE \E i \in IntIds : unexpected_irq(c, i)
    <2> PICK i \in IntIds : unexpected_irq(c, i)
      BY <1>1
    <2>0. IdsSeparate /\ irq_current(c, i) /\ i \notin private[c]
      BY Zenon DEF IInv, unexpected_irq, IrqUnexpected
    <2>1. i \in Sgis /\ running[c] = {} /\ ~masked[c]
      BY <2>0, AcknowledgedIsFirstSgi, ZenonT(30)
    <2>2. pc[c] \in {"remove_handlers", "cpu_off", "halted"} /\ early[c]
      BY <2>0, <2>1 DEF IInv, HandlersCover, TypeOK, SecondaryLabels
    <2>3. pc'[c] = pc[c] /\ early'[c] = early[c]
      BY DEF unexpected_irq, IrqUnexpected, cpuVars
    <2>4. QED
      BY <2>2, <2>3, Zenon DEF UnexpectedIrqOnlyAfterEarlyWake
  <1>2. CASE ~ \E i \in IntIds : unexpected_irq(c, i)
    <2>1. system' # "unexpected_irq"
      BY <1>2, Zenon
      DEF SecondaryStep, PsciBoot, Thread, secondary_init, enable_sgis,
          set_handlers, set_private_irq_handler, irq_enable, wfi,
          finish_waiting, remove_handlers, cpu_off, wfi_returns_early,
          WfiReturnsEarly, Irq, secondary_irq_handler, IrqLeftActive,
          irq_current, ReturnFromIrq, At, Panic
    <2>2. QED
      BY <2>1 DEF UnexpectedIrqOnlyAfterEarlyWake
  <1>3. QED
    BY <1>1, <1>2, Zenon

(* The steps of the secondary cores keep the invariant. *)
LEMMA SecondaryKeepsIInv ==
  ASSUME IInv, NEW c \in Secondaries, SecondaryStep(c)
  PROVE  IInv'
  <1>t. TypeOK /\ TypeOK'
    BY NextTypeOK DEF IInv, Next, SecondaryStep
  <1>f. LeavesOthers(c)
    BY <1>t, SecondaryFrame
  <1>a. \A d \in Secondaries : d # c => d \in Cores \ {c}
    BY DEF Secondaries
  <1>b. Primary \in Cores \ {c}
    BY InterruptsAssumption DEF Secondaries
  <1>1. IdsSeparate'
    <2>1. shared' \subseteq Spis
      BY <1>f DEF LeavesOthers, IInv, IdsSeparate
    <2>2. ASSUME NEW d \in Cores PROVE private'[d] \subseteq Sgis
      <3>1. CASE d = c
        BY <3>1, SecondaryKeepsHandlers, Zenon
      <3>2. CASE d # c
        BY <1>f, <3>2, Zenon DEF LeavesOthers, IInv, IdsSeparate
      <3>3. QED
        BY <3>1, <3>2
    <2>3. ASSUME NEW d \in Secondaries
          PROVE  /\ pending'[d] \subseteq Sgis
                 /\ line'[d] = {}
                 /\ running'[d] \subseteq Sgis
      <3>1. line'[d] = {}
        BY <1>f, Zenon DEF LeavesOthers, IInv, IdsSeparate
      <3>2. CASE d = c
        BY <3>1, <3>2, SecondaryKeepsHandlers, Zenon
      <3>3. CASE d # c
        BY <1>a, <1>f, <3>1, <3>3 DEF LeavesOthers, IInv, IdsSeparate
      <3>4. QED
        BY <3>2, <3>3, Zenon
    <2>4. QED
      BY <2>1, <2>2, <2>3, Zenon DEF IdsSeparate
  <1>2. \A d \in Secondaries : HandlersCover(d)'
    <2> TAKE d \in Secondaries
    <2>1. CASE d = c
      BY <2>1, SecondaryKeepsHandlers, Zenon
    <2>2. CASE d # c
      <3>1. HandlersCover(d)
        BY DEF IInv
      <3>2. QED
        BY <1>a, <1>f, <2>2, <3>1 DEF LeavesOthers, HandlersCover
    <2>3. QED
      BY <2>1, <2>2
  <1>3. UnexpectedIrqOnlyAfterEarlyWake'
    BY SecondaryUnexpectedIrq
  <1>4. OneSgiPerPowerOn'
    <2> SUFFICES ASSUME NEW d \in Secondaries
                 PROVE  \A i, j \in running'[d] : i = j
      BY DEF OneSgiPerPowerOn
    <2>1. CASE d = c
      BY <2>1, SecondaryKeepsHandlers
    <2>2. CASE d # c
      <3>1. running'[d] = running[d]
        BY <1>a, <1>f, <2>2, Zenon DEF LeavesOthers
      <3>2. QED
        BY <3>1, Zenon DEF IInv, OneSgiPerPowerOn
    <2>3. QED
      BY <2>1, <2>2
  <1>5. /\ pc'[c] = "off" <=> psci'[c] \in {"Off", "OnPending"}
        /\ psci[c] = "Off" => psci'[c] = "Off"
    <2> USE DEF IInv, PsciAgrees, TypeOK, AffinityStates, Secondaries, cpuVars,
                At, Goto
    <2>1. CASE PsciBoot(c)
      BY <2>1, Zenon DEF PsciBoot
    <2>2. CASE Thread(c)
      BY <2>2, Zenon DEF Thread, secondary_init, enable_sgis, set_handlers,
                  irq_enable, wfi, finish_waiting, remove_handlers, cpu_off
    <2>3. CASE wfi_returns_early(c)
      BY <2>3, Zenon DEF wfi_returns_early, WfiReturnsEarly
    <2>4. CASE Irq(c)
      BY <2>4, Zenon DEF Irq, secondary_irq_handler, unexpected_irq, IrqLeftActive,
                  IrqUnexpected, ReturnFromIrq
    <2>5. QED
      BY <2>1, <2>2, <2>3, <2>4, Zenon DEF SecondaryStep
  <1>6. PsciAgrees'
    <2>1. psci'[Primary] = "On" /\ pc'[Primary] = pc[Primary]
      BY <1>b, <1>f, Zenon DEF LeavesOthers, IInv, PsciAgrees
    <2>2. ASSUME NEW d \in Secondaries
          PROVE  /\ pc'[d] = "off" <=> psci'[d] \in {"Off", "OnPending"}
                 /\ psci[d] = "Off" => psci'[d] = "Off"
      <3>1. CASE d = c
        BY <1>5, <3>1, Zenon
      <3>2. CASE d # c
        <4>1. pc'[d] = pc[d] /\ psci'[d] = psci[d]
          BY <1>a, <1>f, <3>2, Zenon DEF LeavesOthers
        <4>2. QED
          BY <4>1, Zenon DEF IInv, PsciAgrees
      <3>3. QED
        BY <3>1, <3>2
    <2>3. target' = target
      BY <1>f, Zenon DEF LeavesOthers
    <2>4. QED
      BY <2>1, <2>2, <2>3, Zenon DEF IInv, PsciAgrees
  <1>7. StacksSeparate'
    <2>1. UNCHANGED <<stackOf, stackTop, target, argument>>
      BY <1>f, Zenon DEF LeavesOthers
    <2>2. pc'[Primary] = pc[Primary]
      BY <1>b, <1>f, Zenon DEF LeavesOthers
    <2>3. QED
      BY <2>1, <2>2, Zenon DEF IInv, StacksSeparate
  <1>8. RunningStackIntact'
    <2>1. UNCHANGED <<stackOf, stackTop, launched>>
      BY <1>f DEF LeavesOthers
    <2>2. ASSUME NEW d \in Secondaries, psci[d] = "Off" PROVE psci'[d] = "Off"
      <3>1. CASE d = c
        BY <1>5, <2>2, <3>1, Zenon
      <3>2. CASE d # c
        BY <1>a, <1>f, <2>2, <3>2 DEF LeavesOthers
      <3>3. QED
        BY <3>1, <3>2, Zenon
    <2>3. QED
      BY <2>1, <2>2, Zenon DEF IInv, RunningStackIntact
  <1>9. system' # "handler_exists"
    BY SecondaryKeepsHandlers, Zenon
  <1>10. QED
    BY <1>t, <1>1, <1>2, <1>3, <1>4, <1>6, <1>7, <1>8, <1>9 DEF IInv

(* The state on entering the shell satisfies the invariant. *)
LEMMA InitIInv == Init => IInv
  <1> SUFFICES ASSUME Init PROVE IInv
    OBVIOUS
  <1>1. TypeOK
    BY InitTypeOK
  <1>2. QED
    BY <1>1, InterruptsAssumption, Zenon
    DEF Init, IInv, IdsSeparate, HandlersCover, PsciAgrees, StacksSeparate,
        UnexpectedIrqOnlyAfterEarlyWake, OneSgiPerPowerOn, RunningStackIntact,
        Secondaries

(* A stuttering step keeps the invariant. *)
LEMMA StutterKeepsIInv == IInv /\ UNCHANGED vars => IInv'
  <1> SUFFICES ASSUME IInv, UNCHANGED vars PROVE IInv'
    OBVIOUS
  <1> USE DEF IInv, vars, irqVars, gicVars, cpuVars
  <1>1. TypeOK'
    BY NextTypeOK
  <1>2. system' # "handler_exists"
    OBVIOUS
  <1>3. IdsSeparate'
    BY DEF IdsSeparate
  <1>4. \A c \in Secondaries : HandlersCover(c)'
    BY DEF HandlersCover
  <1>5. UnexpectedIrqOnlyAfterEarlyWake' /\ OneSgiPerPowerOn'
    BY DEF UnexpectedIrqOnlyAfterEarlyWake, OneSgiPerPowerOn
  <1>6. PsciAgrees'
    BY Zenon DEF PsciAgrees
  <1>7. StacksSeparate' /\ RunningStackIntact'
    BY DEF StacksSeparate, RunningStackIntact
  <1>8. QED
    BY <1>1, <1>2, <1>3, <1>4, <1>5, <1>6, <1>7

(* The invariant holds in every reachable state. *)
THEOREM Invariance == Spec => []IInv
  <1>1. IInv /\ [Next]_vars => IInv'
    <2> SUFFICES ASSUME IInv, [Next]_vars PROVE IInv'
      OBVIOUS
    <2>1. CASE Shell
      BY <2>1, ShellKeepsIInv
    <2>2. CASE \E c \in Secondaries : SecondaryStep(c)
      BY <2>2, SecondaryKeepsIInv
    <2>3. CASE UNCHANGED vars
      BY <2>3, StutterKeepsIInv
    <2>4. QED
      BY <2>1, <2>2, <2>3 DEF Next, SecondaryStep
  <1>2. QED
    BY <1>1, InitIInv, PTL DEF Spec

-----------------------------------------------------------------------------
(* What follows from it. *)

(* handle_irq finds a handler for every SGI a secondary core takes, unless *)
(* the core's wfi returned early: an SGI sent while the core removes its   *)
(* handlers is never signalled.                                            *)
THEOREM NoUnexpectedIrq == Spec => []UnexpectedIrqOnlyAfterEarlyWake
  BY Invariance, PTL DEF IInv

(* Between power-on and power-off a core acknowledges at most one SGI. *)
THEOREM AtMostOneSgi == Spec => []OneSgiPerPowerOn
  BY Invariance, PTL DEF IInv

(* A secondary core finds on its stack what CPU_ON was given for it, for   *)
(* as long as it is not off.                                               *)
THEOREM StackIntegrity == Spec => []RunningStackIntact
  BY Invariance, PTL DEF IInv

(* get_secondary_stack allocates a stack for a core once and for all. *)
THEOREM StacksAreKept == Spec => StackKept
  <1> DEFINE Kept == \A c \in Cores : stackOf[c] # NoStack => stackOf'[c] = stackOf[c]
  <1>1. IInv /\ [Next]_vars => [Kept]_vars
    <2> SUFFICES ASSUME IInv, Next PROVE Kept
      BY Zenon
    <2>1. CASE get_secondary_stack
      BY <2>1, Zenon DEF IInv, TypeOK, get_secondary_stack
    <2>2. CASE Shell /\ ~get_secondary_stack
      BY <2>2, Zenon DEF Shell, start_cpu, start_core_write, start_core_cpu_on, sgi,
                  exit, power_off, cpuVars
    <2>3. CASE \E c \in Secondaries : SecondaryStep(c)
      BY <2>3, SecondaryFrame, Zenon DEF IInv, LeavesOthers
    <2>4. QED
      BY <2>1, <2>2, <2>3, Zenon DEF Next, SecondaryStep
  <1>2. QED
    BY <1>1, Invariance, PTL DEF Spec, StackKept

-----------------------------------------------------------------------------
(* The steps of start_cpu and of a secondary core implement CoreLifecycle. *)

(* Life with the argument that CPU_ON was given in place of the stack's. *)
LaunchedOf(c) ==
  IF psci[c] = "Off"
  THEN NoStack
  ELSE [state |-> psci[c], arg |-> launched[c]]

LaunchedLife == [c \in Secondaries |-> LaunchedOf(c)]

(* A core's stack holds what CPU_ON was given, so the two lives agree. *)
LEMMA LifeIsLaunched == IInv => Life = LaunchedLife
  BY Zenon DEF IInv, RunningStackIntact, Life, LaunchedLife, LaunchedOf

(* A step that PSCI takes with one core changes the life of that core. *)
LEMMA LifeOfOneCore ==
  ASSUME TypeOK, NEW c \in Secondaries, NEW s, NEW a,
         psci' = [psci EXCEPT ![c] = s], launched' = [launched EXCEPT ![c] = a]
  PROVE  LaunchedLife' =
           [LaunchedLife EXCEPT ![c] = IF s = "Off"
                                       THEN NoStack
                                       ELSE [state |-> s, arg |-> a]]
  <1>0. /\ psci \in [Cores -> AffinityStates] /\ launched \in [Cores -> Args]
        /\ Secondaries \subseteq Cores
    BY Zenon DEF TypeOK, Secondaries
  <1>1. /\ psci'[c] = s /\ launched'[c] = a
        /\ \A d \in Secondaries : d # c => psci'[d] = psci[d] /\ launched'[d] = launched[d]
    BY <1>0
  <1>2. LaunchedOf(c)' = IF s = "Off" THEN NoStack ELSE [state |-> s, arg |-> a]
    BY <1>1 DEF LaunchedOf
  <1>3. \A d \in Secondaries : d # c => LaunchedOf(d)' = LaunchedOf(d)
    BY <1>1 DEF LaunchedOf
  <1>4. QED
    BY <1>2, <1>3, Zenon DEF LaunchedLife

(* Only CPU_ON, the core's first instruction and CPU_OFF change the life   *)
(* of a core, each as CoreLifecycle allows.                                *)
LEMMA LaunchedLifeSteps ==
  ASSUME IInv, Next
  PROVE  \/ LaunchedLife' = LaunchedLife
         \/ \E c \in Secondaries, a \in Args :
              \/ /\ LaunchedLife[c] = NoStack
                 /\ LaunchedLife' = [LaunchedLife EXCEPT ![c] = Lifecycle!Starting(a)]
              \/ /\ LaunchedLife[c] = Lifecycle!Starting(a)
                 /\ LaunchedLife' = [LaunchedLife EXCEPT ![c] = Lifecycle!Running(a)]
              \/ /\ LaunchedLife[c] = Lifecycle!Running(a)
                 /\ LaunchedLife' = [LaunchedLife EXCEPT ![c] = NoStack]
  <1> USE DEF Lifecycle!Starting, Lifecycle!Running
  <1>0. TypeOK /\ launched \in [Cores -> Args] /\ Secondaries \subseteq Cores
    BY Zenon DEF IInv, TypeOK, Secondaries
  <1>1. TypeOK /\ \A c \in Secondaries : launched[c] \in Args /\ LaunchedLife[c] = LaunchedOf(c)
    <2>1. \A c \in Secondaries : launched[c] \in Args
      BY <1>0, Zenon
    <2>2. \A c \in Secondaries : LaunchedLife[c] = LaunchedOf(c)
      BY ZenonT(30) DEF LaunchedLife
    <2>3. QED
      BY <1>0, <2>1, <2>2
  <1>2. CASE psci' = psci /\ launched' = launched
    BY <1>2 DEF LaunchedLife, LaunchedOf
  <1>3. CASE start_core_cpu_on /\ ~(psci' = psci /\ launched' = launched)
    <2>1. target \in Secondaries /\ argument \in Args
      BY <1>3 DEF IInv, TypeOK, PsciAgrees, start_core_cpu_on, At
    <2>2. /\ psci[target] = "Off"
          /\ psci' = [psci EXCEPT ![target] = "OnPending"]
          /\ launched' = [launched EXCEPT ![target] = argument]
      BY <1>3 DEF start_core_cpu_on
    <2>3. LaunchedLife[target] = NoStack
      BY <1>1, <2>1, <2>2, Zenon DEF LaunchedOf
    <2>4. LaunchedLife' = [LaunchedLife EXCEPT ![target] = Lifecycle!Starting(argument)]
      BY <1>1, <2>1, <2>2, LifeOfOneCore, Zenon
    <2>5. QED
      BY <2>1, <2>3, <2>4, Zenon
  <1>4. ASSUME NEW c \in Secondaries, PsciBoot(c)
        PROVE  /\ LaunchedLife[c] = Lifecycle!Starting(launched[c])
               /\ LaunchedLife' = [LaunchedLife EXCEPT ![c] = Lifecycle!Running(launched[c])]
    <2>0. TypeOK
      BY <1>1, Zenon
    <2>1. /\ psci[c] = "OnPending"
          /\ psci' = [psci EXCEPT ![c] = "On"]
          /\ launched' = [launched EXCEPT ![c] = launched[c]]
      BY <1>1, <1>4 DEF PsciBoot, TypeOK
    <2>2. LaunchedLife[c] = Lifecycle!Starting(launched[c])
      BY <1>1, <2>1 DEF LaunchedOf
    <2>3. LaunchedLife' = [LaunchedLife EXCEPT ![c] = Lifecycle!Running(launched[c])]
      <3> DEFINE a == launched[c]
      <3>1. launched' = [launched EXCEPT ![c] = a]
        BY <2>1, Zenon
      <3> HIDE DEF a
      <3>2. LaunchedLife' = [LaunchedLife EXCEPT ![c] =
                                 IF "On" = "Off" THEN NoStack ELSE [state |-> "On", arg |-> a]]
        <4>1. psci' = [psci EXCEPT ![c] = "On"]
          BY <2>1
        <4>2. QED
          BY <2>0, <3>1, <4>1, LifeOfOneCore, Zenon
      <3>3. QED
        BY <3>2 DEF a
    <2>4. QED
      BY <2>2, <2>3
  <1>5. ASSUME NEW c \in Secondaries, cpu_off(c), psci' # psci
        PROVE  /\ LaunchedLife[c] = Lifecycle!Running(launched[c])
               /\ LaunchedLife' = [LaunchedLife EXCEPT ![c] = NoStack]
    <2>1. psci[c] = "On"
      BY <1>5 DEF IInv, TypeOK, PsciAgrees, AffinityStates, Secondaries, cpu_off, At
    <2>2. /\ psci' = [psci EXCEPT ![c] = "Off"]
          /\ launched' = [launched EXCEPT ![c] = launched[c]]
      BY <1>1, <1>5, Zenon DEF cpu_off, TypeOK
    <2>3. QED
      BY <1>1, <2>1, <2>2, LifeOfOneCore, Zenon DEF LaunchedOf
  <1>6. CASE Shell /\ ~start_core_cpu_on
    BY <1>2, <1>6, Zenon DEF Shell, start_cpu, get_secondary_stack, start_core_write,
                      sgi, exit, power_off, cpuVars
  <1>7. ASSUME NEW c \in Secondaries, SecondaryStep(c), ~PsciBoot(c)
        PROVE  launched' = launched /\ (psci' = psci \/ cpu_off(c))
    BY <1>7, Zenon DEF SecondaryStep, Thread, Irq, secondary_init, enable_sgis,
      set_handlers, irq_enable, wfi, finish_waiting, remove_handlers, cpu_off,
      wfi_returns_early, secondary_irq_handler, unexpected_irq, cpuVars
  <1>8. CASE \E c \in Secondaries : SecondaryStep(c)
    <2> PICK c \in Secondaries : SecondaryStep(c)
      BY <1>8
    <2>1. CASE PsciBoot(c)
      BY <1>1, <1>4, <2>1
    <2>2. CASE cpu_off(c) /\ psci' # psci
      BY <1>1, <1>5, <2>2
    <2>3. QED
      BY <1>2, <1>7, <2>1, <2>2, Zenon
  <1>9. QED
    BY <1>2, <1>3, <1>6, <1>8, Zenon DEF Next, SecondaryStep

(* start_cpu starts a core as if in one step, and the core runs with that  *)
(* argument until it is off.                                               *)
THEOREM StartIsAtomic == Spec => LifecycleSpec
  <1>1. Init => Lifecycle!Init
    <2>1. Init => \A c \in Secondaries : psci[c] = "Off"
      <3>1. Init => psci = [c \in Cores |-> IF c = Primary THEN "On" ELSE "Off"]
        BY Zenon DEF Init
      <3>2. QED
        BY <3>1 DEF Secondaries
    <2>2. QED
      BY <2>1 DEF Lifecycle!Init, Life
  <1>2. (IInv => Life = LaunchedLife)'
    BY LifeIsLaunched, PTL
  <1>3. IInv /\ IInv' /\ [Next]_vars => [Lifecycle!Next]_Life
    <2> SUFFICES ASSUME IInv, IInv', [Next]_vars
                 PROVE  Lifecycle!Next \/ Life' = Life
      OBVIOUS
    <2>1. Life = LaunchedLife /\ Life' = LaunchedLife'
      BY <1>2, LifeIsLaunched, Zenon
    <2>2. CASE Next
      BY <2>1, <2>2, LaunchedLifeSteps, Zenon
      DEF Lifecycle!Next, Lifecycle!Start, Lifecycle!Enter, Lifecycle!Stop
    <2>3. CASE UNCHANGED vars
      BY <2>3 DEF vars, cpuVars, Life
    <2>4. QED
      BY <2>2, <2>3
  <1>4. QED
    BY <1>1, <1>3, Invariance, PTL DEF Spec, LifecycleSpec, Lifecycle!Spec
=============================================================================
