----------------------------- MODULE APICProofs -----------------------------
(***************************************************************************)
(* Proofs about the two modules of the APICs.                              *)
(*                                                                         *)
(* Interrupts, for any threads, device, depth of nesting and number of     *)
(* interrupts.  A handler that uses the current processor's entry of       *)
(* CPUList finds one: interrupts are on before there is an entry, and what *)
(* saves the kernel is the order in which it registers handlers.  An       *)
(* acknowledgement ends the interrupt of the handler that sends it, or the *)
(* timer's, which blocks no clock but may be one its handler has still to  *)
(* acknowledge: a tick sends two, and another context may run in between.  *)
(*                                                                         *)
(* Processors, for any firmware (damaged or inconsistent tables,           *)
(* processors listed twice included), any clock and any processors that    *)
(* are really there.  Several processors take their stack from one word    *)
(* and answer through one flag.  That works because the boot processor     *)
(* raises the flag only when it is down, and whoever has been told to      *)
(* start and has not lowered it yet keeps it up: there is never more than  *)
(* one.                                                                    *)
(***************************************************************************)
EXTENDS Interrupts, Processors, SequenceTheorems, FiniteSetTheorems,
        NaturalsInduction, WellFoundedInduction, TLAPS

Places == {"dispatch", "count", "ack", "run", "again", "eoi", "iret"}

Frame == [vec : Int, at : Places]

Source == {CLOCK_IRQ, DeviceIRQ, TimerIRQ}

Types ==
  /\ boot \in 1 .. 8
  /\ cur \in Context
  /\ frames \in [Context -> Seq(Frame)]
  /\ irr \subseteq Source

\* The processor is in the list before the clock and the system calls have
\* handlers, and those are entered through the table of handlers only.
HandlersComeLater ==
  /\ boot > 6 => hasCPU
  /\ CLOCK_IRQ \in handlers \/ SYSCALL_IRQ_NUM \in handlers => hasCPU

Invariant == Types /\ HandlersComeLater /\ ClockFindsProcessor

UsesCPU(f) == f.at \in {"count", "ack", "run"}

-----------------------------------------------------------------------------
(* Frames *)

\* The seven steps of the boot, in the order of the source.
LEMMA StepsInOrder ==
  /\ Len(Steps) = 7
  /\ Steps[1] = "InitBSP" /\ Steps[2] = "KernelSpace" /\ Steps[3] = "CPUx86"
  /\ Steps[4] = "InitBSP" /\ Steps[5] = "Sti" /\ Steps[6] = "AddCPU"
  /\ Steps[7] = "InitPIT"
BY DEF Steps

\* A boot step is the one of its number.
LEMMA StepNumbers ==
  ASSUME Types, NEW s, BootStep(s)
  PROVE  /\ boot \in 1 .. 7 /\ boot' = boot + 1 /\ boot' \in 1 .. 8
         /\ s = "AddCPU" => boot = 6
         /\ s = "InitPIT" => boot = 7
         /\ boot = 6 => s = "AddCPU"
         /\ cur' = cur /\ frames' = frames /\ irr' = irr
<1>1. boot \in 1 .. 8 /\ boot <= 7
  BY StepsInOrder DEF Types, BootStep, InStep, Booted
<1>2. s = Steps[boot] /\ boot' = boot + 1 /\ cur' = cur /\ frames' = frames /\ irr' = irr
  BY DEF BootStep, InStep
<1>3. boot \in 1 .. 7
  BY <1>1
<1>4. boot = 1 \/ boot = 2 \/ boot = 3 \/ boot = 4 \/ boot = 5 \/ boot = 6 \/ boot = 7
  BY <1>3
<1>5. boot' \in 1 .. 8
  BY <1>2, <1>3
<1> QED
  BY <1>2, <1>3, <1>4, <1>5, StepsInOrder

\* The frames after a handler goes on are the ones before, but for the innermost.
LEMMA GoingOn ==
  ASSUME Types, frames[cur] # <<>>, NEW place \in Places, frames' = GoesTo(place)
  PROVE  /\ frames' \in [Context -> Seq(Frame)]
         /\ \A c \in Context : \A i \in DOMAIN frames'[c] :
              \/ i \in DOMAIN frames[c] /\ frames'[c][i] = frames[c][i]
              \/ frames'[c][i].at = place
<1> DEFINE s == frames[cur]
           depth == Len(s)
           t == [s EXCEPT ![depth].at = place]
<1>1. s \in Seq(Frame) /\ cur \in Context
  BY DEF Types
<1>2. depth \in Nat \ {0} /\ s \in [1 .. depth -> Frame] /\ DOMAIN s = 1 .. depth
  BY <1>1, LenProperties, EmptySeq
<1>3. s[depth] \in Frame
  BY <1>2
<1>4. [s[depth] EXCEPT !.at = place] \in Frame /\ [s[depth] EXCEPT !.at = place].at = place
  BY <1>3 DEF Frame
<1>5. /\ t \in [1 .. depth -> Frame] /\ DOMAIN t = 1 .. depth
      /\ t[depth].at = place /\ \A i \in (1 .. depth) \ {depth} : t[i] = s[i]
  BY <1>2, <1>4
<1>6. t \in Seq(Frame)
  BY <1>2, <1>5
<1>7. frames' = [frames EXCEPT ![cur] = t]
  BY DEF GoesTo
<1> HIDE DEF t
<1>8. /\ frames' \in [Context -> Seq(Frame)] /\ frames'[cur] = t
      /\ \A c \in Context \ {cur} : frames'[c] = frames[c]
  BY <1>1, <1>6, <1>7 DEF Types
<1>9. ASSUME NEW c \in Context, NEW i \in DOMAIN frames'[c]
      PROVE  \/ i \in DOMAIN frames[c] /\ frames'[c][i] = frames[c][i]
             \/ frames'[c][i].at = place
  <2>1. CASE c = cur
    <3>1. i \in 1 .. depth /\ frames'[c][i] = t[i]
      BY <1>5, <1>8, <1>9, <2>1
    <3>2. CASE i = depth
      BY <1>5, <3>1, <3>2
    <3>3. CASE i # depth
      BY <1>2, <1>5, <2>1, <3>1, <3>3
    <3> QED
      BY <3>2, <3>3
  <2>2. CASE c # cur
    BY <1>8, <1>9, <2>2
  <2> QED
    BY <2>1, <2>2
<1> QED
  BY <1>8, <1>9

\* A place that needs no processor is always found with one.
LEMMA GoingOnFinds ==
  ASSUME Invariant, frames[cur] # <<>>, NEW place \in Places, frames' = GoesTo(place),
         hasCPU' = hasCPU, place \in {"count", "ack", "run"} => hasCPU
  PROVE  ClockFindsProcessor' /\ frames' \in [Context -> Seq(Frame)]
<1>1. /\ frames' \in [Context -> Seq(Frame)]
      /\ \A c \in Context : \A i \in DOMAIN frames'[c] :
              \/ i \in DOMAIN frames[c] /\ frames'[c][i] = frames[c][i]
              \/ frames'[c][i].at = place
  BY GoingOn DEF Invariant
<1>2. ASSUME NEW c \in Context, NEW i \in DOMAIN frames'[c],
             frames'[c][i].at \in {"count", "ack", "run"}
      PROVE  hasCPU'
  <2>1. CASE i \in DOMAIN frames[c] /\ frames'[c][i] = frames[c][i]
    BY <1>2, <2>1 DEF Invariant, ClockFindsProcessor
  <2>2. CASE frames'[c][i].at = place
    BY <1>2, <2>2
  <2> QED
    BY <1>1, <2>1, <2>2
<1> QED
  BY <1>1, <1>2 DEF ClockFindsProcessor

\* A frame that was pushed is not at such a place yet.
LEMMA PushFinds ==
  ASSUME Invariant, NEW v \in Int, Push(v), hasCPU' = hasCPU
  PROVE  ClockFindsProcessor' /\ frames' \in [Context -> Seq(Frame)]
<1> DEFINE f == [vec |-> v, at |-> "dispatch"]
           s == frames[cur]
           t == Append(s, f)
<1>1. f \in Frame /\ f.at = "dispatch"
  BY DEF Frame, Places
<1>2. s \in Seq(Frame) /\ cur \in Context
  BY DEF Invariant, Types
<1> HIDE DEF f
<1>3. /\ t \in Seq(Frame) /\ Len(t) = Len(s) + 1 /\ t[Len(s) + 1] = f
      /\ \A i \in 1 .. Len(s) : t[i] = s[i]
  BY <1>1, <1>2, AppendProperties
<1>4. DOMAIN t = 1 .. Len(s) + 1 /\ DOMAIN s = 1 .. Len(s) /\ Len(s) \in Nat
  BY <1>2, <1>3, LenProperties
<1>5. frames' = [frames EXCEPT ![cur] = t]
  BY DEF Push, f
<1> HIDE DEF t
<1>6. /\ frames' \in [Context -> Seq(Frame)] /\ frames'[cur] = t
      /\ \A c \in Context \ {cur} : frames'[c] = frames[c]
  BY <1>2, <1>3, <1>5 DEF Invariant, Types
<1>7. ASSUME NEW c \in Context, NEW i \in DOMAIN frames'[c],
             frames'[c][i].at \in {"count", "ack", "run"}
      PROVE  hasCPU'
  <2>1. CASE c = cur /\ i = Len(s) + 1
    BY <1>1, <1>3, <1>6, <1>7, <2>1
  <2>2. CASE c = cur /\ i # Len(s) + 1
    <3>1. i \in 1 .. Len(s)
      <4> DEFINE depth == Len(s)
      <4>1. depth \in Nat /\ i \in 1 .. depth + 1 /\ i # depth + 1
        BY <1>4, <1>6, <1>7, <2>2
      <4> HIDE DEF depth
      <4>2. i \in 1 .. depth
        BY <4>1
      <4> QED
        BY <4>2 DEF depth
    <3>2. frames'[c][i] = frames[c][i] /\ i \in DOMAIN frames[c]
      BY <1>3, <1>4, <1>6, <2>2, <3>1
    <3> QED
      BY <1>7, <3>2 DEF Invariant, ClockFindsProcessor
  <2>3. CASE c # cur
    BY <1>6, <1>7, <2>3 DEF Invariant, ClockFindsProcessor
  <2> QED
    BY <2>1, <2>2, <2>3
<1> QED
  BY <1>6, <1>7 DEF ClockFindsProcessor

\* A handler that returns leaves the frames outside it.
LEMMA IretFinds ==
  ASSUME Invariant, Iret
  PROVE  ClockFindsProcessor' /\ frames' \in [Context -> Seq(Frame)]
<1> DEFINE s == frames[cur]
           t == SubSeq(s, 1, Len(s) - 1)
<1>1. s \in Seq(Frame) /\ cur \in Context /\ s # <<>>
  BY DEF Invariant, Types, Iret, At
<1>2. Len(s) \in Nat \ {0} /\ DOMAIN s = 1 .. Len(s)
  BY <1>1, LenProperties, EmptySeq
<1>3. /\ t \in Seq(Frame) /\ DOMAIN t = 1 .. Len(s) - 1
      /\ \A i \in 1 .. Len(s) - 1 : t[i] = s[i]
  BY <1>1, <1>2
<1>4. frames' = [frames EXCEPT ![cur] = t]
  BY DEF Iret
<1> HIDE DEF t
<1>5. /\ frames' \in [Context -> Seq(Frame)] /\ frames'[cur] = t
      /\ \A c \in Context \ {cur} : frames'[c] = frames[c]
  BY <1>1, <1>3, <1>4 DEF Invariant, Types
<1>6. ASSUME NEW c \in Context, NEW i \in DOMAIN frames'[c]
      PROVE  i \in DOMAIN frames[c] /\ frames'[c][i] = frames[c][i]
  <2>1. CASE c = cur
    <3> DEFINE depth == Len(s)
    <3>1. depth \in Nat \ {0} /\ i \in 1 .. depth - 1 /\ DOMAIN s = 1 .. depth
      BY <1>2, <1>3, <1>5, <1>6, <2>1
    <3>2. t[i] = s[i]
      BY <1>3, <3>1
    <3> HIDE DEF depth
    <3>3. i \in DOMAIN s
      BY <3>1
    <3> QED
      BY <1>5, <2>1, <3>2, <3>3
  <2>2. CASE c # cur
    BY <1>5, <1>6, <2>2
  <2> QED
    BY <2>1, <2>2
<1> QED
  BY <1>5, <1>6 DEF Iret, bootVars, Invariant, ClockFindsProcessor

-----------------------------------------------------------------------------
(* Steps *)

\* Each step of the boot keeps the invariant.
LEMMA BootKeeps == ASSUME Invariant, Boot PROVE Invariant'
<1> USE DEF Invariant
<1>1. ASSUME NEW s, BootStep(s), hasCPU => hasCPU', s = "AddCPU" => hasCPU',
             s = "InitPIT" \/ handlers' \subseteq handlers \cup {PageFault}
      PROVE  Invariant'
  <2>1. /\ boot \in 1 .. 7 /\ boot' = boot + 1 /\ boot' \in 1 .. 8
        /\ s = "InitPIT" => boot = 7
        /\ boot = 6 => s = "AddCPU"
        /\ cur' = cur /\ frames' = frames /\ irr' = irr
    BY <1>1, StepNumbers
  <2>2. Types'
    BY <2>1 DEF Types
  <2>3. boot = 7 => hasCPU
    <3>1. boot = 7 => boot > 6
      OBVIOUS
    <3> QED
      BY <3>1 DEF HandlersComeLater
  <2>4. boot' > 6 => hasCPU'
    <3>1. boot = 6 \/ boot = 7 \/ ~(boot' > 6)
      BY <2>1
    <3> QED
      BY <1>1, <2>1, <2>3, <3>1
  <2>5. CLOCK_IRQ # PageFault /\ SYSCALL_IRQ_NUM # PageFault
    BY DEF CLOCK_IRQ, IRQBase, ClockPin, SYSCALL_IRQ_NUM, PageFault
  <2>6. CLOCK_IRQ \in handlers' \/ SYSCALL_IRQ_NUM \in handlers' => hasCPU'
    <3>1. CASE s = "InitPIT"
      BY <1>1, <2>1, <2>3, <3>1
    <3>2. CASE s # "InitPIT"
      BY <1>1, <2>5, <3>2 DEF HandlersComeLater
    <3> QED
      BY <3>1, <3>2
  <2>7. ClockFindsProcessor'
    BY <1>1, <2>1 DEF ClockFindsProcessor
  <2> QED
    BY <2>2, <2>4, <2>6, <2>7 DEF HandlersComeLater
<1>2. CASE InitBSP
  <2>1. BootStep("InitBSP") /\ handlers' = handlers /\ hasCPU' = hasCPU
    BY <1>2 DEF InitBSP
  <2> QED
    BY <1>1, <2>1
<1>3. CASE KernelSpace
  <2>1. /\ BootStep("KernelSpace") /\ hasCPU' = hasCPU
        /\ handlers' = handlers \cup {PageFault}
    BY <1>3 DEF KernelSpace, RegisterIRQ
  <2> QED
    BY <1>1, <2>1
<1>4. CASE LoadTables
  <2>1. PICK s \in {"CPUx86", "Sti"} : BootStep(s)
    BY <1>4 DEF LoadTables
  <2>2. handlers' = handlers /\ hasCPU' = hasCPU
    BY <1>4 DEF LoadTables
  <2> QED
    BY <1>1, <2>1, <2>2
<1>5. CASE AddCPU
  <2>1. BootStep("AddCPU") /\ handlers' = handlers /\ hasCPU' = TRUE
    BY <1>5 DEF AddCPU
  <2> QED
    BY <1>1, <2>1
<1>6. CASE InitPIT
  <2>1. BootStep("InitPIT") /\ hasCPU' = hasCPU
    BY <1>6 DEF InitPIT
  <2> QED
    BY <1>1, <2>1
<1> QED
  BY <1>2, <1>3, <1>4, <1>5, <1>6 DEF Boot

\* So does each step of a handler.
LEMMA HandlerKeeps == ASSUME Invariant, Handler PROVE Invariant'
<1> USE DEF Invariant
<1>1. ASSUME UNCHANGED <<boot, handlers, hasCPU, irr>>, cur' \in Context,
             ClockFindsProcessor', frames' \in [Context -> Seq(Frame)]
      PROVE  Invariant'
  BY <1>1 DEF Types, HandlersComeLater
<1>2. CASE Dispatch
  <2> DEFINE place == IF Top.vec \notin handlers THEN "eoi"
                   ELSE IF Top.vec = CLOCK_IRQ THEN "count"
                   ELSE IF Top.vec = SYSCALL_IRQ_NUM THEN "run"
                   ELSE "eoi"
  <2>1. place \in Places /\ (place \in {"count", "ack", "run"} => hasCPU)
    BY DEF Places, HandlersComeLater
  <2>2. frames[cur] # <<>> /\ frames' = GoesTo(place) /\ hasCPU' = hasCPU
    BY <1>2 DEF Dispatch, At, bootVars
  <2> HIDE DEF place
  <2>3. ClockFindsProcessor' /\ frames' \in [Context -> Seq(Frame)]
    BY <2>1, <2>2, GoingOnFinds
  <2> QED
    BY <1>1, <1>2, <2>3 DEF Dispatch, bootVars, Types
<1>3. ASSUME frames[cur] # <<>>, NEW place \in Places, frames' = GoesTo(place),
             UNCHANGED <<bootVars, irr>>, cur' \in Context,
             place \in {"count", "ack", "run"} => hasCPU
      PROVE  Invariant'
  <2>1. ClockFindsProcessor' /\ frames' \in [Context -> Seq(Frame)]
    BY <1>3, GoingOnFinds DEF bootVars
  <2> QED
    BY <1>1, <1>3, <2>1 DEF bootVars
<1>4. ASSUME frames[cur] # <<>>, UsesCPU(Top) PROVE hasCPU
  <2>1. frames[cur] \in Seq(Frame) /\ cur \in Context
    BY DEF Types
  <2>2. Len(frames[cur]) \in DOMAIN frames[cur]
    <3> DEFINE depth == Len(frames[cur])
    <3>1. depth \in Nat \ {0} /\ DOMAIN frames[cur] = 1 .. depth
      BY <1>4, <2>1, LenProperties, EmptySeq
    <3> HIDE DEF depth
    <3>2. depth \in DOMAIN frames[cur]
      BY <3>1
    <3> QED
      BY <3>2 DEF depth
  <2> QED
    BY <1>4, <2>1, <2>2 DEF Top, UsesCPU, ClockFindsProcessor
<1>5. CASE ClockCount
  BY <1>3, <1>4, <1>5 DEF ClockCount, At, UsesCPU, Places, bootVars, Types
<1>6. CASE ClockAck
  BY <1>3, <1>4, <1>6 DEF ClockAck, At, UsesCPU, Places, bootVars, Types
<1>7. CASE Run
  <2>1. cur' \in Context
    BY <1>7 DEF Run, Context, Types
  <2> DEFINE place == IF Top.vec = CLOCK_IRQ THEN "again" ELSE "eoi"
  <2>2. place \in Places /\ place \notin {"count", "ack", "run"}
    BY DEF Places
  <2>3. frames[cur] # <<>> /\ frames' = GoesTo(place) /\ UNCHANGED <<bootVars, irr>>
    BY <1>7 DEF Run, At
  <2> HIDE DEF place
  <2> QED
    BY <1>3, <2>1, <2>2, <2>3
<1>8. CASE UniHandlerEOI
  BY <1>3, <1>8 DEF UniHandlerEOI, At, Places, bootVars, Types
<1>9. CASE Iret
  <2>1. ClockFindsProcessor' /\ frames' \in [Context -> Seq(Frame)]
    BY <1>9, IretFinds
  <2> QED
    BY <1>1, <1>9, <2>1 DEF Iret, bootVars, Types
<1> QED
  BY <1>2, <1>5, <1>6, <1>7, <1>8, <1>9 DEF Handler

\* The highest interrupt that waits is one of them.
LEMMA HighestWaits ==
  ASSUME NEW S \in SUBSET Source, S # {}
  PROVE  Max(S) \in S /\ \A y \in S : Max(S) >= y
<1>1. Source \subseteq Int
  BY PinAssumption DEF Source, CLOCK_IRQ, DeviceIRQ, TimerIRQ, IRQBase, ClockPin
<1>2. \E x \in S : \A y \in S : x >= y
  <2>1. PICK a \in Int, b \in Int, c \in Int : Source = {a, b, c}
    BY <1>1 DEF Source
  <2>2. /\ \A y \in S : y = a \/ y = b \/ y = c
        /\ a \in S \/ b \in S \/ c \in S
    BY <2>1
  <2>3. SUFFICES ASSUME \A x \in S : \E y \in S : y > x PROVE FALSE
    BY <1>1
  <2>4. /\ a \in S => (b \in S /\ b > a) \/ (c \in S /\ c > a)
        /\ b \in S => (a \in S /\ a > b) \/ (c \in S /\ c > b)
        /\ c \in S => (a \in S /\ a > c) \/ (b \in S /\ b > c)
    BY <2>2, <2>3
  <2> QED
    BY <2>2, <2>4
<1> QED
  BY <1>2 DEF Max

\* Interrupts that arrive enter no handler yet.
LEMMA ArrivalKeeps ==
  ASSUME Invariant,
         \/ ClockEdge \/ DeviceEdge \/ TimerEnds \/ Accept \/ RegisterSystemCalls
         \/ Trap(SYSCALL_IRQ_NUM) \/ Trap(PageFault) \/ UNCHANGED vars
  PROVE  Invariant'
<1> USE DEF Invariant
<1>1. CASE ClockEdge \/ DeviceEdge \/ TimerEnds \/ UNCHANGED vars
  <2>1. UNCHANGED <<boot, handlers, hasCPU, cur, frames>>
    BY <1>1 DEF ClockEdge, DeviceEdge, TimerEnds, vars, bootVars
  <2>2. irr' \subseteq irr \cup Source
    BY <1>1 DEF ClockEdge, DeviceEdge, TimerEnds, vars, Raised, Source,
                CLOCK_IRQ, DeviceIRQ
  <2> QED
    BY <2>1, <2>2 DEF Types, HandlersComeLater, ClockFindsProcessor
<1>2. ASSUME NEW v \in Int, Push(v), UNCHANGED bootVars, cur' = cur,
             irr' \subseteq irr
      PROVE  Invariant'
  <2>1. ClockFindsProcessor' /\ frames' \in [Context -> Seq(Frame)]
    BY <1>2, PushFinds DEF bootVars
  <2> QED
    BY <1>2, <2>1 DEF bootVars, Types, HandlersComeLater
<1>3. CASE Trap(SYSCALL_IRQ_NUM) \/ Trap(PageFault)
  <2>1. PICK v \in {SYSCALL_IRQ_NUM, PageFault} : Trap(v)
    BY <1>3
  <2>2. v \in Int
    BY <2>1 DEF SYSCALL_IRQ_NUM, PageFault
  <2> QED
    BY <1>2, <2>1, <2>2 DEF Trap
<1>4. CASE Accept
  <2>1. Push(Max(irr)) /\ irr # {} /\ irr' = irr \ {Max(irr)}
    BY <1>4 DEF Accept
  <2>2. Max(irr) \in Int
    <3>1. irr \in SUBSET Source
      BY DEF Types
    <3>2. Max(irr) \in Source
      BY <2>1, <3>1, HighestWaits
    <3> QED
      BY <3>2, PinAssumption
      DEF Source, CLOCK_IRQ, DeviceIRQ, TimerIRQ, IRQBase, ClockPin
  <2>3. UNCHANGED bootVars /\ cur' = cur /\ irr' \subseteq irr
    BY <1>4, <2>1 DEF Accept
  <2> QED
    BY <1>2, <2>1, <2>2, <2>3
<1>5. CASE RegisterSystemCalls
  <2>1. UNCHANGED <<boot, hasCPU, irr, cur, frames>> /\ boot > 6
    BY <1>5, StepsInOrder DEF RegisterSystemCalls, Booted, Types
  <2> QED
    BY <2>1 DEF Types, HandlersComeLater, ClockFindsProcessor
<1> QED
  BY <1>1, <1>2, <1>3, <1>4, <1>5

-----------------------------------------------------------------------------

\* Nothing has run yet.
LEMMA InitKeeps == ASSUME Init PROVE Invariant
<1>1. Types
  <2>1. <<>> \in Seq(Frame) /\ BootContext \in Context
    BY DEF Context
  <2> QED
    BY <2>1 DEF Types, Init
<1>2. HandlersComeLater
  BY DEF Init, HandlersComeLater
<1>3. ClockFindsProcessor
  BY DEF Init, ClockFindsProcessor
<1> QED
  BY <1>1, <1>2, <1>3 DEF Invariant

\* The clock's handler and the system calls find the processor in CPUList,
\* whose entry they use without a test (Clock.cpp 23).
THEOREM ClockFindsProcessorCorrect == Spec => []ClockFindsProcessor
<1>1. Init => Invariant
  BY InitKeeps
<1>2. Invariant /\ [Next]_vars => Invariant'
  BY BootKeeps, HandlerKeeps, ArrivalKeeps DEF Next
<1>3. Invariant => ClockFindsProcessor
  BY DEF Invariant
<1> QED
  BY <1>1, <1>2, <1>3, PTL DEF Spec

-----------------------------------------------------------------------------
(* What is in service.  A frame of the clock or the device that still has to *)
(* acknowledge has only a device's frame of a higher class on top of it.     *)

Blocking == {CLOCK_IRQ, DeviceIRQ}

Holding(f) == f.vec \in Blocking /\ Unacknowledged(f)

OnTopOf(f, g) ==
  /\ f.vec = DeviceIRQ
  /\ Unacknowledged(f) \/ f.at = "iret"
  /\ Class(DeviceIRQ) > Class(g.vec)

\* The places only the clock's handler and system calls reach.
InPlace(f) ==
  /\ f.at \in {"count", "ack", "again"} => f.vec = CLOCK_IRQ
  /\ f.at = "run" => f.vec \in {CLOCK_IRQ, SYSCALL_IRQ_NUM}

Held(served, context, stacks) ==
  \A c \in Context : \A i \in DOMAIN stacks[c] :
    Holding(stacks[c][i]) =>
      /\ c = context
      /\ stacks[c][i].vec \in served
      /\ \A j \in DOMAIN stacks[c] : j > i => OnTopOf(stacks[c][j], stacks[c][i])

Awaited(served, stacks) ==
  \A v \in served : \E c \in Context : \E i \in DOMAIN stacks[c] :
    stacks[c][i].vec = v /\ Unacknowledged(stacks[c][i])

Placed(stacks) == \A c \in Context : \A i \in DOMAIN stacks[c] : InPlace(stacks[c][i])

Service ==
  /\ Invariant
  /\ isr \subseteq Source
  /\ Held(isr, cur, frames)
  /\ Awaited(isr, frames)
  /\ Placed(frames)

\* The vectors and their classes.
LEMMA Vectors ==
  /\ CLOCK_IRQ = 66 /\ DeviceIRQ \in 67 .. 86 /\ TimerIRQ = 32
  /\ SYSCALL_IRQ_NUM = 128 /\ PageFault = 14
  /\ Class(CLOCK_IRQ) = 4 /\ Class(DeviceIRQ) \in 4 .. 5 /\ Class(TimerIRQ) = 2
BY PinAssumption
DEF CLOCK_IRQ, DeviceIRQ, TimerIRQ, SYSCALL_IRQ_NUM, PageFault, IRQBase, ClockPin, Class

\* The innermost frame is the last one.
LEMMA TopIsLast ==
  ASSUME Types, frames[cur] # <<>>
  PROVE  /\ cur \in Context /\ Len(frames[cur]) \in DOMAIN frames[cur]
         /\ \A i \in DOMAIN frames[cur] : i \in Int /\ i <= Len(frames[cur])
         /\ Top = frames[cur][Len(frames[cur])] /\ Top \in Frame
<1> DEFINE s == frames[cur]
           depth == Len(s)
<1>1. s \in Seq(Frame) /\ cur \in Context
  BY DEF Types
<1>2. depth \in Nat \ {0} /\ DOMAIN s = 1 .. depth /\ s \in [1 .. depth -> Frame]
  BY <1>1, LenProperties, EmptySeq
<1>3. Top = s[depth]
  BY DEF Top
<1> HIDE DEF s, depth
<1>4. depth \in DOMAIN s /\ \A i \in DOMAIN s : i \in Int /\ i <= depth
  BY <1>2
<1>5. s[depth] \in Frame
  BY <1>2
<1> QED
  BY <1>1, <1>3, <1>4, <1>5 DEF s, depth

\* A handler that goes on changes the place of the innermost frame.
LEMMA OnlyTopGoesOn ==
  ASSUME Types, frames[cur] # <<>>, NEW place \in Places, frames' = GoesTo(place)
  PROVE  /\ frames' \in [Context -> Seq(Frame)]
         /\ \A c \in Context : DOMAIN frames'[c] = DOMAIN frames[c]
         /\ \A c \in Context : \A i \in DOMAIN frames[c] :
              \/ c = cur /\ i = Len(frames[cur])
              \/ frames'[c][i] = frames[c][i]
         /\ frames'[cur][Len(frames[cur])] = [Top EXCEPT !.at = place]
<1> DEFINE s == frames[cur]
           depth == Len(s)
           t == [s EXCEPT ![depth].at = place]
<1>1. /\ cur \in Context /\ depth \in DOMAIN s /\ Top = s[depth] /\ Top \in Frame
      /\ s \in Seq(Frame)
  BY TopIsLast DEF Types
<1>2. /\ DOMAIN t = DOMAIN s /\ t[depth] = [Top EXCEPT !.at = place]
      /\ \A i \in DOMAIN s : i = depth \/ t[i] = s[i]
  BY <1>1
<1>3. frames' = [frames EXCEPT ![cur] = t]
  BY DEF GoesTo
<1>4. frames' \in [Context -> Seq(Frame)]
  BY GoingOn
<1> HIDE DEF t
<1>5. frames'[cur] = t /\ \A c \in Context \ {cur} : frames'[c] = frames[c]
  BY <1>1, <1>3 DEF Types
<1> HIDE DEF depth
<1>6. /\ \A c \in Context : DOMAIN frames'[c] = DOMAIN frames[c]
      /\ \A c \in Context : \A i \in DOMAIN frames[c] :
              \/ c = cur /\ i = depth
              \/ frames'[c][i] = frames[c][i]
  BY <1>2, <1>5
<1> QED
  BY <1>2, <1>4, <1>5, <1>6 DEF depth

\* A frame that does not hold an interrupt of a high class, and is not the
\* device's on top of the clock's, is alone with interrupts of low classes.
LEMMA NothingHeld ==
  ASSUME Service, frames[cur] # <<>>, ~Holding(Top),
         ~(Top.vec = DeviceIRQ /\ Top.at = "iret")
  PROVE  /\ \A c \in Context : \A i \in DOMAIN frames[c] : ~Holding(frames[c][i])
         /\ isr \subseteq {TimerIRQ}
<1> DEFINE depth == Len(frames[cur])
<1>1. /\ depth \in DOMAIN frames[cur] /\ Top = frames[cur][depth]
      /\ \A i \in DOMAIN frames[cur] : i \in Int /\ i <= depth
      /\ cur \in Context
  BY TopIsLast DEF Service, Invariant
<1> HIDE DEF depth
<1>2. ASSUME NEW c \in Context, NEW i \in DOMAIN frames[c], Holding(frames[c][i])
      PROVE  FALSE
  <2>1. /\ c = cur
        /\ \A j \in DOMAIN frames[c] : j > i => OnTopOf(frames[c][j], frames[c][i])
    BY <1>2 DEF Service, Held
  <2>2. i # depth
    BY <1>1, <1>2, <2>1
  <2>3. depth > i
    BY <1>1, <2>1, <2>2
  <2>4. OnTopOf(Top, frames[c][i])
    BY <1>1, <2>1, <2>3
  <2> QED
    BY <2>4 DEF OnTopOf, Holding, Blocking
<1>3. ASSUME NEW v \in isr, v # TimerIRQ PROVE FALSE
  <2>1. v \in Blocking
    BY <1>3 DEF Service, Source, Blocking
  <2>2. \E c \in Context : \E i \in DOMAIN frames[c] :
          frames[c][i].vec = v /\ Unacknowledged(frames[c][i])
    BY DEF Service, Awaited
  <2> QED
    BY <1>2, <2>1, <2>2 DEF Holding
<1> QED
  BY <1>2, <1>3

\* A frame that holds an interrupt on top of the others holds the highest.
LEMMA TopIsHighest ==
  ASSUME Service, frames[cur] # <<>>, Holding(Top)
  PROVE  EOI(isr) = isr \ {Top.vec} /\ Top.vec \in isr
<1> DEFINE depth == Len(frames[cur])
<1>1. /\ depth \in DOMAIN frames[cur] /\ Top = frames[cur][depth]
      /\ \A i \in DOMAIN frames[cur] : i \in Int /\ i <= depth
      /\ cur \in Context
  BY TopIsLast DEF Service, Invariant
<1> HIDE DEF depth
<1>2. Top.vec \in isr /\ isr \subseteq Source
  BY <1>1 DEF Service, Held
<1>3. Max(isr) \in isr /\ Max(isr) >= Top.vec
  <2>1. isr \in SUBSET Source /\ isr # {}
    BY <1>2
  <2> QED
    BY <1>2, <2>1, HighestWaits
<1>4. Max(isr) = Top.vec
  <2> SUFFICES ASSUME Max(isr) # Top.vec PROVE FALSE
    OBVIOUS
  <2>1. Top.vec \in Blocking
    BY DEF Holding
  <2>2. Top.vec = CLOCK_IRQ /\ Max(isr) = DeviceIRQ
    <3>1. Max(isr) = CLOCK_IRQ \/ Max(isr) = DeviceIRQ \/ Max(isr) = TimerIRQ
      BY <1>2, <1>3 DEF Source
    <3>2. Top.vec = CLOCK_IRQ \/ Top.vec = DeviceIRQ
      BY <2>1 DEF Blocking
    <3> DEFINE m == Max(isr)
    <3>3. m >= Top.vec /\ m # Top.vec
      BY <1>3
    <3>4. m = CLOCK_IRQ \/ m = DeviceIRQ \/ m = TimerIRQ
      BY <3>1
    <3> HIDE DEF m
    <3>5. Top.vec = CLOCK_IRQ /\ m = DeviceIRQ
      BY <3>2, <3>3, <3>4, Vectors
    <3> QED
      BY <3>5 DEF m
  <2>3. PICK c \in Context : \E i \in DOMAIN frames[c] :
          frames[c][i].vec = DeviceIRQ /\ Unacknowledged(frames[c][i])
    BY <1>3, <2>2 DEF Service, Awaited
  <2>4. PICK i \in DOMAIN frames[c] :
          frames[c][i].vec = DeviceIRQ /\ Unacknowledged(frames[c][i])
    BY <2>3
  <2>5. Holding(frames[c][i])
    BY <2>4 DEF Holding, Blocking
  <2>6. /\ c = cur
        /\ \A j \in DOMAIN frames[c] : j > i => OnTopOf(frames[c][j], frames[c][i])
    BY <2>5 DEF Service, Held
  <2>7. CLOCK_IRQ # DeviceIRQ
    BY Vectors
  <2>8. i # depth /\ i <= depth /\ i \in Int /\ depth \in Int
    BY <1>1, <2>2, <2>4, <2>6, <2>7
  <2>9. depth > i
    BY <2>8
  <2>10. OnTopOf(Top, frames[c][i])
    BY <1>1, <2>6, <2>9
  <2> QED
    BY <2>2, <2>7, <2>10 DEF OnTopOf
<1>5. isr # {}
  BY <1>2
<1> QED
  BY <1>2, <1>4, <1>5 DEF EOI

\* A step of the innermost handler that needs no more than its own acknowledgement:
\* it ends what its frame holds, or nothing that anyone awaits.
LEMMA StepOnTop ==
  ASSUME Service, Invariant', frames[cur] # <<>>,
         NEW place \in Places, frames' = GoesTo(place), cur' = cur,
         InPlace([Top EXCEPT !.at = place]),
         \/ /\ isr' = isr
            /\ \/ Unacknowledged(Top) <=> Unacknowledged([Top EXCEPT !.at = place])
               \/ Top.vec \notin Source
            /\ Top.at # "iret"
         \/ /\ isr' = EOI(isr) /\ Holding(Top)
            /\ place = "iret" \/ Top.vec = CLOCK_IRQ
            /\ ~Unacknowledged([Top EXCEPT !.at = place])
         \/ /\ isr' = {} /\ ~Holding(Top)
            /\ ~(Top.vec = DeviceIRQ /\ Top.at = "iret")
            /\ ~Unacknowledged([Top EXCEPT !.at = place])
  PROVE  Service'
<1> DEFINE depth == Len(frames[cur])
           f == [Top EXCEPT !.at = place]
<1>1. /\ depth \in DOMAIN frames[cur] /\ Top = frames[cur][depth] /\ Top \in Frame
      /\ \A i \in DOMAIN frames[cur] : i \in Int /\ i <= depth
      /\ cur \in Context
  BY TopIsLast DEF Service, Invariant
<1>2. /\ \A c \in Context : DOMAIN frames'[c] = DOMAIN frames[c]
      /\ \A c \in Context : \A i \in DOMAIN frames[c] :
           \/ c = cur /\ i = depth
           \/ frames'[c][i] = frames[c][i]
      /\ frames'[cur][depth] = f
  BY OnlyTopGoesOn DEF Service, Invariant
<1>3. f.vec = Top.vec /\ f.at = place
  BY <1>1 DEF Frame
<1> HIDE DEF depth, f
<1>4. Placed(frames')
  BY <1>1, <1>2 DEF Placed, Service, f
<1>5. Held(isr, cur, frames) /\ Awaited(isr, frames) /\ isr \subseteq Source
  BY DEF Service
<1>6. CLOCK_IRQ # DeviceIRQ /\ TimerIRQ \notin Blocking
  BY Vectors DEF Blocking
<1>7. CASE /\ isr' = isr
           /\ (Unacknowledged(Top) <=> Unacknowledged(f)) \/ Top.vec \notin Source
           /\ Top.at # "iret"
  <2>1. Held(isr', cur', frames')
    <3> SUFFICES ASSUME NEW c \in Context, NEW i \in DOMAIN frames'[c],
                        Holding(frames'[c][i])
                 PROVE  /\ c = cur /\ frames'[c][i].vec \in isr
                        /\ \A j \in DOMAIN frames'[c] :
                             j > i => OnTopOf(frames'[c][j], frames'[c][i])
      BY <1>7 DEF Held
    <3>1. /\ i \in DOMAIN frames[c] /\ frames'[c][i].vec = frames[c][i].vec
          /\ Holding(frames[c][i])
      BY <1>1, <1>2, <1>3, <1>7 DEF Holding, Blocking, Source
    <3>2. /\ c = cur /\ frames[c][i].vec \in isr
          /\ \A j \in DOMAIN frames[c] : j > i => OnTopOf(frames[c][j], frames[c][i])
      BY <1>5, <3>1 DEF Held
    <3>3. ASSUME NEW j \in DOMAIN frames'[c], j > i
          PROVE  OnTopOf(frames'[c][j], frames'[c][i])
      <4>1. OnTopOf(frames[c][j], frames[c][i])
        BY <1>2, <3>2, <3>3
      <4>2. CASE j = depth
        <5>1. OnTopOf(Top, frames[c][i])
          BY <1>1, <3>2, <4>1, <4>2
        <5>2. OnTopOf(f, frames'[c][i])
          BY <1>3, <1>7, <3>1, <5>1 DEF OnTopOf, Source
        <5> QED
          BY <1>2, <3>2, <4>2, <5>2
      <4>3. CASE j # depth
        BY <1>2, <3>1, <3>2, <3>3, <4>1, <4>3 DEF OnTopOf
      <4> QED
        BY <4>2, <4>3
    <3> QED
      BY <3>1, <3>2, <3>3
  <2>2. Awaited(isr', frames')
    <3> SUFFICES ASSUME NEW v \in isr
                 PROVE  \E c \in Context : \E i \in DOMAIN frames'[c] :
                          frames'[c][i].vec = v /\ Unacknowledged(frames'[c][i])
      BY <1>7 DEF Awaited
    <3>1. PICK c \in Context : \E i \in DOMAIN frames[c] :
            frames[c][i].vec = v /\ Unacknowledged(frames[c][i])
      BY <1>5 DEF Awaited
    <3>2. PICK i \in DOMAIN frames[c] :
            frames[c][i].vec = v /\ Unacknowledged(frames[c][i])
      BY <3>1
    <3>3. i \in DOMAIN frames'[c]
      BY <1>2
    <3>4. frames'[c][i].vec = v /\ Unacknowledged(frames'[c][i])
      BY <1>1, <1>2, <1>3, <1>5, <1>7, <3>2
    <3> QED
      BY <3>3, <3>4
  <2> QED
    BY <1>4, <1>5, <1>7, <2>1, <2>2 DEF Service
<1>8. CASE /\ isr' = EOI(isr) /\ Holding(Top)
           /\ place = "iret" \/ Top.vec = CLOCK_IRQ
           /\ ~Unacknowledged(f)
  <2>1. isr' = isr \ {Top.vec} /\ Top.vec \in isr
    BY <1>8, TopIsHighest
  <2>2. Held(isr', cur', frames')
    <3> SUFFICES ASSUME NEW c \in Context, NEW i \in DOMAIN frames'[c],
                        Holding(frames'[c][i])
                 PROVE  /\ c = cur /\ frames'[c][i].vec \in isr'
                        /\ \A j \in DOMAIN frames'[c] :
                             j > i => OnTopOf(frames'[c][j], frames'[c][i])
      BY DEF Held
    <3>1. ~(c = cur /\ i = depth) /\ frames'[c][i] = frames[c][i] /\ i \in DOMAIN frames[c]
      BY <1>2, <1>8 DEF Holding
    <3>2. /\ c = cur /\ frames[c][i].vec \in isr
          /\ \A j \in DOMAIN frames[c] : j > i => OnTopOf(frames[c][j], frames[c][i])
      BY <1>5, <3>1 DEF Held
    <3>3. depth > i
      <4>1. i # depth /\ i \in Int /\ depth \in Int /\ i <= depth
        BY <1>1, <3>1, <3>2
      <4> QED
        BY <4>1
    <3>4. OnTopOf(Top, frames[c][i])
      BY <1>1, <3>2, <3>3
    <3>5. /\ Top.vec = DeviceIRQ /\ place = "iret"
          /\ Class(DeviceIRQ) > Class(frames[c][i].vec)
      BY <1>6, <1>8, <3>4 DEF OnTopOf
    <3>6. frames[c][i].vec # Top.vec
      <4>1. Class(DeviceIRQ) \in Int
        BY Vectors
      <4>2. Class(frames[c][i].vec) # Class(DeviceIRQ)
        BY <3>5, <4>1
      <4> QED
        BY <3>5, <4>2
    <3>7. OnTopOf(f, frames[c][i])
      BY <1>3, <3>5 DEF OnTopOf
    <3>8. ASSUME NEW j \in DOMAIN frames'[c], j > i
          PROVE  OnTopOf(frames'[c][j], frames'[c][i])
      <4>1. CASE j = depth
        BY <1>2, <3>1, <3>2, <3>7, <4>1
      <4>2. CASE j # depth
        BY <1>2, <3>1, <3>2, <3>8, <4>2
      <4> QED
        BY <4>1, <4>2
    <3> QED
      BY <2>1, <3>1, <3>2, <3>6, <3>8
  <2>3. Awaited(isr', frames')
    <3> SUFFICES ASSUME NEW v \in isr, v # Top.vec
                 PROVE  \E c \in Context : \E i \in DOMAIN frames'[c] :
                          frames'[c][i].vec = v /\ Unacknowledged(frames'[c][i])
      BY <2>1 DEF Awaited
    <3>1. PICK c \in Context : \E i \in DOMAIN frames[c] :
            frames[c][i].vec = v /\ Unacknowledged(frames[c][i])
      BY <1>5 DEF Awaited
    <3>2. PICK i \in DOMAIN frames[c] :
            frames[c][i].vec = v /\ Unacknowledged(frames[c][i])
      BY <3>1
    <3>3. frames'[c][i] = frames[c][i] /\ i \in DOMAIN frames'[c]
      BY <1>1, <1>2, <3>2
    <3> QED
      BY <3>2, <3>3
  <2> QED
    BY <1>4, <1>5, <2>1, <2>2, <2>3 DEF Service
<1>9. CASE /\ isr' = {} /\ ~Holding(Top)
           /\ ~(Top.vec = DeviceIRQ /\ Top.at = "iret")
           /\ ~Unacknowledged(f)
  <2>1. \A c \in Context : \A i \in DOMAIN frames[c] : ~Holding(frames[c][i])
    BY <1>9, NothingHeld
  <2>2. \A c \in Context : \A i \in DOMAIN frames'[c] : ~Holding(frames'[c][i])
    BY <1>2, <1>9, <2>1 DEF Holding
  <2>3. Held(isr', cur', frames') /\ Awaited(isr', frames')
    BY <1>9, <2>2 DEF Held, Awaited
  <2> QED
    BY <1>4, <1>9, <2>3 DEF Service
<1> QED
  BY <1>7, <1>8, <1>9 DEF f

\* An acknowledgement for no one ends at most the timer's interrupt.
LEMMA EndsTimer == ASSUME isr \subseteq {TimerIRQ} PROVE EOI(isr) = {}
<1>1. CASE isr = {}
  BY <1>1 DEF EOI
<1>2. CASE isr # {}
  <2>1. isr \in SUBSET Source
    BY DEF Source
  <2>2. Max(isr) = TimerIRQ /\ isr = {TimerIRQ}
    BY <1>2, <2>1, HighestWaits
  <2> QED
    BY <1>2, <2>2 DEF EOI
<1> QED
  BY <1>1, <1>2

\* A handler that returns has acknowledged before.
LEMMA IretServes == ASSUME Service, Invariant', Iret PROVE Service'
<1> DEFINE s == frames[cur]
           depth == Len(s)
           t == SubSeq(s, 1, depth - 1)
<1>1. /\ s \in Seq(Frame) /\ cur \in Context /\ s # <<>>
      /\ frames \in [Context -> Seq(Frame)]
  BY DEF Service, Invariant, Types, Iret, At
<1>2. depth \in Nat \ {0} /\ DOMAIN s = 1 .. depth /\ Top = s[depth] /\ Top.at = "iret"
  BY <1>1, LenProperties, EmptySeq DEF Top, Iret, At
<1>3. DOMAIN t = 1 .. depth - 1 /\ \A i \in 1 .. depth - 1 : t[i] = s[i]
  BY <1>1, <1>2
<1>4. frames' = [frames EXCEPT ![cur] = t] /\ isr' = isr /\ cur' = cur
  BY DEF Iret
<1> HIDE DEF t, depth
<1>5. frames'[cur] = t /\ \A c \in Context \ {cur} : frames'[c] = frames[c]
  BY <1>1, <1>4
<1>6. ASSUME NEW c \in Context, NEW i \in DOMAIN frames'[c]
      PROVE  i \in DOMAIN frames[c] /\ frames'[c][i] = frames[c][i]
  BY <1>2, <1>3, <1>5, <1>6
<1>7. ASSUME NEW c \in Context, NEW i \in DOMAIN frames[c], Unacknowledged(frames[c][i])
      PROVE  i \in DOMAIN frames'[c]
  <2>1. ~(c = cur /\ i = depth)
    BY <1>2, <1>7 DEF Unacknowledged
  <2> QED
    BY <1>2, <1>3, <1>5, <2>1
<1>8. Held(isr', cur', frames')
  <2> SUFFICES ASSUME NEW c \in Context, NEW i \in DOMAIN frames'[c],
                      Holding(frames'[c][i])
               PROVE  /\ c = cur /\ frames'[c][i].vec \in isr
                      /\ \A j \in DOMAIN frames'[c] :
                           j > i => OnTopOf(frames'[c][j], frames'[c][i])
    BY <1>4 DEF Held
  <2>1. i \in DOMAIN frames[c] /\ frames'[c][i] = frames[c][i]
    BY <1>6
  <2>2. /\ c = cur /\ frames[c][i].vec \in isr
        /\ \A j \in DOMAIN frames[c] : j > i => OnTopOf(frames[c][j], frames[c][i])
    BY <2>1 DEF Service, Held
  <2> QED
    BY <1>6, <2>1, <2>2
<1>9. Awaited(isr', frames')
  <2> SUFFICES ASSUME NEW v \in isr
               PROVE  \E c \in Context : \E i \in DOMAIN frames'[c] :
                        frames'[c][i].vec = v /\ Unacknowledged(frames'[c][i])
    BY <1>4 DEF Awaited
  <2>1. PICK c \in Context : \E i \in DOMAIN frames[c] :
          frames[c][i].vec = v /\ Unacknowledged(frames[c][i])
    BY DEF Service, Awaited
  <2>2. PICK i \in DOMAIN frames[c] :
          frames[c][i].vec = v /\ Unacknowledged(frames[c][i])
    BY <2>1
  <2>3. i \in DOMAIN frames'[c]
    BY <1>7, <2>2
  <2> QED
    BY <1>6, <2>2, <2>3
<1>10. Placed(frames')
  BY <1>6 DEF Service, Placed
<1> QED
  BY <1>4, <1>8, <1>9, <1>10 DEF Service

\* The handler's steps keep what is in service with those it is for.
LEMMA HandlerServes == ASSUME Service, Handler PROVE Service'
<1>1. Invariant'
  BY HandlerKeeps DEF Service
<1> SUFFICES ASSUME frames[cur] # <<>> PROVE Service'
  BY DEF Handler, Dispatch, ClockCount, ClockAck, Run, UniHandlerEOI, Iret, At
<1>2. Top \in Frame /\ cur \in Context /\ InPlace(Top)
  BY TopIsLast DEF Service, Invariant, Placed
<1>3. ASSUME NEW place
      PROVE  [Top EXCEPT !.at = place].vec = Top.vec
             /\ [Top EXCEPT !.at = place].at = place
  BY <1>2 DEF Frame
<1>4. /\ SYSCALL_IRQ_NUM \notin Source /\ CLOCK_IRQ # SYSCALL_IRQ_NUM
      /\ CLOCK_IRQ # DeviceIRQ /\ TimerIRQ # CLOCK_IRQ /\ TimerIRQ # SYSCALL_IRQ_NUM
      /\ DeviceIRQ # SYSCALL_IRQ_NUM
  BY Vectors DEF Source
<1>5. CASE Dispatch
  <2>1. PICK place : /\ frames' = GoesTo(place)
                     /\ \/ place = "eoi"
                        \/ place = "count" /\ Top.vec = CLOCK_IRQ
                        \/ place = "run" /\ Top.vec = SYSCALL_IRQ_NUM
    BY <1>5 DEF Dispatch
  <2>2. place \in Places /\ InPlace([Top EXCEPT !.at = place])
    BY <1>3, <2>1 DEF Places, InPlace
  <2>3. isr' = isr /\ cur' = cur /\ Top.at = "dispatch"
    BY <1>5 DEF Dispatch, At
  <2>4. \/ Unacknowledged(Top) <=> Unacknowledged([Top EXCEPT !.at = place])
        \/ Top.vec \notin Source
    BY <1>3, <1>4, <2>1, <2>3 DEF Unacknowledged
  <2> QED
    BY <1>1, <2>1, <2>2, <2>3, <2>4, StepOnTop
<1>6. CASE ClockCount
  <2>1. /\ frames' = GoesTo("ack") /\ isr' = isr /\ cur' = cur /\ Top.at = "count"
        /\ "ack" \in Places
    BY <1>6 DEF ClockCount, At, Places
  <2>2. InPlace([Top EXCEPT !.at = "ack"])
    BY <1>2, <1>3, <2>1 DEF InPlace
  <2>3. Unacknowledged(Top) <=> Unacknowledged([Top EXCEPT !.at = "ack"])
    BY <1>3, <2>1 DEF Unacknowledged
  <2> QED
    BY <1>1, <2>1, <2>2, <2>3, StepOnTop
<1>7. CASE ClockAck
  <2>1. /\ frames' = GoesTo("run") /\ isr' = EOI(isr) /\ cur' = cur /\ Top.at = "ack"
        /\ "run" \in Places
    BY <1>7 DEF ClockAck, At, Places
  <2>2. Top.vec = CLOCK_IRQ /\ Holding(Top)
    BY <1>2, <2>1 DEF InPlace, Holding, Blocking, Unacknowledged
  <2>3. InPlace([Top EXCEPT !.at = "run"])
    BY <1>3, <2>2 DEF InPlace
  <2>4. ~Unacknowledged([Top EXCEPT !.at = "run"])
    BY <1>3 DEF Unacknowledged
  <2> QED
    BY <1>1, <2>1, <2>2, <2>3, <2>4, StepOnTop
<1>8. CASE Run
  <2>1. PICK place : /\ frames' = GoesTo(place)
                     /\ \/ place = "again" /\ Top.vec = CLOCK_IRQ
                        \/ place = "eoi" /\ Top.vec # CLOCK_IRQ
    BY <1>8 DEF Run
  <2>2. isr' = isr /\ Top.at = "run" /\ Top.vec \in {CLOCK_IRQ, SYSCALL_IRQ_NUM}
    BY <1>2, <1>8 DEF Run, At, InPlace
  <2>3. /\ \A c \in Context : \A i \in DOMAIN frames[c] : ~Holding(frames[c][i])
        /\ isr \subseteq {TimerIRQ}
    BY <2>2, NothingHeld DEF Holding, Unacknowledged
  <2> DEFINE depth == Len(frames[cur])
             f == [Top EXCEPT !.at = place]
  <2>4. /\ \A c \in Context : DOMAIN frames'[c] = DOMAIN frames[c]
        /\ \A c \in Context : \A i \in DOMAIN frames[c] :
             \/ c = cur /\ i = depth
             \/ frames'[c][i] = frames[c][i]
        /\ frames'[cur][depth] = f
    <3>1. place \in Places
      BY <2>1 DEF Places
    <3> QED
      BY <2>1, <3>1, OnlyTopGoesOn DEF Service, Invariant
  <2>5. ~Holding(f) /\ InPlace(f)
    BY <1>3, <1>4, <2>1, <2>2 DEF Holding, Blocking, InPlace, Unacknowledged
  <2>6. Top = frames[cur][depth]
    BY DEF Top
  <2> HIDE DEF depth, f
  <2>7. Held(isr', cur', frames')
    BY <2>3, <2>4, <2>5 DEF Held
  <2>8. Awaited(isr', frames')
    <3> SUFFICES ASSUME NEW v \in isr
                 PROVE  \E c \in Context : \E i \in DOMAIN frames'[c] :
                          frames'[c][i].vec = v /\ Unacknowledged(frames'[c][i])
      BY <2>2 DEF Awaited
    <3>1. PICK c \in Context : \E i \in DOMAIN frames[c] :
            frames[c][i].vec = v /\ Unacknowledged(frames[c][i])
      BY DEF Service, Awaited
    <3>2. PICK i \in DOMAIN frames[c] :
            frames[c][i].vec = v /\ Unacknowledged(frames[c][i])
      BY <3>1
    <3>3. v = TimerIRQ
      BY <2>3
    <3>4. ~(c = cur /\ i = depth)
      BY <1>4, <2>2, <2>6, <3>2, <3>3
    <3>5. frames'[c][i] = frames[c][i] /\ i \in DOMAIN frames'[c]
      BY <2>4, <3>4
    <3> QED
      BY <3>2, <3>5
  <2>9. Placed(frames')
    BY <2>4, <2>5 DEF Placed, Service
  <2> QED
    BY <1>1, <2>2, <2>7, <2>8, <2>9 DEF Service
<1>9. CASE UniHandlerEOI
  <2>1. /\ frames' = GoesTo("iret") /\ isr' = EOI(isr) /\ cur' = cur
        /\ Top.at \in {"eoi", "again"} /\ "iret" \in Places
    BY <1>9 DEF UniHandlerEOI, At, Places
  <2>2. InPlace([Top EXCEPT !.at = "iret"]) /\ ~Unacknowledged([Top EXCEPT !.at = "iret"])
    BY <1>3 DEF InPlace, Unacknowledged
  <2>3. CASE Holding(Top)
    BY <1>1, <2>1, <2>2, <2>3, StepOnTop
  <2>4. CASE ~Holding(Top)
    <3>1. ~(Top.vec = DeviceIRQ /\ Top.at = "iret")
      BY <2>1
    <3>2. isr' = {}
      BY <2>1, <2>4, <3>1, NothingHeld, EndsTimer
    <3> QED
      BY <1>1, <2>1, <2>2, <2>4, <3>1, <3>2, StepOnTop
  <2> QED
    BY <2>3, <2>4
<1>10. CASE Iret
  BY <1>1, <1>10, IretServes
<1> QED
  BY <1>5, <1>6, <1>7, <1>8, <1>9, <1>10 DEF Handler

\* A frame that is pushed by an interrupt holds it, on top of lower ones; one
\* that is pushed by a trap holds nothing, where nothing is held.
LEMMA PushServes ==
  ASSUME Service, Invariant', NEW v \in Int, Push(v), cur' = cur,
         \/ /\ v \in Source /\ isr' = isr \cup {v}
            /\ \A w \in isr : Class(v) > Class(w)
         \/ /\ v \notin Source /\ isr' = isr
            /\ frames[cur] = <<>>
  PROVE  Service'
<1> DEFINE s == frames[cur]
           depth == Len(s)
           f == [vec |-> v, at |-> "dispatch"]
           t == Append(s, f)
<1>1. /\ s \in Seq(Frame) /\ cur \in Context
      /\ frames \in [Context -> Seq(Frame)]
  BY DEF Service, Invariant, Types
<1>2. f \in Frame /\ f.vec = v /\ f.at = "dispatch"
  BY DEF Frame, Places
<1> HIDE DEF f
<1>3. /\ t \in Seq(Frame) /\ Len(t) = depth + 1 /\ t[depth + 1] = f
      /\ \A i \in 1 .. depth : t[i] = s[i]
  BY <1>1, <1>2, AppendProperties
<1>4. depth \in Nat /\ DOMAIN s = 1 .. depth /\ DOMAIN t = 1 .. depth + 1
  BY <1>1, <1>3, LenProperties
<1>5. frames' = [frames EXCEPT ![cur] = t]
  BY DEF Push, f
<1> HIDE DEF t, depth
<1>6. frames'[cur] = t /\ \A c \in Context \ {cur} : frames'[c] = frames[c]
  BY <1>1, <1>5
<1>7. ASSUME NEW c \in Context, NEW i \in DOMAIN frames'[c]
      PROVE  \/ i \in DOMAIN frames[c] /\ frames'[c][i] = frames[c][i]
             \/ c = cur /\ i = depth + 1 /\ frames'[c][i] = f
  <2>1. CASE c = cur
    BY <1>3, <1>4, <1>6, <1>7, <2>1
  <2>2. CASE c # cur
    BY <1>6, <1>7, <2>2
  <2> QED
    BY <2>1, <2>2
<1>8. ASSUME NEW c \in Context, NEW i \in DOMAIN frames[c]
      PROVE  i \in DOMAIN frames'[c] /\ frames'[c][i] = frames[c][i]
  <2>1. CASE c = cur
    BY <1>3, <1>4, <1>6, <1>8, <2>1
  <2>2. CASE c # cur
    BY <1>6, <1>8, <2>2
  <2> QED
    BY <2>1, <2>2
<1>9. /\ Held(isr, cur, frames) /\ Awaited(isr, frames) /\ isr \subseteq Source
      /\ Placed(frames)
  BY DEF Service
<1>10. isr \subseteq isr' /\ isr' \subseteq Source
  BY <1>9
<1>11. ASSUME NEW c \in Context, NEW i \in DOMAIN frames[c], Holding(frames[c][i])
       PROVE  c = cur /\ OnTopOf(f, frames[c][i])
  <2>1. c = cur /\ frames[c][i].vec \in isr /\ frames[c][i].vec \in Blocking
    BY <1>9, <1>11 DEF Held, Holding
  <2>2. frames[cur] # <<>>
    BY <1>11, <2>1
  <2>3. v \in Source /\ Class(v) > Class(frames[c][i].vec)
    BY <2>1, <2>2
  <2>4. v = DeviceIRQ
    <3>1. v = CLOCK_IRQ \/ v = DeviceIRQ \/ v = TimerIRQ
      BY <2>3 DEF Source
    <3>2. frames[c][i].vec = CLOCK_IRQ \/ frames[c][i].vec = DeviceIRQ
      BY <2>1 DEF Blocking
    <3> DEFINE k == Class(frames[c][i].vec)
    <3>3. k \in 4 .. 5 /\ Class(v) > k
      BY <2>3, <3>2, Vectors
    <3> HIDE DEF k
    <3>4. v # CLOCK_IRQ /\ v # TimerIRQ
      BY <3>3, Vectors
    <3> QED
      BY <3>1, <3>4
  <2> QED
    BY <1>2, <2>1, <2>3, <2>4 DEF OnTopOf, Unacknowledged
<1>12. Held(isr', cur', frames')
  <2> SUFFICES ASSUME NEW c \in Context, NEW i \in DOMAIN frames'[c],
                      Holding(frames'[c][i])
               PROVE  /\ c = cur /\ frames'[c][i].vec \in isr'
                      /\ \A j \in DOMAIN frames'[c] :
                           j > i => OnTopOf(frames'[c][j], frames'[c][i])
    BY DEF Held
  <2>1. CASE i \in DOMAIN frames[c] /\ frames'[c][i] = frames[c][i]
    <3>1. /\ c = cur /\ frames[c][i].vec \in isr
          /\ \A j \in DOMAIN frames[c] : j > i => OnTopOf(frames[c][j], frames[c][i])
      BY <1>9, <2>1 DEF Held
    <3>2. OnTopOf(f, frames[c][i])
      BY <1>11, <2>1
    <3>3. ASSUME NEW j \in DOMAIN frames'[c], j > i
          PROVE  OnTopOf(frames'[c][j], frames'[c][i])
      BY <1>7, <2>1, <3>1, <3>2, <3>3
    <3> QED
      BY <1>10, <2>1, <3>1, <3>3
  <2>2. CASE c = cur /\ i = depth + 1 /\ frames'[c][i] = f
    <3>1. v \in Blocking /\ v \in isr'
      BY <1>2, <2>2 DEF Holding, Blocking, Source
    <3>2. \A j \in DOMAIN frames'[c] : ~(j > i)
      BY <1>4, <1>6, <2>2
    <3> QED
      BY <1>2, <2>2, <3>1, <3>2
  <2> QED
    BY <1>7, <2>1, <2>2
<1>13. Awaited(isr', frames')
  <2> SUFFICES ASSUME NEW w \in isr'
               PROVE  \E c \in Context : \E i \in DOMAIN frames'[c] :
                        frames'[c][i].vec = w /\ Unacknowledged(frames'[c][i])
    BY DEF Awaited
  <2>1. CASE w \in isr
    <3>1. PICK c \in Context : \E i \in DOMAIN frames[c] :
            frames[c][i].vec = w /\ Unacknowledged(frames[c][i])
      BY <1>9, <2>1 DEF Awaited
    <3>2. PICK i \in DOMAIN frames[c] :
            frames[c][i].vec = w /\ Unacknowledged(frames[c][i])
      BY <3>1
    <3> QED
      BY <1>8, <3>2
  <2>2. CASE w \notin isr
    <3>1. w = v
      BY <2>2
    <3>2. depth + 1 \in DOMAIN frames'[cur] /\ frames'[cur][depth + 1] = f
      BY <1>3, <1>4, <1>6
    <3> QED
      BY <1>1, <1>2, <3>1, <3>2 DEF Unacknowledged
  <2> QED
    BY <2>1, <2>2
<1>14. Placed(frames')
  <2>1. InPlace(f)
    BY <1>2 DEF InPlace
  <2> QED
    BY <1>7, <1>9, <2>1 DEF Placed
<1> QED
  BY <1>10, <1>12, <1>13, <1>14 DEF Service

\* Interrupts that arrive, traps and the boot.
LEMMA OthersServe ==
  ASSUME Service, [Next]_vars, ~Handler PROVE Service'
<1>1. Invariant'
  BY BootKeeps, ArrivalKeeps DEF Next, Service
<1>2. CASE Boot \/ RegisterSystemCalls \/ ClockEdge \/ DeviceEdge \/ TimerEnds \/ UNCHANGED vars
  <2>1. UNCHANGED <<isr, cur, frames>>
    BY <1>2 DEF Boot, RegisterSystemCalls, BootStep, InitBSP, KernelSpace, LoadTables, AddCPU, InitPIT,
                ClockEdge, DeviceEdge, TimerEnds, vars
  <2>2. Held(isr', cur', frames') /\ Awaited(isr', frames') /\ Placed(frames')
    BY <2>1 DEF Service
  <2> QED
    BY <1>1, <2>1, <2>2 DEF Service
<1>3. CASE Accept
  <2>1. /\ irr # {} /\ Push(Max(irr)) /\ isr' = isr \cup {Max(irr)} /\ cur' = cur
        /\ \A w \in isr : Class(Max(irr)) > Class(w)
    BY <1>3 DEF Accept
  <2>2. irr \in SUBSET Source
    BY DEF Service, Invariant, Types
  <2>3. Max(irr) \in Source
    BY <2>1, <2>2, HighestWaits
  <2>4. Max(irr) \in Int
    BY <2>3, Vectors DEF Source
  <2> QED
    BY <1>1, <2>1, <2>3, <2>4, PushServes
<1>4. CASE Trap(SYSCALL_IRQ_NUM) \/ Trap(PageFault)
  <2>1. PICK v \in {SYSCALL_IRQ_NUM, PageFault} : Trap(v)
    BY <1>4
  <2>2. v \in Int /\ v \notin Source
    BY <2>1, Vectors DEF Source
  <2>3. Push(v) /\ isr' = isr /\ cur' = cur /\ frames[cur] = <<>>
    BY <2>1 DEF Trap
  <2> QED
    BY <1>1, <2>2, <2>3, PushServes
<1> QED
  BY <1>2, <1>3, <1>4 DEF Next

\* Service in every state.
LEMMA AlwaysService == Spec => []Service
<1>1. Init => Service
  <2> SUFFICES ASSUME Init PROVE Service
    OBVIOUS
  <2>1. isr = {} /\ \A c \in Context : frames[c] = <<>>
    BY DEF Init
  <2>2. Held(isr, cur, frames) /\ Awaited(isr, frames) /\ Placed(frames)
    BY <2>1 DEF Held, Awaited, Placed
  <2> QED
    BY <2>1, <2>2, InitKeeps DEF Service
<1>2. Service /\ [Next]_vars => Service'
  BY HandlerServes, OthersServe
<1> QED
  BY <1>1, <1>2, PTL DEF Spec

\* What is in service has a handler on some stack that has not acknowledged yet;
\* for the clock and the device it is on the stack that runs, and has not lost its
\* interrupt to anyone (Interrupt.cpp 48-52, Clock.cpp 20-26).
THEOREM InServiceIsCurrentCorrect == Spec => []InServiceIsCurrent
<1>1. Service => InServiceIsCurrent
  <2> SUFFICES ASSUME Service PROVE InServiceIsCurrent
    OBVIOUS
  <2>1. \A v \in isr : \E c \in Context : \E i \in DOMAIN frames[c] :
          frames[c][i].vec = v /\ Unacknowledged(frames[c][i])
    BY DEF Service, Awaited
  <2>2. \A c \in Context : \A i \in DOMAIN frames[c] :
          Holding(frames[c][i]) => c = cur /\ frames[c][i].vec \in isr
    BY DEF Service, Held
  <2>3. \A v \in isr : v \in Blocking =>
          \E i \in DOMAIN frames[cur] :
            frames[cur][i].vec = v /\ Unacknowledged(frames[cur][i])
    BY <2>1, <2>2 DEF Holding
  <2>4. \A c \in Context : \A v \in Blocking : \A i \in DOMAIN frames[c] :
          frames[c][i].vec = v /\ Unacknowledged(frames[c][i]) => c = cur /\ v \in isr
    BY <2>2 DEF Holding
  <2> QED
    BY <2>1, <2>3, <2>4 DEF InServiceIsCurrent, Blocking
<1> QED
  BY <1>1, AlwaysService, PTL

\* An interrupt other than the timer's is ended by its own handler, innermost on the
\* stack that runs, and by the first acknowledgement this handler sends.
OwnEnds ==
  \A v \in isr \ isr' : v # TimerIRQ => v = Top.vec /\ Top.at \in {"ack", "eoi"}

LEMMA OwnEndsHolds == ASSUME Service, [Next]_vars PROVE OwnEnds
<1>1. ASSUME isr \subseteq isr' PROVE OwnEnds
  BY <1>1 DEF OwnEnds
<1>2. ASSUME frames[cur] # <<>>, isr' = EOI(isr), Top.at \in {"ack", "eoi", "again"}
      PROVE  OwnEnds
  <2>1. CASE Holding(Top)
    <3>1. isr' = isr \ {Top.vec}
      BY <1>2, <2>1, TopIsHighest
    <3>2. Top.at \in {"ack", "eoi"}
      BY <1>2, <2>1 DEF Holding, Unacknowledged
    <3> QED
      BY <3>1, <3>2 DEF OwnEnds
  <2>2. CASE ~Holding(Top)
    <3>1. isr \subseteq {TimerIRQ}
      BY <1>2, <2>2, NothingHeld
    <3> QED
      BY <3>1 DEF OwnEnds
  <2> QED
    BY <2>1, <2>2
<1>3. CASE ClockAck
  <2>1. frames[cur] # <<>> /\ isr' = EOI(isr) /\ Top.at = "ack"
    BY <1>3 DEF ClockAck, At
  <2> QED
    BY <1>2, <2>1
<1>4. CASE UniHandlerEOI
  <2>1. frames[cur] # <<>> /\ isr' = EOI(isr) /\ Top.at \in {"eoi", "again"}
    BY <1>4 DEF UniHandlerEOI, At
  <2> QED
    BY <1>2, <2>1
<1>5. CASE Dispatch \/ ClockCount \/ Run \/ Iret
  <2>1. isr' = isr
    BY <1>5 DEF Dispatch, ClockCount, Run, Iret
  <2> QED
    BY <1>1, <2>1
<1>6. CASE Boot \/ RegisterSystemCalls \/ ClockEdge \/ DeviceEdge \/ TimerEnds \/ UNCHANGED vars
  <2>1. isr' = isr
    BY <1>6 DEF Boot, RegisterSystemCalls, BootStep, InitBSP, KernelSpace, LoadTables,
                AddCPU, InitPIT, ClockEdge, DeviceEdge, TimerEnds, vars
  <2> QED
    BY <1>1, <2>1
<1>7. CASE Accept \/ Trap(SYSCALL_IRQ_NUM) \/ Trap(PageFault)
  <2>1. isr \subseteq isr'
    BY <1>7 DEF Accept, Trap
  <2> QED
    BY <1>1, <2>1
<1> QED
  BY <1>3, <1>4, <1>5, <1>6, <1>7 DEF Next, Handler

\* An acknowledgement ends nothing of the clock or the device but the interrupt of
\* the handler that sends it, which has sent none before; what the second one of a
\* tick, and that of a trap or of a resumed context, can end is the timer's
\* interrupt at most (Interrupt.cpp 52, Clock.cpp 25).
THEOREM AcknowledgesItsOwnCorrect == Spec => AcknowledgesItsOwn
<1>1. Service /\ [Next]_vars =>
        [\A v \in isr \ isr' : v # TimerIRQ => v = Top.vec /\ Top.at \in {"ack", "eoi"}]_vars
  BY OwnEndsHolds DEF OwnEnds
<1> QED
  BY <1>1, AlwaysService, PTL DEF Spec, AcknowledgesItsOwn

-----------------------------------------------------------------------------
(* The start of the other processors (Processors).                         *)

\* The processor that place i of the table names.
Entry(f, i) ==
  f[FindEntry(f, Areas, "APIC")].structs[
      FindIntrCtrlStructInMADT(f[FindEntry(f, Areas, "APIC")], 0, i)].id

Area == [stack : Nat, flag : {0, 1}]

StartTypes ==
  /\ pc \in {"search", "write", "flag", "copy", "initWait", "sipiWait", "lastWait",
             "returned"}
  /\ n \in Nat /\ counter \in Nat /\ since \in Nat
  /\ original \in Area /\ copy \in Area
  /\ present \subseteq Processor
  /\ ap \in [Processor -> {"off", "init", "started", "hasStack", "runs"}]
  /\ stack \in [Processor -> Nat]
  /\ initAt \in [Processor -> Nat]

Starting(p) == ap[p] \in {"init", "started", "hasStack"}

\* At most one processor is starting, and it keeps the flag up.
OneStarts ==
  /\ \A p, q \in Processor : Starting(p) /\ Starting(q) => p = q
  /\ \A p \in Processor : Starting(p) => original.flag = 1 /\ pc # "copy"
  /\ pc = "copy" => original.flag = 1

\* The stack in the image is for the next processor, the one in the copy for the
\* one that starts.
StackIsReady ==
  /\ pc \notin {"search", "returned"} => n # 0
  /\ pc \in {"flag", "copy"} => original.stack = n
  /\ \A p \in Processor : ap[p] \in {"init", "started"} =>
       copy.stack # 0 /\ Entry(firmware, copy.stack) = p

\* Who has got INIT only is waited for.
InitIsWaitedFor ==
  \A p \in Processor : ap[p] = "init" =>
    pc = "initWait" /\ p = Target /\ initAt[p] = since

StacksAreOwn ==
  \A p \in Processor : stack[p] # 0 => Entry(firmware, stack[p]) = p

StartInvariant == StartTypes /\ OneStarts /\ StackIsReady /\ InitIsWaitedFor /\ StacksAreOwn

\* The processor that is started is the one the n-th entry names.
LEMMA TargetIsEntry == Target = Entry(firmware, n)
BY DEF Target, Madt, StructOf, Entry

\* It changes with the place in the table only.
LEMMA SameTarget == ASSUME firmware' = firmware, n' = n PROVE Target' = Target
BY DEF Target, Madt, StructOf

-----------------------------------------------------------------------------

\* No processor starts yet.
LEMMA StartInitKeeps == ASSUME StartInit PROVE StartInvariant
<1>1. StartTypes
  BY WaitAssumption DEF StartInit, StartTypes, Area
<1>2. \A p \in Processor : ap[p] = "off" /\ stack[p] = 0
  BY DEF StartInit
<1>3. pc = "search"
  BY DEF StartInit
<1> QED
  BY <1>1, <1>2, <1>3
  DEF StartInvariant, OneStarts, Starting, StackIsReady, InitIsWaitedFor, StacksAreOwn

\* Searching, filling the image and waiting move no processor.
LEMMA PreparingKeeps ==
  ASSUME StartInvariant, Tick \/ Search \/ WriteStack \/ RaiseFlag \/ LastWait
  PROVE  StartInvariant'
<1> USE DEF StartInvariant
<1>1. UNCHANGED <<firmware, copy, ap, stack, initAt>>
  BY DEF Tick, Search, WriteStack, RaiseFlag, LastWait, apVars, bspVars
<1>2. StartTypes'
  BY <1>1, WaitAssumption
  DEF StartTypes, Area, Tick, Search, WriteStack, RaiseFlag, LastWait, apVars, bspVars
<1>3. /\ original.flag' = original.flag \/ (original.flag = 0 /\ original'.flag = 1)
      /\ pc' = "copy" => original.flag = 0 /\ original'.flag = 1
  BY DEF StartTypes, Area, Tick, Search, WriteStack, RaiseFlag, LastWait, apVars, bspVars
<1>4. OneStarts'
  BY <1>1, <1>3 DEF OneStarts, Starting
<1>5. pc' \notin {"search", "returned"} => n' # 0
  BY DEF StartTypes, StackIsReady, Tick, Search, WriteStack, RaiseFlag, LastWait, bspVars
<1>6. pc' \in {"flag", "copy"} => original'.stack = n'
  BY DEF StartTypes, Area, StackIsReady, Tick, Search, WriteStack, RaiseFlag, LastWait,
         bspVars
<1>7. \A p \in Processor : ap[p] = "init" =>
        pc' = "initWait" /\ n' = n /\ since' = since
  BY DEF InitIsWaitedFor, Tick, Search, WriteStack, RaiseFlag, LastWait, bspVars
<1>8. InitIsWaitedFor'
  BY <1>1, <1>7, SameTarget DEF InitIsWaitedFor
<1>9. StackIsReady' /\ StacksAreOwn'
  BY <1>1, <1>5, <1>6 DEF StackIsReady, StacksAreOwn
<1> QED
  BY <1>2, <1>4, <1>8, <1>9

\* The copy is made when nobody is starting, for the one that then starts.
LEMMA CopyKeeps == ASSUME StartInvariant, CopyAndInit PROVE StartInvariant'
<1> USE DEF StartInvariant
<1>1. /\ pc = "copy" /\ pc' = "initWait" /\ copy' = original /\ since' = counter
      /\ UNCHANGED <<firmware, present, n, original, counter, stack>>
      /\ initAt' = [initAt EXCEPT ![Target] = counter]
      /\ ap' = IF Target \in present /\ ap[Target] = "off"
               THEN [ap EXCEPT ![Target] = "init"] ELSE ap
  BY DEF CopyAndInit
<1>2. StartTypes'
  BY <1>1 DEF StartTypes
<1>3. \A p \in Processor : ~Starting(p)
  BY <1>1 DEF OneStarts
<1>4. \A p \in Processor : ap'[p] \in {"init", "started", "hasStack"} =>
        p = Target /\ ap'[p] = "init" /\ initAt'[p] = counter
  BY <1>1, <1>3 DEF StartTypes, Starting
<1>5. OneStarts'
  BY <1>1, <1>4 DEF OneStarts, Starting
<1>6. copy'.stack = n /\ n # 0 /\ Target' = Target
  BY <1>1, SameTarget DEF StackIsReady
<1>7. StackIsReady'
  BY <1>1, <1>4, <1>6, TargetIsEntry DEF StackIsReady
<1>8. InitIsWaitedFor'
  BY <1>1, <1>4, <1>6 DEF InitIsWaitedFor
<1>9. StacksAreOwn'
  BY <1>1 DEF StacksAreOwn
<1> QED
  BY <1>2, <1>5, <1>7, <1>8, <1>9

\* The first SIPI starts the processor, the second changes nothing.
LEMMA SipiKeeps ==
  ASSUME StartInvariant,
         Sipi("initWait", "sipiWait") \/ Sipi("sipiWait", "lastWait")
  PROVE  StartInvariant'
<1> USE DEF StartInvariant
<1>1. /\ pc \in {"initWait", "sipiWait"} /\ pc' \in {"sipiWait", "lastWait"}
      /\ since' = counter
      /\ UNCHANGED <<firmware, present, n, original, copy, counter, stack, initAt>>
      /\ ap' = IF ap[Target] = "init" THEN [ap EXCEPT ![Target] = "started"] ELSE ap
  BY DEF Sipi
<1>2. StartTypes'
  BY <1>1 DEF StartTypes
<1>3. \A p \in Processor :
        \/ ap'[p] = ap[p] /\ ap[p] # "init"
        \/ ap[p] = "init" /\ ap'[p] = "started"
  BY <1>1 DEF StartTypes, InitIsWaitedFor
<1>4. OneStarts'
  BY <1>1, <1>3 DEF OneStarts, Starting
<1>5. StackIsReady' /\ InitIsWaitedFor' /\ StacksAreOwn'
  BY <1>1, <1>3 DEF StackIsReady, InitIsWaitedFor, StacksAreOwn
<1> QED
  BY <1>2, <1>4, <1>5

\* The processor that starts takes the stack in the copy, and lowers the flag
\* when it has.
LEMMA StartKeeps ==
  ASSUME StartInvariant, NEW p \in Processor, TakeStack(p) \/ LowerFlag(p)
  PROVE  StartInvariant'
<1> USE DEF StartInvariant
<1>1. UNCHANGED <<firmware, present, pc, n, copy, since, counter, initAt>>
  BY DEF TakeStack, LowerFlag, bspVars
<1>2. Target' = Target
  BY <1>1, SameTarget
<1>3. CASE TakeStack(p)
  <2>1. /\ ap[p] = "started" /\ ap' = [ap EXCEPT ![p] = "hasStack"]
        /\ stack' = [stack EXCEPT ![p] = copy.stack] /\ original' = original
    BY <1>3 DEF TakeStack
  <2>2. /\ ap'[p] = "hasStack" /\ stack'[p] = copy.stack
        /\ \A q \in Processor \ {p} : ap'[q] = ap[q] /\ stack'[q] = stack[q]
    BY <2>1 DEF StartTypes
  <2>3. StartTypes'
    BY <1>1, <2>1 DEF StartTypes, Area
  <2>4. OneStarts' /\ StackIsReady'
    BY <1>1, <2>1, <2>2 DEF OneStarts, Starting, StackIsReady
  <2>5. InitIsWaitedFor'
    BY <1>1, <1>2, <2>2 DEF InitIsWaitedFor
  <2>6. StacksAreOwn'
    BY <1>1, <2>1, <2>2 DEF StacksAreOwn, StackIsReady
  <2> QED
    BY <2>3, <2>4, <2>5, <2>6
<1>4. CASE LowerFlag(p)
  <2>1. /\ ap[p] = "hasStack" /\ ap' = [ap EXCEPT ![p] = "runs"] /\ stack' = stack
        /\ original' = [original EXCEPT !.flag = 0]
    BY <1>4 DEF LowerFlag
  <2>2. /\ ap'[p] = "runs" /\ \A q \in Processor \ {p} : ap'[q] = ap[q]
        /\ original'.stack = original.stack /\ original' \in Area
    BY <2>1 DEF StartTypes, Area
  <2>3. StartTypes'
    BY <1>1, <2>1, <2>2 DEF StartTypes
  <2>4. \A q \in Processor : ~Starting(q)'
    BY <2>1, <2>2 DEF OneStarts, Starting
  <2>5. OneStarts'
    BY <1>1, <2>1, <2>4 DEF OneStarts, Starting
  <2>6. StackIsReady' /\ StacksAreOwn'
    BY <1>1, <2>1, <2>2 DEF StackIsReady, StacksAreOwn
  <2>7. InitIsWaitedFor'
    BY <2>4 DEF InitIsWaitedFor, Starting
  <2> QED
    BY <2>3, <2>5, <2>6, <2>7
<1> QED
  BY <1>3, <1>4

\* Every step keeps the invariant.
LEMMA NextKeeps == StartInvariant /\ [StartNext]_startVars => StartInvariant'
<1> SUFFICES ASSUME StartInvariant, [StartNext]_startVars PROVE StartInvariant'
  OBVIOUS
<1>1. CASE UNCHANGED startVars
  <2>1. UNCHANGED <<firmware, present, pc, n, original, copy, counter, since, ap,
                    stack, initAt>>
    BY <1>1 DEF startVars, bspVars, apVars
  <2>2. Target' = Target
    BY <2>1, SameTarget
  <2> QED
    BY <2>1, <2>2 DEF StartInvariant, StartTypes, OneStarts, Starting, StackIsReady,
                      InitIsWaitedFor, StacksAreOwn
<1>2. CASE Tick \/ InitAPs
  BY <1>2, PreparingKeeps, CopyKeeps, SipiKeeps DEF InitAPs
<1>3. CASE \E p \in Processor : TakeStack(p) \/ LowerFlag(p)
  BY <1>3, StartKeeps
<1> QED
  BY <1>1, <1>2, <1>3 DEF StartNext

\* In every reachable state.
LEMMA AlwaysInvariant == StartSpec => []StartInvariant
BY StartInitKeeps, NextKeeps, PTL DEF StartSpec

-----------------------------------------------------------------------------

\* Every processor runs on the stack that was made for it, and no two on one
\* (LocalAPCI.cpp 164-171).
THEOREM OwnStackCorrect == StartSpec => []OwnStack
<1>1. StartInvariant => OwnStack
  <2> SUFFICES ASSUME StartInvariant PROVE OwnStack
    OBVIOUS
  <2>1. \A p \in Processor : stack[p] # 0 =>
          firmware[Madt].structs[StructOf(stack[p])].id = p
    BY DEF StartInvariant, StacksAreOwn, Entry, Madt, StructOf
  <2> QED
    BY <2>1 DEF OwnStack
<1> QED
  BY <1>1, AlwaysInvariant, PTL

\* A number below the modulus is its own remainder.
LEMMA Small == ASSUME NEW x \in Nat, NEW w \in Nat \ {0}, x < w PROVE x % w = x
OBVIOUS

\* A processor gets its first SIPI no earlier than the wait after its INIT asks
\* for, while the clock's counter fits in a word (Clock.cpp 115-121).
THEOREM SipiComesLaterCorrect == StartSpec => SipiComesLater
<1> DEFINE Later == \A p \in Processor :
             ap[p] = "init" /\ ap'[p] = "started" /\ initAt[p] + InitWait < Word =>
               counter >= initAt[p] + InitWait
<1>1. StartInvariant /\ [StartNext]_startVars => [Later]_startVars
  <2> SUFFICES ASSUME StartInvariant, StartNext, NEW p \in Processor,
                      ap[p] = "init", ap'[p] = "started",
                      initAt[p] + InitWait < Word
               PROVE  counter >= initAt[p] + InitWait
    OBVIOUS
  <2>1. /\ pc = "initWait" /\ p = Target /\ initAt[p] = since
        /\ since \in Nat /\ counter \in Nat /\ DOMAIN ap = Processor
    BY DEF StartInvariant, InitIsWaitedFor, StartTypes
  <2>2. Word \in Nat \ {0} /\ InitWait \in Nat
    BY WaitAssumption
  <2>3. Sipi("initWait", "sipiWait")
    <3>1. ap' # ap
      OBVIOUS
    <3>2. ~(Tick \/ Search \/ WriteStack \/ RaiseFlag \/ LastWait)
      BY <3>1 DEF Tick, Search, WriteStack, RaiseFlag, LastWait, apVars
    <3>3. ~CopyAndInit /\ ~Sipi("sipiWait", "lastWait")
      BY <2>1 DEF CopyAndInit, Sipi
    <3>4. \A q \in Processor : ~TakeStack(q) /\ ~LowerFlag(q)
      BY <2>1 DEF TakeStack, LowerFlag, StartInvariant, StartTypes
    <3> QED
      BY <3>2, <3>3, <3>4 DEF StartNext, InitAPs
  <2>4. ((since % Word) + InitWait) % Word <= counter
    BY <2>1, <2>3 DEF Sipi, WaitIsOver, Waiting
  <2>5. since % Word = since
    <3>1. since < Word
      BY <2>1, <2>2
    <3> QED
      BY <2>1, <2>2, <3>1, Small
  <2>6. (since + InitWait) % Word = since + InitWait
    BY <2>1, <2>2, Small
  <2> QED
    BY <2>1, <2>4, <2>5, <2>6
<1>2. StartSpec => [][Later]_startVars
  BY <1>1, AlwaysInvariant, PTL DEF StartSpec
<1> QED
  BY <1>2 DEF SipiComesLater
-----------------------------------------------------------------------------
(* The structures of the table.                                            *)

\* A set of numbers that is not empty has a least element.
LEMMA HasLeast ==
  ASSUME NEW S, S \subseteq Nat, S # {}
  PROVE  \E x \in S : \A y \in S : x <= y
<1>1. PICK x \in S : \A y \in S : ~ (<<y, x>> \in OpToRel(<, Nat))
  BY WFMin, NatLessThanWellFounded
<1>2. ASSUME NEW y \in S PROVE x <= y
  <2>1. ~(y < x) BY <1>1 DEF OpToRel
  <2> QED BY <2>1
<1> QED BY <1>2

\* Min chooses it.
LEMMA MinIsLeast ==
  ASSUME NEW S, S \subseteq Nat, S # {}
  PROVE  Min(S) \in S /\ \A y \in S : Min(S) <= y
<1>1. \E x \in S : \A y \in S : x <= y BY HasLeast
<1>2. \E x : x \in S /\ \A y \in S : x <= y BY <1>1
<1>3. Min(S) \in S /\ \A y \in S : Min(S) <= y BY <1>1 DEF Min
<1> QED BY <1>3

\* What holds of a number and passes to the one before holds from 0 on.
LEMMA CountDown ==
  ASSUME NEW last \in Nat, NEW good, last \in good,
         \A i \in 0 .. last - 1 : i + 1 \in good => i \in good
  PROVE  0 \in good
<1> DEFINE S == {i \in Nat : i \in good /\ i <= last}
<1>1. last \in S /\ S \subseteq Nat OBVIOUS
<1> HIDE DEF S
<1>2. PICK x \in S : \A y \in S : x <= y BY <1>1, HasLeast
<1>3. x \in Nat /\ x \in good /\ x <= last BY <1>2 DEF S
<1>4. CASE x = 0 BY <1>3, <1>4
<1>5. CASE x # 0
  <2>1. x - 1 \in 0 .. last - 1 /\ (x - 1) + 1 = x /\ ~(x <= x - 1) /\ x - 1 \in Nat
        /\ x - 1 <= last
    BY <1>3, <1>5
  <2>2. x - 1 \in good BY <1>3, <2>1
  <2>3. x - 1 \in S BY <2>1, <2>2 DEF S
  <2> QED BY <1>2, <2>1, <2>3
<1> QED BY <1>4, <1>5

\* The structures from one on, as StructOffsets collects them.
IsAfter(after, m) ==
  after = [o \in DOMAIN m.structs |->
             {o} \union (IF o + m.structs[o].len < m.length
                         THEN after[o + m.structs[o].len] ELSE {})]

\* There is such a function where structures follow each other.
LEMMA AfterExists ==
  ASSUME NEW m, FollowEachOther(m)
  PROVE  \E after : IsAfter(after, m)
<1> DEFINE L == m.length
           places == DOMAIN m.structs
           next(o) == o + m.structs[o].len
           From(b) == {o \in places : b <= o}
           Val(g, o) == {o} \union (IF next(o) < L THEN g[next(o)] ELSE {})
           Part(g, b) == g = [o \in From(b) |-> Val(g, o)]
           good == {b \in 0 .. L : \E g : Part(g, b)}
<1>1. /\ L \in Nat /\ places \subseteq 0 .. L - 1
      /\ \A o \in places : next(o) \in Nat /\ o < next(o)
      /\ \A o \in places : next(o) < L => next(o) \in places
  <2>1. L \in Nat /\ places \subseteq 0 .. L - 1 BY DEF FollowEachOther
  <2>2. \A o \in places : m.structs[o].len \in Nat \ {0} BY DEF FollowEachOther
  <2>3. \A o \in places : next(o) < L => next(o) \in places BY DEF FollowEachOther
  <2> HIDE DEF L, places
  <2>4. \A o \in places : next(o) \in Nat /\ o < next(o) BY <2>1, <2>2
  <2> QED BY <2>1, <2>3, <2>4
<1> HIDE DEF L, places, next
<1>0. L \in Nat /\ \A o \in places : o \in Nat /\ o < L BY <1>1
<1>2. L \in good
  <2>1. From(L) = {} BY <1>0
  <2> DEFINE g == [o \in From(L) |-> {}]
  <2>2. g = [o \in From(L) |-> Val(g, o)]
    <3> HIDE DEF From, Val
    <3> QED BY <2>1
  <2>3. Part(g, L) BY <2>2
  <2> HIDE DEF Part, g
  <2> QED BY <1>1, <2>3
<1>3. ASSUME NEW b \in 0 .. L - 1, b + 1 \in good PROVE b \in good
  <2>1. b \in Nat /\ b \in 0 .. L BY <1>1
  <2>2. PICK g : Part(g, b + 1) BY <1>3
  <2>3. \A o \in places : o \in From(b) <=> o = b \/ o \in From(b + 1) BY <1>1, <2>1
  <2>4. \A o \in From(b) : o \in places /\ (next(o) < L => next(o) \in From(b + 1))
    <3> SUFFICES ASSUME NEW o \in From(b), next(o) < L PROVE next(o) \in From(b + 1)
      OBVIOUS
    <3>1. o \in places /\ b <= o /\ o \in Nat BY <1>1
    <3>2. next(o) \in places /\ next(o) \in Nat /\ o < next(o) BY <1>1, <3>1
    <3>3. b + 1 <= next(o) BY <2>1, <3>1, <3>2
    <3> QED BY <3>2, <3>3
  <2> DEFINE h == [o \in From(b) |-> IF o = b THEN Val(g, b) ELSE g[o]]
  <2>5. b \notin From(b + 1) /\ From(b + 1) \subseteq From(b) BY <1>0, <2>1
  <2>6. \A o \in From(b + 1) : h[o] = g[o] BY <2>5
  <2>7. ASSUME NEW o \in From(b) PROVE h[o] = Val(h, o)
    <3>1. next(o) < L => h[next(o)] = g[next(o)] BY <2>4, <2>6
    <3>2. Val(h, o) = Val(g, o) BY <3>1
    <3>3. h[o] = Val(g, o)
      <4>1. CASE o = b BY <4>1
      <4>2. CASE o # b
        <5>1. o \in From(b + 1) BY <2>3, <2>4, <4>2
        <5>2. g[o] = Val(g, o)
          <6> HIDE DEF From, Val
          <6> QED BY <2>2, <5>1
        <5> QED BY <2>6, <5>1, <5>2
      <4> QED BY <4>1, <4>2
    <3> QED BY <3>2, <3>3
  <2>8. Part(h, b)
    <3>1. h = [o \in From(b) |-> h[o]] OBVIOUS
    <3> HIDE DEF h, From, Val
    <3>2. [o \in From(b) |-> h[o]] = [o \in From(b) |-> Val(h, o)] BY <2>7
    <3> QED BY <3>1, <3>2
  <2> HIDE DEF Part, h
  <2> QED BY <2>1, <2>8
<1>4. 0 \in good
  <2> HIDE DEF good
  <2> QED BY <1>1, <1>2, <1>3, CountDown
<1>5. PICK g : Part(g, 0)
  <2> HIDE DEF Part
  <2> QED BY <1>4
<1>6. From(0) = places BY <1>0
<1>7. IsAfter(g, m)
  <2>1. g = [o \in places |-> Val(g, o)]
    <3> HIDE DEF From, Val
    <3> QED BY <1>5, <1>6
  <2> QED BY <2>1 DEF IsAfter, places, next, L
<1> QED BY <1>7

\* All structures are found, and nothing else.
LEMMA OffsetsAreStructs ==
  ASSUME NEW m, FollowEachOther(m)
  PROVE  StructOffsets(m) = DOMAIN m.structs
<1> DEFINE L == m.length
           places == DOMAIN m.structs
           next(o) == o + m.structs[o].len
           after == CHOOSE f : IsAfter(f, m)
<1>1. /\ L \in Nat /\ places \subseteq 0 .. L - 1
      /\ \A o \in places : next(o) \in Nat /\ o < next(o)
      /\ \A o \in places : next(o) < L => next(o) \in places
      /\ 0 < L => 0 \in places
      /\ \A o \in places \ {0} : \E q \in places : o = next(q)
  <2>1. L \in Nat /\ places \subseteq 0 .. L - 1 /\ (0 < L => 0 \in places)
        /\ \A o \in places \ {0} : \E q \in places : o = next(q)
    BY DEF FollowEachOther
  <2>2. \A o \in places : m.structs[o].len \in Nat \ {0} BY DEF FollowEachOther
  <2>3. \A o \in places : next(o) < L => next(o) \in places BY DEF FollowEachOther
  <2> HIDE DEF L, places
  <2>4. \A o \in places : next(o) \in Nat /\ o < next(o) BY <2>1, <2>2
  <2> QED BY <2>1, <2>3, <2>4
<1>2. StructOffsets(m) = IF 0 < L THEN after[0] ELSE {}
  BY DEF StructOffsets, IsAfter
<1>3. IsAfter(after, m)
  <2>1. \E f : IsAfter(f, m) BY AfterExists
  <2> QED BY <2>1
<1> HIDE DEF after
<1>4. \A o \in places :
        after[o] = {o} \union (IF next(o) < L THEN after[next(o)] ELSE {})
  BY <1>3 DEF IsAfter
<1> HIDE DEF L, places, next
<1>0. \A o \in places : o \in Nat BY <1>1
<1> DEFINE Fine(o) == /\ o \in after[o] /\ after[o] \subseteq places
                      /\ \A q \in after[o] : next(q) < L => next(q) \in after[o]
           good == {b \in 0 .. L : \A o \in places : b <= o => Fine(o)}
<1>5. L \in good BY <1>1
<1>6. ASSUME NEW b \in 0 .. L - 1, b + 1 \in good PROVE b \in good
  <2>1. b \in Nat /\ b \in 0 .. L BY <1>1
  <2>2. ASSUME NEW o \in places, b <= o PROVE Fine(o)
    <3>1. o \in Nat /\ next(o) \in Nat /\ o < next(o) BY <1>1
    <3>2. CASE next(o) < L
      <4>1. next(o) \in places /\ b + 1 <= next(o) BY <1>1, <2>1, <2>2, <3>1, <3>2
      <4>2. Fine(next(o)) BY <1>6, <4>1
      <4>3. after[o] = {o} \union after[next(o)] BY <1>4, <3>2
      <4> QED BY <4>2, <4>3
    <3>3. CASE ~(next(o) < L)
      <4>1. after[o] = {o} BY <1>4, <3>3
      <4> QED BY <3>3, <4>1
    <3> QED BY <3>2, <3>3
  <2> QED BY <2>1, <2>2
<1>7. 0 \in good
  <2> HIDE DEF good
  <2> QED BY <1>1, <1>5, <1>6, CountDown
<1>8. CASE ~(0 < L)
  <2>1. places = {} BY <1>1, <1>8
  <2> QED BY <1>2, <1>8, <2>1 DEF places
<1>9. CASE 0 < L
  <2>1. Fine(0) BY <1>1, <1>7, <1>9
  <2> DEFINE lost == places \ after[0]
  <2>2. lost = {}
    <3> SUFFICES ASSUME lost # {} PROVE FALSE OBVIOUS
    <3>1. \A q \in lost : q \in Nat BY <1>0
    <3> HIDE DEF lost
    <3>2. PICK o \in lost : \A q \in lost : o <= q BY <3>1, HasLeast
    <3>3. o \in places /\ o \notin after[0] /\ o # 0 BY <2>1, <3>2 DEF lost
    <3>4. PICK q \in places : o = next(q) BY <1>1, <3>3
    <3>5. q \in Nat /\ o \in Nat /\ q < o /\ o < L BY <1>1, <3>3, <3>4
    <3>6. q \notin lost BY <3>2, <3>5
    <3>7. q \in after[0] BY <3>4, <3>6 DEF lost
    <3> QED BY <2>1, <3>3, <3>4, <3>5, <3>7
  <2>3. after[0] = places BY <2>1, <2>2
  <2> QED BY <1>2, <1>9, <2>3 DEF places
<1> QED BY <1>8, <1>9
-----------------------------------------------------------------------------
(* The structures of one type, in their order.                             *)

\* How many of S come before an element.
Rank(S, o) == Cardinality({p \in S : p < o})

\* Ranks are numbers, and grow with the elements.
LEMMA RanksGrow ==
  ASSUME NEW S, S \subseteq Nat, IsFiniteSet(S), NEW o \in S
  PROVE  /\ Rank(S, o) \in Nat
         /\ \A q \in S : q < o => Rank(S, q) < Rank(S, o)
         /\ Rank(S, o) = 0 <=> \A q \in S : o <= q
<1> DEFINE Before(q) == {p \in S : p < q}
<1>1. \A q : IsFiniteSet(Before(q)) /\ Cardinality(Before(q)) \in Nat
  <2> SUFFICES ASSUME NEW q PROVE IsFiniteSet(Before(q)) /\ Cardinality(Before(q)) \in Nat
    OBVIOUS
  <2>1. Before(q) \subseteq S OBVIOUS
  <2> HIDE DEF Before
  <2>2. IsFiniteSet(Before(q)) BY <2>1, FS_Subset
  <2> QED BY <2>2, FS_CardinalityType
<1>2. ASSUME NEW q \in S, q < o PROVE Cardinality(Before(q)) < Cardinality(Before(o))
  <2>0. o \in Nat /\ q \in Nat /\ \A p \in S : p \in Nat OBVIOUS
  <2>1. q \in Before(o) /\ q \notin Before(q) BY <1>2, <2>0
  <2>3. ASSUME NEW p \in Before(q) PROVE p \in Before(o)
    <3>1. p \in S /\ p < q OBVIOUS
    <3> HIDE DEF Before
    <3>2. p < o BY <1>2, <2>0, <3>1
    <3> QED BY <3>1, <3>2 DEF Before
  <2> HIDE DEF Before
  <2>4. Before(q) \subseteq Before(o) BY <2>3
  <2>2. Before(q) # Before(o) BY <2>1
  <2> QED BY <1>1, <2>2, <2>4, FS_Subset
<1>3. Cardinality(Before(o)) = 0 <=> Before(o) = {}
  <2> HIDE DEF Before
  <2> QED BY <1>1, FS_EmptySet
<1>4. Before(o) = {} <=> \A q \in S : o <= q
  <2>1. \A q \in S : q < o <=> ~(o <= q) OBVIOUS
  <2> QED BY <2>1
<1> QED BY <1>1, <1>2, <1>3, <1>4 DEF Rank

\* No rank is skipped.
LEMMA RanksHaveNoGap ==
  ASSUME NEW S, S \subseteq Nat, IsFiniteSet(S), NEW i \in Nat,
         \A o \in S : Rank(S, o) # i
  PROVE  \A o \in S : Rank(S, o) < i
<1> DEFINE bad == {o \in S : ~(Rank(S, o) < i)}
<1> SUFFICES ASSUME bad # {} PROVE FALSE OBVIOUS
<1>1. bad \subseteq Nat OBVIOUS
<1> HIDE DEF bad
<1>2. PICK o \in bad : \A q \in bad : o <= q BY <1>1, HasLeast
<1>3. o \in S /\ o \in Nat /\ Rank(S, o) \in Nat /\ i < Rank(S, o)
  <2>1. o \in S /\ ~(Rank(S, o) < i) BY <1>2 DEF bad
  <2>2. Rank(S, o) \in Nat /\ Rank(S, o) # i /\ o \in Nat BY <2>1, RanksGrow
  <2> QED BY <2>1, <2>2
<1> DEFINE Before == {p \in S : p < o}
           gaps == {o - p : p \in Before}
<1>4. Before # {}
  <2>1. Cardinality(Before) # 0 BY <1>3 DEF Rank
  <2> HIDE DEF Before
  <2> QED BY <2>1, FS_EmptySet
<1>5. gaps \subseteq Nat /\ gaps # {}
  <2>1. \A p \in Before : o - p \in Nat BY <1>3
  <2> HIDE DEF Before
  <2> QED BY <1>4, <2>1
<1>6. PICK d \in gaps : \A e \in gaps : d <= e
  <2> HIDE DEF gaps
  <2> QED BY <1>5, HasLeast
<1>7. PICK q \in Before : d = o - q OBVIOUS
<1>8. q \in S /\ q \in Nat /\ q < o BY <1>7
<1>9. \A p \in S : p < o <=> p < q \/ p = q
  <2> SUFFICES ASSUME NEW p \in S PROVE p < o <=> p < q \/ p = q
    OBVIOUS
  <2>1. p \in Nat OBVIOUS
  <2>2. p < o => d <= o - p BY <1>6
  <2> QED BY <1>3, <1>7, <1>8, <2>1, <2>2
<1> DEFINE Less == {p \in S : p < q}
<1>10. Before = Less \union {q} /\ q \notin Less /\ Less \subseteq S
  <2>1. ~(q < q) BY <1>8
  <2> QED BY <1>8, <1>9, <2>1
<1>11. Cardinality(Before) = Cardinality(Less) + 1
  <2> HIDE DEF Before, Less
  <2>1. IsFiniteSet(Less) BY <1>10, FS_Subset
  <2> QED BY <1>10, <2>1, FS_AddElement
<1>12. Rank(S, o) = Rank(S, q) + 1 BY <1>11 DEF Rank
<1>13. Rank(S, q) \in Nat BY <1>8, RanksGrow
<1>14. q \in bad
  <2>1. ~(Rank(S, q) < i) BY <1>3, <1>12, <1>13
  <2> QED BY <1>8, <2>1 DEF bad
<1> QED BY <1>2, <1>3, <1>8, <1>14

\* The local APICs of a table.
Locals(m) == {o \in DOMAIN m.structs : m.structs[o].type = 0}

\* FindIntrCtrlStructInMADT finds the one of a rank, if there is one.
LEMMA FindsRanks ==
  ASSUME NEW m, FollowEachOther(m), NEW i
  PROVE  /\ Locals(m) \subseteq Nat /\ IsFiniteSet(Locals(m))
         /\ \A o \in Locals(m) :
              Rank(Locals(m), o) = i => FindIntrCtrlStructInMADT(m, 0, i) = o
         /\ FindIntrCtrlStructInMADT(m, 0, i) # Nowhere =>
              /\ FindIntrCtrlStructInMADT(m, 0, i) \in Locals(m)
              /\ Rank(Locals(m), FindIntrCtrlStructInMADT(m, 0, i)) = i
<1> DEFINE S == Locals(m)
           found == {o \in S : Rank(S, o) = i}
           x == FindIntrCtrlStructInMADT(m, 0, i)
<1>1. S \subseteq Nat /\ IsFiniteSet(S)
  <2>1. DOMAIN m.structs \subseteq 0 .. m.length - 1 /\ m.length \in Nat
    BY DEF FollowEachOther
  <2>2. S \subseteq 0 .. m.length - 1 BY <2>1 DEF Locals
  <2>3. IsFiniteSet(0 .. m.length - 1) BY <2>1, FS_Interval, 0 \in Int, m.length - 1 \in Int
  <2>4. IsFiniteSet(S) BY <2>2, <2>3, FS_Subset
  <2> QED BY <2>1, <2>2, <2>4
<1>2. x = IF found = {} THEN Nowhere ELSE Min(found)
  <2>1. StructOffsets(m) = DOMAIN m.structs BY OffsetsAreStructs
  <2> QED BY <2>1 DEF FindIntrCtrlStructInMADT, Rank, Locals
<1>3. found # {} => Min(found) \in found
  <2>1. found \subseteq Nat BY <1>1
  <2> HIDE DEF found
  <2> QED BY <2>1, MinIsLeast
<1>4. ASSUME NEW o \in S, Rank(S, o) = i PROVE x = o
  <2>1. x \in found BY <1>2, <1>3, <1>4
  <2>2. x \in S /\ Rank(S, x) = i /\ x \in Nat /\ o \in Nat BY <1>1, <2>1
  <2> HIDE DEF S, x, found
  <2>3. Rank(S, o) \in Nat /\ (x < o => Rank(S, x) < Rank(S, o))
        /\ (o < x => Rank(S, o) < Rank(S, x))
    BY <1>1, <1>4, <2>2, RanksGrow
  <2> QED BY <1>4, <2>2, <2>3
<1>5. x # Nowhere => x \in S /\ Rank(S, x) = i BY <1>2, <1>3
<1> QED BY <1>1, <1>4, <1>5

\* Those that are found before the first that is not are all but the first.
LEMMA FindsTheOthers ==
  ASSUME NEW m, FollowEachOther(m), NEW count \in Nat \ {0},
         FindIntrCtrlStructInMADT(m, 0, count) = Nowhere,
         \A i \in 1 .. count - 1 : FindIntrCtrlStructInMADT(m, 0, i) # Nowhere
  PROVE  {FindIntrCtrlStructInMADT(m, 0, i) : i \in 1 .. count - 1}
           = Locals(m) \ {Min(Locals(m))}
<1> DEFINE S == Locals(m)
           Find(i) == FindIntrCtrlStructInMADT(m, 0, i)
<1>1. S \subseteq Nat /\ IsFiniteSet(S) BY FindsRanks
<1>2. \A i : /\ \A o \in S : Rank(S, o) = i => Find(i) = o
             /\ Find(i) # Nowhere => Find(i) \in S /\ Rank(S, Find(i)) = i
  BY FindsRanks
<1>3. Find(count) = Nowhere /\ \A i \in 1 .. count - 1 : Find(i) # Nowhere OBVIOUS
<1> HIDE DEF S, Find
<1>4. S # {} => Min(S) \in S /\ \A q \in S : Min(S) <= q BY <1>1, MinIsLeast
<1>5. ASSUME NEW o \in S PROVE Rank(S, o) \in Nat /\ (Rank(S, o) = 0 <=> o = Min(S))
  <2>1. Rank(S, o) \in Nat /\ (Rank(S, o) = 0 <=> \A q \in S : o <= q) BY <1>1, RanksGrow
  <2>2. o \in Nat /\ Min(S) \in Nat /\ Min(S) \in S /\ \A q \in S : Min(S) <= q
    BY <1>1, <1>4
  <2>3. (\A q \in S : o <= q) <=> o = Min(S) BY <2>2
  <2> QED BY <2>1, <2>3
<1>6. \A o \in S : Rank(S, o) < count
  <2>1. \A o \in S : Rank(S, o) # count
    <3> SUFFICES ASSUME NEW o \in S, Rank(S, o) = count PROVE FALSE OBVIOUS
    <3>1. o = Nowhere BY <1>2, <1>3
    <3> QED BY <1>1, <3>1 DEF Nowhere
  <2>2. count \in Nat OBVIOUS
  <2> QED BY <1>1, <2>1, <2>2, RanksHaveNoGap
<1>7. ASSUME NEW i \in 1 .. count - 1 PROVE Find(i) \in S /\ Find(i) # Min(S)
  <2>1. Find(i) \in S /\ Rank(S, Find(i)) = i /\ i # 0 BY <1>2, <1>3
  <2> QED BY <1>5, <2>1
<1>8. ASSUME NEW o \in S, o # Min(S) PROVE \E i \in 1 .. count - 1 : Find(i) = o
  <2> DEFINE r == Rank(S, o)
  <2>1. r \in Nat /\ r # 0 /\ r < count BY <1>5, <1>6, <1>8
  <2>2. Find(r) = o BY <1>2
  <2> HIDE DEF r
  <2>3. r \in 1 .. count - 1 BY <2>1
  <2> QED BY <2>2, <2>3
<1>9. {Find(i) : i \in 1 .. count - 1} = S \ {Min(S)} BY <1>7, <1>8
<1> QED BY <1>9 DEF S, Find
-----------------------------------------------------------------------------
(* The processors the firmware lists.                                      *)

\* The intact tables of a kind.
Intact(f, sig) == {a \in DOMAIN f : f[a].sig = sig /\ f[a].ok}

FoundEntry(f) == FindEntry(f, Areas, "APIC")

\* A list names the table or none.
LEMMA TraversalFinds ==
  ASSUME NEW f, NEW entries \in Seq(DOMAIN f),
         \A t, u \in Intact(f, "APIC") : t = u,
         \A t \in Intact(f, "APIC") : \E i \in DOMAIN entries : entries[i] = t
  PROVE  /\ Intact(f, "APIC") = {} => Traversal(f, entries, "APIC") = Nowhere
         /\ \A t \in Intact(f, "APIC") : Traversal(f, entries, "APIC") = t
<1> DEFINE good == {i \in DOMAIN entries :
                      f[entries[i]].sig = "APIC" /\ f[entries[i]].ok}
<1>1. good = {i \in DOMAIN entries : entries[i] \in Intact(f, "APIC")}
  BY DEF Intact
<1>2. Traversal(f, entries, "APIC") = IF good = {} THEN Nowhere ELSE entries[Min(good)]
  BY DEF Traversal
<1>3. good \subseteq Nat OBVIOUS
<1> HIDE DEF good
<1>4. good # {} => Min(good) \in good BY <1>3, MinIsLeast
<1>5. Intact(f, "APIC") = {} => good = {} BY <1>1
<1>6. ASSUME NEW t \in Intact(f, "APIC") PROVE Traversal(f, entries, "APIC") = t
  <2>1. good # {} BY <1>1
  <2>2. entries[Min(good)] \in Intact(f, "APIC") BY <1>1, <1>4, <2>1
  <2> QED BY <1>2, <2>1, <2>2
<1> QED BY <1>2, <1>5, <1>6

\* FindEntry finds the intact table of interrupt controllers, if an intact list
\* names it.
LEMMA EntryIsFound ==
  ASSUME NEW f, Sound(f)
  PROVE  /\ Intact(f, "list") = {} \/ Intact(f, "APIC") = {} => FoundEntry(f) = Nowhere
         /\ Intact(f, "list") # {} => \A t \in Intact(f, "APIC") : FoundEntry(f) = t
<1> DEFINE root == FindRSDP(f, Areas)
           xsdt == IF root = Nowhere THEN 0 ELSE f[root].xsdt
           rsdt == IF root = Nowhere THEN 0 ELSE f[root].rsdt
<1>1. FoundEntry(f) =
        IF xsdt # 0 /\ f[xsdt].ok THEN Traversal(f, f[xsdt].entries, "APIC")
        ELSE IF rsdt # 0 /\ f[rsdt].ok THEN Traversal(f, f[rsdt].entries, "APIC")
        ELSE Nowhere
  BY DEF FoundEntry, FindEntry
<1>2. /\ 0 \notin DOMAIN f
      /\ root # Nowhere => \A a \in {f[root].rsdt, f[root].xsdt} \ {0} :
           a \in DOMAIN f /\ f[a].sig = "list" /\ f[a].entries \in Seq(DOMAIN f)
      /\ \A a \in Intact(f, "list") :
           /\ root # Nowhere /\ a \in {f[root].rsdt, f[root].xsdt}
           /\ \A t \in Intact(f, "APIC") : \E i \in DOMAIN f[a].entries : f[a].entries[i] = t
      /\ \A t, u \in Intact(f, "APIC") : t = u
  BY DEF Sound, Intact
<1>3. \A a \in {xsdt, rsdt} \ {0} :
        a \in DOMAIN f /\ f[a].sig = "list" /\ f[a].entries \in Seq(DOMAIN f)
  BY <1>2
<1>4. \A a \in Intact(f, "list") : a \in {xsdt, rsdt} /\ a # 0 /\ f[a].ok
  BY <1>2 DEF Intact
<1> HIDE DEF root, xsdt, rsdt
<1>5. ASSUME NEW a \in {xsdt, rsdt} \ {0}, f[a].ok
      PROVE  /\ a \in Intact(f, "list")
             /\ Intact(f, "APIC") = {} => Traversal(f, f[a].entries, "APIC") = Nowhere
             /\ \A t \in Intact(f, "APIC") : Traversal(f, f[a].entries, "APIC") = t
  <2>1. a \in Intact(f, "list") BY <1>3, <1>5 DEF Intact
  <2>2. f[a].entries \in Seq(DOMAIN f) BY <1>3
  <2>3. \A t \in Intact(f, "APIC") : \E i \in DOMAIN f[a].entries : f[a].entries[i] = t
    BY <1>2, <2>1
  <2> QED BY <1>2, <2>1, <2>2, <2>3, TraversalFinds
<1>6. CASE xsdt # 0 /\ f[xsdt].ok BY <1>1, <1>5, <1>6
<1>7. CASE ~(xsdt # 0 /\ f[xsdt].ok) /\ rsdt # 0 /\ f[rsdt].ok BY <1>1, <1>5, <1>7
<1>8. CASE ~(xsdt # 0 /\ f[xsdt].ok) /\ ~(rsdt # 0 /\ f[rsdt].ok)
  <2>1. Intact(f, "list") = {} BY <1>4, <1>8
  <2> QED BY <1>1, <1>8, <2>1
<1> QED BY <1>6, <1>7, <1>8

\* What the firmware lists are the local APICs of the table found but the first.
LEMMA ListedIsFound ==
  ASSUME Sound(firmware)
  PROVE  /\ Madt = Nowhere => Listed = {}
         /\ Madt # Nowhere =>
              /\ FollowEachOther(firmware[Madt])
              /\ Listed = {firmware[Madt].structs[o].id :
                             o \in Locals(firmware[Madt]) \ {Min(Locals(firmware[Madt]))}}
<1> DEFINE lists == Intact(firmware, "list")
           madts == Intact(firmware, "APIC")
           a == CHOOSE x \in madts : \A y \in madts : x <= y
           Rest(x) == {firmware[x].structs[o].id :
                         o \in Locals(firmware[x]) \ {Min(Locals(firmware[x]))}}
<1>1. Listed = IF lists = {} \/ madts = {} THEN {} ELSE Rest(a)
  BY DEF Listed, Intact, Locals
<1>2. /\ DOMAIN firmware \subseteq Nat \ {0}
      /\ \A t, u \in madts : t = u
      /\ \A t \in madts : FollowEachOther(firmware[t])
  BY DEF Sound, Intact
<1>3. /\ lists = {} \/ madts = {} => Madt = Nowhere
      /\ lists # {} => \A t \in madts : Madt = t
  BY EntryIsFound DEF FoundEntry, Madt
<1>4. madts \subseteq Nat BY <1>2 DEF Intact
<1> HIDE DEF lists, madts
<1>5. \A t \in madts : a = t
  <2> SUFFICES ASSUME NEW t \in madts PROVE a = t OBVIOUS
  <2>1. t \in Nat /\ \A y \in madts : y = t BY <1>2, <1>4
  <2>2. \A y \in madts : t <= y BY <2>1
  <2>3. a \in madts BY <2>2
  <2> QED BY <2>1, <2>3
<1> HIDE DEF a
<1>6. CASE lists = {} \/ madts = {} BY <1>1, <1>3, <1>6
<1>7. CASE ~(lists = {} \/ madts = {})
  <2>1. PICK t \in madts : TRUE BY <1>7
  <2>2. Madt = t /\ a = t /\ t # Nowhere BY <1>3, <1>4, <1>5, <1>7, <2>1 DEF Nowhere
  <2>3. Listed = Rest(Madt) BY <1>1, <1>7, <2>2
  <2> QED BY <1>2, <2>2, <2>3
<1> QED BY <1>6, <1>7

\* Which processors InitAPs has sent an INIT: those of the table up to the n-th,
\* or to the one before when it has yet to be sent or there is none.
Tried == 1 .. IF pc \in {"search", "initWait", "sipiWait", "lastWait"} THEN n ELSE n - 1

StartedInOrder ==
  /\ firmware \in Firmware
  /\ {p \in Processor : ap[p] # "off"} = {Entry(firmware, i) : i \in Tried} \intersect present
  /\ \A i \in Tried \union (IF pc = "returned" THEN {} ELSE {n} \ {0}) :
       Madt # Nowhere /\ StructOf(i) # Nowhere
  /\ pc = "returned" => n # 0 /\ (Madt = Nowhere \/ StructOf(n) = Nowhere)

\* Every step keeps it.
LEMMA OrderKeeps ==
  ASSUME StartInvariant, StartedInOrder, [StartNext]_startVars
  PROVE  StartedInOrder'
<1>1. StartTypes BY DEF StartInvariant
<1> DEFINE Begun == {p \in Processor : ap[p] # "off"}
           Names(s) == {Entry(firmware, i) : i \in s}
           Checked == Tried \union (IF pc = "returned" THEN {} ELSE {n} \ {0})
<1>2. CASE UNCHANGED <<firmware, present, n>> /\ Begun' = Begun /\ Tried' = Tried
           /\ (pc' = "returned" <=> pc = "returned")
  <2>1. UNCHANGED <<Madt>> /\ \A i : StructOf(i)' = StructOf(i)
    BY <1>2 DEF Madt, StructOf
  <2>2. Checked' = Checked BY <1>2
  <2> QED BY <1>2, <2>1, <2>2 DEF StartedInOrder
<1>3. CASE Search
  <2>1. /\ pc = "search" /\ n' = n + 1 /\ n \in Nat /\ UNCHANGED <<firmware, present, ap>>
        /\ IF Madt = Nowhere THEN pc' = "returned"
           ELSE pc' = IF StructOf(n') = Nowhere THEN "returned" ELSE "write"
    BY <1>1, <1>3 DEF Search, apVars, StartTypes
  <2>2. Tried = 1 .. n /\ Tried' = 1 .. (n + 1) - 1 /\ (n + 1) - 1 = n /\ n + 1 # 0
    BY <2>1 DEF Tried
  <2>3. Tried' = Tried BY <2>2
  <2>4. Madt' = Madt /\ \A i : StructOf(i)' = StructOf(i) BY <2>1 DEF Madt, StructOf
  <2>5. \A i \in Tried : Madt # Nowhere /\ StructOf(i) # Nowhere BY DEF StartedInOrder
  <2> QED BY <2>1, <2>2, <2>3, <2>4, <2>5 DEF StartedInOrder
<1>4. CASE CopyAndInit
  <2>1. /\ pc = "copy" /\ pc' = "initWait" /\ n \in Nat /\ n # 0
        /\ UNCHANGED <<firmware, present, n>>
        /\ ap' = IF Target \in present /\ ap[Target] = "off"
                 THEN [ap EXCEPT ![Target] = "init"] ELSE ap
        /\ present \subseteq Processor /\ DOMAIN ap = Processor
    BY <1>1, <1>4 DEF CopyAndInit, StartTypes, StartInvariant, StackIsReady
  <2>2. Tried = 1 .. n - 1 /\ Tried' = 1 .. n BY <2>1 DEF Tried
  <2>3. Tried' = Tried \union {n} BY <2>1, <2>2
  <2>4. Names(Tried') = Names(Tried) \union {Target} BY <2>3, TargetIsEntry
  <2>5. Begun = Names(Tried) \intersect present BY DEF StartedInOrder
  <2>6. Begun' = Begun \union ({Target} \intersect present)
    <3>1. CASE Target \in present /\ ap[Target] = "off"
      <4>1. \A p \in Processor : ap'[p] = IF p = Target THEN "init" ELSE ap[p]
        BY <2>1, <3>1
      <4>2. {Target} \intersect present = {Target} BY <3>1
      <4>3. Target \in Processor BY <2>1, <3>1
      <4> QED BY <4>1, <4>2, <4>3
    <3>2. CASE Target \notin present
      <4>1. ap' = ap /\ {Target} \intersect present = {} BY <2>1, <3>2
      <4> QED BY <4>1
    <3>3. CASE Target \in present /\ ap[Target] # "off"
      <4>1. ap' = ap /\ Target \in Begun BY <2>1, <3>3
      <4> QED BY <4>1
    <3> QED BY <3>1, <3>2, <3>3
  <2>7. Begun' = Names(Tried') \intersect present
    <3> HIDE DEF Begun, Names
    <3> QED BY <2>4, <2>5, <2>6
  <2>8. Madt' = Madt /\ \A i : StructOf(i)' = StructOf(i) BY <2>1 DEF Madt, StructOf
  <2>9. Checked' = Checked BY <2>1, <2>3
  <2> QED BY <2>1, <2>7, <2>8, <2>9 DEF StartedInOrder
<1>5. CASE Tick \/ WriteStack \/ RaiseFlag \/ LastWait
  <2>1. /\ UNCHANGED <<firmware, present, n, ap>>
        /\ \/ pc' = pc
           \/ pc \in {"write", "flag"} /\ pc' \in {"flag", "copy"}
           \/ pc = "lastWait" /\ pc' = "search"
    BY <1>5 DEF Tick, WriteStack, RaiseFlag, LastWait, bspVars, apVars
  <2>2. Tried' = Tried BY <2>1 DEF Tried
  <2> QED BY <1>2, <2>1, <2>2
<1>6. CASE Sipi("initWait", "sipiWait") \/ Sipi("sipiWait", "lastWait")
  <2>1. /\ UNCHANGED <<firmware, present, n>>
        /\ pc \in {"initWait", "sipiWait"} /\ pc' \in {"sipiWait", "lastWait"}
        /\ ap' = IF ap[Target] = "init" THEN [ap EXCEPT ![Target] = "started"] ELSE ap
    BY <1>6 DEF Sipi
  <2>2. Tried' = Tried BY <2>1 DEF Tried
  <2>3. \A p \in Processor : ap'[p] # "off" <=> ap[p] # "off"
    BY <1>1, <2>1 DEF StartTypes
  <2>4. Begun' = Begun BY <2>3
  <2> QED BY <1>2, <2>1, <2>2, <2>4
<1>7. CASE \E p \in Processor : TakeStack(p) \/ LowerFlag(p)
  <2>1. PICK p \in Processor : TakeStack(p) \/ LowerFlag(p) BY <1>7
  <2>2. /\ UNCHANGED <<firmware, present, n, pc>> /\ ap[p] # "off"
        /\ \E to \in {"hasStack", "runs"} : ap' = [ap EXCEPT ![p] = to]
    BY <2>1 DEF TakeStack, LowerFlag, bspVars
  <2>3. Tried' = Tried BY <2>2 DEF Tried
  <2>4. \A q \in Processor : ap'[q] # "off" <=> ap[q] # "off"
    BY <1>1, <2>2 DEF StartTypes
  <2>5. Begun' = Begun BY <2>4
  <2> QED BY <1>2, <2>2, <2>3, <2>5
<1>8. CASE UNCHANGED startVars
  <2>1. UNCHANGED <<firmware, present, n, pc, ap>> BY <1>8 DEF startVars, bspVars, apVars
  <2>2. Tried' = Tried BY <2>1 DEF Tried
  <2> QED BY <1>2, <2>1, <2>2
<1> QED BY <1>3, <1>4, <1>5, <1>6, <1>7, <1>8 DEF StartNext, InitAPs

\* When the search ends, all that are listed and there have been started.
LEMMA AllAreStarted ==
  ASSUME StartInvariant, StartedInOrder, Sound(firmware)
  PROVE  StartsTheOthers
<1> SUFFICES ASSUME pc = "returned"
             PROVE  {p \in Processor : ap[p] # "off"} = Listed \intersect present
  BY DEF StartsTheOthers
<1> DEFINE Begun == {p \in Processor : ap[p] # "off"}
           Names == {Entry(firmware, i) : i \in 1 .. n - 1}
<1>1. /\ Begun = Names \intersect present
      /\ \A i \in 1 .. n - 1 : Madt # Nowhere /\ StructOf(i) # Nowhere
      /\ n # 0 /\ (Madt = Nowhere \/ StructOf(n) = Nowhere)
  <2>1. Tried = 1 .. n - 1 BY DEF Tried
  <2> QED BY <2>1 DEF StartedInOrder
<1>2. n \in Nat BY DEF StartInvariant, StartTypes
<1>3. Names = Listed
  <2>1. CASE Madt = Nowhere
    <3>1. Names = {} BY <1>1, <2>1
    <3> QED BY <2>1, <3>1, ListedIsFound
  <2>2. CASE Madt # Nowhere
    <3> DEFINE m == firmware[Madt]
               Find(i) == FindIntrCtrlStructInMADT(m, 0, i)
               others == Locals(m) \ {Min(Locals(m))}
    <3>1. FollowEachOther(m) /\ Listed = {m.structs[o].id : o \in others}
      BY <2>2, ListedIsFound
    <3>2. Find(n) = Nowhere /\ \A i \in 1 .. n - 1 : Find(i) # Nowhere
      BY <1>1, <2>2 DEF StructOf
    <3>3. n \in Nat \ {0} BY <1>1, <1>2
    <3>4. {Find(i) : i \in 1 .. n - 1} = others
      <4> HIDE DEF m
      <4> QED BY <3>1, <3>2, <3>3, FindsTheOthers
    <3>5. Names = {m.structs[Find(i)].id : i \in 1 .. n - 1}
      BY DEF Entry, Madt
    <3> HIDE DEF m, Find, others, Names
    <3>6. {m.structs[Find(i)].id : i \in 1 .. n - 1}
            = {m.structs[o].id : o \in {Find(i) : i \in 1 .. n - 1}}
      OBVIOUS
    <3> QED BY <3>1, <3>4, <3>5, <3>6
  <2> QED BY <2>1, <2>2
<1> QED BY <1>1, <1>3

\* When InitAPs returns, exactly the processors that are there and that the firmware
\* lists next to the boot processor have been started (APCI.cpp 275-280), whatever
\* of the tables is damaged, if the intact ones are as ACPI describes them.
THEOREM StartsTheOthersCorrect ==
  ASSUME \A f \in Firmware : Sound(f)
  PROVE  StartSpec => []StartsTheOthers
<1>1. StartInit => StartInvariant /\ StartedInOrder
  <2> SUFFICES ASSUME StartInit PROVE StartInvariant /\ StartedInOrder OBVIOUS
  <2>1. /\ firmware \in Firmware /\ n = 0 /\ pc = "search"
        /\ \A p \in Processor : ap[p] = "off"
    BY DEF StartInit
  <2>2. Tried = {} BY <2>1 DEF Tried
  <2>3. StartedInOrder BY <2>1, <2>2 DEF StartedInOrder
  <2> QED BY <2>3, StartInitKeeps
<1>2. StartInvariant /\ StartedInOrder /\ [StartNext]_startVars
        => (StartInvariant /\ StartedInOrder)'
  BY NextKeeps, OrderKeeps
<1>3. StartInvariant /\ StartedInOrder => StartsTheOthers
  BY AllAreStarted DEF StartedInOrder
<1> QED BY <1>1, <1>2, <1>3, PTL DEF StartSpec
=============================================================================
