----------------------------- MODULE Interrupts -----------------------------
(***************************************************************************)
(* Interrupts of the boot processor: its local APIC, the pins of the IO    *)
(* APIC, the boot that routes and unmasks them (CPUManager::Initialize),   *)
(* and the handlers (Interrupt::UniHandler, Clock::ClockHandler).          *)
(*                                                                         *)
(* The local APIC holds interrupts that wait (irr) and that are in service *)
(* (isr), and delivers one only if its class, a sixteenth of its vector,   *)
(* is above all in service.  An EOI ends the highest in service, whichever *)
(* handler sends it.  All gates are trap gates, so handlers nest.  A frame *)
(* on the stack of a context is a handler that has not returned yet.       *)
(* Whom the dispatcher picks is left open here (see Threads).              *)
(***************************************************************************)
EXTENDS Integers, Sequences, FiniteSetsExt

CONSTANTS Thread,      \* threads the dispatcher may switch to
          BootContext, \* the stack the kernel boots on
          DevicePin,   \* a pin of the IO APIC with a device's interrupt
          MaxNesting,  \* bound: frames on one stack
          MaxDevice    \* bound: interrupts of the device

ASSUME ContextAssumption == BootContext \notin Thread
ASSUME PinAssumption == DevicePin \in 3 .. 22
ASSUME BoundsAssumption == MaxNesting \in Nat \ {0} /\ MaxDevice \in Nat

VARIABLES boot,     \* the next step of CPUManager::Initialize
          handlers, \* vectors with a registered handler
          hasCPU,   \* whether CPUList has the boot processor
          masked,   \* pins that are masked
          routed,   \* pins whose destination is the boot processor
          timer,    \* whether the timer of the local APIC is counting
          irr,      \* the interrupts that wait
          isr,      \* the interrupts in service
          cur,      \* the context that runs
          frames,   \* [context -> its frames, the innermost last]
          device    \* how often the device has interrupted

vars == <<boot, handlers, hasCPU, masked, routed, timer, irr, isr, cur, frames, device>>
bootVars == <<boot, handlers, hasCPU, masked, routed, timer>>

IRQBase == 64
ClockPin == 2
CLOCK_IRQ == IRQBase + ClockPin
DeviceIRQ == IRQBase + DevicePin
TimerIRQ == 32
PageFault == 14
SYSCALL_IRQ_NUM == 128

Pin == {ClockPin, DevicePin}
Context == Thread \union {BootContext}

Class(v) == v \div 16

-----------------------------------------------------------------------------
(* The boot.                                                               *)

\* Faulty variant: the clock is started before the processor is in the list.
AddCPULast ==
  <<"InitBSP", "KernelSpace", "CPUx86", "InitBSP", "Sti", "InitPIT", "AddCPU">>

Steps ==
  <<"InitBSP", "KernelSpace", "CPUx86", "InitBSP", "Sti", "AddCPU", "InitPIT">>

Booted == boot > Len(Steps)

Init ==
  /\ boot = 1
  /\ handlers = {}
  /\ hasCPU = FALSE
  /\ masked = Pin
  /\ routed = {}
  /\ timer = FALSE
  /\ irr = {}
  /\ isr = {}
  /\ cur = BootContext
  /\ frames = [c \in Context |-> <<>>]
  /\ device = 0

InStep(s) == ~Booted /\ Steps[boot] = s

\* The boot goes on where no handler runs on its stack.
BootStep(s) ==
  /\ cur = BootContext
  /\ frames[cur] = <<>>
  /\ InStep(s)
  /\ boot' = boot + 1
  /\ UNCHANGED <<irr, isr, cur, frames, device>>

RegisterIRQ(vectors) == handlers' = handlers \union vectors

Unmask(pins) == masked' = masked \ pins

\* APCI::InitBSP.  ChangeGlobalIntrBase masks all pins and routes them by one
\* word that nobody set (RegHigh is no union, so setting destField sets another
\* word); the local APIC's timer is started, once, and the pins are unmasked.  The
\* firmware has a MADT: without one InitBSP returns before there is an IO APIC, and
\* InitPIT goes through a pointer that nobody set.
InitBSP ==
  /\ BootStep("InitBSP")
  /\ routed' \in {{}, Pin}
  /\ Unmask(Pin)
  /\ timer' = TRUE
  /\ UNCHANGED <<handlers, hasCPU>>

\* The first use of AddressSpaceManager registers the handler of page faults.
KernelSpace ==
  /\ BootStep("KernelSpace")
  /\ RegisterIRQ({PageFault})
  /\ UNCHANGED <<hasCPU, masked, routed, timer>>

\* CPUx86's constructor loads the table of the handlers and turns on paging,
\* then calls InitBSP once more, and only then enables interrupts.
LoadTables ==
  /\ BootStep("CPUx86") \/ BootStep("Sti")
  /\ UNCHANGED <<handlers, hasCPU, masked, routed, timer>>

AddCPU ==
  /\ BootStep("AddCPU")
  /\ hasCPU' = TRUE
  /\ UNCHANGED <<handlers, masked, routed, timer>>

\* Clock::InitPIT.
InitPIT ==
  /\ BootStep("InitPIT")
  /\ RegisterIRQ({CLOCK_IRQ})
  /\ Unmask({ClockPin})
  /\ UNCHANGED <<hasCPU, routed, timer>>

\* SystemCallEntry's constructor.  No code asks for its instance yet, so this may
\* happen whenever the boot is over, or never.
RegisterSystemCalls ==
  /\ Booted
  /\ SYSCALL_IRQ_NUM \notin handlers
  /\ frames[cur] = <<>>
  /\ RegisterIRQ({SYSCALL_IRQ_NUM})
  /\ UNCHANGED <<boot, hasCPU, masked, routed, timer, irr, isr, cur, frames, device>>

Boot == InitBSP \/ KernelSpace \/ LoadTables \/ AddCPU \/ InitPIT

-----------------------------------------------------------------------------
(* Interrupts arrive.                                                      *)

Raised(p) == IF p \in routed \ masked THEN irr \union {IRQBase + p} ELSE irr

\* An edge at a pin that is masked, or routed elsewhere, is lost.
ClockEdge ==
  /\ irr' = Raised(ClockPin)
  /\ UNCHANGED <<bootVars, isr, cur, frames, device>>

DeviceEdge ==
  /\ device < MaxDevice
  /\ device' = device + 1
  /\ irr' = Raised(DevicePin)
  /\ UNCHANGED <<bootVars, isr, cur, frames>>

TimerEnds ==
  /\ timer
  /\ timer' = FALSE
  /\ irr' = irr \union {TimerIRQ}
  /\ UNCHANGED <<boot, handlers, hasCPU, masked, routed, isr, cur, frames, device>>

\* Interrupts are off until the boot has passed Sti, and in a system call.
InterruptsOn ==
  /\ \E i \in 1 .. boot - 1 : Steps[i] = "Sti"
  /\ \A i \in DOMAIN frames[cur] : frames[cur][i].vec # SYSCALL_IRQ_NUM

Push(v) == frames' = [frames EXCEPT ![cur] = Append(@, [vec |-> v, at |-> "dispatch"])]

Accept ==
  /\ InterruptsOn
  /\ irr # {}
  /\ Len(frames[cur]) < MaxNesting
  /\ LET v == Max(irr)
     IN  /\ \A w \in isr : Class(v) > Class(w)
         /\ irr' = irr \ {v}
         /\ isr' = isr \union {v}
         /\ Push(v)
  /\ UNCHANGED <<bootVars, cur, device>>

\* A thread calls the kernel or faults; neither goes through the local APIC.
Trap(v) ==
  /\ cur \in Thread
  /\ frames[cur] = <<>>
  /\ Push(v)
  /\ UNCHANGED <<bootVars, irr, isr, cur, device>>

-----------------------------------------------------------------------------
(* The innermost frame of the running context goes on.                     *)

Top == frames[cur][Len(frames[cur])]

At(place) == frames[cur] # <<>> /\ Top.at = place

GoesTo(place) == [frames EXCEPT ![cur][Len(frames[cur])].at = place]

\* Faulty variant: the write that acknowledges is lost.
NotEnded(served) == served

\* What LocalAPIC::EOI leaves in service.
EOI(served) == IF served = {} THEN {} ELSE served \ {Max(served)}

\* UniHandler looks for handlers: of the clock's the pieces are told apart,
\* another one runs to its end, if it does not call the dispatcher.
Dispatch ==
  /\ At("dispatch")
  /\ frames' = GoesTo(IF Top.vec \notin handlers THEN "eoi"
                      ELSE IF Top.vec = CLOCK_IRQ THEN "count"
                      ELSE IF Top.vec = SYSCALL_IRQ_NUM THEN "run"
                      ELSE "eoi")
  /\ UNCHANGED <<bootVars, irr, isr, cur, device>>

\* ClockHandler asks the current processor's type and counts,
ClockCount ==
  /\ At("count")
  /\ frames' = GoesTo("ack")
  /\ UNCHANGED <<bootVars, irr, isr, cur, device>>

\* Faulty variant: the clock handler leaves the EOI to the common handler.
ClockNoAck ==
  /\ At("ack")
  /\ frames' = GoesTo("run")
  /\ UNCHANGED <<bootVars, irr, isr, cur, device>>

\* acknowledges,
ClockAck ==
  /\ At("ack")
  /\ isr' = EOI(isr)
  /\ frames' = GoesTo("run")
  /\ UNCHANGED <<bootVars, irr, cur, device>>

\* and runs the dispatcher, as a system call may, which comes back at once or
\* when another context switches back.  The boot's stack is never resumed.
Run ==
  /\ At("run")
  /\ frames' = GoesTo(IF Top.vec = CLOCK_IRQ THEN "again" ELSE "eoi")
  /\ cur' \in IF Booted THEN Thread \union {cur} ELSE {cur}
  /\ UNCHANGED <<bootVars, irr, isr, device>>

\* Faulty variant: the common handler acknowledges twice, as the clock's does.
UniHandlerEOITwice ==
  /\ At("eoi") \/ At("again")
  /\ isr' = EOI(EOI(isr))
  /\ frames' = GoesTo("iret")
  /\ UNCHANGED <<bootVars, irr, cur, device>>

\* UniHandler acknowledges whatever it was, the clock's for the second time.
UniHandlerEOI ==
  /\ At("eoi") \/ At("again")
  /\ isr' = EOI(isr)
  /\ frames' = GoesTo("iret")
  /\ UNCHANGED <<bootVars, irr, cur, device>>

Iret ==
  /\ At("iret")
  /\ frames' = [frames EXCEPT ![cur] = SubSeq(@, 1, Len(@) - 1)]
  /\ UNCHANGED <<bootVars, irr, isr, cur, device>>

Handler == Dispatch \/ ClockCount \/ ClockAck \/ Run \/ UniHandlerEOI \/ Iret

Next ==
  \/ Boot \/ RegisterSystemCalls \/ ClockEdge \/ DeviceEdge \/ TimerEnds
  \/ Accept \/ Trap(SYSCALL_IRQ_NUM) \/ Trap(PageFault)
  \/ Handler

\* The processor executes: it takes an interrupt that waits before the next
\* instruction, again and again in a loop of system calls that enables them for
\* no more than that.  The timer chip ticks, but handlers take less than its
\* period, so what a tick interrupted goes on before the next one: the boot, and
\* the handler at each depth.
Fairness ==
  /\ SF_vars(Accept)
  /\ WF_vars(ClockEdge)
  /\ SF_vars(Boot)
  /\ \A n \in 1 .. MaxNesting : SF_vars(Handler /\ Len(frames[cur]) = n)

Spec == Init /\ [][Next]_vars
FairSpec == Spec /\ Fairness

-----------------------------------------------------------------------------

\* A frame that has an EOI of its own ahead, before it runs the dispatcher.
Unacknowledged(f) == f.at \in {"dispatch", "count", "ack", "eoi"}

\* What is in service has a handler on some stack that has not acknowledged yet.
\* For the clock and the device, whose classes hold up the clock, that handler is on
\* the stack that runs, whatever was switched in between, and it has not lost its
\* interrupt to anyone; a handler of the timer may have (Interrupt.cpp 48-52,
\* Clock.cpp 20-26).
InServiceIsCurrent ==
  LET serves(c, v) == \E i \in DOMAIN frames[c] :
        frames[c][i].vec = v /\ Unacknowledged(frames[c][i])
      blocksClock(v) == v \in {CLOCK_IRQ, DeviceIRQ}
  IN  /\ \A v \in isr : \E c \in Context : serves(c, v)
      /\ \A v \in isr : blocksClock(v) => serves(cur, v)
      /\ \A c \in Context : \A v \in {CLOCK_IRQ, DeviceIRQ} :
           serves(c, v) => c = cur /\ v \in isr

\* An acknowledgement ends nothing of the clock or the device but the interrupt of
\* the handler that sends it, which has sent none before.  So what the second one
\* of a tick, and that of a system call, a fault or a resumed context, can end is
\* the timer's interrupt at most, which it does when its handler was interrupted
\* and has not acknowledged: that lets the timer in again earlier, and does not
\* hold up the clock (Interrupt.cpp 52, Clock.cpp 25).
AcknowledgesItsOwn ==
  [][\A v \in isr \ isr' :
       v # TimerIRQ => v = Top.vec /\ Top.at \in {"ack", "eoi"}]_vars

\* The clock's handler finds a processor in the list: it does not check for
\* nullptr, and interrupts are on before there is one (Clock.cpp 23).
ClockFindsProcessor ==
  \A c \in Context : \A i \in DOMAIN frames[c] :
    frames[c][i].at \in {"count", "ack", "run"} => hasCPU

\* If the clock's pin leads to this processor, the clock ticks for ever, however
\* handlers nest and contexts switch in the middle of them (CPUManager.cpp 76).
TicksKeepComing == <>[](ClockPin \in routed) => []<><<ClockCount>>_vars
=============================================================================
