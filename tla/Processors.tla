----------------------------- MODULE Processors -----------------------------
(***************************************************************************)
(* The start of the other processors (APCI::InitAPs, LocalAPIC::InitAPs,   *)
(* the code in Boot.S).  For each processor that the firmware lists the    *)
(* boot processor writes a stack into the image of the start-up code,      *)
(* waits for the processor before to lower a flag, copies the code to low  *)
(* memory and sends INIT and twice SIPI.  The processor takes the stack    *)
(* from the copy and lowers the flag in the original.                      *)
(*                                                                         *)
(* The entry and the stack's size are the same for every processor and are *)
(* left out, like the segments the copy sets up.  Ticks matter to the      *)
(* waits only: at other times they would move the counter, which starts at *)
(* any of Counters.                                                        *)
(***************************************************************************)
EXTENDS ACPI, FiniteSets

CONSTANTS Processor, \* ids of processors
          Firmware,  \* what the firmware's memory may hold
          Areas,     \* the two areas FindRSDP searches
          Word,      \* 2^32
          Period,    \* what a tick adds to the counter
          InitWait,  \* 10000, the wait after INIT
          StartWait, \* 200, the wait after each SIPI
          Counters   \* values of the counter at the call

ASSUME WaitAssumption ==
  /\ {Word, Period} \subseteq Nat \ {0}
  /\ {InitWait, StartWait} \subseteq Nat
  /\ Counters \subseteq Nat

VARIABLES firmware, \* the firmware's memory
          present,  \* the processors that are really there
          pc,       \* where the boot processor is
          n,        \* the processor it starts, by its place in the table
          original, \* the stack and flag in the image
          copy,     \* the same in low memory
          counter,  \* Clock::usCounter
          since,    \* the counter when the wait began
          ap,       \* [Processor -> what it does]
          stack,    \* [Processor -> the stack it runs on, 0 if none]
          initAt    \* [Processor -> the counter when it got INIT]

bspVars == <<firmware, present, pc, n, copy, since>>
apVars == <<ap, stack, initAt>>
startVars == <<bspVars, original, counter, apVars>>

-----------------------------------------------------------------------------
(* What the tables say.                                                    *)

Madt == FindEntry(firmware, Areas, "APIC")

\* The n-th local APIC of the table; the boot processor is number 0.
StructOf(i) == FindIntrCtrlStructInMADT(firmware[Madt], 0, i)
Target == firmware[Madt].structs[StructOf(n)].id

StartInit ==
  /\ firmware \in Firmware
  /\ present \in SUBSET Processor
  /\ pc = "search"
  /\ n = 0
  /\ original = [stack |-> 0, flag |-> 0]
  /\ copy = [stack |-> 0, flag |-> 0]
  /\ counter \in Counters
  /\ since = 0
  /\ ap = [p \in Processor |-> "off"]
  /\ stack = [p \in Processor |-> 0]
  /\ initAt = [p \in Processor |-> 0]

-----------------------------------------------------------------------------
(* Clock::KernelWait.                                                      *)

\* Faulty variant: the wait ends when the counter is where it began.
WaitIsOverAtOnce(us) == counter >= since % Word

\* It waits while a 32-bit sum of the counter's low half and the time is above
\* the 64-bit counter.
WaitIsOver(us) == ((since % Word) + us) % Word <= counter

Waiting == CASE pc = "initWait" -> InitWait
             [] pc \in {"sipiWait", "lastWait"} -> StartWait
             [] OTHER -> 0

Tick ==
  /\ pc \in {"initWait", "sipiWait", "lastWait"}
  /\ ~WaitIsOver(Waiting)
  /\ counter' = counter + Period
  /\ UNCHANGED <<bspVars, original, apVars>>

-----------------------------------------------------------------------------
(* The boot processor.                                                     *)

\* APCI::InitAPs: the next processor of the table, whether enabled or not, gets
\* a stack of its own.
Search ==
  /\ pc = "search"
  /\ n' = n + 1
  /\ IF Madt = Nowhere
     THEN pc' = "returned"
     ELSE pc' = IF StructOf(n') = Nowhere THEN "returned" ELSE "write"
  /\ UNCHANGED <<firmware, present, original, copy, counter, since, apVars>>

WriteStack ==
  /\ pc = "write"
  /\ original' = [original EXCEPT !.stack = n]
  /\ pc' = "flag"
  /\ UNCHANGED <<firmware, present, n, copy, counter, since, apVars>>

\* Faulty variant: the flag of the processor before is not waited for.
RaiseFlagAtOnce ==
  /\ pc = "flag"
  /\ original' = [original EXCEPT !.flag = 1]
  /\ pc' = "copy"
  /\ UNCHANGED <<firmware, present, n, copy, counter, since, apVars>>

RaiseFlag ==
  /\ pc = "flag"
  /\ original.flag = 0
  /\ original' = [original EXCEPT !.flag = 1]
  /\ pc' = "copy"
  /\ UNCHANGED <<firmware, present, n, copy, counter, since, apVars>>

CopyAndInit ==
  /\ pc = "copy"
  /\ copy' = original
  /\ ap' = IF Target \in present /\ ap[Target] = "off"
           THEN [ap EXCEPT ![Target] = "init"] ELSE ap
  /\ initAt' = [initAt EXCEPT ![Target] = counter]
  /\ since' = counter
  /\ pc' = "initWait"
  /\ UNCHANGED <<firmware, present, n, original, counter, stack>>

\* A processor that waits for a SIPI starts; one that has started ignores it.
Sipi(from, to) ==
  /\ pc = from
  /\ WaitIsOver(Waiting)
  /\ ap' = IF ap[Target] = "init" THEN [ap EXCEPT ![Target] = "started"] ELSE ap
  /\ since' = counter
  /\ pc' = to
  /\ UNCHANGED <<firmware, present, n, original, copy, counter, stack, initAt>>

LastWait ==
  /\ pc = "lastWait"
  /\ WaitIsOver(Waiting)
  /\ pc' = "search"
  /\ UNCHANGED <<firmware, present, n, original, copy, counter, since, apVars>>

InitAPs ==
  \/ Search \/ WriteStack \/ RaiseFlag \/ CopyAndInit
  \/ Sipi("initWait", "sipiWait") \/ Sipi("sipiWait", "lastWait") \/ LastWait

-----------------------------------------------------------------------------
(* Another processor runs the copy.                                        *)

TakeStack(p) ==
  /\ ap[p] = "started"
  /\ stack' = [stack EXCEPT ![p] = copy.stack]
  /\ ap' = [ap EXCEPT ![p] = "hasStack"]
  /\ UNCHANGED <<bspVars, original, counter, initAt>>

\* Faulty variant: the flag in the copy is lowered.
LowerOwnFlag(p) ==
  /\ ap[p] = "hasStack"
  /\ copy' = [copy EXCEPT !.flag = 0]
  /\ ap' = [ap EXCEPT ![p] = "runs"]
  /\ UNCHANGED <<firmware, present, pc, n, since, original, counter, stack, initAt>>

\* "remember to change the flag at the original address" (Boot.S 117).
LowerFlag(p) ==
  /\ ap[p] = "hasStack"
  /\ original' = [original EXCEPT !.flag = 0]
  /\ ap' = [ap EXCEPT ![p] = "runs"]
  /\ UNCHANGED <<bspVars, counter, stack, initAt>>

StartNext ==
  \/ Tick \/ InitAPs
  \/ \E p \in Processor : TakeStack(p) \/ LowerFlag(p)

StartFairness ==
  /\ WF_startVars(Tick) /\ WF_startVars(InitAPs)
  /\ \A p \in Processor : WF_startVars(TakeStack(p)) /\ WF_startVars(LowerFlag(p))

StartSpec == StartInit /\ [][StartNext]_startVars
StartFairSpec == StartSpec /\ StartFairness

-----------------------------------------------------------------------------

\* Processors run on different stacks, each on the one that was made for it,
\* although all take it from the same word (LocalAPCI.cpp 164-171).
OwnStack ==
  \A p, q \in Processor :
    /\ stack[p] # 0 => firmware[Madt].structs[StructOf(stack[p])].id = p
    /\ stack[p] # 0 /\ stack[p] = stack[q] => p = q

\* What the firmware lists, by its own account: the local APICs of the table of
\* an intact list, in their order.
Listed ==
  LET lists == {a \in DOMAIN firmware : firmware[a].sig = "list" /\ firmware[a].ok}
      madts == {a \in DOMAIN firmware : firmware[a].sig = "APIC" /\ firmware[a].ok}
      locals(a) == {o \in DOMAIN firmware[a].structs : firmware[a].structs[o].type = 0}
  IN  IF lists = {} \/ madts = {} THEN {}
      ELSE LET a == CHOOSE x \in madts : \A y \in madts : x <= y
           IN  {firmware[a].structs[o].id : o \in locals(a) \ {Min(locals(a))}}

\* The structures of a table fill it one after the other.
FollowEachOther(madt) ==
  LET places == DOMAIN madt.structs
      next(o) == o + madt.structs[o].len
  IN  /\ madt.length \in Nat
      /\ places \subseteq 0 .. madt.length - 1
      /\ \A o \in places : madt.structs[o].len \in Nat \ {0}
      /\ 0 < madt.length => 0 \in places
      /\ \A o \in places : next(o) < madt.length => next(o) \in places
      /\ \A o \in places \ {0} : \E q \in places : o = next(q)

\* Intact tables of a firmware are where the specification of ACPI has them: the
\* root names the lists, each list names the table of interrupt controllers, and
\* there is at most one of these.  Any table may be damaged.
Sound(f) ==
  LET root == FindRSDP(f, Areas)
      intact(sig) == {a \in DOMAIN f : f[a].sig = sig /\ f[a].ok}
  IN  /\ DOMAIN f \subseteq Nat \ {0}
      /\ root # Nowhere => \A a \in {f[root].rsdt, f[root].xsdt} \ {0} :
           a \in DOMAIN f /\ f[a].sig = "list" /\ f[a].entries \in Seq(DOMAIN f)
      /\ \A a \in intact("list") :
           /\ root # Nowhere /\ a \in {f[root].rsdt, f[root].xsdt}
           /\ \A t \in intact("APIC") : \E i \in DOMAIN f[a].entries : f[a].entries[i] = t
      /\ \A t, u \in intact("APIC") : t = u
      /\ \A t \in intact("APIC") : FollowEachOther(f[t])

\* When InitAPs has returned, the processors the firmware lists next to the boot
\* processor were started, the absent ones aside, and no others (APCI.cpp 275-280).
StartsTheOthers ==
  pc = "returned" =>
    {p \in Processor : ap[p] # "off"} = Listed \intersect present

\* InitAPs returns, unless a processor other than the last is listed but absent:
\* the flag a processor lowers is waited for by the next one (Boot.S 117-119).
InitAPsReturns ==
  (\A i \in 1 .. Cardinality(Listed) - 1 :
     firmware[Madt].structs[StructOf(i)].id \in present) => <>(pc = "returned")

\* A processor gets its first SIPI no earlier than the wait after its INIT asks
\* for, as long as the clock's counter fits in a word (Clock.cpp 115-121).
SipiComesLater ==
  [][\A p \in Processor :
       ap[p] = "init" /\ ap'[p] = "started" /\ initAt[p] + InitWait < Word =>
         counter >= initAt[p] + InitWait]_startVars
=============================================================================
