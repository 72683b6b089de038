------------------------------ MODULE LosTick ------------------------------
(***************************************************************************)
(* The system's clock (kernel/src/los_tick.c): a count of cycles that is   *)
(* put together from the SysTick counter, which wraps at every tick and is *)
(* set anew for every deadline (arch/arm/cortex-m4/gcc/los_timer.c), and a *)
(* base that the tick interrupt moves on.  Whoever reads the clock between *)
(* the wrap and the tick interrupt moves the base on itself.               *)
(***************************************************************************)
EXTENDS Integers

CONSTANTS
    Period,         \* the periods that the counter is set to, in cycles
    MaxReal,        \* bound of the true time
    ReloadPending,  \* is the counter set anew while a tick is pending?
    ReadNested      \* is the clock read by an interrupt in the tick handler?

ASSUME TickAssumption ==
    /\ Period \subseteq Nat \ {0, 1} /\ MaxReal \in Nat
    /\ ReloadPending \in BOOLEAN /\ ReadNested \in BOOLEAN

VARIABLES
    load,       \* SysTick->LOAD: the counter wraps every load + 1 cycles
    pos,        \* the cycles since it was last zero
    pending,    \* the tick interrupt is pending
    handler,    \* where the tick interrupt is: before it moves the base on ("add"),
                \* before it clears the mark ("clear"), after OsUpdateSysTimeBase ("sched")
    base,       \* g_tickTimerBase
    old,        \* g_oldTickTimerBase: what was read last
    updated,    \* g_tickTimerBaseUpdate
    failed,     \* the assertion of LOS_SysCycleGet failed
    real        \* history: the true time, less the cycle in which the counter is
                \* loaded, once in every period: the code does not count that one

tickVars == <<load, pos, pending, handler, base, old, updated, failed, real>>

TickInit ==
    /\ load \in {n - 1 : n \in Period}
    /\ pos = 0 /\ pending = FALSE /\ handler = "none"
    /\ base = 0 /\ old = 0 /\ updated = FALSE /\ failed = FALSE
    /\ real = 0

\* The counter counts down from load, which it shows one cycle after zero.
SysTickCycleGet == IF pos = 0 THEN 0 ELSE pos - 1

-----------------------------------------------------------------------------
(* The hardware. *)

\* Bound: a tick is over before the next one.
Cycle ==
    /\ real < MaxReal
    /\ pos = load => ~pending /\ handler = "none"
    /\ real' = IF pos = 0 THEN real ELSE real + 1
    /\ pos' = IF pos = load THEN 0 ELSE pos + 1
    /\ pending' = (pending \/ pos = load)
    /\ UNCHANGED <<load, handler, base, old, updated, failed>>

-----------------------------------------------------------------------------
(* OsTickHandler: OsUpdateSysTimeBase does not lock interrupts.            *)

\* MUTATION: a base that a reader has moved on is moved on again.
Always_MustAdd == TRUE

MustAdd == ~updated

TickHandlerChecks ==
    /\ pending /\ handler = "none"
    /\ pending' = FALSE /\ handler' = IF MustAdd THEN "add" ELSE "clear"
    /\ UNCHANGED <<load, pos, base, old, updated, failed, real>>

TickHandlerAdds ==
    /\ handler = "add" /\ handler' = "clear"
    /\ base' = base + load
    /\ UNCHANGED <<load, pos, pending, old, updated, failed, real>>

TickHandlerClears ==
    /\ handler = "clear" /\ handler' = "sched"
    /\ updated' = FALSE
    /\ UNCHANGED <<load, pos, pending, base, old, failed, real>>

-----------------------------------------------------------------------------
(* LOS_SysCycleGet and OsTickTimerReload lock interrupts. *)

\* MUTATION: a wrap of the counter is not looked for.
Never_Wrapped == FALSE

\* The counter is behind what was read last: it must have wrapped.
Wrapped == base + SysTickCycleGet < old

BaseNow == IF Wrapped THEN base + load ELSE base
Now == BaseNow + SysTickCycleGet

\* What a read of the clock leaves behind.
Remember ==
    /\ old' = Now
    /\ updated' = (updated \/ Wrapped)
    /\ failed' = (failed \/ Now < old)

LOS_SysCycleGet == base' = BaseNow /\ Remember /\ UNCHANGED <<load, pos>>

\* The clock is read, and the counter starts at zero.  A pending tick stays pending:
\* NVIC_ClearPendingIRQ has no bit for the SysTick (firmware/CMSIS/core_cm4.h:1538).
OsTickTimerReload(n) == base' = Now /\ Remember /\ load' = n - 1 /\ pos' = 0

MayRead == handler \in {"none", "sched"} \/ ReadNested

\* A task or an interrupt handler reads the clock.
Read ==
    /\ MayRead /\ LOS_SysCycleGet
    /\ UNCHANGED <<pending, handler, real>>

\* The scheduler sets the counter anew, at a context switch or for a new deadline.
Reload(n) ==
    /\ MayRead /\ (pending \/ handler \in {"add", "clear"} => ReloadPending)
    /\ OsTickTimerReload(n)
    /\ UNCHANGED <<pending, handler, real>>

\* LOS_SchedTickHandler reads the clock, and may set the counter anew.
TickHandlerSchedules ==
    /\ handler = "sched" /\ handler' = "none"
    /\ LOS_SysCycleGet \/ \E n \in Period : OsTickTimerReload(n)
    /\ UNCHANGED <<pending, real>>

TickNext ==
    \/ Cycle
    \/ TickHandlerChecks \/ TickHandlerAdds \/ TickHandlerClears \/ TickHandlerSchedules
    \/ Read
    \/ \E n \in Period : Reload(n)

TickSpec == TickInit /\ [][TickNext]_tickVars

-----------------------------------------------------------------------------
(* Correctness. *)

\* Every variable keeps its type.
TickTypeOK ==
    /\ load \in {n - 1 : n \in Period} /\ pos \in 0 .. load
    /\ pending \in BOOLEAN /\ handler \in {"none", "add", "clear", "sched"}
    /\ base \in Nat /\ old \in Nat /\ updated \in BOOLEAN /\ failed \in BOOLEAN
    /\ real \in Nat

\* The clock never goes back: the assertion in LOS_SysCycleGet (los_tick.c:106) holds
\* whoever moves the base on, and whenever the counter is set anew.
ClockNeverGoesBack == ~failed

\* When no tick is due the clock shows the true time: no period is lost, and none is
\* added twice, though both the tick handler and the readers add it.  It fails if the
\* counter is set anew while a tick is pending (ReloadPending).
ClockKeepsUp ==
    ~pending /\ handler \in {"none", "sched"} => real = base + SysTickCycleGet

=============================================================================
