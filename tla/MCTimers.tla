------------------------------ MODULE MCTimers ------------------------------
(***************************************************************************)
(* The software timers, and the clock with the timer interrupt, for TLC.   *)
(* LosSwtmr has time in ticks and takes it that a tick comes; LosExpire    *)
(* shows why it does, in cycles.  They share no state: every behaviour is  *)
(* one of either, kind is chosen at the start and stays.                   *)
(***************************************************************************)
EXTENDS LosSwtmr, LosExpire

CONSTANTS w1, w2

Timers2 == {w1, w2}

Periods == Precision .. PeriodMax

VARIABLE kind
timersVars == <<swtmrVars, tickVars, expireVars, kind>>

TimersInit ==
    /\ SwtmrInit /\ ExpireInit
    /\ kind = "expire" \/ (kind = "swtmr" /\ run = IdleTask)

TimersNext ==
    /\ UNCHANGED kind
    /\ \/ kind = "swtmr" /\ SwtmrNext /\ UNCHANGED <<tickVars, expireVars>>
       \/ kind = "expire" /\ ExpireNext /\ UNCHANGED swtmrVars

TimersSpec == TimersInit /\ [][TimersNext]_timersVars

\* What the behaviour uses, the software timers or the clock with its interrupt, keeps its
\* type, and response times their bounds.
TimersTypeOK == IF kind = "swtmr" THEN SwtmrTypeOK ELSE ExpireTypeOK

TimerSymmetry == Permutations(Timer)

=============================================================================
