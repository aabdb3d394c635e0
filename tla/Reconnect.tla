----------------------------- MODULE Reconnect -----------------------------
(***************************************************************************)
(* Connect with retry (norves-bridge-editor-client, reconnect.rs): the     *)
(* backoff arithmetic, the loop that dials until a budget is spent, and    *)
(* the ReconnectManager that replaces one dispatcher by the next.          *)
(*                                                                         *)
(* Durations are natural numbers of a unit (the code's nanosecond); u64    *)
(* arithmetic wraps at 2^BoWord.  A caller may keep clones of a handle, so *)
(* a dispatcher lives until it is shut down or its peer closes.            *)
(***************************************************************************)
EXTENDS Naturals, Sequences, FiniteSets, FiniteSetsExt

CONSTANTS
    BoWord,         \* the width of the code's u64
    BoConfigs,      \* RetryConfig values callers use
    BoDialTimes,    \* how long one connect attempt may take
    BoLate,         \* how late a timer may fire
    BoMaxDials      \* reconnect() calls of a behaviour

BoDurationFields == {"initial_backoff", "max_backoff", "max_elapsed"}

ASSUME BoAssumption ==
    /\ BoWord \in Nat \ {0} /\ BoMaxDials \in Nat \ {0} /\ 2^BoWord \in Nat \ {0}
    /\ BoDialTimes \subseteq Nat /\ BoLate \subseteq Nat
    /\ \A c \in BoConfigs :
        /\ \A f \in BoDurationFields : c[f] \in Nat
        /\ c.jitter \in BOOLEAN
        \* nanos + 1 does not overflow: quarters are below 584 years.
        /\ c.max_backoff \div 4 < 2^BoWord - 1

VARIABLES
    boPhase,     \* "idle", "stopping", "dialling", "sleeping", "connected", "timedOut", "dropped"
    boCfg,       \* the manager's RetryConfig
    boStart,     \* when connect_with_retry was called
    boNow,       \* the clock
    boWake,      \* when the sleep ends
    boBackoff,   \* the local variable backoff
    boAttempt,   \* the local variable attempt
    boSlept,     \* history: base and length of the last two sleeps, before the clamp to the budget
    boHandle,    \* ReconnectManager.handle: {} or one dispatcher
    boOld,       \* the handle reconnect() took: {} or one dispatcher
    boLive,      \* dispatchers that run
    boStray,     \* history: dispatchers whose shutdown() call was dropped
    boDials      \* reconnect() calls so far

boLoop == <<boStart, boNow, boWake, boBackoff, boAttempt, boSlept>>
boManager == <<boHandle, boOld, boLive, boStray, boDials>>
boVars == <<boPhase, boCfg, boLoop, boManager>>

-----------------------------------------------------------------------------
(* The arithmetic.                                                         *)

\* A salt-derived part of the quarter window.
Jitter(base, salt) ==
    LET nanos == (base \div 4) % 2^BoWord
    IN  IF base \div 4 = 0 THEN 0
        ELSE ((((nanos * salt) % 2^BoWord) + salt) % 2^BoWord) % (nanos + 1)

NextBackoff(current, max, jitter, salt) ==
    LET base == Min({current, max})
    IN  IF jitter THEN Min({base + Jitter(base, salt), max + max \div 4}) ELSE base

\* The base of the next sleep.
Grown(backoff, max) == Min({2 * backoff, max})

-----------------------------------------------------------------------------
(* ReconnectManager::reconnect and connect_with_retry.                     *)

BoInit ==
    /\ boPhase = "idle" /\ boCfg \in BoConfigs
    /\ boStart = 0 /\ boNow = 0 /\ boWake = 0 /\ boBackoff = 0 /\ boAttempt = 0
    /\ boSlept = <<>>
    /\ boHandle = {} /\ boOld = {} /\ boLive = {} /\ boStray = {} /\ boDials = 0

\* The old handle is taken out of the manager and shut down.
TakeOld ==
    /\ boHandle' = {} /\ boOld' = boHandle
    /\ boPhase' = "stopping"

ReconnectCall ==
    /\ boPhase \in {"idle", "connected", "timedOut", "dropped"}
    /\ boDials < BoMaxDials /\ boDials' = boDials + 1
    /\ TakeOld
    /\ UNCHANGED <<boCfg, boLoop, boLive, boStray>>

\* shutdown() has returned: the task is gone.  The loop starts.
OldStopped ==
    /\ boPhase = "stopping"
    /\ boLive' = boLive \ boOld /\ boOld' = {}
    /\ boStart' = boNow /\ boBackoff' = boCfg.initial_backoff /\ boAttempt' = 0
    /\ boSlept' = <<>>
    /\ boPhase' = "dialling"
    /\ UNCHANGED <<boCfg, boNow, boWake, boHandle, boStray, boDials>>

DialSucceeds ==
    /\ boPhase = "dialling"
    /\ \E d \in BoDialTimes : boNow' = boNow + d
    /\ boLive' = boLive \cup {boDials} /\ boHandle' = {boDials}
    /\ boPhase' = "connected"
    /\ UNCHANGED <<boCfg, boStart, boWake, boBackoff, boAttempt, boSlept, boOld, boStray, boDials>>

\* Mutant of Clamped: the sleep is not cut to what is left of the budget.
ClampedNot(sleep, now, deadline) == sleep

\* The sleep never goes beyond the deadline.
Clamped(sleep, now, deadline) == Min({sleep, deadline - now})

LastTwo(s) == IF Len(s) > 2 THEN Tail(s) ELSE s

\* A failed attempt ends the loop at or over the budget and sleeps below it.
DialFails ==
    /\ boPhase = "dialling"
    /\ \E d \in BoDialTimes :
        LET now == boNow + d
            deadline == boStart + boCfg.max_elapsed
            sleep == NextBackoff(boBackoff, boCfg.max_backoff, boCfg.jitter, boAttempt + 1)
        IN  /\ boNow' = now
            /\ IF now >= deadline
               THEN boPhase' = "timedOut" /\ UNCHANGED <<boWake, boSlept>>
               ELSE /\ boPhase' = "sleeping"
                    /\ boWake' = now + Clamped(sleep, now, deadline)
                    /\ boSlept' = LastTwo(Append(boSlept,
                            [base |-> Min({boBackoff, boCfg.max_backoff}), sleep |-> sleep]))
    /\ boAttempt' = boAttempt + 1
    /\ UNCHANGED <<boCfg, boStart, boBackoff, boManager>>

\* The timer fires, at the earliest when it is due.
SleepEnds ==
    /\ boPhase = "sleeping"
    /\ \E l \in BoLate : boNow' = boWake + l
    /\ boBackoff' = Grown(boBackoff, boCfg.max_backoff)
    /\ boPhase' = "dialling"
    /\ UNCHANGED <<boCfg, boStart, boWake, boAttempt, boSlept, boManager>>

\* The caller drops the future of reconnect() while it waits.
CallDropped ==
    /\ boPhase \in {"stopping", "dialling", "sleeping"}
    /\ boStray' = boStray \cup boOld /\ boOld' = {}
    /\ boPhase' = "dropped"
    /\ UNCHANGED <<boCfg, boLoop, boHandle, boLive, boDials>>

\* The engine closes a connection: its dispatcher ends, the manager keeps the handle.
PeerHangsUp ==
    /\ \E d \in boLive : boLive' = boLive \ {d}
    /\ UNCHANGED <<boPhase, boCfg, boLoop, boHandle, boOld, boStray, boDials>>

BoNext ==
    \/ ReconnectCall \/ OldStopped \/ DialSucceeds \/ DialFails
    \/ SleepEnds \/ CallDropped \/ PeerHangsUp

BoSpec == BoInit /\ [][BoNext]_boVars

-----------------------------------------------------------------------------
(* Properties.                                                             *)

\* The base the documentation of RetryConfig gives for the n-th sleep:
\* initial_backoff, doubled after each failed attempt, up to max_backoff.
DocumentedBase(cfg, n) ==
    LET doubled[k \in Nat] == IF k = 0 THEN cfg.initial_backoff ELSE 2 * doubled[k - 1]
    IN  Min({doubled[n - 1], cfg.max_backoff})

\* Every sleep is the documented base of its attempt lengthened by at most a
\* quarter and never shortened, also where the u64 product wraps
\* (next_backoff and the growth in connect_with_retry).
SleepFollowsBackoff ==
    boPhase = "sleeping" =>
        LET base == DocumentedBase(boCfg, boAttempt)
        IN  boSlept[Len(boSlept)].sleep \in base..(base + base \div 4)

\* The time the first n sleeps take at least.
Paced(cfg, n) ==
    LET slept[k \in Nat] == IF k = 0 THEN 0 ELSE slept[k - 1] + DocumentedBase(cfg, k)
    IN  slept[n]

\* connect_with_retry neither spins nor oversleeps: a dial comes after all the
\* backoff its predecessors asked for, or at the deadline, and no sleep is
\* planned beyond the deadline.
RetriesArePaced ==
    /\ boPhase = "dialling" =>
        boNow - boStart >= Min({Paced(boCfg, boAttempt), boCfg.max_elapsed})
    /\ boPhase = "sleeping" => boWake <= boStart + boCfg.max_elapsed

\* "there is no overlap of two live dispatchers for the same logical session":
\* reconnect() ends the old one before it dials.  A dispatcher whose shutdown()
\* was dropped half way is nobody's any more and is not counted.
NoOverlap == Cardinality(boLive \ boStray) <= 1

\* Retrying keeps to its configuration, also at the edges of the arithmetic, and
\* one dispatcher at a time.
RetryKeepsItsPace == SleepFollowsBackoff /\ RetriesArePaced /\ NoOverlap

\* With jitter enabled each sleep is perturbed, by a different fraction each
\* attempt (documentation of RetryConfig and comment in next_backoff): two
\* sleeps in a row whose quarter window is not empty are not both exactly their base.
JitterSpreads ==
    boCfg.jitter /\ Len(boSlept) = 2 /\ (\A n \in 1..2 : boSlept[n].base >= 4)
        => \E n \in 1..2 : boSlept[n].sleep # boSlept[n].base
=============================================================================
