------------------------------ MODULE TctTime ------------------------------
(***************************************************************************)
(* How lib/tinycthread turns a point in time into a time to wait.  Time is *)
(* [sec, nsec]; a second has NsecPerSec units here and a millisecond       *)
(* NsecPerMs of them, so that every remainder occurs.  A timed call waits  *)
(* as long as it computed and no thread gives it what it waits for.        *)
(***************************************************************************)
EXTENDS Integers

CONSTANTS
    Calls,          \* which of the calls below are made
    NsecPerMs, MsPerSec,
    Seconds,        \* bound on the clock
    PollMs          \* how long the polling lock sleeps at most: 5 in the code,
                    \* so less than a second, which it does not check

TctTimeAssumption ==
    /\ Calls \subseteq {"mtx_timedlock_win32", "mtx_timedlock_polling",
                    "cnd_timedwait", "thrd_sleep"}
    /\ NsecPerMs \in Nat \ {0} /\ MsPerSec \in Nat \ {0}
    /\ Seconds \in Nat /\ PollMs \in 1 .. MsPerSec

NsecPerSec == NsecPerMs * MsPerSec
Timespec == [sec : 0 .. Seconds, nsec : 0 .. NsecPerSec - 1]
Instant(ts) == ts.sec * NsecPerSec + ts.nsec
TimespecOf(instant) == [sec |-> instant \div NsecPerSec, nsec |-> instant % NsecPerSec]

VARIABLES
    call,       \* the function called
    ts,         \* the point in time it is given, or that its duration reaches
    start,      \* the clock when it was called
    now,        \* the clock, in units
    sleep,      \* how long the call sleeps now, in units
    remaining,  \* *remaining of an interrupted thrd_sleep, in units
    pc          \* "compute", "asleep", "thrd_timedout" or "interrupted"

vars == <<call, ts, start, now, sleep, remaining, pc>>

Init ==
    /\ call \in Calls /\ ts \in Timespec
    /\ now \in 0 .. Seconds * NsecPerSec
    /\ start = now /\ sleep = 0 /\ remaining = 0 /\ pc = "compute"
    /\ call = "thrd_sleep" => Instant(ts) >= now

\* Division in C rounds towards zero.
Quotient(a, b) == IF a >= 0 THEN a \div b ELSE -((-a) \div b)

Passed(cur) == cur.sec > ts.sec \/ (cur.sec = ts.sec /\ cur.nsec >= ts.nsec)

\* Mutant: no millisecond is added for the remainder.
TimedlockTimeoutShort(cur) ==
    IF Passed(cur) THEN 0
    ELSE (ts.sec - cur.sec) * MsPerSec + Quotient(ts.nsec - cur.nsec, NsecPerMs)

TimedlockTimeout(cur) ==
    IF Passed(cur) THEN 0
    ELSE (ts.sec - cur.sec) * MsPerSec + Quotient(ts.nsec - cur.nsec, NsecPerMs) + 1

Milliseconds(t) == t.sec * MsPerSec + t.nsec \div NsecPerMs

TimedwaitTimeout(cur) ==
    IF Milliseconds(ts) > Milliseconds(cur) THEN Milliseconds(ts) - Milliseconds(cur) ELSE 0

Duration(cur) ==
    LET sec == ts.sec - cur.sec
        nsec == ts.nsec - cur.nsec
    IN  IF nsec < 0 THEN [sec |-> sec - 1, nsec |-> nsec + NsecPerSec]
        ELSE [sec |-> sec, nsec |-> nsec]

PollSleep(cur) ==
    LET dur == Duration(cur)
    IN  IF dur.sec # 0 \/ dur.nsec > PollMs * NsecPerMs THEN PollMs * NsecPerMs ELSE dur.nsec

\* Of thrd_sleep on Windows: a part of a millisecond counts as one.
SleepMs(duration) ==
    duration.sec * MsPerSec + duration.nsec \div NsecPerMs
        + IF duration.nsec % NsecPerMs = 0 THEN 0 ELSE 1

Asleep(time) == pc' = "asleep" /\ sleep' = time /\ UNCHANGED <<call, ts, start, now, remaining>>

Compute ==
    LET cur == TimespecOf(now)
    IN  /\ pc = "compute"
        /\ \/ call = "mtx_timedlock_win32" /\ Asleep(TimedlockTimeout(cur) * NsecPerMs)
           \/ call = "cnd_timedwait" /\ Asleep(TimedwaitTimeout(cur) * NsecPerMs)
           \/ /\ call = "thrd_sleep"
              /\ Asleep(SleepMs(TimespecOf(Instant(ts) - now)) * NsecPerMs)
           \/ /\ call = "mtx_timedlock_polling" /\ ~Passed(cur)
              /\ Asleep(PollSleep(cur))
           \/ /\ call = "mtx_timedlock_polling" /\ Passed(cur)
              /\ pc' = "thrd_timedout" /\ UNCHANGED <<call, ts, start, now, sleep, remaining>>

Tick ==
    /\ pc = "asleep" /\ sleep > 0
    /\ sleep' = sleep - 1 /\ now' = now + 1
    /\ UNCHANGED <<call, ts, start, remaining, pc>>

\* SleepEx returns for an I/O completion: what is stored is now - start.
Interrupt ==
    /\ pc = "asleep" /\ sleep > 0 /\ call = "thrd_sleep"
    /\ pc' = "interrupted" /\ remaining' = now - start
    /\ UNCHANGED <<call, ts, start, now, sleep>>

\* The polling lock looks at the clock again.
Awake ==
    /\ pc = "asleep" /\ sleep = 0
    /\ pc' = IF call = "mtx_timedlock_polling" THEN "compute" ELSE "thrd_timedout"
    /\ UNCHANGED <<call, ts, start, now, sleep, remaining>>

Next == Compute \/ Tick \/ Interrupt \/ Awake
Spec == Init /\ [][Next]_vars

-----------------------------------------------------------------------------
(* What tinycthread.h says of mtx_timedlock, cnd_timedwait and thrd_sleep:  *)
(* they do not end before the specified time (cnd_timedwait, which counts   *)
(* in whole milliseconds, may by a part of one), unless a sleep is          *)
(* interrupted - nor more than two milliseconds after it, and the polling   *)
(* lock does not sleep past it at all.                                      *)
OnTime ==
    /\ pc = "thrd_timedout" =>
          now > Instant(ts) - IF call = "cnd_timedwait" THEN NsecPerMs ELSE 1
    /\ pc = "asleep" /\ sleep > 0 =>
          now + sleep - Instant(ts) <= IF call = "mtx_timedlock_polling" THEN 0 ELSE 2 * NsecPerMs

(* What tinycthread.h says of thrd_sleep: remaining holds the time that is *)
(* left until the end of an interrupted sleep.                             *)
RemainingIsLeft == pc = "interrupted" => remaining = Instant(ts) - now

=============================================================================
