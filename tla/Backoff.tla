------------------------------- MODULE Backoff -------------------------------
(***************************************************************************)
(* The wait before a retry, Service.failed: BackoffBase doubled with each  *)
(* attempt, up to BackoffMax.  The code shifts a time.Duration, an integer *)
(* of 64 bits that loses its high bits and changes its sign on the way, so *)
(* the shift is modelled at its width.  What a job's attempts do to the    *)
(* rest of the system is in Outbox, which keeps of the wait only that it   *)
(* is over at some time.                                                   *)
(***************************************************************************)
EXTENDS Integers

CONSTANTS
    Width,       \* bits of a time.Duration: 64
    Bases, Caps, \* the values of BackoffBase and BackoffMax to choose from
    MaxAttempts  \* Config.MaxAttempts

\* The powers of 2, as a function: the provers know nothing of ^.
Pow2[k \in Nat] == IF k = 0 THEN 1 ELSE 2 * Pow2[k - 1]

\* The largest odd divisor.
OddPart(n) ==
    CHOOSE odd \in 1 .. n : odd % 2 = 1 /\ \E t \in 0 .. Width : n = odd * Pow2[t]

\* Base and cap are durations: positive, and with a bit to spare for the sign.
ASSUME DurationsAssumption ==
    /\ Width \in Nat \ {0}
    /\ \A d \in Bases \cup Caps : d \in Nat \ {0} /\ d < Pow2[Width - 1]
    /\ MaxAttempts \in Nat

VARIABLES
    base, cap,  \* Config.BackoffBase and Config.BackoffMax
    attempts,   \* the job's attempts
    wait        \* how far ahead its next_at was set, 0 for due at once

vars == <<base, cap, attempts, wait>>

Init ==
    /\ base \in Bases
    /\ cap \in Caps
    /\ attempts = 0
    /\ wait = 0

Signed(n) ==
    LET bits == n % Pow2[Width]
    IN  IF bits < Pow2[Width - 1] THEN bits ELSE bits - Pow2[Width]

Shifted(d, k) == Signed(d * Pow2[k])

\* Mutant of Delay: a shift that has become negative or 0 is taken as it is.
DelayUnchecked(a) ==
    LET d == Shifted(base, a - 1) IN IF d > cap THEN cap ELSE d

\* Mutant of Delay: the first wait is doubled already.
DelayOneAhead(a) ==
    LET d == Shifted(base, a) IN IF d > cap \/ d <= 0 THEN cap ELSE d

Delay(a) ==
    LET d == Shifted(base, a - 1) IN IF d > cap \/ d <= 0 THEN cap ELSE d

Failed ==
    /\ attempts < MaxAttempts
    /\ attempts' = attempts + 1
    /\ wait' = IF attempts' >= MaxAttempts THEN wait ELSE Delay(attempts')
    /\ UNCHANGED <<base, cap>>

\* Given up, and requeued by an operator.
Requeue ==
    /\ attempts = MaxAttempts
    /\ attempts' = 0
    /\ wait' = 0
    /\ UNCHANGED <<base, cap>>

Next == Failed \/ Requeue

Spec == Init /\ [][Next]_vars

Waiting == attempts \in 1 .. MaxAttempts - 1

\* A retry is never at once and never later than BackoffMax, whatever the shift
\* has come to: no job is hammered at the CRM, and none is put off for years.
WaitInBounds == Waiting => wait \in 1 .. cap

\* The base, doubled with each attempt but the first.
Doubled == base * Pow2[attempts - 1]

\* "Exponential backoff": as long as it fits into a duration, the wait is the
\* base doubled with each attempt but the first, or the cap.  A shift that has
\* lost bits may come back positive and below the cap, and so shorten the wait;
\* but it leaves no less of the doubled base than its powers of 2.
WaitDoubles ==
    Waiting => /\ Doubled < Pow2[Width - 1] =>
                      wait = IF Doubled > cap THEN cap ELSE Doubled
               /\ wait = cap \/ OddPart(base) * wait >= Doubled
==============================================================================
