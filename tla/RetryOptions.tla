---------------------------- MODULE RetryOptions ----------------------------
(***************************************************************************)
(* The arithmetic of retries: Options.WithDefaults (pkg/task/options.go),  *)
(* TimerRate (pkg/util/rate.go) and the backoff of tryRetry                *)
(* (pkg/task/work_retry.go:130-135).                                       *)
(*                                                                         *)
(* Durations are integers of milliseconds and RetryBackoffScale an integer *)
(* of tenths.  float64 arithmetic that is truncated to an integer in the   *)
(* code is integer division here.  A task in a pipe is launched with the   *)
(* options its parent's worker already has defaults in (work_must.go:53-57),*)
(* so the state machine applies WithDefaults once per level of nesting.    *)
(***************************************************************************)
EXTENDS Integers

CONSTANTS Counts, Periods, Durations, Scales,  \* what a manifest may say
          MaxDepth                             \* bound on the nesting of pipes

ASSUME ManifestAssumption ==
    /\ Counts \subseteq Nat
    /\ Periods \subseteq Nat
    /\ Durations \subseteq Int
    /\ Scales \subseteq Int
    /\ MaxDepth \in Nat

VARIABLES given,   \* the options of the manifest
          opts,    \* the options at the current level
          depth    \* how often NewWorker has applied the defaults

optionsVars == <<given, opts, depth>>

Second == 1000
Minute == 60 * Second
Hour == 60 * Minute

AtLeast(x, lo) == IF x < lo THEN lo ELSE x
AtMost(x, hi) == IF x > hi THEN hi ELSE x
Clamped(x, lo, hi) == AtLeast(AtMost(x, hi), lo)

Rate(count, period) == [count |-> count, period |-> period]

\* As the code has it: the old period over the new one.
Rescale(r, period) == Rate((r.count * r.period) \div period, period)

ClampPeriod(r, pmin, pmax) == Rate(r.count, Clamped(r.period, pmin, pmax))

Clamp(r, rateMin, rateMax) ==
    Rate(Clamped(r.count, Rescale(rateMin, r.period).count, Rescale(rateMax, r.period).count),
         r.period)

MaxRate == Rate(10, 30 * Second)

\* Faulty variant: the period is not clamped before rates are compared.
DefaultLimitAnyPeriod(r) ==
    IF r.period = 0 THEN MaxRate ELSE Clamp(r, Rate(0, Second), MaxRate)

DefaultLimit(r) ==
    IF r.period = 0 THEN MaxRate
    ELSE Clamp(ClampPeriod(r, 30 * Second, Hour), Rate(0, Second), MaxRate)

\* Faulty variant: a missing minimum uptime defaults to the backoff.
WithDefaultsUptime(o) ==
    [limit |-> DefaultLimit(o.limit),
     scale |-> IF o.scale <= 0 THEN 20 ELSE o.scale,
     backoff |-> AtLeast(o.backoff, 500),
     stopTimeout |-> IF o.stopTimeout > 0 THEN Clamped(o.stopTimeout, 250, 30 * Second)
                     ELSE 5 * Second,
     minUptime |-> IF o.minUptime > 0 THEN o.minUptime ELSE o.backoff]

WithDefaults(o) ==
    [limit |-> DefaultLimit(o.limit),
     scale |-> IF o.scale <= 0 THEN 20 ELSE o.scale,
     backoff |-> AtLeast(o.backoff, 500),
     stopTimeout |-> IF o.stopTimeout > 0 THEN Clamped(o.stopTimeout, 250, 30 * Second)
                     ELSE 5 * Second,
     minUptime |-> AtLeast(o.minUptime, 0)]

\* t * (0.5 + r*r) * scale with r = (counter-1)/count clamped to 0..1, which it
\* is for every counter tryRetry gets this far with.
Backoff(o, counter) ==
    LET n == Clamped(counter - 1, 0, o.limit.count)
        c == o.limit.count
    IN  (o.backoff * o.scale * (c * c + 2 * n * n)) \div (20 * c * c)

-----------------------------------------------------------------------------
Options == [limit : {Rate(c, p) : c \in Counts, p \in Periods},
            scale : Scales, backoff : Durations,
            stopTimeout : Durations, minUptime : Durations]

OptionsInit ==
    /\ given \in Options
    /\ opts = given
    /\ depth = 0

NewWorker ==
    /\ depth < MaxDepth
    /\ depth' = depth + 1
    /\ opts' = WithDefaults(opts)
    /\ UNCHANGED given

Done == depth = MaxDepth /\ UNCHANGED optionsVars

OptionsNext == NewWorker \/ Done

OptionsSpec == OptionsInit /\ [][OptionsNext]_optionsVars

-----------------------------------------------------------------------------
(* Properties *)

\* Defaults applied to options that already have them change nothing, so a task
\* deep inside pipes runs under the options of the manifest's main task.
DefaultsAreStable == [][depth > 0 => opts' = opts]_optionsVars

\* Whatever a manifest says, a worker's stop timeout is positive and bounded
\* (the zero-timeout branches of signalStop are dead code), and on average no
\* more than ten retries per thirty seconds are allowed, over periods between
\* thirty seconds and an hour.
WorkersAreBounded ==
    depth > 0 =>
        /\ opts.stopTimeout \in 250 .. 30 * Second
        /\ opts.limit.period \in 30 * Second .. Hour
        /\ opts.limit.count * MaxRate.period <= MaxRate.count * opts.limit.period

\* Successive retries within one period wait no less than the one before, from
\* half to one and a half times the scaled backoff, and not zero by default.
BackoffGrows ==
    depth > 0 =>
        \A n \in 1 .. opts.limit.count :
            /\ Backoff(opts, n) * 20 <= 3 * opts.backoff * opts.scale
            /\ (Backoff(opts, n) + 1) * 20 > opts.backoff * opts.scale
            /\ n > 1 => Backoff(opts, n) >= Backoff(opts, n - 1)

\* The retries of a worker whose manifest says what it likes (options.go, rate.go, work_retry.go:130-135).
RetriesAreBounded == WorkersAreBounded /\ BackoffGrows
=============================================================================
