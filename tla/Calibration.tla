---------------------------- MODULE Calibration ----------------------------
(* The clock behind the LATENCY line (include/nexus/core/rdtsc.hpp, POSIX):   *)
(* calibrate() reads the wall clock and the cycle counter, spins until an     *)
(* interval has passed, reads both again and keeps the ratio, with which      *)
(* main.cpp turns the cycles of a call into nanoseconds.  Time passes between *)
(* any two reads; the counter runs at a constant rate, but a thread that is   *)
(* not pinned may read another core's.                                        *)
EXTENDS Rational

CONSTANTS
    Second,       \* nanoseconds of one, 10^9 in the code
    Interval,     \* how long to spin, 10^7 in the code
    CyclesPerNs,  \* the true rate
    MaxGap,       \* the longest delay between reading the clock and the counter
    MaxCall,      \* bound: the longest call measured
    Behind,       \* how far the counter of another core is behind the first one's
    ns_default    \* ns_per_cycle until it is calibrated

ASSUME CalibrationAssumption ==
    /\ {Second, CyclesPerNs} \subseteq Nat \ {0}
    /\ MaxGap \in Nat /\ Interval \in MaxGap + 1 .. Second /\ MaxCall \in Nat /\ Behind \in Nat
ASSUME DefaultAssumption == ns_default.num \in Nat \ {0} /\ ns_default.den \in Nat \ {0}

VARIABLES
    clock_pc,      \* where calibrate() is
    now,           \* the time
    t1, c1, t2, deadline,
    ns_per_cycle,
    latency,       \* latency_ns of the last call
    call,          \* history: how long it really took
    moved          \* history: the counters of two cores were compared

clockVars == <<clock_pc, now, t1, c1, t2, deadline, ns_per_cycle, latency, call, moved>>

Timespec(ns) == [tv_sec |-> ns \div Second, tv_nsec |-> ns % Second]

Before(s, t) == s.tv_sec < t.tv_sec \/ (s.tv_sec = t.tv_sec /\ s.tv_nsec < t.tv_nsec)

Counter(ns) == ns * CyclesPerNs

ClockInit ==
    /\ clock_pc = "start" /\ now = 0
    /\ t1 = Timespec(0) /\ c1 = 0 /\ t2 = Timespec(0) /\ deadline = Timespec(0)
    /\ ns_per_cycle = ns_default /\ latency = 0 /\ call = 0 /\ moved = FALSE

(* The deadline, with the carry into the seconds.                             *)
DeadlineNoCarry(t) ==   \* mistaken: tv_nsec may be a second and more
    [t EXCEPT !.tv_nsec = @ + Interval]
Deadline(t) ==
    LET nsec == t.tv_nsec + Interval
    IN  IF nsec >= Second THEN [tv_sec |-> t.tv_sec + 1, tv_nsec |-> nsec - Second]
                          ELSE [t EXCEPT !.tv_nsec = nsec]

SampleStart ==
    /\ clock_pc = "start" /\ clock_pc' = "spin"
    /\ \E start \in 0 .. Second - 1, gap \in 0 .. MaxGap :
           t1' = Timespec(start) /\ now' = start + gap
    /\ deadline' = Deadline(t1')
    /\ c1' = Counter(now')
    /\ UNCHANGED <<t2, ns_per_cycle, latency, call, moved>>

Spin ==
    /\ clock_pc = "spin"
    /\ \E step \in 1 .. Interval : now' = now + step
    /\ t2' = Timespec(now')
    /\ clock_pc' = IF Before(t2', deadline) THEN "spin" ELSE "spun"
    /\ UNCHANGED <<t1, c1, deadline, ns_per_cycle, latency, call, moved>>

elapsed_ns == (t2.tv_sec - t1.tv_sec) * Second + t2.tv_nsec - t1.tv_nsec

(* A counter that did not advance is not used.                                *)
SampleEnd(behind) ==
    /\ clock_pc = "spun" /\ clock_pc' = "calibrated"
    /\ \E gap \in 0 .. MaxGap : now' = now + gap
    /\ LET c2 == Counter(now') - behind
       IN  ns_per_cycle' = IF c2 > c1 THEN Ratio(elapsed_ns, c2 - c1) ELSE ns_per_cycle
    /\ moved' = (behind # 0)
    /\ UNCHANGED <<t1, c1, t2, deadline, latency, call>>

to_ns(cycles)     == Whole(cycles) ** ns_per_cycle
to_ns_u64(cycles) == Truncate(to_ns(cycles) ++ Ratio(1, 2))

(* rdtscp before and after process_limit_order.                               *)
MeasureCall(ns) ==
    /\ clock_pc = "calibrated"
    /\ latency' = to_ns_u64(Counter(ns)) /\ call' = ns
    /\ UNCHANGED <<clock_pc, now, t1, c1, t2, deadline, ns_per_cycle, moved>>

ClockNext ==
    \/ SampleStart \/ Spin \/ \E behind \in {0, Behind} : SampleEnd(behind)
    \/ \E ns \in 0 .. MaxCall : MeasureCall(ns)

ClockTypeOK ==
    /\ clock_pc \in {"start", "spin", "spun", "calibrated"}
    /\ \A t \in {t1, t2, deadline} : t.tv_nsec \in 0 .. Second - 1
    /\ ns_per_cycle.num > 0 /\ {latency, now, c1} \subseteq Nat

(* The printed latency is right up to half a nanosecond and the error of the  *)
(* ratio, which is at most what can pass between the reads of the clock and   *)
(* of the counter, relative to the interval: wherever in a second it begins,  *)
(* and however late the spinning thread looks at the clock; provided that     *)
(* the thread stayed on one core.                                             *)
LatencyMeasured ==
    ~moved =>
        LET error == Whole(latency - call)
            bound == Ratio(call * MaxGap, Interval - MaxGap) ++ Ratio(1, 2)
        IN  AtMost(error, bound) /\ AtMost(Whole(0) -- bound, error)
=============================================================================
