----------------------------- MODULE ClockSkew -----------------------------
(***************************************************************************)
(* The correction for a charger whose clock is off, and the schedules that *)
(* are aimed with it.  Every answer to a clock request carries the         *)
(* charger's own time; a skew beyond CLOCK_SKEW_THRESHOLD is taken over as *)
(* _time_delta, in whole minutes and with some inertia, and a start time   *)
(* is sent, and read back, with it.                                        *)
(*                                                                         *)
(* Times are seconds from now.  The charger's clock shows its skew minus   *)
(* Offset: it counts as if our local time were Shanghai's.                 *)
(***************************************************************************)
EXTENDS Integers, FiniteSets

CONSTANTS
    CLOCK_SKEW_THRESHOLD,    \* seconds of skew that are left alone
    Day,                     \* seconds a reported time may lie ahead uncorrected
    Offset,                  \* shanghai_offset()
    Skews,                   \* what the charger's clock may be off by
    Leads,                   \* how far ahead schedules start
    MaxReplies,              \* bound: clock replies in flight
    Drifting,                \* may the clock move at all?
    NoTime

ASSUME ThresholdAssumption == CLOCK_SKEW_THRESHOLD \in Nat /\ CLOCK_SKEW_THRESHOLD >= 60
ASSUME TimesAssumption ==
    /\ Day \in Int /\ Offset \in Int
    /\ Skews \subseteq Int /\ Leads \subseteq Int /\ NoTime \notin Int

VARIABLES
    skew,                    \* the charger's clock, against ours
    replies,                 \* skews that replies in flight will show
    timeDelta,               \* _time_delta
    measured,                \* the skew the last handled reply showed
    start,                   \* the start time last asked for
    reservation              \* the charger's: when its clock shows this, it starts

vars == <<skew, replies, timeDelta, measured, start, reservation>>

Abs(n) == IF n < 0 THEN -n ELSE n

\* Mutant of WholeMinutes: math.ceil() is left out.
WholeMinutesExact(d) == d
\* math.ceil(d / 60) * 60
WholeMinutes(d) == 60 * (-((-d) \div 60))

\* Mutant of ToCharger: the correction is subtracted where it has to be added.
ToChargerBackwards(t) == t - Offset - timeDelta
\* _datetime_to_shanghai_epoch(t, apply_epoch_adjustment=True)
ToCharger(t) == t - Offset + timeDelta

\* Mutant of FromCharger: the correction is added once more.
FromChargerBackwards(epoch) ==
    IF timeDelta # 0 /\ epoch > Day THEN epoch + Offset + timeDelta ELSE epoch + Offset
\* _shanghai_epoch_to_datetime()
FromCharger(epoch) ==
    IF timeDelta # 0 /\ epoch > Day THEN epoch + Offset - timeDelta ELSE epoch + Offset

Init ==
    /\ skew \in Skews
    /\ replies = {}
    /\ timeDelta = 0
    /\ measured = NoTime
    /\ start = NoTime
    /\ reservation = NoTime

\* The charger answers a clock request, set or get alike, with what its clock shows.
ReportTime ==
    /\ Cardinality(replies \cup {skew}) <= MaxReplies
    /\ replies' = replies \cup {skew}
    /\ UNCHANGED <<skew, timeDelta, measured, start, reservation>>

\* Mutant of HandleSystemTime: a clock that is right again is no news.
HandleSystemTimeLatched(d) ==
    /\ d \in replies
    /\ replies' = replies \ {d}
    /\ measured' = d
    /\ timeDelta' = IF Abs(d) > CLOCK_SKEW_THRESHOLD /\ Abs(d - timeDelta) > 60
                    THEN WholeMinutes(d) ELSE timeDelta
    /\ UNCHANGED <<skew, start, reservation>>

\* _handle_system_time()
HandleSystemTime(d) ==
    /\ d \in replies
    /\ replies' = replies \ {d}
    /\ measured' = d
    /\ \/ Abs(d) <= CLOCK_SKEW_THRESHOLD /\ timeDelta' = 0
       \/ /\ Abs(d) > CLOCK_SKEW_THRESHOLD /\ Abs(d - timeDelta) > 60
          /\ timeDelta' = WholeMinutes(d)
       \/ /\ Abs(d) > CLOCK_SKEW_THRESHOLD /\ Abs(d - timeDelta) <= 60
          /\ UNCHANGED timeDelta
    /\ UNCHANGED <<skew, start, reservation>>

\* start_charging(start_date=...), taken by the charger.
Schedule(t) ==
    /\ start' = t
    /\ reservation' = ToCharger(t)
    /\ UNCHANGED <<skew, replies, timeDelta, measured>>

\* The clock drifts, or somebody sets it.
Drift ==
    /\ Drifting
    /\ skew' \in Skews
    /\ UNCHANGED <<replies, timeDelta, measured, start, reservation>>

Next ==
    \/ ReportTime
    \/ \E d \in Skews : HandleSystemTime(d)
    \/ \E t \in Leads : Schedule(t)
    \/ Drift

Spec == Init /\ [][Next]_vars

-----------------------------------------------------------------------------
(* Properties.                                                             *)

\* Types; a correction is a number of whole minutes.
TypeOK ==
    /\ skew \in Skews
    /\ replies \subseteq Skews
    /\ timeDelta \in Int /\ timeDelta % 60 = 0
    /\ measured \in Skews \cup {NoTime}
    /\ start \in Leads \cup {NoTime}
    /\ reservation \in Int \cup {NoTime}

\* Whatever was measured before, in whatever order replies arrive: the correction is
\* off by a minute at most from the last measurement, or dropped if that was within
\* the threshold (device.py:352-359); rounding and inertia do not add up.
CorrectionTracks ==
    IF measured = NoTime \/ Abs(measured) <= CLOCK_SKEW_THRESHOLD
    THEN timeDelta = 0
    ELSE Abs(timeDelta - measured) <= 60

\* How late the charger starts what it holds, if its clock stays as it is.
Lateness == reservation + Offset - start - skew

\* A charger whose clock is as it was last measured starts a new schedule within a
\* minute of the time asked for, or within the skew that is left alone
\* (device.py:58-60, 608-610).
SchedulesAreAimed ==
    [][(reservation' # reservation /\ skew = measured) =>
         Abs(Lateness') <= IF Abs(skew) > CLOCK_SKEW_THRESHOLD
                           THEN 60 ELSE CLOCK_SKEW_THRESHOLD]_vars

\* A schedule reads back as it was asked for while no correction applies, and on a
\* charger that runs ahead by more than a day, the timezone and a minute together:
\* the limit for reading (device.py:623) is compared before the timezone is taken out.
\* "Compensates for both" (README.md:102) holds so far only.
Compensated ==
    \/ measured = NoTime
    \/ Abs(measured) <= CLOCK_SKEW_THRESHOLD
    \/ measured > Day + Offset + 60

SchedulesReadBack ==
    [][(reservation' # reservation /\ start' >= 0 /\ Compensated) =>
         FromCharger(reservation)' = start']_vars
=============================================================================
