-------------------------- MODULE ClockSkewProofs --------------------------
(* Proofs about ClockSkew, for every threshold of a minute or more, every     *)
(* timezone, and every skew.                                                  *)
EXTENDS ClockSkew, TLAPS

\* Rounding up to whole minutes adds less than a minute.
LEMMA WholeMinutesBound ==
    ASSUME NEW d \in Int
    PROVE  /\ WholeMinutes(d) \in Int /\ WholeMinutes(d) % 60 = 0
           /\ d <= WholeMinutes(d) /\ WholeMinutes(d) < d + 60
<1> DEFINE q == (-d) \div 60
<1>1. q \in Int /\ 60 * q <= -d /\ -d < 60 * q + 60
  OBVIOUS
<1>2. WholeMinutes(d) = 60 * (-q)
  BY DEF WholeMinutes
<1> HIDE DEF q
<1>3. (60 * (-q)) % 60 = 0
  BY <1>1
<1> QED BY <1>1, <1>2, <1>3

Inv == TypeOK /\ CorrectionTracks

LEMMA InitInv == Init => Inv
BY TimesAssumption DEF Init, Inv, TypeOK, CorrectionTracks

\* A handled reply leaves a correction that fits it, whatever was measured before.
LEMMA HandleSystemTimeInv ==
    ASSUME Inv, NEW d \in Skews, HandleSystemTime(d)
    PROVE  Inv'
<1> USE TimesAssumption, ThresholdAssumption DEF Inv, HandleSystemTime
<1>1. d \in Int /\ WholeMinutes(d) \in Int /\ WholeMinutes(d) % 60 = 0
      /\ d <= WholeMinutes(d) /\ WholeMinutes(d) < d + 60
  BY WholeMinutesBound
<1>2. TypeOK'
  BY <1>1 DEF TypeOK
<1>3. CorrectionTracks'
  BY <1>1 DEF TypeOK, CorrectionTracks, Abs
<1> QED BY <1>2, <1>3

LEMMA StepInv == Inv /\ [Next]_vars => Inv'
<1> SUFFICES ASSUME Inv, [Next]_vars PROVE Inv'
  OBVIOUS
<1>1. CASE ReportTime
  BY <1>1 DEF ReportTime, Inv, TypeOK, CorrectionTracks
<1>2. ASSUME NEW d \in Skews, HandleSystemTime(d) PROVE Inv'
  BY <1>2, HandleSystemTimeInv
<1>3. ASSUME NEW t \in Leads, Schedule(t) PROVE Inv'
  BY <1>3, TimesAssumption DEF Schedule, ToCharger, Inv, TypeOK, CorrectionTracks
<1>4. CASE Drift
  BY <1>4 DEF Drift, Inv, TypeOK, CorrectionTracks
<1>5. CASE UNCHANGED vars
  BY <1>5 DEF vars, Inv, TypeOK, CorrectionTracks
<1> QED BY <1>1, <1>2, <1>3, <1>4, <1>5 DEF Next

LEMMA InvHolds == Spec => []Inv
BY InitInv, StepInv, PTL DEF Spec

\* Types; every correction is a number of whole minutes.
THEOREM ClockTypeCorrect == Spec => []TypeOK
<1>1. Inv => TypeOK  BY DEF Inv
<1> QED BY <1>1, InvHolds, PTL

\* The correction is within a minute of the last measurement, or dropped.
THEOREM CorrectionsTrack == Spec => []CorrectionTracks
<1>1. Inv => CorrectionTracks  BY DEF Inv
<1> QED BY <1>1, InvHolds, PTL

\* A new schedule starts within a minute of its time, or within the threshold, on a
\* charger whose clock is as last measured.
THEOREM SchedulesAimed == Spec => SchedulesAreAimed
<1> DEFINE Aimed == (reservation' # reservation /\ skew = measured) =>
                       Abs(Lateness') <= IF Abs(skew) > CLOCK_SKEW_THRESHOLD
                                         THEN 60 ELSE CLOCK_SKEW_THRESHOLD
<1>1. ASSUME Inv, [Next]_vars PROVE [Aimed]_vars
  <2> SUFFICES ASSUME reservation' # reservation, skew = measured PROVE Aimed
    OBVIOUS
  <2>1. PICK t \in Leads : Schedule(t)
    BY <1>1 DEF Next, ReportTime, HandleSystemTime, Drift, vars
  <2>2. t \in Int /\ skew \in Int /\ timeDelta \in Int /\ Offset \in Int
    BY <1>1, <2>1, TimesAssumption DEF Inv, TypeOK
  <2>3. Lateness' = timeDelta - skew
    BY <2>1, <2>2 DEF Schedule, ToCharger, Lateness
  <2>4. measured # NoTime
    BY <2>2, TimesAssumption
  <2> QED
    BY <1>1, <2>2, <2>3, <2>4, ThresholdAssumption DEF Inv, CorrectionTracks, Abs
<1> QED BY <1>1, InvHolds, PTL DEF Spec, SchedulesAreAimed

\* Where the correction for reading does work: a start time reads back as it was sent
\* when there is no correction, or when it exceeds a day by more than the timezone
\* takes away again (device.py:623).
THEOREM AheadReadsBack ==
    ASSUME NEW t \in Int, timeDelta \in Int,
           timeDelta = 0 \/ t - Offset + timeDelta > Day
    PROVE  FromCharger(ToCharger(t)) = t
BY TimesAssumption DEF FromCharger, ToCharger

\* With no correction, or one that is large enough, a new schedule reads back as it
\* was asked for.
THEOREM SchedulesAreReadBack == Spec => SchedulesReadBack
<1> DEFINE ReadsBack == (reservation' # reservation /\ start' >= 0 /\ Compensated) =>
                           FromCharger(reservation)' = start'
<1>1. ASSUME Inv, [Next]_vars PROVE [ReadsBack]_vars
  <2> SUFFICES ASSUME reservation' # reservation, start' >= 0, Compensated PROVE ReadsBack
    OBVIOUS
  <2>1. PICK t \in Leads : Schedule(t)
    BY <1>1 DEF Next, ReportTime, HandleSystemTime, Drift, vars
  <2>2. t \in Int /\ timeDelta \in Int /\ Offset \in Int /\ Day \in Int
        /\ timeDelta' = timeDelta /\ start' = t /\ reservation' = ToCharger(t)
    BY <1>1, <2>1, TimesAssumption DEF Inv, TypeOK, Schedule
  <2>3. timeDelta = 0 \/ t - Offset + timeDelta > Day
    <3>1. CASE measured = NoTime \/ Abs(measured) <= CLOCK_SKEW_THRESHOLD
      BY <1>1, <3>1 DEF Inv, CorrectionTracks
    <3>2. CASE measured # NoTime /\ measured > Day + Offset + 60 /\ timeDelta # 0
      <4>1. measured \in Int
        BY <1>1, <3>2, TimesAssumption DEF Inv, TypeOK
      <4>2. Abs(timeDelta - measured) <= 60
        BY <1>1, <3>2 DEF Inv, CorrectionTracks
      <4> QED BY <2>2, <3>2, <4>1, <4>2 DEF Abs
    <3> QED BY <3>1, <3>2 DEF Compensated
  <2>4. FromCharger(ToCharger(t)) = t
    BY <2>2, <2>3, AheadReadsBack
  <2>5. FromCharger(reservation)' = FromCharger(ToCharger(t))
    BY <2>2 DEF FromCharger
  <2> QED BY <2>2, <2>4, <2>5
<1> QED BY <1>1, InvHolds, PTL DEF Spec, SchedulesReadBack
=============================================================================
