---------------------------- MODULE OSTimeProofs ----------------------------
(***************************************************************************)
(* Proofs about time and calendar (OSTime.c), for every calendar, clock,   *)
(* date and uptime and any number of updates.                              *)
(***************************************************************************)
EXTENDS OSTime, TLAPS

-----------------------------------------------------------------------------
(***************************************************************************)
(* Clock, date and uptime.                                                 *)
(***************************************************************************)
ClockInv ==
  /\ Hora \in Clocks
  /\ seconds \in Nat /\ days \in Nat
  /\ \/ usage = "uptime" /\ Data \in Uptimes
     \/ usage = "clock" /\ Data \in ShortDates
  /\ ClockCounts

\* Counting up commutes with taking the remainder.
LEMMA CountOn ==
  ASSUME NEW n \in Nat, NEW m \in {DaySeconds, UINT8, DateDays}
  PROVE  /\ n % m \in Nat /\ n % m < m /\ n \div m \in Nat
         /\ n % m # m - 1 => (n + 1) % m = (n % m) + 1 /\ (n + 1) \div m = n \div m
         /\ n % m = m - 1 => (n + 1) % m = 0 /\ (n + 1) \div m = n \div m + 1
         /\ ((n % m) + 1) % m = (n + 1) % m
         /\ n < m => n % m = n
<1>1. CASE m = DaySeconds
  BY <1>1 DEF DaySeconds
<1>2. CASE m = UINT8
  BY <1>2 DEF UINT8
<1>3. CASE m = DateDays
  <2>1. m = 3599640
    BY <1>3 DEF DateDays, LastYear
  <2>. QED  BY <2>1
<1>. QED  BY <1>1, <1>2, <1>3

\* A number of seconds split at the days.
LEMMA DaySplit ==
  ASSUME NEW s \in Nat, s < DaySeconds, NEW d \in Nat
  PROVE  /\ s + DaySeconds * d \in Nat
         /\ (s + DaySeconds * d) % DaySeconds = s
         /\ (s + DaySeconds * d) \div DaySeconds = d
  BY DEF DaySeconds

\* Clearing the clock, or the days, of a number of seconds.
LEMMA DayStart ==
  ASSUME NEW n \in Nat
  PROVE  /\ n - (n % DaySeconds) \in Nat
         /\ (n - (n % DaySeconds)) % DaySeconds = 0
         /\ (n - (n % DaySeconds)) \div DaySeconds = n \div DaySeconds
         /\ n % DaySeconds \in Nat /\ (n % DaySeconds) % DaySeconds = n % DaySeconds
         /\ (n % DaySeconds) \div DaySeconds = 0
         /\ 0 % UINT8 = 0 /\ 0 % DateDays = 0
<1>1. DateDays = 3599640 /\ 0 % 3599640 = 0
  BY DEF DateDays, LastYear
<1>. QED  BY <1>1 DEF DaySeconds, UINT8

\* The range of the fields of a clock and of a date.
LEMMA ClockFields ==
  ASSUME NEW s \in Int, NEW m \in Int, NEW h \in Int
  PROVE  [RTC_Second |-> s, RTC_Minute |-> m, RTC_Hour |-> h] \in Clocks <=>
           0 <= s /\ s <= 59 /\ 0 <= m /\ m <= 59 /\ 0 <= h /\ h <= 23
  BY DEF Clocks

\* A clock is its three fields.
LEMMA ClockParts ==
  ASSUME NEW c \in Clocks
  PROVE  \E s, m, h \in Nat :
           c = [RTC_Second |-> s, RTC_Minute |-> m, RTC_Hour |-> h]
<1>1. c.RTC_Second \in Nat /\ c.RTC_Minute \in Nat /\ c.RTC_Hour \in Nat
  BY DEF Clocks
<1>2. c = [RTC_Second |-> c.RTC_Second, RTC_Minute |-> c.RTC_Minute,
           RTC_Hour |-> c.RTC_Hour]
  BY DEF Clocks
<1>. QED  BY <1>1, <1>2

\* NextSecond is one second more, modulo a day; the hour decreases when the
\* day ends, and only then.
LEMMA SecondAdvances ==
  ASSUME NEW c \in Clocks
  PROVE  /\ NextSecond(c) \in Clocks
         /\ SecondOfDay(c) \in Nat /\ SecondOfDay(c) < DaySeconds
         /\ SecondOfDay(c) # DaySeconds - 1 => /\ SecondOfDay(NextSecond(c)) = SecondOfDay(c) + 1
                                      /\ ~(NextSecond(c).RTC_Hour < c.RTC_Hour)
         /\ SecondOfDay(c) = DaySeconds - 1 => /\ SecondOfDay(NextSecond(c)) = 0
                                      /\ NextSecond(c).RTC_Hour < c.RTC_Hour
<1>1. PICK s, m, h \in Nat :
        c = [RTC_Second |-> s, RTC_Minute |-> m, RTC_Hour |-> h]
  BY ClockParts
<1>2. s <= 59 /\ m <= 59 /\ h <= 23
  BY <1>1, ClockFields
<1>3. CASE s # 59
  <2>1. NextSecond(c) = [RTC_Second |-> s + 1, RTC_Minute |-> m, RTC_Hour |-> h]
    BY <1>1, <1>3 DEF NextSecond
  <2>2. NextSecond(c) \in Clocks
    BY <1>2, <1>3, <2>1, ClockFields
  <2>. QED  BY <1>1, <1>2, <1>3, <2>1, <2>2 DEF SecondOfDay, DaySeconds
<1>4. CASE s = 59 /\ m # 59
  <2>1. NextSecond(c) = [RTC_Second |-> 0, RTC_Minute |-> m + 1, RTC_Hour |-> h]
    BY <1>1, <1>4, Zenon DEF NextSecond
  <2>2. NextSecond(c) \in Clocks
    BY <1>2, <1>4, <2>1, ClockFields
  <2>. QED  BY <1>1, <1>2, <1>4, <2>1, <2>2 DEF SecondOfDay, DaySeconds
<1>5. CASE s = 59 /\ m = 59
  <2>. DEFINE k == IF h = 23 THEN 0 ELSE h + 1
  <2>1. NextSecond(c) = [RTC_Second |-> 0, RTC_Minute |-> 0, RTC_Hour |-> k]
    BY <1>1, <1>5 DEF NextSecond
  <2>2. NextSecond(c) \in Clocks
    BY <1>2, <2>1, ClockFields
  <2>. QED  BY <1>1, <1>2, <1>5, <2>1, <2>2 DEF SecondOfDay, DaySeconds
<1>. QED  BY <1>3, <1>4, <1>5, Zenon

\* The range of the fields of a date.
LEMMA DateFields ==
  ASSUME NEW d \in Int, NEW m \in Int, NEW y \in Int
  PROVE  [RTC_Day |-> d, RTC_Month |-> m, RTC_Year |-> y] \in ShortDates <=>
           0 <= d /\ d <= 29 /\ 0 <= m /\ m <= 11 /\ 0 <= y /\ y <= LastYear
<1>. DEFINE r == [RTC_Day |-> d, RTC_Month |-> m, RTC_Year |-> y]
<1>1. r \in ShortDates <=> d \in 0..29 /\ m \in 0..11 /\ y \in 0..LastYear
  BY DEF ShortDates
<1>2. y \in 0..LastYear <=> 0 <= y /\ y <= LastYear
  OBVIOUS
<1>3. (d \in 0..29 <=> 0 <= d /\ d <= 29) /\ (m \in 0..11 <=> 0 <= m /\ m <= 11)
  OBVIOUS
<1>. QED  BY <1>1, <1>2, <1>3

\* A date is its three fields.
LEMMA DateParts ==
  ASSUME NEW c \in ShortDates
  PROVE  \E d, m, y \in Int :
           c = [RTC_Day |-> d, RTC_Month |-> m, RTC_Year |-> y]
<1>1. c.RTC_Day \in 0..29 /\ c.RTC_Month \in 0..11
  BY DEF ShortDates
<1>2. c.RTC_Year \in 0..LastYear
  BY DEF ShortDates
<1>3. c = [RTC_Day |-> c.RTC_Day, RTC_Month |-> c.RTC_Month, RTC_Year |-> c.RTC_Year]
  BY DEF ShortDates
<1>. QED  BY <1>1, <1>2, <1>3

\* NextDay is one day more, modulo the 9999 years of 360 days.
LEMMA DayAdvances ==
  ASSUME NEW c \in ShortDates
  PROVE  /\ NextDay(c) \in ShortDates
         /\ DayOf(c) \in Nat /\ DayOf(c) < DateDays
         /\ DayOf(c) # DateDays - 1 => DayOf(NextDay(c)) = DayOf(c) + 1
         /\ DayOf(c) = DateDays - 1 => DayOf(NextDay(c)) = 0
<1>1. PICK d, m, y \in Int :
        c = [RTC_Day |-> d, RTC_Month |-> m, RTC_Year |-> y]
  BY DateParts
<1>2. /\ 0 <= d /\ d <= 29 /\ 0 <= m /\ m <= 11 /\ 0 <= y /\ y <= LastYear
      /\ LastYear \in Nat
  BY <1>1, DateFields DEF LastYear
<1>3. CASE d # 29
  <2>1. NextDay(c) = [RTC_Day |-> d + 1, RTC_Month |-> m, RTC_Year |-> y]
    BY <1>1, <1>3 DEF NextDay
  <2>2. NextDay(c) \in ShortDates
    BY <1>2, <1>3, <2>1, DateFields
  <2>. QED  BY <1>1, <1>2, <1>3, <2>1, <2>2 DEF DayOf, DateDays
<1>4. CASE d = 29 /\ m # 11
  <2>1. NextDay(c) = [RTC_Day |-> 0, RTC_Month |-> m + 1, RTC_Year |-> y]
    BY <1>1, <1>4, Zenon DEF NextDay
  <2>2. NextDay(c) \in ShortDates
    BY <1>2, <1>4, <2>1, DateFields
  <2>. QED  BY <1>1, <1>2, <1>4, <2>1, <2>2 DEF DayOf, DateDays
<1>5. CASE d = 29 /\ m = 11
  <2>. DEFINE k == IF y = LastYear THEN 0 ELSE y + 1
  <2>1. NextDay(c) = [RTC_Day |-> 0, RTC_Month |-> 0, RTC_Year |-> k]
    BY <1>1, <1>5 DEF NextDay
  <2>2. NextDay(c) \in ShortDates
    BY <1>2, <2>1, DateFields
  <2>. QED  BY <1>1, <1>2, <1>5, <2>1, <2>2 DEF DayOf, DateDays
<1>. QED  BY <1>3, <1>4, <1>5, Zenon

(***************************************************************************)
(* The uptime keeps its days in one byte.                                  *)
(***************************************************************************)
LEMMA UptimeFields ==
  ASSUME NEW c \in Uptimes
  PROVE  /\ c.RTC_Day \in Nat /\ c.RTC_Day < UINT8
         /\ \A k \in Nat : k < UINT8 => /\ [c EXCEPT !.RTC_Day = k] \in Uptimes
                                        /\ [c EXCEPT !.RTC_Day = k].RTC_Day = k
<1>. DEFINE B == 0..(UINT8 - 1)
<1>1. /\ c.RTC_Day \in B
      /\ \A k \in B : /\ [c EXCEPT !.RTC_Day = k] \in Uptimes
                      /\ [c EXCEPT !.RTC_Day = k].RTC_Day = k
  BY DEF Uptimes
<1>2. \A k : k \in B <=> k \in Nat /\ k < UINT8
  <2>1. UINT8 \in Nat
    BY DEF UINT8
  <2>. QED  BY <2>1
<1>. HIDE DEF B
<1>. QED  BY <1>1, <1>2

\* The date OSResetDate leaves.
LEMMA ResetDate ==
  ASSUME NEW c, c = [RTC_Day |-> 0, RTC_Month |-> 0, RTC_Year |-> 0]
  PROVE  c \in Uptimes /\ c \in ShortDates /\ DayOf(c) = 0 /\ c.RTC_Day = 0
<1>1. UINT8 - 1 \in Nat /\ LastYear \in Nat
  BY DEF UINT8, LastYear
<1>2. c \in ShortDates
  BY <1>1, DateFields
<1>3. 0 \in 0..(UINT8 - 1)
  BY <1>1
<1>4. c \in Uptimes
  BY <1>3, Zenon DEF Uptimes
<1>. QED  BY <1>2, <1>4 DEF DayOf

\* What observation starts with.
LEMMA StartFields ==
  ASSUME NEW s \in Starts
  PROVE  /\ s.Hora \in Clocks
         /\ \/ s.usage = "uptime" /\ s.Data \in Uptimes
            \/ s.usage = "clock" /\ s.Data \in ShortDates
<1>1. \/ s \in [usage : {"uptime"}, Hora : Clocks, Data : Uptimes]
      \/ s \in [usage : {"clock"}, Hora : Clocks, Data : ShortDates]
  BY OSTimeAssumption, Zenon
<1>. QED  BY <1>1, SMT

\* The clocks and dates observation starts with.
LEMMA ClockInitInv ==
  ASSUME Init
  PROVE  ClockInv
<1>1. PICK s \in Starts :
        /\ Hora = s.Hora /\ Data = s.Data /\ usage = s.usage
        /\ days = IF s.usage = "clock" THEN DayOf(s.Data) ELSE 0
        /\ seconds = SecondOfDay(s.Hora)
                      + (IF s.usage = "uptime" THEN DaySeconds * s.Data.RTC_Day ELSE 0)
  BY Zenon DEF Init
<1>2. /\ Hora \in Clocks
      /\ \/ usage = "uptime" /\ Data \in Uptimes
         \/ usage = "clock" /\ Data \in ShortDates
  BY <1>1, StartFields, Zenon
<1>3. SecondOfDay(Hora) \in Nat /\ SecondOfDay(Hora) < DaySeconds
  BY <1>2, SecondAdvances, Zenon
<1>4. CASE usage = "uptime"
  <2>1. Data \in Uptimes /\ Data.RTC_Day \in Nat /\ Data.RTC_Day < UINT8
    BY <1>2, <1>4, UptimeFields, Zenon
  <2>2. seconds = SecondOfDay(Hora) + DaySeconds * Data.RTC_Day /\ days = 0
    BY <1>1, <1>4, Zenon
  <2>3. /\ seconds \in Nat /\ seconds % DaySeconds = SecondOfDay(Hora)
        /\ seconds \div DaySeconds = Data.RTC_Day
    BY <1>3, <2>1, <2>2, DaySplit, Zenon
  <2>4. Data.RTC_Day % UINT8 = Data.RTC_Day
    BY <2>1, CountOn, Zenon
  <2>5. usage # "clock"
    BY <1>4, Zenon
  <2>. QED  BY <1>2, <1>4, <2>2, <2>3, <2>4, <2>5, Zenon DEF ClockInv, ClockCounts
<1>5. CASE usage = "clock"
  <2>1. Data \in ShortDates /\ DayOf(Data) \in Nat /\ DayOf(Data) < DateDays
    BY <1>2, <1>5, DayAdvances, Zenon
  <2>2. seconds = SecondOfDay(Hora) /\ days = DayOf(Data)
    BY <1>1, <1>3, <1>5
  <2>3. seconds % DaySeconds = seconds /\ days % DateDays = days
    BY <1>3, <2>1, <2>2, CountOn, Zenon
  <2>4. usage # "uptime"
    BY <1>5, Zenon
  <2>. QED  BY <1>2, <1>3, <1>5, <2>1, <2>2, <2>3, <2>4, Zenon DEF ClockInv, ClockCounts
<1>. QED  BY <1>2, <1>4, <1>5, Zenon

\* Hora after one more second.
LEMMA HoraAdvances ==
  ASSUME Hora \in Clocks, seconds \in Nat, SecondOfDay(Hora) = seconds % DaySeconds,
         Hora' = NextSecond(Hora), seconds' = seconds + 1
  PROVE  /\ Hora' \in Clocks /\ seconds' \in Nat
         /\ SecondOfDay(Hora') = seconds' % DaySeconds
         /\ Hora'.RTC_Hour < Hora.RTC_Hour =>
              seconds' \div DaySeconds = seconds \div DaySeconds + 1
         /\ ~(Hora'.RTC_Hour < Hora.RTC_Hour) =>
              seconds' \div DaySeconds = seconds \div DaySeconds
<1>1. /\ NextSecond(Hora) \in Clocks
      /\ SecondOfDay(Hora) # DaySeconds - 1 =>
           /\ SecondOfDay(NextSecond(Hora)) = SecondOfDay(Hora) + 1
           /\ ~(NextSecond(Hora).RTC_Hour < Hora.RTC_Hour)
      /\ SecondOfDay(Hora) = DaySeconds - 1 =>
           /\ SecondOfDay(NextSecond(Hora)) = 0
           /\ NextSecond(Hora).RTC_Hour < Hora.RTC_Hour
  BY SecondAdvances, Zenon
<1>2. /\ seconds % DaySeconds # DaySeconds - 1 =>
           /\ (seconds + 1) % DaySeconds = (seconds % DaySeconds) + 1
           /\ (seconds + 1) \div DaySeconds = seconds \div DaySeconds
      /\ seconds % DaySeconds = DaySeconds - 1 =>
           /\ (seconds + 1) % DaySeconds = 0
           /\ (seconds + 1) \div DaySeconds = seconds \div DaySeconds + 1
  BY CountOn, Zenon
<1>3. seconds' \in Nat
  OBVIOUS
<1>4. CASE SecondOfDay(Hora) = DaySeconds - 1
  BY <1>1, <1>2, <1>3, <1>4, Zenon
<1>5. CASE SecondOfDay(Hora) # DaySeconds - 1
  BY <1>1, <1>2, <1>3, <1>5, Zenon
<1>. QED  BY <1>4, <1>5, Zenon

\* Every step preserves the invariant of clock, date and uptime.
LEMMA ClockStepInv ==
  ASSUME ClockInv, [Next]_vars
  PROVE  ClockInv'
<1>. USE DEF ClockInv
<1>0. Hora \in Clocks /\ seconds \in Nat /\ SecondOfDay(Hora) = seconds % DaySeconds
  BY Zenon DEF ClockCounts
<1>u. "uptime" # "clock"
  OBVIOUS
<1>1. CASE OSUpdateTime
  <2>1. /\ Hora' = NextSecond(Hora) /\ seconds' = seconds + 1
        /\ UNCHANGED <<Data, usage, days>> /\ usage = "clock"
    BY <1>1, Zenon DEF OSUpdateTime
  <2>2. /\ Hora' \in Clocks /\ seconds' \in Nat
        /\ SecondOfDay(Hora') = seconds' % DaySeconds
    BY <1>0, <2>1, HoraAdvances, Zenon
  <2>. QED  BY <1>u, <2>1, <2>2, Zenon DEF ClockCounts
<1>2. CASE OSUpdateUptime
  <2>1. /\ Hora' = NextSecond(Hora) /\ seconds' = seconds + 1
        /\ Data' = [Data EXCEPT !.RTC_Day =
                     IF Hora'.RTC_Hour < Hora.RTC_Hour
                       THEN (Data.RTC_Day + 1) % UINT8 ELSE Data.RTC_Day]
        /\ UNCHANGED <<usage, days>> /\ usage = "uptime" /\ Data \in Uptimes
    BY <1>u, <1>2, Zenon DEF OSUpdateUptime
  <2>2. /\ Hora' \in Clocks /\ seconds' \in Nat
        /\ SecondOfDay(Hora') = seconds' % DaySeconds
        /\ Hora'.RTC_Hour < Hora.RTC_Hour =>
             seconds' \div DaySeconds = seconds \div DaySeconds + 1
        /\ ~(Hora'.RTC_Hour < Hora.RTC_Hour) =>
             seconds' \div DaySeconds = seconds \div DaySeconds
    BY <1>0, <2>1, HoraAdvances, Zenon
  <2>3. PICK k \in Nat : k = seconds \div DaySeconds /\ Data.RTC_Day = k % UINT8
    BY <1>0, <2>1, CountOn, Zenon DEF ClockCounts
  <2>4. /\ ((k % UINT8) + 1) % UINT8 = (k + 1) % UINT8
        /\ k % UINT8 \in Nat /\ k % UINT8 < UINT8
    BY CountOn, Zenon
  <2>5. (k + 1) % UINT8 \in Nat /\ (k + 1) % UINT8 < UINT8
    <3>1. k + 1 \in Nat
      OBVIOUS
    <3>. QED  BY <3>1, CountOn, Zenon
  <2>6. Data' \in Uptimes /\ Data'.RTC_Day = (seconds' \div DaySeconds) % UINT8
    <3>1. CASE Hora'.RTC_Hour < Hora.RTC_Hour
      <4>1. Data' = [Data EXCEPT !.RTC_Day = (k + 1) % UINT8]
        BY <2>1, <2>3, <2>4, <3>1, Zenon
      <4>2. Data' \in Uptimes /\ Data'.RTC_Day = (k + 1) % UINT8
        BY <2>1, <2>5, <4>1, UptimeFields, Zenon
      <4>. QED  BY <2>2, <2>3, <3>1, <4>2, Zenon
    <3>2. CASE ~(Hora'.RTC_Hour < Hora.RTC_Hour)
      <4>1. Data' = [Data EXCEPT !.RTC_Day = k % UINT8]
        BY <2>1, <2>3, <3>2, Zenon
      <4>2. Data' \in Uptimes /\ Data'.RTC_Day = k % UINT8
        BY <2>1, <2>4, <4>1, UptimeFields, Zenon
      <4>. QED  BY <2>2, <2>3, <3>2, <4>2, Zenon
    <3>. QED  BY <3>1, <3>2, Zenon
  <2>. QED  BY <1>u, <2>1, <2>2, <2>6, Zenon DEF ClockCounts
<1>3. CASE OSUpdateDate
  <2>1. /\ Data' = NextDay(Data) /\ days' = days + 1
        /\ UNCHANGED <<Hora, usage, seconds>> /\ usage = "clock" /\ Data \in ShortDates
    BY <1>u, <1>3, Zenon DEF OSUpdateDate
  <2>2. /\ NextDay(Data) \in ShortDates
        /\ DayOf(Data) # DateDays - 1 => DayOf(NextDay(Data)) = DayOf(Data) + 1
        /\ DayOf(Data) = DateDays - 1 => DayOf(NextDay(Data)) = 0
    BY <2>1, DayAdvances, Zenon
  <2>3. /\ days % DateDays # DateDays - 1 => (days + 1) % DateDays = (days % DateDays) + 1
        /\ days % DateDays = DateDays - 1 => (days + 1) % DateDays = 0
    BY CountOn, Zenon
  <2>4. days' \in Nat
    BY <2>1
  <2>5. DayOf(Data) = days % DateDays
    BY <2>1, Zenon DEF ClockCounts
  <2>6. DayOf(Data') = days' % DateDays
    <3>1. CASE DayOf(Data) = DateDays - 1
      BY <2>1, <2>2, <2>3, <2>5, <3>1, Zenon
    <3>2. CASE DayOf(Data) # DateDays - 1
      BY <2>1, <2>2, <2>3, <2>5, <3>2, Zenon
    <3>. QED  BY <3>1, <3>2, Zenon
  <2>. QED  BY <1>0, <1>u, <2>1, <2>2, <2>4, <2>6, Zenon DEF ClockCounts
<1>4. CASE OSResetTime
  <2>1. /\ Hora' = [RTC_Second |-> 0, RTC_Minute |-> 0, RTC_Hour |-> 0]
        /\ seconds' = seconds - (seconds % DaySeconds)
        /\ UNCHANGED <<Data, usage, days>>
    BY <1>4, Zenon DEF OSResetTime
  <2>2. /\ seconds' \in Nat /\ seconds' % DaySeconds = 0
        /\ seconds' \div DaySeconds = seconds \div DaySeconds
    BY <1>0, <2>1, DayStart, Zenon
  <2>3. Hora' \in Clocks /\ SecondOfDay(Hora') = 0
    BY <2>1, ClockFields DEF SecondOfDay
  <2>. QED  BY <2>1, <2>2, <2>3, Zenon DEF ClockCounts
<1>5. CASE OSResetDate
  <2>1. /\ Data' = [RTC_Day |-> 0, RTC_Month |-> 0, RTC_Year |-> 0]
        /\ seconds' = seconds % DaySeconds /\ days' = 0
        /\ UNCHANGED <<Hora, usage>>
    BY <1>5, Zenon DEF OSResetDate
  <2>2. /\ seconds' \in Nat /\ seconds' % DaySeconds = seconds % DaySeconds
        /\ seconds' \div DaySeconds = 0 /\ 0 % UINT8 = 0 /\ 0 % DateDays = 0
    BY <1>0, <2>1, DayStart, Zenon
  <2>3. Data' \in Uptimes /\ Data' \in ShortDates /\ DayOf(Data') = 0 /\ Data'.RTC_Day = 0
    BY <2>1, ResetDate, Zenon
  <2>. QED  BY <1>0, <2>1, <2>2, <2>3, Zenon DEF ClockCounts
<1>6. CASE CalendarStep \/ UNCHANGED vars
  <2>1. UNCHANGED clockVars
    BY <1>6, Zenon DEF CalendarStep, OSUpdateCalendar, Load, Store, Test, Carry,
                       SetCalendar, vars
  <2>. QED  BY <2>1, Zenon DEF clockVars, ClockCounts
<1>. QED  BY <1>1, <1>2, <1>3, <1>4, <1>5, <1>6, Zenon DEF Next, ClockStep

(***************************************************************************)
(* Hora and Data count every second and every day they are told of, modulo *)
(* the day, the byte of the uptime's days, and the last year, across every *)
(* carry and every reset (OSTime.c, OSUpdateTime, OSUpdateUptime,          *)
(* OSUpdateDate, OSResetTime, OSResetDate).                                *)
(***************************************************************************)
THEOREM OSTimeClockCounts ==
  Spec => []ClockCounts
<1>1. Init => ClockInv
  BY ClockInitInv, Zenon
<1>2. ClockInv /\ [Next]_vars => ClockInv'
  BY ClockStepInv, Zenon
<1>3. ClockInv => ClockCounts
  BY Zenon DEF ClockInv
<1>. QED  BY <1>1, <1>2, <1>3, PTL DEF Spec

-----------------------------------------------------------------------------
(***************************************************************************)
(* The calendar.                                                           *)
(***************************************************************************)
Cal(y, mo, d, h, mi, s) ==
  [Year |-> y, Month |-> mo, Day |-> d, Hour |-> h, Min |-> mi, Sec |-> s]

\* The fields of a calendar.
LEMMA CalFields ==
  ASSUME NEW y, NEW mo, NEW d, NEW h, NEW mi, NEW s
  PROVE  LET c == Cal(y, mo, d, h, mi, s)
         IN  /\ c["Sec"] = s /\ c["Min"] = mi /\ c["Hour"] = h
             /\ c["Day"] = d /\ c["Month"] = mo /\ c["Year"] = y
  BY DEF Cal

Length(y, mo) == IF mo = 2 /\ IsLeap(y) THEN 29 ELSE MonthLength[mo]

\* A date that exists, in the sixteen bits of the year.
Proper(c) ==
  /\ c \in [Year : Nat, Month : Nat, Day : Nat, Hour : Nat, Min : Nat, Sec : Nat]
  /\ c.Month >= 1 /\ c.Day >= 1 /\ c.Year < UINT16
  /\ ValidDate(c)

\* OSUpdateCalendar, begun on b, comes to field k: the fields before it were
\* at their end, and begin again.
Ended(k, b) ==
  /\ k > 1 => b.Sec = 59
  /\ k > 2 => b.Min = 59
  /\ k > 3 => b.Hour = 23
  /\ k > 4 => b.Day = Length(b.Year, b.Month)
  /\ k > 5 => b.Month = 12

Stage(k, b) ==
  Cal(b.Year, IF k > 5 THEN 1 ELSE b.Month, IF k > 4 THEN 1 ELSE b.Day,
      IF k > 3 THEN 0 ELSE b.Hour, IF k > 2 THEN 0 ELSE b.Min,
      IF k > 1 THEN 0 ELSE b.Sec)

Advanced(k, b) == [Stage(k, b) EXCEPT ![Fields[k]] = @ + 1]

-----------------------------------------------------------------------------

\* An existing date is its six fields, each in its range.
LEMMA ProperParts ==
  ASSUME NEW b, Proper(b)
  PROVE  \E y, mo, d, h, mi, s \in Nat :
           /\ b = Cal(y, mo, d, h, mi, s)
           /\ y < UINT16 /\ mo >= 1 /\ mo <= 12 /\ d >= 1 /\ d <= Length(y, mo)
           /\ h <= 23 /\ mi <= 59 /\ s <= 59
<1>1. /\ b.Year \in Nat /\ b.Month \in Nat /\ b.Day \in Nat
      /\ b.Hour \in Nat /\ b.Min \in Nat /\ b.Sec \in Nat
  BY DEF Proper
<1>2. b = Cal(b.Year, b.Month, b.Day, b.Hour, b.Min, b.Sec)
  BY DEF Proper, Cal
<1>3. /\ b.Year < UINT16 /\ b.Month >= 1 /\ b.Month <= 12 /\ b.Day >= 1
      /\ b.Day <= Length(b.Year, b.Month)
      /\ b.Hour <= 23 /\ b.Min <= 59 /\ b.Sec <= 59
  BY Zenon DEF Proper, ValidDate, Length
<1>. QED  BY <1>1, <1>2, <1>3, Zenon

IsDate(y, mo, d, h, mi, s) ==
  /\ y \in Nat /\ mo \in Nat /\ d \in Nat /\ h \in Nat /\ mi \in Nat /\ s \in Nat
  /\ y < UINT16 /\ mo >= 1 /\ mo <= 12 /\ d >= 1 /\ d <= Length(y, mo)
  /\ h <= 23 /\ mi <= 59 /\ s <= 59

\* Six fields in range are an existing date.
LEMMA ProperCal ==
  ASSUME NEW y, NEW mo, NEW d, NEW h, NEW mi, NEW s, IsDate(y, mo, d, h, mi, s)
  PROVE  Proper(Cal(y, mo, d, h, mi, s))
<1>. USE DEF IsDate
<1>. DEFINE c == Cal(y, mo, d, h, mi, s)
<1>1. c \in [Year : Nat, Month : Nat, Day : Nat, Hour : Nat, Min : Nat, Sec : Nat]
  BY DEF Cal
<1>2. /\ c.Sec = s /\ c.Min = mi /\ c.Hour = h
      /\ c.Day = d /\ c.Month = mo /\ c.Year = y
  BY DEF Cal
<1>. HIDE DEF c
<1>3. ValidDate(c)
  BY <1>2, Zenon DEF ValidDate, Length
<1>. QED  BY <1>1, <1>2, <1>3, Zenon DEF Proper, c

\* The calendar when a field is about to advance: the lower ones are reset.
LEMMA StageParts ==
  ASSUME NEW y, NEW mo, NEW d, NEW h, NEW mi, NEW s
  PROVE  /\ Stage(1, Cal(y, mo, d, h, mi, s)) = Cal(y, mo, d, h, mi, s)
         /\ Stage(2, Cal(y, mo, d, h, mi, s)) = Cal(y, mo, d, h, mi, 0)
         /\ Stage(3, Cal(y, mo, d, h, mi, s)) = Cal(y, mo, d, h, 0, 0)
         /\ Stage(4, Cal(y, mo, d, h, mi, s)) = Cal(y, mo, d, 0, 0, 0)
         /\ Stage(5, Cal(y, mo, d, h, mi, s)) = Cal(y, mo, 1, 0, 0, 0)
         /\ Stage(6, Cal(y, mo, d, h, mi, s)) = Cal(y, 1, 1, 0, 0, 0)
<1>. DEFINE b == Cal(y, mo, d, h, mi, s)
<1>1. /\ b.Sec = s /\ b.Min = mi /\ b.Hour = h
      /\ b.Day = d /\ b.Month = mo /\ b.Year = y
  BY DEF Cal
<1>. HIDE DEF b
<1>. QED  BY <1>1 DEF b, Stage

\* When a field advances the lower ones were at their ends.
LEMMA EndedParts ==
  ASSUME NEW y, NEW mo, NEW d, NEW h, NEW mi, NEW s
  PROVE  /\ Ended(1, Cal(y, mo, d, h, mi, s))
         /\ Ended(2, Cal(y, mo, d, h, mi, s)) <=> s = 59
         /\ Ended(3, Cal(y, mo, d, h, mi, s)) <=> s = 59 /\ mi = 59
         /\ Ended(4, Cal(y, mo, d, h, mi, s)) <=> s = 59 /\ mi = 59 /\ h = 23
         /\ Ended(5, Cal(y, mo, d, h, mi, s))
              <=> s = 59 /\ mi = 59 /\ h = 23 /\ d = Length(y, mo)
         /\ Ended(6, Cal(y, mo, d, h, mi, s))
              <=> s = 59 /\ mi = 59 /\ h = 23 /\ d = Length(y, mo) /\ mo = 12
<1>. DEFINE b == Cal(y, mo, d, h, mi, s)
<1>1. /\ b.Sec = s /\ b.Min = mi /\ b.Hour = h
      /\ b.Day = d /\ b.Month = mo /\ b.Year = y
  BY DEF Cal
<1>. HIDE DEF b
<1>. QED  BY <1>1 DEF b, Ended

\* The fields by number.
LEMMA FieldNames ==
  /\ Fields[1] = "Sec" /\ Fields[2] = "Min" /\ Fields[3] = "Hour"
  /\ Fields[4] = "Day" /\ Fields[5] = "Month" /\ Fields[6] = "Year"
  BY DEF Fields

\* The calendar after a field advanced.
LEMMA AdvancedParts ==
  ASSUME NEW y, NEW mo, NEW d, NEW h, NEW mi, NEW s
  PROVE  /\ Advanced(1, Cal(y, mo, d, h, mi, s)) = Cal(y, mo, d, h, mi, s + 1)
         /\ Advanced(2, Cal(y, mo, d, h, mi, s)) = Cal(y, mo, d, h, mi + 1, 0)
         /\ Advanced(3, Cal(y, mo, d, h, mi, s)) = Cal(y, mo, d, h + 1, 0, 0)
         /\ Advanced(4, Cal(y, mo, d, h, mi, s)) = Cal(y, mo, d + 1, 0, 0, 0)
         /\ Advanced(5, Cal(y, mo, d, h, mi, s)) = Cal(y, mo + 1, 1, 0, 0, 0)
<1>. DEFINE b == Cal(y, mo, d, h, mi, s)
<1>1. Advanced(1, b) = Cal(y, mo, d, h, mi, s + 1)
  <2>1. Stage(1, b) = Cal(y, mo, d, h, mi, s) /\ Fields[1] = "Sec"
    BY StageParts, FieldNames
  <2>. QED  BY <2>1 DEF Advanced, Cal
<1>2. Advanced(2, b) = Cal(y, mo, d, h, mi + 1, 0)
  <2>1. Stage(2, b) = Cal(y, mo, d, h, mi, 0) /\ Fields[2] = "Min"
    BY StageParts, FieldNames
  <2>. QED  BY <2>1 DEF Advanced, Cal
<1>3. Advanced(3, b) = Cal(y, mo, d, h + 1, 0, 0)
  <2>1. Stage(3, b) = Cal(y, mo, d, h, 0, 0) /\ Fields[3] = "Hour"
    BY StageParts, FieldNames
  <2>. QED  BY <2>1 DEF Advanced, Cal
<1>4. Advanced(4, b) = Cal(y, mo, d + 1, 0, 0, 0)
  <2>1. Stage(4, b) = Cal(y, mo, d, 0, 0, 0) /\ Fields[4] = "Day"
    BY StageParts, FieldNames
  <2>. QED  BY <2>1 DEF Advanced, Cal
<1>5. Advanced(5, b) = Cal(y, mo + 1, 1, 0, 0, 0)
  <2>1. Stage(5, b) = Cal(y, mo, 1, 0, 0, 0) /\ Fields[5] = "Month"
    BY StageParts, FieldNames
  <2>. QED  BY <2>1 DEF Advanced, Cal
<1>. QED  BY <1>1, <1>2, <1>3, <1>4, <1>5, Zenon

-----------------------------------------------------------------------------
(***************************************************************************)
(* The number of a day.                                                    *)
(***************************************************************************)
LEMMA DayNumberCounts ==
  ASSUME NEW y \in Nat, NEW mo \in Nat, NEW d \in Nat
  PROVE  /\ DayNumber(y, mo, d) \in Int
         /\ DayNumber(y, mo, d) = DayNumber(y, mo, 0) + d
<1>1. y - 1 \in Int /\ 367 * mo - 362 \in Int
  OBVIOUS
<1>. QED  BY <1>1 DEF DayNumber

\* The day after the last of a month is the first of the next.
LEMMA MonthEnds ==
  ASSUME NEW y \in Nat, NEW mo \in 1..12
  PROVE  /\ DayNumber(y, mo + 1, 1) = DayNumber(y, mo, Length(y, mo)) + 1
         /\ Length(y, mo) \in Nat /\ Length(y, mo) >= 1 /\ Length(y, mo) <= 31
<1>1. CASE mo = 1
  BY <1>1 DEF DayNumber, Length, MonthLength
<1>2. CASE mo = 2
  BY <1>2 DEF DayNumber, Length, MonthLength
<1>3. CASE mo = 3
  BY <1>3 DEF DayNumber, Length, MonthLength
<1>4. CASE mo = 4
  BY <1>4 DEF DayNumber, Length, MonthLength
<1>5. CASE mo = 5
  BY <1>5 DEF DayNumber, Length, MonthLength
<1>6. CASE mo = 6
  BY <1>6 DEF DayNumber, Length, MonthLength
<1>7. CASE mo = 7
  BY <1>7 DEF DayNumber, Length, MonthLength
<1>8. CASE mo = 8
  BY <1>8 DEF DayNumber, Length, MonthLength
<1>9. CASE mo = 9
  BY <1>9 DEF DayNumber, Length, MonthLength
<1>10. CASE mo = 10
  BY <1>10 DEF DayNumber, Length, MonthLength
<1>11. CASE mo = 11
  BY <1>11 DEF DayNumber, Length, MonthLength
<1>12. CASE mo = 12
  BY <1>12 DEF DayNumber, Length, MonthLength
<1>. QED  BY <1>1, <1>2, <1>3, <1>4, <1>5, <1>6, <1>7, <1>8, <1>9, <1>10, <1>11, <1>12

\* The day after the last of a year is the first of the next.
LEMMA YearEnds ==
  ASSUME NEW y \in Nat
  PROVE  /\ DayNumber(y + 1, 1, 1) = DayNumber(y, 13, 1)
         /\ DayNumber(y, 1, 1) <= DayNumber(y, 13, 1)
<1>. DEFINE leap == y \div 4 - (y - 1) \div 4 - (y \div 100 - (y - 1) \div 100)
                      + (y \div 400 - (y - 1) \div 400)
<1>1. IsLeap(y) => leap = 1
  BY DEF IsLeap
<1>2. ~IsLeap(y) => leap = 0
  BY DEF IsLeap
<1>. QED  BY <1>1, <1>2 DEF DayNumber

\* Seconds between two calendars, by day number and time of day.
LEMMA ElapsedCal ==
  ASSUME NEW y, NEW mo, NEW d, NEW h, NEW mi, NEW s,
         NEW yy, NEW mm, NEW dd, NEW hh, NEW nn, NEW ss
  PROVE  Elapsed(Cal(y, mo, d, h, mi, s), Cal(yy, mm, dd, hh, nn, ss)) =
           DaySeconds * (DayNumber(yy, mm, dd) - DayNumber(y, mo, d))
             + 3600 * (hh - h) + 60 * (nn - mi) + (ss - s)
<1>. DEFINE a == Cal(y, mo, d, h, mi, s)
            b == Cal(yy, mm, dd, hh, nn, ss)
<1>1. /\ a.Sec = s /\ a.Min = mi /\ a.Hour = h
      /\ a.Day = d /\ a.Month = mo /\ a.Year = y
  BY DEF Cal
<1>2. /\ b.Sec = ss /\ b.Min = nn /\ b.Hour = hh
      /\ b.Day = dd /\ b.Month = mm /\ b.Year = yy
  BY DEF Cal
<1>. HIDE DEF a, b
<1>3. Elapsed(a, b) =  DaySeconds * (DayNumber(yy, mm, dd) - DayNumber(y, mo, d))
             + 3600 * (hh - h) + 60 * (nn - mi) + (ss - s)
  BY <1>1, <1>2 DEF Elapsed
<1>. QED  BY <1>3 DEF a, b

-----------------------------------------------------------------------------
(***************************************************************************)
(* The stages of an update.                                                *)
(***************************************************************************)
\* A field that has advanced is one second later than the calendar the
\* update began with.
LEMMA AdvancedElapsed ==
  ASSUME NEW b, Proper(b), NEW k \in 1..5, Ended(k, b)
  PROVE  Elapsed(b, Advanced(k, b)) = 1
<1>. PICK y, mo, d, h, mi, s \in Nat :
       /\ b = Cal(y, mo, d, h, mi, s)
       /\ y < UINT16 /\ mo >= 1 /\ mo <= 12 /\ d >= 1 /\ d <= Length(y, mo)
       /\ h <= 23 /\ mi <= 59 /\ s <= 59
  BY ProperParts, Zenon
<1>0. DayNumber(y, mo, d) \in Int /\ DayNumber(y, mo, d + 1) = DayNumber(y, mo, d) + 1
  <2>1. d + 1 \in Nat /\ 0 \in Nat
    OBVIOUS
  <2>2. /\ DayNumber(y, mo, d) = DayNumber(y, mo, 0) + d
        /\ DayNumber(y, mo, d + 1) = DayNumber(y, mo, 0) + (d + 1)
        /\ DayNumber(y, mo, d) \in Int /\ DayNumber(y, mo, 0) \in Int
    BY <2>1, DayNumberCounts, Zenon
  <2>. QED  BY <2>2
<1>1. CASE k = 1
  <2>1. Advanced(k, b) = Cal(y, mo, d, h, mi, s + 1)
    BY <1>1, AdvancedParts
  <2>. QED  BY <1>0, <2>1, ElapsedCal DEF DaySeconds
<1>2. CASE k = 2
  <2>1. Advanced(k, b) = Cal(y, mo, d, h, mi + 1, 0)
    BY <1>2, AdvancedParts
  <2>2. s = 59
    BY <1>2, EndedParts
  <2>. QED  BY <1>0, <2>1, <2>2, ElapsedCal DEF DaySeconds
<1>3. CASE k = 3
  <2>1. Advanced(k, b) = Cal(y, mo, d, h + 1, 0, 0)
    BY <1>3, AdvancedParts
  <2>2. s = 59 /\ mi = 59
    BY <1>3, EndedParts
  <2>. QED  BY <1>0, <2>1, <2>2, ElapsedCal DEF DaySeconds
<1>4. CASE k = 4
  <2>1. Advanced(k, b) = Cal(y, mo, d + 1, 0, 0, 0)
    BY <1>4, AdvancedParts
  <2>2. s = 59 /\ mi = 59 /\ h = 23
    BY <1>4, EndedParts
  <2>. QED  BY <1>0, <2>1, <2>2, ElapsedCal DEF DaySeconds
<1>5. CASE k = 5
  <2>1. Advanced(k, b) = Cal(y, mo + 1, 1, 0, 0, 0)
    BY <1>5, AdvancedParts
  <2>2. s = 59 /\ mi = 59 /\ h = 23 /\ d = Length(y, mo)
    BY <1>5, EndedParts
  <2>3. DayNumber(y, mo + 1, 1) = DayNumber(y, mo, d) + 1
    <3>1. mo \in 1..12
      OBVIOUS
    <3>2. DayNumber(y, mo + 1, 1) = DayNumber(y, mo, Length(y, mo)) + 1
      BY <3>1, MonthEnds, Zenon
    <3>. QED  BY <2>2, <3>2, Zenon
  <2>. QED  BY <1>0, <2>1, <2>2, <2>3, ElapsedCal DEF DaySeconds
<1>. QED  BY <1>1, <1>2, <1>3, <1>4, <1>5

\* The update begins with the calendar as it is.
LEMMA StageOne ==
  ASSUME NEW b, Proper(b)
  PROVE  Stage(1, b) = b /\ Ended(1, b) /\ 1 \in 1..6
<1>. PICK y, mo, d, h, mi, s \in Nat :
       /\ b = Cal(y, mo, d, h, mi, s)
       /\ y < UINT16 /\ mo >= 1 /\ mo <= 12 /\ d >= 1 /\ d <= Length(y, mo)
       /\ h <= 23 /\ mi <= 59 /\ s <= 59
  BY ProperParts, Zenon
<1>1. Stage(1, b) = b
  BY StageParts
<1>2. Ended(1, b) /\ 1 \in 1..6
  BY DEF Ended
<1>. QED  BY <1>1, <1>2, Zenon

\* The increment does not leave the width of the field.
LEMMA StageStore ==
  ASSUME NEW b, Proper(b), NEW k \in 1..5
  PROVE  /\ [Stage(k, b) EXCEPT ![Fields[k]] =
               (Stage(k, b)[Fields[k]] + 1) % Width(Fields[k])] = Advanced(k, b)
         /\ Fields[k] # "Year"
<1>. PICK y, mo, d, h, mi, s \in Nat :
       /\ b = Cal(y, mo, d, h, mi, s)
       /\ y < UINT16 /\ mo >= 1 /\ mo <= 12 /\ d >= 1 /\ d <= Length(y, mo)
       /\ h <= 23 /\ mi <= 59 /\ s <= 59
  BY ProperParts, Zenon
<1>0. /\ s + 1 \in Nat /\ mi + 1 \in Nat /\ h + 1 \in Nat /\ d + 1 \in Nat /\ mo + 1 \in Nat
      /\ s + 1 < UINT8 /\ mi + 1 < UINT8 /\ h + 1 < UINT8 /\ d + 1 < UINT8 /\ mo + 1 < UINT8
  <2>1. mo \in 1..12
    OBVIOUS
  <2>2. Length(y, mo) \in Nat /\ Length(y, mo) <= 31
    BY <2>1, MonthEnds, Zenon
  <2>. QED  BY <2>2 DEF UINT8
<1>w. /\ (s + 1) % UINT8 = s + 1 /\ (mi + 1) % UINT8 = mi + 1 /\ (h + 1) % UINT8 = h + 1
      /\ (d + 1) % UINT8 = d + 1 /\ (mo + 1) % UINT8 = mo + 1
  BY <1>0 DEF UINT8
<1>1. CASE k = 1
  <2>1. Stage(k, b) = Cal(y, mo, d, h, mi, s) /\ Advanced(k, b) = Cal(y, mo, d, h, mi, s + 1)
    BY <1>1, StageParts, AdvancedParts
  <2>2. Fields[k] = "Sec" /\ Width("Sec") = UINT8
    BY <1>1, FieldNames DEF Width
  <2>3. Cal(y, mo, d, h, mi, s)["Sec"] = s
    BY CalFields
  <2>4. [Cal(y, mo, d, h, mi, s) EXCEPT !["Sec"] = s + 1] = Cal(y, mo, d, h, mi, s + 1)
    BY DEF Cal
  <2>. QED  BY <1>w, <2>1, <2>2, <2>3, <2>4, Zenon
<1>2. CASE k = 2
  <2>1. Stage(k, b) = Cal(y, mo, d, h, mi, 0) /\ Advanced(k, b) = Cal(y, mo, d, h, mi + 1, 0)
    BY <1>2, StageParts, AdvancedParts
  <2>2. Fields[k] = "Min" /\ Width("Min") = UINT8
    BY <1>2, FieldNames DEF Width
  <2>3. Cal(y, mo, d, h, mi, 0)["Min"] = mi
    BY CalFields
  <2>4. [Cal(y, mo, d, h, mi, 0) EXCEPT !["Min"] = mi + 1] = Cal(y, mo, d, h, mi + 1, 0)
    BY DEF Cal
  <2>. QED  BY <1>w, <2>1, <2>2, <2>3, <2>4
<1>3. CASE k = 3
  <2>1. Stage(k, b) = Cal(y, mo, d, h, 0, 0) /\ Advanced(k, b) = Cal(y, mo, d, h + 1, 0, 0)
    BY <1>3, StageParts, AdvancedParts
  <2>2. Fields[k] = "Hour" /\ Width("Hour") = UINT8
    BY <1>3, FieldNames DEF Width
  <2>3. Cal(y, mo, d, h, 0, 0)["Hour"] = h
    BY CalFields
  <2>4. [Cal(y, mo, d, h, 0, 0) EXCEPT !["Hour"] = h + 1] = Cal(y, mo, d, h + 1, 0, 0)
    BY DEF Cal
  <2>. QED  BY <1>w, <2>1, <2>2, <2>3, <2>4
<1>4. CASE k = 4
  <2>1. Stage(k, b) = Cal(y, mo, d, 0, 0, 0) /\ Advanced(k, b) = Cal(y, mo, d + 1, 0, 0, 0)
    BY <1>4, StageParts, AdvancedParts
  <2>2. Fields[k] = "Day" /\ Width("Day") = UINT8
    BY <1>4, FieldNames DEF Width
  <2>3. Cal(y, mo, d, 0, 0, 0)["Day"] = d
    BY CalFields
  <2>4. [Cal(y, mo, d, 0, 0, 0) EXCEPT !["Day"] = d + 1] = Cal(y, mo, d + 1, 0, 0, 0)
    BY DEF Cal
  <2>. QED  BY <1>w, <2>1, <2>2, <2>3, <2>4
<1>5. CASE k = 5
  <2>1. Stage(k, b) = Cal(y, mo, 1, 0, 0, 0) /\ Advanced(k, b) = Cal(y, mo + 1, 1, 0, 0, 0)
    BY <1>5, StageParts, AdvancedParts
  <2>2. Fields[k] = "Month" /\ Width("Month") = UINT8
    BY <1>5, FieldNames DEF Width
  <2>3. Cal(y, mo, 1, 0, 0, 0)["Month"] = mo
    BY CalFields
  <2>4. [Cal(y, mo, 1, 0, 0, 0) EXCEPT !["Month"] = mo + 1] = Cal(y, mo + 1, 1, 0, 0, 0)
    BY DEF Cal
  <2>. QED  BY <1>w, <2>1, <2>2, <2>3, <2>4
<1>. QED  BY <1>1, <1>2, <1>3, <1>4, <1>5

\* The test finds the field past its end exactly when it was at its end; else
\* the update leaves a date that exists.
LEMMA AdvancedTest ==
  ASSUME NEW b, Proper(b), NEW k \in 1..5, Ended(k, b)
  PROVE  /\ Passed(Advanced(k, b), Fields[k]) => Ended(k + 1, b)
         /\ ~Passed(Advanced(k, b), Fields[k]) => Proper(Advanced(k, b))
<1>. PICK y, mo, d, h, mi, s \in Nat :
       /\ b = Cal(y, mo, d, h, mi, s)
       /\ y < UINT16 /\ mo >= 1 /\ mo <= 12 /\ d >= 1 /\ d <= Length(y, mo)
       /\ h <= 23 /\ mi <= 59 /\ s <= 59
  BY ProperParts, Zenon
<1>0. mo \in 1..12 /\ Length(y, mo) \in Nat /\ Length(y, mo) >= 1
  <2>1. mo \in 1..12
    OBVIOUS
  <2>. QED  BY <2>1, MonthEnds, Zenon
<1>1. CASE k = 1
  <2>1. Advanced(k, b) = Cal(y, mo, d, h, mi, s + 1)
    BY <1>1, AdvancedParts
  <2>2. Ended(2, b) <=> s = 59
    BY EndedParts
  <2>4. Passed(Cal(y, mo, d, h, mi, s + 1), "Sec") <=> s + 1 = 60
    BY <1>0, CalFields DEF Passed
  <2>5. ~(s + 1 = 60) => Proper(Cal(y, mo, d, h, mi, s + 1))
    <3>. SUFFICES ASSUME ~(s + 1 = 60) PROVE Proper(Cal(y, mo, d, h, mi, s + 1))
      OBVIOUS
    <3>3. IsDate(y, mo, d, h, mi, s + 1)
      BY <1>0 DEF IsDate
    <3>. QED  BY <3>3, ProperCal
  <2>6. s + 1 = 60 => s = 59
    BY <1>0
  <2>. QED  BY <1>1, <2>1, <2>2, <2>4, <2>5, <2>6, FieldNames
<1>2. CASE k = 2
  <2>1. Advanced(k, b) = Cal(y, mo, d, h, mi + 1, 0)
    BY <1>2, AdvancedParts
  <2>2. Ended(3, b) <=> s = 59 /\ mi = 59
    BY EndedParts
  <2>3. s = 59
    BY <1>2, EndedParts
  <2>4. Passed(Cal(y, mo, d, h, mi + 1, 0), "Min") <=> mi + 1 > 59
    BY <1>0, CalFields DEF Passed
  <2>5. ~(mi + 1 > 59) => Proper(Cal(y, mo, d, h, mi + 1, 0))
    <3>. SUFFICES ASSUME ~(mi + 1 > 59) PROVE Proper(Cal(y, mo, d, h, mi + 1, 0))
      OBVIOUS
    <3>3. IsDate(y, mo, d, h, mi + 1, 0)
      BY <1>0 DEF IsDate
    <3>. QED  BY <3>3, ProperCal
  <2>6. mi + 1 > 59 => mi = 59
    BY <1>0
  <2>. QED  BY <1>2, <2>1, <2>2, <2>3, <2>4, <2>5, <2>6, FieldNames
<1>3. CASE k = 3
  <2>1. Advanced(k, b) = Cal(y, mo, d, h + 1, 0, 0)
    BY <1>3, AdvancedParts
  <2>2. Ended(4, b) <=> s = 59 /\ mi = 59 /\ h = 23
    BY EndedParts
  <2>3. s = 59 /\ mi = 59
    BY <1>3, EndedParts
  <2>4. Passed(Cal(y, mo, d, h + 1, 0, 0), "Hour") <=> h + 1 > 23
    BY <1>0, CalFields DEF Passed
  <2>5. ~(h + 1 > 23) => Proper(Cal(y, mo, d, h + 1, 0, 0))
    <3>. SUFFICES ASSUME ~(h + 1 > 23) PROVE Proper(Cal(y, mo, d, h + 1, 0, 0))
      OBVIOUS
    <3>3. IsDate(y, mo, d, h + 1, 0, 0)
      BY <1>0 DEF IsDate
    <3>. QED  BY <3>3, ProperCal
  <2>6. h + 1 > 23 => h = 23
    BY <1>0
  <2>. QED  BY <1>3, <2>1, <2>2, <2>3, <2>4, <2>5, <2>6, FieldNames
<1>4. CASE k = 4
  <2>1. Advanced(k, b) = Cal(y, mo, d + 1, 0, 0, 0)
    BY <1>4, AdvancedParts
  <2>2. Ended(5, b) <=> s = 59 /\ mi = 59 /\ h = 23 /\ d = Length(y, mo)
    BY EndedParts
  <2>3. s = 59 /\ mi = 59 /\ h = 23
    BY <1>4, EndedParts
  <2>4. Passed(Cal(y, mo, d + 1, 0, 0, 0), "Day") <=> d + 1 > Length(y, mo)
    BY <1>0, CalFields DEF Passed, LeapMonth, Length, IsLeap, MonthLength
  <2>5. ~(d + 1 > Length(y, mo)) => Proper(Cal(y, mo, d + 1, 0, 0, 0))
    <3>. SUFFICES ASSUME ~(d + 1 > Length(y, mo)) PROVE Proper(Cal(y, mo, d + 1, 0, 0, 0))
      OBVIOUS
    <3>3. IsDate(y, mo, d + 1, 0, 0, 0)
      BY <1>0 DEF IsDate
    <3>. QED  BY <3>3, ProperCal
  <2>6. d + 1 > Length(y, mo) => d = Length(y, mo)
    BY <1>0
  <2>. QED  BY <1>4, <2>1, <2>2, <2>3, <2>4, <2>5, <2>6, FieldNames
<1>5. CASE k = 5
  <2>1. Advanced(k, b) = Cal(y, mo + 1, 1, 0, 0, 0)
    BY <1>5, AdvancedParts
  <2>2. Ended(6, b) <=> s = 59 /\ mi = 59 /\ h = 23 /\ d = Length(y, mo) /\ mo = 12
    BY EndedParts
  <2>3. s = 59 /\ mi = 59 /\ h = 23 /\ d = Length(y, mo)
    BY <1>5, EndedParts
  <2>4. Passed(Cal(y, mo + 1, 1, 0, 0, 0), "Month") <=> mo + 1 > 12
    BY <1>0, CalFields DEF Passed
  <2>5. ~(mo + 1 > 12) => Proper(Cal(y, mo + 1, 1, 0, 0, 0))
    <3>. SUFFICES ASSUME ~(mo + 1 > 12) PROVE Proper(Cal(y, mo + 1, 1, 0, 0, 0))
      OBVIOUS
    <3>1. mo + 1 \in 1..12
      BY <1>0
    <3>2. Length(y, mo + 1) \in Nat /\ Length(y, mo + 1) >= 1
      BY <3>1, MonthEnds, Zenon
    <3>3. IsDate(y, mo + 1, 1, 0, 0, 0)
      BY <1>0, <3>2 DEF IsDate
    <3>. QED  BY <3>3, ProperCal
  <2>6. mo + 1 > 12 => mo = 12
    BY <1>0
  <2>. QED  BY <1>5, <2>1, <2>2, <2>3, <2>4, <2>5, <2>6, FieldNames
<1>. QED  BY <1>1, <1>2, <1>3, <1>4, <1>5

\* The carry resets the field.
LEMMA AdvancedCarry ==
  ASSUME NEW b, Proper(b), NEW k \in 1..5
  PROVE  [Advanced(k, b) EXCEPT ![Fields[k]] = First(Fields[k])] = Stage(k + 1, b)
<1>. PICK y, mo, d, h, mi, s \in Nat :
       /\ b = Cal(y, mo, d, h, mi, s)
       /\ y < UINT16 /\ mo >= 1 /\ mo <= 12 /\ d >= 1 /\ d <= Length(y, mo)
       /\ h <= 23 /\ mi <= 59 /\ s <= 59
  BY ProperParts, Zenon
<1>1. CASE k = 1
  <2>1. Stage(2, b) = Cal(y, mo, d, h, mi, 0) /\ Advanced(1, b) = Cal(y, mo, d, h, mi, s + 1)
    BY StageParts, AdvancedParts
  <2>2. Fields[1] = "Sec" /\ First("Sec") = 0
    BY FieldNames DEF First
  <2>3. [Cal(y, mo, d, h, mi, s + 1) EXCEPT !["Sec"] = 0] = Cal(y, mo, d, h, mi, 0)
    BY DEF Cal
  <2>. QED  BY <1>1, <2>1, <2>2, <2>3
<1>2. CASE k = 2
  <2>1. Stage(3, b) = Cal(y, mo, d, h, 0, 0) /\ Advanced(2, b) = Cal(y, mo, d, h, mi + 1, 0)
    BY StageParts, AdvancedParts
  <2>2. Fields[2] = "Min" /\ First("Min") = 0
    BY FieldNames DEF First
  <2>3. [Cal(y, mo, d, h, mi + 1, 0) EXCEPT !["Min"] = 0] = Cal(y, mo, d, h, 0, 0)
    BY DEF Cal
  <2>. QED  BY <1>2, <2>1, <2>2, <2>3
<1>3. CASE k = 3
  <2>1. Stage(4, b) = Cal(y, mo, d, 0, 0, 0) /\ Advanced(3, b) = Cal(y, mo, d, h + 1, 0, 0)
    BY StageParts, AdvancedParts
  <2>2. Fields[3] = "Hour" /\ First("Hour") = 0
    BY FieldNames DEF First
  <2>3. [Cal(y, mo, d, h + 1, 0, 0) EXCEPT !["Hour"] = 0] = Cal(y, mo, d, 0, 0, 0)
    BY DEF Cal
  <2>. QED  BY <1>3, <2>1, <2>2, <2>3
<1>4. CASE k = 4
  <2>1. Stage(5, b) = Cal(y, mo, 1, 0, 0, 0) /\ Advanced(4, b) = Cal(y, mo, d + 1, 0, 0, 0)
    BY StageParts, AdvancedParts
  <2>2. Fields[4] = "Day" /\ First("Day") = 1
    BY FieldNames DEF First
  <2>3. [Cal(y, mo, d + 1, 0, 0, 0) EXCEPT !["Day"] = 1] = Cal(y, mo, 1, 0, 0, 0)
    BY DEF Cal
  <2>. QED  BY <1>4, <2>1, <2>2, <2>3
<1>5. CASE k = 5
  <2>1. Stage(6, b) = Cal(y, 1, 1, 0, 0, 0) /\ Advanced(5, b) = Cal(y, mo + 1, 1, 0, 0, 0)
    BY StageParts, AdvancedParts
  <2>2. Fields[5] = "Month" /\ First("Month") = 1
    BY FieldNames DEF First
  <2>3. [Cal(y, mo + 1, 1, 0, 0, 0) EXCEPT !["Month"] = 1] = Cal(y, 1, 1, 0, 0, 0)
    BY DEF Cal
  <2>. QED  BY <1>5, <2>1, <2>2, <2>3
<1>. QED  BY <1>1, <1>2, <1>3, <1>4, <1>5

\* A stage that waits for its increment lies in the past.
LEMMA StageElapsed ==
  ASSUME NEW b, Proper(b), NEW k \in 1..6, Ended(k, b)
  PROVE  Elapsed(b, Stage(k, b)) \in Int /\ Elapsed(b, Stage(k, b)) <= 0
<1>. PICK y, mo, d, h, mi, s \in Nat :
       /\ b = Cal(y, mo, d, h, mi, s)
       /\ y < UINT16 /\ mo >= 1 /\ mo <= 12 /\ d >= 1 /\ d <= Length(y, mo)
       /\ h <= 23 /\ mi <= 59 /\ s <= 59
  BY ProperParts, Zenon
<1>0. /\ DayNumber(y, mo, d) \in Int /\ DayNumber(y, mo, 1) \in Int
      /\ DayNumber(y, mo, 1) <= DayNumber(y, mo, d)
  <2>1. 1 \in Nat /\ 0 \in Nat
    OBVIOUS
  <2>2. /\ DayNumber(y, mo, d) = DayNumber(y, mo, 0) + d
        /\ DayNumber(y, mo, 1) = DayNumber(y, mo, 0) + 1
        /\ DayNumber(y, mo, d) \in Int /\ DayNumber(y, mo, 1) \in Int
        /\ DayNumber(y, mo, 0) \in Int
    BY <2>1, DayNumberCounts, Zenon
  <2>. QED  BY <2>2
<1>1. CASE k = 1
  <2>1. Stage(k, b) = Cal(y, mo, d, h, mi, s)
    BY <1>1, StageParts
  <2>. QED  BY <1>0, <2>1, ElapsedCal DEF DaySeconds
<1>2. CASE k = 2
  <2>1. Stage(k, b) = Cal(y, mo, d, h, mi, 0)
    BY <1>2, StageParts
  <2>. QED  BY <1>0, <2>1, ElapsedCal DEF DaySeconds
<1>3. CASE k = 3
  <2>1. Stage(k, b) = Cal(y, mo, d, h, 0, 0)
    BY <1>3, StageParts
  <2>. QED  BY <1>0, <2>1, ElapsedCal DEF DaySeconds
<1>4. CASE k = 4
  <2>1. Stage(k, b) = Cal(y, mo, d, 0, 0, 0)
    BY <1>4, StageParts
  <2>. QED  BY <1>0, <2>1, ElapsedCal DEF DaySeconds
<1>5. CASE k = 5
  <2>1. Stage(k, b) = Cal(y, mo, 1, 0, 0, 0)
    BY <1>5, StageParts
  <2>. QED  BY <1>0, <2>1, ElapsedCal DEF DaySeconds
<1>6. CASE k = 6
  <2>1. Stage(k, b) = Cal(y, 1, 1, 0, 0, 0)
    BY <1>6, StageParts
  <2>2. /\ DayNumber(y, 1, 1) \in Int
        /\ DayNumber(y, 1, 1) <= DayNumber(y, mo, d)
    <3>1. d = Length(y, mo) /\ mo = 12 /\ mo \in 1..12
      BY <1>6, EndedParts
    <3>2. /\ DayNumber(y, mo + 1, 1) = DayNumber(y, mo, Length(y, mo)) + 1
          /\ DayNumber(y, 1, 1) <= DayNumber(y, 13, 1)
      BY <3>1, MonthEnds, YearEnds, Zenon
    <3>3. DayNumber(y, 1, 1) \in Int /\ DayNumber(y, 13, 1) \in Int
      BY DayNumberCounts
    <3>4. DayNumber(y, 1, 1) # DayNumber(y, 13, 1)
      BY DEF DayNumber
    <3>. QED  BY <1>0, <3>1, <3>2, <3>3, <3>4
  <2>. QED  BY <1>0, <2>1, <2>2, ElapsedCal DEF DaySeconds
<1>. QED  BY <1>1, <1>2, <1>3, <1>4, <1>5, <1>6

\* The year advances, or begins again.
LEMMA YearStore ==
  ASSUME NEW b, Proper(b), Ended(6, b),
         NEW c, c = [Stage(6, b) EXCEPT ![Fields[6]] =
                       (Stage(6, b)[Fields[6]] + 1) % Width(Fields[6])]
  PROVE  /\ Proper(c)
         /\ (b.Year = UINT16 - 1 /\ c.Year = 0) \/ Elapsed(b, c) = 1
<1>. PICK y, mo, d, h, mi, s \in Nat :
       /\ b = Cal(y, mo, d, h, mi, s)
       /\ y < UINT16 /\ mo >= 1 /\ mo <= 12 /\ d >= 1 /\ d <= Length(y, mo)
       /\ h <= 23 /\ mi <= 59 /\ s <= 59
  BY ProperParts, Zenon
<1>1. c = Cal((y + 1) % UINT16, 1, 1, 0, 0, 0)
  <2>1. Stage(6, b) = Cal(y, 1, 1, 0, 0, 0)
    BY StageParts
  <2>2. Fields[6] = "Year" /\ Width("Year") = UINT16
    BY FieldNames DEF Width
  <2>3. /\ Cal(y, 1, 1, 0, 0, 0)["Year"] = y
        /\ [Cal(y, 1, 1, 0, 0, 0) EXCEPT !["Year"] = (y + 1) % UINT16]
              = Cal((y + 1) % UINT16, 1, 1, 0, 0, 0)
    BY DEF Cal
  <2>. QED  BY <2>1, <2>2, <2>3
<1>2. /\ (y + 1) % UINT16 \in Nat /\ (y + 1) % UINT16 < UINT16
      /\ y = UINT16 - 1 => (y + 1) % UINT16 = 0
      /\ y # UINT16 - 1 => (y + 1) % UINT16 = y + 1
  BY DEF UINT16
<1>3. Proper(c)
  <2>1. 1 \in 1..12 /\ 1 <= 12 /\ 1 >= 1 /\ 0 <= 23 /\ 0 <= 59 /\ 1 \in Nat /\ 0 \in Nat
    OBVIOUS
  <2>2. 1 <= Length((y + 1) % UINT16, 1)
    BY DEF Length, MonthLength
  <2>3. IsDate((y + 1) % UINT16, 1, 1, 0, 0, 0)
    BY <1>2, <2>1, <2>2, Zenon DEF IsDate
  <2>. QED  BY <1>1, <2>3, ProperCal
<1>4. CASE y = UINT16 - 1
  BY <1>1, <1>2, <1>3, <1>4 DEF Cal
<1>5. CASE y # UINT16 - 1
  <2>1. s = 59 /\ mi = 59 /\ h = 23 /\ d = Length(y, mo) /\ mo = 12 /\ mo \in 1..12
    BY EndedParts
  <2>2. DayNumber(y + 1, 1, 1) = DayNumber(y, mo, d) + 1
    <3>1. /\ DayNumber(y, mo + 1, 1) = DayNumber(y, mo, Length(y, mo)) + 1
          /\ DayNumber(y + 1, 1, 1) = DayNumber(y, 13, 1)
      BY <2>1, MonthEnds, YearEnds, Zenon
    <3>2. mo + 1 = 13
      BY <2>1
    <3>. QED  BY <2>1, <3>1, <3>2, Zenon
  <2>3. DayNumber(y, mo, d) \in Int
    BY DayNumberCounts, Zenon
  <2>4. c = Cal(y + 1, 1, 1, 0, 0, 0)
    BY <1>1, <1>2, <1>5, Zenon
  <2>5. Elapsed(b, c) = 1
    BY <2>1, <2>2, <2>3, <2>4, ElapsedCal DEF DaySeconds
  <2>. QED  BY <1>3, <2>5, Zenon
<1>. QED  BY <1>4, <1>5, Zenon

UpdateInv ==
  /\ Proper(before) /\ field \in 1..6 /\ Ended(field, before)
  /\ \/ phase = "load" /\ OSRtc = Stage(field, before)
     \/ phase = "store" /\ OSRtc = Stage(field, before) /\ register = OSRtc[Fields[field]]
     \/ phase = "test" /\ field # 6 /\ OSRtc = Advanced(field, before)
     \/ phase = "carry" /\ field # 6 /\ OSRtc = Advanced(field, before)
                        /\ Ended(field + 1, before)

CalendarInv ==
  ~disturbed =>
    \/ phase = "idle" /\ Proper(OSRtc) /\ CalendarCounts
    \/ UpdateInv

\* The calendars the application sets.
LEMMA DateProper ==
  ASSUME NEW rtc \in Dates
  PROVE  Proper(rtc)
<1>1. rtc \in Calendars /\ ValidDate(rtc)
  BY OSTimeAssumption, Zenon
<1>2. UINT16 \in Nat
  BY DEF UINT16
<1>3. /\ rtc.Year \in 1..(UINT16 - 1) /\ rtc.Month \in 1..13 /\ rtc.Day \in 1..32
      /\ rtc.Hour \in 0..24 /\ rtc.Min \in 0..60 /\ rtc.Sec \in 0..60
      /\ rtc = [Year |-> rtc.Year, Month |-> rtc.Month, Day |-> rtc.Day,
                Hour |-> rtc.Hour, Min |-> rtc.Min, Sec |-> rtc.Sec]
  BY <1>1 DEF Calendars
<1>4. /\ rtc.Year \in Nat /\ rtc.Month \in Nat /\ rtc.Day \in Nat
      /\ rtc.Hour \in Nat /\ rtc.Min \in Nat /\ rtc.Sec \in Nat
      /\ rtc.Month >= 1 /\ rtc.Day >= 1 /\ rtc.Year < UINT16
  BY <1>2, <1>3
<1>5. rtc \in [Year : Nat, Month : Nat, Day : Nat, Hour : Nat, Min : Nat, Sec : Nat]
  BY <1>3, <1>4
<1>. QED  BY <1>1, <1>4, <1>5, Zenon DEF Proper

\* Init_Calendar sets an existing date.
LEMMA CalendarInitInv ==
  ASSUME Init
  PROVE  CalendarInv
<1>1. OSRtc = Init_Calendar /\ before = Init_Calendar /\ phase = "idle"
  BY Zenon DEF Init
<1>2. Init_Calendar = Cal(2011, 3, 28, 9, 0, 30)
  BY DEF Init_Calendar, Cal
<1>3. IsDate(2011, 3, 28, 9, 0, 30)
  BY DEF IsDate, Length, MonthLength, UINT16
<1>4. Proper(OSRtc)
  BY <1>1, <1>2, <1>3, ProperCal
<1>5. CalendarCounts
  BY <1>1, <1>4, Zenon DEF CalendarCounts, Proper
<1>. QED  BY <1>1, <1>4, <1>5, Zenon DEF CalendarInv

\* Every step preserves the invariant of the calendar.
LEMMA CalendarStepInv ==
  ASSUME CalendarInv, [Next]_vars
  PROVE  CalendarInv'
<1>u. /\ "idle" # "load" /\ "idle" # "store" /\ "idle" # "test" /\ "idle" # "carry"
      /\ "load" # "store" /\ "load" # "test" /\ "load" # "carry"
      /\ "store" # "test" /\ "store" # "carry" /\ "test" # "carry"
  OBVIOUS
<1>1. CASE OSUpdateCalendar
  <2>1. /\ phase = "idle" /\ phase' = "load" /\ field' = 1 /\ before' = OSRtc
        /\ OSRtc' = OSRtc /\ disturbed' = disturbed
    BY <1>1, Zenon DEF OSUpdateCalendar
  <2>2. CASE ~disturbed
    <3>1. Proper(OSRtc)
      BY <1>u, <2>1, <2>2, Zenon DEF CalendarInv, UpdateInv
    <3>2. Stage(1, OSRtc) = OSRtc /\ Ended(1, OSRtc) /\ 1 \in 1..6
      BY <3>1, StageOne, Zenon
    <3>. QED  BY <2>1, <3>1, <3>2, Zenon DEF CalendarInv, UpdateInv
  <2>. QED  BY <2>1, <2>2, Zenon DEF CalendarInv
<1>2. CASE \E rtc \in Dates : SetCalendar(rtc)
  <2>1. PICK rtc \in Dates : SetCalendar(rtc)
    BY <1>2, Zenon
  <2>2. OSRtc' = rtc /\ before' = rtc /\ phase' = phase /\ disturbed' = (phase # "idle")
    BY <2>1, Zenon DEF SetCalendar
  <2>3. CASE phase = "idle"
    <3>1. Proper(OSRtc')
      BY <2>2, DateProper, Zenon
    <3>2. CalendarCounts'
      BY <2>2, <3>1, Zenon DEF CalendarCounts, Proper
    <3>. QED  BY <2>2, <2>3, <3>1, <3>2, Zenon DEF CalendarInv
  <2>. QED  BY <2>2, <2>3, Zenon DEF CalendarInv
<1>3. CASE ~disturbed /\ disturbed' = disturbed /\ before' = before /\ UpdateInv
             /\ (Load \/ Store \/ Test \/ Carry)
  <2>0. Proper(before) /\ field \in 1..6 /\ Ended(field, before)
    BY <1>3, Zenon DEF UpdateInv
  <2>5. field # 6 => field \in 1..5
    BY <2>0
  <2>1. CASE Load
    <3>1. /\ phase = "load" /\ register' = OSRtc[Fields[field]] /\ phase' = "store"
          /\ OSRtc' = OSRtc /\ field' = field
      BY <2>1, Zenon DEF Load
    <3>2. OSRtc = Stage(field, before)
      BY <1>u, <1>3, <3>1, Zenon DEF UpdateInv
    <3>. QED  BY <1>3, <2>0, <3>1, <3>2, Zenon DEF CalendarInv, UpdateInv
  <2>2. CASE Store
    <3>1. /\ phase = "store" /\ field' = field
          /\ OSRtc' = [OSRtc EXCEPT ![Fields[field]] = (register + 1) % Width(Fields[field])]
          /\ phase' = IF Fields[field] = "Year" THEN "idle" ELSE "test"
      BY <2>2, Zenon DEF Store
    <3>2. OSRtc = Stage(field, before) /\ register = OSRtc[Fields[field]]
      BY <1>u, <1>3, <3>1, Zenon DEF UpdateInv
    <3>3. OSRtc' = [Stage(field, before) EXCEPT ![Fields[field]] =
                      (Stage(field, before)[Fields[field]] + 1) % Width(Fields[field])]
      BY <3>1, <3>2, Zenon
    <3>4. CASE field = 6
      <4>1. phase' = "idle"
        BY <3>1, <3>4, FieldNames, Zenon
      <4>2. /\ Proper(OSRtc')
            /\ \/ before.Year = UINT16 - 1 /\ OSRtc'.Year = 0
               \/ Elapsed(before, OSRtc') = 1
        BY <2>0, <3>3, <3>4, YearStore, Zenon
      <4>3. CalendarCounts'
        BY <1>3, <4>2, Zenon DEF CalendarCounts, Proper
      <4>. QED  BY <4>1, <4>2, <4>3, Zenon DEF CalendarInv
    <3>5. CASE field # 6
      <4>1. OSRtc' = Advanced(field, before) /\ Fields[field] # "Year"
        BY <2>0, <2>5, <3>3, <3>5, StageStore, Zenon
      <4>2. phase' = "test"
        BY <3>1, <4>1, Zenon
      <4>. QED  BY <1>3, <2>0, <3>1, <3>5, <4>1, <4>2, Zenon DEF CalendarInv, UpdateInv
    <3>. QED  BY <3>4, <3>5, Zenon
  <2>3. CASE Test
    <3>1. /\ phase = "test" /\ OSRtc' = OSRtc /\ field' = field
          /\ phase' = IF Passed(OSRtc, Fields[field]) THEN "carry" ELSE "idle"
      BY <2>3, Zenon DEF Test
    <3>2. OSRtc = Advanced(field, before) /\ field \in 1..5 /\ field # 6
      BY <1>u, <1>3, <2>5, <3>1, Zenon DEF UpdateInv
    <3>3. CASE Passed(OSRtc, Fields[field])
      <4>1. Ended(field + 1, before)
        BY <2>0, <3>2, <3>3, AdvancedTest, Zenon
      <4>. QED  BY <1>3, <2>0, <3>1, <3>2, <3>3, <4>1, Zenon DEF CalendarInv, UpdateInv
    <3>4. CASE ~Passed(OSRtc, Fields[field])
      <4>1. Proper(OSRtc)
        BY <2>0, <3>2, <3>4, AdvancedTest, Zenon
      <4>2. Elapsed(before, OSRtc) = 1
        BY <2>0, <3>2, AdvancedElapsed, Zenon
      <4>3. CalendarCounts'
        BY <1>3, <3>1, <4>1, <4>2, Zenon DEF CalendarCounts, Proper
      <4>. QED  BY <3>1, <3>4, <4>1, <4>3, Zenon DEF CalendarInv
    <3>. QED  BY <3>3, <3>4, Zenon
  <2>4. CASE Carry
    <3>1. /\ phase = "carry" /\ phase' = "load" /\ field' = field + 1
          /\ OSRtc' = [OSRtc EXCEPT ![Fields[field]] = First(Fields[field])]
      BY <2>4, Zenon DEF Carry
    <3>2. /\ OSRtc = Advanced(field, before) /\ field \in 1..5
          /\ Ended(field + 1, before)
      BY <1>u, <1>3, <2>5, <3>1, Zenon DEF UpdateInv
    <3>3. OSRtc' = Stage(field + 1, before)
      BY <2>0, <3>1, <3>2, AdvancedCarry, Zenon
    <3>4. field + 1 \in 1..6
      BY <3>2
    <3>. QED  BY <1>3, <2>0, <3>1, <3>2, <3>3, <3>4, Zenon DEF CalendarInv, UpdateInv
  <2>. QED  BY <1>3, <2>1, <2>2, <2>3, <2>4, Zenon
<1>4. CASE Load \/ Store \/ Test \/ Carry
  <2>1. disturbed' = disturbed /\ before' = before /\ phase # "idle"
    BY <1>u, <1>4, Zenon DEF Load, Store, Test, Carry
  <2>. QED  BY <1>3, <1>4, <2>1, Zenon DEF CalendarInv
<1>5. CASE ClockStep \/ UNCHANGED vars
  <2>1. UNCHANGED calendarVars
    BY <1>5, Zenon DEF ClockStep, OSUpdateTime, OSUpdateUptime, OSUpdateDate,
                       OSResetTime, OSResetDate, vars
  <2>. QED  BY <2>1, Zenon DEF calendarVars, CalendarInv, UpdateInv, CalendarCounts
<1>. QED  BY <1>1, <1>2, <1>4, <1>5, Zenon DEF Next, CalendarStep

(***************************************************************************)
(* Outside an update that SetCalendar interrupts, OSUpdateCalendar takes   *)
(* a date that exists to the next second, for every date and every number  *)
(* of updates (OSTime.c, OSUpdateCalendar).                                *)
(***************************************************************************)
THEOREM OSTimeCalendarCounts ==
  Spec => []CalendarCounts
<1>1. Init => CalendarInv
  BY CalendarInitInv, Zenon
<1>2. CalendarInv /\ [Next]_vars => CalendarInv'
  BY CalendarStepInv, Zenon
<1>3. CalendarInv => CalendarCounts
  <2>1. "idle" # "load" /\ "idle" # "store" /\ "idle" # "test" /\ "idle" # "carry"
    OBVIOUS
  <2>. QED  BY <2>1, Zenon DEF CalendarInv, CalendarCounts, UpdateInv
<1>. QED  BY <1>1, <1>2, <1>3, PTL DEF Spec

(***************************************************************************)
(* What GetCalendar copies between two steps of OSUpdateCalendar is at     *)
(* most the second the update leads to.                                    *)
(***************************************************************************)
THEOREM OSTimeReadsNeverAhead ==
  Spec => []ReadsNeverAhead
<1>1. Init => CalendarInv
  BY CalendarInitInv, Zenon
<1>2. CalendarInv /\ [Next]_vars => CalendarInv'
  BY CalendarStepInv, Zenon
<1>3. CalendarInv => ReadsNeverAhead
  <2>. SUFFICES ASSUME CalendarInv, phase # "idle", ~disturbed
                PROVE  Elapsed(before, OSRtc) <= 1
    BY Zenon DEF ReadsNeverAhead
  <2>1. UpdateInv /\ Proper(before) /\ field \in 1..6 /\ Ended(field, before)
    BY Zenon DEF CalendarInv, UpdateInv
  <2>2. CASE OSRtc = Stage(field, before)
    <3>1. Elapsed(before, OSRtc) <= 0
      BY <2>1, <2>2, StageElapsed, Zenon
    <3>2. Elapsed(before, OSRtc) \in Int
      BY <2>1, <2>2, StageElapsed
    <3>. QED  BY <3>1, <3>2
  <2>3. CASE OSRtc = Advanced(field, before) /\ field # 6
    <3>1. field \in 1..5
      BY <2>1, <2>3
    <3>2. Elapsed(before, OSRtc) = 1
      BY <2>1, <2>3, <3>1, AdvancedElapsed, Zenon
    <3>. QED  BY <3>2
  <2>. QED  BY <2>1, <2>2, <2>3, Zenon DEF UpdateInv
<1>. QED  BY <1>1, <1>2, <1>3, PTL DEF Spec

=============================================================================
