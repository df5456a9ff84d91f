------------------------------ MODULE MCOSTime ------------------------------
(***************************************************************************)
(* Calendars just before a carry, in years that are and are not leap, and  *)
(* clocks and uptimes just before theirs.                                  *)
(***************************************************************************)
EXTENDS OSTime

At(y, m, d) ==
  [Year |-> y, Month |-> m, Day |-> d, Hour |-> 23, Min |-> 59, Sec |-> 58]

MCDates ==
  {At(y, 2, 28) : y \in {1900, 2000, 2011, 2012}}
    \cup {At(2012, 2, 29), At(2012, 1, 31), At(2011, 4, 30), At(1999, 12, 31),
          At(65535, 12, 31)}
    \cup {[At(2011, 4, 30) EXCEPT !.Hour = 10]}

Midnight == [RTC_Second |-> 59, RTC_Minute |-> 59, RTC_Hour |-> 23]

MCStarts ==
  {[usage |-> "uptime", Hora |-> Midnight,
    Data |-> [RTC_Day |-> d, RTC_Month |-> 0, RTC_Year |-> 0]] : d \in {0, 255}}
  \cup {[usage |-> "clock", Hora |-> Midnight,
         Data |-> [RTC_Day |-> 29, RTC_Month |-> m, RTC_Year |-> 9998]]
           : m \in {10, 11}}
=============================================================================
