----------------------------- MODULE MCScheduler -----------------------------
(* Finite instances of Scheduler.  A small calendar: hours of two minutes,   *)
(* days of one hour, weeks of two days; the first month has one day, two in  *)
(* a leap year, the second one; every other year is a leap year.             *)
EXTENDS Scheduler, TLC

\* Ten minutes are a leap year of six and a year of four.
Leap(t) == t % 10 < 6
Day(t)  == ((t % 10) - (IF Leap(t) THEN 0 ELSE 6)) \div 2

SmallCalendar ==
    [t \in 0..24 |->
        LET january == IF Leap(t) THEN 2 ELSE 1
        IN  [minute |-> t % 2, hour |-> 0, dayOfWeek |-> (t \div 2) % 2,
             month |-> IF Day(t) < january THEN 1 ELSE 2,
             dayOfMonth |-> IF Day(t) < january THEN Day(t) + 1 ELSE 1]]

SmallRange ==
    [minute |-> <<0, 1>>, hour |-> <<0, 0>>, dayOfMonth |-> <<1, 2>>, month |-> <<1, 2>>,
     dayOfWeek |-> <<0, 1>>]

At(v) == [parts |-> << <<v, v>> >>, step |-> 1]

EveryMinute == [f \in CronFields |-> Every]
EvenMinutes == [EveryMinute EXCEPT !["minute"] = [parts |-> << <<0, 1>> >>, step |-> 2]]
Yearly      == [EvenMinutes EXCEPT !["dayOfMonth"] = At(1), !["month"] = At(1)]

OftenAndYearly == {EveryMinute, EvenMinutes, Yearly}
OnlyYearly     == {Yearly}
==============================================================================
