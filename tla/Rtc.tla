-------------------------------- MODULE Rtc --------------------------------
(***************************************************************************)
(* The tests of the real-time clock, src/RTC/rtc-ctrl.c, with the data of  *)
(* the build (GDR_RTC): the ten alarm tests, the user's own settings and   *)
(* the wait for the user's alarm.  The clock is external: it counts        *)
(* sixteenths of a second, and sets ALRM in its control register when the  *)
(* fields that TALRM and DALRM select become equal to those of the clock.  *)
(* ALRM stays until RTC_ALRM_DIS takes it back, and is the interrupt.      *)
(*                                                                         *)
(* A field is its number and not two BCD digits: rtc_time_to_u32 and       *)
(* rtc_date_to_u32 put the digits side by side.                            *)
(***************************************************************************)
EXTENDS Session, TLC

CONSTANTS
    Steps,      \* most sixteenths between two steps of the program
    Idle,       \* most sixteenths between two choices of the user
    Settings    \* the tests whose data the user enters too

ASSUME RtcAssumption == Steps \in Nat /\ Idle \in Nat

Patience == 16 * 10         \* the wait of sq_wait_for_int, in sixteenths

T(dow, hr, min, sec, sos) ==
    [dow |-> dow, hr |-> hr, min |-> min, sec |-> sec, sos |-> sos]
D(cent, yr, mth, day) ==
    [cent |-> cent, yr |-> yr, mth |-> mth, day |-> day]

\* SOCLE_RTC_TALRM_* and SOCLE_RTC_DALRM_*: the fields that bits 27 to 31
\* of the two alarm registers select (bit 31 of DALRM is none).
TALRM == <<"sos", "sec", "min", "hr", "dow">>
DALRM == <<"day", "mth", "yr", "cent">>
Selected(register, bits) == {register[b - 26] : b \in bits \cap
                                 (27 .. 26 + Len(register))}

NewYear == D(21, 7, 1, 1)
OldYear == D(21, 6, 12, 31)
Wed(hr, min, sec, sos) == T(3, hr, min, sec, sos)
Thursday == T(4, 0, 0, 0, 0)

\* The globals dt_a, tm_a, dt, tm and the flags that each test hands to
\* rtc_sub_alarm_test.
Alarm(dt_a, tm_a, dt, tm, f_time, f_date) ==
    [dt_a |-> dt_a, tm_a |-> tm_a, dt |-> dt, tm |-> tm,
     f_time |-> f_time, f_date |-> f_date]

rtc_all_alarm_test ==
    Alarm(OldYear, Wed(17, 58, 11, 2), OldYear, Wed(17, 58, 10, 2),
          27 .. 30, 27 .. 31)

rtc_sixteen_of_second_test ==
    Alarm(OldYear, Wed(17, 58, 59, 15), OldYear, Wed(17, 58, 59, 0), {27}, {})

rtc_second_test ==
    Alarm(OldYear, Wed(17, 58, 55, 1), OldYear, Wed(17, 58, 54, 0), {28}, {})

rtc_minute_test ==
    Alarm(OldYear, Wed(17, 59, 0, 1), OldYear, Wed(17, 58, 59, 0), {29}, {})

rtc_hour_test ==
    Alarm(OldYear, Wed(18, 0, 0, 0), OldYear, Wed(17, 59, 59, 0), {30}, {})

rtc_day_of_week_test ==
    Alarm(D(21, 6, 12, 21), Thursday, D(21, 6, 12, 20), Wed(23, 59, 59, 0),
          {31}, {})

rtc_day_test ==
    Alarm(D(21, 6, 12, 21), Thursday, D(21, 6, 12, 20), Wed(23, 59, 59, 0),
          {}, {27})

rtc_month_test ==
    Alarm(NewYear, Thursday, OldYear, Wed(23, 59, 59, 0), {}, {28})

rtc_year_test ==
    Alarm(NewYear, Thursday, OldYear, Wed(23, 59, 59, 0), {}, {29})

rtc_cenury_test ==
    Alarm(D(22, 0, 1, 1), Thursday, D(21, 99, 12, 31), Wed(23, 59, 59, 0),
          {}, {30})

Data ==
    [all    |-> rtc_all_alarm_test,    sos     |-> rtc_sixteen_of_second_test,
     second |-> rtc_second_test,       minute  |-> rtc_minute_test,
     hour   |-> rtc_hour_test,         dow     |-> rtc_day_of_week_test,
     day    |-> rtc_day_test,          month   |-> rtc_month_test,
     year   |-> rtc_year_test,         century |-> rtc_cenury_test]

Tests == DOMAIN Data

VARIABLES
    speed,      \* this board's clock: "good", "slow" or "dead"
    test,       \* the test that runs, or ran last; "user" for the wait
    clock,      \* SOCLE_RTC_TIME and SOCLE_RTC_DATE
    talrm,      \* SOCLE_RTC_TALRM: its values, and the fields it selects
    dalrm,
    alrm,       \* SOCLE_RTC_CTRL_ALRM
    ticks,      \* sixteenths since the last step of a test
    due,        \* history: the alarm of this test has been reached
    stale       \* history: an alarm of the test before came in rtc_reset

registers == <<clock, talrm, dalrm, alrm>>
rvars     == <<speed, test, registers, ticks, due, stale>>

RtcTypeOK ==
    /\ speed \in {"good", "slow", "dead"} /\ test \in Tests \cup {"user"}
    /\ alrm \in BOOLEAN /\ due \in BOOLEAN /\ stale \in BOOLEAN
    /\ ticks \in 0 .. Patience

Zero == T(0, 0, 0, 0, 0) @@ D(0, 0, 0, 0)

RtcInit ==
    /\ speed \in {"good", "slow", "dead"} /\ test = "all"
    /\ clock = Zero /\ alrm = FALSE
    /\ talrm = [at |-> T(0, 0, 0, 0, 0), on |-> {}]
    /\ dalrm = [at |-> D(0, 0, 0, 0), on |-> {}]
    /\ ticks = 0 /\ due = FALSE /\ stale = FALSE

Equal(c, ta, da) ==
    /\ ta.on \cup da.on # {}
    /\ \A f \in ta.on : c[f] = ta.at[f]
    /\ \A f \in da.on : c[f] = da.at[f]

\* The clock's part of a step: the comparison has become true.
Compare(pending) ==
    alrm' = (pending \/ (/\ Equal(clock', talrm', dalrm')
                         /\ ~Equal(clock, talrm, dalrm)))

(***************************************************************************)
(* The main thread                                                         *)
(***************************************************************************)
RMain(from, to) ==
    /\ Main("rtc", alrm, from, to) /\ ticks' = 0
    /\ UNCHANGED <<vec, iec, ret, speed>>

\* A store to a register of the clock.
SetTime(t) == clock' = t @@ clock /\ UNCHANGED <<talrm, dalrm>> /\ Compare(alrm)
SetDate(t) == SetTime(t)
SetTimeAlarm(t, on) ==
    /\ talrm' = [at |-> t, on |-> Selected(TALRM, on)]
    /\ UNCHANGED <<clock, dalrm>> /\ Compare(alrm)
SetDateAlarm(t, on) ==
    /\ dalrm' = [at |-> t, on |-> Selected(DALRM, on)]
    /\ UNCHANGED <<clock, talrm>> /\ Compare(alrm)

\* rtc_test: the clock is enabled.
RtcOpen ==
    /\ RMain("closed", "menu")
    /\ UNCHANGED <<flag, test, registers, due, stale>>

\* An alarm test of the menu stores its data, and rtc_reset begins with
\* RTC_ALRM_DIS.
AlarmTest ==
    /\ RMain("menu", "date0")
    /\ test' \in Tests /\ due' = FALSE /\ stale' = FALSE
    /\ alrm' = FALSE
    /\ UNCHANGED <<flag, clock, talrm, dalrm>>

\* rtc_reset: the clock is set to zero.  An alarm of the test before, whose
\* registers are still there, may come until then.
Reset ==
    /\ \/ RMain("date0", "time0") /\ SetDate(D(0, 0, 0, 0))
       \/ RMain("time0", "talrm") /\ SetTime(T(0, 0, 0, 0, 0))
    /\ stale' = alrm'
    /\ UNCHANGED <<flag, test, due>>

\* rtc_sub_alarm_test: the alarm, ...
SetAlarm ==
    LET d == Data[test] IN
    /\ \/ RMain("talrm", "dalrm") /\ SetTimeAlarm(d.tm_a, d.f_time)
       \/ RMain("dalrm", "request") /\ SetDateAlarm(d.dt_a, d.f_date)
    /\ UNCHANGED <<flag, test, due, stale>>

\* ... the handler, ...
RequestAlarm ==
    /\ Request("rtc", alrm, "request", "date")
    /\ flag' = 0 /\ ticks' = 0
    /\ UNCHANGED <<speed, test, registers, due, stale>>

\* ... the time, ...
SetClock_date_only ==
    LET d == Data[test] IN
    /\ \/ RMain("date", "time") /\ SetDate(d.dt)
       \/ RMain("time", "wait") /\ UNCHANGED registers
    /\ UNCHANGED <<flag, test, due, stale>>

SetClock ==
    LET d == Data[test] IN
    /\ \/ RMain("date", "time") /\ SetDate(d.dt)
       \/ RMain("time", "wait") /\ SetTime(d.tm)
    /\ UNCHANGED <<flag, test, due, stale>>

\* ... the wait, and free_irq.
RtcWait ==
    /\ \/ Waited("rtc", alrm, "wait", "free") /\ ret' = 0
       \/ /\ GaveUp("rtc", alrm, "wait", "free")
          /\ speed = "good" => ticks = Patience
    /\ ticks' = 0
    /\ UNCHANGED <<speed, test, registers, due, stale>>

RtcFree ==
    /\ Free("rtc", alrm, "free", "menu")
    /\ ticks' = IF test = "user" THEN ticks ELSE 0
    /\ UNCHANGED <<speed, test, registers, due, stale>>

\* rtc_set_time_date_test and rtc_set_time_date_alarm_test: neither takes
\* back an alarm that has come.  Their two stores, with a delay in between,
\* are one step: no handler is registered here, and time and date are
\* compared as they are after the second.
UserSets ==
    /\ Main("rtc", alrm, "menu", "menu")
    /\ \E d \in {Data[t] : t \in Settings} :
          \/ /\ SetTime(d.tm @@ d.dt) /\ ticks' = 0
          \/ /\ UNCHANGED <<clock, ticks>>
             /\ talrm' = [at |-> d.tm_a, on |-> Selected(TALRM, d.f_time)]
             /\ dalrm' = [at |-> d.dt_a, on |-> Selected(DALRM, d.f_date)]
             /\ Compare(alrm)
    /\ UNCHANGED <<vec, iec, flag, ret, speed, test, due, stale>>

\* rtc_wait_for_alarm_test: it waits without a bound, for an alarm that may
\* have come already.
UserWaits ==
    /\ \/ Request("rtc", alrm, "menu", "until") /\ flag' = 0
       \/ /\ Main("rtc", alrm, "until", "free") /\ flag = 1
          /\ UNCHANGED <<vec, iec, flag, ret>>
    /\ test' = "user"
    /\ UNCHANGED <<speed, registers, ticks, due, stale>>

RtcMain ==
    \/ RtcOpen \/ AlarmTest \/ Reset \/ SetAlarm \/ RequestAlarm \/ SetClock
    \/ RtcWait \/ RtcFree \/ UserSets \/ UserWaits

(***************************************************************************)
(* rtc_isr_alarm_hit                                                       *)
(***************************************************************************)
RIsr(from, to) ==
    /\ dev = "rtc" /\ isr = from /\ isr' = to
    /\ UNCHANGED <<dev, pc, vec, iec, ret, speed, test, clock, talrm, dalrm,
                   ticks, due, stale>>

RtcEnter ==
    /\ Dispatch("rtc", alrm, "dis")
    /\ ticks' = IF test = "user" THEN ticks ELSE 0
    /\ UNCHANGED <<speed, test, registers, due, stale>>

AlarmHit ==
    \/ RIsr("dis", "hit") /\ alrm' = FALSE /\ UNCHANGED flag
    \/ RIsr("hit", "none") /\ flag' = 1 /\ UNCHANGED alrm

RtcHandler == RtcEnter \/ AlarmHit

(***************************************************************************)
(* The clock (external)                                                    *)
(***************************************************************************)
Days(mth) == IF mth \in {4, 6, 9, 11} THEN 30 ELSE IF mth = 2 THEN 28 ELSE 31

\* One field after the other, as long as there is a carry.
Tick(c) ==
    LET sos == c.sos = 15
        sec == sos /\ c.sec = 59
        min == sec /\ c.min = 59
        day == min /\ c.hr = 23
        mth == day /\ c.day = Days(c.mth)
        yr  == mth /\ c.mth = 12
        cen == yr /\ c.yr = 99
        Up(carry, wraps, low, v) ==
            IF ~carry THEN v ELSE IF wraps THEN low ELSE v + 1
    IN  [sos  |-> Up(TRUE, sos, 0, c.sos),
         sec  |-> Up(sos, sec, 0, c.sec),
         min  |-> Up(sec, min, 0, c.min),
         hr   |-> Up(min, day, 0, c.hr),
         dow  |-> Up(day, c.dow = 6, 0, c.dow),
         day  |-> Up(day, mth, 1, c.day),
         mth  |-> Up(mth, yr, 1, c.mth),
         yr   |-> Up(yr, cen, 0, c.yr),
         cent |-> Up(cen, FALSE, 0, c.cent)]

\* The program is fast, but for the wait; the user is as slow as Idle.
Waits == pc = "wait" /\ isr = "none" /\ flag # 1 /\ ~(iec /\ alrm)

Allowed ==
    CASE Waits -> Patience [] pc \in {"menu", "until"} -> Idle [] OTHER -> Steps

RtcDevice ==
    /\ dev = "rtc" /\ speed # "dead" /\ pc # "closed"
    /\ ticks < Allowed /\ ticks' = ticks + 1
    /\ clock' = Tick(clock)
    /\ UNCHANGED <<talrm, dalrm>> /\ Compare(alrm)
    /\ due' = (due \/ (pc = "wait" /\ alrm' /\ ~alrm))
    /\ UNCHANGED <<session, speed, test, stale>>

(***************************************************************************)
(* Properties                                                              *)
(***************************************************************************)
\* A good clock passes each of the ten tests, whatever ran before, what the
\* user had set, and how late in its second the clock was.
GoodClockPasses == speed = "good" => ret # -1

\* A test takes no alarm for its own but the one it has set, after the time
\* it has set: not that of the test before, which comes again every second,
\* day or year, and not one of a clock that is half set.  The exception is
\* an alarm that comes between RTC_ALRM_DIS and the stores of rtc_reset.
AlarmIsOwn ==
    dev = "rtc" /\ pc \in {"date", "time", "wait"} /\ flag = 1 => due \/ stale
=============================================================================
