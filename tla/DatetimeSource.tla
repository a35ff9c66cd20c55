---------------------------- MODULE DatetimeSource ----------------------------
(***************************************************************************)
(* gnome-datetime-source.c: a main loop source that fires when the wall    *)
(* clock reaches a time, or when the clock is set.  It uses a timerfd; if  *)
(* there is none it wakes up every second to look at the clock.  Time goes *)
(* in half seconds; the source keeps whole ones of the times it is given.  *)
(***************************************************************************)
EXTENDS Naturals

CONSTANTS
  MaxClock    \* bound: half seconds of the wall clock and of the monotonic clock

VARIABLE ds

Second == 2
NotDue == MaxClock + 1

\* g_date_time_to_unix, and tv_sec: what is less than a second is dropped.
UnixTime(t) == t - (t % Second)

DsTypeOK ==
  /\ ds.real \in 0..MaxClock /\ ds.monotonic \in 0..MaxClock /\ ds.timerfd \in BOOLEAN
  /\ ds.stage \in {"now_read", "armed", "fired"}
  /\ ds.now \in 0..MaxClock /\ ds.expiry \in 0..MaxClock
  /\ ds.wakeup \in 0..(MaxClock + Second) /\ ds.initially_expired \in BOOLEAN
  /\ ds.revents \in BOOLEAN /\ ds.busy \in BOOLEAN
  /\ ds.due \in 0..NotDue

\* g_datetime_source_is_expired, with cancel_on_set.
IsExpired(s) == s.expiry <= s.real \/ s.monotonic >= s.wakeup

\* What makes a loop that nothing else wakes dispatch the source: the timerfd,
\* or the timeout of prepare.
Ready(s) ==
  s.stage = "armed" /\ IF s.timerfd THEN s.initially_expired \/ s.revents ELSE s.monotonic >= s.wakeup

\* due is a history variable: since when the callback is owed, because its
\* second has come or the clock has gone back to a second before that of now.
Owed(s) ==
  IF s.stage = "armed" /\ s.due = NotDue /\ (s.expiry <= s.real \/ UnixTime(s.real) < UnixTime(s.now))
  THEN [s EXCEPT !.due = s.monotonic] ELSE s

\* Mistake: the clock is not looked at again once the timer is set.
TimerfdIgnoresRace(s) == [s EXCEPT !.revents = (s.expiry <= s.real)]

\* g_datetime_source_init_timerfd: the clock may have gone back since now was
\* read, which is seen by the second it shows.
InitTimerfd(s) ==
  [s EXCEPT !.revents = (s.expiry <= s.real), !.initially_expired = (UnixTime(s.real) < UnixTime(s.now))]

DsInit ==
  \E timerfd, busy \in BOOLEAN, now \in 1..3 :
    ds = [real |-> now, monotonic |-> 0, timerfd |-> timerfd, stage |-> "now_read", now |-> now,
          expiry |-> UnixTime(now + 4), wakeup |-> 0, initially_expired |-> FALSE, revents |-> FALSE,
          busy |-> busy, due |-> NotDue]

\* _gnome_datetime_source_new
NewSource ==
  /\ ds.stage = "now_read"
  /\ LET s == [ds EXCEPT !.stage = "armed", !.wakeup = ds.monotonic + Second]
     IN ds' = Owed(IF s.timerfd THEN InitTimerfd(s) ELSE s)

\* Half a second; the kernel makes the timerfd readable when the time comes,
\* and a loop that is not busy only wakes up for the source's own timeout.
ClockTicks ==
  /\ ~Ready(ds) /\ ds.real < MaxClock /\ ds.monotonic < MaxClock /\ ds.stage # "fired"
  /\ LET s == [ds EXCEPT !.real = @ + 1, !.monotonic = @ + 1,
                         !.revents = @ \/ (ds.stage = "armed" /\ ds.expiry <= ds.real + 1)]
     IN ds' = Owed(s)

\* TFD_TIMER_CANCEL_ON_SET makes the timerfd readable.
ClockIsSet ==
  /\ ds.stage # "fired"
  /\ \E real \in 0..MaxClock \ {ds.real} :
       LET s == [ds EXCEPT !.real = real, !.revents = @ \/ ds.stage = "armed"]
       IN ds' = IF s.stage = "armed" /\ s.due = NotDue THEN [s EXCEPT !.due = s.monotonic] ELSE s

\* g_datetime_source_check when something else woke the loop: if the time has
\* not come, the next look at the clock is put off to a second from now.
LoopWakes ==
  /\ ds.busy /\ ds.stage = "armed" /\ ~Ready(ds) /\ ~ds.timerfd
  /\ ds' = IF IsExpired(ds) THEN [ds EXCEPT !.stage = "fired"]
           ELSE [ds EXCEPT !.wakeup = ds.monotonic + Second]

\* g_datetime_source_dispatch
Dispatch == Ready(ds) /\ ds' = [ds EXCEPT !.stage = "fired"]

DsNext == NewSource \/ ClockTicks \/ ClockIsSet \/ LoopWakes \/ Dispatch

-------------------------------------------------------------------------------
\* The callback comes at most a second after its second has come, and after a
\* clock change that came with the source armed (gnome-datetime-source.c:233) or
\* before, if it took the clock back to an earlier second than the caller's.
\* A clock set forward, or back by less, between the caller's reading and the
\* arming of a timerfd is not noticed.  Without a timerfd a loop that keeps
\* waking up for other sources puts the callback off.
CallbackInTime ==
  ds.stage = "armed" /\ ds.due # NotDue /\ ~(ds.busy /\ ~ds.timerfd) =>
    ds.monotonic - ds.due <= Second
==============================================================================
