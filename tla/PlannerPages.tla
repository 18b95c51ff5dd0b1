---------------------------- MODULE PlannerPages ----------------------------
(***************************************************************************)
(* The pages that lay the tables out over days: Today, Next 7 Days and     *)
(* Countdown (services/tasks.py), the month grid and the week (main.py),   *)
(* the day view with its strip and dots, the month and year heatmaps and   *)
(* the week pulse (services/stats.py), the focus page (services/focus.py). *)
(* A page is computed at one instant.  Days are integers and day 0 is a    *)
(* Sunday; a session's length is counted in parts of a minute.             *)
(***************************************************************************)
EXTENDS Integers, Sequences, FiniteSetsExt

CONSTANTS None, Habits, Lessons,
          WeekLen, Weeks,       \* 7; 52 weeks of the year map
          Rows,                 \* 6 rows of the month grid: enough for a month that starts late in a week
          MonthLen,             \* the days of every month, here
          Minute,               \* 60
          LastDay, MaxWrites    \* bounds

VARIABLES
    today,
    active,     \* routine_items not archived
    checkins,   \* <<habit, day>> -> status
    sessions,   \* focus_sessions, oldest first
    tasks,      \* id -> [kind, due, done: the day of completed_at or None]
    writes

vars == <<today, active, checkins, sessions, tasks, writes>>

KEPT == {"full_done", "light_done"}
Statuses == KEPT \union {"skipped", "failed"}
Mark(h, d) == IF <<h, d>> \in DOMAIN checkins THEN checkins[<<h, d>>] ELSE None
Month(m) == (m * MonthLen)..((m + 1) * MonthLen - 1)

SundayOf(d) == d - (d % WeekLen)
WeekOf(d) == SundayOf(d)..(SundayOf(d) + WeekLen - 1)

-----------------------------------------------------------------------------
(* Habits *)

WeekStrip(d) == [e \in WeekOf(d) |-> [logged |-> Cardinality({h \in Habits : Mark(h, e) # None}), future |-> e > today]]

WeekDots(h, d) == [e \in DOMAIN WeekStrip(d) |-> Mark(h, e)]

RenderDay(d) ==
    [groups |-> [h \in active |-> [status |-> Mark(h, d), dots |-> WeekDots(h, d)]],
     week |-> WeekStrip(d),
     done |-> Cardinality({h \in active : Mark(h, d) \in KEPT}),
     total |-> Cardinality(active)]

MonthCalendar(h, m) ==
    [d \in UNION {WeekOf(e) : e \in Month(m)} |->
        [in_month |-> d \in Month(m), status |-> IF d \in Month(m) THEN Mark(h, d) ELSE None]]

Level(s) == CASE s = "full_done" -> 3 [] s = "light_done" -> 2 [] s = "skipped" -> 1 [] OTHER -> 0

YearMap(h) ==
    [d \in (SundayOf(today) - (Weeks - 1) * WeekLen)..(SundayOf(today) + WeekLen - 1) |->
        [in_range |-> d <= today, level |-> IF d <= today THEN Level(Mark(h, d)) ELSE 0]]

TotalCheckins(h) == Cardinality({d \in 0..LastDay : Mark(h, d) \in KEPT})

HabitDetail(h, m) == [total |-> TotalCheckins(h), weeks |-> MonthCalendar(h, m), year_map |-> YearMap(h)]

-----------------------------------------------------------------------------
(* Focus *)

Seconds(S) == MapThenSumSet(LAMBDA i : sessions[i].seconds, S)
Pomos(S) == Cardinality({i \in S : sessions[i].mode = "pomo"})
On(d) == {i \in DOMAIN sessions : sessions[i].date = d}

Overview ==
    [today_pomo |-> Pomos(On(today)), today_focus |-> Seconds(On(today)),
     total_pomo |-> Pomos(DOMAIN sessions), total_focus |-> Seconds(DOMAIN sessions)]

DailyTotals(days) ==
    [d \in (today - days + 1)..today |->
        [seconds |-> Seconds(On(d)), minutes |-> Seconds(On(d)) \div Minute, pomos |-> Pomos(On(d))]]

Studied(l) == {i \in DOMAIN sessions : sessions[i].lesson = l}
LessonTotals == [l \in {m \in Lessons : Studied(m) # {}} |-> [seconds |-> Seconds(Studied(l)), pomos |-> Pomos(Studied(l))]]

-----------------------------------------------------------------------------
(* Tasks *)

Open(k) == {t \in DOMAIN tasks : tasks[t].done = None /\ tasks[t].kind = k}
Due(T) == {t \in T : tasks[t].due # None}

TodayTasks == {t \in Due(Open("task")) : tasks[t].due <= today}
Countdowns == Open("countdown")
CompletedOn(d) == {t \in DOMAIN tasks : tasks[t].done = d}
Next7 == {t \in Due(Open("task")) : tasks[t].due >= today /\ tasks[t].due <= today + WeekLen - 1}
DueBetween(a, b) == {t \in Due(DOMAIN tasks) : a <= tasks[t].due /\ tasks[t].due <= b}

WeekPulse ==
    LET day(d) ==
        LET ci == Cardinality({h \in Habits : Mark(h, d) \in KEPT})
            fmin == Seconds(On(d)) \div Minute
            tk == Cardinality(CompletedOn(d))
        IN  [checkins |-> ci, focus_min |-> fmin, tasks |-> tk, total |-> ci + tk + (IF fmin > 0 THEN 1 ELSE 0)]
    IN  [d \in (today - WeekLen + 1)..today |-> day(d)]

GetToday ==
    [countdown |-> Countdowns, habit |-> [h \in active |-> Mark(h, today)],
     task |-> TodayTasks, completed |-> CompletedOn(today), pulse |-> WeekPulse]

GetNext7 == [d \in {tasks[t].due : t \in Next7} |-> {t \in Next7 : tasks[t].due = d}]

RenderTasks(sections) == [sections |-> sections, today_count |-> Cardinality(TodayTasks), next7_count |-> Cardinality(Next7)]

\* Always Rows weeks, from the Sunday on or before the first of the month.
MonthGrid(m) ==
    LET first == SundayOf(m * MonthLen)
        shown == DueBetween(first, first + Rows * WeekLen - 1)
    IN  [d \in first..(first + Rows * WeekLen - 1) |->
            [in_month |-> d \in Month(m), events |-> {t \in shown : tasks[t].due = d}]]

WeekColumns(d) == [e \in WeekOf(d) |-> {t \in DueBetween(SundayOf(d), SundayOf(d) + WeekLen - 1) : tasks[t].due = e}]

-----------------------------------------------------------------------------
Init ==
    /\ today = 0 /\ active = Habits /\ writes = 0
    /\ checkins = <<>> /\ sessions = <<>> /\ tasks = <<>>

Write == writes < MaxWrites /\ writes' = writes + 1

\* A day has one check-in of a habit, the last.
Marked(h, d, s) == [k \in DOMAIN checkins \union {<<h, d>>} |-> IF k = <<h, d>> THEN s ELSE checkins[k]]

PostCheckin_AnyDay(h, d, s) ==
    /\ Write
    /\ checkins' = Marked(h, d, s)
    /\ UNCHANGED <<today, active, sessions, tasks>>

\* A check-in of a day that has not come is refused; one of an archived habit is not.
PostCheckin(h, d, s) ==
    /\ Write /\ d <= today
    /\ checkins' = Marked(h, d, s)
    /\ UNCHANGED <<today, active, sessions, tasks>>

PostHabitArchive(h) ==
    /\ Write /\ h \in active
    /\ active' = active \ {h}
    /\ UNCHANGED <<today, checkins, sessions, tasks>>

\* A lesson that is unknown or archived is recorded as none.
RecordSession(mode, seconds, lesson) ==
    /\ Write
    /\ sessions' = Append(sessions, [mode |-> mode, seconds |-> seconds, date |-> today, lesson |-> lesson])
    /\ UNCHANGED <<today, active, checkins, tasks>>

PostTaskCreate(kind, due) ==
    /\ Write
    /\ tasks' = Append(tasks, [kind |-> kind, due |-> due, done |-> None])
    /\ UNCHANGED <<today, active, checkins, sessions>>

PostTaskComplete(t) ==
    /\ Write
    /\ tasks' = [tasks EXCEPT ![t].done = IF @ = None THEN today ELSE None]
    /\ UNCHANGED <<today, active, checkins, sessions>>

Midnight ==
    /\ today < LastDay
    /\ today' = today + 1
    /\ UNCHANGED <<active, checkins, sessions, tasks, writes>>

Next ==
    \/ \E h \in Habits : PostHabitArchive(h) \/ \E d \in 0..LastDay, s \in Statuses : PostCheckin(h, d, s)
    \/ \E mode \in {"pomo", "stopwatch"}, seconds \in 1..(Minute + 1), lesson \in Lessons \union {None} :
           RecordSession(mode, seconds, lesson)
    \/ \E kind \in {"task", "countdown"}, due \in (0..LastDay) \union {None} : PostTaskCreate(kind, due)
    \/ \E t \in DOMAIN tasks : PostTaskComplete(t)
    \/ Midnight

Spec == Init /\ [][Next]_vars

-----------------------------------------------------------------------------
(* Properties *)

TypeOK ==
    /\ today \in 0..LastDay /\ active \subseteq Habits /\ writes \in 0..MaxWrites
    /\ DOMAIN checkins \subseteq Habits \X (0..today) /\ \A k \in DOMAIN checkins : checkins[k] \in Statuses
    /\ \A i \in DOMAIN sessions : sessions[i].date <= today /\ sessions[i].seconds > 0
    /\ \A t \in DOMAIN tasks : tasks[t].done = None \/ tasks[t].done <= today

Months == {d \div MonthLen : d \in 0..LastDay}
Sum(f, S) == MapThenSumSet(LAMBDA d : f[d], S)

(* Today and Next 7 Days between them show every open task that falls due  *)
(* by the end of the week ahead, in both only what is due today; the       *)
(* sidebar counts what the pages list; a due task stands on its day in the *)
(* grid of its month and in its week, done or open, and nowhere twice.     *)
TasksFindable ==
    /\ \A t \in Due(Open("task")) :
        LET ahead == t \in UNION {GetNext7[d] : d \in DOMAIN GetNext7}
        IN  /\ tasks[t].due < today + WeekLen <=> t \in GetToday.task \/ ahead
            /\ t \in GetToday.task /\ ahead <=> tasks[t].due = today
    /\ RenderTasks(GetNext7).next7_count = Sum([d \in DOMAIN GetNext7 |-> Cardinality(GetNext7[d])], DOMAIN GetNext7)
    /\ \A m \in Months : \A t \in Due(DOMAIN tasks) :
        Cardinality({d \in DOMAIN MonthGrid(m) : t \in MonthGrid(m)[d].events /\ MonthGrid(m)[d].in_month})
            = IF tasks[t].due \in Month(m) THEN 1 ELSE 0
    /\ \A m \in Months : \A d \in DOMAIN MonthGrid(m) : MonthGrid(m)[d].events = WeekColumns(d)[d]

(* Every check-in shows once in the heatmap of its month and, for a year,  *)
(* once in the sky; the kept days of the two agree with the total.  The    *)
(* strip counts what the rows show and the check-ins of archived habits.   *)
(* A page of a past day never shows a mark to the right of today.          *)
MarksShown ==
    /\ \A h \in Habits :
        LET sky == YearMap(h)
            bright == {d \in DOMAIN sky : sky[d].level >= 2}
            kept(m) == {d \in DOMAIN MonthCalendar(h, m) : MonthCalendar(h, m)[d].status \in KEPT}
        IN  /\ TotalCheckins(h) = Sum([m \in Months |-> Cardinality(kept(m))], Months)
            /\ bright = {d \in UNION {kept(m) : m \in Months} : d >= SundayOf(today) - (Weeks - 1) * WeekLen}
            /\ \A m, n \in Months : m # n => kept(m) \intersect kept(n) = {}
    /\ \A d \in 0..today :
        LET page == RenderDay(d)
            dots(e) == {h \in active : page.groups[h].dots[e] # None}
        IN  \A e \in WeekOf(d) :
            /\ page.week[e].logged = Cardinality(dots(e)) + Cardinality({h \in Habits \ active : Mark(h, e) # None})
            /\ page.week[e].future => page.week[e].logged = 0

(* The pulse is what the day pages, the focus chart and Completed say of   *)
(* its days; all of today's is on Today; the chart's totals and those by   *)
(* lesson are parts of the overview's.                                     *)
PulseAgrees ==
    /\ \A d \in DOMAIN WeekPulse :
        LET p == WeekPulse[d]
        IN  /\ p.focus_min = DailyTotals(WeekLen)[d].minutes
            /\ p.checkins >= RenderDay(d).done
            /\ p.total = 0 <=> p.checkins = 0 /\ CompletedOn(d) = {} /\ Seconds(On(d)) < Minute
    /\ WeekPulse[today].tasks = Cardinality(GetToday.completed)
    /\ Overview.today_focus = DailyTotals(WeekLen)[today].seconds
    /\ Overview.total_focus >= Sum([l \in DOMAIN LessonTotals |-> LessonTotals[l].seconds], DOMAIN LessonTotals)
    /\ Overview.total_pomo = Sum([d \in 0..today |-> Pomos(On(d))], 0..today)

PagesAgree == TasksFindable /\ MarksShown /\ PulseAgrees
=============================================================================
