---------------------------- MODULE DerivedViews ----------------------------
(***************************************************************************)
(* What the pages compute from the tables and never store: habit streaks   *)
(* and rates (services/stats.py), the focus chart (services/focus.py), the *)
(* columns of a calendar day (calendar_events.layout_day, main._week_ctx)  *)
(* and the reading of a quick-add line (services/quickadd.py).  One        *)
(* subject per behaviour; its data grows by the writes the routes allow.   *)
(***************************************************************************)
EXTENDS Integers, Sequences, SequencesExt, TLC

CONSTANTS None,
          LastDay, MonthLen,    \* bound on days; the days of a month
          Goal,                 \* days of the focus chart (14 in the code)
          Minutes, Band,        \* minutes of a day, in the bound; the default visible band <<from, to>>
          OpenEnd,              \* 30 in the code: the block of an event without an end
          MaxBlocks, MaxTokens

VARIABLES
    subject,    \* what this behaviour is about
    today,
    marks,      \* checkins of one habit: day -> status
    focus,      \* focus_sessions: day -> seconds
    blocks,     \* timed events of one day: <<start, end or None>>
    line        \* a quick-add line, as tokens

vars == <<subject, today, marks, focus, blocks, line>>

Statuses == {"full_done", "light_done", "skipped", "failed"}
KEPT == {"full_done", "light_done"}
Mark(d) == IF d \in DOMAIN marks THEN marks[d] ELSE None

-----------------------------------------------------------------------------
(* Habits: both walks of stats.py, as recursions over the days.            *)

Neutral(d) == Mark(d) = "skipped" \/ (d = today /\ Mark(d) = None)

CurrentStreak_SkipBreaks ==
    LET back[d \in -1..today] == IF d >= 0 /\ Mark(d) \in KEPT THEN back[d - 1] + 1 ELSE 0
    IN  back[today]

CurrentStreak ==
    LET back[d \in -1..today] ==
            IF d = -1 \/ (\A e \in DOMAIN marks : d < e) THEN 0
            ELSE IF Mark(d) \in KEPT THEN back[d - 1] + 1
            ELSE IF Neutral(d) THEN back[d - 1] ELSE 0
    IN  back[today]

BestStreak ==
    LET run[d \in -1..today] ==
            IF d = -1 THEN 0
            ELSE IF Mark(d) \in KEPT THEN run[d - 1] + 1
            ELSE IF Neutral(d) THEN run[d - 1] ELSE 0
    IN  Max({run[d] : d \in -1..today})

KeptDays == {d \in DOMAIN marks : marks[d] \in KEPT}

Month(m) == (m * MonthLen)..((m + 1) * MonthLen - 1)
MonthStats(m) ==
    [kept |-> Cardinality(KeptDays \intersect Month(m)),
     applicable |-> IF today \in Month(m) THEN (today % MonthLen) + 1
                    ELSE IF (m + 1) * MonthLen - 1 < today THEN MonthLen ELSE 0]

Secs(d) == IF d \in DOMAIN focus THEN focus[d] ELSE 0

\* daily_totals, oldest to newest, and the streak read off its end.
DailyTotals == [i \in 1..Goal |-> Secs(today - Goal + i)]
FocusDayStreak ==
    LET back[i \in 0..Goal] == IF i = 0 \/ DailyTotals[i] = 0 THEN 0 ELSE back[i - 1] + 1 IN back[Goal]

-----------------------------------------------------------------------------
(* The timed grid of a day: clusters of transitively overlapping events,   *)
(* and in each the first column whose last event has ended.                *)

EndOf(b) == IF b[2] # None /\ b[2] > b[1] THEN b[2] ELSE b[1] + OpenEnd
Timed == SortSeq([i \in DOMAIN blocks |-> [id |-> i, from |-> blocks[i][1], to |-> EndOf(blocks[i])]],
                 LAMBDA a, b : a.from < b.from \/ (a.from = b.from /\ a.to < b.to))

Place(day, o) ==
    LET fresh == day.cols = <<>> \/ o.from >= day.end
        cols == IF fresh THEN <<>> ELSE day.cols
        free == {i \in DOMAIN cols : cols[i] <= o.from}
        c == IF free = {} THEN Len(cols) + 1 ELSE Min(free)
        cluster == IF fresh THEN day.cluster + 1 ELSE day.cluster
    IN  [cols |-> IF free = {} THEN Append(cols, o.to) ELSE [cols EXCEPT ![c] = o.to],
         end |-> Max({day.end, o.to}), cluster |-> cluster,
         laid |-> Append(day.laid, o @@ [col |-> c, cluster |-> cluster])]

LayoutDay == FoldLeft(Place, [cols |-> <<>>, end |-> 0, cluster |-> 0, laid |-> <<>>], Timed).laid

Columns(o) == Max({p.col : p \in {q \in ToSet(LayoutDay) : q.cluster = o.cluster}})

VisibleBand == <<Min({Band[1]} \union {o.from : o \in ToSet(LayoutDay)}),
                 Min({Minutes, Max({Band[2]} \union {o.to : o \in ToSet(LayoutDay)})})>>

-----------------------------------------------------------------------------
(* Quick add.  Every !1..!3 is taken and the last one counts; then the     *)
(* first ISO date, else the first day.month, else the first day word,      *)
(* each only if it names a day.                                            *)

Tokens == [kind : {"prio"}, is : {1, 3}] \union [kind : {"iso", "dmy"}, is : {0, None}]
          \union [kind : {"word", "day"}, is : {0}]

First(kinds) == LET at == {i \in DOMAIN line : line[i].kind \in kinds} IN IF at = {} THEN 0 ELSE Min(at)
Names(i) == i # 0 /\ line[i].is # None

DueToken == IF Names(First({"iso"})) THEN First({"iso"})
            ELSE IF Names(First({"dmy"})) THEN First({"dmy"})
            ELSE First({"day"})

Parse ==
    [title |-> {i \in DOMAIN line : line[i].kind # "prio" /\ i # DueToken},
     due |-> DueToken,
     priority |-> FoldLeft(LAMBDA p, t : IF t.kind = "prio" THEN t.is ELSE p, 0, line)]

NextWeekday(wd) == today + ((wd - today) % 7)

-----------------------------------------------------------------------------
Init ==
    /\ subject \in {"habit", "focus", "day", "line"}
    /\ today = 0 /\ marks = <<>> /\ focus = <<>> /\ blocks = <<>> /\ line = <<>>

\* Writes for a day that has not come are refused (_validated_write_date).
Log(d, s) ==
    /\ subject = "habit" /\ d <= today
    /\ marks' = [e \in DOMAIN marks \union {d} |-> IF e = d THEN s ELSE marks[e]]
    /\ UNCHANGED <<subject, today, focus, blocks, line>>

Clear(d) ==
    /\ subject = "habit" /\ d \in DOMAIN marks
    /\ marks' = [e \in DOMAIN marks \ {d} |-> marks[e]]
    /\ UNCHANGED <<subject, today, focus, blocks, line>>

\* record_session stamps the day on which the session ended.
RecordSession(secs) ==
    /\ subject = "focus" /\ Secs(today) < 2
    /\ focus' = [e \in DOMAIN focus \union {today} |-> IF e = today THEN Secs(today) + secs ELSE focus[e]]
    /\ UNCHANGED <<subject, today, marks, blocks, line>>

Midnight ==
    /\ subject \in {"habit", "focus"} /\ today < LastDay
    /\ today' = today + 1
    /\ UNCHANGED <<subject, marks, focus, blocks, line>>

AddBlock(from, to) ==
    /\ subject = "day" /\ Len(blocks) < MaxBlocks
    /\ blocks' = Append(blocks, <<from, to>>)
    /\ UNCHANGED <<subject, today, marks, focus, line>>

Type(t) ==
    /\ subject = "line" /\ Len(line) < MaxTokens
    /\ line' = Append(line, t)
    /\ UNCHANGED <<subject, today, marks, focus, blocks>>

Next ==
    \/ \E d \in 0..LastDay : Clear(d) \/ \E s \in Statuses : Log(d, s)
    \/ RecordSession(1) \/ Midnight
    \/ \E from \in 0..(Minutes - 1), to \in (0..(Minutes - 1)) \union {None} :
           (to # None => to >= from) /\ AddBlock(from, to)
    \/ \E t \in Tokens : Type(t)

Spec == Init /\ [][Next]_vars

-----------------------------------------------------------------------------
(* Properties *)

TypeOK ==
    /\ today \in 0..LastDay
    /\ DOMAIN marks \subseteq 0..today /\ \A d \in DOMAIN marks : marks[d] \in Statuses
    /\ DOMAIN focus \subseteq 0..today /\ \A d \in DOMAIN focus : focus[d] \in 1..2
    /\ Len(blocks) <= MaxBlocks /\ line \in Seq(Tokens)

Unbroken(a, b) == \A d \in a..b : Mark(d) \in KEPT \/ Neutral(d)
Kept(a, b) == Cardinality(KeptDays \intersect (a..b))

(* stats.py's rules, said without the walks: a streak is the kept days of  *)
(* an unbroken stretch, the current one of a stretch that ends today, the  *)
(* best one of any; the current never exceeds the best, nor the best the   *)
(* total, and no month keeps more days than it counts, since a day to come *)
(* cannot be logged.  The focus streak is the unbroken run of focused days *)
(* that ends today, as far as the chart reaches.                           *)
StreaksAgree ==
    /\ CurrentStreak = Max({0} \union {Kept(a, today) : a \in {b \in 0..today : Unbroken(b, today)}})
    /\ BestStreak = Max({0} \union {Kept(r[1], r[2]) : r \in {q \in (0..today) \X (0..today) : Unbroken(q[1], q[2])}})
    /\ CurrentStreak <= BestStreak /\ BestStreak <= Cardinality(KeptDays)
    /\ \A m \in 0..(LastDay \div MonthLen) : MonthStats(m).kept <= MonthStats(m).applicable
    /\ FocusDayStreak = Max({n \in 0..Goal : \A d \in (today - n + 1)..today : Secs(d) > 0})

Overlap(o, p) == o.from < p.to /\ p.from < o.to

(* layout_day: blocks that overlap are in one cluster and in different     *)
(* columns of it, so that neither covers the other; a cluster is as many   *)
(* columns wide as blocks ever overlap at once; and the visible band holds *)
(* every block up to the end of the day.                                   *)
LayoutAgrees ==
    \A o \in ToSet(LayoutDay) :
        /\ \A p \in ToSet(LayoutDay) : o # p /\ Overlap(o, p) => o.cluster = p.cluster /\ o.col # p.col
        /\ \E at \in ToSet(LayoutDay) :
            /\ at.cluster = o.cluster
            /\ Columns(o) = Cardinality({p \in ToSet(LayoutDay) : p.from <= at.from /\ at.from < p.to})
        /\ VisibleBand[1] <= o.from /\ (o.to <= VisibleBand[2] \/ VisibleBand[2] = Minutes)

(* quickadd.parse: every word typed is in the title, unless it set the     *)
(* priority or the date, and a date is found whenever a word gives one.    *)
NothingTypedIsLost ==
    /\ Parse.title \union {i \in DOMAIN line : line[i].kind = "prio"} \union ({Parse.due} \ {0}) = DOMAIN line
    /\ Parse.due \notin Parse.title
    /\ Parse.due = 0 => \A i \in DOMAIN line : line[i].kind # "day"
    /\ Parse.priority = 0 <=> \A i \in DOMAIN line : line[i].kind # "prio"
    /\ \A wd \in 0..6 : NextWeekday(wd) - today \in 0..6 /\ NextWeekday(wd) % 7 = wd

(* All three: a page shows what the tables say.                            *)
ViewsAgree == StreaksAgree /\ LayoutAgrees /\ NothingTypedIsLost
=============================================================================
