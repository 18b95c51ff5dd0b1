--------------------------- MODULE CalendarSeries ---------------------------
(***************************************************************************)
(* Calendar events (services/calendar_events.py): series with a recurrence *)
(* rule and skipped days, their windowed expansion, and the edits of       *)
(* handlers that read a series before their transaction opens.             *)
(***************************************************************************)
EXTENDS Integers, Sequences, FiniteSets, FiniteSetsExt

CONSTANTS None,
          Week,                         \* 7 in the code: days of a week; day 0 is a Monday
          LastDay, Intervals,           \* bounds: days 0..LastDay, intervals offered
          MaxEvents, MaxWrites, MaxCalls

VARIABLES
    series,     \* calendar_events: id -> rule + [exdates, archived]; a row is archived, never deleted
    skipped,    \* what the journal says: <<id, day>> skipped and not restored since
    calls,      \* handlers between their read and their commit
    writes,     \* commits so far
    clobbered   \* ghost: a skip or a restore wrote over exdates it had not read

vars == <<series, skipped, calls, writes, clobbered>>

Days == 0..LastDay
Weekday(d) == d % Week
Monday(d) == d - Weekday(d)

Init == series = <<>> /\ skipped = {} /\ calls = {} /\ writes = 0 /\ clobbered = FALSE

-----------------------------------------------------------------------------
(* The recurrence engine *)

Occurs_WeeksFromStart(r, d) ==
    /\ d >= r.start /\ (r.end # None => d <= r.end)
    /\ CASE r.freq = "once" -> d = r.start
         [] r.freq = "daily" -> (d - r.start) % r.every = 0
         [] r.freq = "weekly" -> Weekday(d) \in r.mask /\ ((d - r.start) \div Week) % r.every = 0
    /\ d \notin r.exdates

Occurs(r, d) ==
    /\ d >= r.start /\ (r.end # None => d <= r.end)
    /\ CASE r.freq = "once" -> d = r.start
         [] r.freq = "daily" -> (d - r.start) % r.every = 0
         [] r.freq = "weekly" -> /\ Weekday(d) \in r.mask
                                 /\ ((Monday(d) - Monday(r.start)) \div Week) % r.every = 0
    /\ d \notin r.exdates

Window(from, to) ==
    LET rows == {id \in DOMAIN series : /\ ~series[id].archived /\ series[id].start <= to
                                        /\ series[id].end # None => series[id].end >= from}
    IN  {o \in rows \X (from..to) : Occurs(series[o[1]], o[2])}

\* What _clean lets through: the mask only for weekly rules, the end not before the start.
Rules ==
    {r \in [freq : {"once", "daily", "weekly"}, start : Days, end : Days \union {None},
            every : Intervals, mask : SUBSET (0..(Week - 1))] :
        /\ (r.freq = "weekly") = (r.mask # {})
        /\ r.end # None => r.end >= r.start}

Clean(r) == r.end # None => r.end >= r.start

-----------------------------------------------------------------------------
Threads == 1..MaxCalls \ {c.by : c \in calls}
Free == writes + Cardinality(calls) < MaxWrites /\ Threads # {}

\* A handler with the row it has read.
Read(by, op, id, d) == [by |-> by, op |-> op, id |-> id, day |-> d, row |-> series[id]]

Start(op, id, d) ==
    /\ Free
    /\ ~series[id].archived
    /\ calls' = calls \union {Read(Min(Threads), op, id, d)}
    /\ UNCHANGED <<series, skipped, writes, clobbered>>

Wrote == writes' = writes + 1

\* A row under a rule.
Row(r, exdates, archived) ==
    [freq |-> r.freq, start |-> r.start, end |-> r.end, every |-> r.every, mask |-> r.mask,
     exdates |-> exdates, archived |-> archived]

CreateEvent(r) ==
    /\ Free /\ Len(series) < MaxEvents
    /\ series' = Append(series, Row(r, {}, FALSE))
    /\ Wrote /\ UNCHANGED <<skipped, calls, clobbered>>

\* The form sends every column of the rule; of the row only its existence is used.
UpdateEvent(id, r) ==
    /\ Free
    /\ series' = [series EXCEPT ![id] = Row(r, @.exdates, @.archived)]
    /\ Wrote /\ UNCHANGED <<skipped, calls, clobbered>>

\* move_event's refusal of a repeating series.
MoveStart(id, d) == series[id].freq = "once" /\ Start("move", id, d)

\* update_event reads the row again: another page may have made it a repeating
\* series, or archived it, since move_event looked.
Reread(c) ==
    /\ c.op = "move"
    /\ calls' = (calls \ {c}) \union {Read(c.by, "update", c.id, c.day)}
    /\ UNCHANGED <<series, skipped, writes, clobbered>>

\* It writes the columns it read, with the day it was given for a start.
MoveEvent(c) ==
    /\ c.op = "update"
    /\ LET r == [c.row EXCEPT !.start = c.day]
       IN  IF Clean(r)
           THEN series' = [series EXCEPT ![c.id] = Row(r, @.exdates, @.archived)] /\ Wrote
           ELSE UNCHANGED <<series, writes>>
    /\ UNCHANGED <<skipped, clobbered>>

ArchiveEvent(id) ==
    /\ Free
    /\ series' = [series EXCEPT ![id].archived = TRUE]
    /\ Wrote /\ UNCHANGED <<skipped, calls, clobbered>>

WriteExdates(c, ex) ==
    /\ series' = [series EXCEPT ![c.id].exdates = ex]
    /\ clobbered' = (clobbered \/ series[c.id].exdates # c.row.exdates)
    /\ Wrote

\* A day already skipped is a success without an event; a day the rule misses is refused.
SkipStart(id, d) == d \notin series[id].exdates /\ Occurs(series[id], d) /\ Start("skip", id, d)

SkipOccurrence(c) ==
    /\ c.op = "skip"
    /\ WriteExdates(c, c.row.exdates \union {c.day})
    /\ skipped' = skipped \union {<<c.id, c.day>>}

UnskipStart(id, d) == d \in series[id].exdates /\ Start("unskip", id, d)

UnskipOccurrence(c) ==
    /\ c.op = "unskip"
    /\ WriteExdates(c, c.row.exdates \ {c.day})
    /\ skipped' = skipped \ {<<c.id, c.day>>}

Commit(c) ==
    /\ MoveEvent(c) \/ SkipOccurrence(c) \/ UnskipOccurrence(c)
    /\ calls' = calls \ {c}

-----------------------------------------------------------------------------
(* The routes *)

PostEventCreate == \E r \in Rules : CreateEvent(r)
PostEventUpdate == \E id \in DOMAIN series, r \in Rules : UpdateEvent(id, r)
PostEventArchive == \E id \in DOMAIN series : ArchiveEvent(id)
PostEventMove == \E id \in DOMAIN series, d \in Days : MoveStart(id, d)
PostEventSkip == \E id \in DOMAIN series, d \in Days : SkipStart(id, d)
PostEventUnskip == \E id \in DOMAIN series, d \in Days : UnskipStart(id, d)

Next ==
    \/ PostEventCreate \/ PostEventUpdate \/ PostEventArchive
    \/ PostEventMove \/ PostEventSkip \/ PostEventUnskip
    \/ \E c \in calls : Reread(c) \/ Commit(c)

Spec == Init /\ [][Next]_vars

-----------------------------------------------------------------------------
(* Properties *)

TypeOK ==
    /\ \A id \in DOMAIN series :
        /\ [k \in {"freq", "start", "end", "every", "mask"} |-> series[id][k]] \in Rules
        /\ series[id].exdates \subseteq Days /\ series[id].archived \in BOOLEAN
    /\ writes <= MaxWrites

\* The days a rule names, laid out from its start: every so many days, or the masked days of every so many weeks.
Named(r) ==
    LET steps == 0..LastDay
    IN  CASE r.freq = "once" -> {r.start}
          [] r.freq = "daily" -> {r.start + k * r.every : k \in steps}
          [] r.freq = "weekly" -> {Monday(r.start) + k * r.every * Week + w : k \in steps, w \in r.mask}

(* occurrences_between: "Every concrete occurrence in [start, end] across  *)
(* all non-archived series".  Whatever edits the series went through, each *)
(* window shows exactly the named days of its live series that lie in it,  *)
(* between start and end, and were skipped in the journal and not restored:*)
(* the row prefilter drops none, windows cut a series without changing it. *)
SeriesHonest ==
    ~clobbered =>
        \A from \in Days : \A to \in from..LastDay :
            Window(from, to) =
                {o \in (DOMAIN series) \X (from..to) :
                    LET r == series[o[1]] IN
                    /\ ~r.archived /\ o[2] \in Named(r)
                    /\ o[2] >= r.start /\ (r.end # None => o[2] <= r.end)
                    /\ o \notin skipped}
=============================================================================
