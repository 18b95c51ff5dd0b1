---------------------------- MODULE RetroEntries ----------------------------
(***************************************************************************)
(* Retrospective entries (services/retro.py): owner-typed periods, and a   *)
(* journal whose every event carries the whole entry, read back inside the *)
(* transaction that wrote it.  A consumer of the export follows an entry   *)
(* by its newest snapshot.                                                 *)
(***************************************************************************)
EXTENDS Integers, Sequences, FiniteSets

CONSTANTS None,
          Instants,                     \* a set of integers: moments a period can name
          Texts,                        \* the other owner-typed fields, as one value
          MaxRows, MaxJournal, MaxCalls, MaxClock   \* bounds

VARIABLES
    rows,       \* retro_entries, by id
    journal,    \* retro_entry_* events, in order
    calls,      \* handlers that have taken their timestamp and not committed
    clock       \* now_iso()

vars == <<rows, journal, calls, clock>>

Init == rows = <<>> /\ journal = <<>> /\ calls = {} /\ clock = 0

-----------------------------------------------------------------------------
(* The period grammar.  A typed period is empty, one moment (a named       *)
(* period, a date or a time), a moment that the zone's clock change makes  *)
(* ambiguous or impossible, two moments around a slash, or none of these.  *)

Periods == [form : {"empty", "moment", "fold", "range", "junk"}, from : Instants, to : Instants]
Precisions == {"point", "range", "unknown"}

Accepted(p, precision) ==
    \/ precision = "unknown" /\ p.form = "empty"
    \/ precision = "range" /\ p.form = "range" /\ p.to > p.from
    \/ precision = "point" /\ p.form = "moment"

\* The columns the form fills, with what parse_period derives from the period.
Entry(p, precision, text) ==
    [precision |-> precision, text |-> text,
     start |-> IF precision = "unknown" THEN None ELSE p.from,
     end   |-> IF precision = "range" THEN p.to ELSE None,
     updated |-> None, archived |-> None]

-----------------------------------------------------------------------------
Event(kind, id, row) == [kind |-> kind, id |-> id, row |-> row]

Tick == clock < MaxClock /\ clock' = clock + 1 /\ UNCHANGED <<rows, journal, calls>>

CreateEntry(e) ==
    /\ Len(rows) < MaxRows /\ Len(journal) < MaxJournal
    /\ rows' = Append(rows, e)
    /\ journal' = Append(journal, Event("created", Len(rows) + 1, e))
    /\ UNCHANGED <<calls, clock>>

(* A handler checks that the entry exists and takes its timestamp; entries *)
(* are never deleted, so the check stands when its transaction opens.      *)
Begin(by, op, id, e) ==
    /\ \A c \in calls : c.by # by
    /\ calls' = calls \union {[by |-> by, op |-> op, id |-> id, entry |-> e, ts |-> clock]}
    /\ UNCHANGED <<rows, journal, clock>>

\* One transaction: the write, the row read back, the event.
Write(c, kind, row) ==
    /\ Len(journal) < MaxJournal
    /\ rows' = [rows EXCEPT ![c.id] = row]
    /\ journal' = Append(journal, Event(kind, c.id, row))
    /\ calls' = calls \ {c} /\ UNCHANGED clock

NoOp(c) == calls' = calls \ {c} /\ UNCHANGED <<rows, journal, clock>>

UpdateEntry(c) ==
    /\ c.op = "update"
    /\ Write(c, "updated", [c.entry EXCEPT !.updated = c.ts, !.archived = rows[c.id].archived])

ArchiveEntry_Unchecked(c) ==
    /\ c.op = "archive"
    /\ Write(c, "archived", [rows[c.id] EXCEPT !.archived = c.ts])

\* The state check rides the UPDATE: a second archive matches no row and writes no event.
ArchiveEntry(c) ==
    /\ c.op = "archive"
    /\ IF rows[c.id].archived = None THEN Write(c, "archived", [rows[c.id] EXCEPT !.archived = c.ts]) ELSE NoOp(c)

UnarchiveEntry(c) ==
    /\ c.op = "unarchive"
    /\ IF rows[c.id].archived # None THEN Write(c, "unarchived", [rows[c.id] EXCEPT !.archived = None]) ELSE NoOp(c)

-----------------------------------------------------------------------------
(* The routes, by the thread that serves them *)

PostRetroCreate ==
    \E p \in Periods, precision \in Precisions, t \in Texts :
        Accepted(p, precision) /\ CreateEntry(Entry(p, precision, t))

PostRetroEdit(by) ==
    \E id \in DOMAIN rows, p \in Periods, precision \in Precisions, t \in Texts :
        Accepted(p, precision) /\ Begin(by, "update", id, Entry(p, precision, t))

PostRetroArchive(by) == \E id \in DOMAIN rows : Begin(by, "archive", id, None)
PostRetroUnarchive(by) == \E id \in DOMAIN rows : Begin(by, "unarchive", id, None)

Next ==
    \/ Tick \/ PostRetroCreate
    \/ \E by \in 1..MaxCalls : PostRetroEdit(by) \/ PostRetroArchive(by) \/ PostRetroUnarchive(by)
    \/ \E c \in calls : UpdateEntry(c) \/ ArchiveEntry(c) \/ UnarchiveEntry(c)

Spec == Init /\ [][Next]_vars

-----------------------------------------------------------------------------
(* Properties *)

Stamps == Nat \union {None}

TypeOK ==
    /\ rows \in Seq([precision : Precisions, text : Texts, start : Instants \union {None}, end : Instants \union {None},
                     updated : Stamps, archived : Stamps])
    /\ \A i \in DOMAIN rows : rows[i].precision = "range" <=> (rows[i].end # None)
    /\ clock \in Nat
    /\ \A c \in calls : c.ts \in Nat /\ c.id \in DOMAIN rows

Newest(i) == \A j \in DOMAIN journal : j > i => journal[j].id # journal[i].id
Follows(i, j) == i < j /\ journal[i].id = journal[j].id
                 /\ \A k \in DOMAIN journal : k > i /\ k < j => journal[k].id # journal[i].id

(* update_entry: "downstream latest-wins consumers follow the edit": the   *)
(* newest snapshot of an entry is its row and every entry has one, however *)
(* handlers interleave and whatever their timestamps say.                  *)
LatestSnapshotIsRow ==
    /\ \A i \in DOMAIN journal : Newest(i) => journal[i].row = rows[journal[i].id]
    /\ \A id \in DOMAIN rows : \E i \in DOMAIN journal : journal[i].id = id

(* archive_entry: "a concurrent double-archive stays an idempotent no-op": *)
(* an entry is archived only when its previous snapshot is not, and back.  *)
ArchivingAlternates ==
    \A i, j \in DOMAIN journal :
        Follows(i, j) => /\ journal[j].kind = "archived" => journal[i].row.archived = None
                         /\ journal[j].kind = "unarchived" => journal[i].row.archived # None

(* Both: a consumer of the journal knows each entry and its history.       *)
RetroHonest == LatestSnapshotIsRow /\ ArchivingAlternates
=============================================================================
