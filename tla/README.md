# Ephemeris in TLA+

Ephemeris is a local-first tracker: one FastAPI process, one SQLite file, lesson bundles on
disk that a learner edits from a shell in the browser, and small programs run in a sandbox.
This directory models the parts of it whose correctness depends on the order of things:
handlers and tasks that interleave, crashes between two writes, retries that race what they
retry, counters and caches that must agree with what they stand for, and the pages and the
export that must agree with the tables.

Run `tlc -config MCX.cfg MCX` for a model, `tlapm X.tla` for a module of proofs.
`PROJECT.json` maps every definition to the lines it translates and lists the hazards of the
code, each at its line, with the properties that would catch it.

## The system

| part | state | operations | what is hard |
|---|---|---|---|
| attempt recording (`app/services/attempts.py`) | `lesson_attempts`, rate window, bundle lock | `record_attempt` | threads of two server processes during a rolling restart; retries racing the original; a refusal that must yield to a durable outcome |
| attempt projection (same file) | `attempts.jsonl` in the bundle, a private sealed sidecar, a per-lesson flock | append, rebuild, `reconcile_projection` | crashes between any two writes, a database restored under the sidecar, a bundle anyone may edit, clocks that step back |
| runner job (`app/runner.py`, stream route in `app/main.py`) | one `RunnerJob`: state, cause, records; a child process | drive, read streams, cancel, time out, shut down, follow | seven causes racing to end a job; exit status and two ends of stream in any order; lost wakeups |
| runner admission (`app/runner.py`, `app/services/runs.py`) | jobs, idempotency entries, counters, rate window, reader leases | start, look up, attach, detach, prune, shut down | state read before a worker thread and used after it; eviction against replay |
| terminal sessions (`app/terminal.py`) | a pool of shells, each with a replay buffer and at most one socket | create, attach, detach, evict, resize, close | attach against eviction against the pump; replay without gap or repetition |
| artifact save (`app/services/artifacts.py`) | a file of the bundle and its revision | get, run snapshot, save | an outside writer between the check and the rename |
| lesson lifecycle (`app/services/lessons.py`) | `lessons` rows, their journal, `lesson.json` of each bundle | create, status, archive, restore, select, open | rows read before they are written; the agent edits bundles meanwhile |
| lesson pages (same file) | page files, the digest cache | preview metadata, file route | hashing a file that is being written, renamed over, or given its old time back |
| bundle schema (`app/services/bundle_schema.py`) | none | read version 1 and 2, select a page | a finding about one part leaves references to it |
| bundle migration (`scripts/migrate_bundles.py`) | rollback directories with their ledgers | plan, apply, roll back | a stop at every step, edits between look and rename |
| lesson bridge (`static/src/learn-bridge.ts`) | frame generation, bound identity, port, owned runs | grant, attempt, get, save, run, cancel | answers that arrive for a document that is gone |
| tasks, lists, quick add (`tasks.py`, `lists.py`, `quickadd.py`) | `tasks`, `lists` | create, move, complete, edit, archive a list | midpoint positions running out of room |
| habits, check-ins, notes (`items.py`, `checkins.py`) | rows and events | create, edit, retire, revive, delete, tap, note | a handler's read and its later commit; the journal must rebuild the rows |
| calendar (`calendar_events.py`) | series with a rule and skipped days | create, edit, move, skip, restore, archive; expand; lay out a day | weeks counted from a Monday, prefiltered windows, stale exdates |
| focus, statistics and pages (`focus.py`, `stats.py`, `main.py`) | `focus_sessions` | aggregate over days | the same table counted by several pages |
| retrospective entries (`retro.py`) | entries and full snapshots in the journal | create, edit, archive, unarchive | a journal that must follow the rows |
| database (`app/db.py`) | schema version, tables, columns, uuids | `init_db` | a start cut short; an older process that still writes |
| export, backup, restore (`export.py`, `scripts/`) | a stream of events | export, replay | replay must rebuild the rows |
| sandbox, HTTP perimeter, terminal client | arguments, headers, widgets | | out of reach or mostly I/O |

How they meet: a route of `main.py` calls a service in a thread of the pool with a connection of
its own; a service reads, decides, and then writes a row and its event in one transaction; lessons,
artifacts, attempts, the migration and the terminal share the bundle's folder; a run takes its
snapshot of an artifact under the bundle lock and then only touches `RunnerService`; the bridge
calls the attempt, artifact and run routes; a restore reads what the services journalled.

## Modules

| module | models | checked by |
|---|---|---|
| `AttemptLedger` | abstract: what recording an attempt promises | `LedgerKept` |
| `AttemptRecording` | `record_attempt` | runs `recording`, `recording_starve`; `AttemptRecordingProofs` |
| `AttemptProjection` | the projection of one lesson | run `projection`; `AttemptProjectionProofs` |
| `RunnerJobPromise` | abstract: what a job promises its readers | `PromiseKept` |
| `RunnerJob` | one job from its driver to its last reader | run `job`; `RunnerJobProofs` |
| `RunnerAdmission` | the service around the jobs | run `admission`; `RunnerAdmissionProofs` |
| `TerminalSessions` | shells, their registry and the sockets that attach to them | runs `terminal`, `terminal_resize`, `terminal_evict`; `TerminalSessionsProofs` |
| `ArtifactSave` | get, run snapshot and save of one editor artifact | run `artifacts`; `ArtifactSaveProofs` |
| `HabitLedger` | habits, check-ins, notes, their events and the restore | runs `planner`, `planner_restore`; `PlannerProofs` |
| `TaskBoard` | tasks, drags, lists | run `planner`; `PlannerProofs` |
| `CalendarSeries` | series and their expansion | run `planner`; `PlannerProofs` |
| `RetroEntries` | entries and their journal | run `planner`; `PlannerProofs` |
| `SchemaUpgrade` | `init_db` | run `planner`; `PlannerProofs` |
| `DerivedViews` | streaks, rates, day grid, quick add | run `planner`; its types in `PlannerProofs` |
| `PlannerPages` | pages over days | run `planner`; its types in `PlannerProofs` |
| `BundleSchema` | manifest readers, page selection, the mapping to version 2 | run `learn`; `LessonProofs` |
| `LessonLifecycle` | lesson rows, journal, manifests | run `learn`; `LessonProofs` |
| `LessonPages` | page identity and the digest cache | run `learn`; `LessonProofs` |
| `BundleMigration` | the migration tool | run `learn`; `LessonProofs` |
| `LessonBridge` | the bridge of a lesson page | run `learn`; `LessonProofs` |

`MCPlanner` and `MCLearn` put the services of one kind side by side. They share no table (in
`MCLearn`, each sees the manifest at its own grain), so that their steps commute and an order
between them shows nothing new: a variable `scene` names the one service that moves in a
behaviour. What the services are parameterised by is a CONSTANT of these two modules with its value in
the `.cfg`, but for the windows of the two page modules, which are fixed where they are instantiated. What the proofs assume of them is stated once, as `PlannerConstants` and
`LearnConstants`, and TLC evaluates it on every run. `MCLearn` has one bridge: its scenes differ in
the kinds of operation a document asks for (`Asked`), which keeps the states of each kind apart.

### AttemptRecording

A request is a thread of a server process; its program counter `call[r].pc` names the section it
is about to enter: `early` (the check under the bundle lock), `charge` (`_check_rate`), `validate`
(manifest, eligibility, staleness), `recheck` (the second look after a refusal), `enter`
(`_record_locked` up to the transaction), `insert` (the transaction), `project`. The bundle lock
and the rate window are per process, the ledger is shared, so with two processes only
`UNIQUE(lesson_id, idempotency_key)` orders two inserts. `Error` is any uncaught exception: the
slot stays charged, the lock is released. `Crash` ends a process with its requests.

`LedgerKept` is the refinement: rows are appended once per key, `recorded` is told to one caller
per row, `duplicate` and `conflict` only where the rows say so, and no refusal is given for a key
that is durable. A crash and an uncaught error end in `failed`, which promises nothing.

### AttemptProjection

`rows` is the authority, `file` the public `attempts.jsonl`, `sidecar` the private cursor. A seal
(device, inode, size, mtime, ctime) is one stamp; since ctime changes with every change of the
file, a change takes a stamp nobody still holds, and the least such stamp is taken so that the
state space stays finite. Rows carry what orders them, `created_at` and the attempt id, which are
chosen before the write lock is had: commit order and sort order differ freely.

`job[p].pc` follows `_project_attempt_locked`: `inspect`, `anchor`, `select`, `open`, `write`,
`stat`, `verify`, `publish` for the append, `rebuild`, `replace`, `recheck`, `republish` for the
rebuild. Between any two, other writers may edit the file in place, replace or remove it, or lose
the sidecar; a process may crash; and with every process down the database may be restored.

`TrustedIsFaithful` is the heart: if the fast path would trust what it finds (seal and both anchors
match), then the file is exactly the ordered projection of the rows up to the cursor. One history
variable, `tampered`, records the one exception the code's own review documents
(docs/reviews/2026-07-23-attempts-projection-cost-review.md): an edit in place between the two
stats of an append.

### RunnerJob

The event loop interleaves tasks at awaits, so a section under `_lock` is one action and the kill
that follows on a worker thread another. `driver` is where `_drive_job` stands, `stream[s]` where
each `_read_stream` stands, `killers` who has a kill in flight, `hook` the finish hook,
`client` one that polls and cancels,
`shutdown` the service's shutdown as this job sees it, `watch[w]` one response of the stream route.
`child` distinguishes a dead process from one the loop has collected, because `cancel` can see
only the latter: a cancel of a child that died but is not yet collected wins and kills nothing, one
that comes after is refused. Records are counted in chunks against the output cap. `truncated` and
`released` are kept as in the code.

### RunnerAdmission

A start, the job it launches, its slot and its idempotency entry share a name. `call[s]` holds
where the start is (`new`, `validate`, `health`) or its answer; the lesson's prepare lock is held
exactly in `validate` and `health`. `Prune` is part of each section that calls `_prune_locked`.
Time appears twice: `SlotExpires` lets the oldest slot of a window leave, `Age` lets the oldest
finished job pass its retention, after its own slot. Between them no order is assumed, which
allows more than the two durations do.

### TerminalSessions

`sock[w].pc` is the await at which one `_serve_ws` call stands, from `create`, `prepare`, `spawn`
through the attach (`attach` waits for the lock; `boot`, `announce`, `snap`, `replay` hold it) to
the reader (`serve`) and its writer (`write`, `parked`, `woken`, `bail`). `ses[s]` is the
`_TermSession`: `st` its closed flag, `closing` the progress of `close()`, `pump` where `_run`
stands with the chunk it has read. Locks are not variables: who holds one follows from the pcs,
as `async with` guarantees. A coroutine that finds the attach lock free goes on without a pause,
so `Connect` looks up the session and takes its lock in one action; so does `Spawned` for the
session it just made. Descriptors are numbers that are handed out again, because the code keeps
`master_fd` after it closed it.

Idle time is a class (below the grace, below the TTL, beyond), and each detached session ages by
itself: of two in one class either may be taken for the oldest. The reaper is always armed; its
parking when the registry is empty is left out. Waiters of a lock are a set, not a queue, which
allows more orders than asyncio does.

### ArtifactSave

A call is a thread; the bundle lock is held from the opening of the file to the ledger event. The
file is a content and an identity that each change renews, as `_stat_identity` with its ctime does.
`opened` is what `_open_artifact` returned; `reading` lies between its two stats, `check` between
staging and the last identity check, `publish` between that check and `os.replace`, which is the
window the API document leaves to direct writers (`raced` notes who was in it), `sync` before the
fsync of the directory. `Direct` is any writer in the shell. One server process, as the document
says of the service; the lock is per process, so two of them would not exclude each other.

### HabitLedger

A handler is a read and a later commit, as each route is a thread with a connection of its own:
`calls` holds what was read (`seen`). `Begin` takes the read with the refusals that depend on it,
`Decide` is the second read of a tap (`apply_status` chooses between clear and set on the first,
and the chosen write reads again), `Commit` is the transaction with its event. `Restart` drops what was not
committed and runs the seed. `Replayed` is `scripts/restore_from_export.py`, one event after
the other, and `Restored` its end;
events of the seed and of a reactivation carry no habit attributes, which is why `Kept` exists.
The ghost `missed` says that a journalled write met another row than it had read: `LedgerReplays`
claims the replay as long as that did not happen, and `planner_restore` shows what happens then.

### TaskBoard

`sort_order` is kept as the code computes it, with the step of 10 scaled to `Gap`. A drag reads the
orders of its neighbours (`MoveTask`); without room between them the bucket is read (`RespaceRead`)
and renumbering, the second look at the neighbours and the move are one transaction
(`RespacedMoveCommit`), because the renumbering opens the transaction that `with conn` ends. `Ranked` is
what the renumbering writes: the place of each task in its bucket. Lists
matter for the order of a new task and for archiving, which sends their tasks to the Inbox.
`DragMovesOneTask` is about drags whose reads still stand when they commit (`Fresh`) and whose slot
a board could show (`Slot`): the task lands strictly between its neighbours and no other pair
changes places.

### CalendarSeries

`Row` is what a rule is stored as, `Occurs` is `_occurs`, `Window` the expansion with its row
prefilter; `Named` states the rule
again as the days that are laid out from the start. A week has two days and four days exist,
so that weekly intervals, masks, ends and prefiltered windows all meet. A move is three steps, as
`move_event` reads the row for its refusals and `update_event` reads it again (`Reread`) before it
writes. Skips write the whole exdates list they read; the ghost `clobbered` tells when that list was
no longer the row's. `SeriesHonest` then makes no claim about the skipped days, so that a lost skip is
told below and caught by no property.

### RetroEntries

Each event carries the whole row, read back inside the transaction. Handlers take their timestamp
before it, so stamps need not follow commit order. Periods are kept down to what decides a refusal.

### SchemaUpgrade

Every DDL statement of the thirteen steps is an action that commits by itself, as sqlite3 does;
a backfill reads, then commits with its rows. A start may find a database of any version, cut inside
a step, or one where the uid step ran under its earlier number; `Stop` cuts it again, and an older
process keeps inserting rows without identity. `SchemaConverges`: no start fails on what an earlier one
left, a start that serves has the whole schema and has stamped every row that was there at its last
look, and an identity never changes.

### DerivedViews and PlannerPages

What pages compute and never store. `DerivedViews` takes one subject per behaviour, whose data grows
by the writes the routes allow: check-ins of a habit against streaks and rates, focus days against
the chart, timed events against the columns of a day, tokens against the quick-add parser; each is
compared with a second definition that says what it should mean. `PlannerPages` compares pages with
each other: the month grid, the week, the day strip and its dots, the heatmaps, the pulse, Today
and Next 7 Days. A page is computed at one instant, as one request on one thread with
short reads almost is; a write between two reads of one page is not modelled.

### BundleSchema

Both readers as operators from a manifest to what a page may rely on (findings, pages, entry,
questions, blocks, roots, profile). The code walks each list once, with a set of what it has seen; here
the finding of an item is stated in closed form (it is ill-formed, or an earlier one has its id or
path, or what it refers to is not in force), and `Picked` keeps, in their order, the items without
one. Paths are sequences of segments, so the prefix test of
`_under_root` is about segments as it is in the code (`root + "/"`). The manifest grows by edits the
agent can make, three of them, which is enough for a duplicate and something that refers to it.
Left out are the caps on sizes and counts (`limit-exceeded`), the findings about JSON types and
values, and the metadata that is copied as it stands.
`ReadHonest`: whatever is in force refers only to what is in force. `MigrationKeepsPages`: the version 2
manifest made from a version 1 one reads clean, with the same entry and every page, and the learner is
shown the same page. Two stored selections are excepted: a spelling with dots, which the exact comparison
of version 2 drops, and a malformed one, for which version 1 refuses the preview and version 2 falls back.

### LessonLifecycle and LessonPages

`LessonLifecycle`: a route reads its row, then (for a page) the bundle, then writes; `AgentWrites`
changes a manifest at any time. `CreateManifest` replaces whatever is there by then. Writes name
their columns, so that columns of other handlers stay. `LessonsHonest` says what survives all stale
reads: status and stamps agree, the journal's last word is the row, slugs are distinct.

`LessonPages`: a page is two halves on an inode with a modification and a change time; readers stat,
read by halves, stat again; the file route answers only the version it was asked for. Each write is
given a change time never used before (the kernel's clock is finer than two writes of one reader's
window). `IdentityHonest` is what an attempt relies on when it calls a page fresh.

### BundleMigration

One run of the tool, its stages in order: plan all bundles, open a rollback directory, and for each
bundle the row, the look, the copy, the ledger, the rename, the sync. `Stop` ends it anywhere and may
undo an unsynced rename. The agent edits and rows change meanwhile. A migrated manifest is a pair of
what it was made from, which is what its hash identifies.

### LessonBridge

`frame` is what the runtime knows of the frame (generation, expected version, pending navigation,
re-asserts, quarantine), `shown` what the browser does there: the document on show, whether it still
loads, whether the parent's navigation is on its way (`going`) and whether the document went there
itself (`own`). `bridge` is the bound identity, the port and its capabilities; `fetches` the metadata reads under way; `ops` the operations, each at
one of its awaits. `Stages` lists what each kind awaits, so that every `await` of the source is a
place where navigations, edits, polls and lost answers can happen. `BridgeHonest` relates an operation to the
page that declared it: the ghost `fresh` is TRUE when, at some instant since the operation last asked,
the server's page had its identity and declared what it needs.

A document arrives by `Commit` (the parent's navigation) or `SelfNavigate` and runs from then on. Neither
tells the runtime anything, which compares a message's source with a `WindowProxy` that stands through
navigations. `Load` is a later step, may never come, and does not say of which document it is. Two
residuals that docs/lesson-bridge-abi.md describes (206-218, 387-413) are therefore behaviours of the
model, and `BridgeHonest` excepts them by name, as `Strayed`:

- A successor of an armed document announces itself, or uses the port, before its own load, and keeps the
  port for as long as it stalls that load. It is answered under the old identity.
- A document that goes elsewhere before its load is bound when the successor loads, as the page the parent
  waits for. The same happens when the load of the document about to be replaced is taken for that of
  the parent's navigation, which is still on its way.

What stands without exception: identity is bound to the version the parent expects, no port is open
while a navigation is pending or the frame quarantined, every load closes it, and an operation is
sent only on a look at the page that allows it, whoever holds the port.

## Runs

| run | states | what it shows |
|---|---|---|
| `projection` | 785 k | `TypeOK`, `TrustedIsFaithful`, `ProjectedCoversOwnRow` (an answer `projected` covers the caller's own row), `CursorNeverFallsBack` (no stale rebuild wins) |
| `recording` | 128 k | `TypeOK`, `CountsHonest` (numbers are distinct, only new rows are charged), `LedgerKept`, `EveryCallAnswered` |
| `recording_starve` | violated | `RetriesNeverStarve`, which a comment promises and the code does not keep |
| `job` | 273 k | `TypeOK`, `EndingHonest` (a finished job left no process, an accepted cancel is its cause, no client is told of an ending whose event was not tried), `PromiseKept`, `KillFollowsClaim` (a kill is sent by who holds the cause, nothing ended is left without one, and a natural cause is that of a collected child), `EverythingEnds` |
| `admission` | 349 k | `TypeOK`, `CountersHonest` (capacity and slots are the jobs they stand for), `KeysHonest` (a key launches once and replays what it launched), `LeasesHonest`, `NoLaunchAfterShutdown` |
| `terminal` | 445 k | `TypeOK`, `ReplayExact` (snapshot and live output meet without gap or repetition), `SlotsHonest` (the cap holds, and the registry is exactly the open shells whose close is not due), `InputOnlyFromOwner`, `AttachSettles` |
| `terminal_resize` | violated | `PtySizedByItsOwner`: a page attached to a dead session resizes another's PTY |
| `terminal_evict` | violated | `NeverReapedUnderAttach`: a page whose turn has come attaches to a shell that is being closed |
| `artifacts` | 499 k | `TypeOK`, `ConflictExclusion`, `ReadsAreWhole`, `EventsInSaveOrder` |
| `planner` | 481 k | `TypesOK`, `LedgerReplays`, `SeriesHonest`, `RetroHonest`, `ViewsAgree`, `DragMovesOneTask`, `SchemaConverges` |
| `planner_restore` | violated | `RestoreAccepts`: the restore refuses an export in which an edit lost to a delete |
| `learn` | 3.0 M | `TypesOK`, `ManifestHonest`, `LessonsHonest`, `IdentityHonest`, `MigrationRestorable`, `BridgeHonest` |

Bounds. `projection`: two processes are what a rolling restart has; three attempts are enough for a
sorted tail, a row before it and one unseen; one edit and one crash or restore let each meet every
step, and seven stamps are never all held. `recording`: two requests are an original and a retry, or
two that reuse a key or a question, on two processes with one crash; `recording_starve` adds the
stranger, with two slots. `job`: a cap of one chunk which one stream alone fills and the other
overflows. `admission`: three starts in three lessons reach the global limit of two, two in one lesson
reach the lesson limit; one retained job makes every second end an eviction; two leases can read one
job or two. `terminal`: three pages on one shell are an owner, its successor and one in line,
or two pages with one slot make the second creation evict; two chunks through a ring of one make the
ring drop one. Pages, shells, chunks and pieces of input that have come are at most five together, so that
each scene has what its question needs, and pages and shells, which are interchangeable, come in the
order of their numbers. `terminal_evict`: three pages and two shells, without output. `artifacts`: two calls
of any kind, two direct writes (so that a file can change and change back), one slot, one crash.

`planner`: two handlers at once everywhere; four events are a creation, a write and two that cross
it; three tasks in two priorities with a step of 2 run out of room at once; three calendar writes
on one series; one entry with three events; three rows with an identity, two starts cut short;
five days for streaks, four tokens, three blocks. `learn`: two lessons that may want one
slug, four moves; three changes of a page under two readers at once; two bundles, two rollback
directories and two disturbances; one operation kind group per bridge scene, two loads, one
disturbance. Runs that may stop (every request answered, every bound used) say so in their `.cfg`;
`projection`, `recording` and `job` check for deadlock.

Symmetry is used where names are interchangeable, and never with liveness.

Fairness. `RunnerJob` assumes that the loop runs ready tasks, that worker threads return, that the
wall clock fires, that the loop collects a dead child, and that the streams of a dead child end,
which the sandbox's pid namespace provides (`--unshare-all`, app/sandbox.py: nothing of the
program survives its first process). It never assumes that a program exits, that a client cancels
or that the service is shut down. `Keepalive` is not fair: watchers must end without it.
`TerminalSessions` assumes that the loop runs ready steps, that a send to a page that is gone fails,
and that the page that attaches either takes its replay or goes; of the page it replaces, and of
the shell, nothing. `AttemptRecording` assumes that each thread runs, and that a lock that was let go is taken.
The planner and lesson modules state no fairness: a handler may simply stop, and nothing there waits.

## Where the code and its words part

**The descriptor that was reused** (`terminal_resize`, a defect). The attach looks the session up,
then awaits the close of the page it replaces and its own first message. When the shell ends in that
time, `close()` runs to its end and detaches everybody; the attach then goes on and makes its page the
owner of the closed session. Keystrokes are refused (`_write_all` asks `closed`), but the window size,
at the end of the attach and in every resize frame, is set through the old descriptor number, which may
by then be the PTY of another session. A check of `closed` after the attach lock is taken and before
line 920 would do.

**A turn that was not yet taken** (`terminal_evict`, a defect). The reaper spares a session with an attach
under way: `_idle` asks whether the attach lock is held. An asyncio lock is free from the moment its holder
leaves until the first in line runs. A page that creates a session and waits more than five seconds for its
first message leaves it without a socket and past the grace; when it goes while a second page waits for
the lock, a third that creates a session in the same turn of the loop evicts this one, and the second
attaches to a shell that is being closed. To count the pages that wait, and not only the one that holds,
would do.

**Retries in flight** (`recording_starve`). `_refund_rate` says that replays give their slot back "so
retries racing a slow original cannot starve the next real attempt". The slot is taken before the key is
known to be committed and given back when the call ends. The run shows a window filled by an original and
its retry, both in flight, in which a third request with a key of its own is answered `rate-limited`. The
comment is true of retries that have ended, not of those that race.

**An edit that lost to a delete** (`planner_restore`). `export.py` calls habits "semantically
replayable". `update_item` reads its habit before its transaction and never looks at how many rows it
changed; when a delete commits in between, `routine_item_updated` follows `routine_item_deleted` in the
journal, and the restore refuses the whole export. The same shape is in `deactivate_item`,
`reactivate_item`, a second `delete_item` and a cleared check-in. A look at `rowcount`, as
`retro.archive_entry` has, would do.

Seen while modelling, each a step of a model and none promised otherwise strongly enough to state
as a property of its own:

- `lessons._ensure_bundle_manifest` looks for a manifest and then renames a skeleton over it: one that
  the agent wrote in between is lost ("Creation, never repair").
- Two archives of a lesson journal `lesson_archived` twice, and a status can be written to a
  lesson that was archived after it was read. `mark_opened` from a stale read puts back a page that
  `set_current_entry` has just left.
- Two creations of one title choose one slug; the second meets the UNIQUE index and is a server error.
- The migration's look and its rename are two steps: an edit between them is overwritten, though
  its predecessor is in the copy (`raced`; the tool's text says edits are "refused, never overwritten").
- A note written on a check-in whose status changed meanwhile puts the old status back.
- Two skips of one series keep one of the two days. A single event that is moved onto a day it
  skips is not shown. One that another page makes a repeating series between the two reads of a move is
  moved all the same ("Recurring series are refused").
- A document that goes elsewhere again while the frame is being put back has its successor's load taken
  for that of the expected page, and is bound. "A document that fights the re-assert simply stays
  unbridged" (docs/lesson-bridge-abi.md) is true of one that waits for the page to settle.
- A check-in is accepted for an archived habit.
- `items.py` speaks of habits as never hard-deleted, and has `delete_item`. `archive_list` says nothing is orphaned, but
  a task can be created in, or moved to, an archived list. No route calls `archive_list` or
  `rename_list`.
- The matrix re-sorts by `sort_order` what `all_open` has sorted by due date first. The focus streak
  counts days under a minute, which the pulse shows as none. The week strip counts check-ins
  of retired habits.
- A failed runner probe is kept for the life of the process.

## Proofs

Eight modules, each for every value of the constants.

`AttemptProjectionProofs`, from `ProjectionAssumption` alone (a process name is not `NoProc`, attempts
carry natural numbers, stamps are positive, bounds are natural):

- `TypeCorrect`: `Spec => []TypeOK`
- `Faithful`: `Spec => []TrustedIsFaithful`
- `AnswersCover`: `Spec => []ProjectedCoversOwnRow`
- `CursorsAdvance`: `Spec => CursorNeverFallsBack`

`TrustedIsFaithful` is not inductive. Its strengthening `IInv` says what every point of the code knows: a
stamp identifies contents (anyone who holds a seal that still fits the file knows what the file contained
when the seal was taken); a job past `anchor` holds a state that was faithful to the rows; a rendered
temporary file is a projection of a prefix and stays one, since rows are only appended while a process
works; only the holder of the flock is past `idle`. The lemmas about `ProjectionOf` (it is kept by
appending a row, by appending a line that sorts last, and it is determined by its rows) are stated over
constants so that priming a state is trivial.

For the other two, `Ahead` adds where cursors stand: what a projector read of the sidecar is still what
the sidecar says, unless it was lost; a rebuild's cursor is no older than a sidecar that is anchored in the
rows; and each covers the row its caller is owed. It needs the flock (one projector is past `idle`) and the rows'
order of commit, and it is where a database restored under the sidecar matters: the sidecar may then be
ahead of the rows, and is no longer anchored.

`AttemptRecordingProofs`, from `RecordingAssumption`:

- `KeepsLedger`: `Spec => LedgerKept`, that is, `AttemptRecording` implements `AttemptLedger`
- `DistinctNumbers`: `Spec => []NumbersDistinct`
- `TypeCorrect`: `Spec => []TypeOK`
- `Counts`: `Spec => []CountsHonest`

Whoever commits a row claims it, first in the call and then in the answer. `ClaimsHold`: a claim is to a
row of its own, which holds what was submitted and whose number counts the rows of its question up to
it. It is what the step from commit to answer needs, with other commits in between and a crash that drops
the claim. The bundle lock plays no part: the unique key and the write transaction carry it all.
For the charges, `Windows` says that the window of a process holds each request once, so that one refund
takes away all there is of it, and only requests of its own that were charged and have not been told of a
duplicate or a conflict.

`RunnerJobProofs`, from `JobAssumption` alone (natural bounds, no stream called `cancel`):

- `JobTyped`: `Spec => []TypeOK`
- `EndsHonestly`: `Spec => []EndingHonest`
- `KillsFollow`: `Spec => []KillFollowsClaim`
- `KeepsPromise`: `Spec => PromiseKept`, that is, `RunnerJob` implements `RunnerJobPromise`

`IInv` adds `Stages` to the types: what the driver's, the readers' and the killers' places imply. A
finished job was reaped and both streams ended; a reaped child is none or collected; no reader runs before
the driver starts it; a cause is set exactly in the last two states. Without it `FinishedMeansDead` cannot
be carried over the step that finishes the job. Each action is shown to keep `IInv` and to be a step
of the promise or a stutter in one lemma, since both need the same facts about the sections under the lock.

`KillFollowsClaim` has a strengthening of its own, `Chased`, which adds `Placed`: a process is adopted or
the driver is about to adopt it, and one whose exit is being recorded has been collected. The first is why
a claim that finds nothing adopted may send no kill: the driver finds the claim when it adopts. Its
steps are classed by what they change: nothing of the kill, the kill itself, a claim, or the last record.

`RunnerAdmissionProofs`, from `AdmissionAssumption` (finitely many starts, natural limits):

- `CapacityHeld`: `Spec => []CapacityHonest`, the half of `CountersHonest` about places
- `KeysOnce`: `Spec => []KeysHonest`
- `CountersStand`: `Spec => []CountersHonest`, with the half about rate slots
- `TypeCorrect`: `Spec => []TypeOK`
- `ShutdownIsFinal`: `Spec => NoLaunchAfterShutdown`
- `LeasesKept`: `Spec => []LeasesHonest`

`Places` says that a start without an answer has no job, that what is kept was launched, and that a
launched start keeps its entry until it has aged; the last is why a fresh key cannot have a young job.
`PruneKeeps` holds for any order and any reader counts, so that what is pruned, and when, does not matter
here. Ending any set of jobs at once gives back exactly the places they held (`TerminateKeeps`).

For the readers it does matter. `LInv` adds that the finished jobs stand in `order` each once and that the
kept jobs with a reader never outnumber `MaxTerminal`: without that bound a prune would have fewer places
than readers and `attach_reader`'s check would mean nothing. `KeptFits` is the pruning argument: of the
jobs without a reader that still fit, the oldest has all the others before it, so that together they are no
more than the places left. It needs the least element of a set of numbers, which `LeastExists` takes from
the well-foundedness of strict inclusion among finite sets.

`PlannerProofs`, over `PlannerSpec`, from `PlannerConstants`:

- `JournalFollowed`: `Spec => []RetroHonest`, which is about `RetroEntries` alone and needs no assumption
- `ExportReplays`: `PlannerSpec => []LedgerReplays`
- `WindowsShowTheSeries`: `PlannerSpec => []SeriesHonest`
- `DragsKeepTheOthers`: `PlannerSpec => DragMovesOneTask`
- `StartsConverge`: `PlannerSpec => SchemaConverges`
- `TypesKept`: `PlannerSpec => []TypesOK`

`PlannerConstants` says what the code fixes by its literals and its columns: an absent value is none of
those it stands beside (`Attributed`), fresh orders leave room between two neighbours and 0 is a priority
(`Boardly`), weeks have days and repeat at least weekly (`Calendrical`), bounds are numbers (`Bounded`).

*Journal.* The strengthening is the shape of rows, events and handlers. The work is in "newest" and
"follows": an appended event is the newest of its entry, leaves the newest of others alone, and follows
exactly the former newest.

*Restore.* That a replay ends with the tables looks like an induction over the journal, and is not one:
`HInv` says that *every* run of the replay over the journal (`Runs`) ends with the tables, as long as no write met
another row than it had read. A commit appends one event, a run over the longer journal is a run over the
shorter one and one more step, and that step (`H!Replay`) does to the tables what the commit did. `Tables`
says what rows look like, that a check-in has its habit, and what a handler has read; `ExportReplays` then
takes the replay itself as the run.

*Windows.* `CInv` says what rows hold and, unless a skip wrote over another, that the exdates of a series are
the days last skipped and not restored. The rest is arithmetic: the test of a day with its division into weeks
says the same as the days laid out from the start (`TestIsNamed`), and the prefilter drops only rows that
have no day in the window.

*Drags.* `TInv` has the rows and what a drag holds: a task that is none of its neighbours, and orders between
which there was room, or places in a bucket. Ranks are cardinalities of sets of predecessors; two tasks of a bucket keep their order because
the set of the one is a proper subset of the other's. Between two neighbours with room the midpoint lies
strictly inside, and after a renumbering there is room since `Gap` is at least two.

*Starts.* `SInv` is what makes an interrupted upgrade harmless: each step is `Sound` over everything the
steps below it leave, however little of itself it has done (`Climbing`), which covers the uid step under its
earlier number (`Base`); what a backfill has looked at has rows it will stamp or that are stamped (`Looking`);
and identities are drawn above all that were minted (`Stampings`), so that no two rows share one and none
changes.

*Types.* The bounds in `TypesOK` are the work: that no journal, board or calendar outgrows its bound
needs that the handlers in flight and the writes already made fit it together (`Room`).

`LessonProofs`, over `LearnSpec`, from `LearnConstants`:

- `AlwaysRestorable`: `Spec => []MigrationRestorable`, which is about `BundleMigration` alone
- `LessonRowsHonest`: `LearnSpec => []LessonsHonest`
- `PageIdentity`: `LearnSpec => []IdentityHonest`
- `PortIsItsPages`: `LearnSpec => []BridgeHonest`
- `ReadsAreHonest`: `LearnSpec => []ManifestHonest`
- `LearnTypesKept`: `LearnSpec => []TypesOK`

`Distinct` says that version 1 manifests, the agent's version 2 manifests and migrated ones are different
bytes and none of them is the absence of one. `IInv` says that ledger entries are whole (`EntriesWhole`)
and what each stage of the tool knows (`Knows`): between ledger and rename the copy, the entry and the plan
agree, and the bundle on disk is either the planned bytes or was touched in the window (`raced`).

`Timeless` says that what stands for a missing stamp is not a time. `LInv` has the rows, the journal (`Told`)
and the handlers: a handler that sets a status holds a started stamp no later than the time it was called, so
that however stale it is, the stamps it writes are in order; and since each write and its event are one
transaction, the newest event of a lesson is the row's.

`PagesInv` rests on the change time. Each change of an inode gets a later one, so a stat whose change time is
still the inode's stands for the bytes that are there (`Holds`, `Fits`): a reader that was torn by a write
finds another stat at the end, and what the cache keeps under a stat is the digest of those bytes or of
bytes that cannot come back under it, whatever renames, restored modification times and profile flips do.

`KnownKinds` says that a document asks for the five operations the bridge dispatches. `Bound` ties the
port to an identity of the expected version. `Watched` ties both to the document on show: outside a
navigation whose load was taken for the page's own, a document that went there itself is one that still loads
(`ShownTo`), so every other is the expected page or its refusal, and the refusal asks for no port
(`HeldBy`). `Placed` ties an operation to the identity it was asked under, and `Informed` is
what an operation knows at each await: it sends only after an answer to a look that declared what it
needs, or, for an attempt, after the settle that follows such a look (`StageOrder`). `OneRun` says that a run
that starts has the document to itself, with nothing relayed.

`Spelled` says that `index` is a page's name, that no page lies in `assets`, and that what the grammar
refuses is neither an id nor a path. A reader's list is a manifest's list without the items that have a
finding; `Places` shows that numbering the places of a finite set of numbers by rank is a bijection that
keeps their order, so that `Picked` holds exactly the clean items, once each and in order (`PickedFacts`,
`PickedAll`), and `Unrepeated` that ids or paths in it are distinct. References then follow list by list. A
file in force lies under exactly one root because `M!Under` is transitive and two roots over one file are
nested, which is a finding, or equal (`RootPaths`, `RootsRead`). For the migration, the paths a version 1
read puts in force are distinct and well-formed, so the version 2 read of what is made from them has no
finding and keeps them all, the entry first (`V2Parts`, `KeepsPages`). `MInv` says only that a manifest is one
that edits can make: that its reads are honest holds of every such manifest.

`TypesOK` asks in addition that what is counted stays under its cap. `Filed` is about slugs: a handler that is
about to insert has a slug whose lower numbers are all taken, by as many rows (`Numbers`, an injection of numbers
into rows), so that with room for one more row its number is among those the bound allows, even when the slug
was chosen long before; `SlugIsNew` shows by the same count that `UniqueSlug` always finds one. `Limited`
says that a document owns at most `MaxOwned` runs, since one that comes back leaves its old place, and that a
frame is put back at most `MaxReasserts` times between two navigations of the parent. `Dated` says that a modification
time, put back or not, is no later than the last change. `Limits` is what this assumes: natural bounds, one
re-assert at least, and that a new manifest shows a page.

`ArtifactSaveProofs`, from `ArtifactAssumption` (finitely many calls):

- `WholeReads`: `Spec => []ReadsAreWhole`
- `StrictExclusion`: `Spec => ConflictExclusion`
- `TypeCorrect`: `Spec => []TypeOK`
- `LedgerInOrder`: `Spec => []EventsInSaveOrder`

`IInv` adds that the lock has one holder and `Sound`, what a call knows of the file at each stage: an
identity it opened and that the file still has stands for the same content. That survives a change of
the file because the new identity is one nobody holds (`FreshIdIsFresh`, a count of the identities that
can be held), and it is what makes the second `fstat` and the look at the name conclusive; the history
`raced` says who lost that knowledge after the last look. For the ledger, `Ledger` says that a call between its
rename and its event is the last that published, which the lock gives it, and that recorded calls are done: so
an event goes behind all others, and what is recorded stays a subsequence of what was published.

`TerminalSessionsProofs`, from `TerminalAssumption`:

- `SlotsKept`: `Spec => []SlotsHonest`
- `ReplayMeets`: `Spec => []ReplayExact`
- `OwnersWrite`: `Spec => InputOnlyFromOwner`
- `TypeCorrect`: `Spec => []TypeOK`

`Inductive` is what they share. Its `IInv` is a conjunction of named parts: `Seats` (the attach lock of a session
has one holder, and what a socket's place says of the session it sits at), `Creation` (one creator, which has
room under the cap when it registers), `Registry`, `Owners` (an owner sits at the session that names it, and
has an open end), `Handover` (no owner while a page boots its predecessor, announces itself or takes the
snapshot), `Ring`, and `Shown` (what the owner was sent is gapless and ends at the last chunk, or just before it
while the pump has that chunk in hand for this very owner). Without `Handover` the snapshot could overtake live
output; without the pump's half of `Shown` a chunk read before the owner changed could be sent twice. The steps are
classed by what they do to a session: those that change no owner, those that only take one away (leave,
detach, close), the creator's, those of a newcomer, and the three that show output (the pump's read, its
send, the snapshot). Each class keeps the parts it cannot touch by one lemma.

Left to TLC:

- Liveness (`EverythingEnds`, `EveryCallAnswered`, `AttachSettles`): fairness and ENABLED.
- `ViewsAgree`: streaks, rates, the columns of a day and the quick-add parser are recursions over data, and each is
  compared with a second definition; that the two agree for every input is an induction over that data, which the
  provers at hand do not reach.

## Not modelled, and what could come next

- The browser's terminal client: DOM, layout and a widget around one WebSocket. The server side of
  that socket is `TerminalSessions`.
- The sandbox: it builds command lines for bubblewrap and systemd; its effect on a job is a fairness
  assumption. The probes of runner health are one outcome in `RunnerAdmission`.
- The HTTP perimeter (origin checks, body caps), templates, `verify.py` and `verify_restore.py`, which
  are tests.
- Of modelled parts: names and audit events of tasks and lists, calendar snapshots in the export, the
  files a restore and a backup handle, the calendar arithmetic of a named period, the terminal
  workspace of a lesson and its brief, and of the terminal the trust check, the proxy probe and banners.
- Hazards no property covers carry a note in `PROJECT.json`. Three more lie outside what a model of one
  job or one session shows: the reuse of a pid between collection and `killpg`, the forced end of the
  event loop before a driver's first step, shells that outlive their place in the registry by the two
  seconds `close()` gives them.

Worth doing next: the bridge over the promises of admission and recording instead of free answers; the
starts of several server processes on one database.
