-------------------------- MODULE BundleMigration ---------------------------
(***************************************************************************)
(* scripts/migrate_bundles.py: one run of the tool plans every lesson,     *)
(* opens a rollback directory, and then lesson by lesson looks again at    *)
(* the row and at the manifest, saves the old bytes, enters them in the    *)
(* ledger and replaces the manifest.  Another run rolls a directory back.  *)
(* The study agent edits manifests and the app changes rows meanwhile, and *)
(* the machine may stop at any step.  What a manifest says is BundleSchema.*)
(***************************************************************************)
EXTENDS Naturals, Sequences, FiniteSets, TLC

CONSTANTS None,
          Slugs, Old, Own,              \* lessons; manifests of version 1, of version 2 as the agent writes them
          MaxDirs, MaxMeddling          \* bounds: runs; edits, row changes and stops

VARIABLES
    disk,       \* lesson.json by slug
    row,        \* revision of each lesson's row
    dirs,       \* rollback directories: by slug [old, new, copy]; None where not entered
    tool,       \* the process: its stage and what it has read
    latest,     \* what the agent wrote last
    raced,      \* slugs edited between the tool's last look and its rename
    meddling    \* bound only

vars == <<disk, row, dirs, tool, latest, raced, meddling>>

\* The manifest that _build_v2 makes of a version 1 manifest and the row: its bytes tell both.
New(old, rev) == <<"new", old, rev>>
Migrated == {New(o, r) : o \in Old, r \in 0 .. MaxMeddling}

Quiet == tool.at = "idle"
Per(v) == [s \in Slugs |-> v]
NoDir == [old |-> Per(None), new |-> Per(None), copy |-> Per(None)]

Init ==
    /\ disk \in [Slugs -> Old] /\ latest = disk
    /\ row = Per(0) /\ dirs = <<>> /\ raced = {} /\ meddling = 0
    /\ tool = [at |-> "idle", slug |-> None, rows |-> row, plan |-> Per(None), dir |-> 0]

-----------------------------------------------------------------------------
(* Planning touches nothing: the rows first, then each manifest.  A plan   *)
(* is the bytes read, or no operation for a bundle of version 2.           *)

Files == UNCHANGED <<disk, row, dirs, latest, raced, meddling>>
Goto(at) == tool' = [tool EXCEPT !.at = at]

LoadLessons ==
    /\ Quiet /\ Len(dirs) < MaxDirs
    /\ tool' = [at |-> "plan", slug |-> None, rows |-> row, plan |-> Per(None), dir |-> 0]
    /\ Files

PlanBundle(s) ==
    /\ tool.at = "plan" /\ tool.plan[s] = None
    /\ tool' = [tool EXCEPT !.plan[s] = IF disk[s] \in Old THEN disk[s] ELSE "noop"]
    /\ Files

\* The ledger is durable and empty before any manifest moves.
OpenLedger ==
    /\ tool.at = "plan" /\ \A s \in Slugs : tool.plan[s] # None
    /\ IF \E s \in Slugs : tool.plan[s] \in Old
       THEN dirs' = Append(dirs, NoDir) /\ tool' = [tool EXCEPT !.at = "next", !.dir = Len(dirs) + 1]
       ELSE dirs' = dirs /\ Goto("idle")
    /\ UNCHANGED <<disk, row, latest, raced, meddling>>

Planned(s) == tool.plan[s] \in Old
Take(s) == tool' = [tool EXCEPT !.at = "row", !.slug = s]
NextBundle == tool.at = "next" /\ (\E s \in Slugs : Planned(s) /\ Take(s)) /\ Files
EndRun == tool.at = "next" /\ (\A s \in Slugs : ~Planned(s)) /\ Goto("idle") /\ Files

Settled == tool' = [tool EXCEPT !.at = "next", !.plan[tool.slug] = "noop"]

\* run: the row is read again, and a plan from another row is refused.
RereadRow ==
    /\ tool.at = "row"
    /\ IF row[tool.slug] = tool.rows[tool.slug] THEN Goto("look") ELSE Settled
    /\ Files

-----------------------------------------------------------------------------
(* apply_plan *)

CheckManifest_Blind == tool.at = "look" /\ Goto("copy") /\ Files

CheckManifest ==
    /\ tool.at = "look"
    /\ IF disk[tool.slug] = tool.plan[tool.slug] THEN Goto("copy") ELSE Settled
    /\ Files

SaveCopy ==
    /\ tool.at = "copy"
    /\ dirs' = [dirs EXCEPT ![tool.dir].copy[tool.slug] = tool.plan[tool.slug]]
    /\ Goto("ledger") /\ UNCHANGED <<disk, row, latest, raced, meddling>>

Planning(s) == New(tool.plan[s], tool.rows[s])

EnterLedger ==
    /\ tool.at = "ledger"
    /\ dirs' = [dirs EXCEPT ![tool.dir].old[tool.slug] = tool.plan[tool.slug],
                            ![tool.dir].new[tool.slug] = Planning(tool.slug)]
    /\ Goto("replace") /\ UNCHANGED <<disk, row, latest, raced, meddling>>

ReplaceManifest ==
    /\ tool.at = "replace"
    /\ disk' = [disk EXCEPT ![tool.slug] = Planning(tool.slug)]
    /\ Goto("sync") /\ UNCHANGED <<row, dirs, latest, raced, meddling>>

\* Directory sync, then a check of the outcome that reports and changes nothing.
SyncManifest == tool.at = "sync" /\ Settled /\ Files

-----------------------------------------------------------------------------
(* rollback, entry by entry of one directory *)

Rollback(d, s) ==
    /\ Quiet /\ dirs[d].new[s] # None
    /\ dirs[d].copy[s] = dirs[d].old[s] /\ disk[s] = dirs[d].new[s]
    /\ tool' = [tool EXCEPT !.at = "restore", !.slug = s, !.dir = d]
    /\ Files

Restore ==
    /\ tool.at = "restore"
    /\ disk' = [disk EXCEPT ![tool.slug] = dirs[tool.dir].copy[tool.slug]]
    /\ Goto("idle") /\ UNCHANGED <<row, dirs, latest, raced, meddling>>

-----------------------------------------------------------------------------
Meddle == meddling < MaxMeddling /\ meddling' = meddling + 1

Exposed(s) == tool.slug = s /\ tool.at \in {"copy", "ledger", "replace", "restore"}

AgentWrites(s) ==
    /\ Meddle
    /\ \E m \in Old \union Own :
        disk' = [disk EXCEPT ![s] = m] /\ latest' = [latest EXCEPT ![s] = m]
    /\ raced' = IF Exposed(s) THEN raced \union {s} ELSE raced \ {s}
    /\ UNCHANGED <<row, dirs, tool>>

RowChanges(s) == Meddle /\ row' = [row EXCEPT ![s] = @ + 1] /\ UNCHANGED <<disk, dirs, tool, latest, raced>>

\* A rename that was not synced may be undone.
Stop ==
    /\ Meddle /\ ~Quiet /\ Goto("idle")
    /\ \/ disk' = disk
       \/ tool.at = "sync" /\ disk[tool.slug] = Planning(tool.slug) /\ disk' = [disk EXCEPT ![tool.slug] = tool.plan[tool.slug]]
    /\ UNCHANGED <<row, dirs, latest, raced>>

Next ==
    \/ LoadLessons \/ OpenLedger \/ NextBundle \/ EndRun \/ RereadRow \/ CheckManifest \/ SaveCopy \/ EnterLedger
    \/ ReplaceManifest \/ SyncManifest \/ Restore \/ Stop
    \/ \E s \in Slugs : PlanBundle(s) \/ AgentWrites(s) \/ RowChanges(s) \/ \E d \in DOMAIN dirs : Rollback(d, s)

Spec == Init /\ [][Next]_vars

-----------------------------------------------------------------------------
(* Properties *)

TypeOK ==
    /\ disk \in [Slugs -> Old \union Own \union Migrated] /\ latest \in [Slugs -> Old \union Own]
    /\ tool.at \in {"idle", "plan", "next", "row", "look", "copy", "ledger", "replace", "sync", "restore"}

(* Wherever a run stops, a manifest that the tool wrote can be rolled back *)
(* from some directory, to the version 1 manifest it was made from; and    *)
(* what the agent wrote last is on disk or in a rollback copy, unless the  *)
(* agent wrote between the tool's last look and its rename.                *)
MigrationRestorable ==
    \A s \in Slugs :
        /\ disk[s] \in Migrated =>
            \E d \in DOMAIN dirs :
                /\ dirs[d].new[s] = disk[s] /\ dirs[d].copy[s] = dirs[d].old[s]
                /\ dirs[d].old[s] = disk[s][2]
        /\ s \in raced \/ latest[s] \in {disk[s]} \union {dirs[d].copy[s] : d \in DOMAIN dirs}
=============================================================================
