------------------------------ MODULE MCLearn -------------------------------
(***************************************************************************)
(* Lessons and their bundles on small instances.  The modules meet in one  *)
(* file, the manifest, and each sees it at its own grain: its text in      *)
(* BundleSchema, its versions in BundleMigration, what it declares in      *)
(* LessonLifecycle, its profile in LessonPages and in LessonBridge.  One   *)
(* of them moves in a behaviour, the scene, and the others rest.           *)
(* BundleMigration is extended; the others are instances.  LessonProofs    *)
(* proves what it says of them for every value of their constants.         *)
(***************************************************************************)
EXTENDS BundleMigration

CONSTANTS Bad, PageIds, ItemIds, PageNames, FileNames, Folders, MaxEdits,           \* of BundleSchema
          Titles, EntryPaths, First, MaxLessons, MaxCalls, MaxMoves, MaxClock,      \* of LessonLifecycle
          Halves, MaxChanges, MaxReads, MaxReaders,                                 \* of LessonPages
          Requests, OpKinds, Versions, Pages, NoPage, NoJob, Outputs, Trouble, MaxLoads,     \* of LessonBridge
          MaxReasserts, MaxInflight, MaxOwned, MaxProtocolErrors

\* The manifests of the three kinds differ, and from the marks of a plan.
Distinct ==
    /\ MaxMeddling \in Nat
    /\ Old \intersect Own = {} /\ Old \intersect Migrated = {} /\ Own \intersect Migrated = {}
    /\ None \notin Old \union Own \union Migrated /\ "noop" \notin Old
\* A missing stamp is not a time.
Timeless == None \notin Nat
\* A lesson document asks for operations the bridge knows.
KnownKinds == OpKinds \subseteq {"attempt", "get", "save", "run", "cancel"}
\* Paths of a bundle: pages lie at its top; roots are folders at the top, in attempts or in assets.
Html == {<<p>> : p \in PageNames}
Roots == {<<f>> : f \in Folders} \union {<<a, f>> : a \in {"attempts", "assets"}, f \in Folders}
EditorFiles == {<<f, n>> : f \in Folders, n \in FileNames}
               \union {<<"attempts", f, n>> : f \in Folders, n \in FileNames}
\* What the grammar refuses is no path and no id, one that migration makes included.
Spelled ==
    /\ "index" \in PageNames /\ "assets" \notin PageNames /\ PageIds # {}
    /\ Bad # "echo" /\ Bad \notin {<<"attempts">>} \union Html \union EditorFiles
    /\ \A p \in Html : Bad # <<"pg", p>>

\* A new manifest shows a page a form may name; a document is put back once at least.
Limits ==
    /\ First \in EntryPaths
    /\ {MaxLessons, MaxClock, MaxChanges, MaxOwned} \subseteq Nat /\ MaxReasserts \in Nat \ {0}

ASSUME LearnConstants == Distinct /\ Timeless /\ KnownKinds /\ Spelled /\ Limits

VARIABLES scene,
          raw, manifestRow, edits,
          lessons, journal, manifests, calls, clock, moves,
          inodes, name, writing, profile, cache, readers, metas, files, changes, reads,
          meta, trouble, frame, shown, bridge, fetches, ops, applied

M == INSTANCE BundleSchema WITH row <- manifestRow, Files <- EditorFiles, Index <- <<"index">>, Attempts <- <<"attempts">>
L == INSTANCE LessonLifecycle WITH disk <- manifests, Pages <- EntryPaths
P == INSTANCE LessonPages
B == INSTANCE LessonBridge WITH Kinds <- OpKinds

\* The operations of a lesson document that a scene of the bridge lets it ask for.
Asked == [run |-> {"run", "cancel"}, attempt |-> {"attempt"}, get |-> {"get"}, save |-> {"save"}]

ofManifest == <<raw, manifestRow, edits>>
ofLessons == <<lessons, journal, manifests, calls, clock, moves>>
ofPages == <<inodes, name, writing, profile, cache, readers, metas, files, changes, reads>>
ofBridge == <<meta, trouble, frame, shown, bridge, fetches, ops, applied>>

One(U) == CHOOSE u \in U : TRUE

\* One initial state of each resting module.
Resting(in, scenes) == scene \in scenes \/ in

LearnInit ==
    /\ scene \in {"manifest", "lessons", "pages", "migration"} \union DOMAIN Asked
    /\ M!Init /\ L!Init /\ P!Init /\ Init /\ B!Init
    /\ Resting(raw = M!Skeleton, {"manifest"})
    /\ Resting(profile = "interactive" /\ inodes[1].bytes = <<One(Halves), One(Halves)>>, {"pages"})
    /\ Resting(disk = Per(One(Old)), {"migration"})
    /\ meta.ver = One(Versions)      \* the version tokens are interchangeable
    /\ Resting(frame.pending /\ ~shown.own, DOMAIN Asked)

LearnNext ==
    /\ UNCHANGED scene
    /\ \/ scene = "manifest" /\ M!Next /\ UNCHANGED <<ofLessons, ofPages, vars, ofBridge>>
       \/ scene = "lessons" /\ L!Next /\ UNCHANGED <<ofManifest, ofPages, vars, ofBridge>>
       \/ scene = "pages" /\ P!Next /\ UNCHANGED <<ofManifest, ofLessons, vars, ofBridge>>
       \/ scene = "migration" /\ Next /\ UNCHANGED <<ofManifest, ofLessons, ofPages, ofBridge>>
       \/ /\ scene \in DOMAIN Asked /\ B!Next /\ UNCHANGED <<ofManifest, ofLessons, ofPages, vars>>
          /\ \A o \in ops' : o.kind \in Asked[scene]

LearnSpec == LearnInit /\ [][LearnNext]_<<scene, ofManifest, ofLessons, ofPages, vars, ofBridge>>

(* Every row, manifest, page, run of the tool and frame has its type.      *)
TypesOK ==
    /\ scene = "manifest" => M!TypeOK
    /\ scene = "lessons" => L!TypeOK
    /\ scene = "pages" => P!TypeOK
    /\ scene = "migration" => TypeOK
    /\ scene \in DOMAIN Asked => B!TypeOK

(* As stated in BundleSchema: what a read in force promises, and what the  *)
(* mapping from version 1 to version 2 keeps.                              *)
ManifestHonest == scene = "manifest" => M!ReadHonest /\ M!MigrationKeepsPages

(* As stated in LessonLifecycle: rows, stamps, slugs and ledger agree.     *)
LessonsHonest == scene = "lessons" => L!LessonsHonest

(* As stated in LessonPages: a page_rev names the body shown under it.     *)
IdentityHonest == scene = "pages" => P!IdentityHonest

(* MigrationRestorable is that of BundleMigration.                         *)

(* As stated in LessonBridge: the port is its document's, or that of one   *)
(* that strayed from it unseen, and an operation is sent only on what the  *)
(* page was seen to declare.                                               *)
BridgeHonest == scene \in DOMAIN Asked => B!BridgeHonest
=============================================================================
