---------------------------- MODULE BundleSchema ----------------------------
(***************************************************************************)
(* Lesson manifests: the two readers of services/bundle_schema.py, the     *)
(* page selection and preview surface that services/lessons.py draws from  *)
(* a read, and the mapping of scripts/migrate_bundles.py from a version 1  *)
(* manifest to a version 2 one.  The manifest grows by the edits of the    *)
(* study agent; a path is the sequence of its segments.  Left out: the     *)
(* caps on sizes and lengths with their limit-exceeded (no manifest here   *)
(* reaches one), findings of type and value, and the metadata copies.      *)
(***************************************************************************)
EXTENDS Naturals, Sequences, FiniteSets, SequencesExt

CONSTANTS None, Bad,                    \* a value the grammar refuses
          PageIds, ItemIds,             \* well-formed ids of pages; of questions and blocks
          Html, Files, Roots,           \* paths of pages, of editor files, of artifact roots
          Index, Attempts,              \* index.html and attempts
          MaxEdits                      \* bound: edits of the study agent

VARIABLES
    raw,        \* the manifest as stored
    row,        \* the lesson's row: [uid, entry]
    edits       \* edits made (bound only)

vars == <<raw, row, edits>>

Under(root, p) == Len(p) > Len(root) /\ SubSeq(p, 1, Len(root)) = root

Rejecting == {"manifest-unreadable", "unsupported-version", "symlinked-bundle", "missing-identity",
              "duplicate-id", "duplicate-path", "no-pages"}

Item(version) == [version |-> version, codes |-> {}, pages |-> <<>>, entry |-> None, questions |-> <<>>,
                  blocks |-> <<>>, roots |-> <<Attempts>>, profile |-> "legacy-display"]
RejectedRead(code) == [Item(None) EXCEPT !.codes = {code}]

\* A duplicate of version 1 is dropped and reported, never a reason to reject.
Rejected(r) == r.version # 1 /\ r.codes \intersect Rejecting # {}
EffectiveProfile(r) == IF Rejected(r) THEN "legacy-display" ELSE r.profile
BridgeEligible(r) == r.version = 2 /\ ~Rejected(r) /\ EffectiveProfile(r) = "interactive"

Paths(pages) == {pages[i].path : i \in DOMAIN pages}
IdsOf(items) == {items[i].id : i \in DOMAIN items}

-----------------------------------------------------------------------------
(* Version 2.  Each reader walks its list and keeps the items without a    *)
(* finding; an id or a path is declared by its item, kept or not.          *)

\* The items at the given positions, in the order of the list.
Picked(items, at) ==
    [n \in 1 .. Cardinality(at) |-> items[CHOOSE i \in at : Cardinality({j \in at : j <= i}) = n]]

Repeated(values, i) == \E j \in 1 .. i - 1 : values[j] = values[i]

Every(items, key) == [i \in DOMAIN items |-> items[i][key]]
IdCodes(ids, i) == IF ids[i] = Bad THEN {"invalid-id"} ELSE IF Repeated(ids, i) THEN {"duplicate-id"} ELSE {}
PathCodes(paths, i) == IF paths[i] = Bad THEN {"invalid-path"} ELSE IF Repeated(paths, i) THEN {"duplicate-path"} ELSE {}

\* What is wrong with an item itself, and what with its place if it is well-formed.
Walk(items, codes, more) ==
    [kept |-> Picked(items, {i \in DOMAIN items : codes[i] \union more[i] = {}}),
     codes |-> UNION {codes[i] \union (IF codes[i] = {} THEN more[i] ELSE {}) : i \in DOMAIN items}]

ReadPages(items) ==
    LET w == Walk(items, [i \in DOMAIN items |-> IdCodes(Every(items, "id"), i) \union PathCodes(Every(items, "path"), i)],
                  [i \in DOMAIN items |-> {}])
    IN  [kept |-> w.kept, codes |-> w.codes \union (IF w.kept = <<>> THEN {"no-pages"} ELSE {})]

Dangling_Kept(item, pages) == {}
Dangling(item, pages) == IF item.page \in IdsOf(pages) THEN {} ELSE {"dangling-ref"}

ReadQuestions(items, pages) ==
    Walk(items, [i \in DOMAIN items |-> IdCodes(Every(items, "id"), i)],
         [i \in DOMAIN items |-> Dangling(items[i], pages)])

Outside(item, roots) == IF item.file # Bad /\ \E r \in ToSet(roots) : Under(r, item.file) THEN {} ELSE {"outside-root"}
UnknownKind(item) == IF item.kind = "editor" THEN {} ELSE {"unknown-kind"}

RunnerCodes(item) ==
    CASE item.runner = "unknown" -> {"unknown-runner"}
      [] item.runner = "unsuited" -> {"incompatible-runner"}
      [] OTHER -> {}

\* A block keeps its place without a runner, or under one that does not take its
\* file; page, kind and root are told together.
ReadBlocks(items, pages, roots) ==
    LET w == Walk(items, [i \in DOMAIN items |-> IdCodes(Every(items, "id"), i) \union PathCodes(Every(items, "file"), i)],
                  [i \in DOMAIN items |-> Dangling(items[i], pages) \union UnknownKind(items[i])
                                           \union Outside(items[i], roots)])
    IN  [kept |-> w.kept,
         codes |-> w.codes \union UNION {RunnerCodes(w.kept[i]) : i \in DOMAIN w.kept}]

\* attempts joins before the overlaps are resolved; nested roots and repeats go.
ReadRoots(items) ==
    LET valid == Picked(items, {i \in DOMAIN items : items[i] # Bad /\ Head(items[i]) # "assets"})
        all == IF Attempts \in ToSet(valid) THEN valid ELSE Append(valid, Attempts)
        Nested(p) == \E q \in ToSet(all) : Under(q, p)
    IN  Picked(all, {i \in DOMAIN all : ~Repeated(all, i) /\ ~Nested(all[i])})

ReadV2(m) ==
    LET roots == ReadRoots(m.roots)
        p == ReadPages(m.pages)
        q == ReadQuestions(m.questions, p.kept)
        b == ReadBlocks(m.blocks, p.kept, roots)
        declared == m.entry \in Paths(p.kept)
        identity == IF m.uid = Bad THEN {"missing-identity"} ELSE IF m.uid # row.uid THEN {"identity-mismatch"} ELSE {}
        r == [version |-> 2, pages |-> p.kept, questions |-> q.kept, roots |-> roots,
              codes |-> p.codes \union q.codes \union b.codes \union identity
                        \union (IF declared THEN {} ELSE {"invalid-entry"}),
              entry |-> IF declared THEN m.entry ELSE IF p.kept # <<>> THEN Head(p.kept).path ELSE None,
              profile |-> IF "identity-mismatch" \in identity \/ m.profile # "interactive" THEN "legacy-display"
                          ELSE m.profile,
              blocks |-> <<>>]
        Runs(i) == i.runner = "known" /\ BridgeEligible(r)
    IN  [r EXCEPT !.blocks = [i \in DOMAIN b.kept |-> [id |-> b.kept[i].id, page |-> b.kept[i].page,
                                                        file |-> b.kept[i].file, run |-> Runs(b.kept[i])]]]

-----------------------------------------------------------------------------
(* Version 1: references are cleaned (a dotted one is another spelling of  *)
(* its path), and what cannot be cleaned falls back or is dropped.         *)

Refs == [path : Html, dotted : BOOLEAN] \union {[path |-> Bad, dotted |-> FALSE]}

Related(m, entry) ==
    LET paths == Every(m.related, "path")
    IN  Picked(paths, {i \in DOMAIN paths : paths[i] \notin {Bad, entry} /\ ~Repeated(paths, i)})

RelatedCodes(m, entry) ==
    LET paths == Every(m.related, "path")
        Code(i) == IF paths[i] = Bad THEN {"invalid-path"}
                   ELSE IF paths[i] = entry \/ Repeated(paths, i) THEN {"duplicate-path"} ELSE {}
    IN  UNION {Code(i) : i \in DOMAIN paths}

ReadV1(m) ==
    LET entry == IF m.entry.path = Bad THEN Index ELSE m.entry.path
        pages == <<entry>> \o Related(m, entry)
    IN  [Item(1) EXCEPT !.entry = entry, !.pages = [i \in DOMAIN pages |-> [id |-> None, path |-> pages[i]]],
                        !.codes = (IF m.entry.path = Bad THEN {"invalid-entry"} ELSE {})
                                  \union RelatedCodes(m, entry)]

ReadManifest(m) ==
    CASE m.form = "unreadable" -> RejectedRead("manifest-unreadable")
      [] m.form = "later" -> RejectedRead("unsupported-version")
      [] m.form = "v1" -> ReadV1(m)
      [] m.form = "v2" -> ReadV2(m)

\* The file is opened without following a link: a planted one is not read.
ReadManifestPath(m) == IF m.form = "symlink" THEN RejectedRead("symlinked-bundle") ELSE ReadManifest(m)

-----------------------------------------------------------------------------
(* What the app makes of a read (services/lessons.py).                     *)

\* The page shown for a selection: exact in version 2, cleaned in version 1,
\* where one that cannot be cleaned is refused and no page is shown.
ResolveEntry(r, ref) ==
    IF ref = None THEN r.entry
    ELSE IF r.version = 1 THEN IF ref.path = Bad THEN None ELSE ref.path
    ELSE IF ~ref.dotted /\ ref.path \in Paths(r.pages) THEN ref.path ELSE r.entry

\* bundle_resource_info: which files of a bundle the preview may serve.
Servable(r, p) ==
    /\ ~Rejected(r)
    /\ \/ r.version = 1
       \/ p \in Paths(r.pages)
       \/ Head(p) = "assets"

-----------------------------------------------------------------------------
(* migrate_bundles: pages in the order of the version 1 read, the row's    *)
(* selection folded in at the head, and ids made from the path.            *)

BuildV2(m) ==
    LET r == ReadV1(m)
        old == [i \in DOMAIN r.pages |-> r.pages[i].path]
        folds == row.entry # None /\ row.entry.path # Bad /\ row.entry.path \notin Paths(r.pages)
        paths == IF folds THEN <<row.entry.path>> \o old ELSE old
    IN  [form |-> "v2", uid |-> row.uid, entry |-> r.entry,
         pages |-> [i \in DOMAIN paths |-> [id |-> <<"pg", paths[i]>>, path |-> paths[i]]],
         questions |-> <<>>, blocks |-> <<>>, roots |-> <<Attempts>>, profile |-> "legacy-display"]

-----------------------------------------------------------------------------
Skeleton == [form |-> "v2", uid |-> row.uid, entry |-> Index, questions |-> <<>>, blocks |-> <<>>,
             pages |-> <<[id |-> CHOOSE i \in PageIds : TRUE, path |-> Index]>>,
             roots |-> <<Attempts>>, profile |-> "interactive"]

Init ==
    /\ edits = 0
    /\ row \in [uid : {"echo"}, entry : {None} \union Refs]
    /\ \/ row.entry = None /\ raw = Skeleton
       \/ \E e \in Refs : raw = [form |-> "v1", entry |-> e, related |-> <<>>]

\* One more item of a version 2 manifest, by the key of its list.
Items ==
    [pages : {[id |-> i, path |-> p] : i \in PageIds \union {Bad}, p \in Html \union {Bad}}]
    \union [questions : {[id |-> i, page |-> p] : i \in ItemIds \union {Bad}, p \in PageIds}]
    \union [blocks : {[id |-> i, file |-> f, page |-> p, kind |-> k, runner |-> u] :
                         i \in ItemIds, f \in Files \union {Bad}, p \in PageIds, k \in {"editor", "quiz"},
                         u \in {None, "known", "unknown", "unsuited"}}]
    \union [roots : Roots \union {Bad}]

\* The study agent edits the manifest: one more item, another identity, entry or profile.
AgentEdit ==
    /\ raw.form = "v2"
    /\ \/ \E i \in Items : \E k \in DOMAIN i : raw' = [raw EXCEPT ![k] = Append(@, i[k])]
       \/ \E u \in {"other", Bad} : raw' = [raw EXCEPT !.uid = u]
       \/ \E e \in Html \union {Bad} : raw' = [raw EXCEPT !.entry = e]
       \/ raw' = [raw EXCEPT !.profile = "legacy-display"]
       \/ \E k \in {"roots", "pages"} : raw' = [raw EXCEPT ![k] = <<>>]

AgentEditV1 ==
    /\ raw.form = "v1"
    /\ \E ref \in Refs : raw' = [raw EXCEPT !.related = Append(@, ref)]

Spoil ==
    /\ raw.form \in {"v1", "v2"}
    /\ \E f \in {"unreadable", "later", "symlink"} : raw' = [raw EXCEPT !.form = f]

Next ==
    /\ edits < MaxEdits /\ edits' = edits + 1 /\ UNCHANGED row
    /\ Spoil \/ AgentEdit \/ AgentEditV1

Spec == Init /\ [][Next]_vars

-----------------------------------------------------------------------------
(* Properties *)

TypeOK ==
    /\ raw.form \in {"v1", "v2", "unreadable", "later", "symlink"}
    /\ row \in [uid : {"echo"}, entry : {None} \union Refs]

Distinct(items) == Cardinality(IdsOf(items)) = Len(items)

(* bundle_schema's read model, whatever the agent wrote: a read that is    *)
(* not rejected has pages, distinct ids and paths, an entry among them,    *)
(* questions and blocks that stand on its pages, editor files under one    *)
(* artifact root, and roots that never overlap and include attempts; only  *)
(* a version 2 read with the row's identity carries the bridge, only such  *)
(* a read runs code, and only a read in force serves files.                *)
ReadHonest ==
    LET r == ReadManifestPath(raw) IN
    /\ ~Rejected(r) =>
        /\ r.entry \in Paths(r.pages) /\ Cardinality(Paths(r.pages)) = Len(r.pages)
        /\ r.version = 2 => Distinct(r.pages) /\ Distinct(r.questions) /\ Distinct(r.blocks)
        /\ \A i \in DOMAIN r.questions : r.questions[i].page \in IdsOf(r.pages)
        /\ \A i \in DOMAIN r.blocks :
            /\ r.blocks[i].page \in IdsOf(r.pages)
            /\ Cardinality({x \in ToSet(r.roots) : Under(x, r.blocks[i].file)}) = 1
    /\ Attempts \in ToSet(r.roots) \/ \E x \in ToSet(r.roots) : Under(x, Attempts)
    /\ \A x, y \in ToSet(r.roots) : ~Under(x, y)
    /\ BridgeEligible(r) => raw.form = "v2" /\ raw.uid = row.uid /\ r.pages # <<>>
    /\ \A i \in DOMAIN r.blocks : r.blocks[i].run => BridgeEligible(r)
    /\ \A p \in Html : Servable(r, p) /\ r.version = 2 => p \in Paths(r.pages)

(* migrate_bundles: a migrated manifest reads clean, keeps the entry and   *)
(* every page, and shows the learner the page that was selected before,    *)
(* unless the stored selection was a spelling that exact comparison drops, *)
(* or was malformed and had the preview refused.                           *)
MigrationKeepsPages ==
    raw.form = "v1" =>
        LET old == ReadV1(raw)
            new == ReadV2(BuildV2(raw))
        IN  /\ new.codes = {} /\ new.entry = old.entry
            /\ Paths(old.pages) \subseteq Paths(new.pages)
            /\ row.entry = None \/ (~row.entry.dotted /\ row.entry.path # Bad) => ResolveEntry(new, row.entry) = ResolveEntry(old, row.entry)
=============================================================================
