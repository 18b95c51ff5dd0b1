---------------------------- MODULE LessonPages -----------------------------
(***************************************************************************)
(* What identifies a lesson page (services/lessons.py): the preview        *)
(* metadata and the file route each read the page on one descriptor, by    *)
(* halves, while editors write it in place, replace it by a rename or put  *)
(* its modification time back.  The parent page shows a body only under    *)
(* the version that the metadata named, and hands its page_rev on.         *)
(* Each write gives the inode a change time it never had before.           *)
(***************************************************************************)
EXTENDS Naturals, FiniteSets

CONSTANTS None,
          Halves,                       \* what one half of a page may hold
          MaxChanges, MaxReads, MaxReaders   \* bounds

VARIABLES
    inodes,     \* by number: [mtime, ctime, bytes]; bytes is a pair of halves
    name,       \* the inode the page's path names, None when missing
    writing,    \* an editor inside an in-place write: [node, half], or None
    profile,    \* effective profile of the manifest
    cache,      \* _PAGE_DIGEST_CACHE entry of the path: [key, digest], or None
    readers,    \* reads under way
    metas,      \* answers of preview-meta: [version, rev]
    files,      \* bodies of the file route: [version, body]
    changes, reads   \* bounds only

vars == <<inodes, name, writing, profile, cache, readers, metas, files, changes, reads>>

Profiles == {"interactive", "legacy-display"}
Kinds == {"meta", "file"}

Key(node) == <<node, inodes[node].mtime, inodes[node].ctime>>
Digest(bytes) == bytes

\* The reload token: with a digest when the page may carry a bridge.
Version(mtime, prof, digest) == <<mtime, prof, IF prof = "interactive" THEN digest ELSE None>>

Init ==
    /\ \E x \in Halves : inodes = [n \in {1} |-> [mtime |-> 0, ctime |-> 0, bytes |-> <<x, x>>]]
    /\ name = 1 /\ writing = None /\ profile \in Profiles /\ cache = None
    /\ readers = {} /\ metas = {} /\ files = {} /\ changes = 0 /\ reads = 0

-----------------------------------------------------------------------------
(* Editors.                                                                *)

Change == changes < MaxChanges /\ changes' = changes + 1
Touched(node, mtime, bytes) == [inodes EXCEPT ![node] = [mtime |-> mtime, ctime |-> changes + 1, bytes |-> bytes]]
Quiet == UNCHANGED <<cache, readers, metas, files, reads>>

WriteFirstHalf ==
    /\ Change /\ writing = None /\ name # None
    /\ \E x \in Halves :
        /\ inodes' = Touched(name, changes + 1, <<x, inodes[name].bytes[2]>>)
        /\ writing' = [node |-> name, half |-> x]
    /\ Quiet /\ UNCHANGED <<name, profile>>

WriteSecondHalf ==
    /\ Change /\ writing # None
    /\ inodes' = Touched(writing.node, changes + 1, <<inodes[writing.node].bytes[1], writing.half>>)
    /\ writing' = None /\ Quiet /\ UNCHANGED <<name, profile>>

\* Another file takes the name, with a new modification time or the old one.
Rename ==
    /\ Change
    /\ \E x \in Halves, m \in {changes + 1} \union {inodes[n].mtime : n \in DOMAIN inodes} :
        LET node == Cardinality(DOMAIN inodes) + 1 IN
        /\ inodes' = [n \in DOMAIN inodes \union {node} |->
                        IF n = node THEN [mtime |-> m, ctime |-> changes + 1, bytes |-> <<x, x>>] ELSE inodes[n]]
        /\ name' = node
    /\ Quiet /\ UNCHANGED <<writing, profile>>

Utime ==
    /\ Change /\ name # None
    /\ \E n \in DOMAIN inodes : inodes' = Touched(name, inodes[n].mtime, inodes[name].bytes)
    /\ Quiet /\ UNCHANGED <<name, writing, profile>>

Remove == Change /\ name # None /\ name' = None /\ Quiet /\ UNCHANGED <<inodes, writing, profile>>

FlipProfile ==
    /\ Change /\ \E p \in Profiles \ {profile} : profile' = p
    /\ Quiet /\ UNCHANGED <<inodes, name, writing>>

-----------------------------------------------------------------------------
(* Readers: the manifest, then the descriptor and its stat, the bytes, and *)
(* a closing stat of the same descriptor.                                  *)

Unread == UNCHANGED <<inodes, name, writing, profile, changes>>

\* A version 2 page: the file route is asked with a version the metadata named.
Ask(kind) ==
    /\ reads < MaxReads /\ reads' = reads + 1 /\ Cardinality(readers) < MaxReaders
    /\ \E v \in IF kind = "meta" THEN {None} ELSE {m.version : m \in metas} :
        readers' = readers \union {[id |-> reads, kind |-> kind, v |-> v, at |-> "open", prof |-> profile,
                                         node |-> None, key |-> None, first |-> None, second |-> None]}
    /\ UNCHANGED <<cache, metas, files>> /\ Unread

Drop(r) == readers' = readers \ {r}

AnswerMeta(r, mtime, digest) ==
    /\ metas' = metas \union {[version |-> Version(mtime, r.prof, digest),
                               rev |-> IF r.prof = "interactive" THEN digest ELSE None]}
    /\ UNCHANGED files

\* 409 unless what was read is what was asked for.
AnswerFile(r, mtime, bytes) ==
    /\ LET v == Version(mtime, r.prof, Digest(bytes)) IN
       files' = IF v = r.v THEN files \union {[version |-> v, body |-> bytes]} ELSE files
    /\ UNCHANGED metas

\* Only the metadata takes a digest from the cache; a display read needs no bytes.
Open(r) ==
    /\ r.at = "open"
    /\ LET hit == r.kind = "meta" /\ r.prof = "interactive" /\ name # None /\ cache # None /\ cache.key = Key(name)
           plain == r.kind = "meta" /\ r.prof # "interactive"
       IN  IF name = None THEN Drop(r) /\ UNCHANGED <<metas, files>>
           ELSE IF hit THEN Drop(r) /\ AnswerMeta(r, inodes[name].mtime, cache.digest)
           ELSE IF plain THEN Drop(r) /\ AnswerMeta(r, inodes[name].mtime, None)
           ELSE /\ readers' = (readers \ {r}) \union
                       {[r EXCEPT !.at = "first", !.node = name, !.key = Key(name)]}
                /\ UNCHANGED <<metas, files>>
    /\ UNCHANGED <<cache, reads>> /\ Unread

ReadFirst(r) ==
    /\ r.at = "first"
    /\ readers' = (readers \ {r}) \union {[r EXCEPT !.at = "second", !.first = inodes[r.node].bytes[1]]}
    /\ UNCHANGED <<cache, metas, files, reads>> /\ Unread

ReadSecond(r) ==
    /\ r.at = "second"
    /\ readers' = (readers \ {r}) \union {[r EXCEPT !.at = "stat", !.second = inodes[r.node].bytes[2]]}
    /\ UNCHANGED <<cache, metas, files, reads>> /\ Unread

Cached_AfterRead(r, bytes) == [key |-> Key(r.node), digest |-> Digest(bytes)]
\* The digest is kept only when the stat did not move under the read.
Cached(r, bytes) == IF Key(r.node) = r.key THEN [key |-> r.key, digest |-> Digest(bytes)] ELSE cache

Close(r) ==
    /\ r.at = "stat"
    /\ LET bytes == <<r.first, r.second>> IN
       /\ cache' = Cached(r, bytes)
       /\ IF r.kind = "meta" THEN AnswerMeta(r, inodes[r.node].mtime, Digest(bytes))
                             ELSE AnswerFile(r, inodes[r.node].mtime, bytes)
    /\ Drop(r) /\ UNCHANGED reads /\ Unread

Next ==
    \/ WriteFirstHalf \/ WriteSecondHalf \/ Rename \/ Utime \/ Remove \/ FlipProfile
    \/ \E k \in Kinds : Ask(k)
    \/ \E r \in readers : Open(r) \/ ReadFirst(r) \/ ReadSecond(r) \/ Close(r)

Spec == Init /\ [][Next]_vars

-----------------------------------------------------------------------------
(* Properties *)

TypeOK ==
    /\ \A n \in DOMAIN inodes : inodes[n] \in [mtime : 0 .. MaxChanges, ctime : 0 .. MaxChanges, bytes : Halves \X Halves]
    /\ name \in DOMAIN inodes \union {None}
    /\ \A r \in readers : r.kind \in Kinds /\ r.prof \in Profiles

(* The body that is shown under a version is the one that the page_rev     *)
(* named with that version describes, through torn reads, replacements     *)
(* that keep the modification time and profile flips; and the cache never  *)
(* gives a page the digest of other bytes, so that an attempt is not       *)
(* called stale, nor a stale one fresh, on its account.                    *)
IdentityHonest ==
    /\ \A m \in metas, f \in files : m.version = f.version /\ m.rev # None => m.rev = Digest(f.body)
    /\ cache # None /\ name # None /\ cache.key = Key(name) => cache.digest = Digest(inodes[name].bytes)
=============================================================================
