--------------------------- MODULE ArchiveImport ---------------------------
(***************************************************************************)
(* The import of a Portable Project Archive (project-archive-imports.ts)   *)
(* and the Offline Media Cache (offline-media-cache.ts): which identity    *)
(* the Project gets, and which media bytes are kept under which claim,     *)
(* when an import is repeated, interrupted or races with the Library.      *)
(*                                                                         *)
(* One archived Project and its Source.  An archive carries either the     *)
(* whole of the Source's Snapshot, which its fingerprint proves, or other  *)
(* bytes of the same Project Range that nothing but the archive vouches    *)
(* for.                                                                    *)
(***************************************************************************)
EXTENDS Naturals, FiniteSets

CONSTANTS
    Archives,          \* archives of the Project, with different bytes
    Proven,            \* those whose bytes equal the Snapshot's fingerprint
    NoBytes,
    MaxCopies,         \* MAX_COPY_CANDIDATES
    MaxImports,        \* imports, and changes to the Library beside them
    MaxCacheFaults, MaxCacheCrashes

ImportAssumption ==
    /\ Proven \subseteq Archives /\ NoBytes \notin Archives
    /\ {MaxCopies, MaxImports, MaxCacheFaults, MaxCacheCrashes} \subseteq Nat

VARIABLES
    entries,       \* the Projects of the Library by identity: [state, archive, edited]
    known,         \* the Library owns the Source
    importing,     \* [at, archive, index, known, adopt]
    cacheRecord,   \* the cache record: [bytes, claim], claim "none", "archive" or "snapshot"
    cacheRecordSafe, \* the same after a power failure
    bytesFile, bytesSafe,
    stored,        \* the claim last reported as stored
    everTrashed,   \* a Project has been trashed
    imports, cacheFaults, cacheCrashes

cacheVars == <<cacheRecord, cacheRecordSafe, bytesFile, bytesSafe, stored>>
importBounds == <<imports, cacheFaults, cacheCrashes>>
importVars == <<entries, known, importing, cacheVars, everTrashed, importBounds>>

\* Candidate 0 is the archived identity, the others are copies of an archive.
Identities == {<<NoBytes, 0>>} \cup (Archives \X (1..MaxCopies))
Candidate(a, i) == IF i = 0 THEN <<NoBytes, 0>> ELSE <<a, i>>
Free == [state |-> "none", archive |-> NoBytes, edited |-> FALSE]
NotImporting == [at |-> "idle", archive |-> NoBytes, index |-> 0, known |-> FALSE, adopt |-> FALSE]
NoRecord == [bytes |-> NoBytes, claim |-> "none"]
Rank(claim) == CASE claim = "none" -> 0 [] claim = "archive" -> 1 [] claim = "snapshot" -> 2

ImportInit ==
    /\ entries = [i \in Identities |-> Free] /\ known \in BOOLEAN
    /\ importing = NotImporting /\ cacheRecord = NoRecord /\ cacheRecordSafe = NoRecord
    /\ bytesFile = NoBytes /\ bytesSafe = NoBytes /\ stored = "none"
    /\ everTrashed = FALSE /\ imports = 0 /\ cacheFaults = 0 /\ cacheCrashes = 0

Go(at) == importing' = [importing EXCEPT !.at = at]

\* importArchive: one import at a time, of a private copy of the file.
Import(a, adopt) ==
    /\ importing.at = "idle" /\ imports < MaxImports /\ imports' = imports + 1
    /\ importing' = [NotImporting EXCEPT !.at = "inspect", !.archive = a, !.adopt = adopt]
    /\ UNCHANGED <<entries, known, everTrashed, cacheVars, cacheFaults, cacheCrashes>>

\* inspectPortableProjectArchive: names, sizes, hashes, versions, schema and
\* invariants of the whole archive are checked before anything is written; any
\* of them may refuse it.  Then the Library is asked whether it owns the Source.
Inspect ==
    /\ importing.at = "inspect"
    /\ importing' \in {NotImporting, [importing EXCEPT !.at = "sources", !.known = known]}
    /\ UNCHANGED <<entries, known, cacheVars, everTrashed, importBounds>>

\* #adoptLibrarySources: the Library's own Source replaces the archived one; an
\* archive that contradicts it (possible only when it is owned) is refused.
AdoptSources ==
    /\ importing.at = "sources" /\ (Go("identity") \/ (known /\ importing' = NotImporting))
    /\ UNCHANGED <<entries, known, cacheVars, everTrashed, importBounds>>

\* #resolveIdentity: the first candidate that is free or is this very Project.
Same(e) == e.state = "active" /\ e.archive = importing.archive /\ ~e.edited
ResolveIdentity ==
    /\ importing.at = "identity"
    /\ LET e == entries[Candidate(importing.archive, importing.index)] IN
       importing' = CASE e.state = "none" -> [importing EXCEPT !.at = "restore"]
                      [] Same(e) -> [importing EXCEPT !.at = "present"]
                      [] importing.index < MaxCopies /\ e.state # "none" /\ ~Same(e) ->
                            [importing EXCEPT !.index = @ + 1]
                      [] OTHER -> NotImporting   \* identity_exhausted
    /\ UNCHANGED <<entries, known, everTrashed, cacheVars, importBounds>>

\* library.restoreProjectRevision: a mutation of the Library, refused when the
\* identity has been taken meanwhile.
Restore ==
    /\ importing.at = "restore"
    /\ LET c == Candidate(importing.archive, importing.index) IN
       IF entries[c].state # "none" THEN importing' = NotImporting /\ UNCHANGED <<entries, known>>
       ELSE /\ entries' = [entries EXCEPT ![c] = [state |-> "active", archive |-> importing.archive, edited |-> FALSE]]
            /\ known' = TRUE /\ Go("present")
    /\ UNCHANGED <<cacheVars, everTrashed, importBounds>>

\* Mutant: the Library is always said to have had the media.
ClaimSnapshot == "snapshot"

\* #adoptMedia: a Source that the Library owned before takes proven bytes only.
Claim == IF importing.known THEN "snapshot" ELSE "archive"
AdoptMedia ==
    /\ importing.at = "present"
    /\ IF importing.adopt /\ (importing.known => importing.archive \in Proven)
       THEN Go("store") ELSE importing' = NotImporting
    /\ UNCHANGED <<entries, known, everTrashed, cacheVars, importBounds>>

\* OfflineMediaCache.store, and below its three writes.  A record counts only
\* when the bytes have its hash; equal or stronger ones are never replaced,
\* other bytes only by proven ones; capacity and free space may refuse.
CacheVerified == cacheRecord.claim # "none" /\ cacheRecord.bytes = bytesFile
Stronger == cacheRecord.claim = "archive" /\ Claim = "snapshot"
Store ==
    /\ importing.at = "store"
    /\ IF CacheVerified /\ ~Stronger
       THEN importing' = NotImporting /\ UNCHANGED stored
       ELSE \/ importing' = NotImporting /\ UNCHANGED stored     \* capacity, disk_space
            \/ /\ Go(IF CacheVerified THEN "forget" ELSE "bytes")
               /\ stored' = IF CacheVerified THEN stored ELSE "none"
    /\ UNCHANGED <<entries, known, everTrashed, cacheRecord, cacheRecordSafe, bytesFile, bytesSafe, importBounds>>

\* The old record goes, durably, before other bytes take its place.
Forget ==
    /\ importing.at = "forget" /\ Go("bytes")
    /\ cacheRecord' = NoRecord /\ cacheRecordSafe' = NoRecord /\ stored' = "none"
    /\ UNCHANGED <<entries, known, everTrashed, bytesFile, bytesSafe, importBounds>>

InstallBytes ==
    /\ importing.at = "bytes" /\ Go("record")
    /\ bytesFile' = importing.archive
    /\ UNCHANGED <<entries, known, everTrashed, cacheRecord, cacheRecordSafe, bytesSafe, stored, importBounds>>

InstallRecord ==
    /\ importing.at = "record" /\ Go("sync")
    /\ bytesSafe' = bytesFile /\ cacheRecord' = [bytes |-> importing.archive, claim |-> Claim]
    /\ UNCHANGED <<entries, known, everTrashed, cacheRecordSafe, bytesFile, stored, importBounds>>

SyncCacheRecord ==
    /\ importing.at = "sync" /\ importing' = NotImporting
    /\ cacheRecordSafe' = cacheRecord /\ stored' = Claim
    /\ UNCHANGED <<entries, known, everTrashed, cacheRecord, bytesFile, bytesSafe, importBounds>>

\* A write fails: the imported Project stays.
StoreFails ==
    /\ importing.at \in {"forget", "bytes", "record", "sync"} /\ cacheFaults < MaxCacheFaults
    /\ cacheFaults' = cacheFaults + 1 /\ importing' = NotImporting
    /\ UNCHANGED <<entries, known, everTrashed, cacheVars, imports, cacheCrashes>>

\* The Library changes under the import: a Project is edited, trashed,
\* restored or deleted, or one with the archived identity appears.
EditProject(i) ==
    /\ entries[i].state = "active" /\ entries' = [entries EXCEPT ![i].edited = TRUE]
    /\ UNCHANGED <<known, everTrashed>>
TrashProject(i) ==
    /\ entries[i].state = "active" /\ entries' = [entries EXCEPT ![i].state = "trashed"]
    /\ everTrashed' = TRUE /\ UNCHANGED known
DeleteProject(i) ==
    /\ entries[i].state = "trashed" /\ \E e \in {Free, [entries[i] EXCEPT !.state = "active"]} : entries' = [entries EXCEPT ![i] = e]
    /\ known' \in {known, \E j \in Identities : entries'[j].state # "none"} /\ UNCHANGED everTrashed
OriginAppears ==
    /\ entries[<<NoBytes, 0>>].state = "none" /\ known' = TRUE
    /\ entries' = [entries EXCEPT ![<<NoBytes, 0>>] = [Free EXCEPT !.state = "active"]] /\ UNCHANGED everTrashed
ChangeLibrary ==
    /\ imports < MaxImports /\ imports' = imports + 1
    /\ \/ OriginAppears
       \/ \E i \in Identities : EditProject(i) \/ TrashProject(i) \/ DeleteProject(i)
    /\ UNCHANGED <<importing, cacheVars, cacheFaults, cacheCrashes>>

\* The cached bytes rot, or are deleted by hand.
BytesDecay ==
    /\ importing.at = "idle" /\ cacheFaults < MaxCacheFaults /\ cacheFaults' = cacheFaults + 1
    /\ bytesFile' = NoBytes /\ bytesSafe' = NoBytes /\ stored' = "none"
    /\ UNCHANGED <<entries, known, everTrashed, importing, cacheRecord, cacheRecordSafe, imports, cacheCrashes>>

CrashImport ==
    /\ cacheCrashes < MaxCacheCrashes /\ cacheCrashes' = cacheCrashes + 1
    /\ importing' = NotImporting
    /\ \E r \in {cacheRecord, cacheRecordSafe}, b \in {bytesFile, bytesSafe} :
         cacheRecord' = r /\ cacheRecordSafe' = r /\ bytesFile' = b /\ bytesSafe' = b
    /\ UNCHANGED <<entries, known, everTrashed, stored, imports, cacheFaults>>

ImportNext ==
    \/ \E a \in Archives, adopt \in BOOLEAN : Import(a, adopt)
    \/ Inspect \/ AdoptSources \/ ResolveIdentity \/ Restore \/ AdoptMedia \/ Store \/ Forget \/ InstallBytes \/ InstallRecord
    \/ SyncCacheRecord \/ StoreFails \/ ChangeLibrary \/ BytesDecay \/ CrashImport
ImportSpec == ImportInit /\ [][ImportNext]_importVars

-----------------------------------------------------------------------------
ImportTypeOK ==
    /\ \A i \in Identities : entries[i].state \in {"none", "active", "trashed"}
    /\ {cacheRecord.claim, cacheRecordSafe.claim, stored} \subseteq {"none", "archive", "snapshot"}
    /\ importing.index \in 0..MaxCopies /\ {bytesFile, bytesSafe} \subseteq Archives \cup {NoBytes}

\* What the cache hands out is what its record claims: bytes called proven
\* have the Snapshot's fingerprint, whatever was interrupted and replaced.
ClaimsAreTrue == CacheVerified /\ cacheRecord.claim = "snapshot" => cacheRecord.bytes \in Proven

\* Media that was reported as cached is there, durably, under a claim that is
\* never weakened, until its bytes decay or a stronger import replaces it.
StoredStays ==
    stored # "none" => /\ CacheVerified /\ Rank(cacheRecord.claim) >= Rank(stored)
                       /\ cacheRecordSafe.bytes = bytesSafe /\ Rank(cacheRecordSafe.claim) >= Rank(stored)

\* Repeating an import converges: whatever else was imported or edited, and
\* wherever an import was interrupted, there is at most one unedited Project of
\* an archive, unless a Project has been trashed between the imports.
ImportConverges ==
    everTrashed \/ \A i, j \in Identities :
        i # j /\ {entries[i].state, entries[j].state} = {"active"} /\ entries[i].archive = entries[j].archive
              /\ entries[i].archive # NoBytes => entries[i].edited \/ entries[j].edited
CacheKeepsWord == ClaimsAreTrue /\ StoredStays

\* What the media cache hands out is what its record claims, cached media stays
\* under a claim that is never weakened, and repeating an import converges.
ImportKeepsWord == CacheKeepsWord /\ ImportConverges
=============================================================================
