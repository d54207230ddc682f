--------------------------- MODULE ProjectLibrary ---------------------------
(***************************************************************************)
(* The durable Project Library of the desktop application's main process   *)
(* (src/apps/desktop/src/main/project-library.ts): how a mutation is       *)
(* published on disk, how a later open recovers from what a crash, an I/O  *)
(* error or a damaged file left behind, and what readers see meanwhile.    *)
(*                                                                         *)
(* Mutations run one at a time (#serializeMutation), so one control state  *)
(* pc follows the single running mutation; each asynchronous file-system   *)
(* call is a step of its own.  Synchronous readers look at entries between *)
(* any two steps.  A rename is visible at once and durable only when its   *)
(* directory has been synced: head, pointers, objects and place are what   *)
(* the process sees, the *Synced copies are what a crash is sure to leave. *)
(*                                                                         *)
(* Data is abstract.  A Project Revision is its position in the ledger     *)
(* (the code draws a random identifier); a payload is a member of Payloads *)
(* and is its own content hash; a revision's object file is the revision's *)
(* number and a payload's object file is the payload, so objects is a set  *)
(* of both.                                                                *)
(***************************************************************************)
EXTENDS Integers, Sequences, FiniteSets

CONSTANTS
    Projects,     \* identifiers of Projects
    Payloads,     \* Project payloads, up to content equality
    Older,        \* the payloads of an older supported schema
    Upgrade,      \* what the registered migration chain makes of one
    MaxRevisions, \* bound: revisions ever issued
    MaxCrashes,   \* bound: crashes in the middle of a mutation or an open
    MaxRot        \* bound: files that lose their content

ASSUME LibraryAssumption ==
    /\ Older \subseteq Payloads
    /\ Upgrade \in [Older -> Payloads \ Older]
    /\ MaxRevisions \in Nat /\ MaxCrashes \in Nat /\ MaxRot \in Nat
    /\ "none" \notin Projects
    /\ Payloads \cap Nat = {}

NoRev == 0

VARIABLES
    ledger,         \* every revision ever issued: what its immutable record holds
    place,          \* the container of each Project's directory
    placeSynced,
    markers,        \* Projects whose directory holds TRASH.json
    torn,           \* Projects whose directory has lost files to an unfinished removal
    head,           \* the revision HEAD.json names
    headSynced,
    badHead,        \* Projects whose HEAD.json is unreadable
    pointers,       \* the revision pointers of each Project
    pointersSynced,
    objects,        \* the content-addressed files
    objectsSynced,
    rotten,         \* object files whose content no longer matches its hash
    staged,         \* the revision of the HEAD.json left in staging/
    reports,        \* Projects whose directory holds a recovery report
    entries,        \* #entries: what readers of this process see
    blocked,        \* #mutationBlockedError is set
    pc, op, scan,   \* the running mutation, and the refresh inside it
    published,      \* history: revisions that have been a durable Head
    acked,          \* history: the newest revision each Project's caller was told of
    crashes, rots   \* counts for the bounds

placeVars   == <<place, placeSynced, markers, torn>>
headVars    == <<head, headSynced, badHead, published>>
pointerVars == <<pointers, pointersSynced>>
objectVars  == <<objects, objectsSynced, rotten>>
memVars     == <<entries, blocked>>
countVars   == <<crashes, rots>>
diskVars    == <<placeVars, headVars, pointerVars, objectVars, staged, reports>>
vars == <<ledger, diskVars, memVars, pc, op, scan, acked, countVars>>

-----------------------------------------------------------------------------
(* Revisions and the verified ledger *)

Revs == DOMAIN ledger
\* A revision and its ancestors, by the parent links of their records.
Line(r) == IF r = NoRev THEN {} ELSE ledger[r].line
\* Mutant: sequences counted from zero.
SeqOfFromZero(r) == IF r = NoRev THEN -1 ELSE ledger[r].seq
SeqOf(r) == IF r = NoRev THEN 0 ELSE ledger[r].seq
\* The object files the revisions R are read from.
Files(R) == R \cup {ledger[r].payload : r \in R}

\* Pointers whose revision record and payload both read back with their hash.
Readable(p) == {r \in pointers[p] : Files({r}) \subseteq objects \ rotten}

\* readVerifiedRevisions: the parent-linked chain from sequence 1, as far as
\* each link has exactly one candidate.
Verified(p) ==
    {r \in Readable(p) :
        \A q \in Line(r) :
            /\ q \in Readable(p)
            /\ \A x \in Readable(p) :
                  ledger[x].seq = ledger[q].seq /\ ledger[x].parent = ledger[q].parent
                  => x = q}

\* The revisions of R up to sequence n, and the last of them.
UpTo(R, n) == {r \in R : ledger[r].seq <= n}
Newest(R) ==
    LET last == {r \in R : \A q \in R : ledger[q].seq <= ledger[r].seq}
    IN  IF last = {} THEN NoRev ELSE CHOOSE r \in last : TRUE

\* stagedHeadForProject: what the HEAD.json left in staging/ says about p.
StagedKind(p) ==
    IF staged = NoRev \/ (staged # NoRev /\ ledger[staged].project # p) THEN "absent"
    ELSE IF staged \in Verified(p) THEN "valid" ELSE "ambiguous"

\* readHead succeeds: HEAD.json parses and names a verified revision.
HeadResolves(p) == p \notin badHead /\ head[p] \in Verified(p)

\* Mutant: the revision left in staging/ does not bound the recovery.
RecoveryUnbounded(p) == IF head[p] = NoRev /\ staged = NoRev THEN 0 ELSE Len(ledger)

\* The newest sequence recovery may republish; every sequence when the code
\* passes no maximum.
RecoveryLimit(p) ==
    CASE StagedKind(p) = "valid" -> ledger[staged].seq - 1
      [] StagedKind(p) = "ambiguous" -> 0
      [] OTHER -> IF head[p] = NoRev THEN 0 ELSE Len(ledger)

-----------------------------------------------------------------------------
(* What the process keeps in memory *)

NoEntry == [status |-> "none", location |-> "none", rev |-> NoRev,
            history |-> {}, dated |-> FALSE]
NoEntries == [p \in Projects |-> NoEntry]
NoOp == [kind |-> "none", project |-> "none", rev |-> NoRev, targets |-> {},
         upgrades |-> {}]
NoScan == [todo |-> {}, fresh |-> NoEntries, then |-> "idle",
           project |-> "none", limit |-> 0]

Current(r) == ledger[r].payload \notin Older
Writable(p) == entries[p].status = "active" /\ Current(entries[p].rev)
Damaged == \E p \in Projects : entries[p].status = "damaged"
\* Mutant: only the Heads' own files count as referenced.
ReferencedByHeads == UNION {Files({entries[p].rev} \ {NoRev}) : p \in Projects}
Referenced == UNION {Files(entries[p].history) : p \in Projects}

\* collectUnreferencedObjects: nothing while any Project is damaged.
Kept(files) == IF Damaged THEN files ELSE files \cap Referenced

Init ==
    /\ ledger = <<>>
    /\ place = [p \in Projects |-> "none"] /\ placeSynced = place
    /\ markers = {} /\ torn = {}
    /\ head = [p \in Projects |-> NoRev] /\ headSynced = head
    /\ badHead = {} /\ published = {}
    /\ pointers = [p \in Projects |-> {}] /\ pointersSynced = pointers
    /\ objects = {} /\ objectsSynced = {} /\ rotten = {}
    /\ staged = NoRev /\ reports = {}
    /\ entries = NoEntries /\ blocked = FALSE
    /\ pc = "down" /\ op = NoOp /\ scan = NoScan
    /\ acked = [p \in Projects |-> NoRev]
    /\ crashes = 0 /\ rots = 0

-----------------------------------------------------------------------------
(* refreshEntries: rebuild every entry from disk, recovering on the way *)

StartRefresh(then) ==
    /\ pc' = "refresh"
    /\ scan' = [NoScan EXCEPT !.todo = Projects, !.then = then]

\* The entry of a Project just scanned, or no entry at all.
Scanned(p, e) ==
    scan' = [scan EXCEPT !.todo = @ \ {p}, !.fresh[p] = e, !.project = "none"]

ScanNothing(p) ==
    /\ pc = "refresh" /\ p \in scan.todo /\ place[p] = "none"
    /\ Scanned(p, NoEntry)
    /\ UNCHANGED <<ledger, diskVars, memVars, pc, op, acked, countVars>>

Unpublished(p) ==
    place[p] = "active" /\ p \notin reports /\ head[p] = NoRev
    /\ StagedKind(p) = "valid" /\ ledger[staged].seq = 1

\* A first revision whose Head was never installed leaves the Library.
ScanUnpublished(p) ==
    /\ pc = "refresh" /\ p \in scan.todo /\ Unpublished(p)
    /\ place' = [place EXCEPT ![p] = "none"]
    /\ placeSynced' = [placeSynced EXCEPT ![p] = "none"]
    /\ pointers' = [pointers EXCEPT ![p] = {}]
    /\ pointersSynced' = [pointersSynced EXCEPT ![p] = {}]
    /\ headSynced' = [headSynced EXCEPT ![p] = NoRev]
    /\ markers' = markers \ {p} /\ torn' = torn \ {p}
    /\ Scanned(p, NoEntry)
    /\ UNCHANGED <<ledger, head, badHead, published, objectVars, staged, reports,
                   memVars, pc, op, acked, countVars>>

\* A Trash record is read before the Head and is as necessary.
Sound(p) == HeadResolves(p) /\ (place[p] = "trashed" => p \in markers)

\* The Head stands: the pointers beyond it are unpublished and discarded.
ScanSound(p) ==
    /\ pc = "refresh" /\ p \in scan.todo /\ place[p] # "none"
    /\ ~Unpublished(p) /\ Sound(p)
    /\ LET kept == UpTo(pointers[p], ledger[head[p]].seq) IN
        /\ pointers' = [pointers EXCEPT ![p] = kept]
        /\ pointersSynced' =
              IF kept = pointers[p] THEN pointersSynced
              ELSE [pointersSynced EXCEPT ![p] = kept]
        /\ Scanned(p, [status |-> place[p], location |-> place[p], rev |-> head[p],
                       history |-> UpTo(Verified(p), ledger[head[p]].seq),
                       dated |-> place[p] = "trashed"])
    /\ UNCHANGED <<ledger, placeVars, headVars, objectVars, staged, reports,
                   memVars, pc, op, acked, countVars>>

\* A damaged Project in the Trash is listed as such and left as it is.
ScanDamagedTrash(p) ==
    /\ pc = "refresh" /\ p \in scan.todo /\ place[p] = "trashed" /\ ~Sound(p)
    /\ Scanned(p, [status |-> "damaged", location |-> "trashed",
                   rev |-> Newest(Verified(p)), history |-> Verified(p),
                   dated |-> p \in markers])
    /\ UNCHANGED <<ledger, diskVars, memVars, pc, op, acked, countVars>>

\* recoverProject begins: an unresolvable HEAD.json is moved to quarantine.
RecoverQuarantine(p) ==
    /\ pc = "refresh" /\ p \in scan.todo /\ place[p] = "active"
    /\ ~Unpublished(p) /\ ~Sound(p)
    /\ scan' = [scan EXCEPT !.project = p, !.limit = RecoveryLimit(p)]
    /\ pc' = "recover_report"
    /\ head' = [head EXCEPT ![p] = NoRev]
    /\ headSynced' = [headSynced EXCEPT ![p] = NoRev]
    /\ badHead' = badHead \ {p}
    /\ UNCHANGED <<ledger, placeVars, published, pointerVars, objectVars, staged,
                   reports, memVars, op, acked, countVars>>

\* Its tail is discarded below a known boundary, the newest verified revision
\* within the limit is chosen and the loss report written.
RecoverReport(p) ==
    /\ pc = "recover_report" /\ p = scan.project
    /\ LET kept == IF scan.limit > 0 THEN UpTo(pointers[p], scan.limit) ELSE pointers[p]
           found == UpTo(Verified(p), scan.limit) IN
        /\ pointers' = [pointers EXCEPT ![p] = kept]
        /\ pointersSynced' = [pointersSynced EXCEPT ![p] = kept]
        /\ IF found = {}
           THEN /\ pc' = "refresh"
                /\ Scanned(p, [NoEntry EXCEPT !.status = "damaged", !.location = "active"])
           ELSE /\ pc' = "recover_head"
                /\ scan' = [scan EXCEPT
                      !.fresh[p] = [status |-> "active", location |-> "active",
                                    rev |-> Newest(found), history |-> found,
                                    dated |-> FALSE]]
    /\ reports' = reports \cup {p}
    /\ UNCHANGED <<ledger, placeVars, headVars, objectVars, staged, memVars, op,
                   acked, countVars>>

\* The chosen revision is republished as the Head.
RecoverHead(p) ==
    /\ pc = "recover_head" /\ p = scan.project
    /\ head' = [head EXCEPT ![p] = scan.fresh[p].rev]
    /\ headSynced' = [headSynced EXCEPT ![p] = scan.fresh[p].rev]
    /\ pc' = "refresh"
    /\ Scanned(p, scan.fresh[p])
    /\ UNCHANGED <<ledger, placeVars, badHead, published, pointerVars, objectVars,
                   staged, reports, memVars, op, acked, countVars>>

\* All entries are swapped in at once.
FinishRefresh ==
    /\ pc = "refresh" /\ scan.todo = {}
    /\ entries' = scan.fresh /\ pc' = scan.then /\ scan' = NoScan
    /\ op' = IF scan.then = "idle" THEN NoOp ELSE op
    /\ UNCHANGED <<ledger, diskVars, blocked, acked, countVars>>

-----------------------------------------------------------------------------
(* Losing the process: what was renamed but not synced may be undone *)

Unsynced(new, old) == {p \in Projects : new[p] # old[p]}
Settled(new, old, kept) == [p \in Projects |-> IF p \in kept THEN new[p] ELSE old[p]]

Shutdown ==
    /\ \E kept \in SUBSET Unsynced(place, placeSynced) :
          place' = Settled(place, placeSynced, kept)
    /\ \E kept \in SUBSET Unsynced(head, headSynced) :
          head' = Settled(head, headSynced, kept)
    /\ \E kept \in SUBSET Unsynced(pointers, pointersSynced) :
          pointers' = Settled(pointers, pointersSynced, kept)
    /\ \E kept \in SUBSET (objects \ objectsSynced) :
          objects' = objectsSynced \cup kept
    /\ placeSynced' = place' /\ headSynced' = head'
    /\ pointersSynced' = pointers' /\ objectsSynced' = objects'
    /\ rotten' = rotten \cap objects'
    /\ badHead' = {p \in badHead : head'[p] # NoRev}
    /\ torn' = {p \in torn : place'[p] # "none"}
    /\ published' = published \cup ({head'[p] : p \in Projects} \ {NoRev})
    \* An undone HEAD.json rename leaves the file where it was staged.
    /\ staged' = IF \E p \in Projects : head'[p] # head[p]
                 THEN head[CHOOSE p \in Projects : head'[p] # head[p]] ELSE staged
    /\ entries' = NoEntries /\ blocked' = FALSE
    /\ pc' = "down" /\ op' = NoOp /\ scan' = NoScan
    /\ UNCHANGED <<ledger, markers, reports, acked>>

\* Mutant: the error is reported and mutations go on.
BlockNothing ==
    \/ op.kind \in {"open", "migrate"} /\ Shutdown
    \/ /\ op.kind \notin {"open", "migrate"}
       /\ pc' = "idle" /\ op' = NoOp /\ scan' = NoScan
       /\ UNCHANGED <<ledger, diskVars, memVars, acked>>

\* #mutationBlockedError: mutations wait for a reopen; an open simply fails.
Block ==
    \/ /\ op.kind \in {"open", "migrate"} /\ Shutdown
    \/ /\ op.kind \notin {"open", "migrate"}
       /\ blocked' = TRUE /\ pc' = "idle" /\ op' = NoOp /\ scan' = NoScan
       /\ UNCHANGED <<ledger, diskVars, entries, acked>>

\* An I/O error inside a refresh, by what the refresh was for.
FailRefresh ==
    /\ pc \in {"refresh", "recover_report", "recover_head"}
    /\ \/ /\ scan.then \in {"scavenge", "migrate", "reconcile", "abort", "block"} /\ Block
       \/ /\ \/ scan.then = "verify" /\ StartRefresh("reconcile") /\ op' = op
             \/ scan.then = "collect" /\ StartRefresh("abort") /\ op' = op
             \/ scan.then = "idle" /\ op.kind # "upgrade"
                /\ StartRefresh("abort") /\ op' = op
             \/ scan.then = "idle" /\ op.kind = "upgrade"
                /\ pc' = "idle" /\ scan' = NoScan /\ op' = NoOp
          /\ UNCHANGED <<ledger, diskVars, memVars, acked>>
    /\ UNCHANGED countVars

Crash ==
    /\ pc \notin {"down", "idle"} /\ crashes < MaxCrashes
    /\ crashes' = crashes + 1 /\ Shutdown /\ UNCHANGED rots

\* The application quits between mutations.
Close == pc = "idle" /\ Shutdown /\ UNCHANGED countVars

\* A file loses its content.
RotHead(p) ==
    /\ rots < MaxRot /\ rots' = rots + 1
    /\ head[p] # NoRev /\ badHead' = badHead \cup {p}
    /\ UNCHANGED <<ledger, placeVars, head, headSynced, published, pointerVars,
                   objectVars, staged, reports, memVars, pc, op, scan, acked,
                   crashes>>

RotObject(o) ==
    /\ rots < MaxRot /\ rots' = rots + 1
    /\ o \in objects /\ rotten' = rotten \cup {o}
    /\ UNCHANGED <<ledger, placeVars, headVars, pointerVars, objects, objectsSynced,
                   staged, reports, memVars, pc, op, scan, acked, crashes>>

-----------------------------------------------------------------------------
(* Opening the Library *)

\* initializeRoot reads everything back before it scavenges staging/.
Open ==
    /\ pc = "down" /\ StartRefresh("scavenge")
    /\ op' = [NoOp EXCEPT !.kind = "open"]
    /\ UNCHANGED <<ledger, diskVars, memVars, acked, countVars>>

Scavenge ==
    /\ pc = "scavenge" /\ staged' = NoRev /\ pc' = "migrate"
    /\ op' = [op EXCEPT !.upgrades =
                {entries[p].rev : p \in {q \in Projects : entries[q].status = "active"
                                                     /\ ~Current(entries[q].rev)}}]
    /\ UNCHANGED <<ledger, placeVars, headVars, pointerVars, objectVars, reports,
                   memVars, scan, acked, countVars>>

MigrationsDone ==
    /\ pc = "migrate" /\ op.upgrades = {} /\ pc' = "collect"
    /\ op' = [NoOp EXCEPT !.kind = "open"]
    /\ UNCHANGED <<ledger, diskVars, memVars, scan, acked, countVars>>

\* Mutant: the failed migration is tried again after the refresh.
FailMigrationAgain(r) ==
    /\ pc = "migrate" /\ r \in op.upgrades
    /\ op' = [NoOp EXCEPT !.kind = "open", !.upgrades = op.upgrades]
    /\ StartRefresh("migrate")
    /\ UNCHANGED <<ledger, diskVars, memVars, acked, countVars>>

\* A migration throws: the Project stays as it is, read-only.
FailMigration(r) ==
    /\ pc = "migrate" /\ r \in op.upgrades
    /\ op' = [NoOp EXCEPT !.kind = "open", !.upgrades = op.upgrades \ {r}]
    /\ StartRefresh("migrate")
    /\ UNCHANGED <<ledger, diskVars, memVars, acked, countVars>>

\* collectUnreferencedObjects, at the end of an open or of a deletion.
Collect ==
    /\ pc \in {"collect", "abort"}
    /\ objects' = Kept(objects)
    /\ objectsSynced' = IF objects' = objects THEN objectsSynced ELSE objects'
    /\ rotten' = rotten \cap objects'
    /\ pc' = "idle" /\ op' = NoOp
    /\ UNCHANGED <<ledger, placeVars, headVars, pointerVars, staged, reports,
                   memVars, scan, acked, countVars>>

FailCollect ==
    /\ \/ (pc = "abort" \/ (pc = "collect" /\ op.kind = "open")) /\ Block
       \/ /\ pc = "collect" /\ op.kind # "open" /\ StartRefresh("abort")
          /\ UNCHANGED <<ledger, diskVars, memVars, op, acked>>
    /\ UNCHANGED countVars

-----------------------------------------------------------------------------
(* Publishing one revision: commitPayload *)

\* The next revision of p after parent, holding the payload v.
Issue(kind, p, parent, v) ==
    /\ Len(ledger) < MaxRevisions
    /\ ledger' = Append(ledger,
          [project |-> p, parent |-> parent, seq |-> SeqOf(parent) + 1, payload |-> v,
           line |-> Line(parent) \cup {Len(ledger) + 1}])
    /\ op' = [op EXCEPT !.kind = kind, !.project = p, !.rev = Len(ledger) + 1,
                        !.upgrades = @ \ {parent}]
    /\ pc' = "stage"
    /\ UNCHANGED <<diskVars, memVars, scan, acked, countVars>>

Accepting == pc = "idle" /\ ~blocked
Upgraded(v) == IF v \in Older THEN Upgrade[v] ELSE v

\* createProject, and restoreProjectRevision, which may bring an older schema.
Create(p, v) ==
    Accepting /\ entries[p].status = "none" /\ v \notin Older
    /\ Issue("create", p, NoRev, v)
RestoreRevision(p, v) ==
    Accepting /\ entries[p].status = "none" /\ Issue("restore", p, NoRev, v)

\* Every mutation that replaces the whole payload of the expected revision.
Change(p, v) ==
    /\ Accepting /\ Writable(p) /\ v \notin Older
    /\ Issue("change", p, entries[p].rev, v)
\* Mutant: the rollback's parent is the revision it goes back to.
RollbackOntoTarget(p, target) ==
    /\ Accepting /\ Writable(p) /\ target \in entries[p].history
    /\ Issue("rollback", p, target, Upgraded(ledger[target].payload))
Rollback(p, target) ==
    /\ Accepting /\ Writable(p) /\ target \in entries[p].history
    /\ Issue("rollback", p, entries[p].rev, Upgraded(ledger[target].payload))

MigrateNext(r) ==
    /\ pc = "migrate" /\ r \in op.upgrades
    /\ Issue("migrate", ledger[r].project, r, Upgrade[ledger[r].payload])

\* A revision restored under an older schema is migrated at once, or kept.
UpgradeRestored ==
    /\ pc = "upgrade"
    /\ Issue("upgrade", op.project, op.rev, Upgrade[ledger[op.rev].payload])
FailUpgrade ==
    /\ pc = "upgrade" /\ StartRefresh("idle")
    /\ op' = [op EXCEPT !.kind = "upgrade"]
    /\ UNCHANGED <<ledger, diskVars, memVars, acked, countVars>>

Payload == ledger[op.rev].payload
Step(from, to) == pc = from /\ pc' = to /\ UNCHANGED <<op, scan>>

Stage ==
    /\ Step("stage", "install_payload") /\ staged' = op.rev
    /\ UNCHANGED <<ledger, placeVars, headVars, pointerVars, objectVars, reports,
                   memVars, acked, countVars>>

InstallObject(o) ==
    /\ objects' = objects \cup {o} /\ rotten' = rotten \ {o}
    /\ UNCHANGED <<ledger, placeVars, headVars, pointerVars, objectsSynced, staged,
                   reports, memVars, acked, countVars>>
\* Mutant: the objects' directory is not synced.
SyncNoObjects ==
    UNCHANGED <<ledger, placeVars, headVars, pointerVars, objectVars, staged, reports,
                memVars, acked, countVars>>
SyncObjects ==
    /\ objectsSynced' = objects
    /\ UNCHANGED <<ledger, placeVars, headVars, pointerVars, objects, rotten,
                   staged, reports, memVars, acked, countVars>>

InstallPayload  == Step("install_payload", "sync_payload") /\ InstallObject(Payload)
SyncPayload     == Step("sync_payload", "install_revision") /\ SyncObjects
InstallRevision == Step("install_revision", "sync_revision") /\ InstallObject(op.rev)
SyncRevision    == Step("sync_revision", "make_directory") /\ SyncObjects

MakeDirectory ==
    /\ Step("make_directory", "rename_pointer")
    /\ place' = [place EXCEPT ![op.project] = "active"]
    /\ placeSynced' = [placeSynced EXCEPT ![op.project] = "active"]
    /\ UNCHANGED <<ledger, markers, torn, headVars, pointerVars, objectVars, staged,
                   reports, memVars, acked, countVars>>

RenamePointer ==
    /\ Step("rename_pointer", "sync_pointer")
    /\ pointers' = [pointers EXCEPT ![op.project] = @ \cup {op.rev}]
    /\ UNCHANGED <<ledger, placeVars, headVars, pointersSynced, objectVars, staged,
                   reports, memVars, acked, countVars>>

\* Mutant: the Project's directory is not synced after the pointer's rename.
SyncNoPointer ==
    /\ Step("sync_pointer", "rename_head")
    /\ UNCHANGED <<ledger, diskVars, memVars, acked, countVars>>

SyncPointer ==
    /\ Step("sync_pointer", "rename_head")
    /\ pointersSynced' = [pointersSynced EXCEPT ![op.project] = pointers[op.project]]
    /\ UNCHANGED <<ledger, placeVars, headVars, pointers, objectVars, staged,
                   reports, memVars, acked, countVars>>

\* The single step that makes the revision current.
RenameHead ==
    /\ Step("rename_head", "sync_head")
    /\ head' = [head EXCEPT ![op.project] = op.rev]
    /\ badHead' = badHead \ {op.project}
    /\ staged' = NoRev
    /\ UNCHANGED <<ledger, placeVars, headSynced, published, pointerVars,
                   objectVars, reports, memVars, acked, countVars>>

\* Mutant: the Project's directory is not synced after the Head's rename.
HeadNotDurable ==
    /\ published' = published \cup {op.rev}
    /\ UNCHANGED <<ledger, placeVars, head, headSynced, pointerVars, objectVars, staged,
                   reports, memVars, acked, countVars>>

HeadDurable ==
    /\ headSynced' = [headSynced EXCEPT ![op.project] = op.rev]
    /\ published' = published \cup {op.rev}
    /\ UNCHANGED <<ledger, placeVars, head, pointerVars, objectVars, staged,
                   reports, memVars, acked, countVars>>
SyncHead == Step("sync_head", "clean") /\ HeadDurable /\ UNCHANGED badHead
\* Mutant: a Head that would not sync is taken for published.
FailSyncHeadIgnored ==
    /\ Step("sync_head", "clean")
    /\ UNCHANGED <<ledger, diskVars, memVars, acked, countVars>>
FailSyncHead ==
    /\ Step("sync_head", "retry_head")
    /\ UNCHANGED <<ledger, diskVars, memVars, acked, countVars>>
\* HEAD.json is written once more; if that fails too its state is unknown.
RetryHead == Step("retry_head", "clean") /\ HeadDurable /\ badHead' = badHead \ {op.project}
FailRetryHead == pc = "retry_head" /\ Block /\ UNCHANGED countVars

Clean ==
    /\ pc = "clean" /\ StartRefresh("verify")
    /\ UNCHANGED <<ledger, diskVars, memVars, op, acked, countVars>>

\* Success: the caller and the subscribers are told of revision r.
Acknowledge(r) ==
    /\ acked' = [acked EXCEPT ![op.project] = r]
    /\ CASE op.kind = "migrate" -> pc' = "migrate" /\ op' = [op EXCEPT !.kind = "open"]
         [] op.kind = "restore" /\ ~Current(r) ->
                pc' = "upgrade" /\ op' = [op EXCEPT !.rev = r]
         [] OTHER -> pc' = "idle" /\ op' = NoOp
    /\ scan' = NoScan

Verify ==
    /\ pc = "verify"
    /\ IF entries[op.project].rev = op.rev THEN Acknowledge(op.rev)
       ELSE StartRefresh("reconcile") /\ UNCHANGED <<op, acked>>
    /\ UNCHANGED <<ledger, diskVars, memVars, countVars>>

Publishing == {"stage", "install_payload", "sync_payload", "install_revision",
               "sync_revision", "make_directory", "rename_pointer", "sync_pointer",
               "rename_head", "clean"}

\* Any other error before the refresh: reconcile with what is on disk.
FailPublication ==
    /\ pc \in Publishing /\ StartRefresh("reconcile")
    /\ UNCHANGED <<ledger, diskVars, memVars, op, acked, countVars>>

\* The revision on disk is the one this mutation asked for.
Matches(r) ==
    r # NoRev /\ \A f \in {"seq", "parent", "payload"} : ledger[r][f] = ledger[op.rev][f]

Reconcile ==
    /\ pc = "reconcile"
    /\ staged' = NoRev
    /\ objects' = Kept(objects)
    /\ objectsSynced' = IF objects' = objects THEN objectsSynced ELSE objects'
    /\ rotten' = rotten \cap objects'
    /\ IF Matches(entries[op.project].rev) THEN Acknowledge(entries[op.project].rev)
       ELSE /\ CASE op.kind = "migrate" ->
                      StartRefresh("migrate") /\ op' = [op EXCEPT !.kind = "open"]
                 [] op.kind = "upgrade" -> StartRefresh("idle") /\ op' = op
                 [] OTHER -> pc' = "idle" /\ scan' = NoScan /\ op' = NoOp
            /\ acked' = acked
    /\ UNCHANGED <<ledger, placeVars, headVars, pointerVars, reports, memVars,
                   countVars>>

FailReconcile == pc = "reconcile" /\ Block /\ UNCHANGED countVars

-----------------------------------------------------------------------------
(* Library Trash *)

Begin(kind, p, targets, first) ==
    /\ Accepting /\ pc' = first
    /\ op' = [NoOp EXCEPT !.kind = kind, !.project = p, !.targets = targets]
    /\ UNCHANGED <<ledger, diskVars, memVars, scan, acked, countVars>>

Trash(p) == entries[p].location = "active" /\ Begin("trash", p, {}, "mark")
RestoreTrashed(p) == entries[p].location = "trashed" /\ Begin("untrash", p, {}, "move")
Delete(p) == entries[p].location = "trashed" /\ Begin("delete", "none", {p}, "next")
\* The records that are old enough: any of those whose Trash record was read.
EmptyTrash(T) ==
    /\ T \subseteq {p \in Projects : entries[p].location = "trashed" /\ entries[p].dated}
    /\ Begin("empty", "none", T, "next")

Mark ==
    /\ Step("mark", "move") /\ place[op.project] = "active"
    /\ markers' = markers \cup {op.project}
    /\ UNCHANGED <<ledger, place, placeSynced, torn, headVars, pointerVars,
                   objectVars, staged, reports, memVars, acked, countVars>>

Move ==
    /\ Step("move", "sync_move")
    /\ place[op.project] = IF op.kind = "trash" THEN "active" ELSE "trashed"
    /\ place' = [place EXCEPT
          ![op.project] = IF op.kind = "trash" THEN "trashed" ELSE "active"]
    /\ UNCHANGED <<ledger, placeSynced, markers, torn, headVars, pointerVars,
                   objectVars, staged, reports, memVars, acked, countVars>>

SyncMove ==
    /\ pc = "sync_move" /\ placeSynced' = place /\ op' = op
    /\ IF op.kind = "trash" THEN StartRefresh("idle") ELSE pc' = "unmark" /\ scan' = scan
    /\ UNCHANGED <<ledger, place, markers, torn, headVars, pointerVars, objectVars,
                   staged, reports, memVars, acked, countVars>>

Unmark ==
    /\ pc = "unmark" /\ StartRefresh("idle")
    /\ markers' = markers \ {op.project}
    /\ UNCHANGED <<ledger, place, placeSynced, torn, headVars, pointerVars,
                   objectVars, staged, reports, memVars, op, acked, countVars>>

\* The next directory to remove, or the end of the removals.
NextRemoval ==
    /\ pc = "next"
    /\ \/ /\ op.targets = {} /\ StartRefresh("collect") /\ op' = op
       \/ /\ \E p \in op.targets :
                op' = [op EXCEPT !.project = p, !.targets = @ \ {p}]
          /\ pc' = "remove" /\ scan' = scan
    /\ UNCHANGED <<ledger, diskVars, memVars, acked, countVars>>

\* The recursive removal takes one file at a time, in no particular order.
RemoveFile ==
    /\ Step("remove", "remove")
    /\ LET p == op.project IN
        /\ torn' = torn \cup {p}
        /\ \/ /\ p \in markers /\ markers' = markers \ {p}
              /\ UNCHANGED <<headVars, pointerVars>>
           \/ /\ head[p] # NoRev
              /\ head' = [head EXCEPT ![p] = NoRev]
              /\ headSynced' = [headSynced EXCEPT ![p] = NoRev]
              /\ badHead' = badHead \ {p}
              /\ UNCHANGED <<markers, published, pointerVars>>
           \/ \E r \in pointers[p] :
              /\ pointers' = [pointers EXCEPT ![p] = @ \ {r}]
              /\ pointersSynced' = [pointersSynced EXCEPT ![p] = pointers'[p]]
              /\ UNCHANGED <<markers, headVars>>
    /\ UNCHANGED <<ledger, place, placeSynced, objectVars, staged, reports, memVars,
                   acked, countVars>>

RemoveDirectory ==
    /\ Step("remove", "sync_remove")
    /\ LET p == op.project IN
        /\ p \notin markers /\ head[p] = NoRev /\ pointers[p] = {}
        /\ place' = [place EXCEPT ![p] = "none"]
        /\ headSynced' = [headSynced EXCEPT ![p] = NoRev]
        /\ pointersSynced' = [pointersSynced EXCEPT ![p] = {}]
        /\ torn' = torn \cup {p}
        /\ reports' = reports \ {p}
        /\ acked' = [acked EXCEPT ![p] = NoRev]
    /\ UNCHANGED <<ledger, placeSynced, markers, head, badHead, published, pointers,
                   objectVars, staged, memVars, countVars>>

SyncRemove ==
    /\ Step("sync_remove", "next")
    /\ placeSynced' = place /\ torn' = torn \ {op.project}
    /\ UNCHANGED <<ledger, place, markers, headVars, pointerVars, objectVars,
                   staged, reports, memVars, acked, countVars>>

\* An error in a lifecycle mutation: refresh and collect, then report it.
FailLifecycle ==
    /\ pc \in {"mark", "move", "unmark", "next", "remove"} /\ StartRefresh("abort")
    /\ UNCHANGED <<ledger, diskVars, memVars, op, acked, countVars>>
\* A parent directory that would not sync: refresh, then block mutations.
FailLifecycleSync ==
    /\ pc \in {"sync_move", "sync_remove"} /\ StartRefresh("block")
    /\ UNCHANGED <<ledger, diskVars, memVars, op, acked, countVars>>
BlockMutations == pc = "block" /\ Block /\ UNCHANGED countVars

-----------------------------------------------------------------------------
Refreshing ==
    \/ \E p \in Projects : ScanNothing(p) \/ ScanUnpublished(p) \/ ScanSound(p)
                           \/ ScanDamagedTrash(p) \/ RecoverQuarantine(p)
                           \/ RecoverReport(p) \/ RecoverHead(p)
    \/ FinishRefresh

Committing ==
    \/ Stage \/ InstallPayload \/ SyncPayload \/ InstallRevision \/ SyncRevision
    \/ MakeDirectory \/ RenamePointer \/ SyncPointer \/ RenameHead \/ SyncHead
    \/ FailSyncHead \/ RetryHead \/ FailRetryHead \/ Clean \/ Verify \/ Reconcile
    \/ UpgradeRestored \/ FailUpgrade

Opening ==
    \/ Scavenge \/ MigrationsDone \/ Collect
    \/ \E r \in Revs : MigrateNext(r) \/ FailMigration(r)

Trashing ==
    \/ Mark \/ Move \/ SyncMove \/ Unmark \/ NextRemoval \/ RemoveFile
    \/ RemoveDirectory \/ SyncRemove \/ BlockMutations

\* The steps of the mutation or open under way, its errors aside.
Progress == Refreshing \/ Committing \/ Opening \/ Trashing

Requests ==
    \/ \E p \in Projects :
          \/ \E v \in Payloads : Create(p, v) \/ RestoreRevision(p, v) \/ Change(p, v)
          \/ \E r \in Revs : Rollback(p, r)
          \/ Trash(p) \/ RestoreTrashed(p) \/ Delete(p)
    \/ \E T \in SUBSET Projects : EmptyTrash(T)

Errors == FailRefresh \/ FailPublication \/ FailReconcile \/ FailCollect
          \/ FailLifecycle \/ FailLifecycleSync

Faults ==
    \/ Crash \/ Close
    \/ \E p \in Projects : RotHead(p)
    \/ \E o \in objects : RotObject(o)

Next == Open \/ Progress \/ Requests \/ Errors \/ Faults

Spec == Init /\ [][Next]_vars
\* The event loop runs every started operation on; nothing obliges the user,
\* the disk or the power supply to do anything.
FairSpec == Spec /\ WF_vars(Progress) /\ WF_vars(Open)
=============================================================================
