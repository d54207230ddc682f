# Verification of Open Chords

TLA+ models of the parts of Open Chords whose correctness depends on the order
of things: what is on disk when a write fails or the machine stops, what runs
while something else unwinds, which answer arrives late.  TLC checks the models
on small instances; TLAPS proves the theorems listed below for every value of
the constants.  Paths are relative to the repository root (`src/` stands for it
in PROJECT.json).

    tlc -workers 2 -config MCProjectLibrary_crash.cfg MCProjectLibrary
    tlapm ProjectLibrary_proofs.tla

## The system

Open Chords is an Electron application.  The main process
(`apps/desktop/src/main`) owns all durable state; renderers reach it through
the preload script and a validated command gateway; analysis, alignment and
acquisition run in contained child processes; `packages/domain` holds pure
functions over Project documents.

| Component (source) | State | Operations | Hard behaviour | What makes it correct | Module |
|---|---|---|---|---|---|
| Project Library (`project-library.ts`) | `projects/`, `trash/`, `objects/`, `staging/`, `reports/`, `quarantine/` on disk; `#entries`, `#mutationBlockedError`, `#mutationTail` | create, restore, edit, undo/redo, publish, roll back, Trash, restore, delete, empty, open | failed writes, crashes between writes, renames that are visible but not durable, damaged files, shared objects and their collection | an acknowledged revision survives; readers see only published revisions; no collection takes a file of a live history | `ProjectLibrary` |
| Library relocation (`relocate`) | location record and journal, two roots | relocate, resume, clean up | a crash between copy, switch and removal | one active Library that holds every commit; nothing left that nobody names | `Relocation` |
| Source Locator catalog, YouTube observations | two copies of one file; one file | refresh, observe, merge, quarantine | a damaged copy, a crash between the copies | what was recorded stays in the best readable copy | `SourceCatalog` |
| Analysis Jobs (`analysis-jobs.ts`) | `state.json`, `#active`, circuit breaker | submit, run, cancel, retry, confirm, interrupt, open | an Attempt unwinding while its Job is cancelled or retried; deadline against result; failed writes after memory changed | one Attempt at a time; a late candidate never moves a Head; no Job is stuck | `AnalysisJobs` |
| Alignment Jobs (`alignment-jobs.ts`, `-service.ts`, `-worker.ts`) | Job list, pending list, workspace markers | start, confirm, cancel, sleep, wake, close | the same, with a queue in memory above a durable list | stale alignment never published; a queued Job runs | `Alignment` |
| CPU work gate (`cpu-work.ts`) | permit, waiters | run, abandon | waiters that are aborted or rejected, a holder that cannot confirm its end | nothing beside a process that may live; no lost permit | `CpuWork` |
| Acquisition Jobs (`acquisition-jobs.ts`, `acquired-snapshots.ts`) | catalog, workspace records, Snapshots | start, cancel, retry, publish, expire, close, recover | publication against a crash; Offline Mode against a start being written | Job and Snapshot agree | `Acquisition` |
| Acquisition session and broker | streams, requests, budgets | open, read, close, abort | an exchange that goes on after the abort | nothing survives the session unreported | `AcquisitionSession` |
| Sidecar session (`sidecar-session.ts`, `sidecar-protocol.ts`, `protocol.py`) | framed pipes, sequences, timers, two ends | run, cancel, time out, dispose | frames that cross | every session ends once; honest ends agree | `SidecarSession` |
| Model Store (`model-store.ts`) | packs, staging | install, cancel, remove, repair | power failure between renames; Offline Mode during a transfer | what was reported done stays done | `ModelStore` |
| Local media (`local-media.ts`) | file handles, capabilities, generations | pick, create, relink, play, read, revoke, dispose | a window that goes at any await; a file edited while it is read | one owner per handle; only verified bytes | `LocalMedia` |
| Project exports (`project-exports.ts`) | journal, staged file, Receipts | export, cancel, recover | a crash between file and Receipt | a file has a Receipt or a journal | `ProjectExports` |
| Archive import, media cache | identities; record and bytes | import, store, discard | repetition, a crash between bytes and record | repeating converges; claims are true | `ArchiveImport` |
| Data clean-up (`data-cleanup.ts`) | the data itself, claims | plan, confirm, remove | data that changes between the plan and the removal; crash | nothing unconfirmed goes; the Library can be found to the end | `DataCleanup` |
| Network mode, manual updates, YouTube player and panel | the setting and its file; one operation; one window | set, check, refresh, open, close, poll | Offline Mode against what runs; late answers | Offline Mode silences all; nothing closed is shown again | `NetworkUse` |
| Lyrics discovery (`lyrics-discovery.ts`) | candidates, one request | search, choose, cancel | a panel or a Head that moved on | the lyrics added are those chosen | `LyricsDiscovery` |
| Command gateway, event stream, committed store | queues; last sequence; request number; what is shown | mutate, accept, recover, read | gaps, duplicates, answers out of order | the window ends up on the newest commit | `ProjectEvents` |
| Chord Editor, edit history, projection, practice | draft; Edit Layers; loop | edit, save, undo, redo, reset, map | a snapshot that is old | a save means what the draft showed | `ChordEditing` |
| Payload schemas, contracts, export formats, native brokers, build tools | - | - | the operating system, numeric code, schemas | - | not modelled |

The main process is one JavaScript thread: code between two `await`s is one
step, and any other callback may run at an `await`.  Mutations of a component
are queued on a promise tail (`#serializeMutation`), so at most one of them is
under way; readers are synchronous and see the memory as it is.

## Modules

### ProjectLibrary: the durable Library

`ProjectLibrary.tla` models `project-library.ts`.

* **State.** `ledger` is every revision ever issued (its immutable record);
  a revision is its position in it.  `place`, `head`, `pointers`, `objects` are
  the directories and files as the process sees them; `placeSynced`,
  `headSynced`, `pointersSynced`, `objectsSynced` are what is sure to be there
  after a crash.  `staged` is the revision whose HEAD.json lies in `staging/`,
  `markers` the TRASH.json files, `torn` the directories a removal has begun to
  empty, `reports` the loss reports, `badHead` and `rotten` the damaged files.
  `entries` is `#entries`, `blocked` is `#mutationBlockedError`.  `published`
  and `acked` are history variables.
* **Control.** Since mutations are serialized, `pc`, `op` and `scan` hold the
  control state of the running mutation and of the refresh inside it.
  `commitPayloadAttempt` is the sequence `Stage`, `InstallPayload`,
  `SyncPayload`, `InstallRevision`, `SyncRevision`, `MakeDirectory`,
  `RenamePointer`, `SyncPointer`, `RenameHead`, `SyncHead` (or `RetryHead`),
  `Clean`, a refresh, `Verify`; any step before the refresh may fail
  (`FailPublication`) and is then reconciled with what is on disk (`Reconcile`).
  `#refreshEntries` is one step per Project (`ScanSound`, `ScanUnpublished`,
  `ScanDamagedTrash`, or `RecoverQuarantine`, `RecoverReport`, `RecoverHead`)
  and `FinishRefresh`, which swaps all entries in.  The Trash operations are
  `Mark`, `Move`, `SyncMove`, `Unmark`, and the removals file by file.
* **Durability.** A rename is visible at once and durable when its directory
  has been synced.  A crash (`Shutdown`) keeps or undoes each unsynced rename
  independently; what is visible after the crash is taken as durable then.
  `mkdir`, the discarding of a tail, the collection and the steps of a recovery
  are taken as durable when done.
* **Damage.** `RotHead` and `RotObject` make a file unreadable, at most
  `MaxRot` times.  Pointers are not damaged.
* **Abstracted.** Payloads are values that are equal or not, of the current
  schema or of an `Older` one with an `Upgrade`; validation succeeds.  All
  mutations that replace the payload of an expected revision are one action,
  `Change`.  The check of the expected revision is its guard.  Locators, the
  index, receipts and migration-failure messages are left out.

`ProjectStore.tla` is what the Library promises when no file is damaged: an
append-only history per Project, a publication that appends once or not at all,
readers that see a whole current history or no Project.  `ProjectLibraryProps`
instantiates it under a refinement mapping (`log` from the durable Heads,
`shown` from the entries) and states the other properties.

Properties:

* `HeadIntact`: a Head that is, or may come back after a crash, keeps every
  pointer, record and payload of its history.
* `ShownPublished`: readers never see a revision that was not a durable Head.
* `AckedSurvives`: an acknowledged revision stays in the durable history.
* `ViewIsCurrent`: between mutations the entries are what is on disk, unless
  mutations are blocked.
* `HeadMoves`: a durable Head moves to a child, back within its own history, or
  away; nothing unpublished appears.
* `ImplementsStore`: every behaviour is one of `ProjectStore`.
* `MutationsEnd`: every mutation and open ends.

#### Runs

| Run | Instance | Shows |
|---|---|---|
| `crash` | 1 Project, 2 payloads of 2 schemas, 3 revisions, 2 crashes | the safety properties and the refinement without damage |
| `shared` | 2 Projects, 1 payload, 2 revisions, 1 crash, symmetry | `HeadIntact`: nothing of one Project is lost to another that shares its payload |
| `rot` | 1 Project, 1 payload, 3 revisions, 1 crash, 1 damaged file | recovery from damage (`HeadMoves`), and `IInv`, the invariant of the proof |
| `live` | 1 Project, 2 schemas, 2 revisions, 1 damaged file | `MutationsEnd` under fairness |

Three revisions are a first one, a second to fall back from and a third that
competes with an abandoned one; two crashes are one in a mutation and one in the
recovery of the first; two Projects and one payload share every object.  The
bounds `MaxRevisions`, `MaxCrashes` and `MaxRot` are guards of `Issue`, `Crash`
and of the `Rot` actions.  At `MaxRevisions` only publications stop.

Fairness (`FairSpec`): weak fairness of `Progress`, the steps of the operation
under way, and of `Open`.  The event loop runs a started operation on whenever
its I/O completes; nothing obliges the user, failures or crashes.  A failure
ends an operation or moves it on, so `MutationsEnd` holds with any number of
failures.

#### Met on the way, without a run

* A first publication that stops between the creation of the Project directory
  and the rename of its first pointer is recovered as a *damaged* Project that
  was never published (`project-library.ts:2152`), where
  `docs/development/project-library.md:27` has an uncommitted publication leave
  nothing.
* The collection after a recovery removes the records that the comment at
  `project-library.ts:1915` says remain for diagnosis.
* A Project that stays damaged defers every collection (`project-library.ts:2294`).

#### Proofs

`ProjectLibraryTypes_proofs.tla` proves `TypeCorrect == Spec => []TypeOK`.
`TypeOK` alone is not inductive: a step that dereferences the operation's
revision needs to know that it has one.  `OpNamed` says which control states
have a Project and a revision; `TInv == TypeOK /\ OpNamed` is inductive.

`ProjectLibrary_proofs.tla` proves `HeadsStayIntact`: when `Older = {}`,
`Spec => []HeadIntact`, for every set of Projects and payloads and every bound,
damage and crashes included.  The inductive invariant is
`IInv == TInv /\ DiskInv /\ StepInv`:

* `LedgerOK`: parent links go back, and a line is closed under ancestors;
* `DiskKnown`, `Empty`: what is durable is visible; no directory, no Head;
* `HeadDurablyIntact`, `RecordsWhole`: the histories of both Heads are durable,
  and so is the payload of any record that is present and listed;
* `HeadInDoubt`: the two Heads differ only while one is being settled;
* `EntriesFaithful`, `ScanFaithful`: the entries a collection relies on cover
  the Heads on disk, in memory and half-way through a refresh;
* `Publication`: how much of the revision under publication is durable.

`LibraryInvariant` states `Spec => []IInv` itself, and TLC checks `IInv` in run
`rot`.  The restriction to `Older = {}` is real:
`UpgradeRestored` and the migrations of an open extend an entry read before a
failed refresh, and with damage that entry's history need not be whole.

`ProjectLibraryHistory_proofs.tla` proves, again for `Older = {}` and with any
crashes, failed writes and damaged files, `ShownWasPublished`
(`Spec => []ShownPublished`), `ViewsAreCurrent` (`Spec => []ViewIsCurrent`) and
the action property `HeadsMoveAlongTheLedger` (`Spec => HeadMoves`).  The three
need one invariant beside `IInv`, because what a reader is shown was decided by
what a refresh found listed on disk, and that by what every earlier mutation
and crash left there:

* `Traces` is about the disk: a directory lists its own Project's revisions
  (`Owned`); one Head at most is in doubt, between a revision and its parent,
  and then nothing is staged (`Doubt`); what is staged or in doubt does not
  move (`Pending`); and (`LooseKnown`) a listed revision that was never a durable
  Head is the staged one, the Head in doubt, or lies where there is no Head.
  `LooseKnown` is why `ScanSound` may cut the pointers at the Head's sequence and
  why the limit of a recovery, the staged sequence less one, keeps it from
  republishing an unfinished publication;
* `Viewed`, `Recovered`: what the entries, the entries half-way through a refresh
  and the recovery of one Project say is true of the disk;
* `PlaceInDoubt`, `StagedKnown`, `Underway`: when a move, `staging/` or a
  publication may be half done, and what it extends.

`HeadMoves` then follows step by step: only the sync of a Head, a crash and a
recovery set a durable Head, and `Doubt`, `Underway` and `Recovered` name where
from.

`ProjectLibraryStore_proofs.tla` proves, for `Older = {}` and `MaxRot = 0` (a
damaged file may cost an acknowledged revision, and the code cannot prevent it),
`AcknowledgedSurvives` (`Spec => []AckedSurvives`) and the refinement
`LibraryImplementsStore` (`Spec => ImplementsStore`).  Beside `IInv` and `HInv`
they need `SInv`, which says why nothing is ever lost to a recovery:

* `Chains`: a line has one revision of each sequence, so `Verified` has one
  candidate for each link and the sequences number a history;
* `Listed`, `StagedWhole`: a directory that no removal has begun on lists the
  line of its Head and at most one successor of it, the one in `staging/`;
  with `HeadDurablyIntact` the Head then reads back (`UntornSound`), and a
  directory without a Head is an unfinished first publication
  (`UntornUnpublished`): there is nothing to recover (`NothingLost`);
* `Vacant`, `Firsts`, `FirstUnderway`: no loss report or acknowledgement is left
  without a directory, so a first publication starts clean and a crash may take
  it back;
* `Recorded`, `Moving`: the Trash record is there as long as a crash may put the
  directory back into the Trash, without which it would count as damaged;
* `Tidy`, `Removing`, `Placed`: what a refresh, a removal and the entries say.

For the refinement a revision's history is read from the ledger (`HistoryIn`).
`HistoryAppends` shows that it is the parent's and its own payload, `HistoryStays`
that later revisions leave it alone.  The sync of a Head is `Publish`, or nothing
when it has been synced or its Project is being removed; the end of a refresh is
`Show`; a file's removal is `Doom` and the sync of the directory `Remove`; a crash
is `Restart`, which publishes the Head in doubt or does not (one by `Doubt`);
every other step is a stutter.

Only model-checked: `MutationsEnd` (liveness is out of the prover's reach).

### AnalysisJobs: the queue of analysis work

`AnalysisJobs.tla` models `analysis-jobs.ts`, with the runner and the Project
authority as its environment.

* **State.** `mem` is `#state` and `disk` is `state.json`: the state of every
  Job, the list of Attempts, the circuit breaker.  `queue` holds what waits on
  `#mutationTail`; `step` is what the mutation under way waits for (a write, the
  Project authority, a termination).  `active` is `#active`; `run` is the place
  in `runNext` of the Attempt that holds the slot, with the reason of its abort
  signal; `stops` is `#terminationPromises`; `processes` are the runner
  processes that live; `head` and `results` are the Project's current revision
  and the candidates it holds.
* **Control.** A caller's operation is a request in `queue` (`Call`,
  `CallSleep`) and an action that takes it: `Submit`, `Confirm`, `Retry`,
  `RefreshBlocked`, `Cancel`, `RunNext`, `Sleep`, `SubmitDrifted`.  It changes
  `mem`, and `Write` or `FailWrite` ends it.  An Attempt goes through `Launch`
  (or `FailPreparation`), `Answer` or `Interrupted`, `Stopped` or `NotStopped`
  and `Unwind`; its answer is published by `Publish`, `Write`, `Commit` or
  `Reject`, `Write`, `Leave`; its failure leaves through `FailAttempt`, which
  queues `Settle` and releases the slot in the same step, since `runNext` does
  not await the mutation its catch block returns.
* **Scheduling.** A continuation of a settled promise runs before the next
  timer, I/O completion or call.  `Settled` is the guard that says none is due;
  the order among continuations, and between them and the start of the next
  mutation, is left open.
* **Failures.** A write may fail before or after the rename and leaves `mem`
  changed; the answer of a commit may be lost; the Project's snapshot may be
  unreadable when a failure is recorded; a termination may be refused; the
  application may end at any step.  `Faults` chooses among them per run.
* **Abstracted.** The Jobs belong to one Project that stays there; every queued
  Job may be next; a failure is its effect on the Job.  Progress, Checkpoints,
  `moveBefore` and `pruneOperationalEvidence` are left out, and so is a second
  runtime on the same state file: the application holds a single-instance lock.
  A rollback that removes a published analysis is left out.  `interruptForSleep`
  is called by the tests only, so far.

Properties:

* `OneRunner`, `OneJobInFlight`: one contained process, one Job at a time.
* `NoLatePublication`: a candidate is committed only while the durable state has
  its Attempt running and claims it.
* `CommittedKept`, `OneResultPerJob`, `SuccessIsPublished`: the record of a Job
  and the content of the Project agree, across lost answers and restarts.
* `RunningHasAttempt`: a running Job can be cancelled and recovered.
* `AttemptsEnd`: a running or cancelling Job ends.

| Run | Instance | Shows |
|---|---|---|
| `jobs` | 1 Job, 2 Attempts, 1 restart, 1 edit; lost answer, unreadable snapshot or refused termination | the record and the Project agree |
| `queue` | 2 Jobs, 2 Attempts, 1 failed write, symmetry | one Job and one process at a time, also when the state file cannot be written |
| `jobs_live` | 1 Job, 2 Attempts, 1 sleep, 1 edit; lost answer or refused termination | `RunningHasAttempt`, `NoLatePublication`, and `AttemptsEnd` under fairness |
| `slot` | 1 Job, 2 Attempts, a sleep, a refused termination | a divergence (below) |

Two Attempts are one that unwinds and one that starts meanwhile.  `MaxWaiting`
bounds the requests in the queue when a caller adds one; the Attempt itself
adds its publication or its settling behind it, so that both orders of a call
and a settling occur with `MaxWaiting = 1`.  `MaxAttempts` bounds `Start`, the
other bounds the environment.

Fairness (`FairSpec`): weak fairness of the mutations and of `Open`, strong
fairness of the Attempt's own steps.  The event loop serves timers and I/O in
every turn, so calls cannot keep them out although each call briefly takes
precedence; the deadline bounds a run, and `terminateAndWait` answers or throws.

#### Proofs

`AnalysisJobs_proofs.tla` proves every safety property of the queue, for every
set of Jobs and every bound.  Each needs only as much of the environment to
behave as it must; three invariants stand on one another.

* `JobsInv`, whatever fails (`JobsInvariant`): `DataInv`, memory and disk are
  states with at most one Job in flight, which has an Attempt in flight, their
  successes are published, and the disk is an earlier memory; `KindInv`, the
  types; `LineInv`, a request or a step names an Attempt that is there;
  `SlotInv`, nothing takes the slot before the new Attempt is written and the
  one publication in the queue is that of the Attempt in the slot;
  `AuthorityInv`, what is at the Project authority is durable.  From it
  `JobsTypeCorrect`, `OneJobAtATime`, `RunningJobsHaveAttempts` and
  `SuccessesArePublished`.
* `ProcessInv`, when no termination is refused: a live process is that of the
  Attempt in the slot, which is running or being stopped.  From it
  `OneRunnerAtATime`.  Run `slot` shows that a refused termination breaks it.
* `WrittenInv`, when the state file can be written: between two writes the disk
  is the memory, and a candidate at the authority is that of a running Attempt
  of a running Job.  From it `PublicationsAreInTime`.
* `CalmInv`, when there is no sleep either: one Attempt is in flight and its Job
  is in its state, what the Project holds is in flight or recorded in memory and
  on disk (`AgreeInv`); the Attempt in the slot, and one whose failure waits to
  be recorded, has something left to record (`OwedInv`); a failure is recorded
  once (`SettleInv`).  From it `CommitsAreKept` and `OneResultForAJob`.

The hypotheses are on `Faults` and `MaxSleeps`, and each is needed: TLC finds
`NoLatePublication`, `CommittedKept` and `OneResultPerJob` violated with failed
writes, and the last two with one sleep and one lost answer.  Nothing but the
tests calls `interruptForSleep`.  TLC checked the four invariants first, each
with the faults it allows.  Only model-checked: `AttemptsEnd` (liveness).

The code and its documents disagree in run `slot`: after a sleep and a retry,
the slot is released before the failed termination of the old process opens the
circuit breaker, against `docs/development/analysis-jobs.md:38`.  Met with the
same model, without a run: a cancellation whose write failed does not stop the
publication (`analysis-jobs.ts:452`, against `analysis-jobs.md:53`); an Attempt
whose start could not be written has no deadline (`analysis-jobs.ts:679`,
against `analysis-jobs.md:37`); and the mutation that `runNext` queues without
awaiting it may, with a sleep, write the record of an ended Attempt again
(`CONTEXT.md:120` calls it immutable), take a retry back, or record an Attempt
whose commit lost its answer as interrupted, which a restart then no longer
reconciles.

### The small parts and how they are run

The other modules are each a self-contained part, small enough that TLC explores
it with several others in one run.  `MCProcesses`, `MCFiles` and `MCDesktop`
compose them; a variable `which` is chosen in `MCInit` (`Init` in `MCDesktop`)
and says which part moves, so the states of a run are the sum of the parts'
states and not their product.  A part that does not move keeps one initial
state.  All parts are extended, so that the runs check the very definitions the
theorems state; the property of a run is the conjunction of its part's
properties, named in the part, and one type invariant (`MCTypeOK`, `TypeOK`) is
that of all parts together.

| Run | Parts | Properties |
|---|---|---|
| `processes` | `Alignment` with `CpuWork`, `SidecarSession`, `Acquisition` with `CpuWork`, `AcquisitionSession` | `NothingBesideProcess`, `AlignmentKeepsWord`, `NoLateAlignment`, `SidecarKeepsWord`, `AcquisitionKeepsWord`, `ExtractorKeepsWord`, `MCTypeOK`, `RunsEnd` |
| `files` | `Relocation`, `ModelStore`, `LocalMedia`, `ProjectExports`, `ArchiveImport`, `SourceCatalog`, `DataCleanup` | `RelocationKeepsWord`, `StoreKeepsWord`, `MediaKeepsWord`, `ExportsAreAccounted`, `ImportKeepsWord`, `CatalogKeepsWord`, `CleanupKeepsWord`, `MCTypeOK` |
| `desktop` | `ProjectEvents`, `ChordEditing`, `NetworkUse`, `LyricsDiscovery` | `ShownCatchesUp`, `EditsAreKept`, `NetworkKeepsWord`, `LyricsKeepWord`, `TypeOK` |
| `draft` | `ChordEditing` | a divergence: `DraftStays` |

Two conventions recur.  A file that is renamed into place is visible at once and
durable when its directory has been synced: each module has the present state
and one (or the set) that a power failure may leave, called `...Safe` or, in
`Relocation`, `records` and `parents`.  And every counter of something that may
happen without limit (operations, faults, crashes, changes by others) is bounded
in the guard of the action that counts, by the constant whose name begins with
`Max`.  Deadlock is not checked in these runs, since a part stops at its bounds.

### MCProcesses: what runs native processes

**CpuWork** is the gate of `cpu-work.ts`: `cpuActive`, `cpuWaiting`,
`cpuBlocked`.  Its actions (`Enter`, `Abandon`, `Leave`, `LeaveUnclean`) are
conjoined with those of the callers, in `Alignment` and in `Acquisition`; the
other users of the gate are `OtherEnters` and `OtherLeaves`.  `Abandon` takes the
one entry out that was aborted, wherever it waits.

**Alignment** is three layers.  `job`, `circuit`, `control`, `line` and
`publishing` are the Job store with its mutation tail (`alignment-jobs.ts`): an
operation on the tail awaits only reads and its own write, so each is one step,
except that a publication and its record are two (`DoPublish`, `DoComplete`).
`pending`, `running`, `suspended`, `closed` and `call` are the service
(`alignment-service.ts`), where a renderer's action takes one step per await.
`phase`, `process`, `reaped`, `marker` and `space` are the run: gate, marker,
workspace, process, session, teardown, validation.  A restart may come between
any two steps.

* `NothingBesideProcess`: no other native work holds the gate while an alignment
  process may live, also when its end was never confirmed.  *Proved.*
* `AlignmentKeepsWord`: a Job that says it succeeded has its result in the
  Project; a queued Job is scheduled or about to be; a workspace on disk has a
  durable marker.  *Proved.*
* `NoLateAlignment`: a result is published only by a run whose Job runs and is
  not aborted at that moment.  *Proved.*
* `RunsEnd` (with the sidecar): every run ends.

**SidecarSession** holds both ends: `host`, `lifecycle`, `expected`, `outcome`
of the client and its guard, `far`, `sequence`, `told`, `acknowledged` of
`serve_one_session`, and the pipes between them.  `SidecarKeepsWord`: the guard
lets a session in only when the last process is gone or was reported
unstoppable; a result has its artifact and a confirmed clean-up none; and the
two ends count alike, whatever crosses.  *Proved.*

**Acquisition** has the catalog in memory and on disk, the workspace records,
the Snapshots and the Offline setting, with the start of a Job in two steps
(`Decide`, `Record`) during which a cancellation or Offline Mode may come.
`AcquisitionKeepsWord`: Job and Snapshot agree, workspaces are on record,
`close` leaves nothing that acts, and Offline Mode reaches an attempt that is
only being written.  *Proved.*  A rename that survived a crash is taken as durable, and a
Snapshot manifest that is damaged at recovery is not modelled.

**AcquisitionSession** is the exchange with the extractor, one message at a
time, and the broker's open, redirect, body and close; the exchange goes on in
the background when an abort has ended the session.  `ExtractorKeepsWord`:
nothing is left when a session is over unless it says so, and the counters fit
the catalog's schema.  *Proved.*

*Bounds.*  Two runs and two sessions: one that unwinds or leaves something, and
the one after.  One recipe, one caller and one other computation: two at the
gate.  A place in the queue, so that a second one is refused.  `CircuitLimit = 1`
opens the circuit within the two runs.  (Before its proof, `AInv` was checked
with two recipes as well.)  Two Acquisition Jobs and a history of
two, so that the history is full; two faults and one crash.  Three requests,
one redirect more than allowed, two streams and five messages reach each limit
of the broker.

*Fairness.*  `WF(Served)`: the event loop runs the operation at the head of the
tail.  `SF(Run(k))` for each recipe: the run's own completions and timers; strong
because a run that waits for the gate or for its operation on the tail can go on
only from time to time.
`SF(OtherEnds)`: whoever else holds the gate is bounded by a deadline of its own.
`WF(Host)`: the session's timers fire and its promises settle; nothing is
expected of the sidecar.  `Acquisition` and `AcquisitionSession` have no fairness.

### MCFiles: what keeps files beside the Library

**Relocation** follows `relocate` from the journal (`Begin`, `SyncJournal`) over
the staging directory, the copy, the rename into place and the switch of the
location record to the removal, with the catch block (`Reconcile`, `Fail`) and
the recovery at the next open or the next call.  `RelocationKeepsWord`: whatever
a crash leaves, the location names a root that is there and holds every
acknowledged commit, and no directory of a relocation is without the journal
that names it.  *Proved.*

**ModelStore**: one install or removal at a time (`op`, `pack`), with the swap
out of the old pack and in of the new one, the sync, the cancellation and the
Offline Mode beside it.  `StoreKeepsWord`: a pack that was reported installed or
removed is so after a power failure, and Offline Mode aborts every transfer.
*Proved.*

**LocalMedia**: operations (`mediaOp`) that open handles, hand them to a
selection, a playback capability or a reader, and close them on every other
path; a window's generation that is revoked at any await; disposal before the
application quits; a file that is edited or replaced at any time.  The playbacks
of a generation are a set: the newest `MaxPlayback` of them stay, and a later one
has a later handle.
`MediaKeepsWord`: every open handle has exactly one owner, over all generations
and operations; a revoked generation is quiet; a normal quit leaves no file open;
and every byte served is of the file that was hashed.  *Proved.*

**ProjectExports**: journal, staged file, rename, Receipt, removal of the
journal, with cancellation between any two of them and a recovery that goes
through the journals left.  `ExportsAreAccounted`: a file that is in place has
its Receipt or a durable journal, and what an export reported is true.
*Proved.*

**ArchiveImport** with the offline media cache: the identity an imported Project
gets, and the bytes and the record of its media, each renamed by itself.
`ImportKeepsWord`: cached bytes are what their record claims, a claim reported
is never weakened, and repeating an import converges.  *Proved.*

**SourceCatalog**: the two copies of the Locator catalog, compared, repaired and
rewritten backup first, and the file of YouTube observations.
`CatalogKeepsWord`: what was recorded stays in the best readable copy whatever
one copy suffers, and two readable copies of one revision are equal.  *Proved.*

**DataCleanup**: inspection, a confirmation per category and one for all, then
claim, removal and sync of each path, while the data may change.  A sync makes
every rename and removal in its directory durable; a crash takes back any of
those that no sync has covered, each path by itself.
`CleanupKeepsWord`: only what was confirmed, as it was shown, goes, and the
record that leads to an external Library goes last, also after a crash.
*Proved.*

*Bounds.*  Two targets and three moves: a relocation, one that resumes or
competes with it, and one back or onwards, with three troubles in all.  Two
packs, exports, archives or Projects where one might be taken for the other, one
crash (two for exports: one in the export, one in its recovery) and one fault
each.  Three handles are a selection, its second opening and a relink.  Two
archives, of which one is proven, and four imports are the least to repeat an
import after a different one.  No fairness.

### MCDesktop: what windows and the main process see of one another

**ProjectEvents**: commits in main, the gateway's queues with their limits, two
channels that deliver in order, the preload's `accept` and `recoverGap`, and the
store's requests.  `ShownCatchesUp`: with nothing on its way, what the window
shows is the newest commit, also when a recovery failed or the window was
replaced.  *Proved.*  A sequence that goes back is not modelled.

**ChordEditing**: the draft of `editor-draft.ts`, the operations it saves, the
Edit Layers and their tree of transactions, and the timeline they amount to:
the operations of the selected transaction's ancestors and its own (`Chain`),
applied in turn (`Apply`).  The Library changes beside the editor.
`EditsAreKept`: what the draft showed when it was saved is what its transaction
amounts to for good, and a practice loop that is ready lies on bars that are
shown.  *Proved.*

**NetworkUse**: the setting's queue and file, the update check, the one
operation of the YouTube service, the player's window and its session, and the
panel with its actions and polls.  `NetworkKeepsWord`: Offline Mode silences
everything, an acknowledged setting survives a crash, a player that was closed is
never shown again, and a release is offered only by a check that ended well.
*Proved.*

**LyricsDiscovery**: search, choice, second read and saving, with the candidates
of one window generation and Project.  `LyricsKeepWord`: the lyrics added are
those chosen, on the Head the user saw, and no candidate outlives its panel, its
Project or the mode it was found in.  *Proved.*

*Bounds.*  One Project, five commits and three requests: a read that an event
overtakes, a gap, and a recovery that crosses a read.  Two chords, two events of
which one is doubtful, four revisions: a save, an undo, a branch, a reset.  Two
players and two settings: one that closes while the other opens.  Two songs, of
which one can be found again by its hash, two Projects, two searches.  No
fairness.

*Divergence.*  Run `draft`: `save` awaits the Library's answer and then closes
whatever draft is open (`chord-editor.tsx:420`); a draft opened since is lost,
against the text at `chord-editor.tsx:430`, "Changes stay in this draft until
Save."

### Proofs of the small parts

Each proof is an inductive invariant, checked by TLC before it was proved.  The
fairness of the alignment's and the sidecar's specifications plays no part in a
safety proof.  Every invariant and action property of the passing runs is stated
by a theorem; only model-checked is liveness: `RunsEnd` here, `MutationsEnd` and
`AttemptsEnd` above.

An induction over data is out of the prover's reach too.  Where a definition
walks a sequence (the operations of a timeline, the events that waited for a
recovery, the paths to remove), it is a recursive function or a set with an
order, and the proofs need only one link of it: that a timeline with one more
transaction is that transaction applied to its parent's timeline, that events
which tell nothing new leave a stream as it is (`AcceptOld`), that what is in
front of the pointer is gone (`InFront`).

* `Files_proofs`, `StorePromiseKept`: `StoreSpec => []StoreKeepsWord`, for
  every set of packs.  `StoreInv` adds to the promise what the operation under
  way has reached: while it has a pack in its hands nothing is reported of that
  pack, the directory is as its last step has left it, and a controller exists
  only during a transfer.  Without that, a step that reports could follow one
  whose sync nobody awaited.
* `Files_proofs`, `RelocationLosesNothing`: `RelocationSpec =>
  []RelocationKeepsWord`, under `RelocationAssumption` (targets that differ from
  the first root).  `RInv` has six parts: `DiskTypes` and `StepTypes`; `DiskInv`,
  every pair of a record and a parent directory that a crash may leave has a
  complete root at its location, with all that was acknowledged, and marks and
  claims only for its journal; `LocationInv`, when it is settled what location a
  crash would find; `MoveInv`, what a relocation relies on from its journal to
  the switch; `RemovalInv`, what the removal steps of the four modes rely on.
  A switch is several steps with a crash between any two, so the property of the
  disk is inductive only together with the step that is under way.
* `Files_proofs`, `ImportPromiseKept`: `ImportSpec => []ImportKeepsWord`, under
  `ImportAssumption`.  `ImportInv` has the types and two parts.  `CacheInv`: from
  the check of the bytes to the sync of their record nothing is reported stored,
  and what is reported stored is the same bytes under the same claim in memory
  and after a crash.  `ConvergeInv`, as long as nothing went to the Trash: an
  archive's identities are taken in their order (`InOrder`), every imported
  Project has one of them (`Named`), and an identity that the import under way
  has passed is taken by another Project or an edited one (`Passed`).  Without
  `Passed`, an import that walks the identities could come to one after the
  Library freed or filled an earlier one.
* `Files_proofs`, `ExportsPromiseKept`: `ExportsSpec => []ExportsAreAccounted`,
  under `ExportAssumption`.  `ExportInv` adds `TurnInv`, export and recovery never
  meet; `JournalInv`, the journal is durable from its sync to the Receipt, and a
  staged file that is there or may come back has a journal that is there and may
  not go; and `TargetInv`, a file in place is not staged as well, only an export
  that replaces the file or has replaced it is found in it, and what was saved
  has left no journal.
* `Files_proofs`, `CatalogPromiseKept`: `CatalogSpec => []CatalogKeepsWord`,
  under `CatalogAssumption` (natural bounds, and observations that are not the
  mark of an unreadable file).  `CatalogInv`: `CopiesInv`, one revision has one
  content among the two copies and what a crash may bring back of them, none of
  which is newer than what is there, and the newest copy, when it is the primary
  one, is durable somewhere; `WritingInv`, what a refresh writes is newer than
  both copies or equal to them and holds what was acknowledged and what is being
  observed, and the backup is durable before the primary copy is touched;
  `AckedInv`, one of the two *places* holds the acknowledged Locator both now and
  after a crash, and nothing older outranks it; `NotesInv` for the observations.
  The copies alone do not make an inductive invariant: the selection by revision
  after a crash mixes a new backup with an old primary copy.  `NewestTime`, that
  finitely many times have a newest, is proved from the well-foundedness of `<`.
* `Files_proofs`, `MediaPromiseKept`: `MediaSpec => []MediaKeepsWord`, for any
  number of windows, operations, handles and playbacks, with no assumption on the
  constants.  `MediaInv`: `ShapeInv`, how many handles an operation holds at each
  of its steps; `OwnInv`, an open handle has one owner among the operations,
  selections and playbacks of all generations, and each owner's handle is open;
  `QuietInv`; `CleanQuit`; `VersionInv`, contents only get newer, so that bytes
  read between two equal looks at the file are of the version looked at.
* `Files_proofs`, `CleanupPromiseKept`: `CleanupSpec => []CleanupKeepsWord`, under
  `CleanupAssumption` (natural bounds).  `CleanupInv`: `PlanInv`, what is removed
  was confirmed with the inventory that was shown and is not touched again, and
  the path in hand has lost its name, then its claim; `PointerInv`, while the
  pointer is to be removed, everything in front of it is gone but the path in
  hand, and once the index is out of the way it is gone from what a crash leaves
  as well.  The promise alone is not inductive: that the pointer may go follows
  from the order of all the removals before it.
* `Files_proofs`, `FilesAreTheirParts`: `MCSpec` of run `files` implies the
  specification of each part, so that what is proved of a part holds in the run;
  and `FilesTypes`, `MCSpec => []MCTypeOK` under the assumptions of the parts.
  The bounds in the types need invariants of their own: `CommitsInv`, no root
  holds more commits than there were; `PlaybackInv`, with `FewNewest`, among
  finitely many playbacks those with fewer than a limit of newer ones are within
  the limit; `PendingInv`, no more Receipts are pending than exports were
  answered; `ClaimsInv`, a claim bears the number of a clean-up that began.
* `Desktop_proofs`, `EventsPromiseKept`: `EventsSpec => [](EventsTypeOK /\
  ShownCatchesUp)`, under `EventsAssumption` (finitely many Projects, natural
  bounds), for any number of Projects, commits, failing reads and windows.
  `EventInv`: `OrderInv`, a message on its way tells no less than what was seen
  and what is in front of it, and the events of every later commit follow it;
  `RefreshInv`, a recovery has one refresh on its way; `StoreInv`, what is shown
  is what was last seen, or a read that counts is still awaited.
* `Desktop_proofs`, `EditingPromiseKept`: `EditingSpec => [](EditingTypeOK /\
  EditsAreKept)`, with no assumption, for any number of revisions, sessions and
  edits (of two events and two chords).  `EditInv`: `ProjectOk`, in the Project
  and in the editor's snapshot every transaction extends an earlier one and
  amounts to what its draft showed, and the loop lies on bars that are shown;
  `SnapshotOk`, a snapshot of the Project's revision is the Project; `DraftOk`, a
  draft of that revision began with the timeline shown; `RequestOk`, a save that
  was made for that revision amounts to what the draft showed, and an older one
  is refused.  `BesideLibrary` and `BesideEditor` say that a step of one side
  leaves the other's part alone.
* `Desktop_proofs`, `DesktopIsItsParts` and, under `EventsAssumption`,
  `DesktopTypes`: the same two facts for run `desktop`.
* `Desktop_proofs`, `NetworkPromiseKept`: `UseSpec => []NetworkKeepsWord`, with no
  assumption on the constants.  `UseInv`: `SettingInv`, a setting that is being
  persisted is not acknowledged and an acknowledged one is the same in memory, in
  the file and after a crash; `QuietInv`, Offline Mode leaves nothing alive, an
  opening that waits for the empty session included; `PanelInv`, an answer that
  is on its way is newer than everything the panel was told, since an action
  outdates the polls before it and a poll waits for no action.
* `Desktop_proofs`, `LyricsPromiseKept`: `LyricsSpec => []LyricsKeepWord`, with no
  assumption.  `LyricsInv`: `OwnInv`, the list, the answer on its way and the
  request that the panel waits for are the panel's own, and a transfer that can
  still end well is so too unless its cancellation is on the way; `SavedInv`, what
  is read and saved is of the Project of the request, and one addition at most
  extends a Head.
* `Processes_proofs`, under `AlignmentAssumption` (finite sets of recipes and
  callers that are not other work): `ProcessStandsAlone`
  (`[]NothingBesideProcess`), `AlignmentTellsTheTruth` (`[]AlignmentKeepsWord`)
  and `LateRunStaysOut` (`NoLateAlignment`), for every number of recipes,
  callers and other computations, any limit of the circuit and any queue.
  `AInv` adds to the types: `RunInv`, the service's slot, the Job's controller
  and the run are about one Job, and an ended run leaves its Job not queued;
  `LineInv`, the run has at most one operation on the tail, the one it waits
  for; `PublishInv`, a result that is published and not recorded belongs to the
  head of the tail; `GateInv`, a run holds the gate from its marker to its
  teardown, and a process that outlives that has closed the gate.
  `QueuedIsScheduled` is inductive with these.  The step lemmas have one step
  per part of the invariant; `Scheduled` and `Starts` name what most of them
  hand on.
* `Processes_proofs`, `SidecarPromiseKept`: `SidecarSpec => []SidecarKeepsWord`,
  under `SidecarAssumption` (natural bounds).  `SidecarInv`: `ProcessInv`, a
  process not known to be dead belongs to a session under way or to one whose
  outcome says so; `InboxInv`, the frames in the pipe count from `expected` to
  `sequence` and the handshake is the one with 0, so whatever crosses the client
  finds the sequence it expects; `CancelInv`, no frame, event or flag of a
  cancellation exists before the client announces it, and one that carries 0 was
  announced before the handshake was read; `ArtifactInv`, a result decoded, sent
  or handed out has its artifact and a clean-up sent or confirmed has none.
  `ReceiveCases`, `CooperateCases` and `ServeCases` say first what those three
  steps do to an honest pipe: none of the branches that report a violation.
* `Processes_proofs`, `AcquisitionPromiseKept`: `AcqSpec => []AcquisitionKeepsWord`,
  under `AcquisitionAssumption` (natural bounds, and computations that differ).
  `AcqInv`: `AttemptInv`, where an attempt and a start may be; `SnapshotInv`, both
  tables of Jobs agree with the Library, and as long as a Snapshot may still
  disappear its Job is running in both, so that the recovery and not the table
  decides; `WorkspaceInv`; `AcqGateInv`, an attempt past its first wait holds the
  gate, and a process that may outlive it has poisoned the Jobs and closes the
  gate when it is left, so no later attempt starts beside it; `CloseInv`;
  `OfflineInv`, which follows the abort into a start that is being written.
* `Processes_proofs`, `ExtractorPromiseKept`: `AcqSessionSpec =>
  []ExtractorKeepsWord`, under `SessionAssumption`.  `SessionInv`: `ExchangeInv`,
  an exchange that goes on beside the clean-up knows that it is aborted, and a
  broker that closes takes nothing more on; `CountInv`, the request or redirection
  that exceeds a limit is the last that is counted.
* `Processes_proofs`, `ProcessesTypes`: `MCSpec => []MCTypeOK` for run
  `processes`, under the assumptions of the four parts.  The types rest on what the
  parts keep: `GateTypes`, the gate and its queue hold only those who may enter
  it, for alignment and for acquisition alike (`GateStep`, from `GateMoves`);
  `CountsInv`, a marker or workspace bears the number of a run that began;
  `StreamsInv`, a body bears the number of the message that asked for it.

### Met while modelling the small parts, without a run

* A cancellation that the sidecar reads before its handshake was read carries
  sequence 0 and is refused; the abort signal also ends the process at once, so
  that the cooperative cancellation of
  `docs/development/main-sidecar-lifecycle.md` often ends as an EOF.
* A failed write leaves an alignment Job running until the next start
  (`alignment-jobs.ts:487`); `QueuedIsScheduled` exempts it (`unwritten`).  A
  preparation that fails leaves its marker (`alignment-worker.ts:89`).
* A succeeded Acquisition Job never expires (`acquisition-jobs.ts:303`).
* The cancellation of an install during its verification is lost; a retry after
  a failed sync reports the pack installed without a sync of its own.
* A crash between the journal of an export and its staged file leaves the
  journal pending; after a relocation no journal matches the Library any more.
* "Retrying one archive therefore converges"
  (`docs/development/portable-project-archive.md:74`) does not hold when the
  Source has gained a Snapshot or an Export Receipt, nor after a Project went to
  the Trash and came back; `everTrashed` exempts the latter.
* A clean-up that was interrupted leaves a claim that refuses the next one when
  it lies in the external root; changes after the second inspection are seen
  only where the identity of the path changes.
* An update check that Offline Mode aborts ends as failed, not as cancelled
  (`manual-updates.ts:178`); a session that could not be emptied makes the
  player unavailable until a restart (`youtube-player.ts:193`).

## Not modelled

Payload and contract schemas, lyrics parsing, lead sheets and export formats:
pure functions of one value, without steps.  Key and tempo analysis, audio and
the numeric sidecar code.  The operating system's containment: its outcomes
(launched, ended, not confirmed) are choices in `SidecarSession`, `Alignment`
and `Acquisition`.  Build, release and packaged-proof tools, which only run the
application.  `project-recovery.ts` and the panels that only show.  Which
addresses and redirects the broker accepts, and what the inspection of an
archive, a WAV file or a model archive accepts: each is a choice between
accepted and refused.  The project index, which is rebuilt at every refresh and
read by nobody else.  In `AnalysisJobs`: progress, Checkpoints, `moveBefore` and
`pruneOperationalEvidence`.

## To come

A composition of `AnalysisJobs` with `SidecarSession` and `CpuWork` in the place of
its abstract runner.
