----------------------------- MODULE Acquisition -----------------------------
(***************************************************************************)
(* Acquisition Jobs (acquisition-jobs.ts): one download and validation at  *)
(* a time in contained workspaces, the durable catalog of Jobs, the        *)
(* publication of a Source Snapshot (acquired-snapshots.ts), the offline   *)
(* switch (network-mode.ts) and the recovery at the next start.  The       *)
(* attempt holds the gate of CpuWork while a native process may run.       *)
(*                                                                         *)
(* A process that the application started does not outlive it (external:   *)
(* the containment helper follows its parent).                             *)
(***************************************************************************)
EXTENDS CpuWork, FiniteSets

CONSTANTS
    Acquiring, Other,   \* the computations at the gate
    MaxJobs,                \* Jobs ever made
    MaxHistory,             \* Jobs the catalog holds: 1000 in the code
    MaxFaults,              \* operations that fail
    MaxCrashes

AcquisitionAssumption ==
    /\ {MaxJobs, MaxHistory, MaxFaults, MaxCrashes} \subseteq Nat
    /\ NoWork # Acquiring /\ NoWork # Other /\ Acquiring # Other

VARIABLES
    app,            \* "down", "up", or "unavailable": up without acquisition
    catalog,        \* state.json
    journals,       \* the workspace records on disk
    workspaces,     \* the native workspaces of each Job
    snapshots,      \* the Jobs whose Snapshot is in source-snapshots
    offline,        \* network-mode.json and its copy in memory
    jobs,           \* #jobs
    poisoned,
    acqClosed,         \* "no", "asked", "handed", "settled"
    starting,       \* "none", "asked", "recording"
    startAborted,   \* the controller in #starting
    decided,        \* the state that the Job being recorded will have
    step,           \* where #run is; "none" without an attempt
    acqJob,            \* the Job of #run
    aborted,        \* its signal
    acqRunning,        \* its native process may run
    unsafe,         \* domainUnsafe
    cleaned, result, acqFailure,
    made, acqFaults, acqCrashes

diskVars == <<catalog, journals, workspaces, snapshots, offline>>
startVars == <<starting, startAborted, decided>>
runVars == <<step, acqJob, aborted, acqRunning, unsafe, cleaned, result, acqFailure>>
acqBounds == <<made, acqFaults, acqCrashes>>
acqVars == <<app, diskVars, jobs, poisoned, acqClosed, startVars, runVars, acqBounds, cpuVars>>

Ids == 1..MaxJobs
JobStates == {"none", "blocked", "running", "succeeded", "failed", "cancelled"}
Natives == {"extractor", "decoder"}
Retained(t) == {j \in Ids : t[j] # "none"}
Forgettable(t) == {j \in Ids : t[j] \in {"blocked", "failed", "cancelled"}}
Fault == acqFaults < MaxFaults /\ acqFaults' = acqFaults + 1
NoFault == UNCHANGED acqFaults
Up == app = "up"

\* The tail of #serialize is free: a start keeps it until its Job is written.
Free == starting # "recording"

\* #persist: a temporary record, its rename, the directory's sync.  A failure
\* may come before or after the rename; memory follows success alone.
Persisted(t) == catalog' = t /\ jobs' = t /\ NoFault
NotPersisted(t) == catalog' \in {catalog, t} /\ UNCHANGED jobs /\ Fault

AcqInit ==
    /\ app = "down" /\ catalog = [j \in Ids |-> "none"] /\ journals = {}
    /\ workspaces = [j \in Ids |-> {}] /\ snapshots = {} /\ offline \in BOOLEAN
    /\ jobs = [j \in Ids |-> "none"] /\ poisoned = FALSE /\ acqClosed = "no"
    /\ starting = "none" /\ startAborted = FALSE /\ decided = "none"
    /\ step = "none" /\ acqJob = 0 /\ aborted = FALSE /\ acqRunning = FALSE /\ unsafe = FALSE
    /\ cleaned = FALSE /\ result = FALSE /\ acqFailure = "none"
    /\ made = 0 /\ acqFaults = 0 /\ acqCrashes = 0 /\ CpuInit

(***************************************************************************)
(* Opening.                                                                *)
(***************************************************************************)
\* recover: a Job left running has succeeded if its Snapshot is published.
Recovered(t) ==
    [j \in Ids |-> IF t[j] = "running"
                   THEN (IF j \in snapshots THEN "succeeded" ELSE "failed")
                   ELSE t[j]]

\* recoverAcquisitionWorkspaces, then the catalog.  A workspace that cannot be
\* removed closes the gate; a catalog that cannot be written does not.
OpenJobs ==
    /\ app = "down"
    /\ poisoned' = FALSE /\ acqClosed' = "no"
    /\ \/ \E kept \in SUBSET journals :
            /\ kept # {} /\ Fault
            /\ journals' = kept
            /\ workspaces' = [j \in Ids |-> IF j \in journals \ kept THEN {} ELSE workspaces[j]]
            /\ app' = "unavailable" /\ cpuBlocked' = TRUE
            /\ UNCHANGED <<cpuActive, cpuWaiting, catalog, jobs>>
       \/ /\ journals' = {}
          /\ workspaces' = [j \in Ids |-> IF j \in journals THEN {} ELSE workspaces[j]]
          /\ \/ Persisted(Recovered(catalog)) /\ app' = "up"
             \/ NotPersisted(Recovered(catalog)) /\ app' = "unavailable"
          /\ UNCHANGED cpuVars
    /\ UNCHANGED <<snapshots, offline, startVars, runVars, made, acqCrashes>>

\* Everything in memory goes; the rename of a Snapshot that has not been
\* synced may go with it.
Crash ==
    /\ app # "down" /\ (acqCrashes < MaxCrashes \/ acqClosed = "settled")
    /\ acqCrashes' = IF acqClosed = "settled" THEN acqCrashes ELSE acqCrashes + 1
    /\ app' = "down" /\ jobs' = [j \in Ids |-> "none"] /\ poisoned' = FALSE /\ acqClosed' = "no"
    /\ starting' = "none" /\ startAborted' = FALSE /\ decided' = "none"
    /\ snapshots' \in {snapshots} \cup (IF ~result THEN {snapshots \ {acqJob}} ELSE {})
    /\ step' = "none" /\ acqJob' = 0 /\ aborted' = FALSE /\ acqRunning' = FALSE /\ unsafe' = FALSE
    /\ cleaned' = FALSE /\ result' = FALSE /\ acqFailure' = "none"
    /\ cpuActive' = NoWork /\ cpuWaiting' = <<>> /\ cpuBlocked' = FALSE
    /\ UNCHANGED <<catalog, journals, workspaces, offline, made, acqFaults>>

(***************************************************************************)
(* Requests.                                                               *)
(***************************************************************************)
Ask ==
    /\ Up /\ acqClosed = "no" /\ starting = "none" /\ made < MaxJobs
    /\ starting' = "asked" /\ startAborted' = FALSE
    /\ UNCHANGED <<app, diskVars, jobs, poisoned, acqClosed, decided, runVars, acqBounds, cpuVars>>

\* The serialized operation of start, up to its write: it refuses, or decides
\* whether the Job runs or is blocked.  The runtime may be missing.
Decide ==
    /\ Up /\ starting = "asked"
    /\ IF acqClosed # "no" \/ step # "none" \/ Cardinality(Retained(jobs)) >= MaxHistory
       THEN starting' = "none" /\ UNCHANGED <<decided, made>>
       ELSE /\ starting' = "recording" /\ made' = made + 1
            /\ decided' \in IF poisoned \/ offline THEN {"blocked"} ELSE {"blocked", "running"}
    /\ UNCHANGED <<app, diskVars, jobs, poisoned, acqClosed, startAborted, runVars, acqFaults, acqCrashes, cpuVars>>

Record ==
    /\ Up /\ starting = "recording"
    /\ LET t == [jobs EXCEPT ![made] = decided] IN
        \/ /\ Persisted(t)
           /\ IF decided = "running"
              THEN /\ step' = "entering" /\ acqJob' = made /\ aborted' = startAborted
                   /\ acqRunning' = FALSE /\ unsafe' = FALSE /\ cleaned' = FALSE
                   /\ result' = FALSE /\ acqFailure' = "none"
              ELSE UNCHANGED runVars
        \/ NotPersisted(t) /\ UNCHANGED runVars
    /\ starting' = "none" /\ startAborted' = FALSE /\ decided' = "none"
    /\ UNCHANGED <<app, journals, workspaces, snapshots, offline, poisoned, acqClosed, made, acqCrashes, cpuVars>>

Active == step # "none"

CancelJob ==
    /\ Up /\ Active /\ ~aborted /\ aborted' = TRUE
    /\ UNCHANGED <<app, diskVars, jobs, poisoned, acqClosed, startVars, step, acqJob, acqRunning, unsafe, cleaned, result, acqFailure, acqBounds, cpuVars>>

\* setOffline: the switch follows the visible file, and its listener aborts
\* the starts and the attempt.
SetOffline ==
    /\ app # "down" /\ acqClosed = "no"
    /\ offline' = ~offline
    /\ startAborted' = (startAborted \/ (Up /\ offline' /\ starting # "none"))
    /\ aborted' = (aborted \/ (Up /\ offline' /\ Active))
    /\ UNCHANGED <<app, catalog, journals, workspaces, snapshots, jobs, poisoned, acqClosed, starting, decided, step, acqJob, acqRunning, unsafe, cleaned, result, acqFailure, acqBounds, cpuVars>>

\* #expire and clearHistory: an expiry that cannot be written poisons.
Forget ==
    /\ Up /\ acqClosed # "settled" /\ Free
    /\ \E gone \in (SUBSET Forgettable(jobs)) \ {{}} :
        LET t == [j \in Ids |-> IF j \in gone THEN "none" ELSE jobs[j]] IN
        \/ Persisted(t) /\ UNCHANGED poisoned
        \/ NotPersisted(t) /\ poisoned' \in {poisoned, TRUE}
    /\ UNCHANGED <<app, journals, workspaces, snapshots, offline, acqClosed, startVars, runVars, made, acqCrashes, cpuVars>>

(***************************************************************************)
(* close: it lets a start that is being written hand over its attempt      *)
(* before it waits for the attempts.                                       *)
(***************************************************************************)
Close ==
    /\ Up /\ acqClosed = "no" /\ acqClosed' = "asked"
    /\ startAborted' = (starting # "none") /\ aborted' = (aborted \/ Active)
    /\ UNCHANGED <<app, diskVars, jobs, poisoned, starting, decided, step, acqJob, acqRunning, unsafe, cleaned, result, acqFailure, acqBounds, cpuVars>>

CloseHanded ==
    /\ acqClosed = "asked" /\ starting = "none"
    /\ acqClosed' = "handed" /\ aborted' = (aborted \/ Active)
    /\ UNCHANGED <<app, diskVars, jobs, poisoned, startVars, step, acqJob, acqRunning, unsafe, cleaned, result, acqFailure, acqBounds, cpuVars>>

CloseSettled ==
    /\ acqClosed = "handed" /\ ~Active /\ Free
    /\ acqClosed' = "settled"
    /\ UNCHANGED <<app, diskVars, jobs, poisoned, startVars, runVars, acqBounds, cpuVars>>

(***************************************************************************)
(* #run.                                                                   *)
(***************************************************************************)
RunUnchanged == UNCHANGED <<app, offline, acqClosed, startVars, acqJob, aborted, made, acqCrashes>>

\* What becomes of the failure of a step: the code it carries, unless the
\* signal is aborted; a cleanup failure always wins.
Failed(kind) == IF kind = "cleanup_failure" THEN kind ELSE IF aborted THEN "cancelled" ELSE kind

\* The catch block inside the gate: nothing else may run beside a process
\* that was not confirmed to have stopped.
Throw(kind) ==
    /\ step' = "failing" /\ acqFailure' = Failed(kind)
    /\ unsafe' = (kind = "cleanup_failure")
    /\ poisoned' = (poisoned \/ kind = "cleanup_failure")

AttemptEnters ==
    /\ step = "entering"
    /\ \/ /\ Refused \/ aborted
          /\ step' = "ending" /\ acqFailure' = Failed("invalid_output") /\ UNCHANGED cpuVars
       \/ ~aborted /\ Enter(Acquiring) /\ step' = "waiting" /\ UNCHANGED acqFailure
    /\ RunUnchanged
    /\ UNCHANGED <<catalog, journals, workspaces, snapshots, jobs, poisoned, acqRunning, unsafe, cleaned, result, acqFaults>>

AttemptLeavesQueue ==
    /\ step = "waiting" /\ cpuActive # Acquiring
    /\ \/ aborted /\ Abandon(Acquiring)
       \/ ~Waits(Acquiring) /\ UNCHANGED cpuVars
    /\ step' = "ending" /\ acqFailure' = Failed("invalid_output")
    /\ RunUnchanged
    /\ UNCHANGED <<catalog, journals, workspaces, snapshots, jobs, poisoned, acqRunning, unsafe, cleaned, result, acqFaults>>

\* The workspaces' record is on disk before there is a workspace.
WriteJournal ==
    /\ step = "waiting" /\ cpuActive = Acquiring
    /\ \/ /\ ~aborted /\ NoFault /\ journals' = journals \cup {acqJob} /\ step' = "extracting"
          /\ UNCHANGED <<acqFailure, unsafe, poisoned>>
       \/ ~aborted /\ Fault /\ journals' \in {journals, journals \cup {acqJob}} /\ Throw("invalid_output")
       \/ aborted /\ NoFault /\ journals' \in {journals, journals \cup {acqJob}} /\ Throw("cancelled")
    /\ RunUnchanged
    /\ UNCHANGED <<catalog, workspaces, snapshots, jobs, acqRunning, cleaned, result, cpuVars>>

\* A workspace is prepared and its process started; the process may outlive
\* the session that could not stop it.
Begin(native, from, to) ==
    /\ step = from /\ ~acqRunning
    /\ workspaces' = [workspaces EXCEPT ![acqJob] = @ \cup {native}]
    /\ acqRunning' = TRUE /\ step' = to
    /\ RunUnchanged
    /\ UNCHANGED <<catalog, journals, snapshots, jobs, poisoned, unsafe, cleaned, result, acqFailure, acqFaults, cpuVars>>

\* The session ends: with an artifact and the stage it allows, with a failure,
\* or unable to confirm that its process is gone.
End(from, to) ==
    /\ step = from /\ acqRunning
    /\ \/ /\ ~aborted /\ acqRunning' = FALSE /\ step' = to /\ Persisted(jobs)
          /\ UNCHANGED <<acqFailure, unsafe, poisoned>>
       \/ ~aborted /\ acqRunning' = FALSE /\ NotPersisted(jobs) /\ Throw("invalid_output")
       \/ acqRunning' = FALSE /\ Throw("worker_failed") /\ NoFault /\ UNCHANGED <<catalog, jobs>>
       \/ /\ acqRunning' \in BOOLEAN /\ Throw("cleanup_failure") /\ Fault /\ UNCHANGED <<catalog, jobs>>
    /\ RunUnchanged
    /\ UNCHANGED <<journals, workspaces, snapshots, cleaned, result, cpuVars>>

BeginExtractor == Free /\ Begin("extractor", "extracting", "acquiring")
EndExtractor == Free /\ End("acquiring", "decoding")
BeginDecoder == Begin("decoder", "decoding", "validating")
EndDecoder == Free /\ End("validating", "publishing")

\* cleanup: the workspaces first, then their record.
Cleanup(ok) ==
    IF ok
    THEN /\ workspaces' = [workspaces EXCEPT ![acqJob] = {}]
         /\ journals' = journals \ {acqJob} /\ cleaned' = TRUE /\ NoFault
    ELSE /\ ~unsafe => Fault
         /\ unsafe => NoFault
         /\ \E kept \in SUBSET workspaces[acqJob] :
              /\ unsafe => kept = workspaces[acqJob]
              /\ workspaces' = [workspaces EXCEPT ![acqJob] = kept]
              /\ journals' \in {journals} \cup (IF kept = {} THEN {journals \ {acqJob}} ELSE {})
         /\ UNCHANGED cleaned

\* publishAcquiredSnapshot: a staged copy, then the clean-up of everything
\* native, then the rename.
Publish ==
    /\ step = "publishing"
    /\ \/ Cleanup(TRUE) /\ ~aborted /\ step' = "syncing" /\ snapshots' = snapshots \cup {acqJob}
            /\ UNCHANGED <<acqFailure, unsafe, poisoned>>
       \/ Cleanup(TRUE) /\ aborted /\ Throw("cancelled") /\ UNCHANGED snapshots
       \/ Cleanup(FALSE) /\ Throw("cleanup_failure") /\ UNCHANGED snapshots
       \/ /\ Fault /\ Throw("invalid_output")
          /\ UNCHANGED <<workspaces, journals, cleaned, snapshots>>
    /\ RunUnchanged
    /\ UNCHANGED <<catalog, jobs, acqRunning, result, cpuVars>>

\* The sync, or the way back; when that fails too nobody knows.
SyncPublished ==
    /\ step = "syncing"
    /\ \/ /\ step' = "ending" /\ result' = TRUE /\ NoFault /\ Leave(Acquiring)
          /\ UNCHANGED <<acqFailure, unsafe, poisoned, snapshots>>
       \/ /\ Fault /\ snapshots' = snapshots \ {acqJob} /\ Throw("invalid_output")
          /\ UNCHANGED <<result, cpuVars>>
       \/ /\ Fault /\ snapshots' \in {snapshots, snapshots \ {acqJob}}
          /\ step' = "uncertain" /\ poisoned' = TRUE
          /\ UNCHANGED <<acqFailure, unsafe, result, cpuVars>>
    /\ RunUnchanged
    /\ UNCHANGED <<catalog, journals, workspaces, jobs, acqRunning, cleaned>>

\* An uncertain publication leaves the Job running for the next start.
Uncertain ==
    /\ step = "uncertain" /\ step' = "none"
    /\ LeaveUnclean(Acquiring)
    /\ RunUnchanged
    /\ UNCHANGED <<catalog, journals, workspaces, snapshots, jobs, poisoned, acqRunning, unsafe, cleaned, result, acqFailure, acqFaults>>

\* Mutant: a clean-up that fails lets the next computation in.
CleanFailedOpen ==
    /\ step = "failing" /\ step' = "ending"
    /\ \/ cleaned /\ NoFault /\ UNCHANGED <<workspaces, journals, cleaned, poisoned, acqFailure>>
       \/ ~unsafe /\ ~cleaned /\ Cleanup(TRUE) /\ UNCHANGED <<poisoned, acqFailure>>
       \/ ~cleaned /\ Cleanup(FALSE) /\ poisoned' = TRUE /\ acqFailure' = "cleanup_failure"
    /\ Leave(Acquiring)
    /\ RunUnchanged
    /\ UNCHANGED <<catalog, snapshots, jobs, acqRunning, unsafe, result>>

CleanFailed ==
    /\ step = "failing" /\ step' = "ending"
    /\ \/ cleaned /\ ~unsafe /\ Leave(Acquiring) /\ NoFault
            /\ UNCHANGED <<workspaces, journals, cleaned, poisoned, acqFailure>>
       \/ ~unsafe /\ ~cleaned /\ Cleanup(TRUE) /\ Leave(Acquiring) /\ UNCHANGED <<poisoned, acqFailure>>
       \/ /\ ~cleaned /\ Cleanup(FALSE) /\ LeaveUnclean(Acquiring)
          /\ poisoned' = TRUE /\ acqFailure' = "cleanup_failure"
    /\ RunUnchanged
    /\ UNCHANGED <<catalog, snapshots, jobs, acqRunning, unsafe, result>>

\* The last clean-up (an attempt that was cleaned has none) and the Job's end.
\* When the end cannot be written the Job stays running, for the next start.
Terminal ==
    IF result THEN "succeeded" ELSE IF acqFailure = "cancelled" THEN "cancelled" ELSE "failed"

Finish ==
    /\ step = "ending" /\ Free
    /\ LET t == [jobs EXCEPT ![acqJob] = Terminal] IN
        \/ Persisted(t) /\ UNCHANGED poisoned
        \/ NotPersisted(t) /\ poisoned' = TRUE
    /\ step' = "none"
    /\ \/ /\ cleaned \/ unsafe \/ acqFailure = "cleanup_failure"
          /\ UNCHANGED <<workspaces, journals, cleaned>>
       \/ /\ workspaces' = [workspaces EXCEPT ![acqJob] = {}]
          /\ journals' = journals \ {acqJob} /\ cleaned' = TRUE
    /\ RunUnchanged
    /\ UNCHANGED <<snapshots, acqRunning, unsafe, result, acqFailure, cpuVars>>

Attempt == AttemptEnters \/ AttemptLeavesQueue \/ WriteJournal \/ BeginExtractor \/ EndExtractor
       \/ BeginDecoder \/ EndDecoder \/ Publish \/ SyncPublished \/ Uncertain
       \/ CleanFailed \/ Finish

\* Analysis and alignment, at the same gate; theirs may fail to stop too.
OthersEnter ==
    /\ app # "down" /\ cpuActive # Other /\ ~Waits(Other) /\ Enter(Other)
    /\ UNCHANGED <<app, diskVars, jobs, poisoned, acqClosed, startVars, runVars, acqBounds>>
OthersLeave ==
    /\ Leave(Other) \/ LeaveUnclean(Other)
    /\ UNCHANGED <<app, diskVars, jobs, poisoned, acqClosed, startVars, runVars, acqBounds>>

AcqNext == OpenJobs \/ Crash \/ Ask \/ Decide \/ Record \/ CancelJob \/ SetOffline \/ Forget
           \/ Close \/ CloseHanded \/ CloseSettled \/ Attempt \/ OthersEnter \/ OthersLeave
AcqSpec == AcqInit /\ [][AcqNext]_acqVars

-----------------------------------------------------------------------------
AcqTypeOK ==
    /\ app \in {"down", "up", "unavailable"} /\ acqClosed \in {"no", "asked", "handed", "settled"}
    /\ catalog \in [Ids -> JobStates] /\ jobs \in [Ids -> JobStates]
    /\ journals \subseteq Ids /\ snapshots \subseteq Ids
    /\ workspaces \in [Ids -> SUBSET Natives]
    /\ cpuActive \in {NoWork, Acquiring, Other}

\* What a Job says of its end is what the Library holds: a Job that succeeded
\* has its Snapshot, one that failed or was cancelled has none.
JobAgreesWithSnapshot ==
    \A j \in Ids : /\ catalog[j] = "succeeded" => j \in snapshots
                   /\ catalog[j] \in {"failed", "cancelled", "blocked"} => j \notin snapshots

\* A native workspace is on record, or is the running attempt's; and no other
\* computation runs beside a process that may still be there.
DomainIsWatched ==
    /\ \A j \in Ids : workspaces[j] # {} => j \in journals
    /\ acqRunning => cpuActive = Acquiring \/ cpuBlocked

\* close settles when nothing is left that could act.
ClosedIsQuiet == acqClosed = "settled" => step = "none" /\ starting = "none"

\* Once the application is offline, no attempt goes on uncancelled, not even
\* one whose start was being written.
OfflineAborts ==
    /\ offline /\ Active => aborted
    /\ offline /\ Up /\ starting = "recording" /\ decided = "running" => startAborted

\* What an Acquisition Job says of its end is what the Library holds; its
\* workspaces are on record; close leaves nothing that acts; and Offline Mode
\* reaches an attempt even while its start is being written.
AcquisitionKeepsWord == JobAgreesWithSnapshot /\ DomainIsWatched /\ ClosedIsQuiet /\ OfflineAborts
=============================================================================
