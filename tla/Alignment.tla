----------------------------- MODULE Alignment -----------------------------
(***************************************************************************)
(* Lyrics alignment: the Job list of alignment-jobs.ts, the scheduler of   *)
(* alignment-service.ts and the contained worker of alignment-worker.ts,   *)
(* behind the gate of CpuWork.  A Job is named by its recipe.              *)
(***************************************************************************)
EXTENDS CpuWork, FiniteSets

CONSTANTS
    Recipes,        \* what may be aligned: one Job each
    Callers,        \* actions of the renderer in flight at once
    OtherWork,      \* analysis and acquisition, which share the gate
    NoRecipe,
    CircuitLimit,   \* worker failures that open the circuit (3 in the code)
    MaxRuns,
    MaxEvents       \* sleeps, ends of the application and failed writes, together

AlignmentAssumption ==
    /\ IsFiniteSet(Recipes) /\ IsFiniteSet(Callers)
    /\ NoWork \notin Recipes \cup OtherWork
    /\ Recipes \cap OtherWork = {} /\ NoRecipe \notin Recipes
    /\ {CircuitLimit, MaxRuns, MaxEvents} \subseteq Nat

VARIABLES
    job,            \* state of the Job of each recipe, as persisted
    circuit,        \* the recipes whose Job has circuitOpen
    control,        \* controllers: "none", "live" or "aborted"
    failures,       \* workerFailures, of this application run
    line,           \* operations on the mutation tail, the first under way
    publishing,     \* the first operation has published and not persisted
    pending,        \* Jobs that wait for the service to run them
    running,        \* the Job the service runs, or NoRecipe
    suspended, closed,
    call,           \* the renderer's actions
    phase,          \* where jobs.run is
    failure,        \* why it fails, once it does
    process,        \* a contained process lives
    reaped,         \* the worker has seen it stop, or never launched it
    marker, space,  \* journal markers and workspaces on disk, by run number
    runs, events,
    unwritten,      \* a write has failed in this application run
    results         \* alignments in the Project

jobVars == <<job, circuit, control, failures, line, publishing>>
serviceVars == <<pending, running, suspended, closed, call>>
workerVars == <<phase, failure, process, reaped, marker, space>>
boundVars == <<runs, events, unwritten>>
vars == <<jobVars, serviceVars, workerVars, boundVars, results, cpuVars>>

States == {"none", "blocked", "queued", "running", "succeeded", "retryable",
           "cancelled", "awaiting_confirmation"}
Failures == {"none", "integrity", "worker", "storage", "cleanup"}
NoCall == [phase |-> "none", of |-> NoRecipe]
Op(kind, k) == [kind |-> kind, of |-> k]

Init ==
    /\ job = [k \in Recipes |-> "none"]
    /\ control = [k \in Recipes |-> "none"]
    /\ circuit = {} /\ failures = 0 /\ line = <<>> /\ publishing = FALSE
    /\ pending = <<>> /\ running = NoRecipe /\ suspended = FALSE /\ closed = FALSE
    /\ call = [c \in Callers |-> NoCall]
    /\ phase = "none" /\ failure = "none" /\ process = FALSE /\ reaped = TRUE
    /\ marker = {} /\ space = {} /\ results = {}
    /\ runs = 0 /\ events = 0 /\ unwritten = FALSE
    /\ CpuInit

IsPending(k) == \E i \in DOMAIN pending : pending[i] = k
\* pending is a set in its order of insertion: it has k at most once.
Without(s, k) ==
    IF \E i \in DOMAIN s : s[i] = k
    THEN LET n == CHOOSE i \in DOMAIN s : s[i] = k
         IN  [i \in 1 .. Len(s) - 1 |-> IF i < n THEN s[i] ELSE s[i + 1]]
    ELSE s
Queue(ops) == line' = line \o ops

(***************************************************************************)
(* The service: pump starts the first pending Job when none runs.          *)
(***************************************************************************)
MayPump(p) == p # <<>> /\ running = NoRecipe /\ ~closed /\ ~suspended /\ runs < MaxRuns

PumpWith(p) ==
    IF MayPump(p)
    THEN /\ pending' = Tail(p) /\ running' = Head(p)
         /\ phase' = "starting" /\ runs' = runs + 1
         /\ Queue(<<Op("run", Head(p))>>)
    ELSE pending' = p /\ UNCHANGED <<running, phase, runs, line>>

\* perform: the checks at its start, before it awaits the Project.
Call(c) ==
    /\ call[c].phase = "none" /\ ~suspended /\ ~closed
    /\ \E k \in Recipes :
        \/ call' = [call EXCEPT ![c] = [phase |-> "start", of |-> k]]
        \/ job[k] # "none" /\ call' = [call EXCEPT ![c] = [phase |-> "chosen", of |-> k]]
        \/ job[k] # "none" /\ call' = [call EXCEPT ![c] = [phase |-> "chosenToCancel", of |-> k]]
    /\ UNCHANGED <<jobVars, pending, running, suspended, closed, workerVars, boundVars, results, cpuVars>>

\* The Project was read: request the Job, or fail (stale, missing, read-only).
AskForJob(c) ==
    /\ call[c].phase = "start"
    /\ \/ call' = [call EXCEPT ![c] = NoCall] /\ UNCHANGED line
       \/ call' = [call EXCEPT ![c].phase = "request"] /\ Queue(<<Op("request", call[c].of)>>)
    /\ UNCHANGED <<job, circuit, control, failures, publishing, pending, running, suspended, closed, workerVars, boundVars, results, cpuVars>>

\* After a request that may be confirmed, and in a retry: unless scheduled.
AskToConfirm(c) ==
    LET k == call[c].of IN
    /\ call[c].phase = "chosen"
    /\ IF running = k \/ IsPending(k)
       THEN call' = [call EXCEPT ![c] = NoCall] /\ UNCHANGED line
       ELSE call' = [call EXCEPT ![c].phase = "confirm"] /\ Queue(<<Op("confirm", k)>>)
    /\ UNCHANGED <<job, circuit, control, failures, publishing, pending, running, suspended, closed, workerVars, boundVars, results, cpuVars>>

\* launch, in the continuation of a confirmation that returned "queued".
Launch(c) ==
    LET k == call[c].of IN
    /\ call[c].phase = "confirmed"
    /\ call' = [call EXCEPT ![c] = NoCall]
    /\ IF running = k \/ IsPending(k)
       THEN UNCHANGED <<pending, running, phase, runs, line>>
       ELSE PumpWith(Append(pending, k))
    /\ UNCHANGED <<job, circuit, control, failures, publishing, suspended, closed, failure, process, reaped, marker, space, events, unwritten, results, cpuVars>>

AskToCancel(c) ==
    /\ call[c].phase = "chosenToCancel"
    /\ call' = [call EXCEPT ![c].phase = "cancel"]
    /\ pending' = Without(pending, call[c].of)
    /\ Queue(<<Op("cancel", call[c].of)>>)
    /\ UNCHANGED <<job, circuit, control, failures, publishing, running, suspended, closed, workerVars, boundVars, results, cpuVars>>

\* Mutant: what was queued is dropped and not interrupted.
SuspendQuietly ==
    /\ ~closed
    /\ suspended \/ events < MaxEvents
    /\ suspended' = ~suspended
    /\ events' = IF suspended THEN events ELSE events + 1
    /\ pending' = <<>>
    /\ UNCHANGED <<jobVars, running, closed, call, workerVars, runs, unwritten, results, cpuVars>>

\* The system sleeps or wakes: either way what is queued is interrupted.
SetSuspended ==
    /\ ~closed
    /\ suspended \/ events < MaxEvents
    /\ suspended' = ~suspended
    /\ events' = IF suspended THEN events ELSE events + 1
    /\ pending' = <<>>
    /\ Queue(<<Op("interrupt", NoRecipe)>>)
    /\ UNCHANGED <<job, circuit, control, failures, publishing, running, closed, call, workerVars, runs, unwritten, results, cpuVars>>

Dispose ==
    /\ ~closed /\ events < MaxEvents
    /\ closed' = TRUE /\ events' = events + 1
    /\ pending' = <<>>
    /\ Queue(<<Op("interrupt", NoRecipe)>>)
    /\ UNCHANGED <<job, circuit, control, failures, publishing, running, suspended, call, workerVars, runs, unwritten, results, cpuVars>>

(***************************************************************************)
(* The mutation tail.  An operation awaits only reads and its own write,   *)
(* so it is one step, except the one that publishes.                       *)
(***************************************************************************)
\* The continuations of a run that ended precede the next operation's I/O.
First(kind, k) == line # <<>> /\ Head(line) = Op(kind, k) /\ phase # "ended"

\* blockedReasons: an open circuit, or a pack that is (still) missing.
Reasons == {circuit # {}} \cup {TRUE}
ConfirmedAs(reasons) == IF reasons THEN "blocked" ELSE "queued"

\* The caller whose operation is first in line goes on, or ends.
Answered(kind, k, next) ==
    \E c \in Callers :
        /\ call[c] = [phase |-> kind, of |-> k]
        /\ call' = [call EXCEPT ![c] = IF next = "none" THEN NoCall ELSE [phase |-> next, of |-> k]]

DoRequest(k) ==
    /\ First("request", k) /\ line' = Tail(line)
    /\ IF job[k] # "none"
       THEN UNCHANGED job
       ELSE \E reasons \in Reasons : job' = [job EXCEPT ![k] = ConfirmedAs(reasons)]
    /\ Answered("request", k, IF job'[k] \in {"succeeded", "running"} THEN "none" ELSE "chosen")
    /\ UNCHANGED <<circuit, control, failures, publishing, pending, running, suspended, closed, workerVars, boundVars, results, cpuVars>>

DoConfirm(k) ==
    /\ First("confirm", k) /\ line' = Tail(line)
    /\ IF control[k] # "none" \/ job[k] \in {"running", "succeeded"}
       THEN Answered("confirm", k, "none") /\ UNCHANGED job
       ELSE \E reasons \in Reasons :
                /\ job' = [job EXCEPT ![k] = ConfirmedAs(reasons)]
                /\ Answered("confirm", k, IF reasons THEN "none" ELSE "confirmed")
    /\ UNCHANGED <<circuit, control, failures, publishing, pending, running, suspended, closed, workerVars, boundVars, results, cpuVars>>

Aborted(ks) == [k \in Recipes |-> IF k \in ks /\ control[k] = "live" THEN "aborted" ELSE control[k]]

DoCancel(k) ==
    /\ First("cancel", k) /\ line' = Tail(line)
    /\ IF job[k] = "succeeded"
       THEN UNCHANGED <<job, control>>
       ELSE job' = [job EXCEPT ![k] = "cancelled"] /\ control' = Aborted({k})
    /\ Answered("cancel", k, "none")
    /\ UNCHANGED <<circuit, failures, publishing, pending, running, suspended, closed, workerVars, boundVars, results, cpuVars>>

\* Mutant: an interruption is a state of its own.
InterruptedInName(s) == IF s \in {"running", "queued"} THEN "interrupted" ELSE s

InterruptedAs(s) ==
    CASE s = "running" -> "retryable" [] s = "queued" -> "awaiting_confirmation" [] OTHER -> s

DoInterrupt ==
    /\ First("interrupt", NoRecipe) /\ line' = Tail(line)
    /\ job' = [k \in Recipes |-> InterruptedAs(job[k])]
    /\ control' = Aborted(Recipes)
    /\ UNCHANGED <<circuit, failures, publishing, serviceVars, workerVars, boundVars, results, cpuVars>>

\* The first operation of jobs.run.  A result that a lost write left in the
\* Project completes the Job at once.
DoRun(k) ==
    /\ First("run", k) /\ line' = Tail(line)
    /\ IF job[k] # "queued" \/ \E j \in Recipes : control[j] # "none" \/ job[j] = "running"
       THEN phase' = "ended" /\ UNCHANGED <<job, control>>
       ELSE IF k \in results
       THEN job' = [job EXCEPT ![k] = "succeeded"] /\ phase' = "ended" /\ UNCHANGED control
       ELSE \E reasons \in Reasons :
            IF reasons
            THEN job' = [job EXCEPT ![k] = "blocked"] /\ phase' = "ended" /\ UNCHANGED control
            ELSE /\ job' = [job EXCEPT ![k] = "running"]
                 /\ control' = [control EXCEPT ![k] = "live"]
                 /\ phase' = "storage"
    /\ UNCHANGED <<circuit, failures, publishing, serviceVars, failure, process, reaped, marker, space, boundVars, results, cpuVars>>

(***************************************************************************)
(* The run: its inputs, the gate, the worker, the publication.             *)
(***************************************************************************)
Fail(kind) == phase' = "failed" /\ failure' = kind

\* The Project is read again; its document or revision may have changed.
EnterGate(k) ==
    /\ phase = "storage" /\ running = k
    /\ \/ Fail("storage") /\ UNCHANGED cpuVars
       \/ ~Refused /\ control[k] = "live" /\ phase' = "gate" /\ Enter(k) /\ UNCHANGED failure
       \/ Refused /\ Fail(IF cpuBlocked THEN "cleanup" ELSE "worker") /\ UNCHANGED cpuVars
       \/ ~Refused /\ control[k] = "aborted" /\ Fail("worker") /\ UNCHANGED cpuVars
    /\ UNCHANGED <<jobVars, serviceVars, process, reaped, marker, space, boundVars, results>>

\* Mutant: a gate that closes forgets those that wait.
LeaveQueueAborted(k) ==
    /\ phase = "gate" /\ running = k /\ cpuActive # k
    /\ Waits(k) /\ control[k] = "aborted" /\ Abandon(k) /\ Fail("worker")
    /\ UNCHANGED <<jobVars, serviceVars, process, reaped, marker, space, boundVars, results>>

\* While it waits: aborted, or rejected because the gate was closed.
LeaveQueue(k) ==
    /\ phase = "gate" /\ running = k /\ cpuActive # k
    /\ \/ Waits(k) /\ control[k] = "aborted" /\ Abandon(k) /\ Fail("worker")
       \/ ~Waits(k) /\ Fail("cleanup") /\ UNCHANGED cpuVars
    /\ UNCHANGED <<jobVars, serviceVars, process, reaped, marker, space, boundVars, results>>

\* Everything before the workspace: a failure leaves at most a marker.
Verify(k) ==
    /\ phase = "gate" /\ running = k /\ cpuActive = k
    /\ \/ /\ control[k] = "live"
          /\ phase' = "marked" /\ marker' = marker \cup {runs}
          /\ UNCHANGED <<failure, cpuVars>>
       \/ /\ \E kind \in (IF control[k] = "live" THEN {"integrity", "worker", "storage"} ELSE {"worker"}) :
                Fail(kind)
          /\ marker' \in {marker, marker \cup {runs}}
          /\ Leave(k)
    /\ UNCHANGED <<jobVars, serviceVars, process, reaped, space, boundVars, results>>

\* preparePackagedWorkspace runs outside the try block: its failure is not
\* cleaned up before the next start.
Prepare(k) ==
    /\ phase = "marked" /\ running = k
    /\ \/ phase' = "prepared" /\ space' = space \cup {runs} /\ UNCHANGED <<failure, cpuVars>>
       \/ Fail("worker") /\ space' \in {space, space \cup {runs}} /\ Leave(k)
    /\ UNCHANGED <<jobVars, serviceVars, process, reaped, marker, boundVars, results>>

ToTeardown(kind) == phase' = "teardown" /\ failure' = kind

\* Inputs are staged and the process launched.  A launch that throws leaves
\* "reaped" false, whether or not a process is there.
LaunchWorker(k) ==
    /\ phase = "prepared" /\ running = k
    /\ \/ /\ control[k] = "live"
          /\ phase' = "launched" /\ process' = TRUE /\ reaped' = FALSE /\ UNCHANGED failure
       \/ /\ control[k] = "live"
          /\ ToTeardown("integrity") /\ process' \in BOOLEAN /\ reaped' = FALSE
       \/ /\ \E kind \in {"worker", "integrity"} : ToTeardown(kind)
          /\ UNCHANGED <<process, reaped>>
    /\ UNCHANGED <<jobVars, serviceVars, marker, space, boundVars, results, cpuVars>>

\* The session ends and stops its process, or cannot confirm that it did.
Session(k) ==
    /\ phase = "launched" /\ running = k
    /\ \E kind \in {"worker", "integrity", "storage"} \cup (IF control[k] = "live" THEN {"none"} ELSE {}) :
            \/ ToTeardown(kind) /\ process' = FALSE /\ reaped' = TRUE
            \/ kind # "none" /\ ToTeardown(kind) /\ process' \in BOOLEAN /\ UNCHANGED reaped
    /\ UNCHANGED <<jobVars, serviceVars, marker, space, boundVars, results, cpuVars>>

\* cleanupAlignment: the workspace goes first, its marker last.
Teardown(k) ==
    /\ phase = "teardown" /\ running = k
    /\ \/ /\ reaped
          /\ space' = space \ {runs} /\ marker' = marker \ {runs}
          /\ phase' = IF failure = "none" THEN "validating" ELSE "failed"
          /\ UNCHANGED failure
          /\ Leave(k)
       \/ /\ Fail("cleanup") /\ LeaveUnclean(k)
          /\ space' \in {space} \cup (IF reaped THEN {space \ {runs}} ELSE {})
          /\ UNCHANGED marker
    /\ UNCHANGED <<jobVars, serviceVars, process, reaped, boundVars, results>>

Validate(k) ==
    /\ phase = "validating" /\ running = k
    /\ \/ \E kind \in {"storage", "integrity"} : Fail(kind) /\ UNCHANGED line
       \/ phase' = "inLine" /\ Queue(<<Op("publish", k)>>) /\ UNCHANGED failure
    /\ UNCHANGED <<job, circuit, control, failures, publishing, serviceVars, process, reaped, marker, space, boundVars, results, cpuVars>>

\* Mutant: the Job is not looked at again.
DoPublishAnyway(k) ==
    /\ First("publish", k) /\ ~publishing
    /\ results' = results \cup {k} /\ publishing' = TRUE
    /\ UNCHANGED <<line, phase, failure, job, circuit, control, failures, serviceVars, process, reaped, marker, space, boundVars, cpuVars>>

\* publishLyricsAlignment inside the operation; the Library may refuse.
DoPublish(k) ==
    /\ First("publish", k) /\ ~publishing
    /\ \/ /\ job[k] = "running" /\ control[k] = "live"
          /\ results' = results \cup {k} /\ publishing' = TRUE
          /\ UNCHANGED <<line, phase, failure>>
       \/ /\ line' = Tail(line) /\ Fail("storage")
          /\ UNCHANGED <<results, publishing>>
    /\ UNCHANGED <<job, circuit, control, failures, serviceVars, process, reaped, marker, space, boundVars, cpuVars>>

DoComplete(k) ==
    /\ First("publish", k) /\ publishing
    /\ line' = Tail(line) /\ publishing' = FALSE
    /\ job' = [job EXCEPT ![k] = "succeeded"]
    /\ phase' = "ended"
    /\ UNCHANGED <<circuit, control, failures, serviceVars, failure, process, reaped, marker, space, boundVars, results, cpuVars>>

\* The catch block.
Settle(k) ==
    /\ phase = "failed" /\ running = k
    /\ phase' = "settling" /\ Queue(<<Op("fail", k)>>)
    /\ UNCHANGED <<job, circuit, control, failures, publishing, serviceVars, failure, process, reaped, marker, space, boundVars, results, cpuVars>>

Counted == IF failure = "storage" \/ failures = CircuitLimit THEN failures ELSE failures + 1
OpensCircuit == failure # "storage" /\ (failure # "worker" \/ Counted >= CircuitLimit)

DoFail(k) ==
    /\ First("fail", k) /\ line' = Tail(line)
    /\ phase' = "ended"
    /\ IF job[k] # "running" /\ failure # "cleanup"
       THEN UNCHANGED <<job, circuit, failures>>
       ELSE /\ failures' = Counted
            /\ circuit' = IF OpensCircuit THEN circuit \cup {k} ELSE circuit \ {k}
            /\ job' = [job EXCEPT ![k] =
                    IF @ = "cancelled" THEN @ ELSE IF OpensCircuit THEN "blocked" ELSE "retryable"]
    /\ UNCHANGED <<control, publishing, serviceVars, failure, process, reaped, marker, space, boundVars, results, cpuVars>>

\* The finally blocks of jobs.run and of the service.
EndRun(k) ==
    /\ phase = "ended" /\ running = k
    /\ control' = [control EXCEPT ![k] = "none"]
    /\ failure' = "none" /\ reaped' = TRUE
    /\ IF pending # <<>> /\ ~closed /\ ~suspended /\ runs < MaxRuns
       THEN /\ pending' = Tail(pending) /\ running' = Head(pending)
            /\ phase' = "starting" /\ runs' = runs + 1
            /\ Queue(<<Op("run", Head(pending))>>)
       ELSE phase' = "none" /\ running' = NoRecipe /\ UNCHANGED <<pending, runs, line>>
    /\ UNCHANGED <<job, circuit, failures, publishing, suspended, closed, call, process, marker, space, events, unwritten, results, cpuVars>>

\* The first operation's write fails before the rename: nothing changed, but
\* cancel and interrupt still abort, and the operation throws.
FailWrite ==
    /\ line # <<>> /\ phase # "ended" /\ events < MaxEvents
    /\ events' = events + 1 /\ unwritten' = TRUE
    /\ LET op == Head(line) IN
        /\ op.kind = "publish" => publishing
        /\ op.kind = "fail" => job[op.of] = "running" \/ failure = "cleanup"
        /\ control' = CASE op.kind = "cancel" -> Aborted({op.of})
                        [] op.kind = "interrupt" -> Aborted(Recipes)
                        [] OTHER -> control
        /\ IF op.kind \in {"request", "confirm", "cancel"} THEN Answered(op.kind, op.of, "none") ELSE UNCHANGED call
        /\ CASE op.kind \in {"run", "fail"} -> phase' = "ended" /\ UNCHANGED failure
             [] op.kind = "publish" -> Fail("storage")
             [] OTHER -> UNCHANGED <<phase, failure>>
    /\ line' = Tail(line) /\ publishing' = FALSE
    /\ UNCHANGED <<job, circuit, failures, pending, running, suspended, closed, process, reaped, marker, space, runs, results, cpuVars>>

RecoveredAs(k) == IF k \in circuit THEN "awaiting_confirmation" ELSE InterruptedAs(job[k])

\* The application stops anywhere and starts again.  Containment ends the
\* process; recoverAlignmentWorkspaces empties what the journal names.
Restart ==
    /\ closed \/ events < MaxEvents
    /\ events' = IF closed THEN events ELSE events + 1
    /\ job' = [k \in Recipes |-> RecoveredAs(k)]
    /\ control' = [k \in Recipes |-> "none"]
    /\ circuit' = {} /\ failures' = 0 /\ line' = <<>> /\ publishing' = FALSE
    /\ pending' = <<>> /\ running' = NoRecipe /\ suspended' = FALSE /\ closed' = FALSE
    /\ call' = [c \in Callers |-> NoCall]
    /\ phase' = "none" /\ failure' = "none" /\ process' = FALSE /\ reaped' = TRUE
    /\ space' = space \ marker /\ marker' = {}
    /\ cpuActive' = NoWork /\ cpuWaiting' = <<>> /\ cpuBlocked' = FALSE
    /\ unwritten' = FALSE
    /\ UNCHANGED <<runs, results>>

(***************************************************************************)
(* Analysis and acquisition behind the same gate.                          *)
(***************************************************************************)
OtherEnters(w) == cpuActive # w /\ ~Waits(w) /\ Enter(w)
OtherLeaves(w) == Leave(w) \/ LeaveUnclean(w) \/ Abandon(w)

Others ==
    /\ \E w \in OtherWork : OtherEnters(w) \/ OtherLeaves(w)
    /\ UNCHANGED <<jobVars, serviceVars, workerVars, boundVars, results>>

Operation(k) ==
    DoRequest(k) \/ DoConfirm(k) \/ DoCancel(k) \/ DoRun(k) \/ DoPublish(k) \/ DoComplete(k) \/ DoFail(k)

Run(k) ==
    EnterGate(k) \/ LeaveQueue(k) \/ Verify(k) \/ Prepare(k) \/ LaunchWorker(k) \/ Session(k)
    \/ Teardown(k) \/ Validate(k) \/ Settle(k) \/ EndRun(k)

Renderer(c) == Call(c) \/ AskForJob(c) \/ AskToConfirm(c) \/ Launch(c) \/ AskToCancel(c)

Next ==
    \/ \E c \in Callers : Renderer(c)
    \/ \E k \in Recipes : Operation(k) \/ Run(k)
    \/ DoInterrupt \/ FailWrite \/ SetSuspended \/ Dispose \/ Restart \/ Others

(***************************************************************************)
(* What a run waits for: the event loop serves the mutation tail and the   *)
(* run's own completions in every turn, however many calls arrive; other   *)
(* work ends (its deadlines bound it).                                     *)
(***************************************************************************)
Served == DoInterrupt \/ \E k \in Recipes : Operation(k)
OtherEnds(w) == OtherLeaves(w) /\ UNCHANGED <<jobVars, serviceVars, workerVars, boundVars, results>>

Fairness ==
    /\ WF_vars(Served)
    /\ \A k \in Recipes : SF_vars(Run(k))
    /\ \A w \in OtherWork : SF_vars(OtherEnds(w))

Spec == Init /\ [][Next]_vars /\ Fairness

(***************************************************************************)
(* Properties.                                                             *)
(***************************************************************************)
TypeOK ==
    /\ job \in [Recipes -> States] /\ circuit \subseteq Recipes
    /\ control \in [Recipes -> {"none", "live", "aborted"}]
    /\ failures \in 0 .. CircuitLimit /\ publishing \in BOOLEAN
    /\ line \in Seq([kind : {"request", "confirm", "cancel", "interrupt", "run", "publish", "fail"},
                     of : Recipes \cup {NoRecipe}])
    /\ pending \in Seq(Recipes) /\ running \in Recipes \cup {NoRecipe}
    /\ suspended \in BOOLEAN /\ closed \in BOOLEAN
    /\ call \in [Callers -> [phase : {"none", "start", "chosen", "request", "confirm", "confirmed",
                                      "chosenToCancel", "cancel"},
                             of : Recipes \cup {NoRecipe}]]
    /\ failure \in Failures /\ process \in BOOLEAN /\ reaped \in BOOLEAN
    /\ marker \subseteq 1 .. MaxRuns /\ space \subseteq 1 .. MaxRuns
    /\ results \subseteq Recipes
    /\ cpuActive \in Recipes \cup OtherWork \cup {NoWork} /\ cpuBlocked \in BOOLEAN
    /\ cpuWaiting \in Seq(Recipes \cup OtherWork)

\* No other native work starts while an alignment process may live, even one
\* whose stop was not confirmed (cpu-work.ts: "including teardown").
NothingBesideProcess == process => cpuActive \notin OtherWork

\* Every workspace on disk is named by a durable marker: the next start can
\* remove it, wherever this one stopped.
WorkspaceJournaled == space \subseteq marker

\* A Job is recorded as succeeded only when the Project holds its alignment.
SucceededIsPublished == \A k \in Recipes : job[k] = "succeeded" => k \in results

\* A cancelled or interrupted alignment is never published by its late run.
NoLateAlignment ==
    [][\A k \in results' \ results : job[k] = "running" /\ control[k] = "live"]_vars

\* A queued Job is scheduled, or something under way will schedule or
\* interrupt it: no sequence of sleeps, cancellations and retries strands it.
QueuedIsScheduled ==
    \A k \in Recipes : job[k] = "queued" =>
        \/ IsPending(k) \/ running = k
        \/ \E c \in Callers : call[c].of = k /\ call[c].phase \in {"chosen", "confirm", "confirmed"}
        \/ \E i \in DOMAIN line : line[i] \in {Op("interrupt", NoRecipe), Op("cancel", k)}
        \/ unwritten

\* What the Jobs and the disk say of an alignment is true at every step: a
\* success is published, what is queued will run, and no workspace is lost.
AlignmentKeepsWord == SucceededIsPublished /\ QueuedIsScheduled /\ WorkspaceJournaled
=============================================================================
