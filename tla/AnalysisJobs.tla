---------------------------- MODULE AnalysisJobs ----------------------------
(***************************************************************************)
(* The queue of Analysis Jobs in the desktop application's main process    *)
(* (src/apps/desktop/src/main/analysis-jobs.ts).  One Attempt at a time    *)
(* runs in a contained process; its candidate is published through the     *)
(* Project authority.  Every change of the state is a mutation queued on   *)
(* #mutationTail: it changes the memory and then writes the whole state to *)
(* disk.  Callers, the running Attempt, its deadline and the termination   *)
(* of its process all go on while a mutation waits for the disk.           *)
(*                                                                         *)
(* Data is abstract.  The Jobs belong to one Project; an Attempt is its    *)
(* position in the state's list, and names its candidate Revision too.  A  *)
(* failure is its effect on the Job: retryable, fatal, or a violation that *)
(* opens the circuit breaker; interruption and cancellation keep a name.   *)
(* Queue positions, progress, checkpoints and retention are left out.      *)
(***************************************************************************)
EXTENDS Integers, Sequences, FiniteSets

CONSTANTS
    Jobs,         \* Job keys
    Faults,       \* which calls may fail: "write", "read", "ack", "stop"
    MaxAttempts,  \* bound: Attempts ever started
    MaxWaiting,   \* bound: mutations waiting when a caller adds one
    MaxEdits,     \* bound: revisions the user adds to the Project
    MaxFaults,    \* bound: calls that fail
    MaxSleeps,    \* bound: system sleeps
    MaxCrashes    \* bound: restarts of the application

ASSUME JobsAssumption ==
    /\ Faults \subseteq {"write", "read", "ack", "stop"}
    /\ {MaxAttempts, MaxWaiting, MaxEdits, MaxFaults, MaxSleeps, MaxCrashes} \subseteq Nat
    /\ "none" \notin Jobs

VARIABLES
    mem,        \* #state
    disk,       \* analysis-jobs/state.json
    queue,      \* the mutations waiting on #mutationTail
    step,       \* what the running mutation waits for
    active,     \* #active: the Attempt that holds the slot, or 0
    run,        \* where the active Attempt's runNext stands, and its abort signal
    stops,      \* #terminationPromises
    aborting,   \* an Attempt interruptForSleep is about to abort, or 0
    processes,  \* Attempts with a live runner process
    head,       \* the Project's current revision
    results,    \* Attempts whose candidate the Project holds
    counts      \* for the bounds

vars == <<mem, disk, queue, step, active, run, stops, aborting, processes, head,
          results, counts>>
slotVars == <<active, run, stops, aborting, processes>>
projectVars == <<head, results>>

Idle == [at |-> "idle", attempt |-> 0]
NoRun == [phase |-> "none", signal |-> "none"]
Empty == [jobs |-> [j \in Jobs |-> "absent"], attempts |-> <<>>, breaker |-> FALSE]

Init ==
    /\ mem = Empty /\ disk = Empty
    /\ queue = <<>> /\ step = [Idle EXCEPT !.at = "down"]
    /\ active = 0 /\ run = NoRun /\ stops = [a \in 1..MaxAttempts |-> "none"]
    /\ aborting = 0 /\ processes = {}
    /\ head = 0 /\ results = {}
    /\ counts = [edits |-> 0, faults |-> 0, sleeps |-> 0, crashes |-> 0]

-----------------------------------------------------------------------------
(* The state and its mutations *)

Attempts == DOMAIN mem.attempts
InFlight == {"running", "cancelling"}
Busy == \E j \in Jobs : mem.jobs[j] \in InFlight
\* The Attempt a mutation of its Job finds: the first of it in one of the states S.
AttemptOf(state, j, S) ==
    LET found == {a \in DOMAIN state.attempts :
                     state.attempts[a].job = j /\ state.attempts[a].state \in S}
    IN  IF found = {} THEN 0 ELSE CHOOSE a \in found : \A b \in found : a <= b

JobTo(state, j, s) == [state EXCEPT !.jobs[j] = s]
AttemptTo(state, a, s, cause) ==
    [state EXCEPT !.attempts[a].state = s, !.attempts[a].cause = cause]

\* enforceCircuitBreakerFailure and the recording of a failed Attempt.
\* Mutant: the Job takes the failure's name.
JobNamedAfter(cause) == IF cause = "violation" THEN "blocked" ELSE cause
JobAfter(cause) ==
    CASE cause = "cancelled" -> "cancelled"
      [] cause \in {"interrupted", "retryable"} -> "retryable"
      [] OTHER -> "blocked"
Failed(state, a, cause) ==
    LET s == IF cause = "cancelled" THEN "cancelled" ELSE "failed" IN
    [JobTo(AttemptTo(state, a, s, cause), state.attempts[a].job, JobAfter(cause))
        EXCEPT !.breaker = @ \/ cause = "violation"]
\* #completePublication
Completed(state, a) ==
    JobTo(AttemptTo(state, a, "succeeded", "none"), state.attempts[a].job, "succeeded")

\* A call to a mutating operation waits its turn.
Request(r) == [job |-> "none", attempt |-> 0, cause |-> "none", op |-> r]
Enqueue(r) == queue' = Append(queue, r)
Take(op) == step = Idle /\ queue # <<>> /\ Head(queue).op = op /\ queue' = Tail(queue)

\* The mutation changes the memory, and goes on as at says once it is written.
Save(state, at, a) == mem' = state /\ step' = [at |-> at, attempt |-> a]
Nothing == mem' = mem /\ step' = step

CanFail(call) == call \in Faults /\ counts.faults < MaxFaults
CountFault == counts' = [counts EXCEPT !.faults = @ + 1]

\* Promises have settled and their continuations are due, or a mutation can
\* start: calls, timers, writes and process events all come after that.
Unwinding ==
    \/ aborting # 0 \/ run.phase \in {"failed", "leaving"}
    \/ run.phase = "running" /\ run.signal # "none"
    \/ run.phase = "stopping" /\ stops[active] \in {"done", "refused"}
    \/ step.at = "containing" /\ stops[step.attempt] \in {"done", "refused"}
Settled == ~Unwinding /\ ~(step = Idle /\ queue # <<>>)

-----------------------------------------------------------------------------
(* The callers *)

Call(op, j) ==
    /\ step.at # "down" /\ Settled /\ Len(queue) < MaxWaiting
    /\ Enqueue([Request(op) EXCEPT !.job = j])
    /\ UNCHANGED <<mem, disk, step, slotVars, projectVars, counts>>

JobCalls == {"submit", "cancel", "retry", "confirm", "refresh"}
QueueCalls == {"run", "drift"}

\* interruptForSleep reads #active when it is called.
CallSleep ==
    /\ step.at # "down" /\ Settled /\ Len(queue) < MaxWaiting /\ active # 0
    /\ counts.sleeps < MaxSleeps /\ counts' = [counts EXCEPT !.sleeps = @ + 1]
    /\ Enqueue([Request("sleep") EXCEPT !.attempt = active])
    /\ UNCHANGED <<mem, disk, step, slotVars, projectVars>>

\* The user edits the Project meanwhile.
Edit ==
    /\ step.at # "down" /\ Settled /\ counts.edits < MaxEdits
    /\ counts' = [counts EXCEPT !.edits = @ + 1]
    /\ head' = head + 1
    /\ UNCHANGED <<mem, disk, queue, step, slotVars, results>>

-----------------------------------------------------------------------------
(* The mutations of the callers *)

Quiet == UNCHANGED <<disk, slotVars, projectVars, counts>>

\* Dependencies are all there, some are missing, or the Project Range drifted.
Blocked(j) == JobTo(mem, j, "blocked")
Drifted(j) == [Blocked(j) EXCEPT !.breaker = TRUE]

Submit ==
    /\ Take("submit")
    /\ LET j == Head(queue).job IN
       \/ /\ mem.jobs[j] = "absent"
          /\ \E s \in {"queued", "blocked"} : Save(JobTo(mem, j, s), "plain", 0)
       \/ mem.jobs[j] # "absent" /\ Nothing
    /\ Quiet

Confirm ==
    /\ Take("confirm")
    /\ LET j == Head(queue).job IN
       IF mem.jobs[j] = "awaiting_confirmation"
       THEN Save(JobTo(mem, j, "queued"), "plain", 0) ELSE Nothing
    /\ Quiet

Retry ==
    /\ Take("retry")
    /\ LET j == Head(queue).job IN
       IF mem.jobs[j] \in {"retryable", "cancelled"}
       THEN Save(JobTo(mem, j, "queued"), "plain", 0) ELSE Nothing
    /\ Quiet

RefreshBlocked ==
    /\ Take("refresh")
    /\ LET j == Head(queue).job IN
       \/ /\ mem.jobs[j] = "blocked"
          /\ \E state \in {JobTo(mem, j, "queued"), Blocked(j), Drifted(j)} :
                Save(state, "plain", 0)
       \/ mem.jobs[j] # "blocked" /\ Nothing
    /\ Quiet

Cancel ==
    /\ Take("cancel")
    /\ LET j == Head(queue).job
           a == AttemptOf(mem, j, {"running"}) IN
       CASE mem.jobs[j] \in {"queued", "awaiting_confirmation"} ->
                Save(JobTo(mem, j, "cancelled"), "plain", 0)
         [] mem.jobs[j] = "running" /\ a # 0 ->
                Save(JobTo([mem EXCEPT !.attempts[a].state = "cancelling"], j, "cancelling"),
                     "cancel", a)
         [] OTHER -> Nothing
    /\ Quiet

\* Starting an Attempt of j: it is recorded before it holds the slot.
Start(j) ==
    /\ Len(mem.attempts) < MaxAttempts
    /\ Save([JobTo(mem, j, "running") EXCEPT !.attempts = Append(@,
               [job |-> j, state |-> "running", expected |-> head,
                candidate |-> FALSE, cause |-> "none"])],
            "start", Len(mem.attempts) + 1)
\* Mutant: only the slot is looked at.
MayRunBesideJobs == active = 0 /\ ~mem.breaker
MayRun == active = 0 /\ ~mem.breaker /\ ~Busy
\* The serialized first part of runNext.
RunNext ==
    /\ Take("run")
    /\ \/ /\ MayRun
          /\ \E j \in Jobs :
             /\ mem.jobs[j] = "queued"
             /\ Start(j) \/ \E state \in {Blocked(j), Drifted(j)} : Save(state, "plain", 0)
       \/ (~MayRun \/ \A j \in Jobs : mem.jobs[j] # "queued") /\ Nothing
    /\ Quiet

\* Mutant: the interruption is recorded with the Attempt only.
InterruptedJobLeft(a) == AttemptTo(mem, a, "failed", "interrupted")

InterruptedJob(a) ==
    JobTo(AttemptTo(mem, a, "failed", "interrupted"), mem.attempts[a].job, "retryable")
\* interruptForSleep: the interruption is written before the abort.
Sleep ==
    /\ Take("sleep")
    /\ LET a == Head(queue).attempt
           j == mem.attempts[a].job IN
       IF mem.jobs[j] = "running" /\ mem.attempts[a].state = "running"
       THEN Save(InterruptedJob(a), "sleep", a) /\ aborting' = aborting
       ELSE Nothing /\ aborting' = a
    /\ UNCHANGED <<disk, active, run, stops, processes, projectVars, counts>>

Signalled(a, cause) ==
    IF active = a /\ run.signal = "none" THEN [run EXCEPT !.signal = cause] ELSE run

Abort ==
    /\ aborting # 0
    /\ run' = Signalled(aborting, "interrupted") /\ aborting' = 0
    /\ UNCHANGED <<mem, disk, queue, step, active, stops, processes, projectVars, counts>>

\* submit finds that the range of an existing Project changed.  The authority
\* is asked first, so an Attempt that is leaving has left.
SubmitDrifted ==
    /\ Take("drift")
    /\ ~Unwinding
    /\ IF \A j \in Jobs : mem.jobs[j] = "absent" THEN Nothing
       ELSE LET open == [mem EXCEPT !.breaker = TRUE] IN
            IF active = 0 THEN Save(open, "plain", 0)
            ELSE Save(Failed(open, active, "violation"), "drift", active)
    /\ Quiet

-----------------------------------------------------------------------------
(* Writing the state *)

Written == step.at \in {"plain", "start", "cancel", "drift", "candidate", "complete", "sleep"}

\* What follows a successful write.
AfterWrite ==
    LET a == step.attempt IN
    /\ step' = CASE step.at = "drift" -> [step EXCEPT !.at = "containing"]
                 [] step.at = "candidate" -> [step EXCEPT !.at = "authority"]
                 [] OTHER -> Idle
    /\ active' = IF step.at = "start" THEN a ELSE active
    /\ aborting' = IF step.at = "sleep" THEN a ELSE 0
    /\ stops' = IF step.at = "drift" /\ stops[a] = "none"
                THEN [stops EXCEPT ![a] = "pending"] ELSE stops
    /\ run' = CASE step.at = "start" -> [NoRun EXCEPT !.phase = "preparing"]
                [] step.at = "complete" -> [run EXCEPT !.phase = "leaving"]
                [] step.at = "cancel" /\ active # 0 /\ mem.attempts[a].job = mem.attempts[active].job ->
                       Signalled(active, "cancelled")
                [] step.at = "drift" -> Signalled(a, "violation")
                [] OTHER -> run

Write ==
    /\ Written /\ Settled
    /\ disk' = mem /\ AfterWrite
    /\ UNCHANGED <<mem, queue, processes, projectVars, counts>>

\* The write throws, before or after the file was replaced: the memory keeps
\* the change, and the mutation's caller gets the error.
FailWrite ==
    /\ Written /\ Settled /\ CanFail("write") /\ CountFault
    /\ disk' \in {disk, mem} /\ step' = Idle
    /\ run' = IF step.at \in {"candidate", "complete"}
              THEN [phase |-> "failed", signal |-> "fatal"] ELSE run
    /\ UNCHANGED <<mem, queue, active, stops, aborting, processes, projectVars>>

-----------------------------------------------------------------------------
(* The Attempt that holds the slot *)

Moving(phase, cause) == run' = [phase |-> phase, signal |-> cause]
RunCause == IF run.signal = "none" THEN "retryable" ELSE run.signal
Others == UNCHANGED <<mem, disk, queue, step, active, aborting, projectVars>>

\* runWithDeadline starts the runner, or stops what was aborted before it ran.
Launch ==
    /\ run.phase = "preparing" /\ Settled
    /\ \/ /\ run.signal = "none"
          /\ Moving("running", "none") /\ processes' = processes \cup {active}
          /\ stops' = stops
       \/ /\ Moving("stopping", RunCause)
          /\ stops' = [stops EXCEPT ![active] = IF @ = "none" THEN "pending" ELSE @]
          /\ processes' = processes
    /\ Others /\ UNCHANGED counts

\* A retained checkpoint does not match its metadata.
FailPreparation ==
    /\ run.phase = "preparing" /\ Settled /\ Moving("failed", "violation")
    /\ Others /\ UNCHANGED <<stops, processes, counts>>

\* The runner answers with a candidate, or fails by itself; its process is gone.
Answer ==
    /\ run = [phase |-> "running", signal |-> "none"] /\ Settled
    /\ \/ Moving("answered", "none")
       \/ \E cause \in {"retryable", "fatal", "violation"} : Moving("failed", cause)
    /\ processes' = processes \ {active}
    /\ IF run'.phase = "answered" THEN Enqueue([Request("publish") EXCEPT !.attempt = active])
                                  ELSE queue' = queue
    /\ UNCHANGED <<mem, disk, step, active, stops, aborting, projectVars, counts>>

\* Mutant: nobody waits for the runner's end.
InterruptedAtOnce ==
    /\ run.phase = "running" /\ Moving("failed", RunCause)
    /\ stops' = [stops EXCEPT ![active] = IF @ = "none" THEN "pending" ELSE @]
    /\ Others /\ UNCHANGED <<processes, counts>>

\* The deadline, or an abort, wins the race: the runner is terminated.
Interrupted ==
    /\ run.phase = "running" /\ Moving("stopping", RunCause)
    /\ stops' = [stops EXCEPT ![active] = IF @ = "none" THEN "pending" ELSE @]
    /\ Others /\ UNCHANGED <<processes, counts>>

\* terminateAndWait of an Attempt's runner comes back.
Stopped ==
    /\ Settled
    /\ \E a \in DOMAIN stops :
       /\ stops[a] = "pending"
       /\ stops' = [stops EXCEPT ![a] = "done"] /\ processes' = processes \ {a}
    /\ Others /\ UNCHANGED <<run, counts>>
NotStopped ==
    /\ Settled /\ CanFail("stop") /\ CountFault
    /\ \E a \in DOMAIN stops :
       stops[a] = "pending" /\ a \in processes /\ stops' = [stops EXCEPT ![a] = "refused"]
    /\ Others /\ UNCHANGED <<run, processes>>

\* Mutant: a termination that fails is waited for.
UnwindWhenStopped ==
    /\ run.phase = "stopping" /\ stops[active] = "done" /\ Moving("failed", run.signal)
    /\ Others /\ UNCHANGED <<stops, processes, counts>>

Unwind ==
    /\ run.phase = "stopping" /\ stops[active] \in {"done", "refused"}
    /\ Moving("failed", IF stops[active] = "done" THEN run.signal ELSE "violation")
    /\ Others /\ UNCHANGED <<stops, processes, counts>>

\* The catch block of runNext queues the recording of the failure; its return
\* value is not awaited, so finally releases the slot at once.
FailAttempt ==
    /\ run.phase = "failed"
    /\ Enqueue([Request("settle") EXCEPT !.attempt = active, !.cause = run.signal])
    /\ active' = 0 /\ run' = NoRun
    /\ UNCHANGED <<mem, disk, step, stops, aborting, processes, projectVars, counts>>

Leave ==
    /\ run.phase = "leaving" /\ active' = 0 /\ run' = NoRun
    /\ UNCHANGED <<mem, disk, queue, step, stops, aborting, processes, projectVars, counts>>

-----------------------------------------------------------------------------
(* Publication and the recording of failures *)

\* Mutant: only the Attempt's existence is looked up.
StillKnown(a) == a \in DOMAIN disk.attempts

\* The durable state still has this Attempt running: #assertCurrentAttempt.
StillCurrent(a) ==
    /\ a \in DOMAIN disk.attempts /\ disk.attempts[a].state = "running"
    /\ disk.jobs[mem.attempts[a].job] = "running"

Publish ==
    /\ Take("publish")
    /\ LET a == Head(queue).attempt IN
       CASE run.signal # "none" -> Nothing /\ Moving("failed", run.signal)
         [] run.signal = "none" /\ StillCurrent(a) ->
                Save([mem EXCEPT !.attempts[a].candidate = TRUE], "candidate", a)
                /\ run' = run
         [] OTHER -> Nothing /\ Moving("leaving", "none")
    /\ UNCHANGED <<disk, active, stops, aborting, processes, projectVars, counts>>

\* publishAnalysisRevision commits on the expected revision only.
Commit ==
    LET a == step.attempt IN
    /\ step.at = "authority" /\ Settled /\ head = mem.attempts[a].expected
    /\ head' = head + 1 /\ results' = results \cup {a}
    /\ \/ /\ Save(Completed(mem, a), "complete", a) /\ UNCHANGED <<run, counts>>
       \/ /\ CanFail("ack") /\ CountFault
          /\ mem' = mem /\ step' = Idle /\ Moving("failed", "fatal")
    /\ UNCHANGED <<disk, queue, active, stops, aborting, processes>>

\* The candidate is stale, its Project is gone, or the authority throws.
Reject ==
    /\ step.at = "authority" /\ Settled
    /\ \/ head # mem.attempts[step.attempt].expected /\ Moving("failed", "retryable")
       \/ Moving("failed", "fatal")
    /\ step' = Idle
    /\ UNCHANGED <<mem, disk, queue, active, stops, aborting, processes, projectVars, counts>>

\* Mutant: a failure is a failure, whatever the Project holds.
SettledAsFailed(a, cause) == Failed(mem, a, cause)
\* A candidate the Project already holds is a success after all.
SettledAs(a, cause) == IF a \in results THEN Completed(mem, a) ELSE Failed(mem, a, cause)
\* The mutation in the catch block of runNext.
Settle ==
    /\ Take("settle")
    /\ Save(SettledAs(Head(queue).attempt, Head(queue).cause), "plain", 0)
    /\ Quiet
\* The Project's snapshot cannot be read: nothing is recorded.
FailSettle ==
    /\ Take("settle") /\ CanFail("read") /\ CountFault /\ Nothing
    /\ UNCHANGED <<disk, slotVars, projectVars>>

\* The end of rejectSubmitRangeIntegrity.
Contained ==
    /\ step.at = "containing" /\ stops[step.attempt] \in {"done", "refused"}
    /\ IF stops[step.attempt] = "done" THEN mem' = mem /\ step' = Idle
       ELSE Save([mem EXCEPT !.attempts[step.attempt].cause = "violation"], "plain", 0)
    /\ UNCHANGED queue /\ Quiet

-----------------------------------------------------------------------------
(* Restart *)

\* The application ends; contained processes end with it.
Crash ==
    /\ step.at # "down" /\ counts.crashes < MaxCrashes
    /\ counts' = [counts EXCEPT !.crashes = @ + 1]
    /\ mem' = disk /\ queue' = <<>> /\ step' = [Idle EXCEPT !.at = "down"]
    /\ active' = 0 /\ run' = NoRun /\ aborting' = 0 /\ processes' = {}
    /\ stops' = [a \in DOMAIN stops |-> "none"]
    /\ UNCHANGED <<disk, projectVars>>

\* Mutant: an Attempt that got as far as its candidate counts as published.
PublishedByClaim(state, a) == state.attempts[a].candidate
\* Mutant: every lost Attempt is taken for interrupted.
PublishedNever(state, a) == FALSE
Published(state, a) == state.attempts[a].candidate /\ a \in results
\* recoverStateAfterRestart
Recovered(state) ==
    LET found(j) == AttemptOf(state, j, InFlight)
        lost == {j \in Jobs : state.jobs[j] \in InFlight /\ found(j) # 0}
        won == {j \in lost : Published(state, found(j))}
        cause(j) == IF state.jobs[j] = "cancelling" THEN "cancelled" ELSE "interrupted"
    IN [jobs |-> [j \in Jobs |->
                    CASE state.jobs[j] = "queued" -> "awaiting_confirmation"
                      [] j \in won -> "succeeded"
                      [] j \in lost \ won -> JobAfter(cause(j))
                      [] OTHER -> state.jobs[j]],
        attempts |-> [a \in DOMAIN state.attempts |->
                    LET t == state.attempts[a] IN
                    CASE t.job \in won /\ a = found(t.job) ->
                            [t EXCEPT !.state = "succeeded", !.cause = "none"]
                      [] t.job \in lost \ won /\ a = found(t.job) ->
                            [t EXCEPT !.cause = cause(t.job),
                                      !.state = IF cause(t.job) = "cancelled" THEN "cancelled"
                                                                             ELSE "failed"]
                      [] OTHER -> t],
        breaker |-> FALSE]

Open ==
    /\ step.at = "down" /\ step' = Idle
    /\ mem' = Recovered(disk) /\ disk' = mem'
    /\ UNCHANGED <<queue, slotVars, projectVars, counts>>

-----------------------------------------------------------------------------
Mutations ==
    \/ Submit \/ Confirm \/ Retry \/ RefreshBlocked \/ Cancel \/ RunNext \/ Sleep
    \/ SubmitDrifted \/ Publish \/ Settle
    \/ Write \/ Commit \/ Reject \/ Contained
Attempting ==
    \/ Launch \/ FailPreparation \/ Answer \/ Interrupted \/ Stopped \/ Unwind
    \/ FailAttempt \/ Leave \/ Abort
Calls ==
    \/ \E op \in JobCalls, j \in Jobs : Call(op, j)
    \/ \E op \in QueueCalls : Call(op, "none")
    \/ CallSleep \/ Edit
Failures == FailWrite \/ NotStopped \/ FailSettle \/ Crash

Next == Mutations \/ Attempting \/ Calls \/ Failures \/ Open

Spec == Init /\ [][Next]_vars
\* The event loop serves every mutation; timers, promises and process events get
\* their turn among the calls, however many; the deadline ends every run, and
\* terminateAndWait always comes back.
FairSpec == Spec /\ WF_vars(Mutations) /\ SF_vars(Attempting) /\ WF_vars(Open)
=============================================================================
