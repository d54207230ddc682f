-------------------------- MODULE AnalysisJobsProps --------------------------
(* What the queue of Analysis Jobs must never do, and what must happen.      *)
EXTENDS AnalysisJobs

JobStates == {"absent", "awaiting_confirmation", "blocked", "cancelled", "cancelling",
              "queued", "retryable", "running", "succeeded"}
AttemptStates == {"cancelled", "cancelling", "failed", "running", "succeeded"}
Causes == {"none", "interrupted", "cancelled", "retryable", "fatal", "violation"}
AttemptRecord == [job : Jobs, state : AttemptStates, expected : Nat, candidate : BOOLEAN,
                  cause : Causes]
State == [jobs : [Jobs -> JobStates], attempts : Seq(AttemptRecord), breaker : BOOLEAN]
Waits == {"down", "idle", "plain", "start", "cancel", "drift", "candidate", "complete",
          "sleep", "containing", "authority"}
Requests == [op : JobCalls \cup QueueCalls \cup {"sleep", "publish", "settle"},
             job : Jobs \cup {"none"}, attempt : 0..MaxAttempts, cause : Causes]

\* Every variable holds a value of its kind, and the slot an Attempt that exists.
TypeOK ==
    /\ mem \in State /\ disk \in State
    /\ queue \in Seq(Requests)
    /\ step \in [at : Waits, attempt : 0..MaxAttempts]
    /\ active \in Attempts \cup {0} /\ aborting \in Attempts \cup {0}
    /\ run \in [phase : {"none", "preparing", "running", "stopping", "answered", "failed",
                         "leaving"}, signal : Causes]
    /\ stops \in [1..MaxAttempts -> {"none", "pending", "done", "refused"}]
    /\ processes \subseteq Attempts /\ results \subseteq Attempts
    /\ head \in Nat

\* One contained analysis runs at a time, also while an interrupted or
\* cancelled one is being terminated and after a termination that failed.
OneRunner == Cardinality(processes) <= 1

\* At most one Job is running or being cancelled.
OneJobInFlight == Cardinality({j \in Jobs : mem.jobs[j] \in InFlight}) <= 1

\* A candidate enters the Project only while the durable state has its Attempt
\* running, and only after the Attempt's claim to it is durable: no cancelled,
\* interrupted, replaced or forgotten Attempt changes the Head.
NoLatePublication ==
    [][\A a \in results' \ results :
          /\ a \in DOMAIN disk.attempts
          /\ disk.attempts[a].state = "running" /\ disk.attempts[a].candidate
          /\ disk.jobs[disk.attempts[a].job] = "running"]_vars

\* What is recorded as a success was published.
SuccessIsPublished ==
    \A state \in {mem, disk} :
        /\ \A a \in DOMAIN state.attempts :
              state.attempts[a].state = "succeeded" => a \in results
        /\ \A j \in Jobs : state.jobs[j] = "succeeded" =>
              \E a \in results : mem.attempts[a].job = j

\* A published candidate is never recorded as a failure, whatever errors and
\* restarts come between the commit and its acknowledgement.
CommittedKept ==
    \A a \in results : disk.attempts[a].state \in {"running", "cancelling", "succeeded"}

\* A Job accepts one result: a retry after a lost acknowledgement or a restart
\* does not publish a second.
OneResultPerJob ==
    \A a, b \in results : mem.attempts[a].job = mem.attempts[b].job => a = b

\* A Job the state calls running has an Attempt to cancel or to recover.
RunningHasAttempt ==
    \A j \in Jobs : mem.jobs[j] \in InFlight => AttemptOf(mem, j, InFlight) # 0

\* A running or cancelling Job stops being one, by success, failure or deadline.
AttemptsEnd == \A j \in Jobs : mem.jobs[j] \in InFlight ~> mem.jobs[j] \notin InFlight
=============================================================================
