------------------------ MODULE AnalysisJobs_proofs -------------------------
(***************************************************************************)
(* The queue of Analysis Jobs, for every set of Jobs and every number of   *)
(* Attempts, faults and restarts.  Three invariants, each on top of the    *)
(* one before: what holds whatever fails (JobsInv), what holds as long as  *)
(* no termination is refused (ProcessInv) or the state file can be         *)
(* written (WrittenInv), and, when the system does not sleep either, that  *)
(* the record of a Job follows what the Project holds (CalmInv).           *)
(***************************************************************************)
EXTENDS AnalysisJobsProps, FiniteSetTheorems, WellFoundedInduction, TLAPS

-----------------------------------------------------------------------------
(* The invariant that holds whatever fails *)

InState(state, a, S) == a \in DOMAIN state.attempts /\ state.attempts[a].state \in S

\* t has the Attempts of s, of the same Jobs, and perhaps later ones.
Follows(t, s) ==
    /\ DOMAIN s.attempts \subseteq DOMAIN t.attempts
    /\ \A a \in DOMAIN s.attempts : t.attempts[a].job = s.attempts[a].job

\* At most one Job is in flight, and it has an Attempt that is.
FlightOK(state) ==
    /\ \A i, j \in Jobs : state.jobs[i] \in InFlight /\ state.jobs[j] \in InFlight => i = j
    /\ \A j \in Jobs : state.jobs[j] \in InFlight =>
          \E a \in DOMAIN state.attempts :
             state.attempts[a].job = j /\ state.attempts[a].state \in InFlight
\* A state as the queue keeps it, when the Project holds the candidates of res.
StateOK(s, res) ==
    /\ s \in State /\ Len(s.attempts) <= MaxAttempts
    /\ FlightOK(s)
    /\ \A a \in DOMAIN s.attempts : s.attempts[a].state = "succeeded" => a \in res
    /\ \A j \in Jobs : s.jobs[j] = "succeeded" =>
          \E a \in res : a \in DOMAIN s.attempts /\ s.attempts[a].job = j

\* The disk is an earlier memory; what the Project holds came from an Attempt
\* that was durable.
DataInv ==
    /\ StateOK(mem, results) /\ StateOK(disk, results)
    /\ Follows(mem, disk) /\ results \subseteq DOMAIN disk.attempts
\* Every other variable holds a value of its kind.
Phases == {"none", "preparing", "running", "stopping", "answered", "failed", "leaving"}
KindInv ==
    /\ queue \in Seq(Requests)
    /\ step \in [at : Waits, attempt : 0..MaxAttempts]
    /\ active \in Attempts \cup {0} /\ aborting \in Attempts \cup {0}
    /\ run \in [phase : Phases, signal : Causes]
    /\ stops \in [1..MaxAttempts -> {"none", "pending", "done", "refused"}]
    /\ processes \subseteq Attempts
    /\ head \in Nat
    /\ counts \in [edits : Nat, faults : Nat, sleeps : Nat, crashes : Nat]

AboutAttempt == {"sleep", "publish", "settle"}
OnAttempt == {"start", "cancel", "drift", "candidate", "complete", "sleep", "containing",
              "authority"}
\* Requests and steps name a Job or an Attempt that is there.
LineInv ==
    /\ \A i \in DOMAIN queue :
          /\ queue[i].op \in JobCalls => queue[i].job \in Jobs
          /\ queue[i].op \in AboutAttempt => queue[i].attempt \in Attempts
    /\ step.at \in OnAttempt => step.attempt \in Attempts

PublicationSteps == {"candidate", "authority", "complete"}
\* The slot is empty exactly when nothing runs, and nothing takes it before the
\* new Attempt is written; a publication is that of the Attempt in the slot,
\* queued once, and the Attempt waits for it.
SlotInv ==
    /\ active = 0 <=> run.phase = "none"
    /\ run.phase = "none" => run.signal = "none"
    /\ step.at = "start" => active = 0
    /\ step.at \in PublicationSteps => active = step.attempt /\ run.phase = "answered"
    /\ \A i \in DOMAIN queue : queue[i].op = "publish" =>
          /\ queue[i].attempt = active /\ run.phase = "answered"
          /\ step.at \notin PublicationSteps
          /\ \A k \in DOMAIN queue : queue[k].op = "publish" => k = i

\* A candidate on its way to the Project is that of an Attempt on disk, and an
\* application that is down has nothing in memory.
AuthorityInv ==
    /\ step.at = "authority" => step.attempt \in DOMAIN disk.attempts
    /\ step.at = "down" => mem = disk
JobsInv == DataInv /\ KindInv /\ LineInv /\ SlotInv /\ AuthorityInv

-----------------------------------------------------------------------------
(* With no refused termination: the process of a runner *)

\* A process is that of the Attempt in the slot, until it has been stopped.
ProcessInv ==
    /\ \A a \in DOMAIN stops : stops[a] # "refused"
    /\ \A a \in DOMAIN stops : a \notin Attempts => stops[a] = "none"
    /\ step.at = "start" => stops[step.attempt] = "none"
    /\ run.phase \in {"preparing", "running"} /\ run.signal = "none" => stops[active] = "none"
    /\ run.phase = "stopping" => stops[active] # "none"
    /\ \A a \in processes :
          /\ a = active /\ run.phase \in {"running", "stopping"}
          /\ stops[a] # "done"

-----------------------------------------------------------------------------
(* With no failed write: the disk between two mutations *)

Writing == {"plain", "start", "cancel", "drift", "candidate", "complete", "sleep"}
\* Outside a write the disk is the memory, and the candidate a publication
\* carries to the authority is that of a running Attempt of a running Job.
WrittenInv ==
    /\ step.at \notin Writing => disk = mem
    /\ step.at \in {"candidate", "authority"} =>
          LET t == mem.attempts[step.attempt] IN
          t.candidate /\ t.state = "running" /\ mem.jobs[t.job] = "running"

-----------------------------------------------------------------------------
(* And with no sleep: one Attempt in flight, which nobody else replaces *)

FlightOf(state, a) == InState(state, a, InFlight)
\* An Attempt in flight is the only one, its Job is in the same state, and what
\* the Project holds, res, is in flight or recorded.
AgreesOn(s, res) ==
    /\ \A a, b \in DOMAIN s.attempts : FlightOf(s, a) /\ FlightOf(s, b) => a = b
    /\ \A a \in DOMAIN s.attempts :
          FlightOf(s, a) => s.jobs[s.attempts[a].job] = s.attempts[a].state
    /\ \A a \in res :
          /\ a \in DOMAIN s.attempts /\ s.attempts[a].candidate
          /\ \/ FlightOf(s, a)
             \/ /\ s.attempts[a].state = "succeeded"
                /\ s.jobs[s.attempts[a].job] = "succeeded"
AllApart(s, res) == \A a, b \in res : s.attempts[a].job = s.attempts[b].job => a = b
SameFlight(t, s) == \A b \in DOMAIN s.attempts : FlightOf(s, b) <=> FlightOf(t, b)

Settling(a) == \E i \in DOMAIN queue : queue[i].op = "settle" /\ queue[i].attempt = a
\* What will still be recorded of a: it is in flight, or published, or the
\* circuit breaker has already ended it and nothing else can have started.
Unrecorded(a) ==
    \/ FlightOf(mem, a)
    \/ a \in results
    \/ /\ mem.breaker /\ \A b \in Attempts : ~FlightOf(mem, b)
       /\ \A b \in results : mem.attempts[b].job # mem.attempts[a].job

\* Nothing waits to interrupt the Attempt for a sleep.
SleepsNot ==
    /\ aborting = 0 /\ step.at # "sleep"
    /\ \A i \in DOMAIN queue : queue[i].op # "sleep"
\* Memory and disk agree with the Project, and a Job has one result.
AgreeInv == AgreesOn(mem, results) /\ AgreesOn(disk, results) /\ AllApart(mem, results)
\* The Attempt in the slot, and one whose failure waits to be recorded, still
\* have something to record.
OwedInv == \A a \in Attempts : active = a \/ Settling(a) => Unrecorded(a)
\* A failure is recorded once, of an Attempt that has left the slot.
SettleInv ==
    \A i \in DOMAIN queue : queue[i].op = "settle" =>
          /\ queue[i].attempt # active
          /\ step.at = "start" => queue[i].attempt # step.attempt
          /\ \A k \in DOMAIN queue :
                queue[k].op = "settle" /\ queue[k].attempt = queue[i].attempt => k = i
\* An Attempt takes the slot before it has a result, and keeps it no longer than
\* its publication takes; an application that is down has no requests.
NewInv ==
    /\ step.at = "start" => FlightOf(mem, step.attempt) /\ step.attempt \notin results
    /\ active \in results => step.at = "complete" \/ run.phase \in {"failed", "leaving"}
    /\ step.at = "down" => queue = <<>> /\ active = 0
CalmInv == SleepsNot /\ AgreeInv /\ OwedInv /\ SettleInv /\ NewInv

-----------------------------------------------------------------------------
(* Numbers, Attempts, and what the operators on a state return and keep *)

\* A set of numbers that is not empty has a least one.
LEMMA Least ==
    ASSUME NEW S, S \subseteq Nat, S # {}
    PROVE \E a \in S : \A b \in S : a <= b
  <1>1. IsWellFoundedOn(OpToRel(<, Nat), Nat)
    BY NatLessThanWellFounded
  <1>2. PICK x \in S : \A y \in S : ~(<<y, x>> \in OpToRel(<, Nat))
    BY <1>1, WFMin
  <1>3. ASSUME NEW y \in S PROVE x <= y
    <2>1. y \in Nat /\ x \in Nat OBVIOUS
    <2>2. SUFFICES ASSUME y < x PROVE FALSE BY <2>1
    <2>3. <<y, x>> \in OpToRel(<, Nat) BY <2>1, <2>2 DEF OpToRel
    <2>4. QED BY <1>2, <2>3
  <1>4. QED BY <1>3

LEMMA AttemptsOf ==
    ASSUME NEW s \in State
    PROVE /\ DOMAIN s.attempts = 1..Len(s.attempts) /\ Len(s.attempts) \in Nat
          /\ \A a \in DOMAIN s.attempts :
                /\ a \in Nat /\ a # 0
                /\ s.attempts[a].job \in Jobs /\ s.attempts[a].state \in AttemptStates
                /\ s.attempts[a] \in AttemptRecord
          /\ \A j \in Jobs : s.jobs[j] \in JobStates
          /\ s.attempts \in Seq(AttemptRecord)
  <1>1. s.attempts \in Seq(AttemptRecord) /\ s.jobs \in [Jobs -> JobStates]
    BY DEF State
  <1>2. DOMAIN s.attempts = 1..Len(s.attempts) /\ Len(s.attempts) \in Nat
    BY <1>1
  <1>3. ASSUME NEW a \in DOMAIN s.attempts PROVE s.attempts[a] \in AttemptRecord /\ a \in Nat /\ a # 0
    BY <1>1, <1>2
  <1>4. QED BY <1>1, <1>2, <1>3 DEF AttemptRecord

\* AttemptOf finds an Attempt of the Job in one of the states, if there is one.
LEMMA Found ==
    ASSUME NEW s \in State, NEW j, NEW S
    PROVE LET a == AttemptOf(s, j, S) IN
          /\ a # 0 => a \in DOMAIN s.attempts /\ s.attempts[a].job = j /\ s.attempts[a].state \in S
          /\ (\E b \in DOMAIN s.attempts : s.attempts[b].job = j /\ s.attempts[b].state \in S)
                => a # 0
          /\ a \in Nat
  <1> DEFINE found == {a \in DOMAIN s.attempts : s.attempts[a].job = j /\ s.attempts[a].state \in S}
  <1>1. found \subseteq Nat /\ \A a \in found : a # 0
    BY AttemptsOf
  <1>2. CASE found = {}
    BY <1>2 DEF AttemptOf
  <1>3. CASE found # {}
    <2>1. \E a \in found : \A b \in found : a <= b
      BY <1>1, <1>3, Least
    <2>2. AttemptOf(s, j, S) = CHOOSE a \in found : \A b \in found : a <= b
      BY <1>3 DEF AttemptOf
    <2> HIDE DEF found
    <2>3. AttemptOf(s, j, S) \in found
      BY <2>1, <2>2
    <2>4. QED BY <1>1, <2>3 DEF found
  <1>4. QED BY <1>2, <1>3

LEMMA JobToFacts ==
    ASSUME NEW s \in State, NEW j \in Jobs, NEW st \in JobStates
    PROVE /\ JobTo(s, j, st) \in State
          /\ JobTo(s, j, st).attempts = s.attempts
          /\ JobTo(s, j, st).breaker = s.breaker
          /\ JobTo(s, j, st).jobs[j] = st
          /\ \A k \in Jobs : k # j => JobTo(s, j, st).jobs[k] = s.jobs[k]
  BY DEF JobTo, State

LEMMA AttemptToFacts ==
    ASSUME NEW s \in State, NEW a \in DOMAIN s.attempts, NEW st \in AttemptStates,
           NEW cause \in Causes
    PROVE LET t == AttemptTo(s, a, st, cause) IN
          /\ t \in State /\ t.jobs = s.jobs /\ t.breaker = s.breaker
          /\ Len(t.attempts) = Len(s.attempts) /\ DOMAIN t.attempts = DOMAIN s.attempts
          /\ \A b \in DOMAIN s.attempts :
                /\ t.attempts[b].job = s.attempts[b].job
                /\ t.attempts[b].candidate = s.attempts[b].candidate
                /\ b # a => t.attempts[b] = s.attempts[b]
          /\ t.attempts[a].state = st
  <1> DEFINE t == AttemptTo(s, a, st, cause)
             r == [s.attempts[a] EXCEPT !.state = st, !.cause = cause]
  <1>1. s.attempts \in Seq(AttemptRecord) /\ s.attempts[a] \in AttemptRecord
    BY AttemptsOf
  <1>2. r \in AttemptRecord /\ r.job = s.attempts[a].job /\ r.state = st
        /\ r.candidate = s.attempts[a].candidate
    BY <1>1 DEF AttemptRecord
  <1>3. t = [s EXCEPT !.attempts = [s.attempts EXCEPT ![a] = r]]
    BY <1>1 DEF AttemptTo, State, AttemptRecord
  <1> HIDE DEF t, r
  <1>4. [s.attempts EXCEPT ![a] = r] \in Seq(AttemptRecord)
    BY <1>1, <1>2
  <1>5. t.attempts = [s.attempts EXCEPT ![a] = r] /\ t.jobs = s.jobs /\ t.breaker = s.breaker
        /\ t \in State
    BY <1>3, <1>4 DEF State
  <1>6. QED BY <1>1, <1>2, <1>4, <1>5 DEF t

\* What the Project additionally holds does not disturb a state.
LEMMA MoreResults ==
    ASSUME NEW s, NEW res, NEW more, StateOK(s, res), res \subseteq more
    PROVE StateOK(s, more)
  BY DEF StateOK

LEMMA Breaks ==
    ASSUME NEW s, NEW res, NEW b \in BOOLEAN, StateOK(s, res)
    PROVE LET t == [s EXCEPT !.breaker = b] IN
          StateOK(t, res) /\ Follows(t, s) /\ t.jobs = s.jobs /\ t.attempts = s.attempts
          /\ t.breaker = b
  <1> DEFINE t == [s EXCEPT !.breaker = b]
  <1>1. t \in State /\ t.jobs = s.jobs /\ t.attempts = s.attempts /\ t.breaker = b
    BY DEF StateOK, State
  <1> HIDE DEF t
  <1>2. StateOK(t, res)
    BY <1>1 DEF StateOK, FlightOK
  <1>3. Follows(t, s)
    BY <1>1 DEF Follows
  <1>4. QED BY <1>1, <1>2, <1>3 DEF t

\* A Job that leaves, or stays out of, the slot without success.
LEMMA JobAside ==
    ASSUME NEW s, NEW res, NEW j \in Jobs, NEW st \in JobStates \ (InFlight \cup {"succeeded"}),
           StateOK(s, res)
    PROVE StateOK(JobTo(s, j, st), res) /\ Follows(JobTo(s, j, st), s)
  <1> DEFINE t == JobTo(s, j, st)
  <1>1. s \in State
    BY DEF StateOK
  <1>2. /\ t \in State /\ t.attempts = s.attempts
        /\ t.jobs[j] = st /\ \A k \in Jobs : k # j => t.jobs[k] = s.jobs[k]
    BY <1>1, JobToFacts
  <1> HIDE DEF t
  <1>3. FlightOK(t)
    BY <1>2 DEF FlightOK, StateOK, InFlight
  <1>4. StateOK(t, res)
    BY <1>2, <1>3 DEF StateOK
  <1>5. Follows(t, s)
    BY <1>2 DEF Follows
  <1>6. QED BY <1>4, <1>5 DEF t

\* An Attempt ends, and its Job with it: as a success only if it is published.
LEMMA AttemptEnds ==
    ASSUME NEW s, NEW res, NEW t \in State, NEW a \in DOMAIN s.attempts, StateOK(s, res),
           Len(t.attempts) = Len(s.attempts), DOMAIN t.attempts = DOMAIN s.attempts,
           \A b \in DOMAIN s.attempts :
              /\ t.attempts[b].job = s.attempts[b].job
              /\ b # a => t.attempts[b].state = s.attempts[b].state,
           t.attempts[a].state \notin InFlight,
           t.attempts[a].state = "succeeded" => a \in res,
           \A k \in Jobs : k # s.attempts[a].job => t.jobs[k] = s.jobs[k],
           t.jobs[s.attempts[a].job] \notin InFlight,
           t.jobs[s.attempts[a].job] = "succeeded" => a \in res
    PROVE StateOK(t, res) /\ Follows(t, s)
  <1>1. s \in State
    BY DEF StateOK
  <1>2. ASSUME NEW j \in Jobs, t.jobs[j] \in InFlight
        PROVE /\ s.jobs[j] \in InFlight
              /\ \E b \in DOMAIN t.attempts :
                    t.attempts[b].job = j /\ t.attempts[b].state \in InFlight
    <2>1. j # s.attempts[a].job /\ s.jobs[j] \in InFlight
      BY <1>2
    <2>2. PICK b \in DOMAIN s.attempts : s.attempts[b].job = j /\ s.attempts[b].state \in InFlight
      BY <2>1 DEF StateOK, FlightOK
    <2>3. b # a
      BY <2>1, <2>2
    <2>4. QED BY <2>1, <2>2, <2>3
  <1>3. FlightOK(t)
    BY <1>2 DEF FlightOK, StateOK
  <1>4. ASSUME NEW j \in Jobs, t.jobs[j] = "succeeded"
        PROVE \E b \in res : b \in DOMAIN t.attempts /\ t.attempts[b].job = j
    BY <1>4 DEF StateOK
  <1>5. \A b \in DOMAIN t.attempts : t.attempts[b].state = "succeeded" => b \in res
    BY DEF StateOK
  <1>6. StateOK(t, res)
    BY <1>3, <1>4, <1>5 DEF StateOK
  <1>7. QED BY <1>6 DEF Follows

LEMMA FailedFacts ==
    ASSUME NEW s \in State, NEW a \in DOMAIN s.attempts, NEW cause \in Causes
    PROVE LET t == Failed(s, a, cause) IN
          /\ t \in State /\ Len(t.attempts) = Len(s.attempts)
          /\ DOMAIN t.attempts = DOMAIN s.attempts
          /\ \A b \in DOMAIN s.attempts :
                /\ t.attempts[b].job = s.attempts[b].job
                /\ t.attempts[b].candidate = s.attempts[b].candidate
                /\ b # a => t.attempts[b] = s.attempts[b]
          /\ t.attempts[a].state \in {"cancelled", "failed"}
          /\ \A k \in Jobs : k # s.attempts[a].job => t.jobs[k] = s.jobs[k]
          /\ t.jobs[s.attempts[a].job] \in {"cancelled", "retryable", "blocked"}
          /\ t.breaker = (s.breaker \/ cause = "violation")
  <1> DEFINE st == IF cause = "cancelled" THEN "cancelled" ELSE "failed"
             u == AttemptTo(s, a, st, cause)
             j == s.attempts[a].job
             v == JobTo(u, j, JobAfter(cause))
             t == Failed(s, a, cause)
  <1>1. st \in {"cancelled", "failed"} /\ st \in AttemptStates
    BY DEF AttemptStates
  <1>2. JobAfter(cause) \in {"cancelled", "retryable", "blocked"} /\ JobAfter(cause) \in JobStates
    BY DEF JobAfter, JobStates
  <1>3. j \in Jobs
    BY AttemptsOf
  <1> HIDE DEF st, j
  <1>4. /\ u \in State /\ u.jobs = s.jobs /\ u.breaker = s.breaker
        /\ Len(u.attempts) = Len(s.attempts) /\ DOMAIN u.attempts = DOMAIN s.attempts
        /\ \A b \in DOMAIN s.attempts :
              /\ u.attempts[b].job = s.attempts[b].job
              /\ u.attempts[b].candidate = s.attempts[b].candidate
              /\ b # a => u.attempts[b] = s.attempts[b]
        /\ u.attempts[a].state = st
    BY <1>1, AttemptToFacts
  <1> HIDE DEF u
  <1>5. /\ v \in State /\ v.attempts = u.attempts /\ v.breaker = u.breaker
        /\ v.jobs[j] = JobAfter(cause) /\ \A k \in Jobs : k # j => v.jobs[k] = u.jobs[k]
    BY <1>2, <1>3, <1>4, JobToFacts
  <1>6. t = [v EXCEPT !.breaker = @ \/ cause = "violation"]
    BY DEF Failed, u, st, j
  <1> HIDE DEF v, t
  <1>7. /\ t \in State /\ t.jobs = v.jobs /\ t.attempts = v.attempts
        /\ t.breaker = (v.breaker \/ cause = "violation")
    BY <1>5, <1>6 DEF State
  <1>8. QED BY <1>1, <1>2, <1>4, <1>5, <1>7 DEF t, j

LEMMA CompletedFacts ==
    ASSUME NEW s \in State, NEW a \in DOMAIN s.attempts
    PROVE LET t == Completed(s, a) IN
          /\ t \in State /\ Len(t.attempts) = Len(s.attempts)
          /\ DOMAIN t.attempts = DOMAIN s.attempts
          /\ \A b \in DOMAIN s.attempts :
                /\ t.attempts[b].job = s.attempts[b].job
                /\ t.attempts[b].candidate = s.attempts[b].candidate
                /\ b # a => t.attempts[b] = s.attempts[b]
          /\ t.attempts[a].state = "succeeded"
          /\ \A k \in Jobs : k # s.attempts[a].job => t.jobs[k] = s.jobs[k]
          /\ t.jobs[s.attempts[a].job] = "succeeded"
          /\ t.breaker = s.breaker
  <1> DEFINE u == AttemptTo(s, a, "succeeded", "none")
             j == s.attempts[a].job
  <1>1. "succeeded" \in AttemptStates /\ "succeeded" \in JobStates /\ "none" \in Causes
    BY DEF AttemptStates, JobStates, Causes
  <1>2. j \in Jobs
    BY AttemptsOf
  <1> HIDE DEF j
  <1>3. /\ u \in State /\ u.jobs = s.jobs /\ u.breaker = s.breaker
        /\ Len(u.attempts) = Len(s.attempts) /\ DOMAIN u.attempts = DOMAIN s.attempts
        /\ \A b \in DOMAIN s.attempts :
              /\ u.attempts[b].job = s.attempts[b].job
              /\ u.attempts[b].candidate = s.attempts[b].candidate
              /\ b # a => u.attempts[b] = s.attempts[b]
        /\ u.attempts[a].state = "succeeded"
    BY <1>1, AttemptToFacts
  <1>4. Completed(s, a) = JobTo(u, j, "succeeded")
    BY DEF Completed, j
  <1> HIDE DEF u
  <1>5. QED BY <1>1, <1>2, <1>3, <1>4, JobToFacts DEF j

LEMMA FailedKeeps ==
    ASSUME NEW s, NEW res, NEW a \in DOMAIN s.attempts, NEW cause \in Causes, StateOK(s, res)
    PROVE StateOK(Failed(s, a, cause), res) /\ Follows(Failed(s, a, cause), s)
  <1>1. s \in State
    BY DEF StateOK
  <1> DEFINE t == Failed(s, a, cause)
  <1>2. /\ t \in State /\ Len(t.attempts) = Len(s.attempts)
        /\ DOMAIN t.attempts = DOMAIN s.attempts
        /\ \A b \in DOMAIN s.attempts :
              /\ t.attempts[b].job = s.attempts[b].job
              /\ b # a => t.attempts[b] = s.attempts[b]
        /\ t.attempts[a].state \in {"cancelled", "failed"}
        /\ \A k \in Jobs : k # s.attempts[a].job => t.jobs[k] = s.jobs[k]
        /\ t.jobs[s.attempts[a].job] \in {"cancelled", "retryable", "blocked"}
    BY <1>1, FailedFacts
  <1> HIDE DEF t
  <1>3. /\ t.attempts[a].state \notin InFlight /\ t.attempts[a].state # "succeeded"
        /\ \A b \in DOMAIN s.attempts : b # a => t.attempts[b].state = s.attempts[b].state
        /\ t.jobs[s.attempts[a].job] \notin InFlight
        /\ t.jobs[s.attempts[a].job] # "succeeded"
    BY <1>2 DEF InFlight
  <1>4. /\ t.attempts[a].state = "succeeded" => a \in res
        /\ t.jobs[s.attempts[a].job] = "succeeded" => a \in res
    BY <1>3
  <1>5. \A b \in DOMAIN s.attempts :
              /\ t.attempts[b].job = s.attempts[b].job
              /\ b # a => t.attempts[b].state = s.attempts[b].state
    BY <1>2
  <1>6. StateOK(t, res) /\ Follows(t, s)
    BY <1>2, <1>3, <1>4, <1>5, AttemptEnds
  <1>7. QED BY <1>6 DEF t

LEMMA CompletedKeeps ==
    ASSUME NEW s, NEW res, NEW a \in DOMAIN s.attempts, a \in res, StateOK(s, res)
    PROVE StateOK(Completed(s, a), res) /\ Follows(Completed(s, a), s)
  <1>1. s \in State
    BY DEF StateOK
  <1> DEFINE t == Completed(s, a)
  <1>2. /\ t \in State /\ Len(t.attempts) = Len(s.attempts)
        /\ DOMAIN t.attempts = DOMAIN s.attempts
        /\ \A b \in DOMAIN s.attempts :
              /\ t.attempts[b].job = s.attempts[b].job
              /\ b # a => t.attempts[b] = s.attempts[b]
        /\ t.attempts[a].state = "succeeded"
        /\ \A k \in Jobs : k # s.attempts[a].job => t.jobs[k] = s.jobs[k]
        /\ t.jobs[s.attempts[a].job] = "succeeded"
    BY <1>1, CompletedFacts
  <1> HIDE DEF t
  <1>3. "succeeded" \notin InFlight
    BY DEF InFlight
  <1>4. StateOK(t, res) /\ Follows(t, s)
    BY <1>2, <1>3, AttemptEnds
  <1>5. QED BY <1>4 DEF t

LEMMA InterruptedFacts ==
    ASSUME mem \in State, NEW a \in DOMAIN mem.attempts
    PROVE InterruptedJob(a) = Failed(mem, a, "interrupted")
  <1> DEFINE u == AttemptTo(mem, a, "failed", "interrupted")
             j == mem.attempts[a].job
             v == JobTo(u, j, "retryable")
  <1>1. /\ "failed" \in AttemptStates /\ "interrupted" \in Causes /\ "retryable" \in JobStates
        /\ JobAfter("interrupted") = "retryable"
    BY DEF AttemptStates, Causes, JobStates, JobAfter
  <1>2. u \in State /\ u.breaker = mem.breaker /\ mem.breaker \in BOOLEAN
    BY <1>1, AttemptToFacts DEF State
  <1>3. v \in State /\ v.breaker = mem.breaker
    BY <1>1, <1>2, AttemptsOf, JobToFacts
  <1>4. Failed(mem, a, "interrupted") = [v EXCEPT !.breaker = @ \/ FALSE]
    BY <1>1 DEF Failed
  <1>5. InterruptedJob(a) = v
    BY DEF InterruptedJob
  <1> HIDE DEF v
  <1>6. (v.breaker \/ FALSE) = v.breaker
    BY <1>2, <1>3
  <1>7. [v EXCEPT !.breaker = v.breaker] = v
    BY <1>3 DEF State
  <1>8. QED BY <1>4, <1>5, <1>6, <1>7

LEMMA Rewritten ==
    ASSUME NEW s \in State, NEW a \in DOMAIN s.attempts, NEW r \in AttemptRecord
    PROVE LET t == [s EXCEPT !.attempts[a] = r] IN
          /\ t \in State /\ t.jobs = s.jobs /\ t.breaker = s.breaker
          /\ Len(t.attempts) = Len(s.attempts) /\ DOMAIN t.attempts = DOMAIN s.attempts
          /\ t.attempts[a] = r
          /\ \A b \in DOMAIN s.attempts : b # a => t.attempts[b] = s.attempts[b]
  <1> DEFINE t == [s EXCEPT !.attempts[a] = r]
  <1>1. s.attempts \in Seq(AttemptRecord)
    BY AttemptsOf
  <1>2. t = [s EXCEPT !.attempts = [s.attempts EXCEPT ![a] = r]]
    BY <1>1 DEF State
  <1>3. [s.attempts EXCEPT ![a] = r] \in Seq(AttemptRecord)
    BY <1>1
  <1> HIDE DEF t
  <1>4. t.attempts = [s.attempts EXCEPT ![a] = r] /\ t.jobs = s.jobs /\ t.breaker = s.breaker
        /\ t \in State
    BY <1>2, <1>3 DEF State
  <1>5. QED BY <1>1, <1>3, <1>4 DEF t

LEMMA CandidateFacts ==
    ASSUME NEW s \in State, NEW a \in DOMAIN s.attempts
    PROVE LET t == [s EXCEPT !.attempts[a].candidate = TRUE] IN
          /\ t \in State /\ t.jobs = s.jobs /\ t.breaker = s.breaker
          /\ Len(t.attempts) = Len(s.attempts) /\ DOMAIN t.attempts = DOMAIN s.attempts
          /\ t.attempts[a].job = s.attempts[a].job /\ t.attempts[a].state = s.attempts[a].state
          /\ t.attempts[a].candidate
          /\ \A b \in DOMAIN s.attempts : b # a => t.attempts[b] = s.attempts[b]
  <1> DEFINE r == [s.attempts[a] EXCEPT !.candidate = TRUE]
  <1>1. s.attempts[a] \in AttemptRecord
    BY AttemptsOf
  <1>2. /\ r \in AttemptRecord /\ r.job = s.attempts[a].job /\ r.state = s.attempts[a].state
        /\ r.candidate
    BY <1>1 DEF AttemptRecord
  <1>3. [s EXCEPT !.attempts[a].candidate = TRUE] = [s EXCEPT !.attempts[a] = r]
    OBVIOUS
  <1> HIDE DEF r
  <1>4. QED BY <1>2, <1>3, Rewritten

LEMMA CauseFacts ==
    ASSUME NEW s \in State, NEW a \in DOMAIN s.attempts, NEW cause \in Causes
    PROVE LET t == [s EXCEPT !.attempts[a].cause = cause] IN
          /\ t \in State /\ t.jobs = s.jobs /\ t.breaker = s.breaker
          /\ Len(t.attempts) = Len(s.attempts) /\ DOMAIN t.attempts = DOMAIN s.attempts
          /\ t.attempts[a].job = s.attempts[a].job /\ t.attempts[a].state = s.attempts[a].state
          /\ t.attempts[a].candidate = s.attempts[a].candidate
          /\ \A b \in DOMAIN s.attempts : b # a => t.attempts[b] = s.attempts[b]
  <1> DEFINE r == [s.attempts[a] EXCEPT !.cause = cause]
  <1>1. s.attempts[a] \in AttemptRecord
    BY AttemptsOf
  <1>2. /\ r \in AttemptRecord /\ r.job = s.attempts[a].job /\ r.state = s.attempts[a].state
        /\ r.candidate = s.attempts[a].candidate
    BY <1>1 DEF AttemptRecord
  <1>3. [s EXCEPT !.attempts[a].cause = cause] = [s EXCEPT !.attempts[a] = r]
    OBVIOUS
  <1> HIDE DEF r
  <1>4. QED BY <1>2, <1>3, Rewritten

\* Nothing but the details of an Attempt changes.
LEMMA SameStates ==
    ASSUME NEW s, NEW res, NEW t \in State, StateOK(s, res), t.jobs = s.jobs,
           Len(t.attempts) = Len(s.attempts), DOMAIN t.attempts = DOMAIN s.attempts,
           \A b \in DOMAIN s.attempts :
              /\ t.attempts[b].job = s.attempts[b].job
              /\ t.attempts[b].state = s.attempts[b].state
    PROVE StateOK(t, res) /\ Follows(t, s)
  BY DEF StateOK, FlightOK, Follows

LEMMA CandidateKeeps ==
    ASSUME NEW s, NEW res, NEW a \in DOMAIN s.attempts, StateOK(s, res)
    PROVE /\ StateOK([s EXCEPT !.attempts[a].candidate = TRUE], res)
          /\ Follows([s EXCEPT !.attempts[a].candidate = TRUE], s)
  <1> DEFINE t == [s EXCEPT !.attempts[a].candidate = TRUE]
  <1>1. s \in State
    BY DEF StateOK
  <1>2. /\ t \in State /\ t.jobs = s.jobs
        /\ Len(t.attempts) = Len(s.attempts) /\ DOMAIN t.attempts = DOMAIN s.attempts
        /\ t.attempts[a].job = s.attempts[a].job /\ t.attempts[a].state = s.attempts[a].state
        /\ \A b \in DOMAIN s.attempts : b # a => t.attempts[b] = s.attempts[b]
    BY <1>1, CandidateFacts
  <1> HIDE DEF t
  <1>3. \A b \in DOMAIN s.attempts :
              /\ t.attempts[b].job = s.attempts[b].job
              /\ t.attempts[b].state = s.attempts[b].state
    BY <1>2
  <1>4. StateOK(t, res) /\ Follows(t, s)
    BY <1>2, <1>3, SameStates
  <1>5. QED BY <1>4 DEF t

LEMMA CauseKeeps ==
    ASSUME NEW s, NEW res, NEW a \in DOMAIN s.attempts, NEW cause \in Causes, StateOK(s, res)
    PROVE /\ StateOK([s EXCEPT !.attempts[a].cause = cause], res)
          /\ Follows([s EXCEPT !.attempts[a].cause = cause], s)
  <1> DEFINE t == [s EXCEPT !.attempts[a].cause = cause]
  <1>1. s \in State
    BY DEF StateOK
  <1>2. /\ t \in State /\ t.jobs = s.jobs
        /\ Len(t.attempts) = Len(s.attempts) /\ DOMAIN t.attempts = DOMAIN s.attempts
        /\ t.attempts[a].job = s.attempts[a].job /\ t.attempts[a].state = s.attempts[a].state
        /\ \A b \in DOMAIN s.attempts : b # a => t.attempts[b] = s.attempts[b]
    BY <1>1, CauseFacts
  <1> HIDE DEF t
  <1>3. \A b \in DOMAIN s.attempts :
              /\ t.attempts[b].job = s.attempts[b].job
              /\ t.attempts[b].state = s.attempts[b].state
    BY <1>2
  <1>4. StateOK(t, res) /\ Follows(t, s)
    BY <1>2, <1>3, SameStates
  <1>5. QED BY <1>4 DEF t

\* The Attempt of a running Job and the Job are being cancelled.
CancellingFrom(s, a) ==
    JobTo([s EXCEPT !.attempts[a].state = "cancelling"], s.attempts[a].job, "cancelling")

LEMMA CancelFacts ==
    ASSUME NEW s \in State, NEW a \in DOMAIN s.attempts
    PROVE LET t == CancellingFrom(s, a) IN
          /\ t \in State /\ t.breaker = s.breaker
          /\ Len(t.attempts) = Len(s.attempts) /\ DOMAIN t.attempts = DOMAIN s.attempts
          /\ t.attempts[a].job = s.attempts[a].job /\ t.attempts[a].state = "cancelling"
          /\ t.attempts[a].candidate = s.attempts[a].candidate
          /\ \A b \in DOMAIN s.attempts : b # a => t.attempts[b] = s.attempts[b]
          /\ t.jobs[s.attempts[a].job] = "cancelling"
          /\ \A k \in Jobs : k # s.attempts[a].job => t.jobs[k] = s.jobs[k]
  <1> DEFINE r == [s.attempts[a] EXCEPT !.state = "cancelling"]
             u == [s EXCEPT !.attempts[a] = r]
             j == s.attempts[a].job
  <1>1. s.attempts[a] \in AttemptRecord /\ j \in Jobs
        /\ "cancelling" \in AttemptStates /\ "cancelling" \in JobStates
    BY AttemptsOf DEF AttemptStates, JobStates
  <1>2. /\ r \in AttemptRecord /\ r.job = s.attempts[a].job /\ r.state = "cancelling"
        /\ r.candidate = s.attempts[a].candidate
    BY <1>1 DEF AttemptRecord
  <1>3. [s EXCEPT !.attempts[a].state = "cancelling"] = u
    OBVIOUS
  <1>4. CancellingFrom(s, a) = JobTo(u, j, "cancelling")
    BY <1>3 DEF CancellingFrom
  <1> HIDE DEF r
  <1>5. /\ u \in State /\ u.jobs = s.jobs /\ u.breaker = s.breaker
        /\ Len(u.attempts) = Len(s.attempts) /\ DOMAIN u.attempts = DOMAIN s.attempts
        /\ u.attempts[a] = r
        /\ \A b \in DOMAIN s.attempts : b # a => u.attempts[b] = s.attempts[b]
    BY <1>2, Rewritten
  <1> HIDE DEF u
  <1>6. QED BY <1>1, <1>2, <1>4, <1>5, JobToFacts

LEMMA CancelKeeps ==
    ASSUME NEW s, NEW res, NEW a \in DOMAIN s.attempts, StateOK(s, res),
           s.jobs[s.attempts[a].job] \in InFlight
    PROVE StateOK(CancellingFrom(s, a), res) /\ Follows(CancellingFrom(s, a), s)
  <1> DEFINE t == CancellingFrom(s, a)
             j == s.attempts[a].job
  <1>1. s \in State
    BY DEF StateOK
  <1>2. /\ t \in State
        /\ Len(t.attempts) = Len(s.attempts) /\ DOMAIN t.attempts = DOMAIN s.attempts
        /\ t.attempts[a].job = j /\ t.attempts[a].state = "cancelling"
        /\ \A b \in DOMAIN s.attempts : b # a => t.attempts[b] = s.attempts[b]
        /\ t.jobs[j] = "cancelling"
        /\ \A k \in Jobs : k # j => t.jobs[k] = s.jobs[k]
    BY <1>1, CancelFacts
  <1>3. j \in Jobs
    BY <1>1, AttemptsOf
  <1> HIDE DEF t
  <1>4. \A i \in Jobs : t.jobs[i] \in InFlight => i = j
    BY <1>2, <1>3 DEF StateOK, FlightOK
  <1>5. FlightOK(t)
    BY <1>2, <1>3, <1>4 DEF FlightOK, InFlight
  <1>6. \A b \in DOMAIN t.attempts : t.attempts[b].state = "succeeded" => b \in res
    BY <1>2 DEF StateOK
  <1>7. ASSUME NEW k \in Jobs, t.jobs[k] = "succeeded"
        PROVE \E b \in res : b \in DOMAIN t.attempts /\ t.attempts[b].job = k
    <2>1. k # j /\ s.jobs[k] = "succeeded"
      BY <1>2, <1>7
    <2>2. PICK b \in res : b \in DOMAIN s.attempts /\ s.attempts[b].job = k
      BY <2>1 DEF StateOK
    <2>3. QED BY <1>2, <2>1, <2>2
  <1>8. StateOK(t, res)
    BY <1>2, <1>5, <1>6, <1>7 DEF StateOK
  <1>9. Follows(t, s)
    BY <1>2 DEF Follows
  <1>10. QED BY <1>8, <1>9 DEF t

\* A new Attempt of j, while no Job is in flight.
StartedFrom(s, j, expected) ==
    [JobTo(s, j, "running") EXCEPT !.attempts = Append(@,
        [job |-> j, state |-> "running", expected |-> expected,
         candidate |-> FALSE, cause |-> "none"])]

LEMMA StartFacts ==
    ASSUME NEW s \in State, NEW j \in Jobs, NEW expected \in Nat
    PROVE LET t == StartedFrom(s, j, expected)
              n == Len(s.attempts) + 1 IN
          /\ t \in State /\ t.breaker = s.breaker
          /\ Len(t.attempts) = n /\ DOMAIN t.attempts = 1..n
          /\ t.attempts[n].job = j /\ t.attempts[n].state = "running"
          /\ n \notin DOMAIN s.attempts
          /\ \A b \in DOMAIN s.attempts : b \in DOMAIN t.attempts /\ t.attempts[b] = s.attempts[b]
          /\ t.jobs[j] = "running"
          /\ \A k \in Jobs : k # j => t.jobs[k] = s.jobs[k]
          /\ n \in Nat
  <1> DEFINE r == [job |-> j, state |-> "running", expected |-> expected,
                   candidate |-> FALSE, cause |-> "none"]
             u == JobTo(s, j, "running")
             t == StartedFrom(s, j, expected)
  <1>1. r \in AttemptRecord /\ r.job = j /\ r.state = "running"
    BY DEF AttemptRecord, AttemptStates, Causes
  <1>2. /\ u \in State /\ u.attempts = s.attempts /\ u.breaker = s.breaker
        /\ u.jobs[j] = "running" /\ \A k \in Jobs : k # j => u.jobs[k] = s.jobs[k]
    BY JobToFacts DEF JobStates
  <1>3. t = [u EXCEPT !.attempts = Append(@, r)]
    BY DEF StartedFrom
  <1>4. s.attempts \in Seq(AttemptRecord) /\ Append(s.attempts, r) \in Seq(AttemptRecord)
    BY <1>1, AttemptsOf
  <1> HIDE DEF u, t, r
  <1>5. t \in State /\ t.attempts = Append(s.attempts, r) /\ t.jobs = u.jobs /\ t.breaker = s.breaker
    BY <1>2, <1>3, <1>4 DEF State
  <1>6. QED BY <1>1, <1>2, <1>4, <1>5 DEF t

LEMMA StartKeeps ==
    ASSUME NEW s, NEW res, NEW j \in Jobs, NEW expected \in Nat, StateOK(s, res),
           Len(s.attempts) < MaxAttempts, \A k \in Jobs : s.jobs[k] \notin InFlight
    PROVE StateOK(StartedFrom(s, j, expected), res) /\ Follows(StartedFrom(s, j, expected), s)
  <1> DEFINE t == StartedFrom(s, j, expected)
             n == Len(s.attempts) + 1
  <1>1. s \in State /\ MaxAttempts \in Nat /\ Len(s.attempts) \in Nat
    BY JobsAssumption, AttemptsOf DEF StateOK
  <1>2. /\ t \in State /\ Len(t.attempts) = n /\ DOMAIN t.attempts = 1..n
        /\ t.attempts[n].job = j /\ t.attempts[n].state = "running"
        /\ \A b \in DOMAIN s.attempts : b \in DOMAIN t.attempts /\ t.attempts[b] = s.attempts[b]
        /\ t.jobs[j] = "running"
        /\ \A k \in Jobs : k # j => t.jobs[k] = s.jobs[k]
    BY <1>1, StartFacts
  <1>3. n \in DOMAIN t.attempts /\ n <= MaxAttempts /\ \A b \in DOMAIN t.attempts : b = n \/ b \in DOMAIN s.attempts
    BY <1>1, <1>2, AttemptsOf
  <1> HIDE DEF t, n
  <1>4. FlightOK(t)
    BY <1>2, <1>3 DEF FlightOK, InFlight
  <1>5. \A b \in DOMAIN t.attempts : t.attempts[b].state = "succeeded" => b \in res
    BY <1>2, <1>3 DEF StateOK
  <1>6. ASSUME NEW k \in Jobs, t.jobs[k] = "succeeded"
        PROVE \E b \in res : b \in DOMAIN t.attempts /\ t.attempts[b].job = k
    <2>1. s.jobs[k] = "succeeded"
      BY <1>2, <1>6
    <2>2. QED BY <1>2, <2>1 DEF StateOK
  <1>7. StateOK(t, res)
    BY <1>2, <1>3, <1>4, <1>5, <1>6 DEF StateOK
  <1>8. Follows(t, s)
    BY <1>2 DEF Follows
  <1>9. QED BY <1>7, <1>8 DEF t

-----------------------------------------------------------------------------
(* The restart *)

Lost(s, j) == s.jobs[j] \in InFlight /\ AttemptOf(s, j, InFlight) # 0

LEMMA RecoveredFacts ==
    ASSUME NEW s \in State
    PROVE LET t == Recovered(s)
              won(j) == Lost(s, j) /\ Published(s, AttemptOf(s, j, InFlight)) IN
          /\ t \in State /\ Len(t.attempts) = Len(s.attempts)
          /\ DOMAIN t.attempts = DOMAIN s.attempts /\ t.breaker = FALSE
          /\ \A a \in DOMAIN s.attempts :
                /\ t.attempts[a].job = s.attempts[a].job
                /\ t.attempts[a].candidate = s.attempts[a].candidate
                /\ won(s.attempts[a].job) /\ a = AttemptOf(s, s.attempts[a].job, InFlight)
                      => t.attempts[a].state = "succeeded"
                /\ Lost(s, s.attempts[a].job) /\ ~won(s.attempts[a].job)
                      /\ a = AttemptOf(s, s.attempts[a].job, InFlight)
                      => t.attempts[a].state \in {"cancelled", "failed"}
                /\ ~(Lost(s, s.attempts[a].job) /\ a = AttemptOf(s, s.attempts[a].job, InFlight))
                      => t.attempts[a] = s.attempts[a]
          /\ \A j \in Jobs :
                /\ s.jobs[j] = "queued" => t.jobs[j] = "awaiting_confirmation"
                /\ won(j) => t.jobs[j] = "succeeded"
                /\ Lost(s, j) /\ ~won(j) => t.jobs[j] \in {"cancelled", "retryable"}
                /\ s.jobs[j] # "queued" /\ ~Lost(s, j) => t.jobs[j] = s.jobs[j]
  <1> DEFINE found(j) == AttemptOf(s, j, InFlight)
             lost == {j \in Jobs : s.jobs[j] \in InFlight /\ found(j) # 0}
             won == {j \in lost : Published(s, found(j))}
             cause(j) == IF s.jobs[j] = "cancelling" THEN "cancelled" ELSE "interrupted"
             jobs == [j \in Jobs |->
                    CASE s.jobs[j] = "queued" -> "awaiting_confirmation"
                      [] j \in won -> "succeeded"
                      [] j \in lost \ won -> JobAfter(cause(j))
                      [] OTHER -> s.jobs[j]]
             after(a) ==
                    LET t == s.attempts[a] IN
                    CASE t.job \in won /\ a = found(t.job) ->
                            [t EXCEPT !.state = "succeeded", !.cause = "none"]
                      [] t.job \in lost \ won /\ a = found(t.job) ->
                            [t EXCEPT !.cause = cause(t.job),
                                      !.state = IF cause(t.job) = "cancelled" THEN "cancelled"
                                                                             ELSE "failed"]
                      [] OTHER -> t
             attempts == [a \in DOMAIN s.attempts |-> after(a)]
  <1>1. Recovered(s) = [jobs |-> jobs, attempts |-> attempts, breaker |-> FALSE]
    BY DEF Recovered
  <1>2. \A j \in Jobs : cause(j) \in {"cancelled", "interrupted"}
          /\ JobAfter(cause(j)) \in {"cancelled", "retryable"}
    BY DEF JobAfter
  <1>3. \A j \in Jobs : j \in lost <=> Lost(s, j)
    BY DEF Lost
  <1>4. \A j \in Jobs : j \in won <=> Lost(s, j) /\ Published(s, AttemptOf(s, j, InFlight))
    BY DEF Lost
  <1>5. \A j \in Jobs : s.jobs[j] = "queued" => j \notin lost /\ j \notin won
    BY DEF InFlight
  <1> HIDE DEF found, lost, won, cause
  <1>5a. \A j \in won : j \in lost
    BY DEF won
  <1>6. ASSUME NEW j \in Jobs
        PROVE /\ jobs[j] \in JobStates
              /\ s.jobs[j] = "queued" => jobs[j] = "awaiting_confirmation"
              /\ j \in won => jobs[j] = "succeeded"
              /\ j \in lost /\ j \notin won => jobs[j] \in {"cancelled", "retryable"}
              /\ s.jobs[j] # "queued" /\ j \notin lost => jobs[j] = s.jobs[j]
    <2>1. s.jobs[j] \in JobStates
      BY AttemptsOf
    <2>2. CASE s.jobs[j] = "queued"
      BY <2>2, <1>5 DEF JobStates
    <2>3. CASE s.jobs[j] # "queued" /\ j \in won
      BY <2>3, <1>5a DEF JobStates
    <2>4. CASE s.jobs[j] # "queued" /\ j \in lost /\ j \notin won
      BY <2>4, <1>2 DEF JobStates
    <2>5. CASE s.jobs[j] # "queued" /\ j \notin lost
      BY <2>1, <2>5, <1>5a
    <2>6. QED BY <2>2, <2>3, <2>4, <2>5
  <1>7. ASSUME NEW a \in DOMAIN s.attempts
        PROVE LET j == s.attempts[a].job IN
              /\ after(a) \in AttemptRecord /\ after(a).job = j
              /\ after(a).candidate = s.attempts[a].candidate
              /\ j \in won /\ a = found(j) => after(a).state = "succeeded"
              /\ j \in lost /\ j \notin won /\ a = found(j)
                    => after(a).state \in {"cancelled", "failed"}
              /\ ~(j \in lost /\ a = found(j)) => after(a) = s.attempts[a]
    <2> DEFINE j == s.attempts[a].job
               t == s.attempts[a]
    <2>1. t \in AttemptRecord /\ j \in Jobs
      BY AttemptsOf
    <2>2. CASE j \in won /\ a = found(j)
      <3>1. after(a) = [t EXCEPT !.state = "succeeded", !.cause = "none"]
        BY <2>2
      <3>2. QED BY <2>1, <2>2, <3>1, <1>5a DEF AttemptRecord, AttemptStates, Causes
    <2>3. CASE j \in lost /\ j \notin won /\ a = found(j)
      <3>1. after(a) = [t EXCEPT !.cause = cause(j),
                                 !.state = IF cause(j) = "cancelled" THEN "cancelled" ELSE "failed"]
        BY <2>3
      <3>2. QED BY <2>1, <2>3, <3>1, <1>2 DEF AttemptRecord, AttemptStates, Causes
    <2>4. CASE ~(j \in lost /\ a = found(j))
      <3>1. after(a) = t
        BY <2>4, <1>5a
      <3>2. QED BY <2>1, <2>4, <3>1, <1>5a
    <2>5. QED BY <2>2, <2>3, <2>4
  <1> HIDE DEF after
  <1>8. jobs \in [Jobs -> JobStates]
    BY <1>6
  <1>9. attempts \in Seq(AttemptRecord) /\ Len(attempts) = Len(s.attempts)
        /\ DOMAIN attempts = DOMAIN s.attempts
    <2>1. DOMAIN s.attempts = 1..Len(s.attempts) /\ Len(s.attempts) \in Nat
      BY AttemptsOf
    <2>2. attempts \in [1..Len(s.attempts) -> AttemptRecord]
      BY <2>1, <1>7
    <2>3. QED BY <2>1, <2>2
  <1>10. /\ Recovered(s) \in State /\ Recovered(s).jobs = jobs /\ Recovered(s).attempts = attempts
         /\ Recovered(s).breaker = FALSE
    BY <1>1, <1>8, <1>9 DEF State
  <1>11. \A a \in DOMAIN s.attempts : attempts[a] = after(a) /\ s.attempts[a].job \in Jobs
    BY AttemptsOf
  <1> HIDE DEF jobs, attempts
  <1>12. \A j : found(j) = AttemptOf(s, j, InFlight)
    BY DEF found
  <1>13. \A j \in Jobs :
                /\ s.jobs[j] = "queued" => jobs[j] = "awaiting_confirmation"
                /\ Lost(s, j) /\ Published(s, AttemptOf(s, j, InFlight)) => jobs[j] = "succeeded"
                /\ Lost(s, j) /\ ~(Lost(s, j) /\ Published(s, AttemptOf(s, j, InFlight)))
                      => jobs[j] \in {"cancelled", "retryable"}
                /\ s.jobs[j] # "queued" /\ ~Lost(s, j) => jobs[j] = s.jobs[j]
    BY <1>3, <1>4, <1>6
  <1>14. QED BY <1>3, <1>4, <1>7, <1>9, <1>10, <1>11, <1>12, <1>13

LEMMA RecoveredKeeps ==
    ASSUME NEW s, StateOK(s, results)
    PROVE /\ StateOK(Recovered(s), results) /\ Follows(Recovered(s), s)
          /\ \A j \in Jobs : Recovered(s).jobs[j] \notin InFlight
  <1> DEFINE t == Recovered(s)
             won(j) == Lost(s, j) /\ Published(s, AttemptOf(s, j, InFlight))
  <1>1. s \in State
    BY DEF StateOK
  <1>2. /\ t \in State /\ Len(t.attempts) = Len(s.attempts)
        /\ DOMAIN t.attempts = DOMAIN s.attempts
        /\ \A a \in DOMAIN s.attempts :
              /\ t.attempts[a].job = s.attempts[a].job
              /\ won(s.attempts[a].job) /\ a = AttemptOf(s, s.attempts[a].job, InFlight)
                    => t.attempts[a].state = "succeeded"
              /\ Lost(s, s.attempts[a].job) /\ ~won(s.attempts[a].job)
                    /\ a = AttemptOf(s, s.attempts[a].job, InFlight)
                    => t.attempts[a].state \in {"cancelled", "failed"}
              /\ ~(Lost(s, s.attempts[a].job) /\ a = AttemptOf(s, s.attempts[a].job, InFlight))
                    => t.attempts[a] = s.attempts[a]
        /\ \A j \in Jobs :
              /\ s.jobs[j] = "queued" => t.jobs[j] = "awaiting_confirmation"
              /\ won(j) => t.jobs[j] = "succeeded"
              /\ Lost(s, j) /\ ~won(j) => t.jobs[j] \in {"cancelled", "retryable"}
              /\ s.jobs[j] # "queued" /\ ~Lost(s, j) => t.jobs[j] = s.jobs[j]
    BY <1>1, RecoveredFacts
  <1> HIDE DEF t
  <1>3. \A j \in Jobs : s.jobs[j] \in InFlight => Lost(s, j)
    BY <1>1, Found DEF StateOK, FlightOK, Lost
  <1>4. \A j \in Jobs : won(j) => AttemptOf(s, j, InFlight) \in results
          /\ AttemptOf(s, j, InFlight) \in DOMAIN s.attempts
          /\ s.attempts[AttemptOf(s, j, InFlight)].job = j
    BY <1>1, Found DEF Lost, Published
  <1>5. \A j \in Jobs : t.jobs[j] \notin InFlight
    BY <1>2, <1>3 DEF InFlight
  <1>6. FlightOK(t)
    BY <1>5 DEF FlightOK
  <1>7. ASSUME NEW a \in DOMAIN t.attempts, t.attempts[a].state = "succeeded"
        PROVE a \in results
    <2>1. a \in DOMAIN s.attempts /\ s.attempts[a].job \in Jobs
      BY <1>1, <1>2, AttemptsOf
    <2>2. CASE won(s.attempts[a].job) /\ a = AttemptOf(s, s.attempts[a].job, InFlight)
      BY <1>4, <2>1, <2>2
    <2>3. CASE ~(Lost(s, s.attempts[a].job) /\ a = AttemptOf(s, s.attempts[a].job, InFlight))
      <3>1. t.attempts[a] = s.attempts[a]
        BY <1>2, <2>1, <2>3
      <3>2. QED BY <1>7, <2>1, <3>1 DEF StateOK
    <2>4. QED BY <1>2, <1>7, <2>1, <2>2, <2>3
  <1>8. ASSUME NEW j \in Jobs, t.jobs[j] = "succeeded"
        PROVE \E a \in results : a \in DOMAIN t.attempts /\ t.attempts[a].job = j
    <2>1. CASE won(j)
      BY <1>2, <1>4, <2>1
    <2>2. CASE ~won(j)
      <3>1. s.jobs[j] = "succeeded"
        BY <1>2, <1>8, <2>2
      <3>2. QED BY <1>2, <3>1 DEF StateOK
    <2>3. QED BY <2>1, <2>2
  <1>9. StateOK(t, results)
    BY <1>2, <1>6, <1>7, <1>8 DEF StateOK
  <1>10. Follows(t, s)
    BY <1>2 DEF Follows
  <1>11. QED BY <1>5, <1>9, <1>10 DEF t

-----------------------------------------------------------------------------
(* Every mutation keeps JobsInv *)

LEMMA FollowsItself == ASSUME NEW s PROVE Follows(s, s)
  BY DEF Follows

LEMMA FollowsOn ==
    ASSUME NEW s, NEW t, NEW u, Follows(t, s), Follows(u, t)
    PROVE Follows(u, s)
  BY DEF Follows

LEMMA Number ==
    ASSUME NEW s \in State, Len(s.attempts) <= MaxAttempts
    PROVE \A a \in DOMAIN s.attempts : a \in 1..MaxAttempts /\ a \in 0..MaxAttempts /\ a # 0
  BY AttemptsOf, JobsAssumption

LEMMA TakeFacts ==
    ASSUME NEW R, NEW q \in Seq(R), q # <<>>
    PROVE /\ Head(q) = q[1] /\ 1 \in DOMAIN q /\ Head(q) \in R /\ Tail(q) \in Seq(R)
          /\ \A i \in DOMAIN Tail(q) :
                i \in Nat /\ i + 1 \in DOMAIN q /\ i + 1 # 1 /\ Tail(q)[i] = q[i + 1]
          /\ \A i \in DOMAIN q : q[i] \in R
  OBVIOUS

LEMMA AppendFacts ==
    ASSUME NEW R, NEW q \in Seq(R), NEW r \in R
    PROVE LET n == Len(q) + 1 IN
          /\ Append(q, r) \in Seq(R) /\ Append(q, r)[n] = r /\ n \in DOMAIN Append(q, r)
          /\ n \notin DOMAIN q
          /\ \A i \in DOMAIN q : Append(q, r)[i] = q[i]
          /\ \A i \in DOMAIN Append(q, r) : i \in DOMAIN q \/ i = n
          /\ \A i \in DOMAIN q : q[i] \in R
  OBVIOUS

\* A mutation takes its turn: the requests behind it stay as they are.
LEMMA Taken ==
    ASSUME JobsInv, NEW op, Take(op), Attempts \subseteq Attempts', active' = active, run' = run,
           step' \in [at : Waits, attempt : 0..MaxAttempts],
           step'.at \in OnAttempt => step'.attempt \in Attempts',
           step'.at \notin PublicationSteps, step'.at = "start" => active = 0,
           step'.at # "down",
           aborting' \in Attempts' \cup {0}, stops' = stops, processes' = processes,
           head' = head, counts' \in [edits : Nat, faults : Nat, sleeps : Nat, crashes : Nat]
    PROVE KindInv' /\ LineInv' /\ SlotInv' /\ AuthorityInv'
  <1>1. /\ queue \in Seq(Requests) /\ queue # <<>> /\ queue' = Tail(queue)
    BY DEF Take, JobsInv, KindInv
  <1>2. /\ queue' \in Seq(Requests)
        /\ \A i \in DOMAIN queue' :
                i \in Nat /\ i + 1 \in DOMAIN queue /\ queue'[i] = queue[i + 1]
    BY <1>1, TakeFacts
  <1>3. KindInv'
    BY <1>2 DEF JobsInv, KindInv
  <1>4. LineInv'
    BY <1>2 DEF JobsInv, LineInv
  <1>5. ASSUME NEW i \in DOMAIN queue', queue'[i].op = "publish"
        PROVE /\ queue'[i].attempt = active /\ run.phase = "answered"
              /\ \A k \in DOMAIN queue' : queue'[k].op = "publish" => k = i
    <2>1. queue[i + 1].op = "publish" /\ i + 1 \in DOMAIN queue /\ i \in Nat
      BY <1>2, <1>5
    <2>2. \A k \in DOMAIN queue' : queue'[k].op = "publish" => k + 1 = i + 1 /\ k \in Nat
      BY <1>2, <2>1 DEF JobsInv, SlotInv
    <2>3. QED BY <1>2, <2>1, <2>2 DEF JobsInv, SlotInv
  <1>6. SlotInv'
    BY <1>5 DEF JobsInv, SlotInv
  <1>7. AuthorityInv'
    BY DEF AuthorityInv, PublicationSteps
  <1>8. QED BY <1>3, <1>4, <1>6, <1>7

\* A mutation that changes nothing, or a Job or its Attempt.
LEMMA Changed ==
    ASSUME JobsInv, StateOK(mem', results), Follows(mem', mem), UNCHANGED <<disk, results>>
    PROVE DataInv' /\ Attempts \subseteq Attempts'
  BY FollowsOn DEF JobsInv, DataInv, Follows, Attempts

LEMMA ChangedPlainly ==
    ASSUME JobsInv, NEW op, Take(op), Quiet,
           \/ UNCHANGED <<mem, step>>
           \/ \E state : Save(state, "plain", 0) /\ StateOK(state, results) /\ Follows(state, mem)
    PROVE JobsInv' /\ Attempts \subseteq Attempts'
  <1>1. StateOK(mem', results) /\ Follows(mem', mem)
    BY FollowsItself DEF Save, JobsInv, DataInv
  <1>2. UNCHANGED <<disk, results>>
    BY DEF Quiet, projectVars
  <1>3. DataInv' /\ Attempts \subseteq Attempts'
    BY <1>1, <1>2, Changed
  <1>4. /\ step' \in [at : Waits, attempt : 0..MaxAttempts]
        /\ step'.at \notin OnAttempt /\ step'.at \notin PublicationSteps /\ step'.at # "start"
        /\ step'.at # "down"
    BY JobsAssumption DEF Save, Take, Idle, Waits, OnAttempt, PublicationSteps
  <1>5. /\ active' = active /\ run' = run /\ aborting' \in Attempts' \cup {0}
        /\ stops' = stops /\ processes' = processes /\ head' = head
        /\ counts' \in [edits : Nat, faults : Nat, sleeps : Nat, crashes : Nat]
    BY <1>3 DEF Quiet, slotVars, projectVars, JobsInv, KindInv
  <1>6. KindInv' /\ LineInv' /\ SlotInv' /\ AuthorityInv'
    BY <1>3, <1>4, <1>5, Taken
  <1>7. QED BY <1>3, <1>6 DEF JobsInv

\* The requests that wait name what they are about.
LEMMA Asked ==
    ASSUME JobsInv, NEW op, Take(op)
    PROVE /\ Head(queue) \in Requests /\ Head(queue).op = op
          /\ op \in JobCalls => Head(queue).job \in Jobs
          /\ op \in AboutAttempt => Head(queue).attempt \in Attempts
  <1>1. queue \in Seq(Requests) /\ queue # <<>>
    BY DEF Take, JobsInv, KindInv
  <1>2. Head(queue) = queue[1] /\ 1 \in DOMAIN queue /\ Head(queue) \in Requests
    BY <1>1, TakeFacts
  <1>3. QED BY <1>2 DEF Take, JobsInv, LineInv

LEMMA AsideState ==
    ASSUME JobsInv, NEW j \in Jobs, NEW st \in {"awaiting_confirmation", "blocked", "cancelled", "queued", "retryable"}
    PROVE StateOK(JobTo(mem, j, st), results) /\ Follows(JobTo(mem, j, st), mem)
  <1>1. st \in JobStates \ (InFlight \cup {"succeeded"})
    BY DEF JobStates, InFlight
  <1>2. QED BY <1>1, JobAside DEF JobsInv, DataInv

LEMMA DriftedState ==
    ASSUME JobsInv, NEW j \in Jobs
    PROVE StateOK(Drifted(j), results) /\ Follows(Drifted(j), mem)
  <1>1. StateOK(Blocked(j), results) /\ Follows(Blocked(j), mem)
    BY AsideState DEF Blocked
  <1>2. StateOK(Drifted(j), results) /\ Follows(Drifted(j), Blocked(j))
    BY <1>1, Breaks DEF Drifted
  <1>3. QED BY <1>1, <1>2, FollowsOn

LEMMA SubmitKeeps == ASSUME JobsInv, Submit PROVE JobsInv' /\ Attempts \subseteq Attempts'
  <1>1. Take("submit") /\ Quiet /\ Head(queue).job \in Jobs
    BY Asked DEF Submit, JobCalls
  <1>2. CASE Nothing
    BY <1>1, <1>2, ChangedPlainly DEF Nothing
  <1>3. CASE \E s \in {"queued", "blocked"} : Save(JobTo(mem, Head(queue).job, s), "plain", 0)
    BY <1>1, <1>3, AsideState, ChangedPlainly
  <1>4. QED BY <1>2, <1>3 DEF Submit

LEMMA ConfirmKeeps == ASSUME JobsInv, Confirm PROVE JobsInv' /\ Attempts \subseteq Attempts'
  <1>1. Take("confirm") /\ Quiet /\ Head(queue).job \in Jobs
    BY Asked DEF Confirm, JobCalls
  <1>2. CASE Nothing
    BY <1>1, <1>2, ChangedPlainly DEF Nothing
  <1>3. CASE Save(JobTo(mem, Head(queue).job, "queued"), "plain", 0)
    BY <1>1, <1>3, AsideState, ChangedPlainly
  <1>4. QED BY <1>2, <1>3 DEF Confirm

LEMMA RetryKeeps == ASSUME JobsInv, Retry PROVE JobsInv' /\ Attempts \subseteq Attempts'
  <1>1. Take("retry") /\ Quiet /\ Head(queue).job \in Jobs
    BY Asked DEF Retry, JobCalls
  <1>2. CASE Nothing
    BY <1>1, <1>2, ChangedPlainly DEF Nothing
  <1>3. CASE Save(JobTo(mem, Head(queue).job, "queued"), "plain", 0)
    BY <1>1, <1>3, AsideState, ChangedPlainly
  <1>4. QED BY <1>2, <1>3 DEF Retry

LEMMA RefreshKeeps == ASSUME JobsInv, RefreshBlocked PROVE JobsInv' /\ Attempts \subseteq Attempts'
  <1> DEFINE j == Head(queue).job
  <1>1. Take("refresh") /\ Quiet /\ j \in Jobs
    BY Asked DEF RefreshBlocked, JobCalls
  <1> HIDE DEF j
  <1>2. CASE Nothing
    BY <1>1, <1>2, ChangedPlainly DEF Nothing
  <1>3. CASE \E state \in {JobTo(mem, j, "queued"), Blocked(j), Drifted(j)} : Save(state, "plain", 0)
    BY <1>1, <1>3, AsideState, DriftedState, ChangedPlainly DEF Blocked
  <1>4. QED BY <1>2, <1>3 DEF RefreshBlocked, j

LEMMA CancelStep == ASSUME JobsInv, Cancel PROVE JobsInv' /\ Attempts \subseteq Attempts'
  <1> DEFINE j == Head(queue).job
             a == AttemptOf(mem, j, {"running"})
  <1>1. Take("cancel") /\ Quiet /\ j \in Jobs
    BY Asked DEF Cancel, JobCalls
  <1>2. mem \in State
    BY DEF JobsInv, DataInv, StateOK
  <1>3. a # 0 => a \in DOMAIN mem.attempts /\ mem.attempts[a].job = j /\ mem.attempts[a].state = "running"
    BY <1>2, Found
  <1>4. \/ Save(JobTo(mem, j, "cancelled"), "plain", 0)
        \/ Nothing
        \/ /\ mem.jobs[j] = "running" /\ a # 0
           /\ Save(JobTo([mem EXCEPT !.attempts[a].state = "cancelling"], j, "cancelling"), "cancel", a)
    BY DEF Cancel
  <1> HIDE DEF j, a
  <1>5. CASE Nothing
    BY <1>1, <1>5, ChangedPlainly DEF Nothing
  <1>6. CASE Save(JobTo(mem, j, "cancelled"), "plain", 0)
    BY <1>1, <1>6, AsideState, ChangedPlainly
  <1>7. CASE /\ mem.jobs[j] = "running" /\ a # 0
             /\ Save(JobTo([mem EXCEPT !.attempts[a].state = "cancelling"], j, "cancelling"), "cancel", a)
    <2>1. mem' = CancellingFrom(mem, a) /\ step' = [at |-> "cancel", attempt |-> a]
      BY <1>3, <1>7 DEF Save, CancellingFrom
    <2>2. a \in DOMAIN mem.attempts /\ mem.jobs[mem.attempts[a].job] \in InFlight
      BY <1>3, <1>7 DEF InFlight
    <2>3. StateOK(mem', results) /\ Follows(mem', mem)
      BY <2>1, <2>2, CancelKeeps DEF JobsInv, DataInv
    <2>4. UNCHANGED <<disk, results>>
      BY <1>1 DEF Quiet, projectVars
    <2>5. DataInv' /\ Attempts \subseteq Attempts'
      BY <2>3, <2>4, Changed
    <2>6. a \in 0..MaxAttempts
      BY <1>2, <2>2, Number DEF JobsInv, DataInv, StateOK
    <2>7. /\ step' \in [at : Waits, attempt : 0..MaxAttempts]
          /\ step'.attempt \in Attempts' /\ step'.at \notin PublicationSteps /\ step'.at # "start"
          /\ step'.at # "down"
      BY <2>1, <2>2, <2>5, <2>6 DEF Waits, PublicationSteps, Attempts
    <2>8. /\ active' = active /\ run' = run /\ aborting' \in Attempts' \cup {0}
          /\ stops' = stops /\ processes' = processes /\ head' = head
          /\ counts' \in [edits : Nat, faults : Nat, sleeps : Nat, crashes : Nat]
      BY <1>1, <2>5 DEF Quiet, slotVars, projectVars, JobsInv, KindInv
    <2>9. QED BY <1>1, <2>5, <2>7, <2>8, Taken DEF JobsInv
  <1>8. QED BY <1>4, <1>5, <1>6, <1>7

LEMMA RunNextKeeps == ASSUME JobsInv, RunNext PROVE JobsInv' /\ Attempts \subseteq Attempts'
  <1>1. Take("run") /\ Quiet
    BY DEF RunNext
  <1>2. CASE Nothing
    BY <1>1, <1>2, ChangedPlainly DEF Nothing
  <1>3. ASSUME NEW j \in Jobs, MayRun, Start(j) PROVE JobsInv' /\ Attempts \subseteq Attempts'
    <2> DEFINE n == Len(mem.attempts) + 1
    <2>1. mem' = StartedFrom(mem, j, head) /\ step' = [at |-> "start", attempt |-> n]
          /\ Len(mem.attempts) < MaxAttempts
      BY <1>3 DEF Start, Save, StartedFrom
    <2>2. \A k \in Jobs : mem.jobs[k] \notin InFlight
      BY <1>3 DEF MayRun, Busy
    <2>3. head \in Nat /\ mem \in State
      BY DEF JobsInv, KindInv, DataInv, StateOK
    <2>4. StateOK(mem', results) /\ Follows(mem', mem)
      BY <2>1, <2>2, <2>3, StartKeeps DEF JobsInv, DataInv
    <2>5. UNCHANGED <<disk, results>>
      BY <1>1 DEF Quiet, projectVars
    <2>6. DataInv' /\ Attempts \subseteq Attempts'
      BY <2>4, <2>5, Changed
    <2>7. n \in Attempts' /\ n \in 0..MaxAttempts
      <3>1. mem'.attempts # <<>> /\ DOMAIN mem'.attempts = 1..n /\ n \in Nat /\ Len(mem.attempts) \in Nat
        BY <2>1, <2>3, StartFacts, AttemptsOf
      <3>2. QED BY <2>1, <3>1, JobsAssumption DEF Attempts
    <2>8. /\ step' \in [at : Waits, attempt : 0..MaxAttempts]
          /\ step'.attempt \in Attempts' /\ step'.at \notin PublicationSteps /\ active = 0
          /\ step'.at # "down"
      BY <1>3, <2>1, <2>7 DEF Waits, PublicationSteps, MayRun
    <2>9. /\ active' = active /\ run' = run /\ aborting' \in Attempts' \cup {0}
          /\ stops' = stops /\ processes' = processes /\ head' = head
          /\ counts' \in [edits : Nat, faults : Nat, sleeps : Nat, crashes : Nat]
      BY <1>1, <2>6 DEF Quiet, slotVars, projectVars, JobsInv, KindInv
    <2>10. QED BY <1>1, <2>6, <2>8, <2>9, Taken DEF JobsInv
  <1>4. ASSUME NEW j \in Jobs, \E state \in {Blocked(j), Drifted(j)} : Save(state, "plain", 0)
        PROVE JobsInv' /\ Attempts \subseteq Attempts'
    BY <1>1, <1>4, AsideState, DriftedState, ChangedPlainly DEF Blocked
  <1>5. QED BY <1>2, <1>3, <1>4 DEF RunNext

LEMMA SleepKeeps == ASSUME JobsInv, Sleep PROVE JobsInv' /\ Attempts \subseteq Attempts'
  <1> DEFINE a == Head(queue).attempt
             j == mem.attempts[a].job
  <1>1. Take("sleep") /\ a \in Attempts
    BY Asked DEF Sleep, AboutAttempt
  <1>2. mem \in State /\ Len(mem.attempts) <= MaxAttempts
    BY DEF JobsInv, DataInv, StateOK
  <1>3. \/ Save(InterruptedJob(a), "sleep", a) /\ aborting' = aborting
        \/ Nothing /\ aborting' = a
    BY DEF Sleep
  <1>4. UNCHANGED <<disk, active, run, stops, processes, projectVars, counts>>
    BY DEF Sleep
  <1>5. StateOK(mem', results) /\ Follows(mem', mem)
    <2>1. CASE mem' = mem
      BY <2>1, FollowsItself DEF JobsInv, DataInv
    <2>2. CASE mem' = InterruptedJob(a)
      <3>1. mem' = Failed(mem, a, "interrupted") /\ "interrupted" \in Causes
        BY <1>1, <1>2, <2>2, InterruptedFacts DEF Attempts, Causes
      <3>2. QED BY <1>1, <3>1, FailedKeeps DEF Attempts, JobsInv, DataInv
    <2>3. QED BY <1>3, <2>1, <2>2 DEF Save, Nothing
  <1>6. DataInv' /\ Attempts \subseteq Attempts'
    BY <1>4, <1>5, Changed DEF projectVars
  <1>7. a \in 0..MaxAttempts
    BY <1>1, <1>2, Number DEF Attempts
  <1> HIDE DEF a
  <1>8. step' = step \/ step' = [at |-> "sleep", attempt |-> a]
    BY <1>3 DEF Save, Nothing
  <1>9. /\ step' \in [at : Waits, attempt : 0..MaxAttempts]
        /\ step'.at \in OnAttempt => step'.attempt \in Attempts'
        /\ step'.at \notin PublicationSteps /\ step'.at # "start" /\ step'.at # "down"
    BY <1>1, <1>6, <1>7, <1>8, JobsAssumption DEF Take, Idle, Waits, OnAttempt, PublicationSteps
  <1>10. /\ active' = active /\ run' = run /\ aborting' \in Attempts' \cup {0}
         /\ stops' = stops /\ processes' = processes /\ head' = head
         /\ counts' \in [edits : Nat, faults : Nat, sleeps : Nat, crashes : Nat]
    BY <1>1, <1>3, <1>4, <1>6 DEF projectVars, JobsInv, KindInv
  <1>11. QED BY <1>1, <1>6, <1>9, <1>10, Taken DEF JobsInv

LEMMA SubmitDriftedKeeps == ASSUME JobsInv, SubmitDrifted PROVE JobsInv' /\ Attempts \subseteq Attempts'
  <1> DEFINE open == [mem EXCEPT !.breaker = TRUE]
  <1>1. Take("drift") /\ Quiet
    BY DEF SubmitDrifted
  <1>2. \/ Nothing
        \/ Save(open, "plain", 0)
        \/ active # 0 /\ Save(Failed(open, active, "violation"), "drift", active)
    BY DEF SubmitDrifted
  <1>3. StateOK(open, results) /\ Follows(open, mem) /\ open.attempts = mem.attempts
    BY Breaks DEF JobsInv, DataInv
  <1> HIDE DEF open
  <1>4. CASE Nothing
    BY <1>1, <1>4, ChangedPlainly DEF Nothing
  <1>5. CASE Save(open, "plain", 0)
    BY <1>1, <1>3, <1>5, ChangedPlainly
  <1>6. CASE active # 0 /\ Save(Failed(open, active, "violation"), "drift", active)
    <2>1. active \in DOMAIN mem.attempts /\ active \in Attempts
      BY <1>6 DEF JobsInv, KindInv, Attempts
    <2>2. mem' = Failed(open, active, "violation") /\ step' = [at |-> "drift", attempt |-> active]
      BY <1>6 DEF Save
    <2>3. StateOK(mem', results) /\ Follows(mem', open)
      BY <1>3, <2>1, <2>2, FailedKeeps DEF Causes
    <2>4. DataInv' /\ Attempts \subseteq Attempts'
      BY <1>1, <1>3, <2>3, FollowsOn, Changed DEF Quiet, projectVars
    <2>5. active \in 0..MaxAttempts
      BY <2>1, Number DEF JobsInv, DataInv, StateOK
    <2>6. /\ step' \in [at : Waits, attempt : 0..MaxAttempts]
          /\ step'.attempt \in Attempts' /\ step'.at \notin PublicationSteps /\ step'.at # "start"
          /\ step'.at # "down"
      BY <2>1, <2>2, <2>4, <2>5 DEF Waits, PublicationSteps
    <2>7. /\ active' = active /\ run' = run /\ aborting' \in Attempts' \cup {0}
          /\ stops' = stops /\ processes' = processes /\ head' = head
          /\ counts' \in [edits : Nat, faults : Nat, sleeps : Nat, crashes : Nat]
      BY <1>1, <2>4 DEF Quiet, slotVars, projectVars, JobsInv, KindInv
    <2>8. QED BY <1>1, <2>4, <2>6, <2>7, Taken DEF JobsInv
  <1>7. QED BY <1>2, <1>4, <1>5, <1>6

LEMMA SettleKeeps ==
    ASSUME JobsInv, Settle \/ FailSettle PROVE JobsInv' /\ Attempts \subseteq Attempts'
  <1> DEFINE a == Head(queue).attempt
             cause == Head(queue).cause
  <1>1. Take("settle") /\ a \in Attempts /\ cause \in Causes
    BY Asked DEF Settle, FailSettle, AboutAttempt, Requests
  <1>2. CASE Settle
    <2>1. Quiet /\ Save(SettledAs(a, cause), "plain", 0)
      BY <1>2 DEF Settle
    <2>2. StateOK(SettledAs(a, cause), results) /\ Follows(SettledAs(a, cause), mem)
      BY <1>1, CompletedKeeps, FailedKeeps DEF SettledAs, JobsInv, DataInv, Attempts
    <2>3. QED BY <1>1, <2>1, <2>2, ChangedPlainly
  <1>3. CASE FailSettle
    <2>1. UNCHANGED <<mem, step, disk, slotVars, projectVars>> /\ CountFault
      BY <1>3 DEF FailSettle, Nothing
    <2>2. DataInv' /\ Attempts' = Attempts
      BY <2>1 DEF projectVars, JobsInv, DataInv, Attempts
    <2>3. /\ step' \in [at : Waits, attempt : 0..MaxAttempts]
          /\ step'.at \notin OnAttempt /\ step'.at \notin PublicationSteps /\ step'.at # "start"
        /\ step'.at # "down"
      BY <1>1, <2>1, JobsAssumption DEF Take, Idle, Waits, OnAttempt, PublicationSteps
    <2>4. /\ active' = active /\ run' = run /\ aborting' \in Attempts' \cup {0}
          /\ stops' = stops /\ processes' = processes /\ head' = head
          /\ counts' \in [edits : Nat, faults : Nat, sleeps : Nat, crashes : Nat]
      BY <2>1, <2>2 DEF CountFault, slotVars, projectVars, JobsInv, KindInv
    <2>5. QED BY <1>1, <2>2, <2>3, <2>4, Taken DEF JobsInv
  <1>4. QED BY <1>2, <1>3

LEMMA PublishKeeps == ASSUME JobsInv, Publish PROVE JobsInv' /\ Attempts \subseteq Attempts'
  <1> DEFINE a == Head(queue).attempt
  <1>1. Take("publish") /\ a \in Attempts /\ UNCHANGED <<disk, active, stops, aborting, processes, projectVars, counts>>
    BY Asked DEF Publish, AboutAttempt
  <1>2. /\ queue \in Seq(Requests) /\ queue # <<>> /\ queue' = Tail(queue) /\ step = Idle
        /\ Head(queue).op = "publish"
    BY <1>1 DEF Take, JobsInv, KindInv
  <1>3. /\ queue[1].op = "publish" /\ 1 \in DOMAIN queue /\ queue[1].attempt = a
        /\ queue' \in Seq(Requests)
        /\ \A i \in DOMAIN queue' :
                i \in Nat /\ i + 1 # 1 /\ i + 1 \in DOMAIN queue /\ queue'[i] = queue[i + 1]
    BY <1>2, TakeFacts
  <1>4. a = active /\ run.phase = "answered" /\ active # 0
        /\ \A i \in DOMAIN queue' : queue'[i].op # "publish"
    BY <1>3 DEF JobsInv, SlotInv
  <1>5. \/ /\ run.signal \in Causes /\ UNCHANGED <<mem, step>> /\ run' = [phase |-> "failed", signal |-> run.signal]
        \/ /\ mem' = [mem EXCEPT !.attempts[a].candidate = TRUE]
           /\ step' = [at |-> "candidate", attempt |-> a] /\ run' = run
        \/ UNCHANGED <<mem, step>> /\ run' = [phase |-> "leaving", signal |-> "none"]
    BY DEF Publish, Save, Nothing, Moving, JobsInv, KindInv
  <1>6. StateOK(mem', results) /\ Follows(mem', mem)
    <2>1. CASE mem' = mem
      BY <2>1, FollowsItself DEF JobsInv, DataInv
    <2>2. CASE mem' = [mem EXCEPT !.attempts[a].candidate = TRUE]
      BY <1>1, <2>2, CandidateKeeps DEF Attempts, JobsInv, DataInv
    <2>3. QED BY <1>5, <2>1, <2>2
  <1>7. DataInv' /\ Attempts \subseteq Attempts'
    BY <1>1, <1>6, Changed DEF projectVars
  <1>8. a \in 0..MaxAttempts
    BY <1>1, Number DEF Attempts, JobsInv, DataInv, StateOK
  <1> HIDE DEF a
  <1>9. KindInv'
    BY <1>1, <1>3, <1>5, <1>7, <1>8 DEF JobsInv, KindInv, projectVars, Waits, Causes, Phases
  <1>10. LineInv'
    BY <1>1, <1>2, <1>3, <1>5, <1>7 DEF JobsInv, LineInv, Idle, OnAttempt
  <1>11. SlotInv'
    BY <1>1, <1>2, <1>3, <1>4, <1>5 DEF JobsInv, SlotInv, Idle, PublicationSteps
  <1>12. AuthorityInv'
    BY <1>2, <1>5 DEF AuthorityInv, Idle
  <1>13. QED BY <1>7, <1>9, <1>10, <1>11, <1>12 DEF JobsInv

LEMMA SignalledFacts ==
    ASSUME JobsInv, NEW a, NEW cause \in Causes
    PROVE /\ Signalled(a, cause) \in [phase : Phases, signal : Causes]
          /\ Signalled(a, cause).phase = run.phase
          /\ run.phase = "none" /\ a # 0 => Signalled(a, cause) = run
  BY DEF Signalled, JobsInv, KindInv, SlotInv, Phases, Causes

\* What the requests and the slot need while the queue and the memory stay.
LEMMA Waiting ==
    ASSUME JobsInv, UNCHANGED <<mem, queue, active, head>>,
           step' \in [at : Waits, attempt : 0..MaxAttempts],
           step'.at \in OnAttempt => step'.attempt \in Attempts,
           step'.at = "start" => active = 0,
           step'.at \in PublicationSteps =>
              active = step'.attempt /\ run'.phase = "answered" /\ step.at \in PublicationSteps,
           step'.at = "authority" => step'.attempt \in DOMAIN disk'.attempts,
           step'.at = "down" => step.at = "down" /\ disk' = disk,
           run' \in [phase : Phases, signal : Causes],
           run'.phase = "none" => active = 0 /\ run'.signal = "none",
           active = 0 => run'.phase = "none",
           (\A i \in DOMAIN queue : queue[i].op # "publish") \/ run'.phase = run.phase,
           aborting' \in Attempts \cup {0},
           stops' \in [1..MaxAttempts -> {"none", "pending", "done", "refused"}],
           processes' \subseteq Attempts,
           counts' \in [edits : Nat, faults : Nat, sleeps : Nat, crashes : Nat]
    PROVE KindInv' /\ LineInv' /\ SlotInv' /\ AuthorityInv'
  <1>1. Attempts' = Attempts
    BY DEF Attempts
  <1>2. KindInv'
    BY <1>1 DEF JobsInv, KindInv
  <1>3. LineInv'
    BY <1>1 DEF JobsInv, LineInv
  <1>4. SlotInv'
    BY DEF JobsInv, SlotInv
  <1>5. AuthorityInv'
    BY DEF JobsInv, AuthorityInv
  <1>6. QED BY <1>2, <1>3, <1>4, <1>5

LEMMA WriteKeeps == ASSUME JobsInv, Write PROVE JobsInv' /\ Attempts \subseteq Attempts'
  <1>1. /\ Written /\ disk' = mem /\ AfterWrite
        /\ UNCHANGED <<mem, queue, processes, projectVars, counts>>
    BY DEF Write
  <1>2. DataInv' /\ Attempts' = Attempts
    BY <1>1, FollowsItself DEF JobsInv, DataInv, projectVars, Follows, Attempts
  <1>3. step.attempt \in 0..MaxAttempts /\ step \in [at : Waits, attempt : 0..MaxAttempts]
        /\ (step.at \in OnAttempt => step.attempt \in Attempts /\ step.attempt # 0
               /\ step.attempt \in 1..MaxAttempts)
    BY Number DEF JobsInv, KindInv, LineInv, DataInv, StateOK, Attempts
  <1>4. CASE step.at = "start"
    <2>1. /\ step' = Idle /\ active' = step.attempt /\ active = 0 /\ aborting' = 0 /\ stops' = stops
          /\ run' = [phase |-> "preparing", signal |-> "none"] /\ run.phase = "none"
      BY <1>1, <1>4 DEF AfterWrite, NoRun, JobsInv, SlotInv
    <2>2. Attempts' = Attempts /\ step.attempt \in Attempts /\ step.attempt # 0
      BY <1>1, <1>3, <1>4 DEF Attempts, OnAttempt
    <2>3. KindInv'
      BY <1>1, <1>3, <2>1, <2>2, JobsAssumption DEF JobsInv, KindInv, projectVars, Idle, Waits, Phases, Causes
    <2>4. LineInv'
      BY <1>1, <2>1, <2>2 DEF JobsInv, LineInv, Idle, OnAttempt
    <2>5. \A i \in DOMAIN queue : queue[i].op # "publish"
      BY <2>1 DEF JobsInv, SlotInv
    <2>6. SlotInv'
      BY <1>1, <2>1, <2>2, <2>5 DEF SlotInv, Idle, PublicationSteps
    <2>7. QED BY <1>2, <2>1, <2>3, <2>4, <2>6 DEF JobsInv, AuthorityInv, Idle
  <1>5. CASE step.at # "start"
    <2>1. active' = active /\ head' = head /\ counts' \in [edits : Nat, faults : Nat, sleeps : Nat, crashes : Nat]
          /\ processes' \subseteq Attempts
      BY <1>1, <1>5 DEF AfterWrite, projectVars, JobsInv, KindInv
    <2>2. step' = IF step.at = "drift" THEN [step EXCEPT !.at = "containing"]
                  ELSE IF step.at = "candidate" THEN [step EXCEPT !.at = "authority"] ELSE Idle
      BY <1>1 DEF AfterWrite
    <2>3. /\ step' \in [at : Waits, attempt : 0..MaxAttempts]
          /\ step'.at \in OnAttempt => step'.attempt \in Attempts
          /\ step'.at # "start" /\ step'.at # "down"
          /\ step'.at \in PublicationSteps => step.at = "candidate" /\ step'.attempt = step.attempt
      BY <1>3, <2>2, JobsAssumption DEF Idle, Waits, OnAttempt, PublicationSteps
    <2>4. aborting' \in Attempts \cup {0}
      BY <1>1, <1>3 DEF AfterWrite, OnAttempt
    <2>5. stops' \in [1..MaxAttempts -> {"none", "pending", "done", "refused"}]
      BY <1>1, <1>3 DEF AfterWrite, JobsInv, KindInv
    <2>6. /\ run' \in [phase : Phases, signal : Causes]
          /\ run'.phase = run.phase \/ (step.at = "complete" /\ run'.phase = "leaving")
          /\ run.phase = "none" => run' = run
      <3>1. CASE step.at = "complete"
        BY <1>1, <3>1 DEF AfterWrite, JobsInv, KindInv, SlotInv, Phases, PublicationSteps
      <3>2. CASE step.at = "cancel"
        <4>1. run' = run \/ (active # 0 /\ run' = Signalled(active, "cancelled"))
          BY <1>1, <3>2 DEF AfterWrite
        <4>2. QED BY <4>1, SignalledFacts DEF JobsInv, KindInv, Causes
      <3>3. CASE step.at = "drift"
        <4>1. run' = Signalled(step.attempt, "violation")
          BY <1>1, <3>3 DEF AfterWrite
        <4>2. step.attempt # 0
          BY <1>3, <3>3 DEF OnAttempt
        <4>3. QED BY <4>1, <4>2, SignalledFacts DEF Causes
      <3>4. CASE step.at \notin {"complete", "cancel", "drift"}
        <4>1. run' = run
          BY <1>1, <1>5, <3>4 DEF AfterWrite
        <4>2. QED BY <4>1 DEF JobsInv, KindInv
      <3>5. QED BY <3>1, <3>2, <3>3, <3>4
    <2>7. /\ run'.phase = "none" => active = 0 /\ run'.signal = "none"
          /\ active = 0 => run'.phase = "none"
      BY <2>6 DEF JobsInv, SlotInv, PublicationSteps
    <2>8. step.at = "candidate" => active = step.attempt /\ run.phase = "answered" /\ run'.phase = "answered"
      BY <2>6 DEF JobsInv, SlotInv, PublicationSteps
    <2>9. (\A i \in DOMAIN queue : queue[i].op # "publish") \/ run'.phase = run.phase
      BY <2>6 DEF JobsInv, SlotInv, PublicationSteps
    <2>10. step'.at \in PublicationSteps =>
              active = step'.attempt /\ run'.phase = "answered" /\ step.at \in PublicationSteps
      BY <2>3, <2>8 DEF PublicationSteps
    <2>11. UNCHANGED <<mem, queue, active, head>> /\ (step'.at = "start" => active = 0)
      BY <1>1, <2>1, <2>3
    <2>14. step'.at = "authority" => step'.attempt \in DOMAIN disk'.attempts
      BY <1>1, <1>3, <2>3 DEF PublicationSteps, OnAttempt, Attempts
    <2>12. KindInv' /\ LineInv' /\ SlotInv' /\ AuthorityInv'
      BY <2>14, <2>1, <2>3, <2>4, <2>5, <2>6, <2>7, <2>9, <2>10, <2>11, Waiting
    <2>13. QED BY <1>2, <2>12 DEF JobsInv
  <1>6. QED BY <1>4, <1>5

LEMMA SameData ==
    ASSUME JobsInv, UNCHANGED <<mem, results>>, disk' \in {disk, mem}
    PROVE DataInv' /\ Attempts' = Attempts
  <1>1. Follows(mem, mem)
    BY FollowsItself
  <1>2. QED BY <1>1 DEF JobsInv, DataInv, Follows, Attempts

LEMMA FailWriteKeeps == ASSUME JobsInv, FailWrite PROVE JobsInv' /\ Attempts \subseteq Attempts'
  <1>1. /\ Written /\ disk' \in {disk, mem} /\ step' = Idle /\ CountFault
        /\ UNCHANGED <<mem, queue, active, stops, aborting, processes, projectVars>>
        /\ \/ run' = run
           \/ step.at \in {"candidate", "complete"} /\ run' = [phase |-> "failed", signal |-> "fatal"]
    BY DEF FailWrite
  <1>2. DataInv' /\ Attempts' = Attempts
    BY <1>1, SameData DEF projectVars
  <1>3. step.at \in {"candidate", "complete"} => active # 0 /\ run.phase = "answered" /\ \A i \in DOMAIN queue : queue[i].op # "publish"
    BY DEF JobsInv, SlotInv, PublicationSteps
  <1>4. /\ step' \in [at : Waits, attempt : 0..MaxAttempts] /\ step'.at \notin OnAttempt
        /\ step'.at # "start" /\ step'.at \notin PublicationSteps /\ step'.at # "down"
    BY <1>1, JobsAssumption DEF Idle, Waits, OnAttempt, PublicationSteps
  <1>5. /\ run' \in [phase : Phases, signal : Causes]
        /\ run'.phase = "none" => active = 0 /\ run'.signal = "none"
        /\ active = 0 => run'.phase = "none"
        /\ (\A i \in DOMAIN queue : queue[i].op # "publish") \/ run'.phase = run.phase
    BY <1>1, <1>3 DEF JobsInv, KindInv, SlotInv, Phases, Causes
  <1>6. /\ aborting' \in Attempts \cup {0} /\ processes' \subseteq Attempts
        /\ stops' \in [1..MaxAttempts -> {"none", "pending", "done", "refused"}]
        /\ counts' \in [edits : Nat, faults : Nat, sleeps : Nat, crashes : Nat]
        /\ UNCHANGED <<mem, queue, active, head>>
    BY <1>1 DEF CountFault, projectVars, JobsInv, KindInv
  <1>7. KindInv' /\ LineInv' /\ SlotInv' /\ AuthorityInv'
    <2>1. step'.at # "authority"
      BY <1>4 DEF PublicationSteps
    <2>2. QED BY <2>1, <1>4, <1>5, <1>6, Waiting
  <1>8. QED BY <1>2, <1>7 DEF JobsInv

LEMMA CommitKeeps == ASSUME JobsInv, Commit PROVE JobsInv' /\ Attempts \subseteq Attempts'
  <1> DEFINE a == step.attempt
  <1>1. /\ step.at = "authority" /\ head' = head + 1 /\ results' = results \cup {a}
        /\ UNCHANGED <<disk, queue, active, stops, aborting, processes>>
        /\ \/ /\ mem' = Completed(mem, a) /\ step' = [at |-> "complete", attempt |-> a] /\ UNCHANGED <<run, counts>>
           \/ /\ CountFault /\ mem' = mem /\ step' = Idle /\ run' = [phase |-> "failed", signal |-> "fatal"]
    BY DEF Commit, Save, Moving
  <1>2. /\ a \in Attempts /\ a \in 0..MaxAttempts /\ a \in DOMAIN disk.attempts
        /\ active = a /\ active # 0 /\ run.phase = "answered"
        /\ \A i \in DOMAIN queue : queue[i].op # "publish"
    BY <1>1, Number DEF JobsInv, LineInv, SlotInv, AuthorityInv, OnAttempt, PublicationSteps,
          DataInv, StateOK, Attempts
  <1>3. StateOK(mem, results') /\ StateOK(disk, results')
    BY <1>1, MoreResults DEF JobsInv, DataInv
  <1>4. StateOK(mem', results') /\ Follows(mem', mem)
    <2>1. CASE mem' = mem
      BY <1>3, <2>1, FollowsItself
    <2>2. CASE mem' = Completed(mem, a)
      BY <1>1, <1>2, <1>3, <2>2, CompletedKeeps DEF Attempts
    <2>3. QED BY <1>1, <2>1, <2>2
  <1>5. DataInv' /\ Attempts \subseteq Attempts'
    <2>1. Follows(mem', disk')
      BY <1>1, <1>4, FollowsOn DEF JobsInv, DataInv
    <2>2. results' \subseteq DOMAIN disk'.attempts
      BY <1>1, <1>2 DEF JobsInv, DataInv
    <2>3. QED BY <1>1, <1>3, <1>4, <2>1, <2>2 DEF DataInv, Follows, Attempts
  <1>6. counts' \in [edits : Nat, faults : Nat, sleeps : Nat, crashes : Nat]
    BY <1>1 DEF CountFault, JobsInv, KindInv
  <1>7. KindInv'
    <2>1. /\ step' \in [at : Waits, attempt : 0..MaxAttempts]
          /\ run' \in [phase : Phases, signal : Causes]
      BY <1>1, <1>2, JobsAssumption DEF JobsInv, KindInv, Waits, Idle, Phases, Causes
    <2>2. head' \in Nat /\ active' \in Attempts' \cup {0} /\ aborting' \in Attempts' \cup {0}
          /\ processes' \subseteq Attempts'
      BY <1>1, <1>5 DEF JobsInv, KindInv
    <2>3. QED BY <1>1, <1>6, <2>1, <2>2 DEF JobsInv, KindInv
  <1>8. LineInv'
    <2>1. step'.at \in OnAttempt => step'.attempt \in Attempts'
      BY <1>1, <1>2, <1>5 DEF Idle, OnAttempt
    <2>2. QED BY <1>1, <1>5, <2>1 DEF JobsInv, LineInv
  <1>9. SlotInv' /\ AuthorityInv'
    BY <1>1, <1>2 DEF JobsInv, SlotInv, AuthorityInv, Idle, PublicationSteps
  <1>10. QED BY <1>5, <1>7, <1>8, <1>9 DEF JobsInv

LEMMA RejectKeeps == ASSUME JobsInv, Reject PROVE JobsInv' /\ Attempts \subseteq Attempts'
  <1>1. /\ step.at = "authority" /\ step' = Idle
        /\ UNCHANGED <<mem, disk, queue, active, stops, aborting, processes, projectVars, counts>>
        /\ \E cause \in Causes : run' = [phase |-> "failed", signal |-> cause]
    BY DEF Reject, Moving, Causes
  <1>2. DataInv' /\ Attempts' = Attempts
    BY <1>1, SameData DEF projectVars
  <1>3. active # 0 /\ run.phase = "answered" /\ \A i \in DOMAIN queue : queue[i].op # "publish"
    BY <1>1 DEF JobsInv, SlotInv, PublicationSteps
  <1>4. /\ step' \in [at : Waits, attempt : 0..MaxAttempts] /\ step'.at \notin OnAttempt
        /\ step'.at # "start" /\ step'.at \notin PublicationSteps /\ step'.at # "authority"
        /\ step'.at # "down"
    BY <1>1, JobsAssumption DEF Idle, Waits, OnAttempt, PublicationSteps
  <1>5. /\ run' \in [phase : Phases, signal : Causes] /\ run'.phase # "none"
    BY <1>1 DEF Phases
  <1>6. /\ aborting' \in Attempts \cup {0} /\ processes' \subseteq Attempts
        /\ stops' \in [1..MaxAttempts -> {"none", "pending", "done", "refused"}]
        /\ counts' \in [edits : Nat, faults : Nat, sleeps : Nat, crashes : Nat]
        /\ UNCHANGED <<mem, queue, active, head>>
    BY <1>1 DEF projectVars, JobsInv, KindInv
  <1>7. KindInv' /\ LineInv' /\ SlotInv' /\ AuthorityInv'
    BY <1>3, <1>4, <1>5, <1>6, Waiting
  <1>8. QED BY <1>2, <1>7 DEF JobsInv

LEMMA ContainedKeeps == ASSUME JobsInv, Contained PROVE JobsInv' /\ Attempts \subseteq Attempts'
  <1> DEFINE a == step.attempt
  <1>1. /\ step.at = "containing" /\ queue' = queue
        /\ UNCHANGED <<disk, slotVars, projectVars, counts>>
        /\ \/ mem' = mem /\ step' = Idle
           \/ /\ mem' = [mem EXCEPT !.attempts[a].cause = "violation"]
              /\ step' = [at |-> "plain", attempt |-> 0]
    BY DEF Contained, Quiet, Save
  <1>2. a \in Attempts
    BY <1>1 DEF JobsInv, LineInv, OnAttempt
  <1>3. StateOK(mem', results) /\ Follows(mem', mem)
    <2>1. CASE mem' = mem
      BY <2>1, FollowsItself DEF JobsInv, DataInv
    <2>2. CASE mem' = [mem EXCEPT !.attempts[a].cause = "violation"]
      BY <1>2, <2>2, CauseKeeps DEF JobsInv, DataInv, Attempts, Causes
    <2>3. QED BY <1>1, <2>1, <2>2
  <1>4. DataInv' /\ Attempts \subseteq Attempts'
    BY <1>1, <1>3, Changed DEF projectVars
  <1>5. /\ step' \in [at : Waits, attempt : 0..MaxAttempts] /\ step'.at \notin OnAttempt
        /\ step'.at # "start" /\ step'.at \notin PublicationSteps /\ step'.at # "authority"
        /\ step'.at # "down"
    BY <1>1, JobsAssumption DEF Idle, Waits, OnAttempt, PublicationSteps
  <1>6. KindInv'
    BY <1>1, <1>4, <1>5 DEF JobsInv, KindInv, slotVars, projectVars
  <1>7. LineInv' /\ SlotInv' /\ AuthorityInv'
    <2>1. \A i \in DOMAIN queue : queue[i].op = "publish" => step'.at \notin PublicationSteps
      BY <1>5
    <2>2. LineInv'
      BY <1>1, <1>4, <1>5 DEF JobsInv, LineInv
    <2>3. UNCHANGED <<active, run, queue>>
      BY <1>1 DEF slotVars
    <2>4. QED BY <1>5, <2>2, <2>3 DEF JobsInv, SlotInv, AuthorityInv
  <1>8. QED BY <1>4, <1>6, <1>7 DEF JobsInv

-----------------------------------------------------------------------------
(* Every other action keeps JobsInv *)

\* Only the run of the Attempt, its terminations and its process change.
LEMMA Moved ==
    ASSUME JobsInv, UNCHANGED <<mem, disk, queue, step, active, projectVars>>,
           run' \in [phase : Phases, signal : Causes],
           run'.phase = "none" <=> run.phase = "none",
           run'.phase = "none" => run'.signal = "none",
           run.phase = "answered" => run'.phase = "answered",
           aborting' \in Attempts \cup {0},
           stops' \in [1..MaxAttempts -> {"none", "pending", "done", "refused"}],
           processes' \subseteq Attempts,
           counts' \in [edits : Nat, faults : Nat, sleeps : Nat, crashes : Nat]
    PROVE JobsInv'
  <1>1. DataInv' /\ Attempts' = Attempts
    BY SameData DEF projectVars
  <1>2. /\ step' \in [at : Waits, attempt : 0..MaxAttempts]
        /\ step'.at \in OnAttempt => step'.attempt \in Attempts
        /\ step'.at = "start" => active = 0
        /\ step'.at \in PublicationSteps =>
              active = step'.attempt /\ run'.phase = "answered" /\ step.at \in PublicationSteps
        /\ step'.at = "authority" => step'.attempt \in DOMAIN disk'.attempts
        /\ step'.at = "down" => step.at = "down" /\ disk' = disk
    BY DEF JobsInv, KindInv, LineInv, SlotInv, AuthorityInv
  <1>3. /\ run'.phase = "none" => active = 0 /\ run'.signal = "none"
        /\ active = 0 => run'.phase = "none"
        /\ (\A i \in DOMAIN queue : queue[i].op # "publish") \/ run'.phase = run.phase
    BY DEF JobsInv, SlotInv
  <1>4. UNCHANGED <<mem, queue, active, head>>
    BY DEF projectVars
  <1>5. KindInv' /\ LineInv' /\ SlotInv' /\ AuthorityInv'
    BY <1>2, <1>3, <1>4, Waiting
  <1>6. QED BY <1>1, <1>5 DEF JobsInv

LEMMA StopsKept ==
    ASSUME JobsInv, NEW a \in DOMAIN stops, NEW s \in {"none", "pending", "done", "refused"}
    PROVE [stops EXCEPT ![a] = s] \in [1..MaxAttempts -> {"none", "pending", "done", "refused"}]
  BY DEF JobsInv, KindInv

LEMMA SlotNumber ==
    ASSUME JobsInv, run.phase # "none"
    PROVE active \in Attempts /\ active \in DOMAIN stops /\ active \in 0..MaxAttempts
  BY Number DEF JobsInv, KindInv, SlotInv, DataInv, StateOK, Attempts

LEMMA Stays ==
    ASSUME JobsInv
    PROVE /\ run \in [phase : Phases, signal : Causes] /\ aborting \in Attempts \cup {0}
          /\ stops \in [1..MaxAttempts -> {"none", "pending", "done", "refused"}]
          /\ processes \subseteq Attempts
          /\ counts \in [edits : Nat, faults : Nat, sleeps : Nat, crashes : Nat]
          /\ run.phase = "none" => run.signal = "none"
          /\ RunCause \in Causes
  BY DEF JobsInv, KindInv, SlotInv, RunCause, Causes

LEMMA LaunchKeeps == ASSUME JobsInv, Launch PROVE JobsInv'
  <1>1. /\ run.phase = "preparing"
        /\ UNCHANGED <<mem, disk, queue, step, active, aborting, projectVars, counts>>
        /\ \/ /\ run' = [phase |-> "running", signal |-> "none"]
              /\ processes' = processes \cup {active} /\ stops' = stops
           \/ /\ run' = [phase |-> "stopping", signal |-> RunCause] /\ processes' = processes
              /\ stops' = [stops EXCEPT ![active] = IF @ = "none" THEN "pending" ELSE @]
    BY DEF Launch, Others, Moving
  <1>2. active \in Attempts /\ active \in DOMAIN stops
    BY <1>1, SlotNumber
  <1>3. stops' \in [1..MaxAttempts -> {"none", "pending", "done", "refused"}]
    BY <1>1, <1>2 DEF JobsInv, KindInv
  <1>4. run' \in [phase : Phases, signal : Causes] /\ run'.phase \in {"running", "stopping"}
    BY <1>1, Stays DEF Phases, Causes
  <1>5. aborting' \in Attempts \cup {0} /\ processes' \subseteq Attempts
        /\ counts' \in [edits : Nat, faults : Nat, sleeps : Nat, crashes : Nat]
    BY <1>1, <1>2, Stays
  <1>6. QED BY <1>1, <1>3, <1>4, <1>5, Moved

LEMMA FailPreparationKeeps == ASSUME JobsInv, FailPreparation PROVE JobsInv'
  <1>1. /\ run.phase = "preparing" /\ run' = [phase |-> "failed", signal |-> "violation"]
        /\ UNCHANGED <<mem, disk, queue, step, active, aborting, projectVars, stops, processes, counts>>
    BY DEF FailPreparation, Others, Moving
  <1>2. run' \in [phase : Phases, signal : Causes] /\ run'.phase = "failed"
    BY <1>1 DEF Phases, Causes
  <1>3. QED BY <1>1, <1>2, Stays, Moved

LEMMA InterruptedKeeps == ASSUME JobsInv, Interrupted PROVE JobsInv'
  <1>1. /\ run.phase = "running" /\ run' = [phase |-> "stopping", signal |-> RunCause]
        /\ stops' = [stops EXCEPT ![active] = IF @ = "none" THEN "pending" ELSE @]
        /\ UNCHANGED <<mem, disk, queue, step, active, aborting, projectVars, processes, counts>>
    BY DEF Interrupted, Others, Moving
  <1>2. active \in DOMAIN stops
    BY <1>1, SlotNumber
  <1>3. stops' \in [1..MaxAttempts -> {"none", "pending", "done", "refused"}]
    BY <1>1, <1>2 DEF JobsInv, KindInv
  <1>4. run' \in [phase : Phases, signal : Causes] /\ run'.phase = "stopping"
    BY <1>1, Stays DEF Phases
  <1>5. QED BY <1>1, <1>3, <1>4, Stays, Moved

LEMMA StoppedKeeps == ASSUME JobsInv, Stopped \/ NotStopped PROVE JobsInv'
  <1>1. PICK a \in DOMAIN stops : \E s \in {"done", "refused"} : stops' = [stops EXCEPT ![a] = s]
    BY DEF Stopped, NotStopped
  <1>2. /\ UNCHANGED <<mem, disk, queue, step, active, aborting, projectVars, run>>
        /\ processes' \subseteq processes
        /\ counts' = counts \/ CountFault
    BY DEF Stopped, NotStopped, Others
  <1>3. stops' \in [1..MaxAttempts -> {"none", "pending", "done", "refused"}]
    BY <1>1, StopsKept
  <1>4. counts' \in [edits : Nat, faults : Nat, sleeps : Nat, crashes : Nat]
    BY <1>2 DEF CountFault, JobsInv, KindInv
  <1>5. processes' \subseteq Attempts
    BY <1>2, Stays
  <1>6. QED BY <1>2, <1>3, <1>4, <1>5, Stays, Moved

LEMMA UnwindKeeps == ASSUME JobsInv, Unwind PROVE JobsInv'
  <1>1. /\ run.phase = "stopping" /\ run'.phase = "failed"
        /\ run' \in [phase : Phases, signal : Causes]
        /\ UNCHANGED <<mem, disk, queue, step, active, aborting, projectVars, stops, processes, counts>>
    BY Stays DEF Unwind, Others, Moving, Phases, Causes
  <1>2. QED BY <1>1, Stays, Moved

LEMMA AbortKeeps == ASSUME JobsInv, Abort PROVE JobsInv'
  <1>1. /\ aborting # 0 /\ run' = Signalled(aborting, "interrupted") /\ aborting' = 0
        /\ UNCHANGED <<mem, disk, queue, step, active, stops, processes, projectVars, counts>>
    BY DEF Abort
  <1>2. /\ run' \in [phase : Phases, signal : Causes] /\ run'.phase = run.phase
        /\ run.phase = "none" => run' = run
    BY <1>1, SignalledFacts DEF Causes
  <1>3. QED BY <1>1, <1>2, Stays, Moved

\* A call or an Attempt adds a request behind the others.
LEMMA Added ==
    ASSUME JobsInv, UNCHANGED <<mem, disk, step, projectVars>>,
           NEW r \in Requests, queue' = Append(queue, r),
           r.op \in JobCalls => r.job \in Jobs, r.op \in AboutAttempt => r.attempt \in Attempts,
           active' \in Attempts \cup {0}, run' \in [phase : Phases, signal : Causes],
           active' = 0 <=> run'.phase = "none",
           run'.phase = "none" => run'.signal = "none",
           step.at = "start" => active' = 0,
           r.op = "publish" => /\ r.attempt = active' /\ run'.phase = "answered"
                               /\ run.phase # "answered",
           r.op # "publish" => \/ UNCHANGED <<active, run>>
                               \/ run.phase # "answered",
           stops' = stops, aborting' = aborting, processes' \subseteq processes,
           counts' \in [edits : Nat, faults : Nat, sleeps : Nat, crashes : Nat]
    PROVE JobsInv'
  <1> DEFINE n == Len(queue) + 1
  <1>1. queue \in Seq(Requests)
    BY DEF JobsInv, KindInv
  <1>2. /\ queue' \in Seq(Requests) /\ queue'[n] = r /\ n \in DOMAIN queue' /\ n \notin DOMAIN queue
        /\ \A i \in DOMAIN queue : queue'[i] = queue[i]
        /\ \A i \in DOMAIN queue' : i \in DOMAIN queue \/ i = n
    BY <1>1, AppendFacts
  <1> HIDE DEF n
  <1>3. DataInv' /\ Attempts' = Attempts
    BY SameData DEF projectVars
  <1>4. KindInv'
    BY <1>2, <1>3 DEF JobsInv, KindInv, projectVars
  <1>5. LineInv'
    BY <1>2, <1>3 DEF JobsInv, LineInv
  <1>6. run.phase # "answered" =>
            /\ step.at \notin PublicationSteps
            /\ \A i \in DOMAIN queue : queue[i].op # "publish"
    BY DEF JobsInv, SlotInv
  <1>7. SlotInv'
    <2>1. CASE r.op = "publish"
      BY <1>2, <1>6, <2>1 DEF JobsInv, SlotInv
    <2>2. CASE r.op # "publish" /\ run.phase # "answered"
      BY <1>2, <1>6, <2>2 DEF JobsInv, SlotInv
    <2>3. CASE r.op # "publish" /\ UNCHANGED <<active, run>>
      <3>1. ASSUME NEW i \in DOMAIN queue', queue'[i].op = "publish"
            PROVE /\ queue'[i].attempt = active /\ run.phase = "answered"
                  /\ step.at \notin PublicationSteps
                  /\ \A k \in DOMAIN queue' : queue'[k].op = "publish" => k = i
        BY <1>2, <2>3, <3>1 DEF JobsInv, SlotInv
      <3>2. QED BY <2>3, <3>1 DEF JobsInv, SlotInv
    <2>4. QED BY <2>1, <2>2, <2>3
  <1>8. AuthorityInv'
    BY DEF JobsInv, AuthorityInv
  <1>9. QED BY <1>3, <1>4, <1>5, <1>7, <1>8 DEF JobsInv

RequestOps == JobCalls \cup QueueCalls \cup {"sleep", "publish", "settle"}

LEMMA RequestFacts ==
    ASSUME NEW op \in RequestOps
    PROVE Request(op) \in Requests /\ Request(op).op = op
  BY JobsAssumption DEF Request, Requests, RequestOps, Causes

LEMMA JobRequest ==
    ASSUME NEW op \in RequestOps, NEW j \in Jobs \cup {"none"}
    PROVE LET r == [Request(op) EXCEPT !.job = j] IN r \in Requests /\ r.op = op /\ r.job = j
  <1>1. Request(op) \in Requests /\ Request(op).op = op
    BY RequestFacts
  <1>2. QED BY <1>1 DEF Requests

LEMMA AttemptRequest ==
    ASSUME NEW op \in RequestOps, NEW a \in 0..MaxAttempts
    PROVE LET r == [Request(op) EXCEPT !.attempt = a] IN
          r \in Requests /\ r.op = op /\ r.attempt = a
  <1>1. Request(op) \in Requests /\ Request(op).op = op
    BY RequestFacts
  <1>2. QED BY <1>1 DEF Requests

LEMMA AnswerKeeps == ASSUME JobsInv, Answer PROVE JobsInv'
  <1>1. /\ run.phase = "running" /\ processes' = processes \ {active}
        /\ UNCHANGED <<mem, disk, step, active, stops, aborting, projectVars, counts>>
        /\ \/ /\ run' = [phase |-> "answered", signal |-> "none"]
              /\ queue' = Append(queue, [Request("publish") EXCEPT !.attempt = active])
           \/ /\ \E cause \in Causes : run' = [phase |-> "failed", signal |-> cause]
              /\ queue' = queue
    BY DEF Answer, Moving, Enqueue, Causes
  <1>2. active \in Attempts /\ active \in 0..MaxAttempts /\ active # 0
    BY <1>1, SlotNumber DEF JobsInv, SlotInv
  <1>3. CASE run'.phase = "answered"
    <2> DEFINE r == [Request("publish") EXCEPT !.attempt = active]
    <2>1. r \in Requests /\ r.op = "publish" /\ r.attempt = active
      BY <1>2, AttemptRequest DEF RequestOps
    <2>2. queue' = Append(queue, r) /\ run' = [phase |-> "answered", signal |-> "none"]
      BY <1>1, <1>3
    <2>3. r.op \notin JobCalls
      BY <2>1 DEF JobCalls
    <2> HIDE DEF r
    <2>4. step.at # "start"
      BY <1>2 DEF JobsInv, SlotInv
    <2>5. run' \in [phase : Phases, signal : Causes]
      BY <2>2 DEF Phases, Causes
    <2>6. QED BY <1>1, <1>2, <1>3, <2>1, <2>2, <2>3, <2>4, <2>5, Stays, Added
  <1>4. CASE run'.phase # "answered"
    <2>1. queue' = queue /\ run' \in [phase : Phases, signal : Causes] /\ run'.phase = "failed"
      BY <1>1, <1>4 DEF Phases
    <2>2. QED BY <1>1, <2>1, Stays, Moved
  <1>5. QED BY <1>3, <1>4

LEMMA FailAttemptKeeps == ASSUME JobsInv, FailAttempt PROVE JobsInv'
  <1> DEFINE r == [Request("settle") EXCEPT !.attempt = active, !.cause = run.signal]
  <1>1. /\ run.phase = "failed" /\ queue' = Append(queue, r) /\ active' = 0 /\ run' = NoRun
        /\ UNCHANGED <<mem, disk, step, stops, aborting, processes, projectVars, counts>>
    BY DEF FailAttempt, Enqueue
  <1>2. active \in Attempts /\ active \in 0..MaxAttempts
    BY <1>1, SlotNumber
  <1>3. run.signal \in Causes
    BY Stays
  <1>4. r \in Requests /\ r.op = "settle" /\ r.attempt = active
    <2>1. "settle" \in RequestOps
      BY DEF RequestOps
    <2>2. Request("settle") \in Requests /\ Request("settle").op = "settle"
      BY <2>1, RequestFacts
    <2>3. QED BY <1>2, <1>3, <2>2 DEF Requests
  <1>5. r.op \notin JobCalls
    BY <1>4 DEF JobCalls
  <1> HIDE DEF r
  <1>6. run' \in [phase : Phases, signal : Causes] /\ run'.phase = "none" /\ run'.signal = "none"
    BY <1>1 DEF NoRun, Phases, Causes
  <1>7. QED BY <1>1, <1>2, <1>4, <1>5, <1>6, Stays, Added

LEMMA LeaveKeeps == ASSUME JobsInv, Leave PROVE JobsInv'
  <1>1. /\ run.phase = "leaving" /\ active' = 0 /\ run' = NoRun
        /\ UNCHANGED <<mem, disk, queue, step, stops, aborting, processes, projectVars, counts>>
    BY DEF Leave
  <1>2. DataInv' /\ Attempts' = Attempts
    BY <1>1, SameData DEF projectVars
  <1>3. step.at \notin PublicationSteps /\ \A i \in DOMAIN queue : queue[i].op # "publish"
    BY <1>1 DEF JobsInv, SlotInv
  <1>4. KindInv'
    BY <1>1, <1>2 DEF JobsInv, KindInv, projectVars, NoRun, Phases, Causes
  <1>5. LineInv' /\ SlotInv' /\ AuthorityInv'
    BY <1>1, <1>2, <1>3 DEF JobsInv, LineInv, SlotInv, AuthorityInv, NoRun
  <1>6. QED BY <1>2, <1>4, <1>5 DEF JobsInv

LEMMA CallKeeps ==
    ASSUME JobsInv, NEW op \in JobCalls \cup QueueCalls, NEW j \in Jobs \cup {"none"},
           op \in JobCalls => j \in Jobs, Call(op, j)
    PROVE JobsInv'
  <1> DEFINE r == [Request(op) EXCEPT !.job = j]
  <1>1. queue' = Append(queue, r) /\ UNCHANGED <<mem, disk, step, slotVars, projectVars, counts>>
    BY DEF Call, Enqueue
  <1>2. r \in Requests /\ r.op = op /\ r.job = j
    BY JobRequest DEF RequestOps
  <1>3. r.op \notin AboutAttempt /\ r.op # "publish"
    BY <1>2 DEF JobCalls, QueueCalls, AboutAttempt
  <1> HIDE DEF r
  <1>4. step.at = "start" => active = 0
    BY DEF JobsInv, SlotInv
  <1>5. active' = 0 <=> run'.phase = "none"
    BY <1>1 DEF JobsInv, SlotInv, slotVars
  <1>6. active' \in Attempts \cup {0}
    BY <1>1 DEF JobsInv, KindInv, slotVars
  <1>7. QED BY <1>1, <1>2, <1>3, <1>4, <1>5, <1>6, Stays, Added DEF slotVars

LEMMA CallSleepKeeps == ASSUME JobsInv, CallSleep PROVE JobsInv'
  <1> DEFINE r == [Request("sleep") EXCEPT !.attempt = active]
  <1>1. /\ queue' = Append(queue, r) /\ UNCHANGED <<mem, disk, step, slotVars, projectVars>>
        /\ active # 0 /\ counts' = [counts EXCEPT !.sleeps = @ + 1]
    BY DEF CallSleep, Enqueue
  <1>2. active \in Attempts /\ active \in 0..MaxAttempts
    BY <1>1, SlotNumber DEF JobsInv, SlotInv
  <1>3. r \in Requests /\ r.op = "sleep" /\ r.attempt = active
    BY <1>2, AttemptRequest DEF RequestOps
  <1>4. r.op \notin JobCalls /\ r.op # "publish"
    BY <1>3 DEF JobCalls
  <1> HIDE DEF r
  <1>5. step.at = "start" => active = 0
    BY DEF JobsInv, SlotInv
  <1>6. active' = 0 <=> run'.phase = "none"
    BY <1>1 DEF JobsInv, SlotInv, slotVars
  <1>7. active' \in Attempts \cup {0}
    BY <1>1 DEF JobsInv, KindInv, slotVars
  <1>8. counts' \in [edits : Nat, faults : Nat, sleeps : Nat, crashes : Nat]
    BY <1>1, Stays
  <1>9. QED BY <1>1, <1>2, <1>3, <1>4, <1>5, <1>6, <1>7, <1>8, Stays, Added DEF slotVars

LEMMA EditKeeps == ASSUME JobsInv, Edit PROVE JobsInv'
  <1>1. /\ head' = head + 1 /\ counts' = [counts EXCEPT !.edits = @ + 1]
        /\ UNCHANGED <<mem, disk, queue, step, slotVars, results>>
    BY DEF Edit
  <1>2. DataInv' /\ Attempts' = Attempts
    BY <1>1, SameData
  <1>3. head' \in Nat /\ counts' \in [edits : Nat, faults : Nat, sleeps : Nat, crashes : Nat]
    BY <1>1 DEF JobsInv, KindInv
  <1>4. KindInv' /\ LineInv' /\ SlotInv' /\ AuthorityInv'
    BY <1>1, <1>2, <1>3 DEF JobsInv, KindInv, LineInv, SlotInv, AuthorityInv, slotVars
  <1>5. QED BY <1>2, <1>4 DEF JobsInv

LEMMA CrashKeeps == ASSUME JobsInv, Crash PROVE JobsInv'
  <1>1. /\ mem' = disk /\ queue' = <<>> /\ step' = [at |-> "down", attempt |-> 0]
        /\ active' = 0 /\ run' = NoRun /\ aborting' = 0 /\ processes' = {}
        /\ stops' = [a \in DOMAIN stops |-> "none"]
        /\ counts' = [counts EXCEPT !.crashes = @ + 1]
        /\ UNCHANGED <<disk, projectVars>>
    BY DEF Crash, Idle
  <1>2. DataInv'
    BY <1>1, FollowsItself DEF JobsInv, DataInv, projectVars
  <1>3. KindInv'
    <2>1. counts' \in [edits : Nat, faults : Nat, sleeps : Nat, crashes : Nat] /\ head' \in Nat
      <3>1. /\ counts \in [edits : Nat, faults : Nat, sleeps : Nat, crashes : Nat]
            /\ counts.crashes \in Nat /\ head' \in Nat
        BY <1>1 DEF JobsInv, KindInv, projectVars
      <3>2. counts.crashes + 1 \in Nat
        BY <3>1
      <3>3. QED BY <1>1, <3>1, <3>2
    <2>5. stops' \in [1..MaxAttempts -> {"none", "pending", "done", "refused"}]
      BY <1>1 DEF JobsInv, KindInv
    <2>2. step' \in [at : Waits, attempt : 0..MaxAttempts] /\ run' \in [phase : Phases, signal : Causes]
      BY <1>1, JobsAssumption DEF NoRun, Waits, Phases, Causes
    <2>3. queue' \in Seq(Requests)
      BY <1>1
    <2>4. QED BY <1>1, <2>1, <2>2, <2>3, <2>5 DEF KindInv
  <1>4. LineInv' /\ SlotInv' /\ AuthorityInv'
    BY <1>1 DEF LineInv, SlotInv, AuthorityInv, OnAttempt, PublicationSteps, NoRun
  <1>5. QED BY <1>2, <1>3, <1>4 DEF JobsInv

LEMMA OpenKeeps == ASSUME JobsInv, Open PROVE JobsInv'
  <1>1. /\ step' = [at |-> "idle", attempt |-> 0] /\ mem' = Recovered(disk) /\ disk' = mem'
        /\ UNCHANGED <<queue, slotVars, projectVars, counts>> /\ step.at = "down"
    BY DEF Open, Idle
  <1>2. StateOK(mem', results) /\ Follows(mem', disk)
    BY <1>1, RecoveredKeeps DEF JobsInv, DataInv
  <1>3. Attempts' = Attempts
    BY <1>1, RecoveredFacts DEF JobsInv, DataInv, StateOK, AuthorityInv, Attempts
  <1>4. DataInv'
    BY <1>1, <1>2, FollowsItself DEF JobsInv, DataInv, Follows, projectVars
  <1>5. KindInv'
    <2>1. step' \in [at : Waits, attempt : 0..MaxAttempts]
      BY <1>1, JobsAssumption DEF Waits
    <2>2. QED BY <1>1, <1>3, <2>1 DEF JobsInv, KindInv, slotVars, projectVars
  <1>6. LineInv' /\ SlotInv' /\ AuthorityInv'
    BY <1>1, <1>3 DEF JobsInv, LineInv, SlotInv, AuthorityInv, OnAttempt, PublicationSteps, slotVars
  <1>7. QED BY <1>4, <1>5, <1>6 DEF JobsInv

LEMMA InitHolds == ASSUME Init PROVE JobsInv
  <1>1. Empty \in State /\ Empty.attempts = <<>> /\ \A j \in Jobs : Empty.jobs[j] = "absent"
    BY DEF Empty, State, JobStates
  <1>2. Len(Empty.attempts) = 0 /\ DOMAIN Empty.attempts = {}
    BY <1>1
  <1>3. StateOK(Empty, {})
    BY <1>1, <1>2, JobsAssumption DEF StateOK, FlightOK, InFlight
  <1>4. DataInv
    BY <1>2, <1>3, FollowsItself DEF Init, DataInv
  <1>5. KindInv
    BY JobsAssumption DEF Init, KindInv, Idle, NoRun, Waits, Phases, Causes, Attempts
  <1>6. LineInv /\ SlotInv /\ AuthorityInv
    BY DEF Init, LineInv, SlotInv, AuthorityInv, Idle, NoRun, OnAttempt, PublicationSteps
  <1>7. QED BY <1>4, <1>5, <1>6 DEF JobsInv

-----------------------------------------------------------------------------
(* What holds whatever fails *)

LEMMA MutationsKeep == ASSUME JobsInv, Mutations PROVE JobsInv' /\ Attempts \subseteq Attempts'
  BY SubmitKeeps, ConfirmKeeps, RetryKeeps, RefreshKeeps, CancelStep, RunNextKeeps,
     SleepKeeps, SubmitDriftedKeeps, PublishKeeps, SettleKeeps, WriteKeeps, CommitKeeps,
     RejectKeeps, ContainedKeeps DEF Mutations

LEMMA NextKeeps == ASSUME JobsInv, [Next]_vars PROVE JobsInv'
  <1>1. CASE UNCHANGED vars
    BY <1>1 DEF vars, slotVars, projectVars, JobsInv, DataInv, KindInv, LineInv, SlotInv, AuthorityInv,
       Attempts
  <1>2. CASE Mutations
    BY <1>2, MutationsKeep
  <1>3. CASE Attempting
    BY <1>3, LaunchKeeps, FailPreparationKeeps, AnswerKeeps, InterruptedKeeps, StoppedKeeps,
       UnwindKeeps, FailAttemptKeeps, LeaveKeeps, AbortKeeps DEF Attempting
  <1>4. CASE Calls
    <2>1. ASSUME NEW op \in JobCalls, NEW j \in Jobs, Call(op, j) PROVE JobsInv'
      BY <2>1, CallKeeps
    <2>2. ASSUME NEW op \in QueueCalls, Call(op, "none") PROVE JobsInv'
      <3>1. op \notin JobCalls
        BY DEF JobCalls, QueueCalls
      <3>2. QED BY <2>2, <3>1, CallKeeps
    <2>3. QED BY <1>4, <2>1, <2>2, CallSleepKeeps, EditKeeps DEF Calls
  <1>5. CASE Failures
    BY <1>5, FailWriteKeeps, StoppedKeeps, SettleKeeps, CrashKeeps DEF Failures
  <1>6. CASE Open
    BY <1>6, OpenKeeps
  <1>7. QED BY <1>1, <1>2, <1>3, <1>4, <1>5, <1>6 DEF Next

\* Requests and steps name what is there, the slot has one Attempt, memory and
\* disk tell of the same Attempts: the inductive invariant, whatever fails.
THEOREM JobsInvariant == Spec => []JobsInv
  <1>1. Init => JobsInv
    BY InitHolds
  <1>2. JobsInv /\ [Next]_vars => JobsInv'
    BY NextKeeps
  <1>3. QED BY <1>1, <1>2, PTL DEF Spec

\* A set whose members are all equal has at most one.
LEMMA AtMostOne ==
    ASSUME NEW S, \A x, y \in S : x = y
    PROVE Cardinality(S) <= 1
  <1>1. CASE S = {}
    BY <1>1, FS_EmptySet
  <1>2. CASE S # {}
    <2>1. PICK x \in S : TRUE
      BY <1>2
    <2>2. S = {x}
      BY <2>1
    <2>3. QED BY <2>2, FS_Singleton
  <1>3. QED BY <1>1, <1>2

LEMMA SafetyHolds ==
    ASSUME JobsInv
    PROVE TypeOK /\ OneJobInFlight /\ RunningHasAttempt /\ SuccessIsPublished
  <1>1. TypeOK
    BY DEF JobsInv, DataInv, KindInv, StateOK, Follows, TypeOK, Attempts, Phases
  <1>2. OneJobInFlight
    BY AtMostOne DEF OneJobInFlight, JobsInv, DataInv, StateOK, FlightOK
  <1>3. RunningHasAttempt
    BY Found DEF RunningHasAttempt, JobsInv, DataInv, StateOK, FlightOK
  <1>4. SuccessIsPublished
    BY DEF SuccessIsPublished, JobsInv, DataInv, StateOK, Follows
  <1>5. QED BY <1>1, <1>2, <1>3, <1>4

\* Every variable holds a value of its kind.
THEOREM JobsTypeCorrect == Spec => []TypeOK
  BY JobsInvariant, SafetyHolds, PTL

\* At most one Job is running or being cancelled, whatever fails.
THEOREM OneJobAtATime == Spec => []OneJobInFlight
  BY JobsInvariant, SafetyHolds, PTL

\* A Job the state calls running has an Attempt that cancel and the restart find.
THEOREM RunningJobsHaveAttempts == Spec => []RunningHasAttempt
  BY JobsInvariant, SafetyHolds, PTL

\* Memory and disk record as a success only what the Project holds.
THEOREM SuccessesArePublished == Spec => []SuccessIsPublished
  BY JobsInvariant, SafetyHolds, PTL

-----------------------------------------------------------------------------
(* The process of a runner *)

LEMMA ProcessesStay ==
    ASSUME ProcessInv, UNCHANGED <<stops, processes, active, run>>, Attempts \subseteq Attempts',
           step'.at = "start" => stops[step'.attempt] = "none"
    PROVE ProcessInv'
  BY DEF ProcessInv

\* Nothing runs, and nothing starts to.
LEMMA NoProcess ==
    ASSUME ProcessInv, stops' = stops, processes' = {}, Attempts \subseteq Attempts',
           run'.phase \notin {"preparing", "running", "stopping"},
           step'.at = "start" => UNCHANGED step
    PROVE ProcessInv'
  BY DEF ProcessInv

LEMMA EmptySlot ==
    ASSUME ProcessInv, run.phase \notin {"running", "stopping"}
    PROVE processes = {}
  BY DEF ProcessInv

LEMMA StartIsNew ==
    ASSUME JobsInv, ProcessInv, NEW j \in Jobs, Start(j)
    PROVE stops[step'.attempt] = "none"
  <1> DEFINE n == Len(mem.attempts) + 1
  <1>1. step' = [at |-> "start", attempt |-> n] /\ Len(mem.attempts) < MaxAttempts
    BY DEF Start, Save
  <1>2. mem \in State
    BY DEF JobsInv, DataInv, StateOK
  <1>3. n \in 1..MaxAttempts /\ n \notin Attempts
    BY <1>1, <1>2, AttemptsOf, JobsAssumption DEF Attempts
  <1>4. n \in DOMAIN stops
    BY <1>3 DEF JobsInv, KindInv
  <1>5. QED BY <1>1, <1>3, <1>4 DEF ProcessInv

LEMMA MutationsKeepProcesses ==
    ASSUME JobsInv, ProcessInv, Mutations PROVE ProcessInv'
  <1>a. Attempts \subseteq Attempts'
    BY MutationsKeep
  <1>1. CASE Submit \/ Confirm \/ Retry \/ RefreshBlocked \/ Cancel \/ SubmitDrifted \/ Settle \/ Contained
    <2>1. UNCHANGED <<stops, processes, active, run>>
      BY <1>1 DEF Submit, Confirm, Retry, RefreshBlocked, Cancel, SubmitDrifted, Settle, Contained,
             Quiet, slotVars
    <2>2. step'.at # "start" \/ step' = step
      BY <1>1 DEF Submit, Confirm, Retry, RefreshBlocked, Cancel, SubmitDrifted, Settle, Contained,
             Save, Nothing, Idle
    <2>3. step'.at = "start" => stops[step'.attempt] = "none"
      BY <2>2 DEF ProcessInv
    <2>4. QED BY <2>1, <2>3, <1>a, ProcessesStay
  <1>2. CASE RunNext
    <2>1. UNCHANGED <<stops, processes, active, run>>
      BY <1>2 DEF RunNext, Quiet, slotVars
    <2>2. \/ \E j \in Jobs : Start(j)
          \/ step'.at # "start" \/ step' = step
      BY <1>2 DEF RunNext, Save, Nothing
    <2>3. step'.at = "start" => stops[step'.attempt] = "none"
      BY <2>2, StartIsNew DEF ProcessInv
    <2>4. QED BY <2>1, <2>3, <1>a, ProcessesStay
  <1>3. CASE Sleep
    <2>1. UNCHANGED <<stops, processes, active, run>> /\ (step'.at # "start" \/ step' = step)
      BY <1>3 DEF Sleep, Save, Nothing
    <2>2. step'.at = "start" => stops[step'.attempt] = "none"
      BY <2>1 DEF ProcessInv
    <2>3. QED BY <2>1, <2>2, <1>a, ProcessesStay
  <1>4. CASE Publish
    <2>1. /\ stops' = stops /\ processes' = processes /\ step'.at # "start"
          /\ run' = run \/ run'.phase \in {"failed", "leaving"}
      BY <1>4 DEF Publish, Take, Idle, Save, Nothing, Moving
    <2>2. run.phase = "answered"
      <3>1. queue[1].op = "publish" /\ 1 \in DOMAIN queue
        BY <1>4, TakeFacts DEF Publish, Take, JobsInv, KindInv
      <3>2. QED BY <3>1 DEF JobsInv, SlotInv
    <2>3. processes' = {} /\ run'.phase \notin {"preparing", "running", "stopping"}
      BY <2>1, <2>2, EmptySlot
    <2>4. QED BY <2>1, <2>3, <1>a, NoProcess
  <1>5. CASE Commit \/ Reject
    <2>1. /\ stops' = stops /\ processes' = processes /\ step'.at # "start"
          /\ run' = run \/ run'.phase = "failed"
          /\ step.at = "authority"
      BY <1>5 DEF Commit, Reject, Idle, Save, Moving
    <2>2. run.phase = "answered"
      BY <2>1 DEF JobsInv, SlotInv, PublicationSteps
    <2>3. processes' = {} /\ run'.phase \notin {"preparing", "running", "stopping"}
      BY <2>1, <2>2, EmptySlot
    <2>4. QED BY <2>1, <2>3, <1>a, NoProcess
  <1>6. CASE Write
    <2>1. AfterWrite /\ processes' = processes /\ Attempts' = Attempts
      BY <1>6 DEF Write, Attempts
    <2>2. step'.at # "start"
      BY <1>6, <2>1 DEF Write, Written, AfterWrite, Idle, JobsInv, KindInv
    <2>3. CASE step.at = "start"
      <3>1. /\ active' = step.attempt /\ stops' = stops
            /\ run' = [phase |-> "preparing", signal |-> "none"] /\ run.phase = "none"
        BY <2>1, <2>3 DEF AfterWrite, NoRun, JobsInv, SlotInv
      <3>2. processes' = {} /\ stops[step.attempt] = "none"
        BY <2>1, <2>3, <3>1, EmptySlot DEF ProcessInv
      <3>3. QED BY <2>1, <2>2, <3>1, <3>2 DEF ProcessInv
    <2>4. CASE step.at = "drift"
      <3> DEFINE a == step.attempt
      <3>1. /\ active' = active /\ run' = Signalled(a, "violation")
            /\ \/ stops' = stops /\ stops[a] # "none"
               \/ stops' = [stops EXCEPT ![a] = "pending"] /\ stops[a] = "none"
        BY <2>1, <2>4 DEF AfterWrite
      <3>2. a \in Attempts /\ a \in DOMAIN stops
        BY <2>4, Number DEF JobsInv, KindInv, LineInv, OnAttempt, DataInv, StateOK, Attempts
      <3>3. \/ run' = run /\ (active = a => run.signal # "none")
            \/ active = a /\ run' = [run EXCEPT !.signal = "violation"]
        BY <3>1 DEF Signalled
      <3> HIDE DEF a
      <3>4. run \in [phase : Phases, signal : Causes]
        BY Stays
      <3>5. run'.phase = run.phase /\ (run'.signal = "none" => run.signal = "none" /\ active # a)
        BY <3>3, <3>4
      <3>6. \A b \in DOMAIN stops : stops'[b] = stops[b] \/ (b = a /\ stops'[b] = "pending" /\ stops[b] = "none")
        BY <3>1, <3>2
      <3>7. run.phase # "none" => active \in DOMAIN stops
        BY SlotNumber
      <3>8. DOMAIN stops' = DOMAIN stops
        BY <3>1
      <3>9. \A b \in processes : b \in DOMAIN stops
        BY Number DEF JobsInv, KindInv, DataInv, StateOK, Attempts
      <3>10. QED BY <2>1, <2>2, <3>1, <3>2, <3>5, <3>6, <3>7, <3>8, <3>9 DEF ProcessInv
    <2>5. CASE step.at \notin {"start", "drift"}
      <3>1. /\ active' = active /\ stops' = stops
            /\ \/ run' = run \/ run' = Signalled(active, "cancelled")
               \/ step.at = "complete" /\ run' = [run EXCEPT !.phase = "leaving"]
        BY <2>1, <2>5 DEF AfterWrite
      <3>2. CASE step.at = "complete"
        <4>1. run.phase = "answered" /\ run \in [phase : Phases, signal : Causes]
          BY <3>2, Stays DEF JobsInv, SlotInv, PublicationSteps
        <4>2. run'.phase \notin {"preparing", "running", "stopping"} /\ processes' = {}
          BY <2>1, <3>1, <4>1, EmptySlot DEF Signalled
        <4>3. QED BY <2>1, <2>2, <3>1, <4>2, <1>a, NoProcess
      <3>3. CASE step.at # "complete"
        <4>1. run'.phase = run.phase /\ (run'.signal = "none" => run.signal = "none")
          BY <3>1, <3>3, Stays DEF Signalled
        <4>2. QED BY <2>1, <2>2, <3>1, <4>1 DEF ProcessInv
      <3>4. QED BY <3>2, <3>3
    <2>6. QED BY <2>3, <2>4, <2>5
  <1>7. QED BY <1>1, <1>2, <1>3, <1>4, <1>5, <1>6 DEF Mutations

LEMMA AttemptingKeepsProcesses ==
    ASSUME JobsInv, ProcessInv, Attempting PROVE ProcessInv'
  <1>1. Attempts' = Attempts /\ step' = step /\ run \in [phase : Phases, signal : Causes]
    BY Stays DEF Attempting, Launch, FailPreparation, Answer, Interrupted, Stopped, Unwind, FailAttempt,
           Leave, Abort, Others, Attempts
  <1>2. run.phase # "none" => active \in DOMAIN stops /\ active \in Attempts
    BY SlotNumber
  <1>3. \A a \in processes : a \in DOMAIN stops
    BY Number DEF JobsInv, KindInv, DataInv, StateOK, Attempts
  <1>4. CASE Launch
    <2>1. /\ run.phase = "preparing" /\ active' = active
          /\ \/ /\ run.signal = "none" /\ run' = [phase |-> "running", signal |-> "none"]
                /\ processes' = processes \cup {active} /\ stops' = stops
             \/ /\ run'.phase = "stopping" /\ processes' = processes
                /\ stops' = [stops EXCEPT ![active] = IF @ = "none" THEN "pending" ELSE @]
      BY <1>4 DEF Launch, Moving, Others
    <2>2. processes = {}
      BY <2>1, EmptySlot
    <2>3. active \in DOMAIN stops /\ active \in Attempts
      BY <1>2, <2>1
    <2>4. CASE /\ run.signal = "none" /\ run' = [phase |-> "running", signal |-> "none"]
               /\ processes' = processes \cup {active} /\ stops' = stops
      <3>1. processes' = {active}
        BY <2>2, <2>4
      <3>2. stops[active] = "none"
        BY <2>1, <2>4 DEF ProcessInv
      <3>3. QED BY <1>1, <2>1, <2>3, <2>4, <3>1, <3>2 DEF ProcessInv
    <2>5. CASE /\ run'.phase = "stopping" /\ processes' = processes
               /\ stops' = [stops EXCEPT ![active] = IF @ = "none" THEN "pending" ELSE @]
      <3>1. processes' = {}
        BY <2>2, <2>5
      <3>2. /\ DOMAIN stops' = DOMAIN stops /\ stops'[active] \notin {"none", "refused"}
            /\ \A b \in DOMAIN stops : b # active => stops'[b] = stops[b]
        BY <2>3, <2>5 DEF ProcessInv
      <3>3. step.at # "start"
        BY <2>1 DEF JobsInv, SlotInv
      <3>4. QED BY <1>1, <2>1, <2>3, <2>5, <3>1, <3>2, <3>3 DEF ProcessInv
    <2>6. QED BY <2>1, <2>4, <2>5
  <1>5. CASE Interrupted
    <2>1. /\ run.phase = "running" /\ active' = active /\ run'.phase = "stopping"
          /\ processes' = processes
          /\ stops' = [stops EXCEPT ![active] = IF @ = "none" THEN "pending" ELSE @]
      BY <1>5 DEF Interrupted, Moving, Others
    <2>2. active \in DOMAIN stops /\ active \in Attempts
      BY <1>2, <2>1
    <2>3. /\ DOMAIN stops' = DOMAIN stops /\ stops'[active] \notin {"none", "refused"}
          /\ \A b \in DOMAIN stops : b # active => stops'[b] = stops[b]
          /\ stops'[active] = "done" => stops[active] = "done"
      BY <2>1, <2>2 DEF ProcessInv
    <2>4. step.at # "start"
      BY <2>1 DEF JobsInv, SlotInv
    <2>5. QED BY <1>1, <1>3, <2>1, <2>2, <2>3, <2>4 DEF ProcessInv
  <1>6. CASE Answer
    <2>1. /\ processes' = processes \ {active} /\ stops' = stops /\ run'.phase \in {"answered", "failed"}
      BY <1>6 DEF Answer, Moving
    <2>2. processes' = {}
      BY <2>1 DEF ProcessInv
    <2>3. QED BY <1>1, <2>1, <2>2, NoProcess
  <1>7. CASE Stopped
    <2>1. PICK a \in DOMAIN stops :
             /\ stops[a] = "pending" /\ stops' = [stops EXCEPT ![a] = "done"]
             /\ processes' = processes \ {a}
      BY <1>7 DEF Stopped
    <2>2. run' = run /\ active' = active
      BY <1>7 DEF Stopped, Others
    <2>3. QED BY <1>1, <1>2, <1>3, <2>1, <2>2 DEF ProcessInv
  <1>8. CASE Unwind
    <2>1. /\ run.phase = "stopping" /\ stops[active] \in {"done", "refused"}
          /\ run'.phase = "failed" /\ stops' = stops /\ processes' = processes
      BY <1>8 DEF Unwind, Moving, Others
    <2>2. processes' = {}
      BY <1>2, <2>1 DEF ProcessInv
    <2>3. QED BY <1>1, <2>1, <2>2, NoProcess
  <1>9. CASE FailPreparation \/ FailAttempt \/ Leave
    <2>1. /\ run.phase \in {"preparing", "failed", "leaving"} /\ stops' = stops /\ processes' = processes
          /\ run'.phase \in {"failed", "none"}
      BY <1>9 DEF FailPreparation, FailAttempt, Leave, Moving, Others, NoRun
    <2>2. processes' = {}
      BY <2>1, EmptySlot
    <2>3. QED BY <1>1, <2>1, <2>2, NoProcess
  <1>10. CASE Abort
    <2>1. /\ run' = Signalled(aborting, "interrupted") /\ UNCHANGED <<active, stops, processes>>
      BY <1>10 DEF Abort
    <2>2. run'.phase = run.phase /\ (run'.signal = "none" => run.signal = "none")
      BY <1>1, <2>1 DEF Signalled
    <2>3. QED BY <1>1, <2>1, <2>2 DEF ProcessInv
  <1>11. QED BY <1>4, <1>5, <1>6, <1>7, <1>8, <1>9, <1>10 DEF Attempting

LEMMA NextKeepsProcesses ==
    ASSUME "stop" \notin Faults, JobsInv, ProcessInv, [Next]_vars PROVE ProcessInv'
  <1>1. CASE UNCHANGED vars
    BY <1>1 DEF vars, slotVars, ProcessInv, Attempts
  <1>2. CASE Mutations \/ Attempting
    BY <1>2, MutationsKeepProcesses, AttemptingKeepsProcesses
  <1>3. CASE Calls \/ FailSettle
    <2>1. UNCHANGED <<stops, processes, active, run, step>> /\ Attempts' = Attempts
      BY <1>3 DEF Calls, Call, CallSleep, Edit, FailSettle, Nothing, slotVars, Attempts
    <2>2. step'.at = "start" => stops[step'.attempt] = "none"
      BY <2>1 DEF ProcessInv
    <2>3. QED BY <2>1, <2>2, ProcessesStay
  <1>4. CASE FailWrite
    <2>1. /\ UNCHANGED <<stops, processes, active>> /\ Attempts' = Attempts /\ step' = Idle
          /\ run' = run \/ (step.at \in {"candidate", "complete"} /\ run'.phase = "failed")
      BY <1>4 DEF FailWrite, Attempts
    <2>2. CASE run' = run
      BY <2>1, <2>2, ProcessesStay DEF Idle
    <2>3. CASE run' # run
      <3>1. run.phase = "answered"
        BY <2>1, <2>3 DEF JobsInv, SlotInv, PublicationSteps
      <3>2. processes' = {}
        BY <2>1, <3>1, EmptySlot
      <3>3. QED BY <2>1, <2>3, <3>2, NoProcess DEF Idle
    <2>4. QED BY <2>2, <2>3
  <1>5. CASE NotStopped
    BY <1>5 DEF NotStopped, CanFail
  <1>6. CASE Crash
    <2>1. /\ step' = [at |-> "down", attempt |-> 0] /\ run' = NoRun /\ processes' = {}
          /\ stops' = [a \in DOMAIN stops |-> "none"]
      BY <1>6 DEF Crash, Idle
    <2>2. QED BY <2>1 DEF ProcessInv, NoRun
  <1>7. CASE Open
    <2>1. UNCHANGED <<stops, processes, active, run>> /\ step' = Idle
      BY <1>7 DEF Open, slotVars
    <2>2. Attempts' = Attempts
      BY <1>7, RecoveredFacts DEF Open, JobsInv, DataInv, StateOK, AuthorityInv, Attempts
    <2>3. QED BY <2>1, <2>2, ProcessesStay DEF Idle
  <1>8. QED BY <1>2, <1>3, <1>4, <1>5, <1>6, <1>7, <1>1 DEF Next, Failures

LEMMA InitProcesses == ASSUME Init PROVE ProcessInv
  BY DEF Init, ProcessInv, NoRun, Idle

\* While every termination succeeds, one contained analysis runs at a time.
THEOREM OneRunnerAtATime == ASSUME "stop" \notin Faults PROVE Spec => []OneRunner
  <1>1. Init => ProcessInv
    BY InitProcesses
  <1>2. JobsInv /\ ProcessInv /\ [Next]_vars => ProcessInv'
    BY NextKeepsProcesses
  <1>3. ProcessInv => OneRunner
    BY AtMostOne DEF ProcessInv, OneRunner
  <1>4. QED BY <1>1, <1>2, <1>3, JobsInvariant, PTL DEF Spec

-----------------------------------------------------------------------------
(* The disk between two mutations *)

LEMMA MutationsKeepWritten ==
    ASSUME JobsInv, WrittenInv, Mutations PROVE WrittenInv'
  <1>1. CASE Submit \/ Confirm \/ Retry \/ RefreshBlocked \/ Cancel \/ RunNext \/ Sleep \/ SubmitDrifted
             \/ Settle
    <2> DEFINE saved == UNCHANGED <<mem, step>> \/ step'.at \in {"plain", "start", "cancel", "drift", "sleep"}
    <2>1. step = Idle /\ disk' = disk
      BY <1>1 DEF Submit, Confirm, Retry, RefreshBlocked, Cancel, RunNext, Sleep, SubmitDrifted,
             Settle, Take, Quiet
    <2>2. CASE Submit \/ Confirm \/ Retry \/ RefreshBlocked
      <3>1. saved
        BY <2>2 DEF Submit, Confirm, Retry, RefreshBlocked, Save, Nothing
      <3>2. QED BY <2>1, <3>1 DEF WrittenInv, Writing, Idle
    <2>3. CASE Cancel
      <3>1. saved
        BY <2>3 DEF Cancel, Save, Nothing
      <3>2. QED BY <2>1, <3>1 DEF WrittenInv, Writing, Idle
    <2>4. CASE RunNext
      <3>1. saved
        <4>1. \A j : Start(j) => step'.at = "start"
          BY DEF Start, Save
        <4>2. \A state : Save(state, "plain", 0) => step'.at = "plain"
          BY DEF Save
        <4>3. (\E j \in Jobs : Start(j)) \/ (\E state : Save(state, "plain", 0)) \/ Nothing
          BY <2>4 DEF RunNext
        <4>4. QED BY <4>1, <4>2, <4>3 DEF Nothing
      <3>2. QED BY <2>1, <3>1 DEF WrittenInv, Writing, Idle
    <2>7. CASE SubmitDrifted
      <3>1. saved
        BY <2>7 DEF SubmitDrifted, Save, Nothing
      <3>2. QED BY <2>1, <3>1 DEF WrittenInv, Writing, Idle
    <2>5. CASE Sleep \/ Settle
      <3>1. saved
        BY <2>5 DEF Sleep, Settle, Save, Nothing
      <3>2. QED BY <2>1, <3>1 DEF WrittenInv, Writing, Idle
    <2>6. QED BY <1>1, <2>2, <2>3, <2>4, <2>5, <2>7
  <1>2. CASE Publish
    <2> DEFINE a == Head(queue).attempt
    <2>1. step = Idle /\ disk' = disk /\ disk = mem /\ a \in Attempts
      BY <1>2, Asked DEF Publish, Take, WrittenInv, Writing, Idle, AboutAttempt
    <2>2. \/ UNCHANGED <<mem, step>>
          \/ /\ StillCurrent(a) /\ mem' = [mem EXCEPT !.attempts[a].candidate = TRUE]
             /\ step' = [at |-> "candidate", attempt |-> a]
      BY <1>2 DEF Publish, Nothing, Save
    <2>3. CASE UNCHANGED <<mem, step>>
      BY <2>1, <2>3 DEF WrittenInv, Idle
    <2>4. CASE /\ StillCurrent(a) /\ mem' = [mem EXCEPT !.attempts[a].candidate = TRUE]
               /\ step' = [at |-> "candidate", attempt |-> a]
      <3>1. mem \in State /\ a \in DOMAIN mem.attempts
        BY <2>1 DEF JobsInv, DataInv, StateOK, Attempts
      <3>2. mem.attempts[a].state = "running" /\ mem.jobs[mem.attempts[a].job] = "running"
        BY <2>1, <2>4 DEF StillCurrent
      <3>3. /\ mem'.jobs = mem.jobs /\ mem'.attempts[a].job = mem.attempts[a].job
            /\ mem'.attempts[a].state = "running" /\ mem'.attempts[a].candidate
        BY <2>4, <3>1, <3>2, CandidateFacts
      <3>4. QED BY <2>4, <3>2, <3>3 DEF WrittenInv, Writing
    <2>5. QED BY <2>2, <2>3, <2>4
  <1>3. CASE Write
    <2>1. disk' = mem /\ mem' = mem /\ AfterWrite
      BY <1>3 DEF Write
    <2>2. step' = Idle \/ step'.at = "containing" \/ (step.at = "candidate" /\ step'.attempt = step.attempt)
      BY <2>1, Stays DEF AfterWrite, JobsInv, KindInv
    <2>3. QED BY <2>1, <2>2 DEF WrittenInv, Idle
  <1>4. CASE Commit \/ Reject \/ Contained
    <2>1. /\ step.at \in {"authority", "containing"} /\ disk' = disk
          /\ \/ mem' = mem /\ step' = Idle
             \/ step'.at \in {"complete", "plain"}
      BY <1>4 DEF Commit, Reject, Contained, Quiet, Save
    <2>2. QED BY <2>1 DEF WrittenInv, Writing, Idle
  <1>5. QED BY <1>1, <1>2, <1>3, <1>4 DEF Mutations

LEMMA NextKeepsWritten ==
    ASSUME "write" \notin Faults, JobsInv, WrittenInv, [Next]_vars PROVE WrittenInv'
  <1>1. CASE UNCHANGED vars
    BY <1>1 DEF vars, WrittenInv
  <1>2. CASE Mutations
    BY <1>2, MutationsKeepWritten
  <1>3. CASE Attempting \/ Calls \/ NotStopped \/ FailSettle
    <2>1. UNCHANGED <<mem, disk, step>>
      BY <1>3 DEF Attempting, Launch, FailPreparation, Answer, Interrupted, Stopped, Unwind, FailAttempt,
           Leave, Abort, Others, Calls, Call, CallSleep, Edit, NotStopped, FailSettle, Nothing
    <2>2. QED BY <2>1 DEF WrittenInv
  <1>4. CASE FailWrite
    BY <1>4 DEF FailWrite, CanFail
  <1>5. CASE Crash
    <2>1. mem' = disk /\ disk' = disk /\ step'.at = "down"
      BY <1>5 DEF Crash, Idle
    <2>2. QED BY <2>1 DEF WrittenInv
  <1>6. CASE Open
    <2>1. disk' = mem' /\ step'.at = "idle"
      BY <1>6 DEF Open, Idle
    <2>2. QED BY <2>1 DEF WrittenInv
  <1>7. QED BY <1>1, <1>2, <1>3, <1>4, <1>5, <1>6 DEF Next, Failures

\* Only a commit adds to what the Project holds.
LEMMA OnlyCommit ==
    ASSUME [Next]_vars, ~Commit PROVE results' = results
  <1>1. CASE UNCHANGED vars
    BY <1>1 DEF vars, projectVars
  <1>2. CASE Mutations
    BY <1>2 DEF Mutations, Submit, Confirm, Retry, RefreshBlocked, Cancel, RunNext, Sleep, SubmitDrifted,
         Publish, Settle, Write, Reject, Contained, Quiet, projectVars
  <1>3. CASE Attempting
    BY <1>3 DEF Attempting, Launch, FailPreparation, Answer, Interrupted, Stopped, Unwind, FailAttempt,
           Leave, Abort, Others, projectVars
  <1>4. CASE Calls
    BY <1>4 DEF Calls, Call, CallSleep, Edit, projectVars
  <1>6. CASE Failures
    BY <1>6 DEF Failures, FailWrite, NotStopped, FailSettle, Crash, Others, projectVars
  <1>7. CASE Open
    BY <1>7 DEF Open, projectVars
  <1>5. QED BY <1>1, <1>2, <1>3, <1>4, <1>6, <1>7 DEF Next

LEMMA InitWritten == ASSUME Init PROVE WrittenInv
  BY DEF Init, WrittenInv, Idle

\* As long as the state file can be written, a candidate enters the Project only
\* while its Attempt and Job are durably running and its claim is durable.
THEOREM PublicationsAreInTime == ASSUME "write" \notin Faults PROVE Spec => NoLatePublication
  <1>1. Init => WrittenInv
    BY InitWritten
  <1>2. JobsInv /\ WrittenInv /\ [Next]_vars => WrittenInv'
    BY NextKeepsWritten
  <1>3. ASSUME JobsInv, WrittenInv, [Next]_vars, NEW a \in results' \ results
        PROVE /\ a \in DOMAIN disk.attempts
              /\ disk.attempts[a].state = "running" /\ disk.attempts[a].candidate
              /\ disk.jobs[disk.attempts[a].job] = "running"
    <2>1. Commit
      BY <1>3, OnlyCommit
    <2>2. step.at = "authority" /\ a = step.attempt
      BY <1>3, <2>1 DEF Commit
    <2>3. QED BY <1>3, <2>2 DEF WrittenInv, Writing, JobsInv, AuthorityInv
  <1>4. JobsInv /\ WrittenInv /\ [Next]_vars => [\A a \in results' \ results :
          /\ a \in DOMAIN disk.attempts
          /\ disk.attempts[a].state = "running" /\ disk.attempts[a].candidate
          /\ disk.jobs[disk.attempts[a].job] = "running"]_vars
    BY <1>3
  <1>5. QED BY <1>1, <1>2, <1>4, JobsInvariant, PTL DEF Spec, NoLatePublication

-----------------------------------------------------------------------------
(* What the operators on a state do to its agreement with the Project *)

LEMMA AsideAgrees ==
    ASSUME NEW s \in State, NEW res, NEW j \in Jobs,
           NEW st \in JobStates, AgreesOn(s, res), s.jobs[j] \notin InFlight \cup {"succeeded"}
    PROVE AgreesOn(JobTo(s, j, st), res) /\ SameFlight(JobTo(s, j, st), s)
  <1> DEFINE t == JobTo(s, j, st)
  <1>1. /\ t \in State /\ t.attempts = s.attempts
        /\ \A k \in Jobs : k # j => t.jobs[k] = s.jobs[k]
    BY JobToFacts
  <1> HIDE DEF t
  <1>2. \A a \in DOMAIN s.attempts : s.attempts[a].job \in Jobs
    BY AttemptsOf
  <1>3. \A a : FlightOf(t, a) <=> FlightOf(s, a)
    BY <1>1 DEF FlightOf, InState
  <1>4. \A a \in DOMAIN s.attempts : FlightOf(s, a) => s.attempts[a].job # j
    BY DEF AgreesOn, FlightOf, InState
  <1>5. \A a \in DOMAIN s.attempts :
            s.jobs[s.attempts[a].job] = "succeeded" => s.attempts[a].job # j
    OBVIOUS
  <1>6. AgreesOn(t, res)
    BY <1>1, <1>2, <1>3, <1>4, <1>5 DEF AgreesOn
  <1>7. QED BY <1>3, <1>6 DEF t, SameFlight

LEMMA BreakAgrees ==
    ASSUME NEW s, NEW t, NEW res, AgreesOn(s, res), t.jobs = s.jobs, t.attempts = s.attempts
    PROVE AgreesOn(t, res) /\ SameFlight(t, s)
  BY DEF AgreesOn, SameFlight, FlightOf, InState

LEMMA SameAgrees ==
    ASSUME NEW s, NEW t, NEW res, AgreesOn(s, res), t.jobs = s.jobs,
           DOMAIN t.attempts = DOMAIN s.attempts,
           \A b \in DOMAIN s.attempts :
              /\ t.attempts[b].job = s.attempts[b].job
              /\ t.attempts[b].state = s.attempts[b].state
              /\ s.attempts[b].candidate => t.attempts[b].candidate
    PROVE AgreesOn(t, res) /\ SameFlight(t, s)
  <1>1. \A a : FlightOf(t, a) <=> FlightOf(s, a)
    BY DEF FlightOf, InState
  <1>2. QED BY <1>1 DEF AgreesOn, FlightOf, InState, SameFlight

LEMMA CancelAgrees ==
    ASSUME NEW s \in State, NEW res, NEW a \in DOMAIN s.attempts, AgreesOn(s, res),
           s.attempts[a].state = "running"
    PROVE AgreesOn(CancellingFrom(s, a), res) /\ SameFlight(CancellingFrom(s, a), s)
  <1> DEFINE t == CancellingFrom(s, a)
             j == s.attempts[a].job
  <1>1. /\ DOMAIN t.attempts = DOMAIN s.attempts
        /\ t.attempts[a].job = j /\ t.attempts[a].state = "cancelling"
        /\ t.attempts[a].candidate = s.attempts[a].candidate
        /\ \A b \in DOMAIN s.attempts : b # a => t.attempts[b] = s.attempts[b]
        /\ t.jobs[j] = "cancelling"
        /\ \A k \in Jobs : k # j => t.jobs[k] = s.jobs[k]
    BY CancelFacts
  <1>2. \A b \in DOMAIN s.attempts : s.attempts[b].job \in Jobs
    BY AttemptsOf
  <1> HIDE DEF t
  <1>3. FlightOf(s, a) /\ FlightOf(t, a)
    BY <1>1 DEF FlightOf, InState, InFlight
  <1>4. \A b \in DOMAIN s.attempts : FlightOf(t, b) <=> FlightOf(s, b)
    BY <1>1, <1>3 DEF FlightOf, InState
  <1>5. \A b \in DOMAIN s.attempts : FlightOf(s, b) => b = a
    BY <1>3 DEF AgreesOn
  <1>6. s.jobs[j] = "running"
    BY <1>3 DEF AgreesOn
  <1>7. \A b \in res :
          /\ b \in DOMAIN t.attempts /\ t.attempts[b].candidate
          /\ \/ FlightOf(t, b)
             \/ /\ t.attempts[b].state = "succeeded"
                /\ t.jobs[t.attempts[b].job] = "succeeded"
    BY <1>1, <1>2, <1>4, <1>3, <1>6 DEF AgreesOn
  <1>8. AgreesOn(t, res)
    BY <1>1, <1>4, <1>5, <1>7 DEF AgreesOn
  <1>9. QED BY <1>4, <1>8 DEF t, SameFlight

LEMMA StartAgrees ==
    ASSUME NEW s \in State, NEW res, NEW j \in Jobs, NEW expected \in Nat, AgreesOn(s, res),
           \A k \in Jobs : s.jobs[k] \notin InFlight, s.jobs[j] # "succeeded"
    PROVE LET t == StartedFrom(s, j, expected)
              n == Len(s.attempts) + 1 IN
          /\ AgreesOn(t, res) /\ FlightOf(t, n) /\ n \notin res
          /\ \A b \in DOMAIN s.attempts : ~FlightOf(s, b)
  <1> DEFINE t == StartedFrom(s, j, expected)
             n == Len(s.attempts) + 1
  <1>1. /\ DOMAIN t.attempts = 1..n
        /\ t.attempts[n].job = j /\ t.attempts[n].state = "running"
        /\ n \notin DOMAIN s.attempts /\ n \in Nat
        /\ \A b \in DOMAIN s.attempts : b \in DOMAIN t.attempts /\ t.attempts[b] = s.attempts[b]
        /\ t.jobs[j] = "running"
        /\ \A k \in Jobs : k # j => t.jobs[k] = s.jobs[k]
    BY StartFacts
  <1>2. /\ \A b \in DOMAIN s.attempts : s.attempts[b].job \in Jobs
        /\ n \in DOMAIN t.attempts
        /\ \A b \in DOMAIN t.attempts : b = n \/ b \in DOMAIN s.attempts
    BY <1>1, AttemptsOf
  <1> HIDE DEF t, n
  <1>3. \A b \in DOMAIN s.attempts : ~FlightOf(s, b)
    BY <1>2 DEF AgreesOn, FlightOf, InState
  <1>4. FlightOf(t, n) /\ \A b : FlightOf(t, b) => b = n
    BY <1>1, <1>2, <1>3 DEF FlightOf, InState, InFlight
  <1>5. \A b \in res : b \in DOMAIN s.attempts /\ s.attempts[b].job # j
    BY <1>3 DEF AgreesOn
  <1>6. AgreesOn(t, res)
    BY <1>1, <1>2, <1>3, <1>4, <1>5 DEF AgreesOn
  <1>7. QED BY <1>1, <1>3, <1>4, <1>5, <1>6 DEF t, n

\* A failure is recorded: nothing is in flight any more.
LEMMA FailedAgrees ==
    ASSUME NEW s \in State, NEW res, NEW a \in DOMAIN s.attempts, NEW cause \in Causes,
           AgreesOn(s, res), \A b \in DOMAIN s.attempts : FlightOf(s, b) => b = a,
           \A b \in res : s.attempts[b].job # s.attempts[a].job
    PROVE LET t == Failed(s, a, cause) IN
          AgreesOn(t, res) /\ \A b \in DOMAIN s.attempts : ~FlightOf(t, b)
  <1> DEFINE t == Failed(s, a, cause)
  <1>1. /\ DOMAIN t.attempts = DOMAIN s.attempts
        /\ \A b \in DOMAIN s.attempts : b # a => t.attempts[b] = s.attempts[b]
        /\ t.attempts[a].state \in {"cancelled", "failed"}
        /\ \A k \in Jobs : k # s.attempts[a].job => t.jobs[k] = s.jobs[k]
    BY FailedFacts
  <1>2. \A b \in DOMAIN s.attempts : s.attempts[b].job \in Jobs
    BY AttemptsOf
  <1> HIDE DEF t
  <1>3. \A b : ~FlightOf(t, b)
    BY <1>1 DEF FlightOf, InState, InFlight
  <1>4. \A b \in res : b # a /\ b \in DOMAIN s.attempts /\ ~FlightOf(s, b)
    BY DEF AgreesOn
  <1>5. AgreesOn(t, res)
    BY <1>1, <1>2, <1>3, <1>4 DEF AgreesOn
  <1>6. QED BY <1>3, <1>5 DEF t

LEMMA CompletedAgrees ==
    ASSUME NEW s \in State, NEW res, NEW a \in DOMAIN s.attempts, AgreesOn(s, res),
           s.attempts[a].candidate,
           FlightOf(s, a) \/ s.jobs[s.attempts[a].job] = "succeeded",
           \A b \in res : s.attempts[b].job = s.attempts[a].job => b = a
    PROVE LET t == Completed(s, a) IN
          /\ AgreesOn(t, res \cup {a})
          /\ \A b \in DOMAIN s.attempts : b # a => (FlightOf(t, b) <=> FlightOf(s, b))
          /\ ~FlightOf(t, a)
  <1> DEFINE t == Completed(s, a)
             j == s.attempts[a].job
  <1>1. /\ DOMAIN t.attempts = DOMAIN s.attempts
        /\ \A b \in DOMAIN s.attempts :
              /\ t.attempts[b].job = s.attempts[b].job
              /\ t.attempts[b].candidate = s.attempts[b].candidate
              /\ b # a => t.attempts[b] = s.attempts[b]
        /\ t.attempts[a].state = "succeeded"
        /\ \A k \in Jobs : k # j => t.jobs[k] = s.jobs[k]
        /\ t.jobs[j] = "succeeded"
    BY CompletedFacts
  <1>2. \A b \in DOMAIN s.attempts : s.attempts[b].job \in Jobs
    BY AttemptsOf
  <1> HIDE DEF t
  <1>3. ~FlightOf(t, a) /\ \A b \in DOMAIN s.attempts : b # a => (FlightOf(t, b) <=> FlightOf(s, b))
    BY <1>1 DEF FlightOf, InState, InFlight
  <1>4. \A b \in DOMAIN s.attempts : b # a /\ FlightOf(s, b) => s.attempts[b].job # j
    BY DEF AgreesOn, FlightOf, InState, InFlight
  <1>5. ASSUME NEW b \in res \cup {a}
        PROVE /\ b \in DOMAIN t.attempts /\ t.attempts[b].candidate
              /\ \/ FlightOf(t, b)
                 \/ /\ t.attempts[b].state = "succeeded"
                    /\ t.jobs[t.attempts[b].job] = "succeeded"
    <2>1. CASE b = a
      BY <1>1, <2>1
    <2>2. CASE b # a
      <3>1. b \in res /\ b \in DOMAIN s.attempts /\ s.attempts[b].job # j /\ s.attempts[b].job \in Jobs
        BY <1>2, <2>2 DEF AgreesOn
      <3>2. QED BY <1>1, <1>3, <2>2, <3>1 DEF AgreesOn
    <2>3. QED BY <2>1, <2>2
  <1>6. AgreesOn(t, res \cup {a})
    <2>1. \A b, c \in DOMAIN t.attempts : FlightOf(t, b) /\ FlightOf(t, c) => b = c
      BY <1>1, <1>3 DEF AgreesOn
    <2>2. \A b \in DOMAIN t.attempts : FlightOf(t, b) => t.jobs[t.attempts[b].job] = t.attempts[b].state
      BY <1>1, <1>2, <1>3, <1>4 DEF AgreesOn
    <2>3. QED BY <1>5, <2>1, <2>2 DEF AgreesOn
  <1>7. QED BY <1>3, <1>6 DEF t

\* A restart records every Attempt that was in flight.
LEMMA RecoveredAgrees ==
    ASSUME NEW s \in State, AgreesOn(s, results)
    PROVE AgreesOn(Recovered(s), results)
  <1> DEFINE t == Recovered(s)
             won(j) == Lost(s, j) /\ Published(s, AttemptOf(s, j, InFlight))
             found(j) == AttemptOf(s, j, InFlight)
  <1>1. /\ t \in State /\ Len(t.attempts) = Len(s.attempts)
        /\ DOMAIN t.attempts = DOMAIN s.attempts
        /\ \A a \in DOMAIN s.attempts :
              /\ t.attempts[a].job = s.attempts[a].job
              /\ t.attempts[a].candidate = s.attempts[a].candidate
              /\ won(s.attempts[a].job) /\ a = found(s.attempts[a].job)
                    => t.attempts[a].state = "succeeded"
              /\ Lost(s, s.attempts[a].job) /\ ~won(s.attempts[a].job)
                    /\ a = found(s.attempts[a].job)
                    => t.attempts[a].state \in {"cancelled", "failed"}
              /\ ~(Lost(s, s.attempts[a].job) /\ a = found(s.attempts[a].job))
                    => t.attempts[a] = s.attempts[a]
        /\ \A j \in Jobs :
              /\ won(j) => t.jobs[j] = "succeeded"
              /\ s.jobs[j] # "queued" /\ ~Lost(s, j) => t.jobs[j] = s.jobs[j]
    BY RecoveredFacts
  <1> HIDE DEF t
  <1>2. \A a \in DOMAIN s.attempts : s.attempts[a].job \in Jobs
    BY AttemptsOf
  <1>3. ASSUME NEW a \in DOMAIN s.attempts, FlightOf(s, a)
        PROVE Lost(s, s.attempts[a].job) /\ a = found(s.attempts[a].job)
    <2> DEFINE j == s.attempts[a].job
    <2>1. s.jobs[j] \in InFlight
      BY <1>3 DEF AgreesOn, FlightOf, InState
    <2>2. found(j) # 0 /\ found(j) \in DOMAIN s.attempts /\ FlightOf(s, found(j))
      BY <1>3, Found DEF FlightOf, InState
    <2>3. QED BY <1>3, <2>1, <2>2 DEF AgreesOn, Lost
  <1>4. \A a \in DOMAIN s.attempts : ~FlightOf(t, a)
    <2>1. SUFFICES ASSUME NEW a \in DOMAIN s.attempts PROVE ~FlightOf(t, a)
      OBVIOUS
    <2>2. CASE FlightOf(s, a)
      BY <1>1, <1>3, <2>2 DEF FlightOf, InState, InFlight
    <2>3. CASE ~FlightOf(s, a) /\ Lost(s, s.attempts[a].job) /\ a = found(s.attempts[a].job)
      BY <1>1, <2>3 DEF FlightOf, InState, InFlight
    <2>4. CASE ~(Lost(s, s.attempts[a].job) /\ a = found(s.attempts[a].job))
      BY <1>1, <1>3, <2>4 DEF FlightOf, InState
    <2>5. QED BY <2>2, <2>3, <2>4
  <1>5. ASSUME NEW a \in results
        PROVE /\ a \in DOMAIN t.attempts /\ t.attempts[a].candidate
              /\ t.attempts[a].state = "succeeded" /\ t.jobs[t.attempts[a].job] = "succeeded"
    <2>1. a \in DOMAIN s.attempts /\ s.attempts[a].candidate
      BY DEF AgreesOn
    <2>2. CASE FlightOf(s, a)
      <3>1. Lost(s, s.attempts[a].job) /\ a = found(s.attempts[a].job)
        BY <1>3, <2>1, <2>2
      <3>2. won(s.attempts[a].job)
        BY <2>1, <3>1 DEF Published
      <3>3. QED BY <1>1, <1>2, <2>1, <3>1, <3>2
    <2>3. CASE ~FlightOf(s, a)
      <3>1. s.attempts[a].state = "succeeded" /\ s.jobs[s.attempts[a].job] = "succeeded"
        BY <2>3 DEF AgreesOn
      <3>2. ~Lost(s, s.attempts[a].job)
        BY <3>1 DEF Lost, InFlight
      <3>3. QED BY <1>1, <1>2, <2>1, <3>1, <3>2
    <2>4. QED BY <2>2, <2>3
  <1>6. AgreesOn(t, results)
    BY <1>1, <1>4, <1>5 DEF AgreesOn
  <1>7. QED BY <1>6 DEF t

-----------------------------------------------------------------------------
(* Every action keeps that agreement *)

LEMMA ResultsAreAttempts ==
    ASSUME JobsInv PROVE \A a \in results : a \in Attempts /\ a \in Nat /\ a # 0
  BY Number, AttemptsOf DEF JobsInv, DataInv, Follows, Attempts, StateOK

LEMMA StayApart ==
    ASSUME JobsInv, AllApart(mem, results), NEW s, Follows(s, mem) \/ s = disk
    PROVE AllApart(s, results)
  BY ResultsAreAttempts DEF AllApart, Follows, Attempts, JobsInv, DataInv

\* What an Attempt that has yet to be recorded leaves no room for.
LEMMA Alone ==
    ASSUME JobsInv, CalmInv, NEW a \in Attempts, Unrecorded(a), a \notin results
    PROVE /\ \A b \in Attempts : FlightOf(mem, b) => b = a
          /\ \A b \in results : mem.attempts[b].job # mem.attempts[a].job
  <1>1. CASE FlightOf(mem, a)
    <2>1. \A b \in Attempts : FlightOf(mem, b) => b = a
      BY <1>1 DEF CalmInv, AgreeInv, AgreesOn, Attempts
    <2>2. mem.jobs[mem.attempts[a].job] \in InFlight
      BY <1>1 DEF CalmInv, AgreeInv, AgreesOn, FlightOf, InState
    <2>3. ASSUME NEW b \in results PROVE mem.attempts[b].job # mem.attempts[a].job
      <3>1. b # a /\ b \in Attempts
        BY ResultsAreAttempts
      <3>2. mem.jobs[mem.attempts[b].job] = "succeeded"
        BY <2>1, <3>1 DEF CalmInv, AgreeInv, AgreesOn
      <3>3. QED BY <2>2, <3>2 DEF InFlight
    <2>4. QED BY <2>1, <2>3
  <1>2. CASE ~FlightOf(mem, a)
    BY <1>2 DEF Unrecorded
  <1>3. QED BY <1>1, <1>2

\* A request is taken: the failures that still wait are those that waited.
LEMMA StillSettling ==
    ASSUME JobsInv, CalmInv, NEW op, Take(op)
    PROVE /\ \A i \in DOMAIN queue' :
                /\ queue'[i].op # "sleep"
                /\ queue'[i].op = "settle" =>
                     /\ queue'[i].attempt # active /\ queue'[i].attempt \in Attempts
                     /\ Settling(queue'[i].attempt)
                     /\ op = "settle" => queue'[i].attempt # Head(queue).attempt
                     /\ \A k \in DOMAIN queue' :
                           queue'[k].op = "settle" /\ queue'[k].attempt = queue'[i].attempt => k = i
          /\ op = "settle" => Settling(Head(queue).attempt) /\ Head(queue).attempt # active
  <1>1. queue \in Seq(Requests) /\ queue # <<>> /\ queue' = Tail(queue) /\ Head(queue).op = op
    BY DEF Take, JobsInv, KindInv
  <1>2. /\ Head(queue) = queue[1] /\ 1 \in DOMAIN queue
        /\ \A i \in DOMAIN queue' :
              i \in Nat /\ i + 1 \in DOMAIN queue /\ i + 1 # 1 /\ queue'[i] = queue[i + 1]
    BY <1>1, TakeFacts
  <1>3. ASSUME NEW i \in DOMAIN queue', queue'[i].op = "settle"
        PROVE /\ queue'[i].attempt # active /\ queue'[i].attempt \in Attempts
              /\ Settling(queue'[i].attempt)
              /\ op = "settle" => queue'[i].attempt # Head(queue).attempt
              /\ \A k \in DOMAIN queue' :
                    queue'[k].op = "settle" /\ queue'[k].attempt = queue'[i].attempt => k = i
    <2>1. queue[i + 1].op = "settle" /\ i + 1 \in DOMAIN queue /\ queue'[i] = queue[i + 1]
      BY <1>2, <1>3
    <2>2. queue[i + 1].attempt # active /\ Settling(queue[i + 1].attempt)
      BY <2>1 DEF CalmInv, SettleInv, Settling
    <2>3. queue[i + 1].attempt \in Attempts
      BY <2>1 DEF JobsInv, LineInv, AboutAttempt
    <2>4. op = "settle" => queue[i + 1].attempt # queue[1].attempt
      BY <1>1, <1>2, <2>1 DEF CalmInv, SettleInv
    <2>5. \A k \in DOMAIN queue' :
             queue'[k].op = "settle" /\ queue'[k].attempt = queue'[i].attempt => k + 1 = i + 1 /\ k \in Nat
      BY <1>2, <2>1 DEF CalmInv, SettleInv
    <2>6. i \in Nat
      BY <1>2
    <2>7. QED BY <1>2, <2>1, <2>2, <2>3, <2>4, <2>5, <2>6
  <1>4. \A i \in DOMAIN queue' : queue'[i].op # "sleep"
    BY <1>2 DEF CalmInv, SleepsNot
  <1>5. op = "settle" => Settling(Head(queue).attempt) /\ Head(queue).attempt # active
    BY <1>1, <1>2 DEF Settling, CalmInv, SettleInv
  <1>6. QED BY <1>3, <1>4, <1>5

\* A mutation takes its turn and leaves what is owed.
LEMMA CalmTaken ==
    ASSUME JobsInv, JobsInv', CalmInv, NEW op, Take(op),
           UNCHANGED <<disk, active, aborting, results>>,
           AgreesOn(mem', results), Follows(mem', mem),
           step'.at \notin {"sleep", "down"},
           step'.at = "start" => /\ FlightOf(mem', step'.attempt)
                                 /\ step'.attempt \notin results /\ step'.attempt \notin Attempts,
           run' = run \/ active \notin results,
           \A a \in Attempts :
              Unrecorded(a) /\ (active = a \/ Settling(a)') => Unrecorded(a)'
    PROVE CalmInv'
  <1> DEFINE waiting == \A i \in DOMAIN queue' :
                /\ queue'[i].op # "sleep"
                /\ queue'[i].op = "settle" =>
                     /\ queue'[i].attempt # active /\ queue'[i].attempt \in Attempts
                     /\ Settling(queue'[i].attempt)
                     /\ \A k \in DOMAIN queue' :
                           queue'[k].op = "settle" /\ queue'[k].attempt = queue'[i].attempt => k = i
  <1>1. waiting
    BY StillSettling
  <1>2. SleepsNot'
    BY <1>1 DEF CalmInv, SleepsNot
  <1>3. AgreeInv'
    BY StayApart DEF CalmInv, AgreeInv
  <1>4. ASSUME NEW a, active = a \/ Settling(a)', a # 0 PROVE Unrecorded(a)'
    <2>1. CASE active = a
      <3>1. a \in Attempts
        BY <1>4, <2>1 DEF JobsInv, KindInv
      <3>2. QED BY <2>1, <3>1 DEF CalmInv, OwedInv
    <2>2. CASE Settling(a)'
      <3>1. PICK i \in DOMAIN queue' : queue'[i].op = "settle" /\ queue'[i].attempt = a
        BY <2>2 DEF Settling
      <3>2. a \in Attempts /\ Settling(a)
        BY <1>1, <3>1
      <3>3. QED BY <2>2, <3>2 DEF CalmInv, OwedInv
    <2>3. QED BY <1>4, <2>1, <2>2
  <1>5. mem' \in State
    BY DEF JobsInv, DataInv, StateOK
  <1>6. 0 \notin Attempts'
    BY <1>5, AttemptsOf DEF Attempts
  <1>7. OwedInv'
    BY <1>4, <1>6 DEF OwedInv
  <1>8. SettleInv'
    BY <1>1 DEF SettleInv
  <1>9. NewInv'
    <2>1. step = Idle /\ active' = active
      BY DEF Take
    <2>2. active \in results => run.phase \in {"failed", "leaving"}
      BY <2>1 DEF CalmInv, NewInv, Idle
    <2>3. QED BY <2>1, <2>2 DEF NewInv
  <1>10. QED BY <1>2, <1>3, <1>7, <1>8, <1>9 DEF CalmInv

\* Nothing is owed that was not, when the same Attempts are in flight.
LEMMA SameUnrecorded ==
    ASSUME JobsInv, NEW a \in Attempts, Unrecorded(a), results' = results, Follows(mem', mem),
           DOMAIN mem'.attempts = DOMAIN mem.attempts, SameFlight(mem', mem),
           mem.breaker => mem'.breaker
    PROVE Unrecorded(a)'
  <1>1. \A b \in Attempts : FlightOf(mem, b) <=> FlightOf(mem', b)
    BY DEF SameFlight, Attempts
  <1>2. Attempts' = Attempts
    BY DEF Attempts
  <1>3. FlightOf(mem, a)' <=> FlightOf(mem', a)
    BY DEF FlightOf, InState
  <1>4. \A b \in results : mem'.attempts[b].job = mem.attempts[b].job
    BY ResultsAreAttempts DEF Follows, Attempts
  <1>5. mem'.attempts[a].job = mem.attempts[a].job
    BY DEF Follows, Attempts
  <1>6. CASE FlightOf(mem, a) \/ a \in results
    BY <1>1, <1>6 DEF Unrecorded
  <1>7. CASE ~FlightOf(mem, a) /\ a \notin results
    BY <1>1, <1>2, <1>4, <1>5, <1>7 DEF Unrecorded
  <1>8. QED BY <1>6, <1>7

\* A mutation that changes Jobs, or details, but no flight.
LEMMA CalmChange ==
    ASSUME JobsInv, JobsInv', CalmInv, NEW op, Take(op), Quiet,
           Follows(mem', mem), AgreesOn(mem', results), SameFlight(mem', mem),
           DOMAIN mem'.attempts = DOMAIN mem.attempts, mem.breaker => mem'.breaker,
           step'.at \notin {"sleep", "down", "start"}
    PROVE CalmInv'
  <1>1. UNCHANGED <<disk, active, aborting, results, run>>
    BY DEF Quiet, slotVars, projectVars
  <1>2. \A a \in Attempts : Unrecorded(a) => Unrecorded(a)'
    BY <1>1, SameUnrecorded
  <1>3. QED BY <1>1, <1>2, CalmTaken

LEMMA CalmNothing ==
    ASSUME JobsInv, JobsInv', CalmInv, NEW op, Take(op), Quiet, Nothing
    PROVE CalmInv'
  <1>1. mem' = mem /\ step' = Idle
    BY DEF Nothing, Take
  <1>2. Follows(mem', mem) /\ AgreesOn(mem', results) /\ SameFlight(mem', mem)
    BY <1>1, FollowsItself DEF CalmInv, AgreeInv, SameFlight
  <1>3. QED BY <1>1, <1>2, CalmChange DEF Idle

\* A Job changes that is neither in flight nor recorded.
LEMMA CalmAside ==
    ASSUME JobsInv, JobsInv', CalmInv, NEW op, Take(op), Quiet, NEW j \in Jobs,
           NEW st \in {"awaiting_confirmation", "blocked", "cancelled", "queued"},
           mem.jobs[j] \notin InFlight \cup {"succeeded"},
           \/ Save(JobTo(mem, j, st), "plain", 0)
           \/ Save(Drifted(j), "plain", 0)
    PROVE CalmInv'
  <1>1. mem \in State
    BY DEF JobsInv, DataInv, StateOK
  <1>2. st \in JobStates /\ "blocked" \in JobStates
    BY DEF JobStates
  <1>3. step' = [at |-> "plain", attempt |-> 0]
    BY DEF Save
  <1>4. CASE mem' = JobTo(mem, j, st)
    <2>1. AgreesOn(mem', results) /\ SameFlight(mem', mem)
      BY <1>1, <1>2, <1>4, AsideAgrees DEF CalmInv, AgreeInv
    <2>2. Follows(mem', mem)
      BY <1>4, AsideState
    <2>3. mem'.attempts = mem.attempts /\ mem'.breaker = mem.breaker
      BY <1>1, <1>2, <1>4, JobToFacts
    <2>4. QED BY <1>3, <2>1, <2>2, <2>3, CalmChange
  <1>5. CASE mem' = Drifted(j)
    <2> DEFINE u == JobTo(mem, j, "blocked")
    <2>1. AgreesOn(u, results) /\ SameFlight(u, mem) /\ u \in State /\ u.attempts = mem.attempts
      BY <1>1, <1>2, AsideAgrees, JobToFacts DEF CalmInv, AgreeInv
    <2>2. mem' = [u EXCEPT !.breaker = TRUE]
      BY <1>5 DEF Drifted, Blocked
    <2> HIDE DEF u
    <2>3. mem'.jobs = u.jobs /\ mem'.attempts = u.attempts /\ mem'.breaker
      BY <2>1, <2>2 DEF State
    <2>4. AgreesOn(mem', results) /\ SameFlight(mem', u)
      BY <2>1, <2>3, BreakAgrees
    <2>5. SameFlight(mem', mem)
      BY <2>1, <2>4 DEF SameFlight
    <2>6. Follows(mem', mem)
      BY <1>5, DriftedState
    <2>7. QED BY <1>3, <2>1, <2>3, <2>4, <2>5, <2>6, CalmChange
  <1>6. QED BY <1>4, <1>5 DEF Save

LEMMA CallersCalm ==
    ASSUME JobsInv, JobsInv', CalmInv, Submit \/ Confirm \/ Retry \/ RefreshBlocked
    PROVE CalmInv'
  <1> DEFINE j == Head(queue).job
  <1>1. CASE Submit
    <2>1. Take("submit") /\ Quiet /\ j \in Jobs
      BY <1>1, Asked DEF Submit, JobCalls
    <2>2. \/ Nothing
          \/ /\ mem.jobs[j] \notin InFlight \cup {"succeeded"}
             /\ \E s \in {"queued", "blocked"} : Save(JobTo(mem, j, s), "plain", 0)
      BY <1>1 DEF Submit, InFlight
    <2> HIDE DEF j
    <2>3. QED BY <2>1, <2>2, CalmNothing, CalmAside
  <1>2. CASE Confirm
    <2>1. Take("confirm") /\ Quiet /\ j \in Jobs
      BY <1>2, Asked DEF Confirm, JobCalls
    <2>2. \/ Nothing
          \/ /\ mem.jobs[j] \notin InFlight \cup {"succeeded"}
             /\ Save(JobTo(mem, j, "queued"), "plain", 0)
      BY <1>2 DEF Confirm, InFlight
    <2> HIDE DEF j
    <2>3. QED BY <2>1, <2>2, CalmNothing, CalmAside
  <1>3. CASE Retry
    <2>1. Take("retry") /\ Quiet /\ j \in Jobs
      BY <1>3, Asked DEF Retry, JobCalls
    <2>2. \/ Nothing
          \/ /\ mem.jobs[j] \notin InFlight \cup {"succeeded"}
             /\ Save(JobTo(mem, j, "queued"), "plain", 0)
      BY <1>3 DEF Retry, InFlight
    <2> HIDE DEF j
    <2>3. QED BY <2>1, <2>2, CalmNothing, CalmAside
  <1>4. CASE RefreshBlocked
    <2>1. Take("refresh") /\ Quiet /\ j \in Jobs
      BY <1>4, Asked DEF RefreshBlocked, JobCalls
    <2>2. \/ Nothing
          \/ /\ mem.jobs[j] \notin InFlight \cup {"succeeded"}
             /\ \/ \E s \in {"queued", "blocked"} : Save(JobTo(mem, j, s), "plain", 0)
                \/ Save(Drifted(j), "plain", 0)
      BY <1>4 DEF RefreshBlocked, InFlight, Blocked
    <2> HIDE DEF j
    <2>3. QED BY <2>1, <2>2, CalmNothing, CalmAside
  <1>5. QED BY <1>1, <1>2, <1>3, <1>4

LEMMA CancelCalm == ASSUME JobsInv, JobsInv', CalmInv, Cancel PROVE CalmInv'
  <1> DEFINE j == Head(queue).job
             a == AttemptOf(mem, j, {"running"})
  <1>1. Take("cancel") /\ Quiet /\ j \in Jobs
    BY Asked DEF Cancel, JobCalls
  <1>2. mem \in State
    BY DEF JobsInv, DataInv, StateOK
  <1>3. a # 0 => a \in DOMAIN mem.attempts /\ mem.attempts[a].job = j /\ mem.attempts[a].state = "running"
    BY <1>2, Found
  <1>4. \/ mem.jobs[j] \notin InFlight \cup {"succeeded"} /\ Save(JobTo(mem, j, "cancelled"), "plain", 0)
        \/ Nothing
        \/ /\ mem.jobs[j] = "running" /\ a # 0
           /\ Save(JobTo([mem EXCEPT !.attempts[a].state = "cancelling"], j, "cancelling"), "cancel", a)
    BY DEF Cancel, InFlight
  <1> HIDE DEF j, a
  <1>5. CASE Nothing
    BY <1>1, <1>5, CalmNothing
  <1>6. CASE mem.jobs[j] \notin InFlight \cup {"succeeded"} /\ Save(JobTo(mem, j, "cancelled"), "plain", 0)
    BY <1>1, <1>6, CalmAside
  <1>7. CASE /\ mem.jobs[j] = "running" /\ a # 0
             /\ Save(JobTo([mem EXCEPT !.attempts[a].state = "cancelling"], j, "cancelling"), "cancel", a)
    <2>1. mem' = CancellingFrom(mem, a) /\ step' = [at |-> "cancel", attempt |-> a]
      BY <1>3, <1>7 DEF Save, CancellingFrom
    <2>2. AgreesOn(mem', results) /\ SameFlight(mem', mem)
      BY <1>2, <1>3, <1>7, <2>1, CancelAgrees DEF CalmInv, AgreeInv
    <2>3. Follows(mem', mem)
      BY <1>3, <1>7, <2>1, CancelKeeps DEF JobsInv, DataInv, InFlight
    <2>4. DOMAIN mem'.attempts = DOMAIN mem.attempts /\ mem'.breaker = mem.breaker
      BY <1>2, <1>3, <1>7, <2>1, CancelFacts
    <2>5. QED BY <1>1, <2>1, <2>2, <2>3, <2>4, CalmChange
  <1>8. QED BY <1>4, <1>5, <1>6, <1>7

LEMMA RunNextCalm == ASSUME JobsInv, JobsInv', CalmInv, RunNext PROVE CalmInv'
  <1>1. Take("run") /\ Quiet
    BY DEF RunNext
  <1>2. CASE Nothing
    BY <1>1, <1>2, CalmNothing
  <1>3. ASSUME NEW j \in Jobs, MayRun, mem.jobs[j] = "queued", Start(j) PROVE CalmInv'
    <2> DEFINE n == Len(mem.attempts) + 1
    <2>1. mem' = StartedFrom(mem, j, head) /\ step' = [at |-> "start", attempt |-> n]
          /\ Len(mem.attempts) < MaxAttempts
      BY <1>3 DEF Start, Save, StartedFrom
    <2>2. \A k \in Jobs : mem.jobs[k] \notin InFlight
      BY <1>3 DEF MayRun, Busy
    <2>3. head \in Nat /\ mem \in State
      BY DEF JobsInv, KindInv, DataInv, StateOK
    <2>4. /\ AgreesOn(mem', results) /\ FlightOf(mem', n) /\ n \notin results
          /\ \A b \in DOMAIN mem.attempts : ~FlightOf(mem, b)
      BY <1>3, <2>1, <2>2, <2>3, StartAgrees DEF CalmInv, AgreeInv
    <2>5. Follows(mem', mem)
      BY <2>1, <2>2, <2>3, StartKeeps DEF JobsInv, DataInv
    <2>6. n \notin Attempts
      BY <2>3, StartFacts DEF Attempts
    <2>7. UNCHANGED <<disk, active, aborting, results, run>>
      BY <1>1 DEF Quiet, slotVars, projectVars
    <2>8. ASSUME NEW a \in Attempts, Unrecorded(a) PROVE Unrecorded(a)'
      <3>1. a \in results
        BY <1>3, <2>4, <2>8 DEF Unrecorded, MayRun, Attempts
      <3>2. QED BY <2>7, <3>1 DEF Unrecorded
    <2> HIDE DEF n
    <2>9. step'.at \notin {"sleep", "down"} /\ step'.attempt = n
      BY <2>1
    <2>10. QED BY <1>1, <2>4, <2>5, <2>6, <2>7, <2>8, <2>9, CalmTaken
  <1>4. ASSUME NEW j \in Jobs, mem.jobs[j] = "queued",
               \E state \in {Blocked(j), Drifted(j)} : Save(state, "plain", 0)
        PROVE CalmInv'
    <2>1. mem.jobs[j] \notin InFlight \cup {"succeeded"}
      BY <1>4 DEF InFlight
    <2>2. Save(JobTo(mem, j, "blocked"), "plain", 0) \/ Save(Drifted(j), "plain", 0)
      BY <1>4 DEF Blocked
    <2>3. QED BY <1>1, <2>1, <2>2, CalmAside
  <1>5. QED BY <1>2, <1>3, <1>4 DEF RunNext

\* A failure is recorded of an Attempt the Project holds nothing of.
LEMMA FailureCalm ==
    ASSUME JobsInv, JobsInv', CalmInv, NEW op, Take(op), Quiet,
           NEW a \in Attempts, NEW cause \in Causes, NEW s, s.jobs = mem.jobs,
           s.attempts = mem.attempts, s \in State, mem.breaker => s.breaker,
           a \notin results, Unrecorded(a), mem' = Failed(s, a, cause), Follows(mem', mem),
           step'.at \notin {"sleep", "down", "start"},
           active = a \/ Settling(a)' => cause = "violation"
    PROVE CalmInv'
  <1>1. /\ \A b \in Attempts : FlightOf(mem, b) => b = a
        /\ \A b \in results : mem.attempts[b].job # mem.attempts[a].job
    BY Alone
  <1>2. AgreesOn(s, results) /\ \A b : FlightOf(s, b) <=> FlightOf(mem, b)
    BY BreakAgrees DEF CalmInv, AgreeInv, FlightOf, InState
  <1>3. a \in DOMAIN s.attempts /\ DOMAIN s.attempts = Attempts
    BY DEF Attempts
  <1>4. AgreesOn(mem', results) /\ \A b \in Attempts : ~FlightOf(mem', b)
    BY <1>1, <1>2, <1>3, FailedAgrees
  <1>5. Attempts' = Attempts /\ mem'.breaker = (s.breaker \/ cause = "violation")
        /\ \A b \in Attempts : mem'.attempts[b].job = mem.attempts[b].job
    BY <1>3, FailedFacts DEF Attempts
  <1>6. UNCHANGED <<disk, active, aborting, results, run>>
    BY DEF Quiet, slotVars, projectVars
  <1>7. ASSUME NEW b \in Attempts, Unrecorded(b), active = b \/ Settling(b)' PROVE Unrecorded(b)'
    <2>1. CASE b \in results
      BY <1>6, <2>1 DEF Unrecorded
    <2>2. CASE b \notin results
      <3>1. mem'.breaker
        <4>1. CASE b = a
          BY <1>5, <1>7, <4>1
        <4>2. CASE b # a
          BY <1>1, <1>5, <1>7, <2>2, <4>2 DEF Unrecorded
        <4>3. QED BY <4>1, <4>2
      <3>2. \A c \in results : mem.attempts[c].job # mem.attempts[b].job
        BY <1>7, <2>2, Alone
      <3>3. \A c \in results : mem'.attempts[c].job # mem'.attempts[b].job
        BY <1>5, <3>2, ResultsAreAttempts
      <3>4. \A c \in Attempts' : ~FlightOf(mem, c)'
        BY <1>4, <1>5 DEF FlightOf, InState
      <3>5. QED BY <1>6, <3>1, <3>3, <3>4 DEF Unrecorded
    <2>3. QED BY <2>1, <2>2
  <1>8. QED BY <1>4, <1>6, <1>7, CalmTaken

LEMMA SubmitDriftedCalm == ASSUME JobsInv, JobsInv', CalmInv, SubmitDrifted PROVE CalmInv'
  <1> DEFINE open == [mem EXCEPT !.breaker = TRUE]
  <1>1. Take("drift") /\ Quiet /\ ~Unwinding
    BY DEF SubmitDrifted
  <1>2. \/ Nothing
        \/ Save(open, "plain", 0)
        \/ active # 0 /\ Save(Failed(open, active, "violation"), "drift", active)
    BY DEF SubmitDrifted
  <1>3. StateOK(open, results) /\ Follows(open, mem) /\ open.attempts = mem.attempts
        /\ open.jobs = mem.jobs /\ open.breaker /\ open \in State
    <2>1. StateOK(mem, results)
      BY DEF JobsInv, DataInv
    <2>2. /\ StateOK(open, results) /\ Follows(open, mem)
          /\ open.attempts = mem.attempts /\ open.jobs = mem.jobs /\ open.breaker
      BY <2>1, Breaks
    <2>3. QED BY <2>2 DEF StateOK
  <1> HIDE DEF open
  <1>4. CASE Nothing
    BY <1>1, <1>4, CalmNothing
  <1>5. CASE Save(open, "plain", 0)
    <2>1. mem' = open /\ step'.at = "plain"
      BY <1>5 DEF Save
    <2>2. AgreesOn(mem', results) /\ SameFlight(mem', mem)
      BY <1>3, <2>1, BreakAgrees DEF CalmInv, AgreeInv
    <2>3. QED BY <1>1, <1>3, <2>1, <2>2, CalmChange
  <1>6. CASE active # 0 /\ Save(Failed(open, active, "violation"), "drift", active)
    <2>1. mem' = Failed(open, active, "violation") /\ step'.at = "drift" /\ active \in Attempts
      BY <1>6 DEF Save, JobsInv, KindInv
    <2>2. active \notin results
      BY <1>1 DEF CalmInv, NewInv, Unwinding, Take, Idle
    <2>3. Unrecorded(active)
      BY <2>1 DEF CalmInv, OwedInv
    <2>4. Follows(mem', mem)
      BY <1>3, <2>1, FailedKeeps, FollowsOn DEF Attempts, Causes
    <2>5. "violation" \in Causes
      BY DEF Causes
    <2>6. QED BY <1>1, <1>3, <2>1, <2>2, <2>3, <2>4, <2>5, FailureCalm
  <1>7. QED BY <1>2, <1>4, <1>5, <1>6

\* The lemma on Completed, at the state in memory.
LEMMA CompletedRecorded ==
    ASSUME mem \in State, NEW a \in DOMAIN mem.attempts, AgreesOn(mem, results),
           mem.attempts[a].candidate,
           FlightOf(mem, a) \/ mem.jobs[mem.attempts[a].job] = "succeeded",
           \A b \in results : mem.attempts[b].job = mem.attempts[a].job => b = a
    PROVE /\ AgreesOn(Completed(mem, a), results \cup {a})
          /\ \A b \in DOMAIN mem.attempts :
                b # a => (FlightOf(Completed(mem, a), b) <=> FlightOf(mem, b))
          /\ ~FlightOf(Completed(mem, a), a)
  <1>1. /\ AgreesOn(Completed(mem, a), results \cup {a})
        /\ \A b \in DOMAIN mem.attempts :
              b # a => (FlightOf(Completed(mem, a), b) <=> FlightOf(mem, b))
    BY CompletedAgrees
  <1>2. ~FlightOf(Completed(mem, a), a)
    BY CompletedAgrees
  <1>3. QED BY <1>1, <1>2

LEMMA SettleCalm == ASSUME JobsInv, JobsInv', CalmInv, Settle \/ FailSettle PROVE CalmInv'
  <1> SUFFICES ASSUME NEW a, NEW cause, a = Head(queue).attempt, cause = Head(queue).cause
               PROVE CalmInv'
    OBVIOUS
  <1>1. Take("settle") /\ a \in Attempts /\ cause \in Causes
    BY Asked DEF Settle, FailSettle, AboutAttempt, Requests
  <1>2. /\ Settling(a) /\ a # active /\ ~Settling(a)'
    <2>1. \A i \in DOMAIN queue' : queue'[i].op = "settle" => queue'[i].attempt # a
      BY <1>1, StillSettling
    <2>2. Settling(a) /\ a # active
      BY <1>1, StillSettling
    <2>3. QED BY <2>1, <2>2 DEF Settling
  <1>3. Unrecorded(a)
    BY <1>1, <1>2 DEF CalmInv, OwedInv
  <1>4. CASE FailSettle
    <2>1. UNCHANGED <<mem, step, disk, active, aborting, results, run>> /\ step = Idle
      BY <1>4 DEF FailSettle, Nothing, slotVars, projectVars, Take
    <2>2. AgreesOn(mem', results) /\ Follows(mem', mem) /\ SameFlight(mem', mem)
      BY <2>1, FollowsItself DEF CalmInv, AgreeInv, SameFlight
    <2>3. \A b \in Attempts : Unrecorded(b) => Unrecorded(b)'
      BY <2>1, <2>2, SameUnrecorded
    <2>4. QED BY <1>1, <2>1, <2>2, <2>3, CalmTaken DEF Idle
  <1>5. CASE Settle
    <2>1. Quiet /\ mem' = SettledAs(a, cause) /\ step' = [at |-> "plain", attempt |-> 0]
      BY <1>5 DEF Settle, Save
    <2>2. mem \in State /\ a \in DOMAIN mem.attempts
      BY <1>1 DEF JobsInv, DataInv, StateOK, Attempts
    <2>3. CASE a \notin results
      <3>1. mem' = Failed(mem, a, cause)
        BY <2>1, <2>3 DEF SettledAs
      <3>2. Follows(mem', mem)
        BY <1>1, <2>2, <3>1, FailedKeeps DEF JobsInv, DataInv
      <3>3. step'.at = "plain" /\ a # active /\ ~Settling(a)'
        BY <1>2, <2>1
      <3>4. QED BY <1>1, <1>3, <2>1, <2>2, <2>3, <3>1, <3>2, <3>3, FailureCalm
    <2>4. CASE a \in results
      <3>1. mem' = Completed(mem, a)
        BY <2>1, <2>4 DEF SettledAs
      <3>2. Follows(mem', mem)
        BY <2>2, <2>4, <3>1, CompletedKeeps DEF JobsInv, DataInv
      <3>3. /\ mem.attempts[a].candidate
            /\ FlightOf(mem, a) \/ mem.jobs[mem.attempts[a].job] = "succeeded"
            /\ \A b \in results : mem.attempts[b].job = mem.attempts[a].job => b = a
        BY <2>4 DEF CalmInv, AgreeInv, AgreesOn, AllApart
      <3>4. results \cup {a} = results
        BY <2>4
      <3>5. /\ AgreesOn(mem', results)
            /\ \A b \in Attempts : b # a => (FlightOf(mem', b) <=> FlightOf(mem, b))
            /\ ~FlightOf(mem', a)
        <4>1. AgreesOn(mem, results)
          BY DEF CalmInv, AgreeInv
        <4>2. /\ AgreesOn(Completed(mem, a), results \cup {a})
              /\ \A b \in DOMAIN mem.attempts :
                    b # a => (FlightOf(Completed(mem, a), b) <=> FlightOf(mem, b))
              /\ ~FlightOf(Completed(mem, a), a)
          <5>1. mem.attempts[a].candidate
            BY <3>3
          <5>2. FlightOf(mem, a) \/ mem.jobs[mem.attempts[a].job] = "succeeded"
            BY <3>3
          <5>3. \A b \in results : mem.attempts[b].job = mem.attempts[a].job => b = a
            BY <3>3
          <5>4. QED BY <2>2, <4>1, <5>1, <5>2, <5>3, CompletedRecorded
        <4>3. QED BY <3>1, <3>4, <4>2 DEF Attempts
      <3>6. DOMAIN mem'.attempts = DOMAIN mem.attempts /\ mem'.breaker = mem.breaker
        BY <2>2, <3>1, CompletedFacts
      <3>7. UNCHANGED <<disk, active, aborting, results, run>>
        BY <2>1 DEF Quiet, slotVars, projectVars
      <3>8. ASSUME NEW b \in Attempts, Unrecorded(b) PROVE Unrecorded(b)'
        <4>1. CASE b \in results
          BY <3>7, <4>1 DEF Unrecorded
        <4>2. CASE b \notin results /\ FlightOf(mem, b)
          <5>1. FlightOf(mem', b)
            BY <2>4, <3>5, <4>2
          <5>2. QED BY <5>1 DEF Unrecorded, FlightOf, InState
        <4>3. CASE b \notin results /\ ~FlightOf(mem, b)
          <5>1. mem.breaker /\ \A c \in Attempts : ~FlightOf(mem', c)
            BY <3>5, <3>8, <4>3 DEF Unrecorded
          <5>2. Attempts' = Attempts
            BY <3>6 DEF Attempts
          <5>3. \A c \in Attempts' : ~FlightOf(mem, c)'
            BY <5>1, <5>2 DEF FlightOf, InState
          <5>4. \A c \in results : mem'.attempts[c].job # mem'.attempts[b].job
            BY <3>2, <3>8, <4>3, ResultsAreAttempts DEF Unrecorded, Follows, Attempts
          <5>5. QED BY <3>6, <3>7, <5>1, <5>3, <5>4 DEF Unrecorded
        <4>4. QED BY <4>1, <4>2, <4>3
      <3>9. QED BY <1>1, <2>1, <3>2, <3>5, <3>7, <3>8, CalmTaken
    <2>5. QED BY <2>3, <2>4
  <1>6. QED BY <1>4, <1>5

LEMMA PublishCalm == ASSUME JobsInv, JobsInv', CalmInv, Publish PROVE CalmInv'
  <1> DEFINE a == Head(queue).attempt
  <1>1. Take("publish") /\ a \in Attempts /\ UNCHANGED <<disk, active, aborting, projectVars>>
    BY Asked DEF Publish, AboutAttempt
  <1>2. run.phase = "answered"
    <2>1. queue[1].op = "publish" /\ 1 \in DOMAIN queue
      BY <1>1, TakeFacts DEF Take, JobsInv, KindInv
    <2>2. QED BY <2>1 DEF JobsInv, SlotInv
  <1>3. active \notin results /\ step = Idle
    BY <1>1, <1>2 DEF CalmInv, NewInv, Take, Idle
  <1>4. \/ UNCHANGED <<mem, step>>
        \/ /\ mem' = [mem EXCEPT !.attempts[a].candidate = TRUE]
           /\ step' = [at |-> "candidate", attempt |-> a]
    BY DEF Publish, Save, Nothing
  <1> HIDE DEF a
  <1>5. mem \in State /\ a \in DOMAIN mem.attempts
    BY <1>1 DEF JobsInv, DataInv, StateOK, Attempts
  <1>6. /\ AgreesOn(mem', results) /\ Follows(mem', mem) /\ SameFlight(mem', mem)
        /\ DOMAIN mem'.attempts = DOMAIN mem.attempts /\ mem'.breaker = mem.breaker
    <2>1. CASE UNCHANGED <<mem, step>>
      BY <2>1, FollowsItself DEF CalmInv, AgreeInv, SameFlight
    <2>2. CASE mem' = [mem EXCEPT !.attempts[a].candidate = TRUE]
      <3>1. /\ mem'.jobs = mem.jobs /\ mem'.breaker = mem.breaker
            /\ DOMAIN mem'.attempts = DOMAIN mem.attempts
            /\ mem'.attempts[a].job = mem.attempts[a].job /\ mem'.attempts[a].state = mem.attempts[a].state
            /\ mem'.attempts[a].candidate
            /\ \A b \in DOMAIN mem.attempts : b # a => mem'.attempts[b] = mem.attempts[b]
        BY <1>5, <2>2, CandidateFacts
      <3>2. \A b \in DOMAIN mem.attempts :
              /\ mem'.attempts[b].job = mem.attempts[b].job
              /\ mem'.attempts[b].state = mem.attempts[b].state
              /\ mem.attempts[b].candidate => mem'.attempts[b].candidate
        BY <3>1
      <3>3. AgreesOn(mem', results) /\ SameFlight(mem', mem)
        BY <3>1, <3>2, SameAgrees DEF CalmInv, AgreeInv
      <3>4. QED BY <3>1, <3>2, <3>3 DEF Follows
    <2>3. QED BY <1>4, <2>1, <2>2
  <1>7. results' = results
    BY <1>1 DEF projectVars
  <1>8. \A b \in Attempts : Unrecorded(b) => Unrecorded(b)'
    BY <1>6, <1>7, SameUnrecorded
  <1>9. step'.at \notin {"sleep", "down", "start"}
    BY <1>3, <1>4 DEF Idle
  <1>10. QED BY <1>1, <1>3, <1>6, <1>7, <1>8, <1>9, CalmTaken

\* No request is added and the slot keeps its Attempt.
LEMMA CalmMoved ==
    ASSUME JobsInv, JobsInv', CalmInv, UNCHANGED <<queue, active, results>>,
           disk' \in {disk, mem}, aborting' = 0,
           Follows(mem', mem), AgreesOn(mem', results), SameFlight(mem', mem),
           DOMAIN mem'.attempts = DOMAIN mem.attempts, mem.breaker => mem'.breaker,
           (UNCHANGED <<step, mem>>) \/ step'.at \notin {"sleep", "start", "down"},
           active \in results => step'.at = "complete" \/ run'.phase \in {"failed", "leaving"}
    PROVE CalmInv'
  <1>1. SleepsNot'
    BY DEF CalmInv, SleepsNot
  <1>2. AgreeInv'
    BY StayApart DEF CalmInv, AgreeInv
  <1>3. OwedInv'
    <2>1. Attempts' = Attempts
      BY DEF Attempts
    <2>2. \A a \in Attempts : Unrecorded(a) => Unrecorded(a)'
      BY SameUnrecorded
    <2>3. QED BY <2>1, <2>2 DEF CalmInv, OwedInv, Settling
  <1>4. SettleInv'
    BY DEF CalmInv, SettleInv
  <1>5. NewInv'
    BY DEF CalmInv, NewInv
  <1>6. QED BY <1>1, <1>2, <1>3, <1>4, <1>5 DEF CalmInv

LEMMA CalmStays ==
    ASSUME JobsInv, JobsInv', CalmInv, UNCHANGED <<mem, queue, active, results>>,
           disk' \in {disk, mem}, aborting' = 0,
           step' = step \/ step'.at \notin {"sleep", "start", "down"},
           active \in results => step'.at = "complete" \/ run'.phase \in {"failed", "leaving"}
    PROVE CalmInv'
  <1>1. Follows(mem', mem) /\ AgreesOn(mem', results) /\ SameFlight(mem', mem)
    BY FollowsItself DEF CalmInv, AgreeInv, SameFlight
  <1>2. QED BY <1>1, CalmMoved

\* An Attempt that is recorded in the Project has ended, or is about to.
LEMMA NotYetPublished ==
    ASSUME JobsInv, CalmInv, run.phase \in {"preparing", "running", "stopping"}
                             \/ step.at \in {"candidate", "authority"}
    PROVE active \notin results
  BY DEF JobsInv, SlotInv, CalmInv, NewInv, PublicationSteps

LEMMA WriteCalm == ASSUME JobsInv, JobsInv', CalmInv, Write PROVE CalmInv'
  <1>1. /\ UNCHANGED <<mem, queue, results>> /\ disk' = mem /\ step.at # "sleep"
        /\ aborting' = 0 /\ run.phase \notin {"failed", "leaving"}
    BY DEF Write, AfterWrite, Settled, Unwinding, projectVars, CalmInv, SleepsNot
  <1>2. CASE step.at # "start"
    <2>1. active' = active
      BY <1>2 DEF Write, AfterWrite
    <2>2. step'.at \notin {"sleep", "start", "down"}
      BY DEF Write, AfterWrite, JobsInv, KindInv, Idle
    <2>3. active \in results => run'.phase = "leaving"
      BY <1>1 DEF Write, AfterWrite, CalmInv, NewInv
    <2>4. QED BY <1>1, <2>1, <2>2, <2>3, CalmStays
  <1>3. CASE step.at = "start"
    <2>1. active' = step.attempt /\ step' = Idle
      BY <1>3 DEF Write, AfterWrite
    <2>2. FlightOf(mem, step.attempt) /\ step.attempt \notin results
      BY <1>3 DEF CalmInv, NewInv
    <2>3. SleepsNot'
      BY <1>1, <2>1 DEF CalmInv, SleepsNot, Idle
    <2>4. AgreeInv'
      BY <1>1 DEF CalmInv, AgreeInv
    <2>5. OwedInv'
      <3>1. Attempts' = Attempts
        BY <1>1 DEF Attempts
      <3>2. \A a : Unrecorded(a)' <=> Unrecorded(a)
        BY <1>1, <3>1 DEF Unrecorded, FlightOf, InState
      <3>3. Unrecorded(step.attempt)
        BY <2>2 DEF Unrecorded
      <3>4. \A a : Settling(a)' <=> Settling(a)
        BY <1>1 DEF Settling
      <3>5. SUFFICES ASSUME NEW a \in Attempts', active' = a \/ Settling(a)' PROVE Unrecorded(a)'
        BY DEF OwedInv
      <3>6. QED BY <2>1, <3>1, <3>2, <3>3, <3>4, <3>5 DEF CalmInv, OwedInv
    <2>6. SettleInv'
      BY <1>1, <1>3, <2>1 DEF CalmInv, SettleInv, Idle
    <2>7. NewInv'
      BY <1>1, <2>1, <2>2 DEF NewInv, Idle
    <2>8. QED BY <2>3, <2>4, <2>5, <2>6, <2>7 DEF CalmInv
  <1>4. QED BY <1>2, <1>3

\* The Project takes the candidate of the only Attempt in flight, whose Job has
\* no result; the acknowledgement may be lost.
LEMMA CommitCalm == ASSUME JobsInv, JobsInv', WrittenInv, CalmInv, Commit PROVE CalmInv'
  <1> SUFFICES ASSUME NEW a, a = step.attempt PROVE CalmInv'
    OBVIOUS
  <1>1. /\ step.at = "authority" /\ results' = results \cup {a}
        /\ UNCHANGED <<disk, queue, active, aborting>>
        /\ \/ mem' = Completed(mem, a) /\ step' = [at |-> "complete", attempt |-> a]
           \/ mem' = mem /\ step' = Idle /\ run'.phase = "failed"
    BY DEF Commit, Save, Moving
  <1>2. a = active /\ a \in Attempts /\ a \notin results
    BY <1>1, NotYetPublished DEF JobsInv, LineInv, SlotInv, PublicationSteps, OnAttempt
  <1>3. /\ disk = mem /\ mem.attempts[a].candidate /\ mem.attempts[a].state = "running"
    BY <1>1 DEF WrittenInv, Writing
  <1>4. FlightOf(mem, a)
    BY <1>2, <1>3 DEF FlightOf, InState, InFlight, Attempts
  <1>5. /\ \A b \in Attempts : FlightOf(mem, b) => b = a
        /\ \A b \in results : mem.attempts[b].job # mem.attempts[a].job
    BY <1>2, <1>4, Alone DEF Unrecorded
  <1>6. mem \in State /\ a \in DOMAIN mem.attempts /\ AgreesOn(mem, results)
    BY <1>2 DEF JobsInv, DataInv, StateOK, Attempts, CalmInv, AgreeInv
  <1>7. AgreesOn(mem, results')
    BY <1>1, <1>3, <1>4, <1>6 DEF AgreesOn
  <1>8. AgreesOn(Completed(mem, a), results')
    BY <1>1, <1>3, <1>4, <1>5, <1>6, CompletedRecorded
  <1>9. AgreesOn(mem', results') /\ AgreesOn(disk', results')
    BY <1>1, <1>3, <1>7, <1>8
  <1>10. Follows(mem', mem)
    BY <1>1, <1>6, CompletedFacts, FollowsItself DEF Follows
  <1>11. AllApart(mem', results')
    <2>1. \A b \in results : mem'.attempts[b].job = mem.attempts[b].job
      BY <1>10, ResultsAreAttempts DEF Follows, Attempts
    <2>2. mem'.attempts[a].job = mem.attempts[a].job
      BY <1>6, <1>10 DEF Follows
    <2>3. AllApart(mem, results)
      BY DEF CalmInv, AgreeInv
    <2>4. QED BY <1>1, <1>5, <2>1, <2>2, <2>3 DEF AllApart
  <1>12. AgreeInv'
    BY <1>9, <1>11 DEF AgreeInv
  <1>13. SleepsNot'
    BY <1>1 DEF CalmInv, SleepsNot, Idle
  <1>14. OwedInv'
    <2>1. ASSUME NEW b, active = b \/ Settling(b), b # 0 PROVE b \in results'
      <3>1. b \in Attempts
        BY <2>1 DEF JobsInv, KindInv, LineInv, Settling, AboutAttempt
      <3>2. Unrecorded(b)
        BY <2>1, <3>1 DEF CalmInv, OwedInv
      <3>3. b = a \/ b \in results
        BY <1>2, <1>4, <1>5, <3>1, <3>2 DEF Unrecorded
      <3>4. QED BY <1>1, <3>3
    <2>2. 0 \notin Attempts'
      BY AttemptsOf DEF JobsInv, DataInv, StateOK, Attempts
    <2>3. \A b : Settling(b)' <=> Settling(b)
      BY <1>1 DEF Settling
    <2>4. SUFFICES ASSUME NEW b \in Attempts', active' = b \/ Settling(b)' PROVE Unrecorded(b)'
      BY DEF OwedInv
    <2>5. b \in results'
      BY <1>1, <2>1, <2>2, <2>3, <2>4
    <2>6. QED BY <2>5 DEF Unrecorded
  <1>15. SettleInv'
    BY <1>1 DEF CalmInv, SettleInv, Idle
  <1>16. NewInv'
    BY <1>1 DEF NewInv, Idle
  <1>17. QED BY <1>12, <1>13, <1>14, <1>15, <1>16 DEF CalmInv

LEMMA RejectCalm == ASSUME JobsInv, JobsInv', CalmInv, Reject PROVE CalmInv'
  <1>1. /\ UNCHANGED <<mem, disk, queue, active, results>> /\ step' = Idle /\ run'.phase = "failed"
        /\ aborting' = aborting
    BY DEF Reject, Moving, projectVars
  <1>2. aborting' = 0
    BY <1>1 DEF CalmInv, SleepsNot
  <1>3. QED BY <1>1, <1>2, CalmStays DEF Idle

\* The lemma on the cause of an Attempt, at the state in memory.
LEMMA Violated ==
    ASSUME mem \in State, NEW a \in DOMAIN mem.attempts
    PROVE LET t == [mem EXCEPT !.attempts[a].cause = "violation"] IN
          /\ t.jobs = mem.jobs /\ t.breaker = mem.breaker
          /\ DOMAIN t.attempts = DOMAIN mem.attempts
          /\ t.attempts[a].job = mem.attempts[a].job /\ t.attempts[a].state = mem.attempts[a].state
          /\ t.attempts[a].candidate = mem.attempts[a].candidate
          /\ \A b \in DOMAIN mem.attempts : b # a => t.attempts[b] = mem.attempts[b]
  <1>1. "violation" \in Causes
    BY DEF Causes
  <1>2. QED BY <1>1, CauseFacts

LEMMA ContainedCalm == ASSUME JobsInv, JobsInv', CalmInv, Contained PROVE CalmInv'
  <1> SUFFICES ASSUME NEW a, a = step.attempt PROVE CalmInv'
    OBVIOUS
  <1>1. /\ step.at = "containing" /\ UNCHANGED <<queue, disk, active, aborting, results, run>>
        /\ \/ mem' = mem /\ step' = Idle
           \/ /\ mem' = [mem EXCEPT !.attempts[a].cause = "violation"]
              /\ step' = [at |-> "plain", attempt |-> 0]
    BY DEF Contained, Save, Quiet, slotVars, projectVars
  <1>2. aborting' = 0 /\ step'.at \notin {"sleep", "start", "down"}
        /\ (active \in results => run'.phase \in {"failed", "leaving"})
    BY <1>1 DEF CalmInv, SleepsNot, NewInv, Idle
  <1>3. CASE mem' = mem
    BY <1>1, <1>2, <1>3, CalmStays
  <1>4. CASE mem' = [mem EXCEPT !.attempts[a].cause = "violation"]
    <2>1. mem \in State /\ a \in DOMAIN mem.attempts /\ "violation" \in Causes
      BY <1>1 DEF JobsInv, DataInv, StateOK, Attempts, LineInv, OnAttempt, Causes
    <2>2. /\ mem'.jobs = mem.jobs /\ mem'.breaker = mem.breaker
          /\ DOMAIN mem'.attempts = DOMAIN mem.attempts
          /\ mem'.attempts[a].job = mem.attempts[a].job /\ mem'.attempts[a].state = mem.attempts[a].state
          /\ mem'.attempts[a].candidate = mem.attempts[a].candidate
          /\ \A b \in DOMAIN mem.attempts : b # a => mem'.attempts[b] = mem.attempts[b]
      BY <1>4, <2>1, Violated
    <2>3. \A b \in DOMAIN mem.attempts :
            /\ mem'.attempts[b].job = mem.attempts[b].job
            /\ mem'.attempts[b].state = mem.attempts[b].state
            /\ mem.attempts[b].candidate => mem'.attempts[b].candidate
      BY <2>2
    <2>4. AgreesOn(mem', results) /\ SameFlight(mem', mem)
      BY <2>2, <2>3, SameAgrees DEF CalmInv, AgreeInv
    <2>5. Follows(mem', mem)
      BY <2>2, <2>3 DEF Follows
    <2>6. QED BY <1>1, <1>2, <2>2, <2>4, <2>5, CalmMoved
  <1>5. QED BY <1>1, <1>3, <1>4

-----------------------------------------------------------------------------
\* A request that records nothing joins the queue.
LEMMA CalmAdded ==
    ASSUME JobsInv, JobsInv', CalmInv, NEW r \in Requests, r.op \notin {"settle", "sleep"},
           queue' = Append(queue, r), UNCHANGED <<mem, disk, step, results, active, aborting>>,
           step.at # "down",
           active \in results => step.at = "complete" \/ run'.phase \in {"failed", "leaving"}
    PROVE CalmInv'
  <1> DEFINE n == Len(queue) + 1
  <1>1. /\ queue'[n] = r /\ n \in DOMAIN queue' /\ n \notin DOMAIN queue
        /\ \A i \in DOMAIN queue : queue'[i] = queue[i]
        /\ \A i \in DOMAIN queue' : i \in DOMAIN queue \/ i = n
    BY AppendFacts DEF JobsInv, KindInv
  <1> HIDE DEF n
  <1>2. \A i \in DOMAIN queue' :
          queue'[i].op \in {"settle", "sleep"} => i \in DOMAIN queue /\ queue'[i] = queue[i]
    BY <1>1
  <1>3. SleepsNot'
    BY <1>2 DEF CalmInv, SleepsNot
  <1>4. AgreeInv'
    BY DEF CalmInv, AgreeInv
  <1>5. OwedInv'
    <2>1. Attempts' = Attempts
      BY DEF Attempts
    <2>2. \A a : Unrecorded(a)' <=> Unrecorded(a)
      BY <2>1 DEF Unrecorded, FlightOf, InState
    <2>3. \A a : Settling(a)' => Settling(a)
      BY <1>2 DEF Settling
    <2>4. QED BY <2>1, <2>2, <2>3 DEF CalmInv, OwedInv
  <1>6. SettleInv'
    BY <1>2 DEF CalmInv, SettleInv
  <1>7. NewInv'
    BY DEF CalmInv, NewInv
  <1>8. QED BY <1>3, <1>4, <1>5, <1>6, <1>7 DEF CalmInv

\* The Attempt in the slot comes out of it, and its failure is to be recorded.
LEMMA FailAttemptCalm == ASSUME JobsInv, JobsInv', CalmInv, FailAttempt PROVE CalmInv'
  <1> DEFINE r == [Request("settle") EXCEPT !.attempt = active, !.cause = run.signal]
             n == Len(queue) + 1
  <1>1. /\ run.phase = "failed" /\ queue' = Append(queue, r) /\ active' = 0
        /\ UNCHANGED <<mem, disk, step, aborting, results>>
    BY DEF FailAttempt, Enqueue, projectVars
  <1>2. active \in Attempts /\ active \in 0..MaxAttempts
    BY <1>1, SlotNumber
  <1>3. 0 \notin Attempts
    BY AttemptsOf DEF JobsInv, DataInv, StateOK, Attempts
  <1>4. r \in Requests /\ r.op = "settle" /\ r.attempt = active
    <2>1. Request("settle") \in Requests /\ Request("settle").op = "settle"
      BY RequestFacts DEF RequestOps
    <2>2. run.signal \in Causes
      BY DEF JobsInv, KindInv
    <2>3. QED BY <1>2, <2>1, <2>2 DEF Requests
  <1> HIDE DEF r
  <1>5. /\ queue'[n] = r /\ n \in DOMAIN queue' /\ n \notin DOMAIN queue
        /\ \A i \in DOMAIN queue : queue'[i] = queue[i]
        /\ \A i \in DOMAIN queue' : i \in DOMAIN queue \/ i = n
    BY <1>1, <1>4, AppendFacts DEF JobsInv, KindInv
  <1> HIDE DEF n
  <1>6. step.at \notin {"start", "down"}
    BY <1>1, <1>2, <1>3 DEF JobsInv, SlotInv, CalmInv, NewInv
  <1>7. SleepsNot'
    BY <1>1, <1>4, <1>5 DEF CalmInv, SleepsNot
  <1>8. AgreeInv'
    BY <1>1 DEF CalmInv, AgreeInv
  <1>9. OwedInv'
    <2>1. Attempts' = Attempts
      BY <1>1 DEF Attempts
    <2>2. \A a : Unrecorded(a)' <=> Unrecorded(a)
      BY <1>1, <2>1 DEF Unrecorded, FlightOf, InState
    <2>3. \A a : Settling(a)' => Settling(a) \/ a = active
      BY <1>4, <1>5 DEF Settling
    <2>4. SUFFICES ASSUME NEW a \in Attempts', active' = a \/ Settling(a)' PROVE Unrecorded(a)'
      BY DEF OwedInv
    <2>5. Settling(a) \/ a = active
      BY <1>1, <1>3, <2>1, <2>3, <2>4
    <2>6. QED BY <2>1, <2>2, <2>5 DEF CalmInv, OwedInv
  <1>10. SettleInv'
    <2>1. \A i \in DOMAIN queue : queue[i].op = "settle" => queue[i].attempt # active
      BY DEF CalmInv, SettleInv
    <2>2. SUFFICES ASSUME NEW i \in DOMAIN queue', queue'[i].op = "settle"
                   PROVE /\ queue'[i].attempt # 0
                         /\ \A k \in DOMAIN queue' :
                               queue'[k].op = "settle" /\ queue'[k].attempt = queue'[i].attempt => k = i
      BY <1>1, <1>6 DEF SettleInv
    <2>3. queue'[i].attempt \in Attempts'
      BY <2>2 DEF JobsInv, LineInv, AboutAttempt
    <2>4. queue'[i].attempt # 0
      BY <1>1, <1>3, <2>3 DEF Attempts
    <2>5. \A k \in DOMAIN queue' :
             queue'[k].op = "settle" /\ queue'[k].attempt = queue'[i].attempt => k = i
      BY <1>4, <1>5, <2>1, <2>2 DEF CalmInv, SettleInv
    <2>6. QED BY <2>4, <2>5
  <1>11. NewInv'
    <2>1. 0 \notin results
      BY <1>3, ResultsAreAttempts
    <2>2. QED BY <1>1, <1>6, <2>1 DEF NewInv
  <1>12. QED BY <1>7, <1>8, <1>9, <1>10, <1>11 DEF CalmInv

LEMMA LeaveCalm == ASSUME JobsInv, JobsInv', CalmInv, Leave PROVE CalmInv'
  <1>1. /\ run.phase = "leaving" /\ active' = 0
        /\ UNCHANGED <<mem, disk, queue, step, aborting, results>>
    BY DEF Leave, projectVars
  <1>2. active # 0 /\ 0 \notin Attempts /\ 0 \notin results
    BY <1>1, AttemptsOf, ResultsAreAttempts DEF JobsInv, DataInv, StateOK, Attempts, SlotInv
  <1>3. SleepsNot' /\ AgreeInv'
    BY <1>1 DEF CalmInv, SleepsNot, AgreeInv
  <1>4. OwedInv'
    <2>1. Attempts' = Attempts
      BY <1>1 DEF Attempts
    <2>2. \A a : /\ Unrecorded(a)' <=> Unrecorded(a)
                 /\ Settling(a)' <=> Settling(a)
      BY <1>1, <2>1 DEF Unrecorded, FlightOf, InState, Settling
    <2>3. SUFFICES ASSUME NEW a \in Attempts', active' = a \/ Settling(a)' PROVE Unrecorded(a)'
      BY DEF OwedInv
    <2>4. QED BY <1>1, <1>2, <2>1, <2>2, <2>3 DEF CalmInv, OwedInv
  <1>5. SettleInv'
    <2>1. \A i \in DOMAIN queue : queue[i].op = "settle" => queue[i].attempt # 0
      BY <1>2 DEF JobsInv, LineInv, AboutAttempt
    <2>2. QED BY <1>1, <2>1 DEF CalmInv, SettleInv
  <1>6. NewInv'
    BY <1>1, <1>2 DEF CalmInv, NewInv, JobsInv, SlotInv
  <1>7. QED BY <1>3, <1>4, <1>5, <1>6 DEF CalmInv

LEMMA AttemptingCalm == ASSUME JobsInv, JobsInv', CalmInv, Attempting PROVE CalmInv'
  <1>1. aborting = 0
    BY DEF CalmInv, SleepsNot
  <1>2. CASE Launch \/ FailPreparation \/ Interrupted \/ Unwind
    <2>1. /\ UNCHANGED <<mem, disk, queue, step, active, results, aborting>>
          /\ run.phase \in {"preparing", "running", "stopping"}
      BY <1>2 DEF Launch, FailPreparation, Interrupted, Unwind, Others, projectVars
    <2>2. QED BY <1>1, <2>1, NotYetPublished, CalmStays
  <1>3. CASE Stopped
    <2>1. UNCHANGED <<mem, disk, queue, step, active, results, aborting, run>>
      BY <1>3 DEF Stopped, Others, projectVars
    <2>2. active \in results => step.at = "complete" \/ run.phase \in {"failed", "leaving"}
      BY DEF CalmInv, NewInv
    <2>3. QED BY <1>1, <2>1, <2>2, CalmStays
  <1>4. CASE Answer
    <2>1. /\ UNCHANGED <<mem, disk, step, active, results, aborting>> /\ run.phase = "running"
          /\ \/ queue' = queue
             \/ queue' = Append(queue, [Request("publish") EXCEPT !.attempt = active])
      BY <1>4 DEF Answer, projectVars, Enqueue
    <2>2. active \notin results
      BY <2>1, NotYetPublished
    <2>3. CASE queue' = queue
      BY <1>1, <2>1, <2>2, <2>3, CalmStays
    <2>4. CASE queue' = Append(queue, [Request("publish") EXCEPT !.attempt = active])
      <3>1. active \in 0..MaxAttempts /\ active # 0
        BY <2>1, SlotNumber DEF JobsInv, SlotInv
      <3>2. step.at # "down"
        BY <3>1 DEF CalmInv, NewInv
      <3> DEFINE r == [Request("publish") EXCEPT !.attempt = active]
      <3>3. r \in Requests /\ r.op = "publish"
        BY <3>1, AttemptRequest DEF RequestOps
      <3> HIDE DEF r
      <3>4. queue' = Append(queue, r)
        BY <2>4 DEF r
      <3>5. QED BY <2>1, <2>2, <3>2, <3>3, <3>4, CalmAdded
    <2>5. QED BY <2>1, <2>3, <2>4
  <1>5. CASE Abort
    BY <1>1, <1>5 DEF Abort
  <1>6. QED BY <1>2, <1>3, <1>4, <1>5, FailAttemptCalm, LeaveCalm DEF Attempting

LEMMA CallsCalm == ASSUME MaxSleeps = 0, JobsInv, JobsInv', CalmInv, Calls PROVE CalmInv'
  <1>1. active \in results => step.at = "complete" \/ run.phase \in {"failed", "leaving"}
    BY DEF CalmInv, NewInv
  <1>2. ASSUME NEW op \in JobCalls \cup QueueCalls, NEW j \in Jobs \cup {"none"}, Call(op, j)
        PROVE CalmInv'
    <2> DEFINE r == [Request(op) EXCEPT !.job = j]
    <2>1. /\ queue' = Append(queue, r) /\ step.at # "down"
          /\ UNCHANGED <<mem, disk, step, results, active, aborting, run>>
      BY <1>2 DEF Call, Enqueue, slotVars, projectVars
    <2>2. r \in Requests /\ r.op = op
      BY JobRequest DEF RequestOps
    <2>3. op \notin {"settle", "sleep"}
      BY DEF JobCalls, QueueCalls
    <2> HIDE DEF r
    <2>4. QED BY <1>1, <2>1, <2>2, <2>3, CalmAdded
  <1>3. CASE CallSleep
    BY <1>3 DEF CallSleep, JobsInv, KindInv
  <1>4. CASE Edit
    <2>1. UNCHANGED <<mem, disk, queue, step, active, results, aborting, run>>
      BY <1>4 DEF Edit, slotVars
    <2>2. aborting' = 0
      BY <2>1 DEF CalmInv, SleepsNot
    <2>3. QED BY <1>1, <2>1, <2>2, CalmStays
  <1>5. QED BY <1>2, <1>3, <1>4 DEF Calls

LEMMA CrashCalm == ASSUME JobsInv, JobsInv', CalmInv, Crash PROVE CalmInv'
  <1>1. /\ mem' = disk /\ queue' = <<>> /\ step'.at = "down" /\ active' = 0 /\ aborting' = 0
        /\ UNCHANGED <<disk, results>>
    BY DEF Crash, Idle, projectVars
  <1>2. DOMAIN queue' = {}
    BY <1>1
  <1>3. AgreeInv'
    BY <1>1, StayApart DEF CalmInv, AgreeInv
  <1>4. 0 \notin Attempts' /\ 0 \notin results
    BY AttemptsOf, ResultsAreAttempts DEF JobsInv, DataInv, StateOK, Attempts
  <1>5. OwedInv'
    BY <1>1, <1>2, <1>4 DEF OwedInv, Settling
  <1>6. QED BY <1>1, <1>2, <1>3, <1>4, <1>5 DEF CalmInv, SleepsNot, SettleInv, NewInv

LEMMA OpenCalm == ASSUME JobsInv, JobsInv', CalmInv, Open PROVE CalmInv'
  <1>1. /\ mem' = Recovered(disk) /\ disk' = mem' /\ step' = Idle
        /\ UNCHANGED <<queue, active, aborting, results>>
    BY DEF Open, slotVars, projectVars
  <1>2. queue = <<>> /\ active = 0 /\ aborting = 0
    BY DEF Open, CalmInv, NewInv, SleepsNot
  <1>3. DOMAIN queue' = {}
    BY <1>1, <1>2
  <1>4. disk \in State /\ StateOK(disk, results)
    BY DEF JobsInv, DataInv, StateOK
  <1>5. AgreesOn(mem', results)
    BY <1>1, <1>4, RecoveredAgrees DEF CalmInv, AgreeInv
  <1>6. AllApart(mem', results)
    <2>1. AllApart(disk, results)
      BY StayApart DEF CalmInv, AgreeInv
    <2>2. Follows(mem', disk)
      BY <1>1, <1>4, RecoveredKeeps
    <2>3. \A a \in results : mem'.attempts[a].job = disk.attempts[a].job
      BY <2>2 DEF JobsInv, DataInv, Follows
    <2>4. QED BY <2>1, <2>3 DEF AllApart
  <1>7. AgreeInv'
    BY <1>1, <1>5, <1>6 DEF AgreeInv
  <1>8. 0 \notin Attempts' /\ 0 \notin results
    BY AttemptsOf, ResultsAreAttempts DEF JobsInv, DataInv, StateOK, Attempts
  <1>9. OwedInv'
    BY <1>1, <1>2, <1>3, <1>8 DEF OwedInv, Settling
  <1>10. QED BY <1>1, <1>2, <1>3, <1>7, <1>8, <1>9 DEF CalmInv, SleepsNot, SettleInv, NewInv, Idle

LEMMA InitCalm == ASSUME Init PROVE CalmInv
  <1>1. mem.attempts = <<>> /\ disk.attempts = <<>> /\ DOMAIN mem.attempts = {} /\ DOMAIN disk.attempts = {}
    BY DEF Init, Empty
  <1>2. queue = <<>> /\ DOMAIN queue = {} /\ active = 0 /\ aborting = 0 /\ results = {} /\ step.at = "down"
    BY DEF Init, Idle
  <1>3. AgreeInv
    BY <1>1, <1>2 DEF AgreeInv, AgreesOn, AllApart, FlightOf, InState
  <1>4. QED BY <1>1, <1>2, <1>3 DEF CalmInv, SleepsNot, OwedInv, SettleInv, NewInv, Attempts

LEMMA NextCalm ==
    ASSUME "write" \notin Faults, MaxSleeps = 0, JobsInv, JobsInv', WrittenInv, CalmInv, [Next]_vars
    PROVE CalmInv'
  <1>1. CASE UNCHANGED vars
    <2>1. UNCHANGED <<mem, disk, queue, step, active, results, aborting, run>>
      BY <1>1 DEF vars
    <2>2. active \in results => step.at = "complete" \/ run.phase \in {"failed", "leaving"}
      BY DEF CalmInv, NewInv
    <2>3. aborting' = 0
      BY <2>1 DEF CalmInv, SleepsNot
    <2>4. QED BY <2>1, <2>2, <2>3, CalmStays
  <1>2. CASE Mutations
    <2>1. CASE Sleep
      <3>1. queue[1].op = "sleep" /\ 1 \in DOMAIN queue
        BY <2>1, TakeFacts DEF Sleep, Take, JobsInv, KindInv
      <3>2. QED BY <3>1 DEF CalmInv, SleepsNot
    <2>2. QED BY <1>2, <2>1, CallersCalm, CancelCalm, RunNextCalm, SubmitDriftedCalm, PublishCalm,
             SettleCalm, WriteCalm, CommitCalm, RejectCalm, ContainedCalm DEF Mutations
  <1>3. CASE Failures
    <2>1. CASE FailWrite
      BY <2>1 DEF FailWrite, CanFail
    <2>2. CASE NotStopped
      <3>1. UNCHANGED <<mem, disk, queue, step, active, results, aborting, run>>
        BY <2>2 DEF NotStopped, Others, projectVars
      <3>2. active \in results => step.at = "complete" \/ run.phase \in {"failed", "leaving"}
        BY DEF CalmInv, NewInv
      <3>3. aborting' = 0
        BY <3>1 DEF CalmInv, SleepsNot
      <3>4. QED BY <3>1, <3>2, <3>3, CalmStays
    <2>3. QED BY <1>3, <2>1, <2>2, SettleCalm, CrashCalm DEF Failures
  <1>4. QED BY <1>1, <1>2, <1>3, AttemptingCalm, CallsCalm, OpenCalm DEF Next

\* As long as the state file can be written and the system does not sleep, the
\* memory and the disk agree with the Project in every state.
THEOREM QueueAgreesWithProject ==
    ASSUME "write" \notin Faults, MaxSleeps = 0 PROVE Spec => []CalmInv
  <1>1. Init => CalmInv
    BY InitCalm
  <1>2. JobsInv /\ JobsInv' /\ WrittenInv /\ CalmInv /\ [Next]_vars => CalmInv'
    BY NextCalm
  <1>3. Init => WrittenInv
    BY InitWritten
  <1>4. JobsInv /\ WrittenInv /\ [Next]_vars => WrittenInv'
    BY NextKeepsWritten
  <1>5. QED BY <1>1, <1>2, <1>3, <1>4, JobsInvariant, PTL DEF Spec

\* A published candidate is never recorded as a failure.
THEOREM CommitsAreKept ==
    ASSUME "write" \notin Faults, MaxSleeps = 0 PROVE Spec => []CommittedKept
  <1>1. CalmInv => CommittedKept
    BY DEF CalmInv, AgreeInv, AgreesOn, CommittedKept, FlightOf, InState, InFlight
  <1>2. QED BY <1>1, QueueAgreesWithProject, PTL

\* A Job accepts one result.
THEOREM OneResultForAJob ==
    ASSUME "write" \notin Faults, MaxSleeps = 0 PROVE Spec => []OneResultPerJob
  <1>1. CalmInv => OneResultPerJob
    BY DEF CalmInv, AgreeInv, AllApart, OneResultPerJob
  <1>2. QED BY <1>1, QueueAgreesWithProject, PTL
=============================================================================
