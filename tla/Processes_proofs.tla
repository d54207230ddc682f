-------------------------- MODULE Processes_proofs --------------------------
(***************************************************************************)
(* The parts that run native processes, each for every value of its        *)
(* constants: alignment behind the CPU gate, the session with the analysis *)
(* sidecar, Acquisition Jobs and the conversation with their extractor.    *)
(***************************************************************************)
EXTENDS MCProcesses, TLAPS

-----------------------------------------------------------------------------
(***************************************************************************)
(* Alignment, for every set of recipes, of callers and of other            *)
(* computations: nothing beside a process that may live, and a Job list    *)
(* that tells the truth.                                                   *)
(***************************************************************************)
Kinds == {"request", "confirm", "cancel", "interrupt", "run", "publish", "fail"}
Ops == [kind : Kinds, of : Recipes \cup {NoRecipe}]
CallPhases == {"none", "start", "chosen", "request", "confirm", "confirmed", "chosenToCancel", "cancel"}
Calls == [phase : CallPhases, of : Recipes \cup {NoRecipe}]
Inside == {"storage", "gate", "marked", "prepared", "launched", "teardown", "validating",
           "inLine", "failed", "settling"}
Phases == {"none", "starting", "ended"} \cup Inside

\* The operations of the run itself, and where the run waits for each.
RunKinds == {"run", "publish", "fail"}
WaitsFor(kind) == CASE kind = "run" -> "starting" [] kind = "publish" -> "inLine" [] OTHER -> "settling"

AlignTypes ==
    /\ job \in [Recipes -> States] /\ control \in [Recipes -> {"none", "live", "aborted"}]
    /\ circuit \subseteq Recipes /\ line \in Seq(Ops) /\ publishing \in BOOLEAN
    /\ pending \in Seq(Recipes) /\ running \in Recipes \cup {NoRecipe}
    /\ call \in [Callers -> Calls] /\ \A c \in Callers : call[c].phase # "none" => call[c].of \in Recipes
    /\ \A i \in DOMAIN line : line[i].kind # "interrupt" => line[i].of \in Recipes
    /\ phase \in Phases /\ failure \in Failures /\ {process, reaped, cpuBlocked, unwritten} \subseteq BOOLEAN

\* A run has the service's slot; it has the Job's controller from its first
\* operation to its end, and nobody queues the Job again meanwhile.
RunInv ==
    /\ running = NoRecipe <=> phase = "none"
    /\ \A k \in Recipes : control[k] # "none" => running = k /\ phase \in Inside \cup {"ended"}
    /\ phase \in Inside => control[running] # "none" /\ job[running] \notin {"none", "queued"}
    /\ \A k \in Recipes : job[k] = "running" /\ (unwritten = FALSE) => running = k /\ phase \in Inside
    /\ phase = "ended" /\ (unwritten = FALSE) => job[running] # "queued"

\* The run has at most one operation on the tail, the one it waits for.
LineInv ==
    /\ \A i \in DOMAIN line : line[i].kind \in RunKinds =>
         line[i].of = running /\ phase = WaitsFor(line[i].kind)
    /\ \A i, j \in DOMAIN line : line[i].kind \in RunKinds /\ line[j].kind \in RunKinds => i = j

\* A result that is published and not recorded belongs to the operation at
\* the head of the tail.
PublishInv ==
    /\ SucceededIsPublished
    /\ publishing = TRUE => line # <<>> /\ line[1] = Op("publish", running) /\ running \in results

\* A run holds the gate from its marker to its teardown; a process that may
\* live beyond that has closed the gate.
GateInv ==
    /\ cpuBlocked = TRUE => cpuActive = NoWork /\ cpuWaiting = <<>>
    /\ phase \in {"marked", "prepared", "launched", "teardown"} => cpuActive = running
    /\ process = TRUE => cpuBlocked = TRUE \/ phase \in {"launched", "teardown"}
    /\ phase = "launched" => reaped = FALSE
    /\ phase = "teardown" /\ reaped = TRUE => process = FALSE
    /\ phase = "marked" => runs \in marker
    /\ WorkspaceJournaled

\* What will start a queued Job, or interrupt it.
InCall(k) == \E c \in Callers : call[c].of = k /\ call[c].phase \in {"chosen", "confirm", "confirmed"}
InLine(k) == \E i \in DOMAIN line : line[i] \in {Op("interrupt", NoRecipe), Op("cancel", k)}
Scheduled(k) == IsPending(k) \/ running = k \/ InCall(k) \/ InLine(k) \/ unwritten

\* The service starts the first of the Jobs p.
Starts(p) ==
    /\ p # <<>> /\ pending' = Tail(p) /\ running' = Head(p) /\ phase' = "starting"
    /\ line' = line \o <<Op("run", Head(p))>>

\* What a launch of the Job k may do: nothing, or queue it in p.
Idles(k) == UNCHANGED <<pending, running, phase, line>> /\ (running = k \/ IsPending(k))
Queues(p) == pending' = p /\ UNCHANGED <<running, phase, line, runs>>

AInv == AlignTypes /\ RunInv /\ LineInv /\ PublishInv /\ GateInv /\ QueuedIsScheduled

USE DEF Kinds, CallPhases, Inside, Phases, RunKinds, States, Failures

(***************************************************************************)
(* Sequences: the tail of operations and the queue of the service.         *)
(***************************************************************************)
LEMMA TailFacts ==
    ASSUME NEW S, NEW s \in Seq(S), s # <<>>
    PROVE  /\ Tail(s) \in Seq(S) /\ Head(s) = s[1] /\ s[1] \in S /\ 1 \in DOMAIN s
           /\ \A i \in DOMAIN Tail(s) : i + 1 \in DOMAIN s /\ i + 1 # 1 /\ Tail(s)[i] = s[i + 1]
           /\ \A i \in DOMAIN s : i # 1 => i - 1 \in DOMAIN Tail(s) /\ Tail(s)[i - 1] = s[i]
  OBVIOUS

LEMMA AppendFacts ==
    ASSUME NEW S, NEW s \in Seq(S), NEW x \in S
    PROVE  /\ s \o <<x>> \in Seq(S) /\ s \o <<x>> # <<>>
           /\ DOMAIN (s \o <<x>>) = DOMAIN s \cup {Len(s) + 1} /\ Len(s) + 1 \notin DOMAIN s
           /\ \A i \in DOMAIN s : (s \o <<x>>)[i] = s[i]
           /\ (s \o <<x>>)[Len(s) + 1] = x
           /\ s # <<>> => 1 \in DOMAIN s
  OBVIOUS

LEMMA WithoutFacts ==
    ASSUME NEW s \in Seq(Recipes), NEW k \in Recipes
    PROVE  /\ Without(s, k) \in Seq(Recipes)
           /\ \A i \in DOMAIN s : s[i] # k => \E j \in DOMAIN Without(s, k) : Without(s, k)[j] = s[i]
<1>1. CASE \E i \in DOMAIN s : s[i] = k
  <2>. DEFINE n == CHOOSE i \in DOMAIN s : s[i] = k
              t == [i \in 1 .. Len(s) - 1 |-> IF i < n THEN s[i] ELSE s[i + 1]]
  <2>1. n \in DOMAIN s /\ s[n] = k
    BY <1>1
  <2>2. Without(s, k) = t
    BY <1>1 DEF Without
  <2>3. Len(s) \in Nat /\ DOMAIN s = 1 .. Len(s) /\ Len(s) - 1 \in Nat
    BY <2>1
  <2>4. t \in Seq(Recipes) /\ DOMAIN t = 1 .. Len(s) - 1
    BY <2>1, <2>3
  <2>5. ASSUME NEW i \in DOMAIN s, s[i] # k PROVE \E j \in DOMAIN t : t[j] = s[i]
    <3>1. CASE i < n
      <4>1. i \in DOMAIN t
        BY <2>1, <2>3, <2>4, <2>5, <3>1
      <4>2. t[i] = s[i]
        BY <4>1, <3>1, <2>4
      <4>. QED
        BY <4>1, <4>2
    <3>2. CASE ~(i < n)
      <4>1. i - 1 \in DOMAIN t /\ ~(i - 1 < n) /\ (i - 1) + 1 = i
        BY <2>1, <2>3, <2>4, <2>5, <3>2
      <4>2. t[i - 1] = s[i]
        BY <4>1, <2>4
      <4>. QED
        BY <4>1, <4>2
    <3>. QED
      BY <3>1, <3>2
  <2>. QED
    BY ZenonT(30), <2>2, <2>4, <2>5
<1>2. CASE ~\E i \in DOMAIN s : s[i] = k
  BY <1>2 DEF Without
<1>. QED
  BY <1>1, <1>2

(***************************************************************************)
(* What the pieces of a step change: a call, an answer, what schedules a   *)
(* Job, a start by the service.                                            *)
(***************************************************************************)
LEMMA CallFacts ==
    ASSUME AlignTypes, NEW c \in Callers, NEW r \in Calls, r.phase # "none" => r.of \in Recipes,
           call' = [call EXCEPT ![c] = r]
    PROVE  /\ call' \in [Callers -> Calls] /\ call'[c] = r
           /\ \A d \in Callers : d # c => call'[d] = call[d]
           /\ \A d \in Callers : call'[d].phase # "none" => call'[d].of \in Recipes
<1>1. call \in [Callers -> Calls] /\ \A d \in Callers : call[d].phase # "none" => call[d].of \in Recipes
  BY DEF AlignTypes
<1>. QED
  BY <1>1

LEMMA AnsweredFacts ==
    ASSUME AlignTypes, NEW kind, NEW k \in Recipes, NEW next \in CallPhases, Answered(kind, k, next)
    PROVE  \E c \in Callers :
             /\ call[c] = [phase |-> kind, of |-> k]
             /\ call' \in [Callers -> Calls]
             /\ next # "none" => call'[c] = [phase |-> next, of |-> k]
             /\ \A d \in Callers : d # c => call'[d] = call[d]
             /\ \A d \in Callers : call'[d].phase # "none" => call'[d].of \in Recipes
<1>1. PICK c \in Callers : /\ call[c] = [phase |-> kind, of |-> k]
                          /\ call' = [call EXCEPT ![c] =
                                  IF next = "none" THEN NoCall ELSE [phase |-> next, of |-> k]]
  BY DEF Answered
<1>. DEFINE r == IF next = "none" THEN NoCall ELSE [phase |-> next, of |-> k]
<1>2. r \in Calls /\ (r.phase # "none" => r.of \in Recipes) /\ (next # "none" => r = [phase |-> next, of |-> k])
  BY DEF Calls, NoCall
<1>. HIDE DEF r
<1>3. call' = [call EXCEPT ![c] = r]
  BY <1>1 DEF r
<1>. QED
  BY <1>1, <1>2, <1>3, CallFacts

LEMMA PhaseFacts ==
    ASSUME call \in [Callers -> Calls], NEW c \in Callers, NEW p
    PROVE  [call EXCEPT ![c].phase = p] = [call EXCEPT ![c] = [phase |-> p, of |-> call[c].of]]
<1>. DEFINE f == [call EXCEPT ![c].phase = p]
            g == [call EXCEPT ![c] = [phase |-> p, of |-> call[c].of]]
<1>1. f[c] = [phase |-> p, of |-> call[c].of] /\ g[c] = [phase |-> p, of |-> call[c].of]
  BY DEF Calls
<1>2. \A d \in Callers : d # c => f[d] = g[d]
  OBVIOUS
<1>3. DOMAIN f = Callers /\ DOMAIN g = Callers
  OBVIOUS
<1>. QED
  BY <1>1, <1>2, <1>3

LEMMA InCallKept ==
    ASSUME NEW c \in Callers, NEW j, InCall(j), \A d \in Callers : d # c => call'[d] = call[d],
           call[c].phase \in {"chosen", "confirm", "confirmed"} => call[c].of # j
    PROVE  InCall(j)'
  BY DEF InCall

LEMMA InLineKept ==
    ASSUME NEW j, InLine(j), line' = Tail(line),
           \A i \in DOMAIN line : i # 1 => i - 1 \in DOMAIN Tail(line) /\ Tail(line)[i - 1] = line[i],
           line[1].kind # "interrupt", line[1].kind = "cancel" => line[1].of # j
    PROVE  InLine(j)'
  BY SMTT(60) DEF InLine, Op

LEMMA InLineGrows ==
    ASSUME NEW j, InLine(j), NEW n, DOMAIN line' = DOMAIN line \cup {n},
           \A i \in DOMAIN line : line'[i] = line[i]
    PROVE  InLine(j)'
  BY DEF InLine

LEMMA PendingGrows ==
    ASSUME pending \in Seq(Recipes), NEW k \in Recipes
    PROVE  /\ Append(pending, k) \in Seq(Recipes)
           /\ \A j : IsPending(j) \/ j = k => \E m \in DOMAIN Append(pending, k) : Append(pending, k)[m] = j
<1>1. /\ Append(pending, k) \in Seq(Recipes) /\ Len(pending) + 1 \in DOMAIN Append(pending, k)
      /\ Append(pending, k)[Len(pending) + 1] = k
      /\ \A i \in DOMAIN pending : i \in DOMAIN Append(pending, k) /\ Append(pending, k)[i] = pending[i]
  OBVIOUS
<1>. QED
  BY <1>1 DEF IsPending

LEMMA StartsFacts ==
    ASSUME AlignmentAssumption, AlignTypes, NEW p \in Seq(Recipes), Starts(p)
    PROVE  /\ p # <<>> /\ pending' \in Seq(Recipes) /\ running' \in Recipes /\ running' # NoRecipe
           /\ phase' = "starting"
           /\ line' \in Seq(Ops) /\ line' # <<>> /\ DOMAIN line' = DOMAIN line \cup {Len(line) + 1}
           /\ Len(line) + 1 \notin DOMAIN line /\ \A i \in DOMAIN line : line'[i] = line[i]
           /\ line'[Len(line) + 1] = Op("run", running') /\ (line # <<>> => 1 \in DOMAIN line)
           /\ \A i \in DOMAIN p : p[i] = running' \/ \E m \in DOMAIN pending' : pending'[m] = p[i]
<1>1. p # <<>> /\ pending' = Tail(p) /\ running' = Head(p) /\ phase' = "starting"
      /\ line' = line \o <<Op("run", Head(p))>>
  BY DEF Starts
<1>2. Tail(p) \in Seq(Recipes) /\ Head(p) = p[1] /\ p[1] \in Recipes
      /\ \A i \in DOMAIN p : i # 1 => i - 1 \in DOMAIN Tail(p) /\ Tail(p)[i - 1] = p[i]
  BY <1>1, TailFacts
<1>3. line \in Seq(Ops) /\ Op("run", Head(p)) \in Ops /\ Head(p) # NoRecipe
  BY <1>2 DEF AlignTypes, Op, Ops, AlignmentAssumption
<1>4. \A i \in DOMAIN p : p[i] = running' \/ \E m \in DOMAIN pending' : pending'[m] = p[i]
  BY <1>1, <1>2
<1>. QED
  BY <1>1, <1>2, <1>3, <1>4, AppendFacts

(***************************************************************************)
(* Each action preserves the invariant.  The lettered facts of a lemma say *)
(* what the action does to the tail and to the calls; then comes one step  *)
(* for each part of the invariant.                                         *)
(***************************************************************************)
LEMMA CallStep ==
    ASSUME AlignmentAssumption, AInv, NEW c \in Callers, Call(c) PROVE AInv'
<1>. USE DEF AInv, Call, jobVars, serviceVars, workerVars, boundVars, cpuVars
<1>a. PICK r \in Calls : (r.phase # "none" => r.of \in Recipes) /\ call' = [call EXCEPT ![c] = r]
  BY DEF Calls
<1>b. call' \in [Callers -> Calls] /\ call'[c] = r /\ (\A d \in Callers : d # c => call'[d] = call[d])
      /\ \A d \in Callers : call'[d].phase # "none" => call'[d].of \in Recipes
  BY <1>a, CallFacts
<1>1. AlignTypes'
  BY <1>b DEF AlignTypes
<1>2. RunInv'
  BY DEF RunInv
<1>3. LineInv'
  BY DEF LineInv
<1>4. PublishInv'
  BY DEF PublishInv, SucceededIsPublished
<1>5. GateInv'
  BY DEF GateInv, WorkspaceJournaled
<1>6. QueuedIsScheduled'
  <2>. SUFFICES ASSUME NEW j \in Recipes, job'[j] = "queued" PROVE Scheduled(j)'
    BY DEF QueuedIsScheduled, Scheduled, InCall, InLine
  <2>1. Scheduled(j)
    BY DEF QueuedIsScheduled, Scheduled, InCall, InLine
  <2>2. InCall(j) => InCall(j)'
    BY <1>b, InCallKept
  <2>. QED
    BY <2>1, <2>2 DEF Scheduled, IsPending, InLine
<1>. QED
  BY <1>1, <1>2, <1>3, <1>4, <1>5, <1>6

LEMMA AskForJobStep ==
    ASSUME AlignmentAssumption, AInv, NEW c \in Callers, AskForJob(c) PROVE AInv'
<1>. USE DEF AInv, AskForJob, Queue, jobVars, serviceVars, workerVars, boundVars, cpuVars
<1>a. Op("request", call[c].of) \in Ops
  BY DEF AlignTypes, Op, Ops
<1>b. line' = line \o <<Op("request", call[c].of)>> =>
          /\ line' \in Seq(Ops) /\ line' # <<>> /\ DOMAIN line' = DOMAIN line \cup {Len(line) + 1}
          /\ Len(line) + 1 \notin DOMAIN line /\ \A i \in DOMAIN line : line'[i] = line[i]
          /\ line'[Len(line) + 1] = Op("request", call[c].of) /\ (line # <<>> => 1 \in DOMAIN line)
  BY <1>a, AppendFacts DEF AlignTypes
<1>c. PICK r \in Calls : (r.phase # "none" => r.of \in Recipes) /\ call' = [call EXCEPT ![c] = r]
  BY DEF AlignTypes, Calls, NoCall
<1>d. call' \in [Callers -> Calls] /\ call'[c] = r /\ (\A d \in Callers : d # c => call'[d] = call[d])
      /\ \A d \in Callers : call'[d].phase # "none" => call'[d].of \in Recipes
  BY <1>c, CallFacts
<1>1. AlignTypes'
  <2>1. \A i \in DOMAIN line' : line'[i].kind # "interrupt" => line'[i].of \in Recipes
    <3>1. CASE line' = line
      BY <3>1 DEF AlignTypes
    <3>2. CASE line' = line \o <<Op("request", call[c].of)>>
      BY <3>2 DEF AlignTypes, Op
    <3>. QED
      BY <3>1, <3>2
  <2>. QED
    BY <1>b, <1>d, <2>1 DEF AlignTypes
<1>2. RunInv'
  BY DEF RunInv
<1>3. LineInv'
  <2>1. \A i \in DOMAIN line' : line'[i].kind \in RunKinds =>
          line'[i].of = running' /\ phase' = WaitsFor(line'[i].kind)
    BY DEF LineInv, Op
  <2>2. \A i, j \in DOMAIN line' : line'[i].kind \in RunKinds /\ line'[j].kind \in RunKinds => i = j
    BY <1>b DEF LineInv, Op
  <2>. QED
    BY <2>1, <2>2 DEF LineInv
<1>4. PublishInv'
  BY DEF PublishInv, SucceededIsPublished
<1>5. GateInv'
  BY DEF GateInv, WorkspaceJournaled
<1>6. QueuedIsScheduled'
  <2>. SUFFICES ASSUME NEW j \in Recipes, job'[j] = "queued" PROVE Scheduled(j)'
    BY DEF QueuedIsScheduled, Scheduled, InCall, InLine
  <2>1. Scheduled(j)
    BY DEF QueuedIsScheduled, Scheduled, InCall, InLine
  <2>2. InCall(j) => InCall(j)'
    BY <1>d, InCallKept
  <2>3. InLine(j) => InLine(j)'
    BY InLineGrows DEF InLine
  <2>. QED
    BY <2>1, <2>2, <2>3 DEF Scheduled, IsPending
<1>. QED
  BY <1>1, <1>2, <1>3, <1>4, <1>5, <1>6

LEMMA AskToConfirmStep ==
    ASSUME AlignmentAssumption, AInv, NEW c \in Callers, AskToConfirm(c) PROVE AInv'
<1>. USE DEF AInv, AskToConfirm, Queue, jobVars, serviceVars, workerVars, boundVars, cpuVars
<1>a. Op("confirm", call[c].of) \in Ops
  BY DEF AlignTypes, Op, Ops
<1>b. line' = line \o <<Op("confirm", call[c].of)>> =>
          /\ line' \in Seq(Ops) /\ line' # <<>> /\ DOMAIN line' = DOMAIN line \cup {Len(line) + 1}
          /\ Len(line) + 1 \notin DOMAIN line /\ \A i \in DOMAIN line : line'[i] = line[i]
          /\ line'[Len(line) + 1] = Op("confirm", call[c].of) /\ (line # <<>> => 1 \in DOMAIN line)
  BY <1>a, AppendFacts DEF AlignTypes
<1>c. PICK r \in Calls : /\ (r.phase # "none" => r.of \in Recipes) /\ call' = [call EXCEPT ![c] = r]
                          /\ (r = NoCall \/ (r.phase = "confirm" /\ r.of = call[c].of))
  <2>1. CASE call' = [call EXCEPT ![c] = NoCall]
    <3>1. NoCall \in Calls /\ NoCall.phase = "none"
      BY DEF Calls, NoCall
    <3>. QED
      BY <2>1, <3>1
  <2>2. CASE call' = [call EXCEPT ![c].phase = "confirm"]
    <3>1. [phase |-> "confirm", of |-> call[c].of] \in Calls /\ call[c].of \in Recipes
      BY DEF Calls, AlignTypes
    <3>2. call' = [call EXCEPT ![c] = [phase |-> "confirm", of |-> call[c].of]]
      BY <2>2, PhaseFacts DEF AlignTypes
    <3>. QED
      BY <3>1, <3>2
  <2>. QED
    BY <2>1, <2>2
<1>d. call' \in [Callers -> Calls] /\ call'[c] = r /\ (\A d \in Callers : d # c => call'[d] = call[d])
      /\ \A d \in Callers : call'[d].phase # "none" => call'[d].of \in Recipes
  BY <1>c, CallFacts
<1>1. AlignTypes'
  BY <1>b, <1>d DEF AlignTypes, Op
<1>2. RunInv'
  BY DEF RunInv
<1>3. LineInv'
  BY <1>a, SMTT(60) DEF LineInv, Op, RunInv
<1>4. PublishInv'
  BY DEF PublishInv, SucceededIsPublished
<1>5. GateInv'
  BY DEF GateInv, WorkspaceJournaled
<1>6. QueuedIsScheduled'
  <2>. SUFFICES ASSUME NEW j \in Recipes, job'[j] = "queued" PROVE Scheduled(j)'
    BY DEF QueuedIsScheduled, Scheduled, InCall, InLine
  <2>1. Scheduled(j)
    BY DEF QueuedIsScheduled, Scheduled, InCall, InLine
  <2>2. CASE call[c].of # j
    BY <1>d, <2>1, <2>2, InCallKept, InLineGrows DEF Scheduled, IsPending, InLine
  <2>3. CASE call[c].of = j
    BY <1>c, <2>1, <2>3 DEF Scheduled, IsPending, InCall, NoCall
  <2>. QED
    BY <2>2, <2>3
<1>. QED
  BY <1>1, <1>2, <1>3, <1>4, <1>5, <1>6

LEMMA AskToCancelStep ==
    ASSUME AlignmentAssumption, AInv, NEW c \in Callers, AskToCancel(c) PROVE AInv'
<1>. USE DEF AInv, AskToCancel, Queue, jobVars, serviceVars, workerVars, boundVars, cpuVars
<1>a. Op("cancel", call[c].of) \in Ops
  BY DEF AlignTypes, Op, Ops
<1>b. line' = line \o <<Op("cancel", call[c].of)>> =>
          /\ line' \in Seq(Ops) /\ line' # <<>> /\ DOMAIN line' = DOMAIN line \cup {Len(line) + 1}
          /\ Len(line) + 1 \notin DOMAIN line /\ \A i \in DOMAIN line : line'[i] = line[i]
          /\ line'[Len(line) + 1] = Op("cancel", call[c].of) /\ (line # <<>> => 1 \in DOMAIN line)
  BY <1>a, AppendFacts DEF AlignTypes
<1>c. PICK r \in Calls : (r.phase # "none" => r.of \in Recipes) /\ call' = [call EXCEPT ![c] = r]
  BY DEF AlignTypes, Calls
<1>d. call' \in [Callers -> Calls] /\ call'[c] = r /\ (\A d \in Callers : d # c => call'[d] = call[d])
      /\ \A d \in Callers : call'[d].phase # "none" => call'[d].of \in Recipes
  BY <1>c, CallFacts
<1>e. /\ pending' \in Seq(Recipes)
      /\ \A i \in DOMAIN pending : pending[i] # call[c].of =>
            \E m \in DOMAIN pending' : pending'[m] = pending[i]
  BY WithoutFacts DEF AlignTypes
<1>1. AlignTypes'
  BY <1>b, <1>e, <1>d DEF AlignTypes, Op
<1>2. RunInv'
  BY DEF RunInv
<1>3. LineInv'
  BY DEF LineInv, Op
<1>4. PublishInv'
  BY DEF PublishInv, SucceededIsPublished
<1>5. GateInv'
  BY DEF GateInv, WorkspaceJournaled
<1>6. QueuedIsScheduled'
  <2>. SUFFICES ASSUME NEW j \in Recipes, job'[j] = "queued" PROVE Scheduled(j)'
    BY DEF QueuedIsScheduled, Scheduled, InCall, InLine
  <2>1. Scheduled(j)
    BY DEF QueuedIsScheduled, Scheduled, InCall, InLine
  <2>2. CASE call[c].of # j
    <3>1. InCall(j) => InCall(j)'
      BY <2>2, InCallKept
    <3>2. InLine(j) => InLine(j)'
      BY <1>b, InLineGrows
    <3>3. IsPending(j) => IsPending(j)'
      BY <1>e, <2>2 DEF IsPending
    <3>. QED
      BY <2>1, <3>1, <3>2, <3>3 DEF Scheduled
  <2>3. CASE call[c].of = j
    BY <2>3 DEF Scheduled, InLine
  <2>. QED
    BY <2>2, <2>3
<1>. QED
  BY <1>1, <1>2, <1>3, <1>4, <1>5, <1>6

LEMMA SetSuspendedStep ==
    ASSUME AlignmentAssumption, AInv, SetSuspended PROVE AInv'
<1>. USE DEF AInv, SetSuspended, Queue, jobVars, serviceVars, workerVars, boundVars, cpuVars
<1>a. Op("interrupt", NoRecipe) \in Ops
  BY DEF Op, Ops
<1>1. AlignTypes'
  BY <1>a DEF AlignTypes, Op
<1>2. RunInv'
  BY DEF RunInv
<1>3. LineInv'
  <2>1. \A i \in DOMAIN line' : line'[i].kind \in RunKinds =>
          line'[i].of = running' /\ phase' = WaitsFor(line'[i].kind)
    BY DEF LineInv, Op
  <2>2. \A i, j \in DOMAIN line' : line'[i].kind \in RunKinds /\ line'[j].kind \in RunKinds => i = j
    BY DEF LineInv, Op
  <2>. QED
    BY <2>1, <2>2 DEF LineInv
<1>4. PublishInv'
  BY DEF PublishInv, SucceededIsPublished
<1>5. GateInv'
  BY DEF GateInv, WorkspaceJournaled
<1>6. QueuedIsScheduled'
  BY DEF QueuedIsScheduled
<1>. QED
  BY <1>1, <1>2, <1>3, <1>4, <1>5, <1>6

LEMMA DisposeStep ==
    ASSUME AlignmentAssumption, AInv, Dispose PROVE AInv'
<1>. USE DEF AInv, Dispose, Queue, jobVars, serviceVars, workerVars, boundVars, cpuVars
<1>a. Op("interrupt", NoRecipe) \in Ops
  BY DEF Op, Ops
<1>1. AlignTypes'
  BY <1>a DEF AlignTypes, Op
<1>2. RunInv'
  BY DEF RunInv
<1>3. LineInv'
  BY SMTT(60) DEF LineInv, GateInv, WorkspaceJournaled, Op
<1>4. PublishInv'
  BY DEF PublishInv, SucceededIsPublished
<1>5. GateInv'
  BY DEF GateInv, WorkspaceJournaled
<1>6. QueuedIsScheduled'
  BY DEF QueuedIsScheduled
<1>. QED
  BY <1>1, <1>2, <1>3, <1>4, <1>5, <1>6

LEMMA DoRequestStep ==
    ASSUME AlignmentAssumption, AInv, NEW k \in Recipes, DoRequest(k) PROVE AInv'
<1>. USE DEF AInv, DoRequest, First, Reasons, ConfirmedAs, jobVars, serviceVars, workerVars, boundVars, cpuVars
<1>a. line # <<>> /\ Tail(line) \in Seq(Ops) /\ Head(line) = line[1] /\ line[1] \in Ops /\ 1 \in DOMAIN line
  BY TailFacts DEF AlignTypes, First
<1>b. \A i \in DOMAIN line : i # 1 => i - 1 \in DOMAIN Tail(line) /\ Tail(line)[i - 1] = line[i]
  BY TailFacts DEF First
<1>c. PICK c \in Callers :
         /\ call[c] = [phase |-> "request", of |-> k] /\ call' \in [Callers -> Calls]
         /\ (job'[k] \notin {"succeeded", "running"} => call'[c] = [phase |-> "chosen", of |-> k])
         /\ (\A d \in Callers : d # c => call'[d] = call[d])
         /\ \A d \in Callers : call'[d].phase # "none" => call'[d].of \in Recipes
  <2>1. PICK next \in CallPhases : Answered("request", k, next)
              /\ (job'[k] \notin {"succeeded", "running"} => next = "chosen")
    OBVIOUS
  <2>2. AlignTypes
    OBVIOUS
  <2>. HIDE DEF AInv, DoRequest, CallPhases
  <2>3. \E c \in Callers :
             /\ call[c] = [phase |-> "request", of |-> k]
             /\ call' \in [Callers -> Calls]
             /\ next # "none" => call'[c] = [phase |-> next, of |-> k]
             /\ \A d \in Callers : d # c => call'[d] = call[d]
             /\ \A d \in Callers : call'[d].phase # "none" => call'[d].of \in Recipes
    BY <2>1, <2>2, AnsweredFacts
  <2>. QED
    BY <2>1, <2>3
<1>1. AlignTypes'
  <2>1. job' \in [Recipes -> States]
    BY <1>b DEF AlignTypes, AlignmentAssumption
  <2>2. line' \in Seq(Ops)
    BY <1>a
  <2>3. call' \in [Callers -> Calls] /\ \A d \in Callers : call'[d].phase # "none" => call'[d].of \in Recipes
    BY <1>c
  <2>. QED
    BY <2>1, <2>2, <2>3 DEF AlignTypes
<1>2. RunInv'
  BY DEF AlignTypes, RunInv
<1>3. LineInv'
  BY <1>a DEF LineInv, QueuedIsScheduled
<1>4. PublishInv'
  BY DEF AlignTypes, PublishInv, SucceededIsPublished, Op
<1>5. GateInv'
  BY DEF GateInv, WorkspaceJournaled
<1>6. QueuedIsScheduled'
  <2>. SUFFICES ASSUME NEW j \in Recipes, job'[j] = "queued" PROVE Scheduled(j)'
    BY DEF QueuedIsScheduled, Scheduled, InCall, InLine
  <2>1. InCall(j) => InCall(j)'
    BY <1>c, InCallKept
  <2>2. InLine(j) => InLine(j)'
    BY <1>a, InLineKept DEF First, Op
  <2>3. CASE j = k
    BY <1>c, <2>3 DEF Scheduled, InCall
  <2>4. CASE j # k
    <3>1. Scheduled(j)
      BY <2>4 DEF QueuedIsScheduled, Scheduled, InCall, InLine, AlignTypes
    <3>. QED
      BY <2>1, <2>2, <3>1 DEF Scheduled, IsPending
  <2>. QED
    BY <2>3, <2>4
<1>. QED
  BY <1>1, <1>2, <1>3, <1>4, <1>5, <1>6

LEMMA DoConfirmStep ==
    ASSUME AlignmentAssumption, AInv, NEW k \in Recipes, DoConfirm(k) PROVE AInv'
<1>. USE DEF AInv, DoConfirm, First, Reasons, ConfirmedAs, jobVars, serviceVars, workerVars, boundVars, cpuVars
<1>a. line # <<>> /\ Tail(line) \in Seq(Ops) /\ Head(line) = line[1] /\ line[1] \in Ops /\ 1 \in DOMAIN line
  BY TailFacts DEF AlignTypes, First
<1>b. PICK c \in Callers :
         /\ call[c] = [phase |-> "confirm", of |-> k] /\ call' \in [Callers -> Calls]
         /\ (job'[k] = "queued" /\ control[k] = "none" => call'[c] = [phase |-> "confirmed", of |-> k])
         /\ (\A d \in Callers : d # c => call'[d] = call[d])
         /\ \A d \in Callers : call'[d].phase # "none" => call'[d].of \in Recipes
  <2>1. PICK next \in CallPhases : Answered("confirm", k, next)
              /\ (job'[k] = "queued" /\ control[k] = "none" => next = "confirmed")
    BY DEF AlignTypes
  <2>2. AlignTypes
    OBVIOUS
  <2>. HIDE DEF AInv, DoConfirm, CallPhases
  <2>3. \E c \in Callers :
             /\ call[c] = [phase |-> "confirm", of |-> k]
             /\ call' \in [Callers -> Calls]
             /\ next # "none" => call'[c] = [phase |-> next, of |-> k]
             /\ \A d \in Callers : d # c => call'[d] = call[d]
             /\ \A d \in Callers : call'[d].phase # "none" => call'[d].of \in Recipes
    BY <2>1, <2>2, AnsweredFacts
  <2>. QED
    BY <2>1, <2>3
<1>1. AlignTypes'
  <2>1. line' \in Seq(Ops)
    BY <1>a
  <2>2. call' \in [Callers -> Calls] /\ \A d \in Callers : call'[d].phase # "none" => call'[d].of \in Recipes
    BY <1>b
  <2>. QED
    BY <2>1, <2>2 DEF AlignTypes
<1>2. RunInv'
  BY DEF AlignTypes, RunInv
<1>3. LineInv'
  BY <1>a DEF LineInv
<1>4. PublishInv'
  BY DEF AlignTypes, PublishInv, SucceededIsPublished, Op
<1>5. GateInv'
  BY DEF GateInv, WorkspaceJournaled
<1>6. QueuedIsScheduled'
  <2>. SUFFICES ASSUME NEW j \in Recipes, job'[j] = "queued" PROVE Scheduled(j)'
    BY DEF QueuedIsScheduled, Scheduled, InCall, InLine
  <2>1. InCall(j) /\ j # k => InCall(j)'
    BY <1>b, InCallKept
  <2>2. InLine(j) => InLine(j)'
    BY <1>a, InLineKept DEF First, Op
  <2>3. CASE j = k
    BY <1>b, <2>3 DEF Scheduled, InCall, RunInv
  <2>4. CASE j # k
    <3>1. Scheduled(j)
      BY <2>4 DEF QueuedIsScheduled, Scheduled, InCall, InLine, AlignTypes
    <3>. QED
      BY <2>1, <2>2, <2>4, <3>1 DEF Scheduled, IsPending
  <2>. QED
    BY <2>3, <2>4
<1>. QED
  BY <1>1, <1>2, <1>3, <1>4, <1>5, <1>6

LEMMA DoCancelStep ==
    ASSUME AlignmentAssumption, AInv, NEW k \in Recipes, DoCancel(k) PROVE AInv'
<1>. USE DEF AInv, DoCancel, First, Aborted, jobVars, serviceVars, workerVars, boundVars, cpuVars
<1>a. line # <<>> /\ Tail(line) \in Seq(Ops) /\ Head(line) = line[1] /\ line[1] \in Ops /\ 1 \in DOMAIN line
  BY TailFacts DEF AlignTypes, First
<1>b. PICK c \in Callers :
         /\ call[c] = [phase |-> "cancel", of |-> k] /\ call' \in [Callers -> Calls]
         /\ (\A d \in Callers : d # c => call'[d] = call[d])
         /\ \A d \in Callers : call'[d].phase # "none" => call'[d].of \in Recipes
  <2>1. Answered("cancel", k, "none") /\ "none" \in CallPhases
    OBVIOUS
  <2>2. AlignTypes
    OBVIOUS
  <2>. HIDE DEF AInv, DoCancel, CallPhases
  <2>3. \E c \in Callers :
             /\ call[c] = [phase |-> "cancel", of |-> k]
             /\ call' \in [Callers -> Calls]
             /\ "none" # "none" => call'[c] = [phase |-> "none", of |-> k]
             /\ \A d \in Callers : d # c => call'[d] = call[d]
             /\ \A d \in Callers : call'[d].phase # "none" => call'[d].of \in Recipes
    BY ZenonT(30), <2>1, <2>2, AnsweredFacts
  <2>. QED
    BY <2>1, <2>3
<1>1. AlignTypes'
  BY <1>a, <1>b DEF AlignTypes
<1>2. RunInv'
  BY DEF AlignTypes, RunInv
<1>3. LineInv'
  BY SMTT(30) DEF RunInv, LineInv
<1>4. PublishInv'
  BY DEF AlignTypes, PublishInv, SucceededIsPublished, Op
<1>5. GateInv'
  BY DEF GateInv, WorkspaceJournaled
<1>6. QueuedIsScheduled'
  <2>. SUFFICES ASSUME NEW j \in Recipes, job'[j] = "queued" PROVE Scheduled(j)'
    BY DEF QueuedIsScheduled, Scheduled, InCall, InLine
  <2>1. j # k /\ job[j] = "queued"
    BY DEF AlignTypes
  <2>2. InCall(j) => InCall(j)'
    BY <1>b, InCallKept
  <2>3. InLine(j) => InLine(j)'
    BY <1>a, <2>1, InLineKept DEF First, Op
  <2>4. Scheduled(j)
    BY <2>1 DEF QueuedIsScheduled, Scheduled, InCall, InLine
  <2>. QED
    BY <2>2, <2>3, <2>4 DEF Scheduled, IsPending
<1>. QED
  BY <1>1, <1>2, <1>3, <1>4, <1>5, <1>6

LEMMA DoInterruptStep ==
    ASSUME AlignmentAssumption, AInv, DoInterrupt PROVE AInv'
<1>. USE DEF AInv, DoInterrupt, First, Aborted, InterruptedAs,
            jobVars, serviceVars, workerVars, boundVars, cpuVars
<1>a. line # <<>> /\ Tail(line) \in Seq(Ops) /\ Head(line) = line[1] /\ line[1] \in Ops /\ 1 \in DOMAIN line
  BY TailFacts DEF AlignTypes, First
<1>1. AlignTypes'
  BY DEF AlignTypes
<1>2. RunInv'
  BY DEF AlignTypes, RunInv
<1>3. LineInv'
  BY <1>a DEF LineInv
<1>4. PublishInv'
  BY DEF PublishInv, SucceededIsPublished, Op
<1>5. GateInv'
  BY DEF GateInv, WorkspaceJournaled
<1>6. QueuedIsScheduled'
  BY DEF QueuedIsScheduled
<1>. QED
  BY <1>1, <1>2, <1>3, <1>4, <1>5, <1>6

LEMMA DoRunStep ==
    ASSUME AlignmentAssumption, AInv, NEW k \in Recipes, DoRun(k) PROVE AInv'
<1>. USE DEF AInv, DoRun, First, Reasons, jobVars, serviceVars, workerVars, boundVars, cpuVars
<1>a. line # <<>> /\ Tail(line) \in Seq(Ops) /\ Head(line) = line[1] /\ line[1] \in Ops /\ 1 \in DOMAIN line
  BY TailFacts DEF AlignTypes, First
<1>b. line[1] = Op("run", k) /\ line[1].kind = "run" /\ line[1].of = k
  BY DEF First, Op
<1>1. AlignTypes'
  BY <1>a, SMTT(60) DEF AlignTypes
<1>2. RunInv'
  BY <1>b DEF AlignTypes, RunInv, LineInv, WaitsFor
<1>3. LineInv'
  BY SMTT(30), <1>b DEF LineInv
<1>4. PublishInv'
  BY DEF AlignTypes, PublishInv, SucceededIsPublished, Op
<1>5. GateInv'
  BY <1>a, <1>b DEF LineInv, GateInv, WaitsFor, WorkspaceJournaled
<1>6. QueuedIsScheduled'
  <2>. SUFFICES ASSUME NEW j \in Recipes, job'[j] = "queued" PROVE Scheduled(j)'
    BY DEF QueuedIsScheduled, Scheduled, InCall, InLine
  <2>1. InLine(j) => InLine(j)'
    BY <1>a, <1>b, InLineKept
  <2>2. CASE j = k
    BY <1>b, <2>2 DEF Scheduled, LineInv
  <2>3. CASE j # k
    <3>1. Scheduled(j)
      BY <2>3 DEF QueuedIsScheduled, Scheduled, InCall, InLine, AlignTypes
    <3>. QED
      BY <2>1, <3>1 DEF Scheduled, IsPending, InCall
  <2>. QED
    BY <2>2, <2>3
<1>. QED
  BY <1>1, <1>2, <1>3, <1>4, <1>5, <1>6

LEMMA EnterGateStep ==
    ASSUME AlignmentAssumption, AInv, NEW k \in Recipes, EnterGate(k) PROVE AInv'
<1>. USE DEF AInv, EnterGate, Fail, ToTeardown, Enter, Leave, LeaveUnclean, Abandon, Refused, Waits,
            jobVars, serviceVars, workerVars, boundVars, cpuVars
<1>1. AlignTypes'
  BY DEF AlignTypes
<1>2. RunInv'
  BY DEF RunInv
<1>3. LineInv'
  BY DEF LineInv, WaitsFor
<1>4. PublishInv'
  BY DEF PublishInv, SucceededIsPublished
<1>5. GateInv'
  BY DEF GateInv, WorkspaceJournaled
<1>6. QueuedIsScheduled'
  BY DEF QueuedIsScheduled, IsPending
<1>. QED
  BY <1>1, <1>2, <1>3, <1>4, <1>5, <1>6

LEMMA LeaveQueueStep ==
    ASSUME AlignmentAssumption, AInv, NEW k \in Recipes, LeaveQueue(k) PROVE AInv'
<1>. USE DEF AInv, LeaveQueue, Fail, ToTeardown, Enter, Leave, LeaveUnclean, Abandon, Refused, Waits,
            jobVars, serviceVars, workerVars, boundVars, cpuVars
<1>1. AlignTypes'
  BY DEF AlignTypes
<1>2. RunInv'
  BY DEF RunInv
<1>3. LineInv'
  BY DEF LineInv, WaitsFor
<1>4. PublishInv'
  BY DEF PublishInv, SucceededIsPublished
<1>5. GateInv'
  BY DEF GateInv, WorkspaceJournaled
<1>6. QueuedIsScheduled'
  BY DEF QueuedIsScheduled, IsPending
<1>. QED
  BY <1>1, <1>2, <1>3, <1>4, <1>5, <1>6

LEMMA VerifyStep ==
    ASSUME AlignmentAssumption, AInv, NEW k \in Recipes, Verify(k) PROVE AInv'
<1>. USE DEF AInv, Verify, Fail, ToTeardown, Enter, Leave, LeaveUnclean, Abandon, Refused, Waits,
            jobVars, serviceVars, workerVars, boundVars, cpuVars
<1>1. AlignTypes'
  BY DEF AlignTypes
<1>2. RunInv'
  BY DEF RunInv
<1>3. LineInv'
  BY DEF LineInv, WaitsFor
<1>4. PublishInv'
  BY DEF PublishInv, SucceededIsPublished
<1>5. GateInv'
  BY DEF GateInv, WorkspaceJournaled
<1>6. QueuedIsScheduled'
  BY DEF QueuedIsScheduled, IsPending
<1>. QED
  BY <1>1, <1>2, <1>3, <1>4, <1>5, <1>6

LEMMA PrepareStep ==
    ASSUME AlignmentAssumption, AInv, NEW k \in Recipes, Prepare(k) PROVE AInv'
<1>. USE DEF AInv, Prepare, Fail, ToTeardown, Enter, Leave, LeaveUnclean, Abandon, Refused, Waits,
            jobVars, serviceVars, workerVars, boundVars, cpuVars
<1>1. AlignTypes'
  BY DEF AlignTypes
<1>2. RunInv'
  BY DEF RunInv
<1>3. LineInv'
  BY DEF LineInv, WaitsFor
<1>4. PublishInv'
  BY DEF PublishInv, SucceededIsPublished
<1>5. GateInv'
  BY DEF GateInv, WorkspaceJournaled
<1>6. QueuedIsScheduled'
  BY DEF QueuedIsScheduled, IsPending
<1>. QED
  BY <1>1, <1>2, <1>3, <1>4, <1>5, <1>6

LEMMA LaunchWorkerStep ==
    ASSUME AlignmentAssumption, AInv, NEW k \in Recipes, LaunchWorker(k) PROVE AInv'
<1>. USE DEF AInv, LaunchWorker, Fail, ToTeardown, Enter, Leave, LeaveUnclean, Abandon, Refused, Waits,
            jobVars, serviceVars, workerVars, boundVars, cpuVars
<1>1. AlignTypes'
  BY DEF AlignTypes
<1>2. RunInv'
  BY DEF RunInv
<1>3. LineInv'
  BY DEF LineInv, WaitsFor
<1>4. PublishInv'
  BY DEF PublishInv, SucceededIsPublished
<1>5. GateInv'
  BY DEF GateInv, WorkspaceJournaled, AlignmentAssumption
<1>6. QueuedIsScheduled'
  BY DEF QueuedIsScheduled, IsPending
<1>. QED
  BY <1>1, <1>2, <1>3, <1>4, <1>5, <1>6

LEMMA SessionStep ==
    ASSUME AlignmentAssumption, AInv, NEW k \in Recipes, Session(k) PROVE AInv'
<1>. USE DEF AInv, Session, Fail, ToTeardown, Enter, Leave, LeaveUnclean, Abandon, Refused, Waits,
            jobVars, serviceVars, workerVars, boundVars, cpuVars
<1>1. AlignTypes'
  BY DEF AlignTypes
<1>2. RunInv'
  BY DEF RunInv
<1>3. LineInv'
  BY DEF LineInv, WaitsFor
<1>4. PublishInv'
  BY DEF PublishInv, SucceededIsPublished
<1>5. GateInv'
  BY DEF GateInv, WorkspaceJournaled
<1>6. QueuedIsScheduled'
  BY DEF QueuedIsScheduled, IsPending
<1>. QED
  BY <1>1, <1>2, <1>3, <1>4, <1>5, <1>6

LEMMA TeardownStep ==
    ASSUME AlignmentAssumption, AInv, NEW k \in Recipes, Teardown(k) PROVE AInv'
<1>. USE DEF AInv, Teardown, Fail, ToTeardown, Enter, Leave, LeaveUnclean, Abandon, Refused, Waits,
            jobVars, serviceVars, workerVars, boundVars, cpuVars
<1>1. AlignTypes'
  BY DEF AlignTypes
<1>2. RunInv'
  BY DEF RunInv
<1>3. LineInv'
  BY DEF LineInv, WaitsFor
<1>4. PublishInv'
  BY DEF PublishInv, SucceededIsPublished
<1>5. GateInv'
  BY DEF GateInv, WorkspaceJournaled
<1>6. QueuedIsScheduled'
  BY DEF QueuedIsScheduled, IsPending
<1>. QED
  BY <1>1, <1>2, <1>3, <1>4, <1>5, <1>6

LEMMA ValidateStep ==
    ASSUME AlignmentAssumption, AInv, NEW k \in Recipes, Validate(k) PROVE AInv'
<1>. USE DEF AInv, Validate, Queue, Fail, jobVars, serviceVars, workerVars, boundVars, cpuVars
<1>a. Op("publish", k) \in Ops
  BY DEF Op, Ops
<1>b. line' = line \o <<Op("publish", k)>> =>
          /\ line' \in Seq(Ops) /\ line' # <<>> /\ DOMAIN line' = DOMAIN line \cup {Len(line) + 1}
          /\ Len(line) + 1 \notin DOMAIN line /\ \A i \in DOMAIN line : line'[i] = line[i]
          /\ line'[Len(line) + 1] = Op("publish", k) /\ (line # <<>> => 1 \in DOMAIN line)
  BY <1>a, AppendFacts DEF AlignTypes
<1>1. AlignTypes'
  BY <1>b DEF AlignTypes, Op
<1>2. RunInv'
  BY DEF RunInv
<1>3. LineInv'
  <2>1. \A i \in DOMAIN line' : line'[i].kind \in RunKinds =>
          line'[i].of = running' /\ phase' = WaitsFor(line'[i].kind)
    BY DEF LineInv, WaitsFor, Op
  <2>2. \A i, j \in DOMAIN line' : line'[i].kind \in RunKinds /\ line'[j].kind \in RunKinds => i = j
    BY DEF LineInv, WaitsFor
  <2>. QED
    BY <2>1, <2>2 DEF LineInv
<1>4. PublishInv'
  BY DEF PublishInv, SucceededIsPublished
<1>5. GateInv'
  BY DEF GateInv, WorkspaceJournaled
<1>6. QueuedIsScheduled'
  BY DEF QueuedIsScheduled, IsPending
<1>. QED
  BY <1>1, <1>2, <1>3, <1>4, <1>5, <1>6

LEMMA DoPublishStep ==
    ASSUME AlignmentAssumption, AInv, NEW k \in Recipes, DoPublish(k) PROVE AInv'
<1>. USE DEF AInv, DoPublish, First, Fail, jobVars, serviceVars, workerVars, boundVars, cpuVars
<1>a. line # <<>> /\ Tail(line) \in Seq(Ops) /\ Head(line) = line[1] /\ line[1] \in Ops /\ 1 \in DOMAIN line
  BY TailFacts DEF AlignTypes, First
<1>b. line[1] = Op("publish", k) /\ line[1].kind = "publish" /\ line[1].of = k
  BY DEF First, Op
<1>1. AlignTypes'
  <2>1. \A i \in DOMAIN line' : line'[i].kind # "interrupt" => line'[i].of \in Recipes
    <3>1. CASE line' = line
      BY <3>1 DEF AlignTypes
    <3>2. CASE line' = Tail(line)
      BY <3>2 DEF AlignTypes
    <3>. QED
      BY <3>1, <3>2
  <2>. QED
    BY <1>a, <2>1 DEF AlignTypes
<1>2. RunInv'
  BY <1>b DEF RunInv, LineInv, WaitsFor
<1>3. LineInv'
  <2>1. \A i \in DOMAIN line' : line'[i].kind \in RunKinds =>
          line'[i].of = running' /\ phase' = WaitsFor(line'[i].kind)
    <3>1. CASE line' = line /\ phase' = phase
      BY <3>1 DEF LineInv
    <3>2. CASE line' = Tail(line)
      BY <1>b, <3>2 DEF LineInv
    <3>. QED
      BY <3>1, <3>2
  <2>2. \A i, j \in DOMAIN line' : line'[i].kind \in RunKinds /\ line'[j].kind \in RunKinds => i = j
    <3>1. CASE line' = line
      BY <3>1 DEF LineInv
    <3>2. CASE line' = Tail(line)
      BY <3>2 DEF LineInv
    <3>. QED
      BY <3>1, <3>2
  <2>. QED
    BY <2>1, <2>2 DEF LineInv
<1>4. PublishInv'
  BY DEF RunInv, PublishInv, SucceededIsPublished
<1>5. GateInv'
  BY <1>a, <1>b DEF LineInv, GateInv, WaitsFor, WorkspaceJournaled
<1>6. QueuedIsScheduled'
  <2>. SUFFICES ASSUME NEW j \in Recipes, job'[j] = "queued" PROVE Scheduled(j)'
    BY DEF QueuedIsScheduled, Scheduled, InCall, InLine
  <2>1. InLine(j) => InLine(j)'
    BY <1>a, <1>b, InLineKept DEF InLine
  <2>2. CASE j = k
    BY <1>a, <1>b, <2>2 DEF Scheduled, LineInv
  <2>3. CASE j # k
    <3>1. Scheduled(j)
      BY <2>3 DEF QueuedIsScheduled, Scheduled, InCall, InLine
    <3>. QED
      BY <2>1, <3>1 DEF Scheduled, IsPending, InCall
  <2>. QED
    BY <2>2, <2>3
<1>. QED
  BY <1>1, <1>2, <1>3, <1>4, <1>5, <1>6

LEMMA DoCompleteStep ==
    ASSUME AlignmentAssumption, AInv, NEW k \in Recipes, DoComplete(k) PROVE AInv'
<1>. USE DEF AInv, DoComplete, First, jobVars, serviceVars, workerVars, boundVars, cpuVars
<1>a. line # <<>> /\ Tail(line) \in Seq(Ops) /\ Head(line) = line[1] /\ line[1] \in Ops /\ 1 \in DOMAIN line
  BY TailFacts DEF AlignTypes, First
<1>b. line[1] = Op("publish", k) /\ line[1].kind = "publish" /\ line[1].of = k
  BY DEF First, Op
<1>1. AlignTypes'
  <2>1. line' \in Seq(Ops)
    BY <1>a
  <2>2. publishing' \in BOOLEAN
    BY <1>a
  <2>3. phase' \in Phases
    BY <1>a
  <2>. QED
    BY <2>1, <2>2, <2>3 DEF AlignTypes
<1>2. RunInv'
  BY <1>b DEF AlignTypes, RunInv, LineInv, AlignmentAssumption
<1>3. LineInv'
  BY <1>a, <1>b DEF LineInv
<1>4. PublishInv'
  BY DEF PublishInv, SucceededIsPublished, Op
<1>5. GateInv'
  BY <1>a, <1>b DEF LineInv, GateInv, WaitsFor, WorkspaceJournaled
<1>6. QueuedIsScheduled'
  <2>. SUFFICES ASSUME NEW j \in Recipes, job'[j] = "queued" PROVE Scheduled(j)'
    BY DEF QueuedIsScheduled, Scheduled, InCall, InLine
  <2>1. InLine(j) => InLine(j)'
    BY <1>a, <1>b, InLineKept
  <2>2. CASE j = k
    BY <2>2 DEF AlignTypes
  <2>3. CASE j # k
    <3>1. Scheduled(j)
      BY <2>3 DEF QueuedIsScheduled, Scheduled, InCall, InLine
    <3>. QED
      BY <2>1, <3>1 DEF Scheduled, IsPending, InCall
  <2>. QED
    BY <2>2, <2>3
<1>. QED
  BY <1>1, <1>2, <1>3, <1>4, <1>5, <1>6

LEMMA SettleStep ==
    ASSUME AlignmentAssumption, AInv, NEW k \in Recipes, Settle(k) PROVE AInv'
<1>. USE DEF AInv, Settle, Queue, jobVars, serviceVars, workerVars, boundVars, cpuVars
<1>a. Op("fail", k) \in Ops
  BY DEF Op, Ops
<1>1. AlignTypes'
  BY <1>a DEF AlignTypes, Op
<1>2. RunInv'
  BY DEF RunInv
<1>3. LineInv'
  BY DEF LineInv, WaitsFor, Op
<1>4. PublishInv'
  BY DEF PublishInv, SucceededIsPublished
<1>5. GateInv'
  BY DEF GateInv, WorkspaceJournaled
<1>6. QueuedIsScheduled'
  BY DEF QueuedIsScheduled, IsPending
<1>. QED
  BY <1>1, <1>2, <1>3, <1>4, <1>5, <1>6

LEMMA DoFailStep ==
    ASSUME AlignmentAssumption, AInv, NEW k \in Recipes, DoFail(k) PROVE AInv'
<1>. USE DEF AInv, DoFail, First, OpensCircuit, Counted, jobVars, serviceVars, workerVars, boundVars, cpuVars
<1>a. line # <<>> /\ Tail(line) \in Seq(Ops) /\ Head(line) = line[1] /\ line[1] \in Ops /\ 1 \in DOMAIN line
  BY TailFacts DEF AlignTypes, First
<1>b. line[1] = Op("fail", k) /\ line[1].kind = "fail" /\ line[1].of = k
  BY DEF First, Op
<1>c. /\ \A j \in Recipes : j # k => job'[j] = job[j]
      /\ job'[k] # "running" /\ (job'[k] = job[k] \/ job'[k] \in {"cancelled", "blocked", "retryable"})
  BY DEF AlignTypes
<1>d. running = k /\ phase = "settling"
  BY <1>b DEF LineInv, WaitsFor
<1>1. AlignTypes'
  BY <1>a, <1>d DEF AlignTypes
<1>2. RunInv'
  <2>1. RunInv /\ UNCHANGED <<control, running, unwritten>> /\ phase' = "ended"
    OBVIOUS
  <2>. HIDE DEF AInv, DoFail
  <2>. QED
    BY <1>c, <1>d, <2>1 DEF RunInv
<1>3. LineInv'
  BY <1>a, <1>b DEF LineInv
<1>4. PublishInv'
  <2>1. PublishInv /\ UNCHANGED <<publishing, results>>
    OBVIOUS
  <2>. HIDE DEF AInv, DoFail
  <2>. QED
    BY <1>b, <1>c, <2>1 DEF PublishInv, SucceededIsPublished, Op
<1>5. GateInv'
  BY <1>d DEF GateInv, WorkspaceJournaled
<1>6. QueuedIsScheduled'
  <2>. SUFFICES ASSUME NEW j \in Recipes, job'[j] = "queued" PROVE Scheduled(j)'
    BY DEF QueuedIsScheduled, Scheduled, InCall, InLine
  <2>1. InLine(j) => InLine(j)'
    BY <1>b, InLineKept
  <2>2. CASE j = k
    BY SMTT(30), <1>b, <2>2 DEF Scheduled, LineInv
  <2>3. CASE j # k
    <3>1. Scheduled(j)
      BY <2>3 DEF QueuedIsScheduled, Scheduled, InCall, InLine, AlignTypes
    <3>. QED
      BY <2>1, <3>1 DEF Scheduled, IsPending, InCall
  <2>. QED
    BY <2>2, <2>3
<1>. QED
  BY <1>1, <1>2, <1>3, <1>4, <1>5, <1>6

LEMMA EndRunStep ==
    ASSUME AlignmentAssumption, AInv, NEW k \in Recipes, EndRun(k) PROVE AInv'
<1>. USE DEF AInv, EndRun, Queue, jobVars, serviceVars, workerVars, boundVars, cpuVars
<1>a. Starts(pending) \/ (pending' = pending /\ running' = NoRecipe /\ phase' = "none" /\ line' = line)
  BY DEF Starts
<1>b. pending \in Seq(Recipes)
  BY DEF AlignTypes
<1>c. \A i \in DOMAIN line : line[i].kind \notin RunKinds
  BY DEF LineInv, WaitsFor
<1>1. AlignTypes'
  <2>1. line' \in Seq(Ops)
    <3>1. CASE Starts(pending)
      BY <1>b, <3>1, StartsFacts
    <3>2. CASE pending' = pending /\ running' = NoRecipe /\ phase' = "none" /\ line' = line
      BY <3>2 DEF AlignTypes
    <3>. QED
      BY <1>a, <3>1, <3>2
  <2>2. pending' \in Seq(Recipes)
    <3>1. CASE Starts(pending)
      BY <1>b, <3>1, StartsFacts
    <3>2. CASE pending' = pending /\ running' = NoRecipe /\ phase' = "none" /\ line' = line
      BY <3>2 DEF AlignTypes
    <3>. QED
      BY <1>a, <3>1, <3>2
  <2>3. running' \in Recipes \cup {NoRecipe}
    <3>1. CASE Starts(pending)
      BY <1>b, <3>1, StartsFacts
    <3>2. CASE pending' = pending /\ running' = NoRecipe /\ phase' = "none" /\ line' = line
      BY <3>2
    <3>. QED
      BY <1>a, <3>1, <3>2
  <2>4. \A i \in DOMAIN line' : line'[i].kind # "interrupt" => line'[i].of \in Recipes
    <3>1. CASE Starts(pending)
      BY SMTT(30), <3>1, StartsFacts DEF AlignTypes, Op
    <3>2. CASE pending' = pending /\ running' = NoRecipe /\ phase' = "none" /\ line' = line
      BY <3>2 DEF AlignTypes
    <3>. QED
      BY <1>a, <3>1, <3>2
  <2>5. phase' \in Phases
    <3>1. CASE Starts(pending)
      BY <3>1, StartsFacts
    <3>2. CASE pending' = pending /\ running' = NoRecipe /\ phase' = "none" /\ line' = line
      BY <3>2
    <3>. QED
      BY <3>1, <3>2
  <2>. QED
    BY <1>a, <2>1, <2>2, <2>3, <2>4, <2>5 DEF AlignTypes
<1>2. RunInv'
  BY DEF AlignTypes, RunInv, AlignmentAssumption
<1>3. LineInv'
  <2>1. \A i \in DOMAIN line' : line'[i].kind \in RunKinds =>
          line'[i].of = running' /\ phase' = WaitsFor(line'[i].kind)
    <3>1. CASE Starts(pending)
      BY SMTT(30), <1>c, <3>1, StartsFacts DEF WaitsFor, Op
    <3>2. CASE pending' = pending /\ running' = NoRecipe /\ phase' = "none" /\ line' = line
      BY <1>c, <3>2
    <3>. QED
      BY <1>a, <3>1, <3>2
  <2>2. \A i, j \in DOMAIN line' : line'[i].kind \in RunKinds /\ line'[j].kind \in RunKinds => i = j
    <3>1. CASE Starts(pending)
      BY <1>b, <1>c, <3>1, StartsFacts
    <3>2. CASE pending' = pending /\ running' = NoRecipe /\ phase' = "none" /\ line' = line
      BY <1>c, <3>2
    <3>. QED
      BY <1>a, <3>1, <3>2
  <2>. QED
    BY <2>1, <2>2 DEF LineInv
<1>4. PublishInv'
  BY <1>c DEF AlignTypes, PublishInv, SucceededIsPublished, Op
<1>5. GateInv'
  BY DEF GateInv, WorkspaceJournaled
<1>6. QueuedIsScheduled'
  <2>. SUFFICES ASSUME NEW j \in Recipes, job'[j] = "queued" PROVE Scheduled(j)'
    BY DEF QueuedIsScheduled, Scheduled, InCall, InLine
  <2>1. Scheduled(j)
    BY DEF QueuedIsScheduled, Scheduled, InCall, InLine
  <2>2. running = j => unwritten'
    BY DEF RunInv
  <2>3. CASE Starts(pending)
    <3>1. InLine(j) => InLine(j)'
      BY <1>b, <2>3, StartsFacts, InLineGrows
    <3>2. IsPending(j) => (running' = j \/ IsPending(j)')
      BY <1>b, <2>3, StartsFacts DEF IsPending
    <3>. QED
      BY <2>1, <2>2, <3>1, <3>2 DEF Scheduled, InCall
  <2>4. CASE pending' = pending /\ running' = NoRecipe /\ phase' = "none" /\ line' = line
    BY <2>1, <2>2, <2>4 DEF Scheduled, IsPending, InCall, InLine
  <2>. QED
    BY <1>a, <2>3, <2>4
<1>. QED
  BY <1>1, <1>2, <1>3, <1>4, <1>5, <1>6

LEMMA FailWriteStep ==
    ASSUME AlignmentAssumption, AInv, FailWrite PROVE AInv'
<1>. USE DEF AInv, FailWrite, Aborted, Fail, jobVars, serviceVars, workerVars, boundVars, cpuVars
<1>a. line # <<>> /\ Tail(line) \in Seq(Ops) /\ Head(line) = line[1] /\ line[1] \in Ops /\ 1 \in DOMAIN line
  BY TailFacts DEF AlignTypes, First
<1>1. AlignTypes'
  <2>1. line' \in Seq(Ops)
    BY <1>a
  <2>2. publishing' \in BOOLEAN
    BY <1>a
  <2>3. call' \in [Callers -> Calls] /\ \A d \in Callers : call'[d].phase # "none" => call'[d].of \in Recipes
    <3>1. CASE UNCHANGED call
      BY <3>1 DEF AlignTypes
    <3>2. CASE Head(line).kind \in {"request", "confirm", "cancel"}
      <4>1. Answered(Head(line).kind, Head(line).of, "none") /\ "none" \in CallPhases
        BY <3>2
      <4>2. Head(line).of \in Recipes
        BY <3>2 DEF AlignTypes
      <4>. HIDE DEF CallPhases
      <4>. QED
        BY <4>1, <4>2, AnsweredFacts
    <3>. QED
      BY <3>1, <3>2
  <2>. QED
    BY <2>1, <2>2, <2>3 DEF AlignTypes
<1>2. RunInv'
  BY DEF AlignTypes, RunInv, LineInv, WaitsFor
<1>3. LineInv'
  BY <1>a DEF LineInv
<1>4. PublishInv'
  BY DEF PublishInv, SucceededIsPublished
<1>5. GateInv'
  BY DEF LineInv, GateInv, WaitsFor, WorkspaceJournaled
<1>6. QueuedIsScheduled'
  BY DEF QueuedIsScheduled
<1>. QED
  BY <1>1, <1>2, <1>3, <1>4, <1>5, <1>6

LEMMA RestartStep ==
    ASSUME AlignmentAssumption, AInv, Restart PROVE AInv'
<1>. USE DEF AInv, Restart, RecoveredAs, InterruptedAs,
            jobVars, serviceVars, workerVars, boundVars, cpuVars
<1>a. call' \in [Callers -> Calls] /\ \A d \in Callers : call'[d].phase # "none" => call'[d].of \in Recipes
  BY DEF Calls, NoCall
<1>1. AlignTypes'
  <2>1. control' \in [Recipes -> {"none", "live", "aborted"}]
    BY <1>a
  <2>2. circuit' \subseteq Recipes
    BY <1>a
  <2>3. line' \in Seq(Ops)
    BY <1>a
  <2>4. publishing' \in BOOLEAN
    BY <1>a
  <2>5. pending' \in Seq(Recipes)
    BY <1>a
  <2>6. running' \in Recipes \cup {NoRecipe}
    BY <1>a
  <2>7. call' \in [Callers -> Calls] /\ \A d \in Callers : call'[d].phase # "none" => call'[d].of \in Recipes
    BY <1>a
  <2>8. \A i \in DOMAIN line' : line'[i].kind # "interrupt" => line'[i].of \in Recipes
    BY <1>a
  <2>9. phase' \in Phases
    BY <1>a
  <2>10. failure' \in Failures
    BY <1>a
  <2>11. process' \in BOOLEAN /\ reaped' \in BOOLEAN /\ cpuBlocked' \in BOOLEAN /\ unwritten' \in BOOLEAN
    BY <1>a
  <2>. QED
    BY <2>1, <2>2, <2>3, <2>4, <2>5, <2>6, <2>7, <2>8, <2>9, <2>10, <2>11 DEF AlignTypes
<1>2. RunInv'
  BY DEF RunInv
<1>3. LineInv'
  BY DEF LineInv
<1>4. PublishInv'
  BY DEF PublishInv, SucceededIsPublished
<1>5. GateInv'
  BY DEF GateInv, WorkspaceJournaled
<1>6. QueuedIsScheduled'
  BY DEF QueuedIsScheduled
<1>. QED
  BY <1>1, <1>2, <1>3, <1>4, <1>5, <1>6

LEMMA AbandonFacts ==
    ASSUME NEW w, Abandon(w) PROVE UNCHANGED <<cpuActive, cpuBlocked>> /\ cpuWaiting # <<>>
<1>1. DOMAIN cpuWaiting # {}
  BY DEF Abandon
<1>2. DOMAIN <<>> = {}
  OBVIOUS
<1>. QED
  BY <1>1, <1>2 DEF Abandon

LEMMA OthersStep ==
    ASSUME AlignmentAssumption, AInv, Others PROVE AInv'
<1>. USE DEF AInv, Others, OtherEnters, OtherLeaves, Enter, Leave, LeaveUnclean, Refused, Waits,
            jobVars, serviceVars, workerVars, boundVars, cpuVars
<1>1. AlignTypes'
  BY AbandonFacts DEF AlignTypes
<1>2. RunInv'
  BY DEF RunInv
<1>3. LineInv'
  BY DEF LineInv
<1>4. PublishInv'
  BY DEF PublishInv, SucceededIsPublished
<1>5. GateInv'
  BY AbandonFacts DEF AlignTypes, RunInv, GateInv, WorkspaceJournaled, AlignmentAssumption
<1>6. QueuedIsScheduled'
  BY DEF QueuedIsScheduled, IsPending
<1>. QED
  BY <1>1, <1>2, <1>3, <1>4, <1>5, <1>6

LEMMA LaunchStep ==
    ASSUME AlignmentAssumption, AInv, NEW c \in Callers, Launch(c) PROVE AInv'
<1>. USE DEF AInv, Launch, Idles, Queues, Queue, jobVars, serviceVars, workerVars, boundVars, cpuVars
<1>a. PICK r \in Calls : (r.phase # "none" => r.of \in Recipes) /\ call' = [call EXCEPT ![c] = r]
  BY DEF Calls, NoCall
<1>b. call' \in [Callers -> Calls] /\ call'[c] = r /\ (\A d \in Callers : d # c => call'[d] = call[d])
      /\ \A d \in Callers : call'[d].phase # "none" => call'[d].of \in Recipes
  BY <1>a, CallFacts
<1>c. PICK p \in Seq(Recipes) : /\ p = Append(pending, call[c].of)
                                /\ \A j : IsPending(j) \/ j = call[c].of => \E m \in DOMAIN p : p[m] = j
  BY PendingGrows DEF AlignTypes
<1>d. \/ Idles(call[c].of)
      \/ Queues(p)
      \/ Starts(p) /\ running = NoRecipe
  BY <1>c DEF PumpWith, MayPump, Starts
<1>1. AlignTypes'
  <2>1. line' \in Seq(Ops)
    <3>1. CASE Idles(call[c].of)
      BY <3>1 DEF AlignTypes
    <3>2. CASE Queues(p)
      BY <3>2 DEF AlignTypes
    <3>3. CASE Starts(p) /\ running = NoRecipe
      BY <3>3, StartsFacts
    <3>. QED
      BY <1>d, <3>1, <3>2, <3>3
  <2>2. pending' \in Seq(Recipes)
    <3>1. CASE Idles(call[c].of)
      BY <3>1 DEF AlignTypes
    <3>2. CASE Queues(p)
      BY <3>2
    <3>3. CASE Starts(p) /\ running = NoRecipe
      BY <3>3, StartsFacts
    <3>. QED
      BY <1>d, <3>1, <3>2, <3>3
  <2>3. running' \in Recipes \cup {NoRecipe}
    <3>1. CASE Idles(call[c].of)
      BY <3>1 DEF AlignTypes
    <3>2. CASE Queues(p)
      BY <3>2 DEF AlignTypes
    <3>3. CASE Starts(p) /\ running = NoRecipe
      BY <3>3, StartsFacts
    <3>. QED
      BY <1>d, <3>1, <3>2, <3>3
  <2>4. \A i \in DOMAIN line' : line'[i].kind # "interrupt" => line'[i].of \in Recipes
    <3>1. CASE Idles(call[c].of)
      BY <3>1 DEF AlignTypes
    <3>2. CASE Queues(p)
      BY <3>2 DEF AlignTypes
    <3>3. CASE Starts(p) /\ running = NoRecipe
      BY SMTT(30), <3>3, StartsFacts DEF AlignTypes, Op
    <3>. QED
      BY <1>d, <3>1, <3>2, <3>3
  <2>5. phase' \in Phases
    <3>1. CASE Idles(call[c].of)
      BY <3>1 DEF AlignTypes
    <3>2. CASE Queues(p)
      BY <3>2 DEF AlignTypes
    <3>3. CASE Starts(p) /\ running = NoRecipe
      BY <3>3, StartsFacts
    <3>. QED
      BY <1>d, <3>1, <3>2, <3>3
  <2>. QED
    BY <1>b, <2>1, <2>2, <2>3, <2>4, <2>5 DEF AlignTypes
<1>2. RunInv'
  <2>1. CASE Idles(call[c].of)
    BY <2>1 DEF RunInv
  <2>2. CASE Queues(p)
    BY <2>2 DEF RunInv
  <2>3. CASE Starts(p) /\ running = NoRecipe
    BY <2>3, StartsFacts DEF RunInv
  <2>. QED
    BY <1>d, <2>1, <2>2, <2>3
<1>3. LineInv'
  <2>1. \A i \in DOMAIN line' : line'[i].kind \in RunKinds =>
          line'[i].of = running' /\ phase' = WaitsFor(line'[i].kind)
    <3>1. CASE Idles(call[c].of)
      BY <3>1 DEF LineInv
    <3>2. CASE Queues(p)
      BY <3>2 DEF LineInv
    <3>3. CASE Starts(p) /\ running = NoRecipe
      BY <3>3, StartsFacts DEF LineInv, WaitsFor, Op, RunInv
    <3>. QED
      BY <1>d, <3>1, <3>2, <3>3
  <2>2. \A i, j \in DOMAIN line' : line'[i].kind \in RunKinds /\ line'[j].kind \in RunKinds => i = j
    <3>1. CASE Idles(call[c].of)
      BY <3>1 DEF LineInv
    <3>2. CASE Queues(p)
      BY <3>2 DEF LineInv
    <3>3. CASE Starts(p) /\ running = NoRecipe
      BY <3>3, StartsFacts DEF LineInv, WaitsFor, RunInv
    <3>. QED
      BY <1>d, <3>1, <3>2, <3>3
  <2>. QED
    BY <2>1, <2>2 DEF LineInv
<1>4. PublishInv'
  <2>1. CASE Idles(call[c].of)
    BY <2>1 DEF PublishInv, SucceededIsPublished
  <2>2. CASE Queues(p)
    BY <2>2 DEF PublishInv, SucceededIsPublished
  <2>3. CASE Starts(p) /\ running = NoRecipe
    <3>1. publishing # TRUE
      <4>. SUFFICES ASSUME publishing = TRUE PROVE FALSE
        OBVIOUS
      <4>1. line # <<>> /\ line[1] = Op("publish", running) /\ 1 \in DOMAIN line
        BY <2>3, StartsFacts DEF PublishInv
      <4>2. phase = WaitsFor("publish")
        BY <4>1 DEF LineInv, Op
      <4>. QED
        BY <2>3, <4>2 DEF RunInv, WaitsFor
    <3>. QED
      BY <2>3, <3>1 DEF PublishInv, SucceededIsPublished
  <2>. QED
    BY <1>d, <2>1, <2>2, <2>3
<1>5. GateInv'
  <2>1. CASE Idles(call[c].of)
    BY <2>1 DEF GateInv, WorkspaceJournaled
  <2>2. CASE Queues(p)
    <3>1. GateInv /\ UNCHANGED <<cpuVars, process, reaped, marker, space>>
      BY <2>2
    <3>. HIDE DEF AInv, Launch
    <3>. QED
      BY <2>2, <3>1 DEF GateInv, WorkspaceJournaled
  <2>3. CASE Starts(p) /\ running = NoRecipe
    BY <2>3, StartsFacts DEF GateInv, WorkspaceJournaled, RunInv
  <2>. QED
    BY <1>d, <2>1, <2>2, <2>3
<1>6. QueuedIsScheduled'
  <2>. SUFFICES ASSUME NEW j \in Recipes, job'[j] = "queued" PROVE Scheduled(j)'
    BY DEF QueuedIsScheduled, Scheduled, InCall, InLine
  <2>1. Scheduled(j)
    BY DEF QueuedIsScheduled, Scheduled, InCall, InLine
  <2>2. call[c].of # j /\ InCall(j) => InCall(j)'
    BY InCallKept
  <2>3. CASE Idles(call[c].of)
    BY <2>1, <2>2, <2>3 DEF Scheduled, IsPending, InLine
  <2>4. CASE Queues(p)
    <3>1. IsPending(j) \/ call[c].of = j => IsPending(j)'
      BY <1>c, <2>4 DEF IsPending
    <3>. QED
      BY <2>1, <2>2, <2>4, <3>1 DEF Scheduled, InLine
  <2>5. CASE Starts(p) /\ running = NoRecipe
    <3>1. IsPending(j) \/ call[c].of = j => (running' = j \/ IsPending(j)')
      <4>. SUFFICES ASSUME IsPending(j) \/ call[c].of = j
                   PROVE  running' = j \/ \E m \in DOMAIN pending' : pending'[m] = j
        BY DEF IsPending
      <4>1. PICK m \in DOMAIN p : p[m] = j
        BY <1>c
      <4>. QED
        BY <2>5, <4>1, StartsFacts
    <3>2. InLine(j) => InLine(j)'
      BY <2>5, StartsFacts, InLineGrows
    <3>3. running # j
      BY <2>5 DEF AlignmentAssumption
    <3>. QED
      BY <2>1, <2>2, <3>1, <3>2, <3>3 DEF Scheduled
  <2>. QED
    BY <1>d, <2>3, <2>4, <2>5
<1>. QED
  BY <1>1, <1>2, <1>3, <1>4, <1>5, <1>6

(***************************************************************************)
(* The invariant, and what it means.                                       *)
(***************************************************************************)
LEMMA InitInv ==
    ASSUME AlignmentAssumption, Init PROVE AInv
<1>. USE DEF Init, CpuInit
<1>1. AlignTypes
  <2>1. call \in [Callers -> Calls] /\ \A c \in Callers : call[c].phase = "none"
    BY DEF Calls, NoCall
  <2>2. line \in Seq(Ops) /\ pending \in Seq(Recipes) /\ \A i \in DOMAIN line : line[i].of \in Recipes
    OBVIOUS
  <2>3. job \in [Recipes -> States] /\ control \in [Recipes -> {"none", "live", "aborted"}]
        /\ circuit \subseteq Recipes
    OBVIOUS
  <2>4. {process, reaped, cpuBlocked, unwritten} \subseteq BOOLEAN /\ publishing \in BOOLEAN
    OBVIOUS
  <2>5. phase \in Phases /\ failure \in Failures /\ running \in Recipes \cup {NoRecipe}
    OBVIOUS
  <2>. QED
    BY <2>1, <2>2, <2>3, <2>4, <2>5 DEF AlignTypes
<1>2. RunInv
  BY DEF RunInv
<1>3. LineInv
  BY DEF LineInv
<1>4. PublishInv
  BY DEF PublishInv, SucceededIsPublished
<1>5. GateInv
  BY DEF GateInv, WorkspaceJournaled
<1>6. QueuedIsScheduled
  BY DEF QueuedIsScheduled
<1>. QED
  BY <1>1, <1>2, <1>3, <1>4, <1>5, <1>6 DEF AInv

LEMMA NextInv ==
    ASSUME AlignmentAssumption, AInv, [Next]_vars PROVE AInv'
<1>1. ASSUME NEW c \in Callers, Renderer(c) PROVE AInv'
  BY <1>1, CallStep, AskForJobStep, AskToConfirmStep, LaunchStep, AskToCancelStep DEF Renderer
<1>2. ASSUME NEW k \in Recipes, Operation(k) PROVE AInv'
  BY <1>2, DoRequestStep, DoConfirmStep, DoCancelStep, DoRunStep, DoPublishStep, DoCompleteStep,
     DoFailStep
     DEF Operation
<1>3. ASSUME NEW k \in Recipes, Run(k) PROVE AInv'
  BY <1>3, EnterGateStep, LeaveQueueStep, VerifyStep, PrepareStep, LaunchWorkerStep, SessionStep,
     TeardownStep, ValidateStep, SettleStep, EndRunStep DEF Run
<1>4. CASE UNCHANGED vars
  <2>. USE <1>4 DEF vars, jobVars, serviceVars, workerVars, boundVars, cpuVars
  <2>1. AlignTypes'
    BY DEF AInv, AlignTypes
  <2>2. RunInv'
    BY DEF AInv, RunInv
  <2>3. LineInv'
    BY DEF AInv, LineInv, WaitsFor
  <2>4. PublishInv'
    BY DEF AInv, PublishInv, SucceededIsPublished
  <2>5. GateInv'
    BY DEF AInv, GateInv, WorkspaceJournaled
  <2>6. QueuedIsScheduled'
    BY DEF AInv, QueuedIsScheduled, IsPending
  <2>. QED
    BY <2>1, <2>2, <2>3, <2>4, <2>5, <2>6 DEF AInv
<1>. QED
  BY <1>1, <1>2, <1>3, <1>4, DoInterruptStep, FailWriteStep, SetSuspendedStep, DisposeStep,
     RestartStep,
     OthersStep
     DEF Next

\* The invariant of alignment: what the service, its tail of operations, its
\* run and the gate know of one another in every reachable state.
THEOREM AlignmentInvariant == ASSUME AlignmentAssumption PROVE Spec => []AInv
<1>1. Init => AInv
  BY InitInv
<1>2. AInv /\ [Next]_vars => AInv'
  BY NextInv
<1>. QED
  BY <1>1, <1>2, PTL DEF Spec

\* While a process of an alignment may live, no analysis and no acquisition
\* holds the gate of cpu-work.ts, however many Jobs and callers there are.
THEOREM ProcessStandsAlone == ASSUME AlignmentAssumption PROVE Spec => []NothingBesideProcess
<1>1. AInv => NothingBesideProcess
  BY DEF AInv, AlignTypes, RunInv, GateInv, NothingBesideProcess, AlignmentAssumption
<1>. QED
  BY <1>1, AlignmentInvariant, PTL

\* A Job recorded as succeeded has its alignment in the Project, a queued Job
\* is always scheduled or about to be interrupted, and every workspace has
\* its durable marker: alignment-jobs.ts and alignment-service.ts together.
THEOREM AlignmentTellsTheTruth == ASSUME AlignmentAssumption PROVE Spec => []AlignmentKeepsWord
<1>1. AInv => AlignmentKeepsWord
  BY DEF AInv, PublishInv, GateInv, AlignmentKeepsWord
<1>. QED
  BY <1>1, AlignmentInvariant, PTL

\* Only an operation that finds its Job running and its controller live adds
\* an alignment to the Project: what was cancelled or interrupted stays out.
THEOREM LateRunStaysOut == Spec => NoLateAlignment
<1>. DEFINE Timely == \A k \in results' \ results : job[k] = "running" /\ control[k] = "live"
<1>. USE DEF jobVars, serviceVars, workerVars, boundVars, cpuVars
<1>1. ASSUME NEW c \in Callers, Renderer(c) PROVE Timely
  BY <1>1 DEF Renderer, Call, AskForJob, AskToConfirm, Launch, AskToCancel
<1>2. ASSUME NEW k \in Recipes, Operation(k) PROVE Timely
  BY <1>2 DEF Operation, DoRequest, DoConfirm, DoCancel, DoRun, DoPublish, DoComplete, DoFail
<1>3. ASSUME NEW k \in Recipes, Run(k) PROVE Timely
  BY <1>3 DEF Run, EnterGate, LeaveQueue, Verify, Prepare, LaunchWorker, Session, Teardown,
     Validate,
     Settle, EndRun
<1>4. ASSUME DoInterrupt \/ FailWrite \/ SetSuspended \/ Dispose \/ Restart \/ Others \/ UNCHANGED vars
      PROVE  Timely
  BY <1>4 DEF DoInterrupt, FailWrite, SetSuspended, Dispose, Restart, Others, vars
<1>5. [Next]_vars => Timely
  BY <1>1, <1>2, <1>3, <1>4 DEF Next
<1>. QED
  BY <1>5, PTL DEF Spec, NoLateAlignment

HIDE DEF Kinds, CallPhases, Inside, Phases, RunKinds, States, Failures

-----------------------------------------------------------------------------
(***************************************************************************)
(* The session with the analysis sidecar, to any number of frames: what is *)
(* in the pipe counts from what the client expects to what the sidecar sends *)
(* next, so no crossing of a result, a heartbeat and a cancellation is taken *)
(* for a violation.                                                        *)
(***************************************************************************)
FrameTypes == {"handshake", "heartbeat", "result", "error", "cancel_ack", "cleanup_complete"}
Frames == [type : FrameTypes, sequence : Nat]
FarEvents == [kind : {"cancel", "result", "failed", "decodeCancelled"}, at : Nat]

SidecarTypes ==
    /\ host \in {"idle", "launching", "running", "acking", "cleaning", "stopping", "stopped"}
    /\ far \in {"none", "start", "serving", "done", "error"}
    /\ outcome \in Outcomes /\ farProcess \in {"none", "live", "dead"}
    /\ lifecycle \in {"none", "timeout", "disposed"} /\ deaths \in Nat
    /\ {entered, disposed, cancelled, accepted, start, told, acknowledged, finished, decoding,
        artifact, farCleaned} \subseteq BOOLEAN
    /\ expected \in Nat /\ sequence \in Nat
    /\ inbox \in Seq(Frames) /\ farControl \in Seq(Nat) /\ farEvents \in Seq(FarEvents)

\* A process that is not known to be dead is that of a session under way, or
\* of one whose outcome says so.
ProcessInv ==
    /\ entered = TRUE <=> host # "idle"
    /\ host = "launching" => farProcess = "none"
    /\ host \in {"stopped", "idle"} /\ farProcess = "live" => outcome = "cleanup_failure"

\* The frames s count from e to n, and the handshake is the first of all.
Counts(s, e, n) ==
    /\ e + Len(s) = n
    /\ \A i \in DOMAIN s : /\ s[i].sequence = e + i - 1
                           /\ s[i].type = "handshake" <=> s[i].sequence = 0

Elements(s) == {s[i] : i \in DOMAIN s}

\* The two ends count alike.
InboxInv ==
    /\ Counts(inbox, expected, sequence)
    /\ far \in {"none", "start"} => sequence = 0
    /\ far \in {"serving", "done", "error"} => sequence > 0
    /\ accepted = TRUE <=> expected > 0
    /\ outcome # "protocol_violation"

\* Nothing of a cancellation exists before the client announces it; one that
\* was announced before the handshake was read carries no sequence.
CancelInv ==
    /\ host \in {"launching", "running"} =>
         farControl = <<>> /\ told = FALSE /\ acknowledged = FALSE /\ far # "error"
    /\ host = "launching" => far = "none"
    /\ told = FALSE => acknowledged = FALSE /\ \A e \in Elements(farEvents) : e.kind # "cancel"
    /\ acknowledged = FALSE => \A m \in Elements(inbox) : m.type \notin {"cancel_ack", "cleanup_complete"}
    /\ \A at \in Elements(farControl) : at <= sequence /\ (at = 0 => accepted = FALSE)
    /\ \A e \in Elements(farEvents) : e.kind = "cancel" => e.at <= sequence /\ (e.at = 0 => accepted = FALSE)
    /\ far = "error" => accepted = FALSE

\* A result that was decoded, sent or handed out has its artifact, and a clean-up
\* that was sent or confirmed has none.
ArtifactInv ==
    /\ far \in {"none", "start"} => Elements(farEvents) = {}
    /\ far = "serving" => \A e \in Elements(farEvents) : e.kind = "result" => artifact = TRUE
    /\ \A m \in Elements(inbox) :
         /\ m.type = "result" => far = "done" /\ artifact = TRUE
         /\ m.type = "cleanup_complete" => far = "done" /\ artifact = FALSE
    /\ outcome = "result" => far = "done" /\ artifact = TRUE
    /\ farCleaned = TRUE => far = "done" /\ artifact = FALSE

SidecarInv == SidecarTypes /\ ProcessInv /\ InboxInv /\ CancelInv /\ ArtifactInv


USE DEF Outcomes, Cooperative, HostAborted, HostAbortError, Serving,
    hostVars, pipeVars, farVars, sidecarBounds, sidecarVars


LEMMA FrameFacts ==
    ASSUME NEW t \in FrameTypes, NEW n \in Nat
    PROVE  Frame(t, n) \in Frames /\ Frame(t, n).type = t /\ Frame(t, n).sequence = n
  BY DEF Frame, Frames

LEMMA CountsAppend ==
    ASSUME NEW s \in Seq(Frames), NEW e \in Nat, NEW n \in Nat, Counts(s, e, n),
           NEW t \in FrameTypes, t = "handshake" <=> n = 0
    PROVE  Counts(Append(s, Frame(t, n)), e, n + 1) /\ Append(s, Frame(t, n)) \in Seq(Frames)
<1>. DEFINE a == Append(s, Frame(t, n))
<1>1. Frame(t, n) \in Frames /\ Frame(t, n).type = t /\ Frame(t, n).sequence = n
  BY FrameFacts
<1>2. a \in Seq(Frames) /\ Len(a) = Len(s) + 1 /\ Len(s) \in Nat /\ DOMAIN s = 1 .. Len(s)
  BY <1>1
<1>3. DOMAIN a = 1 .. Len(s) + 1
  BY <1>2
<1>4. \A i \in DOMAIN s : a[i] = s[i]
  BY <1>1, <1>2
<1>5. a[Len(s) + 1] = Frame(t, n)
  BY <1>1, <1>2
<1>6. e + Len(a) = n + 1
  BY <1>2 DEF Counts
<1>7. ASSUME NEW i \in DOMAIN a PROVE a[i].sequence = e + i - 1 /\ (a[i].type = "handshake" <=> a[i].sequence = 0)
  <2>1. CASE i \in DOMAIN s
    BY <2>1, <1>4 DEF Counts
  <2>2. CASE i = Len(s) + 1
    <3>1. a[i] = Frame(t, n) /\ e + i - 1 = n
      BY <2>2, <1>2, <1>5 DEF Counts
    <3>. QED
      BY <3>1, <1>1
  <2>. QED
    BY <2>1, <2>2, <1>2, <1>3
<1>. QED
  BY <1>2, <1>6, <1>7 DEF Counts

LEMMA CountsTail ==
    ASSUME NEW s \in Seq(Frames), s # <<>>, NEW e \in Nat, NEW n \in Nat, Counts(s, e, n)
    PROVE  Counts(Tail(s), e + 1, n) /\ Head(s).sequence = e /\ (Head(s).type = "handshake" <=> e = 0)
<1>1. Len(s) \in Nat /\ Len(s) > 0 /\ DOMAIN s = 1 .. Len(s) /\ Head(s) = s[1]
  OBVIOUS
<1>2. Len(Tail(s)) = Len(s) - 1 /\ DOMAIN Tail(s) = 1 .. Len(s) - 1
  BY <1>1
<1>3. ASSUME NEW i \in DOMAIN Tail(s) PROVE i + 1 \in DOMAIN s /\ Tail(s)[i] = s[i + 1] /\ i \in Nat
  BY <1>1, <1>2
<1>4. e + 1 + Len(Tail(s)) = n
  <2>1. e + Len(s) = n
    BY DEF Counts
  <2>. HIDE DEF Counts
  <2>. QED
    BY <1>1, <1>2, <2>1
<1>5. ASSUME NEW i \in DOMAIN Tail(s)
      PROVE  Tail(s)[i].sequence = e + 1 + i - 1 /\ (Tail(s)[i].type = "handshake" <=> Tail(s)[i].sequence = 0)
  <2>1. s[i + 1].sequence = e + (i + 1) - 1 /\ (s[i + 1].type = "handshake" <=> s[i + 1].sequence = 0)
    BY <1>3 DEF Counts
  <2>. QED
    BY <2>1, <1>3
<1>6. 1 \in DOMAIN s /\ s[1].sequence = e + 1 - 1 /\ (s[1].type = "handshake" <=> s[1].sequence = 0)
  BY <1>1 DEF Counts
<1>. QED
  BY <1>1, <1>4, <1>5, <1>6 DEF Counts

LEMMA NoElements == Elements(<<>>) = {}
  BY DEF Elements

LEMMA TailElements ==
    ASSUME NEW S, NEW s \in Seq(S), s # <<>>
    PROVE  Tail(s) \in Seq(S) /\ Head(s) \in S /\ Head(s) \in Elements(s) /\ Elements(Tail(s)) \subseteq Elements(s)
<1>1. Head(s) = s[1] /\ 1 \in DOMAIN s /\ Tail(s) \in Seq(S) /\ s[1] \in S
  OBVIOUS
<1>2. \A i \in DOMAIN Tail(s) : i + 1 \in DOMAIN s /\ Tail(s)[i] = s[i + 1]
  OBVIOUS
<1>. QED
  BY <1>1, <1>2 DEF Elements

LEMMA AppendElements ==
    ASSUME NEW S, NEW s \in Seq(S), NEW x \in S
    PROVE  Append(s, x) \in Seq(S) /\ Elements(Append(s, x)) = Elements(s) \cup {x}
<1>. DEFINE a == Append(s, x)
<1>1. a \in Seq(S) /\ DOMAIN a = DOMAIN s \cup {Len(s) + 1} /\ a[Len(s) + 1] = x
  OBVIOUS
<1>2. \A i \in DOMAIN s : a[i] = s[i]
  OBVIOUS
<1>. QED
  BY <1>1, <1>2 DEF Elements

\* The same for the frames and for the events.
LEMMA FramesTail ==
    ASSUME NEW s \in Seq(Frames), s # <<>>
    PROVE  /\ Tail(s) \in Seq(Frames) /\ Head(s) \in Elements(s) /\ Elements(Tail(s)) \subseteq Elements(s)
           /\ Head(s).type \in FrameTypes
<1>1. Tail(s) \in Seq(Frames) /\ Head(s) \in Frames /\ Head(s) \in Elements(s) /\ Elements(Tail(s)) \subseteq Elements(s)
  BY TailElements
<1>. QED
  BY <1>1 DEF Frames

LEMMA FramesAppend ==
    ASSUME NEW s \in Seq(Frames), NEW t \in FrameTypes, NEW n \in Nat
    PROVE  /\ Append(s, Frame(t, n)) \in Seq(Frames)
           /\ Elements(Append(s, Frame(t, n))) = Elements(s) \cup {Frame(t, n)}
<1>1. Frame(t, n) \in Frames
  BY FrameFacts
<1>. QED
  BY <1>1, AppendElements

LEMMA EventsTurn ==
    ASSUME NEW s \in Seq(FarEvents), s # <<>>
    PROVE  /\ Tail(s) \in Seq(FarEvents) /\ Append(Tail(s), Head(s)) \in Seq(FarEvents)
           /\ Head(s) \in Elements(s) /\ Head(s) \in FarEvents
           /\ Elements(Tail(s)) \subseteq Elements(s) /\ Elements(Append(Tail(s), Head(s))) \subseteq Elements(s)
<1>1. /\ Tail(s) \in Seq(FarEvents) /\ Head(s) \in FarEvents
      /\ Head(s) \in Elements(s) /\ Elements(Tail(s)) \subseteq Elements(s)
  BY TailElements
<1>2. /\ Append(Tail(s), Head(s)) \in Seq(FarEvents)
      /\ Elements(Append(Tail(s), Head(s))) = Elements(Tail(s)) \cup {Head(s)}
  <2>. DEFINE t == Tail(s)
              x == Head(s)
  <2>1. t \in Seq(FarEvents) /\ x \in FarEvents
    BY <1>1
  <2>. HIDE DEF t, x
  <2>2. Append(t, x) \in Seq(FarEvents) /\ Elements(Append(t, x)) = Elements(t) \cup {x}
    BY <2>1, AppendElements
  <2>. QED
    BY <2>2 DEF t, x
<1>. QED
  BY <1>1, <1>2

LEMMA EventsAppend ==
    ASSUME NEW s \in Seq(FarEvents), NEW kind \in {"cancel", "result", "failed", "decodeCancelled"}, NEW at \in Nat
    PROVE  /\ Append(s, [kind |-> kind, at |-> at]) \in Seq(FarEvents)
           /\ Elements(Append(s, [kind |-> kind, at |-> at])) = Elements(s) \cup {[kind |-> kind, at |-> at]}
<1>1. [kind |-> kind, at |-> at] \in FarEvents
  BY DEF FarEvents
<1>. QED
  BY <1>1, AppendElements

LEMMA ControlFacts ==
    ASSUME NEW s \in Seq(Nat)
    PROVE  /\ s # <<>> => /\ Tail(s) \in Seq(Nat) /\ Head(s) \in Nat
                          /\ Head(s) \in Elements(s) /\ Elements(Tail(s)) \subseteq Elements(s)
           /\ \A n \in Nat : Append(s, n) \in Seq(Nat) /\ Elements(Append(s, n)) = Elements(s) \cup {n}
           /\ Elements(s) \subseteq Nat
<1>1. Elements(s) \subseteq Nat
  BY DEF Elements
<1>2. s # <<>> => /\ Tail(s) \in Seq(Nat) /\ Head(s) \in Nat
                  /\ Head(s) \in Elements(s) /\ Elements(Tail(s)) \subseteq Elements(s)
  BY TailElements
<1>3. \A n \in Nat : Append(s, n) \in Seq(Nat) /\ Elements(Append(s, n)) = Elements(s) \cup {n}
  BY AppendElements
<1>. QED
  BY <1>1, <1>2, <1>3

LEMMA EventsHaveSequences == ASSUME NEW s \in Seq(FarEvents) PROVE \A e \in Elements(s) : e.at \in Nat
<1>1. \A i \in DOMAIN s : s[i] \in FarEvents
  OBVIOUS
<1>. QED
  BY <1>1 DEF Elements, FarEvents

\* An honest sidecar is never refused.
LEMMA ReceiveCases ==
    ASSUME SidecarInv, Receive
    PROVE  /\ inbox # <<>> /\ inbox' = Tail(inbox) /\ expected' = expected + 1 /\ accepted' = TRUE
           /\ UNCHANGED <<entered, disposed, cancelled, lifecycle, farProcess, start, farControl, farVars, sidecarBounds>>
           /\ host = "running" /\ Counts(Tail(inbox), expected + 1, sequence)
           /\ \/ UNCHANGED <<host, outcome>>
              \/ host' = "stopping" /\ outcome' = "result" /\ Head(inbox).type = "result"
              \/ host' = "stopping" /\ outcome' = "remote_failure"
<1>. USE DEF SidecarInv, SidecarTypes, InboxInv
<1>1. inbox # <<>> /\ inbox' = Tail(inbox) /\ host = "running"
  BY DEF Receive
<1>2. Counts(Tail(inbox), expected + 1, sequence) /\ Head(inbox).sequence = expected
      /\ (Head(inbox).type = "handshake" <=> expected = 0)
  BY <1>1, CountsTail
<1>3. Head(inbox).type \in FrameTypes /\ Head(inbox) \in Elements(inbox)
  BY <1>1, FramesTail
<1>4. Head(inbox).type \in FrameTypes /\ Head(inbox).type \notin {"cancel_ack", "cleanup_complete"}
  BY <1>1, <1>3 DEF CancelInv
<1>5. CASE accepted = FALSE
  <2>1. expected = 0 /\ Head(inbox).type = "handshake"
    BY <1>2, <1>5
  <2>2. accepted' = TRUE /\ expected' = 1 /\ UNCHANGED <<host, outcome, farControl>>
    BY <1>5, <2>1 DEF Receive
  <2>. QED
    BY <1>1, <1>2, <2>1, <2>2 DEF Receive
<1>6. CASE accepted = TRUE
  <2>1. Head(inbox).type \in {"heartbeat", "result", "error"}
    BY <1>2, <1>4, <1>6 DEF FrameTypes
  <2>2. CASE Head(inbox).type = "heartbeat"
    BY <1>1, <1>2, <1>6, <2>2 DEF Receive
  <2>3. CASE Head(inbox).type = "result"
    BY <1>1, <1>2, <1>6, <2>3 DEF Receive
  <2>4. CASE Head(inbox).type = "error"
    BY <1>1, <1>2, <1>6, <2>4 DEF Receive
  <2>. QED
    BY <2>1, <2>2, <2>3, <2>4
<1>. QED
  BY <1>5, <1>6

LEMMA CooperateCases ==
    ASSUME SidecarInv, Cooperate
    PROVE  /\ UNCHANGED <<entered, disposed, cancelled, lifecycle, accepted, outcome, farProcess, start, farControl,
                          far, sequence, farEvents, told, acknowledged, finished, decoding, artifact, sidecarBounds>>
           /\ host \in {"acking", "cleaning"} /\ host' \in {"acking", "cleaning", "stopping"}
           /\ \/ UNCHANGED <<inbox, expected, farCleaned>>
              \/ /\ inbox # <<>> /\ inbox' = Tail(inbox) /\ expected' = expected + 1 /\ accepted = TRUE
                 /\ Counts(Tail(inbox), expected + 1, sequence)
                 /\ farCleaned' \in BOOLEAN /\ (farCleaned' = TRUE => Head(inbox).type = "cleanup_complete")
<1>. USE DEF SidecarInv, SidecarTypes, InboxInv
<1>1. CASE inbox # <<>> /\ inbox' = Tail(inbox)
  <2>1. Counts(Tail(inbox), expected + 1, sequence) /\ Head(inbox).sequence = expected
        /\ (Head(inbox).type = "handshake" <=> expected = 0)
    BY <1>1, CountsTail
  <2>2. CASE UNCHANGED <<inbox, expected, farCleaned>>
    BY <2>2 DEF Cooperate
  <2>3. CASE ~UNCHANGED <<inbox, expected, farCleaned>>
    <3>1. /\ Head(inbox).type # "handshake" /\ Head(inbox).sequence = expected /\ expected' = expected + 1
          /\ farCleaned' = (host = "cleaning" /\ Head(inbox).type = "cleanup_complete")
      BY <2>3 DEF Cooperate
    <3>2. farCleaned' \in BOOLEAN /\ (farCleaned' = TRUE => Head(inbox).type = "cleanup_complete")
      BY <3>1
    <3>3. accepted = TRUE
      BY <2>1, <3>1
    <3>4. host \in {"acking", "cleaning"} /\ host' \in {"acking", "cleaning", "stopping"}
      BY DEF Cooperate
    <3>. QED
      BY <1>1, <2>1, <3>1, <3>2, <3>3, <3>4 DEF Cooperate
  <2>. QED
    BY <2>2, <2>3
<1>2. CASE UNCHANGED <<inbox, expected, farCleaned>>
  BY <1>2 DEF Cooperate
<1>. QED
  BY <1>1, <1>2 DEF Cooperate

\* What the far end writes in one event.
Sends(type) == inbox' = Append(inbox, Frame(type, sequence)) /\ sequence' = sequence + 1
AcksAndSends(type) ==
    /\ inbox' = Append(Append(inbox, Frame("cancel_ack", sequence)), Frame(type, sequence + 1))
    /\ sequence' = sequence + 1 + 1
Settles(type) == far' = "done" /\ (type = "cleanup_complete" => artifact' = FALSE) /\ (type # "cleanup_complete" => UNCHANGED artifact)

LEMMA ServeCases ==
    ASSUME SidecarInv, Serve
    PROVE  /\ UNCHANGED <<hostVars, farProcess, start, farControl, told, decoding, farCleaned, sidecarBounds>>
           /\ far = "serving" /\ farEvents # <<>> /\ finished' \in BOOLEAN
           /\ farEvents' \in {Tail(farEvents), Append(Tail(farEvents), Head(farEvents))}
           /\ \/ /\ far' = "error" /\ UNCHANGED <<inbox, sequence, acknowledged, artifact>>
                 /\ Head(farEvents).kind = "cancel" /\ Head(farEvents).at = 0
              \/ UNCHANGED <<inbox, far, sequence, acknowledged, artifact>>
              \/ Sends("cancel_ack") /\ acknowledged' = TRUE /\ told = TRUE /\ UNCHANGED <<far, artifact>>
              \/ /\ acknowledged' = TRUE /\ told = TRUE
                 /\ \E type \in {"cleanup_complete", "error"} : AcksAndSends(type) /\ Settles(type)
              \/ /\ acknowledged = TRUE /\ UNCHANGED acknowledged
                 /\ \E type \in {"cleanup_complete", "error"} : Sends(type) /\ Settles(type)
              \/ /\ UNCHANGED acknowledged
                 /\ \E type \in {"result", "error"} :
                      Sends(type) /\ Settles(type) /\ (type = "result" => Head(farEvents).kind = "result")
<1>. USE DEF SidecarInv, SidecarTypes, Sends, AcksAndSends, Settles
<1>. DEFINE e == Head(farEvents)
<1>1. farEvents # <<>> /\ far = "serving"
  BY DEF Serve
<1>2. e \in FarEvents /\ e \in Elements(farEvents)
  BY <1>1, EventsTurn
<1>3. UNCHANGED <<hostVars, farProcess, start, farControl, told, decoding, farCleaned, sidecarBounds>>
  BY DEF Serve
<1>4. ASSUME NEW s \in Seq(Frames), NEW x PROVE s \o <<x>> = Append(s, x)
  OBVIOUS
<1>5. CASE e.kind = "cancel"
  <2>1. told = TRUE /\ e.at <= sequence /\ e.at \in Nat
    BY <1>2, <1>5 DEF CancelInv, FarEvents
  <2>2. CASE ~CancelMatches(e.at)
    <3>1. e.at = 0
      BY <2>1, <2>2 DEF CancelMatches
    <3>. QED
      BY <1>1, <1>3, <1>5, <2>2, <3>1 DEF Serve
  <2>3. CASE CancelMatches(e.at) /\ finished = FALSE
    BY <1>1, <1>3, <1>5, <2>1, <2>3 DEF Serve, Write
  <2>4. CASE CancelMatches(e.at) /\ finished = TRUE
    <3>1. acknowledged' = TRUE /\ farEvents' = Tail(farEvents) /\ UNCHANGED finished
          /\ CleanUp(Append(inbox, Frame("cancel_ack", sequence)), sequence + 1)
      BY <1>5, <2>4 DEF Serve
    <3>2. Append(inbox, Frame("cancel_ack", sequence)) \in Seq(Frames)
      BY FramesAppend DEF FrameTypes
    <3>3. \E type \in {"cleanup_complete", "error"} : AcksAndSends(type) /\ Settles(type)
      BY <3>1, <3>2, <1>4 DEF CleanUp
    <3>. QED
      BY <1>1, <1>3, <2>1, <3>1, <3>3
  <2>. QED
    BY <2>2, <2>3, <2>4
<1>6. CASE e.kind # "cancel" /\ acknowledged = TRUE
  <2>1. finished' = TRUE /\ farEvents' = Tail(farEvents) /\ CleanUp(inbox, sequence) /\ UNCHANGED acknowledged
    BY <1>6 DEF Serve
  <2>2. \E type \in {"cleanup_complete", "error"} : Sends(type) /\ Settles(type)
    BY <2>1, <1>4 DEF CleanUp
  <2>. QED
    BY <1>1, <1>3, <1>6, <2>1, <2>2
<1>7. CASE e.kind = "result" /\ acknowledged = FALSE
  BY <1>1, <1>3, <1>7 DEF Serve, Write
<1>8. CASE e.kind \in {"failed", "decodeCancelled"} /\ acknowledged = FALSE
  BY <1>1, <1>3, <1>8 DEF Serve, Write
<1>. QED
  BY <1>2, <1>5, <1>6, <1>7, <1>8 DEF FarEvents

LEMMA SidecarTypesStep == ASSUME SidecarAssumption, SidecarInv, SidecarNext PROVE SidecarTypes'
<1>. USE DEF SidecarInv, SidecarTypes, InboxInv
<1>1. CASE RunSession
  <2>1. {entered', disposed', cancelled', accepted', start', told', acknowledged', finished', decoding',
         artifact', farCleaned'} \subseteq BOOLEAN
    BY <1>1 DEF RunSession
  <2>2. inbox' \in Seq(Frames) /\ farControl' \in Seq(Nat) /\ farEvents' \in Seq(FarEvents)
    BY <1>1 DEF RunSession
  <2>. QED
    BY <1>1, <2>1, <2>2 DEF RunSession
<1>2. CASE Cancel
  BY <1>2 DEF Cancel
<1>3. CASE TimeOut
  BY <1>3 DEF TimeOut
<1>4. CASE DisposeClient
  BY <1>4 DEF DisposeClient
<1>5. CASE LaunchSidecar
  BY <1>5, ZenonT(100) DEF LaunchSidecar
<1>6. CASE GiveUp
  <2>1. outcome' \in Outcomes /\ host' \in {"acking", "stopping"}
    BY <1>6 DEF GiveUp, Terminate
  <2>2. farControl' \in {farControl, Append(farControl, expected)}
    BY <1>6 DEF GiveUp, Terminate
  <2>3. farControl' \in Seq(Nat)
    BY <2>2, ControlFacts, ZenonT(100)
  <2>. QED
    BY <1>6, <2>1, <2>3 DEF GiveUp
<1>7. CASE Receive
  <2>3. inbox # <<>> /\ inbox' = Tail(inbox) /\ expected' = expected + 1 /\ accepted' = TRUE
    BY <1>7, ReceiveCases
  <2>1. inbox' \in Seq(Frames) /\ expected' \in Nat /\ accepted' \in BOOLEAN
    BY <2>3, FramesTail
  <2>2. host' \in {"running", "stopping"} /\ outcome' \in Outcomes
    BY <1>7, ReceiveCases
  <2>. QED
    BY <1>7, <2>1, <2>2, ReceiveCases
<1>8. CASE Cooperate
  <2>1. inbox' \in Seq(Frames) /\ expected' \in Nat /\ farCleaned' \in BOOLEAN
    <3>1. CASE UNCHANGED <<inbox, expected, farCleaned>>
      BY <3>1
    <3>2. CASE inbox # <<>> /\ inbox' = Tail(inbox) /\ expected' = expected + 1 /\ farCleaned' \in BOOLEAN
      BY <3>2, FramesTail
    <3>. QED
      BY <1>8, <3>1, <3>2, CooperateCases
  <2>. QED
    BY <1>8, <2>1, CooperateCases
<1>9. CASE Stop
  BY <1>9 DEF Stop
<1>10. CASE LeaveSession
  BY <1>10, ZenonT(100) DEF LeaveSession
<1>11. CASE Die
  BY <1>11 DEF Die
<1>12. CASE Handshake
  <2>1. inbox' \in Seq(Frames)
    BY <1>12, FramesAppend DEF Handshake, Write, FrameTypes
  <2>. QED
    BY <1>12, <2>1, ZenonT(100) DEF Handshake
<1>13. CASE ReadControl
  <2>1. farControl # <<>> /\ farControl' = Tail(farControl)
        /\ farEvents' = Append(farEvents, [kind |-> "cancel", at |-> Head(farControl)])
    BY <1>13 DEF ReadControl
  <2>2. farControl' \in Seq(Nat) /\ Head(farControl) \in Nat
    BY <2>1, ControlFacts
  <2>3. farEvents' \in Seq(FarEvents)
    BY <2>1, <2>2, EventsAppend
  <2>. QED
    BY <1>13, <2>2, <2>3 DEF ReadControl
<1>14. CASE Decode
  <2>2. PICK kind \in {"result", "failed", "decodeCancelled"} : farEvents' = Append(farEvents, [kind |-> kind, at |-> 0])
    BY <1>14 DEF Decode
  <2>1. farEvents' \in Seq(FarEvents)
    BY <2>2, EventsAppend
  <2>. QED
    BY <1>14, <2>1, ZenonT(100) DEF Decode
<1>15. CASE Beat
  <2>1. inbox' \in Seq(Frames)
    BY <1>15, FramesAppend DEF Beat, Write, FrameTypes
  <2>. QED
    BY <1>15, <2>1 DEF Beat
<1>16. CASE Serve
  <2>1. far = "serving" /\ farEvents # <<>> /\ finished' \in BOOLEAN
    BY <1>16, ServeCases
  <2>2. farEvents' \in Seq(FarEvents)
    <3>1. Tail(farEvents) \in Seq(FarEvents) /\ Append(Tail(farEvents), Head(farEvents)) \in Seq(FarEvents)
      BY <2>1, EventsTurn
    <3>. QED
      BY <1>16, <3>1, ServeCases
  <2>3. inbox' \in Seq(Frames) /\ sequence' \in Nat
    <3>1. \A t \in FrameTypes : Append(inbox, Frame(t, sequence)) \in Seq(Frames)
      BY FramesAppend
    <3>2. \A t, u \in FrameTypes :
            Append(Append(inbox, Frame(t, sequence)), Frame(u, sequence + 1)) \in Seq(Frames)
      BY <3>1, FramesAppend
    <3>3. {"cancel_ack", "cleanup_complete", "error", "result"} \subseteq FrameTypes
      BY DEF FrameTypes
    <3>4. \/ UNCHANGED <<inbox, sequence>>
          \/ \E t \in FrameTypes : Sends(t) \/ AcksAndSends(t)
      BY <1>16, <3>3, ServeCases
    <3>5. ASSUME NEW t \in FrameTypes, Sends(t) PROVE inbox' \in Seq(Frames) /\ sequence' \in Nat
      BY <3>1, <3>5 DEF Sends
    <3>6. ASSUME NEW t \in FrameTypes, AcksAndSends(t) PROVE inbox' \in Seq(Frames) /\ sequence' \in Nat
      <4>1. inbox' \in Seq(Frames)
        BY <3>2, <3>3, <3>6 DEF AcksAndSends
      <4>2. sequence' = sequence + 1 + 1
        BY <3>6 DEF AcksAndSends
      <4>. QED
        BY <4>1, <4>2
    <3>. QED
      BY <3>4, <3>5, <3>6
  <2>4. acknowledged' \in BOOLEAN /\ artifact' \in BOOLEAN /\ far' \in {"serving", "done", "error"}
    BY <1>16, ServeCases DEF Settles
  <2>. QED
    BY <1>16, <2>1, <2>2, <2>3, <2>4, ServeCases, ZenonT(100)
<1>17. CASE Exit
  BY <1>17 DEF Exit
<1>. QED
  BY <1>1, <1>2, <1>3, <1>4, <1>5, <1>6, <1>7, <1>8, <1>9, <1>10, <1>11, <1>12, <1>13, <1>14,
     <1>15, <1>16, <1>17 DEF SidecarNext, Host, Sidecar

LEMMA ProcessInvStep == ASSUME SidecarAssumption, SidecarInv, SidecarNext PROVE ProcessInv'
<1>. USE DEF SidecarInv, ProcessInv, SidecarTypes
<1>1. CASE RunSession
  BY <1>1 DEF RunSession
<1>2. CASE Cancel
  BY <1>2 DEF Cancel
<1>3. CASE TimeOut
  BY <1>3 DEF TimeOut
<1>4. CASE DisposeClient
  BY <1>4 DEF DisposeClient
<1>5. CASE LaunchSidecar
  BY <1>5 DEF LaunchSidecar
<1>6. CASE GiveUp
  BY <1>6 DEF GiveUp, Terminate, Gone
<1>7. CASE Receive
  BY <1>7 DEF Receive, Terminate
<1>8. CASE Cooperate
  BY <1>8 DEF Cooperate
<1>9. CASE Stop
  BY <1>9 DEF Stop
<1>10. CASE LeaveSession
  BY <1>10 DEF LeaveSession
<1>11. CASE Die
  BY <1>11 DEF Die
<1>12. CASE Handshake
  BY <1>12 DEF Handshake, Write, Frame
<1>13. CASE ReadControl
  BY <1>13 DEF ReadControl
<1>14. CASE Decode
  BY <1>14 DEF Decode
<1>15. CASE Beat
  BY <1>15 DEF Beat, Write, Frame
<1>16. CASE Serve
  BY <1>16 DEF Serve, Write, Frame, CleanUp, CancelMatches
<1>17. CASE Exit
  BY <1>17 DEF Exit
<1>. QED
  BY <1>1, <1>2, <1>3, <1>4, <1>5, <1>6, <1>7, <1>8, <1>9, <1>10, <1>11, <1>12, <1>13, <1>14,
     <1>15, <1>16, <1>17 DEF SidecarNext, Host, Sidecar

LEMMA InboxInvStep == ASSUME SidecarAssumption, SidecarInv, SidecarNext PROVE InboxInv'
<1>. USE DEF SidecarInv, InboxInv, SidecarTypes, CancelInv, ProcessInv
<1>1. CASE RunSession
  <2>1. inbox' = <<>> /\ expected' = 0 /\ sequence' = 0
    BY <1>1 DEF RunSession
  <2>2. Counts(<<>>, 0, 0)
    BY DEF Counts
  <2>. QED
    BY <1>1, <2>1, <2>2 DEF RunSession
<1>2. CASE Cancel
  BY <1>2 DEF Cancel
<1>3. CASE TimeOut
  BY <1>3 DEF TimeOut
<1>4. CASE DisposeClient
  BY <1>4 DEF DisposeClient
<1>5. CASE LaunchSidecar
  BY <1>5 DEF LaunchSidecar
<1>6. CASE GiveUp
  BY <1>6 DEF GiveUp, Terminate, Gone
<1>7. CASE Receive
  <2>1. Counts(inbox', expected', sequence')
    BY <1>7, ReceiveCases
  <2>3. expected' = expected + 1 /\ accepted' = TRUE /\ UNCHANGED <<far, sequence>>
        /\ outcome' \in {outcome, "result", "remote_failure"}
    BY <1>7, ReceiveCases
  <2>2. expected' > 0 /\ outcome' # "protocol_violation"
    BY <2>3
  <2>. QED
    BY <2>1, <2>2, <2>3
<1>8. CASE Cooperate
  <2>1. Counts(inbox', expected', sequence')
    BY <1>8, CooperateCases
  <2>3. /\ UNCHANGED <<far, sequence, accepted, outcome>>
        /\ UNCHANGED expected \/ (accepted = TRUE /\ expected' = expected + 1)
    BY <1>8, CooperateCases
  <2>2. accepted' = TRUE <=> expected' > 0
    BY <2>3
  <2>. QED
    BY <2>1, <2>2, <2>3
<1>9. CASE Stop
  BY <1>9 DEF Stop
<1>10. CASE LeaveSession
  BY <1>10 DEF LeaveSession
<1>11. CASE Die
  BY <1>11 DEF Die
<1>12. CASE Handshake
  <2>1. Counts(Append(inbox, Frame("handshake", 0)), expected, 0 + 1)
    BY <1>12, CountsAppend DEF Handshake, FrameTypes
  <2>. QED
    BY <1>12, <2>1 DEF Handshake, Write
<1>13. CASE ReadControl
  BY <1>13 DEF ReadControl
<1>14. CASE Decode
  BY <1>14 DEF Decode
<1>15. CASE Beat
  <2>1. Counts(Append(inbox, Frame("heartbeat", sequence)), expected, sequence + 1)
    BY <1>15, CountsAppend DEF Beat, FrameTypes
  <2>. QED
    BY <1>15, <2>1 DEF Beat, Write
<1>16. CASE Serve
  <2>1. \A t \in FrameTypes \ {"handshake"} :
          /\ Counts(Append(inbox, Frame(t, sequence)), expected, sequence + 1)
          /\ Append(inbox, Frame(t, sequence)) \in Seq(Frames)
    <3>. TAKE t \in FrameTypes \ {"handshake"}
    <3>1. sequence > 0
      BY <1>16, ServeCases
    <3>2. Counts(inbox, expected, sequence) /\ (t = "handshake" <=> sequence = 0)
      BY <3>1
    <3>. QED
      BY <3>2, CountsAppend
  <2>2. \A u \in FrameTypes \ {"handshake"} :
          Counts(Append(Append(inbox, Frame("cancel_ack", sequence)), Frame(u, sequence + 1)), expected, sequence + 1 + 1)
    <3>. TAKE u \in FrameTypes \ {"handshake"}
    <3>. DEFINE s == Append(inbox, Frame("cancel_ack", sequence))
    <3>1. s \in Seq(Frames) /\ Counts(s, expected, sequence + 1) /\ sequence + 1 \in Nat /\ sequence + 1 # 0
      BY <2>1 DEF FrameTypes
    <3>. HIDE DEF s
    <3>2. Counts(Append(s, Frame(u, sequence + 1)), expected, sequence + 1 + 1)
      BY <3>1, CountsAppend DEF FrameTypes
    <3>. QED
      BY <3>2 DEF s
  <2>3. Counts(inbox', expected, sequence') /\ sequence' >= sequence /\ sequence' \in Nat
    <3>1. {"cancel_ack", "cleanup_complete", "error", "result"} \subseteq FrameTypes \ {"handshake"}
      BY DEF FrameTypes
    <3>2. \/ UNCHANGED <<inbox, sequence>>
          \/ \E t \in FrameTypes \ {"handshake"} : Sends(t) \/ AcksAndSends(t)
      BY <1>16, <3>1, ServeCases
    <3>3. ASSUME NEW t \in FrameTypes \ {"handshake"}, Sends(t)
          PROVE  Counts(inbox', expected, sequence') /\ sequence' = sequence + 1
      BY <2>1, <3>3 DEF Sends
    <3>4. ASSUME NEW t \in FrameTypes \ {"handshake"}, AcksAndSends(t)
          PROVE  Counts(inbox', expected, sequence') /\ sequence' = sequence + 1 + 1
      BY <2>2, <3>4 DEF AcksAndSends
    <3>5. Counts(inbox', expected, sequence') /\ sequence' \in {sequence, sequence + 1, sequence + 1 + 1}
      BY <3>2, <3>3, <3>4
    <3>. QED
      BY <3>5
  <2>4. UNCHANGED <<expected, accepted, outcome>> /\ far' \in {"serving", "done", "error"} /\ sequence > 0
    BY <1>16, ServeCases DEF Settles
  <2>. QED
    BY <2>3, <2>4
<1>17. CASE Exit
  BY <1>17 DEF Exit
<1>. QED
  BY <1>1, <1>2, <1>3, <1>4, <1>5, <1>6, <1>7, <1>8, <1>9, <1>10, <1>11, <1>12, <1>13, <1>14,
     <1>15, <1>16, <1>17 DEF SidecarNext, Host, Sidecar

LEMMA CancelInvStep == ASSUME SidecarAssumption, SidecarInv, SidecarNext PROVE CancelInv'
<1>. USE DEF SidecarInv, CancelInv, SidecarTypes, InboxInv, ProcessInv
<1>1. CASE RunSession
  BY <1>1, NoElements DEF RunSession
<1>2. CASE Cancel
  BY <1>2 DEF Cancel
<1>3. CASE TimeOut
  BY <1>3 DEF TimeOut
<1>4. CASE DisposeClient
  BY <1>4 DEF DisposeClient
<1>5. CASE LaunchSidecar
  BY <1>5 DEF LaunchSidecar
<1>6. CASE GiveUp
  <2>1. farControl' \in {farControl, Append(farControl, expected)} /\ host' \in {"acking", "stopping"}
    BY <1>6 DEF GiveUp, Terminate
  <2>2. expected <= sequence /\ (expected = 0 => accepted = FALSE)
    BY DEF Counts
  <2>3. \A at \in Elements(farControl') : at <= sequence /\ (at = 0 => accepted = FALSE)
    <3>1. Elements(farControl') \subseteq Elements(farControl) \cup {expected}
      <4>1. Elements(Append(farControl, expected)) = Elements(farControl) \cup {expected}
        BY ControlFacts
      <4>. QED
        BY <2>1, <4>1
    <3>. QED
      BY <2>2, <3>1
  <2>. QED
    BY <1>6, <2>1, <2>3 DEF GiveUp
<1>7. CASE Receive
  <2>1. Elements(farControl) = {}
    BY <1>7, ReceiveCases, NoElements
  <2>2. Elements(inbox') \subseteq Elements(inbox)
    BY <1>7, ReceiveCases, FramesTail
  <2>. QED
    BY <1>7, <2>1, <2>2, ReceiveCases
<1>8. CASE Cooperate
  <2>1. Elements(inbox') \subseteq Elements(inbox)
    BY <1>8, CooperateCases, FramesTail
  <2>. QED
    BY <1>8, <2>1, CooperateCases
<1>9. CASE Stop
  BY <1>9 DEF Stop
<1>10. CASE LeaveSession
  BY <1>10 DEF LeaveSession
<1>11. CASE Die
  BY <1>11 DEF Die
<1>12. CASE Handshake
  <2>1. Elements(inbox') = Elements(inbox) \cup {Frame("handshake", 0)}
    BY <1>12, FramesAppend DEF Handshake, Write, FrameTypes
  <2>2. Frame("handshake", 0).type = "handshake"
    BY FrameFacts DEF FrameTypes
  <2>3. \A at \in Elements(farControl) : at \in Nat
    BY ControlFacts
  <2>4. \A e \in Elements(farEvents) : e.at \in Nat
    BY EventsHaveSequences
  <2>5. sequence <= sequence'
    BY <1>12 DEF Handshake
  <2>. QED
    BY <1>12, <2>1, <2>2, <2>3, <2>4, <2>5 DEF Handshake
<1>13. CASE ReadControl
  <2>. DEFINE e == [kind |-> "cancel", at |-> Head(farControl)]
  <2>1. farControl # <<>> /\ farControl' = Tail(farControl) /\ farEvents' = Append(farEvents, e)
    BY <1>13 DEF ReadControl
  <2>2. Head(farControl) \in Elements(farControl) /\ Head(farControl) \in Nat
        /\ Elements(farControl') \subseteq Elements(farControl)
    BY <2>1, ControlFacts
  <2>4. Elements(farEvents') = Elements(farEvents) \cup {e}
    BY <2>1, <2>2, EventsAppend
  <2>5. host \notin {"launching", "running"}
    BY <1>13, <2>1 DEF ReadControl
  <2>. QED
    BY <1>13, <2>2, <2>4, <2>5 DEF ReadControl
<1>14. CASE Decode
  <2>1. PICK kind \in {"result", "failed", "decodeCancelled"} : farEvents' = Append(farEvents, [kind |-> kind, at |-> 0])
    BY <1>14 DEF Decode
  <2>2. Elements(farEvents') = Elements(farEvents) \cup {[kind |-> kind, at |-> 0]}
    BY <2>1, EventsAppend
  <2>. QED
    BY <1>14, <2>2 DEF Decode
<1>15. CASE Beat
  <2>1. Elements(inbox') = Elements(inbox) \cup {Frame("heartbeat", sequence)}
    BY <1>15, FramesAppend DEF Beat, Write, FrameTypes
  <2>2. Frame("heartbeat", sequence).type = "heartbeat"
    BY FrameFacts DEF FrameTypes
  <2>3. \A at \in Elements(farControl) : at \in Nat
    BY ControlFacts
  <2>4. \A e \in Elements(farEvents) : e.at \in Nat
    BY EventsHaveSequences
  <2>. QED
    BY <1>15, <2>1, <2>2, <2>3, <2>4 DEF Beat
<1>16. CASE Serve
  <2>1. /\ UNCHANGED <<host, accepted, farControl, told>> /\ far = "serving" /\ farEvents # <<>>
        /\ farEvents' \in {Tail(farEvents), Append(Tail(farEvents), Head(farEvents))}
    BY <1>16, ServeCases
  <2>2. Elements(farEvents') \subseteq Elements(farEvents)
    <3>1. /\ Head(farEvents) \in Elements(farEvents) /\ Elements(Tail(farEvents)) \subseteq Elements(farEvents)
          /\ Elements(Append(Tail(farEvents), Head(farEvents))) \subseteq Elements(farEvents)
      BY <2>1, EventsTurn
    <3>2. farEvents' \in {Tail(farEvents), Append(Tail(farEvents), Head(farEvents))}
      BY <1>16, ServeCases
    <3>. QED
      BY <3>1, <3>2
  <2>3. sequence' \in Nat /\ sequence <= sequence'
    <3>1. sequence' \in {sequence, sequence + 1, sequence + 1 + 1}
      BY <1>16, ServeCases DEF Sends, AcksAndSends
    <3>. QED
      BY <3>1
  <2>4. /\ \A at \in Elements(farControl) : at \in Nat
        /\ \A e \in Elements(farEvents) : e.at \in Nat
    BY ControlFacts, EventsHaveSequences
  <2>5. /\ told = FALSE => acknowledged' = FALSE
        /\ acknowledged' = FALSE => acknowledged = FALSE
    BY <1>16, ServeCases
  <2>6. acknowledged' = FALSE => \A m \in Elements(inbox') : m.type \notin {"cancel_ack", "cleanup_complete"}
    <3>1. ASSUME acknowledged' = FALSE, inbox' # inbox PROVE \E type \in {"result", "error"} : Sends(type)
      BY <1>16, <3>1, ServeCases
    <3>2. \A type \in FrameTypes : /\ Frame(type, sequence).type = type
                                   /\ Elements(Append(inbox, Frame(type, sequence))) = Elements(inbox) \cup {Frame(type, sequence)}
      BY FrameFacts, FramesAppend
    <3>. QED
      BY <2>5, <3>1, <3>2, ZenonT(100) DEF Sends, FrameTypes
  <2>7. far' = "error" => accepted = FALSE /\ told = TRUE
    <3>1. Head(farEvents) \in Elements(farEvents)
      BY <2>1, EventsTurn
    <3>. QED
      BY <1>16, <2>1, <3>1, ServeCases DEF Settles
  <2>. QED
    BY <2>1, <2>2, <2>3, <2>4, <2>5, <2>6, <2>7
<1>17. CASE Exit
  BY <1>17 DEF Exit
<1>. QED
  BY <1>1, <1>2, <1>3, <1>4, <1>5, <1>6, <1>7, <1>8, <1>9, <1>10, <1>11, <1>12, <1>13, <1>14,
     <1>15, <1>16, <1>17 DEF SidecarNext, Host, Sidecar

LEMMA ArtifactInvStep == ASSUME SidecarAssumption, SidecarInv, SidecarNext PROVE ArtifactInv'
<1>. USE DEF SidecarInv, ArtifactInv, SidecarTypes, InboxInv, CancelInv
<1>1. CASE RunSession
  BY <1>1, NoElements DEF RunSession
<1>2. CASE Cancel
  BY <1>2 DEF Cancel
<1>3. CASE TimeOut
  BY <1>3 DEF TimeOut
<1>4. CASE DisposeClient
  BY <1>4 DEF DisposeClient
<1>5. CASE LaunchSidecar
  BY <1>5 DEF LaunchSidecar
<1>6. CASE GiveUp
  BY <1>6 DEF GiveUp, Terminate, Gone
<1>7. CASE Receive
  <2>1. Elements(inbox') \subseteq Elements(inbox) /\ Head(inbox) \in Elements(inbox)
    BY <1>7, ReceiveCases, FramesTail
  <2>. QED
    BY <1>7, <2>1, ReceiveCases
<1>8. CASE Cooperate
  <2>1. Elements(inbox') \subseteq Elements(inbox)
    BY <1>8, CooperateCases, FramesTail
  <2>2. inbox # <<>> => Head(inbox) \in Elements(inbox)
    BY FramesTail
  <2>. QED
    BY <1>8, <2>1, <2>2, CooperateCases, ZenonT(100)
<1>9. CASE Stop
  BY <1>9 DEF Stop
<1>10. CASE LeaveSession
  BY <1>10 DEF LeaveSession
<1>11. CASE Die
  BY <1>11 DEF Die
<1>12. CASE Handshake
  <2>1. Elements(inbox') = Elements(inbox) \cup {Frame("handshake", 0)}
    BY <1>12, FramesAppend DEF Handshake, Write, FrameTypes
  <2>2. Frame("handshake", 0).type = "handshake"
    BY FrameFacts DEF FrameTypes
  <2>. QED
    BY <1>12, <2>1, <2>2 DEF Handshake
<1>13. CASE ReadControl
  <2>1. farControl # <<>> /\ farEvents' = Append(farEvents, [kind |-> "cancel", at |-> Head(farControl)])
    BY <1>13 DEF ReadControl
  <2>2. Head(farControl) \in Nat
    BY <2>1, ControlFacts
  <2>3. Elements(farEvents') = Elements(farEvents) \cup {[kind |-> "cancel", at |-> Head(farControl)]}
    BY <2>1, <2>2, EventsAppend
  <2>. QED
    BY <1>13, <2>3 DEF ReadControl
<1>14. CASE Decode
  <2>1. PICK kind \in {"result", "failed", "decodeCancelled"} :
          /\ farEvents' = Append(farEvents, [kind |-> kind, at |-> 0])
          /\ artifact' = TRUE \/ (kind # "result" /\ UNCHANGED artifact)
    BY <1>14 DEF Decode
  <2>2. Elements(farEvents') = Elements(farEvents) \cup {[kind |-> kind, at |-> 0]}
    BY <2>1, EventsAppend
  <2>3. far = "serving" /\ UNCHANGED <<far, inbox, outcome, farCleaned>>
    BY <1>14 DEF Decode
  <2>. QED
    BY <2>1, <2>2, <2>3
<1>15. CASE Beat
  <2>1. Elements(inbox') = Elements(inbox) \cup {Frame("heartbeat", sequence)}
    BY <1>15, FramesAppend DEF Beat, Write, FrameTypes
  <2>2. Frame("heartbeat", sequence).type = "heartbeat"
    BY FrameFacts DEF FrameTypes
  <2>. QED
    BY <1>15, <2>1, <2>2 DEF Beat
<1>16. CASE Serve
  <2>1. UNCHANGED <<outcome, farCleaned>> /\ far = "serving" /\ farEvents # <<>>
    BY <1>16, ServeCases
  <2>2. Elements(farEvents') \subseteq Elements(farEvents) /\ Head(farEvents) \in Elements(farEvents)
    <3>1. /\ Head(farEvents) \in Elements(farEvents) /\ Elements(Tail(farEvents)) \subseteq Elements(farEvents)
          /\ Elements(Append(Tail(farEvents), Head(farEvents))) \subseteq Elements(farEvents)
      BY <2>1, EventsTurn
    <3>2. farEvents' \in {Tail(farEvents), Append(Tail(farEvents), Head(farEvents))}
      BY <1>16, ServeCases
    <3>. QED
      BY <3>1, <3>2
  <2>3. \A m \in Elements(inbox) : m.type \notin {"result", "cleanup_complete"}
    BY <2>1
  <2>4. \A type \in FrameTypes :
          /\ Frame(type, sequence).type = type /\ Frame(type, sequence + 1).type = type
          /\ Append(inbox, Frame(type, sequence)) \in Seq(Frames)
          /\ Elements(Append(inbox, Frame(type, sequence))) = Elements(inbox) \cup {Frame(type, sequence)}
    BY FrameFacts, FramesAppend
  <2>5. \A type \in FrameTypes :
          Elements(Append(Append(inbox, Frame("cancel_ack", sequence)), Frame(type, sequence + 1)))
            = Elements(inbox) \cup {Frame("cancel_ack", sequence), Frame(type, sequence + 1)}
    <3>. TAKE type \in FrameTypes
    <3>. DEFINE s == Append(inbox, Frame("cancel_ack", sequence))
    <3>1. s \in Seq(Frames) /\ Elements(s) = Elements(inbox) \cup {Frame("cancel_ack", sequence)} /\ sequence + 1 \in Nat
      BY <2>4 DEF FrameTypes
    <3>. HIDE DEF s
    <3>2. Elements(Append(s, Frame(type, sequence + 1))) = Elements(s) \cup {Frame(type, sequence + 1)}
      BY <3>1, FramesAppend
    <3>. QED
      BY <3>1, <3>2 DEF s
  <2>6. CASE inbox' = inbox
    <3>1. far' \in {"serving", "error", "done"} /\ (far' = "serving" => UNCHANGED artifact)
      BY <1>16, <2>6, ServeCases DEF Settles
    <3>. QED
      BY <2>1, <2>2, <2>3, <2>6, <3>1
  <2>7. CASE Sends("cancel_ack") /\ UNCHANGED <<far, artifact>>
    BY <2>1, <2>2, <2>3, <2>4, <2>7 DEF Sends, FrameTypes
  <2>8. ASSUME NEW type \in {"cleanup_complete", "error"}, Settles(type), Sends(type) \/ AcksAndSends(type)
        PROVE  ArtifactInv'
    <3>1. \A m \in Elements(inbox') : m.type # "result" /\ (m.type = "cleanup_complete" => type = "cleanup_complete")
      <4>1. type \in FrameTypes /\ "cancel_ack" \in FrameTypes
        BY DEF FrameTypes
      <4>2. Elements(inbox') \subseteq
              Elements(inbox) \cup {Frame("cancel_ack", sequence), Frame(type, sequence), Frame(type, sequence + 1)}
        <5>1. CASE Sends(type)
          BY <2>4, <4>1, <5>1 DEF Sends
        <5>2. CASE AcksAndSends(type)
          BY <2>5, <4>1, <5>2 DEF AcksAndSends
        <5>. QED
          BY <2>8, <5>1, <5>2
      <4>. QED
        BY <2>3, <2>4, <4>1, <4>2
    <3>. QED
      BY <2>1, <2>8, <3>1 DEF Settles
  <2>9. ASSUME NEW type \in {"result", "error"}, Settles(type), Sends(type), type = "result" => Head(farEvents).kind = "result"
        PROVE  ArtifactInv'
    <3>1. \A m \in Elements(inbox') : m.type # "cleanup_complete" /\ (m.type = "result" => type = "result")
      BY <2>3, <2>4, <2>9 DEF Sends, FrameTypes
    <3>2. type = "result" => artifact = TRUE
      BY <2>1, <2>2, <2>9
    <3>. QED
      BY <2>1, <2>9, <3>1, <3>2 DEF Settles
  <2>. QED
    BY <1>16, <2>6, <2>7, <2>8, <2>9, ServeCases
<1>17. CASE Exit
  BY <1>17 DEF Exit
<1>. QED
  BY <1>1, <1>2, <1>3, <1>4, <1>5, <1>6, <1>7, <1>8, <1>9, <1>10, <1>11, <1>12, <1>13, <1>14,
     <1>15, <1>16, <1>17 DEF SidecarNext, Host, Sidecar

LEMMA SidecarInitially == SidecarInit => SidecarInv
<1>. SUFFICES ASSUME SidecarInit PROVE SidecarInv
  OBVIOUS
<1>1. SidecarTypes
  <2>1. inbox \in Seq(Frames) /\ farControl \in Seq(Nat) /\ farEvents \in Seq(FarEvents)
    BY DEF SidecarInit
  <2>. QED
    BY <2>1 DEF SidecarInit, SidecarTypes
<1>2. ProcessInv
  BY DEF SidecarInit, ProcessInv
<1>3. InboxInv
  <2>1. Counts(<<>>, 0, 0)
    BY DEF Counts
  <2>. QED
    BY <2>1 DEF SidecarInit, InboxInv
<1>4. CancelInv /\ ArtifactInv
  BY NoElements DEF SidecarInit, CancelInv, ArtifactInv
<1>. QED
  BY <1>1, <1>2, <1>3, <1>4 DEF SidecarInv

LEMMA SidecarInvStep == ASSUME SidecarAssumption, SidecarInv, [SidecarNext]_sidecarVars PROVE SidecarInv'
<1>1. CASE SidecarNext
  BY <1>1, SidecarTypesStep, ProcessInvStep, InboxInvStep, CancelInvStep,
     ArtifactInvStep DEF SidecarInv
<1>2. CASE UNCHANGED sidecarVars
  BY <1>2 DEF SidecarInv, SidecarTypes, ProcessInv, InboxInv, CancelInv, ArtifactInv
<1>. QED
  BY <1>1, <1>2

\* The guard of sidecar-session.ts never admits a session beside a process that
\* is not known to be gone or unstoppable, a result has its artifact, and the
\* two ends count alike, for any number of sessions, heartbeats and deaths.
THEOREM SidecarPromiseKept == ASSUME SidecarAssumption PROVE SidecarSpec => []SidecarKeepsWord
<1>1. SidecarInv => SidecarKeepsWord
  BY DEF SidecarInv, SidecarTypes, ProcessInv, InboxInv, CancelInv, ArtifactInv,
         SidecarKeepsWord, NoProcessLeft, ResultHasArtifact, SequencesAgree
<1>2. SidecarInit => SidecarInv
  BY SidecarInitially
<1>3. SidecarInv /\ [SidecarNext]_sidecarVars => SidecarInv'
  BY SidecarInvStep
<1>. QED
  BY <1>1, <1>2, <1>3, PTL DEF SidecarSpec

HIDE DEF Outcomes, Cooperative, HostAborted, HostAbortError, Serving,
    hostVars, pipeVars, farVars, sidecarBounds, sidecarVars

-----------------------------------------------------------------------------
(***************************************************************************)
(* Acquisition Jobs: the attempt, the gate, the catalog and the Snapshots  *)
(* in the Library keep together across failures and crashes.               *)
(***************************************************************************)
AcqSteps == {"none", "entering", "waiting", "extracting", "acquiring", "decoding", "validating",
          "publishing", "syncing", "uncertain", "failing", "ending"}
\* The steps of an attempt that holds the gate, and those that have its record.
InGate == {"extracting", "acquiring", "decoding", "validating", "publishing", "syncing",
           "uncertain", "failing"}
OnRecord == {"extracting", "acquiring", "decoding", "validating", "publishing"}
\* The steps of an attempt that has not renamed its Snapshot.
Unpublished == {"entering", "waiting", "failing"} \cup OnRecord

AcqTypes ==
    /\ app \in {"down", "up", "unavailable"} /\ acqClosed \in {"no", "asked", "handed", "settled"}
    /\ catalog \in [Ids -> JobStates] /\ jobs \in [Ids -> JobStates]
    /\ journals \subseteq Ids /\ snapshots \subseteq Ids
    /\ workspaces \in [Ids -> SUBSET Natives]
    /\ step \in AcqSteps /\ starting \in {"none", "asked", "recording"}
    /\ made \in Nat /\ made <= MaxJobs
    /\ {offline, poisoned, startAborted, aborted, acqRunning, unsafe, cleaned, result,
        cpuBlocked} \subseteq BOOLEAN

\* Where an attempt and a start may be.
AttemptInv ==
    /\ step # "none" => acqJob \in Ids /\ acqJob <= made
    /\ app # "up" => /\ acqJob = 0 /\ step = "none" /\ starting = "none"
                      /\ result = FALSE /\ acqRunning = FALSE
    /\ starting = "asked" => made < MaxJobs
    /\ starting = "recording" => /\ step = "none" /\ made \in Ids /\ made \notin snapshots
                                 /\ decided \in {"blocked", "running"}

\* What a table of Jobs says agrees with the Library; a Job whose Snapshot may
\* yet go is running in both tables.
Agrees(t) ==
    \A j \in Ids : /\ t[j] = "succeeded" => j \in snapshots
                   /\ t[j] \in {"failed", "cancelled", "blocked"} => j \notin snapshots

SnapshotInv ==
    /\ Agrees(catalog) /\ Agrees(jobs)
    /\ \A j \in snapshots : j <= made
    /\ step # "none" \/ (result = FALSE /\ acqJob \in snapshots) =>
         catalog[acqJob] = "running" /\ jobs[acqJob] = "running"
    /\ result = TRUE => acqJob \in snapshots
    /\ step \in Unpublished => result = FALSE /\ acqJob \notin snapshots
    /\ step = "syncing" => result = FALSE /\ acqJob \in snapshots
    /\ step = "uncertain" => result = FALSE
    /\ step = "ending" => (result = TRUE <=> acqJob \in snapshots)

WorkspaceInv ==
    /\ \A j \in Ids : workspaces[j] # {} => j \in journals
    /\ step \in OnRecord => acqJob \in journals

\* A process that may live is the attempt's, or has poisoned the Jobs and, once
\* the gate is left, closed it.
AcqGateInv ==
    /\ step \in InGate => cpuActive = Acquiring
    /\ acqRunning = TRUE => cpuActive = Acquiring \/ cpuBlocked = TRUE
    /\ acqRunning = TRUE => step \in {"acquiring", "validating"} \/ poisoned = TRUE
    /\ step \in {"entering", "waiting", "extracting", "decoding", "publishing", "syncing", "uncertain"} => acqRunning = FALSE
    /\ step = "failing" /\ unsafe = FALSE => acqRunning = FALSE
    /\ starting = "recording" /\ decided = "running" => acqRunning = FALSE

CloseInv ==
    /\ acqClosed \in {"handed", "settled"} => starting = "none"
    /\ acqClosed = "settled" => step = "none"

OfflineInv ==
    /\ offline = TRUE /\ step # "none" => aborted = TRUE
    /\ offline = TRUE /\ starting = "recording" /\ decided = "running" => startAborted = TRUE

AcqInv == AcqTypes /\ AttemptInv /\ SnapshotInv /\ WorkspaceInv /\ AcqGateInv /\ CloseInv /\ OfflineInv


USE DEF AcqSteps, InGate, OnRecord, Unpublished, Up, Free, Active, Persisted, NotPersisted, Fault,
   NoFault, RunUnchanged, Throw,
    diskVars, startVars, runVars, acqBounds, acqVars, cpuVars, Enter, Leave, LeaveUnclean, Refused, Ids, JobStates, Natives

LEMMA AcqTypesStep == ASSUME AcquisitionAssumption, AcqInv, AcqNext PROVE AcqTypes'
<1>. USE DEF AcqInv, AcqTypes, AttemptInv, AcquisitionAssumption
<1>1. CASE OpenJobs
  BY <1>1 DEF OpenJobs, Recovered
<1>2. CASE Crash
  BY <1>2 DEF Crash
<1>3. CASE Ask
  BY <1>3 DEF Ask
<1>4. CASE Decide
  BY <1>4 DEF Decide
<1>5. CASE Record
  BY <1>5 DEF Record
<1>6. CASE CancelJob
  BY <1>6 DEF CancelJob
<1>7. CASE SetOffline
  BY <1>7 DEF SetOffline
<1>8. CASE Forget
  BY <1>8, ZenonT(100) DEF Forget, Forgettable
<1>9. CASE Close
  BY <1>9 DEF Close
<1>10. CASE CloseHanded
  BY <1>10 DEF CloseHanded
<1>11. CASE CloseSettled
  BY <1>11 DEF CloseSettled
<1>12. CASE AttemptEnters
  BY <1>12 DEF AttemptEnters
<1>13. CASE AttemptLeavesQueue
  BY <1>13, AbandonFacts DEF AttemptLeavesQueue
<1>14. CASE WriteJournal
  BY <1>14 DEF WriteJournal
<1>15. CASE BeginExtractor
  BY <1>15 DEF BeginExtractor, Begin
<1>16. CASE EndExtractor
  BY <1>16 DEF EndExtractor, End
<1>17. CASE BeginDecoder
  BY <1>17 DEF BeginDecoder, Begin
<1>18. CASE EndDecoder
  BY <1>18 DEF EndDecoder, End
<1>19. CASE Publish
  <2>1. workspaces' \in [Ids -> SUBSET Natives] /\ journals' \subseteq Ids /\ cleaned' \in BOOLEAN
    <3>1. CASE Cleanup(TRUE)
      BY <1>19, <3>1 DEF Publish, Cleanup
    <3>2. CASE Cleanup(FALSE)
      BY <1>19, <3>2, ZenonT(100) DEF Publish, Cleanup
    <3>3. CASE UNCHANGED <<workspaces, journals, cleaned>>
      BY <3>3
    <3>. QED
      BY <1>19, <3>1, <3>2, <3>3 DEF Publish
  <2>2. snapshots' \subseteq Ids /\ step' \in AcqSteps
    BY <1>19 DEF Publish
  <2>3. {unsafe', poisoned'} \subseteq BOOLEAN
    BY <1>19 DEF Publish
  <2>. QED
    BY <1>19, <2>1, <2>2, <2>3 DEF Publish
<1>20. CASE SyncPublished
  BY <1>20 DEF SyncPublished
<1>21. CASE Uncertain
  BY <1>21 DEF Uncertain
<1>22. CASE CleanFailed
  BY <1>22, ZenonT(100) DEF CleanFailed, Cleanup
<1>23. CASE Finish
  BY <1>23, ZenonT(100) DEF Finish, Terminal
<1>24. CASE OthersEnter
  BY <1>24 DEF OthersEnter
<1>25. CASE OthersLeave
  BY <1>25 DEF OthersLeave
<1>. QED
  BY <1>1, <1>2, <1>3, <1>4, <1>5, <1>6, <1>7, <1>8, <1>9, <1>10, <1>11, <1>12, <1>13, <1>14,
     <1>15, <1>16, <1>17, <1>18, <1>19, <1>20, <1>21, <1>22, <1>23, <1>24, <1>25 DEF AcqNext, Attempt

LEMMA AttemptInvStep == ASSUME AcquisitionAssumption, AcqInv, AcqNext PROVE AttemptInv'
<1>. USE DEF AcqInv, AttemptInv, AcqTypes, SnapshotInv, AcquisitionAssumption
<1>1. CASE OpenJobs
  BY <1>1 DEF OpenJobs, Recovered
<1>2. CASE Crash
  BY <1>2 DEF Crash
<1>3. CASE Ask
  BY <1>3 DEF Ask
<1>4. CASE Decide
  BY <1>4 DEF Decide
<1>5. CASE Record
  BY <1>5 DEF Record
<1>6. CASE CancelJob
  BY <1>6 DEF CancelJob
<1>7. CASE SetOffline
  BY <1>7 DEF SetOffline
<1>8. CASE Forget
  BY <1>8 DEF Forget, Forgettable
<1>9. CASE Close
  BY <1>9 DEF Close
<1>10. CASE CloseHanded
  BY <1>10 DEF CloseHanded
<1>11. CASE CloseSettled
  BY <1>11 DEF CloseSettled
<1>12. CASE AttemptEnters
  BY <1>12 DEF AttemptEnters
<1>13. CASE AttemptLeavesQueue
  BY <1>13, AbandonFacts DEF AttemptLeavesQueue
<1>14. CASE WriteJournal
  BY <1>14 DEF WriteJournal
<1>15. CASE BeginExtractor
  BY <1>15 DEF BeginExtractor, Begin
<1>16. CASE EndExtractor
  BY <1>16 DEF EndExtractor, End
<1>17. CASE BeginDecoder
  BY <1>17 DEF BeginDecoder, Begin
<1>18. CASE EndDecoder
  BY <1>18 DEF EndDecoder, End
<1>19. CASE Publish
  BY <1>19 DEF Publish, Cleanup
<1>20. CASE SyncPublished
  BY <1>20 DEF SyncPublished
<1>21. CASE Uncertain
  BY <1>21 DEF Uncertain
<1>22. CASE CleanFailed
  BY <1>22 DEF CleanFailed, Cleanup
<1>23. CASE Finish
  BY <1>23 DEF Finish, Terminal
<1>24. CASE OthersEnter
  BY <1>24 DEF OthersEnter
<1>25. CASE OthersLeave
  BY <1>25 DEF OthersLeave
<1>. QED
  BY <1>1, <1>2, <1>3, <1>4, <1>5, <1>6, <1>7, <1>8, <1>9, <1>10, <1>11, <1>12, <1>13, <1>14,
     <1>15, <1>16, <1>17, <1>18, <1>19, <1>20, <1>21, <1>22, <1>23, <1>24, <1>25 DEF AcqNext, Attempt

LEMMA SnapshotInvStep == ASSUME AcquisitionAssumption, AcqInv, AcqNext PROVE SnapshotInv'
<1>. USE DEF AcqInv, SnapshotInv, AcqTypes, AttemptInv, Agrees, AcquisitionAssumption
<1>1. CASE OpenJobs
  BY <1>1, SMTT(60) DEF OpenJobs, Recovered
<1>2. CASE Crash
  BY <1>2 DEF Crash
<1>3. CASE Ask
  BY <1>3 DEF Ask
<1>4. CASE Decide
  BY <1>4 DEF Decide
<1>5. CASE Record
  BY <1>5, ZenonT(100) DEF Record
<1>6. CASE CancelJob
  BY <1>6 DEF CancelJob
<1>7. CASE SetOffline
  BY <1>7 DEF SetOffline
<1>8. CASE Forget
  BY <1>8, ZenonT(100) DEF Forget, Forgettable
<1>9. CASE Close
  BY <1>9 DEF Close
<1>10. CASE CloseHanded
  BY <1>10 DEF CloseHanded
<1>11. CASE CloseSettled
  BY <1>11 DEF CloseSettled
<1>12. CASE AttemptEnters
  BY <1>12 DEF AttemptEnters
<1>13. CASE AttemptLeavesQueue
  BY <1>13, AbandonFacts DEF AttemptLeavesQueue
<1>14. CASE WriteJournal
  BY <1>14 DEF WriteJournal
<1>15. CASE BeginExtractor
  BY <1>15 DEF BeginExtractor, Begin
<1>16. CASE EndExtractor
  BY <1>16 DEF EndExtractor, End
<1>17. CASE BeginDecoder
  BY <1>17 DEF BeginDecoder, Begin
<1>18. CASE EndDecoder
  BY <1>18 DEF EndDecoder, End
<1>19. CASE Publish
  <2>. USE DEF Publish
  <2>1. UNCHANGED <<catalog, jobs, acqJob, made, result>> /\ step = "publishing"
    BY <1>19
  <2>2. CASE step' = "syncing" /\ snapshots' = snapshots \cup {acqJob}
    <3>1. acqJob \in Ids /\ result = FALSE /\ catalog[acqJob] = "running" /\ jobs[acqJob] = "running"
      BY <2>1
    <3>2. acqJob <= made
      BY <2>1
    <3>. QED
      BY <2>1, <2>2, <3>1, <3>2
  <2>3. CASE step' = "failing" /\ UNCHANGED snapshots
    BY <2>1, <2>3
  <2>. QED
    BY <1>19, <2>2, <2>3
<1>20. CASE SyncPublished
  <2>. USE DEF SyncPublished
  <2>1. UNCHANGED <<catalog, jobs, acqJob, made>> /\ step = "syncing" /\ acqJob \in snapshots /\ result = FALSE
    BY <1>20
  <2>2. CASE step' = "ending" /\ result' = TRUE /\ UNCHANGED snapshots
    BY <2>1, <2>2
  <2>3. CASE step' \in {"failing", "uncertain"} /\ UNCHANGED result /\ snapshots' = snapshots \ {acqJob}
    BY <2>1, <2>3
  <2>4. CASE step' = "uncertain" /\ UNCHANGED <<result, snapshots>>
    BY <2>1, <2>4
  <2>. QED
    BY <1>20, <2>2, <2>3, <2>4
<1>21. CASE Uncertain
  BY <1>21 DEF Uncertain
<1>22. CASE CleanFailed
  BY <1>22 DEF CleanFailed, Cleanup
<1>23. CASE Finish
  BY <1>23, SMTT(60) DEF Finish, Terminal
<1>24. CASE OthersEnter
  BY <1>24 DEF OthersEnter
<1>25. CASE OthersLeave
  BY <1>25 DEF OthersLeave
<1>. QED
  BY <1>1, <1>2, <1>3, <1>4, <1>5, <1>6, <1>7, <1>8, <1>9, <1>10, <1>11, <1>12, <1>13, <1>14,
     <1>15, <1>16, <1>17, <1>18, <1>19, <1>20, <1>21, <1>22, <1>23, <1>24, <1>25 DEF AcqNext, Attempt

LEMMA WorkspaceInvStep == ASSUME AcquisitionAssumption, AcqInv, AcqNext PROVE WorkspaceInv'
<1>. USE DEF AcqInv, WorkspaceInv, AcqTypes, AttemptInv, AcquisitionAssumption
<1>1. CASE OpenJobs
  BY <1>1 DEF OpenJobs, Recovered
<1>2. CASE Crash
  BY <1>2 DEF Crash
<1>3. CASE Ask
  BY <1>3 DEF Ask
<1>4. CASE Decide
  BY <1>4 DEF Decide
<1>5. CASE Record
  BY <1>5 DEF Record
<1>6. CASE CancelJob
  BY <1>6 DEF CancelJob
<1>7. CASE SetOffline
  BY <1>7 DEF SetOffline
<1>8. CASE Forget
  BY <1>8 DEF Forget, Forgettable
<1>9. CASE Close
  BY <1>9 DEF Close
<1>10. CASE CloseHanded
  BY <1>10 DEF CloseHanded
<1>11. CASE CloseSettled
  BY <1>11 DEF CloseSettled
<1>12. CASE AttemptEnters
  BY <1>12 DEF AttemptEnters
<1>13. CASE AttemptLeavesQueue
  BY <1>13, AbandonFacts DEF AttemptLeavesQueue
<1>14. CASE WriteJournal
  BY <1>14 DEF WriteJournal
<1>15. CASE BeginExtractor
  BY <1>15 DEF BeginExtractor, Begin
<1>16. CASE EndExtractor
  BY <1>16 DEF EndExtractor, End
<1>17. CASE BeginDecoder
  BY <1>17 DEF BeginDecoder, Begin
<1>18. CASE EndDecoder
  BY <1>18 DEF EndDecoder, End
<1>19. CASE Publish
  BY <1>19, ZenonT(100) DEF Publish, Cleanup
<1>20. CASE SyncPublished
  BY <1>20 DEF SyncPublished
<1>21. CASE Uncertain
  BY <1>21 DEF Uncertain
<1>22. CASE CleanFailed
  BY <1>22 DEF CleanFailed, Cleanup
<1>23. CASE Finish
  BY <1>23 DEF Finish, Terminal
<1>24. CASE OthersEnter
  BY <1>24 DEF OthersEnter
<1>25. CASE OthersLeave
  BY <1>25 DEF OthersLeave
<1>. QED
  BY <1>1, <1>2, <1>3, <1>4, <1>5, <1>6, <1>7, <1>8, <1>9, <1>10, <1>11, <1>12, <1>13, <1>14,
     <1>15, <1>16, <1>17, <1>18, <1>19, <1>20, <1>21, <1>22, <1>23, <1>24, <1>25 DEF AcqNext, Attempt

LEMMA AcqGateInvStep == ASSUME AcquisitionAssumption, AcqInv, AcqNext PROVE AcqGateInv'
<1>. USE DEF AcqInv, AcqGateInv, AcqTypes, AttemptInv, AcquisitionAssumption
<1>1. CASE OpenJobs
  BY <1>1 DEF OpenJobs, Recovered
<1>2. CASE Crash
  BY <1>2 DEF Crash
<1>3. CASE Ask
  BY <1>3 DEF Ask
<1>4. CASE Decide
  BY <1>4 DEF Decide
<1>5. CASE Record
  BY <1>5 DEF Record
<1>6. CASE CancelJob
  BY <1>6 DEF CancelJob
<1>7. CASE SetOffline
  BY <1>7 DEF SetOffline
<1>8. CASE Forget
  BY <1>8 DEF Forget, Forgettable
<1>9. CASE Close
  BY <1>9 DEF Close
<1>10. CASE CloseHanded
  BY <1>10 DEF CloseHanded
<1>11. CASE CloseSettled
  BY <1>11 DEF CloseSettled
<1>12. CASE AttemptEnters
  BY <1>12 DEF AttemptEnters
<1>13. CASE AttemptLeavesQueue
  BY <1>13, AbandonFacts DEF AttemptLeavesQueue
<1>14. CASE WriteJournal
  BY <1>14 DEF WriteJournal
<1>15. CASE BeginExtractor
  BY <1>15 DEF BeginExtractor, Begin
<1>16. CASE EndExtractor
  BY <1>16 DEF EndExtractor, End
<1>17. CASE BeginDecoder
  BY <1>17 DEF BeginDecoder, Begin
<1>18. CASE EndDecoder
  BY <1>18 DEF EndDecoder, End
<1>19. CASE Publish
  BY <1>19 DEF Publish, Cleanup
<1>20. CASE SyncPublished
  BY <1>20 DEF SyncPublished
<1>21. CASE Uncertain
  BY <1>21 DEF Uncertain
<1>22. CASE CleanFailed
  BY <1>22 DEF CleanFailed, Cleanup
<1>23. CASE Finish
  BY <1>23 DEF Finish, Terminal
<1>24. CASE OthersEnter
  BY <1>24 DEF OthersEnter
<1>25. CASE OthersLeave
  BY <1>25 DEF OthersLeave
<1>. QED
  BY <1>1, <1>2, <1>3, <1>4, <1>5, <1>6, <1>7, <1>8, <1>9, <1>10, <1>11, <1>12, <1>13, <1>14,
     <1>15, <1>16, <1>17, <1>18, <1>19, <1>20, <1>21, <1>22, <1>23, <1>24, <1>25 DEF AcqNext, Attempt

LEMMA CloseInvStep == ASSUME AcquisitionAssumption, AcqInv, AcqNext PROVE CloseInv'
<1>. USE DEF AcqInv, CloseInv, AcqTypes, AttemptInv, AcquisitionAssumption
<1>1. CASE OpenJobs
  BY <1>1 DEF OpenJobs, Recovered
<1>2. CASE Crash
  BY <1>2 DEF Crash
<1>3. CASE Ask
  BY <1>3 DEF Ask
<1>4. CASE Decide
  BY <1>4 DEF Decide
<1>5. CASE Record
  BY <1>5 DEF Record
<1>6. CASE CancelJob
  BY <1>6 DEF CancelJob
<1>7. CASE SetOffline
  BY <1>7 DEF SetOffline
<1>8. CASE Forget
  BY <1>8 DEF Forget, Forgettable
<1>9. CASE Close
  BY <1>9 DEF Close
<1>10. CASE CloseHanded
  BY <1>10 DEF CloseHanded
<1>11. CASE CloseSettled
  BY <1>11 DEF CloseSettled
<1>12. CASE AttemptEnters
  BY <1>12 DEF AttemptEnters
<1>13. CASE AttemptLeavesQueue
  BY <1>13, AbandonFacts DEF AttemptLeavesQueue
<1>14. CASE WriteJournal
  BY <1>14 DEF WriteJournal
<1>15. CASE BeginExtractor
  BY <1>15 DEF BeginExtractor, Begin
<1>16. CASE EndExtractor
  BY <1>16 DEF EndExtractor, End
<1>17. CASE BeginDecoder
  BY <1>17 DEF BeginDecoder, Begin
<1>18. CASE EndDecoder
  BY <1>18 DEF EndDecoder, End
<1>19. CASE Publish
  BY <1>19 DEF Publish, Cleanup
<1>20. CASE SyncPublished
  BY <1>20 DEF SyncPublished
<1>21. CASE Uncertain
  BY <1>21 DEF Uncertain
<1>22. CASE CleanFailed
  BY <1>22 DEF CleanFailed, Cleanup
<1>23. CASE Finish
  BY <1>23 DEF Finish, Terminal
<1>24. CASE OthersEnter
  BY <1>24 DEF OthersEnter
<1>25. CASE OthersLeave
  BY <1>25 DEF OthersLeave
<1>. QED
  BY <1>1, <1>2, <1>3, <1>4, <1>5, <1>6, <1>7, <1>8, <1>9, <1>10, <1>11, <1>12, <1>13, <1>14,
     <1>15, <1>16, <1>17, <1>18, <1>19, <1>20, <1>21, <1>22, <1>23, <1>24, <1>25 DEF AcqNext, Attempt

LEMMA OfflineInvStep == ASSUME AcquisitionAssumption, AcqInv, AcqNext PROVE OfflineInv'
<1>. USE DEF AcqInv, OfflineInv, AcqTypes, AttemptInv, AcquisitionAssumption
<1>1. CASE OpenJobs
  BY <1>1 DEF OpenJobs, Recovered
<1>2. CASE Crash
  BY <1>2 DEF Crash
<1>3. CASE Ask
  BY <1>3 DEF Ask
<1>4. CASE Decide
  BY <1>4 DEF Decide
<1>5. CASE Record
  BY <1>5 DEF Record
<1>6. CASE CancelJob
  BY <1>6 DEF CancelJob
<1>7. CASE SetOffline
  BY <1>7 DEF SetOffline
<1>8. CASE Forget
  BY <1>8 DEF Forget, Forgettable
<1>9. CASE Close
  BY <1>9 DEF Close
<1>10. CASE CloseHanded
  BY <1>10 DEF CloseHanded
<1>11. CASE CloseSettled
  BY <1>11 DEF CloseSettled
<1>12. CASE AttemptEnters
  BY <1>12 DEF AttemptEnters
<1>13. CASE AttemptLeavesQueue
  BY <1>13, AbandonFacts DEF AttemptLeavesQueue
<1>14. CASE WriteJournal
  BY <1>14 DEF WriteJournal
<1>15. CASE BeginExtractor
  BY <1>15 DEF BeginExtractor, Begin
<1>16. CASE EndExtractor
  BY <1>16 DEF EndExtractor, End
<1>17. CASE BeginDecoder
  BY <1>17 DEF BeginDecoder, Begin
<1>18. CASE EndDecoder
  BY <1>18 DEF EndDecoder, End
<1>19. CASE Publish
  BY <1>19 DEF Publish, Cleanup
<1>20. CASE SyncPublished
  BY <1>20 DEF SyncPublished
<1>21. CASE Uncertain
  BY <1>21 DEF Uncertain
<1>22. CASE CleanFailed
  BY <1>22 DEF CleanFailed, Cleanup
<1>23. CASE Finish
  BY <1>23 DEF Finish, Terminal
<1>24. CASE OthersEnter
  BY <1>24 DEF OthersEnter
<1>25. CASE OthersLeave
  BY <1>25 DEF OthersLeave
<1>. QED
  BY <1>1, <1>2, <1>3, <1>4, <1>5, <1>6, <1>7, <1>8, <1>9, <1>10, <1>11, <1>12, <1>13, <1>14,
     <1>15, <1>16, <1>17, <1>18, <1>19, <1>20, <1>21, <1>22, <1>23, <1>24, <1>25 DEF AcqNext, Attempt

LEMMA AcqInitially == ASSUME AcquisitionAssumption PROVE AcqInit => AcqInv
<1>. SUFFICES ASSUME AcqInit PROVE AcqInv
  OBVIOUS
<1>. USE DEF AcqInit, AcquisitionAssumption, CpuInit
<1>1. AcqTypes
  <2>1. MaxJobs \in Nat
    BY DEF AcquisitionAssumption
  <2>2. made \in Nat /\ made <= MaxJobs
    BY <2>1
  <2>3. {offline, poisoned, startAborted, aborted, acqRunning, unsafe, cleaned, result, cpuBlocked} \subseteq BOOLEAN
    OBVIOUS
  <2>. QED
    BY <2>2, <2>3 DEF AcqTypes
<1>2. AttemptInv /\ WorkspaceInv /\ AcqGateInv /\ CloseInv /\ OfflineInv
  BY DEF AttemptInv, WorkspaceInv, AcqGateInv, CloseInv, OfflineInv
<1>3. SnapshotInv
  BY DEF SnapshotInv, Agrees
<1>. QED
  BY <1>1, <1>2, <1>3 DEF AcqInv

\* The attempt, the gate and the Library keep together.
LEMMA AcqInvStep == ASSUME AcquisitionAssumption, AcqInv, [AcqNext]_acqVars PROVE AcqInv'
<1>1. CASE AcqNext
  BY <1>1, AcqTypesStep, AttemptInvStep, SnapshotInvStep, WorkspaceInvStep, AcqGateInvStep,
     CloseInvStep,
     OfflineInvStep DEF AcqInv
<1>2. CASE UNCHANGED acqVars
  BY <1>2 DEF AcqInv, AcqTypes, AttemptInv, SnapshotInv, Agrees, WorkspaceInv, AcqGateInv,
     CloseInv, OfflineInv
<1>. QED
  BY <1>1, <1>2

\* A Job says of its end what the Library holds, every workspace is on record,
\* nothing computes beside a process that may live, close leaves nothing that
\* acts, and Offline Mode reaches every attempt: for any number of Jobs,
\* failures and crashes of acquisition-jobs.ts.
THEOREM AcquisitionPromiseKept == ASSUME AcquisitionAssumption PROVE AcqSpec => []AcquisitionKeepsWord
<1>1. AcqInv => AcquisitionKeepsWord
  BY DEF AcqInv, AcqTypes, AttemptInv, SnapshotInv, Agrees, WorkspaceInv, AcqGateInv, CloseInv,
     OfflineInv,
         AcquisitionKeepsWord, JobAgreesWithSnapshot, DomainIsWatched, ClosedIsQuiet, OfflineAborts
<1>2. AcqInit => AcqInv
  BY AcqInitially
<1>3. AcqInv /\ [AcqNext]_acqVars => AcqInv'
  BY AcqInvStep
<1>. QED
  BY <1>1, <1>2, <1>3, PTL DEF AcqSpec

HIDE DEF AcqSteps, InGate, OnRecord, Unpublished, Up, Free, Active, Persisted, NotPersisted, Fault,
   NoFault, RunUnchanged, Throw,
    diskVars, startVars, runVars, acqBounds, acqVars, cpuVars, Enter, Leave, LeaveUnclean, Refused, Ids, JobStates, Natives

-----------------------------------------------------------------------------
(***************************************************************************)
(* The conversation with the extractor: a clean-up beside an exchange, a   *)
(* launch and a broker that go on.                                         *)
(***************************************************************************)
Sessions == {"running", "cleaning", "over"}
SessionTypes ==
    /\ session \in Sessions /\ sessionAbort \in BOOLEAN /\ brokerPending \in BOOLEAN
    /\ worker \in {"none", "live", "dead", "unstopped"} /\ launch \in {"none", "pending", "settled", "unclean"}
    /\ closing \in {"no", "closing", "closed", "failed"}
    /\ brokerCall \in {"none", "asked", "resolving", "requesting", "redirecting"}
    /\ broker \in {"open", "budget_exceeded", "deadline", "cancelled"}
    /\ requests \in Nat /\ redirects \in Nat

\* An exchange that goes on beside the clean-up knows that it is aborted, and
\* a broker that closes takes nothing more on.
ExchangeInv ==
    /\ session # "running" => ending # "none" /\ (sessionAbort = TRUE \/ exchange = "done")
    /\ closing # "no" => broker # "open"
    /\ closing = "closed" => bodies = {} /\ brokerPending = FALSE
    /\ brokerCall # "none" => exchange = "opening"
    /\ session = "over" /\ ending # "cleanup_failure" =>
         closing = "closed" /\ worker \in {"none", "dead"} /\ ~Launching

\* One redirection more than allowed ends the exchange.
CountInv ==
    /\ requests <= MaxRequests /\ redirects <= MaxRedirects + 1
    /\ redirects > MaxRedirects => exchange = "done" /\ brokerCall = "none"

SessionInv == SessionTypes /\ ExchangeInv /\ CountInv

USE DEF sessionVars, brokerVars, Sessions, Launching, Ends, Refuse

LEMMA SessionInitially == ASSUME SessionAssumption PROVE AcqSessionInit => SessionInv
<1>1. MaxRequests \in Nat /\ MaxRedirects \in Nat
  BY DEF SessionAssumption
<1>. SUFFICES ASSUME AcqSessionInit PROVE SessionInv
  OBVIOUS
<1>2. SessionTypes
  BY DEF AcqSessionInit, SessionTypes
<1>3. ExchangeInv
  BY DEF AcqSessionInit, ExchangeInv
<1>4. CountInv
  BY <1>1 DEF AcqSessionInit, CountInv
<1>. QED
  BY <1>2, <1>3, <1>4 DEF SessionInv

LEMMA SessionTypesStep == ASSUME SessionAssumption, SessionInv, AcqSessionNext PROVE SessionTypes'
<1>. USE DEF SessionAssumption, SessionInv, SessionTypes, ExchangeInv, CountInv
<1>1. ASSUME NEW reason \in {"cancelled", "deadline"}, AbortSession(reason) PROVE SessionTypes'
  BY <1>1 DEF AbortSession
<1>2. CASE BeginLaunch
  BY <1>2 DEF BeginLaunch
<1>3. CASE Launched
  BY <1>3 DEF Launched
<1>4. CASE Hop
  <2>1. brokerPending' \in BOOLEAN /\ requests' \in Nat /\ brokerCall' \in {"none", "asked", "resolving", "requesting", "redirecting"}
    <3>1. \/ brokerCall' = "none" /\ UNCHANGED <<requests, brokerPending>>
          \/ brokerCall' = "resolving" /\ requests' = requests + 1 /\ brokerPending' = TRUE
      BY <1>4 DEF Hop
    <3>2. brokerPending' \in BOOLEAN
      BY <3>1
    <3>3. requests' \in Nat
      BY <3>1
    <3>4. brokerCall' \in {"none", "asked", "resolving", "requesting", "redirecting"}
      BY <3>1
    <3>. QED
      BY <3>2, <3>3, <3>4
  <2>2. session' \in Sessions
    BY <1>4 DEF Hop
  <2>. QED
    BY <2>1, <2>2, <1>4 DEF Hop
<1>5. CASE Resolve
  BY <1>5 DEF Resolve
<1>6. CASE Respond
  <2>1. brokerPending' \in BOOLEAN /\ redirects' \in Nat /\ brokerCall' \in {"none", "asked", "resolving", "requesting", "redirecting"}
    <3>1. brokerPending' = FALSE /\ brokerCall' \in {"none", "redirecting"}
      BY <1>6 DEF Respond
    <3>2. redirects' = redirects \/ redirects' = redirects + 1
      BY <1>6 DEF Respond
    <3>3. brokerPending' \in BOOLEAN
      BY <3>1
    <3>4. redirects' \in Nat
      BY <3>2
    <3>. QED
      BY <3>1, <3>3, <3>4
  <2>2. session' \in Sessions
    BY <1>6 DEF Respond
  <2>. QED
    BY <2>1, <2>2, <1>6 DEF Respond
<1>7. CASE GiveUpCall
  BY <1>7 DEF GiveUpCall
<1>8. CASE Read
  BY <1>8, ZenonT(100) DEF Read, Abort
<1>9. CASE CloseBody
  BY <1>9, ZenonT(100) DEF CloseBody
<1>10. CASE Message
  BY <1>10 DEF Message
<1>11. CASE EndOfOutput
  BY <1>11 DEF EndOfOutput
<1>12. CASE SettleLate
  BY <1>12, ZenonT(100) DEF SettleLate
<1>13. CASE Idle
  BY <1>13 DEF Idle
<1>14. CASE CloseBroker
  BY <1>14 DEF CloseBroker, Abort
<1>15. CASE Closed
  BY <1>15, ZenonT(100) DEF Closed
<1>16. CASE StopWorker
  BY <1>16 DEF StopWorker
<1>17. CASE Over
  BY <1>17 DEF Over
<1>. QED
  BY <1>1, <1>2, <1>3, <1>4, <1>5, <1>6, <1>7, <1>8, <1>9, <1>10, <1>11, <1>12, <1>13, <1>14,
     <1>15, <1>16, <1>17 DEF AcqSessionNext, CancelSession, Deadline, Exchange, SessionCleanup

LEMMA ExchangeInvStep == ASSUME SessionAssumption, SessionInv, AcqSessionNext PROVE ExchangeInv'
<1>. USE DEF SessionAssumption, SessionInv, SessionTypes, ExchangeInv, CountInv
<1>1. ASSUME NEW reason \in {"cancelled", "deadline"}, AbortSession(reason) PROVE ExchangeInv'
  BY <1>1 DEF AbortSession
<1>2. CASE BeginLaunch
  BY <1>2 DEF BeginLaunch
<1>3. CASE Launched
  BY <1>3 DEF Launched
<1>4. CASE Hop
  BY <1>4 DEF Hop
<1>5. CASE Resolve
  BY <1>5 DEF Resolve
<1>6. CASE Respond
  BY <1>6 DEF Respond
<1>7. CASE GiveUpCall
  BY <1>7 DEF GiveUpCall
<1>8. CASE Read
  BY <1>8 DEF Read, Abort
<1>9. CASE CloseBody
  BY <1>9 DEF CloseBody
<1>10. CASE Message
  BY <1>10 DEF Message
<1>11. CASE EndOfOutput
  BY <1>11 DEF EndOfOutput
<1>12. CASE SettleLate
  BY <1>12 DEF SettleLate
<1>13. CASE Idle
  BY <1>13 DEF Idle
<1>14. CASE CloseBroker
  BY <1>14 DEF CloseBroker, Abort
<1>15. CASE Closed
  BY <1>15 DEF Closed
<1>16. CASE StopWorker
  BY <1>16 DEF StopWorker
<1>17. CASE Over
  BY <1>17 DEF Over
<1>. QED
  BY <1>1, <1>2, <1>3, <1>4, <1>5, <1>6, <1>7, <1>8, <1>9, <1>10, <1>11, <1>12, <1>13, <1>14,
     <1>15, <1>16, <1>17 DEF AcqSessionNext, CancelSession, Deadline, Exchange, SessionCleanup

LEMMA CountInvStep == ASSUME SessionAssumption, SessionInv, AcqSessionNext PROVE CountInv'
<1>. USE DEF SessionAssumption, SessionInv, SessionTypes, ExchangeInv, CountInv
<1>1. ASSUME NEW reason \in {"cancelled", "deadline"}, AbortSession(reason) PROVE CountInv'
  BY <1>1 DEF AbortSession
<1>2. CASE BeginLaunch
  BY <1>2 DEF BeginLaunch
<1>3. CASE Launched
  BY <1>3 DEF Launched
<1>4. CASE Hop
  BY <1>4 DEF Hop
<1>5. CASE Resolve
  BY <1>5 DEF Resolve
<1>6. CASE Respond
  BY <1>6 DEF Respond
<1>7. CASE GiveUpCall
  BY <1>7 DEF GiveUpCall
<1>8. CASE Read
  BY <1>8 DEF Read, Abort
<1>9. CASE CloseBody
  BY <1>9 DEF CloseBody
<1>10. CASE Message
  BY <1>10 DEF Message
<1>11. CASE EndOfOutput
  BY <1>11 DEF EndOfOutput
<1>12. CASE SettleLate
  BY <1>12 DEF SettleLate
<1>13. CASE Idle
  BY <1>13 DEF Idle
<1>14. CASE CloseBroker
  BY <1>14 DEF CloseBroker, Abort
<1>15. CASE Closed
  BY <1>15 DEF Closed
<1>16. CASE StopWorker
  BY <1>16 DEF StopWorker
<1>17. CASE Over
  BY <1>17 DEF Over
<1>. QED
  BY <1>1, <1>2, <1>3, <1>4, <1>5, <1>6, <1>7, <1>8, <1>9, <1>10, <1>11, <1>12, <1>13, <1>14,
     <1>15, <1>16, <1>17 DEF AcqSessionNext, CancelSession, Deadline, Exchange, SessionCleanup

LEMMA SessionInvStep == ASSUME SessionAssumption, SessionInv, [AcqSessionNext]_acqSessionVars PROVE SessionInv'
<1>1. CASE AcqSessionNext
  BY <1>1, SessionTypesStep, ExchangeInvStep, CountInvStep DEF SessionInv
<1>2. CASE UNCHANGED acqSessionVars
  BY <1>2 DEF acqSessionVars, SessionInv, SessionTypes, ExchangeInv, CountInv
<1>. QED
  BY <1>1, <1>2

\* A session that is over and reports no failed clean-up has left neither a
\* process nor a response nor a request behind, and its counts can be written
\* down, for any limits and however the exchange, the abort, the broker's timers
\* and the clean-up interleave.
THEOREM ExtractorPromiseKept == ASSUME SessionAssumption PROVE AcqSessionSpec => []ExtractorKeepsWord
<1>1. SessionInv => ExtractorKeepsWord
  BY DEF SessionInv, SessionTypes, ExchangeInv, CountInv, ExtractorKeepsWord, SessionReleases,
     CountersFit
<1>. QED
  BY SessionInitially, SessionInvStep, <1>1, PTL DEF AcqSessionSpec

-----------------------------------------------------------------------------
USE DEF Kinds, CallPhases, Inside, Phases, RunKinds, States, Failures

(***************************************************************************)
(* The types of the four, bounds included.  The gate first: it is held and *)
(* waited for by those who enter it, whatever they do.                     *)
(***************************************************************************)
GateTypes(W) == cpuActive \in W \cup {NoWork} /\ cpuWaiting \in Seq(W)
GateMoves(W) ==
    \/ UNCHANGED <<cpuActive, cpuWaiting>>
    \/ cpuActive' = NoWork /\ cpuWaiting' = <<>>
    \/ \E w \in W : Enter(w) \/ Leave(w) \/ LeaveUnclean(w) \/ Abandon(w)

LEMMA GateStep == ASSUME NEW W, GateTypes(W), GateMoves(W) PROVE GateTypes(W)'
<1>0. cpuActive \in W \cup {NoWork} /\ cpuWaiting \in Seq(W)
  BY DEF GateTypes
<1>1. CASE UNCHANGED <<cpuActive, cpuWaiting>>
  BY <1>1 DEF GateTypes
<1>2. CASE cpuActive' = NoWork /\ cpuWaiting' = <<>>
  BY <1>2 DEF GateTypes
<1>3. ASSUME NEW w \in W, Enter(w) PROVE GateTypes(W)'
  <2>1. cpuActive' \in {w, cpuActive} /\ cpuWaiting' \in {cpuWaiting, Append(cpuWaiting, w)}
    BY <1>3 DEF Enter
  <2>2. Append(cpuWaiting, w) \in Seq(W)
    BY <1>0, <1>3
  <2>. QED
    BY <1>0, <1>3, <2>1, <2>2 DEF GateTypes
<1>4. ASSUME NEW w \in W, Leave(w) PROVE GateTypes(W)'
  <2>1. CASE cpuWaiting = <<>>
    BY <1>0, <1>4, <2>1 DEF Leave, GateTypes
  <2>2. CASE cpuWaiting # <<>>
    <3>1. Head(cpuWaiting) \in W /\ Tail(cpuWaiting) \in Seq(W)
      BY <1>0, <2>2
    <3>. QED
      BY <1>4, <2>2, <3>1 DEF Leave, GateTypes
  <2>. QED
    BY <2>1, <2>2
<1>5. ASSUME NEW w \in W, LeaveUnclean(w) PROVE GateTypes(W)'
  BY <1>2, <1>5 DEF LeaveUnclean
<1>6. ASSUME NEW w \in W, Abandon(w) PROVE GateTypes(W)'
  <2>1. PICK i \in DOMAIN cpuWaiting :
          cpuWaiting' = SubSeq(cpuWaiting, 1, i - 1) \o SubSeq(cpuWaiting, i + 1, Len(cpuWaiting))
    BY <1>6 DEF Abandon
  <2>2. i \in 1..Len(cpuWaiting) /\ Len(cpuWaiting) \in Nat
    BY <1>0, <2>1
  <2>3. SubSeq(cpuWaiting, 1, i - 1) \in Seq(W) /\ SubSeq(cpuWaiting, i + 1, Len(cpuWaiting)) \in Seq(W)
    BY <1>0, <2>2
  <2>4. cpuWaiting' \in Seq(W)
    BY <2>1, <2>3
  <2>5. cpuActive' = cpuActive
    BY <1>6 DEF Abandon
  <2>. QED
    BY <1>0, <2>4, <2>5 DEF GateTypes
<1>. QED
  BY <1>1, <1>2, <1>3, <1>4, <1>5, <1>6 DEF GateMoves

\* Alignment: who works behind the gate, and what is counted.
Works == Recipes \cup OtherWork
CountsInv ==
    /\ failures \in 0..CircuitLimit /\ suspended \in BOOLEAN /\ closed \in BOOLEAN /\ results \subseteq Recipes
    /\ runs \in 0..MaxRuns /\ (phase # "none" => runs # 0)
    /\ marker \subseteq 1..MaxRuns /\ space \subseteq 1..MaxRuns

LEMMA AlignmentGate == ASSUME AlignmentAssumption, AInv, [Next]_vars PROVE GateMoves(Works)
<1>1. ASSUME NEW k \in Recipes, Run(k) PROVE GateMoves(Works)
  <2>1. k \in Works
    BY DEF Works
  <2>2. UNCHANGED <<cpuActive, cpuWaiting>> \/ Enter(k) \/ Leave(k) \/ LeaveUnclean(k) \/ Abandon(k)
    BY <1>1 DEF Run, EnterGate, LeaveQueue, Verify, Prepare, LaunchWorker, Session, Teardown, Validate, Settle, EndRun, cpuVars
  <2>. QED
    BY <2>1, <2>2 DEF GateMoves
<1>2. CASE Others
  <2>1. \A w \in OtherWork : w \in Works
    BY DEF Works
  <2>. QED
    BY <1>2, <2>1 DEF Others, OtherEnters, OtherLeaves, GateMoves
<1>3. CASE Restart
  BY <1>3 DEF Restart, GateMoves
<1>4. ASSUME NEW c \in Callers, Renderer(c) PROVE GateMoves(Works)
  BY <1>4 DEF Renderer, Call, AskForJob, AskToConfirm, Launch, AskToCancel, cpuVars, GateMoves
<1>5. ASSUME NEW k \in Recipes, Operation(k) PROVE GateMoves(Works)
  BY <1>5 DEF Operation, DoRequest, DoConfirm, DoCancel, DoRun, DoPublish, DoComplete, DoFail, cpuVars, GateMoves
<1>6. CASE DoInterrupt \/ FailWrite \/ SetSuspended \/ Dispose \/ UNCHANGED vars
  BY <1>6 DEF DoInterrupt, FailWrite, SetSuspended, Dispose, vars, cpuVars, GateMoves
<1>. QED
  BY <1>1, <1>2, <1>3, <1>4, <1>5, <1>6 DEF Next

LEMMA CountsStep == ASSUME AlignmentAssumption, AInv, CountsInv, [Next]_vars PROVE CountsInv'
<1>. USE DEF jobVars, serviceVars, workerVars, boundVars, cpuVars
<1>0. /\ failures \in 0..CircuitLimit /\ CircuitLimit \in Nat /\ MaxRuns \in Nat /\ runs \in 0..MaxRuns
      /\ results \subseteq Recipes /\ marker \subseteq 1..MaxRuns /\ space \subseteq 1..MaxRuns
  BY DEF CountsInv, AlignmentAssumption
<1>1. phase # "none" => runs \in 1..MaxRuns
  BY <1>0 DEF CountsInv
<1>2. ASSUME UNCHANGED <<failures, suspended, closed, results>>,
             runs' = runs \/ (runs < MaxRuns /\ runs' = runs + 1),
             phase' # "none" => phase # "none" \/ runs' # runs,
             marker' \subseteq marker \cup {runs}, space' \subseteq space \cup {runs},
             phase = "none" => UNCHANGED <<marker, space>>
      PROVE  CountsInv'
  <2>1. marker' \subseteq 1..MaxRuns /\ space' \subseteq 1..MaxRuns
    BY <1>0, <1>1, <1>2
  <2>2. runs' \in 0..MaxRuns /\ (phase' # "none" => runs' # 0)
    BY <1>0, <1>1, <1>2
  <2>. QED
    BY <1>2, <2>1, <2>2 DEF CountsInv
<1>3. ASSUME NEW k \in Recipes, Run(k) PROVE CountsInv'
  <2>1. UNCHANGED <<failures, suspended, closed, results>> /\ phase # "none"
    BY <1>3 DEF Run, EnterGate, LeaveQueue, Verify, Prepare, LaunchWorker, Session, Teardown, Validate, Settle, EndRun
  <2>2. runs' = runs \/ (runs < MaxRuns /\ runs' = runs + 1)
    BY <1>3 DEF Run, EnterGate, LeaveQueue, Verify, Prepare, LaunchWorker, Session, Teardown, Validate, Settle, EndRun
  <2>3. marker' \subseteq marker \cup {runs} /\ space' \subseteq space \cup {runs}
    BY <1>3 DEF Run, EnterGate, LeaveQueue, Verify, Prepare, LaunchWorker, Session, Teardown, Validate, Settle, EndRun
  <2>. QED
    BY <1>2, <2>1, <2>2, <2>3
<1>4. ASSUME NEW c \in Callers, Renderer(c) PROVE CountsInv'
  <2>1. UNCHANGED <<failures, suspended, closed, results, marker, space>>
    BY <1>4 DEF Renderer, Call, AskForJob, AskToConfirm, Launch, PumpWith, AskToCancel
  <2>2. /\ runs' = runs \/ (runs < MaxRuns /\ runs' = runs + 1)
        /\ phase' # "none" => phase # "none" \/ runs' # runs
    BY <1>0, <1>4 DEF Renderer, Call, AskForJob, AskToConfirm, Launch, PumpWith, MayPump, AskToCancel
  <2>. QED
    BY <1>2, <2>1, <2>2
<1>5. ASSUME NEW k \in Recipes, DoRequest(k) \/ DoConfirm(k) \/ DoCancel(k) \/ DoRun(k) \/ DoComplete(k) PROVE CountsInv'
  <2>1. UNCHANGED <<failures, suspended, closed, results, runs, marker, space>>
    BY <1>5 DEF DoRequest, DoConfirm, DoCancel, DoRun, DoComplete
  <2>2. phase' # "none" => phase # "none"
    <3>1. CASE DoRun(k)
      <4>1. line # <<>> /\ line[1] = Op("run", k)
        BY <3>1 DEF DoRun, First, AInv, AlignTypes
      <4>2. 1 \in DOMAIN line /\ line[1].kind = "run"
        BY <4>1 DEF AInv, AlignTypes, Op
      <4>3. phase = "starting"
        BY <4>2 DEF AInv, LineInv, RunKinds, WaitsFor
      <4>. QED
        BY <4>3
    <3>2. CASE DoComplete(k)
      <4>1. line # <<>> /\ line[1] = Op("publish", k)
        BY <3>2 DEF DoComplete, First, AInv, AlignTypes
      <4>2. 1 \in DOMAIN line /\ line[1].kind = "publish"
        BY <4>1 DEF AInv, AlignTypes, Op
      <4>3. phase = "inLine"
        BY <4>2 DEF AInv, LineInv, RunKinds, WaitsFor
      <4>. QED
        BY <4>3
    <3>3. CASE DoRequest(k) \/ DoConfirm(k) \/ DoCancel(k)
      BY <3>3 DEF DoRequest, DoConfirm, DoCancel
    <3>. QED
      BY <1>5, <3>1, <3>2, <3>3
  <2>. QED
    BY <1>2, <2>1, <2>2
<1>6. ASSUME NEW k \in Recipes, DoPublish(k) PROVE CountsInv'
  <2>1. line # <<>> /\ line[1] = Op("publish", k)
    BY <1>6 DEF DoPublish, First, AInv, AlignTypes
  <2>2. 1 \in DOMAIN line /\ line[1].kind = "publish"
    BY <2>1 DEF AInv, AlignTypes, Op
  <2>3. phase = "inLine"
    BY <2>2 DEF AInv, LineInv, RunKinds, WaitsFor
  <2>4. results' \subseteq Recipes /\ UNCHANGED <<failures, suspended, closed, runs, marker, space>>
    BY <1>0, <1>6 DEF DoPublish
  <2>. QED
    BY <1>0, <1>1, <2>3, <2>4 DEF CountsInv
<1>7. ASSUME NEW k \in Recipes, DoFail(k) PROVE CountsInv'
  <2>1. line # <<>> /\ line[1] = Op("fail", k)
    BY <1>7 DEF DoFail, First, AInv, AlignTypes
  <2>2. 1 \in DOMAIN line /\ line[1].kind = "fail"
    BY <2>1 DEF AInv, AlignTypes, Op
  <2>3. phase = "settling"
    BY <2>2 DEF AInv, LineInv, RunKinds, WaitsFor
  <2>4. failures' \in {failures, Counted} /\ UNCHANGED <<suspended, closed, results, runs, marker, space>>
    BY <1>7 DEF DoFail
  <2>5. failures' \in 0..CircuitLimit
    BY <1>0, <2>4 DEF Counted
  <2>. QED
    BY <1>0, <1>1, <2>3, <2>4, <2>5 DEF CountsInv
<1>8. CASE DoInterrupt \/ UNCHANGED vars
  BY <1>2, <1>8 DEF DoInterrupt, vars
<1>9. CASE FailWrite
  <2>0. line # <<>> /\ line[1] \in Ops /\ Head(line) = line[1] /\ 1 \in DOMAIN line
    BY <1>9 DEF FailWrite, AInv, AlignTypes
  <2>1. UNCHANGED <<failures, suspended, closed, results, runs, marker, space>>
    BY <1>9 DEF FailWrite
  <2>2. line[1].kind \in {"run", "fail", "publish"} => phase # "none"
    BY <2>0 DEF AInv, LineInv, RunKinds, WaitsFor
  <2>3. phase' # "none" => phase # "none"
    BY <1>9, <2>0, <2>2 DEF FailWrite
  <2>. QED
    BY <1>2, <2>1, <2>3
<1>10. CASE SetSuspended \/ Dispose
  <2>1. UNCHANGED <<failures, results, runs, marker, space, phase>>
    BY <1>10 DEF SetSuspended, Dispose
  <2>2. suspended' \in BOOLEAN
    BY <1>10 DEF SetSuspended, Dispose, CountsInv
  <2>3. closed' \in BOOLEAN
    BY <1>10 DEF SetSuspended, Dispose, CountsInv
  <2>. QED
    BY <2>1, <2>2, <2>3 DEF CountsInv
<1>11. CASE Restart
  <2>1. failures' = 0 /\ suspended' = FALSE /\ closed' = FALSE /\ UNCHANGED <<runs, results>> /\ phase' = "none"
        /\ marker' = {} /\ space' \subseteq space
    BY <1>11 DEF Restart
  <2>2. failures' \in 0..CircuitLimit /\ runs' \in 0..MaxRuns
    BY <1>0, <2>1
  <2>3. marker' \subseteq 1..MaxRuns /\ space' \subseteq 1..MaxRuns /\ results' \subseteq Recipes
    BY <1>0, <2>1
  <2>. QED
    BY <2>1, <2>2, <2>3 DEF CountsInv
<1>12. CASE Others
  BY <1>2, <1>12 DEF Others
<1>. QED
  BY <1>3, <1>4, <1>5, <1>6, <1>7, <1>8, <1>9, <1>10, <1>11, <1>12 DEF Next, Operation

LEMMA AlignmentTypesOK ==
    ASSUME AlignmentAssumption, AInv, CountsInv, GateTypes(Works) PROVE TypeOK
<1>1. /\ job \in [Recipes -> States] /\ circuit \subseteq Recipes
      /\ control \in [Recipes -> {"none", "live", "aborted"}]
      /\ failures \in 0 .. CircuitLimit /\ pending \in Seq(Recipes) /\ running \in Recipes \cup {NoRecipe}
      /\ failure \in Failures
  BY DEF AInv, AlignTypes, CountsInv
<1>2. line \in Seq([kind : {"request", "confirm", "cancel", "interrupt", "run", "publish", "fail"},
                    of : Recipes \cup {NoRecipe}])
  BY DEF AInv, AlignTypes, Ops, Kinds
<1>3. call \in [Callers -> [phase : {"none", "start", "chosen", "request", "confirm", "confirmed",
                                     "chosenToCancel", "cancel"},
                            of : Recipes \cup {NoRecipe}]]
  BY DEF AInv, AlignTypes, Calls, CallPhases
<1>4. marker \subseteq 1 .. MaxRuns /\ space \subseteq 1 .. MaxRuns /\ results \subseteq Recipes
  BY DEF CountsInv
<1>5. publishing \in BOOLEAN /\ process \in BOOLEAN /\ reaped \in BOOLEAN /\ cpuBlocked \in BOOLEAN
  BY DEF AInv, AlignTypes
<1>6. suspended \in BOOLEAN /\ closed \in BOOLEAN
  BY DEF CountsInv
<1>7. cpuActive \in Recipes \cup OtherWork \cup {NoWork} /\ cpuWaiting \in Seq(Recipes \cup OtherWork)
  BY DEF GateTypes, Works
<1>. QED
  BY <1>1, <1>2, <1>3, <1>4, <1>5, <1>6, <1>7 DEF TypeOK

LEMMA GateFree == ASSUME NEW W, CpuInit PROVE GateTypes(W)
  BY DEF CpuInit, GateTypes

LEMMA CountsInitially == ASSUME AlignmentAssumption, Init PROVE CountsInv
<1>1. CircuitLimit \in Nat /\ MaxRuns \in Nat
  BY DEF AlignmentAssumption
<1>2. failures \in 0..CircuitLimit /\ runs \in 0..MaxRuns
  BY <1>1 DEF Init
<1>3. suspended \in BOOLEAN /\ closed \in BOOLEAN
  BY DEF Init
<1>. QED
  BY <1>2, <1>3 DEF Init, CountsInv

\* Acquisition, which shares the gate.
LEMMA AcquisitionGate == ASSUME [AcqNext]_acqVars PROVE GateMoves({Acquiring, Other})
<1>. USE DEF cpuVars, GateMoves
<1>1. CASE UNCHANGED acqVars
  BY <1>1 DEF acqVars
<1>2. CASE OpenJobs \/ Crash
  BY <1>2 DEF OpenJobs, Crash
<1>3. CASE Ask \/ Decide \/ Record \/ CancelJob \/ SetOffline \/ Forget
  BY <1>3 DEF Ask, Decide, Record, CancelJob, SetOffline, Forget
<1>4. CASE Close \/ CloseHanded \/ CloseSettled
  BY <1>4 DEF Close, CloseHanded, CloseSettled
<1>5. CASE AttemptEnters \/ AttemptLeavesQueue \/ WriteJournal
  BY <1>5 DEF AttemptEnters, AttemptLeavesQueue, WriteJournal
<1>6. CASE BeginExtractor \/ EndExtractor \/ BeginDecoder \/ EndDecoder
  BY <1>6 DEF BeginExtractor, EndExtractor, BeginDecoder, EndDecoder, Begin, End
<1>7. CASE Publish \/ SyncPublished \/ Uncertain \/ CleanFailed \/ Finish
  BY <1>7 DEF Publish, SyncPublished, Uncertain, CleanFailed, Finish
<1>8. CASE OthersEnter \/ OthersLeave
  BY <1>8 DEF OthersEnter, OthersLeave
<1>. QED
  BY <1>1, <1>2, <1>3, <1>4, <1>5, <1>6, <1>7, <1>8 DEF AcqNext, Attempt

LEMMA AcquisitionTypesOK == ASSUME AcqInv, GateTypes({Acquiring, Other}) PROVE AcqTypeOK
  BY DEF AcqInv, AcqTypes, GateTypes, AcqTypeOK

\* The session with the sidecar.
LEMMA SidecarTypesOK == ASSUME SidecarInv PROVE SidecarTypeOK
<1>1. inbox \in Seq(Frames)
  BY DEF SidecarInv, SidecarTypes
<1>2. \A i \in DOMAIN inbox : inbox[i] \in Frames
  BY <1>1
<1>3. \A i \in DOMAIN inbox : inbox[i].sequence \in Nat
  BY <1>2 DEF Frames
<1>. QED
  BY <1>3 DEF SidecarInv, SidecarTypes, SidecarTypeOK

\* The conversation with the extractor: a body is numbered by the message
\* that asked for it.
StreamsInv ==
    /\ messages \in 0..MaxMessages /\ (brokerCall # "none" => messages # 0)
    /\ table \subseteq Streams /\ bodies \subseteq Streams

LEMMA StreamsInitially == ASSUME SessionAssumption, AcqSessionInit PROVE StreamsInv
  BY DEF SessionAssumption, AcqSessionInit, StreamsInv, Streams

LEMMA StreamsStep == ASSUME SessionAssumption, StreamsInv, [AcqSessionNext]_acqSessionVars PROVE StreamsInv'
<1>. USE DEF sessionVars, brokerVars
<1>0. MaxMessages \in Nat /\ messages \in 0..MaxMessages /\ (brokerCall # "none" => messages \in Streams)
      /\ table \subseteq Streams /\ bodies \subseteq Streams
  BY DEF SessionAssumption, StreamsInv, Streams
<1>1. ASSUME messages' = messages, brokerCall' # "none" => brokerCall # "none",
             table' \subseteq table \cup (IF brokerCall = "none" THEN {} ELSE {messages}),
             bodies' \subseteq bodies \cup (IF brokerCall = "none" THEN {} ELSE {messages})
      PROVE  StreamsInv'
  <2>1. table' \subseteq Streams /\ bodies' \subseteq Streams
    BY <1>0, <1>1
  <2>. QED
    BY <1>1, <2>1 DEF StreamsInv, Streams
<1>2. CASE Message
  <2>0. messages < MaxMessages /\ messages' = messages + 1
    BY <1>2 DEF Message
  <2>1. messages' \in 0..MaxMessages /\ messages' # 0
    BY <1>0, <2>0
  <2>2. UNCHANGED <<table, bodies>>
    BY <1>2 DEF Message
  <2>. QED
    BY <1>0, <2>1, <2>2 DEF StreamsInv, Streams
<1>3. CASE UNCHANGED acqSessionVars \/ CancelSession \/ Deadline \/ EndOfOutput \/ SettleLate \/ Idle
  BY <1>1, <1>3 DEF acqSessionVars, CancelSession, Deadline, AbortSession, EndOfOutput, SettleLate, Idle
<1>4. CASE BeginLaunch \/ Launched \/ GiveUpCall
  BY <1>1, <1>4 DEF BeginLaunch, Launched, GiveUpCall
<1>5. CASE Hop \/ Resolve
  BY <1>1, <1>5 DEF Hop, Resolve, Refuse
<1>6. CASE Respond
  <2>1. messages' = messages /\ brokerCall # "none"
    BY <1>6 DEF Respond
  <2>2. table' \subseteq table \cup {messages} /\ bodies' \subseteq bodies \cup {messages}
    BY <1>6 DEF Respond
  <2>. QED
    BY <1>1, <2>1, <2>2
<1>7. CASE Read \/ CloseBody
  <2>1. UNCHANGED <<messages, brokerCall>> /\ table' \subseteq table /\ bodies' \subseteq bodies
    BY <1>7 DEF Read, CloseBody
  <2>. QED
    BY <1>1, <2>1
<1>8. CASE SessionCleanup
  BY <1>1, <1>8 DEF SessionCleanup, CloseBroker, Closed, StopWorker, Over
<1>. QED
  BY <1>2, <1>3, <1>4, <1>5, <1>6, <1>7, <1>8 DEF AcqSessionNext, Exchange

LEMMA SessionTypesOK == ASSUME SessionInv, StreamsInv PROVE AcqSessionTypeOK
  BY DEF SessionInv, SessionTypes, Sessions, StreamsInv, AcqSessionTypeOK

(***************************************************************************)
(* The four together: each moves alone, on its own invariant.              *)
(***************************************************************************)
PartInv ==
    /\ which = "alignment" => AInv /\ CountsInv /\ GateTypes(Works)
    /\ which = "sidecar" => SidecarInv
    /\ which = "acquisition" => AcqInv /\ GateTypes({Acquiring, Other})
    /\ which = "extractor" => SessionInv /\ StreamsInv

\* MCTypeOK: in alignment, the session with the sidecar, acquisition and the
\* conversation with its extractor, every variable has its type and every
\* count its bound.  That rests on what each part keeps: a run and its
\* operation are one (alignment), the gate is held by those who entered it,
\* both ends count alike (sidecar) and a body has the number of the message
\* that asked for it (extractor).
THEOREM ProcessesTypes ==
    ASSUME AlignmentAssumption, SidecarAssumption, AcquisitionAssumption, SessionAssumption
    PROVE  MCSpec => []MCTypeOK
<1>1. ASSUME MCInit PROVE PartInv
  <2>. Init /\ SidecarInit /\ AcqInit /\ AcqSessionInit
    BY <1>1 DEF MCInit
  <2>1. AInv /\ CountsInv /\ GateTypes(Works)
    BY InitInv, CountsInitially, GateFree DEF Init
  <2>2. SidecarInv /\ AcqInv /\ SessionInv /\ StreamsInv
    BY SidecarInitially, AcqInitially, SessionInitially, StreamsInitially
  <2>3. GateTypes({Acquiring, Other})
    BY GateFree DEF Init
  <2>. QED
    BY <2>1, <2>2, <2>3 DEF PartInv
<1>2. ASSUME PartInv, [MCNext]_mcVars PROVE PartInv'
  <2>0. which' = which
    BY <1>2 DEF MCNext, mcVars
  <2>1. CASE which = "alignment"
    <3>1. [Next]_vars
      BY <1>2, <2>1 DEF MCNext, mcVars, Aligns, TalksToSidecar, Acquires, TalksToExtractor, alignVars, vars
    <3>. QED
      BY <1>2, <2>0, <2>1, <3>1, NextInv, CountsStep, AlignmentGate, GateStep DEF PartInv
  <2>2. CASE which = "sidecar"
    <3>1. [SidecarNext]_sidecarVars
      BY <1>2, <2>2 DEF MCNext, mcVars, Aligns, TalksToSidecar, Acquires, TalksToExtractor
    <3>. QED
      BY <1>2, <2>0, <2>2, <3>1, SidecarInvStep DEF PartInv
  <2>3. CASE which = "acquisition"
    <3>1. [AcqNext]_acqVars
      BY <1>2, <2>3 DEF MCNext, mcVars, Aligns, TalksToSidecar, Acquires, TalksToExtractor, acquireVars, acqVars
    <3>. QED
      BY <1>2, <2>0, <2>3, <3>1, AcqInvStep, AcquisitionGate, GateStep DEF PartInv
  <2>4. CASE which = "extractor"
    <3>1. [AcqSessionNext]_acqSessionVars
      BY <1>2, <2>4 DEF MCNext, mcVars, Aligns, TalksToSidecar, Acquires, TalksToExtractor
    <3>. QED
      BY <1>2, <2>0, <2>4, <3>1, SessionInvStep, StreamsStep DEF PartInv
  <2>. QED
    BY <2>0, <2>1, <2>2, <2>3, <2>4 DEF PartInv
<1>3. ASSUME PartInv PROVE MCTypeOK
  BY <1>3, AlignmentTypesOK, SidecarTypesOK, AcquisitionTypesOK, SessionTypesOK DEF PartInv, MCTypeOK
<1>. QED
  BY <1>1, <1>2, <1>3, PTL DEF MCSpec
=============================================================================
