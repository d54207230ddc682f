--------------------------- MODULE ProjectEvents ---------------------------
(***************************************************************************)
(* What the renderer shows of a Project: the Library's commits, the        *)
(* gateway of desktop-command-gateway.ts, the event stream of the preload  *)
(* and the committed-project store of the renderer.  Electron delivers in  *)
(* order, each way, what main and the renderer send one another.           *)
(***************************************************************************)
EXTENDS Integers, Sequences, FiniteSets, SequencesExt

CONSTANTS
    Projects, NoProject,
    MaxPending,         \* MAX_PENDING_MUTATIONS
    MaxPerProject,      \* MAX_MUTATIONS_PER_PROJECT
    MaxSequence,        \* commits of a Project
    MaxRequests,        \* openings and mutations by the user
    MaxFaults           \* reads that fail and windows that are replaced

EventsAssumption ==
    /\ IsFiniteSet(Projects) /\ NoProject \notin Projects
    /\ {MaxPending, MaxPerProject, MaxSequence, MaxRequests, MaxFaults} \subseteq Nat
    /\ MaxSequence > 1

VARIABLES
    sequence,       \* the committed sequence of each Project, in main
    mutations,      \* the gateway's queue of each Project: expected sequences
    toMain,         \* requests on their way
    toRenderer,     \* events and replies on their way
    last,           \* the preload's #lastSequences
    recovery,       \* the preload's #recoveries
    active,         \* the store's activeProjectId
    request,        \* its requestSequence
    state,          \* its state
    actions,        \* openings and mutations so far
    faults

mainVars == <<sequence, mutations>>
preloadVars == <<last, recovery>>
storeVars == <<active, request, state>>
eventVars == <<mainVars, toMain, toRenderer, preloadVars, storeVars, actions, faults>>

State(kind, p, s) == [kind |-> kind, of |-> p, at |-> s]
Message(kind, p, id, s) == [kind |-> kind, of |-> p, id |-> id, at |-> s]
Failed == 0     \* in the place of the sequence of a snapshot

\* A recovery under way: the sequence before its refresh and the events that
\* wait for it, the one it is for first.
NoRecovery == [before |-> 0, waiting |-> <<>>]

EventsInit ==
    /\ sequence \in [Projects -> 1..2]
    /\ mutations = [p \in Projects |-> <<>>]
    /\ toMain = <<>> /\ toRenderer = <<>>
    /\ last = [p \in Projects |-> 0]
    /\ recovery = [p \in Projects |-> NoRecovery]
    /\ active = NoProject /\ request = 0 /\ state = State("idle", NoProject, 0)
    /\ actions = 0 /\ faults = 0

(***************************************************************************)
(* Main: the gateway reads at once and queues mutations by Project.        *)
(***************************************************************************)
Send(messages) == toRenderer' = toRenderer \o messages

Announced(p) == Message("event", p, 0, sequence[p] + 1)

\* An analysis, an alignment or an import commits.
CommitElsewhere(p) ==
    /\ sequence[p] < MaxSequence
    /\ sequence' = [sequence EXCEPT ![p] = @ + 1]
    /\ Send(<<Announced(p)>>)
    /\ UNCHANGED <<mutations, toMain, preloadVars, storeVars, actions, faults>>

Requested(kind) == toMain # <<>> /\ Head(toMain).kind = kind /\ toMain' = Tail(toMain)

\* project.get_snapshot, asked by the store or by a recovery.
AnswerRead ==
    /\ Requested("read") \/ Requested("refresh")
    /\ LET asked == Head(toMain) IN
        \/ Send(<<[asked EXCEPT !.at = sequence[asked.of]]>>) /\ UNCHANGED faults
        \/ /\ faults < MaxFaults /\ faults' = faults + 1
           /\ Send(<<[asked EXCEPT !.at = Failed]>>)
    /\ UNCHANGED <<mainVars, preloadVars, storeVars, actions>>

PendingMutations == FoldLeft(LAMBDA n, p : n + Len(mutations[p]), 0, SetToSeq(Projects))

\* A full queue answers "busy".
EnqueueMutation ==
    /\ Requested("mutate")
    /\ LET asked == Head(toMain) IN
        mutations' = IF PendingMutations < MaxPending /\ Len(mutations[asked.of]) < MaxPerProject
                     THEN [mutations EXCEPT ![asked.of] = Append(@, asked.at)]
                     ELSE mutations
    /\ UNCHANGED <<sequence, toRenderer, preloadVars, storeVars, actions, faults>>

\* The Library commits only on the revision the user saw; it may refuse.
CommitMutation(p) ==
    /\ mutations[p] # <<>>
    /\ mutations' = [mutations EXCEPT ![p] = Tail(@)]
    /\ \/ /\ Head(mutations[p]) = sequence[p] /\ sequence[p] < MaxSequence
          /\ sequence' = [sequence EXCEPT ![p] = @ + 1]
          /\ Send(<<Announced(p)>>)
       \/ UNCHANGED <<sequence, toRenderer>>
    /\ UNCHANGED <<toMain, preloadVars, storeVars, actions, faults>>

(***************************************************************************)
(* The preload: accept and #recoverGap.  What follows an answer runs       *)
(* before the next message is taken.                                       *)
(***************************************************************************)
\* Mutant: an event beyond a gap is taken for the next.
AcceptGap(stream, s) ==
    IF s <= stream.last THEN stream ELSE [stream EXCEPT !.last = s]
\* One event against what the preload has seen of its Project.
Accept(stream, s) ==
    CASE s <= stream.last     -> stream
      [] s = stream.last + 1  -> [stream EXCEPT !.last = s, !.events = @ + 1]
      [] OTHER                -> [stream EXCEPT !.waiting = Append(@, s)]

Refreshes(p, stream) ==
    IF stream.waiting # <<>> /\ recovery[p].waiting = <<>> THEN <<Message("refresh", p, 0, 0)>> ELSE <<>>

\* The events that waited, one after another.
AcceptAll(stream, arrivals) ==
    LET after[k \in 0..Len(arrivals)] == IF k = 0 THEN stream ELSE Accept(after[k - 1], arrivals[k])
    IN after[Len(arrivals)]

\* The store's listener: a snapshot is shown, each event is read.
Notify(p, snapshots, events, refreshes) ==
    IF p = active
    THEN /\ request' = request + Len(snapshots) + events
         /\ state' = IF snapshots = <<>> THEN state ELSE State("ready", p, snapshots[1])
         /\ toMain' = toMain \o refreshes \o [i \in 1..events |-> Message("read", p, request + Len(snapshots) + i, 0)]
    ELSE toMain' = toMain \o refreshes /\ UNCHANGED <<request, state>>

Received(kind) == toRenderer # <<>> /\ Head(toRenderer).kind = kind /\ toRenderer' = Tail(toRenderer)

AcceptEvent ==
    /\ Received("event")
    /\ LET p == Head(toRenderer).of
           stream == Accept([last |-> last[p], events |-> 0, waiting |-> recovery[p].waiting],
                            Head(toRenderer).at) IN
        /\ last' = [last EXCEPT ![p] = stream.last]
        /\ recovery' = [recovery EXCEPT ![p] =
                [before |-> IF Refreshes(p, stream) = <<>> THEN @.before ELSE last[p],
                 waiting |-> stream.waiting]]
        /\ Notify(p, <<>>, stream.events, Refreshes(p, stream))
    /\ UNCHANGED <<mainVars, active, actions, faults>>

Later(a, b) == IF a > b THEN a ELSE b

\* A snapshot short of the event that asked for it would be asked for once
\* more; the event was sent before the refresh is read, so none is.
Closes(p, at) == at > recovery[p].before /\ at >= Head(recovery[p].waiting)

\* The refresh of a recovery is answered.  The first event that waited takes
\* the snapshot, the others look again at what was seen.
EndRecovery ==
    /\ Received("refresh")
    /\ Closes(Head(toRenderer).of, Head(toRenderer).at)
    /\ LET p == Head(toRenderer).of
           at == Head(toRenderer).at
           stream == AcceptAll([last |-> Later(last[p], at), events |-> 0, waiting |-> <<>>],
                              Tail(recovery[p].waiting)) IN
        /\ last' = [last EXCEPT ![p] = stream.last]
        /\ recovery' = [recovery EXCEPT ![p] = [before |-> stream.last, waiting |-> stream.waiting]]
        /\ Notify(p, <<at>>, stream.events,
                   IF stream.waiting = <<>> THEN <<>> ELSE <<Message("refresh", p, 0, 0)>>)
    /\ UNCHANGED <<mainVars, active, actions, faults>>

\* Every event that waited is dropped with the error.
FailRecovery ==
    /\ Received("refresh")
    /\ ~Closes(Head(toRenderer).of, Head(toRenderer).at)
    /\ recovery' = [recovery EXCEPT ![Head(toRenderer).of] = NoRecovery]
    /\ UNCHANGED <<mainVars, toMain, last, storeVars, actions, faults>>

(***************************************************************************)
(* The store: an answer counts while no later read or snapshot has begun.  *)
(***************************************************************************)
AnswerStore ==
    /\ Received("read")
    /\ LET m == Head(toRenderer) IN
        /\ last' = [last EXCEPT ![m.of] = Later(@, m.at)]
        /\ state' = IF m.id # request \/ m.of # active THEN state
                    ELSE IF m.at = Failed THEN State("error", m.of, 0)
                    ELSE State("ready", m.of, m.at)
    /\ UNCHANGED <<mainVars, toMain, recovery, active, request, actions, faults>>

Open(p) ==
    /\ actions < MaxRequests /\ actions' = actions + 1
    /\ request' = request + 1 /\ active' = p /\ state' = State("loading", p, 0)
    /\ toMain' = Append(toMain, Message("read", p, request + 1, 0))
    /\ UNCHANGED <<mainVars, toRenderer, preloadVars, faults>>

Mutate ==
    /\ actions < MaxRequests /\ actions' = actions + 1
    /\ state.kind = "ready"
    /\ toMain' = Append(toMain, Message("mutate", state.of, 0, state.at))
    /\ UNCHANGED <<mainVars, toRenderer, preloadVars, storeVars, faults>>

\* replaceCompromisedRenderer, or a window opened again: a new preload and
\* store; the mutations the gateway holds go on.
ReplaceRenderer ==
    /\ faults < MaxFaults /\ faults' = faults + 1
    /\ toMain' = <<>> /\ toRenderer' = <<>>
    /\ last' = [p \in Projects |-> 0]
    /\ recovery' = [p \in Projects |-> NoRecovery]
    /\ active' = NoProject /\ request' = 0 /\ state' = State("idle", NoProject, 0)
    /\ UNCHANGED <<mainVars, actions>>

EventsNext ==
    \/ \E p \in Projects : CommitElsewhere(p) \/ CommitMutation(p) \/ Open(p)
    \/ AnswerRead \/ EnqueueMutation \/ AcceptEvent \/ EndRecovery \/ FailRecovery
    \/ AnswerStore \/ Mutate \/ ReplaceRenderer

EventsSpec == EventsInit /\ [][EventsNext]_eventVars

-----------------------------------------------------------------------------
EventsTypeOK ==
    /\ sequence \in [Projects -> 1..MaxSequence]
    /\ \A p \in Projects : mutations[p] \in Seq(1..MaxSequence)
    /\ last \in [Projects -> 0..MaxSequence]
    /\ active \in Projects \cup {NoProject} /\ request \in Nat
    /\ state.kind \in {"idle", "loading", "ready", "error"}

Quiet == toMain = <<>> /\ toRenderer = <<>>

\* With nothing on its way the store shows the newest commit: a read overtaken
\* by an event, an event overtaken by a snapshot, a recovery that fails or
\* that crosses a read leaves nothing older.
ShownCatchesUp ==
    Quiet /\ state.kind = "ready" => state.at = sequence[state.of]
==============================================================================
