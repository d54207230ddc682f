--------------------------- MODULE SidecarSession ---------------------------
(***************************************************************************)
(* One session at a time with a contained sidecar: the client and its      *)
(* guard (sidecar-session.ts), the framed protocol (sidecar-protocol.ts),  *)
(* the native broker that launches and stops the process, and the far end  *)
(* of the protocol (serve_one_session of protocol.py).                     *)
(***************************************************************************)
EXTENDS Naturals, Sequences

CONSTANTS
    MaxSessions,
    MaxBeats,       \* heartbeats of a session
    MaxDeaths       \* processes that die by themselves

SidecarAssumption == {MaxSessions, MaxBeats, MaxDeaths} \subseteq Nat

VARIABLES
    host,           \* where runSession is
    entered,        \* the guard's "active"
    disposed,
    cancelled,      \* request.signal is aborted
    lifecycle,      \* the reason of the timeout or the disposal, the first of them
    expected,       \* expectedSequence
    accepted,       \* handshakeAccepted
    outcome,        \* how the session ends
    farProcess,        \* "none", "live" or "dead"
    start,          \* the start frame is in the pipe
    farControl,        \* the sequences of the cancel frames in the pipe
    inbox,          \* frames on their way to the host
    far,            \* where the sidecar is
    sequence,       \* its sequence
    farEvents,         \* the queue its threads feed
    told,           \* its "cancellation" flag
    acknowledged,   \* cancel_received
    finished,       \* decode_finished
    decoding, artifact, farCleaned,
    sessions, beats, deaths

hostVars == <<host, entered, disposed, cancelled, lifecycle, expected, accepted, outcome>>
pipeVars == <<start, farControl, inbox>>
farVars == <<far, sequence, farEvents, told, acknowledged, finished, decoding, artifact, farCleaned>>
sidecarBounds == <<sessions, beats, deaths>>
sidecarVars == <<hostVars, farProcess, pipeVars, farVars, sidecarBounds>>

Cooperative == {"cancelled", "disposed", "handshake_timeout", "heartbeat_timeout", "timeout"}
Outcomes == Cooperative \cup {"none", "result", "remote_failure", "protocol_violation",
             "unexpected_eof", "launch_failure", "process_failure", "cleanup_failure"}
Frame(type, s) == [type |-> type, sequence |-> s]

SidecarInit ==
    /\ host = "idle" /\ entered = FALSE /\ disposed = FALSE /\ cancelled = FALSE
    /\ lifecycle = "none" /\ expected = 0 /\ accepted = FALSE /\ outcome = "none"
    /\ farProcess = "none" /\ start = FALSE /\ farControl = <<>> /\ inbox = <<>>
    /\ far = "none" /\ sequence = 0 /\ farEvents = <<>> /\ told = FALSE /\ acknowledged = FALSE
    /\ finished = FALSE /\ decoding = FALSE /\ artifact = FALSE /\ farCleaned = FALSE
    /\ sessions = 0 /\ beats = 0 /\ deaths = 0

(***************************************************************************)
(* The client.                                                             *)
(***************************************************************************)
\* A session begins; the workspace and the process are its own (what an
\* earlier session failed to stop is no longer looked at).
RunSession ==
    /\ host = "idle" /\ ~entered /\ ~disposed /\ sessions < MaxSessions
    /\ host' = "launching" /\ entered' = TRUE /\ sessions' = sessions + 1
    /\ cancelled' \in BOOLEAN /\ lifecycle' = "none"
    /\ expected' = 0 /\ accepted' = FALSE /\ outcome' = "none"
    /\ farProcess' = "none" /\ start' = FALSE /\ farControl' = <<>> /\ inbox' = <<>>
    /\ far' = "none" /\ sequence' = 0 /\ farEvents' = <<>> /\ told' = FALSE /\ acknowledged' = FALSE
    /\ finished' = FALSE /\ decoding' = FALSE /\ artifact' = FALSE /\ farCleaned' = FALSE
    /\ beats' = 0
    /\ UNCHANGED <<disposed, deaths>>

Cancel ==
    /\ host # "idle" /\ ~cancelled /\ cancelled' = TRUE
    /\ UNCHANGED <<host, entered, disposed, lifecycle, expected, accepted, outcome, farProcess, pipeVars, farVars, sidecarBounds>>

TimeOut ==
    /\ host # "idle" /\ lifecycle = "none" /\ lifecycle' = "timeout"
    /\ UNCHANGED <<host, entered, disposed, cancelled, expected, accepted, outcome, farProcess, pipeVars, farVars, sidecarBounds>>

DisposeClient ==
    /\ ~disposed /\ disposed' = TRUE
    /\ lifecycle' = IF entered /\ lifecycle = "none" THEN "disposed" ELSE lifecycle
    /\ UNCHANGED <<host, entered, cancelled, expected, accepted, outcome, farProcess, pipeVars, farVars, sidecarBounds>>

HostAborted == cancelled \/ lifecycle # "none"
HostAbortError == IF cancelled THEN "cancelled" ELSE lifecycle

\* acquireSidecarProcess: a launch that fails has killed its process, or
\* could not confirm it; one that comes after an abort is released.
LaunchSidecar ==
    /\ host = "launching"
    /\ \/ /\ HostAborted /\ host' = "stopped" /\ outcome' = HostAbortError
          /\ UNCHANGED <<farProcess, far, start>>
       \/ /\ host' = "stopped" /\ outcome' = (IF HostAborted THEN HostAbortError ELSE "launch_failure")
          /\ UNCHANGED <<farProcess, far, start>>
       \/ /\ host' = "stopped" /\ outcome' = "cleanup_failure"
          /\ farProcess' \in {farProcess, "live"} /\ UNCHANGED <<far, start>>
       \/ /\ farProcess' = "live" /\ far' = "start"
          /\ IF HostAborted
             THEN host' = "stopping" /\ outcome' = HostAbortError /\ UNCHANGED start
             ELSE host' = "running" /\ start' = TRUE /\ UNCHANGED outcome
    /\ UNCHANGED <<entered, disposed, cancelled, lifecycle, expected, accepted, farControl, inbox, sequence, farEvents, told, acknowledged, finished, decoding, artifact, farCleaned, sidecarBounds>>

\* The catch block of runSidecarProtocol: an abort has the last word, and is
\* announced to the sidecar with the next sequence.
Terminate(failure) ==
    LET terminal == IF HostAborted THEN HostAbortError ELSE failure IN
    /\ outcome' = terminal
    /\ IF terminal \in Cooperative
       THEN host' = "acking" /\ farControl' = Append(farControl, expected)
       ELSE host' = "stopping" /\ UNCHANGED farControl

Gone == farProcess = "dead" /\ inbox = <<>>

\* The session ends without a frame: an abort, a deadline, the end of output.
GiveUp ==
    /\ host = "running"
    /\ \/ HostAborted /\ Terminate("none")
       \/ ~HostAborted /\ inbox = <<>> /\ farProcess = "live"
            /\ Terminate(IF accepted THEN "heartbeat_timeout" ELSE "handshake_timeout")
       \/ Gone /\ \E failure \in {"unexpected_eof", "process_failure"} : Terminate(failure)
    /\ UNCHANGED <<entered, disposed, cancelled, lifecycle, expected, accepted, farProcess, start, inbox, farVars, sidecarBounds>>

Receive ==
    /\ host = "running" /\ ~HostAborted /\ inbox # <<>>
    /\ inbox' = Tail(inbox)
    /\ LET m == Head(inbox) IN
        CASE ~accepted ->
                IF m.type = "handshake"
                THEN accepted' = TRUE /\ expected' = 1 /\ UNCHANGED <<host, outcome, farControl>>
                ELSE Terminate("protocol_violation") /\ UNCHANGED <<accepted, expected>>
          [] accepted /\ m.sequence # expected ->
                Terminate("protocol_violation") /\ UNCHANGED <<accepted, expected>>
          [] accepted /\ m.sequence = expected ->
                /\ expected' = expected + 1 /\ UNCHANGED accepted
                /\ CASE m.type = "heartbeat" -> UNCHANGED <<host, outcome, farControl>>
                     [] m.type = "result" -> host' = "stopping" /\ outcome' = "result" /\ UNCHANGED farControl
                     [] m.type = "error" ->
                            host' = "stopping" /\ outcome' = "remote_failure" /\ UNCHANGED farControl
                     [] OTHER -> Terminate("protocol_violation")
    /\ UNCHANGED <<entered, disposed, cancelled, lifecycle, farProcess, start, farVars, sidecarBounds>>

\* requestCooperativeCancellation: whatever else still comes is passed over;
\* a deadline, a wrong sequence or the end of output ends it in silence.
Cooperate ==
    /\ host \in {"acking", "cleaning"}
    /\ \/ host' = "stopping" /\ UNCHANGED <<inbox, expected, farCleaned>>
       \/ /\ inbox # <<>> /\ inbox' = Tail(inbox)
          /\ LET m == Head(inbox) IN
              /\ m.type # "handshake" /\ m.sequence = expected
              /\ expected' = expected + 1
              /\ host' = CASE host = "acking" /\ m.type = "cancel_ack" -> "cleaning"
                           [] host = "cleaning" /\ m.type = "cleanup_complete" -> "stopping"
                           [] OTHER -> host
              /\ farCleaned' = (host = "cleaning" /\ m.type = "cleanup_complete")
    /\ UNCHANGED <<entered, disposed, cancelled, lifecycle, accepted, outcome, farProcess, start, farControl, far, sequence, farEvents, told, acknowledged, finished, decoding, artifact, sidecarBounds>>

\* Mutant: a process that does not stop leaves the outcome as it was.
StopAnyway ==
    /\ host = "stopping" /\ host' = "stopped"
    /\ farProcess' \in {farProcess, "dead"}
    /\ UNCHANGED <<entered, disposed, cancelled, lifecycle, expected, accepted, outcome, pipeVars, farVars, sidecarBounds>>

\* stop: SIGTERM, SIGKILL, and a failure when neither is confirmed.
Stop ==
    /\ host = "stopping" /\ host' = "stopped"
    /\ \/ farProcess' = "dead" /\ UNCHANGED outcome
       \/ farProcess = "live" /\ outcome' = "cleanup_failure" /\ UNCHANGED farProcess
    /\ UNCHANGED <<entered, disposed, cancelled, lifecycle, expected, accepted, pipeVars, farVars, sidecarBounds>>

LeaveSession ==
    /\ host = "stopped" /\ host' = "idle" /\ entered' = FALSE
    /\ UNCHANGED <<disposed, cancelled, lifecycle, expected, accepted, outcome, farProcess, pipeVars, farVars, sidecarBounds>>

(***************************************************************************)
(* The process.  The signal given to spawn ends it when the session is     *)
(* aborted; it may also die by itself.                                     *)
(***************************************************************************)
Die ==
    /\ farProcess = "live" /\ host \notin {"idle", "launching"}
    /\ HostAborted \/ deaths < MaxDeaths
    /\ deaths' = IF HostAborted THEN deaths ELSE deaths + 1
    /\ farProcess' = "dead"
    /\ UNCHANGED <<hostVars, pipeVars, farVars, sessions, beats>>

Serving == farProcess = "live" /\ host \notin {"idle", "launching"}
Write(type, s) == inbox' = Append(inbox, Frame(type, s))

Handshake ==
    /\ Serving /\ far = "start" /\ start
    /\ start' = FALSE /\ far' = "serving" /\ decoding' = TRUE
    /\ Write("handshake", 0) /\ sequence' = 1
    /\ UNCHANGED <<hostVars, farProcess, farControl, farEvents, told, acknowledged, finished, artifact, farCleaned, sidecarBounds>>

ReadControl ==
    /\ Serving /\ far = "serving" /\ farControl # <<>> /\ ~told
    /\ farControl' = Tail(farControl) /\ told' = TRUE
    /\ farEvents' = Append(farEvents, [kind |-> "cancel", at |-> Head(farControl)])
    /\ UNCHANGED <<hostVars, farProcess, start, inbox, far, sequence, acknowledged, finished, decoding, artifact, farCleaned, sidecarBounds>>

Decode ==
    /\ Serving /\ far = "serving" /\ decoding /\ decoding' = FALSE
    /\ \/ farEvents' = Append(farEvents, [kind |-> "result", at |-> 0]) /\ artifact' = TRUE
       \/ \E kind \in {"failed"} \cup (IF told THEN {"decodeCancelled"} ELSE {}) :
            farEvents' = Append(farEvents, [kind |-> kind, at |-> 0]) /\ UNCHANGED artifact
    /\ UNCHANGED <<hostVars, farProcess, pipeVars, far, sequence, told, acknowledged, finished, farCleaned, sidecarBounds>>

Beat ==
    /\ Serving /\ far = "serving" /\ farEvents = <<>> /\ beats < MaxBeats
    /\ ~acknowledged /\ ~finished
    /\ beats' = beats + 1
    /\ Write("heartbeat", sequence) /\ sequence' = sequence + 1
    /\ UNCHANGED <<hostVars, farProcess, start, farControl, far, farEvents, told, acknowledged, finished, decoding, artifact, farCleaned, sessions, deaths>>

CancelMatches(at) == 1 <= at /\ at <= sequence

\* _write_cleanup_terminal: the artifact is removed, or an error says it is not.
CleanUp(frames, s) ==
    /\ far' = "done"
    /\ \/ artifact' = FALSE /\ inbox' = frames \o <<Frame("cleanup_complete", s)>>
       \/ inbox' = frames \o <<Frame("error", s)>> /\ UNCHANGED artifact
    /\ sequence' = s + 1

\* One event of the queue.  A result waits for a cancel that is being read.
Serve ==
    /\ Serving /\ far = "serving" /\ farEvents # <<>>
    /\ LET e == Head(farEvents) rest == Tail(farEvents) IN
        CASE e.kind = "cancel" /\ ~CancelMatches(e.at) ->
                far' = "error" /\ farEvents' = rest /\ UNCHANGED <<inbox, sequence, acknowledged, finished, artifact>>
          [] e.kind = "cancel" /\ CancelMatches(e.at) ->
                /\ acknowledged' = TRUE /\ farEvents' = rest /\ UNCHANGED finished
                /\ IF finished
                   THEN CleanUp(Append(inbox, Frame("cancel_ack", sequence)), sequence + 1)
                   ELSE Write("cancel_ack", sequence) /\ sequence' = sequence + 1 /\ UNCHANGED <<far, artifact>>
          [] e.kind = "result" /\ ~acknowledged /\ told ->
                finished' = TRUE /\ farEvents' = Append(rest, e) /\ UNCHANGED <<inbox, far, sequence, acknowledged, artifact>>
          [] e.kind = "result" /\ ~acknowledged /\ ~told ->
                /\ finished' = TRUE /\ farEvents' = rest /\ far' = "done"
                /\ Write("result", sequence) /\ sequence' = sequence + 1 /\ UNCHANGED <<acknowledged, artifact>>
          [] e.kind # "cancel" /\ acknowledged ->
                finished' = TRUE /\ farEvents' = rest /\ CleanUp(inbox, sequence) /\ UNCHANGED acknowledged
          [] e.kind \in {"failed", "decodeCancelled"} /\ ~acknowledged /\ told ->
                finished' = TRUE /\ farEvents' = rest /\ UNCHANGED <<inbox, far, sequence, acknowledged, artifact>>
          [] OTHER ->
                /\ finished' = TRUE /\ farEvents' = rest /\ far' = "done"
                /\ Write("error", sequence) /\ sequence' = sequence + 1 /\ UNCHANGED <<acknowledged, artifact>>
    /\ UNCHANGED <<hostVars, farProcess, start, farControl, told, decoding, farCleaned, sidecarBounds>>

Exit ==
    /\ Serving /\ far \in {"done", "error"}
    /\ farProcess' = "dead"
    /\ UNCHANGED <<hostVars, pipeVars, farVars, sidecarBounds>>

Host == LaunchSidecar \/ GiveUp \/ Receive \/ Cooperate \/ Stop \/ LeaveSession
Sidecar == Handshake \/ ReadControl \/ Decode \/ Beat \/ Serve \/ Exit
SidecarNext == RunSession \/ Cancel \/ TimeOut \/ DisposeClient \/ Host \/ Die \/ Sidecar

\* Timers fire and promises settle; nothing is expected of the sidecar.
SidecarFairness == WF_sidecarVars(Host)
SidecarSpec == SidecarInit /\ [][SidecarNext]_sidecarVars /\ SidecarFairness

-----------------------------------------------------------------------------
SidecarTypeOK ==
    /\ host \in {"idle", "launching", "running", "acking", "cleaning", "stopping", "stopped"}
    /\ outcome \in Outcomes /\ farProcess \in {"none", "live", "dead"}
    /\ expected \in Nat /\ sequence \in Nat
    /\ \A i \in DOMAIN inbox : inbox[i].sequence \in Nat

\* The guard admits a session, and disposal settles, only when the last
\* process is gone, unless its session said that it could not be stopped.
NoProcessLeft == ~entered /\ farProcess = "live" => outcome = "cleanup_failure"

\* A result the client hands out has its artifact, and a cancellation that
\* crossed it never takes the artifact away; a confirmed clean-up has none.
ResultHasArtifact ==
    /\ outcome = "result" => artifact
    /\ farCleaned => ~artifact

\* The two ends count alike whatever crosses: no honest sidecar is taken for
\* a broken one, and only a cancel sent before the handshake was read, which
\* carries no sequence of the sidecar, is refused.
SequencesAgree ==
    /\ outcome # "protocol_violation"
    /\ far = "error" => ~accepted

\* The guard lets the next sidecar in only when the last one is gone or known
\* to be unstoppable; a result has its artifact and a confirmed clean-up none;
\* and the two ends count alike, so no honest sidecar is taken for a broken one.
SidecarKeepsWord == NoProcessLeft /\ ResultHasArtifact /\ SequencesAgree
==============================================================================
