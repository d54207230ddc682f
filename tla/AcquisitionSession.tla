-------------------------- MODULE AcquisitionSession --------------------------
(***************************************************************************)
(* One conversation with the contained extractor (acquisition-session.ts): *)
(* the worker asks, one message at a time, and the broker                  *)
(* (acquisition-broker.ts) is its only way to the network.  The exchange   *)
(* goes on in the background when an abort has already ended the session.  *)
(***************************************************************************)
EXTENDS Naturals, FiniteSets

CONSTANTS
    MaxRequests,     \* 120 in the code
    MaxRedirects,    \* 8
    MaxStreams,      \* 4
    MaxMessages      \* messages of the worker

SessionAssumption == {MaxRequests, MaxRedirects, MaxStreams, MaxMessages} \subseteq Nat

VARIABLES
    session,        \* "running", "cleaning", "over"
    ending,         \* what the session will return or throw
    sessionAbort,   \* abort.signal
    exchange,       \* "launching", "reading", "opening", "reading body", "closing body", "done"
    launch,         \* "none", "pending", "settled", "unclean"
    worker,         \* the process: "none", "live", "dead"
    ready, answered,   \* the ready and the result messages
    table,          \* the session's streams
    broker,         \* the reason of the broker's abort, or "open"
    closing,        \* "no", "closing", "closed", "failed"
    brokerCall,     \* the broker's open: "none", "resolving", "requesting", "redirecting"
    brokerPending,  \* a network operation has not settled
    bodies,         \* the responses that are not released, as stream numbers
    cleanupFailed,
    requests, redirects, messages

sessionVars == <<session, ending, sessionAbort, exchange, launch, worker, ready, answered, table>>
brokerVars == <<broker, closing, brokerCall, brokerPending, bodies, cleanupFailed, requests, redirects>>
acqSessionVars == <<sessionVars, brokerVars, messages>>

Streams == 1..MaxMessages

AcqSessionInit ==
    /\ session = "running" /\ ending = "none" /\ sessionAbort = FALSE
    /\ exchange = "launching" /\ launch = "none" /\ worker = "none"
    /\ ready = FALSE /\ answered = FALSE /\ table = {}
    /\ broker = "open" /\ closing = "no" /\ brokerCall = "none" /\ brokerPending = FALSE /\ bodies = {}
    /\ cleanupFailed = FALSE /\ requests = 0 /\ redirects = 0 /\ messages = 0

\* The exchange throws; the first of it and the abort decides the session.
Ends(reason) ==
    /\ exchange' = "done"
    /\ ending' = IF ending = "none" THEN reason ELSE ending
    /\ session' = IF session = "running" THEN "cleaning" ELSE session

AbortSession(reason) ==
    /\ session = "running" /\ ~sessionAbort
    /\ sessionAbort' = TRUE /\ session' = "cleaning" /\ ending' = reason
    /\ UNCHANGED <<exchange, launch, worker, ready, answered, table, brokerVars, messages>>

CancelSession == AbortSession("cancelled")
Deadline == AbortSession("deadline")

(***************************************************************************)
(* The exchange.                                                           *)
(***************************************************************************)
BeginLaunch ==
    /\ exchange = "launching" /\ launch = "none"
    /\ IF sessionAbort
       THEN exchange' = "done" /\ UNCHANGED launch
       ELSE launch' = "pending" /\ UNCHANGED exchange
    /\ UNCHANGED <<session, ending, sessionAbort, worker, ready, answered, table, brokerVars, messages>>

\* A process that comes when the session is being cleaned up is stopped by
\* whoever launched it.
Launched ==
    /\ exchange = "launching" /\ launch = "pending"
    /\ \/ /\ launch' \in {"settled", "unclean"}
          /\ worker' = IF launch' = "unclean" THEN "live" ELSE worker
          /\ Ends(IF launch' = "unclean" THEN "cleanup_failure" ELSE "worker_failed")
       \/ /\ launch' = "settled" /\ worker' = "live"
          /\ IF sessionAbort \/ session # "running"
             THEN exchange' = "done" /\ UNCHANGED <<session, ending>>
             ELSE exchange' = "reading" /\ UNCHANGED <<session, ending>>
    /\ UNCHANGED <<sessionAbort, ready, answered, table, brokerVars, messages>>

\* A message of the worker, or the end of its output.
Message ==
    /\ exchange = "reading" /\ messages < MaxMessages /\ worker = "live"
    /\ messages' = messages + 1
    /\ \/ sessionAbort /\ Ends("cancelled") /\ UNCHANGED <<ready, answered, brokerCall>>
       \/ ~sessionAbort /\ (ready = answered) /\ Ends("protocol_violation") /\ UNCHANGED <<ready, answered, brokerCall>>
       \/ ~sessionAbort /\ ~ready /\ ready' = TRUE /\ UNCHANGED <<session, ending, exchange, answered, brokerCall>>
       \/ /\ ~sessionAbort /\ ready /\ ~answered
          /\ \/ Ends("worker_failed") /\ UNCHANGED <<answered, brokerCall>>
             \/ answered' = TRUE /\ UNCHANGED <<session, ending, exchange, brokerCall>>
             \/ /\ IF Cardinality(table) >= MaxStreams
                   THEN Ends("protocol_violation") /\ UNCHANGED brokerCall
                   ELSE exchange' = "opening" /\ brokerCall' = "asked" /\ UNCHANGED <<session, ending>>
                /\ UNCHANGED answered
             \/ /\ IF table = {}
                   THEN Ends("protocol_violation")
                   ELSE exchange' \in {"reading body", "closing body"} /\ UNCHANGED <<session, ending>>
                /\ UNCHANGED <<answered, brokerCall>>
          /\ UNCHANGED ready
    /\ UNCHANGED <<sessionAbort, launch, worker, table, broker, closing, brokerPending, bodies, cleanupFailed, requests, redirects>>

EndOfOutput ==
    /\ exchange = "reading"
    /\ worker' = "dead"
    /\ Ends(IF ready /\ answered THEN "result" ELSE "worker_failed")
    /\ UNCHANGED <<sessionAbort, launch, ready, answered, table, brokerVars, messages>>

\* The outcome of the broker's open: network_unavailable is told to the
\* worker, everything else ends the session.
Refuse(reason) ==
    /\ brokerCall' = "none"
    /\ IF broker = "open" /\ reason = "network_unavailable"
       THEN exchange' = "reading" /\ UNCHANGED <<session, ending>>
       ELSE Ends(IF broker = "open" THEN reason ELSE broker)

\* A hop: within the budget, the name is resolved and the request sent.
Hop ==
    /\ brokerCall \in {"asked", "redirecting"} /\ ~brokerPending
    /\ IF broker # "open" \/ requests >= MaxRequests
       THEN Refuse("budget_exceeded") /\ UNCHANGED <<requests, brokerPending>>
       ELSE /\ requests' = requests + 1 /\ brokerCall' = "resolving" /\ brokerPending' = TRUE
            /\ UNCHANGED <<session, ending, exchange>>
    /\ UNCHANGED <<sessionAbort, launch, worker, ready, answered, table, broker, closing, bodies, cleanupFailed, redirects, messages>>

Resolve ==
    /\ brokerCall = "resolving" /\ brokerPending /\ broker = "open"
    /\ \/ brokerCall' = "requesting" /\ UNCHANGED <<session, ending, exchange, brokerPending>>
       \/ brokerPending' = FALSE /\ \E reason \in {"dns_denied", "network_unavailable"} : Refuse(reason)
    /\ UNCHANGED <<sessionAbort, launch, worker, ready, answered, table, broker, closing, bodies, cleanupFailed, requests, redirects, messages>>

\* The answer: a body for the session, a redirection (its body is released),
\* or a failure.
Respond ==
    /\ brokerCall = "requesting" /\ brokerPending /\ broker = "open" /\ brokerPending' = FALSE
    /\ \/ /\ table' = table \cup {messages} /\ bodies' = bodies \cup {messages}
          /\ brokerCall' = "none" /\ exchange' = "reading"
          /\ UNCHANGED <<session, ending, redirects>>
       \/ /\ redirects' = redirects + 1
          /\ IF redirects' > MaxRedirects
             THEN Refuse("budget_exceeded")
             ELSE brokerCall' = "redirecting" /\ UNCHANGED <<session, ending, exchange>>
          /\ UNCHANGED <<table, bodies>>
       \/ /\ \E reason \in {"network_unavailable", "endpoint_denied"} : Refuse(reason)
          /\ UNCHANGED <<table, bodies, redirects>>
    /\ UNCHANGED <<sessionAbort, launch, worker, ready, answered, broker, closing, cleanupFailed, requests, messages>>

\* #timed gives up on an aborted broker; the operation itself is still pending.
GiveUpCall ==
    /\ brokerCall \in {"resolving", "requesting"} /\ broker # "open"
    /\ brokerCall' = "none" /\ Ends(broker)
    /\ UNCHANGED <<sessionAbort, launch, worker, ready, answered, table, broker, closing, brokerPending, bodies, cleanupFailed, requests, redirects, messages>>

\* What was pending settles after the abort: a response is released at once,
\* and the release may fail.
SettleLate ==
    /\ brokerPending /\ brokerCall = "none" /\ brokerPending' = FALSE
    /\ cleanupFailed' \in {cleanupFailed, TRUE}
    /\ UNCHANGED <<sessionVars, broker, closing, brokerCall, bodies, requests, redirects, messages>>

Abort(reason) == broker' = IF broker = "open" THEN reason ELSE broker

\* A read of a body: data, its end, a failure, or more than the budget, which
\* closes the broker.
Read ==
    /\ exchange = "reading body"
    /\ \E s \in table :
        \/ /\ s \in bodies \/ broker = "open"
           /\ exchange' = "reading" /\ UNCHANGED <<session, ending, table, bodies, broker, closing>>
        \/ /\ exchange' = "reading" /\ table' = table \ {s} /\ bodies' = bodies \ {s}
           /\ UNCHANGED <<session, ending, broker, closing>>
        \/ /\ s \in bodies /\ Abort("budget_exceeded")
           /\ closing' = IF closing = "no" THEN "closing" ELSE closing
           /\ Ends("budget_exceeded") /\ UNCHANGED <<table, bodies>>
        \/ /\ broker # "open" /\ Ends(broker) /\ UNCHANGED <<table, bodies, broker, closing>>
    /\ UNCHANGED <<sessionAbort, launch, worker, ready, answered, brokerCall, brokerPending, cleanupFailed, requests, redirects, messages>>

CloseBody ==
    /\ exchange = "closing body"
    /\ \E s \in table :
        /\ table' = table \ {s} /\ bodies' = bodies \ {s}
        /\ \/ exchange' = "reading" /\ UNCHANGED <<session, ending, cleanupFailed>>
           \/ cleanupFailed' = TRUE /\ Ends("cleanup_failure")
    /\ UNCHANGED <<sessionAbort, launch, worker, ready, answered, broker, closing, brokerCall, brokerPending, requests, redirects, messages>>

(***************************************************************************)
(* The broker's end: its timers, and close.                                *)
(***************************************************************************)
Idle ==
    /\ broker = "open" /\ requests > 0
    /\ broker' = "deadline" /\ closing' = IF closing = "no" THEN "closing" ELSE closing
    /\ UNCHANGED <<sessionVars, brokerCall, brokerPending, bodies, cleanupFailed, requests, redirects, messages>>

\* Everything that was open when close was called is released, or the five
\* seconds are over.
Closed ==
    /\ closing = "closing"
    /\ \/ /\ ~brokerPending /\ bodies' = {} /\ cleanupFailed' \in {cleanupFailed, TRUE}
          /\ closing' = IF cleanupFailed' THEN "failed" ELSE "closed"
       \/ closing' = "failed" /\ UNCHANGED <<bodies, cleanupFailed>>
    /\ UNCHANGED <<sessionVars, broker, brokerCall, brokerPending, requests, redirects, messages>>

(***************************************************************************)
(* The clean-up: the broker is closed and the process reaped, side by side.*)
(***************************************************************************)
CloseBroker ==
    /\ session = "cleaning" /\ closing = "no"
    /\ closing' = "closing" /\ Abort("cancelled")
    /\ UNCHANGED <<sessionVars, brokerCall, brokerPending, bodies, cleanupFailed, requests, redirects, messages>>

Launching == exchange = "launching" /\ launch = "pending"

\* stop: it ends the process, or fails.
StopWorker ==
    /\ session \in {"cleaning", "over"} /\ worker = "live" /\ launch = "settled"
    /\ worker' \in {"dead", "unstopped"}
    /\ UNCHANGED <<session, ending, sessionAbort, exchange, launch, ready, answered, table, brokerVars, messages>>

\* Mutant: a failed clean-up does not replace the outcome.
OverRegardless ==
    /\ session = "cleaning" /\ closing \in {"closed", "failed"}
    /\ session' = "over" /\ table' = {}
    /\ UNCHANGED <<ending, sessionAbort, exchange, launch, worker, ready, answered, brokerVars, messages>>

Over ==
    /\ session = "cleaning" /\ closing \in {"closed", "failed"}
    /\ LET reaped == ~Launching /\ worker \in {"none", "dead"} /\ launch # "unclean" IN
        \/ /\ reaped
           /\ ending' = IF closing = "failed" THEN "cleanup_failure" ELSE ending
        \/ /\ ~reaped        \* the stop failed, or the 15 seconds are over
           /\ ending' = "cleanup_failure"
    /\ session' = "over" /\ table' = {}
    /\ UNCHANGED <<sessionAbort, exchange, launch, worker, ready, answered, brokerVars, messages>>

Exchange == BeginLaunch \/ Launched \/ Hop \/ Resolve \/ Respond \/ GiveUpCall
            \/ Read \/ CloseBody
SessionCleanup == CloseBroker \/ Closed \/ StopWorker \/ Over
AcqSessionNext ==
    \/ CancelSession \/ Deadline \/ Exchange \/ Message \/ EndOfOutput
    \/ SettleLate \/ Idle \/ SessionCleanup
AcqSessionSpec == AcqSessionInit /\ [][AcqSessionNext]_acqSessionVars

-----------------------------------------------------------------------------
AcqSessionTypeOK ==
    /\ session \in {"running", "cleaning", "over"} /\ table \subseteq Streams
    /\ worker \in {"none", "live", "dead", "unstopped"} /\ bodies \subseteq Streams
    /\ closing \in {"no", "closing", "closed", "failed"}

\* A session that is over and does not report a failed clean-up has left
\* nothing behind: no process, no response, no request in the air.
SessionReleases ==
    session = "over" /\ ending # "cleanup_failure" =>
        /\ worker \notin {"live", "unstopped"} /\ ~Launching
        /\ bodies = {} /\ ~brokerPending

\* What the broker counted can be written down: the catalog's schema takes
\* one redirection more than the limit, and no more.
CountersFit == requests <= MaxRequests /\ redirects <= MaxRedirects + 1

\* A session with the extractor that is over has left nothing behind, or says
\* so; and what its broker counted fits what the catalog's schema accepts.
ExtractorKeepsWord == SessionReleases /\ CountersFit
=============================================================================
