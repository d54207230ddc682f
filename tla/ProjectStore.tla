---------------------------- MODULE ProjectStore ----------------------------
(***************************************************************************)
(* What the Project Library promises as long as no file is damaged: each   *)
(* Project is an append-only history of payloads, a publication appends    *)
(* one of them in a single step or does nothing at all, and a reader sees  *)
(* either the whole current history of a Project or no Project.  A history *)
(* is only given up when its Project's removal from the Trash begins.      *)
(***************************************************************************)
EXTENDS Sequences, Naturals

CONSTANTS Projects, Payloads

VARIABLES
    log,    \* the published payloads of each Project, oldest first
    shown,  \* the history each reader of this process sees
    doomed  \* Projects whose permanent removal has begun

vars == <<log, shown, doomed>>

Init ==
    /\ log = [p \in Projects |-> <<>>]
    /\ shown = log
    /\ doomed = {}

\* A new revision becomes current, whole and durable.
Publish(p, v) ==
    /\ p \notin doomed
    /\ log' = [log EXCEPT ![p] = Append(@, v)]
    /\ UNCHANGED <<shown, doomed>>

\* Readers are given the current state; a Project that cannot be read is absent.
Show ==
    /\ \E S \in SUBSET Projects : shown' = [p \in Projects |-> IF p \in S THEN log[p] ELSE <<>>]
    /\ UNCHANGED <<log, doomed>>

\* The removal of a Project begins: nothing is promised of it any more.
Doom(p) ==
    /\ doomed' = doomed \cup {p}
    /\ log' = [log EXCEPT ![p] = <<>>] /\ shown' = [shown EXCEPT ![p] = <<>>]

\* It is gone; its name may be used again.
Remove(p) == doomed' = doomed \ {p} /\ UNCHANGED <<log, shown>>

\* The process ends: readers are gone, a publication under way is decided.
Restart ==
    /\ shown' = [p \in Projects |-> <<>>]
    /\ \/ log' = log
       \/ \E p \in Projects \ doomed, v \in Payloads :
              log' = [log EXCEPT ![p] = Append(@, v)]
    /\ doomed' \subseteq doomed

Next ==
    \/ Show \/ Restart
    \/ \E p \in Projects : Doom(p) \/ Remove(p) \/ \E v \in Payloads : Publish(p, v)

Spec == Init /\ [][Next]_vars
=============================================================================
