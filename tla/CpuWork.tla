------------------------------ MODULE CpuWork ------------------------------
(***************************************************************************)
(* The gate of cpu-work.ts: one native computation at a time, the others   *)
(* in a queue of at most MaxWaitingWork.  A computation that could not     *)
(* confirm its own teardown closes the gate until the application          *)
(* restarts.  The actions are conjoined with those of the callers: a       *)
(* caller that waits and is neither in cpuWaiting nor cpuActive has been   *)
(* rejected.                                                               *)
(***************************************************************************)
EXTENDS Naturals, Sequences

CONSTANTS
    NoWork,          \* the gate is free
    MaxWaitingWork   \* 32 in the code

VARIABLES
    cpuActive,       \* the computation that holds the gate, or NoWork
    cpuWaiting,      \* the computations that wait, in order
    cpuBlocked       \* closed until restart

cpuVars == <<cpuActive, cpuWaiting, cpuBlocked>>

CpuInit ==
    /\ cpuActive = NoWork
    /\ cpuWaiting = <<>>
    /\ cpuBlocked = FALSE

Waits(w) == \E i \in DOMAIN cpuWaiting : cpuWaiting[i] = w

Refused == cpuBlocked \/ Len(cpuWaiting) >= MaxWaitingWork

\* push, then pump: the queue is empty whenever the gate is free.
Enter(w) ==
    /\ ~Refused
    /\ IF cpuActive = NoWork
       THEN cpuActive' = w /\ UNCHANGED cpuWaiting
       ELSE cpuWaiting' = Append(cpuWaiting, w) /\ UNCHANGED cpuActive
    /\ UNCHANGED cpuBlocked

\* The abort listener of an entry that has not started takes that entry out.
Abandon(w) ==
    /\ \E i \in DOMAIN cpuWaiting :
         /\ cpuWaiting[i] = w
         /\ cpuWaiting' = SubSeq(cpuWaiting, 1, i - 1) \o SubSeq(cpuWaiting, i + 1, Len(cpuWaiting))
    /\ UNCHANGED <<cpuActive, cpuBlocked>>

\* The finally block: the next entry starts.
Leave(w) ==
    /\ cpuActive = w
    /\ IF cpuWaiting = <<>>
       THEN cpuActive' = NoWork /\ UNCHANGED cpuWaiting
       ELSE cpuActive' = Head(cpuWaiting) /\ cpuWaiting' = Tail(cpuWaiting)
    /\ UNCHANGED cpuBlocked

\* Mutant: the gate stays open.
LeaveUncleanOpen(w) == Leave(w)

\* A CpuWorkCleanupFailure: everything that waits is rejected, then released.
LeaveUnclean(w) ==
    /\ cpuActive = w
    /\ cpuBlocked' = TRUE
    /\ cpuWaiting' = <<>>
    /\ cpuActive' = NoWork
=============================================================================
