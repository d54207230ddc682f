---------------------------- MODULE DataCleanup ----------------------------
(* The cold-start cleanup (main/data-cleanup.ts, main/index.ts): no Library  *)
(* is opened; the fixed locations are listed, every category is confirmed by *)
(* itself, then all of them once more, and the listed paths are removed one  *)
(* after the other: claimed under another name, removed, made durable.  The  *)
(* Library was relocated to an external root; its default copy is retained.  *)
(* The application may run between two cleanups.                             *)
EXTENDS Integers, FiniteSets

CONSTANTS MaxCleanups,   \* bound: cleanups started
          MaxCleanFaults,\* bound: claims, removals or syncs that fail
          MaxCleanCrashes, \* bound: crashes during a cleanup
          MaxChanges     \* bound: changes of the data by others

CleanupAssumption == {MaxCleanups, MaxCleanFaults, MaxCleanCrashes, MaxChanges} \subseteq Nat

VARIABLES dataDisk,    \* the names a path's data is found under: its own, or that of a claim
          dataSafe,    \* as it is after a crash
          dataVersion, \* its inventory: identity, size and times of everything below it
          interrupted, \* a relocation, an export or a work is half done
          cleanStep,   \* where the cleanup is
          shownPlan,   \* the inventory the user was shown
          chosen,      \* the categories confirmed so far
          toRemove,    \* the paths still to remove
          removedPaths, failedPaths, \* what the cleanup reports
          confirmedPaths,\* history: the paths the user confirmed for the last time, at their inventory
          cleanups, cleanFaults, cleanCrashes, changes
dataVars == <<dataDisk, dataSafe, dataVersion, interrupted>>
planVars == <<shownPlan, chosen, toRemove, confirmedPaths>>
countVars == <<cleanups, cleanFaults, cleanCrashes, changes>>
cleanupVars == <<dataVars, cleanStep, planVars, removedPaths, failedPaths, countVars>>

\* The paths of each category: of the Library the retained default copy, the
\* contents of the external root by name, and the pointer to that root.  They
\* are removed category by category, and the pointer last of its own.
External == {"objects", "project-index.json", "projects"}
Pointer == "project-library-location.json"
Categories == [projects |-> {"project-library", Pointer} \cup External, models |-> {"models"}]
Paths == UNION {Categories[c] : c \in DOMAIN Categories}
Place == [p \in Paths |->
    CASE p = "project-library" -> 1 [] p = "objects" -> 2 [] p = "project-index.json" -> 3
      [] p = "projects" -> 4 [] p = Pointer -> 5 [] OTHER -> 6]
Directory(p) == CASE p \in External -> "external root" [] p = "project-library" -> "default root"
                  [] OTHER -> "state root"

\* A path has its own name, or the claim the n-th cleanup renamed it to.
Own == 0
ClaimNames == 1..MaxCleanups
Present(d) == {p \in Paths : Own \in d[p]}
\* The external root is found through the pointer alone.
Enumerated(d) == IF Own \in d[Pointer] THEN Present(d) ELSE Present(d) \ External
Plan == [p \in Enumerated(dataDisk) |-> dataVersion[p]]
GroupOf(plan, c) == Categories[c] \cap DOMAIN plan
Confirmed(plan, cs) == UNION {GroupOf(plan, c) : c \in cs}
Foremost == CHOOSE p \in toRemove : \A q \in toRemove : Place[p] <= Place[q]

\* The inspection refuses interrupted work, and an external root that has no
\* index or holds a name it does not know: a claim left behind is one.
Inspectable ==
    /\ ~interrupted
    /\ Own \in dataDisk[Pointer] =>
         /\ Own \in dataDisk["project-index.json"]
         /\ \A p \in External : dataDisk[p] \subseteq {Own}

CleanupInit ==
    /\ dataDisk = [p \in Paths |-> {Own}] /\ dataSafe = dataDisk
    /\ dataVersion = [p \in Paths |-> 0] /\ interrupted = FALSE
    /\ cleanStep = "off" /\ shownPlan = <<>> /\ chosen = {} /\ toRemove = {}
    /\ removedPaths = {} /\ failedPaths = {} /\ confirmedPaths = <<>>
    /\ cleanups = 0 /\ cleanFaults = 0 /\ cleanCrashes = 0 /\ changes = 0

Goto(s) == cleanStep' = s
Quiet == UNCHANGED dataVars
Report == UNCHANGED <<removedPaths, failedPaths>>

\* runDataCleanup: inspect and show, or end with a message.
StartCleanup ==
    /\ cleanStep = "off" /\ cleanups < MaxCleanups
    /\ cleanups' = cleanups + 1
    /\ removedPaths' = {} /\ failedPaths' = {} /\ chosen' = {} /\ toRemove' = {}
    /\ confirmedPaths' = <<>>
    /\ IF Inspectable THEN shownPlan' = Plan /\ Goto("ask") ELSE shownPlan' = <<>> /\ Goto("off")
    /\ Quiet /\ UNCHANGED <<cleanFaults, cleanCrashes, changes>>

\* One prompt for each category that holds anything; nothing is removed yet.
ConfirmCategory(c) ==
    /\ cleanStep = "ask" /\ c \notin chosen /\ GroupOf(shownPlan, c) # {}
    /\ chosen' = chosen \cup {c}
    /\ Quiet /\ Report /\ UNCHANGED <<cleanStep, shownPlan, toRemove, confirmedPaths, countVars>>

\* The last prompt, cancelled or confirmed.
Decide(yes) ==
    /\ cleanStep = "ask"
    /\ IF yes /\ chosen # {}
         THEN /\ Goto("check")
              /\ confirmedPaths' = [p \in Confirmed(shownPlan, chosen) |-> shownPlan[p]]
         ELSE Goto("off") /\ confirmedPaths' = <<>>
    /\ Quiet /\ Report /\ UNCHANGED <<shownPlan, chosen, toRemove, countVars>>

\* performDataCleanup: inspect again; only an unchanged inventory goes on.
SamePlan == Inspectable /\ Plan = shownPlan
Reinspect ==
    /\ cleanStep = "check"
    /\ IF SamePlan
         THEN Goto("next") /\ toRemove' = Confirmed(shownPlan, chosen)
         ELSE Goto("off") /\ UNCHANGED toRemove
    /\ Quiet /\ Report /\ UNCHANGED <<shownPlan, chosen, confirmedPaths, countVars>>

\* The next path is renamed to a claim of its own.
ClaimPath ==
    /\ cleanStep = "next" /\ toRemove # {} /\ failedPaths = {}
    /\ dataDisk' = [dataDisk EXCEPT ![Foremost] = (@ \ {Own}) \cup {cleanups}]
    /\ Goto("claimed") /\ Report
    /\ UNCHANGED <<dataSafe, dataVersion, interrupted, planVars, countVars>>
\* The claim is removed ...
RemoveClaim ==
    /\ cleanStep = "claimed"
    /\ dataDisk' = [dataDisk EXCEPT ![Foremost] = @ \ {cleanups}]
    /\ Goto("removed") /\ Report
    /\ UNCHANGED <<dataSafe, dataVersion, interrupted, planVars, countVars>>
\* Mutant: a removal is counted before it is durable.
CountRemoval ==
    /\ cleanStep = "removed" /\ UNCHANGED dataSafe
    /\ removedPaths' = removedPaths \cup {Foremost}
    /\ toRemove' = toRemove \ {Foremost} /\ Goto("next")
    /\ UNCHANGED <<dataDisk, dataVersion, interrupted, shownPlan, chosen, confirmedPaths, failedPaths, countVars>>
\* ... and its directory synced, with all that was renamed or removed there.
SyncRemoval ==
    /\ cleanStep = "removed"
    /\ dataSafe' = [p \in Paths |-> IF Directory(p) = Directory(Foremost) THEN dataDisk[p] ELSE dataSafe[p]]
    /\ removedPaths' = removedPaths \cup {Foremost}
    /\ toRemove' = toRemove \ {Foremost} /\ Goto("next")
    /\ UNCHANGED <<dataDisk, dataVersion, interrupted, shownPlan, chosen, confirmedPaths, failedPaths, countVars>>
\* The claim cannot be made, is not what was listed, cannot be removed or
\* synced: nothing more is removed.
RemovalFails ==
    /\ cleanStep \in {"next", "claimed", "removed"} /\ toRemove # {} /\ failedPaths = {}
    /\ cleanFaults < MaxCleanFaults /\ cleanFaults' = cleanFaults + 1
    /\ failedPaths' = {Foremost} /\ Goto("next")
    /\ Quiet /\ UNCHANGED <<planVars, removedPaths, cleanups, cleanCrashes, changes>>
\* The result is shown, and the application exits.
ShowResult ==
    /\ cleanStep = "next" /\ (toRemove = {} \/ failedPaths # {})
    /\ Goto("off") /\ Quiet /\ Report /\ UNCHANGED <<planVars, countVars>>

\* A crash: of a path not synced since, either name may be found.
CrashCleanup ==
    /\ cleanStep # "off" /\ cleanCrashes < MaxCleanCrashes /\ cleanCrashes' = cleanCrashes + 1
    /\ \E lost \in SUBSET Paths :
         dataDisk' = [p \in Paths |-> IF p \in lost THEN dataSafe[p] ELSE dataDisk[p]]
    /\ dataSafe' = dataDisk'
    /\ Goto("off") /\ Report
    /\ UNCHANGED <<dataVersion, interrupted, planVars, cleanups, cleanFaults, changes>>

\* Somebody else changes what lies below a path, dialog open or not.
ChangeData(p) ==
    /\ changes < MaxChanges /\ changes' = changes + 1
    /\ cleanStep \in {"off", "ask", "check"} /\ Own \in dataDisk[p]
    /\ dataVersion' = [dataVersion EXCEPT ![p] = @ + 1]
    /\ Report /\ UNCHANGED <<dataDisk, dataSafe, interrupted, cleanStep, planVars, cleanups, cleanFaults, cleanCrashes>>

\* The application runs: never beside a cleanup, both hold the one instance
\* lock.  It rebuilds the index of the Library it finds, makes the fixed
\* directories that are missing, and may end with work half done.
RunApplication ==
    /\ cleanStep = "off" /\ changes < MaxChanges /\ changes' = changes + 1
    /\ LET root == IF Own \in dataDisk[Pointer] THEN External ELSE {"project-library"}
           made == [p \in Paths |-> IF p \in root THEN dataDisk[p] \cup {Own} ELSE dataDisk[p]]
       IN  dataDisk' = made /\ dataSafe' = made
    /\ interrupted' \in BOOLEAN
    /\ Report /\ UNCHANGED <<dataVersion, cleanStep, planVars, cleanups, cleanFaults, cleanCrashes>>

CleanupNext ==
    \/ StartCleanup \/ Reinspect \/ ClaimPath \/ RemoveClaim \/ SyncRemoval \/ RemovalFails
    \/ ShowResult \/ CrashCleanup \/ RunApplication
    \/ \E c \in DOMAIN Categories : ConfirmCategory(c)
    \/ \E yes \in BOOLEAN : Decide(yes)
    \/ \E p \in Paths : ChangeData(p)
CleanupSpec == CleanupInit /\ [][CleanupNext]_cleanupVars

CleanupTypeOK ==
    /\ \A d \in {dataDisk, dataSafe} : d \in [Paths -> SUBSET ({Own} \cup ClaimNames)]
    /\ dataVersion \in [Paths -> 0..MaxChanges] /\ interrupted \in BOOLEAN
    /\ cleanStep \in {"off", "ask", "check", "next", "claimed", "removed"}
    /\ DOMAIN shownPlan \subseteq Paths /\ chosen \subseteq DOMAIN Categories
    /\ toRemove \cup removedPaths \cup failedPaths \subseteq Paths

\* While a cleanup runs, only paths the user confirmed are touched, each with
\* the inventory the user was shown, and what is reported removed stays
\* removed after a crash.
RemovedAsConfirmed ==
    cleanStep \in {"next", "claimed", "removed"} =>
      /\ removedPaths \cup failedPaths \cup toRemove \subseteq DOMAIN confirmedPaths
      /\ \A p \in DOMAIN confirmedPaths : confirmedPaths[p] = dataVersion[p]
      /\ \A p \in removedPaths : {Own, cleanups} \cap dataSafe[p] = {}
\* The pointer to the external root goes only after everything listed there:
\* whenever the cleanup stops, fails or crashes, whatever the crash undoes, the
\* contents that are left can still be found.
PointerLast ==
    Own \notin dataDisk[Pointer] \/ Own \notin dataSafe[Pointer] =>
      \A p \in External : dataDisk[p] = {} /\ dataSafe[p] = {}
\* What a cleanup promises (docs/distribution/installing.md:106).
CleanupKeepsWord == RemovedAsConfirmed /\ PointerLast
=============================================================================
