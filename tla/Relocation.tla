----------------------------- MODULE Relocation -----------------------------
(***************************************************************************)
(* relocate of project-library.ts: the Library is copied beside its new    *)
(* place, the copy is renamed into place, the location record is switched  *)
(* and what the relocation left is removed.  A directory is known by what  *)
(* it shows and by what a crash may leave of it: anything it has shown     *)
(* since it was last synced.                                               *)
(***************************************************************************)
EXTENDS Naturals, FiniteSets

CONSTANTS
    Home,           \* the default root of the Library
    Targets,        \* where it may be moved, all in one parent directory
    NoTarget,
    MaxCommits,
    MaxMoves,       \* calls of relocate
    MaxTroubles     \* failures of a step, crashes and directories of others

RelocationAssumption ==
    /\ IsFiniteSet(Targets) /\ Home \notin Targets /\ NoTarget \notin Targets \cup {Home}
    /\ {MaxCommits, MaxMoves, MaxTroubles} \subseteq Nat

Roots == Targets \cup {Home}
NoJournal == [of |-> NoTarget, from |-> NoTarget]

VARIABLES
    record,         \* the state directory: location record and journal
    parent,         \* the targets' parent: staging, its claim, each target, its claim
    records, parents,   \* what a crash may leave of either
    content,        \* the commits in each root
    acked,
    active,         \* #activeRoot, or NoTarget while the Library is closed
    blocked,        \* #mutationBlockedError
    step, mode,     \* where relocate or open is, and why it removes
    target,         \* of the relocation under way
    installed, targetDurable, locationDurable,
    stagingFailed,  \* stagingCleanupError
    moves, troubles

diskVars == <<record, parent, records, parents, content>>
flagVars == <<installed, targetDurable, locationDurable, stagingFailed>>
relocationVars == <<diskVars, acked, active, blocked, step, mode, target, flagVars, moves, troubles>>

\* A directory of the parent: absent, empty, with the relocation's marker,
\* without it, or somebody else's.
Entries == {"none", "empty", "marked", "library", "foreign"}

RelocationInit ==
    /\ record = [location |-> Home, journal |-> NoJournal]
    /\ parent = [staging |-> "none", claimed |-> "none", targetClaimed |-> "none",
                 at |-> [t \in Targets |-> "none"]]
    /\ records = {record} /\ parents = {parent}
    /\ content = [r \in Roots |-> 0] /\ acked = 0
    /\ active = Home /\ blocked = FALSE /\ step = "idle" /\ mode = "none" /\ target = NoTarget
    /\ installed = FALSE /\ targetDurable = FALSE /\ locationDurable = FALSE /\ stagingFailed = FALSE
    /\ moves = 0 /\ troubles = 0

WriteRecord(r) == record' = r /\ records' = records \cup {r}
SyncRecord == records' = {record} /\ UNCHANGED record
WriteParent(p) == parent' = p /\ parents' = parents \cup {p}
PutParent(p) == parent' = p /\ parents' = {p}       \* written and synced
SyncParent == parents' = {parent} /\ UNCHANGED parent
KeepRecord == UNCHANGED <<record, records>>
KeepParent == UNCHANGED <<parent, parents>>

(***************************************************************************)
(* A mutation, serialised with the relocations; and somebody else, who     *)
(* makes a directory where a target would be.                              *)
(***************************************************************************)
Commit ==
    /\ step = "idle" /\ ~blocked /\ acked < MaxCommits
    /\ content' = [content EXCEPT ![active] = @ + 1]
    /\ acked' = acked + 1
    /\ UNCHANGED <<record, parent, records, parents, active, blocked, step, mode, target, flagVars, moves, troubles>>

Foreign(t) ==
    /\ parent.at[t] = "none" /\ troubles < MaxTroubles /\ troubles' = troubles + 1
    /\ parent' = [parent EXCEPT !.at[t] = "foreign"]
    /\ parents' = {[p EXCEPT !.at[t] = "foreign"] : p \in {q \in parents : q.at[t] = "none"} \cup {parent}}
    /\ UNCHANGED <<record, records, content, acked, active, blocked, step, mode, target, flagVars, moves>>

(***************************************************************************)
(* relocate, up to its journal.                                            *)
(***************************************************************************)
Relocate(t) ==
    /\ step = "idle" /\ ~blocked /\ moves < MaxMoves
    /\ t # active
    /\ moves' = moves + 1 /\ target' = t
    /\ installed' = FALSE /\ targetDurable' = FALSE /\ locationDurable' = FALSE /\ stagingFailed' = FALSE
    /\ CASE record.journal = NoJournal -> step' = "begin" /\ mode' = "none"
         [] record.journal = [of |-> t, from |-> active] -> step' = "remove" /\ mode' = "resume"
         [] OTHER -> step' = "idle" /\ mode' = "none"
    /\ UNCHANGED <<diskVars, acked, active, blocked, troubles>>

\* atomicWriteFile: the new content is shown before it is durable.
Begin ==
    /\ step = "begin"
    /\ IF parent.at[target] # "none"
       THEN step' = "idle" /\ KeepRecord
       ELSE /\ step' = "journal"
            /\ WriteRecord([record EXCEPT !.journal = [of |-> target, from |-> active]])
    /\ SyncParent
    /\ UNCHANGED <<content, acked, active, blocked, mode, target, flagVars, moves, troubles>>

SyncJournal ==
    /\ step = "journal" /\ step' = "mkdir"
    /\ SyncRecord /\ KeepParent
    /\ UNCHANGED <<content, acked, active, blocked, mode, target, flagVars, moves, troubles>>

MakeStaging ==
    /\ step = "mkdir" /\ step' = "marker"
    /\ WriteParent([parent EXCEPT !.staging = "empty"]) /\ KeepRecord
    /\ UNCHANGED <<content, acked, active, blocked, mode, target, flagVars, moves, troubles>>

MarkStaging ==
    /\ step = "marker" /\ step' = "copy"
    /\ PutParent([parent EXCEPT !.staging = "marked"]) /\ KeepRecord
    /\ UNCHANGED <<content, acked, active, blocked, mode, target, flagVars, moves, troubles>>

\* The copy is complete, valid, marked and synced as a tree, in the wrapper.
Copy ==
    /\ step = "copy" /\ step' = "install"
    /\ content' = [content EXCEPT ![target] = content[active]]
    /\ KeepRecord /\ KeepParent
    /\ UNCHANGED <<acked, active, blocked, mode, target, flagVars, moves, troubles>>

Install ==
    /\ step = "install"
    /\ parent.at[target] = "none" /\ parent.targetClaimed = "none"
    /\ WriteParent([parent EXCEPT !.at[target] = "marked"])
    /\ installed' = TRUE /\ step' = "syncTarget"
    /\ KeepRecord
    /\ UNCHANGED <<content, acked, active, blocked, mode, target, targetDurable, locationDurable, stagingFailed, moves, troubles>>

\* Mutant: the location is switched before the target's name is durable.
SyncTargetOnly ==
    /\ step = "syncTarget" /\ step' = "locate"
    /\ targetDurable' = TRUE
    /\ KeepParent /\ KeepRecord
    /\ UNCHANGED <<content, acked, active, blocked, mode, target, installed, locationDurable, stagingFailed, moves, troubles>>

SyncTarget ==
    /\ step = "syncTarget" /\ step' = "locate"
    /\ targetDurable' = TRUE
    /\ SyncParent /\ KeepRecord
    /\ UNCHANGED <<content, acked, active, blocked, mode, target, installed, locationDurable, stagingFailed, moves, troubles>>

Locate ==
    /\ step = "locate" /\ step' = "syncLocation"
    /\ WriteRecord([record EXCEPT !.location = target]) /\ KeepParent
    /\ UNCHANGED <<content, acked, active, blocked, mode, target, flagVars, moves, troubles>>

SyncLocation ==
    /\ step = "syncLocation" /\ step' = "adopt"
    /\ locationDurable' = TRUE
    /\ SyncRecord /\ KeepParent
    /\ UNCHANGED <<content, acked, active, blocked, mode, target, installed, targetDurable, stagingFailed, moves, troubles>>

Adopt ==
    /\ step = "adopt" /\ step' = "remove" /\ mode' = "finish"
    /\ active' = target
    /\ UNCHANGED <<diskVars, acked, blocked, target, flagVars, moves, troubles>>

(***************************************************************************)
(* #claimValidateAndRemoveRelocationPath for the staging directory, and on *)
(* a resumed relocation for the target: an owned directory is first        *)
(* renamed to its claim.                                                   *)
(***************************************************************************)
Owned == {"empty", "marked"}

AfterStaging ==
    CASE mode = "resume" -> "removeTarget"
      [] mode \in {"finish", "open"} -> "unmark"
      [] OTHER -> IF installed THEN "reconcile" ELSE IF stagingFailed THEN "idle" ELSE "clear"

ClaimStaging ==
    /\ step = "remove"
    /\ parent.staging \in Owned /\ parent.claimed = "none"
    /\ PutParent([parent EXCEPT !.staging = "none", !.claimed = parent.staging])
    /\ KeepRecord
    /\ UNCHANGED <<content, acked, active, blocked, step, mode, target, flagVars, moves, troubles>>

RemoveStaging ==
    /\ step = "remove"
    /\ parent.staging = "none"
    /\ PutParent([parent EXCEPT !.claimed = "none"])
    /\ step' = AfterStaging
    /\ KeepRecord
    /\ UNCHANGED <<content, acked, active, blocked, mode, target, flagVars, moves, troubles>>

ClaimTarget ==
    /\ step = "removeTarget"
    /\ parent.at[target] = "marked" /\ parent.targetClaimed = "none"
    /\ PutParent([parent EXCEPT !.at[target] = "none", !.targetClaimed = "marked"])
    /\ KeepRecord
    /\ UNCHANGED <<content, acked, active, blocked, step, mode, target, flagVars, moves, troubles>>

RemoveTarget ==
    /\ step = "removeTarget"
    /\ parent.at[target] = "none"
    /\ PutParent([parent EXCEPT !.targetClaimed = "none"])
    /\ step' = "clear"
    /\ KeepRecord
    /\ UNCHANGED <<content, acked, active, blocked, mode, target, flagVars, moves, troubles>>

\* #cleanupCompletedRelocation: the marker of the new root.
Unmark ==
    /\ step = "unmark" /\ step' = "clear"
    /\ PutParent([parent EXCEPT !.at[active] = "library"]) /\ KeepRecord
    /\ UNCHANGED <<content, acked, active, blocked, mode, target, flagVars, moves, troubles>>

\* #clearRelocationJournal: removed, then synced.
ClearJournal ==
    /\ step = "clear" /\ step' = "syncClear"
    /\ WriteRecord([record EXCEPT !.journal = NoJournal]) /\ KeepParent
    /\ UNCHANGED <<content, acked, active, blocked, mode, target, flagVars, moves, troubles>>

SyncClear ==
    /\ step = "syncClear"
    /\ step' = IF mode = "resume" THEN "begin" ELSE "idle"
    /\ mode' = "none"
    /\ SyncRecord /\ KeepParent
    /\ UNCHANGED <<content, acked, active, blocked, target, flagVars, moves, troubles>>

(***************************************************************************)
(* The catch block.                                                        *)
(***************************************************************************)
\* The copy is in place: the Library goes on there, or not at all.
Reconcile ==
    /\ step = "reconcile"
    /\ SyncParent
    /\ IF locationDurable THEN KeepRecord
       ELSE record' = [record EXCEPT !.location = target] /\ records' = {record'}
    /\ active' = target
    /\ IF stagingFailed THEN step' = "idle" /\ mode' = "none" ELSE step' = "remove" /\ mode' = "open"
    /\ UNCHANGED <<content, acked, blocked, target, flagVars, moves, troubles>>

InTry == {"copy", "install", "syncTarget", "locate", "syncLocation", "adopt"}
Caught == step \in InTry \/ (mode = "finish" /\ step \in {"remove", "unmark", "clear", "syncClear"})

\* A step fails, before its change or after it and before its sync; what can
\* never succeed (a directory that is not the relocation's) fails too.
Trouble ==
    \/ troubles < MaxTroubles /\ troubles' = troubles + 1
    \/ /\ \/ step = "install" /\ parent.at[target] # "none"
          \/ step = "removeTarget" /\ parent.at[target] \notin {"none", "marked"}
       /\ UNCHANGED troubles

Fail ==
    /\ step \notin {"idle", "begin", "closed", "opening"} /\ Trouble
    /\ \/ KeepRecord /\ KeepParent
       \/ /\ step = "reconcile" /\ ~locationDurable
          /\ SyncParent
          /\ \/ KeepRecord
             \/ WriteRecord([record EXCEPT !.location = target])
    /\ CASE Caught -> step' = "remove" /\ mode' = "catch" /\ UNCHANGED <<stagingFailed, blocked, active>>
         [] ~Caught /\ mode = "catch" /\ step = "remove" ->
                /\ stagingFailed' = TRUE /\ mode' = "catch"
                /\ step' = IF installed THEN "reconcile" ELSE "idle"
                /\ UNCHANGED <<blocked, active>>
         [] step = "reconcile" ->
                step' = "idle" /\ mode' = "none" /\ blocked' = TRUE /\ UNCHANGED <<stagingFailed, active>>
         [] mode = "open" /\ target = NoTarget ->
                step' = "closed" /\ mode' = "none" /\ active' = NoTarget /\ UNCHANGED <<stagingFailed, blocked>>
         [] OTHER -> step' = "idle" /\ mode' = "none" /\ UNCHANGED <<stagingFailed, blocked, active>>
    /\ UNCHANGED <<content, acked, target, installed, targetDurable, locationDurable, moves>>

(***************************************************************************)
(* A crash, and the next start.                                            *)
(***************************************************************************)
Crash ==
    /\ troubles < MaxTroubles /\ troubles' = troubles + 1
    /\ record' \in records /\ records' = {record'}
    /\ parent' \in parents /\ parents' = {parent'}
    /\ active' = NoTarget /\ blocked' = FALSE /\ step' = "closed" /\ mode' = "none" /\ target' = NoTarget
    /\ installed' = FALSE /\ targetDurable' = FALSE /\ locationDurable' = FALSE /\ stagingFailed' = FALSE
    /\ UNCHANGED <<content, acked, moves>>

Open ==
    /\ step = "closed"
    /\ active' = record.location
    /\ IF record.journal.of = record.location
       THEN step' = "remove" /\ mode' = "open"
       ELSE step' = "idle" /\ mode' = "none"
    /\ UNCHANGED <<diskVars, acked, blocked, target, flagVars, moves, troubles>>

RelocationNext ==
    \/ Commit \/ Begin \/ SyncJournal \/ MakeStaging \/ MarkStaging \/ Copy \/ Install
    \/ SyncTarget \/ Locate \/ SyncLocation \/ Adopt
    \/ ClaimStaging \/ RemoveStaging \/ ClaimTarget \/ RemoveTarget \/ Unmark
    \/ ClearJournal \/ SyncClear \/ Reconcile \/ Fail \/ Crash \/ Open
    \/ \E t \in Targets : Foreign(t) \/ Relocate(t)

RelocationSpec == RelocationInit /\ [][RelocationNext]_relocationVars

-----------------------------------------------------------------------------
RelocationTypeOK ==
    /\ record \in records /\ parent \in parents
    /\ record.location \in Roots /\ record.journal.of \in Targets \cup {NoTarget}
    /\ {parent.staging, parent.claimed, parent.targetClaimed} \subseteq Entries
    /\ parent.at \in [Targets -> Entries]
    /\ content \in [Roots -> 0..MaxCommits] /\ active \in Roots \cup {NoTarget}

Complete(p, r) == r = Home \/ p.at[r] \in {"marked", "library"}

\* Whatever a crash leaves, the location record names a root that is there
\* and holds every commit that was acknowledged.
NothingLeftBehind ==
    \A r \in records : \A p \in parents :
        Complete(p, r.location) /\ content[r.location] = acked

\* A directory of the relocation is never without the journal that names it:
\* no crash leaves one that the next start or the next attempt cannot find.
NoOrphan ==
    \A r \in records : \A p \in parents :
        r.journal = NoJournal =>
            /\ p.staging = "none" /\ p.claimed = "none" /\ p.targetClaimed = "none"
            /\ \A t \in Targets : p.at[t] # "marked"

\* Wherever a relocation crashes or fails, the Library is where the location
\* record says, complete, and nothing of the relocation is forgotten.
RelocationKeepsWord == NothingLeftBehind /\ NoOrphan
==============================================================================
