---------------------------- MODULE Files_proofs ----------------------------
(***************************************************************************)
(* The parts that keep files beside the Library, each for every value of   *)
(* its constants: what the Model Store, a relocation, an import, an        *)
(* export, a catalog or a clean-up has reported done survives the          *)
(* failures, crashes and damage that its module allows, nothing is left    *)
(* that nobody names, and local media play what was chosen, through        *)
(* handles of one owner.                                                   *)
(***************************************************************************)
EXTENDS MCFiles, FiniteSetTheorems, NaturalsInduction,
        WellFoundedInduction, TLAPS

-----------------------------------------------------------------------------
(***************************************************************************)
(* ModelStore.  What the Model Store reported done survives a power        *)
(* failure, for every set of packs and any number of faults and crashes.   *)
(***************************************************************************)
Conditions == {"none", "whole", "bad"}
StoreSteps == {"none", "verifying", "fetching", "staged", "swapping", "installed", "removing", "moved"}

StoreTypes ==
    /\ disk \in [Packs -> Conditions] /\ safe \in [Packs -> Conditions]
    /\ ackedPacks \in [Packs -> {"open", "whole", "none"}]
    /\ op \in StoreSteps /\ (op # "none" => pack \in Packs)
    /\ controller \in {"none", "set", "aborted"} /\ pack \in Packs \cup {NoPack}
    /\ offlineStore \in BOOLEAN

\* A report holds of the directory and of what a power failure leaves of it.
\* While an operation has the pack in its hands nothing is reported of it, and
\* the directory is as the step before has left it.
StoreInv ==
    /\ StoreTypes
    /\ \A p \in Packs : ackedPacks[p] # "open" => disk[p] = ackedPacks[p] /\ safe[p] = ackedPacks[p]
    /\ op \in {"swapping", "installed", "moved"} => ackedPacks[pack] = "open"
    /\ op = "installed" => disk[pack] = "whole"
    /\ op = "moved" => disk[pack] = "none"
    /\ controller # "none" => op \in {"fetching", "staged", "swapping", "installed"}
    /\ offlineStore /\ controller # "none" => controller = "aborted"

LEMMA StoreInitially == StoreInit => StoreInv
  BY DEF StoreInit, StoreInv, StoreTypes, Conditions, StoreSteps, Impact

LEMMA StoreStep == ASSUME StoreInv, [StoreNext]_storeVars PROVE StoreInv'
<1>. USE DEF StoreInv, StoreTypes, Conditions, StoreSteps, impactVars, storeBounds
<1>1. ASSUME NEW p \in Packs, InstallPack(p) \/ Preview(p) \/ Remove(p) \/ Refer(p)
      PROVE  StoreInv'
  <2>1. CASE InstallPack(p)
    BY <2>1 DEF InstallPack
  <2>2. CASE Preview(p)
    BY <2>2 DEF Preview
  <2>3. CASE Remove(p)
    BY <2>3 DEF Remove
  <2>4. CASE Refer(p)
    BY <2>4 DEF Refer
  <2>. QED
    BY <1>1, <2>1, <2>2, <2>3, <2>4
<1>2. ASSUME NEW p \in Packs, Decay(p) PROVE StoreInv'
  BY <1>2 DEF Decay
<1>3. CASE Verified \/ Fetched \/ CancelInstall \/ SwitchOffline \/ Fails
  <2>1. CASE Verified
    BY <2>1 DEF Verified, Done
  <2>2. CASE Fetched
    BY <2>2 DEF Fetched, Done, Goes
  <2>3. CASE CancelInstall
    BY <2>3 DEF CancelInstall, Stopped
  <2>4. CASE SwitchOffline
    BY <2>4 DEF SwitchOffline, Stopped
  <2>5. CASE Fails
    BY <2>5 DEF Fails, Done
  <2>. QED
    BY <1>3, <2>1, <2>2, <2>3, <2>4, <2>5
<1>4. CASE SwapOut
  BY <1>4 DEF SwapOut, Done, Goes, PackInDoubt
<1>5. CASE SwapIn
  BY <1>5 DEF SwapIn, Goes
<1>6. CASE SyncInstalled
  BY <1>6 DEF SyncInstalled, Done
<1>7. CASE MoveAway
  BY <1>7 DEF MoveAway, Goes, PackInDoubt
<1>8. CASE SyncRemoved
  BY <1>8 DEF SyncRemoved, Done
<1>9. CASE Restart
  BY <1>9 DEF Restart, Done
<1>10. CASE UNCHANGED storeVars
  BY <1>10 DEF storeVars
<1>. QED
  BY <1>1, <1>2, <1>3, <1>4, <1>5, <1>6, <1>7, <1>8, <1>9, <1>10 DEF StoreNext

\* Whatever was reported installed or removed is so after a power failure, and
\* a transfer that Offline Mode found running has been aborted.
THEOREM StorePromiseKept == StoreSpec => []StoreKeepsWord
<1>1. StoreInv => StoreKeepsWord
  BY DEF StoreInv, StoreTypes, StoreKeepsWord, AckedPacksStay, OfflineAbortsInstall
<1>. QED
  BY <1>1, StoreInitially, StoreStep, PTL DEF StoreSpec
-----------------------------------------------------------------------------
(***************************************************************************)
(* Relocation.  A relocation loses nothing and leaves nothing behind,      *)
(* wherever it fails or crashes, for every set of targets.                 *)
(***************************************************************************)
Journals == [of : Targets \cup {NoTarget}, from : Roots \cup {NoTarget}]
Records == [location : Roots, journal : Journals]
Parents == [staging : Entries, claimed : Entries, targetClaimed : Entries,
            at : [Targets -> Entries]]

\* The steps before the target is installed, those that switch to it, and
\* those that remove.
Copying == {"mkdir", "marker", "copy", "install"}
Switching == {"syncTarget", "locate", "syncLocation", "adopt"}
Removing == {"remove", "removeTarget", "unmark", "clear", "syncClear"}
Steps == {"idle", "closed", "begin", "journal", "reconcile"} \cup Copying \cup Switching \cup Removing
Modes == {"none", "resume", "finish", "catch", "open"}

Clean(p) ==
    /\ p.staging = "none" /\ p.claimed = "none" /\ p.targetClaimed = "none"
    /\ \A t \in Targets : p.at[t] # "marked"
MarkedOnly(p, t) == p.targetClaimed = "none" /\ \A u \in Targets : p.at[u] = "marked" => u = t

DiskTypes ==
    /\ record \in records /\ records \subseteq Records
    /\ parent \in parents /\ parents \subseteq Parents
    /\ content \in [Roots -> Nat] /\ acked \in Nat
StepTypes ==
    /\ step \in Steps /\ mode \in Modes
    /\ active \in Roots \cup {NoTarget} /\ (step # "closed" => active \in Roots)
    /\ target \in Targets \cup {NoTarget}
    /\ {blocked, installed, locationDurable, stagingFailed} \subseteq BOOLEAN
    /\ step = "idle" \/ (blocked = FALSE)

\* Whatever a crash leaves, marks and claims belong to the journal, and a
\* claimed target is not where the Library is.
DiskInv ==
    /\ \A r \in records : \A p \in parents :
        /\ Complete(p, r.location) /\ content[r.location] = acked
        /\ r.journal = NoJournal => Clean(p)
        /\ \A t \in Targets : p.at[t] = "marked" => t = r.journal.of
        /\ p.targetClaimed # "none" => r.location # r.journal.of

\* Between Locate and its reconciliation a crash decides where the Library
\* is; at every other moment that is settled.
InDoubt == step \in {"syncLocation", "adopt", "reconcile"} \/ (step = "remove" /\ mode = "catch" /\ installed = TRUE)
LocationInv ==
    /\ step = "closed" => \A r \in records : r.location = record.location
    /\ step # "closed" /\ ~InDoubt /\ (blocked = FALSE) => \A r \in records : r.location = active
    /\ step = "syncLocation" => record.location = target
    /\ step = "adopt" \/ (InDoubt /\ mode = "catch" /\ locationDurable = TRUE) =>
         \A r \in records : r.location = target

\* A relocation from its journal to the switch.
MoveInv ==
    /\ step \in {"begin", "journal"} \cup Copying \cup Switching =>
         mode = "none" /\ target \in Targets /\ target # active
    /\ step \in {"begin", "journal"} \cup Copying => installed = FALSE
    /\ step \in {"begin", "journal"} \cup Copying \cup (Switching \ {"adopt"}) => locationDurable = FALSE
    /\ step = "begin" => record.journal = NoJournal
    /\ step = "journal" => record.journal.of = target /\ \A p \in parents : Clean(p)
    /\ step \in Copying => \A p \in parents : MarkedOnly(p, NoTarget)
    /\ step \in Copying \cup Switching => \A r \in records : r.journal.of = target
    /\ step \in {"install"} \cup Switching => content[target] = acked
    /\ step \in Switching =>
         /\ installed = TRUE /\ parent.at[target] = "marked"
         /\ \A p \in parents : MarkedOnly(p, target)
    /\ step \in {"locate", "syncLocation", "adopt"} => \A p \in parents : p.at[target] = "marked"
    /\ step = "adopt" => locationDurable = TRUE

\* What removes: a relocation that resumes, finishes or failed, or an open.
RemovalInv ==
    /\ step \in Removing => mode # "none"
    /\ step = "removeTarget" => mode = "resume"
    /\ step = "unmark" => mode \in {"finish", "open"}
    /\ step = "reconcile" => mode = "catch" /\ installed = TRUE
    /\ step \in {"clear", "syncClear"} /\ mode = "catch" => installed = FALSE
    /\ step \in Removing /\ mode = "resume" =>
         /\ target \in Targets /\ target # active /\ installed = FALSE /\ locationDurable = FALSE
         /\ step # "syncClear" => record.journal.of = target
    /\ step \in Removing /\ mode \in {"finish", "open"} =>
         active \in Targets /\ \A p \in parents : MarkedOnly(p, active)
    /\ step \in Removing /\ mode = "finish" => active = target /\ installed = TRUE /\ locationDurable = TRUE
    /\ step \in Removing \cup {"reconcile"} /\ mode = "catch" =>
         /\ target \in Targets
         /\ \A p \in parents : MarkedOnly(p, IF installed = TRUE THEN target ELSE NoTarget)
         /\ installed = TRUE => content[target] = acked /\ parent.at[target] \in {"marked", "library"}
    /\ step \in Removing \ {"remove"} => \A p \in parents : p.staging = "none" /\ p.claimed = "none"
    /\ step \in {"clear", "syncClear"} => \A p \in parents : Clean(p)
    /\ step = "syncClear" => record.journal = NoJournal

RInv == DiskTypes /\ StepTypes /\ DiskInv /\ LocationInv /\ MoveInv /\ RemovalInv

USE DEF Roots, Entries, NoJournal, Steps, Modes, Copying, Switching, Removing, InDoubt

LEMMA EntryType == ASSUME NEW p \in Parents, NEW t \in Targets, NEW e \in Entries
                   PROVE  [p EXCEPT !.at[t] = e] \in Parents
<1>1. p.at \in [Targets -> Entries]
  BY DEF Parents
<1>2. [p.at EXCEPT ![t] = e] \in [Targets -> Entries]
  BY <1>1
<1>. QED
  BY <1>2 DEF Parents

LEMMA CommitStep ==
    ASSUME RelocationAssumption, RInv, Commit PROVE RInv'
<1>. USE DEF RInv, Commit, diskVars, flagVars
<1>1. DiskTypes'
  BY DEF DiskTypes, StepTypes
<1>2. StepTypes'
  BY DEF StepTypes
<1>3. DiskInv'
  BY DEF DiskTypes, StepTypes, DiskInv, LocationInv
<1>4. LocationInv'
  BY DEF LocationInv
<1>5. MoveInv'
  BY DEF MoveInv
<1>6. RemovalInv'
  BY DEF RemovalInv
<1>. QED
  BY <1>1, <1>2, <1>3, <1>4, <1>5, <1>6

LEMMA BeginStep ==
    ASSUME RelocationAssumption, RInv, Begin PROVE RInv'
<1>. USE DEF RInv, Begin, WriteRecord, SyncParent, KeepRecord, diskVars, flagVars
<1>1. DiskTypes'
  BY DEF DiskTypes, StepTypes, Records, Journals
<1>2. StepTypes'
  BY DEF StepTypes
<1>3. DiskInv'
  BY DEF DiskTypes, DiskInv, MoveInv, Clean, Records
<1>4. LocationInv'
  BY DEF DiskTypes, LocationInv, Records
<1>5. MoveInv'
  BY DEF DiskTypes, DiskInv, MoveInv, Records
<1>6. RemovalInv'
  BY DEF RemovalInv
<1>. QED
  BY <1>1, <1>2, <1>3, <1>4, <1>5, <1>6

LEMMA SyncJournalStep ==
    ASSUME RelocationAssumption, RInv, SyncJournal PROVE RInv'
<1>. USE DEF RInv, SyncJournal, SyncRecord, KeepParent, diskVars, flagVars
<1>1. DiskTypes'
  BY DEF DiskTypes
<1>2. StepTypes'
  BY DEF StepTypes
<1>3. DiskInv'
  BY DEF DiskTypes, DiskInv
<1>4. LocationInv'
  BY DEF DiskTypes, LocationInv
<1>5. MoveInv'
  BY DEF MoveInv, Clean, MarkedOnly
<1>6. RemovalInv'
  BY DEF RemovalInv
<1>. QED
  BY <1>1, <1>2, <1>3, <1>4, <1>5, <1>6

LEMMA MakeStagingStep ==
    ASSUME RelocationAssumption, RInv, MakeStaging PROVE RInv'
<1>. USE DEF RInv, MakeStaging, WriteParent, KeepRecord, diskVars, flagVars
<1>1. DiskTypes'
  BY DEF DiskTypes, Parents
<1>2. StepTypes'
  BY DEF StepTypes
<1>3. DiskInv'
  BY DEF DiskTypes, DiskInv, MoveInv, Complete, Parents, RelocationAssumption
<1>4. LocationInv'
  BY DEF LocationInv
<1>5. MoveInv'
  BY DEF DiskTypes, MoveInv, MarkedOnly, Parents
<1>6. RemovalInv'
  BY DEF RemovalInv
<1>. QED
  BY <1>1, <1>2, <1>3, <1>4, <1>5, <1>6

LEMMA MarkStagingStep ==
    ASSUME RelocationAssumption, RInv, MarkStaging PROVE RInv'
<1>. USE DEF RInv, MarkStaging, PutParent, KeepRecord, diskVars, flagVars
<1>1. DiskTypes'
  BY DEF DiskTypes, Parents
<1>2. StepTypes'
  BY DEF StepTypes
<1>3. DiskInv'
  BY DEF DiskTypes, DiskInv, MoveInv, Complete, RelocationAssumption
<1>4. LocationInv'
  BY DEF LocationInv
<1>5. MoveInv'
  BY DEF DiskTypes, MoveInv, MarkedOnly
<1>6. RemovalInv'
  BY DEF RemovalInv
<1>. QED
  BY <1>1, <1>2, <1>3, <1>4, <1>5, <1>6

LEMMA CopyStep ==
    ASSUME RelocationAssumption, RInv, Copy PROVE RInv'
<1>. USE DEF RInv, Copy, KeepRecord, KeepParent, diskVars, flagVars
<1>1. DiskTypes'
  BY DEF DiskTypes, StepTypes
<1>2. StepTypes'
  BY DEF StepTypes
<1>3. DiskInv'
  BY DEF StepTypes, DiskInv, LocationInv
<1>4. LocationInv'
  BY DEF LocationInv
<1>5. MoveInv'
  BY DEF DiskTypes, StepTypes, DiskInv, LocationInv, MoveInv
<1>6. RemovalInv'
  BY DEF RemovalInv
<1>. QED
  BY <1>1, <1>2, <1>3, <1>4, <1>5, <1>6

LEMMA InstallStep ==
    ASSUME RelocationAssumption, RInv, Install PROVE RInv'
<1>. USE DEF RInv, Install, WriteParent, KeepRecord, diskVars, flagVars
<1>1. DiskTypes'
  BY DEF DiskTypes, Parents
<1>2. StepTypes'
  BY DEF StepTypes
<1>3. DiskInv'
  BY DEF DiskTypes, StepTypes, DiskInv, LocationInv, MoveInv, Complete, Parents, RelocationAssumption
<1>4. LocationInv'
  BY DEF LocationInv
<1>5. MoveInv'
  BY DEF DiskTypes, DiskInv, MoveInv, MarkedOnly, Parents
<1>6. RemovalInv'
  BY DEF RemovalInv
<1>. QED
  BY <1>1, <1>2, <1>3, <1>4, <1>5, <1>6

LEMMA SyncTargetStep ==
    ASSUME RelocationAssumption, RInv, SyncTarget PROVE RInv'
<1>. USE DEF RInv, SyncTarget, SyncParent, KeepRecord, diskVars, flagVars
<1>1. DiskTypes'
  BY DEF DiskTypes
<1>2. StepTypes'
  BY DEF StepTypes
<1>3. DiskInv'
  BY DEF DiskTypes, DiskInv
<1>4. LocationInv'
  BY DEF LocationInv
<1>5. MoveInv'
  BY DEF DiskTypes, MoveInv
<1>6. RemovalInv'
  BY DEF RemovalInv
<1>. QED
  BY <1>1, <1>2, <1>3, <1>4, <1>5, <1>6

LEMMA LocateStep ==
    ASSUME RelocationAssumption, RInv, Locate PROVE RInv'
<1>. USE DEF RInv, Locate, WriteRecord, KeepParent, diskVars, flagVars
<1>1. DiskTypes'
  BY DEF DiskTypes, MoveInv, Records
<1>2. StepTypes'
  BY DEF StepTypes
<1>3. DiskInv'
  BY DEF DiskTypes, DiskInv, MoveInv, MarkedOnly, Complete, Records
<1>4. LocationInv'
  BY DEF LocationInv, MoveInv
<1>5. MoveInv'
  BY DEF DiskTypes, MoveInv, Records
<1>6. RemovalInv'
  BY DEF RemovalInv
<1>. QED
  BY <1>1, <1>2, <1>3, <1>4, <1>5, <1>6

LEMMA SyncLocationStep ==
    ASSUME RelocationAssumption, RInv, SyncLocation PROVE RInv'
<1>. USE DEF RInv, SyncLocation, SyncRecord, KeepParent, diskVars, flagVars
<1>1. DiskTypes'
  BY DEF DiskTypes
<1>2. StepTypes'
  BY DEF StepTypes
<1>3. DiskInv'
  BY DEF DiskTypes, DiskInv
<1>4. LocationInv'
  BY DEF LocationInv
<1>5. MoveInv'
  BY DEF DiskTypes, MoveInv
<1>6. RemovalInv'
  BY DEF RemovalInv
<1>. QED
  BY <1>1, <1>2, <1>3, <1>4, <1>5, <1>6

LEMMA AdoptStep ==
    ASSUME RelocationAssumption, RInv, Adopt PROVE RInv'
<1>. USE DEF RInv, Adopt, diskVars, flagVars
<1>1. DiskTypes'
  BY DEF DiskTypes
<1>2. StepTypes'
  BY DEF StepTypes, MoveInv
<1>3. DiskInv'
  BY DEF DiskInv
<1>4. LocationInv'
  BY DEF LocationInv
<1>5. MoveInv'
  BY DEF MoveInv
<1>6. RemovalInv'
  BY DEF MoveInv, RemovalInv
<1>. QED
  BY <1>1, <1>2, <1>3, <1>4, <1>5, <1>6

LEMMA ClaimStagingStep ==
    ASSUME RelocationAssumption, RInv, ClaimStaging PROVE RInv'
<1>. USE DEF RInv, ClaimStaging, PutParent, KeepRecord, Owned, diskVars, flagVars
<1>1. DiskTypes'
  BY DEF DiskTypes, Parents
<1>2. StepTypes'
  BY DEF StepTypes
<1>3. DiskInv'
  BY DEF DiskTypes, DiskInv, Clean, Complete
<1>4. LocationInv'
  BY DEF LocationInv
<1>5. MoveInv'
  BY DEF MoveInv
<1>6. RemovalInv'
  BY DEF DiskTypes, RemovalInv, MarkedOnly
<1>. QED
  BY <1>1, <1>2, <1>3, <1>4, <1>5, <1>6

LEMMA RemoveStagingStep ==
    ASSUME RelocationAssumption, RInv, RemoveStaging PROVE RInv'
<1>. USE DEF RInv, RemoveStaging, PutParent, KeepRecord, AfterStaging, diskVars, flagVars
<1>1. DiskTypes'
  BY DEF DiskTypes, Parents
<1>2. StepTypes'
  BY DEF StepTypes
<1>3. DiskInv'
  BY DEF DiskTypes, DiskInv, Clean, Complete
<1>4. LocationInv'
  BY DEF LocationInv
<1>5. MoveInv'
  BY DEF MoveInv
<1>6. RemovalInv'
  BY DEF DiskTypes, StepTypes, RemovalInv, Clean, MarkedOnly, RelocationAssumption
<1>. QED
  BY <1>1, <1>2, <1>3, <1>4, <1>5, <1>6

LEMMA ClaimTargetStep ==
    ASSUME RelocationAssumption, RInv, ClaimTarget PROVE RInv'
<1>. USE DEF RInv, ClaimTarget, PutParent, KeepRecord, diskVars, flagVars
<1>1. DiskTypes'
  <2>1. target \in Targets /\ parent \in Parents
    BY DEF DiskTypes, RemovalInv, Removing, StepTypes, MoveInv
  <2>2. [parent EXCEPT !.at[target] = "none"] \in Parents
    BY <2>1, EntryType DEF Entries
  <2>3. parent' = [[parent EXCEPT !.at[target] = "none"] EXCEPT !.targetClaimed = "marked"]
    BY <2>1 DEF Parents
  <2>4. parent' \in Parents
    BY <2>2, <2>3 DEF Parents, Entries
  <2>. QED
    BY <2>4 DEF DiskTypes
<1>2. StepTypes'
  BY DEF StepTypes
<1>3. DiskInv'
  BY DEF DiskTypes, StepTypes, DiskInv, LocationInv, RemovalInv, Clean, Complete
<1>4. LocationInv'
  BY DEF LocationInv
<1>5. MoveInv'
  BY DEF MoveInv
<1>6. RemovalInv'
  BY DEF DiskTypes, RemovalInv
<1>. QED
  BY <1>1, <1>2, <1>3, <1>4, <1>5, <1>6

LEMMA RemoveTargetStep ==
    ASSUME RelocationAssumption, RInv, RemoveTarget PROVE RInv'
<1>. USE DEF RInv, RemoveTarget, PutParent, KeepRecord, diskVars, flagVars
<1>1. DiskTypes'
  BY DEF DiskTypes, Parents
<1>2. StepTypes'
  BY DEF StepTypes
<1>3. DiskInv'
  BY DEF DiskTypes, DiskInv, Clean, Complete
<1>4. LocationInv'
  BY DEF LocationInv
<1>5. MoveInv'
  BY DEF MoveInv
<1>6. RemovalInv'
  BY DEF DiskTypes, DiskInv, RemovalInv, Clean
<1>. QED
  BY <1>1, <1>2, <1>3, <1>4, <1>5, <1>6

LEMMA UnmarkStep ==
    ASSUME RelocationAssumption, RInv, Unmark PROVE RInv'
<1>. USE DEF RInv, Unmark, PutParent, KeepRecord, diskVars, flagVars
<1>1. DiskTypes'
  BY DEF DiskTypes, Parents
<1>2. StepTypes'
  BY DEF StepTypes
<1>3. DiskInv'
  BY DEF DiskTypes, DiskInv, Clean, Complete
<1>4. LocationInv'
  BY DEF LocationInv
<1>5. MoveInv'
  BY DEF MoveInv
<1>6. RemovalInv'
  BY DEF DiskTypes, RemovalInv, Clean, MarkedOnly, Parents
<1>. QED
  BY <1>1, <1>2, <1>3, <1>4, <1>5, <1>6

LEMMA ClearJournalStep ==
    ASSUME RelocationAssumption, RInv, ClearJournal PROVE RInv'
<1>. USE DEF RInv, ClearJournal, WriteRecord, KeepParent, diskVars, flagVars
<1>1. DiskTypes'
  BY DEF DiskTypes, Records, Journals
<1>2. StepTypes'
  BY DEF StepTypes
<1>3. DiskInv'
  BY DEF DiskTypes, DiskInv, RemovalInv, Clean, Records
<1>4. LocationInv'
  BY DEF DiskTypes, LocationInv, Records
<1>5. MoveInv'
  BY DEF MoveInv
<1>6. RemovalInv'
  BY DEF RemovalInv
<1>. QED
  BY <1>1, <1>2, <1>3, <1>4, <1>5, <1>6

LEMMA SyncClearStep ==
    ASSUME RelocationAssumption, RInv, SyncClear PROVE RInv'
<1>. USE DEF RInv, SyncClear, SyncRecord, KeepParent, diskVars, flagVars
<1>1. DiskTypes'
  BY DEF DiskTypes
<1>2. StepTypes'
  BY DEF StepTypes
<1>3. DiskInv'
  BY DEF DiskTypes, DiskInv
<1>4. LocationInv'
  BY DEF DiskTypes, LocationInv
<1>5. MoveInv'
  BY DEF MoveInv, RemovalInv
<1>6. RemovalInv'
  BY DEF RemovalInv
<1>. QED
  BY <1>1, <1>2, <1>3, <1>4, <1>5, <1>6

LEMMA ReconcileStep ==
    ASSUME RelocationAssumption, RInv, Reconcile PROVE RInv'
<1>. USE DEF RInv, Reconcile, SyncParent, KeepRecord, diskVars, flagVars
<1>1. DiskTypes'
  BY DEF DiskTypes, RemovalInv, Records
<1>2. StepTypes'
  BY DEF StepTypes, RemovalInv
<1>3. DiskInv'
  BY DEF DiskTypes, DiskInv, RemovalInv, MarkedOnly, Complete, Records
<1>4. LocationInv'
  BY DEF DiskTypes, LocationInv, RemovalInv, Records
<1>5. MoveInv'
  BY DEF MoveInv
<1>6. RemovalInv'
  BY DEF DiskTypes, RemovalInv
<1>. QED
  BY <1>1, <1>2, <1>3, <1>4, <1>5, <1>6

LEMMA FailStep ==
    ASSUME RelocationAssumption, RInv, Fail PROVE RInv'
<1>. USE DEF RInv, Fail, KeepRecord, KeepParent, SyncParent, WriteRecord, Caught, InTry, Trouble, diskVars, flagVars
<1>1. DiskTypes'
  BY DEF DiskTypes, RemovalInv, Records
<1>2. StepTypes'
  BY DEF StepTypes
<1>3. DiskInv'
  BY DEF DiskTypes, DiskInv, RemovalInv, MarkedOnly, Complete, Records
<1>4. LocationInv'
  <2>1. CASE KeepRecord /\ KeepParent
    <3>1. CASE Caught
      BY <2>1, <3>1 DEF StepTypes, LocationInv, MoveInv, RemovalInv
    <3>2. CASE ~Caught /\ mode = "catch" /\ step = "remove"
      BY <2>1, <3>2 DEF LocationInv
    <3>3. CASE ~Caught /\ ~(mode = "catch" /\ step = "remove")
      BY <2>1, <3>3 DEF DiskTypes, StepTypes, LocationInv, RemovalInv
    <3>. QED
      BY <3>1, <3>2, <3>3
  <2>2. CASE step = "reconcile" /\ (locationDurable = FALSE) /\ SyncParent
    BY <2>2 DEF LocationInv, RemovalInv
  <2>. QED
    BY <2>1, <2>2 DEF StepTypes
<1>5. MoveInv'
  BY DEF MoveInv
<1>6. RemovalInv'
  BY DEF DiskTypes, StepTypes, DiskInv, LocationInv, MoveInv, RemovalInv, Complete, RelocationAssumption
<1>. QED
  BY <1>1, <1>2, <1>3, <1>4, <1>5, <1>6

LEMMA CrashStep ==
    ASSUME RelocationAssumption, RInv, Crash PROVE RInv'
<1>. USE DEF RInv, Crash, diskVars, flagVars
<1>1. DiskTypes'
  BY DEF DiskTypes
<1>2. StepTypes'
  BY DEF StepTypes
<1>3. DiskInv'
  BY DEF DiskInv
<1>4. LocationInv'
  BY DEF LocationInv
<1>5. MoveInv'
  BY DEF MoveInv
<1>6. RemovalInv'
  BY DEF RemovalInv
<1>. QED
  BY <1>1, <1>2, <1>3, <1>4, <1>5, <1>6

LEMMA OpenStep ==
    ASSUME RelocationAssumption, RInv, Open PROVE RInv'
<1>. USE DEF RInv, Open, diskVars, flagVars
<1>1. DiskTypes'
  BY DEF DiskTypes
<1>2. StepTypes'
  BY DEF DiskTypes, StepTypes, Records
<1>3. DiskInv'
  BY DEF DiskInv
<1>4. LocationInv'
  BY DEF LocationInv
<1>5. MoveInv'
  BY DEF MoveInv
<1>6. RemovalInv'
  BY DEF DiskTypes, DiskInv, RemovalInv, MarkedOnly, Records, Journals, RelocationAssumption
<1>. QED
  BY <1>1, <1>2, <1>3, <1>4, <1>5, <1>6

LEMMA ForeignStep ==
    ASSUME RelocationAssumption, RInv, NEW t \in Targets, Foreign(t) PROVE RInv'
<1>. USE DEF RInv, Foreign, diskVars, flagVars
<1>1. DiskTypes'
  <2>1. parent' \in parents' /\ parents' \subseteq Parents
    BY EntryType DEF DiskTypes, Entries
  <2>. QED
    BY <2>1 DEF DiskTypes
<1>2. StepTypes'
  BY DEF StepTypes
<1>3. DiskInv'
  BY DEF DiskTypes, DiskInv, Clean, Complete, Records, Parents
<1>4. LocationInv'
  BY DEF LocationInv
<1>5. MoveInv'
  BY DEF DiskTypes, MoveInv, Clean, MarkedOnly, Parents
<1>6. RemovalInv'
  BY DEF DiskTypes, RemovalInv, Clean, MarkedOnly, Parents
<1>. QED
  BY <1>1, <1>2, <1>3, <1>4, <1>5, <1>6

LEMMA RelocateStep ==
    ASSUME RelocationAssumption, RInv, NEW t \in Targets, Relocate(t) PROVE RInv'
<1>. USE DEF RInv, Relocate, diskVars, flagVars
<1>1. DiskTypes'
  BY DEF DiskTypes
<1>2. StepTypes'
  BY DEF StepTypes
<1>3. DiskInv'
  BY DEF DiskInv
<1>4. LocationInv'
  BY DEF LocationInv
<1>5. MoveInv'
  BY DEF MoveInv
<1>6. RemovalInv'
  BY DEF RemovalInv
<1>. QED
  BY <1>1, <1>2, <1>3, <1>4, <1>5, <1>6

LEMMA RelocationInitially == ASSUME RelocationAssumption, RelocationInit PROVE RInv
<1>. USE DEF RelocationInit, NoJournal
<1>1. DiskTypes
  BY DEF DiskTypes, Records, Journals, Parents
<1>2. StepTypes
  BY DEF StepTypes
<1>3. DiskInv
  BY DEF DiskInv, Complete, Clean, RelocationAssumption
<1>4. LocationInv /\ MoveInv /\ RemovalInv
  BY DEF LocationInv, MoveInv, RemovalInv
<1>. QED
  BY <1>1, <1>2, <1>3, <1>4 DEF RInv

LEMMA RelocationStep ==
    ASSUME RelocationAssumption, RInv, [RelocationNext]_relocationVars PROVE RInv'
<1>1. CASE RelocationNext
  BY <1>1, CommitStep, BeginStep, SyncJournalStep, MakeStagingStep, MarkStagingStep,
     CopyStep, InstallStep, SyncTargetStep, LocateStep, SyncLocationStep, AdoptStep,
     ClaimStagingStep, RemoveStagingStep, ClaimTargetStep, RemoveTargetStep, UnmarkStep,
     ClearJournalStep, SyncClearStep, ReconcileStep, FailStep, CrashStep, OpenStep,
     ForeignStep, RelocateStep
     DEF RelocationNext
<1>2. CASE UNCHANGED relocationVars
  BY <1>2 DEF relocationVars, diskVars, flagVars, RInv, DiskTypes, StepTypes, DiskInv,
     LocationInv, MoveInv, RemovalInv, Clean, MarkedOnly, Complete
<1>. QED
  BY <1>1, <1>2

\* Whatever a crash or a failure of a relocation leaves, the location record
\* names a root that is there and holds every acknowledged commit, and a
\* directory of the relocation is never without the journal that names it.
THEOREM RelocationLosesNothing ==
    ASSUME RelocationAssumption PROVE RelocationSpec => []RelocationKeepsWord
<1>1. RInv => RelocationKeepsWord
  BY DEF RInv, DiskInv, RelocationKeepsWord, NothingLeftBehind, NoOrphan, Clean
<1>. QED
  BY <1>1, RelocationInitially, RelocationStep, PTL DEF RelocationSpec
HIDE DEF Roots, Entries, NoJournal, Steps, Modes, Copying, Switching, Removing, InDoubt
-----------------------------------------------------------------------------
(***************************************************************************)
(* ArchiveImport.  The media cache hands out what its record claims and    *)
(* never weakens a claim, and repeating an import converges.               *)
(***************************************************************************)
Entry == [state : {"none", "active", "trashed"}, archive : Archives \cup {NoBytes}, edited : BOOLEAN]
ImportSteps == {"idle", "inspect", "sources", "identity", "restore", "present",
                "store", "forget", "bytes", "record", "sync"}
Importing == [at : ImportSteps, archive : Archives \cup {NoBytes}, index : 0..MaxCopies,
              known : BOOLEAN, adopt : BOOLEAN]
Claims == {"none", "archive", "snapshot"}
CacheRecords == [bytes : Archives \cup {NoBytes}, claim : Claims]

ImportTypes ==
    /\ entries \in [Identities -> Entry] /\ known \in BOOLEAN
    /\ importing \in Importing /\ (importing.at # "idle" => importing.archive \in Archives)
    /\ importing.at \in {"inspect", "sources"} => importing.index = 0
    /\ cacheRecord \in CacheRecords /\ cacheRecordSafe \in CacheRecords
    /\ bytesFile \in Archives \cup {NoBytes} /\ bytesSafe \in Archives \cup {NoBytes}
    /\ stored \in {"none", "archive", "snapshot"} /\ everTrashed \in BOOLEAN

\* Between the check of the bytes and their record nothing is stored, and the
\* steps have left what they wrote.
Writing == {"bytes", "record", "sync"}
CacheInv ==
    /\ importing.at \in {"store", "forget"} \cup Writing /\ importing.known = TRUE => importing.archive \in Proven
    /\ cacheRecord.claim = "snapshot" => cacheRecord.bytes \in Proven
    /\ cacheRecordSafe.claim = "snapshot" => cacheRecordSafe.bytes \in Proven
    /\ importing.at \in Writing => stored = "none"
    /\ importing.at \in {"record", "sync"} => bytesFile = importing.archive
    /\ importing.at = "sync" => bytesSafe = bytesFile /\ cacheRecord = [bytes |-> importing.archive, claim |-> Claim]
    /\ stored # "none" =>
         /\ cacheRecord = cacheRecordSafe /\ bytesFile = bytesSafe
         /\ cacheRecord.claim = stored /\ cacheRecord.bytes = bytesFile

\* As long as nothing is trashed an archive's identities are taken in their
\* order, and one that an import has passed stays taken by another Project.
NoneTrashed == \A i \in Identities : entries[i].state # "trashed"
Named == \A i \in Identities : entries[i].state # "none" /\ entries[i].archive # NoBytes =>
            \E k \in 0..MaxCopies : i = Candidate(entries[i].archive, k)
InOrder == \A a \in Archives : \A j, k \in 0..MaxCopies :
            j < k /\ entries[Candidate(a, k)].state # "none" => entries[Candidate(a, j)].state # "none"
PassedBy(a, j) ==
    /\ entries[Candidate(a, j)].state # "none"
    /\ entries[Candidate(a, j)].archive = a => entries[Candidate(a, j)].edited = TRUE
Passed == importing.at \in {"identity", "restore"} =>
            \A j \in 0..MaxCopies : j < importing.index => PassedBy(importing.archive, j)
ConvergeInv == everTrashed = FALSE => NoneTrashed /\ Named /\ InOrder /\ Passed /\ ImportConverges

ImportInv == ImportTypes /\ CacheInv /\ ConvergeInv

USE DEF cacheVars, importBounds, ImportSteps, Claims, Writing, NotImporting, NoRecord, Free, Go

\* The identities an import tries: none is tried twice, and those of two
\* archives have only the archived one in common.
LEMMA Candidates ==
    ASSUME NEW a \in Archives, NEW j \in 0..MaxCopies, ImportAssumption
    PROVE  /\ Candidate(a, j) \in Identities
           /\ \A k \in 0..MaxCopies : Candidate(a, j) = Candidate(a, k) => j = k
           /\ \A b \in Archives : \A k \in 0..MaxCopies :
                Candidate(a, j) = Candidate(b, k) => j = k /\ (a = b \/ j = 0)
<1>. USE DEF ImportAssumption
<1>1. Candidate(a, j) \in Identities
  BY DEF Candidate, Identities
<1>2. ASSUME NEW b \in Archives, NEW k \in 0..MaxCopies, Candidate(a, j) = Candidate(b, k)
      PROVE  j = k /\ (a = b \/ j = 0)
  BY <1>2 DEF Candidate
<1>. QED
  BY <1>1, <1>2

LEMMA ImportInitially == ASSUME ImportAssumption PROVE ImportInit => ImportInv
<1>. SUFFICES ASSUME ImportInit PROVE ImportInv
  OBVIOUS
<1>. USE DEF ImportInit
<1>1. Free \in Entry
  BY DEF Entry
<1>2. importing \in Importing
  BY DEF ImportAssumption, Importing
<1>3. ImportTypes
  <2>. HIDE DEF Free
  <2>. QED
    BY <1>1, <1>2 DEF ImportTypes, CacheRecords, NotImporting
<1>4. CacheInv
  BY DEF CacheInv
<1>5. ConvergeInv
  <2>1. \A i \in Identities : entries[i] = Free
    OBVIOUS
  <2>2. ASSUME NEW a \in Archives, NEW k \in 0..MaxCopies PROVE entries[Candidate(a, k)].state = "none"
    <3>1. Candidate(a, k) \in Identities
      BY Candidates
    <3>. QED
      BY <2>1, <3>1
  <2>3. \A i \in Identities : entries[i].state = "none"
    BY <2>1
  <2>4. ImportConverges
    BY <2>3 DEF ImportConverges
  <2>. QED
    BY <2>2, <2>3, <2>4 DEF ConvergeInv, NoneTrashed, Named, InOrder, Passed
<1>. QED
  BY <1>3, <1>4, <1>5 DEF ImportInv

\* Where an import goes is a step of an import.
LEMMA ImportGoes ==
    ASSUME importing \in Importing, NEW s \in ImportSteps, importing' = [importing EXCEPT !.at = s]
    PROVE  /\ importing' \in Importing /\ importing'.at = s /\ importing'.archive = importing.archive
           /\ importing'.index = importing.index /\ importing'.known = importing.known
  BY DEF Importing
LEMMA ImportStops ==
    ASSUME ImportAssumption, importing' = NotImporting
    PROVE  importing' \in Importing /\ importing'.at = "idle"
  BY DEF ImportAssumption, Importing
LEMMA ImportGoesOn ==
    ASSUME ImportAssumption, ImportTypes, ImportNext
    PROVE  /\ importing' \in Importing /\ (importing'.at # "idle" => importing'.archive \in Archives)
           /\ importing'.at \in {"inspect", "sources"} => importing'.index = 0
<1>. USE DEF ImportTypes
<1>. HIDE DEF NotImporting, ImportSteps
<1>. DEFINE Fine == /\ importing' \in Importing /\ (importing'.at # "idle" => importing'.archive \in Archives)
                    /\ importing'.at \in {"inspect", "sources"} => importing'.index = 0
<1>1. ASSUME importing' = NotImporting PROVE Fine
  BY <1>1, ImportStops
<1>2. ASSUME NEW s \in ImportSteps, Go(s), importing.at # "idle", s \notin {"idle", "inspect", "sources"} PROVE Fine
  <2>1. importing' = [importing EXCEPT !.at = s]
    BY <1>2
  <2>. QED
    BY <1>2, <2>1, ImportGoes
<1>3. UNCHANGED importing => Fine
  OBVIOUS
<1>4. {"identity", "restore", "present", "store", "forget", "bytes", "record", "sync"} \subseteq ImportSteps
  BY DEF ImportSteps
<1>5. ASSUME NEW a \in Archives, NEW adopt \in BOOLEAN, Import(a, adopt) PROVE Fine
  <2>1. importing' = [at |-> "inspect", archive |-> a, index |-> 0, known |-> FALSE, adopt |-> adopt]
    BY <1>5 DEF Import, NotImporting
  <2>. QED
    BY <2>1 DEF Importing, ImportSteps, ImportAssumption
<1>6. CASE Inspect
  <2>1. CASE importing' = [importing EXCEPT !.at = "sources", !.known = known]
    <3>1. importing' = [[importing EXCEPT !.at = "sources"] EXCEPT !.known = known]
      BY <2>1
    <3>2. importing' \in Importing
      BY <3>1 DEF Importing, ImportSteps
    <3>3. importing'.index = importing.index /\ importing'.archive = importing.archive
      BY <3>1 DEF Importing, ImportSteps
    <3>. QED
      BY <1>6, <3>2, <3>3 DEF Inspect
  <2>. QED
    BY <1>6, <1>1, <2>1 DEF Inspect
<1>7. CASE ResolveIdentity
  <2>1. CASE Go("restore")
    BY <1>2, <1>4, <1>7, <2>1 DEF ResolveIdentity
  <2>2. CASE Go("present")
    BY <1>2, <1>4, <1>7, <2>2 DEF ResolveIdentity
  <2>3. CASE importing.index < MaxCopies /\ importing' = [importing EXCEPT !.index = @ + 1]
    <3>1. importing' \in Importing
      BY <2>3 DEF Importing, ImportSteps, ImportAssumption
    <3>2. importing'.at = importing.at /\ importing'.archive = importing.archive
      BY <2>3 DEF Importing, ImportSteps
    <3>. QED
      BY <1>7, <3>1, <3>2 DEF ResolveIdentity
  <2>. QED
    BY <1>7, <1>1, <2>1, <2>2, <2>3 DEF ResolveIdentity
<1>8. CASE AdoptSources
  BY <1>1, <1>2, <1>4, <1>8 DEF AdoptSources
<1>9. CASE Restore
  BY <1>1, <1>2, <1>4, <1>9 DEF Restore
<1>10. CASE AdoptMedia
  BY <1>1, <1>2, <1>4, <1>10 DEF AdoptMedia
<1>11. CASE Store
  BY <1>1, <1>2, <1>4, <1>11 DEF Store
<1>12. CASE Forget \/ InstallBytes \/ InstallRecord
  BY <1>2, <1>4, <1>12 DEF Forget, InstallBytes, InstallRecord
<1>13. CASE SyncCacheRecord \/ StoreFails \/ CrashImport
  BY <1>1, <1>13 DEF SyncCacheRecord, StoreFails, CrashImport
<1>14. CASE ChangeLibrary \/ BytesDecay
  BY <1>3, <1>14 DEF ChangeLibrary, BytesDecay
<1>. QED
  BY <1>5, <1>6, <1>7, <1>8, <1>9, <1>10, <1>11, <1>12, <1>13, <1>14 DEF ImportNext

\* What becomes of one Project, seen from every other.
LEMMA EntryStep ==
    ASSUME entries \in [Identities -> Entry], NEW c \in Identities, NEW e \in Entry,
           entries' = [entries EXCEPT ![c] = e]
    PROVE  /\ entries' \in [Identities -> Entry] /\ entries'[c] = e
           /\ \A i \in Identities : i # c => entries'[i] = entries[i]
  OBVIOUS
LEMMA EntryFields ==
    ASSUME NEW x \in Entry
    PROVE  /\ [x EXCEPT !.state = "active"] \in Entry /\ [x EXCEPT !.state = "trashed"] \in Entry
           /\ [x EXCEPT !.edited = TRUE] \in Entry
           /\ [x EXCEPT !.edited = TRUE].state = x.state /\ [x EXCEPT !.edited = TRUE].archive = x.archive
           /\ [x EXCEPT !.edited = TRUE].edited = TRUE
           /\ Free \in Entry /\ [Free EXCEPT !.state = "active"] \in Entry
           /\ [Free EXCEPT !.state = "active"].state = "active" /\ [Free EXCEPT !.state = "active"].archive = NoBytes
  BY DEF Entry
LEMMA EditStep ==
    ASSUME entries \in [Identities -> Entry], NEW i \in Identities, EditProject(i)
    PROVE  entries' = [entries EXCEPT ![i] = [entries[i] EXCEPT !.edited = TRUE]]
  BY DEF EditProject
LEMMA TrashStep ==
    ASSUME entries \in [Identities -> Entry], NEW i \in Identities, TrashProject(i)
    PROVE  entries' = [entries EXCEPT ![i] = [entries[i] EXCEPT !.state = "trashed"]]
  BY DEF TrashProject

\* A change that leaves the Projects alone, with no import before its Restore.
LEMMA ConvergeFrame ==
    ASSUME ConvergeInv, UNCHANGED <<entries, everTrashed>>, importing'.at \notin {"identity", "restore"}
    PROVE  ConvergeInv'
  BY DEF ConvergeInv, ImportConverges, NoneTrashed, Named, InOrder, Passed

LEMMA ImportTypesStep == ASSUME ImportAssumption, ImportInv, ImportNext PROVE ImportTypes'
<1>. USE DEF ImportInv, ImportTypes
<1>1. ASSUME NEW a \in Archives, NEW adopt \in BOOLEAN, Import(a, adopt) PROVE ImportTypes'
  BY ImportGoesOn, <1>1 DEF Import
<1>2. CASE Inspect
  BY ImportGoesOn, <1>2 DEF Inspect
<1>3. CASE AdoptSources
  BY ImportGoesOn, <1>3 DEF AdoptSources
<1>4. CASE ResolveIdentity
  BY ImportGoesOn, <1>4 DEF ResolveIdentity, Same
<1>5. CASE Restore
  <2>. DEFINE c == Candidate(importing.archive, importing.index)
  <2>1. CASE entries[c].state # "none"
    BY ImportGoesOn, <1>5, <2>1 DEF Restore
  <2>2. CASE ~(entries[c].state # "none")
    <3>1. c \in Identities
      BY <1>5, Candidates DEF Restore, Importing
    <3>2. [state |-> "active", archive |-> importing.archive, edited |-> FALSE] \in Entry
      BY <1>5 DEF Restore, Entry
    <3>3. entries' \in [Identities -> Entry]
      BY <3>1, <3>2, <2>2, <1>5, EntryStep DEF Restore
    <3>. QED
      BY ImportGoesOn, <3>3, <2>2, <1>5 DEF Restore
  <2>. QED
    BY <2>1, <2>2
<1>6. CASE AdoptMedia
  BY ImportGoesOn, <1>6 DEF AdoptMedia
<1>7. CASE Store
  BY ImportGoesOn, <1>7 DEF Store, CacheVerified, Stronger, Claim
<1>8. CASE Forget
  <2>1. NoRecord \in CacheRecords
    BY DEF CacheRecords
  <2>. QED
    BY <2>1, ImportGoesOn, <1>8 DEF Forget
<1>9. CASE InstallBytes
  BY ImportGoesOn, <1>9 DEF InstallBytes
<1>10. CASE InstallRecord
  <2>1. cacheRecord' \in CacheRecords
    BY <1>10 DEF InstallRecord, CacheRecords, Claim
  <2>. QED
    BY <2>1, ImportGoesOn, <1>10 DEF InstallRecord
<1>11. CASE SyncCacheRecord
  BY ImportGoesOn, <1>11 DEF SyncCacheRecord, Claim
<1>12. CASE StoreFails
  BY ImportGoesOn, <1>12 DEF StoreFails
<1>13. CASE ChangeLibrary
  <2>1. entries' \in [Identities -> Entry] /\ known' \in BOOLEAN /\ everTrashed' \in BOOLEAN
    <3>. HIDE DEF Free
    <3>1. CASE OriginAppears
      <4>1. <<NoBytes, 0>> \in Identities
        BY DEF Identities
      <4>. QED
        BY <4>1, <3>1, EntryFields, EntryStep DEF OriginAppears
    <3>2. ASSUME NEW i \in Identities, EditProject(i) PROVE entries' \in [Identities -> Entry] /\ known' \in BOOLEAN /\ everTrashed' \in BOOLEAN
      BY <3>2, EditStep, EntryFields, EntryStep DEF EditProject
    <3>3. ASSUME NEW i \in Identities, TrashProject(i) PROVE entries' \in [Identities -> Entry] /\ known' \in BOOLEAN /\ everTrashed' \in BOOLEAN
      BY <3>3, TrashStep, EntryFields, EntryStep DEF TrashProject
    <3>4. ASSUME NEW i \in Identities, DeleteProject(i) PROVE entries' \in [Identities -> Entry] /\ known' \in BOOLEAN /\ everTrashed' \in BOOLEAN
      <4>1. entries[i] \in Entry
        OBVIOUS
      <4>2. [entries[i] EXCEPT !.state = "active"] \in Entry /\ Free \in Entry
        BY <4>1, EntryFields
      <4>3. PICK e \in Entry : entries' = [entries EXCEPT ![i] = e]
        BY <3>4, <4>2 DEF DeleteProject
      <4>. QED
        BY <3>4, <4>3, EntryStep DEF DeleteProject
    <3>. QED
      BY <3>1, <3>2, <3>3, <3>4, <1>13 DEF ChangeLibrary
  <2>. QED
    BY <2>1, ImportGoesOn, <1>13 DEF ChangeLibrary
<1>14. CASE BytesDecay
  BY ImportGoesOn, <1>14 DEF BytesDecay
<1>15. CASE CrashImport
  BY ImportGoesOn, <1>15 DEF CrashImport
<1>. QED
  BY <1>1, <1>2, <1>3, <1>4, <1>5, <1>6, <1>7, <1>8, <1>9, <1>10, <1>11, <1>12, <1>13, <1>14, <1>15 DEF ImportNext

LEMMA CacheInvStep == ASSUME ImportAssumption, ImportInv, ImportNext PROVE CacheInv'
<1>. USE DEF ImportInv, ImportTypes, CacheInv
<1>1. ASSUME NEW a \in Archives, NEW adopt \in BOOLEAN, Import(a, adopt) PROVE CacheInv'
  BY <1>1 DEF Import, Importing, CacheRecords, Claim
<1>2. CASE Inspect
  <2>1. importing'.at \in {"idle", "sources"}
    <3>1. CASE importing' = [importing EXCEPT !.at = "sources", !.known = known]
      <4>1. importing' = [[importing EXCEPT !.at = "sources"] EXCEPT !.known = known]
        BY <3>1
      <4>. QED
        BY <4>1 DEF Importing
    <3>. QED
      BY <1>2, <3>1 DEF Inspect
  <2>. QED
    BY <2>1, <1>2 DEF Inspect
<1>3. CASE AdoptSources
  BY <1>3 DEF AdoptSources, Importing, CacheRecords, Claim
<1>4. CASE ResolveIdentity
  BY <1>4 DEF ResolveIdentity, Same, Importing, CacheRecords, Claim
<1>5. CASE Restore
  BY <1>5 DEF Restore, Importing, CacheRecords, Claim
<1>6. CASE AdoptMedia
  BY <1>6 DEF AdoptMedia, Importing, CacheRecords, Claim
<1>7. CASE Store
  BY <1>7 DEF Store, CacheVerified, Stronger, Claim, Importing, CacheRecords
<1>8. CASE Forget
  BY <1>8 DEF Forget, Importing, CacheRecords, Claim
<1>9. CASE InstallBytes
  BY <1>9 DEF InstallBytes, Importing, CacheRecords, Claim
<1>10. CASE InstallRecord
  BY <1>10 DEF InstallRecord, Claim, Importing, CacheRecords
<1>11. CASE SyncCacheRecord
  BY <1>11 DEF SyncCacheRecord, Claim, Importing, CacheRecords
<1>12. CASE StoreFails
  BY <1>12 DEF StoreFails, Importing, CacheRecords, Claim
<1>13. CASE ChangeLibrary
  BY <1>13 DEF ChangeLibrary, OriginAppears, EditProject, TrashProject, DeleteProject, Importing, CacheRecords, Claim
<1>14. CASE BytesDecay
  BY <1>14 DEF BytesDecay, Importing, CacheRecords, Claim
<1>15. CASE CrashImport
  BY <1>15 DEF CrashImport, Importing, CacheRecords, Claim
<1>. QED
  BY <1>1, <1>2, <1>3, <1>4, <1>5, <1>6, <1>7, <1>8, <1>9, <1>10, <1>11, <1>12, <1>13, <1>14, <1>15 DEF ImportNext

LEMMA ConvergeInvStep == ASSUME ImportAssumption, ImportInv, ImportNext PROVE ConvergeInv'
<1>. USE DEF ImportInv, ImportTypes
<1>1. ASSUME NEW a \in Archives, NEW adopt \in BOOLEAN, Import(a, adopt) PROVE ConvergeInv'
  <2>1. importing'.at = "inspect"
    BY <1>1 DEF Import
  <2>. QED
    BY <2>1, <1>1, ConvergeFrame DEF Import
<1>2. CASE Inspect
  <2>1. importing'.at \in {"idle", "sources"}
    <3>1. CASE importing' = [importing EXCEPT !.at = "sources", !.known = known]
      <4>1. importing' = [[importing EXCEPT !.at = "sources"] EXCEPT !.known = known]
        BY <3>1
      <4>. QED
        BY <4>1 DEF Importing
    <3>. QED
      BY <1>2, <3>1 DEF Inspect
  <2>. QED
    BY <2>1, <1>2, ConvergeFrame DEF Inspect
<1>3. CASE AdoptSources
  <2>1. CASE importing' = NotImporting
    BY <1>3, <2>1, ConvergeFrame DEF AdoptSources
  <2>2. CASE Go("identity")
    <3>1. importing'.index = 0
      BY <1>3, <2>2 DEF AdoptSources, Importing
    <3>2. Passed'
      BY <3>1, ImportGoesOn DEF Passed, Importing
    <3>. QED
      BY <3>2, <1>3 DEF AdoptSources, ConvergeInv, ImportConverges, NoneTrashed, Named, InOrder
  <2>. QED
    BY <1>3, <2>1, <2>2 DEF AdoptSources
<1>4. CASE ResolveIdentity
  <2>. DEFINE e == entries[Candidate(importing.archive, importing.index)]
  <2>1. CASE importing' = NotImporting \/ Go("present")
    <3>1. importing'.at \notin {"identity", "restore"}
      BY <2>1 DEF Importing
    <3>. QED
      BY <1>4, <3>1, ConvergeFrame DEF ResolveIdentity
  <2>2. ASSUME everTrashed = FALSE, ~(importing' = NotImporting \/ Go("present")) PROVE Passed'
    <3>0. Passed /\ NoneTrashed
      BY <2>2 DEF ConvergeInv
    <3>1. importing.archive \in Archives /\ importing.index \in 0..MaxCopies
      BY <1>4 DEF ResolveIdentity, Importing
    <3>2. e \in Entry
      BY <3>1, Candidates
    <3>3. \A j \in 0..MaxCopies : j < importing.index => PassedBy(importing.archive, j)
      BY <3>0, <1>4 DEF Passed, ResolveIdentity
    <3>4. \A j \in 0..MaxCopies : PassedBy(importing.archive, j)' <=>
            PassedBy(importing'.archive, j)
      BY <1>4 DEF PassedBy, ResolveIdentity
    <3>5. CASE Go("restore")
      <4>1. importing'.index = importing.index /\ importing'.archive = importing.archive
        BY <3>5 DEF Importing
      <4>. QED
        BY <4>1, <3>3, <1>4 DEF Passed, PassedBy, ResolveIdentity
    <3>6. CASE importing' = [importing EXCEPT !.index = @ + 1] /\ e.state # "none" /\ ~Same(e)
      <4>1. importing'.index = importing.index + 1 /\ importing'.archive = importing.archive
        BY <3>6 DEF Importing
      <4>2. e.state # "trashed"
        BY <3>0, <3>1, Candidates DEF NoneTrashed
      <4>3. PassedBy(importing.archive, importing.index)
        BY <3>6, <3>2, <4>2 DEF PassedBy, Same, Entry
      <4>4. \A j \in 0..MaxCopies : j < importing.index + 1 => j < importing.index \/ j = importing.index
        BY <3>1
      <4>5. \A j \in 0..MaxCopies : j < importing'.index => PassedBy(importing.archive, j)
        BY <4>1, <4>3, <4>4, <3>3
      <4>. QED
        BY <4>1, <4>5, <1>4 DEF Passed, PassedBy, ResolveIdentity
    <3>. QED
      BY <3>5, <3>6, <2>2, <1>4 DEF ResolveIdentity
  <2>. QED
    BY <2>1, <2>2, <1>4 DEF ConvergeInv, ImportConverges, NoneTrashed, Named, InOrder, ResolveIdentity
<1>5. CASE Restore
  <2>. DEFINE a == importing.archive
              n == importing.index
              c == Candidate(a, n)
  <2>1. importing'.at \notin {"identity", "restore"}
    BY <1>5 DEF Restore, Importing
  <2>2. CASE UNCHANGED entries
    BY <2>1, <2>2, <1>5, ConvergeFrame DEF Restore
  <2>3. CASE entries[c].state = "none" /\ everTrashed = FALSE
    <3>0. NoneTrashed /\ Named /\ InOrder /\ Passed /\ ImportConverges
      BY <2>3 DEF ConvergeInv
    <3>1. a \in Archives /\ n \in 0..MaxCopies /\ c \in Identities
      BY <1>5, Candidates DEF Restore, Importing
    <3>. DEFINE e == [state |-> "active", archive |-> a, edited |-> FALSE]
    <3>2. e \in Entry
      BY <3>1 DEF Entry
    <3>3. entries'[c] = e /\ \A i \in Identities : i # c => entries'[i] = entries[i]
      BY <3>1, <3>2, <2>3, <1>5, EntryStep DEF Restore
    <3>4. \A j \in 0..MaxCopies : j < n => PassedBy(a, j)
      BY <3>0, <1>5 DEF Passed, Restore
    <3>5. NoneTrashed'
      BY <3>3, <3>0 DEF NoneTrashed
    <3>6. Named'
      <4>1. ASSUME NEW i \in Identities, entries'[i].state # "none", entries'[i].archive # NoBytes
            PROVE  \E k \in 0..MaxCopies : i = Candidate(entries'[i].archive, k)
        <5>1. CASE i = c
          BY <5>1, <3>1, <3>3
        <5>2. CASE i # c
          BY <5>2, <4>1, <3>3, <3>0 DEF Named
        <5>. QED
          BY <5>1, <5>2
      <4>. QED
        BY <4>1 DEF Named, Candidate
    <3>7. InOrder'
      <4>1. ASSUME NEW b \in Archives, NEW j \in 0..MaxCopies, NEW k \in 0..MaxCopies,
                   j < k, entries'[Candidate(b, k)].state # "none"
            PROVE  entries'[Candidate(b, j)].state # "none"
        <5>1. Candidate(b, j) \in Identities /\ Candidate(b, k) \in Identities
          BY Candidates
        <5>2. entries[Candidate(b, j)].state # "none"
          <6>1. CASE Candidate(b, k) = c
            <7>1. n = k /\ (a = b \/ n = 0)
              BY <6>1, <3>1, Candidates
            <7>2. a = b
              BY <7>1, <4>1, <3>1
            <7>. QED
              BY <7>1, <7>2, <3>4, <4>1 DEF PassedBy
          <6>2. CASE Candidate(b, k) # c
            BY <6>2, <5>1, <4>1, <3>3, <3>0 DEF InOrder
          <6>. QED
            BY <6>1, <6>2
        <5>. QED
          BY <5>1, <5>2, <3>3
      <4>. QED
        BY <4>1 DEF InOrder, Candidate
    <3>8. ASSUME NEW j \in Identities, j # c, entries'[j].state = "active", entries'[j].archive = a
          PROVE  entries'[j].edited
      <4>1. entries[j] = entries'[j]
        BY <3>8, <3>3
      <4>2. PICK k \in 0..MaxCopies : j = Candidate(a, k)
        BY <4>1, <3>8, <3>0, <3>1 DEF Named, ImportAssumption
      <4>3. k # n
        BY <4>2, <3>8
      <4>4. CASE k < n
        BY <4>1, <4>2, <4>4, <3>4, <3>8 DEF PassedBy
      <4>5. CASE n < k
        <5>1. entries[c].state # "none"
          BY <4>1, <4>2, <4>5, <3>8, <3>1, <3>0 DEF InOrder
        <5>. QED
          BY <5>1, <2>3
      <4>. QED
        BY <4>3, <4>4, <4>5, <3>1
    <3>9. ImportConverges'
      <4>1. ASSUME NEW i \in Identities, NEW j \in Identities, i # j,
                   entries'[i].state = "active", entries'[j].state = "active",
                   entries'[i].archive = entries'[j].archive, entries'[i].archive # NoBytes
            PROVE  entries'[i].edited \/ entries'[j].edited
        <5>1. CASE i = c
          BY <5>1, <4>1, <3>3, <3>8
        <5>2. CASE j = c
          BY <5>2, <4>1, <3>3, <3>8
        <5>3. CASE i # c /\ j # c
          BY <5>3, <4>1, <3>3, <3>0, <2>3 DEF ImportConverges
        <5>. QED
          BY <5>1, <5>2, <5>3
      <4>. QED
        BY <4>1 DEF ImportConverges
    <3>. QED
      BY <3>5, <3>6, <3>7, <3>9, <2>1 DEF ConvergeInv, Passed
  <2>4. CASE everTrashed # FALSE
    BY <2>4, <1>5 DEF Restore, ConvergeInv
  <2>. QED
    BY <1>5, <2>2, <2>3, <2>4 DEF Restore
<1>6. CASE AdoptMedia
  <2>1. importing'.at \notin {"identity", "restore"}
    BY <1>6 DEF AdoptMedia, Importing
  <2>. QED
    BY <2>1, <1>6, ConvergeFrame DEF AdoptMedia
<1>7. CASE Store
  <2>1. importing'.at \notin {"identity", "restore"}
    BY <1>7 DEF Store, Importing
  <2>. QED
    BY <2>1, <1>7, ConvergeFrame DEF Store
<1>8. CASE Forget
  <2>1. importing'.at \notin {"identity", "restore"}
    BY <1>8 DEF Forget, Importing
  <2>. QED
    BY <2>1, <1>8, ConvergeFrame DEF Forget
<1>9. CASE InstallBytes
  <2>1. importing'.at \notin {"identity", "restore"}
    BY <1>9 DEF InstallBytes, Importing
  <2>. QED
    BY <2>1, <1>9, ConvergeFrame DEF InstallBytes
<1>10. CASE InstallRecord
  <2>1. importing'.at \notin {"identity", "restore"}
    BY <1>10 DEF InstallRecord, Importing
  <2>. QED
    BY <2>1, <1>10, ConvergeFrame DEF InstallRecord
<1>11. CASE SyncCacheRecord
  <2>1. importing'.at \notin {"identity", "restore"}
    BY <1>11 DEF SyncCacheRecord, Importing
  <2>. QED
    BY <2>1, <1>11, ConvergeFrame DEF SyncCacheRecord
<1>12. CASE StoreFails
  <2>1. importing'.at \notin {"identity", "restore"}
    BY <1>12 DEF StoreFails, Importing
  <2>. QED
    BY <2>1, <1>12, ConvergeFrame DEF StoreFails
<1>13. CASE ChangeLibrary
  <2>0. UNCHANGED importing
    BY <1>13 DEF ChangeLibrary
  <2>1. CASE everTrashed' # FALSE
    BY <2>1 DEF ConvergeInv
  <2>2. CASE everTrashed' = FALSE
    <3>0. everTrashed = FALSE
      BY <1>13, <2>2 DEF ChangeLibrary, OriginAppears, EditProject, TrashProject, DeleteProject
    <3>1. NoneTrashed /\ Named /\ InOrder /\ Passed /\ ImportConverges
      BY <3>0 DEF ConvergeInv
    <3>2. CASE OriginAppears
      <4>. DEFINE o == <<NoBytes, 0>>
      <4>1. o \in Identities
        BY DEF Identities
      <4>2. entries'[o].state = "active" /\ entries'[o].archive = NoBytes /\ \A i \in Identities : i # o => entries'[i] = entries[i]
        <5>. HIDE DEF Free
        <5>. QED
          BY <4>1, <3>2, EntryFields, EntryStep DEF OriginAppears
      <4>3. entries[o].state = "none"
        BY <3>2 DEF OriginAppears
      <4>4. ASSUME NEW b \in Archives, NEW k \in 0..MaxCopies, PassedBy(b, k)
            PROVE  /\ entries'[Candidate(b, k)].state # "none"
                   /\ entries'[Candidate(b, k)].archive = b => entries'[Candidate(b, k)].edited = TRUE
        BY <4>4, <4>2, <4>3, Candidates DEF PassedBy
      <4>5. NoneTrashed'
        BY <4>2, <3>1 DEF NoneTrashed
      <4>6. Named'
        BY <4>2, <3>1 DEF Named, Candidate
      <4>7. InOrder'
        <5>1. ASSUME NEW b \in Archives, NEW j \in 0..MaxCopies, NEW k \in 0..MaxCopies,
                     j < k, entries'[Candidate(b, k)].state # "none"
              PROVE  entries'[Candidate(b, j)].state # "none"
          <6>1. Candidate(b, j) \in Identities /\ Candidate(b, k) \in Identities
            BY Candidates
          <6>2. Candidate(b, k) # o
            BY <5>1 DEF Candidate
          <6>3. entries[Candidate(b, j)].state # "none"
            BY <6>1, <6>2, <5>1, <4>2, <3>1 DEF InOrder
          <6>. QED
            BY <6>1, <6>3, <4>2
        <5>. QED
          BY <5>1 DEF InOrder, Candidate
      <4>8. Passed'
        <5>1. importing.at \in {"identity", "restore"} => importing.archive \in Archives
          OBVIOUS
        <5>. QED
          BY <5>1, <4>4, <3>1, <2>0 DEF Passed, PassedBy, Candidate
      <4>9. ImportConverges'
        BY <4>2, <3>1, <3>0 DEF ImportConverges
      <4>. QED
        BY <4>5, <4>6, <4>7, <4>8, <4>9 DEF ConvergeInv
    <3>3. ASSUME NEW i \in Identities, EditProject(i) PROVE ConvergeInv'
      <4>1. \A j \in Identities : /\ entries'[j].state = entries[j].state /\ entries'[j].archive = entries[j].archive
                                  /\ entries'[j].edited = entries[j].edited \/ entries'[j].edited = TRUE
        <5>1. entries[i] \in Entry
          OBVIOUS
        <5>2. entries'[i] = [entries[i] EXCEPT !.edited = TRUE] /\ \A j \in Identities : j # i => entries'[j] = entries[j]
          <6>. DEFINE e == [entries[i] EXCEPT !.edited = TRUE]
          <6>1. e \in Entry
            BY <5>1, EntryFields
          <6>2. entries' = [entries EXCEPT ![i] = e]
            BY <3>3, EditStep
          <6>. HIDE DEF e
          <6>3. entries'[i] = e /\ \A j \in Identities : j # i => entries'[j] = entries[j]
            BY <6>1, <6>2, EntryStep
          <6>. QED
            BY <6>3 DEF e
        <5>3. /\ entries'[i].state = entries[i].state /\ entries'[i].archive = entries[i].archive
              /\ entries'[i].edited = TRUE
          BY <5>1, <5>2, EntryFields
        <5>. QED
          BY <5>2, <5>3
      <4>2. NoneTrashed'
        BY <4>1, <3>1 DEF NoneTrashed
      <4>3. Named'
        BY <4>1, <3>1 DEF Named, Candidate
      <4>4. \A b \in Archives, k \in 0..MaxCopies : Candidate(b, k) \in Identities
        BY Candidates
      <4>5. InOrder'
        BY <4>1, <4>4, <3>1 DEF InOrder, Candidate
      <4>6. Passed'
        BY <4>1, <4>4, <3>1, <2>0 DEF Passed, PassedBy, Candidate
      <4>7. ImportConverges'
        BY <4>1, <3>1, <3>0 DEF ImportConverges
      <4>. QED
        BY <4>2, <4>3, <4>5, <4>6, <4>7 DEF ConvergeInv
    <3>4. ASSUME NEW i \in Identities, DeleteProject(i) PROVE FALSE
      BY <3>4, <3>1 DEF DeleteProject, NoneTrashed
    <3>5. ASSUME NEW i \in Identities, TrashProject(i) PROVE FALSE
      BY <3>5, <2>2 DEF TrashProject
    <3>. QED
      BY <1>13, <3>2, <3>3, <3>4, <3>5 DEF ChangeLibrary
  <2>. QED
    BY <2>1, <2>2
<1>14. CASE BytesDecay
  BY <1>14, ConvergeFrame DEF BytesDecay
<1>15. CASE CrashImport
  <2>1. importing'.at \notin {"identity", "restore"}
    BY <1>15 DEF CrashImport, Importing
  <2>. QED
    BY <2>1, <1>15, ConvergeFrame DEF CrashImport
<1>. QED
  BY <1>1, <1>2, <1>3, <1>4, <1>5, <1>6, <1>7, <1>8, <1>9, <1>10, <1>11, <1>12, <1>13, <1>14, <1>15 DEF ImportNext

LEMMA ImportStep == ASSUME ImportAssumption, ImportInv, [ImportNext]_importVars PROVE ImportInv'
<1>1. CASE ImportNext
  BY <1>1, ImportTypesStep, CacheInvStep, ConvergeInvStep DEF ImportInv
<1>2. CASE UNCHANGED importVars
  <2>1. ImportTypes'
    BY <1>2 DEF importVars, ImportInv, ImportTypes
  <2>2. CacheInv'
    BY <1>2 DEF importVars, ImportInv, CacheInv, Claim
  <2>3. ConvergeInv /\ UNCHANGED <<entries, everTrashed, importing>>
    BY <1>2 DEF importVars, ImportInv
  <2>4. ConvergeInv'
    BY <2>3 DEF ConvergeInv, NoneTrashed, Named, InOrder, Passed, PassedBy, ImportConverges, Candidate
  <2>. QED
    BY <2>1, <2>2, <2>4 DEF ImportInv
<1>. QED
  BY <1>1, <1>2

\* A fingerprint that a record claims is that of its bytes, what was reported
\* cached is there after a power failure, and repeated imports converge, for
\* any archives, bounds and changes to the Library.
THEOREM ImportPromiseKept == ASSUME ImportAssumption PROVE ImportSpec => []ImportKeepsWord
<1>1. ImportInv => ImportKeepsWord
  <2>1. ImportInv => ClaimsAreTrue
    BY DEF ImportInv, CacheInv, ClaimsAreTrue
  <2>2. \A c \in Claims : Rank(c) >= Rank(c)
    BY DEF Rank
  <2>3. ASSUME ImportInv PROVE StoredStays
    BY <2>3, <2>2 DEF ImportInv, ImportTypes, CacheInv, StoredStays, CacheVerified
  <2>4. ASSUME ImportInv PROVE ImportConverges
    <3>1. CASE everTrashed = TRUE
      BY <3>1 DEF ImportConverges
    <3>2. CASE everTrashed = FALSE
      BY <2>4, <3>2 DEF ImportInv, ConvergeInv
    <3>. QED
      BY <2>4, <3>1, <3>2 DEF ImportInv, ImportTypes
  <2>. QED
    BY <2>1, <2>3, <2>4 DEF ImportKeepsWord, CacheKeepsWord
<1>. QED
  BY ImportInitially, ImportStep, <1>1, PTL DEF ImportSpec
HIDE DEF cacheVars, importBounds, ImportSteps, Claims, Writing, NotImporting, NoRecord, Free, Go
-----------------------------------------------------------------------------
(***************************************************************************)
(* ProjectExports.  A file in place has its Receipt or a durable journal,  *)
(* and what an export reported is true.                                    *)
(***************************************************************************)
Files == {"none", "partial", "whole"}
ExportSteps == {"idle", "dialog", "journal", "journalled", "temp", "written", "staged",
                "renamed", "synced", "recorded", "removed"}
Results == {"none", "saved", "cancelled", "failed", "receipt_pending", "crashed"}
Recoveries == [at : {"none", "next", "read", "temp", "journal"}, name : 0..MaxExports, left : SUBSET Exports]

ExportTypes ==
    /\ journal \in SUBSET Exports /\ journalSafe \in SUBSET Exports /\ receipts \in SUBSET Exports
    /\ temp \in [Exports -> Files] /\ tempSafe \in [Exports -> Files]
    /\ exportTarget \in 0..MaxExports /\ targetSafe \in 0..MaxExports
    /\ exporting \in 0..MaxExports /\ exportAt \in ExportSteps /\ exportAborted \in BOOLEAN
    /\ exportResult \in [Exports -> Results] /\ recovery \in Recoveries

\* Where the export and the recovery are, which never meet.
TurnInv ==
    /\ exporting = 0 <=> exportAt = "idle"
    /\ exporting # 0 => exportResult[exporting] = "none" /\ recovery.at = "none"
    /\ recovery.at \in {"read", "temp", "journal"} => recovery.name \in Exports

\* The journal is there from its sync to the Receipt, and the staged file is
\* durably gone before the journal goes.
Journaled == {"temp", "written", "staged", "renamed", "synced", "recorded"}
JournalInv ==
    /\ exportAt \in Journaled => exporting \in journal \cap journalSafe
    /\ exportAt = "journalled" => exporting \in journal
    /\ exportAt = "removed" => exporting \notin journal
    /\ exportAt \in {"recorded", "removed"} => exporting \in receipts
    /\ exportAt \in {"renamed", "synced", "recorded", "removed"} => temp[exporting] = "none"
    /\ exportAt \in {"synced", "recorded", "removed"} => tempSafe[exporting] = "none"
    /\ recovery.at = "journal" => temp[recovery.name] = "none" /\ tempSafe[recovery.name] = "none"
    /\ recovery.at \in {"temp", "journal"} =>
         recovery.name \in receipts \/ recovery.name \notin {exportTarget, targetSafe}
    /\ \A e \in Exports : temp[e] # "none" \/ tempSafe[e] # "none" => e \in journal \cap journalSafe

\* A file in place is no longer staged, and only an export that replaces the
\* file, or has done so, can be found in it.
TargetInv ==
    /\ exportTarget # 0 => temp[exportTarget] = "none"
    /\ targetSafe # 0 => temp[targetSafe] = "none" /\ tempSafe[targetSafe] = "none"
    /\ \A e \in Exports : e \in {exportTarget, targetSafe} => e \in receipts \/ e \in journal \cap journalSafe
    /\ \A e \in Exports :
         exportResult[e] \in {"none", "cancelled", "failed"} /\ ~(e = exporting /\ Published) =>
           e \notin receipts /\ e # exportTarget /\ e # targetSafe
    /\ \A e \in Exports : exportResult[e] = "saved" => e \in receipts /\ e \notin journal \cup journalSafe

ExportInv == ExportTypes /\ TurnInv /\ JournalInv /\ TargetInv

USE DEF fileState, exportState, recoveryState, exportWorld, exportBounds, At, Journaled, Published

LEMMA ExportNumbers ==
    ASSUME ExportAssumption
    PROVE  /\ 0 \notin Exports /\ 0 \in 0..MaxExports
           /\ \A e \in Exports : e \in 0..MaxExports
           /\ \A n \in 0..MaxExports : n # 0 => n \in Exports
  BY DEF ExportAssumption, Exports

LEMMA ExportInitially == ASSUME ExportAssumption PROVE ExportInit => ExportInv
<1>. SUFFICES ASSUME ExportInit PROVE ExportInv
  OBVIOUS
<1>1. ExportTypes
  BY ExportNumbers DEF ExportInit, ExportTypes, NoRecovery, Files, Results, Recoveries, ExportSteps
<1>2. TurnInv
  BY DEF ExportInit, TurnInv, NoRecovery
<1>3. JournalInv
  BY DEF ExportInit, JournalInv, NoRecovery
<1>4. TargetInv
  BY ExportNumbers DEF ExportInit, TargetInv
<1>. QED
  BY <1>1, <1>2, <1>3, <1>4 DEF ExportInv

\* There is a first export that has not been asked for.
LEMMA FirstExport ==
    ASSUME ExportAssumption, \E e \in Exports : exportResult[e] = "none"
    PROVE  LET f == CHOOSE e \in Exports : exportResult[e] = "none" /\ \A g \in 1..(e - 1) : exportResult[g] # "none"
           IN  f \in Exports /\ exportResult[f] = "none"
<1>. DEFINE T == {e \in Exports : exportResult[e] = "none"}
<1>1. T \subseteq Nat /\ T # {}
  BY DEF ExportAssumption, Exports
<1>2. IsWellFoundedOn(OpToRel(<, Nat), Nat)
  BY NatLessThanWellFounded
<1>3. PICK x \in T : \A y \in T : ~ (<<y, x>> \in OpToRel(<, Nat))
  BY <1>1, <1>2, WFMin
<1>4. \A g \in 1..(x - 1) : exportResult[g] # "none"
  <2>1. x \in 1..MaxExports /\ MaxExports \in Nat
    BY <1>3 DEF Exports, ExportAssumption
  <2>. SUFFICES ASSUME NEW g \in 1..(x - 1), exportResult[g] = "none" PROVE FALSE
    OBVIOUS
  <2>2. g \in T /\ g < x /\ g \in Nat /\ x \in Nat
    BY <2>1 DEF Exports
  <2>3. <<g, x>> \in OpToRel(<, Nat)
    BY <2>2 DEF OpToRel
  <2>. QED
    BY <1>3, <2>2, <2>3
<1>. QED
  BY <1>3, <1>4

\* What becomes of one export, seen from every other.
LEMMA ResultStep ==
    ASSUME ExportTypes, exporting \in Exports, NEW r \in Results, Return(r)
    PROVE  /\ exportResult' \in [Exports -> Results] /\ exportResult'[exporting] = r
           /\ \A e \in Exports : e # exporting => exportResult'[e] = exportResult[e]
           /\ exporting' = 0 /\ exportAt' = "idle" /\ exportAborted' = FALSE
  BY DEF ExportTypes, Return

\* An export that stops leaves its file in place, or has put nothing there and
\* tries to remove what it staged.
LEMMA CleanUpStep ==
    ASSUME ExportTypes, exporting \in Exports, NEW ok \in BOOLEAN, CleanUp(ok)
    PROVE  /\ temp' \in [Exports -> Files] /\ tempSafe' \in [Exports -> Files]
           /\ journal' \subseteq journal /\ journalSafe' \subseteq journalSafe \cup journal
           /\ \A e \in Exports : temp'[e] \in {temp[e], "none"} /\ tempSafe'[e] \in {tempSafe[e], temp[e], "none"}
           /\ \/ UNCHANGED <<journal, journalSafe, temp, tempSafe>>
              \/ /\ temp'[exporting] = "none" /\ tempSafe' = temp'
                 /\ journal' = journal \ {exporting} /\ journalSafe' = journal'
<1>1. CASE ok = TRUE
  <2>1. temp' = [temp EXCEPT ![exporting] = "none"] /\ tempSafe' = temp' /\ journal' = journal \ {exporting} /\ journalSafe' = journal'
    BY <1>1 DEF CleanUp
  <2>2. temp' \in [Exports -> Files] /\ \A e \in Exports : temp'[e] = IF e = exporting THEN "none" ELSE temp[e]
    BY <2>1 DEF ExportTypes, Files
  <2>. QED
    BY <2>1, <2>2 DEF ExportTypes
<1>2. CASE ok = FALSE
  BY <1>2 DEF CleanUp, ExportTypes
<1>. QED
  BY <1>1, <1>2
LEMMA StopsOutcome ==
    ASSUME ExportAssumption, ExportTypes, TurnInv, ExportStops
    PROVE  /\ exporting \in Exports /\ UNCHANGED <<exportTarget, targetSafe, receipts, recovery>>
           /\ \/ /\ Published /\ Return("receipt_pending")
                 /\ UNCHANGED <<journal, journalSafe, temp, tempSafe>>
              \/ /\ ~Published /\ (\E r \in {"cancelled", "failed"} : Return(r))
                 /\ \E ok \in BOOLEAN : CleanUp(ok)
<1>. HIDE DEF Published
<1>1. exporting \in Exports
  BY ExportNumbers DEF ExportStops, ExportTypes
<1>2. CASE Published
  BY <1>1, <1>2 DEF ExportStops
<1>3. CASE ~Published
  BY <1>1, <1>3 DEF ExportStops
<1>. QED
  BY <1>2, <1>3

LEMMA ExportTypesStep == ASSUME ExportAssumption, ExportInv, ExportsNext PROVE ExportTypes'
<1>. USE ExportNumbers DEF ExportInv, ExportTypes, TurnInv
<1>1. CASE Publish
  BY FirstExport, <1>1 DEF Publish, ExportBusy, Files, Results, Recoveries, ExportSteps
<1>2. CASE PickTarget
  BY <1>2 DEF PickTarget, Files, Results, Recoveries, ExportSteps
<1>3. CASE PickNone
  <2>1. exporting \in Exports
    BY <1>3 DEF PickNone
  <2>2. exportResult' \in [Exports -> Results] /\ exporting' = 0 /\ exportAt' = "idle" /\ exportAborted' = FALSE
    BY <2>1, <1>3, ResultStep DEF PickNone, Results
  <2>. QED
    BY <2>2, <1>3 DEF PickNone, ExportSteps
<1>4. CASE WriteJournal
  <2>1. exporting \in Exports
    BY <1>4 DEF WriteJournal
  <2>. QED
    BY <2>1, <1>4 DEF WriteJournal, ExportSteps
<1>5. CASE SyncExportJournal
  BY <1>5 DEF SyncExportJournal, Files, Results, Recoveries, ExportSteps
<1>6. CASE WriteTemp
  BY <1>6 DEF WriteTemp, Files, Results, Recoveries, ExportSteps
<1>7. CASE SyncTemp
  BY <1>7 DEF SyncTemp, Files, Results, Recoveries, ExportSteps
<1>8. CASE Rename
  BY <1>8 DEF Rename, Files, Results, Recoveries, ExportSteps
<1>9. CASE SyncExported
  BY <1>9 DEF SyncExported, Files, Results, Recoveries, ExportSteps
<1>10. CASE RecordReceipt
  <2>1. exporting \in Exports
    BY <1>10 DEF RecordReceipt
  <2>. QED
    BY <2>1, <1>10 DEF RecordReceipt, ExportSteps
<1>11. CASE RemoveJournal
  BY <1>11 DEF RemoveJournal, Files, Results, Recoveries, ExportSteps
<1>12. CASE Saved
  <2>1. exporting \in Exports
    BY <1>12 DEF Saved
  <2>2. exportResult' \in [Exports -> Results] /\ exporting' = 0 /\ exportAt' = "idle" /\ exportAborted' = FALSE
    BY <2>1, <1>12, ResultStep DEF Saved, Results
  <2>. QED
    BY <2>2, <1>12 DEF Saved, ExportSteps
<1>13. CASE ExportStops
  <2>1. exporting \in Exports
    BY <1>13, StopsOutcome
  <2>2. exportResult' \in [Exports -> Results] /\ exporting' = 0 /\ exportAt' = "idle" /\ exportAborted' = FALSE
    BY <2>1, <1>13, StopsOutcome, ResultStep DEF Results
  <2>3. /\ temp' \in [Exports -> Files] /\ tempSafe' \in [Exports -> Files]
        /\ journal' \in SUBSET Exports /\ journalSafe' \in SUBSET Exports
    BY <2>1, <1>13, StopsOutcome, CleanUpStep
  <2>. QED
    BY <2>2, <2>3, <1>13, StopsOutcome DEF ExportSteps
<1>14. CASE CancelExport
  BY <1>14 DEF CancelExport, Files, Results, Recoveries, ExportSteps
<1>15. CASE Recover
  BY <1>15 DEF Recover, ExportBusy, Files, Results, Recoveries, ExportSteps
<1>16. ASSUME NEW e \in Exports, RecoverNext(e) PROVE ExportTypes'
  BY <1>16 DEF RecoverNext, Files, Results, Recoveries, ExportSteps
<1>17. CASE RecoverReceipt
  <2>1. recovery' \in Recoveries
    BY <1>17 DEF RecoverReceipt, Pending, Next1, Recoveries
  <2>2. recovery.name \in Exports
    BY <1>17 DEF RecoverReceipt
  <2>3. receipts' \in SUBSET Exports
    BY <2>2, <1>17 DEF RecoverReceipt
  <2>. QED
    BY <2>1, <2>3, <1>17 DEF RecoverReceipt
<1>18. CASE RecoverTemp
  <2>1. recovery' \in Recoveries
    BY <1>18 DEF RecoverTemp, Pending, Next1, Recoveries
  <2>2. recovery.name \in Exports
    BY <1>18 DEF RecoverTemp
  <2>3. temp' \in [Exports -> Files] /\ tempSafe' \in [Exports -> Files]
    BY <2>2, <1>18 DEF RecoverTemp, Files
  <2>. QED
    BY <2>1, <2>3, <1>18 DEF RecoverTemp
<1>19. CASE RecoverJournal
  BY <1>19 DEF RecoverJournal, Next1, Files, Results, Recoveries, ExportSteps
<1>20. CASE RecoverEnd
  BY <1>20 DEF RecoverEnd, NoRecovery, Files, Results, Recoveries, ExportSteps
<1>21. CASE RecoverFails
  BY <1>21 DEF RecoverFails, Pending, Next1, Files, Results, Recoveries, ExportSteps
<1>22. CASE CrashExport
  <2>1. journal' \in SUBSET Exports /\ journalSafe' \in SUBSET Exports
    BY <1>22 DEF CrashExport
  <2>2. recovery' \in Recoveries
    BY <2>1, <1>22 DEF CrashExport, Recoveries
  <2>3. temp' \in [Exports -> Files] /\ tempSafe' \in [Exports -> Files]
    BY <1>22 DEF CrashExport, Either, Files
  <2>4. exportResult' \in [Exports -> Results]
    BY <1>22 DEF CrashExport, Results
  <2>. QED
    BY <2>1, <2>2, <2>3, <2>4, <1>22 DEF CrashExport, ExportSteps
<1>23. CASE Touch
  BY <1>23 DEF Touch, Files, Results, Recoveries, ExportSteps
<1>. QED
  BY <1>1, <1>2, <1>3, <1>4, <1>5, <1>6, <1>7, <1>8, <1>9, <1>10, <1>11, <1>12, <1>13, <1>14, <1>15, <1>16, <1>17, <1>18, <1>19, <1>20, <1>21, <1>22, <1>23 DEF ExportsNext

LEMMA TurnInvStep == ASSUME ExportAssumption, ExportInv, ExportsNext PROVE TurnInv'
<1>. USE ExportNumbers DEF ExportInv, ExportTypes, TurnInv
<1>1. CASE Publish
  BY FirstExport, <1>1 DEF Publish, ExportBusy, Recoveries, Results
<1>2. CASE PickTarget
  BY <1>2 DEF PickTarget, Recoveries, Results
<1>3. CASE PickNone
  BY ResultStep, <1>3 DEF PickNone, Recoveries, Results
<1>4. CASE WriteJournal
  BY <1>4 DEF WriteJournal, Recoveries, Results
<1>5. CASE SyncExportJournal
  BY <1>5 DEF SyncExportJournal, Recoveries, Results
<1>6. CASE WriteTemp
  BY <1>6 DEF WriteTemp, Recoveries, Results
<1>7. CASE SyncTemp
  BY <1>7 DEF SyncTemp, Recoveries, Results
<1>8. CASE Rename
  BY <1>8 DEF Rename, Recoveries, Results
<1>9. CASE SyncExported
  BY <1>9 DEF SyncExported, Recoveries, Results
<1>10. CASE RecordReceipt
  BY <1>10 DEF RecordReceipt, Recoveries, Results
<1>11. CASE RemoveJournal
  BY <1>11 DEF RemoveJournal, Recoveries, Results
<1>12. CASE Saved
  BY ResultStep, <1>12 DEF Saved, Recoveries, Results
<1>13. CASE ExportStops
  BY StopsOutcome, ResultStep, CleanUpStep, <1>13 DEF Recoveries, Results
<1>14. CASE CancelExport
  BY <1>14 DEF CancelExport, Recoveries, Results
<1>15. CASE Recover
  BY <1>15 DEF Recover, ExportBusy, Recoveries, Results
<1>16. ASSUME NEW e \in Exports, RecoverNext(e) PROVE TurnInv'
  BY <1>16 DEF RecoverNext, Recoveries, Results
<1>17. CASE RecoverReceipt
  BY <1>17 DEF RecoverReceipt, Pending, Next1, Recoveries, Results
<1>18. CASE RecoverTemp
  BY <1>18 DEF RecoverTemp, Pending, Next1, Recoveries, Results
<1>19. CASE RecoverJournal
  BY <1>19 DEF RecoverJournal, Next1, Recoveries, Results
<1>20. CASE RecoverEnd
  BY <1>20 DEF RecoverEnd, NoRecovery, Recoveries, Results
<1>21. CASE RecoverFails
  BY <1>21 DEF RecoverFails, Pending, Next1, Recoveries, Results
<1>22. CASE CrashExport
  BY <1>22 DEF CrashExport, Either, Recoveries, Results
<1>23. CASE Touch
  BY <1>23 DEF Touch, Recoveries, Results
<1>. QED
  BY <1>1, <1>2, <1>3, <1>4, <1>5, <1>6, <1>7, <1>8, <1>9, <1>10, <1>11, <1>12, <1>13, <1>14, <1>15, <1>16, <1>17, <1>18, <1>19, <1>20, <1>21, <1>22, <1>23 DEF ExportsNext

LEMMA JournalInvStep == ASSUME ExportAssumption, ExportInv, ExportsNext PROVE JournalInv'
<1>. USE ExportNumbers DEF ExportInv, ExportTypes, TurnInv
<1>1. CASE Publish
  BY FirstExport, <1>1 DEF Publish, ExportBusy, Recoveries, Results, JournalInv
<1>2. CASE PickTarget
  BY <1>2 DEF PickTarget, Recoveries, Results, JournalInv
<1>3. CASE PickNone
  BY ResultStep, <1>3 DEF PickNone, Recoveries, Results, JournalInv
<1>4. CASE WriteJournal
  BY <1>4 DEF WriteJournal, Recoveries, Results, JournalInv
<1>5. CASE SyncExportJournal
  BY <1>5 DEF SyncExportJournal, Recoveries, Results, JournalInv
<1>6. CASE WriteTemp
  BY <1>6 DEF WriteTemp, Recoveries, Results, JournalInv
<1>7. CASE SyncTemp
  BY <1>7 DEF SyncTemp, Recoveries, Results, JournalInv
<1>8. CASE Rename
  BY <1>8 DEF Rename, Recoveries, Results, JournalInv
<1>9. CASE SyncExported
  <2>1. exporting \in Exports
    BY <1>9 DEF SyncExported
  <2>. QED
    BY <2>1, <1>9 DEF SyncExported, JournalInv, TargetInv, Recoveries
<1>10. CASE RecordReceipt
  BY <1>10 DEF RecordReceipt, Recoveries, Results, JournalInv
<1>11. CASE RemoveJournal
  BY <1>11 DEF RemoveJournal, Recoveries, Results, JournalInv
<1>12. CASE Saved
  BY ResultStep, <1>12 DEF Saved, Recoveries, Results, JournalInv
<1>13. CASE ExportStops
  <2>1. exporting \in Exports /\ exportAt' = "idle" /\ recovery.at = "none" /\ recovery' = recovery
    BY <1>13, StopsOutcome, ResultStep DEF Results
  <2>2. ASSUME NEW e \in Exports, temp'[e] # "none" \/ tempSafe'[e] # "none" PROVE e \in journal' \cap journalSafe'
    BY <2>1, <2>2, <1>13, StopsOutcome, CleanUpStep DEF JournalInv
  <2>. QED
    BY <2>1, <2>2 DEF JournalInv
<1>14. CASE CancelExport
  BY <1>14 DEF CancelExport, Recoveries, Results, JournalInv
<1>15. CASE Recover
  BY <1>15 DEF Recover, ExportBusy, Recoveries, Results, JournalInv
<1>16. ASSUME NEW e \in Exports, RecoverNext(e) PROVE JournalInv'
  BY <1>16 DEF RecoverNext, Recoveries, Results, JournalInv
<1>17. CASE RecoverReceipt
  <2>. DEFINE e == recovery.name
  <2>1. e \in Exports /\ exportAt = "idle"
    BY <1>17 DEF RecoverReceipt
  <2>2. CASE Pending /\ UNCHANGED receipts
    <3>1. recovery'.at = "next"
      BY <2>2 DEF Pending, Next1, Recoveries
    <3>. QED
      BY <2>1, <2>2, <3>1, <1>17 DEF RecoverReceipt, JournalInv
  <2>3. CASE ~(Pending /\ UNCHANGED receipts)
    <3>1. recovery' = [recovery EXCEPT !.at = "temp"] /\ (receipts' = receipts \cup {e} \/ (UNCHANGED receipts /\ exportTarget # e /\ (e \in receipts \/ temp[e] # "none")))
      BY <2>3, <1>17 DEF RecoverReceipt
    <3>2. recovery'.at = "temp" /\ recovery'.name = e
      BY <3>1 DEF Recoveries
    <3>3. e \in receipts' \/ e \notin {exportTarget, targetSafe}
      BY <3>1, <2>1 DEF TargetInv
    <3>. QED
      BY <2>1, <3>1, <3>2, <3>3, <1>17 DEF RecoverReceipt, JournalInv
  <2>. QED
    BY <2>2, <2>3
<1>18. CASE RecoverTemp
  <2>. DEFINE e == recovery.name
  <2>1. e \in Exports /\ exportAt = "idle"
    BY <1>18 DEF RecoverTemp
  <2>2. CASE Pending /\ UNCHANGED <<temp, tempSafe>>
    <3>1. recovery'.at = "next"
      BY <2>2 DEF Pending, Next1, Recoveries
    <3>. QED
      BY <2>1, <2>2, <3>1, <1>18 DEF RecoverTemp, JournalInv
  <2>3. CASE ~(Pending /\ UNCHANGED <<temp, tempSafe>>)
    <3>1. /\ recovery' = [recovery EXCEPT !.at = "journal"]
          /\ temp' = [temp EXCEPT ![e] = "none"] /\ tempSafe' = [tempSafe EXCEPT ![e] = "none"]
      BY <2>3, <1>18 DEF RecoverTemp
    <3>2. recovery'.at = "journal" /\ recovery'.name = e
      BY <3>1 DEF Recoveries
    <3>3. /\ temp'[e] = "none" /\ tempSafe'[e] = "none"
          /\ \A f \in Exports : f # e => temp'[f] = temp[f] /\ tempSafe'[f] = tempSafe[f]
      BY <3>1, <2>1
    <3>. QED
      BY <2>1, <3>2, <3>3, <1>18 DEF RecoverTemp, JournalInv
  <2>. QED
    BY <2>2, <2>3
<1>19. CASE RecoverJournal
  BY <1>19 DEF RecoverJournal, Next1, Recoveries, Results, JournalInv
<1>20. CASE RecoverEnd
  BY <1>20 DEF RecoverEnd, NoRecovery, Recoveries, Results, JournalInv
<1>21. CASE RecoverFails
  BY <1>21 DEF RecoverFails, Pending, Next1, Recoveries, Results, JournalInv
<1>22. CASE CrashExport
  BY <1>22 DEF CrashExport, Either, Recoveries, Results, JournalInv
<1>23. CASE Touch
  BY <1>23 DEF Touch, Recoveries, Results, JournalInv
<1>. QED
  BY <1>1, <1>2, <1>3, <1>4, <1>5, <1>6, <1>7, <1>8, <1>9, <1>10, <1>11, <1>12, <1>13, <1>14, <1>15, <1>16, <1>17, <1>18, <1>19, <1>20, <1>21, <1>22, <1>23 DEF ExportsNext

LEMMA TargetInvStep == ASSUME ExportAssumption, ExportInv, ExportsNext PROVE TargetInv'
<1>. USE ExportNumbers DEF ExportInv, ExportTypes, TurnInv
<1>1. CASE Publish
  BY FirstExport, <1>1 DEF Publish, ExportBusy, Recoveries, Results, TargetInv, JournalInv
<1>2. CASE PickTarget
  BY <1>2 DEF PickTarget, Recoveries, Results, TargetInv, JournalInv
<1>3. CASE PickNone
  BY ResultStep, <1>3 DEF PickNone, Recoveries, Results, TargetInv, JournalInv
<1>4. CASE WriteJournal
  BY <1>4 DEF WriteJournal, Recoveries, Results, TargetInv, JournalInv
<1>5. CASE SyncExportJournal
  BY <1>5 DEF SyncExportJournal, Recoveries, Results, TargetInv, JournalInv
<1>6. CASE WriteTemp
  BY <1>6 DEF WriteTemp, Recoveries, Results, TargetInv, JournalInv
<1>7. CASE SyncTemp
  BY <1>7 DEF SyncTemp, Recoveries, Results, TargetInv, JournalInv
<1>8. CASE Rename
  BY <1>8 DEF Rename, Recoveries, Results, TargetInv, JournalInv
<1>9. CASE SyncExported
  BY <1>9 DEF SyncExported, Recoveries, Results, TargetInv, JournalInv
<1>10. CASE RecordReceipt
  BY <1>10 DEF RecordReceipt, Recoveries, Results, TargetInv, JournalInv
<1>11. CASE RemoveJournal
  BY <1>11 DEF RemoveJournal, Recoveries, Results, TargetInv, JournalInv
<1>12. CASE Saved
  BY ResultStep, <1>12 DEF Saved, Recoveries, Results, TargetInv, JournalInv
<1>13. CASE ExportStops
  <2>1. /\ exporting \in Exports /\ exporting' = 0 /\ UNCHANGED <<exportTarget, targetSafe, receipts>>
        /\ \A e \in Exports : e # exporting => exportResult'[e] = exportResult[e]
    BY <1>13, StopsOutcome, ResultStep DEF Results
  <2>2. /\ exportTarget # 0 => temp'[exportTarget] = "none"
        /\ targetSafe # 0 => temp'[targetSafe] = "none" /\ tempSafe'[targetSafe] = "none"
    BY <1>13, StopsOutcome, CleanUpStep DEF TargetInv
  <2>3. journal' \cup journalSafe' \subseteq journal \cup journalSafe
    BY <2>1, <1>13, StopsOutcome, CleanUpStep
  <2>4. CASE ~Published
    <3>1. exporting \notin receipts /\ exporting # exportTarget /\ exporting # targetSafe
      BY <2>1, <2>4 DEF TargetInv
    <3>2. exportResult'[exporting] # "saved"
      BY <2>1, <2>4, <1>13, StopsOutcome, ResultStep DEF Results
    <3>3. \A e \in Exports : e # exporting /\ e \in journal \cap journalSafe => e \in journal' \cap journalSafe'
      BY <2>1, <2>4, <1>13, StopsOutcome, CleanUpStep
    <3>. QED
      BY <2>1, <2>2, <2>3, <3>1, <3>2, <3>3 DEF TargetInv
  <2>5. CASE Published
    <3>1. exportResult'[exporting] = "receipt_pending" /\ UNCHANGED <<journal, journalSafe>>
      BY <2>1, <2>5, <1>13, StopsOutcome, ResultStep DEF Results
    <3>. QED
      BY <2>1, <2>2, <3>1 DEF TargetInv
  <2>. QED
    BY <2>4, <2>5
<1>14. CASE CancelExport
  BY <1>14 DEF CancelExport, Recoveries, Results, TargetInv, JournalInv
<1>15. CASE Recover
  BY <1>15 DEF Recover, ExportBusy, Recoveries, Results, TargetInv, JournalInv
<1>16. ASSUME NEW e \in Exports, RecoverNext(e) PROVE TargetInv'
  BY <1>16 DEF RecoverNext, Recoveries, Results, TargetInv, JournalInv
<1>17. CASE RecoverReceipt
  BY <1>17 DEF RecoverReceipt, Pending, Next1, Recoveries, Results, TargetInv, JournalInv
<1>18. CASE RecoverTemp
  BY <1>18 DEF RecoverTemp, Pending, Next1, Recoveries, Results, TargetInv, JournalInv
<1>19. CASE RecoverJournal
  BY <1>19 DEF RecoverJournal, Next1, Recoveries, Results, TargetInv, JournalInv
<1>20. CASE RecoverEnd
  BY <1>20 DEF RecoverEnd, NoRecovery, Recoveries, Results, TargetInv, JournalInv
<1>21. CASE RecoverFails
  BY <1>21 DEF RecoverFails, Pending, Next1, Recoveries, Results, TargetInv, JournalInv
<1>22. CASE CrashExport
  BY <1>22 DEF CrashExport, Either, Recoveries, Results, TargetInv, JournalInv
<1>23. CASE Touch
  BY <1>23 DEF Touch, Recoveries, Results, TargetInv, JournalInv
<1>. QED
  BY <1>1, <1>2, <1>3, <1>4, <1>5, <1>6, <1>7, <1>8, <1>9, <1>10, <1>11, <1>12, <1>13, <1>14, <1>15, <1>16, <1>17, <1>18, <1>19, <1>20, <1>21, <1>22, <1>23 DEF ExportsNext

LEMMA ExportStep == ASSUME ExportAssumption, ExportInv, [ExportsNext]_exportVars PROVE ExportInv'
<1>1. CASE ExportsNext
  BY <1>1, ExportTypesStep, TurnInvStep, JournalInvStep, TargetInvStep DEF ExportInv
<1>2. CASE UNCHANGED exportVars
  BY <1>2 DEF exportVars, ExportInv, ExportTypes, TurnInv, JournalInv, TargetInv
<1>. QED
  BY <1>1, <1>2

\* A file in place has its Receipt or a durable journal, what an export has
\* reported is true, and a staged file is never without its journal, for any
\* number of exports, faults, crashes and interventions of the user.
THEOREM ExportsPromiseKept == ASSUME ExportAssumption PROVE ExportsSpec => []ExportsAreAccounted
<1>1. ASSUME ExportInv PROVE ExportsAreAccounted
  <2>1. OutputIsAccounted /\ StagedIsJournaled
    BY <1>1 DEF ExportInv, JournalInv, TargetInv, OutputIsAccounted, StagedIsJournaled
  <2>2. ResultIsTrue
    BY <1>1 DEF ExportInv, TurnInv, TargetInv, ResultIsTrue
  <2>. QED
    BY <2>1, <2>2 DEF ExportsAreAccounted
<1>. QED
  BY ExportInitially, ExportStep, <1>1, PTL DEF ExportsSpec
HIDE DEF fileState, exportState, recoveryState, exportWorld, exportBounds, At, Journaled, Published
-----------------------------------------------------------------------------
(***************************************************************************)
(* SourceCatalog.  A recorded Locator is in the best readable copy of the  *)
(* catalog, two readable copies never contradict one another, and recorded *)
(* observations stay.                                                      *)
(***************************************************************************)
CatalogCopy == [is : {"missing", "good", "bad"}, rev : Nat, time : 0..MaxTime]
RefreshSteps == {"idle", "read", "quarantine", "syncQuarantine", "backup", "syncBackup", "primary", "syncPrimary"}
Refreshes == [at : RefreshSteps, extra : 0..MaxTime, next : CatalogCopy]
NoteFiles == (SUBSET Notes) \cup {Unreadable}

CatalogTypes ==
    /\ carriers \in [Carriers -> [state : {"none", "readable", "damaged"}, time : 0..MaxTime]]
    /\ copies \in [Copies -> CatalogCopy] /\ copiesSafe \in [Copies -> CatalogCopy] /\ refresh \in Refreshes
    /\ shownTime \in -1..MaxTime /\ ackedTime \in 0..MaxTime
    /\ notesFile \in NoteFiles /\ notesSafe \in NoteFiles
    /\ notesShown \in SUBSET Notes /\ notesAcked \in SUBSET Notes /\ notesWrite \in {"idle", "sync"}

\* Only what was not acknowledged is lost with the file; a file that is being
\* replaced, or that a refresh has read, is readable and shown.
NotesInv ==
    /\ notesFile = Unreadable <=> notesSafe = Unreadable
    /\ notesFile = Unreadable => notesAcked = {} /\ notesWrite = "idle"
    /\ notesFile # Unreadable => notesAcked \subseteq notesFile \cap notesSafe
    /\ refresh.at # "idle" => notesWrite = "idle"
    /\ refresh.at \notin {"idle", "read"} => notesFile # Unreadable /\ notesShown = notesFile
    /\ CatalogFree /\ shownTime # -1 /\ notesFile # Unreadable => notesShown = notesFile

Good(x) == x.is = "good"
Under(x, y) == Good(x) => x.rev < y.rev \/ x = y

\* One revision has one content, wherever it lies, and the readable copies are
\* not older than what a crash may bring back; the newest one, when it is the
\* primary copy p, is durable somewhere.
CopiesFit(p, b, pSafe, bSafe) ==
    /\ \A x, y \in {p, b, pSafe, bSafe} : Good(x) /\ Good(y) /\ x.rev = y.rev => x = y
    /\ \A x \in {pSafe, bSafe} : Good(x) => \E y \in {p, b} : Good(y) /\ x.rev <= y.rev
    /\ Good(p) /\ (Good(b) => b.rev <= p.rev) => pSafe = p \/ bSafe = p
CopiesInv == CopiesFit(copies["primary"], copies["backup"], copiesSafe["primary"], copiesSafe["backup"])

\* What is being written is newer than what is there, and the backup is durable
\* before the primary copy is touched.
Refreshing == refresh.at \notin {"idle", "read"}
WritingInv ==
    /\ refresh.at # "idle" /\ refresh.extra # 0 => Referenced
    /\ Refreshing => /\ Good(refresh.next) /\ refresh.next.time >= ackedTime /\ refresh.next.time >= refresh.extra
                     /\ Under(copies["primary"], refresh.next) /\ Under(copies["backup"], refresh.next)
    /\ refresh.at \in {"syncBackup", "primary", "syncPrimary"} => copies["backup"] = refresh.next
    /\ refresh.at \in {"primary", "syncPrimary"} => copiesSafe["backup"] = refresh.next
    /\ refresh.at = "syncPrimary" => copies["primary"] = refresh.next

\* One of the two places holds the time t, now and after a crash, and nothing
\* that is older outranks it.
HeldAt(x, xSafe, all, t) ==
    /\ Good(x) /\ Good(xSafe)
    /\ \A y \in all : Good(y) /\ (y.rev >= x.rev \/ y.rev >= xSafe.rev) => y.time >= t
Held(p, b, pSafe, bSafe, t) ==
    t # 0 => HeldAt(p, pSafe, {p, b, pSafe, bSafe}, t) \/ HeldAt(b, bSafe, {p, b, pSafe, bSafe}, t)
AckedInv ==
    /\ Held(copies["primary"], copies["backup"], copiesSafe["primary"], copiesSafe["backup"], ackedTime)
    /\ ackedTime # 0 /\ shownTime # -1 => shownTime >= ackedTime

CatalogInv == CatalogTypes /\ NotesInv /\ CopiesInv /\ WritingInv /\ AckedInv

USE DEF noteVars, catalogBounds, locatorVars, CountOp

\* The copy a refresh selects: the newest one that can be read, the primary
\* copy when both are as new.
LEMMA SelectedCopy ==
    ASSUME CatalogAssumption, CatalogTypes
    PROVE  /\ Selected \in CatalogCopy
           /\ ~Good(copies["primary"]) /\ ~Good(copies["backup"]) => Selected = Missing
           /\ Good(copies["primary"]) /\ (Good(copies["backup"]) => copies["backup"].rev <= copies["primary"].rev) =>
                Selected = copies["primary"]
           /\ Good(copies["backup"]) /\ ~(Good(copies["primary"]) /\ copies["backup"].rev <= copies["primary"].rev) =>
                Selected = copies["backup"]
<1>. DEFINE p == copies["primary"]
            b == copies["backup"]
            best == {c \in GoodCopies : \A d \in GoodCopies : copies[c].rev >= copies[d].rev}
<1>1. p \in CatalogCopy /\ b \in CatalogCopy /\ Missing \in CatalogCopy
  BY DEF CatalogTypes, Copies, Missing, CatalogCopy, CatalogAssumption
<1>2. "primary" \in GoodCopies <=> Good(p)
  BY DEF GoodCopies, Good, Copies
<1>3. "backup" \in GoodCopies <=> Good(b)
  BY DEF GoodCopies, Good, Copies
<1>4. \A c \in GoodCopies : c \in {"primary", "backup"}
  BY DEF GoodCopies, Copies
<1>5. p.rev \in Nat /\ b.rev \in Nat
  BY <1>1 DEF CatalogCopy
<1>6. "primary" \in best <=> Good(p) /\ (Good(b) => p.rev >= b.rev)
  BY <1>2, <1>3, <1>4, <1>5
<1>7. GoodCopies = {} <=> ~Good(p) /\ ~Good(b)
  BY <1>2, <1>3, <1>4
<1>8. Selected = IF GoodCopies = {} THEN Missing ELSE IF "primary" \in best THEN p ELSE b
  BY DEF Selected
<1>. HIDE DEF best
<1>. QED
  BY <1>1, <1>5, <1>6, <1>7, <1>8

\* The newest of finitely many times.
LEMMA NewestTime ==
    ASSUME NEW m \in Nat, NEW S \in SUBSET (0..m), S # {}
    PROVE  LET t == CHOOSE t \in S : \A u \in S : t >= u IN t \in S /\ \A u \in S : t >= u
<1>. DEFINE T == {m - u : u \in S}
<1>1. T \subseteq Nat /\ T # {}
  <2>1. ASSUME NEW u \in S PROVE m - u \in Nat
    <3>1. u \in 0..m
      OBVIOUS
    <3>. QED
      BY <3>1
  <2>2. PICK u \in S : TRUE
    OBVIOUS
  <2>3. m - u \in T
    OBVIOUS
  <2>. QED
    BY <2>1, <2>3
<1>2. PICK x \in T : \A y \in T : ~(<<y, x>> \in OpToRel(<, Nat))
  BY <1>1, NatLessThanWellFounded, WFMin
<1>3. PICK t \in S : x = m - t
  BY <1>2
<1>4. ASSUME NEW u \in S, ~(t >= u) PROVE FALSE
  <2>1. m - u \in T /\ m - u \in Nat /\ m - t \in Nat /\ m - u < m - t
    BY <1>3, <1>4
  <2>2. <<m - u, m - t>> \in OpToRel(<, Nat)
    BY <2>1 DEF OpToRel
  <2>. QED
    BY <1>2, <1>3, <2>1, <2>2
<1>5. \A u \in S : t >= u
  BY <1>4
<1>. QED
  BY <1>5

\* What a refresh makes of the Locator.
LEMMA MergedTime ==
    ASSUME CatalogAssumption, CatalogTypes, NEW s \in 0..MaxTime, NEW x \in 0..MaxTime
    PROVE  /\ Merged(s, x) \in 0..MaxTime
           /\ Referenced => Merged(s, x) >= s /\ Merged(s, x) >= x
           /\ ~Referenced => Merged(s, x) = IF OpaqueDamage THEN s ELSE 0
<1>. DEFINE S == Embedded \cup {s, x}
<1>1. CASE Referenced
  <2>1. S \in SUBSET (0..MaxTime) /\ S # {}
    BY DEF CatalogTypes, Embedded
  <2>2. Merged(s, x) = CHOOSE t \in S : \A u \in S : t >= u
    BY <1>1 DEF Merged
  <2>3. MaxTime \in Nat
    BY DEF CatalogAssumption
  <2>. HIDE DEF S
  <2>4. Merged(s, x) \in S /\ \A u \in S : Merged(s, x) >= u
    BY <2>1, <2>2, <2>3, NewestTime
  <2>. QED
    BY <1>1, <2>1, <2>4 DEF S
<1>2. CASE ~Referenced
  BY <1>2 DEF Merged, CatalogAssumption
<1>. QED
  BY <1>1, <1>2

\* The copies that can be on disk.
LEMMA CopyKinds ==
    ASSUME CatalogAssumption
    PROVE  /\ Missing \in CatalogCopy /\ Bad \in CatalogCopy /\ ~Good(Missing) /\ ~Good(Bad)
           /\ 0 \in 0..MaxTime /\ MaxTime \in Nat /\ (1..MaxTime) \subseteq 0..MaxTime
           /\ -1 \in -1..MaxTime /\ (0..MaxTime) \subseteq -1..MaxTime
  BY DEF CatalogAssumption, Missing, Bad, CatalogCopy, Good

LEMMA RefreshKinds ==
    ASSUME CatalogAssumption
    PROVE  /\ NotRefreshing \in Refreshes /\ NotRefreshing.at = "idle" /\ NotRefreshing.extra = 0
           /\ \A x \in 0..MaxTime : [NotRefreshing EXCEPT !.at = "read", !.extra = x] \in Refreshes
           /\ [NotRefreshing EXCEPT !.at = "read"] \in Refreshes
<1>1. NotRefreshing \in Refreshes /\ NotRefreshing.at = "idle" /\ NotRefreshing.extra = 0
  <2>. DEFINE m == Missing
  <2>1. m \in CatalogCopy /\ 0 \in 0..MaxTime
    BY CopyKinds
  <2>2. NotRefreshing = [at |-> "idle", extra |-> 0, next |-> m]
    BY DEF NotRefreshing
  <2>. HIDE DEF m
  <2>. QED
    BY <2>1, <2>2 DEF Refreshes, RefreshSteps
<1>2. [NotRefreshing EXCEPT !.at = "read"] \in Refreshes
  BY <1>1 DEF Refreshes, RefreshSteps
<1>3. ASSUME NEW x \in 0..MaxTime PROVE [NotRefreshing EXCEPT !.at = "read", !.extra = x] \in Refreshes
  <2>. DEFINE r == [NotRefreshing EXCEPT !.at = "read"]
  <2>1. [NotRefreshing EXCEPT !.at = "read", !.extra = x] = [r EXCEPT !.extra = x]
    OBVIOUS
  <2>2. r \in Refreshes
    BY <1>2
  <2>. HIDE DEF r
  <2>3. [r EXCEPT !.extra = x] \in Refreshes
    BY <2>2 DEF Refreshes
  <2>. QED
    BY <2>1, <2>3
<1>. QED
  BY <1>1, <1>2, <1>3

LEMMA CatalogInitially == ASSUME CatalogAssumption PROVE CatalogInit => CatalogInv
<1>. SUFFICES ASSUME CatalogInit PROVE CatalogInv
  OBVIOUS
<1>. USE DEF CatalogInit, CatalogAssumption
<1>1. Missing \in CatalogCopy /\ ~Good(Missing)
  BY DEF Missing, CatalogCopy, Good
<1>2. copies \in [Copies -> CatalogCopy] /\ copiesSafe \in [Copies -> CatalogCopy] /\ \A c \in Copies : copies[c] = Missing /\ copiesSafe[c] = Missing
  BY <1>1
<1>3. refresh = [at |-> "read", extra |-> 0, next |-> Missing]
  BY DEF NotRefreshing
<1>4. CatalogTypes
  <2>1. refresh \in Refreshes
    BY RefreshKinds
  <2>. QED
    BY <1>2, <2>1, CopyKinds DEF CatalogTypes, NoteFiles
<1>5. NotesInv
  BY <1>3 DEF NotesInv, Unreadable, CatalogFree
<1>6. CopiesInv
  BY <1>1, <1>2 DEF CopiesInv, CopiesFit, Copies
<1>7. WritingInv
  BY <1>3 DEF WritingInv, Refreshing
<1>8. AckedInv
  BY DEF AckedInv, Held
<1>. QED
  BY <1>4, <1>5, <1>6, <1>7, <1>8 DEF CatalogInv

LEMMA ReadOn ==
    ASSUME refresh \in Refreshes, NEW n \in CatalogCopy,
           refresh' = [refresh EXCEPT !.at = IF BadCopies # {} THEN "quarantine" ELSE "backup", !.next = n]
    PROVE  /\ refresh' \in Refreshes /\ refresh'.at \in {"quarantine", "backup"}
           /\ refresh'.next = n /\ refresh'.extra = refresh.extra
<1>. DEFINE s == IF BadCopies # {} THEN "quarantine" ELSE "backup"
<1>1. s \in {"quarantine", "backup"} /\ refresh' = [refresh EXCEPT !.at = s, !.next = n]
  OBVIOUS
<1>. HIDE DEF s
<1>2. refresh' = [[refresh EXCEPT !.at = s] EXCEPT !.next = n]
  BY <1>1
<1>. QED
  BY <1>1, <1>2 DEF Refreshes, RefreshSteps

\* A newer copy written over the backup, and over the primary copy when the
\* backup is durable; a sync; a crash; an unreadable copy that goes away; one of
\* two equal copies that rots.
LEMMA FitBackup ==
    ASSUME NEW p \in CatalogCopy, NEW b \in CatalogCopy, NEW ps \in CatalogCopy, NEW bs \in CatalogCopy, NEW n \in CatalogCopy,
           CopiesFit(p, b, ps, bs), Good(n), Under(p, n), Under(b, n)
    PROVE  CopiesFit(p, n, ps, bs)
  BY DEF CopiesFit, Under, Good, CatalogCopy
LEMMA FitPrimary ==
    ASSUME NEW p \in CatalogCopy, NEW ps \in CatalogCopy, NEW n \in CatalogCopy,
           CopiesFit(p, n, ps, n), Good(n), Under(p, n)
    PROVE  CopiesFit(n, n, ps, n)
  BY DEF CopiesFit, Under, Good, CatalogCopy
LEMMA FitCrash ==
    ASSUME NEW p \in CatalogCopy, NEW b \in CatalogCopy, NEW ps \in CatalogCopy, NEW bs \in CatalogCopy,
           CopiesFit(p, b, ps, bs), NEW x \in {p, ps}, NEW y \in {b, bs}
    PROVE  CopiesFit(x, y, x, y)
  BY DEF CopiesFit, Good, CatalogCopy
LEMMA FitQuarantine ==
    ASSUME NEW p \in CatalogCopy, NEW b \in CatalogCopy, NEW ps \in CatalogCopy, NEW bs \in CatalogCopy,
           CopiesFit(p, b, ps, bs), NEW x \in CatalogCopy, NEW y \in CatalogCopy,
           x = p \/ (~Good(p) /\ ~Good(x)), y = b \/ (~Good(b) /\ ~Good(y))
    PROVE  CopiesFit(x, y, ps, bs)
  BY DEF CopiesFit, Good, CatalogCopy
LEMMA FitRot ==
    ASSUME NEW p \in CatalogCopy, NEW x \in CatalogCopy, ~Good(x)
    PROVE  CopiesFit(x, p, x, p) /\ CopiesFit(p, x, p, x)
  BY DEF CopiesFit, Good, CatalogCopy

LEMMA HeldBackup ==
    ASSUME NEW p \in CatalogCopy, NEW b \in CatalogCopy, NEW ps \in CatalogCopy, NEW bs \in CatalogCopy, NEW n \in CatalogCopy, NEW t \in Nat,
           Held(p, b, ps, bs, t), Good(n), Under(b, n), n.time >= t
    PROVE  Held(p, n, ps, bs, t)
  BY DEF Held, HeldAt, Under, Good, CatalogCopy
LEMMA HeldPrimary ==
    ASSUME NEW p \in CatalogCopy, NEW b \in CatalogCopy, NEW ps \in CatalogCopy, NEW bs \in CatalogCopy, NEW n \in CatalogCopy, NEW t \in Nat,
           Held(p, b, ps, bs, t), Good(n), Under(p, n), n.time >= t
    PROVE  Held(n, b, ps, bs, t)
  BY DEF Held, HeldAt, Under, Good, CatalogCopy
LEMMA HeldCrash ==
    ASSUME NEW p \in CatalogCopy, NEW b \in CatalogCopy, NEW ps \in CatalogCopy, NEW bs \in CatalogCopy, NEW t \in Nat,
           Held(p, b, ps, bs, t), NEW x \in {p, ps}, NEW y \in {b, bs}
    PROVE  Held(x, y, x, y, t)
  BY DEF Held, HeldAt, Good, CatalogCopy
LEMMA HeldQuarantine ==
    ASSUME NEW p \in CatalogCopy, NEW b \in CatalogCopy, NEW ps \in CatalogCopy, NEW bs \in CatalogCopy, NEW t \in Nat,
           Held(p, b, ps, bs, t), NEW x \in CatalogCopy, NEW y \in CatalogCopy,
           x = p \/ (~Good(p) /\ ~Good(x)), y = b \/ (~Good(b) /\ ~Good(y))
    PROVE  Held(x, y, ps, bs, t)
  BY DEF Held, HeldAt, Good, CatalogCopy
LEMMA HeldRot ==
    ASSUME NEW p \in CatalogCopy, NEW x \in CatalogCopy, NEW t \in Nat, Good(p), ~Good(x), Held(p, p, p, p, t)
    PROVE  Held(x, p, x, p, t) /\ Held(p, x, p, x, t)
  BY DEF Held, HeldAt, Good, CatalogCopy
\* Two copies that are equal and newest hold what they say.
LEMMA HeldBoth ==
    ASSUME NEW n \in CatalogCopy, NEW ps \in CatalogCopy, NEW bs \in CatalogCopy, NEW t \in Nat,
           Good(n), n.time >= t, CopiesFit(n, n, ps, bs)
    PROVE  Held(n, n, ps, bs, t)
  BY DEF CopiesFit, Held, HeldAt, Good, CatalogCopy


LEMMA CatalogTypesStep == ASSUME CatalogAssumption, CatalogInv, CatalogNext PROVE CatalogTypes'
<1>. USE DEF CatalogInv, CatalogTypes
<1>1. ASSUME NEW t \in 1..MaxTime, Observe(t) PROVE CatalogTypes'
  <2>1. t \in 0..MaxTime
    BY CopyKinds
  <2>2. refresh' \in Refreshes
    BY <1>1, <2>1, RefreshKinds DEF Observe, BeginRefresh
  <2>. QED
    BY <2>2, <1>1 DEF Observe, NoteFiles
<1>2. CASE Reopen
  <2>1. 0 \in 0..MaxTime
    BY CopyKinds
  <2>2. refresh' \in Refreshes
    BY <1>2, <2>1, RefreshKinds DEF Reopen, BeginRefresh
  <2>. QED
    BY <2>2, <1>2 DEF Reopen, NoteFiles
<1>3. CASE Read
  <2>. DEFINE t == Merged(Selected.time, refresh.extra)
              next == NextCopy(t)
  <2>1. t \in 0..MaxTime /\ next \in CatalogCopy /\ refresh.extra \in 0..MaxTime
    <3>1. Selected \in CatalogCopy /\ refresh.extra \in 0..MaxTime
      BY SelectedCopy DEF Refreshes
    <3>2. Selected.time \in 0..MaxTime /\ Selected.rev \in Nat
      BY <3>1 DEF CatalogCopy
    <3>3. t \in 0..MaxTime
      BY <3>1, <3>2, MergedTime
    <3>. QED
      BY <3>1, <3>2, <3>3 DEF NextCopy, CatalogCopy
  <2>2. refresh' \in Refreshes /\ shownTime' \in -1..MaxTime /\ ackedTime' \in 0..MaxTime
    <3>. HIDE DEF t, next
    <3>1. CASE EndRefresh
      BY <3>1, RefreshKinds DEF EndRefresh
    <3>2. CASE Finish(t)
      BY <3>2, <2>1, RefreshKinds, CopyKinds DEF Finish, Larger
    <3>3. CASE /\ refresh' = [refresh EXCEPT !.at = IF BadCopies # {} THEN "quarantine" ELSE "backup", !.next = next]
               /\ ackedTime' = IF Referenced \/ OpaqueDamage THEN ackedTime ELSE 0
               /\ UNCHANGED shownTime
      <4>1. refresh' \in Refreshes
        BY <3>3, <2>1, ReadOn
      <4>. QED
        BY <4>1, <3>3 DEF CatalogAssumption
    <3>. QED
      BY <1>3, <3>1, <3>2, <3>3 DEF Read, t, next
  <2>3. notesFile' \in NoteFiles /\ notesSafe' \in NoteFiles /\ notesShown' \in SUBSET Notes /\ notesAcked' \in SUBSET Notes /\ notesWrite' = notesWrite
    <3>1. CASE notesFile = Unreadable
      BY <1>3, <3>1 DEF Read, NoteFiles
    <3>2. CASE notesFile # Unreadable
      <4>1. notesFile \in SUBSET Notes
        BY <3>2 DEF NoteFiles
      <4>. QED
        BY <1>3, <3>2, <4>1 DEF Read
    <3>. QED
      BY <3>1, <3>2
  <2>. QED
    BY <2>2, <2>3, <1>3 DEF Read
<1>4. CASE Quarantine
  <2>1. refresh' \in Refreshes
    BY <1>4 DEF Quarantine, Refreshes, RefreshSteps
  <2>2. copies' \in [Copies -> CatalogCopy] /\ copiesSafe' \in [Copies -> CatalogCopy]
    BY <1>4, CopyKinds DEF Quarantine, Refreshes
  <2>. QED
    BY <2>1, <2>2, <1>4 DEF Quarantine
<1>5. CASE SyncQuarantine
  <2>1. refresh' \in Refreshes
    BY <1>5 DEF SyncQuarantine, Refreshes, RefreshSteps
  <2>2. copies' \in [Copies -> CatalogCopy] /\ copiesSafe' \in [Copies -> CatalogCopy]
    BY <1>5, CopyKinds DEF SyncQuarantine, Refreshes
  <2>. QED
    BY <2>1, <2>2, <1>5 DEF SyncQuarantine
<1>6. ASSUME NEW p \in Carriers, NEW s \in {"none", "readable", "damaged"}, NEW t \in 0..MaxTime, CarrierChanges(p, [state |-> s, time |-> t]) PROVE CatalogTypes'
  <2>1. refresh' \in Refreshes
    BY <1>6, RefreshKinds, CopyKinds DEF CarrierChanges, BeginRefresh
  <2>2. carriers' \in [Carriers -> [state : {"none", "readable", "damaged"}, time : 0..MaxTime]]
    BY <1>6 DEF CarrierChanges
  <2>. QED
    BY <2>1, <2>2, <1>6 DEF CarrierChanges
<1>7. CASE WriteBackup
  <2>1. refresh' \in Refreshes
    BY <1>7 DEF WriteBackup, Refreshes, RefreshSteps
  <2>2. copies' \in [Copies -> CatalogCopy] /\ copiesSafe' \in [Copies -> CatalogCopy]
    BY <1>7, CopyKinds DEF WriteBackup, Refreshes
  <2>. QED
    BY <2>1, <2>2, <1>7 DEF WriteBackup
<1>8. CASE SyncBackup
  <2>1. refresh' \in Refreshes
    BY <1>8 DEF SyncBackup, Refreshes, RefreshSteps
  <2>2. copies' \in [Copies -> CatalogCopy] /\ copiesSafe' \in [Copies -> CatalogCopy]
    BY <1>8, CopyKinds DEF SyncBackup, Refreshes
  <2>. QED
    BY <2>1, <2>2, <1>8 DEF SyncBackup
<1>9. CASE WritePrimary
  <2>1. refresh' \in Refreshes
    BY <1>9 DEF WritePrimary, Refreshes, RefreshSteps
  <2>2. copies' \in [Copies -> CatalogCopy] /\ copiesSafe' \in [Copies -> CatalogCopy]
    BY <1>9, CopyKinds DEF WritePrimary, Refreshes
  <2>. QED
    BY <2>1, <2>2, <1>9 DEF WritePrimary
<1>10. CASE SyncPrimary
  <2>1. refresh' \in Refreshes
    BY <1>10, RefreshKinds DEF SyncPrimary, Finish
  <2>2. refresh.next.time \in 0..MaxTime /\ refresh.extra \in 0..MaxTime
    BY DEF Refreshes, CatalogCopy
  <2>. QED
    BY <2>1, <2>2, <1>10 DEF SyncPrimary, Finish, Larger, CatalogAssumption
<1>11. CASE RefreshFails
  BY <1>11, RefreshKinds DEF RefreshFails, EndRefresh
<1>12. ASSUME NEW n \in Notes, Note(n) PROVE CatalogTypes'
  <2>1. notesFile' \in NoteFiles
    BY <1>12 DEF Note, NoteFiles
  <2>. QED
    BY <2>1, <1>12 DEF Note
<1>13. CASE SyncNotes
  <2>0. notesWrite = "sync"
    BY <1>13 DEF SyncNotes
  <2>1. notesFile \in SUBSET Notes
    BY <2>0 DEF NotesInv, NoteFiles
  <2>. QED
    BY <2>1, <1>13 DEF SyncNotes
<1>14. CASE NotesFail
  <2>0. notesWrite = "sync"
    BY <1>14 DEF NotesFail
  <2>1. notesFile \in SUBSET Notes
    BY <2>0 DEF NotesInv, NoteFiles
  <2>. QED
    BY <2>1, <1>14 DEF NotesFail
<1>15. CASE CrashCatalog
  <2>0. \A c \in Copies : copies[c] \in CatalogCopy /\ copiesSafe[c] \in CatalogCopy
    OBVIOUS
  <2>1. PICK x \in {copies["primary"], copiesSafe["primary"]}, y \in {copies["backup"], copiesSafe["backup"]} :
            copies' = [c \in Copies |-> IF c = "primary" THEN x ELSE y]
    BY <1>15 DEF CrashCatalog
  <2>2. x \in CatalogCopy /\ y \in CatalogCopy
    BY <2>0 DEF Copies
  <2>3. copies' \in [Copies -> CatalogCopy] /\ copiesSafe' \in [Copies -> CatalogCopy]
    BY <2>1, <2>2, <1>15 DEF CrashCatalog
  <2>4. refresh' \in Refreshes
    BY <1>15, RefreshKinds, CopyKinds DEF CrashCatalog, BeginRefresh
  <2>5. notesFile' \in NoteFiles /\ notesSafe' \in NoteFiles
    BY <1>15 DEF CrashCatalog
  <2>6. -1 \in -1..MaxTime
    BY DEF CatalogAssumption
  <2>. QED
    BY <2>3, <2>4, <2>5, <2>6, <1>15 DEF CrashCatalog
<1>16. CASE Rot
  <2>1. CASE copies' \in [Copies -> CatalogCopy] /\ copiesSafe' = copies' /\ UNCHANGED <<notesFile, notesSafe, notesAcked>>
    BY <2>1, <1>16 DEF Rot
  <2>2. CASE notesFile' = Unreadable /\ notesSafe' = Unreadable /\ notesAcked' = {} /\ UNCHANGED <<copies, copiesSafe>>
    <3>1. notesFile' \in NoteFiles /\ notesSafe' \in NoteFiles /\ notesAcked' \in SUBSET Notes
      BY <2>2 DEF NoteFiles
    <3>. QED
      BY <3>1, <2>2, <1>16 DEF Rot
  <2>3. ASSUME NEW c \in Copies, copies' = [copies EXCEPT ![c] = Bad] PROVE copies' \in [Copies -> CatalogCopy]
    BY <2>3, CopyKinds
  <2>. QED
    BY <1>16, <2>1, <2>2, <2>3 DEF Rot
<1>. QED
  BY <1>1, <1>2, <1>3, <1>4, <1>5, <1>6, <1>7, <1>8, <1>9, <1>10, <1>11, <1>12, <1>13, <1>14, <1>15, <1>16 DEF CatalogNext

LEMMA NotesInvStep == ASSUME CatalogAssumption, CatalogInv, CatalogNext PROVE NotesInv'
<1>. USE DEF CatalogInv, CatalogTypes, NotesInv
<1>1. ASSUME NEW t \in 1..MaxTime, Observe(t) PROVE NotesInv'
  BY <1>1 DEF Observe, BeginRefresh, NotRefreshing, CatalogFree, Refreshes, NoteFiles
<1>2. CASE Reopen
  BY <1>2 DEF Reopen, BeginRefresh, NotRefreshing, CatalogFree, Refreshes, NoteFiles
<1>3. CASE Read
  <2>1. notesWrite = "idle" /\ notesWrite' = "idle"
    BY <1>3 DEF Read
  <2>2. notesFile' # Unreadable /\ notesShown' = notesFile'
    BY <1>3 DEF Read, Unreadable
  <2>3. notesSafe' # Unreadable /\ notesAcked' \subseteq notesFile' \cap notesSafe'
    <3>1. CASE notesFile = Unreadable
      BY <3>1, <1>3 DEF Read, Unreadable
    <3>2. CASE notesFile # Unreadable
      BY <3>2, <1>3 DEF Read
    <3>. QED
      BY <3>1, <3>2
  <2>. QED
    BY <2>1, <2>2, <2>3
<1>4. CASE Quarantine
  BY <1>4 DEF Quarantine, BadCopies, Refreshes, CatalogFree, NoteFiles
<1>5. CASE SyncQuarantine
  BY <1>5 DEF SyncQuarantine, Refreshes, CatalogFree, NoteFiles
<1>6. ASSUME NEW p \in Carriers, NEW s \in {"none", "readable", "damaged"}, NEW t \in 0..MaxTime, CarrierChanges(p, [state |-> s, time |-> t]) PROVE NotesInv'
  BY <1>6 DEF CarrierChanges, BeginRefresh, NotRefreshing, CatalogFree, Refreshes, NoteFiles
<1>7. CASE WriteBackup
  BY <1>7 DEF WriteBackup, Refreshes, CatalogFree, NoteFiles
<1>8. CASE SyncBackup
  BY <1>8 DEF SyncBackup, Refreshes, CatalogFree, NoteFiles
<1>9. CASE WritePrimary
  BY <1>9 DEF WritePrimary, Refreshes, CatalogFree, NoteFiles
<1>10. CASE SyncPrimary
  BY <1>10 DEF SyncPrimary, Finish, NotRefreshing, Larger, Refreshes, CatalogFree, NoteFiles
<1>11. CASE RefreshFails
  BY <1>11 DEF RefreshFails, EndRefresh, NotRefreshing, Refreshes, CatalogFree, NoteFiles
<1>12. ASSUME NEW n \in Notes, Note(n) PROVE NotesInv'
  <2>1. notesFile \in SUBSET Notes /\ notesShown \in SUBSET Notes
    BY <1>12 DEF Note, NoteFiles
  <2>2. notesFile' # Unreadable
    BY <2>1, <1>12 DEF Note, Unreadable, CatalogAssumption
  <2>. QED
    BY <2>1, <2>2, <1>12 DEF Note, CatalogFree
<1>13. CASE SyncNotes
  BY <1>13 DEF SyncNotes, Refreshes, CatalogFree, NoteFiles
<1>14. CASE NotesFail
  BY <1>14 DEF NotesFail, Refreshes, CatalogFree, NoteFiles
<1>15. CASE CrashCatalog
  BY <1>15 DEF CrashCatalog, BeginRefresh, NotRefreshing, Refreshes, CatalogFree, NoteFiles
<1>16. CASE Rot
  BY <1>16 DEF Rot, CatalogFree, Refreshes, NoteFiles
<1>. QED
  BY <1>1, <1>2, <1>3, <1>4, <1>5, <1>6, <1>7, <1>8, <1>9, <1>10, <1>11, <1>12, <1>13, <1>14, <1>15, <1>16 DEF CatalogNext

LEMMA CopiesInvStep == ASSUME CatalogAssumption, CatalogInv, CatalogNext PROVE CopiesInv'
<1>. USE DEF CatalogInv, CatalogTypes
<1>1. ASSUME NEW t \in 1..MaxTime, Observe(t) PROVE CopiesInv'
  <2>1. UNCHANGED <<copies, copiesSafe>>
    BY <1>1 DEF Observe
  <2>. QED
    BY <2>1 DEF CopiesInv
<1>2. CASE Reopen
  <2>1. UNCHANGED <<copies, copiesSafe>>
    BY <1>2 DEF Reopen
  <2>. QED
    BY <2>1 DEF CopiesInv
<1>3. CASE Read
  <2>1. UNCHANGED <<copies, copiesSafe>>
    BY <1>3 DEF Read
  <2>. QED
    BY <2>1 DEF CopiesInv
<1>4. CASE Quarantine
  <2>. DEFINE p == copies["primary"]
              b == copies["backup"]
              ps == copiesSafe["primary"]
              bs == copiesSafe["backup"]
              n == refresh.next
  <2>1. p \in CatalogCopy /\ b \in CatalogCopy /\ ps \in CatalogCopy /\ bs \in CatalogCopy /\ n \in CatalogCopy
    BY DEF Copies, Refreshes
  <2>2. /\ copies'["primary"] = p \/ (~Good(p) /\ copies'["primary"] = Missing)
        /\ copies'["backup"] = b \/ (~Good(b) /\ copies'["backup"] = Missing)
        /\ UNCHANGED copiesSafe
    <3>1. \A c \in Copies : copies'[c] = IF c \in BadCopies THEN Missing ELSE copies[c]
      BY <1>4 DEF Quarantine
    <3>2. \A c \in BadCopies : ~Good(copies[c])
      BY DEF BadCopies, Good
    <3>3. "primary" \in Copies /\ "backup" \in Copies
      BY DEF Copies
    <3>. QED
      <4>1. copies'["primary"] = p \/ (~Good(p) /\ copies'["primary"] = Missing)
        BY <3>1, <3>2, <3>3
      <4>2. copies'["backup"] = b \/ (~Good(b) /\ copies'["backup"] = Missing)
        BY <3>1, <3>2, <3>3
      <4>3. UNCHANGED copiesSafe
        BY <1>4 DEF Quarantine
      <4>. QED
        BY <4>1, <4>2, <4>3
  <2>3. copies'["primary"] \in CatalogCopy /\ copies'["backup"] \in CatalogCopy
    BY <2>1, <2>2, CopyKinds
  <2>4. CopiesFit(copies'["primary"], copies'["backup"], ps, bs)
    BY <2>1, <2>2, <2>3, CopyKinds, FitQuarantine, SMTT(60) DEF CopiesInv
  <2>. QED
    BY <2>2, <2>4 DEF CopiesInv
<1>5. CASE SyncQuarantine
  <2>. DEFINE p == copies["primary"]
              b == copies["backup"]
              ps == copiesSafe["primary"]
              bs == copiesSafe["backup"]
              n == refresh.next
  <2>1. p \in CatalogCopy /\ b \in CatalogCopy /\ ps \in CatalogCopy /\ bs \in CatalogCopy /\ n \in CatalogCopy
    BY DEF Copies, Refreshes
  <2>2. copies'["primary"] = p /\ copies'["backup"] = b /\ copiesSafe'["primary"] = p /\ copiesSafe'["backup"] = b
    BY <1>5 DEF SyncQuarantine, Copies
  <2>4. CopiesFit(p, b, p, b)
    BY <2>1, FitCrash DEF CopiesInv
  <2>. QED
    BY <2>2, <2>4 DEF CopiesInv
<1>6. ASSUME NEW p \in Carriers, NEW s \in {"none", "readable", "damaged"}, NEW t \in 0..MaxTime, CarrierChanges(p, [state |-> s, time |-> t]) PROVE CopiesInv'
  <2>1. UNCHANGED <<copies, copiesSafe>>
    BY <1>6 DEF CarrierChanges
  <2>. QED
    BY <2>1 DEF CopiesInv
<1>7. CASE WriteBackup
  <2>. DEFINE p == copies["primary"]
              b == copies["backup"]
              ps == copiesSafe["primary"]
              bs == copiesSafe["backup"]
              n == refresh.next
  <2>1. p \in CatalogCopy /\ b \in CatalogCopy /\ ps \in CatalogCopy /\ bs \in CatalogCopy /\ n \in CatalogCopy
    BY DEF Copies, Refreshes
  <2>2. copies'["primary"] = p /\ copies'["backup"] = n /\ copiesSafe'["primary"] = ps /\ copiesSafe'["backup"] = bs
    BY <1>7 DEF WriteBackup, Copies
  <2>3. Good(n) /\ Under(p, n) /\ Under(b, n) /\ n.time >= ackedTime
    BY <1>7 DEF WriteBackup, WritingInv, Refreshing
  <2>4. CopiesFit(p, n, ps, bs)
    BY <2>1, <2>3, FitBackup DEF CopiesInv
  <2>. QED
    BY <2>2, <2>4 DEF CopiesInv
<1>8. CASE SyncBackup
  <2>. DEFINE p == copies["primary"]
              b == copies["backup"]
              ps == copiesSafe["primary"]
              bs == copiesSafe["backup"]
              n == refresh.next
  <2>1. p \in CatalogCopy /\ b \in CatalogCopy /\ ps \in CatalogCopy /\ bs \in CatalogCopy /\ n \in CatalogCopy
    BY DEF Copies, Refreshes
  <2>2. copies'["primary"] = p /\ copies'["backup"] = b /\ copiesSafe'["primary"] = p /\ copiesSafe'["backup"] = b
    BY <1>8 DEF SyncBackup, Copies
  <2>4. CopiesFit(p, b, p, b)
    BY <2>1, FitCrash DEF CopiesInv
  <2>. QED
    BY <2>2, <2>4 DEF CopiesInv
<1>9. CASE WritePrimary
  <2>. DEFINE p == copies["primary"]
              b == copies["backup"]
              ps == copiesSafe["primary"]
              bs == copiesSafe["backup"]
              n == refresh.next
  <2>1. p \in CatalogCopy /\ b \in CatalogCopy /\ ps \in CatalogCopy /\ bs \in CatalogCopy /\ n \in CatalogCopy
    BY DEF Copies, Refreshes
  <2>2. copies'["primary"] = n /\ copies'["backup"] = b /\ copiesSafe'["primary"] = ps /\ copiesSafe'["backup"] = bs
    BY <1>9 DEF WritePrimary, Copies
  <2>3. Good(n) /\ Under(p, n) /\ Under(b, n) /\ n.time >= ackedTime
    BY <1>9 DEF WritePrimary, WritingInv, Refreshing
  <2>5. b = n /\ bs = n
    BY <1>9 DEF WritePrimary, WritingInv
  <2>4. CopiesFit(n, b, ps, bs)
    BY <2>1, <2>3, <2>5, FitPrimary DEF CopiesInv
  <2>. QED
    BY <2>2, <2>4 DEF CopiesInv
<1>10. CASE SyncPrimary
  <2>. DEFINE p == copies["primary"]
              b == copies["backup"]
              ps == copiesSafe["primary"]
              bs == copiesSafe["backup"]
              n == refresh.next
  <2>1. p \in CatalogCopy /\ b \in CatalogCopy /\ ps \in CatalogCopy /\ bs \in CatalogCopy /\ n \in CatalogCopy
    BY DEF Copies, Refreshes
  <2>2. copies'["primary"] = p /\ copies'["backup"] = b /\ copiesSafe'["primary"] = p /\ copiesSafe'["backup"] = b
    BY <1>10 DEF SyncPrimary, Copies
  <2>4. CopiesFit(p, b, p, b)
    BY <2>1, FitCrash DEF CopiesInv
  <2>. QED
    BY <2>2, <2>4 DEF CopiesInv
<1>11. CASE RefreshFails
  <2>1. UNCHANGED <<copies, copiesSafe>>
    BY <1>11 DEF RefreshFails
  <2>. QED
    BY <2>1 DEF CopiesInv
<1>12. ASSUME NEW n \in Notes, Note(n) PROVE CopiesInv'
  <2>1. UNCHANGED <<copies, copiesSafe>>
    BY <1>12 DEF Note
  <2>. QED
    BY <2>1 DEF CopiesInv
<1>13. CASE SyncNotes
  <2>1. UNCHANGED <<copies, copiesSafe>>
    BY <1>13 DEF SyncNotes
  <2>. QED
    BY <2>1 DEF CopiesInv
<1>14. CASE NotesFail
  <2>1. UNCHANGED <<copies, copiesSafe>>
    BY <1>14 DEF NotesFail
  <2>. QED
    BY <2>1 DEF CopiesInv
<1>15. CASE CrashCatalog
  <2>. DEFINE p == copies["primary"]
              b == copies["backup"]
              ps == copiesSafe["primary"]
              bs == copiesSafe["backup"]
              n == refresh.next
  <2>1. p \in CatalogCopy /\ b \in CatalogCopy /\ ps \in CatalogCopy /\ bs \in CatalogCopy /\ n \in CatalogCopy
    BY DEF Copies, Refreshes
  <2>3. \A c \in Copies : copies[c] \in CatalogCopy /\ copiesSafe[c] \in CatalogCopy
    OBVIOUS
  <2>4. PICK x \in {copies["primary"], copiesSafe["primary"]}, y \in {copies["backup"], copiesSafe["backup"]} :
            copies' = [c \in Copies |-> IF c = "primary" THEN x ELSE y]
    BY <1>15 DEF CrashCatalog
  <2>5. x \in CatalogCopy /\ y \in CatalogCopy
    BY <2>3 DEF Copies
  <2>6. copies'["primary"] = x /\ copies'["backup"] = y /\ copiesSafe'["primary"] = x /\ copiesSafe'["backup"] = y
    BY <2>4, <1>15 DEF CrashCatalog, Copies
  <2>7. CopiesFit(x, y, x, y)
    BY <2>1, <2>4, FitCrash DEF CopiesInv
  <2>. QED
    BY <2>6, <2>7 DEF CopiesInv
<1>16. CASE Rot
  <2>. DEFINE p == copies["primary"]
              b == copies["backup"]
              ps == copiesSafe["primary"]
              bs == copiesSafe["backup"]
              n == refresh.next
  <2>1. p \in CatalogCopy /\ b \in CatalogCopy /\ ps \in CatalogCopy /\ bs \in CatalogCopy /\ n \in CatalogCopy
    BY DEF Copies, Refreshes
  <2>2. CASE UNCHANGED <<copies, copiesSafe>>
    BY <2>2, <1>16 DEF CopiesInv
  <2>3. CASE p = b /\ copiesSafe = copies /\ GoodCopies = Copies /\ copiesSafe' = copies' /\ \E c \in Copies : copies' = [copies EXCEPT ![c] = Bad]
    <3>1. Good(p)
      BY <2>3 DEF GoodCopies, Copies, Good
    <3>2. \/ copies'["primary"] = Bad /\ copies'["backup"] = p
          \/ copies'["primary"] = p /\ copies'["backup"] = Bad
      BY <2>3 DEF Copies
    <3>. QED
      BY <2>1, <2>3, <3>1, <3>2, CopyKinds, FitRot, <1>16 DEF CopiesInv
  <2>. QED
    BY <1>16, <2>2, <2>3 DEF Rot
<1>. QED
  BY <1>1, <1>2, <1>3, <1>4, <1>5, <1>6, <1>7, <1>8, <1>9, <1>10, <1>11, <1>12, <1>13, <1>14, <1>15, <1>16 DEF CatalogNext

LEMMA WritingInvStep == ASSUME CatalogAssumption, CatalogInv, CatalogNext PROVE WritingInv'
<1>. USE DEF CatalogInv, CatalogTypes, WritingInv, Refreshing
<1>1. ASSUME NEW t \in 1..MaxTime, Observe(t) PROVE WritingInv'
  BY <1>1 DEF Observe, BeginRefresh, NotRefreshing, CatalogFree, Good, Under, CatalogCopy, Refreshes, Referenced
<1>2. CASE Reopen
  BY <1>2 DEF Reopen, BeginRefresh, NotRefreshing, CatalogFree, Good, Under, CatalogCopy, Refreshes, Referenced
<1>3. CASE Read
  <2>. DEFINE p == copies["primary"]
              b == copies["backup"]
              ps == copiesSafe["primary"]
              bs == copiesSafe["backup"]
              n == refresh.next
  <2>1. p \in CatalogCopy /\ b \in CatalogCopy /\ ps \in CatalogCopy /\ bs \in CatalogCopy /\ n \in CatalogCopy
    BY DEF Copies, Refreshes
  <2>. DEFINE t == Merged(Selected.time, refresh.extra)
              next == NextCopy(t)
  <2>2. Selected \in CatalogCopy /\ refresh.extra \in 0..MaxTime
    BY SelectedCopy DEF Refreshes
  <2>3. Selected.time \in 0..MaxTime /\ Selected.rev \in Nat
    BY <2>2 DEF CatalogCopy
  <2>4. /\ t \in 0..MaxTime /\ (Referenced => t >= Selected.time /\ t >= refresh.extra)
        /\ ~Referenced => refresh.extra = 0 /\ t = IF OpaqueDamage THEN Selected.time ELSE 0
    BY <2>2, <2>3, <1>3, MergedTime DEF Read, WritingInv
  <2>5. next \in CatalogCopy /\ Good(next) /\ next.time = t
    BY <2>3, <2>4 DEF NextCopy, CatalogCopy, Good
  <2>6. (Referenced \/ OpaqueDamage) => Selected.time >= ackedTime
    BY <2>1, SelectedCopy DEF AckedInv, Held, HeldAt, CatalogCopy
  <2>7. Under(p, next) /\ Under(b, next)
    <3>1. ~Good(p) /\ ~Good(b) => Under(p, next) /\ Under(b, next)
      BY DEF Under
    <3>2. Good(Selected) => next = Selected \/ next.rev = Selected.rev + 1
      <4>1. Good(Selected) => Selected = [is |-> "good", rev |-> Selected.rev, time |-> Selected.time]
        BY <2>2 DEF Good, CatalogCopy
      <4>2. next = [is |-> "good", time |-> t, rev |-> IF Selected.is = "good" /\ Selected.time = t THEN Selected.rev ELSE Selected.rev + 1]
        BY DEF NextCopy
      <4>. QED
        BY <4>1, <4>2 DEF Good
    <3>3. CASE Selected = p /\ Good(p) /\ (Good(b) => b.rev <= p.rev)
      <4>. HIDE DEF t, next
      <4>1. next = p \/ next.rev = p.rev + 1
        BY <3>2, <3>3
      <4>2. Good(b) /\ b.rev = p.rev => b = p
        BY <3>3 DEF CopiesInv, CopiesFit
      <4>3. p.rev \in Nat /\ b.rev \in Nat
        BY <2>1 DEF CatalogCopy
      <4>. QED
        BY <3>3, <4>1, <4>2, <4>3 DEF Under
    <3>4. CASE Selected = b /\ Good(b) /\ ~(Good(p) /\ b.rev <= p.rev)
      <4>. HIDE DEF t, next
      <4>1. next = b \/ next.rev = b.rev + 1
        BY <3>2, <3>4
      <4>. QED
        BY <2>1, <2>5, <3>4, <4>1 DEF Under, Good, CatalogCopy, CopiesInv, CopiesFit
    <3>. QED
      BY <3>1, <3>3, <3>4, SelectedCopy
  <2>. HIDE DEF t, next
  <2>8. CASE refresh' = NotRefreshing
    BY <2>8 DEF NotRefreshing
  <2>9. CASE /\ refresh' = [refresh EXCEPT !.at = IF BadCopies # {} THEN "quarantine" ELSE "backup", !.next = next]
             /\ ackedTime' = IF Referenced \/ OpaqueDamage THEN ackedTime ELSE 0
    <3>1. refresh'.at \in {"quarantine", "backup"} /\ refresh'.next = next /\ refresh'.extra = refresh.extra
      BY <2>9, <2>5, ReadOn
    <3>2. t >= ackedTime' /\ t >= refresh.extra
      <4>1. CASE Referenced
        BY <4>1, <2>9, <2>2, <2>3, <2>4, <2>6 DEF CatalogAssumption
      <4>2. CASE ~Referenced
        BY <4>2, <2>9, <2>2, <2>3, <2>4, <2>6 DEF CatalogAssumption
      <4>. QED
        BY <4>1, <4>2
    <3>3. UNCHANGED <<carriers, copies, copiesSafe>> /\ (refresh.extra # 0 => Referenced)
      BY <1>3 DEF Read
    <3>. QED
      BY <3>1, <3>2, <3>3, <2>5, <2>7 DEF Referenced
  <2>. QED
    BY <2>8, <2>9, <1>3 DEF Read, EndRefresh, Finish, t, next
<1>4. CASE Quarantine
  <2>. DEFINE p == copies["primary"]
              b == copies["backup"]
              ps == copiesSafe["primary"]
              bs == copiesSafe["backup"]
              n == refresh.next
  <2>1. p \in CatalogCopy /\ b \in CatalogCopy /\ ps \in CatalogCopy /\ bs \in CatalogCopy /\ n \in CatalogCopy
    BY DEF Copies, Refreshes
  <2>2. /\ copies'["primary"] = p \/ (~Good(p) /\ copies'["primary"] = Missing)
        /\ copies'["backup"] = b \/ (~Good(b) /\ copies'["backup"] = Missing)
        /\ UNCHANGED copiesSafe
    <3>1. \A c \in Copies : copies'[c] = IF c \in BadCopies THEN Missing ELSE copies[c]
      BY <1>4 DEF Quarantine
    <3>2. \A c \in BadCopies : ~Good(copies[c])
      BY DEF BadCopies, Good
    <3>3. "primary" \in Copies /\ "backup" \in Copies
      BY DEF Copies
    <3>. QED
      <4>1. copies'["primary"] = p \/ (~Good(p) /\ copies'["primary"] = Missing)
        BY <3>1, <3>2, <3>3
      <4>2. copies'["backup"] = b \/ (~Good(b) /\ copies'["backup"] = Missing)
        BY <3>1, <3>2, <3>3
      <4>3. UNCHANGED copiesSafe
        BY <1>4 DEF Quarantine
      <4>. QED
        BY <4>1, <4>2, <4>3
  <2>3. copies'["primary"] \in CatalogCopy /\ copies'["backup"] \in CatalogCopy
    BY <2>1, <2>2, CopyKinds
  <2>4. refresh'.at = "syncQuarantine" /\ refresh'.next = n /\ refresh'.extra = refresh.extra
    BY <1>4 DEF Quarantine, Refreshes
  <2>5. UNCHANGED <<carriers, ackedTime>> /\ refresh.at = "quarantine"
    BY <1>4 DEF Quarantine
  <2>6. Under(copies'["primary"], n) /\ Under(copies'["backup"], n)
    BY <2>2, <2>5, CopyKinds DEF Under
  <2>. QED
    BY <2>4, <2>5, <2>6 DEF Referenced
<1>5. CASE SyncQuarantine
  BY <1>5 DEF SyncQuarantine, Good, Under, CatalogCopy, Refreshes, Referenced
<1>6. ASSUME NEW p \in Carriers, NEW s \in {"none", "readable", "damaged"}, NEW t \in 0..MaxTime, CarrierChanges(p, [state |-> s, time |-> t]) PROVE WritingInv'
  BY <1>6 DEF CarrierChanges, BeginRefresh, NotRefreshing, CatalogFree, Good, Under, CatalogCopy, Refreshes, Referenced
<1>7. CASE WriteBackup
  <2>. DEFINE p == copies["primary"]
              b == copies["backup"]
              ps == copiesSafe["primary"]
              bs == copiesSafe["backup"]
              n == refresh.next
  <2>1. p \in CatalogCopy /\ b \in CatalogCopy /\ ps \in CatalogCopy /\ bs \in CatalogCopy /\ n \in CatalogCopy
    BY DEF Copies, Refreshes
  <2>2. copies'["primary"] = p /\ copies'["backup"] = n /\ copiesSafe'["primary"] = ps /\ copiesSafe'["backup"] = bs
    BY <1>7 DEF WriteBackup, Copies
  <2>3. refresh'.at = "syncBackup" /\ refresh'.next = n /\ refresh'.extra = refresh.extra /\ refresh.at # "idle" /\ Refreshing
    BY <1>7 DEF WriteBackup, Refreshes
  <2>4. UNCHANGED <<carriers, ackedTime>>
    BY <1>7 DEF WriteBackup
  <2>5. Under(p, n) /\ Under(b, n) /\ Under(n, n)
    BY <2>3 DEF Under
  <2>. QED
    BY <2>2, <2>3, <2>4, <2>5 DEF Referenced
<1>8. CASE SyncBackup
  BY <1>8 DEF SyncBackup, Good, Under, CatalogCopy, Refreshes, Referenced
<1>9. CASE WritePrimary
  <2>. DEFINE p == copies["primary"]
              b == copies["backup"]
              ps == copiesSafe["primary"]
              bs == copiesSafe["backup"]
              n == refresh.next
  <2>1. p \in CatalogCopy /\ b \in CatalogCopy /\ ps \in CatalogCopy /\ bs \in CatalogCopy /\ n \in CatalogCopy
    BY DEF Copies, Refreshes
  <2>2. copies'["primary"] = n /\ copies'["backup"] = b /\ copiesSafe'["primary"] = ps /\ copiesSafe'["backup"] = bs
    BY <1>9 DEF WritePrimary, Copies
  <2>3. refresh'.at = "syncPrimary" /\ refresh'.next = n /\ refresh'.extra = refresh.extra /\ refresh.at # "idle" /\ Refreshing
    BY <1>9 DEF WritePrimary, Refreshes
  <2>4. UNCHANGED <<carriers, ackedTime>>
    BY <1>9 DEF WritePrimary
  <2>5. Under(p, n) /\ Under(b, n) /\ Under(n, n)
    BY <2>3 DEF Under
  <2>6. b = n /\ bs = n
    BY <1>9 DEF WritePrimary
  <2>. QED
    BY <2>2, <2>3, <2>4, <2>5, <2>6 DEF Referenced
<1>10. CASE SyncPrimary
  BY <1>10 DEF SyncPrimary, Finish, NotRefreshing, Larger, Good, Under, CatalogCopy, Refreshes, Referenced
<1>11. CASE RefreshFails
  BY <1>11 DEF RefreshFails, EndRefresh, NotRefreshing, Good, Under, CatalogCopy, Refreshes, Referenced
<1>12. ASSUME NEW n \in Notes, Note(n) PROVE WritingInv'
  BY <1>12 DEF Note, CatalogFree, Good, Under, CatalogCopy, Refreshes, Referenced
<1>13. CASE SyncNotes
  BY <1>13 DEF SyncNotes, Good, Under, CatalogCopy, Refreshes, Referenced
<1>14. CASE NotesFail
  BY <1>14 DEF NotesFail, Good, Under, CatalogCopy, Refreshes, Referenced
<1>15. CASE CrashCatalog
  BY <1>15 DEF CrashCatalog, BeginRefresh, NotRefreshing, Good, Under, CatalogCopy, Refreshes, Referenced
<1>16. CASE Rot
  BY <1>16 DEF Rot, CatalogFree, Good, Under, CatalogCopy, Refreshes, Referenced
<1>. QED
  BY <1>1, <1>2, <1>3, <1>4, <1>5, <1>6, <1>7, <1>8, <1>9, <1>10, <1>11, <1>12, <1>13, <1>14, <1>15, <1>16 DEF CatalogNext

LEMMA AckedInvStep == ASSUME CatalogAssumption, CatalogInv, CatalogNext PROVE AckedInv'
<1>. USE DEF CatalogInv, CatalogTypes
<1>1. ASSUME NEW t \in 1..MaxTime, Observe(t) PROVE AckedInv'
  <2>1. UNCHANGED <<copies, copiesSafe, shownTime, ackedTime>>
    BY <1>1 DEF Observe
  <2>. QED
    BY <2>1 DEF AckedInv
<1>2. CASE Reopen
  <2>1. UNCHANGED <<copies, copiesSafe, shownTime, ackedTime>>
    BY <1>2 DEF Reopen
  <2>. QED
    BY <2>1 DEF AckedInv
<1>3. CASE Read
  <2>. DEFINE p == copies["primary"]
              b == copies["backup"]
              ps == copiesSafe["primary"]
              bs == copiesSafe["backup"]
              n == refresh.next
  <2>1. p \in CatalogCopy /\ b \in CatalogCopy /\ ps \in CatalogCopy /\ bs \in CatalogCopy /\ n \in CatalogCopy
    BY DEF Copies, Refreshes
  <2>. DEFINE t == Merged(Selected.time, refresh.extra)
              next == NextCopy(t)
  <2>2. Selected \in CatalogCopy /\ refresh.extra \in 0..MaxTime
    BY SelectedCopy DEF Refreshes
  <2>3. Selected.time \in 0..MaxTime /\ Selected.rev \in Nat
    BY <2>2 DEF CatalogCopy
  <2>4. /\ t \in 0..MaxTime /\ (Referenced => t >= Selected.time /\ t >= refresh.extra)
        /\ ~Referenced => refresh.extra = 0 /\ t = IF OpaqueDamage THEN Selected.time ELSE 0
    BY <2>2, <2>3, <1>3, MergedTime DEF Read, WritingInv
  <2>5. next \in CatalogCopy /\ Good(next) /\ next.time = t
    BY <2>3, <2>4 DEF NextCopy, CatalogCopy, Good
  <2>6. (Referenced \/ OpaqueDamage) => Selected.time >= ackedTime
    BY <2>1, SelectedCopy DEF AckedInv, Held, HeldAt, CatalogCopy
  <2>. HIDE DEF t, next
  <2>7. CASE EndRefresh
    BY <2>7, <1>3 DEF EndRefresh, Read, AckedInv
  <2>8. CASE Finish(t) /\ ((Selected = Missing /\ t = 0) \/ \A c \in Copies : copies[c] = next)
    <3>1. shownTime' = t /\ ackedTime' = IF t = 0 THEN 0 ELSE Larger(ackedTime, refresh.extra)
      BY <2>8 DEF Finish
    <3>2. CASE t = 0
      BY <3>1, <3>2 DEF AckedInv, Held
    <3>3. CASE t # 0
      <4>1. p = next /\ b = next
        BY <2>8, <3>3 DEF Copies
      <4>2. Selected.time >= ackedTime => t >= ackedTime
        BY <2>3, <2>4, <3>3 DEF CatalogAssumption
      <4>3. t >= ackedTime /\ t >= refresh.extra
        BY <2>4, <2>6, <3>3, <4>2, <2>2, <2>3 DEF CatalogAssumption
      <4>4. ackedTime' \in Nat /\ t >= ackedTime'
        BY <3>1, <3>3, <4>3, <2>2 DEF Larger, CatalogAssumption
      <4>5. Held(p, b, ps, bs, ackedTime')
        BY <4>1, <4>4, <2>1, <2>5, HeldBoth DEF CopiesInv
      <4>. QED
        BY <4>4, <4>5, <3>1, <1>3 DEF AckedInv, Read
    <3>. QED
      BY <3>2, <3>3
  <2>9. CASE UNCHANGED shownTime /\ ackedTime' = IF Referenced \/ OpaqueDamage THEN ackedTime ELSE 0
    BY <2>9, <1>3 DEF AckedInv, Held, Read
  <2>. QED
    BY <2>7, <2>8, <2>9, <1>3 DEF Read, t, next
<1>4. CASE Quarantine
  <2>. DEFINE p == copies["primary"]
              b == copies["backup"]
              ps == copiesSafe["primary"]
              bs == copiesSafe["backup"]
              n == refresh.next
  <2>1. p \in CatalogCopy /\ b \in CatalogCopy /\ ps \in CatalogCopy /\ bs \in CatalogCopy /\ n \in CatalogCopy
    BY DEF Copies, Refreshes
  <2>2. /\ copies'["primary"] = p \/ (~Good(p) /\ copies'["primary"] = Missing)
        /\ copies'["backup"] = b \/ (~Good(b) /\ copies'["backup"] = Missing)
        /\ UNCHANGED copiesSafe
    <3>1. \A c \in Copies : copies'[c] = IF c \in BadCopies THEN Missing ELSE copies[c]
      BY <1>4 DEF Quarantine
    <3>2. \A c \in BadCopies : ~Good(copies[c])
      BY DEF BadCopies, Good
    <3>3. "primary" \in Copies /\ "backup" \in Copies
      BY DEF Copies
    <3>. QED
      <4>1. copies'["primary"] = p \/ (~Good(p) /\ copies'["primary"] = Missing)
        BY <3>1, <3>2, <3>3
      <4>2. copies'["backup"] = b \/ (~Good(b) /\ copies'["backup"] = Missing)
        BY <3>1, <3>2, <3>3
      <4>3. UNCHANGED copiesSafe
        BY <1>4 DEF Quarantine
      <4>. QED
        BY <4>1, <4>2, <4>3
  <2>3. copies'["primary"] \in CatalogCopy /\ copies'["backup"] \in CatalogCopy
    BY <2>1, <2>2, CopyKinds
  <2>4. /\ copies'["primary"] = p \/ (~Good(p) /\ ~Good(copies'["primary"]))
        /\ copies'["backup"] = b \/ (~Good(b) /\ ~Good(copies'["backup"]))
    BY <2>2, CopyKinds
  <2>5. ackedTime \in Nat /\ Held(p, b, ps, bs, ackedTime)
    BY CopyKinds DEF AckedInv
  <2>. DEFINE pn == copies'["primary"]
              bn == copies'["backup"]
  <2>6. Held(pn, bn, ps, bs, ackedTime)
    <3>. HIDE DEF p, b, ps, bs, pn, bn
    <3>. QED
      BY <2>1, <2>3, <2>4, <2>5, HeldQuarantine DEF p, b, ps, bs, pn, bn
  <2>. QED
    BY <2>2, <2>6, <1>4 DEF AckedInv, Quarantine
<1>5. CASE SyncQuarantine
  <2>. DEFINE p == copies["primary"]
              b == copies["backup"]
              ps == copiesSafe["primary"]
              bs == copiesSafe["backup"]
              n == refresh.next
  <2>1. p \in CatalogCopy /\ b \in CatalogCopy /\ ps \in CatalogCopy /\ bs \in CatalogCopy /\ n \in CatalogCopy
    BY DEF Copies, Refreshes
  <2>2. copies'["primary"] = p /\ copies'["backup"] = b /\ copiesSafe'["primary"] = p /\ copiesSafe'["backup"] = b
    BY <1>5 DEF SyncQuarantine, Copies
  <2>4. Held(p, b, p, b, ackedTime)
    BY <2>1, HeldCrash DEF AckedInv, CatalogAssumption
  <2>. QED
    BY <2>2, <2>4, <1>5 DEF AckedInv, SyncQuarantine
<1>6. ASSUME NEW p \in Carriers, NEW s \in {"none", "readable", "damaged"}, NEW t \in 0..MaxTime, CarrierChanges(p, [state |-> s, time |-> t]) PROVE AckedInv'
  <2>1. UNCHANGED <<copies, copiesSafe, shownTime, ackedTime>>
    BY <1>6 DEF CarrierChanges
  <2>. QED
    BY <2>1 DEF AckedInv
<1>7. CASE WriteBackup
  <2>. DEFINE p == copies["primary"]
              b == copies["backup"]
              ps == copiesSafe["primary"]
              bs == copiesSafe["backup"]
              n == refresh.next
  <2>1. p \in CatalogCopy /\ b \in CatalogCopy /\ ps \in CatalogCopy /\ bs \in CatalogCopy /\ n \in CatalogCopy
    BY DEF Copies, Refreshes
  <2>2. copies'["primary"] = p /\ copies'["backup"] = n /\ copiesSafe'["primary"] = ps /\ copiesSafe'["backup"] = bs
    BY <1>7 DEF WriteBackup, Copies
  <2>3. Good(n) /\ Under(p, n) /\ Under(b, n) /\ n.time >= ackedTime
    BY <1>7 DEF WriteBackup, WritingInv, Refreshing
  <2>4. Held(p, n, ps, bs, ackedTime)
    BY <2>1, <2>3, HeldBackup, SMTT(60) DEF AckedInv, CatalogAssumption
  <2>. QED
    BY <2>2, <2>4, <1>7 DEF AckedInv, WriteBackup
<1>8. CASE SyncBackup
  <2>. DEFINE p == copies["primary"]
              b == copies["backup"]
              ps == copiesSafe["primary"]
              bs == copiesSafe["backup"]
              n == refresh.next
  <2>1. p \in CatalogCopy /\ b \in CatalogCopy /\ ps \in CatalogCopy /\ bs \in CatalogCopy /\ n \in CatalogCopy
    BY DEF Copies, Refreshes
  <2>2. copies'["primary"] = p /\ copies'["backup"] = b /\ copiesSafe'["primary"] = p /\ copiesSafe'["backup"] = b
    BY <1>8 DEF SyncBackup, Copies
  <2>4. Held(p, b, p, b, ackedTime)
    BY <2>1, HeldCrash DEF AckedInv, CatalogAssumption
  <2>. QED
    BY <2>2, <2>4, <1>8 DEF AckedInv, SyncBackup
<1>9. CASE WritePrimary
  <2>. DEFINE p == copies["primary"]
              b == copies["backup"]
              ps == copiesSafe["primary"]
              bs == copiesSafe["backup"]
              n == refresh.next
  <2>1. p \in CatalogCopy /\ b \in CatalogCopy /\ ps \in CatalogCopy /\ bs \in CatalogCopy /\ n \in CatalogCopy
    BY DEF Copies, Refreshes
  <2>2. copies'["primary"] = n /\ copies'["backup"] = b /\ copiesSafe'["primary"] = ps /\ copiesSafe'["backup"] = bs
    BY <1>9 DEF WritePrimary, Copies
  <2>3. Good(n) /\ Under(p, n) /\ Under(b, n) /\ n.time >= ackedTime
    BY <1>9 DEF WritePrimary, WritingInv, Refreshing
  <2>4. Held(n, b, ps, bs, ackedTime)
    BY <2>1, <2>3, HeldPrimary, SMTT(60) DEF AckedInv, CatalogAssumption
  <2>. QED
    BY <2>2, <2>4, <1>9 DEF AckedInv, WritePrimary
<1>10. CASE SyncPrimary
  <2>. DEFINE p == copies["primary"]
              b == copies["backup"]
              ps == copiesSafe["primary"]
              bs == copiesSafe["backup"]
              n == refresh.next
  <2>1. p \in CatalogCopy /\ b \in CatalogCopy /\ ps \in CatalogCopy /\ bs \in CatalogCopy /\ n \in CatalogCopy
    BY DEF Copies, Refreshes
  <2>2. copies'["primary"] = p /\ copies'["backup"] = b /\ copiesSafe'["primary"] = p /\ copiesSafe'["backup"] = b
    BY <1>10 DEF SyncPrimary, Copies
  <2>3. p = n /\ b = n /\ Good(n) /\ n.time >= ackedTime /\ n.time >= refresh.extra
    BY <1>10 DEF SyncPrimary, WritingInv, Refreshing
  <2>4. n.time \in 0..MaxTime /\ refresh.extra \in 0..MaxTime
    BY <2>1 DEF CatalogCopy, Refreshes
  <2>5. shownTime' = n.time /\ ackedTime' \in Nat /\ n.time >= ackedTime'
    BY <2>3, <2>4, <1>10 DEF SyncPrimary, Finish, Larger, CatalogAssumption
  <2>6. CopiesFit(n, n, n, n)
    BY <2>1, <2>3 DEF CopiesFit, Good, CatalogCopy
  <2>7. Held(n, n, n, n, ackedTime')
    BY <2>1, <2>3, <2>5, <2>6, HeldBoth
  <2>. QED
    BY <2>2, <2>3, <2>5, <2>7 DEF AckedInv
<1>11. CASE RefreshFails
  <2>1. UNCHANGED <<copies, copiesSafe, shownTime, ackedTime>>
    BY <1>11 DEF RefreshFails, EndRefresh
  <2>. QED
    BY <2>1 DEF AckedInv
<1>12. ASSUME NEW n \in Notes, Note(n) PROVE AckedInv'
  <2>1. UNCHANGED <<copies, copiesSafe, shownTime, ackedTime>>
    BY <1>12 DEF Note
  <2>. QED
    BY <2>1 DEF AckedInv
<1>13. CASE SyncNotes
  <2>1. UNCHANGED <<copies, copiesSafe, shownTime, ackedTime>>
    BY <1>13 DEF SyncNotes
  <2>. QED
    BY <2>1 DEF AckedInv
<1>14. CASE NotesFail
  <2>1. UNCHANGED <<copies, copiesSafe, shownTime, ackedTime>>
    BY <1>14 DEF NotesFail
  <2>. QED
    BY <2>1 DEF AckedInv
<1>15. CASE CrashCatalog
  <2>. DEFINE p == copies["primary"]
              b == copies["backup"]
              ps == copiesSafe["primary"]
              bs == copiesSafe["backup"]
              n == refresh.next
  <2>1. p \in CatalogCopy /\ b \in CatalogCopy /\ ps \in CatalogCopy /\ bs \in CatalogCopy /\ n \in CatalogCopy
    BY DEF Copies, Refreshes
  <2>3. \A c \in Copies : copies[c] \in CatalogCopy /\ copiesSafe[c] \in CatalogCopy
    OBVIOUS
  <2>4. PICK x \in {copies["primary"], copiesSafe["primary"]}, y \in {copies["backup"], copiesSafe["backup"]} :
            copies' = [c \in Copies |-> IF c = "primary" THEN x ELSE y]
    BY <1>15 DEF CrashCatalog
  <2>5. x \in CatalogCopy /\ y \in CatalogCopy
    BY <2>3 DEF Copies
  <2>6. copies'["primary"] = x /\ copies'["backup"] = y /\ copiesSafe'["primary"] = x /\ copiesSafe'["backup"] = y
    BY <2>4, <1>15 DEF CrashCatalog, Copies
  <2>7. Held(x, y, x, y, ackedTime)
    BY <2>1, <2>4, HeldCrash DEF AckedInv, CatalogAssumption
  <2>. QED
    BY <2>6, <2>7, <1>15 DEF AckedInv, CrashCatalog
<1>16. CASE Rot
  <2>. DEFINE p == copies["primary"]
              b == copies["backup"]
              ps == copiesSafe["primary"]
              bs == copiesSafe["backup"]
              n == refresh.next
  <2>1. p \in CatalogCopy /\ b \in CatalogCopy /\ ps \in CatalogCopy /\ bs \in CatalogCopy /\ n \in CatalogCopy
    BY DEF Copies, Refreshes
  <2>2. CASE UNCHANGED <<copies, copiesSafe>>
    BY <2>2, <1>16 DEF AckedInv, Rot
  <2>3. CASE p = b /\ copiesSafe = copies /\ GoodCopies = Copies /\ copiesSafe' = copies' /\ \E c \in Copies : copies' = [copies EXCEPT ![c] = Bad]
    <3>1. Good(p)
      BY <2>3 DEF GoodCopies, Copies, Good
    <3>2. \/ copies'["primary"] = Bad /\ copies'["backup"] = p
          \/ copies'["primary"] = p /\ copies'["backup"] = Bad
      BY <2>3 DEF Copies
    <3>. QED
      BY <2>1, <2>3, <3>1, <3>2, CopyKinds, HeldRot, <1>16 DEF AckedInv, Rot, CatalogAssumption
  <2>. QED
    BY <1>16, <2>2, <2>3 DEF Rot
<1>. QED
  BY <1>1, <1>2, <1>3, <1>4, <1>5, <1>6, <1>7, <1>8, <1>9, <1>10, <1>11, <1>12, <1>13, <1>14, <1>15, <1>16 DEF CatalogNext

LEMMA CatalogStep == ASSUME CatalogAssumption, CatalogInv, [CatalogNext]_catalogVars PROVE CatalogInv'
<1>1. CASE CatalogNext
  BY <1>1, CatalogTypesStep, NotesInvStep, CopiesInvStep, WritingInvStep, AckedInvStep DEF CatalogInv
<1>2. CASE UNCHANGED catalogVars
  <2>1. CatalogTypes' /\ NotesInv'
    BY <1>2 DEF catalogVars, CatalogInv, CatalogTypes, NotesInv, CatalogFree
  <2>2. CopiesInv' /\ AckedInv'
    BY <1>2 DEF catalogVars, CatalogInv, CopiesInv, AckedInv
  <2>3. WritingInv'
    BY <1>2 DEF catalogVars, CatalogInv, WritingInv, Refreshing, Referenced
  <2>. QED
    BY <2>1, <2>2, <2>3 DEF CatalogInv
<1>. QED
  BY <1>1, <1>2

\* An acknowledged Locator stays in the best readable copy, the two copies never
\* contradict one another, and acknowledged observations stay in their file,
\* for any Projects, times and notes, whatever fails, crashes or rots.
THEOREM CatalogPromiseKept == ASSUME CatalogAssumption PROVE CatalogSpec => []CatalogKeepsWord
<1>1. ASSUME CatalogInv PROVE CatalogKeepsWord
  <2>1. /\ copies["primary"] \in CatalogCopy /\ copies["backup"] \in CatalogCopy
        /\ copiesSafe["primary"] \in CatalogCopy /\ copiesSafe["backup"] \in CatalogCopy
    BY <1>1 DEF CatalogInv, CatalogTypes, Copies
  <2>2. ~Disagree
    <3>. SUFFICES ASSUME Disagree PROVE FALSE
      OBVIOUS
    <3>1. Good(copies["primary"]) /\ Good(copies["backup"])
      BY DEF Disagree, GoodCopies, Good, Copies
    <3>. QED
      BY <1>1, <3>1 DEF CatalogInv, CopiesInv, CopiesFit, Disagree
  <2>3. LocatorStays
    <3>. SUFFICES ASSUME ackedTime # 0 PROVE Selected.time >= ackedTime
      BY <1>1 DEF CatalogInv, AckedInv, LocatorStays
    <3>1. Held(copies["primary"], copies["backup"], copiesSafe["primary"], copiesSafe["backup"], ackedTime)
      BY <1>1 DEF CatalogInv, AckedInv
    <3>2. CatalogTypes
      BY <1>1 DEF CatalogInv
    <3>. QED
      BY <2>1, <3>1, <3>2, SelectedCopy DEF Held, HeldAt, CatalogCopy
  <2>4. NotesStay
    BY <1>1 DEF CatalogInv, NotesInv, NotesStay
  <2>. QED
    BY <2>2, <2>3, <2>4 DEF CatalogKeepsWord, CopiesNeverDisagree
<1>. QED
  BY CatalogInitially, CatalogStep, <1>1, PTL DEF CatalogSpec

-----------------------------------------------------------------------------
(***************************************************************************)
(* LocalMedia.  Whatever crosses what, each handle has one owner until it  *)
(* is closed, and the bytes that are played are those that were chosen,    *)
(* for every number of generations, of handles and of operations.          *)
(***************************************************************************)

Ats == {"unused", "ended", "dialog", "consume", "open", "hashing", "task", "release", "mark",
        "stat", "bytes", "again", "served"}
MediaKinds == GenerationKinds \cup {"none", "range", "read"}
HandleStates == {"unused", "held", "failed", "closed"}
MediaOpType == [kind : MediaKinds, gen : Gens \cup {CHOOSE g \in Gens : TRUE}, at : Ats,
    held : SUBSET Handles, seen : Nat]
HandleType == [state : HandleStates, inode : 1..2, version : Nat]
Capability == [project : MediaProjects, handle : Handles]

MediaTypes ==
    /\ generation \in [Gens -> {"new", "active", "revoking", "revoked"}]
    /\ mediaOp \in [MediaOps -> MediaOpType]
    /\ handle \in [Handles -> HandleType]
    /\ selection \in [Gens -> Handles \cup {NoHandle}]
    /\ playback \in [Gens -> SUBSET Capability]
    /\ fileContent \in [1..2 -> Nat] /\ inode \in 1..2 /\ edits \in Nat
    /\ disposal \in {"no", "draining", "done"} /\ app \in {"running", "quit", "failed"}

\* How many handles an operation has at each of its points.
Single(hs) == \E h \in Handles : hs = {h}
Pair(hs) == \E h, k \in Handles : h # k /\ hs = {h, k}
ShapeOf(act) ==
    /\ act.at \in {"unused", "ended"} => act.kind = "none" /\ act.held = {}
    /\ act.at \notin {"unused", "ended"} => act.gen \in Gens /\ act.kind # "none"
    /\ act.at = "dialog" => act.kind \in {"pick", "relink"} /\ act.held = {}
    /\ act.at = "consume" => act.kind = "create" /\ act.held = {}
    /\ act.at = "open" => act.kind # "read" /\ (IF act.kind = "create" THEN Single(act.held) ELSE act.held = {})
    /\ act.at \in {"hashing", "task", "release"} =>
         act.kind # "read" /\ (IF act.kind = "create" THEN Pair(act.held) ELSE Single(act.held))
    /\ act.at \in {"task", "release"} => act.kind \in GenerationKinds
    /\ act.at = "mark" => act.kind = "play" /\ act.held = {}
    /\ act.at \in {"stat", "bytes", "again", "served"} => act.kind \in {"range", "read"} /\ Single(act.held)
ShapeInv == \A o \in MediaOps : ShapeOf(mediaOp[o]) /\ \A h \in mediaOp[o].held : handle[h].state # "unused"

\* Every handle that is held has one owner: an operation that is no reader, a
\* selection or a playback.
OwnedBy(o) == IF mediaOp[o].kind = "read" THEN {} ELSE mediaOp[o].held
OneOwner ==
    /\ \A o, q \in MediaOps : o # q => OwnedBy(o) \cap OwnedBy(q) = {}
    /\ \A o \in MediaOps, g \in Gens :
         selection[g] \notin OwnedBy(o) /\ \A e \in playback[g] : e.handle \notin OwnedBy(o)
    /\ \A g, k \in Gens : selection[g] = selection[k] /\ selection[g] # NoHandle => g = k
    /\ \A g, k \in Gens : \A e \in playback[g] :
         selection[k] # e.handle /\ \A f \in playback[k] : f.handle = e.handle => g = k /\ f = e
OwnersHold ==
    /\ \A o \in MediaOps : \A h \in OwnedBy(o) : handle[h].state = "held"
    /\ \A g \in Gens : selection[g] # NoHandle => handle[selection[g]].state = "held"
    /\ \A g \in Gens : \A e \in playback[g] : handle[e.handle].state = "held"
HeldAreOwned ==
    \A h \in Handles : handle[h].state = "held" =>
        \/ \E o \in MediaOps : h \in OwnedBy(o)
        \/ \E g \in Gens : selection[g] = h \/ \E e \in playback[g] : e.handle = h
OwnInv == OneOwner /\ OwnersHold /\ HeldAreOwned

QuietInv ==
    \A g \in Gens : generation[g] = "revoked" =>
        /\ selection[g] = NoHandle /\ playback[g] = {}
        /\ \A o \in MediaOps : mediaOp[o].gen = g => mediaOp[o].kind \notin GenerationKinds

\* Contents only get newer, so bytes read between two equal looks at the file
\* are of the version looked at.
VersionInv ==
    /\ \A i \in 1..2 : fileContent[i] <= edits
    /\ \A h \in Handles : handle[h].version <= fileContent[handle[h].inode]
    /\ \A o \in MediaOps : mediaOp[o].at \in {"again", "served"} => \A h \in mediaOp[o].held :
         handle[h].state # "closed" =>
           /\ handle[h].version <= mediaOp[o].seen /\ mediaOp[o].seen <= fileContent[handle[h].inode]
           /\ mediaOp[o].at = "served" => mediaOp[o].seen = handle[h].version
    /\ \A o \in MediaOps : mediaOp[o].kind = "create" /\ mediaOp[o].at \in {"task", "release"} =>
         \A h, k \in mediaOp[o].held : handle[h].inode = handle[k].inode
           /\ handle[h].version = handle[k].version

MediaInv == MediaTypes /\ ShapeInv /\ OwnInv /\ QuietInv /\ CleanQuit /\ VersionInv

\* The other operations stay as they are.
OnlyOp(o) == \A q \in MediaOps : q # o => mediaOp'[q] = mediaOp[q]
\* No handle but a new one is opened, and one that is closed stays closed.
HandlesGoOn ==
    \A h \in Handles :
       /\ handle'[h].state = "unused" => handle[h].state = "unused"
       /\ handle[h].state = "closed" => handle'[h].state = "closed"
       /\ handle[h].state # "unused" /\ handle'[h].state # "closed" =>
            handle'[h].version = handle[h].version /\ handle'[h].inode = handle[h].inode

LEMMA CloseIs ==
    ASSUME MediaTypes, NEW hs \in SUBSET Handles, NEW bad, Close(hs, bad)
    PROVE  /\ handle' \in [Handles -> HandleType]
           /\ \A h \in Handles \ hs : handle'[h] = handle[h]
           /\ \A h \in hs : handle'[h].state # "held"
           /\ \A h \in Handles : handle'[h].state = "closed"
                \/ (handle'[h].version = handle[h].version /\ handle'[h].inode = handle[h].inode)
           /\ \A h \in Handles : handle'[h].version = 0
                \/ (handle'[h].version = handle[h].version /\ handle'[h].inode = handle[h].inode)
           /\ bad = {} => \A h \in Handles : handle'[h].state = "failed" => handle[h].state = "failed" /\ h \notin hs
           /\ HandlesGoOn
<1>1. handle' = [h \in Handles |->
          IF h \in hs /\ handle[h].state \in {"held", "failed"}
          THEN IF h \in bad THEN [handle[h] EXCEPT !.state = "failed"]
               ELSE [state |-> "closed", inode |-> 1, version |-> 0]
          ELSE handle[h]]
  BY DEF Close
<1>2. handle' \in [Handles -> HandleType]
  BY <1>1 DEF MediaTypes, HandleType, HandleStates
<1>3. \A h \in Handles : handle'[h] = IF h \in hs /\ handle[h].state \in {"held", "failed"}
          THEN IF h \in bad THEN [handle[h] EXCEPT !.state = "failed"]
               ELSE [state |-> "closed", inode |-> 1, version |-> 0]
          ELSE handle[h]
  BY <1>1
<1>4. \A h \in Handles : handle[h] \in HandleType
  BY DEF MediaTypes
<1>. QED
  <2>. SUFFICES ASSUME NEW h \in Handles
                PROVE  /\ h \notin hs => handle'[h] = handle[h]
                       /\ h \in hs => handle'[h].state # "held"
                       /\ handle'[h].state = "closed"
                            \/ (handle'[h].version = handle[h].version /\ handle'[h].inode = handle[h].inode)
                       /\ handle'[h].version = 0
                            \/ (handle'[h].version = handle[h].version /\ handle'[h].inode = handle[h].inode)
                       /\ bad = {} => (handle'[h].state = "failed" => handle[h].state = "failed" /\ h \notin hs)
                       /\ handle'[h].state = "unused" => handle[h].state = "unused"
                       /\ handle[h].state = "closed" => handle'[h].state = "closed"
    BY <1>2 DEF HandlesGoOn
  <2>1. CASE ~(h \in hs /\ handle[h].state \in {"held", "failed"})
    BY <1>3, <1>4, <2>1 DEF HandleType, HandleStates
  <2>2. CASE h \in hs /\ handle[h].state \in {"held", "failed"} /\ h \in bad
    <3>1. handle'[h] = [handle[h] EXCEPT !.state = "failed"]
      BY <1>3, <2>2
    <3>. QED
      BY <1>4, <2>2, <3>1 DEF HandleType
  <2>3. CASE h \in hs /\ handle[h].state \in {"held", "failed"} /\ h \notin bad
    <3>1. handle'[h] = [state |-> "closed", inode |-> 1, version |-> 0]
      BY <1>3, <2>3
    <3>. QED
      <4>1. handle'[h].state = "closed" /\ handle'[h].version = 0
        BY <3>1
      <4>. QED
        BY <2>3, <4>1
  <2>. QED
    BY <2>1, <2>2, <2>3

LEMMA EndedIs ==
    ASSUME MediaTypes, NEW o \in MediaOps, mediaOp' = Ended(o)
    PROVE  /\ mediaOp' \in [MediaOps -> MediaOpType] /\ OnlyOp(o)
           /\ mediaOp'[o].kind = "none" /\ mediaOp'[o].at = "ended" /\ mediaOp'[o].held = {}
           /\ mediaOp'[o].gen = (CHOOSE g \in Gens : TRUE)
<1>1. [Idle EXCEPT !.at = "ended"] = [kind |-> "none", gen |-> CHOOSE g \in Gens : TRUE, at |-> "ended",
        held |-> {}, seen |-> 0]
  <2>. DEFINE first == CHOOSE g \in Gens : TRUE
  <2>1. Idle = [kind |-> "none", gen |-> first, at |-> "unused", held |-> {}, seen |-> 0]
    BY DEF Idle
  <2>. HIDE DEF first
  <2>2. [Idle EXCEPT !.at = "ended"] = [kind |-> "none", gen |-> first, at |-> "ended", held |-> {}, seen |-> 0]
    BY <2>1
  <2>. QED
    BY <2>2 DEF first
<1>2. [Idle EXCEPT !.at = "ended"] \in MediaOpType
  BY <1>1 DEF MediaOpType, MediaKinds, Ats
<1>. QED
  BY <1>1, <1>2 DEF Ended, MediaTypes, OnlyOp

LEMMA StepIs ==
    ASSUME MediaTypes, NEW o \in MediaOps, NEW a \in Ats, Step(o, a)
    PROVE  /\ mediaOp' \in [MediaOps -> MediaOpType] /\ OnlyOp(o)
           /\ mediaOp'[o].at = a /\ mediaOp'[o].kind = mediaOp[o].kind /\ mediaOp'[o].gen = mediaOp[o].gen
           /\ mediaOp'[o].held = mediaOp[o].held /\ mediaOp'[o].seen = mediaOp[o].seen
  BY DEF Step, MediaTypes, MediaOpType, OnlyOp

LEMMA ShapeStep ==
    ASSUME MediaTypes, ShapeInv, NEW o \in MediaOps, OnlyOp(o), ShapeOf(mediaOp'[o]), HandlesGoOn,
           mediaOp'[o].held \subseteq Handles, \A h \in mediaOp'[o].held : handle'[h].state # "unused"
    PROVE  ShapeInv'
<1>1. \A q \in MediaOps : mediaOp[q].held \subseteq Handles
  BY DEF MediaTypes, MediaOpType
<1>2. ASSUME NEW q \in MediaOps PROVE ShapeOf(mediaOp'[q]) /\ \A h \in mediaOp'[q].held : handle'[h].state # "unused"
  BY <1>1, <1>2 DEF ShapeInv, OnlyOp, HandlesGoOn
<1>. QED
  BY <1>2 DEF ShapeInv

\* What happens to an owner when a set of handles is closed that it owns whole,
\* or no part of.
LEMMA OwnersShrink ==
    ASSUME MediaTypes, OwnInv, NEW hs \in SUBSET Handles,
           \A h \in Handles \ hs : handle'[h].state = handle[h].state,
           \A h \in hs : handle'[h].state # "held",
           \A o \in MediaOps : OwnedBy(o)' = OwnedBy(o) \ hs,
           \A g \in Gens : selection'[g] = IF selection[g] \in hs THEN NoHandle ELSE selection[g],
           \A g \in Gens : playback'[g] = {e \in playback[g] : e.handle \notin hs}
    PROVE  OwnInv'
<1>0. /\ \A g \in Gens : selection[g] \in Handles \cup {NoHandle} /\ playback[g] \subseteq Capability
      /\ \A o \in MediaOps : OwnedBy(o) \subseteq Handles
      /\ NoHandle \notin Handles
  BY DEF MediaTypes, MediaOpType, OwnedBy, Handles, NoHandle
<1>1. OneOwner'
  <2>1. \A o, q \in MediaOps : o # q => OwnedBy(o)' \cap OwnedBy(q)' = {}
    BY DEF OwnInv, OneOwner
  <2>2. ASSUME NEW o \in MediaOps, NEW g \in Gens
        PROVE  selection'[g] \notin OwnedBy(o)' /\ \A e \in playback'[g] : e.handle \notin OwnedBy(o)'
    BY <1>0 DEF OwnInv, OneOwner
  <2>3. \A g, k \in Gens : selection'[g] = selection'[k] /\ selection'[g] # NoHandle => g = k
    BY DEF OwnInv, OneOwner
  <2>4. ASSUME NEW g \in Gens, NEW k \in Gens, NEW e \in playback'[g]
        PROVE  selection'[k] # e.handle /\ \A f \in playback'[k] : f.handle = e.handle => g = k /\ f = e
    <3>1. e \in playback[g] /\ e.handle \in Handles
      BY <1>0 DEF Capability
    <3>. QED
      BY <1>0, <3>1 DEF OwnInv, OneOwner
  <2>. QED
    BY <2>1, <2>2, <2>3, <2>4 DEF OneOwner
<1>2. OwnersHold'
  <2>1. \A o \in MediaOps : \A h \in OwnedBy(o)' : handle'[h].state = "held"
    BY <1>0 DEF OwnInv, OwnersHold
  <2>2. \A g \in Gens : selection'[g] # NoHandle => handle'[selection'[g]].state = "held"
    BY <1>0 DEF OwnInv, OwnersHold
  <2>3. \A g \in Gens : \A e \in playback'[g] : handle'[e.handle].state = "held"
    BY <1>0 DEF OwnInv, OwnersHold, Capability
  <2>. QED
    BY <2>1, <2>2, <2>3 DEF OwnersHold
<1>3. HeldAreOwned'
  <2>. SUFFICES ASSUME NEW h \in Handles, handle'[h].state = "held"
                PROVE  \/ \E o \in MediaOps : h \in OwnedBy(o)'
                       \/ \E g \in Gens : selection'[g] = h \/ \E e \in playback'[g] : e.handle = h
    BY DEF HeldAreOwned
  <2>1. h \notin hs /\ handle[h].state = "held"
    OBVIOUS
  <2>2. CASE \E o \in MediaOps : h \in OwnedBy(o)
    BY <2>1, <2>2
  <2>3. CASE \E g \in Gens : selection[g] = h \/ \E e \in playback[g] : e.handle = h
    BY <2>1, <2>3
  <2>. QED
    BY <2>1, <2>2, <2>3 DEF OwnInv, HeldAreOwned
<1>. QED
  BY <1>1, <1>2, <1>3 DEF OwnInv

\* The same when the handles that failed to close are closed with those of one
\* operation, which has nothing any more.
LEMMA OwnersOfOp ==
    ASSUME MediaTypes, OwnInv, NEW o \in MediaOps, OnlyOp(o), OwnedBy(o)' = {},
           UNCHANGED entryVars, NEW hs \in SUBSET Handles, NEW bad, Close(hs, bad),
           OwnedBy(o) \subseteq hs, hs \subseteq OwnedBy(o) \cup Failed
    PROVE  OwnInv'
<1>0. \A h \in Failed : handle[h].state # "held"
  BY DEF Failed
<1>1. \A q \in MediaOps : OwnedBy(q)' = OwnedBy(q) \ hs
  <2>1. ASSUME NEW q \in MediaOps, q # o PROVE OwnedBy(q)' = OwnedBy(q)
    BY <2>1 DEF OwnedBy, OnlyOp
  <2>2. ASSUME NEW q \in MediaOps, q # o PROVE OwnedBy(q) \cap hs = {}
    BY <2>2, <1>0 DEF OwnInv, OneOwner, OwnersHold
  <2>. QED
    BY <2>1, <2>2
<1>2. \A g \in Gens : selection[g] \notin hs
  <2>1. \A g \in Gens : selection[g] \notin OwnedBy(o)
    BY DEF OwnInv, OneOwner
  <2>2. \A g \in Gens : selection[g] \in Failed => FALSE
    BY <1>0 DEF OwnInv, OwnersHold, Failed, Handles, NoHandle
  <2>. QED
    BY <2>1, <2>2
<1>3. \A g \in Gens : \A e \in playback[g] : e.handle \notin hs
  BY <1>0 DEF OwnInv, OneOwner, OwnersHold
<1>. QED
  <2>1. \A g \in Gens : playback'[g] = {e \in playback[g] : e.handle \notin hs}
    BY <1>3 DEF entryVars
  <2>2. \A g \in Gens : selection'[g] = IF selection[g] \in hs THEN NoHandle ELSE selection[g]
    BY <1>2 DEF entryVars
  <2>3. /\ \A h \in Handles \ hs : handle'[h].state = handle[h].state
        /\ \A h \in hs : handle'[h].state # "held"
    BY CloseIs
  <2>. QED
    BY <1>1, <2>1, <2>2, <2>3, OwnersShrink

LEMMA OwnersStay ==
    ASSUME MediaTypes, OwnInv, UNCHANGED <<handle, entryVars>>, \A o \in MediaOps : OwnedBy(o)' = OwnedBy(o)
    PROVE  OwnInv'
<1>. DEFINE hs == {}
<1>1. hs \in SUBSET Handles /\ \A h \in Handles \ hs : handle'[h].state = handle[h].state
  OBVIOUS
<1>2. \A h \in hs : handle'[h].state # "held"
  OBVIOUS
<1>3. /\ \A g \in Gens : selection'[g] = IF selection[g] \in hs THEN NoHandle ELSE selection[g]
      /\ \A g \in Gens : playback'[g] = {e \in playback[g] : e.handle \notin hs}
      /\ \A o \in MediaOps : OwnedBy(o)' = OwnedBy(o) \ hs
  BY DEF entryVars
<1>. HIDE DEF hs
<1>. QED
  BY <1>1, <1>2, <1>3, OwnersShrink

\* Versions hold on while the file is as it was; only an operation that has
\* just read is looked at.
LEMMA VersionsStay ==
    ASSUME MediaTypes, ShapeInv, VersionInv, NEW o \in MediaOps, OnlyOp(o), UNCHANGED fileVars, HandlesGoOn,
           \A h \in Handles : handle'[h].version <= fileContent[handle'[h].inode],
           handle' \in [Handles -> HandleType],
           OwnInv',
           mediaOp'[o].at \in {"again", "served"} => \A h \in mediaOp'[o].held : handle'[h].state # "closed" =>
             /\ handle'[h].version <= mediaOp'[o].seen /\ mediaOp'[o].seen <= fileContent[handle'[h].inode]
             /\ mediaOp'[o].at = "served" => mediaOp'[o].seen = handle'[h].version,
           mediaOp'[o].kind = "create" /\ mediaOp'[o].at \in {"task", "release"} =>
             \A h, k \in mediaOp'[o].held : handle'[h].inode = handle'[k].inode
               /\ handle'[h].version = handle'[k].version
    PROVE  VersionInv'
<1>0. /\ fileContent' = fileContent /\ edits' = edits /\ fileContent \in [1..2 -> Nat]
      /\ \A q \in MediaOps : mediaOp[q].held \subseteq Handles
      /\ \A h \in Handles : handle'[h].inode \in 1..2 /\ handle'[h].version \in Nat
  BY DEF fileVars, MediaTypes, MediaOpType, HandleType
<1>1. \A i \in 1..2 : fileContent'[i] <= edits'
  BY <1>0 DEF VersionInv
<1>2. \A h \in Handles : handle'[h].version <= fileContent'[handle'[h].inode]
  BY <1>0
<1>3. ASSUME NEW q \in MediaOps, mediaOp'[q].at \in {"again", "served"}, NEW h \in mediaOp'[q].held,
               handle'[h].state # "closed"
      PROVE  /\ handle'[h].version <= mediaOp'[q].seen /\ mediaOp'[q].seen <= fileContent'[handle'[h].inode]
             /\ mediaOp'[q].at = "served" => mediaOp'[q].seen = handle'[h].version
  <2>1. CASE q = o
    BY <1>3, <2>1, <1>0
  <2>2. CASE q # o
    <3>1. mediaOp'[q] = mediaOp[q] /\ h \in Handles /\ handle[h].state # "unused" /\ handle[h].state # "closed"
      BY <1>3, <2>2, <1>0 DEF OnlyOp, ShapeInv, HandlesGoOn
    <3>. QED
      BY <1>3, <3>1, <1>0 DEF HandlesGoOn, VersionInv
  <2>. QED
    BY <2>1, <2>2
<1>4. ASSUME NEW q \in MediaOps, mediaOp'[q].kind = "create", mediaOp'[q].at \in {"task", "release"},
             NEW h \in mediaOp'[q].held, NEW k \in mediaOp'[q].held
      PROVE  handle'[h].inode = handle'[k].inode /\ handle'[h].version = handle'[k].version
  <2>1. CASE q = o
    BY <1>4, <2>1
  <2>2. CASE q # o
    <3>1. mediaOp'[q] = mediaOp[q] /\ h \in Handles /\ k \in Handles
          /\ handle[h].state # "unused" /\ handle[k].state # "unused"
      BY <1>4, <2>2, <1>0 DEF OnlyOp, ShapeInv
    <3>2. handle'[h].state = "held" /\ handle'[k].state = "held"
      BY <1>4 DEF OwnInv, OwnersHold, OwnedBy
    <3>3. handle'[h].version = handle[h].version /\ handle'[h].inode = handle[h].inode
          /\ handle'[k].version = handle[k].version /\ handle'[k].inode = handle[k].inode
      BY <3>1, <3>2 DEF HandlesGoOn
    <3>. QED
      BY <1>4, <3>1, <3>3 DEF VersionInv
  <2>. QED
    BY <2>1, <2>2
<1>. QED
  BY <1>1, <1>2, <1>3, <1>4 DEF VersionInv

LEMMA OpStep ==
    ASSUME MediaInv, app = "running", NEW o \in MediaOps, OnlyOp(o),
             UNCHANGED <<generation, fileVars, disposal, app>>,
           mediaOp' \in [MediaOps -> MediaOpType], handle' \in [Handles -> HandleType],
           selection' \in [Gens -> Handles \cup {NoHandle}], playback' \in [Gens -> SUBSET Capability],
           ShapeOf(mediaOp'[o]), \A h \in mediaOp'[o].held : handle'[h].state # "unused",
           HandlesGoOn, OwnInv',
           \A h \in Handles : handle'[h].version <= fileContent[handle'[h].inode],
           mediaOp'[o].at \in {"again", "served"} => \A h \in mediaOp'[o].held : handle'[h].state # "closed" =>
             /\ handle'[h].version <= mediaOp'[o].seen /\ mediaOp'[o].seen <= fileContent[handle'[h].inode]
             /\ mediaOp'[o].at = "served" => mediaOp'[o].seen = handle'[h].version,
           mediaOp'[o].kind = "create" /\ mediaOp'[o].at \in {"task", "release"} =>
             \A h, k \in mediaOp'[o].held : handle'[h].inode = handle'[k].inode
               /\ handle'[h].version = handle'[k].version,
           \A g \in Gens : generation[g] = "revoked" => selection'[g] = NoHandle /\ playback'[g] = {},
           mediaOp'[o].kind \in GenerationKinds => generation[mediaOp'[o].gen] # "revoked"
    PROVE  MediaInv'
<1>1. MediaTypes'
  BY DEF MediaInv, MediaTypes, fileVars
<1>2. ShapeInv'
  <2>1. mediaOp'[o].held \subseteq Handles
    BY DEF MediaOpType
  <2>. QED
    BY <2>1, ShapeStep DEF MediaInv
<1>3. VersionInv'
  BY VersionsStay DEF MediaInv
<1>4. QuietInv'
  <2>. SUFFICES ASSUME NEW g \in Gens, generation[g] = "revoked", NEW q \in MediaOps, mediaOp'[q].gen = g
                PROVE  mediaOp'[q].kind \notin GenerationKinds
    BY DEF QuietInv
  <2>1. CASE q = o
    BY <2>1
  <2>2. CASE q # o
    BY <2>2 DEF OnlyOp, MediaInv, QuietInv
  <2>. QED
    BY <2>1, <2>2
<1>5. CleanQuit'
  BY DEF CleanQuit
<1>. QED
  BY <1>1, <1>2, <1>3, <1>4, <1>5 DEF MediaInv

\* Steps that leave every handle and every capability as they are.
LEMMA OpMoves ==
    ASSUME MediaInv, app = "running", NEW o \in MediaOps, OnlyOp(o),
           UNCHANGED <<generation, handle, entryVars, fileVars, disposal, app>>,
           mediaOp' \in [MediaOps -> MediaOpType], ShapeOf(mediaOp'[o]), OwnedBy(o)' = OwnedBy(o),
           \A h \in mediaOp'[o].held : handle[h].state # "unused",
           mediaOp'[o].at \in {"again", "served"} => \A h \in mediaOp'[o].held : handle[h].state # "closed" =>
             /\ handle[h].version <= mediaOp'[o].seen /\ mediaOp'[o].seen <= fileContent[handle[h].inode]
             /\ mediaOp'[o].at = "served" => mediaOp'[o].seen = handle[h].version,
           mediaOp'[o].kind = "create" /\ mediaOp'[o].at \in {"task", "release"} =>
             \A h, k \in mediaOp'[o].held : handle[h].inode = handle[k].inode
               /\ handle[h].version = handle[k].version,
           mediaOp'[o].kind \in GenerationKinds => generation[mediaOp'[o].gen] # "revoked"
    PROVE  MediaInv'
<1>1. HandlesGoOn
  BY DEF HandlesGoOn
<1>2. OwnInv'
  <2>1. \A q \in MediaOps : OwnedBy(q)' = OwnedBy(q)
    BY DEF OwnedBy, OnlyOp
  <2>. QED
    BY <2>1, OwnersStay DEF MediaInv
<1>3. /\ handle' \in [Handles -> HandleType] /\ selection' \in [Gens -> Handles \cup {NoHandle}]
      /\ playback' \in [Gens -> SUBSET Capability]
  BY DEF MediaInv, MediaTypes, entryVars
<1>4. \A h \in Handles : handle'[h].version <= fileContent[handle'[h].inode]
  BY DEF MediaInv, VersionInv
<1>5. \A g \in Gens : generation[g] = "revoked" => selection'[g] = NoHandle /\ playback'[g] = {}
  BY DEF MediaInv, QuietInv, entryVars
<1>. QED
  BY <1>1, <1>2, <1>3, <1>4, <1>5, OpStep

\* An operation ends: the handles it owned are closed, and perhaps those whose
\* close had failed.
LEMMA OpCloses ==
    ASSUME MediaInv, app = "running", NEW o \in MediaOps, OnlyOp(o),
           UNCHANGED <<generation, entryVars, fileVars, disposal, app>>,
           mediaOp' \in [MediaOps -> MediaOpType], ShapeOf(mediaOp'[o]), mediaOp'[o].held = {},
           mediaOp'[o].kind \in GenerationKinds => generation[mediaOp'[o].gen] # "revoked",
           NEW hs \in SUBSET Handles, NEW bad, Close(hs, bad),
           OwnedBy(o) \subseteq hs, hs \subseteq OwnedBy(o) \cup Failed
    PROVE  MediaInv'
<1>0. MediaTypes /\ OwnInv
  BY DEF MediaInv
<1>1. /\ handle' \in [Handles -> HandleType] /\ HandlesGoOn
      /\ \A h \in Handles : handle'[h].version = 0
           \/ (handle'[h].version = handle[h].version /\ handle'[h].inode = handle[h].inode)
  BY <1>0, CloseIs
<1>2. OwnInv'
  <2>1. OwnedBy(o)' = {}
    BY DEF OwnedBy
  <2>. QED
    BY <1>0, <2>1, OwnersOfOp
<1>3. /\ selection' \in [Gens -> Handles \cup {NoHandle}] /\ playback' \in [Gens -> SUBSET Capability]
      /\ \A g \in Gens : generation[g] = "revoked" => selection'[g] = NoHandle /\ playback'[g] = {}
  BY DEF MediaInv, MediaTypes, QuietInv, entryVars
<1>4. \A h \in Handles : handle'[h].version <= fileContent[handle'[h].inode]
  <2>1. \A h \in Handles : handle'[h].inode \in 1..2
    BY <1>1 DEF HandleType
  <2>2. \A i \in 1..2 : fileContent[i] \in Nat
    BY DEF MediaInv, MediaTypes
  <2>. QED
    BY <1>1, <2>1, <2>2 DEF MediaInv, VersionInv
<1>. QED
  BY <1>1, <1>2, <1>3, <1>4, OpStep

LEMMA Ending ==
    ASSUME MediaInv, NEW o \in MediaOps, mediaOp' = Ended(o)
    PROVE  /\ OnlyOp(o) /\ mediaOp' \in [MediaOps -> MediaOpType] /\ ShapeOf(mediaOp'[o])
           /\ mediaOp'[o].held = {} /\ mediaOp'[o].kind \notin GenerationKinds /\ mediaOp'[o].at = "ended"
<1>1. /\ mediaOp' \in [MediaOps -> MediaOpType] /\ OnlyOp(o)
      /\ mediaOp'[o].kind = "none" /\ mediaOp'[o].at = "ended" /\ mediaOp'[o].held = {}
  BY EndedIs DEF MediaInv
<1>. QED
  BY <1>1 DEF ShapeOf, GenerationKinds

LEMMA OpDrops ==
    ASSUME MediaInv, app = "running", NEW o \in MediaOps, mediaOp[o].kind # "read", Drop(o),
           UNCHANGED <<generation, entryVars, fileVars, disposal, app>>
    PROVE  MediaInv'
<1>1. PICK bad \in SUBSET mediaOp[o].held : Close(mediaOp[o].held, bad) /\ mediaOp' = Ended(o)
  BY DEF Drop
<1>2. OwnedBy(o) = mediaOp[o].held /\ mediaOp[o].held \subseteq Handles
  BY DEF OwnedBy, MediaInv, MediaTypes, MediaOpType
<1>3. /\ OnlyOp(o) /\ mediaOp' \in [MediaOps -> MediaOpType] /\ ShapeOf(mediaOp'[o])
      /\ mediaOp'[o].held = {} /\ mediaOp'[o].kind \notin GenerationKinds
  BY <1>1, Ending
<1>. QED
  BY <1>1, <1>2, <1>3, OpCloses

\* What an operation owns belongs to a generation that is not revoked.
LEMMA OpIs ==
    ASSUME MediaInv, NEW o \in MediaOps
    PROVE  /\ mediaOp[o] \in MediaOpType /\ ShapeOf(mediaOp[o]) /\ mediaOp[o].held \subseteq Handles
           /\ \A h \in mediaOp[o].held : handle[h].state # "unused"
           /\ mediaOp[o].kind \in GenerationKinds => generation[mediaOp[o].gen] # "revoked"
<1>1. mediaOp[o] \in MediaOpType /\ mediaOp[o].held \subseteq Handles
  BY DEF MediaInv, MediaTypes, MediaOpType
<1>2. ShapeOf(mediaOp[o]) /\ \A h \in mediaOp[o].held : handle[h].state # "unused"
  BY DEF MediaInv, ShapeInv
<1>3. mediaOp[o].kind \in GenerationKinds => generation[mediaOp[o].gen] # "revoked"
  <2>1. mediaOp[o].kind \in GenerationKinds => mediaOp[o].gen \in Gens
    BY <1>2 DEF ShapeOf, GenerationKinds
  <2>. QED
    BY <2>1 DEF MediaInv, QuietInv
<1>. QED
  BY <1>1, <1>2, <1>3

-----------------------------------------------------------------------------
LEMMA PickStep == ASSUME MediaInv, app = "running", NEW o \in MediaOps, Pick(o) PROVE MediaInv'
<1>1. ShapeOf(mediaOp[o]) /\ mediaOp[o].at = "dialog"
        /\ (mediaOp[o].kind \in GenerationKinds => generation[mediaOp[o].gen] # "revoked")
  BY OpIs DEF Pick
<1>2. mediaOp[o].held = {} /\ mediaOp[o].kind \in {"pick", "relink"} /\ mediaOp[o].gen \in Gens
  BY <1>1 DEF ShapeOf
<1>3. CASE Step(o, "open")
  <2>1. /\ mediaOp' \in [MediaOps -> MediaOpType] /\ OnlyOp(o)
        /\ mediaOp'[o].at = "open" /\ mediaOp'[o].kind = mediaOp[o].kind /\ mediaOp'[o].gen = mediaOp[o].gen
        /\ mediaOp'[o].held = mediaOp[o].held
    BY <1>3, StepIs DEF MediaInv, Ats
  <2>2. ShapeOf(mediaOp'[o]) /\ OwnedBy(o)' = OwnedBy(o)
    BY <1>2, <2>1 DEF ShapeOf, OwnedBy
  <2>. QED
    BY <1>1, <1>2, <2>1, <2>2, OpMoves DEF Pick, GenerationKinds
<1>4. CASE mediaOp' = Ended(o)
  <2>1. /\ OnlyOp(o) /\ mediaOp' \in [MediaOps -> MediaOpType] /\ ShapeOf(mediaOp'[o])
        /\ mediaOp'[o].held = {} /\ mediaOp'[o].kind \notin GenerationKinds /\ mediaOp'[o].at = "ended"
    BY <1>4, Ending
  <2>2. OwnedBy(o)' = OwnedBy(o)
    BY <1>2, <2>1 DEF OwnedBy
  <2>. QED
    BY <2>1, <2>2, OpMoves DEF Pick
<1>. QED
  BY <1>3, <1>4 DEF Pick

LEMMA BeginMediaStep ==
    ASSUME MediaInv, app = "running", NEW o \in MediaOps, NEW kind \in GenerationKinds \cup {"range"}, NEW g \in Gens,
           BeginMedia(o, kind, g)
    PROVE  MediaInv'
<1>. DEFINE at == CASE kind \in {"pick", "relink"} -> "dialog" [] kind = "create" -> "consume" [] OTHER -> "open"
<1>1. mediaOp[o] \in MediaOpType /\ mediaOp[o].kind = "none" /\ mediaOp[o].held = {}
  BY OpIs DEF BeginMedia, ShapeOf
<1>2. mediaOp' = [mediaOp EXCEPT ![o] = [@ EXCEPT !.kind = kind, !.gen = g, !.at = at]]
  BY DEF BeginMedia
<1>3. at \in {"dialog", "consume", "open"} /\ (at = "dialog" <=> kind \in {"pick", "relink"})
        /\ (at = "consume" <=> kind = "create")
  BY DEF GenerationKinds
<1>. HIDE DEF at
<1>4. /\ mediaOp'[o] = [mediaOp[o] EXCEPT !.kind = kind, !.gen = g, !.at = at] /\ OnlyOp(o)
      /\ mediaOp \in [MediaOps -> MediaOpType]
  BY <1>2 DEF MediaInv, MediaTypes, OnlyOp
<1>5. /\ mediaOp'[o].kind = kind /\ mediaOp'[o].gen = g /\ mediaOp'[o].at = at /\ mediaOp'[o].held = {}
      /\ mediaOp'[o] \in MediaOpType
  BY <1>1, <1>3, <1>4 DEF MediaOpType, MediaKinds, Ats
<1>6. mediaOp' \in [MediaOps -> MediaOpType]
  BY <1>2, <1>4, <1>5
<1>7. ShapeOf(mediaOp'[o])
  BY <1>3, <1>5 DEF ShapeOf, GenerationKinds
<1>8. OwnedBy(o)' = OwnedBy(o)
  BY <1>1, <1>5 DEF OwnedBy
<1>9. kind \in GenerationKinds => generation[g] # "revoked"
  BY DEF BeginMedia, Alive
<1>. QED
  BY <1>3, <1>4, <1>5, <1>6, <1>7, <1>8, <1>9, OpMoves DEF BeginMedia

LEMMA BeginReadStep ==
    ASSUME MediaInv, app = "running", NEW o \in MediaOps, NEW g \in Gens, BeginRead(o, g)
    PROVE  MediaInv'
<1>1. mediaOp[o].kind = "none" /\ mediaOp[o].held = {}
  BY OpIs DEF BeginRead, ShapeOf
<1>2. PICK e \in playback[g] :
         mediaOp' = [mediaOp EXCEPT ![o] = [kind |-> "read", gen |-> g, at |-> "stat", held |-> {e.handle},
           seen |-> 0]]
  BY DEF BeginRead
<1>3. e.handle \in Handles /\ handle[e.handle].state = "held"
  BY DEF MediaInv, MediaTypes, Capability, OwnInv, OwnersHold
<1>. DEFINE r == [kind |-> "read", gen |-> g, at |-> "stat", held |-> {e.handle}, seen |-> 0]
<1>4. r \in MediaOpType
  BY <1>3 DEF MediaOpType, MediaKinds, Ats
<1>5. r.kind = "read" /\ r.gen = g /\ r.at = "stat" /\ r.held = {e.handle}
  OBVIOUS
<1>6. mediaOp' = [mediaOp EXCEPT ![o] = r]
  BY <1>2
<1>. HIDE DEF r
<1>7. mediaOp'[o] = r /\ OnlyOp(o) /\ mediaOp' \in [MediaOps -> MediaOpType]
  BY <1>4, <1>6 DEF MediaInv, MediaTypes, OnlyOp
<1>8. ShapeOf(mediaOp'[o])
  BY <1>3, <1>5, <1>7 DEF ShapeOf, Single
<1>9. OwnedBy(o)' = OwnedBy(o)
  BY <1>1, <1>5, <1>7 DEF OwnedBy
<1>. QED
  BY <1>3, <1>5, <1>7, <1>8, <1>9, OpMoves DEF BeginRead, GenerationKinds

LEMMA ConsumeStep == ASSUME MediaInv, app = "running", NEW o \in MediaOps, Consume(o) PROVE MediaInv'
<1>. DEFINE g == mediaOp[o].gen
<1>0. mediaOp[o].kind = "create" /\ mediaOp[o].held = {} /\ g \in Gens /\ generation[g] # "revoked"
  BY OpIs DEF Consume, ShapeOf, GenerationKinds
<1>1. CASE Alive(g) /\ selection[g] # NoHandle
  <2>1. /\ mediaOp' = [mediaOp EXCEPT ![o].at = "open", ![o].held = {selection[g]}]
        /\ selection' = [selection EXCEPT ![g] = NoHandle] /\ UNCHANGED <<handle, playback>>
    BY <1>1 DEF Consume
  <2>2. selection[g] \in Handles /\ handle[selection[g]].state = "held"
          /\ selection \in [Gens -> Handles \cup {NoHandle}]
    BY <1>0, <1>1 DEF MediaInv, MediaTypes, OwnInv, OwnersHold
  <2>3. /\ mediaOp' \in [MediaOps -> MediaOpType] /\ OnlyOp(o) /\ mediaOp'[o].at = "open"
        /\ mediaOp'[o].held = {selection[g]} /\ mediaOp'[o].kind = "create" /\ mediaOp'[o].gen = g
    <3>. DEFINE s == selection[g]
    <3>1. mediaOp' = [mediaOp EXCEPT ![o].at = "open", ![o].held = {s}] /\ {s} \in SUBSET Handles
      BY <2>1, <2>2
    <3>2. mediaOp \in [MediaOps -> MediaOpType] /\ mediaOp[o] \in MediaOpType
      BY DEF MediaInv, MediaTypes
    <3>. HIDE DEF s
    <3>3. mediaOp'[o] = [mediaOp[o] EXCEPT !.at = "open", !.held = {s}] /\ OnlyOp(o)
      BY <3>1, <3>2 DEF OnlyOp
    <3>4. mediaOp'[o] \in MediaOpType /\ mediaOp'[o].at = "open" /\ mediaOp'[o].held = {s}
          /\ mediaOp'[o].kind = mediaOp[o].kind /\ mediaOp'[o].gen = mediaOp[o].gen
      BY <3>1, <3>2, <3>3 DEF MediaOpType, Ats
    <3>5. mediaOp' \in [MediaOps -> MediaOpType]
      BY <3>1, <3>2, <3>4
    <3>. QED
      BY <1>0, <3>3, <3>4, <3>5 DEF s
  <2>4. ShapeOf(mediaOp'[o])
    BY <1>0, <2>2, <2>3 DEF ShapeOf, Single
  <2>5. OwnInv'
    <3>0. /\ OwnedBy(o)' = {selection[g]} /\ OwnedBy(o) = {} /\ \A q \in MediaOps : q # o
               => OwnedBy(q)' = OwnedBy(q)
          /\ selection'[g] = NoHandle /\ \A k \in Gens : k # g => selection'[k] = selection[k]
      BY <1>0, <2>1, <2>2, <2>3 DEF OwnedBy, OnlyOp
    <3>1. \A q \in MediaOps : NoHandle \notin OwnedBy(q)
      BY DEF MediaInv, MediaTypes, MediaOpType, OwnedBy, Handles, NoHandle
    <3>2. OneOwner'
      <4>1. \A q, r \in MediaOps : q # r => OwnedBy(q)' \cap OwnedBy(r)' = {}
        BY <1>0, <3>0 DEF MediaInv, OwnInv, OneOwner
      <4>2. ASSUME NEW q \in MediaOps, NEW k \in Gens
            PROVE  selection'[k] \notin OwnedBy(q)' /\ \A e \in playback'[k] : e.handle \notin OwnedBy(q)'
        <5>1. CASE q = o
          BY <1>0, <1>1, <2>1, <2>2, <3>0, <5>1 DEF MediaInv, OwnInv, OneOwner, Handles, NoHandle
        <5>2. CASE q # o
          BY <1>0, <2>1, <3>0, <3>1, <5>2 DEF MediaInv, OwnInv, OneOwner
        <5>. QED
          BY <5>1, <5>2
      <4>3. \A l, k \in Gens : selection'[l] = selection'[k] /\ selection'[l] # NoHandle => l = k
        BY <3>0 DEF MediaInv, OwnInv, OneOwner
      <4>4. ASSUME NEW l \in Gens, NEW k \in Gens, NEW e \in playback'[l]
            PROVE  selection'[k] # e.handle /\ \A f \in playback'[k] : f.handle = e.handle => l = k /\ f = e
        <5>1. e \in playback[l] /\ e.handle # NoHandle
          BY <2>1 DEF MediaInv, MediaTypes, Capability, Handles, NoHandle
        <5>. QED
          BY <2>1, <3>0, <5>1 DEF MediaInv, OwnInv, OneOwner
      <4>. QED
        BY <4>1, <4>2, <4>3, <4>4 DEF OneOwner
    <3>3. OwnersHold'
      BY <2>1, <2>2, <3>0 DEF MediaInv, OwnInv, OwnersHold
    <3>4. HeldAreOwned'
      <4>. SUFFICES ASSUME NEW h \in Handles, handle[h].state = "held"
                    PROVE  \/ \E q \in MediaOps : h \in OwnedBy(q)'
                           \/ \E k \in Gens : selection'[k] = h \/ \E e \in playback'[k] : e.handle = h
        BY <2>1 DEF HeldAreOwned
      <4>1. CASE \E q \in MediaOps : h \in OwnedBy(q)
        BY <4>1, <3>0
      <4>2. CASE \E k \in Gens : selection[k] = h
        BY <4>2, <3>0
      <4>3. CASE \E k \in Gens : \E e \in playback[k] : e.handle = h
        BY <4>3, <2>1
      <4>. QED
        BY <4>1, <4>2, <4>3 DEF MediaInv, OwnInv, HeldAreOwned
    <3>. QED
      BY <3>2, <3>3, <3>4 DEF OwnInv
  <2>6. HandlesGoOn /\ handle' \in [Handles -> HandleType] /\ playback' \in [Gens -> SUBSET Capability]
        /\ selection' \in [Gens -> Handles \cup {NoHandle}]
    BY <2>1, <2>2 DEF HandlesGoOn, MediaInv, MediaTypes
  <2>7. \A k \in Gens : generation[k] = "revoked" => selection'[k] = NoHandle /\ playback'[k] = {}
    BY <1>0, <2>1, <2>2 DEF MediaInv, QuietInv
  <2>8. \A h \in Handles : handle'[h].version <= fileContent[handle'[h].inode]
    BY <2>1 DEF MediaInv, VersionInv
  <2>9. \A h \in mediaOp'[o].held : handle'[h].state # "unused"
    BY <2>1, <2>2, <2>3
  <2>. QED
    BY <1>0, <2>3, <2>4, <2>5, <2>6, <2>7, <2>8, <2>9, OpStep DEF Consume
<1>2. CASE ~(Alive(g) /\ selection[g] # NoHandle)
  <2>1. mediaOp' = Ended(o) /\ UNCHANGED entryVars
    BY <1>2 DEF Consume, entryVars
  <2>2. /\ OnlyOp(o) /\ mediaOp' \in [MediaOps -> MediaOpType] /\ ShapeOf(mediaOp'[o])
        /\ mediaOp'[o].held = {} /\ mediaOp'[o].kind \notin GenerationKinds /\ mediaOp'[o].at = "ended"
    BY <2>1, Ending
  <2>3. OwnedBy(o)' = OwnedBy(o)
    BY <1>0, <2>2 DEF OwnedBy
  <2>. QED
    BY <2>1, <2>2, <2>3, OpMoves DEF Consume
<1>. QED
  BY <1>1, <1>2

LEMMA OpenFileStep ==
    ASSUME MediaInv, app = "running", NEW o \in MediaOps, NEW h \in Handles, OpenFile(o, h)
    PROVE  MediaInv'
<1>. DEFINE r == [state |-> "held", inode |-> inode, version |-> fileContent[inode]]
<1>0. /\ mediaOp[o] \in MediaOpType /\ mediaOp[o].at = "open" /\ mediaOp[o].kind \notin {"read", "none"}
           /\ mediaOp[o].gen \in Gens
      /\ (IF mediaOp[o].kind = "create" THEN Single(mediaOp[o].held) ELSE mediaOp[o].held = {})
      /\ \A k \in mediaOp[o].held : handle[k].state # "unused"
      /\ mediaOp[o].kind \in GenerationKinds => generation[mediaOp[o].gen] # "revoked"
  BY OpIs DEF OpenFile, ShapeOf
<1>1. /\ handle' = [handle EXCEPT ![h] = r] /\ handle[h].state = "unused"
      /\ mediaOp' = [mediaOp EXCEPT ![o].at = "hashing", ![o].held = @ \cup {h}]
      /\ UNCHANGED <<generation, entryVars, fileVars, disposal, app, closeFaults, locators>>
  BY DEF OpenFile
<1>2. r \in HandleType /\ r.state = "held" /\ r.version = fileContent[r.inode]
  BY DEF MediaInv, MediaTypes, HandleType, HandleStates
<1>. HIDE DEF r
<1>3. /\ handle' \in [Handles -> HandleType] /\ handle'[h] = r /\ \A k \in Handles : k # h
           => handle'[k] = handle[k]
  BY <1>1, <1>2 DEF MediaInv, MediaTypes
<1>4. mediaOp'[o] = [mediaOp[o] EXCEPT !.at = "hashing", !.held = @ \cup {h}] /\ OnlyOp(o)
  BY <1>1 DEF MediaInv, MediaTypes, OnlyOp
<1>5. /\ mediaOp'[o] \in MediaOpType /\ mediaOp'[o].at = "hashing" /\ mediaOp'[o].held = mediaOp[o].held \cup {h}
      /\ mediaOp'[o].kind = mediaOp[o].kind /\ mediaOp'[o].gen = mediaOp[o].gen
  <2>. DEFINE hs == mediaOp[o].held \cup {h}
  <2>1. hs \in SUBSET Handles
    BY <1>0 DEF MediaOpType
  <2>2. mediaOp'[o] = [mediaOp[o] EXCEPT !.at = "hashing", !.held = hs]
    BY <1>4
  <2>. HIDE DEF hs
  <2>3. /\ mediaOp'[o] \in MediaOpType /\ mediaOp'[o].at = "hashing" /\ mediaOp'[o].held = hs
        /\ mediaOp'[o].kind = mediaOp[o].kind /\ mediaOp'[o].gen = mediaOp[o].gen
    BY <1>0, <2>1, <2>2 DEF MediaOpType, Ats
  <2>. QED
    BY <2>3 DEF hs
<1>6. mediaOp' \in [MediaOps -> MediaOpType]
  BY <1>1, <1>5 DEF MediaInv, MediaTypes
<1>7. h \notin mediaOp[o].held
  BY <1>0, <1>1
<1>8. ShapeOf(mediaOp'[o])
  <2>1. IF mediaOp'[o].kind = "create" THEN Pair(mediaOp'[o].held) ELSE Single(mediaOp'[o].held)
    BY <1>0, <1>5, <1>7 DEF Single, Pair
  <2>. QED
    BY <1>0, <1>5, <2>1 DEF ShapeOf
<1>9. HandlesGoOn
  BY <1>1, <1>2, <1>3 DEF HandlesGoOn
<1>10. OwnInv'
  <2>0. /\ OwnedBy(o)' = OwnedBy(o) \cup {h} /\ \A q \in MediaOps : q # o => OwnedBy(q)' = OwnedBy(q)
        /\ selection' = selection /\ playback' = playback
    <3>1. OwnedBy(o)' = OwnedBy(o) \cup {h}
      BY <1>0, <1>5 DEF OwnedBy
    <3>2. \A q \in MediaOps : q # o => OwnedBy(q)' = OwnedBy(q)
      BY <1>4 DEF OwnedBy, OnlyOp
    <3>. QED
      BY <1>1, <3>1, <3>2 DEF entryVars
  <2>1. /\ \A q \in MediaOps : h \notin OwnedBy(q)
        /\ \A g \in Gens : selection[g] # h /\ \A e \in playback[g] : e.handle # h
    BY <1>1 DEF MediaInv, OwnInv, OwnersHold, Handles, NoHandle
  <2>2. OneOwner'
    <3>1. \A q, s \in MediaOps : q # s => OwnedBy(q)' \cap OwnedBy(s)' = {}
      BY <2>0, <2>1 DEF MediaInv, OwnInv, OneOwner
    <3>2. \A q \in MediaOps, k \in Gens : selection'[k] \notin OwnedBy(q)'
            /\ \A e \in playback'[k] : e.handle \notin OwnedBy(q)'
      BY <2>0, <2>1 DEF MediaInv, OwnInv, OneOwner
    <3>3. \A l, k \in Gens : selection'[l] = selection'[k] /\ selection'[l] # NoHandle => l = k
      BY <2>0 DEF MediaInv, OwnInv, OneOwner
    <3>4. \A l, k \in Gens : \A e \in playback'[l] :
            selection'[k] # e.handle /\ \A f \in playback'[k] : f.handle = e.handle => l = k /\ f = e
      BY <2>0 DEF MediaInv, OwnInv, OneOwner
    <3>. QED
      BY <3>1, <3>2, <3>3, <3>4 DEF OneOwner
  <2>3. OwnersHold'
    <3>1. ASSUME NEW q \in MediaOps, NEW k \in OwnedBy(q)' PROVE handle'[k].state = "held"
      <4>1. CASE k = h
        BY <1>2, <1>3, <4>1
      <4>2. CASE k # h
        <5>1. k \in OwnedBy(q) /\ k \in Handles
          BY <2>0, <4>2 DEF OwnedBy, MediaInv, MediaTypes, MediaOpType
        <5>. QED
          BY <1>3, <4>2, <5>1 DEF MediaInv, OwnInv, OwnersHold
      <4>. QED
        BY <4>1, <4>2
    <3>2. ASSUME NEW g \in Gens PROVE selection'[g] # NoHandle => handle'[selection'[g]].state = "held"
      <4>1. selection[g] \in Handles \cup {NoHandle} /\ selection[g] # h
        BY <2>1 DEF MediaInv, MediaTypes
      <4>. QED
        BY <1>3, <2>0, <4>1 DEF MediaInv, OwnInv, OwnersHold
    <3>3. ASSUME NEW g \in Gens, NEW e \in playback'[g] PROVE handle'[e.handle].state = "held"
      <4>1. e.handle \in Handles /\ e.handle # h /\ e \in playback[g]
        BY <2>0, <2>1 DEF MediaInv, MediaTypes, Capability
      <4>. QED
        BY <1>3, <4>1 DEF MediaInv, OwnInv, OwnersHold
    <3>. QED
      BY <3>1, <3>2, <3>3 DEF OwnersHold
  <2>4. HeldAreOwned'
    <3>. SUFFICES ASSUME NEW k \in Handles, handle'[k].state = "held"
                  PROVE  \/ \E q \in MediaOps : k \in OwnedBy(q)'
                         \/ \E g \in Gens : selection'[g] = k \/ \E e \in playback'[g] : e.handle = k
      BY DEF HeldAreOwned
    <3>1. CASE k = h
      BY <2>0, <3>1
    <3>2. CASE k # h
      <4>1. handle[k].state = "held"
        BY <1>3, <3>2
      <4>. QED
        BY <2>0, <4>1 DEF MediaInv, OwnInv, HeldAreOwned
    <3>. QED
      BY <3>1, <3>2
  <2>. QED
    BY <2>2, <2>3, <2>4 DEF OwnInv
<1>11. /\ selection' \in [Gens -> Handles \cup {NoHandle}] /\ playback' \in [Gens -> SUBSET Capability]
       /\ \A g \in Gens : generation[g] = "revoked" => selection'[g] = NoHandle /\ playback'[g] = {}
  BY <1>1 DEF MediaInv, MediaTypes, QuietInv, entryVars
<1>12. \A k \in Handles : handle'[k].version <= fileContent[handle'[k].inode]
  <2>1. r.version <= fileContent[r.inode]
    BY <1>2 DEF HandleType
  <2>. QED
    BY <1>3, <2>1 DEF MediaInv, VersionInv
<1>13. \A k \in mediaOp'[o].held : handle'[k].state # "unused"
  <2>1. mediaOp[o].held \subseteq Handles
    BY <1>0 DEF MediaOpType
  <2>. QED
    BY <1>0, <1>2, <1>3, <1>5, <2>1
<1>. QED
  BY <1>0, <1>1, <1>3, <1>4, <1>5, <1>6, <1>8, <1>9, <1>10, <1>11, <1>12, <1>13, OpStep

LEMMA VerifiedFileStep == ASSUME MediaInv, app = "running", NEW o \in MediaOps, VerifiedFile(o) PROVE MediaInv'
<1>0. /\ mediaOp[o] \in MediaOpType /\ mediaOp[o].at = "hashing" /\ mediaOp[o].kind # "read"
           /\ mediaOp[o].gen \in Gens
      /\ (IF mediaOp[o].kind = "create" THEN Pair(mediaOp[o].held) ELSE Single(mediaOp[o].held))
      /\ \A k \in mediaOp[o].held : handle[k].state # "unused"
      /\ mediaOp[o].kind \in GenerationKinds => generation[mediaOp[o].gen] # "revoked"
      /\ mediaOp[o].kind # "none"
  BY OpIs DEF VerifiedFile, ShapeOf
<1>. DEFINE next == IF mediaOp[o].kind = "range" THEN "stat" ELSE "task"
<1>1. CASE /\ \A h \in mediaOp[o].held : SameFile(h) /\ handle[h].inode = inode
           /\ mediaOp[o].kind = "range" => Cardinality(Reading) < MaxReads
  <2>1. Step(o, next) /\ UNCHANGED handle
          /\ UNCHANGED <<generation, entryVars, fileVars, disposal, app, locators>>
    BY <1>1 DEF VerifiedFile
  <2>2. next \in {"stat", "task"} /\ (next = "stat" <=> mediaOp[o].kind = "range")
    OBVIOUS
  <2>. HIDE DEF next
  <2>3. /\ mediaOp' \in [MediaOps -> MediaOpType] /\ OnlyOp(o)
        /\ mediaOp'[o].at = next /\ mediaOp'[o].kind = mediaOp[o].kind /\ mediaOp'[o].gen = mediaOp[o].gen
        /\ mediaOp'[o].held = mediaOp[o].held
    BY <2>1, <2>2, StepIs DEF MediaInv, Ats
  <2>4. ShapeOf(mediaOp'[o])
    <3>1. mediaOp[o].kind \in GenerationKinds \cup {"range"}
      BY <1>0 DEF MediaOpType, MediaKinds
    <3>. QED
      BY <1>0, <2>2, <2>3, <3>1 DEF ShapeOf, GenerationKinds
  <2>5. OwnedBy(o)' = OwnedBy(o)
    BY <2>3 DEF OwnedBy
  <2>6. \A h, k \in mediaOp[o].held : handle[h].inode = handle[k].inode /\ handle[h].version = handle[k].version
    BY <1>1 DEF SameFile
  <2>. QED
    BY <1>0, <2>1, <2>2, <2>3, <2>4, <2>5, <2>6, OpMoves
<1>2. CASE Drop(o)
  BY <1>0, <1>2, OpDrops DEF VerifiedFile
<1>. QED
  BY <1>1, <1>2 DEF VerifiedFile

LEMMA BrokenStep == ASSUME MediaInv, app = "running", NEW o \in MediaOps, Broken(o) PROVE MediaInv'
<1>0. /\ mediaOp[o] \in MediaOpType /\ mediaOp[o].kind # "read" /\ mediaOp[o].gen \in Gens
      /\ mediaOp[o].kind \in GenerationKinds => generation[mediaOp[o].gen] # "revoked"
  BY OpIs DEF Broken, ShapeOf
<1>1. CASE mediaOp[o].kind # "play"
  BY <1>0, <1>1, OpDrops DEF Broken
<1>2. CASE mediaOp[o].kind = "play"
  <2>1. PICK bad \in SUBSET mediaOp[o].held : Close(mediaOp[o].held, bad)
    BY <1>2 DEF Broken
  <2>2. mediaOp' = [mediaOp EXCEPT ![o].at = "mark", ![o].held = {}]
    BY <1>2 DEF Broken
  <2>3. mediaOp'[o] = [mediaOp[o] EXCEPT !.at = "mark", !.held = {}] /\ OnlyOp(o)
    BY <2>2 DEF MediaInv, MediaTypes, OnlyOp
  <2>4. /\ mediaOp'[o] \in MediaOpType /\ mediaOp'[o].at = "mark" /\ mediaOp'[o].held = {}
        /\ mediaOp'[o].kind = "play" /\ mediaOp'[o].gen = mediaOp[o].gen
    BY <1>0, <1>2, <2>3 DEF MediaOpType, Ats
  <2>5. mediaOp' \in [MediaOps -> MediaOpType]
    BY <2>2, <2>4 DEF MediaInv, MediaTypes
  <2>6. ShapeOf(mediaOp'[o])
    BY <1>0, <2>4 DEF ShapeOf
  <2>7. OwnedBy(o) = mediaOp[o].held /\ mediaOp[o].held \subseteq Handles
    BY <1>0 DEF OwnedBy, MediaOpType
  <2>8. UNCHANGED <<generation, entryVars, fileVars, disposal, app>>
    BY DEF Broken
  <2>. QED
    BY <1>0, <1>2, <2>1, <2>3, <2>4, <2>5, <2>6, <2>7, <2>8, OpCloses DEF GenerationKinds
<1>. QED
  BY <1>1, <1>2

LEMMA MarkStep == ASSUME MediaInv, app = "running", NEW o \in MediaOps, MarkUnavailable(o) PROVE MediaInv'
<1>0. /\ mediaOp[o].kind = "play" /\ mediaOp[o].held = {} /\ mediaOp[o].gen \in Gens
      /\ mediaOp[o].kind \in GenerationKinds => generation[mediaOp[o].gen] # "revoked"
      /\ UNCHANGED <<generation, handle, entryVars, fileVars, disposal, app>>
  BY OpIs DEF MarkUnavailable, ShapeOf
<1>1. CASE Step(o, "open")
  <2>1. /\ mediaOp' \in [MediaOps -> MediaOpType] /\ OnlyOp(o)
        /\ mediaOp'[o].at = "open" /\ mediaOp'[o].kind = mediaOp[o].kind /\ mediaOp'[o].gen = mediaOp[o].gen
        /\ mediaOp'[o].held = mediaOp[o].held
    BY <1>1, StepIs DEF MediaInv, Ats
  <2>2. ShapeOf(mediaOp'[o]) /\ OwnedBy(o)' = OwnedBy(o)
    BY <1>0, <2>1 DEF ShapeOf, OwnedBy
  <2>. QED
    BY <1>0, <2>1, <2>2, OpMoves
<1>2. CASE mediaOp' = Ended(o)
  <2>1. /\ OnlyOp(o) /\ mediaOp' \in [MediaOps -> MediaOpType] /\ ShapeOf(mediaOp'[o])
        /\ mediaOp'[o].held = {} /\ mediaOp'[o].kind \notin GenerationKinds /\ mediaOp'[o].at = "ended"
    BY <1>2, Ending
  <2>2. OwnedBy(o)' = OwnedBy(o)
    BY <1>0, <2>1 DEF OwnedBy
  <2>. QED
    BY <1>0, <2>1, <2>2, OpMoves
<1>. QED
  BY <1>1, <1>2 DEF MarkUnavailable

LEMMA PublishMediaStep == ASSUME MediaInv, app = "running", NEW o \in MediaOps, PublishMedia(o) PROVE MediaInv'
<1>0. /\ ShapeOf(mediaOp[o]) /\ mediaOp[o].at = "task" /\ mediaOp[o].kind \in {"create", "relink"}
      /\ \A k \in mediaOp[o].held : handle[k].state # "unused"
      /\ mediaOp[o].kind \in GenerationKinds => generation[mediaOp[o].gen] # "revoked"
      /\ UNCHANGED <<generation, entryVars, fileVars, disposal, app>>
  BY OpIs DEF PublishMedia
<1>1. CASE Step(o, "release") /\ UNCHANGED handle
  <2>1. /\ mediaOp' \in [MediaOps -> MediaOpType] /\ OnlyOp(o)
        /\ mediaOp'[o].at = "release" /\ mediaOp'[o].kind = mediaOp[o].kind /\ mediaOp'[o].gen = mediaOp[o].gen
        /\ mediaOp'[o].held = mediaOp[o].held
    BY <1>1, StepIs DEF MediaInv, Ats
  <2>2. ShapeOf(mediaOp'[o]) /\ OwnedBy(o)' = OwnedBy(o)
    BY <1>0, <2>1 DEF ShapeOf, OwnedBy
  <2>3. mediaOp[o].kind = "create" => \A h, k \in mediaOp[o].held : handle[h].inode = handle[k].inode
          /\ handle[h].version = handle[k].version
    BY <1>0 DEF MediaInv, VersionInv
  <2>. QED
    BY <1>0, <1>1, <2>1, <2>2, <2>3, OpMoves
<1>2. CASE Drop(o)
  BY <1>0, <1>2, OpDrops
<1>. QED
  BY <1>1, <1>2 DEF PublishMedia

LEMMA ReleaseStep == ASSUME MediaInv, app = "running", NEW o \in MediaOps, Release(o) PROVE MediaInv'
<1>1. mediaOp[o].kind # "read"
  BY OpIs DEF Release, ShapeOf
<1>. QED
  BY <1>1, OpDrops DEF Release

LEMMA EndReadStep ==
    ASSUME MediaInv, app = "running", NEW o \in MediaOps,
             mediaOp[o].at \in {"stat", "bytes", "again", "served"}, EndRead(o),
           UNCHANGED <<generation, entryVars, fileVars, disposal, app>>
    PROVE  MediaInv'
<1>0. mediaOp[o].held \subseteq Handles
  BY OpIs
<1>1. /\ OnlyOp(o) /\ mediaOp' \in [MediaOps -> MediaOpType] /\ ShapeOf(mediaOp'[o])
      /\ mediaOp'[o].held = {} /\ mediaOp'[o].kind \notin GenerationKinds /\ mediaOp'[o].at = "ended"
  BY Ending DEF EndRead
<1>2. CASE mediaOp[o].kind = "read"
  <2>1. OwnedBy(o)' = OwnedBy(o) /\ UNCHANGED handle
    BY <1>1, <1>2 DEF OwnedBy, EndRead
  <2>. QED
    BY <1>1, <2>1, OpMoves
<1>3. CASE mediaOp[o].kind # "read"
  <2>. DEFINE hs == mediaOp[o].held \cup Failed
  <2>1. PICK bad : Close(hs, bad)
    BY <1>3 DEF EndRead
  <2>2. hs \in SUBSET Handles /\ OwnedBy(o) \subseteq hs /\ hs \subseteq OwnedBy(o) \cup Failed
    BY <1>0, <1>3 DEF OwnedBy, Failed
  <2>. HIDE DEF hs
  <2>. QED
    BY <1>1, <2>1, <2>2, OpCloses
<1>. QED
  BY <1>2, <1>3

LEMMA StatStep ==
    ASSUME MediaInv, app = "running", NEW o \in MediaOps, NEW next \in {"bytes", "served"},
           mediaOp[o].at = IF next = "bytes" THEN "stat" ELSE "again", Stat(o, next)
    PROVE  MediaInv'
<1>0. /\ ShapeOf(mediaOp[o]) /\ mediaOp[o].held \subseteq Handles
           /\ \A h \in mediaOp[o].held : handle[h].state # "unused"
      /\ mediaOp[o].at \in {"stat", "again"} /\ mediaOp[o] \in MediaOpType
  BY OpIs
<1>1. mediaOp[o].kind \in {"range", "read"} /\ Single(mediaOp[o].held) /\ mediaOp[o].gen \in Gens
  BY <1>0 DEF ShapeOf
<1>2. PICK h \in mediaOp[o].held :
         IF handle[h].state # "closed" /\ SameFile(h) THEN Step(o, next)
           /\ UNCHANGED <<handle, closeFaults>> ELSE EndRead(o)
  BY DEF Stat
<1>3. mediaOp[o].held = {h}
  BY <1>1 DEF Single
<1>4. UNCHANGED <<generation, entryVars, fileVars, disposal, app>>
  BY DEF Stat
<1>5. CASE EndRead(o)
  BY <1>0, <1>4, <1>5, EndReadStep
<1>6. CASE handle[h].state # "closed" /\ SameFile(h) /\ Step(o, next) /\ UNCHANGED handle
  <2>1. /\ mediaOp' \in [MediaOps -> MediaOpType] /\ OnlyOp(o)
        /\ mediaOp'[o].at = next /\ mediaOp'[o].kind = mediaOp[o].kind /\ mediaOp'[o].gen = mediaOp[o].gen
        /\ mediaOp'[o].held = mediaOp[o].held /\ mediaOp'[o].seen = mediaOp[o].seen
    BY <1>6, StepIs DEF MediaInv, Ats
  <2>2. ShapeOf(mediaOp'[o])
    BY <1>1, <2>1 DEF ShapeOf
  <2>3. OwnedBy(o)' = OwnedBy(o)
    BY <2>1 DEF OwnedBy
  <2>4. next = "served" =>
          /\ handle[h].version <= mediaOp[o].seen /\ mediaOp[o].seen <= fileContent[handle[h].inode]
          /\ mediaOp[o].seen = handle[h].version
    <3>. SUFFICES ASSUME next = "served"
                  PROVE  /\ handle[h].version <= mediaOp[o].seen
                              /\ mediaOp[o].seen <= fileContent[handle[h].inode]
                         /\ mediaOp[o].seen = handle[h].version
      OBVIOUS
    <3>1. handle[h].version <= mediaOp[o].seen /\ mediaOp[o].seen <= fileContent[handle[h].inode]
      BY <1>0, <1>3, <1>6 DEF MediaInv, VersionInv
    <3>2. handle[h].version = fileContent[handle[h].inode]
      BY <1>6 DEF SameFile
    <3>3. handle[h].version \in Nat /\ mediaOp[o].seen \in Nat
      BY <1>0, <1>3 DEF MediaOpType, MediaInv, MediaTypes, HandleType
    <3>. QED
      BY <3>1, <3>2, <3>3
  <2>. QED
    BY <1>0, <1>1, <1>3, <1>4, <1>6, <2>1, <2>2, <2>3, <2>4, OpMoves DEF GenerationKinds
<1>. QED
  BY <1>2, <1>5, <1>6

LEMMA ReadBytesStep == ASSUME MediaInv, app = "running", NEW o \in MediaOps, ReadBytes(o) PROVE MediaInv'
<1>0. /\ ShapeOf(mediaOp[o]) /\ mediaOp[o].held \subseteq Handles
           /\ \A h \in mediaOp[o].held : handle[h].state # "unused"
      /\ mediaOp[o].at = "bytes" /\ mediaOp[o] \in MediaOpType
  BY OpIs DEF ReadBytes
<1>1. mediaOp[o].kind \in {"range", "read"} /\ Single(mediaOp[o].held) /\ mediaOp[o].gen \in Gens
  BY <1>0 DEF ShapeOf
<1>2. PICK h \in mediaOp[o].held :
         IF handle[h].state # "closed"
         THEN /\ mediaOp' = [mediaOp EXCEPT ![o].at = "again", ![o].seen = fileContent[handle[h].inode]]
              /\ UNCHANGED <<handle, closeFaults>>
         ELSE EndRead(o)
  BY DEF ReadBytes
<1>3. mediaOp[o].held = {h}
  BY <1>1 DEF Single
<1>4. UNCHANGED <<generation, entryVars, fileVars, disposal, app>>
  BY DEF ReadBytes
<1>5. CASE EndRead(o)
  BY <1>0, <1>4, <1>5, EndReadStep
<1>6. CASE UNCHANGED handle /\ mediaOp' = [mediaOp EXCEPT ![o].at = "again", ![o].seen = fileContent[handle[h].inode]]
  <2>. DEFINE c == fileContent[handle[h].inode]
  <2>1. c \in Nat /\ handle[h].version <= c
    BY <1>0, <1>3 DEF MediaInv, MediaTypes, HandleType, VersionInv
  <2>2. mediaOp' = [mediaOp EXCEPT ![o].at = "again", ![o].seen = c]
    BY <1>6
  <2>. HIDE DEF c
  <2>3. mediaOp'[o] = [mediaOp[o] EXCEPT !.at = "again", !.seen = c] /\ OnlyOp(o)
    BY <2>2 DEF MediaInv, MediaTypes, OnlyOp
  <2>4. /\ mediaOp'[o] \in MediaOpType /\ mediaOp'[o].at = "again" /\ mediaOp'[o].kind = mediaOp[o].kind
        /\ mediaOp'[o].gen = mediaOp[o].gen /\ mediaOp'[o].held = mediaOp[o].held /\ mediaOp'[o].seen = c
    BY <1>0, <2>1, <2>3 DEF MediaOpType, Ats
  <2>5. mediaOp' \in [MediaOps -> MediaOpType]
    BY <2>2, <2>4 DEF MediaInv, MediaTypes
  <2>6. ShapeOf(mediaOp'[o])
    BY <1>1, <2>4 DEF ShapeOf
  <2>7. OwnedBy(o)' = OwnedBy(o)
    BY <2>4 DEF OwnedBy
  <2>8. handle[h].version <= c /\ c <= fileContent[handle[h].inode]
    BY <2>1 DEF c
  <2>. QED
    BY <1>0, <1>1, <1>3, <1>4, <1>6, <2>3, <2>4, <2>5, <2>6, <2>7, <2>8, OpMoves DEF GenerationKinds
<1>. QED
  BY <1>2, <1>5, <1>6

LEMMA ReaderSteps ==
    ASSUME MediaInv, app = "running", NEW o \in MediaOps, StatBefore(o) \/ ReadBytes(o) \/ StatAfter(o) \/ Served(o)
    PROVE  MediaInv'
<1>1. CASE StatBefore(o)
  BY <1>1, StatStep DEF StatBefore
<1>2. CASE StatAfter(o)
  BY <1>2, StatStep DEF StatAfter
<1>3. CASE Served(o)
  BY <1>3, EndReadStep DEF Served
<1>. QED
  BY <1>1, <1>2, <1>3, ReadBytesStep

-----------------------------------------------------------------------------
LEMMA EditFileStep == ASSUME MediaInv, app = "running", EditFile PROVE MediaInv'
<1>0. /\ UNCHANGED <<generation, mediaOp, handle, entryVars, disposal, app>> /\ edits' = edits + 1
           /\ edits \in Nat
      /\ fileContent \in [1..2 -> Nat] /\ inode \in 1..2
  BY DEF EditFile, MediaInv, MediaTypes
<1>1. inode' \in 1..2 /\ \E i \in 1..2 : fileContent' = [fileContent EXCEPT ![i] = edits + 1]
  BY <1>0 DEF EditFile
<1>2. fileContent' \in [1..2 -> Nat]
  BY <1>0, <1>1
<1>3. \A i \in 1..2 : fileContent[i] <= fileContent'[i] /\ fileContent'[i] <= edits'
  BY <1>0, <1>1 DEF MediaInv, VersionInv
<1>4. MediaTypes'
  BY <1>0, <1>1, <1>2 DEF MediaInv, MediaTypes, entryVars
<1>5. ShapeInv' /\ QuietInv' /\ CleanQuit'
  BY <1>0 DEF MediaInv, ShapeInv, ShapeOf, Single, Pair, QuietInv, CleanQuit, entryVars
<1>6. OwnInv'
  BY <1>0 DEF MediaInv, OwnInv, OneOwner, OwnersHold, HeldAreOwned, OwnedBy, entryVars
<1>7. VersionInv'
  <2>0. \A h \in Handles : handle[h].inode \in 1..2 /\ handle[h].version \in Nat
    BY DEF MediaInv, MediaTypes, HandleType
  <2>1. \A h \in Handles : handle'[h].version <= fileContent'[handle'[h].inode]
    BY <1>0, <1>2, <1>3, <2>0 DEF MediaInv, VersionInv
  <2>2. ASSUME NEW o \in MediaOps, mediaOp'[o].at \in {"again", "served"}, NEW h \in mediaOp'[o].held,
                 handle'[h].state # "closed"
        PROVE  /\ handle'[h].version <= mediaOp'[o].seen /\ mediaOp'[o].seen <= fileContent'[handle'[h].inode]
               /\ mediaOp'[o].at = "served" => mediaOp'[o].seen = handle'[h].version
    <3>1. h \in Handles /\ mediaOp[o].seen \in Nat
      BY <1>0, <2>2 DEF MediaInv, MediaTypes, MediaOpType
    <3>2. /\ handle[h].version <= mediaOp[o].seen /\ mediaOp[o].seen <= fileContent[handle[h].inode]
          /\ mediaOp[o].at = "served" => mediaOp[o].seen = handle[h].version
      BY <1>0, <2>2 DEF MediaInv, VersionInv
    <3>3. fileContent[handle[h].inode] <= fileContent'[handle[h].inode] /\ fileContent[handle[h].inode] \in Nat
          /\ fileContent'[handle[h].inode] \in Nat
      BY <1>0, <1>2, <1>3, <2>0, <3>1
    <3>. QED
      BY <1>0, <3>1, <3>2, <3>3
  <2>3. \A o \in MediaOps : mediaOp'[o].kind = "create" /\ mediaOp'[o].at \in {"task", "release"} =>
         \A h, k \in mediaOp'[o].held : handle'[h].inode = handle'[k].inode
           /\ handle'[h].version = handle'[k].version
    BY <1>0 DEF MediaInv, VersionInv
  <2>. QED
    BY <1>3, <2>1, <2>2, <2>3 DEF VersionInv
<1>. QED
  BY <1>4, <1>5, <1>6, <1>7 DEF MediaInv

\* Steps that only change what a generation or the disposal has come to.
LEMMA PhaseSteps ==
    ASSUME MediaInv, app = "running",
           (\E g \in Gens : Activate(g) \/ Revoke(g)) \/ BeforeQuit \/ QuitTimeout
    PROVE  MediaInv'
<1>1. UNCHANGED <<mediaOp, handle, entryVars, fileVars>>
  BY DEF Activate, Revoke, BeforeQuit, QuitTimeout
<1>2. /\ disposal' \in {"no", "draining", "done"} /\ app' \in {"running", "failed"}
      /\ generation' \in [Gens -> {"new", "active", "revoking", "revoked"}]
      /\ \A g \in Gens : generation'[g] = "revoked" => generation[g] = "revoked"
  BY DEF MediaInv, MediaTypes, Activate, Revoke, BeforeQuit, QuitTimeout
<1>3. MediaTypes'
  BY <1>1, <1>2 DEF MediaInv, MediaTypes, entryVars, fileVars
<1>4. ShapeInv' /\ OwnInv' /\ VersionInv'
  <2>1. ShapeInv'
    BY <1>1 DEF MediaInv, ShapeInv, ShapeOf, Single, Pair
  <2>2. OwnInv'
    BY <1>1 DEF MediaInv, OwnInv, OneOwner, OwnersHold, HeldAreOwned, OwnedBy, entryVars
  <2>3. VersionInv'
    BY <1>1 DEF MediaInv, VersionInv, fileVars
  <2>. QED
    BY <2>1, <2>2, <2>3
<1>5. QuietInv' /\ CleanQuit'
  BY <1>1, <1>2 DEF MediaInv, QuietInv, CleanQuit, entryVars
<1>. QED
  BY <1>3, <1>4, <1>5 DEF MediaInv

\* Closing capabilities disturbs no operation, but perhaps a reader.
LEMMA OpsOutlast ==
    ASSUME MediaInv, UNCHANGED <<mediaOp, fileVars>>, NEW hs \in SUBSET Handles, NEW bad, Close(hs, bad),
             OwnInv'
    PROVE  ShapeInv' /\ VersionInv' /\ handle' \in [Handles -> HandleType]
<1>1. /\ handle' \in [Handles -> HandleType] /\ HandlesGoOn
      /\ \A h \in Handles : handle'[h].version = 0
           \/ (handle'[h].version = handle[h].version /\ handle'[h].inode = handle[h].inode)
  BY CloseIs DEF MediaInv
<1>2. \A q \in MediaOps : mediaOp[q].held \subseteq Handles
  BY DEF MediaInv, MediaTypes, MediaOpType
<1>3. ShapeInv'
  <2>1. ASSUME NEW q \in MediaOps PROVE ShapeOf(mediaOp'[q])
                 /\ \A h \in mediaOp'[q].held : handle'[h].state # "unused"
    BY <1>1, <1>2 DEF MediaInv, ShapeInv, HandlesGoOn
  <2>. QED
    BY <2>1 DEF ShapeInv
<1>4. VersionInv'
  <2>0. /\ fileContent' = fileContent /\ edits' = edits /\ fileContent \in [1..2 -> Nat] /\ mediaOp' = mediaOp
        /\ \A h \in Handles : handle'[h].inode \in 1..2
    BY <1>1 DEF fileVars, MediaInv, MediaTypes, HandleType
  <2>1. \A h \in Handles : handle'[h].version <= fileContent'[handle'[h].inode]
    BY <1>1, <2>0 DEF MediaInv, VersionInv
  <2>2. ASSUME NEW q \in MediaOps, mediaOp[q].at \in {"again", "served"}, NEW h \in mediaOp[q].held,
                 handle'[h].state # "closed"
        PROVE  /\ handle'[h].version <= mediaOp[q].seen /\ mediaOp[q].seen <= fileContent'[handle'[h].inode]
               /\ mediaOp[q].at = "served" => mediaOp[q].seen = handle'[h].version
    <3>1. h \in Handles /\ handle[h].state # "unused" /\ handle[h].state # "closed"
      BY <1>1, <1>2, <2>2 DEF MediaInv, ShapeInv, HandlesGoOn
    <3>. QED
      BY <1>1, <2>0, <2>2, <3>1 DEF HandlesGoOn, MediaInv, VersionInv
  <2>3. ASSUME NEW q \in MediaOps, mediaOp[q].kind = "create", mediaOp[q].at \in {"task", "release"},
               NEW h \in mediaOp[q].held, NEW k \in mediaOp[q].held
        PROVE  handle'[h].inode = handle'[k].inode /\ handle'[h].version = handle'[k].version
    <3>1. handle'[h].state = "held" /\ handle'[k].state = "held"
      BY <2>0, <2>3 DEF OwnInv, OwnersHold, OwnedBy
    <3>2. h \in Handles /\ k \in Handles /\ handle[h].state # "unused" /\ handle[k].state # "unused"
      BY <1>2, <2>3 DEF MediaInv, ShapeInv
    <3>3. handle'[h].version = handle[h].version /\ handle'[h].inode = handle[h].inode
          /\ handle'[k].version = handle[k].version /\ handle'[k].inode = handle[k].inode
      BY <1>1, <3>1, <3>2 DEF HandlesGoOn
    <3>. QED
      BY <2>3, <3>3 DEF MediaInv, VersionInv
  <2>. QED
    BY <2>0, <2>1, <2>2, <2>3 DEF MediaInv, VersionInv
<1>. QED
  BY <1>1, <1>3, <1>4

LEMMA EntriesAre ==
    ASSUME MediaInv
    PROVE  /\ NoHandle \notin Handles /\ Failed \subseteq Handles
           /\ \A h \in Failed : handle[h].state # "held"
           /\ \A o \in MediaOps : OwnedBy(o) \subseteq Handles /\ OwnedBy(o) \cap Failed = {}
           /\ \A g \in Gens : /\ selection[g] \in Handles \cup {NoHandle} /\ selection[g] \notin Failed
                              /\ \A e \in playback[g] : e \in Capability /\ e.handle \in Handles
                                   /\ e.handle \notin Failed
<1>1. \A h \in Failed : handle[h].state # "held"
  BY DEF Failed
<1>2. NoHandle \notin Handles /\ Failed \subseteq Handles
  BY DEF Handles, NoHandle, Failed
<1>3. \A o \in MediaOps : OwnedBy(o) \subseteq Handles /\ OwnedBy(o) \cap Failed = {}
  BY <1>1 DEF MediaInv, MediaTypes, MediaOpType, OwnedBy, OwnInv, OwnersHold
<1>4. ASSUME NEW g \in Gens
      PROVE  /\ selection[g] \in Handles \cup {NoHandle} /\ selection[g] \notin Failed
             /\ \A e \in playback[g] : e \in Capability /\ e.handle \in Handles /\ e.handle \notin Failed
  <2>1. selection[g] \in Handles \cup {NoHandle} /\ playback[g] \subseteq Capability
    BY DEF MediaInv, MediaTypes
  <2>2. selection[g] # NoHandle => handle[selection[g]].state = "held"
    BY DEF MediaInv, OwnInv, OwnersHold
  <2>3. \A e \in playback[g] : handle[e.handle].state = "held"
    BY DEF MediaInv, OwnInv, OwnersHold
  <2>. QED
    BY <1>1, <1>2, <2>1, <2>2, <2>3 DEF Capability
<1>. QED
  BY <1>1, <1>2, <1>3, <1>4

LEMMA RevokeTaskStep == ASSUME MediaInv, app = "running", NEW g \in Gens, RevokeTask(g) PROVE MediaInv'
<1>. DEFINE hs == (EntriesOf(g) \ {NoHandle}) \cup Failed
<1>0. /\ NoHandle \notin Handles /\ Failed \subseteq Handles
      /\ \A h \in Failed : handle[h].state # "held"
      /\ \A o \in MediaOps : OwnedBy(o) \subseteq Handles /\ OwnedBy(o) \cap Failed = {}
      /\ \A k \in Gens : /\ selection[k] \in Handles \cup {NoHandle} /\ selection[k] \notin Failed
                         /\ \A e \in playback[k] : e \in Capability /\ e.handle \in Handles
                              /\ e.handle \notin Failed
  BY EntriesAre
<1>1. PICK bad : Close(hs, bad) /\ app' = IF bad = {} THEN app ELSE "failed"
  BY DEF RevokeTask
<1>2. /\ selection' = [selection EXCEPT ![g] = NoHandle] /\ playback' = [playback EXCEPT ![g] = {}]
      /\ generation' = [generation EXCEPT ![g] = "revoked"]
           /\ UNCHANGED <<mediaOp, fileVars, disposal, locators>> /\ OpsOf(g) = {}
  BY DEF RevokeTask
<1>3. /\ selection' \in [Gens -> Handles \cup {NoHandle}] /\ playback' \in [Gens -> SUBSET Capability]
      /\ generation' \in [Gens -> {"new", "active", "revoking", "revoked"}]
      /\ selection'[g] = NoHandle /\ playback'[g] = {}
      /\ \A k \in Gens : k # g => selection'[k] = selection[k] /\ playback'[k] = playback[k]
           /\ generation'[k] = generation[k]
  BY <1>2 DEF MediaInv, MediaTypes
<1>4. hs \in SUBSET Handles
  BY <1>0 DEF EntriesOf
<1>5. \A o \in MediaOps : OwnedBy(o)' = OwnedBy(o) \ hs
  <2>1. \A o \in MediaOps : OwnedBy(o)' = OwnedBy(o)
    BY <1>2 DEF OwnedBy
  <2>2. \A o \in MediaOps : OwnedBy(o) \cap hs = {}
    BY <1>0 DEF EntriesOf, MediaInv, OwnInv, OneOwner
  <2>. QED
    BY <2>1, <2>2
<1>6. \A k \in Gens : selection'[k] = IF selection[k] \in hs THEN NoHandle ELSE selection[k]
  <2>1. selection'[g] = IF selection[g] \in hs THEN NoHandle ELSE selection[g]
    BY <1>3 DEF EntriesOf
  <2>2. ASSUME NEW k \in Gens, k # g PROVE selection[k] \notin hs
    BY <1>0, <2>2 DEF EntriesOf, MediaInv, OwnInv, OneOwner
  <2>. QED
    BY <1>3, <2>1, <2>2
<1>7. \A k \in Gens : playback'[k] = {e \in playback[k] : e.handle \notin hs}
  <2>1. \A e \in playback[g] : e.handle \in hs
    BY <1>0 DEF EntriesOf
  <2>2. ASSUME NEW k \in Gens, k # g, NEW e \in playback[k] PROVE e.handle \notin hs
    BY <1>0, <2>2 DEF EntriesOf, MediaInv, OwnInv, OneOwner
  <2>. QED
    BY <1>3, <2>1, <2>2
<1>. HIDE DEF hs
<1>8. OwnInv'
  <2>1. /\ \A h \in Handles \ hs : handle'[h].state = handle[h].state
        /\ \A h \in hs : handle'[h].state # "held"
    BY <1>1, <1>4, CloseIs DEF MediaInv
  <2>. QED
    BY <1>4, <1>5, <1>6, <1>7, <2>1, OwnersShrink DEF MediaInv
<1>9. ShapeInv' /\ VersionInv' /\ handle' \in [Handles -> HandleType]
  BY <1>1, <1>2, <1>4, <1>8, OpsOutlast
<1>10. MediaTypes'
  BY <1>1, <1>2, <1>3, <1>9 DEF MediaInv, MediaTypes, fileVars
<1>11. QuietInv'
  <2>. SUFFICES ASSUME NEW k \in Gens, generation'[k] = "revoked"
                PROVE  /\ selection'[k] = NoHandle /\ playback'[k] = {}
                       /\ \A o \in MediaOps : mediaOp[o].gen = k => mediaOp[o].kind \notin GenerationKinds
    BY <1>2 DEF QuietInv
  <2>1. CASE k # g
    BY <1>3, <2>1 DEF MediaInv, QuietInv
  <2>2. CASE k = g
    <3>1. ASSUME NEW o \in MediaOps, mediaOp[o].gen = g, mediaOp[o].kind \in GenerationKinds PROVE FALSE
      <4>1. Running(o)
        <5>1. ShapeOf(mediaOp[o])
          BY OpIs
        <5>. QED
          BY <3>1, <5>1 DEF ShapeOf, Running, GenerationKinds
      <4>. QED
        BY <1>2, <3>1, <4>1 DEF OpsOf
    <3>. QED
      BY <1>3, <2>2, <3>1
  <2>. QED
    BY <2>1, <2>2
<1>12. CleanQuit'
  BY <1>1 DEF CleanQuit
<1>. QED
  BY <1>8, <1>9, <1>10, <1>11, <1>12 DEF MediaInv

LEMMA DrainedStep == ASSUME MediaInv, app = "running", Drained PROVE MediaInv'
<1>. DEFINE hs == {h \in Handles : handle[h].state \in {"held", "failed"}}
<1>0. /\ NoHandle \notin Handles
      /\ \A k \in Gens : /\ selection[k] \in Handles \cup {NoHandle}
                         /\ \A e \in playback[k] : e \in Capability /\ e.handle \in Handles
  BY EntriesAre
<1>1. PICK bad : Close(hs, bad) /\ app' = IF bad = {} THEN "quit" ELSE "failed"
  BY DEF Drained
<1>2. /\ selection' = [g \in Gens |-> NoHandle] /\ playback' = [g \in Gens |-> {}]
      /\ UNCHANGED <<generation, mediaOp, fileVars, locators>> /\ disposal' = "done"
      /\ \A o \in MediaOps : ~Running(o)
  BY DEF Drained
<1>3. hs \in SUBSET Handles /\ \A h \in Handles \ hs : handle[h].state \notin {"held", "failed"}
  OBVIOUS
<1>4. \A o \in MediaOps : OwnedBy(o)' = OwnedBy(o) \ hs
  <2>1. ASSUME NEW o \in MediaOps PROVE OwnedBy(o)' = {} /\ OwnedBy(o) = {}
    BY <1>2, OpIs DEF OwnedBy, Running, ShapeOf
  <2>. QED
    BY <2>1
<1>5. \A k \in Gens : selection'[k] = IF selection[k] \in hs THEN NoHandle ELSE selection[k]
  BY <1>0, <1>2 DEF MediaInv, OwnInv, OwnersHold
<1>6. \A k \in Gens : playback'[k] = {e \in playback[k] : e.handle \notin hs}
  BY <1>0, <1>2 DEF MediaInv, OwnInv, OwnersHold
<1>. HIDE DEF hs
<1>7. /\ \A h \in Handles \ hs : handle'[h] = handle[h]
      /\ \A h \in hs : handle'[h].state # "held"
      /\ bad = {} => \A h \in Handles : handle'[h].state = "failed" => handle[h].state = "failed" /\ h \notin hs
  BY <1>1, <1>3, CloseIs DEF MediaInv
<1>8. OwnInv'
  BY <1>3, <1>4, <1>5, <1>6, <1>7, OwnersShrink DEF MediaInv
<1>9. ShapeInv' /\ VersionInv' /\ handle' \in [Handles -> HandleType]
  BY <1>1, <1>2, <1>3, <1>8, OpsOutlast
<1>10. MediaTypes'
  BY <1>1, <1>2, <1>9 DEF MediaInv, MediaTypes, fileVars
<1>11. QuietInv'
  BY <1>2 DEF MediaInv, QuietInv
<1>12. CleanQuit'
  BY <1>1, <1>3, <1>7 DEF CleanQuit
<1>. QED
  BY <1>8, <1>9, <1>10, <1>11, <1>12 DEF MediaInv

\* An operation hands its only handle over to a capability of its generation,
\* whose old one is closed.
LEMMA Handover ==
    ASSUME MediaInv, NEW o \in MediaOps, NEW g \in Gens, NEW h \in Handles, OwnedBy(o) = {h}, OwnedBy(o)' = {},
           \A q \in MediaOps : q # o => OwnedBy(q)' = OwnedBy(q),
           NEW hs \in SUBSET Handles, \A q \in MediaOps : OwnedBy(q) \cap hs = {},
           \A k \in Handles \ hs : handle'[k].state = handle[k].state,
           \A k \in hs : handle'[k].state # "held",
           NEW toSelection \in BOOLEAN, NEW c \in Capability, c.handle = h,
           toSelection => selection[g] \in hs \cup {NoHandle},
           \A k \in Gens : selection'[k] = IF k = g /\ toSelection THEN h
                                           ELSE IF selection[k] \in hs THEN NoHandle ELSE selection[k],
           \A k \in Gens : playback'[k] =
              {e \in playback[k] : e.handle \notin hs} \cup (IF k = g /\ ~toSelection THEN {c} ELSE {})
    PROVE  OwnInv'
<1>0. /\ NoHandle \notin Handles
      /\ \A q \in MediaOps : OwnedBy(q) \subseteq Handles
      /\ \A k \in Gens : /\ selection[k] \in Handles \cup {NoHandle}
                         /\ \A e \in playback[k] : e \in Capability /\ e.handle \in Handles
  BY EntriesAre
<1>1. /\ h \notin hs /\ handle[h].state = "held" /\ \A q \in MediaOps : q # o => h \notin OwnedBy(q)
      /\ \A k \in Gens : selection[k] # h /\ \A e \in playback[k] : e.handle # h
  BY DEF MediaInv, OwnInv, OneOwner, OwnersHold
<1>2. ASSUME NEW k \in Gens, NEW e \in playback'[k]
      PROVE  (e \in playback[k] /\ e.handle \notin hs /\ e.handle # h) \/ (k = g /\ e = c /\ ~toSelection)
  BY <1>1
<1>3. OneOwner'
  <2>1. \A q, s \in MediaOps : q # s => OwnedBy(q)' \cap OwnedBy(s)' = {}
    BY DEF MediaInv, OwnInv, OneOwner
  <2>2. ASSUME NEW q \in MediaOps, NEW k \in Gens PROVE selection'[k] \notin OwnedBy(q)'
    BY <1>0, <1>1 DEF MediaInv, OwnInv, OneOwner
  <2>3. ASSUME NEW q \in MediaOps, NEW k \in Gens, NEW e \in playback'[k] PROVE e.handle \notin OwnedBy(q)'
    BY <1>0, <1>1, <1>2 DEF MediaInv, OwnInv, OneOwner
  <2>4. \A l, k \in Gens : selection'[l] = selection'[k] /\ selection'[l] # NoHandle => l = k
    BY <1>0, <1>1 DEF MediaInv, OwnInv, OneOwner
  <2>5. ASSUME NEW l \in Gens, NEW k \in Gens, NEW e \in playback'[l] PROVE selection'[k] # e.handle
    <3>1. CASE e \in playback[l] /\ e.handle \notin hs /\ e.handle # h
      BY <1>0, <3>1 DEF MediaInv, OwnInv, OneOwner
    <3>2. CASE l = g /\ e = c /\ ~toSelection
      BY <1>0, <1>1, <3>2
    <3>. QED
      BY <1>2, <3>1, <3>2
  <2>6. ASSUME NEW l \in Gens, NEW k \in Gens, NEW e \in playback'[l], NEW f \in playback'[k],
                 f.handle = e.handle
        PROVE  l = k /\ f = e
    <3>1. CASE e \in playback[l] /\ e.handle # h
      <4>1. f \in playback[k]
        BY <1>2, <2>6, <3>1
      <4>. QED
        BY <2>6, <3>1, <4>1 DEF MediaInv, OwnInv, OneOwner
    <3>2. CASE l = g /\ e = c
      BY <1>2, <2>6, <3>2
    <3>. QED
      BY <1>2, <3>1, <3>2
  <2>. QED
    BY <2>1, <2>2, <2>3, <2>4, <2>5, <2>6 DEF OneOwner
<1>4. OwnersHold'
  <2>1. ASSUME NEW q \in MediaOps, NEW k \in OwnedBy(q)' PROVE handle'[k].state = "held"
    BY <1>0 DEF MediaInv, OwnInv, OwnersHold
  <2>2. \A k \in Gens : selection'[k] # NoHandle => handle'[selection'[k]].state = "held"
    BY <1>0, <1>1 DEF MediaInv, OwnInv, OwnersHold
  <2>3. ASSUME NEW k \in Gens, NEW e \in playback'[k] PROVE handle'[e.handle].state = "held"
    BY <1>0, <1>1, <1>2 DEF MediaInv, OwnInv, OwnersHold
  <2>. QED
    BY <2>1, <2>2, <2>3 DEF OwnersHold
<1>5. HeldAreOwned'
  <2>. SUFFICES ASSUME NEW k \in Handles, handle'[k].state = "held"
                PROVE  \/ \E q \in MediaOps : k \in OwnedBy(q)'
                       \/ \E l \in Gens : selection'[l] = k \/ \E e \in playback'[l] : e.handle = k
    BY DEF HeldAreOwned
  <2>1. k \notin hs /\ handle[k].state = "held"
    OBVIOUS
  <2>2. CASE k = h
    <3>1. CASE toSelection
      BY <2>2, <3>1
    <3>2. CASE ~toSelection
      <4>1. c \in playback'[g]
        BY <3>2
      <4>. QED
        BY <2>2, <4>1
    <3>. QED
      BY <3>1, <3>2
  <2>3. CASE k # h /\ \E q \in MediaOps : k \in OwnedBy(q)
    BY <2>3
  <2>4. CASE \E l \in Gens : selection[l] = k
    <3>1. PICK l \in Gens : selection[l] = k
      BY <2>4
    <3>2. ~(l = g /\ toSelection)
      BY <1>0, <2>1, <3>1
    <3>3. selection'[l] = k
      BY <2>1, <3>1, <3>2
    <3>. QED
      BY <3>3
  <2>5. CASE \E l \in Gens : \E e \in playback[l] : e.handle = k
    BY <2>1, <2>5
  <2>. QED
    BY <2>1, <2>2, <2>3, <2>4, <2>5 DEF MediaInv, OwnInv, HeldAreOwned
<1>. QED
  BY <1>3, <1>4, <1>5 DEF OwnInv

LEMMA ReplaceStep ==
    ASSUME MediaInv, app = "running", NEW o \in MediaOps, NEW p \in MediaProjects, Replace(o, p)
    PROVE  MediaInv'
<1>. DEFINE g == mediaOp[o].gen
            lease == mediaOp[o].held
            selecting == mediaOp[o].kind # "play"
            rest == IF selecting THEN playback[g] ELSE Newest(Kept(g, p))
            old == IF selecting THEN {selection[g]} \ {NoHandle} ELSE {e.handle : e \in playback[g] \ rest}
<1>0. /\ mediaOp[o].kind \notin {"read", "create"} /\ g \in Gens /\ Single(lease) /\ lease \subseteq Handles
      /\ generation[g] # "revoked"
  BY OpIs DEF Replace, ShapeOf
<1>1. UNCHANGED <<generation, fileVars, disposal, app>> /\ OwnedBy(o) = lease
  BY <1>0 DEF Replace, OwnedBy
<1>2. CASE Drop(o) /\ UNCHANGED entryVars
  BY <1>0, <1>1, <1>2, OpDrops
<1>3. rest \in SUBSET playback[g] /\ selecting \in BOOLEAN /\ (selecting => rest = playback[g])
  BY DEF Newest, Kept
<1>4. /\ NoHandle \notin Handles /\ Failed \subseteq Handles
      /\ \A q \in MediaOps : OwnedBy(q) \subseteq Handles /\ OwnedBy(q) \cap Failed = {}
      /\ \A k \in Gens : /\ selection[k] \in Handles \cup {NoHandle} /\ selection[k] \notin Failed
                         /\ \A e \in playback[k] : e \in Capability /\ e.handle \in Handles
                              /\ e.handle \notin Failed
      /\ selection \in [Gens -> Handles \cup {NoHandle}] /\ playback \in [Gens -> SUBSET Capability]
  BY EntriesAre DEF MediaInv, MediaTypes
<1>5. /\ old \subseteq Handles
      /\ \A q \in MediaOps : OwnedBy(q) \cap old = {}
      /\ \A k \in Gens : (k # g \/ ~selecting) => selection[k] \notin old
      /\ selecting => selection[g] \in old \cup {NoHandle}
      /\ rest = {e \in playback[g] : e.handle \notin old}
      /\ \A k \in Gens : k # g => \A e \in playback[k] : e.handle \notin old
  <2>1. CASE selecting
    BY <1>0, <1>3, <1>4, <2>1 DEF MediaInv, OwnInv, OneOwner
  <2>2. CASE ~selecting
    <3>1. /\ old \subseteq Handles
          /\ \A q \in MediaOps : OwnedBy(q) \cap old = {}
          /\ \A k \in Gens : selection[k] \notin old
      BY <1>0, <1>4, <2>2 DEF MediaInv, OwnInv, OneOwner
    <3>2. ASSUME NEW k \in Gens, NEW e \in playback[k], e.handle \in old PROVE k = g /\ e \notin rest
      <4>1. PICK f \in playback[g] \ rest : f.handle = e.handle
        BY <2>2, <3>2
      <4>. QED
        BY <1>0, <3>2, <4>1 DEF MediaInv, OwnInv, OneOwner
    <3>3. \A e \in playback[g] : e \notin rest => e.handle \in old
      BY <2>2
    <3>. HIDE DEF old, rest, selecting
    <3>. QED
      BY <1>0, <1>3, <2>2, <3>1, <3>2, <3>3
  <2>. QED
    BY <2>1, <2>2
<1>. DEFINE Again == /\ \E bad \in SUBSET (Failed \cup lease) : bad \cap Failed # {}
                          /\ Close(Failed \cup lease, bad)
                     /\ mediaOp' = Ended(o) /\ UNCHANGED entryVars
            Gone == /\ \E bad \in SUBSET (old \cup lease) : bad \cap old # {}
                         /\ Close(Failed \cup old \cup lease, bad)
                    /\ mediaOp' = Ended(o) /\ playback' = [playback EXCEPT ![g] = rest]
                    /\ selection' = IF selecting THEN [selection EXCEPT ![g] = NoHandle] ELSE selection
            Handed == /\ Close(Failed \cup old, {}) /\ mediaOp' = Ended(o)
                      /\ \E h \in lease :
                           IF selecting
                           THEN selection' = [selection EXCEPT ![g] = h] /\ UNCHANGED playback
                           ELSE /\ playback' = [playback EXCEPT ![g] = rest \cup {[project |-> p,
                                     handle |-> h]}]
                                /\ UNCHANGED selection
<1>6. (Drop(o) /\ UNCHANGED entryVars) \/ Again \/ Gone \/ Handed
  BY DEF Replace
<1>. HIDE DEF rest, old, selecting
<1>7. CASE Again
  <2>. DEFINE hs == Failed \cup lease
  <2>1. PICK bad : Close(hs, bad)
    BY <1>7
  <2>2. hs \in SUBSET Handles /\ OwnedBy(o) \subseteq hs /\ hs \subseteq OwnedBy(o) \cup Failed
    BY <1>0, <1>1, <1>4
  <2>3. /\ OnlyOp(o) /\ mediaOp' \in [MediaOps -> MediaOpType] /\ ShapeOf(mediaOp'[o])
        /\ mediaOp'[o].held = {} /\ mediaOp'[o].kind \notin GenerationKinds /\ mediaOp'[o].at = "ended"
    BY <1>7, Ending
  <2>. HIDE DEF hs
  <2>. QED
    BY <1>1, <1>7, <2>1, <2>2, <2>3, OpCloses
<1>8. ASSUME mediaOp' = Ended(o), OwnInv', NEW hs \in SUBSET Handles, NEW bad, Close(hs, bad),
             selection' \in [Gens -> Handles \cup {NoHandle}], playback' \in [Gens -> SUBSET Capability],
             \A k \in Gens : k # g => selection'[k] \in {selection[k], NoHandle}
               /\ playback'[k] \subseteq playback[k]
      PROVE  MediaInv'
  <2>1. /\ OnlyOp(o) /\ mediaOp' \in [MediaOps -> MediaOpType] /\ ShapeOf(mediaOp'[o])
        /\ mediaOp'[o].held = {} /\ mediaOp'[o].kind \notin GenerationKinds /\ mediaOp'[o].at = "ended"
    BY <1>8, Ending
  <2>2. /\ handle' \in [Handles -> HandleType] /\ HandlesGoOn
        /\ \A h \in Handles : handle'[h].version = 0
             \/ (handle'[h].version = handle[h].version /\ handle'[h].inode = handle[h].inode)
    BY <1>8, CloseIs DEF MediaInv
  <2>3. \A h \in Handles : handle'[h].version <= fileContent[handle'[h].inode]
    <3>1. \A h \in Handles : handle'[h].inode \in 1..2
      BY <2>2 DEF HandleType
    <3>2. \A i \in 1..2 : fileContent[i] \in Nat
      BY DEF MediaInv, MediaTypes
    <3>. QED
      BY <2>2, <3>1, <3>2 DEF MediaInv, VersionInv
  <2>4. \A k \in Gens : generation[k] = "revoked" => selection'[k] = NoHandle /\ playback'[k] = {}
    BY <1>0, <1>8 DEF MediaInv, QuietInv
  <2>. QED
    BY <1>1, <1>8, <2>1, <2>2, <2>3, <2>4, OpStep
<1>9. ASSUME mediaOp' = Ended(o)
      PROVE  OwnedBy(o)' = {} /\ \A q \in MediaOps : q # o => OwnedBy(q)' = OwnedBy(q)
  <2>1. OnlyOp(o) /\ mediaOp'[o].held = {}
    BY <1>9, Ending
  <2>. QED
    BY <2>1 DEF OwnedBy, OnlyOp
<1>10. CASE Gone
  <2>. DEFINE hs == Failed \cup old \cup lease
  <2>1. PICK bad : Close(hs, bad)
    BY <1>10
  <2>2. hs \in SUBSET Handles
    BY <1>0, <1>4, <1>5
  <2>3. /\ selection' \in [Gens -> Handles \cup {NoHandle}] /\ playback' \in [Gens -> SUBSET Capability]
        /\ \A k \in Gens : k # g => selection'[k] = selection[k] /\ playback'[k] = playback[k]
        /\ playback'[g] = rest /\ selection'[g] = IF selecting THEN NoHandle ELSE selection[g]
    BY <1>0, <1>3, <1>4, <1>10
  <2>4. \A q \in MediaOps : OwnedBy(q)' = OwnedBy(q) \ hs
    <3>1. \A q \in MediaOps : q # o => OwnedBy(q) \cap lease = {}
      BY <1>1 DEF MediaInv, OwnInv, OneOwner
    <3>. QED
      BY <1>1, <1>4, <1>5, <1>9, <1>10, <3>1
  <2>5. \A k \in Gens : selection'[k] = IF selection[k] \in hs THEN NoHandle ELSE selection[k]
    <3>1. \A k \in Gens : selection[k] \notin lease
      BY <1>1 DEF MediaInv, OwnInv, OneOwner
    <3>2. ASSUME NEW k \in Gens PROVE selection'[k] = IF selection[k] \in hs THEN NoHandle ELSE selection[k]
      <4>1. CASE k # g \/ ~selecting
        BY <1>4, <1>5, <2>3, <3>1, <4>1
      <4>2. CASE k = g /\ selecting
        BY <1>5, <2>3, <4>2
      <4>. QED
        BY <1>3, <4>1, <4>2
    <3>. QED
      BY <3>2
  <2>6. \A k \in Gens : playback'[k] = {e \in playback[k] : e.handle \notin hs}
    <3>1. \A k \in Gens : \A e \in playback[k] : e.handle \notin lease
      BY <1>1 DEF MediaInv, OwnInv, OneOwner
    <3>. QED
      BY <1>4, <1>5, <2>3, <3>1
  <2>. HIDE DEF hs
  <2>7. OwnInv'
    <3>1. /\ \A h \in Handles \ hs : handle'[h].state = handle[h].state
          /\ \A h \in hs : handle'[h].state # "held"
      BY <2>1, <2>2, CloseIs DEF MediaInv
    <3>. QED
      BY <2>2, <2>4, <2>5, <2>6, <3>1, OwnersShrink DEF MediaInv
  <2>. QED
    BY <1>8, <1>10, <2>1, <2>2, <2>3, <2>7
<1>11. CASE Handed
  <2>. DEFINE hs == Failed \cup old  none == {}
  <2>1. Close(hs, none) /\ mediaOp' = Ended(o)
    BY <1>11
  <2>2. hs \in SUBSET Handles /\ \A q \in MediaOps : OwnedBy(q) \cap hs = {}
    BY <1>4, <1>5
  <2>3. PICK h \in lease :
          IF selecting
          THEN selection' = [selection EXCEPT ![g] = h] /\ UNCHANGED playback
          ELSE /\ playback' = [playback EXCEPT ![g] = rest \cup {[project |-> p, handle |-> h]}]
               /\ UNCHANGED selection
    BY <1>11
  <2>4. h \in Handles /\ OwnedBy(o) = {h}
    BY <1>0, <1>1 DEF Single
  <2>. DEFINE c == [project |-> p, handle |-> h]
  <2>5. c \in Capability /\ c.handle = h
    BY <2>4 DEF Capability
  <2>6. /\ selecting => selection' = [selection EXCEPT ![g] = h] /\ playback' = playback
        /\ ~selecting => playback' = [playback EXCEPT ![g] = rest \cup {c}] /\ selection' = selection
    BY <1>3, <2>3
  <2>. HIDE DEF c
  <2>7. /\ selection' \in [Gens -> Handles \cup {NoHandle}] /\ playback' \in [Gens -> SUBSET Capability]
        /\ \A k \in Gens : k # g => selection'[k] = selection[k] /\ playback'[k] = playback[k]
        /\ selection'[g] = IF selecting THEN h ELSE selection[g]
        /\ playback'[g] = rest \cup (IF selecting THEN {} ELSE {c})
    <3>1. CASE selecting
      BY <1>0, <1>3, <1>4, <2>4, <2>6, <3>1
    <3>2. CASE ~selecting
      BY <1>0, <1>3, <1>4, <2>5, <2>6, <3>2
    <3>. QED
      BY <3>1, <3>2
  <2>8. \A k \in Gens : selection'[k] = IF k = g /\ selecting THEN h
                                        ELSE IF selection[k] \in hs THEN NoHandle ELSE selection[k]
    <3>1. ASSUME NEW k \in Gens, k # g \/ ~selecting PROVE selection[k] \notin hs
      BY <1>4, <1>5, <3>1
    <3>. QED
      BY <1>3, <2>7, <3>1
  <2>9. \A k \in Gens : playback'[k] =
              {e \in playback[k] : e.handle \notin hs} \cup (IF k = g /\ ~selecting THEN {c} ELSE {})
    <3>1. ASSUME NEW k \in Gens, k # g PROVE playback[k] = {e \in playback[k] : e.handle \notin hs}
      BY <1>4, <1>5, <3>1
    <3>2. rest = {e \in playback[g] : e.handle \notin hs}
      BY <1>0, <1>4, <1>5
    <3>. QED
      BY <1>0, <2>7, <3>1, <3>2
  <2>10. selecting => selection[g] \in hs \cup {NoHandle}
    BY <1>5
  <2>. HIDE DEF hs, none
  <2>11. OwnInv'
    <3>1. /\ \A k \in Handles \ hs : handle'[k].state = handle[k].state
          /\ \A k \in hs : handle'[k].state # "held"
      BY <2>1, <2>2, CloseIs DEF MediaInv
    <3>2. OwnedBy(o)' = {} /\ \A q \in MediaOps : q # o => OwnedBy(q)' = OwnedBy(q)
      BY <1>9, <2>1
    <3>. QED
      BY <1>0, <1>3, <2>2, <2>4, <2>5, <2>8, <2>9, <2>10, <3>1, <3>2, Handover
  <2>. QED
    BY <1>8, <2>1, <2>2, <2>7, <2>11
<1>. QED
  BY <1>2, <1>6, <1>7, <1>10, <1>11

LEMMA MediaInitially == ASSUME MediaInit PROVE MediaInv
<1>. DEFINE first == CHOOSE g \in Gens : TRUE
            unused == [state |-> "unused", inode |-> 1, version |-> 0]
<1>1. Idle = [kind |-> "none", gen |-> first, at |-> "unused", held |-> {}, seen |-> 0]
  BY DEF Idle
<1>2. Idle \in MediaOpType
  BY <1>1 DEF MediaOpType, MediaKinds, Ats
<1>. HIDE DEF first
<1>3. Idle.kind = "none" /\ Idle.at = "unused" /\ Idle.held = {}
  BY <1>1
<1>4. unused \in HandleType /\ unused.state = "unused" /\ unused.inode = 1 /\ unused.version = 0
  BY DEF HandleType, HandleStates
<1>5. /\ mediaOp = [o \in MediaOps |-> Idle] /\ handle = [h \in Handles |-> unused]
      /\ generation = [g \in Gens |-> "new"] /\ selection = [g \in Gens |-> NoHandle]
           /\ playback = [g \in Gens |-> {}]
      /\ fileContent = [i \in 1..2 |-> 0] /\ inode = 1 /\ edits = 0 /\ disposal = "no" /\ app = "running"
  BY DEF MediaInit
<1>. HIDE DEF unused
<1>6. /\ \A o \in MediaOps : mediaOp[o] = Idle
      /\ \A h \in Handles : handle[h].state = "unused" /\ handle[h].inode = 1 /\ handle[h].version = 0
      /\ \A g \in Gens : generation[g] = "new" /\ selection[g] = NoHandle /\ playback[g] = {}
      /\ \A i \in 1..2 : fileContent[i] = 0
  BY <1>4, <1>5
<1>7. MediaTypes
  <2>1. mediaOp \in [MediaOps -> MediaOpType]
    BY <1>2, <1>5
  <2>2. handle \in [Handles -> HandleType]
    BY <1>4, <1>5
  <2>. QED
    BY <1>5, <2>1, <2>2 DEF MediaTypes
<1>8. ShapeInv
  <2>1. ShapeOf(Idle)
    BY <1>3 DEF ShapeOf
  <2>. QED
    BY <1>3, <1>6, <2>1 DEF ShapeInv
<1>9. OwnInv
  BY <1>3, <1>6 DEF OwnInv, OneOwner, OwnersHold, HeldAreOwned, OwnedBy, Handles, NoHandle
<1>10. QuietInv /\ CleanQuit
  BY <1>5, <1>6 DEF QuietInv, CleanQuit
<1>11. VersionInv
  BY <1>3, <1>5, <1>6 DEF VersionInv
<1>. QED
  BY <1>7, <1>8, <1>9, <1>10, <1>11 DEF MediaInv

LEMMA MediaStep == ASSUME MediaInv, [MediaNext]_mediaVars PROVE MediaInv'
<1>1. CASE UNCHANGED mediaVars
  <2>1. UNCHANGED <<generation, mediaOp, handle, selection, playback, fileContent, inode, edits, disposal, app>>
    BY <1>1 DEF mediaVars, entryVars, fileVars
  <2>2. MediaTypes' /\ ShapeInv'
    BY <2>1 DEF MediaInv, MediaTypes, ShapeInv, ShapeOf, Single, Pair
  <2>3. OwnInv' /\ QuietInv' /\ CleanQuit'
    BY <2>1 DEF MediaInv, OwnInv, OneOwner, OwnersHold, HeldAreOwned, OwnedBy, QuietInv, CleanQuit
  <2>4. VersionInv'
    BY <2>1 DEF MediaInv, VersionInv
  <2>. QED
    BY <2>2, <2>3, <2>4 DEF MediaInv
<1>2. CASE MediaNext
  <2>0. app = "running"
    BY <1>2 DEF MediaNext
  <2>1. CASE (\E g \in Gens : Activate(g) \/ Revoke(g)) \/ BeforeQuit \/ QuitTimeout
    BY <2>0, <2>1, PhaseSteps
  <2>2. CASE \E g \in Gens : RevokeTask(g)
    BY <2>0, <2>2, RevokeTaskStep
  <2>3. CASE Drained \/ EditFile
    BY <2>0, <2>3, DrainedStep, EditFileStep
  <2>4. ASSUME NEW o \in MediaOps,
               \/ \E kind \in GenerationKinds \cup {"range"}, g \in Gens : BeginMedia(o, kind, g)
               \/ Pick(o) \/ Consume(o) \/ (\E h \in Handles : OpenFile(o, h)) \/ VerifiedFile(o)
                    \/ Broken(o) \/ MarkUnavailable(o)
               \/ PublishMedia(o) \/ Release(o) \/ (\E p \in MediaProjects : Replace(o, p))
               \/ (\E g \in Gens : BeginRead(o, g)) \/ StatBefore(o) \/ ReadBytes(o) \/ StatAfter(o)
                    \/ Served(o)
        PROVE  MediaInv'
    <3>1. CASE \/ \E kind \in GenerationKinds \cup {"range"}, g \in Gens : BeginMedia(o, kind, g)
               \/ \E g \in Gens : BeginRead(o, g)
      BY <2>0, <3>1, BeginMediaStep, BeginReadStep
    <3>2. CASE Pick(o) \/ Consume(o) \/ (\E h \in Handles : OpenFile(o, h))
      BY <2>0, <3>2, PickStep, ConsumeStep, OpenFileStep
    <3>3. CASE VerifiedFile(o) \/ Broken(o) \/ MarkUnavailable(o)
      BY <2>0, <3>3, VerifiedFileStep, BrokenStep, MarkStep
    <3>4. CASE PublishMedia(o) \/ Release(o) \/ (\E p \in MediaProjects : Replace(o, p))
      BY <2>0, <3>4, PublishMediaStep, ReleaseStep, ReplaceStep
    <3>5. CASE StatBefore(o) \/ ReadBytes(o) \/ StatAfter(o) \/ Served(o)
      BY <2>0, <3>5, ReaderSteps
    <3>. QED
      BY <2>4, <3>1, <3>2, <3>3, <3>4, <3>5
  <2>. QED
    BY <1>2, <2>1, <2>2, <2>3, <2>4 DEF MediaNext
<1>. QED
  BY <1>1, <1>2

LEMMA OwnedOnce == ASSUME MediaInv PROVE HandlesAreOwned
<1>. SUFFICES ASSUME NEW h \in Handles
              PROVE  Cardinality(Owners(h)) = IF handle[h].state = "held" THEN 1 ELSE 0
  BY DEF HandlesAreOwned
<1>. DEFINE ops == {x \in MediaOps : mediaOp[x].kind # "read" /\ h \in mediaOp[x].held}
            picked == {x \in Gens : selection[x] = h}
            played(g) == {x \in playback[g] : x.handle = h}
<1>0. /\ NoHandle \notin Handles
      /\ \A x \in ops : x \in MediaOps /\ h \in OwnedBy(x)
      /\ \A x \in MediaOps : h \in OwnedBy(x) => x \in ops
  BY DEF Handles, NoHandle, OwnedBy
<1>1. Owners(h) = {<<"operation", o>> : o \in ops} \cup {<<"selection", g>> : g \in picked}
                  \cup UNION {{<<"playback", g, e.project>> : e \in played(g)} : g \in Gens}
  BY DEF Owners
<1>2. CASE handle[h].state = "held"
  <2>1. \E x : Owners(h) = {x}
    <3>1. CASE \E o \in MediaOps : h \in OwnedBy(o)
      <4>1. PICK o \in MediaOps : h \in OwnedBy(o)
        BY <3>1
      <4>2. ops = {o} /\ picked = {} /\ \A g \in Gens : played(g) = {}
        BY <1>0, <4>1 DEF MediaInv, OwnInv, OneOwner
      <4>3. Owners(h) = {<<"operation", o>>}
        BY <1>1, <4>2
      <4>. QED
        BY <4>3
    <3>2. CASE \E g \in Gens : selection[g] = h
      <4>1. PICK g \in Gens : selection[g] = h
        BY <3>2
      <4>2. ops = {} /\ picked = {g} /\ \A k \in Gens : played(k) = {}
        BY <1>0, <4>1 DEF MediaInv, OwnInv, OneOwner
      <4>3. Owners(h) = {<<"selection", g>>}
        BY <1>1, <4>2
      <4>. QED
        BY <4>3
    <3>3. CASE \E g \in Gens : \E e \in playback[g] : e.handle = h
      <4>0. PICK g \in Gens : \E e \in playback[g] : e.handle = h
        BY <3>3
      <4>1. PICK e \in playback[g] : e.handle = h
        BY <4>0
      <4>2. ops = {} /\ picked = {} /\ played(g) = {e} /\ \A k \in Gens : k # g => played(k) = {}
        BY <1>0, <4>1 DEF MediaInv, OwnInv, OneOwner
      <4>3. UNION {{<<"playback", k, f.project>> : f \in played(k)} : k \in Gens} = {<<"playback", g, e.project>>}
        BY <4>2
      <4>4. Owners(h) = {<<"playback", g, e.project>>}
        BY <1>1, <4>2, <4>3
      <4>. QED
        BY <4>4
    <3>. QED
      BY <1>2, <3>1, <3>2, <3>3 DEF MediaInv, OwnInv, HeldAreOwned
  <2>. QED
    BY <1>2, <2>1, FS_Singleton
<1>3. CASE handle[h].state # "held"
  <2>1. ops = {} /\ picked = {} /\ \A g \in Gens : played(g) = {}
    BY <1>0, <1>3 DEF MediaInv, OwnInv, OwnersHold
  <2>2. Owners(h) = {}
    BY <1>1, <2>1
  <2>. QED
    BY <1>3, <2>2, FS_EmptySet
<1>. QED
  BY <1>2, <1>3

LEMMA MediaInvKeepsWord == ASSUME MediaInv PROVE MediaKeepsWord
<1>1. RevokedIsQuiet
  <2>. SUFFICES ASSUME NEW g \in Gens, generation[g] = "revoked" PROVE OpsOf(g) = {} /\ EntriesOf(g) = {NoHandle}
    BY DEF RevokedIsQuiet
  <2>. QED
    BY DEF MediaInv, QuietInv, OpsOf, EntriesOf
<1>2. ServedIsVerified
  <2>. SUFFICES ASSUME NEW o \in MediaOps, mediaOp[o].at = "served"
                PROVE  \E h \in mediaOp[o].held : handle[h].state = "closed" \/ mediaOp[o].seen = handle[h].version
    BY DEF ServedIsVerified
  <2>1. Single(mediaOp[o].held)
    BY OpIs DEF ShapeOf
  <2>2. PICK h \in mediaOp[o].held : TRUE
    BY <2>1 DEF Single
  <2>. QED
    BY <2>2 DEF MediaInv, VersionInv
<1>3. CreatedFromSelected
  <2>. SUFFICES ASSUME NEW o \in MediaOps, mediaOp[o].kind = "create", mediaOp[o].at \in {"task", "release"}
                PROVE  /\ Cardinality(mediaOp[o].held) = 2
                       /\ \A h, k \in mediaOp[o].held : handle[h].inode = handle[k].inode
                            /\ handle[h].version = handle[k].version
    BY DEF CreatedFromSelected
  <2>1. Pair(mediaOp[o].held)
    BY OpIs DEF ShapeOf
  <2>2. PICK h, k \in Handles : h # k /\ mediaOp[o].held = {h, k}
    BY <2>1 DEF Pair
  <2>3. Cardinality({h}) = 1 /\ IsFiniteSet({h})
    BY FS_Singleton
  <2>4. Cardinality({h} \cup {k}) = 2
    <3>. DEFINE S == {h}
    <3>1. k \notin S /\ Cardinality(S) = 1 /\ IsFiniteSet(S)
      BY <2>2, <2>3
    <3>. HIDE DEF S
    <3>2. IsFiniteSet(S)
      BY <3>1
    <3>3. Cardinality(S \cup {k}) = IF k \in S THEN Cardinality(S) ELSE Cardinality(S) + 1
      BY ONLY <3>2, FS_AddElement, Zenon
    <3>. QED
      BY <3>1, <3>3 DEF S
  <2>5. {h} \cup {k} = {h, k}
    OBVIOUS
  <2>6. Cardinality(mediaOp[o].held) = 2
    BY <2>2, <2>4, <2>5
  <2>. QED
    BY <2>6 DEF MediaInv, VersionInv
<1>. QED
  BY <1>1, <1>2, <1>3, OwnedOnce DEF MediaKeepsWord, MediaIsAccounted, MediaIsVerified, MediaInv

\* Whatever crosses what: no handle is used after its close or leaks, an orderly
\* quit leaves none open, a revoked window keeps nothing, and what is played is
\* the file that was verified.
THEOREM MediaPromiseKept == MediaSpec => []MediaKeepsWord
<1>1. MediaInit => MediaInv
  BY MediaInitially
<1>2. MediaInv /\ [MediaNext]_mediaVars => MediaInv'
  BY MediaStep
<1>3. MediaInv => MediaKeepsWord
  BY MediaInvKeepsWord
<1>. QED
  BY <1>1, <1>2, <1>3, PTL DEF MediaSpec

-----------------------------------------------------------------------------
(***************************************************************************)
(* The clean-up of the application's data, for any number of clean-ups and *)
(* of crashes: only what was confirmed goes, and the way to the Library is *)
(* the last thing that goes.                                               *)
(***************************************************************************)

CleanupSteps == {"off", "ask", "check", "next", "claimed", "removed"}
Removals == {"next", "claimed", "removed"}

CleanupTypes ==
    /\ dataDisk \in [Paths -> SUBSET Nat] /\ dataSafe \in [Paths -> SUBSET Nat]
    /\ dataVersion \in [Paths -> Nat] /\ cleanStep \in CleanupSteps
    /\ DOMAIN shownPlan \subseteq Paths /\ chosen \subseteq DOMAIN Categories
    /\ toRemove \in SUBSET Paths /\ removedPaths \subseteq Paths /\ failedPaths \subseteq Paths
    /\ cleanups \in Nat /\ (cleanStep # "off" => cleanups # Own)

\* What is removed was confirmed, with the inventory that was shown, and is not
\* touched again; the path in hand has lost its name, then its claim too.
PlanInv ==
    /\ cleanStep \in {"ask", "check"} => removedPaths = {} /\ failedPaths = {}
    /\ cleanStep \in {"check"} \cup Removals =>
         confirmedPaths = [p \in Confirmed(shownPlan, chosen) |-> shownPlan[p]]
    /\ cleanStep \in Removals =>
         /\ removedPaths \cup failedPaths \cup toRemove \subseteq DOMAIN confirmedPaths
         /\ removedPaths \cap toRemove = {}
         /\ \A p \in DOMAIN confirmedPaths : confirmedPaths[p] = dataVersion[p]
         /\ \A p \in removedPaths : {Own, cleanups} \cap (dataDisk[p] \cup dataSafe[p]) = {}
    /\ cleanStep \in {"claimed", "removed"} =>
         toRemove # {} /\ failedPaths = {} /\ Own \notin dataDisk[Foremost]
    /\ cleanStep = "removed" => cleanups \notin dataDisk[Foremost]

\* While the pointer is still to be removed, nothing is left of what was in
\* front of it but the path in hand, and once the index is gone nothing of it
\* comes back after a crash.
InFront(p) ==
    IF p \notin toRemove
    THEN dataDisk[p] = {} /\ ("project-index.json" \notin toRemove => dataSafe[p] = {})
    ELSE dataDisk[p] \subseteq IF p # Foremost \/ cleanStep = "next" THEN {Own}
                               ELSE IF cleanStep = "claimed" THEN {cleanups} ELSE {}
PointerInv ==
    /\ PointerLast
    /\ cleanStep \in Removals /\ failedPaths = {} =>
         /\ toRemove \cap External # {} => Own \in dataDisk[Pointer] /\ Own \in dataSafe[Pointer]
         /\ Pointer \in toRemove => \A p \in External : InFront(p)

CleanupInv == CleanupTypes /\ PlanInv /\ PointerInv

LEMMA PathsAre ==
    /\ Paths = {"project-library", "objects", "project-index.json", "projects", Pointer, "models"}
    /\ External \subseteq Paths /\ Pointer \in Paths
    /\ Pointer \notin External
    /\ Place \in [Paths -> 1..6]
    /\ \A p \in External : Place[p] < Place[Pointer]
    /\ \A p \in External \cup {"project-library"} : Place[p] < Place[Pointer] /\ Directory(p) # Directory(Pointer)
    /\ \A p \in Paths \ (External \cup {"project-library"}) : Place[p] >= Place[Pointer]
    /\ \A p, q \in External : Directory(p) = Directory(q)
    /\ \A p \in Paths : Directory(p) = "external root" => p \in External
<1>1. Paths = {"project-library", "objects", "project-index.json", "projects", Pointer, "models"}
  BY DEF Paths, Categories, External, Pointer
<1>. QED
  BY <1>1 DEF Place, External, Pointer, Directory

LEMMA NothingPlanned == DOMAIN << >> = {}
  OBVIOUS

LEMMA PlanIs ==
    /\ DOMAIN Plan = Enumerated(dataDisk) /\ Enumerated(dataDisk) \subseteq Paths
    /\ \A p \in Enumerated(dataDisk) : Plan[p] = dataVersion[p] /\ Own \in dataDisk[p]
    /\ \A p \in Enumerated(dataDisk) \cap External : Own \in dataDisk[Pointer]
    /\ \A p \in Paths : Own \in dataDisk[p] /\ (p \in External => Own \in dataDisk[Pointer])
         => p \in Enumerated(dataDisk)
  BY DEF Plan, Enumerated, Present

LEMMA ConfirmedIs ==
    ASSUME NEW plan, NEW cs \in SUBSET DOMAIN Categories
    PROVE  /\ Confirmed(plan, cs) \subseteq DOMAIN plan /\ Confirmed(plan, cs) \subseteq Paths
           /\ Pointer \in Confirmed(plan, cs) => \A p \in External \cap DOMAIN plan : p \in Confirmed(plan, cs)
<1>1. Confirmed(plan, cs) \subseteq DOMAIN plan /\ Confirmed(plan, cs) \subseteq Paths
  BY DEF Confirmed, GroupOf, Paths
<1>2. ASSUME Pointer \in Confirmed(plan, cs) PROVE "projects" \in cs
  BY <1>2 DEF Confirmed, GroupOf, Categories, Pointer
<1>3. External \subseteq Categories["projects"]
  BY DEF Categories
<1>. QED
  BY <1>1, <1>2, <1>3 DEF Confirmed, GroupOf

LEMMA ForemostIs ==
    ASSUME toRemove \in SUBSET Paths, toRemove # {}
    PROVE  Foremost \in toRemove /\ \A q \in toRemove : Place[Foremost] <= Place[q]
<1>1. \E p \in toRemove : \A q \in toRemove : Place[p] <= Place[q]
  <2>1. /\ Place["project-library"] = 1 /\ Place["objects"] = 2 /\ Place["project-index.json"] = 3
        /\ Place["projects"] = 4 /\ Place[Pointer] = 5 /\ Place["models"] = 6
    BY PathsAre DEF Place, Pointer
  <2>2. \A p \in toRemove : p \in {"project-library", "objects", "project-index.json", "projects", Pointer, "models"}
    BY PathsAre
  <2>3. CASE "project-library" \in toRemove
    BY <2>1, <2>2, <2>3
  <2>4. CASE "project-library" \notin toRemove /\ "objects" \in toRemove
    BY <2>1, <2>2, <2>4
  <2>5. CASE {"project-library", "objects"} \cap toRemove = {} /\ "project-index.json" \in toRemove
    BY <2>1, <2>2, <2>5
  <2>6. CASE {"project-library", "objects", "project-index.json"} \cap toRemove = {} /\ "projects" \in toRemove
    BY <2>1, <2>2, <2>6
  <2>7. CASE {"project-library", "objects", "project-index.json", "projects"} \cap toRemove = {}
               /\ Pointer \in toRemove
    BY <2>1, <2>2, <2>7
  <2>8. CASE toRemove \subseteq {"models"}
    <3>1. toRemove = {"models"}
      BY <2>8
    <3>. QED
      BY <2>1, <3>1
  <2>. QED
    BY <2>2, <2>3, <2>4, <2>5, <2>6, <2>7, <2>8
<1>. QED
  BY <1>1 DEF Foremost

LEMMA CleanupInitially == ASSUME CleanupAssumption PROVE CleanupInit => CleanupInv
<1>. SUFFICES ASSUME CleanupInit PROVE CleanupInv
  OBVIOUS
<1>1. CleanupTypes
  <2>1. DOMAIN shownPlan \subseteq Paths
    BY NothingPlanned DEF CleanupInit
  <2>2. dataDisk \in [Paths -> SUBSET Nat] /\ dataSafe \in [Paths -> SUBSET Nat]
          /\ dataVersion \in [Paths -> Nat]
    BY DEF CleanupInit, Own
  <2>. QED
    BY <2>1, <2>2 DEF CleanupInit, CleanupTypes, CleanupSteps, Own
<1>2. PlanInv
  BY DEF CleanupInit, PlanInv, Removals
<1>3. PointerInv
  BY PathsAre DEF CleanupInit, PointerInv, PointerLast, Removals
<1>. QED
  BY <1>1, <1>2, <1>3 DEF CleanupInv

LEMMA CleanupTypesStep == ASSUME CleanupAssumption, CleanupInv, CleanupNext PROVE CleanupTypes'
<1>. USE DEF CleanupInv, CleanupTypes, CleanupSteps, Goto, Quiet, Report, planVars, countVars, dataVars
<1>0. PathsAre!1
  BY PathsAre
<1>1. CASE StartCleanup
  <2>1. DOMAIN shownPlan' \subseteq Paths
    BY <1>1, PlanIs, NothingPlanned DEF StartCleanup
  <2>2. cleanups' \in Nat /\ cleanups' # Own /\ cleanStep' \in CleanupSteps
    BY <1>1 DEF StartCleanup, Own
  <2>. QED
    BY <1>1, <2>1, <2>2 DEF StartCleanup
<1>2. CASE Reinspect
  BY <1>2, ConfirmedIs DEF Reinspect
<1>3. CASE ClaimPath
  <2>1. dataDisk' \in [Paths -> SUBSET Nat]
    BY <1>3 DEF ClaimPath
  <2>. QED
    BY <1>3, <2>1 DEF ClaimPath
<1>4. CASE RemoveClaim
  BY <1>4 DEF RemoveClaim
<1>5. CASE SyncRemoval
  BY <1>5, ForemostIs DEF SyncRemoval, PlanInv
<1>6. CASE RemovalFails
  BY <1>6, ForemostIs DEF RemovalFails
<1>7. CASE ShowResult
  BY <1>7 DEF ShowResult
<1>8. CASE CrashCleanup
  BY <1>8 DEF CrashCleanup
<1>9. CASE RunApplication
  BY <1>9 DEF RunApplication, Own
<1>10. ASSUME NEW c \in DOMAIN Categories, ConfirmCategory(c) PROVE CleanupTypes'
  BY <1>10 DEF ConfirmCategory
<1>11. ASSUME NEW yes \in BOOLEAN, Decide(yes) PROVE CleanupTypes'
  BY <1>11 DEF Decide
<1>12. ASSUME NEW p \in Paths, ChangeData(p) PROVE CleanupTypes'
  BY <1>12 DEF ChangeData
<1>. QED
  BY <1>1, <1>2, <1>3, <1>4, <1>5, <1>6, <1>7, <1>8, <1>9, <1>10, <1>11, <1>12 DEF CleanupNext

LEMMA PlanInvStep == ASSUME CleanupAssumption, CleanupInv, CleanupNext PROVE PlanInv'
<1>. USE DEF CleanupInv, PlanInv, Removals, Goto, Quiet, Report, planVars, countVars, dataVars
<1>0. CleanupTypes
  OBVIOUS
<1>1. CASE StartCleanup
  BY <1>1 DEF StartCleanup
<1>2. CASE Reinspect
  <2>1. CASE SamePlan
    <3>1. cleanStep' = "next" /\ removedPaths = removedPaths' /\ failedPaths' = failedPaths
      BY <1>2, <2>1 DEF Reinspect
    <3>2. removedPaths = {} /\ failedPaths = {}
      BY <1>2 DEF Reinspect
    <3>. QED
      BY <1>2, <2>1, <3>1, <3>2, ConfirmedIs, PlanIs, <1>0 DEF Reinspect, SamePlan, CleanupTypes
  <2>2. CASE ~SamePlan
    BY <1>2, <2>2 DEF Reinspect
  <2>. QED
    BY <2>1, <2>2
<1>3. CASE ClaimPath
  BY <1>3, <1>0, ForemostIs DEF ClaimPath, CleanupTypes, Foremost, Own
<1>4. CASE RemoveClaim
  BY <1>4, <1>0, ForemostIs DEF RemoveClaim, CleanupTypes, Foremost
<1>5. CASE SyncRemoval
  BY <1>5, <1>0, ForemostIs DEF SyncRemoval, CleanupTypes
<1>6. CASE RemovalFails
  BY <1>6, <1>0, ForemostIs DEF RemovalFails, CleanupTypes
<1>7. CASE ShowResult
  BY <1>7 DEF ShowResult
<1>8. CASE CrashCleanup
  BY <1>8 DEF CrashCleanup
<1>9. CASE RunApplication
  BY <1>9 DEF RunApplication
<1>10. ASSUME NEW c \in DOMAIN Categories, ConfirmCategory(c) PROVE PlanInv'
  BY <1>10 DEF ConfirmCategory
<1>11. ASSUME NEW yes \in BOOLEAN, Decide(yes) PROVE PlanInv'
  BY <1>11 DEF Decide
<1>12. ASSUME NEW p \in Paths, ChangeData(p) PROVE PlanInv'
  BY <1>12 DEF ChangeData
<1>. QED
  BY <1>1, <1>2, <1>3, <1>4, <1>5, <1>6, <1>7, <1>8, <1>9, <1>10, <1>11, <1>12 DEF CleanupNext

LEMMA PointerInvStep == ASSUME CleanupAssumption, CleanupInv, CleanupNext PROVE PointerInv'
<1>. USE DEF CleanupInv, PointerInv, Removals, Goto, Quiet, Report, planVars, countVars, dataVars
<1>0. CleanupTypes /\ PlanInv /\ PointerLast
  OBVIOUS
<1>1. CASE StartCleanup
  BY <1>1 DEF StartCleanup, PointerLast
<1>2. CASE Reinspect
  <2>0. PointerLast'
    BY <1>2, <1>0 DEF Reinspect, PointerLast
  <2>1. CASE SamePlan
    <3>1. /\ toRemove' = Confirmed(shownPlan, chosen) /\ shownPlan = Plan /\ cleanStep' = "next" /\ Inspectable
          /\ dataDisk' = dataDisk /\ dataSafe' = dataSafe
      BY <1>2, <2>1 DEF Reinspect, SamePlan
    <3>2. toRemove' \subseteq Enumerated(dataDisk)
      BY <3>1, <1>0, ConfirmedIs, PlanIs DEF CleanupTypes
    <3>3. toRemove' \cap External # {} => Own \in dataDisk[Pointer]
      BY <3>2, PlanIs
    <3>4. toRemove' \cap External # {} => Own \in dataSafe[Pointer]
      BY <3>2, <1>0, PlanIs DEF PointerLast
    <3>5. ASSUME Pointer \in toRemove', NEW p \in External PROVE InFront(p)'
      <4>1. Own \in dataDisk[Pointer]
        BY <3>5, <3>2, PlanIs, PathsAre
      <4>2. dataDisk[p] \subseteq {Own} /\ Own \in dataDisk["project-index.json"]
        BY <4>1, <3>1 DEF Inspectable
      <4>3. Own \in dataDisk[p] => p \in toRemove'
        BY <4>1, <3>1, <3>5, <1>0, PlanIs, ConfirmedIs, PathsAre DEF CleanupTypes
      <4>4. "project-index.json" \in toRemove'
        BY <4>1, <4>2, <3>1, <3>5, <1>0, PlanIs, ConfirmedIs, PathsAre DEF CleanupTypes, External
      <4>. QED
        BY <4>2, <4>3, <4>4, <3>1 DEF InFront
    <3>. QED
      BY <2>0, <3>1, <3>3, <3>4, <3>5
  <2>2. CASE ~SamePlan
    BY <1>2, <2>2, <2>0 DEF Reinspect
  <2>. QED
    BY <2>1, <2>2
<1>3. CASE ClaimPath
  <2>0. /\ toRemove' = toRemove /\ cleanStep = "next" /\ cleanStep' = "claimed" /\ failedPaths = {}
        /\ Foremost \in toRemove /\ Foremost \in Paths /\ dataSafe' = dataSafe /\ cleanups' = cleanups
        /\ dataDisk' = [dataDisk EXCEPT ![Foremost] = (@ \ {Own}) \cup {cleanups}] /\ Foremost' = Foremost
    BY <1>3, <1>0, ForemostIs DEF ClaimPath, CleanupTypes, Foremost
  <2>1. CASE Foremost = Pointer
    <3>1. \A p \in External : p \notin toRemove /\ dataDisk[p] = {} /\ dataSafe[p] = {} /\ dataDisk'[p] = {}
      <4>1. \A q \in toRemove : q \in Paths /\ Place[Pointer] <= Place[q]
        BY <2>0, <2>1, <1>0, ForemostIs DEF CleanupTypes
      <4>2. \A p \in External : p \notin toRemove /\ p # Pointer
        <5>1. /\ \A p \in External : p \in Paths /\ p # Pointer /\ Place[p] < Place[Pointer]
              /\ \A p \in Paths : Place[p] \in Int
              /\ Pointer \in Paths
          <6>1. \A p \in External : p \in Paths /\ p # Pointer
            BY PathsAre
          <6>2. \A p \in External : Place[p] < Place[Pointer]
            BY PathsAre
          <6>3. Place \in [Paths -> 1..6]
            BY PathsAre
          <6>4. \A p \in Paths : Place[p] \in Int
            BY <6>3
          <6>5. Pointer \in Paths
            BY PathsAre
          <6>. QED
            BY <6>1, <6>2, <6>4, <6>5
        <5>. QED
          BY <4>1, <5>1
      <4>3. \A p \in External : dataDisk[p] = {} /\ dataSafe[p] = {}
        BY <4>2, <2>0, <2>1 DEF InFront, External
      <4>. QED
        BY <4>2, <4>3, <2>0, <2>1, <1>0, PathsAre DEF CleanupTypes
    <3>. QED
      BY <2>0, <2>1, <3>1 DEF PointerLast, InFront
  <2>2. CASE Foremost # Pointer
    <3>1. dataDisk'[Pointer] = dataDisk[Pointer]
      BY <2>0, <2>2, <1>0, PathsAre DEF CleanupTypes
    <3>2. PointerLast'
      <4>. SUFFICES ASSUME Own \notin dataDisk[Pointer] \/ Own \notin dataSafe[Pointer], NEW p \in External
                    PROVE  dataDisk'[p] = {} /\ dataSafe[p] = {}
        BY <3>1, <2>0 DEF PointerLast
      <4>1. p # Foremost
        BY <2>0
      <4>. QED
        BY <4>1, <2>0, <1>0, PathsAre DEF PointerLast, CleanupTypes
    <3>3. ASSUME Pointer \in toRemove, NEW p \in External PROVE InFront(p)'
      <4>1. CASE p = Foremost
        BY <4>1, <3>3, <2>0, <1>0 DEF InFront, CleanupTypes
      <4>2. CASE p # Foremost
        BY <4>2, <3>3, <2>0, <1>0, PathsAre DEF InFront, CleanupTypes
      <4>. QED
        BY <4>1, <4>2
    <3>. QED
      BY <3>1, <3>2, <3>3, <2>0
  <2>. QED
    BY <2>1, <2>2
<1>4. CASE RemoveClaim
  <2>0. /\ toRemove' = toRemove /\ cleanStep = "claimed" /\ cleanStep' = "removed" /\ failedPaths = {}
        /\ Foremost \in toRemove /\ Foremost \in Paths /\ dataSafe' = dataSafe /\ cleanups' = cleanups
        /\ dataDisk' = [dataDisk EXCEPT ![Foremost] = @ \ {cleanups}] /\ Foremost' = Foremost
        /\ Own \notin dataDisk[Foremost] /\ cleanups # Own /\ failedPaths' = {}
    BY <1>4, <1>0, ForemostIs DEF RemoveClaim, CleanupTypes, Foremost, PlanInv
  <2>1. Own \in dataDisk[Pointer] <=> Own \in dataDisk'[Pointer]
    BY <2>0, <1>0, PathsAre DEF CleanupTypes
  <2>2. \A p \in External : dataDisk'[p] \subseteq dataDisk[p]
    BY <2>0, <1>0, PathsAre DEF CleanupTypes
  <2>3. PointerLast'
    BY <2>0, <2>1, <2>2, <1>0 DEF PointerLast
  <2>4. ASSUME Pointer \in toRemove, NEW p \in External PROVE InFront(p)'
    <3>1. CASE p = Foremost
      BY <3>1, <2>4, <2>0, <1>0 DEF InFront, CleanupTypes
    <3>2. CASE p # Foremost
      BY <3>2, <2>4, <2>0, <1>0, PathsAre DEF InFront, CleanupTypes
    <3>. QED
      BY <3>1, <3>2
  <2>. QED
    BY <2>0, <2>1, <2>3, <2>4
<1>5. CASE SyncRemoval
  <2>0. /\ toRemove' = toRemove \ {Foremost} /\ cleanStep = "removed" /\ cleanStep' = "next" /\ failedPaths = {}
        /\ Foremost \in toRemove /\ Foremost \in Paths /\ dataDisk' = dataDisk /\ cleanups' = cleanups
        /\ dataSafe' = [p \in Paths |-> IF Directory(p) = Directory(Foremost) THEN dataDisk[p] ELSE dataSafe[p]]
        /\ Own \notin dataDisk[Foremost] /\ failedPaths' = {}
    BY <1>5, <1>0, ForemostIs DEF SyncRemoval, CleanupTypes, PlanInv
  <2>1. \A p \in External : dataSafe'[p] \in {dataDisk[p], dataSafe[p]}
    BY <2>0, PathsAre
  <2>2. dataSafe'[Pointer] \in {dataDisk[Pointer], dataSafe[Pointer]}
    BY <2>0, PathsAre
  <2>3. PointerLast'
    BY <2>0, <2>1, <2>2, <1>0 DEF PointerLast
  <2>4. toRemove' \cap External # {} => Own \in dataDisk[Pointer] /\ Own \in dataSafe'[Pointer]
    BY <2>0, <2>2
  <2>5. ASSUME Pointer \in toRemove', NEW p \in External PROVE InFront(p)'
    <3>0. InFront(p) /\ Pointer \in toRemove
      BY <2>5, <2>0
    <3>1. CASE p \in toRemove'
      BY <3>0, <3>1, <2>0 DEF InFront
    <3>2. CASE p \notin toRemove'
      <4>1. dataDisk[p] = {}
        BY <3>0, <3>2, <2>0 DEF InFront
      <4>2. CASE Foremost \in External
        BY <4>1, <4>2, <3>2, <2>0, PathsAre DEF InFront
      <4>3. CASE Foremost \notin External
        BY <4>1, <4>3, <3>0, <3>2, <2>0, <2>1 DEF InFront, External
      <4>. QED
        BY <4>2, <4>3
    <3>. QED
      BY <3>1, <3>2
  <2>. QED
    BY <2>0, <2>3, <2>4, <2>5
<1>6. CASE RemovalFails
  BY <1>6, <1>0, ForemostIs DEF RemovalFails, CleanupTypes, PointerLast
<1>7. CASE ShowResult
  BY <1>7 DEF ShowResult, PointerLast
<1>8. CASE CrashCleanup
  BY <1>8, <1>0, PathsAre DEF CrashCleanup, PointerLast
<1>9. CASE RunApplication
  <2>1. cleanStep' = "off" /\ dataSafe' = dataDisk' /\ \A p \in Paths : Own \in dataDisk[p] => Own \in dataDisk'[p]
    BY <1>9, <1>0 DEF RunApplication, CleanupTypes
  <2>2. \A p \in External : Own \notin dataDisk[Pointer] => dataDisk'[p] = dataDisk[p]
    BY <1>9, PathsAre DEF RunApplication, External
  <2>. QED
    BY <2>1, <2>2, <1>0, PathsAre DEF PointerLast
<1>10. ASSUME NEW c \in DOMAIN Categories, ConfirmCategory(c) PROVE PointerInv'
  BY <1>10 DEF ConfirmCategory, PointerLast
<1>11. ASSUME NEW yes \in BOOLEAN, Decide(yes) PROVE PointerInv'
  BY <1>11 DEF Decide, PointerLast
<1>12. ASSUME NEW p \in Paths, ChangeData(p) PROVE PointerInv'
  BY <1>12 DEF ChangeData, PointerLast
<1>. QED
  BY <1>1, <1>2, <1>3, <1>4, <1>5, <1>6, <1>7, <1>8, <1>9, <1>10, <1>11, <1>12 DEF CleanupNext

LEMMA CleanupStep == ASSUME CleanupAssumption, CleanupInv, [CleanupNext]_cleanupVars PROVE CleanupInv'
<1>1. CASE CleanupNext
  BY <1>1, CleanupTypesStep, PlanInvStep, PointerInvStep DEF CleanupInv
<1>2. CASE UNCHANGED cleanupVars
  BY <1>2 DEF CleanupInv, CleanupTypes, PlanInv, PointerInv, PointerLast, InFront, Foremost,
     cleanupVars, dataVars, planVars, countVars
<1>. QED
  BY <1>1, <1>2

\* Only what the user confirmed is removed, as it was shown, what is reported
\* removed stays removed, and the pointer to the external root goes last.
THEOREM CleanupPromiseKept == ASSUME CleanupAssumption PROVE CleanupSpec => []CleanupKeepsWord
<1>1. CleanupInv => CleanupKeepsWord
  BY DEF CleanupInv, PlanInv, PointerInv, CleanupKeepsWord, RemovedAsConfirmed, Removals
<1>. QED
  BY <1>1, CleanupInitially, CleanupStep, PTL DEF CleanupSpec

-----------------------------------------------------------------------------
(***************************************************************************)
(* The types of the seven, bounds included, and the composition: what is   *)
(* counted or numbered stays within what was done, and a behaviour of the  *)
(* seven beside each other is a behaviour of each.                         *)
(***************************************************************************)
\* A root holds no more commits than there were.
CommitsInv == acked \in 0..MaxCommits /\ content \in [Roots -> 0..acked]

LEMMA CommitsInitially == ASSUME RelocationAssumption PROVE RelocationInit => CommitsInv
  BY DEF RelocationInit, CommitsInv, RelocationAssumption

LEMMA CommitsStep ==
    ASSUME RelocationAssumption
    PROVE  RInv /\ CommitsInv /\ [RelocationNext]_relocationVars => CommitsInv'
<1>. SUFFICES ASSUME RInv, CommitsInv, [RelocationNext]_relocationVars PROVE CommitsInv'
  OBVIOUS
<1>1. acked \in Nat /\ MaxCommits \in Nat /\ acked <= MaxCommits /\ content \in [Roots -> 0..acked]
  BY DEF CommitsInv, RelocationAssumption
<1>2. CASE Commit
  <2>1. acked' = acked + 1 /\ acked < MaxCommits
    BY <1>2 DEF Commit
  <2>2. content' \in [Roots -> 0..(acked + 1)]
    <3>1. \A r \in Roots : content[r] \in 0..acked
      BY <1>1
    <3>2. \A r \in Roots : content'[r] \in {content[r], content[r] + 1}
      BY <1>1, <1>2 DEF Commit
    <3>3. content' = [r \in Roots |-> content'[r]]
      BY <1>1, <1>2 DEF Commit
    <3>4. \A r \in Roots : content'[r] \in 0..(acked + 1)
      BY <1>1, <3>1, <3>2
    <3>. QED
      BY <3>3, <3>4
  <2>. QED
    BY <1>1, <2>1, <2>2 DEF CommitsInv
<1>3. CASE Copy
  <2>1. acked' = acked /\ active \in Roots
    BY <1>3 DEF Copy, RInv, StepTypes
  <2>2. content' \in [Roots -> 0..acked]
    BY <1>1, <1>3, <2>1 DEF Copy
  <2>. QED
    BY <1>1, <2>1, <2>2 DEF CommitsInv
<1>4. ASSUME UNCHANGED <<content, acked>> PROVE CommitsInv'
  BY <1>4 DEF CommitsInv
<1>5. UNCHANGED relocationVars => UNCHANGED <<content, acked>>
  BY DEF relocationVars, diskVars
<1>6. CASE RelocationNext /\ ~Commit /\ ~Copy
  <2>1. UNCHANGED <<content, acked>>
    BY <1>6 DEF RelocationNext, Begin, SyncJournal, MakeStaging, MarkStaging, Install, SyncTarget, Locate,
         SyncLocation, Adopt, ClaimStaging, RemoveStaging, ClaimTarget, RemoveTarget, Unmark, ClearJournal,
         SyncClear, Reconcile, Fail, Crash, Open, Foreign, Relocate, diskVars
  <2>. QED
    BY <1>4, <2>1
<1>. QED
  BY <1>2, <1>3, <1>4, <1>5, <1>6

LEMMA RelocationTypes == ASSUME RelocationAssumption, RInv, CommitsInv PROVE RelocationTypeOK
<1>1. record \in records /\ parent \in parents /\ record \in Records /\ parent \in Parents
  BY DEF RInv, DiskTypes
<1>2. record.location \in Roots /\ record.journal.of \in Targets \cup {NoTarget}
  BY <1>1 DEF Records, Journals, Roots
<1>3. /\ {parent.staging, parent.claimed, parent.targetClaimed} \subseteq Entries
      /\ parent.at \in [Targets -> Entries]
  BY <1>1 DEF Parents
<1>4. content \in [Roots -> 0..MaxCommits]
  <2>1. \A n \in 0..acked : n \in 0..MaxCommits
    BY DEF CommitsInv, RelocationAssumption
  <2>. QED
    BY <2>1 DEF CommitsInv
<1>5. active \in Roots \cup {NoTarget}
  BY DEF RInv, StepTypes
<1>. QED
  BY <1>1, <1>2, <1>3, <1>4, <1>5 DEF RelocationTypeOK

LEMMA RelocationTypesKept == ASSUME RelocationAssumption PROVE RelocationSpec => []RelocationTypeOK
  BY RelocationInitially, RelocationStep, CommitsInitially, CommitsStep, RelocationTypes, PTL DEF RelocationSpec

LEMMA StoreTypesOK == ASSUME StoreInv PROVE StoreTypeOK
  BY DEF StoreInv, StoreTypes, StoreTypeOK, Conditions

LEMMA CatalogTypesOK == ASSUME CatalogAssumption, CatalogInv PROVE CatalogTypeOK
  BY DEF CatalogInv, CatalogTypes, CatalogTypeOK, CatalogCopy

LEMMA ImportTypesOK == ASSUME ImportAssumption, ImportInv PROVE ImportTypeOK
<1>1. \A i \in Identities : entries[i].state \in {"none", "active", "trashed"}
  BY DEF ImportInv, ImportTypes, Entry
<1>2. {cacheRecord.claim, cacheRecordSafe.claim, stored} \subseteq {"none", "archive", "snapshot"}
  BY DEF ImportInv, ImportTypes, CacheRecords, Claims
<1>3. importing.index \in 0..MaxCopies
  BY DEF ImportInv, ImportTypes, Importing
<1>4. {bytesFile, bytesSafe} \subseteq Archives \cup {NoBytes}
  BY DEF ImportInv, ImportTypes
<1>. QED
  BY <1>1, <1>2, <1>3, <1>4 DEF ImportTypeOK

\* Of handles that differ each, those with fewer than a number of newer ones
\* are no more than that number.
LEMMA FewNewest ==
    ASSUME NEW S, IsFiniteSet(S), \A e \in S : e.handle \in Nat, \A e, f \in S : e.handle = f.handle => e = f,
           NEW K \in Nat, \A e \in S : Cardinality(Newer(e, S)) < K
    PROVE  Cardinality(S) <= K
<1>1. CASE S = {}
  BY <1>1, FS_EmptySet
<1>2. CASE S # {}
  <2>. DEFINE T == {e.handle : e \in S}
  <2>1. T \subseteq Nat /\ T # {}
    BY <1>2
  <2>2. IsWellFoundedOn(OpToRel(<, Nat), Nat)
    BY NatLessThanWellFounded
  <2>3. PICK x \in T : \A y \in T : ~ (<<y, x>> \in OpToRel(<, Nat))
    BY <2>1, <2>2, WFMin
  <2>4. PICK e \in S : e.handle = x
    BY <2>3
  <2>5. \A f \in S : f # e => f.handle > e.handle
    <3>. SUFFICES ASSUME NEW f \in S, f # e PROVE f.handle > e.handle
      OBVIOUS
    <3>1. f.handle \in T /\ f.handle \in Nat /\ x \in Nat /\ f.handle # x
      BY <2>4
    <3>2. ~(f.handle < x)
      BY <2>3, <3>1 DEF OpToRel
    <3>. QED
      BY <2>4, <3>1, <3>2
  <2>6. Newer(e, S) = S \ {e}
    BY <2>5 DEF Newer
  <2>. DEFINE others == S \ {e}
  <2>7. /\ IsFiniteSet(others) /\ Cardinality(others) = Cardinality(S) - 1
    BY <2>4, FS_RemoveElement
  <2>8. Cardinality(S) \in Nat /\ Cardinality(others) < K
    BY <2>4, <2>6, FS_CardinalityType
  <2>. QED
    BY <2>7, <2>8
<1>. QED
  BY <1>1, <1>2

\* A generation has no more playback capabilities than it may.
PlaybackInv == \A g \in Gens : IsFiniteSet(playback[g]) /\ Cardinality(playback[g]) <= MaxPlayback

LEMMA Fewer ==
    ASSUME NEW S, IsFiniteSet(S), NEW n \in Nat, Cardinality(S) <= n, NEW R \in SUBSET S
    PROVE  IsFiniteSet(R) /\ Cardinality(R) <= n
<1>1. IsFiniteSet(R) /\ Cardinality(R) <= Cardinality(S)
  BY FS_Subset
<1>. QED
  BY <1>1, FS_CardinalityType

LEMMA PlaybackInitially == ASSUME MediaAssumption, MediaInit PROVE PlaybackInv
<1>1. \A g \in Gens : playback[g] = {}
  BY DEF MediaInit
<1>2. IsFiniteSet({}) /\ Cardinality({}) = 0
  BY FS_EmptySet
<1>. QED
  BY <1>1, <1>2 DEF PlaybackInv, MediaAssumption

LEMMA PlaybackShrinks ==
    ASSUME MediaAssumption, PlaybackInv, \A g \in Gens : playback'[g] \in SUBSET playback[g]
    PROVE  PlaybackInv'
<1>. SUFFICES ASSUME NEW g \in Gens PROVE IsFiniteSet(playback'[g]) /\ Cardinality(playback'[g]) <= MaxPlayback
  BY DEF PlaybackInv
<1>. DEFINE S == playback[g]
            R == playback'[g]
<1>1. IsFiniteSet(S) /\ Cardinality(S) <= MaxPlayback /\ R \in SUBSET S /\ MaxPlayback \in Nat
  BY DEF PlaybackInv, MediaAssumption
<1>. HIDE DEF S, R
<1>2. IsFiniteSet(R) /\ Cardinality(R) <= MaxPlayback
  BY <1>1, Fewer
<1>. QED
  BY <1>2 DEF R

LEMMA NewestFit ==
    ASSUME MediaAssumption, MediaInv, PlaybackInv, NEW g \in Gens, NEW p
    PROVE  IsFiniteSet(Newest(Kept(g, p))) /\ Cardinality(Newest(Kept(g, p))) <= MaxPlayback - 1
<1>. DEFINE es == Kept(g, p)
            S == Newest(es)
            K == MaxPlayback - 1
<1>1. es \subseteq playback[g] /\ S \subseteq es
  BY DEF Kept, Newest
<1>2. /\ IsFiniteSet(playback[g]) /\ K \in Nat
  BY DEF PlaybackInv, MediaAssumption
<1>3. IsFiniteSet(es) /\ IsFiniteSet(S)
  <2>1. S \subseteq playback[g]
    BY <1>1
  <2>. HIDE DEF es, S
  <2>. QED
    BY <1>1, <1>2, <2>1, FS_Subset
<1>4. \A e \in S : e.handle \in Nat
  BY <1>1, EntriesAre DEF Handles
<1>5. \A e, f \in S : e.handle = f.handle => e = f
  BY <1>1 DEF MediaInv, OwnInv, OneOwner
<1>6. ASSUME NEW e \in S PROVE Cardinality(Newer(e, S)) < K
  <2>1. Cardinality(Newer(e, es)) < K
    BY <1>6 DEF Newest
  <2>. DEFINE big == Newer(e, es)
              small == Newer(e, S)
  <2>2. small \in SUBSET big /\ big \in SUBSET es
    BY <1>1 DEF Newer
  <2>. HIDE DEF big, small, es, S, K
  <2>3. IsFiniteSet(big)
    BY <1>3, <2>2, FS_Subset
  <2>4. IsFiniteSet(small) /\ Cardinality(small) <= Cardinality(big)
    BY <2>2, <2>3, FS_Subset
  <2>5. Cardinality(small) \in Nat /\ Cardinality(big) \in Nat
    BY <2>3, <2>4, FS_CardinalityType
  <2>6. Cardinality(big) < K
    BY <2>1 DEF big
  <2>7. Cardinality(small) < K
    BY <1>2, <2>4, <2>5, <2>6
  <2>. QED
    BY <2>7 DEF small
<1>. HIDE DEF S, K
<1>7. Cardinality(S) <= K
  BY <1>2, <1>3, <1>4, <1>5, <1>6, FewNewest
<1>. QED
  BY <1>3, <1>7 DEF S, K

LEMMA PlaybackAdds ==
    ASSUME MediaAssumption, MediaInv, PlaybackInv, NEW o \in MediaOps, NEW p \in MediaProjects, Replace(o, p)
    PROVE  PlaybackInv'
<1>. DEFINE g == mediaOp[o].gen
            rest == Newest(Kept(g, p))
<1>1. g \in Gens /\ playback \in [Gens -> SUBSET Capability]
  BY OpIs DEF Replace, ShapeOf, MediaInv, MediaTypes
<1>2. rest \in SUBSET playback[g]
  BY DEF Newest, Kept
<1>3. \/ playback' = playback
      \/ playback' = [playback EXCEPT ![g] = rest]
      \/ playback' = [playback EXCEPT ![g] = playback[g]]
      \/ \E h \in mediaOp[o].held : playback' = [playback EXCEPT ![g] = rest \cup {[project |-> p, handle |-> h]}]
  BY DEF Replace, entryVars
<1>4. IsFiniteSet(rest) /\ Cardinality(rest) <= MaxPlayback - 1
  BY <1>1, NewestFit
<1>. HIDE DEF rest, g
<1>5. CASE playback' = playback \/ playback' = [playback EXCEPT ![g] = playback[g]]
           \/ playback' = [playback EXCEPT ![g] = rest]
  <2>1. \A k \in Gens : playback'[k] \in SUBSET playback[k]
    BY <1>1, <1>2, <1>5
  <2>. QED
    BY <2>1, PlaybackShrinks
<1>6. ASSUME NEW h \in mediaOp[o].held, playback' = [playback EXCEPT ![g] = rest \cup {[project |-> p, handle |-> h]}]
      PROVE  PlaybackInv'
  <2>. DEFINE c == [project |-> p, handle |-> h]
              after == rest \cup {c}
  <2>1. playback'[g] = after /\ \A k \in Gens : k # g => playback'[k] = playback[k]
    BY <1>1, <1>6
  <2>. HIDE DEF c
  <2>2. IsFiniteSet(after) /\ (Cardinality(after) = Cardinality(rest) \/ Cardinality(after) = Cardinality(rest) + 1)
    BY <1>4, FS_AddElement
  <2>3. Cardinality(rest) \in Nat /\ MaxPlayback \in Nat
    BY <1>4, FS_CardinalityType DEF MediaAssumption
  <2>. HIDE DEF after
  <2>4. Cardinality(after) <= MaxPlayback
    BY <1>4, <2>2, <2>3
  <2>. QED
    BY <2>1, <2>2, <2>4 DEF PlaybackInv
<1>. QED
  BY <1>3, <1>5, <1>6

LEMMA PlaybackStep ==
    ASSUME MediaAssumption
    PROVE  MediaInv /\ PlaybackInv /\ [MediaNext]_mediaVars => PlaybackInv'
<1>. SUFFICES ASSUME MediaInv, PlaybackInv, [MediaNext]_mediaVars PROVE PlaybackInv'
  OBVIOUS
<1>0. playback \in [Gens -> SUBSET Capability]
  BY DEF MediaInv, MediaTypes
<1>1. ASSUME playback' = playback PROVE PlaybackInv'
  BY <1>1 DEF PlaybackInv
<1>2. CASE UNCHANGED mediaVars
  BY <1>1, <1>2 DEF mediaVars, entryVars
<1>3. ASSUME NEW g \in Gens, Activate(g) \/ Revoke(g) \/ RevokeTask(g) PROVE PlaybackInv'
  <2>1. playback' = playback \/ playback' = [playback EXCEPT ![g] = {}]
    BY <1>3 DEF Activate, Revoke, RevokeTask, entryVars
  <2>2. \A k \in Gens : playback'[k] \in SUBSET playback[k]
    BY <1>0, <2>1
  <2>. QED
    BY <2>2, PlaybackShrinks
<1>4. CASE Drained
  <2>1. \A k \in Gens : playback'[k] \in SUBSET playback[k]
    BY <1>4 DEF Drained
  <2>. QED
    BY <2>1, PlaybackShrinks
<1>5. CASE BeforeQuit \/ QuitTimeout \/ EditFile
  <2>1. playback' = playback
    BY <1>5 DEF BeforeQuit, QuitTimeout, EditFile, entryVars
  <2>. QED
    BY <1>1, <2>1
<1>6. ASSUME NEW o \in MediaOps,
             \/ \E kind \in GenerationKinds \cup {"range"}, g \in Gens : BeginMedia(o, kind, g)
             \/ Pick(o) \/ Consume(o) \/ (\E h \in Handles : OpenFile(o, h)) \/ VerifiedFile(o)
             \/ Broken(o) \/ MarkUnavailable(o) \/ PublishMedia(o) \/ Release(o)
             \/ (\E g \in Gens : BeginRead(o, g)) \/ StatBefore(o) \/ ReadBytes(o) \/ StatAfter(o) \/ Served(o)
      PROVE  PlaybackInv'
  <2>1. playback' = playback
    BY <1>6 DEF BeginMedia, Pick, Consume, OpenFile, VerifiedFile, Broken, MarkUnavailable, PublishMedia, Release,
         BeginRead, StatBefore, Stat, ReadBytes, StatAfter, Served, entryVars
  <2>. QED
    BY <1>1, <2>1
<1>. QED
  BY <1>2, <1>3, <1>4, <1>5, <1>6, PlaybackAdds DEF MediaNext

LEMMA MediaTypesOK == ASSUME MediaInv, PlaybackInv PROVE MediaTypeOK
<1>1. \A h \in Handles : handle[h].state \in {"unused", "held", "failed", "closed"}
  BY DEF MediaInv, MediaTypes, HandleType, HandleStates
<1>2. \A o \in MediaOps : mediaOp[o].held \subseteq Handles
  BY DEF MediaInv, MediaTypes, MediaOpType
<1>3. \A g \in Gens : selection[g] \in Handles \cup {NoHandle}
  BY DEF MediaInv, MediaTypes
<1>. QED
  BY <1>1, <1>2, <1>3 DEF MediaInv, MediaTypes, PlaybackInv, MediaTypeOK

LEMMA MediaTypesKept == ASSUME MediaAssumption PROVE MediaSpec => []MediaTypeOK
  BY MediaInitially, MediaStep, PlaybackInitially, PlaybackStep, MediaTypesOK, PTL DEF MediaSpec

USE DEF fileState, exportState, recoveryState, exportWorld, exportBounds, At, Journaled, Published

\* Which exports have been answered, and which a recovery has still to see: a
\* Receipt is pending for some of those it has seen, or that ended since.
Answered == {e \in Exports : exportResult[e] # "none"}
Unseen == recovery.left \cup (IF recovery.at \in {"read", "temp", "journal"} THEN {recovery.name} ELSE {})
PendingInv ==
    /\ journal \cup journalSafe \subseteq Answered \cup {exporting}
    /\ Unseen \subseteq Answered
    /\ recovery.at \in {"read", "temp", "journal"} => recovery.name \notin recovery.left
    /\ pendingRecovery \in Nat /\ pendingRecovery + Cardinality(Unseen) <= Cardinality(Answered)

LEMMA ExportsFinite ==
    ASSUME ExportAssumption
    PROVE  /\ IsFiniteSet(Exports) /\ Cardinality(Exports) = MaxExports
           /\ \A S \in SUBSET Exports : IsFiniteSet(S) /\ Cardinality(S) \in Nat /\ Cardinality(S) <= MaxExports
<1>1. IsFiniteSet(1..MaxExports) /\ Cardinality(1..MaxExports) = MaxExports
  BY FS_Interval DEF ExportAssumption
<1>2. IsFiniteSet(Exports) /\ Cardinality(Exports) = MaxExports
  BY <1>1 DEF Exports
<1>3. ASSUME NEW S \in SUBSET Exports
      PROVE  IsFiniteSet(S) /\ Cardinality(S) \in Nat /\ Cardinality(S) <= MaxExports
  <2>1. IsFiniteSet(S) /\ Cardinality(S) <= Cardinality(Exports)
    BY <1>2, FS_Subset
  <2>2. Cardinality(S) \in Nat
    BY <2>1, FS_CardinalityType
  <2>. QED
    BY <1>2, <2>1, <2>2
<1>. QED
  BY <1>2, <1>3

LEMMA FewerExports ==
    ASSUME ExportAssumption, NEW S \in SUBSET Exports, NEW R \in SUBSET S
    PROVE  Cardinality(R) <= Cardinality(S) /\ Cardinality(R) \in Nat /\ Cardinality(S) \in Nat
<1>1. IsFiniteSet(S) /\ Cardinality(S) \in Nat
  BY ExportsFinite
<1>2. R \in SUBSET Exports
  OBVIOUS
<1>3. Cardinality(R) \in Nat
  BY <1>2, ExportsFinite
<1>. QED
  BY <1>1, <1>3, FS_Subset

LEMMA OneExportLess ==
    ASSUME ExportAssumption, NEW S \in SUBSET Exports, NEW e \in S
    PROVE  Cardinality(S \ {e}) = Cardinality(S) - 1
<1>1. IsFiniteSet(S)
  BY ExportsFinite
<1>. QED
  BY <1>1, FS_RemoveElement

LEMMA PendingInitially == ASSUME ExportAssumption, ExportInit PROVE PendingInv
<1>1. Answered = {} /\ Unseen = {} /\ journal = {} /\ journalSafe = {} /\ pendingRecovery = 0 /\ recovery.at = "none"
  BY DEF ExportInit, Answered, Unseen, NoRecovery
<1>2. Cardinality({}) = 0
  BY FS_EmptySet
<1>3. Cardinality(Unseen) = 0 /\ Cardinality(Answered) = 0
  BY <1>1, <1>2
<1>. QED
  BY <1>1, <1>3 DEF PendingInv

\* An export is answered, whatever has become of the journals.
LEMMA PendingReturn ==
    ASSUME ExportAssumption, ExportInv, PendingInv, exporting \in Exports, NEW r \in Results \ {"none"},
           exportResult' = [exportResult EXCEPT ![exporting] = r],
           exporting' = 0, recovery' = recovery, pendingRecovery' \in {pendingRecovery, pendingRecovery + 1},
           journal' \cup journalSafe' \subseteq journal \cup journalSafe
    PROVE  PendingInv'
<1>1. exportResult[exporting] = "none" /\ exportResult \in [Exports -> Results]
  BY ExportNumbers DEF ExportInv, TurnInv, ExportTypes
<1>2. Answered' = Answered \cup {exporting} /\ exporting \notin Answered
  BY <1>1 DEF Answered
<1>3. Unseen' = Unseen
  BY DEF Unseen
<1>. DEFINE more == Answered \cup {exporting}
<1>4. more \in SUBSET Exports /\ exporting \in more /\ more \ {exporting} = Answered
  BY <1>2 DEF Answered
<1>. HIDE DEF more
<1>5. Cardinality(Answered) = Cardinality(more) - 1
  BY <1>4, OneExportLess
<1>6. Unseen \in SUBSET Exports /\ Answered \in SUBSET Exports
  BY DEF PendingInv, Answered
<1>7. Cardinality(more) \in Nat /\ Cardinality(Unseen) \in Nat /\ Cardinality(Answered) \in Nat
  BY <1>4, <1>6, ExportsFinite
<1>8. Answered' = more
  BY <1>2 DEF more
<1>9. pendingRecovery' \in Nat /\ pendingRecovery' + Cardinality(Unseen') <= Cardinality(Answered')
  BY <1>3, <1>5, <1>7, <1>8 DEF PendingInv
<1>. QED
  BY <1>2, <1>3, <1>9 DEF PendingInv

\* A recovery starts from what the journals name.
LEMMA PendingRestart ==
    ASSUME ExportAssumption, journal' \cup journalSafe' \subseteq Answered' \cup {exporting'}, journal' \subseteq Answered',
           recovery' = [at |-> "next", name |-> 0, left |-> journal'], pendingRecovery' = 0
    PROVE  PendingInv'
<1>1. Unseen' = journal'
  BY DEF Unseen
<1>. DEFINE A == Answered'
            J == journal'
<1>2. A \in SUBSET Exports /\ J \in SUBSET A
  BY DEF Answered
<1>. HIDE DEF A, J
<1>3. Cardinality(J) <= Cardinality(A) /\ Cardinality(J) \in Nat /\ Cardinality(A) \in Nat
  BY <1>2, FewerExports
<1>4. 0 + Cardinality(J) <= Cardinality(A)
  BY <1>3
<1>. QED
  BY <1>1, <1>4 DEF PendingInv, A, J

\* One of the names is done with, its Receipt pending or not.
LEMMA PendingSeen ==
    ASSUME ExportAssumption, ExportInv, PendingInv, recovery.at \in {"read", "temp", "journal"},
           recovery' = Next1, pendingRecovery' \in {pendingRecovery, pendingRecovery + 1},
           UNCHANGED <<exporting, exportResult>>, journal' \cup journalSafe' \subseteq journal \cup journalSafe
    PROVE  PendingInv'
<1>1. recovery \in Recoveries /\ recovery.left \in SUBSET Exports
  BY DEF ExportInv, ExportTypes, Recoveries
<1>2. recovery'.at = "next" /\ recovery'.left = recovery.left
  BY <1>1 DEF Next1, Recoveries
<1>3. /\ Unseen' = recovery.left /\ Unseen = recovery.left \cup {recovery.name}
      /\ recovery.name \notin recovery.left /\ Answered' = Answered
  BY <1>2 DEF Unseen, PendingInv, Answered
<1>. DEFINE U == Unseen
            R == recovery.left
<1>4. U \in SUBSET Exports /\ recovery.name \in U /\ U \ {recovery.name} = R /\ Answered \in SUBSET Exports
  BY <1>1, <1>3 DEF PendingInv, Answered
<1>. HIDE DEF U, R
<1>5. Cardinality(R) = Cardinality(U) - 1
  BY <1>4, OneExportLess
<1>6. Cardinality(U) \in Nat /\ Cardinality(Answered) \in Nat
  BY <1>4, ExportsFinite
<1>7. pendingRecovery \in Nat /\ pendingRecovery + Cardinality(U) <= Cardinality(Answered)
  BY DEF PendingInv, U
<1>8. pendingRecovery' \in Nat /\ pendingRecovery' + Cardinality(R) <= Cardinality(Answered)
  BY <1>5, <1>6, <1>7
<1>9. pendingRecovery' + Cardinality(Unseen') <= Cardinality(Answered')
  BY <1>3, <1>8 DEF R
<1>10. R \subseteq Answered
  BY <1>4 DEF PendingInv, U
<1>. QED
  BY <1>2, <1>3, <1>8, <1>9, <1>10 DEF PendingInv, R

LEMMA PendingStep ==
    ASSUME ExportAssumption, ExportInv, PendingInv, [ExportsNext]_exportVars PROVE PendingInv'
<1>0. /\ journal \subseteq Exports /\ journalSafe \subseteq Exports
      /\ exporting \in 0..MaxExports /\ 0 \notin Exports /\ recovery \in Recoveries
      /\ \A e \in 0..MaxExports : e # 0 => e \in Exports
  BY ExportNumbers DEF ExportInv, ExportTypes
<1>1. ASSUME UNCHANGED <<recovery, pendingRecovery, exportResult>>, exporting' = exporting \/ exporting = 0,
             journal' \cup journalSafe' \subseteq journal \cup journalSafe \cup ({exporting'} \ {0})
      PROVE  PendingInv'
  <2>1. Answered' = Answered /\ Unseen' = Unseen
    BY <1>1 DEF Answered, Unseen
  <2>2. journal' \cup journalSafe' \subseteq Answered' \cup {exporting'}
    BY <1>0, <1>1, <2>1 DEF PendingInv, Answered
  <2>. QED
    BY <1>1, <2>1, <2>2 DEF PendingInv
<1>2. CASE UNCHANGED exportVars
  BY <1>1, <1>2 DEF exportVars
<1>3. CASE Publish \/ PickTarget \/ SyncExportJournal \/ WriteTemp \/ SyncTemp \/ Rename \/ SyncExported
           \/ RecordReceipt \/ RemoveJournal \/ CancelExport \/ Touch
  <2>1. UNCHANGED <<recovery, pendingRecovery, exportResult>> /\ (exporting' = exporting \/ exporting = 0)
    BY <1>3 DEF Publish, ExportBusy, PickTarget, SyncExportJournal, WriteTemp, SyncTemp, Rename, SyncExported, RecordReceipt,
         RemoveJournal, CancelExport, Touch
  <2>2. journal' \cup journalSafe' \subseteq journal \cup journalSafe
    BY <1>3 DEF Publish, PickTarget, SyncExportJournal, WriteTemp, SyncTemp, Rename, SyncExported, RecordReceipt,
         RemoveJournal, CancelExport, Touch
  <2>. QED
    BY <1>1, <2>1, <2>2
<1>4. CASE WriteJournal
  <2>1. exporting # 0
    BY <1>4 DEF WriteJournal, ExportInv, TurnInv
  <2>. QED
    BY <1>1, <1>4, <2>1 DEF WriteJournal
<1>5. CASE PickNone \/ Saved \/ ExportStops
  <2>1. exporting \in Exports /\ exporting' = 0 /\ recovery' = recovery
        /\ pendingRecovery' \in {pendingRecovery, pendingRecovery + 1}
    BY <1>0, <1>5 DEF PickNone, Saved, ExportStops, Return, ExportInv, TurnInv
  <2>2. \E r \in Results \ {"none"} : exportResult' = [exportResult EXCEPT ![exporting] = r]
    BY <1>5 DEF PickNone, Saved, ExportStops, Return, Results
  <2>3. journal' \cup journalSafe' \subseteq journal \cup journalSafe
    BY <1>5 DEF PickNone, Saved, ExportStops, CleanUp
  <2>. QED
    BY <2>1, <2>2, <2>3, PendingReturn
<1>6. CASE Recover
  <2>1. journal' = journal /\ journalSafe' = journalSafe /\ Answered' = Answered /\ exporting = 0 /\ exporting' = exporting
    BY <1>6 DEF Recover, ExportBusy, Answered
  <2>2. journal \subseteq Answered
    BY <1>0, <2>1 DEF PendingInv
  <2>. QED
    BY <1>6, <2>1, <2>2, PendingRestart DEF Recover, PendingInv
<1>7. ASSUME NEW e \in Exports, RecoverNext(e) PROVE PendingInv'
  <2>1. UNCHANGED <<journal, journalSafe, exporting, exportResult, pendingRecovery>>
    BY <1>7 DEF RecoverNext
  <2>2. /\ e \in recovery.left /\ recovery.at = "next"
        /\ recovery'.at = "read" /\ recovery'.name = e /\ recovery'.left = recovery.left \ {e}
    BY <1>7 DEF RecoverNext
  <2>3. Unseen' = Unseen /\ Answered' = Answered
    BY <2>1, <2>2 DEF Unseen, Answered
  <2>4. recovery'.name \notin recovery'.left
    BY <2>2
  <2>. QED
    BY <2>1, <2>3, <2>4 DEF PendingInv
<1>8. CASE RecoverReceipt \/ RecoverTemp \/ RecoverFails \/ RecoverJournal
  <2>1. /\ UNCHANGED <<exporting, exportResult>> /\ recovery.at \in {"read", "temp", "journal"}
        /\ journal' \cup journalSafe' \subseteq journal \cup journalSafe
    BY <1>8 DEF RecoverReceipt, RecoverTemp, RecoverFails, RecoverJournal
  <2>2. CASE recovery' = Next1 /\ pendingRecovery' \in {pendingRecovery, pendingRecovery + 1}
    BY <2>1, <2>2, PendingSeen
  <2>3. ASSUME NEW at \in {"temp", "journal"}, recovery' = [recovery EXCEPT !.at = at], UNCHANGED pendingRecovery
        PROVE  PendingInv'
    <3>1. recovery'.at = at /\ recovery'.name = recovery.name /\ recovery'.left = recovery.left
      BY <1>0, <2>3 DEF Recoveries
    <3>2. Unseen' = Unseen /\ Answered' = Answered
      BY <2>1, <3>1 DEF Unseen, Answered
    <3>. QED
      BY <2>1, <2>3, <3>1, <3>2 DEF PendingInv
  <2>4. \/ recovery' = Next1 /\ pendingRecovery' \in {pendingRecovery, pendingRecovery + 1}
        \/ \E at \in {"temp", "journal"} : recovery' = [recovery EXCEPT !.at = at] /\ UNCHANGED pendingRecovery
    BY <1>8 DEF RecoverReceipt, RecoverTemp, RecoverFails, RecoverJournal, Pending
  <2>. QED
    BY <2>2, <2>3, <2>4
<1>9. CASE RecoverEnd
  <2>1. UNCHANGED <<journal, journalSafe, exporting, exportResult, pendingRecovery>> /\ recovery.left = {}
        /\ recovery.at = "next" /\ recovery'.at = "none" /\ recovery'.left = {}
    BY <1>9 DEF RecoverEnd, NoRecovery
  <2>2. Unseen' = Unseen /\ Answered' = Answered
    BY <2>1 DEF Unseen, Answered
  <2>. QED
    BY <2>1, <2>2 DEF PendingInv
<1>10. CASE CrashExport
  <2>1. /\ exportResult' = IF exporting = 0 THEN exportResult ELSE [exportResult EXCEPT ![exporting] = "crashed"]
        /\ exporting' = 0 /\ recovery' = [at |-> "next", name |-> 0, left |-> journal'] /\ pendingRecovery' = 0
        /\ journal' \subseteq journal \cup journalSafe /\ journalSafe' = journal'
    BY <1>10 DEF CrashExport
  <2>2. exportResult \in [Exports -> Results]
    BY DEF ExportInv, ExportTypes
  <2>3. Answered' = Answered \cup ({exporting} \ {0})
    BY <1>0, <2>1, <2>2 DEF Answered
  <2>4. journal' \subseteq Answered'
    BY <1>0, <2>1, <2>3 DEF PendingInv
  <2>. QED
    BY <2>1, <2>4, PendingRestart
<1>. QED
  BY <1>2, <1>3, <1>4, <1>5, <1>6, <1>7, <1>8, <1>9, <1>10 DEF ExportsNext

LEMMA ExportsTypesOK == ASSUME ExportAssumption, ExportInv, PendingInv PROVE ExportsTypeOK
<1>1. Answered \in SUBSET Exports /\ Unseen \in SUBSET Exports
  BY DEF Answered, PendingInv
<1>2. Cardinality(Answered) <= MaxExports /\ Cardinality(Answered) \in Nat /\ Cardinality(Unseen) \in Nat
  BY <1>1, ExportsFinite
<1>3. pendingRecovery \in 0..(MaxExports + 1)
  BY <1>2 DEF PendingInv, ExportAssumption
<1>4. recovery.at \in {"none", "next", "read", "temp", "journal"}
  BY DEF ExportInv, ExportTypes, Recoveries
<1>. QED
  BY <1>3, <1>4 DEF ExportInv, ExportTypes, ExportsTypeOK

LEMMA ExportsTypesKept == ASSUME ExportAssumption PROVE ExportsSpec => []ExportsTypeOK
  BY ExportInitially, ExportStep, PendingInitially, PendingStep, ExportsTypesOK, PTL DEF ExportsSpec

HIDE DEF fileState, exportState, recoveryState, exportWorld, exportBounds, At, Journaled, Published

\* A path has no claim of a clean-up yet to come, and no more changes than
\* there were.
ClaimsInv ==
    /\ cleanups \in 0..MaxCleanups /\ changes \in 0..MaxChanges /\ interrupted \in BOOLEAN
    /\ dataDisk \in [Paths -> SUBSET (0..cleanups)] /\ dataSafe \in [Paths -> SUBSET (0..cleanups)]
    /\ dataVersion \in [Paths -> 0..changes]

LEMMA ClaimsInitially == ASSUME CleanupAssumption, CleanupInit PROVE ClaimsInv
<1>0. interrupted \in BOOLEAN
  BY DEF CleanupInit
<1>1. cleanups \in 0..MaxCleanups /\ changes \in 0..MaxChanges
  <2>1. cleanups = 0 /\ changes = 0
    BY DEF CleanupInit
  <2>. QED
    BY <2>1 DEF CleanupAssumption
<1>2. {Own} \in SUBSET (0..cleanups) /\ 0 \in 0..changes
  BY DEF CleanupInit, Own
<1>3. dataDisk = [p \in Paths |-> {Own}] /\ dataSafe = dataDisk /\ dataVersion = [p \in Paths |-> 0]
  BY DEF CleanupInit
<1>. QED
  BY <1>0, <1>1, <1>2, <1>3 DEF ClaimsInv

LEMMA ClaimsStep ==
    ASSUME CleanupAssumption, CleanupInv, ClaimsInv, [CleanupNext]_cleanupVars PROVE ClaimsInv'
<1>0. /\ cleanups \in Nat /\ changes \in Nat /\ MaxCleanups \in Nat /\ MaxChanges \in Nat
      /\ cleanups <= MaxCleanups /\ changes <= MaxChanges
      /\ \A p \in Paths : dataDisk[p] \subseteq 0..cleanups /\ dataSafe[p] \subseteq 0..cleanups
      /\ dataDisk \in [Paths -> SUBSET (0..cleanups)] /\ dataSafe \in [Paths -> SUBSET (0..cleanups)]
      /\ dataVersion \in [Paths -> 0..changes] /\ Own \in 0..cleanups /\ cleanups \in 0..cleanups
  BY DEF ClaimsInv, CleanupAssumption, Own
<1>1. ASSUME UNCHANGED <<dataDisk, dataSafe, dataVersion, interrupted, cleanups, changes>> PROVE ClaimsInv'
  BY <1>1 DEF ClaimsInv
<1>2. CASE UNCHANGED cleanupVars
  BY <1>1, <1>2 DEF cleanupVars, dataVars, countVars
<1>3. CASE StartCleanup
  <2>1. cleanups' = cleanups + 1 /\ cleanups < MaxCleanups
        /\ UNCHANGED <<dataDisk, dataSafe, dataVersion, interrupted, changes>>
    BY <1>3 DEF StartCleanup, Quiet, dataVars
  <2>2. 0..cleanups \subseteq 0..cleanups' /\ cleanups' \in 0..MaxCleanups
    BY <1>0, <2>1
  <2>3. dataDisk' \in [Paths -> SUBSET (0..cleanups')] /\ dataSafe' \in [Paths -> SUBSET (0..cleanups')]
    BY <1>0, <2>1, <2>2
  <2>. QED
    BY <2>1, <2>2, <2>3 DEF ClaimsInv
<1>4. CASE Reinspect \/ RemovalFails \/ ShowResult
           \/ (\E c \in DOMAIN Categories : ConfirmCategory(c)) \/ (\E yes \in BOOLEAN : Decide(yes))
  <2>1. UNCHANGED <<dataDisk, dataSafe, dataVersion, interrupted, cleanups, changes>>
    BY <1>4 DEF Reinspect, RemovalFails, ShowResult, ConfirmCategory, Decide, Quiet, dataVars, countVars
  <2>. QED
    BY <1>1, <2>1
<1>5. ASSUME UNCHANGED <<dataVersion, interrupted, cleanups, changes>>,
             dataDisk' \in [Paths -> SUBSET (0..cleanups)], dataSafe' \in [Paths -> SUBSET (0..cleanups)]
      PROVE  ClaimsInv'
  BY <1>5 DEF ClaimsInv
<1>6. CASE ClaimPath
  <2>1. dataDisk' = [dataDisk EXCEPT ![Foremost] = (@ \ {Own}) \cup {cleanups}]
        /\ UNCHANGED <<dataSafe, dataVersion, interrupted, cleanups, changes>>
    BY <1>6 DEF ClaimPath, countVars
  <2>2. dataDisk' \in [Paths -> SUBSET (0..cleanups)]
    BY <1>0, <2>1
  <2>. QED
    BY <1>0, <1>5, <2>1, <2>2
<1>7. CASE RemoveClaim
  <2>1. dataDisk' = [dataDisk EXCEPT ![Foremost] = @ \ {cleanups}]
        /\ UNCHANGED <<dataSafe, dataVersion, interrupted, cleanups, changes>>
    BY <1>7 DEF RemoveClaim, countVars
  <2>2. dataDisk' \in [Paths -> SUBSET (0..cleanups)]
    BY <1>0, <2>1
  <2>. QED
    BY <1>0, <1>5, <2>1, <2>2
<1>8. CASE SyncRemoval
  <2>1. \A p \in Paths : dataSafe'[p] \in {dataDisk[p], dataSafe[p]}
    BY <1>8 DEF SyncRemoval
  <2>2. dataSafe' = [p \in Paths |-> dataSafe'[p]] /\ UNCHANGED <<dataDisk, dataVersion, interrupted, cleanups, changes>>
    BY <1>8 DEF SyncRemoval, countVars
  <2>3. \A p \in Paths : dataSafe'[p] \in SUBSET (0..cleanups)
    BY <1>0, <2>1
  <2>4. dataSafe' \in [Paths -> SUBSET (0..cleanups)]
    BY <2>2, <2>3
  <2>. QED
    BY <1>0, <1>5, <2>2, <2>4
<1>9. CASE CrashCleanup
  <2>1. PICK lost \in SUBSET Paths : dataDisk' = [p \in Paths |-> IF p \in lost THEN dataSafe[p] ELSE dataDisk[p]]
    BY <1>9 DEF CrashCleanup
  <2>2. dataSafe' = dataDisk' /\ UNCHANGED <<dataVersion, interrupted, cleanups, changes>>
    BY <1>9 DEF CrashCleanup
  <2>3. dataDisk' \in [Paths -> SUBSET (0..cleanups)]
    BY <1>0, <2>1
  <2>. QED
    BY <1>5, <2>2, <2>3
<1>10. ASSUME changes' = changes + 1, changes < MaxChanges
       PROVE  changes' \in 0..MaxChanges /\ 0..changes \subseteq 0..changes' /\ [Paths -> 0..changes] \subseteq [Paths -> 0..changes']
  BY <1>0, <1>10
<1>11. ASSUME NEW p \in Paths, ChangeData(p) PROVE ClaimsInv'
  <2>1. /\ changes' = changes + 1 /\ changes < MaxChanges /\ dataVersion' = [dataVersion EXCEPT ![p] = @ + 1]
        /\ UNCHANGED <<dataDisk, dataSafe, interrupted, cleanups>>
    BY <1>11 DEF ChangeData
  <2>2. dataVersion[p] + 1 \in 0..changes' /\ dataVersion \in [Paths -> 0..changes']
    BY <1>0, <1>10, <2>1
  <2>3. dataVersion' \in [Paths -> 0..changes']
    BY <2>1, <2>2
  <2>. QED
    BY <1>10, <2>1, <2>3 DEF ClaimsInv
<1>12. CASE RunApplication
  <2>1. /\ changes' = changes + 1 /\ changes < MaxChanges /\ UNCHANGED <<dataVersion, cleanups>>
        /\ interrupted' \in BOOLEAN /\ dataSafe' = dataDisk'
    BY <1>12 DEF RunApplication
  <2>2. dataDisk' = [p \in Paths |-> dataDisk'[p]] /\ \A p \in Paths : dataDisk'[p] \in {dataDisk[p], dataDisk[p] \cup {Own}}
    BY <1>12 DEF RunApplication
  <2>3. \A p \in Paths : dataDisk'[p] \in SUBSET (0..cleanups)
    BY <1>0, <2>2
  <2>4. dataDisk' \in [Paths -> SUBSET (0..cleanups)]
    BY <2>2, <2>3
  <2>. QED
    BY <1>10, <2>1, <2>4 DEF ClaimsInv
<1>. QED
  BY <1>2, <1>3, <1>4, <1>6, <1>7, <1>8, <1>9, <1>11, <1>12 DEF CleanupNext

LEMMA CleanupTypesOK == ASSUME CleanupAssumption, CleanupInv, ClaimsInv PROVE CleanupTypeOK
<1>1. 0..cleanups \subseteq {Own} \cup ClaimNames /\ 0..changes \subseteq 0..MaxChanges
  BY DEF ClaimsInv, Own, ClaimNames, CleanupAssumption
<1>2. \A d \in {dataDisk, dataSafe} : d \in [Paths -> SUBSET ({Own} \cup ClaimNames)]
  BY <1>1 DEF ClaimsInv
<1>3. dataVersion \in [Paths -> 0..MaxChanges] /\ interrupted \in BOOLEAN
  BY <1>1 DEF ClaimsInv
<1>4. cleanStep \in {"off", "ask", "check", "next", "claimed", "removed"}
  BY DEF CleanupInv, CleanupTypes, CleanupSteps
<1>. QED
  BY <1>2, <1>3, <1>4 DEF CleanupInv, CleanupTypes, CleanupTypeOK

LEMMA CleanupTypesKept == ASSUME CleanupAssumption PROVE CleanupSpec => []CleanupTypeOK
  BY CleanupInitially, CleanupStep, ClaimsInitially, ClaimsStep, CleanupTypesOK, PTL DEF CleanupSpec

LEMMA StoreTypesKept == StoreSpec => []StoreTypeOK
  BY StoreInitially, StoreStep, StoreTypesOK, PTL DEF StoreSpec
LEMMA ImportTypesKept == ASSUME ImportAssumption PROVE ImportSpec => []ImportTypeOK
  BY ImportInitially, ImportStep, ImportTypesOK, PTL DEF ImportSpec
LEMMA CatalogTypesKept == ASSUME CatalogAssumption PROVE CatalogSpec => []CatalogTypeOK
  BY CatalogInitially, CatalogStep, CatalogTypesOK, PTL DEF CatalogSpec

\* The seven parts that keep files, as one run checks them: whichever of them
\* moves, each goes on by its own specification.
THEOREM FilesAreTheirParts ==
    MCSpec => /\ RelocationSpec /\ StoreSpec /\ MediaSpec /\ ExportsSpec
              /\ ImportSpec /\ CatalogSpec /\ CleanupSpec
<1>1. MCInit => RelocationInit /\ StoreInit /\ MediaInit /\ ExportInit /\ ImportInit /\ CatalogInit /\ CleanupInit
  BY DEF MCInit
<1>2. [MCNext]_mcVars => [RelocationNext]_relocationVars
  BY DEF MCNext, Relocates, Stores, Plays, ExportsFiles, Imports, Catalogs, CleansUp, mcVars
<1>3. [MCNext]_mcVars => [StoreNext]_storeVars
  BY DEF MCNext, Relocates, Stores, Plays, ExportsFiles, Imports, Catalogs, CleansUp, mcVars
<1>4. [MCNext]_mcVars => [MediaNext]_mediaVars
  BY DEF MCNext, Relocates, Stores, Plays, ExportsFiles, Imports, Catalogs, CleansUp, mcVars
<1>5. [MCNext]_mcVars => [ExportsNext]_exportVars
  BY DEF MCNext, Relocates, Stores, Plays, ExportsFiles, Imports, Catalogs, CleansUp, mcVars
<1>6. [MCNext]_mcVars => [ImportNext]_importVars
  BY DEF MCNext, Relocates, Stores, Plays, ExportsFiles, Imports, Catalogs, CleansUp, mcVars
<1>7. [MCNext]_mcVars => [CatalogNext]_catalogVars
  BY DEF MCNext, Relocates, Stores, Plays, ExportsFiles, Imports, Catalogs, CleansUp, mcVars
<1>8. [MCNext]_mcVars => [CleanupNext]_cleanupVars
  BY DEF MCNext, Relocates, Stores, Plays, ExportsFiles, Imports, Catalogs, CleansUp, mcVars
<1>. QED
  BY <1>1, <1>2, <1>3, <1>4, <1>5, <1>6, <1>7, <1>8, PTL
  DEF MCSpec, RelocationSpec, StoreSpec, MediaSpec, ExportsSpec, ImportSpec, CatalogSpec, CleanupSpec

\* The types of all seven, bounds included: a root holds no more commits than
\* there were, a window no more playbacks than it may, a clean-up claims by its
\* own name, and no more Receipts are pending than exports were answered.
THEOREM FilesTypes ==
    ASSUME RelocationAssumption, MediaAssumption, ExportAssumption, ImportAssumption, CatalogAssumption,
           CleanupAssumption
    PROVE  MCSpec => []MCTypeOK
<1>1. RelocationTypeOK /\ StoreTypeOK /\ MediaTypeOK /\ ExportsTypeOK /\ ImportTypeOK /\ CatalogTypeOK
        /\ CleanupTypeOK => MCTypeOK
  BY DEF MCTypeOK
<1>. QED
  BY <1>1, FilesAreTheirParts, RelocationTypesKept, StoreTypesKept, MediaTypesKept, ExportsTypesKept,
     ImportTypesKept, CatalogTypesKept, CleanupTypesKept, PTL
=============================================================================
