----------------------------- MODULE ModelStore -----------------------------
(***************************************************************************)
(* The store of alignment language packs (model-store.ts,                  *)
(* model-archive.ts) behind the command gateway: one install or removal at *)
(* a time, cancellation and the offline switch beside it, renames that are *)
(* durable when their directory has been synced.                           *)
(***************************************************************************)
EXTENDS Naturals

CONSTANTS Packs, NoPack, MaxStoreFaults, MaxStoreCrashes

StoreAssumption == NoPack \notin Packs /\ {MaxStoreFaults, MaxStoreCrashes} \subseteq Nat

VARIABLES
    disk,          \* the packs directory: "none", "whole" or "bad" for each pack
    safe,          \* the same, as a power failure would leave it
    staging,       \* the staging directory holds something
    op,            \* the operation that holds modelsBusy
    pack,          \* the pack of it
    controller,    \* "none", "set", "aborted"
    offlineStore,
    references,    \* the packs that Projects refer to
    unknown,       \* a damaged Project may refer to any pack
    reviewed,      \* the impact of a removal that the user saw
    ackedPacks,         \* the last operation on each pack that was reported done
    storeFaults, storeCrashes

impactVars == <<references, unknown, reviewed>>
storeBounds == <<storeFaults, storeCrashes>>
storeVars == <<disk, safe, staging, op, pack, controller, offlineStore, impactVars, ackedPacks, storeBounds>>

Impact(p) == [affected |-> p \in references, unknown |-> unknown, pack |-> p]

StoreInit ==
    /\ disk = [p \in Packs |-> "none"] /\ safe = disk /\ staging = FALSE
    /\ op = "none" /\ pack = NoPack /\ controller = "none" /\ offlineStore = FALSE
    /\ references = {} /\ unknown \in BOOLEAN /\ reviewed = Impact(NoPack)
    /\ ackedPacks = [p \in Packs |-> "open"] /\ storeFaults = 0 /\ storeCrashes = 0

\* Leaving an operation: the controller goes, and so does what it staged.
Done == op' = "none" /\ pack' = NoPack /\ controller' = "none"
Goes(next) == op' = next /\ UNCHANGED <<pack, controller>>

\* What is there leaves by a rename; whatever was reported of it is void.
PackInDoubt ==
    /\ disk' = [disk EXCEPT ![pack] = "none"] /\ ackedPacks' = [ackedPacks EXCEPT ![pack] = "open"]

\* A read, write, rename or sync of the operation fails.
Fails ==
    /\ op # "none" /\ storeFaults < MaxStoreFaults /\ storeFaults' = storeFaults + 1
    /\ Done /\ staging' \in BOOLEAN
    /\ UNCHANGED <<disk, safe, offlineStore, impactVars, ackedPacks, storeCrashes>>

\* install: every file of the pack is hashed first, with no controller yet, so
\* that a cancellation sent now does nothing; an intact pack is left alone.
InstallPack(p) ==
    /\ op = "none" /\ op' = "verifying" /\ pack' = p
    /\ UNCHANGED <<disk, safe, staging, controller, offlineStore, impactVars, ackedPacks, storeBounds>>

Verified ==
    /\ op = "verifying"
    /\ IF disk[pack] = "whole" \/ offlineStore
       THEN Done /\ UNCHANGED staging
       ELSE op' = "fetching" /\ controller' = "set" /\ staging' = TRUE /\ UNCHANGED pack
    /\ UNCHANGED <<disk, safe, offlineStore, impactVars, ackedPacks, storeBounds>>

\* The transfer: every artifact must have the size and the hash of the
\* manifest, and every member of an archive those of its list.
Fetched ==
    /\ op = "fetching"
    /\ IF controller = "aborted"
       THEN Done /\ staging' = FALSE
       ELSE \/ Done /\ staging' = FALSE
            \/ Goes("staged") /\ UNCHANGED staging
    /\ UNCHANGED <<disk, safe, offlineStore, impactVars, ackedPacks, storeBounds>>

\* The whole pack is staged and synced; a damaged one makes room for it.
SwapOut ==
    /\ op = "staged"
    /\ IF controller = "aborted"
       THEN Done /\ staging' = FALSE /\ UNCHANGED <<disk, ackedPacks>>
       ELSE /\ Goes("swapping") /\ PackInDoubt /\ UNCHANGED staging
    /\ UNCHANGED <<safe, offlineStore, impactVars, storeBounds>>

SwapIn ==
    /\ op = "swapping" /\ Goes("installed")
    /\ disk' = [disk EXCEPT ![pack] = "whole"]
    /\ UNCHANGED <<safe, staging, offlineStore, impactVars, ackedPacks, storeBounds>>

SyncInstalled ==
    /\ op = "installed" /\ safe' = disk /\ Done /\ staging' = FALSE
    /\ ackedPacks' = [ackedPacks EXCEPT ![pack] = "whole"]
    /\ UNCHANGED <<disk, offlineStore, impactVars, storeBounds>>

\* preview_removal, then remove: refused when what it affects has changed.
Preview(p) ==
    /\ op = "none" /\ reviewed' = Impact(p)
    /\ UNCHANGED <<disk, safe, staging, op, pack, controller, offlineStore, references, unknown, ackedPacks, storeBounds>>

Remove(p) ==
    /\ op = "none" /\ ~unknown /\ reviewed = Impact(p)
    /\ op' = "removing" /\ pack' = p
    /\ UNCHANGED <<disk, safe, staging, controller, offlineStore, impactVars, ackedPacks, storeBounds>>

MoveAway ==
    /\ op = "removing" /\ Goes("moved") /\ PackInDoubt
    /\ staging' = (staging \/ disk[pack] # "none")
    /\ UNCHANGED <<safe, offlineStore, impactVars, storeBounds>>

\* Mutant: the directory is not synced.
ReportRemoved ==
    /\ op = "moved" /\ UNCHANGED safe /\ Done /\ staging' = FALSE
    /\ ackedPacks' = [ackedPacks EXCEPT ![pack] = "none"]
    /\ UNCHANGED <<disk, offlineStore, impactVars, storeBounds>>

SyncRemoved ==
    /\ op = "moved" /\ safe' = disk /\ Done /\ staging' = FALSE
    /\ ackedPacks' = [ackedPacks EXCEPT ![pack] = "none"]
    /\ UNCHANGED <<disk, offlineStore, impactVars, storeBounds>>

\* The control actions, which have a flag of their own; the switch cancels
\* whichever way it turns.
Stopped == IF controller = "set" THEN "aborted" ELSE controller
CancelInstall ==
    /\ controller = "set" /\ controller' = Stopped
    /\ UNCHANGED <<disk, safe, staging, op, pack, offlineStore, impactVars, ackedPacks, storeBounds>>
SwitchOffline ==
    /\ offlineStore' = ~offlineStore /\ controller' = Stopped
    /\ UNCHANGED <<disk, safe, staging, op, pack, impactVars, ackedPacks, storeBounds>>

\* Alignments publish references, Projects are repaired.
Refer(p) ==
    /\ references' = references \cup {p} /\ unknown' \in {unknown, FALSE}
    /\ UNCHANGED <<disk, safe, staging, op, pack, controller, offlineStore, reviewed, ackedPacks, storeBounds>>

\* A file of an installed pack decays: #installed sees it.
Decay(p) ==
    /\ disk[p] = "whole" /\ pack # p /\ storeFaults < MaxStoreFaults /\ storeFaults' = storeFaults + 1
    /\ disk' = [disk EXCEPT ![p] = "bad"]
    /\ safe' = [safe EXCEPT ![p] = IF @ = "whole" THEN "bad" ELSE @]
    /\ ackedPacks' = [ackedPacks EXCEPT ![p] = "open"]
    /\ UNCHANGED <<staging, op, pack, controller, offlineStore, impactVars, storeCrashes>>

\* A crash at any point; openModelStore clears the staging directory.
Restart ==
    /\ storeCrashes < MaxStoreCrashes /\ storeCrashes' = storeCrashes + 1
    /\ \E kept \in SUBSET Packs :
        disk' = [p \in Packs |-> IF p \in kept THEN disk[p] ELSE safe[p]]
    /\ safe' = disk' /\ staging' = FALSE /\ Done
    /\ reviewed' = Impact(NoPack)
    /\ UNCHANGED <<offlineStore, references, unknown, ackedPacks, storeFaults>>

StoreNext ==
    \/ \E p \in Packs : InstallPack(p) \/ Preview(p) \/ Remove(p) \/ Refer(p) \/ Decay(p)
    \/ Verified \/ Fetched \/ SwapOut \/ SwapIn \/ SyncInstalled \/ MoveAway \/ SyncRemoved
    \/ CancelInstall \/ SwitchOffline \/ Fails \/ Restart
StoreSpec == StoreInit /\ [][StoreNext]_storeVars

-----------------------------------------------------------------------------
StoreTypeOK ==
    /\ disk \in [Packs -> {"none", "whole", "bad"}] /\ safe \in [Packs -> {"none", "whole", "bad"}]
    /\ controller \in {"none", "set", "aborted"} /\ pack \in Packs \cup {NoPack}

\* Whatever was reported done survives a power failure: an installed pack is
\* whole, a removed one does not come back, until a later operation touches it
\* or its files decay.
AckedPacksStay == \A p \in Packs : ackedPacks[p] # "open" => safe[p] = ackedPacks[p]

\* Nothing is fetched in Offline Mode: a transfer that the switch found running
\* has been aborted.
OfflineAbortsInstall == offlineStore /\ controller # "none" => controller = "aborted"

\* A Model Pack reported installed or removed stays so, and Offline Mode is kept.
StoreKeepsWord == AckedPacksStay /\ OfflineAbortsInstall
=============================================================================
