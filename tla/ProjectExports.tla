--------------------------- MODULE ProjectExports ---------------------------
(***************************************************************************)
(* Exports (project-exports.ts): a Project is written to a file that the   *)
(* user chose, and a Receipt of it is committed to the Library.  A journal *)
(* is made durable before the file is replaced, so that an export that a   *)
(* crash or an error interrupts gets its Receipt later.                    *)
(***************************************************************************)
EXTENDS Naturals, FiniteSets

CONSTANTS
    MaxExports,        \* exports, numbered as they begin
    MaxExportFaults,   \* calls that fail
    MaxExportCrashes,
    MaxTouches         \* what the user does to the file, to the Project or to the Library

ExportAssumption == {MaxExports, MaxExportFaults, MaxExportCrashes, MaxTouches} \subseteq Nat

VARIABLES
    journal, journalSafe,   \* the exports with a record in export-pending: now, after a power failure
    temp, tempSafe,         \* the staged files: "none", "partial", "whole"
    exportTarget, targetSafe, \* what the chosen file holds: an export, 0 for anything else
    receipts,               \* the exports with a committed Receipt
    exporting,              \* the export of #publish, or 0
    exportAt,               \* where it is
    exportAborted,          \* its controller
    exportResult,           \* what each export returned
    recovery,               \* [at, name, left]: the recovery under way
    pendingRecovery,
    writable,               \* the Project takes Receipts
    moved,                  \* the Library is not where the journals say
    exportFaults, exportCrashes, touches

fileState == <<journal, journalSafe, temp, tempSafe, exportTarget, targetSafe>>
exportState == <<exporting, exportAt, exportAborted, exportResult>>
recoveryState == <<recovery, pendingRecovery>>
exportWorld == <<writable, moved, touches>>
exportBounds == <<exportFaults, exportCrashes>>
exportVars == <<fileState, receipts, exportState, recoveryState, exportWorld, exportBounds>>

Exports == 1..MaxExports
NoRecovery == [at |-> "none", name |-> 0, left |-> {}]
ExportBusy == exporting # 0 \/ recovery.at # "none"
Published == exportAt \in {"renamed", "synced", "recorded", "removed"}

ExportInit ==
    /\ journal = {} /\ journalSafe = {} /\ receipts = {}
    /\ temp = [e \in Exports |-> "none"] /\ tempSafe = temp /\ exportTarget = 0 /\ targetSafe = 0
    /\ exporting = 0 /\ exportAt = "idle" /\ exportAborted = FALSE
    /\ exportResult = [e \in Exports |-> "none"]
    /\ recovery = NoRecovery /\ pendingRecovery = 0 /\ writable = TRUE /\ moved = FALSE
    /\ touches = 0 /\ exportFaults = 0 /\ exportCrashes = 0

At(from, to) == exportAt = from /\ exportAt' = to /\ UNCHANGED <<exporting, exportAborted, exportResult>>
Return(result) ==
    /\ exportResult' = [exportResult EXCEPT ![exporting] = result]
    /\ exporting' = 0 /\ exportAt' = "idle" /\ exportAborted' = FALSE

\* #publish: the Project must be current and writable.
Publish ==
    /\ ~ExportBusy /\ writable /\ \E e \in Exports : exportResult[e] = "none"
    /\ exporting' = CHOOSE e \in Exports : exportResult[e] = "none" /\ \A f \in 1..(e - 1) : exportResult[f] # "none"
    /\ exportAt' = "dialog"
    /\ UNCHANGED <<fileState, receipts, exportAborted, exportResult, recoveryState, exportWorld, exportBounds>>

\* The content is prepared and a target chosen and validated, or the dialog
\* is cancelled.
PickTarget ==
    /\ At("dialog", "journal") /\ ~exportAborted
    /\ UNCHANGED <<fileState, receipts, recoveryState, exportWorld, exportBounds>>

PickNone ==
    /\ exportAt = "dialog" /\ Return("cancelled")
    /\ UNCHANGED <<fileState, receipts, recoveryState, exportWorld, exportBounds>>

WriteJournal ==
    /\ At("journal", "journalled") /\ journal' = journal \cup {exporting}
    /\ UNCHANGED <<journalSafe, temp, tempSafe, exportTarget, targetSafe, receipts, recoveryState, exportWorld, exportBounds>>

\* Mutant: the journal is not synced.
LeaveJournal ==
    /\ At("journalled", "temp") /\ UNCHANGED journalSafe
    /\ UNCHANGED <<journal, temp, tempSafe, exportTarget, targetSafe, receipts, recoveryState, exportWorld, exportBounds>>

SyncExportJournal ==
    /\ At("journalled", "temp") /\ journalSafe' = journal
    /\ UNCHANGED <<journal, temp, tempSafe, exportTarget, targetSafe, receipts, recoveryState, exportWorld, exportBounds>>

WriteTemp ==
    /\ At("temp", "written") /\ temp' = [temp EXCEPT ![exporting] = "whole"]
    /\ tempSafe' \in {[tempSafe EXCEPT ![exporting] = x] : x \in {"none", "partial"}}
    /\ UNCHANGED <<journal, journalSafe, exportTarget, targetSafe, receipts, recoveryState, exportWorld, exportBounds>>

SyncTemp ==
    /\ At("written", "staged") /\ tempSafe' = temp
    /\ UNCHANGED <<journal, journalSafe, temp, exportTarget, targetSafe, receipts, recoveryState, exportWorld, exportBounds>>

\* The last checks, then the file is replaced; nothing can cancel it now.
Rename ==
    /\ At("staged", "renamed") /\ ~exportAborted /\ ~moved
    /\ temp' = [temp EXCEPT ![exporting] = "none"] /\ exportTarget' = exporting
    /\ UNCHANGED <<journal, journalSafe, tempSafe, targetSafe, receipts, recoveryState, exportWorld, exportBounds>>

SyncExported ==
    /\ At("renamed", "synced") /\ tempSafe' = temp /\ targetSafe' = exportTarget
    /\ UNCHANGED <<journal, journalSafe, temp, exportTarget, receipts, recoveryState, exportWorld, exportBounds>>

\* library.recordExportReceipt: refused for a Project in the Trash.
RecordReceipt ==
    /\ At("synced", "recorded") /\ writable /\ receipts' = receipts \cup {exporting}
    /\ UNCHANGED <<fileState, recoveryState, exportWorld, exportBounds>>

RemoveJournal ==
    /\ At("recorded", "removed") /\ journal' = journal \ {exporting}
    /\ UNCHANGED <<journalSafe, temp, tempSafe, exportTarget, targetSafe, receipts, recoveryState, exportWorld, exportBounds>>

Saved ==
    /\ exportAt = "removed" /\ journalSafe' = journal /\ Return("saved")
    /\ UNCHANGED <<journal, temp, tempSafe, exportTarget, targetSafe, receipts, recoveryState, exportWorld, exportBounds>>

\* An error, an abort or a check that fails.  Before the file was replaced the
\* staged file goes, then the journal; afterwards the Receipt is pending.
CleanUp(ok) ==
    IF ok
    THEN /\ temp' = [temp EXCEPT ![exporting] = "none"] /\ tempSafe' = temp'
         /\ journal' = journal \ {exporting} /\ journalSafe' = journal'
    ELSE UNCHANGED <<journal, journalSafe, temp, tempSafe>>
Refused ==
    \/ exportAborted /\ exportAt \in {"dialog", "staged"}
    \/ moved /\ exportAt = "staged"
    \/ ~writable /\ exportAt = "synced"
ExportStops ==
    /\ exporting # 0
    /\ \/ exportFaults < MaxExportFaults /\ exportFaults' = exportFaults + 1
       \/ Refused /\ UNCHANGED exportFaults
    /\ IF Published
       THEN /\ Return("receipt_pending") /\ pendingRecovery' = pendingRecovery + 1
            /\ UNCHANGED <<journal, journalSafe, temp, tempSafe>>
       ELSE /\ Return(IF exportAborted THEN "cancelled" ELSE "failed") /\ UNCHANGED pendingRecovery
            /\ \E ok \in BOOLEAN : (ok \/ exportFaults' # exportFaults) /\ CleanUp(ok)
    /\ UNCHANGED <<exportTarget, targetSafe, receipts, recovery, exportWorld, exportCrashes>>

CancelExport ==
    /\ exporting # 0 /\ exportAborted' = TRUE
    /\ UNCHANGED <<fileState, receipts, exporting, exportAt, exportResult, recoveryState, exportWorld, exportBounds>>

-----------------------------------------------------------------------------
\* recover: at startup and on demand, one journal after the other.
Recover ==
    /\ ~ExportBusy /\ recovery' = [at |-> "next", name |-> 0, left |-> journal] /\ pendingRecovery' = 0
    /\ UNCHANGED <<fileState, receipts, exportState, exportWorld, exportBounds>>

Next1 == [recovery EXCEPT !.at = "next", !.name = 0]
Pending == recovery' = Next1 /\ pendingRecovery' = pendingRecovery + 1
\* What the record says is compared with the file; the Receipt is committed,
\* or is there, or the staged file shows that nothing was published.
RecoverNext(e) ==
    /\ recovery.at = "next" /\ e \in recovery.left
    /\ recovery' = [at |-> "read", name |-> e, left |-> recovery.left \ {e}]
    /\ UNCHANGED <<fileState, receipts, exportState, pendingRecovery, exportWorld, exportBounds>>

RecoverReceipt ==
    /\ recovery.at = "read"
    /\ LET e == recovery.name  matches == exportTarget = e IN
       IF \/ moved
          \/ matches /\ ~writable
          \/ ~matches /\ e \notin receipts /\ temp[e] = "none"
       THEN Pending /\ UNCHANGED receipts
       ELSE /\ receipts' = IF matches THEN receipts \cup {e} ELSE receipts
            /\ recovery' = [recovery EXCEPT !.at = "temp"] /\ UNCHANGED pendingRecovery
    /\ UNCHANGED <<fileState, exportState, exportWorld, exportBounds>>

\* A staged file is removed only when it is the one of the record.
RecoverTemp ==
    /\ recovery.at = "temp"
    /\ LET e == recovery.name IN
       IF temp[e] = "partial" THEN Pending /\ UNCHANGED <<temp, tempSafe>>
       ELSE /\ temp' = [temp EXCEPT ![e] = "none"] /\ tempSafe' = [tempSafe EXCEPT ![e] = "none"]
            /\ recovery' = [recovery EXCEPT !.at = "journal"] /\ UNCHANGED pendingRecovery
    /\ UNCHANGED <<journal, journalSafe, exportTarget, targetSafe, receipts, exportState, exportWorld, exportBounds>>

RecoverJournal ==
    /\ recovery.at = "journal" /\ recovery' = Next1
    /\ journal' = journal \ {recovery.name} /\ journalSafe' \in {journal', journalSafe \ {recovery.name}}
    /\ UNCHANGED <<temp, tempSafe, exportTarget, targetSafe, receipts, exportState, pendingRecovery, exportWorld, exportBounds>>

RecoverEnd ==
    /\ recovery.at = "next" /\ recovery.left = {} /\ recovery' = NoRecovery
    /\ UNCHANGED <<fileState, receipts, exportState, pendingRecovery, exportWorld, exportBounds>>

RecoverFails ==
    /\ recovery.at \in {"read", "temp", "journal"} /\ exportFaults < MaxExportFaults
    /\ exportFaults' = exportFaults + 1 /\ Pending
    /\ UNCHANGED <<fileState, receipts, exportState, exportWorld, exportCrashes>>

-----------------------------------------------------------------------------
\* The power fails: of what was not synced any part may be there.  The next
\* start recovers before anything else.
Either(a, b) == {f \in [Exports -> {"none", "partial", "whole"}] : \A e \in Exports : f[e] \in {a[e], b[e]}}
CrashExport ==
    /\ exportCrashes < MaxExportCrashes /\ exportCrashes' = exportCrashes + 1
    /\ journal' \in {(journal \cap journalSafe) \cup extra : extra \in SUBSET (journal \cup journalSafe)}
    /\ journalSafe' = journal'
    \* a rename is kept or lost as a whole
    /\ \/ exportTarget' = exportTarget /\ temp' \in Either(temp, IF exportTarget = targetSafe THEN tempSafe ELSE temp)
       \/ exportTarget # targetSafe /\ exportTarget' = targetSafe /\ temp' = tempSafe
    /\ tempSafe' = temp' /\ targetSafe' = exportTarget'
    /\ exportResult' = IF exporting = 0 THEN exportResult ELSE [exportResult EXCEPT ![exporting] = "crashed"]
    /\ exporting' = 0 /\ exportAt' = "idle" /\ exportAborted' = FALSE
    /\ recovery' = [at |-> "next", name |-> 0, left |-> journal'] /\ pendingRecovery' = 0
    /\ UNCHANGED <<receipts, exportWorld, exportFaults>>

\* The user changes or removes the exported file, trashes or restores the
\* Project, moves the Library.
Touch ==
    /\ touches < MaxTouches /\ touches' = touches + 1
    /\ \/ exportTarget' = 0 /\ targetSafe' = 0 /\ exportTarget = targetSafe /\ UNCHANGED <<writable, moved>>
       \/ writable' = ~writable /\ UNCHANGED <<exportTarget, targetSafe, moved>>
       \/ moved' = TRUE /\ UNCHANGED <<exportTarget, targetSafe, writable>>
    /\ UNCHANGED <<journal, journalSafe, temp, tempSafe, receipts, exportState, recoveryState, exportBounds>>

ExportsNext ==
    \/ Publish \/ PickTarget \/ PickNone \/ WriteJournal \/ SyncExportJournal \/ WriteTemp \/ SyncTemp
    \/ Rename \/ SyncExported \/ RecordReceipt \/ RemoveJournal \/ Saved \/ ExportStops \/ CancelExport
    \/ Recover \/ (\E e \in Exports : RecoverNext(e)) \/ RecoverReceipt \/ RecoverTemp \/ RecoverJournal
    \/ RecoverEnd \/ RecoverFails \/ CrashExport \/ Touch
ExportsSpec == ExportInit /\ [][ExportsNext]_exportVars

-----------------------------------------------------------------------------
ExportsTypeOK ==
    /\ journal \subseteq Exports /\ journalSafe \subseteq Exports /\ receipts \subseteq Exports
    /\ {exportTarget, targetSafe, exporting} \subseteq 0..MaxExports
    /\ recovery.at \in {"none", "next", "read", "temp", "journal"} /\ pendingRecovery \in 0..(MaxExports + 1)

\* A file that an export has put in place has its Receipt, or a durable
\* journal from which a recovery can give it one: no crash loses the trace.
OutputIsAccounted ==
    \A e \in Exports : e \in {exportTarget, targetSafe} => e \in receipts \/ e \in journal \cap journalSafe

\* What an export has reported is true: a saved one has its Receipt and its
\* file is durable (until the user or a later export replaces it), and one
\* that was cancelled or failed has changed nothing.
ResultIsTrue ==
    \A e \in Exports :
        /\ exportResult[e] = "saved" => e \in receipts /\ e \notin journal
        /\ exportResult[e] \in {"cancelled", "failed"} => e \notin receipts \cup {exportTarget, targetSafe}

\* A staged file that an interrupted export has left beside the user's file
\* has a journal, or nothing would ever remove it.
StagedIsJournaled == \A e \in Exports : tempSafe[e] # "none" \/ temp[e] # "none" => e \in journal \cap journalSafe
ExportsAreAccounted == OutputIsAccounted /\ ResultIsTrue /\ StagedIsJournaled
=============================================================================
