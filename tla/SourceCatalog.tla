--------------------------- MODULE SourceCatalog ---------------------------
(***************************************************************************)
(* The Source catalogs of the Project Library (project-library.ts,         *)
(* youtube-source-records.ts).  Locators live in two copies of one file,   *)
(* which every reconciliation compares, repairs and rewrites, backup       *)
(* first; YouTube metadata observations live in one file that is replaced  *)
(* as a whole.  One Source, one Locator: a Locator is the time it was last *)
(* verified, 0 when the catalog has none.                                  *)
(***************************************************************************)
EXTENDS Integers, FiniteSets

CONSTANTS
    Carriers,          \* Projects that may carry the Source
    MaxTime,           \* times of observation
    Notes,             \* YouTube metadata observations
    MaxCatalogOps, MaxCatalogFaults, MaxCatalogCrashes, MaxRots

CatalogAssumption ==
    /\ {MaxTime, MaxCatalogOps, MaxCatalogFaults, MaxCatalogCrashes, MaxRots} \subseteq Nat
    /\ "unreadable" \notin Notes

VARIABLES
    carriers,      \* [state, time]: "none", "readable" with its own Locator, or "damaged"
    copies,        \* the files: [primary, backup], each [is, rev, time]
    copiesSafe,    \* what is left of them after a power failure
    refresh,       \* #refreshLocatorCatalog in progress: [at, extra, next]
    shownTime,     \* #locatorCatalog: -1 before the Library is open
    ackedTime,     \* ghost: the newest observation reported as recorded
    notesFile, notesSafe, notesShown, notesAcked, notesWrite,
    catalogOps, catalogFaults, catalogCrashes, rots

noteVars == <<notesFile, notesSafe, notesShown, notesAcked, notesWrite>>
catalogBounds == <<catalogOps, catalogFaults, catalogCrashes, rots>>
locatorVars == <<copies, copiesSafe, refresh, shownTime, ackedTime>>
catalogVars == <<carriers, locatorVars, noteVars, catalogBounds>>

Missing == [is |-> "missing", rev |-> 0, time |-> 0]
Bad == [is |-> "bad", rev |-> 0, time |-> 0]
Copies == {"primary", "backup"}
NotRefreshing == [at |-> "idle", extra |-> 0, next |-> Missing]
Unreadable == {"unreadable"}
Larger(a, b) == IF a > b THEN a ELSE b

CatalogInit ==
    /\ carriers = [p \in Carriers |-> [state |-> "none", time |-> 0]]
    /\ copies = [c \in Copies |-> Missing] /\ copiesSafe = copies
    /\ refresh = [NotRefreshing EXCEPT !.at = "read"] /\ shownTime = -1 /\ ackedTime = 0
    /\ notesFile = {} /\ notesSafe = {} /\ notesShown = {} /\ notesAcked = {} /\ notesWrite = "idle"
    /\ catalogOps = 0 /\ catalogFaults = 0 /\ catalogCrashes = 0 /\ rots = 0

\* Mutations run one at a time.
CatalogFree == refresh.at = "idle" /\ notesWrite = "idle"
BeginRefresh(extra) == refresh' = [NotRefreshing EXCEPT !.at = "read", !.extra = extra]
CountOp == catalogOps < MaxCatalogOps /\ catalogOps' = catalogOps + 1
Referenced == \E p \in Carriers : carriers[p].state = "readable"
OpaqueDamage == \E p \in Carriers : carriers[p].state = "damaged"

\* observeSourceLocator: the Source must belong to a readable Project.
Observe(t) ==
    /\ CatalogFree /\ shownTime # -1 /\ Referenced /\ CountOp /\ BeginRefresh(t)
    /\ UNCHANGED <<carriers, copies, copiesSafe, shownTime, ackedTime, noteVars, catalogFaults, catalogCrashes, rots>>

\* A Project is created with its own Locator, becomes unreadable or readable
\* again, or is deleted; #refreshEntries follows.
CarrierChanges(p, to) ==
    /\ CatalogFree /\ shownTime # -1 /\ CountOp /\ to # carriers[p]
    /\ to.state = "readable" <=> to.time # 0
    /\ carriers[p].state = "none" => to.state = "readable"
    /\ carriers' = [carriers EXCEPT ![p] = to] /\ BeginRefresh(0)
    /\ UNCHANGED <<copies, copiesSafe, shownTime, ackedTime, noteVars, catalogFaults, catalogCrashes, rots>>

\* Opening, or opening again after an error.
Reopen ==
    /\ CatalogFree /\ shownTime = -1 /\ CountOp /\ BeginRefresh(0)
    /\ UNCHANGED <<carriers, copies, copiesSafe, shownTime, ackedTime, noteVars, catalogFaults, catalogCrashes, rots>>

\* mergeCatalogWithEntries: the newest observation of each Locator wins, and a
\* Source nobody refers to is dropped, unless a Project cannot be read at all.
Embedded == {carriers[p].time : p \in Carriers}
Merged(stored, extra) ==
    IF Referenced THEN CHOOSE t \in Embedded \cup {stored, extra} : \A u \in Embedded \cup {stored, extra} : t >= u
    ELSE IF OpaqueDamage THEN stored ELSE 0

GoodCopies == {c \in Copies : copies[c].is = "good"}
BadCopies == {c \in Copies : copies[c].is = "bad"}
Selected ==
    LET best == {c \in GoodCopies : \A d \in GoodCopies : copies[c].rev >= copies[d].rev}
    IN IF GoodCopies = {} THEN Missing ELSE IF "primary" \in best THEN copies["primary"] ELSE copies["backup"]
Disagree == GoodCopies = Copies /\ copies["primary"].rev = copies["backup"].rev /\ copies["primary"] # copies["backup"]

\* Mutant: a new copy keeps the revision of the one it replaces.
SameRevision(t) == [is |-> "good", time |-> t, rev |-> Selected.rev]

\* What is written: a new revision only when the locators changed.
NextCopy(t) == [is |-> "good", time |-> t, rev |-> IF Selected.is = "good" /\ Selected.time = t THEN Selected.rev ELSE Selected.rev + 1]

EndRefresh == refresh' = NotRefreshing /\ UNCHANGED <<shownTime, ackedTime>>
Finish(t) ==
    /\ refresh' = NotRefreshing /\ shownTime' = t
    /\ ackedTime' = IF t = 0 THEN 0 ELSE Larger(ackedTime, refresh.extra)

\* Both copies are read and compared; a YouTube catalog that cannot be read is
\* quarantined first.
Read ==
    /\ refresh.at = "read"
    /\ IF notesFile = Unreadable
       THEN notesFile' = {} /\ notesSafe' = {} /\ notesShown' = {} /\ UNCHANGED <<notesAcked, notesWrite>>
       ELSE notesShown' = notesFile /\ UNCHANGED <<notesFile, notesSafe, notesAcked, notesWrite>>
    /\ LET t == Merged(Selected.time, refresh.extra)
           next == NextCopy(t)
       IN IF Disagree \/ (Selected = Missing /\ BadCopies # {}) THEN EndRefresh
          ELSE IF (Selected = Missing /\ t = 0) \/ \A c \in Copies : copies[c] = next THEN Finish(t)
          ELSE /\ refresh' = [refresh EXCEPT !.at = IF BadCopies # {} THEN "quarantine" ELSE "backup", !.next = next]
               /\ ackedTime' = IF Referenced \/ OpaqueDamage THEN ackedTime ELSE 0
               /\ UNCHANGED shownTime
    /\ UNCHANGED <<carriers, copies, copiesSafe, catalogBounds>>

\* #quarantineInvalidCatalogs: a report, then the unreadable copies move away.
Quarantine ==
    /\ refresh.at = "quarantine" /\ refresh' = [refresh EXCEPT !.at = "syncQuarantine"]
    /\ copies' = [c \in Copies |-> IF c \in BadCopies THEN Missing ELSE copies[c]]
    /\ UNCHANGED <<carriers, copiesSafe, shownTime, ackedTime, noteVars, catalogBounds>>
SyncQuarantine ==
    /\ refresh.at = "syncQuarantine" /\ refresh' = [refresh EXCEPT !.at = "backup"]
    /\ copiesSafe' = copies
    /\ UNCHANGED <<carriers, copies, shownTime, ackedTime, noteVars, catalogBounds>>

\* atomicWriteFile, for the backup and then for the primary copy.
WriteBackup ==
    /\ refresh.at = "backup" /\ refresh' = [refresh EXCEPT !.at = "syncBackup"]
    /\ copies' = [copies EXCEPT !["backup"] = refresh.next]
    /\ UNCHANGED <<carriers, copiesSafe, shownTime, ackedTime, noteVars, catalogBounds>>
SyncBackup ==
    /\ refresh.at = "syncBackup" /\ refresh' = [refresh EXCEPT !.at = "primary"]
    /\ copiesSafe' = copies
    /\ UNCHANGED <<carriers, copies, shownTime, ackedTime, noteVars, catalogBounds>>
WritePrimary ==
    /\ refresh.at = "primary" /\ refresh' = [refresh EXCEPT !.at = "syncPrimary"]
    /\ copies' = [copies EXCEPT !["primary"] = refresh.next]
    /\ UNCHANGED <<carriers, copiesSafe, shownTime, ackedTime, noteVars, catalogBounds>>
SyncPrimary ==
    /\ refresh.at = "syncPrimary" /\ copiesSafe' = copies /\ Finish(refresh.next.time)
    /\ UNCHANGED <<carriers, copies, noteVars, catalogBounds>>

\* appendYouTubeObservation: the file is read again, the observations known to
\* the Library and the new one are added, and the whole is replaced.
Note(n) ==
    /\ CatalogFree /\ shownTime # -1 /\ CountOp
    /\ notesFile # Unreadable /\ n \notin notesFile \cup notesShown
    /\ notesFile' = notesFile \cup notesShown \cup {n} /\ notesWrite' = "sync"
    /\ UNCHANGED <<carriers, locatorVars, notesSafe, notesShown, notesAcked, catalogFaults, catalogCrashes, rots>>
SyncNotes ==
    /\ notesWrite = "sync" /\ notesWrite' = "idle"
    /\ notesSafe' = notesFile /\ notesAcked' = notesFile /\ notesShown' = notesFile
    /\ UNCHANGED <<carriers, locatorVars, notesFile, catalogBounds>>
\* The call fails after the file was replaced: it is read back nevertheless.
NotesFail ==
    /\ notesWrite = "sync" /\ notesWrite' = "idle" /\ catalogFaults < MaxCatalogFaults
    /\ catalogFaults' = catalogFaults + 1 /\ notesShown' = notesFile
    /\ UNCHANGED <<carriers, locatorVars, notesFile, notesSafe, notesAcked, catalogOps, catalogCrashes, rots>>

\* A write, a rename or a sync fails: the mutation fails with it.
RefreshFails ==
    /\ refresh.at \notin {"idle", "read"} /\ catalogFaults < MaxCatalogFaults
    /\ catalogFaults' = catalogFaults + 1 /\ EndRefresh
    /\ UNCHANGED <<carriers, copies, copiesSafe, noteVars, catalogOps, catalogCrashes, rots>>

CrashCatalog ==
    /\ catalogCrashes < MaxCatalogCrashes /\ catalogCrashes' = catalogCrashes + 1
    /\ \E p \in {copies["primary"], copiesSafe["primary"]}, b \in {copies["backup"], copiesSafe["backup"]} :
         copies' = [c \in Copies |-> IF c = "primary" THEN p ELSE b]
    /\ copiesSafe' = copies' /\ BeginRefresh(0) /\ shownTime' = -1
    /\ notesFile' \in {notesFile, notesSafe} /\ notesSafe' = notesFile' /\ notesShown' = {} /\ notesWrite' = "idle"
    /\ UNCHANGED <<carriers, ackedTime, notesAcked, catalogOps, catalogFaults, rots>>

\* One of two good copies rots, or the only file of observations does.
Rot ==
    /\ CatalogFree /\ rots < MaxRots /\ rots' = rots + 1
    /\ \/ /\ GoodCopies = Copies /\ copies["primary"] = copies["backup"] /\ copiesSafe = copies
          /\ \E c \in Copies : copies' = [copies EXCEPT ![c] = Bad]
          /\ copiesSafe' = copies' /\ UNCHANGED <<notesFile, notesSafe, notesAcked>>
       \/ /\ notesFile' = Unreadable /\ notesSafe' = Unreadable /\ notesAcked' = {}
          /\ UNCHANGED <<copies, copiesSafe>>
    /\ UNCHANGED <<carriers, refresh, shownTime, ackedTime, notesShown, notesWrite, catalogOps, catalogFaults, catalogCrashes>>

CatalogNext ==
    \/ (\E t \in 1..MaxTime : Observe(t)) \/ Reopen \/ Read \/ Quarantine \/ SyncQuarantine
    \/ (\E p \in Carriers, s \in {"none", "readable", "damaged"}, t \in 0..MaxTime :
            CarrierChanges(p, [state |-> s, time |-> t]))
    \/ WriteBackup \/ SyncBackup \/ WritePrimary \/ SyncPrimary \/ RefreshFails
    \/ (\E n \in Notes : Note(n)) \/ SyncNotes \/ NotesFail \/ CrashCatalog \/ Rot
CatalogSpec == CatalogInit /\ [][CatalogNext]_catalogVars

-----------------------------------------------------------------------------
CatalogTypeOK ==
    /\ \A c \in Copies : copies[c].is \in {"missing", "good", "bad"} /\ copies[c].time \in 0..MaxTime
    /\ shownTime \in -1..MaxTime /\ ackedTime \in 0..MaxTime /\ notesAcked \subseteq Notes

\* A Locator that was reported as recorded is in the best readable copy, and
\* in what the Library shows, whatever failed, crashed or rotted in one copy
\* since, as long as a Project that can be read refers to its Source or a
\* Project that cannot be read might.
LocatorStays ==
    ackedTime # 0 => Selected.time >= ackedTime /\ (shownTime # -1 => shownTime >= ackedTime)

\* Two readable copies with one revision are equal: the Library, which refuses
\* to open otherwise, can always tell which copy is newer.
CopiesNeverDisagree == ~Disagree

\* A YouTube observation that was reported as recorded stays in its file, and
\* what the Library shows between mutations is what the file holds.
NotesStay ==
    notesFile # Unreadable =>
        /\ notesAcked \subseteq notesFile
        /\ CatalogFree /\ shownTime # -1 => notesShown = notesFile
CatalogKeepsWord == LocatorStays /\ CopiesNeverDisagree /\ NotesStay
=============================================================================
