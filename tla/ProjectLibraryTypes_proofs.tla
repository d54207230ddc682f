-------------------- MODULE ProjectLibraryTypes_proofs ----------------------
(* Type correctness of the Project Library, for every value of its           *)
(* constants, and with it that every step finds its operands named.          *)
EXTENDS ProjectLibraryProps, TLAPS

USE DEF NoRev

-----------------------------------------------------------------------------
(* Types *)

\* A step that issues no revision leaves the kinds of value as they are.
LEMMA SameTypes ==
    ASSUME ledger' = ledger
    PROVE  /\ Revs' = Revs /\ RevOrNone' = RevOrNone /\ Entry' = Entry
           /\ OpRecord' = OpRecord /\ ScanRecord' = ScanRecord
  BY DEF Revs, RevOrNone, Entry, OpRecord, ScanRecord

LEMMA DefaultTypes ==
    NoEntry \in Entry /\ NoEntries \in [Projects -> Entry] /\ NoOp \in OpRecord
    /\ NoScan \in ScanRecord
<1>1. NoEntry \in Entry /\ NoEntries \in [Projects -> Entry]
  BY DEF NoEntries, NoEntry, Entry, Places, RevOrNone
<1>. QED
  BY <1>1 DEF NoOp, NoScan, OpRecord, ScanRecord, Kinds, Labels, RevOrNone

LEMMA InitTypes == Init => TypeOK
<1>. SUFFICES ASSUME Init PROVE TypeOK
  OBVIOUS
<1>2. DiskTypes
  BY DEF Init, DiskTypes, RevOrNone, Places
<1>3. MemoryTypes
  BY DefaultTypes DEF Init, MemoryTypes
<1>4. pc \in Labels
  BY DEF Init, Labels
<1>5. ControlTypes
  BY DefaultTypes, <1>4 DEF Init, ControlTypes
<1>6. ledger \in Seq(Revision) /\ acked \in [Projects -> RevOrNone]
  BY DEF Init, RevOrNone
<1>. QED
  BY <1>2, <1>3, <1>5, <1>6 DEF TypeOK, Init

LEMMA VerifiedTypes ==
    ASSUME TypeOK, NEW p \in Projects
    PROVE  Verified(p) \subseteq pointers[p] /\ Verified(p) \subseteq Revs
  BY DEF TypeOK, DiskTypes, Verified, Readable

LEMMA UpToPart == ASSUME NEW R, NEW n PROVE UpTo(R, n) \subseteq R
  BY DEF UpTo

LEMMA NewestTypes ==
    ASSUME NEW R \in SUBSET Revs
    PROVE  Newest(R) \in RevOrNone /\ (Newest(R) # NoRev => Newest(R) \in R)
  BY DEF Newest, RevOrNone

LEMMA LedgerTypes ==
    ASSUME TypeOK, NEW r \in Revs
    PROVE  /\ Revs = 1..Len(ledger) /\ Len(ledger) \in Nat /\ r \in Nat \ {0}
           /\ ledger[r].project \in Projects /\ ledger[r].parent \in Nat
           /\ ledger[r].seq \in Nat \ {0} /\ ledger[r].payload \in Payloads
           /\ ledger[r].line \in SUBSET Nat
<1>1. ledger \in Seq(Revision)
  BY DEF TypeOK
<1>2. Revs = 1..Len(ledger) /\ Len(ledger) \in Nat
  BY <1>1 DEF Revs
<1>3. ledger[r] \in Revision
  BY <1>1, <1>2
<1>. QED
  BY <1>2, <1>3 DEF Revision

LEMMA LimitTypes ==
    ASSUME TypeOK, NEW p \in Projects
    PROVE  RecoveryLimit(p) \in Nat
<1>1. CASE StagedKind(p) = "valid"
  <2>1. staged \in Revs
    BY <1>1, VerifiedTypes DEF StagedKind
  <2>. QED
    BY <1>1, <2>1, LedgerTypes DEF RecoveryLimit
<1>2. CASE StagedKind(p) # "valid"
  BY <1>2 DEF RecoveryLimit, TypeOK
<1>. QED
  BY <1>1, <1>2

LEMMA ScannedTypes ==
    ASSUME TypeOK, ledger' = ledger, NEW p \in Projects, NEW e \in Entry, Scanned(p, e)
    PROVE  scan' \in ScanRecord'
  BY SameTypes DEF TypeOK, ControlTypes, Scanned, ScanRecord

LEMMA StartRefreshTypes ==
    ASSUME ledger' = ledger, NEW then \in Labels, StartRefresh(then)
    PROVE  pc' \in Labels /\ scan' \in ScanRecord'
  BY SameTypes, DefaultTypes DEF StartRefresh, NoScan, Labels, ScanRecord

LEMMA DiskTypesKept ==
    ASSUME ledger' = ledger, UNCHANGED diskVars, DiskTypes PROVE DiskTypes'
  BY SameTypes DEF DiskTypes, diskVars, placeVars, headVars, pointerVars, objectVars

LEMMA MemoryTypesKept ==
    ASSUME ledger' = ledger, UNCHANGED memVars, MemoryTypes PROVE MemoryTypes'
  BY SameTypes DEF MemoryTypes, memVars

\* A step that issues no revision and tells no caller of one.
LEMMA OtherTypes ==
    ASSUME TypeOK, ledger' = ledger, UNCHANGED <<acked, countVars>>,
           DiskTypes', MemoryTypes', ControlTypes'
    PROVE  TypeOK'
  BY SameTypes DEF TypeOK, countVars

LEMMA ScanNothingTypes == ASSUME TypeOK, NEW p \in Projects, ScanNothing(p) PROVE TypeOK'
<1>. ControlTypes'
  BY ScannedTypes, DefaultTypes, SameTypes DEF ScanNothing, TypeOK, ControlTypes
<1>. QED
  BY OtherTypes, DiskTypesKept, MemoryTypesKept DEF ScanNothing, TypeOK, countVars

LEMMA ScanUnpublishedTypes == ASSUME TypeOK, NEW p \in Projects, ScanUnpublished(p) PROVE TypeOK'
<1>1. ControlTypes'
  BY ScannedTypes, DefaultTypes, SameTypes DEF ScanUnpublished, TypeOK, ControlTypes
<1>2. DiskTypes'
  BY SameTypes DEF ScanUnpublished, TypeOK, DiskTypes, objectVars, Places, RevOrNone
<1>. QED
  BY <1>1, <1>2, OtherTypes, MemoryTypesKept DEF ScanUnpublished, TypeOK, countVars

LEMMA ScanSoundTypes == ASSUME TypeOK, NEW p \in Projects, ScanSound(p) PROVE TypeOK'
<1>. DEFINE kept == UpTo(pointers[p], ledger[head[p]].seq)
            seen == UpTo(Verified(p), ledger[head[p]].seq)
            e == [status |-> place[p], location |-> place[p], rev |-> head[p],
                  history |-> seen, dated |-> place[p] = "trashed"]
<1>1. seen \subseteq Revs /\ kept \subseteq Revs
  BY UpToPart, VerifiedTypes DEF TypeOK, DiskTypes
<1>2. e \in Entry
  BY <1>1 DEF Entry, TypeOK, DiskTypes
<1>3. ControlTypes'
  BY <1>2, ScannedTypes, SameTypes DEF ScanSound, TypeOK, ControlTypes
<1>4. DiskTypes'
  BY <1>1, SameTypes DEF ScanSound, TypeOK, DiskTypes, placeVars, headVars,
     objectVars
<1>. QED
  BY <1>3, <1>4, OtherTypes, MemoryTypesKept DEF ScanSound, TypeOK, countVars

LEMMA ScanDamagedTrashTypes == ASSUME TypeOK, NEW p \in Projects, ScanDamagedTrash(p) PROVE TypeOK'
<1>. DEFINE e == [status |-> "damaged", location |-> "trashed",
                  rev |-> Newest(Verified(p)), history |-> Verified(p),
                  dated |-> p \in markers]
<1>1. e \in Entry
  BY VerifiedTypes, NewestTypes DEF Entry, Places
<1>2. ControlTypes'
  BY <1>1, ScannedTypes, SameTypes DEF ScanDamagedTrash, TypeOK, ControlTypes
<1>. QED
  BY <1>2, OtherTypes, DiskTypesKept, MemoryTypesKept
  DEF ScanDamagedTrash, TypeOK, countVars

LEMMA RecoverQuarantineTypes == ASSUME TypeOK, NEW p \in Projects, RecoverQuarantine(p) PROVE TypeOK'
<1>1. ControlTypes'
  BY LimitTypes, SameTypes
  DEF RecoverQuarantine, TypeOK, ControlTypes, ScanRecord, Labels
<1>2. DiskTypes'
  BY SameTypes DEF RecoverQuarantine, TypeOK, DiskTypes, placeVars, pointerVars,
     objectVars, RevOrNone
<1>. QED
  BY <1>1, <1>2, OtherTypes, MemoryTypesKept
  DEF RecoverQuarantine, TypeOK, countVars

LEMMA RecoverReportTypes == ASSUME TypeOK, NEW p \in Projects, RecoverReport(p) PROVE TypeOK'
<1>. DEFINE kept == IF scan.limit > 0 THEN UpTo(pointers[p], scan.limit) ELSE pointers[p]
            found == UpTo(Verified(p), scan.limit)
            lost == [NoEntry EXCEPT !.status = "damaged", !.location = "active"]
            e == [status |-> "active", location |-> "active", rev |-> Newest(found),
                  history |-> found, dated |-> FALSE]
<1>1. kept \subseteq Revs /\ found \in SUBSET Revs
  BY UpToPart, VerifiedTypes DEF TypeOK, DiskTypes
<1>2. lost \in Entry /\ e \in Entry
  BY <1>1, NewestTypes DEF Entry, Places, NoEntry, RevOrNone
<1>3. ControlTypes'
  <2>1. CASE found = {}
    BY <1>2, <2>1, ScannedTypes, SameTypes
    DEF RecoverReport, TypeOK, ControlTypes, Labels
  <2>2. CASE found # {}
    BY <1>2, <2>2, SameTypes, ZenonT(100)
    DEF RecoverReport, TypeOK, ControlTypes, Labels, ScanRecord
  <2>. QED
    BY <2>1, <2>2
<1>4. DiskTypes'
  BY <1>1, SameTypes DEF RecoverReport, TypeOK, DiskTypes, placeVars, headVars,
     objectVars
<1>. QED
  BY <1>3, <1>4, OtherTypes, MemoryTypesKept DEF RecoverReport, TypeOK, countVars

LEMMA RecoverHeadTypes == ASSUME TypeOK, NEW p \in Projects, RecoverHead(p) PROVE TypeOK'
<1>1. scan.fresh[p] \in Entry
  BY DEF TypeOK, ControlTypes, ScanRecord
<1>2. ControlTypes'
  BY <1>1, ScannedTypes, SameTypes DEF RecoverHead, TypeOK, ControlTypes, Labels
<1>3. scan.fresh[p].rev \in RevOrNone
  BY <1>1 DEF Entry
<1>4. DiskTypes'
  BY <1>3, SameTypes DEF RecoverHead, TypeOK, DiskTypes, placeVars, pointerVars,
     objectVars
<1>. QED
  BY <1>2, <1>4, OtherTypes, MemoryTypesKept DEF RecoverHead, TypeOK, countVars

LEMMA FinishRefreshTypes == ASSUME TypeOK, FinishRefresh PROVE TypeOK'
<1>1. MemoryTypes'
  BY SameTypes DEF FinishRefresh, TypeOK, MemoryTypes, ControlTypes, ScanRecord
<1>2. ControlTypes'
  BY SameTypes, DefaultTypes DEF FinishRefresh, TypeOK, ControlTypes, ScanRecord
<1>. QED
  BY <1>1, <1>2, OtherTypes, DiskTypesKept DEF FinishRefresh, TypeOK, countVars

\* A step that moves on without touching the disk or the readers.
LEMMA ControlTypesSuffice ==
    ASSUME TypeOK, UNCHANGED <<ledger, diskVars, memVars, acked, countVars>>, ControlTypes'
    PROVE  TypeOK'
  BY OtherTypes, DiskTypesKept, MemoryTypesKept DEF TypeOK

LEMMA ShutdownTypes ==
    ASSUME TypeOK, Shutdown
    PROVE  /\ ledger' = ledger /\ acked' = acked
           /\ DiskTypes' /\ MemoryTypes' /\ ControlTypes'
<1>1. ledger' = ledger /\ acked' = acked
  BY DEF Shutdown
<1>2. place' \in [Projects -> Places] /\ head' \in [Projects -> RevOrNone]
      /\ pointers' \in [Projects -> SUBSET Revs]
  <2>. place \in [Projects -> Places] /\ placeSynced \in [Projects -> Places]
       /\ head \in [Projects -> RevOrNone] /\ headSynced \in [Projects -> RevOrNone]
       /\ pointers \in [Projects -> SUBSET Revs]
       /\ pointersSynced \in [Projects -> SUBSET Revs]
    BY DEF TypeOK, DiskTypes
  <2>1. PICK kept : place' = Settled(place, placeSynced, kept)
    BY DEF Shutdown
  <2>2. PICK settled : head' = Settled(head, headSynced, settled)
    BY DEF Shutdown
  <2>3. PICK saved : pointers' = Settled(pointers, pointersSynced, saved)
    BY DEF Shutdown
  <2>. QED
    BY <2>1, <2>2, <2>3 DEF Settled
<1>3. objects' \subseteq Revs \cup Payloads
  BY DEF Shutdown, TypeOK, DiskTypes
<1>4. published' \subseteq Revs
  BY <1>2 DEF Shutdown, TypeOK, DiskTypes, RevOrNone
<1>5. staged' \in RevOrNone
  <2>1. CASE \E p \in Projects : head'[p] # head[p]
    BY <2>1 DEF Shutdown, TypeOK, DiskTypes
  <2>2. CASE ~ \E p \in Projects : head'[p] # head[p]
    BY <2>2 DEF Shutdown, TypeOK, DiskTypes
  <2>. QED
    BY <2>1, <2>2
<1>6. DiskTypes'
  BY <1>1, <1>2, <1>3, <1>4, <1>5, SameTypes DEF Shutdown, TypeOK, DiskTypes
<1>7. MemoryTypes'
  BY <1>1, SameTypes, DefaultTypes DEF Shutdown, MemoryTypes
<1>8. ControlTypes'
  BY <1>1, SameTypes, DefaultTypes DEF Shutdown, ControlTypes, Labels
<1>. QED
  BY <1>1, <1>6, <1>7, <1>8

LEMMA BlockTypes == ASSUME TypeOK, Block, UNCHANGED countVars PROVE TypeOK'
<1>1. CASE Shutdown
  BY <1>1, ShutdownTypes, OtherTypes
<1>2. CASE blocked' = TRUE /\ pc' = "idle" /\ op' = NoOp /\ scan' = NoScan
           /\ UNCHANGED <<ledger, diskVars, entries, acked>>
  <2>1. ControlTypes'
    BY <1>2, SameTypes, DefaultTypes DEF ControlTypes, Labels
  <2>2. MemoryTypes'
    BY <1>2, SameTypes DEF TypeOK, MemoryTypes
  <2>. QED
    BY <1>2, <2>1, <2>2, OtherTypes, DiskTypesKept DEF TypeOK
<1>. QED
  BY <1>1, <1>2 DEF Block, diskVars, placeVars, headVars, pointerVars, objectVars

LEMMA FailRefreshTypes == ASSUME TypeOK, FailRefresh PROVE TypeOK'
<1>1. CASE Block
  BY <1>1, BlockTypes DEF FailRefresh
<1>2. CASE UNCHANGED <<ledger, diskVars, memVars, acked>>
           /\ op' = op /\ \E then \in {"reconcile", "abort"} : StartRefresh(then)
  <2>1. ControlTypes'
    BY <1>2, StartRefreshTypes, SameTypes DEF TypeOK, ControlTypes, Labels
  <2>. QED
    BY <1>2, <2>1, ControlTypesSuffice DEF FailRefresh
<1>3. CASE UNCHANGED <<ledger, diskVars, memVars, acked>>
           /\ pc' = "idle" /\ scan' = NoScan /\ op' = NoOp
  <2>1. ControlTypes'
    BY <1>3, DefaultTypes, SameTypes DEF TypeOK, ControlTypes, Labels
  <2>. QED
    BY <1>3, <2>1, ControlTypesSuffice DEF FailRefresh
<1>. QED
  BY <1>1, <1>2, <1>3 DEF FailRefresh

LEMMA CrashTypes == ASSUME TypeOK, Crash PROVE TypeOK'
  BY ShutdownTypes, SameTypes DEF Crash, TypeOK

LEMMA CloseTypes == ASSUME TypeOK, Close PROVE TypeOK'
  BY ShutdownTypes, OtherTypes DEF Close

LEMMA RotHeadTypes == ASSUME TypeOK, NEW p \in Projects, RotHead(p) PROVE TypeOK'
<1>. ledger' = ledger /\ DiskTypes'
  BY SameTypes DEF RotHead, TypeOK, DiskTypes, placeVars, pointerVars, objectVars
<1>. MemoryTypes' /\ ControlTypes'
  BY MemoryTypesKept, SameTypes DEF RotHead, TypeOK, ControlTypes
<1>. QED
  BY SameTypes DEF RotHead, TypeOK

LEMMA RotObjectTypes == ASSUME TypeOK, NEW o \in objects, RotObject(o) PROVE TypeOK'
<1>. ledger' = ledger /\ DiskTypes'
  BY SameTypes DEF RotObject, TypeOK, DiskTypes, placeVars, headVars, pointerVars
<1>. MemoryTypes' /\ ControlTypes'
  BY MemoryTypesKept, SameTypes DEF RotObject, TypeOK, ControlTypes
<1>. QED
  BY SameTypes DEF RotObject, TypeOK

LEMMA OpenTypes == ASSUME TypeOK, Open PROVE TypeOK'
<1>. ControlTypes'
  BY StartRefreshTypes, DefaultTypes, SameTypes
  DEF Open, ControlTypes, Labels, OpRecord, Kinds
<1>. QED
  BY ControlTypesSuffice DEF Open

LEMMA ScavengeTypes == ASSUME TypeOK, Scavenge PROVE TypeOK'
<1>1. {entries[p].rev : p \in {q \in Projects : entries[q].status = "active"
                                            /\ ~Current(entries[q].rev)}} \subseteq RevOrNone
  BY DEF TypeOK, MemoryTypes, Entry
<1>. ControlTypes'
  BY <1>1, SameTypes DEF Scavenge, ControlTypes, Labels, OpRecord, Kinds, TypeOK
<1>. DiskTypes'
  BY SameTypes DEF Scavenge, TypeOK, DiskTypes, RevOrNone, placeVars, headVars,
     pointerVars, objectVars
<1>. QED
  BY OtherTypes, MemoryTypesKept DEF Scavenge, TypeOK

LEMMA MigrationsDoneTypes == ASSUME TypeOK, MigrationsDone PROVE TypeOK'
<1>. ControlTypes'
  BY DefaultTypes, SameTypes
  DEF MigrationsDone, ControlTypes, Labels, OpRecord, Kinds, TypeOK
<1>. QED
  BY ControlTypesSuffice DEF MigrationsDone

LEMMA FailMigrationTypes == ASSUME TypeOK, NEW r \in Revs, FailMigration(r) PROVE TypeOK'
<1>. op'  \in OpRecord
  BY DefaultTypes, SameTypes
  DEF FailMigration, ControlTypes, OpRecord, Kinds, TypeOK
<1>. ControlTypes'
  BY StartRefreshTypes, SameTypes DEF FailMigration, ControlTypes, Labels
<1>. QED
  BY ControlTypesSuffice DEF FailMigration

LEMMA CollectTypes == ASSUME TypeOK, Collect PROVE TypeOK'
<1>1. objects' \subseteq objects
  BY DEF Collect, Kept
<1>. ControlTypes'
  BY DefaultTypes, SameTypes DEF Collect, ControlTypes, Labels, TypeOK
<1>. DiskTypes'
  BY <1>1, SameTypes DEF Collect, TypeOK, DiskTypes, placeVars, headVars,
     pointerVars
<1>. QED
  BY OtherTypes, MemoryTypesKept DEF Collect, TypeOK

LEMMA FailCollectTypes == ASSUME TypeOK, FailCollect PROVE TypeOK'
<1>1. CASE Block
  BY <1>1, BlockTypes DEF FailCollect
<1>2. CASE StartRefresh("abort") /\ UNCHANGED <<ledger, diskVars, memVars, op, acked>>
  <2>1. ControlTypes'
    BY <1>2, StartRefreshTypes, SameTypes DEF TypeOK, ControlTypes, Labels
  <2>. QED
    BY <1>2, <2>1, ControlTypesSuffice DEF FailCollect
<1>. QED
  BY <1>1, <1>2 DEF FailCollect

LEMMA IssueTypes ==
    ASSUME TypeOK, NEW kind \in Kinds, NEW p \in Projects, NEW parent \in RevOrNone,
           NEW v \in Payloads, Issue(kind, p, parent, v)
    PROVE  TypeOK'
<1>. DEFINE n == Len(ledger) + 1
            record == [project |-> p, parent |-> parent, seq |-> SeqOf(parent) + 1,
                       payload |-> v, line |-> Line(parent) \cup {n}]
<1>1. ledger \in Seq(Revision) /\ Len(ledger) \in Nat /\ Revs = 1..Len(ledger)
  BY DEF TypeOK, Revs
<1>2. SeqOf(parent) \in Nat /\ Line(parent) \subseteq Nat /\ parent \in Nat
  BY <1>1, LedgerTypes DEF SeqOf, Line, RevOrNone
<1>3. record \in Revision
  BY <1>1, <1>2 DEF Revision
<1>4. ledger' = Append(ledger, record)
  BY DEF Issue
<1>5. ledger' \in Seq(Revision) /\ Revs' = 1..n
  BY <1>1, <1>3, <1>4 DEF Revs
<1>6. Revs \subseteq Revs' /\ RevOrNone \subseteq RevOrNone' /\ n \in RevOrNone'
  BY <1>1, <1>5 DEF RevOrNone
<1>7. Entry \subseteq Entry'
  BY <1>6 DEF Entry
<1>8. DiskTypes'
  BY <1>6 DEF Issue, TypeOK, DiskTypes, diskVars, placeVars, headVars, pointerVars,
     objectVars
<1>9. MemoryTypes'
  BY <1>7 DEF Issue, TypeOK, MemoryTypes, memVars
<1>10. ControlTypes'
  <2>1. op' \in OpRecord'
    BY <1>6 DEF Issue, TypeOK, ControlTypes, OpRecord
  <2>2. scan' \in ScanRecord'
    BY <1>7 DEF Issue, TypeOK, ControlTypes, ScanRecord
  <2>. QED
    BY <2>1, <2>2 DEF Issue, ControlTypes, Labels, Publishing
<1>. QED
  BY <1>5, <1>6, <1>8, <1>9, <1>10 DEF Issue, TypeOK, countVars

LEMMA MigrateNextTypes ==
    ASSUME TInv, NEW r \in Revs, MigrateNext(r) PROVE TypeOK'
<1>. ledger[r].payload \in Older
  BY DEF TInv, OpNamed, MigrateNext
<1>. QED
  BY LedgerTypes, LibraryAssumption, IssueTypes
  DEF MigrateNext, Kinds, RevOrNone, TInv

LEMMA UpgradeRestoredTypes == ASSUME TInv, UpgradeRestored PROVE TypeOK'
<1>. Payload \in Older /\ op.project \in Projects /\ op.rev \in Revs
  BY DEF TInv, OpNamed, UpgradeRestored
<1>. QED
  BY LibraryAssumption, IssueTypes
  DEF UpgradeRestored, Payload, Kinds, RevOrNone, TInv

LEMMA OpReady ==
    ASSUME TInv, pc \in Publishing \cup Settling \cup {"verify", "reconcile", "upgrade"}
    PROVE  /\ op.project \in Projects /\ op.rev \in Revs /\ op.kind \in Revising
           /\ Payload \in Payloads
  BY LedgerTypes DEF TInv, OpNamed, Payload

LEMMA StageTypes == ASSUME TInv, Stage PROVE TypeOK'
<1>. op.project \in Projects /\ op.rev \in RevOrNone /\ op.rev \in Revs /\ Payload \in Payloads
  BY OpReady DEF Stage, Step, Publishing, Settling, RevOrNone
<1>. ledger' = ledger /\ ControlTypes'
  BY SameTypes DEF Stage, Step, TInv, TypeOK, ControlTypes, Labels, Publishing
<1>. DiskTypes'
  BY SameTypes DEF Stage, TInv, TypeOK, DiskTypes, placeVars, headVars,
     pointerVars, objectVars
<1>. QED
  BY OtherTypes, MemoryTypesKept DEF Stage, TInv, TypeOK

LEMMA InstallPayloadTypes == ASSUME TInv, InstallPayload PROVE TypeOK'
<1>. op.project \in Projects /\ op.rev \in RevOrNone /\ op.rev \in Revs /\ Payload \in Payloads
  BY OpReady DEF InstallPayload, Step, Publishing, Settling, RevOrNone
<1>. ledger' = ledger /\ ControlTypes'
  BY SameTypes DEF InstallPayload, InstallObject, Step, TInv, TypeOK, ControlTypes,
     Labels, Publishing
<1>. DiskTypes'
  BY SameTypes DEF InstallPayload, InstallObject, TInv, TypeOK, DiskTypes,
     placeVars, headVars, pointerVars
<1>. QED
  BY OtherTypes, MemoryTypesKept DEF InstallPayload, InstallObject, TInv, TypeOK

LEMMA SyncPayloadTypes == ASSUME TInv, SyncPayload PROVE TypeOK'
<1>. op.project \in Projects /\ op.rev \in RevOrNone /\ op.rev \in Revs /\ Payload \in Payloads
  BY OpReady DEF SyncPayload, Step, Publishing, Settling, RevOrNone
<1>. ledger' = ledger /\ ControlTypes'
  BY SameTypes DEF SyncPayload, SyncObjects, Step, TInv, TypeOK, ControlTypes,
     Labels, Publishing
<1>. DiskTypes'
  BY SameTypes DEF SyncPayload, SyncObjects, TInv, TypeOK, DiskTypes, placeVars,
     headVars, pointerVars
<1>. QED
  BY OtherTypes, MemoryTypesKept DEF SyncPayload, SyncObjects, TInv, TypeOK

LEMMA InstallRevisionTypes == ASSUME TInv, InstallRevision PROVE TypeOK'
<1>. op.project \in Projects /\ op.rev \in RevOrNone /\ op.rev \in Revs /\ Payload \in Payloads
  BY OpReady DEF InstallRevision, Step, Publishing, Settling, RevOrNone
<1>. ledger' = ledger /\ ControlTypes'
  BY SameTypes DEF InstallRevision, InstallObject, Step, TInv, TypeOK,
     ControlTypes, Labels, Publishing
<1>. DiskTypes'
  BY SameTypes DEF InstallRevision, InstallObject, TInv, TypeOK, DiskTypes,
     placeVars, headVars, pointerVars
<1>. QED
  BY OtherTypes, MemoryTypesKept DEF InstallRevision, InstallObject, TInv, TypeOK

LEMMA SyncRevisionTypes == ASSUME TInv, SyncRevision PROVE TypeOK'
<1>. op.project \in Projects /\ op.rev \in RevOrNone /\ op.rev \in Revs /\ Payload \in Payloads
  BY OpReady DEF SyncRevision, Step, Publishing, Settling, RevOrNone
<1>. ledger' = ledger /\ ControlTypes'
  BY SameTypes DEF SyncRevision, SyncObjects, Step, TInv, TypeOK, ControlTypes,
     Labels, Publishing
<1>. DiskTypes'
  BY SameTypes DEF SyncRevision, SyncObjects, TInv, TypeOK, DiskTypes, placeVars,
     headVars, pointerVars
<1>. QED
  BY OtherTypes, MemoryTypesKept DEF SyncRevision, SyncObjects, TInv, TypeOK

LEMMA MakeDirectoryTypes == ASSUME TInv, MakeDirectory PROVE TypeOK'
<1>. op.project \in Projects /\ op.rev \in RevOrNone /\ op.rev \in Revs /\ Payload \in Payloads
  BY OpReady DEF MakeDirectory, Step, Publishing, Settling, RevOrNone
<1>. ledger' = ledger /\ ControlTypes'
  BY SameTypes DEF MakeDirectory, Step, TInv, TypeOK, ControlTypes, Labels,
     Publishing
<1>. DiskTypes'
  BY SameTypes DEF MakeDirectory, TInv, TypeOK, DiskTypes, headVars, pointerVars,
     objectVars, Places
<1>. QED
  BY OtherTypes, MemoryTypesKept DEF MakeDirectory, TInv, TypeOK

LEMMA RenamePointerTypes == ASSUME TInv, RenamePointer PROVE TypeOK'
<1>. op.project \in Projects /\ op.rev \in RevOrNone /\ op.rev \in Revs /\ Payload \in Payloads
  BY OpReady DEF RenamePointer, Step, Publishing, Settling, RevOrNone
<1>. ledger' = ledger /\ ControlTypes'
  BY SameTypes DEF RenamePointer, Step, TInv, TypeOK, ControlTypes, Labels,
     Publishing
<1>. DiskTypes'
  BY SameTypes DEF RenamePointer, TInv, TypeOK, DiskTypes, placeVars, headVars,
     objectVars
<1>. QED
  BY OtherTypes, MemoryTypesKept DEF RenamePointer, TInv, TypeOK

LEMMA SyncPointerTypes == ASSUME TInv, SyncPointer PROVE TypeOK'
<1>. op.project \in Projects /\ op.rev \in RevOrNone /\ op.rev \in Revs /\ Payload \in Payloads
  BY OpReady DEF SyncPointer, Step, Publishing, Settling, RevOrNone
<1>. ledger' = ledger /\ ControlTypes'
  BY SameTypes DEF SyncPointer, Step, TInv, TypeOK, ControlTypes, Labels, Publishing
<1>. DiskTypes'
  BY SameTypes DEF SyncPointer, TInv, TypeOK, DiskTypes, placeVars, headVars,
     objectVars
<1>. QED
  BY OtherTypes, MemoryTypesKept DEF SyncPointer, TInv, TypeOK

LEMMA RenameHeadTypes == ASSUME TInv, RenameHead PROVE TypeOK'
<1>. op.project \in Projects /\ op.rev \in RevOrNone /\ op.rev \in Revs /\ Payload \in Payloads
  BY OpReady DEF RenameHead, Step, Publishing, Settling, RevOrNone
<1>. ledger' = ledger /\ ControlTypes'
  BY SameTypes DEF RenameHead, Step, TInv, TypeOK, ControlTypes, Labels, Publishing
<1>. DiskTypes'
  BY SameTypes DEF RenameHead, TInv, TypeOK, DiskTypes, RevOrNone, placeVars,
     pointerVars, objectVars
<1>. QED
  BY OtherTypes, MemoryTypesKept DEF RenameHead, TInv, TypeOK

LEMMA SyncHeadTypes == ASSUME TInv, SyncHead PROVE TypeOK'
<1>. op.project \in Projects /\ op.rev \in RevOrNone /\ op.rev \in Revs /\ Payload \in Payloads
  BY OpReady DEF SyncHead, Step, Publishing, Settling, RevOrNone
<1>. ledger' = ledger /\ ControlTypes'
  BY SameTypes DEF SyncHead, HeadDurable, Step, TInv, TypeOK, ControlTypes, Labels,
     Publishing
<1>. DiskTypes'
  BY SameTypes DEF SyncHead, HeadDurable, TInv, TypeOK, DiskTypes, placeVars,
     pointerVars, objectVars
<1>. QED
  BY OtherTypes, MemoryTypesKept DEF SyncHead, HeadDurable, TInv, TypeOK

LEMMA RetryHeadTypes == ASSUME TInv, RetryHead PROVE TypeOK'
<1>. op.project \in Projects /\ op.rev \in RevOrNone /\ op.rev \in Revs /\ Payload \in Payloads
  BY OpReady DEF RetryHead, Step, Publishing, Settling, RevOrNone
<1>. ledger' = ledger /\ ControlTypes'
  BY SameTypes DEF RetryHead, HeadDurable, Step, TInv, TypeOK, ControlTypes,
     Labels, Publishing
<1>. DiskTypes'
  BY SameTypes DEF RetryHead, HeadDurable, TInv, TypeOK, DiskTypes, placeVars,
     pointerVars, objectVars
<1>. QED
  BY OtherTypes, MemoryTypesKept DEF RetryHead, HeadDurable, TInv, TypeOK

LEMMA FailSyncHeadTypes == ASSUME TypeOK, FailSyncHead PROVE TypeOK'
<1>. ControlTypes'
  BY StartRefreshTypes, SameTypes
  DEF FailSyncHead, Step, TypeOK, ControlTypes, OpRecord, Kinds, Labels
<1>. QED
  BY ControlTypesSuffice DEF FailSyncHead

LEMMA CleanTypes == ASSUME TypeOK, Clean PROVE TypeOK'
<1>. ControlTypes'
  BY StartRefreshTypes, SameTypes
  DEF Clean, TypeOK, ControlTypes, OpRecord, Kinds, Labels
<1>. QED
  BY ControlTypesSuffice DEF Clean

LEMMA FailPublicationTypes == ASSUME TypeOK, FailPublication PROVE TypeOK'
<1>. ControlTypes'
  BY StartRefreshTypes, SameTypes
  DEF FailPublication, TypeOK, ControlTypes, OpRecord, Kinds, Labels
<1>. QED
  BY ControlTypesSuffice DEF FailPublication

LEMMA FailUpgradeTypes == ASSUME TypeOK, FailUpgrade PROVE TypeOK'
<1>. ControlTypes'
  BY StartRefreshTypes, SameTypes
  DEF FailUpgrade, TypeOK, ControlTypes, OpRecord, Kinds, Labels
<1>. QED
  BY ControlTypesSuffice DEF FailUpgrade

LEMMA FailLifecycleTypes == ASSUME TypeOK, FailLifecycle PROVE TypeOK'
<1>. ControlTypes'
  BY StartRefreshTypes, SameTypes
  DEF FailLifecycle, TypeOK, ControlTypes, OpRecord, Kinds, Labels
<1>. QED
  BY ControlTypesSuffice DEF FailLifecycle

LEMMA FailLifecycleSyncTypes == ASSUME TypeOK, FailLifecycleSync PROVE TypeOK'
<1>. ControlTypes'
  BY StartRefreshTypes, SameTypes
  DEF FailLifecycleSync, TypeOK, ControlTypes, OpRecord, Kinds, Labels
<1>. QED
  BY ControlTypesSuffice DEF FailLifecycleSync

LEMMA FailRetryHeadTypes == ASSUME TypeOK, FailRetryHead PROVE TypeOK'
  BY BlockTypes DEF FailRetryHead

LEMMA FailReconcileTypes == ASSUME TypeOK, FailReconcile PROVE TypeOK'
  BY BlockTypes DEF FailReconcile

LEMMA BlockMutationsTypes == ASSUME TypeOK, BlockMutations PROVE TypeOK'
  BY BlockTypes DEF BlockMutations

LEMMA AcknowledgeTypes ==
    ASSUME TInv, ledger' = ledger, NEW r \in RevOrNone, Acknowledge(r)
    PROVE  acked' \in [Projects -> RevOrNone] /\ ControlTypes'
<1>1. acked' \in [Projects -> RevOrNone]
  BY DEF Acknowledge, TInv, TypeOK
<1>2. op' \in OpRecord /\ pc' \in Labels
  BY DefaultTypes DEF Acknowledge, TInv, TypeOK, ControlTypes, OpRecord, Kinds,
     Labels
<1>. QED
  BY <1>1, <1>2, DefaultTypes, SameTypes DEF Acknowledge, ControlTypes

LEMMA VerifyTypes == ASSUME TInv, Verify PROVE TypeOK'
<1>1. DiskTypes' /\ MemoryTypes' /\ ledger' = ledger
  BY DiskTypesKept, MemoryTypesKept DEF Verify, TInv, TypeOK
<1>2. CASE Acknowledge(op.rev)
  <2>. op.rev \in RevOrNone
    BY DEF TInv, TypeOK, ControlTypes, OpRecord
  <2>. QED
    BY <1>1, <1>2, AcknowledgeTypes, SameTypes DEF Verify, TInv, TypeOK, countVars
<1>3. CASE StartRefresh("reconcile") /\ UNCHANGED <<op, acked>>
  <2>. ControlTypes'
    BY <1>1, <1>3, StartRefreshTypes, SameTypes
    DEF TInv, TypeOK, ControlTypes, Labels
  <2>. QED
    BY <1>1, <1>3, OtherTypes DEF Verify, TInv
<1>. QED
  BY <1>2, <1>3 DEF Verify

LEMMA ReconcileTypes == ASSUME TInv, Reconcile PROVE TypeOK'
<1>1. ledger' = ledger /\ op.project \in Projects
  BY OpReady DEF Reconcile
<1>2. DiskTypes'
  BY <1>1, SameTypes DEF Reconcile, Kept, TInv, TypeOK, DiskTypes, placeVars,
     headVars, pointerVars, RevOrNone
<1>3. MemoryTypes'
  BY <1>1, MemoryTypesKept DEF Reconcile, TInv, TypeOK
<1>4. CASE Acknowledge(entries[op.project].rev)
  <2>. entries[op.project].rev \in RevOrNone
    BY <1>1 DEF TInv, TypeOK, MemoryTypes, Entry
  <2>. QED
    BY <1>1, <1>2, <1>3, <1>4, AcknowledgeTypes, SameTypes
    DEF Reconcile, TInv, TypeOK, countVars
<1>5. CASE /\ \/ StartRefresh("migrate") /\ op' = [op EXCEPT !.kind = "open"]
              \/ StartRefresh("idle") /\ op' = op
              \/ pc' = "idle" /\ scan' = NoScan /\ op' = NoOp
           /\ acked' = acked
  <2>1. op' \in OpRecord
    BY <1>5, DefaultTypes DEF TInv, TypeOK, ControlTypes, OpRecord, Kinds
  <2>2. pc' \in Labels /\ scan' \in ScanRecord'
    BY <1>1, <1>5, StartRefreshTypes, DefaultTypes, SameTypes DEF Labels
  <2>. QED
    BY <1>1, <1>2, <1>3, <1>5, <2>1, <2>2, OtherTypes, SameTypes
    DEF Reconcile, TInv, ControlTypes
<1>. QED
  BY <1>4, <1>5 DEF Reconcile

LEMMA BeginTypes ==
    ASSUME TypeOK, NEW kind \in Kinds, NEW p \in Projects \cup {"none"},
           NEW targets \in SUBSET Projects, NEW first \in Labels,
           Begin(kind, p, targets, first)
    PROVE  TypeOK'
<1>. ControlTypes'
  BY DefaultTypes, SameTypes DEF Begin, TypeOK, ControlTypes, OpRecord
<1>. QED
  BY ControlTypesSuffice DEF Begin

LEMMA LifecycleRequestTypes ==
    ASSUME TypeOK, NEW p \in Projects, NEW T \in SUBSET Projects,
           Trash(p) \/ RestoreTrashed(p) \/ Delete(p) \/ EmptyTrash(T)
    PROVE  TypeOK'
  BY BeginTypes DEF Trash, RestoreTrashed, Delete, EmptyTrash, Kinds, Labels

LEMMA MarkTypes == ASSUME TInv, Mark PROVE TypeOK'
<1>. op.project \in Projects
  BY DEF Mark, Step, TInv, OpNamed, Placing
<1>. ledger' = ledger /\ ControlTypes'
  BY SameTypes DEF Mark, Step, TInv, TypeOK, ControlTypes, Labels
<1>. DiskTypes'
  BY SameTypes DEF Mark, TInv, TypeOK, DiskTypes, headVars, pointerVars, objectVars
<1>. QED
  BY OtherTypes, MemoryTypesKept DEF Mark, TInv, TypeOK

LEMMA MoveTypes == ASSUME TInv, Move PROVE TypeOK'
<1>. op.project \in Projects
  BY DEF Move, Step, TInv, OpNamed, Placing
<1>. ledger' = ledger /\ ControlTypes'
  BY SameTypes DEF Move, Step, TInv, TypeOK, ControlTypes, Labels
<1>. DiskTypes'
  BY SameTypes DEF Move, TInv, TypeOK, DiskTypes, headVars, pointerVars,
     objectVars, Places
<1>. QED
  BY OtherTypes, MemoryTypesKept DEF Move, TInv, TypeOK

LEMMA SyncRemoveTypes == ASSUME TInv, SyncRemove PROVE TypeOK'
<1>. op.project \in Projects
  BY DEF SyncRemove, Step, TInv, OpNamed, Placing
<1>. ledger' = ledger /\ ControlTypes'
  BY SameTypes DEF SyncRemove, Step, TInv, TypeOK, ControlTypes, Labels
<1>. DiskTypes'
  BY SameTypes DEF SyncRemove, TInv, TypeOK, DiskTypes, headVars, pointerVars,
     objectVars
<1>. QED
  BY OtherTypes, MemoryTypesKept DEF SyncRemove, TInv, TypeOK

LEMMA SyncMoveTypes == ASSUME TInv, SyncMove PROVE TypeOK'
<1>. op.project \in Projects
  BY DEF SyncMove, TInv, OpNamed, Placing
<1>. ledger' = ledger /\ ControlTypes'
  BY StartRefreshTypes, SameTypes DEF SyncMove, TInv, TypeOK, ControlTypes, Labels
<1>. DiskTypes'
  BY SameTypes DEF SyncMove, TInv, TypeOK, DiskTypes, headVars, pointerVars,
     objectVars
<1>. QED
  BY OtherTypes, MemoryTypesKept DEF SyncMove, TInv, TypeOK

LEMMA UnmarkTypes == ASSUME TInv, Unmark PROVE TypeOK'
<1>. op.project \in Projects
  BY DEF Unmark, TInv, OpNamed, Placing
<1>. ledger' = ledger /\ ControlTypes'
  BY StartRefreshTypes, SameTypes DEF Unmark, TInv, TypeOK, ControlTypes, Labels
<1>. DiskTypes'
  BY SameTypes DEF Unmark, TInv, TypeOK, DiskTypes, headVars, pointerVars,
     objectVars
<1>. QED
  BY OtherTypes, MemoryTypesKept DEF Unmark, TInv, TypeOK

LEMMA RemoveFileTypes == ASSUME TInv, RemoveFile PROVE TypeOK'
<1>. op.project \in Projects
  BY DEF RemoveFile, Step, TInv, OpNamed, Placing
<1>. ledger' = ledger /\ ControlTypes'
  BY SameTypes DEF RemoveFile, Step, TInv, TypeOK, ControlTypes, Labels
<1>1. markers' \subseteq Projects /\ torn' \subseteq Projects
  BY DEF RemoveFile, TInv, TypeOK, DiskTypes
<1>2. head' \in [Projects -> RevOrNone] /\ headSynced' \in [Projects -> RevOrNone]
      /\ badHead' \subseteq Projects /\ published' = published
  BY DEF RemoveFile, TInv, TypeOK, DiskTypes, headVars, RevOrNone
<1>3. pointers' \in [Projects -> SUBSET Revs] /\ pointersSynced' \in [Projects -> SUBSET Revs]
  BY DEF RemoveFile, TInv, TypeOK, DiskTypes, pointerVars
<1>. DiskTypes'
  BY <1>1, <1>2, <1>3, SameTypes DEF RemoveFile, TInv, TypeOK, DiskTypes, objectVars
<1>. QED
  BY OtherTypes, MemoryTypesKept DEF RemoveFile, TInv, TypeOK

LEMMA RemoveDirectoryTypes == ASSUME TInv, RemoveDirectory PROVE TypeOK'
<1>. op.project \in Projects
  BY DEF RemoveDirectory, Step, TInv, OpNamed, Placing
<1>. ledger' = ledger /\ ControlTypes'
  BY SameTypes DEF RemoveDirectory, Step, TInv, TypeOK, ControlTypes, Labels
<1>. DiskTypes'
  BY SameTypes DEF RemoveDirectory, TInv, TypeOK, DiskTypes, objectVars, Places,
     RevOrNone
<1>. QED
  BY MemoryTypesKept, SameTypes
  DEF RemoveDirectory, TInv, TypeOK, countVars, RevOrNone

LEMMA NextRemovalTypes == ASSUME TypeOK, NextRemoval PROVE TypeOK'
<1>1. op' \in OpRecord
  BY DEF NextRemoval, TypeOK, ControlTypes, OpRecord
<1>2. pc' \in Labels /\ scan' \in ScanRecord'
  BY StartRefreshTypes, SameTypes DEF NextRemoval, TypeOK, ControlTypes, Labels
<1>. QED
  BY <1>1, <1>2, ControlTypesSuffice, SameTypes DEF NextRemoval, ControlTypes

-----------------------------------------------------------------------------
(* Every step leaves the operation with the names its next steps need. *)


LEMMA OpNamedFrame ==
    ASSUME TInv, ledger' = ledger, op' = op,
           pc' \in Publishing \cup Settling \cup {"verify", "reconcile", "upgrade"}
              => op.kind \in Revising,
           pc' \in Reading => scan'.then \in Fresh,
           pc' \in Reading /\ scan'.then \in {"verify", "reconcile"} => op.kind \in Revising,
           pc' \in Placing => op.project \in Projects,
           pc' # "upgrade"
    PROVE  OpNamed'
  BY SameTypes DEF TInv, OpNamed, Payload

LEMMA OpNamedIdle ==
    ASSUME TInv, ledger' = ledger, op' = NoOp, pc' \in {"idle", "down"}
    PROVE  OpNamed'
  BY SameTypes DEF OpNamed, NoOp, Publishing, Settling, Reading, Fresh, Revising,
     Placing

LEMMA ScanNothingNamed == ASSUME TInv, NEW p \in Projects, ScanNothing(p) PROVE OpNamed'
  BY OpNamedFrame DEF ScanNothing, Scanned, TInv, OpNamed, TypeOK, ControlTypes,
     ScanRecord, Publishing, Settling, Reading, Fresh, Revising, Placing

LEMMA ScanUnpublishedNamed == ASSUME TInv, NEW p \in Projects, ScanUnpublished(p) PROVE OpNamed'
  BY OpNamedFrame DEF ScanUnpublished, Scanned, TInv, OpNamed, TypeOK,
     ControlTypes, ScanRecord, Publishing, Settling, Reading, Fresh, Revising,
     Placing

LEMMA ScanSoundNamed == ASSUME TInv, NEW p \in Projects, ScanSound(p) PROVE OpNamed'
  BY OpNamedFrame DEF ScanSound, Scanned, TInv, OpNamed, TypeOK, ControlTypes,
     ScanRecord, Publishing, Settling, Reading, Fresh, Revising, Placing

LEMMA ScanDamagedTrashNamed == ASSUME TInv, NEW p \in Projects, ScanDamagedTrash(p) PROVE OpNamed'
  BY OpNamedFrame DEF ScanDamagedTrash, Scanned, TInv, OpNamed, TypeOK,
     ControlTypes, ScanRecord, Publishing, Settling, Reading, Fresh, Revising,
     Placing

LEMMA RecoverQuarantineNamed == ASSUME TInv, NEW p \in Projects, RecoverQuarantine(p) PROVE OpNamed'
  BY OpNamedFrame DEF RecoverQuarantine, TInv, OpNamed, TypeOK, ControlTypes,
     ScanRecord, Publishing, Settling, Reading, Fresh, Revising, Placing

LEMMA RecoverReportNamed == ASSUME TInv, NEW p \in Projects, RecoverReport(p) PROVE OpNamed'
  BY OpNamedFrame DEF RecoverReport, Scanned, TInv, OpNamed, TypeOK, ControlTypes,
     ScanRecord, Publishing, Settling, Reading, Fresh, Revising, Placing

LEMMA RecoverHeadNamed == ASSUME TInv, NEW p \in Projects, RecoverHead(p) PROVE OpNamed'
  BY OpNamedFrame DEF RecoverHead, Scanned, TInv, OpNamed, TypeOK, ControlTypes,
     ScanRecord, Publishing, Settling, Reading, Fresh, Revising, Placing

LEMMA FinishRefreshNamed == ASSUME TInv, FinishRefresh PROVE OpNamed'
  BY SameTypes DEF FinishRefresh, TInv, OpNamed, NoOp, NoScan, Payload, Publishing,
     Settling, Reading, Fresh, Revising, Placing

LEMMA FailRefreshNamed == ASSUME TInv, FailRefresh PROVE OpNamed'
<1>1. CASE Block
  BY <1>1, OpNamedIdle DEF Block, Shutdown
<1>2. CASE ~Block
  BY <1>2, OpNamedFrame, OpNamedIdle DEF FailRefresh, StartRefresh, NoScan, TInv,
     OpNamed, Publishing, Settling, Reading, Fresh, Revising, Placing
<1>. QED
  BY <1>1, <1>2

LEMMA CrashNamed == ASSUME TInv, Crash PROVE OpNamed'
  BY OpNamedIdle DEF Crash, Shutdown, Publishing, Settling, Reading, Fresh,
     Revising, Placing

LEMMA CloseNamed == ASSUME TInv, Close PROVE OpNamed'
  BY OpNamedIdle DEF Close, Shutdown, Publishing, Settling, Reading, Fresh,
     Revising, Placing

LEMMA BlockNamed == ASSUME TInv, Block PROVE OpNamed'
  BY OpNamedIdle DEF Block, Shutdown, Publishing, Settling, Reading, Fresh,
     Revising, Placing

LEMMA RotHeadNamed == ASSUME TInv, NEW p \in Projects, RotHead(p) PROVE OpNamed'
  BY SameTypes DEF RotHead, TInv, OpNamed, Payload, Publishing, Settling, Reading,
     Fresh, Revising, Placing

LEMMA RotObjectNamed == ASSUME TInv, NEW o \in objects, RotObject(o) PROVE OpNamed'
  BY SameTypes DEF RotObject, TInv, OpNamed, Payload, Publishing, Settling,
     Reading, Fresh, Revising, Placing

LEMMA OpenNamed == ASSUME TInv, Open PROVE OpNamed'
  BY SameTypes DEF Open, StartRefresh, NoScan, NoOp, OpNamed, Publishing, Settling,
     Reading, Fresh, Revising, Placing

LEMMA ScavengeNamed == ASSUME TInv, Scavenge PROVE OpNamed'
  BY SameTypes, LedgerTypes DEF Scavenge, OpNamed, Current, TInv, Publishing,
     Settling, Reading, Fresh, Revising, Placing

LEMMA MigrationsDoneNamed == ASSUME TInv, MigrationsDone PROVE OpNamed'
  BY SameTypes DEF MigrationsDone, NoOp, OpNamed, Publishing, Settling, Reading,
     Fresh, Revising, Placing

LEMMA FailMigrationNamed == ASSUME TInv, NEW r \in Revs, FailMigration(r) PROVE OpNamed'
  BY SameTypes DEF FailMigration, StartRefresh, NoScan, NoOp, OpNamed, TInv,
     Publishing, Settling, Reading, Fresh, Revising, Placing

LEMMA CollectNamed == ASSUME TInv, Collect PROVE OpNamed'
  BY OpNamedIdle DEF Collect, Publishing, Settling, Reading, Fresh, Revising,
     Placing

LEMMA FailCollectNamed == ASSUME TInv, FailCollect PROVE OpNamed'
  BY OpNamedIdle, OpNamedFrame DEF FailCollect, Block, StartRefresh, NoScan,
     Shutdown, Publishing, Settling, Reading, Fresh, Revising, Placing

LEMMA IssueNamed ==
    ASSUME TInv, NEW kind \in Revising, NEW p \in Projects, NEW parent \in RevOrNone,
           NEW v \in Payloads, Issue(kind, p, parent, v), kind = "upgrade" => Older # {}
    PROVE  OpNamed'
<1>1. Revs = 1..Len(ledger) /\ Len(ledger) \in Nat /\ Revs' = 1..(Len(ledger) + 1)
  BY DEF TInv, TypeOK, Revs, Issue
<1>2. \A r \in Revs : ledger'[r] = ledger[r]
  BY <1>1 DEF Issue, TInv, TypeOK
<1>3. op' = [op EXCEPT !.kind = kind, !.project = p, !.rev = Len(ledger) + 1,
                       !.upgrades = @ \ {parent}]
      /\ pc' = "stage"
  BY DEF Issue
<1>4. op'.kind = kind /\ op'.project = p /\ op'.rev = Len(ledger) + 1
      /\ op'.upgrades \subseteq op.upgrades
  BY <1>3 DEF TInv, TypeOK, ControlTypes, OpRecord
<1>5. op.upgrades \subseteq Revs \cup {NoRev}
  BY DEF TInv, TypeOK, ControlTypes, OpRecord, RevOrNone
<1>6. \A r \in op'.upgrades \cap Revs' : ledger'[r].payload \in Older
  BY <1>1, <1>2, <1>4, <1>5 DEF TInv, OpNamed
<1>. QED
  BY <1>1, <1>3, <1>4, <1>6
  DEF OpNamed, Publishing, Settling, Reading, Fresh, Placing

LEMMA MigrateNextNamed == ASSUME TInv, NEW r \in Revs, MigrateNext(r) PROVE OpNamed'
<1>. ledger[r].payload \in Older
  BY DEF TInv, OpNamed, MigrateNext
<1>. QED
  BY LedgerTypes, LibraryAssumption, IssueNamed
  DEF MigrateNext, Revising, RevOrNone, TInv

LEMMA UpgradeRestoredNamed == ASSUME TInv, UpgradeRestored PROVE OpNamed'
<1>. Payload \in Older /\ op.project \in Projects /\ op.rev \in Revs
  BY DEF TInv, OpNamed, UpgradeRestored
<1>. QED
  BY LibraryAssumption, IssueNamed DEF UpgradeRestored, Payload, Revising, RevOrNone

LEMMA StageNamed == ASSUME TInv, Stage PROVE OpNamed'
  BY OpNamedFrame, OpReady
  DEF Stage, Step, Publishing, Settling, Reading, Fresh, Revising, Placing

LEMMA InstallPayloadNamed == ASSUME TInv, InstallPayload PROVE OpNamed'
  BY OpNamedFrame, OpReady DEF InstallPayload, Step, InstallObject, Publishing,
     Settling, Reading, Fresh, Revising, Placing

LEMMA SyncPayloadNamed == ASSUME TInv, SyncPayload PROVE OpNamed'
  BY OpNamedFrame, OpReady DEF SyncPayload, Step, SyncObjects, Publishing,
     Settling, Reading, Fresh, Revising, Placing

LEMMA InstallRevisionNamed == ASSUME TInv, InstallRevision PROVE OpNamed'
  BY OpNamedFrame, OpReady DEF InstallRevision, Step, InstallObject, Publishing,
     Settling, Reading, Fresh, Revising, Placing

LEMMA SyncRevisionNamed == ASSUME TInv, SyncRevision PROVE OpNamed'
  BY OpNamedFrame, OpReady DEF SyncRevision, Step, SyncObjects, Publishing,
     Settling, Reading, Fresh, Revising, Placing

LEMMA MakeDirectoryNamed == ASSUME TInv, MakeDirectory PROVE OpNamed'
  BY OpNamedFrame, OpReady
  DEF MakeDirectory, Step, Publishing, Settling, Reading, Fresh, Revising, Placing

LEMMA RenamePointerNamed == ASSUME TInv, RenamePointer PROVE OpNamed'
  BY OpNamedFrame, OpReady
  DEF RenamePointer, Step, Publishing, Settling, Reading, Fresh, Revising, Placing

LEMMA SyncPointerNamed == ASSUME TInv, SyncPointer PROVE OpNamed'
  BY OpNamedFrame, OpReady
  DEF SyncPointer, Step, Publishing, Settling, Reading, Fresh, Revising, Placing

LEMMA RenameHeadNamed == ASSUME TInv, RenameHead PROVE OpNamed'
  BY OpNamedFrame, OpReady
  DEF RenameHead, Step, Publishing, Settling, Reading, Fresh, Revising, Placing

LEMMA SyncHeadNamed == ASSUME TInv, SyncHead PROVE OpNamed'
  BY OpNamedFrame, OpReady DEF SyncHead, Step, HeadDurable, Publishing, Settling,
     Reading, Fresh, Revising, Placing

LEMMA FailSyncHeadNamed == ASSUME TInv, FailSyncHead PROVE OpNamed'
  BY OpNamedFrame, OpReady
  DEF FailSyncHead, Step, Publishing, Settling, Reading, Fresh, Revising, Placing

LEMMA RetryHeadNamed == ASSUME TInv, RetryHead PROVE OpNamed'
  BY OpNamedFrame, OpReady DEF RetryHead, Step, HeadDurable, Publishing, Settling,
     Reading, Fresh, Revising, Placing

LEMMA CleanNamed == ASSUME TInv, Clean PROVE OpNamed'
  BY OpNamedFrame, OpReady DEF Clean, StartRefresh, NoScan, Publishing, Settling,
     Reading, Fresh, Revising, Placing

LEMMA FailPublicationNamed == ASSUME TInv, FailPublication PROVE OpNamed'
  BY OpNamedFrame, OpReady DEF FailPublication, StartRefresh, NoScan, Publishing,
     Settling, Reading, Fresh, Revising, Placing

LEMMA FailUpgradeNamed == ASSUME TInv, FailUpgrade PROVE OpNamed'
  BY OpReady, SameTypes DEF FailUpgrade, StartRefresh, NoScan, TInv, OpNamed,
     TypeOK, ControlTypes, OpRecord, Publishing, Settling, Reading, Fresh,
     Revising, Placing

LEMMA FailRetryHeadNamed == ASSUME TInv, FailRetryHead PROVE OpNamed'
  BY BlockNamed DEF FailRetryHead

LEMMA FailReconcileNamed == ASSUME TInv, FailReconcile PROVE OpNamed'
  BY BlockNamed DEF FailReconcile

LEMMA BlockMutationsNamed == ASSUME TInv, BlockMutations PROVE OpNamed'
  BY BlockNamed DEF BlockMutations

LEMMA AcknowledgeNamed ==
    ASSUME TInv, ledger' = ledger, NEW r \in Revs, pc \in {"verify", "reconcile"}, Acknowledge(r)
    PROVE  OpNamed'
<1>. op \in OpRecord /\ op.project \in Projects /\ op.rev \in Revs /\ op.kind \in Revising
  BY OpReady DEF TInv, TypeOK, ControlTypes
<1>1. CASE op.kind = "restore" /\ ~Current(r)
  <2>. pc' = "upgrade" /\ op' = [op EXCEPT !.rev = r]
    BY <1>1 DEF Acknowledge
  <2>. ledger[r].payload \in Older
    BY <1>1, LedgerTypes DEF Current, TInv
  <2>. QED
    BY SameTypes DEF OpRecord, TInv, OpNamed, Payload, Publishing, Settling,
       Reading, Fresh, Revising, Placing
<1>2. CASE op.kind = "migrate"
  BY <1>2, SameTypes DEF Acknowledge, OpRecord, TInv, OpNamed, Publishing,
     Settling, Reading, Fresh, Revising, Placing
<1>3. CASE ~(op.kind = "migrate") /\ ~(op.kind = "restore" /\ ~Current(r))
  BY <1>3, OpNamedIdle DEF Acknowledge
<1>. QED
  BY <1>1, <1>2, <1>3

LEMMA VerifyNamed == ASSUME TInv, Verify PROVE OpNamed'
<1>. op.rev \in Revs /\ op.kind \in Revising
  BY OpReady DEF Verify
<1>1. CASE Acknowledge(op.rev)
  BY <1>1, AcknowledgeNamed DEF Verify
<1>2. CASE StartRefresh("reconcile") /\ UNCHANGED <<op, acked>>
  BY <1>2, OpNamedFrame
  DEF Verify, StartRefresh, NoScan, Publishing, Settling, Reading, Fresh, Placing
<1>. QED
  BY <1>1, <1>2 DEF Verify

LEMMA ReconcileNamed == ASSUME TInv, Reconcile PROVE OpNamed'
<1>. op.project \in Projects /\ op.kind \in Revising /\ op \in OpRecord
  BY OpReady DEF Reconcile, TInv, TypeOK, ControlTypes
<1>1. CASE Matches(entries[op.project].rev) /\ Acknowledge(entries[op.project].rev)
  <2>. entries[op.project].rev \in Revs
    BY <1>1 DEF Matches, TInv, TypeOK, MemoryTypes, Entry, RevOrNone
  <2>. QED
    BY <1>1, AcknowledgeNamed DEF Reconcile
<1>2. CASE StartRefresh("migrate") /\ op' = [op EXCEPT !.kind = "open"]
  BY <1>2, SameTypes DEF Reconcile, StartRefresh, NoScan, OpRecord, TInv, OpNamed,
     Publishing, Settling, Reading, Fresh, Revising, Placing
<1>3. CASE StartRefresh("idle") /\ op' = op
  BY <1>3, OpNamedFrame
  DEF Reconcile, StartRefresh, NoScan, Publishing, Settling, Reading, Fresh, Placing
<1>4. CASE pc' = "idle" /\ op' = NoOp
  BY <1>4, OpNamedIdle DEF Reconcile
<1>. QED
  BY <1>1, <1>2, <1>3, <1>4 DEF Reconcile

LEMMA LifecycleRequestNamed ==
    ASSUME TInv, NEW p \in Projects, NEW T \in SUBSET Projects,
           Trash(p) \/ RestoreTrashed(p) \/ Delete(p) \/ EmptyTrash(T)
    PROVE  OpNamed'
<1>1. PICK kind \in Kinds \ Revising, q \in Projects \cup {"none"},
             targets \in SUBSET Projects, first \in {"mark", "move", "next"} :
        Begin(kind, q, targets, first) /\ (first # "next" => q \in Projects)
  BY DEF Trash, RestoreTrashed, Delete, EmptyTrash, Kinds, Revising
<1>. QED
  BY <1>1, SameTypes DEF Begin, NoOp, OpNamed,
     Publishing, Settling, Reading, Fresh, Revising, Placing

LEMMA MarkNamed == ASSUME TInv, Mark PROVE OpNamed'
  BY OpNamedFrame DEF Mark, Step, TInv, OpNamed, Publishing, Settling, Reading,
     Fresh, Revising, Placing

LEMMA MoveNamed == ASSUME TInv, Move PROVE OpNamed'
  BY OpNamedFrame DEF Move, Step, TInv, OpNamed, Publishing, Settling, Reading,
     Fresh, Revising, Placing

LEMMA RemoveFileNamed == ASSUME TInv, RemoveFile PROVE OpNamed'
  BY OpNamedFrame DEF RemoveFile, Step, TInv, OpNamed, Publishing, Settling,
     Reading, Fresh, Revising, Placing

LEMMA SyncRemoveNamed == ASSUME TInv, SyncRemove PROVE OpNamed'
  BY OpNamedFrame DEF SyncRemove, Step, TInv, OpNamed, Publishing, Settling,
     Reading, Fresh, Revising, Placing

LEMMA RemoveDirectoryNamed == ASSUME TInv, RemoveDirectory PROVE OpNamed'
  BY OpNamedFrame DEF RemoveDirectory, Step, TInv, OpNamed, Publishing, Settling,
     Reading, Fresh, Revising, Placing

LEMMA SyncMoveNamed == ASSUME TInv, SyncMove PROVE OpNamed'
  BY OpNamedFrame DEF SyncMove, StartRefresh, NoScan, TInv, OpNamed, Publishing,
     Settling, Reading, Fresh, Revising, Placing

LEMMA UnmarkNamed == ASSUME TInv, Unmark PROVE OpNamed'
  BY OpNamedFrame DEF Unmark, StartRefresh, NoScan, TInv, OpNamed, Publishing,
     Settling, Reading, Fresh, Revising, Placing

LEMMA FailLifecycleNamed == ASSUME TInv, FailLifecycle PROVE OpNamed'
  BY OpNamedFrame DEF FailLifecycle, StartRefresh, NoScan, TInv, OpNamed,
     Publishing, Settling, Reading, Fresh, Revising, Placing

LEMMA FailLifecycleSyncNamed == ASSUME TInv, FailLifecycleSync PROVE OpNamed'
  BY OpNamedFrame DEF FailLifecycleSync, StartRefresh, NoScan, TInv, OpNamed,
     Publishing, Settling, Reading, Fresh, Revising, Placing

LEMMA NextRemovalNamed == ASSUME TInv, NextRemoval PROVE OpNamed'
  BY SameTypes, OpNamedFrame DEF NextRemoval, StartRefresh, NoScan, TInv, OpNamed,
     TypeOK, ControlTypes, OpRecord, Publishing, Settling, Reading, Fresh,
     Revising, Placing

-----------------------------------------------------------------------------
LEMMA TypesStep == TInv /\ [Next]_vars => TInv'
<1>. SUFFICES ASSUME TInv, [Next]_vars PROVE TInv'
  OBVIOUS
<1>. TypeOK
  BY DEF TInv
<1>1. ASSUME Refreshing PROVE TInv'
  <2>1. CASE FinishRefresh
    BY <2>1, FinishRefreshTypes, FinishRefreshNamed DEF TInv
  <2>2. CASE ~FinishRefresh
    <3>1. PICK p \in Projects : ScanNothing(p) \/ ScanUnpublished(p) \/ ScanSound(p)
                           \/ ScanDamagedTrash(p) \/ RecoverQuarantine(p)
                           \/ RecoverReport(p) \/ RecoverHead(p)
      BY <1>1, <2>2 DEF Refreshing
    <3>. QED
      BY <3>1, ScanNothingTypes, ScanNothingNamed, ScanUnpublishedTypes,
     ScanUnpublishedNamed, ScanSoundTypes, ScanSoundNamed, ScanDamagedTrashTypes,
     ScanDamagedTrashNamed, RecoverQuarantineTypes, RecoverQuarantineNamed,
     RecoverReportTypes, RecoverReportNamed, RecoverHeadTypes, RecoverHeadNamed
      DEF TInv
  <2>. QED
    BY <2>1, <2>2
<1>2. ASSUME Committing PROVE TInv'
  BY <1>2, StageTypes, StageNamed, InstallPayloadTypes, InstallPayloadNamed,
     SyncPayloadTypes, SyncPayloadNamed, InstallRevisionTypes,
     InstallRevisionNamed, SyncRevisionTypes, SyncRevisionNamed,
     MakeDirectoryTypes, MakeDirectoryNamed, RenamePointerTypes,
     RenamePointerNamed, SyncPointerTypes, SyncPointerNamed, RenameHeadTypes,
     RenameHeadNamed, SyncHeadTypes, SyncHeadNamed, FailSyncHeadTypes,
     FailSyncHeadNamed, RetryHeadTypes, RetryHeadNamed, FailRetryHeadTypes,
     FailRetryHeadNamed, CleanTypes, CleanNamed, VerifyTypes, VerifyNamed,
     ReconcileTypes, ReconcileNamed, UpgradeRestoredTypes, UpgradeRestoredNamed,
     FailUpgradeTypes, FailUpgradeNamed
  DEF Committing, TInv
<1>3. ASSUME Opening PROVE TInv'
  BY <1>3, ScavengeTypes, ScavengeNamed, MigrationsDoneTypes, MigrationsDoneNamed,
     CollectTypes, CollectNamed, MigrateNextTypes, MigrateNextNamed,
     FailMigrationTypes, FailMigrationNamed
  DEF Opening, TInv
<1>4. ASSUME Trashing PROVE TInv'
  BY <1>4, MarkTypes, MarkNamed, MoveTypes, MoveNamed, SyncMoveTypes, SyncMoveNamed,
     UnmarkTypes, UnmarkNamed, NextRemovalTypes, NextRemovalNamed,
     RemoveFileTypes, RemoveFileNamed, RemoveDirectoryTypes, RemoveDirectoryNamed,
     SyncRemoveTypes, SyncRemoveNamed, BlockMutationsTypes, BlockMutationsNamed
  DEF Trashing, TInv
<1>5. ASSUME Requests PROVE TInv'
  <2>1. CASE \E p \in Projects : Trash(p) \/ RestoreTrashed(p) \/ Delete(p)
             \/ \E T \in SUBSET Projects : EmptyTrash(T)
    BY <2>1, LifecycleRequestTypes, LifecycleRequestNamed DEF TInv
  <2>2. CASE \E T \in SUBSET Projects : EmptyTrash(T)
    <3>1. PICK T \in SUBSET Projects : EmptyTrash(T)
      BY <2>2
    <3>. OpNamed'
      BY <3>1, SameTypes DEF EmptyTrash, Begin, NoOp, OpNamed, Publishing, Settling,
         Reading, Fresh, Revising, Placing
    <3>. QED
      BY <3>1, BeginTypes DEF EmptyTrash, Kinds, Labels, TInv
  <2>3. CASE \E p \in Projects, v \in Payloads :
                Create(p, v) \/ RestoreRevision(p, v) \/ Change(p, v)
    <3>1. PICK p \in Projects, v \in Payloads :
             Create(p, v) \/ RestoreRevision(p, v) \/ Change(p, v)
      BY <2>3
    <3>2. entries[p].rev \in RevOrNone /\ NoRev \in RevOrNone
      BY DEF TypeOK, MemoryTypes, Entry, RevOrNone
    <3>. QED
      BY <3>1, <3>2, IssueTypes, IssueNamed
      DEF Create, RestoreRevision, Change, Kinds, Revising, TInv
  <2>4. CASE \E p \in Projects, r \in Revs : Rollback(p, r)
    <3>1. PICK p \in Projects, r \in Revs : Rollback(p, r)
      BY <2>4
    <3>2. entries[p].rev \in RevOrNone /\ Upgraded(ledger[r].payload) \in Payloads
      BY LedgerTypes, LibraryAssumption DEF TypeOK, MemoryTypes, Entry, Upgraded
    <3>. QED
      BY <3>1, <3>2, IssueTypes, IssueNamed DEF Rollback, Kinds, Revising, TInv
  <2>. QED
    BY <1>5, <2>1, <2>2, <2>3, <2>4 DEF Requests
<1>6. ASSUME Errors PROVE TInv'
  BY <1>6, FailRefreshTypes, FailRefreshNamed, FailPublicationTypes,
     FailPublicationNamed, FailReconcileTypes, FailReconcileNamed,
     FailCollectTypes, FailCollectNamed, FailLifecycleTypes, FailLifecycleNamed,
     FailLifecycleSyncTypes, FailLifecycleSyncNamed
  DEF Errors, TInv
<1>7. ASSUME Faults PROVE TInv'
  BY <1>7, CrashTypes, CrashNamed, CloseTypes, CloseNamed, RotHeadTypes,
     RotHeadNamed,
     RotObjectTypes, RotObjectNamed
  DEF Faults, TInv
<1>8. CASE UNCHANGED vars
  <2>. TypeOK'
    BY <1>8, OtherTypes, DiskTypesKept, MemoryTypesKept, SameTypes
    DEF vars, TypeOK, ControlTypes
  <2>. QED
    BY <1>8, SameTypes DEF vars, TInv, OpNamed, Payload
<1>. QED
  BY <1>1, <1>2, <1>3, <1>4, <1>5, <1>6, <1>7, <1>8, OpenTypes, OpenNamed
  DEF Next, Progress, TInv

\* Type correctness: every variable of project-library.ts's state keeps to its
\* kind, and nothing on disk or in memory names a revision never issued.
THEOREM TypeCorrect == Spec => []TypeOK
<1>1. Init => TInv
  <2>. ASSUME Init PROVE OpNamed
    BY DEF Init, NoOp, OpNamed, Publishing, Settling, Reading, Revising, Placing
  <2>. QED
    BY InitTypes DEF TInv
<1>2. TInv => TypeOK
  BY DEF TInv
<1>. QED
  BY <1>1, <1>2, TypesStep, PTL DEF Spec
=============================================================================
