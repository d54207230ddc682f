---------------------- MODULE ProjectLibrary_proofs -------------------------
(***************************************************************************)
(* No step of the Project Library takes a file from under a Head: IInv is  *)
(* an inductive invariant of the specification and implies HeadIntact, for *)
(* every value of the constants in which no payload has an older schema.   *)
(***************************************************************************)
EXTENDS ProjectLibraryTypes_proofs

USE DEF NoRev

-----------------------------------------------------------------------------
(* Lines of descent, files and the verified ledger *)

LEMMA LineFacts ==
    ASSUME TypeOK, LedgerOK, NEW r \in Revs
    PROVE  /\ Line(r) = ledger[r].line /\ Line(r) \subseteq Revs /\ r \in Line(r)
           /\ \A q \in Line(r) : /\ q \in Revs /\ Line(q) \subseteq Line(r)
                                 /\ ledger[q].seq <= ledger[r].seq
<1>1. Revs = 1..Len(ledger) /\ Len(ledger) \in Nat
  BY LedgerTypes
<1>2. r \in 1..Len(ledger) /\ r # 0 /\ ledger[r].line \subseteq 1..r
  BY <1>1 DEF LedgerOK
<1>3. Line(r) = ledger[r].line /\ Line(r) \subseteq Revs
  <2>. Line(r) = ledger[r].line
    BY <1>2 DEF Line
  <2>. 1..r \subseteq 1..Len(ledger)
    BY <1>1, <1>2
  <2>. QED
    BY <1>1, <1>2
<1>4. r \in Line(r)
  BY <1>3 DEF LedgerOK
<1>5. ASSUME NEW q \in Line(r) PROVE Line(q) \subseteq Line(r) /\ ledger[q].seq <= ledger[r].seq
  <2>. q \in Revs /\ q # 0
    BY <1>1, <1>2, <1>3
  <2>. QED
    BY <1>3, <1>5 DEF Line, LedgerOK
<1>. QED
  BY <1>3, <1>4, <1>5

LEMMA LineOfNone == Line(NoRev) = {}
  BY DEF Line

LEMMA FilesOfPart == ASSUME NEW R, NEW S \in SUBSET R PROVE Files(S) \subseteq Files(R)
  BY DEF Files

LEMMA VerifiedFacts ==
    ASSUME TypeOK, LedgerOK, NEW p \in Projects, NEW r \in Verified(p)
    PROVE  /\ r \in Revs /\ Line(r) \subseteq Verified(p)
           /\ Line(r) \subseteq pointers[p] /\ Files(Line(r)) \subseteq objects
<1>1. r \in Revs /\ r \in Readable(p)
  BY VerifiedTypes DEF Verified
<1>2. \A q \in Line(r) : q \in Readable(p) /\ q \in Revs /\ Line(q) \subseteq Line(r)
  BY <1>1, LineFacts DEF Verified
<1>3. Line(r) \subseteq Verified(p)
  BY <1>2 DEF Verified
<1>4. \A q \in Line(r) : q \in objects /\ ledger[q].payload \in objects
  BY <1>2 DEF Readable, Files
<1>. QED
  BY <1>1, <1>2, <1>3, <1>4 DEF Readable, Files

\* A set of revisions holding r's whole line keeps it when it is cut above r.
LEMMA UpToKeeps ==
    ASSUME TypeOK, LedgerOK, NEW R, NEW r \in Revs, NEW n \in Nat,
           ledger[r].seq <= n, Line(r) \subseteq R
    PROVE  Line(r) \subseteq UpTo(R, n)
<1>. \A q \in Line(r) : ledger[q].seq \in Nat /\ ledger[r].seq \in Nat /\ ledger[q].seq <= ledger[r].seq
  BY LineFacts, LedgerTypes
<1>. QED
  BY DEF UpTo

-----------------------------------------------------------------------------
(* What a step keeps of the invariant when it leaves things alone *)

LEMMA DiskInvKept ==
    ASSUME DiskInv, UNCHANGED <<ledger, diskVars>>
    PROVE  DiskInv'
  BY SameTypes DEF DiskInv, LedgerOK, DiskKnown, Empty, HeadDurablyIntact,
     RecordsWhole, Durable,
     Line, Files, diskVars, placeVars, headVars, pointerVars, objectVars

\* A faithful entry stays faithful while its Head and its files stay.
LEMMA FaithfulKept ==
    ASSUME ledger' = ledger, NEW p \in Projects, NEW e, Faithful(p, e),
           head'[p] = head[p], pointersSynced[p] \subseteq pointersSynced'[p],
           objectsSynced \subseteq objectsSynced'
    PROVE  Faithful(p, e)'
  BY DEF Faithful, Durable, Line, Files

\* A step that leaves what a scan reads, and the scan itself, leaves the scan's promise.
LEMMA ScanKept ==
    ASSUME ScanFaithful,
           UNCHANGED <<ledger, place, head, headSynced, pointersSynced, objectsSynced, torn, pc, scan>>
    PROVE  ScanFaithful'
<1>1. ASSUME pc \in Reading, NEW p \in Projects \ (torn \cup scan.todo)
      PROVE  Faithful(p, scan.fresh[p])'
  <2>1. Faithful(p, scan.fresh[p])
    BY <1>1 DEF ScanFaithful
  <2>. QED
    BY <2>1 DEF Faithful, Durable, Line, Files
<1>2. ASSUME pc = "recover_head"
      PROVE  LET e == scan.fresh[scan.project] IN
                /\ e.status = "active"
                /\ Line(e.rev)' \subseteq e.history
                /\ Durable(scan.project, Line(e.rev))'
  <2>. DEFINE p == scan.project  r == scan.fresh[p].rev
  <2>1. /\ scan.fresh[p].status = "active"
        /\ Line(r) \subseteq scan.fresh[p].history
        /\ Durable(p, Line(r))
    BY <1>2 DEF ScanFaithful
  <2>2. Line(r)' = Line(r)
    BY DEF Line
  <2>3. p' = p /\ r' = r
    OBVIOUS
  <2>4. Durable(p, Line(r))'
    <3>. HIDE DEF p, r
    <3>. QED
      BY <2>1, <2>2, <2>3 DEF Durable, Files
  <2>. QED
    BY <2>1, <2>2, <2>3, <2>4
<1>3. pc \in {"recover_report", "recover_head"} =>
        /\ scan.project \in scan.todo
        /\ place[scan.project] # "none"
        /\ head[scan.project] = NoRev /\ headSynced[scan.project] = NoRev
  BY DEF ScanFaithful
<1>. QED
  BY <1>1, <1>2, <1>3 DEF ScanFaithful

\* A step that starts a refresh has nothing to show for it yet.
LEMMA StartRefreshKeeps ==
    ASSUME TInv, IInv, ledger' = ledger, NEW then, StartRefresh(then), UNCHANGED <<head, headSynced>>,
           pc \notin Settling, ~blocked, blocked' = blocked
    PROVE  StepInv'
  BY DEF StepInv, HeadInDoubt, EntriesFaithful, ScanFaithful, Publication, Removal,
     IInv,
     StartRefresh, NoScan, Fresh, Reading, BeforeHead, BeforePointer, Settling

-----------------------------------------------------------------------------
(* Refreshing *)

\* While a refresh is under way no Head is in doubt, and when it goes on to
\* the next Project nothing but the scan depends on where it is.
LEMMA RefreshCalm ==
    ASSUME IInv, pc \in Reading
    PROVE  ~blocked /\ \A p \in Projects : head[p] = headSynced[p]
  BY DEF IInv, StepInv, HeadInDoubt, Reading, Settling

LEMMA ScanStep ==
    ASSUME IInv, pc \in Reading, pc' = "refresh", blocked' = blocked,
           \A q \in Projects : head'[q] = headSynced'[q],
           \A q \in Projects \ (torn' \cup scan'.todo) : Faithful(q, scan.fresh[q])'
    PROVE  StepInv'
  BY RefreshCalm DEF StepInv, HeadInDoubt, EntriesFaithful, ScanFaithful,
     Publication, Removal,
     Reading, Fresh, BeforeHead, BeforePointer, Settling

\* Scanning p leaves the entries already read for the others faithful.
LEMMA ScannedOthers ==
    ASSUME IInv, pc \in Reading, ledger' = ledger, NEW p \in Projects, NEW e, Scanned(p, e),
           \A q \in Projects \ {p} : head'[q] = head[q] /\ pointersSynced'[q] = pointersSynced[q],
           objectsSynced' = objectsSynced, torn' \cup {p} = torn \cup {p},
           p \notin torn' => Faithful(p, e)'
    PROVE  \A q \in Projects \ (torn' \cup scan'.todo) : Faithful(q, scan.fresh[q])'
<1>. SUFFICES ASSUME NEW q \in Projects \ (torn' \cup scan'.todo)
              PROVE  Faithful(q, scan.fresh[q])'
  OBVIOUS
<1>. scan'.todo = scan.todo \ {p} /\ scan'.fresh = [scan.fresh EXCEPT ![p] = e]
     /\ scan.fresh \in [Projects -> Entry]
  BY DEF Scanned, IInv, TInv, TypeOK, ControlTypes, ScanRecord
<1>1. CASE q = p
  <2>. scan'.fresh[q] = e
    BY <1>1
  <2>. QED
    BY <1>1 DEF Faithful, Durable
<1>2. CASE q # p
  <2>1. scan'.fresh[q] = scan.fresh[q] /\ q \in Projects \ (torn \cup scan.todo)
    BY <1>2
  <2>2. Faithful(q, scan.fresh[q])
    BY <2>1 DEF IInv, StepInv, ScanFaithful
  <2>. QED
    BY <1>2, <2>1, <2>2, FaithfulKept DEF Faithful, Durable, Line, Files
<1>. QED
  BY <1>1, <1>2

LEMMA ScanNothingKeeps == ASSUME IInv, NEW p \in Projects, ScanNothing(p) PROVE DiskInv' /\ StepInv'
<1>1. DiskInv'
  BY DiskInvKept DEF ScanNothing, IInv
<1>2. Faithful(p, NoEntry)'
  <2>. head'[p] = NoRev
    BY DEF ScanNothing, IInv, DiskInv, Empty, diskVars, headVars
  <2>. QED
    BY DEF Faithful, NoEntry
<1>3. StepInv'
  BY <1>2, ScannedOthers, ScanStep, RefreshCalm
  DEF ScanNothing, Reading, memVars, diskVars, headVars, pointerVars, objectVars,
      placeVars
<1>. QED
  BY <1>1, <1>3

LEMMA ScanUnpublishedKeeps == ASSUME IInv, NEW p \in Projects, ScanUnpublished(p) PROVE DiskInv' /\ StepInv'
<1>. head[p] = NoRev /\ headSynced'[p] = NoRev /\ ledger' = ledger /\ head' = head
  BY DEF ScanUnpublished, Unpublished, IInv, TInv, TypeOK, DiskTypes
<1>1. DiskInv'
  BY LineOfNone DEF ScanUnpublished, IInv, TInv, TypeOK, DiskTypes, DiskInv,
     LedgerOK, DiskKnown, Empty,
     HeadDurablyIntact, RecordsWhole, Durable, Line, Files, Revs, objectVars
<1>2. Faithful(p, NoEntry)'
  BY DEF Faithful, NoEntry
<1>3. StepInv'
  BY <1>2, ScannedOthers, ScanStep, RefreshCalm
  DEF ScanUnpublished, Reading, memVars, objectVars, IInv, TInv, TypeOK, DiskTypes
<1>. QED
  BY <1>1, <1>3

LEMMA ScanSoundKeeps == ASSUME IInv, NEW p \in Projects, ScanSound(p) PROVE DiskInv' /\ StepInv'
<1>. DEFINE n == ledger[head[p]].seq
            kept == UpTo(pointers[p], n)
            seen == UpTo(Verified(p), n)
<1>. PICK e : e = [status |-> place[p], location |-> place[p], rev |-> head[p],
                   history |-> seen, dated |-> place[p] = "trashed"]
  OBVIOUS
<1>1. head[p] \in Verified(p) /\ head[p] \in Revs /\ n \in Nat /\ n <= n
  BY VerifiedTypes, LedgerTypes DEF ScanSound, Sound, HeadResolves, IInv, TInv
<1>2. Line(head[p]) \subseteq kept /\ Line(head[p]) \subseteq seen
  BY <1>1, VerifiedFacts, UpToKeeps DEF IInv, TInv, DiskInv
<1>3. kept \subseteq pointers[p]
  BY UpToPart
<1>4. head[p] = headSynced[p] /\ ~blocked
  BY RefreshCalm DEF ScanSound, Reading
<1>5. /\ ledger' = ledger /\ head' = head /\ headSynced' = headSynced
      /\ place' = place /\ placeSynced' = placeSynced /\ torn' = torn
      /\ objects' = objects /\ objectsSynced' = objectsSynced
      /\ pc' = pc /\ pc = "refresh" /\ blocked' = blocked /\ place[p] # "none"
      /\ pointers' = [pointers EXCEPT ![p] = kept]
      /\ Scanned(p, e)
  BY DEF ScanSound, placeVars, headVars, objectVars, memVars
<1>6. /\ pointers \in [Projects -> SUBSET Revs] /\ pointersSynced \in [Projects -> SUBSET Revs]
      /\ \A q \in Projects : pointersSynced[q] \subseteq pointers[q]
  BY DEF IInv, DiskInv, DiskKnown, TInv, TypeOK, DiskTypes
<1>7. /\ pointers'[p] = kept /\ pointersSynced'[p] \subseteq kept
      /\ \A q \in Projects \ {p} : pointers'[q] = pointers[q] /\ pointersSynced'[q] = pointersSynced[q]
  BY <1>5, <1>6 DEF ScanSound
<1>8. p \notin torn => Durable(p, Line(head[p]))'
  <2>. SUFFICES ASSUME p \notin torn PROVE Durable(p, Line(head[p]))'
    OBVIOUS
  <2>1. Durable(p, Line(head[p]))
    BY DEF IInv, DiskInv, HeadDurablyIntact
  <2>2. Line(head[p]) \subseteq pointersSynced'[p]
    BY <1>2, <1>6, <2>1 DEF ScanSound, Durable
  <2>. QED
    BY <1>5, <2>1, <2>2 DEF Durable, Line, Files
<1>9. DiskInv'
  <2>1. LedgerOK' /\ Empty' /\ DiskKnown'
    BY <1>3, <1>5, <1>6, <1>7
    DEF IInv, DiskInv, LedgerOK, Empty, DiskKnown, Revs, Line
  <2>2. HeadDurablyIntact'
    BY <1>4, <1>5, <1>7, <1>8
    DEF IInv, DiskInv, HeadDurablyIntact, Durable, Line, Files
  <2>3. RecordsWhole'
    BY <1>3, <1>5, <1>7 DEF IInv, DiskInv, RecordsWhole, Files
  <2>. QED
    BY <2>1, <2>2, <2>3 DEF DiskInv
<1>10. p \notin torn' => Faithful(p, e)'
  BY <1>2, <1>5, <1>8 DEF Faithful, Durable, Line, Files
<1>11. StepInv'
  BY <1>4, <1>5, <1>7, <1>10, ScannedOthers, ScanStep, RefreshCalm DEF Reading
<1>. QED
  BY <1>9, <1>11

LEMMA ScanDamagedTrashKeeps == ASSUME IInv, NEW p \in Projects, ScanDamagedTrash(p) PROVE DiskInv' /\ StepInv'
<1>. PICK e : e = [status |-> "damaged", location |-> "trashed",
                   rev |-> Newest(Verified(p)), history |-> Verified(p),
                   dated |-> p \in markers]
  OBVIOUS
<1>1. DiskInv'
  BY DiskInvKept DEF ScanDamagedTrash, IInv
<1>2. Faithful(p, e)'
  BY DEF Faithful
<1>3. StepInv'
  BY <1>2, ScannedOthers, ScanStep, RefreshCalm
  DEF ScanDamagedTrash, Reading, memVars, diskVars, headVars, pointerVars,
      objectVars, placeVars
<1>. QED
  BY <1>1, <1>3

LEMMA RecoverQuarantineKeeps == ASSUME IInv, NEW p \in Projects, RecoverQuarantine(p) PROVE DiskInv' /\ StepInv'
<1>1. /\ ledger' = ledger /\ place' = place /\ placeSynced' = placeSynced /\ torn' = torn
      /\ pointers' = pointers /\ pointersSynced' = pointersSynced
      /\ objects' = objects /\ objectsSynced' = objectsSynced
      /\ head' = [head EXCEPT ![p] = NoRev] /\ headSynced' = [headSynced EXCEPT ![p] = NoRev]
      /\ pc = "refresh" /\ pc' = "recover_report" /\ blocked' = blocked
      /\ scan'.todo = scan.todo /\ scan'.fresh = scan.fresh /\ scan'.project = p
      /\ p \in scan.todo /\ place[p] # "none"
  BY DEF RecoverQuarantine, placeVars, pointerVars, objectVars, memVars, IInv,
     TInv, TypeOK,
     ControlTypes, ScanRecord
<1>2. head'[p] = NoRev /\ headSynced'[p] = NoRev
      /\ \A q \in Projects \ {p} : head'[q] = head[q] /\ headSynced'[q] = headSynced[q]
  BY <1>1 DEF IInv, TInv, TypeOK, DiskTypes
<1>3. DiskInv'
  BY <1>1, <1>2 DEF IInv, DiskInv, LedgerOK, DiskKnown, Empty, HeadDurablyIntact,
     RecordsWhole,
     Durable, Line, Files, Revs
<1>4. ~blocked' /\ \A q \in Projects : head'[q] = headSynced'[q]
  BY <1>1, <1>2, RefreshCalm DEF Reading
<1>5. \A q \in Projects \ (torn' \cup scan'.todo) : Faithful(q, scan.fresh[q])'
  BY <1>1, <1>2 DEF IInv, StepInv, ScanFaithful, Reading, Faithful, Durable, Line,
     Files
<1>. QED
  BY <1>1, <1>2, <1>3, <1>4, <1>5
  DEF StepInv, HeadInDoubt, EntriesFaithful, ScanFaithful,
     Publication, Removal, Reading, Fresh, BeforeHead, BeforePointer, Settling

LEMMA RecoverReportKeeps == ASSUME IInv, NEW p \in Projects, RecoverReport(p) PROVE DiskInv' /\ StepInv'
<1>. DEFINE kept == IF scan.limit > 0 THEN UpTo(pointers[p], scan.limit) ELSE pointers[p]
            found == UpTo(Verified(p), scan.limit)
            lost == [NoEntry EXCEPT !.status = "damaged", !.location = "active"]
<1>. PICK e : e = [status |-> "active", location |-> "active", rev |-> Newest(found),
                   history |-> found, dated |-> FALSE]
  OBVIOUS
<1>1. /\ ledger' = ledger /\ place' = place /\ placeSynced' = placeSynced /\ torn' = torn
      /\ head' = head /\ headSynced' = headSynced
      /\ objects' = objects /\ objectsSynced' = objectsSynced
      /\ pointers' = [pointers EXCEPT ![p] = kept]
      /\ pointersSynced' = [pointersSynced EXCEPT ![p] = kept]
      /\ pc = "recover_report" /\ blocked' = blocked /\ p = scan.project
  BY DEF RecoverReport, placeVars, headVars, objectVars, memVars
<1>2. /\ head[p] = NoRev /\ headSynced[p] = NoRev /\ p \in scan.todo /\ place[p] # "none"
      /\ ~blocked /\ \A q \in Projects : head[q] = headSynced[q]
  BY <1>1, RefreshCalm DEF IInv, StepInv, ScanFaithful, Reading
<1>3. kept \subseteq pointers[p] /\ found \subseteq Verified(p) /\ found \in SUBSET Revs
  BY UpToPart, VerifiedTypes DEF IInv, TInv
<1>4. /\ pointers'[p] = kept /\ pointersSynced'[p] = kept
      /\ \A q \in Projects \ {p} : pointers'[q] = pointers[q] /\ pointersSynced'[q] = pointersSynced[q]
  BY <1>1 DEF IInv, TInv, TypeOK, DiskTypes
<1>5. DiskInv'
  <2>1. LedgerOK' /\ Empty' /\ DiskKnown'
    BY <1>1, <1>3, <1>4 DEF IInv, DiskInv, LedgerOK, Empty, DiskKnown, Revs, Line
  <2>2. HeadDurablyIntact'
    BY <1>1, <1>2, <1>4 DEF IInv, DiskInv, HeadDurablyIntact, Durable, Line, Files
  <2>3. RecordsWhole'
    BY <1>1, <1>3, <1>4 DEF IInv, DiskInv, RecordsWhole, Files
  <2>. QED
    BY <2>1, <2>2, <2>3 DEF DiskInv
<1>6. CASE found = {}
  <2>1. pc' = "refresh" /\ Scanned(p, lost)
    BY <1>6 DEF RecoverReport
  <2>2. Faithful(p, lost)'
    BY DEF Faithful, NoEntry
  <2>3. StepInv'
    BY <1>1, <1>2, <1>4, <2>1, <2>2, ScannedOthers, ScanStep DEF Reading
  <2>. QED
    BY <1>5, <2>3
<1>7. CASE found # {}
  <2>1. pc' = "recover_head" /\ scan' = [scan EXCEPT !.fresh[p] = e]
    BY <1>7 DEF RecoverReport
  <2>2. scan'.todo = scan.todo /\ scan'.project = p /\ scan'.fresh = [scan.fresh EXCEPT ![p] = e]
        /\ scan.fresh \in [Projects -> Entry] /\ scan'.fresh[p] = e
    BY <1>1, <2>1 DEF IInv, TInv, TypeOK, ControlTypes, ScanRecord
  <2>3. /\ Line(e.rev) \subseteq found /\ Line(e.rev) \subseteq kept
        /\ Files(Line(e.rev)) \subseteq objectsSynced
    <3>1. CASE e.rev = NoRev
      BY <3>1, LineOfNone DEF Files
    <3>2. CASE e.rev # NoRev
      <4>1. e.rev \in found /\ e.rev \in Verified(p) /\ e.rev \in Revs
        BY <1>3, <3>2, NewestTypes
      <4>2. scan.limit \in Nat /\ ledger[e.rev].seq <= scan.limit /\ scan.limit > 0
        BY <4>1, LedgerTypes DEF UpTo, IInv, TInv, TypeOK, ControlTypes, ScanRecord
      <4>3. Line(e.rev) \subseteq found /\ Line(e.rev) \subseteq kept
        BY <4>1, <4>2, VerifiedFacts, UpToKeeps DEF IInv, TInv, DiskInv
      <4>4. \A r \in Line(e.rev) : r \in pointers[p] \cap objects
        BY <4>1, VerifiedFacts DEF IInv, TInv, DiskInv, Files
      <4>5. \A r \in Line(e.rev) : Files({r}) \subseteq objectsSynced
        BY <4>4 DEF IInv, DiskInv, RecordsWhole
      <4>. QED
        BY <4>3, <4>5 DEF Files
    <3>. QED
      BY <3>1, <3>2
  <2>4. Durable(p, Line(e.rev))'
    BY <1>1, <1>4, <2>3 DEF Durable, Line, Files
  <2>5. ASSUME NEW q \in Projects \ (torn' \cup scan'.todo) PROVE Faithful(q, scan.fresh[q])'
    <3>1. q # p /\ q \in Projects \ (torn \cup scan.todo)
      BY <1>1, <1>2, <2>2
    <3>2. Faithful(q, scan.fresh[q]) /\ scan'.fresh[q] = scan.fresh[q]
      BY <1>1, <2>2, <3>1 DEF IInv, StepInv, ScanFaithful, Reading
    <3>. QED
      BY <1>1, <1>4, <3>1, <3>2, SMTT(60) DEF Faithful, Durable, Line, Files
  <2>6. ScanFaithful'
    <3>1. scan.fresh[p].status' = "active" /\ (Line(scan.fresh[p].rev) \subseteq scan.fresh[p].history)'
          /\ Durable(p, Line(scan.fresh[p].rev))'
      BY <1>1, <2>2, <2>3, <2>4 DEF Line, Durable, Files
    <3>. QED
      BY <1>1, <1>2, <2>1, <2>2, <2>5, <3>1 DEF ScanFaithful, Reading
  <2>7. StepInv'
    BY <1>1, <1>2, <2>1, <2>6
    DEF StepInv, HeadInDoubt, EntriesFaithful, Publication,
       Removal, Reading, Fresh, BeforeHead, BeforePointer, Settling
  <2>. QED
    BY <1>5, <2>7
<1>. QED
  BY <1>6, <1>7

LEMMA RecoverHeadKeeps == ASSUME IInv, NEW p \in Projects, RecoverHead(p) PROVE DiskInv' /\ StepInv'
<1>. PICK e : e = scan.fresh[p]
  OBVIOUS
<1>1. /\ ledger' = ledger /\ place' = place /\ placeSynced' = placeSynced /\ torn' = torn
      /\ pointers' = pointers /\ pointersSynced' = pointersSynced
      /\ objects' = objects /\ objectsSynced' = objectsSynced
      /\ head' = [head EXCEPT ![p] = e.rev] /\ headSynced' = [headSynced EXCEPT ![p] = e.rev]
      /\ pc = "recover_head" /\ pc' = "refresh" /\ blocked' = blocked /\ p = scan.project
      /\ Scanned(p, e)
  BY DEF RecoverHead, placeVars, pointerVars, objectVars, memVars
<1>2. head'[p] = e.rev /\ headSynced'[p] = e.rev
      /\ \A q \in Projects \ {p} : head'[q] = head[q] /\ headSynced'[q] = headSynced[q]
  BY <1>1 DEF IInv, TInv, TypeOK, DiskTypes
<1>3. /\ p \in scan.todo /\ place[p] # "none" /\ e.status = "active"
      /\ Line(e.rev) \subseteq e.history /\ Durable(p, Line(e.rev))
  BY <1>1 DEF IInv, StepInv, ScanFaithful
<1>10. Line(e.rev)' = Line(e.rev) /\ Durable(p, Line(e.rev))'
  <2>1. Line(e.rev)' = Line(e.rev)
    BY <1>1 DEF Line
  <2>. QED
    BY <1>1, <1>3, <2>1 DEF Durable, Files
<1>4. DiskInv'
  <2>1. LedgerOK' /\ DiskKnown' /\ Empty' /\ RecordsWhole'
    <3>1. LedgerOK'
      BY <1>1 DEF IInv, DiskInv, LedgerOK, Line, Revs
    <3>2. DiskKnown' /\ RecordsWhole'
      BY <1>1 DEF IInv, DiskInv, DiskKnown, RecordsWhole, Files
    <3>3. Empty'
      BY <1>1, <1>2, <1>3 DEF IInv, DiskInv, Empty
    <3>. QED
      BY <3>1, <3>2, <3>3
  <2>2. ASSUME NEW q \in Projects \ torn'
        PROVE  Durable(q, Line(head[q]))' /\ Durable(q, Line(headSynced[q]))'
    <3>1. CASE q = p
      <4>2. Line(head[p])' = Line(e.rev)' /\ Line(headSynced[p])' = Line(e.rev)'
        BY <1>1, <1>2 DEF Line
      <4>. QED
        BY <1>10, <3>1, <4>2 DEF Durable
    <3>2. CASE q # p
      BY <1>1, <1>2, <3>2 DEF IInv, DiskInv, HeadDurablyIntact, Durable, Line, Files
    <3>. QED
      BY <3>1, <3>2
  <2>. QED
    BY <2>1, <2>2 DEF DiskInv, HeadDurablyIntact
<1>5. Faithful(p, e)'
  <2>2. Line(head[p])' = Line(e.rev)
    BY <1>1, <1>2 DEF Line
  <2>. QED
    BY <1>3, <1>10, <2>2 DEF Faithful
<1>6. ~blocked /\ \A q \in Projects : head'[q] = headSynced'[q]
  BY <1>1, <1>2, RefreshCalm DEF Reading
<1>7. StepInv'
  BY <1>1, <1>2, <1>5, <1>6, ScannedOthers, ScanStep DEF Reading
<1>. QED
  BY <1>4, <1>7

LEMMA FinishRefreshKeeps == ASSUME IInv, FinishRefresh PROVE DiskInv' /\ StepInv'
<1>1. DiskInv'
  BY DiskInvKept DEF FinishRefresh, IInv
<1>2. /\ ledger' = ledger /\ head' = head /\ headSynced' = headSynced /\ torn' = torn
      /\ pointersSynced' = pointersSynced /\ objectsSynced' = objectsSynced
      /\ entries' = scan.fresh /\ blocked' = blocked /\ pc' = scan.then
      /\ pc = "refresh" /\ scan.todo = {}
  BY DEF FinishRefresh, diskVars, placeVars, headVars, pointerVars, objectVars
<1>3. scan.then \in Fresh /\ ~blocked /\ \A q \in Projects : head[q] = headSynced[q]
  BY <1>2, RefreshCalm DEF IInv, TInv, OpNamed, Reading
<1>4. \A q \in Projects \ torn : Faithful(q, scan.fresh[q])
  BY <1>2 DEF IInv, StepInv, ScanFaithful, Reading
<1>5. EntriesFaithful'
  BY <1>2, <1>4 DEF EntriesFaithful, Faithful, Durable, Line, Files
<1>. QED
  BY <1>1, <1>2, <1>3, <1>5
  DEF StepInv, HeadInDoubt, ScanFaithful, Publication, Removal,
     Fresh, Reading, BeforeHead, BeforePointer, Settling

-----------------------------------------------------------------------------
(* Losing the process, and errors *)

\* What a crash leaves is between what was synced and what was renamed.
LEMMA ShutdownKeeps == ASSUME IInv, Shutdown PROVE DiskInv' /\ StepInv'
<1>1. /\ ledger' = ledger /\ pc' = "down" /\ blocked' = FALSE
      /\ placeSynced' = place' /\ headSynced' = head'
      /\ pointersSynced' = pointers' /\ objectsSynced' = objects'
      /\ torn' = {p \in torn : place'[p] # "none"}
  BY DEF Shutdown
<1>2. \A p \in Projects : place'[p] \in {place[p], placeSynced[p]}
                          /\ head'[p] \in {head[p], headSynced[p]}
  <2>1. PICK kept : place' = Settled(place, placeSynced, kept)
    BY DEF Shutdown
  <2>2. PICK settled : head' = Settled(head, headSynced, settled)
    BY DEF Shutdown
  <2>. QED
    BY <2>1, <2>2 DEF Settled
<1>3. \A p \in Projects : pointersSynced[p] \subseteq pointers'[p] /\ pointers'[p] \subseteq pointers[p]
  <2>1. PICK saved : pointers' = Settled(pointers, pointersSynced, saved)
    BY DEF Shutdown
  <2>. QED
    BY <2>1 DEF Settled, IInv, DiskInv, DiskKnown
<1>4. objectsSynced \subseteq objects' /\ objects' \subseteq objects
  BY DEF Shutdown, IInv, DiskInv, DiskKnown
<1>5. \A p \in Projects : place'[p] = "none" => head'[p] = NoRev
  BY <1>2 DEF IInv, DiskInv, Empty
<1>6. LedgerOK' /\ DiskKnown' /\ Empty'
  BY <1>1, <1>5 DEF IInv, DiskInv, LedgerOK, DiskKnown, Empty, Revs, Line
<1>7. HeadDurablyIntact'
  <2>. SUFFICES ASSUME NEW p \in Projects \ torn' PROVE Durable(p, Line(head[p]))'
    BY <1>1 DEF HeadDurablyIntact, Durable, Line, Files
  <2>1. CASE p \in torn
    BY <1>1, <1>5, <2>1 DEF Durable, Line, Files
  <2>2. CASE p \notin torn
    BY <1>1, <1>2, <1>3, <1>4, <2>2
    DEF IInv, DiskInv, HeadDurablyIntact, Durable, Line, Files
  <2>. QED
    BY <2>1, <2>2
<1>8. RecordsWhole'
  BY <1>1, <1>3, <1>4 DEF IInv, DiskInv, RecordsWhole, Files
<1>9. StepInv'
  BY <1>1 DEF StepInv, HeadInDoubt, EntriesFaithful, ScanFaithful, Publication,
     Removal,
     Fresh, Reading, BeforeHead, BeforePointer, Settling
<1>. QED
  BY <1>6, <1>7, <1>8, <1>9 DEF DiskInv

LEMMA BlockKeeps == ASSUME IInv, Block PROVE DiskInv' /\ StepInv'
<1>1. CASE Shutdown
  BY <1>1, ShutdownKeeps
<1>2. CASE blocked' = TRUE /\ pc' = "idle" /\ UNCHANGED <<ledger, diskVars>>
  BY <1>2, DiskInvKept
  DEF IInv, StepInv, HeadInDoubt, EntriesFaithful, ScanFaithful,
     Publication, Removal, Fresh, Reading, BeforeHead, BeforePointer, Settling
<1>. QED
  BY <1>1, <1>2 DEF Block, diskVars, placeVars, headVars, pointerVars, objectVars

\* A refresh started with the disk as it was.
LEMMA RefreshKeeps ==
    ASSUME IInv, NEW then, StartRefresh(then), UNCHANGED <<ledger, diskVars, memVars>>,
           pc \notin Settling, ~blocked
    PROVE  DiskInv' /\ StepInv'
  BY DiskInvKept, StartRefreshKeeps DEF IInv, diskVars, headVars, memVars

\* Between two steps of a mutation nothing is blocked.
LEMMA Unblocked == ASSUME IInv, pc # "idle" PROVE ~blocked
  BY DEF IInv, StepInv, HeadInDoubt

LEMMA FailRefreshKeeps ==
    ASSUME IInv, Older = {}, FailRefresh PROVE DiskInv' /\ StepInv'
<1>. pc \in Reading /\ pc \notin Settling /\ ~blocked
  BY Unblocked DEF FailRefresh, Reading, Settling
<1>1. CASE Block
  BY <1>1, BlockKeeps
<1>2. CASE \E then \in {"reconcile", "abort"} :
              StartRefresh(then) /\ UNCHANGED <<ledger, diskVars, memVars>>
  BY <1>2, RefreshKeeps
<1>3. CASE scan.then = "idle" /\ op.kind = "upgrade"
  BY <1>3 DEF IInv, TInv, OpNamed
<1>. QED
  BY <1>1, <1>2, <1>3 DEF FailRefresh

\* collectUnreferencedObjects keeps whatever a Head or a listed revision needs.
LEMMA CollectedKeeps ==
    ASSUME IInv, pc \in Fresh, ~blocked, objects' = Kept(objects),
           objectsSynced' = IF objects' = objects THEN objectsSynced ELSE objects',
           UNCHANGED <<ledger, placeVars, headVars, pointerVars, entries>>
    PROVE  DiskInv' /\ \A p \in Projects \ torn : Faithful(p, entries[p])'
<1>1. /\ ledger' = ledger /\ place' = place /\ placeSynced' = placeSynced /\ torn' = torn
      /\ head' = head /\ headSynced' = headSynced
      /\ pointers' = pointers /\ pointersSynced' = pointersSynced /\ entries' = entries
  BY DEF placeVars, headVars, pointerVars
<1>2. \A p \in Projects : Files(entries[p].history) \subseteq Referenced
  BY DEF Referenced
<1>3. objectsSynced \subseteq objects
  BY DEF IInv, DiskInv, DiskKnown
<1>4. Damaged => objects' = objects /\ objectsSynced' = objectsSynced
  BY DEF Kept
<1>5. \A o \in objectsSynced \cap Referenced : o \in objectsSynced'
  BY <1>3, <1>4 DEF Kept
<1>6. objectsSynced' \subseteq objects' /\ objects' \subseteq objects
  BY <1>3 DEF Kept
<1>7. \A p \in Projects \ torn : Faithful(p, entries[p]) /\ head[p] = headSynced[p]
  BY DEF IInv, StepInv, EntriesFaithful, HeadInDoubt, Fresh, Settling
<1>8. \A p \in Projects \ torn : Files(Line(head[p])) \subseteq objectsSynced'
  <2>. SUFFICES ASSUME NEW p \in Projects \ torn PROVE Files(Line(head[p])) \subseteq objectsSynced'
    OBVIOUS
  <2>1. Files(Line(head[p])) \subseteq objectsSynced
    BY DEF IInv, DiskInv, HeadDurablyIntact, Durable
  <2>2. CASE head[p] = NoRev
    BY <2>2, LineOfNone DEF Files
  <2>3. CASE entries[p].status = "damaged"
    BY <1>4, <2>1, <2>3 DEF Damaged
  <2>4. CASE Line(head[p]) \subseteq entries[p].history
    <3>. Files(Line(head[p])) \subseteq Files(entries[p].history)
      BY <2>4, FilesOfPart
    <3>. QED
      BY <1>2, <1>5, <2>1
  <2>. QED
    BY <1>7, <2>2, <2>3, <2>4 DEF Faithful
<1>9. HeadDurablyIntact'
  BY <1>1, <1>7, <1>8 DEF IInv, DiskInv, HeadDurablyIntact, Durable, Line, Files
<1>10. RecordsWhole'
  <2>. SUFFICES ASSUME NEW p \in Projects, NEW r \in pointers[p] \cap objects'
                PROVE  Files({r}) \subseteq objectsSynced'
    BY <1>1 DEF RecordsWhole, Files
  <2>1. r \in Revs /\ r \notin Payloads /\ Files({r}) \subseteq objectsSynced
    BY <1>6, LedgerTypes, LibraryAssumption
    DEF IInv, DiskInv, RecordsWhole, TInv, TypeOK, DiskTypes
  <2>2. CASE Damaged
    BY <1>4, <2>1, <2>2
  <2>3. CASE ~Damaged
    <3>1. PICK q \in Projects : r \in Files(entries[q].history)
      BY <2>3 DEF Kept, Referenced
    <3>2. entries[q].history \subseteq Revs
      BY DEF IInv, TInv, TypeOK, MemoryTypes, Entry
    <3>3. r \in entries[q].history
      BY <2>1, <3>1, <3>2, LedgerTypes DEF Files, IInv, TInv
    <3>4. Files({r}) \subseteq Referenced
      BY <1>2, <3>3 DEF Files
    <3>. QED
      BY <1>5, <2>1, <3>4
  <2>. QED
    BY <2>2, <2>3
<1>11. LedgerOK' /\ DiskKnown' /\ Empty'
  BY <1>1, <1>6 DEF IInv, DiskInv, LedgerOK, DiskKnown, Empty, Revs, Line
<1>12. ASSUME NEW p \in Projects \ torn PROVE Faithful(p, entries[p])'
  <2>1. Faithful(p, entries[p])
    BY <1>7
  <2>2. CASE entries[p].status = "active"
    <3>1. Files(Line(entries[p].rev)) \subseteq Referenced
      BY <1>2, <2>1, <2>2, FilesOfPart DEF Faithful
    <3>2. Files(Line(entries[p].rev)) \subseteq objectsSynced'
      BY <1>5, <2>1, <2>2, <3>1 DEF Faithful, Durable
    <3>. QED
      BY <1>1, <2>1, <3>2 DEF Faithful, Durable, Line, Files
  <2>3. CASE entries[p].status # "active"
    BY <1>1, <2>1, <2>3 DEF Faithful, Line
  <2>. QED
    BY <2>2, <2>3
<1>. QED
  BY <1>9, <1>10, <1>11, <1>12 DEF DiskInv

LEMMA CrashKeeps == ASSUME IInv, Crash PROVE DiskInv' /\ StepInv'
  BY ShutdownKeeps DEF Crash

LEMMA CloseKeeps == ASSUME IInv, Close PROVE DiskInv' /\ StepInv'
  BY ShutdownKeeps DEF Close

LEMMA RotHeadKeeps == ASSUME IInv, NEW p \in Projects, RotHead(p) PROVE DiskInv' /\ StepInv'
<1>1. /\ ledger' = ledger /\ place' = place /\ placeSynced' = placeSynced /\ torn' = torn
      /\ head' = head /\ headSynced' = headSynced
      /\ pointers' = pointers /\ pointersSynced' = pointersSynced
      /\ objects' = objects /\ objectsSynced' = objectsSynced
      /\ entries' = entries /\ blocked' = blocked /\ pc' = pc /\ op' = op /\ scan' = scan
  BY DEF RotHead, placeVars, headVars, pointerVars, objectVars, memVars
<1>2. DiskInv'
  BY <1>1 DEF IInv, DiskInv, LedgerOK, DiskKnown, Empty, HeadDurablyIntact,
     RecordsWhole, Durable,
     Line, Files, Revs
<1>3. EntriesFaithful' /\ ScanFaithful'
  <2>1. EntriesFaithful'
    BY <1>1 DEF IInv, StepInv, EntriesFaithful, Faithful, Durable, Line, Files
  <2>2. ScanFaithful'
    BY <1>1, ScanKept DEF IInv, StepInv
  <2>. QED
    BY <2>1, <2>2
<1>4. HeadInDoubt' /\ Publication' /\ Removal'
  BY <1>1 DEF IInv, StepInv, HeadInDoubt, Publication, Removal, Durable, Line,
     Files, Payload
<1>. QED
  BY <1>2, <1>3, <1>4 DEF StepInv

LEMMA RotObjectKeeps == ASSUME IInv, NEW o \in objects, RotObject(o) PROVE DiskInv' /\ StepInv'
<1>1. /\ ledger' = ledger /\ place' = place /\ placeSynced' = placeSynced /\ torn' = torn
      /\ head' = head /\ headSynced' = headSynced
      /\ pointers' = pointers /\ pointersSynced' = pointersSynced
      /\ objects' = objects /\ objectsSynced' = objectsSynced
      /\ entries' = entries /\ blocked' = blocked /\ pc' = pc /\ op' = op /\ scan' = scan
  BY DEF RotObject, placeVars, headVars, pointerVars, objectVars, memVars
<1>2. DiskInv'
  BY <1>1 DEF IInv, DiskInv, LedgerOK, DiskKnown, Empty, HeadDurablyIntact,
     RecordsWhole, Durable,
     Line, Files, Revs
<1>3. EntriesFaithful' /\ ScanFaithful'
  <2>1. EntriesFaithful'
    BY <1>1 DEF IInv, StepInv, EntriesFaithful, Faithful, Durable, Line, Files
  <2>2. ScanFaithful'
    BY <1>1, ScanKept DEF IInv, StepInv
  <2>. QED
    BY <2>1, <2>2
<1>4. HeadInDoubt' /\ Publication' /\ Removal'
  BY <1>1 DEF IInv, StepInv, HeadInDoubt, Publication, Removal, Durable, Line,
     Files, Payload
<1>. QED
  BY <1>2, <1>3, <1>4 DEF StepInv

-----------------------------------------------------------------------------
(* Opening *)

LEMMA OpenKeeps == ASSUME IInv, Open PROVE DiskInv' /\ StepInv'
<1>. pc \notin Settling /\ ~blocked
  BY Unblocked DEF Open, Settling
<1>. QED
  BY RefreshKeeps DEF Open

\* From one point between two steps to another, entries and disk untouched.
LEMMA FreshKeeps ==
    ASSUME IInv, pc \in Fresh, pc' \in Fresh, UNCHANGED <<ledger, entries, blocked>>, ~blocked,
           torn' = torn, head' = head, headSynced' = headSynced,
           \A p \in Projects \ torn : Faithful(p, entries[p])'
    PROVE  StepInv'
  BY DEF IInv, StepInv, HeadInDoubt, EntriesFaithful, ScanFaithful, Publication,
     Removal,
     Fresh, Reading, BeforeHead, BeforePointer, Settling

\* Where entries were faithful and nothing moved, they still are.
LEMMA SameFaithful ==
    ASSUME IInv, pc \in Fresh, ~blocked, ledger' = ledger, entries' = entries, head' = head,
           pointersSynced' = pointersSynced, objectsSynced' = objectsSynced
    PROVE  \A p \in Projects \ torn : Faithful(p, entries[p])'
  BY DEF IInv, StepInv, EntriesFaithful, Faithful, Durable, Line, Files

LEMMA ScavengeKeeps == ASSUME IInv, Scavenge PROVE DiskInv' /\ StepInv'
<1>. ~blocked /\ pc \in Fresh /\ pc' \in Fresh
  BY Unblocked DEF Scavenge, Fresh
<1>1. DiskInv'
  BY DEF Scavenge, IInv, DiskInv, LedgerOK, DiskKnown, Empty, HeadDurablyIntact,
     RecordsWhole, Durable,
     Line, Files, Revs, placeVars, headVars, pointerVars, objectVars
<1>2. StepInv'
  BY SameFaithful, FreshKeeps
  DEF Scavenge, placeVars, headVars, pointerVars, objectVars, memVars
<1>. QED
  BY <1>1, <1>2

LEMMA MigrationsDoneKeeps == ASSUME IInv, MigrationsDone PROVE DiskInv' /\ StepInv'
<1>. ~blocked /\ pc \in Fresh /\ pc' \in Fresh
  BY Unblocked DEF MigrationsDone, Fresh
<1>1. StepInv'
  BY SameFaithful, FreshKeeps DEF MigrationsDone, diskVars, placeVars, headVars,
     pointerVars, objectVars, memVars
<1>. QED
  BY <1>1, DiskInvKept DEF MigrationsDone, IInv

LEMMA FailMigrationKeeps == ASSUME IInv, NEW r \in Revs, FailMigration(r) PROVE DiskInv' /\ StepInv'
<1>. pc \notin Settling /\ ~blocked
  BY Unblocked DEF FailMigration, Settling
<1>. QED
  BY RefreshKeeps DEF FailMigration

LEMMA CollectKeeps == ASSUME IInv, Collect PROVE DiskInv' /\ StepInv'
<1>. ~blocked /\ pc \in Fresh /\ pc' \in Fresh
  BY Unblocked DEF Collect, Fresh
<1>1. DiskInv' /\ \A p \in Projects \ torn : Faithful(p, entries[p])'
  BY CollectedKeeps DEF Collect, memVars
<1>2. StepInv'
  BY <1>1, FreshKeeps DEF Collect, memVars, placeVars, headVars
<1>. QED
  BY <1>1, <1>2

LEMMA FailCollectKeeps == ASSUME IInv, FailCollect PROVE DiskInv' /\ StepInv'
<1>. pc \notin Settling /\ ~blocked
  BY Unblocked DEF FailCollect, Settling
<1>. QED
  BY BlockKeeps, RefreshKeeps DEF FailCollect

-----------------------------------------------------------------------------
(* Publishing *)

LEMMA IssueKeeps ==
    ASSUME IInv, NEW kind, NEW p \in Projects, NEW parent \in RevOrNone,
           NEW v \in Payloads, Issue(kind, p, parent, v), ~blocked, pc \in Fresh,
           p \notin torn => Durable(p, Line(parent))
    PROVE  DiskInv' /\ StepInv'
<1>. DEFINE n == Len(ledger) + 1
            record == [project |-> p, parent |-> parent, seq |-> SeqOf(parent) + 1,
                       payload |-> v, line |-> Line(parent) \cup {n}]
<1>1. /\ Revs = 1..Len(ledger) /\ Len(ledger) \in Nat /\ ledger \in Seq(Revision)
      /\ parent \in 0..Len(ledger)
  BY DEF IInv, TInv, TypeOK, Revs, RevOrNone
<1>2. ledger' = Append(ledger, record)
  BY DEF Issue
<1>3. Revs' = 1..n /\ Revs' = Revs \cup {n} /\ n \notin Revs
  BY <1>1, <1>2 DEF Revs
<1>4. \A r \in Revs : ledger'[r] = ledger[r]
  BY <1>1, <1>2
<1>5. ledger'[n] = record
  BY <1>1, <1>2
<1>6. \A r \in RevOrNone : Line(r)' = Line(r)
  BY <1>4 DEF Line, RevOrNone
<1>7. \A R \in SUBSET Revs : Files(R)' = Files(R)
  BY <1>4 DEF Files
<1>8. \A r \in RevOrNone : Line(r) \subseteq Revs
  BY LineFacts, LineOfNone DEF RevOrNone, IInv, TInv, DiskInv
<1>9. /\ place' = place /\ placeSynced' = placeSynced /\ torn' = torn
      /\ head' = head /\ headSynced' = headSynced
      /\ pointers' = pointers /\ pointersSynced' = pointersSynced
      /\ objects' = objects /\ objectsSynced' = objectsSynced
      /\ blocked' = blocked /\ pc' = "stage"
  BY DEF Issue, diskVars, placeVars, headVars, pointerVars, objectVars, memVars
<1>10. op'.project = p /\ op'.rev = n
  BY DEF Issue, IInv, TInv, TypeOK, ControlTypes, OpRecord
<1>11. \A q \in Projects : /\ head[q] \in RevOrNone /\ headSynced[q] \in RevOrNone
                           /\ pointers[q] \subseteq Revs
  BY DEF IInv, TInv, TypeOK, DiskTypes
<1>12. \A q \in Projects, r \in RevOrNone : Durable(q, Line(r)) => Durable(q, Line(r))'
  <2>. SUFFICES ASSUME NEW q \in Projects, NEW r \in RevOrNone, Durable(q, Line(r))
                PROVE  Line(r)' \subseteq pointersSynced'[q] /\ Files(Line(r))' \subseteq objectsSynced'
    BY DEF Durable
  <2>1. \A x \in Line(r) : x \in Revs
    BY <1>8
  <2>2. Files(Line(r))' = Files(Line(r))
    BY <1>4, <1>6, <2>1 DEF Files
  <2>. QED
    BY <1>6, <1>9, <2>2 DEF Durable
<1>13. LedgerOK'
  <2>. SUFFICES ASSUME NEW r \in Revs'
                PROVE  /\ ledger'[r].parent \in 0..(r - 1)
                       /\ ledger'[r].line = Line(ledger[r].parent)' \cup {r}
                       /\ ledger'[r].line \subseteq 1..r
                       /\ \A q \in ledger'[r].line :
                             ledger'[q].line \subseteq ledger'[r].line
                             /\ ledger'[q].seq <= ledger'[r].seq
    BY DEF LedgerOK
  <2>1. CASE r \in Revs
    <3>1. ledger[r].parent \in 0..(r - 1) /\ r \in 1..Len(ledger)
      BY <1>1, <2>1 DEF IInv, DiskInv, LedgerOK
    <3>2. ledger[r].parent \in RevOrNone
      BY <1>1, <3>1 DEF RevOrNone
    <3>3. \A q \in ledger[r].line : q \in Revs
      BY <2>1, LineFacts DEF IInv, TInv, DiskInv
    <3>. QED
      BY <1>4, <1>6, <2>1, <3>2, <3>3 DEF IInv, DiskInv, LedgerOK
  <2>2. CASE r = n
    <3>1. Line(parent) \subseteq 1..Len(ledger) /\ n \in Nat
      BY <1>1, <1>8
    <3>2. \A q \in Line(parent) :
             /\ q \in Revs /\ ledger[q].line \subseteq Line(parent)
             /\ ledger[q].seq \in Nat /\ ledger[q].seq <= SeqOf(parent) /\ SeqOf(parent) \in Nat
      <4>1. CASE parent = NoRev
        BY <4>1, LineOfNone
      <4>2. CASE parent \in Revs
        BY <4>2, LineFacts, LedgerTypes DEF SeqOf, IInv, TInv, DiskInv
      <4>. QED
        BY <4>1, <4>2 DEF RevOrNone
    <3>3. ledger'[n].line = Line(parent) \cup {n} /\ ledger'[n].parent = parent
          /\ ledger'[n].seq = SeqOf(parent) + 1
      BY <1>5
    <3>4. SeqOf(parent) \in Nat
      BY LedgerTypes DEF SeqOf, RevOrNone, IInv, TInv
    <3>5. \A q \in ledger'[n].line : ledger'[q].line \subseteq ledger'[n].line
                                     /\ ledger'[q].seq <= ledger'[n].seq
      <4>. SUFFICES ASSUME NEW q \in ledger'[n].line
                    PROVE  ledger'[q].line \subseteq ledger'[n].line /\ ledger'[q].seq <= ledger'[n].seq
        OBVIOUS
      <4>1. CASE q = n
        BY <3>3, <3>4, <4>1
      <4>2. CASE q \in Line(parent)
        BY <1>4, <3>2, <3>3, <4>2
      <4>. QED
        BY <3>3, <4>1, <4>2
    <3>6. ledger'[n].line \subseteq 1..n
      BY <1>1, <3>1, <3>3
    <3>. QED
      BY <1>1, <1>6, <2>2, <3>3, <3>5, <3>6
  <2>. QED
    BY <1>3, <2>1, <2>2
<1>14. HeadDurablyIntact'
  <2>. SUFFICES ASSUME NEW q \in Projects \ torn
                PROVE  Durable(q, Line(head[q]))' /\ Durable(q, Line(headSynced[q]))'
    BY <1>9 DEF HeadDurablyIntact
  <2>1. /\ Durable(q, Line(head[q])) /\ Durable(q, Line(headSynced[q]))
    BY DEF IInv, DiskInv, HeadDurablyIntact
  <2>2. PICK h \in RevOrNone, s \in RevOrNone : h = head[q] /\ s = headSynced[q]
    BY <1>11
  <2>3. Durable(q, Line(h))' /\ Durable(q, Line(s))'
    BY <1>12, <2>1, <2>2
  <2>4. head'[q] = h /\ headSynced'[q] = s
    BY <1>9, <2>2
  <2>. QED
    BY <2>3, <2>4 DEF Durable, Line, Files
<1>15. RecordsWhole'
  <2>. SUFFICES ASSUME NEW q \in Projects, NEW r \in pointers[q] \cap objects
                PROVE  Files({r})' \subseteq objectsSynced
    BY <1>9 DEF RecordsWhole
  <2>1. r \in Revs /\ Files({r}) \subseteq objectsSynced
    BY <1>11 DEF IInv, DiskInv, RecordsWhole
  <2>. QED
    BY <1>7, <2>1
<1>16. DiskKnown' /\ Empty'
  BY <1>9 DEF IInv, DiskInv, DiskKnown, Empty
<1>17. Publication'
  <2>1. ledger'[op'.rev].parent = parent
    BY <1>5, <1>10
  <2>2. p \notin torn => Durable(p, Line(parent))'
    BY <1>12
  <2>3. op'.project \notin torn' => Durable(op.project, Line(ledger[op.rev].parent))'
    BY <1>9, <1>10, <2>1, <2>2 DEF Durable, Line, Files
  <2>4. \A q \in Projects : op'.rev \notin pointers'[q]
    BY <1>3, <1>9, <1>10, <1>11
  <2>. QED
    BY <1>9, <2>3, <2>4 DEF Publication, BeforeHead, BeforePointer, Settling
<1>18. HeadInDoubt' /\ EntriesFaithful' /\ ScanFaithful' /\ Removal'
  BY <1>9 DEF IInv, StepInv, HeadInDoubt, EntriesFaithful, ScanFaithful, Removal,
     Fresh, Reading, Settling
<1>. QED
  BY <1>13, <1>14, <1>15, <1>16, <1>17, <1>18 DEF DiskInv, StepInv

LEMMA CreateKeeps ==
    ASSUME IInv, NEW p \in Projects, NEW v \in Payloads, Create(p, v) \/ RestoreRevision(p, v)
    PROVE  DiskInv' /\ StepInv'
<1>. NoRev \in RevOrNone /\ Durable(p, Line(NoRev))
  BY LineOfNone DEF RevOrNone, Durable, Files
<1>. QED
  BY IssueKeeps DEF Create, RestoreRevision, Accepting, Fresh

LEMMA ExtendsCurrent ==
    ASSUME IInv, NEW p \in Projects, Accepting, Writable(p), NEW kind, NEW v \in Payloads,
           Issue(kind, p, entries[p].rev, v)
    PROVE  DiskInv' /\ StepInv'
<1>1. entries[p].rev \in RevOrNone
  BY DEF IInv, TInv, TypeOK, MemoryTypes, Entry
<1>2. p \notin torn => Durable(p, Line(entries[p].rev))
  BY DEF Writable, Accepting, IInv, StepInv, EntriesFaithful, Fresh, Faithful
<1>. QED
  BY <1>1, <1>2, IssueKeeps DEF Accepting, Fresh

LEMMA ChangeKeeps ==
    ASSUME IInv, NEW p \in Projects, NEW v \in Payloads, Change(p, v) PROVE DiskInv' /\ StepInv'
  BY ExtendsCurrent DEF Change

LEMMA RollbackKeeps ==
    ASSUME IInv, NEW p \in Projects, NEW r \in Revs, Rollback(p, r) PROVE DiskInv' /\ StepInv'
<1>. Upgraded(ledger[r].payload) \in Payloads
  BY LedgerTypes, LibraryAssumption DEF IInv, TInv, Upgraded
<1>. QED
  BY ExtendsCurrent DEF Rollback

\* Where no payload has an older schema nothing is ever migrated.
LEMMA NoMigration ==
    ASSUME IInv, Older = {}
    PROVE  ~UpgradeRestored /\ ~FailUpgrade /\ \A r \in Revs : ~MigrateNext(r)
  BY DEF IInv, TInv, OpNamed, UpgradeRestored, FailUpgrade, MigrateNext

\* The revision under publication.
LEMMA Publishes ==
    ASSUME IInv, pc \in Publishing \cup Settling \cup {"verify", "reconcile"}
    PROVE  /\ op.project \in Projects /\ op.rev \in Revs /\ Payload \in Payloads
           /\ op.rev \notin Payloads /\ ~blocked
  BY OpReady, LedgerTypes, LibraryAssumption, Unblocked
  DEF IInv, TInv, Publishing, Settling

\* A step of a publication from one file to the next.
LEMMA PublicationStep ==
    ASSUME IInv, ~blocked, ledger' = ledger, blocked' = blocked,
           pc \in BeforeHead \cup Settling, pc' \in BeforeHead \cup {"clean"},
           \A p \in Projects : head'[p] = headSynced'[p], Publication'
    PROVE  StepInv'
  BY DEF IInv, StepInv, HeadInDoubt, EntriesFaithful, ScanFaithful, Removal,
     Fresh, Reading, BeforeHead, BeforePointer, Settling

\* Before the new Head is renamed all Heads are durable and keep their files,
\* and so does the line the new revision extends, as synced copies only grow.
LEMMA HeadsKept ==
    ASSUME IInv, ledger' = ledger, torn' = torn, head' = head, headSynced' = headSynced,
           op' = op, pc \in BeforeHead, ~blocked, op.project \in Projects,
           \A p \in Projects : pointersSynced[p] \subseteq pointersSynced'[p],
           objectsSynced \subseteq objectsSynced'
    PROVE  /\ HeadDurablyIntact' /\ \A p \in Projects : head'[p] = headSynced'[p]
           /\ op.project \notin torn => Durable(op.project, Line(ledger[op.rev].parent))'
<1>1. \A p \in Projects : head[p] = headSynced[p]
  BY DEF IInv, StepInv, HeadInDoubt, BeforeHead, BeforePointer, Settling
<1>2. HeadDurablyIntact'
  BY DEF IInv, DiskInv, HeadDurablyIntact, Durable, Line, Files
<1>3. op.project \notin torn => Durable(op.project, Line(ledger[op.rev].parent))
  BY DEF IInv, StepInv, Publication
<1>4. op.project \notin torn => Durable(op.project, Line(ledger[op.rev].parent))'
  BY <1>3 DEF Durable, Line, Files
<1>. QED
  BY <1>1, <1>2, <1>4

LEMMA StageKeeps == ASSUME IInv, Stage PROVE DiskInv' /\ StepInv'
<1>. pc = "stage" /\ pc' = "install_payload" /\ op' = op /\ pc \in BeforeHead
  BY DEF Stage, Step, BeforeHead, BeforePointer
<1>. op.project \in Projects /\ op.rev \in Revs /\ Payload \in Payloads /\ op.rev \notin Payloads /\ ~blocked
  BY Publishes DEF Publishing
<1>1. /\ ledger' = ledger /\ torn' = torn /\ head' = head /\ headSynced' = headSynced
      /\ blocked' = blocked
      /\ place' = place /\ placeSynced' = placeSynced
      /\ pointers' = pointers /\ pointersSynced' = pointersSynced
      /\ objects' = objects /\ objectsSynced' = objectsSynced
  BY DEF Stage, placeVars, headVars, pointerVars, objectVars, diskVars, memVars
<1>2. /\ \A p \in Projects : pointersSynced[p] \subseteq pointersSynced'[p]
      /\ objectsSynced \subseteq objectsSynced'
  BY <1>1 DEF IInv, DiskInv, DiskKnown, TInv, TypeOK, DiskTypes
<1>3. /\ HeadDurablyIntact' /\ \A p \in Projects : head'[p] = headSynced'[p]
      /\ op.project \notin torn => Durable(op.project, Line(ledger[op.rev].parent))'
  BY <1>1, <1>2, HeadsKept
<1>4. LedgerOK' /\ DiskKnown' /\ Empty'
  BY <1>1, <1>2 DEF IInv, DiskInv, LedgerOK, DiskKnown, Empty, Revs, Line, TInv,
     TypeOK, DiskTypes, Places
<1>5. RecordsWhole'
  BY <1>1, <1>2 DEF IInv, DiskInv, RecordsWhole, Files
<1>6. Publication'
  BY <1>1, <1>2, <1>3
  DEF IInv, StepInv, Publication, Payload, BeforeHead, BeforePointer, Settling
<1>7. StepInv'
  BY <1>1, <1>3, <1>6, PublicationStep DEF BeforeHead, BeforePointer
<1>. QED
  BY <1>3, <1>4, <1>5, <1>7 DEF DiskInv

LEMMA InstallPayloadKeeps == ASSUME IInv, InstallPayload PROVE DiskInv' /\ StepInv'
<1>. pc = "install_payload" /\ pc' = "sync_payload" /\ op' = op /\ pc \in BeforeHead
  BY DEF InstallPayload, Step, BeforeHead, BeforePointer
<1>. op.project \in Projects /\ op.rev \in Revs /\ Payload \in Payloads /\ op.rev \notin Payloads /\ ~blocked
  BY Publishes DEF Publishing
<1>1. /\ ledger' = ledger /\ torn' = torn /\ head' = head /\ headSynced' = headSynced
      /\ blocked' = blocked
      /\ place' = place /\ placeSynced' = placeSynced
      /\ pointers' = pointers /\ pointersSynced' = pointersSynced
      /\ objects' = objects \cup {Payload} /\ objectsSynced' = objectsSynced
  BY DEF InstallPayload, InstallObject, placeVars, headVars, pointerVars,
     objectVars, diskVars, memVars
<1>2. /\ \A p \in Projects : pointersSynced[p] \subseteq pointersSynced'[p]
      /\ objectsSynced \subseteq objectsSynced'
  BY <1>1 DEF IInv, DiskInv, DiskKnown, TInv, TypeOK, DiskTypes
<1>3. /\ HeadDurablyIntact' /\ \A p \in Projects : head'[p] = headSynced'[p]
      /\ op.project \notin torn => Durable(op.project, Line(ledger[op.rev].parent))'
  BY <1>1, <1>2, HeadsKept
<1>4. LedgerOK' /\ DiskKnown' /\ Empty'
  BY <1>1, <1>2 DEF IInv, DiskInv, LedgerOK, DiskKnown, Empty, Revs, Line, TInv,
     TypeOK, DiskTypes, Places
<1>5. RecordsWhole'
  <2>. ASSUME NEW p \in Projects, NEW r \in pointers[p] \cap objects'
       PROVE  r \in objects
    BY <1>1, LedgerTypes, LibraryAssumption DEF IInv, TInv, TypeOK, DiskTypes
  <2>. QED
    BY <1>1 DEF IInv, DiskInv, RecordsWhole, Files
<1>6. Publication'
  BY <1>1, <1>2, <1>3
  DEF IInv, StepInv, Publication, Payload, BeforeHead, BeforePointer, Settling
<1>7. StepInv'
  BY <1>1, <1>3, <1>6, PublicationStep DEF BeforeHead, BeforePointer
<1>. QED
  BY <1>3, <1>4, <1>5, <1>7 DEF DiskInv

LEMMA SyncPayloadKeeps == ASSUME IInv, SyncPayload PROVE DiskInv' /\ StepInv'
<1>. pc = "sync_payload" /\ pc' = "install_revision" /\ op' = op /\ pc \in BeforeHead
  BY DEF SyncPayload, Step, BeforeHead, BeforePointer
<1>. op.project \in Projects /\ op.rev \in Revs /\ Payload \in Payloads /\ op.rev \notin Payloads /\ ~blocked
  BY Publishes DEF Publishing
<1>1. /\ ledger' = ledger /\ torn' = torn /\ head' = head /\ headSynced' = headSynced
      /\ blocked' = blocked
      /\ place' = place /\ placeSynced' = placeSynced
      /\ pointers' = pointers /\ pointersSynced' = pointersSynced
      /\ objects' = objects /\ objectsSynced' = objects
  BY DEF SyncPayload, SyncObjects, placeVars, headVars, pointerVars, objectVars,
     diskVars, memVars
<1>2. /\ \A p \in Projects : pointersSynced[p] \subseteq pointersSynced'[p]
      /\ objectsSynced \subseteq objectsSynced'
  BY <1>1 DEF IInv, DiskInv, DiskKnown, TInv, TypeOK, DiskTypes
<1>3. /\ HeadDurablyIntact' /\ \A p \in Projects : head'[p] = headSynced'[p]
      /\ op.project \notin torn => Durable(op.project, Line(ledger[op.rev].parent))'
  BY <1>1, <1>2, HeadsKept
<1>4. LedgerOK' /\ DiskKnown' /\ Empty'
  BY <1>1, <1>2 DEF IInv, DiskInv, LedgerOK, DiskKnown, Empty, Revs, Line, TInv,
     TypeOK, DiskTypes, Places
<1>5. RecordsWhole'
  BY <1>1, <1>2 DEF IInv, DiskInv, RecordsWhole, Files
<1>6. Publication'
  BY <1>1, <1>2, <1>3
  DEF IInv, StepInv, Publication, Payload, BeforeHead, BeforePointer, Settling
<1>7. StepInv'
  BY <1>1, <1>3, <1>6, PublicationStep DEF BeforeHead, BeforePointer
<1>. QED
  BY <1>3, <1>4, <1>5, <1>7 DEF DiskInv

LEMMA InstallRevisionKeeps == ASSUME IInv, InstallRevision PROVE DiskInv' /\ StepInv'
<1>. pc = "install_revision" /\ pc' = "sync_revision" /\ op' = op /\ pc \in BeforeHead
  BY DEF InstallRevision, Step, BeforeHead, BeforePointer
<1>. op.project \in Projects /\ op.rev \in Revs /\ Payload \in Payloads /\ op.rev \notin Payloads /\ ~blocked
  BY Publishes DEF Publishing
<1>1. /\ ledger' = ledger /\ torn' = torn /\ head' = head /\ headSynced' = headSynced
      /\ blocked' = blocked
      /\ place' = place /\ placeSynced' = placeSynced
      /\ pointers' = pointers /\ pointersSynced' = pointersSynced
      /\ objects' = objects \cup {op.rev} /\ objectsSynced' = objectsSynced
  BY DEF InstallRevision, InstallObject, placeVars, headVars, pointerVars,
     objectVars, diskVars, memVars
<1>2. /\ \A p \in Projects : pointersSynced[p] \subseteq pointersSynced'[p]
      /\ objectsSynced \subseteq objectsSynced'
  BY <1>1 DEF IInv, DiskInv, DiskKnown, TInv, TypeOK, DiskTypes
<1>3. /\ HeadDurablyIntact' /\ \A p \in Projects : head'[p] = headSynced'[p]
      /\ op.project \notin torn => Durable(op.project, Line(ledger[op.rev].parent))'
  BY <1>1, <1>2, HeadsKept
<1>4. LedgerOK' /\ DiskKnown' /\ Empty'
  BY <1>1, <1>2 DEF IInv, DiskInv, LedgerOK, DiskKnown, Empty, Revs, Line, TInv,
     TypeOK, DiskTypes, Places
<1>5. RecordsWhole'
  <2>. ASSUME NEW p \in Projects, NEW r \in pointers[p] \cap objects'
       PROVE  r \in objects
    BY <1>1 DEF IInv, StepInv, Publication, BeforePointer
  <2>. QED
    BY <1>1 DEF IInv, DiskInv, RecordsWhole, Files
<1>6. Publication'
  BY <1>1, <1>2, <1>3
  DEF IInv, StepInv, Publication, Payload, BeforeHead, BeforePointer, Settling
<1>7. StepInv'
  BY <1>1, <1>3, <1>6, PublicationStep DEF BeforeHead, BeforePointer
<1>. QED
  BY <1>3, <1>4, <1>5, <1>7 DEF DiskInv

LEMMA SyncRevisionKeeps == ASSUME IInv, SyncRevision PROVE DiskInv' /\ StepInv'
<1>. pc = "sync_revision" /\ pc' = "make_directory" /\ op' = op /\ pc \in BeforeHead
  BY DEF SyncRevision, Step, BeforeHead, BeforePointer
<1>. op.project \in Projects /\ op.rev \in Revs /\ Payload \in Payloads /\ op.rev \notin Payloads /\ ~blocked
  BY Publishes DEF Publishing
<1>1. /\ ledger' = ledger /\ torn' = torn /\ head' = head /\ headSynced' = headSynced
      /\ blocked' = blocked
      /\ place' = place /\ placeSynced' = placeSynced
      /\ pointers' = pointers /\ pointersSynced' = pointersSynced
      /\ objects' = objects /\ objectsSynced' = objects
  BY DEF SyncRevision, SyncObjects, placeVars, headVars, pointerVars, objectVars,
     diskVars, memVars
<1>2. /\ \A p \in Projects : pointersSynced[p] \subseteq pointersSynced'[p]
      /\ objectsSynced \subseteq objectsSynced'
  BY <1>1 DEF IInv, DiskInv, DiskKnown, TInv, TypeOK, DiskTypes
<1>3. /\ HeadDurablyIntact' /\ \A p \in Projects : head'[p] = headSynced'[p]
      /\ op.project \notin torn => Durable(op.project, Line(ledger[op.rev].parent))'
  BY <1>1, <1>2, HeadsKept
<1>4. LedgerOK' /\ DiskKnown' /\ Empty'
  BY <1>1, <1>2 DEF IInv, DiskInv, LedgerOK, DiskKnown, Empty, Revs, Line, TInv,
     TypeOK, DiskTypes, Places
<1>5. RecordsWhole'
  BY <1>1, <1>2 DEF IInv, DiskInv, RecordsWhole, Files
<1>6. Publication'
  BY <1>1, <1>2, <1>3
  DEF IInv, StepInv, Publication, Payload, BeforeHead, BeforePointer, Settling
<1>7. StepInv'
  BY <1>1, <1>3, <1>6, PublicationStep DEF BeforeHead, BeforePointer
<1>. QED
  BY <1>3, <1>4, <1>5, <1>7 DEF DiskInv

LEMMA MakeDirectoryKeeps == ASSUME IInv, MakeDirectory PROVE DiskInv' /\ StepInv'
<1>. pc = "make_directory" /\ pc' = "rename_pointer" /\ op' = op /\ pc \in BeforeHead
  BY DEF MakeDirectory, Step, BeforeHead, BeforePointer
<1>. op.project \in Projects /\ op.rev \in Revs /\ Payload \in Payloads /\ op.rev \notin Payloads /\ ~blocked
  BY Publishes DEF Publishing
<1>1. /\ ledger' = ledger /\ torn' = torn /\ head' = head /\ headSynced' = headSynced
      /\ blocked' = blocked
      /\ place' = [place EXCEPT ![op.project] = "active"]
      /\ placeSynced' = [placeSynced EXCEPT ![op.project] = "active"]
      /\ pointers' = pointers /\ pointersSynced' = pointersSynced
      /\ objects' = objects /\ objectsSynced' = objectsSynced
  BY DEF MakeDirectory, placeVars, headVars, pointerVars, objectVars, diskVars,
     memVars
<1>2. /\ \A p \in Projects : pointersSynced[p] \subseteq pointersSynced'[p]
      /\ objectsSynced \subseteq objectsSynced'
  BY <1>1 DEF IInv, DiskInv, DiskKnown, TInv, TypeOK, DiskTypes
<1>3. /\ HeadDurablyIntact' /\ \A p \in Projects : head'[p] = headSynced'[p]
      /\ op.project \notin torn => Durable(op.project, Line(ledger[op.rev].parent))'
  BY <1>1, <1>2, HeadsKept
<1>4. LedgerOK' /\ DiskKnown' /\ Empty'
  BY <1>1, <1>2 DEF IInv, DiskInv, LedgerOK, DiskKnown, Empty, Revs, Line, TInv,
     TypeOK, DiskTypes, Places
<1>5. RecordsWhole'
  BY <1>1, <1>2 DEF IInv, DiskInv, RecordsWhole, Files
<1>6. Publication'
  BY <1>1, <1>2, <1>3 DEF IInv, StepInv, Publication, Payload, BeforeHead,
     BeforePointer, Settling, TInv, TypeOK, DiskTypes
<1>7. StepInv'
  BY <1>1, <1>3, <1>6, PublicationStep DEF BeforeHead, BeforePointer
<1>. QED
  BY <1>3, <1>4, <1>5, <1>7 DEF DiskInv

LEMMA RenamePointerKeeps == ASSUME IInv, RenamePointer PROVE DiskInv' /\ StepInv'
<1>. pc = "rename_pointer" /\ pc' = "sync_pointer" /\ op' = op /\ pc \in BeforeHead
  BY DEF RenamePointer, Step, BeforeHead, BeforePointer
<1>. op.project \in Projects /\ op.rev \in Revs /\ Payload \in Payloads /\ op.rev \notin Payloads /\ ~blocked
  BY Publishes DEF Publishing
<1>1. /\ ledger' = ledger /\ torn' = torn /\ head' = head /\ headSynced' = headSynced
      /\ blocked' = blocked
      /\ place' = place /\ placeSynced' = placeSynced
      /\ pointers' = [pointers EXCEPT ![op.project] = @ \cup {op.rev}]
      /\ pointersSynced' = pointersSynced
      /\ objects' = objects /\ objectsSynced' = objectsSynced
  BY DEF RenamePointer, placeVars, headVars, pointerVars, objectVars, diskVars,
     memVars
<1>2. /\ \A p \in Projects : pointersSynced[p] \subseteq pointersSynced'[p]
      /\ objectsSynced \subseteq objectsSynced'
  BY <1>1 DEF IInv, DiskInv, DiskKnown, TInv, TypeOK, DiskTypes
<1>3. /\ HeadDurablyIntact' /\ \A p \in Projects : head'[p] = headSynced'[p]
      /\ op.project \notin torn => Durable(op.project, Line(ledger[op.rev].parent))'
  BY <1>1, <1>2, HeadsKept
<1>4. LedgerOK' /\ DiskKnown' /\ Empty'
  BY <1>1, <1>2 DEF IInv, DiskInv, LedgerOK, DiskKnown, Empty, Revs, Line, TInv,
     TypeOK, DiskTypes, Places
<1>5. RecordsWhole'
  <2>1. Files({op.rev}) \subseteq objectsSynced
    BY DEF IInv, StepInv, Publication, Files, Payload
  <2>2. ASSUME NEW p \in Projects, NEW r \in pointers'[p] \cap objects
        PROVE  r = op.rev \/ r \in pointers[p] \cap objects
    BY <1>1 DEF IInv, TInv, TypeOK, DiskTypes
  <2>. QED
    BY <1>1, <2>1, <2>2 DEF IInv, DiskInv, RecordsWhole, Files
<1>6. Publication'
  BY <1>1, <1>2, <1>3 DEF IInv, StepInv, Publication, Payload, BeforeHead,
     BeforePointer, Settling, TInv, TypeOK, DiskTypes
<1>7. StepInv'
  BY <1>1, <1>3, <1>6, PublicationStep DEF BeforeHead, BeforePointer
<1>. QED
  BY <1>3, <1>4, <1>5, <1>7 DEF DiskInv

LEMMA SyncPointerKeeps == ASSUME IInv, SyncPointer PROVE DiskInv' /\ StepInv'
<1>. pc = "sync_pointer" /\ pc' = "rename_head" /\ op' = op /\ pc \in BeforeHead
  BY DEF SyncPointer, Step, BeforeHead, BeforePointer
<1>. op.project \in Projects /\ op.rev \in Revs /\ Payload \in Payloads /\ op.rev \notin Payloads /\ ~blocked
  BY Publishes DEF Publishing
<1>1. /\ ledger' = ledger /\ torn' = torn /\ head' = head /\ headSynced' = headSynced
      /\ blocked' = blocked
      /\ place' = place /\ placeSynced' = placeSynced
      /\ pointers' = pointers
      /\ pointersSynced' = [pointersSynced EXCEPT ![op.project] = pointers[op.project]]
      /\ objects' = objects /\ objectsSynced' = objectsSynced
  BY DEF SyncPointer, placeVars, headVars, pointerVars, objectVars, diskVars,
     memVars
<1>2. /\ \A p \in Projects : pointersSynced[p] \subseteq pointersSynced'[p]
      /\ objectsSynced \subseteq objectsSynced'
  BY <1>1 DEF IInv, DiskInv, DiskKnown, TInv, TypeOK, DiskTypes
<1>3. /\ HeadDurablyIntact' /\ \A p \in Projects : head'[p] = headSynced'[p]
      /\ op.project \notin torn => Durable(op.project, Line(ledger[op.rev].parent))'
  BY <1>1, <1>2, HeadsKept
<1>4. LedgerOK' /\ DiskKnown' /\ Empty'
  BY <1>1, <1>2 DEF IInv, DiskInv, LedgerOK, DiskKnown, Empty, Revs, Line, TInv,
     TypeOK, DiskTypes, Places
<1>5. RecordsWhole'
  BY <1>1, <1>2 DEF IInv, DiskInv, RecordsWhole, Files
<1>6. Publication'
  BY <1>1, <1>2, <1>3 DEF IInv, StepInv, Publication, Payload, BeforeHead,
     BeforePointer, Settling, TInv, TypeOK, DiskTypes
<1>7. StepInv'
  BY <1>1, <1>3, <1>6, PublicationStep DEF BeforeHead, BeforePointer
<1>. QED
  BY <1>3, <1>4, <1>5, <1>7 DEF DiskInv

LEMMA RenameHeadKeeps == ASSUME IInv, RenameHead PROVE DiskInv' /\ StepInv'
<1>. op.project \in Projects /\ op.rev \in Revs /\ ~blocked
  BY Publishes DEF RenameHead, Step, Publishing
<1>1. /\ ledger' = ledger /\ torn' = torn /\ place' = place /\ placeSynced' = placeSynced
      /\ head' = [head EXCEPT ![op.project] = op.rev] /\ headSynced' = headSynced
      /\ pointers' = pointers /\ pointersSynced' = pointersSynced
      /\ objects' = objects /\ objectsSynced' = objectsSynced
      /\ blocked' = blocked /\ pc = "rename_head" /\ pc' = "sync_head" /\ op' = op
  BY DEF RenameHead, Step, placeVars, pointerVars, objectVars, memVars
<1>2. head'[op.project] = op.rev /\ \A q \in Projects \ {op.project} : head'[q] = head[q]
  BY <1>1 DEF IInv, TInv, TypeOK, DiskTypes
<1>3. op.project \notin torn => Durable(op.project, Line(op.rev))
  <2>1. op.project \notin torn => Durable(op.project, Line(ledger[op.rev].parent))
    BY <1>1 DEF IInv, StepInv, Publication, BeforeHead
  <2>2. op.rev \in pointersSynced[op.project] /\ Files({op.rev}) \subseteq objectsSynced
    BY <1>1 DEF IInv, StepInv, Publication, Files, Payload
  <2>3. Line(op.rev) = Line(ledger[op.rev].parent) \cup {op.rev}
    BY LineFacts DEF IInv, TInv, DiskInv, LedgerOK
  <2>. QED
    BY <2>1, <2>2, <2>3 DEF Durable, Files
<1>4. HeadDurablyIntact'
  <2>. SUFFICES ASSUME NEW q \in Projects \ torn
                PROVE  Durable(q, Line(head[q]))' /\ Durable(q, Line(headSynced[q]))'
    BY <1>1 DEF HeadDurablyIntact
  <2>1. Durable(q, Line(head[q])) /\ Durable(q, Line(headSynced[q]))
    BY DEF IInv, DiskInv, HeadDurablyIntact
  <2>2. Durable(q, Line(headSynced[q]))'
    BY <1>1, <2>1 DEF Durable, Line, Files
  <2>3. CASE q = op.project
    <3>1. Line(head[q])' = Line(op.rev)
      BY <1>1, <1>2, <2>3 DEF Line
    <3>. QED
      BY <1>1, <1>3, <2>2, <2>3, <3>1 DEF Durable, Files
  <2>4. CASE q # op.project
    BY <1>1, <1>2, <2>1, <2>2, <2>4 DEF Durable, Line, Files
  <2>. QED
    BY <2>3, <2>4
<1>5. LedgerOK' /\ DiskKnown' /\ Empty' /\ RecordsWhole'
  <2>. place[op.project] # "none"
    BY <1>1 DEF IInv, StepInv, Publication
  <2>. QED
    BY <1>1, <1>2 DEF IInv, DiskInv, LedgerOK, DiskKnown, Empty, RecordsWhole,
       Revs, Line, Files
<1>6. StepInv'
  BY <1>1, <1>2 DEF IInv, StepInv, HeadInDoubt, EntriesFaithful, ScanFaithful,
     Publication, Removal,
     Fresh, Reading, BeforeHead, BeforePointer, Settling
<1>. QED
  BY <1>4, <1>5, <1>6 DEF DiskInv

LEMMA HeadDurableKeeps ==
    ASSUME IInv, SyncHead \/ RetryHead
    PROVE  DiskInv' /\ StepInv'
<1>. pc \in Settling
  BY DEF SyncHead, RetryHead, Step, Settling
<1>. op.project \in Projects /\ op.rev \in Revs /\ ~blocked
  BY Publishes
<1>1. /\ ledger' = ledger /\ torn' = torn /\ place' = place /\ placeSynced' = placeSynced
      /\ head' = head /\ headSynced' = [headSynced EXCEPT ![op.project] = op.rev]
      /\ pointers' = pointers /\ pointersSynced' = pointersSynced
      /\ objects' = objects /\ objectsSynced' = objectsSynced
      /\ blocked' = blocked /\ pc' = "clean" /\ op' = op
  BY DEF SyncHead, RetryHead, HeadDurable, Step, placeVars, pointerVars,
     objectVars, memVars
<1>2. headSynced'[op.project] = op.rev
      /\ \A q \in Projects \ {op.project} : headSynced'[q] = headSynced[q]
  BY <1>1 DEF IInv, TInv, TypeOK, DiskTypes
<1>3. head[op.project] = op.rev /\ place[op.project] # "none"
  BY DEF IInv, StepInv, Publication
<1>4. HeadDurablyIntact'
  <2>. SUFFICES ASSUME NEW q \in Projects \ torn
                PROVE  Durable(q, Line(head[q]))' /\ Durable(q, Line(headSynced[q]))'
    BY <1>1 DEF HeadDurablyIntact
  <2>1. Durable(q, Line(head[q])) /\ Durable(q, Line(headSynced[q]))
    BY DEF IInv, DiskInv, HeadDurablyIntact
  <2>2. headSynced'[q] = head[q] \/ headSynced'[q] = headSynced[q]
    BY <1>2, <1>3
  <2>3. Durable(q, Line(head[q]))'
    BY <1>1, <2>1 DEF Durable, Line, Files
  <2>4. Line(headSynced[q])' = Line(head[q]) \/ Line(headSynced[q])' = Line(headSynced[q])
    BY <1>1, <2>2 DEF Line
  <2>. QED
    BY <1>1, <2>1, <2>3, <2>4 DEF Durable, Files
<1>5. LedgerOK' /\ DiskKnown' /\ Empty' /\ RecordsWhole'
  BY <1>1, <1>2, <1>3
  DEF IInv, DiskInv, LedgerOK, DiskKnown, Empty, RecordsWhole, Revs, Line, Files
<1>6. \A q \in Projects : head'[q] = headSynced'[q]
  <2>. \A q \in Projects \ {op.project} : head[q] = headSynced[q]
    BY DEF IInv, StepInv, HeadInDoubt
  <2>. QED
    BY <1>1, <1>2, <1>3
<1>7. StepInv'
  BY <1>1, <1>6 DEF IInv, StepInv, HeadInDoubt, EntriesFaithful, ScanFaithful,
     Publication, Removal,
     Fresh, Reading, BeforeHead, BeforePointer, Settling
<1>. QED
  BY <1>4, <1>5, <1>7 DEF DiskInv

LEMMA FailSyncHeadKeeps == ASSUME IInv, FailSyncHead PROVE DiskInv' /\ StepInv'
<1>1. DiskInv'
  BY DiskInvKept DEF FailSyncHead, IInv
<1>2. /\ ledger' = ledger /\ torn' = torn /\ head' = head /\ headSynced' = headSynced
      /\ place' = place /\ blocked' = blocked /\ op' = op
      /\ pc = "sync_head" /\ pc' = "retry_head"
  BY DEF FailSyncHead, Step, diskVars, placeVars, headVars, memVars
<1>. QED
  BY <1>1, <1>2 DEF IInv, StepInv, HeadInDoubt, EntriesFaithful, ScanFaithful,
     Publication, Removal,
     Fresh, Reading, BeforeHead, BeforePointer, Settling

LEMMA FailRetryHeadKeeps == ASSUME IInv, FailRetryHead PROVE DiskInv' /\ StepInv'
  BY BlockKeeps DEF FailRetryHead

LEMMA FailReconcileKeeps == ASSUME IInv, FailReconcile PROVE DiskInv' /\ StepInv'
  BY BlockKeeps DEF FailReconcile

LEMMA BlockMutationsKeeps == ASSUME IInv, BlockMutations PROVE DiskInv' /\ StepInv'
  BY BlockKeeps DEF BlockMutations

LEMMA CleanKeeps == ASSUME IInv, Clean PROVE DiskInv' /\ StepInv'
<1>. pc \notin Settling /\ ~blocked
  BY Unblocked DEF Clean, Settling, Publishing
<1>. QED
  BY RefreshKeeps DEF Clean

LEMMA FailPublicationKeeps == ASSUME IInv, FailPublication PROVE DiskInv' /\ StepInv'
<1>. pc \notin Settling /\ ~blocked
  BY Unblocked DEF FailPublication, Settling, Publishing
<1>. QED
  BY RefreshKeeps DEF FailPublication

\* The caller is told of the revision; without older schemas that is the end.
LEMMA AcknowledgeEnds ==
    ASSUME IInv, Older = {}, NEW r \in Revs, pc \in {"verify", "reconcile"}, Acknowledge(r)
    PROVE  pc' \in Fresh
<1>. Current(r)
  BY LedgerTypes DEF Current, IInv, TInv
<1>. QED
  BY DEF Acknowledge, Fresh

LEMMA VerifyKeeps ==
    ASSUME IInv, Older = {}, Verify PROVE DiskInv' /\ StepInv'
<1>. ~blocked /\ pc = "verify" /\ pc \in Fresh /\ pc \notin Settling /\ op.rev \in Revs
  BY Publishes DEF Verify, Fresh, Settling
<1>1. CASE Acknowledge(op.rev)
  <2>1. StepInv'
    BY <1>1, AcknowledgeEnds, SameFaithful, FreshKeeps
    DEF Verify, diskVars, placeVars, headVars, pointerVars, objectVars, memVars
  <2>. QED
    BY <2>1, DiskInvKept DEF Verify, IInv
<1>2. CASE StartRefresh("reconcile")
  BY <1>2, RefreshKeeps DEF Verify
<1>. QED
  BY <1>1, <1>2 DEF Verify

LEMMA ReconcileKeeps ==
    ASSUME IInv, Older = {}, Reconcile PROVE DiskInv' /\ StepInv'
<1>. ~blocked /\ pc = "reconcile" /\ pc \in Fresh /\ pc \notin Settling /\ op.project \in Projects
  BY Publishes DEF Reconcile, Fresh, Settling
<1>1. DiskInv' /\ \A p \in Projects \ torn : Faithful(p, entries[p])'
  BY CollectedKeeps DEF Reconcile, memVars
<1>2. /\ ledger' = ledger /\ entries' = entries /\ blocked' = blocked
      /\ torn' = torn /\ head' = head /\ headSynced' = headSynced
  BY DEF Reconcile, memVars, placeVars, headVars
<1>3. CASE Matches(entries[op.project].rev) /\ Acknowledge(entries[op.project].rev)
  <2>. entries[op.project].rev \in Revs
    BY <1>3 DEF Matches, IInv, TInv, TypeOK, MemoryTypes, Entry, RevOrNone
  <2>. QED
    BY <1>1, <1>2, <1>3, AcknowledgeEnds, FreshKeeps
<1>4. CASE \E then \in {"migrate", "idle"} : StartRefresh(then)
  BY <1>1, <1>2, <1>4, StartRefreshKeeps DEF IInv
<1>5. CASE pc' = "idle"
  <2>. pc' \in Fresh
    BY <1>5 DEF Fresh
  <2>. QED
    BY <1>1, <1>2, FreshKeeps
<1>. QED
  BY <1>3, <1>4, <1>5 DEF Reconcile

-----------------------------------------------------------------------------
(* The Library Trash *)

\* A lifecycle step short of the removal: no Head, file or pointer moves.
LEMMA LifecycleStep ==
    ASSUME IInv, ~blocked, pc \in Fresh \cup Placing \cup {"next"},
           pc' \in (Placing \cup {"next"}) \ {"sync_remove"},
           UNCHANGED <<ledger, head, headSynced, blocked>>
    PROVE  StepInv'
  BY DEF IInv, StepInv, HeadInDoubt, EntriesFaithful, ScanFaithful, Publication,
     Removal,
     Fresh, Reading, BeforeHead, BeforePointer, Settling, Placing

LEMMA BeginKeeps ==
    ASSUME IInv, NEW kind, NEW p, NEW targets, NEW first \in {"mark", "move", "next"},
           Begin(kind, p, targets, first)
    PROVE  DiskInv' /\ StepInv'
<1>1. DiskInv'
  BY DiskInvKept DEF Begin, IInv
<1>2. ~blocked /\ pc \in Fresh /\ pc' \in (Placing \cup {"next"}) \ {"sync_remove"}
  BY DEF Begin, Accepting, Fresh, Placing
<1>3. UNCHANGED <<ledger, head, headSynced, blocked>>
  BY DEF Begin, diskVars, headVars, memVars
<1>. QED
  BY <1>1, <1>2, <1>3, LifecycleStep

LEMMA MarkKeeps == ASSUME IInv, Mark PROVE DiskInv' /\ StepInv'
<1>1. ~blocked /\ pc \in Placing /\ pc' \in (Placing \cup {"next"}) \ {"sync_remove"}
  BY Unblocked DEF Mark, Step, Placing
<1>2. /\ UNCHANGED <<ledger, place, placeSynced, torn, head, headSynced, pointers, pointersSynced>>
      /\ UNCHANGED <<objects, objectsSynced, blocked>>
  BY DEF Mark, headVars, pointerVars, objectVars, memVars
<1>3. DiskInv'
  BY <1>2 DEF IInv, DiskInv, LedgerOK, DiskKnown, Empty, HeadDurablyIntact,
     RecordsWhole, Durable,
     Line, Files, Revs
<1>. QED
  BY <1>1, <1>2, <1>3, LifecycleStep

LEMMA MoveKeeps == ASSUME IInv, Move PROVE DiskInv' /\ StepInv'
<1>1. ~blocked /\ pc \in Placing /\ pc' \in (Placing \cup {"next"}) \ {"sync_remove"}
  BY Unblocked DEF Move, Step, Placing
<1>2. /\ UNCHANGED <<ledger, placeSynced, torn, head, headSynced, pointers, pointersSynced>>
      /\ UNCHANGED <<objects, objectsSynced, blocked>>
  BY DEF Move, headVars, pointerVars, objectVars, memVars
<1>3. \A p \in Projects : place'[p] = "none" <=> place[p] = "none"
  BY DEF Move, IInv, TInv, TypeOK, DiskTypes
<1>4. DiskInv'
  BY <1>2, <1>3 DEF IInv, DiskInv, LedgerOK, DiskKnown, Empty, HeadDurablyIntact,
     RecordsWhole, Durable,
     Line, Files, Revs
<1>. QED
  BY <1>1, <1>2, <1>4, LifecycleStep

LEMMA SyncMoveKeeps == ASSUME IInv, SyncMove PROVE DiskInv' /\ StepInv'
<1>1. ~blocked /\ pc = "sync_move" /\ pc \in Placing /\ pc \notin Settling
  BY Unblocked DEF SyncMove, Placing, Settling
<1>2. /\ UNCHANGED <<ledger, torn, head, headSynced, pointers, pointersSynced>>
      /\ UNCHANGED <<objects, objectsSynced, blocked, place>> /\ placeSynced' = place
  BY DEF SyncMove, headVars, pointerVars, objectVars, memVars
<1>3. DiskInv'
  BY <1>2 DEF IInv, DiskInv, LedgerOK, DiskKnown, Empty, HeadDurablyIntact,
     RecordsWhole, Durable,
     Line, Files, Revs
<1>4. CASE StartRefresh("idle")
  BY <1>1, <1>2, <1>3, <1>4, StartRefreshKeeps DEF IInv
<1>5. CASE pc' = "unmark"
  BY <1>1, <1>2, <1>3, <1>5, LifecycleStep DEF Placing
<1>. QED
  BY <1>4, <1>5 DEF SyncMove

LEMMA UnmarkKeeps == ASSUME IInv, Unmark PROVE DiskInv' /\ StepInv'
<1>1. ~blocked /\ pc \notin Settling
  BY Unblocked DEF Unmark, Settling
<1>2. /\ UNCHANGED <<ledger, torn, head, headSynced, pointers, pointersSynced>>
      /\ UNCHANGED <<objects, objectsSynced, blocked, place, placeSynced>>
  BY DEF Unmark, headVars, pointerVars, objectVars, memVars
<1>3. DiskInv'
  BY <1>2 DEF IInv, DiskInv, LedgerOK, DiskKnown, Empty, HeadDurablyIntact,
     RecordsWhole, Durable,
     Line, Files, Revs
<1>. QED
  BY <1>1, <1>2, <1>3, StartRefreshKeeps DEF Unmark, IInv

LEMMA NextRemovalKeeps == ASSUME IInv, NextRemoval PROVE DiskInv' /\ StepInv'
<1>1. ~blocked /\ pc \notin Settling
  BY Unblocked DEF NextRemoval, Settling
<1>2. CASE StartRefresh("collect")
  BY <1>1, <1>2, RefreshKeeps DEF NextRemoval
<1>3. CASE pc' = "remove"
  <2>1. UNCHANGED <<ledger, head, headSynced, blocked>>
    BY DEF NextRemoval, diskVars, headVars, memVars
  <2>2. StepInv'
    BY <1>1, <1>3, <2>1, LifecycleStep DEF NextRemoval, Placing
  <2>. QED
    BY <2>2, DiskInvKept DEF NextRemoval, IInv
<1>. QED
  BY <1>2, <1>3 DEF NextRemoval

LEMMA RemoveFileKeeps == ASSUME IInv, RemoveFile PROVE DiskInv' /\ StepInv'
<1>. ~blocked /\ op.project \in Projects
  BY Unblocked DEF RemoveFile, Step, IInv, TInv, OpNamed, Placing
<1>1. \A q \in Projects \ {op.project} :
        /\ place'[q] = place[q] /\ head'[q] = head[q] /\ headSynced'[q] = headSynced[q]
        /\ pointers'[q] = pointers[q] /\ pointersSynced'[q] = pointersSynced[q]
  BY DEF RemoveFile, IInv, TInv, TypeOK, DiskTypes, headVars, pointerVars
<1>2. /\ place'[op.project] \in {place[op.project], "none"}
      /\ head'[op.project] \in {head[op.project], NoRev}
      /\ headSynced'[op.project] \in {headSynced[op.project], NoRev}
      /\ place'[op.project] = "none" /\ place[op.project] # "none" => head'[op.project] = NoRev
                                           /\ headSynced'[op.project] = NoRev
      /\ head[op.project] = headSynced[op.project]
      /\ pointersSynced'[op.project] \subseteq pointers'[op.project]
      /\ pointers'[op.project] \subseteq pointers[op.project]
  BY DEF RemoveFile, Step, IInv, StepInv, HeadInDoubt, Settling, DiskInv,
     DiskKnown, TInv, TypeOK, DiskTypes,
     headVars, pointerVars
<1>3. /\ UNCHANGED <<ledger, placeSynced, objects, objectsSynced, blocked, op>>
      /\ torn' = torn \cup {op.project} /\ pc = "remove" /\ pc' = "remove"
  BY DEF RemoveFile, Step, objectVars, memVars
<1>4. DiskInv'
  <2>1. HeadDurablyIntact'
    BY <1>1, <1>3 DEF IInv, DiskInv, HeadDurablyIntact, Durable, Line, Files
  <2>2. Empty'
    BY <1>1, <1>2, <1>3 DEF IInv, DiskInv, Empty
  <2>. QED
    BY <1>1, <1>2, <1>3, <2>1, <2>2
    DEF IInv, DiskInv, LedgerOK, DiskKnown, RecordsWhole, Line, Files, Revs
<1>5. StepInv'
  <2>. head'[op.project] = headSynced'[op.project]
    BY <1>2 DEF RemoveFile, IInv, TInv, TypeOK, DiskTypes, headVars
  <2>. QED
    BY <1>1, <1>3 DEF IInv, StepInv, HeadInDoubt, EntriesFaithful, ScanFaithful,
       Publication, Removal,
       Fresh, Reading, BeforeHead, BeforePointer, Settling
<1>. QED
  BY <1>4, <1>5

LEMMA RemoveDirectoryKeeps == ASSUME IInv, RemoveDirectory PROVE DiskInv' /\ StepInv'
<1>. ~blocked /\ op.project \in Projects
  BY Unblocked DEF RemoveDirectory, Step, IInv, TInv, OpNamed, Placing
<1>1. \A q \in Projects \ {op.project} :
        /\ place'[q] = place[q] /\ head'[q] = head[q] /\ headSynced'[q] = headSynced[q]
        /\ pointers'[q] = pointers[q] /\ pointersSynced'[q] = pointersSynced[q]
  BY DEF RemoveDirectory, IInv, TInv, TypeOK, DiskTypes, headVars, pointerVars
<1>2. /\ place'[op.project] \in {place[op.project], "none"}
      /\ head'[op.project] \in {head[op.project], NoRev}
      /\ headSynced'[op.project] \in {headSynced[op.project], NoRev}
      /\ place'[op.project] = "none" /\ place[op.project] # "none" => head'[op.project] = NoRev
                                           /\ headSynced'[op.project] = NoRev
      /\ head[op.project] = headSynced[op.project]
      /\ pointersSynced'[op.project] \subseteq pointers'[op.project]
      /\ pointers'[op.project] \subseteq pointers[op.project]
  BY DEF RemoveDirectory, Step, IInv, StepInv, HeadInDoubt, Settling, DiskInv,
     DiskKnown, TInv, TypeOK, DiskTypes,
     headVars, pointerVars
<1>3. /\ UNCHANGED <<ledger, placeSynced, objects, objectsSynced, blocked, op>>
      /\ torn' = torn \cup {op.project} /\ pc = "remove" /\ pc' = "sync_remove"
  BY DEF RemoveDirectory, Step, objectVars, memVars
<1>4. DiskInv'
  <2>1. HeadDurablyIntact'
    BY <1>1, <1>3 DEF IInv, DiskInv, HeadDurablyIntact, Durable, Line, Files
  <2>2. Empty'
    BY <1>1, <1>2, <1>3 DEF IInv, DiskInv, Empty
  <2>. QED
    BY <1>1, <1>2, <1>3, <2>1, <2>2
    DEF IInv, DiskInv, LedgerOK, DiskKnown, RecordsWhole, Line, Files, Revs
<1>5. StepInv'
  <2>. head'[op.project] = NoRev /\ headSynced'[op.project] = NoRev
    BY DEF RemoveDirectory, IInv, TInv, TypeOK, DiskTypes
  <2>. QED
    BY <1>1, <1>3 DEF IInv, StepInv, HeadInDoubt, EntriesFaithful, ScanFaithful,
       Publication, Removal,
       Fresh, Reading, BeforeHead, BeforePointer, Settling
<1>. QED
  BY <1>4, <1>5

LEMMA SyncRemoveKeeps == ASSUME IInv, SyncRemove PROVE DiskInv' /\ StepInv'
<1>. ~blocked /\ op.project \in Projects
  BY Unblocked DEF SyncRemove, Step, IInv, TInv, OpNamed, Placing
<1>1. /\ UNCHANGED <<ledger, place, head, headSynced, pointers, pointersSynced, op>>
      /\ UNCHANGED <<objects, objectsSynced, blocked>> /\ placeSynced' = place
      /\ torn' = torn \ {op.project} /\ pc = "sync_remove" /\ pc' = "next"
  BY DEF SyncRemove, Step, headVars, pointerVars, objectVars, memVars
<1>2. head[op.project] = NoRev /\ headSynced[op.project] = NoRev
  BY <1>1 DEF IInv, StepInv, Removal
<1>3. DiskInv'
  BY <1>1, <1>2, LineOfNone
  DEF IInv, DiskInv, LedgerOK, DiskKnown, Empty, HeadDurablyIntact, RecordsWhole,
     Durable, Line, Files, Revs
<1>4. StepInv'
  BY <1>1, LifecycleStep DEF Placing
<1>. QED
  BY <1>3, <1>4

LEMMA FailLifecycleKeeps == ASSUME IInv, FailLifecycle PROVE DiskInv' /\ StepInv'
<1>. pc \notin Settling /\ ~blocked
  BY Unblocked DEF FailLifecycle, Settling
<1>. QED
  BY RefreshKeeps DEF FailLifecycle

LEMMA FailLifecycleSyncKeeps == ASSUME IInv, FailLifecycleSync PROVE DiskInv' /\ StepInv'
<1>. pc \notin Settling /\ ~blocked
  BY Unblocked DEF FailLifecycleSync, Settling
<1>. QED
  BY RefreshKeeps DEF FailLifecycleSync

-----------------------------------------------------------------------------
LEMMA InvariantStep == Older = {} /\ IInv /\ [Next]_vars => IInv'
<1>. SUFFICES ASSUME Older = {}, IInv, [Next]_vars PROVE DiskInv' /\ StepInv'
  BY TypesStep DEF IInv
<1>1. ASSUME Refreshing PROVE DiskInv' /\ StepInv'
  BY <1>1, ScanNothingKeeps, ScanUnpublishedKeeps, ScanSoundKeeps,
     ScanDamagedTrashKeeps, RecoverQuarantineKeeps, RecoverReportKeeps,
     RecoverHeadKeeps, FinishRefreshKeeps
  DEF Refreshing
<1>2. ASSUME Committing PROVE DiskInv' /\ StepInv'
  BY <1>2, StageKeeps, InstallPayloadKeeps, SyncPayloadKeeps, InstallRevisionKeeps,
     SyncRevisionKeeps, MakeDirectoryKeeps, RenamePointerKeeps,
     SyncPointerKeeps, RenameHeadKeeps, FailSyncHeadKeeps, FailRetryHeadKeeps,
     CleanKeeps, VerifyKeeps, ReconcileKeeps,
     HeadDurableKeeps, NoMigration DEF Committing
<1>3. ASSUME Opening PROVE DiskInv' /\ StepInv'
  BY <1>3, ScavengeKeeps, MigrationsDoneKeeps, CollectKeeps, FailMigrationKeeps,
     NoMigration DEF Opening
<1>4. ASSUME Trashing PROVE DiskInv' /\ StepInv'
  BY <1>4, MarkKeeps, MoveKeeps, SyncMoveKeeps, UnmarkKeeps, NextRemovalKeeps,
     RemoveFileKeeps, RemoveDirectoryKeeps, SyncRemoveKeeps,
     BlockMutationsKeeps
  DEF Trashing
<1>5. ASSUME Requests PROVE DiskInv' /\ StepInv'
  <2>1. CASE \E p \in Projects : Trash(p) \/ RestoreTrashed(p) \/ Delete(p)
    BY <2>1, BeginKeeps DEF Trash, RestoreTrashed, Delete
  <2>2. CASE \E T \in SUBSET Projects : EmptyTrash(T)
    BY <2>2, BeginKeeps DEF EmptyTrash
  <2>3. CASE \E p \in Projects, v \in Payloads : Create(p, v) \/ RestoreRevision(p, v)
    BY <2>3, CreateKeeps
  <2>4. CASE \E p \in Projects, v \in Payloads : Change(p, v)
    BY <2>4, ChangeKeeps
  <2>5. CASE \E p \in Projects, r \in Revs : Rollback(p, r)
    BY <2>5, RollbackKeeps
  <2>. QED
    BY <1>5, <2>1, <2>2, <2>3, <2>4, <2>5 DEF Requests
<1>6. ASSUME Errors PROVE DiskInv' /\ StepInv'
  BY <1>6, FailRefreshKeeps, FailPublicationKeeps, FailReconcileKeeps,
     FailCollectKeeps, FailLifecycleKeeps, FailLifecycleSyncKeeps
  DEF Errors
<1>7. ASSUME Faults PROVE DiskInv' /\ StepInv'
  BY <1>7, CrashKeeps, CloseKeeps, RotHeadKeeps, RotObjectKeeps
  DEF Faults
<1>8. CASE UNCHANGED vars
  <2>1. DiskInv'
    BY <1>8, DiskInvKept DEF vars, IInv
  <2>2. StepInv'
    <3>1. UNCHANGED <<ledger, place, head, headSynced, pointers, pointersSynced, objects, objectsSynced, torn,
                      entries, blocked, pc, op, scan>>
      BY <1>8 DEF vars, diskVars, placeVars, headVars, pointerVars, objectVars, memVars
    <3>2. EntriesFaithful'
      BY <3>1 DEF IInv, StepInv, EntriesFaithful, Faithful, Durable, Line, Files
    <3>3. ScanFaithful'
      BY <3>1, ScanKept DEF IInv, StepInv
    <3>4. HeadInDoubt' /\ Removal'
      BY <3>1 DEF IInv, StepInv, HeadInDoubt, Removal
    <3>5. Publication'
      BY <3>1 DEF IInv, StepInv, Publication, Durable, Line, Files, Payload
    <3>. QED
      BY <3>2, <3>3, <3>4, <3>5 DEF StepInv
  <2>. QED
    BY <2>1, <2>2
<1>. QED
  BY <1>1, <1>2, <1>3, <1>4, <1>5, <1>6, <1>7, <1>8, OpenKeeps DEF Next, Progress

LEMMA InvariantInit == Init => IInv
<1>. SUFFICES ASSUME Init PROVE IInv
  OBVIOUS
<1>1. TInv
  BY InitTypes DEF Init, NoOp, TInv, OpNamed, Publishing, Settling, Reading,
     Revising, Placing
<1>2. DiskInv
  BY DEF Init, DiskInv, LedgerOK, DiskKnown, Empty, HeadDurablyIntact,
     RecordsWhole, Durable,
     Line, Files, Revs
<1>3. StepInv
  BY DEF Init, StepInv, HeadInDoubt, EntriesFaithful, ScanFaithful, Publication,
     Removal,
     Fresh, Reading, BeforeHead, BeforePointer, Settling
<1>. QED
  BY <1>1, <1>2, <1>3 DEF IInv

LEMMA InvariantSuffices == IInv => HeadIntact
  BY DEF IInv, DiskInv, HeadDurablyIntact, DiskKnown, Durable, HeadIntact

\* Every step of every mutation, refresh, recovery, removal and crash keeps the
\* inductive invariant, when no payload has an older schema.
THEOREM LibraryInvariant == ASSUME Older = {} PROVE Spec => []IInv
<1>1. IInv /\ [Next]_vars => IInv'
  BY InvariantStep
<1>. QED
  BY <1>1, InvariantInit, PTL DEF Spec

\* When no payload has an older schema, neither a refresh's discarded tails,
\* collectUnreferencedObjects, a failed publication, a crash nor a damaged file
\* ever takes a pointer or an object file from under a Head's history, for any
\* number of Projects, payloads, revisions, crashes and damaged files.
THEOREM HeadsStayIntact == ASSUME Older = {} PROVE Spec => []HeadIntact
  BY LibraryInvariant, InvariantSuffices, PTL
=============================================================================
