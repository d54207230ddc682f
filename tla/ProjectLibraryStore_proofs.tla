--------------------- MODULE ProjectLibraryStore_proofs ---------------------
(***************************************************************************)
(* The Project Library implements ProjectStore and keeps what it has       *)
(* acknowledged, for every value of the constants in which no payload has  *)
(* an older schema and no file loses its content: crashes, failed writes   *)
(* and half-finished removals included.                                    *)
(***************************************************************************)
EXTENDS ProjectLibraryHistory_proofs, SequenceTheorems

-----------------------------------------------------------------------------
(* The inductive invariant, beside IInv and HInv: first what the disk holds  *)

Undamaged == rotten = {} /\ badHead = {}

\* Each revision's line has one revision of each sequence up to its own.
Chain(r) ==
    /\ \A a, b \in Line(r) : ledger[a].seq = ledger[b].seq => a = b
    /\ \A n \in 1..ledger[r].seq : \E q \in Line(r) : ledger[q].seq = n
Chains == \A r \in Revs : Chain(r)

\* A directory lists its Head's line and, at most, the successor left in
\* staging/, which is a first revision only where nothing was recovered.
Successor(p, r) ==
    r = staged /\ ledger[r].parent = head[p] /\ (head[p] = NoRev => p \notin reports)
Listed ==
    \A p \in Projects \ torn : \A r \in pointers[p] : r \in Line(head[p]) \/ Successor(p, r)
StagedWhole ==
    \A p \in Projects \ torn : staged \in pointers[p] => staged \in objects

\* No directory, no trace of a Project; no first revision where one was given up.
Vacant ==
    /\ \A p \in Projects : place[p] = "none" => p \notin reports /\ acked[p] = NoRev
    /\ \A p \in torn : placeSynced[p] # "none"
Firsts ==
    \A p \in Projects :
        /\ staged \in pointers[p] /\ ledger[staged].parent = NoRev => p \notin torn
        /\ Doubtful(p) /\ headSynced[p] = NoRev => p \notin torn \cup reports

\* The Trash record of a Project is there as long as a crash may leave it there.
Recorded ==
    \A p \in Projects \ torn : "trashed" \in {place[p], placeSynced[p]} => p \in markers

Archive == Undamaged /\ Chains /\ Listed /\ StagedWhole /\ Vacant /\ Firsts /\ Recorded /\ AckedSurvives

-----------------------------------------------------------------------------
(* ... then what the step under way has established                          *)

\* A refresh leaves the Head's line only, and shows the Head or nothing.
Neat(p, e) == pointers[p] \subseteq Line(head[p]) /\ e.rev \in {NoRev, head[p]}
Tidy ==
    /\ pc \in Fresh /\ ~blocked => \A p \in Projects \ torn : Neat(p, entries[p])
    /\ pc \in Reading => \A p \in Projects \ (torn \cup scan.todo) : Neat(p, scan.fresh[p])

\* Where no removal has begun there is nothing to recover.
Recovering == pc \in {"recover_report", "recover_head"}
NothingLost ==
    /\ Recovering => scan.project \in torn \/ pointers[scan.project] = {}
    /\ pc = "recover_head" => scan.project \in torn

\* A first revision is published where there was no directory.
FirstUnderway ==
    pc \in BeforeHead /\ ledger[op.rev].parent = NoRev => op.project \notin torn \cup reports

\* Moves between the Library and its Trash, and removals from the Trash only.
Moving ==
    /\ pc = "move" /\ op.kind = "trash" => op.project \in markers
    /\ pc = "sync_move" => place[op.project] = IF op.kind = "trash" THEN "trashed" ELSE "active"
    /\ pc = "unmark" => InPlace(op.project)
Removals == {"next", "remove", "sync_remove"}
Removing ==
    /\ pc \in Removals => \A q \in op.targets : place[q] = "trashed" /\ entries[q].status # "active"
    /\ pc \in {"remove", "sync_remove"} =>
          op.project \notin op.targets /\ entries[op.project].status # "active"
    /\ pc = "remove" => place[op.project] = "trashed"
    /\ pc = "sync_remove" => place[op.project] = "none"
Placed ==
    /\ \A p \in Projects : entries[p].status = "active" => entries[p].location = "active"
    /\ pc \in Reading =>
          \A p \in Projects : scan.fresh[p].status = "active" => scan.fresh[p].location = "active"

SInv == Archive /\ Tidy /\ NothingLost /\ FirstUnderway /\ Moving /\ Removing /\ Placed

-----------------------------------------------------------------------------
(* Steps that leave the disk alone, or only sync and collect its objects     *)

USE DEF NoRev

DiskSame ==
    /\ UNCHANGED <<ledger, place, placeSynced, markers, torn, head, headSynced, badHead, pointers,
                   staged, reports, acked>>
    /\ rotten' \subseteq rotten /\ (objects \subseteq objects' \/ staged = NoRev)

LEMMA NothingRots ==
    ASSUME IInv, MaxRot = 0
    PROVE  (\A p \in Projects : ~RotHead(p)) /\ \A o \in objects : ~RotObject(o)
  BY DEF IInv, TInv, TypeOK, RotHead, RotObject

LEMMA ChainsSame == ASSUME Chains, ledger' = ledger PROVE Chains'
  BY DEF Chains, Chain, Line, Revs

LEMMA ArchiveKept == ASSUME IInv, Archive, DiskSame PROVE Archive'
<1>1. Undamaged' /\ Chains'
  BY ChainsSame DEF Archive, DiskSame, Undamaged
<1>2. Listed' /\ AckedSurvives'
  BY DEF Archive, DiskSame, Listed, Successor, AckedSurvives, Line
<1>3. Vacant' /\ Firsts' /\ Recorded'
  BY DEF Archive, DiskSame, Vacant, Firsts, Recorded, Doubtful
<1>4. StagedWhole'
  <2>. \A p \in Projects : NoRev \notin pointers[p]
    BY HeadTypes DEF IInv, TInv
  <2>. QED
    BY DEF Archive, DiskSame, StagedWhole
<1>. QED
  BY <1>1, <1>2, <1>3, <1>4 DEF Archive

\* A refresh starts.
LEMMA StoreRestarts ==
    ASSUME SInv, Archive', entries' = entries, NEW then, StartRefresh(then)
    PROVE  SInv'
<1>. pc' = "refresh" /\ scan'.todo = Projects /\ scan'.fresh = NoEntries
  BY DEF StartRefresh, NoScan
<1>1. Tidy' /\ NothingLost' /\ FirstUnderway' /\ Moving' /\ Removing'
  BY DEF Tidy, NothingLost, Recovering, FirstUnderway, Moving, Removing, Removals, Fresh, Reading,
     BeforeHead, BeforePointer
<1>2. Placed'
  BY DEF SInv, Placed, NoEntries, NoEntry
<1>. QED
  BY <1>1, <1>2 DEF SInv

\* From one point between two steps to another.
LEMMA StoreSettles ==
    ASSUME SInv, Archive', pc \in Fresh, ~blocked, pc' \in Fresh,
           UNCHANGED <<ledger, torn, pointers, head, entries>>
    PROVE  SInv'
<1>1. Tidy'
  BY DEF SInv, Tidy, Neat, Line, Fresh, Reading
<1>2. NothingLost' /\ FirstUnderway' /\ Moving' /\ Removing' /\ Placed'
  BY DEF SInv, NothingLost, Recovering, FirstUnderway, Moving, Removing, Removals, Placed, Fresh,
     Reading, BeforeHead, BeforePointer
<1>. QED
  BY <1>1, <1>2 DEF SInv

\* A mutation moves on.
LEMMA StoreProceeds ==
    ASSUME SInv, Archive', entries' = entries, pc' \notin Fresh \cup Reading,
           FirstUnderway', Moving', Removing'
    PROVE  SInv'
  BY DEF SInv, Tidy, NothingLost, Recovering, Placed, Fresh, Reading

\* A publication moves on.
LEMMA StorePublishes ==
    ASSUME SInv, Archive', UNCHANGED <<entries, torn, reports, ledger, op>>,
           pc \in BeforeHead \cup Settling, pc' \in BeforeHead \cup Settling \cup {"clean"},
           pc \in BeforeHead \/ pc' \notin BeforeHead
    PROVE  SInv'
<1>1. pc' \notin Fresh \cup Reading \cup Removals \cup {"move", "sync_move", "unmark"}
  BY DEF Fresh, Reading, Removals, BeforeHead, BeforePointer, Settling
<1>2. FirstUnderway' /\ Moving' /\ Removing'
  BY <1>1 DEF SInv, FirstUnderway, Moving, Removing, Removals
<1>. QED
  BY <1>1, <1>2, StoreProceeds

-----------------------------------------------------------------------------
(* Refreshing                                                                *)

LEMMA LineSteps ==
    ASSUME IInv, NEW r \in Revs
    PROVE  /\ ledger[r].parent \in RevOrNone /\ Line(r) = Line(ledger[r].parent) \cup {r}
           /\ Line(r) \subseteq Revs /\ \A q \in Line(r) : ledger[q].seq <= ledger[r].seq
<1>1. Revs = 1..Len(ledger) /\ Len(ledger) \in Nat
  BY LedgerTypes DEF IInv, TInv
<1>2. ledger[r].parent \in RevOrNone
  BY <1>1 DEF IInv, DiskInv, LedgerOK, RevOrNone
<1>3. Line(r) = Line(ledger[r].parent) \cup {r}
  BY LineFacts DEF IInv, TInv, DiskInv, LedgerOK
<1>. QED
  BY <1>2, <1>3, LineFacts DEF IInv, TInv, DiskInv

\* A Head in its place, with its line and its files, reads back as the Head.
LEMMA UntornSound ==
    ASSUME IInv, HInv, SInv, NEW p \in Projects \ torn, head[p] # NoRev
    PROVE  head[p] \in Revs /\ Sound(p)
<1>1. head[p] \in Revs
  BY HeadTypes DEF IInv, TInv, RevOrNone
<1>2. Line(head[p]) \subseteq Revs /\ head[p] \in Line(head[p])
  BY <1>1, LineFacts DEF IInv, TInv, DiskInv
<1>3. Line(head[p]) \subseteq pointers[p] /\ Files(Line(head[p])) \subseteq objects
  BY DEF IInv, DiskInv, HeadDurablyIntact, Durable, DiskKnown
<1>4. \A q \in Line(head[p]) : q \in Readable(p)
  BY <1>3 DEF Readable, Files, SInv, Archive, Undamaged
<1>5. ASSUME NEW q \in Line(head[p]), NEW x \in Readable(p),
             ledger[x].seq = ledger[q].seq, ledger[x].parent = ledger[q].parent
      PROVE  x = q
  <2>1. x \in Line(head[p]) \/ ledger[x].parent = head[p]
    BY <1>5 DEF Readable, SInv, Archive, Listed, Successor
  <2>2. CASE x \in Line(head[p])
    BY <1>1, <1>5, <2>2 DEF SInv, Archive, Chains, Chain
  <2>3. CASE ledger[x].parent = head[p]
    <3>1. q \in Revs /\ ledger[q].seq <= ledger[head[p]].seq
      BY <1>1, <1>2, <1>5, LineSteps
    <3>2. ledger[q].seq = ledger[head[p]].seq + 1
      BY <1>5, <2>3, <3>1 DEF HInv, Traces, Owned, SeqOf
    <3>3. ledger[q].seq \in Nat /\ ledger[head[p]].seq \in Nat
      BY <1>1, <3>1, LedgerTypes DEF IInv, TInv
    <3>. QED
      BY <3>1, <3>2, <3>3
  <2>. QED
    BY <2>1, <2>2, <2>3
<1>6. head[p] \in Verified(p)
  BY <1>2, <1>4, <1>5 DEF Verified
<1>7. place[p] = "trashed" => p \in markers
  BY DEF SInv, Archive, Recorded
<1>. QED
  BY <1>1, <1>6, <1>7 DEF Sound, HeadResolves, SInv, Archive, Undamaged

\* What a directory without a Head lists is a first publication to take back.
LEMMA UntornUnpublished ==
    ASSUME IInv, HInv, SInv, NEW p \in Projects \ torn, head[p] = NoRev, pointers[p] # {}
    PROVE  Unpublished(p)
<1>1. Line(head[p]) = {}
  BY DEF Line
<1>2. pointers[p] = {staged} /\ ledger[staged].parent = NoRev /\ p \notin reports
  BY <1>1 DEF SInv, Archive, Listed, Successor
<1>3. staged \in Revs /\ staged # NoRev
  BY <1>2, HeadTypes DEF IInv, TInv
<1>4. ledger[staged].project = p /\ ledger[staged].seq = 1
  BY <1>2, <1>3 DEF HInv, Traces, Owned, SeqOf
<1>5. place[p] = "active"
  BY <1>2 DEF HInv, Traces, Pending, InPlace
<1>6. Files({staged}) \subseteq objects
  BY <1>2 DEF SInv, Archive, StagedWhole, IInv, DiskInv, RecordsWhole, DiskKnown
<1>7. Readable(p) = {staged}
  BY <1>2, <1>6 DEF Readable, SInv, Archive, Undamaged
<1>8. Line(staged) = {staged}
  BY <1>2, <1>3, LineSteps, LineOfNone
<1>9. staged \in Verified(p)
  BY <1>7, <1>8 DEF Verified
<1>. QED
  BY <1>2, <1>3, <1>4, <1>5, <1>9 DEF Unpublished, StagedKind

\* A refresh goes on to the next Project.
LEMMA StoreScanGoesOn ==
    ASSUME IInv, SInv, Archive', pc \in Reading, pc' = "refresh", UNCHANGED <<entries, ledger>>,
           NEW p \in Projects, NEW e, Scanned(p, e), e.status = "active" => e.location = "active",
           torn' = torn, p \notin torn => Neat(p, e)',
           \A q \in Projects \ {p} : head'[q] = head[q] /\ pointers'[q] = pointers[q]
    PROVE  SInv'
<1>1. /\ scan'.todo = scan.todo \ {p} /\ scan'.fresh = [scan.fresh EXCEPT ![p] = e]
      /\ scan.fresh \in [Projects -> Entry]
  BY DEF Scanned, IInv, TInv, TypeOK, ControlTypes, ScanRecord
<1>2. ASSUME NEW q \in Projects \ (torn \cup scan'.todo) PROVE Neat(q, scan.fresh[q])'
  <2>1. CASE q = p
    BY <1>1, <2>1
  <2>2. CASE q # p
    <3>1. Neat(q, scan.fresh[q]) /\ scan'.fresh[q] = scan.fresh[q]
      BY <1>1, <1>2, <2>2 DEF SInv, Tidy
    <3>. QED
      BY <2>2, <3>1 DEF Neat, Line
  <2>. QED
    BY <2>1, <2>2
<1>3. Tidy'
  BY <1>2 DEF Tidy, Fresh, Reading, Neat
<1>4. Placed'
  BY <1>1 DEF SInv, Placed
<1>5. NothingLost' /\ FirstUnderway' /\ Moving' /\ Removing'
  BY DEF NothingLost, Recovering, FirstUnderway, Moving, Removing, Removals, BeforeHead, BeforePointer
<1>. QED
  BY <1>3, <1>4, <1>5 DEF SInv

LEMMA ScanNothingStore == ASSUME IInv, HInv, SInv, NEW p \in Projects, ScanNothing(p) PROVE SInv'
<1>1. /\ DiskSame /\ UNCHANGED <<entries, ledger>> /\ pc = "refresh" /\ pc' = pc
      /\ place[p] = "none" /\ Scanned(p, NoEntry)
  BY DEF ScanNothing, DiskSame, diskVars, placeVars, headVars, pointerVars, objectVars, memVars
<1>2. Neat(p, NoEntry)'
  BY <1>1 DEF HInv, Traces, Owned, Neat, NoEntry, DiskSame
<1>3. Archive'
  BY <1>1, ArchiveKept DEF SInv
<1>. QED
  BY <1>1, <1>2, <1>3, StoreScanGoesOn DEF NoEntry, DiskSame, Reading

\* Pointers go.
LEMMA PointersGo ==
    ASSUME Archive, \A p \in Projects : pointers'[p] \subseteq pointers[p],
           UNCHANGED <<ledger, place, placeSynced, markers, torn, head, headSynced, badHead,
                       objects, rotten, staged, reports, acked>>
    PROVE  Archive'
<1>1. Undamaged' /\ Chains'
  BY ChainsSame DEF Archive, Undamaged
<1>2. Listed' /\ AckedSurvives' /\ StagedWhole'
  BY DEF Archive, Listed, Successor, AckedSurvives, StagedWhole, Line
<1>3. Vacant' /\ Firsts' /\ Recorded'
  BY DEF Archive, Vacant, Firsts, Recorded, Doubtful
<1>. QED
  BY <1>1, <1>2, <1>3 DEF Archive

LEMMA UnpublishedFacts ==
    ASSUME IInv, HInv, SInv, NEW p \in Projects, Unpublished(p), pc \in Reading
    PROVE  p \notin torn \cup reports /\ head[p] = NoRev /\ headSynced[p] = NoRev /\ acked[p] = NoRev
<1>1. staged \in Verified(p) /\ ledger[staged].seq = 1 /\ head[p] = NoRev /\ p \notin reports
  BY DEF Unpublished, StagedKind
<1>2. staged \in Revs /\ staged \in pointers[p]
  BY <1>1, VerifiedTypes DEF Verified, Readable, IInv, TInv
<1>3. ledger[staged].parent = NoRev
  <2>1. ledger[staged].parent \in RevOrNone /\ SeqOf(ledger[staged].parent) + 1 = 1
    BY <1>1, <1>2, LineSteps DEF HInv, Traces, Owned
  <2>2. SUFFICES ASSUME ledger[staged].parent \in Revs PROVE FALSE
    BY <2>1 DEF RevOrNone
  <2>. QED
    BY <2>1, <2>2, LedgerTypes DEF SeqOf, IInv, TInv
<1>4. p \notin torn
  BY <1>2, <1>3 DEF SInv, Archive, Firsts
<1>5. headSynced[p] = NoRev
  BY <1>1, RefreshFacts
<1>6. acked[p] = NoRev
  BY <1>4, <1>5, LineOfNone DEF SInv, Archive, AckedSurvives
<1>. QED
  BY <1>1, <1>4, <1>5, <1>6

LEMMA ScanUnpublishedStore == ASSUME IInv, HInv, SInv, NEW p \in Projects, ScanUnpublished(p) PROVE SInv'
<1>1. /\ UNCHANGED <<ledger, head, badHead, objects, rotten, staged, reports, entries, acked>>
      /\ pc = "refresh" /\ pc' = pc /\ Scanned(p, NoEntry) /\ Unpublished(p)
      /\ markers' = markers \ {p} /\ torn' = torn \ {p}
  BY DEF ScanUnpublished, objectVars, memVars
<1>2. /\ place'[p] = "none" /\ placeSynced'[p] = "none" /\ pointers'[p] = {} /\ headSynced'[p] = NoRev
      /\ \A q \in Projects \ {p} : /\ place'[q] = place[q] /\ placeSynced'[q] = placeSynced[q]
                                   /\ pointers'[q] = pointers[q] /\ headSynced'[q] = headSynced[q]
  BY DEF ScanUnpublished, IInv, TInv, TypeOK, DiskTypes
<1>3. /\ p \notin torn \cup reports /\ head[p] = NoRev /\ acked[p] = NoRev
      /\ torn' = torn /\ \A q \in Projects : headSynced'[q] = headSynced[q]
  BY <1>1, <1>2, UnpublishedFacts DEF Reading
<1>4. Undamaged' /\ Chains' /\ Listed' /\ AckedSurvives' /\ StagedWhole'
  <2>1. Undamaged' /\ Chains'
    BY <1>1, ChainsSame DEF SInv, Archive, Undamaged
  <2>2. Listed' /\ StagedWhole'
    BY <1>1, <1>2, <1>3 DEF SInv, Archive, Listed, Successor, StagedWhole, Line
  <2>3. AckedSurvives'
    BY <1>1, <1>3 DEF SInv, Archive, AckedSurvives, Line
  <2>. QED
    BY <2>1, <2>2, <2>3
<1>5. Vacant' /\ Firsts' /\ Recorded'
  <2>1. \A q \in Projects : place'[q] = "none" => q \notin reports' /\ acked'[q] = NoRev
    <3>. SUFFICES ASSUME NEW q \in Projects, place'[q] = "none" PROVE q \notin reports /\ acked[q] = NoRev
      BY <1>1
    <3>1. CASE q = p
      BY <1>3, <3>1
    <3>2. CASE q # p
      BY <1>2, <3>2 DEF SInv, Archive, Vacant
    <3>. QED
      BY <3>1, <3>2
  <2>2. \A q \in torn' : placeSynced'[q] # "none"
    BY <1>2, <1>3 DEF SInv, Archive, Vacant, IInv, TInv, TypeOK, DiskTypes
  <2>3. Firsts'
    BY <1>1, <1>2, <1>3 DEF SInv, Archive, Firsts, Doubtful
  <2>4. Recorded'
    BY <1>1, <1>2, <1>3 DEF SInv, Archive, Recorded
  <2>. QED
    BY <2>1, <2>2, <2>3, <2>4 DEF Vacant
<1>6. Neat(p, NoEntry)'
  BY <1>2 DEF Neat, NoEntry
<1>7. Archive'
  BY <1>4, <1>5 DEF Archive
<1>. QED
  BY <1>1, <1>2, <1>3, <1>6, <1>7, StoreScanGoesOn DEF NoEntry, Reading

LEMMA ScanSoundStore == ASSUME IInv, HInv, SInv, NEW p \in Projects, ScanSound(p) PROVE SInv'
<1>. DEFINE n == ledger[head[p]].seq
            kept == UpTo(pointers[p], n)
<1>. PICK e : e = [status |-> place[p], location |-> place[p], rev |-> head[p],
                   history |-> UpTo(Verified(p), n), dated |-> place[p] = "trashed"]
  OBVIOUS
<1>1. /\ UNCHANGED <<ledger, place, placeSynced, markers, torn, head, headSynced, badHead,
                     objects, rotten, staged, reports, acked, entries>>
      /\ pointers' = [pointers EXCEPT ![p] = kept]
      /\ pc = "refresh" /\ pc' = pc /\ Scanned(p, e)
  BY DEF ScanSound, placeVars, headVars, objectVars, memVars
<1>2. pointers'[p] = kept /\ \A q \in Projects \ {p} : pointers'[q] = pointers[q]
  BY <1>1 DEF IInv, TInv, TypeOK, DiskTypes
<1>3. \A q \in Projects : pointers'[q] \subseteq pointers[q]
  BY <1>2, UpToPart
<1>4. Archive'
  BY <1>1, <1>3, PointersGo DEF SInv
<1>5. p \notin torn => Neat(p, e)'
  <2>. SUFFICES ASSUME p \notin torn, NEW r \in kept PROVE r \in Line(head[p])
    BY <1>1, <1>2 DEF Neat, Line
  <2>1. r \in pointers[p] /\ r \in Revs /\ ledger[r].seq <= n /\ head[p] \in Revs /\ head[p] # NoRev
    BY VerifiedTypes, HeadTypes DEF UpTo, ScanSound, Sound, HeadResolves, IInv, TInv
  <2>2. SUFFICES ASSUME ledger[r].parent = head[p] PROVE FALSE
    BY <2>1 DEF SInv, Archive, Listed, Successor
  <2>3. ledger[r].seq = n + 1
    BY <2>1, <2>2 DEF HInv, Traces, Owned, SeqOf
  <2>. QED
    BY <2>1, <2>3, LedgerTypes DEF IInv, TInv
<1>. QED
  BY <1>1, <1>2, <1>4, <1>5, StoreScanGoesOn DEF Reading

\* Where a Project not given up does not read back, nothing is listed.
LEMMA NothingThere ==
    ASSUME IInv, HInv, SInv, NEW p \in Projects \ torn, ~Sound(p), ~Unpublished(p)
    PROVE  head[p] = NoRev /\ pointers[p] = {}
  BY UntornSound, UntornUnpublished

LEMMA NothingVerified ==
    ASSUME NEW p \in Projects, pointers[p] = {}
    PROVE  Verified(p) = {} /\ Newest(Verified(p)) = NoRev /\ \A n : UpTo(Verified(p), n) = {}
  BY DEF Verified, Readable, Newest, UpTo

LEMMA ScanDamagedTrashStore == ASSUME IInv, HInv, SInv, NEW p \in Projects, ScanDamagedTrash(p) PROVE SInv'
<1>. PICK e : e = [status |-> "damaged", location |-> "trashed",
                   rev |-> Newest(Verified(p)), history |-> Verified(p),
                   dated |-> p \in markers]
  OBVIOUS
<1>1. /\ DiskSame /\ UNCHANGED <<entries, ledger>> /\ pc = "refresh" /\ pc' = pc
      /\ place[p] = "trashed" /\ ~Sound(p) /\ Scanned(p, e)
  BY DEF ScanDamagedTrash, DiskSame, diskVars, placeVars, headVars, pointerVars, objectVars, memVars
<1>2. p \notin torn => Neat(p, e)'
  <2>. SUFFICES ASSUME p \notin torn PROVE Neat(p, e)'
    OBVIOUS
  <2>1. ~Unpublished(p)
    BY <1>1 DEF Unpublished
  <2>2. pointers[p] = {} /\ e.rev = NoRev
    BY <1>1, <2>1, NothingThere, NothingVerified
  <2>. QED
    BY <1>1, <2>2 DEF Neat, DiskSame
<1>3. Archive'
  BY <1>1, ArchiveKept DEF SInv
<1>. QED
  BY <1>1, <1>2, <1>3, StoreScanGoesOn DEF DiskSame, Reading

\* A recovery moves the Head of a Project given up only.
LEMMA TornHeads ==
    ASSUME Archive, \A p \in Projects \ torn : head'[p] = head[p] /\ headSynced'[p] = headSynced[p],
           \A p \in Projects : head'[p] = headSynced'[p], badHead' \subseteq badHead,
           UNCHANGED <<ledger, place, placeSynced, markers, torn, pointers, objects, rotten, staged,
                       reports, acked>>
    PROVE  Archive'
<1>1. Undamaged' /\ Chains'
  BY ChainsSame DEF Archive, Undamaged
<1>2. Listed' /\ AckedSurvives' /\ StagedWhole'
  BY DEF Archive, Listed, Successor, AckedSurvives, StagedWhole, Line
<1>3. Vacant' /\ Firsts' /\ Recorded'
  BY DEF Archive, Vacant, Firsts, Recorded, Doubtful
<1>. QED
  BY <1>1, <1>2, <1>3 DEF Archive

LEMMA RecoverQuarantineStore == ASSUME IInv, HInv, SInv, NEW p \in Projects, RecoverQuarantine(p) PROVE SInv'
<1>1. /\ UNCHANGED <<ledger, place, placeSynced, markers, torn, pointers, objects, rotten, staged,
                     reports, acked, entries>>
      /\ head' = [head EXCEPT ![p] = NoRev] /\ headSynced' = [headSynced EXCEPT ![p] = NoRev]
      /\ badHead' \subseteq badHead /\ pc = "refresh" /\ pc' = "recover_report"
      /\ ~Unpublished(p) /\ ~Sound(p)
  BY DEF RecoverQuarantine, placeVars, pointerVars, objectVars, memVars
<1>2. scan'.todo = scan.todo /\ scan'.fresh = scan.fresh /\ scan'.project = p
  BY DEF RecoverQuarantine, IInv, TInv, TypeOK, ControlTypes, ScanRecord
<1>3. p \notin torn => head[p] = NoRev /\ pointers[p] = {}
  BY <1>1, NothingThere
<1>4. \A q \in Projects : head[q] = headSynced[q]
  BY <1>1, RefreshFacts DEF Reading
<1>5. /\ \A q \in Projects \ torn : head'[q] = head[q] /\ headSynced'[q] = headSynced[q]
      /\ \A q \in Projects : head'[q] = headSynced'[q]
  BY <1>1, <1>3, <1>4 DEF IInv, TInv, TypeOK, DiskTypes
<1>6. Archive'
  BY <1>1, <1>5, TornHeads DEF SInv
<1>7. Tidy'
  BY <1>1, <1>2, <1>5 DEF SInv, Tidy, Neat, Line, Fresh, Reading
<1>8. NothingLost' /\ FirstUnderway' /\ Moving' /\ Removing' /\ Placed'
  BY <1>1, <1>2, <1>3 DEF SInv, NothingLost, Recovering, FirstUnderway, Moving, Removing, Removals, Placed,
     Reading, BeforeHead, BeforePointer
<1>. QED
  BY <1>6, <1>7, <1>8 DEF SInv

LEMMA RecoverReportStore == ASSUME IInv, HInv, SInv, NEW p \in Projects, RecoverReport(p) PROVE SInv'
<1>. DEFINE kept == IF scan.limit > 0 THEN UpTo(pointers[p], scan.limit) ELSE pointers[p]
            found == UpTo(Verified(p), scan.limit)
<1>. PICK lost : lost = [NoEntry EXCEPT !.status = "damaged", !.location = "active"]
  OBVIOUS
<1>. PICK e : e = [status |-> "active", location |-> "active", rev |-> Newest(found),
                   history |-> found, dated |-> FALSE]
  OBVIOUS
<1>1. /\ UNCHANGED <<ledger, place, placeSynced, markers, torn, head, headSynced, badHead, objects, rotten,
                     staged, acked, entries>>
      /\ pointers' = [pointers EXCEPT ![p] = kept] /\ reports' = reports \cup {p}
      /\ pc = "recover_report" /\ p = scan.project
  BY DEF RecoverReport, placeVars, headVars, objectVars, memVars
<1>2. pointers'[p] = kept /\ kept \subseteq pointers[p]
      /\ \A q \in Projects \ {p} : pointers'[q] = pointers[q]
  BY <1>1, UpToPart DEF IInv, TInv, TypeOK, DiskTypes
<1>3. p \in torn \/ (pointers[p] = {} /\ found = {})
  BY <1>1, NothingVerified DEF SInv, NothingLost, Recovering
<1>4. /\ place[p] = "active" /\ \A q \in Projects : ~Doubtful(q)
  BY <1>1, RefreshFacts DEF HInv, Recovered, Reading
<1>5. Archive'
  <2>1. Undamaged' /\ Chains'
    BY <1>1, ChainsSame DEF SInv, Archive, Undamaged
  <2>2. Listed' /\ AckedSurvives' /\ StagedWhole'
    BY <1>1, <1>2, <1>3 DEF SInv, Archive, Listed, Successor, AckedSurvives, StagedWhole, Line
  <2>3. Vacant' /\ Firsts' /\ Recorded'
    BY <1>1, <1>2, <1>4 DEF SInv, Archive, Vacant, Firsts, Recorded, Doubtful
  <2>. QED
    BY <2>1, <2>2, <2>3 DEF Archive
<1>6. CASE found = {}
  <2>1. pc' = "refresh" /\ Scanned(p, lost)
    BY <1>6 DEF RecoverReport
  <2>2. p \notin torn => Neat(p, lost)'
    BY <1>2, <1>3 DEF Neat, NoEntry
  <2>. QED
    BY <1>1, <1>2, <1>5, <2>1, <2>2, StoreScanGoesOn DEF NoEntry, Reading
<1>7. CASE found # {}
  <2>1. pc' = "recover_head" /\ scan' = [scan EXCEPT !.fresh[p] = e]
    BY <1>7 DEF RecoverReport
  <2>2. scan'.todo = scan.todo /\ scan'.project = p /\ scan'.fresh = [scan.fresh EXCEPT ![p] = e]
        /\ scan.fresh \in [Projects -> Entry] /\ scan'.fresh[p] = e
    BY <1>1, <2>1 DEF IInv, TInv, TypeOK, ControlTypes, ScanRecord
  <2>3. p \in torn
    BY <1>3, <1>7
  <2>4. Tidy'
    BY <1>1, <1>2, <2>1, <2>2, <2>3 DEF SInv, Tidy, Neat, Line, Fresh, Reading
  <2>5. Placed'
    BY <1>1, <2>2 DEF SInv, Placed, Reading
  <2>6. NothingLost' /\ FirstUnderway' /\ Moving' /\ Removing'
    BY <1>1, <2>1, <2>2, <2>3 DEF NothingLost, Recovering, FirstUnderway, Moving, Removing, Removals,
       BeforeHead, BeforePointer
  <2>. QED
    BY <1>5, <2>4, <2>5, <2>6 DEF SInv
<1>. QED
  BY <1>6, <1>7

LEMMA RecoverHeadStore == ASSUME IInv, HInv, SInv, NEW p \in Projects, RecoverHead(p) PROVE SInv'
<1>. PICK e : e = scan.fresh[p]
  OBVIOUS
<1>1. /\ UNCHANGED <<ledger, place, placeSynced, markers, torn, pointers, badHead, objects, rotten,
                     staged, reports, acked, entries>>
      /\ head' = [head EXCEPT ![p] = e.rev] /\ headSynced' = [headSynced EXCEPT ![p] = e.rev]
      /\ pc = "recover_head" /\ pc' = "refresh" /\ p = scan.project /\ Scanned(p, e)
  BY DEF RecoverHead, placeVars, pointerVars, objectVars, memVars
<1>2. p \in torn /\ \A q \in Projects : head[q] = headSynced[q]
  BY <1>1, RefreshFacts DEF SInv, NothingLost, Reading
<1>3. /\ \A q \in Projects \ {p} : head'[q] = head[q] /\ headSynced'[q] = headSynced[q]
      /\ \A q \in Projects : head'[q] = headSynced'[q]
  BY <1>1, <1>2 DEF IInv, TInv, TypeOK, DiskTypes
<1>4. Archive'
  BY <1>1, <1>2, <1>3, TornHeads DEF SInv
<1>5. e.status = "active" => e.location = "active"
  BY <1>1 DEF SInv, Placed, Reading
<1>. QED
  BY <1>1, <1>2, <1>3, <1>4, <1>5, StoreScanGoesOn DEF Reading

LEMMA FinishRefreshStore == ASSUME IInv, HInv, SInv, FinishRefresh PROVE SInv'
<1>1. /\ DiskSame /\ entries' = scan.fresh /\ scan.todo = {} /\ pc = "refresh" /\ pc' \in Fresh
  BY DEF FinishRefresh, DiskSame, diskVars, placeVars, headVars, pointerVars, objectVars, IInv, TInv,
     OpNamed, Reading
<1>2. Archive'
  BY <1>1, ArchiveKept DEF SInv
<1>3. Tidy'
  BY <1>1 DEF SInv, Tidy, Neat, Line, DiskSame, Fresh, Reading
<1>4. NothingLost' /\ FirstUnderway' /\ Moving' /\ Removing' /\ Placed'
  BY <1>1 DEF SInv, NothingLost, Recovering, FirstUnderway, Moving, Removing, Removals, Placed,
     Fresh, Reading, BeforeHead, BeforePointer
<1>. QED
  BY <1>2, <1>3, <1>4 DEF SInv

-----------------------------------------------------------------------------
(* Losing the process and errors                                             *)

\* A rename undone by a crash leaves the Head in doubt in staging/.
LEMMA ShutdownUndoes ==
    ASSUME IInv, HInv, Shutdown, NEW p \in Projects, head'[p] # head[p]
    PROVE  /\ Doubtful(p) /\ staged = NoRev /\ staged' = head[p]
           /\ head'[p] = headSynced[p] /\ ledger[head[p]].parent = head'[p]
<1>. DEFINE moved(q) == head'[q] # head[q]
<1>1. \A q \in Projects : head'[q] \in {head[q], headSynced[q]}
  <2>1. PICK settled : head' = Settled(head, headSynced, settled)
    BY DEF Shutdown
  <2>. QED
    BY <2>1 DEF Settled
<1>2. PICK c \in Projects : moved(c) /\ staged' = head[c]
  <2>1. moved(p)
    OBVIOUS
  <2>2. moved(CHOOSE q \in Projects : moved(q)) /\ (CHOOSE q \in Projects : moved(q)) \in Projects
    BY <2>1
  <2>3. staged' = head[CHOOSE q \in Projects : moved(q)]
    BY <2>1 DEF Shutdown
  <2>. QED
    BY <2>2, <2>3
<1>3. Doubtful(c) /\ Doubtful(p) /\ head'[p] = headSynced[p]
  BY <1>1, <1>2 DEF Doubtful
<1>. QED
  BY <1>2, <1>3 DEF HInv, Traces, Doubt

LEMMA ShutdownStore == ASSUME IInv, HInv, SInv, Shutdown PROVE SInv'
<1>1. /\ ledger' = ledger /\ entries' = NoEntries /\ pc' = "down" /\ placeSynced' = place'
      /\ headSynced' = head' /\ UNCHANGED <<markers, reports, acked>>
      /\ rotten' \subseteq rotten /\ badHead' \subseteq badHead
      /\ torn' = {p \in torn : place'[p] # "none"}
  BY DEF Shutdown
<1>2. \A p \in Projects : /\ place'[p] \in {place[p], placeSynced[p]}
                          /\ head'[p] \in {head[p], headSynced[p]}
                          /\ pointers'[p] \subseteq pointers[p]
  <2>1. PICK kept : place' = Settled(place, placeSynced, kept)
    BY DEF Shutdown
  <2>2. PICK settled : head' = Settled(head, headSynced, settled)
    BY DEF Shutdown
  <2>3. PICK saved : pointers' = Settled(pointers, pointersSynced, saved)
    BY DEF Shutdown
  <2>. QED
    BY <2>1, <2>2, <2>3 DEF Settled, IInv, DiskInv, DiskKnown
<1>3. objectsSynced \subseteq objects'
  BY DEF Shutdown
<1>4. \A p \in Projects : place'[p] = "none" =>
         place[p] = "none" /\ pointers'[p] = {} /\ p \notin reports /\ acked[p] = NoRev
  BY <1>2 DEF IInv, DiskInv, Empty, HInv, Traces, Owned, SInv, Archive, Vacant
<1>5. \A p \in Projects : p \in torn \ torn' => place'[p] = "none"
  BY <1>1
<1>6. \A p \in Projects : NoRev \notin pointers[p]
  BY HeadTypes DEF IInv, TInv
<1>7. \A p \in Projects : staged' \in pointers'[p] =>
         \/ staged' = staged /\ staged \in pointers[p]
         \/ Doubtful(p) /\ staged' = head[p] /\ ledger[staged'].parent = headSynced[p]
  <2>. SUFFICES ASSUME NEW p \in Projects, staged' \in pointers[p], staged' # staged
                PROVE  Doubtful(p) /\ staged' = head[p] /\ ledger[staged'].parent = headSynced[p]
    BY <1>2
  <2>1. PICK c \in Projects : Doubtful(c) /\ staged' = head[c]
    BY ShutdownStages
  <2>2. ledger[staged'].project = p /\ ledger[head[c]].project = c
    BY <1>6, <2>1 DEF HInv, Traces, Owned
  <2>. QED
    BY <2>1, <2>2 DEF HInv, Traces, Doubt
<1>8. Undamaged' /\ Chains'
  BY <1>1, ChainsSame DEF SInv, Archive, Undamaged
<1>9. Listed'
  <2>. SUFFICES ASSUME NEW p \in Projects \ torn', NEW r \in pointers'[p]
                PROVE  r \in Line(head'[p]) \/ Successor(p, r)'
    BY <1>1 DEF Listed, Line
  <2>1. p \notin torn /\ r \in pointers[p] /\ r # NoRev
    BY <1>2, <1>4, <1>5, <1>6
  <2>2. r \in Line(head[p]) \/ Successor(p, r)
    BY <2>1 DEF SInv, Archive, Listed
  <2>3. CASE head'[p] = head[p]
    <3>1. Successor(p, r) => staged' = staged
      BY <2>1, ShutdownStages DEF Successor, HInv, Traces, Doubt
    <3>. QED
      BY <1>1, <2>2, <2>3, <3>1 DEF Successor
  <2>4. CASE head'[p] # head[p]
    <3>1. /\ Doubtful(p) /\ staged = NoRev /\ staged' = head[p] /\ head'[p] = headSynced[p]
          /\ ledger[head[p]].parent = head'[p] /\ head[p] \in Revs
      BY <2>4, ShutdownUndoes, HeadTypes DEF IInv, TInv, HInv, Traces, Doubt, RevOrNone
    <3>2. r \in Line(head'[p]) \cup {head[p]}
      BY <2>1, <2>2, <3>1, LineSteps DEF Successor
    <3>3. head'[p] = NoRev => p \notin reports
      BY <3>1 DEF SInv, Archive, Firsts
    <3>. QED
      BY <1>1, <3>1, <3>2, <3>3 DEF Successor
  <2>. QED
    BY <2>3, <2>4
<1>10. StagedWhole'
  <2>. SUFFICES ASSUME NEW p \in Projects \ torn', staged' \in pointers'[p] PROVE staged' \in objects'
    BY DEF StagedWhole
  <2>1. p \notin torn
    BY <1>4, <1>5
  <2>2. CASE staged' = staged /\ staged \in pointers[p]
    <3>1. Files({staged}) \subseteq objectsSynced
      BY <2>1, <2>2 DEF SInv, Archive, StagedWhole, IInv, DiskInv, RecordsWhole
    <3>. QED
      BY <1>3, <2>2, <3>1 DEF Files
  <2>3. CASE Doubtful(p) /\ staged' = head[p]
    <3>1. head[p] \in Revs
      BY <2>3, HeadTypes DEF HInv, Traces, Doubt, IInv, TInv, RevOrNone
    <3>2. head[p] \in Line(head[p])
      BY <3>1, LineFacts DEF IInv, TInv, DiskInv
    <3>. QED
      BY <1>3, <2>1, <2>3, <3>2 DEF IInv, DiskInv, HeadDurablyIntact, Durable, Files
  <2>. QED
    BY <1>7, <2>2, <2>3
<1>11. Vacant'
  BY <1>1, <1>4 DEF Vacant
<1>12. Firsts'
  <2>. SUFFICES ASSUME NEW p \in Projects, staged' \in pointers'[p], ledger[staged'].parent = NoRev
                PROVE  p \notin torn
    BY <1>1 DEF Firsts, Doubtful
  <2>. QED
    BY <1>7 DEF SInv, Archive, Firsts
<1>13. Recorded'
  BY <1>1, <1>2, <1>5 DEF SInv, Archive, Recorded
<1>14. AckedSurvives'
  <2>. SUFFICES ASSUME NEW p \in Projects \ torn', acked[p] # NoRev PROVE acked[p] \in Line(head'[p])
    BY <1>1 DEF AckedSurvives, Line
  <2>1. p \notin torn
    BY <1>4, <1>5
  <2>2. acked[p] \in Line(headSynced[p])
    BY <2>1 DEF SInv, Archive, AckedSurvives
  <2>3. CASE Doubtful(p)
    <3>1. head[p] \in Revs /\ ledger[head[p]].parent = headSynced[p]
      BY <2>3, HeadTypes DEF HInv, Traces, Doubt, IInv, TInv, RevOrNone
    <3>. QED
      BY <1>2, <2>2, <3>1, LineSteps
  <2>4. CASE ~Doubtful(p)
    BY <1>2, <2>2, <2>4 DEF Doubtful
  <2>. QED
    BY <2>3, <2>4
<1>15. Tidy' /\ NothingLost' /\ FirstUnderway' /\ Moving' /\ Removing' /\ Placed'
  BY <1>1 DEF Tidy, NothingLost, Recovering, FirstUnderway, Moving, Removing, Removals, Placed, NoEntries,
     NoEntry, Fresh, Reading, BeforeHead, BeforePointer
<1>. QED
  BY <1>8, <1>9, <1>10, <1>11, <1>12, <1>13, <1>14, <1>15 DEF SInv, Archive

\* The whole disk is as it was.
LEMMA DiskUntouched == UNCHANGED <<ledger, diskVars, acked>> => DiskSame
  BY DEF DiskSame, diskVars, placeVars, headVars, pointerVars, objectVars

LEMMA BlockStore == ASSUME IInv, HInv, SInv, Block PROVE SInv'
<1>1. CASE Shutdown
  BY <1>1, ShutdownStore
<1>2. CASE blocked' = TRUE /\ pc' = "idle" /\ UNCHANGED <<ledger, diskVars, entries, acked>>
  <2>1. Archive'
    BY <1>2, DiskUntouched, ArchiveKept DEF SInv
  <2>2. Tidy' /\ NothingLost' /\ FirstUnderway' /\ Moving' /\ Removing' /\ Placed'
    BY <1>2 DEF SInv, Tidy, NothingLost, Recovering, FirstUnderway, Moving, Removing, Removals, Placed,
       Fresh, Reading, BeforeHead, BeforePointer
  <2>. QED
    BY <2>1, <2>2 DEF SInv
<1>. QED
  BY <1>1, <1>2 DEF Block

LEMMA CrashStore == ASSUME IInv, HInv, SInv, Crash \/ Close PROVE SInv'
  BY ShutdownStore DEF Crash, Close

\* A refresh that starts with the disk as it was.
LEMMA StoreRestartsStill ==
    ASSUME IInv, SInv, NEW then, StartRefresh(then), UNCHANGED <<ledger, diskVars, memVars, acked>>
    PROVE  SInv'
<1>1. Archive'
  BY DiskUntouched, ArchiveKept DEF SInv
<1>. QED
  BY <1>1, StoreRestarts DEF memVars

LEMMA FailRefreshStore == ASSUME IInv, HInv, SInv, Older = {}, FailRefresh PROVE SInv'
<1>1. CASE Block
  BY <1>1, BlockStore
<1>2. CASE /\ \E then \in {"reconcile", "abort"} : StartRefresh(then)
           /\ UNCHANGED <<ledger, diskVars, memVars, acked>>
  BY <1>2, StoreRestartsStill
<1>3. CASE op.kind = "upgrade"
  BY <1>3 DEF IInv, TInv, OpNamed
<1>. QED
  BY <1>1, <1>2, <1>3 DEF FailRefresh

-----------------------------------------------------------------------------
(* Opening                                                                   *)

LEMMA OpenStore == ASSUME IInv, SInv, Open PROVE SInv'
  BY StoreRestartsStill DEF Open

\* Nothing refers to the HEAD.json in staging/ where every directory lists its
\* Head's line only; without it, no object but those of the lines is needed.
LEMMA StagingEmptied ==
    ASSUME IInv, HInv, SInv, pc \in Fresh, ~blocked, staged' = NoRev, rotten' \subseteq rotten,
           UNCHANGED <<ledger, place, placeSynced, markers, torn, head, headSynced, badHead, pointers,
                       reports>>,
           \A p \in Projects : acked'[p] # acked[p] =>
              place[p] # "none" /\ (p \notin torn => acked'[p] \in Line(headSynced[p]))
    PROVE  Archive'
<1>1. Undamaged' /\ Chains'
  BY ChainsSame DEF SInv, Archive, Undamaged
<1>2. \A p \in Projects : NoRev \notin pointers[p]
  BY HeadTypes DEF IInv, TInv
<1>3. Listed'
  BY DEF SInv, Tidy, Neat, Listed, Line
<1>4. StagedWhole'
  BY <1>2 DEF StagedWhole
<1>5. Vacant'
  BY DEF SInv, Archive, Vacant
<1>6. Recorded' /\ AckedSurvives'
  BY DEF SInv, Archive, Recorded, AckedSurvives, Line
<1>7. Firsts'
  BY <1>2 DEF SInv, Archive, Firsts, Doubtful
<1>. QED
  BY <1>1, <1>3, <1>4, <1>5, <1>6, <1>7 DEF Archive

LEMMA ScavengeStore == ASSUME IInv, HInv, SInv, Scavenge PROVE SInv'
<1>1. pc \in Fresh /\ pc' \in Fresh /\ ~blocked
  BY Unblocked DEF Scavenge, Fresh
<1>2. /\ staged' = NoRev /\ rotten' = rotten
      /\ UNCHANGED <<ledger, place, placeSynced, markers, torn, head, headSynced, badHead, pointers,
                     reports, acked, entries>>
  BY DEF Scavenge, placeVars, headVars, pointerVars, objectVars, memVars
<1>. QED
  BY <1>1, <1>2, StagingEmptied, StoreSettles

LEMMA MigrationsDoneStore == ASSUME IInv, SInv, MigrationsDone PROVE SInv'
<1>1. pc \in Fresh /\ pc' \in Fresh /\ ~blocked /\ UNCHANGED <<ledger, diskVars, memVars, acked>>
  BY Unblocked DEF MigrationsDone, Fresh
<1>2. Archive'
  BY <1>1, DiskUntouched, ArchiveKept DEF SInv
<1>. QED
  BY <1>1, <1>2, StoreSettles DEF diskVars, placeVars, headVars, pointerVars, memVars

LEMMA CollectStore == ASSUME IInv, HInv, SInv, Collect PROVE SInv'
<1>1. pc \in Fresh /\ pc' \in Fresh /\ ~blocked
  BY Unblocked DEF Collect, Fresh
<1>2. staged = NoRev
  BY <1>1, NothingStaged DEF Collect, Reading, Staging, BeforeHead, BeforePointer
<1>3. /\ rotten' \subseteq rotten
      /\ UNCHANGED <<ledger, place, placeSynced, markers, torn, head, headSynced, badHead, pointers,
                     staged, reports, acked, entries>>
  BY DEF Collect, placeVars, headVars, pointerVars, memVars
<1>4. Archive'
  BY <1>2, <1>3, ArchiveKept DEF SInv, DiskSame
<1>. QED
  BY <1>1, <1>3, <1>4, StoreSettles

LEMMA FailMigrationStore == ASSUME IInv, SInv, NEW r \in Revs, FailMigration(r) PROVE SInv'
  BY StoreRestartsStill DEF FailMigration

LEMMA FailCollectStore == ASSUME IInv, HInv, SInv, FailCollect PROVE SInv'
  BY BlockStore, StoreRestartsStill DEF FailCollect

-----------------------------------------------------------------------------
(* Publishing one revision                                                   *)

\* A line keeps its chain while its revisions keep their sequences.
LEMMA ChainKept ==
    ASSUME NEW r, Chain(r), Line(r)' = Line(r), ledger'[r].seq = ledger[r].seq,
           \A q \in Line(r) : ledger'[q].seq = ledger[q].seq
    PROVE  Chain(r)'
<1>1. \A a, b \in Line(r) : ledger'[a].seq = ledger'[b].seq => a = b
  BY DEF Chain
<1>2. \A m \in 1..ledger[r].seq : \E q \in Line(r) : ledger'[q].seq = m
  BY DEF Chain
<1>. QED
  BY <1>1, <1>2 DEF Chain

\* A revision issued is one link more at the end of its parent's line.
LEMMA ChainGrows ==
    ASSUME NEW n, NEW k \in Nat, NEW R, Line(n)' = R \cup {n}, ledger'[n].seq = k + 1,
           \A q \in R : ledger[q].seq \in Nat /\ ledger[q].seq <= k /\ ledger'[q].seq = ledger[q].seq,
           \A a, b \in R : ledger[a].seq = ledger[b].seq => a = b,
           \A m \in 1..k : \E q \in R : ledger[q].seq = m
    PROVE  Chain(n)'
<1>1. \A q \in R : ledger'[q].seq # ledger'[n].seq
  OBVIOUS
<1>2. \A a, b \in R : ledger'[a].seq = ledger'[b].seq => a = b
  OBVIOUS
<1>3. \A a, b \in R \cup {n} : ledger'[a].seq = ledger'[b].seq => a = b
  BY <1>1, <1>2
<1>4. \A m \in 1..(k + 1) : \E q \in R \cup {n} : ledger'[q].seq = m
  <2>. SUFFICES ASSUME NEW m \in 1..(k + 1) PROVE \E q \in R \cup {n} : ledger'[q].seq = m
    OBVIOUS
  <2>1. CASE m \in 1..k
    <3>1. PICK q \in R : ledger[q].seq = m
      BY <2>1
    <3>. QED
      BY <3>1
  <2>2. CASE m = k + 1
    BY <2>2
  <2>. QED
    BY <2>1, <2>2
<1>. QED
  BY <1>3, <1>4 DEF Chain

LEMMA ChainsGrow ==
    ASSUME IInv, HInv, Chains, NEW p \in Projects, NEW parent \in RevOrNone, NEW v,
           ledger' = Append(ledger, [project |-> p, parent |-> parent, seq |-> SeqOf(parent) + 1,
                                     payload |-> v, line |-> Line(parent) \cup {Len(ledger) + 1}])
    PROVE  Chains' /\ \A r \in RevOrNone : Line(r)' = Line(r)
<1>. PICK n : n = Len(ledger) + 1
  OBVIOUS
<1>1. Revs = 1..Len(ledger) /\ Len(ledger) \in Nat /\ ledger \in Seq(Revision)
  BY DEF IInv, TInv, TypeOK, Revs
<1>2. Revs' = Revs \cup {n} /\ n \notin Revs /\ n # NoRev /\ NoRev \notin Revs
  BY <1>1 DEF Revs
<1>3. /\ ledger'[n].line = Line(parent) \cup {n} /\ ledger'[n].seq = SeqOf(parent) + 1
      /\ \A r \in Revs : ledger'[r] = ledger[r]
  BY <1>1
<1>4. \A r \in RevOrNone : Line(r)' = Line(r) /\ Line(r) \subseteq Revs
  BY <1>2, <1>3, LineSteps, LineOfNone DEF Line, RevOrNone
<1>5. ASSUME NEW r \in Revs PROVE Chain(r)'
  <2>1. Chain(r) /\ Line(r)' = Line(r) /\ Line(r) \subseteq Revs
    BY <1>4 DEF Chains, RevOrNone
  <2>2. ledger'[r].seq = ledger[r].seq /\ \A q \in Line(r) : ledger'[q].seq = ledger[q].seq
    BY <1>3, <2>1
  <2>. QED
    BY <2>1, <2>2, ChainKept
<1>6. Chain(n)'
  <2>1. Line(n)' = Line(parent) \cup {n} /\ Line(parent) \subseteq Revs
    BY <1>2, <1>3, <1>4 DEF Line
  <2>2. SeqOf(parent) \in Nat /\ \A q \in Line(parent) : ledger[q].seq \in Nat /\ ledger[q].seq <= SeqOf(parent)
    BY <1>2, <2>1, LineSteps, LineOfNone, LedgerTypes DEF SeqOf, RevOrNone, IInv, TInv
  <2>3. /\ \A a, b \in Line(parent) : ledger[a].seq = ledger[b].seq => a = b
        /\ \A m \in 1..SeqOf(parent) : \E q \in Line(parent) : ledger[q].seq = m
    BY LineOfNone DEF Chains, Chain, SeqOf, RevOrNone
  <2>4. \A q \in Line(parent) : ledger'[q].seq = ledger[q].seq
    BY <1>3, <2>1
  <2>. QED
    BY <1>3, <2>1, <2>2, <2>3, <2>4, ChainGrows
<1>. QED
  BY <1>2, <1>4, <1>5, <1>6 DEF Chains

LEMMA IssueStore ==
    ASSUME IInv, HInv, SInv, Accepting, NEW kind, NEW p \in Projects, NEW parent \in RevOrNone,
           NEW v, Issue(kind, p, parent, v), parent = NoRev => p \notin torn \cup reports
    PROVE  SInv'
<1>. DEFINE n == Len(ledger) + 1
<1>1. Revs = 1..Len(ledger) /\ Len(ledger) \in Nat /\ ledger \in Seq(Revision)
  BY DEF IInv, TInv, TypeOK, Revs
<1>2. /\ ledger' = Append(ledger, [project |-> p, parent |-> parent, seq |-> SeqOf(parent) + 1,
                                   payload |-> v, line |-> Line(parent) \cup {n}])
      /\ UNCHANGED <<diskVars, entries, acked>> /\ pc' = "stage"
  BY DEF Issue, memVars
<1>3. op'.project = p /\ op'.rev = n /\ ledger'[n].parent = parent
  BY <1>1, <1>2 DEF Issue, IInv, TInv, TypeOK, ControlTypes, OpRecord
<1>4. Chains' /\ \A r \in RevOrNone : Line(r)' = Line(r)
  BY <1>2, ChainsGrow DEF SInv, Archive
<1>5. /\ staged = NoRev /\ NoRev \notin Revs
      /\ \A q \in Projects : /\ head[q] \in RevOrNone /\ headSynced[q] \in RevOrNone /\ ~Doubtful(q)
                             /\ NoRev \notin pointers[q]
  BY IdleFacts, HeadTypes DEF Doubtful, IInv, TInv
<1>6. UNCHANGED <<place, placeSynced, markers, torn, head, headSynced, badHead, pointers, objects,
                  rotten, staged, reports, acked, entries>>
  BY <1>2 DEF diskVars, placeVars, headVars, pointerVars, objectVars
<1>7. Listed'
  <2>. SUFFICES ASSUME NEW q \in Projects \ torn, NEW r \in pointers[q], NEW h \in RevOrNone, h = head[q]
                PROVE  r \in Line(h)'
    BY <1>5, <1>6 DEF Listed, Line
  <2>1. r \in Line(h)
    BY <1>5 DEF SInv, Archive, Listed, Successor
  <2>. QED
    BY <1>4, <2>1
<1>8. AckedSurvives'
  <2>. SUFFICES ASSUME NEW q \in Projects \ torn, acked[q] # NoRev, NEW h \in RevOrNone, h = headSynced[q]
                PROVE  acked[q] \in Line(h)'
    BY <1>5, <1>6 DEF AckedSurvives, Line
  <2>1. acked[q] \in Line(h)
    BY DEF SInv, Archive, AckedSurvives
  <2>. QED
    BY <1>4, <2>1
<1>9. Undamaged' /\ StagedWhole' /\ Vacant' /\ Firsts' /\ Recorded'
  BY <1>5, <1>6 DEF SInv, Archive, Undamaged, StagedWhole, Vacant, Firsts, Recorded, Doubtful
<1>10. Archive'
  BY <1>4, <1>7, <1>8, <1>9 DEF Archive
<1>11. FirstUnderway' /\ Moving' /\ Removing'
  BY <1>2, <1>3, <1>6 DEF FirstUnderway, Moving, Removing, Removals
<1>. QED
  BY <1>2, <1>6, <1>10, <1>11, StoreProceeds DEF Fresh, Reading

LEMMA CreateStore ==
    ASSUME IInv, HInv, SInv, NEW p \in Projects, NEW v, Create(p, v) \/ RestoreRevision(p, v)
    PROVE  SInv'
<1>1. Accepting /\ entries[p].status = "none" /\ NoRev \in RevOrNone
  BY DEF Create, RestoreRevision, RevOrNone
<1>2. place[p] = "none" /\ placeSynced[p] = "none"
  BY <1>1, IdleFacts DEF Accurate
<1>3. p \notin torn \cup reports
  BY <1>2 DEF SInv, Archive, Vacant
<1>. QED
  BY <1>1, <1>3, IssueStore DEF Create, RestoreRevision

LEMMA ChangeStore ==
    ASSUME IInv, HInv, SInv, NEW p \in Projects,
           (\E v \in Payloads : Change(p, v)) \/ \E r \in Revs : Rollback(p, r)
    PROVE  SInv'
<1>1. Accepting /\ Writable(p)
  BY DEF Change, Rollback
<1>2. entries[p].rev \in RevOrNone \ {NoRev}
  BY <1>1, IdleFacts, HeadTypes DEF Writable, Accurate, IInv, TInv
<1>. QED
  BY <1>1, <1>2, IssueStore DEF Change, Rollback

LEMMA StageStore == ASSUME IInv, HInv, SInv, Stage PROVE SInv'
<1>1. op.project \in Projects /\ op.rev \in Revs /\ ~blocked
  BY Publishes DEF Stage, Step, Publishing
<1>2. /\ UNCHANGED <<ledger, place, placeSynced, markers, torn, head, headSynced, badHead, pointers,
                     objects, rotten, reports, acked, entries, op>>
      /\ staged' = op.rev /\ pc = "stage" /\ pc' = "install_payload"
  BY DEF Stage, Step, placeVars, headVars, pointerVars, objectVars, memVars
<1>3. staged = NoRev /\ \A p \in Projects : NoRev \notin pointers[p]
  BY <1>1, <1>2, NothingStaged, HeadTypes
  DEF Reading, Staging, BeforeHead, BeforePointer, IInv, TInv
<1>4. \A p \in Projects : op.rev \notin pointers[p]
  BY <1>2 DEF IInv, StepInv, Publication, BeforePointer
<1>5. Undamaged' /\ Chains' /\ AckedSurvives'
  BY <1>2, ChainsSame DEF SInv, Archive, Undamaged, AckedSurvives, Line
<1>6. Listed'
  BY <1>2, <1>3 DEF SInv, Archive, Listed, Successor, Line
<1>7. StagedWhole' /\ Vacant' /\ Firsts' /\ Recorded'
  BY <1>2, <1>4 DEF SInv, Archive, StagedWhole, Vacant, Firsts, Recorded, Doubtful
<1>. QED
  BY <1>2, <1>5, <1>6, <1>7, StorePublishes DEF Archive, BeforeHead, BeforePointer

\* Objects are written and synced, or a sync is tried.
LEMMA InstallStore ==
    ASSUME IInv, SInv, InstallPayload \/ SyncPayload \/ InstallRevision \/ SyncRevision
                       \/ SyncPointer \/ FailSyncHead
    PROVE  SInv'
<1>1. DiskSame /\ UNCHANGED <<entries, op>>
  BY DEF InstallPayload, SyncPayload, InstallRevision, SyncRevision, SyncPointer, FailSyncHead, Step,
     InstallObject, SyncObjects, DiskSame, diskVars, placeVars, headVars, pointerVars, objectVars, memVars
<1>2. /\ pc \in BeforeHead \cup Settling /\ pc' \in BeforeHead \cup Settling
      /\ pc \in BeforeHead \/ pc' \notin BeforeHead
  BY DEF InstallPayload, SyncPayload, InstallRevision, SyncRevision, SyncPointer, FailSyncHead, Step,
     BeforeHead, BeforePointer, Settling
<1>3. Archive'
  BY <1>1, ArchiveKept DEF SInv
<1>. QED
  BY <1>1, <1>2, <1>3, StorePublishes DEF DiskSame

LEMMA MakeDirectoryStore == ASSUME IInv, HInv, SInv, MakeDirectory PROVE SInv'
<1>1. op.project \in Projects
  BY Publishes DEF MakeDirectory, Step, Publishing
<1>2. /\ UNCHANGED <<ledger, markers, torn, head, headSynced, badHead, pointers, objects, rotten, staged,
                     reports, acked, entries, op>>
      /\ pc = "make_directory" /\ pc' = "rename_pointer"
  BY DEF MakeDirectory, Step, headVars, pointerVars, objectVars, memVars
<1>3. /\ place'[op.project] = "active" /\ placeSynced'[op.project] = "active"
      /\ \A q \in Projects \ {op.project} : place'[q] = place[q] /\ placeSynced'[q] = placeSynced[q]
  BY <1>1 DEF MakeDirectory, IInv, TInv, TypeOK, DiskTypes
<1>4. Undamaged' /\ Chains' /\ Listed' /\ StagedWhole' /\ AckedSurvives'
  BY <1>2, ChainsSame DEF SInv, Archive, Undamaged, Listed, Successor, StagedWhole, AckedSurvives, Line
<1>5. Vacant'
  BY <1>2, <1>3 DEF SInv, Archive, Vacant, IInv, TInv, TypeOK, DiskTypes
<1>6. Firsts' /\ Recorded'
  BY <1>2, <1>3 DEF SInv, Archive, Firsts, Recorded, Doubtful
<1>. QED
  BY <1>2, <1>4, <1>5, <1>6, StorePublishes DEF Archive, BeforeHead, BeforePointer

LEMMA RenamePointerStore == ASSUME IInv, HInv, SInv, RenamePointer PROVE SInv'
<1>1. op.project \in Projects /\ op.rev \in Revs
  BY Publishes DEF RenamePointer, Step, Publishing
<1>2. /\ UNCHANGED <<ledger, place, placeSynced, markers, torn, head, headSynced, badHead, objects,
                     rotten, staged, reports, acked, entries, op>>
      /\ pc = "rename_pointer" /\ pc' = "sync_pointer"
  BY DEF RenamePointer, Step, placeVars, headVars, objectVars, memVars
<1>3. /\ pointers'[op.project] = pointers[op.project] \cup {op.rev}
      /\ \A q \in Projects \ {op.project} : pointers'[q] = pointers[q]
  BY <1>1 DEF RenamePointer, IInv, TInv, TypeOK, DiskTypes
<1>4. staged = op.rev /\ ledger[op.rev].parent = head[op.project]
  BY <1>2 DEF HInv, Underway, BeforeHead, BeforePointer, Staging
<1>5. op.rev \in objects
  BY <1>2 DEF IInv, StepInv, Publication, DiskInv, DiskKnown
<1>6. ledger[op.rev].parent = NoRev => op.project \notin torn \cup reports
  BY <1>2 DEF SInv, FirstUnderway, BeforeHead, BeforePointer
<1>7. Undamaged' /\ Chains' /\ AckedSurvives'
  BY <1>2, ChainsSame DEF SInv, Archive, Undamaged, AckedSurvives, Line
<1>8. Listed'
  BY <1>1, <1>2, <1>3, <1>4, <1>6 DEF SInv, Archive, Listed, Successor, Line
<1>9. StagedWhole' /\ Vacant' /\ Recorded'
  BY <1>2, <1>4, <1>5 DEF SInv, Archive, StagedWhole, Vacant, Recorded
<1>10. Firsts'
  BY <1>2, <1>3, <1>4, <1>6 DEF SInv, Archive, Firsts, Doubtful
<1>. QED
  BY <1>2, <1>7, <1>8, <1>9, <1>10, StorePublishes DEF Archive, BeforeHead, BeforePointer

LEMMA RenameHeadStore == ASSUME IInv, HInv, SInv, RenameHead PROVE SInv'
<1>1. op.project \in Projects /\ op.rev \in Revs /\ ~blocked
  BY Publishes DEF RenameHead, Step, Publishing
<1>2. /\ UNCHANGED <<ledger, place, placeSynced, markers, torn, headSynced, pointers, objects,
                     rotten, reports, acked, entries, op>>
      /\ staged' = NoRev /\ badHead' \subseteq badHead /\ pc = "rename_head" /\ pc' = "sync_head"
  BY DEF RenameHead, Step, placeVars, pointerVars, objectVars, memVars
<1>3. head'[op.project] = op.rev /\ \A q \in Projects \ {op.project} : head'[q] = head[q]
  BY <1>1 DEF RenameHead, IInv, TInv, TypeOK, DiskTypes
<1>4. /\ staged = op.rev /\ ledger[op.rev].parent = head[op.project]
      /\ ledger[op.rev].project = op.project
  BY <1>2 DEF HInv, Underway, BeforeHead, BeforePointer, Staging
<1>5. ledger[op.rev].parent = NoRev => op.project \notin torn \cup reports
  BY <1>2 DEF SInv, FirstUnderway, BeforeHead, BeforePointer
<1>6. \A q \in Projects : head[q] = headSynced[q] /\ NoRev \notin pointers[q]
  BY <1>1, <1>2, HeadTypes DEF IInv, TInv, StepInv, HeadInDoubt, Settling
<1>7. Undamaged' /\ Chains' /\ AckedSurvives'
  BY <1>2, ChainsSame DEF SInv, Archive, Undamaged, AckedSurvives, Line
<1>8. Listed'
  <2>. SUFFICES ASSUME NEW q \in Projects \ torn, NEW r \in pointers[q] PROVE r \in Line(head'[q])
    BY <1>2 DEF Listed, Line
  <2>1. r \in Line(head[q]) \/ r = op.rev
    BY <1>4 DEF SInv, Archive, Listed, Successor
  <2>2. CASE q = op.project
    BY <1>1, <1>3, <1>4, <2>1, <2>2, LineSteps
  <2>3. CASE q # op.project
    BY <1>3, <1>4, <2>1, <2>3 DEF HInv, Traces, Owned
  <2>. QED
    BY <2>2, <2>3
<1>9. StagedWhole' /\ Vacant' /\ Recorded'
  BY <1>2, <1>6 DEF SInv, Archive, StagedWhole, Vacant, Recorded
<1>10. Firsts'
  BY <1>2, <1>3, <1>4, <1>5, <1>6 DEF Firsts, Doubtful
<1>. QED
  BY <1>2, <1>7, <1>8, <1>9, <1>10, StorePublishes DEF Archive, BeforeHead, BeforePointer, Settling

LEMMA HeadDurableStore == ASSUME IInv, HInv, SInv, SyncHead \/ RetryHead PROVE SInv'
<1>1. pc \in Settling /\ pc' = "clean" /\ op' = op /\ HeadDurable /\ badHead' \subseteq badHead
  BY DEF SyncHead, RetryHead, Step, Settling
<1>2. op.project \in Projects /\ op.rev \in Revs /\ head[op.project] = op.rev
  BY <1>1, Publishes DEF IInv, StepInv, Publication
<1>3. /\ UNCHANGED <<ledger, place, placeSynced, markers, torn, head, pointers, objects,
                     rotten, staged, reports, acked, entries>>
      /\ headSynced' = [headSynced EXCEPT ![op.project] = op.rev]
  BY <1>1 DEF HeadDurable, placeVars, pointerVars, objectVars, memVars
<1>4. headSynced'[op.project] = op.rev /\ \A q \in Projects \ {op.project} : headSynced'[q] = headSynced[q]
  BY <1>2, <1>3 DEF IInv, TInv, TypeOK, DiskTypes
<1>5. Undamaged' /\ Chains'
  BY <1>1, <1>3, ChainsSame DEF SInv, Archive, Undamaged
<1>6. AckedSurvives'
  <2>1. Line(headSynced[op.project]) \subseteq Line(op.rev)
    BY <1>2, LineSteps DEF HInv, Traces, Doubt, Doubtful
  <2>. QED
    BY <1>3, <1>4, <2>1 DEF SInv, Archive, AckedSurvives, Line
<1>7. Listed' /\ StagedWhole' /\ Vacant' /\ Recorded'
  BY <1>3 DEF SInv, Archive, Listed, Successor, Line, StagedWhole, Vacant, Recorded
<1>8. Firsts'
  BY <1>2, <1>3, <1>4 DEF SInv, Archive, Firsts, Doubtful
<1>. QED
  BY <1>1, <1>3, <1>5, <1>6, <1>7, <1>8, StorePublishes DEF Archive, BeforeHead, BeforePointer

LEMMA FailRetryHeadStore == ASSUME IInv, HInv, SInv, FailRetryHead \/ FailReconcile \/ BlockMutations PROVE SInv'
  BY BlockStore DEF FailRetryHead, FailReconcile, BlockMutations

LEMMA CleanStore == ASSUME IInv, SInv, Clean \/ FailPublication PROVE SInv'
  BY StoreRestartsStill DEF Clean, FailPublication

\* What is acknowledged is the Head of its directory, and durable.
LEMMA AcknowledgedFacts ==
    ASSUME IInv, HInv, SInv, NEW r \in Revs, pc \in {"verify", "reconcile"},
           entries[op.project].rev = r, Acknowledge(r)
    PROVE  \A p \in Projects : acked'[p] # acked[p] =>
              place[p] # "none" /\ (p \notin torn => acked'[p] \in Line(headSynced[p]))
<1>1. op.project \in Projects /\ ~blocked /\ pc \in Fresh
  BY Publishes DEF Fresh
<1>2. acked'[op.project] = r /\ \A q \in Projects \ {op.project} : acked'[q] = acked[q]
  BY <1>1 DEF Acknowledge, IInv, TInv, TypeOK
<1>3. r # NoRev /\ r \in Line(r)
  BY HeadTypes, <1>1, LineFacts DEF IInv, TInv, DiskInv
<1>4. op.project \notin torn => head[op.project] = r /\ headSynced[op.project] = r
  BY <1>1, <1>3 DEF SInv, Tidy, Neat, IInv, StepInv, HeadInDoubt, Settling
<1>5. op.project \in torn => place[op.project] # "none"
  BY <1>1, PlacesSettled DEF SInv, Archive, Vacant, Reading
<1>6. place[op.project] # "none"
  BY <1>1, <1>3, <1>4, <1>5 DEF IInv, DiskInv, Empty
<1>. QED
  BY <1>2, <1>3, <1>4, <1>6

LEMMA VerifyStore == ASSUME IInv, HInv, SInv, Older = {}, Verify PROVE SInv'
<1>1. ~blocked /\ op.rev \in Revs /\ pc = "verify" /\ UNCHANGED <<ledger, diskVars, memVars>>
  BY Publishes DEF Verify
<1>2. staged = NoRev
  BY <1>1, NothingStaged DEF Reading, Staging, BeforeHead, BeforePointer
<1>3. CASE entries[op.project].rev = op.rev /\ Acknowledge(op.rev)
  <2>1. pc' \in Fresh
    BY <1>1, <1>3, AcknowledgeEnds
  <2>2. Archive'
    BY <1>1, <1>2, <1>3, AcknowledgedFacts, StagingEmptied
    DEF Fresh, diskVars, placeVars, headVars, pointerVars, objectVars
  <2>. QED
    BY <1>1, <2>1, <2>2, StoreSettles DEF Fresh, diskVars, placeVars, headVars, pointerVars, memVars
<1>4. CASE StartRefresh("reconcile") /\ UNCHANGED acked
  BY <1>1, <1>4, StoreRestartsStill
<1>. QED
  BY <1>3, <1>4 DEF Verify

LEMMA ReconcileStore == ASSUME IInv, HInv, SInv, Older = {}, Reconcile PROVE SInv'
<1>1. ~blocked /\ pc = "reconcile" /\ op.project \in Projects
  BY Publishes DEF Reconcile
<1>2. /\ staged' = NoRev /\ rotten' \subseteq rotten
      /\ UNCHANGED <<ledger, place, placeSynced, markers, torn, head, headSynced, badHead, pointers,
                     reports, entries>>
  BY DEF Reconcile, placeVars, headVars, pointerVars, memVars
<1>3. CASE Matches(entries[op.project].rev) /\ Acknowledge(entries[op.project].rev)
  <2>1. entries[op.project].rev \in Revs
    BY <1>1, <1>3 DEF Matches, IInv, TInv, TypeOK, MemoryTypes, Entry, RevOrNone
  <2>2. pc' \in Fresh
    BY <1>1, <1>3, <2>1, AcknowledgeEnds
  <2>3. Archive'
    BY <1>1, <1>2, <1>3, <2>1, AcknowledgedFacts, StagingEmptied DEF Fresh
  <2>. QED
    BY <1>1, <1>2, <2>2, <2>3, StoreSettles DEF Fresh
<1>4. CASE acked' = acked
  <2>1. Archive'
    BY <1>1, <1>2, <1>4, StagingEmptied DEF Fresh
  <2>2. (\E then \in {"migrate", "idle"} : StartRefresh(then)) => SInv'
    BY <1>2, <2>1, StoreRestarts
  <2>3. pc' = "idle" => SInv'
    BY <1>1, <1>2, <2>1, StoreSettles DEF Fresh
  <2>. QED
    <3>1. Matches(entries[op.project].rev) => Acknowledge(entries[op.project].rev)
      BY DEF Reconcile
    <3>. QED
      BY <1>3, <2>2, <2>3, <3>1 DEF Reconcile
<1>. QED
  BY <1>3, <1>4 DEF Reconcile

-----------------------------------------------------------------------------
(* The Library Trash                                                         *)

LEMMA BeginStore ==
    ASSUME IInv, HInv, SInv, NEW kind, NEW p, NEW targets \in SUBSET Projects,
           NEW first \in {"mark", "move", "next"}, Begin(kind, p, targets, first),
           kind = "trash" => first = "mark",
           \A q \in targets : entries[q].location = "trashed"
    PROVE  SInv'
<1>1. /\ Accepting /\ UNCHANGED <<ledger, diskVars, memVars, acked>> /\ pc' = first
      /\ op'.kind = kind /\ op'.targets = targets
  BY DEF Begin, NoOp
<1>2. \A q \in targets : place[q] = "trashed" /\ entries[q].status # "active"
  BY <1>1, IdleFacts DEF Accurate, SInv, Placed
<1>3. Archive'
  BY <1>1, DiskUntouched, ArchiveKept DEF SInv
<1>4. FirstUnderway' /\ Moving' /\ Removing'
  BY <1>1, <1>2 DEF FirstUnderway, Moving, Removing, Removals, BeforeHead, BeforePointer, diskVars,
     placeVars, memVars
<1>. QED
  BY <1>1, <1>3, <1>4, StoreProceeds DEF memVars, Fresh, Reading

\* The Trash's steps leave the ledger, the objects and what readers see.
TrashStep ==
    /\ UNCHANGED <<ledger, objects, rotten, staged, entries>> /\ badHead' \subseteq badHead
    /\ pc \in Placing

\* What holds where nothing is staged and no Head is in doubt.
LEMMA TrashArchive ==
    ASSUME IInv, HInv, SInv, TrashStep, \A p \in Projects : head'[p] = headSynced'[p],
           \A p \in Projects : pointers'[p] \subseteq pointers[p],
           Vacant', Recorded',
           \A p \in Projects \ torn' :
              \/ p \notin torn /\ UNCHANGED <<head[p], headSynced[p], acked[p]>>
              \/ pointers'[p] = {} /\ acked'[p] = NoRev
    PROVE  Archive'
<1>1. Undamaged' /\ Chains'
  BY ChainsSame DEF SInv, Archive, Undamaged, TrashStep
<1>2. staged' = NoRev /\ \A p \in Projects : NoRev \notin pointers'[p]
  BY TrashFacts DEF TrashStep
<1>3. Listed'
  <2>. SUFFICES ASSUME NEW p \in Projects \ torn', NEW r \in pointers'[p] PROVE r \in Line(head'[p])
    BY DEF Listed, Line, TrashStep
  <2>. QED
    BY <1>2 DEF SInv, Archive, Listed, Successor, TrashStep
<1>4. StagedWhole' /\ Firsts'
  BY <1>2 DEF StagedWhole, Firsts, Doubtful
<1>5. AckedSurvives'
  BY DEF SInv, Archive, AckedSurvives, Line, TrashStep
<1>. QED
  BY <1>1, <1>3, <1>4, <1>5 DEF Archive

LEMMA MarkStore == ASSUME IInv, HInv, SInv, Mark PROVE SInv'
<1>1. /\ UNCHANGED <<place, placeSynced, torn, head, headSynced, pointers, reports, acked, op>>
      /\ TrashStep /\ markers' = markers \cup {op.project} /\ pc' = "move"
  BY DEF Mark, Step, TrashStep, Placing, headVars, pointerVars, objectVars, memVars
<1>2. Vacant' /\ Recorded'
  BY <1>1 DEF SInv, Archive, Vacant, Recorded
<1>3. Archive'
  BY <1>1, <1>2, TrashArchive, TrashFacts DEF TrashStep
<1>4. FirstUnderway' /\ Moving' /\ Removing'
  BY <1>1 DEF FirstUnderway, Moving, Removing, Removals, BeforeHead, BeforePointer
<1>. QED
  BY <1>1, <1>3, <1>4, StoreProceeds DEF TrashStep, Fresh, Reading

LEMMA MoveStore == ASSUME IInv, HInv, SInv, Move PROVE SInv'
<1>1. /\ UNCHANGED <<placeSynced, markers, torn, head, headSynced, pointers, reports, acked, op>>
      /\ TrashStep /\ pc = "move" /\ pc' = "sync_move"
  BY DEF Move, Step, TrashStep, Placing, headVars, pointerVars, objectVars, memVars
<1>2. op.project \in Projects
  BY <1>1 DEF IInv, TInv, OpNamed, Placing
<1>3. /\ place'[op.project] = IF op.kind = "trash" THEN "trashed" ELSE "active"
      /\ \A p \in Projects \ {op.project} : place'[p] = place[p]
  BY <1>2 DEF Move, IInv, TInv, TypeOK, DiskTypes
<1>4. op.kind = "trash" => op.project \in markers
  BY <1>1 DEF SInv, Moving
<1>5. Vacant'
  BY <1>1, <1>3 DEF SInv, Archive, Vacant
<1>6. Recorded'
  BY <1>1, <1>3, <1>4 DEF SInv, Archive, Recorded
<1>7. Archive'
  BY <1>1, <1>5, <1>6, TrashArchive, TrashFacts DEF TrashStep
<1>8. FirstUnderway' /\ Moving' /\ Removing'
  BY <1>1, <1>3 DEF FirstUnderway, Moving, Removing, Removals, BeforeHead, BeforePointer
<1>. QED
  BY <1>1, <1>7, <1>8, StoreProceeds DEF TrashStep, Fresh, Reading

LEMMA SyncMoveStore == ASSUME IInv, HInv, SInv, SyncMove PROVE SInv'
<1>1. /\ UNCHANGED <<place, markers, torn, head, headSynced, pointers, reports, acked, op>>
      /\ TrashStep /\ pc = "sync_move" /\ placeSynced' = place
  BY DEF SyncMove, TrashStep, Placing, headVars, pointerVars, objectVars, memVars
<1>2. ~blocked
  BY <1>1, Unblocked
<1>3. place[op.project] = IF op.kind = "trash" THEN "trashed" ELSE "active"
  BY <1>1 DEF SInv, Moving
<1>4. \A p \in Projects \ {op.project} : place[p] = placeSynced[p]
  BY <1>1, <1>2 DEF HInv, PlaceInDoubt, Reading
<1>5. Vacant'
  BY <1>1, <1>3, <1>4 DEF SInv, Archive, Vacant, IInv, TInv, TypeOK, DiskTypes
<1>6. Recorded'
  BY <1>1 DEF SInv, Archive, Recorded
<1>7. Archive'
  BY <1>1, <1>5, <1>6, TrashArchive, TrashFacts DEF TrashStep
<1>8. CASE StartRefresh("idle")
  BY <1>1, <1>7, <1>8, StoreRestarts DEF TrashStep
<1>9. CASE op.kind # "trash" /\ pc' = "unmark"
  <2>1. FirstUnderway' /\ Moving' /\ Removing'
    BY <1>1, <1>3, <1>9 DEF FirstUnderway, Moving, Removing, Removals, InPlace, BeforeHead, BeforePointer
  <2>. QED
    BY <1>1, <1>7, <1>9, <2>1, StoreProceeds DEF TrashStep, Fresh, Reading
<1>. QED
  BY <1>8, <1>9 DEF SyncMove

LEMMA UnmarkStore == ASSUME IInv, HInv, SInv, Unmark PROVE SInv'
<1>1. /\ UNCHANGED <<place, placeSynced, torn, head, headSynced, pointers, reports, acked>>
      /\ TrashStep /\ pc = "unmark" /\ markers' = markers \ {op.project}
  BY DEF Unmark, TrashStep, Placing, headVars, pointerVars, objectVars, memVars
<1>2. InPlace(op.project)
  BY <1>1 DEF SInv, Moving
<1>3. Vacant' /\ Recorded'
  BY <1>1, <1>2 DEF SInv, Archive, Vacant, Recorded, InPlace
<1>4. Archive'
  BY <1>1, <1>3, TrashArchive, TrashFacts DEF TrashStep
<1>. QED
  BY <1>1, <1>4, StoreRestarts DEF Unmark, TrashStep

LEMMA NextRemovalStore == ASSUME IInv, HInv, SInv, NextRemoval PROVE SInv'
<1>1. pc = "next" /\ UNCHANGED <<ledger, diskVars, memVars, acked>>
  BY DEF NextRemoval
<1>2. CASE StartRefresh("collect")
  BY <1>1, <1>2, StoreRestartsStill
<1>3. CASE pc' = "remove" /\ \E p \in op.targets : op' = [op EXCEPT !.project = p, !.targets = @ \ {p}]
  <2>1. PICK p \in op.targets : op' = [op EXCEPT !.project = p, !.targets = @ \ {p}]
    BY <1>3
  <2>2. op'.project = p /\ op'.targets = op.targets \ {p}
    BY <2>1 DEF IInv, TInv, TypeOK, ControlTypes, OpRecord
  <2>3. \A q \in op.targets : place[q] = "trashed" /\ entries[q].status # "active"
    BY <1>1 DEF SInv, Removing, Removals
  <2>4. Archive'
    BY <1>1, DiskUntouched, ArchiveKept DEF SInv
  <2>5. FirstUnderway' /\ Moving' /\ Removing'
    BY <1>1, <1>3, <2>2, <2>3 DEF FirstUnderway, Moving, Removing, Removals, BeforeHead, BeforePointer,
       diskVars, placeVars, memVars
  <2>. QED
    BY <1>1, <1>3, <2>4, <2>5, StoreProceeds DEF memVars, Fresh, Reading
<1>. QED
  BY <1>2, <1>3 DEF NextRemoval

LEMMA RemoveFileStore == ASSUME IInv, HInv, SInv, RemoveFile PROVE SInv'
<1>. PICK p : p = op.project
  OBVIOUS
<1>1. /\ UNCHANGED <<place, placeSynced, reports, acked, op>>
      /\ TrashStep /\ pc = "remove" /\ pc' = "remove" /\ torn' = torn \cup {p}
  BY DEF RemoveFile, Step, TrashStep, Placing, headVars, pointerVars, objectVars, memVars
<1>2. p \in Projects
  BY <1>1 DEF IInv, TInv, OpNamed, Placing
<1>3. ~blocked /\ \A q \in Projects : head[q] = headSynced[q]
  BY <1>1, TrashFacts DEF Placing
<1>4. \A q \in Projects \ {p} : /\ head'[q] = head[q] /\ headSynced'[q] = headSynced[q]
                                /\ pointers'[q] = pointers[q] /\ (q \in markers => q \in markers')
  BY DEF RemoveFile, IInv, TInv, TypeOK, DiskTypes, headVars, pointerVars
<1>5. head'[p] = headSynced'[p] /\ pointers'[p] \subseteq pointers[p]
  BY <1>2, <1>3 DEF RemoveFile, IInv, TInv, TypeOK, DiskTypes, headVars, pointerVars
<1>6. place[p] = "trashed" /\ placeSynced[p] = "trashed"
  BY <1>1, <1>2, <1>3, PlacesSettled DEF SInv, Removing, Reading
<1>7. Vacant'
  BY <1>1, <1>6 DEF SInv, Archive, Vacant
<1>8. Recorded'
  BY <1>1, <1>4 DEF SInv, Archive, Recorded
<1>9. Archive'
  BY <1>1, <1>3, <1>4, <1>5, <1>7, <1>8, TrashArchive
<1>10. FirstUnderway' /\ Moving' /\ Removing'
  BY <1>1 DEF SInv, FirstUnderway, Moving, Removing, Removals, BeforeHead, BeforePointer, TrashStep
<1>. QED
  BY <1>1, <1>9, <1>10, StoreProceeds DEF TrashStep, Fresh, Reading

LEMMA RemoveDirectoryStore == ASSUME IInv, HInv, SInv, RemoveDirectory PROVE SInv'
<1>. PICK p : p = op.project
  OBVIOUS
<1>1. /\ UNCHANGED <<placeSynced, markers, head, pointers, op>>
      /\ TrashStep /\ pc = "remove" /\ pc' = "sync_remove" /\ torn' = torn \cup {p}
      /\ reports' = reports \ {p} /\ head[p] = NoRev /\ pointers[p] = {}
  BY DEF RemoveDirectory, Step, TrashStep, Placing, objectVars, memVars
<1>2. p \in Projects
  BY <1>1 DEF IInv, TInv, OpNamed, Placing
<1>3. ~blocked /\ \A q \in Projects : head[q] = headSynced[q]
  BY <1>1, TrashFacts DEF Placing
<1>4. /\ place'[p] = "none" /\ headSynced'[p] = NoRev /\ acked'[p] = NoRev
      /\ \A q \in Projects \ {p} : /\ place'[q] = place[q] /\ headSynced'[q] = headSynced[q]
                                   /\ acked'[q] = acked[q]
  BY <1>2 DEF RemoveDirectory, IInv, TInv, TypeOK, DiskTypes
<1>5. placeSynced[p] = "trashed"
  BY <1>1, <1>2, <1>3, PlacesSettled DEF SInv, Removing, Reading
<1>6. Vacant'
  BY <1>1, <1>4, <1>5 DEF SInv, Archive, Vacant
<1>7. Recorded'
  BY <1>1, <1>4 DEF SInv, Archive, Recorded
<1>8. Archive'
  BY <1>1, <1>3, <1>4, <1>6, <1>7, TrashArchive
<1>9. FirstUnderway' /\ Moving'
  BY <1>1 DEF FirstUnderway, Moving, BeforeHead, BeforePointer
<1>10. Removing'
  <2>1. \A q \in op.targets : q \in Projects \ {p} /\ place[q] = "trashed"
    BY <1>1 DEF SInv, Removing, Removals, IInv, TInv, TypeOK, ControlTypes, OpRecord
  <2>. QED
    BY <1>1, <1>4, <2>1 DEF SInv, Removing, Removals, TrashStep
<1>. QED
  BY <1>1, <1>8, <1>9, <1>10, StoreProceeds DEF TrashStep, Fresh, Reading

LEMMA SyncRemoveStore == ASSUME IInv, HInv, SInv, SyncRemove PROVE SInv'
<1>. PICK p : p = op.project
  OBVIOUS
<1>1. /\ UNCHANGED <<place, markers, head, headSynced, pointers, reports, acked, op>>
      /\ TrashStep /\ pc = "sync_remove" /\ pc' = "next" /\ placeSynced' = place
      /\ torn' = torn \ {p}
  BY DEF SyncRemove, Step, TrashStep, Placing, headVars, pointerVars, objectVars, memVars
<1>2. ~blocked /\ \A q \in Projects : head[q] = headSynced[q]
  BY <1>1, TrashFacts DEF Placing
<1>3. place[p] = "none"
  BY <1>1 DEF SInv, Removing
<1>4. \A q \in Projects \ {p} : place[q] = placeSynced[q]
  BY <1>1, <1>2 DEF HInv, PlaceInDoubt, Reading
<1>5. p \in Projects => pointers[p] = {} /\ acked[p] = NoRev
  BY <1>3 DEF HInv, Traces, Owned, SInv, Archive, Vacant
<1>6. Vacant'
  BY <1>1, <1>4 DEF SInv, Archive, Vacant, IInv, TInv, TypeOK, DiskTypes
<1>7. Recorded'
  BY <1>1, <1>3 DEF SInv, Archive, Recorded
<1>8. Archive'
  BY <1>1, <1>2, <1>5, <1>6, <1>7, TrashArchive
<1>9. FirstUnderway' /\ Moving' /\ Removing'
  BY <1>1 DEF SInv, FirstUnderway, Moving, Removing, Removals, BeforeHead, BeforePointer, TrashStep
<1>. QED
  BY <1>1, <1>8, <1>9, StoreProceeds DEF TrashStep, Fresh, Reading

LEMMA FailLifecycleStore == ASSUME IInv, SInv, FailLifecycle \/ FailLifecycleSync PROVE SInv'
  BY StoreRestartsStill DEF FailLifecycle, FailLifecycleSync

-----------------------------------------------------------------------------
LEMMA StoreStutters == ASSUME IInv, SInv, UNCHANGED vars PROVE SInv'
<1>1. UNCHANGED <<ledger, diskVars, memVars, pc, op, scan, acked>>
  BY DEF vars
<1>2. UNCHANGED <<place, placeSynced, markers, torn, reports, pointers, head, entries, blocked>>
  BY <1>1 DEF diskVars, placeVars, headVars, pointerVars, memVars
<1>3. Archive'
  BY <1>1, DiskUntouched, ArchiveKept DEF SInv
<1>4. Tidy' /\ NothingLost'
  BY <1>1, <1>2 DEF SInv, Tidy, Neat, Line, NothingLost, Recovering
<1>5. FirstUnderway' /\ Moving' /\ Removing' /\ Placed'
  BY <1>1, <1>2 DEF SInv, FirstUnderway, Moving, Removing, Placed, InPlace
<1>. QED
  BY <1>3, <1>4, <1>5 DEF SInv

LEMMA StoreStep == Older = {} /\ MaxRot = 0 /\ IInv /\ HInv /\ SInv /\ [Next]_vars => SInv'
<1>. SUFFICES ASSUME Older = {}, MaxRot = 0, IInv, HInv, SInv, [Next]_vars PROVE SInv'
  OBVIOUS
<1>1. ASSUME Refreshing PROVE SInv'
  BY <1>1, ScanNothingStore, ScanUnpublishedStore, ScanSoundStore, ScanDamagedTrashStore,
     RecoverQuarantineStore, RecoverReportStore, RecoverHeadStore, FinishRefreshStore
  DEF Refreshing
<1>2. ASSUME Committing PROVE SInv'
  BY <1>2, StageStore, InstallStore, MakeDirectoryStore, RenamePointerStore, RenameHeadStore,
     HeadDurableStore, FailRetryHeadStore, CleanStore, VerifyStore, ReconcileStore, NoMigration
  DEF Committing
<1>3. ASSUME Opening PROVE SInv'
  BY <1>3, ScavengeStore, MigrationsDoneStore, CollectStore, FailMigrationStore, NoMigration
  DEF Opening
<1>4. ASSUME Trashing PROVE SInv'
  BY <1>4, MarkStore, MoveStore, SyncMoveStore, UnmarkStore, NextRemovalStore, RemoveFileStore,
     RemoveDirectoryStore, SyncRemoveStore, FailRetryHeadStore
  DEF Trashing
<1>5. ASSUME Requests PROVE SInv'
  <2>1. CASE \E p \in Projects : Trash(p) \/ RestoreTrashed(p) \/ Delete(p)
    BY <2>1, BeginStore DEF Trash, RestoreTrashed, Delete
  <2>2. CASE \E T \in SUBSET Projects : EmptyTrash(T)
    BY <2>2, BeginStore DEF EmptyTrash
  <2>3. CASE \E p \in Projects, v \in Payloads : Create(p, v) \/ RestoreRevision(p, v)
    BY <2>3, CreateStore
  <2>4. CASE \E p \in Projects, v \in Payloads : Change(p, v)
    BY <2>4, ChangeStore
  <2>5. CASE \E p \in Projects, r \in Revs : Rollback(p, r)
    BY <2>5, ChangeStore
  <2>. QED
    BY <1>5, <2>1, <2>2, <2>3, <2>4, <2>5 DEF Requests
<1>6. ASSUME Errors PROVE SInv'
  BY <1>6, FailRefreshStore, CleanStore, FailRetryHeadStore, FailCollectStore, FailLifecycleStore
  DEF Errors
<1>7. ASSUME Faults PROVE SInv'
  BY <1>7, CrashStore, NothingRots DEF Faults
<1>. QED
  BY <1>1, <1>2, <1>3, <1>4, <1>5, <1>6, <1>7, OpenStore, StoreStutters DEF Next, Progress

LEMMA StoreInit == Init => SInv
<1>. SUFFICES ASSUME Init PROVE SInv
  OBVIOUS
<1>1. Archive
  BY DEF Init, Archive, Undamaged, Chains, Listed, StagedWhole, Vacant, Firsts, Recorded, AckedSurvives,
     Doubtful, Revs
<1>2. Tidy /\ NothingLost /\ FirstUnderway /\ Moving /\ Removing /\ Placed
  BY DEF Init, Tidy, NothingLost, Recovering, FirstUnderway, Moving, Removing, Removals, Placed, Fresh,
     Reading, BeforeHead, BeforePointer, NoEntries, NoEntry
<1>. QED
  BY <1>1, <1>2 DEF SInv

\* Every step of every mutation, refresh, removal and crash keeps the archive
\* invariant, when no payload has an older schema and no file loses its content.
THEOREM ArchiveInvariant == ASSUME Older = {}, MaxRot = 0 PROVE Spec => []SInv
<1>1. IInv /\ HInv /\ SInv /\ [Next]_vars => SInv'
  BY StoreStep
<1>. QED
  BY <1>1, LibraryInvariant, HistoryInvariant, StoreInit, PTL DEF Spec

\* A revision whose caller was told of success stays part of the durable
\* history of its Project, whatever crashes, failed writes and reopens follow,
\* until the removal of the Project from the Trash begins.
THEOREM AcknowledgedSurvives == ASSUME Older = {}, MaxRot = 0 PROVE Spec => []AckedSurvives
<1>1. SInv => AckedSurvives
  BY DEF SInv, Archive
<1>. QED
  BY <1>1, ArchiveInvariant, PTL

-----------------------------------------------------------------------------
(* The histories the revisions stand for                                     *)

\* The payloads of r's line in the ledger l, oldest first.
HistoryIn(l, r) ==
    [n \in 1..(IF r = NoRev THEN 0 ELSE l[r].seq) |->
        l[CHOOSE q \in (IF r = NoRev THEN {} ELSE l[r].line) : l[q].seq = n].payload]

LEMMA TheOne ==
    ASSUME NEW S, NEW f, NEW n, NEW x \in S, f[x].seq = n,
           \A a \in S : f[a].seq = n => a = x
    PROVE  (CHOOSE q \in S : f[q].seq = n) = x
  OBVIOUS

\* The history of a revision has one payload for each revision of its line.
LEMMA HistoryFacts ==
    ASSUME IInv, Chains, NEW r \in RevOrNone
    PROVE  /\ HistoryIn(ledger, r) \in Seq(Payloads) /\ SeqOf(r) \in Nat /\ Len(HistoryIn(ledger, r)) = SeqOf(r)
           /\ \A q \in Line(r) : /\ ledger[q].seq \in 1..SeqOf(r)
                                 /\ HistoryIn(ledger, r)[ledger[q].seq] = ledger[q].payload
           /\ \A n \in 1..SeqOf(r) : \E q \in Line(r) : ledger[q].seq = n
<1>1. SeqOf(r) \in Nat
  BY LedgerTypes DEF SeqOf, RevOrNone, IInv, TInv
<1>2. \A q \in Line(r) : q \in Revs /\ ledger[q].seq \in 1..SeqOf(r)
  <2>1. CASE r = NoRev
    BY <2>1, LineOfNone
  <2>2. CASE r \in Revs
    <3>. SUFFICES ASSUME NEW q \in Line(r) PROVE q \in Revs /\ ledger[q].seq \in 1..SeqOf(r)
      OBVIOUS
    <3>1. q \in Revs /\ ledger[q].seq <= ledger[r].seq
      BY <2>2, LineSteps
    <3>2. ledger[q].seq \in Nat \ {0} /\ r # NoRev
      BY <2>2, <3>1, LedgerTypes DEF IInv, TInv
    <3>. QED
      BY <1>1, <3>1, <3>2 DEF SeqOf
  <2>. QED
    BY <2>1, <2>2 DEF RevOrNone
<1>3. /\ \A a, b \in Line(r) : ledger[a].seq = ledger[b].seq => a = b
      /\ \A n \in 1..SeqOf(r) : \E q \in Line(r) : ledger[q].seq = n
  BY LineOfNone DEF Chains, Chain, SeqOf, RevOrNone
<1>4. \A q \in Line(r) : (CHOOSE x \in Line(r) : ledger[x].seq = ledger[q].seq) = q
  <2>. SUFFICES ASSUME NEW q \in Line(r) PROVE (CHOOSE x \in Line(r) : ledger[x].seq = ledger[q].seq) = q
    OBVIOUS
  <2>1. \A a \in Line(r) : ledger[a].seq = ledger[q].seq => a = q
    BY <1>3
  <2>. QED
    BY <2>1, TheOne
<1>. DEFINE at(n) == ledger[CHOOSE q \in Line(r) : ledger[q].seq = n].payload
<1>5. HistoryIn(ledger, r) = [n \in 1..SeqOf(r) |-> at(n)]
  BY DEF HistoryIn, SeqOf, Line
<1>6. \A n \in 1..SeqOf(r) : at(n) \in Payloads
  <2>. SUFFICES ASSUME NEW n \in 1..SeqOf(r) PROVE at(n) \in Payloads
    OBVIOUS
  <2>1. PICK q \in Line(r) : ledger[q].seq = n
    BY <1>3
  <2>2. at(n) = ledger[q].payload
    <3>1. \A a \in Line(r) : ledger[a].seq = n => a = q
      BY <1>3, <2>1
    <3>2. (CHOOSE x \in Line(r) : ledger[x].seq = n) = q
      BY <2>1, <3>1, TheOne
    <3>. QED
      BY <3>2
  <2>. QED
    BY <1>2, <2>2, LedgerTypes DEF IInv, TInv
<1>7. \A q \in Line(r) : at(ledger[q].seq) = ledger[q].payload
  BY <1>4
<1>. HIDE DEF at
<1>8. HistoryIn(ledger, r) \in Seq(Payloads) /\ Len(HistoryIn(ledger, r)) = SeqOf(r)
  BY <1>1, <1>5, <1>6
<1>9. \A q \in Line(r) : HistoryIn(ledger, r)[ledger[q].seq] = ledger[q].payload
  BY <1>2, <1>5, <1>7
<1>. QED
  BY <1>1, <1>2, <1>3, <1>8, <1>9

LEMMA HistoryOfNone == \A l : HistoryIn(l, NoRev) = <<>>
  BY DEF HistoryIn

\* A revision's history is its parent's and its own payload.
LEMMA HistoryAppends ==
    ASSUME IInv, HInv, Chains, NEW r \in Revs
    PROVE  HistoryIn(ledger, r) = Append(HistoryIn(ledger, ledger[r].parent), ledger[r].payload)
<1>. PICK w \in RevOrNone : w = ledger[r].parent
  BY LineSteps
<1>. PICK v \in Payloads : v = ledger[r].payload
  BY LedgerTypes DEF IInv, TInv
<1>1. r \in RevOrNone /\ Line(r) = Line(w) \cup {r} /\ r # NoRev
  BY LineSteps, LedgerTypes DEF RevOrNone, IInv, TInv
<1>2. SeqOf(r) = SeqOf(w) + 1 /\ ledger[r].seq = SeqOf(r)
  BY <1>1 DEF HInv, Traces, Owned, SeqOf
<1>3. /\ HistoryIn(ledger, w) \in Seq(Payloads) /\ SeqOf(w) \in Nat /\ Len(HistoryIn(ledger, w)) = SeqOf(w)
      /\ \A q \in Line(w) : HistoryIn(ledger, w)[ledger[q].seq] = ledger[q].payload
      /\ \A n \in 1..SeqOf(w) : \E q \in Line(w) : ledger[q].seq = n
  BY HistoryFacts
<1>4. /\ HistoryIn(ledger, r) \in Seq(Payloads) /\ Len(HistoryIn(ledger, r)) = SeqOf(r)
      /\ \A q \in Line(r) : HistoryIn(ledger, r)[ledger[q].seq] = ledger[q].payload
  BY <1>1, HistoryFacts
<1>5. /\ Append(HistoryIn(ledger, w), v) \in Seq(Payloads) /\ Len(Append(HistoryIn(ledger, w), v)) = SeqOf(w) + 1
      /\ \A n \in 1..SeqOf(w) : Append(HistoryIn(ledger, w), v)[n] = HistoryIn(ledger, w)[n]
      /\ Append(HistoryIn(ledger, w), v)[SeqOf(w) + 1] = v
  BY <1>3, AppendProperties
<1>6. \A n \in 1..(SeqOf(w) + 1) : HistoryIn(ledger, r)[n] = Append(HistoryIn(ledger, w), v)[n]
  <2>. SUFFICES ASSUME NEW n \in 1..(SeqOf(w) + 1) PROVE HistoryIn(ledger, r)[n] = Append(HistoryIn(ledger, w), v)[n]
    OBVIOUS
  <2>1. CASE n = SeqOf(w) + 1
    BY <1>1, <1>2, <1>4, <1>5, <2>1
  <2>2. CASE n \in 1..SeqOf(w)
    <3>1. PICK q \in Line(w) : ledger[q].seq = n
      BY <1>3, <2>2
    <3>. QED
      BY <1>1, <1>3, <1>4, <1>5, <2>2, <3>1
  <2>. QED
    BY <1>3, <2>1, <2>2
<1>. QED
  BY <1>2, <1>4, <1>5, <1>6, SeqEqual

\* Two ledgers that agree on a revision's line give it the same history.
LEMMA HistoryStays ==
    ASSUME IInv, Chains, NEW r \in RevOrNone, NEW l, \A q \in Revs : l[q] = ledger[q]
    PROVE  HistoryIn(l, r) = HistoryIn(ledger, r)
<1>1. CASE r = NoRev
  BY <1>1, HistoryOfNone
<1>2. CASE r \in Revs \ {NoRev}
  <2>1. /\ \A n \in 1..ledger[r].seq : \E q \in ledger[r].line : ledger[q].seq = n
        /\ \A a, b \in ledger[r].line : ledger[a].seq = ledger[b].seq => a = b
        /\ \A q \in ledger[r].line : q \in Revs
    BY <1>2, LineSteps DEF Chains, Chain, Line
  <2>2. l[r] = ledger[r] /\ \A q \in ledger[r].line : l[q] = ledger[q]
    BY <1>2, <2>1
  <2>. DEFINE in(k, n) == k[CHOOSE q \in ledger[r].line : k[q].seq = n].payload
  <2>3. ASSUME NEW n \in 1..ledger[r].seq PROVE in(l, n) = in(ledger, n)
    <3>1. PICK x \in ledger[r].line : ledger[x].seq = n
      BY <2>1
    <3>2. (CHOOSE q \in ledger[r].line : ledger[q].seq = n) = x
      <4>1. \A a \in ledger[r].line : ledger[a].seq = n => a = x
        BY <2>1, <3>1
      <4>. QED
        BY <3>1, <4>1, TheOne
    <3>3. (CHOOSE q \in ledger[r].line : l[q].seq = n) = x
      <4>1. l[x].seq = n /\ \A a \in ledger[r].line : l[a].seq = n => a = x
        BY <2>1, <2>2, <3>1
      <4>. QED
        BY <3>1, <4>1, TheOne
    <3>. QED
      BY <2>2, <3>1, <3>2, <3>3
  <2>4. /\ HistoryIn(ledger, r) = [n \in 1..ledger[r].seq |-> in(ledger, n)]
        /\ HistoryIn(l, r) = [n \in 1..ledger[r].seq |-> in(l, n)]
    BY <1>2, <2>2 DEF HistoryIn
  <2>. HIDE DEF in
  <2>. QED
    BY <2>3, <2>4
<1>. QED
  BY <1>1, <1>2 DEF RevOrNone

-----------------------------------------------------------------------------
(* The steps of ProjectStore, by what they change here                       *)

\* What the Library stands for, with histories read from the ledger.
LogIn(l, hs, t) == [p \in Projects |-> IF p \in t THEN <<>> ELSE HistoryIn(l, hs[p])]
ShownIn(l, es, t) ==
    [p \in Projects |-> IF p \notin t /\ es[p].status = "active" THEN HistoryIn(l, es[p].rev) ELSE <<>>]
StoreLog == [p \in Projects |-> IF p \in torn THEN <<>> ELSE HistoryOf(headSynced[p])]
StoreShown ==
    [p \in Projects |-> IF p \notin torn /\ entries[p].status = "active"
                        THEN HistoryOf(entries[p].rev) ELSE <<>>]
Implements == [Store!Next]_(Store!vars)

LEMMA StoreVars ==
    /\ Store!vars = <<StoreLog, StoreShown, torn>>
    /\ (Store!vars)' = <<StoreLog', StoreShown', torn'>>
  BY DEF Store!vars, StoreLog, StoreShown

LEMMA StoreNext ==
    /\ (\E S \in SUBSET Projects :
           StoreShown' = [p \in Projects |-> IF p \in S THEN StoreLog[p] ELSE <<>>])
       /\ UNCHANGED <<StoreLog, torn>> => Store!Next
    /\ /\ StoreShown' = [p \in Projects |-> <<>>] /\ torn' \subseteq torn
       /\ \/ StoreLog' = StoreLog
          \/ \E p \in Projects \ torn, v \in Payloads :
                StoreLog' = [StoreLog EXCEPT ![p] = Append(@, v)]
       => Store!Next
    /\ \A p \in Projects :
          /\ torn' = torn \cup {p} /\ StoreLog' = [StoreLog EXCEPT ![p] = <<>>]
             /\ StoreShown' = [StoreShown EXCEPT ![p] = <<>>] => Store!Next
          /\ torn' = torn \ {p} /\ UNCHANGED <<StoreLog, StoreShown>> => Store!Next
          /\ \A v \in Payloads :
                p \notin torn /\ StoreLog' = [StoreLog EXCEPT ![p] = Append(@, v)]
                /\ UNCHANGED <<StoreShown, torn>> => Store!Next
<1>. USE DEF StoreLog, StoreShown
<1>1. (\E S \in SUBSET Projects :
           StoreShown' = [p \in Projects |-> IF p \in S THEN StoreLog[p] ELSE <<>>])
      /\ UNCHANGED <<StoreLog, torn>> => Store!Next
  BY DEF Store!Next, Store!Show
<1>2. /\ StoreShown' = [p \in Projects |-> <<>>] /\ torn' \subseteq torn
      /\ \/ StoreLog' = StoreLog
         \/ \E p \in Projects \ torn, v \in Payloads :
               StoreLog' = [StoreLog EXCEPT ![p] = Append(@, v)]
      => Store!Next
  BY DEF Store!Next, Store!Restart
<1>3. ASSUME NEW p \in Projects
      PROVE  torn' = torn \cup {p} /\ StoreLog' = [StoreLog EXCEPT ![p] = <<>>]
             /\ StoreShown' = [StoreShown EXCEPT ![p] = <<>>] => Store!Next
  BY DEF Store!Next, Store!Doom
<1>4. ASSUME NEW p \in Projects
      PROVE  torn' = torn \ {p} /\ UNCHANGED <<StoreLog, StoreShown>> => Store!Next
  BY DEF Store!Next, Store!Remove
<1>5. ASSUME NEW p \in Projects, NEW v \in Payloads
      PROVE  p \notin torn /\ StoreLog' = [StoreLog EXCEPT ![p] = Append(@, v)]
             /\ UNCHANGED <<StoreShown, torn>> => Store!Next
  BY DEF Store!Next, Store!Publish
<1>. QED
  BY <1>1, <1>2, <1>3, <1>4, <1>5

LEMMA LogsRead ==
    /\ StoreLog = LogIn(ledger, headSynced, torn) /\ StoreShown = ShownIn(ledger, entries, torn)
    /\ StoreLog' = LogIn(ledger', headSynced', torn') /\ StoreShown' = ShownIn(ledger', entries', torn')
<1>1. StoreLog = LogIn(ledger, headSynced, torn) /\ StoreLog' = LogIn(ledger', headSynced', torn')
  BY DEF StoreLog, LogIn, HistoryOf, HistoryIn, SeqOf, Line
<1>2. StoreShown = ShownIn(ledger, entries, torn) /\ StoreShown' = ShownIn(ledger', entries', torn')
  BY DEF StoreShown, ShownIn, HistoryOf, HistoryIn, SeqOf, Line
<1>. QED
  BY <1>1, <1>2

\* Nothing that is promised changes.
LEMMA Stutters ==
    ASSUME torn' = torn,
           \A p \in Projects \ torn :
              /\ HistoryIn(ledger', headSynced'[p]) = HistoryIn(ledger, headSynced[p])
              /\ entries'[p].status = entries[p].status
              /\ entries[p].status = "active" =>
                    HistoryIn(ledger', entries'[p].rev) = HistoryIn(ledger, entries[p].rev)
    PROVE  Implements
<1>1. LogIn(ledger', headSynced', torn') = LogIn(ledger, headSynced, torn)
  BY DEF LogIn
<1>2. ShownIn(ledger', entries', torn') = ShownIn(ledger, entries, torn)
  BY DEF ShownIn
<1>. QED
  BY <1>1, <1>2, LogsRead, StoreVars DEF Implements

LEMMA StuttersStill ==
    ASSUME UNCHANGED <<ledger, headSynced, torn, entries>>
    PROVE  Implements
  BY Stutters

LEMMA PublishesOne ==
    ASSUME UNCHANGED <<ledger, torn, entries>>, NEW p \in Projects \ torn, NEW v \in Payloads,
           HistoryIn(ledger, headSynced'[p]) = Append(HistoryIn(ledger, headSynced[p]), v),
           \A q \in Projects \ {p} : headSynced'[q] = headSynced[q]
    PROVE  Implements
<1>1. LogIn(ledger', headSynced', torn') = [LogIn(ledger, headSynced, torn) EXCEPT ![p] = Append(@, v)]
  BY DEF LogIn
<1>2. ShownIn(ledger', entries', torn') = ShownIn(ledger, entries, torn)
  OBVIOUS
<1>. QED
  BY <1>1, <1>2, LogsRead, StoreNext DEF Implements

LEMMA Shows ==
    ASSUME UNCHANGED <<ledger, headSynced, torn>>,
           \A p \in Projects \ torn : entries'[p].status = "active" => entries'[p].rev = headSynced[p]
    PROVE  Implements
<1>. DEFINE S == {p \in Projects \ torn : entries'[p].status = "active"}
<1>1. ShownIn(ledger', entries', torn')
      = [p \in Projects |-> IF p \in S THEN LogIn(ledger, headSynced, torn)[p] ELSE <<>>]
  BY DEF ShownIn, LogIn
<1>2. LogIn(ledger', headSynced', torn') = LogIn(ledger, headSynced, torn) /\ S \in SUBSET Projects
  OBVIOUS
<1>. HIDE DEF S
<1>. QED
  BY <1>1, <1>2, LogsRead, StoreNext DEF Implements

LEMMA Dooms ==
    ASSUME UNCHANGED <<ledger, entries>>, NEW p \in Projects, torn' = torn \cup {p},
           \A q \in Projects \ {p} : headSynced'[q] = headSynced[q]
    PROVE  Implements
<1>1. LogIn(ledger', headSynced', torn') = [LogIn(ledger, headSynced, torn) EXCEPT ![p] = <<>>]
  BY DEF LogIn
<1>2. ShownIn(ledger', entries', torn') = [ShownIn(ledger, entries, torn) EXCEPT ![p] = <<>>]
  BY DEF ShownIn
<1>. QED
  BY <1>1, <1>2, LogsRead, StoreNext DEF Implements

LEMMA Removes ==
    ASSUME UNCHANGED <<ledger, entries, headSynced>>, NEW p \in Projects, torn' = torn \ {p},
           headSynced[p] = NoRev, entries[p].status # "active"
    PROVE  Implements
<1>1. LogIn(ledger', headSynced', torn') = LogIn(ledger, headSynced, torn)
  BY HistoryOfNone DEF LogIn
<1>2. ShownIn(ledger', entries', torn') = ShownIn(ledger, entries, torn)
  BY DEF ShownIn
<1>. QED
  BY <1>1, <1>2, LogsRead, StoreNext DEF Implements

\* The process ends; no revision or one is published by it.
LEMMA Ends ==
    ASSUME ledger' = ledger, entries' = NoEntries, torn' \subseteq torn,
           \A p \in torn \ torn' : p \in Projects => headSynced'[p] = NoRev,
           NEW P, P \subseteq Projects \ torn, \A p, q \in P : p = q,
           \A p \in P : \E v \in Payloads :
              HistoryIn(ledger, headSynced'[p]) = Append(HistoryIn(ledger, headSynced[p]), v),
           \A p \in Projects \ (torn \cup P) : headSynced'[p] = headSynced[p]
    PROVE  Implements
<1>1. ShownIn(ledger', entries', torn') = [p \in Projects |-> <<>>]
  BY DEF ShownIn, NoEntries, NoEntry
<1>2. \A p \in torn : LogIn(ledger', headSynced', torn')[p] = LogIn(ledger, headSynced, torn)[p]
                      \/ p \notin Projects
  BY HistoryOfNone DEF LogIn
<1>3. \A p \in Projects \ P :
         LogIn(ledger', headSynced', torn')[p] = LogIn(ledger, headSynced, torn)[p]
  BY <1>2 DEF LogIn
<1>4. CASE P = {}
  <2>1. LogIn(ledger', headSynced', torn') = LogIn(ledger, headSynced, torn)
    BY <1>3, <1>4 DEF LogIn
  <2>. QED
    BY <1>1, <2>1, LogsRead, StoreNext DEF Implements
<1>5. CASE P # {}
  <2>1. PICK p \in P : TRUE
    BY <1>5
  <2>2. PICK v \in Payloads :
           HistoryIn(ledger, headSynced'[p]) = Append(HistoryIn(ledger, headSynced[p]), v)
    BY <2>1
  <2>3. p \in Projects \ torn /\ \A q \in Projects \ {p} : q \notin P
    BY <2>1
  <2>4. LogIn(ledger', headSynced', torn')[p] = Append(LogIn(ledger, headSynced, torn)[p], v)
    BY <2>2, <2>3 DEF LogIn
  <2>5. LogIn(ledger', headSynced', torn') = [LogIn(ledger, headSynced, torn) EXCEPT ![p] = Append(@, v)]
    BY <1>3, <2>3, <2>4 DEF LogIn
  <2>. QED
    BY <1>1, <2>3, <2>5, LogsRead, StoreNext DEF Implements
<1>. QED
  BY <1>4, <1>5

-----------------------------------------------------------------------------
(* Every step of the Library is one of these                                 *)

\* A crash undoes or keeps the rename of the one Head in doubt, and nothing else.
LEMMA ShutdownImplements == ASSUME IInv, HInv, SInv, Shutdown PROVE Implements
<1>. DEFINE P == {p \in Projects \ torn : headSynced'[p] # headSynced[p]}
<1>1. /\ ledger' = ledger /\ entries' = NoEntries /\ headSynced' = head'
      /\ torn' = {p \in torn : place'[p] # "none"}
  BY DEF Shutdown
<1>2. \A p \in Projects : place'[p] \in {place[p], placeSynced[p]} /\ head'[p] \in {head[p], headSynced[p]}
  <2>1. PICK kept : place' = Settled(place, placeSynced, kept)
    BY DEF Shutdown
  <2>2. PICK settled : head' = Settled(head, headSynced, settled)
    BY DEF Shutdown
  <2>. QED
    BY <2>1, <2>2 DEF Settled
<1>3. \A p \in torn \ torn' : p \in Projects => headSynced'[p] = NoRev
  BY <1>1, <1>2 DEF IInv, DiskInv, Empty
<1>4. \A p \in P : Doubtful(p) /\ headSynced'[p] = head[p]
  BY <1>1, <1>2 DEF Doubtful
<1>5. \A p, q \in P : p = q
  BY <1>4 DEF HInv, Traces, Doubt
<1>6. ASSUME NEW p \in P
      PROVE  \E v \in Payloads :
                HistoryIn(ledger, headSynced'[p]) = Append(HistoryIn(ledger, headSynced[p]), v)
  <2>1. head[p] \in Revs /\ ledger[head[p]].parent = headSynced[p] /\ headSynced'[p] = head[p]
    BY <1>4, HeadTypes DEF HInv, Traces, Doubt, IInv, TInv, RevOrNone
  <2>2. ledger[head[p]].payload \in Payloads
    BY <2>1, LedgerTypes DEF IInv, TInv
  <2>3. HistoryIn(ledger, head[p]) = Append(HistoryIn(ledger, headSynced[p]), ledger[head[p]].payload)
    BY <2>1, HistoryAppends DEF SInv, Archive
  <2>. QED
    BY <2>1, <2>2, <2>3
<1>7. \A p \in Projects \ (torn \cup P) : headSynced'[p] = headSynced[p]
  OBVIOUS
<1>8. torn' \subseteq torn /\ P \subseteq Projects \ torn
  BY <1>1
<1>. HIDE DEF P
<1>. QED
  BY <1>1, <1>3, <1>5, <1>6, <1>7, <1>8, Ends

LEMMA BlockImplements == ASSUME IInv, HInv, SInv, Block PROVE Implements
<1>1. CASE UNCHANGED <<ledger, diskVars, entries>>
  BY <1>1, StuttersStill DEF diskVars, placeVars, headVars
<1>. QED
  BY <1>1, ShutdownImplements DEF Block

LEMMA RefreshingImplements == ASSUME IInv, HInv, SInv, Refreshing PROVE Implements
<1>1. ASSUME NEW p \in Projects, ScanNothing(p) \/ ScanSound(p) \/ ScanDamagedTrash(p) \/ RecoverReport(p)
      PROVE  Implements
  BY <1>1, StuttersStill
  DEF ScanNothing, ScanSound, ScanDamagedTrash, RecoverReport, diskVars, placeVars, headVars, memVars
<1>2. ASSUME NEW p \in Projects, ScanUnpublished(p) PROVE Implements
  <2>1. p \notin torn /\ headSynced[p] = NoRev
    BY <1>2, UnpublishedFacts DEF ScanUnpublished, Reading
  <2>2. UNCHANGED <<ledger, entries>> /\ torn' = torn \ {p} /\ headSynced' = [headSynced EXCEPT ![p] = NoRev]
    BY <1>2 DEF ScanUnpublished, memVars
  <2>3. headSynced' = headSynced /\ torn' = torn
    BY <2>1, <2>2 DEF IInv, TInv, TypeOK, DiskTypes
  <2>. QED
    BY <2>2, <2>3, StuttersStill
<1>3. ASSUME NEW p \in Projects, RecoverQuarantine(p) PROVE Implements
  <2>1. p \in torn \/ headSynced[p] = NoRev
    BY <1>3, NothingThere, RefreshFacts DEF RecoverQuarantine, Reading
  <2>2. UNCHANGED <<ledger, entries, torn>> /\ headSynced' = [headSynced EXCEPT ![p] = NoRev]
    BY <1>3 DEF RecoverQuarantine, placeVars, memVars
  <2>3. \A q \in Projects \ torn : headSynced'[q] = headSynced[q]
    BY <2>1, <2>2 DEF IInv, TInv, TypeOK, DiskTypes
  <2>. QED
    BY <2>2, <2>3, Stutters
<1>4. ASSUME NEW p \in Projects, RecoverHead(p) PROVE Implements
  <2>1. p \in torn
    BY <1>4 DEF RecoverHead, SInv, NothingLost
  <2>2. UNCHANGED <<ledger, entries, torn>> /\ headSynced' = [headSynced EXCEPT ![p] = scan.fresh[p].rev]
    BY <1>4 DEF RecoverHead, placeVars, memVars
  <2>3. \A q \in Projects \ torn : headSynced'[q] = headSynced[q]
    BY <2>1, <2>2 DEF IInv, TInv, TypeOK, DiskTypes
  <2>. QED
    BY <2>2, <2>3, Stutters
<1>5. ASSUME FinishRefresh PROVE Implements
  <2>1. UNCHANGED <<ledger, headSynced, torn>> /\ entries' = scan.fresh
    BY <1>5 DEF FinishRefresh, diskVars, placeVars, headVars
  <2>2. pc \in Reading /\ \A p \in Projects : Accurate(p, scan.fresh[p])
    BY <1>5 DEF FinishRefresh, Reading, HInv, Viewed
  <2>3. \A p \in Projects : head[p] = headSynced[p]
    BY <2>2, RefreshFacts
  <2>4. \A p \in Projects : entries'[p].status = "active" => entries'[p].rev = headSynced[p]
    BY <2>1, <2>2, <2>3 DEF Accurate
  <2>. QED
    BY <2>1, <2>4, Shows
<1>. QED
  BY <1>1, <1>2, <1>3, <1>4, <1>5 DEF Refreshing

\* The one step that publishes: the Head's directory has been synced.
LEMMA HeadDurableImplements == ASSUME IInv, HInv, SInv, SyncHead \/ RetryHead PROVE Implements
<1>. PICK p : p = op.project
  OBVIOUS
<1>1. pc \in Settling /\ HeadDurable
  BY DEF SyncHead, RetryHead, Step, Settling
<1>2. p \in Projects /\ op.rev \in Revs /\ head[p] = op.rev /\ Payload \in Payloads
  BY <1>1, Publishes DEF IInv, StepInv, Publication
<1>3. UNCHANGED <<ledger, torn, entries>> /\ headSynced' = [headSynced EXCEPT ![p] = op.rev]
  BY <1>1 DEF HeadDurable, placeVars, memVars
<1>4. headSynced'[p] = op.rev /\ \A q \in Projects \ {p} : headSynced'[q] = headSynced[q]
  BY <1>2, <1>3 DEF IInv, TInv, TypeOK, DiskTypes
<1>5. CASE p \in torn \/ headSynced[p] = op.rev
  BY <1>3, <1>4, <1>5, Stutters
<1>6. CASE p \notin torn /\ headSynced[p] # op.rev
  <2>1. ledger[op.rev].parent = headSynced[p]
    BY <1>2, <1>6 DEF HInv, Traces, Doubt, Doubtful
  <2>2. HistoryIn(ledger, op.rev) = Append(HistoryIn(ledger, headSynced[p]), Payload)
    BY <1>2, <2>1, HistoryAppends DEF SInv, Archive, Payload
  <2>. QED
    BY <1>2, <1>3, <1>4, <1>6, <2>2, PublishesOne
<1>. QED
  BY <1>5, <1>6

LEMMA CommittingImplements == ASSUME Older = {}, IInv, HInv, SInv, Committing PROVE Implements
<1>1. CASE Stage \/ InstallPayload \/ SyncPayload \/ InstallRevision \/ SyncRevision \/ MakeDirectory
           \/ RenamePointer \/ SyncPointer \/ RenameHead \/ FailSyncHead \/ Clean \/ Verify \/ Reconcile
  <2>1. UNCHANGED <<ledger, headSynced, torn, entries>>
    BY <1>1 DEF Stage, InstallPayload, SyncPayload, InstallRevision, SyncRevision, MakeDirectory,
       RenamePointer, SyncPointer, RenameHead, FailSyncHead, Clean, Verify, Reconcile,
       InstallObject, SyncObjects, diskVars, placeVars, headVars, memVars
  <2>. QED
    BY <2>1, StuttersStill
<1>. QED
  BY <1>1, HeadDurableImplements, BlockImplements, NoMigration DEF Committing, FailRetryHead

LEMMA OpeningImplements == ASSUME Older = {}, IInv, Open \/ Opening PROVE Implements
<1>1. Open \/ Scavenge \/ MigrationsDone \/ Collect \/ \E r \in Revs : FailMigration(r)
  BY NoMigration DEF Opening
<1>2. UNCHANGED <<ledger, placeVars, headVars, memVars>>
  <2>1. CASE Open
    BY <2>1 DEF Open, diskVars
  <2>2. CASE Scavenge \/ Collect
    BY <2>2 DEF Scavenge, Collect
  <2>3. CASE MigrationsDone \/ \E r \in Revs : FailMigration(r)
    <3>1. UNCHANGED <<ledger, diskVars, memVars>>
      BY <2>3 DEF MigrationsDone, FailMigration
    <3>. QED
      BY <3>1 DEF diskVars
  <2>. QED
    BY <1>1, <2>1, <2>2, <2>3
<1>. QED
  BY <1>2, StuttersStill DEF placeVars, headVars, memVars

LEMMA TrashingImplements == ASSUME IInv, HInv, SInv, Trashing PROVE Implements
<1>. PICK p : p = op.project
  OBVIOUS
<1>1. CASE Mark \/ Move \/ SyncMove \/ Unmark \/ NextRemoval
  <2>1. UNCHANGED <<ledger, headVars, torn, memVars>>
    <3>1. CASE Mark \/ Move \/ SyncMove \/ Unmark
      BY <3>1 DEF Mark, Move, SyncMove, Unmark
    <3>2. CASE NextRemoval
      <4>1. UNCHANGED <<ledger, diskVars, memVars>>
        BY <3>2 DEF NextRemoval
      <4>. QED
        BY <4>1 DEF diskVars, placeVars
    <3>. QED
      BY <1>1, <3>1, <3>2
  <2>. QED
    BY <2>1, StuttersStill DEF headVars, memVars
<1>2. CASE RemoveFile \/ RemoveDirectory
  <2>1. p \in Projects /\ UNCHANGED <<ledger, entries>> /\ torn' = torn \cup {p}
    BY <1>2 DEF RemoveFile, RemoveDirectory, Step, IInv, TInv, OpNamed, Placing, memVars
  <2>2. headSynced' = headSynced \/ headSynced' = [headSynced EXCEPT ![p] = NoRev]
    BY <1>2 DEF RemoveFile, RemoveDirectory, headVars
  <2>3. \A q \in Projects \ {p} : headSynced'[q] = headSynced[q]
    BY <2>2 DEF IInv, TInv, TypeOK, DiskTypes
  <2>. QED
    BY <2>1, <2>3, Dooms
<1>3. CASE SyncRemove
  <2>1. p \in Projects /\ pc = "sync_remove"
    BY <1>3 DEF SyncRemove, Step, IInv, TInv, OpNamed, Placing
  <2>2. UNCHANGED <<ledger, entries, headSynced>> /\ torn' = torn \ {p}
    BY <1>3 DEF SyncRemove, headVars, memVars
  <2>3. headSynced[p] = NoRev /\ entries[p].status # "active"
    BY <2>1 DEF IInv, StepInv, Removal, SInv, Removing
  <2>. QED
    BY <2>1, <2>2, <2>3, Removes
<1>. QED
  BY <1>1, <1>2, <1>3, BlockImplements DEF Trashing, BlockMutations

LEMMA IssueImplements ==
    ASSUME IInv, HInv, SInv, NEW kind, NEW p \in Projects, NEW parent \in RevOrNone, NEW v,
           Issue(kind, p, parent, v)
    PROVE  Implements
<1>1. \A q \in Revs : ledger'[q] = ledger[q]
  <2>1. ledger \in Seq(Revision) /\ Revs = 1..Len(ledger)
    BY DEF IInv, TInv, TypeOK, Revs
  <2>. PICK e : e = [project |-> p, parent |-> parent, seq |-> SeqOf(parent) + 1, payload |-> v,
                     line |-> Line(parent) \cup {Len(ledger) + 1}]
    OBVIOUS
  <2>2. ledger' = Append(ledger, e)
    BY DEF Issue
  <2>. QED
    BY <2>1, <2>2
<1>2. UNCHANGED <<headSynced, torn, entries>>
  BY DEF Issue, diskVars, placeVars, headVars, memVars
<1>3. \A r \in RevOrNone : HistoryIn(ledger', r) = HistoryIn(ledger, r)
  BY <1>1, HistoryStays DEF SInv, Archive
<1>4. \A q \in Projects : headSynced[q] \in RevOrNone /\ entries[q].rev \in RevOrNone
  BY DEF IInv, TInv, TypeOK, DiskTypes, MemoryTypes, Entry
<1>. QED
  BY <1>2, <1>3, <1>4, Stutters

LEMMA RequestsImplement == ASSUME IInv, HInv, SInv, Requests PROVE Implements
<1>1. CASE (\E p \in Projects : Trash(p) \/ RestoreTrashed(p) \/ Delete(p))
           \/ \E T \in SUBSET Projects : EmptyTrash(T)
  <2>1. \E kind, p, targets, first : Begin(kind, p, targets, first)
    BY <1>1 DEF Trash, RestoreTrashed, Delete, EmptyTrash
  <2>2. UNCHANGED <<ledger, diskVars, memVars>>
    BY <2>1 DEF Begin
  <2>. QED
    BY <2>2, StuttersStill DEF diskVars, placeVars, headVars, memVars
<1>2. ASSUME NEW p \in Projects, NEW v \in Payloads, Create(p, v) \/ RestoreRevision(p, v) \/ Change(p, v)
      PROVE  Implements
  <2>1. NoRev \in RevOrNone /\ entries[p].rev \in RevOrNone
    BY DEF RevOrNone, IInv, TInv, TypeOK, MemoryTypes, Entry
  <2>. QED
    BY <1>2, <2>1, IssueImplements DEF Create, RestoreRevision, Change
<1>3. ASSUME NEW p \in Projects, NEW r \in Revs, Rollback(p, r) PROVE Implements
  <2>1. entries[p].rev \in RevOrNone
    BY DEF IInv, TInv, TypeOK, MemoryTypes, Entry
  <2>. QED
    BY <1>3, <2>1, IssueImplements DEF Rollback
<1>. QED
  BY <1>1, <1>2, <1>3 DEF Requests

LEMMA ErrorsImplement == ASSUME IInv, HInv, SInv, Errors PROVE Implements
<1>1. Block \/ UNCHANGED <<ledger, headSynced, torn, entries>>
  BY DEF Errors, FailRefresh, FailPublication, FailReconcile, FailCollect, FailLifecycle,
     FailLifecycleSync, diskVars, placeVars, headVars, memVars
<1>. QED
  BY <1>1, BlockImplements, StuttersStill

LEMMA StepImplements ==
    Older = {} /\ MaxRot = 0 /\ IInv /\ HInv /\ SInv /\ [Next]_vars => [Store!Next]_(Store!vars)
<1>. SUFFICES ASSUME Older = {}, MaxRot = 0, IInv, HInv, SInv, [Next]_vars PROVE Implements
  BY DEF Implements
<1>1. CASE UNCHANGED vars
  BY <1>1, StuttersStill DEF vars, diskVars, placeVars, headVars, memVars
<1>2. CASE Faults
  BY <1>2, NothingRots, ShutdownImplements DEF Faults, Crash, Close
<1>. QED
  BY <1>1, <1>2, RefreshingImplements, CommittingImplements, OpeningImplements, TrashingImplements,
     RequestsImplement, ErrorsImplement DEF Next, Progress

LEMMA InitImplements == Init => Store!Init
<1>. SUFFICES ASSUME Init PROVE Store!Init
  OBVIOUS
<1>1. headSynced = [p \in Projects |-> NoRev] /\ entries = NoEntries /\ torn = {}
  BY DEF Init
<1>2. LogIn(ledger, headSynced, torn) = [p \in Projects |-> <<>>]
  BY <1>1, HistoryOfNone DEF LogIn
<1>3. ShownIn(ledger, entries, torn) = [p \in Projects |-> <<>>]
  BY <1>1 DEF ShownIn, NoEntries, NoEntry
<1>. QED
  BY <1>1, <1>2, <1>3, LogsRead DEF Store!Init, StoreLog, StoreShown

\* The Library implements ProjectStore when no payload has an older schema and
\* no file loses its content: its durable Heads are append-only histories, one
\* step of a publication, or the crash that settles it, appends one payload,
\* and a reader sees a Project's whole current history or no Project.
THEOREM LibraryImplementsStore == ASSUME Older = {}, MaxRot = 0 PROVE Spec => ImplementsStore
<1>1. IInv /\ HInv /\ SInv /\ [Next]_vars => [Store!Next]_(Store!vars)
  BY StepImplements
<1>. QED
  BY <1>1, InitImplements, LibraryInvariant, HistoryInvariant, ArchiveInvariant, PTL
  DEF Spec, ImplementsStore, Store!Spec
=============================================================================
