------------------- MODULE ProjectLibraryHistory_proofs ---------------------
(***************************************************************************)
(* What readers of the Project Library are shown, and how its Heads move:  *)
(* only revisions that were durable Heads come to light, along the lines   *)
(* of the ledger, for every value of the constants in which no payload has *)
(* an older schema, whatever crashes and whatever files are damaged.       *)
(***************************************************************************)
EXTENDS ProjectLibrary_proofs, FiniteSetTheorems, WellFoundedInduction

-----------------------------------------------------------------------------
(* The inductive invariant, beside IInv: first what the disk holds           *)

\* Sequences count the parents, and a directory lists its own Project's
\* revisions only; where there is no directory there is nothing listed.
Owned ==
    /\ \A r \in Revs : ledger[r].seq = SeqOf(ledger[r].parent) + 1
    /\ \A p \in Projects : \A r \in pointers[p] : ledger[r].project = p
    /\ \A p \in Projects : \A h \in {head[p], headSynced[p]} \ {NoRev} : ledger[h].project = p
    /\ \A p \in Projects : place[p] = "none" => pointers[p] = {}

\* One Head at most is in doubt, between a revision and its parent.
Doubtful(p) == head[p] # headSynced[p]
Doubt ==
    \A p \in Projects : Doubtful(p) =>
        /\ head[p] # NoRev /\ ledger[head[p]].parent = headSynced[p]
        /\ staged = NoRev
        /\ \A q \in Projects \ {p} : ~Doubtful(q)

\* What is staged or in doubt concerns a Project that stays where it is.
InPlace(p) == place[p] = "active" /\ placeSynced[p] = "active"
Pending == \A p \in Projects : staged \in pointers[p] \/ Doubtful(p) => InPlace(p)

HeadsPublished ==
    \A p \in Projects : headSynced[p] # NoRev => headSynced[p] \in published

\* A listed revision that was never a durable Head is the one left in
\* staging/, or the Head in doubt, or its directory has no Head.
Loose(p) == pointers[p] \ published
StagedFor(p) == staged # NoRev /\ ledger[staged].project = p
LooseKnown ==
    \A p \in Projects : \A r \in Loose(p) :
        \/ staged = r /\ head[p] \in {NoRev, ledger[r].parent}
        \/ head[p] = r /\ Doubtful(p)
        \/ head[p] = NoRev /\ ~StagedFor(p)

Traces == Owned /\ Doubt /\ Pending /\ HeadsPublished /\ LooseKnown /\ ShownPublished

-----------------------------------------------------------------------------
(* ... then what the step under way has established                          *)

\* e says where p is and, when its state could be read, what its Head is; and
\* nothing loose is listed beside that Head.
Accurate(p, e) ==
    /\ e.location = place[p]
    /\ e.status = "none" => place[p] = "none"
    /\ e.status \in {"active", "trashed"} =>
          e.rev = head[p] /\ head[p] # NoRev /\ e.status = place[p]
    /\ head[p] # NoRev => Loose(p) = {}
Viewed ==
    /\ pc \in Fresh /\ ~blocked => \A p \in Projects : Accurate(p, entries[p])
    /\ pc \in Reading => \A p \in Projects \ scan.todo : Accurate(p, scan.fresh[p])

\* A recovery never reaches a revision that was not a durable Head.
Recovered ==
    /\ pc \in {"recover_report", "recover_head"} => place[scan.project] = "active"
    /\ pc = "recover_report" =>
          \A r \in Loose(scan.project) : scan.limit = 0 \/ ledger[r].seq > scan.limit
    /\ pc = "recover_head" =>
          /\ Loose(scan.project) = {}
          /\ scan.fresh[scan.project].rev \in published \ {NoRev}
          /\ scan.fresh[scan.project].location = "active"

\* A move or a removal is durable before a refresh shows it, or mutations stop.
PlaceInDoubt ==
    \A p \in Projects : place[p] # placeSynced[p] =>
        \/ blocked \/ pc = "block" \/ (pc \in Reading /\ scan.then = "block")
        \/ pc \in {"sync_move", "sync_remove"} /\ p = op.project

\* The HEAD.json in staging/ is the one of the last publication, until the
\* rename takes it or the refresh after a failure or a crash has read it.
Staging == BeforeHead \ {"stage"}
StagedKnown ==
    staged # NoRev =>
        \/ blocked \/ pc \in {"down", "scavenge", "reconcile"} \cup Staging
        \/ pc \in Reading /\ scan.then \in {"scavenge", "reconcile"}

\* The publication under way extends the Head of its Project, where nothing
\* loose is listed.
Underway ==
    /\ pc \in Staging => staged = op.rev
    /\ pc \in BeforeHead \cup Settling => ledger[op.rev].project = op.project
    /\ pc \in BeforeHead => ledger[op.rev].parent = head[op.project]
    /\ pc \in BeforePointer => Loose(op.project) = {}
    /\ pc \in {"rename_pointer", "sync_pointer", "rename_head"} \cup Settling
          => InPlace(op.project)

HInv == Traces /\ Viewed /\ Recovered /\ PlaceInDoubt /\ StagedKnown /\ Underway

-----------------------------------------------------------------------------
(* Steps that leave the disk alone                                           *)

USE DEF NoRev

Same == UNCHANGED <<ledger, place, placeSynced, head, headSynced, pointers, published,
                    entries>>
Still == Same /\ staged' = staged /\ blocked' = blocked

LEMMA TracesKept == ASSUME Traces, Same, staged' = staged PROVE Traces'
<1>. SUFFICES Traces' = Traces
  OBVIOUS
<1>1. Owned' = Owned /\ Doubt' = Doubt /\ Pending' = Pending
  BY DEF Same, Owned, Doubt, Pending, Doubtful, InPlace, Revs, SeqOf
<1>2. HeadsPublished' = HeadsPublished /\ LooseKnown' = LooseKnown /\ ShownPublished' = ShownPublished
  BY DEF Same, HeadsPublished, LooseKnown, ShownPublished, Doubtful, Loose, StagedFor
<1>. QED
  BY <1>1, <1>2 DEF Traces

LEMMA AccurateKept ==
    ASSUME UNCHANGED <<place, head, pointers, published>>, NEW p \in Projects, NEW e, Accurate(p, e)
    PROVE  Accurate(p, e)'
  BY DEF Accurate, Loose

\* A refresh starts: what it was for tells whether a move may be in doubt and
\* whether staging/ may hold something.
LEMMA Restarts ==
    ASSUME Traces', ~blocked', NEW then, StartRefresh(then),
           then = "block" \/ \A p \in Projects : place'[p] = placeSynced'[p],
           staged' = NoRev \/ then \in {"scavenge", "reconcile"}
    PROVE  HInv'
<1>. pc' = "refresh" /\ scan'.todo = Projects /\ scan'.then = then
  BY DEF StartRefresh, NoScan
<1>1. Viewed' /\ Recovered' /\ Underway'
  BY DEF Viewed, Recovered, Underway, Fresh, Reading, Staging, BeforeHead, BeforePointer, Settling
<1>2. PlaceInDoubt' /\ StagedKnown'
  BY DEF PlaceInDoubt, StagedKnown, Reading
<1>. QED
  BY <1>1, <1>2 DEF HInv

LEMMA RestartsStill ==
    ASSUME HInv, Still, ~blocked, NEW then, StartRefresh(then),
           then = "block" \/ \A p \in Projects : place[p] = placeSynced[p],
           staged = NoRev \/ then \in {"scavenge", "reconcile"}
    PROVE  HInv'
  BY TracesKept, Restarts DEF HInv, Still, Same

\* No move is in doubt between the steps of a publication, an open or a refresh.
LEMMA PlacesSettled ==
    ASSUME HInv, ~blocked, pc \notin {"block", "sync_move", "sync_remove"},
           pc \in Reading => scan.then # "block"
    PROVE  \A p \in Projects : place[p] = placeSynced[p]
  BY DEF HInv, PlaceInDoubt

\* Nothing is staged but during and after a publication.
LEMMA NothingStaged ==
    ASSUME HInv, ~blocked, pc \notin {"down", "scavenge", "reconcile"} \cup Staging,
           pc \in Reading => scan.then \notin {"scavenge", "reconcile"}
    PROVE  staged = NoRev
  BY DEF HInv, StagedKnown

\* From one point between two steps to another.
LEMMA Settles ==
    ASSUME HInv, Traces', Same, blocked' = blocked, ~blocked, pc \in Fresh \ {"block"}, pc' \in Fresh,
           staged' = NoRev
    PROVE  HInv'
<1>1. Viewed'
  BY AccurateKept DEF Same, HInv, Viewed, Fresh, Reading
<1>2. Recovered' /\ Underway'
  BY DEF Recovered, Underway, Fresh, Reading, Staging, BeforeHead, BeforePointer, Settling
<1>3. \A p \in Projects : place[p] = placeSynced[p]
  BY PlacesSettled DEF Fresh, Reading
<1>4. PlaceInDoubt' /\ StagedKnown'
  BY <1>3 DEF Same, PlaceInDoubt, StagedKnown
<1>. QED
  BY <1>1, <1>2, <1>4 DEF HInv

LEMMA SettlesStill ==
    ASSUME HInv, Still, ~blocked, pc \in Fresh \ {"block"}, pc' \in Fresh, staged = NoRev
    PROVE  HInv'
  BY TracesKept, Settles DEF HInv, Still

\* A lifecycle mutation moves on without moving a directory.
LEMMA Proceeds ==
    ASSUME HInv, Still, ~blocked, pc \in {"idle", "mark", "next"}, pc' \in {"mark", "move", "next", "remove"}
    PROVE  HInv'
<1>1. Traces'
  BY TracesKept DEF HInv, Still
<1>2. Viewed' /\ Recovered' /\ Underway'
  BY DEF Viewed, Recovered, Underway, Fresh, Reading, Staging, BeforeHead, BeforePointer, Settling
<1>3. \A p \in Projects : place[p] = placeSynced[p]
  BY PlacesSettled DEF Reading
<1>4. staged = NoRev
  BY NothingStaged DEF Reading, Staging, BeforeHead, BeforePointer
<1>5. PlaceInDoubt' /\ StagedKnown'
  BY <1>3, <1>4 DEF Still, Same, PlaceInDoubt, StagedKnown
<1>. QED
  BY <1>1, <1>2, <1>5 DEF HInv

\* A publication moves on from one file to the next.
LEMMA Advances ==
    ASSUME HInv, Still, op' = op, ~blocked,
           <<pc, pc'>> \in {<<"install_payload", "sync_payload">>,
                            <<"sync_payload", "install_revision">>,
                            <<"install_revision", "sync_revision">>,
                            <<"sync_revision", "make_directory">>,
                            <<"sync_pointer", "rename_head">>,
                            <<"sync_head", "retry_head">>}
    PROVE  HInv'
<1>1. Traces'
  BY TracesKept DEF HInv, Still
<1>2. Viewed' /\ Recovered'
  BY DEF Viewed, Recovered, Fresh, Reading
<1>3. Underway'
  BY DEF Still, Same, HInv, Underway, Loose, InPlace, Staging, BeforeHead, BeforePointer, Settling
<1>4. PlaceInDoubt'
  BY PlacesSettled DEF Still, Same, PlaceInDoubt, Reading
<1>5. StagedKnown'
  <2>1. CASE pc = "sync_head"
    BY <2>1, NothingStaged DEF Still, Same, StagedKnown, Reading, Staging, BeforeHead, BeforePointer
  <2>2. CASE pc # "sync_head"
    BY <2>2 DEF StagedKnown, Staging, BeforeHead, BeforePointer
  <2>. QED
    BY <2>1, <2>2
<1>. QED
  BY <1>1, <1>2, <1>3, <1>4, <1>5 DEF HInv

-----------------------------------------------------------------------------
(* Refreshing                                                                *)

LEMMA RefreshFacts ==
    ASSUME IInv, pc \in Reading
    PROVE  ~blocked /\ \A p \in Projects : head[p] = headSynced[p] /\ ~Doubtful(p)
  BY RefreshCalm DEF Doubtful

LEMMA HeadTypes ==
    ASSUME TypeOK, NEW p \in Projects
    PROVE  /\ head[p] \in RevOrNone /\ headSynced[p] \in RevOrNone /\ pointers[p] \subseteq Revs
           /\ staged \in RevOrNone /\ NoRev \notin Revs
<1>. NoRev \notin Revs
  <2>. Revs = 1..Len(ledger) /\ Len(ledger) \in Nat
    BY DEF TypeOK, Revs
  <2>. QED
    OBVIOUS
<1>. QED
  BY DEF TypeOK, DiskTypes

\* A refresh goes on to the next Project.
LEMMA ScanGoesOn ==
    ASSUME IInv, HInv, pc \in Reading, pc' = "refresh", UNCHANGED <<blocked, staged, published>>,
           NEW p \in Projects, NEW e, Scanned(p, e), Accurate(p, e)', Traces',
           \A q \in Projects \ {p} : /\ place'[q] = place[q] /\ placeSynced'[q] = placeSynced[q]
                                     /\ head'[q] = head[q] /\ pointers'[q] = pointers[q],
           place'[p] = placeSynced'[p] \/ (place'[p] = place[p] /\ placeSynced'[p] = placeSynced[p])
    PROVE  HInv'
<1>1. /\ scan'.todo = scan.todo \ {p} /\ scan'.fresh = [scan.fresh EXCEPT ![p] = e]
      /\ scan'.then = scan.then /\ scan.fresh \in [Projects -> Entry]
  BY DEF Scanned, IInv, TInv, TypeOK, ControlTypes, ScanRecord
<1>2. ASSUME NEW q \in Projects \ scan'.todo PROVE Accurate(q, scan.fresh[q])'
  <2>1. CASE q = p
    BY <1>1, <2>1
  <2>2. CASE q # p
    <3>1. Accurate(q, scan.fresh[q]) /\ scan'.fresh[q] = scan.fresh[q]
      BY <1>1, <1>2, <2>2 DEF HInv, Viewed
    <3>. QED
      BY <2>2, <3>1 DEF Accurate, Loose
  <2>. QED
    BY <2>1, <2>2
<1>3. Viewed'
  BY <1>2 DEF Viewed, Fresh, Reading, Accurate
<1>4. Recovered' /\ Underway'
  BY DEF Recovered, Underway, Staging, BeforeHead, BeforePointer, Settling
<1>5. PlaceInDoubt'
  <2>. SUFFICES ASSUME NEW q \in Projects, place'[q] # placeSynced'[q] PROVE scan'.then = "block"
    BY DEF PlaceInDoubt, Reading
  <2>1. place[q] # placeSynced[q]
    OBVIOUS
  <2>. QED
    BY <1>1, <2>1, RefreshFacts DEF HInv, PlaceInDoubt, Reading
<1>6. StagedKnown'
  BY <1>1, RefreshFacts DEF HInv, StagedKnown, Reading, Staging, BeforeHead, BeforePointer
<1>. QED
  BY <1>3, <1>4, <1>5, <1>6 DEF HInv

LEMMA ScanNothingHistory == ASSUME IInv, HInv, NEW p \in Projects, ScanNothing(p) PROVE HInv'
<1>1. Still /\ pc = "refresh" /\ pc' = pc /\ place[p] = "none" /\ Scanned(p, NoEntry)
  BY DEF ScanNothing, Still, Same, diskVars, placeVars, headVars, pointerVars, memVars
<1>2. Traces'
  BY <1>1, TracesKept DEF HInv, Still
<1>3. Accurate(p, NoEntry)'
  BY <1>1 DEF Still, Same, Accurate, NoEntry, IInv, DiskInv, Empty
<1>. QED
  BY <1>1, <1>2, <1>3, ScanGoesOn DEF Still, Same, Reading

LEMMA ScanUnpublishedHistory == ASSUME IInv, HInv, NEW p \in Projects, ScanUnpublished(p) PROVE HInv'
<1>1. /\ ledger' = ledger /\ head' = head /\ published' = published /\ staged' = staged
      /\ entries' = entries /\ blocked' = blocked /\ pc = "refresh" /\ pc' = pc
      /\ head[p] = NoRev /\ Scanned(p, NoEntry)
  BY DEF ScanUnpublished, Unpublished, memVars
<1>2. /\ place'[p] = "none" /\ placeSynced'[p] = "none" /\ pointers'[p] = {} /\ headSynced'[p] = NoRev
      /\ \A q \in Projects \ {p} : /\ place'[q] = place[q] /\ placeSynced'[q] = placeSynced[q]
                                   /\ pointers'[q] = pointers[q] /\ headSynced'[q] = headSynced[q]
  BY DEF ScanUnpublished, IInv, TInv, TypeOK, DiskTypes
<1>3. \A q \in Projects : headSynced'[q] = head[q] /\ head[q] = headSynced[q]
  BY <1>1, <1>2, RefreshFacts DEF Reading
<1>4. Owned'
  BY <1>1, <1>2 DEF HInv, Traces, Owned, Revs, SeqOf
<1>5. Doubt' /\ Pending' /\ HeadsPublished'
  BY <1>1, <1>2, <1>3 DEF HInv, Traces, Doubt, Pending, HeadsPublished, Doubtful, InPlace
<1>6. LooseKnown'
  BY <1>1, <1>2, <1>3 DEF HInv, Traces, LooseKnown, Loose, Doubtful, StagedFor
<1>7. ShownPublished'
  BY <1>1 DEF HInv, Traces, ShownPublished
<1>8. Accurate(p, NoEntry)'
  BY <1>1, <1>2 DEF Accurate, NoEntry
<1>. QED
  BY <1>1, <1>2, <1>4, <1>5, <1>6, <1>7, <1>8, ScanGoesOn DEF Traces, Reading

\* Nothing beyond the Head's sequence is listed any more, so nothing loose.
LEMMA TailDiscarded ==
    ASSUME IInv, HInv, pc \in Reading, NEW p \in Projects, head[p] \in Revs
    PROVE  \A r \in UpTo(pointers[p], ledger[head[p]].seq) : r \in published
<1>. SUFFICES ASSUME NEW r \in UpTo(pointers[p], ledger[head[p]].seq), r \notin published PROVE FALSE
  OBVIOUS
<1>1. r \in Loose(p) /\ r \in Revs /\ ledger[r].seq <= ledger[head[p]].seq
  BY HeadTypes DEF UpTo, Loose, IInv, TInv
<1>2. head[p] # NoRev /\ ~Doubtful(p)
  BY HeadTypes, RefreshFacts DEF IInv, TInv
<1>3. ledger[r].parent = head[p]
  BY <1>1, <1>2 DEF HInv, Traces, LooseKnown
<1>4. ledger[r].seq = ledger[head[p]].seq + 1
  BY <1>1, <1>2, <1>3 DEF HInv, Traces, Owned, SeqOf
<1>. QED
  BY <1>1, <1>4, LedgerTypes DEF IInv, TInv

LEMMA ScanSoundHistory == ASSUME IInv, HInv, NEW p \in Projects, ScanSound(p) PROVE HInv'
<1>. DEFINE n == ledger[head[p]].seq
            kept == UpTo(pointers[p], n)
<1>. PICK e : e = [status |-> place[p], location |-> place[p], rev |-> head[p],
                   history |-> UpTo(Verified(p), n), dated |-> place[p] = "trashed"]
  OBVIOUS
<1>1. head[p] \in Revs /\ head[p] # NoRev
  BY VerifiedTypes, HeadTypes DEF ScanSound, Sound, HeadResolves, IInv, TInv
<1>2. /\ ledger' = ledger /\ head' = head /\ headSynced' = headSynced /\ published' = published
      /\ place' = place /\ placeSynced' = placeSynced /\ staged' = staged
      /\ entries' = entries /\ blocked' = blocked /\ pc = "refresh" /\ pc' = pc
      /\ pointers' = [pointers EXCEPT ![p] = kept] /\ place[p] # "none"
      /\ Scanned(p, e)
  BY DEF ScanSound, placeVars, headVars, memVars
<1>3. pointers'[p] = kept /\ \A q \in Projects \ {p} : pointers'[q] = pointers[q]
  BY <1>2 DEF IInv, TInv, TypeOK, DiskTypes
<1>4. kept \subseteq pointers[p] /\ \A r \in kept : r \in published
  BY <1>1, <1>2, UpToPart, TailDiscarded DEF Reading
<1>5. Loose(p)' = {}
  BY <1>2, <1>3, <1>4 DEF Loose
<1>6. Owned'
  BY <1>2, <1>3, <1>4 DEF HInv, Traces, Owned, Revs, SeqOf
<1>7. Doubt' /\ Pending' /\ HeadsPublished' /\ ShownPublished'
  BY <1>2, <1>3, <1>4 DEF HInv, Traces, Doubt, Pending, HeadsPublished, ShownPublished, Doubtful, InPlace
<1>8. LooseKnown'
  BY <1>2, <1>3, <1>5 DEF HInv, Traces, LooseKnown, Loose, Doubtful, StagedFor
<1>9. Accurate(p, e)'
  BY <1>1, <1>2, <1>5 DEF Accurate
<1>. QED
  BY <1>2, <1>3, <1>6, <1>7, <1>8, <1>9, ScanGoesOn DEF Traces, Reading

LEMMA ScanDamagedTrashHistory == ASSUME IInv, HInv, NEW p \in Projects, ScanDamagedTrash(p) PROVE HInv'
<1>. PICK e : e = [status |-> "damaged", location |-> "trashed",
                   rev |-> Newest(Verified(p)), history |-> Verified(p),
                   dated |-> p \in markers]
  OBVIOUS
<1>1. Still /\ pc = "refresh" /\ pc' = pc /\ place[p] = "trashed" /\ Scanned(p, e)
  BY DEF ScanDamagedTrash, Still, Same, diskVars, placeVars, headVars, pointerVars, memVars
<1>2. Traces'
  BY <1>1, TracesKept DEF HInv, Still
<1>3. head[p] # NoRev => Loose(p) = {}
  <2>. SUFFICES ASSUME head[p] # NoRev, NEW r \in Loose(p) PROVE FALSE
    OBVIOUS
  <2>1. staged = r /\ r \in pointers[p]
    BY <1>1, RefreshFacts DEF HInv, Traces, LooseKnown, Loose, Reading
  <2>. QED
    BY <1>1, <2>1 DEF HInv, Traces, Pending, InPlace
<1>4. Accurate(p, e)'
  BY <1>1, <1>3 DEF Still, Same, Accurate, Loose
<1>. QED
  BY <1>1, <1>2, <1>4, ScanGoesOn DEF Still, Same, Reading

\* What recovery may republish was published: the revision left in staging/
\* bounds it, and without one a missing Head bounds it at nothing.
LEMMA LimitBelowLoose ==
    ASSUME IInv, HInv, pc \in Reading, NEW p \in Projects, NEW r \in Loose(p)
    PROVE  RecoveryLimit(p) = 0 \/ ledger[r].seq > RecoveryLimit(p)
<1>1. r \in Revs /\ ledger[r].project = p /\ ledger[r].seq \in Nat /\ r # NoRev
  BY HeadTypes, LedgerTypes DEF Loose, HInv, Traces, Owned, IInv, TInv
<1>2. ~Doubtful(p)
  BY RefreshFacts
<1>3. CASE staged = r
  <2>1. StagedKind(p) \in {"valid", "ambiguous"}
    BY <1>1, <1>3 DEF StagedKind
  <2>. QED
    BY <1>1, <1>3, <2>1 DEF RecoveryLimit
<1>4. CASE head[p] = NoRev /\ ~StagedFor(p)
  <2>1. StagedKind(p) = "absent"
    BY <1>4 DEF StagedKind, StagedFor
  <2>. QED
    BY <1>4, <2>1 DEF RecoveryLimit
<1>. QED
  BY <1>2, <1>3, <1>4 DEF HInv, Traces, LooseKnown

LEMMA RecoverQuarantineHistory == ASSUME IInv, HInv, NEW p \in Projects, RecoverQuarantine(p) PROVE HInv'
<1>1. /\ ledger' = ledger /\ place' = place /\ placeSynced' = placeSynced /\ staged' = staged
      /\ pointers' = pointers /\ published' = published /\ entries' = entries /\ blocked' = blocked
      /\ head' = [head EXCEPT ![p] = NoRev] /\ headSynced' = [headSynced EXCEPT ![p] = NoRev]
      /\ pc = "refresh" /\ pc' = "recover_report" /\ place[p] = "active" /\ p \in scan.todo
      /\ scan' = [scan EXCEPT !.project = p, !.limit = RecoveryLimit(p)]
  BY DEF RecoverQuarantine, placeVars, pointerVars, memVars
<1>2. /\ scan'.todo = scan.todo /\ scan'.fresh = scan.fresh /\ scan'.project = p
      /\ scan'.then = scan.then /\ scan'.limit = RecoveryLimit(p)
  BY <1>1 DEF IInv, TInv, TypeOK, ControlTypes, ScanRecord
<1>3. head'[p] = NoRev /\ headSynced'[p] = NoRev
      /\ \A q \in Projects \ {p} : head'[q] = head[q] /\ headSynced'[q] = headSynced[q]
  BY <1>1 DEF IInv, TInv, TypeOK, DiskTypes
<1>4. ~blocked /\ \A q \in Projects : head'[q] = headSynced'[q] /\ ~Doubtful(q)
  BY <1>1, <1>3, RefreshFacts DEF Reading
<1>5. Owned' /\ Doubt' /\ Pending' /\ HeadsPublished' /\ ShownPublished'
  BY <1>1, <1>3, <1>4
  DEF HInv, Traces, Owned, Doubt, Pending, HeadsPublished, ShownPublished, Doubtful, InPlace,
      Revs, SeqOf
<1>6. LooseKnown'
  BY <1>1, <1>3, <1>4 DEF HInv, Traces, LooseKnown, Loose, Doubtful, StagedFor
<1>7. Viewed'
  <2>. SUFFICES ASSUME NEW q \in Projects \ scan'.todo PROVE Accurate(q, scan.fresh[q])'
    BY <1>1, <1>2 DEF Viewed, Fresh, Accurate
  <2>1. q # p /\ Accurate(q, scan.fresh[q])
    BY <1>1, <1>2 DEF HInv, Viewed, Reading
  <2>. QED
    BY <1>1, <1>2, <1>3, <2>1 DEF Accurate, Loose
<1>8. Recovered'
  BY <1>1, <1>2, LimitBelowLoose DEF Recovered, Loose, Reading
<1>9. PlaceInDoubt' /\ StagedKnown'
  BY <1>1, <1>2, <1>4
  DEF HInv, PlaceInDoubt, StagedKnown, Reading, Staging, BeforeHead, BeforePointer
<1>10. Underway'
  BY <1>1 DEF Underway, Staging, BeforeHead, BeforePointer, Settling
<1>. QED
  BY <1>5, <1>6, <1>7, <1>8, <1>9, <1>10 DEF HInv, Traces

\* A set of revisions has one whose sequence no other exceeds: among the finite
\* sets of revisions above each, some set is minimal.
LEMMA NewestFound ==
    ASSUME TypeOK, NEW R \in SUBSET Revs, R # {}
    PROVE  Newest(R) \in R
<1>. DEFINE Above(r) == {q \in R : ledger[q].seq > ledger[r].seq}
            T == {Above(r) : r \in R}
<1>1. IsFiniteSet(Revs)
  <2>. Revs = 1..Len(ledger) /\ Len(ledger) \in Nat
    BY DEF TypeOK, Revs
  <2>. QED
    BY FS_Interval
<1>2. IsWellFoundedOn(StrictSubsetOrdering(Revs), SUBSET Revs)
  BY <1>1, FS_StrictSubsetOrderingWellFounded, FS_FiniteSubsetsOfFinite
<1>3. T \subseteq SUBSET Revs /\ T # {}
  OBVIOUS
<1>4. PICK x \in T : \A y \in T : ~(<<y, x>> \in StrictSubsetOrdering(Revs))
  BY <1>2, <1>3, WFMin
<1>5. PICK r \in R : x = Above(r)
  BY <1>4
<1>6. \A q \in R : ledger[q].seq \in Nat
  BY LedgerTypes
<1>7. ASSUME NEW q \in R, ~(ledger[q].seq <= ledger[r].seq) PROVE FALSE
  <2>1. Above(q) \subseteq Above(r) /\ q \in Above(r) /\ q \notin Above(q)
    BY <1>6, <1>7
  <2>2. <<Above(q), Above(r)>> \in StrictSubsetOrdering(Revs)
    BY <2>1 DEF StrictSubsetOrdering
  <2>. QED
    BY <1>4, <1>5, <2>2
<1>8. r \in {a \in R : \A q \in R : ledger[q].seq <= ledger[a].seq}
  BY <1>7
<1>. HIDE DEF Above
<1>. QED
  BY <1>8 DEF Newest

LEMMA RecoverReportHistory == ASSUME IInv, HInv, NEW p \in Projects, RecoverReport(p) PROVE HInv'
<1>. DEFINE kept == IF scan.limit > 0 THEN UpTo(pointers[p], scan.limit) ELSE pointers[p]
            found == UpTo(Verified(p), scan.limit)
<1>. PICK lost : lost = [NoEntry EXCEPT !.status = "damaged", !.location = "active"]
  OBVIOUS
<1>. PICK e : e = [status |-> "active", location |-> "active", rev |-> Newest(found),
                   history |-> found, dated |-> FALSE]
  OBVIOUS
<1>1. /\ ledger' = ledger /\ place' = place /\ placeSynced' = placeSynced /\ staged' = staged
      /\ head' = head /\ headSynced' = headSynced /\ published' = published
      /\ entries' = entries /\ blocked' = blocked
      /\ pointers' = [pointers EXCEPT ![p] = kept]
      /\ pc = "recover_report" /\ p = scan.project
  BY DEF RecoverReport, placeVars, headVars, memVars
<1>2. /\ head[p] = NoRev /\ p \in scan.todo /\ place[p] = "active" /\ ~blocked
      /\ \A q \in Projects : ~Doubtful(q)
  BY <1>1, RefreshFacts DEF IInv, StepInv, ScanFaithful, HInv, Recovered, Reading
<1>3. kept \subseteq pointers[p] /\ found \subseteq Verified(p) /\ found \in SUBSET Revs
      /\ Verified(p) \subseteq pointers[p]
  BY UpToPart, VerifiedTypes DEF IInv, TInv
<1>4. pointers'[p] = kept /\ \A q \in Projects \ {p} : pointers'[q] = pointers[q]
  BY <1>1 DEF IInv, TInv, TypeOK, DiskTypes
<1>5. scan.limit \in Nat /\ \A r \in Revs : ledger[r].seq \in Nat \ {0}
  BY LedgerTypes DEF IInv, TInv, TypeOK, ControlTypes, ScanRecord
<1>6. \A r \in Loose(p) : scan.limit = 0 \/ ledger[r].seq > scan.limit
  BY <1>1 DEF HInv, Recovered
<1>7. found # {} => \A r \in kept : r \in published
  <2>. SUFFICES ASSUME found # {}, NEW r \in kept, r \notin published PROVE FALSE
    OBVIOUS
  <2>1. scan.limit > 0
    BY <1>3, <1>5 DEF UpTo
  <2>2. r \in Loose(p) /\ r \in Revs /\ ledger[r].seq <= scan.limit
    BY <1>3, <2>1, HeadTypes DEF UpTo, Loose, IInv, TInv
  <2>. QED
    BY <1>5, <1>6, <2>1, <2>2
<1>8. \A r \in found : r \in published
  BY <1>3, <1>5, <1>6 DEF UpTo, Loose
<1>9. Owned'
  BY <1>1, <1>3, <1>4 DEF HInv, Traces, Owned, Revs, SeqOf
<1>10. Doubt' /\ Pending' /\ HeadsPublished' /\ ShownPublished'
  BY <1>1, <1>3, <1>4 DEF HInv, Traces, Doubt, Pending, HeadsPublished, ShownPublished, Doubtful, InPlace
<1>11. LooseKnown'
  BY <1>1, <1>3, <1>4 DEF HInv, Traces, LooseKnown, Loose, Doubtful, StagedFor
<1>12. CASE found = {}
  <2>1. pc' = "refresh" /\ Scanned(p, lost)
    BY <1>12 DEF RecoverReport
  <2>2. Accurate(p, lost)'
    BY <1>1, <1>2 DEF Accurate, NoEntry
  <2>. QED
    BY <1>1, <1>2, <1>4, <1>9, <1>10, <1>11, <2>1, <2>2, ScanGoesOn DEF Traces, Reading
<1>13. CASE found # {}
  <2>1. pc' = "recover_head" /\ scan' = [scan EXCEPT !.fresh[p] = e]
    BY <1>13 DEF RecoverReport
  <2>2. /\ scan'.todo = scan.todo /\ scan'.project = p /\ scan'.then = scan.then
        /\ scan'.fresh = [scan.fresh EXCEPT ![p] = e] /\ scan.fresh \in [Projects -> Entry]
        /\ scan'.fresh[p] = e
    BY <1>1, <2>1 DEF IInv, TInv, TypeOK, ControlTypes, ScanRecord
  <2>3. e.rev \in published \ {NoRev}
    <3>1. Newest(found) \in found
      BY <1>3, <1>13, NewestFound DEF IInv, TInv
    <3>. QED
      BY <1>3, <1>8, <3>1, HeadTypes DEF IInv, TInv
  <2>4. Recovered'
    BY <1>1, <1>2, <1>4, <1>7, <1>13, <2>1, <2>2, <2>3 DEF Recovered, Loose
  <2>5. Viewed'
    <3>. SUFFICES ASSUME NEW q \in Projects \ scan'.todo PROVE Accurate(q, scan.fresh[q])'
      BY <2>1 DEF Viewed, Fresh
    <3>1. q # p /\ Accurate(q, scan.fresh[q]) /\ scan'.fresh[q] = scan.fresh[q]
      BY <1>1, <1>2, <2>2 DEF HInv, Viewed, Reading
    <3>. QED
      BY <1>1, <1>4, <3>1 DEF Accurate, Loose
  <2>6. PlaceInDoubt' /\ StagedKnown'
    BY <1>1, <1>2, <2>1, <2>2
    DEF HInv, PlaceInDoubt, StagedKnown, Reading, Staging, BeforeHead, BeforePointer
  <2>7. Underway'
    BY <2>1 DEF Underway, Staging, BeforeHead, BeforePointer, Settling
  <2>. QED
    BY <1>9, <1>10, <1>11, <2>4, <2>5, <2>6, <2>7 DEF HInv, Traces
<1>. QED
  BY <1>12, <1>13

LEMMA RecoverHeadHistory == ASSUME IInv, HInv, NEW p \in Projects, RecoverHead(p) PROVE HInv'
<1>. PICK e : e = scan.fresh[p]
  OBVIOUS
<1>1. /\ ledger' = ledger /\ place' = place /\ placeSynced' = placeSynced /\ staged' = staged
      /\ pointers' = pointers /\ published' = published /\ entries' = entries /\ blocked' = blocked
      /\ head' = [head EXCEPT ![p] = e.rev] /\ headSynced' = [headSynced EXCEPT ![p] = e.rev]
      /\ pc = "recover_head" /\ pc' = "refresh" /\ p = scan.project /\ Scanned(p, e)
  BY DEF RecoverHead, placeVars, pointerVars, memVars
<1>2. head'[p] = e.rev /\ headSynced'[p] = e.rev
      /\ \A q \in Projects \ {p} : head'[q] = head[q] /\ headSynced'[q] = headSynced[q]
  BY <1>1 DEF IInv, TInv, TypeOK, DiskTypes
<1>3. /\ place[p] = "active" /\ e.location = "active" /\ e.rev \in published \ {NoRev}
      /\ Loose(p) = {} /\ e.status = "active" /\ Line(e.rev) \subseteq pointersSynced[p]
  BY <1>1 DEF HInv, Recovered, IInv, StepInv, ScanFaithful, Durable
<1>4. ledger[e.rev].project = p
  <2>1. e.rev \in Revs /\ e.rev \in Line(e.rev)
    BY <1>3, LineFacts DEF IInv, TInv, DiskInv, TypeOK, DiskTypes
  <2>. QED
    BY <1>3, <2>1 DEF HInv, Traces, Owned, IInv, DiskInv, DiskKnown
<1>5. \A q \in Projects : head'[q] = headSynced'[q] /\ ~Doubtful(q)
  BY <1>1, <1>2, RefreshFacts DEF Reading
<1>6. Doubt' /\ Pending' /\ HeadsPublished' /\ ShownPublished'
  <2>1. \A q \in Projects : ~Doubtful(q)'
    BY <1>1, <1>2, <1>5 DEF Doubtful
  <2>2. Doubt' /\ Pending'
    BY <1>1, <2>1 DEF HInv, Traces, Doubt, Pending, InPlace
  <2>3. HeadsPublished' /\ ShownPublished'
    BY <1>1, <1>2, <1>3 DEF HInv, Traces, HeadsPublished, ShownPublished
  <2>. QED
    BY <2>2, <2>3
<1>9. Owned'
  BY <1>1, <1>2, <1>4 DEF HInv, Traces, Owned, Revs, SeqOf
<1>7. LooseKnown'
  BY <1>1, <1>2, <1>3, <1>5 DEF HInv, Traces, LooseKnown, Loose, Doubtful, StagedFor
<1>8. Accurate(p, e)'
  BY <1>1, <1>2, <1>3 DEF Accurate, Loose
<1>. QED
  BY <1>1, <1>2, <1>6, <1>7, <1>8, <1>9, ScanGoesOn DEF Traces, Reading

LEMMA FinishRefreshHistory == ASSUME IInv, HInv, FinishRefresh PROVE HInv'
<1>1. /\ UNCHANGED <<ledger, place, placeSynced, head, headSynced, pointers, published, staged, blocked>>
      /\ pc = "refresh" /\ scan.todo = {} /\ entries' = scan.fresh /\ pc' = scan.then
  BY DEF FinishRefresh, diskVars, placeVars, headVars, pointerVars
<1>2. scan.then \in Fresh /\ ~blocked /\ \A p \in Projects : head[p] = headSynced[p]
  BY <1>1, RefreshFacts DEF IInv, TInv, OpNamed, Reading
<1>3. \A p \in Projects : Accurate(p, scan.fresh[p])
  BY <1>1 DEF HInv, Viewed, Reading
<1>4. Owned' /\ Doubt' /\ Pending' /\ HeadsPublished' /\ LooseKnown'
  BY <1>1 DEF HInv, Traces, Owned, Doubt, Pending, HeadsPublished, LooseKnown, Doubtful,
     InPlace, Loose, StagedFor, Revs, SeqOf
<1>5. ShownPublished'
  BY <1>1, <1>2, <1>3 DEF HInv, Traces, HeadsPublished, ShownPublished, Accurate
<1>6. Viewed'
  BY <1>1, <1>2, <1>3 DEF Viewed, Accurate, Loose, Fresh, Reading
<1>7. Recovered' /\ Underway'
  BY <1>1, <1>2 DEF Recovered, Underway, Fresh, Staging, BeforeHead, BeforePointer, Settling
<1>8. PlaceInDoubt'
  BY <1>1, <1>2 DEF HInv, PlaceInDoubt, Reading
<1>9. StagedKnown'
  BY <1>1, <1>2 DEF HInv, StagedKnown, Reading, Staging, BeforeHead, BeforePointer
<1>. QED
  BY <1>4, <1>5, <1>6, <1>7, <1>8, <1>9 DEF HInv, Traces

-----------------------------------------------------------------------------
(* Losing the process, errors and damaged files                              *)

\* The HEAD.json an undone rename leaves in staging/ is the Head in doubt.
LEMMA ShutdownStages ==
    ASSUME HInv, Shutdown, staged' # staged
    PROVE  \E c \in Projects : /\ Doubtful(c) /\ staged' = head[c] /\ head'[c] = headSynced[c]
<1>. DEFINE moved(q) == head'[q] # head[q]
            c == CHOOSE q \in Projects : moved(q)
<1>1. \E q \in Projects : moved(q)
  BY DEF Shutdown
<1>2. c \in Projects /\ moved(c)
  BY <1>1
<1>3. staged' = head[c]
  BY <1>1 DEF Shutdown
<1>4. head'[c] \in {head[c], headSynced[c]}
  BY <1>2 DEF Shutdown, Settled
<1>. HIDE DEF c
<1>. QED
  BY <1>2, <1>3, <1>4 DEF Doubtful

LEMMA ShutdownHistory == ASSUME IInv, HInv, Shutdown PROVE HInv'
<1>1. /\ ledger' = ledger /\ entries' = NoEntries /\ pc' = "down"
      /\ placeSynced' = place' /\ headSynced' = head'
      /\ published' = published \cup ({head'[p] : p \in Projects} \ {NoRev})
  BY DEF Shutdown
<1>2. \A p \in Projects : /\ place'[p] \in {place[p], placeSynced[p]}
                          /\ head'[p] \in {head[p], headSynced[p]}
                          /\ pointers'[p] \subseteq pointers[p]
  <2>1. PICK kept : place' = Settled(place, placeSynced, kept)
    BY DEF Shutdown
  <2>2. PICK settled : head' = Settled(head, headSynced, settled)
    BY DEF Shutdown
  <2>3. PICK saved : pointers' = Settled(pointers, pointersSynced, saved)
    BY DEF Shutdown
  <2>. QED
    BY <2>1, <2>2, <2>3 DEF Settled, IInv, DiskInv, DiskKnown
<1>3. \A p \in Projects : InPlace(p) => InPlace(p)'
  BY <1>1, <1>2 DEF InPlace
<1>4. Owned'
  <2>1. \A p \in Projects : place'[p] = "none" => place[p] = "none"
    BY <1>2 DEF IInv, DiskInv, Empty
  <2>. QED
    BY <1>1, <1>2, <2>1 DEF HInv, Traces, Owned, Revs, SeqOf
<1>5. Doubt' /\ HeadsPublished'
  BY <1>1 DEF Doubt, HeadsPublished, Doubtful
<1>6. ShownPublished'
  BY <1>1 DEF ShownPublished, NoEntries, NoEntry
<1>7. \A q \in Projects : staged' # staged /\ Doubtful(q) =>
         staged' = head[q] /\ head'[q] = headSynced[q] /\ staged' \in Revs /\ ledger[staged'].project = q
  <2>. SUFFICES ASSUME NEW q \in Projects, staged' # staged, Doubtful(q)
                PROVE  /\ staged' = head[q] /\ head'[q] = headSynced[q]
                       /\ staged' \in Revs /\ ledger[staged'].project = q
    OBVIOUS
  <2>1. PICK c \in Projects : Doubtful(c) /\ staged' = head[c] /\ head'[c] = headSynced[c]
    BY ShutdownStages
  <2>2. c = q /\ head[c] # NoRev
    BY <2>1 DEF HInv, Traces, Doubt
  <2>. QED
    BY <2>1, <2>2, HeadTypes DEF IInv, TInv, HInv, Traces, Owned, RevOrNone
<1>8. staged' # staged => staged = NoRev /\ \E q \in Projects : Doubtful(q)
  BY ShutdownStages DEF HInv, Traces, Doubt
<1>9. Pending'
  <2>. SUFFICES ASSUME NEW p \in Projects, staged' \in pointers'[p] PROVE InPlace(p)
    BY <1>1, <1>3 DEF Pending, Doubtful
  <2>1. staged' \in pointers[p] /\ ledger[staged'].project = p
    BY <1>2 DEF HInv, Traces, Owned
  <2>2. CASE staged' = staged
    BY <2>1, <2>2 DEF HInv, Traces, Pending
  <2>3. CASE staged' # staged
    BY <1>7, <1>8, <2>1, <2>3 DEF HInv, Traces, Pending
  <2>. QED
    BY <2>2, <2>3
<1>10. LooseKnown'
  <2>. SUFFICES ASSUME NEW p \in Projects, NEW r \in Loose(p)'
                PROVE  \/ staged' = r /\ head'[p] \in {NoRev, ledger[r].parent}
                       \/ head'[p] = NoRev /\ ~StagedFor(p)'
    BY <1>1 DEF LooseKnown, Doubtful
  <2>1. r \in Loose(p) /\ r \in Revs /\ r # NoRev /\ head'[p] # r
    BY <1>1, <1>2, HeadTypes DEF Loose, IInv, TInv
  <2>2. CASE Doubtful(p)
    <3>1. head[p] = r
      BY <2>1, <2>2 DEF HInv, Traces, LooseKnown, Doubt
    <3>2. head'[p] = headSynced[p] /\ head'[p] = ledger[r].parent
      BY <1>2, <2>1, <2>2, <3>1 DEF HInv, Traces, Doubt
    <3>3. staged' = r
      <4>1. head'[p] # head[p]
        BY <2>1, <3>1
      <4>2. PICK c \in Projects : head'[c] # head[c] /\ staged' = head[c]
        <5>. DEFINE moved(q) == head'[q] # head[q]
        <5>1. \E q \in Projects : moved(q)
          BY <4>1
        <5>2. moved(CHOOSE q \in Projects : moved(q)) /\ (CHOOSE q \in Projects : moved(q)) \in Projects
          BY <5>1
        <5>3. staged' = head[CHOOSE q \in Projects : moved(q)]
          BY <5>1 DEF Shutdown
        <5>. QED
          BY <5>2, <5>3
      <4>3. Doubtful(c)
        BY <1>2, <4>2 DEF Doubtful
      <4>. QED
        BY <2>2, <3>1, <4>2, <4>3 DEF HInv, Traces, Doubt
    <3>. QED
      BY <3>2, <3>3
  <2>3. CASE ~Doubtful(p)
    <3>1. head'[p] = head[p]
      BY <1>2, <2>3 DEF Doubtful
    <3>2. CASE staged' = staged
      BY <1>1, <2>1, <2>3, <3>1, <3>2 DEF HInv, Traces, LooseKnown, StagedFor
    <3>3. CASE staged' # staged
      <4>1. head[p] = NoRev
        BY <1>8, <2>1, <2>3, <3>3 DEF HInv, Traces, LooseKnown
      <4>2. ~StagedFor(p)'
        BY <1>1, <1>7, <1>8, <2>3, <3>3 DEF StagedFor
      <4>. QED
        BY <3>1, <4>1, <4>2
    <3>. QED
      BY <3>2, <3>3
  <2>. QED
    BY <2>2, <2>3
<1>11. Viewed' /\ Recovered' /\ PlaceInDoubt' /\ StagedKnown' /\ Underway'
  BY <1>1 DEF Viewed, Recovered, PlaceInDoubt, StagedKnown, Underway, Fresh, Reading, Staging,
     BeforeHead, BeforePointer, Settling
<1>. QED
  BY <1>4, <1>5, <1>6, <1>9, <1>10, <1>11 DEF HInv, Traces

LEMMA BlockHistory == ASSUME IInv, HInv, Block PROVE HInv'
<1>1. CASE Shutdown
  BY <1>1, ShutdownHistory
<1>2. CASE blocked' = TRUE /\ pc' = "idle" /\ UNCHANGED <<ledger, diskVars, entries>>
  <2>1. Traces'
    BY <1>2, TracesKept DEF HInv, Same, diskVars, placeVars, headVars, pointerVars
  <2>2. Viewed' /\ Recovered' /\ PlaceInDoubt' /\ StagedKnown' /\ Underway'
    BY <1>2 DEF Viewed, Recovered, PlaceInDoubt, StagedKnown, Underway, Fresh, Reading, Staging,
       BeforeHead, BeforePointer, Settling
  <2>. QED
    BY <2>1, <2>2 DEF HInv
<1>. QED
  BY <1>1, <1>2 DEF Block

LEMMA CrashHistory == ASSUME IInv, HInv, Crash \/ Close PROVE HInv'
  BY ShutdownHistory DEF Crash, Close

\* A damaged file moves nothing; neither does no step at all.
LEMMA NothingMoves == ASSUME HInv, Still, UNCHANGED <<pc, op, scan>> PROVE HInv'
<1>1. Traces'
  BY TracesKept DEF HInv, Still
<1>2. Viewed' /\ Recovered'
  BY DEF HInv, Viewed, Recovered, Still, Same, Accurate, Loose
<1>3. PlaceInDoubt' /\ StagedKnown' /\ Underway'
  BY DEF HInv, PlaceInDoubt, StagedKnown, Underway, Still, Same, InPlace, Loose
<1>. QED
  BY <1>1, <1>2, <1>3 DEF HInv

LEMMA RotHistory ==
    ASSUME HInv, (\E p \in Projects : RotHead(p)) \/ (\E o \in objects : RotObject(o))
    PROVE  HInv'
<1>. Still /\ UNCHANGED <<pc, op, scan>>
  BY DEF RotHead, RotObject, Still, Same, placeVars, headVars, pointerVars, memVars
<1>. QED
  BY NothingMoves

\* A refresh that starts with the disk as it was.
LEMMA StillRefresh ==
    ASSUME HInv, ~blocked, NEW then, StartRefresh(then), UNCHANGED <<ledger, diskVars, memVars>>,
           then = "block" \/ \A p \in Projects : place[p] = placeSynced[p],
           staged = NoRev \/ then \in {"scavenge", "reconcile"}
    PROVE  HInv'
<1>. Still
  BY DEF Still, Same, diskVars, placeVars, headVars, pointerVars, memVars
<1>. QED
  BY RestartsStill

LEMMA FailRefreshHistory == ASSUME IInv, HInv, Older = {}, FailRefresh PROVE HInv'
<1>. pc \in Reading /\ ~blocked
  BY RefreshFacts DEF FailRefresh, Reading
<1>1. CASE Block
  BY <1>1, BlockHistory
<1>2. CASE scan.then \in {"verify", "collect", "idle"}
           /\ (\E then \in {"reconcile", "abort"} : StartRefresh(then))
           /\ UNCHANGED <<ledger, diskVars, memVars>>
  <2>1. staged = NoRev
    BY <1>2, NothingStaged DEF Reading, Staging, BeforeHead, BeforePointer
  <2>2. \A p \in Projects : place[p] = placeSynced[p]
    BY <1>2, PlacesSettled DEF Reading
  <2>. QED
    BY <1>2, <2>1, <2>2, StillRefresh
<1>3. CASE scan.then = "idle" /\ op.kind = "upgrade"
  BY <1>3 DEF IInv, TInv, OpNamed
<1>. QED
  BY <1>1, <1>2, <1>3 DEF FailRefresh

-----------------------------------------------------------------------------
(* Opening                                                                   *)

LEMMA OpenHistory == ASSUME IInv, HInv, Open PROVE HInv'
<1>1. ~blocked /\ \A p \in Projects : place[p] = placeSynced[p]
  BY Unblocked, PlacesSettled DEF Open, Reading
<1>. QED
  BY <1>1, StillRefresh DEF Open

\* Between two steps only a directory without a Head lists anything loose, so
\* what is staged may be removed.
LEMMA StagingCleared ==
    ASSUME IInv, HInv, pc \in Fresh, ~blocked, Same, staged' = NoRev
    PROVE  Traces'
<1>1. Owned' /\ HeadsPublished' /\ ShownPublished'
  BY DEF HInv, Traces, Same, Owned, HeadsPublished, ShownPublished, Revs, SeqOf
<1>2. Doubt' /\ Pending'
  <2>. \A p \in Projects : NoRev \notin pointers[p]
    BY HeadTypes DEF IInv, TInv
  <2>. QED
    BY DEF HInv, Traces, Same, Doubt, Pending, Doubtful, InPlace
<1>3. LooseKnown'
  <2>. SUFFICES ASSUME NEW p \in Projects, NEW r \in Loose(p) PROVE head[p] = NoRev
    BY DEF LooseKnown, Loose, StagedFor, Same
  <2>. QED
    BY DEF HInv, Viewed, Accurate
<1>. QED
  BY <1>1, <1>2, <1>3 DEF Traces

LEMMA ScavengeHistory == ASSUME IInv, HInv, Scavenge PROVE HInv'
<1>1. pc \in Fresh \ {"block"} /\ pc' \in Fresh /\ ~blocked
  BY Unblocked DEF Scavenge, Fresh
<1>2. Same /\ staged' = NoRev /\ blocked' = blocked
  BY DEF Scavenge, Same, placeVars, headVars, pointerVars, memVars
<1>. QED
  BY <1>1, <1>2, StagingCleared, Settles

LEMMA StillSettles ==
    ASSUME HInv, ~blocked, UNCHANGED <<ledger, placeVars, headVars, pointerVars, staged, memVars>>,
           pc \in {"migrate", "collect", "abort", "verify"}, pc' \in Fresh
    PROVE  HInv'
<1>1. Still
  BY DEF Still, Same, placeVars, headVars, pointerVars, memVars
<1>2. staged = NoRev
  BY NothingStaged DEF Reading, Staging, BeforeHead, BeforePointer
<1>. QED
  BY <1>1, <1>2, SettlesStill DEF Fresh

LEMMA MigrationsDoneHistory == ASSUME IInv, HInv, MigrationsDone PROVE HInv'
  BY Unblocked, StillSettles DEF MigrationsDone, Fresh, diskVars

LEMMA CollectHistory == ASSUME IInv, HInv, Collect PROVE HInv'
  BY Unblocked, StillSettles DEF Collect, Fresh

LEMMA FailMigrationHistory == ASSUME IInv, HInv, NEW r \in Revs, FailMigration(r) PROVE HInv'
<1>1. ~blocked /\ pc = "migrate"
  BY Unblocked DEF FailMigration
<1>2. staged = NoRev /\ \A p \in Projects : place[p] = placeSynced[p]
  BY <1>1, NothingStaged, PlacesSettled DEF Reading, Staging, BeforeHead, BeforePointer
<1>. QED
  BY <1>1, <1>2, StillRefresh DEF FailMigration

LEMMA FailCollectHistory == ASSUME IInv, HInv, FailCollect PROVE HInv'
<1>1. CASE Block
  BY <1>1, BlockHistory
<1>2. CASE pc = "collect" /\ StartRefresh("abort") /\ UNCHANGED <<ledger, diskVars, memVars>>
  <2>1. ~blocked
    BY <1>2, Unblocked
  <2>2. staged = NoRev /\ \A p \in Projects : place[p] = placeSynced[p]
    BY <1>2, <2>1, NothingStaged, PlacesSettled DEF Reading, Staging, BeforeHead, BeforePointer
  <2>. QED
    BY <1>2, <2>1, <2>2, StillRefresh
<1>. QED
  BY <1>1, <1>2 DEF FailCollect

-----------------------------------------------------------------------------
(* Publishing one revision                                                   *)

\* Between mutations no Head is in doubt and nothing is staged.
LEMMA IdleFacts ==
    ASSUME IInv, HInv, Accepting
    PROVE  /\ ~blocked /\ pc = "idle" /\ staged = NoRev
           /\ \A p \in Projects : /\ Accurate(p, entries[p]) /\ place[p] = placeSynced[p]
                                  /\ head[p] = headSynced[p]
<1>1. ~blocked /\ pc = "idle"
  BY DEF Accepting
<1>2. staged = NoRev
  BY <1>1, NothingStaged DEF Reading, Staging, BeforeHead, BeforePointer
<1>3. \A p \in Projects : place[p] = placeSynced[p]
  BY <1>1, PlacesSettled DEF Reading
<1>4. \A p \in Projects : Accurate(p, entries[p])
  BY <1>1 DEF HInv, Viewed, Fresh
<1>5. \A p \in Projects : head[p] = headSynced[p]
  BY <1>1 DEF IInv, StepInv, HeadInDoubt, Settling
<1>. QED
  BY <1>1, <1>2, <1>3, <1>4, <1>5

LEMMA IssueHistory ==
    ASSUME IInv, HInv, Accepting, NEW kind, NEW p \in Projects, NEW parent \in RevOrNone,
           NEW v, Issue(kind, p, parent, v), head[p] = parent, Loose(p) = {}
    PROVE  HInv'
<1>. DEFINE n == Len(ledger) + 1
            record == [project |-> p, parent |-> parent, seq |-> SeqOf(parent) + 1,
                       payload |-> v, line |-> Line(parent) \cup {n}]
<1>1. Revs = 1..Len(ledger) /\ Len(ledger) \in Nat /\ ledger \in Seq(Revision)
  BY DEF IInv, TInv, TypeOK, Revs
<1>2. ledger' = Append(ledger, record)
  BY DEF Issue
<1>3. Revs' = Revs \cup {n} /\ n \notin Revs /\ n # NoRev
  BY <1>1, <1>2 DEF Revs
<1>4. ledger'[n] = record /\ \A r \in Revs : ledger'[r] = ledger[r]
  BY <1>1, <1>2
<1>5. \A r \in RevOrNone : SeqOf(r)' = SeqOf(r)
  BY <1>4 DEF SeqOf, RevOrNone
<1>6. UNCHANGED <<place, placeSynced, head, headSynced, pointers, published, staged, entries, blocked>>
  BY DEF Issue, diskVars, placeVars, headVars, pointerVars, memVars
<1>7. op'.project = p /\ op'.rev = n /\ pc' = "stage"
  BY DEF Issue, IInv, TInv, TypeOK, ControlTypes, OpRecord
<1>8. /\ NoRev \notin Revs /\ staged = NoRev
      /\ \A q \in Projects : /\ head[q] \in RevOrNone /\ headSynced[q] \in RevOrNone
                             /\ pointers[q] \subseteq Revs /\ ~Doubtful(q)
                             /\ place[q] = placeSynced[q]
  BY HeadTypes, IdleFacts DEF Doubtful, IInv, TInv
<1>9. Owned'
  <2>1. \A r \in Revs : ledger[r].parent \in RevOrNone
    BY <1>1 DEF IInv, DiskInv, LedgerOK, RevOrNone
  <2>2. \A r \in Revs' : ledger'[r].seq = SeqOf(ledger[r].parent)' + 1
    <3>. SUFFICES ASSUME NEW r \in Revs' PROVE ledger'[r].seq = SeqOf(ledger[r].parent)' + 1
      OBVIOUS
    <3>1. CASE r = n
      <4>1. SeqOf(ledger[r].parent)' = SeqOf(parent)'
        BY <1>4, <3>1 DEF SeqOf
      <4>. QED
        BY <1>4, <1>5, <3>1, <4>1
    <3>2. CASE r \in Revs
      <4>1. PICK x \in RevOrNone : x = ledger[r].parent
        BY <2>1, <3>2
      <4>2. SeqOf(ledger[r].parent)' = SeqOf(x)'
        BY <1>4, <3>2, <4>1 DEF SeqOf
      <4>3. ledger[r].seq = SeqOf(x) + 1
        BY <3>2, <4>1 DEF HInv, Traces, Owned
      <4>. QED
        BY <1>4, <1>5, <3>2, <4>1, <4>2, <4>3
    <3>. QED
      BY <1>3, <3>1, <3>2
  <2>3. \A q \in Projects : \A r \in pointers[q] : ledger'[r].project = q
    BY <1>4, <1>8 DEF HInv, Traces, Owned
  <2>4. \A q \in Projects : \A h \in {head[q], headSynced[q]} \ {NoRev} : ledger'[h].project = q
    BY <1>4, <1>8 DEF HInv, Traces, Owned, RevOrNone
  <2>5. \A q \in Projects : place[q] = "none" => pointers[q] = {}
    BY DEF HInv, Traces, Owned
  <2>. QED
    BY <1>6, <2>2, <2>3, <2>4, <2>5 DEF Owned
<1>10. Doubt' /\ Pending' /\ HeadsPublished' /\ ShownPublished'
  BY <1>6, <1>8 DEF HInv, Traces, Doubt, Pending, HeadsPublished, ShownPublished, Doubtful, InPlace
<1>11. LooseKnown'
  BY <1>4, <1>6, <1>8 DEF HInv, Traces, LooseKnown, Loose, Doubtful, StagedFor
<1>12. Viewed' /\ Recovered' /\ PlaceInDoubt' /\ StagedKnown'
  BY <1>6, <1>7, <1>8 DEF Viewed, Recovered, PlaceInDoubt, StagedKnown, Fresh, Reading
<1>13. Underway'
  BY <1>4, <1>6, <1>7 DEF Underway, Loose, Staging, BeforeHead, BeforePointer, Settling
<1>. QED
  BY <1>9, <1>10, <1>11, <1>12, <1>13 DEF HInv, Traces

LEMMA CreateHistory ==
    ASSUME IInv, HInv, NEW p \in Projects, NEW v, Create(p, v) \/ RestoreRevision(p, v)
    PROVE  HInv'
<1>1. Accepting /\ entries[p].status = "none" /\ NoRev \in RevOrNone
  BY DEF Create, RestoreRevision, RevOrNone
<1>2. place[p] = "none"
  BY <1>1, IdleFacts DEF Accurate
<1>3. head[p] = NoRev /\ Loose(p) = {}
  BY <1>2 DEF IInv, DiskInv, Empty, HInv, Traces, Owned, Loose
<1>. QED
  BY <1>1, <1>3, IssueHistory DEF Create, RestoreRevision

LEMMA ExtendsHistory ==
    ASSUME IInv, HInv, NEW p \in Projects, NEW v, Accepting, Writable(p), NEW kind,
           Issue(kind, p, entries[p].rev, v)
    PROVE  HInv'
<1>1. head[p] = entries[p].rev /\ Loose(p) = {} /\ head[p] \in RevOrNone
  BY IdleFacts, HeadTypes DEF Writable, Accurate, IInv, TInv
<1>. QED
  BY <1>1, IssueHistory

LEMMA ChangeHistory ==
    ASSUME IInv, HInv, NEW p \in Projects, (\E v \in Payloads : Change(p, v)) \/ \E r \in Revs : Rollback(p, r)
    PROVE  HInv'
  BY ExtendsHistory DEF Change, Rollback

LEMMA StageHistory == ASSUME IInv, HInv, Stage PROVE HInv'
<1>1. op.project \in Projects /\ op.rev \in Revs /\ ~blocked
  BY Publishes DEF Stage, Step, Publishing
<1>2. /\ Same /\ blocked' = blocked /\ staged' = op.rev /\ op' = op
      /\ pc = "stage" /\ pc' = "install_payload"
  BY DEF Stage, Step, Same, placeVars, headVars, pointerVars, memVars
<1>3. staged = NoRev
  BY <1>1, <1>2, NothingStaged DEF Reading, Staging, BeforeHead, BeforePointer
<1>4. \A p \in Projects : place[p] = placeSynced[p] /\ head[p] = headSynced[p] /\ op.rev \notin pointers[p]
  BY <1>1, <1>2, PlacesSettled
  DEF Reading, IInv, StepInv, HeadInDoubt, Publication, Settling, BeforePointer
<1>5. /\ ledger[op.rev].project = op.project /\ Loose(op.project) = {}
      /\ ledger[op.rev].parent = head[op.project]
  BY <1>2 DEF HInv, Underway, BeforeHead, BeforePointer
<1>6. Owned' /\ HeadsPublished' /\ ShownPublished'
  BY <1>2 DEF HInv, Traces, Same, Owned, HeadsPublished, ShownPublished, Revs, SeqOf
<1>7. Doubt' /\ Pending'
  BY <1>2, <1>4 DEF Same, Doubt, Pending, Doubtful
<1>8. LooseKnown'
  <2>. SUFFICES ASSUME NEW p \in Projects, NEW r \in Loose(p)
                PROVE  head[p] = NoRev /\ p # op.project
    BY <1>2, <1>5 DEF Same, LooseKnown, Loose, StagedFor
  <2>1. r # NoRev /\ ~Doubtful(p)
    BY <1>4, HeadTypes DEF Loose, Doubtful, IInv, TInv
  <2>. QED
    BY <1>3, <1>5, <2>1 DEF HInv, Traces, LooseKnown
<1>9. Viewed' /\ Recovered' /\ PlaceInDoubt' /\ StagedKnown'
  BY <1>2, <1>4 DEF Same, Viewed, Recovered, PlaceInDoubt, StagedKnown, Fresh, Reading, Staging,
     BeforeHead, BeforePointer
<1>10. Underway'
  BY <1>2, <1>5 DEF Same, Underway, Loose, Staging, BeforeHead, BeforePointer, Settling
<1>. QED
  BY <1>6, <1>7, <1>8, <1>9, <1>10 DEF HInv, Traces

LEMMA InstallHistory ==
    ASSUME IInv, HInv, InstallPayload \/ SyncPayload \/ InstallRevision \/ SyncRevision
    PROVE  HInv'
<1>1. Still /\ op' = op
  BY DEF InstallPayload, SyncPayload, InstallRevision, SyncRevision, Step, InstallObject,
     SyncObjects, Still, Same, placeVars, headVars, pointerVars, memVars
<1>2. <<pc, pc'>> \in {<<"install_payload", "sync_payload">>, <<"sync_payload", "install_revision">>,
                       <<"install_revision", "sync_revision">>, <<"sync_revision", "make_directory">>}
  BY DEF InstallPayload, SyncPayload, InstallRevision, SyncRevision, Step
<1>3. ~blocked
  BY <1>2, Unblocked
<1>. QED
  BY <1>1, <1>2, <1>3, Advances

LEMMA SyncPointerHistory == ASSUME IInv, HInv, SyncPointer \/ FailSyncHead PROVE HInv'
<1>1. Still /\ op' = op
  BY DEF SyncPointer, FailSyncHead, Step, Still, Same, diskVars, placeVars, headVars, pointerVars, memVars
<1>2. <<pc, pc'>> \in {<<"sync_pointer", "rename_head">>, <<"sync_head", "retry_head">>}
  BY DEF SyncPointer, FailSyncHead, Step
<1>3. ~blocked
  BY <1>2, Unblocked
<1>. QED
  BY <1>1, <1>2, <1>3, Advances

LEMMA MakeDirectoryHistory == ASSUME IInv, HInv, MakeDirectory PROVE HInv'
<1>1. op.project \in Projects /\ op.rev \in Revs /\ ~blocked
  BY Publishes DEF MakeDirectory, Step, Publishing
<1>2. /\ UNCHANGED <<ledger, head, headSynced, pointers, published, entries, staged, blocked, op>>
      /\ place' = [place EXCEPT ![op.project] = "active"]
      /\ placeSynced' = [placeSynced EXCEPT ![op.project] = "active"]
      /\ pc = "make_directory" /\ pc' = "rename_pointer"
  BY DEF MakeDirectory, Step, headVars, pointerVars, memVars
<1>3. /\ place'[op.project] = "active" /\ placeSynced'[op.project] = "active"
      /\ \A q \in Projects \ {op.project} : place'[q] = place[q] /\ placeSynced'[q] = placeSynced[q]
  BY <1>1, <1>2 DEF IInv, TInv, TypeOK, DiskTypes
<1>4. /\ \A p \in Projects : place[p] = placeSynced[p] /\ head[p] = headSynced[p] /\ op.rev \notin pointers[p]
      /\ staged = op.rev
  BY <1>1, <1>2, PlacesSettled
  DEF Reading, IInv, StepInv, HeadInDoubt, Publication, Settling, BeforePointer, BeforeHead,
      HInv, Underway, Staging
<1>5. Owned'
  BY <1>2, <1>3 DEF HInv, Traces, Owned, Revs, SeqOf
<1>6. Doubt' /\ Pending' /\ HeadsPublished' /\ ShownPublished'
  BY <1>2, <1>4 DEF HInv, Traces, Doubt, Pending, HeadsPublished, ShownPublished, Doubtful
<1>7. LooseKnown'
  BY <1>2 DEF HInv, Traces, LooseKnown, Loose, Doubtful, StagedFor
<1>8. Viewed' /\ Recovered' /\ PlaceInDoubt' /\ StagedKnown'
  BY <1>2, <1>3, <1>4 DEF Viewed, Recovered, PlaceInDoubt, StagedKnown, Fresh, Reading, Staging,
     BeforeHead, BeforePointer
<1>9. Underway'
  BY <1>2, <1>3, <1>4 DEF HInv, Underway, Loose, InPlace, Staging, BeforeHead, BeforePointer, Settling
<1>. QED
  BY <1>5, <1>6, <1>7, <1>8, <1>9 DEF HInv, Traces

LEMMA RenamePointerHistory == ASSUME IInv, HInv, RenamePointer PROVE HInv'
<1>1. op.project \in Projects /\ op.rev \in Revs /\ ~blocked
  BY Publishes DEF RenamePointer, Step, Publishing
<1>2. /\ UNCHANGED <<ledger, place, placeSynced, head, headSynced, published, entries, staged, blocked, op>>
      /\ pointers' = [pointers EXCEPT ![op.project] = @ \cup {op.rev}]
      /\ pc = "rename_pointer" /\ pc' = "sync_pointer"
  BY DEF RenamePointer, Step, placeVars, headVars, memVars
<1>3. /\ pointers'[op.project] = pointers[op.project] \cup {op.rev}
      /\ \A q \in Projects \ {op.project} : pointers'[q] = pointers[q]
  BY <1>1, <1>2 DEF IInv, TInv, TypeOK, DiskTypes
<1>4. \A p \in Projects : place[p] = placeSynced[p] /\ head[p] = headSynced[p]
  BY <1>1, <1>2, PlacesSettled DEF Reading, IInv, StepInv, HeadInDoubt, Settling
<1>5. /\ ledger[op.rev].project = op.project /\ Loose(op.project) = {} /\ staged = op.rev
      /\ ledger[op.rev].parent = head[op.project] /\ InPlace(op.project)
  BY <1>2 DEF HInv, Underway, BeforeHead, BeforePointer, Staging
<1>6. \A q \in Projects \ {op.project} : op.rev \notin pointers[q]
  BY <1>5 DEF HInv, Traces, Owned
<1>7. Owned'
  <2>1. \A r \in Revs' : ledger'[r].seq = SeqOf(ledger[r].parent)' + 1
    BY <1>2 DEF HInv, Traces, Owned, Revs, SeqOf
  <2>2. \A q \in Projects : \A r \in pointers'[q] : ledger[r].project = q
    BY <1>3, <1>5 DEF HInv, Traces, Owned
  <2>3. \A q \in Projects : place[q] = "none" => pointers'[q] = {}
    BY <1>3, <1>5 DEF HInv, Traces, Owned, InPlace
  <2>. QED
    BY <1>2, <2>1, <2>2, <2>3 DEF HInv, Traces, Owned
<1>8. Doubt' /\ Pending' /\ HeadsPublished' /\ ShownPublished'
  BY <1>2, <1>3, <1>4, <1>5, <1>6 DEF HInv, Traces, Doubt, Pending, HeadsPublished, ShownPublished,
     Doubtful, InPlace
<1>9. LooseKnown'
  <2>. SUFFICES ASSUME NEW p \in Projects, NEW r \in Loose(p)'
                PROVE  \/ staged = r /\ head[p] \in {NoRev, ledger[r].parent}
                       \/ head[p] = NoRev /\ ~StagedFor(p)
    BY <1>2 DEF LooseKnown, StagedFor
  <2>1. CASE p = op.project
    BY <1>2, <1>3, <1>5, <2>1 DEF Loose
  <2>2. CASE p # op.project
    BY <1>2, <1>3, <1>4, <2>2 DEF HInv, Traces, LooseKnown, Loose, Doubtful, StagedFor
  <2>. QED
    BY <2>1, <2>2
<1>10. Viewed' /\ Recovered' /\ PlaceInDoubt' /\ StagedKnown'
  BY <1>2, <1>4 DEF Viewed, Recovered, PlaceInDoubt, StagedKnown, Fresh, Reading, Staging,
     BeforeHead, BeforePointer
<1>11. Underway'
  BY <1>2, <1>5 DEF HInv, Underway, InPlace, Staging, BeforeHead, BeforePointer, Settling
<1>. QED
  BY <1>7, <1>8, <1>9, <1>10, <1>11 DEF HInv, Traces

LEMMA RenameHeadHistory == ASSUME IInv, HInv, RenameHead PROVE HInv'
<1>1. op.project \in Projects /\ op.rev \in Revs /\ ~blocked /\ op.rev # NoRev
  BY Publishes, HeadTypes DEF RenameHead, Step, Publishing, IInv, TInv
<1>2. /\ UNCHANGED <<ledger, place, placeSynced, headSynced, published, pointers, entries, blocked, op>>
      /\ head' = [head EXCEPT ![op.project] = op.rev] /\ staged' = NoRev
      /\ pc = "rename_head" /\ pc' = "sync_head"
  BY DEF RenameHead, Step, placeVars, pointerVars, memVars
<1>3. head'[op.project] = op.rev /\ \A q \in Projects \ {op.project} : head'[q] = head[q]
  BY <1>1, <1>2 DEF IInv, TInv, TypeOK, DiskTypes
<1>4. \A p \in Projects : place[p] = placeSynced[p] /\ head[p] = headSynced[p] /\ ~Doubtful(p)
  BY <1>1, <1>2, PlacesSettled DEF Reading, IInv, StepInv, HeadInDoubt, Settling, Doubtful
<1>5. /\ ledger[op.rev].project = op.project /\ staged = op.rev
      /\ ledger[op.rev].parent = head[op.project] /\ InPlace(op.project)
  BY <1>2 DEF HInv, Underway, BeforeHead, BeforePointer, Staging
<1>6. \A p \in Projects : NoRev \notin pointers[p]
  BY HeadTypes DEF IInv, TInv
<1>7. Owned'
  <2>1. \A r \in Revs' : ledger'[r].seq = SeqOf(ledger[r].parent)' + 1
    BY <1>2 DEF HInv, Traces, Owned, Revs, SeqOf
  <2>2. \A q \in Projects : \A h \in {head'[q], headSynced[q]} \ {NoRev} : ledger[h].project = q
    BY <1>3, <1>5 DEF HInv, Traces, Owned
  <2>. QED
    BY <1>2, <2>1, <2>2 DEF HInv, Traces, Owned
<1>8. Doubt'
  BY <1>1, <1>2, <1>3, <1>4, <1>5 DEF Doubt, Doubtful
<1>9. Pending' /\ HeadsPublished' /\ ShownPublished'
  BY <1>2, <1>3, <1>4, <1>5, <1>6 DEF HInv, Traces, Pending, HeadsPublished, ShownPublished, Doubtful, InPlace
<1>10. LooseKnown'
  <2>. SUFFICES ASSUME NEW p \in Projects, NEW r \in Loose(p)
                PROVE  \/ head'[p] = r /\ head'[p] # headSynced[p]
                       \/ head'[p] = NoRev
    BY <1>2 DEF LooseKnown, Loose, Doubtful, StagedFor
  <2>1. r \in pointers[p] /\ r \notin published
    BY DEF Loose
  <2>2. \/ staged = r
        \/ head[p] = NoRev /\ ~StagedFor(p)
    BY <1>4 DEF HInv, Traces, LooseKnown
  <2>3. CASE staged = r
    <3>1. p = op.project
      BY <1>5, <2>1, <2>3 DEF HInv, Traces, Owned
    <3>2. head'[p] = r /\ headSynced[p] # r
      BY <1>1, <1>3, <1>5, <2>1, <2>3, <3>1 DEF HInv, Traces, HeadsPublished
    <3>. QED
      BY <3>2
  <2>4. CASE head[p] = NoRev /\ ~StagedFor(p)
    <3>1. p # op.project
      BY <1>1, <1>5, <2>4 DEF StagedFor
    <3>. QED
      BY <1>3, <2>4, <3>1
  <2>. QED
    BY <2>2, <2>3, <2>4
<1>11. Viewed' /\ Recovered' /\ PlaceInDoubt' /\ StagedKnown'
  BY <1>2, <1>4 DEF Viewed, Recovered, PlaceInDoubt, StagedKnown, Fresh, Reading
<1>12. Underway'
  BY <1>2, <1>5 DEF Underway, InPlace, Staging, BeforeHead, BeforePointer, Settling
<1>. QED
  BY <1>7, <1>8, <1>9, <1>10, <1>11, <1>12 DEF HInv, Traces

LEMMA HeadDurableHistory == ASSUME IInv, HInv, SyncHead \/ RetryHead PROVE HInv'
<1>1. pc \in Settling /\ pc' = "clean" /\ HeadDurable
  BY DEF SyncHead, RetryHead, Step, Settling
<1>2. op.project \in Projects /\ op.rev \in Revs /\ ~blocked
  BY <1>1, Publishes
<1>3. /\ UNCHANGED <<ledger, place, placeSynced, head, pointers, staged, entries, blocked>>
      /\ headSynced' = [headSynced EXCEPT ![op.project] = op.rev]
      /\ published' = published \cup {op.rev}
  BY <1>1 DEF HeadDurable, placeVars, pointerVars, memVars
<1>4. headSynced'[op.project] = op.rev /\ \A q \in Projects \ {op.project} : headSynced'[q] = headSynced[q]
  BY <1>2, <1>3 DEF IInv, TInv, TypeOK, DiskTypes
<1>5. head[op.project] = op.rev /\ \A q \in Projects \ {op.project} : head[q] = headSynced[q]
  BY <1>1, <1>2 DEF IInv, StepInv, Publication, HeadInDoubt
<1>6. staged = NoRev /\ \A p \in Projects : place[p] = placeSynced[p]
  BY <1>1, <1>2, NothingStaged, PlacesSettled DEF Reading, Staging, BeforeHead, BeforePointer, Settling
<1>7. \A q \in Projects : head'[q] = headSynced'[q] /\ ~Doubtful(q)'
  BY <1>3, <1>4, <1>5 DEF Doubtful
<1>8. Owned'
  <2>1. \A r \in Revs' : ledger'[r].seq = SeqOf(ledger[r].parent)' + 1
    BY <1>3 DEF HInv, Traces, Owned, Revs, SeqOf
  <2>2. \A q \in Projects : \A h \in {head'[q], headSynced'[q]} \ {NoRev} : ledger[h].project = q
    BY <1>3, <1>7 DEF HInv, Traces, Owned
  <2>. QED
    BY <1>3, <2>1, <2>2 DEF HInv, Traces, Owned
<1>9. Doubt' /\ Pending' /\ HeadsPublished' /\ ShownPublished'
  <2>1. Doubt'
    BY <1>7 DEF Doubt
  <2>2. Pending'
    BY <1>3, <1>7 DEF HInv, Traces, Pending, InPlace
  <2>3. HeadsPublished' /\ ShownPublished'
    BY <1>3, <1>4 DEF HInv, Traces, HeadsPublished, ShownPublished
  <2>. QED
    BY <2>1, <2>2, <2>3
<1>10. LooseKnown'
  <2>. SUFFICES ASSUME NEW p \in Projects, NEW r \in Loose(p)'
                PROVE  head[p] = NoRev
    BY <1>3, <1>6 DEF LooseKnown, StagedFor
  <2>1. r \in Loose(p) /\ r # op.rev /\ r # NoRev
    BY <1>3, HeadTypes DEF Loose, IInv, TInv
  <2>2. ~(head[p] = r /\ Doubtful(p))
    BY <1>5, <2>1 DEF Doubtful
  <2>. QED
    BY <1>6, <2>1, <2>2 DEF HInv, Traces, LooseKnown
<1>11. Viewed' /\ Recovered' /\ PlaceInDoubt' /\ StagedKnown' /\ Underway'
  BY <1>1, <1>3, <1>6 DEF Viewed, Recovered, PlaceInDoubt, StagedKnown, Underway, Fresh, Reading,
     Staging, BeforeHead, BeforePointer, Settling
<1>. QED
  BY <1>8, <1>9, <1>10, <1>11 DEF HInv, Traces

LEMMA FailRetryHeadHistory == ASSUME IInv, HInv, FailRetryHead \/ FailReconcile \/ BlockMutations PROVE HInv'
  BY BlockHistory DEF FailRetryHead, FailReconcile, BlockMutations

LEMMA CleanHistory == ASSUME IInv, HInv, Clean PROVE HInv'
<1>1. ~blocked /\ pc = "clean"
  BY Unblocked DEF Clean
<1>2. staged = NoRev /\ \A p \in Projects : place[p] = placeSynced[p]
  BY <1>1, NothingStaged, PlacesSettled DEF Reading, Staging, BeforeHead, BeforePointer
<1>. QED
  BY <1>1, <1>2, StillRefresh DEF Clean

LEMMA FailPublicationHistory == ASSUME IInv, HInv, FailPublication PROVE HInv'
<1>1. ~blocked /\ pc \in Publishing
  BY Unblocked DEF FailPublication, Publishing
<1>2. \A p \in Projects : place[p] = placeSynced[p]
  BY <1>1, PlacesSettled DEF Reading, Publishing
<1>. QED
  BY <1>1, <1>2, StillRefresh DEF FailPublication

LEMMA VerifyHistory == ASSUME IInv, HInv, Older = {}, Verify PROVE HInv'
<1>1. ~blocked /\ op.rev \in Revs /\ pc = "verify"
  BY Publishes DEF Verify
<1>2. staged = NoRev /\ \A p \in Projects : place[p] = placeSynced[p]
  BY <1>1, NothingStaged, PlacesSettled DEF Reading, Staging, BeforeHead, BeforePointer
<1>3. UNCHANGED <<ledger, diskVars, memVars>>
  BY DEF Verify
<1>4. CASE Acknowledge(op.rev)
  <2>1. pc' \in Fresh
    BY <1>1, <1>4, AcknowledgeEnds
  <2>. QED
    BY <1>1, <1>3, <2>1, StillSettles DEF diskVars
<1>5. CASE StartRefresh("reconcile")
  BY <1>1, <1>2, <1>3, <1>5, StillRefresh
<1>. QED
  BY <1>4, <1>5 DEF Verify

LEMMA ReconcileHistory == ASSUME IInv, HInv, Older = {}, Reconcile PROVE HInv'
<1>1. ~blocked /\ pc = "reconcile" /\ op.project \in Projects
  BY Publishes DEF Reconcile
<1>2. Same /\ staged' = NoRev /\ blocked' = blocked
  BY DEF Reconcile, Same, placeVars, headVars, pointerVars, memVars
<1>3. Traces'
  BY <1>1, <1>2, StagingCleared DEF Fresh
<1>4. \A p \in Projects : place'[p] = placeSynced'[p]
  BY <1>1, <1>2, PlacesSettled DEF Reading, Same
<1>5. CASE pc' \in Fresh
  BY <1>1, <1>2, <1>3, <1>5, Settles DEF Fresh
<1>6. CASE \E then \in {"migrate", "idle"} : StartRefresh(then)
  BY <1>1, <1>2, <1>3, <1>4, <1>6, Restarts
<1>7. CASE Matches(entries[op.project].rev) /\ Acknowledge(entries[op.project].rev)
  <2>1. entries[op.project].rev \in Revs
    BY <1>1, <1>7 DEF Matches, IInv, TInv, TypeOK, MemoryTypes, Entry, RevOrNone
  <2>. QED
    BY <1>1, <1>5, <1>7, <2>1, AcknowledgeEnds
<1>. QED
  BY <1>5, <1>6, <1>7 DEF Reconcile, Fresh

-----------------------------------------------------------------------------
(* The Library Trash                                                         *)

LEMMA BeginHistory ==
    ASSUME HInv, NEW kind, NEW p, NEW targets, NEW first \in {"mark", "move", "next"},
           Begin(kind, p, targets, first)
    PROVE  HInv'
<1>1. Still /\ ~blocked /\ pc = "idle" /\ pc' = first
  BY DEF Begin, Accepting, Still, Same, diskVars, placeVars, headVars, pointerVars, memVars
<1>. QED
  BY <1>1, Proceeds

LEMMA MarkHistory == ASSUME IInv, HInv, Mark PROVE HInv'
<1>1. Still /\ pc = "mark" /\ pc' = "move"
  BY DEF Mark, Step, Still, Same, headVars, pointerVars, memVars
<1>2. ~blocked
  BY <1>1, Unblocked
<1>. QED
  BY <1>1, <1>2, Proceeds

\* During a lifecycle mutation no Head is in doubt and nothing is staged.
LEMMA TrashFacts ==
    ASSUME IInv, HInv, pc \in Placing \cup {"next"}
    PROVE  /\ ~blocked /\ staged = NoRev /\ \A p \in Projects : head[p] = headSynced[p] /\ ~Doubtful(p)
           /\ \A p \in Projects : NoRev \notin pointers[p]
<1>1. ~blocked /\ pc \notin {"down", "scavenge", "reconcile"} \cup Staging /\ pc \notin Reading
      /\ pc \notin Settling
  BY Unblocked DEF Placing, Staging, BeforeHead, BeforePointer, Reading, Settling
<1>2. staged = NoRev
  BY <1>1, NothingStaged
<1>3. \A p \in Projects : head[p] = headSynced[p]
  BY <1>1 DEF IInv, StepInv, HeadInDoubt
<1>4. \A p \in Projects : NoRev \notin pointers[p]
  BY HeadTypes DEF IInv, TInv
<1>. QED
  BY <1>1, <1>2, <1>3, <1>4 DEF Doubtful

\* The process writes to a directory only, or moves it.
LEMMA PlacesChange ==
    ASSUME IInv, HInv, pc \in Placing \cup {"next"},
           UNCHANGED <<ledger, head, headSynced, pointers, published, entries, staged>>,
           \A p \in Projects : place'[p] = "none" <=> place[p] = "none"
    PROVE  Traces'
<1>1. Owned'
  BY DEF HInv, Traces, Owned, Revs, SeqOf
<1>2. Doubt' /\ Pending' /\ HeadsPublished' /\ ShownPublished' /\ LooseKnown'
  BY TrashFacts DEF HInv, Traces, Doubt, Pending, HeadsPublished, ShownPublished, LooseKnown,
     Doubtful, Loose, StagedFor
<1>. QED
  BY <1>1, <1>2 DEF Traces

\* A lifecycle mutation goes on.
LEMMA TrashGoesOn ==
    ASSUME HInv, Traces', staged' = NoRev, pc' \in Placing \cup {"next"}, PlaceInDoubt'
    PROVE  HInv'
<1>1. Viewed' /\ Recovered' /\ StagedKnown' /\ Underway'
  BY DEF Viewed, Recovered, StagedKnown, Underway, Fresh, Reading, Staging, BeforeHead, BeforePointer,
     Settling, Placing
<1>. QED
  BY <1>1 DEF HInv

LEMMA MoveHistory == ASSUME IInv, HInv, Move PROVE HInv'
<1>1. /\ UNCHANGED <<ledger, head, headSynced, pointers, published, entries, staged, placeSynced>>
      /\ UNCHANGED <<blocked, op>>
      /\ pc = "move" /\ pc' = "sync_move"
  BY DEF Move, Step, headVars, pointerVars, memVars
<1>2. /\ \A p \in Projects : place'[p] = "none" <=> place[p] = "none"
      /\ \A p \in Projects \ {op.project} : place'[p] = place[p]
  BY DEF Move, IInv, TInv, TypeOK, DiskTypes
<1>3. Traces' /\ staged' = NoRev /\ ~blocked
  BY <1>1, <1>2, PlacesChange, TrashFacts DEF Placing
<1>4. PlaceInDoubt'
  <2>1. \A p \in Projects : place[p] = placeSynced[p]
    BY <1>1, <1>3, PlacesSettled DEF Reading
  <2>. QED
    BY <1>1, <1>2, <2>1 DEF PlaceInDoubt
<1>. QED
  BY <1>1, <1>3, <1>4, TrashGoesOn DEF Placing

LEMMA SyncMoveHistory == ASSUME IInv, HInv, SyncMove PROVE HInv'
<1>1. /\ UNCHANGED <<ledger, head, headSynced, pointers, published, entries, staged, place, blocked>>
      /\ placeSynced' = place /\ pc = "sync_move"
  BY DEF SyncMove, headVars, pointerVars, memVars
<1>2. Traces' /\ staged' = NoRev /\ ~blocked
  BY <1>1, PlacesChange, TrashFacts DEF Placing
<1>3. PlaceInDoubt' /\ \A p \in Projects : place'[p] = placeSynced'[p]
  BY <1>1 DEF PlaceInDoubt
<1>4. CASE StartRefresh("idle")
  BY <1>1, <1>2, <1>3, <1>4, Restarts
<1>5. CASE pc' = "unmark"
  BY <1>2, <1>3, <1>5, TrashGoesOn DEF Placing
<1>. QED
  BY <1>4, <1>5 DEF SyncMove

LEMMA UnmarkHistory == ASSUME IInv, HInv, Unmark PROVE HInv'
<1>1. Still /\ pc = "unmark" /\ StartRefresh("idle")
  BY DEF Unmark, Still, Same, headVars, pointerVars, memVars
<1>2. ~blocked /\ staged = NoRev
  BY <1>1, TrashFacts DEF Placing
<1>3. \A p \in Projects : place[p] = placeSynced[p]
  BY <1>1, <1>2, PlacesSettled DEF Reading
<1>. QED
  BY <1>1, <1>2, <1>3, RestartsStill

LEMMA NextRemovalHistory == ASSUME IInv, HInv, NextRemoval PROVE HInv'
<1>1. Still /\ pc = "next" /\ UNCHANGED <<ledger, diskVars, memVars>>
  BY DEF NextRemoval, Still, Same, diskVars, placeVars, headVars, pointerVars, memVars
<1>2. ~blocked /\ staged = NoRev
  BY <1>1, TrashFacts DEF Placing
<1>3. \A p \in Projects : place[p] = placeSynced[p]
  BY <1>1, <1>2, PlacesSettled DEF Reading
<1>4. CASE StartRefresh("collect")
  BY <1>1, <1>2, <1>3, <1>4, StillRefresh
<1>5. CASE pc' = "remove"
  BY <1>1, <1>2, <1>5, Proceeds
<1>. QED
  BY <1>4, <1>5 DEF NextRemoval

\* Files of one Project are removed, its Head's or a pointer.
LEMMA RemovalTraces ==
    ASSUME IInv, HInv, pc \in Placing, NEW p \in Projects,
           UNCHANGED <<ledger, published, entries, staged>>,
           \A q \in Projects \ {p} : /\ place'[q] = place[q] /\ head'[q] = head[q]
                                     /\ headSynced'[q] = headSynced[q] /\ pointers'[q] = pointers[q],
           head'[p] = headSynced'[p], head'[p] \in {head[p], NoRev},
           pointers'[p] \subseteq pointers[p],
           place'[p] = place[p] \/ pointers'[p] = {}
    PROVE  Traces'
<1>1. \A q \in Projects : head'[q] = headSynced'[q] /\ ~Doubtful(q)' /\ head'[q] \in {head[q], NoRev}
  BY TrashFacts DEF Doubtful
<1>2. \A q \in Projects : /\ pointers'[q] \subseteq pointers[q]
                          /\ place'[q] = place[q] \/ pointers'[q] = {}
  OBVIOUS
<1>3. Owned'
  <2>1. \A r \in Revs' : ledger'[r].seq = SeqOf(ledger[r].parent)' + 1
    BY DEF HInv, Traces, Owned, Revs, SeqOf
  <2>2. \A q \in Projects : \A r \in pointers'[q] : ledger[r].project = q
    BY <1>2 DEF HInv, Traces, Owned
  <2>3. \A q \in Projects : \A h \in {head'[q], headSynced'[q]} \ {NoRev} : ledger[h].project = q
    BY <1>1 DEF HInv, Traces, Owned
  <2>4. \A q \in Projects : place'[q] = "none" => pointers'[q] = {}
    BY <1>2 DEF HInv, Traces, Owned
  <2>. QED
    BY <2>1, <2>2, <2>3, <2>4 DEF Owned
<1>4. Doubt' /\ ShownPublished'
  BY <1>1 DEF Doubt, ShownPublished, HInv, Traces
<1>5. Pending'
  BY <1>1, <1>2, TrashFacts DEF Pending
<1>6. HeadsPublished'
  BY <1>1, TrashFacts DEF HInv, Traces, HeadsPublished
<1>7. LooseKnown'
  <2>. SUFFICES ASSUME NEW q \in Projects, NEW r \in Loose(q)' PROVE head'[q] = NoRev /\ ~StagedFor(q)'
    BY DEF LooseKnown
  <2>1. r \in Loose(q) /\ r # NoRev
    BY <1>2, TrashFacts DEF Loose
  <2>. QED
    BY <1>1, <2>1, TrashFacts DEF HInv, Traces, LooseKnown, StagedFor
<1>. QED
  BY <1>3, <1>4, <1>5, <1>6, <1>7 DEF Traces

LEMMA RemoveFileHistory == ASSUME IInv, HInv, RemoveFile PROVE HInv'
<1>. DEFINE p == op.project
<1>1. /\ UNCHANGED <<ledger, published, entries, staged, place, placeSynced, blocked, op>>
      /\ pc = "remove" /\ pc' = "remove"
  BY DEF RemoveFile, Step, headVars, memVars
<1>2. p \in Projects
  BY <1>1 DEF IInv, TInv, OpNamed, Placing
<1>3. head[p] = headSynced[p] /\ ~blocked /\ staged = NoRev
  BY <1>1, <1>2, TrashFacts DEF Placing
<1>4. \A q \in Projects \ {p} : head'[q] = head[q] /\ headSynced'[q] = headSynced[q]
                                /\ pointers'[q] = pointers[q]
  BY DEF RemoveFile, IInv, TInv, TypeOK, DiskTypes, headVars, pointerVars
<1>5. head'[p] = headSynced'[p] /\ head'[p] \in {head[p], NoRev} /\ pointers'[p] \subseteq pointers[p]
  BY <1>2, <1>3 DEF RemoveFile, IInv, TInv, TypeOK, DiskTypes, headVars, pointerVars
<1>6. Traces'
  BY <1>1, <1>2, <1>4, <1>5, RemovalTraces DEF Placing
<1>7. PlaceInDoubt'
  <2>1. \A q \in Projects : place[q] = placeSynced[q]
    BY <1>1, <1>3, PlacesSettled DEF Reading
  <2>. QED
    BY <1>1, <2>1 DEF PlaceInDoubt
<1>. QED
  BY <1>1, <1>3, <1>6, <1>7, TrashGoesOn DEF Placing

LEMMA RemoveDirectoryHistory == ASSUME IInv, HInv, RemoveDirectory PROVE HInv'
<1>. DEFINE p == op.project
<1>1. /\ UNCHANGED <<ledger, published, entries, staged, placeSynced, head, pointers, blocked, op>>
      /\ place' = [place EXCEPT ![p] = "none"] /\ headSynced' = [headSynced EXCEPT ![p] = NoRev]
      /\ head[p] = NoRev /\ pointers[p] = {}
      /\ pc = "remove" /\ pc' = "sync_remove"
  BY DEF RemoveDirectory, Step, memVars
<1>2. p \in Projects
  BY <1>1 DEF IInv, TInv, OpNamed, Placing
<1>3. ~blocked /\ staged = NoRev
  BY <1>1, TrashFacts DEF Placing
<1>4. /\ headSynced'[p] = NoRev
      /\ \A q \in Projects \ {p} : place'[q] = place[q] /\ headSynced'[q] = headSynced[q]
  BY <1>1, <1>2 DEF IInv, TInv, TypeOK, DiskTypes
<1>5. Traces'
  BY <1>1, <1>2, <1>4, RemovalTraces DEF Placing
<1>6. PlaceInDoubt'
  <2>1. \A q \in Projects : place[q] = placeSynced[q]
    BY <1>1, <1>3, PlacesSettled DEF Reading
  <2>. QED
    BY <1>1, <1>4, <2>1 DEF PlaceInDoubt
<1>. QED
  BY <1>1, <1>3, <1>5, <1>6, TrashGoesOn DEF Placing

LEMMA SyncRemoveHistory == ASSUME IInv, HInv, SyncRemove PROVE HInv'
<1>1. /\ UNCHANGED <<ledger, head, headSynced, pointers, published, entries, staged, place, blocked>>
      /\ placeSynced' = place /\ pc = "sync_remove" /\ pc' = "next"
  BY DEF SyncRemove, Step, headVars, pointerVars, memVars
<1>2. Traces' /\ staged' = NoRev
  BY <1>1, PlacesChange, TrashFacts DEF Placing
<1>3. PlaceInDoubt'
  BY <1>1 DEF PlaceInDoubt
<1>. QED
  BY <1>1, <1>2, <1>3, TrashGoesOn

LEMMA FailLifecycleHistory == ASSUME IInv, HInv, FailLifecycle \/ FailLifecycleSync PROVE HInv'
<1>1. pc \in Placing \cup {"next"} /\ UNCHANGED <<ledger, diskVars, memVars>>
  BY DEF FailLifecycle, FailLifecycleSync, Placing
<1>2. ~blocked /\ staged = NoRev
  BY <1>1, TrashFacts
<1>3. CASE FailLifecycle
  <2>1. \A p \in Projects : place[p] = placeSynced[p]
    BY <1>2, <1>3, PlacesSettled DEF FailLifecycle, Reading
  <2>. QED
    BY <1>1, <1>2, <1>3, <2>1, StillRefresh DEF FailLifecycle
<1>4. CASE FailLifecycleSync
  BY <1>1, <1>2, <1>4, StillRefresh DEF FailLifecycleSync
<1>. QED
  BY <1>3, <1>4

-----------------------------------------------------------------------------
LEMMA HistoryStep == Older = {} /\ IInv /\ HInv /\ [Next]_vars => HInv'
<1>. SUFFICES ASSUME Older = {}, IInv, HInv, [Next]_vars PROVE HInv'
  OBVIOUS
<1>1. ASSUME Refreshing PROVE HInv'
  BY <1>1, ScanNothingHistory, ScanUnpublishedHistory, ScanSoundHistory, ScanDamagedTrashHistory,
     RecoverQuarantineHistory, RecoverReportHistory, RecoverHeadHistory, FinishRefreshHistory
  DEF Refreshing
<1>2. ASSUME Committing PROVE HInv'
  BY <1>2, StageHistory, InstallHistory, SyncPointerHistory, MakeDirectoryHistory,
     RenamePointerHistory, RenameHeadHistory, HeadDurableHistory, FailRetryHeadHistory,
     CleanHistory, VerifyHistory, ReconcileHistory, NoMigration
  DEF Committing
<1>3. ASSUME Opening PROVE HInv'
  BY <1>3, ScavengeHistory, MigrationsDoneHistory, CollectHistory, FailMigrationHistory, NoMigration
  DEF Opening
<1>4. ASSUME Trashing PROVE HInv'
  BY <1>4, MarkHistory, MoveHistory, SyncMoveHistory, UnmarkHistory, NextRemovalHistory,
     RemoveFileHistory, RemoveDirectoryHistory, SyncRemoveHistory, FailRetryHeadHistory
  DEF Trashing
<1>5. ASSUME Requests PROVE HInv'
  <2>1. CASE \E p \in Projects : Trash(p) \/ RestoreTrashed(p) \/ Delete(p)
    BY <2>1, BeginHistory DEF Trash, RestoreTrashed, Delete
  <2>2. CASE \E T \in SUBSET Projects : EmptyTrash(T)
    BY <2>2, BeginHistory DEF EmptyTrash
  <2>3. CASE \E p \in Projects, v \in Payloads : Create(p, v) \/ RestoreRevision(p, v)
    BY <2>3, CreateHistory
  <2>4. CASE \E p \in Projects, v \in Payloads : Change(p, v)
    BY <2>4, ChangeHistory
  <2>5. CASE \E p \in Projects, r \in Revs : Rollback(p, r)
    BY <2>5, ChangeHistory
  <2>. QED
    BY <1>5, <2>1, <2>2, <2>3, <2>4, <2>5 DEF Requests
<1>6. ASSUME Errors PROVE HInv'
  BY <1>6, FailRefreshHistory, FailPublicationHistory, FailRetryHeadHistory, FailCollectHistory,
     FailLifecycleHistory
  DEF Errors
<1>7. ASSUME Faults PROVE HInv'
  BY <1>7, CrashHistory, RotHistory DEF Faults
<1>8. CASE UNCHANGED vars
  <2>. Still /\ UNCHANGED <<pc, op, scan>>
    BY <1>8 DEF vars, Still, Same, diskVars, placeVars, headVars, pointerVars, memVars
  <2>. QED
    BY NothingMoves
<1>. QED
  BY <1>1, <1>2, <1>3, <1>4, <1>5, <1>6, <1>7, <1>8, OpenHistory DEF Next, Progress

LEMMA HistoryInit == Init => HInv
<1>. SUFFICES ASSUME Init PROVE HInv
  OBVIOUS
<1>1. Traces
  BY DEF Init, Traces, Owned, Doubt, Pending, HeadsPublished, LooseKnown, ShownPublished, Doubtful,
     Loose, Revs, NoEntries, NoEntry
<1>2. Viewed /\ Recovered /\ PlaceInDoubt /\ StagedKnown /\ Underway
  BY DEF Init, Viewed, Recovered, PlaceInDoubt, StagedKnown, Underway, Fresh, Reading, Staging,
     BeforeHead, BeforePointer, Settling
<1>. QED
  BY <1>1, <1>2 DEF HInv

LEMMA HistorySuffices == IInv /\ HInv => ShownPublished /\ ViewIsCurrent
<1>. SUFFICES ASSUME IInv, HInv PROVE ViewIsCurrent
  BY DEF HInv, Traces
<1>. SUFFICES ASSUME pc = "idle", ~blocked, NEW p \in Projects
     PROVE  /\ entries[p].location = place[p] /\ place[p] = placeSynced[p]
            /\ entries[p].status \in {"active", "trashed"}
                  => entries[p].rev = head[p] /\ head[p] = headSynced[p]
  BY DEF ViewIsCurrent
<1>1. Accepting
  BY DEF Accepting
<1>. QED
  BY <1>1, IdleFacts DEF Accurate

-----------------------------------------------------------------------------
(* How the durable Heads move                                                *)

MovesAlong(p) ==
    LET was == headSynced[p] now == headSynced'[p] IN
    was # now /\ now # NoRev =>
       \/ ledger'[now].parent = was
       \/ was # NoRev /\ now \in Line(was)
       \/ was = NoRev /\ now \in published

LEMMA RecoveredHeadMoves ==
    ASSUME IInv, HInv, NEW p \in Projects, NEW q \in Projects, RecoverHead(q)
    PROVE  MovesAlong(p)
<1>. DEFINE found == scan.fresh[q].rev
<1>1. /\ headSynced' = [headSynced EXCEPT ![q] = found]
      /\ headSynced[q] = NoRev /\ found \in published \cup {NoRev}
  BY DEF RecoverHead, IInv, StepInv, ScanFaithful, HInv, Recovered
<1>. HIDE DEF found
<1>2. headSynced'[p] = headSynced[p] \/ (p = q /\ headSynced'[p] = found)
  BY <1>1 DEF IInv, TInv, TypeOK, DiskTypes
<1>. QED
  BY <1>1, <1>2 DEF MovesAlong

LEMMA DurableHeadMoves ==
    ASSUME IInv, HInv, NEW p \in Projects, SyncHead \/ RetryHead
    PROVE  MovesAlong(p)
<1>1. pc \in Settling /\ HeadDurable
  BY DEF SyncHead, RetryHead, Step, Settling
<1>2. op.project \in Projects /\ op.rev \in Revs /\ head[op.project] = op.rev
  BY <1>1, Publishes DEF IInv, StepInv, Publication
<1>3. /\ ledger' = ledger /\ headSynced' = [headSynced EXCEPT ![op.project] = op.rev]
  BY <1>1 DEF HeadDurable
<1>4. headSynced'[p] = headSynced[p] \/ (p = op.project /\ headSynced'[p] = op.rev)
  BY <1>2, <1>3 DEF IInv, TInv, TypeOK, DiskTypes
<1>5. headSynced[op.project] # op.rev => ledger[op.rev].parent = headSynced[op.project]
  BY <1>2 DEF HInv, Traces, Doubt, Doubtful
<1>. QED
  BY <1>3, <1>4, <1>5 DEF MovesAlong

\* A crash settles a Head in doubt where it was or where it was going.
LEMMA SettledHeadMoves ==
    ASSUME IInv, HInv, NEW p \in Projects, Shutdown
    PROVE  MovesAlong(p)
<1>1. headSynced' = head' /\ ledger' = ledger
  BY DEF Shutdown
<1>2. head'[p] \in {head[p], headSynced[p]}
  <2>1. PICK settled : head' = Settled(head, headSynced, settled)
    BY DEF Shutdown
  <2>. QED
    BY <2>1 DEF Settled
<1>3. head[p] # headSynced[p] => ledger[head[p]].parent = headSynced[p]
  BY DEF HInv, Traces, Doubt, Doubtful
<1>. QED
  BY <1>1, <1>2, <1>3 DEF MovesAlong

LEMMA OtherHeadsStay ==
    ASSUME IInv, NEW p \in Projects, headSynced'[p] \in {headSynced[p], NoRev}
    PROVE  MovesAlong(p)
  BY DEF MovesAlong

LEMMA BlockMoves == ASSUME IInv, HInv, NEW p \in Projects, Block PROVE MovesAlong(p)
<1>1. Shutdown \/ headSynced' = headSynced
  BY DEF Block, diskVars, headVars
<1>. QED
  BY <1>1, SettledHeadMoves, OtherHeadsStay

LEMMA HeadsMoveStep ==
    ASSUME Older = {}, IInv, HInv, Next, NEW p \in Projects
    PROVE  MovesAlong(p)
<1>1. ASSUME Refreshing PROVE MovesAlong(p)
  <2>1. CASE \E q \in Projects : RecoverHead(q)
    BY <2>1, RecoveredHeadMoves
  <2>2. CASE FinishRefresh \/ \E q \in Projects :
               ScanNothing(q) \/ ScanUnpublished(q) \/ ScanSound(q) \/ ScanDamagedTrash(q)
               \/ RecoverQuarantine(q) \/ RecoverReport(q)
    <3>1. headSynced' = headSynced
          \/ \E q \in Projects : headSynced' = [headSynced EXCEPT ![q] = NoRev]
      BY <2>2 DEF ScanNothing, ScanUnpublished, ScanSound, ScanDamagedTrash, RecoverQuarantine,
         RecoverReport, FinishRefresh, diskVars, headVars
    <3>2. headSynced'[p] \in {headSynced[p], NoRev}
      BY <3>1 DEF IInv, TInv, TypeOK, DiskTypes
    <3>. QED
      BY <3>2, OtherHeadsStay
  <2>. QED
    BY <1>1, <2>1, <2>2 DEF Refreshing
<1>2. ASSUME Committing PROVE MovesAlong(p)
  <2>1. CASE SyncHead \/ RetryHead
    BY <2>1, DurableHeadMoves
  <2>2. CASE FailRetryHead
    BY <2>2, BlockMoves DEF FailRetryHead
  <2>3. CASE Stage \/ InstallPayload \/ SyncPayload \/ InstallRevision \/ SyncRevision \/ MakeDirectory
             \/ RenamePointer \/ SyncPointer \/ RenameHead \/ FailSyncHead \/ Clean \/ Verify \/ Reconcile
    <3>1. headSynced' = headSynced
      BY <2>3 DEF Stage, InstallPayload, SyncPayload, InstallRevision, SyncRevision, MakeDirectory,
         RenamePointer, SyncPointer, RenameHead, FailSyncHead, Clean, Verify, Reconcile,
         InstallObject, SyncObjects, diskVars, headVars
    <3>. QED
      BY <3>1, OtherHeadsStay
  <2>. QED
    BY <1>2, <2>1, <2>2, <2>3, NoMigration DEF Committing
<1>3. ASSUME Opening \/ Open PROVE MovesAlong(p)
  <2>1. headSynced' = headSynced
    BY <1>3, NoMigration DEF Opening, Open, Scavenge, MigrationsDone, Collect, FailMigration, diskVars, headVars
  <2>. QED
    BY <2>1, OtherHeadsStay
<1>4. ASSUME Trashing PROVE MovesAlong(p)
  <2>1. CASE BlockMutations
    BY <2>1, BlockMoves DEF BlockMutations
  <2>2. CASE Mark \/ Move \/ SyncMove \/ Unmark \/ NextRemoval \/ RemoveFile \/ RemoveDirectory \/ SyncRemove
    <3>1. headSynced' = headSynced \/ headSynced' = [headSynced EXCEPT ![op.project] = NoRev]
      BY <2>2 DEF Mark, Move, SyncMove, Unmark, NextRemoval, RemoveFile, RemoveDirectory, SyncRemove,
         diskVars, headVars
    <3>2. headSynced'[p] \in {headSynced[p], NoRev}
      BY <3>1 DEF IInv, TInv, TypeOK, DiskTypes
    <3>. QED
      BY <3>2, OtherHeadsStay
  <2>. QED
    BY <1>4, <2>1, <2>2 DEF Trashing
<1>5. ASSUME Requests PROVE MovesAlong(p)
  <2>1. headSynced' = headSynced
    BY <1>5 DEF Requests, Create, RestoreRevision, Change, Rollback, Issue, Trash, RestoreTrashed,
       Delete, EmptyTrash, Begin, diskVars, headVars
  <2>. QED
    BY <2>1, OtherHeadsStay
<1>6. ASSUME Errors PROVE MovesAlong(p)
  <2>1. Block \/ headSynced' = headSynced
    BY <1>6 DEF Errors, FailRefresh, FailPublication, FailReconcile, FailCollect, FailLifecycle,
       FailLifecycleSync, diskVars, headVars
  <2>. QED
    BY <2>1, BlockMoves, OtherHeadsStay
<1>7. ASSUME Faults PROVE MovesAlong(p)
  <2>1. Shutdown \/ headSynced' = headSynced
    BY <1>7 DEF Faults, Crash, Close, RotHead, RotObject, headVars
  <2>. QED
    BY <2>1, SettledHeadMoves, OtherHeadsStay
<1>. QED
  BY <1>1, <1>2, <1>3, <1>4, <1>5, <1>6, <1>7 DEF Next, Progress

-----------------------------------------------------------------------------
\* Every step of every mutation, refresh, recovery, removal and crash keeps the
\* history invariant, when no payload has an older schema.
THEOREM HistoryInvariant == ASSUME Older = {} PROVE Spec => []HInv
<1>1. IInv /\ HInv /\ [Next]_vars => HInv'
  BY HistoryStep
<1>. QED
  BY <1>1, LibraryInvariant, HistoryInit, PTL DEF Spec

\* No reader ever sees a pointer of an unfinished publication, a tail beyond
\* the Head or a revision that a recovery took for one: what #entries shows as
\* active was a durable Head.
THEOREM ShownWasPublished == ASSUME Older = {} PROVE Spec => []ShownPublished
  BY LibraryInvariant, HistoryInvariant, HistorySuffices, PTL

\* Between mutations #entries agrees with the disk on where each Project is and
\* on its Head, which is durable, whatever failed before, unless mutations are
\* blocked until a reopen.
THEOREM ViewsAreCurrent == ASSUME Older = {} PROVE Spec => []ViewIsCurrent
  BY LibraryInvariant, HistoryInvariant, HistorySuffices, PTL

\* HEAD.json is only ever replaced by a child of the durable Head, put back to
\* where it was by a crash, taken away, or put where there was none by a first
\* publication or by the recovery of a revision that was a durable Head.
THEOREM HeadsMoveAlongTheLedger == ASSUME Older = {} PROVE Spec => HeadMoves
<1>1. IInv /\ HInv /\ [Next]_vars => [\A p \in Projects : MovesAlong(p)]_vars
  BY HeadsMoveStep
<1>2. [][\A p \in Projects : MovesAlong(p)]_vars => HeadMoves
  BY PTL DEF HeadMoves, MovesAlong
<1>. QED
  BY <1>1, <1>2, LibraryInvariant, HistoryInvariant, PTL DEF Spec
=============================================================================
