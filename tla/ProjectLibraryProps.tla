------------------------ MODULE ProjectLibraryProps -------------------------
(* What the Project Library must never do, and what it must keep doing.     *)
EXTENDS ProjectLibrary

Revision == [project : Projects, parent : Nat, seq : Nat \ {0}, payload : Payloads,
             line : SUBSET Nat]
RevOrNone == Revs \cup {NoRev}
Places == {"none", "active", "trashed"}
Entry == [status : Places \cup {"damaged"}, location : Places, rev : RevOrNone,
          history : SUBSET Revs, dated : BOOLEAN]
Labels == {"down", "idle", "refresh", "recover_report", "recover_head", "scavenge",
           "migrate", "collect", "abort", "block", "upgrade", "sync_head", "retry_head",
           "verify", "reconcile", "mark", "move", "sync_move", "unmark", "next",
           "remove", "sync_remove"} \cup Publishing
Kinds == {"none", "open", "create", "restore", "upgrade", "migrate", "change",
          "rollback", "trash", "untrash", "delete", "empty"}

\* Every variable holds a value of its kind, and names only revisions issued.
DiskTypes ==
    /\ place \in [Projects -> Places] /\ placeSynced \in [Projects -> Places]
    /\ markers \subseteq Projects /\ torn \subseteq Projects
    /\ head \in [Projects -> RevOrNone] /\ headSynced \in [Projects -> RevOrNone]
    /\ badHead \subseteq Projects /\ published \subseteq Revs
    /\ pointers \in [Projects -> SUBSET Revs]
    /\ pointersSynced \in [Projects -> SUBSET Revs]
    /\ objects \subseteq Revs \cup Payloads
    /\ objectsSynced \subseteq Revs \cup Payloads
    /\ rotten \subseteq Revs \cup Payloads
    /\ staged \in RevOrNone /\ reports \subseteq Projects
MemoryTypes == entries \in [Projects -> Entry] /\ blocked \in BOOLEAN
OpRecord ==
    [kind : Kinds, project : Projects \cup {"none"}, rev : RevOrNone,
     targets : SUBSET Projects, upgrades : SUBSET RevOrNone]
ScanRecord ==
    [todo : SUBSET Projects, fresh : [Projects -> Entry], then : Labels,
     project : Projects \cup {"none"}, limit : Nat]
ControlTypes == pc \in Labels /\ op \in OpRecord /\ scan \in ScanRecord
TypeOK ==
    /\ ledger \in Seq(Revision) /\ acked \in [Projects -> RevOrNone]
    /\ DiskTypes /\ MemoryTypes /\ ControlTypes
    /\ crashes \in Nat /\ rots \in Nat

\* A Head that is or may come back after a crash keeps every file its whole
\* history is read from: its ancestors' pointers, their records and payloads.
\* No discarded tail, no collection and no half-finished publication of this
\* or another Project that shares a payload may take one of them.  Only the
\* removal of the Project itself does.
HeadIntact ==
    \A p \in Projects \ torn : \A h \in {head[p], headSynced[p]} \ {NoRev} :
        /\ Line(h) \subseteq pointers[p] \cap pointersSynced[p]
        /\ Files(Line(h)) \subseteq objects \cap objectsSynced

\* A reader never sees a revision that was not at some time a durable Head:
\* neither the pointer of an unfinished publication nor a tail beyond the Head.
ShownPublished ==
    \A p \in Projects : entries[p].status = "active" => entries[p].rev \in published

\* A revision whose caller was told of success is part of the durable history
\* whatever crash, failed write or reopen follows, until its Project's removal
\* from the Trash begins.  (For a disk that loses no file content.)
AckedSurvives ==
    \A p \in Projects \ torn :
        acked[p] # NoRev => acked[p] \in Line(headSynced[p])

\* Between mutations readers see the Head that is on disk, in the container
\* it is in, unless mutations are blocked until a reopen.
ViewIsCurrent ==
    pc = "idle" /\ ~blocked =>
        \A p \in Projects :
            /\ entries[p].location = place[p] /\ place[p] = placeSynced[p]
            /\ entries[p].status \in {"active", "trashed"}
                  => entries[p].rev = head[p] /\ head[p] = headSynced[p]

\* A durable Head only ever moves to a child of itself, back to a revision of
\* its own history, or away; a Head put where there was none is a first
\* revision or one that was published before.
HeadMoves ==
    [][\A p \in Projects :
          LET was == headSynced[p] now == headSynced'[p] IN
          was # now /\ now # NoRev =>
             \/ ledger'[now].parent = was
             \/ was # NoRev /\ now \in Line(was)
             \/ was = NoRev /\ now \in published]_vars

\* Every mutation and every open comes to an end, however its writes fail.
MutationsEnd == pc \notin {"idle", "down"} ~> pc \in {"idle", "down"}

-----------------------------------------------------------------------------
(* What the control state says of the operation under way: TypeOK is         *)
(* inductive together with it.                                               *)

Reading == {"refresh", "recover_report", "recover_head"}
Fresh == {"idle", "scavenge", "migrate", "collect", "abort", "block", "verify",
          "reconcile"}
Settling == {"sync_head", "retry_head"}
Revising == {"create", "restore", "upgrade", "migrate", "change", "rollback"}
Placing == {"mark", "move", "sync_move", "unmark", "remove", "sync_remove"}

\* The operation has named the Project and the revision its steps need.
OpNamed ==
    /\ op.kind \in Revising => op.project \in Projects /\ op.rev \in Revs
    /\ pc \in Publishing \cup Settling \cup {"verify", "reconcile", "upgrade"}
          => op.kind \in Revising
    /\ pc \in Reading /\ scan.then \in {"verify", "reconcile"} => op.kind \in Revising
    /\ pc \in Reading => scan.then \in Fresh
    /\ pc \in Placing => op.project \in Projects
    /\ pc = "upgrade" => Payload \in Older
    /\ op.kind = "upgrade" => Older # {}
    /\ \A r \in op.upgrades \cap Revs : ledger[r].payload \in Older

TInv == TypeOK /\ OpNamed

-----------------------------------------------------------------------------
(* The inductive invariant behind HeadIntact, when no payload has an older   *)
(* schema: every step of every mutation, refresh and crash preserves it.     *)

LedgerOK ==
    \A r \in Revs :
        /\ ledger[r].parent \in 0..(r - 1)
        /\ ledger[r].line = Line(ledger[r].parent) \cup {r}
        /\ ledger[r].line \subseteq 1..r
        /\ \A q \in ledger[r].line :
              ledger[q].line \subseteq ledger[r].line /\ ledger[q].seq <= ledger[r].seq

DiskKnown ==
    /\ \A p \in Projects : pointersSynced[p] \subseteq pointers[p]
    /\ objectsSynced \subseteq objects

\* No directory, no Head.
Empty ==
    \A p \in Projects :
        /\ placeSynced[p] = "none" => place[p] = "none"
        /\ place[p] = "none" => head[p] = NoRev /\ headSynced[p] = NoRev

\* Only a Head just renamed, or one whose durability is unknown, is in doubt.
HeadInDoubt ==
    /\ blocked => pc = "idle"
    /\ \A p \in Projects : head[p] # headSynced[p] =>
          blocked \/ (pc \in Settling /\ p = op.project)

\* R's files and pointers are durable.
Durable(p, R) == R \subseteq pointersSynced[p] /\ Files(R) \subseteq objectsSynced

HeadDurablyIntact ==
    \A p \in Projects \ torn :
        Durable(p, Line(head[p])) /\ Durable(p, Line(headSynced[p]))

\* A listed revision whose record is present is durable with its payload.
RecordsWhole ==
    \A p \in Projects : \A r \in pointers[p] \cap objects :
        Files({r}) \subseteq objectsSynced

\* e is a faithful entry for p: it covers the Head, and its revision is whole.
Faithful(p, e) ==
    /\ head[p] # NoRev => e.status = "damaged" \/ Line(head[p]) \subseteq e.history
    /\ e.status = "active" =>
          Line(e.rev) \subseteq e.history /\ Durable(p, Line(e.rev))

EntriesFaithful ==
    pc \in Fresh /\ ~blocked => \A p \in Projects \ torn : Faithful(p, entries[p])

ScanFaithful ==
    /\ pc \in Reading =>
          \A p \in Projects \ (torn \cup scan.todo) : Faithful(p, scan.fresh[p])
    /\ pc \in {"recover_report", "recover_head"} =>
          /\ scan.project \in scan.todo
          /\ place[scan.project] # "none"
          /\ head[scan.project] = NoRev /\ headSynced[scan.project] = NoRev
    /\ pc = "recover_head" =>
          LET e == scan.fresh[scan.project] IN
             /\ e.status = "active"
             /\ Line(e.rev) \subseteq e.history
             /\ Durable(scan.project, Line(e.rev))

BeforePointer == {"stage", "install_payload", "sync_payload", "install_revision",
                  "sync_revision", "make_directory", "rename_pointer"}
BeforeHead == BeforePointer \cup {"sync_pointer", "rename_head"}

\* How far the revision under publication has come.
Publication ==
    /\ pc \in BeforeHead /\ op.project \notin torn =>
          Durable(op.project, Line(ledger[op.rev].parent))
    /\ pc \in BeforePointer => \A p \in Projects : op.rev \notin pointers[p]
    /\ pc = "sync_payload" => Payload \in objects
    /\ pc \in {"install_revision", "sync_revision", "make_directory", "rename_pointer",
               "sync_pointer", "rename_head"} => Payload \in objectsSynced
    /\ pc = "sync_revision" => op.rev \in objects
    /\ pc \in {"make_directory", "rename_pointer", "sync_pointer", "rename_head"}
          => op.rev \in objectsSynced
    /\ pc = "sync_pointer" => op.rev \in pointers[op.project]
    /\ pc = "rename_head" => op.rev \in pointersSynced[op.project]
    /\ pc \in {"rename_pointer", "sync_pointer", "rename_head"} \cup Settling
          => place[op.project] # "none"
    /\ pc \in Settling => head[op.project] = op.rev

\* Removals only run on Projects already given up.
Removal == pc = "sync_remove" => head[op.project] = NoRev /\ headSynced[op.project] = NoRev

DiskInv == LedgerOK /\ DiskKnown /\ Empty /\ HeadDurablyIntact /\ RecordsWhole
StepInv == HeadInDoubt /\ EntriesFaithful /\ ScanFaithful /\ Publication /\ Removal
IInv == TInv /\ DiskInv /\ StepInv

-----------------------------------------------------------------------------
(* The Library implements its abstract specification. *)

HistoryOf(r) ==
    [n \in 1..SeqOf(r) |-> ledger[CHOOSE q \in Line(r) : ledger[q].seq = n].payload]

Store == INSTANCE ProjectStore WITH
    log    <- [p \in Projects |-> IF p \in torn THEN <<>> ELSE HistoryOf(headSynced[p])],
    shown  <- [p \in Projects |-> IF p \notin torn /\ entries[p].status = "active"
                                  THEN HistoryOf(entries[p].rev) ELSE <<>>],
    doomed <- torn

\* With no file damaged, the durable Heads are the abstract histories: every
\* step of a publication but one leaves them alone, and that one appends.
ImplementsStore == Store!Spec

=============================================================================
