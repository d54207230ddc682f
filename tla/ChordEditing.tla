---------------------------- MODULE ChordEditing ----------------------------
(***************************************************************************)
(* Editing the chords of one Project: the Chord Editor and its draft       *)
(* (chord-editor.tsx, editor-draft.ts), the Edit Layers the Library keeps  *)
(* (commitEditTransaction and changeEditHistory in project-library.ts) and *)
(* the timeline they amount to (projection.ts, edit-history.ts), with the  *)
(* practice loop that follows it.  The Library changes beside the editor,  *)
(* and the editor sees a snapshot that may be old.                         *)
(*                                                                         *)
(* An Edit Layer is a tree of transactions: each names its parent by       *)
(* position, 0 being the Analysis Revision itself.  A draft covers the     *)
(* whole timeline of chord events, whose lengths must fill the same span.  *)
(***************************************************************************)
EXTENDS Integers, Sequences, FiniteSets, SequencesExt

CONSTANTS
    Chords,            \* chord values
    Doubtful,          \* events the analysis does not assert, a subset of {1, 2}
    MaxRevisions,      \* revisions of the Project
    MaxDraftEdits, MaxSessions, MaxSaves

VARIABLES
    project,       \* the committed Project
    snapshot,      \* what the workspace shows
    draft,         \* the open draft, or NoDraft
    busy,          \* a history action is in flight
    requests,      \* commands sent to the Library
    responses,     \* their answers under way
    sessions       \* drafts opened so far

editingVars == <<project, snapshot, draft, busy, requests, responses, sessions>>

Ids == {1, 2}
Bars == <<1, 2>>
Span == 4
Start == CHOOSE c \in Chords : TRUE
Analysed == [events |-> [i \in Ids |-> [id |-> i, len |-> 2, value |-> Start, sure |-> i \notin Doubtful]], bars |-> Bars]
Broken == [events |-> <<>>, bars |-> <<>>]
NoDraft == [session |-> 0]
NoLoop == [analysis |-> 0, bars |-> {}, ready |-> FALSE]
ValueOp(i, v) == [kind |-> "value", id |-> i, value |-> v, ids |-> <<>>, events |-> <<>>]
SequenceOp(ids, events) == [kind |-> "sequence", id |-> 0, value |-> Start, ids |-> ids, events |-> events]
MergeOp == [kind |-> "merge", id |-> 0, value |-> Start, ids |-> <<>>, events |-> <<>>]

\* What a draft or an operation says of an event: everything but its assertion.
Said(events) == [i \in DOMAIN events |-> [id |-> events[i].id, len |-> events[i].len, value |-> events[i].value]]
IdsOf(events) == [i \in DOMAIN events |-> events[i].id]
StartOf(events, i) == IF i = 1 THEN 0 ELSE events[1].len
TotalLength(events) == events[1].len + events[2].len

\* applyOperation.  A sequence must name the saved span in its saved order and
\* keep its identities and outer boundaries; an event that it changes is
\* asserted by the user, the others keep their assertion.
Unmoved(old, new, i) == \E j \in DOMAIN old : Said(old)[j] = Said(new)[i] /\ StartOf(old, j) = StartOf(new, i)
SureBefore(old, id) == \E j \in DOMAIN old : old[j].id = id /\ old[j].sure
Apply(t, op) ==
    CASE t = Broken -> Broken
      [] t # Broken /\ op.kind = "merge" -> IF Len(t.bars) = 2 THEN [t EXCEPT !.bars = <<1>>] ELSE Broken
      [] t # Broken /\ op.kind = "value" ->
            [t EXCEPT !.events = [i \in DOMAIN t.events |->
                IF t.events[i].id = op.id THEN [t.events[i] EXCEPT !.value = op.value, !.sure = TRUE] ELSE t.events[i]]]
      [] t # Broken /\ op.kind = "sequence" ->
            IF op.ids # IdsOf(t.events) \/ ToSet(IdsOf(op.events)) # Ids \/ TotalLength(op.events) # Span THEN Broken
            ELSE [t EXCEPT !.events = [i \in DOMAIN op.events |->
                     [id |-> op.events[i].id, len |-> op.events[i].len, value |-> op.events[i].value,
                      sure |-> ~Unmoved(t.events, op.events, i) \/ SureBefore(t.events, op.events[i].id)]]]

\* materializeEffectiveTimeline: the operations of the selected transaction and
\* of its ancestors, oldest first, applied one after another.
ApplyAll(t, ops) ==
    LET after[k \in 0..Len(ops)] == IF k = 0 THEN t ELSE Apply(after[k - 1], ops[k])
    IN after[Len(ops)]
Chain(layer, position) ==
    LET ops[k \in 0..Len(layer.edits)] == IF k = 0 THEN <<>> ELSE ops[layer.edits[k].parent] \o layer.edits[k].ops
    IN ops[position]
Effective(layer, position) == ApplyAll(Analysed, Chain(layer, position))
Shown(p) == Effective(p.layers[p.layer], p.position)
EmptyLayer(a) == [analysis |-> a, edits |-> <<>>]

EditingInit ==
    /\ project = [rev |-> 1, layers |-> <<EmptyLayer(1)>>, layer |-> 1, position |-> 0, analyses |-> 1, loop |-> NoLoop]
    /\ snapshot = project /\ draft = NoDraft /\ busy = FALSE
    /\ requests = {} /\ responses = {} /\ sessions = 0

\* reconcilePracticeState: a loop stays ready only on the same Analysis
\* Revision and on the same bars.
Reconciled(before, after) ==
    IF after.loop.ready /\ (after.layers[after.layer].analysis # after.loop.analysis \/ Shown(before).bars # Shown(after).bars)
    THEN [after EXCEPT !.loop.ready = FALSE] ELSE after
Committed(after) == Reconciled(project, [after EXCEPT !.rev = project.rev + 1])

\* Mutant: a draft is opened on what the Library has, not on what is shown.
OpenDraftOnProject ==
    /\ draft = NoDraft /\ ~busy /\ sessions < MaxSessions /\ sessions' = sessions + 1
    /\ draft' = [session |-> sessions', rev |-> project.rev, base |-> Shown(project).events,
                 parent |-> project.position, events |-> Said(Shown(project).events),
                 reviewed |-> {}, stale |-> FALSE, saving |-> FALSE, edits |-> 0]
    /\ UNCHANGED <<project, snapshot, busy, requests, responses>>

\* createEditorDraft: a session on the snapshot shown, whatever the Library has.
OpenDraft ==
    /\ draft = NoDraft /\ ~busy /\ sessions < MaxSessions /\ sessions' = sessions + 1
    /\ draft' = [session |-> sessions', rev |-> snapshot.rev, base |-> Shown(snapshot).events,
                 parent |-> snapshot.position, events |-> Said(Shown(snapshot).events),
                 reviewed |-> {}, stale |-> FALSE, saving |-> FALSE, edits |-> 0]
    /\ UNCHANGED <<project, snapshot, busy, requests, responses>>

Editable == draft # NoDraft /\ ~draft.saving /\ ~draft.stale /\ draft.edits < MaxDraftEdits
Edited(events, reviewed) == draft' = [draft EXCEPT !.events = events, !.reviewed = reviewed, !.edits = @ + 1]
EditingBeside == UNCHANGED <<project, snapshot, busy, requests, responses, sessions>>

\* setChord: a choice for an event that is not asserted is a review of it.
SetChord(i, v) ==
    /\ Editable /\ EditingBeside
    /\ Edited([k \in DOMAIN draft.events |-> IF draft.events[k].id = i THEN [draft.events[k] EXCEPT !.value = v] ELSE draft.events[k]],
              IF SureBefore(draft.base, i) THEN draft.reviewed ELSE draft.reviewed \cup {i})
MarkReviewed(i) ==
    /\ Editable /\ EditingBeside /\ ~SureBefore(draft.base, i) /\ i \notin draft.reviewed
    /\ Edited(draft.events, draft.reviewed \cup {i})
SetDuration(k, n) ==
    /\ Editable /\ EditingBeside /\ n # draft.events[k].len
    /\ Edited([draft.events EXCEPT ![k].len = n], draft.reviewed)
Move ==
    /\ Editable /\ EditingBeside /\ Edited(Reverse(draft.events), draft.reviewed)
ResetDraft ==
    /\ Editable /\ EditingBeside /\ Edited(Said(draft.base), {})

\* update: a draft is saved only when it differs and fills the saved span.
Dirty(d) == d.reviewed # {} \/ d.events # Said(d.base)
Fits(d) == TotalLength(d.events) = Span

\* operationsFor: one sequence when an event moved or changed its length, else
\* one value for every event that changed; reviews assert what they name.
ValueOpAt(d, which, k) == IF d.events[k].id \in which THEN <<ValueOp(d.events[k].id, d.events[k].value)>> ELSE <<>>
ValueOps(d, which) == ValueOpAt(d, which, 1) \o ValueOpAt(d, which, 2)
Restructured(d) == \E k \in DOMAIN d.events : d.events[k].id # d.base[k].id \/ d.events[k].len # d.base[k].len
\* Mutant: only what was reviewed is saved.
OperationsOfReviews(d) ==
    IF Restructured(d)
    THEN <<SequenceOp(IdsOf(d.base), d.events)>> \o ValueOps(d, d.reviewed)
    ELSE ValueOps(d, d.reviewed)
OperationsFor(d) ==
    IF Restructured(d)
    THEN <<SequenceOp(IdsOf(d.base), d.events)>> \o ValueOps(d, d.reviewed)
    ELSE ValueOps(d, d.reviewed \cup {i \in Ids : \E k \in DOMAIN d.events : d.events[k].id = i /\ d.events[k].value # d.base[k].value})

\* What the draft shows as asserted when it is saved.
DraftSure(d) == {d.events[k].id : k \in {j \in DOMAIN d.events :
    d.events[j].id \in d.reviewed \/ SureBefore(d.base, d.events[j].id) \/ ~Unmoved(d.base, d.events, j)}}

Save ==
    /\ draft # NoDraft /\ ~draft.saving /\ ~draft.stale /\ Dirty(draft) /\ Fits(draft)
    /\ Cardinality(requests) < MaxSaves
    /\ draft' = [draft EXCEPT !.saving = TRUE]
    /\ requests' = requests \cup {[kind |-> "save", session |-> draft.session, rev |-> draft.rev, arg |-> 0,
                                   edit |-> [parent |-> draft.parent, ops |-> OperationsFor(draft),
                                             says |-> draft.events, sure |-> DraftSure(draft)]]}
    /\ UNCHANGED <<project, snapshot, busy, responses, sessions>>

\* Cancel is disabled while the session saves; the button that opened the
\* editor closes it at any time.
CloseDraft ==
    /\ draft # NoDraft /\ ~busy /\ draft' = NoDraft
    /\ UNCHANGED <<project, snapshot, busy, requests, responses, sessions>>

\* changeHistory: undo, redo, reset, or a reviewed mapping to another Analysis
\* Revision; only without a draft, one at a time.
NoEdit == [parent |-> 0, ops |-> <<>>, says |-> <<>>, sure |-> {}]
AskHistory(kind, arg) ==
    /\ draft = NoDraft /\ ~busy /\ busy' = TRUE /\ Cardinality(requests) < MaxSaves
    /\ requests' = requests \cup {[kind |-> kind, session |-> 0, rev |-> snapshot.rev, arg |-> arg, edit |-> NoEdit]}
    /\ UNCHANGED <<project, snapshot, draft, responses, sessions>>

Layer == project.layers[project.layer]
\* reviewEditMapping, with arg a one-to-one mapping of the events: the edits up
\* to the selected one become one transaction of a new layer.
MapIds(m, ids) == [k \in DOMAIN ids |-> m[ids[k]]]
Mapped(m, op) ==
    CASE op.kind = "value" -> ValueOp(m[op.id], op.value)
      [] op.kind = "sequence" -> SequenceOp(MapIds(m, op.ids), [k \in DOMAIN op.events |-> [op.events[k] EXCEPT !.id = m[@]]])
Mappable(ops) == ops # <<>> /\ \A k \in DOMAIN ops : ops[k].kind # "merge"
MappedEdit(m) ==
    LET ops == Chain(Layer, project.position)
        mapped == [k \in DOMAIN ops |-> Mapped(m, ops[k])]
        result == ApplyAll(Analysed, mapped)
    IN IF ~Mappable(ops) THEN NoEdit
       ELSE [parent |-> 0, ops |-> mapped, says |-> Said(result.events), sure |-> {i \in Ids : SureBefore(result.events, i)}]
Select(position) == Committed([project EXCEPT !.position = position])
AddLayer(layer, position) ==
    Committed([project EXCEPT !.layers = Append(@, layer), !.layer = Len(project.layers) + 1, !.position = position])

\* The Library takes one command: it must be meant for the current revision,
\* a save must extend the selected transaction.
Outcome(r) ==
    CASE r.rev # project.rev -> project
      [] r.rev = project.rev /\ r.kind = "save" ->
            IF r.edit.parent # project.position \/ ApplyAll(Shown(project), r.edit.ops) = Broken THEN project
            ELSE Committed([project EXCEPT !.layers[project.layer].edits = Append(@, r.edit),
                                           !.position = Len(Layer.edits) + 1])
      [] r.rev = project.rev /\ r.kind = "undo" ->
            IF project.position = 0 THEN project ELSE Select(Layer.edits[project.position].parent)
      [] r.rev = project.rev /\ r.kind = "redo" ->
            IF r.arg \in DOMAIN Layer.edits /\ Layer.edits[r.arg].parent = project.position THEN Select(r.arg) ELSE project
      [] r.rev = project.rev /\ r.kind = "reset" -> AddLayer(EmptyLayer(Layer.analysis), 0)
      [] r.rev = project.rev /\ r.kind = "map" ->
            IF project.analyses = 1 \/ MappedEdit(r.arg) = NoEdit \/ ApplyAll(Analysed, MappedEdit(r.arg).ops) = Broken THEN project
            ELSE AddLayer([analysis |-> 3 - Layer.analysis, edits |-> <<MappedEdit(r.arg)>>], 1)
Perform(r) ==
    /\ project.rev < MaxRevisions /\ project' = Outcome(r)
    /\ requests' = requests \ {r}
    /\ responses' = responses \cup {[session |-> r.session, saved |-> project' # project]}
    /\ UNCHANGED <<snapshot, draft, busy, sessions>>

\* The answer to a save closes the editor, the answer to a failed one leaves
\* its session open.
Respond(a) ==
    /\ responses' = responses \ {a}
    /\ IF a.session = 0 THEN busy' = FALSE /\ UNCHANGED draft
       ELSE /\ UNCHANGED busy
            /\ draft' = IF a.saved THEN NoDraft
                        ELSE IF draft.session = a.session THEN [draft EXCEPT !.saving = FALSE] ELSE draft
    /\ UNCHANGED <<project, snapshot, requests, sessions>>

\* The workspace shows the newest snapshot, and an open draft is reconciled.
Deliver ==
    /\ snapshot # project /\ snapshot' = project
    /\ draft' = IF draft # NoDraft /\ draft.rev # project.rev THEN [draft EXCEPT !.stale = TRUE] ELSE draft
    /\ UNCHANGED <<project, busy, requests, responses, sessions>>

\* Beside the editor: another Analysis Revision is published, a practice loop
\* is set, or a transaction merges two bars.
LoopOver(bars) == [analysis |-> Layer.analysis, bars |-> bars, ready |-> TRUE]
Beside ==
    /\ project.rev < MaxRevisions
    /\ \/ project.analyses = 1 /\ project' = Committed([project EXCEPT !.analyses = 2])
       \/ \E bars \in SUBSET ToSet(Shown(project).bars) : bars # {} /\
             project' = Committed([project EXCEPT !.loop = LoopOver(bars)])
       \/ /\ Len(Shown(project).bars) = 2
          /\ LET merge == [parent |-> project.position, ops |-> <<MergeOp>>, says |-> Said(Shown(project).events),
                           sure |-> {i \in Ids : SureBefore(Shown(project).events, i)}]
             IN project' = Committed([project EXCEPT !.layers[project.layer].edits = Append(@, merge),
                                                     !.position = Len(Layer.edits) + 1])
    /\ UNCHANGED <<snapshot, draft, busy, requests, responses, sessions>>

Mappings == {m \in [Ids -> Ids] : m[1] # m[2]}
EditingNext ==
    \/ OpenDraft \/ Move \/ ResetDraft \/ Save \/ CloseDraft \/ Deliver \/ Beside
    \/ \E i \in Ids : MarkReviewed(i) \/ (\E v \in Chords : SetChord(i, v)) \/ (\E n \in 1..3 : SetDuration(i, n))
    \/ AskHistory("undo", 0) \/ AskHistory("reset", 0)
    \/ (\E k \in 1..MaxRevisions : AskHistory("redo", k)) \/ (\E m \in Mappings : AskHistory("map", m))
    \/ (\E r \in requests : Perform(r)) \/ (\E a \in responses : Respond(a))
EditingSpec == EditingInit /\ [][EditingNext]_editingVars

-----------------------------------------------------------------------------
EditingTypeOK ==
    /\ project.position \in 0..Len(Layer.edits) /\ snapshot.rev <= project.rev
    /\ draft # NoDraft => draft.rev <= snapshot.rev /\ TotalLength(draft.base) = Span

\* Every saved transaction stands for what the draft showed when it was saved:
\* the same events, lengths, values and assertions, for as long as its layer
\* exists and whatever was undone, branched or saved since.
SavedAsShown ==
    \A l \in DOMAIN project.layers : \A k \in DOMAIN project.layers[l].edits :
        LET t == Effective(project.layers[l], k)  e == project.layers[l].edits[k]
        IN /\ t # Broken /\ Said(t.events) = e.says
           /\ {i \in Ids : SureBefore(t.events, i)} = e.sure

\* A practice loop that is ready lies on bars the workspace shows.
LoopIsPlayable ==
    project.loop.ready => /\ project.loop.analysis = Layer.analysis
                          /\ project.loop.bars \subseteq ToSet(Shown(project).bars)

\* Both, whatever changed between the draft, its save and its commit.
EditsAreKept == SavedAsShown /\ LoopIsPlayable

\* A draft disappears only by its own Save, or when the user closes it.
DraftStays ==
    [][draft # NoDraft /\ draft' = NoDraft /\ responses' # responses
         => \E a \in responses \ responses' : a.session = draft.session]_editingVars
=============================================================================
