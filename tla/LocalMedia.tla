----------------------------- MODULE LocalMedia -----------------------------
(***************************************************************************)
(* Local media (local-media.ts): the file handles that a pick, a creation, *)
(* a relink, a playback or an analysis verifies and keeps open, the        *)
(* renderer generations that own them, revocation when a window goes,      *)
(* disposal before the application quits (media-shutdown.ts), and reads of *)
(* a file that its owner may edit or replace at any moment.                *)
(***************************************************************************)
EXTENDS Naturals, FiniteSets

CONSTANTS
    MaxOps,            \* operations, numbered as they begin
    Gens,              \* renderer generations
    MaxHandles,        \* file handles, numbered as they are opened
    MediaProjects,     \* the Projects that play the file
    MaxPlayback,       \* MAX_PLAYBACK_CAPABILITIES_PER_GENERATION
    MaxReads,          \* MAX_CONCURRENT_VERIFIED_READS
    MaxMediaTroubles   \* edits of the file and closes that fail, together

MediaAssumption ==
    /\ {MaxOps, MaxHandles, MaxMediaTroubles} \subseteq Nat
    /\ {MaxPlayback, MaxReads} \subseteq Nat \ {0}

VARIABLES
    generation,    \* [Gens -> {"new", "active", "revoking", "revoked"}]
    mediaOp,       \* [MediaOps -> [kind, gen, at, held, seen]]
    handle,        \* [Handles -> [state, inode, version]]
    selection,     \* the selected file of each generation
    playback,      \* the playback capabilities of each generation
    fileContent,       \* the version of each file that has had the path
    inode,         \* the file that has the path
    locators,      \* the Source's locators that are marked available
    disposal,      \* "no", "draining", "done"
    app,           \* "running", "quit", "failed"
    edits, closeFaults

fileVars == <<fileContent, inode, edits>>
entryVars == <<selection, playback>>
mediaVars == <<generation, mediaOp, handle, entryVars, fileVars, locators, disposal, app, closeFaults>>

MediaOps == 1..MaxOps
Handles == 1..MaxHandles
NoHandle == 0
GenerationKinds == {"pick", "create", "relink", "play"}
Idle == [kind |-> "none", gen |-> CHOOSE g \in Gens : TRUE, at |-> "unused", held |-> {}, seen |-> 0]
Ended(o) == [mediaOp EXCEPT ![o] = [Idle EXCEPT !.at = "ended"]]
Step(o, at) == mediaOp' = [mediaOp EXCEPT ![o].at = at]
Running(o) == mediaOp[o].at \notin {"unused", "ended"}
OpsOf(g) == {o \in MediaOps : Running(o) /\ mediaOp[o].kind \in GenerationKinds /\ mediaOp[o].gen = g}
Alive(g) == generation[g] = "active" /\ disposal = "no"
Failed == {h \in Handles : handle[h].state = "failed"}
EntriesOf(g) == {selection[g]} \cup {e.handle : e \in playback[g]}

MediaInit ==
    /\ generation = [g \in Gens |-> "new"] /\ mediaOp = [o \in MediaOps |-> Idle]
    /\ handle = [h \in Handles |-> [state |-> "unused", inode |-> 1, version |-> 0]]
    /\ selection = [g \in Gens |-> NoHandle] /\ playback = [g \in Gens |-> {}]
    /\ fileContent = [i \in 1..2 |-> 0] /\ inode = 1 /\ edits = 0
    /\ disposal = "no" /\ app = "running" /\ closeFaults = 0 /\ locators = 1

\* MediaHandleCleanup.release of a set of handles: a close may fail, and then
\* the handle is kept to be closed again.
Close(hs, bad) ==
    /\ bad \subseteq hs
    /\ closeFaults' = closeFaults + (IF bad \subseteq Failed THEN 0 ELSE 1) /\ edits + closeFaults' <= MaxMediaTroubles
    /\ handle' = [h \in Handles |->
          IF h \in hs /\ handle[h].state \in {"held", "failed"}
          THEN IF h \in bad THEN [handle[h] EXCEPT !.state = "failed"]
               ELSE [state |-> "closed", inode |-> 1, version |-> 0]
          ELSE handle[h]]
Drop(o) == \E bad \in SUBSET mediaOp[o].held : Close(mediaOp[o].held, bad) /\ mediaOp' = Ended(o)

Activate(g) ==
    /\ generation[g] = "new" /\ disposal = "no"
    /\ generation' = [generation EXCEPT ![g] = "active"]
    /\ UNCHANGED <<mediaOp, handle, entryVars, fileVars, disposal, app, closeFaults, locators>>

\* The gateway runs one media command at a time; pick and relink open a dialog.
BeginMedia(o, kind, g) ==
    /\ mediaOp[o].at = "unused" /\ \A p \in 1..(o - 1) : mediaOp[p].at # "unused"
    /\ IF kind \in GenerationKinds
       THEN /\ Alive(g) /\ (kind = "play" => locators > 0)
            /\ \A p \in MediaOps : Running(p) => mediaOp[p].kind \notin GenerationKinds
       ELSE kind = "range" /\ disposal = "no"
    /\ mediaOp' = [mediaOp EXCEPT ![o] = [@ EXCEPT !.kind = kind, !.gen = g,
          !.at = CASE kind \in {"pick", "relink"} -> "dialog" [] kind = "create" -> "consume"
                 [] OTHER -> "open"]]
    /\ UNCHANGED <<generation, handle, entryVars, fileVars, disposal, app, closeFaults, locators>>

Pick(o) ==
    /\ mediaOp[o].at = "dialog" /\ (Step(o, "open") \/ mediaOp' = Ended(o))
    /\ UNCHANGED <<generation, handle, entryVars, fileVars, disposal, app, closeFaults, locators>>

\* consumeSelection: a task of the generation's queue.
Consume(o) ==
    /\ mediaOp[o].at = "consume"
    /\ LET g == mediaOp[o].gen IN
       IF Alive(g) /\ selection[g] # NoHandle
       THEN /\ mediaOp' = [mediaOp EXCEPT ![o].at = "open", ![o].held = {selection[g]}]
            /\ selection' = [selection EXCEPT ![g] = NoHandle]
       ELSE mediaOp' = Ended(o) /\ UNCHANGED selection
    /\ UNCHANGED <<generation, handle, playback, fileVars, disposal, app, closeFaults, locators>>

\* verifyLocalWav: the path's file is opened and its identity noted ...
OpenFile(o, h) ==
    /\ mediaOp[o].at = "open" /\ handle[h].state = "unused"
    /\ \A k \in 1..(h - 1) : handle[k].state # "unused"
    /\ handle' = [handle EXCEPT ![h] = [state |-> "held", inode |-> inode, version |-> fileContent[inode]]]
    /\ mediaOp' = [mediaOp EXCEPT ![o].at = "hashing", ![o].held = @ \cup {h}]
    /\ UNCHANGED <<generation, entryVars, fileVars, disposal, app, closeFaults, locators>>

\* ... and after hashing both file and path must still have that identity.
\* A creation also compares it with the file that had been selected.
Reading == {o \in MediaOps : mediaOp[o].at \in {"stat", "bytes", "again"}}
SameFile(h) == handle[h].version = fileContent[handle[h].inode]
VerifiedFile(o) ==
    /\ mediaOp[o].at = "hashing"
    /\ IF /\ \A h \in mediaOp[o].held : SameFile(h) /\ handle[h].inode = inode
          /\ mediaOp[o].kind = "range" => Cardinality(Reading) < MaxReads
       THEN /\ Step(o, IF mediaOp[o].kind = "range" THEN "stat" ELSE "task")
            /\ UNCHANGED <<handle, closeFaults>>
       ELSE mediaOp[o].kind # "play" /\ Drop(o)   \* see Broken
    /\ UNCHANGED <<generation, entryVars, fileVars, disposal, app, locators>>

\* It may also fail; a playback then marks the locator unavailable and turns to
\* the next one that is available, if any.
Broken(o) ==
    /\ mediaOp[o].at = "hashing"
    /\ IF mediaOp[o].kind # "play" THEN Drop(o)
       ELSE /\ \E bad \in SUBSET mediaOp[o].held : Close(mediaOp[o].held, bad)
            /\ mediaOp' = [mediaOp EXCEPT ![o].at = "mark", ![o].held = {}]
    /\ UNCHANGED <<generation, entryVars, fileVars, disposal, app, locators>>

MarkUnavailable(o) ==
    /\ mediaOp[o].at = "mark" /\ locators' = locators - 1
    /\ IF locators' > 0 THEN Step(o, "open") ELSE mediaOp' = Ended(o)
    /\ UNCHANGED <<generation, handle, entryVars, fileVars, disposal, app, closeFaults>>

\* The task that ends a creation or a relink: library.createProject or
\* observeSourceLocator, then the handles are closed whatever happened.
PublishMedia(o) ==
    /\ mediaOp[o].at = "task" /\ mediaOp[o].kind \in {"create", "relink"}
    /\ IF Alive(mediaOp[o].gen)
       THEN Step(o, "release") /\ locators' = locators + 1 /\ UNCHANGED <<handle, closeFaults>>
       ELSE Drop(o) /\ UNCHANGED locators
    /\ UNCHANGED <<generation, entryVars, fileVars, disposal, app>>

Release(o) ==
    /\ mediaOp[o].at = "release" /\ Drop(o)
    /\ UNCHANGED <<generation, entryVars, fileVars, disposal, app, locators>>

\* replaceSelection and replacePlayback: closes that failed are tried again,
\* what the new capability replaces is closed, and only then does the new one
\* take the handle; an error anywhere leaves the new handle to its operation.
\* Of the playbacks only the newest stay; a later one has a later handle, for
\* playbacks are opened one at a time.
Kept(g, p) == {e \in playback[g] : e.project # p}
Newer(e, es) == {f \in es : f.handle > e.handle}
\* Mutant: one capability too many is kept.
OneTooMany(es) == {e \in es : Cardinality(Newer(e, es)) < MaxPlayback}
Newest(es) == {e \in es : Cardinality(Newer(e, es)) < MaxPlayback - 1}
Replace(o, p) ==
    LET g == mediaOp[o].gen  lease == mediaOp[o].held
        selecting == mediaOp[o].kind # "play"
        rest == IF selecting THEN playback[g] ELSE Newest(Kept(g, p))
        old == IF selecting THEN {selection[g]} \ {NoHandle} ELSE {e.handle : e \in playback[g] \ rest}
    IN /\ mediaOp[o].at = "task" /\ mediaOp[o].kind # "create"
       /\ IF ~Alive(g) THEN Drop(o) /\ UNCHANGED entryVars
          ELSE \/ \* an old close fails again: nothing is replaced
                  /\ \E bad \in SUBSET (Failed \cup lease) : bad \cap Failed # {} /\ Close(Failed \cup lease, bad)
                  /\ mediaOp' = Ended(o) /\ UNCHANGED entryVars
               \/ \* the replaced entry is gone even when its close fails
                  /\ \E bad \in SUBSET (old \cup lease) :
                        bad \cap old # {} /\ Close(Failed \cup old \cup lease, bad)
                  /\ mediaOp' = Ended(o) /\ playback' = [playback EXCEPT ![g] = rest]
                  /\ selection' = IF selecting THEN [selection EXCEPT ![g] = NoHandle] ELSE selection
               \/ /\ Close(Failed \cup old, {}) /\ mediaOp' = Ended(o)
                  /\ \E h \in lease :
                       IF selecting
                       THEN selection' = [selection EXCEPT ![g] = h] /\ UNCHANGED playback
                       ELSE /\ playback' = [playback EXCEPT ![g] = rest \cup {[project |-> p, handle |-> h]}]
                            /\ UNCHANGED selection
       /\ UNCHANGED <<generation, fileVars, disposal, app, locators>>

\* A byte range is read between two looks at the file's identity: through a
\* capability that may be closed meanwhile, or through an own handle, which is
\* closed at the end, together with those whose close had failed.  Only so many
\* reads run at a time, and an unknown capability is refused.
BeginRead(o, g) ==
    /\ mediaOp[o].at = "unused" /\ \A p \in 1..(o - 1) : mediaOp[p].at # "unused"
    /\ disposal = "no" /\ Cardinality(Reading) < MaxReads
    /\ \E e \in playback[g] :
         mediaOp' = [mediaOp EXCEPT ![o] = [kind |-> "read", gen |-> g, at |-> "stat", held |-> {e.handle}, seen |-> 0]]
    /\ UNCHANGED <<generation, handle, entryVars, fileVars, disposal, app, closeFaults, locators>>

EndRead(o) ==
    /\ mediaOp' = Ended(o)
    /\ IF mediaOp[o].kind = "read" THEN UNCHANGED <<handle, closeFaults>>
       ELSE \E bad \in SUBSET (mediaOp[o].held \cup Failed) : Close(mediaOp[o].held \cup Failed, bad)
Stat(o, next) ==
    /\ \E h \in mediaOp[o].held :
         IF handle[h].state # "closed" /\ SameFile(h) THEN Step(o, next) /\ UNCHANGED <<handle, closeFaults>> ELSE EndRead(o)
    /\ UNCHANGED <<generation, entryVars, fileVars, disposal, app, locators>>
StatBefore(o) == mediaOp[o].at = "stat" /\ Stat(o, "bytes")
ReadBytes(o) ==
    /\ mediaOp[o].at = "bytes"
    /\ \E h \in mediaOp[o].held :
         IF handle[h].state # "closed"
         THEN /\ mediaOp' = [mediaOp EXCEPT ![o].at = "again", ![o].seen = fileContent[handle[h].inode]]
              /\ UNCHANGED <<handle, closeFaults>>
         ELSE EndRead(o)
    /\ UNCHANGED <<generation, entryVars, fileVars, disposal, app, locators>>
\* Mutant: the file is not looked at again after it was read.
StatOnce(o) ==
    /\ mediaOp[o].at = "again" /\ Step(o, "served")
    /\ UNCHANGED <<generation, entryVars, fileVars, handle, closeFaults, disposal, app, locators>>
StatAfter(o) == mediaOp[o].at = "again" /\ Stat(o, "served")
Served(o) ==
    /\ mediaOp[o].at = "served" /\ EndRead(o)
    /\ UNCHANGED <<generation, entryVars, fileVars, disposal, app, locators>>

\* revokeGeneration: the window is gone.  No operation starts any more, those
\* under way are waited for, then every capability is closed; a failure ends
\* the application.
Revoke(g) ==
    /\ generation[g] = "active" /\ disposal = "no"
    /\ generation' = [generation EXCEPT ![g] = "revoking"]
    /\ UNCHANGED <<mediaOp, handle, entryVars, fileVars, disposal, app, closeFaults, locators>>

RevokeTask(g) ==
    /\ generation[g] = "revoking" /\ OpsOf(g) = {}
    /\ LET hs == (EntriesOf(g) \ {NoHandle}) \cup Failed IN \E bad \in SUBSET hs :
         Close(hs, bad) /\ app' = IF bad = {} THEN app ELSE "failed"
    /\ selection' = [selection EXCEPT ![g] = NoHandle] /\ playback' = [playback EXCEPT ![g] = {}]
    /\ generation' = [generation EXCEPT ![g] = "revoked"]
    /\ UNCHANGED <<mediaOp, fileVars, disposal, locators>>

\* before-quit: prevented until disposal has ended.
BeforeQuit ==
    /\ disposal = "no" /\ disposal' = "draining"
    /\ UNCHANGED <<generation, mediaOp, handle, entryVars, fileVars, app, closeFaults, locators>>

Drained ==
    /\ disposal = "draining" /\ (\A o \in MediaOps : ~Running(o)) /\ disposal' = "done"
    /\ LET hs == {h \in Handles : handle[h].state \in {"held", "failed"}} IN \E bad \in SUBSET hs :
         Close(hs, bad) /\ app' = IF bad = {} THEN "quit" ELSE "failed"
    /\ selection' = [g \in Gens |-> NoHandle] /\ playback' = [g \in Gens |-> {}]
    /\ UNCHANGED <<generation, mediaOp, fileVars, locators>>

QuitTimeout ==
    /\ disposal = "draining" /\ app' = "failed"
    /\ UNCHANGED <<generation, mediaOp, handle, entryVars, fileVars, disposal, closeFaults, locators>>

\* The owner of the file edits it in place, or puts another in its place.
EditFile ==
    /\ edits + closeFaults < MaxMediaTroubles /\ edits' = edits + 1
    /\ \/ fileContent' = [fileContent EXCEPT ![inode] = edits + 1] /\ UNCHANGED inode
       \/ inode = 1 /\ inode' = 2 /\ fileContent' = [fileContent EXCEPT ![2] = edits + 1]
    /\ UNCHANGED <<generation, mediaOp, handle, entryVars, disposal, app, closeFaults, locators>>

MediaNext ==
    /\ app = "running"
    /\ \/ \E g \in Gens : Activate(g) \/ Revoke(g) \/ RevokeTask(g)
       \/ \E o \in MediaOps :
            \/ \E kind \in GenerationKinds \cup {"range"}, g \in Gens : BeginMedia(o, kind, g)
            \/ Pick(o) \/ Consume(o) \/ (\E h \in Handles : OpenFile(o, h)) \/ VerifiedFile(o) \/ Broken(o) \/ MarkUnavailable(o)
            \/ PublishMedia(o) \/ Release(o) \/ (\E p \in MediaProjects : Replace(o, p))
            \/ (\E g \in Gens : BeginRead(o, g)) \/ StatBefore(o) \/ ReadBytes(o) \/ StatAfter(o) \/ Served(o)
       \/ BeforeQuit \/ Drained \/ QuitTimeout \/ EditFile
MediaSpec == MediaInit /\ [][MediaNext]_mediaVars

-----------------------------------------------------------------------------
MediaTypeOK ==
    /\ generation \in [Gens -> {"new", "active", "revoking", "revoked"}]
    /\ \A h \in Handles : handle[h].state \in {"unused", "held", "failed", "closed"}
    /\ \A g \in Gens : selection[g] \in Handles \cup {NoHandle} /\ Cardinality(playback[g]) <= MaxPlayback
    /\ disposal \in {"no", "draining", "done"} /\ app \in {"running", "quit", "failed"}
    /\ \A o \in MediaOps : mediaOp[o].held \subseteq Handles

\* No handle leaks and none is used after it was closed: every open one
\* belongs to exactly one capability or operation (a reader only borrows).
Owners(h) ==
    {<<"operation", o>> : o \in {x \in MediaOps : mediaOp[x].kind # "read" /\ h \in mediaOp[x].held}}
    \cup {<<"selection", g>> : g \in {x \in Gens : selection[x] = h}}
    \cup UNION {{<<"playback", g, e.project>> : e \in {x \in playback[g] : x.handle = h}} : g \in Gens}
HandlesAreOwned ==
    \A h \in Handles : Cardinality(Owners(h)) = IF handle[h].state = "held" THEN 1 ELSE 0

\* Once a window's generation has been revoked, nothing of it is under way and
\* nothing can be reached through it: no late Project, no late capability.
RevokedIsQuiet ==
    \A g \in Gens : generation[g] = "revoked" => OpsOf(g) = {} /\ EntriesOf(g) = {NoHandle}

\* The application quits normally only when every file has been closed.
CleanQuit == app = "quit" => \A h \in Handles : handle[h].state \notin {"held", "failed"}

\* Every byte that is served is of the file that was hashed, and a Project is
\* made from the very file the user had selected.
ServedIsVerified ==
    \A o \in MediaOps : mediaOp[o].at = "served" =>
        \E h \in mediaOp[o].held : handle[h].state = "closed" \/ mediaOp[o].seen = handle[h].version
CreatedFromSelected ==
    \A o \in MediaOps : mediaOp[o].kind = "create" /\ mediaOp[o].at \in {"task", "release"} =>
        /\ Cardinality(mediaOp[o].held) = 2
        /\ \A h, k \in mediaOp[o].held : handle[h].inode = handle[k].inode /\ handle[h].version = handle[k].version

MediaIsAccounted == HandlesAreOwned /\ RevokedIsQuiet /\ CleanQuit
MediaIsVerified == ServedIsVerified /\ CreatedFromSelected

\* Every open file handle has exactly one owner, nothing of a window's
\* generation is left once it was revoked, and the application quits normally
\* only with every file closed; every byte that is served is of the file that
\* was hashed, and a Project is made from the very file the user selected.
MediaKeepsWord == MediaIsAccounted /\ MediaIsVerified
=============================================================================
