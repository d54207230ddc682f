----------------------------- MODULE MCDesktop -----------------------------
(***************************************************************************)
(* The parts where a window and the main process see one another late: the *)
(* Project that is shown, the Chord Editor, the use of the network and the *)
(* search for lyrics.  `which' says which part moves: each is checked for  *)
(* itself, from its own initial state, and the others stay in theirs.  The *)
(* parts are extended, so that the run checks their own properties.        *)
(***************************************************************************)
EXTENDS NetworkUse, LyricsDiscovery, ChordEditing, ProjectEvents

ASSUME EventsAssumption

VARIABLE which

vars == <<which, eventVars, editingVars, useVars, lyricsVars>>

Init ==
    /\ which \in {"events", "editing", "network", "lyrics"}
    /\ EventsInit /\ EditingInit /\ UseInit /\ LyricsInit
    /\ which = "events" \/ \A p \in Projects : sequence[p] = 1
    /\ which = "lyrics" \/ owner.project = CHOOSE p \in LyricsProjects : TRUE

Shows ==
    /\ which = "events" /\ EventsNext
    /\ UNCHANGED <<editingVars, useVars, lyricsVars>>
Edits ==
    /\ which = "editing" /\ EditingNext
    /\ UNCHANGED <<eventVars, useVars, lyricsVars>>
UsesNetwork ==
    /\ which = "network" /\ UseNext
    /\ UNCHANGED <<eventVars, editingVars, lyricsVars>>
FindsLyrics ==
    /\ which = "lyrics" /\ LyricsNext
    /\ UNCHANGED <<eventVars, editingVars, useVars>>

Next ==
    /\ UNCHANGED which
    /\ Shows \/ Edits \/ UsesNetwork \/ FindsLyrics

Spec == Init /\ [][Next]_vars

-----------------------------------------------------------------------------
TypeOK == EventsTypeOK /\ EditingTypeOK /\ UseTypeOK /\ LyricsTypeOK
=============================================================================
