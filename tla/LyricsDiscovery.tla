-------------------------- MODULE LyricsDiscovery --------------------------
(* Lyrics from a provider: the discovery of main/lyrics-discovery.ts behind  *)
(* #performLyrics of main/desktop-command-gateway.ts, and the panel of       *)
(* renderer/lyrics-selection.tsx.  A search lists candidates; choosing one   *)
(* reads it again and adds it to the Project.  A panel belongs to a window   *)
(* generation and a Project.                                                 *)
EXTENDS Integers, FiniteSets

CONSTANTS LyricsProjects, Songs,
          Hashed,            \* the songs of LRCLIB: found again by their hash
          MaxSearches,       \* bound: searches
          MaxLyricsEvents    \* bound: what others do meanwhile

VARIABLES lyrOffline,   \* the Offline setting
          candidates,   \* what main remembers of the newest search
          lop,          \* the one request that is not a control
          remote,       \* each song's text at the provider, by version
          head,         \* each Project's Head, by number
          saved,        \* history: the lyrics added
          owner,        \* the panel: its generation, its Project and the Head it knows
          listed, waiting, reply, \* what it lists, the request it waits for, the answer
          cancelSent,   \* its cancel is on the way
          searches, lyrEvents
mainLyrVars == <<lyrOffline, candidates, lop>>
panelLyrVars == <<owner, listed, waiting, reply, cancelSent>>
lyricsVars == <<mainLyrVars, remote, head, saved, panelLyrVars, searches, lyrEvents>>

NoSearch == [kind |-> "none", live |-> FALSE]
Candidate(s, o, n) == [song |-> s, version |-> remote[s], gen |-> o.gen, project |-> o.project, search |-> n]

LyricsInit ==
    /\ lyrOffline = FALSE /\ candidates = {} /\ lop = NoSearch
    /\ remote = [s \in Songs |-> 0] /\ head = [p \in LyricsProjects |-> 0] /\ saved = {}
    /\ \E p \in LyricsProjects : owner = [gen |-> 1, project |-> p, known |-> 0]
    /\ listed = {} /\ waiting = "none" /\ reply = {} /\ cancelSent = FALSE
    /\ searches = 0 /\ lyrEvents = 0

\* LyricsDiscovery.cancel: the transfer is aborted, the candidates dropped.
Aborted(o) == IF o.kind \in {"searching", "reading"} THEN [o EXCEPT !.live = FALSE] ELSE o
CancelDiscovery == candidates' = {} /\ lop' = Aborted(lop)
Forget == /\ listed' = {} /\ reply' = {}
World == UNCHANGED <<remote, head, saved, lyrEvents>>

(* The panel and the command handler: a request is refused while another     *)
(* runs; a failure of any request cancels the discovery.                     *)
Ask(accepted) == /\ waiting = "none" /\ ~cancelSent /\ Forget
                 /\ waiting' = IF accepted THEN "op" ELSE "none"
                 /\ UNCHANGED <<owner, cancelSent, lyrOffline>>
Search ==
    /\ searches < MaxSearches /\ searches' = searches + 1 /\ World
    /\ Ask(lop.kind = "none" /\ ~lyrOffline)
    /\ IF lop.kind = "none" /\ ~lyrOffline
         THEN /\ candidates' = {}
              /\ lop' = [kind |-> "searching", live |-> TRUE, of |-> owner, search |-> searches + 1]
         ELSE IF lop.kind = "none" THEN CancelDiscovery ELSE UNCHANGED <<candidates, lop>>
\* select: the Head the panel knows is still the Head, and the candidate is
\* remembered for this generation and Project.
Choose(c) ==
    /\ c \in listed /\ World /\ UNCHANGED searches
    /\ LET free == lop.kind = "none"
           stale == owner.known # head[owner.project]
           known == c \in candidates /\ c.gen = owner.gen /\ c.project = owner.project
       IN  /\ Ask(free /\ ~lyrOffline /\ ~stale /\ known)
           /\ CASE ~free \/ (~lyrOffline /\ stale) -> UNCHANGED <<candidates, lop>>
                [] free /\ ~lyrOffline /\ ~stale /\ known ->
                     /\ candidates' = {}
                     /\ lop' = [kind |-> "reading", live |-> TRUE, of |-> owner, choice |-> c]
                [] OTHER -> CancelDiscovery

\* The answer goes to the panel if it still waits.
Answer(found) == /\ waiting' = IF waiting = "op" THEN "answered" ELSE waiting
                 /\ reply' = IF waiting = "op" THEN found ELSE reply
                 /\ UNCHANGED <<owner, listed, cancelSent>>
Ends(found) == /\ lop' = NoSearch /\ Answer(found) /\ UNCHANGED <<lyrOffline, searches>>
\* The records arrive and the candidates are remembered, unless aborted.
SearchEnds(ok) ==
    /\ lop.kind = "searching" /\ (lop.live \/ ~ok) /\ World
    /\ LET found == IF ok THEN {Candidate(s, lop.of, lop.search) : s \in Songs} ELSE {}
       IN  candidates' = found /\ Ends(found)
\* Mutant: the record is not compared.
AnyVersion(c) == TRUE
\* A chosen record must still have the hash it had; a subtitle track has none.
Unchanged(c) == c.song \in Hashed => remote[c.song] = c.version
ReadEnds(ok) ==
    /\ lop.kind = "reading" /\ (lop.live \/ ~ok) /\ candidates' = {} /\ World
    /\ IF ok /\ Unchanged(lop.choice)
         THEN /\ lop' = [kind |-> "saving", live |-> TRUE, of |-> lop.of, choice |-> lop.choice,
                         text |-> remote[lop.choice.song]]
              /\ UNCHANGED <<lyrOffline, panelLyrVars, searches>>
         ELSE Ends({})
\* ProjectLibrary.addLyrics, on the Head the panel knew.
SaveEnds ==
    /\ lop.kind = "saving" /\ Ends({}) /\ UNCHANGED <<candidates, remote, lyrEvents>>
    /\ LET p == lop.of.project
       IN  IF head[p] = lop.of.known
             THEN /\ head' = [head EXCEPT ![p] = @ + 1]
                  /\ saved' = saved \cup {[project |-> p, on |-> lop.of.known, text |-> lop.text, choice |-> lop.choice]}
             ELSE UNCHANGED <<head, saved>>
SaveFails == /\ lop.kind = "saving" /\ candidates' = {} /\ Ends({}) /\ World

ShowReply == /\ waiting = "answered" /\ waiting' = "none" /\ listed' = reply /\ reply' = {}
             /\ UNCHANGED <<mainLyrVars, owner, cancelSent, searches>> /\ World
\* Opening or closing the panel forgets the list and sends a cancel.
TogglePanel ==
    /\ waiting # "none" \/ listed # {}
    /\ Forget /\ waiting' = "none" /\ cancelSent' = TRUE
    /\ UNCHANGED <<mainLyrVars, owner, searches>> /\ World
CancelArrives == /\ cancelSent /\ cancelSent' = FALSE /\ CancelDiscovery
                 /\ UNCHANGED <<lyrOffline, owner, listed, waiting, reply, searches>> /\ World
SeeHead == /\ owner.known # head[owner.project] /\ owner' = [owner EXCEPT !.known = head[owner.project]]
           /\ UNCHANGED <<mainLyrVars, listed, waiting, reply, cancelSent, searches>> /\ World
ExpireCandidates == /\ candidates # {} /\ CancelDiscovery
                    /\ UNCHANGED <<lyrOffline, panelLyrVars, searches>> /\ World

(* What others do meanwhile. *)
Event == lyrEvents < MaxLyricsEvents /\ lyrEvents' = lyrEvents + 1 /\ UNCHANGED <<saved, searches>>
\* Any panel may set the mode; setting it cancels, failing to set it too when
\* asked here.
ChangeOffline(v) == /\ Event /\ lyrOffline' = v /\ CancelDiscovery
                    /\ UNCHANGED <<remote, head, panelLyrVars>>
TextChanges(s) == /\ Event /\ remote' = [remote EXCEPT ![s] = @ + 1]
                  /\ UNCHANGED <<mainLyrVars, head, panelLyrVars>>
HeadMoves(p) == /\ Event /\ head' = [head EXCEPT ![p] = @ + 1]
                /\ UNCHANGED <<mainLyrVars, remote, panelLyrVars>>
\* Another Project is shown: its panel is a new one, the old one cancels.
ShowProject(p) ==
    /\ Event /\ p # owner.project /\ owner' = [owner EXCEPT !.project = p, !.known = head[p]]
    /\ Forget /\ waiting' = "none" /\ cancelSent' = TRUE /\ UNCHANGED <<mainLyrVars, remote, head>>
\* The window is replaced: its generation is revoked, its cancels are lost.
ReplaceWindow ==
    /\ Event /\ owner' = [owner EXCEPT !.gen = @ + 1, !.known = head[owner.project]]
    /\ CancelDiscovery /\ Forget /\ waiting' = "none" /\ cancelSent' = FALSE
    /\ UNCHANGED <<lyrOffline, remote, head>>

LyricsNext ==
    \/ Search \/ SaveEnds \/ SaveFails \/ ShowReply \/ TogglePanel \/ CancelArrives
    \/ SeeHead \/ ExpireCandidates \/ ReplaceWindow
    \/ \E c \in listed : Choose(c)
    \/ \E b \in BOOLEAN : SearchEnds(b) \/ ReadEnds(b) \/ ChangeOffline(b)
    \/ \E s \in Songs : TextChanges(s)
    \/ \E p \in LyricsProjects : HeadMoves(p) \/ ShowProject(p)
LyricsSpec == LyricsInit /\ [][LyricsNext]_lyricsVars

LyricsTypeOK ==
    /\ {lyrOffline, cancelSent, lop.live} \subseteq BOOLEAN
    /\ lop.kind \in {"none", "searching", "reading", "saving"}
    /\ waiting \in {"none", "op", "answered"} /\ owner.project \in LyricsProjects
    /\ \A c \in candidates \cup listed \cup reply : c.song \in Songs /\ c.project \in LyricsProjects

\* What is added is what the user chose from the list: from a candidate of
\* that very Project, on the Head the panel showed, and for LRCLIB the text
\* that was found, not one changed since.
SavedAsChosen ==
    \A l \in saved : /\ l.choice.project = l.project
                     /\ l.choice.song \in Hashed => l.text = l.choice.version
                     /\ head[l.project] > l.on
                     /\ \A m \in saved : m.project = l.project /\ m.on = l.on => m = l
\* A panel lists the candidates of its own generation and Project alone, all
\* of one search; and a panel closed, switched away or revoked leaves none
\* behind: nor does the Offline mode, which also aborts every transfer.
OnlyOwnCandidates ==
    /\ \A c \in listed : c.gen = owner.gen /\ c.project = owner.project
    /\ \A c, d \in candidates : c.search = d.search
    /\ lyrOffline => candidates = {} /\ (lop.kind \in {"searching", "reading"} => ~lop.live)
    /\ lop.kind \in {"searching", "reading"} /\ lop.live /\ ~cancelSent =>
         lop.of.gen = owner.gen /\ lop.of.project = owner.project
LyricsKeepWord == SavedAsChosen /\ OnlyOwnCandidates
=============================================================================
