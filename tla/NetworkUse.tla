----------------------------- MODULE NetworkUse -----------------------------
(* The Offline setting (main/network-mode.ts) and what it must silence: the  *)
(* update check (main/manual-updates.ts), the refresh of Source metadata and *)
(* the isolated player (main/youtube-*.ts), with the panel that shows them   *)
(* (renderer/youtube-source.tsx).  A player window is named by a number; 0   *)
(* is none.                                                                  *)
EXTENDS Integers, Sequences

CONSTANTS MaxPlayers,    \* bound: player windows opened
          MaxNetPending, \* bound: settings on their way (32 in the code)
          MaxSettings,   \* bound: settings asked for
          MaxNetFaults   \* bound: failed writes and syncs, unreadable settings, crashes

VARIABLES offline, offDisk, offSafe, \* the setting in memory, in the file, after a crash
          netLine, netStep,  \* the settings still to persist, and the first one's step
          promised,      \* the setting last acknowledged, or "open"
          updRun, updState, release, \* the update check, its outcome, whether a release is held
          op,            \* the one operation of the YouTube service that is not a control
          player, players, cleaning, \* the window open, those opened, the disposable session
          ask, answer, poll, pollAnswer, shown, \* the panel: newest action, poll, what it shows
          seenClosed,    \* history: windows the panel was told are closed: up to this one
          settings, netFaults
netVars == <<offline, offDisk, offSafe, netLine, netStep, promised>>
updVars == <<updRun, updState, release>>
playerVars == <<player, players, cleaning>>
panelVars == <<ask, answer, poll, pollAnswer, shown, seenClosed>>
useVars == <<netVars, updVars, op, playerVars, panelVars, settings, netFaults>>

NoOp == [kind |-> "none", live |-> FALSE, window |-> 0]
Doing(kind) == [kind |-> kind, live |-> TRUE, window |-> 0]
Word(v) == IF v THEN "offline" ELSE "online"
NoAnswer == [offline |-> FALSE, player |-> 0, closed |-> 0]

UseInit ==
    /\ offline = FALSE /\ offDisk = FALSE /\ offSafe = FALSE
    /\ netLine = <<>> /\ netStep = "idle" /\ promised = "open"
    /\ updRun = "none" /\ updState = "idle" /\ release = FALSE
    /\ op = NoOp /\ player = 0 /\ players = 0 /\ cleaning = "done"
    /\ ask = "none" /\ answer = NoAnswer /\ poll = "none" /\ pollAnswer = NoAnswer
    /\ shown = NoAnswer /\ seenClosed = 0 /\ settings = 0 /\ netFaults = 0

Fault == netFaults < MaxNetFaults /\ netFaults' = netFaults + 1
NoFault == UNCHANGED netFaults

\* IsolatedYouTubePlayer.close: an opening is outdated, the window destroyed,
\* the session emptied.
Closed(o) == IF o.kind = "cleanup" THEN [o EXCEPT !.live = FALSE] ELSE o
ClosePlayer ==
    /\ player' = 0 /\ UNCHANGED players
    /\ cleaning' = IF players = 0 \/ cleaning = "broken" THEN cleaning ELSE "running"
\* YouTubeService.#cancelMetadata: a refresh that has not begun to write ends.
Cancelled(o) == IF o.kind \in {"observe", "record"} THEN [o EXCEPT !.live = FALSE] ELSE o
NewPanel == /\ ask' = "none" /\ answer' = NoAnswer /\ poll' = "none" /\ pollAnswer' = NoAnswer
            /\ shown' = NoAnswer /\ UNCHANGED seenClosed
\* ManualUpdates.cancel.
CancelUpdate ==
    /\ updRun' = IF updRun = "live" THEN "aborted" ELSE updRun
    /\ updState' = IF updState = "checking" THEN "cancelled" ELSE updState
    /\ UNCHANGED release

(* NetworkMode *)
SetOffline(v) ==
    /\ settings < MaxSettings /\ settings' = settings + 1
    /\ Len(netLine) < MaxNetPending
    /\ netLine' = Append(netLine, v) /\ promised' = "open"
    /\ UNCHANGED <<offline, offDisk, offSafe, netStep, updVars, op, playerVars, panelVars, netFaults>>
WriteFails ==
    /\ netLine # <<>> /\ netStep = "idle" /\ Fault
    /\ netLine' = Tail(netLine)
    /\ UNCHANGED <<offline, offDisk, offSafe, netStep, promised, updVars, op, playerVars, panelVars, settings>>
RenameSetting ==
    /\ netLine # <<>> /\ netStep = "idle"
    /\ offDisk' = Head(netLine) /\ netStep' = "renamed"
    /\ UNCHANGED <<offline, offSafe, netLine, promised, updVars, op, playerVars, panelVars, settings, netFaults>>
\* The setting is published and its listeners run, whether or not the sync
\* succeeds.
PublishSetting(synced) ==
    /\ netStep = "renamed" /\ netStep' = "idle"
    /\ IF synced THEN NoFault ELSE Fault
    /\ offSafe' = IF synced THEN offDisk ELSE offSafe
    /\ offline' = offDisk /\ netLine' = Tail(netLine)
    /\ promised' = IF synced /\ Len(netLine) = 1 THEN Word(offDisk) ELSE "open"
    /\ IF offDisk THEN /\ ClosePlayer /\ CancelUpdate /\ op' = Closed(Cancelled(op))
                  ELSE /\ op' = Cancelled(op) /\ UNCHANGED <<playerVars, updVars>>
    /\ UNCHANGED <<offDisk, panelVars, settings>>
\* The window is replaced: everything it had under way is cancelled.
RevokeWindow ==
    /\ ClosePlayer /\ CancelUpdate /\ op' = Closed(Cancelled(op))
    /\ NewPanel /\ UNCHANGED <<netVars, settings, netFaults>>
\* The application ends anyhow and starts again: a setting that cannot be read
\* counts as offline.
RestartApp(readable) ==
    /\ Fault
    /\ \E v \in {offDisk, offSafe} :
         /\ offDisk' = v /\ offSafe' = v /\ offline' = (v \/ ~readable)
         /\ promised' = IF readable THEN promised ELSE "open"
    /\ netLine' = <<>> /\ netStep' = "idle"
    /\ updRun' = "none" /\ updState' = "idle" /\ release' = FALSE
    /\ op' = NoOp /\ player' = 0 /\ cleaning' = "done" /\ UNCHANGED players
    /\ NewPanel /\ UNCHANGED settings

(* ManualUpdates *)
OnlyUpdates == UNCHANGED <<netVars, op, playerVars, panelVars, settings, netFaults>>
CheckUpdates ==
    /\ ~offline /\ updRun = "none"
    /\ updRun' = "live" /\ updState' = "checking" /\ release' = FALSE /\ OnlyUpdates
UserCancelsUpdate == updState = "checking" /\ CancelUpdate /\ OnlyUpdates
UpdateDeadline == updRun = "live" /\ updRun' = "aborted" /\ UNCHANGED <<updState, release>> /\ OnlyUpdates
\* An aborted check ends as cancelled or failed, by what status says then.
UpdateEnds(outcome) ==
    /\ updRun # "none" /\ updRun' = "none"
    /\ IF updRun = "live"
         THEN updState' = outcome /\ release' = (outcome = "available")
         ELSE /\ outcome = "failed" /\ UNCHANGED release
              /\ updState' = IF ~offline /\ updState = "cancelled" THEN "cancelled" ELSE "failed"
    /\ OnlyUpdates

(* YouTubeService and the panel's actions *)
OnlyService == UNCHANGED <<netVars, updVars, settings, netFaults>>
\* Mutant: an answer to a poll is shown after a newer action.
SupersedeAction(a) == /\ ask' = a /\ answer' = NoAnswer
                      /\ UNCHANGED <<poll, pollAnswer, shown, seenClosed>>
\* A newer action of the panel: whatever is under way is no longer listened to.
Supersede(a) == /\ ask' = a /\ answer' = NoAnswer /\ poll' = "none" /\ pollAnswer' = NoAnswer
                /\ UNCHANGED <<shown, seenClosed>>
Begin(o) == op = NoOp /\ ~offline /\ op' = o /\ Supersede("op") /\ OnlyService
Refresh == ask = "none" /\ ~shown.offline /\ Begin(Doing("observe")) /\ UNCHANGED playerVars
\* open closes what is open and waits until the session is empty.
OpenPlayer == /\ ask = "none" /\ ~shown.offline /\ players < MaxPlayers
              /\ Begin(Doing("cleanup")) /\ ClosePlayer
\* Play, pause, seek and rate carry the session shown.
Command == /\ ask = "none" /\ shown.player # 0 /\ shown.player = player
           /\ Begin([Doing("command") EXCEPT !.window = player]) /\ UNCHANGED playerVars
\* Busy, offline, or for a session that is gone: an error, nothing else.
RefusedAction == /\ ask = "none" /\ (op # NoOp \/ offline \/ shown.player # player)
                 /\ Supersede("none") /\ UNCHANGED <<op, playerVars>> /\ OnlyService
\* Status, cancel and close_player are taken at any time.
AskStatus == Supersede("control") /\ UNCHANGED <<op, playerVars>> /\ OnlyService
CancelYouTube == ask # "none" /\ Supersede("control") /\ ClosePlayer /\ op' = Closed(Cancelled(op)) /\ OnlyService
AskClose == shown.player # 0 /\ Supersede("control") /\ ClosePlayer /\ op' = Closed(op) /\ OnlyService

\* What a response says: the setting and the window of one moment, the window
\* only if it is still open when it has told its state.
Sampled == [offline |-> offline, player |-> player,
            closed |-> IF player = 0 THEN players ELSE player - 1]
Settled(a) == IF a.player = player THEN a
              ELSE [a EXCEPT !.player = 0, !.closed = IF a.player = 0 THEN @ ELSE a.player]
\* The operation ends; its response is drawn up if the panel still waits for it.
EndOp(ok) ==
    /\ op' = NoOp
    /\ IF ask = "op" THEN /\ ask' = IF ok THEN "sampled" ELSE "none"
                          /\ answer' = IF ok THEN Sampled ELSE NoAnswer
                     ELSE UNCHANGED <<ask, answer>>
    /\ UNCHANGED <<poll, pollAnswer, shown, seenClosed>> /\ OnlyService
Proceed(o) == op' = o /\ UNCHANGED panelVars /\ OnlyService

Observed(ok) ==
    /\ op.kind = "observe" /\ (op.live \/ ~ok) /\ UNCHANGED playerVars
    /\ IF ok THEN Proceed([op EXCEPT !.kind = "record"]) ELSE EndOp(FALSE)
\* The Library's turn: an aborted observation is dropped, a started one stands.
RecordTurn ==
    /\ op.kind = "record" /\ UNCHANGED playerVars
    /\ IF op.live THEN Proceed([op EXCEPT !.kind = "recording"]) ELSE EndOp(FALSE)
Recorded(ok) == op.kind = "recording" /\ EndOp(ok) /\ UNCHANGED playerVars

\* The session is empty, or emptying it failed: then no window opens again.
CleanSession(ok) ==
    /\ cleaning = "running" /\ cleaning' = IF ok THEN "done" ELSE "broken"
    /\ IF ok THEN NoFault ELSE Fault
    /\ UNCHANGED <<netVars, updVars, op, player, players, panelVars, settings>>
OpenWindow ==
    /\ op.kind = "cleanup" /\ cleaning # "running"
    /\ IF op.live /\ cleaning = "done"
         THEN /\ players' = players + 1 /\ player' = players + 1 /\ UNCHANGED cleaning
              /\ Proceed([op EXCEPT !.kind = "load", !.window = players + 1])
         ELSE EndOp(FALSE) /\ UNCHANGED playerVars
Loaded == /\ op.kind = "load" /\ player = op.window /\ Proceed([op EXCEPT !.kind = "evaluate"])
          /\ UNCHANGED playerVars
\* The window is shown; or it is gone; or loading fails or takes too long.
Opened == op.kind \in {"evaluate", "command"} /\ player = op.window /\ EndOp(TRUE) /\ UNCHANGED playerVars
OpenFails ==
    /\ op.kind \in {"load", "evaluate", "command"} /\ EndOp(FALSE)
    /\ IF player = op.window THEN ClosePlayer ELSE UNCHANGED playerVars
\* The user closes the window itself.
CloseWindow == player # 0 /\ ClosePlayer /\ op' = Closed(op) /\ UNCHANGED panelVars /\ OnlyService

OnlyPanel == UNCHANGED <<netVars, updVars, op, playerVars, settings, netFaults>>
AnswerControl == /\ ask = "control" /\ ask' = "sampled" /\ answer' = Sampled
                 /\ UNCHANGED <<poll, pollAnswer, shown, seenClosed>> /\ OnlyPanel
Settle == /\ ask = "sampled" /\ ask' = "answered" /\ answer' = Settled(answer)
          /\ UNCHANGED <<poll, pollAnswer, shown, seenClosed>> /\ OnlyPanel
Show(a) == /\ shown' = a
           /\ seenClosed' = IF a.closed > seenClosed THEN a.closed ELSE seenClosed
ShowAnswer == /\ ask = "answered" /\ Show(answer) /\ ask' = "none" /\ answer' = NoAnswer
              /\ UNCHANGED <<poll, pollAnswer>> /\ OnlyPanel
\* The panel polls while no action of its own is pending.
Poll == /\ ask = "none" /\ poll = "none" /\ poll' = "sampled" /\ pollAnswer' = Sampled
        /\ UNCHANGED <<ask, answer, shown, seenClosed>> /\ OnlyPanel
SettlePoll == /\ poll = "sampled" /\ poll' = "answered" /\ pollAnswer' = Settled(pollAnswer)
              /\ UNCHANGED <<ask, answer, shown, seenClosed>> /\ OnlyPanel
ShowPoll == /\ poll = "answered" /\ Show(pollAnswer) /\ poll' = "none" /\ pollAnswer' = NoAnswer
            /\ UNCHANGED <<ask, answer>> /\ OnlyPanel

UseNext ==
    \/ \E v \in BOOLEAN : SetOffline(v) \/ PublishSetting(v) \/ RestartApp(v)
                          \/ Observed(v) \/ Recorded(v) \/ CleanSession(v)
    \/ RevokeWindow \/ WriteFails \/ RenameSetting \/ CheckUpdates \/ UserCancelsUpdate \/ UpdateDeadline
    \/ \E o \in {"available", "not_published", "failed"} : UpdateEnds(o)
    \/ Refresh \/ OpenPlayer \/ Command \/ RefusedAction \/ AskStatus \/ CancelYouTube \/ AskClose
    \/ RecordTurn \/ OpenWindow \/ Loaded \/ Opened \/ OpenFails \/ CloseWindow
    \/ AnswerControl \/ Settle \/ ShowAnswer \/ Poll \/ SettlePoll \/ ShowPoll
UseSpec == UseInit /\ [][UseNext]_useVars

UseTypeOK ==
    /\ {offline, offDisk, offSafe, release} \subseteq BOOLEAN
    /\ netLine \in Seq(BOOLEAN) /\ netStep \in {"idle", "renamed"} /\ promised \in {"open", "offline", "online"}
    /\ updRun \in {"none", "live", "aborted"}
    /\ updState \in {"idle", "checking", "available", "not_published", "cancelled", "failed"}
    /\ op.kind \in {"none", "observe", "record", "recording", "cleanup", "load", "evaluate", "command"}
    /\ {player, op.window, seenClosed} \subseteq 0..players /\ cleaning \in {"done", "running", "broken"}
    /\ ask \in {"none", "op", "control", "sampled", "answered"} /\ poll \in {"none", "sampled", "answered"}

\* While Offline Mode is on nothing uses the network: no update check, no
\* refresh and no player window lives, whatever was under way when it was set.
OfflineIsQuiet ==
    offline => /\ updRun # "live" /\ player = 0
               /\ op.kind \in {"observe", "record"} => ~op.live
\* A setting that was acknowledged is the setting after any crash; and never
\* is the application online when the user was last told it is offline.
SettingSurvives == promised # "open" => \A v \in {offSafe, offDisk, offline} : Word(v) = promised
\* The panel never shows a player again that it was told is closed, and never
\* a player beside Offline Mode.
NothingReshown == shown.player # 0 => shown.player > seenClosed /\ ~shown.offline
\* A release is offered only by a check that was neither cancelled nor failed.
UpdatesTellTruth == release = (updState = "available") /\ (updState = "checking" => updRun # "none")
NetworkKeepsWord == OfflineIsQuiet /\ SettingSurvives /\ NothingReshown /\ UpdatesTellTruth
=============================================================================
