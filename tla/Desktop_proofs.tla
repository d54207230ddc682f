--------------------------- MODULE Desktop_proofs ---------------------------
(***************************************************************************)
(* The parts around the desktop's windows, each for every value of its     *)
(* constants: Offline Mode and a closed panel silence whatever is under    *)
(* way, what a Chord draft showed is what its transactions leave, and the  *)
(* window that shows a Project catches up with it.                         *)
(***************************************************************************)
EXTENDS MCDesktop, WellFoundedInduction, TLAPS

(***************************************************************************)
(* NetworkUse.                                                             *)
(***************************************************************************)
OpKinds == {"none", "observe", "record", "recording", "cleanup", "load", "evaluate", "command"}
Updates == {"idle", "checking", "available", "not_published", "cancelled", "failed"}
Ops == [kind : OpKinds, live : BOOLEAN, window : Nat]
Answers == [offline : BOOLEAN, player : Nat, closed : Nat]

UseTypes ==
    /\ offline \in BOOLEAN /\ offDisk \in BOOLEAN /\ offSafe \in BOOLEAN /\ release \in BOOLEAN
    /\ netLine \in Seq(BOOLEAN) /\ netStep \in {"idle", "renamed"}
    /\ promised \in {"open", "offline", "online"}
    /\ updRun \in {"none", "live", "aborted"} /\ updState \in Updates
    /\ op \in Ops
    /\ player \in Nat /\ players \in Nat /\ cleaning \in {"done", "running", "broken"}
    /\ ask \in {"none", "op", "control", "sampled", "answered"}
    /\ poll \in {"none", "sampled", "answered"}
    /\ answer \in Answers /\ pollAnswer \in Answers /\ shown \in Answers /\ seenClosed \in Nat

\* A setting that is being persisted has not been acknowledged, and the one
\* acknowledged is the same in memory, in the file and after a crash.
SettingInv ==
    /\ netStep = "renamed" => netLine # <<>>
    /\ netLine # <<>> => promised = "open"
    /\ promised # "open" => Word(offSafe) = promised /\ Word(offDisk) = promised /\ Word(offline) = promised

\* Nothing that Offline Mode must silence lives on, an opening that waits for
\* the empty session included; a check of updates that runs holds no release.
QuietInv ==
    /\ offline => /\ updRun # "live" /\ player = 0
                  /\ op.kind \in {"observe", "record", "cleanup"} => op.live = FALSE
    /\ updRun # "none" => release = FALSE
    /\ release = TRUE <=> updState = "available"
    /\ updState = "checking" => updRun # "none"

\* The windows are numbered as they are opened, and one that is known to be
\* closed is not the one open.
Over(n) == n <= players /\ (player # 0 => n < player)
\* An answer that is on its way is newer than everything the panel was told:
\* actions outdate polls, and a poll waits for no action.
PanelInv ==
    /\ player \in {0, players} /\ op.window <= players /\ Over(seenClosed)
    /\ Over(answer.closed) /\ Over(pollAnswer.closed)
    /\ poll # "none" => ask = "none"
    /\ ask \notin {"sampled", "answered"} => answer = NoAnswer
    /\ poll = "none" => pollAnswer = NoAnswer
    /\ answer.player # 0 =>
         answer.player > seenClosed /\ answer.player > answer.closed /\ answer.offline = FALSE
    /\ pollAnswer.player # 0 =>
         pollAnswer.player > seenClosed /\ pollAnswer.player > pollAnswer.closed /\ pollAnswer.offline = FALSE
    /\ shown.player # 0 => shown.player > seenClosed /\ shown.offline = FALSE
    /\ answer.player <= players /\ pollAnswer.player <= players

UseInv == UseTypes /\ SettingInv /\ QuietInv /\ PanelInv

USE DEF OpKinds, Updates, netVars, updVars, playerVars, panelVars

LEMMA UseInitially == UseInit => UseInv
<1>. SUFFICES ASSUME UseInit PROVE UseInv
  OBVIOUS
<1>. USE DEF UseInit, NoOp, NoAnswer
<1>1. op \in Ops /\ answer \in Answers /\ pollAnswer \in Answers /\ shown \in Answers
  BY DEF Ops, Answers
<1>2. netLine \in Seq(BOOLEAN)
  OBVIOUS
<1>3. UseTypes
  BY <1>1, <1>2 DEF UseTypes
<1>4. SettingInv /\ QuietInv /\ PanelInv
  BY DEF SettingInv, QuietInv, PanelInv, Over
<1>. QED
  BY <1>3, <1>4 DEF UseInv

\* The operations and answers that the actions build are such.
LEMMA UseValues ==
    ASSUME UseTypes
    PROVE  /\ NoOp \in Ops /\ Closed(op) \in Ops /\ Cancelled(op) \in Ops
           /\ Closed(Cancelled(op)) \in Ops
           /\ \A k \in OpKinds : Doing(k) \in Ops
           /\ \A k \in OpKinds : [Doing(k) EXCEPT !.window = player] \in Ops
           /\ \A k \in OpKinds : [op EXCEPT !.kind = k] \in Ops
           /\ \A k \in OpKinds : [op EXCEPT !.kind = k, !.window = players + 1] \in Ops
           /\ NoAnswer \in Answers /\ Sampled \in Answers
           /\ \A a \in Answers : Settled(a) \in Answers
<1>. USE DEF UseTypes, Ops, Answers
<1>1. /\ NoOp \in Ops /\ \A k \in OpKinds : Doing(k) \in Ops
  BY DEF NoOp, Doing
<1>2. /\ Cancelled(op) \in Ops /\ Closed(op) \in Ops
  BY DEF Cancelled, Closed
<1>3. Closed(Cancelled(op)) \in Ops
  BY <1>2 DEF Closed
<1>4. \A k \in OpKinds : [Doing(k) EXCEPT !.window = player] \in Ops
  BY DEF Doing
<1>5. \A k \in OpKinds : [op EXCEPT !.kind = k] \in Ops
  OBVIOUS
<1>6. ASSUME NEW k \in OpKinds PROVE [op EXCEPT !.kind = k, !.window = players + 1] \in Ops
  <2>1. [op EXCEPT !.kind = k, !.window = players + 1] = [[op EXCEPT !.kind = k] EXCEPT !.window = players + 1]
    OBVIOUS
  <2>2. players + 1 \in Nat
    OBVIOUS
  <2>3. \A o \in Ops, n \in Nat : [o EXCEPT !.window = n] \in Ops
    OBVIOUS
  <2>4. [[op EXCEPT !.kind = k] EXCEPT !.window = players + 1] \in Ops
    <3>. HIDE DEF Ops
    <3>. QED
      BY <1>5, <2>2, <2>3
  <2>. QED
    <3>. HIDE DEF Ops
    <3>. QED
      BY <2>1, <2>4
<1>7. NoAnswer \in Answers /\ Sampled \in Answers
  BY DEF NoAnswer, Sampled
<1>8. \A a \in Answers : Settled(a) \in Answers
  BY DEF Settled
<1>. QED
  BY <1>1, <1>2, <1>3, <1>4, <1>5, <1>6, <1>7, <1>8

LEMMA UseTypesStep == ASSUME UseInv, UseNext PROVE UseTypes'
<1>. USE DEF UseInv, UseTypes
<1>1. ASSUME NEW v \in BOOLEAN, SetOffline(v) PROVE UseTypes'
  BY <1>1 DEF SetOffline
<1>2. CASE WriteFails
  BY <1>2 DEF WriteFails, Fault
<1>3. CASE RenameSetting
  BY <1>3 DEF RenameSetting
<1>4. ASSUME NEW v \in BOOLEAN, PublishSetting(v) PROVE UseTypes'
  <2>1. op' \in Ops
    BY UseValues, <1>4 DEF PublishSetting
  <2>2. netLine' \in Seq(BOOLEAN)
    BY <1>4 DEF PublishSetting, SettingInv
  <2>3. player' \in Nat /\ players' \in Nat /\ cleaning' \in {"done", "running", "broken"}
    BY <1>4 DEF PublishSetting, ClosePlayer
  <2>4. updRun' \in {"none", "live", "aborted"} /\ updState' \in Updates /\ release' \in BOOLEAN
    BY <1>4 DEF PublishSetting, CancelUpdate
  <2>. QED
    BY <2>1, <2>2, <2>3, <2>4, <1>4 DEF PublishSetting, Word
<1>5. CASE RevokeWindow
  BY UseValues, <1>5 DEF RevokeWindow, ClosePlayer, CancelUpdate, NewPanel
<1>6. ASSUME NEW v \in BOOLEAN, RestartApp(v) PROVE UseTypes'
  <2>1. /\ op' \in Ops /\ answer' \in Answers /\ pollAnswer' \in Answers /\ shown' \in Answers
    BY UseValues, <1>6 DEF RestartApp, NewPanel
  <2>2. netLine' \in Seq(BOOLEAN) /\ netStep' \in {"idle", "renamed"}
    BY <1>6 DEF RestartApp
  <2>3. offline' \in BOOLEAN /\ offDisk' \in BOOLEAN /\ offSafe' \in BOOLEAN
    BY <1>6 DEF RestartApp
  <2>4. promised' \in {"open", "offline", "online"}
    BY <1>6 DEF RestartApp
  <2>. QED
    BY <2>1, <2>2, <2>3, <2>4, <1>6 DEF RestartApp, NewPanel
<1>7. CASE CheckUpdates
  BY <1>7 DEF CheckUpdates, OnlyUpdates
<1>8. CASE UserCancelsUpdate
  BY <1>8 DEF UserCancelsUpdate, CancelUpdate, OnlyUpdates
<1>9. CASE UpdateDeadline
  BY <1>9 DEF UpdateDeadline, OnlyUpdates
<1>10. ASSUME NEW v \in {"available", "not_published", "failed"}, UpdateEnds(v) PROVE UseTypes'
  <2>1. updState' \in Updates
    BY <1>10 DEF UpdateEnds
  <2>2. release' \in BOOLEAN
    BY <1>10 DEF UpdateEnds
  <2>. QED
    BY <2>1, <2>2, <1>10 DEF UpdateEnds, OnlyUpdates
<1>11. CASE Refresh
  BY UseValues, <1>11 DEF Refresh, Begin, Supersede, OnlyService
<1>12. CASE OpenPlayer
  BY UseValues, <1>12 DEF OpenPlayer, Begin, Supersede, OnlyService, ClosePlayer
<1>13. CASE Command
  BY UseValues, <1>13 DEF Command, Begin, Supersede, OnlyService
<1>14. CASE RefusedAction
  BY UseValues, <1>14 DEF RefusedAction, Supersede, OnlyService
<1>15. CASE AskStatus
  BY UseValues, <1>15 DEF AskStatus, Supersede, OnlyService
<1>16. CASE CancelYouTube
  BY UseValues, <1>16 DEF CancelYouTube, Supersede, ClosePlayer, OnlyService
<1>17. CASE AskClose
  BY UseValues, <1>17 DEF AskClose, Supersede, ClosePlayer, OnlyService
<1>18. ASSUME NEW v \in BOOLEAN, Observed(v) PROVE UseTypes'
  <2>1. CASE v = TRUE
    BY UseValues, <2>1, <1>18 DEF Observed, Proceed, OnlyService
  <2>2. CASE v = FALSE
    BY UseValues, <2>2, <1>18 DEF Observed, EndOp, OnlyService
  <2>. QED
    BY <2>1, <2>2
<1>19. CASE RecordTurn
  <2>1. CASE op.live
    BY UseValues, <2>1, <1>19 DEF RecordTurn, Proceed, OnlyService
  <2>2. CASE ~op.live
    BY UseValues, <2>2, <1>19 DEF RecordTurn, EndOp, OnlyService
  <2>. QED
    BY <2>1, <2>2
<1>20. ASSUME NEW v \in BOOLEAN, Recorded(v) PROVE UseTypes'
  BY UseValues, <1>20 DEF Recorded, EndOp, OnlyService
<1>21. ASSUME NEW v \in BOOLEAN, CleanSession(v) PROVE UseTypes'
  BY <1>21 DEF CleanSession, Fault, NoFault
<1>22. CASE OpenWindow
  BY UseValues, <1>22 DEF OpenWindow, Proceed, EndOp, OnlyService
<1>23. CASE Loaded
  BY UseValues, <1>23 DEF Loaded, Proceed, OnlyService
<1>24. CASE Opened
  BY UseValues, <1>24 DEF Opened, EndOp, OnlyService
<1>25. CASE OpenFails
  BY UseValues, <1>25 DEF OpenFails, EndOp, ClosePlayer, OnlyService
<1>26. CASE CloseWindow
  BY UseValues, <1>26 DEF CloseWindow, ClosePlayer, OnlyService
<1>27. CASE AnswerControl
  BY UseValues, <1>27 DEF AnswerControl, OnlyPanel
<1>28. CASE Settle
  BY UseValues, <1>28 DEF Settle, OnlyPanel
<1>29. CASE ShowAnswer
  BY UseValues, <1>29 DEF ShowAnswer, Show, OnlyPanel, Answers
<1>30. CASE Poll
  BY UseValues, <1>30 DEF Poll, OnlyPanel
<1>31. CASE SettlePoll
  BY UseValues, <1>31 DEF SettlePoll, OnlyPanel
<1>32. CASE ShowPoll
  BY UseValues, <1>32 DEF ShowPoll, Show, OnlyPanel, Answers
<1>. QED
  BY <1>1, <1>2, <1>3, <1>4, <1>5, <1>6, <1>7, <1>8, <1>9, <1>10, <1>11, <1>12, <1>13, <1>14, <1>15, <1>16, <1>17, <1>18, <1>19, <1>20, <1>21, <1>22, <1>23, <1>24, <1>25, <1>26, <1>27, <1>28, <1>29, <1>30, <1>31, <1>32 DEF UseNext

LEMMA SettingInvStep == ASSUME UseInv, UseNext PROVE SettingInv'
<1>. USE DEF UseInv, UseTypes, SettingInv, Word
<1>1. ASSUME NEW v \in BOOLEAN, SetOffline(v) PROVE SettingInv'
  BY <1>1 DEF SetOffline
<1>2. CASE WriteFails
  BY <1>2 DEF WriteFails, Fault
<1>3. CASE RenameSetting
  BY <1>3 DEF RenameSetting
<1>4. ASSUME NEW v \in BOOLEAN, PublishSetting(v) PROVE SettingInv'
  BY <1>4 DEF PublishSetting, Fault, NoFault, ClosePlayer, CancelUpdate, Closed, Cancelled
<1>5. CASE RevokeWindow
  BY <1>5 DEF RevokeWindow, ClosePlayer, CancelUpdate, Closed, Cancelled, NewPanel
<1>6. ASSUME NEW v \in BOOLEAN, RestartApp(v) PROVE SettingInv'
  BY <1>6 DEF RestartApp, Fault, NewPanel, NoOp
<1>7. CASE CheckUpdates
  BY <1>7 DEF CheckUpdates, OnlyUpdates
<1>8. CASE UserCancelsUpdate
  BY <1>8 DEF UserCancelsUpdate, CancelUpdate, OnlyUpdates
<1>9. CASE UpdateDeadline
  BY <1>9 DEF UpdateDeadline, OnlyUpdates
<1>10. ASSUME NEW v \in {"available", "not_published", "failed"}, UpdateEnds(v) PROVE SettingInv'
  BY <1>10 DEF UpdateEnds, OnlyUpdates
<1>11. CASE Refresh
  BY <1>11 DEF Refresh, Begin, Doing, Supersede, OnlyService
<1>12. CASE OpenPlayer
  BY <1>12 DEF OpenPlayer, Begin, Doing, Supersede, OnlyService, ClosePlayer
<1>13. CASE Command
  BY <1>13 DEF Command, Begin, Doing, Supersede, OnlyService
<1>14. CASE RefusedAction
  BY <1>14 DEF RefusedAction, Supersede, OnlyService
<1>15. CASE AskStatus
  BY <1>15 DEF AskStatus, Supersede, OnlyService
<1>16. CASE CancelYouTube
  BY <1>16 DEF CancelYouTube, Supersede, ClosePlayer, Closed, Cancelled, OnlyService
<1>17. CASE AskClose
  BY <1>17 DEF AskClose, Supersede, ClosePlayer, Closed, OnlyService
<1>18. ASSUME NEW v \in BOOLEAN, Observed(v) PROVE SettingInv'
  BY <1>18 DEF Observed, Proceed, EndOp, Sampled, NoOp, OnlyService
<1>19. CASE RecordTurn
  BY <1>19 DEF RecordTurn, Proceed, EndOp, Sampled, NoOp, OnlyService
<1>20. ASSUME NEW v \in BOOLEAN, Recorded(v) PROVE SettingInv'
  BY <1>20 DEF Recorded, EndOp, Sampled, NoOp, OnlyService
<1>21. ASSUME NEW v \in BOOLEAN, CleanSession(v) PROVE SettingInv'
  BY <1>21 DEF CleanSession, Fault, NoFault
<1>22. CASE OpenWindow
  BY <1>22 DEF OpenWindow, Proceed, EndOp, Sampled, NoOp, OnlyService
<1>23. CASE Loaded
  BY <1>23 DEF Loaded, Proceed, OnlyService
<1>24. CASE Opened
  BY <1>24 DEF Opened, EndOp, Sampled, NoOp, OnlyService
<1>25. CASE OpenFails
  BY <1>25 DEF OpenFails, EndOp, ClosePlayer, NoOp, OnlyService
<1>26. CASE CloseWindow
  BY <1>26 DEF CloseWindow, ClosePlayer, Closed, OnlyService
<1>27. CASE AnswerControl
  BY <1>27 DEF AnswerControl, Sampled, OnlyPanel
<1>28. CASE Settle
  BY <1>28 DEF Settle, Settled, OnlyPanel
<1>29. CASE ShowAnswer
  BY <1>29 DEF ShowAnswer, Show, OnlyPanel
<1>30. CASE Poll
  BY <1>30 DEF Poll, Sampled, OnlyPanel
<1>31. CASE SettlePoll
  BY <1>31 DEF SettlePoll, Settled, OnlyPanel
<1>32. CASE ShowPoll
  BY <1>32 DEF ShowPoll, Show, OnlyPanel
<1>. QED
  BY <1>1, <1>2, <1>3, <1>4, <1>5, <1>6, <1>7, <1>8, <1>9, <1>10, <1>11, <1>12, <1>13, <1>14, <1>15, <1>16, <1>17, <1>18, <1>19, <1>20, <1>21, <1>22, <1>23, <1>24, <1>25, <1>26, <1>27, <1>28, <1>29, <1>30, <1>31, <1>32 DEF UseNext

LEMMA QuietInvStep == ASSUME UseInv, UseNext PROVE QuietInv'
<1>. USE DEF UseInv, UseTypes, QuietInv
<1>. USE DEF Ops
<1>1. ASSUME NEW v \in BOOLEAN, SetOffline(v) PROVE QuietInv'
  BY <1>1 DEF SetOffline
<1>2. CASE WriteFails
  BY <1>2 DEF WriteFails, Fault
<1>3. CASE RenameSetting
  BY <1>3 DEF RenameSetting
<1>4. ASSUME NEW v \in BOOLEAN, PublishSetting(v) PROVE QuietInv'
  BY <1>4 DEF PublishSetting, Fault, NoFault, ClosePlayer, CancelUpdate, Closed, Cancelled
<1>5. CASE RevokeWindow
  BY <1>5 DEF RevokeWindow, ClosePlayer, CancelUpdate, Closed, Cancelled, NewPanel
<1>6. ASSUME NEW v \in BOOLEAN, RestartApp(v) PROVE QuietInv'
  BY <1>6 DEF RestartApp, Fault, NewPanel, NoOp
<1>7. CASE CheckUpdates
  BY <1>7 DEF CheckUpdates, OnlyUpdates
<1>8. CASE UserCancelsUpdate
  BY <1>8 DEF UserCancelsUpdate, CancelUpdate, OnlyUpdates
<1>9. CASE UpdateDeadline
  BY <1>9 DEF UpdateDeadline, OnlyUpdates
<1>10. ASSUME NEW v \in {"available", "not_published", "failed"}, UpdateEnds(v) PROVE QuietInv'
  BY <1>10 DEF UpdateEnds, OnlyUpdates
<1>11. CASE Refresh
  BY <1>11 DEF Refresh, Begin, Doing, Supersede, OnlyService
<1>12. CASE OpenPlayer
  BY <1>12 DEF OpenPlayer, Begin, Doing, Supersede, OnlyService, ClosePlayer
<1>13. CASE Command
  BY <1>13 DEF Command, Begin, Doing, Supersede, OnlyService
<1>14. CASE RefusedAction
  BY <1>14 DEF RefusedAction, Supersede, OnlyService
<1>15. CASE AskStatus
  BY <1>15 DEF AskStatus, Supersede, OnlyService
<1>16. CASE CancelYouTube
  BY <1>16 DEF CancelYouTube, Supersede, ClosePlayer, Closed, Cancelled, OnlyService
<1>17. CASE AskClose
  BY <1>17 DEF AskClose, Supersede, ClosePlayer, Closed, OnlyService
<1>18. ASSUME NEW v \in BOOLEAN, Observed(v) PROVE QuietInv'
  BY <1>18 DEF Observed, Proceed, EndOp, Sampled, NoOp, OnlyService
<1>19. CASE RecordTurn
  BY <1>19 DEF RecordTurn, Proceed, EndOp, Sampled, NoOp, OnlyService
<1>20. ASSUME NEW v \in BOOLEAN, Recorded(v) PROVE QuietInv'
  BY <1>20 DEF Recorded, EndOp, Sampled, NoOp, OnlyService
<1>21. ASSUME NEW v \in BOOLEAN, CleanSession(v) PROVE QuietInv'
  BY <1>21 DEF CleanSession, Fault, NoFault
<1>22. CASE OpenWindow
  BY <1>22 DEF OpenWindow, Proceed, EndOp, Sampled, NoOp, OnlyService
<1>23. CASE Loaded
  BY <1>23 DEF Loaded, Proceed, OnlyService
<1>24. CASE Opened
  BY <1>24 DEF Opened, EndOp, Sampled, NoOp, OnlyService
<1>25. CASE OpenFails
  BY <1>25 DEF OpenFails, EndOp, ClosePlayer, NoOp, OnlyService
<1>26. CASE CloseWindow
  BY <1>26 DEF CloseWindow, ClosePlayer, Closed, OnlyService
<1>27. CASE AnswerControl
  BY <1>27 DEF AnswerControl, Sampled, OnlyPanel
<1>28. CASE Settle
  BY <1>28 DEF Settle, Settled, OnlyPanel
<1>29. CASE ShowAnswer
  BY <1>29 DEF ShowAnswer, Show, OnlyPanel
<1>30. CASE Poll
  BY <1>30 DEF Poll, Sampled, OnlyPanel
<1>31. CASE SettlePoll
  BY <1>31 DEF SettlePoll, Settled, OnlyPanel
<1>32. CASE ShowPoll
  BY <1>32 DEF ShowPoll, Show, OnlyPanel
<1>. QED
  BY <1>1, <1>2, <1>3, <1>4, <1>5, <1>6, <1>7, <1>8, <1>9, <1>10, <1>11, <1>12, <1>13, <1>14, <1>15, <1>16, <1>17, <1>18, <1>19, <1>20, <1>21, <1>22, <1>23, <1>24, <1>25, <1>26, <1>27, <1>28, <1>29, <1>30, <1>31, <1>32 DEF UseNext

LEMMA PanelInvStep == ASSUME UseInv, UseNext PROVE PanelInv'
<1>. USE DEF UseInv, UseTypes, QuietInv, PanelInv, Over, NoAnswer
<1>. USE DEF Ops, Answers
<1>1. ASSUME NEW v \in BOOLEAN, SetOffline(v) PROVE PanelInv'
  BY <1>1 DEF SetOffline
<1>2. CASE WriteFails
  BY <1>2 DEF WriteFails, Fault
<1>3. CASE RenameSetting
  BY <1>3 DEF RenameSetting
<1>4. ASSUME NEW v \in BOOLEAN, PublishSetting(v) PROVE PanelInv'
  BY <1>4 DEF PublishSetting, Fault, NoFault, ClosePlayer, CancelUpdate, Closed, Cancelled
<1>5. CASE RevokeWindow
  BY <1>5 DEF RevokeWindow, ClosePlayer, CancelUpdate, Closed, Cancelled, NewPanel
<1>6. ASSUME NEW v \in BOOLEAN, RestartApp(v) PROVE PanelInv'
  BY <1>6 DEF RestartApp, Fault, NewPanel, NoOp
<1>7. CASE CheckUpdates
  BY <1>7 DEF CheckUpdates, OnlyUpdates
<1>8. CASE UserCancelsUpdate
  BY <1>8 DEF UserCancelsUpdate, CancelUpdate, OnlyUpdates
<1>9. CASE UpdateDeadline
  BY <1>9 DEF UpdateDeadline, OnlyUpdates
<1>10. ASSUME NEW v \in {"available", "not_published", "failed"}, UpdateEnds(v) PROVE PanelInv'
  BY <1>10 DEF UpdateEnds, OnlyUpdates
<1>11. CASE Refresh
  BY <1>11 DEF Refresh, Begin, Doing, Supersede, OnlyService
<1>12. CASE OpenPlayer
  BY <1>12 DEF OpenPlayer, Begin, Doing, Supersede, OnlyService, ClosePlayer
<1>13. CASE Command
  BY <1>13 DEF Command, Begin, Doing, Supersede, OnlyService
<1>14. CASE RefusedAction
  BY <1>14 DEF RefusedAction, Supersede, OnlyService
<1>15. CASE AskStatus
  BY <1>15 DEF AskStatus, Supersede, OnlyService
<1>16. CASE CancelYouTube
  BY <1>16 DEF CancelYouTube, Supersede, ClosePlayer, Closed, Cancelled, OnlyService
<1>17. CASE AskClose
  BY <1>17 DEF AskClose, Supersede, ClosePlayer, Closed, OnlyService
<1>18. ASSUME NEW v \in BOOLEAN, Observed(v) PROVE PanelInv'
  BY <1>18 DEF Observed, Proceed, EndOp, Sampled, NoOp, OnlyService
<1>19. CASE RecordTurn
  BY <1>19, SMTT(60) DEF RecordTurn, Proceed, EndOp, Sampled, NoOp, OnlyService
<1>20. ASSUME NEW v \in BOOLEAN, Recorded(v) PROVE PanelInv'
  BY <1>20 DEF Recorded, EndOp, Sampled, NoOp, OnlyService
<1>21. ASSUME NEW v \in BOOLEAN, CleanSession(v) PROVE PanelInv'
  BY <1>21 DEF CleanSession, Fault, NoFault
<1>22. CASE OpenWindow
  <2>1. CASE op.live /\ cleaning = "done"
    <3>1. /\ players' = players + 1 /\ player' = players + 1
          /\ UNCHANGED <<ask, answer, poll, pollAnswer, shown, seenClosed>>
      BY <2>1, <1>22 DEF OpenWindow, Proceed
    <3>2. op'.window = players + 1
      BY <2>1, <1>22 DEF OpenWindow, Proceed
    <3>. QED
      BY <3>1, <3>2
  <2>2. CASE ~(op.live /\ cleaning = "done")
    BY <2>2, <1>22 DEF OpenWindow, EndOp, NoOp, OnlyService
  <2>. QED
    BY <2>1, <2>2
<1>23. CASE Loaded
  BY <1>23 DEF Loaded, Proceed, OnlyService
<1>24. CASE Opened
  BY <1>24, SMTT(60) DEF Opened, EndOp, Sampled, NoOp, OnlyService
<1>25. CASE OpenFails
  BY <1>25, SMTT(60) DEF OpenFails, EndOp, ClosePlayer, NoOp, OnlyService
<1>26. CASE CloseWindow
  BY <1>26 DEF CloseWindow, ClosePlayer, Closed, OnlyService
<1>27. CASE AnswerControl
  BY <1>27 DEF AnswerControl, Sampled, OnlyPanel
<1>28. CASE Settle
  BY <1>28 DEF Settle, Settled, OnlyPanel
<1>29. CASE ShowAnswer
  BY <1>29 DEF ShowAnswer, Show, OnlyPanel
<1>30. CASE Poll
  BY <1>30 DEF Poll, Sampled, OnlyPanel
<1>31. CASE SettlePoll
  BY <1>31 DEF SettlePoll, Settled, OnlyPanel
<1>32. CASE ShowPoll
  BY <1>32 DEF ShowPoll, Show, OnlyPanel
<1>. QED
  BY <1>1, <1>2, <1>3, <1>4, <1>5, <1>6, <1>7, <1>8, <1>9, <1>10, <1>11, <1>12, <1>13, <1>14, <1>15, <1>16, <1>17, <1>18, <1>19, <1>20, <1>21, <1>22, <1>23, <1>24, <1>25, <1>26, <1>27, <1>28, <1>29, <1>30, <1>31, <1>32 DEF UseNext

LEMMA UseStep == ASSUME UseInv, [UseNext]_useVars PROVE UseInv'
<1>1. CASE UseNext
  BY <1>1, UseTypesStep, SettingInvStep, QuietInvStep, PanelInvStep DEF UseInv
<1>2. CASE UNCHANGED useVars
  BY <1>2 DEF UseInv, UseTypes, SettingInv, QuietInv, PanelInv, Over, useVars
<1>. QED
  BY <1>1, <1>2

LEMMA UseInvariant == UseSpec => []UseInv
  BY UseInitially, UseStep, PTL DEF UseSpec

\* Offline Mode silences the update check, the metadata refresh and the player
\* under way, and an opening that has not opened its window yet; a setting that
\* was acknowledged survives a crash; and no answer, however late, shows a
\* player again that the panel was told is closed.
THEOREM NetworkPromiseKept == UseSpec => []NetworkKeepsWord
<1>1. UseInv => NetworkKeepsWord
  <2>. SUFFICES ASSUME UseInv PROVE NetworkKeepsWord
    OBVIOUS
  <2>. USE DEF UseInv, UseTypes
  <2>1. OfflineIsQuiet
    BY DEF QuietInv, OfflineIsQuiet
  <2>2. SettingSurvives
    BY DEF SettingInv, SettingSurvives
  <2>3. NothingReshown
    BY DEF PanelInv, NothingReshown
  <2>4. UpdatesTellTruth
    BY DEF QuietInv, UpdatesTellTruth
  <2>. QED
    BY <2>1, <2>2, <2>3, <2>4 DEF NetworkKeepsWord
<1>. QED
  BY <1>1, UseInvariant, PTL

(***************************************************************************)
(* LyricsDiscovery.                                                        *)
(***************************************************************************)
Records == [song : Songs, version : Nat, gen : Nat, project : LyricsProjects, search : Nat]
Owners == [gen : Nat, project : LyricsProjects, known : Nat]
Additions == [project : LyricsProjects, on : Nat, text : Nat, choice : Records]
Searching == [kind : {"searching"}, live : BOOLEAN, of : Owners, search : Nat]
Reading == [kind : {"reading"}, live : BOOLEAN, of : Owners, choice : Records]
Saving == [kind : {"saving"}, live : BOOLEAN, of : Owners, choice : Records, text : Nat]

LyricsTypes ==
    /\ lyrOffline \in BOOLEAN /\ cancelSent \in BOOLEAN
    /\ candidates \subseteq Records /\ listed \subseteq Records /\ reply \subseteq Records
    /\ lop \in {NoSearch} \cup Searching \cup Reading \cup Saving
    /\ remote \in [Songs -> Nat] /\ head \in [LyricsProjects -> Nat]
    /\ saved \subseteq Additions /\ owner \in Owners
    /\ waiting \in {"none", "op", "answered"} /\ searches \in Nat

\* The request that runs is for the panel that waits, and what the panel was
\* told is its own; a transfer that can still end well is the panel's too,
\* unless its cancel is on the way.
Mine(x) == x.gen = owner.gen /\ x.project = owner.project
OwnInv ==
    /\ \A c \in listed \cup reply : Mine(c)
    /\ \A c, d \in candidates : c.search = d.search
    /\ waiting = "op" => lop.kind # "none" /\ Mine(lop.of)
    /\ lyrOffline = TRUE => candidates = {}
    /\ lop.kind \in {"searching", "reading"} /\ lop.live = TRUE =>
         lyrOffline = FALSE /\ (cancelSent = FALSE => Mine(lop.of))

\* What is read and saved is of the Project that the request is for, and a
\* record of LRCLIB is saved as it was found; one addition at most extends a
\* Head.
SavedInv ==
    /\ lop.kind \in {"reading", "saving"} => lop.choice.project = lop.of.project
    /\ lop.kind = "saving" /\ lop.choice.song \in Hashed => lop.text = lop.choice.version
    /\ \A l \in saved :
         /\ l.choice.project = l.project /\ head[l.project] > l.on
         /\ l.choice.song \in Hashed => l.text = l.choice.version
         /\ \A m \in saved : m.project = l.project /\ m.on = l.on => m = l

LyricsInv == LyricsTypes /\ OwnInv /\ SavedInv

USE DEF mainLyrVars, panelLyrVars

LEMMA LyricsInitially == LyricsInit => LyricsInv
<1>. SUFFICES ASSUME LyricsInit PROVE LyricsInv
  OBVIOUS
<1>. USE DEF LyricsInit, NoSearch
<1>1. owner \in Owners
  BY DEF Owners
<1>2. remote \in [Songs -> Nat] /\ head \in [LyricsProjects -> Nat]
  OBVIOUS
<1>3. LyricsTypes
  BY <1>1, <1>2 DEF LyricsTypes
<1>4. OwnInv /\ SavedInv
  BY DEF OwnInv, SavedInv
<1>. QED
  BY <1>3, <1>4 DEF LyricsInv

\* A cancelled request is of the same kind and for the same panel, and none
\* that is cancelled lives on but a save.
LEMMA CancelledRequest ==
    ASSUME LyricsTypes
    PROVE  /\ Aborted(lop) \in {NoSearch} \cup Searching \cup Reading \cup Saving
           /\ Aborted(lop).kind = lop.kind
           /\ lop.kind # "none" => Aborted(lop).of = lop.of
           /\ lop.kind \in {"reading", "saving"} => Aborted(lop).choice = lop.choice
           /\ lop.kind = "saving" => Aborted(lop) = lop
           /\ lop.kind \in {"searching", "reading"} => Aborted(lop).live = FALSE
<1>. USE DEF LyricsTypes, Aborted
<1>1. CASE lop = NoSearch
  BY <1>1 DEF NoSearch
<1>2. CASE lop \in Searching
  BY <1>2 DEF Searching
<1>3. CASE lop \in Reading
  BY <1>3 DEF Reading
<1>4. CASE lop \in Saving
  BY <1>4 DEF Saving
<1>. QED
  BY <1>1, <1>2, <1>3, <1>4

\* What each kind of request carries.
LEMMA RequestKinds ==
    ASSUME LyricsTypes
    PROVE  /\ lop.kind = "none" <=> lop = NoSearch
           /\ lop.kind = "searching" <=> lop \in Searching
           /\ lop.kind = "reading" <=> lop \in Reading
           /\ lop.kind = "saving" <=> lop \in Saving
           /\ lop.kind \in {"none", "searching", "reading", "saving"} /\ lop.live \in BOOLEAN
<1>. USE DEF LyricsTypes, NoSearch, Searching, Reading, Saving
<1>1. CASE lop = NoSearch
  BY <1>1
<1>2. CASE lop \in Searching
  BY <1>2
<1>3. CASE lop \in Reading
  BY <1>3
<1>4. CASE lop \in Saving
  BY <1>4
<1>. QED
  BY <1>1, <1>2, <1>3, <1>4

\* A request is taken, or refused: then nothing changes or the discovery is
\* cancelled.
Taken(r) == /\ lop.kind = "none" /\ lyrOffline # TRUE
            /\ candidates' = {} /\ lop' = r /\ waiting' = "op"
Refused == waiting' = "none" /\ (UNCHANGED <<candidates, lop>> \/ CancelDiscovery)

LEMMA SearchOutcome ==
    ASSUME Search
    PROVE  Taken([kind |-> "searching", live |-> TRUE, of |-> owner, search |-> searches + 1]) \/ Refused
  BY DEF Search, Ask, Taken, Refused

LEMMA ChooseOutcome ==
    ASSUME NEW c \in listed, Choose(c)
    PROVE  Taken([kind |-> "reading", live |-> TRUE, of |-> owner, choice |-> c]) \/ Refused
  BY DEF Choose, Ask, Taken, Refused

LEMMA LyricsTypesStep == ASSUME LyricsInv, LyricsNext PROVE LyricsTypes'
<1>. USE RequestKinds, CancelledRequest DEF LyricsInv, LyricsTypes
<1>1. CASE Search
  <2>1. CASE Taken([kind |-> "searching", live |-> TRUE, of |-> owner, search |-> searches + 1])
    <3>1. lop' \in Searching
      BY <2>1, <1>1 DEF Search, Taken, Searching
    <3>. QED
      BY <3>1, <2>1, <1>1 DEF Search, Ask, Forget, World, Taken
  <2>2. CASE Refused
    <3>1. /\ lyrOffline' = lyrOffline /\ cancelSent' = cancelSent /\ listed' = {} /\ reply' = {}
          /\ remote' = remote /\ head' = head /\ saved' = saved /\ owner' = owner
          /\ searches' = searches + 1 /\ waiting' = "none"
      BY <2>2, <1>1 DEF Search, Ask, Forget, World, Refused
    <3>2. candidates' \in {candidates, {}} /\ lop' \in {lop, Aborted(lop)}
      BY <2>2 DEF Refused, CancelDiscovery
    <3>3. candidates' \subseteq Records /\ lop' \in {NoSearch} \cup Searching \cup Reading \cup Saving
      BY <3>2
    <3>4. searches' \in Nat /\ waiting' \in {"none", "op", "answered"} /\ listed' \subseteq Records
      BY <3>1
    <3>. QED
      BY <3>1, <3>3, <3>4
  <2>. QED
    BY <2>1, <2>2, SearchOutcome, <1>1
<1>2. CASE SaveEnds
  <2>1. /\ lop \in Saving /\ lop' = NoSearch /\ reply' \subseteq Records
        /\ waiting' \in {"none", "op", "answered"}
        /\ UNCHANGED <<lyrOffline, cancelSent, candidates, listed, remote, owner, searches>>
    BY <1>2 DEF SaveEnds, Ends, Answer
  <2>2. head' \in [LyricsProjects -> Nat] /\ saved' \subseteq Additions
    <3>. DEFINE p == lop.of.project
    <3>1. p \in LyricsProjects /\ lop.of.known \in Nat /\ lop.choice \in Records /\ lop.text \in Nat
      BY <2>1 DEF Saving, Owners
    <3>2. CASE head[p] = lop.of.known
      <4>1. /\ head' = [head EXCEPT ![p] = @ + 1]
            /\ saved' = saved \cup {[project |-> p, on |-> lop.of.known, text |-> lop.text, choice |-> lop.choice]}
        BY <3>2, <1>2 DEF SaveEnds
      <4>. QED
        BY <3>1, <4>1 DEF Additions
    <3>3. CASE head[p] # lop.of.known
      BY <3>3, <1>2 DEF SaveEnds
    <3>. QED
      BY <3>2, <3>3
  <2>. QED
    BY <2>1, <2>2
<1>3. CASE SaveFails
  BY <1>3 DEF SaveFails, Ends, Answer, World, NoSearch
<1>4. CASE ShowReply
  BY <1>4 DEF ShowReply, World
<1>5. CASE TogglePanel
  BY <1>5 DEF TogglePanel, Forget, World
<1>6. CASE CancelArrives
  BY <1>6 DEF CancelArrives, CancelDiscovery, World
<1>7. CASE SeeHead
  <2>1. owner' \in Owners
    BY <1>7 DEF SeeHead, Owners
  <2>. QED
    BY <2>1, <1>7 DEF SeeHead, World
<1>8. CASE ExpireCandidates
  BY <1>8 DEF ExpireCandidates, CancelDiscovery, World
<1>9. CASE ReplaceWindow
  <2>1. owner' = [[owner EXCEPT !.gen = owner.gen + 1] EXCEPT !.known = head[owner.project]]
    BY <1>9 DEF ReplaceWindow, Owners
  <2>2. owner.gen + 1 \in Nat /\ head[owner.project] \in Nat
    BY DEF Owners
  <2>3. owner' \in Owners
    BY <2>1, <2>2 DEF Owners
  <2>. QED
    BY <2>3, <1>9 DEF ReplaceWindow, Event, CancelDiscovery, Forget
<1>10. ASSUME NEW v \in listed, Choose(v) PROVE LyricsTypes'
  <2>1. CASE Taken([kind |-> "reading", live |-> TRUE, of |-> owner, choice |-> v])
    <3>1. v \in Records
      BY <1>10
    <3>2. lop' \in Reading
      BY <3>1, <2>1, <1>10 DEF Taken, Reading
    <3>. QED
      BY <3>2, <2>1, <1>10 DEF Choose, Ask, Forget, World, Taken
  <2>2. CASE Refused
    BY <2>2, <1>10 DEF Choose, Ask, Forget, World, Refused, CancelDiscovery
  <2>. QED
    BY <2>1, <2>2, ChooseOutcome, <1>10
<1>11. ASSUME NEW v \in BOOLEAN, SearchEnds(v) PROVE LyricsTypes'
  <2>1. lop \in Searching
    BY <1>11 DEF SearchEnds
  <2>2. \A s \in Songs : Candidate(s, lop.of, lop.search) \in Records
    BY <2>1 DEF Candidate, Records, Searching, Owners
  <2>. DEFINE found == IF v THEN {Candidate(s, lop.of, lop.search) : s \in Songs} ELSE {}
  <2>3. found \subseteq Records
    BY <2>2
  <2>4. candidates' = found /\ Ends(found) /\ World
    BY <1>11 DEF SearchEnds
  <2>. HIDE DEF found
  <2>. QED
    BY <2>3, <2>4 DEF Ends, Answer, World
<1>12. ASSUME NEW v \in BOOLEAN, ReadEnds(v) PROVE LyricsTypes'
  <2>1. lop \in Reading /\ candidates' = {} /\ World
    BY <1>12 DEF ReadEnds
  <2>2. CASE v /\ Unchanged(lop.choice)
    <3>1. /\ lop' = [kind |-> "saving", live |-> TRUE, of |-> lop.of, choice |-> lop.choice,
                     text |-> remote[lop.choice.song]]
          /\ UNCHANGED <<lyrOffline, panelLyrVars, searches>>
      BY <2>2, <1>12 DEF ReadEnds
    <3>2. lop.of \in Owners /\ lop.choice \in Records /\ remote[lop.choice.song] \in Nat
      BY <2>1 DEF Reading, Records
    <3>3. lop' \in Saving
      BY <3>1, <3>2 DEF Saving
    <3>. QED
      BY <2>1, <3>1, <3>3 DEF World
  <2>3. CASE ~(v /\ Unchanged(lop.choice))
    BY <2>1, <2>3, <1>12 DEF ReadEnds, Ends, Answer, World
  <2>. QED
    BY <2>2, <2>3
<1>13. ASSUME NEW v \in BOOLEAN, ChangeOffline(v) PROVE LyricsTypes'
  BY <1>13 DEF ChangeOffline, Event, CancelDiscovery
<1>14. ASSUME NEW v \in Songs, TextChanges(v) PROVE LyricsTypes'
  BY <1>14 DEF TextChanges, Event
<1>15. ASSUME NEW v \in LyricsProjects, HeadMoves(v) PROVE LyricsTypes'
  BY <1>15 DEF HeadMoves, Event
<1>16. ASSUME NEW v \in LyricsProjects, ShowProject(v) PROVE LyricsTypes'
  <2>1. owner' \in Owners
    BY <1>16 DEF ShowProject, Owners
  <2>. QED
    BY <2>1, <1>16 DEF ShowProject, Event, Forget
<1>. QED
  BY <1>1, <1>2, <1>3, <1>4, <1>5, <1>6, <1>7, <1>8, <1>9, <1>10, <1>11, <1>12, <1>13, <1>14, <1>15, <1>16 DEF LyricsNext

LEMMA OwnInvStep == ASSUME LyricsInv, LyricsNext PROVE OwnInv'
<1>. USE RequestKinds, CancelledRequest DEF LyricsInv, LyricsTypes, OwnInv, Mine
<1>1. CASE Search
  <2>1. CASE Taken([kind |-> "searching", live |-> TRUE, of |-> owner, search |-> searches + 1])
    BY <2>1, <1>1 DEF Search, Ask, Forget, World, Taken
  <2>2. CASE Refused
    BY <2>2, <1>1 DEF Search, Ask, Forget, World, Refused, CancelDiscovery
  <2>. QED
    BY <2>1, <2>2, SearchOutcome, <1>1
<1>2. CASE SaveEnds
  BY <1>2 DEF SaveEnds, Ends, Answer, NoSearch
<1>3. CASE SaveFails
  BY <1>3 DEF SaveFails, Ends, Answer, World, NoSearch
<1>4. CASE ShowReply
  BY <1>4 DEF ShowReply, World
<1>5. CASE TogglePanel
  BY <1>5 DEF TogglePanel, Forget, World
<1>6. CASE CancelArrives
  BY <1>6 DEF CancelArrives, CancelDiscovery, World
<1>7. CASE SeeHead
  BY <1>7 DEF SeeHead, World
<1>8. CASE ExpireCandidates
  BY <1>8 DEF ExpireCandidates, CancelDiscovery, World
<1>9. CASE ReplaceWindow
  BY <1>9 DEF ReplaceWindow, Event, CancelDiscovery, Forget
<1>10. ASSUME NEW v \in listed, Choose(v) PROVE OwnInv'
  <2>1. CASE Taken([kind |-> "reading", live |-> TRUE, of |-> owner, choice |-> v])
    BY <2>1, <1>10 DEF Choose, Ask, Forget, World, Taken
  <2>2. CASE Refused
    BY <2>2, <1>10 DEF Choose, Ask, Forget, World, Refused, CancelDiscovery
  <2>. QED
    BY <2>1, <2>2, ChooseOutcome, <1>10
<1>11. ASSUME NEW v \in BOOLEAN, SearchEnds(v) PROVE OwnInv'
  BY <1>11 DEF SearchEnds, Ends, Answer, World, Candidate, NoSearch
<1>12. ASSUME NEW v \in BOOLEAN, ReadEnds(v) PROVE OwnInv'
  BY <1>12 DEF ReadEnds, Ends, Answer, World, NoSearch, Unchanged
<1>13. ASSUME NEW v \in BOOLEAN, ChangeOffline(v) PROVE OwnInv'
  BY <1>13 DEF ChangeOffline, Event, CancelDiscovery
<1>14. ASSUME NEW v \in Songs, TextChanges(v) PROVE OwnInv'
  BY <1>14 DEF TextChanges, Event
<1>15. ASSUME NEW v \in LyricsProjects, HeadMoves(v) PROVE OwnInv'
  BY <1>15 DEF HeadMoves, Event
<1>16. ASSUME NEW v \in LyricsProjects, ShowProject(v) PROVE OwnInv'
  BY <1>16 DEF ShowProject, Event, Forget
<1>. QED
  BY <1>1, <1>2, <1>3, <1>4, <1>5, <1>6, <1>7, <1>8, <1>9, <1>10, <1>11, <1>12, <1>13, <1>14, <1>15, <1>16 DEF LyricsNext

LEMMA SavedInvStep == ASSUME LyricsInv, LyricsNext PROVE SavedInv'
<1>. USE RequestKinds, CancelledRequest DEF LyricsInv, LyricsTypes, SavedInv
<1>1. CASE Search
  <2>1. CASE Taken([kind |-> "searching", live |-> TRUE, of |-> owner, search |-> searches + 1])
    BY <2>1, <1>1 DEF Search, World, Taken
  <2>2. CASE Refused
    BY <2>2, <1>1 DEF Search, World, Refused, CancelDiscovery
  <2>. QED
    BY <2>1, <2>2, SearchOutcome, <1>1
<1>2. CASE SaveEnds
  <2>. DEFINE p == lop.of.project
              new == [project |-> p, on |-> lop.of.known, text |-> lop.text, choice |-> lop.choice]
  <2>1. lop \in Saving /\ lop'.kind = "none"
    BY <1>2 DEF SaveEnds, Ends, NoSearch
  <2>2. p \in LyricsProjects /\ lop.of.known \in Nat
    BY <2>1 DEF Saving, Owners
  <2>3. CASE head[p] = lop.of.known
    <3>1. head' = [head EXCEPT ![p] = @ + 1] /\ saved' = saved \cup {new}
      BY <2>3, <1>2 DEF SaveEnds
    <3>2. \A q \in LyricsProjects : head'[q] >= head[q] /\ head'[q] \in Nat
      BY <2>2, <3>1
    <3>3. ASSUME NEW l \in saved
          PROVE  l.project \in LyricsProjects /\ l.on \in Nat /\ head'[l.project] > l.on
      BY <3>2, <3>3 DEF Additions
    <3>4. head'[p] > lop.of.known
      BY <2>2, <2>3, <3>1
    <3>5. \A l \in saved : l.project = p => l.on # lop.of.known
      BY <2>2, <2>3, <3>3 DEF Additions
    <3>6. /\ new.project = p /\ new.on = lop.of.known /\ new.choice = lop.choice /\ new.text = lop.text
          /\ lop.choice.project = p
          /\ lop.choice.song \in Hashed => lop.text = lop.choice.version
      BY <2>1
    <3>. HIDE DEF new, p
    <3>. QED
      BY <2>1, <3>1, <3>3, <3>4, <3>5, <3>6
  <2>4. CASE head[p] # lop.of.known
    BY <2>1, <2>4, <1>2 DEF SaveEnds
  <2>. QED
    BY <2>3, <2>4
<1>3. CASE SaveFails
  BY <1>3 DEF SaveFails, Ends, Answer, World, NoSearch
<1>4. CASE ShowReply
  BY <1>4 DEF ShowReply, World
<1>5. CASE TogglePanel
  BY <1>5 DEF TogglePanel, Forget, World
<1>6. CASE CancelArrives
  BY <1>6 DEF CancelArrives, CancelDiscovery, World
<1>7. CASE SeeHead
  BY <1>7 DEF SeeHead, World
<1>8. CASE ExpireCandidates
  BY <1>8 DEF ExpireCandidates, CancelDiscovery, World
<1>9. CASE ReplaceWindow
  BY <1>9 DEF ReplaceWindow, Event, CancelDiscovery, Forget
<1>10. ASSUME NEW v \in listed, Choose(v) PROVE SavedInv'
  <2>1. CASE Taken([kind |-> "reading", live |-> TRUE, of |-> owner, choice |-> v])
    <3>1. v.project = owner.project
      BY <1>10 DEF Choose, OwnInv, Mine
    <3>2. lop'.kind = "reading" /\ lop'.choice = v /\ lop'.of = owner
      BY <2>1 DEF Taken
    <3>. QED
      BY <3>1, <3>2, <1>10 DEF Choose, World
  <2>2. CASE Refused
    BY <2>2, <1>10 DEF Choose, World, Refused, CancelDiscovery
  <2>. QED
    BY <2>1, <2>2, ChooseOutcome, <1>10
<1>11. ASSUME NEW v \in BOOLEAN, SearchEnds(v) PROVE SavedInv'
  BY <1>11 DEF SearchEnds, Ends, Answer, World, Candidate, NoSearch
<1>12. ASSUME NEW v \in BOOLEAN, ReadEnds(v) PROVE SavedInv'
  BY <1>12 DEF ReadEnds, Ends, Answer, World, NoSearch, Unchanged
<1>13. ASSUME NEW v \in BOOLEAN, ChangeOffline(v) PROVE SavedInv'
  BY <1>13 DEF ChangeOffline, Event, CancelDiscovery
<1>14. ASSUME NEW v \in Songs, TextChanges(v) PROVE SavedInv'
  BY <1>14 DEF TextChanges, Event
<1>15. ASSUME NEW v \in LyricsProjects, HeadMoves(v) PROVE SavedInv'
  <2>1. /\ head' = [head EXCEPT ![v] = @ + 1] /\ UNCHANGED <<lop, saved>>
    BY <1>15 DEF HeadMoves, Event
  <2>2. \A l \in saved : l.project \in LyricsProjects /\ l.on \in Nat /\ head'[l.project] > l.on
    BY <2>1 DEF Additions
  <2>. QED
    BY <2>1, <2>2
<1>16. ASSUME NEW v \in LyricsProjects, ShowProject(v) PROVE SavedInv'
  BY <1>16 DEF ShowProject, Event, Forget
<1>. QED
  BY <1>1, <1>2, <1>3, <1>4, <1>5, <1>6, <1>7, <1>8, <1>9, <1>10, <1>11, <1>12, <1>13, <1>14, <1>15, <1>16 DEF LyricsNext

LEMMA LyricsStep == ASSUME LyricsInv, [LyricsNext]_lyricsVars PROVE LyricsInv'
<1>1. CASE LyricsNext
  BY <1>1, LyricsTypesStep, OwnInvStep, SavedInvStep DEF LyricsInv
<1>2. CASE UNCHANGED lyricsVars
  BY <1>2 DEF LyricsInv, LyricsTypes, OwnInv, SavedInv, Mine, lyricsVars
<1>. QED
  BY <1>1, <1>2

LEMMA LyricsInvariant == LyricsSpec => []LyricsInv
  BY LyricsInitially, LyricsStep, PTL DEF LyricsSpec

\* Lyrics are added to the Project and the Head they were chosen for, with the
\* text that was found, and a panel lists its own candidates only, whatever is
\* cancelled, closed, replaced or changed while a search or a read is under way.
THEOREM LyricsPromiseKept == LyricsSpec => []LyricsKeepWord
<1>1. LyricsInv => LyricsKeepWord
  <2>. SUFFICES ASSUME LyricsInv PROVE LyricsKeepWord
    OBVIOUS
  <2>. USE DEF LyricsInv, LyricsTypes
  <2>1. SavedAsChosen
    BY DEF SavedInv, SavedAsChosen
  <2>2. OnlyOwnCandidates
    BY RequestKinds DEF OwnInv, Mine, OnlyOwnCandidates
  <2>. QED
    BY <2>1, <2>2 DEF LyricsKeepWord
<1>. QED
  BY <1>1, LyricsInvariant, PTL

-----------------------------------------------------------------------------
(***************************************************************************)
(* ChordEditing: the draft and the history of edits, for any Chords and    *)
(* Beats, and however many edits, saves and Analysis Revisions.            *)
(***************************************************************************)

\* Complete induction up to n, over a set.
LEMMA UpTo ==
    ASSUME NEW n \in Nat, NEW S, 0 \in S, \A k \in 1..n : (\A j \in 0..(k - 1) : j \in S) => k \in S
    PROVE  \A k \in 0..n : k \in S
<1>. DEFINE T == {k \in 0..n : k \notin S}
<1>1. SUFFICES ASSUME T # {} PROVE FALSE
  OBVIOUS
<1>0. T \subseteq Nat
  OBVIOUS
<1>2. IsWellFoundedOn(OpToRel(<, Nat), Nat)
  BY NatLessThanWellFounded
<1>3. PICK x \in T : \A y \in T : ~(<<y, x>> \in OpToRel(<, Nat))
  BY <1>0, <1>1, <1>2, WFMin
<1>4. \A y \in T : ~(y < x)
  BY <1>0, <1>3 DEF OpToRel
<1>5. x \in 0..n /\ x # 0 /\ \A j \in 0..(x - 1) : j \in S
  BY <1>4
<1>. QED
  BY <1>5

\* The recursion of ApplyAll, and of Chain, seen from outside.
ApplyRun(f, t, ops) == f[0] = t /\ \A k \in 1..Len(ops) : f[k] = Apply(f[k - 1], ops[k])
ChainRun(f, layer) ==
    f[0] = <<>> /\ \A k \in 1..Len(layer.edits) : f[k] = f[layer.edits[k].parent] \o layer.edits[k].ops

LEMMA ApplyAllIs ==
    ASSUME NEW t, NEW ops, Len(ops) \in Nat
    PROVE  \E f : ApplyRun(f, t, ops) /\ ApplyAll(t, ops) = f[Len(ops)]
<1>. DEFINE n == Len(ops)
            Body(m, f) == [k \in 0..m |-> IF k = 0 THEN t ELSE Apply(f[k - 1], ops[k])]
            Solves(m, f) == f = Body(m, f)
            S == {m \in 0..n : \E f : Solves(m, f)}
<1>1. 0 \in S
  <2>1. [k \in 0..0 |-> t] = Body(0, [k \in 0..0 |-> t])
    OBVIOUS
  <2>2. \E f : Solves(0, f)
    BY <2>1
  <2>. HIDE DEF Solves
  <2>. QED
    BY <2>2
<1>2. ASSUME NEW m \in 1..n, m - 1 \in S PROVE m \in S
  <2>1. PICK f : f = Body(m - 1, f)
    BY <1>2
  <2>. DEFINE g == [k \in 0..m |-> IF k = m THEN Apply(f[m - 1], ops[m]) ELSE f[k]]
  <2>2. g = Body(m, g)
    <3>1. ASSUME NEW k \in 0..m PROVE g[k] = IF k = 0 THEN t ELSE Apply(g[k - 1], ops[k])
      <4>1. CASE k = m
        BY <4>1
      <4>2. CASE k # m
        <5>1. k \in 0..(m - 1) /\ g[k] = f[k]
          BY <4>2
        <5>2. f[k] = IF k = 0 THEN t ELSE Apply(f[k - 1], ops[k])
          BY <2>1, <5>1
        <5>3. k # 0 => g[k - 1] = f[k - 1]
          BY <4>2
        <5>. QED
          BY <5>1, <5>2, <5>3
      <4>. QED
        BY <4>1, <4>2
    <3>. QED
      BY <3>1
  <2>3. \E h : Solves(m, h)
    BY <2>2
  <2>. HIDE DEF Solves
  <2>. QED
    BY <2>3
<1>3. \A m \in 0..n : m \in S
  <2>. HIDE DEF S
  <2>1. \A m \in 1..n : (\A j \in 0..(m - 1) : j \in S) => m \in S
    BY <1>2
  <2>. QED
    BY <1>1, <2>1, UpTo
<1>4. \E f : f = Body(n, f)
  <2>1. n \in S
    <3>. HIDE DEF S
    <3>. QED
      BY <1>3
  <2>. HIDE DEF Body
  <2>. QED
    BY <2>1
<1>. DEFINE f == CHOOSE h : h = Body(n, h)
<1>5. f = Body(n, f)
  BY <1>4
<1>6. ApplyAll(t, ops) = f[n]
  BY DEF ApplyAll
<1>. HIDE DEF f
<1>7. ApplyRun(f, t, ops)
  <2>1. f[0] = t
    BY <1>5
  <2>2. ASSUME NEW k \in 1..n PROVE f[k] = Apply(f[k - 1], ops[k])
    BY <1>5
  <2>. QED
    BY <2>1, <2>2 DEF ApplyRun
<1>. QED
  BY <1>6, <1>7

\* Only one run starts from a timeline.
LEMMA ApplyPrefix ==
    ASSUME NEW t, NEW s, Len(s) \in Nat, NEW g, ApplyRun(g, t, s)
    PROVE  ApplyAll(t, s) = g[Len(s)]
<1>1. PICK f : ApplyRun(f, t, s) /\ ApplyAll(t, s) = f[Len(s)]
  BY ApplyAllIs
<1>. DEFINE S == {k \in 0..Len(s) : f[k] = g[k]}
<1>2. 0 \in S
  BY <1>1 DEF ApplyRun
<1>3. ASSUME NEW k \in 1..Len(s), \A j \in 0..(k - 1) : j \in S PROVE k \in S
  <2>1. f[k - 1] = g[k - 1]
    <3>1. k - 1 \in S
      BY <1>3
    <3>. QED
      BY <3>1
  <2>. QED
    BY <1>1, <2>1 DEF ApplyRun
<1>4. \A k \in 0..Len(s) : k \in S
  <2>. HIDE DEF S
  <2>. QED
    BY <1>2, <1>3, UpTo
<1>5. f[Len(s)] = g[Len(s)]
  BY <1>4
<1>. QED
  BY <1>1, <1>5

LEMMA ApplyNone == ASSUME NEW t, NEW ops, Len(ops) = 0 PROVE ApplyAll(t, ops) = t
<1>1. PICK f : ApplyRun(f, t, ops) /\ ApplyAll(t, ops) = f[Len(ops)]
  BY ApplyAllIs
<1>. QED
  BY <1>1 DEF ApplyRun

LEMMA ApplyLast ==
    ASSUME NEW t, NEW s, NEW u, Len(s) \in Nat, Len(u) = Len(s) + 1, \A k \in 1..Len(s) : u[k] = s[k]
    PROVE  ApplyAll(t, u) = Apply(ApplyAll(t, s), u[Len(u)])
<1>1. PICK g : ApplyRun(g, t, u) /\ ApplyAll(t, u) = g[Len(u)]
  BY ApplyAllIs
<1>2. ApplyRun(g, t, s)
  BY <1>1 DEF ApplyRun
<1>3. ApplyAll(t, s) = g[Len(s)]
  BY <1>2, ApplyPrefix
<1>4. g[Len(u)] = Apply(g[Len(s)], u[Len(u)])
  BY <1>1 DEF ApplyRun
<1>. QED
  BY <1>1, <1>3, <1>4

LEMMA ApplyConcat ==
    ASSUME NEW t, NEW X, NEW s \in Seq(X), NEW u \in Seq(X)
    PROVE  ApplyAll(t, s \o u) = ApplyAll(ApplyAll(t, s), u)
<1>. DEFINE w == s \o u  n == Len(s)
<1>0. /\ n \in Nat /\ Len(u) \in Nat /\ Len(w) = n + Len(u)
      /\ \A k \in 1..n : w[k] = s[k]
      /\ \A k \in 1..Len(u) : w[n + k] = u[k]
  OBVIOUS
<1>. HIDE DEF w
<1>1. PICK g : ApplyRun(g, t, w) /\ ApplyAll(t, w) = g[Len(w)]
  <2>1. Len(w) \in Nat
    BY <1>0
  <2>. QED
    BY <2>1, ApplyAllIs
<1>2. ApplyAll(t, s) = g[n]
  <2>1. ApplyRun(g, t, s)
    BY <1>0, <1>1 DEF ApplyRun
  <2>. QED
    BY <1>0, <2>1, ApplyPrefix
<1>. DEFINE h == [k \in 0..Len(u) |-> g[n + k]]
<1>3. ApplyRun(h, ApplyAll(t, s), u)
  <2>1. h[0] = ApplyAll(t, s)
    BY <1>0, <1>2
  <2>2. ASSUME NEW k \in 1..Len(u) PROVE h[k] = Apply(h[k - 1], u[k])
    <3>1. n + k \in 1..Len(w) /\ w[n + k] = u[k] /\ (n + k) - 1 = n + (k - 1)
      BY <1>0
    <3>2. g[n + k] = Apply(g[(n + k) - 1], w[n + k])
      BY <1>1, <3>1 DEF ApplyRun
    <3>3. h[k] = g[n + k] /\ h[k - 1] = g[n + (k - 1)]
      BY <1>0
    <3>. QED
      BY <3>1, <3>2, <3>3
  <2>. HIDE DEF h
  <2>. QED
    BY <2>1, <2>2 DEF ApplyRun
<1>4. h[Len(u)] = g[Len(w)]
  BY <1>0
<1>. HIDE DEF h
<1>5. ApplyAll(ApplyAll(t, s), u) = h[Len(u)]
  BY <1>0, <1>3, ApplyPrefix
<1>. QED
  BY <1>1, <1>4, <1>5 DEF w

LEMMA ChainIs ==
    ASSUME NEW layer, Len(layer.edits) \in Nat,
           \A k \in 1..Len(layer.edits) : layer.edits[k].parent \in 0..(k - 1)
    PROVE  \E f : ChainRun(f, layer) /\ \A p : Chain(layer, p) = f[p]
<1>. DEFINE n == Len(layer.edits)
            Body(m, f) == [k \in 0..m |-> IF k = 0 THEN <<>> ELSE f[layer.edits[k].parent] \o layer.edits[k].ops]
            Solves(m, f) == f = Body(m, f)
            S == {m \in 0..n : \E f : Solves(m, f)}
<1>1. 0 \in S
  <2>1. [k \in 0..0 |-> <<>>] = Body(0, [k \in 0..0 |-> <<>>])
    OBVIOUS
  <2>2. \E f : Solves(0, f)
    BY <2>1
  <2>. HIDE DEF Solves
  <2>. QED
    BY <2>2
<1>2. ASSUME NEW m \in 1..n, m - 1 \in S PROVE m \in S
  <2>1. PICK f : f = Body(m - 1, f)
    BY <1>2
  <2>. DEFINE g == [k \in 0..m |-> IF k = m THEN f[layer.edits[m].parent] \o layer.edits[m].ops ELSE f[k]]
  <2>2. g = Body(m, g)
    <3>1. ASSUME NEW k \in 0..m
                   PROVE g[k] = IF k = 0 THEN <<>> ELSE g[layer.edits[k].parent] \o layer.edits[k].ops
      <4>0. k # 0 => layer.edits[k].parent \in 0..(k - 1) /\ g[layer.edits[k].parent] = f[layer.edits[k].parent]
        OBVIOUS
      <4>1. CASE k = m
        <5>1. g[k] = f[layer.edits[m].parent] \o layer.edits[m].ops
          BY <4>1
        <5>2. k # 0 /\ g[layer.edits[m].parent] = f[layer.edits[m].parent]
          BY <4>0, <4>1
        <5>. HIDE DEF g
        <5>. QED
          BY <4>1, <5>1, <5>2
      <4>2. CASE k # m
        <5>1. k \in 0..(m - 1) /\ g[k] = f[k]
          BY <4>2
        <5>2. f[k] = IF k = 0 THEN <<>> ELSE f[layer.edits[k].parent] \o layer.edits[k].ops
          BY <2>1, <5>1
        <5>. QED
          BY <4>0, <5>1, <5>2
      <4>. QED
        BY <4>1, <4>2
    <3>. QED
      BY <3>1
  <2>3. \E h : Solves(m, h)
    BY <2>2
  <2>. HIDE DEF Solves
  <2>. QED
    BY <2>3
<1>3. \A m \in 0..n : m \in S
  <2>. HIDE DEF S
  <2>1. \A m \in 1..n : (\A j \in 0..(m - 1) : j \in S) => m \in S
    BY <1>2
  <2>. QED
    BY <1>1, <2>1, UpTo
<1>4. \E f : f = Body(n, f)
  <2>1. n \in S
    <3>. HIDE DEF S
    <3>. QED
      BY <1>3
  <2>. HIDE DEF Body
  <2>. QED
    BY <2>1
<1>. DEFINE f == CHOOSE h : h = Body(n, h)
<1>5. f = Body(n, f)
  BY <1>4
<1>6. \A p : Chain(layer, p) = f[p]
  BY DEF Chain
<1>. HIDE DEF f
<1>7. ChainRun(f, layer)
  <2>1. f[0] = <<>>
    BY <1>5
  <2>2. ASSUME NEW k \in 1..n PROVE f[k] = f[layer.edits[k].parent] \o layer.edits[k].ops
    <3>. DEFINE g == f
    <3>1. g = [i \in 0..n |-> IF i = 0 THEN <<>> ELSE f[layer.edits[i].parent] \o layer.edits[i].ops]
      BY <1>5
    <3>2. k \in 0..n /\ k # 0
      OBVIOUS
    <3>. HIDE DEF g, n
    <3>3. g[k] = f[layer.edits[k].parent] \o layer.edits[k].ops
      BY <3>1, <3>2
    <3>. QED
      BY <3>3 DEF g
  <2>. QED
    BY <2>1, <2>2 DEF ChainRun
<1>. QED
  BY <1>6, <1>7

Values == Chords \cup {Start}
SaidEvents == [1..2 -> [id : Ids, len : 1..3, value : Values]]
KnownEvents == [1..2 -> [id : Ids, len : 1..3, value : Values, sure : BOOLEAN]]
Distinct(events) == events[1].id # events[2].id
Whole == {e \in KnownEvents : Distinct(e) /\ TotalLength(e) = Span}
Timelines == [events : Whole, bars : {<<1, 2>>, <<1>>}]
ChordOps ==
    {ValueOp(i, v) : i \in Ids, v \in Values}
    \cup {SequenceOp(ids, events) : ids \in [1..2 -> Ids], events \in SaidEvents}
    \cup {MergeOp}

LEMMA NotBroken == ASSUME NEW t \in Timelines PROVE t # Broken
<1>1. t.bars # <<>>
  BY DEF Timelines
<1>2. Broken.bars = <<>>
  BY DEF Broken
<1>. QED
  BY <1>1, <1>2

LEMMA TimelineIs ==
    ASSUME NEW t \in Timelines
    PROVE  /\ t.events \in Whole /\ t.bars \in {<<1, 2>>, <<1>>} /\ t = [events |-> t.events, bars |-> t.bars]
           /\ DOMAIN t.events = 1..2
           /\ \A k \in 1..2 : /\ t.events[k].id \in Ids /\ t.events[k].len \in 1..3
                                   /\ t.events[k].value \in Values
                              /\ t.events[k].sure \in BOOLEAN
           /\ t.events[1].id # t.events[2].id /\ t.events[1].len + t.events[2].len = 4
<1>1. t.events \in Whole /\ t.bars \in {<<1, 2>>, <<1>>} /\ t = [events |-> t.events, bars |-> t.bars]
  BY DEF Timelines
<1>2. t.events \in KnownEvents /\ Distinct(t.events) /\ TotalLength(t.events) = Span
  BY <1>1 DEF Whole
<1>3. DOMAIN t.events = 1..2
        /\ \A k \in 1..2 : t.events[k] \in [id : Ids, len : 1..3, value : Values, sure : BOOLEAN]
  BY <1>2 DEF KnownEvents
<1>. QED
  BY <1>1, <1>2, <1>3 DEF Distinct, TotalLength, Span

LEMMA ApplyValue ==
    ASSUME NEW t \in Timelines, NEW i \in Ids, NEW v \in Values
    PROVE  LET u == Apply(t, ValueOp(i, v)) IN
           /\ u \in Timelines /\ u.bars = t.bars
           /\ \A k \in 1..2 : /\ u.events[k].id = t.events[k].id /\ u.events[k].len = t.events[k].len
                              /\ u.events[k].value = IF t.events[k].id = i THEN v ELSE t.events[k].value
                              /\ u.events[k].sure <=> (t.events[k].id = i \/ t.events[k].sure)
<1>. DEFINE e == [k \in DOMAIN t.events |->
                IF t.events[k].id = i THEN [t.events[k] EXCEPT !.value = v, !.sure = TRUE] ELSE t.events[k]]
            edit == ValueOp(i, v)
<1>1. edit.kind = "value" /\ edit.id = i /\ edit.value = v
  BY DEF ValueOp
<1>. HIDE DEF edit
<1>2. Apply(t, edit) = [t EXCEPT !.events = e]
  BY <1>1, NotBroken DEF Apply
<1>3. DOMAIN t.events = 1..2
        /\ \A k \in 1..2 : t.events[k] \in [id : Ids, len : 1..3, value : Values, sure : BOOLEAN]
  <2>1. t.events \in KnownEvents
    BY DEF Timelines, Whole
  <2>. QED
    BY <2>1 DEF KnownEvents
<1>4. DOMAIN e = 1..2 /\ e = [k \in 1..2 |-> e[k]]
  BY <1>3
<1>5. ASSUME NEW k \in 1..2
      PROVE  /\ e[k] \in [id : Ids, len : 1..3, value : Values, sure : BOOLEAN]
             /\ e[k].id = t.events[k].id /\ e[k].len = t.events[k].len
             /\ e[k].value = IF t.events[k].id = i THEN v ELSE t.events[k].value
             /\ e[k].sure <=> (t.events[k].id = i \/ t.events[k].sure)
  <2>. DEFINE r == t.events[k]
  <2>1. e[k] = IF r.id = i THEN [r EXCEPT !.value = v, !.sure = TRUE] ELSE r
    BY <1>3
  <2>2. r \in [id : Ids, len : 1..3, value : Values, sure : BOOLEAN]
    BY <1>3
  <2>. HIDE DEF r, e
  <2>3. /\ e[k] \in [id : Ids, len : 1..3, value : Values, sure : BOOLEAN]
        /\ e[k].id = r.id /\ e[k].len = r.len
        /\ e[k].value = IF r.id = i THEN v ELSE r.value
        /\ e[k].sure <=> (r.id = i \/ r.sure)
    <3>1. CASE r.id = i
      <4>1. e[k] = [r EXCEPT !.value = v, !.sure = TRUE]
        BY <2>1, <3>1
      <4>2. e[k].id = r.id /\ e[k].len = r.len /\ e[k].value = v /\ e[k].sure = TRUE
        BY <2>2, <4>1
      <4>3. e[k] \in [id : Ids, len : 1..3, value : Values, sure : BOOLEAN]
        BY <2>2, <4>1
      <4>. QED
        BY <3>1, <4>2, <4>3
    <3>2. CASE r.id # i
      BY <2>1, <2>2, <3>2
    <3>. QED
      BY <3>1, <3>2
  <2>. QED
    BY <2>3 DEF r
<1>. HIDE DEF e
<1>6. e \in KnownEvents
  BY <1>4, <1>5 DEF KnownEvents
<1>7. e \in Whole
  BY <1>5, <1>6, TimelineIs DEF Whole, Distinct, TotalLength, Span
<1>8. [t EXCEPT !.events = e] = [events |-> e, bars |-> t.bars]
  BY DEF Timelines
<1>9. Apply(t, edit) \in Timelines /\ Apply(t, edit).bars = t.bars /\ Apply(t, edit).events = e
  BY <1>2, <1>7, <1>8, TimelineIs DEF Timelines
<1>. QED
  BY <1>5, <1>9 DEF edit

LEMMA ApplyMerge ==
    ASSUME NEW t \in Timelines
    PROVE  \/ Apply(t, MergeOp) = Broken
           \/ Apply(t, MergeOp) \in Timelines /\ Apply(t, MergeOp).events = t.events
<1>1. Apply(t, MergeOp) = IF Len(t.bars) = 2 THEN [t EXCEPT !.bars = <<1>>] ELSE Broken
  <2>1. MergeOp.kind = "merge"
    BY DEF MergeOp
  <2>. QED
    BY <2>1, NotBroken DEF Apply
<1>. QED
  BY <1>1 DEF Timelines

\* The events a sequence leaves: what it says, asserted when it moved or
\* changed them or when they had been asserted.
LEMMA ApplySequence ==
    ASSUME NEW t \in Timelines, NEW ids \in [1..2 -> Ids], NEW says \in SaidEvents
    PROVE  LET u == Apply(t, SequenceOp(ids, says)) IN
           \/ u = Broken /\ ~(ids = IdsOf(t.events) /\ Distinct(says) /\ TotalLength(says) = Span)
           \/ /\ u \in Timelines /\ u.bars = t.bars
              /\ \A k \in 1..2 : /\ u.events[k].id = says[k].id /\ u.events[k].len = says[k].len
                                 /\ u.events[k].value = says[k].value
                                 /\ u.events[k].sure <=> (~Unmoved(t.events, says, k)
                                      \/ SureBefore(t.events, says[k].id))
<1>. DEFINE e == [i \in DOMAIN says |->
                     [id |-> says[i].id, len |-> says[i].len, value |-> says[i].value,
                      sure |-> ~Unmoved(t.events, says, i) \/ SureBefore(t.events, says[i].id)]]
            edit == SequenceOp(ids, says)
<1>1. edit.kind = "sequence" /\ edit.ids = ids /\ edit.events = says
  BY DEF SequenceOp
<1>. HIDE DEF edit
<1>2. Apply(t, edit) = IF ids # IdsOf(t.events) \/ ToSet(IdsOf(says)) # Ids
        \/ TotalLength(says) # Span THEN Broken
                     ELSE [t EXCEPT !.events = e]
  BY <1>1, NotBroken DEF Apply
<1>3. DOMAIN says = 1..2 /\ \A k \in 1..2 : says[k] \in [id : Ids, len : 1..3, value : Values]
  BY DEF SaidEvents
<1>4. ToSet(IdsOf(says)) = Ids <=> Distinct(says)
  <2>1. ToSet(IdsOf(says)) = {says[1].id, says[2].id}
    BY <1>3 DEF ToSet, IdsOf
  <2>. QED
    BY <1>3, <2>1 DEF Ids, Distinct
<1>5. CASE ids = IdsOf(t.events) /\ Distinct(says) /\ TotalLength(says) = Span
  <2>1. Apply(t, edit) = [t EXCEPT !.events = e]
    BY <1>2, <1>4, <1>5
  <2>2. DOMAIN e = 1..2 /\ e = [k \in 1..2 |-> e[k]]
    BY <1>3
  <2>3. ASSUME NEW k \in 1..2
        PROVE  /\ e[k] \in [id : Ids, len : 1..3, value : Values, sure : BOOLEAN]
               /\ e[k].id = says[k].id /\ e[k].len = says[k].len /\ e[k].value = says[k].value
               /\ e[k].sure <=> (~Unmoved(t.events, says, k) \/ SureBefore(t.events, says[k].id))
    <3>. DEFINE b == ~Unmoved(t.events, says, k) \/ SureBefore(t.events, says[k].id)
    <3>1. e[k] = [id |-> says[k].id, len |-> says[k].len, value |-> says[k].value, sure |-> b]
      BY <1>3
    <3>2. b \in BOOLEAN
      OBVIOUS
    <3>. HIDE DEF b, e
    <3>3. e[k].id = says[k].id /\ e[k].len = says[k].len /\ e[k].value = says[k].value /\ e[k].sure = b
      BY <3>1
    <3>4. e[k] \in [id : Ids, len : 1..3, value : Values, sure : BOOLEAN]
      BY <1>3, <3>1, <3>2
    <3>. QED
      BY <3>2, <3>3, <3>4 DEF b
  <2>. HIDE DEF e
  <2>4. e \in KnownEvents
    BY <2>2, <2>3 DEF KnownEvents
  <2>5. e \in Whole
    BY <1>5, <2>3, <2>4 DEF Whole, Distinct, TotalLength
  <2>6. [t EXCEPT !.events = e] = [events |-> e, bars |-> t.bars]
    BY DEF Timelines
  <2>7. Apply(t, edit) \in Timelines /\ Apply(t, edit).bars = t.bars /\ Apply(t, edit).events = e
    BY <2>1, <2>5, <2>6, TimelineIs DEF Timelines
  <2>. QED
    BY <2>3, <2>7 DEF edit
<1>6. CASE ~(ids = IdsOf(t.events) /\ Distinct(says) /\ TotalLength(says) = Span)
  BY <1>2, <1>4, <1>6 DEF edit
<1>. QED
  BY <1>5, <1>6

LEMMA ApplyType == ASSUME NEW t \in Timelines \cup {Broken}, NEW edit \in ChordOps
                            PROVE Apply(t, edit) \in Timelines \cup {Broken}
<1>1. CASE t = Broken
  BY <1>1 DEF Apply
<1>2. CASE t \in Timelines
  <2>1. CASE \E i \in Ids, v \in Values : edit = ValueOp(i, v)
    BY <1>2, <2>1, ApplyValue
  <2>2. CASE \E ids \in [1..2 -> Ids], events \in SaidEvents : edit = SequenceOp(ids, events)
    BY <1>2, <2>2, ApplySequence
  <2>3. CASE edit = MergeOp
    BY <1>2, <2>3, ApplyMerge
  <2>. QED
    BY <2>1, <2>2, <2>3 DEF ChordOps
<1>. QED
  BY <1>1, <1>2

LEMMA ApplyAllType ==
    ASSUME NEW t \in Timelines \cup {Broken}, NEW ops \in Seq(ChordOps)
    PROVE  ApplyAll(t, ops) \in Timelines \cup {Broken}
<1>0. Len(ops) \in Nat /\ \A k \in 1..Len(ops) : ops[k] \in ChordOps
  OBVIOUS
<1>1. PICK f : ApplyRun(f, t, ops) /\ ApplyAll(t, ops) = f[Len(ops)]
  BY <1>0, ApplyAllIs
<1>. DEFINE S == {k \in 0..Len(ops) : f[k] \in Timelines \cup {Broken}}
<1>2. 0 \in S
  BY <1>0, <1>1 DEF ApplyRun
<1>3. ASSUME NEW k \in 1..Len(ops), \A j \in 0..(k - 1) : j \in S PROVE k \in S
  <2>1. f[k - 1] \in Timelines \cup {Broken}
    <3>1. k - 1 \in S
      BY <1>0, <1>3
    <3>. QED
      BY <3>1
  <2>2. f[k] = Apply(f[k - 1], ops[k])
    BY <1>1 DEF ApplyRun
  <2>. QED
    BY <1>0, <2>1, <2>2, ApplyType
<1>4. \A k \in 0..Len(ops) : k \in S
  <2>. HIDE DEF S
  <2>. QED
    BY <1>0, <1>2, <1>3, UpTo
<1>5. Len(ops) \in S
  <2>. HIDE DEF S
  <2>. QED
    BY <1>0, <1>4
<1>. QED
  BY <1>1, <1>5

LEMMA ApplyOne == ASSUME NEW t, NEW edit PROVE ApplyAll(t, <<edit>>) = Apply(t, edit)
<1>. DEFINE none == <<>>  one == <<edit>>
<1>1. Len(none) = 0 /\ Len(one) = 1 /\ one[1] = edit
  OBVIOUS
<1>. HIDE DEF none, one
<1>2. ApplyAll(t, none) = t
  BY <1>1, ApplyNone
<1>3. ApplyAll(t, one) = Apply(ApplyAll(t, none), one[Len(one)])
  <2>1. Len(none) \in Nat /\ Len(one) = Len(none) + 1 /\ \A k \in 1..Len(none) : one[k] = none[k]
    BY <1>1
  <2>. QED
    BY <2>1, ApplyLast
<1>. QED
  BY <1>1, <1>2, <1>3 DEF one

DraftIs(d) == d.events \in SaidEvents /\ Distinct(d.events) /\ d.reviewed \subseteq Ids /\ d.base \in Whole

LEMMA ApplyAt ==
    ASSUME NEW t \in Timelines, NEW d, DraftIs(d), NEW part, NEW k \in 1..2
    PROVE  LET u == ApplyAll(t, ValueOpAt(d, part, k))  hit == d.events[k].id \in part IN
           /\ u \in Timelines /\ u.bars = t.bars
           /\ \A j \in 1..2 : /\ u.events[j].id = t.events[j].id /\ u.events[j].len = t.events[j].len
                              /\ u.events[j].value = IF hit /\ t.events[j].id = d.events[k].id
                                                     THEN d.events[k].value ELSE t.events[j].value
                              /\ u.events[j].sure <=> ((hit /\ t.events[j].id = d.events[k].id)
                                   \/ t.events[j].sure)
<1>1. d.events[k].id \in Ids /\ d.events[k].value \in Values
  BY DEF DraftIs, SaidEvents
<1>2. CASE d.events[k].id \in part
  <2>1. ApplyAll(t, ValueOpAt(d, part, k)) = Apply(t, ValueOp(d.events[k].id, d.events[k].value))
    BY <1>2, ApplyOne DEF ValueOpAt
  <2>. DEFINE i == d.events[k].id  v == d.events[k].value  u == Apply(t, ValueOp(i, v))
  <2>2. i \in Ids /\ v \in Values
    BY <1>1
  <2>. HIDE DEF i, v
  <2>3. /\ u \in Timelines /\ u.bars = t.bars
        /\ \A j \in 1..2 : /\ u.events[j].id = t.events[j].id /\ u.events[j].len = t.events[j].len
                           /\ u.events[j].value = IF t.events[j].id = i THEN v ELSE t.events[j].value
                           /\ u.events[j].sure <=> (t.events[j].id = i \/ t.events[j].sure)
    BY <2>2, ApplyValue
  <2>. HIDE DEF u
  <2>4. ApplyAll(t, ValueOpAt(d, part, k)) = u /\ i \in part /\ i = d.events[k].id /\ v = d.events[k].value
    BY <1>2, <2>1 DEF i, v, u
  <2>. QED
    BY <2>3, <2>4
<1>3. CASE d.events[k].id \notin part
  <2>1. ApplyAll(t, ValueOpAt(d, part, k)) = t
    <3>. DEFINE none == <<>>
    <3>1. Len(none) = 0
      OBVIOUS
    <3>. HIDE DEF none
    <3>2. ApplyAll(t, none) = t
      BY <3>1, ApplyNone
    <3>. QED
      BY <1>3, <3>2 DEF ValueOpAt, none
  <2>. QED
    BY <1>3, <2>1, TimelineIs
<1>. QED
  BY <1>2, <1>3

LEMMA ValueOpsAre ==
    ASSUME NEW d, DraftIs(d), NEW part
    PROVE  /\ ValueOps(d, part) \in Seq(ChordOps)
           /\ \A k \in 1..2 : ValueOpAt(d, part, k) \in Seq(ChordOps)
<1>1. ASSUME NEW k \in 1..2 PROVE ValueOpAt(d, part, k) \in Seq(ChordOps)
  <2>. DEFINE edit == ValueOp(d.events[k].id, d.events[k].value)
  <2>1. d.events[k].id \in Ids /\ d.events[k].value \in Values
    BY DEF DraftIs, SaidEvents
  <2>2. edit \in ChordOps
    BY <2>1 DEF ChordOps
  <2>. HIDE DEF edit
  <2>3. <<edit>> \in Seq(ChordOps) /\ <<>> \in Seq(ChordOps)
    BY <2>2
  <2>. QED
    BY <2>3 DEF ValueOpAt, edit
<1>2. ValueOps(d, part) = ValueOpAt(d, part, 1) \o ValueOpAt(d, part, 2)
  BY DEF ValueOps
<1>3. ValueOpAt(d, part, 1) \in Seq(ChordOps) /\ ValueOpAt(d, part, 2) \in Seq(ChordOps)
  BY <1>1
<1>. QED
  BY <1>1, <1>2, <1>3

LEMMA ApplyValues ==
    ASSUME NEW t \in Timelines, NEW d, DraftIs(d), NEW part, \A j \in 1..2 : t.events[j].id = d.events[j].id
    PROVE  LET u == ApplyAll(t, ValueOps(d, part)) IN
           /\ u \in Timelines /\ u.bars = t.bars
           /\ \A j \in 1..2 : /\ u.events[j].id = t.events[j].id /\ u.events[j].len = t.events[j].len
                              /\ u.events[j].value = IF t.events[j].id \in part THEN d.events[j].value ELSE t.events[j].value
                              /\ u.events[j].sure <=> (t.events[j].id \in part \/ t.events[j].sure)
<1>. DEFINE first == ValueOpAt(d, part, 1)  second == ValueOpAt(d, part, 2)
            m == ApplyAll(t, first)  u == ApplyAll(m, second)
<1>1. ApplyAll(t, ValueOps(d, part)) = u
  <2>1. first \in Seq(ChordOps) /\ second \in Seq(ChordOps)
    BY ValueOpsAre
  <2>. HIDE DEF first, second
  <2>2. ApplyAll(t, first \o second) = u
    BY <2>1, ApplyConcat
  <2>. QED
    BY <2>2 DEF ValueOps, first, second
<1>2. /\ m \in Timelines /\ m.bars = t.bars
      /\ \A j \in 1..2 : /\ m.events[j].id = t.events[j].id /\ m.events[j].len = t.events[j].len
                         /\ m.events[j].value = IF d.events[1].id \in part /\ t.events[j].id = d.events[1].id
                                                THEN d.events[1].value ELSE t.events[j].value
                         /\ m.events[j].sure <=> ((d.events[1].id \in part
                              /\ t.events[j].id = d.events[1].id) \/ t.events[j].sure)
  BY ApplyAt
<1>. HIDE DEF m, first
<1>3. /\ u \in Timelines /\ u.bars = m.bars
      /\ \A j \in 1..2 : /\ u.events[j].id = m.events[j].id /\ u.events[j].len = m.events[j].len
                         /\ u.events[j].value = IF d.events[2].id \in part /\ m.events[j].id = d.events[2].id
                                                THEN d.events[2].value ELSE m.events[j].value
                         /\ u.events[j].sure <=> ((d.events[2].id \in part
                              /\ m.events[j].id = d.events[2].id) \/ m.events[j].sure)
  <2>1. m \in Timelines
    BY <1>2
  <2>. QED
    BY <2>1, ApplyAt
<1>. HIDE DEF u
<1>4. d.events[1].id # d.events[2].id
  BY DEF DraftIs, Distinct
<1>5. ASSUME NEW j \in 1..2
      PROVE  /\ u.events[j].id = t.events[j].id /\ u.events[j].len = t.events[j].len
             /\ u.events[j].value = IF t.events[j].id \in part THEN d.events[j].value ELSE t.events[j].value
             /\ u.events[j].sure <=> (t.events[j].id \in part \/ t.events[j].sure)
  <2>1. CASE j = 1
    BY <1>2, <1>3, <1>4, <2>1
  <2>2. CASE j = 2
    BY <1>2, <1>3, <1>4, <2>2
  <2>. QED
    BY <2>1, <2>2
<1>. QED
  BY <1>1, <1>2, <1>3, <1>5

\* What a timeline says and asserts is what the draft did.
AsShown(t, says, sure) ==
    t \in Timelines /\ Said(t.events) = says /\ {i \in Ids : SureBefore(t.events, i)} = sure

LEMMA AsShownIs ==
    ASSUME NEW t \in Timelines, NEW d, DraftIs(d),
           \A k \in 1..2 : /\ t.events[k].id = d.events[k].id /\ t.events[k].len = d.events[k].len
                           /\ t.events[k].value = d.events[k].value
                           /\ t.events[k].sure <=> (d.events[k].id \in d.reviewed
                                \/ SureBefore(d.base, d.events[k].id)
                                                    \/ ~Unmoved(d.base, d.events, k))
    PROVE  AsShown(t, d.events, DraftSure(d))
<1>1. /\ DOMAIN d.events = 1..2 /\ DOMAIN t.events = 1..2 /\ d.events = [k \in 1..2 |-> d.events[k]]
      /\ \A k \in 1..2 : d.events[k] \in [id : Ids, len : 1..3, value : Values]
  BY TimelineIs DEF DraftIs, SaidEvents
<1>2. Said(t.events) = d.events
  <2>1. ASSUME NEW k \in 1..2
        PROVE  [id |-> t.events[k].id, len |-> t.events[k].len, value |-> t.events[k].value] = d.events[k]
    BY <1>1
  <2>2. Said(t.events) = [k \in 1..2 |-> [id |-> t.events[k].id, len |-> t.events[k].len,
          value |-> t.events[k].value]]
    BY <1>1 DEF Said
  <2>. QED
    BY <1>1, <2>1, <2>2
<1>3. ASSUME NEW i \in Ids PROVE SureBefore(t.events, i) <=> i \in DraftSure(d)
  <2>. DEFINE Sure(k) == d.events[k].id \in d.reviewed \/ SureBefore(d.base, d.events[k].id)
         \/ ~Unmoved(d.base, d.events, k)
  <2>1. SureBefore(t.events, i) <=> \E k \in 1..2 : t.events[k].id = i /\ t.events[k].sure
    BY <1>1 DEF SureBefore
  <2>2. i \in DraftSure(d) <=> \E k \in 1..2 : d.events[k].id = i /\ Sure(k)
    BY <1>1 DEF DraftSure
  <2>3. \A k \in 1..2 : t.events[k].id = d.events[k].id /\ (t.events[k].sure <=> Sure(k))
    OBVIOUS
  <2>. HIDE DEF Sure
  <2>. QED
    BY <2>1, <2>2, <2>3
<1>4. DraftSure(d) \subseteq Ids
  BY <1>1 DEF DraftSure
<1>. QED
  BY <1>2, <1>3, <1>4 DEF AsShown

LEMMA OperationsAreAsShown ==
    ASSUME NEW t \in Timelines, NEW d, DraftIs(d), d.base = t.events, Fits(d)
    PROVE  /\ OperationsFor(d) \in Seq(ChordOps)
           /\ AsShown(ApplyAll(t, OperationsFor(d)), d.events, DraftSure(d))
<1>0. /\ DOMAIN d.events = 1..2 /\ DOMAIN d.base = 1..2 /\ d.events \in SaidEvents
      /\ \A k \in 1..2 : d.events[k].id \in Ids /\ d.events[k].len \in 1..3 /\ d.events[k].value \in Values
      /\ d.events[1].id # d.events[2].id
      /\ \A k \in 1..2 : d.base[k].id \in Ids /\ d.base[k].len \in 1..3 /\ d.base[k].sure \in BOOLEAN
      /\ d.base[1].id # d.base[2].id
  BY TimelineIs DEF DraftIs, SaidEvents, Distinct
<1>1. CASE Restructured(d)
  <2>. DEFINE edit == SequenceOp(IdsOf(d.base), d.events)  u == Apply(t, edit)  one == <<edit>>
  <2>1. IdsOf(d.base) \in [1..2 -> Ids]
    BY <1>0 DEF IdsOf
  <2>2. edit \in ChordOps
    BY <1>0, <2>1 DEF ChordOps
  <2>3. /\ u \in Timelines
        /\ \A k \in 1..2 : /\ u.events[k].id = d.events[k].id /\ u.events[k].len = d.events[k].len
                           /\ u.events[k].value = d.events[k].value
                           /\ u.events[k].sure <=> (~Unmoved(d.base, d.events, k)
                                \/ SureBefore(d.base, d.events[k].id))
    <3>1. IdsOf(d.base) = IdsOf(t.events) /\ Distinct(d.events) /\ TotalLength(d.events) = Span
      BY DEF DraftIs, Fits
    <3>. DEFINE ids == IdsOf(d.base)
    <3>2. ids \in [1..2 -> Ids] /\ ids = IdsOf(t.events)
      BY <2>1, <3>1
    <3>3. u = Apply(t, SequenceOp(ids, d.events))
      OBVIOUS
    <3>. HIDE DEF ids, u
    <3>. QED
      BY <1>0, <3>1, <3>2, <3>3, ApplySequence
  <2>4. ApplyAll(t, one) = u
    BY ApplyOne
  <2>5. one \in Seq(ChordOps) /\ ValueOps(d, d.reviewed) \in Seq(ChordOps)
    <3>. HIDE DEF edit
    <3>. QED
      BY <2>2, ValueOpsAre
  <2>6. OperationsFor(d) = one \o ValueOps(d, d.reviewed)
    BY <1>1 DEF OperationsFor
  <2>. HIDE DEF edit, u, one
  <2>. DEFINE w == ApplyAll(u, ValueOps(d, d.reviewed))
  <2>7. ApplyAll(t, OperationsFor(d)) = w /\ OperationsFor(d) \in Seq(ChordOps)
    BY <2>4, <2>5, <2>6, ApplyConcat
  <2>8. /\ w \in Timelines
        /\ \A j \in 1..2 : /\ w.events[j].id = u.events[j].id /\ w.events[j].len = u.events[j].len
                           /\ w.events[j].value = IF u.events[j].id \in d.reviewed THEN d.events[j].value ELSE u.events[j].value
                           /\ w.events[j].sure <=> (u.events[j].id \in d.reviewed \/ u.events[j].sure)
    BY <2>3, ApplyValues
  <2>. HIDE DEF w
  <2>9. \A k \in 1..2 : /\ w.events[k].id = d.events[k].id /\ w.events[k].len = d.events[k].len
                        /\ w.events[k].value = d.events[k].value
                        /\ w.events[k].sure <=> (d.events[k].id \in d.reviewed
                             \/ SureBefore(d.base, d.events[k].id)
                                                 \/ ~Unmoved(d.base, d.events, k))
    BY <2>3, <2>8
  <2>10. AsShown(w, d.events, DraftSure(d))
    BY <2>8, <2>9, AsShownIs
  <2>. QED
    BY <2>7, <2>10
<1>2. CASE ~Restructured(d)
  <2>. DEFINE changed == {i \in Ids : \E k \in DOMAIN d.events : d.events[k].id = i
         /\ d.events[k].value # d.base[k].value}
              part == d.reviewed \cup changed
              w == ApplyAll(t, ValueOps(d, part))
  <2>1. OperationsFor(d) = ValueOps(d, part)
    BY <1>2 DEF OperationsFor
  <2>2. \A k \in 1..2 : d.events[k].id = d.base[k].id /\ d.events[k].len = d.base[k].len
    BY <1>0, <1>2 DEF Restructured
  <2>3. \A k \in 1..2 : d.events[k].id \in changed <=> d.events[k].value # d.base[k].value
    BY <1>0
  <2>. HIDE DEF changed
  <2>4. /\ w \in Timelines
        /\ \A j \in 1..2 : /\ w.events[j].id = t.events[j].id /\ w.events[j].len = t.events[j].len
                           /\ w.events[j].value = IF t.events[j].id \in part THEN d.events[j].value ELSE t.events[j].value
                           /\ w.events[j].sure <=> (t.events[j].id \in part \/ t.events[j].sure)
    <3>1. \A j \in 1..2 : t.events[j].id = d.events[j].id
      BY <2>2
    <3>. HIDE DEF part
    <3>. QED
      BY <3>1, ApplyValues
  <2>5. OperationsFor(d) \in Seq(ChordOps) /\ ApplyAll(t, OperationsFor(d)) = w
    BY <2>1, ValueOpsAre
  <2>6. \A k \in 1..2 : SureBefore(d.base, d.events[k].id) <=> d.base[k].sure
    BY <1>0, <2>2 DEF SureBefore
  <2>7. ASSUME NEW k \in 1..2 PROVE Unmoved(d.base, d.events, k) <=> d.events[k].value = d.base[k].value
    <3>1. \A j \in 1..2 : Said(d.base)[j] = [id |-> d.base[j].id, len |-> d.base[j].len,
            value |-> d.base[j].value]
      BY <1>0 DEF Said
    <3>2. Said(d.events)[k] = [id |-> d.events[k].id, len |-> d.events[k].len, value |-> d.events[k].value]
      BY <1>0 DEF Said
    <3>3. Unmoved(d.base, d.events, k) <=> \E j \in 1..2 : Said(d.base)[j] = Said(d.events)[k]
            /\ StartOf(d.base, j) = StartOf(d.events, k)
      BY <1>0 DEF Unmoved
    <3>4. \A j \in 1..2 : Said(d.base)[j] = Said(d.events)[k] <=>
             d.base[j].id = d.events[k].id /\ d.base[j].len = d.events[k].len
               /\ d.base[j].value = d.events[k].value
      BY <3>1, <3>2
    <3>5. StartOf(d.base, k) = StartOf(d.events, k)
      BY <2>2 DEF StartOf
    <3>6. ASSUME d.events[k].value = d.base[k].value PROVE Unmoved(d.base, d.events, k)
      BY <2>2, <3>3, <3>4, <3>5, <3>6
    <3>7. ASSUME Unmoved(d.base, d.events, k) PROVE d.events[k].value = d.base[k].value
      <4>1. PICK j \in 1..2 : Said(d.base)[j] = Said(d.events)[k]
        BY <3>3, <3>7
      <4>2. d.base[j].id = d.base[k].id /\ d.base[j].value = d.events[k].value
        BY <2>2, <3>4, <4>1
      <4>3. j = k
        BY <1>0, <4>2
      <4>. QED
        BY <4>2, <4>3
    <3>. QED
      BY <3>6, <3>7
  <2>8. ASSUME NEW k \in 1..2
        PROVE  /\ w.events[k].id = d.events[k].id /\ w.events[k].len = d.events[k].len
               /\ w.events[k].value = d.events[k].value
               /\ w.events[k].sure <=> (d.events[k].id \in d.reviewed \/ SureBefore(d.base, d.events[k].id)
                                        \/ ~Unmoved(d.base, d.events, k))
    <3>. HIDE DEF w
    <3>1. d.events[k].id \in part <=> d.events[k].id \in d.reviewed \/ d.events[k].value # d.base[k].value
      BY <2>3
    <3>. HIDE DEF part
    <3>2. /\ w.events[k].id = d.base[k].id /\ w.events[k].len = d.base[k].len
          /\ w.events[k].value = IF d.base[k].id \in part THEN d.events[k].value ELSE d.base[k].value
          /\ w.events[k].sure <=> (d.base[k].id \in part \/ d.base[k].sure)
      BY <2>4
    <3>3. w.events[k].value = d.events[k].value
      BY <2>2, <3>1, <3>2
    <3>4. w.events[k].sure <=> (d.events[k].id \in d.reviewed \/ SureBefore(d.base, d.events[k].id)
            \/ ~Unmoved(d.base, d.events, k))
      BY <2>2, <2>6, <2>7, <3>1, <3>2
    <3>. QED
      BY <2>2, <3>2, <3>3, <3>4
  <2>. HIDE DEF w
  <2>9. AsShown(w, d.events, DraftSure(d))
    BY <2>4, <2>8, AsShownIs
  <2>. QED
    BY <2>5, <2>9
<1>. QED
  BY <1>1, <1>2

EditTransactions == [parent : Nat, ops : Seq(ChordOps), says : SaidEvents, sure : SUBSET Ids]
EditLayers == [analysis : {1, 2}, edits : Seq(EditTransactions)]
LayerOk(layer) ==
    \A k \in 1..Len(layer.edits) :
        /\ layer.edits[k].parent \in 0..(k - 1)
        /\ AsShown(Effective(layer, k), layer.edits[k].says, layer.edits[k].sure)

LEMMA AnalysedIs == Analysed \in Timelines
<1>. DEFINE e == [i \in Ids |-> [id |-> i, len |-> 2, value |-> Start, sure |-> i \notin Doubtful]]
<1>1. Ids = 1..2
  BY DEF Ids
<1>2. ASSUME NEW i \in 1..2
      PROVE  e[i] \in [id : Ids, len : 1..3, value : Values, sure : BOOLEAN] /\ e[i].id = i /\ e[i].len = 2
  <2>. DEFINE b == i \notin Doubtful
  <2>1. e[i] = [id |-> i, len |-> 2, value |-> Start, sure |-> b] /\ b \in BOOLEAN
    BY <1>1
  <2>. HIDE DEF b, e
  <2>. QED
    BY <1>1, <2>1 DEF Values
<1>3. DOMAIN e = 1..2 /\ e = [i \in 1..2 |-> e[i]]
  BY <1>1
<1>4. Analysed = [events |-> e, bars |-> <<1, 2>>]
  BY DEF Analysed, Bars
<1>. HIDE DEF e
<1>5. e \in KnownEvents
  BY <1>2, <1>3 DEF KnownEvents
<1>6. e \in Whole
  BY <1>2, <1>5 DEF Whole, Distinct, TotalLength, Span
<1>. QED
  BY <1>4, <1>6 DEF Timelines

LEMMA ChainType ==
    ASSUME NEW layer \in EditLayers, \A k \in 1..Len(layer.edits) : layer.edits[k].parent \in 0..(k - 1)
    PROVE  /\ Chain(layer, 0) = <<>> /\ \A k \in 0..Len(layer.edits) : Chain(layer, k) \in Seq(ChordOps)
           /\ \A k \in 1..Len(layer.edits) : Chain(layer, k) = Chain(layer,
                layer.edits[k].parent) \o layer.edits[k].ops
<1>0. Len(layer.edits) \in Nat /\ \A k \in 1..Len(layer.edits) : layer.edits[k] \in EditTransactions
  BY DEF EditLayers
<1>1. PICK f : ChainRun(f, layer) /\ \A p : Chain(layer, p) = f[p]
  BY <1>0, ChainIs
<1>. DEFINE S == {k \in 0..Len(layer.edits) : f[k] \in Seq(ChordOps)}
<1>2. 0 \in S
  <2>. DEFINE none == <<>>
  <2>1. f[0] = none
    BY <1>1 DEF ChainRun
  <2>2. none \in Seq(ChordOps)
    OBVIOUS
  <2>. HIDE DEF none
  <2>3. f[0] \in Seq(ChordOps) /\ 0 \in 0..Len(layer.edits)
    BY <1>0, <2>1, <2>2
  <2>. QED
    BY <2>3
<1>3. ASSUME NEW k \in 1..Len(layer.edits), \A j \in 0..(k - 1) : j \in S PROVE k \in S
  <2>1. layer.edits[k].parent \in S
    <3>. HIDE DEF S
    <3>. QED
      BY <1>3
  <2>2. f[layer.edits[k].parent] \in Seq(ChordOps) /\ layer.edits[k].ops \in Seq(ChordOps)
    BY <1>0, <2>1 DEF EditTransactions
  <2>3. f[k] = f[layer.edits[k].parent] \o layer.edits[k].ops
    BY <1>1 DEF ChainRun
  <2>4. f[k] \in Seq(ChordOps)
    BY <2>2, <2>3
  <2>. QED
    BY <1>0, <2>4
<1>4. \A k \in 0..Len(layer.edits) : k \in S
  <2>. HIDE DEF S
  <2>. QED
    BY <1>0, <1>2, <1>3, UpTo
<1>5. \A k \in 0..Len(layer.edits) : f[k] \in Seq(ChordOps)
  BY <1>4
<1>. QED
  BY <1>1, <1>5 DEF ChainRun

LEMMA EffectiveIs ==
    ASSUME NEW layer \in EditLayers, \A k \in 1..Len(layer.edits) : layer.edits[k].parent \in 0..(k - 1)
    PROVE  /\ Effective(layer, 0) = Analysed
           /\ \A k \in 1..Len(layer.edits) :
                Effective(layer, k) = ApplyAll(Effective(layer, layer.edits[k].parent), layer.edits[k].ops)
<1>1. Effective(layer, 0) = Analysed
  <2>. DEFINE none == Chain(layer, 0)
  <2>0. none = <<>>
    BY ChainType
  <2>1. Len(none) = 0
    <3>1. Len(<<>>) = 0
      OBVIOUS
    <3>. HIDE DEF none
    <3>. QED
      BY <2>0, <3>1
  <2>. HIDE DEF none
  <2>2. ApplyAll(Analysed, none) = Analysed
    BY <2>1, ApplyNone
  <2>. QED
    BY <2>2 DEF Effective, none
<1>2. ASSUME NEW k \in 1..Len(layer.edits)
      PROVE  Effective(layer, k) = ApplyAll(Effective(layer, layer.edits[k].parent), layer.edits[k].ops)
  <2>. DEFINE s == Chain(layer, layer.edits[k].parent)  u == layer.edits[k].ops
  <2>0. Len(layer.edits) \in Nat /\ layer.edits[k] \in EditTransactions
          /\ layer.edits[k].parent \in 0..Len(layer.edits)
    BY DEF EditLayers
  <2>1. s \in Seq(ChordOps) /\ u \in Seq(ChordOps) /\ Chain(layer, k) = s \o u
    BY <2>0, ChainType DEF EditTransactions
  <2>. HIDE DEF s, u
  <2>2. ApplyAll(Analysed, s \o u) = ApplyAll(ApplyAll(Analysed, s), u)
    BY <2>1, ApplyConcat
  <2>. QED
    BY <2>1, <2>2 DEF Effective, s, u
<1>. QED
  BY <1>1, <1>2

LEMMA EffectiveType ==
    ASSUME NEW layer \in EditLayers, LayerOk(layer), NEW k \in 0..Len(layer.edits)
    PROVE  Effective(layer, k) \in Timelines
<1>0. Len(layer.edits) \in Nat
  BY DEF EditLayers
<1>1. CASE k = 0
  BY <1>1, EffectiveIs, AnalysedIs DEF LayerOk
<1>2. CASE k # 0
  BY <1>0, <1>2 DEF LayerOk, AsShown
<1>. QED
  BY <1>1, <1>2

\* A transaction that is added changes none of those there.
LEMMA LayerExtends ==
    ASSUME NEW layer \in EditLayers, LayerOk(layer), NEW e \in EditTransactions,
             e.parent \in 0..Len(layer.edits),
           AsShown(ApplyAll(Effective(layer, e.parent), e.ops), e.says, e.sure),
           NEW next \in EditLayers, next.edits = Append(layer.edits, e)
    PROVE  /\ LayerOk(next) /\ Len(next.edits) = Len(layer.edits) + 1
           /\ \A k \in 0..Len(layer.edits) : Effective(next, k) = Effective(layer, k)
           /\ Effective(next, Len(next.edits)) = ApplyAll(Effective(layer, e.parent), e.ops)
<1>. DEFINE n == Len(layer.edits)
<1>0. /\ n \in Nat /\ Len(next.edits) = n + 1 /\ next.edits[n + 1] = e
      /\ \A k \in 1..n : next.edits[k] = layer.edits[k]
  BY DEF EditLayers
<1>1. \A k \in 1..Len(next.edits) : next.edits[k].parent \in 0..(k - 1)
  <2>1. \A k \in 1..n : layer.edits[k].parent \in 0..(k - 1)
    BY DEF LayerOk
  <2>. QED
    BY <1>0, <2>1
<1>2. \A k \in 0..n : Effective(next, k) = Effective(layer, k)
  <2>. DEFINE S == {k \in 0..n : Effective(next, k) = Effective(layer, k)}
  <2>1. 0 \in S
    <3>1. Effective(next, 0) = Analysed
      BY <1>1, EffectiveIs
    <3>2. Effective(layer, 0) = Analysed
      BY EffectiveIs DEF LayerOk
    <3>. QED
      BY <1>0, <3>1, <3>2
  <2>2. ASSUME NEW k \in 1..n, \A j \in 0..(k - 1) : j \in S PROVE k \in S
    <3>0. layer.edits[k].parent \in 0..(k - 1) /\ next.edits[k] = layer.edits[k] /\ k \in 1..Len(next.edits)
      BY <1>0 DEF LayerOk
    <3>1. layer.edits[k].parent \in S
      <4>. HIDE DEF S
      <4>. QED
        BY <2>2, <3>0
    <3>2. Effective(next, k) = ApplyAll(Effective(next, next.edits[k].parent), next.edits[k].ops)
      BY <1>1, <3>0, EffectiveIs
    <3>3. Effective(layer, k) = ApplyAll(Effective(layer, layer.edits[k].parent), layer.edits[k].ops)
      BY EffectiveIs DEF LayerOk
    <3>4. Effective(next, k) = Effective(layer, k)
      BY <3>0, <3>1, <3>2, <3>3
    <3>. QED
      BY <1>0, <3>4
  <2>3. \A k \in 0..n : k \in S
    <3>. HIDE DEF S
    <3>. QED
      BY <1>0, <2>1, <2>2, UpTo
  <2>. QED
    BY <2>3
<1>3. Effective(next, n + 1) = ApplyAll(Effective(layer, e.parent), e.ops)
  <2>1. Effective(next, n + 1) = ApplyAll(Effective(next, next.edits[n + 1].parent), next.edits[n + 1].ops)
    <3>1. n + 1 \in 1..Len(next.edits)
      BY <1>0
    <3>. QED
      BY <1>1, <3>1, EffectiveIs
  <2>. QED
    BY <1>0, <1>2, <2>1
<1>4. LayerOk(next)
  <2>. SUFFICES ASSUME NEW k \in 1..(n + 1)
                PROVE  AsShown(Effective(next, k), next.edits[k].says, next.edits[k].sure)
    BY <1>0, <1>1 DEF LayerOk
  <2>1. CASE k = n + 1
    BY <1>0, <1>3, <2>1
  <2>2. CASE k # n + 1
    <3>1. k \in 1..n /\ k \in 0..n
      BY <1>0, <2>2
    <3>2. AsShown(Effective(layer, k), layer.edits[k].says, layer.edits[k].sure)
      BY <3>1 DEF LayerOk
    <3>. QED
      BY <1>0, <1>2, <3>1, <3>2
  <2>. QED
    BY <2>1, <2>2
<1>. QED
  BY <1>0, <1>2, <1>3, <1>4

LEMMA EmptyLayerOk == ASSUME NEW a \in {1, 2} PROVE EmptyLayer(a) \in EditLayers /\ LayerOk(EmptyLayer(a))
                               /\ EmptyLayer(a).edits = <<>>
<1>1. EmptyLayer(a).edits = <<>> /\ EmptyLayer(a).analysis = a
  BY DEF EmptyLayer
<1>2. EmptyLayer(a) \in EditLayers
  BY DEF EmptyLayer, EditLayers
<1>. QED
  BY <1>1, <1>2 DEF LayerOk

LoopType == [analysis : {0, 1, 2}, bars : SUBSET {1, 2}, ready : BOOLEAN]
ProjectType == [rev : Nat, layers : Seq(EditLayers), layer : Nat, position : Nat, analyses : {1, 2},
    loop : LoopType]
TreeOk(p) ==
    /\ p.layer \in 1..Len(p.layers) /\ p.position \in 0..Len(p.layers[p.layer].edits)
    /\ \A l \in 1..Len(p.layers) : LayerOk(p.layers[l])
LoopOk(p) ==
    p.loop.ready => /\ p.loop.analysis = p.layers[p.layer].analysis
                    /\ p.loop.bars \subseteq ToSet(Shown(p).bars)
ProjectOk(p) == p \in ProjectType /\ TreeOk(p) /\ LoopOk(p)

LEMMA ShownType == ASSUME NEW p \in ProjectType, TreeOk(p) PROVE Shown(p) \in Timelines
<1>1. p.layers[p.layer] \in EditLayers /\ LayerOk(p.layers[p.layer])
        /\ p.position \in 0..Len(p.layers[p.layer].edits)
  BY DEF ProjectType, TreeOk
<1>. QED
  BY <1>1, EffectiveType DEF Shown

LEMMA ProjectIs ==
    ASSUME NEW p, ProjectOk(p)
    PROVE  /\ p \in ProjectType /\ TreeOk(p) /\ LoopOk(p) /\ p.rev \in Nat
           /\ p.layers \in Seq(EditLayers) /\ Len(p.layers) \in Nat /\ p.layer \in 1..Len(p.layers)
           /\ p.layers[p.layer] \in EditLayers /\ LayerOk(p.layers[p.layer])
           /\ Len(p.layers[p.layer].edits) \in Nat /\ p.position \in 0..Len(p.layers[p.layer].edits)
           /\ \A l \in 1..Len(p.layers) : LayerOk(p.layers[l])
<1>1. p \in ProjectType /\ TreeOk(p) /\ LoopOk(p)
  BY DEF ProjectOk
<1>2. p.layers \in Seq(EditLayers) /\ p.rev \in Nat
  BY <1>1 DEF ProjectType
<1>3. p.layer \in 1..Len(p.layers) /\ p.position \in 0..Len(p.layers[p.layer].edits)
  BY <1>1 DEF TreeOk
<1>4. p.layers[p.layer] \in EditLayers /\ Len(p.layers) \in Nat
  BY <1>2, <1>3
<1>5. p.layers[p.layer].edits \in Seq(EditTransactions)
  BY <1>4 DEF EditLayers
<1>6. Len(p.layers[p.layer].edits) \in Nat
  BY <1>5
<1>7. \A l \in 1..Len(p.layers) : LayerOk(p.layers[l])
  BY <1>1 DEF TreeOk
<1>. QED
  BY <1>1, <1>2, <1>3, <1>4, <1>6, <1>7

\* What is committed keeps its loop only on bars that are still there.
LEMMA CommittedOk ==
    ASSUME ProjectOk(project), NEW q \in ProjectType, TreeOk(q),
           q.loop.ready => q.loop.bars \subseteq ToSet(Shown(project).bars)
    PROVE  /\ ProjectOk(Committed(q)) /\ Committed(q).rev = project.rev + 1
<1>. DEFINE r == project.rev + 1  b == [q EXCEPT !.rev = r]
            moved == b.loop.ready
              /\ (b.layers[b.layer].analysis # b.loop.analysis \/ Shown(project).bars # Shown(b).bars)
            c == [b EXCEPT !.loop.ready = FALSE]
<1>1. r \in Nat
  BY DEF ProjectOk, ProjectType
<1>2. /\ b \in ProjectType /\ b.rev = r /\ b.layers = q.layers /\ b.layer = q.layer /\ b.position = q.position
      /\ b.loop = q.loop
  BY <1>1 DEF ProjectType
<1>3. Shown(b) = Shown(q) /\ TreeOk(b)
  BY <1>2 DEF Shown, TreeOk
<1>4. Committed(q) = IF moved THEN c ELSE b
  BY DEF Committed, Reconciled
<1>. HIDE DEF b, r
<1>5. CASE moved
  <2>. DEFINE still == [b.loop EXCEPT !.ready = FALSE]
  <2>1. still \in LoopType /\ still.ready = FALSE
    BY <1>2 DEF ProjectType, LoopType
  <2>2. c = [b EXCEPT !.loop = still]
    BY <1>2 DEF ProjectType
  <2>. HIDE DEF still
  <2>3. /\ c \in ProjectType /\ c.rev = r /\ c.layers = b.layers /\ c.layer = b.layer /\ c.position = b.position
        /\ c.loop = still
    BY <1>2, <2>1, <2>2 DEF ProjectType
  <2>. HIDE DEF c
  <2>4. TreeOk(c) /\ LoopOk(c)
    BY <1>3, <2>1, <2>3 DEF TreeOk, LoopOk
  <2>. QED
    BY <1>4, <1>5, <2>3, <2>4 DEF ProjectOk, r
<1>6. CASE ~moved
  <2>1. LoopOk(b)
    BY <1>2, <1>3, <1>6 DEF LoopOk
  <2>. QED
    BY <1>2, <1>3, <1>4, <1>6, <2>1 DEF ProjectOk, r
<1>. QED
  BY <1>5, <1>6

\* The Project with another transaction selected.
LEMMA SelectOk ==
    ASSUME ProjectOk(project), NEW k \in 0..Len(Layer.edits)
    PROVE  ProjectOk(Select(k)) /\ Select(k).rev = project.rev + 1
<1>. DEFINE q == [project EXCEPT !.position = k]
<1>1. Layer \in EditLayers /\ k \in Nat
  BY ProjectIs DEF Layer
<1>2. /\ q \in ProjectType /\ q.layers = project.layers /\ q.layer = project.layer /\ q.position = k
           /\ q.loop = project.loop
  BY <1>1 DEF ProjectOk, ProjectType
<1>3. Select(k) = Committed(q)
  BY DEF Select
<1>. HIDE DEF q
<1>4. TreeOk(q)
  BY <1>2 DEF ProjectOk, TreeOk, Layer
<1>5. q.loop.ready => q.loop.bars \subseteq ToSet(Shown(project).bars)
  BY <1>2 DEF ProjectOk, LoopOk
<1>. QED
  BY <1>2, <1>3, <1>4, <1>5, CommittedOk

\* The Project with a layer more, part is selected.
LEMMA AddLayerOk ==
    ASSUME ProjectOk(project), NEW layer \in EditLayers, LayerOk(layer), NEW k \in 0..Len(layer.edits)
    PROVE  ProjectOk(AddLayer(layer, k)) /\ AddLayer(layer, k).rev = project.rev + 1
<1>. DEFINE more == Append(project.layers, layer)  n == Len(project.layers)
            q == [project EXCEPT !.layers = more, !.layer = n + 1, !.position = k]
<1>1. AddLayer(layer, k) = Committed(q)
  BY DEF AddLayer
<1>2. /\ n \in Nat /\ more \in Seq(EditLayers) /\ Len(more) = n + 1 /\ more[n + 1] = layer
      /\ \A l \in 1..n : more[l] = project.layers[l]
      /\ k \in Nat
  <2>1. project.layers \in Seq(EditLayers)
    BY DEF ProjectOk, ProjectType
  <2>2. k \in Nat
    BY DEF EditLayers
  <2>. QED
    BY <2>1, <2>2
<1>. HIDE DEF more, n
<1>3. q \in ProjectType /\ q.layers = more /\ q.layer = n + 1 /\ q.position = k /\ q.loop = project.loop
  <2>. DEFINE m == n + 1
  <2>1. project \in ProjectType /\ more \in Seq(EditLayers) /\ m \in Nat /\ k \in Nat
    BY <1>2, ProjectIs
  <2>2. q = [project EXCEPT !.layers = more, !.layer = m, !.position = k]
    OBVIOUS
  <2>. HIDE DEF m, q
  <2>3. q \in ProjectType /\ q.layers = more /\ q.layer = m /\ q.position = k /\ q.loop = project.loop
    <3>. DEFINE L == Seq(EditLayers)
    <3>1. project \in [rev : Nat, layers : L, layer : Nat, position : Nat, analyses : {1, 2}, loop : LoopType]
      BY <2>1 DEF ProjectType
    <3>2. more \in L
      BY <2>1
    <3>. HIDE DEF L
    <3>3. /\ q \in [rev : Nat, layers : L, layer : Nat, position : Nat, analyses : {1, 2}, loop : LoopType]
          /\ q.layers = more /\ q.layer = m /\ q.position = k /\ q.loop = project.loop
      BY <2>1, <2>2, <3>1, <3>2
    <3>. QED
      BY <3>3 DEF ProjectType, L
  <2>. QED
    BY <2>3 DEF m
<1>. HIDE DEF q
<1>4. TreeOk(q)
  <2>1. ASSUME NEW l \in 1..(n + 1) PROVE LayerOk(more[l])
    BY <1>2 DEF ProjectOk, TreeOk, n
  <2>. QED
    BY <1>2, <1>3, <2>1 DEF TreeOk
<1>5. q.loop.ready => q.loop.bars \subseteq ToSet(Shown(project).bars)
  BY <1>3 DEF ProjectOk, LoopOk
<1>. QED
  BY <1>1, <1>3, <1>4, <1>5, CommittedOk

\* The Project with a transaction more, part extends the selected one.
Extended(e) == [project EXCEPT !.layers[project.layer].edits = Append(@, e), !.position = Len(Layer.edits) + 1]
LEMMA ExtendedOk ==
    ASSUME ProjectOk(project), NEW e \in EditTransactions, e.parent = project.position,
           AsShown(ApplyAll(Shown(project), e.ops), e.says, e.sure)
    PROVE  /\ ProjectOk(Committed(Extended(e))) /\ Committed(Extended(e)).rev = project.rev + 1
<1>. DEFINE more == Append(Layer.edits, e)  next == [Layer EXCEPT !.edits = more]
            all == [project.layers EXCEPT ![project.layer] = next]  q == Extended(e)
<1>1. /\ Layer \in EditLayers /\ LayerOk(Layer) /\ project.layers \in Seq(EditLayers)
           /\ project.layer \in 1..Len(project.layers)
      /\ project.position \in 0..Len(Layer.edits) /\ Layer = project.layers[project.layer]
      /\ \A l \in 1..Len(project.layers) : LayerOk(project.layers[l])
  BY ProjectIs DEF Layer
<1>2. next \in EditLayers /\ next.edits = more /\ Len(more) = Len(Layer.edits) + 1 /\ Len(Layer.edits) \in Nat
  <2>1. Layer.edits \in Seq(EditTransactions)
    BY <1>1 DEF EditLayers
  <2>2. more \in Seq(EditTransactions) /\ Len(more) = Len(Layer.edits) + 1 /\ Len(Layer.edits) \in Nat
    BY <2>1
  <2>. HIDE DEF more
  <2>3. next \in EditLayers /\ next.edits = more
    BY <1>1, <2>2 DEF EditLayers
  <2>. QED
    BY <2>2, <2>3
<1>3. q = [project EXCEPT !.layers = all, !.position = Len(Layer.edits) + 1]
  BY <1>1 DEF Extended, ProjectOk, ProjectType, EditLayers
<1>4. LayerOk(next)
  <2>1. Shown(project) = Effective(Layer, e.parent)
    BY <1>1 DEF Shown
  <2>. HIDE DEF next
  <2>. QED
    BY <1>1, <1>2, <2>1, LayerExtends DEF more
<1>. HIDE DEF next, q
<1>5. /\ all \in Seq(EditLayers) /\ Len(all) = Len(project.layers) /\ all[project.layer] = next
      /\ \A l \in 1..Len(project.layers) : l # project.layer => all[l] = project.layers[l]
  BY <1>1, <1>2
<1>. HIDE DEF all
<1>6. /\ q \in ProjectType /\ q.layers = all /\ q.layer = project.layer /\ q.position = Len(Layer.edits) + 1
      /\ q.loop = project.loop
  <2>. DEFINE k == Len(Layer.edits) + 1
  <2>1. k \in Nat /\ project.layer \in Nat
    BY <1>1, <1>2, SMTT(60)
  <2>2. q = [project EXCEPT !.layers = all, !.position = k]
    BY <1>3
  <2>. HIDE DEF k
  <2>3. q = [project EXCEPT !.layers = all, !.layer = project.layer, !.position = k]
    BY <2>2, ProjectIs DEF ProjectType
  <2>4. q \in ProjectType /\ q.layers = all /\ q.layer = project.layer /\ q.position = k
          /\ q.loop = project.loop
    <3>1. project \in ProjectType /\ all \in Seq(EditLayers) /\ project.layer \in Nat
      BY <1>5, <2>1, ProjectIs
    <3>. DEFINE l == project.layer
    <3>2. l \in Nat /\ q = [project EXCEPT !.layers = all, !.layer = l, !.position = k]
      BY <2>3, <3>1
    <3>. HIDE DEF l
    <3>3. q \in ProjectType /\ q.layers = all /\ q.layer = l /\ q.position = k /\ q.loop = project.loop
      <4>. DEFINE L == Seq(EditLayers)
      <4>1. project \in [rev : Nat, layers : L, layer : Nat, position : Nat, analyses : {1, 2}, loop : LoopType]
        BY <3>1 DEF ProjectType
      <4>2. all \in L
        BY <3>1
      <4>. HIDE DEF L
      <4>3. /\ q \in [rev : Nat, layers : L, layer : Nat, position : Nat, analyses : {1, 2}, loop : LoopType]
            /\ q.layers = all /\ q.layer = l /\ q.position = k /\ q.loop = project.loop
        BY <2>1, <3>2, <4>1, <4>2
      <4>. QED
        BY <4>3 DEF ProjectType, L
    <3>. QED
      BY <3>3 DEF l
  <2>. QED
    BY <2>4 DEF k
<1>7. TreeOk(q)
  <2>1. q.position \in 0..Len(q.layers[q.layer].edits)
    BY <1>2, <1>5, <1>6
  <2>2. ASSUME NEW l \in 1..Len(all) PROVE LayerOk(all[l])
    BY <1>1, <1>4, <1>5
  <2>. QED
    BY <1>1, <1>5, <1>6, <2>1, <2>2 DEF TreeOk
<1>8. q.loop.ready => q.loop.bars \subseteq ToSet(Shown(project).bars)
  BY <1>6 DEF ProjectOk, LoopOk
<1>. QED
  BY <1>6, <1>7, <1>8, CommittedOk DEF q

LEMMA SaidIs == ASSUME NEW t \in Timelines PROVE Said(t.events) \in SaidEvents /\ Distinct(Said(t.events))
<1>. DEFINE s == Said(t.events)
<1>1. s = [i \in 1..2 |-> [id |-> t.events[i].id, len |-> t.events[i].len, value |-> t.events[i].value]]
  BY TimelineIs DEF Said
<1>2. \A k \in 1..2 : s[k] \in [id : Ids, len : 1..3, value : Values] /\ s[k].id = t.events[k].id
  BY <1>1, TimelineIs
<1>3. s = [i \in 1..2 |-> s[i]]
  BY <1>1
<1>. HIDE DEF s
<1>. QED
  BY <1>2, <1>3, TimelineIs DEF SaidEvents, Distinct, s

LEMMA MapsTo ==
    ASSUME NEW m \in Mappings, NEW edit \in ChordOps, edit.kind # "merge"
    PROVE  Mapped(m, edit) \in ChordOps
<1>0. m \in [Ids -> Ids]
  BY DEF Mappings
<1>1. ASSUME NEW i \in Ids, NEW v \in Values, edit = ValueOp(i, v) PROVE Mapped(m, edit) \in ChordOps
  <2>1. edit.kind = "value" /\ edit.id = i /\ edit.value = v
    BY <1>1 DEF ValueOp
  <2>2. Mapped(m, edit) = ValueOp(m[i], v)
    BY <2>1 DEF Mapped
  <2>. QED
    BY <1>0, <2>2 DEF ChordOps
<1>2. ASSUME NEW ids \in [1..2 -> Ids], NEW says \in SaidEvents, edit = SequenceOp(ids, says)
               PROVE Mapped(m, edit) \in ChordOps
  <2>1. edit.kind = "sequence" /\ edit.ids = ids /\ edit.events = says
    BY <1>2 DEF SequenceOp
  <2>. DEFINE e == [k \in DOMAIN says |-> [says[k] EXCEPT !.id = m[@]]]  w == MapIds(m, ids)
  <2>2. Mapped(m, edit) = SequenceOp(w, e)
    BY <2>1 DEF Mapped
  <2>3. w \in [1..2 -> Ids]
    BY <1>0 DEF MapIds
  <2>4. e \in SaidEvents
    <3>1. DOMAIN says = 1..2
      BY DEF SaidEvents
    <3>2. ASSUME NEW k \in 1..2 PROVE e[k] \in [id : Ids, len : 1..3, value : Values]
      <4>1. says[k] \in [id : Ids, len : 1..3, value : Values]
        BY DEF SaidEvents
      <4>2. m[says[k].id] \in Ids
        BY <1>0, <4>1
      <4>. DEFINE j == m[says[k].id]
      <4>3. e[k] = [says[k] EXCEPT !.id = j]
        BY <3>1
      <4>. HIDE DEF j, e
      <4>. QED
        BY <4>1, <4>2, <4>3 DEF j
    <3>. QED
      BY <3>1, <3>2 DEF SaidEvents
  <2>. HIDE DEF e, w
  <2>. QED
    BY <2>2, <2>3, <2>4 DEF ChordOps
<1>3. edit # MergeOp
  BY DEF MergeOp
<1>. QED
  BY <1>1, <1>2, <1>3 DEF ChordOps

\* A mapping to the other Analysis Revision leaves one transaction that stands
\* for what it was reviewed as.
LEMMA MappedIs ==
    ASSUME ProjectOk(project), NEW m \in Mappings, MappedEdit(m) # NoEdit,
             ApplyAll(Analysed, MappedEdit(m).ops) # Broken
    PROVE  LET e == MappedEdit(m) IN
           e \in EditTransactions /\ e.parent = 0 /\ AsShown(ApplyAll(Analysed, e.ops), e.says, e.sure)
<1>. DEFINE ops == Chain(Layer, project.position)  mapped == [k \in DOMAIN ops |-> Mapped(m, ops[k])]
            result == ApplyAll(Analysed, mapped)
            sure == {i \in Ids : SureBefore(result.events, i)}  says == Said(result.events)
            e == [parent |-> 0, ops |-> mapped, says |-> says, sure |-> sure]
<1>1. Mappable(ops) /\ MappedEdit(m) = e
  BY DEF MappedEdit
<1>2. ops \in Seq(ChordOps)
  BY ProjectIs, ChainType DEF LayerOk, Layer
<1>. HIDE DEF ops
<1>3. mapped \in Seq(ChordOps)
  <2>1. \A k \in 1..Len(ops) : Mapped(m, ops[k]) \in ChordOps
    BY <1>1, <1>2, MapsTo DEF Mappable
  <2>2. DOMAIN ops = 1..Len(ops) /\ Len(ops) \in Nat
    BY <1>2
  <2>3. mapped = [k \in 1..Len(ops) |-> Mapped(m, ops[k])]
    BY <2>2
  <2>. QED
    BY <2>1, <2>2, <2>3
<1>. HIDE DEF mapped
<1>4. e.ops = mapped /\ e.parent = 0 /\ e.says = says /\ e.sure = sure
  OBVIOUS
<1>5. result \in Timelines
  BY <1>1, <1>3, <1>4, AnalysedIs, ApplyAllType
<1>. HIDE DEF result
<1>6. says \in SaidEvents /\ sure \in SUBSET Ids
  BY <1>5, SaidIs
<1>7. AsShown(result, says, sure)
  BY <1>5 DEF AsShown
<1>. HIDE DEF says, sure
<1>8. e \in EditTransactions
  BY <1>3, <1>6 DEF EditTransactions
<1>. HIDE DEF e
<1>. QED
  BY <1>1, <1>4, <1>7, <1>8 DEF result

LEMMA MergeIs ==
    ASSUME ProjectOk(project), Len(Shown(project).bars) = 2
    PROVE  LET merge == [parent |-> project.position, ops |-> <<MergeOp>>, says |-> Said(Shown(project).events),
                         sure |-> {i \in Ids : SureBefore(Shown(project).events, i)}]
           IN merge \in EditTransactions /\ AsShown(ApplyAll(Shown(project), merge.ops), merge.says, merge.sure)
<1>. DEFINE t == Shown(project)  says == Said(t.events)  sure == {i \in Ids : SureBefore(t.events, i)}
            ops == <<MergeOp>>  u == ApplyAll(t, ops)
            e == [parent |-> project.position, ops |-> ops, says |-> says, sure |-> sure]
<1>1. t \in Timelines
  BY ProjectIs, ShownType
<1>. HIDE DEF t
<1>2. says \in SaidEvents /\ sure \in SUBSET Ids
  BY <1>1, SaidIs
<1>3. ops \in Seq(ChordOps)
  <2>1. MergeOp \in ChordOps
    BY DEF ChordOps
  <2>. QED
    BY <2>1
<1>4. project.position \in Nat
  BY ProjectIs
<1>5. u \in Timelines /\ u.events = t.events
  <2>1. u = Apply(t, MergeOp)
    BY ApplyOne
  <2>2. MergeOp.kind = "merge" /\ Len(t.bars) = 2
    BY DEF MergeOp, t
  <2>3. Apply(t, MergeOp) = [t EXCEPT !.bars = <<1>>]
    BY <1>1, <2>2, NotBroken DEF Apply
  <2>4. [t EXCEPT !.bars = <<1>>].bars = <<1>>
    BY <1>1 DEF Timelines
  <2>5. Apply(t, MergeOp) # Broken
    BY <2>3, <2>4 DEF Broken
  <2>. QED
    BY <1>1, <2>1, <2>5, ApplyMerge
<1>. HIDE DEF u
<1>6. AsShown(u, says, sure)
  BY <1>5 DEF AsShown
<1>. HIDE DEF says, sure, ops
<1>7. e \in EditTransactions
  BY <1>2, <1>3, <1>4 DEF EditTransactions
<1>8. e.says = says /\ e.sure = sure /\ e.ops = ops
  OBVIOUS
<1>9. e \in EditTransactions /\ AsShown(ApplyAll(t, e.ops), e.says, e.sure)
  BY <1>6, <1>7, <1>8 DEF u
<1>. QED
  BY <1>9 DEF e, t, says, sure, ops

RequestOk(r) ==
    /\ r.kind \in {"save", "undo", "redo", "reset", "map"} /\ r.rev \in Nat /\ r.rev <= project.rev
    /\ r.kind = "map" => r.arg \in Mappings
    /\ r.kind = "save" => /\ r.edit \in EditTransactions
                          /\ r.rev = project.rev
                               => AsShown(ApplyAll(Shown(project), r.edit.ops), r.edit.says, r.edit.sure)

LEMMA OutcomeOk ==
    ASSUME ProjectOk(project), NEW r, RequestOk(r)
    PROVE  Outcome(r) = project \/ (ProjectOk(Outcome(r)) /\ Outcome(r).rev = project.rev + 1)
<1>0. /\ Layer = project.layers[project.layer] /\ Layer \in EditLayers /\ LayerOk(Layer)
      /\ project.position \in 0..Len(Layer.edits) /\ Len(Layer.edits) \in Nat
      /\ Layer.analysis \in {1, 2} /\ DOMAIN Layer.edits = 1..Len(Layer.edits)
  <2>1. /\ Layer = project.layers[project.layer] /\ Layer \in EditLayers /\ LayerOk(Layer)
        /\ project.position \in 0..Len(Layer.edits)
    BY ProjectIs DEF Layer
  <2>2. Layer.analysis \in {1, 2} /\ Layer.edits \in Seq(EditTransactions)
    BY <2>1 DEF EditLayers
  <2>. QED
    BY <2>1, <2>2
<1>1. CASE r.rev # project.rev
  BY <1>1 DEF Outcome
<1>2. CASE r.rev = project.rev /\ r.kind = "save"
  <2>1. Outcome(r) = IF r.edit.parent # project.position
          \/ ApplyAll(Shown(project), r.edit.ops) = Broken THEN project
                     ELSE Committed(Extended(r.edit))
    BY <1>2 DEF Outcome, Extended
  <2>2. r.edit \in EditTransactions /\ AsShown(ApplyAll(Shown(project), r.edit.ops), r.edit.says, r.edit.sure)
    BY <1>2 DEF RequestOk
  <2>. QED
    BY <2>1, <2>2, ExtendedOk
<1>3. CASE r.rev = project.rev /\ r.kind = "undo"
  <2>1. Outcome(r) = IF project.position = 0 THEN project ELSE Select(Layer.edits[project.position].parent)
    BY <1>3 DEF Outcome
  <2>2. project.position # 0 => Layer.edits[project.position].parent \in 0..Len(Layer.edits)
    BY <1>0, SMTT(60) DEF LayerOk
  <2>. QED
    BY <2>1, <2>2, SelectOk
<1>4. CASE r.rev = project.rev /\ r.kind = "redo"
  <2>1. Outcome(r) = IF r.arg \in DOMAIN Layer.edits /\ Layer.edits[r.arg].parent = project.position
                     THEN Select(r.arg) ELSE project
    BY <1>4 DEF Outcome
  <2>2. r.arg \in DOMAIN Layer.edits => r.arg \in 0..Len(Layer.edits)
    BY <1>0
  <2>. QED
    BY <2>1, <2>2, SelectOk
<1>5. CASE r.rev = project.rev /\ r.kind = "reset"
  <2>. DEFINE none == EmptyLayer(Layer.analysis)
  <2>1. Outcome(r) = AddLayer(none, 0)
    BY <1>5 DEF Outcome
  <2>2. none \in EditLayers /\ LayerOk(none) /\ none.edits = <<>>
    BY <1>0, EmptyLayerOk
  <2>. HIDE DEF none
  <2>3. 0 \in 0..Len(none.edits)
    BY <2>2 DEF EditLayers
  <2>. QED
    BY <2>1, <2>2, <2>3, AddLayerOk
<1>6. CASE r.rev = project.rev /\ r.kind = "map"
  <2>. DEFINE e == MappedEdit(r.arg)  only == <<e>>  other == 3 - Layer.analysis
              next == [analysis |-> other, edits |-> only]  none == EmptyLayer(Layer.analysis)
  <2>1. Outcome(r) = IF project.analyses = 1 \/ e = NoEdit \/ ApplyAll(Analysed, e.ops) = Broken THEN project
                     ELSE AddLayer(next, 1)
    BY <1>6 DEF Outcome
  <2>2. CASE project.analyses = 1 \/ e = NoEdit \/ ApplyAll(Analysed, e.ops) = Broken
    BY <2>1, <2>2
  <2>3. CASE ~(project.analyses = 1 \/ e = NoEdit \/ ApplyAll(Analysed, e.ops) = Broken)
    <3>1. e \in EditTransactions /\ e.parent = 0 /\ AsShown(ApplyAll(Analysed, e.ops), e.says, e.sure)
      BY <1>6, <2>3, MappedIs DEF RequestOk
    <3>2. none \in EditLayers /\ LayerOk(none) /\ none.edits = <<>>
      BY <1>0, EmptyLayerOk
    <3>3. other \in {1, 2}
      BY <1>0
    <3>. HIDE DEF e, none, other
    <3>4. only \in Seq(EditTransactions) /\ only = Append(none.edits, e)
      BY <3>1, <3>2
    <3>. HIDE DEF only
    <3>5. next \in EditLayers /\ next.edits = only
      BY <3>3, <3>4 DEF EditLayers
    <3>. HIDE DEF next
    <3>6. Len(none.edits) = 0
      <4>1. Len(<<>>) = 0
        OBVIOUS
      <4>. QED
        BY <3>2, <4>1
    <3>7. Effective(none, 0) = Analysed
      BY <3>2, EffectiveIs DEF LayerOk
    <3>8. LayerOk(next) /\ Len(next.edits) = 1
      <4>1. e.parent \in 0..Len(none.edits) /\ next.edits = Append(none.edits, e)
        BY <3>1, <3>4, <3>5, <3>6
      <4>2. AsShown(ApplyAll(Effective(none, e.parent), e.ops), e.says, e.sure)
        BY <3>1, <3>7
      <4>3. LayerOk(next) /\ Len(next.edits) = Len(none.edits) + 1
        BY <3>1, <3>2, <3>5, <4>1, <4>2, LayerExtends
      <4>. QED
        BY <3>6, <4>3
    <3>9. ProjectOk(AddLayer(next, 1)) /\ AddLayer(next, 1).rev = project.rev + 1
      <4>1. next \in EditLayers /\ LayerOk(next) /\ 1 \in 0..Len(next.edits)
        BY <3>5, <3>8
      <4>. QED
        BY <4>1, AddLayerOk
    <3>. QED
      BY <2>1, <2>3, <3>9
  <2>. QED
    BY <2>2, <2>3
<1>. QED
  BY <1>1, <1>2, <1>3, <1>4, <1>5, <1>6 DEF RequestOk

LEMMA BesideOk ==
    ASSUME ProjectOk(project), Beside
    PROVE  ProjectOk(project') /\ project'.rev = project.rev + 1
<1>1. CASE project' = Committed([project EXCEPT !.analyses = 2])
  <2>. DEFINE q == [project EXCEPT !.analyses = 2]
  <2>1. q \in ProjectType /\ q.layers = project.layers /\ q.layer = project.layer
          /\ q.position = project.position
        /\ q.loop = project.loop
    BY ProjectIs DEF ProjectType
  <2>. HIDE DEF q
  <2>2. TreeOk(q) /\ (q.loop.ready => q.loop.bars \subseteq ToSet(Shown(project).bars))
    BY <2>1, ProjectIs DEF TreeOk, LoopOk
  <2>3. ProjectOk(Committed(q)) /\ Committed(q).rev = project.rev + 1
    BY <2>1, <2>2, CommittedOk
  <2>. QED
    BY <1>1, <2>3 DEF q
<1>2. ASSUME NEW bars \in SUBSET ToSet(Shown(project).bars),
               project' = Committed([project EXCEPT !.loop = LoopOver(bars)])
      PROVE  ProjectOk(project') /\ project'.rev = project.rev + 1
  <2>. DEFINE lp == LoopOver(bars)  q == [project EXCEPT !.loop = lp]
  <2>1. Layer \in EditLayers /\ Shown(project) \in Timelines
    BY ProjectIs, ShownType DEF Layer
  <2>2. bars \in SUBSET {1, 2} /\ Layer.analysis \in {1, 2}
    BY <2>1 DEF EditLayers, Timelines, ToSet
  <2>3. lp \in LoopType /\ lp.bars = bars
    BY <2>2 DEF LoopOver, LoopType
  <2>. HIDE DEF lp
  <2>4. q \in ProjectType /\ q.layers = project.layers /\ q.layer = project.layer
          /\ q.position = project.position
        /\ q.loop = lp
    BY <2>3, ProjectIs, SMTT(60) DEF ProjectType
  <2>. HIDE DEF q
  <2>5. TreeOk(q) /\ (q.loop.ready => q.loop.bars \subseteq ToSet(Shown(project).bars))
    BY <2>3, <2>4, ProjectIs DEF TreeOk
  <2>6. ProjectOk(Committed(q)) /\ Committed(q).rev = project.rev + 1
    BY <2>4, <2>5, CommittedOk
  <2>. QED
    BY <1>2, <2>6 DEF q, lp
<1>3. ASSUME Len(Shown(project).bars) = 2,
             LET merge == [parent |-> project.position,
               ops |-> <<MergeOp>>, says |-> Said(Shown(project).events),
                           sure |-> {i \in Ids : SureBefore(Shown(project).events, i)}]
             IN project' = Committed(Extended(merge))
      PROVE  ProjectOk(project') /\ project'.rev = project.rev + 1
  <2>. DEFINE merge == [parent |-> project.position, ops |-> <<MergeOp>>, says |-> Said(Shown(project).events),
                        sure |-> {i \in Ids : SureBefore(Shown(project).events, i)}]
  <2>1. /\ merge \in EditTransactions /\ merge.parent = project.position
        /\ AsShown(ApplyAll(Shown(project), merge.ops), merge.says, merge.sure)
    BY <1>3, MergeIs
  <2>2. project' = Committed(Extended(merge))
    BY <1>3
  <2>. HIDE DEF merge
  <2>. QED
    BY <2>1, <2>2, ExtendedOk
<1>. QED
  BY <1>1, <1>2, <1>3 DEF Beside, Extended

DraftType ==
    [session : Nat, rev : Nat, base : Whole, parent : Nat, events : SaidEvents, reviewed : SUBSET Ids,
     stale : BOOLEAN, saving : BOOLEAN, edits : Nat]
DraftOk ==
    \/ draft = NoDraft
    \/ /\ draft \in DraftType /\ Distinct(draft.events) /\ draft.rev <= snapshot.rev
       /\ draft.rev = project.rev => draft.base = Shown(project).events /\ draft.parent = project.position
SnapshotOk == ProjectOk(snapshot) /\ snapshot.rev <= project.rev
    /\ (snapshot.rev = project.rev => snapshot = project)
EditInv ==
    /\ ProjectOk(project) /\ SnapshotOk /\ sessions \in Nat
    /\ DraftOk
    /\ \A r \in requests : RequestOk(r)

\* A step of the editor alone: the draft, and perhaps a command for the Library.
LEMMA BesideLibrary ==
    ASSUME EditInv, UNCHANGED <<project, snapshot>>, DraftOk', sessions' \in Nat,
           \A r \in requests' : r \in requests \/ RequestOk(r)
    PROVE  EditInv'
BY DEF EditInv, SnapshotOk, RequestOk

\* A step of the Library alone: what was made for the old revision is refused.
LEMMA BesideEditor ==
    ASSUME EditInv, UNCHANGED <<snapshot, draft, sessions>>, requests' \subseteq requests,
           project' = project \/ (ProjectOk(project') /\ project'.rev = project.rev + 1)
    PROVE  EditInv'
<1>1. CASE project' = project
  BY <1>1 DEF EditInv, SnapshotOk, DraftOk, RequestOk
<1>2. CASE ProjectOk(project') /\ project'.rev = project.rev + 1
  <2>1. project.rev \in Nat /\ snapshot.rev \in Nat /\ snapshot.rev <= project.rev
    BY ProjectIs DEF EditInv, SnapshotOk
  <2>2. SnapshotOk'
    BY <1>2, <2>1 DEF EditInv, SnapshotOk
  <2>3. DraftOk'
    <3>1. CASE draft = NoDraft
      BY <3>1 DEF DraftOk
    <3>2. CASE draft \in DraftType /\ Distinct(draft.events) /\ draft.rev <= snapshot.rev
      <4>1. draft.rev \in Nat
        BY <3>2 DEF DraftType
      <4>2. draft.rev # project'.rev
        BY <1>2, <2>1, <3>2, <4>1
      <4>. QED
        BY <3>2, <4>2 DEF DraftOk
    <3>. QED
      BY <3>1, <3>2 DEF EditInv, DraftOk
  <2>4. ASSUME NEW r \in requests' PROVE RequestOk(r)'
    <3>1. RequestOk(r)
      BY <2>4 DEF EditInv
    <3>2. r.rev # project'.rev /\ r.rev <= project'.rev
      BY <1>2, <2>1, <3>1 DEF RequestOk
    <3>. QED
      BY <3>1, <3>2 DEF RequestOk
  <2>. QED
    BY <1>2, <2>2, <2>3, <2>4 DEF EditInv
<1>. QED
  BY <1>1, <1>2

\* A draft that is edited keeps what it was opened on.
LEMMA DraftSteps ==
    ASSUME EditInv, draft # NoDraft, UNCHANGED <<project, snapshot>>,
           NEW events \in SaidEvents, Distinct(events), NEW reviewed \in SUBSET Ids, Edited(events, reviewed)
    PROVE  DraftOk'
<1>1. /\ draft \in DraftType /\ draft.rev <= snapshot.rev
      /\ draft.rev = project.rev => draft.base = Shown(project).events /\ draft.parent = project.position
  BY DEF EditInv, DraftOk
<1>2. draft' = [draft EXCEPT !.events = events, !.reviewed = reviewed, !.edits = draft.edits + 1]
  BY DEF Edited
<1>3. draft' \in DraftType
  <2>. DEFINE n == draft.edits + 1
  <2>1. n \in Nat /\ draft' = [draft EXCEPT !.events = events, !.reviewed = reviewed, !.edits = n]
    BY <1>1, <1>2 DEF DraftType
  <2>. HIDE DEF n
  <2>. QED
    BY <1>1, <2>1 DEF DraftType
<1>4. draft'.events = events /\ draft'.rev = draft.rev /\ draft'.base = draft.base
        /\ draft'.parent = draft.parent
  BY <1>1, <1>2 DEF DraftType
<1>. QED
  BY <1>1, <1>3, <1>4 DEF DraftOk

LEMMA DraftNow ==
    ASSUME EditInv, draft # NoDraft
    PROVE  /\ draft \in DraftType /\ Distinct(draft.events) /\ draft.events \in SaidEvents
                /\ draft.reviewed \in SUBSET Ids
           /\ draft.base \in Whole /\ DOMAIN draft.events = 1..2
           /\ \A k \in 1..2 : draft.events[k] \in [id : Ids, len : 1..3, value : Values]
<1>1. draft \in DraftType /\ Distinct(draft.events)
  BY DEF EditInv, DraftOk
<1>2. draft.events \in SaidEvents /\ draft.reviewed \in SUBSET Ids /\ draft.base \in Whole
  BY <1>1 DEF DraftType
<1>. QED
  BY <1>1, <1>2 DEF SaidEvents

LEMMA EditsOfDraft ==
    ASSUME EditInv,
           \/ Move \/ ResetDraft
           \/ \E i \in Ids : MarkReviewed(i) \/ (\E v \in Chords : SetChord(i, v))
                \/ (\E n \in 1..3 : SetDuration(i, n))
    PROVE  EditInv'
<1>1. ASSUME draft # NoDraft, EditingBeside, NEW events \in SaidEvents, Distinct(events),
               NEW reviewed \in SUBSET Ids,
             Edited(events, reviewed)
      PROVE  EditInv'
  <2>1. DraftOk'
    BY <1>1, DraftSteps DEF EditingBeside
  <2>. QED
    BY <1>1, <2>1, BesideLibrary DEF EditInv, EditingBeside
<1>2. CASE Move
  <2>. DEFINE e == Reverse(draft.events)
  <2>1. draft # NoDraft /\ EditingBeside /\ Edited(e, draft.reviewed)
    BY <1>2 DEF Move, Editable
  <2>2. e = [k \in 1..2 |-> draft.events[(2 - k) + 1]]
    <3>1. Len(draft.events) = 2
      BY <2>1, DraftNow DEF SaidEvents
    <3>. QED
      BY <3>1 DEF Reverse
  <2>3. e \in SaidEvents /\ Distinct(e)
    <3>1. e[1] = draft.events[2] /\ e[2] = draft.events[1]
      BY <2>2
    <3>. QED
      BY <2>1, <2>2, <3>1, DraftNow DEF SaidEvents, Distinct
  <2>. HIDE DEF e
  <2>. QED
    BY <1>1, <2>1, <2>3, DraftNow
<1>3. CASE ResetDraft
  <2>. DEFINE e == Said(draft.base)  none == {}
  <2>1. draft # NoDraft /\ EditingBeside /\ Edited(e, none)
    BY <1>3 DEF ResetDraft, Editable
  <2>2. e \in SaidEvents /\ Distinct(e)
    <3>. DEFINE t == [events |-> draft.base, bars |-> <<1, 2>>]
    <3>1. t \in Timelines /\ t.events = draft.base
      BY <2>1, DraftNow DEF Timelines
    <3>. HIDE DEF t
    <3>. QED
      BY <3>1, SaidIs
  <2>3. none \in SUBSET Ids
    OBVIOUS
  <2>. HIDE DEF e, none
  <2>. QED
    BY <1>1, <2>1, <2>2, <2>3
<1>4. ASSUME NEW i \in Ids, MarkReviewed(i) PROVE EditInv'
  <2>. DEFINE w == draft.reviewed \cup {i}
  <2>1. draft # NoDraft /\ EditingBeside /\ Edited(draft.events, w)
    BY <1>4 DEF MarkReviewed, Editable
  <2>2. w \in SUBSET Ids
    BY <2>1, DraftNow
  <2>. HIDE DEF w
  <2>. QED
    BY <1>1, <2>1, <2>2, DraftNow
<1>5. ASSUME NEW i \in Ids, NEW v \in Chords, SetChord(i, v) PROVE EditInv'
  <2>. DEFINE e == [k \in DOMAIN draft.events |->
                      IF draft.events[k].id = i THEN [draft.events[k] EXCEPT !.value = v] ELSE draft.events[k]]
              w == IF SureBefore(draft.base, i) THEN draft.reviewed ELSE draft.reviewed \cup {i}
  <2>1. draft # NoDraft /\ EditingBeside /\ Edited(e, w)
    BY <1>5 DEF SetChord, Editable
  <2>2. w \in SUBSET Ids
    BY <2>1, DraftNow
  <2>3. ASSUME NEW k \in 1..2
        PROVE  e[k] \in [id : Ids, len : 1..3, value : Values] /\ e[k].id = draft.events[k].id
    <3>. DEFINE d == draft.events[k]
    <3>1. d \in [id : Ids, len : 1..3, value : Values]
      BY <2>1, DraftNow
    <3>2. e[k] = IF d.id = i THEN [d EXCEPT !.value = v] ELSE d
      BY <2>1, DraftNow
    <3>3. v \in Values
      BY DEF Values
    <3>. HIDE DEF d, e
    <3>4. e[k] \in [id : Ids, len : 1..3, value : Values] /\ e[k].id = d.id
      BY <3>1, <3>2, <3>3
    <3>. QED
      BY <3>4 DEF d
  <2>4. e = [k \in 1..2 |-> e[k]]
    BY <2>1, DraftNow
  <2>. HIDE DEF e, w
  <2>5. e \in SaidEvents /\ Distinct(e)
    BY <2>1, <2>3, <2>4, DraftNow DEF SaidEvents, Distinct
  <2>. QED
    BY <1>1, <2>1, <2>2, <2>5
<1>6. ASSUME NEW i \in Ids, NEW n \in 1..3, SetDuration(i, n) PROVE EditInv'
  <2>. DEFINE d == draft.events[i]  x == [d EXCEPT !.len = n]  e == [draft.events EXCEPT ![i] = x]
  <2>1. draft # NoDraft /\ EditingBeside /\ Edited(e, draft.reviewed)
    BY <1>6 DEF SetDuration, Editable
  <2>2. i \in 1..2 /\ d \in [id : Ids, len : 1..3, value : Values]
    BY <2>1, DraftNow DEF Ids
  <2>. HIDE DEF d
  <2>3. x \in [id : Ids, len : 1..3, value : Values] /\ x.id = d.id
    BY <2>2
  <2>. HIDE DEF x
  <2>4. e \in SaidEvents /\ \A k \in 1..2 : e[k].id = draft.events[k].id
    BY <2>1, <2>2, <2>3, DraftNow DEF SaidEvents, d
  <2>. HIDE DEF e
  <2>5. Distinct(e)
    BY <2>1, <2>4, DraftNow DEF Distinct
  <2>. QED
    BY <1>1, <2>1, <2>4, <2>5, DraftNow
<1>. QED
  BY <1>2, <1>3, <1>4, <1>5, <1>6

\* The command a draft is saved with stands for what the draft shows.
LEMMA SaveStep == ASSUME EditInv, Save PROVE EditInv'
<1>. DEFINE ops == OperationsFor(draft)  says == draft.events  sure == DraftSure(draft)
            e == [parent |-> draft.parent, ops |-> ops, says |-> says, sure |-> sure]
            r == [kind |-> "save", session |-> draft.session, rev |-> draft.rev, arg |-> 0, edit |-> e]
<1>0. /\ draft # NoDraft /\ Fits(draft) /\ draft' = [draft EXCEPT !.saving = TRUE]
           /\ requests' = requests \cup {r}
      /\ UNCHANGED <<project, snapshot, busy, responses, sessions>>
  BY DEF Save
<1>1. /\ draft \in DraftType /\ DraftIs(draft) /\ draft.rev <= snapshot.rev
      /\ draft.rev = project.rev => draft.base = Shown(project).events /\ draft.parent = project.position
  BY <1>0, DraftNow DEF EditInv, DraftOk, DraftIs
<1>2. draft' \in DraftType
  BY <1>0, <1>1 DEF DraftType
<1>3. /\ draft'.events = draft.events /\ draft'.rev = draft.rev /\ draft'.base = draft.base
      /\ draft'.parent = draft.parent
  BY <1>0, <1>1 DEF DraftType
<1>4. DraftOk'
  BY <1>0, <1>1, <1>2, <1>3 DEF DraftOk, DraftIs
<1>5. ops \in Seq(ChordOps)
  <2>. DEFINE t == [events |-> draft.base, bars |-> <<1, 2>>]
  <2>1. t \in Timelines /\ t.events = draft.base
    BY <1>1 DEF Timelines, DraftIs
  <2>. HIDE DEF t
  <2>. QED
    BY <1>0, <1>1, <2>1, OperationsAreAsShown
<1>6. draft.rev = project.rev => AsShown(ApplyAll(Shown(project), ops), says, sure)
  <2>1. Shown(project) \in Timelines
    BY ProjectIs, ShownType DEF EditInv
  <2>. QED
    BY <1>0, <1>1, <2>1, OperationsAreAsShown
<1>7. sure \in SUBSET Ids /\ says \in SaidEvents /\ draft.parent \in Nat /\ draft.rev \in Nat
  BY <1>0, <1>1, DraftNow DEF DraftSure, DraftType
<1>. HIDE DEF ops, says, sure
<1>8. e \in EditTransactions /\ e.ops = ops /\ e.says = says /\ e.sure = sure
  BY <1>5, <1>7 DEF EditTransactions
<1>. HIDE DEF e
<1>9. r.kind = "save" /\ r.rev = draft.rev /\ r.edit = e
  OBVIOUS
<1>. HIDE DEF r
<1>10. RequestOk(r)
  <2>1. draft.rev <= project.rev
    BY <1>1, <1>7, ProjectIs DEF EditInv, SnapshotOk
  <2>. QED
    BY <1>6, <1>7, <1>8, <1>9, <2>1 DEF RequestOk
<1>11. \A q \in requests' : q \in requests \/ RequestOk(q)
  BY <1>0, <1>10
<1>. QED
  BY <1>0, <1>4, <1>11, BesideLibrary DEF EditInv

LEMMA OpenDraftStep == ASSUME EditInv, OpenDraft PROVE EditInv'
<1>. DEFINE t == Shown(snapshot)  said == Said(t.events)  none == {}
<1>0. /\ sessions' = sessions + 1
      /\ draft' = [session |-> sessions', rev |-> snapshot.rev, base |-> t.events, parent |-> snapshot.position,
                   events |-> said, reviewed |-> none, stale |-> FALSE, saving |-> FALSE, edits |-> 0]
      /\ UNCHANGED <<project, snapshot, busy, requests, responses>>
  BY DEF OpenDraft
<1>1. t \in Timelines
  BY ProjectIs, ShownType DEF EditInv, SnapshotOk
<1>2. said \in SaidEvents /\ Distinct(said) /\ t.events \in Whole /\ none \in SUBSET Ids
  BY <1>1, SaidIs, TimelineIs
<1>3. snapshot.rev \in Nat /\ snapshot.position \in Nat /\ sessions' \in Nat
  BY <1>0, ProjectIs DEF EditInv, SnapshotOk
<1>4. snapshot.rev = project.rev => t.events = Shown(project).events /\ snapshot.position = project.position
  BY DEF EditInv, SnapshotOk
<1>. HIDE DEF said, none
<1>. DEFINE b == t.events
<1>5. draft' = [session |-> sessions', rev |-> snapshot.rev, base |-> b, parent |-> snapshot.position,
                events |-> said, reviewed |-> none, stale |-> FALSE, saving |-> FALSE, edits |-> 0]
      /\ b \in Whole
  BY <1>0, <1>2
<1>. HIDE DEF b
<1>6. draft' \in DraftType
  BY <1>2, <1>3, <1>5 DEF DraftType
<1>7. draft'.rev = snapshot.rev /\ draft'.base = b /\ draft'.parent = snapshot.position /\ draft'.events = said
  BY <1>5
<1>8. DraftOk'
  BY <1>0, <1>2, <1>3, <1>4, <1>6, <1>7 DEF DraftOk, b
<1>. QED
  BY <1>0, <1>3, <1>8, BesideLibrary

LEMMA CloseDraftStep == ASSUME EditInv, CloseDraft PROVE EditInv'
<1>1. draft' = NoDraft /\ UNCHANGED <<project, snapshot, busy, requests, responses, sessions>>
  BY DEF CloseDraft
<1>2. DraftOk'
  BY <1>1 DEF DraftOk
<1>. QED
  BY <1>1, <1>2, BesideLibrary DEF EditInv

LEMMA AskHistoryStep ==
    ASSUME EditInv, NEW kind \in {"undo", "redo", "reset", "map"}, NEW arg, AskHistory(kind, arg),
           kind = "map" => arg \in Mappings
    PROVE  EditInv'
<1>. DEFINE r == [kind |-> kind, session |-> 0, rev |-> snapshot.rev, arg |-> arg, edit |-> NoEdit]
<1>0. requests' = requests \cup {r} /\ UNCHANGED <<project, snapshot, draft, responses, sessions>>
  BY DEF AskHistory
<1>1. r.kind = kind /\ r.rev = snapshot.rev /\ r.arg = arg
  OBVIOUS
<1>. HIDE DEF r
<1>2. RequestOk(r)
  BY <1>1, ProjectIs DEF RequestOk, EditInv, SnapshotOk
<1>3. DraftOk'
  BY <1>0 DEF EditInv, DraftOk
<1>. QED
  BY <1>0, <1>2, <1>3, BesideLibrary DEF EditInv

LEMMA RespondStep == ASSUME EditInv, NEW a \in responses, Respond(a) PROVE EditInv'
<1>0. UNCHANGED <<project, snapshot, requests, sessions>>
  BY DEF Respond
<1>1. draft' \in {draft, NoDraft}
        \/ (draft.session = a.session /\ a.session # 0 /\ draft' = [draft EXCEPT !.saving = FALSE])
  BY DEF Respond
<1>2. DraftOk'
  <2>1. CASE draft' \in {draft, NoDraft}
    BY <1>0, <2>1 DEF EditInv, DraftOk
  <2>2. CASE draft.session = a.session /\ a.session # 0 /\ draft' = [draft EXCEPT !.saving = FALSE]
    <3>1. draft # NoDraft
      BY <2>2 DEF NoDraft
    <3>2. /\ draft \in DraftType /\ Distinct(draft.events) /\ draft.rev <= snapshot.rev
          /\ draft.rev = project.rev => draft.base = Shown(project).events /\ draft.parent = project.position
      BY <3>1 DEF EditInv, DraftOk
    <3>3. draft' \in DraftType
      BY <2>2, <3>2 DEF DraftType
    <3>4. /\ draft'.events = draft.events /\ draft'.rev = draft.rev /\ draft'.base = draft.base
          /\ draft'.parent = draft.parent
      BY <2>2, <3>2 DEF DraftType
    <3>. QED
      BY <1>0, <3>2, <3>3, <3>4 DEF DraftOk
  <2>. QED
    BY <1>1, <2>1, <2>2
<1>. QED
  BY <1>0, <1>2, BesideLibrary DEF EditInv

LEMMA DeliverStep == ASSUME EditInv, Deliver PROVE EditInv'
<1>0. snapshot' = project /\ UNCHANGED <<project, busy, requests, responses, sessions>>
  BY DEF Deliver
<1>1. draft' = draft \/ (draft # NoDraft /\ draft' = [draft EXCEPT !.stale = TRUE])
  BY DEF Deliver
<1>2. project.rev \in Nat /\ snapshot.rev \in Nat /\ snapshot.rev <= project.rev /\ SnapshotOk'
  BY <1>0, ProjectIs DEF EditInv, SnapshotOk
<1>3. DraftOk'
  <2>1. CASE draft = NoDraft
    BY <1>1, <2>1 DEF DraftOk
  <2>2. CASE draft # NoDraft
    <3>2. /\ draft \in DraftType /\ Distinct(draft.events) /\ draft.rev <= snapshot.rev
          /\ draft.rev = project.rev => draft.base = Shown(project).events /\ draft.parent = project.position
      BY <2>2 DEF EditInv, DraftOk
    <3>3. draft' \in DraftType
      BY <1>1, <3>2 DEF DraftType
    <3>4. /\ draft'.events = draft.events /\ draft'.rev = draft.rev /\ draft'.base = draft.base
          /\ draft'.parent = draft.parent
      BY <1>1, <3>2 DEF DraftType
    <3>5. draft.rev \in Nat
      BY <3>2 DEF DraftType
    <3>. QED
      BY <1>0, <1>2, <3>2, <3>3, <3>4, <3>5 DEF DraftOk
  <2>. QED
    BY <2>1, <2>2
<1>4. \A r \in requests' : RequestOk(r)'
  BY <1>0 DEF EditInv, RequestOk
<1>. QED
  BY <1>0, <1>2, <1>3, <1>4 DEF EditInv

LEMMA LibrarySteps == ASSUME EditInv, Beside \/ (\E r \in requests : Perform(r)) PROVE EditInv'
<1>1. CASE Beside
  <2>1. UNCHANGED <<snapshot, draft, busy, requests, responses, sessions>>
    BY <1>1 DEF Beside
  <2>2. ProjectOk(project') /\ project'.rev = project.rev + 1
    BY <1>1, BesideOk DEF EditInv
  <2>. QED
    BY <2>1, <2>2, BesideEditor
<1>2. ASSUME NEW r \in requests, Perform(r) PROVE EditInv'
  <2>1. project' = Outcome(r) /\ requests' \subseteq requests /\ UNCHANGED <<snapshot, draft, busy, sessions>>
    BY <1>2 DEF Perform
  <2>2. Outcome(r) = project \/ (ProjectOk(Outcome(r)) /\ Outcome(r).rev = project.rev + 1)
    BY OutcomeOk DEF EditInv
  <2>. QED
    BY <2>1, <2>2, BesideEditor
<1>. QED
  BY <1>1, <1>2

LEMMA EditingInitially == ASSUME EditingInit PROVE EditInv
<1>. DEFINE only == <<EmptyLayer(1)>>
<1>1. EmptyLayer(1) \in EditLayers /\ LayerOk(EmptyLayer(1)) /\ EmptyLayer(1).edits = <<>>
  BY EmptyLayerOk
<1>2. only \in Seq(EditLayers) /\ Len(only) = 1 /\ only[1] = EmptyLayer(1)
  BY <1>1
<1>. HIDE DEF only
<1>3. project = [rev |-> 1, layers |-> only, layer |-> 1, position |-> 0, analyses |-> 1, loop |-> NoLoop]
  BY DEF EditingInit, only
<1>4. NoLoop \in LoopType /\ NoLoop.ready = FALSE
  BY DEF NoLoop, LoopType
<1>5. project \in ProjectType
  BY <1>2, <1>3, <1>4 DEF ProjectType
<1>6. /\ project.layers = only /\ project.layer = 1 /\ project.position = 0 /\ project.loop = NoLoop
  BY <1>3
<1>7. project.layers[1].edits \in Seq(EditTransactions)
  BY <1>1, <1>2, <1>6 DEF EditLayers
<1>8. TreeOk(project)
  <2>1. Len(project.layers[1].edits) \in Nat /\ 0 \in 0..Len(project.layers[1].edits)
    BY <1>7
  <2>2. LayerOk(project.layers[1])
    BY <1>1, <1>2, <1>6
  <2>3. Len(project.layers) = 1
    BY <1>2, <1>6
  <2>4. project.layer \in 1..Len(project.layers)
          /\ project.position \in 0..Len(project.layers[project.layer].edits)
    <3>1. project.layer = 1 /\ project.position = 0
      BY <1>6
    <3>. QED
      BY <2>1, <2>3, <3>1
  <2>5. ASSUME NEW l \in 1..Len(project.layers) PROVE LayerOk(project.layers[l])
    <3>1. l = 1
      BY <2>3
    <3>. QED
      BY <2>2, <3>1
  <2>. QED
    BY <2>4, <2>5 DEF TreeOk
<1>9. ProjectOk(project)
  BY <1>4, <1>5, <1>6, <1>8 DEF ProjectOk, LoopOk
<1>. QED
  BY <1>9, ProjectIs DEF EditingInit, EditInv, SnapshotOk, DraftOk

LEMMA EditingStep == ASSUME EditInv, [EditingNext]_editingVars PROVE EditInv'
<1>1. CASE UNCHANGED editingVars
  BY <1>1 DEF editingVars, EditInv, SnapshotOk, DraftOk, RequestOk
<1>2. CASE EditingNext
  BY <1>2, OpenDraftStep, EditsOfDraft, SaveStep, CloseDraftStep, DeliverStep, LibrarySteps, AskHistoryStep,
       RespondStep
     DEF EditingNext
<1>. QED
  BY <1>1, <1>2

LEMMA EditInvKeepsEdits == ASSUME EditInv PROVE EditsAreKept
<1>1. ASSUME NEW l \in DOMAIN project.layers, NEW k \in DOMAIN project.layers[l].edits
      PROVE  LET t == Effective(project.layers[l], k)  e == project.layers[l].edits[k]
             IN /\ t # Broken /\ Said(t.events) = e.says
                /\ {i \in Ids : SureBefore(t.events, i)} = e.sure
  <2>1. l \in 1..Len(project.layers) /\ project.layers[l] \in EditLayers
    BY ProjectIs DEF EditInv
  <2>2. LayerOk(project.layers[l]) /\ k \in 1..Len(project.layers[l].edits)
    BY <2>1, ProjectIs DEF EditInv, EditLayers
  <2>. QED
    BY <2>2, NotBroken DEF LayerOk, AsShown
<1>2. LoopIsPlayable
  BY ProjectIs DEF EditInv, LoopOk, LoopIsPlayable, Layer
<1>. QED
  BY <1>1, <1>2 DEF EditsAreKept, SavedAsShown

LEMMA EditInvTypes == ASSUME EditInv PROVE EditingTypeOK
<1>1. project.position \in 0..Len(Layer.edits) /\ snapshot.rev <= project.rev
  BY ProjectIs DEF EditInv, SnapshotOk, Layer
<1>2. draft # NoDraft => draft.rev <= snapshot.rev /\ TotalLength(draft.base) = Span
  BY DEF EditInv, DraftOk, DraftType, Whole
<1>. QED
  BY <1>1, <1>2 DEF EditingTypeOK

\* Every saved transaction stands, for good, for what its draft showed when it
\* was saved, and a loop that is ready lies on bars the workspace shows.
THEOREM EditingPromiseKept == EditingSpec => [](EditingTypeOK /\ EditsAreKept)
<1>1. EditingInit => EditInv
  BY EditingInitially
<1>2. EditInv /\ [EditingNext]_editingVars => EditInv'
  BY EditingStep
<1>3. EditInv => EditingTypeOK /\ EditsAreKept
  BY EditInvKeepsEdits, EditInvTypes
<1>. QED
  BY <1>1, <1>2, <1>3, PTL DEF EditingSpec

-----------------------------------------------------------------------------
(***************************************************************************)
(* ProjectEvents: the store shows the newest commit, for any number of     *)
(* Projects, of commits, of failing reads and of windows.                  *)
(***************************************************************************)

Stages == 1..MaxSequence
AskedOf == [kind : {"read", "refresh", "mutate"}, of : Projects, id : Nat, at : 0..MaxSequence]
SentOf == [kind : {"event", "read", "refresh"}, of : Projects, id : Nat, at : 0..MaxSequence]
States == [kind : {"idle", "loading", "ready", "error"}, of : Projects \cup {NoProject}, at : 0..MaxSequence]
EventTypes ==
    /\ sequence \in [Projects -> Stages] /\ mutations \in [Projects -> Seq(Stages)]
    /\ toMain \in Seq(AskedOf) /\ toRenderer \in Seq(SentOf)
    /\ \A i \in 1..Len(toMain) : toMain[i].kind = "mutate" => toMain[i].at > 0
    /\ last \in [Projects -> 0..MaxSequence] /\ recovery \in [Projects -> [before : Nat, waiting : Seq(Stages)]]
    /\ active \in Projects \cup {NoProject} /\ request \in Nat /\ state \in States

\* A message that tells of a stage of the Project, and the event of a stage.
Tells(m, p) == m.of = p /\ m.at > 0
IsEvent(m, p, k) == m.kind = "event" /\ m.of = p /\ m.at = k
\* The message at i of what is on its way tells no less than what was seen and
\* what is before it, and the events of every later stage follow it.
OrderAt(i, p) ==
    /\ toRenderer[i].at <= sequence[p] /\ last[p] <= toRenderer[i].at
    /\ toRenderer[i].kind = "event" => last[p] < toRenderer[i].at
    /\ \A n \in 1..Len(recovery[p].waiting) : recovery[p].waiting[n] <= toRenderer[i].at
    /\ \A j \in (i + 1)..Len(toRenderer) : Tells(toRenderer[j], p) =>
         /\ toRenderer[i].at <= toRenderer[j].at
         /\ toRenderer[j].kind = "event" => toRenderer[i].at < toRenderer[j].at
    /\ \A k \in (toRenderer[i].at + 1)..sequence[p] : \E j \in (i + 1)..Len(toRenderer) : IsEvent(toRenderer[j], p, k)
\* Once the preload has seen a stage, nothing is missing after it.
SeenInv(p) ==
    /\ last[p] <= sequence[p]
    /\ \A n \in 1..Len(recovery[p].waiting) : recovery[p].waiting[n] <= sequence[p]
    /\ last[p] > 0 => \A k \in (last[p] + 1)..sequence[p] : \E j \in 1..Len(toRenderer) : IsEvent(toRenderer[j], p, k)
OrderInv ==
    /\ \A i \in 1..Len(toRenderer) : toRenderer[i].kind = "event" => toRenderer[i].at > 0
    /\ \A p \in Projects : SeenInv(p) /\ \A i \in 1..Len(toRenderer) : Tells(toRenderer[i], p) => OrderAt(i, p)

\* A recovery has one refresh on its way, and something that waits for it.
IsRefresh(m, p) == m.kind = "refresh" /\ m.of = p
RefreshInv(p) ==
    /\ \A i \in 1..Len(toMain) : IsRefresh(toMain[i], p) =>
         /\ recovery[p].waiting # <<>>
         /\ \A j \in 1..Len(toMain) : IsRefresh(toMain[j], p) => j = i
         /\ \A j \in 1..Len(toRenderer) : ~IsRefresh(toRenderer[j], p)
    /\ \A i \in 1..Len(toRenderer) : IsRefresh(toRenderer[i], p) =>
         /\ recovery[p].waiting # <<>>
         /\ \A j \in 1..Len(toRenderer) : IsRefresh(toRenderer[j], p) => j = i

\* The read whose answer will count is on its way.
IsAwaited(m) == m.kind = "read" /\ m.of = active /\ m.id = request
Awaited ==
    \/ \E i \in 1..Len(toMain) : IsAwaited(toMain[i])
    \/ \E i \in 1..Len(toRenderer) : IsAwaited(toRenderer[i])
StoreInv ==
    /\ state.kind # "idle" => state.of = active /\ active \in Projects
    /\ state.kind = "ready" => /\ last[active] > 0 /\ state.at > 0
                               /\ Awaited \/ state.at = last[active]

EventInv == EventTypes /\ OrderInv /\ (\A p \in Projects : RefreshInv(p)) /\ StoreInv

\* Events that tell nothing new leave the stream as it is.
LEMMA AcceptOld ==
    ASSUME NEW stream, stream.last \in Nat, NEW w, Len(w) \in Nat,
           \A k \in 1..Len(w) : w[k] \in Nat /\ w[k] <= stream.last
    PROVE  AcceptAll(stream, w) = stream
<1>. DEFINE n == Len(w)  Body(f) == [k \in 0..n |-> IF k = 0 THEN stream ELSE Accept(f[k - 1], w[k])]
<1>1. \A k \in 1..n : Accept(stream, w[k]) = stream
  BY DEF Accept
<1>2. \E f : f = Body(f)
  <2>. DEFINE c == [k \in 0..n |-> stream]
  <2>1. ASSUME NEW k \in 0..n PROVE c[k] = IF k = 0 THEN stream ELSE Accept(c[k - 1], w[k])
    <3>1. CASE k = 0
      BY <3>1
    <3>2. CASE k # 0
      <4>1. k \in 1..n /\ c[k] = stream /\ c[k - 1] = stream
        BY <3>2
      <4>. QED
        BY <1>1, <3>2, <4>1
    <3>. QED
      BY <3>1, <3>2
  <2>2. c = Body(c)
    BY <2>1
  <2>. QED
    BY <2>2
<1>. DEFINE f == CHOOSE h : h = Body(h)
<1>3. f = Body(f)
  BY <1>2
<1>4. AcceptAll(stream, w) = f[n]
  BY DEF AcceptAll
<1>. HIDE DEF f
<1>. DEFINE S == {k \in 0..n : f[k] = stream}
<1>5. 0 \in S
  BY <1>3
<1>6. ASSUME NEW k \in 1..n, \A j \in 0..(k - 1) : j \in S PROVE k \in S
  <2>1. k - 1 \in S
    <3>. HIDE DEF S
    <3>. QED
      BY <1>6
  <2>2. f[k] = Accept(f[k - 1], w[k])
    BY <1>3
  <2>3. f[k] = stream
    BY <1>1, <2>1, <2>2
  <2>. QED
    BY <2>3
<1>7. \A k \in 0..n : k \in S
  <2>. HIDE DEF S
  <2>. QED
    BY <1>5, <1>6, UpTo
<1>8. n \in S
  <2>. HIDE DEF S
  <2>. QED
    BY <1>7
<1>. QED
  BY <1>4, <1>8

LEMMA AcceptIs ==
    ASSUME NEW l \in Nat, NEW w, NEW s \in Nat
    PROVE  LET t == Accept([last |-> l, events |-> 0, waiting |-> w], s) IN
           /\ s <= l => t.last = l /\ t.events = 0 /\ t.waiting = w
           /\ s = l + 1 => t.last = s /\ t.events = 1 /\ t.waiting = w
           /\ s > l + 1 => t.last = l /\ t.events = 0 /\ t.waiting = Append(w, s)
BY DEF Accept

\* The queues, as the actions change them.
LEMMA AppendIs ==
    ASSUME NEW X, NEW s \in Seq(X), NEW x \in X
    PROVE  /\ Append(s, x) \in Seq(X) /\ Len(Append(s, x)) = Len(s) + 1 /\ Append(s, x)[Len(s) + 1] = x
           /\ \A i \in 1..Len(s) : Append(s, x)[i] = s[i]
           /\ s \o <<x>> = Append(s, x) /\ Len(s) \in Nat
  OBVIOUS

LEMMA TailIs ==
    ASSUME NEW X, NEW s \in Seq(X), s # <<>>
    PROVE  /\ Tail(s) \in Seq(X) /\ Len(Tail(s)) = Len(s) - 1 /\ Len(s) \in Nat \ {0}
           /\ Head(s) = s[1] /\ Head(s) \in X
           /\ \A i \in 1..(Len(s) - 1) : Tail(s)[i] = s[i + 1]
  OBVIOUS

LEMMA NotifyIs ==
    ASSUME EventTypes, NEW p \in Projects, NEW snapshots, NEW events \in 0..1, NEW refreshes,
           Notify(p, snapshots, events, refreshes),
           snapshots = <<>> \/ (\E at : snapshots = <<at>>),
           refreshes = <<>> \/ (events = 0 /\ refreshes = <<Message("refresh", p, 0, 0)>>)
    PROVE  /\ toMain' = IF refreshes # <<>> THEN Append(toMain, Message("refresh", p, 0, 0))
                        ELSE IF events = 1
                          /\ p = active THEN Append(toMain, Message("read", p, request', 0)) ELSE toMain
           /\ request' = IF p = active THEN request + Len(snapshots) + events ELSE request
           /\ state' = IF p = active /\ snapshots # <<>> THEN State("ready", p, snapshots[1]) ELSE state
<1>. DEFINE m == Message("refresh", p, 0,
       0)  reads == [i \in 1..events |-> Message("read", p, request + Len(snapshots) + i, 0)]
<1>0. toMain \in Seq(AskedOf) /\ toMain \o <<>> = toMain
  BY DEF EventTypes
<1>1. Len(snapshots) \in Nat /\ request \in Nat
  BY DEF EventTypes
<1>2. CASE p # active
  BY <1>0, <1>2 DEF Notify
<1>3. CASE p = active
  <2>1. /\ request' = request + Len(snapshots) + events /\ toMain' = toMain \o refreshes \o reads
        /\ state' = IF snapshots = <<>> THEN state ELSE State("ready", p, snapshots[1])
    BY <1>3 DEF Notify
  <2>2. CASE events = 0
    <3>1. reads = <<>>
      BY <2>2
    <3>. HIDE DEF reads
    <3>2. CASE refreshes = <<>>
      BY <1>0, <1>3, <2>1, <2>2, <3>1, <3>2
    <3>3. CASE refreshes = <<m>> /\ refreshes # <<>>
      <4>. HIDE DEF m
      <4>1. toMain \o <<m>> = Append(toMain, m) /\ Append(toMain, m) \o <<>> = Append(toMain, m)
        BY <1>0
      <4>. QED
        BY <1>3, <2>1, <3>1, <3>3, <4>1 DEF m
    <3>. QED
      BY <3>2, <3>3
  <2>3. CASE events = 1
    <3>1. reads = <<Message("read", p, request', 0)>>
      <4>1. request + Len(snapshots) + 1 = request'
        BY <2>1, <2>3
      <4>. QED
        BY <2>3, <4>1
    <3>2. refreshes = <<>>
      BY <2>3
    <3>. HIDE DEF reads
    <3>3. toMain' = Append(toMain, Message("read", p, request', 0))
      <4>. DEFINE x == Message("read", p, request', 0)
      <4>1. toMain \o <<x>> = Append(toMain, x)
        BY <1>0
      <4>. HIDE DEF x
      <4>. QED
        BY <1>0, <2>1, <3>1, <3>2, <4>1 DEF x
    <3>. QED
      BY <1>3, <2>1, <2>3, <3>2, <3>3
  <2>. QED
    BY <2>2, <2>3
<1>. QED
  BY <1>2, <1>3

LEMMA EventTypesAre ==
    ASSUME EventsAssumption, EventTypes
    PROVE  /\ Len(toMain) \in Nat /\ Len(toRenderer) \in Nat /\ MaxSequence \in Nat
           /\ request \in Nat /\ state \in States /\ active \in Projects \cup {NoProject}
           /\ \A i \in 1..Len(toMain) : toMain[i] \in AskedOf
           /\ \A i \in 1..Len(toRenderer) : /\ toRenderer[i] \in SentOf /\ toRenderer[i].at \in Nat
                                            /\ toRenderer[i].of \in Projects
           /\ \A p \in Projects : /\ sequence[p] \in Stages /\ sequence[p] \in Nat
                                       /\ last[p] \in 0..MaxSequence /\ last[p] \in Nat
                                  /\ recovery[p] \in [before : Nat, waiting : Seq(Stages)]
                                  /\ Len(recovery[p].waiting) \in Nat
                                  /\ \A n \in 1..Len(recovery[p].waiting) : recovery[p].waiting[n] \in Nat
<1>1. toMain \in Seq(AskedOf) /\ toRenderer \in Seq(SentOf) /\ MaxSequence \in Nat
      /\ request \in Nat /\ state \in States /\ active \in Projects \cup {NoProject}
  BY DEF EventTypes, EventsAssumption
<1>2. \A i \in 1..Len(toRenderer) : /\ toRenderer[i] \in SentOf /\ toRenderer[i].at \in Nat
                                         /\ toRenderer[i].of \in Projects
  <2>. SUFFICES ASSUME NEW i \in 1..Len(toRenderer)
                PROVE  /\ toRenderer[i] \in SentOf /\ toRenderer[i].at \in Nat /\ toRenderer[i].of \in Projects
    OBVIOUS
  <2>1. toRenderer[i] \in SentOf
    BY <1>1
  <2>. QED
    BY <1>1, <2>1 DEF SentOf
<1>3. ASSUME NEW p \in Projects
      PROVE  /\ sequence[p] \in Stages /\ sequence[p] \in Nat /\ last[p] \in 0..MaxSequence /\ last[p] \in Nat
             /\ recovery[p] \in [before : Nat, waiting : Seq(Stages)]
             /\ Len(recovery[p].waiting) \in Nat
             /\ \A n \in 1..Len(recovery[p].waiting) : recovery[p].waiting[n] \in Nat
  <2>1. sequence[p] \in Stages /\ last[p] \in 0..MaxSequence
          /\ recovery[p] \in [before : Nat, waiting : Seq(Stages)]
    BY DEF EventTypes
  <2>2. recovery[p].waiting \in Seq(Stages)
    BY <2>1
  <2>. QED
    BY <1>1, <2>1, <2>2, SMTT(60) DEF Stages
<1>. QED
  BY <1>1, <1>2, <1>3

\* What is sent in its turn keeps the order.
LEMMA OrderAppend ==
    ASSUME EventsAssumption, EventTypes, OrderInv, NEW m \in SentOf, toRenderer' = Append(toRenderer, m),
             UNCHANGED <<last, recovery>>,
           \/ m.kind # "event" /\ m.at \in {0, sequence[m.of]} /\ sequence' = sequence
           \/ m.kind = "event" /\ m.at = sequence[m.of] + 1 /\ sequence' = [sequence EXCEPT ![m.of] = m.at]
    PROVE  OrderInv'
<1>. DEFINE n == Len(toRenderer)
<1>0. /\ n \in Nat /\ Len(toRenderer') = n + 1 /\ toRenderer'[n + 1] = m
           /\ \A i \in 1..n : toRenderer'[i] = toRenderer[i]
      /\ m.of \in Projects /\ m.at \in Nat
  BY AppendIs, EventTypesAre DEF EventTypes, SentOf
<1>1. ASSUME NEW p \in Projects
      PROVE  /\ sequence'[p] \in Nat /\ sequence[p] \in Nat /\ sequence[p] <= sequence'[p] /\ last[p] \in Nat
             /\ sequence'[p] # sequence[p] => m.kind = "event" /\ m.of = p /\ sequence'[p] = sequence[p] + 1
             /\ m.of = p => m.at \in {0, sequence'[p]}
             /\ m.of = p /\ m.kind = "event" => m.at = sequence[p] + 1 /\ m.at = sequence'[p]
  <2>1. sequence[p] \in Nat /\ last[p] \in Nat
    BY EventTypesAre
  <2>2. CASE m.kind # "event" /\ m.at \in {0, sequence[m.of]} /\ sequence' = sequence
    BY <2>1, <2>2
  <2>3. CASE m.kind = "event" /\ m.at = sequence[m.of] + 1 /\ sequence' = [sequence EXCEPT ![m.of] = m.at]
    <3>1. sequence'[p] = IF m.of = p THEN m.at ELSE sequence[p]
      BY <2>3 DEF EventTypes
    <3>. QED
      BY <2>1, <2>3, <3>1
  <2>. QED
    BY <2>2, <2>3
<1>2. ASSUME NEW p \in Projects, NEW k \in (sequence[p] + 1)..sequence'[p]
      PROVE  IsEvent(toRenderer'[n + 1], p, k)
  <2>1. m.of = p /\ m.kind = "event" /\ k = m.at
    BY <1>1, <1>2
  <2>. QED
    BY <1>0, <2>1 DEF IsEvent
<1>3. ASSUME NEW i \in 1..(n + 1), toRenderer'[i].kind = "event" PROVE toRenderer'[i].at > 0
  <2>1. CASE i = n + 1
    BY <1>0, <1>3, <2>1, EventTypesAre
  <2>2. CASE i # n + 1
    BY <1>0, <1>3, <2>2 DEF OrderInv
  <2>. QED
    BY <2>1, <2>2
<1>4. ASSUME NEW p \in Projects PROVE SeenInv(p)'
  <2>1. last'[p] <= sequence'[p]
          /\ \A k \in 1..Len(recovery'[p].waiting) : recovery'[p].waiting[k] <= sequence'[p]
    BY <1>1, EventTypesAre, SMTT(60) DEF OrderInv, SeenInv
  <2>2. ASSUME last[p] > 0, NEW k \in (last[p] + 1)..sequence'[p]
        PROVE  \E j \in 1..(n + 1) : IsEvent(toRenderer'[j], p, k)
    <3>1. CASE k <= sequence[p]
      <4>1. PICK j \in 1..n : IsEvent(toRenderer[j], p, k)
        BY <2>2, <3>1, EventTypesAre DEF OrderInv, SeenInv
      <4>2. j \in 1..(n + 1) /\ IsEvent(toRenderer'[j], p, k)
        BY <1>0, <4>1
      <4>. QED
        BY <4>2
    <3>2. CASE k > sequence[p]
      <4>1. k \in (sequence[p] + 1)..sequence'[p]
        BY <1>1, <3>2, EventTypesAre
      <4>2. n + 1 \in 1..(n + 1)
        BY <1>0
      <4>. QED
        BY <1>2, <4>1, <4>2
    <3>. QED
      BY <3>1, <3>2, EventTypesAre, SMTT(60)
  <2>. QED
    BY <1>0, <2>1, <2>2 DEF SeenInv
<1>5. ASSUME NEW p \in Projects, NEW i \in 1..(n + 1), Tells(toRenderer'[i], p) PROVE OrderAt(i, p)'
  <2>1. CASE i = n + 1
    <3>0. SeenInv(p)
      BY DEF OrderInv
    <3>1. m.at = sequence'[p] /\ m.of = p
      BY <1>0, <1>1, <1>5, <2>1 DEF Tells
    <3>2. last[p] <= sequence'[p] /\ (m.kind = "event" => last[p] < m.at)
      BY <1>1, <3>0, <3>1 DEF SeenInv
    <3>3. \A k \in 1..Len(recovery[p].waiting) : recovery[p].waiting[k] <= sequence'[p]
      <4>1. \A k \in 1..Len(recovery[p].waiting) : recovery[p].waiting[k] \in Nat
              /\ recovery[p].waiting[k] <= sequence[p]
        BY <3>0, EventTypesAre DEF SeenInv
      <4>. QED
        BY <1>1, <4>1
    <3>4. \A j \in (n + 2)..(n + 1) : FALSE
      BY <1>0
    <3>5. \A k \in (sequence'[p] + 1)..sequence'[p] : FALSE
      BY <1>1
    <3>. QED
      BY <1>0, <2>1, <3>1, <3>2, <3>3, <3>4, <3>5 DEF OrderAt
  <2>2. CASE i # n + 1
    <3>1. i \in 1..n /\ toRenderer'[i] = toRenderer[i] /\ toRenderer[i].at \in Nat
      BY <1>0, <2>2, EventTypesAre
    <3>2. OrderAt(i, p)
      BY <1>5, <3>1 DEF OrderInv
    <3>3. /\ toRenderer[i].at <= sequence'[p] /\ last[p] <= toRenderer[i].at
          /\ toRenderer[i].kind = "event" => last[p] < toRenderer[i].at
          /\ \A k \in 1..Len(recovery[p].waiting) : recovery[p].waiting[k] <= toRenderer[i].at
      BY <1>1, <3>1, <3>2, EventTypesAre, SMTT(60) DEF OrderAt
    <3>4. ASSUME NEW j \in (i + 1)..(n + 1), Tells(toRenderer'[j], p)
          PROVE  /\ toRenderer[i].at <= toRenderer'[j].at
                 /\ toRenderer'[j].kind = "event" => toRenderer[i].at < toRenderer'[j].at
      <4>1. CASE j = n + 1
        <5>1. m.of = p /\ m.at > 0
          BY <1>0, <3>4, <4>1 DEF Tells
        <5>2. toRenderer[i].at <= sequence[p]
          BY <3>2 DEF OrderAt
        <5>. QED
          BY <1>0, <3>1, <4>1, <5>1, <5>2, EventTypesAre, SMTT(60)
      <4>2. CASE j # n + 1
        <5>1. j \in (i + 1)..n /\ toRenderer'[j] = toRenderer[j]
          BY <1>0, <3>1, <4>2
        <5>. QED
          BY <3>2, <3>4, <5>1 DEF OrderAt
      <4>. QED
        BY <4>1, <4>2
    <3>5. ASSUME NEW k \in (toRenderer[i].at + 1)..sequence'[p]
          PROVE  \E j \in (i + 1)..(n + 1) : IsEvent(toRenderer'[j], p, k)
      <4>1. CASE k <= sequence[p]
        <5>1. PICK j \in (i + 1)..n : IsEvent(toRenderer[j], p, k)
          BY <3>1, <3>2, <4>1, EventTypesAre DEF OrderAt
        <5>2. j \in (i + 1)..(n + 1) /\ IsEvent(toRenderer'[j], p, k)
          BY <1>0, <3>1, <5>1
        <5>. QED
          BY <5>2
      <4>2. CASE k > sequence[p]
        <5>1. k \in (sequence[p] + 1)..sequence'[p] /\ n + 1 \in (i + 1)..(n + 1)
          BY <1>0, <1>1, <3>1, <4>2, EventTypesAre
        <5>. QED
          BY <1>2, <5>1
      <4>. QED
        <5>1. k \in Nat /\ sequence[p] \in Nat
          BY <1>1, <3>1
        <5>. QED
          BY <4>1, <4>2, <5>1
    <3>. QED
      BY <1>0, <3>1, <3>3, <3>4, <3>5 DEF OrderAt
  <2>. QED
    BY <2>1, <2>2
<1>. QED
  BY <1>0, <1>3, <1>4, <1>5 DEF OrderInv

\* What is received first keeps the order, for a preload that has seen it.
LEMMA OrderTail ==
    ASSUME EventsAssumption, EventTypes, OrderInv,
             toRenderer # <<>>, toRenderer' = Tail(toRenderer), UNCHANGED sequence,
           \A p \in Projects :
             \/ last'[p] = last[p] /\ (~(toRenderer[1].kind = "event" /\ toRenderer[1].of = p) \/ last[p] = 0)
             \/ last'[p] = toRenderer[1].at /\ Tells(toRenderer[1], p),
           \A p \in Projects : \A k \in 1..Len(recovery'[p].waiting) :
             \/ \E l \in 1..Len(recovery[p].waiting) : recovery'[p].waiting[k] = recovery[p].waiting[l]
             \/ recovery'[p].waiting[k] = toRenderer[1].at /\ Tells(toRenderer[1], p)
    PROVE  OrderInv'
<1>. DEFINE n == Len(toRenderer)  m == toRenderer[1]
<1>0. n \in Nat \ {0} /\ Len(toRenderer') = n - 1 /\ \A i \in 1..(n - 1) : toRenderer'[i] = toRenderer[i + 1]
  BY TailIs DEF EventTypes
<1>1. m.at \in Nat /\ 1 \in 1..n /\ \A p \in Projects : Tells(m, p) => OrderAt(1, p)
  BY <1>0, EventTypesAre DEF OrderInv
<1>2. ASSUME NEW p \in Projects PROVE SeenInv(p)'
  <2>1. last'[p] <= sequence[p]
          /\ \A k \in 1..Len(recovery'[p].waiting) : recovery'[p].waiting[k] <= sequence[p]
    BY <1>1 DEF OrderInv, SeenInv, OrderAt
  <2>2. ASSUME last'[p] > 0, NEW k \in (last'[p] + 1)..sequence[p]
        PROVE  \E j \in 1..(n - 1) : IsEvent(toRenderer'[j], p, k)
    <3>1. PICK j \in 2..n : IsEvent(toRenderer[j], p, k)
      <4>1. CASE last'[p] = m.at /\ Tells(m, p)
        BY <1>1, <2>2, <4>1 DEF OrderAt
      <4>2. CASE last'[p] = last[p] /\ (~(m.kind = "event" /\ m.of = p) \/ last[p] = 0)
        <5>1. ~(m.kind = "event" /\ m.of = p)
          BY <2>2, <4>2
        <5>2. PICK j \in 1..n : IsEvent(toRenderer[j], p, k)
          BY <2>2, <4>2 DEF OrderInv, SeenInv
        <5>3. j # 1
          BY <5>1, <5>2 DEF IsEvent
        <5>. QED
          BY <1>0, <5>2, <5>3
      <4>. QED
        BY <4>1, <4>2
    <3>2. j - 1 \in 1..(n - 1) /\ toRenderer'[j - 1] = toRenderer[j]
      BY <1>0, <3>1
    <3>. QED
      BY <3>1, <3>2
  <2>. QED
    BY <1>0, <2>1, <2>2 DEF SeenInv
<1>3. ASSUME NEW p \in Projects, NEW i \in 1..(n - 1), Tells(toRenderer'[i], p) PROVE OrderAt(i, p)'
  <2>. DEFINE x == toRenderer[i + 1]
  <2>1. i + 1 \in 1..n /\ toRenderer'[i] = x /\ x.at \in Nat /\ OrderAt(i + 1, p) /\ Tells(x, p)
    BY <1>0, <1>3, EventTypesAre DEF OrderInv
  <2>2. Tells(m, p) => m.at <= x.at /\ (x.kind = "event" => m.at < x.at)
    <3>1. i + 1 \in 2..n
      BY <1>0
    <3>. QED
      BY <1>1, <2>1, <3>1 DEF OrderAt
  <2>3. x.at <= sequence[p] /\ last'[p] <= x.at /\ (x.kind = "event" => last'[p] < x.at)
    BY <2>1, <2>2 DEF OrderAt
  <2>4. \A k \in 1..Len(recovery'[p].waiting) : recovery'[p].waiting[k] <= x.at
    BY <2>1, <2>2 DEF OrderAt
  <2>5. ASSUME NEW j \in (i + 1)..(n - 1), Tells(toRenderer'[j], p)
        PROVE  x.at <= toRenderer'[j].at /\ (toRenderer'[j].kind = "event" => x.at < toRenderer'[j].at)
    <3>1. j + 1 \in (i + 2)..n /\ toRenderer'[j] = toRenderer[j + 1]
      BY <1>0
    <3>2. (i + 1) + 1 = i + 2
      OBVIOUS
    <3>. QED
      BY <2>1, <2>5, <3>1, <3>2 DEF OrderAt
  <2>6. ASSUME NEW k \in (x.at + 1)..sequence[p] PROVE \E j \in (i + 1)..(n - 1) : IsEvent(toRenderer'[j], p, k)
    <3>0. (i + 1) + 1 = i + 2
      OBVIOUS
    <3>1. PICK j \in (i + 2)..n : IsEvent(toRenderer[j], p, k)
      BY <2>1, <3>0 DEF OrderAt
    <3>2. j - 1 \in (i + 1)..(n - 1) /\ toRenderer'[j - 1] = toRenderer[j]
      BY <1>0, <3>1
    <3>. QED
      BY <3>1, <3>2
  <2>. HIDE DEF x
  <2>. QED
    BY <1>0, <2>1, <2>3, <2>4, <2>5, <2>6 DEF OrderAt
<1>4. ASSUME NEW i \in 1..(n - 1), toRenderer'[i].kind = "event" PROVE toRenderer'[i].at > 0
  BY <1>0, <1>4 DEF OrderInv
<1>. QED
  BY <1>0, <1>2, <1>3, <1>4 DEF OrderInv

\* Once something was seen, an event that arrives is the next one.
LEMMA NextEvent ==
    ASSUME EventsAssumption, EventTypes, OrderInv, toRenderer # <<>>, toRenderer[1].kind = "event"
    PROVE  LET m == toRenderer[1] IN
           /\ m.of \in Projects /\ Tells(m, m.of) /\ m.at > last[m.of]
           /\ last[m.of] > 0 => m.at = last[m.of] + 1
<1>. DEFINE n == Len(toRenderer)  m == toRenderer[1]  p == m.of
<1>1. n \in Nat \ {0} /\ 1 \in 1..n /\ m.at \in Nat /\ p \in Projects /\ Tells(m, p) /\ last[p] \in Nat
        /\ sequence[p] \in Nat
  <2>1. n \in Nat \ {0} /\ 1 \in 1..n
    BY TailIs DEF EventTypes
  <2>. QED
    BY <2>1, EventTypesAre DEF OrderInv, Tells
<1>2. OrderAt(1, p)
  BY <1>1 DEF OrderInv
<1>3. m.at > last[p] /\ m.at <= sequence[p]
  BY <1>1, <1>2 DEF OrderAt
<1>4. ASSUME last[p] > 0 PROVE m.at = last[p] + 1
  <2>1. PICK j \in 1..n : IsEvent(toRenderer[j], p, last[p] + 1)
    BY <1>1, <1>3, <1>4 DEF OrderInv, SeenInv
  <2>2. CASE j = 1
    BY <2>1, <2>2 DEF IsEvent
  <2>3. CASE j # 1
    <3>1. j \in 2..n /\ Tells(toRenderer[j], p)
      BY <1>1, <2>1, <2>3 DEF IsEvent, Tells
    <3>2. m.at < toRenderer[j].at
      BY <1>2, <2>1, <3>1 DEF OrderAt, IsEvent
    <3>. QED
      BY <1>1, <1>3, <2>1, <3>2 DEF IsEvent
  <2>. QED
    BY <2>2, <2>3
<1>. QED
  BY <1>1, <1>3, <1>4

\* Refreshes that keep their place in the queues, but for the first that leaves.
LEMMA RefreshesStay ==
    ASSUME EventsAssumption, EventTypes, NEW p \in Projects, RefreshInv(p), NEW a \in {0, 1}, NEW b \in {0, 1},
           Len(toMain') \in Nat, Len(toRenderer') \in Nat,
           \A i \in 1..Len(toMain') : IsRefresh(toMain'[i], p) => i + a \in 1..Len(toMain)
             /\ IsRefresh(toMain[i + a], p),
           \A i \in 1..Len(toRenderer') : IsRefresh(toRenderer'[i], p)
                                          => i + b \in 1..Len(toRenderer) /\ IsRefresh(toRenderer[i + b], p),
           recovery[p].waiting # <<>> => recovery'[p].waiting # <<>>
    PROVE  RefreshInv(p)'
<1>1. ASSUME NEW i \in 1..Len(toMain'), IsRefresh(toMain'[i], p)
      PROVE  /\ recovery'[p].waiting # <<>>
             /\ \A j \in 1..Len(toMain') : IsRefresh(toMain'[j], p) => j = i
             /\ \A j \in 1..Len(toRenderer') : ~IsRefresh(toRenderer'[j], p)
  <2>1. i + a \in 1..Len(toMain) /\ IsRefresh(toMain[i + a], p)
    BY <1>1
  <2>2. recovery'[p].waiting # <<>>
    BY <2>1 DEF RefreshInv
  <2>3. ASSUME NEW j \in 1..Len(toMain'), IsRefresh(toMain'[j], p) PROVE j = i
    <3>1. j + a \in 1..Len(toMain) /\ IsRefresh(toMain[j + a], p)
      BY <2>3
    <3>2. j + a = i + a
      BY <2>1, <3>1 DEF RefreshInv
    <3>. QED
      BY <3>2
  <2>4. ASSUME NEW j \in 1..Len(toRenderer'), IsRefresh(toRenderer'[j], p) PROVE FALSE
    BY <2>1, <2>4 DEF RefreshInv
  <2>. QED
    BY <2>2, <2>3, <2>4
<1>2. ASSUME NEW i \in 1..Len(toRenderer'), IsRefresh(toRenderer'[i], p)
      PROVE  /\ recovery'[p].waiting # <<>>
             /\ \A j \in 1..Len(toRenderer') : IsRefresh(toRenderer'[j], p) => j = i
  <2>1. i + b \in 1..Len(toRenderer) /\ IsRefresh(toRenderer[i + b], p)
    BY <1>2
  <2>2. recovery'[p].waiting # <<>>
    BY <2>1 DEF RefreshInv
  <2>3. ASSUME NEW j \in 1..Len(toRenderer'), IsRefresh(toRenderer'[j], p) PROVE j = i
    <3>1. j + b \in 1..Len(toRenderer) /\ IsRefresh(toRenderer[j + b], p)
      BY <2>3
    <3>2. j + b = i + b
      BY <2>1, <3>1 DEF RefreshInv
    <3>. QED
      BY <3>2
  <2>. QED
    BY <2>2, <2>3
<1>. QED
  BY <1>1, <1>2 DEF RefreshInv

\* The message that a Project's commit sends.
LEMMA AnnouncedIs ==
    ASSUME EventsAssumption, EventTypes, OrderInv, \A p \in Projects : RefreshInv(p), StoreInv,
           NEW p \in Projects, sequence[p] < MaxSequence, sequence' = [sequence EXCEPT ![p] = @ + 1],
             Send(<<Announced(p)>>),
           UNCHANGED <<toMain, preloadVars, storeVars>>, mutations' \in [Projects -> Seq(Stages)]
    PROVE  EventInv'
<1>. DEFINE m == Announced(p)
<1>1. m.kind = "event" /\ m.of = p /\ m.at = sequence[p] + 1 /\ m.id = 0
  BY DEF Announced, Message
<1>2. m \in SentOf /\ sequence[p] + 1 \in Stages /\ sequence[p] \in Nat
  BY EventTypesAre, SMTT(60) DEF SentOf, Announced, Message, Stages, EventsAssumption
<1>3. toRenderer' = Append(toRenderer, m)
  <2>1. toRenderer' = toRenderer \o <<m>> /\ toRenderer \in Seq(SentOf)
    BY DEF Send, EventTypes
  <2>. HIDE DEF m
  <2>. QED
    BY <1>2, <2>1, AppendIs
<1>. HIDE DEF m
<1>4. /\ toRenderer' \in Seq(SentOf) /\ Len(toRenderer') = Len(toRenderer) + 1
           /\ toRenderer'[Len(toRenderer) + 1] = m
      /\ \A i \in 1..Len(toRenderer) : toRenderer'[i] = toRenderer[i]
      /\ Len(toRenderer) \in Nat /\ Len(toMain) \in Nat
  BY <1>2, <1>3, AppendIs, EventTypesAre DEF EventTypes
<1>5. EventTypes'
  BY <1>2, <1>4 DEF EventTypes, preloadVars, storeVars
<1>6. OrderInv'
  <2>1. sequence' = [sequence EXCEPT ![m.of] = m.at]
    BY <1>1
  <2>. QED
    BY <1>1, <1>2, <1>3, <2>1, OrderAppend DEF preloadVars
<1>7. ASSUME NEW q \in Projects PROVE RefreshInv(q)'
  <2>1. \A i \in 1..Len(toRenderer') :
          IsRefresh(toRenderer'[i], q) => i \in 1..Len(toRenderer) /\ IsRefresh(toRenderer[i], q)
    BY <1>1, <1>4 DEF IsRefresh
  <2>2. UNCHANGED toMain /\ UNCHANGED recovery /\ RefreshInv(q)
    BY DEF preloadVars
  <2>3. ASSUME NEW i \in 1..Len(toMain'), IsRefresh(toMain'[i], q)
        PROVE  /\ recovery'[q].waiting # <<>>
               /\ \A j \in 1..Len(toMain') : IsRefresh(toMain'[j], q) => j = i
               /\ \A j \in 1..Len(toRenderer') : ~IsRefresh(toRenderer'[j], q)
    BY <2>1, <2>2, <2>3 DEF RefreshInv
  <2>4. ASSUME NEW i \in 1..Len(toRenderer'), IsRefresh(toRenderer'[i], q)
        PROVE  /\ recovery'[q].waiting # <<>>
               /\ \A j \in 1..Len(toRenderer') : IsRefresh(toRenderer'[j], q) => j = i
    BY <2>1, <2>2, <2>4 DEF RefreshInv
  <2>. QED
    BY <2>3, <2>4 DEF RefreshInv
<1>8. StoreInv'
  <2>1. Awaited => Awaited'
    BY <1>4 DEF Awaited, IsAwaited, storeVars
  <2>. QED
    BY <2>1 DEF StoreInv, storeVars, preloadVars
<1>. QED
  BY <1>5, <1>6, <1>7, <1>8 DEF EventInv

LEMMA CommitElsewhereStep == ASSUME EventsAssumption, EventInv, NEW p \in Projects, CommitElsewhere(p)
                                      PROVE EventInv'
BY AnnouncedIs DEF EventInv, CommitElsewhere, EventTypes

LEMMA CommitMutationStep == ASSUME EventsAssumption, EventInv, NEW p \in Projects, CommitMutation(p)
                                     PROVE EventInv'
<1>0. /\ mutations[p] # <<>> /\ mutations' = [mutations EXCEPT ![p] = Tail(@)]
      /\ UNCHANGED <<toMain, preloadVars, storeVars, actions, faults>>
  BY DEF CommitMutation
<1>1. mutations' \in [Projects -> Seq(Stages)]
  <2>1. mutations \in [Projects -> Seq(Stages)]
    BY DEF EventInv, EventTypes
  <2>2. Tail(mutations[p]) \in Seq(Stages)
    BY <1>0, <2>1
  <2>. QED
    BY <1>0, <2>1, <2>2
<1>2. CASE UNCHANGED <<sequence, toRenderer>>
  <2>1. EventTypes'
    BY <1>0, <1>1, <1>2 DEF EventInv, EventTypes, preloadVars, storeVars
  <2>. QED
    BY <1>0, <1>2, <2>1 DEF EventInv, OrderInv, SeenInv, OrderAt, RefreshInv, StoreInv, Awaited, IsAwaited,
         preloadVars, storeVars
<1>3. CASE sequence[p] < MaxSequence /\ sequence' = [sequence EXCEPT ![p] = @ + 1] /\ Send(<<Announced(p)>>)
  BY <1>0, <1>1, <1>3, AnnouncedIs DEF EventInv
<1>. QED
  BY <1>2, <1>3 DEF CommitMutation

\* A step that only asks main for something.
LEMMA AskStep ==
    ASSUME EventsAssumption, EventInv, NEW m \in AskedOf, m.kind # "refresh", m.kind = "mutate" => m.at > 0,
           toMain' = Append(toMain, m), UNCHANGED <<mainVars, toRenderer, preloadVars>>,
           active' \in Projects \cup {NoProject}, request' \in Nat,
           state' \in States,
           \/ UNCHANGED <<active, request, state>>
           \/ state'.kind = "loading" /\ state'.of = active' /\ active' \in Projects
    PROVE  EventInv'
<1>0. EventTypes /\ OrderInv /\ (\A p \in Projects : RefreshInv(p)) /\ StoreInv
  BY DEF EventInv
<1>1. /\ toMain' \in Seq(AskedOf) /\ Len(toMain') = Len(toMain) + 1 /\ toMain'[Len(toMain) + 1] = m
      /\ \A i \in 1..Len(toMain) : toMain'[i] = toMain[i]
      /\ Len(toMain) \in Nat /\ Len(toRenderer) \in Nat
  BY <1>0, AppendIs, EventTypesAre DEF EventTypes
<1>2. EventTypes'
  <2>1. \A i \in 1..Len(toMain') : toMain'[i].kind = "mutate" => toMain'[i].at > 0
    BY <1>0, <1>1 DEF EventTypes
  <2>. QED
    BY <1>0, <1>1, <2>1 DEF EventTypes, preloadVars, mainVars
<1>3. OrderInv'
  BY <1>0, SMTT(60) DEF OrderInv, SeenInv, OrderAt, preloadVars, mainVars
<1>4. ASSUME NEW q \in Projects PROVE RefreshInv(q)'
  <2>1. \A i \in 1..Len(toMain') : IsRefresh(toMain'[i], q) => i + 0 \in 1..Len(toMain)
          /\ IsRefresh(toMain[i + 0], q)
    BY <1>1 DEF IsRefresh
  <2>2. \A i \in 1..Len(toRenderer') : IsRefresh(toRenderer'[i], q)
                                       => i + 0 \in 1..Len(toRenderer) /\ IsRefresh(toRenderer[i + 0], q)
    BY <1>1
  <2>3. UNCHANGED <<recovery, toRenderer>> /\ RefreshInv(q)
    BY <1>0 DEF preloadVars
  <2>. QED
    BY <1>0, <1>1, <2>1, <2>2, <2>3, RefreshesStay
<1>5. StoreInv'
  <2>1. CASE UNCHANGED <<active, request, state>>
    <3>1. Awaited => Awaited'
      BY <1>1, <2>1 DEF Awaited, IsAwaited
    <3>. QED
      BY <1>0, <2>1, <3>1 DEF StoreInv, preloadVars
  <2>2. CASE state'.kind = "loading" /\ state'.of = active' /\ active' \in Projects
    BY <2>2 DEF StoreInv
  <2>. QED
    BY <2>1, <2>2
<1>. QED
  BY <1>2, <1>3, <1>4, <1>5 DEF EventInv

LEMMA OpenStep == ASSUME EventsAssumption, EventInv, NEW p \in Projects, Open(p) PROVE EventInv'
<1>. DEFINE m == Message("read", p, request + 1, 0)
<1>1. request + 1 \in Nat /\ 0 \in 0..MaxSequence
  BY EventTypesAre DEF EventInv
<1>2. m \in AskedOf /\ m.kind = "read"
  BY <1>1 DEF Message, AskedOf
<1>3. /\ State("loading", p, 0) \in States
      /\ State("loading", p, 0).kind = "loading" /\ State("loading", p, 0).of = p
  BY <1>1 DEF State, States
<1>4. toMain' = Append(toMain, m) /\ UNCHANGED <<mainVars, toRenderer, preloadVars>> /\ active' = p
      /\ request' = request + 1 /\ state' = State("loading", p, 0)
  BY DEF Open
<1>. HIDE DEF m
<1>. QED
  BY <1>1, <1>2, <1>3, <1>4, AskStep

LEMMA MutateStep == ASSUME EventsAssumption, EventInv, Mutate PROVE EventInv'
<1>. DEFINE m == Message("mutate", state.of, 0, state.at)
<1>1. state.of \in Projects /\ state.at \in 0..MaxSequence /\ state.at > 0
  BY EventTypesAre DEF EventInv, StoreInv, Mutate, States
<1>2. m \in AskedOf /\ m.kind = "mutate" /\ m.at = state.at
  BY <1>1 DEF Message, AskedOf
<1>3. toMain' = Append(toMain, m) /\ UNCHANGED <<mainVars, toRenderer, preloadVars, storeVars>>
  BY DEF Mutate
<1>. HIDE DEF m
<1>. QED
  BY <1>1, <1>2, <1>3, AskStep DEF storeVars, EventInv, EventTypes

LEMMA AnswerReadStep == ASSUME EventsAssumption, EventInv, AnswerRead PROVE EventInv'
<1>. DEFINE asked == toMain[1]
<1>0. EventTypes /\ OrderInv /\ (\A p \in Projects : RefreshInv(p)) /\ StoreInv
  BY DEF EventInv
<1>1. /\ toMain # <<>> /\ toMain' = Tail(toMain) /\ asked.kind \in {"read", "refresh"} /\ Head(toMain) = asked
      /\ UNCHANGED <<mainVars, preloadVars, storeVars>>
  <2>1. toMain # <<>> /\ toMain' = Tail(toMain) /\ Head(toMain).kind \in {"read", "refresh"}
    BY DEF AnswerRead, Requested
  <2>2. Head(toMain) = asked
    BY <1>0, <2>1, TailIs DEF EventTypes
  <2>. QED
    BY <2>1, <2>2 DEF AnswerRead
<1>2. /\ Len(toMain) \in Nat \ {0} /\ toMain' \in Seq(AskedOf) /\ Len(toMain') = Len(toMain) - 1
           /\ asked \in AskedOf
      /\ \A i \in 1..(Len(toMain) - 1) : toMain'[i] = toMain[i + 1]
  BY <1>0, <1>1, TailIs DEF EventTypes
<1>3. PICK x \in {0, sequence[asked.of]} : Send(<<[asked EXCEPT !.at = x]>>)
  BY <1>1 DEF AnswerRead, Failed
<1>. DEFINE m == [asked EXCEPT !.at = x]
<1>4. asked.of \in Projects
  BY <1>2 DEF AskedOf
<1>5. x \in 0..MaxSequence
  BY <1>0, <1>4, EventTypesAre DEF Stages
<1>6. m \in SentOf /\ m.kind = asked.kind /\ m.of = asked.of /\ m.id = asked.id /\ m.at = x
  BY <1>1, <1>2, <1>5 DEF AskedOf, SentOf
<1>7. toRenderer' = toRenderer \o <<m>>
  BY <1>3 DEF Send
<1>. HIDE DEF m
<1>8. /\ toRenderer' = Append(toRenderer, m) /\ toRenderer' \in Seq(SentOf)
           /\ Len(toRenderer') = Len(toRenderer) + 1
      /\ toRenderer'[Len(toRenderer) + 1] = m /\ \A i \in 1..Len(toRenderer) : toRenderer'[i] = toRenderer[i]
      /\ Len(toRenderer) \in Nat
  BY <1>0, <1>6, <1>7, AppendIs DEF EventTypes
<1>9. EventTypes'
  <2>1. ASSUME NEW i \in 1..Len(toMain'), toMain'[i].kind = "mutate" PROVE toMain'[i].at > 0
    <3>1. i + 1 \in 1..Len(toMain) /\ toMain'[i] = toMain[i + 1]
      BY <1>2
    <3>. QED
      BY <1>0, <2>1, <3>1 DEF EventTypes
  <2>. QED
    BY <1>0, <1>1, <1>2, <1>8, <2>1 DEF EventTypes, preloadVars, mainVars, storeVars
<1>10. OrderInv'
  BY <1>0, <1>1, <1>3, <1>6, <1>8, OrderAppend DEF preloadVars, mainVars
<1>11. ASSUME NEW p \in Projects PROVE RefreshInv(p)'
  <2>0. RefreshInv(p) /\ recovery' = recovery
    BY <1>0, <1>1 DEF preloadVars
  <2>1. \A i \in 1..Len(toMain') : IsRefresh(toMain'[i], p) => i + 1 \in 1..Len(toMain)
          /\ IsRefresh(toMain[i + 1], p)
    BY <1>2
  <2>2. CASE IsRefresh(asked, p)
    <3>1. 1 \in 1..Len(toMain)
      BY <1>2
    <3>2. /\ recovery[p].waiting # <<>>
          /\ \A j \in 1..Len(toMain) : IsRefresh(toMain[j], p) => j = 1
          /\ \A j \in 1..Len(toRenderer) : ~IsRefresh(toRenderer[j], p)
      BY <2>0, <2>2, <3>1 DEF RefreshInv
    <3>3. \A i \in 1..Len(toMain') : ~IsRefresh(toMain'[i], p)
      BY <1>2, <2>1, <3>2
    <3>4. \A j \in 1..Len(toRenderer') : IsRefresh(toRenderer'[j], p) => j = Len(toRenderer) + 1
      BY <1>8, <3>2
    <3>. QED
      BY <2>0, <3>2, <3>3, <3>4 DEF RefreshInv
  <2>3. CASE ~IsRefresh(asked, p)
    <3>1. ASSUME NEW i \in 1..Len(toRenderer'), IsRefresh(toRenderer'[i], p)
          PROVE  i + 0 \in 1..Len(toRenderer) /\ IsRefresh(toRenderer[i + 0], p)
      <4>1. i # Len(toRenderer) + 1
        BY <1>6, <1>8, <2>3, <3>1 DEF IsRefresh
      <4>. QED
        BY <1>8, <3>1, <4>1
    <3>2. Len(toMain') \in Nat /\ Len(toRenderer') \in Nat
      BY <1>2, <1>8
    <3>. QED
      BY <1>0, <2>0, <2>1, <3>1, <3>2, RefreshesStay
  <2>. QED
    BY <2>2, <2>3
<1>12. StoreInv'
  <2>1. ASSUME Awaited PROVE Awaited'
    <3>0. UNCHANGED <<active, request>>
      BY <1>1 DEF storeVars
    <3>1. ASSUME NEW i \in 1..Len(toMain), IsAwaited(toMain[i]) PROVE Awaited'
      <4>1. CASE i = 1
        <5>. DEFINE j == Len(toRenderer) + 1
        <5>1. j \in 1..Len(toRenderer') /\ toRenderer'[j] = m
          BY <1>8
        <5>2. m.kind = "read" /\ m.of = active' /\ m.id = request'
          BY <1>6, <3>0, <3>1, <4>1 DEF IsAwaited
        <5>. HIDE DEF j
        <5>. QED
          BY <5>1, <5>2 DEF Awaited, IsAwaited
      <4>2. CASE i # 1
        <5>1. i - 1 \in 1..Len(toMain') /\ toMain'[i - 1] = toMain[i]
          BY <1>2, <4>2
        <5>. QED
          BY <3>0, <3>1, <5>1 DEF Awaited, IsAwaited
      <4>. QED
        BY <4>1, <4>2
    <3>2. ASSUME NEW i \in 1..Len(toRenderer), IsAwaited(toRenderer[i]) PROVE Awaited'
      <4>1. i \in 1..Len(toRenderer') /\ toRenderer'[i] = toRenderer[i]
        BY <1>8
      <4>. QED
        BY <3>0, <3>2, <4>1 DEF Awaited, IsAwaited
    <3>. QED
      BY <2>1, <3>1, <3>2 DEF Awaited
  <2>. QED
    BY <1>0, <1>1, <2>1 DEF StoreInv, storeVars, preloadVars
<1>. QED
  BY <1>9, <1>10, <1>11, <1>12 DEF EventInv

LEMMA EnqueueMutationStep == ASSUME EventsAssumption, EventInv, EnqueueMutation PROVE EventInv'
<1>. DEFINE asked == toMain[1]
<1>0. EventTypes /\ OrderInv /\ (\A p \in Projects : RefreshInv(p)) /\ StoreInv
  BY DEF EventInv
<1>1. /\ toMain # <<>> /\ toMain' = Tail(toMain) /\ asked.kind = "mutate" /\ Head(toMain) = asked
      /\ UNCHANGED <<sequence, toRenderer, preloadVars, storeVars>>
  <2>1. toMain # <<>> /\ toMain' = Tail(toMain) /\ Head(toMain).kind = "mutate"
    BY DEF EnqueueMutation, Requested
  <2>2. Head(toMain) = asked
    BY <1>0, <2>1, TailIs DEF EventTypes
  <2>. QED
    BY <2>1, <2>2 DEF EnqueueMutation
<1>2. /\ Len(toMain) \in Nat \ {0} /\ toMain' \in Seq(AskedOf) /\ Len(toMain') = Len(toMain) - 1
           /\ asked \in AskedOf
      /\ \A i \in 1..(Len(toMain) - 1) : toMain'[i] = toMain[i + 1]
      /\ Len(toRenderer) \in Nat
  BY <1>0, <1>1, TailIs, EventTypesAre DEF EventTypes
<1>3. mutations' \in [Projects -> Seq(Stages)]
  <2>1. asked.of \in Projects /\ asked.at \in Stages
    <3>1. asked.of \in Projects /\ asked.at \in 0..MaxSequence /\ 1 \in 1..Len(toMain)
      BY <1>2 DEF AskedOf
    <3>2. asked.at > 0
      BY <1>0, <1>1, <3>1 DEF EventTypes
    <3>. QED
      BY <1>0, <3>1, <3>2, EventTypesAre DEF Stages
  <2>2. mutations[asked.of] \in Seq(Stages)
    BY <1>0, <2>1 DEF EventTypes
  <2>3. Append(mutations[asked.of], asked.at) \in Seq(Stages)
    BY <2>1, <2>2
  <2>4. mutations' = mutations \/ mutations' = [mutations EXCEPT ![asked.of] = Append(@, asked.at)]
    BY <1>1 DEF EnqueueMutation
  <2>. QED
    BY <1>0, <2>1, <2>3, <2>4 DEF EventTypes
<1>4. EventTypes'
  <2>1. ASSUME NEW i \in 1..Len(toMain'), toMain'[i].kind = "mutate" PROVE toMain'[i].at > 0
    <3>1. i + 1 \in 1..Len(toMain) /\ toMain'[i] = toMain[i + 1]
      BY <1>2
    <3>. QED
      BY <1>0, <2>1, <3>1 DEF EventTypes
  <2>. QED
    BY <1>0, <1>1, <1>2, <1>3, <2>1 DEF EventTypes, preloadVars, storeVars
<1>5. OrderInv'
  BY <1>0, <1>1 DEF OrderInv, SeenInv, OrderAt, preloadVars
<1>6. ASSUME NEW p \in Projects PROVE RefreshInv(p)'
  <2>1. \A i \in 1..Len(toMain') : IsRefresh(toMain'[i], p) => i + 1 \in 1..Len(toMain)
          /\ IsRefresh(toMain[i + 1], p)
    BY <1>2
  <2>2. \A i \in 1..Len(toRenderer') : IsRefresh(toRenderer'[i], p)
                                       => i + 0 \in 1..Len(toRenderer) /\ IsRefresh(toRenderer[i + 0], p)
    BY <1>1, <1>2
  <2>3. UNCHANGED <<recovery, toRenderer>> /\ RefreshInv(p) /\ Len(toMain') \in Nat
    BY <1>0, <1>1, <1>2 DEF preloadVars
  <2>. QED
    BY <1>0, <1>2, <2>1, <2>2, <2>3, RefreshesStay
<1>7. StoreInv'
  <2>1. ASSUME Awaited PROVE Awaited'
    <3>0. UNCHANGED <<active, request, toRenderer>>
      BY <1>1 DEF storeVars
    <3>1. ASSUME NEW i \in 1..Len(toMain), IsAwaited(toMain[i]) PROVE Awaited'
      <4>1. i # 1
        BY <1>1, <3>1 DEF IsAwaited
      <4>2. i - 1 \in 1..Len(toMain') /\ toMain'[i - 1] = toMain[i]
        BY <1>2, <4>1
      <4>. QED
        BY <3>0, <3>1, <4>2 DEF Awaited, IsAwaited
    <3>. QED
      BY <2>1, <3>0, <3>1 DEF Awaited, IsAwaited
  <2>. QED
    BY <1>0, <1>1, <2>1 DEF StoreInv, storeVars, preloadVars
<1>. QED
  BY <1>4, <1>5, <1>6, <1>7 DEF EventInv

\* What an event changes: it is the next one, or it opens a gap.
LEMMA AcceptEventIs ==
    ASSUME EventsAssumption, EventTypes, OrderInv, AcceptEvent
    PROVE  LET m == toRenderer[1]  p == m.of IN
           /\ toRenderer # <<>> /\ toRenderer' = Tail(toRenderer) /\ m.kind = "event" /\ p \in Projects /\ Tells(m, p)
           /\ UNCHANGED <<mainVars, active, actions, faults>> /\ state' = state
           /\ recovery' \in [Projects -> [before : Nat, waiting : Seq(Stages)]]
           /\ \A q \in Projects : q # p => recovery'[q] = recovery[q]
           /\ \/ /\ m.at = last[p] + 1 /\ last' = [last EXCEPT ![p] = m.at]
                      /\ recovery'[p].waiting = recovery[p].waiting
                 /\ IF p = active THEN request' = request + 1
                      /\ toMain' = Append(toMain, Message("read", p, request', 0))
                                  ELSE request' = request /\ toMain' = toMain
              \/ /\ last[p] = 0 /\ last' = last /\ recovery'[p].waiting = Append(recovery[p].waiting, m.at)
                 /\ request' = request
                 /\ toMain' = IF recovery[p].waiting = <<>> THEN Append(toMain,
                      Message("refresh", p, 0, 0)) ELSE toMain
<1>. DEFINE m == toRenderer[1]  p == m.of  w == recovery[p].waiting
            stream == Accept([last |-> last[p], events |-> 0, waiting |-> w], m.at)
            refreshes == Refreshes(p, stream)
            rec == [before |-> IF refreshes = <<>> THEN recovery[p].before ELSE last[p],
              waiting |-> stream.waiting]
<1>1. toRenderer # <<>> /\ Head(toRenderer).kind = "event" /\ toRenderer' = Tail(toRenderer) /\ Head(toRenderer) = m
  <2>1. toRenderer # <<>> /\ Head(toRenderer).kind = "event" /\ toRenderer' = Tail(toRenderer)
    BY DEF AcceptEvent, Received
  <2>. QED
    BY <2>1, TailIs DEF EventTypes
<1>2. m.kind = "event" /\ p \in Projects /\ Tells(m, p) /\ m.at > last[p] /\ (last[p] > 0 => m.at = last[p] + 1)
  BY <1>1, NextEvent
<1>3. /\ last' = [last EXCEPT ![p] = stream.last] /\ recovery' = [recovery EXCEPT ![p] = rec]
      /\ Notify(p, <<>>, stream.events, refreshes) /\ UNCHANGED <<mainVars, active, actions, faults>>
  BY <1>1 DEF AcceptEvent
<1>4. /\ m.at \in Nat /\ m.at \in Stages /\ last[p] \in Nat /\ w \in Seq(Stages) /\ recovery[p].before \in Nat
      /\ recovery \in [Projects -> [before : Nat, waiting : Seq(Stages)]]
           /\ last \in [Projects -> 0..MaxSequence]
  <2>1. Len(toRenderer) \in Nat \ {0}
    BY <1>1, TailIs DEF EventTypes
  <2>2. m.at \in Nat /\ m.at > 0 /\ m \in SentOf /\ last[p] \in Nat
          /\ recovery[p] \in [before : Nat, waiting : Seq(Stages)]
    BY <1>2, <2>1, EventTypesAre DEF Tells
  <2>3. m.at \in Stages
    BY <2>2, EventTypesAre DEF SentOf, Stages
  <2>. QED
    BY <2>2, <2>3 DEF EventTypes
<1>5. /\ m.at = last[p] + 1 => stream.last = m.at /\ stream.events = 1 /\ stream.waiting = w
      /\ m.at > last[p] + 1 => stream.last = last[p] /\ stream.events = 0 /\ stream.waiting = Append(w, m.at)
  <2>1. CASE m.at = last[p] + 1
    <3>1. ~(m.at <= last[p])
      BY <1>4, <2>1
    <3>2. stream = [[last |-> last[p], events |-> 0, waiting |-> w] EXCEPT !.last = m.at, !.events = @ + 1]
      BY <2>1, <3>1 DEF Accept
    <3>. DEFINE x == m.at  l == last[p]
    <3>3. stream = [[last |-> l, events |-> 0, waiting |-> w] EXCEPT !.last = x, !.events = @ + 1]
      BY <3>2
    <3>. HIDE DEF stream, x, l, w
    <3>4. stream.last = x /\ stream.events = 1 /\ stream.waiting = w
      BY <3>3
    <3>. QED
      BY <1>4, <2>1, <3>4 DEF x, l
  <2>2. CASE m.at > last[p] + 1
    <3>1. ~(m.at <= last[p]) /\ m.at # last[p] + 1
      BY <1>4, <2>2
    <3>2. stream = [[last |-> last[p], events |-> 0, waiting |-> w] EXCEPT !.waiting = Append(@, m.at)]
      BY <3>1 DEF Accept
    <3>. QED
      BY <3>1, <3>2
  <2>. QED
    BY <2>1, <2>2
<1>6. refreshes = IF stream.waiting # <<>> /\ w = <<>> THEN <<Message("refresh", p, 0, 0)>> ELSE <<>>
  BY DEF Refreshes
<1>. DEFINE none == <<>>
<1>7. none = <<>> /\ Len(none) = 0
  OBVIOUS
<1>. HIDE DEF stream, refreshes, none
<1>8. stream.events \in 0..1 /\ Notify(p, none, stream.events, refreshes)
  BY <1>2, <1>3, <1>4, <1>5, <1>7
<1>9. refreshes = <<>> \/ (stream.events = 0 /\ refreshes = <<Message("refresh", p, 0, 0)>>)
  BY <1>2, <1>4, <1>5, <1>6
<1>10. /\ toMain' = IF refreshes # <<>> THEN Append(toMain, Message("refresh", p, 0, 0))
                    ELSE IF stream.events = 1
                      /\ p = active THEN Append(toMain, Message("read", p, request', 0)) ELSE toMain
       /\ request' = IF p = active THEN request + Len(none) + stream.events ELSE request
       /\ state' = IF p = active /\ none # <<>> THEN State("ready", p, none[1]) ELSE state
  BY <1>2, <1>7, <1>8, <1>9, NotifyIs
<1>11. rec.waiting = stream.waiting /\ (rec.before = recovery[p].before \/ rec.before = last[p])
       /\ rec = [before |-> rec.before, waiting |-> rec.waiting]
  OBVIOUS
<1>. HIDE DEF rec
<1>12. request \in Nat
  BY EventTypesAre
<1>13. stream.waiting \in Seq(Stages) /\ (stream.waiting = <<>> => w = <<>>)
  <2>. DEFINE x == m.at
  <2>1. x \in Stages /\ w \in Seq(Stages) /\ (x = last[p] + 1 \/ x > last[p] + 1)
    BY <1>2, <1>4
  <2>2. stream.waiting = w \/ stream.waiting = Append(w, x)
    BY <1>5, <2>1
  <2>. HIDE DEF x, w
  <2>3. Append(w, x) \in Seq(Stages)
    BY <2>1
  <2>4. Append(w, x) # <<>>
    <3>1. Len(Append(w, x)) = Len(w) + 1 /\ Len(w) \in Nat
      BY <2>1, AppendIs
    <3>2. Len(<<>>) = 0
      OBVIOUS
    <3>. QED
      BY <3>1, <3>2
  <2>. QED
    BY <2>1, <2>2, <2>3, <2>4
<1>14. rec \in [before : Nat, waiting : Seq(Stages)]
  BY <1>4, <1>11, <1>13
<1>15. /\ recovery' \in [Projects -> [before : Nat, waiting : Seq(Stages)]]
            /\ recovery'[p].waiting = stream.waiting
       /\ \A q \in Projects : q # p => recovery'[q] = recovery[q]
  BY <1>2, <1>3, <1>4, <1>11, <1>14
<1>16. CASE m.at = last[p] + 1
  <2>1. refreshes = <<>> /\ stream.last = m.at /\ stream.events = 1 /\ stream.waiting = w
    BY <1>5, <1>6, <1>16
  <2>2. IF p = active THEN request' = request + 1 /\ toMain' = Append(toMain, Message("read", p, request', 0))
                      ELSE request' = request /\ toMain' = toMain
    BY <1>7, <1>10, <1>12, <2>1
  <2>. QED
    BY <1>1, <1>2, <1>3, <1>7, <1>10, <1>15, <1>16, <2>1, <2>2
<1>17. CASE m.at # last[p] + 1
  <2>1. stream.last = last[p] /\ stream.events = 0 /\ stream.waiting = Append(w, m.at) /\ last[p] = 0
    BY <1>2, <1>4, <1>5, <1>17
  <2>2. Append(w, m.at) # <<>>
    <3>. DEFINE x == m.at
    <3>1. x \in Stages /\ w \in Seq(Stages)
      BY <1>4
    <3>. HIDE DEF x, w
    <3>2. Append(w, x) # <<>>
      BY <3>1
    <3>. QED
      BY <3>2 DEF x
  <2>3. refreshes = IF w = <<>> THEN <<Message("refresh", p, 0, 0)>> ELSE <<>>
    BY <1>6, <2>1, <2>2
  <2>4. toMain' = IF w = <<>> THEN Append(toMain, Message("refresh", p, 0, 0)) ELSE toMain
    BY <1>10, <2>1, <2>3
  <2>5. request' = request /\ last' = last
    BY <1>3, <1>4, <1>7, <1>10, <1>12, <2>1
  <2>. QED
    BY <1>1, <1>2, <1>3, <1>7, <1>10, <1>15, <2>1, <2>4, <2>5
<1>. QED
  BY <1>16, <1>17

\* The queue to the renderer without its first message.
LEMMA ReceivedIs ==
    ASSUME EventTypes, toRenderer # <<>>, toRenderer' = Tail(toRenderer)
    PROVE  /\ Len(toRenderer) \in Nat \ {0} /\ toRenderer' \in Seq(SentOf)
                /\ Len(toRenderer') = Len(toRenderer) - 1
           /\ Head(toRenderer) = toRenderer[1] /\ toRenderer[1] \in SentOf /\ 1 \in 1..Len(toRenderer)
           /\ \A i \in 1..(Len(toRenderer) - 1) : toRenderer'[i] = toRenderer[i + 1]
           /\ \A i \in 2..Len(toRenderer) : i - 1 \in 1..Len(toRenderer') /\ toRenderer'[i - 1] = toRenderer[i]
           /\ \A i \in 1..Len(toRenderer') : i + 1 \in 1..Len(toRenderer) /\ toRenderer'[i] = toRenderer[i + 1]
<1>1. /\ Len(toRenderer) \in Nat \ {0} /\ toRenderer' \in Seq(SentOf) /\ Len(toRenderer') = Len(toRenderer) - 1
      /\ Head(toRenderer) = toRenderer[1] /\ toRenderer[1] \in SentOf
      /\ \A i \in 1..(Len(toRenderer) - 1) : toRenderer'[i] = toRenderer[i + 1]
  BY TailIs DEF EventTypes
<1>2. ASSUME NEW i \in 2..Len(toRenderer) PROVE i - 1 \in 1..Len(toRenderer')
               /\ toRenderer'[i - 1] = toRenderer[i]
  <2>1. i - 1 \in 1..(Len(toRenderer) - 1) /\ (i - 1) + 1 = i
    BY <1>1
  <2>. QED
    BY <1>1, <2>1
<1>. QED
  BY <1>1, <1>2

\* A read whose answer counts stays on its way while others are received.
LEMMA AwaitedStays ==
    ASSUME EventTypes, toRenderer # <<>>, toRenderer' = Tail(toRenderer), UNCHANGED <<active, request>>,
           ~IsAwaited(toRenderer[1]), Awaited, toMain' = toMain
             \/ (\E m \in AskedOf : toMain' = Append(toMain, m))
    PROVE  Awaited'
<1>1. /\ \A i \in 1..Len(toMain) : toMain'[i] = toMain[i]
      /\ Len(toMain) \in Nat /\ Len(toMain') \in Nat /\ Len(toMain) <= Len(toMain')
  <2>0. toMain \in Seq(AskedOf)
    BY DEF EventTypes
  <2>1. CASE toMain' = toMain
    BY <2>0, <2>1
  <2>2. ASSUME NEW m \in AskedOf, toMain' = Append(toMain, m)
        PROVE  /\ \A i \in 1..Len(toMain) : toMain'[i] = toMain[i]
               /\ Len(toMain) \in Nat /\ Len(toMain') \in Nat /\ Len(toMain) <= Len(toMain')
    BY <2>0, <2>2, AppendIs
  <2>. QED
    BY <2>1, <2>2
<1>2. ASSUME NEW i \in 1..Len(toMain), IsAwaited(toMain[i]) PROVE Awaited'
  <2>1. i \in 1..Len(toMain') /\ toMain'[i] = toMain[i]
    BY <1>1
  <2>. QED
    BY <1>2, <2>1 DEF Awaited, IsAwaited
<1>3. ASSUME NEW i \in 1..Len(toRenderer), IsAwaited(toRenderer[i]) PROVE Awaited'
  <2>1. i \in 2..Len(toRenderer)
    BY <1>3, ReceivedIs
  <2>2. i - 1 \in 1..Len(toRenderer') /\ toRenderer'[i - 1] = toRenderer[i]
    BY <2>1, ReceivedIs
  <2>. QED
    BY <1>3, <2>2 DEF Awaited, IsAwaited
<1>. QED
  BY <1>2, <1>3 DEF Awaited

\* A read or a refresh asked of main.
LEMMA ToMainGrows ==
    ASSUME EventTypes, toMain' = toMain \/ (\E x \in AskedOf : x.kind # "mutate" /\ toMain' = Append(toMain, x))
    PROVE  /\ toMain' \in Seq(AskedOf) /\ Len(toMain') \in Nat /\ Len(toMain) \in Nat
           /\ \A i \in 1..Len(toMain') : toMain'[i].kind = "mutate" => toMain'[i].at > 0
<1>0. toMain \in Seq(AskedOf) /\ \A i \in 1..Len(toMain) : toMain[i].kind = "mutate" => toMain[i].at > 0
  BY DEF EventTypes
<1>1. CASE toMain' = toMain
  BY <1>0, <1>1
<1>2. ASSUME NEW x \in AskedOf, x.kind # "mutate", toMain' = Append(toMain, x)
      PROVE  /\ toMain' \in Seq(AskedOf) /\ Len(toMain') \in Nat /\ Len(toMain) \in Nat
             /\ \A i \in 1..Len(toMain') : toMain'[i].kind = "mutate" => toMain'[i].at > 0
  <2>1. /\ toMain' \in Seq(AskedOf) /\ Len(toMain') = Len(toMain) + 1 /\ Len(toMain) \in Nat
             /\ toMain'[Len(toMain) + 1] = x
        /\ \A i \in 1..Len(toMain) : toMain'[i] = toMain[i]
    BY <1>0, <1>2, AppendIs
  <2>2. ASSUME NEW i \in 1..Len(toMain'), toMain'[i].kind = "mutate" PROVE toMain'[i].at > 0
    <3>1. i # Len(toMain) + 1
      BY <1>2, <2>1, <2>2
    <3>2. i \in 1..Len(toMain)
      BY <2>1, <3>1
    <3>. QED
      BY <1>0, <2>1, <2>2, <3>2
  <2>. QED
    BY <2>1, <2>2
<1>. QED
  BY <1>1, <1>2

\* Refreshes of a Project that asks for none keep their place.
LEMMA NoNewRefresh ==
    ASSUME EventsAssumption, EventTypes, NEW p \in Projects, RefreshInv(p),
           toRenderer # <<>>, toRenderer' = Tail(toRenderer),
           toMain' = toMain \/ (\E x \in AskedOf : ~IsRefresh(x, p) /\ toMain' = Append(toMain, x)),
           recovery[p].waiting # <<>> => recovery'[p].waiting # <<>>
    PROVE  RefreshInv(p)'
<1>0. toMain \in Seq(AskedOf) /\ Len(toMain) \in Nat
  BY EventTypesAre DEF EventTypes
<1>1. /\ Len(toMain') \in Nat
      /\ \A i \in 1..Len(toMain') : IsRefresh(toMain'[i], p) => i + 0 \in 1..Len(toMain)
           /\ IsRefresh(toMain[i + 0], p)
  <2>1. CASE toMain' = toMain
    BY <1>0, <2>1
  <2>2. ASSUME NEW x \in AskedOf, ~IsRefresh(x, p), toMain' = Append(toMain, x)
        PROVE  /\ Len(toMain') \in Nat
               /\ \A i \in 1..Len(toMain') : IsRefresh(toMain'[i], p) => i + 0 \in 1..Len(toMain)
                    /\ IsRefresh(toMain[i + 0], p)
    <3>1. /\ Len(toMain') = Len(toMain) + 1 /\ toMain'[Len(toMain) + 1] = x
          /\ \A i \in 1..Len(toMain) : toMain'[i] = toMain[i]
      BY <1>0, <2>2, AppendIs
    <3>2. ASSUME NEW i \in 1..Len(toMain'), IsRefresh(toMain'[i], p)
          PROVE  i + 0 \in 1..Len(toMain) /\ IsRefresh(toMain[i + 0], p)
      <4>1. i # Len(toMain) + 1
        BY <2>2, <3>1, <3>2
      <4>2. i \in 1..Len(toMain) /\ i + 0 = i
        BY <1>0, <3>1, <4>1
      <4>. QED
        BY <3>1, <3>2, <4>2
    <3>. QED
      BY <1>0, <3>1, <3>2
  <2>. QED
    BY <2>1, <2>2
<1>2. /\ Len(toRenderer') \in Nat
      /\ \A i \in 1..Len(toRenderer') : IsRefresh(toRenderer'[i], p)
                                        => i + 1 \in 1..Len(toRenderer) /\ IsRefresh(toRenderer[i + 1], p)
  BY ReceivedIs
<1>. QED
  BY <1>1, <1>2, RefreshesStay

LEMMA AcceptEventStep == ASSUME EventsAssumption, EventInv, AcceptEvent PROVE EventInv'
<1>. DEFINE m == toRenderer[1]  p == m.of  w == recovery[p].waiting
            Next1 == /\ m.at = last[p] + 1 /\ last' = [last EXCEPT ![p] = m.at]
                          /\ recovery'[p].waiting = recovery[p].waiting
                     /\ IF p = active THEN request' = request + 1
                          /\ toMain' = Append(toMain, Message("read", p, request', 0))
                                      ELSE request' = request /\ toMain' = toMain
            Gap == /\ last[p] = 0 /\ last' = last /\ recovery'[p].waiting = Append(recovery[p].waiting, m.at)
                   /\ request' = request
                   /\ toMain' = IF recovery[p].waiting = <<>> THEN Append(toMain,
                        Message("refresh", p, 0, 0)) ELSE toMain
<1>0. EventTypes /\ OrderInv /\ (\A q \in Projects : RefreshInv(q)) /\ StoreInv
  BY DEF EventInv
<1>1. /\ toRenderer # <<>> /\ toRenderer' = Tail(toRenderer) /\ m.kind = "event" /\ p \in Projects /\ Tells(m, p)
      /\ UNCHANGED <<mainVars, active, actions, faults>> /\ state' = state
      /\ recovery' \in [Projects -> [before : Nat, waiting : Seq(Stages)]]
      /\ \A q \in Projects : q # p => recovery'[q] = recovery[q]
      /\ Next1 \/ Gap
  BY <1>0, AcceptEventIs
<1>2. UNCHANGED <<sequence, mutations, active, state>>
  BY <1>1 DEF mainVars
<1>3. /\ Len(toRenderer) \in Nat \ {0} /\ toRenderer' \in Seq(SentOf) /\ m \in SentOf
           /\ m.at \in 1..MaxSequence /\ m.at \in Nat /\ m.at > 0
      /\ w \in Seq(Stages) /\ m.at \in Stages /\ last[p] \in Nat /\ Len(w) \in Nat
           /\ last \in [Projects -> 0..MaxSequence]
  <2>1. Len(toRenderer) \in Nat \ {0} /\ toRenderer' \in Seq(SentOf) /\ m \in SentOf
    BY <1>0, <1>1, ReceivedIs
  <2>2. m.at \in 0..MaxSequence /\ MaxSequence \in Nat /\ m.at > 0
    BY <1>0, <1>1, <2>1, EventTypesAre DEF SentOf, Tells
  <2>3. recovery[p] \in [before : Nat, waiting : Seq(Stages)] /\ last[p] \in Nat /\ Len(w) \in Nat
    BY <1>0, <1>1, EventTypesAre
  <2>. QED
    BY <1>0, <2>1, <2>2, <2>3, SMTT(60) DEF Stages, EventTypes
<1>4. request \in Nat /\ 0 \in 0..MaxSequence /\ MaxSequence \in Nat
  BY <1>0, EventTypesAre
<1>. DEFINE read == Message("read", p, request', 0)  refresh == Message("refresh", p, 0, 0)
<1>5. /\ refresh \in AskedOf /\ refresh.kind = "refresh" /\ refresh.of = p
  BY <1>1, <1>4 DEF AskedOf, Message
<1>6. request' \in Nat
  <2>1. request' = request + 1 \/ request' = request
    BY <1>1, Zenon
  <2>. QED
    BY <1>4, <2>1
<1>7. read \in AskedOf /\ read.kind = "read" /\ read.of = p /\ read.id = request'
  BY <1>1, <1>4, <1>6 DEF AskedOf, Message
<1>8. toMain' = toMain \/ (Next1 /\ toMain' = Append(toMain, read))
        \/ (Gap /\ w = <<>> /\ toMain' = Append(toMain, refresh))
  BY <1>1
<1>. HIDE DEF read, refresh
<1>9. EventTypes'
  <2>1. toMain' \in Seq(AskedOf) /\ \A i \in 1..Len(toMain') : toMain'[i].kind = "mutate" => toMain'[i].at > 0
    <3>. HIDE DEF Next1, Gap
    <3>. QED
      BY <1>0, <1>5, <1>7, <1>8, ToMainGrows
  <2>2. last' \in [Projects -> 0..MaxSequence]
    <3>1. m.at \in 0..MaxSequence
      BY <1>3
    <3>2. last' = last \/ last' = [last EXCEPT ![p] = m.at]
      BY <1>1
    <3>. HIDE DEF m, p
    <3>. QED
      BY <1>3, <3>1, <3>2
  <2>. QED
    BY <1>0, <1>1, <1>2, <1>3, <1>6, <2>1, <2>2 DEF EventTypes
<1>10. OrderInv'
  <2>1. ASSUME NEW q \in Projects
        PROVE  \/ last'[q] = last[q] /\ (~(m.kind = "event" /\ m.of = q) \/ last[q] = 0)
               \/ last'[q] = m.at /\ Tells(m, q)
    BY <1>1, <1>3
  <2>2. ASSUME NEW q \in Projects, NEW k \in 1..Len(recovery'[q].waiting)
        PROVE  \/ \E l \in 1..Len(recovery[q].waiting) : recovery'[q].waiting[k] = recovery[q].waiting[l]
               \/ recovery'[q].waiting[k] = m.at /\ Tells(m, q)
    <3>1. CASE recovery'[q].waiting = recovery[q].waiting
      BY <2>2, <3>1
    <3>2. CASE q = p /\ recovery'[p].waiting = Append(w, m.at)
      <4>. DEFINE v == recovery'[p].waiting  x == m.at
      <4>1. x \in Stages /\ w \in Seq(Stages) /\ v = Append(w, x)
        BY <1>3, <3>2
      <4>. HIDE DEF v, x, w
      <4>2. Len(v) = Len(w) + 1 /\ v[Len(w) + 1] = x /\ (\A l \in 1..Len(w) : v[l] = w[l]) /\ Len(w) \in Nat
        BY <4>1, AppendIs
      <4>3. k \in 1..(Len(w) + 1)
        BY <2>2, <3>2, <4>2 DEF v
      <4>4. CASE k = Len(w) + 1
        BY <1>1, <3>2, <4>2, <4>4 DEF v, x
      <4>5. CASE k # Len(w) + 1
        <5>1. k \in 1..Len(w)
          BY <4>2, <4>3, <4>5
        <5>. QED
          BY <3>2, <4>2, <5>1 DEF v, w
      <4>. QED
        BY <4>4, <4>5
    <3>. QED
      BY <1>1, <3>1, <3>2
  <2>. QED
    BY <1>0, <1>1, <1>2, <2>1, <2>2, OrderTail
<1>11. ASSUME NEW q \in Projects PROVE RefreshInv(q)'
  <2>1. CASE q = p /\ Gap /\ w = <<>>
    <3>1. toMain' = Append(toMain, refresh) /\ recovery'[p].waiting = Append(w, m.at)
      BY <2>1 DEF refresh
    <3>2. recovery'[p].waiting # <<>>
      <4>. DEFINE x == m.at
      <4>1. x \in Stages /\ w \in Seq(Stages)
        BY <1>3
      <4>. HIDE DEF x, w
      <4>2. Append(w, x) # <<>>
        BY <4>1, SMTT(60)
      <4>. QED
        BY <3>1, <4>2 DEF x
    <3>3. /\ \A i \in 1..Len(toMain) : ~IsRefresh(toMain[i], p)
          /\ \A i \in 1..Len(toRenderer) : ~IsRefresh(toRenderer[i], p)
      BY <1>0, <1>1, <2>1 DEF RefreshInv
    <3>4. /\ Len(toMain') = Len(toMain) + 1 /\ Len(toMain) \in Nat
          /\ \A i \in 1..Len(toMain) : toMain'[i] = toMain[i]
      <4>1. toMain \in Seq(AskedOf)
        BY <1>0 DEF EventTypes
      <4>2. toMain' = Append(toMain, refresh)
        BY <3>1, Zenon
      <4>. HIDE DEF m, p, w
      <4>. QED
        BY <1>5, <4>1, <4>2, AppendIs
    <3>5. \A i \in 1..Len(toMain') : IsRefresh(toMain'[i], p) => i = Len(toMain) + 1
      BY <3>3, <3>4
    <3>6. \A i \in 1..Len(toRenderer') : ~IsRefresh(toRenderer'[i], p)
      BY <1>0, <1>1, <3>3, ReceivedIs
    <3>. QED
      BY <2>1, <3>2, <3>5, <3>6 DEF RefreshInv
  <2>2. CASE ~(q = p /\ Gap /\ w = <<>>)
    <3>1. toMain' = toMain \/ (\E x \in AskedOf : ~IsRefresh(x, q) /\ toMain' = Append(toMain, x))
      <4>. HIDE DEF Next1, Gap
      <4>. QED
        BY <1>5, <1>7, <1>8, <2>2 DEF IsRefresh
    <3>2. ASSUME recovery[q].waiting # <<>> PROVE recovery'[q].waiting # <<>>
      <4>1. CASE recovery'[q].waiting = recovery[q].waiting
        BY <3>2, <4>1
      <4>2. CASE q = p /\ recovery'[p].waiting = Append(w, m.at)
        <5>. DEFINE x == m.at
        <5>1. x \in Stages /\ w \in Seq(Stages)
          BY <1>3
        <5>. HIDE DEF x, w
        <5>2. Append(w, x) # <<>>
          BY <5>1, SMTT(60)
        <5>. QED
          BY <4>2, <5>2 DEF x
      <4>. QED
        BY <1>1, <4>1, <4>2
    <3>. QED
      BY <1>0, <1>1, <3>1, <3>2, NoNewRefresh
  <2>. QED
    BY <2>1, <2>2
<1>12. StoreInv'
  <2>1. CASE p = active /\ Next1
    <3>1. Awaited'
      <4>. DEFINE n == Len(toMain) + 1
      <4>1. toMain' = Append(toMain, read) /\ toMain \in Seq(AskedOf)
        BY <1>0, <2>1 DEF EventTypes, read
      <4>2. n \in 1..Len(toMain') /\ toMain'[n] = read
        BY <1>7, <4>1, AppendIs
      <4>3. toMain'[n].kind = "read" /\ toMain'[n].of = active' /\ toMain'[n].id = request'
        BY <1>2, <1>7, <2>1, <4>2
      <4>. HIDE DEF n
      <4>. QED
        BY <4>2, <4>3 DEF Awaited, IsAwaited
    <3>2. last'[active] > 0
      BY <1>1, <1>3, <2>1
    <3>. QED
      BY <1>0, <1>2, <3>1, <3>2 DEF StoreInv
  <2>2. CASE p = active /\ Gap
    <3>1. ~(state.kind = "ready")
      BY <1>0, <1>3, <2>2 DEF StoreInv
    <3>. QED
      BY <1>0, <1>2, <3>1 DEF StoreInv
  <2>3. CASE p # active
    <3>1. request' = request /\ (active \in Projects => last'[active] = last[active])
      BY <1>1, <1>3, <2>3
    <3>2. toMain' = toMain \/ (\E x \in AskedOf : toMain' = Append(toMain, x))
      <4>. HIDE DEF Next1, Gap
      <4>. QED
        BY <1>5, <1>7, <1>8
    <3>3. ~IsAwaited(m)
      BY <1>1 DEF IsAwaited
    <3>4. Awaited => Awaited'
      <4>. HIDE DEF Next1, Gap
      <4>. QED
        BY <1>0, <1>1, <1>2, <3>1, <3>2, <3>3, AwaitedStays
    <3>. QED
      BY <1>0, <1>2, <3>1, <3>4 DEF StoreInv
  <2>. QED
    BY <1>1, <2>1, <2>2, <2>3
<1>. QED
  BY <1>9, <1>10, <1>11, <1>12 DEF EventInv

\* What the end of a recovery changes: nothing that waited tells of more.
LEMMA EndRecoveryIs ==
    ASSUME EventsAssumption, EventInv, EndRecovery
    PROVE  LET m == toRenderer[1]  p == m.of IN
           /\ toRenderer # <<>> /\ toRenderer' = Tail(toRenderer) /\ IsRefresh(m, p) /\ p \in Projects
                /\ Tells(m, p)
           /\ UNCHANGED <<mainVars, toMain, active, actions, faults>>
           /\ last' = [last EXCEPT ![p] = m.at]
           /\ recovery' = [recovery EXCEPT ![p] = [before |-> m.at, waiting |-> <<>>]]
           /\ IF p = active THEN state' = State("ready", p, m.at) /\ request' = request + 1
                            ELSE UNCHANGED <<state, request>>
<1>. DEFINE m == toRenderer[1]  p == m.of  w == recovery[p].waiting
            initial == [last |-> Later(last[p], m.at), events |-> 0, waiting |-> <<>>]
            stream == AcceptAll(initial, Tail(w))
            refreshes == IF stream.waiting = <<>> THEN <<>> ELSE <<Message("refresh", p, 0, 0)>>
<1>0. EventTypes /\ OrderInv /\ (\A q \in Projects : RefreshInv(q)) /\ StoreInv
  BY DEF EventInv
<1>1. toRenderer # <<>> /\ Head(toRenderer).kind = "refresh" /\ toRenderer' = Tail(toRenderer)
  BY DEF EndRecovery, Received
<1>2. /\ Head(toRenderer) = m /\ m.kind = "refresh" /\ m \in SentOf /\ 1 \in 1..Len(toRenderer)
           /\ m.at \in Nat /\ p \in Projects
      /\ last[p] \in Nat /\ recovery[p].before \in Nat
  <2>1. Head(toRenderer) = m /\ m \in SentOf /\ 1 \in 1..Len(toRenderer)
    BY <1>0, <1>1, ReceivedIs
  <2>2. m.at \in Nat /\ p \in Projects
    BY <1>0, <2>1, EventTypesAre
  <2>3. recovery[p] \in [before : Nat, waiting : Seq(Stages)] /\ last[p] \in Nat
    BY <1>0, <2>2, EventTypesAre
  <2>. QED
    BY <1>1, <2>1, <2>2, <2>3
<1>3. /\ Closes(p, m.at)
      /\ last' = [last EXCEPT ![p] = stream.last]
      /\ recovery' = [recovery EXCEPT ![p] = [before |-> stream.last, waiting |-> stream.waiting]]
      /\ Notify(p, <<m.at>>, stream.events, refreshes)
      /\ UNCHANGED <<mainVars, active, actions, faults>>
  BY <1>2 DEF EndRecovery
<1>4. IsRefresh(m, p) /\ Tells(m, p)
  BY <1>2, <1>3, SMTT(60) DEF IsRefresh, Tells, Closes
<1>5. last[p] <= m.at /\ \A k \in 1..Len(w) : w[k] <= m.at
  <2>1. OrderAt(1, p)
    BY <1>0, <1>2, <1>4 DEF OrderInv
  <2>. QED
    BY <2>1 DEF OrderAt
<1>6. w # <<>> /\ w \in Seq(Stages) /\ \A k \in 1..Len(w) : w[k] \in Nat
  <2>1. w # <<>>
    BY <1>0, <1>2, <1>4 DEF RefreshInv
  <2>2. recovery[p] \in [before : Nat, waiting : Seq(Stages)] /\ \A k \in 1..Len(w) : w[k] \in Nat
    BY <1>0, <1>2, EventTypesAre
  <2>. QED
    BY <2>1, <2>2
<1>7. initial.last = m.at /\ initial.events = 0 /\ initial.waiting = <<>>
  BY <1>2, <1>5 DEF Later
<1>. HIDE DEF initial
<1>8. Len(Tail(w)) \in Nat /\ \A k \in 1..Len(Tail(w)) : Tail(w)[k] \in Nat /\ Tail(w)[k] <= initial.last
  <2>. HIDE DEF w
  <2>1. Len(w) \in Nat \ {0} /\ Len(Tail(w)) = Len(w) - 1 /\ \A k \in 1..(Len(w) - 1) : Tail(w)[k] = w[k + 1]
    BY <1>6, TailIs
  <2>2. ASSUME NEW k \in 1..Len(Tail(w)) PROVE Tail(w)[k] \in Nat /\ Tail(w)[k] <= initial.last
    <3>1. k + 1 \in 1..Len(w) /\ Tail(w)[k] = w[k + 1]
      BY <2>1
    <3>. QED
      BY <1>5, <1>6, <1>7, <3>1
  <2>. QED
    BY <2>1, <2>2
<1>9. stream = initial
  <2>. DEFINE t == Tail(w)
  <2>1. stream = AcceptAll(initial, t)
    OBVIOUS
  <2>2. Len(t) \in Nat /\ \A k \in 1..Len(t) : t[k] \in Nat /\ t[k] <= initial.last
    BY <1>8
  <2>3. initial.last \in Nat
    BY <1>2, <1>7
  <2>. HIDE DEF t, stream
  <2>. QED
    BY <2>1, <2>2, <2>3, AcceptOld
<1>. HIDE DEF stream
<1>10. stream.last = m.at /\ stream.events = 0 /\ stream.waiting = <<>>
  BY <1>7, <1>9
<1>11. refreshes = <<>>
  BY <1>10
<1>. DEFINE snapshots == <<m.at>>
<1>12. Len(snapshots) = 1 /\ snapshots # <<>> /\ snapshots[1] = m.at /\ \E at : snapshots = <<at>>
  OBVIOUS
<1>. HIDE DEF refreshes, snapshots
<1>13. Notify(p, snapshots, 0, refreshes)
  BY <1>3, <1>10 DEF snapshots
<1>14. 0 \in 0..1
  OBVIOUS
<1>15. /\ toMain' = toMain
       /\ request' = IF p = active THEN request + Len(snapshots) + 0 ELSE request
       /\ state' = IF p = active /\ snapshots # <<>> THEN State("ready", p, snapshots[1]) ELSE state
  <2>. DEFINE events == 0
  <2>1. events \in 0..1 /\ Notify(p, snapshots, events, refreshes) /\ events = 0
    BY <1>13, <1>14
  <2>. HIDE DEF events
  <2>2. /\ toMain' = IF refreshes # <<>> THEN Append(toMain, Message("refresh", p, 0, 0))
                     ELSE IF events = 1 /\ p = active THEN Append(toMain, Message("read", p, request', 0)) ELSE toMain
        /\ request' = IF p = active THEN request + Len(snapshots) + events ELSE request
        /\ state' = IF p = active /\ snapshots # <<>> THEN State("ready", p, snapshots[1]) ELSE state
    BY <1>0, <1>2, <1>11, <1>12, <2>1, NotifyIs
  <2>3. events # 1
    BY <2>1
  <2>. QED
    BY <1>11, <2>1, <2>2, <2>3
<1>16. request \in Nat
  BY <1>0, EventTypesAre
<1>17. IF p = active THEN state' = State("ready", p, m.at) /\ request' = request + 1 ELSE UNCHANGED <<state, request>>
  BY <1>12, <1>15, <1>16
<1>. QED
  BY <1>1, <1>2, <1>3, <1>4, <1>10, <1>15, <1>17

\* The only refresh of a Project leaves.
LEMMA NoRefreshLeft ==
    ASSUME EventsAssumption, EventTypes, NEW p \in Projects, RefreshInv(p),
           toRenderer # <<>>, toRenderer' = Tail(toRenderer), toMain' = toMain, IsRefresh(toRenderer[1], p)
    PROVE  RefreshInv(p)'
<1>1. 1 \in 1..Len(toRenderer) /\ Len(toRenderer) \in Nat \ {0}
  BY ReceivedIs
<1>2. \A i \in 1..Len(toMain') : ~IsRefresh(toMain'[i], p)
  BY <1>1 DEF RefreshInv
<1>3. ASSUME NEW i \in 1..Len(toRenderer'), IsRefresh(toRenderer'[i], p) PROVE FALSE
  <2>1. i + 1 \in 1..Len(toRenderer) /\ IsRefresh(toRenderer[i + 1], p)
    BY <1>3, ReceivedIs
  <2>2. i + 1 = 1 /\ i \in Nat /\ i > 0
    BY <1>1, <2>1 DEF RefreshInv
  <2>. QED
    BY <2>2
<1>. QED
  BY <1>2, <1>3 DEF RefreshInv

LEMMA EndRecoveryStep == ASSUME EventsAssumption, EventInv, EndRecovery PROVE EventInv'
<1>. DEFINE m == toRenderer[1]  p == m.of  rec == [before |-> m.at, waiting |-> <<>>]
<1>0. EventTypes /\ OrderInv /\ (\A q \in Projects : RefreshInv(q)) /\ StoreInv
  BY DEF EventInv
<1>1. /\ toRenderer # <<>> /\ toRenderer' = Tail(toRenderer) /\ IsRefresh(m, p) /\ p \in Projects /\ Tells(m, p)
      /\ UNCHANGED <<mainVars, toMain, active, actions, faults>>
      /\ last' = [last EXCEPT ![p] = m.at]
      /\ recovery' = [recovery EXCEPT ![p] = rec]
      /\ IF p = active THEN state' = State("ready", p, m.at) /\ request' = request + 1
                       ELSE UNCHANGED <<state, request>>
  BY EndRecoveryIs
<1>2. UNCHANGED <<sequence, mutations, toMain, active>>
  BY <1>1 DEF mainVars
<1>3. toRenderer' \in Seq(SentOf) /\ m \in SentOf /\ m.at \in 0..MaxSequence /\ m.at \in Nat /\ m.at > 0
  <2>1. toRenderer' \in Seq(SentOf) /\ m \in SentOf
    BY <1>0, <1>1, ReceivedIs
  <2>. QED
    BY <1>0, <1>1, <2>1, EventTypesAre DEF SentOf, Tells
<1>4. request \in Nat /\ MaxSequence \in Nat
  BY <1>0, EventTypesAre
<1>5. rec \in [before : Nat, waiting : Seq(Stages)] /\ rec.waiting = <<>>
  <2>1. <<>> \in Seq(Stages)
    OBVIOUS
  <2>. DEFINE L == Seq(Stages)
  <2>. HIDE DEF L
  <2>. QED
    BY <1>3, <2>1 DEF L
<1>. HIDE DEF rec
<1>6. /\ last \in [Projects -> 0..MaxSequence]
           /\ recovery \in [Projects -> [before : Nat, waiting : Seq(Stages)]]
  BY <1>0 DEF EventTypes
<1>7. EventTypes'
  <2>1. last' \in [Projects -> 0..MaxSequence]
          /\ recovery' \in [Projects -> [before : Nat, waiting : Seq(Stages)]]
    BY <1>1, <1>3, <1>5, <1>6
  <2>2. request' \in Nat /\ state' \in States
    <3>1. CASE p = active
      <4>1. State("ready", p, m.at) \in States
        BY <1>1, <1>3 DEF State, States
      <4>. QED
        BY <1>1, <1>4, <3>1, <4>1
    <3>2. CASE p # active
      BY <1>0, <1>1, <3>2 DEF EventTypes
    <3>. QED
      BY <3>1, <3>2
  <2>. QED
    BY <1>0, <1>2, <1>3, <2>1, <2>2 DEF EventTypes
<1>8. OrderInv'
  <2>1. ASSUME NEW q \in Projects
        PROVE  \/ last'[q] = last[q] /\ (~(m.kind = "event" /\ m.of = q) \/ last[q] = 0)
               \/ last'[q] = m.at /\ Tells(m, q)
    BY <1>1, <1>6
  <2>2. ASSUME NEW q \in Projects, NEW k \in 1..Len(recovery'[q].waiting)
        PROVE  \/ \E l \in 1..Len(recovery[q].waiting) : recovery'[q].waiting[k] = recovery[q].waiting[l]
               \/ recovery'[q].waiting[k] = m.at /\ Tells(m, q)
    <3>1. CASE q # p
      BY <1>1, <1>6, <2>2, <3>1
    <3>2. CASE q = p
      BY <1>1, <1>5, <1>6, <2>2, <3>2
    <3>. QED
      BY <3>1, <3>2
  <2>. QED
    BY <1>0, <1>1, <1>2, <2>1, <2>2, OrderTail
<1>9. ASSUME NEW q \in Projects PROVE RefreshInv(q)'
  <2>1. CASE q = p
    BY <1>0, <1>1, <1>2, <2>1, NoRefreshLeft
  <2>2. CASE q # p
    BY <1>0, <1>1, <1>2, <1>6, <2>2, NoNewRefresh
  <2>. QED
    BY <2>1, <2>2
<1>10. StoreInv'
  <2>1. CASE p = active
    BY <1>1, <1>2, <1>3, <1>6, <2>1 DEF StoreInv, State
  <2>2. CASE p # active
    <3>1. UNCHANGED <<state, request>> /\ (active \in Projects => last'[active] = last[active])
      BY <1>1, <1>6, <2>2
    <3>2. ~IsAwaited(m)
      BY <1>1 DEF IsAwaited, IsRefresh
    <3>3. Awaited => Awaited'
      BY <1>0, <1>1, <1>2, <3>1, <3>2, AwaitedStays
    <3>. QED
      BY <1>0, <1>2, <3>1, <3>3 DEF StoreInv
  <2>. QED
    BY <2>1, <2>2
<1>. QED
  BY <1>7, <1>8, <1>9, <1>10 DEF EventInv

LEMMA FailRecoveryStep == ASSUME EventsAssumption, EventInv, FailRecovery PROVE EventInv'
<1>. DEFINE m == toRenderer[1]  p == m.of
<1>0. EventTypes /\ OrderInv /\ (\A q \in Projects : RefreshInv(q)) /\ StoreInv
  BY DEF EventInv
<1>1. toRenderer # <<>> /\ toRenderer' = Tail(toRenderer) /\ Head(toRenderer).kind = "refresh"
  BY DEF FailRecovery, Received
<1>2. Head(toRenderer) = m /\ m \in SentOf /\ toRenderer' \in Seq(SentOf)
  BY <1>0, <1>1, ReceivedIs
<1>3. p \in Projects /\ IsRefresh(m, p)
  BY <1>1, <1>2 DEF SentOf, IsRefresh
<1>4. recovery' = [recovery EXCEPT ![p] = NoRecovery]
        /\ UNCHANGED <<sequence, mutations, toMain, last, active, request, state>>
  BY <1>2 DEF FailRecovery, mainVars, storeVars
<1>5. NoRecovery \in [before : Nat, waiting : Seq(Stages)] /\ NoRecovery.waiting = <<>>
  <2>1. <<>> \in Seq(Stages)
    OBVIOUS
  <2>. DEFINE L == Seq(Stages)
  <2>. HIDE DEF L
  <2>. QED
    BY <2>1 DEF L, NoRecovery
<1>6. recovery \in [Projects -> [before : Nat, waiting : Seq(Stages)]]
  BY <1>0 DEF EventTypes
<1>7. EventTypes'
  <2>1. recovery' \in [Projects -> [before : Nat, waiting : Seq(Stages)]]
    BY <1>3, <1>4, <1>5, <1>6
  <2>. QED
    BY <1>0, <1>2, <1>4, <2>1 DEF EventTypes
<1>8. OrderInv'
  <2>1. ASSUME NEW q \in Projects PROVE last'[q] = last[q] /\ ~(m.kind = "event" /\ m.of = q)
    BY <1>3, <1>4 DEF IsRefresh
  <2>2. ASSUME NEW q \in Projects, NEW k \in 1..Len(recovery'[q].waiting)
        PROVE  \E l \in 1..Len(recovery[q].waiting) : recovery'[q].waiting[k] = recovery[q].waiting[l]
    <3>1. CASE q # p
      BY <1>4, <1>6, <2>2, <3>1
    <3>2. CASE q = p
      BY <1>4, <1>5, <1>6, <2>2, <3>2
    <3>. QED
      BY <3>1, <3>2
  <2>. QED
    BY <1>0, <1>1, <1>4, <2>1, <2>2, OrderTail
<1>9. ASSUME NEW q \in Projects PROVE RefreshInv(q)'
  <2>1. CASE q = p
    BY <1>0, <1>1, <1>3, <1>4, <2>1, NoRefreshLeft
  <2>2. CASE q # p
    BY <1>0, <1>1, <1>4, <1>6, <2>2, NoNewRefresh
  <2>. QED
    BY <2>1, <2>2
<1>10. StoreInv'
  <2>1. ~IsAwaited(m)
    BY <1>3 DEF IsAwaited, IsRefresh
  <2>2. Awaited => Awaited'
    BY <1>0, <1>1, <1>4, <2>1, AwaitedStays
  <2>. QED
    BY <1>0, <1>4, <2>2 DEF StoreInv
<1>. QED
  BY <1>7, <1>8, <1>9, <1>10 DEF EventInv

\* A snapshot that is read tells of no stage beyond the next event's.
LEMMA ReadIsSeen ==
    ASSUME EventsAssumption, EventTypes, OrderInv, toRenderer # <<>>, toRenderer[1].kind = "read",
           last[toRenderer[1].of] > 0, toRenderer[1].at > 0
    PROVE  toRenderer[1].at = last[toRenderer[1].of]
<1>. DEFINE n == Len(toRenderer)  m == toRenderer[1]  p == m.of
<1>1. n \in Nat \ {0} /\ 1 \in 1..n /\ m.at \in Nat /\ p \in Projects /\ Tells(m, p) /\ last[p] \in Nat
        /\ sequence[p] \in Nat
  <2>1. n \in Nat \ {0} /\ 1 \in 1..n
    BY TailIs DEF EventTypes
  <2>. QED
    BY <2>1, EventTypesAre DEF Tells
<1>2. OrderAt(1, p) /\ SeenInv(p)
  BY <1>1 DEF OrderInv
<1>3. last[p] <= m.at /\ m.at <= sequence[p]
  BY <1>2 DEF OrderAt
<1>4. ASSUME m.at # last[p] PROVE FALSE
  <2>1. PICK j \in 1..n : IsEvent(toRenderer[j], p, last[p] + 1)
    BY <1>1, <1>2, <1>3, <1>4 DEF SeenInv
  <2>2. j # 1
    BY <2>1 DEF IsEvent
  <2>3. j \in 2..n /\ Tells(toRenderer[j], p)
    BY <1>1, <2>1, <2>2 DEF IsEvent, Tells
  <2>4. m.at < toRenderer[j].at
    BY <1>2, <2>1, <2>3 DEF OrderAt, IsEvent
  <2>. QED
    BY <1>1, <1>3, <1>4, <2>1, <2>4 DEF IsEvent
<1>. QED
  BY <1>4

LEMMA AnswerStoreStep == ASSUME EventsAssumption, EventInv, AnswerStore PROVE EventInv'
<1>. DEFINE m == toRenderer[1]  p == m.of
<1>0. EventTypes /\ OrderInv /\ (\A q \in Projects : RefreshInv(q)) /\ StoreInv
  BY DEF EventInv
<1>1. toRenderer # <<>> /\ toRenderer' = Tail(toRenderer) /\ Head(toRenderer).kind = "read"
  BY DEF AnswerStore, Received
<1>2. Head(toRenderer) = m /\ m.kind = "read" /\ m \in SentOf /\ toRenderer' \in Seq(SentOf)
  BY <1>0, <1>1, ReceivedIs
<1>3. p \in Projects /\ m.at \in 0..MaxSequence /\ m.at \in Nat /\ last[p] \in Nat /\ MaxSequence \in Nat
  <2>1. p \in Projects /\ m.at \in 0..MaxSequence
    BY <1>2 DEF SentOf
  <2>. QED
    BY <1>0, <2>1, EventTypesAre
<1>4. /\ last' = [last EXCEPT ![p] = Later(@, m.at)]
           /\ UNCHANGED <<sequence, mutations, toMain, recovery, active, request>>
      /\ state' = IF m.id # request \/ p # active THEN state
                  ELSE IF m.at = Failed THEN State("error", p, 0) ELSE State("ready", p, m.at)
  BY <1>2 DEF AnswerStore, mainVars
<1>5. m.at > 0 => last[p] <= m.at
  <2>1. ASSUME m.at > 0 PROVE last[p] <= m.at
    <3>1. Tells(m, p) /\ 1 \in 1..Len(toRenderer)
      BY <1>0, <1>1, <2>1, ReceivedIs DEF Tells
    <3>2. OrderAt(1, p)
      BY <1>0, <1>3, <3>1 DEF OrderInv
    <3>. QED
      BY <3>2 DEF OrderAt
  <2>. QED
    BY <2>1
<1>6. Later(last[p], m.at) = IF m.at > 0 THEN m.at ELSE last[p]
  BY <1>3, <1>5 DEF Later
<1>7. /\ last' = [last EXCEPT ![p] = IF m.at > 0 THEN m.at ELSE last[p]]
           /\ last \in [Projects -> 0..MaxSequence]
      /\ last'[p] = IF m.at > 0 THEN m.at ELSE last[p]
  <2>1. last \in [Projects -> 0..MaxSequence] /\ last' = [last EXCEPT ![p] = Later(last[p], m.at)]
    BY <1>0, <1>4 DEF EventTypes
  <2>. QED
    BY <1>3, <1>6, <2>1
<1>8. EventTypes'
  <2>1. last' \in [Projects -> 0..MaxSequence]
    <3>1. (IF m.at > 0 THEN m.at ELSE last[p]) \in 0..MaxSequence
      BY <1>3, <1>7
    <3>. QED
      BY <1>3, <1>7, <3>1
  <2>2. state' \in States
    <3>1. State("error", p, 0) \in States /\ State("ready", p, m.at) \in States
      BY <1>3 DEF State, States
    <3>. QED
      BY <1>0, <1>4, <3>1 DEF EventTypes
  <2>. QED
    BY <1>0, <1>2, <1>4, <2>1, <2>2 DEF EventTypes
<1>9. OrderInv'
  <2>1. ASSUME NEW q \in Projects
        PROVE  \/ last'[q] = last[q] /\ (~(m.kind = "event" /\ m.of = q) \/ last[q] = 0)
               \/ last'[q] = m.at /\ Tells(m, q)
    <3>1. CASE q = p
      BY <1>2, <1>7, <3>1 DEF Tells
    <3>2. CASE q # p
      BY <1>2, <1>7, <3>2
    <3>. QED
      BY <3>1, <3>2
  <2>. QED
    BY <1>0, <1>1, <1>4, <2>1, OrderTail
<1>10. ASSUME NEW q \in Projects PROVE RefreshInv(q)'
  BY <1>0, <1>1, <1>4, NoNewRefresh
<1>11. StoreInv'
  <2>1. CASE m.id # request \/ p # active
    <3>1. state' = state /\ ~IsAwaited(m)
      BY <1>4, <2>1 DEF IsAwaited
    <3>2. Awaited => Awaited'
      BY <1>0, <1>1, <1>4, <3>1, AwaitedStays
    <3>3. ASSUME state.kind = "ready" PROVE last'[active] = last[active]
      <4>1. CASE p # active
        BY <1>0, <1>7, <3>3, <4>1 DEF StoreInv
      <4>2. CASE p = active
        <5>1. last[p] > 0
          BY <1>0, <3>3, <4>2 DEF StoreInv
        <5>2. m.at > 0 => m.at = last[p]
          BY <1>0, <1>1, <1>2, <5>1, ReadIsSeen
        <5>. QED
          BY <1>7, <4>2, <5>2
      <4>. QED
        BY <4>1, <4>2
    <3>. QED
      BY <1>0, <1>4, <3>1, <3>2, <3>3 DEF StoreInv
  <2>2. CASE ~(m.id # request \/ p # active) /\ m.at = 0
    BY <1>3, <1>4, <2>2 DEF StoreInv, State, Failed
  <2>3. CASE ~(m.id # request \/ p # active) /\ m.at # 0
    BY <1>3, <1>4, <1>7, <2>3 DEF StoreInv, State, Failed
  <2>. QED
    BY <2>1, <2>2, <2>3
<1>. QED
  BY <1>8, <1>9, <1>10, <1>11 DEF EventInv

\* A preload and a store that have seen nothing.
LEMMA NewRenderer ==
    ASSUME EventsAssumption, sequence \in [Projects -> Stages], mutations \in [Projects -> Seq(Stages)],
           toMain = <<>>, toRenderer = <<>>, last = [p \in Projects |-> 0],
           recovery = [p \in Projects |-> NoRecovery],
           active = NoProject, request = 0, state = State("idle", NoProject, 0)
    PROVE  EventInv
<1>0. MaxSequence \in Nat /\ 0 \in 0..MaxSequence
  BY DEF EventsAssumption
<1>1. NoRecovery \in [before : Nat, waiting : Seq(Stages)] /\ NoRecovery.waiting = <<>>
  <2>1. <<>> \in Seq(Stages)
    OBVIOUS
  <2>. DEFINE L == Seq(Stages)
  <2>. HIDE DEF L
  <2>. QED
    BY <2>1 DEF L, NoRecovery
<1>2. State("idle", NoProject, 0) \in States /\ State("idle", NoProject, 0).kind = "idle"
  BY <1>0 DEF State, States
<1>3. toMain \in Seq(AskedOf) /\ toRenderer \in Seq(SentOf) /\ Len(toMain) = 0 /\ Len(toRenderer) = 0
  OBVIOUS
<1>4. recovery \in [Projects -> [before : Nat, waiting : Seq(Stages)]] /\ last \in [Projects -> 0..MaxSequence]
  BY <1>0, <1>1
<1>5. EventTypes
  BY <1>2, <1>3, <1>4 DEF EventTypes
<1>6. OrderInv
  <2>1. ASSUME NEW p \in Projects PROVE SeenInv(p)
    <3>1. sequence[p] \in Nat /\ last[p] = 0 /\ recovery[p].waiting = <<>>
      BY <1>1 DEF Stages
    <3>. QED
      BY <3>1 DEF SeenInv
  <2>. QED
    BY <1>3, <2>1 DEF OrderInv
<1>7. \A p \in Projects : RefreshInv(p)
  BY <1>3 DEF RefreshInv
<1>8. StoreInv
  BY <1>2 DEF StoreInv
<1>. QED
  BY <1>5, <1>6, <1>7, <1>8 DEF EventInv

LEMMA ReplaceRendererStep == ASSUME EventsAssumption, EventInv, ReplaceRenderer PROVE EventInv'
<1>0. MaxSequence \in Nat /\ 0 \in 0..MaxSequence
  BY DEF EventsAssumption
<1>a. /\ sequence' \in [Projects -> Stages] /\ mutations' \in [Projects -> Seq(Stages)]
           /\ toMain' = <<>> /\ toRenderer' = <<>>
      /\ last' = [p \in Projects |-> 0] /\ recovery' = [p \in Projects |-> NoRecovery]
      /\ active' = NoProject /\ request' = 0 /\ state' = State("idle", NoProject, 0)
  BY DEF EventInv, EventTypes, ReplaceRenderer, mainVars
<1>1. NoRecovery \in [before : Nat, waiting : Seq(Stages)] /\ NoRecovery.waiting = <<>>
  <2>1. <<>> \in Seq(Stages)
    OBVIOUS
  <2>. DEFINE L == Seq(Stages)
  <2>. HIDE DEF L
  <2>. QED
    BY <2>1 DEF L, NoRecovery
<1>2. State("idle", NoProject, 0) \in States /\ State("idle", NoProject, 0).kind = "idle"
  BY <1>0 DEF State, States
<1>3. toMain' \in Seq(AskedOf) /\ toRenderer' \in Seq(SentOf) /\ Len(toMain') = 0 /\ Len(toRenderer') = 0
  BY <1>a
<1>4. recovery' \in [Projects -> [before : Nat, waiting : Seq(Stages)]]
        /\ last' \in [Projects -> 0..MaxSequence]
  BY <1>0, <1>1, <1>a
<1>5. EventTypes'
  BY <1>2, <1>3, <1>4, <1>a DEF EventTypes
<1>6. OrderInv'
  <2>1. ASSUME NEW p \in Projects PROVE SeenInv(p)'
    <3>1. sequence'[p] \in Nat /\ last'[p] = 0 /\ recovery'[p].waiting = <<>>
      BY <1>1, <1>a DEF Stages
    <3>. QED
      BY <3>1 DEF SeenInv
  <2>. QED
    BY <1>3, <2>1 DEF OrderInv
<1>7. \A p \in Projects : RefreshInv(p)'
  BY <1>3 DEF RefreshInv
<1>8. StoreInv'
  BY <1>2, <1>a DEF StoreInv
<1>. QED
  BY <1>5, <1>6, <1>7, <1>8 DEF EventInv

LEMMA EventsInitially == ASSUME EventsAssumption, EventsInit PROVE EventInv
<1>1. 1 \in Stages /\ 2 \in Stages
  BY DEF EventsAssumption, Stages
<1>2. sequence \in [Projects -> Stages]
  <2>1. 1..2 \subseteq Stages
    BY <1>1 DEF Stages, EventsAssumption
  <2>. QED
    BY <2>1 DEF EventsInit
<1>3. mutations \in [Projects -> Seq(Stages)]
  BY DEF EventsInit
<1>. QED
  BY <1>2, <1>3, NewRenderer DEF EventsInit

LEMMA EventsStep == ASSUME EventsAssumption, EventInv, [EventsNext]_eventVars PROVE EventInv'
<1>1. CASE UNCHANGED eventVars
  BY <1>1 DEF eventVars, mainVars, preloadVars, storeVars, EventInv, EventTypes, OrderInv, SeenInv, OrderAt,
              RefreshInv, StoreInv, Awaited, IsAwaited
<1>2. ASSUME NEW p \in Projects, CommitElsewhere(p) PROVE EventInv'
  BY <1>2, CommitElsewhereStep
<1>3. ASSUME NEW p \in Projects, CommitMutation(p) PROVE EventInv'
  BY <1>3, CommitMutationStep
<1>4. ASSUME NEW p \in Projects, Open(p) PROVE EventInv'
  BY <1>4, OpenStep
<1>. QED
  BY <1>1, <1>2, <1>3, <1>4, AnswerReadStep, EnqueueMutationStep, AcceptEventStep, EndRecoveryStep,
       FailRecoveryStep,
     AnswerStoreStep, MutateStep, ReplaceRendererStep DEF EventsNext

\* What the invariant says of a quiet store.
LEMMA EventInvShows == ASSUME EventsAssumption, EventInv PROVE EventsTypeOK /\ ShownCatchesUp
<1>0. EventTypes /\ OrderInv /\ StoreInv
  BY DEF EventInv
<1>1. ASSUME Quiet, state.kind = "ready" PROVE state.at = sequence[state.of]
  <2>1. Len(toMain) = 0 /\ Len(toRenderer) = 0
    BY <1>1 DEF Quiet
  <2>2. active \in Projects /\ state.of = active /\ last[active] > 0 /\ state.at = last[active]
    BY <1>0, <1>1, <2>1 DEF StoreInv, Awaited
  <2>3. last[active] \in Nat /\ sequence[active] \in Nat
    BY <1>0, <2>2, EventTypesAre
  <2>4. SeenInv(active)
    BY <1>0, <2>2 DEF OrderInv
  <2>5. ~(last[active] < sequence[active])
    <3>1. ASSUME last[active] < sequence[active] PROVE FALSE
      <4>1. last[active] + 1 \in (last[active] + 1)..sequence[active]
        BY <2>3, <3>1
      <4>. QED
        BY <2>1, <2>2, <2>4, <4>1 DEF SeenInv
    <3>. QED
      BY <3>1
  <2>6. last[active] <= sequence[active]
    BY <2>4 DEF SeenInv
  <2>. QED
    BY <2>2, <2>3, <2>5, <2>6
<1>2. EventsTypeOK
  <2>1. state.kind \in {"idle", "loading", "ready", "error"}
    BY <1>0 DEF EventTypes, States
  <2>. QED
    BY <1>0, <2>1 DEF EventTypes, EventsTypeOK, Stages
<1>. QED
  BY <1>1, <1>2 DEF ShownCatchesUp

\* With nothing on its way, a Project that is shown is shown as last committed.
THEOREM EventsPromiseKept == ASSUME EventsAssumption PROVE EventsSpec => [](EventsTypeOK /\ ShownCatchesUp)
<1>1. EventsInit => EventInv
  BY EventsInitially
<1>2. EventInv /\ [EventsNext]_eventVars => EventInv'
  BY EventsStep
<1>3. EventInv => EventsTypeOK /\ ShownCatchesUp
  BY EventInvShows
<1>. QED
  BY <1>1, <1>2, <1>3, PTL DEF EventsSpec

-----------------------------------------------------------------------------
(***************************************************************************)
(* The types of the four, and the composition: a behaviour of the four     *)
(* beside each other is a behaviour of each.                               *)
(***************************************************************************)
LEMMA UseTypesOK == ASSUME UseInv PROVE UseTypeOK
<1>1. UseTypes /\ PanelInv
  BY DEF UseInv
<1>2. op.kind \in OpKinds /\ op.window \in Nat
  BY <1>1 DEF UseTypes, Ops
<1>3. {player, op.window, seenClosed} \subseteq 0..players
  BY <1>1, <1>2 DEF UseTypes, PanelInv, Over
<1>4. {offline, offDisk, offSafe, release} \subseteq BOOLEAN
  BY <1>1 DEF UseTypes
<1>5. /\ netLine \in Seq(BOOLEAN) /\ netStep \in {"idle", "renamed"} /\ promised \in {"open", "offline", "online"}
      /\ updRun \in {"none", "live", "aborted"}
      /\ updState \in {"idle", "checking", "available", "not_published", "cancelled", "failed"}
      /\ cleaning \in {"done", "running", "broken"}
      /\ ask \in {"none", "op", "control", "sampled", "answered"} /\ poll \in {"none", "sampled", "answered"}
  <2>1. updState \in Updates
    BY <1>1 DEF UseTypes
  <2>. QED
    BY <1>1, <2>1 DEF UseTypes, Updates
<1>6. op.kind \in {"none", "observe", "record", "recording", "cleanup", "load", "evaluate", "command"}
  BY <1>2 DEF OpKinds
<1>. QED
  BY <1>3, <1>4, <1>5, <1>6 DEF UseTypeOK

LEMMA LyricsTypesOK == ASSUME LyricsInv PROVE LyricsTypeOK
<1>1. LyricsTypes
  BY DEF LyricsInv
<1>2. lop.kind \in {"none", "searching", "reading", "saving"} /\ lop.live \in BOOLEAN
  <2>1. CASE lop = NoSearch
    BY <2>1 DEF NoSearch
  <2>2. CASE lop \in Searching
    BY <2>2 DEF Searching
  <2>3. CASE lop \in Reading
    BY <2>3 DEF Reading
  <2>4. CASE lop \in Saving
    BY <2>4 DEF Saving
  <2>. QED
    BY <1>1, <2>1, <2>2, <2>3, <2>4 DEF LyricsTypes
<1>3. owner.project \in LyricsProjects
  BY <1>1 DEF LyricsTypes, Owners
<1>4. \A c \in candidates \cup listed \cup reply : c.song \in Songs /\ c.project \in LyricsProjects
  BY <1>1 DEF LyricsTypes, Records
<1>. QED
  BY <1>1, <1>2, <1>3, <1>4 DEF LyricsTypes, LyricsTypeOK

LEMMA UseTypesKept == UseSpec => []UseTypeOK
  BY UseInitially, UseStep, UseTypesOK, PTL DEF UseSpec

LEMMA LyricsTypesKept == LyricsSpec => []LyricsTypeOK
  BY LyricsInitially, LyricsStep, LyricsTypesOK, PTL DEF LyricsSpec

\* The four parts side by side, as one run checks them: each goes on by its own
\* specification, so that what it promises by itself it promises there.
THEOREM DesktopIsItsParts == Spec => UseSpec /\ LyricsSpec /\ EditingSpec /\ EventsSpec
<1>1. Init => UseInit /\ LyricsInit /\ EditingInit /\ EventsInit
  BY DEF Init
<1>2. [Next]_vars => [UseNext]_useVars
  BY DEF Next, Shows, Edits, UsesNetwork, FindsLyrics, vars
<1>3. [Next]_vars => [LyricsNext]_lyricsVars
  BY DEF Next, Shows, Edits, UsesNetwork, FindsLyrics, vars
<1>4. [Next]_vars => [EditingNext]_editingVars
  BY DEF Next, Shows, Edits, UsesNetwork, FindsLyrics, vars
<1>5. [Next]_vars => [EventsNext]_eventVars
  BY DEF Next, Shows, Edits, UsesNetwork, FindsLyrics, vars
<1>. QED
  BY <1>1, <1>2, <1>3, <1>4, <1>5, PTL DEF Spec, UseSpec, LyricsSpec, EditingSpec, EventsSpec

\* The types of all four, for all four at once.
THEOREM DesktopTypes == ASSUME EventsAssumption PROVE Spec => []TypeOK
<1>1. TypeOK <=> EventsTypeOK /\ EditingTypeOK /\ UseTypeOK /\ LyricsTypeOK
  BY DEF TypeOK
<1>. QED
  BY <1>1, DesktopIsItsParts, UseTypesKept, LyricsTypesKept, EditingPromiseKept, EventsPromiseKept, PTL
=============================================================================
