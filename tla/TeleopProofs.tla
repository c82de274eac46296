----------------------------- MODULE TeleopProofs -----------------------------
(***************************************************************************)
(* What holds of the bridge's watchdog for every timeout, whatever         *)
(* commands come and whenever the process ends; and of a page that drives  *)
(* through the bridge, for any number of commands and events on their way. *)
(***************************************************************************)
EXTENDS Teleop, TLAPS

-----------------------------------------------------------------------------
(* The bridge.                                                             *)

\* Before the bridge is online nothing watches.
WatchedOnline == life \in {"down", "joining"} => watch = "off"

\* A vehicle that moves unwatched, or under a watchdog that will not trip, does so
\* on a command nobody vouches for.
LooseInv ==
    motion = "moving" =>
        /\ life = "down" => loose
        /\ tripped => loose
        /\ beat = Never => loose

\* Only a heartbeat resets a watchdog that has tripped.
TrippedMeansSilent == tripped => beat > Timeout

WatchdogInv == TrippedMeansSilent /\ BridgeTypeOK /\ WatchedOnline /\ LooseInv /\ MovingMeansHeard

-----------------------------------------------------------------------------
LEMMA SaysType ==
    ASSUME NEW queue \in Seq({"safe_mode_entered", "safe_mode_left"}),
           NEW event \in {"safe_mode_entered", "safe_mode_left"}
    PROVE  Says(queue, event) \in Seq({"safe_mode_entered", "safe_mode_left"})
BY DEF Says

LEMMA NeverType == Never \in Nat /\ Overdue \in Nat /\ Overdue < Never /\ Timeout < Overdue
BY TimeoutAssumption DEF Never, Overdue

LEMMA AgeType == 0 \in 0 .. Never /\ Never \in 0 .. Never /\ 0 <= Timeout
BY NeverType, TimeoutAssumption

LEMMA InitWatchdog == BridgeInit => WatchdogInv
<1> SUFFICES ASSUME BridgeInit PROVE WatchdogInv
  OBVIOUS
<1>1. BridgeTypeOK
  <2>1. beat \in 0 .. Never BY AgeType DEF BridgeInit
  <2>2. events \in Seq({"safe_mode_entered", "safe_mode_left"}) BY DEF BridgeInit
  <2>3. QED BY <2>1, <2>2 DEF BridgeInit, BridgeTypeOK, Motions
<1>2. TrippedMeansSilent /\ WatchedOnline /\ LooseInv /\ MovingMeansHeard
  BY DEF BridgeInit, TrippedMeansSilent, WatchedOnline, LooseInv, MovingMeansHeard
<1>3. QED BY <1>1, <1>2 DEF WatchdogInv

LEMMA ProcessStep ==
    ASSUME WatchdogInv,
           Join \/ Announce \/ Cut \/ Mend \/ Disconnected \/ Shutdown \/ Exit \/ Crash
    PROVE  WatchdogInv'
<1> USE TimeoutAssumption, SaysType
    DEF WatchdogInv, TrippedMeansSilent, BridgeTypeOK, WatchedOnline, LooseInv, MovingMeansHeard,
        bridge, Never, Motions, StopMotion
<1>1. CASE Join BY <1>1 DEF Join
<1>2. CASE Announce
  <2>1. BridgeTypeOK' BY <1>2 DEF Announce, Publish
  <2>2. (TrippedMeansSilent /\ WatchedOnline /\ LooseInv /\ MovingMeansHeard)'
    BY <1>2 DEF Announce
  <2>3. QED BY <2>1, <2>2
<1>3. CASE Cut \/ Mend BY <1>3 DEF Cut, Mend
<1>4. CASE Disconnected BY <1>4 DEF Disconnected, Listens
<1>5. CASE Shutdown
  <2>1. BridgeTypeOK' BY <1>5 DEF Shutdown, Publish
  <2>2. (TrippedMeansSilent /\ WatchedOnline /\ LooseInv /\ MovingMeansHeard)'
    BY <1>5 DEF Shutdown
  <2>3. QED BY <2>1, <2>2
<1>6. CASE Exit \/ Crash
  <2>1. Ends BY <1>6 DEF Exit, Crash
  <2>2. BridgeTypeOK' BY <2>1, AgeType DEF Ends
  <2>3. (TrippedMeansSilent /\ WatchedOnline /\ LooseInv /\ MovingMeansHeard)' BY <2>1 DEF Ends
  <2>4. QED BY <2>2, <2>3
<1>7. QED BY <1>1, <1>2, <1>3, <1>4, <1>5, <1>6

LEMMA CommandStep ==
    ASSUME WatchdogInv, Command
    PROVE  WatchdogInv'
<1> USE TimeoutAssumption, SaysType
    DEF WatchdogInv, TrippedMeansSilent, BridgeTypeOK, WatchedOnline, LooseInv, MovingMeansHeard,
        bridge, Never, Motions, StopMotion, Listens
<1>1. CASE Heartbeat
  <2>1. BridgeTypeOK' BY <1>1, AgeType DEF Heartbeat
  <2>2. beat' <= Timeout /\ beat' # Never BY <1>1, NeverType, TimeoutAssumption DEF Heartbeat
  <2>3. (TrippedMeansSilent /\ WatchedOnline /\ LooseInv /\ MovingMeansHeard)' BY <1>1, <2>2 DEF Heartbeat
  <2>4. QED BY <2>1, <2>3
<1>2. CASE EmergencyStop BY <1>2 DEF EmergencyStop
<1>3. CASE ResumeControl
  <2>1. BridgeTypeOK' BY <1>3 DEF ResumeControl, Publish
  <2>2. (TrippedMeansSilent /\ WatchedOnline /\ LooseInv /\ MovingMeansHeard)'
    BY <1>3 DEF ResumeControl
  <2>3. QED BY <2>1, <2>2
<1>4. ASSUME NEW axes \in Motions, Movement(axes) PROVE WatchdogInv'
  <2> USE <1>4 DEF Movement
  <2>1. life # "down" OBVIOUS
  <2>2. CASE axes = "moving" /\ beat > Timeout
    <3>1. loose' = TRUE BY <2>2
    <3>2. BridgeTypeOK' BY <3>1
    <3>3. (TrippedMeansSilent /\ WatchedOnline /\ LooseInv /\ MovingMeansHeard)' BY <3>1
    <3>4. QED BY <3>2, <3>3
  <2>3. CASE ~(axes = "moving" /\ beat > Timeout)
    <3>1. loose' = FALSE BY <2>3
    <3>2. BridgeTypeOK' BY <3>1
    <3>3. axes = "moving" => beat <= Timeout /\ beat # Never /\ ~tripped BY <2>3, NeverType
    <3>4. (TrippedMeansSilent /\ WatchedOnline /\ MovingMeansHeard)' BY <3>1, <3>3
    <3>5. LooseInv' BY <3>1, <3>3
    <3>6. QED BY <3>2, <3>4, <3>5
  <2>4. QED BY <2>2, <2>3
<1>5. QED BY <1>1, <1>2, <1>3, <1>4 DEF Command

LEMMA TimeStep ==
    ASSUME WatchdogInv, Period \/ Watch \/ TakeEvents
    PROVE  WatchdogInv'
<1> USE TimeoutAssumption, SaysType
    DEF WatchdogInv, TrippedMeansSilent, BridgeTypeOK, WatchedOnline, LooseInv, MovingMeansHeard,
        bridge, Never, Overdue, Motions, StopMotion
<1>1. CASE Period BY <1>1 DEF Period
<1>2. CASE Watch
  <2> USE <1>2 DEF Watch
  <2>1. CASE beat # Never /\ ~tripped /\ beat > Timeout
    <3>1. BridgeTypeOK' BY <2>1 DEF Publish
    <3>2. (TrippedMeansSilent /\ WatchedOnline /\ LooseInv /\ MovingMeansHeard)' BY <2>1
    <3>3. QED BY <3>1, <3>2
  <2>2. CASE ~(beat # Never /\ ~tripped /\ beat > Timeout)
    <3>1. UNCHANGED <<life, beat, tripped, motion, loose, events, feigned, unsaid>> BY <2>2
    <3>2. BridgeTypeOK' BY <3>1
    <3>3. (TrippedMeansSilent /\ WatchedOnline /\ LooseInv)' BY <3>1
    <3>4. motion = "moving" /\ ~loose => beat <= Timeout BY <2>2
    <3>5. MovingMeansHeard' BY <3>1, <3>4
    <3>6. QED BY <3>2, <3>3, <3>5
  <2>3. QED BY <2>1, <2>2
<1>3. CASE TakeEvents BY <1>3 DEF TakeEvents
<1>4. QED BY <1>1, <1>2, <1>3

LEMMA StutterStep ==
    ASSUME WatchdogInv, UNCHANGED bridgeVars
    PROVE  WatchdogInv'
BY DEF WatchdogInv, TrippedMeansSilent, BridgeTypeOK, WatchedOnline, LooseInv, MovingMeansHeard,
       bridgeVars, bridge

LEMMA NextWatchdog == WatchdogInv /\ [BridgeNext]_bridgeVars => WatchdogInv'
BY ProcessStep, CommandStep, TimeStep, StutterStep DEF BridgeNext

LEMMA WatchdogAlways == BridgeSpec => []WatchdogInv
BY InitWatchdog, NextWatchdog, PTL DEF BridgeSpec

-----------------------------------------------------------------------------
\* The bridge's variables keep their types, for any timeout.
THEOREM BridgeTypes == BridgeSpec => []BridgeTypeOK
<1>1. WatchdogInv => BridgeTypeOK BY DEF WatchdogInv
<1>2. QED BY <1>1, WatchdogAlways, PTL

\* Whenever the watchdog has looked, a moving vehicle's operator was heard within
\* the timeout, or the vehicle moves on a command taken without a heartbeat
\* (Watchdog._loop, main.py:243-259).
THEOREM MovingIsHeard == BridgeSpec => []MovingMeansHeard
<1>1. WatchdogInv => MovingMeansHeard BY DEF WatchdogInv
<1>2. QED BY <1>1, WatchdogAlways, PTL

-----------------------------------------------------------------------------
(* The page and the bridge.                                                *)

pageVars == <<page, safety, input, wires, missed, excused>>

-----------------------------------------------------------------------------
(* The composition: to the bridge, a page is one who commands and takes    *)
(* events.                                                                 *)

Sentence == {"safe_mode_entered", "safe_mode_left"}

LEMMA TailTaken ==
    ASSUME events \in Seq(Sentence), events # <<>>, events' = Tail(events),
           UNCHANGED <<bridge, motion, loose, feigned, unsaid>>
    PROVE  TakeEvents
<1>1. 1 \in 0 .. Len(events) OBVIOUS
<1>2. Tail(events) = SubSeq(events, 1 + 1, Len(events)) OBVIOUS
<1>3. QED BY <1>1, <1>2 DEF TakeEvents

LEMMA AllTaken ==
    ASSUME events \in Seq(Sentence), events' = <<>>,
           UNCHANGED <<bridge, motion, loose, feigned, unsaid>>
    PROVE  TakeEvents
<1>1. Len(events) \in 0 .. Len(events) OBVIOUS
<1>2. SubSeq(events, Len(events) + 1, Len(events)) = <<>> OBVIOUS
<1>3. QED BY <1>1, <1>2 DEF TakeEvents

\* Every step of the composition is one of the bridge, or none.
LEMMA StepRefines ==
    ASSUME WatchdogInv, [TeleopNext]_teleopVars
    PROVE  [BridgeNext]_bridgeVars
<1> events \in Seq(Sentence) BY DEF WatchdogInv, BridgeTypeOK, Sentence
<1>1. CASE Open \/ Close BY <1>1, AllTaken DEF Open, Close, BridgeNext
<1>2. CASE ReceiveEvent \/ LoseEvent
  BY <1>2, TailTaken DEF ReceiveEvent, LoseEvent, BridgeNext
<1>3. CASE Outage \/ Reconnect \/ Rotate
  BY <1>3 DEF Outage, Reconnect, Rotate
<1>4. CASE PointerDown \/ PointerMove \/ PointerUp
  BY <1>4 DEF PointerDown, PointerMove, PointerUp
<1>5. CASE JoystickTick \/ StickMoves \/ GamepadPoll
  BY <1>5 DEF JoystickTick, StickMoves, GamepadPoll
<1>6. CASE PressStop \/ ConfirmRecovery \/ SendHeartbeat
  BY <1>6 DEF PressStop, ConfirmRecovery, SendHeartbeat
<1>7. ASSUME NEW message \in {"heartbeat", "still", "moving"},
             ReceiveLossy(message) \/ LoseLossy(message)
      PROVE  [BridgeNext]_bridgeVars
  BY <1>7 DEF ReceiveLossy, LoseLossy, BridgeNext, Command, Motions
<1>8. CASE ReceiveReliable \/ LoseReliable
  BY <1>8 DEF ReceiveReliable, LoseReliable, BridgeNext, Command
<1>9. CASE BridgeStep BY <1>9 DEF BridgeStep, BridgeNext
<1>10. CASE UNCHANGED teleopVars BY <1>10 DEF teleopVars
<1>11. QED
  BY <1>1, <1>2, <1>3, <1>4, <1>5, <1>6, <1>7, <1>8, <1>9, <1>10 DEF TeleopNext

\* A page, its channels and its bridge behave, to the vehicle, like a bridge whose
\* commands come from anywhere.
THEOREM TeleopIsBridge == TeleopSpec => BridgeSpec
<1>1. TeleopInit => BridgeInit BY DEF TeleopInit
<1>2. BridgeInit => WatchdogInv BY InitWatchdog
<1>3. WatchdogInv /\ [TeleopNext]_teleopVars => [BridgeNext]_bridgeVars
  BY StepRefines
<1>4. WatchdogInv /\ [BridgeNext]_bridgeVars => WatchdogInv'
  BY NextWatchdog
<1>5. QED BY <1>1, <1>2, <1>3, <1>4, PTL DEF TeleopSpec, BridgeSpec

-----------------------------------------------------------------------------
(* Types.                                                                  *)

PageTypeOK ==
    /\ page \in {"closed", "connected", "reconnecting"}
    /\ safety \in {"unknown", "active", "safe_mode"}
    /\ finger \in BOOLEAN /\ active \in BOOLEAN
    /\ knob \in Motions /\ stick \in Motions
    /\ lossy \in SUBSET {"heartbeat", "still", "moving"}
    /\ reliable \in Seq({"emergency_stop", "resume_control"})

LEMMA ReliableType ==
    ASSUME PageTypeOK
    PROVE  /\ \A message \in {"emergency_stop", "resume_control"} :
                SendReliable(message) => reliable' \in Seq({"emergency_stop", "resume_control"})
           /\ reliable # <<>> => Tail(reliable) \in Seq({"emergency_stop", "resume_control"})
<1>1. reliable \in Seq({"emergency_stop", "resume_control"}) BY DEF PageTypeOK
<1>2. ASSUME NEW message \in {"emergency_stop", "resume_control"}, SendReliable(message)
      PROVE  reliable' \in Seq({"emergency_stop", "resume_control"})
  <2>1. reliable' = Append(reliable, message) \/ reliable' = reliable
    BY <1>2 DEF SendReliable
  <2>2. Append(reliable, message) \in Seq({"emergency_stop", "resume_control"})
    BY <1>1
  <2>3. QED BY <1>1, <2>1, <2>2
<1>3. reliable # <<>> => Tail(reliable) \in Seq({"emergency_stop", "resume_control"})
  BY <1>1
<1>4. QED BY <1>2, <1>3

LEMMA NextPageType ==
    ASSUME PageTypeOK, [TeleopNext]_teleopVars
    PROVE  PageTypeOK'
<1> USE ReliableType DEF PageTypeOK, Motions, input, wires, SendLossy
<1>1. CASE Open \/ Close \/ Outage \/ Reconnect \/ Rotate
  BY <1>1 DEF Open, Close, Outage, Reconnect, Rotate, Blank
<1>2. CASE ReceiveEvent \/ LoseEvent
  BY <1>2 DEF ReceiveEvent, LoseEvent
<1>3. CASE PointerDown \/ PointerMove \/ PointerUp
  BY <1>3 DEF PointerDown, PointerMove, PointerUp
<1>4. CASE JoystickTick \/ StickMoves \/ GamepadPoll
  BY <1>4 DEF JoystickTick, StickMoves, GamepadPoll
<1>5. CASE PressStop \/ ConfirmRecovery \/ SendHeartbeat
  BY <1>5 DEF PressStop, ConfirmRecovery, SendHeartbeat
<1>6. ASSUME NEW message \in {"heartbeat", "still", "moving"},
             ReceiveLossy(message) \/ LoseLossy(message)
      PROVE  PageTypeOK'
  BY <1>6 DEF ReceiveLossy, LoseLossy
<1>7. CASE ReceiveReliable \/ LoseReliable
  BY <1>7 DEF ReceiveReliable, LoseReliable
<1>8. CASE BridgeStep BY <1>8 DEF BridgeStep
<1>9. CASE UNCHANGED teleopVars BY <1>9 DEF teleopVars
<1>10. QED
  BY <1>1, <1>2, <1>3, <1>4, <1>5, <1>6, <1>7, <1>8, <1>9 DEF TeleopNext

\* The variables of page, channels and bridge keep their types.
THEOREM TeleopTypes == TeleopSpec => []TeleopTypeOK
<1>1. TeleopInit => PageTypeOK
  <2>1. <<>> \in Seq({"emergency_stop", "resume_control"}) OBVIOUS
  <2>2. QED BY <2>1 DEF TeleopInit, PageTypeOK, Motions
<1>2. PageTypeOK /\ BridgeTypeOK => TeleopTypeOK BY DEF PageTypeOK, TeleopTypeOK
<1>3. QED BY <1>1, <1>2, NextPageType, TeleopIsBridge, BridgeTypes, PTL DEF TeleopSpec

-----------------------------------------------------------------------------
(* Hands.                                                                  *)

\* With no hand on the controls, and no excuse, the interval is off, and a movement
\* still felt or on its way is followed by the one that ends it.
HandsInv ==
    HandsOff /\ ~excused =>
        /\ ~active
        /\ motion = "moving" \/ "moving" \in lossy => "still" \in lossy

LEMMA InitHands == TeleopInit => HandsInv
BY DEF TeleopInit, BridgeInit, HandsInv

\* The bridge moves the vehicle upon a movement only.
LEMMA OnlyMovementMoves ==
    ASSUME BridgeStep \/ Heartbeat \/ EmergencyStop \/ ResumeControl
    PROVE  motion' = motion \/ motion' = "still"
BY DEF BridgeStep, Heartbeat, EmergencyStop, ResumeControl, Join, Announce, Cut, Mend,
       Disconnected, Shutdown, Exit, Crash, Ends, Period, Watch, StopMotion

LEMMA NextHands ==
    ASSUME HandsInv, [TeleopNext]_teleopVars
    PROVE  HandsInv'
<1> USE DEF HandsInv, HandsOff, input, wires
<1>1. CASE Open \/ Close
  BY <1>1 DEF Open, Close, Blank, SendReliable
<1>2. CASE ReceiveEvent \/ LoseEvent \/ Outage \/ Reconnect \/ Rotate
  BY <1>2 DEF ReceiveEvent, LoseEvent, Outage, Reconnect, Rotate, bridgeVars
<1>3. CASE PointerDown \/ PointerMove
  BY <1>3 DEF PointerDown, PointerMove, bridgeVars
<1>4. CASE PointerUp
  BY <1>4 DEF PointerUp, SendLossy, ActiveControl, bridgeVars
<1>5. CASE JoystickTick
  BY <1>5 DEF JoystickTick, SendLossy, bridgeVars
<1>6. CASE StickMoves
  BY <1>6 DEF StickMoves, bridgeVars, Motions
<1>7. CASE GamepadPoll
  BY <1>7 DEF GamepadPoll, SendLossy, bridgeVars
<1>8. CASE PressStop \/ ConfirmRecovery \/ SendHeartbeat
  BY <1>8 DEF PressStop, ConfirmRecovery, SendHeartbeat, SendLossy, SendReliable, bridgeVars
<1>9. ASSUME NEW message \in {"heartbeat", "still", "moving"}, ReceiveLossy(message)
      PROVE  HandsInv'
  <2>1. CASE message = "heartbeat"
    BY <1>9, <2>1, OnlyMovementMoves DEF ReceiveLossy, Motions
  <2>2. CASE message # "heartbeat"
    BY <1>9, <2>2 DEF ReceiveLossy, Movement
  <2>3. QED BY <2>1, <2>2
<1>10. ASSUME NEW message \in {"heartbeat", "still", "moving"}, LoseLossy(message)
       PROVE  HandsInv'
  BY <1>10 DEF LoseLossy, bridgeVars
<1>11. CASE ReceiveReliable
  BY <1>11, OnlyMovementMoves DEF ReceiveReliable
<1>12. CASE LoseReliable
  BY <1>12 DEF LoseReliable, bridgeVars
<1>13. CASE BridgeStep
  BY <1>13, OnlyMovementMoves DEF BridgeStep
<1>14. CASE UNCHANGED teleopVars
  BY <1>14 DEF teleopVars, bridgeVars
<1>15. QED
  BY <1>1, <1>2, <1>3, <1>4, <1>5, <1>6, <1>7, <1>8, <1>9, <1>10, <1>11, <1>12, <1>13,
     <1>14 DEF TeleopNext

\* With no hand on joystick or gamepad the vehicle stands, but for the cases named
\* at HandsOffStill (Joystick.tsx:109-132, useGamepad.ts:90).
THEOREM HandsOffStands == TeleopSpec => []HandsOffStill
<1>1. HandsInv => HandsOffStill
  BY DEF HandsInv, HandsOffStill, Motions
<1>2. QED BY <1>1, InitHands, NextHands, PTL DEF TeleopSpec

\* The bridge's promise of MovingMeansHeard holds for the vehicle a page drives.
THEOREM DrivenIsHeard == TeleopSpec => []MovingMeansHeard
BY TeleopIsBridge, MovingIsHeard

-----------------------------------------------------------------------------
(* The view.                                                               *)

Distrusted == tripped /\ ~feigned /\ ~unsaid

\* Before the bridge is online nothing has tripped; once the watchdog has, what the page
\* was told last, or is about to be told last, is so, if it could be said at all.
ViewInv ==
    /\ watch = "off" => ~tripped
    /\ page = "closed" => safety = "unknown"
    /\ Distrusted /\ events # <<>> => Last(events) = "safe_mode_entered"
    /\ Distrusted /\ events = <<>> /\ ~missed => safety # "active"

LEMMA InitView == TeleopInit => ViewInv
BY DEF TeleopInit, BridgeInit, ViewInv, Distrusted

LEMMA LastOfTail ==
    ASSUME NEW queue \in Seq(Sentence), queue # <<>>
    PROVE  /\ Tail(queue) # <<>> => Last(Tail(queue)) = Last(queue)
           /\ Tail(queue) = <<>> => Last(queue) = Head(queue)
BY DEF Last

LEMMA SaidLast ==
    ASSUME NEW queue \in Seq(Sentence), NEW event \in Sentence
    PROVE  Says(queue, event) # <<>> /\ Last(Says(queue, event)) = event
<1>1. Len(Append(queue, event)) = Len(queue) + 1 /\ Len(queue) + 1 # 0 OBVIOUS
<1>2. Append(queue, event)[Len(queue) + 1] = event OBVIOUS
<1>3. Append(queue, event) # <<>> BY <1>1
<1>4. Last(Append(queue, event)) = event BY <1>1, <1>2 DEF Last
<1>5. QED BY <1>3, <1>4 DEF Says

\* A queue that the page takes from.
LEMMA QueueTaken ==
    ASSUME ViewInv, events \in Seq(Sentence), events # <<>>, events' = Tail(events),
           UNCHANGED <<watch, tripped, feigned, unsaid>>, page' = "closed" => safety' = "unknown",
           \/ missed'
           \/ safety' = "active" => Head(events) = "safe_mode_left"
    PROVE  ViewInv'
<1>1. Tail(events) # <<>> => Last(Tail(events)) = Last(events) BY LastOfTail
<1>2. Tail(events) = <<>> => Last(events) = Head(events) BY LastOfTail
<1>3. (watch = "off" => ~tripped)' /\ (page = "closed" => safety = "unknown")' BY DEF ViewInv
<1>4. (Distrusted /\ events # <<>> => Last(events) = "safe_mode_entered")'
  BY <1>1 DEF ViewInv, Distrusted
<1>5. (Distrusted /\ events = <<>> /\ ~missed => safety # "active")'
  BY <1>2 DEF ViewInv, Distrusted
<1>6. QED BY <1>3, <1>4, <1>5 DEF ViewInv

LEMMA BridgeView ==
    ASSUME ViewInv, WatchdogInv, BridgeStep
    PROVE  ViewInv'
<1> events \in Seq(Sentence) BY DEF WatchdogInv, BridgeTypeOK, Sentence
<1> USE DEF ViewInv, Distrusted, bridge
<1>1. CASE Join \/ Cut \/ Mend \/ Disconnected \/ Period
  BY <1>1 DEF BridgeStep, Join, Cut, Mend, Disconnected, Period
<1>2. CASE Announce BY <1>2 DEF BridgeStep, Announce, Publish, WatchdogInv, WatchedOnline
<1>3. CASE Exit \/ Crash BY <1>3 DEF BridgeStep, Exit, Crash, Ends
<1>4. CASE Shutdown BY <1>4, SaidLast DEF BridgeStep, Shutdown, Publish, Sentence
<1>5. CASE Watch
  <2>1. watch = "due" /\ watch' = "asleep" BY <1>5 DEF Watch
  <2>2. CASE tripped' # tripped
    BY <1>5, <2>1, <2>2, SaidLast DEF Watch, Publish, Sentence, BridgeStep
  <2>3. CASE tripped' = tripped
    <3>1. UNCHANGED <<events, tripped, feigned, unsaid, page, safety, missed>>
      BY <1>5, <2>3 DEF Watch, BridgeStep
    <3>2. QED BY <2>1, <3>1
  <2>4. QED BY <2>2, <2>3
<1>6. QED BY <1>1, <1>2, <1>3, <1>4, <1>5 DEF BridgeStep

LEMMA NextView ==
    ASSUME ViewInv, WatchdogInv, [TeleopNext]_teleopVars
    PROVE  ViewInv'
<1> events \in Seq(Sentence) BY DEF WatchdogInv, BridgeTypeOK, Sentence
<1>1. CASE Open \/ Close
  BY <1>1 DEF Open, Close, Blank, ViewInv, Distrusted, bridge
<1>2. CASE ReceiveEvent
  BY <1>2, QueueTaken DEF ReceiveEvent, bridge
<1>3. CASE LoseEvent
  <2>1. page' = page /\ safety' = safety BY <1>3 DEF LoseEvent
  <2>2. missed' \/ safety' = "unknown" BY <1>3, <2>1 DEF LoseEvent, ViewInv
  <2>3. page' = "closed" => safety' = "unknown" BY <2>1 DEF ViewInv
  <2>4. QED BY <1>3, <2>2, <2>3, QueueTaken DEF LoseEvent, bridge
<1>4. ASSUME UNCHANGED <<bridgeVars, safety, missed>>, page' # "closed" \/ page' = page
      PROVE  ViewInv'
  BY <1>4 DEF bridgeVars, bridge, ViewInv, Distrusted
<1>5. CASE Outage \/ Reconnect \/ Rotate \/ PointerDown \/ PointerMove \/ PointerUp
  BY <1>4, <1>5 DEF Outage, Reconnect, Rotate, PointerDown, PointerMove, PointerUp
<1>6. CASE JoystickTick \/ StickMoves \/ GamepadPoll \/ PressStop \/ ConfirmRecovery
           \/ SendHeartbeat \/ LoseReliable \/ UNCHANGED teleopVars
  BY <1>4, <1>6 DEF JoystickTick, StickMoves, GamepadPoll, PressStop, ConfirmRecovery,
     SendHeartbeat, LoseReliable, teleopVars
<1>7. ASSUME NEW message \in {"heartbeat", "still", "moving"}, LoseLossy(message)
      PROVE  ViewInv'
  BY <1>4, <1>7 DEF LoseLossy
<1>8. ASSUME NEW message \in {"heartbeat", "still", "moving"}, ReceiveLossy(message)
      PROVE  ViewInv'
  BY <1>8 DEF ReceiveLossy, Heartbeat, Movement, ViewInv, Distrusted, bridge
<1>9. CASE ReceiveReliable
  BY <1>9 DEF ReceiveReliable, EmergencyStop, ResumeControl, Publish, ViewInv, Distrusted, bridge
<1>10. CASE BridgeStep BY <1>10, BridgeView
<1>11. QED
  BY <1>1, <1>2, <1>3, <1>5, <1>6, <1>7, <1>8, <1>9, <1>10 DEF TeleopNext

\* A page that has heard all there was shows control as active only while the bridge
\* has not tripped, could not publish that it has (main.py:316-322), or has feigned to
\* give control back (main.py:365-370).
THEOREM ViewIsHonest == TeleopSpec => []ViewHonest
<1>1. ViewInv => ViewHonest BY DEF ViewInv, ViewHonest, Distrusted
<1>2. BridgeSpec => []WatchdogInv BY WatchdogAlways
<1>3. ViewInv /\ WatchdogInv /\ [TeleopNext]_teleopVars => ViewInv' BY NextView
<1>4. QED BY <1>1, <1>2, <1>3, InitView, TeleopIsBridge, PTL DEF TeleopSpec
===============================================================================
