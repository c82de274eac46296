-------------------------------- MODULE Teleop --------------------------------
(***************************************************************************)
(* A cockpit page that drives an R2 vehicle: the page's joystick, gamepad, *)
(* stop button and recovery dialog, the lossy and the reliable channel,    *)
(* and the bridge of R2Bridge at the other end.                            *)
(***************************************************************************)
EXTENDS R2Bridge

CONSTANT MaxQueue   \* bound on the commands, and on the events, that wait

VARIABLES
    page,      \* "closed", "connected", "reconnecting"
    safety,    \* safetyState
    finger,    \* a finger is down on the joystick
    active,    \* Joystick: active, its 8 Hz interval runs
    knob,      \* Joystick: knob, out of the dead zone or not
    stick,     \* the gamepad's sticks, out of their dead zones or not
    lossy,     \* what is on its way on the lossy channel
    reliable,  \* what is on its way on the reliable channel
    missed,    \* history: the page lost an event, and none has come since
    excused    \* history: why the vehicle may go on with no hand on it

input      == <<finger, active, knob, stick>>
wires      == <<lossy, reliable>>
teleopVars == <<bridgeVars, page, safety, input, wires, missed, excused>>

TeleopInit ==
    /\ BridgeInit
    /\ page = "closed"
    /\ safety = "unknown"
    /\ finger = FALSE
    /\ active = FALSE
    /\ knob = "still"
    /\ stick = "still"
    /\ lossy = {}
    /\ reliable = <<>>
    /\ missed = FALSE
    /\ excused = FALSE

ActiveControl == page = "connected" /\ safety = "active"

-----------------------------------------------------------------------------
(* Sending.  Without a connection what is sent is lost.                    *)

SendLossy(message) ==
    lossy' = IF page = "connected" THEN lossy \cup {message} ELSE lossy

SendReliable(message) ==
    /\ Len(reliable) < MaxQueue
    /\ reliable' = IF page = "connected" THEN Append(reliable, message) ELSE reliable

-----------------------------------------------------------------------------
(* The life of the page.                                                   *)

Blank ==
    /\ safety' = "unknown"
    /\ active' = FALSE
    /\ knob' = "still"

\* A page that joins is sent nothing of what was said before.
Open ==
    /\ page = "closed"
    /\ page' = "connected"
    /\ Blank
    /\ lossy' = lossy \cup {"heartbeat"}
    /\ events' = <<>>
    /\ UNCHANGED <<bridge, motion, loose, feigned, unsaid, finger, stick, reliable, missed, excused>>

\* pagehide: the stop is sent first, if the page is in control.
Close ==
    /\ page # "closed"
    /\ page' = "closed"
    /\ Blank
    /\ IF ActiveControl THEN SendReliable("emergency_stop") ELSE UNCHANGED reliable
    /\ events' = <<>>
    /\ missed' = FALSE
    /\ excused' = TRUE
    /\ UNCHANGED <<bridge, motion, loose, feigned, unsaid, finger, stick, lossy>>

\* The connection breaks off: the joystick and the gamepad are disabled.
Outage ==
    /\ page = "connected"
    /\ page' = "reconnecting"
    /\ UNCHANGED <<bridgeVars, safety, input, wires, missed, excused>>

Reconnect ==
    /\ page = "reconnecting"
    /\ page' = "connected"
    /\ UNCHANGED <<bridgeVars, safety, input, wires, missed, excused>>

\* Turned upright, the page shows another tree: the joystick starts anew.
Rotate ==
    /\ page # "closed"
    /\ active' = FALSE
    /\ knob' = "still"
    /\ excused' = (excused \/ active)
    /\ UNCHANGED <<bridgeVars, page, safety, finger, stick, wires, missed>>

ReceiveEvent_AsNamed ==
    /\ page = "connected"
    /\ events # <<>>
    /\ safety' = Head(events)
    /\ events' = Tail(events)
    /\ missed' = FALSE
    /\ UNCHANGED <<bridge, motion, loose, feigned, unsaid, page, input, wires, excused>>

ReceiveEvent ==
    /\ page = "connected"
    /\ events # <<>>
    /\ safety' = IF Head(events) = "safe_mode_left" THEN "active" ELSE "safe_mode"
    /\ events' = Tail(events)
    /\ missed' = FALSE
    /\ UNCHANGED <<bridge, motion, loose, feigned, unsaid, page, input, wires, excused>>

\* With no page, or one without a connection, an event reaches nobody.
LoseEvent ==
    /\ page # "connected"
    /\ events # <<>>
    /\ events' = Tail(events)
    /\ missed' = (page # "closed")
    /\ UNCHANGED <<bridge, motion, loose, feigned, unsaid, page, safety, input, wires, excused>>

-----------------------------------------------------------------------------
(* Hands.                                                                  *)

PointerDown ==
    /\ ActiveControl
    /\ ~finger
    /\ finger' = TRUE
    /\ active' = TRUE
    /\ knob' \in Motions
    /\ excused' = FALSE
    /\ UNCHANGED <<bridgeVars, page, safety, stick, wires, missed>>

PointerMove ==
    /\ ActiveControl
    /\ finger /\ active
    /\ knob' \in Motions
    /\ UNCHANGED <<bridgeVars, page, safety, finger, active, stick, wires, missed, excused>>

PointerUp_NoZero ==
    /\ finger
    /\ finger' = FALSE
    /\ IF ActiveControl
       THEN active' = FALSE /\ knob' = "still" /\ UNCHANGED excused
       ELSE excused' = TRUE /\ UNCHANGED <<active, knob>>
    /\ UNCHANGED <<bridgeVars, page, safety, stick, wires, missed>>

\* A disabled joystick has no handler: its interval goes on.
PointerUp ==
    /\ finger
    /\ finger' = FALSE
    /\ IF ActiveControl
       THEN /\ active' = FALSE
            /\ knob' = "still"
            /\ SendLossy("still")
            /\ UNCHANGED excused
       ELSE /\ excused' = TRUE
            /\ UNCHANGED <<active, knob, lossy>>
    /\ UNCHANGED <<bridgeVars, page, safety, stick, reliable, missed>>

\* The 8 Hz interval does not ask whether the joystick is enabled.
JoystickTick ==
    /\ page # "closed"
    /\ active
    /\ SendLossy(knob)
    /\ UNCHANGED <<bridgeVars, page, safety, input, reliable, missed, excused>>

StickMoves ==
    /\ stick' \in Motions \ {stick}
    /\ excused' = (stick' = "still")
    /\ UNCHANGED <<bridgeVars, page, safety, finger, active, knob, wires, missed>>

\* In the dead zone nothing is sent.
GamepadPoll ==
    /\ ActiveControl
    /\ stick = "moving"
    /\ SendLossy("moving")
    /\ UNCHANGED <<bridgeVars, page, safety, input, reliable, missed, excused>>

\* The stop button, the gamepad's, or a page that is hidden.
PressStop ==
    /\ page # "closed"
    /\ SendReliable("emergency_stop")
    /\ UNCHANGED <<bridgeVars, page, safety, input, lossy, missed, excused>>

\* The recovery dialog is open in every other state than "active".
ConfirmRecovery ==
    /\ page = "connected"
    /\ safety # "active"
    /\ SendReliable("resume_control")
    /\ UNCHANGED <<bridgeVars, page, safety, input, lossy, missed, excused>>

SendHeartbeat ==
    /\ page = "connected"
    /\ SendLossy("heartbeat")
    /\ UNCHANGED <<bridgeVars, page, safety, input, reliable, missed, excused>>

-----------------------------------------------------------------------------
(* The room.                                                               *)

\* Anything lossy may come in any order.  A movement that comes after the one
\* that was to end it has been overtaken.
ReceiveLossy(message) ==
    /\ message \in lossy
    /\ lossy' = lossy \ {message}
    /\ \/ message = "heartbeat" /\ Heartbeat /\ UNCHANGED excused
       \/ /\ message \in Motions
          /\ Movement(message)
          /\ excused' = (excused \/ (message = "still" /\ "moving" \in lossy))
    /\ UNCHANGED <<page, safety, input, reliable, missed>>

LoseLossy(message) ==
    /\ message \in lossy
    /\ lossy' = lossy \ {message}
    /\ excused' = (excused \/ message = "still")
    /\ UNCHANGED <<bridgeVars, page, safety, input, reliable, missed>>

ReceiveReliable ==
    /\ reliable # <<>>
    /\ reliable' = Tail(reliable)
    /\ IF Head(reliable) = "emergency_stop" THEN EmergencyStop ELSE ResumeControl
    /\ Len(events') <= MaxQueue
    /\ UNCHANGED <<page, safety, input, lossy, missed, excused>>

\* What arrives while no bridge listens, or over its outage, is gone.
LoseReliable ==
    /\ reliable # <<>>
    /\ ~Listens
    /\ reliable' = Tail(reliable)
    /\ UNCHANGED <<bridgeVars, page, safety, input, lossy, missed, excused>>

BridgeStep ==
    /\ \/ Join \/ Announce \/ Cut \/ Mend \/ Disconnected \/ Shutdown \/ Exit \/ Crash
       \/ Period \/ Watch
    /\ Len(events') <= MaxQueue
    /\ UNCHANGED <<page, safety, input, wires, missed, excused>>

TeleopNext ==
    \/ Open \/ Close \/ Outage \/ Reconnect \/ Rotate \/ ReceiveEvent \/ LoseEvent
    \/ PointerDown \/ PointerMove \/ PointerUp \/ JoystickTick \/ StickMoves \/ GamepadPoll
    \/ PressStop \/ ConfirmRecovery \/ SendHeartbeat
    \/ \E message \in {"heartbeat", "still", "moving"} : ReceiveLossy(message) \/ LoseLossy(message)
    \/ ReceiveReliable \/ LoseReliable \/ BridgeStep

TeleopSpec == TeleopInit /\ [][TeleopNext]_teleopVars

-----------------------------------------------------------------------------
(* Properties.                                                             *)

\* The variables keep their types; the page shows only states it knows.
TeleopTypeOK ==
    /\ BridgeTypeOK
    /\ page \in {"closed", "connected", "reconnecting"}
    /\ safety \in {"unknown", "active", "safe_mode"}
    /\ finger \in BOOLEAN /\ active \in BOOLEAN
    /\ knob \in Motions /\ stick \in Motions
    /\ lossy \in SUBSET {"heartbeat", "still", "moving"}
    /\ reliable \in Seq({"emergency_stop", "resume_control"})

\* A page that has heard all there was to hear and shows control as active has a
\* bridge that has not tripped, unless the bridge could not publish what it had to say
\* last (main.py:316-322 logs it and goes on), or gave control back although it had
\* tripped (main.py:365-370 does not look at the watchdog).
ViewHonest ==
    page = "connected" /\ events = <<>> /\ ~missed /\ ~unsaid =>
        (safety = "active" => ~tripped \/ feigned)

HandsOff == ~finger /\ stick = "still"

\* With no hand on joystick or gamepad and no movement on its way the vehicle of an
\* open page stands, unless the movement that was to stop it was never sent (the
\* gamepad in its dead zone, useGamepad.ts:90; a joystick disabled or unmounted
\* during the drag, Joystick.tsx:126), was lost, or was overtaken.
HandsOffStill ==
    page # "closed" /\ HandsOff /\ lossy \cap Motions = {} /\ motion = "moving" => excused
===============================================================================
