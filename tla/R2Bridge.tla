------------------------------- MODULE R2Bridge -------------------------------
(***************************************************************************)
(* The bridge of an R2 vehicle (r2_bridge/main.py): it turns the commands  *)
(* of a LiveKit room into motion, and its watchdog stops the vehicle when  *)
(* the heartbeats cease.  The vehicle goes on as last told, also when the  *)
(* bridge is gone.                                                         *)
(*                                                                         *)
(* Time passes in periods of the watchdog's loop.  The two safety events a *)
(* page heeds are kept; the others change nothing but a banner.            *)
(***************************************************************************)
EXTENDS Naturals, Sequences, SequencesExt

CONSTANT Timeout   \* HEARTBEAT_TIMEOUT_S, in periods of the watchdog

ASSUME TimeoutAssumption == Timeout \in Nat \ {0}

VARIABLES
    life,     \* the process: "down", "joining" the room, "up", "cut" off from the room for a
              \* while, "leaving" it at a shutdown, "deaf" (out of the room for good)
    beat,     \* the age of Watchdog._last_beat
    tripped,  \* Watchdog._tripped
    watch,    \* its loop: "off", "first" sleep, "due", "asleep" again
    motion,   \* the last Twist published
    events,   \* safety events on their way to the page
    loose,    \* history: the motion was not commanded under a live heartbeat
    feigned,  \* history: control was given back while tripped
    unsaid    \* history: tripped, and the last safety event could not be published

bridge     == <<life, beat, tripped, watch>>
bridgeVars == <<bridge, motion, events, loose, feigned, unsaid>>

Overdue == Timeout + 1     \* ages beyond the timeout are not told apart

Never == Timeout + 2       \* None

Motions == {"still", "moving"}

BridgeInit ==
    /\ life = "down"
    /\ beat = Never
    /\ tripped = FALSE
    /\ watch = "off"
    /\ motion = "still"
    /\ events = <<>>
    /\ loose = FALSE
    /\ feigned = FALSE
    /\ unsaid = FALSE

Listens == life \in {"joining", "up", "leaving"}

\* Repeating the event a page was sent last would tell it nothing.
Says(queue, event) ==
    IF queue # <<>> /\ Last(queue) = event THEN queue ELSE Append(queue, event)

\* publish_safety: what cannot be published is logged and forgotten.
Publish(event) ==
    \/ /\ life # "deaf"
       /\ events' = Says(events, event)
       /\ unsaid' = FALSE
    \/ unsaid' = tripped' /\ UNCHANGED events

-----------------------------------------------------------------------------
(* The process.                                                            *)

Join ==
    /\ life = "down"
    /\ life' = "joining"
    /\ UNCHANGED <<beat, tripped, watch, motion, events, loose, feigned, unsaid>>

\* Online: control is given to the page at once, and the watchdog starts; in the room
\* still or not.
Announce ==
    /\ life = "joining" \/ (life = "deaf" /\ watch = "off")
    /\ life' = IF life = "joining" THEN "up" ELSE "deaf"
    /\ watch' = "first"
    /\ UNCHANGED <<beat, tripped, motion, loose, feigned>>
    /\ Publish("safe_mode_left")

StopMotion ==
    /\ motion' = "still"
    /\ loose' = FALSE

\* The room's connection breaks off and is mended: no handler is told.
Cut ==
    /\ life = "up"
    /\ life' = "cut"
    /\ UNCHANGED <<beat, tripped, watch, motion, events, loose, feigned, unsaid>>

Mend ==
    /\ life = "cut"
    /\ life' = "up"
    /\ UNCHANGED <<beat, tripped, watch, motion, events, loose, feigned, unsaid>>

\* RoomEvent.Disconnected: nothing rejoins the room.
Disconnected ==
    /\ Listens \/ life = "cut"
    /\ life' = "deaf"
    /\ StopMotion
    /\ UNCHANGED <<beat, tripped, watch, events, feigned, unsaid>>

\* Commands are taken until the room is left.
Shutdown ==
    /\ life \in {"up", "cut"}
    /\ life' = "leaving"
    /\ StopMotion
    /\ UNCHANGED <<beat, tripped, watch, feigned>>
    /\ Publish("safe_mode_entered")

\* The process ends, and the vehicle is told nothing more.
Ends ==
    /\ life' = "down"
    /\ beat' = Never
    /\ tripped' = FALSE /\ feigned' = FALSE /\ unsaid' = FALSE
    /\ watch' = "off"
    /\ loose' = (motion = "moving")
    /\ UNCHANGED <<motion, events>>

Exit == (life = "leaving" \/ (life = "deaf" /\ watch # "off")) /\ Ends

\* Killed, or its connect failed.
Crash == life # "down" /\ Ends

-----------------------------------------------------------------------------
(* Commands.                                                               *)

Heartbeat_StaysTripped ==
    /\ Listens
    /\ beat' = 0
    /\ loose' = FALSE
    /\ UNCHANGED <<life, tripped, watch, motion, events, feigned, unsaid>>

Heartbeat ==
    /\ Listens
    /\ beat' = 0
    /\ tripped' = FALSE
    /\ loose' = FALSE
    /\ feigned' = FALSE /\ unsaid' = FALSE
    /\ UNCHANGED <<life, watch, motion, events>>

\* Published as it is, tripped or not.
Movement(axes) ==
    /\ Listens
    /\ motion' = axes
    /\ loose' = (axes = "moving" /\ beat > Timeout)
    /\ UNCHANGED <<bridge, events, feigned, unsaid>>

\* Neither tripped nor announced as safe mode: the next movement is obeyed.
EmergencyStop ==
    /\ Listens
    /\ StopMotion
    /\ UNCHANGED <<bridge, events, feigned, unsaid>>

\* Answered without a look at the heartbeat.
ResumeControl ==
    /\ Listens
    /\ UNCHANGED <<bridge, motion, loose>>
    /\ Publish("safe_mode_left")
    /\ feigned' = IF unsaid' THEN feigned ELSE tripped

-----------------------------------------------------------------------------
(* Time.                                                                   *)

Period ==
    /\ watch # "due"
    /\ watch' = IF watch = "off" THEN "off" ELSE "due"
    /\ beat' = IF beat < Overdue THEN beat + 1 ELSE beat
    /\ UNCHANGED <<life, tripped, motion, events, loose, feigned, unsaid>>

Watch_Silent ==
    /\ watch = "due"
    /\ watch' = "asleep"
    /\ IF beat # Never /\ ~tripped /\ beat > Timeout
       THEN tripped' = TRUE /\ StopMotion
       ELSE UNCHANGED <<tripped, motion, loose>>
    /\ UNCHANGED <<life, beat, events, feigned, unsaid>>

Watch ==
    /\ watch = "due"
    /\ watch' = "asleep"
    /\ IF beat # Never /\ ~tripped /\ beat > Timeout
       THEN /\ tripped' = TRUE
            /\ StopMotion
            /\ Publish("safe_mode_entered")
       ELSE UNCHANGED <<tripped, motion, loose, events, unsaid>>
    /\ UNCHANGED <<life, beat, feigned>>

Command ==
    Heartbeat \/ EmergencyStop \/ ResumeControl \/ \E axes \in Motions : Movement(axes)

\* A page takes an event, or loses what was sent before it came.
TakeEvents ==
    /\ \E n \in 0 .. Len(events) : events' = SubSeq(events, n + 1, Len(events))
    /\ UNCHANGED <<bridge, motion, loose, feigned, unsaid>>

BridgeNext ==
    \/ Join \/ Announce \/ Cut \/ Mend \/ Disconnected \/ Shutdown \/ Exit \/ Crash
    \/ Command \/ Period \/ Watch \/ TakeEvents

BridgeSpec == BridgeInit /\ [][BridgeNext]_bridgeVars

-----------------------------------------------------------------------------
(* Properties.                                                             *)

\* The variables keep their types.
BridgeTypeOK ==
    /\ life \in {"down", "joining", "up", "cut", "leaving", "deaf"}
    /\ beat \in 0 .. Never
    /\ tripped \in BOOLEAN
    /\ watch \in {"off", "first", "due", "asleep"}
    /\ motion \in Motions
    /\ events \in Seq({"safe_mode_entered", "safe_mode_left"})
    /\ loose \in BOOLEAN
    /\ feigned \in BOOLEAN
    /\ unsaid \in BOOLEAN

\* Whenever the watchdog has looked, a moving vehicle has an operator whose last
\* heartbeat is within the timeout, or moves on a command that none has followed and
\* that was taken after a trip or before the first (main.py:247 skips both), or
\* before the process ended.
MovingMeansHeard ==
    watch = "asleep" /\ motion = "moving" => beat <= Timeout \/ loose
===============================================================================
