----------------------------- MODULE VideoPipeline -----------------------------
(***************************************************************************)
(* A publisher process from its pipeline to its exit: GStreamer's thread   *)
(* fills a channel (internal/gst), the goroutine of PublishLoop converts   *)
(* and writes the frames and rejoins the room (internal/publisher), and    *)
(* the main goroutine starts and ends both (cmd/publisher, in either mode).*)
(*                                                                         *)
(* Frames are numbered as they leave the encoder.  What a frame holds is   *)
(* chosen when the loop looks at it.  Connections to the room are numbered *)
(* as they are made.                                                       *)
(***************************************************************************)
EXTENDS AnnexB, FiniteSets

CONSTANTS
    Units,                  \* access units: records of NALUs and their framing
    Capacity,               \* of the channel of samples
    maxReconnectAttempts,
    MaxFrames               \* bound on the frames captured

ASSUME VideoAssumption ==
    /\ Capacity \in Nat \ {0}
    /\ maxReconnectAttempts \in Nat

\* What an encoder makes.
ASSUME UnitsAssumption ==
    \A unit \in Units :
        /\ unit.nalus \in Seq(Seq(Bytes)) \ {<<>>}
        /\ \A k \in DOMAIN unit.nalus : Sound(unit.nalus[k])
        /\ unit.framing \in {"avc", "long", "short", "cut"}

VARIABLES
    mode,       \* "ipc", started by the edge agent, or "direct"
    main,       \* where the main goroutine is
    cancelled,  \* ctx
    pipe,       \* the pipeline: "none", "ready", "playing", "draining", "stopped"
    samples,    \* the channel: numbers of frames
    captured,   \* frames handed to go_on_sample
    loop,       \* where PublishLoop is
    hand,       \* the converted frame it holds
    attempts,   \* its reconnect attempts
    overrun,    \* history: frames the channel had no room for
    counted,    \* framesPublished + framesDropped
    last,       \* history: the last frame written
    room,       \* p.room: a connection, or None
    joined,     \* connections the room counts as participants
    made,       \* connections made
    crossed     \* history: the loop's joining and main's leaving have crossed

media     == <<pipe, samples, captured, overrun>>
counts    == <<counted, last>>
rooms     == <<room, joined, made, crossed>>
loopVars  == <<loop, hand, attempts>>
videoVars == <<mode, main, cancelled, media, counts, rooms, loopVars>>

None == 0

NoFrame == [frame |-> 0]

Ended == {"exited", "failed"}   \* exit status 0 or not

LoopOver == {"idle", "ended", "failed"}

LoopSteps == {"reading", "writing", "waiting", "parting", "forgetting", "rejoining", "joined",
              "publishing"}

VideoInit ==
    /\ mode \in {"ipc", "direct"}
    /\ main = "creating"
    /\ cancelled = FALSE
    /\ pipe = "none"
    /\ samples = <<>>
    /\ captured = 0
    /\ loop = "idle"
    /\ hand = NoFrame
    /\ attempts = 0
    /\ overrun = 0 /\ counted = 0 /\ last = 0
    /\ room = None
    /\ joined = {}
    /\ made = 0
    /\ crossed = FALSE

Running == main \notin Ended

\* The bytes of an access unit, as the encoder and h264parse frame it; "cut" stands
\* for one whose end is missing.
Encoded(unit) ==
    CASE unit.framing = "avc"   -> LengthFramed(unit.nalus)
      [] unit.framing = "long"  -> CodeFramed(unit.nalus, LongCode)
      [] unit.framing = "short" -> CodeFramed(unit.nalus, ShortCode)
      [] unit.framing = "cut"   -> Front(LengthFramed(unit.nalus))

-----------------------------------------------------------------------------
(* The room.                                                               *)

\* Main has read p.room for the last time: it is leaving the room it found, has left
\* it, or found that there was none.
HasLooked ==
    \/ main \in {"forgetting", "closing"}
    \/ mode = "direct" /\ main \in {"stopping", "draining"}

\* The call p.room.Disconnect() reads p.room anew; it takes its time, and p.room is set
\* to nil after it, whatever it then refers to.
Leave == joined' = joined \ {room} /\ UNCHANGED <<room, made, crossed>>

Forget == room' = None /\ UNCHANGED <<joined, made, crossed>>

RoomLost ==
    /\ Running
    /\ \E connection \in joined : joined' = joined \ {connection}
    /\ UNCHANGED <<mode, main, cancelled, media, counts, loopVars, room, made, crossed>>

-----------------------------------------------------------------------------
(* The main goroutine: steps 7 to 12 of runIPCMode, and runDirectMode.     *)

Exit(status) == main' = status

NewPipeline ==
    /\ main = "creating"
    /\ \/ main' = "starting" /\ pipe' = "ready"
       \/ Exit("failed") /\ UNCHANGED pipe
    /\ UNCHANGED <<mode, cancelled, samples, captured, overrun, counts, rooms, loopVars>>

StartPipeline ==
    /\ main = "starting"
    /\ \/ main' = "connecting" /\ pipe' = "playing"
       \/ Exit("failed") /\ UNCHANGED pipe
    /\ UNCHANGED <<mode, cancelled, samples, captured, overrun, counts, rooms, loopVars>>

\* No other goroutine uses p.room before the loop starts.
FirstConnect ==
    /\ main = "connecting"
    /\ made' = made + 1 /\ room' = made' /\ joined' = joined \cup {made'}
    /\ main' = "serving"
    /\ loop' = "reading"
    /\ UNCHANGED <<mode, cancelled, media, counts, hand, attempts, crossed>>

\* Without a room; or with one, left again because it takes no track, that p.room still
\* refers to.
FirstConnectFails ==
    /\ main = "connecting"
    /\ \/ UNCHANGED <<room, made>>
       \/ made' = made + 1 /\ room' = made'
    /\ IF mode = "ipc" THEN pipe' = "stopped" ELSE UNCHANGED pipe
    /\ Exit("failed")
    /\ UNCHANGED <<mode, cancelled, samples, captured, overrun, counts, loopVars, joined, crossed>>

\* A signal, or, from the agent, a stop or the end of the connection to it.
AskedToStop ==
    /\ main = "serving"
    /\ cancelled' = TRUE
    /\ main' = IF mode = "ipc" THEN "stopping" ELSE "leaving"
    /\ UNCHANGED <<mode, media, counts, rooms, loopVars>>

\* In direct mode nothing is tidied up: os.Exit runs no deferred call.
LoopFailed ==
    /\ main = "serving"
    /\ loop = "failed"
    /\ IF mode = "ipc" THEN cancelled' = TRUE /\ main' = "stopping"
                       ELSE Exit("failed") /\ UNCHANGED cancelled
    /\ UNCHANGED <<mode, media, counts, rooms, loopVars>>

\* Pipeline.Stop: from here on go_on_sample knows the pipeline no more.
StopPipeline ==
    /\ main = "stopping"
    /\ pipe' = "draining"
    /\ main' = "draining"
    /\ UNCHANGED <<mode, cancelled, samples, captured, overrun, counts, rooms, loopVars>>

PipelineStopped ==
    /\ main = "draining"
    /\ pipe' = "stopped"
    /\ main' = IF mode = "ipc" THEN "leaving" ELSE "closing"
    /\ UNCHANGED <<mode, cancelled, samples, captured, overrun, counts, rooms, loopVars>>

After == IF mode = "ipc" THEN "closing" ELSE "stopping"

\* A room that the loop has joined but not yet set is not seen.
LeaveRoom ==
    /\ main = "leaving"
    /\ IF room = None THEN main' = After /\ crossed' = (crossed \/ loop = "joined")
                      ELSE main' = "parting" /\ UNCHANGED crossed
    /\ UNCHANGED <<mode, cancelled, media, counts, loopVars, room, joined, made>>

\* The loop may have set p.room to nil since it was looked at: a panic.
Part ==
    /\ main = "parting"
    /\ IF room = None THEN Exit("failed") /\ UNCHANGED rooms
                      ELSE main' = "forgetting" /\ Leave
    /\ UNCHANGED <<mode, cancelled, media, counts, loopVars>>

Parted ==
    /\ main = "forgetting"
    /\ main' = After
    /\ Forget
    /\ UNCHANGED <<mode, cancelled, media, counts, loopVars>>

\* The end of the process is the end of its goroutines.
CleanExit ==
    /\ main = "closing"
    /\ Exit("exited")
    /\ UNCHANGED <<mode, cancelled, media, counts, rooms, loopVars>>

-----------------------------------------------------------------------------
(* GStreamer's thread: go_on_sample.                                       *)

\* The channel never blocks the encoder: when it is full the frame is lost.
Capture ==
    /\ Running
    /\ pipe = "playing"
    /\ captured < MaxFrames
    /\ captured' = captured + 1
    /\ IF Len(samples) < Capacity
       THEN samples' = Append(samples, captured') /\ UNCHANGED overrun
       ELSE overrun' = overrun + 1 /\ UNCHANGED samples
    /\ UNCHANGED <<mode, main, cancelled, pipe, counts, rooms, loopVars>>

-----------------------------------------------------------------------------
(* PublishLoop and publishUntilDisconnect.                                 *)

LoopRuns == Running /\ UNCHANGED <<mode, main, cancelled, pipe, captured, overrun>>

\* A sample and the end of ctx may both be there; then either is taken.
TakeSample ==
    /\ LoopRuns
    /\ loop = "reading"
    /\ samples # <<>>
    /\ samples' = Tail(samples)
    /\ \E unit \in Units :
          LET data == ToAnnexB(Encoded(unit)) IN
          IF data = {}
          THEN counted' = counted + 1 /\ UNCHANGED <<loop, hand>>
          ELSE /\ loop' = "writing"
               /\ \E bytes \in data :
                     hand' = [frame |-> Head(samples), unit |-> unit, data |-> bytes]
               /\ UNCHANGED counted
    /\ UNCHANGED <<attempts, last, rooms>>

\* What a track does that has no connection is open, as is whether a write fails.
WriteSample ==
    /\ LoopRuns
    /\ loop = "writing"
    /\ loop' = "reading"
    /\ counted' = counted + 1
    /\ last' = hand.frame
    /\ hand' = NoFrame
    /\ UNCHANGED <<attempts, samples, rooms>>

WriteFails_OneMore ==
    /\ LoopRuns
    /\ loop = "writing"
    /\ counted' = counted + 1
    /\ hand' = NoFrame
    /\ IF cancelled
       THEN loop' = "ended" /\ UNCHANGED attempts
       ELSE /\ attempts' = attempts + 1
            /\ loop' = IF attempts > maxReconnectAttempts THEN "failed" ELSE "waiting"
    /\ UNCHANGED <<last, samples, rooms>>

WriteFails_PutBack ==
    /\ LoopRuns
    /\ loop = "writing"
    /\ hand' = NoFrame
    /\ IF cancelled
       THEN loop' = "ended" /\ UNCHANGED <<attempts, samples>>
       ELSE /\ attempts' = attempts + 1
            /\ loop' = IF attempts' > maxReconnectAttempts THEN "failed" ELSE "waiting"
            /\ samples' = Append(samples, hand.frame)
    /\ UNCHANGED <<counts, rooms>>

\* The frame is lost, and the room is joined anew, after a while.
WriteFails ==
    /\ LoopRuns
    /\ loop = "writing"
    /\ counted' = counted + 1
    /\ hand' = NoFrame
    /\ IF cancelled
       THEN loop' = "ended" /\ UNCHANGED attempts
       ELSE /\ attempts' = attempts + 1
            /\ loop' = IF attempts' > maxReconnectAttempts THEN "failed" ELSE "waiting"
    /\ UNCHANGED <<last, samples, rooms>>

LoopCancelled ==
    /\ LoopRuns
    /\ cancelled
    /\ loop \in {"reading", "waiting"}
    /\ loop' = "ended"
    /\ UNCHANGED <<hand, attempts, counts, samples, rooms>>

Backoff_NoDisconnect ==
    /\ LoopRuns
    /\ loop = "waiting"
    /\ loop' = "rejoining"
    /\ UNCHANGED <<hand, attempts, counts, samples, rooms>>

Backoff ==
    /\ LoopRuns
    /\ loop = "waiting"
    /\ loop' = IF room = None THEN "rejoining" ELSE "parting"
    /\ UNCHANGED <<hand, attempts, counts, samples, rooms>>

LoopParts ==
    /\ Running
    /\ loop = "parting"
    /\ IF room = None
       THEN Exit("failed") /\ UNCHANGED <<loop, rooms>>
       ELSE loop' = "forgetting" /\ Leave /\ UNCHANGED main
    /\ UNCHANGED <<mode, cancelled, media, hand, attempts, counts>>

LoopParted ==
    /\ LoopRuns
    /\ loop = "forgetting"
    /\ loop' = "rejoining"
    /\ Forget
    /\ UNCHANGED <<hand, attempts, counts, samples>>

\* Joined or not, the loop reads on in the end.
Rejoin ==
    /\ LoopRuns
    /\ loop = "rejoining"
    /\ \/ loop' = "reading" /\ UNCHANGED rooms
       \/ /\ loop' = "joined"
          /\ made' = made + 1 /\ joined' = joined \cup {made'}
          /\ crossed' = (crossed \/ HasLooked)
          /\ UNCHANGED room
    /\ UNCHANGED <<hand, attempts, counts, samples>>

SetRoom ==
    /\ LoopRuns
    /\ loop = "joined"
    /\ loop' = "publishing"
    /\ room' = made
    /\ UNCHANGED <<hand, attempts, counts, samples, joined, made, crossed>>

\* The new room is left again if it takes no track; p.room still refers to it.
PublishTrack ==
    /\ LoopRuns
    /\ loop = "publishing"
    /\ loop' = "reading"
    /\ joined' \in {joined, joined \ {made}}
    /\ UNCHANGED <<hand, attempts, counts, samples, room, made, crossed>>

VideoNext ==
    \/ NewPipeline \/ StartPipeline \/ FirstConnect \/ FirstConnectFails
    \/ AskedToStop \/ LoopFailed \/ StopPipeline \/ PipelineStopped
    \/ LeaveRoom \/ Part \/ Parted \/ CleanExit
    \/ Capture \/ TakeSample \/ WriteSample \/ WriteFails
    \/ LoopCancelled \/ Backoff \/ LoopParts \/ LoopParted
    \/ Rejoin \/ SetRoom \/ PublishTrack \/ RoomLost

VideoSpec == VideoInit /\ [][VideoNext]_videoVars

-----------------------------------------------------------------------------
(* Properties.                                                             *)

\* The variables keep their types: the channel its capacity, the attempts their limit.
VideoTypeOK ==
    /\ mode \in {"ipc", "direct"}
    /\ cancelled \in BOOLEAN /\ crossed \in BOOLEAN
    /\ pipe \in {"none", "ready", "playing", "draining", "stopped"}
    /\ samples \in Seq(1 .. captured) /\ Len(samples) <= Capacity
    /\ loop \in LoopOver \cup LoopSteps
    /\ hand.frame \in 0 .. captured
    /\ (hand # NoFrame) = (loop = "writing")
    /\ attempts \in 0 .. maxReconnectAttempts + 1
    /\ made \in 0 .. maxReconnectAttempts + 1
    /\ room \in 0 .. made /\ joined \subseteq 1 .. made

\* Frames reach the room in the order in which they were captured, none twice, and
\* each is lost to a full channel, or waits, or is counted once as published or dropped.
FramesKept ==
    LET held     == IF hand = NoFrame THEN <<>> ELSE <<hand.frame>>
        underway == <<last>> \o held \o samples
    IN  /\ \A i \in 1 .. Len(underway) - 1 : underway[i] < underway[i + 1]
        /\ captured = overrun + Len(samples) + Len(held) + counted

\* The length of the first NALU reads as a start code: 1, or 256 to 511.
Mistaken(unit) ==
    /\ unit.framing \in {"avc", "cut"}
    /\ Len(unit.nalus[1]) \in {1} \cup Base .. 2 * Base - 1

\* A frame that is written is read by a decoder as the NALUs the encoder made, unless
\* isAnnexB mistakes the unit for Annex B: that one is passed on unchanged
\* (avcc_to_annexb.go:49, 113).
Decodable ==
    loop = "writing" =>
        \/ ReadAs(hand.data, hand.unit.nalus)
        \/ Mistaken(hand.unit) /\ hand.data = Encoded(hand.unit)

\* The room never counts a publisher twice, and one that has ended of its own accord
\* not at all, unless the loop joined it after main's last look at p.room, or before
\* that look and had yet to set p.room: the two goroutines share p.room without a lock,
\* and main does not wait for the loop (livekit.go:73-77, 107-112).
RoomLeft ==
    /\ Cardinality(joined) <= 1
    /\ main = "exited" => joined = {} \/ crossed
===============================================================================
