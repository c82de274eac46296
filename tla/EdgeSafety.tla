------------------------------ MODULE EdgeSafety ------------------------------
(***************************************************************************)
(* The safe mode of the edge agent (mock-edge), the operator pages that    *)
(* drive it and the LiveKit room between them.                             *)
(*                                                                         *)
(* A page numbers all its commands with one counter but sends them over    *)
(* two channels: emergency stop and resume over the reliable, ordered one, *)
(* heartbeats and movements over the lossy one.  The edge leaves safe mode *)
(* only when an operator resumes, and enters it on an emergency stop, when *)
(* heartbeats stop coming, and when it loses the room.                     *)
(*                                                                         *)
(* Time passes in ticks of the watcher's resolution; only ages are kept,   *)
(* so a behaviour may be of any length.                                    *)
(***************************************************************************)
EXTENDS Integers, Sequences

CONSTANTS
    Pages,             \* visits of the cockpit page; each has one channel
    Epoch,             \* [Pages -> Nat]: Date.now() when the page connected
    Flaky,             \* the pages whose connection may be interrupted
    Never,             \* no heartbeat yet
    HeartbeatTimeout,  \* HEARTBEAT_TIMEOUT_MS
    CheckInterval,     \* HEARTBEAT_CHECK_INTERVAL_MS
    ResumeWindow,      \* the age of a heartbeat with which a resume is taken
    MaxSeq,            \* [Pages -> Nat], bound: commands a page sends
    MaxBoots           \* bound: how often the edge process starts

ASSUME ConstantsAssumption ==
    /\ Epoch \in [Pages -> Nat \ {0}]
    /\ Flaky \subseteq Pages
    /\ Never \notin Nat
    /\ ResumeWindow \in Nat
    /\ CheckInterval \in Nat \ {0}
    /\ HeartbeatTimeout \in Nat
    /\ ResumeWindow <= HeartbeatTimeout
    /\ MaxSeq \in [Pages -> Nat \ {0}]
    /\ MaxBoots \in Nat

-----------------------------------------------------------------------------
VARIABLES
    link,      \* the edge process and its connection to the room
    boots,     \* how often the edge process has started
    safeMode,  \* SafetyState.safeMode
    reason,    \* SafetyState.reason
    beat,      \* time since lastHeartbeatAt
    watch,     \* time since the watcher last ran
    epoch,     \* SafetyState.lastAcceptedEpoch
    lastSeq,   \* SafetyState.lastAcceptedSeq
    motion,    \* the movement command last handed to the vehicle
    stopped,   \* [Pages -> seq of the last emergency stop that was obeyed]
    page,      \* [Pages -> state of the page's connection]
    seq,       \* [Pages -> ControlChannel.seq]
    view,      \* [Pages -> safetyState shown by the page]
    inbox,     \* [Pages -> safety events on their way to the page]
    wire       \* commands on their way to the edge

state   == <<safeMode, reason, beat, watch, epoch, lastSeq>>
history == <<motion, stopped>>
pages   == <<page, seq, view>>
vars    == <<link, boots, state, history, pages, inbox, wire>>

Reliable == {"emergency_stop", "resume_control"}
Lossy    == {"heartbeat", "movement"}

Command == [type: Reliable \cup Lossy, page: Pages, seq: Nat \ {0}]

NoMotion == [page |-> Never, seq |-> 0]

Reasons == {"boot_default", "emergency_stop", "heartbeat_timeout", "room_disconnected"}

\* "joining": the process runs and has not joined the room yet; "lost": it
\* was disconnected, which is final; "leaving": it is shutting down.
Links == {"down", "joining", "joined", "leaving", "lost"}

Init ==
    /\ link = "down"
    /\ boots = 0
    /\ safeMode = TRUE
    /\ reason = "boot_default"
    /\ beat = Never
    /\ watch = 0
    /\ epoch = 0
    /\ lastSeq = 0
    /\ motion = NoMotion
    /\ stopped = [p \in Pages |-> 0]
    /\ page = [p \in Pages |-> "new"]
    /\ seq = [p \in Pages |-> 0]
    /\ view = [p \in Pages |-> "unknown"]
    /\ inbox = [p \in Pages |-> <<>>]
    /\ wire = {}

-----------------------------------------------------------------------------
(* The operator's page.                                                    *)

Online(p) == page[p] \in {"open", "outage"}

\* Every command takes the next number.  While the connection is interrupted
\* a command may never leave the browser.
Send(p, type) ==
    /\ Online(p)
    /\ seq[p] < MaxSeq[p]
    /\ seq' = [seq EXCEPT ![p] = @ + 1]
    /\ \/ wire' = wire \cup {[type |-> type, page |-> p, seq |-> seq[p] + 1]}
       \/ page[p] = "outage" /\ UNCHANGED wire
    /\ UNCHANGED <<link, boots, state, history, page, view, inbox>>

\* The page joins the room and sends its first heartbeat at once.
Open(p) ==
    /\ page[p] = "new"
    /\ page' = [page EXCEPT ![p] = "open"]
    /\ seq' = [seq EXCEPT ![p] = 1]
    /\ wire' = wire \cup {[type |-> "heartbeat", page |-> p, seq |-> 1]}
    /\ UNCHANGED <<link, boots, state, history, view, inbox>>

\* The browser may throttle the 1 Hz timer, so a heartbeat may come any time.
SendHeartbeat(p) == Send(p, "heartbeat")

\* Joystick and gamepad start only while the page shows "active", but the 8 Hz
\* timer of a drag outlives that; when it started is not kept here.
SendMovement(p) == view[p] # "unknown" /\ Send(p, "movement")

\* The STOP button is never disabled; hiding the page stops as well.
SendEmergencyStop(p) == Send(p, "emergency_stop")

\* The recovery modal is open while the page is connected and not "active".
SendResume(p) ==
    /\ page[p] = "open"
    /\ view[p] # "active"
    /\ Send(p, "resume_control")

Close(p) ==
    /\ Online(p)
    /\ page' = [page EXCEPT ![p] = "closed"]
    /\ inbox' = [inbox EXCEPT ![p] = <<>>]
    /\ UNCHANGED <<link, boots, state, history, seq, view, wire>>

Outage(p) ==
    /\ p \in Flaky
    /\ page[p] = "open"
    /\ page' = [page EXCEPT ![p] = "outage"]
    /\ UNCHANGED <<link, boots, state, history, seq, view, inbox, wire>>

\* LiveKit reconnects by itself; the page keeps its channel and its view.
Reconnect(p) ==
    /\ page[p] = "outage"
    /\ page' = [page EXCEPT ![p] = "open"]
    /\ UNCHANGED <<link, boots, state, history, seq, view, inbox, wire>>

\* onData: a safety event decides what the page shows.
ReceiveEvent(p) ==
    /\ page[p] = "open"
    /\ inbox[p] # <<>>
    /\ view' = [view EXCEPT ![p] = Head(inbox[p])]
    /\ inbox' = [inbox EXCEPT ![p] = Tail(@)]
    /\ UNCHANGED <<link, boots, state, history, page, seq, wire>>

-----------------------------------------------------------------------------
(* Safety events.  Those sent to a page during an outage arrive after it   *)
(* if LiveKit could resume the connection, and are lost if it had to make  *)
(* a new one.                                                              *)

InRoom == link \in {"joined", "leaving"}

Deliverable(p, kept) ==
    \/ page[p] = "open"
    \/ page[p] = "outage" /\ p \in kept

Publish_Reason(event) ==
    inbox' = [p \in Pages |->
                IF page[p] = "open" THEN Append(inbox[p], reason) ELSE inbox[p]]

Publish(event) ==
    \E kept \in SUBSET Flaky :
        inbox' = [p \in Pages |->
                    IF Deliverable(p, kept) THEN Append(inbox[p], event)
                    ELSE inbox[p]]

\* publishSafetyEvent does nothing outside the room.
EnterSafeMode(why) ==
    /\ safeMode' = TRUE
    /\ reason' = why
    /\ IF (safeMode /\ reason = why) \/ ~InRoom THEN UNCHANGED inbox
       ELSE Publish("safe_mode")

-----------------------------------------------------------------------------
(* handleCommand.                                                          *)

Stale_EpochOnly(m) == Epoch[m.page] < epoch

\* Of an older epoch, or not newer than the last command of this one.
Stale(m) ==
    \/ Epoch[m.page] < epoch
    \/ Epoch[m.page] = epoch /\ m.seq <= lastSeq

\* The reliable channel keeps its order, the lossy one does not.
Arrives(m) ==
    /\ InRoom
    /\ m \in wire
    /\ m.type \in Reliable =>
         \A k \in wire : k.page = m.page /\ k.type \in Reliable => m.seq <= k.seq

Take(m) ==
    /\ Arrives(m)
    /\ wire' = wire \ {m}
    /\ UNCHANGED <<link, boots, watch, pages>>

Accept(m) ==
    /\ Take(m)
    /\ ~Stale(m)
    /\ epoch' = Epoch[m.page]
    /\ lastSeq' = m.seq

IgnoreStale(m) ==
    /\ Take(m)
    /\ Stale(m)
    /\ UNCHANGED <<safeMode, reason, beat, epoch, lastSeq, history, inbox>>

\* A heartbeat does not end safe mode.
HandleHeartbeat(m) ==
    /\ m.type = "heartbeat"
    /\ Accept(m)
    /\ beat' = 0
    /\ UNCHANGED <<safeMode, reason, history, inbox>>

HandleEmergencyStop(m) ==
    /\ m.type = "emergency_stop"
    /\ Accept(m)
    /\ EnterSafeMode("emergency_stop")
    /\ stopped' = [stopped EXCEPT ![m.page] = m.seq]
    /\ UNCHANGED <<beat, motion>>

HeartbeatFresh_AnyAge == beat # Never

\* lastHeartbeatAt = 0, "never", counts as very old: the monotonic clock is
\* past ResumeWindow when the process starts.
HeartbeatFresh == beat # Never /\ beat <= ResumeWindow

\* Outside safe mode the answer is only published again.
HandleResume(m) ==
    /\ m.type = "resume_control"
    /\ Accept(m)
    /\ HeartbeatFresh
    /\ safeMode' = FALSE
    /\ Publish("active")
    /\ UNCHANGED <<reason, beat, history>>

DenyResume(m) ==
    /\ m.type = "resume_control"
    /\ Accept(m)
    /\ ~HeartbeatFresh
    /\ UNCHANGED <<safeMode, reason, beat, history, inbox>>

HandleMovement(m) ==
    /\ m.type = "movement"
    /\ Accept(m)
    /\ ~safeMode
    /\ motion' = [page |-> m.page, seq |-> m.seq]
    /\ UNCHANGED <<safeMode, reason, beat, stopped, inbox>>

BlockMovement(m) ==
    /\ m.type = "movement"
    /\ Accept(m)
    /\ safeMode
    /\ UNCHANGED <<safeMode, reason, beat, history, inbox>>

\* A lossy command may be lost any time; a reliable one only when an end of
\* its way is not in the room.
MayBeLost(m) == m.type \in Lossy \/ page[m.page] # "open" \/ ~InRoom

Lose(m) ==
    /\ m \in wire
    /\ MayBeLost(m)
    /\ wire' = wire \ {m}
    /\ UNCHANGED <<link, boots, state, history, pages, inbox>>

-----------------------------------------------------------------------------
(* Time.                                                                   *)

\* Beyond the timeout all ages are alike.
Older(age) ==
    IF age = Never THEN Never
    ELSE IF age <= HeartbeatTimeout + CheckInterval THEN age + 1 ELSE age

\* The event loop is not blocked: the watcher runs when its interval is over.
Tick ==
    /\ link # "down"
    /\ watch < CheckInterval
    /\ watch' = watch + 1
    /\ beat' = Older(beat)
    /\ UNCHANGED <<link, boots, safeMode, reason, epoch, lastSeq, history,
                   pages, inbox, wire>>

TimedOut_OneLate == beat # Never /\ beat > HeartbeatTimeout + 1

TimedOut_Inverted == beat = Never

TimedOut == beat # Never /\ beat > HeartbeatTimeout

CheckHeartbeat ==
    /\ link # "down"
    /\ watch = CheckInterval
    /\ watch' = 0
    /\ \/ ~safeMode /\ TimedOut /\ EnterSafeMode("heartbeat_timeout")
       \/ (safeMode \/ ~TimedOut) /\ UNCHANGED <<safeMode, reason, inbox>>
    /\ UNCHANGED <<link, boots, beat, epoch, lastSeq, history, pages, wire>>

-----------------------------------------------------------------------------
(* The life of the edge process.                                           *)

\* The SFU forwards lossy packets only to who is there; the sender's SCTP
\* stack repeats the others, which may arrive after the edge is back.
OutOfRoom == wire' = {m \in wire : m.type \in Reliable}

Boot ==
    /\ link = "down"
    /\ boots < MaxBoots
    /\ boots' = boots + 1
    /\ link' = "joining"
    /\ safeMode' = TRUE
    /\ reason' = "boot_default"
    /\ beat' = Never
    /\ watch' = 0
    /\ epoch' = 0
    /\ lastSeq' = 0
    /\ UNCHANGED <<history, pages, inbox, wire>>

JoinRoom_Silent ==
    /\ link = "joining"
    /\ link' = "joined"
    /\ UNCHANGED <<boots, state, history, pages, inbox, wire>>

\* The edge has been in safe mode since it started, and says so.
JoinRoom ==
    /\ link = "joining"
    /\ link' = "joined"
    /\ IF safeMode THEN Publish("safe_mode") ELSE UNCHANGED inbox
    /\ UNCHANGED <<boots, state, history, pages, wire>>

\* activeRoom is cleared before enterSafeMode: no event is sent.
LoseRoom ==
    /\ InRoom
    /\ link' = "lost"
    /\ safeMode' = TRUE
    /\ reason' = "room_disconnected"
    /\ OutOfRoom
    /\ UNCHANGED <<boots, beat, watch, epoch, lastSeq, history, pages, inbox>>

\* SIGTERM in the room: the pages are told first, then the publishers stop;
\* commands are still handled meanwhile.
Shutdown ==
    /\ link = "joined"
    /\ link' = "leaving"
    /\ Publish("safe_mode")
    /\ UNCHANGED <<boots, state, history, pages, wire>>

\* The process ends: after a shutdown, or by a crash anywhere.
Exit ==
    /\ link # "down"
    /\ link' = "down"
    /\ OutOfRoom
    /\ UNCHANGED <<boots, state, history, pages, inbox>>

-----------------------------------------------------------------------------
PageStep(p) ==
    \/ Open(p) \/ Close(p) \/ Outage(p) \/ Reconnect(p)
    \/ SendHeartbeat(p) \/ SendMovement(p) \/ SendEmergencyStop(p) \/ SendResume(p)
    \/ ReceiveEvent(p)

CommandStep(m) ==
    \/ IgnoreStale(m)
    \/ HandleHeartbeat(m) \/ HandleEmergencyStop(m)
    \/ HandleResume(m) \/ DenyResume(m)
    \/ HandleMovement(m) \/ BlockMovement(m)
    \/ Lose(m)

EdgeStep == Boot \/ JoinRoom \/ LoseRoom \/ Shutdown \/ Exit

\* All pages are closed and the edge has stopped for good.
Finished ==
    /\ link = "down" /\ boots = MaxBoots
    /\ \A p \in Pages : page[p] = "closed"
    /\ wire = {}
    /\ UNCHANGED vars

Next ==
    \/ \E p \in Pages : PageStep(p)
    \/ \E m \in wire : CommandStep(m)
    \/ EdgeStep
    \/ Tick
    \/ CheckHeartbeat
    \/ Finished

Spec == Init /\ [][Next]_vars

\* Node's timers fire; an interrupted page reconnects, and what is on its way
\* to a page that is connected again and again arrives.
FairSpec ==
    /\ Spec
    /\ WF_vars(Tick)
    /\ WF_vars(CheckHeartbeat)
    /\ \A p \in Pages : SF_vars(ReceiveEvent(p)) /\ WF_vars(Reconnect(p))

-----------------------------------------------------------------------------
(* Properties.                                                             *)

\* Every variable has its type.
TypeOK ==
    /\ link \in Links
    /\ boots \in Nat
    /\ safeMode \in BOOLEAN
    /\ reason \in Reasons
    /\ beat \in Nat \cup {Never}
    /\ watch \in 0 .. CheckInterval
    /\ epoch \in Nat
    /\ lastSeq \in Nat
    /\ motion \in [page: Pages, seq: Nat] \cup {NoMotion}
    /\ stopped \in [Pages -> Nat]
    /\ page \in [Pages -> {"new", "open", "outage", "closed"}]
    /\ seq \in [Pages -> Nat]
    /\ view \in [Pages -> {"unknown", "active", "safe_mode"}]
    /\ inbox \in [Pages -> Seq({"active", "safe_mode"})]
    /\ wire \subseteq Command

(***************************************************************************)
(* The dead man's switch: whatever is lost, delayed or restarted, a vehicle*)
(* out of safe mode heard a heartbeat no longer ago than the timeout and   *)
(* one interval of the watcher (mock-edge/src/index.ts:248-257).           *)
(***************************************************************************)
SilenceBounded ==
    ~safeMode => beat \in 0 .. HeartbeatTimeout + CheckInterval

\* The inductive strengthening: the watcher has seen all but the last "watch"
\* ticks of the silence.
SwitchInv ==
    ~safeMode => beat \in 0 .. HeartbeatTimeout + watch

(***************************************************************************)
(* A stop that was obeyed stays obeyed: no command its page sent before it *)
(* moves the vehicle or ends safe mode afterwards, restarts of the edge    *)
(* and other pages included (the epoch and seq filter, index.ts:177-189).  *)
(***************************************************************************)
MovesAfterStop ==
    motion' # motion => motion'.seq > stopped[motion'.page]

ResumesAfterStop ==
    safeMode /\ ~safeMode' =>
        \E m \in wire \ wire' : m.type = "resume_control" /\ m.seq > stopped[m.page]

StopHolds == [][MovesAfterStop /\ ResumesAfterStop]_vars

(***************************************************************************)
(* When all safety events have arrived, a page whose connection is steady  *)
(* shows "active" only if the edge is out of safe mode: the operator sees  *)
(* the recovery modal and not a joystick the edge ignores.  It rests on    *)
(* every change of safe mode, and every join of the room, being published  *)
(* in order; a page that missed an event in an outage may be wrong.        *)
(***************************************************************************)
ViewsAgree ==
    \A p \in Pages \ Flaky :
        InRoom /\ page[p] = "open" /\ inbox[p] = <<>> /\ view[p] = "active"
            => ~safeMode

\* Once all operators are gone, the vehicle ends up in safe mode.
SilenceStops ==
    (\A p \in Pages : page[p] = "closed") ~> (safeMode \/ link = "down")

(***************************************************************************)
(* Mermaid/README.md:889: after more than 3 s without a heartbeat the edge *)
(* enters safe mode and the cockpit shows banner and recovery modal.       *)
(***************************************************************************)
RecoveryOffered ==
    \A p \in Pages :
        (InRoom /\ safeMode /\ page[p] = "open")
            ~> (~safeMode \/ ~InRoom \/ page[p] = "closed" \/ view[p] # "active")

\* Safe mode is a dead man's switch.
Switch == INSTANCE DeadMansSwitch WITH
    safe <- safeMode, age <- beat,
    Limit <- HeartbeatTimeout + CheckInterval, Window <- ResumeWindow

\* The edge agent implements the switch, whatever the network does.
ImplementsSwitch == Switch!Spec

-----------------------------------------------------------------------------
(* What the code says of itself, and does not do.                          *)

(***************************************************************************)
(* control-channel.ts:123, "emergency stop must arrive": the edge is in    *)
(* safe mode when it has received an emergency stop.                       *)
(***************************************************************************)
EveryStopObeyed ==
    [][\A m \in wire \ wire' :
         m.type = "emergency_stop" /\ ~MayBeLost(m) => safeMode']_vars
=============================================================================
