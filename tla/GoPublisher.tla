----------------------------- MODULE GoPublisher -----------------------------
(***************************************************************************)
(* The video publisher of one camera: GoPublisherManager in the edge agent,*)
(* the processes it starts one after the other, and the Unix socket between*)
(* them.  Processes are numbered in the order of their start.              *)
(*                                                                         *)
(* Time is kept only where the manager looks at it: whether the last       *)
(* heartbeat is overdue, and which timers are set.                         *)
(***************************************************************************)
EXTENDS Naturals, Sequences

CONSTANT MaxRestarts   \* MAX_RESTART_ATTEMPTS

ASSUME MaxRestartsAssumption == MaxRestarts \in Nat

Procs == 1 .. MaxRestarts + 1

NoProc == 0

-----------------------------------------------------------------------------
VARIABLES
    task,      \* start() and stop(): "new", "up", "waiting" in stop(), "stopped"
    state,     \* ManagerState
    server,    \* the socket accepts connections
    child,     \* this.child
    conn,      \* whose socket is this.connection
    beat,      \* lastHeartbeatTs: "none" (0), "recent", or "old" (overdue)
    watching,  \* heartbeatTimer is set
    failures,  \* consecutiveFailures
    timer,     \* restartTimer is set
    minting,   \* the processes whose onHello awaits a token
    canMint,   \* the API key of the configuration can sign
    born,      \* how many processes were started
    proc,      \* [Procs -> phase of the process]
    hung,      \* the processes with a goroutine that is stuck
    mail,      \* [Procs -> messages the manager sent it]
    events,    \* [Procs -> what its socket has in store for the manager]
    exited     \* the processes whose "exit" has not been emitted yet

manager == <<task, state, server, child, conn, beat, watching, failures, timer>>
procs   == <<born, proc, hung>>
ipc     == <<minting, canMint, mail, events, exited>>
vars    == <<manager, procs, ipc>>

\* A process dials the socket, waits for "start", starts pipeline and room,
\* publishes, and leaves in good order.
Phases == {"unborn", "dialing", "waiting", "starting", "publishing", "leaving", "dead"}

ManagerStates == {"idle", "starting", "handshaking", "running", "stopping",
                  "restarting", "failed"}

Live(p) == proc[p] \notin {"unborn", "dead"}

Connected(p) == Live(p) /\ proc[p] # "dialing"

Init ==
    /\ task = "new"
    /\ state = "idle"
    /\ server = FALSE
    /\ child = NoProc
    /\ conn = NoProc
    /\ beat = "none"
    /\ watching = FALSE
    /\ failures = 0
    /\ timer = FALSE
    /\ minting = {}
    /\ canMint \in BOOLEAN
    /\ born = 0
    /\ proc = [p \in Procs |-> "unborn"]
    /\ hung = {}
    /\ mail = [p \in Procs |-> {}]
    /\ events = [p \in Procs |-> <<>>]
    /\ exited = {}

-----------------------------------------------------------------------------
(* The manager: start, stop and restart.                                   *)

\* A program that cannot be started emits "error" and never "exit".
SpawnPublisher ==
    /\ born' = born + 1
    /\ child' = born + 1
    /\ state' = "starting"
    /\ beat' = "none"
    /\ \E phase \in {"dialing", "dead"} : proc' = [proc EXCEPT ![born + 1] = phase]
    /\ UNCHANGED <<conn, watching, failures, hung, ipc>>

StartSocketServer == server' = TRUE

CloseServer == server' = FALSE

Start ==
    /\ task = "new"
    /\ task' = "up"
    /\ StartSocketServer
    /\ SpawnPublisher
    /\ UNCHANGED timer

Tell(message) ==
    mail' = IF conn = NoProc THEN mail
            ELSE [mail EXCEPT ![conn] = @ \cup {message}]

StopEnds ==
    /\ task' = "stopped"
    /\ state' = "idle"
    /\ CloseServer

\* Each of SIGINT and SIGTERM calls stop(), so it may be called again.
Stop ==
    /\ task \in {"up", "waiting"}
    /\ timer' = FALSE
    /\ watching' = FALSE
    /\ Tell("stop")
    /\ \/ child = NoProc /\ StopEnds
       \/ child # NoProc /\ task' = "waiting" /\ state' = "stopping" /\ UNCHANGED server
    /\ UNCHANGED <<child, conn, beat, failures, procs, minting, canMint, events,
                   exited>>

-----------------------------------------------------------------------------
(* The end of a process.                                                   *)

\* Its socket closes, and Node will emit "exit"; the order is open.
Ends(p) ==
    /\ proc' = [proc EXCEPT ![p] = "dead"]
    /\ exited' = exited \cup {p}
    /\ events' = IF Connected(p) THEN [events EXCEPT ![p] = Append(@, "close")]
                 ELSE events
    /\ UNCHANGED <<born, hung, minting, canMint, mail>>

StopTimeout_NoKill ==
    /\ task = "waiting"
    /\ StopEnds
    /\ UNCHANGED <<child, conn, beat, watching, failures, timer, procs, ipc>>

StopTimeout_Alive ==
    /\ task = "waiting"
    /\ Live(child)
    /\ Ends(child)
    /\ StopEnds
    /\ UNCHANGED <<child, conn, beat, watching, failures, timer>>

\* SIGKILL, and stop() goes on without waiting for the exit.
StopTimeout ==
    /\ task = "waiting"
    /\ \/ Live(child) /\ Ends(child)
       \/ ~Live(child) /\ UNCHANGED <<procs, ipc>>
    /\ StopEnds
    /\ UNCHANGED <<child, conn, beat, watching, failures, timer>>

ChildExit(p) ==
    /\ p \in exited
    /\ exited' = exited \ {p}
    /\ child' = NoProc
    /\ conn' = NoProc
    /\ watching' = FALSE
    /\ UNCHANGED <<beat, procs, minting, canMint, mail, events>>

Crashed_OneMore(p) ==
    /\ task = "up"
    /\ ChildExit(p)
    /\ failures' = failures + 1
    /\ \/ failures <= MaxRestarts /\ state' = "restarting" /\ timer' = TRUE /\ UNCHANGED server
       \/ failures > MaxRestarts /\ state' = "failed" /\ CloseServer /\ UNCHANGED timer
    /\ UNCHANGED task

Crashed_IfRunning(p) ==
    /\ task = "up"
    /\ ChildExit(p)
    /\ failures' = failures + 1
    /\ timer' = (state = "running" /\ failures < MaxRestarts)
    /\ state' = "restarting"
    /\ UNCHANGED <<task, server>>

\* Without a stop the exit counts as a failure; the last one closes the server.
Crashed(p) ==
    /\ task = "up"
    /\ ChildExit(p)
    /\ failures' = failures + 1
    /\ \/ failures < MaxRestarts /\ state' = "restarting" /\ timer' = TRUE /\ UNCHANGED server
       \/ failures = MaxRestarts /\ state' = "failed" /\ CloseServer /\ UNCHANGED timer
    /\ UNCHANGED task

\* The exit that stop() waits for.
ExitAwaited(p) ==
    /\ task = "waiting"
    /\ ChildExit(p)
    /\ StopEnds
    /\ UNCHANGED <<failures, timer>>

\* An exit after stop() gave up waiting.
ExitLate(p) ==
    /\ task = "stopped"
    /\ ChildExit(p)
    /\ UNCHANGED <<task, state, server, failures, timer>>

\* The delay is a second at least, in which everything is handled that dead
\* processes left behind.
Settled == \A p \in Procs : proc[p] = "dead" => events[p] = <<>> /\ p \notin minting

RestartTimer ==
    /\ timer
    /\ Settled
    /\ timer' = FALSE
    /\ SpawnPublisher
    /\ UNCHANGED <<task, server>>

-----------------------------------------------------------------------------
(* The manager: what comes over the socket.                                *)

NextEvent(p, event) ==
    /\ events[p] # <<>>
    /\ Head(events[p]) = event
    /\ events' = [events EXCEPT ![p] = Tail(@)]
    /\ UNCHANGED <<task, server, child, beat, watching, failures, timer, procs,
                   canMint, mail, exited>>

\* Whatever the state was.
HandleConnect(p) ==
    /\ NextEvent(p, "connect")
    /\ conn' = p
    /\ state' = "handshaking"
    /\ UNCHANGED minting

HandleHello(p) ==
    /\ NextEvent(p, "hello")
    /\ minting' = minting \cup {p}
    /\ UNCHANGED <<state, conn>>

\* Whosever socket it is that closed.
HandleClose(p) ==
    /\ NextEvent(p, "close")
    /\ conn' = NoProc
    /\ UNCHANGED <<state, minting>>

Minted_NoTimestamp(p) ==
    /\ p \in minting /\ canMint
    /\ minting' = minting \ {p}
    /\ Tell("start")
    /\ state' = "running" /\ watching' = TRUE
    /\ UNCHANGED <<task, server, child, conn, beat, failures, timer, procs,
                   canMint, events, exited>>

Minted_WatchOnce(p) ==
    /\ p \in minting /\ canMint
    /\ minting' = minting \ {p}
    /\ Tell("start")
    /\ state' = "running" /\ watching' = (failures = 0) /\ beat' = "recent"
    /\ UNCHANGED <<task, server, child, conn, failures, timer, procs,
                   canMint, events, exited>>

\* After the await: the process may be dead by now, or stop() called.
Minted(p) ==
    /\ p \in minting
    /\ canMint
    /\ minting' = minting \ {p}
    /\ Tell("start")
    /\ state' = "running"
    /\ watching' = TRUE
    /\ beat' = "recent"
    /\ UNCHANGED <<task, server, child, conn, failures, timer, procs,
                   canMint, events, exited>>

MintFails(p) ==
    /\ p \in minting
    /\ ~canMint
    /\ minting' = minting \ {p}
    /\ UNCHANGED <<manager, procs, canMint, mail, events, exited>>

\* HeartbeatLoop is a goroutine of its own: it begins once the room is joined, ends with
\* ctx, and sends in between whatever becomes of the publish loop.
Beats(p) == proc[p] = "publishing"

Heartbeat(p) ==
    /\ Beats(p)
    /\ events[p] = <<>>
    /\ beat' = "recent"
    /\ UNCHANGED <<task, state, server, child, conn, watching, failures, timer,
                   procs, ipc>>

-----------------------------------------------------------------------------
(* The heartbeat watchdog.                                                 *)

\* More than HEARTBEAT_TIMEOUT_MS pass.
Overdue ==
    /\ beat = "recent"
    /\ beat' = "old"
    /\ UNCHANGED <<task, state, server, child, conn, watching, failures, timer,
                   procs, ipc>>

Watchdog_Terminate ==
    /\ watching /\ state = "running" /\ beat = "old"
    /\ child # NoProc /\ Live(child)
    /\ child' = NoProc /\ state' = "restarting"
    /\ failures' = failures + 1 /\ timer' = (failures < MaxRestarts)
    /\ UNCHANGED <<task, server, conn, beat, watching, procs, ipc>>

\* SIGKILL; the restart is left to the exit handler.
Watchdog ==
    /\ watching
    /\ state = "running"
    /\ beat = "old"
    /\ child # NoProc
    /\ Live(child)
    /\ Ends(child)
    /\ UNCHANGED manager

-----------------------------------------------------------------------------
(* The publisher process.                                                  *)

Goes(p, from, to) ==
    /\ proc[p] = from
    /\ proc' = [proc EXCEPT ![p] = to]
    /\ UNCHANGED <<manager, born, hung, minting, canMint, mail, exited>>

\* Dial repeats until there is a socket; hello follows at once.
Dial(p) ==
    /\ server
    /\ p \notin hung
    /\ Goes(p, "dialing", "waiting")
    /\ events' = [events EXCEPT ![p] = <<"connect", "hello">>]

\* Of a start and a stop that are both there, select takes either.
GetStart(p) ==
    /\ "start" \in mail[p]
    /\ p \notin hung
    /\ Goes(p, "waiting", "starting")
    /\ UNCHANGED events

Publish(p) == p \notin hung /\ Goes(p, "starting", "publishing") /\ UNCHANGED events

\* Told to stop, by a signal, or because the publish loop ended; also when that loop is
\* stuck, for the main goroutine waits beside it.
Leave(p) == Goes(p, "publishing", "leaving") /\ UNCHANGED events

\* A process that still waits for "start" returns at once.
ObeyStop(p) ==
    /\ "stop" \in mail[p]
    /\ p \notin hung
    /\ proc[p] = "waiting"
    /\ Ends(p)
    /\ UNCHANGED manager

\* A normal exit, an error that is fatal, a timeout of its own, or a crash.
Exit(p) ==
    /\ Live(p)
    /\ Ends(p)
    /\ UNCHANGED manager

\* A driver or a library call does not return.
Hang(p) ==
    /\ Live(p)
    /\ p \notin hung
    /\ hung' = hung \cup {p}
    /\ UNCHANGED <<manager, born, proc, ipc>>

-----------------------------------------------------------------------------
ProcStep(p) ==
    \/ Dial(p) \/ GetStart(p) \/ Publish(p) \/ Leave(p) \/ ObeyStop(p)
    \/ Exit(p) \/ Hang(p)

SocketStep(p) == HandleConnect(p) \/ HandleHello(p) \/ HandleClose(p)

MintStep(p) == Minted(p) \/ MintFails(p)

ExitStep(p) == Crashed(p) \/ ExitAwaited(p) \/ ExitLate(p)

Finished ==
    /\ task = "stopped"
    /\ \A p \in Procs : ~Live(p)
    /\ UNCHANGED vars

Next ==
    \/ Start \/ Stop \/ StopTimeout \/ RestartTimer \/ Overdue \/ Watchdog
    \/ \E p \in Procs : ProcStep(p) \/ SocketStep(p) \/ MintStep(p) \/ ExitStep(p)
    \/ \E p \in Procs : Heartbeat(p)
    \/ Finished

Spec == Init /\ [][Next]_vars

\* Node handles its events and fires its timers, and time passes for a child
\* that is stuck and sends no heartbeats.  Nothing is asked of the processes.
FairSpec ==
    /\ Spec
    /\ \A p \in Procs : WF_vars(SocketStep(p)) /\ WF_vars(MintStep(p)) /\ WF_vars(ExitStep(p))
    /\ WF_vars(RestartTimer)
    /\ WF_vars(StopTimeout)
    /\ WF_vars(Watchdog)
    /\ WF_vars(child \in hung /\ ~Beats(child) /\ Overdue)

-----------------------------------------------------------------------------
(* Properties.                                                             *)

\* Every variable has its type.
TypeOK ==
    /\ task \in {"new", "up", "waiting", "stopped"}
    /\ state \in ManagerStates
    /\ server \in BOOLEAN
    /\ child \in Procs \cup {NoProc}
    /\ conn \in Procs \cup {NoProc}
    /\ beat \in {"none", "recent", "old"}
    /\ watching \in BOOLEAN
    /\ failures \in 0 .. MaxRestarts + 1
    /\ timer \in BOOLEAN
    /\ minting \subseteq Procs
    /\ canMint \in BOOLEAN
    /\ born \in 0 .. MaxRestarts + 1
    /\ proc \in [Procs -> Phases]
    /\ hung \subseteq Procs
    /\ mail \in [Procs -> SUBSET {"start", "stop"}]
    /\ events \in [Procs -> Seq({"connect", "hello", "close"})]
    /\ exited \subseteq Procs

(***************************************************************************)
(* The manager never loses sight of a process: one that lives is           *)
(* this.child, which is all that the watchdog and stop() can kill          *)
(* (go-publisher-manager.ts:410, 434, 498-505).                            *)
(***************************************************************************)
OneChild == \A p \in Procs : Live(p) => child = p

(***************************************************************************)
(* When stop() has returned no publisher lives, whatever was on its way    *)
(* when it was called: room.disconnect and process.exit may follow         *)
(* (go-publisher-manager.ts:156-178, index.ts:439-446).                    *)
(***************************************************************************)
StoppedIsDead == task = "stopped" => \A p \in Procs : ~Live(p)

\* The inductive strengthening of both: what is set, awaited or not yet emitted
\* belongs to the child, and every start but the last has failed.
SupervisionInv ==
    /\ OneChild
    /\ StoppedIsDead
    /\ task = "new" => born = 0 /\ failures = 0 /\ child = NoProc
    /\ task = "waiting" => child # NoProc
    /\ timer => task = "up" /\ child = NoProc /\ born = failures /\ failures <= MaxRestarts
    /\ child # NoProc => child = born /\ born = failures + 1
    /\ \A p \in exited : child = p /\ ~Live(p)

(***************************************************************************)
(* A process that publishes is watched, although its watcher is started by *)
(* one callback, stopped by others and heeds only the state "running"      *)
(* (go-publisher-manager.ts:337-339, 367-372, 436).                        *)
(***************************************************************************)
PublisherWatched ==
    \A p \in Procs :
        proc[p] = "publishing" /\ task = "up" => watching /\ state = "running"

\* A publisher that is stuck where no heartbeats are sent - after its hello, in its start,
\* on its way out - ends, by the watchdog or by stop(): the watch begins with the token,
\* not with the first heartbeat (go-publisher-manager.ts:337-339, main.go:188, 207, 240).
HungIsKilled ==
    \A p \in Procs :
        (proc[p] \in {"waiting", "starting", "leaving"} /\ p \in hung /\ canMint) ~> ~Live(p)

\* The end of a process is followed by another one, unless the limit is
\* reached or the manager is stopped.
RestartFollows ==
    \A p \in Procs :
        (p \in exited) ~> (born > p \/ state = "failed" \/ task # "up")

\* stop() returns, also when the process is stuck or never was.
StopReturns == task = "waiting" ~> task = "stopped"

\* The manager supervises one process at a time.
Supervision == INSTANCE Supervisor WITH
    MaxStarts <- MaxRestarts + 1,
    alive <- \E p \in Procs : Live(p),
    starts <- born,
    closed <- task \in {"waiting", "stopped"}

\* Under every interleaving the manager implements the supervisor.
ImplementsSupervisor == Supervision!Spec

=============================================================================
