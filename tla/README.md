# RVEP: TLA+ models, checks and proofs

RVEP lets an operator drive a vehicle from a browser. This directory holds TLA+
modules that model the parts of it in which concurrency, failure and timing
decide whether it is safe, TLC configurations that check them on small
instances, and proofs for every instance. Paths below are relative to `src/`;
`PROJECT.json` maps every definition to the lines it models.

## 1. The system

```
 browser (apps/web)                backend (apps/backend)        PostgreSQL
   cockpit page  ---- HTTP ------>  Next.js route handlers ---->  leases, permissions,
   ControlChannel                    one process, many awaits      sessions, users, logs
        |  LiveKit room (SFU): reliable + lossy data channels, video
        +------> edge agent (apps/mock-edge) -- Unix socket --> Go video publisher
        +------> R2 bridge (apps/r2-bridge)  -- ROS 2 --------> vehicle
```

| Component | State it keeps | Operations | Hard behaviour | What makes it correct |
|---|---|---|---|---|
| Control lease (`apps/backend/.../control-lease`) | rows of `control_leases` | claim, release, takeover | handlers interleave at every database access; serializable transaction, advisory lock; plain statements beside them | one holder; nobody else ends a lease; every claim is answered |
| Permissions | rows of `vehicle_permissions` | grant, revoke | read before, used after | leases and tokens only for the permitted |
| LiveKit tokens | none (JWT of one hour) | issue | lease read one await before the token is made | no token beside another's lease, but for one claimed since the check |
| Authentication | `failedLoginCount`, `lockedUntil`, `refreshTokenVersion` | login, logout, refresh | lost updates, reuse of a rotated token | one live refresh token; none comes back to life; the failure counter stays sound |
| Internal endpoints | log tables, users, sessions and assets made on demand | three POSTs | find-then-create | one asset for a session |
| Edge agent, safe mode (`mock-edge/src/index.ts`) | `SafetyState`, `activeRoom` | handle a command, watch heartbeats, join and lose the room, shut down | lost, late and reordered commands, restarts, several pages | dead man's switch; stops are kept; the page shows the truth |
| Edge agent, video publishers (`go-publisher-manager.ts`) | manager state, child, connection, timers | start, stop, hello, heartbeat, exit, restart | late messages of a process already replaced | one child that is watched; bounded restarts; stop ends all |
| Edge agent, telemetry and dataset | file, counters, timers, calls of `shutdown()` | append, tick, finalize, shut down | a second signal, a lost POST, a crash before finalize | one right manifest for every file; every n-th message sampled |
| Cockpit page and `ControlChannel` | room, seq, epoch, shown safety state | heartbeat, movement, stop, resume, show | outages; two devices' clocks | shows "active" only if it is |
| Input devices (joystick, gamepad, visibility) | drag, last buttons | send movements and stops | disabled in mid-drag | no motion without a hand |
| API client (`api-client.ts`) | access token, timer; the cookie all tabs share | request, refresh, login, logout | refreshes of several jobs and tabs overlap, answers are lost | nobody is signed out unasked; every request returns |
| R2 bridge (`main.py`) | last heartbeat, watchdog state | forward, watch | takes movements whatever its watchdog found | a moving vehicle has an operator who was heard |
| Go publisher (`edge-publisher-go`) | IPC connection, pipeline, channel, room | IPC, publish, convert AVCC to Annex B | goroutines that share a room, a full channel, reconnection | frames in order, accounted for and decodable; the room is left |

How they interact: a page asks the backend for an operator token
(`livekit/token`), joins the room, and from then on talks to edge and bridge
directly; the backend is not asked again. The page never claims a lease: leases
and the room meet only in the check the token handler makes. Edge and bridge
broadcast safety events and telemetry to everyone in the room. The edge posts
audit events to the backend and ignores the answers.

`PROJECT.json` lists every component with its status and every hazard with its
line; a hazard with no property says why.

## 2. Plan

Modules, most important behaviour first:

1. **`ControlLease`**, abstract **`LeaseLock`**: who may drive. *Done.*
2. **`EdgeSafety`**, abstract **`DeadMansSwitch`**: whether the vehicle stops. *Done.*
3. **`GoPublisher`**, abstract **`Supervisor`**: the life of a video publisher under its
   manager. *Done.*
4. **`AuthTokens`**, abstract **`TokenChain`**, composed with **`ApiClient`**: login lock,
   refresh rotation, and the tabs of a browser that use them. *Done.*
5. **`R2Bridge`** (commands and watchdog), composed with the page's joystick, gamepad
   and dialog in **`Teleop`**. *Done.*
6. **`AnnexB`** (the AVCC conversion) in **`VideoPipeline`** (the goroutines of a publisher
   process). *Done.*
7. **`EdgeRecords`**: what edges record, and whether it survives their end. *Done.*

Left: the life of a token beside permissions that are revoked. Section 10 says
what is proved and what only TLC checks.

There is one run for each question, and two violation runs; where a disagreement
is plain from one definition it is described in section 11 only.

## 3. ControlLease

One vehicle; `Requests` are HTTP requests, each served by a handler with its own
program counter and locals, as Node runs them: everything between two awaits is
atomic, and every database access is an action. Rows of `control_leases` are
named by the request that created them.

| Code | Model |
|---|---|
| `claim/route.ts` POST | `Receive`, `ClaimPermission`, `ClaimSession`, `ClaimBegin` (snapshot), `ClaimLock` (advisory lock), then `ClaimDeny`, `ClaimCommit` or `ClaimRollback` |
| `release/route.ts` POST | `ReleaseFind`, `ReleaseWrite` |
| `takeover/route.ts` POST | `TakeoverFind`, `TakeoverRevoke`, `TakeoverVerify`, `TakeoverCreate` |
| `permissions` POST, DELETE | `Grant`; `RevokeFind`, `RevokeDelete` |
| `livekit/token` POST | `TokenPermission`, `TokenLease`, `TokenIssue` |
| an exception, a dead process | `Fail` at any point |

*PostgreSQL* (external). A `SERIALIZABLE` transaction reads the snapshot of its
first statement. That statement is the one that waits for the advisory lock
(`claim/route.ts:70`), so a claim that waited still reads the past. `Conflict`
says when the commit then fails: someone changed the row the claim updates, or
another serializable claim inserted a row after the snapshot, in which case each
of the two read what the other wrote. Statements outside serializable
transactions (takeover) take no part in that detection. The claim's statements
after the lock and its commit are one action: they read only the snapshot and
their writes become visible together. A takeover or release that updates the
same row meanwhile waits for the commit and then overwrites it, which is the
order "commit first".

*Left out*: the vehicle lookup (one vehicle that exists), audit rows (appended,
errors swallowed), users and sessions that change (no endpoint changes them
during control), `connectionEpoch` (copied, never compared by the backend),
and JWTs whose role is stale (the role is the one in the token, as in
`auth-context.ts`). `Permitted` and `HasPermission` read the one permission row
of the user. `token` records until when a token made for a user may publish.

**Properties.**
`SingleActive`: never two ACTIVE leases. `ExclusionInv` is its inductive
strengthening, which only the proofs use: `HandlersConsistent` (what a handler relies on between awaits),
`SnapshotsSound` (the snapshot of a running claim shows at most one ACTIVE lease,
a lease it shows as ended is over, and rows added since come from claims) and `TakenOver`
(beside a takeover no lease is ACTIVE but the one it is about to revoke). It is
inductive under `TakeoverAlone`: no takeover runs, from its first read on, beside another
takeover or a claim that has its snapshot. Nothing in the code prevents the overlap.
`NoStolenLease`: a valid lease ends only by its operator or by an admin's
takeover, whatever the others do late.
`NoTokenBesideLease`: when an operator's token is made, an await after the check, another
operator's valid lease is one claimed since the check, although the check reads one row
without an order. (`snap` keeps what the check read. A lease claimed in between
is beside the token: nothing looks again.) `TokenInv`, which only the proofs use, is its
inductive form.
`EveryRequestAnswered`: nothing keeps the advisory lock.
`ImplementsLeaseLock`: the table refines `LeaseLock`, a lock with a time limit;
the abstract holder is the operator of the ACTIVE row.

| Run | Shows | Bounds |
|---|---|---|
| `lease_race` | `SingleActive`, `NoTokenBesideLease`, `ImplementsLeaseLock`, `EveryRequestAnswered` (under fairness) | 3 requests out of claims and releases of two operators and a token; no takeover |
| `lease_all` | `TypeOK`, `NoStolenLease`, with takeovers | 3 requests of 19 kinds, good and bad |
| `lease_exclusive` | **violated**: takeover and claim leave two ACTIVE leases | |

Why the bounds are enough: a conflict involves a row, a claim that reads it and
one handler that changes it, so three requests give every pairwise race on top of
an existing lease, and expiry needs a lease time of 1 and a clock that reaches it. Handlers
are finite, so is the state space; `MaxTime` is the only counter. In the
violation run the clock stands still, to keep the counterexample short.

*Fairness*: weak fairness of each handler's steps. Node's event loop resumes
every handler whose statement has returned, and PostgreSQL hands a transaction
lock to its waiters. Time and failures are not fair: nothing relies on them.

## 4. EdgeSafety

The edge agent, any number of visits of the cockpit page (each has one
`ControlChannel`, one epoch, one counter `seq`), and the room between them.

| Code | Model |
|---|---|
| `page.tsx` connect and cleanup, `ControlChannel` | `Open`, `Close`, `SendHeartbeat`, `SendMovement`, `SendEmergencyStop`, `SendResume` |
| `page.tsx` onData | `ReceiveEvent` |
| `handleCommand` | `IgnoreStale`, `HandleHeartbeat`, `HandleEmergencyStop`, `HandleResume`, `DenyResume`, `HandleMovement`, `BlockMovement` |
| `startHeartbeatWatcher` | `Tick`, `CheckHeartbeat` |
| `main`: start, connect, Disconnected, shutdown, process end | `Boot`, `JoinRoom`, `LoseRoom`, `Shutdown`, `Exit` |
| LiveKit (external) | `Lose`, `Outage`, `Reconnect`, `Arrives`, `Deliverable`, `OutOfRoom` |

*The network.* Reliable commands of one page arrive in order, lossy ones in any
order or not at all, and the two channels are not ordered between each other. A
reliable command is lost only if an end of its way leaves the room or is
interrupted. A page in an outage gets the events sent meanwhile if LiveKit could
resume the connection and none of them if it had to make a new one
(`Deliverable`). `wire` is a set: no command is delivered twice, which the seq
filter would drop anyway.

*Time* passes in ticks of the watcher's resolution and is kept as ages: `beat`
since the last heartbeat, `watch` since the watcher ran. Beyond the timeout all
ages are alike (`Older`), so behaviours are not bounded in time. `lastHeartbeatAt
= 0` is `Never`; a resume then counts as stale because the machine has been up
for more than the window (`nowMs` is the monotonic clock), which the model assumes.

*Left out*: encoding and the vehicle id; the payload of commands and of events
(what a page shows depends on the event only; `edge_disconnecting` shows the
same as `safe_mode_entered`, and `edge_online` shows nothing); a
`publishData` that throws at the edge while it is in the room; `action` and
`config` commands, which the edge filters like movements and only logs; the
R2 bridge and what starts and ends a drag (both in `Teleop`): a page may send
movements once it has heard from the edge. `motion` and `stopped` are history: the last movement handed
to the vehicle and the last stop obeyed per page.

**Properties.**
`ImplementsSwitch`: the edge refines `DeadMansSwitch`, which arms only upon a
fresh sign of life and lets no time pass beyond the limit while armed and silent.
`SilenceBounded`, which only the proofs use, says it as an invariant: out of safe mode
the last heartbeat is at most the timeout and one watcher interval old; `SwitchInv` is
its inductive form.
`StopHolds`: after a stop was obeyed, nothing its page sent before it moves the
vehicle or ends safe mode, restarts of the edge included.
`ViewsAgree`: with no event on its way, a page shows "active" only if the edge is.
`SilenceStops`: when all pages are gone the vehicle stops.
`RecoveryOffered`: when the edge is in safe mode, a connected page stops showing
"active".

| Run | Shows | Bounds |
|---|---|---|
| `edge_page` | `TypeOK`, `StopHolds`, `ImplementsSwitch` | one page, outages, 4 commands, 2 boots, timeout 2, interval 1, window 1 |
| `edge_live` | `ViewsAgree`, `SilenceStops`, `RecoveryOffered` | one steady page, 2 boots; the real times in units of 500 ms: 6, 1, 2 |
| `edge_stop` | **violated**: a heartbeat overtakes an emergency stop, which is dropped | |

Four commands are the least with which a page can send its first heartbeat,
resume, stop, and have an older command overtake; two boots let commands outlive
the process they were sent to. The bounds are `MaxSeq` and `MaxBoots`. The runs have one
page; of several pages, whose epochs and heartbeats mix, the theorems speak: all
safety properties are proved for any number of pages (section 10).

*Fairness* in `edge_live`: weak for `Tick` and
`CheckHeartbeat` (Node's timers fire), weak for `Reconnect` (LiveKit keeps
trying), strong for `ReceiveEvent`, since an outage disables it again and again
and a reliable event arrives in the end. Nothing is assumed of operators.

`ViewsAgree` speaks of steady pages only; with outages it fails (section 11).

## 5. GoPublisher

One camera: its `GoPublisherManager`, the processes the manager starts one after
the other, numbered in that order, and the Unix socket.

| Code | Model |
|---|---|
| `start`, `stop`, `waitForExit` | `Start`; `Stop`, then `ExitAwaited` or `StopTimeout` |
| `spawnPublisher`, `onChildExit`, the restart timer | `SpawnPublisher`, `Crashed`, `ExitLate`, `RestartTimer` |
| `onPublisherConnected`, its close handlers | `HandleConnect`, `HandleClose` |
| `onHello` up to and after its await | `HandleHello`; `Minted`, `MintFails` |
| `onHeartbeat`, the watcher | `Heartbeat`; `Overdue`, `Watchdog` |
| `HeartbeatLoop`, a goroutine of its own | `Beats` |
| `cmd/publisher/main.go`, `internal/ipc/server.go` | `Dial`, `GetStart`, `Publish`, `Leave`, `ObeyStop`, `Exit`, `Hang` |

`start()` is one action: the signals that call `stop()` are handled only after
it has returned. `stop()` may be called twice (SIGINT and SIGTERM). The end of a
process puts a "close" on its socket and an "exit" into Node's hands (`exited`),
and the order of the two, and of what was written before, is open. A restart
waits at least a second (`backoffMs`), within which the event loop has handled
what a dead process left behind: `Settled` is this assumption. A spawn may fail,
which Node reports as "error" without "exit".

*Left out*: the length of the delays; lines that do not parse; `error` messages
(logged only); the room's own reconnections, a publish loop that ends is
`Leave`; the death of the agent, which ends its publishers as well: their socket
and their stderr are closed, and a Go process that writes to a closed stderr is
ended by SIGPIPE. The publisher's systemd unit starts processes of its own,
which no manager knows.

**Properties.**
`OneChild`: a process that lives is `this.child`, so it can be killed.
`StoppedIsDead`: after `stop()` none lives. `SupervisionInv`, which only the
proofs use, is the inductive form of both. `PublisherWatched`: whoever publishes is watched.
`HungIsKilled`: a child that is stuck while it waits for its start, starts or leaves ends.
It does not speak of a child whose publish loop is stuck while it publishes: that one goes on
beating (`Beats`), so the watchdog does not notice it (section 11), until it is told to stop.
Nor of one stuck before its hello, which nothing watches.
`RestartFollows`: the end of a process is followed by another one, the limit, or a stop.
`StopReturns`: `stop()` returns. `ImplementsSupervisor`: the manager
refines `Supervisor`: one process at a time, `MaxRestarts + 1` starts, none after
`stop()`.

| Run | Shows | Bounds |
|---|---|---|
| `publisher` | all of the above | `MaxRestarts = 2` |

Nothing else is bounded. Two restarts give a first, a middle and a last process.

*Fairness*: weak for each of Node's callbacks and timers, and for the passing of
time while the child is stuck and sends no heartbeats. Nothing is asked of the processes: they may crash
or hang in every phase.

## 6. Sign-in: AuthTokens and ApiClient

`AuthTokens` is the row of one user and the endpoints that use it, each access to
the row an action; `ApiClient` extends it by the tabs of one browser, which keep an
access token each and share the refresh cookie.

| Code | Model |
|---|---|
| `auth/login/route.ts`, `recordLoginFailure` | `LoginLocked`, `LoginFind`, `LoginFailure`, `LoginSuccess` |
| `auth/refresh/route.ts` | `RefreshRead`, `RefreshBump` |
| signing the tokens of both | `Sign` |
| `auth/logout/route.ts`, the middleware, other endpoints | `Logout`, `LogoutFails`; `Unauthenticated`; `Serve` |
| an exception in a handler | `HandlerFails` |
| `request()`, first try and after a 401 | `BeginLogin`, `BeginRequest`, `Answered`, `Unauthorized`, `Refreshed` |
| `refresh()` | `RefreshRefused`, `Refreshed`, `TimerRefreshed` |
| `setAccessToken`, `refreshTimer` | `SetAccess`, `ClearAccess`, `TimerFires` |
| login and vehicles pages, what they do with outcomes | `Finish`, `view` |
| the browser and the network (external) | `SetCookie`, `FetchFails`, `AnswerLost`, `Reload` |

A refresh token is the version and the expiry it was signed with, an access token
its expiry. In `AuthTokens!Spec` a client sends any call with any token ever
issued, at any time; what `ApiClient` sends is a special case, so the theorems about
`AuthTokens!Spec` speak of the backend under every client. `Sign` is an action of
its own since the transaction of a refresh is over by then: a failure there leaves
the version raised.

`PostgreSQL` runs the refresh transaction at READ COMMITTED: its two statements are
two actions, and nothing of what the first read is looked at again by the second.

*Left out*: users other than one, who share nothing; an unknown email (answered
like a wrong password, no write); signatures, which are checked and never forged;
audit rows.

**Properties.**
`OneLiveToken`: at most one refresh token passes the version check.
`TokensRotate`: the endpoints refine `TokenChain`: a token that was rotated or
revoked never becomes live again.
`LockInv`: the failure counter never passes the limit, nor stands at it without a lock.
`LockStands`: which steps may lift a lock that stands.
`JarIsCurrent`: unless authentication calls overlapped or an answer was lost, the
cookie is the one live token.
`ReuseNeedsOverlap`: a token is exchanged twice only by overlapping calls.
`RefreshPlanned`: while no refresh has failed, a tab with an access token will renew it.
`EveryRequestReturns`: every `request()` comes back.

`crowded`, `missed`, `refused`, `exchanged` and `reused` are history: they say which of
these excuses applies, and no action reads them.

| Run | Shows | Bounds |
|---|---|---|
| `sign_in` | `ClientTypeOK` and the safety properties above | two tabs, two calls at once, three jobs, a lock after 2 failures for 2 ticks, tokens of 2 and 3 ticks, a clock that reaches 4 |
| `sign_in_returns` | `EveryRequestReturns` | one tab, clock to 3 |

Two calls at once and a third after them are what every race on the one row needs:
reader, writer, and a later observer. The clock passes the expiry of the lock and
of both kinds of tokens. Tabs and slots are interchangeable, hence the symmetry of
the safety run. `MaxVersion` is never reached.

*Fairness*: weak for the steps of a handler and for a script that has been
answered. The network owes nothing.

## 7. Teleop: a page and the R2 bridge

`R2Bridge` is the bridge under any sequence of commands; `Teleop` adds the page with
its joystick, gamepad, stop button and dialog, and the two channels between them.

| Code | Model |
|---|---|
| `main.py` start, connect, disconnected, shutdown, end | `Join`, `Announce`, `Disconnected`, `Shutdown` then `Exit`, `Crash` |
| `main.py` `publish_safety`, which may fail | `Publish` |
| `main.py` `on_data` | `Heartbeat`, `Movement`, `EmergencyStop`, `ResumeControl` |
| `main.py` `Watchdog` | `Period`, `Watch` |
| `page.tsx` connect, cleanup, onData, orientation | `Open`, `Close`, `Outage`, `Reconnect`, `ReceiveEvent`, `LoseEvent`, `Rotate` |
| `Joystick.tsx` | `PointerDown`, `PointerMove`, `PointerUp`, `JoystickTick` |
| `useGamepad.ts` | `StickMoves`, `GamepadPoll` |
| stop button, `useVisibilityGuard`, `RecoveryModal` | `PressStop`, `ConfirmRecovery` |
| LiveKit (external) | `ReceiveLossy`, `LoseLossy`, `ReceiveReliable`, `LoseReliable`; `Cut` and `Mend`, an outage at the bridge |

Axes are out of their dead zone or not, and the vehicle moves or stands; it goes on
as last told, as the bridge publishes a Twist per movement and nothing in between.
`lossy` is a set, from which anything arrives in any order or not at all;
`reliable` and `events` are sequences. What is sent without a connection is taken to
be lost. An event equal to the last one in the queue would tell the page
nothing and is merged with it (`Says`).

Either end may be cut off from the room and come back: the page by `Outage` and
`Reconnect`, the bridge by `Cut` and `Mend`, of which no handler is told. Then heartbeats do
not arrive, and the watchdog trips while what it has to say may not get out.
`publish_safety` catches whatever the publication throws, logs it and goes on
(`main.py:316-322`), so every `Publish` may fail, at any time; it must fail once the room
is left for good. An event published before the connection breaks off may arrive or,
if the page is the one cut off, be lost (`LoseEvent`). At a shutdown the bridge awaits a
publication and the departure (`leaving`) and still obeys commands meanwhile.

*Left out*: the sequence filter and epochs, which the bridge does not have; haptics;
telemetry; a second page.

**Properties.** Each states its exceptions exactly, as history variables:
`MovingMeansHeard`: whenever the watchdog has looked, a moving vehicle has an
operator heard within the timeout, or moves on a command that was taken after a
trip, before the first heartbeat or before a crash (`loose`).
`ViewHonest`: a connected page that has heard all there was to hear and shows "active" has
a bridge that has not tripped, or that could not publish what it had to say last
(`unsaid`), or that answered a resume although it had tripped (`feigned`). "All there was to hear":
no event is on its way, and none was lost over an outage of the page without
another one since (`missed`). So a tripped bridge beside a page that shows "active" does exist,
after exactly these three; nothing repeats an event that was lost.
`HandsOffStill`: a vehicle nobody touches stands, unless the movement that was to
stop it was not sent, lost or overtaken (`excused`).

| Run | Shows | Bounds |
|---|---|---|
| `teleop` | `TeleopTypeOK` and the three properties | a timeout of one watchdog period, two reliable commands and two events under way; restarts, outages of either end and rotations without bound |

Two of each queue give every pair of commands or events that can pass each other; with a
timeout of one period the age of a heartbeat is new, at the timeout or beyond it, and "none
yet" besides. The proofs have any timeout and any queues. No
liveness is claimed: nothing here is promised to happen in the end but by the
watchdog, whose looks `MovingMeansHeard` speaks of.

## 8. Video: AnnexB and VideoPipeline

One publisher process, in either mode: GStreamer's thread, the goroutine of
`PublishLoop` and the main goroutine. (How it is started, watched and stopped by
the edge agent is `GoPublisher`.)

| Code | Model |
|---|---|
| `cmd/publisher/main.go`, `direct.go` | `NewPipeline`, `StartPipeline`, `FirstConnect`, `FirstConnectFails`, `AskedToStop`, `LoopFailed`, `StopPipeline`, `PipelineStopped`, `LeaveRoom`, `Part`, `Parted`, `CleanExit` |
| `go_on_sample` | `Capture` |
| `publishUntilDisconnect` | `TakeSample`, `WriteSample`, `WriteFails`, `LoopCancelled` |
| `PublishLoop` | `Backoff`, `LoopParts`, `LoopParted`, `Rejoin`, `SetRoom`, `PublishTrack` |
| `Connect` as the loop calls it: the join, `p.room = room`, the track | `Rejoin`; `SetRoom`; `PublishTrack` |
| `Disconnect`: the check, `p.room.Disconnect()`, `p.room = nil` | `LeaveRoom` or `Backoff`; `Part` or `LoopParts` (`Leave`); `Parted` or `LoopParted` (`Forget`) |
| `internal/h264/avcc_to_annexb.go` | `AVCCToAnnexB`, `isAnnexB`, `ToAnnexB` |
| the room that drops a participant (external) | `RoomLost` |

`p.room` is read and written by two goroutines without a lock, so every access to it is an
action: the check, the call, which reads it again and blocks while the room is left,
and the `nil` after it, which erases whatever room is there by then; and in
`Connect` the join, and the assignment that follows it. The first `Connect` is one
action, as no other goroutine runs yet. A read sees the last value written; that the
compiler may read `p.room` once for check and call is the case in which nothing comes
between them. What a frame holds is chosen
when the loop looks at it. What `WriteSample` does on a track that has no connection
is LiveKit's affair: it may succeed or fail.

`AnnexB` puts beside the conversion two references: the framings as an encoder
writes them (`LengthFramed`, `CodeFramed`) and the reading of a decoder (`ReadAs`: the
bytes between the places where 00 00 01 stands, `Marks`). Both say what the data is and
compute nothing; the conversion is the code's loop, as a recursive function of the
position. What is assumed of an encoder (`UnitsAssumption`, `Sound`): a NALU neither starts
nor ends with zero, is not empty, fits its length field, and never holds 00 00 and then
a byte below 3.

*Left out*: the wait between reconnections; statistics but for the frames counted;
media profiles; GStreamer's states inside `Pipeline.Start`.

**Properties.**
`FramesKept`: frames reach the room in order, none twice, and every one is lost to a
full channel, waits, or is counted once.
`Decodable`: what is written is read as the NALUs the encoder made, unless `isAnnexB`
takes the first length for a start code (1, or 256 to 511: `Mistaken`); then the unit is
passed on as it came.
`RoomLeft`: the room never counts a publisher twice, and one that ended cleanly not at
all, unless joining and leaving have crossed (`crossed`): the loop joined after main had looked at
`p.room` for the last time (`HasLooked`), or had joined before and had not yet set `p.room` when main
looked. In particular a `nil` that erases a room just joined is no third case: the
loop is then past main's last look.

| Run | Shows | Bounds |
|---|---|---|
| `video` | `VideoTypeOK` and the three properties | units of one and two NALUs, in the three framings and cut short; bytes of four values; a channel of 2, 5 frames, 3 reconnections as in the code |

With four byte values the lengths 1 and 4 to 7 begin like a start code, as 1 and 256
to 511 do with 256; NALUs of 1, 2 and 4 bytes give every case. Five frames fill the
channel, overflow it and leave one in the loop's hand. TLC
evaluates `UnitsAssumption` of these NALUs. The process may end, so deadlock is not checked; no liveness is claimed.

## 9. EdgeRecords

What edge agents write down: the lines of `metadata.jsonl`, the telemetry they sample
for the backend, and the manifest of the file that `shutdown()` registers. An edge is
one run of the process, hence one session (a random id); each signal calls
`shutdown()` anew, and the calls interleave at their awaits.

| Code | Model |
|---|---|
| `MetadataWriter.append`, on its timer | `AppendLine` |
| `MockTelemetryPublisher.tick`, up to and after its await, `postAudit` | `Tick`; `Published`, `Sampled` |
| `shutdown()`, await by await, with `finalize` and `telemetry.stop` | `Signal`, `Announced`, `PostEnds`, `ExitProcess` |
| `internal/dataset-asset` POST | `ReceiveManifest`, `FindSystemUser`, `CreateSystemUser`, `CreateAsset`, `HandlerFails` |
| the network, a process that is killed or throws (external) | `PostLost`, `Crash` |

The session's row is found or created in the same action as the asset: nobody else
names that session, so nothing can come between. `vehicles` says which edges have a
vehicle in the backend; the others are answered 404. A row of the system user
that is there already fails the second `create`, as the e-mail address is unique.

*Left out*: the contents of lines and messages; `control-event` and
`telemetry-frame`, which append what they are sent to log tables; the check of the shared token and
of the body, which the edge always passes; what happens before the handlers of
signals are installed, where a signal just kills the process (`Crash`).

**Properties.**
`ManifestKept`: the backend has no more than one manifest of a session, it counts the
lines of the file for good, and an edge that exits of its own accord has one,
unless a second signal cut its POST short, a request or handler failed (`faulty`), or two
edges registered at once (`crowded`).
`AuditSampled`: as long as no publication outlasts a tick (`slow`), the messages posted
to the backend are those whose number `EveryN` divides, though the counter is read after
the await.
`ShutdownEnds`: a signal ends the process, whatever the backend answers.

| Run | Shows | Bounds |
|---|---|---|
| `records` | the three properties | two edges, two signals for the first and one for the second; a line, two messages and `EveryN = 2` for the first |

Two calls of `shutdown()` give every order in which one finds the file open and another
does not; two edges are what the race for the system user takes; one line is enough to
be written too late. Every `vehicles` is tried. Processes end, so deadlock is not checked.

*Fairness*: weak for the steps of `shutdown()`: LiveKit's calls return, `fetch` is
answered or gives up by its own timeouts (the code sets none), and `stop()` of the
publishers returns, which is `StopReturns` of `GoPublisher`. Timers, network and backend
owe nothing.

## 10. Proofs

All checked by TLAPS, for every value of the constants that satisfies the
assumption of the module (`ConstantsAssumption`, `MaxRestartsAssumption`,
`AuthAssumption`, `ClientAssumption`, `TimeoutAssumption`, `BaseAssumption`, `VideoAssumption`,
`UnitsAssumption`, `RecordsAssumption`). `ClientAssumption` says that the timer's margin is positive and
less than the life of an access token, as 5 min (`api-client.ts:40`) and 1 h (`auth.ts:46`) are.

| Theorem | Says | Argument |
|---|---|---|
| `ControlLeaseProofs!TypeCorrect` | `Spec => []TypeOK` | action by action; helpers have lemmas of their own (`GotoType`, `ReturnType`, ...) |
| `ControlLeaseProofs!LeasesNotStolen` | `Spec => NoStolenLease` | `HandlersConsistent` is inductive: a row exists only once its creator is done, so the row a release is about to write is the one whose operator it checked. Then only four actions write leases (`LeaseWriters`), and each may end only what it does end (`EndsStep`) |
| `ControlLeaseProofs!MutualExclusion` | `Spec /\ []TakeoverAlone => []SingleActive` | `ExclusionInv` is inductive. At a commit, an ACTIVE lease other than the new one is in the snapshot (else it came from a claim, and `Conflict`), hence is the one that the claim found (`SnapshotsSound`) and releases (`CommitExcludes`). A takeover creates its lease when none is ACTIVE (`CreateExcludes`), since none became so beside it (`NothingBeside`) |
| `ControlLeaseProofs!TokensFollowLease` | `Spec /\ []TakeoverAlone => []NoTokenBesideLease` | by `MutualExclusion` the row the check happens to read is the only one (`CheckSees`); until the token is made a row that the check saw stays, and is ACTIVE only as it was (`RowStep`), so a rival's lease that is valid by then was valid at the check or is new (`TokenInv`) |
| `ControlLeaseProofs!LeaseIsLock` | `Spec /\ []TakeoverAlone => ImplementsLeaseLock` | the abstract holder is the operator of the one ACTIVE row (`TheLease`); a commit and a takeover's insert map to `Acquire` (`CommitAcquires`, `CreateAcquires`), a release and a takeover's revocation to `GiveBack` or, of a row that is over, to nothing (`EndingGivesBack`), all else to time or a stutter (`LockStep`) |
| `EdgeSafetyProofs!TypeCorrect` | `Spec => []TypeOK` | by component: page, command, process, time |
| `EdgeSafetyProofs!SwitchHolds`, `SilenceIsBounded` | `Spec => []SwitchInv`, `[]SilenceBounded` | `SwitchInv`: between two looks of the watcher the age grows no faster than `watch`; `SilenceBounded` itself is not inductive, as a tick can exceed it |
| `EdgeSafetyProofs!EdgeIsSwitch` | `Spec => ImplementsSwitch` | each step maps to `Hear`, `Arm`, `Stop`, `Wait` or a stutter (`StepRefines`); `Wait` needs `SwitchInv` |
| `EdgeSafetyProofs!StopIsObeyed` | `Spec => StopHolds` | `StopInv`: numbers are not used twice (`Numbered`), and a command overtaken by an obeyed stop went over the lossy channel, so that the edge it can reach is the one that obeyed the stop, whose filter holds it back (`Overtaken`) |
| `EdgeSafetyProofs!ViewsAgreeAlways` | `Spec => []ViewsAgree` | `ViewInv`: the last event on its way to a steady page, or else what it shows, is true of an edge in the room |
| `GoPublisherProofs!TypeCorrect`, `OneChildOnly`, `NothingOutlivesStop` | `Spec => []TypeOK`, `[]OneChild`, `[]StoppedIsDead` | `TypeOK` and `SupervisionInv` together are inductive: `born` stays in its range only because every start but the last is a counted failure |
| `GoPublisherProofs!PublishersAreWatched` | `Spec => []PublisherWatched` | `WatchInv`: a process gets "start" only after its "connect" was handled, and only the last process has events left, so no "connect" ends "running" under one that publishes |
| `GoPublisherProofs!ManagerIsSupervisor` | `Spec => ImplementsSupervisor` | ends map to `End`, spawns to `Start`, the first `stop()` to `Close` |
| `AuthTokensProofs!AuthTypes` | `Spec => []AuthTypeOK` | one lemma per kind of step says what it changes (`ReadEffect`, `SignEffect`, ...) |
| `AuthTokensProofs!OneLiveTokenAlways` | `Spec => []OneLiveToken` | `VersionInv`: a version belongs to one call that has raised to it, or to one token signed with it |
| `AuthTokensProofs!TokensRotateAlways` | `Spec => TokensRotate` | the version only grows and no token is ahead of it, so a raise maps to `Revoke`, `Sign` to one of the two issues (`ChainStep`) |
| `AuthTokensProofs!LockInvAlways` | `Spec => []LockInv` | `SeenInv`: what a login in progress has read was within the limit too, and at the limit only beside a lock already over, after which its failure counts from 1 (`SeenStep`) |
| `AuthTokensProofs!LockStandsAlways` | `Spec => LockStands` | `LockBound`: no lock reaches further than one made now, so a failure that read no earlier lock shortens none, and the steps that may lift one are those that the property names |
| `ApiClientProofs!ClientTypes`, `ClientIsAuth` | `ClientSpec => []ClientTypeOK`, `ClientSpec => Spec` | `ClientInv`; every step of a tab is one of `AuthTokens!Next` or leaves the backend alone, so its theorems hold of the composition |
| `ApiClientProofs!RefreshIsPlanned` | `ClientSpec => []RefreshPlanned` | inductive with the types: the token and the timer are set together |
| `ApiClientProofs!ReuseIsOverlap` | `ClientSpec => []ReuseNeedsOverlap` | `AloneInv`: as long as no two calls overlapped, at most one is in progress, so a token that passed the check is still current when it is exchanged, and what was exchanged is of the past |
| `ApiClientProofs!JarIsLive` | `ClientSpec => []JarIsCurrent` | `JarInv` says it also for the time a call is in progress: the live token is in the jar, or in the answer, or not yet signed (`LiveDuring`) |
| `TeleopProofs!MovingIsHeard` | `BridgeSpec => []MovingMeansHeard` | `WatchdogInv`: a tripped watchdog means silence, and a vehicle that moves while the watchdog will not trip (down, tripped, nothing heard yet) is `loose` (`LooseInv`) |
| `TeleopProofs!TeleopIsBridge`, `DrivenIsHeard` | `TeleopSpec => BridgeSpec`, `[]MovingMeansHeard` | every step of the composition is one of the bridge or leaves it alone, so what was proved of the bridge carries over |
| `TeleopProofs!TeleopTypes` | `TeleopSpec => []TeleopTypeOK` | with `BridgeTypes` carried over |
| `TeleopProofs!HandsOffStands` | `TeleopSpec => []HandsOffStill` | `HandsInv`: hands off and no excuse, the joystick's interval is off, and a movement felt or on its way is followed by a "still" |
| `TeleopProofs!ViewIsHonest` | `TeleopSpec => []ViewHonest` | `ViewInv`: once the watchdog has tripped and could say so, the last event on its way says so, and with none on its way and none missed the page does; an event that cannot be published leaves the queue alone and sets `unsaid` (`BridgeView`) |
| `VideoPipelineProofs!RoomIsLeft` | `VideoSpec => []RoomLeft` | `RoomInv`: the room counts no connection but the newest, which `p.room` refers to unless the loop is about to set it or main's late `nil` has erased it; the loop joins only when it has left, and main leaves nothing behind but what it could not see |
| `VideoPipelineProofs!FramesAreKept` | `VideoSpec => []FramesKept` | `FramesInv`: the numbers in the channel, in the loop's hand and last written ascend, and the counts add up; nothing is needed of the conversion |
| `VideoPipelineProofs!Conversion` | for every unit an encoder makes: one that arrives whole is not dropped, and what `ToAnnexB` returns is read as its NALUs or is a mistaken unit unchanged | `FramedLayout`: in what an encoder writes, NALU k and its mark stand at places that add up. Along these places, from the last back to the first, the code's loop returns the same NALUs behind start codes (`Converted`), or nothing if the data is cut (`CutRejected`). In such data 00 00 01 stands only at the end of a start code, whatever the NALUs (`MarksAreCodes`: emulation prevention, and no zero at either end), so a decoder reads them (`ReadBack`); and a length field looks like a start code only for `Mistaken` units (`LengthsMistaken`) |
| `VideoPipelineProofs!FramesAreDecodable` | `VideoSpec => []Decodable` | `HeldInv`: what the loop holds while it writes is what `ToAnnexB` returned for the unit it took; then `Conversion` |
| `VideoPipelineProofs!VideoTypes` | `VideoSpec => []VideoTypeOK` | `LimitInv`: connections made are at most one more than the attempts counted, and no more while one is under way |
| `EdgeRecordsProofs!RecordTypes`, `ManifestIsKept` | `RecordsSpec => []RecordsTypeOK`, `[]ManifestKept` | `RecordsInv`: the append timer runs exactly as long as the file is open (`FileInv`), so who finds the file open is the only one to post and the file has all its lines (`PostInv`); nobody is beside the one who creates the system user unless `crowded` (`UserInv`), and so a POST neither lost nor failed was answered 200 (`AnswerInv`), which means a row (`AssetInv`) |
| `EdgeRecordsProofs!AuditIsSampled` | `RecordsSpec => []AuditSampled` | `OnlyLastWaits`: without a slow publication only the last message waits, so the counter still is its number |

The conversion needs inductions over positions. The library's theorems for that take an
operator as a parameter and cannot be used, so `Induction` is proved here for sets of
numbers, from a least counterexample (`Least`), and applied to the set of the positions
for which the claim holds; that the code's loop is a function at all, which a recursive
function has to be shown to be, comes the same way (`ReframedStep`).

`MutualExclusion`, and with it `TokensFollowLease` and `LeaseIsLock`, needs
`TakeoverAlone`: run `lease_exclusive` violates `SingleActive` with one takeover beside
one claim. The theorems say that this overlap, or that of two takeovers, is the only way:
takeovers at any other time, releases, failing handlers and permission changes are harmless.

*Only model-checked*. `EveryRequestAnswered`, `SilenceStops`,
`RecoveryOffered`, `HungIsKilled`, `RestartFollows`, `StopReturns`, `EveryRequestReturns`
and `ShutdownEnds` are liveness under fairness, out of the prover's reach. Every other
property of a passing run is a theorem. `TypeCorrect` of the modules says no more than the
checks do, for more values; it is listed since every other proof rests on it.

## 11. Where code and documents disagree

Two have a run whose counterexample shows them, and an entry in `PROJECT.json`:

- A takeover beside a claim leaves two ACTIVE leases (`takeover/route.ts:41`).
- An emergency stop overtaken by a later heartbeat is dropped (`mock-edge/src/index.ts:185`).

Others are plain from one definition, or are the exceptions that a property above
names, and have no run.

*Leases and tokens*

- A rejected takeover has already revoked (`TakeoverRevoke` comes before
  `TakeoverVerify`, `takeover/route.ts:51`; Mermaid/README.md:449 makes the new
  operator's session a condition).
- An operator token needs no lease, only that no one else holds one
  (`OthersLease`; Mermaid/README.md:1473 asks for a valid one).
- A takeover does not look at permissions (`TakeoverVerify`; the comment at
  `takeover/route.ts:58` says it does).
- The loser of two simultaneous claims fails with a serialization error,
  answered 500 (`ClaimRollback`): its snapshot was taken by the statement that
  waits for the lock. `lease.test.ts:214` says it gets 409.
- A release that read its lease before a takeover revoked it writes RELEASED over
  REVOKED (`ReleaseWrite` looks at the id only; compare `lease.test.ts:186`).

*Edge agent*

- Safe mode entered while the page reconnects is not shown if LiveKit made a new
  connection (`mock-edge/src/index.ts:155`; Mermaid/README.md:889 says the cockpit shows it).
- A publisher that has not connected yet is never told to stop: it publishes and is
  killed after five seconds (`Stop`, `go-publisher-manager.ts:168`;
  README-publisher.md:99 says that all are told).
- The eleventh failure ends the restarts (`> MAX_RESTART_ATTEMPTS`), where
  `go-publisher-manager.ts:11` and README-publisher.md:92 say ten; and it does so also if there was
  service in between (`Crashed`, `go-publisher-manager.ts:448`; both say consecutive).
- A publisher whose publish loop is stuck in a call goes on sending heartbeats, which
  are a goroutine of its own (`Beats`, `main.go:207`, `server.go:141`), and is not
  killed; `go-publisher-manager.ts:8` says only that heartbeats are watched.
- `ManagerState` says that "running" is a state in which heartbeats are received
  (`go-publisher-manager.ts:100`); a token made for a process that has ended, or
  after stop(), sets it too (`Minted`), even after "failed".
- A publisher that cannot be spawned, or hangs before its hello, leaves the
  manager in "starting" (`SpawnPublisher`, `Hang`): no exit, no watcher.

- A second signal (Ctrl-C twice) ends the process under the POST of the manifest, which
  may be lost (`Announced`, `ExitProcess`, `mock-edge/src/index.ts:421`; the comment at 429
  says the manifest is posted before the room is left).
- Two edges that register at once may both create the system user; the later is answered
  500 and nobody retries (`CreateSystemUser`, `dataset-asset/route.ts:48`).
- The sampling counter is read after an await (`Sampled`, `telemetry-publisher.ts:81`): when a
  publication outlasts the 200 ms of a tick, other messages than every fifth are posted, or none.

*Sign-in*

- Two concurrent refreshes with one token may both succeed, and the first of the two
  answers is dead at once (`RefreshRead`, `RefreshBump`; the comment at
  `refresh/route.ts:39` says this is prevented).
- A tab can be signed out during control, by refreshes of two tabs or jobs that
  overlap or by an answer that is lost (`JarIsCurrent`'s proviso; the comment at
  `api-client.ts:36` calls that a safety incident).
- A refresh under way at a logout can leave a live token behind (the same proviso).

*R2 vehicle*

- "No operator heartbeat in 3 s: publish zero" (r2-bridge/README.md:117): a movement
  after a trip, or before the first heartbeat, is obeyed, and the watchdog does not
  look at it again (`Movement`, `Watch`; `MovingMeansHeard`'s `loose`).
- Recovery is to be confirmed by hand (`RecoveryModal.tsx:24`): the bridge gives control
  when it starts, and answers every resume (`Announce`, `ResumeControl`).
- A safety event that cannot be published is logged and never sent again (`Publish`,
  `main.py:321`): the page of a vehicle whose watchdog has tripped may go on showing control as
  active (`ViewHonest`'s `unsaid` and `missed`; r2-bridge/README.md does not say so).
- The gamepad sends nothing in the dead zone (`GamepadPoll`, `useGamepad.ts:90`; the
  comment above it says it always sends).
- A joystick disabled in mid-drag goes on sending the last position, and one
  unmounted by turning the device sends no zero (`PointerUp`, `Rotate`).

*Video*

- Connect, Disconnect and PublishLoop "must not be called concurrently"
  (`livekit.go:13`), but main disconnects while the loop may do so too: a nil
  room is possible (`Part`, `LoopParts`), and so is a rejoin that main does not see or that
  comes after it has left, with or without its late `nil` (`crossed`).
- A unit whose first length is 1, or 256 to 511, is passed on unconverted
  (`isAnnexB`; `avcc_to_annexb.go:20` says every NALU is converted).
- Reconnect attempts are never reset: three interruptions in all end the loop.
- In direct mode an error runs no deferred call: the pipeline is not stopped and the
  room not left (`LoopFailed`, `FirstConnectFails`).

## 12. Not modelled

- *Internal endpoints* `control-event` and `telemetry-frame`: each appends one row to a log
  table. Nothing reads them back to act on it.
- *Read endpoints and audit log*: queries without effect; `audit()` appends one row and
  swallows its errors.
- *Admin, probe and HUD pages, video tiles, wake lock, talk-back*: presentation and media.
- *Encoding and validation of messages*, media profiles: data, on which no property
  depends; a message that does not parse is logged and dropped.

## 13. Running

    tlc -workers 2 -config ControlLeaseRace.cfg MCControlLease
    tlc -workers 2 -config ControlLeaseAll.cfg MCControlLease
    tlc -workers 2 -config EdgeSafetyPage.cfg MCEdgeSafety
    tlc -workers 2 -config EdgeSafetyLive.cfg MCEdgeSafety
    tlc -workers 2 -config GoPublisherAll.cfg GoPublisher
    tlc -workers 2 -config AuthSignIn.cfg MCApiClient
    tlc -workers 2 -config AuthReturns.cfg ApiClient
    tlc -workers 2 -config Teleop.cfg Teleop
    tlc -workers 2 -config VideoPipeline.cfg MCVideoPipeline
    tlc -workers 2 -config EdgeRecords.cfg MCEdgeRecords
    tlapm ControlLeaseProofs.tla      (and the other ...Proofs modules)

The `MC` modules give constants their values or name a symmetry, where a `.cfg`
cannot; each `.cfg` starts with what it is for. The largest runs are
`teleop` (7.1 million states, two to three minutes), `sign_in` (1.6 million, a minute), `video`
(1.5 million), and `records` (0.6 million), two minutes for its liveness. Operators named `X_Y`, each placed before the
definition `X`, are mutations of `X` as a plausible bug would make them; for
every property of a passing run `PROJECT.json` names one that TLC finds
violated.
