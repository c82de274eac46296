------------------------------ MODULE EdgeRecords ------------------------------
(***************************************************************************)
(* What edge agents keep of their sessions: the lines of metadata.jsonl    *)
(* (metadata-writer.ts), the telemetry sampled for the backend             *)
(* (telemetry-publisher.ts), and the manifest of the file, which shutdown  *)
(* (index.ts) registers in the backend (internal/dataset-asset).           *)
(*                                                                         *)
(* An edge is one run of the process and so one session.  Every signal     *)
(* calls shutdown() anew; call i of edge e is <<e, i>>.                    *)
(***************************************************************************)
EXTENDS Naturals

CONSTANTS
    Edges,
    EveryN,      \* auditSink.everyN
    MaxSignals,  \* [Edges -> bound on the signals]
    MaxLines,    \* [Edges -> bound on the lines of the file]
    MaxSeq       \* [Edges -> bound on the telemetry messages]

ASSUME RecordsAssumption ==
    /\ EveryN \in Nat \ {0}
    /\ {MaxSignals, MaxLines, MaxSeq} \subseteq [Edges -> Nat]

Shutdowns == UNION {{e} \X (1 .. MaxSignals[e]) : e \in Edges}

VARIABLES
    process,     \* [Edges -> the process is "up", "exited" or "crashed"]
    sampling,    \* [Edges -> datasetTimer is set]
    fd,          \* [Edges -> the file is open]
    frameNo,     \* [Edges -> lines the writer has counted]
    lines,       \* [Edges -> lines in the file]
    ticking,     \* [Edges -> the telemetry timer is set]
    seq,         \* [Edges -> number of the last telemetry message]
    sending,     \* [Edges -> messages whose publication is awaited]
    audited,     \* [Edges -> messages posted to the backend]
    shutdown,    \* [Shutdowns -> where this call of shutdown() is]
    manifest,    \* [Shutdowns -> the POST it has made]
    vehicles,    \* the edges whose vehicle has a row in the backend
    systemUser,  \* the row of system@edge.local is there
    assets,      \* the rows of the dataset assets
    slow,        \* history: edges whose publication outlasted a tick
    faulty,      \* history: edges whose POST, or its handler, failed
    crowded      \* history: two manifests were registered at once

file     == <<sampling, fd, frameNo, lines>>
stream   == <<ticking, seq, sending, audited, slow>>
tables   == <<systemUser, assets>>
history  == <<faulty, crowded>>
recordVars == <<process, file, stream, shutdown, manifest, tables, vehicles, history>>

Stages == {"none", "announcing", "posting", "stopping", "leaving"}

Handling == {"user", "create_user", "asset"}

PostStages == {"none", "sent", "lost", "answered"} \cup Handling

NoPost == [stage |-> "none", frames |-> 0, status |-> 0]

Sent(frames) == [stage |-> "sent", frames |-> frames, status |-> 0]

Up(e) == process[e] = "up"

RecordsInit ==
    /\ process = [e \in Edges |-> "up"]
    /\ sampling = [e \in Edges |-> TRUE]
    /\ fd = [e \in Edges |-> TRUE]
    /\ frameNo = [e \in Edges |-> 0]
    /\ lines = [e \in Edges |-> 0]
    /\ ticking = [e \in Edges |-> TRUE]
    /\ seq = [e \in Edges |-> 0]
    /\ sending = [e \in Edges |-> {}]
    /\ audited = [e \in Edges |-> {}]
    /\ shutdown = [s \in Shutdowns |-> "none"]
    /\ manifest = [s \in Shutdowns |-> NoPost]
    /\ vehicles \in SUBSET Edges
    /\ systemUser = FALSE
    /\ assets = {}
    /\ slow = {}
    /\ faulty = {}
    /\ crowded = FALSE

-----------------------------------------------------------------------------
(* The edge: its two timers.                                               *)

\* MetadataWriter.append, which opens the file if it is not open.
AppendLine(e) ==
    /\ Up(e)
    /\ sampling[e]
    /\ lines[e] < MaxLines[e]
    /\ fd' = [fd EXCEPT ![e] = TRUE]
    /\ frameNo' = [frameNo EXCEPT ![e] = @ + 1]
    /\ lines' = [lines EXCEPT ![e] = @ + 1]
    /\ UNCHANGED <<process, sampling, stream, shutdown, manifest, tables, vehicles, history>>

\* The next message is composed, and its publication awaited.
Tick(e) ==
    /\ Up(e)
    /\ ticking[e]
    /\ seq[e] < MaxSeq[e]
    /\ seq' = [seq EXCEPT ![e] = @ + 1]
    /\ sending' = [sending EXCEPT ![e] = @ \cup {seq'[e]}]
    /\ slow' = IF sending[e] # {} THEN slow \cup {e} ELSE slow
    /\ UNCHANGED <<process, file, ticking, audited, shutdown, manifest, tables, vehicles, history>>

Sampled_BeforeCount(e) == (seq[e] - 1) % EveryN = 0

\* The counter is read after the await.
Sampled(e) == seq[e] % EveryN = 0

\* Published or not: the message may be posted to the backend.
Published(e, m) ==
    /\ Up(e)
    /\ m \in sending[e]
    /\ sending' = [sending EXCEPT ![e] = @ \ {m}]
    /\ audited' = IF Sampled(e) THEN [audited EXCEPT ![e] = @ \cup {m}] ELSE audited
    /\ UNCHANGED <<process, file, ticking, seq, slow, shutdown, manifest, tables, vehicles, history>>

-----------------------------------------------------------------------------
(* The edge: shutdown().                                                   *)

Goes(s, from, to) ==
    /\ Up(s[1])
    /\ shutdown[s] = from
    /\ shutdown' = [shutdown EXCEPT ![s] = to]

Signal(s) ==
    /\ Goes(s, "none", "announcing")
    /\ s[2] > 1 => shutdown[<<s[1], s[2] - 1>>] # "none"
    /\ UNCHANGED <<process, file, stream, manifest, tables, vehicles, history>>

Announced_TimerKept(s) ==
    LET e == s[1]
    IN  /\ fd' = [fd EXCEPT ![e] = FALSE]
        /\ \/ /\ fd[e]
              /\ manifest' = [manifest EXCEPT ![s] = Sent(frameNo[e])]
              /\ Goes(s, "announcing", "posting")
           \/ ~fd[e] /\ Goes(s, "announcing", "stopping") /\ UNCHANGED manifest
        /\ UNCHANGED <<process, sampling, frameNo, lines, stream, tables, vehicles, history>>

\* The edge's leave is announced: the dataset timer is cleared, and finalize() closes the
\* file and posts its manifest, or returns at once when the file is closed already.
Announced(s) ==
    LET e == s[1]
    IN  /\ sampling' = [sampling EXCEPT ![e] = FALSE]
        /\ fd' = [fd EXCEPT ![e] = FALSE]
        /\ \/ /\ fd[e]
              /\ manifest' = [manifest EXCEPT ![s] = Sent(frameNo[e])]
              /\ Goes(s, "announcing", "posting")
              /\ UNCHANGED ticking
           \/ /\ ~fd[e]
              /\ ticking' = [ticking EXCEPT ![e] = FALSE]
              /\ Goes(s, "announcing", "stopping")
              /\ UNCHANGED manifest
        /\ UNCHANGED <<process, frameNo, lines, seq, sending, audited, slow, tables, vehicles, history>>

PostEnds_Registered(s) ==
    /\ manifest[s].stage = "answered" /\ manifest[s].status = 200
    /\ Goes(s, "posting", "stopping")
    /\ ticking' = [ticking EXCEPT ![s[1]] = FALSE]
    /\ UNCHANGED <<process, file, seq, sending, audited, slow, manifest, tables, vehicles, history>>

\* Answered, whatever the status, or failed in the network: shutdown goes on, and stops
\* the telemetry.
PostEnds(s) ==
    /\ Goes(s, "posting", "stopping")
    /\ ticking' = [ticking EXCEPT ![s[1]] = FALSE]
    /\ faulty' = IF manifest[s].stage = "answered" THEN faulty ELSE faulty \cup {s[1]}
    /\ UNCHANGED <<process, file, seq, sending, audited, slow, manifest, tables, vehicles, crowded>>

\* GoPublisherManager.stop() has returned for every camera, and the room is left:
\* process.exit(0), whatever other calls of shutdown() are doing.
ExitProcess(s) ==
    /\ Goes(s, "stopping", "leaving")
    /\ process' = [process EXCEPT ![s[1]] = "exited"]
    /\ UNCHANGED <<file, stream, manifest, tables, vehicles, history>>

\* Killed, or ended by an exception in a timer: append throws when the disk is full.
Crash(e) ==
    /\ Up(e)
    /\ process' = [process EXCEPT ![e] = "crashed"]
    /\ UNCHANGED <<file, stream, shutdown, manifest, tables, vehicles, history>>

-----------------------------------------------------------------------------
(* The backend.                                                            *)

\* The POST of s goes from one stage to another.
Moves(s, from, to, status) ==
    /\ manifest[s].stage = from
    /\ manifest' = [manifest EXCEPT ![s] =
          [stage |-> to, frames |-> manifest[s].frames, status |-> status]]
    /\ UNCHANGED <<process, file, stream, shutdown, vehicles>>

Handles(s, from, to) == Moves(s, from, to, 0)

Answers(s, from, status) == Moves(s, from, "answered", status)

PostLost(s) ==
    /\ Moves(s, "sent", "lost", 0)
    /\ faulty' = faulty \cup {s[1]}
    /\ UNCHANGED <<tables, crowded>>

ReceiveManifest(s) ==
    /\ \/ s[1] \in vehicles /\ Handles(s, "sent", "user")
       \/ s[1] \notin vehicles /\ Answers(s, "sent", 404)
    /\ crowded' = (crowded \/ \E t \in Shutdowns \ {s} : manifest[t].stage \in Handling)
    /\ UNCHANGED <<tables, faulty>>

FindSystemUser(s) ==
    /\ Handles(s, "user", IF systemUser THEN "asset" ELSE "create_user")
    /\ UNCHANGED <<tables, history>>

\* The e-mail address is unique: if the row is there by now, the request fails.
CreateSystemUser(s) ==
    /\ \/ ~systemUser /\ Handles(s, "create_user", "asset")
       \/ systemUser /\ Answers(s, "create_user", 500)
    /\ systemUser' = TRUE
    /\ UNCHANGED <<assets, history>>

\* With the row of the session, which no other request finds or creates.
CreateAsset(s) ==
    /\ Answers(s, "asset", 200)
    /\ assets' = assets \cup {[by |-> s, frames |-> manifest[s].frames]}
    /\ UNCHANGED <<systemUser, history>>

\* The database fails.
HandlerFails(s) ==
    /\ manifest[s].stage \in Handling
    /\ Answers(s, manifest[s].stage, 500)
    /\ faulty' = faulty \cup {s[1]}
    /\ UNCHANGED <<tables, crowded>>

-----------------------------------------------------------------------------
ShutdownStep(s) == Announced(s) \/ PostEnds(s) \/ ExitProcess(s)

HandlerStep(s) ==
    \/ ReceiveManifest(s) \/ FindSystemUser(s) \/ CreateSystemUser(s)
    \/ CreateAsset(s) \/ HandlerFails(s)

RecordsNext ==
    \/ \E e \in Edges : \/ AppendLine(e) \/ Tick(e) \/ Crash(e)
                        \/ \E m \in sending[e] : Published(e, m)
    \/ \E s \in Shutdowns : Signal(s) \/ ShutdownStep(s) \/ PostLost(s) \/ HandlerStep(s)

\* What shutdown() awaits comes to an end: LiveKit's calls return, fetch is answered or gives
\* up by its own timeouts, and stop() returns (GoPublisher.StopReturns).
RecordsSpec ==
    /\ RecordsInit
    /\ [][RecordsNext]_recordVars
    /\ \A s \in Shutdowns : WF_recordVars(ShutdownStep(s))

-----------------------------------------------------------------------------
(* Properties.                                                             *)

\* Every variable keeps its type.
RecordsTypeOK ==
    /\ process \in [Edges -> {"up", "exited", "crashed"}]
    /\ sampling \in [Edges -> BOOLEAN] /\ fd \in [Edges -> BOOLEAN]
    /\ frameNo \in [Edges -> Nat] /\ lines \in [Edges -> Nat]
    /\ ticking \in [Edges -> BOOLEAN] /\ seq \in [Edges -> Nat]
    /\ sending \in [Edges -> SUBSET Nat] /\ audited \in [Edges -> SUBSET Nat]
    /\ shutdown \in [Shutdowns -> Stages]
    /\ manifest \in [Shutdowns ->
          [stage : PostStages, frames : Nat, status : {0, 200, 404, 500}]]
    /\ assets \subseteq [by : Shutdowns, frames : Nat]
    /\ systemUser \in BOOLEAN /\ crowded \in BOOLEAN
    /\ vehicles \subseteq Edges /\ slow \subseteq Edges /\ faulty \subseteq Edges

Registered(e) == \E asset \in assets : asset.by[1] = e

\* The process ended while one of its shutdowns waited for the POST.
CutShort(e) == \E s \in Shutdowns : s[1] = e /\ shutdown[s] = "posting"

\* The backend has no more than one manifest of a session, which counts the lines of its
\* file for good; and an edge that exits of its own accord leaves one, unless a second
\* signal cut the POST short, a request or its handler failed, or two edges registered
\* at once: the system user is found or created in two statements
\* (metadata-writer.ts:98-143, dataset-asset/route.ts:46-75).
ManifestKept ==
    /\ \A a, b \in assets : a.by[1] = b.by[1] => a = b
    /\ \A asset \in assets : asset.frames = lines[asset.by[1]]
    /\ \A e \in vehicles \ faulty :
          process[e] = "exited" /\ ~CutShort(e) /\ ~crowded => Registered(e)

\* As long as no publication outlasts a tick, the backend is sent every EveryN-th message
\* (index.ts:383), although the counter is read after the await
\* (telemetry-publisher.ts:66-84).
AuditSampled ==
    \A e \in Edges \ slow :
        audited[e] = {m \in 1 .. seq[e] : m % EveryN = 0} \ sending[e]

\* A signal ends the process, whatever the backend answers, or if it does not.
ShutdownEnds ==
    \A s \in Shutdowns : shutdown[s] # "none" ~> ~Up(s[1])
===============================================================================
