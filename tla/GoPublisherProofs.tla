-------------------------- MODULE GoPublisherProofs --------------------------
(***************************************************************************)
(* Theorems about GoPublisher, for any MaxRestarts.                        *)
(***************************************************************************)
EXTENDS GoPublisher, TLAPS

Inv == TypeOK /\ SupervisionInv

Events == {"connect", "hello", "close"}

\* After the end of a live process none lives, and it is the one whose exit
\* will be emitted.
LEMMA EndsKeeps ==
    ASSUME Inv, NEW p \in Procs, Live(p), Ends(p)
    PROVE  /\ p = child /\ child = born
           /\ \A q \in Procs : ~Live(q)'
           /\ \A q \in exited' : child = q /\ ~Live(q)'
           /\ proc' \in [Procs -> Phases] /\ exited' \subseteq Procs
           /\ events' \in [Procs -> Seq(Events)]
           /\ UNCHANGED <<born, hung, minting, canMint, mail>>
<1> USE DEF Inv, TypeOK, SupervisionInv, OneChild
<1>1. p = child /\ child = born
  BY DEF Procs, NoProc
<1>2. proc' = [proc EXCEPT ![p] = "dead"] /\ "dead" \in Phases
  BY DEF Ends, Phases
<1>3. \A q \in Procs : ~Live(q)'
  BY <1>1, <1>2 DEF Live
<1>4. \A q \in exited' : child = q /\ ~Live(q)'
  BY <1>1, <1>3 DEF Ends
<1>5. events' \in [Procs -> Seq(Events)]
  <2>1. Append(events[p], "close") \in Seq(Events)
    BY DEF Events
  <2>2. QED
    BY <2>1 DEF Ends, Events
<1>6. QED
  BY <1>1, <1>2, <1>3, <1>4, <1>5 DEF Ends

\* A start finds no live process and gives the number of the next one.
LEMMA SpawnKeeps ==
    ASSUME Inv, SpawnPublisher, child = NoProc, born = failures, failures <= MaxRestarts,
           task' = "up", timer' = FALSE, server' \in BOOLEAN
    PROVE  Inv'
<1> USE MaxRestartsAssumption DEF Inv, TypeOK, SupervisionInv, OneChild
<1>1. born + 1 \in Procs /\ born + 1 # NoProc
  BY DEF Procs, NoProc
<1>2. /\ child' = born + 1 /\ born' = born + 1 /\ state' = "starting" /\ beat' = "none"
  BY DEF SpawnPublisher
<1>3. PICK phase \in {"dialing", "dead"} : proc' = [proc EXCEPT ![born + 1] = phase]
  BY DEF SpawnPublisher
<1>4. \A q \in Procs : ~Live(q)
  BY DEF Procs, NoProc
<1>5. exited' = {} /\ exited = {}
  BY DEF SpawnPublisher, ipc, Procs, NoProc
<1>6. TypeOK'
  <2>1. proc' \in [Procs -> Phases]
    BY <1>1, <1>3 DEF Phases
  <2>2. born' \in 0 .. MaxRestarts + 1
    BY <1>2
  <2>3. QED
    BY <1>1, <1>2, <2>1, <2>2 DEF SpawnPublisher, ipc, ManagerStates
<1>7. SupervisionInv'
  <2>1. \A q \in Procs : Live(q)' => child' = q
    BY <1>1, <1>2, <1>3, <1>4 DEF Live
  <2>2. failures' = failures
    BY DEF SpawnPublisher
  <2>3. QED
    BY <1>2, <1>5, <2>1, <2>2 DEF StoppedIsDead
<1>8. QED
  BY <1>6, <1>7

\* The exit of the child leaves no live process behind.
LEMMA ChildExitKeeps ==
    ASSUME Inv, NEW p \in Procs, ChildExit(p)
    PROVE  /\ child # NoProc /\ born = failures + 1
           /\ child' = NoProc /\ exited' = {}
           /\ \A q \in Procs : ~Live(q)'
<1> USE DEF Inv, TypeOK, SupervisionInv, OneChild
<1>1. p \in exited /\ p = child /\ ~Live(p)
  BY DEF ChildExit
<1>2. child # NoProc /\ born = failures + 1
  BY <1>1 DEF Procs, NoProc
<1>3. exited' = {}
  BY <1>1 DEF ChildExit
<1>4. proc' = proc
  BY DEF ChildExit, procs
<1>5. \A q \in Procs : ~Live(q)'
  BY <1>1, <1>4 DEF Live
<1>6. QED
  BY <1>2, <1>3, <1>5 DEF ChildExit

\* What a process does by itself.
LEMMA ProcKeeps == ASSUME Inv, NEW p \in Procs, ProcStep(p) PROVE Inv'
<1> USE DEF Inv, TypeOK, SupervisionInv, OneChild, StoppedIsDead
<1>1. ASSUME NEW from \in Phases \ {"unborn", "dead"}, NEW to \in Phases \ {"unborn", "dead"},
             Goes(p, from, to), events' \in [Procs -> Seq(Events)]
      PROVE  Inv'
  <2>1. Live(p)
    BY <1>1 DEF Goes, Live
  <2>2. proc' \in [Procs -> Phases] /\ \A q \in Procs : Live(q)' <=> Live(q)
    BY <1>1, <2>1 DEF Goes, Live
  <2>3. QED
    BY <1>1, <2>1, <2>2 DEF Goes, manager, Events
<1>2. ASSUME Live(p), Ends(p), UNCHANGED manager
      PROVE  Inv'
  BY <1>2, EndsKeeps DEF manager, Events
<1>3. CASE Dial(p)
  <2>1. <<"connect", "hello">> \in Seq(Events)
    BY DEF Events
  <2>2. events' \in [Procs -> Seq(Events)]
    BY <1>3, <2>1 DEF Dial, Events
  <2>3. QED
    BY <1>1, <1>3, <2>2 DEF Dial, Phases
<1>4. CASE GetStart(p)
  BY <1>1, <1>4 DEF GetStart, Phases, Events
<1>5. CASE Publish(p)
  BY <1>1, <1>5 DEF Publish, Phases, Events
<1>6. CASE Leave(p)
  BY <1>1, <1>6 DEF Leave, Phases, Events
<1>7. CASE ObeyStop(p)
  BY <1>2, <1>7 DEF ObeyStop, Live
<1>8. CASE Exit(p)
  BY <1>2, <1>8 DEF Exit
<1>9. CASE Hang(p)
  BY <1>9 DEF Hang, manager, ipc, Live
<1>10. QED
  BY <1>3, <1>4, <1>5, <1>6, <1>7, <1>8, <1>9 DEF ProcStep

\* What comes over the socket, and the tokens that are made for it.
LEMMA SocketKeeps ==
    ASSUME Inv, NEW p \in Procs, SocketStep(p) \/ MintStep(p) \/ Heartbeat(p)
    PROVE  Inv'
<1> USE DEF Inv, TypeOK, SupervisionInv, OneChild, StoppedIsDead
<1>1. CASE SocketStep(p)
  <2>1. PICK e \in Events : NextEvent(p, e)
    BY <1>1 DEF SocketStep, HandleConnect, HandleHello, HandleClose, Events
  <2>2. events[p] \in Seq(Events) /\ events[p] # <<>>
    BY <2>1 DEF NextEvent, Events
  <2>3. Tail(events[p]) \in Seq(Events)
    BY <2>2
  <2>4. events' \in [Procs -> Seq(Events)]
    BY <2>1, <2>3 DEF NextEvent, Events
  <2>5. conn' \in Procs \cup {NoProc} /\ state' \in ManagerStates /\ minting' \subseteq Procs
    BY <1>1 DEF SocketStep, HandleConnect, HandleHello, HandleClose, ManagerStates
  <2>6. QED
    BY <2>1, <2>4, <2>5 DEF NextEvent, procs, Live, Events
<1>2. CASE Minted(p)
  <2>1. mail' \in [Procs -> SUBSET {"start", "stop"}]
    BY <1>2 DEF Minted, Tell
  <2>2. QED
    BY <1>2, <2>1 DEF Minted, procs, Live, ManagerStates
<1>3. CASE MintFails(p)
  BY <1>3 DEF MintFails, manager, procs, Live
<1>4. CASE Heartbeat(p)
  BY <1>4 DEF Heartbeat, procs, ipc, Live
<1>5. QED
  BY <1>1, <1>2, <1>3, <1>4 DEF MintStep

\* A crash counts one failure more than before, and not more than the starts.
LEMMA CrashedType == ASSUME Inv, NEW p \in Procs, Crashed(p) PROVE TypeOK'
<1>1. /\ ChildExit(p) /\ born = failures + 1
      /\ child' = NoProc /\ exited' = {}
  BY ChildExitKeeps DEF Crashed
<1>2. failures' \in 0 .. MaxRestarts + 1
  BY <1>1, MaxRestartsAssumption DEF Crashed, Inv, TypeOK
<1>3. state' \in ManagerStates /\ server' \in BOOLEAN /\ timer' \in BOOLEAN
  BY DEF Crashed, CloseServer, ManagerStates, Inv, TypeOK
<1>4. /\ UNCHANGED <<task, beat, born, proc, hung, minting, canMint, mail, events>>
      /\ conn' = NoProc /\ watching' = FALSE
  BY <1>1 DEF Crashed, ChildExit, procs
<1>5. QED
  BY <1>1, <1>2, <1>3, <1>4 DEF Inv, TypeOK

\* The exit handler: of a crash, of the exit that stop() awaits, of a late one.
LEMMA ExitKeeps == ASSUME Inv, NEW p \in Procs, ExitStep(p) PROVE Inv'
<1> USE MaxRestartsAssumption DEF Inv, TypeOK, SupervisionInv, OneChild, StoppedIsDead
<1>1. ChildExit(p)
  BY DEF ExitStep, Crashed, ExitAwaited, ExitLate
<1>2. /\ child # NoProc /\ born = failures + 1 /\ ~timer
      /\ child' = NoProc /\ exited' = {}
      /\ \A q \in Procs : ~Live(q)'
  BY <1>1, ChildExitKeeps
<1>3. CASE Crashed(p)
  <2>1. TypeOK'
    BY <1>3, CrashedType
  <2>2. task' = "up" /\ born' = failures' /\ failures' = failures + 1
    BY <1>1, <1>2, <1>3 DEF Crashed, ChildExit, procs
  <2>3. ASSUME timer' PROVE failures' <= MaxRestarts
    <3>1. failures < MaxRestarts
      BY <1>2, <1>3, <2>3, Zenon DEF Crashed
    <3>2. QED
      BY <2>2, <3>1
  <2>4. SupervisionInv'
    BY <1>2, <2>2, <2>3
  <2>5. QED
    BY <2>1, <2>4
<1>4. CASE ExitAwaited(p)
  BY <1>1, <1>2, <1>4 DEF ExitAwaited, ChildExit, StopEnds, CloseServer, procs, ManagerStates
<1>5. CASE ExitLate(p)
  BY <1>1, <1>2, <1>5 DEF ExitLate, ChildExit, procs, ManagerStates
<1>6. QED
  BY <1>3, <1>4, <1>5 DEF ExitStep

\* start(), stop() and the timers.
LEMMA ManagerKeeps ==
    ASSUME Inv, Start \/ Stop \/ StopTimeout \/ RestartTimer \/ Overdue \/ Watchdog
    PROVE  Inv'
<1> USE DEF Inv, TypeOK, SupervisionInv, OneChild, StoppedIsDead
<1>1. CASE Start
  <2>1. child = NoProc /\ born = failures /\ failures <= MaxRestarts
    BY <1>1, MaxRestartsAssumption DEF Start, StartSocketServer
  <2>2. SpawnPublisher /\ task' = "up" /\ server' \in BOOLEAN /\ timer' = FALSE
    BY <1>1 DEF Start, StartSocketServer
  <2>3. QED
    BY <2>1, <2>2, SpawnKeeps
<1>2. CASE Stop
  <2>1. mail' \in [Procs -> SUBSET {"start", "stop"}]
    BY <1>2 DEF Stop, Tell
  <2>2. child = NoProc => \A q \in Procs : ~Live(q)
    BY DEF Procs, NoProc
  <2>3. QED
    BY <1>2, <2>1, <2>2 DEF Stop, StopEnds, CloseServer, procs, Live, ManagerStates
<1>3. CASE StopTimeout
  <2>1. child \in Procs /\ ~timer
    BY <1>3 DEF StopTimeout
  <2>2. CASE Live(child) /\ Ends(child)
    BY <1>3, <2>1, <2>2, EndsKeeps DEF StopTimeout, StopEnds, CloseServer, ManagerStates, Events
  <2>3. CASE ~Live(child) /\ UNCHANGED <<procs, ipc>>
    BY <1>3, <2>1, <2>3 DEF StopTimeout, StopEnds, CloseServer, procs, ipc, Live, ManagerStates
  <2>4. QED
    BY <1>3, <2>2, <2>3 DEF StopTimeout
<1>4. CASE RestartTimer
  BY <1>4, SpawnKeeps DEF RestartTimer
<1>5. CASE Overdue
  BY <1>5 DEF Overdue, procs, ipc, Live
<1>6. CASE Watchdog
  <2>1. child \in Procs /\ Live(child) /\ Ends(child) /\ UNCHANGED manager
    BY <1>6 DEF Watchdog
  <2>2. QED
    BY <2>1, EndsKeeps DEF manager, Events
<1>7. QED
  BY <1>1, <1>2, <1>3, <1>4, <1>5, <1>6

LEMMA InitKeeps == ASSUME Init PROVE Inv
<1> USE MaxRestartsAssumption DEF Init, NoProc
<1>1. <<>> \in Seq({"connect", "hello", "close"})
  OBVIOUS
<1>2. TypeOK
  <2>1. 0 \in 0 .. MaxRestarts + 1
    OBVIOUS
  <2>2. proc \in [Procs -> Phases]
    BY DEF Phases
  <2>3. events \in [Procs -> Seq({"connect", "hello", "close"})]
    BY <1>1
  <2>4. QED
    BY <2>1, <2>2, <2>3 DEF TypeOK, ManagerStates
<1>3. SupervisionInv
  BY DEF SupervisionInv, OneChild, StoppedIsDead, Live
<1>4. QED
  BY <1>2, <1>3 DEF Inv

LEMMA StepKeeps == ASSUME Inv, [Next]_vars PROVE Inv'
<1>1. CASE UNCHANGED vars
  BY <1>1 DEF Inv, TypeOK, SupervisionInv, OneChild, StoppedIsDead, Live,
              vars, manager, procs, ipc
<1>2. CASE Next
  BY <1>1, <1>2, ProcKeeps, SocketKeeps, ExitKeeps, ManagerKeeps DEF Next, Finished
<1>3. QED
  BY <1>1, <1>2

(***************************************************************************)
(* Every variable keeps its type: above all, no more processes are started *)
(* than the limit allows, or born would leave its range.                   *)
(***************************************************************************)
THEOREM TypeCorrect == Spec => []TypeOK
<1>1. Inv => TypeOK
  BY DEF Inv
<1>2. QED
  BY <1>1, InitKeeps, StepKeeps, PTL DEF Spec

(***************************************************************************)
(* A process that lives is the one the manager can kill.                   *)
(***************************************************************************)
THEOREM OneChildOnly == Spec => []OneChild
<1>1. Inv => OneChild
  BY DEF Inv, SupervisionInv
<1>2. QED
  BY <1>1, InitKeeps, StepKeeps, PTL DEF Spec

(***************************************************************************)
(* When stop() has returned, no publisher lives.                           *)
(***************************************************************************)
THEOREM NothingOutlivesStop == Spec => []StoppedIsDead
<1>1. Inv => StoppedIsDead
  BY DEF Inv, SupervisionInv
<1>2. QED
  BY <1>1, InitKeeps, StepKeeps, PTL DEF Spec

-----------------------------------------------------------------------------
(* The watchdog.                                                           *)

Started(p) == Live(p) /\ ("start" \in mail[p] \/ proc[p] \in {"starting", "publishing"})

\* The manager has not heard of the process yet.
Silent(p) == events[p] = <<>> /\ mail[p] = {} /\ conn # p /\ p \notin minting

Greets(p) == events[p] # <<>> /\ Head(events[p]) = "connect"

\* A process is started only after its "connect" was handled, and only the
\* last one has anything left to say: so no "connect" ends the state "running"
\* while a process publishes.
WatchInv ==
    /\ \A p \in Procs : Started(p) /\ task = "up" => watching /\ state = "running"
    /\ \A p \in Procs : events[p] # <<>> \/ p \in minting => p = born
    /\ \A p \in Procs : p > born => proc[p] = "unborn"
    /\ \A p \in Procs : proc[p] \in {"unborn", "dialing"} => Silent(p)
    /\ \A p \in Procs : Greets(p) => conn # p /\ "start" \notin mail[p] /\ ~Started(p)
    /\ \A p \in Procs : \A i \in 2 .. Len(events[p]) : events[p][i] # "connect"

\* Where no process lives, nobody needs to be watched.
LEMMA EndsWatch ==
    ASSUME Inv, WatchInv, NEW p \in Procs, Live(p), Ends(p), conn' = conn
    PROVE  WatchInv'
<1> DEFINE e == events[p]
<1>1. /\ p = born /\ proc' = [proc EXCEPT ![p] = "dead"]
      /\ \A q \in Procs : ~Live(q)'
      /\ UNCHANGED <<born, minting, mail>>
  BY EndsKeeps DEF Ends
<1>2. e \in Seq(Events) /\ events \in [Procs -> Seq(Events)] /\ proc \in [Procs -> Phases]
  BY DEF Inv, TypeOK, Events
<1>3. CASE events' = events
  BY <1>1, <1>2, <1>3 DEF WatchInv, Started, Silent, Greets, Live
<1>4. CASE events' = [events EXCEPT ![p] = Append(e, "close")]
  <2>1. \A q \in Procs : q # p => events'[q] = events[q] /\ proc'[q] = proc[q]
    BY <1>1, <1>2, <1>4
  <2>2. events'[p] = Append(e, "close") /\ proc'[p] = "dead"
    BY <1>1, <1>2, <1>4
  <2>3. Greets(p)' => Greets(p)
    BY <1>2, <2>2 DEF Greets
  <2>4. \A i \in 2 .. Len(events'[p]) : events'[p][i] # "connect"
    <3>1. Len(Append(e, "close")) = Len(e) + 1 /\ Append(e, "close")[Len(e) + 1] = "close"
      BY <1>2
    <3>2. \A i \in 1 .. Len(e) : Append(e, "close")[i] = e[i]
      BY <1>2
    <3>3. \A i \in 2 .. Len(e) : e[i] # "connect"
      BY DEF WatchInv
    <3>4. Len(e) \in Nat
      BY <1>2
    <3>5. QED
      BY <2>2, <3>1, <3>2, <3>3, <3>4
  <2>5. \A q \in Procs : Started(q)' => FALSE
    BY <1>1 DEF Started
  <2>6. \A q \in Procs : proc'[q] \in {"unborn", "dialing"} => Silent(q)'
    BY <1>1, <2>1, <2>2 DEF WatchInv, Silent
  <2>7. \A q \in Procs : Greets(q)' => conn' # q /\ "start" \notin mail'[q] /\ ~Started(q)'
    BY <1>1, <2>1, <2>3, <2>5 DEF WatchInv, Greets
  <2>8. \A q \in Procs : events'[q] # <<>> \/ q \in minting' => q = born'
    BY <1>1, <2>1 DEF WatchInv
  <2>9. \A q \in Procs : q > born' => proc'[q] = "unborn"
    BY <1>1, <2>1 DEF WatchInv, Procs
  <2>10. \A q \in Procs : \A i \in 2 .. Len(events'[q]) : events'[q][i] # "connect"
    BY <2>1, <2>4 DEF WatchInv
  <2>11. QED
    BY <2>5, <2>6, <2>7, <2>8, <2>9, <2>10 DEF WatchInv
<1>5. QED
  BY <1>3, <1>4 DEF Ends

\* A new process has not been heard of, and the others are done.
LEMMA SpawnWatch ==
    ASSUME Inv, WatchInv, SpawnPublisher, child = NoProc, born <= MaxRestarts,
           Settled \/ born = 0
    PROVE  WatchInv'
<1>1. \A p \in Procs : proc[p] \in {"unborn", "dead"}
  BY DEF Inv, SupervisionInv, OneChild, Live, Procs, NoProc
<1>2. \A p \in Procs : events[p] = <<>>
  <2>1. ASSUME NEW p \in Procs, proc[p] = "dead" PROVE events[p] = <<>>
    BY <2>1 DEF Settled, WatchInv, Procs
  <2>2. QED
    BY <1>1, <2>1 DEF WatchInv, Silent
<1>3. \A p \in Procs : p \notin minting
  <2>1. ASSUME NEW p \in Procs, proc[p] = "dead" PROVE p \notin minting
    BY <2>1 DEF Settled, WatchInv, Procs
  <2>2. QED
    BY <1>1, <2>1 DEF WatchInv, Silent
<1>4. PICK phase \in {"dialing", "dead"} : proc' = [proc EXCEPT ![born + 1] = phase]
  BY DEF SpawnPublisher
<1>5. born + 1 \in Procs /\ born \in Nat
  BY MaxRestartsAssumption DEF Procs, Inv, TypeOK
<1>6. /\ born' = born + 1
      /\ UNCHANGED <<conn, mail, events, minting, watching>>
  BY DEF SpawnPublisher, ipc
<1>7. Silent(born + 1) /\ proc[born + 1] = "unborn"
  BY <1>5 DEF WatchInv, Procs
<1>8. \A q \in Procs : q # born + 1 => proc'[q] = proc[q]
  BY <1>4, <1>5
<1>9. \A q \in Procs : ~Started(q)'
  BY <1>1, <1>4, <1>5, <1>6, <1>7, <1>8 DEF Started, Live, Silent, Inv, TypeOK
<1>10. \A q \in Procs : q > born' => proc'[q] = "unborn"
  BY <1>5, <1>6, <1>8 DEF WatchInv, Procs
<1>11. \A q \in Procs : proc'[q] \in {"unborn", "dialing"} => Silent(q)'
  BY <1>6, <1>7, <1>8 DEF WatchInv, Silent
<1>12. \A q \in Procs : ~Greets(q)' /\ Len(events'[q]) = 0
  BY <1>2, <1>6 DEF Greets
<1>13. \A q \in Procs : events'[q] = <<>> /\ q \notin minting'
  BY <1>2, <1>3, <1>6
<1>14. QED
  BY <1>9, <1>10, <1>11, <1>12, <1>13 DEF WatchInv

\* A process that goes on by itself: it may connect, or read "start".
LEMMA GoesWatch ==
    ASSUME Inv, WatchInv, NEW p \in Procs,
           Dial(p) \/ GetStart(p) \/ Publish(p) \/ Leave(p)
    PROVE  WatchInv'
<1>1. PICK to \in Phases \ {"unborn", "dialing", "dead"} : proc' = [proc EXCEPT ![p] = to]
  BY DEF Dial, GetStart, Publish, Leave, Goes, Phases
<1>2. Live(p) /\ p = born /\ proc \in [Procs -> Phases]
  BY DEF Dial, GetStart, Publish, Leave, Goes, Live, Inv, TypeOK, SupervisionInv, OneChild,
         Procs, NoProc
<1>3. UNCHANGED <<task, state, conn, watching, born, minting, mail>>
  BY DEF Dial, GetStart, Publish, Leave, Goes, manager
<1>4. \A q \in Procs : q # p => proc'[q] = proc[q] /\ ~Live(q)
  BY <1>1, <1>2 DEF Inv, SupervisionInv, OneChild
<1>5. CASE Dial(p)
  <2>1. proc[p] = "dialing" /\ Silent(p) /\ proc'[p] = "waiting"
    BY <1>2, <1>5 DEF Dial, Goes, WatchInv
  <2>2. events' = [events EXCEPT ![p] = <<"connect", "hello">>] /\ events \in [Procs -> Seq(Events)]
    BY <1>5 DEF Dial, Inv, TypeOK, Events
  <2>3. \A q \in Procs : q # p => events'[q] = events[q]
    BY <2>2
  <2>4. events'[p] = <<"connect", "hello">>
    BY <2>2
  <2>5. \A i \in 2 .. Len(events'[p]) : events'[p][i] # "connect"
    BY <2>4
  <2>6. ~Started(p)' /\ conn' # p /\ "start" \notin mail'[p]
    BY <1>3, <2>1 DEF Started, Silent
  <2>7. \A q \in Procs : q # p => ~Started(q)'
    BY <1>3, <1>4 DEF Started, Live
  <2>8. \A q \in Procs : Greets(q)' => conn' # q /\ "start" \notin mail'[q] /\ ~Started(q)'
    BY <1>3, <2>3, <2>6, <2>7 DEF Greets, WatchInv
  <2>9. \A q \in Procs : proc'[q] \in {"unborn", "dialing"} => Silent(q)'
    BY <1>3, <1>4, <2>1, <2>3 DEF WatchInv, Silent
  <2>10. \A q \in Procs : q > born' => proc'[q] = "unborn"
    BY <1>2, <1>3, <1>4 DEF WatchInv, Procs
  <2>11. QED
    BY <1>2, <1>3, <2>3, <2>5, <2>6, <2>7, <2>8, <2>9, <2>10 DEF WatchInv
<1>6. CASE ~Dial(p)
  <2>1. events' = events
    BY <1>6 DEF GetStart, Publish, Leave
  <2>2. Started(p)' => Started(p)
    BY <1>2, <1>3, <1>6 DEF Started, GetStart, Publish, Leave, Goes
  <2>3. \A q \in Procs : Started(q)' => Started(q)
    BY <1>3, <1>4, <2>2 DEF Started, Live
  <2>4. \A q \in Procs : proc'[q] \in {"unborn", "dialing"} => Silent(q)'
    BY <1>1, <1>2, <1>3, <1>4, <2>1 DEF WatchInv, Silent
  <2>5. \A q \in Procs : q > born' => proc'[q] = "unborn"
    BY <1>2, <1>3, <1>4 DEF WatchInv, Procs
  <2>6. QED
    BY <1>3, <2>1, <2>3, <2>4, <2>5 DEF WatchInv, Greets
<1>7. QED
  BY <1>5, <1>6

\* What the socket delivers: only "connect" leaves the state "running", and
\* then no process has been started.
LEMMA SocketWatch ==
    ASSUME Inv, WatchInv, NEW p \in Procs, SocketStep(p)
    PROVE  WatchInv'
<1>1. PICK e \in Events : NextEvent(p, e)
  BY DEF SocketStep, HandleConnect, HandleHello, HandleClose, Events
<1>2. /\ events[p] \in Seq(Events) /\ events[p] # <<>> /\ p = born
      /\ events' = [events EXCEPT ![p] = Tail(events[p])]
      /\ events \in [Procs -> Seq(Events)]
  BY <1>1 DEF NextEvent, WatchInv, Inv, TypeOK, Events
<1>3. UNCHANGED <<task, watching, born, proc, mail>>
  BY <1>1 DEF NextEvent, procs
<1>4. \A q \in Procs : q # p => events'[q] = events[q]
  BY <1>2
<1>5. /\ events'[p] = Tail(events[p])
      /\ Len(Tail(events[p])) = Len(events[p]) - 1
      /\ \A i \in 1 .. Len(events[p]) - 1 : Tail(events[p])[i] = events[p][i + 1]
  BY <1>2
<1>6. \A i \in 1 .. Len(events'[p]) : events'[p][i] # "connect"
  <2>1. \A i \in 2 .. Len(events[p]) : events[p][i] # "connect"
    BY DEF WatchInv
  <2>2. Len(events[p]) \in Nat
    BY <1>2
  <2>3. QED
    BY <1>5, <2>1, <2>2
<1>7. ~Greets(p)'
  <2>1. events'[p] \in Seq(Events)
    BY <1>2, <1>5
  <2>2. QED
    BY <1>6, <2>1 DEF Greets
<1>8. proc[p] \notin {"unborn", "dialing"}
  BY <1>2 DEF WatchInv, Silent
<1>9. \A q \in Procs : Started(q)' <=> Started(q)
  BY <1>3 DEF Started, Live
<1>10. /\ minting' = minting \/ minting' = minting \cup {p}
       /\ conn' \in {conn, p, NoProc}
  BY DEF SocketStep, HandleConnect, HandleHello, HandleClose
<1>11. \A q \in Procs : proc'[q] \in {"unborn", "dialing"} => Silent(q)'
  BY <1>3, <1>4, <1>8, <1>10 DEF WatchInv, Silent, Procs, NoProc
<1>12. \A q \in Procs : Greets(q)' => conn' # q /\ "start" \notin mail'[q] /\ ~Started(q)'
  BY <1>3, <1>4, <1>7, <1>9, <1>10 DEF WatchInv, Greets, Procs, NoProc
<1>13. \A q \in Procs : Started(q) /\ task = "up" => watching' /\ state' = "running"
  <2>1. CASE HandleConnect(p)
    <3>1. Greets(p)
      BY <2>1 DEF HandleConnect, NextEvent, Greets
    <3>2. \A q \in Procs : Live(q) => q = p
      BY <1>2 DEF Inv, SupervisionInv, OneChild, Procs, NoProc
    <3>3. \A q \in Procs : ~Started(q)
      BY <3>1, <3>2 DEF WatchInv, Started
    <3>4. QED
      BY <3>3
  <2>2. CASE state' = state
    BY <1>3, <2>2 DEF WatchInv
  <2>3. QED
    BY <2>1, <2>2 DEF SocketStep, HandleHello, HandleClose
<1>14. \A q \in Procs : \A i \in 2 .. Len(events'[q]) : events'[q][i] # "connect"
  <2>1. \A i \in 2 .. Len(events'[p]) : events'[p][i] # "connect"
    BY <1>6
  <2>2. QED
    BY <1>4, <2>1 DEF WatchInv
<1>15. \A q \in Procs : events'[q] # <<>> \/ q \in minting' => q = born'
  BY <1>2, <1>3, <1>4, <1>10 DEF WatchInv
<1>16. QED
  BY <1>3, <1>9, <1>11, <1>12, <1>13, <1>14, <1>15 DEF WatchInv

\* "start" is sent to whom the connection belongs, and the watch begins.
LEMMA MintedWatch ==
    ASSUME Inv, WatchInv, NEW p \in Procs, Minted(p)
    PROVE  WatchInv'
<1>1. /\ watching' = TRUE /\ state' = "running"
      /\ UNCHANGED <<task, conn, born, proc, events>>
      /\ minting' = minting \ {p} /\ mail \in [Procs -> SUBSET {"start", "stop"}]
  BY DEF Minted, procs, Inv, TypeOK
<1>2. \A q \in Procs : q # conn => mail'[q] = mail[q]
  BY <1>1 DEF Minted, Tell
<1>3. \A q \in Procs : proc'[q] \in {"unborn", "dialing"} => Silent(q)'
  BY <1>1, <1>2 DEF WatchInv, Silent
<1>4. \A q \in Procs : Greets(q)' => conn' # q /\ "start" \notin mail'[q] /\ ~Started(q)'
  BY <1>1, <1>2 DEF WatchInv, Greets, Started, Live
<1>5. QED
  BY <1>1, <1>3, <1>4 DEF WatchInv

\* The end of the child's exit: nobody lives, so nobody is to be watched.
LEMMA ExitWatch ==
    ASSUME Inv, WatchInv, NEW p \in Procs, ExitStep(p)
    PROVE  WatchInv'
<1>1. /\ ChildExit(p) /\ \A q \in Procs : ~Live(q)'
      /\ UNCHANGED <<born, proc, minting, mail, events>> /\ conn' = NoProc
  BY ChildExitKeeps DEF ExitStep, Crashed, ExitAwaited, ExitLate, ChildExit, procs
<1>2. \A q \in Procs : ~Started(q)'
  BY <1>1 DEF Started
<1>3. \A q \in Procs : q # NoProc
  BY DEF Procs, NoProc
<1>4. QED
  BY <1>1, <1>2, <1>3 DEF WatchInv, Silent, Greets

\* stop() may send "stop", never "start", and nobody is watched after it.
LEMMA StopWatch == ASSUME Inv, WatchInv, Stop PROVE WatchInv'
<1>1. /\ task' # "up" /\ UNCHANGED <<conn, born, proc, minting, events>>
      /\ mail \in [Procs -> SUBSET {"start", "stop"}]
  BY DEF Stop, StopEnds, CloseServer, procs, Inv, TypeOK
<1>2. \A q \in Procs : q # conn => mail'[q] = mail[q]
  BY <1>1 DEF Stop, Tell
<1>3. \A q \in Procs : proc'[q] \in {"unborn", "dialing"} => Silent(q)'
  BY <1>1, <1>2 DEF WatchInv, Silent
<1>4. \A q \in Procs : Greets(q)' => conn' # q /\ "start" \notin mail'[q] /\ ~Started(q)'
  BY <1>1, <1>2 DEF WatchInv, Greets, Started, Live
<1>5. QED
  BY <1>1, <1>3, <1>4 DEF WatchInv

LEMMA StepWatch == ASSUME Inv, WatchInv, [Next]_vars PROVE WatchInv'
<1>1. ASSUME UNCHANGED <<task, state, conn, watching, born, proc, mail, events>>,
             minting' \subseteq minting
      PROVE  WatchInv'
  BY <1>1 DEF WatchInv, Started, Silent, Greets, Live
<1>2. CASE UNCHANGED vars
  BY <1>1, <1>2 DEF vars, manager, procs, ipc
<1>3. CASE Start
  BY <1>3, SpawnWatch, MaxRestartsAssumption DEF Start, StartSocketServer, Inv, SupervisionInv
<1>4. CASE StopTimeout
  <2>1. child \in Procs /\ task' = "stopped" /\ conn' = conn
    BY <1>4 DEF StopTimeout, StopEnds, CloseServer, Inv, TypeOK, SupervisionInv
  <2>2. CASE Live(child) /\ Ends(child)
    BY <2>1, <2>2, EndsWatch
  <2>3. CASE UNCHANGED <<procs, ipc>>
    BY <2>1, <2>3 DEF procs, ipc, WatchInv, Started, Silent, Greets, Live
  <2>4. QED
    BY <1>4, <2>2, <2>3 DEF StopTimeout
<1>5. CASE RestartTimer
  <2>1. child = NoProc /\ born <= MaxRestarts /\ Settled /\ SpawnPublisher
    BY <1>5 DEF RestartTimer, Inv, SupervisionInv
  <2>2. QED
    BY <2>1, SpawnWatch
<1>6. CASE Overdue
  BY <1>1, <1>6 DEF Overdue, procs, ipc
<1>7. CASE Watchdog
  BY <1>7, EndsWatch DEF Watchdog, manager, Inv, TypeOK
<1>8. ASSUME NEW p \in Procs, ProcStep(p)
      PROVE  WatchInv'
  <2>1. CASE ObeyStop(p) \/ Exit(p)
    <3>1. Live(p) /\ Ends(p) /\ conn' = conn
      BY <2>1 DEF ObeyStop, Exit, manager, Live
    <3>2. QED
      BY <3>1, EndsWatch
  <2>2. CASE Hang(p)
    BY <1>1, <2>2 DEF Hang, manager, ipc
  <2>3. QED
    BY <1>8, <2>1, <2>2, GoesWatch DEF ProcStep
<1>9. ASSUME NEW p \in Procs, MintFails(p) \/ Heartbeat(p)
      PROVE  WatchInv'
  BY <1>1, <1>9 DEF MintFails, Heartbeat, manager, procs, ipc
<1>10. QED
  BY <1>2, <1>3, <1>4, <1>5, <1>6, <1>7, <1>8, <1>9, StopWatch, SocketWatch, MintedWatch,
     ExitWatch DEF Next, MintStep, Finished

(***************************************************************************)
(* A process that publishes is watched, whatever callbacks came before.    *)
(***************************************************************************)
THEOREM PublishersAreWatched == Spec => []PublisherWatched
<1>1. Init => WatchInv
  BY DEF Init, WatchInv, Started, Silent, Greets, Live, Procs, NoProc
<1>2. Inv /\ WatchInv => PublisherWatched
  BY DEF WatchInv, Started, PublisherWatched, Live
<1>3. QED
  BY <1>1, <1>2, InitKeeps, StepKeeps, StepWatch, PTL DEF Spec

-----------------------------------------------------------------------------
(* The refinement.                                                         *)

AnyLive == \E p \in Procs : Live(p)

Closed == task \in {"waiting", "stopped"}

\* The end of a live process is the end of the one there is.
LEMMA EndsRefines ==
    ASSUME Inv, NEW p \in Procs, Live(p), Ends(p), Closed' = Closed
    PROVE  Supervision!End
<1>1. AnyLive = TRUE /\ AnyLive' = FALSE /\ born' = born
  BY EndsKeeps DEF AnyLive
<1>2. QED
  BY <1>1 DEF Supervision!End, AnyLive, Closed

\* A start is a start of the supervisor.
LEMMA SpawnRefines ==
    ASSUME Inv, SpawnPublisher, child = NoProc, ~Closed, ~Closed', born <= MaxRestarts
    PROVE  Supervision!Start
<1>1. AnyLive = FALSE
  BY DEF Inv, SupervisionInv, OneChild, AnyLive, Procs, NoProc
<1>2. AnyLive' \in BOOLEAN
  BY DEF AnyLive
<1>3. born' = born + 1 /\ born < MaxRestarts + 1
  BY MaxRestartsAssumption DEF SpawnPublisher, Inv, TypeOK
<1>4. QED
  BY <1>1, <1>2, <1>3 DEF Supervision!Start, AnyLive, Closed

\* Every step is a step of the supervisor or changes nothing it sees.
LEMMA StepRefines ==
    ASSUME Inv, [Next]_vars
    PROVE  [Supervision!Next]_(Supervision!supervisorVars)
<1> USE DEF Closed
<1>1. ASSUME proc' = proc, born' = born, Closed' = Closed
      PROVE  UNCHANGED Supervision!supervisorVars
  BY <1>1 DEF Supervision!supervisorVars, Live
<1>2. CASE UNCHANGED vars
  BY <1>1, <1>2 DEF vars, manager, procs
<1>3. CASE Start
  <2>1. born = 0 /\ child = NoProc /\ 0 <= MaxRestarts
    BY <1>3, MaxRestartsAssumption DEF Start, StartSocketServer, Inv, SupervisionInv
  <2>2. QED
    BY <1>3, <2>1, SpawnRefines DEF Start, StartSocketServer, Supervision!Next
<1>4. CASE Stop
  <2>1. Closed' /\ proc' = proc /\ born' = born
    BY <1>4 DEF Stop, StopEnds, CloseServer, procs
  <2>2. CASE task = "up"
    BY <2>1, <2>2 DEF Supervision!Next, Supervision!Close, Live
  <2>3. CASE task = "waiting"
    BY <1>1, <2>1, <2>3
  <2>4. QED
    BY <1>4, <2>2, <2>3 DEF Stop
<1>5. CASE StopTimeout
  <2>1. child \in Procs /\ Closed' = Closed
    BY <1>5 DEF StopTimeout, StopEnds, CloseServer, Inv, TypeOK, SupervisionInv
  <2>2. CASE Live(child) /\ Ends(child)
    BY <2>1, <2>2, EndsRefines DEF Supervision!Next
  <2>3. CASE UNCHANGED <<procs, ipc>>
    BY <1>1, <2>1, <2>3 DEF procs
  <2>4. QED
    BY <1>5, <2>2, <2>3 DEF StopTimeout
<1>6. CASE RestartTimer
  <2>1. /\ child = NoProc /\ born = failures /\ failures <= MaxRestarts
        /\ task = "up" /\ task' = task
    BY <1>6 DEF RestartTimer, Inv, SupervisionInv
  <2>2. QED
    BY <1>6, <2>1, SpawnRefines DEF RestartTimer, Supervision!Next
<1>7. CASE Overdue
  BY <1>1, <1>7 DEF Overdue, procs
<1>8. CASE Watchdog
  <2>1. child \in Procs /\ Live(child) /\ Ends(child) /\ Closed' = Closed
    BY <1>8 DEF Watchdog, manager, Inv, TypeOK
  <2>2. QED
    BY <2>1, EndsRefines DEF Supervision!Next
<1>9. ASSUME NEW p \in Procs, ProcStep(p)
      PROVE  [Supervision!Next]_(Supervision!supervisorVars)
  <2>1. CASE Dial(p) \/ GetStart(p) \/ Publish(p) \/ Leave(p)
    <3>1. PICK from \in Phases \ {"unborn", "dead"}, to \in Phases \ {"unborn", "dead"} :
            Goes(p, from, to)
      BY <2>1 DEF Dial, GetStart, Publish, Leave, Phases
    <3>2. \A q \in Procs : Live(q)' <=> Live(q)
      BY <3>1 DEF Goes, Live, Inv, TypeOK
    <3>3. born' = born /\ Closed' = Closed
      BY <3>1 DEF Goes, manager
    <3>4. QED
      BY <3>2, <3>3 DEF Supervision!supervisorVars
  <2>2. CASE ObeyStop(p) \/ Exit(p)
    <3>1. Live(p) /\ Ends(p) /\ Closed' = Closed
      BY <2>2 DEF ObeyStop, Exit, manager, Live
    <3>2. QED
      BY <3>1, EndsRefines DEF Supervision!Next
  <2>3. CASE Hang(p)
    BY <1>1, <2>3 DEF Hang, manager
  <2>4. QED
    BY <1>9, <2>1, <2>2, <2>3 DEF ProcStep
<1>10. ASSUME NEW p \in Procs, SocketStep(p) \/ MintStep(p) \/ Heartbeat(p)
       PROVE  UNCHANGED Supervision!supervisorVars
  BY <1>1, <1>10 DEF SocketStep, HandleConnect, HandleHello, HandleClose, NextEvent,
                     MintStep, Minted, MintFails, Heartbeat, manager, procs
<1>11. ASSUME NEW p \in Procs, ExitStep(p)
       PROVE  UNCHANGED Supervision!supervisorVars
  <2>1. proc' = proc /\ born' = born
    BY <1>11 DEF ExitStep, Crashed, ExitAwaited, ExitLate, ChildExit, procs
  <2>2. Closed' = Closed
    BY <1>11 DEF ExitStep, Crashed, ExitAwaited, ExitLate, StopEnds, CloseServer
  <2>3. QED
    BY <1>1, <2>1, <2>2
<1>12. QED
  BY <1>2, <1>3, <1>4, <1>5, <1>6, <1>7, <1>8, <1>9, <1>10, <1>11 DEF Next, Finished

(***************************************************************************)
(* Under every interleaving of processes, socket and signals the manager   *)
(* supervises one process at a time, within its limit, and starts none     *)
(* after stop().                                                           *)
(***************************************************************************)
THEOREM ManagerIsSupervisor == Spec => ImplementsSupervisor
<1>1. Init => Supervision!Init
  BY DEF Init, Supervision!Init, Live
<1>2. QED
  BY <1>1, InitKeeps, StepKeeps, StepRefines, PTL
  DEF Spec, ImplementsSupervisor, Supervision!Spec
=============================================================================
