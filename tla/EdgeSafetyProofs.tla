--------------------------- MODULE EdgeSafetyProofs ---------------------------
(***************************************************************************)
(* Theorems about EdgeSafety, for any pages, epochs, network behaviour,    *)
(* timeouts and numbers of commands and restarts.                          *)
(***************************************************************************)
EXTENDS EdgeSafety, SequenceTheorems, TLAPS

Events == {"active", "safe_mode"}

\* A published event keeps the inboxes in their type.
LEMMA PublishType ==
    ASSUME TypeOK, NEW e \in Events, Publish(e)
    PROVE  inbox' \in [Pages -> Seq(Events)]
<1>1. \A p \in Pages : inbox[p] \in Seq(Events) /\ Append(inbox[p], e) \in Seq(Events)
  BY DEF TypeOK, Events
<1>2. QED
  BY <1>1 DEF Publish

\* So does entering safe mode, which may publish one.
LEMMA EnterType ==
    ASSUME TypeOK, NEW why \in Reasons, EnterSafeMode(why)
    PROVE  safeMode' \in BOOLEAN /\ reason' \in Reasons /\ inbox' \in [Pages -> Seq(Events)]
BY PublishType DEF EnterSafeMode, TypeOK, Events

\* What a page does, and which variables of the edge it leaves alone.
LEMMA PageType ==
    ASSUME TypeOK, NEW p \in Pages, PageStep(p)
    PROVE  TypeOK' /\ UNCHANGED <<link, state, history>>
<1> USE DEF TypeOK, state, history, pages
<1>1. ASSUME NEW t \in Reliable \cup Lossy, Send(p, t)
      PROVE  TypeOK' /\ UNCHANGED <<link, state, history>>
  <2>1. [type |-> t, page |-> p, seq |-> seq[p] + 1] \in Command
    BY DEF Command
  <2>2. seq' \in [Pages -> Nat] /\ wire' \subseteq Command
    BY <1>1, <2>1 DEF Send
  <2>3. QED
    BY <1>1, <2>2 DEF Send
<1>2. CASE Open(p)
  <2>1. [type |-> "heartbeat", page |-> p, seq |-> 1] \in Command
    BY DEF Command, Lossy
  <2>2. QED
    BY <1>2, <2>1 DEF Open
<1>3. CASE Close(p)
  <2>1. <<>> \in Seq(Events)
    OBVIOUS
  <2>2. QED
    BY <1>3, <2>1 DEF Close, Events
<1>4. CASE Outage(p)
  BY <1>4 DEF Outage
<1>5. CASE Reconnect(p)
  BY <1>5 DEF Reconnect
<1>6. CASE ReceiveEvent(p)
  <2>1. inbox[p] \in Seq(Events) /\ inbox[p] # <<>>
    BY <1>6 DEF ReceiveEvent, Events
  <2>2. Head(inbox[p]) \in Events /\ Tail(inbox[p]) \in Seq(Events)
    BY <2>1
  <2>3. QED
    BY <1>6, <2>2 DEF ReceiveEvent, Events
<1>7. CASE SendHeartbeat(p) \/ SendMovement(p) \/ SendEmergencyStop(p) \/ SendResume(p)
  BY <1>1, <1>7 DEF SendHeartbeat, SendMovement, SendEmergencyStop, SendResume,
                    Reliable, Lossy
<1>8. QED
  BY <1>2, <1>3, <1>4, <1>5, <1>6, <1>7 DEF PageStep

\* An accepted command leaves an epoch and a number behind.
LEMMA AcceptType ==
    ASSUME TypeOK, NEW m \in Command, Accept(m)
    PROVE  /\ epoch' \in Nat /\ lastSeq' \in Nat /\ wire' \subseteq Command
           /\ UNCHANGED <<link, boots, watch, pages>>
BY ConstantsAssumption DEF TypeOK, Accept, Take, Command

\* Whatever command arrives, types are kept.
LEMMA CommandType == ASSUME TypeOK, NEW m \in Command, CommandStep(m) PROVE TypeOK'
<1> USE DEF TypeOK, state, history, pages, Events
<1>1. CASE IgnoreStale(m)
  BY <1>1 DEF IgnoreStale, Take
<1>2. CASE HandleHeartbeat(m)
  BY <1>2, AcceptType DEF HandleHeartbeat
<1>3. CASE HandleEmergencyStop(m)
  <2>1. stopped' \in [Pages -> Nat]
    BY <1>3 DEF HandleEmergencyStop, Command
  <2>2. "emergency_stop" \in Reasons
    BY DEF Reasons
  <2>3. QED
    BY <1>3, <2>1, <2>2, AcceptType, EnterType DEF HandleEmergencyStop
<1>4. CASE HandleResume(m)
  BY <1>4, AcceptType, PublishType DEF HandleResume
<1>5. CASE DenyResume(m)
  BY <1>5, AcceptType DEF DenyResume
<1>6. CASE HandleMovement(m)
  <2>1. motion' \in [page: Pages, seq: Nat]
    BY <1>6 DEF HandleMovement, Command
  <2>2. QED
    BY <1>6, <2>1, AcceptType DEF HandleMovement
<1>7. CASE BlockMovement(m)
  BY <1>7, AcceptType DEF BlockMovement
<1>8. CASE Lose(m)
  BY <1>8 DEF Lose
<1>9. QED
  BY <1>1, <1>2, <1>3, <1>4, <1>5, <1>6, <1>7, <1>8 DEF CommandStep

\* So they are whatever becomes of the edge process.
LEMMA EdgeType == ASSUME TypeOK, EdgeStep PROVE TypeOK'
<1> USE DEF TypeOK, state, history, pages, Events, Links
<1>1. CASE Boot
  BY <1>1, ConstantsAssumption DEF Boot, Reasons, ConstantsAssumption
<1>2. CASE JoinRoom
  BY <1>2, PublishType DEF JoinRoom
<1>3. CASE LoseRoom
  BY <1>3 DEF LoseRoom, OutOfRoom, Reasons
<1>4. CASE Shutdown
  BY <1>4, PublishType DEF Shutdown
<1>5. CASE Exit
  BY <1>5 DEF Exit, OutOfRoom
<1>6. QED
  BY <1>1, <1>2, <1>3, <1>4, <1>5 DEF EdgeStep

\* And when time passes or the watcher looks.
LEMMA TimeType == ASSUME TypeOK, Tick \/ CheckHeartbeat PROVE TypeOK'
<1> USE ConstantsAssumption DEF TypeOK, state, history, pages, Events, ConstantsAssumption
<1>1. CASE Tick
  <2>1. beat' \in Nat \cup {Never}
    BY <1>1 DEF Tick, Older
  <2>2. QED
    BY <1>1, <2>1 DEF Tick
<1>2. CASE CheckHeartbeat
  <2>1. "heartbeat_timeout" \in Reasons
    BY DEF Reasons
  <2>2. QED
    BY <1>2, <2>1, EnterType DEF CheckHeartbeat
<1>3. QED
  BY <1>1, <1>2

\* Every action keeps all types.
LEMMA TypeStep == TypeOK /\ [Next]_vars => TypeOK'
<1> SUFFICES ASSUME TypeOK, [Next]_vars
             PROVE  TypeOK'
  OBVIOUS
<1>1. CASE UNCHANGED vars
  BY <1>1 DEF vars, TypeOK, state, history, pages
<1>2. \A m \in wire : m \in Command
  BY DEF TypeOK
<1>3. QED
  BY <1>1, <1>2, PageType, CommandType, EdgeType, TimeType DEF Next, Finished

\* Every variable keeps its type: the edge and the pages understand all that
\* they send each other, and no restart leaves a part of the state behind.
THEOREM TypeCorrect == Spec => []TypeOK
<1>1. Init => TypeOK
  BY ConstantsAssumption DEF Init, TypeOK, ConstantsAssumption, Links, Reasons
<1>2. QED
  BY <1>1, TypeStep, PTL DEF Spec
-----------------------------------------------------------------------------
(***************************************************************************)
(* The dead man's switch.                                                  *)
(***************************************************************************)
\* A command leaves safe mode only after a fresh heartbeat.
LEMMA CommandKeepsSwitch ==
    ASSUME TypeOK, SwitchInv, NEW m \in Command, CommandStep(m)
    PROVE  SwitchInv'
<1> USE ConstantsAssumption
    DEF TypeOK, SwitchInv, state, history, pages, ConstantsAssumption, Accept, Take
<1>1. CASE HandleHeartbeat(m)
  BY <1>1 DEF HandleHeartbeat
<1>2. CASE HandleEmergencyStop(m)
  BY <1>2 DEF HandleEmergencyStop, EnterSafeMode
<1>3. CASE HandleResume(m)
  BY <1>3 DEF HandleResume, HeartbeatFresh
<1>4. CASE IgnoreStale(m) \/ DenyResume(m) \/ HandleMovement(m) \/ BlockMovement(m) \/ Lose(m)
  BY <1>4 DEF IgnoreStale, DenyResume, HandleMovement, BlockMovement, Lose
<1>5. QED
  BY <1>1, <1>2, <1>3, <1>4 DEF CommandStep

\* The watcher's last look is never older than "watch" ticks.
LEMMA SwitchStep == TypeOK /\ SwitchInv /\ [Next]_vars => SwitchInv'
<1> SUFFICES ASSUME TypeOK, SwitchInv, [Next]_vars
             PROVE  SwitchInv'
  OBVIOUS
<1> USE DEF SwitchInv
<1>1. ASSUME NEW p \in Pages, PageStep(p)
      PROVE  SwitchInv'
  BY <1>1, PageType DEF state
<1>2. ASSUME NEW m \in wire, CommandStep(m)
      PROVE  SwitchInv'
  BY <1>2, CommandKeepsSwitch DEF TypeOK
<1>3. CASE EdgeStep
  BY <1>3 DEF EdgeStep, Boot, JoinRoom, LoseRoom, Shutdown, Exit, state
<1>4. CASE Tick
  BY <1>4, ConstantsAssumption DEF Tick, Older, TypeOK, ConstantsAssumption
<1>5. CASE CheckHeartbeat
  BY <1>5, ConstantsAssumption
     DEF CheckHeartbeat, TimedOut, EnterSafeMode, TypeOK, ConstantsAssumption
<1>6. CASE UNCHANGED vars
  BY <1>6 DEF vars, state
<1>7. QED
  BY <1>1, <1>2, <1>3, <1>4, <1>5, <1>6 DEF Next, Finished

\* The inductive invariant behind SilenceIsBounded.
LEMMA SwitchInvariant == Spec => [](TypeOK /\ SwitchInv)
<1>1. Init => SwitchInv
  BY DEF Init, SwitchInv
<1>2. QED
  BY <1>1, SwitchStep, TypeCorrect, PTL DEF Spec

\* The dead man's switch, with what each heartbeat, check and boot contributes to it
\* (index.ts:155-257).
THEOREM SwitchHolds == Spec => []SwitchInv
BY SwitchInvariant, PTL

\* Out of safe mode, a heartbeat was heard within the timeout and one
\* interval of the watcher: the watcher's last look is "watch" ticks old.
THEOREM SilenceIsBounded == Spec => []SilenceBounded
<1>1. TypeOK /\ SwitchInv => SilenceBounded
  BY ConstantsAssumption DEF TypeOK, SwitchInv, SilenceBounded, ConstantsAssumption
<1>2. QED
  BY <1>1, SwitchInvariant, PTL
-----------------------------------------------------------------------------
(***************************************************************************)
(* The edge agent implements the abstract switch.                          *)
(***************************************************************************)
\* Every step is one of the switch, or none to it.
LEMMA StepRefines ==
    TypeOK /\ SwitchInv /\ [Next]_vars => [Switch!Next]_(Switch!switchVars)
<1> SUFFICES ASSUME TypeOK, SwitchInv, [Next]_vars
             PROVE  Switch!Next \/ UNCHANGED <<safeMode, beat>>
  BY DEF Switch!switchVars
<1> USE DEF Switch!Next, state
<1>1. ASSUME NEW p \in Pages, PageStep(p)
      PROVE  UNCHANGED <<safeMode, beat>>
  BY <1>1, PageType
<1>2. ASSUME NEW m \in wire, CommandStep(m)
      PROVE  Switch!Next \/ UNCHANGED <<safeMode, beat>>
  <2>1. CASE HandleHeartbeat(m)
    BY <2>1 DEF HandleHeartbeat, Switch!Hear
  <2>2. CASE HandleEmergencyStop(m)
    BY <2>2 DEF HandleEmergencyStop, EnterSafeMode, Switch!Stop
  <2>3. CASE HandleResume(m)
    BY <2>3 DEF HandleResume, HeartbeatFresh, Switch!Arm
  <2>4. CASE IgnoreStale(m) \/ DenyResume(m) \/ HandleMovement(m) \/ BlockMovement(m) \/ Lose(m)
    BY <2>4 DEF IgnoreStale, DenyResume, HandleMovement, BlockMovement, Lose
  <2>5. QED
    BY <1>2, <2>1, <2>2, <2>3, <2>4 DEF CommandStep
<1>3. CASE EdgeStep
  BY <1>3 DEF EdgeStep, Boot, JoinRoom, LoseRoom, Shutdown, Exit, Switch!Stop
<1>4. CASE Tick
  <2>1. CASE beat = Never
    BY <1>4, <2>1 DEF Tick, Older
  <2>2. CASE beat # Never
    BY <1>4, <2>2, ConstantsAssumption
       DEF Tick, Older, TypeOK, SwitchInv, ConstantsAssumption, Switch!Wait
  <2>3. QED
    BY <2>1, <2>2
<1>5. CASE CheckHeartbeat
  BY <1>5 DEF CheckHeartbeat, EnterSafeMode, Switch!Stop
<1>6. CASE UNCHANGED vars
  BY <1>6 DEF vars
<1>7. QED
  BY <1>1, <1>2, <1>3, <1>4, <1>5, <1>6 DEF Next, Finished

\* Every behaviour of the edge, its pages and the network between them is a
\* behaviour of a dead man's switch.
THEOREM EdgeIsSwitch == Spec => ImplementsSwitch
<1>1. Init => Switch!Init
  BY DEF Init, Switch!Init
<1>2. QED
  BY <1>1, StepRefines, SwitchInvariant, PTL DEF Spec, ImplementsSwitch, Switch!Spec
-----------------------------------------------------------------------------
(***************************************************************************)
(* An obeyed stop stays obeyed.                                            *)
(***************************************************************************)
\* A page numbers its commands: what is on its way has been numbered, no
\* number is used twice, and a page that has not opened has used none.
Numbered ==
    /\ \A m \in wire : m.seq <= seq[m.page]
    /\ \A m, k \in wire : m.page = k.page /\ m.seq = k.seq => m = k
    /\ \A p \in Pages : stopped[p] <= seq[p]
    /\ \A p \in Pages : page[p] = "new" => seq[p] = 0

\* The filter that is to hold back page p's commands up to its last stop does.
Filtered(p) ==
    \/ Epoch[p] < epoch
    \/ Epoch[p] = epoch /\ stopped[p] <= lastSeq

\* A command overtaken by a stop that was obeyed went over the lossy channel,
\* so it does not outlive the edge's stay in the room, and the edge that is
\* in the room is the one whose filter has seen the stop.
Overtaken ==
    \A m \in wire : m.seq <= stopped[m.page] =>
        m.type \in Lossy /\ InRoom /\ Filtered(m.page)

StopInv == Numbered /\ Overtaken

\* A new command has a number of its own, above that of every stop so far.
LEMMA SendKeepsStop ==
    ASSUME TypeOK, StopInv, NEW p \in Pages, NEW t \in Reliable \cup Lossy,
           seq' = [seq EXCEPT ![p] = @ + 1],
           \A q \in Pages : page'[q] = "new" => page[q] = "new" /\ q # p,
           wire' \subseteq wire \cup {[type |-> t, page |-> p, seq |-> seq[p] + 1]},
           UNCHANGED <<link, epoch, lastSeq, stopped>>
    PROVE  StopInv'
<1> DEFINE new == [type |-> t, page |-> p, seq |-> seq[p] + 1]
<1> USE DEF TypeOK, Command
<1>1. seq[p] \in Nat /\ stopped[p] <= seq[p] /\ stopped[p] \in Nat
  BY DEF StopInv, Numbered
<1>2. \A m \in wire : m.page = p => m.seq < new.seq
  BY <1>1 DEF StopInv, Numbered
<1>3. seq' \in [Pages -> Nat] /\ \A q \in Pages : seq[q] <= seq'[q]
  OBVIOUS
<1>4. Numbered'
  <2>1. ASSUME NEW m \in wire'
        PROVE  m.seq <= seq'[m.page]
    <3>1. m = new \/ (m \in wire /\ m.page \in Pages /\ m.seq \in Nat)
      OBVIOUS
    <3>2. new.seq = seq'[new.page]
      BY <1>1
    <3>3. m \in wire => m.seq <= seq[m.page] /\ seq[m.page] \in Nat
      BY <3>1 DEF StopInv, Numbered
    <3>4. QED
      BY <1>3, <3>1, <3>2, <3>3
  <2>2. ASSUME NEW m \in wire', NEW k \in wire', m.page = k.page, m.seq = k.seq
        PROVE  m = k
    <3>1. (m = new \/ m \in wire) /\ (k = new \/ k \in wire)
      OBVIOUS
    <3>2. \A i \in wire : i.page # p \/ i.seq # new.seq
      BY <1>1, <1>2
    <3>3. QED
      BY <2>2, <3>1, <3>2 DEF StopInv, Numbered
  <2>3. \A q \in Pages : stopped[q] <= seq'[q]
    BY <1>3 DEF StopInv, Numbered
  <2>4. \A q \in Pages : page'[q] = "new" => seq'[q] = 0
    BY DEF StopInv, Numbered
  <2>5. QED
    BY <2>1, <2>2, <2>3, <2>4 DEF Numbered
<1>5. Overtaken'
  <2>1. ASSUME NEW m \in wire', m.seq <= stopped'[m.page]
        PROVE  m \in wire
    BY <1>1, <2>1
  <2>2. QED
    BY <2>1 DEF StopInv, Overtaken, Filtered, InRoom
<1>6. QED
  BY <1>4, <1>5 DEF StopInv

\* So whatever a page does.
LEMMA PageKeepsStop ==
    ASSUME TypeOK, StopInv, NEW p \in Pages, PageStep(p)
    PROVE  StopInv'
<1> USE DEF state, history, pages
<1>1. ASSUME NEW t \in Reliable \cup Lossy, Send(p, t)
      PROVE  StopInv'
  <2>1. \A q \in Pages : page'[q] = "new" => page[q] = "new" /\ q # p
    BY <1>1 DEF Send, Online
  <2>2. wire' \subseteq wire \cup {[type |-> t, page |-> p, seq |-> seq[p] + 1]}
    BY <1>1 DEF Send
  <2>3. seq' = [seq EXCEPT ![p] = @ + 1] /\ UNCHANGED <<link, epoch, lastSeq, stopped>>
    BY <1>1 DEF Send
  <2>4. QED
    BY <2>1, <2>2, <2>3, SendKeepsStop
<1>2. CASE Open(p)
  <2>1. seq[p] = 0 /\ seq \in [Pages -> Nat]
    BY <1>2 DEF Open, StopInv, Numbered, TypeOK
  <2>2. seq' = [seq EXCEPT ![p] = @ + 1]
    BY <1>2, <2>1 DEF Open
  <2>3. "heartbeat" \in Reliable \cup Lossy
    BY DEF Lossy
  <2>4. wire' \subseteq wire \cup {[type |-> "heartbeat", page |-> p, seq |-> seq[p] + 1]}
    BY <1>2, <2>1 DEF Open
  <2>5. \A q \in Pages : page'[q] = "new" => page[q] = "new" /\ q # p
    BY <1>2 DEF Open, TypeOK
  <2>6. UNCHANGED <<link, epoch, lastSeq, stopped>>
    BY <1>2 DEF Open
  <2>7. QED
    BY <2>2, <2>3, <2>4, <2>5, <2>6, SendKeepsStop
<1>3. CASE Close(p) \/ Outage(p) \/ Reconnect(p) \/ ReceiveEvent(p)
  BY <1>3 DEF Close, Outage, Reconnect, ReceiveEvent, Online, TypeOK,
              StopInv, Numbered, Overtaken, Filtered, InRoom
<1>4. CASE SendHeartbeat(p) \/ SendMovement(p) \/ SendEmergencyStop(p) \/ SendResume(p)
  BY <1>1, <1>4 DEF SendHeartbeat, SendMovement, SendEmergencyStop, SendResume, Reliable, Lossy
<1>5. QED
  BY <1>2, <1>3, <1>4 DEF PageStep

\* An accepted command moves the filter up only: what it held back, it holds back.
LEMMA AcceptKeepsStop ==
    ASSUME TypeOK, StopInv, NEW m \in wire, Accept(m), UNCHANGED stopped
    PROVE  StopInv'
<1> USE DEF TypeOK, Command, Accept, Take, pages
<1>1. Numbered'
  BY DEF StopInv, Numbered
<1>2. ASSUME NEW p \in Pages, Filtered(p)
      PROVE  Filtered(p)'
  <2>1. Epoch[p] \in Nat /\ Epoch[m.page] \in Nat /\ m.seq \in Nat /\ stopped[p] \in Nat
    BY ConstantsAssumption DEF ConstantsAssumption
  <2>2. QED
    BY <1>2, <2>1 DEF Filtered, Stale
<1>3. Overtaken'
  BY <1>2 DEF StopInv, Overtaken, InRoom
<1>4. QED
  BY <1>1, <1>3 DEF StopInv

\* Obeying a stop puts it on record: the filter stands at its number, and its
\* page's reliable commands of before have all arrived.
LEMMA StopKeepsStop ==
    ASSUME TypeOK, StopInv, NEW m \in wire, HandleEmergencyStop(m)
    PROVE  StopInv'
<1> USE DEF TypeOK, Command, HandleEmergencyStop, Accept, Take, pages
<1>1. m \in Command /\ m.page \in Pages /\ m.seq \in Nat /\ m.seq <= seq[m.page]
  BY DEF StopInv, Numbered
<1>2. Numbered'
  BY <1>1 DEF StopInv, Numbered
<1>3. ASSUME NEW p \in Pages, Filtered(p)
      PROVE  Filtered(p)'
  <2>1. Epoch[p] \in Nat /\ Epoch[m.page] \in Nat /\ stopped[p] \in Nat
    BY <1>1, ConstantsAssumption DEF ConstantsAssumption
  <2>2. CASE p = m.page
    BY <1>1, <2>2 DEF Filtered
  <2>3. CASE p # m.page
    BY <1>1, <1>3, <2>1, <2>3 DEF Filtered, Stale
  <2>4. QED
    BY <2>2, <2>3
<1>4. Filtered(m.page)'
  BY <1>1 DEF Filtered
<1>5. ASSUME NEW k \in wire', k.page = m.page, k.seq <= m.seq
      PROVE  k.type \in Lossy
  <2>1. k \in wire /\ k # m /\ k.seq # m.seq
    BY <1>5 DEF StopInv, Numbered
  <2>2. k.type \in Reliable => m.seq <= k.seq
    BY <1>5, <2>1 DEF Arrives, Reliable
  <2>3. QED
    BY <1>1, <1>5, <2>1, <2>2
<1>6. ASSUME NEW k \in wire', k.seq <= stopped'[k.page]
      PROVE  k.type \in Lossy /\ InRoom' /\ Filtered(k.page)'
  <2>1. CASE k.page = m.page
    BY <1>1, <1>4, <1>5, <1>6, <2>1 DEF Arrives, InRoom
  <2>2. CASE k.page # m.page
    BY <1>3, <1>6, <2>2 DEF StopInv, Overtaken, InRoom
  <2>3. QED
    BY <2>1, <2>2
<1>7. QED
  BY <1>2, <1>6 DEF StopInv, Overtaken

\* So every command that arrives, or is lost.
LEMMA CommandKeepsStop ==
    ASSUME TypeOK, StopInv, NEW m \in wire, CommandStep(m)
    PROVE  StopInv'
<1> USE DEF state, history
<1>1. CASE IgnoreStale(m) \/ Lose(m)
  BY <1>1 DEF IgnoreStale, Lose, Take, pages, StopInv, Numbered, Overtaken, Filtered, InRoom
<1>2. CASE HandleEmergencyStop(m)
  BY <1>2, StopKeepsStop
<1>3. CASE HandleHeartbeat(m) \/ HandleResume(m) \/ DenyResume(m) \/ HandleMovement(m) \/ BlockMovement(m)
  BY <1>3, AcceptKeepsStop
     DEF HandleHeartbeat, HandleResume, DenyResume, HandleMovement, BlockMovement
<1>4. QED
  BY <1>1, <1>2, <1>3 DEF CommandStep

\* Where the filter may be forgotten, the lossy commands are gone.
LEMMA EdgeKeepsStop == ASSUME TypeOK, StopInv, EdgeStep PROVE StopInv'
<1> USE DEF state, history, pages
<1>1. CASE LoseRoom \/ Exit
  BY <1>1 DEF LoseRoom, Exit, OutOfRoom, Reliable, Lossy, StopInv, Numbered, Overtaken
<1>2. CASE Boot
  BY <1>2 DEF Boot, InRoom, StopInv, Numbered, Overtaken
<1>3. CASE JoinRoom \/ Shutdown
  BY <1>3 DEF JoinRoom, Shutdown, InRoom, StopInv, Numbered, Overtaken, Filtered
<1>4. QED
  BY <1>1, <1>2, <1>3 DEF EdgeStep

\* Every action keeps it.
LEMMA StopStep == TypeOK /\ StopInv /\ [Next]_vars => StopInv'
<1> SUFFICES ASSUME TypeOK, StopInv, [Next]_vars
             PROVE  StopInv'
  OBVIOUS
<1>1. CASE UNCHANGED vars \/ Tick \/ CheckHeartbeat
  BY <1>1 DEF vars, state, history, pages, Tick, CheckHeartbeat, EnterSafeMode,
              InRoom, StopInv, Numbered, Overtaken, Filtered
<1>2. QED
  BY <1>1, PageKeepsStop, CommandKeepsStop, EdgeKeepsStop DEF Next, Finished

\* The inductive invariant behind StopIsObeyed.
LEMMA StopInvariant == Spec => [](TypeOK /\ StopInv)
<1>1. Init => StopInv
  BY DEF Init, StopInv, Numbered, Overtaken
<1>2. QED
  BY <1>1, StopStep, TypeCorrect, PTL DEF Spec

\* A command that passes the filter was numbered after its page's last stop.
LEMMA AcceptedIsNew ==
    ASSUME TypeOK, StopInv, NEW m \in wire, Accept(m)
    PROVE  m.seq > stopped[m.page]
BY ConstantsAssumption
   DEF TypeOK, Command, Accept, Take, Arrives, Stale, StopInv, Overtaken, Filtered, ConstantsAssumption

\* No page's step touches the vehicle or the switch; no step of the edge or
\* of time moves the vehicle or ends safe mode.
LEMMA StopHoldsStep ==
    TypeOK /\ StopInv /\ [Next]_vars => [MovesAfterStop /\ ResumesAfterStop]_vars
<1> SUFFICES ASSUME TypeOK, StopInv, [Next]_vars
             PROVE  MovesAfterStop /\ ResumesAfterStop
  OBVIOUS
<1> USE DEF MovesAfterStop, ResumesAfterStop, state, history
<1>1. ASSUME NEW p \in Pages, PageStep(p)
      PROVE  MovesAfterStop /\ ResumesAfterStop
  BY <1>1, PageType
<1>2. ASSUME NEW m \in wire, CommandStep(m)
      PROVE  MovesAfterStop /\ ResumesAfterStop
  <2>1. CASE HandleMovement(m)
    BY <2>1, AcceptedIsNew DEF HandleMovement
  <2>2. CASE HandleResume(m)
    <3>1. m \in wire \ wire' /\ m.type = "resume_control" /\ m.seq > stopped[m.page]
      BY <2>2, AcceptedIsNew DEF HandleResume, Accept, Take
    <3>2. UNCHANGED motion
      BY <2>2 DEF HandleResume
    <3>3. QED
      BY <3>1, <3>2
  <2>3. CASE HandleEmergencyStop(m)
    BY <2>3 DEF HandleEmergencyStop, EnterSafeMode
  <2>4. CASE IgnoreStale(m) \/ HandleHeartbeat(m) \/ DenyResume(m) \/ BlockMovement(m) \/ Lose(m)
    BY <2>4 DEF IgnoreStale, HandleHeartbeat, DenyResume, BlockMovement, Lose
  <2>5. QED
    BY <1>2, <2>1, <2>2, <2>3, <2>4 DEF CommandStep
<1>3. CASE EdgeStep
  BY <1>3 DEF EdgeStep, Boot, JoinRoom, LoseRoom, Shutdown, Exit
<1>4. CASE UNCHANGED vars \/ Tick \/ CheckHeartbeat
  BY <1>4 DEF vars, Tick, CheckHeartbeat, EnterSafeMode
<1>5. QED
  BY <1>1, <1>2, <1>3, <1>4 DEF Next, Finished

\* No command of a page moves the vehicle or ends safe mode after a later
\* emergency stop of that page was obeyed (the filter of index.ts:177-189),
\* for any pages, clocks, losses, delays and restarts.
THEOREM StopIsObeyed == Spec => StopHolds
BY StopInvariant, StopHoldsStep, PTL DEF Spec, StopHolds
-----------------------------------------------------------------------------
(***************************************************************************)
(* What a page shows.                                                      *)
(***************************************************************************)
\* What a page will show when all that is on its way has arrived.
Shown(p) == IF inbox[p] = <<>> THEN view[p] ELSE inbox[p][Len(inbox[p])]

\* An edge that has not joined yet is in safe mode; a steady page is never cut
\* off, a page that has not opened has heard nothing, and what an open page
\* was told last is true.
ViewInv ==
    /\ link = "joining" => safeMode
    /\ \A p \in Pages \ Flaky : page[p] # "outage"
    /\ \A p \in Pages : page[p] = "new" => view[p] = "unknown" /\ inbox[p] = <<>>
    /\ \A p \in Pages \ Flaky :
         InRoom /\ safeMode /\ page[p] = "open" => Shown(p) # "active"

\* A published event is the last thing an open page was told.
LEMMA PublishShown ==
    ASSUME TypeOK, ViewInv, NEW e \in Events, Publish(e), UNCHANGED <<page, view>>
    PROVE  /\ \A p \in Pages : page'[p] = "new" => view'[p] = "unknown" /\ inbox'[p] = <<>>
           /\ \A p \in Pages : page'[p] = "open" => Shown(p)' = e
<1>1. ASSUME NEW p \in Pages, page[p] = "new"
      PROVE  view'[p] = "unknown" /\ inbox'[p] = <<>>
  BY <1>1 DEF Publish, Deliverable, ViewInv
<1>2. ASSUME NEW p \in Pages, page[p] = "open"
      PROVE  Shown(p)' = e
  <2>1. inbox[p] \in Seq(Events) /\ inbox'[p] = Append(inbox[p], e)
    BY <1>2 DEF Publish, Deliverable, TypeOK, Events
  <2>2. inbox'[p] # <<>> /\ inbox'[p][Len(inbox'[p])] = e
    BY <2>1
  <2>3. QED
    BY <2>2 DEF Shown
<1>3. QED
  BY <1>1, <1>2

\* What is last in a sequence is last in its tail, if the tail has anything.
LEMMA TailLast ==
    ASSUME NEW s \in Seq(Events), s # <<>>
    PROVE  IF Tail(s) = <<>> THEN Head(s) = s[Len(s)]
           ELSE Tail(s)[Len(Tail(s))] = s[Len(s)]
<1> DEFINE t == Tail(s)
<1>1. t \in Seq(Events) /\ Len(t) = Len(s) - 1 /\ \A i \in 1 .. Len(t) : t[i] = s[i + 1]
  BY HeadTailProperties
<1>2. Len(s) \in Nat \ {0} /\ Head(s) = s[1]
  BY EmptySeq
<1> HIDE DEF t
<1>3. t = <<>> => Len(s) = 1
  BY <1>1, <1>2, EmptySeq
<1>4. t # <<>> => Len(t) \in Nat \ {0}
  BY <1>1, EmptySeq
<1>5. t # <<>> => t[Len(t)] = s[Len(s)]
  BY <1>1, <1>2, <1>4
<1>6. QED
  BY <1>2, <1>3, <1>5 DEF t

\* Receiving an event does not change what the page will show in the end.
LEMMA ReceiveShown ==
    ASSUME TypeOK, NEW p \in Pages, ReceiveEvent(p)
    PROVE  \A q \in Pages : Shown(q)' = Shown(q)
<1>1. inbox[p] \in Seq(Events) /\ inbox[p] # <<>>
  BY DEF ReceiveEvent, TypeOK, Events
<1>2. inbox'[p] = Tail(inbox[p]) /\ view'[p] = Head(inbox[p])
  BY DEF ReceiveEvent, TypeOK
<1>3. Shown(p)' = Shown(p)
  BY <1>1, <1>2, TailLast DEF Shown
<1>4. ASSUME NEW q \in Pages, q # p
      PROVE  Shown(q)' = Shown(q)
  BY <1>4 DEF Shown, ReceiveEvent, TypeOK
<1>5. QED
  BY <1>3, <1>4

\* A page that opens has been told nothing; nothing else a page does changes
\* what it will show while it is open.
LEMMA PageKeepsView ==
    ASSUME TypeOK, ViewInv, NEW p \in Pages, PageStep(p)
    PROVE  ViewInv'
<1> USE DEF TypeOK, state, history, pages
<1>1. CASE \E t \in Reliable \cup Lossy : Send(p, t)
  BY <1>1 DEF Send, ViewInv, InRoom, Shown
<1>2. CASE Open(p) \/ Close(p) \/ Outage(p)
  <2>1. CASE Open(p)
    BY <2>1 DEF Open, ViewInv, InRoom, Shown
  <2>2. CASE Close(p)
    BY <2>2 DEF Close, Online, ViewInv, InRoom, Shown
  <2>3. CASE Outage(p)
    BY <2>3 DEF Outage, Online, ViewInv, InRoom, Shown
  <2>4. QED
    BY <1>2, <2>1, <2>2, <2>3
<1>3. CASE Reconnect(p)
  BY <1>3 DEF Reconnect, ViewInv, InRoom, Shown
<1>4. CASE ReceiveEvent(p)
  <2>1. UNCHANGED <<link, safeMode, page>> /\ page[p] = "open"
    BY <1>4 DEF ReceiveEvent
  <2>2. \A q \in Pages : page[q] = "new" => view'[q] = view[q] /\ inbox'[q] = inbox[q]
    BY <1>4 DEF ReceiveEvent
  <2>3. \A q \in Pages : Shown(q)' = Shown(q)
    BY <1>4, ReceiveShown
  <2>4. QED
    BY <2>1, <2>2, <2>3 DEF ViewInv, InRoom
<1>5. QED
  BY <1>1, <1>2, <1>3, <1>4
     DEF PageStep, SendHeartbeat, SendMovement, SendEmergencyStop, SendResume, Reliable, Lossy

\* Safe mode begins with an event, in the room.
LEMMA EnterKeepsView ==
    ASSUME TypeOK, ViewInv, NEW why \in Reasons, EnterSafeMode(why),
           UNCHANGED <<link, page, view>>
    PROVE  ViewInv'
<1>1. CASE UNCHANGED inbox /\ (safeMode \/ ~InRoom)
  BY <1>1 DEF EnterSafeMode, ViewInv, InRoom, Shown
<1>2. CASE Publish("safe_mode")
  BY <1>2, PublishShown DEF EnterSafeMode, ViewInv, Events
<1>3. QED
  BY <1>1, <1>2 DEF EnterSafeMode

\* A command begins or ends safe mode with an event.
LEMMA CommandKeepsView ==
    ASSUME TypeOK, ViewInv, NEW m \in wire, CommandStep(m)
    PROVE  ViewInv'
<1> USE DEF state, history, pages, Accept, Take
<1>1. CASE HandleEmergencyStop(m)
  BY <1>1, EnterKeepsView DEF HandleEmergencyStop, Reasons
<1>2. CASE HandleResume(m)
  BY <1>2, PublishShown DEF HandleResume, Arrives, ViewInv, InRoom, Events
<1>3. CASE IgnoreStale(m) \/ HandleHeartbeat(m) \/ DenyResume(m) \/ HandleMovement(m) \/ BlockMovement(m) \/ Lose(m)
  BY <1>3 DEF IgnoreStale, HandleHeartbeat, DenyResume, HandleMovement, BlockMovement, Lose,
              ViewInv, InRoom, Shown
<1>4. QED
  BY <1>1, <1>2, <1>3 DEF CommandStep

\* Every join says what the process has been in since it started.
LEMMA EdgeKeepsView == ASSUME TypeOK, ViewInv, EdgeStep PROVE ViewInv'
<1> USE DEF state, history, pages
<1>1. CASE Boot \/ LoseRoom \/ Exit
  BY <1>1 DEF Boot, LoseRoom, Exit, ViewInv, InRoom, Shown
<1>2. CASE JoinRoom
  BY <1>2, PublishShown DEF JoinRoom, ViewInv, Events
<1>3. CASE Shutdown
  BY <1>3, PublishShown DEF Shutdown, ViewInv, Events
<1>4. QED
  BY <1>1, <1>2, <1>3 DEF EdgeStep

\* Every action keeps it.
LEMMA ViewStep == TypeOK /\ ViewInv /\ [Next]_vars => ViewInv'
<1> SUFFICES ASSUME TypeOK, ViewInv, [Next]_vars
             PROVE  ViewInv'
  OBVIOUS
<1> USE DEF state, history, pages
<1>1. CASE CheckHeartbeat
  <2>1. CASE EnterSafeMode("heartbeat_timeout")
    BY <1>1, <2>1, EnterKeepsView DEF CheckHeartbeat, Reasons
  <2>2. CASE UNCHANGED <<safeMode, inbox>>
    BY <1>1, <2>2 DEF CheckHeartbeat, ViewInv, InRoom, Shown
  <2>3. QED
    BY <1>1, <2>1, <2>2 DEF CheckHeartbeat
<1>2. CASE Tick \/ UNCHANGED vars
  BY <1>2 DEF Tick, vars, ViewInv, InRoom, Shown
<1>3. QED
  BY <1>1, <1>2, PageKeepsView, CommandKeepsView, EdgeKeepsView DEF Next, Finished

\* A page with a steady connection that has heard everything does not show
\* "active" while the edge in the room is in safe mode (publishSafetyEvent,
\* index.ts:113-131, and onData of the page), for any pages and restarts.
THEOREM ViewsAgreeAlways == Spec => []ViewsAgree
<1>1. Init => ViewInv
  BY DEF Init, ViewInv, InRoom
<1>2. ViewInv => ViewsAgree
  BY DEF ViewInv, ViewsAgree, Shown
<1>3. QED
  BY <1>1, <1>2, ViewStep, TypeCorrect, PTL DEF Spec

=============================================================================
