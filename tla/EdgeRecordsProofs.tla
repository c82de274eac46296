--------------------------- MODULE EdgeRecordsProofs ---------------------------
(***************************************************************************)
(* What holds of the records of any number of edges, for any number of     *)
(* signals, lines and messages.                                            *)
(***************************************************************************)
EXTENDS EdgeRecords, TLAPS

-----------------------------------------------------------------------------
(* The inductive invariants.                                               *)

\* As long as no publication outlasts a tick, none but the last message waits.
OnlyLastWaits ==
    \A e \in Edges :
        /\ sending[e] \subseteq 1 .. seq[e] /\ audited[e] \subseteq 1 .. seq[e]
        /\ e \notin slow => sending[e] \subseteq {seq[e]}

StreamInv == OnlyLastWaits /\ AuditSampled

\* The timer runs as long as the file is open, and every line is counted.
FileInv == \A e \in Edges : sampling[e] = fd[e] /\ frameNo[e] = lines[e]

Posted(s) == manifest[s].stage # "none"

\* Who finds the file open posts, once for its edge; who is past the POST found the file
\* closed, and so did the process that exits.
PostInv ==
    /\ \A s \in Shutdowns : shutdown[s] \notin {"none", "announcing"} => ~fd[s[1]]
    /\ \A s \in Shutdowns : Posted(s) =>
          shutdown[s] \notin {"none", "announcing"} /\ manifest[s].frames = lines[s[1]]
    /\ \A s, t \in Shutdowns : Posted(s) /\ Posted(t) /\ s[1] = t[1] => s = t
    /\ \A e \in Edges : ~fd[e] => \E s \in Shutdowns : s[1] = e /\ Posted(s)
    /\ \A e \in Edges : process[e] = "exited" => ~fd[e]

\* Nobody finds or creates the system user in between.
UserInv ==
    /\ \A s, t \in Shutdowns :
          s # t /\ manifest[s].stage \in Handling /\ manifest[t].stage \in Handling => crowded
    /\ \A s \in Shutdowns : manifest[s].stage = "create_user" /\ systemUser => crowded

\* The rows are those of the manifests answered with 200.
AssetInv ==
    /\ \A asset \in assets : asset = [by |-> asset.by, frames |-> manifest[asset.by].frames]
    /\ \A asset \in assets : Posted(asset.by)
    /\ \A s \in Shutdowns : manifest[s].status = 200 => \E asset \in assets : asset.by = s

\* What becomes of the POST of an edge that has a vehicle and no failure.
AnswerInv ==
    \A s \in Shutdowns :
        Posted(s) /\ s[1] \in vehicles \ faulty =>
            /\ manifest[s].stage # "lost"
            /\ manifest[s].stage = "answered" /\ ~crowded => manifest[s].status = 200
            /\ shutdown[s] # "posting" => manifest[s].stage = "answered"

RecordsInv == RecordsTypeOK /\ FileInv /\ PostInv /\ UserInv /\ AssetInv /\ AnswerInv

-----------------------------------------------------------------------------
LEMMA ShutdownEdge == \A s \in Shutdowns : s[1] \in Edges
BY DEF Shutdowns

LEMMA KeptFollows == RecordsInv => ManifestKept
<1> SUFFICES ASSUME RecordsInv PROVE ManifestKept
  OBVIOUS
<1> USE DEF RecordsInv
<1>1. ASSUME NEW a \in assets PROVE a.by \in Shutdowns /\ a.frames = lines[a.by[1]]
  <2>1. a.by \in Shutdowns BY DEF RecordsTypeOK
  <2>2. a.frames = manifest[a.by].frames BY DEF AssetInv
  <2>3. QED BY <2>1, <2>2 DEF AssetInv, PostInv
<1>2. ASSUME NEW a \in assets, NEW b \in assets, a.by[1] = b.by[1] PROVE a = b
  <2>1. a.by = b.by BY <1>1, <1>2 DEF AssetInv, PostInv
  <2>2. QED BY <2>1 DEF AssetInv
<1>3. ASSUME NEW e \in vehicles \ faulty, process[e] = "exited", ~CutShort(e), ~crowded
      PROVE  Registered(e)
  <2>1. e \in Edges BY DEF RecordsTypeOK
  <2>2. PICK s \in Shutdowns : s[1] = e /\ Posted(s) BY <1>3, <2>1 DEF PostInv
  <2>3. shutdown[s] # "posting" BY <1>3, <2>2 DEF CutShort
  <2>4. manifest[s].status = 200 BY <1>3, <2>2, <2>3 DEF AnswerInv
  <2>5. QED BY <2>2, <2>4 DEF AssetInv, Registered
<1>4. QED BY <1>1, <1>2, <1>3 DEF ManifestKept

LEMMA InitRecords == RecordsInit => RecordsInv
<1> SUFFICES ASSUME RecordsInit PROVE RecordsInv
  OBVIOUS
<1> USE DEF RecordsInit, NoPost
<1>1. RecordsTypeOK BY DEF RecordsTypeOK, Stages, PostStages
<1>2. FileInv /\ PostInv BY ShutdownEdge DEF FileInv, PostInv, Posted
<1>3. UserInv /\ AssetInv /\ AnswerInv
  BY ShutdownEdge DEF UserInv, AssetInv, AnswerInv, Posted, Handling
<1>4. QED BY <1>1, <1>2, <1>3 DEF RecordsInv

-----------------------------------------------------------------------------
(* The edge.                                                               *)

LEMMA AppendKeeps ==
    ASSUME RecordsInv, NEW e \in Edges, AppendLine(e)
    PROVE  RecordsInv'
<1> USE DEF RecordsInv, AppendLine, stream, tables, history
<1>1. RecordsTypeOK' BY DEF RecordsTypeOK
<1>2. fd' = fd /\ FileInv'
  <2>1. /\ fd \in [Edges -> BOOLEAN] /\ frameNo \in [Edges -> Nat] /\ lines \in [Edges -> Nat]
        /\ fd[e]
    BY DEF RecordsTypeOK, FileInv
  <2>2. fd' = fd BY <2>1
  <2>3. \A d \in Edges : frameNo'[d] = lines'[d] BY <2>1 DEF FileInv
  <2>4. QED BY <2>2, <2>3 DEF FileInv
<1>3. \A s \in Shutdowns : Posted(s) => s[1] # e
  BY DEF PostInv, FileInv
<1>4. PostInv'
  <2>1. \A s \in Shutdowns : Posted(s) => lines'[s[1]] = lines[s[1]]
    BY <1>3, ShutdownEdge DEF RecordsTypeOK
  <2>2. QED BY <1>2, <2>1 DEF PostInv, Posted
<1>5. UserInv' /\ AssetInv' /\ AnswerInv'
  BY DEF UserInv, AssetInv, AnswerInv, Posted
<1>6. QED BY <1>1, <1>2, <1>4, <1>5

LEMMA TelemetryKeeps ==
    ASSUME RecordsInv, NEW e \in Edges,
           Tick(e) \/ \E m \in sending[e] : Published(e, m)
    PROVE  RecordsInv'
<1> USE DEF RecordsInv, file, tables, history
<1>1. RecordsTypeOK'
  <2>1. CASE Tick(e) BY <2>1 DEF Tick, RecordsTypeOK
  <2>2. ASSUME NEW m \in sending[e], Published(e, m) PROVE RecordsTypeOK'
    BY <2>2 DEF Published, RecordsTypeOK
  <2>3. QED BY <2>1, <2>2
<1>2. UNCHANGED <<process, file, shutdown, manifest, tables, vehicles, history>>
  BY DEF Tick, Published
<1>3. FileInv' /\ PostInv' BY <1>2 DEF FileInv, PostInv, Posted
<1>4. UserInv' /\ AssetInv' /\ AnswerInv'
  BY <1>2 DEF UserInv, AssetInv, AnswerInv, Posted
<1>5. QED BY <1>1, <1>3, <1>4

LEMMA CrashKeeps ==
    ASSUME RecordsInv, NEW e \in Edges, Crash(e)
    PROVE  RecordsInv'
<1> USE DEF RecordsInv, Crash, file, stream, tables, history
<1>1. RecordsTypeOK' BY DEF RecordsTypeOK
<1>2. \A d \in Edges : process'[d] = "exited" => process[d] = "exited"
  BY DEF RecordsTypeOK
<1>3. FileInv' /\ PostInv' BY <1>2 DEF FileInv, PostInv, Posted
<1>4. UserInv' /\ AssetInv' /\ AnswerInv' BY DEF UserInv, AssetInv, AnswerInv, Posted
<1>5. QED BY <1>1, <1>3, <1>4

LEMMA SignalKeeps ==
    ASSUME RecordsInv, NEW s \in Shutdowns, Signal(s)
    PROVE  RecordsInv'
<1> USE DEF RecordsInv, Signal, Goes, file, stream, tables, history
<1>1. RecordsTypeOK' BY DEF RecordsTypeOK, Stages
<1>2. ~Posted(s) BY DEF PostInv
<1>3. \A t \in Shutdowns : t # s => shutdown'[t] = shutdown[t] BY DEF RecordsTypeOK
<1>4. FileInv' /\ PostInv' BY <1>2, <1>3 DEF FileInv, PostInv, Posted
<1>5. UserInv' /\ AssetInv' BY DEF UserInv, AssetInv, Posted
<1>6. AnswerInv' BY <1>2, <1>3 DEF AnswerInv, Posted
<1>7. QED BY <1>1, <1>4, <1>5, <1>6

LEMMA AnnouncedKeeps ==
    ASSUME RecordsInv, NEW s \in Shutdowns, Announced(s)
    PROVE  RecordsInv'
<1> DEFINE e == s[1]
<1> e \in Edges BY ShutdownEdge
<1> USE DEF RecordsInv, tables, history
<1>0. UNCHANGED <<process, frameNo, lines, tables, vehicles, history>>
  BY DEF Announced
<1>1. sampling' = [sampling EXCEPT ![e] = FALSE] /\ fd' = [fd EXCEPT ![e] = FALSE]
  BY DEF Announced
<1>2. FileInv' BY <1>0, <1>1 DEF FileInv, RecordsTypeOK
<1>3. CASE fd[e]
  <2> DEFINE post == Sent(frameNo[e])
  <2>1. /\ manifest' = [manifest EXCEPT ![s] = post]
        /\ shutdown[s] = "announcing"
        /\ shutdown' = [shutdown EXCEPT ![s] = "posting"]
        /\ UNCHANGED <<ticking, seq, sending, audited, slow>>
    BY <1>3 DEF Announced, Goes
  <2>2. /\ manifest'[s].stage = "sent" /\ manifest'[s].frames = lines[e]
        /\ manifest'[s].status = 0
        /\ \A t \in Shutdowns : t # s => manifest'[t] = manifest[t] /\ shutdown'[t] = shutdown[t]
        /\ shutdown'[s] = "posting"
    BY <2>1 DEF RecordsTypeOK, FileInv, Sent
  <2>3. \A t \in Shutdowns : Posted(t) => t[1] # e BY <1>3 DEF PostInv
  <2>4. RecordsTypeOK'
    <3>1. post \in [stage : PostStages, frames : Nat, status : {0, 200, 404, 500}]
      BY DEF RecordsTypeOK, PostStages, Sent
    <3>2. manifest' \in [Shutdowns ->
             [stage : PostStages, frames : Nat, status : {0, 200, 404, 500}]]
      BY <2>1, <3>1 DEF RecordsTypeOK
    <3>3. QED BY <1>0, <1>1, <2>1, <3>2 DEF RecordsTypeOK, Stages
  <2>5. PostInv'
    <3>1. ~fd'[e] /\ \A d \in Edges : d # e => fd'[d] = fd[d]
      BY <1>1 DEF RecordsTypeOK
    <3>2. \A t \in Shutdowns : Posted(t)' <=> Posted(t) \/ t = s
      BY <2>2 DEF Posted
    <3>3. /\ \A t \in Shutdowns : shutdown'[t] \notin {"none", "announcing"} => ~fd'[t[1]]
          /\ \A t \in Shutdowns : Posted(t)' =>
                shutdown'[t] \notin {"none", "announcing"} /\ manifest'[t].frames = lines'[t[1]]
      BY <1>0, <2>2, <3>1, <3>2, ShutdownEdge DEF PostInv
    <3>4. \A t, u \in Shutdowns : Posted(t)' /\ Posted(u)' /\ t[1] = u[1] => t = u
      BY <2>3, <3>2 DEF PostInv
    <3>5. \A d \in Edges : ~fd'[d] => \E t \in Shutdowns : t[1] = d /\ Posted(t)'
      BY <3>1, <3>2 DEF PostInv
    <3>6. \A d \in Edges : process'[d] = "exited" => ~fd'[d]
      BY <1>0, <3>1 DEF PostInv
    <3>7. QED BY <3>3, <3>4, <3>5, <3>6 DEF PostInv
  <2>6. UserInv' BY <1>0, <2>2 DEF UserInv, Handling
  <2>7. AssetInv'
    <3>1. ~Posted(s) BY <2>3
    <3>2. \A asset \in assets : asset.by \in Shutdowns /\ asset.by # s
      BY <3>1 DEF AssetInv, RecordsTypeOK
    <3>3. QED BY <1>0, <2>2, <3>2 DEF AssetInv, Posted
  <2>8. AnswerInv' BY <1>0, <2>2 DEF AnswerInv, Posted
  <2>9. QED BY <1>2, <2>4, <2>5, <2>6, <2>7, <2>8
<1>4. CASE ~fd[e]
  <2>1. /\ shutdown[s] = "announcing" /\ shutdown' = [shutdown EXCEPT ![s] = "stopping"]
        /\ ticking' = [ticking EXCEPT ![e] = FALSE]
        /\ UNCHANGED <<manifest, seq, sending, audited, slow>>
    BY <1>4 DEF Announced, Goes
  <2>2. \A t \in Shutdowns : t # s => shutdown'[t] = shutdown[t] BY <2>1 DEF RecordsTypeOK
  <2>3. ~Posted(s) /\ fd' = fd BY <1>1, <1>4, <2>1 DEF PostInv, RecordsTypeOK
  <2>4. RecordsTypeOK' BY <1>0, <1>1, <2>1 DEF RecordsTypeOK, Stages
  <2>5. PostInv' BY <1>0, <1>4, <2>1, <2>2, <2>3 DEF PostInv, Posted
  <2>6. UserInv' /\ AssetInv' BY <1>0, <2>1 DEF UserInv, AssetInv, Posted
  <2>7. AnswerInv' BY <1>0, <2>1, <2>2, <2>3 DEF AnswerInv, Posted
  <2>8. QED BY <1>2, <2>4, <2>5, <2>6, <2>7
<1>5. QED BY <1>3, <1>4

LEMMA PostEndsKeeps ==
    ASSUME RecordsInv, NEW s \in Shutdowns, PostEnds(s)
    PROVE  RecordsInv'
<1> DEFINE e == s[1]
<1> e \in Edges BY ShutdownEdge
<1> USE DEF RecordsInv, tables
<1>1. /\ UNCHANGED <<process, file, seq, sending, audited, slow, manifest, tables, vehicles, crowded>>
      /\ shutdown[s] = "posting" /\ shutdown' = [shutdown EXCEPT ![s] = "stopping"]
      /\ ticking' = [ticking EXCEPT ![e] = FALSE]
      /\ faulty' = IF manifest[s].stage = "answered" THEN faulty ELSE faulty \cup {e}
  BY DEF PostEnds, Goes
<1>2. RecordsTypeOK' BY <1>1 DEF RecordsTypeOK, Stages, file
<1>3. /\ shutdown'[s] = "stopping"
      /\ \A t \in Shutdowns : t # s => shutdown'[t] = shutdown[t]
  BY <1>1 DEF RecordsTypeOK
<1>4. FileInv' /\ PostInv' BY <1>1, <1>3 DEF FileInv, PostInv, Posted, file
<1>5. UserInv' /\ AssetInv' BY <1>1 DEF UserInv, AssetInv, Posted
<1>6. AnswerInv' BY <1>1, <1>3 DEF AnswerInv, Posted
<1>7. QED BY <1>2, <1>4, <1>5, <1>6

LEMMA ExitKeeps ==
    ASSUME RecordsInv, NEW s \in Shutdowns, ExitProcess(s)
    PROVE  RecordsInv'
<1> DEFINE e == s[1]
<1> e \in Edges BY ShutdownEdge
<1> USE DEF RecordsInv, tables, history
<1>1. /\ UNCHANGED <<file, stream, manifest, tables, vehicles, history>>
      /\ shutdown[s] = "stopping" /\ shutdown' = [shutdown EXCEPT ![s] = "leaving"]
      /\ process' = [process EXCEPT ![e] = "exited"]
  BY DEF ExitProcess, Goes
<1>2. RecordsTypeOK' BY <1>1 DEF RecordsTypeOK, Stages, file, stream
<1>3. /\ shutdown'[s] = "leaving"
      /\ \A t \in Shutdowns : t # s => shutdown'[t] = shutdown[t]
  BY <1>1 DEF RecordsTypeOK
<1>4. ~fd[e] BY <1>1 DEF PostInv
<1>5. FileInv' /\ PostInv'
  <2>1. \A d \in Edges : process'[d] = "exited" => process[d] = "exited" \/ d = e
    BY <1>1 DEF RecordsTypeOK
  <2>2. QED BY <1>1, <1>3, <1>4, <2>1 DEF FileInv, PostInv, Posted, file
<1>6. UserInv' /\ AssetInv' BY <1>1 DEF UserInv, AssetInv, Posted
<1>7. AnswerInv' BY <1>1, <1>3 DEF AnswerInv, Posted
<1>8. QED BY <1>2, <1>5, <1>6, <1>7

-----------------------------------------------------------------------------
(* The backend.                                                            *)

Moved(s, to, status) ==
    /\ manifest' \in [Shutdowns ->
          [stage : PostStages, frames : Nat, status : {0, 200, 404, 500}]]
    /\ manifest'[s] = [stage |-> to, frames |-> manifest[s].frames, status |-> status]
    /\ \A t \in Shutdowns : t # s => manifest'[t] = manifest[t]
    /\ \A t \in Shutdowns : Posted(t)' <=> Posted(t)

LEMMA MovesKeeps ==
    ASSUME RecordsInv, NEW s \in Shutdowns,
           NEW from \in PostStages \ {"none"}, NEW to \in PostStages \ {"none"},
           NEW status \in {0, 200, 404, 500}, Moves(s, from, to, status)
    PROVE  Moved(s, to, status) /\ FileInv' /\ PostInv'
<1> USE DEF RecordsInv, Moves
<1>1. manifest \in [Shutdowns ->
          [stage : PostStages, frames : Nat, status : {0, 200, 404, 500}]]
  BY DEF RecordsTypeOK
<1>2. manifest'[s] = [stage |-> to, frames |-> manifest[s].frames, status |-> status]
  BY <1>1
<1>3. \A t \in Shutdowns : t # s => manifest'[t] = manifest[t]
  BY <1>1
<1>4. manifest' \in [Shutdowns ->
          [stage : PostStages, frames : Nat, status : {0, 200, 404, 500}]]
  BY <1>1
<1>5. \A t \in Shutdowns : (Posted(t)' <=> Posted(t)) /\ manifest'[t].frames = manifest[t].frames
  BY <1>2, <1>3 DEF Posted
<1>6. FileInv' /\ PostInv'
  BY <1>5 DEF FileInv, PostInv, file
<1>7. QED BY <1>2, <1>3, <1>4, <1>5, <1>6 DEF Moved

\* A move that neither answers 200 nor leaves the handler keeps rows and answers.
LEMMA MovesKeepsRows ==
    ASSUME RecordsInv, NEW s \in Shutdowns,
           NEW from \in PostStages \ {"none", "answered"}, NEW to \in PostStages \ {"none"},
           NEW status \in {0, 404, 500}, Moves(s, from, to, status),
           assets' = assets, faulty \subseteq faulty', crowded => crowded',
           to \in {"answered", "lost"} /\ s[1] \in vehicles \ faulty' => to = "answered" /\ crowded'
    PROVE  AssetInv' /\ AnswerInv'
<1> USE DEF RecordsInv
<1>0. status \in {0, 200, 404, 500} /\ from \in PostStages \ {"none"}
  OBVIOUS
<1>a. Moved(s, to, status) BY <1>0, MovesKeeps
<1>1. /\ manifest'[s] = [stage |-> to, frames |-> manifest[s].frames, status |-> status]
      /\ \A t \in Shutdowns : t # s => manifest'[t] = manifest[t]
      /\ \A t \in Shutdowns : Posted(t)' <=> Posted(t)
      /\ manifest[s].stage = from /\ shutdown' = shutdown /\ vehicles' = vehicles
  BY <1>a DEF Moves, Moved
<1>2. \A asset \in assets : asset.by \in Shutdowns BY DEF RecordsTypeOK
<1>3. AssetInv'
  <2>1. \A asset \in assets : manifest'[asset.by].frames = manifest[asset.by].frames
    BY <1>1, <1>2
  <2>2. \A asset \in assets' : asset = [by |-> asset.by, frames |-> manifest'[asset.by].frames]
    BY <2>1 DEF AssetInv
  <2>3. \A asset \in assets' : Posted(asset.by)' BY <1>1, <1>2 DEF AssetInv
  <2>4. \A t \in Shutdowns : manifest'[t].status = 200 => \E asset \in assets' : asset.by = t
    BY <1>1 DEF AssetInv
  <2>5. QED BY <2>2, <2>3, <2>4 DEF AssetInv
<1>4. ASSUME NEW t \in Shutdowns, Posted(t)', t[1] \in vehicles' \ faulty'
      PROVE  /\ manifest'[t].stage # "lost"
             /\ manifest'[t].stage = "answered" /\ ~crowded' => manifest'[t].status = 200
             /\ shutdown'[t] # "posting" => manifest'[t].stage = "answered"
  <2>1. CASE t # s BY <1>1, <1>4, <2>1 DEF AnswerInv
  <2>2. CASE t = s
    <3>1. shutdown[s] = "posting" BY <1>1, <1>4, <2>2 DEF AnswerInv
    <3>2. QED BY <1>1, <1>4, <2>2, <3>1
  <2>3. QED BY <2>1, <2>2
<1>5. AnswerInv' BY <1>4 DEF AnswerInv
<1>6. QED BY <1>3, <1>5

LEMMA LostKeeps ==
    ASSUME RecordsInv, NEW s \in Shutdowns, PostLost(s)
    PROVE  RecordsInv'
<1> USE DEF PostLost, tables
<1>1. /\ "sent" \in PostStages \ {"none", "answered"} /\ "sent" \in PostStages \ {"none"}
      /\ "lost" \in PostStages \ {"none"}
  BY DEF PostStages
<1>2. Moved(s, "lost", 0) /\ FileInv' /\ PostInv' BY <1>1, MovesKeeps
<1>3. s[1] \notin vehicles \ faulty' OBVIOUS
<1>4. AssetInv' /\ AnswerInv'
  <2>1. crowded' = crowded /\ faulty \subseteq faulty' /\ assets' = assets OBVIOUS
  <2>2. QED BY <1>1, <1>3, <2>1, MovesKeepsRows
<1>5. RecordsTypeOK'
  BY <1>2, ShutdownEdge DEF RecordsInv, RecordsTypeOK, Moved, Moves, file, stream
<1>6. UserInv' BY <1>2 DEF RecordsInv, UserInv, Handling, Moved
<1>7. QED BY <1>2, <1>4, <1>5, <1>6 DEF RecordsInv

LEMMA ReceiveKeeps ==
    ASSUME RecordsInv, NEW s \in Shutdowns, ReceiveManifest(s)
    PROVE  RecordsInv'
<1> USE DEF ReceiveManifest, Handles, Answers, tables
<1>1. /\ "sent" \in PostStages \ {"none", "answered"} /\ "sent" \in PostStages \ {"none"}
      /\ "user" \in PostStages \ {"none"} /\ "answered" \in PostStages \ {"none"}
  BY DEF PostStages, Handling
<1>2. /\ assets' = assets /\ systemUser' = systemUser /\ faulty' = faulty
      /\ crowded => crowded'
      /\ \A t \in Shutdowns : t # s /\ manifest[t].stage \in Handling => crowded'
      /\ crowded' \in BOOLEAN
  OBVIOUS
<1>3. ASSUME NEW to \in {"user", "answered"}, NEW status \in {0, 404}, Moves(s, "sent", to, status),
             to = "answered" => s[1] \notin vehicles
      PROVE  RecordsInv'
  <2>1. /\ to \in PostStages \ {"none"}
        /\ status \in {0, 200, 404, 500} /\ status \in {0, 404, 500}
    BY <1>1
  <2>2. Moved(s, to, status) /\ FileInv' /\ PostInv'
    BY <1>1, <1>3, <2>1, MovesKeeps
  <2>3. AssetInv' /\ AnswerInv'
    <3>1. to \in {"answered", "lost"} /\ s[1] \in vehicles \ faulty' => to = "answered" /\ crowded'
      BY <1>3
    <3>2. crowded => crowded' BY <1>2
    <3>3. QED BY <1>1, <1>2, <1>3, <2>1, <3>1, <3>2, MovesKeepsRows
  <2>4. RecordsTypeOK'
    BY <1>2, <1>3, <2>2 DEF RecordsInv, RecordsTypeOK, Moved, Moves, file, stream
  <2>5. \A t, u \in Shutdowns :
           t # u /\ manifest'[t].stage \in Handling /\ manifest'[u].stage \in Handling => crowded'
    <3> SUFFICES ASSUME NEW t \in Shutdowns, NEW u \in Shutdowns, t # u,
                        manifest'[t].stage \in Handling, manifest'[u].stage \in Handling
                 PROVE  crowded'
      OBVIOUS
    <3>1. CASE t = s BY <1>2, <2>2, <3>1 DEF Moved
    <3>2. CASE u = s BY <1>2, <2>2, <3>2 DEF Moved
    <3>3. CASE t # s /\ u # s BY <1>2, <2>2, <3>3 DEF Moved, RecordsInv, UserInv
    <3>4. QED BY <3>1, <3>2, <3>3
  <2>6. \A t \in Shutdowns : manifest'[t].stage = "create_user" /\ systemUser' => crowded'
    <3>1. manifest'[s].stage # "create_user" BY <2>2 DEF Moved
    <3>2. QED BY <1>2, <2>2, <3>1 DEF RecordsInv, UserInv, Moved
  <2>7. QED BY <2>2, <2>3, <2>4, <2>5, <2>6 DEF RecordsInv, UserInv
<1>4. CASE Moves(s, "sent", "user", 0) BY <1>3, <1>4
<1>5. CASE s[1] \notin vehicles /\ Moves(s, "sent", "answered", 404) BY <1>3, <1>5
<1>6. QED BY <1>4, <1>5

LEMMA HandlingStages ==
    /\ \A stage \in Handling : stage \in PostStages \ {"none", "answered"}
    /\ \A stage \in Handling : stage \in PostStages \ {"none"}
    /\ "answered" \in PostStages \ {"none"}
BY DEF Handling, PostStages

\* A POST that was in the handler adds no other to those who wait there.
LEMMA HandlersStay ==
    ASSUME RecordsInv, NEW s \in Shutdowns, manifest[s].stage \in Handling,
           NEW to, NEW status, Moved(s, to, status), crowded' = crowded
    PROVE  \A t, u \in Shutdowns :
              t # u /\ manifest'[t].stage \in Handling /\ manifest'[u].stage \in Handling => crowded'
<1> SUFFICES ASSUME NEW t \in Shutdowns, NEW u \in Shutdowns, t # u,
                    manifest'[t].stage \in Handling, manifest'[u].stage \in Handling
             PROVE  crowded'
  OBVIOUS
<1>1. manifest[t].stage \in Handling /\ manifest[u].stage \in Handling BY DEF Moved
<1>2. QED BY <1>1 DEF RecordsInv, UserInv

LEMMA FindKeeps ==
    ASSUME RecordsInv, NEW s \in Shutdowns, FindSystemUser(s)
    PROVE  RecordsInv'
<1> DEFINE to == IF systemUser THEN "asset" ELSE "create_user"
<1>1. /\ Moves(s, "user", to, 0) /\ to \in Handling /\ "user" \in Handling
      /\ UNCHANGED <<systemUser, assets, faulty, crowded>>
  BY DEF FindSystemUser, Handles, Handling, tables, history
<1>2. Moved(s, to, 0) /\ FileInv' /\ PostInv'
  BY <1>1, HandlingStages, MovesKeeps
<1>3. to \notin {"answered", "lost"} BY DEF Handling
<1>4. AssetInv' /\ AnswerInv' BY <1>1, <1>3, HandlingStages, MovesKeepsRows
<1>5. RecordsTypeOK'
  BY <1>1, <1>2 DEF RecordsInv, RecordsTypeOK, Moved, Moves, file, stream
<1>6. UserInv'
  <2>1. manifest[s].stage \in Handling BY <1>1 DEF Moves
  <2>2. \A t \in Shutdowns : manifest'[t].stage = "create_user" /\ systemUser' => crowded'
    BY <1>1, <1>2 DEF RecordsInv, UserInv, Moved
  <2>3. QED BY <1>1, <1>2, <2>1, <2>2, HandlersStay DEF UserInv
<1>7. QED BY <1>2, <1>4, <1>5, <1>6 DEF RecordsInv

LEMMA CreateUserKeeps ==
    ASSUME RecordsInv, NEW s \in Shutdowns, CreateSystemUser(s)
    PROVE  RecordsInv'
<1> USE DEF CreateSystemUser, Handles, Answers
<1>1. /\ systemUser' = TRUE /\ UNCHANGED <<assets, faulty, crowded>>
      /\ manifest[s].stage = "create_user" /\ "create_user" \in Handling
  BY DEF Moves, history, Handling
<1>2. ASSUME NEW to \in {"asset", "answered"}, NEW status \in {0, 500},
             Moves(s, "create_user", to, status), to = "answered" => systemUser
      PROVE  RecordsInv'
  <2>1. to \in PostStages \ {"none"} BY HandlingStages DEF Handling
  <2>2. status \in {0, 200, 404, 500} /\ status \in {0, 404, 500} OBVIOUS
  <2>3. Moved(s, to, status) /\ FileInv' /\ PostInv'
    BY <1>1, <1>2, <2>1, <2>2, HandlingStages, MovesKeeps
  <2>4. to \in {"answered", "lost"} => to = "answered" /\ crowded'
    BY <1>1, <1>2 DEF RecordsInv, UserInv
  <2>5. AssetInv' /\ AnswerInv'
    BY <1>1, <1>2, <2>1, <2>2, <2>4, HandlingStages, MovesKeepsRows
  <2>6. RecordsTypeOK'
    BY <1>1, <1>2, <2>3 DEF RecordsInv, RecordsTypeOK, Moved, Moves, file, stream
  <2>7. \A t \in Shutdowns : manifest'[t].stage = "create_user" => crowded'
    BY <1>1, <1>2, <2>3 DEF RecordsInv, UserInv, Moved
  <2>8. UserInv' BY <1>1, <2>3, <2>7, HandlersStay DEF UserInv
  <2>9. QED BY <2>3, <2>5, <2>6, <2>8 DEF RecordsInv
<1>3. CASE Moves(s, "create_user", "asset", 0) BY <1>2, <1>3
<1>4. CASE systemUser /\ Moves(s, "create_user", "answered", 500) BY <1>2, <1>4
<1>5. QED BY <1>3, <1>4

LEMMA FailsKeeps ==
    ASSUME RecordsInv, NEW s \in Shutdowns, HandlerFails(s)
    PROVE  RecordsInv'
<1> DEFINE from == manifest[s].stage
<1>1. /\ Moves(s, from, "answered", 500) /\ from \in Handling
      /\ UNCHANGED <<systemUser, assets, crowded>> /\ faulty' = faulty \cup {s[1]}
  BY DEF HandlerFails, Answers, tables
<1> HIDE DEF from
<1>2. Moved(s, "answered", 500) /\ FileInv' /\ PostInv'
  BY <1>1, HandlingStages, MovesKeeps
<1>3. AssetInv' /\ AnswerInv'
  <2>1. s[1] \notin vehicles \ faulty' /\ faulty \subseteq faulty' BY <1>1
  <2>2. QED BY <1>1, <2>1, HandlingStages, MovesKeepsRows
<1>4. RecordsTypeOK'
  BY <1>1, <1>2, ShutdownEdge DEF RecordsInv, RecordsTypeOK, Moved, Moves, file, stream
<1>5. UserInv'
  <2>1. manifest[s].stage \in Handling BY <1>1 DEF Moves
  <2>2. \A t \in Shutdowns : manifest'[t].stage = "create_user" /\ systemUser' => crowded'
    BY <1>1, <1>2 DEF RecordsInv, UserInv, Moved
  <2>3. QED BY <1>1, <1>2, <2>1, <2>2, HandlersStay DEF UserInv
<1>6. QED BY <1>2, <1>3, <1>4, <1>5 DEF RecordsInv

LEMMA CreateAssetKeeps ==
    ASSUME RecordsInv, NEW s \in Shutdowns, CreateAsset(s)
    PROVE  RecordsInv'
<1> DEFINE new == [by |-> s, frames |-> manifest[s].frames]
<1>1. /\ Moves(s, "asset", "answered", 200) /\ "asset" \in Handling
      /\ UNCHANGED <<systemUser, faulty, crowded>> /\ assets' = assets \cup {new}
  BY DEF CreateAsset, Answers, history, Handling
<1>2. Moved(s, "answered", 200) /\ FileInv' /\ PostInv'
  BY <1>1, HandlingStages, MovesKeeps
<1>3. RecordsTypeOK'
  <2>1. new \in [by : Shutdowns, frames : Nat] BY DEF RecordsInv, RecordsTypeOK
  <2>2. QED BY <1>1, <1>2, <2>1 DEF RecordsInv, RecordsTypeOK, Moved, Moves, file, stream
<1>4. UserInv'
  <2>1. manifest[s].stage \in Handling BY <1>1 DEF Moves
  <2>2. \A t \in Shutdowns : manifest'[t].stage = "create_user" /\ systemUser' => crowded'
    BY <1>1, <1>2 DEF RecordsInv, UserInv, Moved
  <2>3. QED BY <1>1, <1>2, <2>1, <2>2, HandlersStay DEF UserInv
<1>5. AssetInv'
  <2>1. /\ \A t \in Shutdowns : manifest'[t].frames = manifest[t].frames
        /\ \A t \in Shutdowns : t # s => manifest'[t] = manifest[t]
        /\ Posted(s)'
    BY <1>2 DEF Moved, Posted
  <2>2. \A asset \in assets : asset.by \in Shutdowns BY DEF RecordsInv, RecordsTypeOK
  <2>3. \A asset \in assets' : asset = [by |-> asset.by, frames |-> manifest'[asset.by].frames]
    BY <1>1, <2>1, <2>2 DEF RecordsInv, AssetInv
  <2>4. \A asset \in assets' : Posted(asset.by)'
    BY <1>1, <1>2, <2>1, <2>2 DEF RecordsInv, AssetInv, Moved
  <2>5. \A t \in Shutdowns : manifest'[t].status = 200 => \E asset \in assets' : asset.by = t
    <3> SUFFICES ASSUME NEW t \in Shutdowns, manifest'[t].status = 200
                 PROVE  \E asset \in assets' : asset.by = t
      OBVIOUS
    <3>1. CASE t = s
      <4>1. new \in assets' /\ new.by = s BY <1>1
      <4>2. QED BY <3>1, <4>1
    <3>2. CASE t # s
      <4>1. manifest[t].status = 200 BY <2>1, <3>2
      <4>2. QED BY <1>1, <4>1 DEF RecordsInv, AssetInv
    <3>3. QED BY <3>1, <3>2
  <2>6. QED BY <2>3, <2>4, <2>5 DEF AssetInv
<1>6. AnswerInv'
  BY <1>1, <1>2 DEF RecordsInv, AnswerInv, Moved, Moves
<1>7. QED BY <1>2, <1>3, <1>4, <1>5, <1>6 DEF RecordsInv

LEMMA StepRecords == RecordsInv /\ [RecordsNext]_recordVars => RecordsInv'
<1> SUFFICES ASSUME RecordsInv, [RecordsNext]_recordVars PROVE RecordsInv'
  OBVIOUS
<1>1. CASE UNCHANGED recordVars
  BY <1>1 DEF RecordsInv, RecordsTypeOK, FileInv, PostInv, UserInv, AssetInv, AnswerInv, Posted,
              recordVars, file, stream, tables, history
<1>2. ASSUME NEW e \in Edges,
             AppendLine(e) \/ Tick(e) \/ Crash(e) \/ \E m \in sending[e] : Published(e, m)
      PROVE  RecordsInv'
  BY <1>2, AppendKeeps, TelemetryKeeps, CrashKeeps
<1>3. ASSUME NEW s \in Shutdowns, Signal(s) \/ ShutdownStep(s) PROVE RecordsInv'
  BY <1>3, SignalKeeps, AnnouncedKeeps, PostEndsKeeps, ExitKeeps DEF ShutdownStep
<1>4. ASSUME NEW s \in Shutdowns, PostLost(s) \/ HandlerStep(s) PROVE RecordsInv'
  BY <1>4, LostKeeps, ReceiveKeeps, FindKeeps, CreateUserKeeps, CreateAssetKeeps, FailsKeeps
  DEF HandlerStep
<1>5. QED BY <1>1, <1>2, <1>3, <1>4 DEF RecordsNext

-----------------------------------------------------------------------------
(* The telemetry.                                                          *)

LEMMA StepStream == StreamInv /\ RecordsTypeOK /\ [RecordsNext]_recordVars => StreamInv'
<1> SUFFICES ASSUME StreamInv, RecordsTypeOK, [RecordsNext]_recordVars PROVE StreamInv'
  OBVIOUS
<1> USE DEF StreamInv, OnlyLastWaits, AuditSampled
<1>1. ASSUME NEW e \in Edges, Tick(e) PROVE StreamInv'
  <2>1. /\ seq' = [seq EXCEPT ![e] = seq[e] + 1]
        /\ sending' = [sending EXCEPT ![e] = @ \cup {seq[e] + 1}]
        /\ slow' = IF sending[e] # {} THEN slow \cup {e} ELSE slow
        /\ audited' = audited
    BY <1>1 DEF Tick, RecordsTypeOK
  <2>2. ASSUME NEW d \in Edges, d # e
        PROVE seq'[d] = seq[d] /\ sending'[d] = sending[d] /\ (d \in slow' <=> d \in slow)
    BY <2>1, <2>2 DEF RecordsTypeOK
  <2>3. seq'[e] = seq[e] + 1 /\ sending'[e] = sending[e] \cup {seq[e] + 1} /\ seq[e] \in Nat
    BY <2>1 DEF RecordsTypeOK
  <2>4. /\ sending'[e] \subseteq 1 .. seq'[e] /\ audited'[e] \subseteq 1 .. seq'[e]
        /\ e \notin slow' => sending'[e] \subseteq {seq'[e]}
    BY <2>1, <2>3
  <2>5. ASSUME e \notin slow'
        PROVE  audited'[e] = {m \in 1 .. seq'[e] : m % EveryN = 0} \ sending'[e]
    <3>1. sending[e] = {} /\ e \notin slow BY <2>1, <2>5
    <3>2. audited[e] = {m \in 1 .. seq[e] : m % EveryN = 0} BY <3>1
    <3>3. 1 .. seq'[e] = 1 .. seq[e] \cup {seq[e] + 1} BY <2>3
    <3>4. sending'[e] = {seq[e] + 1} /\ seq[e] + 1 \notin 1 .. seq[e] BY <2>3, <3>1
    <3>5. QED BY <2>1, <3>2, <3>3, <3>4
  <2>6. QED BY <2>1, <2>2, <2>4, <2>5
<1>2. ASSUME NEW e \in Edges, NEW m \in sending[e], Published(e, m) PROVE StreamInv'
  <2>1. /\ seq' = seq /\ slow' = slow
        /\ sending' = [sending EXCEPT ![e] = @ \ {m}]
        /\ audited' = IF Sampled(e) THEN [audited EXCEPT ![e] = @ \cup {m}] ELSE audited
    BY <1>2 DEF Published
  <2>2. ASSUME NEW d \in Edges, d # e
        PROVE sending'[d] = sending[d] /\ audited'[d] = audited[d]
    BY <2>1, <2>2 DEF RecordsTypeOK
  <2>3. /\ sending'[e] = sending[e] \ {m}
        /\ audited'[e] = IF Sampled(e) THEN audited[e] \cup {m} ELSE audited[e]
    BY <2>1 DEF RecordsTypeOK
  <2>4. m \in 1 .. seq[e] OBVIOUS
  <2>5. ASSUME e \notin slow
        PROVE  audited'[e] = {n \in 1 .. seq[e] : n % EveryN = 0} \ sending'[e]
    <3>1. sending[e] = {m} /\ m = seq[e] BY <2>5
    <3>2. QED BY <2>3, <2>4, <2>5, <3>1 DEF Sampled
  <2>6. QED BY <2>1, <2>2, <2>3, <2>4, <2>5
<1>3. CASE UNCHANGED <<seq, sending, audited, slow>> BY <1>3
<1>4. QED
  BY <1>1, <1>2, <1>3
  DEF RecordsNext, recordVars, stream, AppendLine, Crash, Signal, ShutdownStep, Announced, PostEnds,
      ExitProcess, PostLost, HandlerStep, ReceiveManifest, FindSystemUser, CreateSystemUser,
      CreateAsset, HandlerFails, Handles, Answers, Moves

-----------------------------------------------------------------------------
\* Every variable of edges, requests and tables keeps its type (metadata-writer.ts,
\* telemetry-publisher.ts, internal/dataset-asset).
THEOREM RecordTypes == RecordsSpec => []RecordsTypeOK
<1>1. RecordsInv => RecordsTypeOK BY DEF RecordsInv
<1>2. QED BY <1>1, InitRecords, StepRecords, PTL DEF RecordsSpec

\* However many edges register at once, whatever the backend and the network do, and however
\* often an edge is signalled: the backend's manifests are one for a session and right, and
\* an edge that exits has one, but for the exceptions ManifestKept names
\* (metadata-writer.ts:98-143, index.ts:421-447, dataset-asset/route.ts:46-127).
THEOREM ManifestIsKept == RecordsSpec => []ManifestKept
<1>1. QED BY InitRecords, StepRecords, KeptFollows, PTL DEF RecordsSpec

\* For any rate of sampling, the backend is sent every EveryN-th message as long as no
\* publication outlasts a tick (telemetry-publisher.ts:66-84).
THEOREM AuditIsSampled == RecordsSpec => []AuditSampled
<1>1. RecordsInit => StreamInv
  BY RecordsAssumption DEF RecordsInit, StreamInv, OnlyLastWaits, AuditSampled
<1>2. RecordsSpec => []RecordsTypeOK BY RecordTypes
<1>3. StreamInv => AuditSampled BY DEF StreamInv
<1>4. QED BY <1>1, <1>2, <1>3, StepStream, PTL DEF RecordsSpec
=============================================================================
