------------------------ MODULE StorageEngineProofs ------------------------
(***************************************************************************)
(* Proofs about StorageEngine, for any number of threads, ids, documents,  *)
(* indexes and compactions.                                                *)
(***************************************************************************)
EXTENDS StorageEngine, StorageLemmas

\* What a call is, and where it can be.
FrameInv ==
  \A t \in Threads :
    /\ pc[t] = "idle" => frame[t] = NoFrame
    /\ pc[t] # "idle" =>
         /\ up = TRUE
         /\ frame[t].op \in Ops
         /\ frame[t].op \in {"insert", "update", "delete", "get", "compact"}
         /\ frame[t].op # "compact" => frame[t].id \in Ids
         /\ frame[t].op \in {"insert", "update"} => frame[t].doc \in Docs
         /\ frame[t].op = "delete" => frame[t].doc = NoDoc
    /\ pc[t] = "read" => frame[t].op \in {"update", "delete", "get"}
    /\ pc[t] \in {"append", "index"} => frame[t].op \in Writes
    /\ pc[t] \in {"scan", "replace", "rebuild"} => frame[t].op = "compact"
    /\ pc[t] = "save" => /\ frame[t].op \in Writes \cup {"compact"}
                         /\ frame[t].saved < NIdx
    /\ pc[t] = "release" => frame[t].op \in Writes \cup {"get", "compact"}
    /\ pc[t] \notin {"save", "release"} => frame[t].saved = 0

\* The lists of compact() have no tombstone.
LiveInv ==
  \A t \in Threads : \A i \in DOMAIN frame[t].live : frame[t].live[i].doc # NoDoc

\* What needs no assumption on the clients.
Inv1 == TypeOK /\ FrameInv /\ LiveInv


-----------------------------------------------------------------------------
(* Types *)

\* The frame of a call that starts.
LEMMA FrameType ==
  ASSUME NEW c \in Calls, NEW i \in Nat
  PROVE  Frame(c, i) \in Frames
  BY DEF Frame, Frames, Calls, Values

\* The frame of a thread that is in no call.
LEMMA NoFrameType == NoFrame \in Frames
  BY DEF NoFrame, Frame, Frames, Values

\* Every thread's pc and frame keep their types, whatever the call does.
LEMMA EndType ==
  ASSUME TypeOK, NEW t \in Threads, NEW from, End(t, from)
  PROVE  pc' \in [Threads -> Pcs] /\ frame' \in [Threads -> Frames]
  BY NoFrameType DEF TypeOK, End, Step, Pcs

\* Going to another place of the call.
LEMMA StepType ==
  ASSUME TypeOK, NEW t \in Threads, NEW from, NEW to \in Pcs, Step(t, from, to)
  PROVE  pc' \in [Threads -> Pcs]
  BY DEF TypeOK, Step

\* The local variables of a call, assigned one at a time.
LEMMA EditFrame ==
  ASSUME TypeOK, NEW t \in Threads
  PROVE  /\ frame[t] \in Frames
         /\ \A v \in Values : [frame EXCEPT ![t].old = v] \in [Threads -> Frames]
         /\ \A v \in Seq(Line) : [frame EXCEPT ![t].live = v] \in [Threads -> Frames]
         /\ \A v \in Nat : [frame EXCEPT ![t].saved = v] \in [Threads -> Frames]
<1>1. frame \in [Threads -> Frames] /\ frame[t] \in Frames
  BY DEF TypeOK
<1>2. ASSUME NEW v \in Values PROVE [frame[t] EXCEPT !.old = v] \in Frames
  BY <1>1 DEF Frames
<1>3. ASSUME NEW v \in Seq(Line) PROVE [frame[t] EXCEPT !.live = v] \in Frames
  BY <1>1 DEF Frames
<1>4. ASSUME NEW v \in Nat PROVE [frame[t] EXCEPT !.saved = v] \in Frames
  BY <1>1 DEF Frames
<1>5. ASSUME NEW f \in Frames PROVE [frame EXCEPT ![t] = f] \in [Threads -> Frames]
  BY <1>1
<1> QED BY <1>1, <1>2, <1>3, <1>4, <1>5

-----------------------------------------------------------------------------
(* The invariant that gives the types *)

\* A new database: no file lines, no postings, no calls.
LEMMA Inv1Init == Init => Inv1
<1> SUFFICES ASSUME Init PROVE Inv1
  OBVIOUS
<1>1. NoPostings \in [Specs -> Postings]
  BY DEF NoPostings, Postings
<1>2. frame \in [Threads -> Frames] /\ pc \in [Threads -> Pcs]
  BY NoFrameType DEF Init, Pcs
<1>3. log \in Seq(Line)
  BY DEF Init
<1>4. TypeOK
  BY <1>1, <1>2, <1>3 DEF TypeOK, Init
<1>5. FrameInv
  BY DEF FrameInv, Init, NoFrame, Frame
<1>6. LiveInv
  BY DEF LiveInv, Init, NoFrame, Frame
<1> QED BY <1>4, <1>5, <1>6 DEF Inv1

\* Every step keeps the variables in their types.
LEMMA TypeStep ==
  ASSUME Inv1, [Next]_vars
  PROVE  TypeOK'
<1> USE DEF Inv1
<1>1. ASSUME NEW t \in Threads, Start(t) PROVE TypeOK'
  <2>1. PICK c \in Calls : frame' = [frame EXCEPT ![t] = Frame(c, inode)]
    BY <1>1 DEF Start
  <2>2. Frame(c, inode) \in Frames
    BY FrameType DEF TypeOK
  <2>3. frame' \in [Threads -> Frames]
    BY <2>1, <2>2 DEF TypeOK
  <2>4. pc' \in [Threads -> Pcs]
    BY <1>1, StepType DEF Start, Pcs
  <2> QED BY <1>1, <2>3, <2>4 DEF TypeOK, Start, disk, memory
<1>2. ASSUME NEW t \in Threads, Grant(t) PROVE TypeOK'
  <2>1. FirstStep(frame[t].op) \in Pcs
    BY DEF FirstStep, Pcs
  <2>2. pc' \in [Threads -> Pcs]
    BY <1>2, <2>1, StepType DEF Grant
  <2> QED BY <1>2, <2>2 DEF TypeOK, Grant, disk, memory
<1>3. ASSUME NEW t \in Threads, NEW from, End(t, from), UNCHANGED <<disk, memory>>
      PROVE  TypeOK'
  BY <1>3, EndType DEF TypeOK, disk, memory
<1>4. ASSUME NEW t \in Threads, Read(t) PROVE TypeOK'
  <2>1. Get(log, frame[t].id) \in Values
    BY GetType DEF TypeOK
  <2>2. frame' \in [Threads -> Frames]
    BY <1>4, <2>1, EditFrame DEF Read
  <2>3. pc' \in [Threads -> Pcs]
    BY <1>4, StepType DEF Read, Pcs
  <2> QED BY <1>4, <2>2, <2>3 DEF TypeOK, Read, disk, memory
<1>5. ASSUME NEW t \in Threads, AppendLine(t) \/ AppendFailsLate(t) PROVE TypeOK'
  <2> DEFINE f == frame[t]
  <2>1. f \in Frames /\ f.op \in Writes /\ f.id \in Ids
    BY <1>5, EditFrame DEF AppendLine, AppendFailsLate, Step, FrameInv, Writes
  <2>2. f.doc \in Values
    BY <2>1 DEF Frames
  <2>3. DocLine(f.id, f.doc) \in Line
    BY <2>1, <2>2 DEF DocLine, Line
  <2>7. log' = Append(log, DocLine(f.id, f.doc))
    BY <1>5 DEF AppendLine, AppendFailsLate
  <2>4. log' \in Seq(Line)
    BY <2>3, <2>7 DEF TypeOK
  <2>5. memStale' \in SUBSET Ids /\ diskStale' \in SUBSET Ids
    BY <1>5, <2>1 DEF AppendLine, AppendFailsLate, TypeOK
  <2>6. pc' \in [Threads -> Pcs]
    BY <1>5, StepType DEF AppendLine, AppendFailsLate, Pcs
  <2> QED BY <1>5, <2>4, <2>5, <2>6 DEF TypeOK, AppendLine, AppendFailsLate
<1>6. ASSUME NEW t \in Threads, UpdateIndex(t) PROVE TypeOK'
  <2>1. mem' \in [Specs -> Postings]
    <3> DEFINE f == frame[t]
    <3>1. f.id \in Ids /\ f.op \in {"insert", "update", "delete"}
      BY <1>6 DEF UpdateIndex, Step, FrameInv, Writes
    <3>2. f.op \in {"insert", "update"} => f.doc \in Docs
      BY <1>6, <3>1 DEF UpdateIndex, Step, FrameInv
    <3>3. f.old \in Values
      BY EditFrame DEF Frames
    <3>4. ASSUME NEW ix \in [Specs -> Postings], f.old # NoDoc
          PROVE RemoveFromIndexes(ix, f.id, f.old) \in [Specs -> Postings]
      BY <3>1, <3>3, <3>4, IndexTypes DEF Values
    <3>5. CASE f.op = "insert"
      BY <1>6, <3>1, <3>2, <3>5, IndexTypes DEF UpdateIndex, OnInsert, TypeOK, Values
    <3>6. CASE f.op = "update"
      BY <1>6, <3>1, <3>2, <3>4, <3>6, IndexTypes DEF UpdateIndex, OnUpdate, TypeOK, Values
    <3>7. CASE f.op = "delete"
      BY <1>6, <3>1, <3>4, <3>7 DEF UpdateIndex, OnDelete, TypeOK
    <3> QED BY <3>1, <3>5, <3>6, <3>7
  <2>2. pc' \in [Threads -> Pcs]
    BY <1>6, StepType DEF UpdateIndex, Pcs
  <2> QED BY <1>6, <2>1, <2>2 DEF TypeOK, UpdateIndex, disk
<1>7. ASSUME NEW t \in Threads, SaveIndex(t) PROVE TypeOK'
  <2> DEFINE k == frame[t].saved + 1
  <2>1. k \in Specs /\ k \in Nat
    BY <1>7, EditFrame, NIdxAssumption DEF SaveIndex, Step, FrameInv, Specs, Frames
  <2>2. idx' \in [Specs -> Postings \cup {Missing, Corrupt}]
    BY <1>7, <2>1 DEF SaveIndex, TypeOK
  <2>3. frame' \in [Threads -> Frames]
    BY <1>7, <2>1, EditFrame DEF SaveIndex
  <2>4. pc' \in [Threads -> Pcs]
    BY <1>7, StepType DEF SaveIndex, Pcs
  <2> HIDE DEF k
  <2> QED BY <1>7, <2>2, <2>3, <2>4 DEF TypeOK, SaveIndex, memory
<1>8. ASSUME NEW t \in Threads, CompactScan(t) PROVE TypeOK'
  <2>1. PICK s \in Scans(log) : frame' = [frame EXCEPT ![t].live = s]
    BY <1>8 DEF CompactScan
  <2>2. s \in Seq(Line)
    BY DEF Scans, IsScan
  <2>3. frame' \in [Threads -> Frames]
    BY <2>1, <2>2, EditFrame
  <2>4. pc' \in [Threads -> Pcs]
    BY <1>8, StepType DEF CompactScan, Pcs
  <2> QED BY <1>8, <2>3, <2>4 DEF TypeOK, CompactScan, disk, memory
<1>9. ASSUME NEW t \in Threads, CompactReplace(t) PROVE TypeOK'
  <2>1. log' \in Seq(Line)
    BY <1>9, EditFrame DEF CompactReplace, Frames
  <2>2. pc' \in [Threads -> Pcs]
    BY <1>9, StepType DEF CompactReplace, Pcs
  <2> QED BY <1>9, <2>1, <2>2 DEF TypeOK, CompactReplace, memory
<1>10. ASSUME NEW t \in Threads, RebuildIndex(t) PROVE TypeOK'
  <2>1. frame[t].live \in Seq(Line)
    BY EditFrame DEF Frames
  <2>2. mem' \in [Specs -> Postings]
    BY <1>10, <2>1, RebuildType DEF RebuildIndex, LiveInv
  <2>3. pc' \in [Threads -> Pcs]
    BY <1>10, StepType DEF RebuildIndex, Pcs
  <2> QED BY <1>10, <2>2, <2>3 DEF TypeOK, RebuildIndex, disk
<1>11. CASE Crash
  <2>1. mem' \in [Specs -> Postings]
    BY <1>11 DEF Crash, NoPostings, Postings
  <2>2. pc' \in [Threads -> Pcs] /\ frame' \in [Threads -> Frames]
    BY <1>11, NoFrameType DEF Crash, Pcs
  <2> QED BY <1>11, <2>1, <2>2 DEF TypeOK, Crash, disk
<1>12. CASE DamageIndex
  <2>1. PICK k \in Specs, d \in Damage : idx' = [idx EXCEPT ![k] = d]
    BY <1>12 DEF DamageIndex
  <2>2. idx' \in [Specs -> Postings \cup {Missing, Corrupt}]
    BY <2>1, DamageAssumption DEF TypeOK
  <2> QED BY <1>12, <2>2 DEF TypeOK, DamageIndex, memory
<1>13. CASE Open
  <2>1. mem' \in [Specs -> Postings]
    BY <1>13 DEF TypeOK, Open, Loaded, Postings
  <2>2. memStale' \in SUBSET Ids /\ diskStale' \in SUBSET Ids
    BY <1>13 DEF TypeOK, Open
  <2> QED BY <1>13, <2>1, <2>2 DEF TypeOK, Open
<1>14. CASE OpenRebuild
  <2>1. PICK s \in Scans(log), n \in 0 .. NIdx :
          /\ idx' = [k \in Specs |-> IF k <= n THEN Rebuild(s)[k] ELSE idx[k]]
          /\ up' = (n = NIdx)
          /\ mem' = IF n = NIdx THEN Rebuild(s) ELSE NoPostings
          /\ diskStale' = IF n = NIdx THEN {} ELSE diskStale
    BY <1>14 DEF OpenRebuild
  <2>2. Rebuild(s) \in [Specs -> Postings]
    BY RebuildType DEF Scans, IsScan
  <2>3. idx' \in [Specs -> Postings \cup {Missing, Corrupt}]
    BY <2>1, <2>2 DEF TypeOK
  <2>4. mem' \in [Specs -> Postings]
    BY <2>1, <2>2 DEF NoPostings, Postings
  <2>5. up' \in BOOLEAN
    BY <2>1
  <2>6. diskStale' \in SUBSET Ids
    BY <2>1 DEF TypeOK
  <2> QED BY <1>14, <2>3, <2>4, <2>5, <2>6 DEF TypeOK, OpenRebuild
<1>15. CASE UNCHANGED vars
  BY <1>15 DEF TypeOK, vars
<1> QED
  BY <1>1, <1>2, <1>3, <1>4, <1>5, <1>6, <1>7, <1>8, <1>9, <1>10, <1>11, <1>12,
     <1>13, <1>14, <1>15
  DEF Next, ThreadNext, Timeout, AppendFails, AppendFailsLate, SaveFails, Release, CompactFails

\* A call goes through the places of its own operation only.
LEMMA FrameStep ==
  ASSUME Inv1, [Next]_vars
  PROVE  FrameInv'
<1> USE DEF Inv1
<1>0. /\ pc \in [Threads -> Pcs] /\ frame \in [Threads -> Frames]
      /\ \A t \in Threads : frame[t].saved \in Nat /\ frame[t] \in Frames
  BY EditFrame DEF TypeOK, Frames
<1>1. ASSUME NEW t \in Threads, Start(t) PROVE FrameInv'
  <2>1. PICK c \in Calls : c.op \in Ops /\ frame' = [frame EXCEPT ![t] = Frame(c, inode)]
    BY <1>1 DEF Start
  <2>2. /\ c.op \in {"insert", "update", "delete", "get", "compact"}
        /\ c.op # "compact" => c.id \in Ids
        /\ c.op \in {"insert", "update"} => c.doc \in Docs
        /\ c.op = "delete" => c.doc = NoDoc
    BY DEF Calls
  <2>3. /\ frame'[t].op = c.op /\ frame'[t].id = c.id /\ frame'[t].doc = c.doc
        /\ frame'[t].saved = 0
    BY <2>1, <1>0 DEF Frame
  <2>4. /\ pc'[t] = "waiting" /\ up' = TRUE
        /\ \A u \in Threads \ {t} : pc'[u] = pc[u] /\ frame'[u] = frame[u]
    BY <1>0, <1>1, <2>1 DEF Start, Step, memory
  <2> QED BY <2>1, <2>2, <2>3, <2>4, <1>0 DEF FrameInv
<1>2. ASSUME NEW t \in Threads, Grant(t) PROVE FrameInv'
  <2>1. /\ pc'[t] = FirstStep(frame[t].op) /\ pc[t] = "waiting"
        /\ up' = up /\ frame' = frame
        /\ \A u \in Threads \ {t} : pc'[u] = pc[u]
    BY <1>0, <1>2 DEF Grant, Step, memory
  <2>2. \/ pc'[t] = "append" /\ frame[t].op = "insert"
        \/ pc'[t] = "scan" /\ frame[t].op = "compact"
        \/ pc'[t] = "read" /\ frame[t].op \in {"update", "delete", "get"}
    BY <2>1 DEF FirstStep, FrameInv
  <2> QED BY <2>1, <2>2 DEF FrameInv, Writes
<1>3. ASSUME NEW t \in Threads, NEW from, End(t, from), UNCHANGED <<disk, memory>>
      PROVE  FrameInv'
  <2>1. /\ pc'[t] = "idle" /\ frame'[t] = NoFrame /\ up' = up
        /\ \A u \in Threads \ {t} : pc'[u] = pc[u] /\ frame'[u] = frame[u]
    BY <1>0, <1>3 DEF End, Step, memory
  <2> QED BY <2>1 DEF FrameInv, NoFrame, Frame
<1>4. ASSUME NEW t \in Threads, Read(t) PROVE FrameInv'
  <2>1. /\ pc[t] = "read" /\ up' = up
        /\ pc'[t] = IF frame[t].op = "get" THEN "release" ELSE "append"
        /\ \A u \in Threads \ {t} : pc'[u] = pc[u] /\ frame'[u] = frame[u]
    BY <1>0, <1>4 DEF Read, Step, memory
  <2>2. /\ frame'[t].op = frame[t].op /\ frame'[t].id = frame[t].id
        /\ frame'[t].doc = frame[t].doc /\ frame'[t].saved = frame[t].saved
    BY <1>0, <1>4 DEF Read, Frames
  <2> QED BY <2>1, <2>2 DEF FrameInv, Writes
<1>5. ASSUME NEW t \in Threads, NEW from, NEW to, Step(t, from, to),
             <<from, to>> \in {<<"append", "index">>, <<"append", "release">>,
                               <<"index", "save">>,
                               <<"replace", "rebuild">>, <<"rebuild", "save">>},
             frame' = frame, up' = up
      PROVE FrameInv'
  <2>1. /\ pc[t] = from /\ pc'[t] = to
        /\ \A u \in Threads \ {t} : pc'[u] = pc[u]
    BY <1>0, <1>5 DEF Step
  <2> QED BY <1>5, <2>1, NIdxAssumption DEF FrameInv, Writes
<1>7. ASSUME NEW t \in Threads, SaveIndex(t) PROVE FrameInv'
  <2>1. /\ pc[t] = "save" /\ up' = up
        /\ pc'[t] = IF frame[t].saved + 1 = NIdx THEN "release" ELSE "save"
        /\ \A u \in Threads \ {t} : pc'[u] = pc[u] /\ frame'[u] = frame[u]
    BY <1>0, <1>7 DEF SaveIndex, Step, memory
  <2>2. /\ frame'[t].op = frame[t].op /\ frame'[t].id = frame[t].id
        /\ frame'[t].doc = frame[t].doc /\ frame'[t].saved = frame[t].saved + 1
    BY <1>0, <1>7 DEF SaveIndex, Frames
  <2>3. frame[t].saved < NIdx /\ frame[t].saved \in Nat
    BY <1>0, <2>1 DEF FrameInv
  <2> QED BY <2>1, <2>2, <2>3, NIdxAssumption DEF FrameInv, Writes
<1>8. ASSUME NEW t \in Threads, CompactScan(t) PROVE FrameInv'
  <2>1. PICK s \in Scans(log) : frame' = [frame EXCEPT ![t].live = s]
    BY <1>8 DEF CompactScan
  <2>2. /\ pc[t] = "scan" /\ up' = up /\ pc'[t] = "replace"
        /\ \A u \in Threads \ {t} : pc'[u] = pc[u] /\ frame'[u] = frame[u]
    BY <1>0, <1>8, <2>1 DEF CompactScan, Step, memory
  <2>3. /\ frame'[t].op = frame[t].op /\ frame'[t].id = frame[t].id
        /\ frame'[t].doc = frame[t].doc /\ frame'[t].saved = frame[t].saved
    BY <1>0, <2>1 DEF Frames
  <2> QED BY <2>2, <2>3 DEF FrameInv, Writes
<1>9. CASE Crash
  <2>1. \A t \in Threads : pc'[t] = "idle" /\ frame'[t] = NoFrame
    BY <1>9 DEF Crash
  <2> QED BY <2>1 DEF FrameInv, NoFrame, Frame
<1>10. CASE DamageIndex \/ Open \/ OpenRebuild
  <2>1. pc' = pc /\ frame' = frame /\ (up = TRUE => up' = TRUE)
    BY <1>10 DEF DamageIndex, Open, OpenRebuild, memory
  <2> QED BY <2>1 DEF FrameInv
<1>11. CASE UNCHANGED vars
  BY <1>11 DEF FrameInv, vars
<1>12. ASSUME NEW t \in Threads, AppendLine(t) \/ AppendFailsLate(t) \/ UpdateIndex(t)
                                 \/ CompactReplace(t) \/ RebuildIndex(t)
       PROVE FrameInv'
  BY <1>5, <1>12 DEF AppendLine, AppendFailsLate, UpdateIndex, CompactReplace, RebuildIndex, memory
<1> QED
  BY <1>1, <1>2, <1>3, <1>4, <1>7, <1>8, <1>9, <1>10, <1>11, <1>12
  DEF Next, ThreadNext, Timeout, AppendFails, AppendFailsLate, SaveFails, Release, CompactFails

\* A list of compact() is what scan() yields.
LEMMA LiveStep ==
  ASSUME Inv1, [Next]_vars
  PROVE  LiveInv'
<1> USE DEF Inv1
<1> DEFINE Live(s) == \A i \in DOMAIN s : s[i].doc # NoDoc
<1>0. /\ frame \in [Threads -> Frames] /\ log \in Seq(Line)
      /\ \A t \in Threads : frame[t] \in Frames
  BY DEF TypeOK
<1>1. Live(NoFrame.live)
  BY DEF NoFrame, Frame
<1>2. ASSUME NEW s \in Scans(log) PROVE Live(s)
  BY DEF Scans, IsScan
<1>3. ASSUME NEW t \in Threads, AppendLine(t) \/ AppendFailsLate(t) PROVE LiveInv'
  BY <1>3 DEF AppendLine, AppendFailsLate, LiveInv
<1>4. ASSUME NEW t \in Threads, CompactReplace(t) PROVE LiveInv'
  BY <1>4 DEF CompactReplace, LiveInv
<1>5. ASSUME log' = log, NEW t \in Threads, NEW f,
             frame' = [frame EXCEPT ![t] = f], Live(f.live)
      PROVE  LiveInv'
  BY <1>0, <1>5 DEF LiveInv
<1>6. ASSUME log' = log, frame' = frame PROVE LiveInv'
  BY <1>6 DEF LiveInv
<1>7. ASSUME NEW t \in Threads, Start(t) PROVE LiveInv'
  <2>1. PICK c \in Calls : frame' = [frame EXCEPT ![t] = Frame(c, inode)]
    BY <1>7 DEF Start
  <2>2. Live(Frame(c, inode).live)
    BY DEF Frame
  <2>3. log' = log
    BY <1>7 DEF Start, disk
  <2> QED BY <1>5, <2>1, <2>2, <2>3
<1>8. ASSUME NEW t \in Threads, NEW from, End(t, from), UNCHANGED <<disk, memory>>
      PROVE  LiveInv'
  BY <1>1, <1>5, <1>8 DEF End, disk
<1>9. ASSUME NEW t \in Threads, Read(t) \/ SaveIndex(t) PROVE LiveInv'
  <2>1. PICK f : frame' = [frame EXCEPT ![t] = f] /\ f.live = frame[t].live
    <3>1. CASE Read(t)
      <4>1. [frame[t] EXCEPT !.old = Get(log, frame[t].id)].live = frame[t].live
        BY <1>0 DEF Frames
      <4> QED BY <3>1, <4>1 DEF Read
    <3>2. CASE SaveIndex(t)
      <4>1. [frame[t] EXCEPT !.saved = frame[t].saved + 1].live = frame[t].live
        BY <1>0 DEF Frames
      <4> QED BY <3>2, <4>1 DEF SaveIndex
    <3> QED BY <1>9, <3>1, <3>2
  <2>2. Live(f.live)
    BY <2>1 DEF LiveInv
  <2>3. log' = log
    BY <1>9 DEF Read, SaveIndex, disk
  <2> QED BY <1>5, <2>1, <2>2, <2>3
<1>10. ASSUME NEW t \in Threads, CompactScan(t) PROVE LiveInv'
  <2>1. PICK s \in Scans(log) : frame' = [frame EXCEPT ![t].live = s]
    BY <1>10 DEF CompactScan
  <2>2. [frame[t] EXCEPT !.live = s].live = s
    BY <1>0 DEF Frames
  <2>3. log' = log
    BY <1>10 DEF CompactScan, disk
  <2> QED BY <1>2, <1>5, <2>1, <2>2, <2>3
<1>11. CASE Crash
  BY <1>1, <1>11 DEF Crash, LiveInv, disk
<1>12. CASE DamageIndex \/ Open \/ OpenRebuild \/ UNCHANGED vars
  BY <1>6, <1>12 DEF DamageIndex, Open, OpenRebuild, vars, disk
<1>13. ASSUME NEW t \in Threads, Grant(t) \/ UpdateIndex(t) \/ RebuildIndex(t)
       PROVE LiveInv'
  BY <1>6, <1>13 DEF Grant, UpdateIndex, RebuildIndex, disk
<1> QED
  BY <1>3, <1>4, <1>7, <1>8, <1>9, <1>10, <1>11, <1>12, <1>13
  DEF Next, ThreadNext, Timeout, AppendFails, AppendFailsLate, SaveFails, Release, CompactFails

\* Inv1 holds in every state, whatever the clients do.
LEMMA Invariance1 == Spec => []Inv1
<1>1. Inv1 /\ [Next]_vars => Inv1'
  BY TypeStep, FrameStep, LiveStep DEF Inv1
<1> QED BY <1>1, Inv1Init, PTL DEF Spec

\* The variables of the engine keep their types.
THEOREM TypeCorrect == Spec => []TypeOK
<1>1. Inv1 => TypeOK
  BY DEF Inv1
<1> QED BY <1>1, Invariance1, PTL

-----------------------------------------------------------------------------
(***************************************************************************)
(* What the lock gives.  It is on the inode, so it does not exclude once a *)
(* compaction has put another at the path (the run StorageEngineRace).     *)
(* From here on the callers are careful: CompactsAlone.                    *)
(***************************************************************************)

\* Every other call has opened the file at the path.
OneFile ==
  \A t \in Threads : pc[t] # "idle" /\ ~Replaced(t) => frame[t].fd = inode

\* Two threads are in their with blocks together only to read.
Exclusive ==
  \A t, u \in Threads :
    t # u /\ Holds(t) /\ Holds(u) => frame[t].op = "get" /\ frame[u].op = "get"

\* The list that compact() holds is still what a scan would give.
CompactInv ==
  \A t \in Threads :
    pc[t] \in {"replace", "rebuild"} => IsScan(frame[t].live, log)

\* What the lock gives to the calls.
Inv2 == OneFile /\ Exclusive /\ ReadIsFresh /\ CompactInv

\* Nobody is in a call in the beginning.
LEMMA Inv2Init == Init => Inv2
  BY DEF Inv2, Init, OneFile, Exclusive, ReadIsFresh, CompactInv, Holds, NoFrame, Frame

\* A step that grants no lock: a thread inside was inside, in the same call.
LEMMA NoNewHolder ==
  ASSUME Inv1, [Next]_vars, NEW t \in Threads, Holds(t)', ~ Grant(t)
  PROVE  Holds(t) /\ frame'[t].op = frame[t].op
<1>0. /\ frame \in [Threads -> Frames] /\ pc \in [Threads -> Pcs]
      /\ \A u \in Threads : frame[u] \in Frames
  BY DEF Inv1, TypeOK
<1>1. ASSUME NEW u \in Threads, Start(u) PROVE Holds(t) /\ frame'[t] = frame[t]
  BY <1>0, <1>1 DEF Start, Holds, Step
<1>2. ASSUME NEW u \in Threads, NEW from, End(u, from)
      PROVE Holds(t) /\ frame'[t] = frame[t]
  BY <1>0, <1>2 DEF End, Holds, Step
<1>3. ASSUME NEW u \in Threads, Grant(u) PROVE Holds(t) /\ frame'[t] = frame[t]
  BY <1>0, <1>3 DEF Grant, Holds, Step
<1>4. ASSUME NEW u \in Threads,
             \/ AppendLine(u) \/ AppendFailsLate(u) \/ UpdateIndex(u)
             \/ CompactReplace(u) \/ RebuildIndex(u)
      PROVE Holds(t) /\ frame'[t] = frame[t]
  BY <1>0, <1>4 DEF AppendLine, AppendFailsLate, UpdateIndex, CompactReplace, RebuildIndex, Holds, Step
<1>5. ASSUME NEW u \in Threads, Read(u) \/ SaveIndex(u) \/ CompactScan(u)
      PROVE Holds(t) /\ frame'[t].op = frame[t].op
  <2>1. Holds(t)
    BY <1>0, <1>5 DEF Read, SaveIndex, CompactScan, Holds, Step
  <2>2. frame'[t].op = frame[t].op
    BY <1>0, <1>5 DEF Read, SaveIndex, CompactScan, Frames
  <2> QED BY <2>1, <2>2
<1>6. CASE Crash
  BY <1>6 DEF Crash, Holds
<1>7. CASE DamageIndex \/ Open \/ OpenRebuild \/ UNCHANGED vars
  BY <1>7 DEF DamageIndex, Open, OpenRebuild, vars, Holds
<1> QED
  BY <1>1, <1>2, <1>3, <1>4, <1>5, <1>6, <1>7
  DEF Next, ThreadNext, Timeout, AppendFails, AppendFailsLate, SaveFails, Release, CompactFails

\* A thread that takes no step is left where it was, or crashes with the rest.
LEMMA Others ==
  ASSUME Inv1, [Next]_vars, NEW t \in Threads, ~ ThreadNext(t)
  PROVE  (pc'[t] = pc[t] /\ frame'[t] = frame[t]) \/ Crash
<1>0. frame \in [Threads -> Frames] /\ pc \in [Threads -> Pcs]
  BY DEF Inv1, TypeOK
<1>1. CASE Crash \/ DamageIndex \/ Open \/ OpenRebuild \/ UNCHANGED vars
  BY <1>1 DEF DamageIndex, Open, OpenRebuild, vars
<1>2. ASSUME NEW u \in Threads, u # t, ThreadNext(u)
      PROVE  pc'[t] = pc[t] /\ frame'[t] = frame[t]
  BY <1>0, <1>2
  DEF ThreadNext, Start, Grant, Timeout, Read, AppendLine, AppendFails, AppendFailsLate, UpdateIndex,
    SaveIndex, SaveFails, Release, CompactScan, CompactReplace, CompactFails,
    RebuildIndex, Step, End
<1> QED BY <1>1, <1>2 DEF Next

\* A call that goes on has the file it opened, and a compaction that replaces
\* it leaves no other call behind.
LEMMA OneFileStep ==
  ASSUME Inv1, OneFile, CompactsAlone', [Next]_vars
  PROVE  OneFile'
<1> SUFFICES ASSUME NEW t \in Threads, pc'[t] # "idle", ~Replaced(t)'
             PROVE  frame'[t].fd = inode'
  BY DEF OneFile
<1>0. /\ frame \in [Threads -> Frames] /\ pc \in [Threads -> Pcs]
      /\ \A u \in Threads : frame[u] \in Frames
  BY DEF Inv1, TypeOK
<1>1. CASE Start(t)
  <2>1. PICK c \in Calls : frame' = [frame EXCEPT ![t] = Frame(c, inode)]
    BY <1>1 DEF Start
  <2> QED BY <1>0, <1>1, <2>1 DEF Start, disk, Frame
<1>2. ASSUME NEW u \in Threads, CompactReplace(u) PROVE FALSE
  <2>1. Replaced(u)'
    BY <1>0, <1>2 DEF CompactReplace, Step, Replaced, Inv1, FrameInv
  <2>2. u # t
    BY <2>1
  <2> QED BY <2>1, <2>2 DEF CompactsAlone
<1>3. CASE Crash
  BY <1>3 DEF Crash
<1>4. CASE ~Start(t) /\ ~Crash
  <2>1. inode' = inode
    BY <1>2, <1>4 DEF Next, ThreadNext, Start, Grant, Timeout, Read, AppendLine, AppendFails, AppendFailsLate,
      UpdateIndex, SaveIndex, SaveFails, Release, CompactScan, CompactFails, RebuildIndex,
      DamageIndex, Open, OpenRebuild, vars, disk
  <2>2. pc[t] # "idle" /\ ~Replaced(t) /\ frame'[t].fd = frame[t].fd
    <3>1. CASE ~ThreadNext(t)
      BY <1>4, <3>1, Others DEF Replaced
    <3>2. CASE ThreadNext(t)
      <4>1. \A from : ~End(t, from)
        BY <1>0 DEF End, Step
      <4>2. /\ pc[t] # "idle" /\ frame'[t].fd = frame[t].fd /\ frame'[t].op = frame[t].op
        BY <1>0, <1>2, <1>4, <3>2, <4>1
        DEF ThreadNext, Grant, Timeout, Read, AppendLine, AppendFails, AppendFailsLate, UpdateIndex,
          SaveIndex, SaveFails, Release, CompactScan, CompactFails, RebuildIndex, Step, Frames
      <4>3. Replaced(t) => pc'[t] \in {"save", "release"}
        BY <1>0, <1>2, <1>4, <3>2, <4>1
        DEF ThreadNext, Grant, Timeout, Read, AppendLine, AppendFails, AppendFailsLate, UpdateIndex,
          SaveIndex, SaveFails, Release, CompactScan, CompactFails, RebuildIndex, Step, Replaced
      <4> QED BY <4>2, <4>3 DEF Replaced
    <3> QED BY <3>1, <3>2
  <2> QED BY <2>1, <2>2 DEF OneFile
<1> QED BY <1>1, <1>3, <1>4

\* A lock is granted only beside locks it does not conflict with.
LEMMA ExclusiveStep ==
  ASSUME Inv1, OneFile, Exclusive, CompactsAlone', [Next]_vars
  PROVE  Exclusive'
<1> SUFFICES ASSUME NEW t \in Threads, NEW u \in Threads, t # u, Holds(t)', Holds(u)'
             PROVE  frame'[t].op = "get" /\ frame'[u].op = "get"
  BY DEF Exclusive
<1>1. ASSUME NEW v \in Threads, NEW w \in Threads, v # w, Grant(v), Holds(w)'
      PROVE  frame'[v].op = "get" /\ frame'[w].op = "get"
  <2>1. Holds(w) /\ frame' = frame
    BY <1>1 DEF Grant, Step, Holds, Inv1, TypeOK
  <2>2. ~Replaced(w) /\ ~Replaced(v) /\ pc[v] # "idle" /\ pc[w] # "idle"
    <3>1. pc'[v] # "idle" /\ pc'[w] = pc[w] /\ pc[v] = "waiting"
      BY <1>1 DEF Grant, Step, FirstStep, Inv1, TypeOK
    <3>2. ~Replaced(w)'
      BY <1>1, <3>1 DEF CompactsAlone
    <3> QED BY <2>1, <3>1, <3>2 DEF Replaced, Holds
  <2>3. frame[w].fd = frame[v].fd
    BY <2>2 DEF OneFile
  <2> QED BY <1>1, <2>1, <2>3 DEF Grant, Grantable
<1>2. CASE Grant(t)
  BY <1>1, <1>2
<1>3. CASE Grant(u)
  BY <1>1, <1>3
<1>4. CASE ~ Grant(t) /\ ~ Grant(u)
  BY <1>4, NoNewHolder DEF Exclusive
<1> QED BY <1>2, <1>3, <1>4

\* The steps that change the file.
Writing(t) == AppendLine(t) \/ AppendFailsLate(t) \/ CompactReplace(t)

\* The file changes only under the hand of a thread that holds the lock to write.
LEMMA LogChanges ==
  ASSUME Inv1, [Next]_vars
  PROVE  \/ log' = log
         \/ \E u \in Threads : /\ Writing(u)
                               /\ Holds(u) /\ frame[u].op # "get"
<1>1. ASSUME NEW u \in Threads, Writing(u)
      PROVE  Holds(u) /\ frame[u].op # "get"
  BY <1>1 DEF Writing, AppendLine, AppendFailsLate, CompactReplace, Step, Holds, Inv1,
    FrameInv, Writes
<1>2. CASE \E u \in Threads : Writing(u)
  BY <1>1, <1>2
<1>3. CASE \A u \in Threads : ~ Writing(u)
  BY <1>3 DEF Writing, Next, ThreadNext, Start, Grant, Timeout, Read, AppendFails, UpdateIndex,
    SaveIndex, SaveFails, Release, CompactScan, CompactFails, RebuildIndex, Crash, DamageIndex,
    Open, OpenRebuild, vars, disk
<1> QED BY <1>2, <1>3

\* So it does not change under the feet of another thread that is inside.
LEMMA LogKept ==
  ASSUME Inv1, Exclusive, [Next]_vars, NEW t \in Threads, Holds(t), ~ Writing(t)
  PROVE  log' = log
  BY LogChanges DEF Exclusive

\* Nobody writes between the read of a call and the use of what it read.
LEMMA ReadIsFreshStep ==
  ASSUME Inv1, Exclusive, ReadIsFresh, [Next]_vars
  PROVE  ReadIsFresh'
<1> DEFINE Uses(op, at) == \/ op \in {"update", "delete"} /\ at = "append"
                           \/ op = "get" /\ at = "release"
<1> SUFFICES ASSUME NEW t \in Threads, Uses(frame[t].op, pc[t])'
             PROVE  frame'[t].old = Get(log', frame'[t].id)
  BY DEF ReadIsFresh
<1>0. /\ frame \in [Threads -> Frames] /\ pc \in [Threads -> Pcs]
      /\ \A u \in Threads : frame[u] \in Frames
  BY DEF Inv1, TypeOK
<1>1. CASE Read(t)
  <2>1. log' = log
    BY <1>1 DEF Read, disk
  <2>2. frame'[t].old = Get(log, frame[t].id) /\ frame'[t].id = frame[t].id
    BY <1>0, <1>1 DEF Read, Frames
  <2> QED BY <2>1, <2>2
<1>2. CASE ~ Read(t)
  <2>1. /\ Uses(frame[t].op, pc[t]) /\ ~ Writing(t)
        /\ frame'[t].old = frame[t].old /\ frame'[t].id = frame[t].id
    <3>1. CASE ~ ThreadNext(t)
      BY <3>1, Others DEF Crash, Writing, AppendLine, AppendFailsLate, CompactReplace, ThreadNext
    <3>2. CASE ThreadNext(t)
      <4>1. \A from, to : Step(t, from, to) => pc'[t] = to
        BY <1>0 DEF Step
      <4>2. Grant(t) => pc'[t] # "release" /\ (pc'[t] = "append" => frame'[t].op = "insert")
        BY <4>1 DEF Grant, FirstStep
      <4>3. SaveIndex(t) \/ AppendFailsLate(t) => frame'[t].op \in Writes \cup {"compact"}
        BY <1>0 DEF SaveIndex, AppendFailsLate, Step, Inv1, FrameInv, Frames
      <4> QED
        BY <1>2, <3>2, <4>1, <4>2, <4>3
        DEF ThreadNext, Start, Timeout, Read, AppendLine, AppendFails, AppendFailsLate, UpdateIndex,
          SaveIndex, SaveFails, Release, CompactScan, CompactReplace, CompactFails,
          RebuildIndex, End, Writes, Writing
    <3> QED BY <3>1, <3>2
  <2>2. log' = log
    BY <2>1, LogKept DEF Holds
  <2> QED BY <2>1, <2>2 DEF ReadIsFresh
<1> QED BY <1>1, <1>2

\* Nobody writes between the scan and the replace of a compaction.
LEMMA CompactInvStep ==
  ASSUME Inv1, Exclusive, CompactInv, [Next]_vars
  PROVE  CompactInv'
<1> SUFFICES ASSUME NEW t \in Threads, pc'[t] \in {"replace", "rebuild"}
             PROVE  IsScan(frame'[t].live, log')
  BY DEF CompactInv
<1>0. /\ frame \in [Threads -> Frames] /\ pc \in [Threads -> Pcs] /\ log \in Seq(Line)
      /\ \A u \in Threads : frame[u] \in Frames
  BY DEF Inv1, TypeOK
<1>1. CASE CompactScan(t)
  <2>1. PICK s \in Scans(log) : frame' = [frame EXCEPT ![t].live = s]
    BY <1>1 DEF CompactScan
  <2>2. IsScan(s, log)
    BY DEF Scans
  <2>3. frame'[t].live = s
    BY <1>0, <2>1 DEF Frames
  <2> QED BY <1>1, <2>2, <2>3 DEF CompactScan, disk
<1>2. CASE CompactReplace(t)
  <2>1. /\ log' = frame[t].live /\ frame' = frame
        /\ IsScan(frame[t].live, log)
    BY <1>2 DEF CompactReplace, Step, CompactInv
  <2> QED BY <1>0, <2>1, ScanOfScan
<1>3. CASE ~ CompactScan(t) /\ ~ CompactReplace(t)
  <2>1. pc[t] \in {"replace", "rebuild"} /\ ~ Writing(t) /\ frame'[t].live = frame[t].live
    <3>1. CASE ~ ThreadNext(t)
      BY <1>3, <3>1, Others DEF Crash, Writing, AppendLine, AppendFailsLate, ThreadNext
    <3>2. CASE ThreadNext(t)
      <4>1. \A from, to : Step(t, from, to) => pc'[t] = to
        BY <1>0 DEF Step
      <4>2. Grant(t) => pc'[t] \notin {"replace", "rebuild"}
        BY <4>1 DEF Grant, FirstStep
      <4> QED
        BY <1>3, <3>2, <4>1, <4>2
        DEF ThreadNext, Start, Timeout, Read, AppendLine, AppendFails, AppendFailsLate, UpdateIndex,
          SaveIndex, SaveFails, Release, CompactFails, RebuildIndex, End, Writing
    <3> QED BY <3>1, <3>2
  <2>2. log' = log
    BY <2>1, LogKept DEF Holds
  <2> QED BY <2>1, <2>2 DEF CompactInv
<1> QED BY <1>1, <1>2, <1>3

\* Every step keeps what the lock gives.
LEMMA Inv2Step ==
  ASSUME Inv1, Inv2, CompactsAlone', [Next]_vars
  PROVE  Inv2'
  BY OneFileStep, ExclusiveStep, ReadIsFreshStep, CompactInvStep DEF Inv2

\* The lock gives it in every state.
LEMMA Invariance2 == Spec /\ []CompactsAlone => [](Inv1 /\ Inv2)
<1>1. Inv1 /\ Inv2 /\ CompactsAlone' /\ [Next]_vars => Inv2'
  BY Inv2Step
<1> QED BY <1>1, Inv2Init, Invariance1, PTL DEF Spec

\* Without compactions, and with one thread, no caller has to see to anything.
THEOREM AloneAnyway ==
  ASSUME "compact" \in Ops => \A t, u \in Threads : t = u
  PROVE  Spec => []CompactsAlone
<1>1. Inv1 => CompactsAlone
  <2> SUFFICES ASSUME Inv1, NEW t \in Threads, NEW u \in Threads, t # u, Replaced(t)
               PROVE  FALSE
    BY DEF CompactsAlone
  <2>1. frame[t].op \in Ops
    BY DEF Replaced, Inv1, FrameInv
  <2> QED BY <2>1 DEF Replaced
<1> QED BY <1>1, Invariance1, PTL

\* A document read under the lock is the current one when it is used.
THEOREM ReadsStayFresh == Spec /\ []CompactsAlone => []ReadIsFresh
<1>1. Inv1 /\ Inv2 => ReadIsFresh
  BY DEF Inv2
<1> QED BY <1>1, Invariance2, PTL

-----------------------------------------------------------------------------
(***************************************************************************)
(* The indexes.  An .idx file that cannot be read is loaded as an empty     *)
(* index, and from then on no id is claimed, until a rebuild.              *)
(***************************************************************************)

\* IndexExact in the terms of StorageLemmas.
IndexInv ==
  up = TRUE =>
    \A id \in Ids \ memStale :
      (\A t \in Threads : pc[t] = "index" => frame[t].id # id) =>
        Indexed(mem, id, Get(log, id))

\* Between the append and the indexes: the file has the new document, the
\* indexes in memory have what the call is about to take out of them.
BetweenInv ==
  \A t \in Threads : pc[t] = "index" =>
    /\ Get(log, frame[t].id) = frame[t].doc
    /\ frame[t].id \in diskStale
    /\ frame[t].id \notin memStale =>
         Indexed(mem, frame[t].id,
                 IF frame[t].op = "insert" THEN NoDoc ELSE frame[t].old)

\* The files that a save() has written so far.
SavedInv ==
  \A t \in Threads : pc[t] = "save" =>
     \A k \in Specs : k <= frame[t].saved => idx[k] = mem[k]

\* What may be off in memory may be off on disk; a dead process has no memory.
StaleInv ==
  /\ memStale \subseteq diskStale
  /\ up = FALSE => memStale = {}

\* What the indexes owe to the file.
Inv3 ==
  /\ IndexInv /\ BetweenInv /\ SavedInv /\ StaleInv
  /\ DiskIndexExact

\* No documents and no postings.
LEMMA Inv3Init == Init => Inv3
<1> SUFFICES ASSUME Init PROVE Inv3
  OBVIOUS
<1>1. NoPostings \in [Specs -> Postings]
  BY DEF NoPostings, Postings
<1>2. \A id : Get(<<>>, id) = NoDoc
  BY GetNothing DEF Occurs
<1>3. \A id : Indexed(NoPostings, id, NoDoc)
  BY DEF Indexed, NoPostings, KeysFor, ProperKeys
<1>4. IndexInv
  BY <1>2, <1>3 DEF IndexInv, Init
<1>5. DiskIndexExact
  BY <1>2, <1>3 DEF DiskIndexExact, Indexed, Init
<1>6. BetweenInv /\ SavedInv /\ StaleInv
  BY DEF BetweenInv, SavedInv, StaleInv, Init
<1> QED BY <1>4, <1>5, <1>6 DEF Inv3

\* A thread inside with something to write is inside alone.
LEMMA Alone ==
  ASSUME Inv1, Exclusive, NEW t \in Threads, Holds(t), frame[t].op # "get"
  PROVE  \A u \in Threads \ {t} : ~ Holds(u)
  BY DEF Exclusive

\* The steps that the indexes and the file do not see.
Quiet ==
  /\ UNCHANGED <<log, idx, up, mem, memStale, diskStale>>
  /\ \A t \in Threads :
       /\ pc'[t] = "index" <=> pc[t] = "index"
       /\ pc'[t] = "save" => pc[t] = "save"
       /\ pc'[t] \in {"index", "save"} => frame'[t] = frame[t]

\* A step that touches neither file, nor index, nor a write under way.
LEMMA QuietKeeps == ASSUME Inv3, Quiet PROVE Inv3'
<1>1. IndexInv'
  BY DEF Inv3, Quiet, IndexInv, Indexed
<1>2. BetweenInv'
  BY DEF Inv3, Quiet, BetweenInv, Indexed
<1>3. SavedInv' /\ StaleInv'
  BY DEF Inv3, Quiet, SavedInv, StaleInv
<1>4. DiskIndexExact'
  BY DEF Inv3, Quiet, DiskIndexExact
<1> QED BY <1>1, <1>2, <1>3, <1>4 DEF Inv3

\* The steps that are quiet: locks, reads, errors before any effect, answers.
LEMMA QuietSteps ==
  ASSUME Inv1, NEW t \in Threads,
         \/ Start(t) \/ Grant(t) \/ Timeout(t) \/ Read(t) \/ AppendFails(t)
         \/ SaveFails(t) \/ Release(t) \/ CompactScan(t) \/ CompactFails(t)
  PROVE  Quiet
<1>0. frame \in [Threads -> Frames] /\ pc \in [Threads -> Pcs]
  BY DEF Inv1, TypeOK
<1>1. CASE Start(t) \/ Grant(t) \/ Read(t) \/ CompactScan(t)
  BY <1>0, <1>1 DEF Quiet, Start, Grant, Read, CompactScan, Step, FirstStep, disk, memory
<1>2. ASSUME NEW from \in {"waiting", "append", "save", "release", "replace"},
             End(t, from), UNCHANGED <<disk, memory>>
      PROVE  Quiet
  BY <1>0, <1>2 DEF Quiet, End, Step, disk, memory
<1> QED BY <1>1, <1>2 DEF Timeout, AppendFails, AppendFailsLate, SaveFails, Release, CompactFails

\* An append that raises leaves an id that nothing more is claimed of.
LEMMA AppendLateKeeps ==
  ASSUME Inv1, Inv2, Inv3, NEW t \in Threads, AppendFailsLate(t)
  PROVE  Inv3'
<1> DEFINE f == frame[t]
<1>1. /\ pc[t] = "append" /\ pc'[t] = "release" /\ frame' = frame /\ idx' = idx /\ mem' = mem
      /\ up = TRUE /\ up' = TRUE
      /\ f.op \in Writes /\ f.id \in Ids
      /\ log' = Append(log, DocLine(f.id, f.doc))
      /\ diskStale' = diskStale \cup {f.id}
      /\ memStale' = memStale \cup {f.id}
  BY DEF AppendFailsLate, Step, Inv1, TypeOK, FrameInv, Writes
<1>2. \A u \in Threads \ {t} : /\ pc[u] \notin {"append", "index", "save"}
                               /\ pc'[u] = pc[u]
  BY <1>1, Alone DEF Holds, Inv2, AppendFailsLate, Step, Inv1, TypeOK, Writes
<1>3. \A id : id # f.id => Get(log', id) = Get(log, id)
  <2> DEFINE e == DocLine(f.id, f.doc)
  <2>1. f.doc \in Values /\ log \in Seq(Line)
    BY DEF Inv1, TypeOK, Frames
  <2>2. e \in Line /\ e.id = f.id
    BY <1>1, <2>1 DEF DocLine, Line
  <2>3. \A id : Get(Append(log, e), id) = IF id = e.id THEN e.doc ELSE Get(log, id)
    BY <2>1, <2>2, GetAppend
  <2> QED BY <1>1, <2>2, <2>3
<1>4. \A u \in Threads : pc[u] \notin {"index", "save"} /\ pc'[u] \notin {"index", "save"}
  BY <1>1, <1>2
<1>5. IndexInv'
  <2> SUFFICES ASSUME NEW id \in Ids \ memStale', id # f.id
               PROVE  Indexed(mem', id, Get(log', id))
    BY <1>1 DEF IndexInv
  <2> QED BY <1>1, <1>3, <1>4 DEF Inv3, IndexInv
<1>6. BetweenInv' /\ SavedInv'
  BY <1>4 DEF BetweenInv, SavedInv
<1>7. StaleInv'
  BY <1>1 DEF Inv3, StaleInv
<1>8. DiskIndexExact'
  BY <1>1, <1>3 DEF Inv3, DiskIndexExact
<1> QED BY <1>5, <1>6, <1>7, <1>8 DEF Inv3

\* The append makes the document of one id newer than its postings.
LEMMA AppendKeeps ==
  ASSUME Inv1, Inv2, Inv3, NEW t \in Threads, AppendLine(t)
  PROVE  Inv3'
<1> DEFINE f == frame[t]
<1>1. /\ pc[t] = "append" /\ pc'[t] = "index" /\ frame' = frame /\ idx' = idx /\ mem' = mem
      /\ up = TRUE /\ up' = TRUE
      /\ f.op \in Writes /\ f.id \in Ids
      /\ f.op = "insert" \/ f.op \in {"update", "delete"}
      /\ log' = Append(log, DocLine(f.id, f.doc))
      /\ diskStale' = diskStale \cup {f.id}
      /\ memStale' = IF f.op = "insert" /\ Get(log, f.id) # NoDoc
                     THEN memStale \cup {f.id} ELSE memStale
  BY DEF AppendLine, Step, Inv1, TypeOK, FrameInv, Writes
<1>2. \A u \in Threads \ {t} : /\ pc[u] \notin {"append", "index", "save"}
                               /\ pc'[u] = pc[u]
  BY <1>1, Alone DEF Holds, Inv2, AppendLine, Step, Inv1, TypeOK, Writes
<1>3. \A id : Get(log', id) = IF id = f.id THEN f.doc ELSE Get(log, id)
  <2>1. f.doc \in Values
    BY DEF Inv1, TypeOK, Frames
  <2>2. DocLine(f.id, f.doc) \in Line
    BY <1>1, <2>1 DEF DocLine, Line
  <2>3. log \in Seq(Line)
    BY DEF Inv1, TypeOK
  <2> DEFINE e == DocLine(f.id, f.doc)
  <2>4. \A id : Get(Append(log, e), id) = IF id = e.id THEN e.doc ELSE Get(log, id)
    BY <2>2, <2>3, GetAppend
  <2>5. e.id = f.id /\ e.doc = f.doc
    BY DEF DocLine
  <2> QED BY <1>1, <2>4, <2>5
<1>4. \A u \in Threads : pc[u] # "index"
  BY <1>1, <1>2
<1>5. IndexInv'
  <2> SUFFICES ASSUME NEW id \in Ids \ memStale', id # f.id
               PROVE  Indexed(mem', id, Get(log', id))
    BY <1>1 DEF IndexInv
  <2>1. id \notin memStale
    BY <1>1
  <2> QED BY <1>1, <1>3, <1>4, <2>1 DEF Inv3, IndexInv
<1>6. BetweenInv'
  <2>1. ASSUME f.id \notin memStale'
        PROVE  Indexed(mem, f.id, IF f.op = "insert" THEN NoDoc ELSE f.old)
    <3>1. f.id \notin memStale /\ (f.op = "insert" => Get(log, f.id) = NoDoc)
      BY <1>1, <2>1
    <3>2. Indexed(mem, f.id, Get(log, f.id))
      BY <1>1, <1>4, <3>1 DEF Inv3, IndexInv
    <3>3. f.op # "insert" => f.old = Get(log, f.id)
      BY <1>1 DEF Inv2, ReadIsFresh
    <3> QED BY <3>1, <3>2, <3>3
  <2>2. Get(log', f.id) = f.doc /\ f.id \in diskStale'
    BY <1>1, <1>3
  <2> SUFFICES ASSUME NEW u \in Threads, pc'[u] = "index" PROVE u = t
    BY <1>1, <2>1, <2>2 DEF BetweenInv, Indexed
  <2> QED BY <1>2
<1>7. SavedInv' /\ StaleInv'
  BY <1>1, <1>2 DEF Inv3, SavedInv, StaleInv
<1>8. DiskIndexExact'
  BY <1>1, <1>3 DEF Inv3, DiskIndexExact
<1> QED BY <1>5, <1>6, <1>7, <1>8 DEF Inv3

\* The update in memory makes the postings of that id right again.
LEMMA UpdateKeeps ==
  ASSUME Inv1, Inv2, Inv3, NEW t \in Threads, UpdateIndex(t)
  PROVE  Inv3'
<1> DEFINE f == frame[t]
           prior == IF f.op = "insert" THEN NoDoc ELSE f.old
<1>1. /\ pc[t] = "index" /\ pc'[t] = "save" /\ frame' = frame
      /\ log' = log /\ idx' = idx /\ up' = up /\ up = TRUE
      /\ memStale' = memStale /\ diskStale' = diskStale
      /\ f.op \in Writes /\ f.id \in Ids /\ f.saved = 0 /\ f.op # "get"
      /\ f.op \in {"insert", "update"} => f.doc \in Docs
      /\ f.op = "delete" => f.doc = NoDoc
      /\ f.old \in Values
      /\ mem \in [Specs -> Postings]
  BY DEF UpdateIndex, Step, Inv1, TypeOK, FrameInv, Writes, disk, Frames
<1>2. \A u \in Threads \ {t} : /\ pc[u] \notin {"index", "save"}
                               /\ pc'[u] = pc[u]
  BY <1>1, Alone DEF Holds, Inv2, UpdateIndex, Step, Inv1, TypeOK
<1>3. /\ Indexed(mem, f.id, prior) => Indexed(mem', f.id, f.doc)
      /\ \A id : id # f.id => \A k \in Specs : KeysFor(mem'[k], id) = KeysFor(mem[k], id)
  <2>1. CASE f.op = "insert"
    <3>1. mem' = OnInsert(mem, f.id, f.doc)
      BY <2>1 DEF UpdateIndex
    <3> QED BY <1>1, <2>1, <3>1, Inserted
  <2>2. CASE f.op = "update"
    <3>1. mem' = OnUpdate(mem, f.id, f.old, f.doc)
      BY <2>2 DEF UpdateIndex
    <3>2. prior = f.old /\ f.doc \in Docs
      BY <1>1, <2>2
    <3> HIDE DEF prior
    <3>3. /\ Indexed(mem, f.id, f.old)
               => Indexed(OnUpdate(mem, f.id, f.old, f.doc), f.id, f.doc)
          /\ \A id : id # f.id => \A k \in Specs :
               KeysFor(OnUpdate(mem, f.id, f.old, f.doc)[k], id) = KeysFor(mem[k], id)
      <4> HIDE DEF f
      <4> QED BY <1>1, <3>2, Updated
    <3> QED BY <3>1, <3>2, <3>3
  <2>3. CASE f.op = "delete"
    <3>1. mem' = OnDelete(mem, f.id, f.old)
      BY <2>3 DEF UpdateIndex
    <3>2. prior = f.old /\ f.doc = NoDoc
      BY <1>1, <2>3
    <3> HIDE DEF prior
    <3> QED BY <1>1, <3>1, <3>2, Deleted
  <2> QED BY <1>1, <2>1, <2>2, <2>3 DEF Writes
<1>4. IndexInv'
  <2> SUFFICES ASSUME NEW id \in Ids \ memStale PROVE Indexed(mem', id, Get(log, id))
    BY <1>1 DEF IndexInv
  <2>1. CASE id = f.id
    BY <1>1, <1>3, <2>1 DEF Inv3, BetweenInv
  <2>2. CASE id # f.id
    <3>1. Indexed(mem, id, Get(log, id))
      BY <1>1, <1>2, <2>2 DEF Inv3, IndexInv
    <3> QED BY <1>3, <2>2, <3>1 DEF Indexed
  <2> QED BY <2>1, <2>2
<1>5. BetweenInv'
  BY <1>1, <1>2 DEF BetweenInv
<1>6. SavedInv'
  <2> SUFFICES ASSUME NEW u \in Threads, pc'[u] = "save", NEW k \in Specs, k <= frame[u].saved
               PROVE  FALSE
    BY <1>1 DEF SavedInv
  <2> QED BY <1>1, <1>2 DEF Specs
<1>7. StaleInv' /\ DiskIndexExact'
  BY <1>1 DEF Inv3, StaleInv, DiskIndexExact
<1> QED BY <1>4, <1>5, <1>6, <1>7 DEF Inv3

\* A saved .idx file has what is in memory.
LEMMA SaveKeeps ==
  ASSUME Inv1, Inv2, Inv3, NEW t \in Threads, SaveIndex(t)
  PROVE  Inv3'
<1> DEFINE k == frame[t].saved + 1
<1>1. /\ pc[t] = "save" /\ up = TRUE /\ up' = up
      /\ log' = log /\ mem' = mem /\ memStale' = memStale
      /\ frame[t].op # "get" /\ frame[t].saved \in Nat /\ frame[t].saved < NIdx
      /\ frame'[t].saved = k
      /\ pc'[t] = IF k = NIdx THEN "release" ELSE "save"
      /\ idx' = [idx EXCEPT ![k] = mem[k]]
      /\ diskStale' = IF k = NIdx THEN memStale ELSE diskStale
      /\ mem \in [Specs -> Postings]
      /\ idx \in [Specs -> Postings \cup {Missing, Corrupt}]
  BY DEF SaveIndex, Step, Inv1, TypeOK, FrameInv, Writes, memory, Frames
<1>2. k \in Specs /\ k \in Nat
  BY <1>1, NIdxAssumption DEF Specs
<1>3. \A u \in Threads \ {t} : pc[u] \notin {"index", "save"} /\ pc'[u] = pc[u]
  BY <1>1, Alone DEF Holds, Inv2, SaveIndex, Step, Inv1, TypeOK
<1>4. /\ idx'[k] = mem[k]
      /\ \A j \in Specs : j # k => idx'[j] = idx[j]
  BY <1>1, <1>2
<1>5. \A j \in Specs : j <= k => idx'[j] = mem[j]
  <2> SUFFICES ASSUME NEW j \in Specs, j <= k, j # k PROVE idx'[j] = mem[j]
    BY <1>4
  <2>1. j <= frame[t].saved
    BY <1>1 DEF Specs
  <2> QED BY <1>1, <1>4, <2>1 DEF Inv3, SavedInv
<1>6. \A id \in Ids \ memStale : Indexed(mem, id, Get(log, id))
  BY <1>1, <1>3 DEF Inv3, IndexInv
<1> HIDE DEF k
<1>7. IndexInv'
  BY <1>1, <1>6 DEF IndexInv, Indexed
<1>8. BetweenInv'
  BY <1>1, <1>3 DEF BetweenInv
<1>9. SavedInv'
  BY <1>1, <1>3, <1>5 DEF SavedInv
<1>10. StaleInv'
  BY <1>1 DEF Inv3, StaleInv
<1>11. DiskIndexExact'
  <2> SUFFICES ASSUME NEW id \in Ids \ diskStale', NEW j \in Specs,
                      idx'[j] \notin {Missing, Corrupt}
               PROVE  KeysFor(idx'[j], id) = ProperKeys(j, Get(log, id))
    BY <1>1 DEF DiskIndexExact
  <2>1. id \notin memStale
    BY <1>1 DEF Inv3, StaleInv
  <2>2. CASE k = NIdx
    <3>1. j <= k
      BY <2>2 DEF Specs
    <3> QED BY <1>5, <1>6, <2>1, <3>1 DEF Indexed
  <2>3. CASE k # NIdx /\ j = k
    BY <1>4, <1>6, <2>1, <2>3 DEF Indexed
  <2>4. CASE k # NIdx /\ j # k
    BY <1>1, <1>4, <2>4 DEF Inv3, DiskIndexExact
  <2> QED BY <2>2, <2>3, <2>4
<1> QED BY <1>7, <1>8, <1>9, <1>10, <1>11 DEF Inv3

\* A compaction does not change what get() returns.
LEMMA ReplaceKeeps ==
  ASSUME Inv1, Inv2, Inv3, NEW t \in Threads, CompactReplace(t)
  PROVE  Inv3'
<1>1. /\ pc[t] = "replace" /\ pc'[t] = "rebuild" /\ frame' = frame
      /\ log' = frame[t].live /\ idx' = idx /\ mem' = mem /\ up' = up
      /\ memStale' = memStale /\ diskStale' = diskStale /\ frame[t].op = "compact"
  BY DEF CompactReplace, Step, Inv1, TypeOK, FrameInv, memory
<1>2. \A u \in Threads : /\ pc[u] \notin {"index", "save"}
                         /\ pc'[u] \notin {"index", "save"}
  BY <1>1, Alone DEF Holds, Inv2, CompactReplace, Step, Inv1, TypeOK
<1>3. \A id \in Ids : Get(log', id) = Get(log, id)
  BY <1>1, GetScan DEF Inv2, CompactInv
<1>4. IndexInv'
  BY <1>1, <1>2, <1>3 DEF Inv3, IndexInv, Indexed
<1>5. BetweenInv' /\ SavedInv' /\ StaleInv'
  BY <1>1, <1>2 DEF Inv3, BetweenInv, SavedInv, StaleInv
<1>6. DiskIndexExact'
  BY <1>1, <1>3 DEF Inv3, DiskIndexExact
<1> QED BY <1>4, <1>5, <1>6 DEF Inv3

\* A rebuild makes the postings of every id right.
LEMMA RebuildKeeps ==
  ASSUME Inv1, Inv2, Inv3, NEW t \in Threads, RebuildIndex(t)
  PROVE  Inv3'
<1>1. /\ pc[t] = "rebuild" /\ pc'[t] = "save" /\ frame' = frame
      /\ log' = log /\ idx' = idx /\ mem' = Rebuild(frame[t].live) /\ up' = up
      /\ memStale' = {} /\ diskStale' = diskStale /\ frame[t].op = "compact"
      /\ frame[t].saved = 0 /\ IsScan(frame[t].live, log)
  BY DEF RebuildIndex, Step, Inv1, TypeOK, FrameInv, Inv2, CompactInv, disk
<1>2. \A u \in Threads : /\ pc'[u] # "index"
                         /\ u # t => pc'[u] # "save"
  BY <1>1, Alone DEF Holds, Inv2, RebuildIndex, Step, Inv1, TypeOK
<1>3. \A id \in Ids : Indexed(mem', id, Get(log, id))
  BY <1>1, KeysRebuilt DEF Indexed
<1>4. IndexInv'
  BY <1>1, <1>3 DEF IndexInv
<1>5. SavedInv'
  <2> SUFFICES ASSUME NEW u \in Threads, pc'[u] = "save", NEW k \in Specs, k <= frame[u].saved
               PROVE  FALSE
    BY <1>1 DEF SavedInv
  <2> QED BY <1>1, <1>2 DEF Specs
<1>6. BetweenInv' /\ StaleInv'
  BY <1>1, <1>2 DEF BetweenInv, StaleInv
<1>7. DiskIndexExact'
  BY <1>1 DEF Inv3, DiskIndexExact
<1> QED BY <1>4, <1>5, <1>6, <1>7 DEF Inv3

\* What is left of a crash are the files.
LEMMA CrashKeeps == ASSUME Inv3, Crash PROVE Inv3'
<1>1. /\ up' = FALSE /\ memStale' = {} /\ log' = log /\ idx' = idx
      /\ diskStale' = diskStale /\ \A t \in Threads : pc'[t] = "idle"
  BY DEF Crash, disk
<1> QED
  BY <1>1 DEF Inv3, IndexInv, BetweenInv, SavedInv, StaleInv, DiskIndexExact

\* While the process is down no thread is in a call.
LEMMA DownIdle ==
  ASSUME Inv1, ~ up
  PROVE  up = FALSE /\ \A t \in Threads : pc[t] = "idle"
  BY DEF Inv1, TypeOK, FrameInv

\* A file that is lost or unreadable claims nothing.
LEMMA DamageKeeps ==
  ASSUME Inv1, Inv3, DamageIndex
  PROVE  Inv3'
<1>1. PICK k \in Specs, d \in Damage : idx' = [idx EXCEPT ![k] = d]
  BY DEF DamageIndex
<1>2. d \in {Missing, Corrupt}
  BY DamageAssumption
<1>3. /\ up = FALSE /\ up' = up /\ memStale' = memStale /\ pc' = pc
      /\ log' = log /\ diskStale' = diskStale
      /\ \A t \in Threads : pc[t] = "idle"
  BY DownIdle DEF DamageIndex, memory
<1>4. \A j \in Specs : idx'[j] = IF j = k THEN d ELSE idx[j]
  BY <1>1 DEF Inv1, TypeOK
<1>5. DiskIndexExact'
  BY <1>2, <1>3, <1>4 DEF Inv3, DiskIndexExact
<1> QED BY <1>3, <1>5 DEF Inv3, IndexInv, BetweenInv, SavedInv, StaleInv

\* The indexes that are loaded are as right as their files.
LEMMA OpenKeeps ==
  ASSUME Inv1, Inv3, Open
  PROVE  Inv3'
<1>1. /\ \A k \in Specs : idx[k] # Missing
      /\ \A k \in Specs : mem'[k] = Loaded(idx[k])
      /\ up' = TRUE /\ log' = log /\ idx' = idx /\ pc' = pc
      /\ memStale' = IF \E k \in Specs : idx[k] = Corrupt THEN Ids ELSE diskStale
      /\ diskStale' = memStale'
      /\ \A t \in Threads : pc[t] = "idle"
  BY DownIdle DEF Open
<1>2. BetweenInv' /\ SavedInv' /\ StaleInv'
  BY <1>1 DEF BetweenInv, SavedInv, StaleInv
<1>3. CASE \E k \in Specs : idx[k] = Corrupt
  <2>1. memStale' = Ids /\ diskStale' = Ids
    BY <1>1, <1>3
  <2> QED BY <1>2, <2>1 DEF Inv3, IndexInv, DiskIndexExact
<1>4. CASE \A k \in Specs : idx[k] # Corrupt
  <2>1. /\ \A k \in Specs : mem'[k] = idx[k] /\ idx[k] \notin {Missing, Corrupt}
        /\ memStale' = diskStale /\ diskStale' = diskStale
    BY <1>1, <1>4 DEF Loaded
  <2>2. IndexInv' /\ DiskIndexExact'
    BY <1>1, <2>1 DEF Inv3, IndexInv, Indexed, DiskIndexExact
  <2> QED BY <1>2, <2>2 DEF Inv3
<1> QED BY <1>3, <1>4

\* Those that are rebuilt are right.
LEMMA OpenRebuildKeeps ==
  ASSUME Inv1, Inv3, OpenRebuild
  PROVE  Inv3'
<1>1. PICK s \in Scans(log), n \in 0 .. NIdx :
        /\ idx' = [k \in Specs |-> IF k <= n THEN Rebuild(s)[k] ELSE idx[k]]
        /\ up' = (n = NIdx)
        /\ mem' = IF n = NIdx THEN Rebuild(s) ELSE NoPostings
        /\ diskStale' = IF n = NIdx THEN {} ELSE diskStale
  BY DEF OpenRebuild
<1>2. /\ log' = log /\ pc' = pc /\ memStale' = memStale /\ memStale = {}
      /\ \A t \in Threads : pc[t] = "idle"
  BY DownIdle DEF OpenRebuild, Inv3, StaleInv
<1>3. \A id \in Ids : Indexed(Rebuild(s), id, Get(log, id))
  BY KeysRebuilt DEF Indexed, Scans
<1>4. Rebuild(s) \in [Specs -> Postings]
  BY RebuildType DEF Scans, IsScan
<1>5. IndexInv'
  <2>1. CASE n = NIdx
    BY <1>1, <1>2, <1>3, <2>1 DEF IndexInv
  <2>2. CASE n # NIdx
    <3>1. up' = FALSE
      BY <1>1, <2>2
    <3> QED BY <3>1 DEF IndexInv
  <2> QED BY <2>1, <2>2
<1>6. DiskIndexExact'
  <2> SUFFICES ASSUME NEW id \in Ids \ diskStale', NEW k \in Specs,
                      idx'[k] \notin {Missing, Corrupt}
               PROVE  KeysFor(idx'[k], id) = ProperKeys(k, Get(log, id))
    BY <1>2 DEF DiskIndexExact
  <2>1. CASE k <= n
    BY <1>1, <1>3, <2>1 DEF Indexed
  <2>2. CASE ~ (k <= n)
    <3>1. n # NIdx
      BY <2>2 DEF Specs
    <3>2. idx'[k] = idx[k] /\ diskStale' = diskStale
      BY <1>1, <2>2, <3>1
    <3> QED BY <3>2 DEF Inv3, DiskIndexExact
  <2> QED BY <2>1, <2>2
<1>7. BetweenInv' /\ SavedInv' /\ StaleInv'
  BY <1>2 DEF BetweenInv, SavedInv, StaleInv
<1> QED BY <1>5, <1>6, <1>7 DEF Inv3

\* Every step keeps the indexes as right as they were.
LEMMA Inv3Step ==
  ASSUME Inv1, Inv2, Inv3, [Next]_vars
  PROVE  Inv3'
<1>1. CASE UNCHANGED vars
  <2>1. Quiet
    BY <1>1 DEF Quiet, vars
  <2> QED BY <2>1, QuietKeeps
<1>2. ASSUME NEW t \in Threads, ThreadNext(t) PROVE Inv3'
  BY <1>2, QuietKeeps, QuietSteps, AppendKeeps, AppendLateKeeps, UpdateKeeps, SaveKeeps, ReplaceKeeps,
     RebuildKeeps
  DEF ThreadNext
<1> QED
  BY <1>1, <1>2, CrashKeeps, DamageKeeps, OpenKeeps, OpenRebuildKeeps DEF Next

\* All of the invariant holds in every state.
LEMMA Invariance3 ==
  Spec /\ []CompactsAlone => [](Inv1 /\ Inv2 /\ Inv3)
<1>1. Inv1 /\ Inv2 /\ Inv3 /\ [Next]_vars => Inv3'
  BY Inv3Step
<1> QED BY <1>1, Inv3Init, Invariance2, PTL DEF Spec

\* The indexes in memory hold each document under its keys and no other,
\* between two calls and for all but the ids in memStale.
THEOREM MemoryIndexExact == Spec /\ []CompactsAlone => []IndexExact
<1>1. Inv1 /\ Inv3 => IndexExact
  BY DEF Inv1, TypeOK, Inv3, IndexInv, Indexed, IndexExact
<1> QED BY <1>1, Invariance3, PTL

\* So do the .idx files, at every moment, for all but the ids in diskStale.
THEOREM FilesIndexExact == Spec /\ []CompactsAlone => []DiskIndexExact
<1>1. Inv3 => DiskIndexExact
  BY DEF Inv3
<1> QED BY <1>1, Invariance3, PTL

-----------------------------------------------------------------------------
(* Linearizability: every step of the engine is a step of DurableMap or none *)

\* The variable call of DurableMap.
pending == [t \in Threads |-> PendingWrite(t)]

\* A new collection is the empty map.
LEMMA MapInit == Init => Map!Init
<1> SUFFICES ASSUME Init PROVE Map!Init
  OBVIOUS
<1>1. \A id : Get(<<>>, id) = NoDoc
  BY GetNothing DEF Occurs
<1>2. Contents(log) = [id \in Ids |-> NoDoc]
  BY <1>1 DEF Init, Contents
<1>3. \A t \in Threads : PendingWrite(t) = Map!NoCall
  BY DEF Init, PendingWrite, NoFrame, Frame, Writes, Map!NoCall
<1> QED BY <1>2, <1>3 DEF Map!Init

\* One thread's call moves, the map does not.
LEMMA OneMoves ==
  ASSUME NEW t \in Threads, \A u \in Threads \ {t} : PendingWrite(u)' = PendingWrite(u)
  PROVE  pending' = [pending EXCEPT ![t] = PendingWrite(t)']
  BY DEF pending

\* The map is read off the file alone.
LEMMA SameContents ==
  ASSUME log' = log
  PROVE  Contents(log') = Contents(log)
  OBVIOUS

\* Threads other than the one that moves.
LEMMA OthersPending ==
  ASSUME Inv1, NEW t \in Threads, ThreadNext(t), NEW u \in Threads \ {t}
  PROVE  PendingWrite(u)' = PendingWrite(u)
<1>0. frame \in [Threads -> Frames] /\ pc \in [Threads -> Pcs]
  BY DEF Inv1, TypeOK
<1>1. pc'[u] = pc[u] /\ frame'[u] = frame[u]
  BY <1>0
  DEF ThreadNext, Start, Grant, Timeout, Read, AppendLine, AppendFails, AppendFailsLate, UpdateIndex,
    SaveIndex, SaveFails, Release, CompactScan, CompactReplace, CompactFails,
    RebuildIndex, Step, End
<1> QED BY <1>1 DEF PendingWrite

\* What the end of a call is to the map: a return, a refusal, or nothing.
LEMMA EndMaps ==
  ASSUME Inv1, NEW t \in Threads, NEW from, from # "idle", End(t, from), log' = log,
         \A u \in Threads \ {t} : PendingWrite(u)' = PendingWrite(u)
  PROVE  [Map!Next]_(Map!vars)
<1>0. frame \in [Threads -> Frames] /\ pc \in [Threads -> Pcs]
  BY DEF Inv1, TypeOK
<1>1. PendingWrite(t)' = Map!NoCall
  BY <1>0 DEF End, Step, PendingWrite, NoFrame, Frame, Writes, Map!NoCall
<1>2. pending' = [pending EXCEPT ![t] = Map!NoCall]
  BY <1>1, OneMoves
<1>3. Contents(log)' = Contents(log)
  BY SameContents
<1>5. CASE pending[t].done
  <2>1. Map!Return(t)
    BY <1>2, <1>3, <1>5 DEF Map!Return, pending
  <2> QED BY <2>1 DEF Map!Next
<1>6. CASE ~ pending[t].done
  <2>1. Map!Refuse(t)
    BY <1>2, <1>3, <1>6 DEF Map!Refuse, pending
  <2> QED BY <2>1 DEF Map!Next
<1> QED BY <1>5, <1>6

\* Every step of the engine is one of the map, or none.
LEMMA MapStep ==
  ASSUME Inv1, Inv2, [Next]_vars
  PROVE  [Map!Next]_(Map!vars)
<1>0. frame \in [Threads -> Frames] /\ pc \in [Threads -> Pcs] /\ log \in Seq(Line)
      /\ \A t \in Threads : frame[t] \in Frames
  BY DEF Inv1, TypeOK
<1>1. ASSUME NEW t \in Threads, Start(t) PROVE [Map!Next]_(Map!vars)
  <2>1. PICK c \in Calls : frame' = [frame EXCEPT ![t] = Frame(c, inode)]
    BY <1>1 DEF Start
  <2>2. /\ frame'[t].op = c.op /\ frame'[t].id = c.id /\ frame'[t].doc = c.doc
        /\ pc'[t] = "waiting" /\ log' = log /\ pc[t] = "idle"
    BY <1>0, <1>1, <2>1 DEF Frame, Start, Step, disk
  <2>3. /\ PendingWrite(t) = Map!NoCall
        /\ pending[t] = Map!NoCall
    BY <2>2 DEF Inv1, FrameInv, PendingWrite, NoFrame, Frame, Writes, Map!NoCall, pending
  <2>4. \A u \in Threads \ {t} : PendingWrite(u)' = PendingWrite(u)
    BY <1>1, OthersPending DEF ThreadNext
  <2>5. pending' = [pending EXCEPT ![t] = PendingWrite(t)']
    BY <2>4, OneMoves
  <2>6. CASE c.op \in Writes
    <3>1. PendingWrite(t)' = [id |-> c.id, doc |-> c.doc, done |-> FALSE]
      <4>1. (pc'[t] \in {"index", "save", "release"}) = FALSE
        BY <2>2
      <4> QED BY <2>2, <2>6, <4>1 DEF PendingWrite
    <3>2. c.id \in Ids /\ c.doc \in Docs \cup {NoDoc}
      BY <2>6 DEF Calls, Writes
    <3>4. pending'[t] # Map!NoCall
      BY <3>1 DEF pending, Map!NoCall
    <3>3. Map!Invoke(t)
      BY <3>4, <2>2, <2>3, <2>5, <3>1, <3>2 DEF Map!Invoke, pending
    <3> QED BY <3>3 DEF Map!Next
  <2>7. CASE c.op \notin Writes
    <3>1. PendingWrite(t)' = PendingWrite(t)
      BY <2>2, <2>3, <2>7 DEF PendingWrite, Map!NoCall
    <3>2. pending' = pending
      BY <2>4, <3>1 DEF pending
    <3> QED BY <2>2, <3>2 DEF Map!vars, pending
  <2> QED BY <2>6, <2>7
<1>2. ASSUME NEW t \in Threads, AppendLine(t) \/ AppendFailsLate(t)
      PROVE  [Map!Next]_(Map!vars)
  <2> DEFINE f == frame[t]
  <2>1. /\ pc[t] = "append" /\ pc'[t] \in {"index", "release"} /\ frame' = frame
        /\ f.op \in Writes /\ f.id \in Ids /\ f.doc \in Values
        /\ log' = Append(log, DocLine(f.id, f.doc))
    BY <1>0, <1>2 DEF AppendLine, AppendFailsLate, Step, Inv1, FrameInv, Writes, Frames
  <2>2. /\ PendingWrite(t) = [id |-> f.id, doc |-> f.doc, done |-> FALSE]
        /\ PendingWrite(t)' = [id |-> f.id, doc |-> f.doc, done |-> TRUE]
    <3>1. /\ (pc[t] \in {"index", "save", "release"}) = FALSE
          /\ (pc'[t] \in {"index", "save", "release"}) = TRUE
      BY <2>1
    <3> QED BY <2>1, <3>1 DEF PendingWrite
  <2>3. \A u \in Threads \ {t} : PendingWrite(u)' = PendingWrite(u)
    BY <1>2, OthersPending DEF ThreadNext
  <2>4. pending' = [pending EXCEPT ![t] = PendingWrite(t)']
    BY <2>3, OneMoves
  <2>5. pending[t] = [id |-> f.id, doc |-> f.doc, done |-> FALSE]
    BY <2>2 DEF pending
  <2>6. pending' = [pending EXCEPT ![t].done = TRUE]
    <3>1. \A a, b, c, d : [[id |-> a, doc |-> b, done |-> c] EXCEPT !.done = d]
                            = [id |-> a, doc |-> b, done |-> d]
      OBVIOUS
    <3>2. [pending[t] EXCEPT !.done = TRUE] = PendingWrite(t)'
      <4>1. [[id |-> f.id, doc |-> f.doc, done |-> FALSE] EXCEPT !.done = TRUE]
              = [id |-> f.id, doc |-> f.doc, done |-> TRUE]
        BY <3>1, Zenon
      <4>2. [pending[t] EXCEPT !.done = TRUE]
              = [[id |-> f.id, doc |-> f.doc, done |-> FALSE] EXCEPT !.done = TRUE]
        BY <2>5, Zenon
      <4> QED BY <2>2, <4>1, <4>2, Zenon
    <3> QED BY <2>4, <3>2
  <2>7. \A id : Get(log', id) = IF id = f.id THEN f.doc ELSE Get(log, id)
    <3> DEFINE e == DocLine(f.id, f.doc)
    <3>1. e \in Line /\ e.id = f.id /\ e.doc = f.doc
      BY <2>1 DEF DocLine, Line
    <3>2. \A id : Get(Append(log, e), id) = IF id = e.id THEN e.doc ELSE Get(log, id)
      BY <1>0, <3>1, GetAppend
    <3> QED BY <2>1, <3>1, <3>2
  <2>8. Contents(log)' = [Contents(log) EXCEPT ![f.id] = f.doc]
    BY <2>7 DEF Contents
  <2>9. Map!Apply(t)
    <3>1. ~ pending[t].done /\ pending[t].id = f.id /\ pending[t].doc = f.doc
      BY <2>5
    <3>2. Contents(log)' = [Contents(log) EXCEPT ![pending[t].id] = pending[t].doc]
      BY <2>8, <3>1
    <3> QED BY <2>6, <3>1, <3>2 DEF Map!Apply, pending
  <2> QED BY <2>9 DEF Map!Next
<1>3. ASSUME NEW t \in Threads, log' = log \/ CompactReplace(t), ThreadNext(t),
             PendingWrite(t)' = PendingWrite(t)
      PROVE  [Map!Next]_(Map!vars)
  <2>1. pending' = pending
    BY <1>3, OthersPending DEF pending
  <2>2. CASE log' = log
    BY <2>1, <2>2 DEF Map!vars, pending
  <2>3. CASE CompactReplace(t)
    <3>1. log' = frame[t].live /\ IsScan(frame[t].live, log)
      BY <2>3 DEF CompactReplace, Step, Inv2, CompactInv
    <3>2. \A id \in Ids : Get(log', id) = Get(log, id)
      BY <3>1, GetScan
    <3>3. Contents(log)' = Contents(log)
      BY <3>2 DEF Contents
    <3> QED BY <2>1, <3>3 DEF Map!vars, pending
  <2> QED BY <1>3, <2>2, <2>3
<1>4. ASSUME NEW t \in Threads,
             \/ Grant(t) \/ Read(t) \/ UpdateIndex(t) \/ SaveIndex(t) \/ CompactScan(t)
             \/ CompactReplace(t) \/ RebuildIndex(t)
      PROVE  [Map!Next]_(Map!vars)
  <2>1. log' = log \/ CompactReplace(t)
    BY <1>4 DEF Grant, Read, UpdateIndex, SaveIndex, CompactScan, RebuildIndex, disk
  <2>2. ThreadNext(t)
    BY <1>4 DEF ThreadNext
  <2>3. /\ frame'[t].op = frame[t].op /\ frame'[t].id = frame[t].id
        /\ frame'[t].doc = frame[t].doc
    BY <1>0, <1>4 DEF Grant, Read, UpdateIndex, SaveIndex, CompactScan, CompactReplace,
      RebuildIndex, Frames
  <2>4. \A from, to : Step(t, from, to) => pc[t] = from /\ pc'[t] = to
    BY <1>0 DEF Step
  <2>5. frame[t].op \in Writes =>
          (pc'[t] \in {"index", "save", "release"} <=> pc[t] \in {"index", "save", "release"})
    <3>1. CASE Grant(t)
      BY <2>4, <3>1 DEF Grant, FirstStep
    <3>2. CASE Read(t)
      BY <2>4, <3>2 DEF Read, Writes
    <3>3. CASE UpdateIndex(t) \/ SaveIndex(t)
      BY <2>4, <3>3 DEF UpdateIndex, SaveIndex
    <3>4. CASE CompactScan(t) \/ CompactReplace(t) \/ RebuildIndex(t)
      BY <2>4, <3>4 DEF CompactScan, CompactReplace, RebuildIndex, Inv1, FrameInv, Writes
    <3> QED BY <1>4, <3>1, <3>2, <3>3, <3>4
  <2>6. PendingWrite(t)' = PendingWrite(t)
    BY <2>3, <2>5 DEF PendingWrite
  <2> QED BY <1>3, <2>1, <2>2, <2>6
<1>5. ASSUME NEW t \in Threads,
             Timeout(t) \/ AppendFails(t) \/ SaveFails(t) \/ Release(t) \/ CompactFails(t)
      PROVE  [Map!Next]_(Map!vars)
  <2>1. \A u \in Threads \ {t} : PendingWrite(u)' = PendingWrite(u)
    BY <1>5, OthersPending DEF ThreadNext
  <2>2. log' = log
    BY <1>5 DEF Timeout, AppendFails, AppendFailsLate, SaveFails, Release, CompactFails, disk
  <2> QED
    BY <1>5, <2>1, <2>2, EndMaps
    DEF Timeout, AppendFails, AppendFailsLate, SaveFails, Release, CompactFails
<1>6. CASE Crash
  <2>1. \A t \in Threads : PendingWrite(t)' = Map!NoCall
    BY <1>6 DEF Crash, PendingWrite, NoFrame, Frame, Writes, Map!NoCall
  <2>2. pending' = [t \in Threads |-> Map!NoCall] /\ log' = log
    BY <1>6, <2>1 DEF pending, Crash, disk
  <2>3. Map!Crash
    BY <2>2 DEF Map!Crash, pending
  <2> QED BY <2>3 DEF Map!Next
<1>7. CASE DamageIndex \/ Open \/ OpenRebuild \/ UNCHANGED vars
  <2>1. log' = log /\ pc' = pc /\ frame' = frame
    BY <1>7 DEF DamageIndex, Open, OpenRebuild, vars, disk
  <2>2. \A t \in Threads : PendingWrite(t)' = PendingWrite(t)
    BY <2>1 DEF PendingWrite
  <2> QED BY <2>1, <2>2 DEF Map!vars
<1>8. ASSUME NEW t \in Threads, ThreadNext(t) PROVE [Map!Next]_(Map!vars)
  BY <1>1, <1>2, <1>4, <1>5, <1>8 DEF ThreadNext
<1> QED BY <1>6, <1>7, <1>8 DEF Next

\* The writes are linearizable and durable: the engine implements DurableMap.
THEOREM Implementation == Spec /\ []CompactsAlone => Durable
<1>1. Inv1 /\ Inv2 /\ [Next]_vars => [Map!Next]_(Map!vars)
  BY MapStep
<1> QED BY <1>1, MapInit, Invariance2, PTL DEF Spec, Durable, Map!Spec
=============================================================================
