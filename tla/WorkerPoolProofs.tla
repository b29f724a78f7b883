-------------------------- MODULE WorkerPoolProofs --------------------------
(***************************************************************************)
(* Theorems about WorkerPool, for any fleet, any number of dispatches and  *)
(* any chunk counts.  First what holds of the threads: who wakes, who is   *)
(* late, when a call returns.  Then what becomes of the chunks.            *)
(***************************************************************************)
EXTENDS WorkerPool, Induction

\* Where the calling thread stands while a job is being armed, or armed.
Arming == {"armFn", "armRange", "armNext", "armActive"}
Armed  == {"notify", "wait", "asleep"}

CallerInv ==
  /\ InDispatch => jobNo \in Jobs
  /\ callerPc \in Arming => workerCount > 0 /\ ~active
  /\ active => callerPc \in Armed \cup {"aborted"}
  /\ callerPc \in Armed => fn = jobNo /\ chunkCount = JobChunks[jobNo]
  /\ callerPc \in {"armRange", "armNext", "armActive"} => fn = jobNo
  /\ callerPc \in {"armNext", "armActive"} => chunkCount = JobChunks[jobNo]

WorkerOK(w) ==
  /\ workerPc[w] \notin {"off", "exit"} => w \in Started /\ callerPc # "aborted"
  /\ workerPc[w] \in {"capture", "run", "failed"} =>
       local[w] \in Jobs /\ attempt[w] <= Retries
  /\ woke[w] <= jobNo
  /\ callerPc \in Arming => woke[w] < jobNo

WorkerInv == \A w \in Workers : WorkerOK(w)

\* A worker that woke for the current job and stopped draining it has seen
\* the indices run out.
FreshOK(w) ==
  (active /\ woke[w] = jobNo) =>
    /\ workerPc[w] = "check" => index[w] < next
    /\ workerPc[w] = "leave" => next >= chunkCount

FreshInv == \A w \in Workers : FreshOK(w)

\* When no job is active, somebody is back at the condition variable.
SomeoneRests ==
  (~active /\ workerCount > 0) => \E w \in Started : ~Draining(w)

\* AllHandedOut, from the moment the job is armed.
HandedOut == (callerPc \in Armed /\ ~active) => next >= JobChunks[jobNo]

IInv == /\ TypeOK /\ CallerInv /\ WorkerInv
        /\ FreshInv /\ SomeoneRests /\ LateCannotEnd /\ HandedOut

-----------------------------------------------------------------------------
(* Updating one chunk's entry keeps the tables of chunks in their types.     *)
LEMMA DataUpdate ==
  ASSUME data \in [Jobs -> [Indices -> Data]], NEW j, NEW i, NEW v,
         j \in Jobs /\ i \in Indices => v \in Data
  PROVE  [data EXCEPT ![j][i] = v] \in [Jobs -> [Indices -> Data]]
OBVIOUS

(* A snapshot of a chunk is recorded within the table of snapshots.          *)
LEMMA SnapUpdate ==
  ASSUME snap \in [Jobs -> [Indices -> Data \cup {"none"}]], NEW j, NEW i, NEW v,
         j \in Jobs /\ i \in Indices => v \in Data \cup {"none"}
  PROVE  [snap EXCEPT ![j][i] = v] \in [Jobs -> [Indices -> Data \cup {"none"}]]
OBVIOUS

(* A claim is counted within the table of claims.                            *)
LEMMA ClaimsUpdate ==
  ASSUME claims \in [Jobs -> [Indices -> Nat]], NEW j, NEW i, NEW v,
         j \in Jobs /\ i \in Indices => v \in Nat
  PROVE  [claims EXCEPT ![j][i] = v] \in [Jobs -> [Indices -> Nat]]
OBVIOUS

(* A failed attempt leads back to the next index or to another attempt.      *)
LEMMA RecoverGoes ==
  ASSUME NEW w \in Workers, Recover(w)
  PROVE  /\ attempt[w] + 1 > Retries => Goto(w, "claim")
         /\ ~(attempt[w] + 1 > Retries) => Goto(w, "capture")
<1>1. CASE attempt[w] + 1 > Retries
  BY <1>1 DEF Recover
<1>2. CASE ~(attempt[w] + 1 > Retries)
  BY <1>2 DEF Recover
<1> QED BY <1>1, <1>2

(* Type correctness: every variable stays in its range.  The ranges of the   *)
(* threads' locals depend on where the threads are, hence CallerInv and      *)
(* WorkerInv among the hypotheses.                                           *)
LEMMA TypeStep ==
  ASSUME TypeOK, CallerInv, WorkerInv, [Next]_vars PROVE TypeOK'
<1> USE PoolAssumption DEF TypeOK, Workers, Jobs, NoJob
<1>1. ASSUME NEW n \in 1..Hardware, Reset(n) PROVE TypeOK'
  <2>1. JobTypeOK'
    BY <1>1 DEF JobTypeOK, Reset, jobVars
  <2>2. CallerTypeOK'
    BY <1>1 DEF CallerTypeOK, Reset, callerVars
  <2>3. WorkerTypeOK'
    BY <1>1 DEF WorkerTypeOK, Resting, Reset
  <2>4. ChunkTypeOK'
    BY <1>1 DEF ChunkTypeOK, Reset, chunkVars
  <2> QED BY <2>1, <2>2, <2>3, <2>4
<1>2. CASE Call
  <2>1. JobTypeOK'
    BY <1>2 DEF JobTypeOK, Call, jobVars
  <2>2. CallerTypeOK'
    BY <1>2 DEF CallerTypeOK, Call
  <2>3. WorkerTypeOK'
    BY <1>2 DEF WorkerTypeOK, Call, workerVars
  <2>4. ChunkTypeOK'
    BY <1>2 DEF ChunkTypeOK, Call, chunkVars
  <2> QED BY <2>1, <2>2, <2>3, <2>4
<1>3. CASE Shutdown
  <2>1. JobTypeOK'
    BY <1>3 DEF JobTypeOK, Shutdown
  <2>2. CallerTypeOK'
    BY <1>3 DEF CallerTypeOK, Shutdown
  <2>3. WorkerTypeOK'
    BY <1>3 DEF WorkerTypeOK, Resting, Shutdown
  <2>4. ChunkTypeOK'
    BY <1>3 DEF ChunkTypeOK, Shutdown, chunkVars
  <2> QED BY <2>1, <2>2, <2>3, <2>4
<1>4. CASE InlineChunk
  <2>1. JobTypeOK'
    BY <1>4 DEF JobTypeOK, InlineChunk, jobVars
  <2>2. CallerTypeOK'
    BY <1>4 DEF CallerTypeOK, InlineChunk
  <2>3. WorkerTypeOK'
    BY <1>4 DEF WorkerTypeOK, InlineChunk, workerVars
  <2>4. ChunkTypeOK'
    <3>1. \/ data' = [data EXCEPT ![jobNo][cursor] = "out"]
          \/ data' = [data EXCEPT ![jobNo][cursor] = "dirty"]
      BY <1>4 DEF InlineChunk
    <3>2. data' \in [Jobs -> [Indices -> Data]]
      <4>1. "out" \in Data /\ "dirty" \in Data
        BY DEF Data
      <4>2. CASE data' = [data EXCEPT ![jobNo][cursor] = "out"]
        BY <4>1, <4>2, DataUpdate DEF ChunkTypeOK
      <4>3. CASE data' = [data EXCEPT ![jobNo][cursor] = "dirty"]
        BY <4>1, <4>3, DataUpdate DEF ChunkTypeOK
      <4> QED BY <3>1, <4>2, <4>3
    <3>3. snap' \in [Jobs -> [Indices -> Data \cup {"none"}]]
      <4>1. CASE JobKind[jobNo].ops
        <5>1. snap' = [snap EXCEPT ![jobNo][cursor] = data[jobNo][cursor]]
          BY <1>4, <4>1 DEF InlineChunk
        <5>2. jobNo \in Jobs /\ cursor \in Indices => data[jobNo][cursor] \in Data
          BY DEF ChunkTypeOK
        <5> QED BY <5>1, <5>2, SnapUpdate DEF ChunkTypeOK
      <4>2. CASE ~JobKind[jobNo].ops
        BY <1>4, <4>2 DEF ChunkTypeOK, InlineChunk
      <4> QED BY <4>1, <4>2
    <3>4. claims' = [claims EXCEPT ![jobNo][cursor] = claims[jobNo][cursor] + 1]
      BY <1>4 DEF InlineChunk
    <3>5. claims' \in [Jobs -> [Indices -> Nat]]
      <4>1. jobNo \in Jobs /\ cursor \in Indices => claims[jobNo][cursor] + 1 \in Nat
        BY DEF ChunkTypeOK
      <4> QED BY <3>4, <4>1, ClaimsUpdate DEF ChunkTypeOK
    <3>6. throws' \in 0..MaxThrows
      BY <1>4 DEF ChunkTypeOK, InlineChunk
    <3> QED BY <1>4, <3>2, <3>3, <3>5, <3>6 DEF ChunkTypeOK, InlineChunk
  <2> QED BY <2>1, <2>2, <2>3, <2>4
<1>5. CASE InlineReturn
  <2>1. JobTypeOK'
    BY <1>5 DEF JobTypeOK, InlineReturn, jobVars
  <2>2. CallerTypeOK'
    BY <1>5 DEF CallerTypeOK, InlineReturn
  <2>3. WorkerTypeOK'
    BY <1>5 DEF WorkerTypeOK, InlineReturn, workerVars
  <2>4. ChunkTypeOK'
    BY <1>5 DEF ChunkTypeOK, InlineReturn, chunkVars
  <2> QED BY <2>1, <2>2, <2>3, <2>4
<1>6. CASE ArmFn
  <2>1. JobTypeOK'
    BY <1>6 DEF JobTypeOK, CallerInv, InDispatch, ArmFn, Kinds, Plain
  <2>2. CallerTypeOK'
    BY <1>6 DEF CallerTypeOK, ArmFn
  <2>3. WorkerTypeOK'
    BY <1>6 DEF WorkerTypeOK, ArmFn, workerVars
  <2>4. ChunkTypeOK'
    BY <1>6 DEF ChunkTypeOK, ArmFn, chunkVars
  <2> QED BY <2>1, <2>2, <2>3, <2>4
<1>7. CASE ArmRange
  <2>1. JobTypeOK'
    BY <1>7 DEF JobTypeOK, CallerInv, InDispatch, ArmRange
  <2>2. CallerTypeOK'
    BY <1>7 DEF CallerTypeOK, ArmRange
  <2>3. WorkerTypeOK'
    BY <1>7 DEF WorkerTypeOK, ArmRange, workerVars
  <2>4. ChunkTypeOK'
    BY <1>7 DEF ChunkTypeOK, ArmRange, chunkVars
  <2> QED BY <2>1, <2>2, <2>3, <2>4
<1>8. CASE ArmNext
  <2>1. JobTypeOK'
    BY <1>8 DEF JobTypeOK, ArmNext
  <2>2. CallerTypeOK'
    BY <1>8 DEF CallerTypeOK, ArmNext
  <2>3. WorkerTypeOK'
    BY <1>8 DEF WorkerTypeOK, ArmNext, workerVars
  <2>4. ChunkTypeOK'
    BY <1>8 DEF ChunkTypeOK, ArmNext, chunkVars
  <2> QED BY <2>1, <2>2, <2>3, <2>4
<1>9. CASE ArmActive
  <2>1. JobTypeOK'
    BY <1>9 DEF JobTypeOK, ArmActive, CallerTypeOK
  <2>2. CallerTypeOK'
    BY <1>9 DEF CallerTypeOK, ArmActive
  <2>3. WorkerTypeOK'
    BY <1>9 DEF WorkerTypeOK, ArmActive, workerVars
  <2>4. ChunkTypeOK'
    BY <1>9 DEF ChunkTypeOK, ArmActive, chunkVars
  <2> QED BY <2>1, <2>2, <2>3, <2>4
<1>10. CASE NotifyAll
  <2>1. JobTypeOK'
    BY <1>10 DEF JobTypeOK, NotifyAll, jobVars
  <2>2. CallerTypeOK'
    BY <1>10 DEF CallerTypeOK, NotifyAll
  <2>3. WorkerTypeOK'
    BY <1>10 DEF WorkerTypeOK, Resting, NotifyAll
  <2>4. ChunkTypeOK'
    BY <1>10 DEF ChunkTypeOK, NotifyAll, chunkVars
  <2> QED BY <2>1, <2>2, <2>3, <2>4
<1>11. CASE AwaitDone
  <2>1. JobTypeOK'
    BY <1>11 DEF JobTypeOK, AwaitDone, jobVars
  <2>2. CallerTypeOK'
    BY <1>11 DEF CallerTypeOK, AwaitDone
  <2>3. WorkerTypeOK'
    BY <1>11 DEF WorkerTypeOK, AwaitDone, workerVars
  <2>4. ChunkTypeOK'
    BY <1>11 DEF ChunkTypeOK, AwaitDone, chunkVars
  <2> QED BY <2>1, <2>2, <2>3, <2>4
<1>12. CASE ReturnToCaller
  <2>1. JobTypeOK'
    BY <1>12 DEF JobTypeOK, ReturnToCaller
  <2>2. CallerTypeOK'
    BY <1>12 DEF CallerTypeOK, ReturnToCaller
  <2>3. WorkerTypeOK'
    BY <1>12 DEF WorkerTypeOK, ReturnToCaller, workerVars
  <2>4. ChunkTypeOK'
    BY <1>12 DEF ChunkTypeOK, ReturnToCaller
  <2> QED BY <2>1, <2>2, <2>3, <2>4
<1>13. CASE Joined
  <2>1. JobTypeOK'
    BY <1>13 DEF JobTypeOK, Joined, jobVars
  <2>2. CallerTypeOK'
    BY <1>13 DEF CallerTypeOK, Joined
  <2>3. WorkerTypeOK'
    BY <1>13 DEF WorkerTypeOK, Joined, workerVars
  <2>4. ChunkTypeOK'
    BY <1>13 DEF ChunkTypeOK, Joined, chunkVars
  <2> QED BY <2>1, <2>2, <2>3, <2>4
<1>14. ASSUME NEW w \in Workers, Wake(w) PROVE TypeOK'
  <2>1. JobTypeOK'
    BY <1>14 DEF JobTypeOK, Wake, jobVars
  <2>2. CallerTypeOK'
    BY <1>14 DEF CallerTypeOK, Wake, callerVars
  <2>3. WorkerTypeOK'
    <3>1. UNCHANGED <<index, local, attempt, workerCount, jobNo>>
      BY <1>14 DEF Wake, callerVars
    <3>2. PICK pc \in {"exit", "claim", "asleep"} : workerPc' = [workerPc EXCEPT ![w] = pc]
      BY <1>14 DEF Wake, Goto
    <3>3. woke' = woke \/ woke' = [woke EXCEPT ![w] = jobNo]
      BY <1>14 DEF Wake
    <3>4. woke' \in [Workers -> 0..MaxJobs]
      BY <3>3 DEF WorkerTypeOK, CallerTypeOK
    <3>5. workerPc' \in [Workers -> Resting \cup {"claim", "check", "load", "capture",
                                                  "run", "failed", "leave"}]
      BY <3>2 DEF WorkerTypeOK, Resting
    <3> QED BY <3>1, <3>4, <3>5 DEF WorkerTypeOK
  <2>4. ChunkTypeOK'
    BY <1>14 DEF ChunkTypeOK, Wake, chunkVars
  <2> QED BY <2>1, <2>2, <2>3, <2>4
<1>15. ASSUME NEW w \in Workers, Claim(w) PROVE TypeOK'
  <2>1. JobTypeOK'
    BY <1>15 DEF JobTypeOK, Claim
  <2>2. CallerTypeOK'
    BY <1>15 DEF CallerTypeOK, Claim, callerVars
  <2>3. WorkerTypeOK'
    BY <1>15 DEF WorkerTypeOK, Goto, Claim, JobTypeOK
  <2>4. ChunkTypeOK'
    BY <1>15 DEF ChunkTypeOK, Claim, chunkVars
  <2> QED BY <2>1, <2>2, <2>3, <2>4
<1>16. ASSUME NEW w \in Workers, Check(w) PROVE TypeOK'
  <2>1. JobTypeOK'
    BY <1>16 DEF JobTypeOK, Check, jobVars
  <2>2. CallerTypeOK'
    BY <1>16 DEF CallerTypeOK, Check, callerVars
  <2>3. WorkerTypeOK'
    BY <1>16 DEF WorkerTypeOK, Goto, Check
  <2>4. ChunkTypeOK'
    BY <1>16 DEF ChunkTypeOK, Check, chunkVars
  <2> QED BY <2>1, <2>2, <2>3, <2>4
<1>17. ASSUME NEW w \in Workers, Load(w) PROVE TypeOK'
  <2>1. JobTypeOK'
    BY <1>17 DEF JobTypeOK, Load, jobVars
  <2>2. CallerTypeOK'
    BY <1>17 DEF CallerTypeOK, Load, callerVars
  <2>3. WorkerTypeOK'
    <3>1. local' = [local EXCEPT ![w] = fn] /\ attempt' = [attempt EXCEPT ![w] = 0]
      BY <1>17 DEF Load
    <3>2. /\ local' \in [Workers -> Jobs \cup {NoJob}]
          /\ attempt' \in [Workers -> 0..(Retries + 1)]
      <4>1. local' \in [Workers -> Jobs \cup {NoJob}]
        BY <3>1 DEF WorkerTypeOK, JobTypeOK
      <4>2. attempt' \in [Workers -> 0..(Retries + 1)]
        BY <3>1 DEF WorkerTypeOK
      <4> QED BY <4>1, <4>2
    <3>3. PICK pc \in {"leave", "capture"} : workerPc' = [workerPc EXCEPT ![w] = pc]
      BY <1>17 DEF Load, Goto
    <3>4. UNCHANGED <<index, woke>>
      BY <1>17 DEF Load
    <3> QED BY <3>2, <3>3, <3>4 DEF WorkerTypeOK
  <2>4. ChunkTypeOK'
    <3>1. CASE fn = NoJob
      BY <1>17, <3>1 DEF ChunkTypeOK, Load
    <3>2. CASE fn # NoJob
      <4>1. claims' = [claims EXCEPT ![fn][index[w]] = claims[fn][index[w]] + 1]
        BY <1>17, <3>2 DEF Load
      <4>2. claims' \in [Jobs -> [Indices -> Nat]]
        <5>1. fn \in Jobs /\ index[w] \in Indices => claims[fn][index[w]] + 1 \in Nat
          BY DEF ChunkTypeOK
        <5> QED BY <4>1, <5>1, ClaimsUpdate DEF ChunkTypeOK
      <4> QED BY <1>17, <4>2 DEF ChunkTypeOK, Load
    <3> QED BY <3>1, <3>2
  <2> QED BY <2>1, <2>2, <2>3, <2>4
<1>18. ASSUME NEW w \in Workers, Capture(w) PROVE TypeOK'
  <2>1. JobTypeOK'
    BY <1>18 DEF JobTypeOK, Capture, jobVars
  <2>2. CallerTypeOK'
    BY <1>18 DEF CallerTypeOK, Capture, callerVars
  <2>3. WorkerTypeOK'
    BY <1>18 DEF WorkerTypeOK, Goto, Capture
  <2>4. ChunkTypeOK'
    <3>1. CASE hooks = NoJob
      BY <1>18, <3>1 DEF ChunkTypeOK, Capture
    <3>2. CASE hooks # NoJob
      <4>1. snap' = [snap EXCEPT ![hooks][index[w]] = data[hooks][index[w]]]
        BY <1>18, <3>2 DEF Capture
      <4>2. snap' \in [Jobs -> [Indices -> Data \cup {"none"}]]
        <5>1. hooks \in Jobs /\ index[w] \in Indices => data[hooks][index[w]] \in Data
          BY DEF ChunkTypeOK
        <5> QED BY <4>1, <5>1, SnapUpdate DEF ChunkTypeOK
      <4> QED BY <1>18, <4>2 DEF ChunkTypeOK, Capture
    <3> QED BY <3>1, <3>2
  <2> QED BY <2>1, <2>2, <2>3, <2>4
<1>19. ASSUME NEW w \in Workers, RunCompletes(w) PROVE TypeOK'
  <2>1. JobTypeOK'
    BY <1>19 DEF JobTypeOK, RunCompletes, jobVars
  <2>2. CallerTypeOK'
    BY <1>19 DEF CallerTypeOK, RunCompletes, callerVars
  <2>3. WorkerTypeOK'
    BY <1>19 DEF WorkerTypeOK, Goto, RunCompletes
  <2>4. ChunkTypeOK'
    <3>1. data' \in [Jobs -> [Indices -> Data]]
      BY <1>19 DEF ChunkTypeOK, RunCompletes, Data
    <3> QED BY <1>19, <3>1 DEF ChunkTypeOK, RunCompletes
  <2> QED BY <2>1, <2>2, <2>3, <2>4
<1>20. ASSUME NEW w \in Workers, RunDropped(w) PROVE TypeOK'
  <2>1. JobTypeOK'
    BY <1>20 DEF JobTypeOK, RunDropped, jobVars
  <2>2. CallerTypeOK'
    BY <1>20 DEF CallerTypeOK, RunDropped, callerVars
  <2>3. WorkerTypeOK'
    BY <1>20 DEF WorkerTypeOK, Goto, RunDropped
  <2>4. ChunkTypeOK'
    BY <1>20 DEF ChunkTypeOK, RunDropped, WorkerTypeOK
  <2> QED BY <2>1, <2>2, <2>3, <2>4
<1>21. ASSUME NEW w \in Workers, RunThrows(w) PROVE TypeOK'
  <2>1. JobTypeOK'
    BY <1>21 DEF JobTypeOK, RunThrows, jobVars
  <2>2. CallerTypeOK'
    BY <1>21 DEF CallerTypeOK, RunThrows, callerVars
  <2>3. WorkerTypeOK'
    BY <1>21 DEF WorkerTypeOK, Goto, RunThrows
  <2>4. ChunkTypeOK'
    <3>1. data' \in [Jobs -> [Indices -> Data]]
      BY <1>21 DEF ChunkTypeOK, RunThrows, Data
    <3>2. throws' \in 0..MaxThrows
      BY <1>21 DEF ChunkTypeOK, RunThrows
    <3> QED BY <1>21, <3>1, <3>2 DEF ChunkTypeOK, RunThrows
  <2> QED BY <2>1, <2>2, <2>3, <2>4
<1>22. ASSUME NEW w \in Workers, Recover(w) PROVE TypeOK'
  <2>1. JobTypeOK'
    BY <1>22 DEF JobTypeOK, Recover, jobVars
  <2>2. CallerTypeOK'
    BY <1>22 DEF CallerTypeOK, Recover, callerVars
  <2>3. WorkerTypeOK'
    <3>1. attempt[w] <= Retries
      BY <1>22 DEF WorkerInv, WorkerOK, Recover
    <3>2. attempt' = [attempt EXCEPT ![w] = @ + 1]
      BY <1>22 DEF Recover
    <3>3. attempt' \in [Workers -> 0..(Retries + 1)]
      <4>1. attempt[w] \in Nat /\ attempt \in [Workers -> 0..(Retries + 1)]
        BY DEF WorkerTypeOK
      <4>2. attempt[w] + 1 \in 0..(Retries + 1)
        BY <3>1, <4>1
      <4> QED BY <3>2, <4>1, <4>2
    <3>4. \/ workerPc' = [workerPc EXCEPT ![w] = "claim"]
          \/ workerPc' = [workerPc EXCEPT ![w] = "capture"]
      <4>1. Goto(w, "claim") \/ Goto(w, "capture")
        BY <1>22, RecoverGoes
      <4> QED BY <4>1 DEF Goto
    <3> QED BY <1>22, <3>3, <3>4 DEF WorkerTypeOK, Recover
  <2>4. ChunkTypeOK'
    <3>1. \/ data' = data
          \/ /\ data' = [data EXCEPT ![hooks][index[w]] = snap[hooks][index[w]]]
             /\ snap[hooks][index[w]] # "none"
      BY <1>22 DEF Recover, Restored
    <3>2. data' \in [Jobs -> [Indices -> Data]]
      <4>1. ASSUME hooks \in Jobs, index[w] \in Indices,
                   snap[hooks][index[w]] # "none"
            PROVE  snap[hooks][index[w]] \in Data
        BY <4>1 DEF ChunkTypeOK
      <4>2. CASE data' = data
        BY <4>2 DEF ChunkTypeOK
      <4>3. CASE /\ data' = [data EXCEPT ![hooks][index[w]] = snap[hooks][index[w]]]
                 /\ snap[hooks][index[w]] # "none"
        BY <4>1, <4>3, DataUpdate DEF ChunkTypeOK
      <4> QED BY <3>1, <4>2, <4>3
    <3>3. local[w] \in Jobs /\ index[w] \in Nat
      BY <1>22 DEF WorkerInv, WorkerOK, WorkerTypeOK, Recover
    <3>4. lost' \subseteq lost \cup {<<local[w], index[w]>>}
      BY <1>22 DEF Recover
    <3> QED BY <1>22, <3>2, <3>3, <3>4 DEF ChunkTypeOK, Recover
  <2> QED BY <2>1, <2>2, <2>3, <2>4
<1>23. ASSUME NEW w \in Workers, Terminate(w) PROVE TypeOK'
  <2>1. JobTypeOK'
    BY <1>23 DEF JobTypeOK, Terminate, jobVars
  <2>2. CallerTypeOK'
    BY <1>23 DEF CallerTypeOK, Terminate
  <2>3. WorkerTypeOK'
    BY <1>23 DEF WorkerTypeOK, Resting, Terminate
  <2>4. ChunkTypeOK'
    BY <1>23 DEF ChunkTypeOK, Terminate, chunkVars
  <2> QED BY <2>1, <2>2, <2>3, <2>4
<1>24. ASSUME NEW w \in Workers, Leave(w) PROVE TypeOK'
  <2>1. JobTypeOK'
    BY <1>24 DEF JobTypeOK, Leave
  <2>2. CallerTypeOK'
    BY <1>24 DEF CallerTypeOK, Leave
  <2>3. WorkerTypeOK'
    BY <1>24 DEF WorkerTypeOK, Goto, Resting, Leave
  <2>4. ChunkTypeOK'
    BY <1>24 DEF ChunkTypeOK, Leave, chunkVars
  <2> QED BY <2>1, <2>2, <2>3, <2>4
<1>25. CASE UNCHANGED vars
  <2>1. UNCHANGED <<jobVars, stop, callerVars, workerCount>>
    BY <1>25 DEF vars
  <2>2. UNCHANGED <<workerVars, chunkVars>>
    BY <1>25 DEF vars
  <2>3. JobTypeOK' /\ CallerTypeOK'
    BY <2>1 DEF JobTypeOK, CallerTypeOK, jobVars, callerVars
  <2>4. WorkerTypeOK' /\ ChunkTypeOK'
    BY <2>2 DEF WorkerTypeOK, ChunkTypeOK, workerVars, chunkVars
  <2> QED BY <2>3, <2>4
<1>26. QED
  BY <1>1, <1>2, <1>3, <1>4, <1>5, <1>6, <1>7, <1>8, <1>9, <1>10, <1>11, <1>12,
     <1>13, <1>14, <1>15, <1>16, <1>17, <1>18, <1>19, <1>20, <1>21, <1>22,
     <1>23, <1>24, <1>25 DEF
     Next, CallerStep, WorkerStep, DrainStep, Ended

(* What a step inside drain_chunks leaves alone: every other thread, and all *)
(* of the job but `next`, which only grows.                                  *)
LEMMA DrainFrame ==
  ASSUME TypeOK, NEW w \in Workers, DrainStep(w)
  PROVE  /\ Draining(w) /\ Draining(w)'
         /\ \A v \in Workers \ {w} :
              /\ workerPc'[v] = workerPc[v] /\ index'[v] = index[v]
              /\ local'[v] = local[v] /\ attempt'[v] = attempt[v]
         /\ UNCHANGED <<callerPc, jobNo, workerCount, active, pending, chunkCount, fn, woke>>
         /\ next' \in Nat /\ next' >= next
<1> USE DEF TypeOK, JobTypeOK, WorkerTypeOK, Draining, Resting, Goto,
            jobVars, callerVars, workerVars
<1>1. CASE Claim(w)
  BY <1>1 DEF Claim
<1>2. CASE Check(w)
  BY <1>2 DEF Check
<1>3. CASE Load(w)
  BY <1>3 DEF Load
<1>4. CASE Capture(w)
  BY <1>4 DEF Capture
<1>5. CASE RunCompletes(w)
  BY <1>5 DEF RunCompletes
<1>6. CASE RunDropped(w)
  BY <1>6 DEF RunDropped
<1>7. CASE RunThrows(w)
  BY <1>7 DEF RunThrows
<1>8. CASE Recover(w)
  BY <1>8 DEF Recover
<1>9. QED
  BY <1>1, <1>2, <1>3, <1>4, <1>5, <1>6, <1>7, <1>8 DEF DrainStep

(* The caller's position tells what it has published.                        *)
LEMMA CallerStepInv ==
  ASSUME TypeOK, CallerInv, WorkerInv, [Next]_vars PROVE CallerInv'
<1> USE PoolAssumption DEF TypeOK, Workers, Jobs, NoJob
<1>1. ASSUME NEW n \in 1..Hardware, Reset(n) PROVE CallerInv'
  BY <1>1 DEF CallerInv, InDispatch, jobVars, callerVars, Reset
<1>2. CASE Call
  BY <1>2 DEF CallerInv, CallerTypeOK, Arming, Armed, jobVars, Call
<1>3. CASE Shutdown
  BY <1>3 DEF CallerInv, Arming, Armed, InDispatch, Shutdown
<1>4. CASE InlineChunk
  BY <1>4 DEF CallerInv, Arming, Armed, InDispatch, jobVars, InlineChunk
<1>5. CASE InlineReturn
  BY <1>5 DEF CallerInv, Arming, Armed, InDispatch, jobVars, InlineReturn
<1>6. CASE ArmFn
  BY <1>6 DEF CallerInv, Arming, Armed, InDispatch, ArmFn
<1>7. CASE ArmRange
  BY <1>7 DEF CallerInv, Arming, InDispatch, ArmRange
<1>8. CASE ArmNext
  BY <1>8 DEF CallerInv, Arming, InDispatch, ArmNext
<1>9. CASE ArmActive
  BY <1>9 DEF CallerInv, Arming, Armed, InDispatch, ArmActive
<1>10. CASE NotifyAll
  BY <1>10 DEF CallerInv, Arming, Armed, InDispatch, jobVars, NotifyAll
<1>11. CASE AwaitDone
  BY <1>11 DEF CallerInv, Arming, Armed, InDispatch, jobVars, AwaitDone
<1>12. CASE ReturnToCaller
  BY <1>12 DEF CallerInv, Arming, Armed, InDispatch, ReturnToCaller
<1>13. CASE Joined
  BY <1>13 DEF CallerInv, Arming, Armed, InDispatch, jobVars, Joined
<1>14. ASSUME NEW w \in Workers, Wake(w) PROVE CallerInv'
  BY <1>14 DEF CallerInv, InDispatch, jobVars, callerVars, Wake
<1>15. ASSUME NEW w \in Workers, DrainStep(w) PROVE CallerInv'
  BY <1>15, DrainFrame DEF CallerInv, InDispatch
<1>16. ASSUME NEW w \in Workers, Terminate(w) PROVE CallerInv'
  BY <1>16 DEF CallerInv, Arming, Armed, InDispatch, Terminate
<1>17. ASSUME NEW w \in Workers, Leave(w) PROVE CallerInv'
  BY <1>17 DEF CallerInv, Arming, Armed, InDispatch, Leave
<1>18. CASE UNCHANGED vars
  BY <1>18 DEF CallerInv, InDispatch, jobVars, callerVars, vars
<1>19. QED
  BY <1>1, <1>2, <1>3, <1>4, <1>5, <1>6, <1>7, <1>8, <1>9, <1>10, <1>11, <1>12,
     <1>13, <1>14, <1>15, <1>16, <1>17, <1>18 DEF Next, CallerStep, WorkerStep,
     Ended

(* Nobody outside the fleet drains, and nobody woke for a later dispatch.    *)
LEMMA WorkerStepInv ==
  ASSUME TypeOK, CallerInv, WorkerInv, [Next]_vars PROVE WorkerInv'
<1> USE PoolAssumption DEF TypeOK, Workers, Jobs, NoJob
<1>1. ASSUME NEW n \in 1..Hardware, Reset(n) PROVE WorkerInv'
  BY <1>1 DEF WorkerOK, WorkerInv, Started, CallerTypeOK, callerVars, Reset
<1>2. CASE Call
  <2> SUFFICES ASSUME NEW v \in Workers PROVE WorkerOK(v)'
    BY DEF WorkerInv
  <2>1. jobNo \in Nat /\ woke[v] \in Nat
    BY DEF CallerTypeOK, WorkerTypeOK
  <2>2. WorkerOK(v)
    BY DEF WorkerInv
  <2>3. jobNo' = jobNo + 1 /\ callerPc' # "aborted" /\ callerPc # "aborted"
    BY <1>2 DEF Call
  <2>4. UNCHANGED <<workerPc, local, attempt, woke, workerCount>>
    BY <1>2 DEF Call, workerVars
  <2>5. woke[v] <= jobNo + 1 /\ woke[v] < jobNo + 1
    BY <2>1, <2>2 DEF WorkerOK
  <2> QED BY <2>2, <2>3, <2>4, <2>5 DEF WorkerOK, Started
<1>3. CASE Shutdown
  BY <1>3 DEF WorkerOK, WorkerInv, Started, Arming, Shutdown
<1>4. CASE InlineChunk
  BY <1>4 DEF WorkerOK, WorkerInv, Started, Arming, workerVars, InlineChunk
<1>5. CASE InlineReturn
  BY <1>5 DEF WorkerOK, WorkerInv, Started, Arming, workerVars, InlineReturn
<1>6. CASE ArmFn
  BY <1>6 DEF WorkerOK, WorkerInv, Started, Arming, workerVars, ArmFn
<1>7. CASE ArmRange
  BY <1>7 DEF WorkerOK, WorkerInv, Started, Arming, workerVars, ArmRange
<1>8. CASE ArmNext
  BY <1>8 DEF WorkerOK, WorkerInv, Started, Arming, workerVars, ArmNext
<1>9. CASE ArmActive
  BY <1>9 DEF WorkerOK, WorkerInv, Started, Arming, workerVars, ArmActive
<1>10. CASE NotifyAll
  BY <1>10 DEF WorkerOK, WorkerInv, Started, Arming, NotifyAll
<1>11. CASE AwaitDone
  BY <1>11 DEF WorkerOK, WorkerInv, Started, Arming, workerVars, AwaitDone
<1>12. CASE ReturnToCaller
  BY <1>12 DEF WorkerOK, WorkerInv, Started, Arming, workerVars, ReturnToCaller
<1>13. CASE Joined
  BY <1>13 DEF WorkerOK, WorkerInv, Arming, workerVars, Joined
<1>14. ASSUME NEW w \in Workers, Wake(w) PROVE WorkerInv'
  <2> SUFFICES ASSUME NEW v \in Workers PROVE WorkerOK(v)'
    BY DEF WorkerInv
  <2>1. WorkerOK(v) /\ WorkerOK(w)
    BY DEF WorkerInv
  <2>2. workerPc[w] = "wait" /\ (v = w \/ workerPc'[v] = workerPc[v])
    BY <1>14 DEF Wake, Goto, WorkerTypeOK
  <2>3. w \in Started /\ callerPc # "aborted"
    BY <2>1, <2>2 DEF WorkerOK
  <2>4. workerPc'[w] \in {"exit", "claim", "asleep"}
    BY <1>14 DEF Wake, Goto, WorkerTypeOK
  <2>6. woke'[v] <= jobNo
    <3>1. woke'[v] \in {woke[v], jobNo}
      BY <1>14 DEF Wake, WorkerTypeOK
    <3> QED BY <2>1, <3>1 DEF WorkerOK, CallerTypeOK
  <2>5. callerPc \in Arming => woke'[v] = woke[v]
    BY <1>14 DEF Wake, CallerInv, WorkerTypeOK
  <2> QED BY <1>14, <2>1, <2>2, <2>3, <2>4, <2>5, <2>6 DEF WorkerOK, Started, Wake, callerVars
<1>15. ASSUME NEW w \in Workers, DrainStep(w) PROVE WorkerInv'
  <2> SUFFICES ASSUME NEW v \in Workers PROVE WorkerOK(v)'
    BY DEF WorkerInv
  <2>1. CASE v # w
    BY <1>15, <2>1, DrainFrame DEF WorkerInv, WorkerOK, Draining, Started
  <2>2. CASE v = w
    <3>1. WorkerOK(w)
      BY DEF WorkerInv
    <3>2. workerPc'[w] \in {"capture", "run", "failed"} =>
            local'[w] \in Jobs /\ attempt'[w] <= Retries
      <4>1. CASE Load(w)
        BY <4>1, <3>1 DEF Load, Goto, WorkerTypeOK, JobTypeOK
      <4>2. CASE Recover(w)
        <5>1. workerPc[w] = "failed" /\ attempt[w] \in Nat
          BY <4>2 DEF Recover, WorkerTypeOK
        <5>2. workerPc'[w] = "capture" => attempt[w] + 1 <= Retries
          <6>1. attempt[w] + 1 > Retries => Goto(w, "claim")
            BY <4>2, RecoverGoes
          <6>2. attempt[w] + 1 > Retries => workerPc'[w] = "claim"
            BY <6>1 DEF Goto, WorkerTypeOK
          <6> QED BY <5>1, <6>2
        <5>3. workerPc'[w] \in {"capture", "claim"}
          BY <4>2 DEF Recover, Goto, WorkerTypeOK
        <5>4. attempt'[w] = attempt[w] + 1 /\ local'[w] = local[w]
          BY <4>2 DEF Recover, WorkerTypeOK
        <5> QED BY <3>1, <5>1, <5>2, <5>3, <5>4 DEF WorkerOK
      <4> QED
        BY <1>15, <4>1, <4>2, <3>1 DEF DrainStep, Claim, Check, Capture,
           RunCompletes, RunDropped, RunThrows, WorkerOK, Goto, WorkerTypeOK
    <3> QED BY <1>15, <2>2, <3>1, <3>2, DrainFrame DEF WorkerOK, Draining, Resting, Started
  <2> QED BY <2>1, <2>2
<1>16. ASSUME NEW w \in Workers, Terminate(w) PROVE WorkerInv'
  BY <1>16 DEF WorkerOK, WorkerInv, Arming, Terminate
<1>17. ASSUME NEW w \in Workers, Leave(w) PROVE WorkerInv'
  BY <1>17 DEF WorkerOK, WorkerInv, Started, Arming, Goto, Leave
<1>18. CASE UNCHANGED vars
  BY <1>18 DEF WorkerOK, WorkerInv, Started, callerVars, workerVars, vars
<1>19. QED
  BY <1>1, <1>2, <1>3, <1>4, <1>5, <1>6, <1>7, <1>8, <1>9, <1>10, <1>11, <1>12,
     <1>13, <1>14, <1>15, <1>16, <1>17, <1>18 DEF Next, CallerStep, WorkerStep,
     Ended

(* A worker of the current dispatch stops only when the indices have run out. *)
LEMMA FreshStepInv ==
  ASSUME TypeOK, CallerInv, WorkerInv, FreshInv, [Next]_vars PROVE FreshInv'
<1> USE PoolAssumption DEF TypeOK, Workers, Jobs, NoJob
<1>1. ASSUME NEW n \in 1..Hardware, Reset(n) PROVE FreshInv'
  BY <1>1 DEF FreshOK, FreshInv, jobVars, callerVars, Reset
<1>2. CASE Call
  BY <1>2 DEF FreshOK, FreshInv, CallerInv, Armed, jobVars, Call
<1>3. CASE Shutdown
  BY <1>3 DEF FreshOK, FreshInv, Shutdown
<1>4. CASE InlineChunk
  BY <1>4 DEF FreshOK, FreshInv, jobVars, workerVars, InlineChunk
<1>5. CASE InlineReturn
  BY <1>5 DEF FreshOK, FreshInv, jobVars, workerVars, InlineReturn
<1>6. CASE ArmFn
  BY <1>6 DEF FreshOK, FreshInv, workerVars, ArmFn
<1>7. CASE ArmRange
  BY <1>7 DEF FreshOK, FreshInv, CallerInv, workerVars, ArmRange
<1>8. CASE ArmNext
  BY <1>8 DEF FreshOK, FreshInv, CallerInv, Armed, ArmNext
<1>9. CASE ArmActive
  BY <1>9 DEF FreshOK, FreshInv, WorkerInv, WorkerOK, Arming, WorkerTypeOK,
     workerVars, ArmActive
<1>10. CASE NotifyAll
  BY <1>10 DEF FreshOK, FreshInv, jobVars, NotifyAll
<1>11. CASE AwaitDone
  BY <1>11 DEF FreshOK, FreshInv, jobVars, workerVars, AwaitDone
<1>12. CASE ReturnToCaller
  BY <1>12 DEF FreshOK, FreshInv, ReturnToCaller
<1>13. CASE Joined
  BY <1>13 DEF FreshOK, FreshInv, jobVars, workerVars, Joined
<1>14. ASSUME NEW w \in Workers, Wake(w) PROVE FreshInv'
  BY <1>14 DEF FreshOK, FreshInv, Goto, WorkerTypeOK, jobVars, callerVars, Wake
<1>15. ASSUME NEW w \in Workers, DrainStep(w) PROVE FreshInv'
  <2> SUFFICES ASSUME NEW v \in Workers PROVE FreshOK(v)'
    BY DEF FreshInv
  <2>1. CASE v # w
    <3>1. FreshOK(v)
      BY DEF FreshInv
    <3>2. index[v] \in Nat /\ next \in Nat /\ chunkCount \in Nat
      BY DEF JobTypeOK, WorkerTypeOK
    <3>3. /\ workerPc'[v] = workerPc[v] /\ index'[v] = index[v] /\ woke'[v] = woke[v]
          /\ UNCHANGED <<active, jobNo, chunkCount>>
          /\ next' \in Nat /\ next' >= next
      BY <1>15, <2>1, DrainFrame
    <3> QED BY <3>1, <3>2, <3>3 DEF FreshOK
  <2>2. CASE v = w
    <3>1. FreshOK(w) /\ WorkerOK(w)
      BY DEF FreshInv, WorkerInv
    <3>2. CASE Claim(w)
      BY <3>2, <2>2 DEF Claim, FreshOK, Goto, WorkerTypeOK, JobTypeOK
    <3>3. CASE Check(w)
      <4>1. workerPc[w] = "check" /\ workerPc'[w] = IF index[w] >= chunkCount THEN "leave" ELSE "load"
        BY <3>3 DEF Check, Goto, WorkerTypeOK
      <4>2. UNCHANGED <<active, jobNo, next, chunkCount, index, woke>>
        BY <3>3 DEF Check, jobVars, callerVars
      <4>3. index[w] \in Nat /\ next \in Nat /\ chunkCount \in Nat
        BY DEF WorkerTypeOK, JobTypeOK
      <4> QED BY <2>2, <3>1, <4>1, <4>2, <4>3 DEF FreshOK
    <3>4. CASE Load(w)
      BY <3>4, <2>2, <3>1 DEF Load, FreshOK, WorkerOK, CallerInv, Armed, InDispatch, Goto,
         WorkerTypeOK, jobVars, callerVars
    <3> QED
      BY <1>15, <2>2, <3>2, <3>3, <3>4 DEF DrainStep, Capture, RunCompletes, RunDropped,
         RunThrows, Recover, FreshOK, Goto, WorkerTypeOK
  <2> QED BY <2>1, <2>2
<1>16. ASSUME NEW w \in Workers, Terminate(w) PROVE FreshInv'
  BY <1>16 DEF FreshOK, FreshInv, Terminate
<1>17. ASSUME NEW w \in Workers, Leave(w) PROVE FreshInv'
  BY <1>17 DEF FreshOK, FreshInv, Goto, WorkerTypeOK, Leave
<1>18. CASE UNCHANGED vars
  BY <1>18 DEF FreshOK, FreshInv, jobVars, callerVars, workerVars, vars
<1>19. QED
  BY <1>1, <1>2, <1>3, <1>4, <1>5, <1>6, <1>7, <1>8, <1>9, <1>10, <1>11, <1>12,
     <1>13, <1>14, <1>15, <1>16, <1>17, <1>18 DEF Next, CallerStep, WorkerStep,
     Ended

(* Whoever ends the job goes back to the condition variable.                 *)
LEMMA RestStepInv ==
  ASSUME TypeOK, CallerInv, WorkerInv, SomeoneRests, [Next]_vars PROVE SomeoneRests'
<1> USE PoolAssumption DEF TypeOK, Workers, Jobs, NoJob
<1>1. ASSUME NEW n \in 1..Hardware, Reset(n) PROVE SomeoneRests'
  BY <1>1 DEF SomeoneRests, Draining, Resting, Started, CallerTypeOK, WorkerTypeOK,
     jobVars, Reset
<1>2. CASE Call
  BY <1>2 DEF SomeoneRests, Draining, Started, jobVars, workerVars, Call
<1>3. CASE Shutdown
  BY <1>3 DEF SomeoneRests, CallerInv, Draining, Resting, Started, Armed,
     CallerTypeOK, Shutdown
<1>4. CASE InlineChunk
  BY <1>4 DEF SomeoneRests, Draining, Started, jobVars, workerVars, InlineChunk
<1>5. CASE InlineReturn
  BY <1>5 DEF SomeoneRests, Draining, Started, jobVars, workerVars, InlineReturn
<1>6. CASE ArmFn
  BY <1>6 DEF SomeoneRests, Draining, Started, workerVars, ArmFn
<1>7. CASE ArmRange
  BY <1>7 DEF SomeoneRests, Draining, Started, workerVars, ArmRange
<1>8. CASE ArmNext
  BY <1>8 DEF SomeoneRests, Draining, Started, workerVars, ArmNext
<1>9. CASE ArmActive
  BY <1>9 DEF SomeoneRests, ArmActive
<1>10. CASE NotifyAll
  BY <1>10 DEF SomeoneRests, Draining, Resting, Started, CallerTypeOK, jobVars,
     NotifyAll
<1>11. CASE AwaitDone
  BY <1>11 DEF SomeoneRests, jobVars, AwaitDone
<1>12. CASE ReturnToCaller
  BY <1>12 DEF SomeoneRests, Draining, Started, workerVars, ReturnToCaller
<1>13. CASE Joined
  BY <1>13 DEF SomeoneRests, Joined
<1>14. ASSUME NEW w \in Workers, Wake(w) PROVE SomeoneRests'
  <2>1. \A v \in Workers : ~active /\ ~Draining(v) => ~Draining(v)'
    BY <1>14 DEF Wake, Goto, Draining, Resting, WorkerTypeOK
  <2> QED BY <1>14, <2>1 DEF SomeoneRests, Wake, jobVars, Started, CallerTypeOK
<1>15. ASSUME NEW w \in Workers, DrainStep(w) PROVE SomeoneRests'
  <2>1. \A v \in Workers : ~Draining(v) => ~Draining(v)'
    BY <1>15, DrainFrame DEF Draining
  <2> QED BY <1>15, <2>1, DrainFrame DEF SomeoneRests, Started, CallerTypeOK
<1>16. ASSUME NEW w \in Workers, Terminate(w) PROVE SomeoneRests'
  BY <1>16 DEF SomeoneRests, Draining, Resting, Started, CallerTypeOK, Terminate
<1>17. ASSUME NEW w \in Workers, Leave(w) PROVE SomeoneRests'
  BY <1>17 DEF SomeoneRests, WorkerInv, WorkerOK, Draining, Resting, Started, Goto,
     WorkerTypeOK, Leave
<1>18. CASE UNCHANGED vars
  BY <1>18 DEF SomeoneRests, Draining, Started, jobVars, workerVars, vars
<1>19. QED
  BY <1>1, <1>2, <1>3, <1>4, <1>5, <1>6, <1>7, <1>8, <1>9, <1>10, <1>11, <1>12,
     <1>13, <1>14, <1>15, <1>16, <1>17, <1>18 DEF Next, CallerStep, WorkerStep,
     Ended
(* The late workers form a finite set.                                        *)
LEMMA LateFinite ==
  /\ IsFiniteSet(Workers)
  /\ IsFiniteSet(Late) /\ Cardinality(Late) \in Nat
  /\ IsFiniteSet(Late') /\ Cardinality(Late') \in Nat
<1>1. IsFiniteSet(Workers)
  <2>1. Hardware - 1 \in Int
    BY PoolAssumption
  <2> QED BY <2>1, FS_Interval DEF Workers
<1>2. Late \in SUBSET Workers /\ Late' \in SUBSET Workers
  BY DEF Late
<1> QED BY <1>1, <1>2, FS_Subset, FS_CardinalityType

(* A step that leaves every worker on its side of the condition variable and  *)
(* every wake-up as it was leaves the late workers as they were.              *)
LEMMA LateUnchanged ==
  ASSUME UNCHANGED jobNo,
         \A w \in Workers : Draining(w)' = Draining(w) /\ (Draining(w) => woke'[w] = woke[w])
  PROVE  Late' = Late
BY DEF Late


(* Late decrements never outrun the indices still to be handed out.           *)
LEMMA LateStepInv ==
  ASSUME TypeOK, CallerInv, WorkerInv, FreshInv,
         SomeoneRests, LateCannotEnd, [Next]_vars PROVE LateCannotEnd'
<1> USE PoolAssumption DEF TypeOK, Workers, Jobs, NoJob
<1>1. ASSUME NEW n \in 1..Hardware, Reset(n) PROVE LateCannotEnd'
  BY <1>1 DEF LateCannotEnd, CallerInv, Armed, Reset, jobVars
<1>2. CASE Call
  BY <1>2 DEF LateCannotEnd, CallerInv, Armed, Call, jobVars
<1>3. CASE Shutdown
  BY <1>3 DEF LateCannotEnd, Shutdown
<1>4. CASE InlineChunk
  BY <1>4 DEF LateCannotEnd, CallerInv, Armed, InlineChunk, jobVars
<1>5. CASE InlineReturn
  BY <1>5 DEF LateCannotEnd, CallerInv, Armed, InlineReturn, jobVars
<1>6. CASE ArmFn
  BY <1>6 DEF LateCannotEnd, CallerInv, Arming, ArmFn
<1>7. CASE ArmRange
  BY <1>7 DEF LateCannotEnd, CallerInv, Arming, ArmRange
<1>8. CASE ArmNext
  BY <1>8 DEF LateCannotEnd, CallerInv, Arming, ArmNext
<1>9. CASE ArmActive
  <2>1. PICK r \in Started : ~Draining(r)
    BY <1>9 DEF SomeoneRests, CallerInv, Arming, ArmActive
  <2>2. Late' \subseteq Started \ {r}
    <3>1. \A v \in Workers : Draining(v)' => v \in Started /\ v # r
      BY <1>9, <2>1 DEF ArmActive, workerVars, WorkerInv, WorkerOK, Draining,
         Resting
    <3> QED BY <3>1 DEF Late
  <2>3. IsFiniteSet(Started) /\ Cardinality(Started) = workerCount
    <3>1. workerCount - 1 \in Int /\ workerCount \in Nat
      BY DEF CallerTypeOK
    <3>2. \A n \in Int : /\ IsFiniteSet(0..n)
                        /\ Cardinality(0..n) = IF 0 > n THEN 0 ELSE n - 0 + 1
      <4>1. 0 \in Int
        OBVIOUS
      <4> QED BY <4>1, FS_Interval
    <3>3. /\ IsFiniteSet(Started)
          /\ Cardinality(Started) =
               IF 0 > workerCount - 1 THEN 0 ELSE (workerCount - 1) - 0 + 1
      BY <3>1, <3>2, Zenon DEF Started
    <3> QED BY <3>1, <3>3
  <2>4. /\ IsFiniteSet(Started \ {r})
        /\ Cardinality(Started \ {r}) = workerCount - 1
    BY <2>1, <2>3, FS_RemoveElement
  <2>5. Cardinality(Late') <= workerCount - 1
    BY <2>2, <2>4, FS_Subset
  <2>6. pending' = workerCount
    BY <1>9 DEF ArmActive
  <2> QED BY <2>5, <2>6, LateFinite DEF LateCannotEnd, CallerTypeOK
<1>10. CASE NotifyAll
  <2>1. Late' = Late
    BY <1>10, LateUnchanged DEF NotifyAll, Draining, Resting
  <2> QED BY <1>10, <2>1 DEF LateCannotEnd, NotifyAll, jobVars
<1>11. CASE AwaitDone
  <2>1. Late' = Late
    BY <1>11, LateUnchanged DEF AwaitDone, Draining, workerVars
  <2> QED BY <1>11, <2>1 DEF LateCannotEnd, AwaitDone, jobVars
<1>12. CASE ReturnToCaller
  BY <1>12 DEF LateCannotEnd, ReturnToCaller
<1>13. CASE Joined
  BY <1>13 DEF LateCannotEnd, CallerInv, Armed, Joined, jobVars
<1>14. ASSUME NEW w \in Workers, Wake(w) PROVE LateCannotEnd'
  <2>1. Late' = Late
    <3>1. ~Draining(w)
      BY <1>14 DEF Wake, Draining, Resting
    <3>2. \A v \in Workers \ {w} : workerPc'[v] = workerPc[v] /\ woke'[v] = woke[v]
      BY <1>14 DEF Wake, Goto, WorkerTypeOK
    <3>3. w \in Late' => FALSE
      <4>1. workerPc'[w] \notin Resting => woke'[w] = jobNo
        BY <1>14 DEF Wake, Goto, WorkerTypeOK, Resting
      <4> QED BY <1>14, <4>1 DEF Late, Draining, Wake, callerVars
    <3> QED BY <1>14, <3>1, <3>2, <3>3 DEF Late, Draining, Wake, callerVars
  <2> QED BY <1>14, <2>1 DEF LateCannotEnd, Wake, jobVars
<1>15. ASSUME NEW w \in Workers, DrainStep(w) PROVE LateCannotEnd'
  <2>1. Late' = Late
    <3>1. \A v \in Workers : Draining(v)' = Draining(v)
      BY <1>15, DrainFrame DEF Draining
    <3> QED BY <1>15, <3>1, DrainFrame, LateUnchanged
  <2>2. /\ UNCHANGED <<active, pending, chunkCount>>
        /\ next' \in Nat /\ next' >= next
    BY <1>15, DrainFrame
  <2>3. next \in Nat /\ chunkCount \in Nat
    BY DEF JobTypeOK
  <2>4. next' < chunkCount' => next < chunkCount
    BY <2>2, <2>3
  <2> QED BY <2>1, <2>2, <2>4 DEF LateCannotEnd
<1>16. ASSUME NEW w \in Workers, Terminate(w) PROVE LateCannotEnd'
  <2>1. Late' = {}
    BY <1>16 DEF Terminate, Late, Draining, Resting
  <2>2. Cardinality(Late') = 0
    BY <2>1, FS_EmptySet
  <2> QED BY <1>16, <2>2, LateFinite DEF LateCannotEnd, Terminate, jobVars, JobTypeOK
<1>17. ASSUME NEW w \in Workers, Leave(w) PROVE LateCannotEnd'
  <2> SUFFICES ASSUME active', next' < chunkCount'
               PROVE  Cardinality(Late') < pending'
    BY DEF LateCannotEnd
  <2>1. active /\ next < chunkCount /\ pending' = pending - 1 /\ UNCHANGED <<jobNo, woke>>
    BY <1>17 DEF Leave
  <2>2. w \in Late
    <3>1. Draining(w) /\ ~(next >= chunkCount)
      BY <1>17, <2>1 DEF Leave, Draining, Resting, JobTypeOK
    <3> QED BY <1>17, <2>1, <3>1 DEF FreshInv, FreshOK, Late, Leave
  <2>3. Late' = Late \ {w}
    <3>1. /\ ~Draining(w)'
          /\ \A v \in Workers \ {w} : Draining(v)' = Draining(v)
      BY <1>17 DEF Leave, Goto, Draining, Resting, WorkerTypeOK
    <3> QED BY <2>1, <3>1 DEF Late
  <2>4. Cardinality(Late') = Cardinality(Late) - 1
    BY <2>2, <2>3, LateFinite, FS_RemoveElement
  <2> QED BY <2>1, <2>4, LateFinite DEF LateCannotEnd, JobTypeOK
<1>18. CASE UNCHANGED vars
  <2>1. Late' = Late
    BY <1>18, LateUnchanged DEF vars, Draining, workerVars, callerVars
  <2> QED BY <1>18, <2>1 DEF LateCannotEnd, vars, jobVars
<1>19. QED
  BY <1>1, <1>2, <1>3, <1>4, <1>5, <1>6, <1>7, <1>8, <1>9, <1>10, <1>11, <1>12,
     <1>13, <1>14, <1>15, <1>16, <1>17, <1>18 DEF Next, CallerStep, WorkerStep,
     Ended

(* So the decrement that ends the job finds all indices handed out.            *)
LEMMA HandedOutStepInv ==
  ASSUME TypeOK, CallerInv, WorkerInv, FreshInv,
         LateCannotEnd, HandedOut, [Next]_vars PROVE HandedOut'
<1> USE PoolAssumption DEF TypeOK, Workers, Jobs, NoJob
<1>1. ASSUME NEW n \in 1..Hardware, Reset(n) PROVE HandedOut'
  BY <1>1 DEF HandedOut, jobVars, callerVars, Reset
<1>2. CASE Call
  BY <1>2 DEF HandedOut, Armed, Call
<1>3. CASE Shutdown
  BY <1>3 DEF HandedOut, Armed, Shutdown
<1>4. CASE InlineChunk
  BY <1>4 DEF HandedOut, Armed, InlineChunk
<1>5. CASE InlineReturn
  BY <1>5 DEF HandedOut, Armed, InlineReturn
<1>6. CASE ArmFn
  BY <1>6 DEF HandedOut, Armed, ArmFn
<1>7. CASE ArmRange
  BY <1>7 DEF HandedOut, Armed, ArmRange
<1>8. CASE ArmNext
  BY <1>8 DEF HandedOut, Armed, ArmNext
<1>9. CASE ArmActive
  BY <1>9 DEF HandedOut, ArmActive
<1>10. CASE NotifyAll
  BY <1>10 DEF HandedOut, Armed, jobVars, NotifyAll
<1>11. CASE AwaitDone
  BY <1>11 DEF HandedOut, jobVars, AwaitDone
<1>12. CASE ReturnToCaller
  BY <1>12 DEF HandedOut, Armed, ReturnToCaller
<1>13. CASE Joined
  BY <1>13 DEF HandedOut, Armed, Joined
<1>14. ASSUME NEW w \in Workers, Wake(w) PROVE HandedOut'
  BY <1>14 DEF HandedOut, jobVars, callerVars, Wake
<1>15. ASSUME NEW w \in Workers, DrainStep(w) PROVE HandedOut'
  <2>1. JobChunks[jobNo] \in Nat \/ callerPc \notin Armed
    BY DEF CallerInv, InDispatch, Armed
  <2> QED BY <1>15, <2>1, DrainFrame DEF HandedOut, JobTypeOK
<1>16. ASSUME NEW w \in Workers, Terminate(w) PROVE HandedOut'
  BY <1>16 DEF HandedOut, Armed, Terminate
<1>17. ASSUME NEW w \in Workers, Leave(w) PROVE HandedOut'
  <2> SUFFICES ASSUME callerPc' \in Armed, ~active'
               PROVE  next' >= JobChunks[jobNo']
    BY DEF HandedOut
  <2>1. callerPc \in Armed /\ UNCHANGED <<next, jobNo>>
    BY <1>17 DEF Leave, Armed
  <2>2. CASE ~active
    BY <2>1, <2>2 DEF HandedOut
  <2>3. CASE active
    <3>1. pending = 1 /\ chunkCount = JobChunks[jobNo]
      BY <1>17, <2>1, <2>3 DEF Leave, CallerInv
    <3>2. ASSUME next < chunkCount PROVE FALSE
      <4>1. Cardinality(Late) = 0
        BY <2>3, <3>1, <3>2, LateFinite DEF LateCannotEnd
      <4>2. w \notin Late
        BY <4>1, LateFinite, FS_EmptySet
      <4>3. Draining(w)
        BY <1>17 DEF Leave, Draining, Resting
      <4> QED BY <1>17, <2>3, <3>2, <4>2, <4>3 DEF Late, FreshInv, FreshOK, Leave, JobTypeOK
    <3> QED BY <2>1, <3>1, <3>2 DEF JobTypeOK
  <2> QED BY <2>2, <2>3
<1>18. CASE UNCHANGED vars
  BY <1>18 DEF HandedOut, jobVars, callerVars, vars
<1>19. QED
  BY <1>1, <1>2, <1>3, <1>4, <1>5, <1>6, <1>7, <1>8, <1>9, <1>10, <1>11, <1>12,
     <1>13, <1>14, <1>15, <1>16, <1>17, <1>18 DEF Next, CallerStep, WorkerStep,
     Ended

-----------------------------------------------------------------------------
(* The fleet starts at rest.                                                 *)
LEMMA InitIInv == Init => IInv
<1> SUFFICES ASSUME Init PROVE IInv
  OBVIOUS
<1> USE PoolAssumption DEF Init, Workers, Jobs, NoJob
<1>1. TypeOK
  <2>1. JobTypeOK
    <3>1. active \in BOOLEAN /\ stop \in BOOLEAN
      BY Zenon
    <3>2. chunkCount \in Nat /\ next \in Nat /\ pending \in Int
      OBVIOUS
    <3> QED BY <3>1, <3>2 DEF JobTypeOK
  <2>4. CallerTypeOK
    BY DEF CallerTypeOK
  <2>2. WorkerTypeOK
    BY DEF WorkerTypeOK, Resting
  <2>3. ChunkTypeOK
    BY DEF ChunkTypeOK, Data
  <2> QED BY <2>1, <2>2, <2>3, <2>4 DEF TypeOK
<1>2. CallerInv
  BY DEF CallerInv, InDispatch, Arming, Armed
<1>3. WorkerInv
  BY DEF WorkerInv, WorkerOK, Arming
<1>4. FreshInv /\ SomeoneRests /\ LateCannotEnd /\ HandedOut
  BY DEF FreshInv, FreshOK, SomeoneRests, LateCannotEnd, HandedOut, Armed
<1> QED BY <1>1, <1>2, <1>3, <1>4 DEF IInv

(* IInv holds throughout: the theorems below read it off.                    *)
LEMMA Invariance == Spec => []IInv
<1>1. IInv /\ [Next]_vars => IInv'
  BY TypeStep, CallerStepInv, WorkerStepInv, FreshStepInv, RestStepInv, LateStepInv,
     HandedOutStepInv DEF IInv
<1> QED BY InitIInv, <1>1, PTL DEF Spec

(* Every variable of the pool keeps its type, whatever the threads do.        *)
THEOREM TypeCorrect == Spec => []TypeOK
BY Invariance, PTL DEF IInv

(* Late decrements alone never end a job whose chunks are not all handed out. *)
THEOREM LateNeverEnds == Spec => []LateCannotEnd
BY Invariance, PTL DEF IInv

(* parallel_for never returns before every chunk of its job was handed out by *)
(* next.fetch_add, for any fleet and any sequence of dispatches, late workers *)
(* of earlier dispatches included.                                            *)
THEOREM ReturnsAfterHandOut == Spec => []AllHandedOut
<1>1. IInv => AllHandedOut
  BY DEF IInv, HandedOut, AllHandedOut, Released, Armed
<1> QED BY Invariance, <1>1, PTL

(* With one worker the pool is the barrier its comments promise.              *)
THEOREM SoloBarrier ==
  ASSUME Hardware = 1
  PROVE  Spec => []Barrier
<1>1. IInv => Barrier
  <2> SUFFICES ASSUME IInv, Released, NEW w \in Workers PROVE ~Draining(w)
    BY DEF Barrier
  <2>1. CASE workerCount = 0
    BY <2>1 DEF IInv, WorkerInv, WorkerOK, Draining, Resting, Started
  <2>2. CASE workerCount > 0
    <3>1. PICK r \in Started : ~Draining(r)
      BY <2>2 DEF IInv, SomeoneRests, Released
    <3>2. w = 0 /\ r = 0
      BY <3>1 DEF IInv, TypeOK, CallerTypeOK, Workers, Started
    <3> QED BY <3>1, <3>2
  <2> QED BY <2>1, <2>2 DEF IInv, TypeOK, CallerTypeOK
<1> QED BY Invariance, <1>1, PTL

-----------------------------------------------------------------------------
(* Dropouts.  A second attempt at a chunk means that its index was dropped    *)
(* already, so a one-shot dropout cannot hit it again.                        *)
RetryInv ==
  /\ lost = {} /\ throws = 0
  /\ \A w \in Workers :
       /\ workerPc[w] \in {"capture", "run"} /\ attempt[w] # 0 =>
            attempt[w] = 1 /\ index[w] \in dropped
       /\ workerPc[w] = "failed" => attempt[w] = 0 /\ index[w] \in dropped

(* When a chunk is dropped once at most, its retries do not run out.         *)
LEMMA RetryStepInv ==
  ASSUME MaxThrows = 0, ~Persistent, Retries # 0,
         TypeOK, RetryInv, [Next]_vars
  PROVE  RetryInv'
<1> USE PoolAssumption DEF TypeOK, WorkerTypeOK, RetryInv, chunkVars, workerVars, Goto
<1>1. CASE UNCHANGED <<chunkVars, index, attempt>> /\ \A w \in Workers :
             workerPc'[w] = workerPc[w] \/ workerPc'[w] \notin {"capture", "run", "failed"}
  BY <1>1
<1>2. ASSUME NEW n \in 1..Hardware, Reset(n) PROVE RetryInv'
  BY <1>1, <1>2 DEF Reset
<1>3. CASE Call \/ InlineReturn \/ ArmFn \/ ArmRange \/ ArmNext \/ ArmActive \/ AwaitDone \/ Joined
  BY <1>1, <1>3 DEF Call, InlineReturn, ArmFn, ArmRange, ArmNext, ArmActive,
     AwaitDone, Joined
<1>4. CASE Shutdown \/ NotifyAll
  BY <1>1, <1>4 DEF Shutdown, NotifyAll
<1>5. CASE InlineChunk \/ ReturnToCaller
  BY <1>5 DEF InlineChunk, ReturnToCaller, ChunkTypeOK
<1>6. ASSUME NEW w \in Workers, Wake(w) \/ Claim(w) \/ Check(w) \/ Terminate(w) \/ Leave(w)
      PROVE  RetryInv'
  BY <1>1, <1>6 DEF Wake, Claim, Check, Terminate, Leave
<1>7. ASSUME NEW w \in Workers, Load(w) PROVE RetryInv'
  BY <1>7 DEF Load
<1>8. ASSUME NEW w \in Workers, Capture(w) \/ RunCompletes(w) PROVE RetryInv'
  BY <1>8 DEF Capture, RunCompletes
<1>9. ASSUME NEW w \in Workers, RunDropped(w) PROVE RetryInv'
  BY <1>9 DEF RunDropped, MayDrop
<1>10. ASSUME NEW w \in Workers, RunThrows(w) PROVE FALSE
  BY <1>10 DEF RunThrows
<1>11. ASSUME NEW w \in Workers, Recover(w) PROVE RetryInv'
  <2>1. attempt[w] = 0 /\ index[w] \in dropped /\ ~(attempt[w] + 1 > Retries)
    BY <1>11 DEF Recover
  <2>2. /\ attempt' = [attempt EXCEPT ![w] = 1]
        /\ workerPc' = [workerPc EXCEPT ![w] = "capture"]
        /\ UNCHANGED <<lost, throws, index, dropped>>
    BY <1>11, <2>1 DEF Recover
  <2> QED BY <2>1, <2>2
<1>12. CASE UNCHANGED vars
  BY <1>1, <1>12 DEF vars
<1> QED
  BY <1>2, <1>3, <1>4, <1>5, <1>6, <1>7, <1>8, <1>9, <1>10, <1>11, <1>12
  DEF Next, CallerStep, WorkerStep, DrainStep, Ended

(* A dropout that strikes each chunk index at most once never costs a chunk,  *)
(* as long as the pool retries at all and callables do not throw themselves.  *)
THEOREM OneShotDropoutHarmless ==
  ASSUME Retries # 0
  PROVE  Spec => []DropoutHarmless
<1>1. CASE MaxThrows = 0 /\ ~Persistent
  <2>1. Init => RetryInv
    BY DEF Init, RetryInv
  <2>2. TypeOK /\ RetryInv /\ [Next]_vars => RetryInv'
    BY <1>1, RetryStepInv
  <2>3. RetryInv => DropoutHarmless
    BY DEF RetryInv, DropoutHarmless
  <2> QED BY <2>1, <2>2, <2>3, TypeCorrect, PTL DEF Spec
<1>2. CASE ~(MaxThrows = 0 /\ ~Persistent)
  <2>1. DropoutHarmless
    BY <1>2 DEF DropoutHarmless
  <2> QED BY <2>1, PTL
<1> QED BY <1>1, <1>2

-----------------------------------------------------------------------------
(***************************************************************************)
(* What becomes of the chunks of a dispatch.  A worker that is late, left  *)
(* over from an earlier dispatch, can take a chunk that another one has    *)
(* (UniqueClaims fails then), so everything here is about pools in which   *)
(* nobody is late: those with one worker, for any number of dispatches,    *)
(* and those of any size in their first dispatch.                          *)
(*                                                                         *)
(* With one worker the pool is the bulk-synchronous dispatcher of module   *)
(* Dispatch, for any sequence of jobs, hooks, dropouts and exceptions.     *)
(***************************************************************************)

NobodyLate == Hardware = 1 \/ MaxJobs = 1

\* Workers in the loop of drain_chunks that have an index; some have its chunk.
HasIndex(w) == workerPc[w] \in {"check", "load", "capture", "run", "failed"}
Engaged(w)  == workerPc[w] \in {"capture", "run", "failed"}

(* Workers that drain woke for the current job, which is still armed.        *)
OnTime ==
  \A w \in Workers : Draining(w) =>
    /\ jobNo \in Jobs /\ woke[w] = jobNo /\ chunkCount = JobChunks[jobNo]
    /\ callerPc # "inline"

(* What is published is of the current job, or nothing.                      *)
Published ==
  /\ callerPc \in {"idle", "inline", "armFn", "join", "gone"} =>
       fn = NoJob /\ hooks = NoJob /\ onFailure = "none"
  /\ callerPc \in Arming => hooks = NoJob
  /\ callerPc \in {"armRange", "armNext", "armActive"} \cup Armed =>
       onFailure = JobKind[jobNo].restore
  /\ callerPc \in Armed => hooks = IF JobKind[jobNo].ops THEN jobNo ELSE NoJob

(* No two workers have the same index, and the counter is beyond them all.   *)
IndicesApart ==
  \A w \in Workers : HasIndex(w) =>
    /\ index[w] < next
    /\ workerPc[w] # "check" => index[w] \in ChunksOf(jobNo)
    /\ Engaged(w) => local[w] = jobNo
    /\ \A v \in Workers \ {w} : HasIndex(v) => index[v] # index[w]

\* Nothing has been done with a chunk.
Fresh(j, i) == data[j][i] = "in" /\ claims[j][i] = 0 /\ <<j, i>> \notin lost

\* The fleet works on the current job.
Fleet == callerPc \in Armed \/ \E w \in Workers : Draining(w)

\* Chunks nobody has taken up yet.
Ahead(j, i) ==
  \/ j > jobNo
  \/ /\ j = jobNo
     /\ \/ callerPc \in Arming
        \/ callerPc = "inline" /\ i >= cursor
        \/ Fleet /\ i >= next
        \/ \E w \in Workers : workerPc[w] \in {"check", "load"} /\ index[w] = i

AheadFresh == \A j \in Jobs : \A i \in ChunksOf(j) : Ahead(j, i) => Fresh(j, i)

(* The chunk a worker is engaged with is not settled.                        *)
EngagedOpen ==
  \A w \in Workers : Engaged(w) =>
    data[jobNo][index[w]] \in {"in", "dirty"} /\ <<jobNo, index[w]>> \notin lost

(* While hooks and restore callback are published, an attempt starts from    *)
(* the input, and the snapshot holds the input.                              *)
Restorable ==
  (hooks # NoJob /\ onFailure = "set") =>
    \A w \in Workers :
      /\ workerPc[w] \in {"capture", "run"} => data[hooks][index[w]] = "in"
      /\ workerPc[w] \in {"run", "failed"} => snap[hooks][index[w]] = "in"

\* What a caller would call done or given up.
Settled(j, i) == <<j, i>> \in lost \/ data[j][i] \in {"out", "bad"}

(* Chunks behind the counter are settled, or a worker has them.              *)
BehindSettled ==
  /\ callerPc = "inline" =>
       cursor <= JobChunks[jobNo] /\ \A i \in 0..(cursor - 1) : Settled(jobNo, i)
  /\ callerPc = "armActive" => next = 0
  /\ callerPc \in Armed =>
       \A i \in ChunksOf(jobNo) : i < next =>
         Settled(jobNo, i) \/ \E w \in Workers : HasIndex(w) /\ index[w] = i

ClaimInv == OnTime /\ Published /\ IndicesApart /\ AheadFresh /\ UniqueClaims
WorkInv  == EngagedOpen /\ Restorable /\ RestoredOrDone /\ BehindSettled

-----------------------------------------------------------------------------
(* Nobody drains while a job is armed or runs inline.                        *)
LEMMA Quiet ==
  ASSUME IInv, OnTime, NEW w \in Workers, callerPc \in Arming \cup {"inline", "aborted"}
  PROVE  ~Draining(w)
<1> SUFFICES ASSUME Draining(w) PROVE FALSE
  OBVIOUS
<1>1. callerPc # "inline" /\ woke[w] = jobNo /\ jobNo \in Nat
  BY DEF OnTime, Jobs
<1>2. WorkerOK(w)
  BY DEF IInv, WorkerInv
<1> QED BY <1>1, <1>2 DEF WorkerOK, Draining, Resting

(* Nor when a job is about to begin.                                         *)
LEMMA QuietCall ==
  ASSUME IInv, OnTime, NobodyLate, Call, NEW w \in Workers
  PROVE  ~Draining(w)
<1> SUFFICES ASSUME Draining(w) PROVE FALSE
  OBVIOUS
<1> USE PoolAssumption DEF IInv, TypeOK, CallerTypeOK
<1>1. ~active /\ jobNo < MaxJobs
  BY DEF Call, CallerInv, Armed
<1>2. CASE MaxJobs = 1
  BY <1>1, <1>2 DEF OnTime, Jobs
<1>3. CASE Hardware = 1
  <2>1. w \in Started
    BY DEF WorkerInv, WorkerOK, Draining, Resting
  <2>2. workerCount > 0
    BY <2>1 DEF Started, Workers
  <2>3. PICK r \in Started : ~Draining(r)
    BY <1>1, <2>2 DEF SomeoneRests
  <2>4. r = 0 /\ w = 0
    BY <1>3, <2>3 DEF Started, Workers
  <2> QED BY <2>3, <2>4
<1> QED BY <1>2, <1>3 DEF NobodyLate

(* Nobody left over from an earlier job enters the loop of this one.         *)
LEMMA OnTimeStep ==
  ASSUME IInv, OnTime, NobodyLate, [Next]_vars
  PROVE  OnTime'
<1> USE PoolAssumption DEF OnTime, Draining, Resting
<1>1. ASSUME NEW n \in 1..Hardware, Reset(n) PROVE OnTime'
  BY <1>1 DEF Reset, jobVars, callerVars, Workers
<1>2. CASE Call
  BY <1>2, QuietCall DEF Call, workerVars
<1>3. CASE ArmFn \/ ArmRange \/ ArmNext \/ ArmActive \/ InlineChunk \/ InlineReturn
  BY <1>3, Quiet DEF ArmFn, ArmRange, ArmNext, ArmActive, InlineChunk, InlineReturn,
     Arming, workerVars
<1>4. CASE NotifyAll \/ Shutdown
  BY <1>4 DEF NotifyAll, Shutdown, jobVars, workerVars
<1>5. CASE AwaitDone \/ ReturnToCaller \/ Joined
  BY <1>5 DEF AwaitDone, ReturnToCaller, Joined, jobVars, workerVars
<1>6. ASSUME NEW w \in Workers, Wake(w) PROVE OnTime'
  <2>1. UNCHANGED <<jobNo, chunkCount, callerPc>> /\ workerPc[w] = "wait"
    BY <1>6 DEF Wake, callerVars, jobVars
  <2>2. active => callerPc \in Armed
    BY <2>1 DEF IInv, CallerInv, WorkerInv, WorkerOK
  <2>3. active => jobNo \in Jobs /\ chunkCount = JobChunks[jobNo] /\ callerPc # "inline"
    BY <2>2 DEF IInv, CallerInv, InDispatch, Armed
  <2>4. \A v \in Workers \ {w} : workerPc'[v] = workerPc[v] /\ woke'[v] = woke[v]
    BY <1>6 DEF Wake, Goto, IInv, TypeOK, WorkerTypeOK
  <2>5. workerPc'[w] \notin Resting => active /\ woke'[w] = jobNo
    BY <1>6 DEF Wake, Goto, IInv, TypeOK, WorkerTypeOK
  <2> QED BY <2>1, <2>3, <2>4, <2>5
<1>7. ASSUME NEW w \in Workers, DrainStep(w) PROVE OnTime'
  <2>1. /\ UNCHANGED <<callerPc, jobNo, chunkCount, woke>> /\ Draining(w)
        /\ \A v \in Workers \ {w} : workerPc'[v] = workerPc[v]
    BY <1>7, DrainFrame DEF IInv
  <2> QED BY <2>1
<1>8. ASSUME NEW w \in Workers, Terminate(w) PROVE OnTime'
  BY <1>8 DEF Terminate
<1>9. ASSUME NEW w \in Workers, Leave(w) PROVE OnTime'
  BY <1>9 DEF Leave, Goto, IInv, TypeOK, WorkerTypeOK
<1>10. CASE UNCHANGED vars
  BY <1>10 DEF vars, jobVars, callerVars, workerVars
<1> QED BY <1>1, <1>2, <1>3, <1>4, <1>5, <1>6, <1>7, <1>8, <1>9, <1>10
        DEF Next, CallerStep, WorkerStep, Ended

(* The job is published before an index of it is handed out.                 *)
LEMMA PublishedStep ==
  ASSUME IInv, Published, [Next]_vars
  PROVE  Published'
<1> USE DEF Published, Arming, Armed
<1>1. ASSUME NEW n \in 1..Hardware, Reset(n) PROVE Published'
  BY <1>1 DEF Reset, jobVars, callerVars
<1>2. CASE Call \/ InlineChunk \/ InlineReturn \/ Shutdown
  BY <1>2 DEF Call, InlineChunk, InlineReturn, Shutdown, jobVars
<1>3. CASE ArmFn \/ ArmRange \/ ArmNext
  BY <1>3 DEF ArmFn, ArmRange, ArmNext
<1>4. CASE ArmActive
  BY <1>4 DEF ArmActive
<1>5. CASE NotifyAll \/ AwaitDone \/ ReturnToCaller \/ Joined
  BY <1>5 DEF NotifyAll, AwaitDone, ReturnToCaller, Joined, jobVars
<1>6. ASSUME NEW w \in Workers, Wake(w) \/ DrainStep(w) PROVE Published'
  <2>1. UNCHANGED <<callerPc, jobNo, fn, hooks, onFailure>>
    BY <1>6 DEF Wake, DrainStep, Claim, Check, Load, Capture, RunCompletes, RunDropped,
       RunThrows, Recover, jobVars, callerVars
  <2> QED BY <2>1
<1>7. ASSUME NEW w \in Workers, Terminate(w) PROVE Published'
  BY <1>7 DEF Terminate
<1>8. ASSUME NEW w \in Workers, Leave(w) PROVE Published'
  BY <1>8 DEF Leave
<1>9. CASE UNCHANGED vars
  BY <1>9 DEF vars, jobVars, callerVars
<1> QED BY <1>1, <1>2, <1>3, <1>4, <1>5, <1>6, <1>7, <1>8, <1>9
        DEF Next, CallerStep, WorkerStep, Ended

-----------------------------------------------------------------------------
(* The tables have a row for every chunk: the longest dispatch has one.      *)
LEMMA ChunksAreIndexed ==
  ASSUME NEW j \in Jobs
  PROVE  ChunksOf(j) \subseteq Indices
<1> USE PoolAssumption DEF Jobs
<1> SUFFICES ASSUME NEW i \in ChunksOf(j) PROVE i \in Indices
  OBVIOUS
<1>1. PICK l \in 1..MaxJobs : \A k \in 1..MaxJobs : JobChunks[k] <= JobChunks[l]
  <2>1. MaxJobs \in Nat \ {0} /\ \A k \in 1..MaxJobs : JobChunks[k] \in Int
    OBVIOUS
  <2> QED BY <2>1, GreatestValue
<1> DEFINE Lasts == {JobChunks[k] - 1 : k \in Jobs}
           Top(m) == \A k \in Jobs : JobChunks[k] - 1 <= m
           top == CHOOSE m \in Lasts : Top(m)
<1>2. JobChunks[j] - 1 <= top /\ top \in Int
  <2>1. JobChunks[l] - 1 \in Lasts /\ Top(JobChunks[l] - 1)
    BY <1>1
  <2>2. \E m \in Lasts : Top(m)
    BY <2>1
  <2>3. top \in Lasts /\ Top(top)
    <3> HIDE DEF Lasts, Top
    <3> QED BY <2>2
  <2> HIDE DEF top
  <2> QED BY <2>3
<1>3. i \in Nat /\ i <= JobChunks[j] - 1 /\ JobChunks[j] # 0
  BY DEF ChunksOf
<1>4. Indices = 0..top
  BY <1>3 DEF Indices
<1> QED BY <1>2, <1>3, <1>4

(* What a worker finds published is of the job it woke for.                  *)
LEMMA SeesItsJob ==
  ASSUME IInv, OnTime, Published, NEW w \in Workers, Draining(w)
  PROVE  /\ jobNo \in Jobs /\ fn \in {jobNo, NoJob} /\ hooks \in {jobNo, NoJob}
         /\ chunkCount = JobChunks[jobNo]
         /\ callerPc \in Armed \cup {"idle", "join", "gone"}
         /\ callerPc \in Armed => fn = jobNo
<1>1. callerPc \notin Arming \cup {"inline", "aborted"}
  BY Quiet
<1>2. callerPc \in Armed \cup {"idle", "join", "gone"}
  BY <1>1 DEF IInv, TypeOK, CallerTypeOK, Arming, Armed
<1>3. callerPc \in Armed => fn = jobNo
  BY DEF IInv, CallerInv
<1> QED BY <1>2, <1>3 DEF OnTime, Published

(* The counter gives an index to one worker only.                            *)
LEMMA IndicesStep ==
  ASSUME IInv, OnTime, Published, IndicesApart, NobodyLate, [Next]_vars
  PROVE  IndicesApart'
<1> USE PoolAssumption DEF IndicesApart, HasIndex, Engaged, ChunksOf, IInv, TypeOK, JobTypeOK,
        WorkerTypeOK, Goto
<1>1. CASE /\ UNCHANGED <<index, local, next, jobNo>>
           /\ \A w \in Workers : HasIndex(w)' => workerPc'[w] = workerPc[w]
  BY <1>1
<1>2. CASE /\ \A w \in Workers : ~Draining(w) /\ workerPc'[w] = workerPc[w]
  BY <1>2 DEF Draining, Resting
<1>3. ASSUME NEW n \in 1..Hardware, Reset(n) PROVE IndicesApart'
  BY <1>1, <1>3 DEF Reset, jobVars, callerVars
<1>4. CASE Call
  BY <1>2, <1>4, QuietCall DEF Call, workerVars
<1>5. CASE ArmFn \/ ArmRange \/ ArmNext \/ ArmActive
  BY <1>2, <1>5, Quiet DEF ArmFn, ArmRange, ArmNext, ArmActive, Arming, workerVars
<1>6. CASE InlineChunk \/ InlineReturn \/ NotifyAll \/ Shutdown
  <2>1. UNCHANGED <<index, local, next, jobNo>>
    BY <1>6 DEF InlineChunk, InlineReturn, NotifyAll, Shutdown, jobVars, workerVars
  <2>2. \/ workerPc' = workerPc
        \/ workerPc' = [w \in Workers |->
                          IF workerPc[w] = "asleep" THEN "wait" ELSE workerPc[w]]
    BY <1>6 DEF InlineChunk, InlineReturn, NotifyAll, Shutdown, workerVars
  <2> QED BY <1>1, <2>1, <2>2
<1>7. CASE AwaitDone \/ ReturnToCaller \/ Joined
  BY <1>1, <1>7 DEF AwaitDone, ReturnToCaller, Joined, jobVars, workerVars
<1>8. ASSUME NEW w \in Workers, Wake(w) \/ Terminate(w) \/ Leave(w) PROVE IndicesApart'
  BY <1>1, <1>8 DEF Wake, Terminate, Leave, jobVars, callerVars
<1>9. ASSUME NEW w \in Workers, Claim(w) PROVE IndicesApart'
  BY <1>9 DEF Claim, callerVars
<1>10. ASSUME NEW w \in Workers, Check(w) PROVE IndicesApart'
  <2>1. chunkCount = JobChunks[jobNo] /\ jobNo \in Jobs
    BY <1>10, SeesItsJob DEF Check, Draining, Resting
  <2> QED BY <1>10, <2>1 DEF Check, callerVars, jobVars, Jobs
<1>11. ASSUME NEW w \in Workers, Load(w) PROVE IndicesApart'
  <2>1. fn \in {jobNo, NoJob}
    BY <1>11, SeesItsJob DEF Load, Draining, Resting
  <2> QED BY <1>11, <2>1 DEF Load, callerVars, jobVars
<1>12. ASSUME NEW w \in Workers,
              Capture(w) \/ RunCompletes(w) \/ RunDropped(w) \/ RunThrows(w) \/ Recover(w)
       PROVE  IndicesApart'
  <2>1. UNCHANGED <<index, local, next, jobNo>> /\ Engaged(w)
    BY <1>12 DEF Capture, RunCompletes, RunDropped, RunThrows, Recover, callerVars, jobVars
  <2>2. /\ \A v \in Workers \ {w} : workerPc'[v] = workerPc[v]
        /\ workerPc'[w] \in {"run", "claim", "failed", "capture"}
    BY <1>12 DEF Capture, RunCompletes, RunDropped, RunThrows, Recover
  <2> QED BY <2>1, <2>2
<1>13. CASE UNCHANGED vars
  BY <1>1, <1>13 DEF vars, jobVars, callerVars, workerVars
<1> QED BY <1>3, <1>4, <1>5, <1>6, <1>7, <1>8, <1>9, <1>10, <1>11, <1>12, <1>13
        DEF Next, CallerStep, WorkerStep, DrainStep, Ended

-----------------------------------------------------------------------------
(* A worker touches its own chunk of the current job and no other.           *)
LEMMA DrainTouches ==
  ASSUME IInv, OnTime, Published, IndicesApart, NEW w \in Workers, DrainStep(w),
         NEW j \in Jobs, NEW i \in Indices, j # jobNo \/ i # index[w]
  PROVE  /\ data'[j][i] = data[j][i] /\ snap'[j][i] = snap[j][i]
         /\ claims'[j][i] = claims[j][i] /\ (<<j, i>> \in lost' <=> <<j, i>> \in lost)
<1> USE DEF IInv, TypeOK, ChunkTypeOK
<1>1. Draining(w)
  BY DrainFrame
<1>2. fn \in {jobNo, NoJob} /\ hooks \in {jobNo, NoJob}
  BY <1>1, SeesItsJob
<1>3. Engaged(w) => local[w] = jobNo
  BY DEF IndicesApart, Engaged, HasIndex
<1>4. CASE Claim(w) \/ Check(w) \/ RunDropped(w)
  BY <1>4 DEF Claim, Check, RunDropped, chunkVars
<1>5. CASE Load(w)
  BY <1>2, <1>5 DEF Load
<1>6. CASE Capture(w)
  BY <1>2, <1>6 DEF Capture
<1>7. CASE RunCompletes(w)
  BY <1>3, <1>7 DEF RunCompletes, Engaged
<1>8. CASE RunThrows(w)
  BY <1>3, <1>8 DEF RunThrows, Engaged
<1>9. CASE Recover(w)
  <2>1. local[w] = jobNo
    BY <1>3, <1>9 DEF Recover, Engaged
  <2>2. UNCHANGED <<snap, claims>> /\ data' = Restored(w)
        /\ lost' \in {lost, lost \cup {<<local[w], index[w]>>}}
    BY <1>9 DEF Recover
  <2>3. data'[j][i] = data[j][i]
    BY <1>2, <2>2 DEF Restored
  <2> QED BY <2>1, <2>2, <2>3
<1> QED BY <1>4, <1>5, <1>6, <1>7, <1>8, <1>9 DEF DrainStep

(* A chunk nobody has taken up yet is as the caller handed it over.          *)
LEMMA AheadStep ==
  ASSUME IInv, OnTime, Published, IndicesApart, AheadFresh, NobodyLate, [Next]_vars
  PROVE  AheadFresh'
<1> DEFINE Same(j, i) == /\ data'[j][i] = data[j][i]
                         /\ claims'[j][i] = claims[j][i]
                         /\ (<<j, i>> \in lost' <=> <<j, i>> \in lost)
           Kept == \A j \in Jobs : \A i \in ChunksOf(j) : Ahead(j, i)' => Ahead(j, i) /\ Same(j, i)
           Looks(w) == workerPc[w] \in {"check", "load"}
           Still == UNCHANGED <<jobNo, data, claims, lost>>
<1> SUFFICES Kept
  BY DEF AheadFresh, Fresh
<1>1. \A j \in Jobs : \A i \in ChunksOf(j) : j \in Nat /\ i \in Nat /\ i \in Indices
  BY ChunksAreIndexed DEF Jobs, ChunksOf
<1>2. jobNo \in Nat /\ next \in Nat /\ cursor \in Nat
  BY PoolAssumption DEF IInv, TypeOK, JobTypeOK, CallerTypeOK
<1>3. ASSUME Still, next' = next, Fleet' => Fleet,
             callerPc' \in Arming \cup {"inline"} => callerPc' = callerPc /\ cursor' = cursor,
             \A w \in Workers : Looks(w)' => Looks(w) /\ index'[w] = index[w]
      PROVE  Kept
  BY <1>3 DEF Ahead
<1>4. ASSUME NEW n \in 1..Hardware, Reset(n) PROVE Kept
  <2>1. /\ Still /\ UNCHANGED <<next, index, callerPc, cursor>>
        /\ workerPc' = [w \in Workers |->
                    IF w \in Started \/ w >= n THEN workerPc[w] ELSE "wait"]
    BY <1>4 DEF Reset, jobVars, callerVars, chunkVars
  <2>2. \A w \in Workers : workerPc'[w] \in {workerPc[w], "wait"}
    BY <2>1
  <2>3. Fleet' => Fleet
    BY <2>1, <2>2 DEF Fleet, Draining, Resting
  <2> HIDE DEF Kept
  <2> QED BY <1>3, <2>1, <2>2, <2>3
<1>5. CASE Call
  <2>1. jobNo' = jobNo + 1 /\ UNCHANGED <<data, claims, lost>>
    BY <1>5 DEF Call, chunkVars
  <2> QED BY <1>1, <1>2, <2>1 DEF Ahead
<1>6. CASE InlineChunk \/ InlineReturn
  <2>1. /\ callerPc = "inline" /\ callerPc' \in {"inline", "idle"}
        /\ UNCHANGED <<jobNo, lost, workerPc>>
    BY <1>6 DEF InlineChunk, InlineReturn, chunkVars, workerVars
  <2>2. \A w \in Workers : ~Draining(w)
    BY <2>1, Quiet
  <2>3. ASSUME NEW j \in Jobs, NEW i \in ChunksOf(j), Ahead(j, i)'
        PROVE  j > jobNo \/ (j = jobNo /\ callerPc' = "inline" /\ i >= cursor')
    <3>1. ~Fleet'
      BY <2>1, <2>2 DEF Fleet, Draining, Armed
    <3>2. \A w \in Workers : ~Looks(w)'
      BY <2>1, <2>2 DEF Draining, Resting
    <3> QED BY <2>1, <2>3, <3>1, <3>2 DEF Ahead, Arming
  <2>4. CASE InlineReturn
    BY <2>1, <2>3, <2>4 DEF InlineReturn, Ahead, chunkVars
  <2>5. CASE InlineChunk
    <3>1. \A j \in Jobs : \A i \in Indices : j # jobNo \/ i # cursor => Same(j, i)
      BY <2>1, <2>5 DEF InlineChunk, IInv, TypeOK, ChunkTypeOK
    <3>2. callerPc' = "inline" => cursor' = cursor + 1
      BY <2>5 DEF InlineChunk
    <3>3. ASSUME NEW j \in Jobs, NEW i \in ChunksOf(j), Ahead(j, i)'
          PROVE  Ahead(j, i) /\ (j # jobNo \/ i # cursor)
      BY <1>1, <1>2, <2>1, <2>3, <3>2, <3>3 DEF Ahead
    <3> QED BY <1>1, <3>1, <3>3
  <2> QED BY <1>6, <2>4, <2>5
<1>7. CASE ArmFn \/ ArmRange \/ ArmNext \/ ArmActive
  <2>1. callerPc \in Arming /\ Still
    BY <1>7 DEF ArmFn, ArmRange, ArmNext, ArmActive, Arming, chunkVars
  <2> QED BY <2>1 DEF Ahead
<1>8. CASE NotifyAll \/ Shutdown
  <2>1. /\ Still /\ UNCHANGED <<next, index>>
        /\ callerPc' \in {"wait", "join"} /\ (callerPc' = "wait" => callerPc = "notify")
        /\ workerPc' = [w \in Workers |-> IF workerPc[w] = "asleep" THEN "wait" ELSE workerPc[w]]
    BY <1>8 DEF NotifyAll, Shutdown, jobVars, chunkVars
  <2>2. \A w \in Workers : workerPc'[w] \in {workerPc[w], "wait"}
    BY <2>1
  <2>3. Fleet' => Fleet
    BY <2>1, <2>2 DEF Fleet, Draining, Resting, Armed
  <2> HIDE DEF Kept
  <2> QED BY <1>3, <2>1, <2>2, <2>3 DEF Arming
<1>9. CASE AwaitDone \/ ReturnToCaller \/ Joined
  <2>1. /\ Still /\ UNCHANGED <<next, index, workerPc>>
        /\ callerPc' \in {"asleep", "idle", "gone"} /\ (callerPc' = "asleep" => callerPc = "wait")
    BY <1>9 DEF AwaitDone, ReturnToCaller, Joined, jobVars, chunkVars, workerVars
  <2>2. Fleet' => Fleet
    BY <2>1 DEF Fleet, Draining, Armed
  <2> HIDE DEF Kept
  <2> QED BY <1>3, <2>1, <2>2 DEF Arming
<1>10. ASSUME NEW w \in Workers, Wake(w) PROVE Kept
  <2>1. /\ workerPc[w] = "wait" /\ Still /\ UNCHANGED <<callerPc, cursor, next, index>>
        /\ \E pc \in {"exit", "claim", "asleep"} :
             workerPc' = [workerPc EXCEPT ![w] = pc] /\ (pc = "claim" => active)
    BY <1>10 DEF Wake, Goto, jobVars, callerVars, chunkVars
  <2>2. \A v \in Workers : \/ workerPc'[v] = workerPc[v]
                           \/ workerPc'[v] \in {"exit", "asleep"}
                           \/ workerPc'[v] = "claim" /\ active
    BY <2>1 DEF IInv, TypeOK, WorkerTypeOK
  <2>3. active => callerPc \in Armed
    BY <2>1 DEF IInv, CallerInv, WorkerInv, WorkerOK
  <2>4. Fleet' => Fleet
    BY <2>1, <2>2, <2>3 DEF Fleet, Draining, Resting
  <2> HIDE DEF Kept
  <2> QED BY <1>3, <2>1, <2>2, <2>4
<1>11. ASSUME NEW w \in Workers, Leave(w) PROVE Kept
  <2>1. /\ workerPc[w] = "leave" /\ Still /\ UNCHANGED <<cursor, next, index>>
        /\ callerPc' \in {callerPc, "wait"}
        /\ workerPc' = [workerPc EXCEPT ![w] = "wait"]
    BY <1>11 DEF Leave, Goto, chunkVars
  <2>2. \A v \in Workers : workerPc'[v] \in {workerPc[v], "wait"}
    BY <2>1 DEF IInv, TypeOK, WorkerTypeOK
  <2>3. Fleet
    BY <2>1 DEF Fleet, Draining, Resting
  <2> HIDE DEF Kept
  <2> QED BY <1>3, <2>1, <2>2, <2>3 DEF Arming
<1>12. ASSUME NEW w \in Workers, Terminate(w) PROVE Kept
  <2>1. callerPc' = "aborted" /\ Still /\ \A v \in Workers : workerPc'[v] = "exit"
    BY <1>12 DEF Terminate, chunkVars
  <2>2. ~Fleet' /\ \A v \in Workers : ~Looks(v)'
    BY <2>1 DEF Fleet, Draining, Resting, Armed
  <2> QED BY <2>1, <2>2 DEF Ahead, Arming
<1>13. ASSUME NEW w \in Workers, DrainStep(w) PROVE Kept
  <2>1. /\ Draining(w) /\ UNCHANGED <<callerPc, jobNo>>
        /\ \A v \in Workers \ {w} : workerPc'[v] = workerPc[v] /\ index'[v] = index[v]
    BY <1>13, DrainFrame DEF IInv
  <2>2. Fleet /\ callerPc \notin Arming \cup {"inline"}
    BY <2>1, Quiet DEF Fleet
  <2>3. CASE Claim(w)
    <3>1. next' = next + 1 /\ index'[w] = next /\ UNCHANGED <<data, claims, lost>>
      BY <2>3 DEF Claim, chunkVars, IInv, TypeOK, WorkerTypeOK
    <3>2. \A v \in Workers \ {w} : Looks(v)' <=> Looks(v)
      BY <2>1
    <3> QED BY <1>1, <1>2, <2>1, <2>2, <3>1, <3>2 DEF Ahead
  <2>4. CASE Check(w)
    <3>1. workerPc[w] = "check" /\ UNCHANGED <<next, index, data, claims, lost>>
      BY <2>4 DEF Check, jobVars, chunkVars
    <3>2. \A v \in Workers : Looks(v)' => Looks(v)
      BY <2>1, <3>1
    <3> HIDE DEF Kept
    <3> QED BY <1>3, <2>1, <2>2, <3>1, <3>2
  <2>5. CASE ~Claim(w) /\ ~Check(w)
    <3>1. /\ HasIndex(w) /\ UNCHANGED <<next, index>> /\ ~Looks(w)'
      BY <1>13, <2>5 DEF DrainStep, Load, Capture, RunCompletes, RunDropped, RunThrows, Recover,
         jobVars, Goto, HasIndex, IInv, TypeOK, WorkerTypeOK
    <3>2. index[w] < next /\ \A v \in Workers \ {w} : HasIndex(v) => index[v] # index[w]
      BY <3>1 DEF IndicesApart
    <3>3. \A v \in Workers : Looks(v)' => v # w /\ Looks(v) /\ HasIndex(v)
      BY <2>1, <3>1 DEF HasIndex
    <3>4. index[w] \in Nat
      BY DEF IInv, TypeOK, WorkerTypeOK
    <3>5. ASSUME NEW j \in Jobs, NEW i \in ChunksOf(j), Ahead(j, i)'
          PROVE  Ahead(j, i) /\ (j # jobNo \/ i # index[w])
      <4>1. CASE j > jobNo
        BY <1>1, <1>2, <4>1 DEF Ahead
      <4>2. CASE j = jobNo /\ i >= next
        BY <1>1, <1>2, <2>2, <3>2, <3>4, <4>2 DEF Ahead
      <4>3. CASE j = jobNo /\ \E v \in Workers : Looks(v)' /\ index'[v] = i
        BY <3>1, <3>2, <3>3, <4>3 DEF Ahead
      <4> QED BY <2>1, <2>2, <3>1, <3>5, <4>1, <4>2, <4>3 DEF Ahead
    <3> QED BY <1>1, <1>13, <3>5, DrainTouches
  <2> QED BY <2>3, <2>4, <2>5
<1>14. CASE UNCHANGED vars
  BY <1>14 DEF vars, jobVars, callerVars, workerVars, chunkVars, Ahead, Fleet, Draining
<1> HIDE DEF Kept
<1> QED BY <1>4, <1>5, <1>6, <1>7, <1>8, <1>9, <1>10, <1>11, <1>12, <1>13, <1>14
        DEF Next, CallerStep, WorkerStep, Ended

(* A worker with a fresh index, and the caller's thread at its cursor, hold  *)
(* a chunk nobody has touched.                                               *)
LEMMA FreshOnArrival ==
  ASSUME IInv, OnTime, IndicesApart, AheadFresh
  PROVE  /\ \A w \in Workers : workerPc[w] = "load" => Fresh(jobNo, index[w])
         /\ callerPc = "inline" /\ cursor < JobChunks[jobNo] => Fresh(jobNo, cursor)
<1>1. ASSUME NEW w \in Workers, workerPc[w] = "load" PROVE Fresh(jobNo, index[w])
  <2>1. index[w] \in ChunksOf(jobNo)
    BY <1>1 DEF IndicesApart, HasIndex
  <2>2. jobNo \in Jobs
    BY <1>1 DEF OnTime, Draining, Resting
  <2> QED BY <1>1, <2>1, <2>2 DEF AheadFresh, Ahead
<1>2. ASSUME callerPc = "inline", cursor < JobChunks[jobNo] PROVE Fresh(jobNo, cursor)
  <2>1. jobNo \in Jobs /\ cursor \in Nat
    BY <1>2 DEF IInv, CallerInv, InDispatch, TypeOK, CallerTypeOK
  <2>2. cursor \in ChunksOf(jobNo)
    BY <1>2, <2>1, PoolAssumption DEF ChunksOf, Jobs
  <2> QED BY <1>2, <2>1, <2>2 DEF AheadFresh, Ahead
<1> QED BY <1>1, <1>2

(* An index handed out names a chunk nobody has claimed.                     *)
LEMMA ClaimsStep ==
  ASSUME IInv, OnTime, Published, IndicesApart, AheadFresh, UniqueClaims, [Next]_vars
  PROVE  UniqueClaims'
<1> SUFFICES ASSUME NEW j \in Jobs, NEW i \in ChunksOf(j) PROVE claims'[j][i] <= 1
  BY DEF UniqueClaims, ChunksOf
<1>1. i \in Indices /\ claims[j][i] \in Nat /\ claims[j][i] <= 1
  BY ChunksAreIndexed DEF UniqueClaims, IInv, TypeOK, ChunkTypeOK
<1>2. CASE claims' = claims
  BY <1>1, <1>2
<1>3. CASE InlineChunk
  <2>1. claims' = [claims EXCEPT ![jobNo][cursor] = @ + 1]
    BY <1>3 DEF InlineChunk
  <2>2. claims[jobNo][cursor] = 0
    BY <1>3, FreshOnArrival DEF Fresh, InlineChunk
  <2> QED BY <1>1, <2>1, <2>2 DEF IInv, TypeOK, ChunkTypeOK
<1>4. ASSUME NEW w \in Workers, Load(w) PROVE claims'[j][i] <= 1
  <2>1. workerPc[w] = "load" /\ (fn = NoJob \/ fn = jobNo)
    BY <1>4, SeesItsJob DEF Load, Draining, Resting
  <2>2. claims' = claims \/ claims' = [claims EXCEPT ![jobNo][index[w]] = @ + 1]
    BY <1>4, <2>1 DEF Load
  <2>3. claims[jobNo][index[w]] = 0
    BY <2>1, FreshOnArrival DEF Fresh
  <2> QED BY <1>1, <2>2, <2>3 DEF IInv, TypeOK, ChunkTypeOK
<1>5. CASE \/ \E n \in 1..Hardware : Reset(n)
           \/ Call \/ Shutdown \/ InlineReturn \/ ArmFn \/ ArmRange \/ ArmNext \/ ArmActive
  BY <1>2, <1>5 DEF Reset, Call, Shutdown, InlineReturn, ArmFn, ArmRange, ArmNext, ArmActive,
     chunkVars
<1>6. CASE NotifyAll \/ AwaitDone \/ ReturnToCaller \/ Joined
  BY <1>2, <1>6 DEF NotifyAll, AwaitDone, ReturnToCaller, Joined, chunkVars
<1>7. ASSUME NEW w \in Workers, Wake(w) \/ Terminate(w) \/ Leave(w) \/ Claim(w) \/ Check(w)
      PROVE  claims' = claims
  BY <1>7 DEF Wake, Terminate, Leave, Claim, Check, chunkVars
<1>8. ASSUME NEW w \in Workers,
             Capture(w) \/ RunCompletes(w) \/ RunDropped(w) \/ RunThrows(w) \/ Recover(w)
      PROVE  claims' = claims
  BY <1>8 DEF Capture, RunCompletes, RunDropped, RunThrows, Recover
<1>9. CASE UNCHANGED vars
  BY <1>2, <1>9 DEF vars, chunkVars
<1> QED BY <1>2, <1>3, <1>4, <1>5, <1>6, <1>7, <1>8, <1>9
        DEF Next, CallerStep, WorkerStep, DrainStep, Ended

-----------------------------------------------------------------------------
(* What the steps outside drain_chunks and outside the inline loop leave as  *)
(* it is: the chunks, and who is engaged with which, until the process ends. *)
LEMMA OtherSteps ==
  ASSUME IInv, OnTime, Published, NobodyLate, [Next]_vars,
         ~InlineChunk, \A w \in Workers : ~DrainStep(w)
  PROVE  /\ UNCHANGED <<data, lost, claims, index, local>>
         /\ \A w \in Workers : HasIndex(w)' =>
              HasIndex(w) /\ workerPc'[w] = workerPc[w] /\ jobNo' = jobNo
         /\ hooks' # NoJob => ArmActive \/ UNCHANGED <<hooks, onFailure, snap, jobNo>>
         /\ \/ \E w \in Workers : Terminate(w)
            \/ \A w \in Workers : HasIndex(w) => workerPc'[w] = workerPc[w]
<1> USE DEF HasIndex
<1>2. ASSUME NEW n \in 1..Hardware, Reset(n)
      PROVE  /\ UNCHANGED <<data, lost, claims, index, local, jobNo, hooks, onFailure, snap>>
             /\ \A w \in Workers : workerPc'[w] # workerPc[w] => w \notin Started /\ workerPc'[w] = "wait"
  BY <1>2 DEF Reset, jobVars, callerVars, chunkVars
<1>3. CASE \E n \in 1..Hardware : Reset(n)
  BY <1>2, <1>3 DEF IInv, WorkerInv, WorkerOK
<1>4. CASE Call
  <2>1. \A w \in Workers : ~HasIndex(w)
    BY <1>4, QuietCall DEF Draining, Resting
  <2>2. hooks' = NoJob /\ UNCHANGED <<data, lost, claims, index, local, workerPc>>
    BY <1>4 DEF Call, Published, jobVars, chunkVars, workerVars
  <2> QED BY <2>1, <2>2
<1>5. CASE Shutdown \/ NotifyAll
  <2>1. /\ UNCHANGED <<data, lost, claims, index, local, jobNo, hooks, onFailure, snap>>
        /\ workerPc' = [w \in Workers |-> IF workerPc[w] = "asleep" THEN "wait" ELSE workerPc[w]]
    BY <1>5 DEF Shutdown, NotifyAll, jobVars, chunkVars
  <2> QED BY <2>1
<1>6. CASE InlineReturn \/ AwaitDone \/ Joined
  BY <1>6 DEF InlineReturn, AwaitDone, Joined, jobVars, chunkVars, workerVars
<1>7. CASE ArmFn \/ ArmRange \/ ArmNext
  <2>1. hooks' = NoJob /\ UNCHANGED <<data, lost, claims, index, local, workerPc, jobNo>>
    BY <1>7 DEF ArmFn, ArmRange, ArmNext, Published, Arming, chunkVars, workerVars
  <2> QED BY <2>1
<1>8. CASE ArmActive
  BY <1>8 DEF ArmActive, chunkVars, workerVars
<1>9. CASE ReturnToCaller
  BY <1>9 DEF ReturnToCaller, workerVars
<1>10. ASSUME NEW w \in Workers, Wake(w) \/ Leave(w)
       PROVE  /\ UNCHANGED <<data, lost, claims, index, local, jobNo, hooks, onFailure, snap>>
              /\ workerPc[w] \in {"wait", "leave"} /\ workerPc'[w] \in {"exit", "claim", "asleep", "wait"}
              /\ \A v \in Workers \ {w} : workerPc'[v] = workerPc[v]
  BY <1>10 DEF Wake, Leave, Goto, jobVars, chunkVars, callerVars, IInv, TypeOK, WorkerTypeOK
<1>11. CASE \E w \in Workers : Wake(w) \/ Leave(w)
  BY <1>10, <1>11
<1>12. CASE \E w \in Workers : Terminate(w)
  BY <1>12 DEF Terminate, jobVars, chunkVars
<1>13. CASE UNCHANGED vars
  BY <1>13 DEF vars, jobVars, callerVars, chunkVars, workerVars
<1> QED BY <1>3, <1>4, <1>5, <1>6, <1>7, <1>8, <1>9, <1>11, <1>12, <1>13
        DEF Next, CallerStep, WorkerStep, Ended

(* What a worker does to its own chunk.                                      *)
LEMMA OwnChunk ==
  ASSUME IInv, OnTime, Published, IndicesApart, AheadFresh, EngagedOpen, Restorable,
         NEW w \in Workers, DrainStep(w), Engaged(w) \/ Engaged(w)'
  PROVE  /\ jobNo \in Jobs /\ index[w] \in ChunksOf(jobNo) /\ index[w] \in Indices
         /\ index'[w] = index[w] /\ HasIndex(w)
         /\ \/ /\ Engaged(w)'
               /\ data'[jobNo][index[w]] \in {"in", "dirty"} /\ <<jobNo, index[w]>> \notin lost'
            \/ /\ RunCompletes(w) /\ ~HasIndex(w)' /\ <<jobNo, index[w]>> \notin lost'
               /\ data'[jobNo][index[w]] = IF data[jobNo][index[w]] = "in" THEN "out" ELSE "bad"
            \/ /\ Recover(w) /\ ~HasIndex(w)' /\ <<jobNo, index[w]>> \in lost'
         /\ (hooks # NoJob /\ onFailure = "set") =>
              /\ workerPc'[w] \in {"capture", "run"} => data'[hooks][index[w]] = "in"
              /\ workerPc'[w] \in {"run", "failed"} => snap'[hooks][index[w]] = "in"
              /\ workerPc'[w] = "claim" => data'[hooks][index[w]] \in {"in", "out"}
<1> USE DEF Engaged, HasIndex, IInv, TypeOK, ChunkTypeOK, WorkerTypeOK, Goto
<1>1. /\ jobNo \in Jobs /\ hooks \in {jobNo, NoJob} /\ fn \in {jobNo, NoJob}
      /\ Draining(w)
  BY SeesItsJob, DrainFrame
<1>2. ~Claim(w) /\ ~Check(w)
  BY DEF Claim, Check
<1>3. workerPc[w] \in {"load", "capture", "run", "failed"}
  BY <1>2 DEF DrainStep, Load, Capture, RunCompletes, RunDropped, RunThrows, Recover
<1>4. index[w] \in ChunksOf(jobNo) /\ (Engaged(w) => local[w] = jobNo)
  BY <1>3 DEF IndicesApart
<1>5. index[w] \in Indices
  BY <1>1, <1>4, ChunksAreIndexed
<1>6. index' = index
  BY <1>2 DEF DrainStep, Load, Capture, RunCompletes, RunDropped, RunThrows, Recover
<1>7. CASE Load(w)
  <2>1. Fresh(jobNo, index[w])
    BY <1>7, FreshOnArrival DEF Load
  <2>2. workerPc'[w] = "capture" /\ UNCHANGED <<data, lost>>
    BY <1>7 DEF Load
  <2> QED BY <1>1, <1>4, <1>5, <1>6, <1>7, <2>1, <2>2 DEF Fresh, Load
<1>8. CASE Capture(w)
  <2>1. /\ workerPc[w] = "capture" /\ workerPc'[w] = "run" /\ UNCHANGED <<data, lost>>
        /\ hooks # NoJob => snap'[hooks][index[w]] = data[hooks][index[w]]
    BY <1>1, <1>5, <1>8 DEF Capture
  <2> QED BY <1>1, <1>4, <1>5, <1>6, <2>1 DEF EngagedOpen, Restorable
<1>9. CASE RunCompletes(w)
  <2>1. /\ workerPc[w] = "run" /\ workerPc'[w] = "claim" /\ UNCHANGED lost
        /\ data'[jobNo][index[w]] = IF data[jobNo][index[w]] = "in" THEN "out" ELSE "bad"
    BY <1>1, <1>4, <1>5, <1>9 DEF RunCompletes
  <2> QED BY <1>1, <1>4, <1>5, <1>6, <1>9, <2>1 DEF EngagedOpen, Restorable
<1>10. CASE RunDropped(w)
  <2>1. workerPc[w] = "run" /\ workerPc'[w] = "failed" /\ UNCHANGED <<data, lost, snap>>
    BY <1>10 DEF RunDropped
  <2> QED BY <1>1, <1>4, <1>5, <1>6, <2>1 DEF EngagedOpen, Restorable
<1>11. CASE RunThrows(w)
  <2>1. /\ workerPc[w] = "run" /\ workerPc'[w] = "failed" /\ UNCHANGED <<lost, snap>>
        /\ data'[jobNo][index[w]] = "dirty"
    BY <1>1, <1>4, <1>5, <1>11 DEF RunThrows
  <2> QED BY <1>1, <1>4, <1>5, <1>6, <2>1 DEF EngagedOpen, Restorable
<1>12. CASE Recover(w)
  <2>1. /\ workerPc[w] = "failed" /\ UNCHANGED snap /\ data' = Restored(w)
        /\ \/ workerPc'[w] = "capture" /\ UNCHANGED lost
           \/ workerPc'[w] = "claim" /\ lost' = lost \cup {<<jobNo, index[w]>>}
    <3>1. CASE attempt[w] + 1 > Retries
      BY <1>4, <1>12, <3>1 DEF Recover
    <3>2. CASE ~(attempt[w] + 1 > Retries)
      BY <1>4, <1>12, <3>2 DEF Recover
    <3> QED BY <3>1, <3>2
  <2>2. CASE hooks # NoJob /\ onFailure = "set"
    <3>1. hooks = jobNo /\ snap[hooks][index[w]] = "in"
      BY <1>1, <2>1, <2>2 DEF Restorable
    <3>2. data'[hooks][index[w]] = "in"
      BY <1>1, <1>5, <2>1, <2>2, <3>1 DEF Restored
    <3> QED BY <1>1, <1>4, <1>5, <1>6, <1>12, <2>1, <3>1, <3>2 DEF EngagedOpen
  <2>3. CASE ~(hooks # NoJob /\ onFailure = "set")
    <3>1. data' = data
      BY <2>1, <2>3 DEF Restored
    <3> QED BY <1>1, <1>4, <1>5, <1>6, <1>12, <2>1, <2>3, <3>1 DEF EngagedOpen
  <2> QED BY <2>2, <2>3
<1> QED BY <1>2, <1>7, <1>8, <1>9, <1>10, <1>11, <1>12 DEF DrainStep

(* Another worker's chunk and its position are left alone.                   *)
LEMMA OthersKept ==
  ASSUME IInv, OnTime, Published, IndicesApart, NEW w \in Workers, DrainStep(w),
         NEW v \in Workers \ {w}, HasIndex(v)
  PROVE  /\ workerPc'[v] = workerPc[v] /\ index'[v] = index[v] /\ local'[v] = local[v]
         /\ UNCHANGED <<jobNo, callerPc>>
         /\ Engaged(v) =>
              /\ jobNo \in Jobs /\ index[v] \in ChunksOf(jobNo)
              /\ data'[jobNo][index[v]] = data[jobNo][index[v]]
              /\ snap'[jobNo][index[v]] = snap[jobNo][index[v]]
              /\ (<<jobNo, index[v]>> \in lost' <=> <<jobNo, index[v]>> \in lost)
<1>1. /\ workerPc'[v] = workerPc[v] /\ index'[v] = index[v] /\ local'[v] = local[v]
      /\ UNCHANGED <<jobNo, callerPc>>
  BY DrainFrame DEF IInv
<1>2. CASE Engaged(v)
  <2>1. jobNo \in Jobs /\ index[v] \in ChunksOf(jobNo)
    <3>1. Draining(w)
      BY DrainFrame DEF IInv
    <3> QED BY <1>2, <3>1, SeesItsJob DEF IndicesApart, Engaged
  <2>2. index[v] \in Indices
    BY <2>1, ChunksAreIndexed
  <2>3. index[v] # index[w] \/ Claim(w)
    <3>1. HasIndex(w) \/ Claim(w)
      BY DEF DrainStep, HasIndex, Claim, Check, Load, Capture, RunCompletes, RunDropped, RunThrows,
         Recover
    <3> QED BY <3>1 DEF IndicesApart
  <2>4. CASE Claim(w)
    BY <1>1, <2>1, <2>4 DEF Claim, chunkVars
  <2>5. CASE index[v] # index[w]
    BY <1>1, <2>1, <2>2, <2>5, DrainTouches
  <2> QED BY <2>3, <2>4, <2>5
<1> QED BY <1>1, <1>2

(* The hooks and the restore callback do not change under a draining worker. *)
LEMMA HooksKept ==
  ASSUME IInv, OnTime, Published, NEW w \in Workers, DrainStep(w)
  PROVE  /\ UNCHANGED <<fn, hooks, onFailure, chunkCount>>
         /\ hooks \in {jobNo, NoJob} /\ jobNo \in Jobs
<1>1. UNCHANGED <<fn, hooks, onFailure, chunkCount>>
  BY DEF DrainStep, Claim, Check, Load, Capture, RunCompletes, RunDropped, RunThrows, Recover, jobVars
<1>2. Draining(w)
  BY DrainFrame DEF IInv
<1> QED BY <1>1, <1>2, SeesItsJob

(* A worker with a chunk in hand has not settled it.                         *)
LEMMA EngagedStep ==
  ASSUME IInv, OnTime, Published, IndicesApart, AheadFresh, NobodyLate,
         EngagedOpen, Restorable, [Next]_vars
  PROVE  EngagedOpen'
<1>1. CASE InlineChunk
  <2>1. \A w \in Workers : ~Draining(w) /\ workerPc' = workerPc
    BY <1>1, Quiet DEF InlineChunk, workerVars
  <2> QED BY <2>1 DEF EngagedOpen, Engaged, Draining, Resting
<1>2. ASSUME NEW w \in Workers, DrainStep(w) PROVE EngagedOpen'
  <2> SUFFICES ASSUME NEW v \in Workers, Engaged(v)'
               PROVE  data'[jobNo'][index'[v]] \in {"in", "dirty"} /\ <<jobNo', index'[v]>> \notin lost'
    BY DEF EngagedOpen
  <2>1. jobNo' = jobNo
    BY <1>2, DrainFrame DEF IInv
  <2>2. CASE v = w
    <3>1. HasIndex(w)'
      BY <2>2 DEF Engaged, HasIndex
    <3> QED BY <1>2, <2>1, <2>2, <3>1, OwnChunk
  <2>3. CASE v # w
    <3>1. HasIndex(v) /\ Engaged(v)
      BY <1>2, <2>3, DrainFrame DEF IInv, Engaged, HasIndex
    <3> QED BY <1>2, <2>3, <3>1, OthersKept DEF EngagedOpen
  <2> QED BY <2>2, <2>3
<1>3. CASE ~InlineChunk /\ \A w \in Workers : ~DrainStep(w)
  BY <1>3, OtherSteps DEF EngagedOpen, Engaged, HasIndex
<1> QED BY <1>1, <1>2, <1>3

(* A worker that may fail can still put back what it found.                  *)
LEMMA RestorableStep ==
  ASSUME IInv, OnTime, Published, IndicesApart, AheadFresh, NobodyLate,
         EngagedOpen, Restorable, [Next]_vars
  PROVE  Restorable'
<1> SUFFICES ASSUME NEW v \in Workers, (hooks # NoJob /\ onFailure = "set")', Engaged(v)'
             PROVE  /\ workerPc'[v] \in {"capture", "run"} => data'[hooks'][index'[v]] = "in"
                    /\ workerPc'[v] \in {"run", "failed"} => snap'[hooks'][index'[v]] = "in"
  BY DEF Restorable, Engaged
<1>1. CASE InlineChunk
  BY <1>1, Quiet DEF InlineChunk, workerVars, Engaged, Draining, Resting
<1>2. ASSUME NEW w \in Workers, DrainStep(w)
      PROVE  /\ workerPc'[v] \in {"capture", "run"} => data'[hooks'][index'[v]] = "in"
             /\ workerPc'[v] \in {"run", "failed"} => snap'[hooks'][index'[v]] = "in"
  <2>1. UNCHANGED <<hooks, onFailure>> /\ hooks \in {jobNo, NoJob}
    BY <1>2, HooksKept
  <2>2. CASE v = w
    BY <1>2, <2>1, <2>2, OwnChunk
  <2>3. CASE v # w
    <3>1. HasIndex(v) /\ Engaged(v)
      BY <1>2, <2>3, DrainFrame DEF IInv, Engaged, HasIndex
    <3>2. /\ workerPc'[v] = workerPc[v] /\ index'[v] = index[v]
          /\ data'[jobNo][index[v]] = data[jobNo][index[v]]
          /\ snap'[jobNo][index[v]] = snap[jobNo][index[v]]
      BY <1>2, <2>3, <3>1, OthersKept
    <3>3. hooks = jobNo /\ hooks' = jobNo /\ hooks # NoJob /\ onFailure = "set"
      BY <2>1
    <3> QED BY <3>2, <3>3 DEF Restorable
  <2> QED BY <2>2, <2>3
<1>3. CASE ~InlineChunk /\ \A w \in Workers : ~DrainStep(w)
  <2>1. HasIndex(v)'
    BY DEF Engaged, HasIndex
  <2>2. ~ArmActive
    <3> SUFFICES ASSUME ArmActive PROVE FALSE
      OBVIOUS
    <3>1. HasIndex(v) /\ callerPc \in Arming
      BY <1>3, <2>1, OtherSteps DEF ArmActive, Arming
    <3> QED BY <3>1, Quiet DEF HasIndex, Draining, Resting
  <2>3. workerPc'[v] = workerPc[v] /\ UNCHANGED <<data, index>>
    BY <1>3, <2>1, OtherSteps
  <2>4. UNCHANGED <<hooks, onFailure, snap>>
    BY <1>3, <2>2, OtherSteps
  <2> QED BY <2>3, <2>4 DEF Restorable
<1> QED BY <1>1, <1>2, <1>3

(* What a worker gives up it has put back, so a chunk is done or as it was.  *)
LEMMA RestoredStep ==
  ASSUME IInv, OnTime, Published, IndicesApart, AheadFresh, NobodyLate,
         EngagedOpen, Restorable, RestoredOrDone, [Next]_vars
  PROVE  RestoredOrDone'
<1> DEFINE Failed(w, i) == workerPc[w] = "failed" /\ local[w] = hooks /\ index[w] = i
<1> SUFFICES ASSUME (hooks # NoJob /\ onFailure = "set")', NEW i \in ChunksOf(hooks'),
                    data'[hooks'][i] \notin {"in", "out"}
             PROVE  data'[hooks'][i] = "dirty" /\ \E w \in Workers : Failed(w, i)'
  BY DEF RestoredOrDone, ChunksOf
<1>1. CASE InlineChunk
  BY <1>1 DEF InlineChunk, Published, jobVars
<1>2. ASSUME NEW w \in Workers, DrainStep(w)
      PROVE  data'[hooks'][i] = "dirty" /\ \E v \in Workers : Failed(v, i)'
  <2>1. UNCHANGED <<hooks, onFailure>> /\ hooks = jobNo /\ jobNo \in Jobs
    BY <1>2, HooksKept
  <2>2. i \in Indices
    BY <2>1, ChunksAreIndexed
  <2>3. CASE i = index[w] /\ (Engaged(w) \/ Engaged(w)')
    <3>1. workerPc'[w] \in {"capture", "run", "failed", "claim"}
      <4>1. Engaged(w)' \/ RunCompletes(w) \/ (Recover(w) /\ ~HasIndex(w)')
        BY <1>2, <2>3, OwnChunk
      <4>2. CASE Engaged(w)'
        BY <4>2 DEF Engaged
      <4>3. CASE RunCompletes(w)
        BY <4>3 DEF RunCompletes, Goto, IInv, TypeOK, WorkerTypeOK
      <4>4. CASE Recover(w) /\ ~HasIndex(w)'
        BY <4>4, RecoverGoes DEF Goto, IInv, TypeOK, WorkerTypeOK, HasIndex
      <4> QED BY <4>1, <4>2, <4>3, <4>4
    <3>2. workerPc'[w] = "failed"
      BY <1>2, <2>1, <2>3, <3>1, OwnChunk
    <3>3. data'[hooks'][i] \in {"in", "dirty"}
      BY <1>2, <2>1, <2>3, <3>2, OwnChunk DEF HasIndex
    <3>4. index'[w] = i /\ local'[w] = jobNo
      <4>1. IndicesApart' /\ jobNo' = jobNo
        BY <1>2, IndicesStep, DrainFrame DEF IInv
      <4>2. local'[w] = jobNo'
        BY <3>2, <4>1 DEF IndicesApart, HasIndex, Engaged
      <4> QED BY <1>2, <2>3, <4>1, <4>2, OwnChunk
    <3> QED BY <2>1, <3>2, <3>3, <3>4
  <2>4. CASE ~(i = index[w] /\ (Engaged(w) \/ Engaged(w)'))
    <3>1. data'[jobNo][i] = data[jobNo][i]
      <4>1. CASE i # index[w]
        BY <1>2, <2>1, <2>2, <4>1, DrainTouches
      <4>2. CASE ~Engaged(w)
        BY <1>2, <4>2 DEF DrainStep, Claim, Check, Load, Capture, RunCompletes, RunDropped, RunThrows,
           Recover, chunkVars, Engaged
      <4> QED BY <2>4, <4>1, <4>2
    <3>2. PICK v \in Workers : Failed(v, i)
      BY <2>1, <3>1 DEF RestoredOrDone
    <3>3. v # w
      BY <2>4, <3>2 DEF Engaged
    <3>4. Failed(v, i)'
      BY <1>2, <2>1, <3>2, <3>3, DrainFrame DEF IInv
    <3> QED BY <2>1, <3>1, <3>4 DEF RestoredOrDone
  <2> QED BY <2>3, <2>4
<1>3. CASE ~InlineChunk /\ \A w \in Workers : ~DrainStep(w)
  <2>1. CASE ArmActive
    <3>1. hooks' = jobNo /\ jobNo \in Jobs /\ callerPc \in Arming /\ data' = data
      BY <2>1 DEF ArmActive, Arming, Published, IInv, CallerInv, InDispatch, chunkVars
    <3> QED BY <3>1 DEF AheadFresh, Ahead, Fresh
  <2>2. CASE ~ArmActive
    <3>1. UNCHANGED <<data, index, local, hooks, onFailure>>
      BY <1>3, <2>2, OtherSteps
    <3>2. PICK v \in Workers : Failed(v, i)
      BY <3>1 DEF RestoredOrDone
    <3>3. \A w \in Workers : ~Terminate(w)
      BY <3>1 DEF Terminate
    <3>4. workerPc'[v] = workerPc[v]
      BY <1>3, <3>2, <3>3, OtherSteps DEF HasIndex
    <3> QED BY <3>1, <3>2, <3>4 DEF RestoredOrDone
  <2> QED BY <2>1, <2>2
<1> QED BY <1>1, <1>2, <1>3

(* Once settled, a chunk of the current job stays settled during its call.   *)
LEMMA SettledStays ==
  ASSUME IInv, OnTime, Published, IndicesApart, AheadFresh, NobodyLate,
         EngagedOpen, Restorable, [Next]_vars,
         jobNo \in Jobs, NEW i \in ChunksOf(jobNo), Settled(jobNo, i), ~InlineChunk
  PROVE  Settled(jobNo, i)'  \/ jobNo' # jobNo
<1> SUFFICES ASSUME jobNo' = jobNo
             PROVE  <<jobNo, i>> \in lost' \/ data'[jobNo][i] \in {"out", "bad"}
  BY DEF Settled
<1>1. ASSUME NEW w \in Workers, DrainStep(w)
      PROVE  <<jobNo, i>> \in lost' \/ data'[jobNo][i] \in {"out", "bad"}
  <2>1. i \in Indices
    BY ChunksAreIndexed
  <2>2. CASE i # index[w]
    BY <1>1, <2>1, <2>2, DrainTouches DEF Settled
  <2>3. CASE i = index[w]
    <3>1. ~Engaged(w)
      BY <2>3 DEF EngagedOpen, Settled
    <3>2. UNCHANGED <<data, lost>>
      BY <1>1, <3>1 DEF DrainStep, Claim, Check, Load, Capture, RunCompletes, RunDropped, RunThrows,
         Recover, chunkVars, Engaged
    <3> QED BY <3>2 DEF Settled
  <2> QED BY <2>2, <2>3
<1>2. CASE \A w \in Workers : ~DrainStep(w)
  BY <1>2, OtherSteps DEF Settled
<1> QED BY <1>1, <1>2

(* A chunk behind the counter is settled or in the hands of a worker.        *)
LEMMA BehindStep ==
  ASSUME IInv, OnTime, Published, IndicesApart, AheadFresh, NobodyLate,
         EngagedOpen, Restorable, BehindSettled, [Next]_vars
  PROVE  BehindSettled'
<1> DEFINE InlinePart == callerPc = "inline" =>
             cursor <= JobChunks[jobNo] /\ \A i \in 0..(cursor - 1) : Settled(jobNo, i)
           ZeroPart == callerPc = "armActive" => next = 0
           Held(i) == \E w \in Workers : HasIndex(w) /\ index[w] = i
           ArmedPart == callerPc \in Armed =>
             \A i \in ChunksOf(jobNo) : i < next => Settled(jobNo, i) \/ Held(i)
<1>1. InlinePart'
  <2> SUFFICES ASSUME callerPc' = "inline" PROVE InlinePart'
    OBVIOUS
  <2>1. CASE Call
    <3>1. cursor' = 0 /\ jobNo' \in Jobs
      BY <2>1, PoolAssumption DEF Call, Jobs, IInv, TypeOK, CallerTypeOK
    <3> QED BY <3>1, PoolAssumption DEF Jobs
  <2>2. CASE InlineChunk
    <3>1. /\ callerPc = "inline" /\ jobNo \in Jobs /\ cursor \in Nat /\ JobChunks[jobNo] \in Nat
          /\ cursor < JobChunks[jobNo] /\ UNCHANGED <<jobNo, lost>>
      BY <2>2, PoolAssumption DEF InlineChunk, IInv, CallerInv, InDispatch, TypeOK, CallerTypeOK, Jobs
    <3>2. cursor' = cursor + 1 /\ data' = [data EXCEPT ![jobNo][cursor] = "out"]
      BY <2>2 DEF InlineChunk
    <3>3. cursor \in Indices /\ \A i \in 0..(cursor - 1) : i \in Indices /\ i # cursor
      BY <3>1, ChunksAreIndexed DEF ChunksOf
    <3>4. ASSUME NEW i \in {cursor} PROVE Settled(jobNo, i)'
      BY <3>1, <3>2, <3>3 DEF Settled, IInv, TypeOK, ChunkTypeOK
    <3>5. ASSUME NEW i \in 0..(cursor - 1) PROVE Settled(jobNo, i)'
      <4>1. data'[jobNo][i] = data[jobNo][i]
        BY <3>1, <3>2, <3>3 DEF IInv, TypeOK, ChunkTypeOK
      <4>2. Settled(jobNo, i)
        BY <3>1 DEF BehindSettled
      <4> QED BY <3>1, <4>1, <4>2 DEF Settled
    <3> QED BY <3>1, <3>2, <3>4, <3>5
  <2>3. CASE ~Call /\ ~InlineChunk
    <3>1. callerPc = "inline" /\ UNCHANGED <<cursor, jobNo, data, lost>>
      <4>1. \A w \in Workers : WorkerStep(w) => callerPc = "inline" /\ UNCHANGED <<cursor, jobNo>>
        BY DEF WorkerStep, DrainStep, Wake, Claim, Check, Load, Capture, RunCompletes, RunDropped,
           RunThrows, Recover, Leave, Terminate, callerVars
      <4>2. UNCHANGED vars \/ (\E n \in 1..Hardware : Reset(n)) => callerPc = "inline" /\ UNCHANGED <<cursor, jobNo>>
        BY DEF Reset, vars, callerVars
      <4>3. callerPc = "inline" /\ UNCHANGED <<cursor, jobNo>>
        BY <2>3, <4>1, <4>2 DEF Next, CallerStep, Ended, Shutdown, InlineReturn, ArmFn, ArmRange, ArmNext, ArmActive,
           NotifyAll, AwaitDone, ReturnToCaller, Joined
      <4>4. \A w \in Workers : ~DrainStep(w)
        BY <4>3, DrainFrame, Quiet DEF IInv
      <4> QED BY <2>3, <4>3, <4>4, OtherSteps
    <3> QED BY <3>1 DEF BehindSettled, Settled
  <2> QED BY <2>1, <2>2, <2>3
<1>2. ZeroPart'
  <2> SUFFICES ASSUME callerPc' = "armActive" PROVE next' = 0
    OBVIOUS
  <2>1. CASE ArmNext
    BY <2>1 DEF ArmNext
  <2>2. CASE ~ArmNext
    <3>1. \A w \in Workers : WorkerStep(w) => callerPc = "armActive"
      BY DEF WorkerStep, DrainStep, Wake, Claim, Check, Load, Capture, RunCompletes, RunDropped,
         RunThrows, Recover, Leave, Terminate, callerVars
    <3>2. callerPc = "armActive"
      BY <2>2, <3>1 DEF Next, CallerStep, Ended, Reset, Call, Shutdown, InlineChunk, InlineReturn, ArmFn, ArmRange,
         ArmActive, NotifyAll, AwaitDone, ReturnToCaller, Joined, vars, callerVars
    <3>3. \A w \in Workers : ~DrainStep(w)
      BY <3>2, DrainFrame, Quiet DEF IInv, Arming
    <3>4. \A w \in Workers : WorkerStep(w) => next' = next
      BY <3>3 DEF WorkerStep, Wake, Terminate, Leave, jobVars
    <3>5. next' = next
      BY <2>2, <3>2, <3>4 DEF Next, CallerStep, Ended, Reset, Call, Shutdown, InlineChunk, InlineReturn, ArmFn, ArmRange,
         ArmActive, NotifyAll, AwaitDone, ReturnToCaller, Joined, vars, jobVars
    <3> QED BY <3>2, <3>5 DEF BehindSettled
  <2> QED BY <2>1, <2>2
<1>3. ArmedPart'
  <2> SUFFICES ASSUME callerPc' \in Armed, NEW i \in ChunksOf(jobNo'), i < next'
               PROVE  Settled(jobNo, i)' \/ Held(i)'
    BY DEF ChunksOf
  <2>1. CASE ArmActive
    BY <2>1 DEF ArmActive, BehindSettled, ChunksOf
  <2>2. ASSUME ~ArmActive, \A w \in Workers : ~DrainStep(w)
        PROVE  Settled(jobNo, i)' \/ Held(i)'
    <3>1. callerPc \in Armed /\ UNCHANGED <<next, jobNo>>
      <4>1. \A w \in Workers : WorkerStep(w) => callerPc \in Armed /\ UNCHANGED <<next, jobNo>>
        BY <2>2 DEF WorkerStep, Wake, Leave, Terminate, callerVars, jobVars, Armed
      <4>2. UNCHANGED vars \/ (\E n \in 1..Hardware : Reset(n)) => callerPc \in Armed /\ UNCHANGED <<next, jobNo>>
        BY DEF Reset, vars, callerVars, jobVars
      <4> QED BY <2>2, <4>1, <4>2 DEF Next, CallerStep, Ended, Call, Shutdown, InlineChunk, InlineReturn, ArmFn,
         ArmRange, ArmNext, NotifyAll, AwaitDone, ReturnToCaller, Joined, jobVars, Armed
    <3>2. ~InlineChunk /\ \A w \in Workers : ~Terminate(w)
      BY <3>1 DEF InlineChunk, Terminate, Armed
    <3>3. jobNo \in Jobs
      BY <3>1 DEF IInv, CallerInv, InDispatch, Armed
    <3>4. Settled(jobNo, i) \/ Held(i)
      BY <3>1 DEF BehindSettled
    <3>5. CASE Settled(jobNo, i)
      BY <3>1, <3>2, <3>3, <3>5, SettledStays
    <3>6. CASE Held(i)
      BY <2>2, <3>2, <3>6, OtherSteps DEF HasIndex
    <3> QED BY <3>4, <3>5, <3>6
  <2>3. ASSUME NEW w \in Workers, DrainStep(w)
        PROVE  Settled(jobNo, i)' \/ Held(i)'
    <3>1. UNCHANGED <<callerPc, jobNo>> /\ Draining(w)
      BY <2>3, DrainFrame DEF IInv
    <3>2. jobNo \in Jobs /\ chunkCount = JobChunks[jobNo] /\ fn = jobNo /\ ~InlineChunk
      BY <3>1, SeesItsJob DEF Armed, InlineChunk
    <3>3. ASSUME Settled(jobNo, i) PROVE Settled(jobNo, i)'
      BY <3>1, <3>2, <3>3, SettledStays
    <3>4. ASSUME NEW v \in Workers \ {w}, HasIndex(v), index[v] = i PROVE Held(i)'
      BY <2>3, <3>4, OthersKept DEF HasIndex
    <3>5. ASSUME HasIndex(w), index[w] = i PROVE Settled(jobNo, i)' \/ Held(i)'
      <4>1. CASE Check(w)
        <5>1. ~(index[w] >= chunkCount)
          BY <3>1, <3>2, <3>5, PoolAssumption DEF ChunksOf, Jobs
        <5> QED BY <3>5, <4>1, <5>1 DEF Check, Goto, HasIndex, IInv, TypeOK, WorkerTypeOK
      <4>2. CASE ~Check(w)
        <5>1. ~Claim(w)
          BY <3>5 DEF HasIndex, Claim
        <5>2. CASE Load(w)
          <6>1. workerPc'[w] = "capture" /\ index' = index
            BY <3>2, <5>2 DEF Load, Goto, IInv, TypeOK, WorkerTypeOK, Jobs, NoJob
          <6> QED BY <3>5, <6>1 DEF HasIndex
        <5>3. CASE Engaged(w)
          <6>1. CASE Engaged(w)'
            BY <2>3, <3>5, <5>3, <6>1, OwnChunk DEF Engaged, HasIndex
          <6>2. CASE RunCompletes(w)
            <7>1. ~Engaged(w)'
              BY <6>2 DEF RunCompletes, Goto, Engaged, IInv, TypeOK, WorkerTypeOK
            <7>2. <<jobNo, index[w]>> \in lost' \/ data'[jobNo][index[w]] \in {"out", "bad"}
              BY <2>3, <5>3, <7>1, OwnChunk
            <7> QED BY <3>1, <3>5, <7>2 DEF Settled
          <6>3. CASE <<jobNo, index[w]>> \in lost'
            BY <3>1, <3>5, <6>3 DEF Settled
          <6> QED BY <2>3, <5>3, <6>1, <6>2, <6>3, OwnChunk
        <5> QED BY <2>3, <4>2, <5>1, <5>2, <5>3 DEF DrainStep, Engaged, Capture, RunCompletes, RunDropped,
               RunThrows, Recover
      <4> QED BY <4>1, <4>2
    <3>6. CASE Claim(w)
      <4>1. index'[w] = next /\ next' = next + 1 /\ HasIndex(w)'
        BY <3>6 DEF Claim, Goto, HasIndex, IInv, TypeOK, WorkerTypeOK
      <4>2. CASE i = next
        BY <4>1, <4>2
      <4>3. CASE i # next
        <5>1. i < next
          BY <4>1, <4>3 DEF IInv, TypeOK, JobTypeOK, ChunksOf
        <5>2. ~HasIndex(w)
          BY <3>6 DEF Claim, HasIndex
        <5> QED BY <3>1, <3>3, <3>4, <5>1, <5>2 DEF BehindSettled
      <4> QED BY <4>2, <4>3
    <3>7. CASE ~Claim(w)
      <4>1. next' = next
        BY <2>3, <3>7 DEF DrainStep, Check, Load, Capture, RunCompletes, RunDropped, RunThrows, Recover, jobVars
      <4> QED BY <3>1, <3>3, <3>4, <3>5, <4>1 DEF BehindSettled
    <3> QED BY <3>6, <3>7
  <2> QED BY <2>1, <2>2, <2>3
<1> QED BY <1>1, <1>2, <1>3 DEF BehindSettled

-----------------------------------------------------------------------------
(* Before the first dispatch no chunk is claimed.                            *)
LEMMA InitDispatch == Init => ClaimInv /\ WorkInv
<1> SUFFICES ASSUME Init PROVE ClaimInv /\ WorkInv
  OBVIOUS
<1>1. \A w \in Workers : ~Draining(w) /\ ~HasIndex(w) /\ ~Engaged(w)
  BY DEF Init, Draining, Resting, HasIndex, Engaged
<1>2. OnTime /\ IndicesApart /\ EngagedOpen
  BY <1>1 DEF OnTime, IndicesApart, EngagedOpen, Engaged, HasIndex
<1>3. Published /\ Restorable /\ RestoredOrDone /\ BehindSettled
  BY DEF Init, Published, Restorable, RestoredOrDone, BehindSettled, Arming, Armed
<1>4. \A j \in Jobs : \A i \in ChunksOf(j) : Fresh(j, i) /\ claims[j][i] = 0
  BY ChunksAreIndexed DEF Init, Fresh
<1> QED BY <1>2, <1>3, <1>4 DEF ClaimInv, WorkInv, AheadFresh, UniqueClaims

(* Every step keeps ClaimInv and WorkInv where nobody can be late.           *)
LEMMA DispatchStep ==
  ASSUME NobodyLate, IInv, ClaimInv, WorkInv, [Next]_vars
  PROVE  ClaimInv' /\ WorkInv'
BY OnTimeStep, PublishedStep, IndicesStep, AheadStep, ClaimsStep, EngagedStep, RestorableStep,
   RestoredStep, BehindStep DEF ClaimInv, WorkInv

(* So they hold throughout.                                                  *)
LEMMA DispatchInvariance ==
  ASSUME NobodyLate
  PROVE  Spec => [](IInv /\ ClaimInv /\ WorkInv)
<1>1. IInv /\ ClaimInv /\ WorkInv /\ [Next]_vars => ClaimInv' /\ WorkInv'
  BY DispatchStep
<1> QED BY Invariance, InitDispatch, <1>1, PTL DEF Spec

(* No chunk is taken up twice, whatever dispatches, dropouts and exceptions   *)
(* come, as long as no worker of an earlier dispatch is still about: in a     *)
(* pool of one worker, and in the first dispatch of a pool of any size.       *)
THEOREM NobodyLateClaimsUnique ==
  ASSUME NobodyLate
  PROVE  Spec => []UniqueClaims
BY DispatchInvariance, PTL DEF ClaimInv

(* Under the same condition a retry never starts from a half-written buffer   *)
(* and no chunk is transformed twice: as long as the hooks and the restore    *)
(* callback of a job are published, each of its chunks holds its input or its *)
(* result, or its worker is about to restore it.                              *)
THEOREM NobodyLateRestores ==
  ASSUME NobodyLate
  PROVE  Spec => []RestoredOrDone
BY DispatchInvariance, PTL DEF WorkInv

-----------------------------------------------------------------------------
(* The pool of one worker implements the bulk-synchronous dispatcher.        *)
Table == [j \in Jobs |-> [i \in ChunksOf(j) |-> Outcome(j, i)]]
Phase == IF InDispatch THEN "busy" ELSE IF callerPc = "aborted" THEN "dead" ELSE "idle"
Current(j) == InDispatch /\ j = jobNo

\* Outcome, spelled out.
Reads(j, i) ==
  /\ <<j, i>> \in lost => Outcome(j, i) = "lost"
  /\ <<j, i>> \notin lost /\ data[j][i] \in {"out", "bad"} => Outcome(j, i) = "done"
  /\ <<j, i>> \notin lost /\ data[j][i] = "dirty" /\ ~Current(j) => Outcome(j, i) = "raised"
  /\ <<j, i>> \notin lost /\ (data[j][i] = "in" \/ (data[j][i] = "dirty" /\ Current(j)))
       => Outcome(j, i) = "todo"

(* What the outcome of a chunk depends on, spelt out before and after a      *)
(* step.                                                                     *)
LEMMA OutcomeReads ==
  ASSUME NEW j, NEW i
  PROVE  Reads(j, i) /\ Reads(j, i)'
<1>1. Reads(j, i)
  BY DEF Reads, Outcome, Current
<1>2. Reads(j, i)'
  BY DEF Reads, Outcome, Current
<1> QED BY <1>1, <1>2

(* What a caller calls settled is what the dispatcher calls lost or done.    *)
LEMMA SettledReads ==
  ASSUME NEW j, NEW i
  PROVE  /\ Settled(j, i) => Outcome(j, i) \in {"lost", "done"}
         /\ Fresh(j, i) => Outcome(j, i) = "todo"
BY OutcomeReads DEF Reads, Settled, Fresh

(* A chunk that keeps its data keeps its outcome, unless it is half-written  *)
(* and its dispatch begins or ends.                                          *)
LEMMA OutcomeStays ==
  ASSUME NEW j \in Jobs, NEW i \in ChunksOf(j), TypeOK,
         data'[j][i] = data[j][i], <<j, i>> \in lost' <=> <<j, i>> \in lost,
         data[j][i] # "dirty" \/ <<j, i>> \in lost \/ (Current(j)' <=> Current(j))
  PROVE  Outcome(j, i)' = Outcome(j, i)
<1>1. data[j][i] \in Data
  BY ChunksAreIndexed DEF TypeOK, ChunkTypeOK
<1> QED BY <1>1, OutcomeReads DEF Reads, Data

(* A step that changes no outcome leaves the table.                          *)
LEMMA TableStays ==
  ASSUME \A j \in Jobs : \A i \in ChunksOf(j) : Outcome(j, i)' = Outcome(j, i)
  PROVE  Table' = Table
<1> QED BY DEF Table, ChunksOf

(* A step that changes one outcome changes one entry of the table.           *)
LEMMA TableMoves ==
  ASSUME NEW k \in Jobs, NEW l \in ChunksOf(k), NEW o, Outcome(k, l)' = o,
         \A j \in Jobs : \A i \in ChunksOf(j) :
           j # k \/ i # l => Outcome(j, i)' = Outcome(j, i)
  PROVE  Table' = [Table EXCEPT ![k][l] = o]
<1> DEFINE U == [Table EXCEPT ![k][l] = o]
<1>1. U = [j \in Jobs |-> IF j = k THEN [Table[k] EXCEPT ![l] = o] ELSE Table[j]]
  BY DEF Table
<1>2. [Table[k] EXCEPT ![l] = o] = [i \in ChunksOf(k) |-> IF i = l THEN o ELSE Outcome(k, i)]
  BY DEF Table
<1>3. U = [j \in Jobs |-> [i \in ChunksOf(j) |-> IF j = k /\ i = l THEN o ELSE Outcome(j, i)]]
  BY <1>1, <1>2 DEF Table
<1>4. ASSUME NEW j \in Jobs
      PROVE  [i \in ChunksOf(j) |-> Outcome(j, i)'] =
             [i \in ChunksOf(j) |-> IF j = k /\ i = l THEN o ELSE Outcome(j, i)]
  OBVIOUS
<1> QED BY <1>3, <1>4 DEF Table, ChunksOf

(* A step of the pool that Dispatch does not see.                            *)
LEMMA AbstractStutters ==
  ASSUME UNCHANGED <<Phase, jobNo, Table>>
  PROVE  UNCHANGED Abstract!vars
BY DEF Abstract!vars, Abstract!ChunksOf, Phase, Table, ChunksOf, Jobs

(* Arming a job is the start of a dispatch.                                  *)
LEMMA AbstractBegins ==
  ASSUME Phase = "idle", Phase' = "busy", jobNo < MaxJobs, jobNo' = jobNo + 1, Table' = Table
  PROVE  Abstract!Next
BY DEF Abstract!Next, Abstract!Begin, Phase, Table

(* The caller may return when no chunk is left to do.                        *)
LEMMA AbstractReturns ==
  ASSUME Phase = "busy", Phase' = "idle", jobNo' = jobNo, Table' = Table, jobNo \in Jobs,
         \A i \in ChunksOf(jobNo) : Outcome(jobNo, i) # "todo"
  PROVE  Abstract!Next
<1>1. \A i \in ChunksOf(jobNo) : ~Abstract!Todo(i)
  BY DEF Abstract!Todo
<1> QED BY <1>1 DEF Abstract!Next, Abstract!Return, Abstract!ChunksOf, ChunksOf, Phase, Table

(* A worker that finishes or gives up a chunk settles it.                    *)
LEMMA AbstractSettles ==
  ASSUME Phase = "busy", Phase' = "busy", jobNo' = jobNo, jobNo \in Jobs,
         NEW i \in ChunksOf(jobNo), NEW o \in {"done", "lost"}, Outcome(jobNo, i) = "todo",
         Table' = [Table EXCEPT ![jobNo][i] = o]
  PROVE  Abstract!Next
<1>1. Abstract!Todo(i)
  BY DEF Abstract!Todo
<1>2. Abstract!Settle(i, o)
  BY <1>1 DEF Abstract!Settle, Phase, Table
<1> QED BY <1>2 DEF Abstract!Next, Abstract!ChunksOf, ChunksOf, Phase

(* A dispatch on the calling thread ends at the chunk that throws.           *)
LEMMA AbstractRaises ==
  ASSUME Phase = "busy", Phase' = "idle", jobNo' = jobNo, jobNo \in Jobs,
         NEW i \in ChunksOf(jobNo),
         \A k \in ChunksOf(jobNo) : Outcome(jobNo, k) = "todo" <=> k >= i,
         Table' = [Table EXCEPT ![jobNo][i] = "raised"]
  PROVE  Abstract!Next
<1>1. \A k \in ChunksOf(jobNo) : Abstract!Todo(k) <=> k >= i
  BY DEF Abstract!Todo
<1>2. Abstract!Raise(i)
  BY <1>1 DEF Abstract!Raise, Abstract!ChunksOf, ChunksOf, Phase, Table
<1> QED BY <1>2 DEF Abstract!Next, Abstract!ChunksOf, ChunksOf, Phase

(* An exception that escapes a worker ends the program.                      *)
LEMMA AbstractAborts ==
  ASSUME Phase = "busy", Phase' = "dead", jobNo' = jobNo, jobNo \in Jobs,
         \A j \in Jobs : \A i \in ChunksOf(j) :
           \/ Outcome(j, i)' = Outcome(j, i)
           \/ j = jobNo /\ Outcome(j, i) = "todo" /\ Outcome(j, i)' = "raised"
  PROVE  Abstract!Next
<1> DEFINE half == {i \in ChunksOf(jobNo) : Outcome(jobNo, i) = "todo" /\ Outcome(jobNo, i)' = "raised"}
           Row == [i \in ChunksOf(jobNo) |-> IF i \in half THEN "raised" ELSE Table[jobNo][i]]
<1>1. \A i \in ChunksOf(jobNo) : Abstract!Todo(i) <=> Outcome(jobNo, i) = "todo"
  BY DEF Abstract!Todo
<1>2. half \in SUBSET {i \in Abstract!ChunksOf(jobNo) : Abstract!Todo(i)}
  BY <1>1 DEF Abstract!ChunksOf, ChunksOf
<1>3. Row = [i \in ChunksOf(jobNo) |-> Outcome(jobNo, i)']
  BY DEF Table
<1>4. Table' = [j \in Jobs |-> [i \in ChunksOf(j) |-> Outcome(j, i)']]
  BY DEF Table, ChunksOf
<1>5. ASSUME NEW j \in Jobs, j # jobNo
      PROVE  [i \in ChunksOf(j) |-> Outcome(j, i)'] = Table[j]
  BY <1>5 DEF Table
<1>6. Table' = [j \in Jobs |-> IF j = jobNo THEN Row ELSE Table[j]]
  <2> HIDE DEF Row
  <2> QED BY <1>3, <1>4, <1>5
<1>7. [Table EXCEPT ![jobNo] = Row] = [j \in Jobs |-> IF j = jobNo THEN Row ELSE Table[j]]
  <2> HIDE DEF Row
  <2> QED BY DEF Table
<1>8. Table' = [Table EXCEPT ![jobNo] = Row]
  BY <1>6, <1>7
<1>9. Abstract!Abort
  BY <1>2, <1>8 DEF Abstract!Abort, Abstract!ChunksOf, ChunksOf, Phase, Table
<1> QED BY <1>9 DEF Abstract!Next

(* A lone worker that drains has a caller waiting for it; when the caller is  *)
(* let go, every chunk is settled.                                           *)
LEMMA SoloBusy ==
  ASSUME Hardware = 1, IInv, NEW w \in Workers, Draining(w)
  PROVE  callerPc \in Armed
<1>1. w \in Started /\ callerPc # "aborted"
  BY DEF IInv, WorkerInv, WorkerOK, Draining, Resting
<1>2. w = 0 /\ Started = {0} /\ workerCount > 0
  BY <1>1 DEF Started, Workers, IInv, TypeOK, CallerTypeOK
<1>3. active
  BY <1>2 DEF IInv, SomeoneRests
<1> QED BY <1>1, <1>3 DEF IInv, CallerInv

(* A single worker has settled every chunk once the job is closed.           *)
LEMMA SoloSettled ==
  ASSUME Hardware = 1, IInv, BehindSettled, callerPc \in Armed, ~active
  PROVE  \A i \in ChunksOf(jobNo) : Settled(jobNo, i)
<1>1. ASSUME NEW w \in Workers, Draining(w) PROVE FALSE
  <2>1. w = 0 /\ Started = {0} /\ workerCount > 0
    BY <1>1 DEF Started, Workers, IInv, TypeOK, CallerTypeOK, WorkerInv, WorkerOK, Draining, Resting
  <2> QED BY <1>1, <2>1 DEF IInv, SomeoneRests
<1>2. next >= JobChunks[jobNo] /\ next \in Nat /\ JobChunks[jobNo] \in Nat
  BY PoolAssumption DEF IInv, HandedOut, TypeOK, JobTypeOK, CallerInv, InDispatch, Armed, Jobs
<1> QED BY <1>1, <1>2 DEF BehindSettled, HasIndex, Draining, Resting, ChunksOf

(* With one worker every step of the pool is a step of Dispatch, or none.    *)
LEMMA SoloRefines ==
  ASSUME Hardware = 1, IInv, ClaimInv, WorkInv, [Next]_vars
  PROVE  [Abstract!Next]_(Abstract!vars)
<1> USE DEF ClaimInv, WorkInv
<1> DEFINE Same(j, i) == Outcome(j, i)' = Outcome(j, i)
<1>1. NobodyLate /\ TypeOK
  BY DEF NobodyLate, IInv
<1>2. ASSUME UNCHANGED <<data, lost, jobNo>>, InDispatch' = InDispatch, Phase' = Phase
      PROVE  UNCHANGED Abstract!vars
  <2>1. \A j \in Jobs : \A i \in ChunksOf(j) : Same(j, i)
    BY <1>1, <1>2, OutcomeStays DEF Current
  <2> QED BY <1>2, <2>1, TableStays, AbstractStutters
<1>3. ASSUME UNCHANGED <<data, lost, jobNo, callerPc>>
      PROVE  UNCHANGED Abstract!vars
  BY <1>2, <1>3 DEF InDispatch, Phase
<1>4. ASSUME NEW n \in 1..Hardware, Reset(n) PROVE UNCHANGED Abstract!vars
  BY <1>3, <1>4 DEF Reset, callerVars, chunkVars
<1>5. CASE Call
  <2>1. /\ callerPc = "idle" /\ callerPc' \in {"inline", "armFn"} /\ jobNo' = jobNo + 1
        /\ jobNo < MaxJobs /\ jobNo \in Nat /\ UNCHANGED <<data, lost>>
    BY <1>5, PoolAssumption DEF Call, chunkVars, IInv, TypeOK, CallerTypeOK
  <2>2. ASSUME NEW j \in Jobs, NEW i \in ChunksOf(j) PROVE Same(j, i)
    <3>1. CASE j > jobNo
      <4>1. data[j][i] # "dirty"
        BY <3>1 DEF AheadFresh, Ahead, Fresh
      <4> QED BY <1>1, <2>1, <4>1, OutcomeStays
    <3>2. CASE ~(j > jobNo)
      <4>1. ~Current(j) /\ ~Current(j)'
        BY <2>1, <3>2 DEF Current, InDispatch, Jobs
      <4> QED BY <1>1, <2>1, <4>1, OutcomeStays
    <3> QED BY <3>1, <3>2
  <2>3. Phase = "idle" /\ Phase' = "busy"
    BY <2>1 DEF Phase, InDispatch
  <2> QED BY <2>1, <2>2, <2>3, TableStays, AbstractBegins
<1>6. CASE InlineChunk
  <2>1. /\ callerPc = "inline" /\ jobNo \in Jobs /\ cursor \in Nat /\ JobChunks[jobNo] \in Nat
        /\ cursor < JobChunks[jobNo] /\ UNCHANGED <<jobNo, lost>>
    BY <1>6, PoolAssumption DEF InlineChunk, IInv, CallerInv, InDispatch, TypeOK, CallerTypeOK, Jobs
  <2>2. cursor \in ChunksOf(jobNo) /\ cursor \in Indices
    BY <2>1, ChunksAreIndexed DEF ChunksOf
  <2>3. \A k \in ChunksOf(jobNo) : k >= cursor => Fresh(jobNo, k)
    BY <2>1 DEF AheadFresh, Ahead
  <2>4. \A k \in ChunksOf(jobNo) : ~(k >= cursor) => Settled(jobNo, k)
    BY <2>1 DEF BehindSettled, ChunksOf
  <2>5. Phase = "busy"
    BY <2>1 DEF Phase, InDispatch
  <2>6. Fresh(jobNo, cursor) /\ Outcome(jobNo, cursor) = "todo"
    BY <2>1, <2>2, <2>3, SettledReads
  <2>7. CASE data' = [data EXCEPT ![jobNo][cursor] = "out"] /\ UNCHANGED callerPc
    <3>1. \A j \in Jobs : \A i \in ChunksOf(j) : j # jobNo \/ i # cursor => Same(j, i)
      <4>1. ASSUME NEW j \in Jobs, NEW i \in ChunksOf(j), j # jobNo \/ i # cursor PROVE Same(j, i)
        <5>1. data'[j][i] = data[j][i]
          BY <2>2, <2>7, <4>1, <1>1, ChunksAreIndexed DEF TypeOK, ChunkTypeOK
        <5> QED BY <1>1, <2>1, <2>7, <5>1, OutcomeStays DEF Current, InDispatch
      <4> QED BY <4>1
    <3>2. ASSUME NEW i \in {cursor} PROVE Outcome(jobNo, i)' = "done"
      <4>1. data'[jobNo][i] = "out" /\ <<jobNo, i>> \notin lost'
        BY <1>1, <2>1, <2>2, <2>6, <2>7 DEF TypeOK, ChunkTypeOK, Fresh
      <4> QED BY <2>1, <4>1, OutcomeReads DEF Reads
    <3>3. PICK i \in {cursor} : TRUE
      OBVIOUS
    <3>4. /\ i \in ChunksOf(jobNo) /\ Outcome(jobNo, i) = "todo" /\ Outcome(jobNo, i)' = "done"
          /\ \A j \in Jobs : \A l \in ChunksOf(j) : j # jobNo \/ l # i => Same(j, l)
      BY <2>2, <2>6, <3>1, <3>2, <3>3
    <3>5. PICK k \in {jobNo} : TRUE
      OBVIOUS
    <3>6. Table' = [Table EXCEPT ![k][i] = "done"]
      BY <2>1, <3>4, <3>5, TableMoves
    <3>7. Phase' = "busy"
      BY <2>1, <2>7 DEF Phase, InDispatch
    <3> QED BY <2>1, <2>5, <3>4, <3>5, <3>6, <3>7, AbstractSettles
  <2>8. CASE data' = [data EXCEPT ![jobNo][cursor] = "dirty"] /\ callerPc' = "idle"
    <3>1. \A j \in Jobs : \A i \in ChunksOf(j) : j # jobNo \/ i # cursor => Same(j, i)
      <4>1. ASSUME NEW j \in Jobs, NEW i \in ChunksOf(j), j # jobNo \/ i # cursor PROVE Same(j, i)
        <5>1. data'[j][i] = data[j][i]
          BY <2>2, <2>8, <4>1, <1>1, ChunksAreIndexed DEF TypeOK, ChunkTypeOK
        <5>2. CASE j = jobNo
          <6>1. <<j, i>> \in lost \/ data[j][i] # "dirty"
            BY <2>3, <2>4, <5>2 DEF Fresh, Settled
          <6> QED BY <1>1, <2>1, <5>1, <6>1, OutcomeStays
        <5>3. CASE j # jobNo
          <6>1. ~Current(j) /\ ~Current(j)'
            BY <2>1, <5>3 DEF Current
          <6> QED BY <1>1, <2>1, <5>1, <6>1, OutcomeStays
        <5> QED BY <5>2, <5>3
      <4> QED BY <4>1
    <3>2. ASSUME NEW i \in {cursor} PROVE Outcome(jobNo, i)' = "raised"
      <4>1. data'[jobNo][i] = "dirty" /\ <<jobNo, i>> \notin lost' /\ ~InDispatch'
        BY <1>1, <2>1, <2>2, <2>6, <2>8 DEF TypeOK, ChunkTypeOK, Fresh, InDispatch
      <4> QED BY <2>1, <4>1, OutcomeReads DEF Reads, Current
    <3>3. PICK i \in {cursor} : TRUE
      OBVIOUS
    <3>4. /\ i \in ChunksOf(jobNo) /\ Outcome(jobNo, i)' = "raised"
          /\ \A j \in Jobs : \A l \in ChunksOf(j) : j # jobNo \/ l # i => Same(j, l)
      BY <2>2, <3>1, <3>2, <3>3
    <3>5. PICK k \in {jobNo} : TRUE
      OBVIOUS
    <3>6. Table' = [Table EXCEPT ![k][i] = "raised"]
      BY <2>1, <3>4, <3>5, TableMoves
    <3>7. \A l \in ChunksOf(jobNo) : Outcome(jobNo, l) = "todo" <=> l >= i
      BY <2>3, <2>4, <3>3, SettledReads
    <3>8. Phase' = "idle"
      BY <2>8 DEF Phase, InDispatch
    <3> QED BY <2>1, <2>5, <3>4, <3>5, <3>6, <3>7, <3>8, AbstractRaises
  <2> QED BY <1>6, <2>7, <2>8 DEF InlineChunk
<1>7. CASE InlineReturn \/ ReturnToCaller
  <2>1. InDispatch /\ callerPc' = "idle" /\ UNCHANGED <<data, lost, jobNo>>
    BY <1>7 DEF InlineReturn, ReturnToCaller, InDispatch, chunkVars
  <2>2. jobNo \in Jobs
    BY <2>1 DEF IInv, CallerInv
  <2>3. \A i \in ChunksOf(jobNo) : Settled(jobNo, i)
    <3>1. CASE InlineReturn
      BY <3>1 DEF InlineReturn, BehindSettled, ChunksOf
    <3>2. CASE ReturnToCaller
      BY <3>2, SoloSettled DEF ReturnToCaller, Armed
    <3> QED BY <1>7, <3>1, <3>2
  <2>4. ASSUME NEW j \in Jobs, NEW i \in ChunksOf(j) PROVE Same(j, i)
    <3>1. CASE j = jobNo
      BY <1>1, <2>1, <2>3, <3>1, OutcomeStays DEF Settled
    <3>2. CASE j # jobNo
      BY <1>1, <2>1, <3>2, OutcomeStays DEF Current
    <3> QED BY <3>1, <3>2
  <2>5. Phase = "busy" /\ Phase' = "idle"
    BY <2>1 DEF Phase, InDispatch
  <2>6. \A i \in ChunksOf(jobNo) : Outcome(jobNo, i) # "todo"
    BY <2>3, SettledReads
  <2> QED BY <2>1, <2>2, <2>4, <2>5, <2>6, TableStays, AbstractReturns
<1>8. CASE ArmFn \/ ArmRange \/ ArmNext \/ ArmActive \/ NotifyAll \/ AwaitDone
  <2>1. InDispatch /\ InDispatch' /\ UNCHANGED <<data, lost, jobNo>>
    BY <1>8 DEF ArmFn, ArmRange, ArmNext, ArmActive, NotifyAll, AwaitDone, InDispatch, chunkVars
  <2> QED BY <1>2, <2>1 DEF Phase
<1>9. CASE Shutdown \/ Joined
  <2>1. /\ callerPc \in {"idle", "join"} /\ callerPc' \in {"join", "gone"}
        /\ UNCHANGED <<data, lost, jobNo>>
    BY <1>9 DEF Shutdown, Joined, chunkVars
  <2>2. ~InDispatch /\ ~InDispatch'
    BY <2>1 DEF InDispatch
  <2>3. InDispatch' = InDispatch
    BY <2>1 DEF InDispatch
  <2>4. Phase' = Phase
    BY <2>1, <2>2 DEF Phase
  <2> QED BY <1>2, <2>1, <2>3, <2>4
<1>10. ASSUME NEW w \in Workers, Wake(w) PROVE UNCHANGED Abstract!vars
  BY <1>3, <1>10 DEF Wake, callerVars, chunkVars
<1>11. ASSUME NEW w \in Workers, Leave(w) PROVE UNCHANGED Abstract!vars
  <2>1. /\ UNCHANGED <<data, lost, jobNo>> /\ callerPc' \in {callerPc, "wait"}
        /\ callerPc' # callerPc => callerPc = "asleep"
    BY <1>11 DEF Leave, chunkVars
  <2> QED BY <1>2, <2>1 DEF InDispatch, Phase
<1>12. ASSUME NEW w \in Workers, Terminate(w) PROVE Abstract!Next
  <2>1. Draining(w) /\ callerPc' = "aborted" /\ UNCHANGED <<data, lost, jobNo>>
    BY <1>12 DEF Terminate, Draining, Resting, chunkVars
  <2>2. InDispatch /\ ~InDispatch' /\ jobNo \in Jobs
    BY <2>1, SoloBusy DEF Armed, InDispatch, IInv, CallerInv
  <2>3. ASSUME NEW j \in Jobs, NEW i \in ChunksOf(j)
        PROVE  Same(j, i) \/ (j = jobNo /\ Outcome(j, i) = "todo" /\ Outcome(j, i)' = "raised")
    <3>1. CASE j = jobNo /\ data[j][i] = "dirty" /\ <<j, i>> \notin lost
      BY <2>1, <2>2, <3>1, OutcomeReads DEF Reads, Current
    <3>2. CASE ~(j = jobNo /\ data[j][i] = "dirty" /\ <<j, i>> \notin lost)
      BY <1>1, <2>1, <2>2, <3>2, OutcomeStays DEF Current
    <3> QED BY <3>1, <3>2
  <2>4. Phase = "busy" /\ Phase' = "dead"
    BY <2>1, <2>2 DEF Phase
  <2> QED BY <2>1, <2>2, <2>3, <2>4, AbstractAborts
<1>13. ASSUME NEW w \in Workers, DrainStep(w) PROVE [Abstract!Next]_(Abstract!vars)
  <2>1. Draining(w) /\ UNCHANGED <<callerPc, jobNo>>
    BY <1>13, DrainFrame DEF IInv
  <2>2. InDispatch /\ InDispatch' /\ jobNo \in Jobs
    BY <2>1, SoloBusy DEF Armed, InDispatch, IInv, CallerInv
  <2>3. Phase = "busy" /\ Phase' = "busy"
    BY <2>2 DEF Phase
  <2>4. ASSUME NEW j \in Jobs, NEW i \in ChunksOf(j), j # jobNo \/ i # index[w] PROVE Same(j, i)
    <3>1. i \in Indices
      BY ChunksAreIndexed
    <3>2. data'[j][i] = data[j][i] /\ (<<j, i>> \in lost' <=> <<j, i>> \in lost)
      BY <1>13, <2>4, <3>1, DrainTouches
    <3> QED BY <1>1, <2>1, <2>2, <3>2, OutcomeStays DEF Current
  <2>5. CASE ~Engaged(w) /\ ~Engaged(w)'
    <3>1. UNCHANGED <<data, lost>>
      BY <1>13, <2>5 DEF DrainStep, Claim, Check, Load, Capture, RunCompletes, RunDropped, RunThrows,
         Recover, chunkVars, Engaged
    <3> QED BY <1>3, <2>1, <3>1
  <2>6. CASE Engaged(w) \/ Engaged(w)'
    <3>1. index[w] \in ChunksOf(jobNo) /\ index'[w] = index[w]
      BY <1>13, <2>6, OwnChunk
    <3>2. PICK i \in ChunksOf(jobNo) : i = index[w]
      BY <3>1
    <3>3. Outcome(jobNo, i) = "todo"
      <4>1. <<jobNo, i>> \notin lost /\ data[jobNo][i] \in {"in", "dirty"}
        <5>1. CASE Engaged(w)
          BY <3>2, <5>1 DEF EngagedOpen
        <5>2. CASE ~Engaged(w)
          <6>1. workerPc[w] = "load"
            BY <1>13, <2>6, <5>2 DEF DrainStep, Claim, Check, Load, Capture, RunCompletes, RunDropped,
               RunThrows, Recover, Engaged, Goto, IInv, TypeOK, WorkerTypeOK
          <6> QED BY <3>2, <6>1, FreshOnArrival DEF Fresh
        <5> QED BY <5>1, <5>2
      <4> QED BY <2>2, <4>1, OutcomeReads DEF Reads, Current
    <3>4. CASE Engaged(w)'
      <4>1. <<jobNo, i>> \notin lost' /\ data'[jobNo][i] \in {"in", "dirty"}
        BY <1>13, <3>2, <3>4, OwnChunk DEF Engaged, HasIndex, RunCompletes, Goto, IInv, TypeOK, WorkerTypeOK
      <4>2. Outcome(jobNo, i)' = "todo"
        BY <2>1, <2>2, <4>1, OutcomeReads DEF Reads, Current
      <4>3. \A j \in Jobs : \A l \in ChunksOf(j) : Same(j, l)
        BY <2>1, <2>4, <3>2, <3>3, <4>2
      <4> QED BY <2>1, <2>3, <4>3, TableStays, AbstractStutters
    <3>5. CASE ~Engaged(w)'
      <4>1. \/ <<jobNo, i>> \in lost'
            \/ <<jobNo, i>> \notin lost' /\ data'[jobNo][i] \in {"out", "bad"}
        BY <1>13, <2>6, <3>2, <3>5, OwnChunk
      <4>2. PICK o \in {"done", "lost"} : Outcome(jobNo, i)' = o
        BY <2>1, <4>1, OutcomeReads DEF Reads
      <4>3. PICK k \in {jobNo} : TRUE
        OBVIOUS
      <4>4. Table' = [Table EXCEPT ![k][i] = o]
        BY <2>1, <2>2, <2>4, <3>2, <4>2, <4>3, TableMoves
      <4> QED BY <2>1, <2>2, <2>3, <3>3, <4>3, <4>4, AbstractSettles
    <3> QED BY <3>4, <3>5
  <2> QED BY <2>5, <2>6
<1>14. CASE UNCHANGED vars
  BY <1>3, <1>14 DEF vars, callerVars, chunkVars
<1> QED BY <1>4, <1>5, <1>6, <1>7, <1>8, <1>9, <1>10, <1>11, <1>12, <1>13, <1>14
        DEF Next, CallerStep, WorkerStep, Ended

(* With one worker the pool is a bulk-synchronous dispatcher, for any number   *)
(* of dispatches of any kind and size, inline or handed over, whatever is     *)
(* dropped, thrown, retried or given up: each call settles its chunks one by  *)
(* one and returns when the last is settled, or raises the exception of the   *)
(* chunk it stopped at, or dies of an exception nobody can catch; and the     *)
(* chunks of a call that is over never change.                                *)
THEOREM SoloIsBulkSynchronous ==
  ASSUME Hardware = 1
  PROVE  Spec => RefinesDispatch
<1>1. NobodyLate
  BY DEF NobodyLate
<1>2. Init => Abstract!Init
  <2> SUFFICES ASSUME Init PROVE Abstract!Init
    OBVIOUS
  <2>1. \A j \in Jobs : \A i \in ChunksOf(j) : Outcome(j, i) = "todo"
    BY ChunksAreIndexed, SettledReads DEF Init, Fresh
  <2>2. Phase = "idle" /\ jobNo = 0
    BY DEF Init, Phase, InDispatch
  <2> QED BY <2>1, <2>2 DEF Abstract!Init, Abstract!ChunksOf, ChunksOf, Jobs, Phase
<1>3. IInv /\ ClaimInv /\ WorkInv /\ [Next]_vars => [Abstract!Next]_(Abstract!vars)
  BY SoloRefines
<1> QED BY <1>1, <1>2, <1>3, Invariance, DispatchInvariance, PTL
        DEF Spec, RefinesDispatch, Abstract!Spec
=============================================================================
