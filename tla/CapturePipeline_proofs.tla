----------------------- MODULE CapturePipeline_proofs -----------------------
(***************************************************************************)
(* Proofs about CapturePipeline, for any visit, any number of handlers and *)
(* workers, and any bounds.                                                *)
(***************************************************************************)
EXTENDS CapturePipeline, SequenceTheorems, TLAPS

----------------------------------------------------------------------------
(* Types and references. *)

Sound == TypeOK /\ Linked

\* What is true of every visit before a photograph is taken.
LEMMA SoundInit == Init => Sound
<1> SUFFICES ASSUME Init PROVE Sound
  OBVIOUS
<1> USE BoundAssumption, NoneAssumption DEF Init
<1>1. Minted = {} /\ Live = {} /\ Len(runs) = 0
  BY DEF Minted, Live, AbsentJobs
<1>2. capture \in [Captures -> CaptureRow] /\ job \in [Jobs -> JobRow]
  BY DEF CaptureRow, JobRow, Status, Errors
<1>3. /\ committer \in [Committers -> CommitterState]
      /\ closer \in [Closers -> CloserState]
      /\ worker \in [Workers -> WorkerState]
  BY <1>1 DEF CommitterState, CloserState, WorkerState,
              IdleCommitter, IdleCloser, IdleWorker, Errors
<1>4. runs \in Seq(Captures) /\ broker \subseteq [job : Live, retries : Nat]
  OBVIOUS
<1>5. /\ 0 \in 0..MaxCheckouts /\ 0 \in 0..MaxFaults
      /\ osaBefore \in 0..Len(runs) /\ osaAfter \in 0..Len(runs)
  BY <1>1
<1>6. TypeOK
  BY <1>2, <1>3, <1>4, <1>5 DEF TypeOK
<1>7. Linked
  BY <1>1 DEF Linked, IdleCommitter, IdleWorker
<1> QED BY <1>6, <1>7 DEF Sound

\* A write of a job's status and error code leaves every row in place.
LEMMA Restatus ==
  ASSUME job \in [Jobs -> JobRow], NEW j \in Live,
         NEW s \in Status \ {"ABSENT"}, NEW e \in Errors,
         \/ job' = [job EXCEPT ![j].status = s]
         \/ job' = [job EXCEPT ![j].status = s, ![j].error = e]
  PROVE  /\ job' \in [Jobs -> JobRow]
         /\ Live' = Live
         /\ \A i \in Jobs : job'[i].capture = job[i].capture
         /\ \A i \in Jobs : i # j => job'[i] = job[i]
         /\ job'[j].status = s
BY DEF JobRow, Live, AbsentJobs, Status

LEMMA SoundPresign == ASSUME Sound, NEW p \in Photos, Presign(p) PROVE Sound'
<1> PICK c \in Captures \ Minted : capture' = [capture EXCEPT ![c].photo = p]
  BY DEF Presign
<1>1. /\ capture' \in [Captures -> CaptureRow]
      /\ Minted' = Minted \cup {c}
      /\ \A d \in Minted : capture'[d] = capture[d]
  BY NoneAssumption DEF Sound, TypeOK, CaptureRow, Minted
<1>2. TypeOK'
  BY <1>1 DEF Presign, history, Sound, TypeOK, Live, AbsentJobs,
              CommitterState, CloserState, WorkerState
<1>3. Linked'
  BY <1>1 DEF Presign, history, Sound, Linked, Live, AbsentJobs
<1> QED BY <1>2, <1>3 DEF Sound

LEMMA SoundLookup ==
  ASSUME Sound, NEW h \in Committers, NEW c \in Captures, CommitLookup(h, c)
  PROVE  Sound'
BY NoneAssumption
   DEF CommitLookup, Sound, TypeOK, Linked, Live, AbsentJobs, Minted, db, Inserting,
       CommitterState, CloserState

LEMMA SoundInsert == ASSUME Sound, NEW h \in Committers, CommitInsert(h) PROVE Sound'
<1>0. committer[h].pc = "insert"
  BY DEF CommitInsert
<1>1. committer[h].capture \in Minted
  BY <1>0 DEF Sound, Linked
<1> DEFINE c == committer[h].capture
<1>2. CASE /\ committer' = [committer EXCEPT ![h] = IdleCommitter]
           /\ UNCHANGED <<capture, job>>
  BY <1>2 DEF CommitInsert, history, Sound, TypeOK, Linked, Live, AbsentJobs, Minted,
              CommitterState, CloserState, IdleCommitter
<1>3. ASSUME NEW j \in AbsentJobs,
             job' = [job EXCEPT ![j] = [capture |-> c, status |-> "QUEUED", error |-> "NONE"]],
             committer' = [committer EXCEPT ![h].pc = "enqueue", ![h].job = j],
             capture' = [capture EXCEPT ![c].keyed = TRUE]
      PROVE  Sound'
  <2>1. /\ job' \in [Jobs -> JobRow]
        /\ Live' = Live \cup {j}
        /\ \A i \in Live : job'[i] = job[i]
        /\ job'[j].capture = c
    BY <1>1, <1>3 DEF Sound, TypeOK, JobRow, Status, Errors, Live, AbsentJobs, Minted
  <2>2. /\ capture' \in [Captures -> CaptureRow]
        /\ Minted' = Minted
        /\ capture'[c].keyed
        /\ \A d \in Captures : capture[d].keyed => capture'[d].keyed
    BY <1>1, <1>3 DEF Sound, TypeOK, CaptureRow, Minted
  <2>3. /\ committer' \in [Committers -> CommitterState]
        /\ committer'[h].pc = "enqueue" /\ committer'[h].job = j
        /\ \A g \in Committers : g # h => committer'[g] = committer[g]
    BY <1>3 DEF Sound, TypeOK, CommitterState, AbsentJobs
  <2>4. UNCHANGED <<runs, osaBefore, osaAfter, closedAt, broker, closer, worker, history>>
    BY DEF CommitInsert
  <2>5. broker' \subseteq [job : Live', retries : Nat]
    BY <2>1, <2>4 DEF Sound, TypeOK
  <2>6. closer' \in [Closers -> CloserState']
    BY <2>4 DEF Sound, TypeOK, CloserState
  <2>7. TypeOK'
    BY <2>1, <2>2, <2>3, <2>4, <2>5, <2>6 DEF history, Sound, TypeOK
  <2>8. Linked'
    <3>1. \A i \in Live' : job'[i].capture \in Minted' /\ capture'[job'[i].capture].keyed
      BY <1>1, <2>1, <2>2 DEF Sound, Linked, Minted
    <3>2. \A i \in 1..Len(runs') : runs'[i] \in Minted'
      BY <2>2, <2>4 DEF Sound, Linked
    <3>3. \A g \in Committers :
            /\ committer'[g].pc = "insert" => committer'[g].capture \in Minted'
            /\ committer'[g].pc = "enqueue" => committer'[g].job \in Live'
      BY <2>1, <2>2, <2>3 DEF Sound, Linked
    <3> QED BY <2>1, <2>4, <3>1, <3>2, <3>3 DEF Sound, Linked
  <2> QED BY <2>7, <2>8 DEF Sound
<1> QED BY <1>2, <1>3 DEF CommitInsert

LEMMA SoundEnqueue == ASSUME Sound, NEW h \in Committers, CommitEnqueue(h) PROVE Sound'
<1>1. /\ UNCHANGED <<db, closer, worker, history>>
      /\ Live' = Live /\ Minted' = Minted /\ CloserState' = CloserState
  BY DEF CommitEnqueue, db, Live, AbsentJobs, Minted, CloserState
<1>2. /\ committer' \in [Committers -> CommitterState]
      /\ broker' \subseteq [job : Live, retries : Nat]
  BY DEF CommitEnqueue, Sound, TypeOK, Linked, IdleCommitter, CommitterState
<1>3. TypeOK'
  BY <1>1, <1>2 DEF db, history, Sound, TypeOK
<1>4. Linked'
  BY <1>1 DEF CommitEnqueue, IdleCommitter, db, Sound, Linked, TypeOK
<1> QED BY <1>3, <1>4 DEF Sound

LEMMA SoundEnqueueLost ==
  ASSUME Sound, NEW h \in Committers, CommitEnqueueLost(h) PROVE Sound'
<1>1. /\ UNCHANGED <<db, broker, closer, worker, checkouts, redelivered, raced, overtaken>>
      /\ Live' = Live /\ Minted' = Minted /\ CloserState' = CloserState
  BY DEF CommitEnqueueLost, db, Live, AbsentJobs, Minted, CloserState
<1>2. /\ committer' \in [Committers -> CommitterState]
      /\ faults' \in 0..MaxFaults /\ stranded' \subseteq Live
  BY BoundAssumption
     DEF CommitEnqueueLost, Sound, TypeOK, Linked, IdleCommitter, CommitterState
<1>3. TypeOK'
  BY <1>1, <1>2 DEF db, Sound, TypeOK
<1>4. Linked'
  BY <1>1 DEF CommitEnqueueLost, IdleCommitter, db, Sound, Linked, TypeOK
<1> QED BY <1>3, <1>4 DEF Sound

\* A worker that goes idle, or changes its place in the task, keeps its job.
LEMMA WorkerSound ==
  ASSUME Sound, NEW w \in Workers,
         worker[w].pc # "idle",
         \/ worker' = [worker EXCEPT ![w] = IdleWorker]
         \/ worker' = [worker EXCEPT ![w].pc = "retry"]
  PROVE  /\ worker[w].job \in Live
         /\ worker[w].retries \in Nat
         /\ worker' \in [Workers -> WorkerState]
         /\ \A v \in Workers : worker'[v].pc # "idle" => worker'[v].job \in Live
<1>1. /\ worker \in [Workers -> WorkerState]
      /\ \A v \in Workers : worker[v].pc # "idle" => worker[v].job \in Live
  BY DEF Sound, TypeOK, Linked
<1>2. CASE worker' = [worker EXCEPT ![w] = IdleWorker]
  BY <1>1, <1>2 DEF WorkerState, IdleWorker, Errors
<1>3. CASE worker' = [worker EXCEPT ![w].pc = "retry"]
  BY <1>1, <1>3 DEF WorkerState
<1> QED BY <1>2, <1>3

LEMMA SoundStart ==
  ASSUME Sound, NEW w \in Workers, NEW m \in broker, WorkerStart(w, m)
  PROVE  Sound'
<1>1. m.job \in Live /\ m.job \in Jobs /\ m.retries \in Nat
  BY DEF Sound, TypeOK, Live
<1>2. /\ job' \in [Jobs -> JobRow]
      /\ Live' = Live
      /\ \A i \in Jobs : job'[i].capture = job[i].capture
  BY <1>1, Restatus DEF WorkerStart, Sound, TypeOK, Status, Errors
<1>3. /\ worker' \in [Workers -> WorkerState]
      /\ \A v \in Workers : worker'[v].pc # "idle" => worker'[v].job \in Live
  BY <1>1 DEF WorkerStart, Sound, TypeOK, Linked, WorkerState, JobRow
<1>4. TypeOK'
  BY <1>2, <1>3 DEF WorkerStart, history, Sound, TypeOK, Minted, CloserState
<1>5. Linked'
  BY <1>2, <1>3 DEF WorkerStart, Sound, Linked, Minted, Live
<1> QED BY <1>4, <1>5 DEF Sound

LEMMA ErrorTyped ==
  ASSUME Sound, NEW w \in Workers, worker[w].job \in Jobs, NEW code \in Errors
  PROVE  ErrorAfter(w, code) \in Errors
BY DEF ErrorAfter, Sound, TypeOK, JobRow

LEMMA SoundDone == ASSUME Sound, NEW w \in Workers, InferDone(w) PROVE Sound'
<1> DEFINE j == worker[w].job
<1>1. /\ j \in Live /\ j \in Jobs
      /\ worker' \in [Workers -> WorkerState]
      /\ \A v \in Workers : worker'[v].pc # "idle" => worker'[v].job \in Live
  BY WorkerSound DEF InferDone, Live
<1>2. /\ job' \in [Jobs -> JobRow]
      /\ Live' = Live
      /\ \A i \in Jobs : job'[i].capture = job[i].capture
  BY <1>1, Restatus, ErrorTyped DEF InferDone, Sound, TypeOK, Status, Errors
<1>3. job[j].capture \in Minted /\ job[j].capture \in Captures
  BY <1>1 DEF Sound, Linked, Minted
<1>4. /\ runs' \in Seq(Captures)
      /\ Len(runs') = Len(runs) + 1
      /\ \A i \in 1..Len(runs') : runs'[i] \in Minted
  BY <1>3 DEF InferDone, Sound, TypeOK, Linked
<1>5. osaBefore' \in 0..Len(runs') /\ osaAfter' \in 0..Len(runs')
  BY <1>4 DEF InferDone, BeforeAfterPersist, Sound, TypeOK
<1>6. closer' \in [Closers -> CloserState']
  <2>1. closer \in [Closers -> CloserState] /\ Len(runs) \in Nat
    BY DEF Sound, TypeOK
  <2>2. closer' = closer
    BY DEF InferDone
  <2>3. 0..Len(runs) \subseteq 0..Len(runs')
    BY <1>4, <2>1
  <2>4. CloserState \subseteq CloserState'
    BY <2>3 DEF CloserState
  <2> QED BY <2>1, <2>2, <2>4
<1>7. TypeOK'
  <2>1. UNCHANGED <<capture, closedAt, broker, committer, checkouts, faults,
                    stranded, redelivered, raced, overtaken>>
    BY DEF InferDone, history
  <2>2. Minted' = Minted /\ (0..MaxCheckouts)' = 0..MaxCheckouts
    BY <2>1 DEF Minted
  <2>3. /\ capture' \in [Captures -> CaptureRow]
        /\ committer' \in [Committers -> CommitterState]
        /\ closedAt' \in 0..MaxCheckouts /\ checkouts' \in 0..MaxCheckouts
        /\ faults' \in 0..MaxFaults
        /\ overtaken' \subseteq 0..MaxCheckouts
    BY <2>1 DEF Sound, TypeOK
  <2>4. /\ broker' \subseteq [job : Live', retries : Nat]
        /\ stranded' \subseteq Live' /\ redelivered' \subseteq Live'
        /\ raced' \subseteq Minted'
    BY <1>2, <2>1, <2>2 DEF Sound, TypeOK
  <2> QED BY <1>1, <1>2, <1>4, <1>5, <1>6, <2>3, <2>4 DEF TypeOK
<1>8. Linked'
  <2>1. UNCHANGED <<capture, committer>> /\ Live \subseteq Jobs
    BY DEF InferDone, Live
  <2>2. Minted' = Minted
    BY <2>1 DEF Minted
  <2>3. \A i \in Live' : job'[i].capture \in Minted' /\ capture'[job'[i].capture].keyed
    BY <1>2, <2>1, <2>2 DEF Sound, Linked
  <2>4. \A i \in 1..Len(runs') : runs'[i] \in Minted'
    BY <1>4, <2>2
  <2>5. \A h \in Committers :
          /\ committer'[h].pc = "insert" => committer'[h].capture \in Minted'
          /\ committer'[h].pc = "enqueue" => committer'[h].job \in Live'
    BY <1>2, <2>1, <2>2 DEF Sound, Linked
  <2>6. \A v \in Workers : worker'[v].pc # "idle" => worker'[v].job \in Live'
    BY <1>1, <1>2
  <2> QED BY <2>3, <2>4, <2>5, <2>6 DEF Linked
<1> QED BY <1>7, <1>8 DEF Sound

\* The steps that only rewrite the job a worker holds.
LEMMA SoundFail ==
  ASSUME Sound, NEW w \in Workers,
         InferBadPhoto(w) \/ InferTransient(w) \/ MarkFailed(w)
  PROVE  Sound'
<1>1. /\ worker[w].job \in Live /\ worker[w].job \in Jobs
      /\ worker' \in [Workers -> WorkerState]
      /\ \A v \in Workers : worker'[v].pc # "idle" => worker'[v].job \in Live
  BY WorkerSound DEF InferBadPhoto, InferTransient, MarkFailed, Live
<1>2. /\ job' \in [Jobs -> JobRow]
      /\ Live' = Live
      /\ \A i \in Jobs : job'[i].capture = job[i].capture
  BY <1>1, Restatus, ErrorTyped
     DEF InferBadPhoto, InferTransient, MarkFailed, Sound, TypeOK, Status, Errors
<1>3. TypeOK'
  BY <1>1, <1>2 DEF InferBadPhoto, InferTransient, MarkFailed, history,
                    Sound, TypeOK, Minted, CloserState
<1>4. Linked'
  BY <1>1, <1>2 DEF InferBadPhoto, InferTransient, MarkFailed, Sound, Linked, Minted, Live
<1> QED BY <1>3, <1>4 DEF Sound

\* The steps that only move the message a worker holds.
LEMMA SoundMessage ==
  ASSUME Sound, NEW w \in Workers,
         Retry(w) \/ WorkerStrands(w) \/ WorkerLost(w) \/ Redeliver(w)
  PROVE  Sound'
<1>1. worker[w].pc # "idle" /\ worker[w].job \in Live /\ worker[w].retries \in Nat
  BY DEF Retry, WorkerStrands, WorkerLost, Redeliver, Sound, TypeOK, Linked, WorkerState
<1>2. /\ worker' \in [Workers -> WorkerState]
      /\ \A v \in Workers : worker'[v].pc # "idle" => worker'[v].job \in Live
  BY <1>1, WorkerSound DEF Retry, WorkerStrands, WorkerLost, Redeliver, Sound, TypeOK, Linked
<1>3. UNCHANGED db /\ Live' = Live /\ Minted' = Minted
  BY DEF Retry, WorkerStrands, WorkerLost, Redeliver, db, Live, AbsentJobs, Minted
<1>4. /\ broker' \subseteq [job : Live, retries : Nat]
      /\ faults' \in 0..MaxFaults
      /\ stranded' \subseteq Live
      /\ redelivered' \subseteq Live
  BY <1>1, BoundAssumption, SMTT(30)
     DEF Retry, WorkerStrands, WorkerLost, Redeliver, Held, history, Sound, TypeOK
<1>5. UNCHANGED <<committer, closer, checkouts, raced, overtaken>>
  BY DEF Retry, WorkerStrands, WorkerLost, Redeliver, history
<1>6. TypeOK'
  BY <1>2, <1>3, <1>4, <1>5 DEF db, Sound, TypeOK, CloserState
<1>7. Linked'
  BY <1>2, <1>3, <1>5 DEF db, Sound, Linked
<1> QED BY <1>6, <1>7 DEF Sound

LEMMA SoundCheckout ==
  ASSUME Sound, NEW k \in Closers, CheckoutFigure(k) \/ CheckoutStep(k)
  PROVE  Sound'
<1>1. ASSUME CheckoutFigure(k) PROVE closer' \in [Closers -> CloserState] /\ checkouts' \in 0..MaxCheckouts
  <2>1. LatestAfter \subseteq 0..Len(runs)
    BY DEF LatestAfter, AfterRuns, Sound, TypeOK
  <2>2. PICK i \in LatestAfter :
          closer' = [closer EXCEPT ![k] = [pc |-> "pending", number |-> checkouts + 1,
                                           loaded |-> osaAfter, wasClosed |-> closedAt # 0,
                                           figure |-> i, pending |-> FALSE]]
    BY <1>1 DEF CheckoutFigure
  <2>3. checkouts + 1 \in 0..MaxCheckouts
    BY <1>1, BoundAssumption DEF CheckoutFigure, Sound, TypeOK
  <2> QED BY <1>1, <2>1, <2>2, <2>3 DEF CheckoutFigure, Sound, TypeOK, CloserState
<1>2. ASSUME CheckoutPending(k) PROVE closer' \in [Closers -> CloserState]
  <2>1. Pending \in BOOLEAN
    BY DEF Pending
  <2> QED BY <1>2, <2>1, ZenonT(30) DEF CheckoutPending, Sound, TypeOK, CloserState
<1>3. ASSUME CheckoutWrite(k)
      PROVE  /\ closer' \in [Closers -> CloserState]
             /\ osaAfter' \in 0..Len(runs)
             /\ closedAt' \in 0..MaxCheckouts
  BY <1>3, BoundAssumption, SMTT(30) DEF CheckoutWrite, IdleCloser, Sound, TypeOK, CloserState
<1>4. /\ UNCHANGED <<capture, job, runs, osaBefore, broker, committer, worker,
                     faults, stranded, redelivered, raced>>
      /\ Live' = Live /\ Minted' = Minted
  BY DEF CheckoutFigure, CheckoutStep, CheckoutPending, CheckoutWrite, Overtake, db, history,
         Live, AbsentJobs, Minted
<1>5. overtaken' \subseteq 0..MaxCheckouts
  <2>1. /\ overtaken \subseteq 0..MaxCheckouts
        /\ \A m \in Closers : closer[m].number \in 0..MaxCheckouts
    BY DEF Sound, TypeOK, CloserState
  <2> QED BY <2>1 DEF CheckoutFigure, CheckoutStep, CheckoutPending, CheckoutWrite, Overtake, history
<1>6. TypeOK'
  <2>1. /\ closer' \in [Closers -> CloserState]
        /\ osaAfter' \in 0..Len(runs) /\ closedAt' \in 0..MaxCheckouts
        /\ checkouts' \in 0..MaxCheckouts
    BY <1>1, <1>2, <1>3
       DEF CheckoutFigure, CheckoutStep, CheckoutPending, CheckoutWrite, Overtake, db, history,
           Sound, TypeOK
  <2>2. CloserState' = CloserState
    BY <1>4 DEF CloserState
  <2> QED BY <1>4, <1>5, <2>1, <2>2 DEF Sound, TypeOK
<1>7. Linked'
  BY <1>4 DEF Sound, Linked
<1> QED BY <1>6, <1>7 DEF Sound

LEMMA SoundNext == Sound /\ [Next]_vars => Sound'
<1> SUFFICES ASSUME Sound, [Next]_vars PROVE Sound'
  OBVIOUS
<1>1. CASE UNCHANGED vars
  BY <1>1 DEF vars, Sound, TypeOK, Linked, Live, AbsentJobs, Minted, CloserState
<1>2. ASSUME NEW p \in Photos, Presign(p) PROVE Sound'
  BY <1>2, SoundPresign
<1>3. ASSUME NEW c \in Captures, CommitReplay(c) PROVE Sound'
  BY <1>1, <1>3 DEF CommitReplay
<1>4. ASSUME NEW h \in Committers, NEW c \in Captures, CommitLookup(h, c) PROVE Sound'
  BY <1>4, SoundLookup
<1>5. ASSUME NEW h \in Committers, CommitStep(h) \/ CommitEnqueueLost(h) PROVE Sound'
  BY <1>5, SoundInsert, SoundEnqueue, SoundEnqueueLost DEF CommitStep
<1>6. ASSUME NEW w \in Workers,
             WorkerStep(w) \/ WorkerStrands(w) \/ WorkerLost(w) \/ Redeliver(w)
      PROVE  Sound'
  BY <1>6, SoundStart, SoundDone, SoundFail, SoundMessage DEF WorkerStep
<1>7. ASSUME NEW k \in Closers, CheckoutFigure(k) \/ CheckoutStep(k) PROVE Sound'
  BY <1>7, SoundCheckout
<1> QED BY <1>1, <1>2, <1>3, <1>4, <1>5, <1>6, <1>7 DEF Next

\* Every table, handler, worker and message stays well-formed, and refers only
\* to rows that exist.
THEOREM TypeCorrect == Spec => []TypeOK
<1>1. Sound => TypeOK
  BY DEF Sound
<1> QED BY <1>1, SoundInit, SoundNext, PTL DEF Spec

----------------------------------------------------------------------------
(* Jobs: tended until they are settled, and DONE only with a result. *)

Watched == Sound /\ NoOrphanJob /\ DoneHasResult

LEMMA WatchedInit == Init => NoOrphanJob /\ DoneHasResult
BY DEF Init, NoOrphanJob, DoneHasResult

\* A job keeps whoever tended it when nothing about it changes.
LEMMA StillTended ==
  ASSUME NEW j \in Jobs, Tended(j) \/ j \in stranded,
         broker \subseteq broker', stranded \subseteq stranded',
         \A h \in Committers : committer[h].pc = "enqueue" => committer'[h] = committer[h],
         \A w \in Workers : worker[w].pc # "idle" => worker'[w].pc # "idle" /\ worker'[w].job = worker[w].job
  PROVE  Tended(j)' \/ j \in stranded'
BY DEF Tended

LEMMA WatchedCommit ==
  ASSUME Watched,
         \/ \E p \in Photos : Presign(p)
         \/ \E h \in Committers, c \in Captures : CommitLookup(h, c)
         \/ \E h \in Committers : CommitStep(h) \/ CommitEnqueueLost(h)
  PROVE  NoOrphanJob' /\ DoneHasResult'
<1>1. ASSUME NEW p \in Photos, Presign(p) PROVE NoOrphanJob' /\ DoneHasResult'
  BY <1>1 DEF Watched, Presign, history, NoOrphanJob, DoneHasResult, Tended
<1>2. ASSUME NEW h \in Committers, NEW c \in Captures, CommitLookup(h, c)
      PROVE  NoOrphanJob' /\ DoneHasResult'
  <2>1. \A g \in Committers : committer[g].pc = "enqueue" => committer'[g] = committer[g]
    BY <1>2 DEF CommitLookup, Watched, Sound, TypeOK
  <2>2. NoOrphanJob'
    BY <1>2, <2>1, StillTended DEF Watched, CommitLookup, db, NoOrphanJob
  <2> QED BY <1>2, <2>2 DEF Watched, CommitLookup, db, DoneHasResult
<1>3. ASSUME NEW h \in Committers, CommitInsert(h) PROVE NoOrphanJob' /\ DoneHasResult'
  <2>1. \A g \in Committers : committer[g].pc = "enqueue" => committer'[g] = committer[g]
    BY <1>3 DEF CommitInsert, Watched, Sound, TypeOK
  <2>2. \A j \in Jobs : \/ job'[j] = job[j]
                        \/ /\ job'[j].status = "QUEUED"
                           /\ committer'[h].pc = "enqueue"
                           /\ committer'[h].job = j
    <3>1. ASSUME NEW j \in Jobs,
                 committer' = [committer EXCEPT ![h].pc = "enqueue", ![h].job = j]
          PROVE  committer'[h].pc = "enqueue" /\ committer'[h].job = j
      BY <3>1 DEF Watched, Sound, TypeOK, CommitterState
    <3>2. ASSUME NEW j \in AbsentJobs,
                 job' = [job EXCEPT ![j] = [capture |-> committer[h].capture,
                                            status |-> "QUEUED", error |-> "NONE"]]
          PROVE  job'[j].status = "QUEUED" /\ \A i \in Jobs : i # j => job'[i] = job[i]
      BY <3>2 DEF Watched, Sound, TypeOK, JobRow, AbsentJobs
    <3>3. \/ UNCHANGED job
          \/ \E j \in AbsentJobs :
               /\ job' = [job EXCEPT ![j] = [capture |-> committer[h].capture,
                                             status |-> "QUEUED", error |-> "NONE"]]
               /\ committer' = [committer EXCEPT ![h].pc = "enqueue", ![h].job = j]
      BY <1>3 DEF CommitInsert
    <3>4. AbsentJobs \subseteq Jobs
      BY DEF AbsentJobs
    <3> QED BY <3>1, <3>2, <3>3, <3>4
  <2>3. NoOrphanJob'
    <3> SUFFICES ASSUME NEW j \in Jobs, job'[j].status \in {"QUEUED", "RUNNING"}
                 PROVE  Tended(j)' \/ j \in stranded'
      BY DEF NoOrphanJob
    <3>1. CASE job'[j] = job[j]
      BY <1>3, <2>1, <3>1, StillTended DEF CommitInsert, history, Watched, NoOrphanJob
    <3>2. CASE committer'[h].pc = "enqueue" /\ committer'[h].job = j
      BY <3>2 DEF Tended
    <3> QED BY <2>2, <3>1, <3>2
  <2>4. DoneHasResult'
    BY <1>3, <2>2 DEF CommitInsert, Watched, DoneHasResult
  <2> QED BY <2>3, <2>4
<1>4. ASSUME NEW h \in Committers, CommitEnqueue(h) \/ CommitEnqueueLost(h)
      PROVE  NoOrphanJob' /\ DoneHasResult'
  <2>1. \A g \in Committers : g # h => committer'[g] = committer[g]
    BY <1>4 DEF CommitEnqueue, CommitEnqueueLost, Watched, Sound, TypeOK
  <2>2. /\ UNCHANGED <<job, runs, worker>>
        /\ broker \subseteq broker' /\ stranded \subseteq stranded'
        /\ \/ \E m \in broker' : m.job = committer[h].job
           \/ committer[h].job \in stranded'
    <3>1. [job |-> committer[h].job, retries |-> 0].job = committer[h].job
      OBVIOUS
    <3> QED BY <1>4, <3>1 DEF CommitEnqueue, CommitEnqueueLost, db, history
  <2>3. NoOrphanJob'
    BY <2>1, <2>2 DEF Watched, NoOrphanJob, Tended
  <2> QED BY <2>2, <2>3 DEF Watched, DoneHasResult
<1> QED BY <1>1, <1>2, <1>3, <1>4 DEF CommitStep

LEMMA WatchedWorker ==
  ASSUME Watched, NEW w \in Workers,
         WorkerStep(w) \/ WorkerStrands(w) \/ WorkerLost(w) \/ Redeliver(w)
  PROVE  NoOrphanJob' /\ DoneHasResult'
<1> DEFINE j == worker[w].job
<1>0. \A v \in Workers : worker[v].pc # "idle" => worker[v].job \in Live /\ worker[v].job \in Jobs
  BY DEF Watched, Sound, Linked, Live
<1>1. ASSUME NEW m \in broker, WorkerStart(w, m) PROVE NoOrphanJob' /\ DoneHasResult'
  <2>1. /\ m.job \in Jobs
        /\ worker'[w].pc # "idle" /\ worker'[w].job = m.job
        /\ \A v \in Workers : v # w => worker'[v] = worker[v]
        /\ \A i \in Jobs : i # m.job => job'[i] = job[i]
        /\ job'[m.job].status = "RUNNING"
    BY <1>1 DEF WorkerStart, Watched, Sound, TypeOK, Live, JobRow
  <2>2. NoOrphanJob'
    BY <1>1, <2>1 DEF WorkerStart, history, Watched, NoOrphanJob, Tended
  <2>3. DoneHasResult'
    BY <1>1, <2>1 DEF WorkerStart, Watched, DoneHasResult
  <2> QED BY <2>2, <2>3
<1>2. ASSUME InferDone(w) PROVE NoOrphanJob' /\ DoneHasResult'
  <2>1. /\ j \in Jobs /\ j \in Live
        /\ \A v \in Workers : v # w => worker'[v] = worker[v]
        /\ \A i \in Jobs : i # j => job'[i] = job[i]
        /\ job'[j].status = "DONE" /\ job'[j].capture = job[j].capture
    <3>1. j \in Live /\ j \in Jobs
      BY <1>0, <1>2 DEF InferDone
    <3>2. ErrorAfter(w, "NONE") \in Errors
      BY <3>1, ErrorTyped DEF Watched, Errors
    <3>3. job \in [Jobs -> JobRow]
      BY DEF Watched, Sound, TypeOK
    <3>4. /\ \A i \in Jobs : i # j => job'[i] = job[i]
          /\ job'[j].status = "DONE" /\ job'[j].capture = job[j].capture
      BY <1>2, <3>1, <3>2, <3>3, Restatus DEF InferDone, Status
    <3> QED BY <1>2, <3>1, <3>4 DEF InferDone, Watched, Sound, TypeOK
  <2>2. NoOrphanJob'
    <3>1. UNCHANGED <<broker, committer, stranded>>
      BY <1>2 DEF InferDone, history
    <3> QED BY <2>1, <3>1 DEF Watched, NoOrphanJob, Tended
  <2>3. /\ job[j].capture \in Captures
        /\ Len(runs') = Len(runs) + 1 /\ Len(runs) \in Nat
        /\ runs'[Len(runs) + 1] = job[j].capture
        /\ \A i \in 1..Len(runs) : runs'[i] = runs[i]
    <3>1. job[j].capture \in Captures
      BY <2>1 DEF Watched, Sound, Linked, Minted
    <3> QED BY <1>2, <3>1 DEF InferDone, Watched, Sound, TypeOK
  <2>4. DoneHasResult'
    BY <2>1, <2>3 DEF Watched, DoneHasResult
  <2> QED BY <2>2, <2>4
<1>3. ASSUME InferBadPhoto(w) \/ MarkFailed(w) PROVE NoOrphanJob' /\ DoneHasResult'
  <2>1. /\ j \in Jobs
        /\ \A v \in Workers : v # w => worker'[v] = worker[v]
        /\ \A i \in Jobs : i # j => job'[i] = job[i]
        /\ job'[j].status = "FAILED"
    BY <1>0, <1>3 DEF InferBadPhoto, MarkFailed, Watched, Sound, TypeOK, JobRow
  <2>2. NoOrphanJob'
    BY <1>3, <2>1 DEF InferBadPhoto, MarkFailed, history, Watched, NoOrphanJob, Tended
  <2>3. DoneHasResult'
    BY <1>3, <2>1 DEF InferBadPhoto, MarkFailed, Watched, DoneHasResult
  <2> QED BY <2>2, <2>3
<1>4. ASSUME InferTransient(w) PROVE NoOrphanJob' /\ DoneHasResult'
  <2>1. /\ j \in Jobs
        /\ \A v \in Workers : v # w => worker'[v] = worker[v]
        /\ worker'[w].pc = "retry" /\ worker'[w].job = j
        /\ \A i \in Jobs : i # j => job'[i] = job[i]
        /\ job'[j].status = "QUEUED"
    BY <1>0, <1>4 DEF InferTransient, Watched, Sound, TypeOK, JobRow, WorkerState
  <2>2. NoOrphanJob'
    BY <1>4, <2>1 DEF InferTransient, history, Watched, NoOrphanJob, Tended
  <2>3. DoneHasResult'
    BY <1>4, <2>1 DEF InferTransient, Watched, DoneHasResult
  <2> QED BY <2>2, <2>3
<1>5. ASSUME Retry(w) \/ WorkerStrands(w) \/ WorkerLost(w) \/ Redeliver(w)
      PROVE  NoOrphanJob' /\ DoneHasResult'
  <2>1. /\ UNCHANGED <<job, runs, committer>>
        /\ broker \subseteq broker' /\ stranded \subseteq stranded'
        /\ \A v \in Workers : v # w => worker'[v] = worker[v]
        /\ (\E m \in broker' : m.job = j) \/ j \in stranded'
    <3>1. /\ Held(w).job = j
          /\ [job |-> worker[w].job, retries |-> worker[w].retries + 1].job = j
      BY DEF Held
    <3> QED BY <1>5, <3>1 DEF Retry, WorkerStrands, WorkerLost, Redeliver, db, history,
                              Watched, Sound, TypeOK
  <2>2. NoOrphanJob'
    BY <2>1 DEF Watched, NoOrphanJob, Tended
  <2> QED BY <2>1, <2>2 DEF Watched, DoneHasResult
<1> QED BY <1>1, <1>2, <1>3, <1>4, <1>5 DEF WorkerStep

LEMMA WatchedNext == Watched /\ [Next]_vars => Watched'
<1> SUFFICES ASSUME Watched, [Next]_vars PROVE NoOrphanJob' /\ DoneHasResult'
  BY SoundNext DEF Watched
<1>1. CASE UNCHANGED vars
  BY <1>1 DEF vars, Watched, NoOrphanJob, DoneHasResult, Tended
<1>2. ASSUME NEW k \in Closers, CheckoutFigure(k) \/ CheckoutStep(k)
      PROVE  NoOrphanJob' /\ DoneHasResult'
  BY <1>2 DEF CheckoutFigure, CheckoutStep, CheckoutPending, CheckoutWrite, Overtake, db, history,
              Watched, NoOrphanJob, DoneHasResult, Tended
<1> QED BY <1>1, <1>2, WatchedCommit, WatchedWorker DEF Next, CommitReplay

\* A job that says QUEUED or RUNNING is tended, or a fault destroyed its
\* message.
THEOREM JobsAreTended == Spec => []NoOrphanJob
<1>1. Init => Watched
  BY SoundInit, WatchedInit DEF Watched
<1>2. Watched => NoOrphanJob
  BY DEF Watched
<1> QED BY <1>1, <1>2, WatchedNext, PTL DEF Spec

\* A job that says DONE has an analysis.
THEOREM ResultsExist == Spec => []DoneHasResult
<1>1. Init => Watched
  BY SoundInit, WatchedInit DEF Watched
<1>2. Watched => DoneHasResult
  BY DEF Watched
<1> QED BY <1>1, <1>2, WatchedNext, PTL DEF Spec

----------------------------------------------------------------------------
(* One pair of hands: a job whose message was never delivered again is with *)
(* one commit, or in one message, or at one worker, and with nobody once it *)
(* is settled.                                                              *)

Committing(j) == {h \in Committers : committer[h].pc = "enqueue" /\ committer[h].job = j}
Messages(j) == {m \in broker : m.job = j}
Working(j) == {w \in Workers : worker[w].pc # "idle" /\ worker[w].job = j}

\* Nobody has the job, or exactly one.
InOneHand(j) ==
  /\ \A g, h \in Committing(j) : g = h
  /\ \A m, n \in Messages(j) : m = n
  /\ \A v, w \in Working(j) : v = w
  /\ Committing(j) # {} => Messages(j) = {} /\ Working(j) = {}
  /\ Messages(j) # {} => Working(j) = {}

InNoHand(j) == Committing(j) = {} /\ Messages(j) = {} /\ Working(j) = {}

Handed == \A j \in Jobs \ redelivered :
  /\ InOneHand(j)
  /\ job[j].status \notin {"QUEUED", "RUNNING"} => InNoHand(j)

HandedOver == Sound /\ Handed

LEMMA HandedInit == Init => Handed
BY DEF Init, Handed, InOneHand, InNoHand, Committing, Messages, Working,
       IdleCommitter, IdleWorker

\* Whoever has a job keeps it, or lets go of it, as long as its status says so.
LEMMA HandKept ==
  ASSUME Handed, NEW j \in Jobs \ redelivered',
         redelivered \subseteq redelivered',
         Committing(j)' \subseteq Committing(j),
         Messages(j)' \subseteq Messages(j),
         Working(j)' \subseteq Working(j),
         job'[j].status \in {"QUEUED", "RUNNING"} \/ job'[j] = job[j] \/ InNoHand(j)'
  PROVE  /\ InOneHand(j)'
         /\ job'[j].status \notin {"QUEUED", "RUNNING"} => InNoHand(j)'
BY DEF Handed, InOneHand, InNoHand

\* A job that was not there is with nobody.
LEMMA AbsentUnheld ==
  ASSUME Sound, NEW j \in Jobs \ Live PROVE InNoHand(j)
BY DEF Sound, TypeOK, Linked, InNoHand, Committing, Messages, Working

LEMMA HandedCommit ==
  ASSUME HandedOver, NEW h \in Committers,
         \/ \E c \in Captures : CommitLookup(h, c)
         \/ CommitStep(h) \/ CommitEnqueueLost(h)
  PROVE  Handed'
<1>0. /\ Sound /\ Handed
      /\ committer \in [Committers -> CommitterState] /\ job \in [Jobs -> JobRow]
  BY DEF HandedOver, Sound, TypeOK
<1>1. UNCHANGED <<worker, redelivered>>
  BY DEF CommitLookup, CommitStep, CommitInsert, CommitEnqueue, CommitEnqueueLost, db, history
<1>2. \A j : Working(j)' = Working(j)
  BY <1>1 DEF Working
<1>3. ASSUME NEW c \in Captures, CommitLookup(h, c) PROVE Handed'
  <2>1. /\ \A g \in Committers : committer'[g] = committer[g] \/ committer'[g].pc # "enqueue"
        /\ UNCHANGED <<job, broker>>
    BY <1>0, <1>3 DEF CommitLookup, db
  <2>2. \A j : Committing(j)' \subseteq Committing(j) /\ Messages(j)' = Messages(j)
    BY <2>1 DEF Committing, Messages
  <2> QED BY <1>0, <1>1, <1>2, <2>1, <2>2, HandKept DEF Handed
<1>4. CASE CommitInsert(h)
  <2>1. UNCHANGED broker
    BY <1>4 DEF CommitInsert
  <2>2. \A j : Messages(j)' = Messages(j)
    BY <2>1 DEF Messages
  <2>3. ASSUME NEW i \in AbsentJobs,
               job' = [job EXCEPT ![i] = [capture |-> committer[h].capture,
                                          status |-> "QUEUED", error |-> "NONE"]],
               committer' = [committer EXCEPT ![h].pc = "enqueue", ![h].job = i]
        PROVE  Handed'
    <3>1. /\ i \in Jobs \ Live
          /\ job'[i].status = "QUEUED"
          /\ \A j \in Jobs : j # i => job'[j] = job[j]
      BY <1>0, <2>3 DEF AbsentJobs, Live
    <3>2. /\ committer'[h].pc = "enqueue" /\ committer'[h].job = i
          /\ \A g \in Committers : g # h => committer'[g] = committer[g]
      BY <1>0, <2>3 DEF CommitterState
    <3>3. InNoHand(i)
      BY <1>0, <3>1, AbsentUnheld
    <3>4. Committing(i)' \subseteq {h} /\ Messages(i)' = {} /\ Working(i)' = {}
      BY <1>2, <2>2, <3>2, <3>3 DEF InNoHand, Committing
    <3>5. InOneHand(i)'
      BY <3>4 DEF InOneHand
    <3>6. ASSUME NEW j \in Jobs \ redelivered, j # i
          PROVE  /\ InOneHand(j)'
                 /\ job'[j].status \notin {"QUEUED", "RUNNING"} => InNoHand(j)'
      <4>1. Committing(j)' \subseteq Committing(j)
        BY <3>2, <3>6 DEF Committing
      <4> QED BY <1>0, <1>1, <1>2, <2>2, <3>1, <3>6, <4>1, HandKept
    <3> QED BY <1>1, <3>1, <3>5, <3>6 DEF Handed
  <2>4. CASE committer' = [committer EXCEPT ![h] = IdleCommitter] /\ UNCHANGED job
    <3>1. \A g \in Committers : committer'[g] = committer[g] \/ committer'[g].pc # "enqueue"
      BY <1>0, <2>4 DEF IdleCommitter
    <3>2. \A j : Committing(j)' \subseteq Committing(j)
      BY <3>1 DEF Committing
    <3> QED BY <1>0, <1>1, <1>2, <2>2, <2>4, <3>2, HandKept DEF Handed
  <2> QED BY <1>4, <2>3, <2>4 DEF CommitInsert
<1>5. CASE CommitEnqueue(h) \/ CommitEnqueueLost(h)
  <2> PICK i : i = committer[h].job
    OBVIOUS
  <2> PICK n : n = [job |-> i, retries |-> 0]
    OBVIOUS
  <2>0. n.job = i
    OBVIOUS
  <2>1. /\ UNCHANGED job
        /\ broker' = broker \/ broker' = broker \cup {n}
        /\ committer[h].pc = "enqueue"
        /\ committer'[h].pc = "idle"
        /\ \A g \in Committers : g # h => committer'[g] = committer[g]
    BY <1>0, <1>5 DEF CommitEnqueue, CommitEnqueueLost, db, IdleCommitter
  <2>2. \A j : Committing(j)' \subseteq Committing(j) \ {h}
    BY <2>1 DEF Committing
  <2>3. /\ \A j : j # i => Messages(j)' \subseteq Messages(j)
        /\ Messages(i)' \subseteq Messages(i) \cup {n}
    BY <2>0, <2>1 DEF Messages
  <2>4. ASSUME NEW j \in Jobs \ redelivered
        PROVE  /\ InOneHand(j)'
               /\ job'[j].status \notin {"QUEUED", "RUNNING"} => InNoHand(j)'
    <3>1. CASE j # i
      BY <1>0, <1>1, <1>2, <2>1, <2>2, <2>3, <3>1, HandKept
    <3>2. CASE j = i
      <4>1. InOneHand(j) /\ (job[j].status \notin {"QUEUED", "RUNNING"} => InNoHand(j))
        BY <1>0 DEF Handed
      <4>2. h \in Committing(j)
        BY <2>1, <3>2 DEF Committing
      <4>3. /\ Messages(j) = {} /\ Working(j) = {} /\ Committing(j) \subseteq {h}
            /\ job[j].status \in {"QUEUED", "RUNNING"}
        BY <4>1, <4>2 DEF InOneHand, InNoHand
      <4>4. Committing(j)' = {} /\ Messages(j)' \subseteq {n} /\ Working(j)' = {}
        BY <1>2, <2>2, <2>3, <3>2, <4>3
      <4> QED BY <2>1, <4>3, <4>4 DEF InOneHand
    <3> QED BY <3>1, <3>2
  <2> QED BY <1>1, <2>4 DEF Handed
<1> QED BY <1>3, <1>4, <1>5 DEF CommitStep

\* The job a worker holds is one it holds alone, and is under way.
LEMMA HeldAlone ==
  ASSUME HandedOver, NEW w \in Workers, worker[w].pc # "idle", worker[w].job \notin redelivered
  PROVE  /\ worker[w].job \in Jobs
         /\ Working(worker[w].job) = {w}
         /\ Committing(worker[w].job) = {} /\ Messages(worker[w].job) = {}
         /\ job[worker[w].job].status \in {"QUEUED", "RUNNING"}
<1>1. worker[w].job \in Jobs
  BY DEF HandedOver, Sound, Linked, Live
<1>2. w \in Working(worker[w].job)
  BY DEF Working
<1>3. /\ InOneHand(worker[w].job)
      /\ job[worker[w].job].status \notin {"QUEUED", "RUNNING"} => InNoHand(worker[w].job)
  BY <1>1 DEF HandedOver, Handed
<1> QED BY <1>1, <1>2, <1>3 DEF InOneHand, InNoHand

LEMMA HandedStart ==
  ASSUME HandedOver, NEW w \in Workers, NEW m \in broker, WorkerStart(w, m)
  PROVE  Handed'
<1> DEFINE i == m.job
<1>0. /\ Handed /\ i \in Jobs /\ worker \in [Workers -> WorkerState] /\ job \in [Jobs -> JobRow]
  BY DEF HandedOver, Sound, TypeOK, Live
<1>1. UNCHANGED <<committer, redelivered>> /\ broker' = broker \ {m} /\ worker[w].pc = "idle"
  BY DEF WorkerStart, history
<1>2. /\ worker'[w].pc = "infer" /\ worker'[w].job = i
      /\ \A v \in Workers : v # w => worker'[v] = worker[v]
  BY <1>0 DEF WorkerStart
<1>3. /\ job'[i].status = "RUNNING"
      /\ \A j \in Jobs : j # i => job'[j] = job[j]
  BY <1>0 DEF WorkerStart, JobRow
<1>4. \A j : Committing(j)' = Committing(j) /\ Messages(j)' = Messages(j) \ {m}
  BY <1>1 DEF Committing, Messages
<1>5. /\ \A j : j # i => Working(j)' = Working(j)
      /\ Working(i)' = Working(i) \cup {w}
  BY <1>1, <1>2 DEF Working
<1> SUFFICES ASSUME NEW j \in Jobs \ redelivered
             PROVE  /\ InOneHand(j)'
                    /\ job'[j].status \notin {"QUEUED", "RUNNING"} => InNoHand(j)'
  BY <1>1 DEF Handed
<1>6. CASE j # i
  BY <1>0, <1>1, <1>3, <1>4, <1>5, <1>6, HandKept
<1>7. CASE j = i
  <2>1. InOneHand(j) /\ m \in Messages(j)
    BY <1>0, <1>7 DEF Handed, Messages
  <2>2. Committing(j) = {} /\ Working(j) = {} /\ Messages(j) \subseteq {m}
    BY <2>1 DEF InOneHand
  <2>3. Committing(j)' = {} /\ Messages(j)' = {} /\ Working(j)' = {w}
    BY <1>4, <1>5, <1>7, <2>2
  <2> QED BY <1>3, <1>7, <2>3 DEF InOneHand
<1> QED BY <1>6, <1>7

\* A worker that ends its task, with or without passing the message on, and one
\* that turns to its retries.
LEMMA HandedWork ==
  ASSUME HandedOver, NEW w \in Workers,
         \/ InferDone(w) \/ InferBadPhoto(w) \/ InferTransient(w)
         \/ Retry(w) \/ MarkFailed(w) \/ WorkerStrands(w) \/ WorkerLost(w)
  PROVE  Handed'
<1> PICK i : i = worker[w].job
  OBVIOUS
<1>0. /\ Handed /\ worker \in [Workers -> WorkerState] /\ job \in [Jobs -> JobRow]
  BY DEF HandedOver, Sound, TypeOK
<1>1. worker[w].pc # "idle" /\ UNCHANGED <<committer, redelivered>>
  BY DEF InferDone, InferBadPhoto, InferTransient, Retry, MarkFailed, WorkerStrands, WorkerLost,
         db, history
<1>2. i \in Jobs
  BY <1>1 DEF HandedOver, Sound, Linked, Live
<1>3. \A j \in Jobs : j # i => job'[j] = job[j]
  BY <1>0 DEF InferDone, InferBadPhoto, InferTransient, Retry, MarkFailed, WorkerStrands,
              WorkerLost, db
<1>4. /\ \A v \in Workers : v # w => worker'[v] = worker[v]
      /\ worker'[w].pc = "idle" \/ worker'[w].job = i
  BY <1>0 DEF InferDone, InferBadPhoto, InferTransient, Retry, MarkFailed, WorkerStrands,
              WorkerLost, IdleWorker, WorkerState
<1>5. \A j : Committing(j)' = Committing(j) /\ Working(j)' \subseteq Working(j)
  BY <1>1, <1>4 DEF Committing, Working
<1>6. /\ broker \subseteq broker' /\ \A m \in broker' \ broker : m.job = i
      /\ \A m, n \in broker' \ broker : m = n
  BY DEF InferDone, InferBadPhoto, InferTransient, Retry, MarkFailed, WorkerStrands, WorkerLost,
         Held
<1>7. /\ \A j : j # i => Messages(j)' \subseteq Messages(j)
      /\ Messages(i)' \subseteq Messages(i) \cup (broker' \ broker)
  BY <1>6 DEF Messages
<1>8. \/ /\ UNCHANGED broker
         /\ worker'[w].pc = "idle" \/ job'[i].status = "QUEUED"
      \/ UNCHANGED job /\ worker'[w].pc = "idle"
  BY <1>0, <1>2 DEF InferDone, InferBadPhoto, InferTransient, Retry, MarkFailed, WorkerStrands,
                    WorkerLost, db, IdleWorker, JobRow
<1> SUFFICES ASSUME NEW j \in Jobs \ redelivered
             PROVE  /\ InOneHand(j)'
                    /\ job'[j].status \notin {"QUEUED", "RUNNING"} => InNoHand(j)'
  BY <1>1 DEF Handed
<1>9. CASE j # i
  BY <1>0, <1>1, <1>3, <1>5, <1>7, <1>9, HandKept
<1>10. CASE j = i
  <2>1. /\ Working(j) = {w} /\ Committing(j) = {} /\ Messages(j) = {}
        /\ job[j].status \in {"QUEUED", "RUNNING"}
    BY <1>1, <1>10, HeldAlone
  <2>2. worker'[w].pc = "idle" => Working(j)' = {}
    BY <1>5, <2>1 DEF Working
  <2>3. CASE UNCHANGED broker
    <3>1. Messages(j)' = {}
      BY <2>1, <2>3 DEF Messages
    <3>2. CASE job'[i].status = "QUEUED"
      BY <1>5, <1>10, <2>1, <3>1, <3>2 DEF InOneHand
    <3>3. CASE worker'[w].pc = "idle"
      BY <1>5, <2>1, <2>2, <3>1, <3>3 DEF InOneHand, InNoHand
    <3>4. CASE UNCHANGED job /\ worker'[w].pc = "idle"
      BY <3>3, <3>4
    <3> QED BY <1>8, <3>2, <3>3, <3>4
  <2>4. CASE UNCHANGED job /\ worker'[w].pc = "idle"
    <3>1. \A m, n \in Messages(j)' : m = n
      BY <1>6, <1>7, <1>10, <2>1
    <3> QED BY <1>5, <2>1, <2>2, <2>4, <3>1 DEF InOneHand
  <2> QED BY <1>8, <2>3, <2>4
<1> QED BY <1>9, <1>10

LEMMA HandedNext == HandedOver /\ [Next]_vars => HandedOver'
<1> SUFFICES ASSUME HandedOver, [Next]_vars PROVE Handed'
  BY SoundNext DEF HandedOver
<1>0. Handed
  BY DEF HandedOver
<1>1. CASE UNCHANGED <<job, broker, committer, worker, redelivered>>
  BY <1>0, <1>1 DEF Handed, InOneHand, InNoHand, Committing, Messages, Working
<1>2. ASSUME NEW p \in Photos, Presign(p)
      PROVE  UNCHANGED <<job, broker, committer, worker, redelivered>>
  BY <1>2 DEF Presign, history
<1>3. ASSUME NEW k \in Closers, CheckoutFigure(k) \/ CheckoutStep(k)
      PROVE  UNCHANGED <<job, broker, committer, worker, redelivered>>
  BY <1>3 DEF CheckoutFigure, CheckoutStep, CheckoutPending, CheckoutWrite, Overtake, db, history
<1>4. ASSUME NEW w \in Workers, Redeliver(w) PROVE Handed'
  <2>1. /\ UNCHANGED <<job, committer, worker>>
        /\ broker' = broker \cup {Held(w)}
        /\ redelivered' = redelivered \cup {worker[w].job}
        /\ Held(w).job = worker[w].job
    BY <1>4 DEF Redeliver, db, Held
  <2>2. ASSUME NEW j \in Jobs \ redelivered'
        PROVE  /\ InOneHand(j)'
               /\ job'[j].status \notin {"QUEUED", "RUNNING"} => InNoHand(j)'
    <3>1. j # worker[w].job
      BY <2>1
    <3>2. /\ Messages(j)' = Messages(j) /\ Working(j)' = Working(j)
          /\ Committing(j)' = Committing(j)
      BY <2>1, <3>1 DEF Messages, Working, Committing
    <3> QED BY <1>0, <2>1, <3>2, HandKept
  <2> QED BY <2>2 DEF Handed
<1>5. CASE UNCHANGED vars
  BY <1>1, <1>5 DEF vars
<1>6. ASSUME NEW w \in Workers, WorkerStep(w) \/ WorkerStrands(w) \/ WorkerLost(w)
      PROVE  Handed'
  BY <1>6, HandedStart, HandedWork DEF WorkerStep
<1> QED BY <1>1, <1>2, <1>3, <1>4, <1>5, <1>6, HandedCommit DEF Next, CommitReplay

\* A settled job is written by nobody: only a worker that holds a job changes
\* its row, and the message of a settled job is gone unless it was delivered
\* again.
THEOREM SettledJobsStay == Spec => SettledStays
<1> DEFINE Stays == \A j \in Jobs \ redelivered :
             job[j].status \in {"DONE", "FAILED"} => job'[j] = job[j]
<1>1. ASSUME HandedOver, [Next]_vars PROVE [Stays]_vars
  <2> SUFFICES ASSUME NEW j \in Jobs \ redelivered, job[j].status \in {"DONE", "FAILED"}
               PROVE  job'[j] = job[j]
    OBVIOUS
  <2>1. InNoHand(j) /\ job \in [Jobs -> JobRow]
    BY <1>1 DEF HandedOver, Handed, Sound, TypeOK
  <2>2. ASSUME NEW w \in Workers, NEW m \in broker, WorkerStart(w, m) PROVE job'[j] = job[j]
    <3>1. m.job # j
      BY <2>1 DEF InNoHand, Messages
    <3> QED BY <2>1, <2>2, <3>1 DEF WorkerStart
  <2>3. ASSUME NEW w \in Workers,
               InferDone(w) \/ InferBadPhoto(w) \/ InferTransient(w) \/ MarkFailed(w)
        PROVE  job'[j] = job[j]
    <3>1. worker[w].pc # "idle" => worker[w].job # j
      BY <2>1 DEF InNoHand, Working
    <3> QED BY <2>1, <2>3, <3>1 DEF InferDone, InferBadPhoto, InferTransient, MarkFailed
  <2>4. ASSUME NEW h \in Committers, CommitInsert(h) PROVE job'[j] = job[j]
    BY <2>1, <2>4 DEF CommitInsert, AbsentJobs
  <2>5. ASSUME NEW h \in Committers, CommitEnqueue(h) \/ CommitEnqueueLost(h)
        PROVE  job'[j] = job[j]
    BY <2>5 DEF CommitEnqueue, CommitEnqueueLost, db
  <2>6. ASSUME NEW w \in Workers, Retry(w) \/ WorkerStrands(w) \/ WorkerLost(w) \/ Redeliver(w)
        PROVE  job'[j] = job[j]
    BY <2>6 DEF Retry, WorkerStrands, WorkerLost, Redeliver, db
  <2>7. ASSUME NEW k \in Closers, CheckoutFigure(k) \/ CheckoutStep(k) PROVE job'[j] = job[j]
    BY <2>7 DEF CheckoutFigure, CheckoutStep, CheckoutPending, CheckoutWrite, Overtake, db
  <2>8. ASSUME NEW h \in Committers, NEW c \in Captures, CommitLookup(h, c)
        PROVE  job'[j] = job[j]
    BY <2>8 DEF CommitLookup, db
  <2>9. ASSUME NEW p \in Photos, Presign(p) PROVE job'[j] = job[j]
    BY <2>9 DEF Presign
  <2>10. CASE UNCHANGED vars
    BY <2>10 DEF vars
  <2> QED BY <1>1, <2>2, <2>3, <2>4, <2>5, <2>6, <2>7, <2>8, <2>9, <2>10
          DEF Next, CommitStep, CommitReplay, WorkerStep
<1>2. HandedOver /\ [Next]_vars => [Stays]_vars
  BY <1>1
<1>3. Init => HandedOver
  BY SoundInit, HandedInit DEF HandedOver
<1>4. Spec => [][Stays]_vars
  BY <1>2, <1>3, HandedNext, PTL DEF Spec
<1> QED BY <1>4 DEF SettledStays

----------------------------------------------------------------------------
(* One photograph, one capture; and what it takes to get two jobs. *)

\* No two captures hold one key, and only minted captures hold any.
KeyedOnce ==
  /\ \A c \in Captures : capture[c].keyed => c \in Minted
  /\ \A c, d \in Captures : capture[c].keyed /\ capture[d].keyed
                            /\ capture[c].photo = capture[d].photo => c = d

\* Two commits of one capture past the lookup are a race, and so is a commit
\* past the lookup of a capture that has been committed since.
Overlaps ==
  \A h \in Committers : committer[h].pc = "insert" =>
    /\ capture[committer[h].capture].keyed => committer[h].capture \in raced
    /\ \A g \in Committers :
         g # h /\ committer[g].pc = "insert" /\ committer[g].capture = committer[h].capture
           => committer[h].capture \in raced

Keyed == Sound /\ KeyedOnce /\ Overlaps /\ DuplicateOnlyByOverlap

LEMMA KeyedInit == Init => KeyedOnce /\ Overlaps /\ DuplicateOnlyByOverlap
BY DEF Init, KeyedOnce, Overlaps, DuplicateOnlyByOverlap, Minted, Live, AbsentJobs, IdleCommitter

\* The steps that leave the tables' keys, the jobs' captures and the commits
\* past their lookup alone.
LEMMA KeyedKept ==
  ASSUME Keyed,
         UNCHANGED <<capture, raced>>,
         Live' = Live,
         \A j \in Jobs : job'[j].capture = job[j].capture,
         \A h \in Committers : committer'[h].pc = "insert" => committer'[h] = committer[h]
  PROVE  KeyedOnce' /\ Overlaps' /\ DuplicateOnlyByOverlap'
<1>1. KeyedOnce'
  BY DEF Keyed, KeyedOnce, Minted
<1>2. Overlaps'
  BY DEF Keyed, Overlaps
<1>3. DuplicateOnlyByOverlap'
  BY DEF Keyed, DuplicateOnlyByOverlap, PhotoOf, Live
<1> QED BY <1>1, <1>2, <1>3

LEMMA KeyedPresign ==
  ASSUME Keyed, NEW p \in Photos, Presign(p)
  PROVE  KeyedOnce' /\ Overlaps' /\ DuplicateOnlyByOverlap'
<1> PICK c \in Captures \ Minted : capture' = [capture EXCEPT ![c].photo = p]
  BY DEF Presign
<1>1. /\ \A d \in Captures : d # c => capture'[d] = capture[d]
      /\ ~ capture'[c].keyed /\ ~ capture[c].keyed
      /\ c \notin Minted
  BY DEF Keyed, KeyedOnce, Sound, TypeOK, CaptureRow
<1>2. KeyedOnce'
  BY <1>1 DEF Keyed, KeyedOnce, Minted
<1>3. UNCHANGED <<job, committer, raced>>
  BY DEF Presign, history
<1>4. Overlaps'
  <2>1. \A h \in Committers : committer[h].pc = "insert" => committer[h].capture # c
    BY <1>1 DEF Keyed, Sound, Linked
  <2>2. \A h \in Committers : committer[h].pc = "insert" => committer[h].capture \in Captures
    BY DEF Keyed, Sound, Linked, Minted
  <2> QED BY <1>1, <1>3, <2>1, <2>2 DEF Keyed, Overlaps
<1>5. DuplicateOnlyByOverlap'
  <2>1. \A j \in Live : job[j].capture \in Captures /\ job[j].capture # c
    BY <1>1 DEF Keyed, Sound, Linked, Minted
  <2>2. \A j \in Live : PhotoOf(j)' = PhotoOf(j)
    BY <1>1, <1>3, <2>1 DEF PhotoOf
  <2> QED BY <1>3, <2>2 DEF Keyed, DuplicateOnlyByOverlap, Live, AbsentJobs
<1> QED BY <1>2, <1>4, <1>5

LEMMA KeyedLookup ==
  ASSUME Keyed, NEW h \in Committers, NEW c \in Captures, CommitLookup(h, c)
  PROVE  KeyedOnce' /\ Overlaps' /\ DuplicateOnlyByOverlap'
<1>1. /\ c \in Minted /\ KeyHolders(capture[c].photo) = {}
      /\ UNCHANGED <<capture, job>>
      /\ committer'[h] = [pc |-> "insert", capture |-> c, job |-> None]
      /\ \A g \in Committers : g # h => committer'[g] = committer[g]
      /\ raced \subseteq raced'
      /\ (\E g \in Inserting : committer[g].capture = c) => c \in raced'
  BY DEF CommitLookup, db, Keyed, Sound, TypeOK
<1>2. ~ capture[c].keyed
  BY <1>1 DEF KeyHolders
<1>3. KeyedOnce'
  BY <1>1 DEF Keyed, KeyedOnce, Minted
<1>4. Overlaps'
  <2> SUFFICES ASSUME NEW g \in Committers, committer'[g].pc = "insert"
               PROVE  /\ capture[committer'[g].capture].keyed => committer'[g].capture \in raced'
                      /\ \A f \in Committers :
                           f # g /\ committer'[f].pc = "insert"
                                 /\ committer'[f].capture = committer'[g].capture
                             => committer'[g].capture \in raced'
    BY <1>1 DEF Overlaps
  <2>1. CASE g = h
    BY <1>1, <1>2, <2>1 DEF Inserting
  <2>2. CASE g # h
    BY <1>1, <1>2, <2>2 DEF Keyed, Overlaps, Inserting
  <2> QED BY <2>1, <2>2
<1>5. DuplicateOnlyByOverlap'
  BY <1>1 DEF Keyed, DuplicateOnlyByOverlap, PhotoOf, Live, AbsentJobs
<1> QED BY <1>3, <1>4, <1>5

LEMMA KeyedInsert ==
  ASSUME Keyed, NEW h \in Committers, CommitInsert(h)
  PROVE  KeyedOnce' /\ Overlaps' /\ DuplicateOnlyByOverlap'
<1>1. committer[h].pc = "insert" /\ UNCHANGED raced
  BY DEF CommitInsert, history
<1>2. committer[h].capture \in Minted /\ committer[h].capture \in Captures
  BY <1>1 DEF Keyed, Sound, Linked, Minted
<1> DEFINE c == committer[h].capture
<1>3. CASE UNCHANGED <<capture, job>> /\ committer' = [committer EXCEPT ![h] = IdleCommitter]
  <2>1. \A g \in Committers : committer'[g].pc = "insert" => committer'[g] = committer[g]
    BY <1>3 DEF IdleCommitter, Keyed, Sound, TypeOK
  <2> QED BY <1>1, <1>3, <2>1, KeyedKept DEF Live, AbsentJobs
<1>4. ASSUME NEW j \in AbsentJobs,
             KeyHolders(capture[c].photo) \subseteq {c},
             job' = [job EXCEPT ![j] = [capture |-> c, status |-> "QUEUED", error |-> "NONE"]],
             committer' = [committer EXCEPT ![h].pc = "enqueue", ![h].job = j],
             capture' = [capture EXCEPT ![c].keyed = TRUE]
      PROVE  KeyedOnce' /\ Overlaps' /\ DuplicateOnlyByOverlap'
  <2>1. /\ capture'[c].keyed /\ capture'[c].photo = capture[c].photo
        /\ \A d \in Captures : capture'[d].photo = capture[d].photo
        /\ \A d \in Captures : d # c => capture'[d] = capture[d]
        /\ Minted' = Minted
    BY <1>2, <1>4 DEF Keyed, Sound, TypeOK, CaptureRow, Minted
  <2>2. \A d \in Captures : capture[d].keyed /\ capture[d].photo = capture[c].photo => d = c
    BY <1>4 DEF Keyed, KeyedOnce, KeyHolders
  <2>3. KeyedOnce'
    BY <1>2, <2>1, <2>2 DEF Keyed, KeyedOnce
  <2>4. /\ committer'[h].pc # "insert"
        /\ \A g \in Committers : g # h => committer'[g] = committer[g]
    BY <1>4 DEF Keyed, Sound, TypeOK, CommitterState
  <2>5. Overlaps'
    <3> SUFFICES ASSUME NEW g \in Committers, committer'[g].pc = "insert"
                 PROVE  /\ capture'[committer'[g].capture].keyed => committer'[g].capture \in raced
                        /\ \A f \in Committers :
                             f # g /\ committer'[f].pc = "insert"
                                   /\ committer'[f].capture = committer'[g].capture
                               => committer'[g].capture \in raced
      BY <1>1 DEF Overlaps
    <3>1. g # h /\ committer'[g] = committer[g] /\ committer[g].pc = "insert"
      BY <2>4
    <3>2. committer[g].capture \in Captures
      BY <3>1 DEF Keyed, Sound, Linked, Minted
    <3>3. committer[g].capture = c => c \in raced
      BY <1>1, <3>1 DEF Keyed, Overlaps
    <3> QED BY <2>1, <2>4, <3>1, <3>2, <3>3 DEF Keyed, Overlaps
  <2>6. /\ Live' = Live \cup {j}
        /\ \A i \in Live : job'[i] = job[i] /\ job[i].capture \in Captures
                         /\ capture[job[i].capture].keyed
        /\ job'[j].capture = c
    BY <1>4 DEF Keyed, Sound, TypeOK, Linked, JobRow, Live, AbsentJobs, Minted
  <2>7. \A i \in Live' : PhotoOf(i)' = capture[job'[i].capture].photo
    BY <1>2, <2>1, <2>6 DEF PhotoOf
  <2>8. \A i \in Live : PhotoOf(i)' = PhotoOf(j)' => job[i].capture = c /\ c \in raced
    <3> SUFFICES ASSUME NEW i \in Live, PhotoOf(i)' = PhotoOf(j)'
                 PROVE  job[i].capture = c /\ c \in raced
      OBVIOUS
    <3>1. job[i].capture = c
      BY <2>2, <2>6, <2>7
    <3> QED BY <1>1, <2>6, <3>1 DEF Keyed, Overlaps
  <2>9. DuplicateOnlyByOverlap'
    <3> SUFFICES ASSUME NEW i1 \in Live', NEW i2 \in Live', i1 # i2, PhotoOf(i1)' = PhotoOf(i2)'
                 PROVE  job'[i1].capture \in raced
      BY <1>1 DEF DuplicateOnlyByOverlap
    <3>1. CASE i1 = j
      BY <2>6, <2>8, <3>1
    <3>2. CASE i2 = j
      BY <2>6, <2>8, <3>2
    <3>3. CASE i1 \in Live /\ i2 \in Live
      BY <2>6, <2>7, <3>3 DEF Keyed, DuplicateOnlyByOverlap, PhotoOf
    <3> QED BY <2>6, <3>1, <3>2, <3>3
  <2> QED BY <2>3, <2>5, <2>9
<1> QED BY <1>3, <1>4 DEF CommitInsert

LEMMA KeyedOther ==
  ASSUME Keyed,
         \/ \E h \in Committers : CommitEnqueue(h) \/ CommitEnqueueLost(h)
         \/ \E w \in Workers : WorkerStep(w) \/ WorkerStrands(w) \/ WorkerLost(w) \/ Redeliver(w)
         \/ \E k \in Closers : CheckoutFigure(k) \/ CheckoutStep(k)
  PROVE  KeyedOnce' /\ Overlaps' /\ DuplicateOnlyByOverlap'
<1>0. job \in [Jobs -> JobRow]
  BY DEF Keyed, Sound, TypeOK
<1>1. UNCHANGED <<capture, raced>>
  BY DEF CommitEnqueue, CommitEnqueueLost, WorkerStep, WorkerStart, InferDone, InferBadPhoto,
         InferTransient, Retry, MarkFailed, WorkerStrands, WorkerLost, Redeliver,
         CheckoutFigure, CheckoutStep, CheckoutPending, CheckoutWrite, Overtake, db, history
<1>2. \A h \in Committers : committer'[h].pc = "insert" => committer'[h] = committer[h]
  <2>1. ASSUME NEW h \in Committers, CommitEnqueue(h) \/ CommitEnqueueLost(h)
        PROVE  \A g \in Committers : committer'[g].pc = "insert" => committer'[g] = committer[g]
    BY <2>1 DEF CommitEnqueue, CommitEnqueueLost, IdleCommitter, Keyed, Sound, TypeOK
  <2>2. ASSUME \/ \E w \in Workers : WorkerStep(w) \/ WorkerStrands(w) \/ WorkerLost(w) \/ Redeliver(w)
               \/ \E k \in Closers : CheckoutFigure(k) \/ CheckoutStep(k)
        PROVE  UNCHANGED committer
    BY <2>2 DEF WorkerStep, WorkerStart, InferDone, InferBadPhoto,
                InferTransient, Retry, MarkFailed, WorkerStrands, WorkerLost, Redeliver,
                CheckoutFigure, CheckoutStep, CheckoutPending, CheckoutWrite
  <2> QED BY <2>1, <2>2
<1>3. \/ UNCHANGED job
      \/ \E j \in Live, s \in Status \ {"ABSENT"}, e \in Errors :
           \/ job' = [job EXCEPT ![j].status = s]
           \/ job' = [job EXCEPT ![j].status = s, ![j].error = e]
  <2>1. \A w \in Workers : worker[w].pc # "idle" => worker[w].job \in Live /\ worker[w].job \in Jobs
    BY DEF Keyed, Sound, Linked, Live
  <2>2. \A w \in Workers, e \in Errors : worker[w].pc # "idle" => ErrorAfter(w, e) \in Errors
    BY <2>1, ErrorTyped DEF Keyed
  <2>3. ASSUME NEW w \in Workers, NEW m \in broker, WorkerStart(w, m)
        PROVE  m.job \in Live /\ job' = [job EXCEPT ![m.job].status = "RUNNING"]
    BY <2>3 DEF WorkerStart, Keyed, Sound, TypeOK
  <2>4. ASSUME NEW w \in Workers, InferDone(w) \/ InferBadPhoto(w) \/ MarkFailed(w)
        PROVE  /\ worker[w].job \in Live
               /\ \E s \in Status \ {"ABSENT"}, e \in Errors :
                    job' = [job EXCEPT ![worker[w].job].status = s, ![worker[w].job].error = e]
    BY <2>1, <2>2, <2>4 DEF InferDone, InferBadPhoto, MarkFailed, Status, Errors
  <2>5. ASSUME NEW w \in Workers, InferTransient(w)
        PROVE  worker[w].job \in Live /\ job' = [job EXCEPT ![worker[w].job].status = "QUEUED"]
    BY <2>1, <2>5 DEF InferTransient
  <2>6. "RUNNING" \in Status \ {"ABSENT"} /\ "QUEUED" \in Status \ {"ABSENT"} /\ "NONE" \in Errors
    BY DEF Status, Errors
  <2>7. ASSUME \/ \E h \in Committers : CommitEnqueue(h) \/ CommitEnqueueLost(h)
               \/ \E w \in Workers : Retry(w) \/ WorkerStrands(w) \/ WorkerLost(w) \/ Redeliver(w)
               \/ \E k \in Closers : CheckoutFigure(k) \/ CheckoutStep(k)
        PROVE  UNCHANGED job
    BY <2>7 DEF CommitEnqueue, CommitEnqueueLost, Retry, WorkerStrands, WorkerLost, Redeliver,
                CheckoutFigure, CheckoutStep, CheckoutPending, CheckoutWrite, Overtake, db
  <2> QED BY <2>3, <2>4, <2>5, <2>6, <2>7 DEF WorkerStep
<1>4. Live' = Live /\ \A j \in Jobs : job'[j].capture = job[j].capture
  BY <1>0, <1>3, Restatus DEF Live, AbsentJobs
<1> QED BY <1>1, <1>2, <1>4, KeyedKept

LEMMA KeyedNext == Keyed /\ [Next]_vars => Keyed'
<1> SUFFICES ASSUME Keyed, [Next]_vars PROVE KeyedOnce' /\ Overlaps' /\ DuplicateOnlyByOverlap'
  BY SoundNext DEF Keyed
<1>1. CASE UNCHANGED vars
  BY <1>1, KeyedKept DEF vars, Live, AbsentJobs
<1> QED BY <1>1, KeyedPresign, KeyedLookup, KeyedInsert, KeyedOther DEF Next, CommitReplay, CommitStep

\* Every job of a photograph is a job of the same capture.
THEOREM OneCapture == Spec => []OneAnalysedCapturePerPhoto
<1>1. Init => Keyed
  BY SoundInit, KeyedInit DEF Keyed
<1>2. Keyed => OneAnalysedCapturePerPhoto
  BY DEF Keyed, KeyedOnce, Sound, Linked, Minted, OneAnalysedCapturePerPhoto, PhotoOf
<1> QED BY <1>1, <1>2, KeyedNext, PTL DEF Spec

\* A photograph with two jobs had two commits past the lookup at once.
THEOREM TwoJobsTakeARace == Spec => []DuplicateOnlyByOverlap
<1>1. Init => Keyed
  BY SoundInit, KeyedInit DEF Keyed
<1>2. Keyed => DuplicateOnlyByOverlap
  BY DEF Keyed
<1> QED BY <1>1, <1>2, KeyedNext, PTL DEF Spec

----------------------------------------------------------------------------
(* The figures: the refinement of VisitLedger. *)

\* A check-out under way has a number, a figure of the right phase, and knows
\* of no close that has not happened; a worker that saw a BEFORE figure saw
\* one that stays.
FiguresKnown ==
  /\ osaAfter \in {0} \cup AfterRuns
  /\ \A k \in Closers : closer[k].pc # "idle" =>
       /\ closer[k].number # 0
       /\ closer[k].figure \in {0} \cup AfterRuns
       /\ closer[k].wasClosed => closedAt # 0
  /\ \A w \in Workers : worker[w].pc # "idle" /\ worker[w].sawBefore => osaBefore # 0

Figured == Sound /\ FiguresKnown

\* A capture's photograph never changes.
LEMMA PhotoKept ==
  ASSUME Sound, [Next]_vars
  PROVE  \A c \in Minted : c \in Minted' /\ capture'[c].photo = capture[c].photo
<1>0. capture \in [Captures -> CaptureRow]
  BY DEF Sound, TypeOK
<1>1. ASSUME NEW p \in Photos, Presign(p)
      PROVE  \A c \in Minted : c \in Minted' /\ capture'[c].photo = capture[c].photo
  BY <1>0, <1>1 DEF Presign, Minted, CaptureRow
<1>2. ASSUME NEW h \in Committers, CommitInsert(h)
      PROVE  \A c \in Minted : c \in Minted' /\ capture'[c].photo = capture[c].photo
  <2>1. \/ UNCHANGED capture
        \/ capture' = [capture EXCEPT ![committer[h].capture].keyed = TRUE]
    BY <1>2 DEF CommitInsert
  <2> QED BY <1>0, <2>1 DEF Minted, CaptureRow
<1>3. CASE UNCHANGED vars
  BY <1>3 DEF vars, Minted
<1>4. ASSUME \/ \E c \in Captures : CommitReplay(c)
             \/ \E h \in Committers, c \in Captures : CommitLookup(h, c)
             \/ \E h \in Committers : CommitEnqueue(h) \/ CommitEnqueueLost(h)
             \/ \E w \in Workers : WorkerStep(w) \/ WorkerStrands(w) \/ WorkerLost(w) \/ Redeliver(w)
             \/ \E k \in Closers : CheckoutFigure(k) \/ CheckoutStep(k)
      PROVE  UNCHANGED capture
  BY <1>4 DEF CommitReplay, CommitLookup, CommitEnqueue, CommitEnqueueLost, WorkerStep,
         WorkerStart, InferDone, InferBadPhoto, InferTransient, Retry, MarkFailed,
         WorkerStrands, WorkerLost, Redeliver,
         CheckoutFigure, CheckoutStep, CheckoutPending, CheckoutWrite, Overtake, vars, db
<1> QED BY <1>1, <1>2, <1>3, <1>4 DEF Next, CommitStep, Minted

\* The analyses are append-only.
LEMMA RunsKept ==
  ASSUME Sound, [Next]_vars
  PROVE  \/ UNCHANGED runs
         \/ \E w \in Workers : /\ InferDone(w)
                               /\ runs' = Append(runs, job[worker[w].job].capture)
<1>1. ASSUME NEW w \in Workers, InferDone(w)
      PROVE  runs' = Append(runs, job[worker[w].job].capture)
  BY <1>1 DEF InferDone
<1>2. CASE UNCHANGED vars
  BY <1>2 DEF vars
<1>3. ASSUME \/ \E p \in Photos : Presign(p)
             \/ \E c \in Captures : CommitReplay(c)
             \/ \E h \in Committers, c \in Captures : CommitLookup(h, c)
             \/ \E h \in Committers : CommitStep(h) \/ CommitEnqueueLost(h)
             \/ \E w \in Workers : \/ \E m \in broker : WorkerStart(w, m)
                                   \/ InferBadPhoto(w) \/ InferTransient(w)
                                   \/ Retry(w) \/ MarkFailed(w)
                                   \/ WorkerStrands(w) \/ WorkerLost(w) \/ Redeliver(w)
             \/ \E k \in Closers : CheckoutFigure(k) \/ CheckoutStep(k)
      PROVE  UNCHANGED runs
  BY <1>3 DEF Presign, CommitReplay, CommitLookup, CommitStep, CommitInsert, CommitEnqueue,
         CommitEnqueueLost, WorkerStart, InferBadPhoto, InferTransient, Retry, MarkFailed,
         WorkerStrands, WorkerLost, Redeliver,
         CheckoutFigure, CheckoutStep, CheckoutPending, CheckoutWrite, Overtake, vars, db
<1> QED BY <1>1, <1>2, <1>3 DEF Next, WorkerStep

\* An analysis keeps its place and its photograph, and AFTER analyses are only
\* ever added.
LEMMA AfterRunsGrow ==
  ASSUME Sound, [Next]_vars
  PROVE  /\ Len(runs) \in Nat /\ Len(runs') \in Nat /\ Len(runs) <= Len(runs')
         /\ \A i \in 1..Len(runs) : /\ runs'[i] = runs[i]
                                    /\ ShotOfRun(i)' = ShotOfRun(i)
         /\ AfterRuns \subseteq AfterRuns'
<1>1. runs \in Seq(Captures) /\ \A i \in 1..Len(runs) : runs[i] \in Minted
  BY DEF Sound, TypeOK, Linked
<1>2. ASSUME NEW w \in Workers, InferDone(w)
      PROVE  job[worker[w].job].capture \in Captures
  <2>1. worker[w].job \in Live
    BY <1>2 DEF InferDone, Sound, Linked
  <2> QED BY <2>1 DEF Sound, Linked, Minted
<1>3. /\ Len(runs) \in Nat /\ Len(runs') \in Nat /\ Len(runs) <= Len(runs')
      /\ \A i \in 1..Len(runs) : runs'[i] = runs[i]
  BY <1>1, <1>2, RunsKept
<1>4. \A i \in 1..Len(runs) : capture'[runs'[i]].photo = capture[runs[i]].photo
  BY <1>1, <1>3, PhotoKept
<1>5. \A i \in 1..Len(runs) : ShotOfRun(i)' = ShotOfRun(i)
  BY <1>4 DEF ShotOfRun
<1>6. AfterRuns \subseteq AfterRuns'
  BY <1>3, <1>4 DEF AfterRuns
<1> QED BY <1>3, <1>5, <1>6

LEMMA FiguredInit == Init => FiguresKnown
BY DEF Init, FiguresKnown, IdleCloser, IdleWorker

LEMMA FiguredNext == Figured /\ [Next]_vars => Figured'
<1> SUFFICES ASSUME Figured, [Next]_vars PROVE FiguresKnown'
  BY SoundNext DEF Figured
<1>0. /\ Sound /\ FiguresKnown
      /\ worker \in [Workers -> WorkerState] /\ closer \in [Closers -> CloserState]
      /\ AfterRuns \subseteq AfterRuns'
  BY AfterRunsGrow DEF Figured, Sound, TypeOK
<1>1. ASSUME UNCHANGED <<osaAfter, closedAt, closer, worker>>, UNCHANGED osaBefore
      PROVE  FiguresKnown'
  BY <1>0, <1>1 DEF FiguresKnown
<1>2. ASSUME \/ UNCHANGED vars
             \/ \E p \in Photos : Presign(p)
             \/ \E c \in Captures : CommitReplay(c)
             \/ \E h \in Committers, c \in Captures : CommitLookup(h, c)
             \/ \E h \in Committers : CommitStep(h) \/ CommitEnqueueLost(h)
      PROVE  FiguresKnown'
  <2>1. UNCHANGED <<osaAfter, closedAt, closer, worker>> /\ UNCHANGED osaBefore
    BY <1>2 DEF Presign, CommitReplay, CommitLookup, CommitStep, CommitInsert, CommitEnqueue,
                CommitEnqueueLost, vars, db
  <2> QED BY <1>1, <2>1
<1>3. ASSUME NEW w \in Workers,
             WorkerStep(w) \/ WorkerStrands(w) \/ WorkerLost(w) \/ Redeliver(w)
      PROVE  FiguresKnown'
  <2>1. UNCHANGED <<osaAfter, closedAt, closer>>
    BY <1>3 DEF WorkerStep, WorkerStart, InferDone, InferBadPhoto, InferTransient, Retry,
                MarkFailed, WorkerStrands, WorkerLost, Redeliver, db
  <2>2. osaBefore # 0 => osaBefore' # 0
    <3>1. CASE InferDone(w)
      BY <3>1 DEF InferDone, BeforeAfterPersist, Sound, TypeOK, Figured
    <3>2. CASE ~ InferDone(w)
      BY <1>3, <3>2 DEF WorkerStep, WorkerStart, InferBadPhoto, InferTransient, Retry,
                MarkFailed, WorkerStrands, WorkerLost, Redeliver, db
    <3> QED BY <3>1, <3>2
  <2>3. \A v \in Workers : worker'[v].pc # "idle" =>
          \/ worker[v].pc # "idle" /\ worker'[v].sawBefore = worker[v].sawBefore
          \/ UNCHANGED osaBefore /\ worker'[v].sawBefore = (osaBefore # 0)
    <3>1. CASE \E m \in broker : WorkerStart(w, m)
      BY <1>0, <3>1 DEF WorkerStart
    <3>2. CASE InferTransient(w)
      BY <1>0, <3>2 DEF InferTransient, WorkerState
    <3>3. CASE Redeliver(w)
      BY <3>3 DEF Redeliver
    <3>4. CASE \/ InferDone(w) \/ InferBadPhoto(w) \/ Retry(w) \/ MarkFailed(w)
               \/ WorkerStrands(w) \/ WorkerLost(w)
      BY <1>0, <3>4 DEF InferDone, InferBadPhoto, Retry, MarkFailed, WorkerStrands, WorkerLost,
                        IdleWorker
    <3> QED BY <1>3, <3>1, <3>2, <3>3, <3>4 DEF WorkerStep
  <2> QED BY <1>0, <2>1, <2>2, <2>3 DEF FiguresKnown
<1>4. ASSUME NEW k \in Closers, CheckoutFigure(k) PROVE FiguresKnown'
  <2>1. PICK i \in LatestAfter :
          closer' = [closer EXCEPT ![k] = [pc |-> "pending", number |-> checkouts + 1,
                                           loaded |-> osaAfter, wasClosed |-> closedAt # 0,
                                           figure |-> i, pending |-> FALSE]]
    BY <1>4 DEF CheckoutFigure
  <2>2. i \in {0} \cup AfterRuns
    BY <2>1 DEF LatestAfter
  <2>3. checkouts + 1 # 0
    BY <1>0 DEF Sound, TypeOK
  <2>4. UNCHANGED <<osaAfter, closedAt, worker, osaBefore>>
    BY <1>4 DEF CheckoutFigure, db
  <2> QED BY <1>0, <2>1, <2>2, <2>3, <2>4 DEF FiguresKnown
<1>5. ASSUME NEW k \in Closers, CheckoutPending(k) PROVE FiguresKnown'
  <2>1. UNCHANGED <<osaAfter, closedAt, worker, osaBefore>>
    BY <1>5 DEF CheckoutPending, db
  <2>2. /\ closer[k].pc # "idle"
        /\ closer'[k].number = closer[k].number
        /\ closer'[k].figure = closer[k].figure
        /\ closer'[k].wasClosed = closer[k].wasClosed
        /\ \A m \in Closers : m # k => closer'[m] = closer[m]
    BY <1>0, <1>5 DEF CheckoutPending, CloserState
  <2> QED BY <1>0, <2>1, <2>2 DEF FiguresKnown
<1>6. ASSUME NEW k \in Closers, CheckoutWrite(k) PROVE FiguresKnown'
  <2>1. /\ closer'[k].pc = "idle"
        /\ \A m \in Closers : m # k => closer'[m] = closer[m]
        /\ UNCHANGED <<worker, osaBefore>>
    BY <1>0, <1>6 DEF CheckoutWrite, IdleCloser
  <2>2. osaAfter' \in {0} \cup AfterRuns' /\ (closedAt # 0 => closedAt' # 0)
    BY <1>0, <1>6 DEF CheckoutWrite, FiguresKnown
  <2> QED BY <1>0, <2>1, <2>2 DEF FiguresKnown
<1> QED BY <1>2, <1>3, <1>4, <1>5, <1>6 DEF Next, CheckoutStep

LEMMA ReadingsTyped ==
  ASSUME Sound
  PROVE  /\ Readings \in Seq(Photos)
         /\ Len(Readings) = Len(runs)
         /\ \A i \in 1..Len(runs) : Readings[i] = capture[runs[i]].photo
<1>1. Len(runs) \in Nat
  BY DEF Sound, TypeOK
<1>2. \A i \in 1..Len(runs) : capture[runs[i]].photo \in Photos
  BY DEF Sound, TypeOK, Linked, Minted, CaptureRow
<1> QED BY <1>1, <1>2 DEF Readings

\* Every step of the pipeline is a step of the ledger, or none.
LEMMA LedgerStep == Figured /\ [Next]_vars => [Ledger!LedgerNext]_(Ledger!ledger)
<1> SUFFICES ASSUME Figured, [Next]_vars PROVE [Ledger!LedgerNext]_(Ledger!ledger)
  OBVIOUS
<1>0. /\ Sound /\ FiguresKnown
      /\ worker \in [Workers -> WorkerState] /\ closer \in [Closers -> CloserState]
  BY DEF Figured, Sound, TypeOK
<1>1. Sound'
  BY <1>0, SoundNext
<1>2. UNCHANGED runs => UNCHANGED Readings
  <2> SUFFICES ASSUME UNCHANGED runs PROVE UNCHANGED Readings
    OBVIOUS
  <2>1. \A i \in 1..Len(runs) : Readings'[i] = Readings[i]
    BY <1>0, <1>1, ReadingsTyped, PhotoKept DEF Linked, Sound, Readings
  <2> QED BY <2>1 DEF Readings
<1>3. ASSUME NEW w \in Workers, InferDone(w) PROVE Ledger!LedgerNext
  <2> DEFINE c == job[worker[w].job].capture
             p == capture[c].photo
  <2>1. c \in Minted /\ c \in Captures /\ p \in Photos
    <3>1. worker[w].job \in Live
      BY <1>0, <1>3 DEF InferDone, Sound, Linked
    <3> QED BY <1>0, <3>1 DEF Sound, Linked, TypeOK, Minted, CaptureRow
  <2>2. runs' = Append(runs, c) /\ UNCHANGED <<capture, osaAfter, closedAt>>
    BY <1>3 DEF InferDone
  <2>3. Len(runs) \in Nat /\ Len(runs') = Len(runs) + 1 /\ runs'[Len(runs) + 1] = c
        /\ \A i \in 1..Len(runs) : runs'[i] = runs[i]
    BY <1>0, <2>1, <2>2 DEF Sound, TypeOK
  <2>4. Readings' = Append(Readings, p)
    <3>1. /\ Readings \in Seq(Photos) /\ Len(Readings) = Len(runs)
          /\ \A i \in 1..Len(runs) : Readings[i] = capture[runs[i]].photo
      BY <1>0, ReadingsTyped
    <3>2. Readings' = [i \in 1..Len(runs') |-> capture'[runs'[i]].photo]
      BY DEF Readings
    <3>3. /\ Readings' \in Seq(Photos) /\ Len(Readings') = Len(runs) + 1
          /\ \A i \in 1..Len(runs) + 1 : Readings'[i] = capture[runs'[i]].photo
      <4>1. \A i \in 1..Len(runs') : capture'[runs'[i]].photo \in Photos
        BY <1>1 DEF Sound, TypeOK, Linked, Minted, CaptureRow
      <4>2. Readings' \in [1..Len(runs') -> Photos] /\ Len(runs') \in Nat
        BY <2>3, <3>2, <4>1
      <4>3. Readings' \in Seq(Photos) /\ Len(Readings') = Len(runs')
        BY <4>2
      <4> QED BY <2>2, <2>3, <3>2, <4>3
    <3>4. \A i \in 1..Len(runs) : Readings'[i] = Readings[i]
      BY <2>3, <3>1, <3>3
    <3>5. Readings'[Len(runs) + 1] = p
      BY <2>3, <3>3
    <3>6. /\ Append(Readings, p) \in Seq(Photos)
          /\ Len(Append(Readings, p)) = Len(runs) + 1
          /\ \A i \in 1..Len(runs) : Append(Readings, p)[i] = Readings[i]
          /\ Append(Readings, p)[Len(runs) + 1] = p
      BY <2>1, <3>1, AppendProperties
    <3>7. \A i \in 1..Len(runs) + 1 : Readings'[i] = Append(Readings, p)[i]
      <4> TAKE i \in 1..Len(runs) + 1
      <4>1. i \in 1..Len(runs) \/ i = Len(runs) + 1
        BY <2>3
      <4> HIDE DEF p
      <4> QED BY <3>4, <3>5, <3>6, <4>1
    <3> HIDE DEF p
    <3> QED BY <3>3, <3>6, <3>7, SeqEqual
  <2>5. /\ osaBefore' = IF PhaseOf[p] = "BEFORE" /\ ~ worker[w].sawBefore
                        THEN Len(runs) + 1 ELSE osaBefore
        /\ worker[w].sawBefore => osaBefore # 0
    BY <1>0, <1>3 DEF InferDone, BeforeAfterPersist, PhotoOf, FiguresKnown
  <2>6. Len(Readings) = Len(runs)
    BY <1>0, ReadingsTyped
  <2>7. worker[w].sawBefore \in BOOLEAN
    BY <1>0 DEF WorkerState
  <2>8. Ledger!Record(p)
    <3> HIDE DEF p
    <3> QED BY <2>2, <2>3, <2>4, <2>5, <2>6, <2>7 DEF Ledger!Record
  <2> QED BY <2>1, <2>8 DEF Ledger!LedgerNext
<1>4. ASSUME NEW k \in Closers, CheckoutWrite(k) PROVE Ledger!LedgerNext
  <2>1. UNCHANGED <<Readings, osaBefore>>
    BY <1>2, <1>4 DEF CheckoutWrite
  <2>2. AfterRuns \subseteq Ledger!ReadingsOf("AFTER")
    BY <1>0, ReadingsTyped DEF AfterRuns, Ledger!ReadingsOf
  <2>3. osaAfter' \in {osaAfter} \cup AfterRuns /\ closedAt' # 0
    BY <1>0, <1>4 DEF CheckoutWrite, FiguresKnown
  <2> QED BY <2>1, <2>2, <2>3 DEF Ledger!LedgerNext, Ledger!Close
<1>5. ASSUME UNCHANGED <<runs, osaBefore, osaAfter, closedAt>> PROVE UNCHANGED Ledger!ledger
  BY <1>2, <1>5 DEF Ledger!ledger
<1>6. \/ UNCHANGED <<runs, osaBefore, osaAfter, closedAt>>
      \/ \E w \in Workers : InferDone(w)
      \/ \E k \in Closers : CheckoutWrite(k)
  <2>1. CASE UNCHANGED vars
    BY <2>1 DEF vars
  <2>2. ASSUME NEW p \in Photos, Presign(p) PROVE UNCHANGED <<runs, osaBefore, osaAfter, closedAt>>
    BY <2>2 DEF Presign
  <2>3. ASSUME NEW h \in Committers,
               \/ \E c \in Captures : CommitLookup(h, c)
               \/ CommitStep(h) \/ CommitEnqueueLost(h)
        PROVE  UNCHANGED <<runs, osaBefore, osaAfter, closedAt>>
    BY <2>3 DEF CommitLookup, CommitStep, CommitInsert, CommitEnqueue, CommitEnqueueLost, db
  <2>4. ASSUME NEW w \in Workers,
               \/ WorkerStep(w) /\ ~ InferDone(w)
               \/ WorkerStrands(w) \/ WorkerLost(w) \/ Redeliver(w)
        PROVE  UNCHANGED <<runs, osaBefore, osaAfter, closedAt>>
    BY <2>4 DEF WorkerStep, WorkerStart, InferBadPhoto, InferTransient, Retry, MarkFailed,
                WorkerStrands, WorkerLost, Redeliver, db
  <2>5. ASSUME NEW k \in Closers, CheckoutFigure(k) \/ CheckoutPending(k)
        PROVE  UNCHANGED <<runs, osaBefore, osaAfter, closedAt>>
    BY <2>5 DEF CheckoutFigure, CheckoutPending, db
  <2> QED BY <2>1, <2>2, <2>3, <2>4, <2>5 DEF Next, CommitReplay, CheckoutStep
<1> QED BY <1>3, <1>4, <1>5, <1>6

\* The pipeline keeps the ledger's promises.
THEOREM PipelineImplementsLedger == Spec => ImplementsLedger
<1>1. Init => Figured
  BY SoundInit, FiguredInit DEF Figured
<1>2. Init => Ledger!LedgerInit
  BY DEF Init, Ledger!LedgerInit, Readings
<1> QED BY <1>1, <1>2, FiguredNext, LedgerStep, PTL DEF Spec, ImplementsLedger, Ledger!LedgerSpec

----------------------------------------------------------------------------
(* The close time and the AFTER figure, and the check-outs that were overtaken. *)

\* Reading i is of a photograph shot before reading k's, or an earlier reading
\* of the same capture, or reading k itself.
NotLater(i, k) == \/ ShotOfRun(i) < ShotOfRun(k)
                  \/ runs[i] = runs[k] /\ i <= k

\* Check-outs at work have numbers of their own, among those given so far.
Numbered ==
  /\ overtaken \subseteq 1..checkouts
  /\ \A k \in Closers : closer[k].pc # "idle" => closer[k].number \in 1..checkouts
  /\ \A k, m \in Closers :
       k # m /\ closer[k].pc # "idle" /\ closer[m].pc # "idle" => closer[k].number # closer[m].number

\* A check-out at work that no other has overtaken knows whether the visit is
\* closed, loaded the figure the visit still has, and found nothing that goes
\* before that figure.
UpToDate ==
  \A k \in Closers : closer[k].pc # "idle" /\ closer[k].number \notin overtaken =>
    /\ closedAt # 0 => closer[k].wasClosed
    /\ closer[k].loaded = osaAfter
    /\ osaAfter # 0 => closer[k].figure # 0 /\ NotLater(osaAfter, closer[k].figure)

RunsKeyed == \A i \in 1..Len(runs) : capture[runs[i]].keyed

Serial == Keyed /\ Figured /\ RunsKeyed /\ Numbered /\ UpToDate

LEMMA SerialInit == Init => RunsKeyed /\ Numbered /\ UpToDate
BY DEF Init, RunsKeyed, Numbered, UpToDate, IdleCloser

LEMMA RunsKeyedNext == Sound /\ RunsKeyed /\ [Next]_vars => RunsKeyed'
<1> SUFFICES ASSUME Sound, RunsKeyed, [Next]_vars PROVE RunsKeyed'
  OBVIOUS
<1>0. /\ capture \in [Captures -> CaptureRow]
      /\ runs \in Seq(Captures)
      /\ \A i \in 1..Len(runs) : runs[i] \in Minted
  BY DEF Sound, TypeOK, Linked
<1>1. ASSUME NEW c \in Minted, capture[c].keyed PROVE capture'[c].keyed
  <2>1. ASSUME NEW p \in Photos, Presign(p) PROVE capture'[c].keyed
    BY <1>0, <1>1, <2>1 DEF Presign, Minted, CaptureRow
  <2>2. ASSUME NEW h \in Committers, CommitInsert(h) PROVE capture'[c].keyed
    <3>1. \/ UNCHANGED capture
          \/ capture' = [capture EXCEPT ![committer[h].capture].keyed = TRUE]
      BY <2>2 DEF CommitInsert
    <3> QED BY <1>0, <1>1, <3>1 DEF Minted, CaptureRow
  <2>3. ASSUME \/ UNCHANGED vars
               \/ \E d \in Captures : CommitReplay(d)
               \/ \E h \in Committers, d \in Captures : CommitLookup(h, d)
               \/ \E h \in Committers : CommitEnqueue(h) \/ CommitEnqueueLost(h)
               \/ \E w \in Workers : WorkerStep(w) \/ WorkerStrands(w) \/ WorkerLost(w) \/ Redeliver(w)
               \/ \E k \in Closers : CheckoutFigure(k) \/ CheckoutStep(k)
        PROVE  UNCHANGED capture
    BY <2>3 DEF CommitReplay, CommitLookup, CommitEnqueue, CommitEnqueueLost, WorkerStep,
         WorkerStart, InferDone, InferBadPhoto, InferTransient, Retry, MarkFailed,
         WorkerStrands, WorkerLost, Redeliver,
         CheckoutFigure, CheckoutStep, CheckoutPending, CheckoutWrite, vars, db
  <2> QED BY <1>1, <2>1, <2>2, <2>3 DEF Next, CommitStep
<1>2. CASE UNCHANGED runs
  BY <1>0, <1>1, <1>2 DEF RunsKeyed
<1>3. ASSUME NEW w \in Workers, InferDone(w) PROVE RunsKeyed'
  <2>1. worker[w].job \in Live
    BY <1>3 DEF InferDone, Sound, Linked
  <2>2. /\ job[worker[w].job].capture \in Captures
        /\ capture[job[worker[w].job].capture].keyed
    BY <2>1 DEF Sound, Linked, Minted
  <2> QED BY <1>0, <1>3, <2>2 DEF InferDone, RunsKeyed
<1> QED BY <1>2, <1>3, RunsKept

\* The reading check-out finds is not earlier than any other.
LEMMA LatestIsLast ==
  ASSUME PhotoAssumption, Keyed, RunsKeyed, NEW i \in LatestAfter, NEW k \in AfterRuns
  PROVE  i \in AfterRuns /\ NotLater(k, i)
<1>1. /\ i \in AfterRuns
      /\ ShotOfRun(k) < ShotOfRun(i) \/ (ShotOfRun(k) = ShotOfRun(i) /\ k <= i)
  BY DEF LatestAfter
<1>2. /\ k \in 1..Len(runs) /\ i \in 1..Len(runs)
      /\ capture[runs[k]].keyed /\ capture[runs[i]].keyed
  BY <1>1 DEF AfterRuns, RunsKeyed
<1>3. /\ runs[k] \in Captures /\ runs[i] \in Captures
      /\ capture[runs[k]].photo \in Photos /\ capture[runs[i]].photo \in Photos
  BY <1>2 DEF Keyed, Sound, TypeOK, Linked, Minted, CaptureRow
<1>4. ShotOfRun(k) = ShotOfRun(i) => runs[k] = runs[i]
  BY <1>2, <1>3 DEF ShotOfRun, Keyed, KeyedOnce
<1> QED BY <1>1, <1>4 DEF NotLater

LEMMA SerialNext == Serial /\ [Next]_vars => Serial'
<1> SUFFICES ASSUME Serial, [Next]_vars PROVE Numbered' /\ UpToDate'
  BY KeyedNext, FiguredNext, RunsKeyedNext DEF Serial, Keyed
<1>0. /\ Sound /\ Keyed /\ RunsKeyed /\ FiguresKnown /\ Numbered /\ UpToDate
      /\ closer \in [Closers -> CloserState] /\ runs \in Seq(Captures)
      /\ AfterRuns \subseteq 1..Len(runs)
      /\ checkouts \in Nat /\ overtaken \subseteq 1..checkouts
  BY DEF Serial, Keyed, Figured, Sound, TypeOK, AfterRuns, Numbered
<1>1. ASSUME NEW i \in AfterRuns, NEW k \in AfterRuns, NotLater(i, k) PROVE NotLater(i, k)'
  <2>1. /\ runs'[i] = runs[i] /\ runs'[k] = runs[k]
        /\ ShotOfRun(i)' = ShotOfRun(i) /\ ShotOfRun(k)' = ShotOfRun(k)
    BY <1>0, AfterRunsGrow
  <2> QED BY <1>1, <2>1 DEF NotLater
<1>2. ASSUME UNCHANGED <<osaAfter, closedAt, closer, checkouts, overtaken>>
      PROVE  Numbered' /\ UpToDate'
  <2>1. Numbered'
    BY <1>0, <1>2 DEF Numbered
  <2>2. UpToDate'
    BY <1>0, <1>1, <1>2 DEF UpToDate, FiguresKnown
  <2> QED BY <2>1, <2>2
<1>3. ASSUME NEW k \in Closers, CheckoutFigure(k) PROVE Numbered' /\ UpToDate'
  <2>1. PICK i \in LatestAfter :
          closer' = [closer EXCEPT ![k] = [pc |-> "pending", number |-> checkouts + 1,
                                           loaded |-> osaAfter, wasClosed |-> closedAt # 0,
                                           figure |-> i, pending |-> FALSE]]
    BY <1>3 DEF CheckoutFigure
  <2>2. /\ UNCHANGED <<osaAfter, closedAt, runs, capture, overtaken>>
        /\ checkouts' = checkouts + 1
        /\ closer[k].pc = "idle"
    BY <1>3 DEF CheckoutFigure, db
  <2>3. osaAfter # 0 => i # 0 /\ NotLater(osaAfter, i)
    BY <1>0, PhotoAssumption, LatestIsLast DEF FiguresKnown
  <2>4. \A l, n : NotLater(l, n)' = NotLater(l, n)
    BY <2>2 DEF NotLater, ShotOfRun
  <2>5. /\ closer'[k].loaded = osaAfter
        /\ closer'[k].wasClosed = (closedAt # 0)
        /\ closer'[k].figure = i
        /\ closer'[k].number = checkouts + 1
        /\ \A m \in Closers : m # k => closer'[m] = closer[m]
    BY <1>0, <2>1
  <2>6. Numbered'
    BY <1>0, <2>2, <2>5 DEF Numbered
  <2>7. UpToDate'
    BY <1>0, <2>2, <2>3, <2>4, <2>5 DEF UpToDate
  <2> QED BY <2>6, <2>7
<1>4. ASSUME NEW k \in Closers, CheckoutPending(k) PROVE Numbered' /\ UpToDate'
  <2>1. UNCHANGED <<osaAfter, closedAt, runs, capture, checkouts, overtaken>>
    BY <1>4 DEF CheckoutPending, db, history
  <2>2. /\ closer[k].pc # "idle"
        /\ closer'[k].number = closer[k].number
        /\ closer'[k].loaded = closer[k].loaded
        /\ closer'[k].figure = closer[k].figure
        /\ closer'[k].wasClosed = closer[k].wasClosed
        /\ \A m \in Closers : m # k => closer'[m] = closer[m]
    BY <1>0, <1>4 DEF CheckoutPending, CloserState
  <2>3. \A i, m : NotLater(i, m)' = NotLater(i, m)
    BY <2>1 DEF NotLater, ShotOfRun
  <2>4. Numbered'
    BY <1>0, <2>1, <2>2 DEF Numbered
  <2>5. UpToDate'
    BY <1>0, <2>1, <2>2, <2>3 DEF UpToDate
  <2> QED BY <2>4, <2>5
\* Whoever is still at work after a check-out has committed has been overtaken.
<1>5. ASSUME NEW k \in Closers, CheckoutWrite(k) PROVE Numbered' /\ UpToDate'
  <2>1. /\ closer'[k].pc = "idle"
        /\ \A m \in Closers : m # k => closer'[m] = closer[m]
        /\ checkouts' = checkouts
        /\ \A n \in overtaken' \ overtaken :
             \E m \in Closers : closer[m].pc # "idle" /\ n = closer[m].number
    BY <1>0, <1>5 DEF CheckoutWrite, IdleCloser, Overtake
  <2>2. \A m \in Closers : m # k /\ closer[m].pc # "idle" => closer[m].number \in overtaken'
    BY <1>5 DEF CheckoutWrite, Overtake
  <2>3. overtaken' \subseteq 1..checkouts'
    <3>1. \A m \in Closers : closer[m].pc # "idle" => closer[m].number \in 1..checkouts
      BY <1>0 DEF Numbered
    <3>2. ASSUME NEW n \in overtaken' \ overtaken PROVE n \in 1..checkouts
      <4>1. PICK m \in Closers : closer[m].pc # "idle" /\ n = closer[m].number
        BY <2>1
      <4> QED BY <3>1, <4>1
    <3>3. overtaken \subseteq 1..checkouts
      BY <1>0
    <3> QED BY <2>1, <3>2, <3>3
  <2>4. Numbered'
    BY <1>0, <2>1, <2>3 DEF Numbered
  <2>5. UpToDate'
    BY <2>1, <2>2 DEF UpToDate
  <2> QED BY <2>4, <2>5
<1>6. \/ UNCHANGED <<osaAfter, closedAt, closer, checkouts, overtaken>>
      \/ \E k \in Closers : CheckoutFigure(k) \/ CheckoutPending(k) \/ CheckoutWrite(k)
  <2>1. CASE UNCHANGED vars
    BY <2>1 DEF vars
  <2>2. ASSUME NEW p \in Photos, Presign(p)
        PROVE  UNCHANGED <<osaAfter, closedAt, closer, checkouts, overtaken>>
    BY <2>2 DEF Presign, history
  <2>3. ASSUME NEW h \in Committers,
               \/ \E c \in Captures : CommitLookup(h, c)
               \/ CommitStep(h) \/ CommitEnqueueLost(h)
        PROVE  UNCHANGED <<osaAfter, closedAt, closer, checkouts, overtaken>>
    BY <2>3 DEF CommitLookup, CommitStep, CommitInsert, CommitEnqueue, CommitEnqueueLost,
                db, history
  <2>4. ASSUME NEW w \in Workers,
               WorkerStep(w) \/ WorkerStrands(w) \/ WorkerLost(w) \/ Redeliver(w)
        PROVE  UNCHANGED <<osaAfter, closedAt, closer, checkouts, overtaken>>
    BY <2>4 DEF WorkerStep, WorkerStart, InferDone, InferBadPhoto, InferTransient, Retry,
                MarkFailed, WorkerStrands, WorkerLost, Redeliver, db, history
  <2> QED BY <2>1, <2>2, <2>3, <2>4 DEF Next, CommitReplay, CheckoutStep
<1> QED BY <1>2, <1>3, <1>4, <1>5, <1>6

\* What a step does to the close time and to the AFTER figure.
LEMMA SerialStep ==
  ASSUME Serial, [Next]_vars
  PROVE  /\ closedAt # 0 /\ closedAt' # closedAt => closedAt' \in overtaken
         /\ osaAfter' # osaAfter /\ osaAfter # 0 =>
              \/ osaAfter' # 0 /\ GivesWay(osaAfter, osaAfter')
              \/ \E k \in Closers : CheckoutWrite(k) /\ closer[k].number \in overtaken
<1>0. UpToDate /\ osaAfter \in Nat /\ closer \in [Closers -> CloserState]
  BY DEF Serial, Keyed, Sound, TypeOK
<1>1. ASSUME NEW k \in Closers, CheckoutWrite(k), closer[k].number \notin overtaken
      PROVE  /\ closedAt # 0 => closedAt' = closedAt
             /\ osaAfter' # osaAfter => osaAfter' = closer[k].figure
             /\ osaAfter # 0 => closer[k].figure # 0 /\ NotLater(osaAfter, closer[k].figure)
  BY <1>0, <1>1 DEF CheckoutWrite, UpToDate
<1>2. ASSUME NEW k \in Closers, CheckoutWrite(k)
      PROVE  closedAt' \in {closedAt, closer[k].number} /\ closer[k].figure \in Nat
  BY <1>0, <1>2 DEF CheckoutWrite, CloserState
<1>3. \/ UNCHANGED <<osaAfter, closedAt>>
      \/ \E k \in Closers : CheckoutWrite(k)
  BY DEF Next, Presign, CommitReplay, CommitLookup, CommitStep, CommitInsert, CommitEnqueue,
         CommitEnqueueLost, WorkerStep, WorkerStart, InferDone, InferBadPhoto, InferTransient,
         Retry, MarkFailed, WorkerStrands, WorkerLost, Redeliver,
         CheckoutFigure, CheckoutStep, CheckoutPending, vars, db
<1>4. ASSUME NEW k \in Closers, CheckoutWrite(k), closer[k].number \notin overtaken,
             osaAfter' # osaAfter, osaAfter # 0
      PROVE  osaAfter' # 0 /\ GivesWay(osaAfter, osaAfter')
  BY <1>0, <1>1, <1>2, <1>4 DEF NotLater, GivesWay
<1>5. closedAt # 0 /\ closedAt' # closedAt => closedAt' \in overtaken
  BY <1>1, <1>2, <1>3
<1> QED BY <1>3, <1>4, <1>5

\* The close time of a visit only ever moves to that of a check-out which another
\* one overtook between its reading of the visit and its write.
THEOREM CloseTimeStands == Spec => CloseTimeKept
<1>1. Init => Serial
  BY SoundInit, KeyedInit, FiguredInit, SerialInit DEF Serial, Keyed, Figured
<1>2. Serial /\ [Next]_vars => Serial'
  BY SerialNext
<1>3. Serial /\ [Next]_vars =>
        [closedAt # 0 /\ closedAt' # closedAt => closedAt' \in overtaken]_vars
  BY SerialStep
<1> QED BY <1>1, <1>2, <1>3, PTL DEF Spec, CloseTimeKept

\* Whatever arrives, is analysed or is sent again out of order, the AFTER figure
\* moves to a later photograph or a later reading, but for a check-out that
\* another one overtook.
THEOREM AfterFigureOnlyAdvances == Spec => AfterFigureAdvances
<1>1. Init => Serial
  BY SoundInit, KeyedInit, FiguredInit, SerialInit DEF Serial, Keyed, Figured
<1>2. Serial /\ [Next]_vars => Serial'
  BY SerialNext
<1>3. Serial /\ [Next]_vars =>
        [osaAfter' # osaAfter /\ osaAfter # 0 =>
          \/ osaAfter' # 0 /\ GivesWay(osaAfter, osaAfter')
          \/ \E k \in Closers : CheckoutWrite(k) /\ closer[k].number \in overtaken]_vars
  BY SerialStep
<1> QED BY <1>1, <1>2, <1>3, PTL DEF Spec, AfterFigureAdvances

=============================================================================
