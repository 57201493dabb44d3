-------------------------- MODULE CapturePipeline --------------------------
(***************************************************************************)
(* The server side of one visit's photographs: presign, commit, the job    *)
(* queue, the analysis workers and check-out.                              *)
(*                                                                         *)
(* The actors are the commit handlers (each a request in the API process), *)
(* the check-out handlers, and the Celery workers.  A step of the model is *)
(* one database transaction or one message sent: that is what the others   *)
(* can see, because Postgres runs at READ COMMITTED and a handler's reads, *)
(* its commit and the message it sends afterwards are three such steps.    *)
(*                                                                         *)
(* Visits share nothing but the workers, so the model has one.  A row of   *)
(* shelf_analyses is named by its place in runs, and osa_before and        *)
(* osa_after by the row their value was copied from: two rows with equal   *)
(* scores stay apart, so a figure copied from the wrong row shows.         *)
(***************************************************************************)
EXTENDS Naturals, Sequences, FiniteSets

CONSTANTS
  Photos,      \* photographs taken in the visit; each has its idempotency key
  PhaseOf,     \* [Photos -> {"BEFORE", "AFTER"}]
  ShotAt,      \* [Photos -> Nat], when the shutter went; no two alike
  Captures,    \* rows of captures that presign can mint
  Jobs,        \* rows of inference_jobs that commit can insert
  Workers,     \* Celery worker processes
  Committers,  \* commit requests the API handles at once
  Closers,     \* check-out requests the API handles at once
  MaxRetries,  \* length of ml_retry_backoff_seconds
  MaxCheckouts,\* bound on check-out requests
  MaxFaults,   \* bound on faults of the environment
  None         \* no photo, no capture, no job

ASSUME PhotoAssumption == /\ PhaseOf \in [Photos -> {"BEFORE", "AFTER"}]
                          /\ ShotAt \in [Photos -> Nat]
                          /\ \A p, q \in Photos : ShotAt[p] = ShotAt[q] => p = q
ASSUME BoundAssumption == {MaxRetries, MaxCheckouts, MaxFaults} \subseteq Nat
ASSUME NoneAssumption == None \notin Photos \cup Captures \cup Jobs

VARIABLES
  capture,    \* the captures table
  job,        \* the inference_jobs table
  runs,       \* the shelf_analyses table, in the order the rows were written
  osaBefore,  \* visits.osa_before
  osaAfter,   \* visits.osa_after
  closedAt,   \* visits.checked_out_at: which check-out stamped it, 0 if none
  broker,     \* messages no worker holds
  committer,  \* commit handlers
  closer,     \* check-out handlers
  worker,     \* workers
  checkouts,  \* check-out requests so far
  faults,     \* faults so far
  stranded,   \* jobs whose message a fault destroyed
  redelivered,\* jobs the broker delivered again while a worker held them
  raced,      \* captures with two commit requests past the lookup at once
  overtaken   \* check-outs at work while another one committed

db == <<capture, job, runs, osaBefore, osaAfter, closedAt>>
history == <<checkouts, faults, stranded, redelivered, raced, overtaken>>
vars == <<capture, job, runs, osaBefore, osaAfter, closedAt,
          broker, committer, closer, worker,
          checkouts, faults, stranded, redelivered, raced, overtaken>>

Status == {"ABSENT", "QUEUED", "RUNNING", "DONE", "FAILED"}
Errors == {"NONE", "BAD_PHOTO", "ML_UNAVAILABLE"}

IdleCommitter == [pc |-> "idle", capture |-> None, job |-> None]
IdleCloser == [pc |-> "idle", number |-> 0, loaded |-> 0, wasClosed |-> FALSE,
               figure |-> 0, pending |-> FALSE]
IdleWorker == [pc |-> "idle", job |-> None, retries |-> 0,
               sawBefore |-> FALSE, sawError |-> "NONE"]

Init == /\ capture = [c \in Captures |-> [photo |-> None, keyed |-> FALSE]]
        /\ job = [j \in Jobs |-> [capture |-> None, status |-> "ABSENT", error |-> "NONE"]]
        /\ runs = <<>>
        /\ osaBefore = 0
        /\ osaAfter = 0
        /\ closedAt = 0
        /\ broker = {}
        /\ committer = [h \in Committers |-> IdleCommitter]
        /\ closer = [k \in Closers |-> IdleCloser]
        /\ worker = [w \in Workers |-> IdleWorker]
        /\ checkouts = 0
        /\ faults = 0
        /\ stranded = {}
        /\ redelivered = {}
        /\ raced = {}
        /\ overtaken = {}

----------------------------------------------------------------------------
(* Presign and commit. *)

Minted == {c \in Captures : capture[c].photo # None}

\* POST /captures/presign: every call mints a row, also for a photo that has
\* one already.
Presign(p) ==
  /\ \E c \in Captures \ Minted :
       capture' = [capture EXCEPT ![c].photo = p]
  /\ UNCHANGED <<job, runs, osaBefore, osaAfter, closedAt,
                 broker, committer, closer, worker, history>>

\* The capture an earlier commit stored this photo's Idempotency-Key on.
KeyHolders(p) == {c \in Minted : capture[c].keyed /\ capture[c].photo = p}

AbsentJobs == {j \in Jobs : job[j].status = "ABSENT"}
Inserting == {h \in Committers : committer[h].pc = "insert"}

\* The key is known: the handler answers with the job it already has.
CommitReplay(c) ==
  /\ c \in Minted
  /\ KeyHolders(capture[c].photo) # {}
  /\ UNCHANGED vars

\* Mutant: a handler that goes on although another commit has stored the key.
CommitLookupUnchecked(h, c) ==
  /\ committer[h].pc = "idle"
  /\ c \in Minted
  /\ Cardinality(Inserting) < Cardinality(AbsentJobs)
  /\ committer' = [committer EXCEPT ![h] = [pc |-> "insert", capture |-> c, job |-> None]]
  /\ UNCHANGED <<db, broker, closer, worker, history>>

\* The key is new to this handler, and capture c exists.  The pool of job
\* rows bounds how many requests get this far.
CommitLookup(h, c) ==
  /\ committer[h].pc = "idle"
  /\ c \in Minted
  /\ KeyHolders(capture[c].photo) = {}
  /\ Cardinality(Inserting) < Cardinality(AbsentJobs)
  /\ committer' = [committer EXCEPT ![h] = [pc |-> "insert", capture |-> c, job |-> None]]
  /\ raced' = IF \E g \in Inserting : committer[g].capture = c
              THEN raced \cup {c} ELSE raced
  /\ UNCHANGED <<db, broker, closer, worker, checkouts, faults, stranded, redelivered,
                 overtaken>>

\* Mutant: the key is never written to the capture.
CommitInsertKeyless(h) == LET c == committer[h].capture IN
  /\ committer[h].pc = "insert"
  /\ \E j \in AbsentJobs :
       /\ job' = [job EXCEPT ![j] = [capture |-> c, status |-> "QUEUED", error |-> "NONE"]]
       /\ committer' = [committer EXCEPT ![h].pc = "enqueue", ![h].job = j]
  /\ UNCHANGED <<capture, runs, osaBefore, osaAfter, closedAt, broker, closer, worker, history>>

\* The commit of the handler: the key goes on the capture and the job row is
\* inserted.  client_idempotency_key is UNIQUE: a second capture claiming the
\* same key fails the request.
CommitInsert(h) == LET c == committer[h].capture IN
  /\ committer[h].pc = "insert"
  /\ \/ /\ KeyHolders(capture[c].photo) \subseteq {c}
        /\ \E j \in AbsentJobs :
             /\ job' = [job EXCEPT ![j] = [capture |-> c, status |-> "QUEUED", error |-> "NONE"]]
             /\ committer' = [committer EXCEPT ![h].pc = "enqueue", ![h].job = j]
        /\ capture' = [capture EXCEPT ![c].keyed = TRUE]
     \/ /\ ~ KeyHolders(capture[c].photo) \subseteq {c}
        /\ committer' = [committer EXCEPT ![h] = IdleCommitter]
        /\ UNCHANGED <<capture, job>>
  /\ UNCHANGED <<runs, osaBefore, osaAfter, closedAt, broker, closer, worker, history>>

\* _enqueue, after the commit.
CommitEnqueue(h) ==
  /\ committer[h].pc = "enqueue"
  /\ broker' = broker \cup {[job |-> committer[h].job, retries |-> 0]}
  /\ committer' = [committer EXCEPT ![h] = IdleCommitter]
  /\ UNCHANGED <<db, closer, worker, history>>

\* The API process dies, or the broker is unreachable, between the two.
CommitEnqueueLost(h) ==
  /\ committer[h].pc = "enqueue"
  /\ faults < MaxFaults
  /\ faults' = faults + 1
  /\ stranded' = stranded \cup {committer[h].job}
  /\ committer' = [committer EXCEPT ![h] = IdleCommitter]
  /\ UNCHANGED <<db, broker, closer, worker, checkouts, redelivered, raced, overtaken>>

----------------------------------------------------------------------------
(* The workers. *)

\* A worker takes a message, loads the job and, joined to the capture, the
\* visit, and commits RUNNING.  The session keeps what it loaded: the visit's
\* osa_before and the job's error_code are not read again after the model
\* has answered.
WorkerStart(w, m) ==
  /\ worker[w].pc = "idle"
  /\ m \in broker
  /\ broker' = broker \ {m}
  /\ worker' = [worker EXCEPT ![w] = [pc |-> "infer", job |-> m.job, retries |-> m.retries,
                                      sawBefore |-> osaBefore # 0,
                                      sawError |-> job[m.job].error]]
  /\ job' = [job EXCEPT ![m.job].status = "RUNNING"]
  /\ UNCHANGED <<capture, runs, osaBefore, osaAfter, closedAt, committer, closer, history>>

PhotoOf(j) == capture[job[j].capture].photo

Held(w) == [job |-> worker[w].job, retries |-> worker[w].retries]

\* The ORM writes error_code only when it differs from what was loaded.
ErrorAfter(w, code) == IF code = worker[w].sawError THEN job[worker[w].job].error ELSE code

\* What _persist stores on the visit: the reading of a BEFORE photo, unless
\* the visit had a figure when the worker loaded it.
BeforeAfterPersist(w) ==
  IF PhaseOf[PhotoOf(worker[w].job)] = "BEFORE" /\ ~ worker[w].sawBefore
  THEN Len(runs) + 1 ELSE osaBefore

\* Mutant: the analysis row is lost to a failed flush, the rest is stored.
InferDoneRowLost(w) == LET j == worker[w].job IN
  /\ worker[w].pc = "infer"
  /\ osaBefore' = BeforeAfterPersist(w)
  /\ job' = [job EXCEPT ![j].status = "DONE", ![j].error = ErrorAfter(w, "NONE")]
  /\ worker' = [worker EXCEPT ![w] = IdleWorker]
  /\ UNCHANGED <<capture, runs, osaAfter, closedAt, broker, committer, closer, history>>

\* Mutant: the message of a finished job is not acknowledged.
InferDoneNotAcked(w) == LET j == worker[w].job IN
  /\ worker[w].pc = "infer"
  /\ runs' = Append(runs, job[j].capture)
  /\ osaBefore' = BeforeAfterPersist(w)
  /\ job' = [job EXCEPT ![j].status = "DONE", ![j].error = ErrorAfter(w, "NONE")]
  /\ broker' = broker \cup {Held(w)}
  /\ worker' = [worker EXCEPT ![w] = IdleWorker]
  /\ UNCHANGED <<capture, osaAfter, closedAt, committer, closer, history>>

\* The model answers with boxes: detections, analysis, findings, the figure
\* and DONE are one transaction.
InferDone(w) == LET j == worker[w].job IN
  /\ worker[w].pc = "infer"
  /\ runs' = Append(runs, job[j].capture)
  /\ osaBefore' = BeforeAfterPersist(w)
  /\ job' = [job EXCEPT ![j].status = "DONE", ![j].error = ErrorAfter(w, "NONE")]
  /\ worker' = [worker EXCEPT ![w] = IdleWorker]
  /\ UNCHANGED <<capture, osaAfter, closedAt, broker, committer, closer, history>>

\* Mutant: the job of an unreadable photo is closed as DONE.
InferBadPhotoDone(w) == LET j == worker[w].job IN
  /\ worker[w].pc = "infer"
  /\ job' = [job EXCEPT ![j].status = "DONE", ![j].error = ErrorAfter(w, "BAD_PHOTO")]
  /\ worker' = [worker EXCEPT ![w] = IdleWorker]
  /\ UNCHANGED <<capture, runs, osaBefore, osaAfter, closedAt, broker, committer, closer, history>>

\* A photo nothing can be read from, by the model's word or the analysis's:
\* FAILED, nothing stored, no retry.
InferBadPhoto(w) == LET j == worker[w].job IN
  /\ worker[w].pc = "infer"
  /\ job' = [job EXCEPT ![j].status = "FAILED", ![j].error = ErrorAfter(w, "BAD_PHOTO")]
  /\ worker' = [worker EXCEPT ![w] = IdleWorker]
  /\ UNCHANGED <<capture, runs, osaBefore, osaAfter, closedAt, broker, committer, closer, history>>

\* A timeout, a 5xx or a model still warming up: the job goes back to QUEUED
\* and the retry policy takes over in the same task.
InferTransient(w) ==
  /\ worker[w].pc = "infer"
  /\ job' = [job EXCEPT ![worker[w].job].status = "QUEUED"]
  /\ worker' = [worker EXCEPT ![w].pc = "retry"]
  /\ UNCHANGED <<capture, runs, osaBefore, osaAfter, closedAt, broker, committer, closer, history>>

\* Mutant: the attempt is acknowledged and no next one published.
RetryForgotten(w) ==
  /\ worker[w].pc = "retry"
  /\ worker[w].retries < MaxRetries
  /\ worker' = [worker EXCEPT ![w] = IdleWorker]
  /\ UNCHANGED <<db, broker, committer, closer, history>>

\* Retries left: publish the next attempt, then acknowledge this one.
Retry(w) ==
  /\ worker[w].pc = "retry"
  /\ worker[w].retries < MaxRetries
  /\ broker' = broker \cup {[job |-> worker[w].job, retries |-> worker[w].retries + 1]}
  /\ worker' = [worker EXCEPT ![w] = IdleWorker]
  /\ UNCHANGED <<db, committer, closer, history>>

\* Mutant: the last attempt leaves the job QUEUED.
MarkFailedForgotten(w) ==
  /\ worker[w].pc = "retry"
  /\ worker[w].retries >= MaxRetries
  /\ worker' = [worker EXCEPT ![w] = IdleWorker]
  /\ UNCHANGED <<db, broker, committer, closer, history>>

\* None left: _mark_failed.
MarkFailed(w) == LET j == worker[w].job IN
  /\ worker[w].pc = "retry"
  /\ worker[w].retries >= MaxRetries
  /\ job' = [job EXCEPT ![j].status = "FAILED", ![j].error = ErrorAfter(w, "ML_UNAVAILABLE")]
  /\ worker' = [worker EXCEPT ![w] = IdleWorker]
  /\ UNCHANGED <<capture, runs, osaBefore, osaAfter, closedAt, broker, committer, closer, history>>

\* An exception the task does not expect (a 200 whose body is no answer), or
\* the child process killed: Celery acknowledges the message all the same.
WorkerStrands(w) ==
  /\ worker[w].pc # "idle"
  /\ faults < MaxFaults
  /\ faults' = faults + 1
  /\ stranded' = stranded \cup {worker[w].job}
  /\ worker' = [worker EXCEPT ![w] = IdleWorker]
  /\ UNCHANGED <<db, broker, committer, closer, checkouts, redelivered, raced, overtaken>>

\* task_acks_late: the message of a worker that disappears is delivered again ...
WorkerLost(w) ==
  /\ worker[w].pc # "idle"
  /\ faults < MaxFaults
  /\ faults' = faults + 1
  /\ broker' = broker \cup {Held(w)}
  /\ worker' = [worker EXCEPT ![w] = IdleWorker]
  /\ UNCHANGED <<db, committer, closer, checkouts, stranded, redelivered, raced, overtaken>>

\* ... and so is that of a worker that only lost its connection to the broker.
Redeliver(w) ==
  /\ worker[w].pc # "idle"
  /\ faults < MaxFaults
  /\ faults' = faults + 1
  /\ broker' = broker \cup {Held(w)}
  /\ redelivered' = redelivered \cup {worker[w].job}
  /\ UNCHANGED <<db, committer, closer, worker, checkouts, stranded, raced, overtaken>>

----------------------------------------------------------------------------
(* Check-out. *)

AfterRuns == {i \in 1..Len(runs) : PhaseOf[capture[runs[i]].photo] = "AFTER"}

ShotOfRun(i) == ShotAt[capture[runs[i]].photo]

\* Mutant: the last row written, whatever the phase of its photo.
LatestOfAnyPhase == {Len(runs)}

\* Mutant: the AFTER row written last, not the one shot last.
LatestAfterByRow ==
  IF AfterRuns = {} THEN {0} ELSE {i \in AfterRuns : \A k \in AfterRuns : k <= i}

\* The reading of the AFTER photo shot last; of two readings of one photo, the
\* later: the set of the one reading that is so, {0} when there is none.
LatestAfter ==
  IF AfterRuns = {} THEN {0}
  ELSE {i \in AfterRuns : \A k \in AfterRuns :
          ShotOfRun(k) < ShotOfRun(i) \/ (ShotOfRun(k) = ShotOfRun(i) /\ k <= i)}

\* Select the visit, then the figure ...
CheckoutFigure(k) ==
  /\ closer[k].pc = "idle"
  /\ checkouts < MaxCheckouts
  /\ checkouts' = checkouts + 1
  /\ \E i \in LatestAfter :
       closer' = [closer EXCEPT ![k] = [pc |-> "pending", number |-> checkouts + 1,
                                        loaded |-> osaAfter, wasClosed |-> closedAt # 0,
                                        figure |-> i, pending |-> FALSE]]
  /\ UNCHANGED <<db, broker, committer, worker, faults, stranded, redelivered, raced, overtaken>>

Pending == \E j \in Jobs : job[j].status \in {"QUEUED", "RUNNING"}

\* ... then, in a statement that sees what was committed meanwhile, the jobs
\* still to finish.
CheckoutPending(k) ==
  /\ closer[k].pc = "pending"
  /\ closer' = [closer EXCEPT ![k].pc = "write", ![k].pending = Pending]
  /\ UNCHANGED <<db, broker, committer, worker, history>>

\* Check-out k commits, and the others at work go on with what they read before.
Overtake(k) ==
  /\ overtaken' = overtaken \cup
       {closer[m].number : m \in {n \in Closers \ {k} : closer[n].pc # "idle"}}
  /\ UNCHANGED <<checkouts, faults, stranded, redelivered, raced>>

\* Mutant: a check-out that is replayed stamps the visit again.
CheckoutWriteRestamps(k) ==
  /\ closer[k].pc = "write"
  /\ osaAfter' = IF closer[k].figure \in {0, closer[k].loaded} THEN osaAfter
                 ELSE closer[k].figure
  /\ closedAt' = closer[k].number
  /\ closer' = [closer EXCEPT ![k] = IdleCloser]
  /\ Overtake(k)
  /\ UNCHANGED <<capture, job, runs, osaBefore, broker, committer, worker>>

\* osa_after is written when there is a figure and it differs from the one
\* loaded; checked_out_at when the visit had none when it was loaded.
CheckoutWrite(k) ==
  /\ closer[k].pc = "write"
  /\ osaAfter' = IF closer[k].figure \in {0, closer[k].loaded} THEN osaAfter
                 ELSE closer[k].figure
  /\ closedAt' = IF closer[k].wasClosed THEN closedAt ELSE closer[k].number
  /\ closer' = [closer EXCEPT ![k] = IdleCloser]
  /\ Overtake(k)
  /\ UNCHANGED <<capture, job, runs, osaBefore, broker, committer, worker>>

----------------------------------------------------------------------------

CommitStep(h) == CommitInsert(h) \/ CommitEnqueue(h)
WorkerStep(w) == \/ \E m \in broker : WorkerStart(w, m)
                 \/ InferDone(w) \/ InferBadPhoto(w) \/ InferTransient(w)
                 \/ Retry(w) \/ MarkFailed(w)
CheckoutStep(k) == CheckoutPending(k) \/ CheckoutWrite(k)

Next == \/ \E p \in Photos : Presign(p)
        \/ \E c \in Captures : CommitReplay(c)
        \/ \E h \in Committers, c \in Captures : CommitLookup(h, c)
        \/ \E h \in Committers : CommitStep(h) \/ CommitEnqueueLost(h)
        \/ \E w \in Workers : WorkerStep(w) \/ WorkerStrands(w) \/ WorkerLost(w) \/ Redeliver(w)
        \/ \E k \in Closers : CheckoutFigure(k) \/ CheckoutStep(k)

\* A request the API has accepted runs to its end, and so does a worker with
\* work: the model call has a timeout.  Nothing makes a client send anything,
\* and nothing makes a fault happen.
Fairness == /\ \A h \in Committers : WF_vars(CommitStep(h))
            /\ \A w \in Workers : WF_vars(WorkerStep(w))
            /\ \A k \in Closers : WF_vars(CheckoutStep(k))

Spec == Init /\ [][Next]_vars /\ Fairness

----------------------------------------------------------------------------
(* What must never be wrong. *)

Live == Jobs \ AbsentJobs

CaptureRow == [photo : Photos \cup {None}, keyed : BOOLEAN]
JobRow == [capture : Captures \cup {None}, status : Status, error : Errors]
CommitterState == [pc : {"idle", "insert", "enqueue"},
                   capture : Captures \cup {None}, job : Jobs \cup {None}]
CloserState == [pc : {"idle", "pending", "write"}, number : 0..MaxCheckouts,
                loaded : 0..Len(runs), wasClosed : BOOLEAN,
                figure : 0..Len(runs), pending : BOOLEAN]
WorkerState == [pc : {"idle", "infer", "retry"}, job : Jobs \cup {None},
                retries : Nat, sawBefore : BOOLEAN, sawError : Errors]

\* Every variable has its type, and a row only ever refers to rows that exist:
\* a job and an analysis to a capture that was committed, a figure to an
\* analysis, a message and a worker to a job (the foreign keys of models.py,
\* and the identifiers a handler carries past its own commit).
TypeOK ==
  /\ capture \in [Captures -> CaptureRow]
  /\ job \in [Jobs -> JobRow]
  /\ runs \in Seq(Captures)
  /\ osaBefore \in 0..Len(runs)
  /\ osaAfter \in 0..Len(runs)
  /\ closedAt \in 0..MaxCheckouts
  /\ broker \subseteq [job : Live, retries : Nat]
  /\ committer \in [Committers -> CommitterState]
  /\ closer \in [Closers -> CloserState]
  /\ worker \in [Workers -> WorkerState]
  /\ checkouts \in 0..MaxCheckouts
  /\ faults \in 0..MaxFaults
  /\ stranded \subseteq Live
  /\ redelivered \subseteq Live
  /\ raced \subseteq Minted
  /\ overtaken \subseteq 0..MaxCheckouts

\* A job belongs to a capture that holds its key, an analysis to a job's
\* capture, and a handler or a worker in the middle of something carries rows
\* that exist.
Linked ==
  /\ \A j \in Live : job[j].capture \in Minted /\ capture[job[j].capture].keyed
  /\ \A i \in 1..Len(runs) : runs[i] \in Minted
  /\ \A h \in Committers :
       /\ committer[h].pc = "insert" => committer[h].capture \in Minted
       /\ committer[h].pc = "enqueue" => committer[h].job \in Live
  /\ \A w \in Workers : worker[w].pc # "idle" => worker[w].job \in Live

\* Somebody will still move job j: a commit about to enqueue it, a message, or
\* a worker.
Tended(j) == \/ \E h \in Committers : committer[h].pc = "enqueue" /\ committer[h].job = j
             \/ \E m \in broker : m.job = j
             \/ \E w \in Workers : worker[w].pc # "idle" /\ worker[w].job = j

\* A job that says it is QUEUED or RUNNING has somebody tending it, through
\* every retry, redelivery and lost worker, unless a fault destroyed its
\* message: the only jobs a phone polls for nothing are those.
NoOrphanJob == \A j \in Jobs :
  job[j].status \in {"QUEUED", "RUNNING"} => Tended(j) \/ j \in stranded

\* DONE is published with the result: the phone that stops polling finds an
\* analysis to read.
DoneHasResult == \A j \in Jobs :
  job[j].status = "DONE" => \E i \in 1..Len(runs) : runs[i] = job[j].capture

\* Presign mints a row at every call and the queue presigns again after an
\* interruption, but one photograph is analysed as one capture: no commit can
\* bind its key to a second row.
OneAnalysedCapturePerPhoto == \A j1, j2 \in Live :
  PhotoOf(j1) = PhotoOf(j2) => job[j1].capture = job[j2].capture

\* The one way a photograph gets two jobs is two commits of its capture that
\* both looked the key up before either had stored it.  A retry sent after
\* the first commit was stored never does.
DuplicateOnlyByOverlap == \A j1, j2 \in Live :
  j1 # j2 /\ PhotoOf(j1) = PhotoOf(j2) => job[j1].capture \in raced

\* "must not produce two jobs for one photo" (the docstring of commit).
OneJobPerPhoto == \A j1, j2 \in Live : PhotoOf(j1) = PhotoOf(j2) => j1 = j2

\* A finished job stays finished, with the verdict it had, unless the broker
\* handed its message to a second worker.
SettledStays == [][\A j \in Jobs \ redelivered :
  job[j].status \in {"DONE", "FAILED"} => job'[j] = job[j]]_vars

\* Reading i gives way to k: k's photograph was shot later, or k is a later reading
\* of the same capture.
GivesWay(i, k) == \/ ShotOfRun(i) < ShotOfRun(k)
                  \/ runs[i] = runs[k] /\ i < k

\* "the later photograph is the later photograph either way" (check_out): an
\* AFTER figure only moves to a photograph shot later.
LaterPhotoWins == [][osaAfter' # osaAfter /\ osaAfter # 0 =>
  osaAfter' # 0 /\ GivesWay(osaAfter, osaAfter')]_vars

\* "Keep the original close time on a replay" (check_out): whatever check-outs
\* are sent again, the first close time stands.
FirstCloseStands == [][closedAt # 0 => closedAt' = closedAt]_vars

\* The one way the AFTER figure goes back to an earlier photograph is a check-out
\* that read its figure before another one committed and wrote it after: what
\* arrives, is analysed or is replayed out of order otherwise never does.
AfterFigureAdvances == [][osaAfter' # osaAfter /\ osaAfter # 0 =>
  \/ osaAfter' # 0 /\ GivesWay(osaAfter, osaAfter')
  \/ \E k \in Closers : CheckoutWrite(k) /\ closer[k].number \in overtaken]_vars

\* The one way the close time moves is a check-out that found the visit open and
\* was overtaken by the one that closed it.  A replay sent after the close never
\* moves it, however many check-outs overlapped before.
CloseTimeKept == [][closedAt # 0 /\ closedAt' # closedAt => closedAt' \in overtaken]_vars

\* "later captures in the same visit must not overwrite it" (_persist).
FirstReadingKept == [][osaBefore # 0 => osaBefore' = osaBefore]_vars

\* Every job is eventually DONE or FAILED, unless a fault destroyed its
\* message: the phone's polling ends with an answer.
JobSettles == \A j \in Jobs :
  job[j].status \in {"QUEUED", "RUNNING"}
    ~> job[j].status \in {"DONE", "FAILED"} \/ j \in stranded

\* "past this the number lands in the manager's dashboard whenever the worker
\* finishes" (the check-out screen): a closed visit with an AFTER analysis
\* comes to have an AFTER figure.
AfterFigureLands == (closedAt # 0 /\ AfterRuns # {}) ~> osaAfter # 0

Readings == [i \in 1..Len(runs) |-> capture[runs[i]].photo]

\* What the pipeline does to a visit is what VisitLedger allows.
Ledger == INSTANCE VisitLedger WITH
  readings <- Readings,
  before <- osaBefore,
  after <- osaAfter,
  closed <- closedAt # 0

ImplementsLedger == Ledger!LedgerSpec

=============================================================================
