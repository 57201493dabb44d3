# ShelfEye in TLA+

Specifications of the Retail-Shelf-Intelligence system ("ShelfEye"): a rep photographs a
shelf, a detector finds the gaps, the rep confirms or rejects them and works through the
resulting tasks, and the visit is closed with an on-shelf-availability figure before and after.
The modules are translated from the code under `src/`; paths below are relative to it.

    tlc -workers 2 -config CapturePipeline.cfg MCCapturePipeline    # model-check
    tlapm CapturePipeline_proofs.tla                                # check the proofs

## Inventory of the system

| Part | State it keeps | Operations | Talks to |
|---|---|---|---|
| Capture API (`backend/app/api/v1/captures.py`) | rows of `captures`, `inference_jobs` | presign, commit, job status, result | Postgres, object store, Celery broker |
| Workers (`backend/app/workers`, `services/analysis_pipeline.py`) | a job under way; rows of `detections`, `shelf_analyses`, `gap_findings`; `visits.osa_before` | start, infer, persist, fail, retry, give up | broker, model service, Postgres |
| Visits API (`api/v1/visits.py`) | rows of `visits` | check in, check out | Postgres |
| Findings API (`api/v1/findings.py`) | verdict and reason of a gap, `audit_log`, the task of a gap | verify, evidence | Postgres |
| Tasks API (`api/v1/tasks.py`) | status, reason and completion of a task; `replenishment_requests` | list, patch | Postgres |
| Sync API (`api/v1/sync.py`) | `sync_operations` | batch acknowledgement | Postgres |
| Offline queue (`frontend/src/lib/offline/queue.ts`, `lib/api/sync.ts`, `QueueDrainer.tsx`, `app/m/sync`) | IndexedDB rows PENDING, UPLOADING, DONE, FAILED; the drain in flight | enqueue, drain, retry, purge | every write endpoint above |
| Visit store and screens (`lib/store.ts`, `lib/flow`, `app/m/store/[id]/*`) | the visit of the phone: check-in, staged capture, job, analysis, verdicts, tasks, close | begin, stage, verify, set task, close, reset | the API, or the queue when offline |
| Camera (`hooks/useCamera.ts`) | the stream, its status and its recovery timer | start, stop, capture, recover | browser media |
| Shelf analysis (`services/shelf_analysis.py`, `sku_catalog.py`) | none | filter, cluster rows, measure, classify, label | called by the workers |
| Scores (`services/risk.py`, `repositories/store_risk.py`, `routes.py`) | none | store risk, shelf health, route order | Postgres (reads) |
| Model service (`model/shelfeye_ml/serving`) | the loaded model, warm or not | infer, health | object store |
| Analytics, model health, catalogue, areas, stores | none of their own | reads | Postgres |
| Authentication (`auth.py`, `deps.py`, `AuthGate.tsx`, `client.ts`, `app/m/login`) | the token in the tab's storage; the gate over a layout and the user it knows | sign in, sign out, guard, expiry | every endpoint |
| Manager web (`app/w`, `components/web`, `lib/api/useResource.ts`) | the area chosen; what each pane was asked for and holds | choose an area, view a photograph, reload | read endpoints |
| Training, evaluation, seeds | - | batch jobs | |

The parts meet in four places: the tables (every handler is one READ COMMITTED transaction),
the broker (a job id per message, acknowledged late), the phone's HTTP calls (sent again after a
time-out, or later from the queue) and the queue in IndexedDB (shared by the screens, the
automatic drain and the sync page).

What is hard about it, and what makes each part correct:

- **Capture and workers.** Commits sent twice, a message lost after the job is stored, a message
  delivered twice, a worker that dies, a model that times out: a job that says it is under way is
  tended, ends, ends with a result, and one photograph is analysed as one capture.
- **Visit figures.** Readings come in any order and check-out is repeated, beside itself too (the
  phone gives up after 15 s and the queue sends again): the BEFORE figure is the first BEFORE reading,
  the AFTER figure is of the last photograph shot, neither is withdrawn, and the close time is the first.
- **Gaps and tasks.** Verdicts and reports are sent again, queued, and cross: a task exists exactly
  for a confirmed gap, supply chain is asked once, the audit log tells the history, the completion
  stamp is the first, nobody waits for ever.
- **Queue.** Screens, drain and retry write the same rows, an update is two transactions, and the
  signal or IndexedDB may go in the middle: what the rep reads as kept is kept, an older decision does
  not follow a newer one, no unsent row is dropped, one photograph presigns one row, every drain ends.
- **Visit store.** A call outlives its screen and its visit: nothing of one visit shows in another, a
  verdict is of the photograph on screen, a close is asked for once at a time and every screen that
  waits for it hears of it.
- **Camera.** The device answers late or never, tracks die silently, timers outlive the viewfinder: no
  stream without an owner, a shut viewfinder stays shut, a dead one is noticed.
- **Sessions and dashboard.** Requests of an earlier session, area or photograph answer late: panes
  show what was asked last, and a live session is not lost to its own requests.
- **Analysis and scores.** Boundaries: tolerance of a row, a shelf of price tags only, empty
  denominators, weights that sum to one, ties.

`PROJECT.json` lists the hazards one by one, at their lines, with the property that covers each.

## Modules

| Module | What it is |
|---|---|
| `VisitLedger` | abstract: readings, a BEFORE and an AFTER figure, closed or not |
| `CapturePipeline` | presign, commit, broker, workers and check-out of one visit |
| `MCCapturePipeline` | its instances for TLC |
| `CapturePipeline_proofs` | its theorems, for all constants |
| `GapLedger` | abstract: the verdict on a gap, its work, whether supply chain was asked |
| `GapTasks` | `verify_finding` and `update_task`, with their locks and constraints |
| `MCGapTasks` | its instances for TLC |
| `GapTasks_proofs` | its theorems, for all constants |
| `OfflineQueue`, `MCOfflineQueue`, `OfflineQueue_proofs` | the phone's taps, its queue in IndexedDB, the drain, the retry and the sync page |
| `VisitFlow`, `MCVisitFlow`, `VisitFlow_proofs` | the screens of a visit, the visit store and the calls they await |
| `Camera`, `MCCamera`, `Camera_proofs` | the viewfinder hook, the device and the recovery |
| `ManagerWeb`, `MCManagerWeb`, `ManagerWeb_proofs` | sign-in, the gates over the layouts, the dashboard and its panes |

### CapturePipeline

The steps of the model are what other processes can see of a handler: one transaction, or one
message sent after it.

| State | Code |
|---|---|
| `capture`, `job`, `runs` | `captures`, `inference_jobs`, `shelf_analyses` (in the order written) |
| `osaBefore`, `osaAfter`, `closedAt` | the columns of `visits`; a figure is the number of the row it was copied from, so copying from the wrong row shows |
| `broker` | Celery messages no worker holds, with their retry count |
| `committer`, `closer`, `worker` | the local variables of `commit`, `check_out` and `run_analysis`/`analyze_capture` between their steps |
| `checkouts`, `faults` | bounds |
| `stranded`, `redelivered`, `raced`, `overtaken` | history: jobs whose message was destroyed, jobs delivered again while a worker had them, captures with two commits past the lookup, check-outs at work while another one committed |

| Action | Code |
|---|---|
| `Presign` | `captures.py` 54-91: a new row on every call |
| `CommitReplay`, `CommitLookup` | 111-133: the key is known, or is not |
| `CommitInsert` | 129-146: key and job in one transaction; a second capture with the key violates UNIQUE |
| `CommitEnqueue`, `CommitEnqueueLost` | 148-156: the message, after the commit; or it is lost |
| `WorkerStart` | `analysis_pipeline.py` 58-69: load, RUNNING, commit |
| `InferDone` | 71-109, `_persist`: analysis, figure and DONE in one transaction |
| `InferBadPhoto` | 76-79, 88-92, `_fail` |
| `InferTransient`, `Retry`, `MarkFailed` | 80-84; `analyze.py` 39-65 |
| `WorkerStrands`, `WorkerLost`, `Redeliver` | Celery as configured in `celery_app.py` 23-34: an unexpected exception or a killed child is acknowledged, a lost or disconnected worker's message is delivered again |
| `CheckoutFigure`, `CheckoutPending`, `CheckoutWrite` | `visits.py` 71-93, 95-109, 121-130: two SELECTs and the write; `check_out` takes no lock, so any number of them may be between these steps |

The ORM is modelled by what it does. A session keeps what it has loaded (`expire_on_commit=False`,
the visit joined to the capture), so the worker tests the `osa_before` it saw at `WorkerStart`
(`sawBefore`), and it writes only columns that differ from what it loaded (`sawError`, `loaded`,
`wasClosed`). A check-out tests `checked_out_at` as it loaded it, so two at work at once may both stamp
the visit and either may write its figure last: `CloseTimeKept` and `AfterFigureAdvances` allow for the
check-outs in `overtaken` and for nothing else, and two runs show what those do.

Abstracted: the model's boxes and the scores (a reading is a row), image metadata, ownership checks
(they refuse and change nothing), log lines and notifications. The two terminal error codes are one
(`BAD_PHOTO`). `detections` and `gap_findings` are written in the transaction of `InferDone` and are
not looked at again here. Visits share only the workers, so there is one visit. `KeyHolders` uses
that a photograph has one key (`capture.ts` mints it with the photograph and the queue's row id is
that key).

### GapTasks

Each handler is split where another transaction can come between: the SELECT, the first UPDATE the
session flushes (autoflush issues it before the next SELECT, and it takes the row's lock), and the
commit. `verifier` and `patcher` hold what a request loaded and what it has flushed but not
committed.

| Action | Code |
|---|---|
| `VerifyRead` | `findings.py` 36-59: load; the same verdict again is answered and changes nothing |
| `VerifyUpdate` | the flush of 57-61 forced by the SELECT at 68 or 75: wait for the row, then look for the task |
| `VerifyConfirm`, `VerifyReject` | 63-101: insert or delete the task, log, commit |
| `VerifyFails` | UNIQUE(`gap_finding_id`) or the foreign key of `source_task_id` (`models.py` 273, 283) fails the transaction |
| `PatchRead` | `tasks.py` 63-72 |
| `PatchUpdate` | 73-84: with OUT_OF_BACKSTOCK the SELECT of the visit flushes `blocked_reason`, then the request is looked up |
| `PatchCommit` | 85-106: the other columns, the request, the commit |
| `PatchFails` | the row was deleted meanwhile: the UPDATE matches nothing, or the INSERT has no source |

`Decided` and `Patched` write only the columns that differ from the loaded row: two overlapping
requests can leave columns of both, which is why `AuditTellsHistory`, `ReasonsFit` and
`FirstCompletionKept` speak of rows no two requests overlapped on (`overlapped`). A finding's tasks
are never reused rows (`minted`). `after_capture_id`, `verified_by` and wording are left out; the
phone sends a reason only with REJECTED (`verify/page.tsx`), and so does the model.

### OfflineQueue

The browser runs one thread, so a step is the code between two awaits, and an IndexedDB call is one
transaction; `update` of `queue.ts` is two, and writes back the copy the first one read.

| State | Code |
|---|---|
| `ops`, `shown` | the taps of the rep with the stage of their request; what the screens show of each gap, task, photograph and visit |
| `queue`, `clock` | the rows of the IndexedDB store by id, and `queuedAt` |
| `sender` | the drain (`sync.ts` 117-189), the retry of one row (191-211) and the tidying of the sync page, each with its list, the copy `update` holds and the grant of `presign` |
| `online`, `woken`, `storage` | `navigator.onLine`, the effect of `QueueDrainer`, IndexedDB at work |
| `applied`, `inForce`, `minted` | the taps the server carried out, the one it carried out last about each subject, and the capture rows it presigned. A request that comes again does no harm (`CapturePipeline`, `GapTasks`), but CONFIRMED and REJECTED do not commute: `findings.py` and `tasks.py` apply what they are told last, and so does `Apply` |
| `shared`, `mislaid` | history: subjects two handlers were at work on at once; subjects whose older row a newer decision was answered past, or had removed before its own was refused |
| `storedOver`, `lostGrants` | history: decisions not carried out when a later one was stored; presigns no row holds, since the answer was lost or the row put anew |

| Action | Code |
|---|---|
| `Tap`, `Serve`, `Answer`, `Refuse` | a verdict, report, photograph or check-out sent online: `store.ts` 224-235, 264-275; a verdict shows before it is sent |
| `Lose` | OFFLINE or TIMEOUT (`errors.ts`, `client.ts` 85-103): the request, or only its answer |
| `ListOlder`, `RemoveOlder`, `Store` | `removeByPrefix` and `tryEnqueue` of `store.ts` 237-262, 276-313, where the request is out of reach; a correction that is answered touches no row |
| `StoreFails`, `PutRefused` | IndexedDB gone, or one put refused (`queue.ts` 145-151): the rollback |
| `AutoDrain`, `SendAll`, `RetryRow`, `OpenSyncPage` | `QueueDrainer.tsx`; the buttons and the mount of `sync/page.tsx` |
| `MarkRow`/`Marked`, `KeepGrant`/`Kept`, `SettleRow`/`Settled` | the three `update`s of a replay, each a read and a write |
| `Presign`, `Send`, `PresignLost`, `SendFails` | `replay`, `sync.ts` 43-109 |
| `Stalls` | a request nothing ends: the PUT of `captures.ts` 72-76 has no abort, and `client.ts` 102 clears its timer before the body is read |
| `Acknowledge`, `ListDone`, `RemoveDone`, `SenderDies` | 28-41, 176-189; `purgeCompleted`; a queue call that throws |
| `SignalLost`, `SignalBack`, `StorageGone` | the shop's walls; the browser takes the database back |

Abstracted: labels, sizes and time-outs; a retry's back-off (there is none); `sync_operations`, which
nothing reads. The age at which a sent row is purged is any. A put is refused for a new row only, the
one that grows the database; the puts of `update` fail with IndexedDB as a whole. A photograph can be
tapped again, since `processing/page.tsx` runs its upload at every mount.

### VisitFlow

One store, one history, and the calls that are out. A call remembers what its closure captured and
whether its screen still stands (`live`); its continuation writes into the store either way.

| State | Code |
|---|---|
| `trail` | the browser's history; its last entry is the screen (`lib/flow/useFlow.ts`), entries no press can reach any more are dropped |
| `store` | `store.ts` 30-147; photographs and lists are known by the visit (and shelf) they belong to |
| `calls` | awaited requests: check-in and the pause after it, photograph intake, analysis, task lists, upload of the AFTER photograph, close |
| `screen`, `polls` | local state of the processing and the check-out screen |
| `opened`, `settled`, `tasked`, `reading` | the server: visits, closed or to be closed by the queue, with tasks, with an AFTER photograph at the model |
| `abandoned`, `carried` | history: kinds of call whose visit or screen went while they were out, or that were made again beside the first ("refresh": a close asked for again though its figure had come); photographs that left the camera screen undecided, or were staged when a way back led onto the processing screen |

| Action | Code |
|---|---|
| `GuardBlocks`, `NothingToProcess`, `BackButton`, `BackKey` | `steps.ts`, `FlowGuardBlock.tsx`, `processing/page.tsx` 146-165, `Chrome.tsx` |
| `OpenShop`, `Consent`, `CarryOn`, `StartCheckIn`, `CheckedIn`, `CheckInFails`, `HandOver` | `app/m/page.tsx`, `checkin/page.tsx`, `beginVisit` and `setCheckIn` |
| `ChooseShelf`, `ConsentGate`, `Shoot`, `ShootWithoutCamera`, `Taken`, `IntakeFails`, `Retake`, `UsePhoto` | `category/page.tsx`, `capture/page.tsx`, `capture.ts`, `stageCapture` |
| `Analysed`, `AnalysisFails`, `RetryAnalysis`, `RetakeAfterFailure`, `LeaveQueued` | `processing/page.tsx` |
| `ResultButtons`, `DecideGaps`, `GoTasks`, `TasksListed`, `TasksFail`, `TasksButton` | `result`, `verify` and `tasks/page.tsx`, `loadTasks` |
| `ShootAfter` ... `CompareButton` | `compare/page.tsx` |
| `CloseServed`, `CloseAnswered`, `CloseFails`, `AskAgain`, `GiveUp`, `RetryClose`, `NextShop`, `EndRoute` | `closeOutVisit`, `checkout/page.tsx`, `resetVisit` |

`Move` is every change of screen: the calls lose their screen, the new screen's effects start
theirs, and check-in begins a visit of its shop. Abstracted: scores and gap positions (a verdict on the
gaps of a visit is one step, `OfflineQueue` has them one by one), the photo log, progress, GPS.

### Camera

| State | Code |
|---|---|
| `screen`, `browser` | none, shut or open (`active`); whether this browser has a camera to give |
| `status`, `held`, `gen` | the status, the stream and the generation of `useCamera.ts`; a stream is named by the generation it was granted to |
| `seen`, `shown` | status and stream as of the last render, which the listeners and the poll read |
| `tick`, `timer` | the zero-delay timer of the `active` effect; the recovery's back-off |
| `asked`, `live` | `getUserMedia` calls the device has not answered; tracks that run |
| `late` | history: a recovery fired over a viewfinder that had been shut |

`Mount`, `Shut`, `Unmount`, `Tick`, `Render` and `Retry` are the hook's effects and its `start` and
`stop` (125-155, 217-228, 262-273), `Granted` and `Refused` the two ends of `getUserMedia` (156-177),
`Dies` a track that ends with or without its listener (230-235), `Poll`, `Wake` and `TimerFires` the
recovery (193-215, 237-260). `Settled` says that React renders, and a timer of 0 ms fires, before the
device or a timer of seconds does. The length of the back-off is left out.

### ManagerWeb

| State | Code |
|---|---|
| `token`, `owner`, `valid` | the tab's stored token, as the number of its session; what the server still takes |
| `screen`, `gate` | the layout and the `AuthGate` over it: its mount, the user it knows, its state |
| `shell`, `panes` | `WebShell`'s area; `useResource` of a dashboard and of the evidence viewer: inputs, data, state, run |
| `calls` | requests out, with the token they carry and the component and run they are for |

`Submit`, `LoginServed`, `SignedIn`, `LoginFails`, `Logout`, `Expire` and `Unauthorized` are
`login/page.tsx`, `auth.ts` and the 401 of `client.ts` 105-113; `MeAnswered`, `MeFails`, `TryAgain`,
`BrowsePhone` and `BrowseWeb` the gate (`AuthGate.tsx` 43-85, 114-137) and moves under it;
`AreasSettled`, `AreasUnheard` and `ChangeArea` the shell; `View`, `Loaded` and `LoadFails` the panes.
A token the tab's own clock knows to be over is cleared as it is read (`Read`), one the server ended is
found out by a 401. What the panes draw is left out.

## Runs

| Run | Instance | Shows |
|---|---|---|
| `capture_pipeline` | 1 BEFORE and 2 AFTER photographs, 2 captures, 2 jobs, 2 workers, 2 commits and 2 check-outs at once, 1 retry, 1 fault; 664 000 states | the type invariant, `NoOrphanJob`, `DoneHasResult`, `OneAnalysedCapturePerPhoto`, `DuplicateOnlyByOverlap`, `SettledStays`, `CloseTimeKept`, `AfterFigureAdvances`, refinement of `VisitLedger` |
| `capture_pipeline_live` | 2 photographs, no check-outs, 1 fault; 72 000 states | `JobSettles` |
| `late_after_figure` | 1 AFTER photograph, 2 check-outs | **violated**: `AfterFigureLands` |
| `restamped_close` | 1 AFTER photograph, 2 check-outs at once, no fault | **violated**: `FirstCloseStands` |
| `gap_tasks` | 1 gap, 2 task rows, 2 verdicts and 2 reports at once, 5 requests; 337 000 states | `TaskIffConfirmed`, `SupplyAskedOnce`, `AskedStaysConfirmed`, `AuditTellsHistory`, `ReasonsFit`, `FirstCompletionKept`, `EveryRequestAnswered`, refinement of `GapLedger` |
| `reject_refused` | 1 gap, one request at a time | **violated**: `CorrectionLeavesNoWork` |
| `offline_queue` | 1 gap, 1 task, 1 photograph, 2 taps, 1 press on the sync page, 1 fault, 1 outage; 1 319 000 states | `ShownIsKept`, `DoneMeansServed`, `OneCapturePerQueuedPhoto`, `StoredOverNeverSent`, `UnsentNeverDropped`, `DrainEnds` |
| `stale_verdict` | 1 gap, 2 taps, 1 press, 1 fault, 1 outage | **violated**: `StaleVerdictNeverSent` |
| `visit_flow` | 2 shops, 2 shelves, 2 visits, 2 photographs, 1 failure or press of back, 2 calls left behind, 1 poll; 1 330 000 states | `NothingOfAnotherVisit`, `AnalysisOfStagedPhoto`, `UploadedAsPhotographed`, `ClosedMeansClosed`, `WaitersAreServed`, `SummaryNeverGoesBack` |
| `other_visits_summary` | the instance of `visit_flow` | **violated**: `SummaryIsOfTheVisit` |
| `camera` | 7 events of the rep or the device; 63 000 states | `NoStrayStream`, `ShutStaysShut`, `DeadViewfinderEnds` |
| `manager_web` | 1 rep, 1 manager, 2 areas, 2 photographs, 2 sessions, 3 clicks, 2 faults; 773 000 states | `ShowsWhatWasAsked`, `SessionLostOnlyToAnother` |

Ten more configurations, one property each, are kept for the counterexample TLC gives; they are not
runs of `PROJECT.json`. Each states words of a comment of the code, quoted beside the property.

| Configuration | Module | Violates |
|---|---|---|
| `TwoJobs`, `SecondReading`, `FigureGoesBack` | `MCCapturePipeline` | `OneJobPerPhoto`, `FirstReadingKept`, `LaterPhotoWins` |
| `StampMoves` | `MCGapTasks` | `FirstStampStands` |
| `RetractedVerdict`, `RefusedRow`, `StalledDrain`, `SecondClaim` | `MCOfflineQueue` | `RetractedNeverSent`, `RollBackTellsTruth`, `NoneBlocksTheRest`, `ClaimIsReused` |
| `OldVerdict`, `SecondVisit` | `MCVisitFlow` | `VerdictOfThisShot`, `OneVisitPerTrip` |

**Bounds.** Two captures, of any two of three photographs or both of one; two jobs, so that a photograph
can get two or two photographs race; two of each process, since every hazard listed is between two; one
retry (`MaxRetries`; the code has three) so that both branches of the retry policy are taken; one
fault, at any point. Two AFTER photographs are enough to arrive in the wrong order. The two check-outs
may overlap or follow one another; the theorems have any number of them. For gaps: two
task rows let a gap be confirmed, rejected and confirmed again; five requests let two overlapping pairs
meet a history of one. Gaps do not interact, so one is enough. `capture_pipeline` uses symmetry over rows
and processes and `visit_flow` over shops and shelves; no run with a liveness property uses any.

On the phone, two taps on one subject are a decision and its correction, and two on two subjects give
the drain a list of two; one outage or fault falls at any point of any of them. A check-out goes the way
of a photograph (one row, one id, stored without listing) less its bytes and its grant, so `Closings` is
empty in the run; the theorems have all four. `SecondClaim` needs three outages: the photograph is
queued, the next one fails its upload after the presign, the third queues it anew. Two shops, two
shelves and two visits are what an answer needs to land in the wrong one; one slip is enough for each of
the failures, presses of the back key and answers lost, but no two of them together; two calls left
behind let one overtake another. Seven events open a viewfinder, kill its track, shut it, open it again
and kill that. Two sessions, areas and photographs let each answer be one of before; two faults are an
expiry and a failure.

**Fairness.** Weak fairness of each accepted commit, check-out, verdict and report (the API process
runs what it has accepted; a fault ends it otherwise) and of each worker (`ml_timeout_seconds` bounds
the model call, `task_time_limit` the task). No fairness is assumed of a client, of presign, of a new
commit, of a new check-out or of a fault. `late_after_figure` rests on that: the screen asks again
only while the server says the analysis is pending and for 20 s (`ANALYSIS_WAIT_MS`), while the
retries alone wait 2 + 8 + 32 s, so a last check-out before the analysis is a real execution and not
an effect of `MaxCheckouts`.

`OfflineQueue` has weak fairness of the drain: the browser runs the continuation of a promise that
settled. A request ends by an answer, an error or the abort after 15 s, *unless it stalls*: nothing
aborts the PUT of a photograph, nor the reading of a body, and a sender whose request `Stalls` has no
step, so fairness promises nothing of it. `DrainEnds` names that end; `StalledDrain.cfg` shows what it
costs. That a drain begins is assumed of nobody. `Camera` has weak fairness of what the page schedules
(renders, timers, intervals), and of nothing the device does: a permission sheet may stay up for ever,
and `DeadViewfinderEnds` holds all the same since asking is already an end of the dead picture.
`VisitFlow` and `ManagerWeb` assume none and have safety properties only.

**Exceptions.** Where the code lets something go wrong in one known way, the property names that way by
a history variable and excludes all others: `shared` (a drain or a retry and another handler on one
subject), `mislaid` (an older row went unnoticed, or fell to a row that was refused), `lostGrants`,
`abandoned` (a call whose visit was put away, or that was made again beside the first), `carried`,
`late`, `redelivered`, `overtaken`, `overlapped`, and in `SessionLostOnlyToAnother` the request of
another session. Without the exception each is violated. Where a comment of the code promises that the
excepted case does not happen, a property of its own states the comment's words and TLC violates them ("What
the violations show"); the others are under "What happens in the exceptions". A property with an
exception says nothing about the case the exception is: where a hazard of `PROJECT.json` is such a case it
names no property, or says in its note which part of it the property leaves out.

The four runs of the phone and the web have `CHECK_DEADLOCK FALSE`, too: taps, clicks and events are
bounded, and a phone may lie idle.

`gap_tasks` has `CHECK_DEADLOCK FALSE`: requests are bounded, and the system stops when they are used
up. `EveryRequestAnswered` says that no request is left waiting then.

### What the violations show

The five named like a run are in `PROJECT.json` with the comment they contradict; the others have their
configuration.

1. `TwoJobs.cfg`: two overlapping commits of one capture store two jobs for one photograph
   (`captures.py` 108-109 says that must not happen). `DuplicateOnlyByOverlap`, which holds and is
   proved, says that this race is the only way.
2. `SecondReading.cfg`: the second of two BEFORE analyses overwrites `osa_before`, since it tests a
   visit loaded before the model call (`analysis_pipeline.py` 229-234).
3. `late_after_figure`: an AFTER analysis that finishes after the last check-out never reaches the
   visit (`checkout/page.tsx` 24-27 says it does).
4. `reject_refused`: a gap whose task asked supply chain cannot be rejected any more: the DELETE fails
   on a foreign key and the request ends in a 500 (`findings.py` 65-72).
5. `restamped_close`: a check-out given up after 15 s and its replay both load the visit open, and the
   second to commit moves the close time (`visits.py` 122-126 says a replay keeps it).
   `CloseTimeKept`, which holds and is proved, says that such an overlap is the only way.
6. `FigureGoesBack.cfg`: of two overlapping check-outs the one that read first may commit last, and the
   earlier photograph's figure stands again (`visits.py` 79-81).
7. `StampMoves.cfg`: two overlapping reports both find `completed_at` empty, and the second stamps again
   (`tasks.py` 98-104).

The paths below are under `frontend/src`.

8. `stale_verdict`: CONFIRMED is queued, REJECTED is answered online, and the drain sends CONFIRMED: only
   a correction that is stored removes the older row (`lib/offline/queue.ts` 66-72, `lib/store.ts` 245).
9. `RetractedVerdict.cfg`: a drain sends the row on its list though a correction has removed it
   (`lib/api/sync.ts` 144).
10. `RefusedRow.cfg`: a correction removes the queued verdict and is then refused by IndexedDB; the rollback
    shows the verdict nobody holds any more (`lib/store.ts` 226-227, 255).
11. `StalledDrain.cfg`: an upload that is never answered blocks its drain and every later one
    (`lib/api/sync.ts` 128-129, `lib/api/captures.ts` 72).
12. `SecondClaim.cfg`: a photograph queued, granted a capture, and sent again from its screen loses the grant
    with its row, and is presigned twice without an answer lost (`lib/api/sync.ts` 51-53).
13. `other_visits_summary`: the answer to a check-out left behind becomes the next visit's summary, and that
    visit is shown as closed without ever being closed (`lib/store.ts` 107-111, 318, 332).
14. `OldVerdict.cfg`: the run of a photograph the rep went back from ends over the one staged since
    (`lib/store.ts` 201-206).
15. `SecondVisit.cfg`: a check-in whose answer was lost is made again, and the server has two open visits
    (`app/m/store/[id]/checkin/page.tsx` 78-81).

One more follows from the guard of `AutoDrain` alone. What is queued while the phone has signal (a
request that timed out) waits for a reconnection, a mount or a press, since the effects that drain run
at these only (`components/offline/QueueDrainer.tsx` 41, `app/m/sync/page.tsx` 70-87); "A rep should not
have to remember to press a button for work they already did" (`app/m/sync/page.tsx` 68).

### What happens in the exceptions

Behaviours met while modelling. No document or comment of the repository promises otherwise outright,
so they are recorded here and not as findings; the paths of the phone are under `frontend/src`.

- A `retry` beside a drain may mark a row by the slower outcome, and an old copy may be written over a new
  row (`lib/api/sync.ts` 191-211, `lib/offline/queue.ts` 98).
- Verdicts on one gap that cross: a failed one puts back the row from before the other (`lib/store.ts`
  255-259). Without IndexedDB `removeByPrefix` throws first, and nothing is put back (245).
- Verdicts on one gap that cross on the server: the log takes its `from` and a request the reason it
  compares from rows loaded before the lock (`findings.py` 46-61).
- An answer to check-in or task list that arrives in the next visit is written into it (`lib/store.ts` 178,
  264-270); opening a shop on the route puts an open visit away (`app/m/page.tsx` 81), and leaving the
  check-out before its answer leaves closing to chance.
- A shot still in review keeps its shelf's photograph when another shelf is chosen, and the drawn
  stand-in keeps the photograph staged before (`store.ts` 195): they are sent under the new shelf.
- A check-in left by the back button and made again: the answer that comes last is the visit the phone keeps
  (`checkin/page.tsx` 84-95).
- A way back onto the processing screen starts its run again, with the photograph staged before and the
  shelf chosen since (`processing/page.tsx` 67-74, 129-136).
- A check-out screen that asks again while another screen's request already brought the figure writes the
  answer it gets over it (`checkout/page.tsx` 50-70).
- A recovery that waits when the viewfinder is shut opens the camera again (`useCamera.ts` 210-214).
- A 401 to a request of the session before signs the new one out (`client.ts` 109-111).
- An AFTER photograph without signal is not queued (`compare/page.tsx` 91), a BEFORE photograph that
  presigned online is presigned again from the queue (`processing/page.tsx` 101), and a shop whose task
  list failed to load looks like a perfect shelf (`tasks/page.tsx` 70).

## Proofs

Six modules of theorems, one per component, each for every value of the component's constants. The
assumptions are those the component's module names and no other: the bounds are natural numbers, shot
times are distinct, the kinds of subject or account are disjoint, `None`, `NoShop` and the like lie
outside the sets they are added to. An invariant that a run checks is hardly ever inductive as it
stands; the third column names the strengthening, which TLC checked on an instance before it was proved.

### CapturePipeline

| Theorem | Property | Along |
|---|---|---|
| `TypeCorrect` | `TypeOK` | `Sound` = `TypeOK` and `Linked` (rows refer to rows that exist; a live job's capture holds its key) |
| `JobsAreTended`, `ResultsExist` | `NoOrphanJob`, `DoneHasResult` | `Watched`, on top of `Sound` |
| `SettledJobsStay` | `SettledStays` | `Handed`, on top of `Sound`: a job not redelivered is with one commit, message or worker, and once settled with none |
| `OneCapture`, `TwoJobsTakeARace` | `OneAnalysedCapturePerPhoto`, `DuplicateOnlyByOverlap` | `Keyed` = no two captures hold one key (`KeyedOnce`), and a second commit past the lookup of a capture that has a job has been seen to overlap (`Overlaps`) |
| `PipelineImplementsLedger` | `ImplementsLedger` | `Figured` = every figure held or stored is a row of its phase, and a worker that saw a BEFORE figure saw one that is still there |
| `CloseTimeStands`, `AfterFigureOnlyAdvances` | `CloseTimeKept`, `AfterFigureAdvances` | `Serial` = the two above with `Numbered` (check-outs at work have numbers of their own) and `UpToDate` (one that no other overtook knows whether the visit is closed, loaded the figure the visit has, and found none that goes before it) |

`TypeOK` alone is not inductive: a worker's or message's job must exist (`Linked`), or the row it
writes would not. `SettledStays` holds since nobody else has the job when its worker writes DONE: the
worker holds no lock on it and looks at no version. The last two theorems have any number of check-outs
at once. `UpToDate` is why a check-out is harmless that nobody overtook, and it needs no lock: whoever is
at work when another commits is `overtaken` from then on, and the others read after it.

### GapTasks

| Theorem | Property | Along |
|---|---|---|
| `TypeCorrect` | `TypeOK` | a row exists exactly while it has a gap, and a request at work holds an id that was handed out |
| `TasksAreConfirmedGaps` | `TaskIffConfirmed` | `Confirmed` = `LockedOnce` (one committing request per row) and `FoundCurrent` (a verdict that holds its gap's row knows the gap's task) |
| `SupplyIsAskedOnce`, `AskedGapsStay` | `SupplyAskedOnce`, `AskedStaysConfirmed` | `Supplied`, on top of `Confirmed`: `Patching` says what a report knows of the request at each of its steps |
| `GapLedgerImplemented` | `ImplementsGapLedger` | from both: the commits of verdicts and reports are `Confirm`, `Reject` and `Report`, every other step is a stutter |
| `AuditsTellHistory`, `ReasonsFitStates`, `FirstStampKept` | `AuditTellsHistory`, `ReasonsFit`, `FirstCompletionKept` | `InTurn`: on a row that no two requests shared one request is at work, what it loaded is the row as it is (`VerdictsInTurn`, `ReportsInTurn`), and it gives a reason where its state needs one (`Reasoned`) |

`TaskIffConfirmed` alone is not inductive: a rejection deletes the task it looked up, and only the
lock, taken before the lookup and held to the commit, makes that the task the gap still has.
`SupplyAskedOnce` needs `Patching` since the report that inserts the request decided to in an earlier
step. `AskedStaysConfirmed` is the other side of `reject_refused`: the foreign key that refuses the
rejection keeps the request's task.

The two families are of different strength, and the code is why. What is read after the flush that
locks the row (task, supply request) is right however requests cross. The columns of the row itself are
loaded before the lock: the session writes only those that differ from what it loaded, and the log
takes its `from` from there, so reason, audit chain and first stamp are right where requests took turns.

### OfflineQueue

| Theorem | Property | Along |
|---|---|---|
| `TypeCorrect` | `TypeOK` | `Traced` (a row comes from a tap whose request is over), `Roomy` (the clock has room for the taps outstanding), `Listed` (what a sender has on its list in each phase) |
| `RowsDoneWereServed` | `DoneMeansServed` | `Alone` (a subject not shared has one handler: a request, or a sender) and `Fits` (what that handler knows of the queue is true of it) |
| `ShownStaysKept` | `ShownIsKept` | `LastWord` (the one request about a subject is its last, and has removed what it listed), `Told` (what the subject's one handler has told the server is what the server has) and `Shows` (what is shown, or a refusal would put back, is kept and agrees with the rows that wait) |
| `StoredOverStaysUnsent` | `StoredOverNeverSent` | `Gone`: a tap that was stored over is in no row and on no sender's list |
| `UnsentStays` | `UnsentNeverDropped` | `Fits`: what a purge removes and what a write-back covers is DONE or the row's own |
| `PhotosArePresignedOnce` | `OneCapturePerQueuedPhoto` | `GrantsKept`: a photograph has one grant beside the lost ones, in its row or with the sender about to keep it |

`IInv` is the conjunction of all of these. IndexedDB keeps a transaction per call and nothing between
calls, so a drain works on copies; `Fits` is what makes a copy as good as the row, and it is inductive
only with `Alone`, which the taps on one subject and the drain break when they overlap. Such a subject is
in `shared` from then on, and the properties claim nothing about it; `UnsentNeverDropped` is the one
that shows why, since an old copy may be written over a new row. `Told` and `Shows` are there since the
server keeps an order: a row that is sent later must be the newest word on its subject, or agree with it.
That holds until an answer goes past an older row or a new row is refused, which is `mislaid`, and the
violated runs start there.

### VisitFlow

| Theorem | Property | Along |
|---|---|---|
| `TypeCorrect` | `TypeOK` | `Typed` = `TypeOK`, `Placed` (a screen but the route is of a shop), `Asked` (a call is about a visit the server has) |
| `VisitsStayApart`, `VerdictsAreOfThePhoto`, `PhotosAreFiledRight` | `NothingOfAnotherVisit`, `AnalysisOfStagedPhoto`, `UploadedAsPhotographed` | `Own` = `Staging`, `CheckIns`, `Shot`, `OwnCalls`, `Runs`, `Kept`: what a call that is out will write is of the visit and the photograph in the store, unless its screen abandoned it |
| `ShownClosedIsClosed`, `WaitersHaveACall` | `ClosedMeansClosed`, `WaitersAreServed` | `Close` = `Served`, `OneClose`, `Awaited`, `Lone`: one close request to a visit, and none beside a summary with its figure. That a summary is of a closed visit is `Served` alone and has no exception; that it is the store's own needs `Lone` and a rep who did not leave with a close or check-in still out |
| `SummariesGoForward` | `SummaryNeverGoesBack` | the same `Close` |

The module has some forty actions, many of which touch little, so the proof does not go through them
one by one for every part of the invariant. `Shapes` shows once that every step forgets the visit, moves
within it, leaves it as it was, or is the answer to a check-in, and `CloseShapes` that every step leaves
the close requests alone, asks again, or answers one; each part of the invariant is then kept by four or
three shapes.

The proof attempts corrected the model, in each case towards the source: `GoTasks` without a visit goes
to the task list at once (`store.ts` 264-266); a check-in started beside another leaves the first one
abandoned (`checkin/page.tsx` 84-95); a way back onto the processing screen takes the staged photograph
to a shelf chosen since; and a check-out screen that asks again beside another's request may overwrite
its figure (`checkout/page.tsx` 50-70). The last three are under "What happens in the exceptions".

### Camera

`TypeCorrect` (`TypeOK`), `StreamsAreHeld` (`NoStrayStream`) and `ShutViewfindersStayShut`
(`ShutStaysShut`) follow from one invariant, `Owned`: with `Named` (0 names no stream), `Free` (while the
request that counts is out nothing is held, so a granted stream takes no other's place) and `Planned` (a
start is planned on an open viewfinder that holds nothing; one that is gone has left no timer). `Free` is
why the generation counter of `useCamera.ts` is enough: an answer of an earlier generation is stopped
where it arrives.

### ManagerWeb

`TypeCorrect` (`TypeOK`), `PanesShowWhatWasAsked` (`ShowsWhatWasAsked`) and `SessionsAreLostToOthers`
(`SessionLostOnlyToAnother`) follow from `Consistent`: with `Answering` (an answer that still counts for
its pane is about what the pane was asked), `OneSignIn` (one sign-in at a time, on its screen) and
`OneSession` (under a dashboard the token, the user the gate knows and the answers it waits for are of
one session). `OneSignIn` is needed even for `TypeOK`: the server's table of sessions has room for the
sign-ins that are out since there is one.

### Only model-checked

- `JobSettles`, `EveryRequestAnswered`, `DrainEnds` and `DeadViewfinderEnds`: liveness under fairness,
  which this prover cannot reason about.
- The properties TLC violates: its counterexamples are the point.

## Not modelled yet, and the plan

The next steps, most important first:

1. **More proofs**: the lemmas that say what the exceptions cost (a subject in `shared` or `mislaid`, a
   visit with an abandoned call), so that a reader has a bound on the damage and not only a silence; the
   steps that the liveness arguments rest on, as safety facts (what each step of a drain or a request uses up); an
   abstract specification of a queued photograph or of a visit, with its refinement.
2. **`ShelfAnalysis`**: the analysis as operators over small sets of boxes, against a reference
   definition; the scores of `risk.py` and the route order; non-maximum suppression of the model service.
3. **Composition** of `OfflineQueue` with `CapturePipeline` and `GapTasks`. Each is checked against what
   the other is to it: the queue against a server that applies what it is told last, the handlers against clients that send
   anything twice and in any order.

Partly modelled: the answers of check-out (task counts, the pending flag of a second SELECT); check-in on
the server (an insert); the phone's photo log and demo switchers; the panes of the manager web beside the
area and the evidence viewer; approval of a route; the role checks of the endpoints.

Left out for good: training and evaluation (numerical batch jobs), analytics and catalogue reads
(aggregates without state), storage and notification adapters (pure I/O), `sync_operations` (written and
read by one endpoint, whose answer the phone does not use), seeds.
