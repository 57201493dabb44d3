------------------------------ MODULE GapTasks ------------------------------
(***************************************************************************)
(* The server side of verification: a rep's verdict on each gap, the       *)
(* replenishment task a confirmed gap creates, and the reports that close  *)
(* it.                                                                     *)
(*                                                                         *)
(* The actors are the requests the API handles at once.  Each is one       *)
(* database transaction at READ COMMITTED, and the steps of the model are  *)
(* the points where another transaction can come between: the first        *)
(* SELECT, the first UPDATE the session flushes (which takes the row's     *)
(* lock, and waits for it), and the commit.  What an open transaction has  *)
(* written stays in the handler until its commit.                          *)
(*                                                                         *)
(* The session writes only the columns whose value differs from the one it *)
(* loaded.  A handler that loaded a row before somebody else's commit thus *)
(* leaves alone columns it means to set: those are the stale writes here.  *)
(*                                                                         *)
(* A client may send any verdict or report at any time, again, and in any  *)
(* order: the phone queues them, retries them, and two of them can be      *)
(* under way when the first timed out.                                     *)
(***************************************************************************)
EXTENDS Naturals, Sequences, FiniteSets

CONSTANTS
  Findings,       \* the gaps of one visit
  Tasks,          \* rows of tasks that verdicts can insert; a row is not reused
  RejectReasons,  \* why a rep rejects a gap
  BlockedReasons, \* why a rep cannot fill one
  OutOfBackstock, \* the one of them that asks supply chain
  Verifiers,      \* verdict requests the API handles at once
  Patchers,       \* task requests the API handles at once
  MaxRequests,    \* bound on requests
  None            \* no reason, no finding, no task

ASSUME ReasonAssumption == OutOfBackstock \in BlockedReasons
ASSUME RequestAssumption == MaxRequests \in Nat
ASSUME NoneAssumption ==
  None \notin Findings \cup Tasks \cup RejectReasons \cup BlockedReasons

VARIABLES
  finding,    \* the gap_findings table
  task,       \* the tasks table
  asks,       \* how many replenishment_requests have a task as their source
  audit,      \* the audit_log of each finding
  minted,     \* task ids that were ever handed out
  verifier,   \* verdict requests
  patcher,    \* task requests
  requests,   \* requests so far
  overlapped  \* findings and tasks two requests worked on at once

tables == <<finding, task, asks, audit, minted>>
vars == <<finding, task, asks, audit, minted, verifier, patcher, requests, overlapped>>

Verdicts == {"CONFIRMED", "REJECTED"}
Reports == {"OPEN", "FIXED", "BLOCKED"}

NoTask == [finding |-> None, status |-> "ABSENT", reason |-> None, completed |-> 0]
IdleVerifier == [pc |-> "idle", finding |-> None, verdict |-> "CONFIRMED", reason |-> None,
                 saw |-> [status |-> "PENDING", reason |-> None], found |-> {}]
IdlePatcher == [pc |-> "idle", task |-> None, status |-> "OPEN", reason |-> None,
                saw |-> NoTask, already |-> FALSE, number |-> 0]

Init == /\ finding = [f \in Findings |-> [status |-> "PENDING", reason |-> None]]
        /\ task = [t \in Tasks |-> NoTask]
        /\ asks = [t \in Tasks |-> 0]
        /\ audit = [f \in Findings |-> <<>>]
        /\ minted = {}
        /\ verifier = [h \in Verifiers |-> IdleVerifier]
        /\ patcher = [h \in Patchers |-> IdlePatcher]
        /\ requests = 0
        /\ overlapped = {}

TasksOf(f) == {t \in Tasks : task[t].finding = f}
Exists(t) == task[t].status # "ABSENT"

----------------------------------------------------------------------------
(* POST /findings/{id}/verify *)

Confirming == {h \in Verifiers : verifier[h].pc # "idle" /\ verifier[h].verdict = "CONFIRMED"}

\* The finding is loaded.  A verdict it already carries is answered from the
\* row and changes nothing.  The phone gives a reason only with REJECTED.  The
\* pool of task rows bounds the confirmations.
VerifyRead(h, f, v, r) ==
  /\ verifier[h].pc = "idle"
  /\ requests < MaxRequests
  /\ v = "CONFIRMED" => r = None
  /\ finding[f].status # v
  /\ v = "CONFIRMED" => Cardinality(Confirming) < Cardinality(Tasks \ minted)
  /\ requests' = requests + 1
  /\ verifier' = [verifier EXCEPT ![h] = [pc |-> "update", finding |-> f, verdict |-> v,
                                          reason |-> r, saw |-> finding[f], found |-> {}]]
  /\ overlapped' = IF \E g \in Verifiers : verifier[g].pc # "idle" /\ verifier[g].finding = f
                   THEN overlapped \cup {f} ELSE overlapped
  /\ UNCHANGED <<tables, patcher>>

FindingLocked(f) == \E g \in Verifiers : verifier[g].pc = "commit" /\ verifier[g].finding = f

\* Mutant: the lookup of the task does not wait for the row's lock.
VerifyUpdateUnlocked(h) ==
  /\ verifier[h].pc = "update"
  /\ verifier' = [verifier EXCEPT ![h].pc = "commit",
                                  ![h].found = TasksOf(verifier[h].finding)]
  /\ UNCHANGED <<tables, patcher, requests, overlapped>>

\* The next SELECT flushes the UPDATE of the finding, and only then looks for
\* its task: from here to the commit no other verdict on the finding gets past
\* this point.
VerifyUpdate(h) ==
  /\ verifier[h].pc = "update"
  /\ ~ FindingLocked(verifier[h].finding)
  /\ verifier' = [verifier EXCEPT ![h].pc = "commit",
                                  ![h].found = TasksOf(verifier[h].finding)]
  /\ UNCHANGED <<tables, patcher, requests, overlapped>>

\* Mutant: a correction keeps the reason of the verdict it corrects.
DecidedKeepsReason(h) == LET me == verifier[h] IN
  [status |-> me.verdict,
   reason |-> IF me.verdict = "REJECTED" THEN me.reason ELSE finding[me.finding].reason]

\* The columns of the finding this transaction writes.
Decided(h) == LET me == verifier[h] IN
  [status |-> me.verdict,
   reason |-> IF me.reason = me.saw.reason THEN finding[me.finding].reason ELSE me.reason]

\* Mutant: every verdict is logged as the first.
AuditedAsFirst(h) == LET me == verifier[h] IN
  [audit EXCEPT ![me.finding] = Append(@, [before |-> "PENDING", after |-> me.verdict])]

Audited(h) == LET me == verifier[h] IN
  [audit EXCEPT ![me.finding] = Append(@, [before |-> me.saw.status, after |-> me.verdict])]

\* Mutant: the task is inserted with the verdict for its status.
VerifyConfirmMisfiled(h) == LET f == verifier[h].finding IN
  /\ verifier[h].pc = "commit"
  /\ verifier[h].verdict = "CONFIRMED"
  /\ TasksOf(f) = {}
  /\ \E t \in Tasks \ minted :
       /\ task' = [task EXCEPT ![t] = [finding |-> f, status |-> "CONFIRMED",
                                       reason |-> None, completed |-> 0]]
       /\ minted' = minted \cup {t}
  /\ finding' = [finding EXCEPT ![f] = Decided(h)]
  /\ audit' = Audited(h)
  /\ verifier' = [verifier EXCEPT ![h] = IdleVerifier]
  /\ UNCHANGED <<asks, patcher, requests, overlapped>>

\* Mutant: a confirmation that comes second replaces the task of the first.
VerifyConfirmReplaces(h) == LET f == verifier[h].finding IN
  /\ verifier[h].pc = "commit"
  /\ verifier[h].verdict = "CONFIRMED"
  /\ \E t \in Tasks \ minted :
       /\ task' = [u \in Tasks |-> CASE u = t -> [finding |-> f, status |-> "OPEN",
                                                  reason |-> None, completed |-> 0]
                                   [] u \in TasksOf(f) -> NoTask
                                   [] OTHER -> task[u]]
       /\ minted' = minted \cup {t}
  /\ finding' = [finding EXCEPT ![f] = Decided(h)]
  /\ audit' = Audited(h)
  /\ verifier' = [verifier EXCEPT ![h] = IdleVerifier]
  /\ UNCHANGED <<asks, patcher, requests, overlapped>>

\* CONFIRMED inserts the task, in the transaction that changes the verdict.
VerifyConfirm(h) == LET f == verifier[h].finding IN
  /\ verifier[h].pc = "commit"
  /\ verifier[h].verdict = "CONFIRMED"
  /\ TasksOf(f) = {}
  /\ \E t \in Tasks \ minted :
       /\ task' = [task EXCEPT ![t] = [finding |-> f, status |-> "OPEN",
                                       reason |-> None, completed |-> 0]]
       /\ minted' = minted \cup {t}
  /\ finding' = [finding EXCEPT ![f] = Decided(h)]
  /\ audit' = Audited(h)
  /\ verifier' = [verifier EXCEPT ![h] = IdleVerifier]
  /\ UNCHANGED <<asks, patcher, requests, overlapped>>

\* A patch that has flushed its UPDATE holds the task's row.
TaskLocked(t) == \E g \in Patchers : patcher[g].pc = "commit" /\ patcher[g].task = t

\* Mutant: deleting a task ignores the requests that refer to it.
VerifyRejectUnchecked(h) == LET f == verifier[h].finding IN
  /\ verifier[h].pc = "commit"
  /\ verifier[h].verdict = "REJECTED"
  /\ \A t \in verifier[h].found : ~ TaskLocked(t)
  /\ task' = [t \in Tasks |-> IF t \in verifier[h].found THEN NoTask ELSE task[t]]
  /\ finding' = [finding EXCEPT ![f] = Decided(h)]
  /\ audit' = Audited(h)
  /\ verifier' = [verifier EXCEPT ![h] = IdleVerifier]
  /\ UNCHANGED <<asks, minted, patcher, requests, overlapped>>

\* REJECTED deletes the task it found, if any, once nobody holds its row.
VerifyReject(h) == LET f == verifier[h].finding IN
  /\ verifier[h].pc = "commit"
  /\ verifier[h].verdict = "REJECTED"
  /\ \A t \in verifier[h].found : ~ TaskLocked(t) /\ asks[t] = 0
  /\ task' = [t \in Tasks |-> IF t \in verifier[h].found THEN NoTask ELSE task[t]]
  /\ finding' = [finding EXCEPT ![f] = Decided(h)]
  /\ audit' = Audited(h)
  /\ verifier' = [verifier EXCEPT ![h] = IdleVerifier]
  /\ UNCHANGED <<asks, minted, patcher, requests, overlapped>>

\* Why a transaction fails: the gap has a task already (the unique constraint
\* on gap_finding_id), or a replenishment request refers to the task to be
\* deleted (the foreign key of source_task_id).
Refused(h) == LET me == verifier[h] IN
  \/ me.verdict = "CONFIRMED" /\ TasksOf(me.finding) # {}
  \/ me.verdict = "REJECTED" /\ \E t \in me.found : ~ TaskLocked(t) /\ asks[t] > 0

\* Mutant: the failed transaction is not rolled back.
VerifyFailsOpen(h) ==
  /\ verifier[h].pc = "commit"
  /\ Refused(h)
  /\ UNCHANGED vars

\* A failed transaction is rolled back and answered with a 500.
VerifyFails(h) ==
  /\ verifier[h].pc = "commit"
  /\ Refused(h)
  /\ verifier' = [verifier EXCEPT ![h] = IdleVerifier]
  /\ UNCHANGED <<tables, patcher, requests, overlapped>>

----------------------------------------------------------------------------
(* PATCH /tasks/{id} *)

\* The task is loaded.  An id the server has handed out but whose row is gone
\* is a 404, and BLOCKED without a reason a 422: both change nothing.
PatchRead(h, t, s, r) ==
  /\ patcher[h].pc = "idle"
  /\ requests < MaxRequests
  /\ Exists(t)
  /\ (s = "BLOCKED") = (r # None)
  /\ requests' = requests + 1
  /\ patcher' = [patcher EXCEPT ![h] = [pc |-> "update", task |-> t, status |-> s, reason |-> r,
                                        saw |-> task[t], already |-> FALSE,
                                        number |-> requests + 1]]
  /\ overlapped' = IF \E g \in Patchers : patcher[g].pc # "idle" /\ patcher[g].task = t
                   THEN overlapped \cup {t} ELSE overlapped
  /\ UNCHANGED <<tables, verifier>>

\* Mutant: every report stamps the task.
CompletionRestamps(h) == IF patcher[h].status = "OPEN" THEN 0 ELSE patcher[h].number

\* completed_at: the first time the task left OPEN, cleared when it is OPEN.
Completion(h) == LET me == patcher[h] IN
  CASE me.status = "OPEN" -> 0
    [] me.status # "OPEN" /\ me.saw.completed = 0 -> me.number
    [] OTHER -> me.saw.completed

\* The row as this transaction leaves it: the columns it changes against what
\* it loaded, and the others as they are by now.
Patched(h) == LET me == patcher[h] IN
  [task[me.task] EXCEPT
     !.status = IF me.status = me.saw.status THEN @ ELSE me.status,
     !.reason = IF me.reason = me.saw.reason THEN @ ELSE me.reason,
     !.completed = IF Completion(h) = me.saw.completed THEN @ ELSE Completion(h)]

\* Whether there is anything to write at all.
Writes(h) == LET me == patcher[h] IN
  me.status # me.saw.status \/ me.reason # me.saw.reason \/ Completion(h) # me.saw.completed

\* Mutant: the request is looked up before the row is locked.
PatchUpdateUnlocked(h) == LET me == patcher[h] IN
  /\ me.pc = "update"
  /\ me.reason = OutOfBackstock
  /\ Exists(me.task)
  /\ patcher' = [patcher EXCEPT ![h].pc = "insert", ![h].already = asks[me.task] > 0]
  /\ UNCHANGED <<tables, verifier, requests, overlapped>>

\* OUT_OF_BACKSTOCK: selecting the visit flushes the UPDATE of blocked_reason,
\* and only then is the task's request looked up.
PatchUpdate(h) == LET me == patcher[h] IN
  /\ me.pc = "update"
  /\ me.reason = OutOfBackstock
  /\ me.reason # me.saw.reason => Exists(me.task) /\ ~ TaskLocked(me.task)
  /\ patcher' = [patcher EXCEPT ![h].pc = IF me.reason # me.saw.reason THEN "commit" ELSE "insert",
                                ![h].already = asks[me.task] > 0]
  /\ UNCHANGED <<tables, verifier, requests, overlapped>>

\* A replenishment request is inserted when the lookup found none.
Asks(h) == patcher[h].reason = OutOfBackstock /\ ~ patcher[h].already

\* Everything else is flushed by the commit, which waits for the row's lock
\* unless this transaction holds it.
PatchCommit(h) == LET me == patcher[h] IN
  /\ \/ me.pc = "commit"
     \/ /\ me.pc = "insert" \/ (me.pc = "update" /\ me.reason # OutOfBackstock)
        /\ Writes(h) => ~ TaskLocked(me.task)
  /\ Writes(h) \/ Asks(h) => Exists(me.task)
  /\ task' = IF Writes(h) THEN [task EXCEPT ![me.task] = Patched(h)] ELSE task
  /\ asks' = IF Asks(h) THEN [asks EXCEPT ![me.task] = @ + 1] ELSE asks
  /\ patcher' = [patcher EXCEPT ![h] = IdlePatcher]
  /\ UNCHANGED <<finding, audit, minted, verifier, requests, overlapped>>

\* The UPDATE finds no row, or the INSERT no source: the task was deleted since
\* it was loaded.
PatchFails(h) == LET me == patcher[h] IN
  /\ me.pc \in {"update", "insert"}
  /\ Writes(h) \/ Asks(h)
  /\ ~ Exists(me.task)
  /\ patcher' = [patcher EXCEPT ![h] = IdlePatcher]
  /\ UNCHANGED <<tables, verifier, requests, overlapped>>

----------------------------------------------------------------------------

VerifierStep(h) == VerifyUpdate(h) \/ VerifyConfirm(h) \/ VerifyReject(h) \/ VerifyFails(h)
PatcherStep(h) == PatchUpdate(h) \/ PatchCommit(h) \/ PatchFails(h)

Next == \/ \E h \in Verifiers, f \in Findings, v \in Verdicts, r \in RejectReasons \cup {None} :
             VerifyRead(h, f, v, r)
        \/ \E h \in Verifiers : VerifierStep(h)
        \/ \E h \in Patchers, t \in minted, s \in Reports, r \in BlockedReasons \cup {None} :
             PatchRead(h, t, s, r)
        \/ \E h \in Patchers : PatcherStep(h)

\* A request the API has accepted runs on whenever the locks let it.
Fairness == /\ \A h \in Verifiers : WF_vars(VerifierStep(h))
            /\ \A h \in Patchers : WF_vars(PatcherStep(h))

Spec == Init /\ [][Next]_vars /\ Fairness

----------------------------------------------------------------------------
(* What must never be wrong. *)

FindingRow == [status : Verdicts \cup {"PENDING"}, reason : RejectReasons \cup {None}]
TaskRow == [finding : Findings \cup {None}, status : Reports \cup {"ABSENT"},
            reason : BlockedReasons \cup {None}, completed : 0..MaxRequests]
AuditRow == [before : Verdicts \cup {"PENDING"}, after : Verdicts]
VerifierState == [pc : {"idle", "update", "commit"}, finding : Findings \cup {None},
                  verdict : Verdicts, reason : RejectReasons \cup {None},
                  saw : FindingRow, found : SUBSET Tasks]
PatcherState == [pc : {"idle", "update", "insert", "commit"}, task : Tasks \cup {None},
                 status : Reports, reason : BlockedReasons \cup {None},
                 saw : TaskRow, already : BOOLEAN, number : 0..MaxRequests]

\* Every variable has its type; a task row exists exactly when it has a finding,
\* and a handler at work has the row it works on.
TypeOK ==
  /\ finding \in [Findings -> FindingRow]
  /\ task \in [Tasks -> TaskRow]
  /\ asks \in [Tasks -> Nat]
  /\ audit \in [Findings -> Seq(AuditRow)]
  /\ minted \subseteq Tasks
  /\ verifier \in [Verifiers -> VerifierState]
  /\ patcher \in [Patchers -> PatcherState]
  /\ requests \in 0..MaxRequests
  /\ overlapped \subseteq Findings \cup Tasks
  /\ \A t \in Tasks : /\ Exists(t) <=> task[t].finding \in Findings
                      /\ Exists(t) => t \in minted
  /\ \A h \in Verifiers : verifier[h].pc # "idle" => verifier[h].finding \in Findings
  /\ \A h \in Patchers : patcher[h].pc # "idle" => patcher[h].task \in minted

\* A gap has a task, one, exactly while its verdict is CONFIRMED, however the
\* verdicts on it cross: the task list is the list of confirmed gaps.
TaskIffConfirmed == \A f \in Findings :
  /\ finding[f].status = "CONFIRMED" <=> TasksOf(f) # {}
  /\ \A t1, t2 \in TasksOf(f) : t1 = t2

\* A task blocked for want of stock has asked supply chain, and no task asks
\* twice, however the reports on it cross and however often they are sent.
SupplyAskedOnce == \A t \in Tasks :
  /\ asks[t] <= 1
  /\ task[t].reason = OutOfBackstock => asks[t] = 1

\* What supply chain was asked for stays on the task list: the gap is still
\* confirmed, whatever the rep says afterwards.
AskedStaysConfirmed == \A t \in Tasks :
  asks[t] > 0 => Exists(t) /\ finding[task[t].finding].status = "CONFIRMED"

\* The audit log of a gap tells its history: each verdict starts where the one
\* before left off and the last is the verdict in force, unless two requests
\* on the gap overlapped.
AuditTellsHistory == \A f \in Findings \ overlapped : LET n == Len(audit[f]) IN
  /\ finding[f].status = IF n = 0 THEN "PENDING" ELSE audit[f][n].after
  /\ \A i \in 1..n : audit[f][i].before = IF i = 1 THEN "PENDING" ELSE audit[f][i - 1].after

\* A reason stands only beside the state it explains (a rejection, a blocked
\* task), unless two requests on the row overlapped.
ReasonsFit ==
  /\ \A f \in Findings \ overlapped : finding[f].reason # None => finding[f].status = "REJECTED"
  /\ \A t \in Tasks \ overlapped : task[t].reason # None <=> task[t].status = "BLOCKED"

\* "Stamp the FIRST time this task left OPEN, not the latest write"
\* (update_task): reports sent again, or later ones, leave the stamp, unless
\* two requests on the task overlapped.
FirstCompletionKept == [][\A t \in Tasks :
  Exists(t) /\ Exists(t)' /\ task[t].completed # 0 /\ task'[t].status # "OPEN"
    => task'[t].completed = task[t].completed \/ t \in overlapped]_vars

\* The same words of every report, also of those that overlap.
FirstStampStands == [][\A t \in Tasks :
  Exists(t) /\ Exists(t)' /\ task[t].completed # 0 /\ task'[t].status # "OPEN"
    => task'[t].completed = task[t].completed]_vars

\* Every request is answered: the locks verdicts and reports take never make
\* them wait for one another for ever.
EveryRequestAnswered ==
  /\ \A h \in Verifiers : verifier[h].pc # "idle" ~> verifier[h].pc = "idle"
  /\ \A h \in Patchers : patcher[h].pc # "idle" ~> patcher[h].pc = "idle"

\* "A rep who confirms and then corrects themselves must not leave work behind"
\* (verify_finding): when a REJECTED has been answered, the gap has no task
\* but one a later confirmation made.
CorrectionLeavesNoWork == [][\A h \in Verifiers :
  verifier[h].pc = "commit" /\ verifier[h].verdict = "REJECTED" /\ verifier'[h].pc = "idle"
    => TasksOf(verifier[h].finding)' = {}]_vars

Verdict == [f \in Findings |-> finding[f].status]
Work == [f \in Findings |->
           IF TasksOf(f) = {} THEN "NONE" ELSE task[CHOOSE t \in TasksOf(f) : TRUE].status]
Asked == {f \in Findings : \E t \in TasksOf(f) : asks[t] > 0}

\* Verdicts and reports, however they cross, are what GapLedger allows one at a
\* time.
Ledger == INSTANCE GapLedger WITH verdict <- Verdict, work <- Work, asked <- Asked

ImplementsGapLedger == Ledger!GapSpec

=============================================================================
