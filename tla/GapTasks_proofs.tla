-------------------------- MODULE GapTasks_proofs --------------------------
(***************************************************************************)
(* Proofs about GapTasks, for any gaps, any number of handlers and any     *)
(* number of requests.                                                     *)
(***************************************************************************)
EXTENDS GapTasks, SequenceTheorems, TLAPS

----------------------------------------------------------------------------
(* Types. *)

LEMMA TypeInit == Init => TypeOK
<1> SUFFICES ASSUME Init PROVE TypeOK
  OBVIOUS
<1>1. /\ finding \in [Findings -> FindingRow]
      /\ task \in [Tasks -> TaskRow]
      /\ asks \in [Tasks -> Nat]
      /\ audit \in [Findings -> Seq(AuditRow)]
  BY RequestAssumption DEF Init, FindingRow, TaskRow, NoTask
<1>2. verifier \in [Verifiers -> VerifierState]
  BY DEF Init, VerifierState, IdleVerifier, Verdicts, FindingRow
<1>3. patcher \in [Patchers -> PatcherState]
  BY RequestAssumption DEF Init, PatcherState, IdlePatcher, NoTask, TaskRow, Reports
<1>4. \A t \in Tasks : ~ Exists(t) /\ task[t].finding \notin Findings
  BY NoneAssumption DEF Init, NoTask, Exists
<1>5. /\ \A h \in Verifiers : verifier[h].pc = "idle"
      /\ \A h \in Patchers : patcher[h].pc = "idle"
  BY DEF Init, IdleVerifier, IdlePatcher
<1>6. minted = {} /\ requests = 0 /\ overlapped = {}
  BY DEF Init
<1> QED BY <1>1, <1>2, <1>3, <1>4, <1>5, <1>6, RequestAssumption DEF TypeOK

\* The rows a verdict writes are well-formed.
LEMMA DecisionTyped ==
  ASSUME TypeOK, NEW h \in Verifiers, verifier[h].finding \in Findings
  PROVE  /\ Decided(h) \in FindingRow
         /\ Audited(h) \in [Findings -> Seq(AuditRow)]
<1>1. verifier[h] \in VerifierState /\ finding[verifier[h].finding] \in FindingRow
  BY DEF TypeOK
<1>2. Decided(h) \in FindingRow
  BY <1>1 DEF Decided, VerifierState, FindingRow
<1>3. [before |-> verifier[h].saw.status, after |-> verifier[h].verdict] \in AuditRow
  BY <1>1 DEF VerifierState, FindingRow, AuditRow
<1>4. Audited(h) \in [Findings -> Seq(AuditRow)]
  BY <1>3 DEF Audited, TypeOK
<1> QED BY <1>2, <1>4

\* A task row has a finding exactly while it exists, and its id was handed out.
LEMMA RowsLinked ==
  ASSUME TypeOK
  PROVE  \A u \in Tasks : /\ task[u].status # "ABSENT" <=> task[u].finding \in Findings
                          /\ task[u].status # "ABSENT" => u \in minted
<1>1. \A u \in Tasks : /\ Exists(u) <=> task[u].finding \in Findings
                       /\ Exists(u) => u \in minted
  BY DEF TypeOK
<1> QED BY <1>1 DEF Exists

LEMMA TypeVerifyRead ==
  ASSUME TypeOK, NEW h \in Verifiers, NEW f \in Findings, NEW v \in Verdicts,
         NEW r \in RejectReasons \cup {None}, VerifyRead(h, f, v, r)
  PROVE  TypeOK'
<1>1. verifier' \in [Verifiers -> VerifierState]
      /\ \A g \in Verifiers : verifier'[g].pc # "idle" => verifier'[g].finding \in Findings
  BY DEF VerifyRead, TypeOK, VerifierState
<1>2. UNCHANGED <<finding, task, asks, audit, minted, patcher>>
  BY DEF VerifyRead, tables
<1>3. requests' \in 0..MaxRequests /\ overlapped' \subseteq Findings \cup Tasks
  BY RequestAssumption DEF VerifyRead, TypeOK
<1> QED BY <1>1, <1>2, <1>3 DEF TypeOK, Exists

LEMMA TypeVerifyUpdate == ASSUME TypeOK, NEW h \in Verifiers, VerifyUpdate(h) PROVE TypeOK'
<1>1. verifier' \in [Verifiers -> VerifierState]
      /\ \A g \in Verifiers : verifier'[g].pc # "idle" => verifier'[g].finding \in Findings
  <2>1. /\ verifier \in [Verifiers -> VerifierState]
        /\ \A g \in Verifiers : verifier[g].pc # "idle" => verifier[g].finding \in Findings
    BY DEF TypeOK
  <2>2. PICK found \in SUBSET Tasks :
          /\ verifier[h].pc = "update"
          /\ verifier' = [verifier EXCEPT ![h].pc = "commit", ![h].found = found]
    BY DEF VerifyUpdate, TasksOf
  <2>3. [verifier[h] EXCEPT !.pc = "commit", !.found = found] \in VerifierState
    BY <2>1 DEF VerifierState
  <2>4. verifier' = [verifier EXCEPT ![h] = [verifier[h] EXCEPT !.pc = "commit", !.found = found]]
    BY <2>1, <2>2
  <2>5. verifier' \in [Verifiers -> VerifierState]
    BY <2>1, <2>3, <2>4
  <2>6. /\ verifier'[h].finding = verifier[h].finding
        /\ \A g \in Verifiers : g # h => verifier'[g] = verifier[g]
    BY <2>1, <2>4 DEF VerifierState
  <2> QED BY <2>1, <2>2, <2>5, <2>6
<1>2. UNCHANGED <<finding, task, asks, audit, minted, patcher, requests, overlapped>>
  BY DEF VerifyUpdate, tables
<1> QED BY <1>1, <1>2 DEF TypeOK, Exists

\* A verdict request that ends leaves the others as they are.
LEMMA VerifierEnds ==
  ASSUME TypeOK, NEW h \in Verifiers, verifier' = [verifier EXCEPT ![h] = IdleVerifier]
  PROVE  /\ verifier' \in [Verifiers -> VerifierState]
         /\ \A g \in Verifiers : verifier'[g].pc # "idle" => verifier'[g].finding \in Findings
BY DEF TypeOK, VerifierState, IdleVerifier, Verdicts, FindingRow

LEMMA TypeVerifyConfirm == ASSUME TypeOK, NEW h \in Verifiers, VerifyConfirm(h) PROVE TypeOK'
<1> DEFINE f == verifier[h].finding
<1>1. f \in Findings
  BY DEF VerifyConfirm, TypeOK
<1>2. PICK t \in Tasks \ minted :
        /\ task' = [task EXCEPT ![t] = [finding |-> f, status |-> "OPEN",
                                        reason |-> None, completed |-> 0]]
        /\ minted' = minted \cup {t}
  BY DEF VerifyConfirm
<1>3. [finding |-> f, status |-> "OPEN", reason |-> None, completed |-> 0] \in TaskRow
  BY <1>1, RequestAssumption DEF TaskRow, Reports
<1>4. /\ task' \in [Tasks -> TaskRow]
      /\ \A u \in Tasks : /\ task'[u].status # "ABSENT" <=> task'[u].finding \in Findings
                          /\ task'[u].status # "ABSENT" => u \in minted'
  <2>1. /\ task' \in [Tasks -> TaskRow]
        /\ task'[t].finding = f /\ task'[t].status = "OPEN"
        /\ \A u \in Tasks : u # t => task'[u] = task[u]
    BY <1>2, <1>3 DEF TypeOK
  <2>2. \A u \in Tasks : /\ task[u].status # "ABSENT" <=> task[u].finding \in Findings
                         /\ task[u].status # "ABSENT" => u \in minted
    BY RowsLinked
  <2> QED BY <1>1, <1>2, <2>1, <2>2
<1>5. finding' \in [Findings -> FindingRow] /\ audit' \in [Findings -> Seq(AuditRow)]
  BY <1>1, DecisionTyped DEF VerifyConfirm, TypeOK
<1>6. /\ verifier' \in [Verifiers -> VerifierState]
      /\ \A g \in Verifiers : verifier'[g].pc # "idle" => verifier'[g].finding \in Findings
  BY VerifierEnds DEF VerifyConfirm
<1>7. UNCHANGED <<asks, patcher, requests, overlapped>>
  BY DEF VerifyConfirm
<1> QED BY <1>2, <1>4, <1>5, <1>6, <1>7 DEF TypeOK, Exists

LEMMA TypeVerifyReject == ASSUME TypeOK, NEW h \in Verifiers, VerifyReject(h) PROVE TypeOK'
<1>1. verifier[h].finding \in Findings
  BY DEF VerifyReject, TypeOK
<1>2. NoTask \in TaskRow /\ NoTask.finding \notin Findings /\ NoTask.status = "ABSENT"
  BY NoneAssumption, RequestAssumption DEF NoTask, TaskRow
<1>3. task' = [t \in Tasks |-> IF t \in verifier[h].found THEN NoTask ELSE task[t]]
  BY DEF VerifyReject
<1>4. /\ task' \in [Tasks -> TaskRow]
      /\ \A u \in Tasks : /\ task'[u].status # "ABSENT" <=> task'[u].finding \in Findings
                          /\ task'[u].status # "ABSENT" => u \in minted
  <2>1. \A u \in Tasks : task'[u] = NoTask \/ task'[u] = task[u]
    BY <1>3
  <2>2. task' \in [Tasks -> TaskRow]
    BY <1>2, <1>3 DEF TypeOK
  <2>3. \A u \in Tasks : /\ task[u].status # "ABSENT" <=> task[u].finding \in Findings
                         /\ task[u].status # "ABSENT" => u \in minted
    BY RowsLinked
  <2> QED BY <1>2, <2>1, <2>2, <2>3
<1>5. finding' \in [Findings -> FindingRow] /\ audit' \in [Findings -> Seq(AuditRow)]
  BY <1>1, DecisionTyped DEF VerifyReject, TypeOK
<1>6. /\ verifier' \in [Verifiers -> VerifierState]
      /\ \A g \in Verifiers : verifier'[g].pc # "idle" => verifier'[g].finding \in Findings
  BY VerifierEnds DEF VerifyReject
<1>7. UNCHANGED <<asks, minted, patcher, requests, overlapped>>
  BY DEF VerifyReject
<1> QED BY <1>4, <1>5, <1>6, <1>7 DEF TypeOK, Exists

LEMMA TypeVerifyFails == ASSUME TypeOK, NEW h \in Verifiers, VerifyFails(h) PROVE TypeOK'
<1>1. /\ verifier' \in [Verifiers -> VerifierState]
      /\ \A g \in Verifiers : verifier'[g].pc # "idle" => verifier'[g].finding \in Findings
  BY VerifierEnds DEF VerifyFails
<1>2. UNCHANGED <<finding, task, asks, audit, minted, patcher, requests, overlapped>>
  BY DEF VerifyFails, tables
<1> QED BY <1>1, <1>2 DEF TypeOK, Exists

LEMMA TypePatchRead ==
  ASSUME TypeOK, NEW h \in Patchers, NEW t \in minted, NEW s \in Reports,
         NEW r \in BlockedReasons \cup {None}, PatchRead(h, t, s, r)
  PROVE  TypeOK'
<1>1. t \in Tasks /\ requests + 1 \in 0..MaxRequests
  BY RequestAssumption DEF PatchRead, TypeOK
<1>2. /\ patcher' \in [Patchers -> PatcherState]
      /\ \A g \in Patchers : patcher'[g].pc # "idle" => patcher'[g].task \in minted
  BY <1>1 DEF PatchRead, TypeOK, PatcherState
<1>3. UNCHANGED <<finding, task, asks, audit, minted, verifier>>
  BY DEF PatchRead, tables
<1>4. requests' \in 0..MaxRequests /\ overlapped' \subseteq Findings \cup Tasks
  BY <1>1 DEF PatchRead, TypeOK
<1> QED BY <1>2, <1>3, <1>4 DEF TypeOK, Exists

LEMMA TypePatchUpdate == ASSUME TypeOK, NEW h \in Patchers, PatchUpdate(h) PROVE TypeOK'
<1> DEFINE pc == IF patcher[h].reason # patcher[h].saw.reason THEN "commit" ELSE "insert"
           already == asks[patcher[h].task] > 0
<1>1. /\ patcher' = [patcher EXCEPT ![h].pc = pc, ![h].already = already]
      /\ patcher[h].pc = "update"
  BY DEF PatchUpdate
<1>a. pc \in {"insert", "commit"} /\ already \in BOOLEAN
  OBVIOUS
<1> HIDE DEF pc, already
<1>2. /\ patcher' \in [Patchers -> PatcherState]
      /\ \A g \in Patchers : patcher'[g].pc # "idle" => patcher'[g].task \in minted
  <2>1. patcher \in [Patchers -> PatcherState]
    BY DEF TypeOK
  <2>2. patcher' \in [Patchers -> PatcherState]
    <3>1. [patcher[h] EXCEPT !.pc = pc, !.already = already] \in PatcherState
      BY <1>a, <2>1 DEF PatcherState
    <3>2. patcher' = [patcher EXCEPT ![h] = [patcher[h] EXCEPT !.pc = pc, !.already = already]]
      BY <1>1, <2>1
    <3> QED BY <2>1, <3>1, <3>2
  <2>3. \A g \in Patchers : patcher'[g].task = patcher[g].task
    BY <1>1, <2>1 DEF PatcherState
  <2>4. \A g \in Patchers : g # h => patcher'[g] = patcher[g]
    BY <1>1, <2>1
  <2> QED BY <1>1, <2>2, <2>3, <2>4 DEF TypeOK
<1>3. UNCHANGED <<finding, task, asks, audit, minted, verifier, requests, overlapped>>
  BY DEF PatchUpdate, tables
<1> QED BY <1>2, <1>3 DEF TypeOK, Exists

\* A task request that ends leaves the others as they are.
LEMMA PatcherEnds ==
  ASSUME TypeOK, NEW h \in Patchers, patcher' = [patcher EXCEPT ![h] = IdlePatcher]
  PROVE  /\ patcher' \in [Patchers -> PatcherState]
         /\ \A g \in Patchers : patcher'[g].pc # "idle" => patcher'[g].task \in minted
<1>1. IdlePatcher \in PatcherState
  BY RequestAssumption DEF IdlePatcher, PatcherState, NoTask, TaskRow, Reports
<1> QED BY <1>1 DEF TypeOK, IdlePatcher

\* The row a report leaves is well-formed, of the same finding, and exists.
LEMMA PatchTyped ==
  ASSUME TypeOK, NEW h \in Patchers, patcher[h].pc # "idle", Exists(patcher[h].task)
  PROVE  /\ Patched(h) \in TaskRow
         /\ Patched(h).finding = task[patcher[h].task].finding
         /\ Patched(h).status # "ABSENT"
<1>1. /\ patcher[h] \in PatcherState
      /\ patcher[h].task \in Tasks
      /\ task[patcher[h].task] \in TaskRow
      /\ task[patcher[h].task].status # "ABSENT"
  BY DEF TypeOK, Exists
<1>2. Completion(h) \in 0..MaxRequests
  BY <1>1, RequestAssumption DEF Completion, PatcherState, TaskRow
<1> QED BY <1>1, <1>2, ZenonT(30) DEF Patched, PatcherState, TaskRow, Reports

LEMMA TypePatchCommit == ASSUME TypeOK, NEW h \in Patchers, PatchCommit(h) PROVE TypeOK'
<1> DEFINE t == patcher[h].task
<1>1. patcher[h].pc # "idle" /\ t \in minted /\ t \in Tasks
  BY DEF PatchCommit, TypeOK
<1>2. /\ task' \in [Tasks -> TaskRow]
      /\ \A u \in Tasks : /\ Exists(u)' <=> task'[u].finding \in Findings
                          /\ Exists(u)' => u \in minted
  <2>1. CASE Writes(h)
    <3>1. Exists(t) /\ task' = [task EXCEPT ![t] = Patched(h)]
      BY <2>1 DEF PatchCommit
    <3> QED BY <1>1, <3>1, PatchTyped DEF TypeOK, Exists
  <2>2. CASE ~ Writes(h)
    BY <2>2 DEF PatchCommit, TypeOK, Exists
  <2> QED BY <2>1, <2>2
<1>3. asks' \in [Tasks -> Nat]
  BY <1>1 DEF PatchCommit, TypeOK
<1>4. /\ patcher' \in [Patchers -> PatcherState]
      /\ \A g \in Patchers : patcher'[g].pc # "idle" => patcher'[g].task \in minted
  BY PatcherEnds DEF PatchCommit
<1>5. UNCHANGED <<finding, audit, minted, verifier, requests, overlapped>>
  BY DEF PatchCommit
<1> QED BY <1>2, <1>3, <1>4, <1>5 DEF TypeOK

LEMMA TypePatchFails == ASSUME TypeOK, NEW h \in Patchers, PatchFails(h) PROVE TypeOK'
<1>1. /\ patcher' \in [Patchers -> PatcherState]
      /\ \A g \in Patchers : patcher'[g].pc # "idle" => patcher'[g].task \in minted
  BY PatcherEnds DEF PatchFails
<1>2. UNCHANGED <<finding, task, asks, audit, minted, verifier, requests, overlapped>>
  BY DEF PatchFails, tables
<1> QED BY <1>1, <1>2 DEF TypeOK, Exists

LEMMA TypeNext == TypeOK /\ [Next]_vars => TypeOK'
<1> SUFFICES ASSUME TypeOK, [Next]_vars PROVE TypeOK'
  OBVIOUS
<1>1. CASE UNCHANGED vars
  BY <1>1 DEF vars, TypeOK, Exists
<1>2. ASSUME NEW h \in Verifiers, NEW f \in Findings, NEW v \in Verdicts,
             NEW r \in RejectReasons \cup {None}, VerifyRead(h, f, v, r)
      PROVE  TypeOK'
  BY <1>2, TypeVerifyRead
<1>3. ASSUME NEW h \in Verifiers, VerifierStep(h) PROVE TypeOK'
  BY <1>3, TypeVerifyUpdate, TypeVerifyConfirm, TypeVerifyReject, TypeVerifyFails
     DEF VerifierStep
<1>4. ASSUME NEW h \in Patchers, NEW t \in minted, NEW s \in Reports,
             NEW r \in BlockedReasons \cup {None}, PatchRead(h, t, s, r)
      PROVE  TypeOK'
  BY <1>4, TypePatchRead
<1>5. ASSUME NEW h \in Patchers, PatcherStep(h) PROVE TypeOK'
  BY <1>5, TypePatchUpdate, TypePatchCommit, TypePatchFails DEF PatcherStep
<1> QED BY <1>1, <1>2, <1>3, <1>4, <1>5 DEF Next

\* Tables and handlers stay well-formed, whatever requests are sent and however
\* they cross.
THEOREM TypeCorrect == Spec => []TypeOK
BY TypeInit, TypeNext, PTL DEF Spec

----------------------------------------------------------------------------
(* Locks: what a request has found out still holds when it commits. *)

\* A row is locked by one request at a time.
LockedOnce ==
  /\ \A g, h \in Verifiers :
       /\ verifier[g].pc = "commit" /\ verifier[h].pc = "commit"
       /\ verifier[g].finding = verifier[h].finding
       => g = h
  /\ \A g, h \in Patchers :
       /\ patcher[g].pc = "commit" /\ patcher[h].pc = "commit"
       /\ patcher[g].task = patcher[h].task
       => g = h

\* A verdict that holds its finding's row knows the finding's task.
FoundCurrent == \A h \in Verifiers :
  verifier[h].pc = "commit" => verifier[h].found = TasksOf(verifier[h].finding)

\* A report that waits to insert knows that supply chain was asked, and one
\* that holds its task's row knows whether it was.
Patching == \A h \in Patchers : LET me == patcher[h] IN
  /\ me.pc # "idle" /\ me.saw.reason = OutOfBackstock => asks[me.task] = 1
  /\ me.pc = "insert" => me.reason = OutOfBackstock /\ me.reason = me.saw.reason /\ me.already
  /\ me.pc = "commit" => /\ me.reason = OutOfBackstock
                         /\ me.reason # me.saw.reason
                         /\ me.already <=> asks[me.task] > 0

\* The verdicts' half and the reports' half.
Confirmed == TypeOK /\ LockedOnce /\ FoundCurrent /\ TaskIffConfirmed
Supplied == SupplyAskedOnce /\ AskedStaysConfirmed /\ Patching

LEMMA SafeInit == Init => Confirmed /\ Supplied
<1> SUFFICES ASSUME Init PROVE Confirmed /\ Supplied
  OBVIOUS
<1>1. TypeOK
  BY TypeInit
<1>2. \A f \in Findings : TasksOf(f) = {} /\ finding[f].status = "PENDING"
  BY NoneAssumption DEF Init, TasksOf, NoTask
<1>3. /\ \A h \in Verifiers : verifier[h].pc = "idle"
      /\ \A h \in Patchers : patcher[h].pc = "idle"
  BY DEF Init, IdleVerifier, IdlePatcher
<1>4. \A t \in Tasks : asks[t] = 0 /\ task[t].reason = None
  BY DEF Init, NoTask
<1>5. None # OutOfBackstock
  BY NoneAssumption, ReasonAssumption
<1>6. Confirmed
  BY <1>1, <1>2, <1>3 DEF Confirmed, LockedOnce, FoundCurrent, TaskIffConfirmed
<1>7. Supplied
  BY <1>3, <1>4, <1>5 DEF Supplied, SupplyAskedOnce, AskedStaysConfirmed, Patching
<1> QED BY <1>6, <1>7

\* The tasks of a finding are the same when every task keeps its finding.
LEMMA SameTasks ==
  ASSUME \A t \in Tasks : task'[t].finding = task[t].finding
  PROVE  \A f \in Findings : TasksOf(f)' = TasksOf(f)
BY DEF TasksOf

\* A verdict changes the row of its finding alone.
LEMMA Decides ==
  ASSUME TypeOK, NEW h \in Verifiers, VerifyConfirm(h) \/ VerifyReject(h)
  PROVE  /\ finding'[verifier[h].finding] = Decided(h)
         /\ finding'[verifier[h].finding].status = verifier[h].verdict
         /\ \A e \in Findings : e # verifier[h].finding => finding'[e] = finding[e]
<1>1. /\ finding' = [finding EXCEPT ![verifier[h].finding] = Decided(h)]
      /\ verifier[h].finding \in Findings
  BY DEF VerifyConfirm, VerifyReject, TypeOK
<1>2. Decided(h).status = verifier[h].verdict
  BY DEF Decided
<1> QED BY <1>1, <1>2 DEF TypeOK

\* What a request that starts, or ends, does to the locks.
LEMMA ConfirmedVerify ==
  ASSUME Confirmed, NEW h \in Verifiers,
         \/ \E f \in Findings, v \in Verdicts, r \in RejectReasons \cup {None} : VerifyRead(h, f, v, r)
         \/ VerifyUpdate(h)
         \/ VerifyFails(h)
  PROVE  LockedOnce' /\ FoundCurrent' /\ TaskIffConfirmed'
<1>1. verifier \in [Verifiers -> VerifierState]
  BY DEF Confirmed, TypeOK
<1>2. UNCHANGED <<finding, task, patcher>>
  BY DEF VerifyRead, VerifyUpdate, VerifyFails, tables
<1>3. \A f : TasksOf(f)' = TasksOf(f)
  BY <1>2 DEF TasksOf
<1>4. TaskIffConfirmed'
  BY <1>2, <1>3 DEF Confirmed, TaskIffConfirmed
<1>5. /\ \A g \in Verifiers : g # h => verifier'[g] = verifier[g]
      /\ \/ verifier'[h].pc # "commit"
         \/ /\ ~ FindingLocked(verifier[h].finding)
            /\ verifier'[h].finding = verifier[h].finding
            /\ verifier'[h].found = TasksOf(verifier[h].finding)
  BY <1>1 DEF VerifyRead, VerifyUpdate, VerifyFails, IdleVerifier, VerifierState
<1>6. LockedOnce'
  BY <1>2, <1>5 DEF Confirmed, LockedOnce, FindingLocked
<1>7. FoundCurrent'
  BY <1>3, <1>5 DEF Confirmed, FoundCurrent
<1> QED BY <1>4, <1>6, <1>7

\* A confirmation gives its finding, and no other, a task: a row never used.
LEMMA ConfirmOpens ==
  ASSUME TypeOK, NEW h \in Verifiers, VerifyConfirm(h)
  PROVE  \E f \in Findings, t \in Tasks \ minted :
           /\ f = verifier[h].finding
           /\ TasksOf(f) = {} /\ TasksOf(f)' = {t}
           /\ \A e \in Findings : e # f => TasksOf(e)' = TasksOf(e)
           /\ task'[t].status = "OPEN"
           /\ \A u \in Tasks : u # t => task'[u] = task[u]
<1> PICK f \in Findings : f = verifier[h].finding
  BY DEF TypeOK, VerifyConfirm
<1>0. TasksOf(f) = {}
  BY DEF VerifyConfirm
<1>1. PICK t \in Tasks \ minted :
        task' = [task EXCEPT ![t] = [finding |-> f, status |-> "OPEN",
                                     reason |-> None, completed |-> 0]]
  BY DEF VerifyConfirm
<1>2. task[t].finding \notin Findings
  BY RowsLinked
<1>3. /\ task'[t].finding = f /\ task'[t].status = "OPEN"
      /\ \A u \in Tasks : u # t => task'[u] = task[u]
  BY <1>1 DEF TypeOK
<1>4. \A u \in Tasks : task[u].finding # f
  BY <1>0 DEF TasksOf
<1>5. \A u : u \in TasksOf(f)' <=> u = t
  BY <1>3, <1>4 DEF TasksOf
<1>6. ASSUME NEW e \in Findings, e # f PROVE TasksOf(e)' = TasksOf(e)
  <2>1. \A u \in Tasks : task'[u].finding = e <=> task[u].finding = e
    BY <1>2, <1>3, <1>6
  <2> QED BY <2>1 DEF TasksOf
<1> QED BY <1>0, <1>3, <1>5, <1>6

LEMMA ConfirmedConfirm ==
  ASSUME Confirmed, NEW h \in Verifiers, VerifyConfirm(h)
  PROVE  LockedOnce' /\ FoundCurrent' /\ TaskIffConfirmed'
<1>0. /\ TypeOK /\ verifier \in [Verifiers -> VerifierState]
      /\ verifier[h].pc = "commit" /\ verifier[h].verdict = "CONFIRMED"
  BY DEF Confirmed, TypeOK, VerifyConfirm
<1>1. PICK f \in Findings, t \in Tasks \ minted :
        /\ f = verifier[h].finding
        /\ TasksOf(f)' = {t}
        /\ \A e \in Findings : e # f => TasksOf(e)' = TasksOf(e)
  BY <1>0, ConfirmOpens
<1>2. /\ finding'[f].status = "CONFIRMED"
      /\ \A e \in Findings : e # f => finding'[e] = finding[e]
  BY <1>0, <1>1, Decides
<1>3. TaskIffConfirmed'
  <2>1. ASSUME NEW e \in Findings, e # f
        PROVE  /\ finding'[e].status = "CONFIRMED" <=> TasksOf(e)' # {}
               /\ \A t1, t2 \in TasksOf(e)' : t1 = t2
    BY <1>1, <1>2, <2>1 DEF Confirmed, TaskIffConfirmed
  <2>2. /\ finding'[f].status = "CONFIRMED" <=> TasksOf(f)' # {}
        /\ \A t1, t2 \in TasksOf(f)' : t1 = t2
    BY <1>1, <1>2
  <2> QED BY <2>1, <2>2 DEF TaskIffConfirmed
<1>4. /\ verifier'[h].pc = "idle"
      /\ \A g \in Verifiers : g # h => verifier'[g] = verifier[g]
      /\ UNCHANGED patcher
  BY <1>0 DEF VerifyConfirm, IdleVerifier
<1>5. LockedOnce'
  BY <1>4 DEF Confirmed, LockedOnce
<1>6. FoundCurrent'
  <2>1. ASSUME NEW g \in Verifiers, verifier'[g].pc = "commit"
        PROVE  verifier'[g] = verifier[g] /\ verifier[g].finding \in Findings \ {f}
    BY <1>0, <1>1, <1>4, <2>1 DEF Confirmed, LockedOnce, TypeOK
  <2> QED BY <1>1, <2>1 DEF Confirmed, FoundCurrent
<1> QED BY <1>3, <1>5, <1>6

\* A rejection takes its finding's tasks, and no other's.
LEMMA RejectCloses ==
  ASSUME Confirmed, NEW h \in Verifiers, VerifyReject(h)
  PROVE  \E f \in Findings :
           /\ f = verifier[h].finding
           /\ \A t \in TasksOf(f) : asks[t] = 0
           /\ TasksOf(f)' = {}
           /\ \A e \in Findings : e # f => TasksOf(e)' = TasksOf(e)
           /\ \A t \in Tasks \ TasksOf(f) : task'[t] = task[t]
<1> PICK f \in Findings : f = verifier[h].finding
  BY DEF Confirmed, TypeOK, VerifyReject
<1>0. verifier[h].found = TasksOf(f)
  BY DEF Confirmed, FoundCurrent, VerifyReject
<1>1. NoTask.finding \notin Findings
  BY NoneAssumption DEF NoTask
<1>2. /\ \A t \in TasksOf(f) : asks[t] = 0
      /\ \A t \in Tasks : /\ t \in TasksOf(f) => task'[t] = NoTask
                          /\ t \notin TasksOf(f) => task'[t] = task[t]
  BY <1>0 DEF VerifyReject
<1>3. TasksOf(f)' = {}
  BY <1>1, <1>2 DEF TasksOf
<1>4. ASSUME NEW e \in Findings, e # f PROVE TasksOf(e)' = TasksOf(e)
  <2>1. \A u \in Tasks : task'[u].finding = e <=> task[u].finding = e
    BY <1>1, <1>2, <1>4 DEF TasksOf
  <2> QED BY <2>1 DEF TasksOf
<1> QED BY <1>2, <1>3, <1>4

LEMMA ConfirmedReject ==
  ASSUME Confirmed, NEW h \in Verifiers, VerifyReject(h)
  PROVE  LockedOnce' /\ FoundCurrent' /\ TaskIffConfirmed'
<1>0. /\ TypeOK /\ verifier \in [Verifiers -> VerifierState]
      /\ verifier[h].pc = "commit" /\ verifier[h].verdict = "REJECTED"
  BY DEF Confirmed, TypeOK, VerifyReject
<1>1. PICK f \in Findings :
        /\ f = verifier[h].finding
        /\ TasksOf(f)' = {}
        /\ \A e \in Findings : e # f => TasksOf(e)' = TasksOf(e)
  BY RejectCloses
<1>2. /\ finding'[f].status = "REJECTED"
      /\ \A e \in Findings : e # f => finding'[e] = finding[e]
  BY <1>0, <1>1, Decides
<1>3. TaskIffConfirmed'
  <2>1. ASSUME NEW e \in Findings, e # f
        PROVE  /\ finding'[e].status = "CONFIRMED" <=> TasksOf(e)' # {}
               /\ \A t1, t2 \in TasksOf(e)' : t1 = t2
    BY <1>1, <1>2, <2>1 DEF Confirmed, TaskIffConfirmed
  <2>2. /\ finding'[f].status = "CONFIRMED" <=> TasksOf(f)' # {}
        /\ \A t1, t2 \in TasksOf(f)' : t1 = t2
    BY <1>1, <1>2
  <2> QED BY <2>1, <2>2 DEF TaskIffConfirmed
<1>4. /\ verifier'[h].pc = "idle"
      /\ \A g \in Verifiers : g # h => verifier'[g] = verifier[g]
      /\ UNCHANGED patcher
  BY <1>0 DEF VerifyReject, IdleVerifier
<1>5. LockedOnce'
  BY <1>4 DEF Confirmed, LockedOnce
<1>6. FoundCurrent'
  <2>1. ASSUME NEW g \in Verifiers, verifier'[g].pc = "commit"
        PROVE  verifier'[g] = verifier[g] /\ verifier[g].finding \in Findings \ {f}
    BY <1>0, <1>1, <1>4, <2>1 DEF Confirmed, LockedOnce, TypeOK
  <2> QED BY <1>1, <2>1 DEF Confirmed, FoundCurrent
<1> QED BY <1>3, <1>5, <1>6

LEMMA ConfirmedPatch ==
  ASSUME Confirmed, NEW h \in Patchers,
         \/ \E t \in minted, s \in Reports, r \in BlockedReasons \cup {None} : PatchRead(h, t, s, r)
         \/ PatcherStep(h)
  PROVE  LockedOnce' /\ FoundCurrent' /\ TaskIffConfirmed'
<1>0. TypeOK /\ patcher \in [Patchers -> PatcherState]
  BY DEF Confirmed, TypeOK
<1>1. \A t \in Tasks : task'[t].finding = task[t].finding
  <2>1. CASE PatchCommit(h) /\ Writes(h)
    <3>1. /\ Exists(patcher[h].task) /\ patcher[h].pc # "idle"
          /\ task' = [task EXCEPT ![patcher[h].task] = Patched(h)]
      BY <2>1 DEF PatchCommit
    <3> QED BY <1>0, <3>1, PatchTyped DEF TypeOK
  <2>2. CASE ~ (PatchCommit(h) /\ Writes(h))
    BY <2>2 DEF PatchRead, PatcherStep, PatchUpdate, PatchCommit, PatchFails, tables
  <2> QED BY <2>1, <2>2
<1>2. UNCHANGED <<finding, verifier>>
  BY DEF PatchRead, PatcherStep, PatchUpdate, PatchCommit, PatchFails, tables
<1>3. \A f \in Findings : TasksOf(f)' = TasksOf(f)
  BY <1>1, SameTasks
<1>4. FoundCurrent' /\ TaskIffConfirmed'
  BY <1>0, <1>2, <1>3 DEF Confirmed, FoundCurrent, TaskIffConfirmed, TypeOK
<1>5. /\ \A g \in Patchers : g # h => patcher'[g] = patcher[g]
      /\ \/ patcher'[h].pc # "commit"
         \/ ~ TaskLocked(patcher[h].task) /\ patcher'[h].task = patcher[h].task
  BY <1>0 DEF PatchRead, PatcherStep, PatchUpdate, PatchCommit, PatchFails,
              IdlePatcher, PatcherState
<1>6. LockedOnce'
  BY <1>2, <1>5 DEF Confirmed, LockedOnce, TaskLocked
<1> QED BY <1>4, <1>6

LEMMA ConfirmedNext == Confirmed /\ [Next]_vars => Confirmed'
<1> SUFFICES ASSUME Confirmed, [Next]_vars PROVE LockedOnce' /\ FoundCurrent' /\ TaskIffConfirmed'
  BY TypeNext DEF Confirmed
<1>1. CASE UNCHANGED vars
  BY <1>1 DEF vars, Confirmed, LockedOnce, FoundCurrent, TaskIffConfirmed, TasksOf
<1>2. ASSUME NEW h \in Verifiers, VerifierStep(h)
      PROVE  LockedOnce' /\ FoundCurrent' /\ TaskIffConfirmed'
  BY <1>2, ConfirmedVerify, ConfirmedConfirm, ConfirmedReject DEF VerifierStep
<1> QED BY <1>1, <1>2, ConfirmedVerify, ConfirmedPatch DEF Next

\* A gap has a task, one, exactly while its verdict is CONFIRMED.
THEOREM TasksAreConfirmedGaps == Spec => []TaskIffConfirmed
<1>1. Confirmed => TaskIffConfirmed
  BY DEF Confirmed
<1> QED BY <1>1, SafeInit, ConfirmedNext, PTL DEF Spec

----------------------------------------------------------------------------
(* Supply chain is asked once, and for a gap that stays confirmed. *)

\* A request is referred to by a row that exists: the rest of AskedStaysConfirmed
\* is the verdicts' invariant.
LEMMA AskedConfirmed ==
  ASSUME TypeOK', TaskIffConfirmed', \A t \in Tasks : asks'[t] > 0 => Exists(t)'
  PROVE  AskedStaysConfirmed'
<1> SUFFICES ASSUME NEW t \in Tasks, asks'[t] > 0
             PROVE  Exists(t)' /\ finding'[task'[t].finding].status = "CONFIRMED"
  BY DEF AskedStaysConfirmed
<1> PICK f \in Findings : Exists(t)' /\ task'[t].finding = f
  BY DEF TypeOK
<1>1. t \in TasksOf(f)'
  BY DEF TasksOf
<1> QED BY <1>1 DEF TaskIffConfirmed

\* Verdicts send no request, and refuse to delete a task that has.
LEMMA SuppliedVerdict ==
  ASSUME Confirmed, Supplied, Confirmed', NEW h \in Verifiers, VerifyConfirm(h) \/ VerifyReject(h)
  PROVE  Supplied'
<1>0. /\ TypeOK /\ TypeOK' /\ TaskIffConfirmed'
      /\ UNCHANGED <<asks, patcher>>
  BY DEF Confirmed, VerifyConfirm, VerifyReject
<1>1. \A t \in Tasks : asks[t] > 0 => task'[t] = task[t]
  <2>1. CASE VerifyConfirm(h)
    <3>1. PICK u \in Tasks \ minted : \A t \in Tasks : t # u => task'[t] = task[t]
      BY <1>0, <2>1 DEF VerifyConfirm, TypeOK
    <3>2. ~ (asks[u] > 0)
      BY <1>0, <3>1 DEF Supplied, AskedStaysConfirmed, TypeOK
    <3> QED BY <3>1, <3>2
  <2>2. CASE VerifyReject(h)
    BY <1>0, <2>2 DEF VerifyReject, TypeOK
  <2> QED BY <2>1, <2>2
<1>2. \A t \in Tasks : task'[t].reason = OutOfBackstock => task'[t] = task[t]
  <2>1. None # OutOfBackstock
    BY NoneAssumption, ReasonAssumption
  <2>2. CASE VerifyConfirm(h)
    BY <1>0, <2>1, <2>2 DEF VerifyConfirm, TypeOK
  <2>3. CASE VerifyReject(h)
    BY <1>0, <2>1, <2>3 DEF VerifyReject, NoTask, TypeOK
  <2> QED BY <2>2, <2>3
<1>3. SupplyAskedOnce'
  BY <1>0, <1>2 DEF Supplied, SupplyAskedOnce
<1>4. \A t \in Tasks : asks'[t] > 0 => Exists(t)'
  BY <1>0, <1>1 DEF Supplied, AskedStaysConfirmed, Exists
<1>5. AskedStaysConfirmed'
  BY <1>0, <1>4, AskedConfirmed
<1>6. Patching'
  BY <1>0 DEF Supplied, Patching
<1> QED BY <1>3, <1>5, <1>6 DEF Supplied

\* A report that is not committing writes nothing, and remembers what it reads.
LEMMA SuppliedRead ==
  ASSUME Confirmed, Supplied, NEW h \in Patchers,
         \/ \E t \in minted, s \in Reports, r \in BlockedReasons \cup {None} : PatchRead(h, t, s, r)
         \/ PatchUpdate(h)
         \/ PatchFails(h)
  PROVE  Supplied'
<1>0. /\ TypeOK /\ patcher \in [Patchers -> PatcherState] /\ asks \in [Tasks -> Nat]
      /\ minted \subseteq Tasks
      /\ UNCHANGED <<finding, task, asks>>
  BY DEF Confirmed, TypeOK, PatchRead, PatchUpdate, PatchFails, tables
<1>1. SupplyAskedOnce' /\ AskedStaysConfirmed'
  BY <1>0 DEF Supplied, SupplyAskedOnce, AskedStaysConfirmed, Exists
<1>2. \A g \in Patchers : g # h => patcher'[g] = patcher[g]
  BY <1>0 DEF PatchRead, PatchUpdate, PatchFails
<1> DEFINE me == patcher'[h]
<1>3. /\ me.pc # "idle" /\ me.saw.reason = OutOfBackstock => asks[me.task] = 1
      /\ me.pc = "insert" => me.reason = OutOfBackstock /\ me.reason = me.saw.reason /\ me.already
      /\ me.pc = "commit" => /\ me.reason = OutOfBackstock
                             /\ me.reason # me.saw.reason
                             /\ me.already <=> asks[me.task] > 0
  <2>1. CASE \E t \in minted, s \in Reports, r \in BlockedReasons \cup {None} : PatchRead(h, t, s, r)
    <3>1. PICK t \in minted : /\ me.pc = "update" /\ me.task = t /\ me.saw = task[t]
      BY <1>0, <2>1 DEF PatchRead
    <3> QED BY <1>0, <3>1 DEF Supplied, SupplyAskedOnce
  <2>2. CASE PatchUpdate(h)
    <3>1. /\ patcher[h].pc = "update" /\ patcher[h].reason = OutOfBackstock
          /\ me.task = patcher[h].task /\ me.reason = patcher[h].reason /\ me.saw = patcher[h].saw
          /\ me.pc = IF me.reason # me.saw.reason THEN "commit" ELSE "insert"
          /\ me.already <=> asks[me.task] > 0
      BY <1>0, <2>2 DEF PatchUpdate, PatcherState
    <3>2. me.saw.reason = OutOfBackstock => asks[me.task] = 1
      BY <3>1 DEF Supplied, Patching
    <3> QED BY <3>1, <3>2
  <2>3. CASE PatchFails(h)
    BY <1>0, <2>3 DEF PatchFails, IdlePatcher
  <2> QED BY <2>1, <2>2, <2>3
<1>4. Patching'
  BY <1>0, <1>2, <1>3 DEF Supplied, Patching
<1> QED BY <1>1, <1>4 DEF Supplied

\* The commit of a report asks supply chain when, and only when, nobody has.
LEMMA SuppliedCommit ==
  ASSUME Confirmed, Supplied, Confirmed', NEW h \in Patchers, PatchCommit(h)
  PROVE  Supplied'
<1> DEFINE t == patcher[h].task
<1>0. /\ TypeOK /\ TypeOK' /\ TaskIffConfirmed' /\ LockedOnce
      /\ patcher \in [Patchers -> PatcherState] /\ asks \in [Tasks -> Nat]
      /\ task \in [Tasks -> TaskRow]
      /\ patcher[h].pc # "idle" /\ t \in Tasks
  BY DEF Confirmed, TypeOK, PatchCommit
<1>1. /\ \A g \in Patchers : g # h => patcher'[g] = patcher[g]
      /\ patcher'[h].pc = "idle"
  BY <1>0 DEF PatchCommit, IdlePatcher
<1>2. Asks(h) => patcher[h].pc = "commit" /\ asks[t] = 0 /\ Exists(t)
  BY <1>0 DEF PatchCommit, Asks, Supplied, Patching
<1>3. /\ \A u \in Tasks : u # t => asks'[u] = asks[u] /\ task'[u] = task[u]
      /\ asks'[t] = IF Asks(h) THEN 1 ELSE asks[t]
  BY <1>0, <1>2 DEF PatchCommit
<1>4. \A u \in Tasks : Exists(u) => Exists(u)'
  <2>1. CASE Writes(h)
    <3>1. Exists(t) /\ task' = [task EXCEPT ![t] = Patched(h)]
      BY <2>1 DEF PatchCommit
    <3>2. task'[t].status # "ABSENT"
      BY <1>0, <3>1 DEF Patched, Exists, PatcherState, TaskRow, Reports
    <3> QED BY <1>3, <3>2 DEF Exists
  <2>2. CASE ~ Writes(h)
    BY <2>2 DEF PatchCommit, Exists
  <2> QED BY <2>1, <2>2
<1>5. AskedStaysConfirmed'
  <2>1. \A u \in Tasks : asks'[u] > 0 => Exists(u)'
    BY <1>2, <1>3, <1>4 DEF Supplied, AskedStaysConfirmed
  <2> QED BY <1>0, <2>1, AskedConfirmed
<1>6. \/ task'[t].reason = task[t].reason
      \/ task'[t].reason = patcher[h].reason /\ patcher[h].reason # patcher[h].saw.reason
  BY <1>0 DEF PatchCommit, Patched, TaskRow
<1>7. patcher[h].reason = OutOfBackstock /\ patcher[h].reason # patcher[h].saw.reason
        => asks'[t] = 1
  <2>1. SUFFICES ASSUME patcher[h].reason = OutOfBackstock,
                        patcher[h].reason # patcher[h].saw.reason
                 PROVE  asks'[t] = 1
    OBVIOUS
  <2>2. patcher[h].already <=> asks[t] > 0
    BY <2>1 DEF PatchCommit, Supplied, Patching
  <2>3. asks[t] \in {0, 1}
    BY <1>0 DEF Supplied, SupplyAskedOnce
  <2> QED BY <1>3, <2>1, <2>2, <2>3 DEF Asks
<1>8. SupplyAskedOnce'
  <2>1. asks'[t] <= 1 /\ (task[t].reason = OutOfBackstock => asks'[t] = 1)
    BY <1>0, <1>2, <1>3 DEF Supplied, SupplyAskedOnce
  <2>2. task'[t].reason = OutOfBackstock => asks'[t] = 1
    BY <1>6, <1>7, <2>1
  <2> QED BY <1>3, <2>1, <2>2 DEF Supplied, SupplyAskedOnce
<1>9. Patching'
  <2> SUFFICES ASSUME NEW g \in Patchers, g # h, patcher[g].pc # "idle"
               PROVE  LET me == patcher[g] IN
                      /\ me.saw.reason = OutOfBackstock => asks'[me.task] = 1
                      /\ me.pc = "insert" => /\ me.reason = OutOfBackstock
                                             /\ me.reason = me.saw.reason
                                             /\ me.already
                      /\ me.pc = "commit" => /\ me.reason = OutOfBackstock
                                             /\ me.reason # me.saw.reason
                                             /\ me.already <=> asks'[me.task] > 0
    BY <1>1 DEF Patching
  <2>0. patcher[g].task \in Tasks
    BY <1>0 DEF TypeOK
  <2>1. CASE patcher[g].task = t /\ Asks(h)
    <3>1. patcher[g].pc # "commit"
      BY <1>0, <1>2, <2>1 DEF LockedOnce
    <3>2. patcher[g].saw.reason # OutOfBackstock
      BY <1>2, <2>1 DEF Supplied, Patching
    <3> QED BY <3>1, <3>2 DEF Supplied, Patching
  <2>2. CASE ~ (patcher[g].task = t /\ Asks(h))
    <3>1. asks'[patcher[g].task] = asks[patcher[g].task]
      BY <1>3, <2>0, <2>2
    <3> QED BY <3>1 DEF Supplied, Patching
  <2> QED BY <2>1, <2>2
<1> QED BY <1>5, <1>8, <1>9 DEF Supplied

LEMMA SuppliedNext == Confirmed /\ Supplied /\ [Next]_vars => Supplied'
<1> SUFFICES ASSUME Confirmed, Supplied, [Next]_vars PROVE Supplied'
  OBVIOUS
<1>0. Confirmed'
  BY ConfirmedNext
<1>1. CASE UNCHANGED <<finding, task, asks, patcher>>
  BY <1>1 DEF Supplied, SupplyAskedOnce, AskedStaysConfirmed, Patching, Exists
<1>2. CASE UNCHANGED vars
  BY <1>1, <1>2 DEF vars
<1>3. ASSUME NEW h \in Verifiers, NEW f \in Findings, NEW v \in Verdicts,
             NEW r \in RejectReasons \cup {None}, VerifyRead(h, f, v, r)
      PROVE  Supplied'
  BY <1>1, <1>3 DEF VerifyRead, tables
<1>4. ASSUME NEW h \in Verifiers, VerifierStep(h) PROVE Supplied'
  <2>1. CASE VerifyUpdate(h) \/ VerifyFails(h)
    BY <1>1, <2>1 DEF VerifyUpdate, VerifyFails, tables
  <2> QED BY <1>0, <1>4, <2>1, SuppliedVerdict DEF VerifierStep
<1>5. ASSUME NEW h \in Patchers, PatcherStep(h) PROVE Supplied'
  BY <1>0, <1>5, SuppliedRead, SuppliedCommit DEF PatcherStep
<1> QED BY <1>2, <1>3, <1>4, <1>5, SuppliedRead DEF Next

LEMMA Safe == Spec => [](Confirmed /\ Supplied)
BY SafeInit, ConfirmedNext, SuppliedNext, PTL DEF Spec

\* A task blocked for want of stock has asked supply chain, and none asks twice,
\* whatever reports cross.
THEOREM SupplyIsAskedOnce == Spec => []SupplyAskedOnce
<1>1. Supplied => SupplyAskedOnce
  BY DEF Supplied
<1> QED BY <1>1, Safe, PTL

\* The gap of a task supply chain was asked for stays confirmed.
THEOREM AskedGapsStay == Spec => []AskedStaysConfirmed
<1>1. Supplied => AskedStaysConfirmed
  BY DEF Supplied
<1> QED BY <1>1, Safe, PTL

----------------------------------------------------------------------------
(* Requests in turn: on a row no two requests ever shared, the one at work  *)
(* has loaded the row as it still is, so the columns it leaves alone are    *)
(* those it means to leave alone.                                           *)

OnFinding(f) == {h \in Verifiers : verifier[h].pc # "idle" /\ verifier[h].finding = f}
OnTask(t) == {h \in Patchers : patcher[h].pc # "idle" /\ patcher[h].task = t}

VerdictsInTurn == \A f \in Findings \ overlapped :
  /\ \A g, h \in OnFinding(f) : g = h
  /\ \A h \in OnFinding(f) : verifier[h].saw = finding[f]

ReportsInTurn == \A t \in Tasks \ overlapped :
  /\ \A g, h \in OnTask(t) : g = h
  /\ \A h \in OnTask(t) : Exists(t) => patcher[h].saw = task[t]

\* A request gives a reason with the state that needs one, and only then.
Reasoned ==
  /\ \A h \in Verifiers : verifier[h].verdict = "CONFIRMED" => verifier[h].reason = None
  /\ \A h \in Patchers : patcher[h].status = "BLOCKED" <=> patcher[h].reason # None

Turns == VerdictsInTurn /\ ReportsInTurn /\ Reasoned
InTurn == TypeOK /\ Turns /\ AuditTellsHistory /\ ReasonsFit

LEMMA InTurnInit == Init => InTurn
<1> SUFFICES ASSUME Init PROVE InTurn
  OBVIOUS
<1>1. /\ \A h \in Verifiers : verifier[h] = IdleVerifier
      /\ \A h \in Patchers : patcher[h] = IdlePatcher
  BY DEF Init
<1>2. /\ \A h \in Verifiers : verifier[h].pc = "idle" /\ verifier[h].reason = None
      /\ \A h \in Patchers : /\ patcher[h].pc = "idle" /\ patcher[h].reason = None
                             /\ patcher[h].status = "OPEN"
  BY <1>1 DEF IdleVerifier, IdlePatcher
<1>3. Turns
  BY <1>2 DEF Turns, VerdictsInTurn, ReportsInTurn, Reasoned, OnFinding, OnTask
<1>4. \A f \in Findings : /\ audit[f] = <<>> /\ Len(audit[f]) = 0
                          /\ finding[f].status = "PENDING" /\ finding[f].reason = None
  BY DEF Init
<1>5. \A t \in Tasks : task[t].reason = None /\ task[t].status = "ABSENT"
  BY DEF Init, NoTask
<1> QED BY <1>3, <1>4, <1>5, TypeInit DEF InTurn, AuditTellsHistory, ReasonsFit

\* A verdict request in its turn writes the verdict with its own reason, and
\* logs it after the verdict that was in force.
LEMMA DecidesInTurn ==
  ASSUME InTurn, NEW h \in Verifiers, verifier[h].pc # "idle",
         verifier[h].finding \notin overlapped
  PROVE  /\ verifier[h].saw = finding[verifier[h].finding]
         /\ Decided(h) = [status |-> verifier[h].verdict, reason |-> verifier[h].reason]
<1>1. verifier[h].saw = finding[verifier[h].finding]
  BY DEF InTurn, Turns, VerdictsInTurn, OnFinding, TypeOK
<1> QED BY <1>1 DEF Decided

\* What a verdict request's later steps keep: the handlers still at work have
\* what they loaded and what they were asked.
LEMMA VerdictsGoOn ==
  ASSUME TypeOK, NEW h \in Verifiers, VerifierStep(h)
  PROVE  /\ \A g \in Verifiers :
              \/ verifier'[g] = IdleVerifier
              \/ /\ verifier[g].pc # "idle" \/ verifier'[g] = verifier[g]
                 /\ verifier'[g].finding = verifier[g].finding
                 /\ verifier'[g].verdict = verifier[g].verdict
                 /\ verifier'[g].reason = verifier[g].reason
                 /\ verifier'[g].saw = verifier[g].saw
         /\ VerifyConfirm(h) \/ VerifyReject(h) => verifier'[h].pc = "idle"
         /\ UNCHANGED <<patcher, overlapped>>
<1>1. verifier \in [Verifiers -> VerifierState]
  BY DEF TypeOK
<1>2. UNCHANGED <<patcher, overlapped>>
  BY DEF VerifierStep, VerifyUpdate, VerifyConfirm, VerifyReject, VerifyFails
<1>3. CASE VerifyUpdate(h)
  <2>1. PICK found :
          /\ verifier[h].pc = "update"
          /\ verifier' = [verifier EXCEPT ![h].pc = "commit", ![h].found = found]
    BY <1>3 DEF VerifyUpdate
  <2>2. /\ verifier'[h].finding = verifier[h].finding
        /\ verifier'[h].verdict = verifier[h].verdict
        /\ verifier'[h].reason = verifier[h].reason
        /\ verifier'[h].saw = verifier[h].saw
        /\ \A g \in Verifiers : g # h => verifier'[g] = verifier[g]
    BY <1>1, <2>1 DEF VerifierState
  <2>3. ~ VerifyConfirm(h) /\ ~ VerifyReject(h)
    BY <2>1 DEF VerifyConfirm, VerifyReject
  <2> QED BY <1>2, <2>1, <2>2, <2>3
<1>4. CASE ~ VerifyUpdate(h)
  <2>1. verifier' = [verifier EXCEPT ![h] = IdleVerifier]
    BY <1>4 DEF VerifierStep, VerifyConfirm, VerifyReject, VerifyFails
  <2>2. /\ verifier'[h] = IdleVerifier /\ verifier'[h].pc = "idle"
        /\ \A g \in Verifiers : g # h => verifier'[g] = verifier[g]
    BY <1>1, <2>1 DEF IdleVerifier
  <2> QED BY <1>2, <2>2
<1> QED BY <1>3, <1>4

\* What a verdict writes to the rows: its finding's, and either a new task's or
\* those of the tasks it deletes.
LEMMA VerdictWrites ==
  ASSUME TypeOK, NEW h \in Verifiers, VerifierStep(h)
  PROVE  /\ \/ UNCHANGED <<finding, audit>>
            \/ /\ VerifyConfirm(h) \/ VerifyReject(h)
               /\ verifier[h].pc # "idle" /\ verifier[h].finding \in Findings
               /\ finding' = [finding EXCEPT ![verifier[h].finding] = Decided(h)]
               /\ audit' = Audited(h)
         /\ \A t \in Tasks : \/ task'[t] = task[t]
                             \/ task'[t] = NoTask
                             \/ /\ t \notin minted
                                /\ task'[t].status = "OPEN" /\ task'[t].reason = None
<1>1. CASE VerifyUpdate(h) \/ VerifyFails(h)
  BY <1>1 DEF VerifyUpdate, VerifyFails, tables
<1>2. CASE VerifyConfirm(h)
  <2>1. \A t \in Tasks : \/ task'[t] = task[t]
                         \/ /\ t \notin minted
                            /\ task'[t].status = "OPEN" /\ task'[t].reason = None
    BY <1>2 DEF VerifyConfirm, TypeOK
  <2> QED BY <1>2, <2>1 DEF VerifyConfirm, TypeOK
<1>3. CASE VerifyReject(h)
  <2>1. \A t \in Tasks : task'[t] = task[t] \/ task'[t] = NoTask
    BY <1>3 DEF VerifyReject
  <2> QED BY <1>3, <2>1 DEF VerifyReject, TypeOK
<1> QED BY <1>1, <1>2, <1>3 DEF VerifierStep

LEMMA TurnsVerdict ==
  ASSUME InTurn, NEW h \in Verifiers, VerifierStep(h)
  PROVE  Turns'
<1>0. TypeOK /\ VerdictsInTurn /\ ReportsInTurn /\ Reasoned
  BY DEF InTurn, Turns
<1>1. /\ \A g \in Verifiers :
           \/ verifier'[g] = IdleVerifier
           \/ /\ verifier[g].pc # "idle" \/ verifier'[g] = verifier[g]
              /\ verifier'[g].finding = verifier[g].finding
              /\ verifier'[g].verdict = verifier[g].verdict
              /\ verifier'[g].reason = verifier[g].reason
              /\ verifier'[g].saw = verifier[g].saw
      /\ VerifyConfirm(h) \/ VerifyReject(h) => verifier'[h].pc = "idle"
      /\ UNCHANGED <<patcher, overlapped>>
  BY <1>0, VerdictsGoOn
<1>2. /\ IdleVerifier.pc = "idle" /\ IdleVerifier.reason = None
  BY DEF IdleVerifier
<1>3. \A f : OnFinding(f)' \subseteq OnFinding(f)
  BY <1>1, <1>2 DEF OnFinding
<1>4. VerdictsInTurn'
  <2> SUFFICES ASSUME NEW f \in Findings \ overlapped
               PROVE  /\ \A g, k \in OnFinding(f)' : g = k
                      /\ \A g \in OnFinding(f)' : verifier'[g].saw = finding'[f]
    BY <1>1 DEF VerdictsInTurn
  <2>1. /\ \A g, k \in OnFinding(f) : g = k
        /\ \A g \in OnFinding(f) : verifier[g].saw = finding[f]
    BY <1>0 DEF VerdictsInTurn
  <2>2. ASSUME NEW g \in OnFinding(f)' PROVE verifier'[g].saw = finding'[f]
    <3>1. g \in OnFinding(f) /\ verifier'[g].saw = verifier[g].saw
      BY <1>1, <1>2, <1>3, <2>2 DEF OnFinding
    <3>2. CASE UNCHANGED finding
      BY <2>1, <3>1, <3>2
    <3>3. CASE /\ VerifyConfirm(h) \/ VerifyReject(h)
               /\ verifier[h].pc # "idle"
               /\ finding' = [finding EXCEPT ![verifier[h].finding] = Decided(h)]
      <4>1. verifier[h].finding # f
        BY <1>1, <2>1, <2>2, <3>1, <3>3 DEF OnFinding
      <4> QED BY <1>0, <2>1, <3>1, <3>3, <4>1 DEF TypeOK
    <3> QED BY <1>0, <3>2, <3>3, VerdictWrites
  <2> QED BY <1>3, <2>1, <2>2
<1>5. ReportsInTurn'
  <2> SUFFICES ASSUME NEW t \in Tasks \ overlapped
               PROVE  /\ \A g, k \in OnTask(t)' : g = k
                      /\ \A g \in OnTask(t)' : Exists(t)' => patcher'[g].saw = task'[t]
    BY <1>1 DEF ReportsInTurn
  <2>1. OnTask(t)' = OnTask(t)
    BY <1>1 DEF OnTask
  <2>2. /\ \A g, k \in OnTask(t) : g = k
        /\ \A g \in OnTask(t) : Exists(t) => patcher[g].saw = task[t]
        /\ \A g \in OnTask(t) : t \in minted
    BY <1>0 DEF ReportsInTurn, OnTask, TypeOK
  <2>3. \/ task'[t] = task[t] \/ task'[t] = NoTask
        \/ t \notin minted
    BY <1>0, VerdictWrites
  <2> QED BY <1>1, <2>1, <2>2, <2>3 DEF Exists, NoTask
<1>6. Reasoned'
  BY <1>0, <1>1, <1>2 DEF Reasoned
<1> QED BY <1>4, <1>5, <1>6 DEF Turns

\* A verdict read while no other is at work on the gap starts a turn of its own;
\* otherwise the gap counts as overlapped.
LEMMA TurnsVerdictRead ==
  ASSUME InTurn, NEW h \in Verifiers, NEW f \in Findings, NEW v \in Verdicts,
         NEW r \in RejectReasons \cup {None}, VerifyRead(h, f, v, r)
  PROVE  Turns' /\ AuditTellsHistory' /\ ReasonsFit'
<1>0. TypeOK /\ VerdictsInTurn /\ ReportsInTurn /\ Reasoned
  BY DEF InTurn, Turns
<1>1. /\ UNCHANGED <<finding, task, audit, patcher>>
      /\ overlapped \subseteq overlapped'
      /\ \A e \in Findings : e \notin overlapped' /\ e = f => OnFinding(e) = {}
      /\ verifier[h].pc = "idle"
      /\ v = "CONFIRMED" => r = None
  BY DEF VerifyRead, tables, OnFinding
<1>2. /\ verifier'[h].finding = f /\ verifier'[h].verdict = v
      /\ verifier'[h].reason = r /\ verifier'[h].saw = finding[f]
      /\ \A g \in Verifiers : g # h => verifier'[g] = verifier[g]
  BY <1>0 DEF VerifyRead, TypeOK
<1>3. VerdictsInTurn'
  <2> SUFFICES ASSUME NEW e \in Findings, e \notin overlapped'
               PROVE  /\ \A g, k \in OnFinding(e)' : g = k
                      /\ \A g \in OnFinding(e)' : verifier'[g].saw = finding'[e]
    BY DEF VerdictsInTurn
  <2>1. /\ \A g, k \in OnFinding(e) : g = k
        /\ \A g \in OnFinding(e) : verifier[g].saw = finding[e]
    BY <1>0, <1>1 DEF VerdictsInTurn
  <2>2. CASE e = f
    <3>1. OnFinding(e) = {}
      BY <1>1, <2>2
    <3>2. OnFinding(e)' \subseteq {h}
      BY <1>2, <3>1 DEF OnFinding
    <3> QED BY <1>1, <1>2, <2>2, <3>2
  <2>3. CASE e # f
    <3>1. OnFinding(e)' \subseteq OnFinding(e) \ {h}
      BY <1>1, <1>2, <2>3 DEF OnFinding
    <3> QED BY <1>1, <1>2, <2>1, <3>1 DEF OnFinding
  <2> QED BY <2>2, <2>3
<1>4. ReportsInTurn'
  BY <1>0, <1>1 DEF ReportsInTurn, OnTask, Exists
<1>5. Reasoned'
  BY <1>0, <1>1, <1>2 DEF Reasoned
<1>6. AuditTellsHistory' /\ ReasonsFit'
  BY <1>1 DEF InTurn, AuditTellsHistory, ReasonsFit
<1> QED BY <1>3, <1>4, <1>5, <1>6 DEF Turns

\* A verdict in its turn continues the gap's history and carries its reason.
LEMMA HistoryVerdict ==
  ASSUME InTurn, NEW h \in Verifiers, VerifierStep(h)
  PROVE  AuditTellsHistory' /\ ReasonsFit'
<1>0. TypeOK /\ Reasoned /\ AuditTellsHistory /\ ReasonsFit
  BY DEF InTurn, Turns
<1>1. overlapped' = overlapped
  BY <1>0, VerdictsGoOn
<1>2. \A t \in Tasks \ overlapped : task'[t].reason # None <=> task'[t].status = "BLOCKED"
  <2>1. \A t \in Tasks : \/ task'[t] = task[t]
                         \/ task'[t] = NoTask
                         \/ task'[t].status = "OPEN" /\ task'[t].reason = None
    BY <1>0, VerdictWrites
  <2>2. NoTask.reason = None /\ NoTask.status = "ABSENT"
    BY DEF NoTask
  <2> QED BY <1>0, <2>1, <2>2 DEF ReasonsFit
<1>3. CASE UNCHANGED <<finding, audit>>
  BY <1>0, <1>1, <1>2, <1>3 DEF AuditTellsHistory, ReasonsFit
<1>4. CASE /\ VerifyConfirm(h) \/ VerifyReject(h)
           /\ verifier[h].pc # "idle" /\ verifier[h].finding \in Findings
           /\ finding' = [finding EXCEPT ![verifier[h].finding] = Decided(h)]
           /\ audit' = Audited(h)
  <2> DEFINE f == verifier[h].finding
             row == [before |-> verifier[h].saw.status, after |-> verifier[h].verdict]
  <2>1. /\ f \in Findings /\ finding'[f] = Decided(h)
        /\ audit'[f] = Append(audit[f], row)
        /\ \A e \in Findings : e # f => finding'[e] = finding[e] /\ audit'[e] = audit[e]
    BY <1>0, <1>4 DEF Audited, TypeOK
  <2>2. CASE f \in overlapped
    <3>1. \A e \in Findings \ overlapped : finding'[e] = finding[e] /\ audit'[e] = audit[e]
      BY <2>1, <2>2
    <3> QED BY <1>0, <1>1, <1>2, <3>1 DEF AuditTellsHistory, ReasonsFit
  <2>3. CASE f \notin overlapped
    <3>1. /\ verifier[h].saw = finding[f]
          /\ finding'[f].status = verifier[h].verdict
          /\ finding'[f].reason = verifier[h].reason
      BY <1>4, <2>1, <2>3, DecidesInTurn
    <3>2. ReasonsFit'
      <4>1. verifier[h].reason # None => verifier[h].verdict = "REJECTED"
        BY <1>0 DEF Reasoned, TypeOK, VerifierState, Verdicts
      <4>2. \A e \in Findings \ overlapped :
              finding'[e].reason # None => finding'[e].status = "REJECTED"
        BY <1>0, <2>1, <3>1, <4>1 DEF ReasonsFit
      <4> QED BY <1>1, <1>2, <4>2 DEF ReasonsFit
    <3>3. AuditTellsHistory'
      <4> DEFINE n == Len(audit[f])
      <4>1. /\ finding[f].status = IF n = 0 THEN "PENDING" ELSE audit[f][n].after
            /\ \A i \in 1..n :
                 audit[f][i].before = IF i = 1 THEN "PENDING" ELSE audit[f][i - 1].after
        BY <1>0, <2>1, <2>3 DEF AuditTellsHistory
      <4>2. audit[f] \in Seq(AuditRow) /\ n \in Nat
        BY <1>0, <2>1 DEF TypeOK
      <4>3. /\ Len(audit'[f]) = n + 1 /\ audit'[f][n + 1] = row
            /\ \A i \in 1..n : audit'[f][i] = audit[f][i]
        BY <2>1, <4>2
      <4>4. row.before = finding[f].status /\ row.after = finding'[f].status
        BY <3>1
      <4> HIDE DEF row, f, n
      <4>5. audit'[f][n + 1].before = IF n = 0 THEN "PENDING" ELSE audit'[f][n].after
        <5>1. n # 0 => n \in 1..n
          BY <4>2
        <5> QED BY <4>1, <4>3, <4>4, <5>1
      <4>6. \A i \in 1..n :
              audit'[f][i].before = IF i = 1 THEN "PENDING" ELSE audit'[f][i - 1].after
        <5> TAKE i \in 1..n
        <5>1. audit'[f][i] = audit[f][i]
          BY <4>3
        <5>2. i # 1 => i - 1 \in 1..n
          BY <4>2
        <5>3. i # 1 => audit'[f][i - 1] = audit[f][i - 1]
          BY <4>3, <5>2
        <5> QED BY <4>1, <5>1, <5>3
      <4>7. \A i \in 1..(n + 1) :
              audit'[f][i].before = IF i = 1 THEN "PENDING" ELSE audit'[f][i - 1].after
        <5> TAKE i \in 1..(n + 1)
        <5>1. CASE i \in 1..n
          BY <4>6, <5>1
        <5>2. CASE i = n + 1
          <6>1. i - 1 = n /\ (i = 1 <=> n = 0)
            BY <4>2, <5>2
          <6> QED BY <4>5, <5>2, <6>1
        <5> QED BY <4>2, <5>1, <5>2
      <4>8. finding'[f].status = IF n + 1 = 0 THEN "PENDING" ELSE audit'[f][n + 1].after
        BY <4>2, <4>3, <4>4
      <4>9. \A e \in Findings \ overlapped : e # f =>
              /\ finding'[e] = finding[e] /\ audit'[e] = audit[e]
        BY <2>1
      <4> QED BY <1>0, <1>1, <4>3, <4>7, <4>8, <4>9 DEF AuditTellsHistory
    <3> QED BY <3>2, <3>3
  <2> QED BY <2>2, <2>3
<1> QED BY <1>0, <1>3, <1>4, VerdictWrites

\* A report read while no other is at work on the task starts a turn of its own.
LEMMA TurnsReportRead ==
  ASSUME InTurn, NEW h \in Patchers, NEW t \in minted, NEW s \in Reports,
         NEW r \in BlockedReasons \cup {None}, PatchRead(h, t, s, r)
  PROVE  Turns' /\ AuditTellsHistory' /\ ReasonsFit'
<1>0. TypeOK /\ VerdictsInTurn /\ ReportsInTurn /\ Reasoned
  BY DEF InTurn, Turns
<1>1. /\ UNCHANGED <<finding, task, audit, verifier>>
      /\ overlapped \subseteq overlapped'
      /\ \A u \in Tasks : u \notin overlapped' /\ u = t => OnTask(u) = {}
      /\ patcher[h].pc = "idle"
      /\ s = "BLOCKED" <=> r # None
  BY DEF PatchRead, tables, OnTask
<1>2. /\ patcher'[h].task = t /\ patcher'[h].status = s
      /\ patcher'[h].reason = r /\ patcher'[h].saw = task[t]
      /\ \A g \in Patchers : g # h => patcher'[g] = patcher[g]
  BY <1>0 DEF PatchRead, TypeOK
<1>3. ReportsInTurn'
  <2> SUFFICES ASSUME NEW u \in Tasks, u \notin overlapped'
               PROVE  /\ \A g, k \in OnTask(u)' : g = k
                      /\ \A g \in OnTask(u)' : Exists(u)' => patcher'[g].saw = task'[u]
    BY DEF ReportsInTurn
  <2>1. /\ \A g, k \in OnTask(u) : g = k
        /\ \A g \in OnTask(u) : Exists(u) => patcher[g].saw = task[u]
        /\ Exists(u)' <=> Exists(u)
    BY <1>0, <1>1 DEF ReportsInTurn, Exists
  <2>2. CASE u = t
    <3>1. OnTask(u)' \subseteq {h}
      BY <1>1, <1>2, <2>2 DEF OnTask
    <3> QED BY <1>1, <1>2, <2>2, <3>1
  <2>3. CASE u # t
    <3>1. OnTask(u)' \subseteq OnTask(u) \ {h}
      BY <1>1, <1>2, <2>3 DEF OnTask
    <3> QED BY <1>1, <1>2, <2>1, <3>1 DEF OnTask
  <2> QED BY <2>2, <2>3
<1>4. VerdictsInTurn'
  BY <1>0, <1>1 DEF VerdictsInTurn, OnFinding
<1>5. Reasoned'
  BY <1>0, <1>1, <1>2 DEF Reasoned
<1>6. AuditTellsHistory' /\ ReasonsFit'
  BY <1>1 DEF InTurn, AuditTellsHistory, ReasonsFit
<1> QED BY <1>3, <1>4, <1>5, <1>6 DEF Turns

\* A report's other steps: the handlers still at work have what they loaded and
\* what they were asked, and only a commit writes, its own task's row.
LEMMA ReportsGoOn ==
  ASSUME TypeOK, NEW h \in Patchers, PatcherStep(h)
  PROVE  /\ \A g \in Patchers :
              \/ patcher'[g] = IdlePatcher
              \/ /\ patcher[g].pc # "idle" \/ patcher'[g] = patcher[g]
                 /\ patcher'[g].task = patcher[g].task
                 /\ patcher'[g].status = patcher[g].status
                 /\ patcher'[g].reason = patcher[g].reason
                 /\ patcher'[g].saw = patcher[g].saw
         /\ \/ UNCHANGED task
            \/ /\ patcher[h].pc # "idle" /\ patcher[h].task \in Tasks
               /\ Exists(patcher[h].task)
               /\ task' = [task EXCEPT ![patcher[h].task] = Patched(h)]
               /\ patcher'[h] = IdlePatcher
         /\ UNCHANGED <<finding, audit, verifier, overlapped>>
<1>1. patcher \in [Patchers -> PatcherState]
  BY DEF TypeOK
<1>2. UNCHANGED <<finding, audit, verifier, overlapped>>
  BY DEF PatcherStep, PatchUpdate, PatchCommit, PatchFails, tables
<1>3. CASE PatchUpdate(h)
  <2>1. PICK pc, already :
          /\ patcher[h].pc = "update"
          /\ patcher' = [patcher EXCEPT ![h].pc = pc, ![h].already = already]
    BY <1>3 DEF PatchUpdate
  <2>2. /\ patcher'[h].task = patcher[h].task
        /\ patcher'[h].status = patcher[h].status
        /\ patcher'[h].reason = patcher[h].reason
        /\ patcher'[h].saw = patcher[h].saw
        /\ \A g \in Patchers : g # h => patcher'[g] = patcher[g]
    BY <1>1, <2>1 DEF PatcherState
  <2> QED BY <1>2, <1>3, <2>1, <2>2 DEF PatchUpdate, tables
<1>4. CASE PatchCommit(h) \/ PatchFails(h)
  <2>1. /\ patcher'[h] = IdlePatcher
        /\ \A g \in Patchers : g # h => patcher'[g] = patcher[g]
    BY <1>1, <1>4 DEF PatchCommit, PatchFails
  <2>2. \/ UNCHANGED task
        \/ /\ patcher[h].pc # "idle" /\ patcher[h].task \in Tasks
           /\ Exists(patcher[h].task)
           /\ task' = [task EXCEPT ![patcher[h].task] = Patched(h)]
    BY <1>4 DEF PatchCommit, PatchFails, tables, TypeOK
  <2> QED BY <1>2, <2>1, <2>2
<1> QED BY <1>3, <1>4 DEF PatcherStep

\* A report in its turn leaves the row with its own status and reason, and the
\* stamp of the first time the task left OPEN.
LEMMA PatchesInTurn ==
  ASSUME InTurn, NEW h \in Patchers, patcher[h].pc # "idle",
         Exists(patcher[h].task), patcher[h].task \notin overlapped
  PROVE  /\ Patched(h).status = patcher[h].status
         /\ Patched(h).reason = patcher[h].reason
         /\ Patched(h).completed = Completion(h)
         /\ patcher[h].saw = task[patcher[h].task]
<1>1. /\ patcher[h].saw = task[patcher[h].task]
      /\ task[patcher[h].task] \in TaskRow
  BY DEF InTurn, Turns, ReportsInTurn, OnTask, TypeOK
<1> HIDE DEF Completion
<1> QED BY <1>1 DEF Patched, TaskRow

LEMMA TurnsReport ==
  ASSUME InTurn, NEW h \in Patchers, PatcherStep(h)
  PROVE  Turns' /\ AuditTellsHistory' /\ ReasonsFit'
<1>0. TypeOK /\ VerdictsInTurn /\ ReportsInTurn /\ Reasoned /\ AuditTellsHistory /\ ReasonsFit
  BY DEF InTurn, Turns
<1>1. /\ \A g \in Patchers :
           \/ patcher'[g] = IdlePatcher
           \/ /\ patcher[g].pc # "idle" \/ patcher'[g] = patcher[g]
              /\ patcher'[g].task = patcher[g].task
              /\ patcher'[g].status = patcher[g].status
              /\ patcher'[g].reason = patcher[g].reason
              /\ patcher'[g].saw = patcher[g].saw
      /\ \/ UNCHANGED task
         \/ /\ patcher[h].pc # "idle" /\ patcher[h].task \in Tasks
            /\ Exists(patcher[h].task)
            /\ task' = [task EXCEPT ![patcher[h].task] = Patched(h)]
            /\ patcher'[h] = IdlePatcher
      /\ UNCHANGED <<finding, audit, verifier, overlapped>>
  BY <1>0, ReportsGoOn
<1>2. /\ IdlePatcher.pc = "idle" /\ IdlePatcher.reason = None /\ IdlePatcher.status = "OPEN"
  BY DEF IdlePatcher
<1>3. VerdictsInTurn' /\ AuditTellsHistory'
  BY <1>0, <1>1 DEF VerdictsInTurn, OnFinding, AuditTellsHistory
<1>4. Reasoned'
  BY <1>0, <1>1, <1>2 DEF Reasoned
<1>5. \A t : OnTask(t)' \subseteq OnTask(t)
  BY <1>1, <1>2 DEF OnTask
<1>6. ReportsInTurn'
  <2> SUFFICES ASSUME NEW t \in Tasks \ overlapped
               PROVE  /\ \A g, k \in OnTask(t)' : g = k
                      /\ \A g \in OnTask(t)' : Exists(t)' => patcher'[g].saw = task'[t]
    BY <1>1 DEF ReportsInTurn
  <2>1. /\ \A g, k \in OnTask(t) : g = k
        /\ \A g \in OnTask(t) : Exists(t) => patcher[g].saw = task[t]
    BY <1>0 DEF ReportsInTurn
  <2>2. ASSUME NEW g \in OnTask(t)', Exists(t)' PROVE patcher'[g].saw = task'[t]
    <3>1. g \in OnTask(t) /\ patcher'[g].saw = patcher[g].saw /\ patcher'[g] # IdlePatcher
      BY <1>1, <1>2, <1>5, <2>2 DEF OnTask
    <3>2. task'[t] = task[t]
      <4>1. patcher[h].pc # "idle" /\ patcher[h].task = t => g = h
        BY <2>1, <3>1 DEF OnTask
      <4> QED BY <1>0, <1>1, <3>1, <4>1 DEF TypeOK
    <3>3. Exists(t)
      BY <2>2, <3>2 DEF Exists
    <3> QED BY <2>1, <3>1, <3>2, <3>3
  <2> QED BY <1>5, <2>1, <2>2
<1>7. ReasonsFit'
  <2>1. CASE UNCHANGED task
    BY <1>0, <1>1, <2>1 DEF ReasonsFit
  <2>2. CASE /\ patcher[h].pc # "idle" /\ patcher[h].task \in Tasks
             /\ Exists(patcher[h].task)
             /\ task' = [task EXCEPT ![patcher[h].task] = Patched(h)]
    <3>1. /\ task'[patcher[h].task] = Patched(h)
          /\ \A t \in Tasks : t # patcher[h].task => task'[t] = task[t]
      BY <1>0, <2>2 DEF TypeOK
    <3>2. patcher[h].task \notin overlapped =>
            (Patched(h).reason # None <=> Patched(h).status = "BLOCKED")
      BY <1>0, <2>2, PatchesInTurn DEF Reasoned
    <3> QED BY <1>0, <1>1, <3>1, <3>2 DEF ReasonsFit
  <2> QED BY <1>1, <2>1, <2>2
<1> QED BY <1>3, <1>4, <1>6, <1>7 DEF Turns

LEMMA InTurnNext == InTurn /\ [Next]_vars => InTurn'
<1> SUFFICES ASSUME InTurn, [Next]_vars PROVE Turns' /\ AuditTellsHistory' /\ ReasonsFit'
  BY TypeNext DEF InTurn
<1>1. CASE UNCHANGED vars
  BY <1>1 DEF vars, InTurn, Turns, VerdictsInTurn, ReportsInTurn, Reasoned, OnFinding, OnTask,
              Exists, AuditTellsHistory, ReasonsFit
<1>2. ASSUME NEW h \in Verifiers, VerifierStep(h)
      PROVE  Turns' /\ AuditTellsHistory' /\ ReasonsFit'
  BY <1>2, TurnsVerdict, HistoryVerdict
<1> QED BY <1>1, <1>2, TurnsVerdictRead, TurnsReportRead, TurnsReport DEF Next

LEMMA TakenInTurn == Spec => []InTurn
BY InTurnInit, InTurnNext, PTL DEF Spec

\* The audit log of a gap no two requests ever shared tells its whole history:
\* verify_finding logs the status it loaded and the verdict it sets.
THEOREM AuditsTellHistory == Spec => []AuditTellsHistory
<1>1. InTurn => AuditTellsHistory
  BY DEF InTurn
<1> QED BY <1>1, TakenInTurn, PTL

\* On rows no two requests ever shared a reason stands only beside the rejection
\* or the blocked task it explains, however often either is corrected.
THEOREM ReasonsFitStates == Spec => []ReasonsFit
<1>1. InTurn => ReasonsFit
  BY DEF InTurn
<1> QED BY <1>1, TakenInTurn, PTL

\* The stamp of a task that has left OPEN moves only when the task is opened
\* again, on a task no two requests ever shared.
THEOREM FirstStampKept == Spec => FirstCompletionKept
<1> DEFINE Kept == \A t \in Tasks :
             Exists(t) /\ Exists(t)' /\ task[t].completed # 0 /\ task'[t].status # "OPEN"
               => task'[t].completed = task[t].completed \/ t \in overlapped
<1>1. ASSUME InTurn, [Next]_vars PROVE [Kept]_vars
  <2> SUFFICES ASSUME NEW t \in Tasks, Exists(t), Exists(t)', task[t].completed # 0,
                      task'[t].status # "OPEN", t \notin overlapped
               PROVE  task'[t].completed = task[t].completed
    OBVIOUS
  <2>0. TypeOK /\ t \in minted
    BY <1>1 DEF InTurn, TypeOK
  <2>1. CASE UNCHANGED vars
    BY <2>1 DEF vars
  <2>2. ASSUME NEW h \in Verifiers, VerifierStep(h)
        PROVE  task'[t].completed = task[t].completed
    BY <2>0, <2>2, VerdictWrites DEF Exists, NoTask
  <2>3. ASSUME NEW h \in Patchers, PatcherStep(h)
        PROVE  task'[t].completed = task[t].completed
    <3>1. CASE UNCHANGED task
      BY <3>1
    <3>2. CASE /\ patcher[h].pc # "idle" /\ patcher[h].task \in Tasks
               /\ Exists(patcher[h].task)
               /\ task' = [task EXCEPT ![patcher[h].task] = Patched(h)]
      <4>1. CASE patcher[h].task # t
        BY <2>0, <3>2, <4>1 DEF TypeOK
      <4>2. CASE patcher[h].task = t
        <5>1. task'[t] = Patched(h)
          BY <2>0, <3>2, <4>2 DEF TypeOK
        <5>2. /\ Patched(h).status = patcher[h].status
              /\ Patched(h).completed = Completion(h)
              /\ patcher[h].saw = task[t]
          BY <1>1, <3>2, <4>2, PatchesInTurn
        <5>3. Completion(h) = task[t].completed
          BY <5>1, <5>2 DEF Completion
        <5> QED BY <5>1, <5>2, <5>3
      <4> QED BY <4>1, <4>2
    <3> QED BY <2>0, <2>3, <3>1, <3>2, ReportsGoOn
  <2>4. CASE UNCHANGED task
    BY <2>4
  <2>5. ASSUME NEW h \in Verifiers, NEW f \in Findings, NEW v \in Verdicts,
               NEW r \in RejectReasons \cup {None}, VerifyRead(h, f, v, r)
        PROVE  UNCHANGED task
    BY <2>5 DEF VerifyRead, tables
  <2>6. ASSUME NEW h \in Patchers, NEW u \in minted, NEW s \in Reports,
               NEW r \in BlockedReasons \cup {None}, PatchRead(h, u, s, r)
        PROVE  UNCHANGED task
    BY <2>6 DEF PatchRead, tables
  <2> QED BY <1>1, <2>1, <2>2, <2>3, <2>4, <2>5, <2>6 DEF Next
<1>2. InTurn /\ [Next]_vars => [Kept]_vars
  BY <1>1
<1>3. Spec => [][Kept]_vars
  BY <1>2, TakenInTurn, PTL DEF Spec
<1> QED BY <1>3 DEF FirstCompletionKept

----------------------------------------------------------------------------
(* Requests that cross do what GapLedger allows one at a time. *)

\* The work of a gap without a task, and with one.
LEMMA WorkOf ==
  ASSUME NEW f \in Findings
  PROVE  /\ TasksOf(f) = {} => Work[f] = "NONE"
         /\ TasksOf(f)' = {} => Work'[f] = "NONE"
         /\ \A t : TasksOf(f) = {t} => Work[f] = task[t].status
         /\ \A t : TasksOf(f)' = {t} => Work'[f] = task'[t].status
BY DEF Work

\* A gap whose tasks, with their rows and requests, stay as they are keeps its
\* work and is asked for as before.
LEMMA SameWork ==
  ASSUME NEW f \in Findings, TasksOf(f)' = TasksOf(f),
         \A t \in TasksOf(f) : task'[t] = task[t] /\ asks'[t] = asks[t]
  PROVE  /\ Work'[f] = Work[f]
         /\ f \in Asked' <=> f \in Asked
<1>1. TasksOf(f) # {} => (CHOOSE t \in TasksOf(f) : TRUE) \in TasksOf(f)
  OBVIOUS
<1>2. Work'[f] = Work[f]
  BY <1>1 DEF Work
<1>3. f \in Asked' <=> f \in Asked
  BY DEF Asked
<1> QED BY <1>2, <1>3

\* The work of all gaps, from the work of each.
LEMMA WorkChanges ==
  /\ (\A e \in Findings : Work'[e] = Work[e]) => Work' = Work
  /\ \A f \in Findings : \A s :
       Work'[f] = s /\ (\A e \in Findings : e # f => Work'[e] = Work[e])
         => Work' = [Work EXCEPT ![f] = s]
<1> DEFINE was(e) == IF TasksOf(e) = {} THEN "NONE"
                     ELSE task[CHOOSE t \in TasksOf(e) : TRUE].status
           is(e) == IF TasksOf(e)' = {} THEN "NONE"
                    ELSE task'[CHOOSE t \in TasksOf(e)' : TRUE].status
<1>1. Work = [e \in Findings |-> was(e)]
  BY DEF Work
<1>2. Work' = [e \in Findings |-> is(e)]
  BY DEF Work
<1> HIDE DEF was, is
<1> QED BY <1>1, <1>2

LEMMA RefineInit == Init => Ledger!GapInit
<1> SUFFICES ASSUME Init PROVE Ledger!GapInit
  OBVIOUS
<1>1. \A f \in Findings : TasksOf(f) = {}
  BY NoneAssumption DEF Init, TasksOf, NoTask
<1>2. Verdict = [f \in Findings |-> "PENDING"]
  BY DEF Init, Verdict
<1>3. Work = [f \in Findings |-> "NONE"]
  BY <1>1 DEF Work
<1>4. Asked = {}
  BY <1>1 DEF Asked
<1> QED BY <1>2, <1>3, <1>4 DEF Ledger!GapInit

\* A confirmation is Confirm.
LEMMA RefineConfirm ==
  ASSUME Confirmed, Supplied, NEW h \in Verifiers, VerifyConfirm(h)
  PROVE  \E f \in Findings : Ledger!Confirm(f)
<1>0. TypeOK /\ TaskIffConfirmed /\ UNCHANGED asks /\ verifier[h].verdict = "CONFIRMED"
  BY DEF Confirmed, VerifyConfirm
<1>1. PICK f \in Findings, t \in Tasks \ minted :
        /\ f = verifier[h].finding
        /\ TasksOf(f) = {} /\ TasksOf(f)' = {t}
        /\ \A e \in Findings : e # f => TasksOf(e)' = TasksOf(e)
        /\ task'[t].status = "OPEN"
        /\ \A u \in Tasks : u # t => task'[u] = task[u]
  BY <1>0, ConfirmOpens
<1>2. /\ finding'[f].status = "CONFIRMED"
      /\ \A e \in Findings : e # f => finding'[e] = finding[e]
  BY <1>0, <1>1, Decides
<1>3. asks[t] = 0
  BY <1>0, <1>1 DEF Supplied, AskedStaysConfirmed, TypeOK
<1>4. \A e \in Findings : e # f => Work'[e] = Work[e] /\ (e \in Asked' <=> e \in Asked)
  <2> SUFFICES ASSUME NEW e \in Findings, e # f
               PROVE  Work'[e] = Work[e] /\ (e \in Asked' <=> e \in Asked)
    OBVIOUS
  <2>1. \A u \in TasksOf(e) : u \in Tasks /\ u # t
    BY <1>1 DEF TasksOf
  <2> QED BY <1>0, <1>1, <2>1, SameWork
<1>5. f \notin Asked /\ f \notin Asked'
  BY <1>0, <1>1, <1>3 DEF Asked
<1>6. Verdict[f] # "CONFIRMED"
  BY <1>0, <1>1 DEF TaskIffConfirmed, Verdict
<1>7. Verdict' = [Verdict EXCEPT ![f] = "CONFIRMED"]
  BY <1>2 DEF Verdict
<1>8. Work' = [Work EXCEPT ![f] = "OPEN"]
  <2>1. Work'[f] = "OPEN"
    BY <1>1, WorkOf
  <2> QED BY <1>4, <2>1, WorkChanges
<1>9. Asked' = Asked
  BY <1>4, <1>5 DEF Asked
<1> QED BY <1>6, <1>7, <1>8, <1>9 DEF Ledger!Confirm

\* A rejection is Reject.
LEMMA RefineReject ==
  ASSUME Confirmed, NEW h \in Verifiers, VerifyReject(h)
  PROVE  \E f \in Findings : Ledger!Reject(f)
<1>0. TypeOK /\ UNCHANGED asks /\ verifier[h].verdict = "REJECTED"
  BY DEF Confirmed, VerifyReject
<1>1. PICK f \in Findings :
        /\ f = verifier[h].finding
        /\ \A t \in TasksOf(f) : asks[t] = 0
        /\ TasksOf(f)' = {}
        /\ \A e \in Findings : e # f => TasksOf(e)' = TasksOf(e)
        /\ \A t \in Tasks \ TasksOf(f) : task'[t] = task[t]
  BY RejectCloses
<1>2. /\ finding'[f].status = "REJECTED"
      /\ \A e \in Findings : e # f => finding'[e] = finding[e]
  BY <1>0, <1>1, Decides
<1>3. \A e \in Findings : e # f => Work'[e] = Work[e] /\ (e \in Asked' <=> e \in Asked)
  <2> SUFFICES ASSUME NEW e \in Findings, e # f
               PROVE  Work'[e] = Work[e] /\ (e \in Asked' <=> e \in Asked)
    OBVIOUS
  <2>1. \A u \in TasksOf(e) : u \in Tasks \ TasksOf(f)
    BY DEF TasksOf
  <2> QED BY <1>0, <1>1, <2>1, SameWork
<1>4. f \notin Asked /\ f \notin Asked'
  BY <1>1 DEF Asked
<1>5. Verdict' = [Verdict EXCEPT ![f] = "REJECTED"]
  BY <1>2 DEF Verdict
<1>6. Work' = [Work EXCEPT ![f] = "NONE"]
  <2>1. Work'[f] = "NONE"
    BY <1>1, WorkOf
  <2> QED BY <1>3, <2>1, WorkChanges
<1>7. Asked' = Asked
  BY <1>3, <1>4 DEF Asked
<1> QED BY <1>4, <1>5, <1>6, <1>7 DEF Ledger!Reject

\* The commit of a report that writes is Report.
LEMMA RefineCommit ==
  ASSUME Confirmed, Supplied, Confirmed', NEW h \in Patchers, PatchCommit(h), Writes(h) \/ Asks(h)
  PROVE  \E f \in Findings, s \in {"OPEN", "FIXED", "BLOCKED"} : Ledger!Report(f, s)
<1>0. /\ TypeOK /\ TypeOK' /\ TaskIffConfirmed /\ UNCHANGED finding
  BY DEF Confirmed, PatchCommit
<1> PICK t \in Tasks : t = patcher[h].task /\ Exists(t)
  BY <1>0 DEF TypeOK, PatchCommit
<1> PICK f \in Findings : f = task[t].finding
  BY <1>0 DEF TypeOK
<1>1. /\ \A u \in Tasks : task'[u].finding = task[u].finding
      /\ \A u \in Tasks : u # t => task'[u] = task[u] /\ asks'[u] = asks[u]
      /\ asks'[t] = IF Asks(h) THEN asks[t] + 1 ELSE asks[t]
      /\ patcher[h].pc # "idle"
  BY <1>0, PatchTyped DEF PatchCommit, TypeOK
<1>2. \A e \in Findings : TasksOf(e)' = TasksOf(e)
  BY <1>1, SameTasks
<1>3. TasksOf(f) = {t} /\ finding[f].status = "CONFIRMED"
  <2>1. t \in TasksOf(f)
    BY DEF TasksOf
  <2> QED BY <1>0, <2>1 DEF TaskIffConfirmed
<1>4. PICK s \in {"OPEN", "FIXED", "BLOCKED"} : s = task'[t].status
  BY <1>0, <1>1 DEF TypeOK, TaskRow, Reports, Exists
<1>5. \A e \in Findings : e # f => Work'[e] = Work[e] /\ (e \in Asked' <=> e \in Asked)
  <2> SUFFICES ASSUME NEW e \in Findings, e # f
               PROVE  Work'[e] = Work[e] /\ (e \in Asked' <=> e \in Asked)
    OBVIOUS
  <2>1. \A u \in TasksOf(e) : u \in Tasks /\ u # t
    BY DEF TasksOf
  <2> QED BY <1>1, <1>2, <2>1, SameWork
<1>6. Verdict[f] = "CONFIRMED" /\ Verdict' = Verdict
  BY <1>0, <1>3 DEF Verdict
<1>7. Work' = [Work EXCEPT ![f] = s]
  <2>1. Work'[f] = s
    BY <1>2, <1>3, <1>4, WorkOf
  <2> QED BY <1>5, <2>1, WorkChanges
<1>8. Asked' \in {Asked, Asked \cup {f}}
  <2>1. CASE f \in Asked' <=> f \in Asked
    <3>1. Asked' = Asked
      BY <1>5, <2>1 DEF Asked
    <3> QED BY <3>1
  <2>2. CASE f \in Asked' /\ f \notin Asked
    <3>1. Asked' = Asked \cup {f}
      BY <1>5, <2>2 DEF Asked
    <3> QED BY <3>1
  <2>3. CASE f \notin Asked' /\ f \in Asked
    <3>1. asks[t] > 0 /\ asks \in [Tasks -> Nat]
      BY <1>0, <1>3, <2>3 DEF Asked, TypeOK
    <3>2. asks'[t] > 0
      BY <1>1, <3>1
    <3>3. t \in TasksOf(f)'
      BY <1>2, <1>3
    <3> QED BY <2>3, <3>2, <3>3 DEF Asked
  <2> QED BY <2>1, <2>2, <2>3
<1> QED BY <1>6, <1>7, <1>8 DEF Ledger!Report

\* Every other step is a stutter: nothing is committed.
LEMMA RefineNext ==
  Confirmed /\ Supplied /\ [Next]_vars => [Ledger!GapNext]_<<Verdict, Work, Asked>>
<1> SUFFICES ASSUME Confirmed, Supplied, [Next]_vars
             PROVE  [Ledger!GapNext]_<<Verdict, Work, Asked>>
  OBVIOUS
<1>0. Confirmed'
  BY ConfirmedNext
<1>1. CASE UNCHANGED <<finding, task, asks>>
  <2>1. \A f \in Findings : Work'[f] = Work[f] /\ (f \in Asked' <=> f \in Asked)
    <3> SUFFICES ASSUME NEW f \in Findings
                 PROVE  Work'[f] = Work[f] /\ (f \in Asked' <=> f \in Asked)
      OBVIOUS
    <3>1. TasksOf(f)' = TasksOf(f)
      BY <1>1 DEF TasksOf
    <3> QED BY <1>1, <3>1, SameWork
  <2>2. Work' = Work
    BY <2>1, WorkChanges
  <2>3. Asked' = Asked
    BY <2>1 DEF Asked
  <2>4. Verdict' = Verdict
    BY <1>1 DEF Verdict
  <2> QED BY <2>2, <2>3, <2>4
<1>2. CASE UNCHANGED vars
  BY <1>1, <1>2 DEF vars
<1>3. ASSUME NEW h \in Verifiers, NEW f \in Findings, NEW v \in Verdicts,
             NEW r \in RejectReasons \cup {None}, VerifyRead(h, f, v, r)
      PROVE  [Ledger!GapNext]_<<Verdict, Work, Asked>>
  BY <1>1, <1>3 DEF VerifyRead, tables
<1>4. ASSUME NEW h \in Verifiers, VerifierStep(h)
      PROVE  [Ledger!GapNext]_<<Verdict, Work, Asked>>
  <2>1. CASE VerifyUpdate(h) \/ VerifyFails(h)
    BY <1>1, <2>1 DEF VerifyUpdate, VerifyFails, tables
  <2>2. CASE VerifyConfirm(h)
    BY <2>2, RefineConfirm DEF Ledger!GapNext
  <2>3. CASE VerifyReject(h)
    BY <2>3, RefineReject DEF Ledger!GapNext
  <2> QED BY <1>4, <2>1, <2>2, <2>3 DEF VerifierStep
<1>5. ASSUME NEW h \in Patchers, NEW t \in minted, NEW s \in Reports,
             NEW r \in BlockedReasons \cup {None}, PatchRead(h, t, s, r)
      PROVE  [Ledger!GapNext]_<<Verdict, Work, Asked>>
  BY <1>1, <1>5 DEF PatchRead, tables
<1>6. ASSUME NEW h \in Patchers, PatcherStep(h)
      PROVE  [Ledger!GapNext]_<<Verdict, Work, Asked>>
  <2>1. CASE PatchUpdate(h) \/ PatchFails(h)
    BY <1>1, <2>1 DEF PatchUpdate, PatchFails, tables
  <2>2. CASE PatchCommit(h) /\ ~ (Writes(h) \/ Asks(h))
    BY <1>1, <2>2 DEF PatchCommit
  <2>3. CASE PatchCommit(h) /\ (Writes(h) \/ Asks(h))
    BY <1>0, <2>3, RefineCommit DEF Ledger!GapNext
  <2> QED BY <1>6, <2>1, <2>2, <2>3 DEF PatcherStep
<1> QED BY <1>2, <1>3, <1>4, <1>5, <1>6 DEF Next

\* Verdicts and reports that cross change the gaps as GapLedger's do, which
\* come one at a time.
THEOREM GapLedgerImplemented == Spec => ImplementsGapLedger
<1>1. Spec => Ledger!GapInit /\ [][Ledger!GapNext]_<<Verdict, Work, Asked>>
  BY Safe, RefineInit, RefineNext, PTL DEF Spec
<1> QED BY <1>1 DEF ImplementsGapLedger, Ledger!GapSpec, Ledger!gaps

=============================================================================
