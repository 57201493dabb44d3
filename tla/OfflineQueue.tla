---------------------------- MODULE OfflineQueue ----------------------------
(***************************************************************************)
(* The offline queue of the phone: the rep's decisions, photographs and    *)
(* check-outs, sent to the server at once when there is signal and kept in *)
(* IndexedDB when there is not, and the drain that sends what was kept.    *)
(*                                                                         *)
(* The browser runs one thread, and every await lets another handler in:   *)
(* a step of the model is the code between two awaits.  An IndexedDB call  *)
(* is one transaction; `update' is two of them, a get and a put, and what  *)
(* the put writes is the copy the get made.                                *)
(*                                                                         *)
(* A tap of the rep is numbered by its place in ops.  The subject of a tap *)
(* is the gap, the task, the photograph or the visit it is about.          *)
(***************************************************************************)
EXTENDS Naturals, Sequences, FiniteSets

CONSTANTS
  Gaps,       \* subjects of VERIFY operations
  Chores,     \* subjects of TASK operations
  Photos,     \* subjects of CAPTURE operations
  Closings,   \* subjects of CHECKOUT operations
  MaxTaps,    \* bound on what the rep decides, photographs and closes
  MaxPresses, \* bound on what she does on the sync page
  MaxFaults,  \* bound on what fails while online: requests, answers, the storage
  MaxOutages  \* bound on how often the signal is lost

Subjects == Gaps \cup Chores \cup Photos \cup Closings

ASSUME SubjectAssumption ==
  /\ IsFiniteSet(Subjects)
  /\ Gaps \cap (Chores \cup Photos \cup Closings) = {}
  /\ Chores \cap (Photos \cup Closings) = {}
  /\ Photos \cap Closings = {}
ASSUME BoundAssumption == {MaxTaps, MaxPresses, MaxFaults, MaxOutages} \subseteq Nat

VARIABLES
  ops,        \* what the rep asked for, and how far each request got
  shown,      \* the tap whose outcome the screens show of a subject, 0 for none
  queue,      \* the rows of the IndexedDB store
  clock,      \* how many rows were stored: queuedAt
  sender,     \* the drain, the retry of one row, and the sync page's tidying
  online,     \* navigator.onLine, and whether requests arrive
  woken,      \* the effect of QueueDrainer is due
  storage,    \* IndexedDB works
  applied,    \* taps the server has carried out
  inForce,    \* the last tap it carried out about each subject, 0 for none
  minted,     \* capture rows the queue's replays have presigned
  presses, faults, outages,
  shared,     \* subjects two handlers of the phone worked on at once
  mislaid,    \* subjects with a row that a newer verdict went past, or fell to one refused
  storedOver, \* taps not carried out when a later one of their subject was stored
  lostGrants  \* presigns no row holds: the answer was lost, or the row put anew

phone == <<ops, shown, queue, clock, sender, online, woken, storage>>
books == <<applied, inForce, minted>>
notes == <<presses, faults, outages, storedOver, lostGrants, shared, mislaid>>
vars == <<phone, books, notes>>

Decisions(s) == IF s \in Gaps THEN {"CONFIRMED", "REJECTED"}
                ELSE IF s \in Chores THEN {"FIXED", "BLOCKED"} ELSE {"SEND"}
Ids == UNION {{s} \X Decisions(s) : s \in Subjects}
Senders == {"drain", "retry", "page"}

Stages == {"sent", "served", "listing", "removing", "storing", "over"}
Statuses == {"PENDING", "UPLOADING", "FAILED", "DONE"}
RowPhases == {"mark", "marking", "presign", "keep", "keeping", "send", "stalled",
              "settle", "settling"}
Phases == RowPhases \cup {"idle", "ack", "unanswered", "purge", "purging"}
Idle == [pc |-> "idle", todo |-> {}, copy |-> {}, ok |-> FALSE, grant |-> 0,
         trash |-> {}]

Row == [id : Ids, n : 1 .. MaxTaps, at : 1 .. MaxTaps, status : Statuses,
        grant : Nat, image : BOOLEAN]
Op == [s : Subjects, d : UNION {Decisions(s) : s \in Subjects}, prev : 0 .. MaxTaps,
       stage : Stages, victims : SUBSET Ids]
Work == [pc : Phases, todo : SUBSET Row, copy : SUBSET Row, ok : BOOLEAN, grant : Nat,
         trash : SUBSET Ids]

Init == /\ ops = <<>>
        /\ shown = [s \in Subjects |-> 0]
        /\ queue = {}
        /\ clock = 0
        /\ sender = [k \in Senders |-> Idle]
        /\ online = TRUE
        /\ woken = TRUE
        /\ storage = TRUE
        /\ applied = {}
        /\ inForce = [s \in Subjects |-> 0]
        /\ minted = [p \in Photos |-> 0]
        /\ presses = 0
        /\ faults = 0
        /\ outages = 0
        /\ shared = {}
        /\ mislaid = {}
        /\ storedOver = {}
        /\ lostGrants = [p \in Photos |-> 0]

-----------------------------------------------------------------------------
(* What the steps below are made of.                                        *)

Outstanding == {n \in DOMAIN ops : ops[n].stage # "over"}
CallsOn(s) == {n \in Outstanding : ops[n].s = s}
Unsent == {x \in queue : x.status # "DONE"}
RowsOf(id) == {x \in queue : x.id = id}

\* The handlers that are working on a subject: its requests, and the senders
\* that have it on their list.
Handlers(s) ==
  {<<"call", n>> : n \in CallsOn(s)}
    \cup {<<k, 0>> : k \in {j \in Senders :
            \/ \E x \in sender[j].todo : x.id[1] = s
            \/ \E id \in sender[j].trash : id[1] = s}}

\* A handler begins to work on subjects: those that have a handler are shared.
Join(subjects) == shared' = shared \cup {s \in subjects : Handlers(s) # {}}

\* Mutant: add instead of put.
PutBeside(row) == queue \cup {row}

\* One transaction that writes a row: put replaces the row of the same id.
Put(row) == (queue \ RowsOf(row.id)) \cup {row}

\* The server carries out a tap.  What it has about a subject is what it was told
\* last: a verdict or a report that comes again, or late, replaces a newer one.
Apply(n) == /\ applied' = applied \cup {n}
            /\ inForce' = [inForce EXCEPT ![ops[n].s] = n]

Stage(n, stage) == ops' = [ops EXCEPT ![n].stage = stage]
Show(n) == shown' = [shown EXCEPT ![ops[n].s] = n]

-----------------------------------------------------------------------------
(* The rep's taps, and the requests they send.                              *)

\* A verdict button works at any time, and again, and so does the screen that
\* sends a photograph, on every visit to it.  A task can be reported while its row
\* is OPEN, a check-out asked for whenever none is under way.
CanTap(s) == \/ s \in Gaps \cup Photos
             \/ s \in Chores /\ shown[s] = 0
             \/ s \in Closings /\ CallsOn(s) = {}

\* The verdict is on screen before its request is sent.
Tap(s, d) ==
  /\ Len(ops) < MaxTaps
  /\ CanTap(s)
  /\ ops' = Append(ops, [s |-> s, d |-> d, prev |-> shown[s], stage |-> "sent", victims |-> {}])
  /\ shown' = IF s \in Gaps THEN [shown EXCEPT ![s] = Len(ops) + 1] ELSE shown
  /\ Join({s})
  /\ UNCHANGED <<queue, clock, sender, online, woken, storage, books, faults, outages,
                 storedOver, mislaid, lostGrants, presses>>

\* The request reaches the server.
Serve(n) ==
  /\ online /\ ops[n].stage = "sent"
  /\ Apply(n)
  /\ Stage(n, "served")
  /\ UNCHANGED <<shown, queue, clock, sender, online, woken, storage, minted, notes>>

\* Its answer arrives.  The queue is not asked whether it still holds another
\* decision about the subject.
Answer(n) ==
  /\ online /\ ops[n].stage = "served"
  /\ Stage(n, "over")
  /\ shown' = IF ops[n].s \in Gaps THEN shown ELSE [shown EXCEPT ![ops[n].s] = n]
  /\ mislaid' = IF \E x \in Unsent : x.id[1] = ops[n].s /\ x.id[2] # ops[n].d
                THEN mislaid \cup {ops[n].s} ELSE mislaid
  /\ UNCHANGED <<queue, clock, sender, online, woken, storage, books, faults, outages,
                 storedOver, lostGrants, shared, presses>>

\* Mutant: the failure is only logged.
NoRollBack(n) == UNCHANGED shown

\* A failed verdict puts back the row that was there when it was tapped.
RollBack(n) == shown' = IF ops[n].s \in Gaps THEN [shown EXCEPT ![ops[n].s] = ops[n].prev]
                        ELSE shown

\* The server answers with an error: nothing is queued.
Refuse(n) ==
  /\ online /\ faults < MaxFaults /\ ops[n].stage = "sent"
  /\ faults' = faults + 1
  /\ Stage(n, "over")
  /\ RollBack(n)
  /\ UNCHANGED <<queue, clock, sender, online, woken, storage, books, outages, storedOver,
                 mislaid, lostGrants, shared, presses>>

\* OFFLINE or TIMEOUT: the request never arrived, or its answer did not.  A
\* decision first drops what its subject has queued; a photograph and a
\* check-out have one row each, which is put under its id.
Lose(n) ==
  /\ ops[n].stage \in {"sent", "served"}
  /\ ~online \/ faults < MaxFaults
  /\ faults' = IF online THEN faults + 1 ELSE faults
  /\ Stage(n, IF ops[n].s \in Gaps \cup Chores THEN "listing" ELSE "storing")
  /\ UNCHANGED <<shown, queue, clock, sender, online, woken, storage, books, outages,
                 storedOver, mislaid, lostGrants, shared, presses>>

\* Mutant: only rows still waiting are superseded, not those that failed.
ListOlderPending(n) ==
  /\ storage /\ ops[n].stage = "listing"
  /\ LET older == {x.id : x \in {y \in Unsent : y.id[1] = ops[n].s /\ y.status = "PENDING"}} IN
     ops' = [ops EXCEPT ![n].stage = IF older = {} THEN "storing" ELSE "removing",
                        ![n].victims = older]
  /\ UNCHANGED <<shown, queue, clock, sender, online, woken, storage, books, notes>>

\* removeByPrefix: the list in one transaction, then one per row to remove.
ListOlder(n) ==
  /\ storage /\ ops[n].stage = "listing"
  /\ LET older == {x.id : x \in {y \in Unsent : y.id[1] = ops[n].s}} IN
     ops' = [ops EXCEPT ![n].stage = IF older = {} THEN "storing" ELSE "removing",
                        ![n].victims = older]
  /\ UNCHANGED <<shown, queue, clock, sender, online, woken, storage, books, notes>>

RemoveOlder(n) ==
  /\ storage /\ ops[n].stage = "removing"
  /\ \E id \in ops[n].victims :
       /\ queue' = queue \ RowsOf(id)
       /\ ops' = [ops EXCEPT ![n].victims = @ \ {id},
                             ![n].stage = IF ops[n].victims = {id} THEN "storing" ELSE @]
  /\ UNCHANGED <<shown, clock, sender, online, woken, storage, books, notes>>

\* The row is stored under the operation's id, over the row of that id if there
\* is one and without what that one had been granted, and the screen says the work
\* is kept.
Store(n) ==
  /\ storage /\ ops[n].stage = "storing"
  /\ clock' = clock + 1
  /\ queue' = Put([id |-> <<ops[n].s, ops[n].d>>, n |-> n, at |-> clock + 1,
                   status |-> "PENDING", grant |-> 0, image |-> ops[n].s \in Photos])
  /\ Stage(n, "over")
  /\ Show(n)
  /\ storedOver' = storedOver \cup
       {m \in (1 .. n - 1) \ applied : ops[m].s = ops[n].s /\ ops[m].stage = "over"}
  /\ lostGrants' = [p \in Photos |-> IF p = ops[n].s THEN minted[p] ELSE lostGrants[p]]
  /\ UNCHANGED <<sender, online, woken, storage, books, faults, outages, mislaid, shared,
                 presses>>

\* IndexedDB is gone.  tryEnqueue says so, and a verdict is rolled back; the
\* listing throws, and the handler ends there, what the screen shows untouched.
StoreFails(n) ==
  /\ ~storage /\ ops[n].stage \in {"listing", "removing", "storing"}
  /\ Stage(n, "over")
  /\ IF ops[n].stage = "storing" THEN RollBack(n) ELSE UNCHANGED shown
  /\ UNCHANGED <<queue, clock, sender, online, woken, storage, books, notes>>

\* IndexedDB works but refuses this row (its quota, an aborted transaction): the
\* same `false', when a verdict has dropped the older rows already.
PutRefused(n) ==
  /\ storage /\ faults < MaxFaults /\ ops[n].stage = "storing"
  /\ faults' = faults + 1
  /\ Stage(n, "over")
  /\ RollBack(n)
  /\ mislaid' = mislaid \cup ({ops[n].s} \cap Gaps)
  /\ UNCHANGED <<queue, clock, sender, online, woken, storage, books, outages, storedOver,
                 lostGrants, shared, presses>>

CallStep(n) == \/ Serve(n) \/ Answer(n) \/ Refuse(n) \/ Lose(n)
               \/ ListOlder(n) \/ RemoveOlder(n) \/ Store(n) \/ StoreFails(n) \/ PutRefused(n)

-----------------------------------------------------------------------------
(* The senders.                                                             *)

Oldest(todo) == CHOOSE x \in todo : \A y \in todo : x.at <= y.at
Current(k) == Oldest(sender[k].todo)
CurrentIsPhoto(k) == Current(k).id[1] \in Photos

Start(k, rows) == /\ sender' = [sender EXCEPT ![k] = [Idle EXCEPT !.pc = "mark", !.todo = rows]]
                  /\ Join({x.id[1] : x \in rows})
Go(k, pc) == sender' = [sender EXCEPT ![k].pc = pc]
At(k, pc) == sender[k].pc = pc

\* QueueDrainer and the sync page drain when the connection returns, if there is
\* anything to send and no drain is under way.
AutoDrain ==
  /\ woken
  /\ woken' = FALSE
  /\ IF At("drain", "idle") /\ storage /\ Unsent # {}
     THEN Start("drain", Unsent)
     ELSE UNCHANGED <<sender, shared>>
  /\ UNCHANGED <<ops, shown, queue, clock, online, storage, books, faults, outages,
                 storedOver, mislaid, lostGrants, presses>>

Press == presses < MaxPresses /\ presses' = presses + 1

\* "Send all" on the sync page: a drain under way is joined.
SendAll ==
  /\ Press
  /\ online /\ storage /\ At("drain", "idle")
  /\ \E x \in queue : x.status \in {"PENDING", "FAILED"}
  /\ Start("drain", Unsent)
  /\ UNCHANGED <<ops, shown, queue, clock, online, woken, storage, books, faults, outages,
                 storedOver, mislaid, lostGrants>>

\* "Try again" beside a failed row: its own list, outside the single flight.
RetryRow(x) ==
  /\ Press
  /\ storage /\ At("retry", "idle") /\ x.status = "FAILED"
  /\ Start("retry", {x})
  /\ UNCHANGED <<ops, shown, queue, clock, online, woken, storage, books, faults, outages,
                 storedOver, mislaid, lostGrants>>

\* update, first half: the row as it is now, if it still is.
Read(k, from, to) ==
  /\ storage /\ At(k, from)
  /\ sender' = [sender EXCEPT ![k].pc = to, ![k].copy = RowsOf(Current(k).id)]
  /\ UNCHANGED <<ops, shown, queue, clock, online, woken, storage, books, notes>>

\* update, second half: the copy is written back with the patch; a row that was
\* not there stays away.
Write(k, patched) ==
  queue' = {x \in queue : \A y \in sender[k].copy : x.id # y.id} \cup patched

MarkRow(k) == Read(k, "mark", "marking")

\* replay begins: a photograph whose bytes were dropped cannot be sent, one that
\* holds a grant keeps it, one that does not asks for one.
Marked(k) ==
  /\ storage /\ At(k, "marking")
  /\ Write(k, {[y EXCEPT !.status = "UPLOADING"] : y \in sender[k].copy})
  /\ LET x == Current(k) IN
     sender' = [sender EXCEPT
       ![k].pc = IF ~CurrentIsPhoto(k) THEN "send"
                 ELSE IF ~x.image THEN "settle"
                 ELSE IF x.grant = 0 THEN "presign" ELSE "keep",
       ![k].copy = {}, ![k].ok = FALSE, ![k].grant = x.grant]
  /\ UNCHANGED <<ops, shown, clock, online, woken, storage, books, notes>>

Presign(k) ==
  /\ online /\ At(k, "presign")
  /\ LET p == Current(k).id[1] IN
     /\ minted' = [minted EXCEPT ![p] = @ + 1]
     /\ sender' = [sender EXCEPT ![k].pc = "keep", ![k].grant = minted[p] + 1]
  /\ UNCHANGED <<ops, shown, queue, clock, online, woken, storage, applied, inForce,
                 notes>>

\* The row is minted and its answer lost.
PresignLost(k) ==
  /\ online /\ faults < MaxFaults /\ At(k, "presign")
  /\ faults' = faults + 1
  /\ LET p == Current(k).id[1] IN
     /\ minted' = [minted EXCEPT ![p] = @ + 1]
     /\ lostGrants' = [lostGrants EXCEPT ![p] = @ + 1]
  /\ Go(k, "settle")
  /\ UNCHANGED <<ops, shown, queue, clock, online, woken, storage, applied, inForce,
                 outages, storedOver, mislaid, shared, presses>>

\* Mutant: the grant stays in memory.
KeptNowhere(k) ==
  /\ storage /\ At(k, "keeping")
  /\ Go(k, "send")
  /\ UNCHANGED <<ops, shown, queue, clock, online, woken, storage, books, notes>>

\* The grant is remembered before the bytes are sent.
KeepGrant(k) == Read(k, "keep", "keeping")
Kept(k) ==
  /\ storage /\ At(k, "keeping")
  /\ Write(k, {[y EXCEPT !.grant = sender[k].grant] : y \in sender[k].copy})
  /\ Go(k, "send")
  /\ UNCHANGED <<ops, shown, clock, online, woken, storage, books, notes>>

\* Upload and commit, verdict, report or check-out.
Send(k) ==
  /\ online /\ At(k, "send")
  /\ Apply(Current(k).n)
  /\ sender' = [sender EXCEPT ![k].pc = "settle", ![k].ok = TRUE]
  /\ UNCHANGED <<ops, shown, queue, clock, online, woken, storage, minted, notes>>

\* Mutant: the failure is taken for a success.
SendFailsQuietly(k) ==
  /\ At(k, "presign") \/ At(k, "send")
  /\ ~online
  /\ sender' = [sender EXCEPT ![k].pc = "settle", ![k].ok = TRUE]
  /\ UNCHANGED <<ops, shown, queue, clock, online, woken, storage, books, notes>>

\* The request fails: offline, refused (an upload URL that has expired), or done
\* and its answer lost.
SendFails(k) ==
  /\ At(k, "presign") \/ At(k, "send")
  /\ ~online \/ faults < MaxFaults
  /\ faults' = IF online THEN faults + 1 ELSE faults
  /\ Go(k, "settle")
  /\ \/ UNCHANGED <<applied, inForce>>
     \/ online /\ At(k, "send") /\ Apply(Current(k).n)
  /\ UNCHANGED <<ops, shown, queue, clock, online, woken, storage, minted, outages,
                 storedOver, mislaid, lostGrants, shared, presses>>

\* Nothing ends the request.  The PUT of a photograph has no timeout, and that of
\* every other request is cleared when its headers arrive, before its body is read:
\* the sender waits for as long as the tab lives.
Stalls(k) ==
  /\ online /\ faults < MaxFaults
  /\ faults' = faults + 1
  /\ \/ /\ At(k, "presign")
        /\ LET p == Current(k).id[1] IN
           /\ minted' = [minted EXCEPT ![p] = @ + 1]
           /\ lostGrants' = [lostGrants EXCEPT ![p] = @ + 1]
        /\ Go(k, "stalled")
        /\ UNCHANGED <<applied, inForce>>
     \/ /\ At(k, "send")
        /\ \/ Apply(Current(k).n)
           \/ CurrentIsPhoto(k) /\ UNCHANGED <<applied, inForce>>
        /\ Go(k, "stalled")
        /\ UNCHANGED <<minted, lostGrants>>
     \/ /\ At(k, "ack")
        /\ Go(k, "unanswered")
        /\ UNCHANGED <<books, lostGrants>>
  /\ UNCHANGED <<ops, shown, queue, clock, online, woken, storage, outages,
                 storedOver, mislaid, shared, presses>>

SettleRow(k) == Read(k, "settle", "settling")

\* DONE or FAILED, and on to the next row.  A retry that failed stops here.
Settled(k) ==
  /\ storage /\ At(k, "settling")
  /\ LET x == Current(k)
         rest == sender[k].todo \ {x}
         ok == sender[k].ok IN
     /\ Write(k, {[y EXCEPT !.status = IF ok THEN "DONE" ELSE "FAILED"] : y \in sender[k].copy})
     /\ sender' = [sender EXCEPT
          ![k].pc = IF rest # {} THEN "mark" ELSE IF k = "retry" /\ ~ok THEN "idle" ELSE "ack",
          ![k].todo = rest, ![k].copy = {},
          ![k].ok = FALSE, ![k].grant = 0]
  /\ UNCHANGED <<ops, shown, clock, online, woken, storage, books, notes>>

\* The batch acknowledgement is best effort: it changes nothing on the phone.
Acknowledge(k) ==
  /\ At(k, "ack")
  /\ Go(k, "purge")
  /\ UNCHANGED <<ops, shown, queue, clock, online, woken, storage, books, notes>>

\* The sync page tidies the queue when it opens, before it shows the rows.
OpenSyncPage ==
  /\ Press
  /\ storage /\ At("page", "idle") /\ queue # {}
  /\ Go("page", "purge")
  /\ UNCHANGED <<ops, shown, queue, clock, online, woken, storage, books, faults, outages,
                 storedOver, mislaid, lostGrants, shared>>

\* Mutant: a row whose replay is over is purged, also when it failed.
ListOver(k) ==
  /\ storage /\ At(k, "purge")
  /\ \E old \in SUBSET {x \in queue : x.status \in {"DONE", "FAILED"}} :
       /\ sender' = [sender EXCEPT ![k] = IF old = {} THEN Idle
                       ELSE [Idle EXCEPT !.pc = "purging", !.trash = {x.id : x \in old}]]
       /\ Join({x.id[1] : x \in old})
  /\ UNCHANGED <<ops, shown, queue, clock, online, woken, storage, books, faults, outages,
                 storedOver, mislaid, lostGrants, presses>>

\* purgeCompleted: of the rows that are DONE now, those sent long enough ago are
\* removed one by one, the others lose their image.
ListDone(k) ==
  /\ storage /\ At(k, "purge")
  /\ \E old \in SUBSET {x \in queue : x.status = "DONE"} :
       /\ queue' = {[x EXCEPT !.image = IF x.status = "DONE" /\ x \notin old THEN FALSE ELSE @] :
                      x \in queue}
       /\ sender' = [sender EXCEPT ![k] = IF old = {} THEN Idle
                       ELSE [Idle EXCEPT !.pc = "purging", !.trash = {x.id : x \in old}]]
       /\ Join({x.id[1] : x \in old})
  /\ UNCHANGED <<ops, shown, clock, online, woken, storage, books, faults, outages, storedOver,
                 mislaid, lostGrants, presses>>

RemoveDone(k) ==
  /\ storage /\ At(k, "purging")
  /\ \E id \in sender[k].trash :
       /\ queue' = queue \ RowsOf(id)
       /\ sender' = [sender EXCEPT ![k] = IF sender[k].trash = {id} THEN Idle
                       ELSE [sender[k] EXCEPT !.trash = @ \ {id}]]
  /\ UNCHANGED <<ops, shown, clock, online, woken, storage, books, notes>>

\* Mutant: the status update that follows a failure is not guarded.
SenderHangs(k) ==
  /\ ~storage
  /\ sender[k].pc \in {"mark", "marking", "keep", "keeping", "purge", "purging"}
  /\ sender' = [sender EXCEPT ![k] = Idle]
  /\ UNCHANGED <<ops, shown, queue, clock, online, woken, storage, books, notes>>

\* Without IndexedDB the next queue call of a sender throws, and ends it.
SenderDies(k) ==
  /\ ~storage
  /\ sender[k].pc \in {"mark", "marking", "keep", "keeping", "settle", "settling", "purge",
                      "purging"}
  /\ sender' = [sender EXCEPT ![k] = Idle]
  /\ UNCHANGED <<ops, shown, queue, clock, online, woken, storage, books, notes>>

SenderStep(k) == \/ MarkRow(k) \/ Marked(k)
                 \/ Presign(k) \/ PresignLost(k) \/ KeepGrant(k) \/ Kept(k)
                 \/ Send(k) \/ SendFails(k) \/ Stalls(k)
                 \/ SettleRow(k) \/ Settled(k)
                 \/ Acknowledge(k) \/ ListDone(k) \/ RemoveDone(k) \/ SenderDies(k)

-----------------------------------------------------------------------------
(* The shop: concrete walls, and a browser that may take its storage back.  *)

SignalLost == /\ online /\ outages < MaxOutages
              /\ online' = FALSE
              /\ woken' = FALSE
              /\ outages' = outages + 1
              /\ UNCHANGED <<ops, shown, queue, clock, sender, storage, books, faults,
                             storedOver, mislaid, lostGrants, shared, presses>>

\* A drain that QueueDrainer started and that still runs is not started again.
SignalBack == /\ ~online
              /\ online' = TRUE
              /\ woken' = At("drain", "idle")
              /\ UNCHANGED <<ops, shown, queue, clock, sender, storage, books, notes>>

StorageGone == /\ storage /\ faults < MaxFaults
               /\ storage' = FALSE
               /\ faults' = faults + 1
               /\ UNCHANGED <<ops, shown, queue, clock, sender, online, woken, books, outages,
                              storedOver, mislaid, lostGrants, shared, presses>>

Next == \/ \E s \in Subjects, d \in UNION {Decisions(x) : x \in Subjects} :
             d \in Decisions(s) /\ Tap(s, d)
        \/ \E n \in DOMAIN ops : CallStep(n)
        \/ \E k \in Senders : SenderStep(k)
        \/ AutoDrain \/ SendAll \/ OpenSyncPage
        \/ \E x \in queue : RetryRow(x)
        \/ SignalLost \/ SignalBack \/ StorageGone

(***************************************************************************)
(* The browser runs the continuation of a settled promise, and ends a      *)
(* request by an answer, an error or the abort after 15 seconds, unless it *)
(* is one that Stalls: a stalled sender has no step.                       *)
(***************************************************************************)
Fairness == WF_vars(SenderStep("drain"))

Spec == Init /\ [][Next]_vars /\ Fairness

-----------------------------------------------------------------------------
(* Properties.                                                              *)

TypeOK ==
  /\ ops \in Seq(Op) /\ Len(ops) <= MaxTaps
  /\ shown \in [Subjects -> 0 .. MaxTaps]
  /\ queue \subseteq Row
  /\ \A x, y \in queue : x.id = y.id => x = y
  /\ clock \in 0 .. MaxTaps
  /\ sender \in [Senders -> Work]
  /\ online \in BOOLEAN /\ woken \in BOOLEAN /\ storage \in BOOLEAN
  /\ applied \subseteq DOMAIN ops /\ storedOver \subseteq DOMAIN ops
  /\ inForce \in [Subjects -> 0 .. MaxTaps]
  /\ minted \in [Photos -> Nat] /\ lostGrants \in [Photos -> Nat]
  /\ presses \in 0 .. MaxPresses /\ faults \in 0 .. MaxFaults /\ outages \in 0 .. MaxOutages
  /\ shared \subseteq Subjects /\ mislaid \subseteq Subjects

\* What the server has about the subject of tap n is what n asked for.
InForce(n) == LET s == ops[n].s IN inForce[s] # 0 /\ ops[inForce[s]].d = ops[n].d

\* What a screen shows of a subject is not lost: it is what the server was told
\* last, or its request is under way, or a row that will be sent holds it.
ShownIsKeptOf(s) ==
  shown[s] # 0 => \/ InForce(shown[s])
                  \/ shown[s] \in Outstanding
                  \/ \E x \in Unsent : x.n = shown[s]

\* A rep who reads "kept" walks out of the shop (queue.ts, tryEnqueue; the
\* rollback in store.ts).  Four things can break it, and nothing else: two handlers
\* of the phone at work on one subject at once, a decision that went past the row
\* of an older one, a row that was refused, and a browser that takes IndexedDB away.
ShownIsKept == storage => \A s \in Subjects \ (shared \cup mislaid) : ShownIsKeptOf(s)

\* A decision is not replayed after a newer one that was stored over it: the
\* older row is gone whatever became of it before (queue.ts, removeByPrefix).  Of
\* corrections that were not stored, StaleVerdictNeverSent speaks.
StoredOverNeverSent ==
  [][\A n \in storedOver :
       ops[n].s \notin shared' => (n \in applied' => n \in applied)]_vars

\* "must not have the stale CONFIRM replayed afterwards" (queue.ts,
\* removeByPrefix): a row is not sent once a newer verdict on its gap has been
\* answered, also when no two handlers were ever at work on the gap at once.
StaleVerdictNeverSent ==
  [][\A k \in Senders : \A n \in DOMAIN ops \ Outstanding :
       Send(k) /\ ops[n].s \in Gaps \ shared /\ Current(k).id[1] = ops[n].s
         => ~(n \in applied /\ Current(k).n < n)]_vars

\* The same words: a row that a newer verdict on its gap has taken out of the queue
\* is not sent any more, while that verdict waits to be stored.
RetractedNeverSent ==
  [][\A k \in Senders : \A n \in Outstanding :
       Send(k) /\ Current(k).n < n /\ Current(k).id[1] = ops[n].s /\ ops[n].s \in Gaps
         => ~(ops[n].stage = "storing" /\ RowsOf(Current(k).id) = {})]_vars

\* "a failure rolls the row back rather than leaving a lie on screen"
\* (store.ts, verify): the verdict that a refused row brings back is kept, as far as
\* one handler at a time was at work on the gap.
RollBackTellsTruth ==
  [][\A n \in Outstanding :
       PutRefused(n) /\ ops[n].s \notin shared => ShownIsKeptOf(ops[n].s)']_vars

\* A row the sync page lists as sent was carried out.
DoneMeansServed ==
  \A x \in queue : x.status = "DONE" /\ x.id[1] \notin shared => x.n \in applied

\* A row that was not sent leaves the queue only to make room for a newer
\* decision about the same thing: neither the purge nor a write-back of an old
\* copy takes it.
UnsentNeverDropped ==
  [][\A x \in Unsent : x.id[1] \notin shared' =>
       \/ \E y \in queue' : y.n = x.n
       \/ \E n \in Outstanding : ops[n].s = x.id[1] /\ n > x.n]_vars

\* However often a queued photograph is tried, one capture row is presigned for
\* its row, beside those whose answer was lost: a second one would stand on the
\* manager's timeline without a score (sync.ts, replay).  A photograph that is sent
\* again from its screen and queued anew has lost what its row had been granted.
OneCapturePerQueuedPhoto ==
  \A p \in Photos \ shared : minted[p] <= 1 + lostGrants[p]

\* "Reuse the capture this operation already claimed, if a previous attempt got that
\* far" (sync.ts, replay): without lost answers, a photograph is presigned once.
ClaimIsReused == \A p \in Photos \ shared : minted[p] <= 1

\* Every drain ends, also when rows fail, the signal goes in the middle of it or
\* IndexedDB goes, unless one of its requests stalls: the next one does not wait for
\* ever on a promise nobody settles (sync.ts, inFlight).
Stalled(k) == At(k, "stalled") \/ At(k, "unanswered")
DrainEnds == ~At("drain", "idle") ~> At("drain", "idle") \/ Stalled("drain")

\* "One bad operation must not block the rest" (sync.ts, drain): the rows of a
\* drain that is under way are all tried.
NoneBlocksTheRest == ~At("drain", "idle") ~> At("drain", "idle")

=============================================================================
