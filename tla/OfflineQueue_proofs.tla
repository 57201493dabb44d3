------------------------ MODULE OfflineQueue_proofs ------------------------
(***************************************************************************)
(* Proofs about OfflineQueue, for any gaps, tasks, photographs and visits  *)
(* and any bounds.                                                         *)
(***************************************************************************)
EXTENDS OfflineQueue, FiniteSetTheorems, SequenceTheorems, WellFoundedInduction, TLAPS

----------------------------------------------------------------------------
(* The inductive invariant.                                                 *)

\* What is stored comes from a tap whose request is over.
FromTap(x) == /\ x.n \in DOMAIN ops
              /\ x.id = <<ops[x.n].s, ops[x.n].d>>
              /\ ops[x.n].stage = "over"
RowsTraced ==
  /\ \A x \in queue : FromTap(x)
  /\ \A k \in Senders : \A x \in sender[k].todo \cup sender[k].copy : FromTap(x)
OpTraced(n) ==
  /\ ops[n].d \in Decisions(ops[n].s)
  /\ ops[n].stage = "served" => n \in applied
  /\ ops[n].stage \in {"listing", "removing"} => ops[n].s \in Gaps \cup Chores
  /\ \A id \in ops[n].victims : id[1] = ops[n].s
  /\ ops[n].prev # 0 => ops[n].prev \in 1 .. n - 1 /\ ops[ops[n].prev].s = ops[n].s
OpsTraced == \A n \in DOMAIN ops : OpTraced(n)
ShownTraced == \A s \in Subjects : shown[s] # 0 => shown[s] \in DOMAIN ops /\ ops[shown[s]].s = s
ForceTraced ==
  \A s \in Subjects : inForce[s] # 0 => inForce[s] \in DOMAIN ops /\ ops[inForce[s]].s = s
Traced == RowsTraced /\ OpsTraced /\ ShownTraced /\ ForceTraced

\* Every tap is stored once at most.
Roomy == clock + Cardinality(Outstanding) <= Len(ops)

\* A sender has rows on its list while it sends, and ids while it purges.
Holding == {"marking", "keeping", "settling"}
Listed ==
  \A k \in Senders :
    /\ sender[k].todo # {} <=> sender[k].pc \in RowPhases
    /\ sender[k].trash # {} <=> sender[k].pc = "purging"
    /\ \A x, y \in sender[k].todo : x.id = y.id => x = y
    /\ \A x, y \in sender[k].copy : x = y
    /\ sender[k].pc \in Holding => \A y \in sender[k].copy : y.id = Current(k).id
    /\ sender[k].pc \in {"presign", "keep", "keeping"} => CurrentIsPhoto(k)
    /\ sender[k].ok => /\ sender[k].pc \in {"settle", "settling"}
                       /\ Current(k).n \in applied

\* A subject that is not shared has one handler at most.
Calling(s) == CallsOn(s) # {}
Working(k, s) == \/ \E x \in sender[k].todo : x.id[1] = s
                 \/ \E id \in sender[k].trash : id[1] = s
Alone ==
  \A s \in Subjects \ shared :
    /\ \A m, n \in CallsOn(s) : m = n
    /\ Calling(s) => \A k \in Senders : ~ Working(k, s)
    /\ \A j, k \in Senders : Working(j, s) /\ Working(k, s) => j = k

\* What that one handler knows of the queue is true of it: the rows it is to
\* send are there, its copy is what they say, and what it removes was sent.
Untried(k, x) == x # Current(k) \/ sender[k].pc \in {"mark", "marking"}
Same(x, y) == x.id = y.id /\ x.n = y.n /\ x.status = y.status /\ x.grant = y.grant
FitsAt(k, s) ==
  /\ \A x \in sender[k].todo : x.id[1] = s =>
       \E z \in queue : z.id = x.id /\ z.n = x.n /\ (Untried(k, x) => z.grant = x.grant)
  /\ sender[k].pc \in Holding /\ Current(k).id[1] = s =>
       \E y \in sender[k].copy, z \in queue : z.id = Current(k).id /\ Same(z, y)
  /\ \A id \in sender[k].trash, z \in queue : id[1] = s /\ z.id = id => z.status = "DONE"
Fits == \A k \in Senders : \A s \in Subjects \ shared : FitsAt(k, s)

\* The one request about a subject is the last, and has removed what it listed.
LastWordOn(s) ==
  \A n \in CallsOn(s) :
    /\ \A m \in DOMAIN ops : ops[m].s = s => m <= n
    /\ ops[n].stage = "removing" =>
         \A x \in Unsent : x.id[1] = s => x.id \in ops[n].victims
    /\ ops[n].stage = "storing" /\ s \in Gaps \cup Chores => \A x \in Unsent : x.id[1] # s
LastWord == \A s \in Subjects \ shared : LastWordOn(s)

\* A tap that is storedOver is nowhere any more.
Forgotten(n) ==
  /\ n \notin applied /\ ops[n].stage = "over"
  /\ \A x \in queue : x.n # n
  /\ \A k \in Senders : \A x \in sender[k].todo : x.n # n
Gone == \A n \in storedOver : ops[n].s \notin shared => Forgotten(n)

\* What the server was told last about a subject that is not shared is what its
\* one handler has told it.
ToldOn(s) ==
  /\ \A n \in CallsOn(s) : ops[n].stage = "served" => inForce[s] = n
  /\ \A k \in Senders : sender[k].ok /\ Current(k).id[1] = s => inForce[s] = Current(k).n
Told == \A s \in Subjects \ shared : ToldOn(s)

\* A tap that needs no request any more.
KeptTap(m) == InForce(m) \/ \E x \in Unsent : x.n = m

\* What stands for a subject: what its screen shows, or would show again if the
\* request about it were refused.
Stands(s, m) == IF s \in Gaps /\ Calling(s) THEN \E n \in CallsOn(s) : m = ops[n].prev
                ELSE m = shown[s]
Early(s) == s \in Gaps => \A n \in CallsOn(s) : ops[n].stage = "sent"

\* It is kept, and no row that waits or is being sent says otherwise.
Agrees(x, s, m) == x.id[1] = s => m # 0 /\ x.id[2] = ops[m].d
AgreesWith(s, m) ==
  /\ \A x \in Unsent : Agrees(x, s, m)
  /\ \A k \in Senders : \A x \in sender[k].todo : Agrees(x, s, m)
Upright(s) ==
  \A m \in 0 .. MaxTaps :
    Stands(s, m) => AgreesWith(s, m) /\ (m # 0 /\ Early(s) => KeptTap(m))
ShowsOn(s) ==
  \A n \in CallsOn(s) :
    IF s \in Gaps THEN shown[s] = n ELSE IF s \in Chores THEN shown[s] = 0 ELSE shown[s] # n
Shows == \A s \in Subjects \ (shared \cup mislaid) : ShowsOn(s) /\ (storage => Upright(s))

\* The grant of a photograph is in its row, unless its sender is about to keep it.
Granted(p) == minted[p] = lostGrants[p] + 1
Asks(k, p) == sender[k].pc = "presign" /\ Current(k).id[1] = p
Keeps(k, p) == sender[k].pc \in {"keep", "keeping"} /\ Current(k).id[1] = p
GrantKept(p) ==
  /\ minted[p] = lostGrants[p] \/ Granted(p)
  /\ \A k \in Senders : /\ Asks(k, p) => ~ Granted(p)
                        /\ Keeps(k, p) => sender[k].grant # 0
  /\ storage /\ Granted(p) /\ (\A k \in Senders : ~ Keeps(k, p))
       => \A x \in queue : x.id[1] = p => x.grant # 0
GrantsKept == \A p \in Photos \ shared : GrantKept(p)
----------------------------------------------------------------------------
(* The pieces.                                                              *)

\* A set of rows that is not empty has an oldest one.
LEMMA HasOldest ==
  ASSUME NEW T, T \subseteq Row, T # {}
  PROVE  Oldest(T) \in T
<1>1. \A x \in T : x.at \in Nat
  BY DEF Row
<1> DEFINE Ats == {x.at : x \in T}
<1>2. Ats \subseteq Nat /\ Ats # {}
  BY <1>1
<1>3. \E a \in Ats : \A b \in Ats : <<b, a>> \notin OpToRel(<, Nat)
  BY <1>2, NatLessThanWellFounded, WFMin
<1>4. PICK a \in Ats : \A b \in Ats : ~ (b < a)
  BY <1>2, <1>3 DEF OpToRel
<1>5. PICK x \in T : x.at = a
  BY <1>4
<1>6. \A y \in T : x.at <= y.at
  BY <1>1, <1>4, <1>5
<1> QED BY <1>5, <1>6 DEF Oldest

\* An id is of a subject and one of its decisions.
LEMMA IdsAre ==
  /\ \A id \in Ids : id[1] \in Subjects /\ id[2] \in Decisions(id[1]) /\ id = <<id[1], id[2]>>
  /\ \A s \in Subjects : \A d \in Decisions(s) : <<s, d>> \in Ids
BY DEF Ids

\* A photograph and a check-out have one id.
LEMMA OneId ==
  ASSUME NEW id \in Ids, NEW jd \in Ids, id[1] \in Photos \cup Closings, jd[1] = id[1]
  PROVE  id = jd
<1>1. Decisions(id[1]) = {"SEND"}
  BY SubjectAssumption DEF Decisions
<1> QED BY <1>1, IdsAre

\* A request goes on to another stage.
LEMMA StageEffect ==
  ASSUME TypeOK, NEW n \in DOMAIN ops, NEW stage \in Stages, Stage(n, stage)
  PROVE  /\ ops' \in Seq(Op) /\ Len(ops') = Len(ops) /\ DOMAIN ops' = DOMAIN ops
         /\ ops'[n].stage = stage
         /\ \A m \in DOMAIN ops : /\ ops'[m].s = ops[m].s /\ ops'[m].d = ops[m].d
                                  /\ ops'[m].prev = ops[m].prev
                                  /\ ops'[m].victims = ops[m].victims
                                  /\ m # n => ops'[m].stage = ops[m].stage
<1>1. /\ ops \in Seq(Op) /\ DOMAIN ops = 1 .. Len(ops)
      /\ \A m \in DOMAIN ops : ops[m] \in Op
  BY DEF TypeOK
<1>2. PICK r \in Op : r = [ops[n] EXCEPT !.stage = stage]
  BY <1>1 DEF Op
<1>3. ops' = [ops EXCEPT ![n] = r]
  BY <1>2 DEF Stage
<1>4. /\ ops' \in Seq(Op) /\ Len(ops') = Len(ops) /\ DOMAIN ops' = DOMAIN ops
      /\ \A m \in DOMAIN ops : ops'[m] = IF m = n THEN r ELSE ops[m]
  BY <1>1, <1>3, ExceptSeq
<1>5. /\ r.stage = stage /\ r.s = ops[n].s /\ r.d = ops[n].d /\ r.prev = ops[n].prev
      /\ r.victims = ops[n].victims
  BY <1>1, <1>2 DEF Op
<1> QED BY <1>4, <1>5

\* A tap adds one request.
LEMMA TapEffect ==
  ASSUME TypeOK, NEW s, NEW d, Tap(s, d), s \in Subjects, d \in Decisions(s)
  PROVE  /\ ops' \in Seq(Op) /\ Len(ops') = Len(ops) + 1 /\ Len(ops') <= MaxTaps
         /\ DOMAIN ops = 1 .. Len(ops) /\ DOMAIN ops' = 1 .. Len(ops) + 1
         /\ \A m \in DOMAIN ops : ops'[m] = ops[m]
         /\ ops'[Len(ops) + 1].s = s /\ ops'[Len(ops) + 1].d = d
         /\ ops'[Len(ops) + 1].prev = shown[s] /\ ops'[Len(ops) + 1].stage = "sent"
         /\ ops'[Len(ops) + 1].victims = {}
<1>1. PICK r : r = [s |-> s, d |-> d, prev |-> shown[s], stage |-> "sent", victims |-> {}]
  OBVIOUS
<1>2. r \in Op
  BY <1>1 DEF Op, Stages, TypeOK
<1>3. ops \in Seq(Op) /\ DOMAIN ops = 1 .. Len(ops) /\ Len(ops) \in Nat /\ Len(ops) < MaxTaps
  BY DEF TypeOK, Tap
<1>4. ops' = Append(ops, r)
  BY <1>1 DEF Tap
<1>5. /\ ops' \in Seq(Op) /\ Len(ops') = Len(ops) + 1
      /\ \A m \in 1 .. Len(ops) : ops'[m] = ops[m]
      /\ ops'[Len(ops) + 1] = r
  BY <1>2, <1>3, <1>4, AppendProperties
<1> QED BY <1>1, <1>3, <1>5, BoundAssumption

\* Nobody works on a subject without handlers.
LEMMA NoHandlers ==
  ASSUME NEW s
  PROVE  Handlers(s) = {} <=> ~ Calling(s) /\ \A k \in Senders : ~ Working(k, s)
BY DEF Handlers, Calling, Working

\* A handler that joins alone is the only one.
LEMMA JoinEffect ==
  ASSUME NEW subjects \in SUBSET Subjects, shared \subseteq Subjects, Join(subjects)
  PROVE  /\ shared \subseteq shared' /\ shared' \subseteq Subjects
         /\ \A s \in subjects : s \notin shared' =>
              ~ Calling(s) /\ \A k \in Senders : ~ Working(k, s)
BY NoHandlers DEF Join

----------------------------------------------------------------------------
(* What each step does to its sender.                                       *)

\* One sender moves and the others stay.
Others(k) == \A j \in Senders : j # k => sender'[j] = sender[j]

LEMMA SenderSet ==
  ASSUME TypeOK, NEW k \in Senders, NEW w \in Work, sender' = [sender EXCEPT ![k] = w]
  PROVE  sender' \in [Senders -> Work] /\ sender'[k] = w /\ Others(k)
BY DEF TypeOK, Others

LEMMA GoEffect ==
  ASSUME TypeOK, NEW k \in Senders, NEW pc \in Phases, Go(k, pc)
  PROVE  /\ sender' \in [Senders -> Work] /\ Others(k)
         /\ sender'[k].pc = pc /\ sender'[k].todo = sender[k].todo
         /\ sender'[k].copy = sender[k].copy /\ sender'[k].ok = sender[k].ok
         /\ sender'[k].grant = sender[k].grant /\ sender'[k].trash = sender[k].trash
<1>1. sender[k] \in Work
  BY DEF TypeOK
<1>2. PICK w \in Work : w = [sender[k] EXCEPT !.pc = pc]
  BY <1>1 DEF Work
<1>3. sender' = [sender EXCEPT ![k] = w]
  BY <1>2 DEF Go
<1>4. /\ w.pc = pc /\ w.todo = sender[k].todo /\ w.copy = sender[k].copy /\ w.ok = sender[k].ok
      /\ w.grant = sender[k].grant /\ w.trash = sender[k].trash
  BY <1>1, <1>2 DEF Work
<1> QED BY <1>3, <1>4, SenderSet

LEMMA ReadEffect ==
  ASSUME TypeOK, NEW k \in Senders, NEW from, NEW to \in Phases, Read(k, from, to)
  PROVE  /\ sender' \in [Senders -> Work] /\ Others(k)
         /\ sender'[k].pc = to /\ sender'[k].todo = sender[k].todo
         /\ sender'[k].copy = RowsOf(Current(k).id) /\ sender'[k].ok = sender[k].ok
         /\ sender'[k].grant = sender[k].grant /\ sender'[k].trash = sender[k].trash
<1>1. sender[k] \in Work
  BY DEF TypeOK
<1>2. PICK v \in Work : v = [sender[k] EXCEPT !.pc = to]
  BY <1>1 DEF Work
<1>3. RowsOf(Current(k).id) \in SUBSET Row
  BY DEF TypeOK, RowsOf
<1>4. PICK w \in Work : w = [v EXCEPT !.copy = RowsOf(Current(k).id)]
  BY <1>3 DEF Work
<1>5. sender' = [sender EXCEPT ![k] = w]
  BY <1>2, <1>4 DEF Read
<1>6. /\ w.pc = to /\ w.todo = sender[k].todo /\ w.ok = sender[k].ok
      /\ w.copy = RowsOf(Current(k).id)
      /\ w.grant = sender[k].grant /\ w.trash = sender[k].trash
  BY <1>1, <1>2, <1>4 DEF Work
<1> QED BY <1>5, <1>6, SenderSet

\* The row a sender is at.
LEMMA CurrentIs ==
  ASSUME TypeOK, Listed, NEW k \in Senders, sender[k].pc \in RowPhases
  PROVE  Current(k) \in sender[k].todo /\ Current(k) \in Row
<1>1. sender[k].todo # {} /\ sender[k].todo \subseteq Row
  BY DEF TypeOK, Listed, Work
<1> QED BY <1>1, HasOldest DEF Current

LEMMA MarkedEffect ==
  ASSUME TypeOK, Listed, NEW k \in Senders, Marked(k)
  PROVE  /\ sender' \in [Senders -> Work] /\ Others(k)
         /\ sender'[k].pc \in {"send", "settle", "presign", "keep"}
         /\ sender'[k].pc = "presign" => Current(k).grant = 0
         /\ sender'[k].pc = "keep" => Current(k).grant # 0
         /\ sender'[k].pc \in {"send", "settle"} /\ Current(k).id[1] \in Photos =>
              sender'[k].pc = "settle"
         /\ sender'[k].todo = sender[k].todo
         /\ sender'[k].copy = {} /\ sender'[k].ok = FALSE
         /\ sender'[k].grant = Current(k).grant /\ sender'[k].trash = sender[k].trash
<1> DEFINE pc == IF ~CurrentIsPhoto(k) THEN "send"
                 ELSE IF ~Current(k).image THEN "settle"
                 ELSE IF Current(k).grant = 0 THEN "presign" ELSE "keep"
<1>1. sender[k] \in Work /\ Current(k).grant \in Nat
  BY CurrentIs DEF TypeOK, Marked, At, RowPhases, Row
<1>2. /\ pc \in {"send", "settle", "presign", "keep"} /\ pc \in Phases
      /\ pc = "presign" => Current(k).grant = 0
      /\ pc = "keep" => Current(k).grant # 0
      /\ pc \in {"send", "settle"} /\ Current(k).id[1] \in Photos => pc = "settle"
  BY DEF CurrentIsPhoto, Phases, RowPhases
<1>3. sender' = [sender EXCEPT ![k].pc = pc, ![k].copy = {}, ![k].ok = FALSE,
                               ![k].grant = Current(k).grant]
  BY DEF Marked
<1> HIDE DEF pc
<1>4. PICK u \in Work : u = [sender[k] EXCEPT !.pc = pc]
  BY <1>1, <1>2 DEF Work
<1>5. PICK v \in Work : v = [u EXCEPT !.copy = {}]
  BY DEF Work
<1>6. PICK w \in Work : w = [v EXCEPT !.ok = FALSE]
  BY DEF Work
<1>7. PICK x \in Work : x = [w EXCEPT !.grant = Current(k).grant]
  BY <1>1 DEF Work
<1>8. sender' = [sender EXCEPT ![k] = x]
  BY <1>3, <1>4, <1>5, <1>6, <1>7
<1>9. /\ x.pc = pc /\ x.todo = sender[k].todo /\ x.copy = {} /\ x.ok = FALSE
      /\ x.grant = Current(k).grant /\ x.trash = sender[k].trash
  BY <1>1, <1>4, <1>5, <1>6, <1>7 DEF Work
<1> QED BY <1>2, <1>8, <1>9, SenderSet

LEMMA PresignEffect ==
  ASSUME TypeOK, Listed, NEW k \in Senders, Presign(k)
  PROVE  /\ Current(k).id[1] \in Photos
         /\ minted' = [minted EXCEPT ![Current(k).id[1]] = minted[Current(k).id[1]] + 1]
         /\ sender' \in [Senders -> Work] /\ Others(k)
         /\ sender'[k].pc = "keep" /\ sender'[k].todo = sender[k].todo
         /\ sender'[k].copy = sender[k].copy /\ sender'[k].ok = sender[k].ok
         /\ sender'[k].grant = minted[Current(k).id[1]] + 1
         /\ sender'[k].trash = sender[k].trash
<1>1. sender[k] \in Work /\ Current(k).id[1] \in Photos
  BY DEF TypeOK, Listed, Presign, At, CurrentIsPhoto
<1>2. PICK g \in Nat : g = minted[Current(k).id[1]] + 1
  BY <1>1 DEF TypeOK
<1>3. PICK v \in Work : v = [sender[k] EXCEPT !.pc = "keep"]
  BY <1>1 DEF Work, Phases, RowPhases
<1>4. PICK w \in Work : w = [v EXCEPT !.grant = g]
  BY DEF Work
<1>5. sender' = [sender EXCEPT ![k] = w]
  BY <1>2, <1>3, <1>4 DEF Presign
<1>6. /\ w.pc = "keep" /\ w.todo = sender[k].todo /\ w.copy = sender[k].copy
      /\ w.ok = sender[k].ok /\ w.grant = g /\ w.trash = sender[k].trash
  BY <1>1, <1>3, <1>4 DEF Work
<1> QED BY <1>1, <1>2, <1>5, <1>6, SenderSet DEF Presign

LEMMA SendEffect ==
  ASSUME TypeOK, NEW k \in Senders, Send(k)
  PROVE  /\ sender' \in [Senders -> Work] /\ Others(k)
         /\ sender'[k].pc = "settle" /\ sender'[k].todo = sender[k].todo
         /\ sender'[k].copy = sender[k].copy /\ sender'[k].ok = TRUE
         /\ sender'[k].grant = sender[k].grant /\ sender'[k].trash = sender[k].trash
<1>1. sender[k] \in Work
  BY DEF TypeOK
<1>2. PICK v \in Work : v = [sender[k] EXCEPT !.pc = "settle"]
  BY <1>1 DEF Work, Phases, RowPhases
<1>3. PICK w \in Work : w = [v EXCEPT !.ok = TRUE]
  BY DEF Work
<1>4. sender' = [sender EXCEPT ![k] = w]
  BY <1>2, <1>3 DEF Send
<1>5. /\ w.pc = "settle" /\ w.todo = sender[k].todo /\ w.copy = sender[k].copy
      /\ w.ok = TRUE /\ w.grant = sender[k].grant /\ w.trash = sender[k].trash
  BY <1>1, <1>2, <1>3 DEF Work
<1> QED BY <1>4, <1>5, SenderSet

LEMMA StallsEffect ==
  ASSUME TypeOK, NEW k \in Senders, Stalls(k)
  PROVE  /\ sender' \in [Senders -> Work] /\ Others(k)
         /\ \/ sender[k].pc \in {"presign", "send"} /\ sender'[k].pc = "stalled"
            \/ sender[k].pc = "ack" /\ sender'[k].pc = "unanswered"
         /\ sender'[k].todo = sender[k].todo /\ sender'[k].copy = sender[k].copy
         /\ sender'[k].ok = sender[k].ok /\ sender'[k].grant = sender[k].grant
         /\ sender'[k].trash = sender[k].trash
<1>1. CASE sender[k].pc \in {"presign", "send"} /\ Go(k, "stalled")
  BY <1>1, GoEffect DEF Phases, RowPhases
<1>2. CASE sender[k].pc = "ack" /\ Go(k, "unanswered")
  BY <1>2, GoEffect DEF Phases
<1> QED BY <1>1, <1>2 DEF Stalls, At

LEMMA StallsBooks ==
  ASSUME NEW k \in Senders, Stalls(k)
  PROVE  \/ UNCHANGED <<applied, inForce, minted, lostGrants>>
         \/ /\ sender[k].pc = "presign" /\ UNCHANGED <<applied, inForce>>
            /\ minted' = [minted EXCEPT ![Current(k).id[1]] = minted[Current(k).id[1]] + 1]
            /\ lostGrants' =
                 [lostGrants EXCEPT ![Current(k).id[1]] = lostGrants[Current(k).id[1]] + 1]
         \/ sender[k].pc = "send" /\ Apply(Current(k).n) /\ UNCHANGED <<minted, lostGrants>>
BY DEF Stalls, At, books

LEMMA SettledEffect ==
  ASSUME TypeOK, NEW k \in Senders, Settled(k)
  PROVE  /\ sender' \in [Senders -> Work] /\ Others(k)
         /\ sender'[k].pc \in {"mark", "idle", "ack"}
         /\ sender'[k].todo = sender[k].todo \ {Current(k)}
         /\ sender'[k].pc = "mark" <=> sender'[k].todo # {}
         /\ sender'[k].copy = {} /\ sender'[k].ok = FALSE
         /\ sender'[k].grant = 0 /\ sender'[k].trash = sender[k].trash
<1> DEFINE rest == sender[k].todo \ {Current(k)}
           pc == IF rest # {} THEN "mark"
                 ELSE IF k = "retry" /\ ~ sender[k].ok THEN "idle" ELSE "ack"
<1>1. sender[k] \in Work /\ rest \subseteq Row
  BY DEF TypeOK, Work
<1>2. pc \in {"mark", "idle", "ack"} /\ pc \in Phases /\ (pc = "mark" <=> rest # {})
  BY DEF Phases, RowPhases
<1>3. sender' = [sender EXCEPT ![k].pc = pc, ![k].todo = rest, ![k].copy = {},
                               ![k].ok = FALSE, ![k].grant = 0]
  BY DEF Settled
<1> HIDE DEF rest, pc
<1>4. PICK u \in Work : u = [sender[k] EXCEPT !.pc = pc]
  BY <1>1, <1>2 DEF Work
<1>5. PICK t \in Work : t = [u EXCEPT !.todo = rest]
  BY <1>1 DEF Work
<1>6. PICK v \in Work : v = [t EXCEPT !.copy = {}]
  BY DEF Work
<1>7. PICK w \in Work : w = [v EXCEPT !.ok = FALSE]
  BY DEF Work
<1>8. PICK x \in Work : x = [w EXCEPT !.grant = 0]
  BY DEF Work
<1>9. sender' = [sender EXCEPT ![k] = x]
  BY <1>3, <1>4, <1>5, <1>6, <1>7, <1>8
<1>10. /\ x.pc = pc /\ x.todo = rest /\ x.copy = {} /\ x.ok = FALSE
       /\ x.grant = 0 /\ x.trash = sender[k].trash
  BY <1>1, <1>4, <1>5, <1>6, <1>7, <1>8 DEF Work
<1>11. rest = sender[k].todo \ {Current(k)}
  BY DEF rest
<1> QED BY <1>2, <1>9, <1>10, <1>11, SenderSet

\* A sender that is idle, or purges.
IdleAt(w) == /\ w.pc = "idle" /\ w.todo = {} /\ w.copy = {} /\ ~ w.ok
             /\ w.grant = 0 /\ w.trash = {}

LEMMA IdleIs == Idle \in Work /\ IdleAt(Idle)
BY DEF Idle, IdleAt, Work, Phases

LEMMA StartEffect ==
  ASSUME TypeOK, NEW k \in Senders, NEW rows \in SUBSET queue, Start(k, rows)
  PROVE  /\ sender' \in [Senders -> Work] /\ Others(k)
         /\ sender'[k].pc = "mark" /\ sender'[k].todo = rows
         /\ sender'[k].copy = {} /\ sender'[k].ok = FALSE
         /\ sender'[k].grant = 0 /\ sender'[k].trash = {}
<1>1. rows \subseteq Row
  BY DEF TypeOK
<1>2. PICK v \in Work : v = [Idle EXCEPT !.pc = "mark"]
  BY IdleIs DEF Work, Phases, RowPhases
<1>3. PICK w \in Work : w = [v EXCEPT !.todo = rows]
  BY <1>1 DEF Work
<1>4. sender' = [sender EXCEPT ![k] = w]
  BY <1>2, <1>3 DEF Start
<1>5. /\ w.pc = "mark" /\ w.todo = rows /\ w.copy = {} /\ w.ok = FALSE
      /\ w.grant = 0 /\ w.trash = {}
  BY <1>2, <1>3, IdleIs DEF Work, IdleAt
<1> QED BY <1>4, <1>5, SenderSet

LEMMA DiesEffect ==
  ASSUME TypeOK, NEW k \in Senders, SenderDies(k)
  PROVE  sender' \in [Senders -> Work] /\ Others(k) /\ IdleAt(sender'[k])
BY IdleIs, SenderSet DEF SenderDies

\* Rows that are sent are listed for the purge, or lose their image; what else a
\* row says stays.
LEMMA ListDoneEffect ==
  ASSUME TypeOK, NEW k \in Senders, ListDone(k)
  PROVE  /\ sender' \in [Senders -> Work] /\ Others(k)
         /\ sender'[k].todo = {} /\ sender'[k].copy = {} /\ sender'[k].ok = FALSE
         /\ sender'[k].trash # {} <=> sender'[k].pc = "purging"
         /\ sender'[k].pc \in {"idle", "purging"}
         /\ \A id \in sender'[k].trash : \E x \in queue : x.id = id /\ x.status = "DONE"
         /\ Join({id[1] : id \in sender'[k].trash})
<1>1. PICK old \in SUBSET {x \in queue : x.status = "DONE"} :
        /\ sender' = [sender EXCEPT ![k] = IF old = {} THEN Idle
                       ELSE [Idle EXCEPT !.pc = "purging", !.trash = {x.id : x \in old}]]
        /\ Join({x.id[1] : x \in old})
  BY DEF ListDone
<1>2. CASE old = {}
  <2>1. sender' = [sender EXCEPT ![k] = Idle]
    BY <1>1, <1>2
  <2>2. sender' \in [Senders -> Work] /\ Others(k) /\ sender'[k] = Idle
    BY <2>1, IdleIs, SenderSet
  <2>3. {x.id[1] : x \in old} = {} /\ {id[1] : id \in sender'[k].trash} = {}
    BY <1>2, <2>2, IdleIs DEF IdleAt
  <2> QED BY <1>1, <2>2, <2>3, IdleIs DEF IdleAt
<1>3. CASE old # {}
  <2>1. {x.id : x \in old} \in SUBSET Ids /\ {x.id : x \in old} # {}
    BY <1>3 DEF TypeOK, Row
  <2>2. PICK v \in Work : v = [Idle EXCEPT !.pc = "purging"]
    BY IdleIs DEF Work, Phases
  <2>3. PICK w \in Work : w = [v EXCEPT !.trash = {x.id : x \in old}]
    BY <2>1 DEF Work
  <2>4. sender' = [sender EXCEPT ![k] = w]
    BY <1>1, <1>3, <2>2, <2>3
  <2>5. /\ w.pc = "purging" /\ w.todo = {} /\ w.copy = {} /\ w.ok = FALSE
        /\ w.trash = {x.id : x \in old}
    BY <2>2, <2>3, IdleIs DEF Work, IdleAt
  <2>6. sender' \in [Senders -> Work] /\ Others(k) /\ sender'[k] = w
    BY <2>4, SenderSet
  <2>7. {id[1] : id \in w.trash} = {x.id[1] : x \in old}
    BY <2>5
  <2> QED BY <1>1, <2>1, <2>5, <2>6, <2>7
<1> QED BY <1>2, <1>3

LEMMA PurgedQueue ==
  ASSUME TypeOK, NEW k \in Senders, ListDone(k)
  PROVE  /\ queue' \subseteq Row /\ \A x, y \in queue' : x.id = y.id => x = y
         /\ \A x \in queue : \E y \in queue' : Same(x, y)
         /\ \A y \in queue' : \E x \in queue : Same(x, y) /\ y.at = x.at
                                             /\ (y.status # "DONE" => y = x)
<1>1. PICK old \in SUBSET {x \in queue : x.status = "DONE"} :
        queue' = {[x EXCEPT !.image = IF x.status = "DONE" /\ x \notin old THEN FALSE ELSE @] :
                    x \in queue}
  BY DEF ListDone
<1> DEFINE Tidy(x) == [x EXCEPT !.image = IF x.status = "DONE" /\ x \notin old THEN FALSE ELSE @]
<1>2. ASSUME NEW x \in queue
      PROVE  /\ Tidy(x) \in Row /\ Same(x, Tidy(x)) /\ Tidy(x).at = x.at
             /\ Tidy(x).status # "DONE" => Tidy(x) = x
  <2>1. x \in Row
    BY DEF TypeOK
  <2>2. CASE x.status = "DONE" /\ x \notin old
    <3>1. Tidy(x) = [x EXCEPT !.image = FALSE]
      BY <2>2
    <3>2. [x EXCEPT !.image = FALSE] \in Row
      BY <2>1 DEF Row
    <3> QED BY <2>1, <2>2, <3>1, <3>2 DEF Row, Same
  <2>3. CASE ~ (x.status = "DONE" /\ x \notin old)
    <3>1. Tidy(x) = x
      BY <2>1, <2>3 DEF Row
    <3> QED BY <2>1, <3>1 DEF Same
  <2> QED BY <2>2, <2>3
<1>3. queue' = {Tidy(x) : x \in queue}
  BY <1>1
<1> HIDE DEF Tidy
<1>4. \A x, y \in queue : x.id = y.id => x = y
  BY DEF TypeOK
<1> QED BY <1>2, <1>3, <1>4 DEF Same

LEMMA RemoveDoneEffect ==
  ASSUME TypeOK, NEW k \in Senders, RemoveDone(k)
  PROVE  \E id \in sender[k].trash :
           /\ queue' = queue \ RowsOf(id)
           /\ sender' \in [Senders -> Work] /\ Others(k)
           /\ \/ sender[k].trash = {id} /\ IdleAt(sender'[k])
              \/ /\ sender[k].trash # {id} /\ sender'[k].trash = sender[k].trash \ {id}
                 /\ sender'[k].pc = sender[k].pc /\ sender'[k].todo = sender[k].todo
                 /\ sender'[k].copy = sender[k].copy /\ sender'[k].ok = sender[k].ok
                 /\ sender'[k].grant = sender[k].grant
<1>1. PICK id \in sender[k].trash :
        /\ queue' = queue \ RowsOf(id)
        /\ sender' = [sender EXCEPT ![k] =
              IF sender[k].trash = {id} THEN Idle
              ELSE [sender[k] EXCEPT !.trash = sender[k].trash \ {id}]]
  BY DEF RemoveDone
<1>2. sender[k] \in Work
  BY DEF TypeOK
<1>3. CASE sender[k].trash = {id}
  <2>1. sender' = [sender EXCEPT ![k] = Idle]
    BY <1>1, <1>3
  <2> QED BY <1>1, <1>3, <2>1, IdleIs, SenderSet
<1>4. CASE sender[k].trash # {id}
  <2>1. PICK w \in Work : w = [sender[k] EXCEPT !.trash = sender[k].trash \ {id}]
    BY <1>2 DEF Work
  <2>2. sender' = [sender EXCEPT ![k] = w]
    BY <1>1, <1>4, <2>1
  <2>3. /\ w.trash = sender[k].trash \ {id}
        /\ w.pc = sender[k].pc /\ w.todo = sender[k].todo
        /\ w.copy = sender[k].copy /\ w.ok = sender[k].ok
        /\ w.grant = sender[k].grant
    BY <1>2, <2>1 DEF Work
  <2> QED BY <1>1, <1>4, <2>2, <2>3, SenderSet
<1> QED BY <1>3, <1>4

----------------------------------------------------------------------------
(* What each step does to the queue and the requests.                       *)

\* A copy that is written back takes the place of the row of its id.
Unwritten(k, x) == \A c \in sender[k].copy : c.id # x.id
Restated(y, c, st) == y.id = c.id /\ y.n = c.n /\ y.status = st /\ y.grant = c.grant
Regranted(y, c, g) == y.id = c.id /\ y.n = c.n /\ y.status = c.status /\ y.grant = g
RewrittenAs(k, st) ==
  /\ \A x \in queue : Unwritten(k, x) => x \in queue'
  /\ \A c \in sender[k].copy : \E y \in queue' : Restated(y, c, st)
  /\ \A y \in queue' : \/ y \in queue /\ Unwritten(k, y)
                       \/ \E c \in sender[k].copy : Restated(y, c, st)
RewrittenWith(k, g) ==
  /\ \A x \in queue : Unwritten(k, x) => x \in queue'
  /\ \A c \in sender[k].copy : \E y \in queue' : Regranted(y, c, g)
  /\ \A y \in queue' : \/ y \in queue /\ Unwritten(k, y)
                       \/ \E c \in sender[k].copy : Regranted(y, c, g)

LEMMA WriteEffect ==
  ASSUME TypeOK, NEW k \in Senders, NEW patched \in SUBSET Row, Write(k, patched),
         \A x, y \in patched : x = y,
         \A y \in patched : \E c \in sender[k].copy : y.id = c.id
  PROVE  queue' \subseteq Row /\ \A x, y \in queue' : x.id = y.id => x = y
BY DEF TypeOK, Write

LEMMA MarkedQueue ==
  ASSUME TypeOK, Listed, NEW k \in Senders, Marked(k)
  PROVE  /\ queue' \subseteq Row /\ \A x, y \in queue' : x.id = y.id => x = y
         /\ RewrittenAs(k, "UPLOADING")
<1> DEFINE Mark(c) == [c EXCEPT !.status = "UPLOADING"]
<1>1. sender[k].copy \subseteq Row /\ \A x, y \in sender[k].copy : x = y
  BY DEF TypeOK, Work, Listed
<1>2. \A c \in sender[k].copy : /\ Mark(c) \in Row /\ Mark(c).id = c.id /\ Mark(c).n = c.n
                                /\ Mark(c).status = "UPLOADING" /\ Mark(c).grant = c.grant
  BY <1>1 DEF Row, Statuses
<1>3. Write(k, {Mark(c) : c \in sender[k].copy})
  BY DEF Marked
<1> HIDE DEF Mark
<1>4. queue' \subseteq Row /\ \A x, y \in queue' : x.id = y.id => x = y
  <2> DEFINE P == {Mark(c) : c \in sender[k].copy}
  <2>1. /\ P \in SUBSET Row /\ \A x, y \in P : x = y
        /\ \A y \in P : \E c \in sender[k].copy : y.id = c.id
    BY <1>1, <1>2
  <2>2. Write(k, P)
    BY <1>3
  <2> HIDE DEF P
  <2> QED BY <2>1, <2>2, WriteEffect
<1>5. queue' = {x \in queue : Unwritten(k, x)} \cup {Mark(c) : c \in sender[k].copy}
  BY <1>3 DEF Write, Unwritten
<1> QED BY <1>2, <1>4, <1>5 DEF RewrittenAs, Restated

LEMMA KeptQueue ==
  ASSUME TypeOK, Listed, NEW k \in Senders, Kept(k)
  PROVE  /\ queue' \subseteq Row /\ \A x, y \in queue' : x.id = y.id => x = y
         /\ RewrittenWith(k, sender[k].grant)
<1> DEFINE Mark(c) == [c EXCEPT !.grant = sender[k].grant]
<1>1. /\ sender[k].copy \subseteq Row /\ \A x, y \in sender[k].copy : x = y
      /\ sender[k].grant \in Nat
  BY DEF TypeOK, Work, Listed
<1>2. \A c \in sender[k].copy : /\ Mark(c) \in Row /\ Mark(c).id = c.id /\ Mark(c).n = c.n
                                /\ Mark(c).status = c.status /\ Mark(c).grant = sender[k].grant
  BY <1>1 DEF Row
<1>3. Write(k, {Mark(c) : c \in sender[k].copy})
  BY DEF Kept
<1> HIDE DEF Mark
<1>4. queue' \subseteq Row /\ \A x, y \in queue' : x.id = y.id => x = y
  <2> DEFINE P == {Mark(c) : c \in sender[k].copy}
  <2>1. /\ P \in SUBSET Row /\ \A x, y \in P : x = y
        /\ \A y \in P : \E c \in sender[k].copy : y.id = c.id
    BY <1>1, <1>2
  <2>2. Write(k, P)
    BY <1>3
  <2> HIDE DEF P
  <2> QED BY <2>1, <2>2, WriteEffect
<1>5. queue' = {x \in queue : Unwritten(k, x)} \cup {Mark(c) : c \in sender[k].copy}
  BY <1>3 DEF Write, Unwritten
<1> QED BY <1>2, <1>4, <1>5 DEF RewrittenWith, Regranted

LEMMA SettledQueue ==
  ASSUME TypeOK, Listed, NEW k \in Senders, Settled(k)
  PROVE  /\ queue' \subseteq Row /\ \A x, y \in queue' : x.id = y.id => x = y
         /\ RewrittenAs(k, IF sender[k].ok THEN "DONE" ELSE "FAILED")
<1>0. PICK st \in Statuses : st = IF sender[k].ok THEN "DONE" ELSE "FAILED"
  BY DEF Statuses
<1> DEFINE Mark(c) == [c EXCEPT !.status = st]
<1>1. sender[k].copy \subseteq Row /\ \A x, y \in sender[k].copy : x = y
  BY DEF TypeOK, Work, Listed
<1>2. \A c \in sender[k].copy : /\ Mark(c) \in Row /\ Mark(c).id = c.id /\ Mark(c).n = c.n
                                /\ Mark(c).status = st /\ Mark(c).grant = c.grant
  BY <1>1 DEF Row
<1>3. Write(k, {Mark(c) : c \in sender[k].copy})
  BY <1>0 DEF Settled
<1> HIDE DEF Mark
<1>4. queue' \subseteq Row /\ \A x, y \in queue' : x.id = y.id => x = y
  <2> DEFINE P == {Mark(c) : c \in sender[k].copy}
  <2>1. /\ P \in SUBSET Row /\ \A x, y \in P : x = y
        /\ \A y \in P : \E c \in sender[k].copy : y.id = c.id
    BY <1>1, <1>2
  <2>2. Write(k, P)
    BY <1>3
  <2> HIDE DEF P
  <2> QED BY <2>1, <2>2, WriteEffect
<1>5. queue' = {x \in queue : Unwritten(k, x)} \cup {Mark(c) : c \in sender[k].copy}
  BY <1>3 DEF Write, Unwritten
<1> QED BY <1>0, <1>2, <1>4, <1>5 DEF RewrittenAs, Restated

\* The row of a tap that could not be sent.
LEMMA StoreEffect ==
  ASSUME TypeOK, Traced, Roomy, NEW n \in DOMAIN ops, Store(n)
  PROVE  /\ clock' = clock + 1 /\ clock + 1 <= MaxTaps
         /\ queue' \subseteq Row /\ \A x, y \in queue' : x.id = y.id => x = y
         /\ \E r \in Row : /\ r.id = <<ops[n].s, ops[n].d>> /\ r.n = n
                           /\ r.status = "PENDING" /\ r.grant = 0
                           /\ queue' = (queue \ RowsOf(r.id)) \cup {r}
<1>1. /\ ops \in Seq(Op) /\ Len(ops) \in Nat /\ Len(ops) <= MaxTaps /\ MaxTaps \in Nat
      /\ DOMAIN ops = 1 .. Len(ops) /\ clock \in Nat
  BY BoundAssumption DEF TypeOK
<1>2. IsFiniteSet(Outstanding) /\ Cardinality(Outstanding) \in Nat /\ n \in Outstanding
  <2>1. IsFiniteSet(1 .. Len(ops)) /\ Outstanding \in SUBSET (1 .. Len(ops))
    BY <1>1, FS_Interval DEF Outstanding
  <2>2. IsFiniteSet(Outstanding)
    BY <2>1, FS_Subset
  <2>3. n \in Outstanding
    BY DEF Outstanding, Store
  <2> QED BY <2>2, <2>3, FS_CardinalityType
<1>3. Cardinality(Outstanding) # 0
  BY <1>2, FS_EmptySet
<1>4. clock + 1 \in 1 .. MaxTaps
  BY <1>1, <1>2, <1>3 DEF Roomy
<1>5. ops[n] \in Op /\ ops[n].s \in Subjects /\ <<ops[n].s, ops[n].d>> \in Ids
  <2>1. ops[n] \in Op
    BY <1>1
  <2>2. ops[n].s \in Subjects /\ ops[n].d \in Decisions(ops[n].s)
    BY <2>1 DEF Traced, OpsTraced, OpTraced, Op
  <2> QED BY <2>1, <2>2, IdsAre
<1>6. PICK r : r = [id |-> <<ops[n].s, ops[n].d>>, n |-> n, at |-> clock + 1,
                    status |-> "PENDING", grant |-> 0, image |-> ops[n].s \in Photos]
  OBVIOUS
<1>7. n \in 1 .. MaxTaps /\ (ops[n].s \in Photos) \in BOOLEAN
  BY <1>1
<1>8. r \in Row
  BY <1>4, <1>5, <1>6, <1>7 DEF Row, Statuses
<1>9. queue' = (queue \ RowsOf(r.id)) \cup {r}
  BY <1>6 DEF Store, Put
<1>10. queue \subseteq Row /\ \A x, y \in queue : x.id = y.id => x = y
  BY DEF TypeOK
<1>11. queue' \subseteq Row /\ \A x, y \in queue' : x.id = y.id => x = y
  BY <1>8, <1>9, <1>10 DEF RowsOf
<1>12. clock' = clock + 1 /\ clock + 1 <= MaxTaps
  BY <1>1, <1>4 DEF Store
<1>13. /\ r.id = <<ops[n].s, ops[n].d>> /\ r.n = n /\ r.status = "PENDING" /\ r.grant = 0
  BY <1>6
<1> QED BY <1>8, <1>9, <1>11, <1>12, <1>13

\* The list of what a decision supersedes.
LEMMA ListOlderEffect ==
  ASSUME TypeOK, NEW n \in DOMAIN ops, ListOlder(n)
  PROVE  /\ ops' \in Seq(Op) /\ Len(ops') = Len(ops) /\ DOMAIN ops' = DOMAIN ops
         /\ ops'[n].victims = {x.id : x \in {y \in Unsent : y.id[1] = ops[n].s}}
         /\ ops'[n].stage = IF ops'[n].victims = {} THEN "storing" ELSE "removing"
         /\ \A m \in DOMAIN ops : /\ ops'[m].s = ops[m].s /\ ops'[m].d = ops[m].d
                                  /\ ops'[m].prev = ops[m].prev
                                  /\ m # n => ops'[m] = ops[m]
<1>1. /\ ops \in Seq(Op) /\ DOMAIN ops = 1 .. Len(ops)
      /\ \A m \in DOMAIN ops : ops[m] \in Op
  BY DEF TypeOK
<1>2. PICK older \in SUBSET Ids : older = {x.id : x \in {y \in Unsent : y.id[1] = ops[n].s}}
  <2>1. \A x \in Unsent : x.id \in Ids
    BY DEF TypeOK, Unsent, Row
  <2>2. {x.id : x \in {y \in Unsent : y.id[1] = ops[n].s}} \in SUBSET Ids
    BY <2>1
  <2> QED BY <2>2
<1>3. PICK stage \in Stages : stage = IF older = {} THEN "storing" ELSE "removing"
  BY DEF Stages
<1>4. PICK v \in Op : v = [ops[n] EXCEPT !.stage = stage]
  BY <1>1 DEF Op
<1>5. PICK r \in Op : r = [v EXCEPT !.victims = older]
  BY <1>2 DEF Op
<1>6. ops' = [ops EXCEPT ![n] = r]
  BY <1>2, <1>3, <1>4, <1>5 DEF ListOlder
<1>7. /\ ops' \in Seq(Op) /\ Len(ops') = Len(ops) /\ DOMAIN ops' = DOMAIN ops
      /\ \A m \in DOMAIN ops : ops'[m] = IF m = n THEN r ELSE ops[m]
  BY <1>1, <1>6, ExceptSeq
<1>8. /\ r.stage = stage /\ r.victims = older /\ r.s = ops[n].s /\ r.d = ops[n].d
      /\ r.prev = ops[n].prev
  BY <1>1, <1>4, <1>5 DEF Op
<1> QED BY <1>2, <1>3, <1>7, <1>8

LEMMA RemoveOlderEffect ==
  ASSUME TypeOK, NEW n \in DOMAIN ops, RemoveOlder(n)
  PROVE  /\ ops' \in Seq(Op) /\ Len(ops') = Len(ops) /\ DOMAIN ops' = DOMAIN ops
         /\ \E id \in ops[n].victims :
              /\ queue' = queue \ RowsOf(id) /\ ops'[n].victims = ops[n].victims \ {id}
              /\ ops'[n].stage = IF ops[n].victims = {id} THEN "storing" ELSE "removing"
         /\ \A m \in DOMAIN ops : /\ ops'[m].s = ops[m].s /\ ops'[m].d = ops[m].d
                                  /\ ops'[m].prev = ops[m].prev
                                  /\ m # n => ops'[m] = ops[m]
<1>1. /\ ops \in Seq(Op) /\ DOMAIN ops = 1 .. Len(ops)
      /\ \A m \in DOMAIN ops : ops[m] \in Op
  BY DEF TypeOK
<1>2. PICK id \in ops[n].victims :
        /\ queue' = queue \ RowsOf(id)
        /\ ops' = [ops EXCEPT ![n].victims = @ \ {id},
                              ![n].stage = IF ops[n].victims = {id} THEN "storing" ELSE @]
  BY DEF RemoveOlder
<1>3. PICK stage \in Stages : stage = IF ops[n].victims = {id} THEN "storing" ELSE ops[n].stage
  BY <1>1 DEF Op, Stages
<1>4. PICK v \in Op : v = [ops[n] EXCEPT !.victims = ops[n].victims \ {id}]
  BY <1>1 DEF Op
<1>5. PICK r \in Op : r = [v EXCEPT !.stage = stage]
  BY DEF Op
<1>6. v.stage = ops[n].stage
  BY <1>1, <1>4 DEF Op
<1>7. ops' = [ops EXCEPT ![n] = r]
  BY <1>1, <1>2, <1>3, <1>4, <1>5, <1>6
<1>8. /\ ops' \in Seq(Op) /\ Len(ops') = Len(ops) /\ DOMAIN ops' = DOMAIN ops
      /\ \A m \in DOMAIN ops : ops'[m] = IF m = n THEN r ELSE ops[m]
  BY <1>1, <1>7, ExceptSeq
<1>9. /\ r.stage = stage /\ r.victims = ops[n].victims \ {id} /\ r.s = ops[n].s
      /\ r.d = ops[n].d /\ r.prev = ops[n].prev
  BY <1>1, <1>4, <1>5 DEF Op
<1>10. ops[n].stage = "removing"
  BY DEF RemoveOlder
<1> QED BY <1>2, <1>3, <1>8, <1>9, <1>10

----------------------------------------------------------------------------
(* Types.                                                                   *)

LEMMA Bounds == MaxTaps \in Nat /\ MaxPresses \in Nat /\ MaxFaults \in Nat /\ MaxOutages \in Nat
BY BoundAssumption

LEMMA OpIs ==
  ASSUME TypeOK, NEW n \in DOMAIN ops
  PROVE  /\ n \in 1 .. MaxTaps /\ ops[n] \in Op /\ ops[n].s \in Subjects
         /\ ops[n].prev \in 0 .. MaxTaps /\ ops[n].stage \in Stages /\ ops[n].victims \subseteq Ids
<1>1. ops[n] \in Op /\ n \in 1 .. Len(ops) /\ Len(ops) \in Nat
  BY DEF TypeOK
<1>2. n \in 1 .. MaxTaps
  BY <1>1, Bounds DEF TypeOK
<1> QED BY <1>1, <1>2 DEF Op

LEMMA RowSubject ==
  ASSUME TypeOK, NEW x \in queue
  PROVE  x.id \in Ids /\ x.id[1] \in Subjects
BY IdsAre DEF TypeOK, Row

LEMMA AppliedTypes ==
  ASSUME TypeOK, NEW n \in DOMAIN ops, Apply(n)
  PROVE  applied' \subseteq DOMAIN ops /\ inForce' \in [Subjects -> 0 .. MaxTaps]
<1>1. n \in 0 .. MaxTaps
  BY OpIs, Bounds
<1> QED BY <1>1 DEF Apply, TypeOK

\* The row a sender is at is one the rep asked for.
LEMMA CurrentAsked ==
  ASSUME TypeOK, Listed, Traced, NEW k \in Senders, sender[k].pc \in RowPhases
  PROVE  /\ Current(k) \in sender[k].todo /\ Current(k) \in Row
         /\ Current(k).n \in DOMAIN ops
         /\ Current(k).id = <<ops[Current(k).n].s, ops[Current(k).n].d>>
         /\ ops[Current(k).n].stage = "over"
BY CurrentIs DEF Traced, RowsTraced, FromTap

LEMMA TypeNext == TypeOK /\ Traced /\ Roomy /\ Listed /\ [Next]_vars => TypeOK'
<1> SUFFICES ASSUME TypeOK, Traced, Roomy, Listed, [Next]_vars PROVE TypeOK'
  OBVIOUS
<1>1. CASE UNCHANGED vars
  BY <1>1 DEF vars, phone, books, notes, TypeOK
<1>2. ASSUME NEW s \in Subjects, NEW d \in Decisions(s), Tap(s, d) PROVE TypeOK'
  <2>1. UNCHANGED <<queue, clock, sender, online, woken, storage, applied, inForce, minted, faults,
     outages, storedOver, mislaid, lostGrants, presses>>
    BY <1>2 DEF Tap, books
  <2>2. ops' \in Seq(Op) /\ Len(ops') <= MaxTaps /\ DOMAIN ops \subseteq DOMAIN ops'
    BY <1>2, TapEffect
  <2>3. shown' \in [Subjects -> 0 .. MaxTaps]
    BY <1>2, Bounds DEF Tap, TypeOK
  <2>4. shared' \subseteq Subjects
    BY <1>2 DEF Tap, Join, TypeOK
  <2> QED BY <2>1, <2>2, <2>3, <2>4 DEF TypeOK
<1>3. ASSUME NEW n \in DOMAIN ops, Serve(n) PROVE TypeOK'
  <2>1. UNCHANGED <<shown, queue, clock, sender, online, woken, storage, minted, presses,
     faults, outages, storedOver, mislaid, lostGrants, shared>>
    BY <1>3 DEF Serve, notes
  <2>2. ops' \in Seq(Op) /\ Len(ops') <= MaxTaps /\ DOMAIN ops' = DOMAIN ops
    BY <1>3, Bounds, StageEffect DEF Serve, Stages, TypeOK
  <2>3. applied' \subseteq DOMAIN ops /\ inForce' \in [Subjects -> 0 .. MaxTaps]
    BY <1>3, AppliedTypes DEF Serve
  <2> QED BY <2>1, <2>2, <2>3 DEF TypeOK
<1>4. ASSUME NEW n \in DOMAIN ops, Answer(n) PROVE TypeOK'
  <2>1. UNCHANGED <<queue, clock, sender, online, woken, storage, applied, inForce, minted, presses,
     faults, outages, storedOver, lostGrants, shared>>
    BY <1>4 DEF Answer, books
  <2>2. ops' \in Seq(Op) /\ Len(ops') <= MaxTaps /\ DOMAIN ops' = DOMAIN ops
    BY <1>4, Bounds, StageEffect DEF Answer, Stages, TypeOK
  <2>3. shown' \in [Subjects -> 0 .. MaxTaps]
    BY <1>4, Bounds, OpIs DEF Answer, TypeOK
  <2>4. mislaid' \subseteq Subjects
    BY <1>4, OpIs DEF Answer, TypeOK
  <2> QED BY <2>1, <2>2, <2>3, <2>4 DEF TypeOK
<1>5. ASSUME NEW n \in DOMAIN ops, Refuse(n) PROVE TypeOK'
  <2>1. UNCHANGED <<queue, clock, sender, online, woken, storage, applied, inForce, minted, outages,
     storedOver, mislaid, lostGrants, shared, presses>>
    BY <1>5 DEF Refuse, books
  <2>2. ops' \in Seq(Op) /\ Len(ops') <= MaxTaps /\ DOMAIN ops' = DOMAIN ops
    BY <1>5, Bounds, StageEffect DEF Refuse, Stages, TypeOK
  <2>3. shown' \in [Subjects -> 0 .. MaxTaps]
    BY <1>5, Bounds, OpIs DEF Refuse, RollBack, TypeOK
  <2>4. faults' \in 0 .. MaxFaults
    BY <1>5, Bounds DEF Refuse, TypeOK
  <2> QED BY <2>1, <2>2, <2>3, <2>4 DEF TypeOK
<1>6. ASSUME NEW n \in DOMAIN ops, Lose(n) PROVE TypeOK'
  <2>1. UNCHANGED <<shown, queue, clock, sender, online, woken, storage, applied, inForce, minted,
     outages, storedOver, mislaid, lostGrants, shared, presses>>
    BY <1>6 DEF Lose, books
  <2>2. ops' \in Seq(Op) /\ Len(ops') <= MaxTaps /\ DOMAIN ops' = DOMAIN ops
    BY <1>6, Bounds, StageEffect DEF Lose, Stages, TypeOK
  <2>3. faults' \in 0 .. MaxFaults
    BY <1>6, Bounds DEF Lose, TypeOK
  <2> QED BY <2>1, <2>2, <2>3 DEF TypeOK
<1>7. ASSUME NEW n \in DOMAIN ops, ListOlder(n) PROVE TypeOK'
  <2>1. UNCHANGED <<shown, queue, clock, sender, online, woken, storage, applied, inForce, minted,
     presses, faults, outages, storedOver, mislaid, lostGrants, shared>>
    BY <1>7 DEF ListOlder, books, notes
  <2>2. ops' \in Seq(Op) /\ Len(ops') <= MaxTaps /\ DOMAIN ops' = DOMAIN ops
    BY <1>7, ListOlderEffect DEF TypeOK
  <2> QED BY <2>1, <2>2 DEF TypeOK
<1>8. ASSUME NEW n \in DOMAIN ops, RemoveOlder(n) PROVE TypeOK'
  <2>1. UNCHANGED <<shown, clock, sender, online, woken, storage, applied, inForce, minted, presses,
     faults, outages, storedOver, mislaid, lostGrants, shared>>
    BY <1>8 DEF RemoveOlder, books, notes
  <2>2. ops' \in Seq(Op) /\ Len(ops') <= MaxTaps /\ DOMAIN ops' = DOMAIN ops
    BY <1>8, RemoveOlderEffect DEF TypeOK
  <2>3. queue' \subseteq queue
    BY <1>8 DEF RemoveOlder
  <2> QED BY <2>1, <2>2, <2>3 DEF TypeOK
<1>9. ASSUME NEW n \in DOMAIN ops, Store(n) PROVE TypeOK'
  <2>1. UNCHANGED <<sender, online, woken, storage, applied, inForce, minted, faults, outages,
     mislaid, shared, presses>>
    BY <1>9 DEF Store, books
  <2>2. ops' \in Seq(Op) /\ Len(ops') <= MaxTaps /\ DOMAIN ops' = DOMAIN ops
    BY <1>9, Bounds, StageEffect DEF Store, Stages, TypeOK
  <2>3. queue' \subseteq Row /\ \A x, y \in queue' : x.id = y.id => x = y
    BY <1>9, StoreEffect
  <2>4. clock' \in 0 .. MaxTaps
    BY <1>9, Bounds, StoreEffect DEF TypeOK
  <2>5. shown' \in [Subjects -> 0 .. MaxTaps]
    <3>1. shown' = [shown EXCEPT ![ops[n].s] = n]
      BY <1>9 DEF Store, Show
    <3>2. n \in 0 .. MaxTaps
      BY <1>9, Bounds DEF TypeOK
    <3> QED BY <3>1, <3>2 DEF TypeOK
  <2>6. storedOver' \subseteq DOMAIN ops
    BY <1>9, Bounds DEF Store, TypeOK
  <2>7. lostGrants' \in [Photos -> Nat]
    BY <1>9 DEF Store, TypeOK
  <2> QED BY <2>1, <2>2, <2>3, <2>4, <2>5, <2>6, <2>7 DEF TypeOK
<1>10. ASSUME NEW n \in DOMAIN ops, StoreFails(n) PROVE TypeOK'
  <2>1. UNCHANGED <<queue, clock, sender, online, woken, storage, applied, inForce, minted, presses,
     faults, outages, storedOver, mislaid, lostGrants, shared>>
    BY <1>10 DEF StoreFails, books, notes
  <2>2. ops' \in Seq(Op) /\ Len(ops') <= MaxTaps /\ DOMAIN ops' = DOMAIN ops
    BY <1>10, Bounds, StageEffect DEF StoreFails, Stages, TypeOK
  <2>3. shown' \in [Subjects -> 0 .. MaxTaps]
    BY <1>10, Bounds, OpIs DEF StoreFails, RollBack, TypeOK
  <2> QED BY <2>1, <2>2, <2>3 DEF TypeOK
<1>11. ASSUME NEW k \in Senders, MarkRow(k) PROVE TypeOK'
  <2>1. UNCHANGED <<ops, shown, queue, clock, online, woken, storage, applied, inForce, minted, presses,
     faults, outages, storedOver, mislaid, lostGrants, shared>>
    BY <1>11 DEF MarkRow, books, notes, Read
  <2>2. sender' \in [Senders -> Work]
    BY <1>11, ReadEffect DEF MarkRow, Phases, RowPhases
  <2> QED BY <2>1, <2>2 DEF TypeOK
<1>12. ASSUME NEW k \in Senders, Marked(k) PROVE TypeOK'
  <2>1. UNCHANGED <<ops, shown, clock, online, woken, storage, applied, inForce, minted, presses,
     faults, outages, storedOver, mislaid, lostGrants, shared>>
    BY <1>12 DEF Marked, books, notes
  <2>2. sender' \in [Senders -> Work]
    BY <1>12, MarkedEffect
  <2>3. queue' \subseteq Row /\ \A x, y \in queue' : x.id = y.id => x = y
    BY <1>12, MarkedQueue
  <2> QED BY <2>1, <2>2, <2>3 DEF TypeOK
<1>13. ASSUME NEW k \in Senders, Presign(k) PROVE TypeOK'
  <2>1. UNCHANGED <<ops, shown, queue, clock, online, woken, storage, applied, inForce, presses, faults,
     outages, storedOver, mislaid, lostGrants, shared>>
    BY <1>13 DEF Presign, notes
  <2>2. sender' \in [Senders -> Work]
    BY <1>13, PresignEffect
  <2>3. PICK p \in Photos : minted' = [minted EXCEPT ![p] = minted[p] + 1]
    BY <1>13, PresignEffect
  <2>4. minted' \in [Photos -> Nat]
    BY <2>3 DEF TypeOK
  <2> QED BY <2>1, <2>2, <2>3, <2>4 DEF TypeOK
<1>14. ASSUME NEW k \in Senders, PresignLost(k) PROVE TypeOK'
  <2>1. UNCHANGED <<ops, shown, queue, clock, online, woken, storage, applied, inForce, outages,
     storedOver, mislaid, shared, presses>>
    BY <1>14 DEF PresignLost
  <2>2. sender' \in [Senders -> Work]
    BY <1>14, GoEffect DEF PresignLost, Phases, RowPhases, Senders
  <2>3. Current(k).id[1] \in Photos
    BY <1>14 DEF PresignLost, At, Listed, CurrentIsPhoto
  <2>4. minted' \in [Photos -> Nat] /\ lostGrants' \in [Photos -> Nat]
    <3>1. PICK p \in Photos : /\ minted' = [minted EXCEPT ![p] = minted[p] + 1]
                              /\ lostGrants' = [lostGrants EXCEPT ![p] = lostGrants[p] + 1]
      BY <1>14, <2>3 DEF PresignLost
    <3>2. minted[p] + 1 \in Nat /\ lostGrants[p] + 1 \in Nat
      BY DEF TypeOK
    <3>3. minted \in [Photos -> Nat] /\ lostGrants \in [Photos -> Nat]
      BY DEF TypeOK
    <3> QED BY <3>1, <3>2, <3>3
  <2>5. faults' \in 0 .. MaxFaults
    BY <1>14, Bounds DEF PresignLost, TypeOK
  <2> QED BY <2>1, <2>2, <2>3, <2>4, <2>5 DEF TypeOK
<1>15. ASSUME NEW k \in Senders, KeepGrant(k) PROVE TypeOK'
  <2>1. UNCHANGED <<ops, shown, queue, clock, online, woken, storage, applied, inForce, minted, presses,
     faults, outages, storedOver, mislaid, lostGrants, shared>>
    BY <1>15 DEF KeepGrant, books, notes, Read
  <2>2. sender' \in [Senders -> Work]
    BY <1>15, ReadEffect DEF KeepGrant, Phases, RowPhases
  <2> QED BY <2>1, <2>2 DEF TypeOK
<1>16. ASSUME NEW k \in Senders, Kept(k) PROVE TypeOK'
  <2>1. UNCHANGED <<ops, shown, clock, online, woken, storage, applied, inForce, minted, presses,
     faults, outages, storedOver, mislaid, lostGrants, shared>>
    BY <1>16 DEF Kept, books, notes
  <2>2. sender' \in [Senders -> Work]
    BY <1>16, GoEffect DEF Kept, Phases, RowPhases, Senders
  <2>3. queue' \subseteq Row /\ \A x, y \in queue' : x.id = y.id => x = y
    BY <1>16, KeptQueue
  <2> QED BY <2>1, <2>2, <2>3 DEF TypeOK
<1>17. ASSUME NEW k \in Senders, Send(k) PROVE TypeOK'
  <2>1. UNCHANGED <<ops, shown, queue, clock, online, woken, storage, minted, presses, faults,
     outages, storedOver, mislaid, lostGrants, shared>>
    BY <1>17 DEF Send, notes
  <2>2. sender' \in [Senders -> Work]
    BY <1>17, SendEffect
  <2>3. applied' \subseteq DOMAIN ops /\ inForce' \in [Subjects -> 0 .. MaxTaps]
    BY <1>17, CurrentAsked, AppliedTypes DEF Send, At, RowPhases
  <2> QED BY <2>1, <2>2, <2>3 DEF TypeOK
<1>18. ASSUME NEW k \in Senders, SendFails(k) PROVE TypeOK'
  <2>1. UNCHANGED <<ops, shown, queue, clock, online, woken, storage, minted, outages,
     storedOver, mislaid, lostGrants, shared, presses>>
    BY <1>18 DEF SendFails
  <2>2. sender' \in [Senders -> Work]
    BY <1>18, GoEffect DEF SendFails, Phases, RowPhases, Senders
  <2>4. faults' \in 0 .. MaxFaults
    BY <1>18, Bounds DEF SendFails, TypeOK
  <2>3. CASE UNCHANGED <<applied, inForce>>
    BY <2>1, <2>2, <2>3, <2>4 DEF TypeOK
  <2>5. CASE Apply(Current(k).n) /\ At(k, "send")
    <3>1. applied' \subseteq DOMAIN ops /\ inForce' \in [Subjects -> 0 .. MaxTaps]
      BY <2>5, CurrentAsked, AppliedTypes DEF At, RowPhases
    <3> QED BY <2>1, <2>2, <2>4, <3>1 DEF TypeOK
  <2> QED BY <1>18, <2>3, <2>5 DEF SendFails
<1>19. ASSUME NEW k \in Senders, SettleRow(k) PROVE TypeOK'
  <2>1. UNCHANGED <<ops, shown, queue, clock, online, woken, storage, applied, inForce, minted, presses,
     faults, outages, storedOver, mislaid, lostGrants, shared>>
    BY <1>19 DEF SettleRow, books, notes, Read
  <2>2. sender' \in [Senders -> Work]
    BY <1>19, ReadEffect DEF SettleRow, Phases, RowPhases
  <2> QED BY <2>1, <2>2 DEF TypeOK
<1>20. ASSUME NEW k \in Senders, Settled(k) PROVE TypeOK'
  <2>1. UNCHANGED <<ops, shown, clock, online, woken, storage, applied, inForce, minted, presses,
     faults, outages, storedOver, mislaid, lostGrants, shared>>
    BY <1>20 DEF Settled, books, notes
  <2>2. sender' \in [Senders -> Work]
    BY <1>20, SettledEffect
  <2>3. queue' \subseteq Row /\ \A x, y \in queue' : x.id = y.id => x = y
    BY <1>20, SettledQueue
  <2> QED BY <2>1, <2>2, <2>3 DEF TypeOK
<1>21. ASSUME NEW k \in Senders, Acknowledge(k) PROVE TypeOK'
  <2>1. UNCHANGED <<ops, shown, queue, clock, online, woken, storage, applied, inForce, minted, presses,
     faults, outages, storedOver, mislaid, lostGrants, shared>>
    BY <1>21 DEF Acknowledge, books, notes
  <2>2. sender' \in [Senders -> Work]
    BY <1>21, GoEffect DEF Acknowledge, Phases, RowPhases, Senders
  <2> QED BY <2>1, <2>2 DEF TypeOK
<1>22. ASSUME NEW k \in Senders, ListDone(k) PROVE TypeOK'
  <2>1. UNCHANGED <<ops, shown, clock, online, woken, storage, applied, inForce, minted, faults,
     outages, storedOver, mislaid, lostGrants, presses>>
    BY <1>22 DEF ListDone, books
  <2>2. sender' \in [Senders -> Work]
    BY <1>22, ListDoneEffect
  <2>3. queue' \subseteq Row /\ \A x, y \in queue' : x.id = y.id => x = y
    BY <1>22, PurgedQueue
  <2>4. shared' \subseteq Subjects
    BY <1>22, RowSubject DEF ListDone, Join, TypeOK
  <2> QED BY <2>1, <2>2, <2>3, <2>4 DEF TypeOK
<1>23. ASSUME NEW k \in Senders, RemoveDone(k) PROVE TypeOK'
  <2>1. UNCHANGED <<ops, shown, clock, online, woken, storage, applied, inForce, minted, presses,
     faults, outages, storedOver, mislaid, lostGrants, shared>>
    BY <1>23 DEF RemoveDone, books, notes
  <2>2. sender' \in [Senders -> Work]
    BY <1>23, RemoveDoneEffect
  <2>3. queue' \subseteq queue
    BY <1>23 DEF RemoveDone
  <2> QED BY <2>1, <2>2, <2>3 DEF TypeOK
<1>24. ASSUME NEW k \in Senders, SenderDies(k) PROVE TypeOK'
  <2>1. UNCHANGED <<ops, shown, queue, clock, online, woken, storage, applied, inForce, minted, presses,
     faults, outages, storedOver, mislaid, lostGrants, shared>>
    BY <1>24 DEF SenderDies, books, notes
  <2>2. sender' \in [Senders -> Work]
    BY <1>24, DiesEffect
  <2> QED BY <2>1, <2>2 DEF TypeOK
<1>25. ASSUME AutoDrain PROVE TypeOK'
  <2>1. UNCHANGED <<ops, shown, queue, clock, online, storage, applied, inForce, minted, faults,
     outages, storedOver, mislaid, lostGrants, presses>>
    BY <1>25 DEF AutoDrain, books
  <2>2. sender' \in [Senders -> Work]
    BY <1>25, StartEffect DEF AutoDrain, Unsent, Senders, TypeOK
  <2>3. shared' = shared \/ Join({x.id[1] : x \in Unsent})
    BY <1>25 DEF AutoDrain, Start
  <2>4. {x.id[1] : x \in Unsent} \subseteq Subjects
    BY RowSubject DEF Unsent
  <2>5. shared' \subseteq Subjects
    BY <2>3, <2>4 DEF Join, TypeOK
  <2>6. woken' \in BOOLEAN
    BY <1>25 DEF AutoDrain
  <2> QED BY <2>1, <2>2, <2>3, <2>4, <2>5, <2>6 DEF TypeOK
<1>26. ASSUME SendAll PROVE TypeOK'
  <2>1. UNCHANGED <<ops, shown, queue, clock, online, woken, storage, applied, inForce, minted, faults,
     outages, storedOver, mislaid, lostGrants>>
    BY <1>26 DEF SendAll, books
  <2>2. sender' \in [Senders -> Work]
    BY <1>26, StartEffect DEF SendAll, Unsent, Senders, TypeOK
  <2>3. shared' \subseteq Subjects
    BY <1>26, RowSubject DEF SendAll, Start, Join, Unsent, TypeOK
  <2>4. presses' \in 0 .. MaxPresses
    BY <1>26, Bounds DEF SendAll, Press, TypeOK
  <2> QED BY <2>1, <2>2, <2>3, <2>4 DEF TypeOK
<1>27. ASSUME NEW x \in queue, RetryRow(x) PROVE TypeOK'
  <2>1. UNCHANGED <<ops, shown, queue, clock, online, woken, storage, applied, inForce, minted, faults,
     outages, storedOver, mislaid, lostGrants>>
    BY <1>27 DEF RetryRow, books
  <2>2. sender' \in [Senders -> Work]
    BY <1>27, StartEffect DEF RetryRow, Unsent, Senders, TypeOK
  <2>3. shared' \subseteq Subjects
    BY <1>27, RowSubject DEF RetryRow, Start, Join, Unsent, TypeOK
  <2>4. presses' \in 0 .. MaxPresses
    BY <1>27, Bounds DEF RetryRow, Press, TypeOK
  <2> QED BY <2>1, <2>2, <2>3, <2>4 DEF TypeOK
<1>28. ASSUME OpenSyncPage PROVE TypeOK'
  <2>1. UNCHANGED <<ops, shown, queue, clock, online, woken, storage, applied, inForce, minted, faults,
     outages, storedOver, mislaid, lostGrants, shared>>
    BY <1>28 DEF OpenSyncPage, books
  <2>2. sender' \in [Senders -> Work]
    BY <1>28, GoEffect DEF OpenSyncPage, Phases, RowPhases, Senders
  <2>3. presses' \in 0 .. MaxPresses
    BY <1>28, Bounds DEF OpenSyncPage, Press, TypeOK
  <2> QED BY <2>1, <2>2, <2>3 DEF TypeOK
<1>29. ASSUME SignalLost PROVE TypeOK'
  <2>1. UNCHANGED <<ops, shown, queue, clock, sender, storage, applied, inForce, minted, faults,
     storedOver, mislaid, lostGrants, shared, presses>>
    BY <1>29 DEF SignalLost, books
  <2>2. online' \in BOOLEAN /\ woken' \in BOOLEAN
    BY <1>29 DEF SignalLost
  <2>3. outages' \in 0 .. MaxOutages
    BY <1>29, Bounds DEF SignalLost, TypeOK
  <2> QED BY <2>1, <2>2, <2>3 DEF TypeOK
<1>30. ASSUME SignalBack PROVE TypeOK'
  <2>1. UNCHANGED <<ops, shown, queue, clock, sender, storage, applied, inForce, minted, presses,
     faults, outages, storedOver, mislaid, lostGrants, shared>>
    BY <1>30 DEF SignalBack, books, notes
  <2>2. online' \in BOOLEAN
    BY <1>30 DEF SignalBack
  <2>3. woken' \in BOOLEAN
    BY <1>30 DEF SignalBack, At
  <2> QED BY <2>1, <2>2, <2>3 DEF TypeOK
<1>31. ASSUME StorageGone PROVE TypeOK'
  <2>1. UNCHANGED <<ops, shown, queue, clock, sender, online, woken, applied, inForce, minted, outages,
     storedOver, mislaid, lostGrants, shared, presses>>
    BY <1>31 DEF StorageGone, books
  <2>2. storage' \in BOOLEAN
    BY <1>31 DEF StorageGone
  <2>3. faults' \in 0 .. MaxFaults
    BY <1>31, Bounds DEF StorageGone, TypeOK
  <2> QED BY <2>1, <2>2, <2>3 DEF TypeOK
<1>32. ASSUME NEW n \in DOMAIN ops, PutRefused(n) PROVE TypeOK'
  <2>1. UNCHANGED <<queue, clock, sender, online, woken, storage, applied, inForce, minted,
     outages, storedOver, lostGrants, shared, presses>>
    BY <1>32 DEF PutRefused, books
  <2>2. ops' \in Seq(Op) /\ Len(ops') <= MaxTaps /\ DOMAIN ops' = DOMAIN ops
    BY <1>32, Bounds, StageEffect DEF PutRefused, Stages, TypeOK
  <2>3. shown' \in [Subjects -> 0 .. MaxTaps]
    BY <1>32, Bounds, OpIs DEF PutRefused, RollBack, TypeOK
  <2>4. faults' \in 0 .. MaxFaults
    BY <1>32, Bounds DEF PutRefused, TypeOK
  <2>5. mislaid' \subseteq Subjects
    BY <1>32, OpIs DEF PutRefused, TypeOK
  <2> QED BY <2>1, <2>2, <2>3, <2>4, <2>5 DEF TypeOK
<1>33. ASSUME NEW k \in Senders, Stalls(k) PROVE TypeOK'
  <2>1. UNCHANGED <<ops, shown, queue, clock, online, woken, storage, outages, storedOver,
     mislaid, shared, presses>>
    BY <1>33 DEF Stalls
  <2>2. sender' \in [Senders -> Work]
    BY <1>33, StallsEffect
  <2>3. faults' \in 0 .. MaxFaults
    BY <1>33, Bounds DEF Stalls, TypeOK
  <2>4. CASE /\ sender[k].pc = "presign" /\ UNCHANGED <<applied, inForce>>
             /\ minted' = [minted EXCEPT ![Current(k).id[1]] = minted[Current(k).id[1]] + 1]
             /\ lostGrants' =
                  [lostGrants EXCEPT ![Current(k).id[1]] = lostGrants[Current(k).id[1]] + 1]
    <3>1. Current(k).id[1] \in Photos
      BY <2>4 DEF At, Listed, CurrentIsPhoto
    <3>2. minted' \in [Photos -> Nat] /\ lostGrants' \in [Photos -> Nat]
      <4>1. PICK p \in Photos : /\ minted' = [minted EXCEPT ![p] = minted[p] + 1]
                                /\ lostGrants' = [lostGrants EXCEPT ![p] = lostGrants[p] + 1]
        BY <2>4, <3>1
      <4>2. minted[p] + 1 \in Nat /\ lostGrants[p] + 1 \in Nat
        BY DEF TypeOK
      <4>3. minted \in [Photos -> Nat] /\ lostGrants \in [Photos -> Nat]
        BY DEF TypeOK
      <4> QED BY <4>1, <4>2, <4>3
    <3> QED BY <2>1, <2>2, <2>3, <2>4, <3>2 DEF TypeOK
  <2>5. CASE sender[k].pc = "send" /\ Apply(Current(k).n) /\ UNCHANGED <<minted, lostGrants>>
    <3>1. applied' \subseteq DOMAIN ops /\ inForce' \in [Subjects -> 0 .. MaxTaps]
      BY <2>5, CurrentAsked, AppliedTypes DEF RowPhases
    <3> QED BY <2>1, <2>2, <2>3, <2>5, <3>1 DEF TypeOK
  <2>6. CASE UNCHANGED <<applied, inForce, minted, lostGrants>>
    BY <2>1, <2>2, <2>3, <2>6 DEF TypeOK
  <2> QED BY <1>33, <2>4, <2>5, <2>6, StallsBooks
<1> QED
  BY <1>1, <1>2, <1>3, <1>4, <1>5, <1>6, <1>7, <1>8, <1>9, <1>10, <1>11, <1>12, <1>13, <1>14,
     <1>15, <1>16, <1>17, <1>18, <1>19, <1>20, <1>21, <1>22, <1>23, <1>24, <1>25, <1>26, <1>27,
     <1>28, <1>29, <1>30, <1>31, <1>32, <1>33 DEF Next, CallStep, SenderStep

----------------------------------------------------------------------------
(* What the steps leave alone.                                              *)

\* A request's step: its stage, and nothing of the senders.
LEMMA CallFrame ==
  ASSUME TypeOK, NEW n \in DOMAIN ops, CallStep(n)
  PROVE  /\ UNCHANGED <<sender, minted, shared, storage>> /\ mislaid \subseteq mislaid'
         /\ applied \subseteq applied' /\ (~ Serve(n) => UNCHANGED <<applied, inForce>>)
         /\ ~ Store(n) => UNCHANGED lostGrants
         /\ DOMAIN ops' = DOMAIN ops /\ Len(ops') = Len(ops) /\ ops[n].stage # "over"
         /\ \A m \in DOMAIN ops : /\ ops'[m].s = ops[m].s /\ ops'[m].d = ops[m].d
                                  /\ ops'[m].prev = ops[m].prev
                                  /\ m # n => /\ ops'[m].stage = ops[m].stage
                                              /\ ops'[m].victims = ops[m].victims
<1>1. CASE Serve(n)
  <2>1. Stage(n, "served") /\ UNCHANGED <<sender, minted, lostGrants, shared, storage, mislaid>>
        /\ applied \subseteq applied' /\ ops[n].stage # "over"
    BY <1>1 DEF Serve, Apply, notes
  <2> QED BY <1>1, <2>1, StageEffect DEF Stages
<1>2. CASE Answer(n) \/ Refuse(n) \/ StoreFails(n) \/ PutRefused(n)
  <2>1. /\ Stage(n, "over") /\ ops[n].stage # "over" /\ mislaid \subseteq mislaid'
        /\ UNCHANGED <<sender, minted, lostGrants, shared, storage, applied, inForce>>
    BY <1>2 DEF Answer, Refuse, StoreFails, PutRefused, books, notes
  <2> QED BY <2>1, StageEffect DEF Stages
<1>3. CASE Lose(n)
  <2>1. PICK stage \in {"listing", "storing"} : Stage(n, stage)
    BY <1>3 DEF Lose
  <2>2. UNCHANGED <<sender, minted, lostGrants, shared, storage, applied, inForce, mislaid>>
        /\ ops[n].stage # "over"
    BY <1>3 DEF Lose, books
  <2> QED BY <2>1, <2>2, StageEffect DEF Stages
<1>4. CASE Store(n)
  <2>1. Stage(n, "over") /\ UNCHANGED <<sender, minted, shared, storage, applied, inForce, mislaid>>
        /\ ops[n].stage # "over"
    BY <1>4 DEF Store, books
  <2> QED BY <1>4, <2>1, StageEffect DEF Stages
<1>5. CASE ListOlder(n)
  <2>1. UNCHANGED <<sender, minted, lostGrants, shared, storage, applied, inForce, mislaid>>
        /\ ops[n].stage # "over"
    BY <1>5 DEF ListOlder, books, notes
  <2> QED BY <1>5, <2>1, ListOlderEffect
<1>6. CASE RemoveOlder(n)
  <2>1. UNCHANGED <<sender, minted, lostGrants, shared, storage, applied, inForce, mislaid>>
        /\ ops[n].stage # "over"
    BY <1>6 DEF RemoveOlder, books, notes
  <2> QED BY <1>6, <2>1, RemoveOlderEffect
<1> QED BY <1>1, <1>2, <1>3, <1>4, <1>5, <1>6 DEF CallStep

\* A sender's step: nothing of the requests and the screens.
LEMMA SenderFrame ==
  ASSUME NEW k \in Senders, SenderStep(k)
  PROVE  /\ UNCHANGED <<ops, shown, clock, online, storage, storedOver, mislaid>>
         /\ applied \subseteq applied'
<1>1. CASE MarkRow(k) \/ KeepGrant(k) \/ SettleRow(k)
  BY <1>1 DEF MarkRow, KeepGrant, SettleRow, Read, books, notes
<1>2. CASE Marked(k) \/ Kept(k) \/ Settled(k) \/ Acknowledge(k)
  BY <1>2 DEF Marked, Kept, Settled, Acknowledge, books, notes
<1>3. CASE Presign(k) \/ PresignLost(k)
  BY <1>3 DEF Presign, PresignLost, notes
<1>4. CASE Send(k) \/ SendFails(k) \/ Stalls(k)
  BY <1>4 DEF Send, SendFails, Stalls, Apply, books, notes
<1>5. CASE ListDone(k) \/ RemoveDone(k) \/ SenderDies(k)
  BY <1>5 DEF ListDone, RemoveDone, SenderDies, books, notes
<1> QED BY <1>1, <1>2, <1>3, <1>4, <1>5 DEF SenderStep

\* What is carried out in a sender's step.
LEMMA AppliedBy ==
  ASSUME NEW k \in Senders, SenderStep(k)
  PROVE  \/ UNCHANGED <<applied, inForce>>
         \/ sender[k].pc = "send" /\ Apply(Current(k).n) /\ queue' = queue
<1>1. CASE Send(k) \/ SendFails(k)
  BY <1>1 DEF Send, SendFails, At
<1>2. CASE Stalls(k)
  BY <1>2, StallsBooks DEF Stalls
<1>3. CASE ~ (Send(k) \/ SendFails(k) \/ Stalls(k))
  BY <1>3 DEF SenderStep, MarkRow, KeepGrant, SettleRow, Read, Marked, Presign, PresignLost, Kept,
              Settled, Acknowledge, ListDone, RemoveDone, SenderDies, books
<1> QED BY <1>1, <1>2, <1>3

\* A drain or a retry that starts, or does not.
Starts == AutoDrain \/ SendAll \/ \E x \in queue : RetryRow(x)
LEMMA StartsFrame ==
  ASSUME Starts
  PROVE  /\ UNCHANGED <<ops, shown, queue, clock, online, storage, applied, inForce, minted,
                        lostGrants, mislaid, storedOver>>
         /\ \/ UNCHANGED <<sender, shared>>
            \/ \E k \in Senders, rows \in SUBSET Unsent :
                 /\ rows # {} /\ storage /\ sender[k].pc = "idle" /\ Start(k, rows)
<1>1. CASE AutoDrain
  <2>1. UNCHANGED <<ops, shown, queue, clock, online, storage, applied, inForce, minted,
                    lostGrants, mislaid, storedOver>>
    BY <1>1 DEF AutoDrain, books
  <2>2. \/ UNCHANGED <<sender, shared>>
        \/ Unsent # {} /\ storage /\ sender["drain"].pc = "idle" /\ Start("drain", Unsent)
    BY <1>1 DEF AutoDrain, At
  <2> QED BY <2>1, <2>2 DEF Senders
<1>2. CASE SendAll
  <2>1. UNCHANGED <<ops, shown, queue, clock, online, storage, applied, inForce, minted,
                    lostGrants, mislaid, storedOver>>
    BY <1>2 DEF SendAll, books
  <2>2. Unsent # {} /\ storage /\ sender["drain"].pc = "idle" /\ Start("drain", Unsent)
    BY <1>2 DEF SendAll, At, Unsent
  <2> QED BY <2>1, <2>2 DEF Senders
<1>3. ASSUME NEW x \in queue, RetryRow(x)
      PROVE  /\ UNCHANGED <<ops, shown, queue, clock, online, storage, applied, inForce, minted,
                            lostGrants, mislaid, storedOver>>
             /\ {x} # {} /\ storage /\ sender["retry"].pc = "idle" /\ Start("retry", {x})
             /\ {x} \subseteq Unsent
  BY <1>3 DEF RetryRow, At, Unsent, books
<1> QED BY <1>1, <1>2, <1>3 DEF Starts, Senders

\* The sync page opens, the signal comes and goes, the storage goes.
Around == OpenSyncPage \/ SignalLost \/ SignalBack \/ StorageGone
LEMMA AroundFrame ==
  ASSUME TypeOK, Listed, Around
  PROVE  /\ UNCHANGED <<ops, shown, queue, clock, applied, inForce, minted, lostGrants,
                       mislaid, storedOver, shared>>
         /\ storage' => storage
         /\ \/ UNCHANGED sender
            \/ /\ Others("page") /\ sender["page"].pc = "idle" /\ sender'["page"].pc = "purge"
               /\ sender'["page"].todo = {} /\ sender'["page"].trash = {}
               /\ sender'["page"].copy = sender["page"].copy
               /\ sender'["page"].ok = sender["page"].ok
<1>1. CASE OpenSyncPage
  <2>1. /\ UNCHANGED <<ops, shown, queue, clock, applied, inForce, minted, lostGrants,
                       mislaid, storedOver, shared,
                       storage>>
        /\ Go("page", "purge") /\ sender["page"].pc = "idle"
    BY <1>1 DEF OpenSyncPage, At, books
  <2>2. sender["page"].todo = {} /\ sender["page"].trash = {}
    BY <2>1 DEF Listed, Senders, RowPhases
  <2> QED BY <2>1, <2>2, GoEffect DEF Senders, Phases
<1>2. CASE SignalLost \/ SignalBack
  BY <1>2 DEF SignalLost, SignalBack, books, notes
<1>3. CASE StorageGone
  BY <1>3 DEF StorageGone, books
<1> QED BY <1>1, <1>2, <1>3 DEF Around

\* The steps there are.
LEMMA StepsAre ==
  ASSUME Next
  PROVE  \/ \E s \in Subjects : \E d \in Decisions(s) : Tap(s, d)
         \/ \E n \in DOMAIN ops : CallStep(n)
         \/ \E k \in Senders : SenderStep(k)
         \/ Starts \/ Around
BY DEF Next, Starts, Around

----------------------------------------------------------------------------
(* Where rows come from.                                                    *)

\* A request that is over stays what it is.
LEMMA FromTapStays ==
  ASSUME NEW x, FromTap(x), DOMAIN ops \subseteq DOMAIN ops',
         \A m \in DOMAIN ops : /\ ops'[m].s = ops[m].s /\ ops'[m].d = ops[m].d
                               /\ ops[m].stage = "over" => ops'[m].stage = "over"
  PROVE  FromTap(x)'
BY DEF FromTap

LEMMA RewrittenTraced ==
  ASSUME RowsTraced, UNCHANGED ops, NEW k \in Senders, NEW st, NEW g,
         RewrittenAs(k, st) \/ RewrittenWith(k, g)
  PROVE  \A y \in queue' : FromTap(y)'
BY DEF RewrittenAs, RewrittenWith, Restated, Regranted, RowsTraced, FromTap

LEMMA RowsTracedTap ==
  ASSUME TypeOK, RowsTraced, NEW s \in Subjects, NEW d \in Decisions(s), Tap(s, d)
  PROVE  RowsTraced'
<1>1. UNCHANGED <<queue, sender>> /\ DOMAIN ops \subseteq DOMAIN ops'
      /\ \A m \in DOMAIN ops : ops'[m] = ops[m]
  BY TapEffect DEF Tap
<1> QED BY <1>1, FromTapStays DEF RowsTraced

LEMMA RowsTracedCall ==
  ASSUME TypeOK, Traced, Roomy, NEW n \in DOMAIN ops, CallStep(n)
  PROVE  RowsTraced'
<1>1. /\ sender' = sender /\ DOMAIN ops' = DOMAIN ops /\ ops[n].stage # "over"
      /\ \A m \in DOMAIN ops : /\ ops'[m].s = ops[m].s /\ ops'[m].d = ops[m].d
                               /\ m # n => ops'[m].stage = ops[m].stage
  BY CallFrame
<1>2. \A x : FromTap(x) => FromTap(x)'
  BY <1>1, FromTapStays
<1>3. \A k \in Senders : \A x \in sender'[k].todo \cup sender'[k].copy : FromTap(x)'
  BY <1>1, <1>2 DEF Traced, RowsTraced
<1>4. CASE Store(n)
  <2>1. PICK r \in Row : /\ r.id = <<ops[n].s, ops[n].d>> /\ r.n = n
                         /\ queue' = (queue \ RowsOf(r.id)) \cup {r}
    BY <1>4, StoreEffect
  <2>2. ops'[n].stage = "over"
    BY <1>4, StageEffect DEF Store, Stages
  <2>3. FromTap(r)'
    BY <1>1, <2>1, <2>2 DEF FromTap
  <2> QED BY <1>2, <1>3, <2>1, <2>3 DEF Traced, RowsTraced
<1>5. CASE ~ Store(n)
  <2>1. queue' \subseteq queue
    BY <1>5 DEF CallStep, Serve, Answer, Refuse, Lose, ListOlder, RemoveOlder, StoreFails, PutRefused
  <2> QED BY <1>2, <1>3, <2>1 DEF Traced, RowsTraced
<1> QED BY <1>4, <1>5

LEMMA RowsTracedSender ==
  ASSUME TypeOK, RowsTraced, Listed, NEW k \in Senders, SenderStep(k)
  PROVE  RowsTraced'
<1>1. ops' = ops /\ \A x : FromTap(x)' <=> FromTap(x)
  BY SenderFrame DEF FromTap
<1>2. ASSUME NEW todo, NEW copy, Others(k), sender'[k].todo = todo, sender'[k].copy = copy,
             todo \subseteq sender[k].todo, copy \subseteq queue \cup sender[k].copy,
             \A x \in queue' : FromTap(x)
      PROVE  RowsTraced'
  BY <1>1, <1>2 DEF RowsTraced, Others
<1>3. \A x \in queue : FromTap(x)
  BY DEF RowsTraced
<1>4. CASE MarkRow(k) \/ KeepGrant(k) \/ SettleRow(k)
  <2>1. PICK from, to \in Phases : Read(k, from, to)
    BY <1>4 DEF MarkRow, KeepGrant, SettleRow, Phases, RowPhases
  <2>2. /\ Others(k) /\ sender'[k].todo = sender[k].todo
        /\ sender'[k].copy = RowsOf(Current(k).id) /\ queue' = queue
    BY <2>1, ReadEffect DEF Read
  <2> QED BY <1>2, <1>3, <2>2 DEF RowsOf
<1>5. CASE Marked(k)
  <2>1. \A x \in queue' : FromTap(x)
    BY <1>1, <1>5, MarkedQueue, RewrittenTraced
  <2>2. Others(k) /\ sender'[k].todo = sender[k].todo /\ sender'[k].copy = {}
    BY <1>5, MarkedEffect
  <2> QED BY <1>2, <2>1, <2>2
<1>6. CASE Kept(k)
  <2>1. \A x \in queue' : FromTap(x)
    BY <1>1, <1>6, KeptQueue, RewrittenTraced
  <2>2. Others(k) /\ sender'[k].todo = sender[k].todo /\ sender'[k].copy = sender[k].copy
    BY <1>6, GoEffect DEF Kept, Phases, RowPhases
  <2> QED BY <1>2, <2>1, <2>2
<1>7. CASE Settled(k)
  <2>1. \A x \in queue' : FromTap(x)
    BY <1>1, <1>7, SettledQueue, RewrittenTraced
  <2>2. Others(k) /\ sender'[k].todo \subseteq sender[k].todo /\ sender'[k].copy = {}
    BY <1>7, SettledEffect
  <2> QED BY <1>2, <2>1, <2>2
<1>8. CASE PresignLost(k) \/ SendFails(k) \/ Stalls(k) \/ Acknowledge(k)
  <2>1. PICK pc \in Phases : Go(k, pc) /\ queue' = queue
    BY <1>8 DEF PresignLost, SendFails, Stalls, Acknowledge, Phases, RowPhases
  <2>2. Others(k) /\ sender'[k].todo = sender[k].todo /\ sender'[k].copy = sender[k].copy
    BY <2>1, GoEffect
  <2> QED BY <1>2, <1>3, <2>1, <2>2
<1>9. CASE Presign(k) \/ Send(k)
  <2>1. Others(k) /\ sender'[k].todo = sender[k].todo /\ sender'[k].copy = sender[k].copy
    BY <1>9, PresignEffect, SendEffect
  <2>2. queue' = queue
    BY <1>9 DEF Presign, Send
  <2> QED BY <1>2, <1>3, <2>1, <2>2
<1>10. CASE ListDone(k)
  <2>1. \A y \in queue' : \E x \in queue : Same(x, y)
    BY <1>10, PurgedQueue
  <2>2. \A y \in queue' : FromTap(y)
    BY <1>3, <2>1 DEF Same, FromTap
  <2>3. Others(k) /\ sender'[k].todo = {} /\ sender'[k].copy = {}
    BY <1>10, ListDoneEffect
  <2> QED BY <1>2, <2>2, <2>3
<1>11. CASE RemoveDone(k)
  <2>1. /\ Others(k) /\ sender'[k].todo \subseteq sender[k].todo
        /\ sender'[k].copy \subseteq sender[k].copy
        /\ queue' \subseteq queue
    BY <1>11, RemoveDoneEffect DEF IdleAt
  <2> QED BY <1>2, <1>3, <2>1
<1>12. CASE SenderDies(k)
  <2>1. Others(k) /\ sender'[k].todo = {} /\ sender'[k].copy = {} /\ queue' = queue
    BY <1>12, DiesEffect DEF IdleAt, SenderDies
  <2> QED BY <1>2, <1>3, <2>1
<1> QED BY <1>4, <1>5, <1>6, <1>7, <1>8, <1>9, <1>10, <1>11, <1>12 DEF SenderStep

LEMMA RowsTracedNext ==
  TypeOK /\ Traced /\ Roomy /\ Listed /\ [Next]_vars => RowsTraced'
<1> SUFFICES ASSUME TypeOK, Traced, Roomy, Listed, [Next]_vars
             PROVE  RowsTraced'
  OBVIOUS
<1>0. RowsTraced
  BY DEF Traced
<1>1. CASE UNCHANGED vars
  BY <1>0, <1>1 DEF vars, phone, RowsTraced, FromTap
<1>2. CASE Starts
  <2>1. ops' = ops /\ queue' = queue
    BY <1>2, StartsFrame
  <2>2. CASE sender' = sender
    BY <1>0, <2>1, <2>2 DEF RowsTraced, FromTap
  <2>3. ASSUME NEW k \in Senders, NEW rows \in SUBSET Unsent, Start(k, rows) PROVE RowsTraced'
    <3>1. rows \in SUBSET queue
      BY DEF Unsent
    <3>2. Others(k) /\ sender'[k].todo = rows /\ sender'[k].copy = {}
      BY <2>3, <3>1, StartEffect
    <3> QED BY <1>0, <2>1, <3>1, <3>2 DEF RowsTraced, FromTap, Others
  <2> QED BY <1>2, <2>2, <2>3, StartsFrame
<1>3. CASE Around
  <2>1. ops' = ops /\ queue' = queue
        /\ \A k \in Senders : sender'[k].todo \subseteq sender[k].todo
                              /\ sender'[k].copy = sender[k].copy
    BY <1>3, AroundFrame DEF Others, Senders
  <2> QED BY <1>0, <2>1 DEF RowsTraced, FromTap
<1> QED BY <1>0, <1>1, <1>2, <1>3, StepsAre, RowsTracedTap, RowsTracedCall, RowsTracedSender

LEMMA OpsTracedNext ==
  TypeOK /\ OpsTraced /\ ShownTraced /\ Listed /\ RowsTraced /\ [Next]_vars => OpsTraced'
<1> SUFFICES ASSUME TypeOK, OpsTraced, ShownTraced, Listed, RowsTraced, [Next]_vars PROVE OpsTraced'
  OBVIOUS
<1>1. ASSUME ops' = ops, applied \subseteq applied' PROVE OpsTraced'
  BY <1>1 DEF OpsTraced, OpTraced
<1>2. CASE UNCHANGED vars
  BY <1>1, <1>2 DEF vars, phone, books
<1>3. ASSUME NEW s \in Subjects, NEW d \in Decisions(s), Tap(s, d) PROVE OpsTraced'
  <2>1. /\ DOMAIN ops = 1 .. Len(ops) /\ DOMAIN ops' = 1 .. Len(ops) + 1 /\ Len(ops) \in Nat
        /\ \A m \in DOMAIN ops : ops'[m] = ops[m]
    BY <1>3, TapEffect DEF TypeOK
  <2>2. applied' = applied
    BY <1>3 DEF Tap, books
  <2>3. \A m \in DOMAIN ops : OpTraced(m)'
    BY <2>1, <2>2 DEF OpsTraced, OpTraced
  <2>4. /\ ops'[Len(ops) + 1].s = s /\ ops'[Len(ops) + 1].d = d
        /\ ops'[Len(ops) + 1].prev = shown[s] /\ ops'[Len(ops) + 1].stage = "sent"
        /\ ops'[Len(ops) + 1].victims = {}
    BY <1>3, TapEffect
  <2>5. PICK m : m = Len(ops) + 1
    OBVIOUS
  <2>6. shown[s] # 0 => shown[s] \in 1 .. m - 1 /\ ops'[shown[s]].s = s
    BY <2>1, <2>5 DEF ShownTraced
  <2>7. OpTraced(m)'
    BY <2>4, <2>5, <2>6 DEF OpTraced
  <2> QED BY <2>1, <2>3, <2>5, <2>7 DEF OpsTraced
<1>4. ASSUME NEW n \in DOMAIN ops, CallStep(n) PROVE OpsTraced'
  <2>1. /\ applied \subseteq applied' /\ DOMAIN ops' = DOMAIN ops /\ DOMAIN ops = 1 .. Len(ops)
        /\ \A m \in DOMAIN ops : /\ ops'[m].s = ops[m].s /\ ops'[m].d = ops[m].d
                                 /\ ops'[m].prev = ops[m].prev
                                 /\ m # n => /\ ops'[m].stage = ops[m].stage
                                             /\ ops'[m].victims = ops[m].victims
    BY <1>4, CallFrame DEF TypeOK
  <2>2. ASSUME NEW m \in DOMAIN ops
        PROVE  ops'[m].prev # 0 => ops'[m].prev \in 1 .. m - 1 /\ ops'[ops'[m].prev].s = ops'[m].s
    <3>1. ops'[m].prev # 0 => ops[m].prev \in DOMAIN ops /\ ops[m].prev \in 1 .. m - 1
      BY <2>1 DEF OpsTraced, OpTraced
    <3> QED BY <2>1, <3>1 DEF OpsTraced, OpTraced
  <2>3. ops'[n].stage = "served" => n \in applied'
    <3>1. CASE Serve(n)
      BY <3>1 DEF Serve, Apply
    <3>2. CASE ~ Serve(n)
      <4>1. CASE ListOlder(n) \/ RemoveOlder(n)
        BY <4>1, ListOlderEffect, RemoveOlderEffect
      <4>2. CASE ~ (ListOlder(n) \/ RemoveOlder(n))
        <5>1. \E stage \in Stages \ {"served"} : Stage(n, stage)
          BY <1>4, <3>2, <4>2 DEF CallStep, Answer, Refuse, Lose, Store, StoreFails, PutRefused, Stages
        <5> QED BY <5>1, StageEffect
      <4> QED BY <4>1, <4>2
    <3> QED BY <3>1, <3>2
  <2>4. \A id \in ops'[n].victims : id[1] = ops[n].s
    <3>1. CASE ListOlder(n) \/ RemoveOlder(n)
      BY <3>1, ListOlderEffect, RemoveOlderEffect DEF OpsTraced, OpTraced
    <3>2. CASE ~ (ListOlder(n) \/ RemoveOlder(n))
      <4>1. \E stage \in Stages : Stage(n, stage)
        BY <1>4, <3>2 DEF CallStep, Serve, Answer, Refuse, Lose, Store, StoreFails, PutRefused, Stages
      <4> QED BY <4>1, StageEffect DEF OpsTraced, OpTraced
    <3> QED BY <3>1, <3>2
  <2>5. ops'[n].stage \in {"listing", "removing"} => ops[n].s \in Gaps \cup Chores
    <3>1. CASE Lose(n)
      <4>1. Stage(n, IF ops[n].s \in Gaps \cup Chores THEN "listing" ELSE "storing")
        BY <3>1 DEF Lose
      <4>2. ops'[n].stage = IF ops[n].s \in Gaps \cup Chores THEN "listing" ELSE "storing"
        BY <4>1, StageEffect DEF Stages
      <4> QED BY <4>2
    <3>2. CASE ListOlder(n) \/ RemoveOlder(n)
      BY <3>2 DEF ListOlder, RemoveOlder, OpsTraced, OpTraced
    <3>3. CASE ~ (Lose(n) \/ ListOlder(n) \/ RemoveOlder(n))
      <4>1. Stage(n, "served") \/ Stage(n, "over")
        BY <1>4, <3>3 DEF CallStep, Serve, Answer, Refuse, Store, StoreFails, PutRefused
      <4> QED BY <4>1, StageEffect DEF Stages
    <3> QED BY <3>1, <3>2, <3>3
  <2> QED BY <2>1, <2>2, <2>3, <2>4, <2>5 DEF OpsTraced, OpTraced
<1> QED BY <1>1, <1>2, <1>3, <1>4, StepsAre, SenderFrame, StartsFrame, AroundFrame

LEMMA ShownTracedNext ==
  TypeOK /\ OpsTraced /\ ShownTraced /\ Listed /\ [Next]_vars => ShownTraced'
<1> SUFFICES ASSUME TypeOK, OpsTraced, ShownTraced, Listed, [Next]_vars PROVE ShownTraced'
  OBVIOUS
<1>1. ASSUME UNCHANGED <<ops, shown>> PROVE ShownTraced'
  BY <1>1 DEF ShownTraced
<1>2. CASE UNCHANGED vars
  BY <1>1, <1>2 DEF vars, phone
<1>3. ASSUME NEW s \in Subjects, NEW d \in Decisions(s), Tap(s, d) PROVE ShownTraced'
  <2>1. /\ DOMAIN ops = 1 .. Len(ops) /\ DOMAIN ops' = 1 .. Len(ops) + 1 /\ Len(ops) \in Nat
        /\ \A m \in DOMAIN ops : ops'[m] = ops[m]
        /\ ops'[Len(ops) + 1].s = s
    BY <1>3, TapEffect DEF TypeOK
  <2>2. shown' = shown \/ shown' = [shown EXCEPT ![s] = Len(ops) + 1]
    BY <1>3 DEF Tap
  <2> QED BY <2>1, <2>2 DEF ShownTraced, TypeOK
<1>4. ASSUME NEW n \in DOMAIN ops, CallStep(n) PROVE ShownTraced'
  <2>1. /\ DOMAIN ops' = DOMAIN ops /\ \A m \in DOMAIN ops : ops'[m].s = ops[m].s
    BY <1>4, CallFrame
  <2>2. \/ shown' = shown
        \/ shown' = [shown EXCEPT ![ops[n].s] = n]
        \/ shown' = [shown EXCEPT ![ops[n].s] = ops[n].prev]
    BY <1>4 DEF CallStep, Serve, Answer, Refuse, RollBack, Lose, ListOlder, RemoveOlder, Store,
                Show, StoreFails, PutRefused
  <2>3. ops[n].prev # 0 => ops[n].prev \in DOMAIN ops /\ ops[ops[n].prev].s = ops[n].s
    <3>1. DOMAIN ops = 1 .. Len(ops) /\ Len(ops) \in Nat
      BY DEF TypeOK
    <3> QED BY <3>1 DEF OpsTraced, OpTraced
  <2> QED BY <2>1, <2>2, <2>3, SMTT(20) DEF ShownTraced, TypeOK
<1> QED BY <1>1, <1>2, <1>3, <1>4, StepsAre, SenderFrame, StartsFrame, AroundFrame

LEMMA ForceTracedNext ==
  TypeOK /\ Listed /\ Traced /\ [Next]_vars => ForceTraced'
<1> SUFFICES ASSUME TypeOK, Listed, Traced, [Next]_vars PROVE ForceTraced'
  OBVIOUS
<1>1. ASSUME inForce' = inForce, DOMAIN ops \subseteq DOMAIN ops',
             \A m \in DOMAIN ops : ops'[m].s = ops[m].s
      PROVE  ForceTraced'
  BY <1>1 DEF Traced, ForceTraced
<1>2. ASSUME NEW n \in DOMAIN ops, Apply(n), DOMAIN ops' = DOMAIN ops,
             \A m \in DOMAIN ops : ops'[m].s = ops[m].s
      PROVE  ForceTraced'
  <2>1. \A s \in Subjects : inForce'[s] = IF s = ops[n].s THEN n ELSE inForce[s]
    BY <1>2 DEF Apply, TypeOK
  <2> QED BY <1>2, <2>1 DEF Traced, ForceTraced
<1>3. CASE UNCHANGED vars
  BY <1>1, <1>3 DEF vars, phone, books
<1>4. ASSUME NEW s \in Subjects, NEW d \in Decisions(s), Tap(s, d) PROVE ForceTraced'
  <2>1. /\ inForce' = inForce /\ DOMAIN ops \subseteq DOMAIN ops'
        /\ \A m \in DOMAIN ops : ops'[m] = ops[m]
    BY <1>4, TapEffect DEF Tap, books, TypeOK
  <2> QED BY <1>1, <2>1
<1>5. ASSUME NEW n \in DOMAIN ops, CallStep(n) PROVE ForceTraced'
  BY <1>1, <1>2, <1>5, CallFrame DEF Serve
<1>6. ASSUME NEW k \in Senders, SenderStep(k) PROVE ForceTraced'
  <2>1. ops' = ops
    BY <1>6, SenderFrame
  <2>2. CASE inForce' = inForce
    BY <1>1, <2>1, <2>2
  <2>3. CASE sender[k].pc = "send" /\ Apply(Current(k).n)
    <3>1. Current(k).n \in DOMAIN ops
      BY <2>3, CurrentAsked DEF RowPhases
    <3> QED BY <1>2, <2>1, <2>3, <3>1
  <2> QED BY <1>6, <2>2, <2>3, AppliedBy
<1> QED BY <1>1, <1>3, <1>4, <1>5, <1>6, StepsAre, StartsFrame, AroundFrame

----------------------------------------------------------------------------
(* Room for what is stored, and what the senders have on their lists.       *)

LEMMA OutstandingFinite ==
  ASSUME TypeOK
  PROVE  /\ DOMAIN ops = 1 .. Len(ops) /\ Len(ops) \in Nat /\ clock \in Nat
         /\ IsFiniteSet(Outstanding) /\ Cardinality(Outstanding) \in Nat
<1>1. DOMAIN ops = 1 .. Len(ops) /\ Len(ops) \in Nat /\ clock \in Nat
  BY DEF TypeOK
<1>2. IsFiniteSet(1 .. Len(ops)) /\ Outstanding \in SUBSET (1 .. Len(ops))
  BY <1>1, FS_Interval DEF Outstanding
<1>3. IsFiniteSet(Outstanding)
  BY <1>2, FS_Subset
<1> QED BY <1>1, <1>3, FS_CardinalityType

LEMMA RoomyNext ==
  TypeOK /\ Traced /\ Roomy /\ Listed /\ [Next]_vars => Roomy'
<1> SUFFICES ASSUME TypeOK, Traced, Roomy, Listed, [Next]_vars PROVE Roomy'
  OBVIOUS
<1>1. ASSUME UNCHANGED <<ops, clock>> PROVE Roomy'
  BY <1>1 DEF Roomy, Outstanding
<1>2. CASE UNCHANGED vars
  BY <1>1, <1>2 DEF vars, phone
<1>3. ASSUME NEW s \in Subjects, NEW d \in Decisions(s), Tap(s, d) PROVE Roomy'
  <2>1. /\ DOMAIN ops' = 1 .. Len(ops) + 1 /\ Len(ops') = Len(ops) + 1
        /\ \A m \in DOMAIN ops : ops'[m] = ops[m]
        /\ ops'[Len(ops) + 1].stage = "sent" /\ clock' = clock
    BY <1>3, TapEffect DEF Tap
  <2>2. Outstanding' = Outstanding \cup {Len(ops) + 1}
    BY <2>1, OutstandingFinite DEF Outstanding
  <2>3. Cardinality(Outstanding') <= Cardinality(Outstanding) + 1
    BY <2>2, OutstandingFinite, FS_AddElement
  <2>4. TypeOK' /\ Cardinality(Outstanding') \in Nat
    <3>1. TypeOK'
      BY TypeNext
    <3>2. IsFiniteSet(Outstanding \cup {Len(ops) + 1})
      BY OutstandingFinite, FS_AddElement
    <3>3. Cardinality(Outstanding') \in Nat
      BY <2>2, <3>2, FS_CardinalityType
    <3> QED BY <3>1, <3>3
  <2> QED BY <2>1, <2>3, <2>4, OutstandingFinite DEF Roomy
<1>4. ASSUME NEW n \in DOMAIN ops, CallStep(n) PROVE Roomy'
  <2>1. /\ DOMAIN ops' = DOMAIN ops /\ Len(ops') = Len(ops) /\ ops[n].stage # "over"
        /\ \A m \in DOMAIN ops : m # n => ops'[m].stage = ops[m].stage
    BY <1>4, CallFrame
  <2>2. CASE Store(n)
    <3>1. clock' = clock + 1 /\ ops'[n].stage = "over"
      BY <2>2, StageEffect DEF Store, Stages
    <3>2. Outstanding' = Outstanding \ {n} /\ n \in Outstanding
      BY <2>1, <3>1 DEF Outstanding
    <3>3. Cardinality(Outstanding') = Cardinality(Outstanding) - 1
      BY <3>2, OutstandingFinite, FS_RemoveElement
    <3> QED BY <2>1, <3>1, <3>3, OutstandingFinite DEF Roomy
  <2>3. CASE ~ Store(n)
    <3>1. clock' = clock
      BY <1>4, <2>3 DEF CallStep, Serve, Answer, Refuse, Lose, ListOlder, RemoveOlder, StoreFails, PutRefused
    <3>2. Outstanding' \in SUBSET Outstanding
      BY <2>1 DEF Outstanding
    <3>3. Cardinality(Outstanding') <= Cardinality(Outstanding) /\ Cardinality(Outstanding') \in Nat
      BY <3>2, OutstandingFinite, FS_Subset, FS_CardinalityType
    <3> QED BY <2>1, <3>1, <3>3, OutstandingFinite DEF Roomy
  <2> QED BY <2>2, <2>3
<1> QED BY <1>1, <1>2, <1>3, <1>4, StepsAre, SenderFrame, StartsFrame, AroundFrame

\* What is listed of one sender.
ListedAt(k) ==
  /\ sender[k].todo # {} <=> sender[k].pc \in RowPhases
  /\ sender[k].trash # {} <=> sender[k].pc = "purging"
  /\ \A x, y \in sender[k].todo : x.id = y.id => x = y
  /\ \A x, y \in sender[k].copy : x = y
  /\ sender[k].pc \in Holding => \A y \in sender[k].copy : y.id = Current(k).id
  /\ sender[k].pc \in {"presign", "keep", "keeping"} => CurrentIsPhoto(k)
  /\ sender[k].ok => sender[k].pc \in {"settle", "settling"} /\ Current(k).n \in applied

LEMMA ListedEach == Listed <=> \A k \in Senders : ListedAt(k)
BY DEF Listed, ListedAt

\* A sender that does not move, or moves on without touching its list.
LEMMA ListedStays ==
  ASSUME NEW k, ListedAt(k), sender'[k] = sender[k], applied \subseteq applied'
  PROVE  ListedAt(k)'
BY DEF ListedAt, Current, CurrentIsPhoto

LEMMA ListedOthers ==
  ASSUME Listed, NEW k \in Senders, Others(k), applied \subseteq applied', ListedAt(k)'
  PROVE  Listed'
<1>1. \A j \in Senders : ListedAt(j)'
  BY ListedEach, ListedStays DEF Others
<1> QED BY <1>1 DEF Listed, ListedAt

LEMMA ListedGo ==
  ASSUME NEW k, ListedAt(k), sender'[k].todo = sender[k].todo, sender'[k].trash = sender[k].trash,
         sender[k].pc \in RowPhases, sender'[k].pc \in RowPhases, applied \subseteq applied',
         \A x, y \in sender'[k].copy : x = y,
         sender'[k].pc \in Holding => \A y \in sender'[k].copy : y.id = Current(k).id,
         sender'[k].pc \in {"presign", "keep", "keeping"} => CurrentIsPhoto(k),
         sender'[k].ok => sender'[k].pc \in {"settle", "settling"} /\ Current(k).n \in applied'
  PROVE  ListedAt(k)'
<1>1. Current(k)' = Current(k)
  BY DEF Current
<1>2. sender[k].pc # "purging" /\ sender'[k].pc # "purging"
  BY DEF RowPhases
<1> QED BY <1>1, <1>2 DEF ListedAt, CurrentIsPhoto

LEMMA ListedIdle ==
  ASSUME NEW k, IdleAt(sender'[k])
  PROVE  ListedAt(k)'
BY DEF IdleAt, ListedAt, RowPhases, Holding

LEMMA ListedSender ==
  ASSUME TypeOK, Listed, NEW k \in Senders, SenderStep(k)
  PROVE  Listed'
<1>1. applied \subseteq applied' /\ ListedAt(k)
  BY SenderFrame, ListedEach
<1>2. CASE MarkRow(k) \/ KeepGrant(k) \/ SettleRow(k)
  <2>1. PICK to \in {"marking", "keeping", "settling"} :
          /\ \E from \in {"mark", "keep", "settle"} : Read(k, from, to) /\ sender[k].pc = from
          /\ to = "keeping" => sender[k].pc = "keep"
          /\ to = "settling" => sender[k].pc = "settle"
          /\ to = "marking" => sender[k].pc = "mark"
    BY <1>2 DEF MarkRow, KeepGrant, SettleRow, Read, At
  <2>2. to \in Phases /\ sender[k].pc \in RowPhases /\ to \in RowPhases
    BY <2>1 DEF Phases, RowPhases
  <2>3. /\ Others(k) /\ sender'[k].pc = to /\ sender'[k].todo = sender[k].todo
        /\ sender'[k].copy = RowsOf(Current(k).id) /\ sender'[k].ok = sender[k].ok
        /\ sender'[k].trash = sender[k].trash
    BY <2>1, <2>2, ReadEffect
  <2>4. \A x, y \in sender'[k].copy : x = y /\ y.id = Current(k).id
    BY <2>3 DEF RowsOf, TypeOK
  <2>5. sender'[k].pc \in {"presign", "keep", "keeping"} => CurrentIsPhoto(k)
    BY <1>1, <2>1, <2>3 DEF ListedAt
  <2>6. sender'[k].ok => sender'[k].pc \in {"settle", "settling"} /\ Current(k).n \in applied'
    BY <1>1, <2>1, <2>3 DEF ListedAt
  <2>7. ListedAt(k)'
    BY <1>1, <2>2, <2>3, <2>4, <2>5, <2>6, ListedGo
  <2> QED BY <1>1, <2>3, <2>7, ListedOthers
<1>3. CASE Marked(k)
  <2>1. /\ Others(k) /\ sender'[k].pc \in {"send", "settle", "presign", "keep"}
        /\ sender'[k].todo = sender[k].todo /\ sender'[k].copy = {} /\ ~ sender'[k].ok
        /\ sender'[k].trash = sender[k].trash /\ sender[k].pc = "marking"
    BY <1>3, MarkedEffect DEF Marked, At
  <2>2. sender'[k].pc \in {"presign", "keep", "keeping"} => CurrentIsPhoto(k)
    <3>1. CASE CurrentIsPhoto(k)
      BY <3>1
    <3>2. CASE ~ CurrentIsPhoto(k)
      <4>1. sender' = [sender EXCEPT ![k].pc = "send", ![k].copy = {}, ![k].ok = FALSE,
                                     ![k].grant = Current(k).grant]
        BY <1>3, <3>2 DEF Marked
      <4>2. sender'[k].pc = "send"
        BY <4>1 DEF TypeOK, Work
      <4> QED BY <4>2
    <3> QED BY <3>1, <3>2
  <2>3. sender'[k].pc \in RowPhases /\ sender[k].pc \in RowPhases /\ sender'[k].pc \notin Holding
    BY <2>1 DEF RowPhases, Holding
  <2>4. ListedAt(k)'
    BY <1>1, <2>1, <2>2, <2>3, ListedGo
  <2> QED BY <1>1, <2>1, <2>4, ListedOthers
<1>4. CASE Presign(k)
  <2>1. /\ Others(k) /\ sender'[k].pc = "keep" /\ sender'[k].todo = sender[k].todo
        /\ sender'[k].copy = sender[k].copy /\ sender'[k].ok = sender[k].ok
        /\ sender'[k].trash = sender[k].trash /\ sender[k].pc = "presign"
    BY <1>4, PresignEffect DEF Presign, At
  <2>2. ~ sender'[k].ok /\ CurrentIsPhoto(k) /\ \A x, y \in sender'[k].copy : x = y
    BY <1>1, <2>1 DEF ListedAt
  <2>3. sender'[k].pc \in RowPhases /\ sender[k].pc \in RowPhases /\ sender'[k].pc \notin Holding
    BY <2>1 DEF RowPhases, Holding
  <2>4. ListedAt(k)'
    BY <1>1, <2>1, <2>2, <2>3, ListedGo
  <2> QED BY <1>1, <2>1, <2>4, ListedOthers
<1>5. CASE PresignLost(k) \/ Kept(k) \/ SendFails(k) \/ (Stalls(k) /\ sender[k].pc # "ack")
  <2>1. PICK pc \in {"settle", "send", "stalled"} :
          Go(k, pc) /\ sender[k].pc \in {"presign", "keeping", "send"}
    BY <1>5 DEF PresignLost, Kept, SendFails, Stalls, At
  <2>2. /\ Others(k) /\ sender'[k].pc = pc /\ sender'[k].todo = sender[k].todo
        /\ sender'[k].copy = sender[k].copy /\ sender'[k].ok = sender[k].ok
        /\ sender'[k].trash = sender[k].trash
    BY <2>1, GoEffect DEF Phases, RowPhases
  <2>3. ~ sender'[k].ok /\ \A x, y \in sender'[k].copy : x = y
    BY <1>1, <2>1, <2>2 DEF ListedAt
  <2>4. /\ sender'[k].pc \in RowPhases /\ sender[k].pc \in RowPhases
        /\ sender'[k].pc \notin Holding \cup {"presign", "keep", "keeping"}
    BY <2>1, <2>2 DEF RowPhases, Holding
  <2>5. ListedAt(k)'
    BY <1>1, <2>2, <2>3, <2>4, ListedGo
  <2> QED BY <1>1, <2>2, <2>5, ListedOthers
<1>6. CASE Send(k)
  <2>1. /\ Others(k) /\ sender'[k].pc = "settle" /\ sender'[k].todo = sender[k].todo
        /\ sender'[k].copy = sender[k].copy /\ sender'[k].trash = sender[k].trash
        /\ sender[k].pc = "send" /\ Current(k).n \in applied'
    BY <1>6, SendEffect DEF Send, At, Apply
  <2>2. \A x, y \in sender'[k].copy : x = y
    BY <1>1, <2>1 DEF ListedAt
  <2>3. /\ sender'[k].pc \in RowPhases /\ sender[k].pc \in RowPhases
        /\ sender'[k].pc \notin Holding \cup {"presign", "keep", "keeping"}
    BY <2>1 DEF RowPhases, Holding
  <2>4. ListedAt(k)'
    BY <1>1, <2>1, <2>2, <2>3, ListedGo
  <2> QED BY <1>1, <2>1, <2>4, ListedOthers
<1>7. CASE Settled(k)
  <2>1. /\ Others(k) /\ sender'[k].pc \in {"mark", "idle", "ack"}
        /\ sender'[k].todo = sender[k].todo \ {Current(k)}
        /\ sender'[k].pc = "mark" <=> sender'[k].todo # {}
        /\ sender'[k].copy = {} /\ ~ sender'[k].ok /\ sender'[k].trash = sender[k].trash
        /\ sender[k].pc = "settling"
    BY <1>7, SettledEffect DEF Settled, At
  <2>2. sender'[k].trash = {}
    BY <1>1, <2>1 DEF ListedAt
  <2>3. /\ sender'[k].pc \in RowPhases <=> sender'[k].pc = "mark"
        /\ sender'[k].pc \notin Holding \cup {"presign", "keep", "keeping", "purging"}
    BY <2>1 DEF RowPhases, Holding
  <2>4. ListedAt(k)'
    BY <1>1, <2>1, <2>2, <2>3 DEF ListedAt
  <2> QED BY <1>1, <2>1, <2>4, ListedOthers
<1>8. CASE Acknowledge(k) \/ (Stalls(k) /\ sender[k].pc = "ack")
  <2>1. PICK pc \in {"purge", "unanswered"} : Go(k, pc) /\ sender[k].pc = "ack"
    BY <1>8 DEF Acknowledge, Stalls, At
  <2>2. /\ Others(k) /\ sender'[k].pc = pc /\ sender'[k].todo = sender[k].todo
        /\ sender'[k].copy = sender[k].copy /\ sender'[k].ok = sender[k].ok
        /\ sender'[k].trash = sender[k].trash
    BY <2>1, GoEffect DEF Phases
  <2>3. ListedAt(k)'
    BY <1>1, <2>1, <2>2 DEF ListedAt, RowPhases, Holding
  <2> QED BY <1>1, <2>2, <2>3, ListedOthers
<1>9. CASE ListDone(k)
  <2>1. /\ Others(k) /\ sender'[k].todo = {} /\ sender'[k].copy = {} /\ ~ sender'[k].ok
        /\ sender'[k].trash # {} <=> sender'[k].pc = "purging"
        /\ sender'[k].pc \in {"idle", "purging"}
    BY <1>9, ListDoneEffect
  <2>2. ListedAt(k)'
    BY <2>1 DEF ListedAt, RowPhases, Holding
  <2> QED BY <1>1, <2>1, <2>2, ListedOthers
<1>10. CASE RemoveDone(k)
  <2>1. PICK id \in sender[k].trash :
           /\ Others(k)
           /\ \/ IdleAt(sender'[k])
              \/ /\ sender[k].trash # {id} /\ sender'[k].trash = sender[k].trash \ {id}
                 /\ sender'[k].pc = sender[k].pc /\ sender'[k].todo = sender[k].todo
                 /\ sender'[k].copy = sender[k].copy /\ sender'[k].ok = sender[k].ok
    BY <1>10, RemoveDoneEffect
  <2>2. sender[k].pc = "purging"
    BY <1>10 DEF RemoveDone, At
  <2>3. CASE IdleAt(sender'[k])
    BY <1>1, <2>1, <2>3, ListedIdle, ListedOthers
  <2>4. CASE ~ IdleAt(sender'[k])
    <3>1. sender'[k].trash # {} /\ sender'[k].pc = "purging"
      BY <2>1, <2>2, <2>4
    <3>2. ListedAt(k)'
      BY <1>1, <2>1, <2>2, <2>4, <3>1 DEF ListedAt, RowPhases, Holding
    <3> QED BY <1>1, <2>1, <3>2, ListedOthers
  <2> QED BY <2>3, <2>4
<1>11. CASE SenderDies(k)
  BY <1>1, <1>11, DiesEffect, ListedIdle, ListedOthers
<1>12. CASE Stalls(k)
  BY <1>5, <1>8, <1>12
<1> QED
  BY <1>2, <1>3, <1>4, <1>5, <1>6, <1>7, <1>8, <1>9, <1>10, <1>11, <1>12 DEF SenderStep

LEMMA ListedNext == TypeOK /\ Listed /\ [Next]_vars => Listed'
<1> SUFFICES ASSUME TypeOK, Listed, [Next]_vars PROVE Listed'
  OBVIOUS
<1>1. ASSUME UNCHANGED sender, applied \subseteq applied' PROVE Listed'
  BY <1>1, ListedStays, ListedEach DEF Listed, ListedAt
<1>2. CASE UNCHANGED vars
  BY <1>1, <1>2 DEF vars, phone, books
<1>3. ASSUME NEW s \in Subjects, NEW d \in Decisions(s), Tap(s, d) PROVE Listed'
  BY <1>1, <1>3 DEF Tap, books
<1>4. ASSUME NEW n \in DOMAIN ops, CallStep(n) PROVE Listed'
  BY <1>1, <1>4, CallFrame
<1>5. CASE Starts
  <2>1. applied' = applied
    BY <1>5, StartsFrame
  <2>2. CASE sender' = sender
    BY <1>1, <2>1, <2>2
  <2>3. ASSUME NEW k \in Senders, NEW rows \in SUBSET Unsent, rows # {}, Start(k, rows)
        PROVE  Listed'
    <3>1. rows \in SUBSET queue /\ \A x, y \in rows : x.id = y.id => x = y
      BY DEF Unsent, TypeOK
    <3>2. /\ Others(k) /\ sender'[k].pc = "mark" /\ sender'[k].todo = rows
          /\ sender'[k].copy = {} /\ sender'[k].ok = FALSE /\ sender'[k].trash = {}
      BY <2>3, <3>1, StartEffect
    <3>3. ListedAt(k)'
      BY <2>3, <3>1, <3>2 DEF ListedAt, RowPhases, Holding
    <3> QED BY <2>1, <3>2, <3>3, ListedOthers
  <2> QED BY <1>5, <2>2, <2>3, StartsFrame
<1>6. CASE Around
  <2>1. applied' = applied
    BY <1>6, AroundFrame
  <2>2. CASE sender' = sender
    BY <1>1, <2>1, <2>2
  <2>3. CASE sender' # sender
    <3>1. /\ Others("page") /\ sender["page"].pc = "idle" /\ sender'["page"].pc = "purge"
          /\ sender'["page"].todo = {} /\ sender'["page"].trash = {}
          /\ sender'["page"].copy = sender["page"].copy
          /\ sender'["page"].ok = sender["page"].ok
      BY <1>6, <2>3, AroundFrame
    <3>2. ListedAt("page") /\ "page" \in Senders
      BY ListedEach DEF Senders
    <3>3. ListedAt("page")'
      BY <3>1, <3>2 DEF ListedAt, RowPhases, Holding
    <3> QED BY <2>1, <3>1, <3>2, <3>3, ListedOthers
  <2> QED BY <2>2, <2>3
<1> QED BY <1>2, <1>3, <1>4, <1>5, <1>6, StepsAre, ListedSender

----------------------------------------------------------------------------
(* One handler for a subject that is not shared.                            *)

\* Handlers only go away.
LEMMA AloneShrinks ==
  ASSUME Alone, shared \subseteq shared',
         \A s \in Subjects : CallsOn(s)' \subseteq CallsOn(s),
         \A s \in Subjects : \A k \in Senders : Working(k, s)' => Working(k, s)
  PROVE  Alone'
BY DEF Alone, Calling

\* A sender whose list gets shorter.
LEMMA WorksLess ==
  ASSUME NEW k \in Senders, Others(k),
         sender'[k].todo \subseteq sender[k].todo, sender'[k].trash \subseteq sender[k].trash
  PROVE  \A s \in Subjects : \A j \in Senders : Working(j, s)' => Working(j, s)
BY DEF Working, Others

\* A sender that lists only subjects nobody works on.
LEMMA AloneJoins ==
  ASSUME Alone, ops' = ops, shared \subseteq shared', NEW k \in Senders, Others(k),
         \A s \in Subjects \ shared' : Working(k, s)' =>
            ~ Calling(s) /\ \A j \in Senders : ~ Working(j, s)
  PROVE  Alone'
<1>1. ASSUME NEW s \in Subjects \ shared'
      PROVE  /\ \A m, n \in CallsOn(s)' : m = n
             /\ Calling(s)' => \A j \in Senders : ~ Working(j, s)'
             /\ \A i, j \in Senders : Working(i, s)' /\ Working(j, s)' => i = j
  <2>1. /\ \A m, n \in CallsOn(s) : m = n
        /\ Calling(s) => \A j \in Senders : ~ Working(j, s)
        /\ \A i, j \in Senders : Working(i, s) /\ Working(j, s) => i = j
    BY DEF Alone
  <2>2. CallsOn(s)' = CallsOn(s) /\ Calling(s)' = Calling(s)
    BY DEF CallsOn, Calling, Outstanding
  <2>3. \A j \in Senders : j # k => (Working(j, s)' <=> Working(j, s))
    BY DEF Working, Others
  <2>4. Working(k, s)' => ~ Calling(s) /\ \A j \in Senders : ~ Working(j, s)
    OBVIOUS
  <2> QED BY <2>1, <2>2, <2>3, <2>4
<1> QED BY <1>1 DEF Alone

\* The lists of senders after a step that lists nothing new.
LEMMA SenderLists ==
  ASSUME TypeOK, Listed, NEW k \in Senders, SenderStep(k), ~ ListDone(k)
  PROVE  /\ Others(k) /\ shared' = shared
         /\ sender'[k].todo \subseteq sender[k].todo /\ sender'[k].trash \subseteq sender[k].trash
<1>1. CASE MarkRow(k) \/ KeepGrant(k) \/ SettleRow(k)
  <2>1. PICK from, to \in Phases : Read(k, from, to)
    BY <1>1 DEF MarkRow, KeepGrant, SettleRow, Phases, RowPhases
  <2> QED BY <2>1, ReadEffect DEF Read, notes
<1>2. CASE Marked(k)
  BY <1>2, MarkedEffect DEF Marked, notes
<1>3. CASE Presign(k) \/ Send(k)
  BY <1>3, PresignEffect, SendEffect DEF Presign, Send, notes
<1>4. CASE PresignLost(k) \/ SendFails(k) \/ Stalls(k) \/ Kept(k) \/ Acknowledge(k)
  <2>1. PICK pc \in Phases : Go(k, pc)
    BY <1>4 DEF PresignLost, SendFails, Stalls, Kept, Acknowledge, Phases, RowPhases
  <2>2. shared' = shared
    BY <1>4 DEF PresignLost, SendFails, Stalls, Kept, Acknowledge, notes
  <2> QED BY <2>1, <2>2, GoEffect
<1>5. CASE Settled(k)
  <2>1. /\ Others(k) /\ sender'[k].todo = sender[k].todo \ {Current(k)}
        /\ sender'[k].trash = sender[k].trash
    BY <1>5, SettledEffect
  <2>2. shared' = shared
    BY <1>5 DEF Settled, notes
  <2> QED BY <2>1, <2>2
<1>6. CASE RemoveDone(k)
  BY <1>6, RemoveDoneEffect DEF RemoveDone, notes, IdleAt
<1>7. CASE SenderDies(k)
  BY <1>7, DiesEffect DEF SenderDies, notes, IdleAt
<1> QED BY <1>1, <1>2, <1>3, <1>4, <1>5, <1>6, <1>7 DEF SenderStep

\* What ListDone lists nobody else works on, or it is shared.
LEMMA ListDoneJoins ==
  ASSUME TypeOK, NEW k \in Senders, ListDone(k)
  PROVE  /\ shared \subseteq shared'
         /\ \A s \in Subjects \ shared' : Working(k, s)' =>
              ~ Calling(s) /\ \A j \in Senders : ~ Working(j, s)
<1> DEFINE S == {id[1] : id \in sender'[k].trash}
<1>1. /\ sender'[k].todo = {} /\ Join(S)
      /\ \A id \in sender'[k].trash : \E x \in queue : x.id = id
  BY ListDoneEffect
<1>2. S \subseteq Subjects
  <2>1. \A id \in sender'[k].trash : id[1] \in Subjects
    BY <1>1, RowSubject
  <2> QED BY <2>1
<1>3. shared \subseteq Subjects
  BY DEF TypeOK
<1>4. \A s \in Subjects : Working(k, s)' => s \in S
  BY <1>1 DEF Working
<1> HIDE DEF S
<1> QED BY <1>1, <1>2, <1>3, <1>4, JoinEffect

\* Nor does anybody on what a drain or a retry starts with.
LEMMA StartJoins ==
  ASSUME TypeOK, NEW k \in Senders, NEW rows \in SUBSET queue, Start(k, rows)
  PROVE  /\ shared \subseteq shared'
         /\ \A s \in Subjects \ shared' : Working(k, s)' =>
              ~ Calling(s) /\ \A j \in Senders : ~ Working(j, s)
<1> DEFINE S == {x.id[1] : x \in rows}
<1>1. sender'[k].todo = rows /\ sender'[k].trash = {} /\ Join(S)
  BY StartEffect DEF Start
<1>2. S \subseteq Subjects /\ shared \subseteq Subjects
  BY RowSubject DEF TypeOK
<1>3. \A s \in Subjects : Working(k, s)' => s \in S
  BY <1>1 DEF Working
<1> HIDE DEF S
<1> QED BY <1>1, <1>2, <1>3, JoinEffect

\* Nor on what the rep taps.
LEMMA TapJoins ==
  ASSUME TypeOK, NEW s \in Subjects, NEW d \in Decisions(s), Tap(s, d)
  PROVE  /\ shared \subseteq shared' /\ sender' = sender
         /\ Len(ops) + 1 \notin DOMAIN ops
         /\ CallsOn(s)' = CallsOn(s) \cup {Len(ops) + 1}
         /\ \A q \in Subjects \ {s} : CallsOn(q)' = CallsOn(q)
         /\ s \notin shared' => ~ Calling(s) /\ \A k \in Senders : ~ Working(k, s)
<1>1. /\ DOMAIN ops = 1 .. Len(ops) /\ DOMAIN ops' = 1 .. Len(ops) + 1 /\ Len(ops) \in Nat
      /\ \A m \in DOMAIN ops : ops'[m] = ops[m]
      /\ ops'[Len(ops) + 1].s = s /\ ops'[Len(ops) + 1].stage = "sent"
  BY TapEffect, SMTT(20) DEF TypeOK
<1>2. Join({s}) /\ {s} \subseteq Subjects /\ shared \subseteq Subjects /\ sender' = sender
  BY DEF Tap, TypeOK
<1>3. /\ CallsOn(s)' = CallsOn(s) \cup {Len(ops) + 1}
      /\ \A q \in Subjects \ {s} : CallsOn(q)' = CallsOn(q)
  BY <1>1 DEF CallsOn, Outstanding
<1> QED BY <1>1, <1>2, <1>3, JoinEffect

LEMMA CallsLess ==
  ASSUME TypeOK, NEW n \in DOMAIN ops, CallStep(n)
  PROVE  /\ n \in CallsOn(ops[n].s) /\ ops[n].s \in Subjects
         /\ \A s \in Subjects : CallsOn(s)' \subseteq CallsOn(s)
<1>1. /\ DOMAIN ops' = DOMAIN ops /\ ops[n].stage # "over"
      /\ \A m \in DOMAIN ops : ops'[m].s = ops[m].s /\ (m # n => ops'[m].stage = ops[m].stage)
  BY CallFrame
<1> QED BY <1>1, OpIs DEF CallsOn, Outstanding

LEMMA AloneNext == TypeOK /\ Listed /\ Alone /\ [Next]_vars => Alone'
<1> SUFFICES ASSUME TypeOK, Listed, Alone, [Next]_vars PROVE Alone'
  OBVIOUS
<1>1. ASSUME UNCHANGED <<ops, sender, shared>> PROVE Alone'
  BY <1>1 DEF Alone, Calling, CallsOn, Outstanding, Working
<1>2. CASE UNCHANGED vars
  BY <1>1, <1>2 DEF vars, phone, notes
<1>3. ASSUME NEW s \in Subjects, NEW d \in Decisions(s), Tap(s, d) PROVE Alone'
  <2>1. /\ shared \subseteq shared' /\ sender' = sender
        /\ CallsOn(s)' = CallsOn(s) \cup {Len(ops) + 1}
        /\ \A q \in Subjects \ {s} : CallsOn(q)' = CallsOn(q)
        /\ s \notin shared' => ~ Calling(s) /\ \A k \in Senders : ~ Working(k, s)
    BY <1>3, TapJoins
  <2>2. \A k \in Senders : \A q \in Subjects : Working(k, q)' <=> Working(k, q)
    BY <2>1 DEF Working
  <2> QED BY <2>1, <2>2 DEF Alone, Calling
<1>4. ASSUME NEW n \in DOMAIN ops, CallStep(n) PROVE Alone'
  <2>1. UNCHANGED <<sender, shared>> /\ \A s \in Subjects : CallsOn(s)' \subseteq CallsOn(s)
    BY <1>4, CallFrame, CallsLess
  <2> QED BY <2>1, AloneShrinks DEF Working
<1>5. ASSUME NEW k \in Senders, SenderStep(k) PROVE Alone'
  <2>1. ops' = ops /\ \A s \in Subjects : CallsOn(s)' = CallsOn(s)
    BY <1>5, SenderFrame DEF CallsOn, Outstanding
  <2>2. CASE ListDone(k)
    BY <2>1, <2>2, ListDoneJoins, ListDoneEffect, AloneJoins
  <2>3. CASE ~ ListDone(k)
    BY <1>5, <2>1, <2>3, SenderLists, WorksLess, AloneShrinks
  <2> QED BY <2>2, <2>3
<1>6. CASE Starts
  <2>1. ops' = ops
    BY <1>6, StartsFrame
  <2>2. ASSUME NEW k \in Senders, NEW rows \in SUBSET Unsent, Start(k, rows) PROVE Alone'
    <3>1. rows \in SUBSET queue
      BY DEF Unsent
    <3> QED BY <2>1, <2>2, <3>1, StartEffect, StartJoins, AloneJoins
  <2> QED BY <1>1, <1>6, <2>1, <2>2, StartsFrame
<1>7. CASE Around
  <2>1. UNCHANGED <<ops, shared>>
    BY <1>7, AroundFrame
  <2>2. CASE sender' = sender
    BY <1>1, <2>1, <2>2
  <2>3. CASE sender' # sender
    <3>1. Others("page") /\ sender'["page"].todo = {} /\ sender'["page"].trash = {}
      BY <1>7, <2>3, AroundFrame
    <3>2. \A s \in Subjects : \A j \in Senders : Working(j, s)' => Working(j, s)
      BY <3>1, WorksLess DEF Senders
    <3> QED BY <2>1, <3>2, AloneShrinks DEF CallsOn, Outstanding
  <2> QED BY <2>2, <2>3
<1> QED BY <1>2, <1>3, <1>4, <1>5, <1>6, <1>7, StepsAre

----------------------------------------------------------------------------
(* What becomes of the rows of one subject.                                 *)

\* They stay as they are, but for an image that is dropped.
Stays(s) ==
  /\ \A x \in queue : x.id[1] = s => \E y \in queue' : Same(x, y)
  /\ \A y \in queue' : y.id[1] = s => \E x \in queue : Same(x, y)

\* Or they are sent on: only rows that are done disappear, none appears, and
\* what becomes DONE was carried out.
Kin(x, y) == x.id = y.id /\ x.n = y.n
Follows(s) ==
  /\ \A x \in queue : x.id[1] = s => x.status = "DONE" \/ \E y \in queue' : Kin(x, y)
  /\ \A y \in queue' : y.id[1] = s =>
       \E x \in queue : Kin(x, y) /\ (y.status = "DONE" => x.status = "DONE" \/ x.n \in applied)

LEMMA StayingFollows ==
  ASSUME NEW s, Stays(s)
  PROVE  Follows(s)
BY DEF Stays, Follows, Same, Kin

LEMMA QueueStays ==
  ASSUME NEW s, queue' = queue
  PROVE  Stays(s)
BY DEF Stays, Same

\* A request touches the rows of its own subject only.
LEMMA CallRows ==
  ASSUME TypeOK, Traced, Roomy, NEW n \in DOMAIN ops, CallStep(n), NEW s, s # ops[n].s
  PROVE  Stays(s)
<1>1. CASE Serve(n) \/ Answer(n) \/ Refuse(n) \/ Lose(n) \/ ListOlder(n) \/ StoreFails(n) \/ PutRefused(n)
  <2>1. queue' = queue
    BY <1>1 DEF Serve, Answer, Refuse, Lose, ListOlder, StoreFails, PutRefused
  <2> QED BY <2>1, QueueStays
<1>2. CASE RemoveOlder(n)
  <2>1. PICK id \in ops[n].victims : queue' = queue \ RowsOf(id)
    BY <1>2 DEF RemoveOlder
  <2>2. id[1] = ops[n].s
    BY <2>1 DEF Traced, OpsTraced, OpTraced
  <2> QED BY <2>1, <2>2 DEF Stays, Same, RowsOf
<1>3. CASE Store(n)
  <2>1. PICK r \in Row : r.id = <<ops[n].s, ops[n].d>> /\ queue' = (queue \ RowsOf(r.id)) \cup {r}
    BY <1>3, StoreEffect
  <2>2. r.id[1] = ops[n].s
    BY <2>1
  <2> QED BY <2>1, <2>2 DEF Stays, Same, RowsOf
<1> QED BY <1>1, <1>2, <1>3 DEF CallStep

\* The steps of a sender that write no row.
LEMMA QuietSender ==
  ASSUME NEW k \in Senders, SenderStep(k),
         ~ Marked(k), ~ Kept(k), ~ Settled(k), ~ ListDone(k), ~ RemoveDone(k)
  PROVE  queue' = queue
BY DEF SenderStep, MarkRow, KeepGrant, SettleRow, Read, Presign, PresignLost, Send, SendFails,
       Stalls, Acknowledge, SenderDies

\* The row a sender works on is on its list.
LEMMA WorksOnCurrent ==
  ASSUME TypeOK, Listed, NEW k \in Senders, sender[k].pc \in RowPhases
  PROVE  /\ Current(k).id[1] \in Subjects /\ Working(k, Current(k).id[1])
         /\ Current(k) \in sender[k].todo
<1>1. Current(k) \in sender[k].todo /\ Current(k) \in Row
  BY CurrentIs
<1> QED BY <1>1, IdsAre DEF Working, Row

\* A row that is written back under an unshared subject was in the queue, and
\* the copy says what it said.
LEMMA RewrittenFollows ==
  ASSUME TypeOK, Listed, NEW k \in Senders, NEW s, sender[k].pc \in Holding, FitsAt(k, s),
         NEW st, NEW g, RewrittenAs(k, st) \/ RewrittenWith(k, g),
         st = "DONE" => Current(k).n \in applied
  PROVE  Follows(s)
<1>1. \A c \in sender[k].copy : c.id = Current(k).id
  BY DEF Listed
<1>2. CASE Current(k).id[1] # s
  <2>1. \A x \in queue : x.id[1] = s => Unwritten(k, x)
    BY <1>1, <1>2 DEF Unwritten
  <2>2. \A x \in queue : x.id[1] = s => x \in queue'
    BY <2>1 DEF RewrittenAs, RewrittenWith
  <2>3. \A y \in queue' : y.id[1] = s => y \in queue
    BY <1>1, <1>2 DEF RewrittenAs, RewrittenWith, Restated, Regranted
  <2>4. Stays(s)
    BY <2>2, <2>3 DEF Stays, Same
  <2> QED BY <2>4, StayingFollows
<1>3. CASE Current(k).id[1] = s
  <2>1. PICK c \in sender[k].copy, z \in queue : z.id = Current(k).id /\ Same(z, c)
    BY <1>3 DEF FitsAt
  <2>2. /\ \A d \in sender[k].copy : d = c
        /\ \A x \in queue : x.id = c.id => x = z
    BY <2>1 DEF Listed, TypeOK, Same
  <2>3. Current(k) \in sender[k].todo
    BY CurrentIs DEF Holding, RowPhases
  <2>4. z.n = Current(k).n
    <3>1. PICK w \in queue : w.id = Current(k).id /\ w.n = Current(k).n
      BY <1>3, <2>3 DEF FitsAt
    <3> QED BY <2>1, <2>2, <3>1 DEF Same
  <2>5. \A x \in queue : x.id[1] = s => \E y \in queue' : Kin(x, y)
    <3>1. SUFFICES ASSUME NEW x \in queue, x.id[1] = s PROVE \E y \in queue' : Kin(x, y)
      OBVIOUS
    <3>2. CASE Unwritten(k, x)
      BY <3>2 DEF RewrittenAs, RewrittenWith, Kin
    <3>3. CASE ~Unwritten(k, x)
      <4>1. x = z
        BY <2>1, <2>2, <3>3 DEF Unwritten
      <4>2. \E y \in queue' : y.id = c.id /\ y.n = c.n
        BY <2>1 DEF RewrittenAs, RewrittenWith, Restated, Regranted
      <4> QED BY <2>1, <4>1, <4>2 DEF Same, Kin
    <3> QED BY <3>2, <3>3
  <2>6. ASSUME NEW y \in queue'
        PROVE  \E x \in queue :
                 Kin(x, y) /\ (y.status = "DONE" => x.status = "DONE" \/ x.n \in applied)
    <3>1. CASE y \in queue
      BY <3>1 DEF Kin
    <3>2. CASE Restated(y, c, st)
      BY <2>1, <2>4, <3>2 DEF Restated, Same, Kin
    <3>3. CASE Regranted(y, c, g)
      BY <2>1, <3>3 DEF Regranted, Same, Kin
    <3> QED BY <2>2, <3>1, <3>2, <3>3 DEF RewrittenAs, RewrittenWith
  <2> QED BY <2>5, <2>6 DEF Follows
<1> QED BY <1>2, <1>3

\* A sender that does not work on a subject leaves its rows alone.
LEMMA OtherRows ==
  ASSUME TypeOK, Listed, NEW k \in Senders, SenderStep(k), NEW s, ~ Working(k, s)
  PROVE  Stays(s)
<1>1. CASE Marked(k) \/ Kept(k) \/ Settled(k)
  <2>1. sender[k].pc \in Holding /\ sender[k].pc \in RowPhases
    BY <1>1 DEF Marked, Kept, Settled, At, Holding, RowPhases
  <2>2. Current(k).id[1] # s
    BY <2>1, CurrentIs DEF Working
  <2>3. \A c \in sender[k].copy : c.id[1] # s
    BY <2>1, <2>2 DEF Listed
  <2>4. PICK st, g : RewrittenAs(k, st) \/ RewrittenWith(k, g)
    BY <1>1, MarkedQueue, KeptQueue, SettledQueue
  <2> QED BY <2>3, <2>4
        DEF Stays, Same, RewrittenAs, RewrittenWith, Restated, Regranted, Unwritten
<1>2. CASE ListDone(k)
  BY <1>2, PurgedQueue DEF Stays
<1>3. CASE RemoveDone(k)
  <2>1. PICK id \in sender[k].trash : queue' = queue \ RowsOf(id)
    BY <1>3 DEF RemoveDone
  <2>2. id[1] # s
    BY <2>1 DEF Working
  <2> QED BY <2>1, <2>2 DEF Stays, Same, RowsOf
<1> QED BY <1>1, <1>2, <1>3, QuietSender, QueueStays

\* One that does, and that nobody disturbs, sends them on.
LEMMA SenderRows ==
  ASSUME TypeOK, Listed, NEW k \in Senders, SenderStep(k), NEW s, FitsAt(k, s)
  PROVE  Follows(s)
<1>1. CASE Marked(k)
  <2>1. sender[k].pc \in Holding /\ RewrittenAs(k, "UPLOADING")
    BY <1>1, MarkedQueue DEF Marked, At, Holding
  <2> QED BY <2>1, RewrittenFollows
<1>2. CASE Kept(k)
  <2>1. sender[k].pc \in Holding /\ RewrittenWith(k, sender[k].grant)
    BY <1>2, KeptQueue DEF Kept, At, Holding
  <2> QED BY <2>1, RewrittenFollows
<1>3. CASE Settled(k)
  <2> DEFINE st == IF sender[k].ok THEN "DONE" ELSE "FAILED"
  <2>1. sender[k].pc \in Holding /\ RewrittenAs(k, st)
    BY <1>3, SettledQueue DEF Settled, At, Holding
  <2>2. st = "DONE" => Current(k).n \in applied
    BY DEF Listed
  <2> HIDE DEF st
  <2> QED BY <2>1, <2>2, RewrittenFollows
<1>4. CASE ListDone(k)
  <2>1. Stays(s)
    BY <1>4, PurgedQueue DEF Stays
  <2> QED BY <2>1, StayingFollows
<1>5. CASE RemoveDone(k)
  <2>1. PICK id \in sender[k].trash : queue' = queue \ RowsOf(id)
    BY <1>5 DEF RemoveDone
  <2>2. \A z \in queue : id[1] = s /\ z.id = id => z.status = "DONE"
    BY <2>1 DEF FitsAt
  <2> QED BY <2>1, <2>2 DEF Follows, Kin, RowsOf
<1> QED BY <1>1, <1>2, <1>3, <1>4, <1>5, QuietSender, QueueStays, StayingFollows

----------------------------------------------------------------------------
(* What a sender knows of the queue stays true.                             *)

LEMMA FitsStays ==
  ASSUME NEW k, NEW s, FitsAt(k, s), sender'[k] = sender[k], Stays(s)
  PROVE  FitsAt(k, s)'
<1>1. ASSUME NEW x \in sender'[k].todo, x.id[1] = s
      PROVE  \E z \in queue' : z.id = x.id /\ z.n = x.n /\ (Untried(k, x)' => z.grant = x.grant)
  <2>1. PICK z \in queue : z.id = x.id /\ z.n = x.n /\ (Untried(k, x) => z.grant = x.grant)
    BY <1>1 DEF FitsAt
  <2>2. Untried(k, x)' => Untried(k, x)
    BY DEF Untried, Current
  <2> QED BY <1>1, <2>1, <2>2 DEF Stays, Same
<1>2. ASSUME sender'[k].pc \in Holding, Current(k)'.id[1] = s
      PROVE  \E y \in sender'[k].copy, z \in queue' : z.id = Current(k)'.id /\ Same(z, y)
  <2>1. Current(k)' = Current(k)
    BY DEF Current
  <2>2. PICK y \in sender[k].copy, z \in queue : z.id = Current(k).id /\ Same(z, y)
    BY <1>2, <2>1 DEF FitsAt
  <2>3. PICK v \in queue' : Same(z, v)
    BY <1>2, <2>1, <2>2 DEF Stays
  <2> QED BY <2>1, <2>2, <2>3 DEF Same
<1>3. \A id \in sender'[k].trash, z \in queue' : id[1] = s /\ z.id = id => z.status = "DONE"
  BY DEF FitsAt, Stays, Same
<1> QED BY <1>1, <1>2, <1>3 DEF FitsAt

\* A sender that does not work on a subject claims nothing about it.
LEMMA FitsIdle ==
  ASSUME TypeOK', Listed', NEW k \in Senders, NEW s, ~ Working(k, s)'
  PROVE  FitsAt(k, s)'
<1>1. sender'[k].pc \in Holding => Current(k)' \in sender'[k].todo
  BY HasOldest DEF Listed, Holding, RowPhases, Current, TypeOK, Work
<1> QED BY <1>1 DEF FitsAt, Working

\* A sender that writes no row.
LEMMA FitsGo ==
  ASSUME NEW k, NEW s, FitsAt(k, s), queue' = queue,
         sender'[k].todo = sender[k].todo, sender'[k].trash = sender[k].trash,
         sender'[k].pc \in {"mark", "marking"} => sender[k].pc \in {"mark", "marking"},
         sender'[k].pc \in Holding /\ Current(k).id[1] = s =>
           \E y \in sender'[k].copy, z \in queue : z.id = Current(k).id /\ Same(z, y)
  PROVE  FitsAt(k, s)'
<1>1. Current(k)' = Current(k)
  BY DEF Current
<1>2. \A x \in sender[k].todo : Untried(k, x)' => Untried(k, x)
  BY <1>1 DEF Untried
<1> QED BY <1>1, <1>2 DEF FitsAt

\* A sender that writes the row it works on.
LEMMA FitsRewrite ==
  ASSUME TypeOK, Listed, NEW k \in Senders, NEW s, FitsAt(k, s), sender[k].pc \in Holding,
         NEW st, NEW g, RewrittenAs(k, st) \/ RewrittenWith(k, g),
         sender'[k].todo \subseteq sender[k].todo, sender'[k].trash = {},
         sender'[k].pc \notin Holding,
         \A x \in sender'[k].todo : Untried(k, x)' => x # Current(k)
  PROVE  FitsAt(k, s)'
<1>1. \A c \in sender[k].copy : c.id = Current(k).id
  BY DEF Listed
<1>2. Current(k) \in sender[k].todo
  BY CurrentIs DEF Holding, RowPhases
<1>3. ASSUME NEW x \in sender'[k].todo, x.id[1] = s
      PROVE  \E z \in queue' : z.id = x.id /\ z.n = x.n /\ (Untried(k, x)' => z.grant = x.grant)
  <2>1. PICK z \in queue : z.id = x.id /\ z.n = x.n /\ (Untried(k, x) => z.grant = x.grant)
    BY <1>3 DEF FitsAt
  <2>2. CASE x = Current(k)
    <3>1. PICK c \in sender[k].copy, v \in queue : v.id = x.id /\ Same(v, c)
      BY <1>3, <2>2 DEF FitsAt
    <3>2. v = z
      BY <2>1, <3>1 DEF TypeOK
    <3>3. \E y \in queue' : y.id = c.id /\ y.n = c.n
      BY <3>1 DEF RewrittenAs, RewrittenWith, Restated, Regranted
    <3> QED BY <2>1, <2>2, <3>1, <3>2, <3>3 DEF Same
  <2>3. CASE x # Current(k)
    <3>1. x.id # Current(k).id
      BY <1>2, <1>3, <2>3 DEF Listed
    <3>2. z \in queue'
      BY <1>1, <2>1, <3>1 DEF RewrittenAs, RewrittenWith, Unwritten
    <3> QED BY <2>1, <2>3, <3>2 DEF Untried
  <2> QED BY <2>2, <2>3
<1> QED BY <1>3 DEF FitsAt

\* A sender's own step.
LEMMA FitsOwn ==
  ASSUME TypeOK, Listed, TypeOK', Listed', NEW k \in Senders, SenderStep(k), NEW s, FitsAt(k, s)
  PROVE  FitsAt(k, s)'
<1>1. CASE MarkRow(k) \/ KeepGrant(k) \/ SettleRow(k)
  <2>1. PICK to \in Holding : /\ Read(k, sender[k].pc, to) /\ sender[k].pc \in RowPhases
                              /\ to = "marking" => sender[k].pc = "mark"
    BY <1>1 DEF MarkRow, KeepGrant, SettleRow, Read, At, Holding, RowPhases
  <2>2. to \in Phases
    BY DEF Holding, Phases, RowPhases
  <2>3. /\ sender'[k].pc = to /\ sender'[k].todo = sender[k].todo
        /\ sender'[k].copy = RowsOf(Current(k).id) /\ sender'[k].trash = sender[k].trash
    BY <2>1, <2>2, ReadEffect
  <2>4. Current(k).id[1] = s =>
          \E y \in sender'[k].copy, z \in queue : z.id = Current(k).id /\ Same(z, y)
    <3>1. Current(k) \in sender[k].todo
      BY <2>1, CurrentIs
    <3> QED BY <2>3, <3>1 DEF FitsAt, RowsOf, Same
  <2>5. queue' = queue
    BY <2>1 DEF Read
  <2>6. sender'[k].pc \in {"mark", "marking"} => sender[k].pc \in {"mark", "marking"}
    BY <2>1, <2>3 DEF Holding
  <2> QED BY <2>3, <2>4, <2>5, <2>6, FitsGo
<1>2. CASE Marked(k)
  <2>1. /\ sender[k].pc \in Holding /\ sender[k].pc \in RowPhases
        /\ sender'[k].pc \in {"send", "settle", "presign", "keep"}
        /\ sender'[k].todo = sender[k].todo /\ sender'[k].trash = sender[k].trash
    BY <1>2, MarkedEffect DEF Marked, At, Holding, RowPhases
  <2>2. RewrittenAs(k, "UPLOADING")
    BY <1>2, MarkedQueue
  <2>3. sender'[k].trash = {} /\ sender'[k].pc \notin Holding
    BY <2>1 DEF Listed, Holding
  <2>4. \A x \in sender'[k].todo : Untried(k, x)' => x # Current(k)
    BY <2>1 DEF Untried, Current
  <2> QED BY <2>1, <2>2, <2>3, <2>4, FitsRewrite
<1>3. CASE Kept(k)
  <2>1. sender[k].pc \in Holding /\ Go(k, "send") /\ "send" \in Phases
    BY <1>3 DEF Kept, At, Holding, Phases, RowPhases
  <2>2. /\ sender'[k].pc = "send"
        /\ sender'[k].todo = sender[k].todo /\ sender'[k].trash = sender[k].trash
    BY <2>1, GoEffect
  <2>3. RewrittenWith(k, sender[k].grant)
    BY <1>3, KeptQueue
  <2>4. sender'[k].trash = {} /\ sender'[k].pc \notin Holding
    BY <2>1, <2>2 DEF Listed, Holding
  <2>5. \A x \in sender'[k].todo : Untried(k, x)' => x # Current(k)
    BY <2>2 DEF Untried, Current
  <2> QED BY <2>1, <2>2, <2>3, <2>4, <2>5, FitsRewrite
<1>4. CASE Settled(k)
  <2>1. /\ sender[k].pc \in Holding /\ sender'[k].pc \in {"mark", "idle", "ack"}
        /\ sender'[k].todo = sender[k].todo \ {Current(k)}
        /\ sender'[k].trash = sender[k].trash
    BY <1>4, SettledEffect DEF Settled, At, Holding
  <2>2. PICK st : RewrittenAs(k, st)
    BY <1>4, SettledQueue
  <2>3. sender'[k].trash = {} /\ sender'[k].pc \notin Holding
    BY <2>1 DEF Listed, Holding
  <2> QED BY <2>1, <2>2, <2>3, FitsRewrite
<1>5. CASE \/ Presign(k) \/ PresignLost(k) \/ Send(k) \/ SendFails(k) \/ Stalls(k)
           \/ Acknowledge(k)
  <2>1. /\ sender'[k].todo = sender[k].todo /\ sender'[k].trash = sender[k].trash
        /\ sender'[k].pc \in {"keep", "settle", "purge", "stalled", "unanswered"}
    <3>1. CASE Presign(k)
      BY <3>1, PresignEffect
    <3>2. CASE Send(k)
      BY <3>2, SendEffect
    <3>3. CASE PresignLost(k) \/ SendFails(k)
      <4>1. Go(k, "settle") /\ "settle" \in Phases
        BY <3>3 DEF PresignLost, SendFails, Phases, RowPhases
      <4> QED BY <4>1, GoEffect
    <3>4. CASE Acknowledge(k)
      <4>1. Go(k, "purge") /\ "purge" \in Phases
        BY <3>4 DEF Acknowledge, Phases
      <4> QED BY <4>1, GoEffect
    <3>5. CASE Stalls(k)
      BY <3>5, StallsEffect
    <3> QED BY <1>5, <3>1, <3>2, <3>3, <3>4, <3>5
  <2>2. queue' = queue
    BY <1>5 DEF Presign, PresignLost, Send, SendFails, Stalls, Acknowledge
  <2>3. sender'[k].pc \notin Holding /\ sender'[k].pc \notin {"mark", "marking"}
    BY <2>1 DEF Holding
  <2> QED BY <2>1, <2>2, <2>3, FitsGo
<1>6. CASE ListDone(k)
  <2>1. /\ sender'[k].todo = {} /\ sender'[k].pc \in {"idle", "purging"}
        /\ \A id \in sender'[k].trash : \E x \in queue : x.id = id /\ x.status = "DONE"
    BY <1>6, ListDoneEffect
  <2>2. \A y \in queue' : \E x \in queue : Same(x, y)
    BY <1>6, PurgedQueue
  <2>3. ASSUME NEW id \in sender'[k].trash, NEW z \in queue', z.id = id
        PROVE  z.status = "DONE"
    <3>1. PICK x \in queue : x.id = id /\ x.status = "DONE"
      BY <2>1
    <3>2. PICK v \in queue : Same(v, z)
      BY <2>2
    <3>3. v = x
      BY <2>3, <3>1, <3>2 DEF Same, TypeOK
    <3> QED BY <3>1, <3>2, <3>3 DEF Same
  <2> QED BY <2>1, <2>3 DEF FitsAt, Holding
<1>7. CASE RemoveDone(k)
  <2>1. PICK id \in sender[k].trash :
           /\ queue' = queue \ RowsOf(id)
           /\ \/ IdleAt(sender'[k])
              \/ /\ sender'[k].trash = sender[k].trash \ {id}
                 /\ sender'[k].pc = sender[k].pc /\ sender'[k].todo = sender[k].todo
    BY <1>7, RemoveDoneEffect
  <2>2. sender[k].pc = "purging" /\ sender[k].todo = {}
    BY <1>7 DEF RemoveDone, At, Listed, RowPhases
  <2> QED BY <2>1, <2>2 DEF FitsAt, IdleAt, Holding, RowsOf
<1>8. CASE SenderDies(k)
  BY <1>8, DiesEffect DEF FitsAt, IdleAt, Holding
<1> QED BY <1>1, <1>2, <1>3, <1>4, <1>5, <1>6, <1>7, <1>8 DEF SenderStep

\* A sender that starts lists rows as they are.
LEMMA FitsStart ==
  ASSUME TypeOK, NEW k \in Senders, NEW rows \in SUBSET queue, Start(k, rows), queue' = queue, NEW s
  PROVE  FitsAt(k, s)'
<1>1. sender'[k].pc = "mark" /\ sender'[k].todo = rows /\ sender'[k].trash = {}
  BY StartEffect
<1> QED BY <1>1 DEF FitsAt, Holding

LEMMA FitsNext ==
  TypeOK /\ Traced /\ Roomy /\ Listed /\ Alone /\ Fits /\ TypeOK' /\ Listed' /\ [Next]_vars => Fits'
<1> SUFFICES ASSUME TypeOK, Traced, Roomy, Listed, Alone, Fits, TypeOK', Listed', [Next]_vars,
                    NEW k \in Senders, NEW s \in Subjects \ shared'
             PROVE  FitsAt(k, s)'
  BY DEF Fits
<1>1. ASSUME UNCHANGED <<sender, queue>>, shared \subseteq shared' PROVE FitsAt(k, s)'
  BY <1>1, QueueStays, FitsStays DEF Fits
<1>2. CASE UNCHANGED vars
  BY <1>1, <1>2 DEF vars, phone, notes
<1>3. ASSUME NEW q \in Subjects, NEW d \in Decisions(q), Tap(q, d) PROVE FitsAt(k, s)'
  BY <1>1, <1>3, TapJoins DEF Tap
<1>4. ASSUME NEW n \in DOMAIN ops, CallStep(n) PROVE FitsAt(k, s)'
  <2>1. UNCHANGED <<sender, shared>> /\ s \in Subjects \ shared
    BY <1>4, CallFrame
  <2>2. CASE s # ops[n].s
    BY <1>4, <2>1, <2>2, CallRows, FitsStays DEF Fits
  <2>3. CASE s = ops[n].s
    <3>1. Calling(s)
      BY <1>4, <2>3, CallsLess DEF Calling
    <3>2. ~ Working(k, s)
      BY <2>1, <3>1 DEF Alone
    <3>3. ~ Working(k, s)'
      BY <2>1, <3>2 DEF Working
    <3> QED BY <3>3, FitsIdle
  <2> QED BY <2>2, <2>3
<1>5. ASSUME NEW j \in Senders, SenderStep(j) PROVE FitsAt(k, s)'
  <2>1. Others(j) /\ s \in Subjects \ shared
    BY <1>5, SenderLists, ListDoneEffect, ListDoneJoins
  <2>2. FitsAt(k, s)
    BY <2>1 DEF Fits
  <2>3. CASE k = j
    BY <1>5, <2>2, <2>3, FitsOwn
  <2>4. CASE k # j /\ Working(k, s)
    <3>1. ~ Working(j, s) /\ sender'[k] = sender[k]
      BY <2>1, <2>4 DEF Alone, Others
    <3> QED BY <1>5, <2>2, <3>1, OtherRows, FitsStays
  <2>5. CASE k # j /\ ~ Working(k, s)
    <3>1. ~ Working(k, s)'
      BY <2>1, <2>5 DEF Others, Working
    <3> QED BY <3>1, FitsIdle
  <2> QED BY <2>3, <2>4, <2>5
<1>6. CASE Starts
  <2>1. queue' = queue
    BY <1>6, StartsFrame
  <2>2. ASSUME NEW j \in Senders, NEW rows \in SUBSET Unsent, Start(j, rows) PROVE FitsAt(k, s)'
    <3>1. rows \in SUBSET queue
      BY DEF Unsent
    <3>2. CASE k = j
      BY <2>1, <2>2, <3>1, <3>2, FitsStart
    <3>3. CASE k # j
      <4>1. sender'[k] = sender[k] /\ s \in Subjects \ shared
        BY <2>2, <3>1, <3>3, StartEffect, StartJoins DEF Others
      <4> QED BY <2>1, <4>1, QueueStays, FitsStays DEF Fits
    <3> QED BY <3>2, <3>3
  <2> QED BY <1>1, <1>6, <2>1, <2>2, StartsFrame
<1>7. CASE Around
  <2>1. UNCHANGED <<queue, shared>>
    BY <1>7, AroundFrame
  <2>2. CASE sender'[k] = sender[k]
    BY <2>1, <2>2, QueueStays, FitsStays DEF Fits
  <2>3. CASE sender'[k] # sender[k]
    <3>1. sender'[k].todo = {} /\ sender'[k].trash = {}
      BY <1>7, <2>3, AroundFrame DEF Others
    <3> QED BY <3>1, FitsIdle DEF Working
  <2> QED BY <2>2, <2>3
<1> QED BY <1>2, <1>3, <1>4, <1>5, <1>6, <1>7, StepsAre

----------------------------------------------------------------------------
(* What is DONE, and the last word about a subject.                         *)

\* What never shrinks.
LEMMA Grows ==
  ASSUME TypeOK, Listed, [Next]_vars
  PROVE  /\ shared \subseteq shared' /\ applied \subseteq applied' /\ (storage' => storage)
         /\ mislaid \subseteq mislaid'
         /\ DOMAIN ops = 1 .. Len(ops) /\ DOMAIN ops \subseteq DOMAIN ops'
         /\ \A m \in DOMAIN ops : ops'[m].s = ops[m].s /\ ops'[m].d = ops[m].d
<1>1. DOMAIN ops = 1 .. Len(ops) /\ Len(ops) \in Nat
  BY OutstandingFinite
<1>2. CASE UNCHANGED vars
  BY <1>1, <1>2 DEF vars, phone, books, notes
<1>3. ASSUME NEW s \in Subjects, NEW d \in Decisions(s), Tap(s, d)
      PROVE  /\ shared \subseteq shared' /\ applied' = applied /\ storage' = storage
             /\ mislaid' = mislaid
             /\ DOMAIN ops \subseteq DOMAIN ops' /\ \A m \in DOMAIN ops : ops'[m] = ops[m]
  BY <1>1, <1>3, TapEffect, TapJoins, SMTT(20) DEF Tap, books
<1>4. ASSUME NEW n \in DOMAIN ops, CallStep(n)
      PROVE  /\ shared' = shared /\ applied \subseteq applied' /\ storage' = storage
             /\ mislaid \subseteq mislaid' /\ DOMAIN ops' = DOMAIN ops
             /\ \A m \in DOMAIN ops : ops'[m].s = ops[m].s /\ ops'[m].d = ops[m].d
  BY <1>4, CallFrame
<1>5. ASSUME NEW k \in Senders, SenderStep(k)
      PROVE  shared \subseteq shared' /\ applied \subseteq applied' /\ UNCHANGED <<ops, storage, mislaid>>
  BY <1>5, SenderFrame, SenderLists, ListDoneJoins
<1>6. CASE Starts
  <2>1. UNCHANGED <<ops, storage, applied, mislaid>>
    BY <1>6, StartsFrame
  <2>2. ASSUME NEW j \in Senders, NEW rows \in SUBSET Unsent, Start(j, rows)
        PROVE  shared \subseteq shared'
    <3>1. rows \in SUBSET queue
      BY DEF Unsent
    <3> QED BY <2>2, <3>1, StartJoins
  <2> QED BY <1>1, <1>6, <2>1, <2>2, StartsFrame
<1>7. CASE Around
  BY <1>1, <1>7, AroundFrame
<1> QED BY <1>1, <1>2, <1>3, <1>4, <1>5, <1>6, <1>7, StepsAre

\* The rows of a subject that is not shared follow their sender, or are replaced
\* by a request about it.
LEMMA RowsNext ==
  ASSUME TypeOK, Traced, Roomy, Listed, Fits, [Next]_vars, NEW s \in Subjects \ shared'
  PROVE  Follows(s) \/ \E n \in CallsOn(s) : CallStep(n)
<1>1. CASE queue' = queue
  BY <1>1, QueueStays, StayingFollows
<1>2. ASSUME NEW n \in DOMAIN ops, CallStep(n)
      PROVE  Follows(s) \/ \E m \in CallsOn(s) : CallStep(m)
  <2>1. CASE s # ops[n].s
    BY <1>2, <2>1, CallRows, StayingFollows
  <2>2. CASE s = ops[n].s
    BY <1>2, <2>2, CallsLess
  <2> QED BY <2>1, <2>2
<1>3. ASSUME NEW k \in Senders, SenderStep(k) PROVE Follows(s)
  <2>1. FitsAt(k, s)
    BY Grows DEF Fits
  <2> QED BY <1>3, <2>1, SenderRows
<1>4. queue' # queue =>
        (\E n \in DOMAIN ops : CallStep(n)) \/ (\E k \in Senders : SenderStep(k))
  BY StepsAre, StartsFrame, AroundFrame DEF Tap, vars, phone
<1> QED BY <1>1, <1>2, <1>3, <1>4

LEMMA ServedNext ==
  ASSUME TypeOK, Traced, Roomy, Listed, Fits, DoneMeansServed, Traced', TypeOK', [Next]_vars
  PROVE  DoneMeansServed'
<1> SUFFICES ASSUME NEW y \in queue', y.status = "DONE", y.id[1] \notin shared'
             PROVE  y.n \in applied'
  BY DEF DoneMeansServed
<1> DEFINE s == y.id[1]
<1>1. s \in Subjects
  BY IdsAre DEF TypeOK, Row
<1>2. applied \subseteq applied' /\ s \in Subjects \ shared' /\ s \notin shared
  BY <1>1, Grows
<1>3. CASE Follows(s)
  <2>1. PICK x \in queue : Kin(x, y) /\ (x.status = "DONE" \/ x.n \in applied)
    BY <1>3 DEF Follows
  <2> QED BY <1>2, <2>1 DEF DoneMeansServed, Kin
<1>4. ASSUME NEW n \in CallsOn(s), CallStep(n) PROVE y.n \in applied'
  <2>1. n \in DOMAIN ops
    BY DEF CallsOn, Outstanding
  <2>2. CASE Store(n)
    <3>1. PICK r \in Row : r.status = "PENDING" /\ queue' = (queue \ RowsOf(r.id)) \cup {r}
      BY <2>1, <2>2, StoreEffect
    <3> QED BY <1>2, <3>1 DEF DoneMeansServed
  <2>3. CASE ~ Store(n)
    <3>1. queue' \subseteq queue
      BY <1>4, <2>3 DEF CallStep, Serve, Answer, Refuse, Lose, ListOlder, RemoveOlder, StoreFails, PutRefused
    <3> QED BY <1>2, <3>1 DEF DoneMeansServed
  <2> QED BY <2>2, <2>3
<1> HIDE DEF s
<1> QED BY <1>2, <1>3, <1>4, RowsNext

\* A subject with a request has no sender, unless it is shared: its rows stay
\* under what senders do.
LEMMA CalledRowsStay ==
  ASSUME TypeOK, Listed, Alone, NEW s \in Subjects \ shared, Calling(s),
         NEW k \in Senders, SenderStep(k)
  PROVE  Stays(s)
BY OtherRows DEF Alone

LEMMA LastWordStays ==
  ASSUME NEW s, LastWordOn(s), Stays(s), ops' = ops
  PROVE  LastWordOn(s)'
<1>1. \A y \in Unsent' : y.id[1] = s => \E x \in Unsent : x.id = y.id
  BY DEF Stays, Same, Unsent
<1> QED BY <1>1 DEF LastWordOn, CallsOn, Outstanding

\* The request itself: it lists what is to go before it stores.
LEMMA LastWordCall ==
  ASSUME TypeOK, OpsTraced, NEW n \in DOMAIN ops, CallStep(n), NEW s, s = ops[n].s,
         LastWordOn(s), \A m \in CallsOn(s) : m = n
  PROVE  LastWordOn(s)'
<1>1. /\ DOMAIN ops' = DOMAIN ops /\ n \in CallsOn(s) /\ CallsOn(s)' \subseteq CallsOn(s)
      /\ s \in Subjects /\ \A m \in DOMAIN ops : ops'[m].s = ops[m].s
  BY CallFrame, CallsLess
<1>2. \A m \in CallsOn(s)' : m = n
  BY <1>1
<1>3. \A m \in DOMAIN ops' : ops'[m].s = s => m <= n
  BY <1>1 DEF LastWordOn
<1>4. /\ ops'[n].stage = "removing" =>
           \A x \in Unsent' : x.id[1] = s => x.id \in ops'[n].victims
      /\ ops'[n].stage = "storing" /\ s \in Gaps \cup Chores => \A x \in Unsent' : x.id[1] # s
  <2>1. CASE Serve(n)
    BY <2>1, StageEffect DEF Serve, Stages
  <2>2. CASE Answer(n) \/ Refuse(n) \/ Store(n) \/ StoreFails(n) \/ PutRefused(n)
    BY <2>2, StageEffect DEF Answer, Refuse, Store, StoreFails, PutRefused, Stages
  <2>3. CASE Lose(n)
    <3>1. Stage(n, IF s \in Gaps \cup Chores THEN "listing" ELSE "storing")
      BY <2>3 DEF Lose
    <3>2. ops'[n].stage = IF s \in Gaps \cup Chores THEN "listing" ELSE "storing"
      BY <3>1, StageEffect DEF Stages
    <3> QED BY <3>2
  <2>4. CASE ListOlder(n)
    <3>1. /\ ops'[n].victims = {x.id : x \in {y \in Unsent : y.id[1] = s}}
          /\ ops'[n].stage = IF ops'[n].victims = {} THEN "storing" ELSE "removing"
      BY <2>4, ListOlderEffect
    <3>2. queue' = queue
      BY <2>4 DEF ListOlder
    <3>3. \A x \in Unsent' : x.id[1] = s => x.id \in ops'[n].victims
      BY <3>1, <3>2 DEF Unsent
    <3> QED BY <3>1, <3>3
  <2>5. CASE RemoveOlder(n)
    <3>1. PICK id \in ops[n].victims :
            /\ queue' = queue \ RowsOf(id) /\ ops'[n].victims = ops[n].victims \ {id}
            /\ ops'[n].stage = IF ops[n].victims = {id} THEN "storing" ELSE "removing"
      BY <2>5, RemoveOlderEffect
    <3>2. ops[n].stage = "removing"
      BY <2>5 DEF RemoveOlder
    <3>3. \A x \in Unsent : x.id[1] = s => x.id \in ops[n].victims
      BY <1>1, <3>2 DEF LastWordOn
    <3>4. \A x \in Unsent' : x.id[1] = s => x.id \in ops'[n].victims
      BY <3>1, <3>3 DEF Unsent, RowsOf
    <3> QED BY <3>1, <3>4
  <2> QED BY <2>1, <2>2, <2>3, <2>4, <2>5 DEF CallStep
<1> QED BY <1>2, <1>3, <1>4 DEF LastWordOn

LEMMA LastWordNext ==
  ASSUME TypeOK, Traced, Roomy, Listed, Alone, LastWord, [Next]_vars
  PROVE  LastWord'
<1> SUFFICES ASSUME NEW s \in Subjects \ shared' PROVE LastWordOn(s)'
  BY DEF LastWord
<1>1. s \in Subjects \ shared /\ LastWordOn(s)
  BY Grows DEF LastWord
<1>2. ASSUME UNCHANGED <<ops, queue>> PROVE LastWordOn(s)'
  BY <1>1, <1>2, QueueStays, LastWordStays
<1>3. CASE UNCHANGED vars
  BY <1>2, <1>3 DEF vars, phone
<1>4. ASSUME NEW q \in Subjects, NEW d \in Decisions(q), Tap(q, d) PROVE LastWordOn(s)'
  <2>1. /\ DOMAIN ops = 1 .. Len(ops) /\ Len(ops) \in Nat /\ DOMAIN ops' = 1 .. Len(ops) + 1
        /\ \A m \in DOMAIN ops : ops'[m] = ops[m]
        /\ ops'[Len(ops) + 1].s = q /\ ops'[Len(ops) + 1].stage = "sent"
    BY <1>4, TapEffect, OutstandingFinite
  <2>2. queue' = queue
    BY <1>4 DEF Tap
  <2>3. CASE q = s
    <3>1. CallsOn(s)' = {Len(ops) + 1}
      BY <1>1, <1>4, <2>3, TapJoins DEF Calling
    <3> QED BY <2>1, <3>1 DEF LastWordOn
  <2>4. CASE q # s
    <3>1. CallsOn(s)' = CallsOn(s) /\ CallsOn(s) \subseteq DOMAIN ops
      BY <1>4, <2>4, TapJoins DEF CallsOn, Outstanding
    <3> QED BY <1>1, <2>1, <2>2, <2>4, <3>1 DEF LastWordOn, Unsent
  <2> QED BY <2>3, <2>4
<1>5. ASSUME NEW n \in DOMAIN ops, CallStep(n) PROVE LastWordOn(s)'
  <2>1. CASE s = ops[n].s
    <3>1. \A m \in CallsOn(s) : m = n
      BY <1>1, <1>5, <2>1, CallsLess DEF Alone
    <3> QED BY <1>1, <1>5, <2>1, <3>1, LastWordCall DEF Traced
  <2>2. CASE s # ops[n].s
    <3>1. Stays(s)
      BY <1>5, <2>2, CallRows
    <3>2. /\ DOMAIN ops' = DOMAIN ops
          /\ \A m \in DOMAIN ops : /\ ops'[m].s = ops[m].s
                                   /\ m # n => /\ ops'[m].stage = ops[m].stage
                                               /\ ops'[m].victims = ops[m].victims
      BY <1>5, CallFrame
    <3>3. \A y \in Unsent' : y.id[1] = s => \E x \in Unsent : x.id = y.id
      BY <3>1 DEF Stays, Same, Unsent
    <3>4. CallsOn(s)' = CallsOn(s)
      BY <2>2, <3>2 DEF CallsOn, Outstanding
    <3>5. ASSUME NEW m \in CallsOn(s)
          PROVE  /\ m \in DOMAIN ops /\ ops'[m].stage = ops[m].stage
                 /\ ops'[m].victims = ops[m].victims
      BY <2>2, <3>2 DEF CallsOn, Outstanding
    <3> QED BY <1>1, <3>2, <3>3, <3>4, <3>5 DEF LastWordOn
  <2> QED BY <2>1, <2>2
<1>6. ASSUME NEW k \in Senders, SenderStep(k) PROVE LastWordOn(s)'
  <2>1. ops' = ops
    BY <1>6, SenderFrame
  <2>2. CASE Calling(s)
    BY <1>1, <1>6, <2>1, <2>2, CalledRowsStay, LastWordStays
  <2>3. CASE ~ Calling(s)
    BY <2>1, <2>3 DEF LastWordOn, Calling, CallsOn, Outstanding
  <2> QED BY <2>2, <2>3
<1> QED BY <1>2, <1>3, <1>4, <1>5, <1>6, StepsAre, StartsFrame, AroundFrame

----------------------------------------------------------------------------
(* What is storedOver stays away.                                           *)

\* The rows a sender has on its list after a step it had before.
LEMMA TodoShrinks ==
  ASSUME TypeOK, Listed, NEW k \in Senders, SenderStep(k)
  PROVE  \A j \in Senders : sender'[j].todo \subseteq sender[j].todo
<1>1. Others(k) /\ sender'[k].todo \subseteq sender[k].todo
  BY SenderLists, ListDoneEffect
<1> QED BY <1>1 DEF Others

LEMMA ForgottenStays ==
  ASSUME NEW n, Forgotten(n), ops' = ops, applied' = applied, queue' = queue,
         \A k \in Senders : \A x \in sender'[k].todo : x \in queue \/ x \in sender[k].todo
  PROVE  Forgotten(n)'
BY DEF Forgotten

\* What a stored row makes storedOver is nowhere.
LEMMA StoredOverByStore ==
  ASSUME TypeOK, Traced, Roomy, Listed, Alone, DoneMeansServed, LastWord,
         NEW n \in DOMAIN ops, Store(n), ops[n].s \notin shared,
         NEW m \in DOMAIN ops, m # n, m \notin applied, ops[m].s = ops[n].s, ops[m].stage = "over"
  PROVE  Forgotten(m)'
<1> DEFINE s == ops[n].s
<1>1. n \in CallsOn(s) /\ s \in Subjects \ shared /\ UNCHANGED <<sender, applied>>
  BY OpIs DEF CallsOn, Outstanding, Store, books
<1>2. \A k \in Senders : ~ Working(k, s)
  BY <1>1 DEF Alone, Calling
<1>3. ASSUME NEW k \in Senders, NEW x \in sender'[k].todo PROVE x.n # m
  <2>1. x \in sender[k].todo /\ FromTap(x)
    BY <1>1 DEF Traced, RowsTraced
  <2> QED BY <1>2, <2>1 DEF FromTap, Working
<1>4. PICK r \in Row : /\ r.id = <<s, ops[n].d>> /\ r.n = n
                       /\ queue' = (queue \ RowsOf(r.id)) \cup {r}
  BY StoreEffect
<1>5. ASSUME NEW x \in queue', x.n = m PROVE FALSE
  <2>1. x \in queue /\ x.id # r.id
    BY <1>4, <1>5 DEF RowsOf
  <2>2. x.id[1] = s
    BY <1>5, <2>1 DEF Traced, RowsTraced, FromTap
  <2>3. x \in Unsent
    BY <1>1, <1>5, <2>1, <2>2 DEF Unsent, DoneMeansServed
  <2>4. CASE s \in Gaps \cup Chores
    BY <1>1, <2>2, <2>3, <2>4 DEF LastWord, LastWordOn, Store
  <2>5. CASE s \in Photos \cup Closings
    <3>1. x.id \in Ids /\ r.id \in Ids /\ r.id[1] = s
      BY <1>4, <2>1, RowSubject DEF Row
    <3> QED BY <2>1, <2>2, <2>5, <3>1, OneId
  <2> QED BY <1>1, <2>4, <2>5 DEF Subjects
<1>6. ops'[m].stage = "over"
  BY CallFrame DEF CallStep
<1> QED BY <1>1, <1>3, <1>5, <1>6 DEF Forgotten

LEMMA GoneNext ==
  ASSUME TypeOK, Traced, Roomy, Listed, Alone, Fits, DoneMeansServed, LastWord, Gone,
         Traced', [Next]_vars
  PROVE  Gone'
<1> SUFFICES ASSUME NEW n \in storedOver', ops'[n].s \notin shared' PROVE Forgotten(n)'
  BY DEF Gone
<1>1. ASSUME storedOver' = storedOver
      PROVE  /\ n \in DOMAIN ops /\ Forgotten(n) /\ ops'[n].s = ops[n].s
             /\ ops[n].s \in Subjects \ shared'
  BY <1>1, Grows, OpIs DEF Gone, TypeOK
<1>2. CASE UNCHANGED vars
  BY <1>1, <1>2, ForgottenStays DEF vars, phone, books, notes
<1>3. ASSUME NEW s \in Subjects, NEW d \in Decisions(s), Tap(s, d) PROVE Forgotten(n)'
  <2>1. UNCHANGED <<storedOver, applied, queue, sender>> /\ \A m \in DOMAIN ops : ops'[m] = ops[m]
    BY <1>3, TapEffect DEF Tap, books
  <2> QED BY <1>1, <2>1 DEF Forgotten
<1>4. ASSUME NEW k \in Senders, SenderStep(k) PROVE Forgotten(n)'
  <2>1. UNCHANGED <<ops, storedOver>>
    BY <1>4, SenderFrame
  <2>2. n \notin applied'
    <3>1. sender[k].pc = "send" => Current(k) \in sender[k].todo
      BY CurrentIs DEF RowPhases
    <3> QED BY <1>1, <1>4, <2>1, <3>1, AppliedBy DEF Forgotten, Apply
  <2>3. \A j \in Senders : \A x \in sender'[j].todo : x.n # n
    BY <1>1, <1>4, <2>1, TodoShrinks DEF Forgotten
  <2>4. ASSUME NEW y \in queue', y.n = n PROVE FALSE
    <3>1. y.id[1] = ops[n].s
      BY <2>1, <2>4 DEF Traced, RowsTraced, FromTap
    <3>2. FitsAt(k, ops[n].s)
      BY <1>1, <2>1, Grows DEF Fits
    <3>3. Follows(ops[n].s)
      BY <1>4, <3>2, SenderRows
    <3>4. PICK x \in queue : x.n = n
      BY <2>4, <3>1, <3>3 DEF Follows, Kin
    <3> QED BY <1>1, <2>1, <3>4 DEF Forgotten
  <2> QED BY <1>1, <2>1, <2>2, <2>3, <2>4 DEF Forgotten
<1>5. CASE Starts
  <2>1. UNCHANGED <<ops, applied, queue, storedOver>>
    BY <1>5, StartsFrame
  <2>2. \A j \in Senders : \A x \in sender'[j].todo : x \in queue \/ x \in sender[j].todo
    <3>1. ASSUME NEW k \in Senders, NEW rows \in SUBSET Unsent, Start(k, rows)
          PROVE  \A j \in Senders : \A x \in sender'[j].todo : x \in queue \/ x \in sender[j].todo
      <4>1. rows \in SUBSET queue
        BY DEF Unsent
      <4>2. sender'[k].todo = rows /\ Others(k)
        BY <3>1, <4>1, StartEffect
      <4> QED BY <4>1, <4>2 DEF Others
    <3> QED BY <1>5, <3>1, StartsFrame
  <2> QED BY <1>1, <2>1, <2>2, ForgottenStays
<1>6. CASE Around
  <2>1. UNCHANGED <<ops, applied, queue, storedOver>>
    BY <1>6, AroundFrame
  <2>2. \A j \in Senders : \A x \in sender'[j].todo : x \in queue \/ x \in sender[j].todo
    BY <1>6, AroundFrame DEF Others
  <2> QED BY <1>1, <2>1, <2>2, ForgottenStays
<1>7. ASSUME NEW k \in DOMAIN ops, CallStep(k) PROVE Forgotten(n)'
  <2>1. /\ sender' = sender /\ shared' = shared /\ ops[k].stage # "over"
        /\ \A m \in DOMAIN ops : ops'[m].s = ops[m].s /\ (m # k => ops'[m].stage = ops[m].stage)
    BY <1>7, CallFrame
  <2>2. CASE Store(k)
    <3>1. storedOver' = storedOver \cup
            {m \in (1 .. k - 1) \ applied : ops[m].s = ops[k].s /\ ops[m].stage = "over"}
      BY <2>2 DEF Store
    <3>2. CASE n \in storedOver
      <4>1. n \in DOMAIN ops /\ Forgotten(n) /\ n # k
        BY <2>1, <3>2 DEF Gone, TypeOK, Forgotten
      <4>2. PICK r \in Row : r.n = k /\ queue' = (queue \ RowsOf(r.id)) \cup {r}
        BY <2>2, StoreEffect
      <4>3. applied' = applied
        BY <2>2 DEF Store, books
      <4> QED BY <2>1, <4>1, <4>2, <4>3 DEF Forgotten
    <3>3. CASE n \notin storedOver
      <4>1. /\ n \in 1 .. k - 1 /\ n \notin applied
            /\ ops[n].s = ops[k].s /\ ops[n].stage = "over"
        BY <3>1, <3>3
      <4>2. n \in DOMAIN ops /\ n # k
        BY <4>1, Grows DEF TypeOK
      <4>3. ops[k].s \notin shared
        BY <2>1, <4>1, <4>2
      <4> QED BY <2>2, <4>1, <4>2, <4>3, StoredOverByStore
    <3> QED BY <3>2, <3>3
  <2>3. CASE ~ Store(k)
    <3>1. /\ queue' \subseteq queue /\ storedOver' = storedOver
          /\ applied' = applied \/ applied' = applied \cup {k}
      BY <1>7, <2>3 DEF CallStep, Serve, Answer, Refuse, Lose, ListOlder, RemoveOlder,
         StoreFails, PutRefused, Apply, books, notes
    <3>2. n \in DOMAIN ops /\ Forgotten(n) /\ n # k
      BY <1>1, <2>1, <3>1 DEF Forgotten
    <3> QED BY <2>1, <3>1, <3>2 DEF Forgotten
  <2> QED BY <2>2, <2>3
<1> QED BY <1>2, <1>3, <1>4, <1>5, <1>6, <1>7, StepsAre

----------------------------------------------------------------------------
(* What the server was told last.                                           *)

\* A sender has an answer to settle only when it has sent its row, and until then.
LEMMA OkBy ==
  ASSUME TypeOK, Listed, NEW k \in Senders, SenderStep(k), sender'[k].ok, ~ Send(k)
  PROVE  sender[k].ok /\ sender'[k].todo = sender[k].todo /\ UNCHANGED <<applied, inForce>>
<1>1. sender[k].ok => sender[k].pc \in {"settle", "settling"}
  BY DEF Listed
<1>2. CASE MarkRow(k) \/ KeepGrant(k) \/ SettleRow(k)
  <2>1. PICK to \in Phases : Read(k, sender[k].pc, to)
    BY <1>2 DEF MarkRow, KeepGrant, SettleRow, Read, At, Phases, RowPhases
  <2> QED BY <2>1, ReadEffect DEF Read, books
<1>3. CASE Marked(k)
  BY <1>3, MarkedEffect
<1>4. CASE Presign(k)
  BY <1>1, <1>4, PresignEffect DEF Presign, At
<1>5. CASE PresignLost(k) \/ Kept(k) \/ SendFails(k) \/ Stalls(k) \/ Acknowledge(k)
  <2>1. PICK pc \in Phases : Go(k, pc)
    BY <1>5 DEF PresignLost, Kept, SendFails, Stalls, Acknowledge, Phases, RowPhases
  <2>2. sender[k].pc \in {"presign", "keeping", "send", "ack"}
    BY <1>5 DEF PresignLost, Kept, SendFails, Stalls, Acknowledge, At
  <2> QED BY <1>1, <2>1, <2>2, GoEffect
<1>6. CASE Settled(k)
  BY <1>6, SettledEffect
<1>7. CASE ListDone(k)
  BY <1>7, ListDoneEffect
<1>8. CASE RemoveDone(k)
  <2>1. sender[k].pc = "purging"
    BY <1>8 DEF RemoveDone, At
  <2>2. IdleAt(sender'[k]) \/ sender'[k].ok = sender[k].ok
    BY <1>8, RemoveDoneEffect
  <2> QED BY <1>1, <2>1, <2>2 DEF IdleAt
<1>9. CASE SenderDies(k)
  BY <1>9, DiesEffect DEF IdleAt
<1> QED BY <1>2, <1>3, <1>4, <1>5, <1>6, <1>7, <1>8, <1>9 DEF SenderStep

\* A sender whose answer is about a subject works on it.
LEMMA OkWorks ==
  ASSUME TypeOK, Listed, NEW k \in Senders, sender[k].ok
  PROVE  Working(k, Current(k).id[1])
<1>1. sender[k].pc \in RowPhases
  BY DEF Listed, RowPhases
<1> QED BY <1>1, WorksOnCurrent

\* A sender tells the server of the row it works on, and nothing else.
LEMMA TellsOfCurrent ==
  ASSUME TypeOK, Traced, Listed, NEW k \in Senders, Apply(Current(k).n),
         sender[k].pc = "send"
  PROVE  LET c == Current(k) IN
         /\ c.n \in DOMAIN ops /\ c.n # 0 /\ c.id = <<ops[c.n].s, ops[c.n].d>>
         /\ Working(k, c.id[1]) /\ inForce'[c.id[1]] = c.n
         /\ \A s \in Subjects \ {c.id[1]} : inForce'[s] = inForce[s]
<1>1. PICK c : c = Current(k)
  OBVIOUS
<1>2. c \in sender[k].todo /\ c.id[1] \in Subjects /\ Working(k, c.id[1])
  BY <1>1, WorksOnCurrent DEF RowPhases
<1>3. FromTap(c)
  BY <1>2 DEF Traced, RowsTraced
<1>4. c.n \in DOMAIN ops /\ c.id = <<ops[c.n].s, ops[c.n].d>> /\ ops[c.n].s = c.id[1]
  BY <1>3 DEF FromTap
<1>5. inForce' = [inForce EXCEPT ![c.id[1]] = c.n] /\ inForce \in [Subjects -> 0 .. MaxTaps]
  BY <1>1, <1>4 DEF Apply, TypeOK
<1>6. c.n # 0
  BY <1>4, OutstandingFinite
<1> QED BY <1>1, <1>2, <1>4, <1>5, <1>6

\* A request that is served by this step, or was and is not over.
LEMMA ServedIs ==
  ASSUME TypeOK, NEW n \in DOMAIN ops, CallStep(n)
  PROVE  Serve(n) <=> ops'[n].stage = "served"
<1>1. CASE Serve(n)
  BY <1>1, StageEffect DEF Serve, Stages
<1>2. CASE Answer(n) \/ Refuse(n) \/ StoreFails(n) \/ PutRefused(n) \/ Store(n)
  <2>1. ops[n].stage # "sent" \/ Refuse(n)
    BY <1>2 DEF Answer, StoreFails, PutRefused, Store
  <2>2. ops'[n].stage = "over"
    BY <1>2, StageEffect DEF Answer, Refuse, StoreFails, PutRefused, Store, Stages
  <2> QED BY <1>1, <2>2
<1>3. CASE Lose(n)
  <2>1. PICK stage \in {"listing", "storing"} : Stage(n, stage)
    BY <1>3 DEF Lose
  <2> QED BY <1>1, <2>1, StageEffect DEF Stages
<1>4. CASE ListOlder(n)
  BY <1>1, <1>4, ListOlderEffect
<1>5. CASE RemoveOlder(n)
  BY <1>1, <1>5, RemoveOlderEffect
<1> QED BY <1>1, <1>2, <1>3, <1>4, <1>5 DEF CallStep

LEMMA ServesForce ==
  ASSUME TypeOK, NEW n \in DOMAIN ops, Serve(n)
  PROVE  /\ ops[n].s \in Subjects /\ inForce'[ops[n].s] = n
         /\ \A s \in Subjects \ {ops[n].s} : inForce'[s] = inForce[s]
<1>1. ops[n].s \in Subjects /\ inForce \in [Subjects -> 0 .. MaxTaps]
  BY OpIs DEF TypeOK
<1> QED BY <1>1 DEF Serve, Apply

LEMMA ToldStays ==
  ASSUME NEW s, ToldOn(s), inForce'[s] = inForce[s],
         \A n \in CallsOn(s)' : ops'[n].stage = "served" => n \in CallsOn(s) /\ ops[n].stage = "served",
         \A k \in Senders : sender'[k].ok => sender[k].ok /\ sender'[k].todo = sender[k].todo
  PROVE  ToldOn(s)'
BY DEF ToldOn, Current

LEMMA ToldNext ==
  ASSUME TypeOK, Traced, Listed, Alone, Told, [Next]_vars
  PROVE  Told'
<1> SUFFICES ASSUME NEW s \in Subjects \ shared' PROVE ToldOn(s)'
  BY DEF Told
<1>1. s \in Subjects \ shared /\ ToldOn(s)
  BY Grows DEF Told
<1>2. ASSUME UNCHANGED <<ops, inForce>>,
             \A k \in Senders : sender'[k].ok => sender[k].ok /\ sender'[k].todo = sender[k].todo
      PROVE  ToldOn(s)'
  BY <1>1, <1>2, ToldStays DEF CallsOn, Outstanding
<1>3. CASE UNCHANGED vars
  BY <1>2, <1>3 DEF vars, phone, books
<1>4. ASSUME NEW q \in Subjects, NEW d \in Decisions(q), Tap(q, d) PROVE ToldOn(s)'
  <2>1. UNCHANGED <<sender, inForce>>
    BY <1>4 DEF Tap, books
  <2>2. \A n \in CallsOn(s)' : ops'[n].stage = "served" => n \in CallsOn(s) /\ ops[n].stage = "served"
    BY <1>4, TapEffect, TapJoins DEF CallsOn, Outstanding
  <2> QED BY <1>1, <2>1, <2>2, ToldStays
<1>5. ASSUME NEW n \in DOMAIN ops, CallStep(n) PROVE ToldOn(s)'
  <2>1. /\ sender' = sender /\ CallsOn(s)' \subseteq CallsOn(s) /\ n \in CallsOn(ops[n].s)
        /\ \A m \in DOMAIN ops : m # n => ops'[m].stage = ops[m].stage
    BY <1>5, CallFrame, CallsLess
  <2>2. CASE Serve(n) /\ s = ops[n].s
    <3>1. \A m \in CallsOn(s)' : m = n
      BY <1>1, <2>1, <2>2 DEF Alone
    <3>2. \A k \in Senders : ~ Working(k, s)
      BY <1>1, <2>1, <2>2 DEF Alone, Calling
    <3>3. ASSUME NEW k \in Senders, sender'[k].ok PROVE Current(k)'.id[1] # s
      <4>1. sender[k].ok /\ Current(k)' = Current(k)
        BY <2>1, <3>3 DEF Current
      <4> QED BY <3>2, <4>1, OkWorks
    <3> QED BY <2>2, <3>1, <3>3, ServesForce DEF ToldOn
  <2>3. CASE ~ (Serve(n) /\ s = ops[n].s)
    <3>1. inForce'[s] = inForce[s]
      BY <1>1, <1>5, <2>3, CallFrame, ServesForce
    <3>2. ASSUME NEW m \in CallsOn(s)', ops'[m].stage = "served"
          PROVE  m \in CallsOn(s) /\ ops[m].stage = "served"
      <4>1. m \in CallsOn(s) /\ m \in DOMAIN ops /\ ops[m].s = s
        BY <2>1 DEF CallsOn, Outstanding
      <4> QED BY <1>5, <2>1, <2>3, <3>2, <4>1, ServedIs
    <3> QED BY <1>1, <2>1, <3>1, <3>2, ToldStays
  <2> QED BY <2>2, <2>3
<1>6. ASSUME NEW k \in Senders, SenderStep(k) PROVE ToldOn(s)'
  <2>1. ops' = ops /\ Others(k)
    BY <1>6, SenderFrame, SenderLists, ListDoneEffect
  <2>2. CASE UNCHANGED <<applied, inForce>> /\ ~ Send(k)
    <3>1. \A j \in Senders : sender'[j].ok => sender[j].ok /\ sender'[j].todo = sender[j].todo
      BY <1>6, <2>1, <2>2, OkBy DEF Others
    <3> QED BY <1>2, <2>1, <2>2, <3>1
  <2>3. CASE sender[k].pc = "send" /\ Apply(Current(k).n)
    <3>1. PICK q : q = Current(k).id[1]
      OBVIOUS
    <3>2. Working(k, q) /\ inForce'[q] = Current(k).n
          /\ \A r \in Subjects \ {q} : inForce'[r] = inForce[r]
      BY <2>3, <3>1, TellsOfCurrent
    <3>3. CASE q = s
      <4>1. CallsOn(s)' = {}
        BY <1>1, <2>1, <3>2, <3>3 DEF Alone, Calling, CallsOn, Outstanding
      <4>2. ASSUME NEW j \in Senders, sender'[j].ok, Current(j)'.id[1] = s
            PROVE  inForce'[s] = Current(j)'.n
        <5>1. CASE j = k
          <6>1. CASE Send(k)
            <7>1. sender'[k].todo = sender[k].todo
              BY <6>1, SendEffect
            <7> QED BY <3>2, <3>3, <5>1, <7>1 DEF Current
          <6>2. CASE ~ Send(k)
            <7>1. sender[k].ok
              BY <1>6, <4>2, <5>1, <6>2, OkBy
            <7> QED BY <2>3, <7>1 DEF Listed
          <6> QED BY <6>1, <6>2
        <5>2. CASE j # k
          <6>1. sender[j].ok /\ Current(j)' = Current(j)
            BY <2>1, <4>2, <5>2 DEF Others, Current
          <6>2. Working(j, s)
            BY <4>2, <6>1, OkWorks
          <6> QED BY <1>1, <3>2, <3>3, <5>2, <6>2 DEF Alone
        <5> QED BY <5>1, <5>2
      <4> QED BY <4>1, <4>2 DEF ToldOn
    <3>4. CASE q # s
      <4>1. inForce'[s] = inForce[s]
        BY <1>1, <3>2, <3>4
      <4>2. CallsOn(s)' = CallsOn(s)
        BY <2>1 DEF CallsOn, Outstanding
      <4>3. ASSUME NEW j \in Senders, sender'[j].ok, Current(j)'.id[1] = s
            PROVE  inForce[s] = Current(j)'.n
        <5>1. CASE j = k /\ Send(k)
          <6>1. sender'[k].todo = sender[k].todo
            BY <5>1, SendEffect
          <6> QED BY <3>1, <3>4, <4>3, <5>1, <6>1 DEF Current
        <5>2. CASE ~ (j = k /\ Send(k))
          <6>1. sender[j].ok /\ Current(j)' = Current(j)
            BY <1>6, <2>1, <4>3, <5>2, OkBy DEF Others, Current
          <6> QED BY <1>1, <4>3, <6>1 DEF ToldOn
        <5> QED BY <5>1, <5>2
      <4> QED BY <1>1, <2>1, <4>1, <4>2, <4>3 DEF ToldOn
    <3> QED BY <3>3, <3>4
  <2>4. Send(k) => sender[k].pc = "send" /\ Apply(Current(k).n)
    BY DEF Send, At
  <2> QED BY <1>6, <2>2, <2>3, <2>4, AppliedBy
<1>7. CASE Starts
  <2>1. UNCHANGED <<ops, inForce>>
    BY <1>7, StartsFrame
  <2>2. \A j \in Senders : sender'[j].ok => sender[j].ok /\ sender'[j].todo = sender[j].todo
    <3>1. ASSUME NEW k \in Senders, NEW rows \in SUBSET Unsent, Start(k, rows)
          PROVE  \A j \in Senders : sender'[j].ok => sender[j].ok /\ sender'[j].todo = sender[j].todo
      <4>1. rows \in SUBSET queue
        BY DEF Unsent
      <4>2. Others(k) /\ sender'[k].ok = FALSE
        BY <3>1, <4>1, StartEffect
      <4> QED BY <4>2 DEF Others
    <3> QED BY <1>7, <3>1, StartsFrame
  <2> QED BY <1>2, <2>1, <2>2
<1>8. CASE Around
  <2>1. UNCHANGED <<ops, inForce>>
    BY <1>8, AroundFrame
  <2>2. sender["page"].pc = "idle" => ~ sender["page"].ok
    BY DEF Listed, Senders
  <2>3. \A j \in Senders : sender'[j].ok => sender[j].ok /\ sender'[j].todo = sender[j].todo
    BY <1>8, <2>2, AroundFrame DEF Others
  <2> QED BY <1>2, <2>1, <2>3
<1> QED BY <1>3, <1>4, <1>5, <1>6, <1>7, <1>8, StepsAre

----------------------------------------------------------------------------
(* What the screens show is kept.                                           *)

\* A row that waits goes on waiting, or was what the server was told last; and
\* every row that waits or is being sent has the id of one that did.
Upheld(s) ==
  \A x \in Unsent : x.id[1] = s => inForce[s] = x.n \/ \E y \in Unsent' : Kin(x, y)
Seen(y) == \/ \E x \in Unsent : x.id = y.id
           \/ \E k \in Senders : \E x \in sender[k].todo : x.id = y.id
Known(s) ==
  /\ \A y \in Unsent' : y.id[1] = s => Seen(y)
  /\ \A k \in Senders : \A y \in sender'[k].todo : y.id[1] = s => Seen(y)

LEMMA StayingUpheld ==
  ASSUME NEW s, Stays(s)
  PROVE  /\ Upheld(s)
         /\ \A y \in Unsent' : y.id[1] = s => Seen(y)
<1>1. ASSUME NEW x \in Unsent, x.id[1] = s PROVE \E y \in Unsent' : Kin(x, y)
  <2>1. x \in queue /\ x.status # "DONE"
    BY DEF Unsent
  <2>2. PICK y \in queue' : Same(x, y)
    BY <1>1, <2>1 DEF Stays
  <2> QED BY <2>1, <2>2 DEF Same, Kin, Unsent
<1>2. ASSUME NEW y \in Unsent', y.id[1] = s PROVE Seen(y)
  <2>1. y \in queue' /\ y.status # "DONE"
    BY DEF Unsent
  <2>2. PICK x \in queue : Same(x, y)
    BY <1>2, <2>1 DEF Stays
  <2> QED BY <2>1, <2>2 DEF Same, Seen, Unsent
<1> QED BY <1>1, <1>2 DEF Upheld

\* A row that is written back waits, unless it was sent.
LEMMA RewrittenUpheld ==
  ASSUME TypeOK, Listed, NEW k \in Senders, NEW s, sender[k].pc \in Holding, FitsAt(k, s),
         NEW st, NEW g, RewrittenAs(k, st) \/ RewrittenWith(k, g),
         st = "DONE" /\ Current(k).id[1] = s => inForce[s] = Current(k).n
  PROVE  Upheld(s)
<1> SUFFICES ASSUME NEW x \in Unsent, x.id[1] = s, inForce[s] # x.n
             PROVE  \E y \in Unsent' : Kin(x, y)
  BY DEF Upheld
<1>1. x \in queue /\ x.status # "DONE"
  BY DEF Unsent
<1>2. CASE Unwritten(k, x)
  BY <1>1, <1>2 DEF RewrittenAs, RewrittenWith, Kin, Unsent
<1>3. CASE ~ Unwritten(k, x)
  <2>1. PICK d \in sender[k].copy : d.id = x.id
    BY <1>3 DEF Unwritten
  <2>2. Current(k).id = x.id /\ Current(k).id[1] = s
    BY <2>1 DEF Listed
  <2>3. PICK c \in sender[k].copy, z \in queue : z.id = Current(k).id /\ Same(z, c)
    BY <2>2 DEF FitsAt
  <2>4. z = x /\ Current(k) \in sender[k].todo
    BY <1>1, <2>2, <2>3, CurrentIs DEF TypeOK, Holding, RowPhases
  <2>5. x.n = Current(k).n
    <3>1. PICK w \in queue : w.id = Current(k).id /\ w.n = Current(k).n
      BY <2>2, <2>4 DEF FitsAt
    <3> QED BY <1>1, <2>2, <3>1 DEF TypeOK
  <2>6. st # "DONE"
    BY <2>2, <2>5
  <2>7. \E y \in queue' : y.id = c.id /\ y.n = c.n /\ (y.status = st \/ y.status = c.status)
    BY <2>3 DEF RewrittenAs, RewrittenWith, Restated, Regranted
  <2> QED BY <1>1, <2>3, <2>4, <2>6, <2>7 DEF Same, Kin, Unsent
<1> QED BY <1>2, <1>3

\* What a sender that nobody disturbs does to the rows that wait.
LEMMA UpheldBySender ==
  ASSUME TypeOK, Listed, NEW k \in Senders, SenderStep(k), NEW s, FitsAt(k, s), ToldOn(s)
  PROVE  Upheld(s)
<1>1. CASE Marked(k)
  <2>1. sender[k].pc \in Holding /\ RewrittenAs(k, "UPLOADING")
    BY <1>1, MarkedQueue DEF Marked, At, Holding
  <2> QED BY <2>1, RewrittenUpheld
<1>2. CASE Kept(k)
  <2>1. sender[k].pc \in Holding /\ RewrittenWith(k, sender[k].grant)
    BY <1>2, KeptQueue DEF Kept, At, Holding
  <2>2. \A st : st = "FAILED" => Upheld(s)
    BY <2>1, RewrittenUpheld
  <2> QED BY <2>2
<1>3. CASE Settled(k)
  <2> DEFINE st == IF sender[k].ok THEN "DONE" ELSE "FAILED"
  <2>1. sender[k].pc \in Holding /\ RewrittenAs(k, st)
    BY <1>3, SettledQueue DEF Settled, At, Holding
  <2>2. st = "DONE" /\ Current(k).id[1] = s => inForce[s] = Current(k).n
    BY DEF ToldOn
  <2> HIDE DEF st
  <2> QED BY <2>1, <2>2, RewrittenUpheld
<1>4. CASE ListDone(k)
  <2>1. Stays(s)
    BY <1>4, PurgedQueue DEF Stays
  <2> QED BY <2>1, StayingUpheld
<1>5. CASE RemoveDone(k)
  <2>1. PICK id \in sender[k].trash : queue' = queue \ RowsOf(id)
    BY <1>5 DEF RemoveDone
  <2>2. \A z \in queue : id[1] = s /\ z.id = id => z.status = "DONE"
    BY <2>1 DEF FitsAt
  <2> QED BY <2>1, <2>2 DEF Upheld, Unsent, Kin, RowsOf
<1> QED BY <1>1, <1>2, <1>3, <1>4, <1>5, QuietSender, QueueStays, StayingUpheld

LEMMA KnownToSender ==
  ASSUME TypeOK, Listed, NEW k \in Senders, SenderStep(k), NEW s
  PROVE  Known(s)
<1>1. \A j \in Senders : \A y \in sender'[j].todo : Seen(y)
  BY TodoShrinks DEF Seen
<1>2. ASSUME NEW y \in Unsent' PROVE Seen(y)
  <2>1. y \in queue' /\ y.status # "DONE"
    BY DEF Unsent
  <2>2. CASE y \in queue
    BY <2>1, <2>2 DEF Seen, Unsent
  <2>3. CASE Marked(k) \/ Kept(k) \/ Settled(k)
    <3>1. sender[k].pc \in Holding /\ sender[k].pc \in RowPhases
      BY <2>3 DEF Marked, Kept, Settled, At, Holding, RowPhases
    <3>2. PICK st, g : RewrittenAs(k, st) \/ RewrittenWith(k, g)
      BY <2>3, MarkedQueue, KeptQueue, SettledQueue
    <3>3. y \in queue \/ \E c \in sender[k].copy : y.id = c.id
      BY <2>1, <3>2 DEF RewrittenAs, RewrittenWith, Restated, Regranted
    <3>4. \A c \in sender[k].copy : c.id = Current(k).id
      BY <3>1 DEF Listed
    <3>5. Current(k) \in sender[k].todo
      BY <3>1, WorksOnCurrent
    <3> QED BY <2>2, <3>3, <3>4, <3>5 DEF Seen
  <2>4. CASE ListDone(k)
    BY <2>1, <2>2, <2>4, PurgedQueue
  <2>5. CASE RemoveDone(k)
    BY <2>1, <2>2, <2>5 DEF RemoveDone
  <2> QED BY <2>1, <2>2, <2>3, <2>4, <2>5, QuietSender
<1> QED BY <1>1, <1>2 DEF Known

\* What stands for a subject is a tap on it.
LEMMA StandsTraced ==
  ASSUME TypeOK, Traced, NEW s \in Subjects, NEW m, Stands(s, m), m # 0
  PROVE  m \in DOMAIN ops /\ ops[m].s = s
<1>1. CASE s \in Gaps /\ Calling(s)
  <2>1. PICK n \in CallsOn(s) : m = ops[n].prev
    BY <1>1 DEF Stands
  <2>2. n \in DOMAIN ops /\ ops[n].s = s
    BY DEF CallsOn, Outstanding
  <2>3. m \in 1 .. n - 1 /\ ops[m].s = s
    BY <2>1, <2>2 DEF Traced, OpsTraced, OpTraced
  <2> QED BY <2>2, <2>3, OutstandingFinite
<1>2. CASE ~ (s \in Gaps /\ Calling(s))
  BY <1>2 DEF Stands, Traced, ShownTraced
<1> QED BY <1>1, <1>2

\* A tap that is kept stays kept as long as its rows are upheld.
LEMMA KeptStays ==
  ASSUME TypeOK, Traced, NEW s \in Subjects, NEW m \in DOMAIN ops, ops[m].s = s, KeptTap(m),
         Upheld(s), inForce'[s] = inForce[s],
         \A n \in DOMAIN ops : ops'[n].s = ops[n].s /\ ops'[n].d = ops[n].d
  PROVE  KeptTap(m)'
<1>1. m # 0 /\ ops'[m].s = s
  BY OutstandingFinite
<1>2. CASE InForce(m)
  <2>1. PICK f : f = inForce[s]
    OBVIOUS
  <2>2. f # 0 /\ ops[f].d = ops[m].d /\ f \in DOMAIN ops
    BY <1>2, <2>1 DEF InForce, Traced, ForceTraced
  <2>3. inForce'[s] # 0 /\ ops'[inForce'[s]].d = ops'[m].d
    BY <2>1, <2>2
  <2> QED BY <1>1, <2>3 DEF KeptTap, InForce
<1>3. ASSUME NEW x \in Unsent, x.n = m PROVE KeptTap(m)'
  <2>1. x \in queue /\ x.id[1] = s
    BY <1>3 DEF Unsent, Traced, RowsTraced, FromTap
  <2>2. CASE inForce[s] = m
    BY <1>1, <2>2 DEF KeptTap, InForce
  <2>3. CASE inForce[s] # m
    <3>1. \E y \in Unsent' : y.n = m
      BY <1>3, <2>1, <2>3 DEF Upheld, Kin
    <3> QED BY <3>1 DEF KeptTap
  <2> QED BY <2>2, <2>3
<1> QED BY <1>2, <1>3 DEF KeptTap

\* What agrees goes on to agree when no row of another id appears.
LEMMA AgreesStays ==
  ASSUME NEW s, NEW m, AgreesWith(s, m), Known(s), m # 0 => ops'[m].d = ops[m].d
  PROVE  AgreesWith(s, m)'
<1>1. ASSUME NEW y, Seen(y), y.id[1] = s PROVE m # 0 /\ y.id[2] = ops[m].d
  BY <1>1 DEF Seen, AgreesWith, Agrees
<1> QED BY <1>1 DEF Known, AgreesWith, Agrees

\* What stands goes on to stand upright, when nothing new stands.
LEMMA UprightStays ==
  ASSUME TypeOK, Traced, NEW s \in Subjects, Upright(s), Known(s),
         \A m \in DOMAIN ops : ops'[m].s = ops[m].s /\ ops'[m].d = ops[m].d,
         \A m \in 0 .. MaxTaps : Stands(s, m)' => Stands(s, m),
         \A m \in 0 .. MaxTaps : Stands(s, m) /\ m # 0 /\ Early(s)' =>
           \/ KeptTap(m)'
           \/ Early(s) /\ Upheld(s) /\ inForce'[s] = inForce[s]
  PROVE  Upright(s)'
<1> SUFFICES ASSUME NEW m \in 0 .. MaxTaps, Stands(s, m)'
             PROVE  AgreesWith(s, m)' /\ (m # 0 /\ Early(s)' => KeptTap(m)')
  BY DEF Upright
<1>1. Stands(s, m) /\ AgreesWith(s, m) /\ (m # 0 /\ Early(s) => KeptTap(m))
  BY DEF Upright
<1>2. m # 0 => m \in DOMAIN ops /\ ops[m].s = s
  BY <1>1, StandsTraced
<1>3. AgreesWith(s, m)'
  BY <1>1, <1>2, AgreesStays
<1>4. ASSUME m # 0, Early(s)' PROVE KeptTap(m)'
  BY <1>1, <1>2, <1>4, KeptStays
<1> QED BY <1>3, <1>4

\* A request shows its own subject only.
LEMMA CallShows ==
  ASSUME TypeOK, NEW n \in DOMAIN ops, CallStep(n), NEW s \in Subjects, s # ops[n].s
  PROVE  shown'[s] = shown[s]
BY DEF CallStep, Serve, Answer, Refuse, Lose, ListOlder, RemoveOlder, Store, StoreFails, PutRefused, Show,
       RollBack, TypeOK

\* While it is under way it changes no screen, and when it is over it is gone.
LEMMA CallOver ==
  ASSUME TypeOK, NEW n \in DOMAIN ops, CallStep(n)
  PROVE  \/ /\ shown' = shown /\ queue' \subseteq queue /\ n \in Outstanding'
            /\ ops'[n].stage # "sent"
         \/ ops'[n].stage = "over" /\ (Answer(n) \/ Refuse(n) \/ Store(n) \/ StoreFails(n) \/ PutRefused(n))
<1>1. DOMAIN ops' = DOMAIN ops
  BY CallFrame
<1>2. CASE Serve(n)
  BY <1>1, <1>2, StageEffect DEF Serve, Stages, Outstanding
<1>3. CASE Lose(n)
  <2>1. PICK stage \in {"listing", "storing"} : Stage(n, stage)
    BY <1>3 DEF Lose
  <2>2. ops'[n].stage = stage
    BY <2>1, StageEffect DEF Stages
  <2> QED BY <1>1, <1>3, <2>2 DEF Lose, Outstanding
<1>4. CASE ListOlder(n)
  <2>1. ops'[n].stage \in {"storing", "removing"}
    BY <1>4, ListOlderEffect
  <2> QED BY <1>1, <1>4, <2>1 DEF ListOlder, Outstanding
<1>5. CASE RemoveOlder(n)
  <2>1. ops'[n].stage \in {"storing", "removing"}
    BY <1>5, RemoveOlderEffect
  <2> QED BY <1>1, <1>5, <2>1 DEF RemoveOlder, Outstanding
<1>6. CASE Answer(n) \/ Refuse(n) \/ Store(n) \/ StoreFails(n) \/ PutRefused(n)
  BY <1>6, StageEffect DEF Answer, Refuse, Store, StoreFails, PutRefused, Stages
<1> QED BY <1>2, <1>3, <1>4, <1>5, <1>6 DEF CallStep

\* Nothing moves on the screens of a subject whose requests stay where they are.
LEMMA ScreensStay ==
  ASSUME NEW s, shown'[s] = shown[s], CallsOn(s)' = CallsOn(s),
         \A n \in CallsOn(s) : ops'[n].stage = ops[n].stage /\ ops'[n].prev = ops[n].prev
  PROVE  /\ \A m : Stands(s, m)' <=> Stands(s, m)
         /\ Early(s)' <=> Early(s)
         /\ ShowsOn(s)' <=> ShowsOn(s)
BY DEF Stands, Early, ShowsOn, Calling

LEMMA UprightFrame ==
  ASSUME TypeOK, Traced, NEW s \in Subjects, Upright(s), Known(s), Upheld(s),
         shown'[s] = shown[s], CallsOn(s)' = CallsOn(s), inForce'[s] = inForce[s],
         \A n \in DOMAIN ops : ops'[n].s = ops[n].s /\ ops'[n].d = ops[n].d,
         \A n \in CallsOn(s) : ops'[n].stage = ops[n].stage /\ ops'[n].prev = ops[n].prev
  PROVE  Upright(s)'
BY ScreensStay, UprightStays

\* The tap of the rep: what was shown is what a refused verdict brings back.
LEMMA ShowsTap ==
  ASSUME TypeOK, Traced, NEW s \in Subjects, NEW d \in Decisions(s), Tap(s, d), s \notin shared'
  PROVE  ShowsOn(s)' /\ (Upright(s) => Upright(s)')
<1> DEFINE n == Len(ops) + 1
<1>1. /\ CallsOn(s) = {} /\ CallsOn(s)' = {n} /\ n \notin DOMAIN ops
      /\ ops'[n].prev = shown[s] /\ \A m \in DOMAIN ops : ops'[m] = ops[m]
  BY TapJoins, TapEffect DEF Calling
<1>2. UNCHANGED <<queue, sender, inForce>>
  BY DEF Tap, books
<1>3. shown'[s] = IF s \in Gaps THEN n ELSE shown[s]
  <2>1. CASE s \in Gaps
    BY <2>1 DEF Tap, TypeOK
  <2>2. CASE s \notin Gaps
    BY <2>2 DEF Tap
  <2> QED BY <2>1, <2>2
<1>4. s \in Chores => shown[s] = 0
  BY SubjectAssumption DEF Tap, CanTap, Subjects
<1>5. shown[s] # n
  <2>1. shown[s] # 0 => shown[s] \in DOMAIN ops
    BY DEF Traced, ShownTraced
  <2> QED BY <1>1, <2>1, OutstandingFinite
<1>6. ShowsOn(s)'
  BY <1>1, <1>3, <1>4, <1>5, SubjectAssumption DEF ShowsOn
<1>7. \A m : Stands(s, m)' => Stands(s, m)
  <2>1. Calling(s)' /\ ~ Calling(s)
    BY <1>1 DEF Calling
  <2> QED BY <1>1, <1>3, <2>1 DEF Stands
<1>8. Early(s)
  BY <1>1 DEF Early
<1>9. Known(s) /\ Upheld(s)
  BY <1>2, QueueStays, StayingUpheld DEF Known, Seen
<1>10. ASSUME Upright(s) PROVE Upright(s)'
  BY <1>1, <1>2, <1>7, <1>8, <1>9, <1>10, UprightStays
<1> QED BY <1>6, <1>10

\* A request: what it lists, removes and stores is its own affair while it is
\* under way, and its end leaves what it says or what was there.
LEMMA ShowsCall ==
  ASSUME TypeOK, Traced, Roomy, Alone, LastWord, NEW n \in DOMAIN ops, CallStep(n),
         NEW s \in Subjects \ (shared \cup mislaid'), s = ops[n].s,
         ToldOn(s), ShowsOn(s), Upright(s), storage
  PROVE  Upright(s)'
<1>1. /\ n \in CallsOn(s) /\ \A m \in CallsOn(s) : m = n
      /\ CallsOn(s)' \subseteq {n} /\ sender' = sender /\ Calling(s)
      /\ \A k \in Senders : ~ Working(k, s)
  <2>1. n \in CallsOn(s) /\ CallsOn(s)' \subseteq CallsOn(s) /\ Calling(s)
    BY CallsLess DEF Calling
  <2>2. sender' = sender
    BY CallFrame
  <2> QED BY <2>1, <2>2 DEF Alone
<1>2. /\ DOMAIN ops' = DOMAIN ops /\ ops'[n].prev = ops[n].prev /\ n # 0
      /\ \A m \in DOMAIN ops : ops'[m].s = ops[m].s /\ ops'[m].d = ops[m].d
      /\ n \in 0 .. MaxTaps
  <2>1. n \in 1 .. Len(ops) /\ Len(ops) \in Nat /\ Len(ops) <= MaxTaps /\ MaxTaps \in Nat
    BY OutstandingFinite, Bounds DEF TypeOK
  <2>2. n # 0 /\ n \in 0 .. MaxTaps
    BY <2>1
  <2> QED BY <2>2, CallFrame
<1>3. ASSUME queue' \subseteq queue PROVE Known(s)
  BY <1>1, <1>3 DEF Known, Seen, Unsent
<1>4. ASSUME queue' = queue PROVE Known(s) /\ Upheld(s)
  BY <1>3, <1>4, QueueStays, StayingUpheld
<1>5. ASSUME AgreesWith(s, n)', KeptTap(n)', CallsOn(s)' = {}, shown'[s] = n
      PROVE  Upright(s)'
  BY <1>5 DEF Upright, Stands, Calling
<1>6. \A k \in Senders : \A x \in sender'[k].todo : x.id[1] # s
  BY <1>1 DEF Working
<1>7. shown \in [Subjects -> 0 .. MaxTaps] /\ inForce \in [Subjects -> 0 .. MaxTaps]
  BY DEF TypeOK
<1>8. CASE /\ shown' = shown /\ queue' \subseteq queue /\ n \in Outstanding'
           /\ ops'[n].stage # "sent"
  <2>1. CallsOn(s)' = {n}
    BY <1>1, <1>2, <1>8 DEF CallsOn
  <2>2. \A m : Stands(s, m)' <=> Stands(s, m)
    BY <1>1, <1>2, <1>8, <2>1 DEF Stands, Calling
  <2>3. s \in Gaps => ~ Early(s)'
    BY <1>8, <2>1 DEF Early
  <2>4. ASSUME NEW m \in 0 .. MaxTaps, Stands(s, m), m # 0, Early(s)'
        PROVE  \/ KeptTap(m)'
               \/ Early(s) /\ Upheld(s) /\ inForce'[s] = inForce[s]
    <3>1. s \notin Gaps /\ m = shown[s]
      BY <2>3, <2>4 DEF Stands
    <3>2. s \notin Chores
      BY <1>1, <2>4, <3>1 DEF ShowsOn
    <3>3. CASE Serve(n)
      <4>1. inForce'[s] = n
        BY <3>3, ServesForce
      <4>2. m \in DOMAIN ops /\ ops[m].s = s
        BY <2>4, StandsTraced
      <4>3. ops[m].d = "SEND" /\ ops[n].d = "SEND"
        <5>1. Decisions(s) = {"SEND"}
          BY <3>1, <3>2 DEF Decisions
        <5>2. ops[m].d \in Decisions(s) /\ ops[n].d \in Decisions(s)
          BY <4>2 DEF Traced, OpsTraced, OpTraced
        <5> QED BY <5>1, <5>2
      <4>4. InForce(m)'
        BY <1>2, <4>1, <4>2, <4>3 DEF InForce
      <4> QED BY <4>4 DEF KeptTap
    <3>4. CASE ~ Serve(n)
      <4>1. inForce' = inForce
        BY <3>4, CallFrame
      <4>2. queue' = queue
        <5>1. ~ RemoveOlder(n)
          BY <3>1, <3>2 DEF RemoveOlder, Traced, OpsTraced, OpTraced
        <5>2. ~ Store(n)
          <6>1. ops'[n].stage # "over"
            BY <1>8 DEF Outstanding
          <6> QED BY <6>1, StageEffect DEF Store, Stages
        <5> QED BY <5>1, <5>2
              DEF CallStep, Serve, Answer, Refuse, Lose, ListOlder, StoreFails, PutRefused
      <4> QED BY <1>4, <3>1, <4>1, <4>2 DEF Early
    <3> QED BY <3>3, <3>4
  <2> QED BY <1>2, <1>3, <1>8, <2>2, <2>4, UprightStays
<1>9. CASE /\ ops'[n].stage = "over"
           /\ Answer(n) \/ Refuse(n) \/ Store(n) \/ StoreFails(n) \/ PutRefused(n)
  <2>1. CallsOn(s)' = {}
    BY <1>1, <1>9 DEF CallsOn, Outstanding
  <2>2. CASE Answer(n)
    <3>1. queue' = queue /\ inForce' = inForce /\ ops[n].stage = "served"
      BY <2>2 DEF Answer, books
    <3>2. shown'[s] = n
      BY <1>1, <1>7, <2>2 DEF Answer, ShowsOn
    <3>3. inForce'[s] = n
      BY <1>1, <3>1 DEF ToldOn
    <3>4. KeptTap(n)'
      BY <1>2, <3>3 DEF KeptTap, InForce
    <3>5. \A x \in Unsent : x.id[1] = s => x.id[2] = ops[n].d
      BY <2>2 DEF Answer
    <3>6. AgreesWith(s, n)'
      BY <1>2, <1>6, <3>1, <3>5 DEF AgreesWith, Agrees, Unsent
    <3> QED BY <1>5, <2>1, <3>2, <3>4, <3>6
  <2>3. CASE Refuse(n) \/ PutRefused(n)
    <3>1. queue' = queue /\ inForce' = inForce /\ RollBack(n)
      BY <2>3 DEF Refuse, PutRefused, books
    <3>2. PutRefused(n) => s \notin Gaps
      BY DEF PutRefused
    <3>3. shown'[s] = IF s \in Gaps THEN ops[n].prev ELSE shown[s]
      BY <1>7, <3>1 DEF RollBack
    <3>4. \A m : Stands(s, m)' => Stands(s, m)
      BY <1>1, <2>1, <3>3 DEF Stands, Calling
    <3>5. Early(s)
      BY <1>1, <2>3, <3>2 DEF Early, Refuse
    <3> QED BY <1>2, <1>4, <3>1, <3>4, <3>5, UprightStays
  <2>4. CASE Store(n)
    <3>1. shown'[s] = n
      BY <1>7, <2>4 DEF Store, Show
    <3>2. PICK r \in Row : /\ r.id = <<s, ops[n].d>> /\ r.n = n /\ r.status = "PENDING"
                           /\ queue' = (queue \ RowsOf(r.id)) \cup {r}
      BY <2>4, StoreEffect
    <3>3. KeptTap(n)'
      BY <3>2 DEF KeptTap, Unsent
    <3>4. ASSUME NEW x \in Unsent', x.id[1] = s PROVE x.id[2] = ops[n].d
      <4>1. CASE x = r
        BY <3>2, <4>1
      <4>2. CASE x # r
        <5>1. x \in queue /\ x \in Unsent
          BY <3>2, <4>2 DEF Unsent
        <5>2. s \notin Gaps \cup Chores
          BY <1>1, <2>4, <3>4, <5>1 DEF LastWord, LastWordOn, Store
        <5>3. x.id = r.id
          BY <3>2, <3>4, <5>1, <5>2, OneId, RowSubject DEF Row, Subjects
        <5> QED BY <3>2, <5>3
      <4> QED BY <4>1, <4>2
    <3>5. AgreesWith(s, n)'
      BY <1>2, <1>6, <3>4 DEF AgreesWith, Agrees
    <3> QED BY <1>5, <2>1, <3>1, <3>3, <3>5
  <2>5. CASE StoreFails(n)
    BY <2>5 DEF StoreFails
  <2> QED BY <1>9, <2>2, <2>3, <2>4, <2>5
<1> QED BY <1>8, <1>9, CallOver

\* What the screen of a subject shows while a request about it is under way.
LEMMA ShowsOnCall ==
  ASSUME TypeOK, NEW n \in DOMAIN ops, CallStep(n), NEW s, s = ops[n].s,
         \A m \in CallsOn(s) : m = n, ShowsOn(s)
  PROVE  ShowsOn(s)'
<1>1. n \in CallsOn(s) /\ CallsOn(s)' \subseteq {n}
  BY CallsLess
<1>2. CASE shown' = shown
  BY <1>1, <1>2 DEF ShowsOn
<1>3. CASE ops'[n].stage = "over"
  BY <1>1, <1>3 DEF ShowsOn, CallsOn, Outstanding
<1> QED BY <1>2, <1>3, CallOver

LEMMA ShowsNext ==
  ASSUME TypeOK, Traced, Roomy, Listed, Alone, Fits, LastWord, Told, Shows, [Next]_vars
  PROVE  Shows'
<1> SUFFICES ASSUME NEW s \in Subjects \ (shared' \cup mislaid')
             PROVE  ShowsOn(s)' /\ (storage' => Upright(s)')
  BY DEF Shows
<1>1. /\ s \in Subjects \ (shared \cup mislaid) /\ ShowsOn(s) /\ (storage => Upright(s))
      /\ (storage' => storage) /\ ToldOn(s)
      /\ \A m \in DOMAIN ops : ops'[m].s = ops[m].s /\ ops'[m].d = ops[m].d
  BY Grows DEF Shows, Told
<1>2. ASSUME UNCHANGED <<ops, shown>>, Known(s), Upheld(s), inForce'[s] = inForce[s]
      PROVE  ShowsOn(s)' /\ (storage' => Upright(s)')
  <2>1. /\ CallsOn(s)' = CallsOn(s) /\ shown'[s] = shown[s]
        /\ \A n \in CallsOn(s) : ops'[n].stage = ops[n].stage /\ ops'[n].prev = ops[n].prev
    BY <1>2 DEF CallsOn, Outstanding
  <2>2. ShowsOn(s)'
    BY <1>1, <2>1, ScreensStay
  <2>3. storage' => Upright(s)'
    BY <1>1, <1>2, <2>1, UprightFrame
  <2> QED BY <2>2, <2>3
<1>3. ASSUME queue' = queue, \A j \in Senders : \A y \in sender'[j].todo : Seen(y)
      PROVE  Known(s) /\ Upheld(s)
  BY <1>3, QueueStays, StayingUpheld DEF Known
<1>4. CASE UNCHANGED vars
  BY <1>2, <1>3, <1>4 DEF vars, phone, books, Seen
<1>5. ASSUME NEW q \in Subjects, NEW d \in Decisions(q), Tap(q, d)
      PROVE  ShowsOn(s)' /\ (storage' => Upright(s)')
  <2>1. CASE q = s
    <3>1. ShowsOn(s)' /\ (Upright(s) => Upright(s)')
      BY <1>5, <2>1, ShowsTap
    <3> QED BY <1>1, <3>1
  <2>2. CASE q # s
    <3>1. /\ shown'[s] = shown[s] /\ UNCHANGED <<queue, sender, storage>> /\ inForce'[s] = inForce[s]
      BY <1>5, <2>2 DEF Tap, TypeOK, books
    <3>2. CallsOn(s)' = CallsOn(s)
      BY <1>1, <1>5, <2>2, TapJoins
    <3>3. \A m \in CallsOn(s) : ops'[m] = ops[m]
      BY <1>5, TapEffect DEF CallsOn, Outstanding
    <3>4. Known(s) /\ Upheld(s)
      BY <1>3, <3>1 DEF Seen
    <3>5. ShowsOn(s)'
      BY <1>1, <3>1, <3>2, <3>3, ScreensStay
    <3>6. storage' => Upright(s)'
      BY <1>1, <3>1, <3>2, <3>3, <3>4, UprightFrame
    <3> QED BY <3>5, <3>6
  <2> QED BY <2>1, <2>2
<1>6. ASSUME NEW n \in DOMAIN ops, CallStep(n) PROVE ShowsOn(s)' /\ (storage' => Upright(s)')
  <2>1. CASE s = ops[n].s
    <3>1. \A m \in CallsOn(s) : m = n
      BY <1>1, <1>6, <2>1, CallsLess DEF Alone
    <3>2. ShowsOn(s)'
      BY <1>1, <1>6, <2>1, <3>1, ShowsOnCall
    <3>3. storage' => Upright(s)'
      BY <1>1, <1>6, <2>1, ShowsCall
    <3> QED BY <3>2, <3>3
  <2>2. CASE s # ops[n].s
    <3>1. Stays(s) /\ shown'[s] = shown[s] /\ sender' = sender
      BY <1>1, <1>6, <2>2, CallRows, CallShows, CallFrame
    <3>2. Known(s) /\ Upheld(s)
      BY <3>1, StayingUpheld DEF Known, Seen
    <3>3. inForce'[s] = inForce[s]
      BY <1>1, <1>6, <2>2, CallFrame, ServesForce
    <3>4. /\ CallsOn(s)' = CallsOn(s)
          /\ \A m \in CallsOn(s) : ops'[m].stage = ops[m].stage /\ ops'[m].prev = ops[m].prev
      BY <1>6, <2>2, CallFrame DEF CallsOn, Outstanding
    <3>5. ShowsOn(s)'
      BY <1>1, <3>1, <3>4, ScreensStay
    <3>6. storage' => Upright(s)'
      BY <1>1, <3>1, <3>2, <3>3, <3>4, UprightFrame
    <3> QED BY <3>5, <3>6
  <2> QED BY <2>1, <2>2
<1>7. ASSUME NEW k \in Senders, SenderStep(k) PROVE ShowsOn(s)' /\ (storage' => Upright(s)')
  <2>1. UNCHANGED <<ops, shown, storage>>
    BY <1>7, SenderFrame
  <2>2. Known(s) /\ Upheld(s)
    BY <1>1, <1>7, KnownToSender, UpheldBySender DEF Fits
  <2>3. CASE inForce'[s] = inForce[s]
    BY <1>2, <2>1, <2>2, <2>3
  <2>4. CASE inForce'[s] # inForce[s]
    <3>1. PICK c : c = Current(k)
      OBVIOUS
    <3>2. sender[k].pc = "send" /\ Apply(c.n)
      BY <1>7, <2>4, <3>1, AppliedBy
    <3>3. /\ c.n \in DOMAIN ops /\ c.n # 0 /\ c.id = <<ops[c.n].s, ops[c.n].d>>
          /\ c.id[1] = s /\ inForce'[s] = c.n /\ c \in sender[k].todo
      BY <1>1, <2>4, <3>1, <3>2, TellsOfCurrent, WorksOnCurrent DEF RowPhases
    <3>4. /\ CallsOn(s)' = CallsOn(s) /\ shown'[s] = shown[s]
          /\ \A n \in CallsOn(s) : ops'[n].stage = ops[n].stage /\ ops'[n].prev = ops[n].prev
      BY <2>1 DEF CallsOn, Outstanding
    <3>5. ShowsOn(s)'
      BY <1>1, <3>4, ScreensStay
    <3>6. ASSUME Upright(s), NEW m \in 0 .. MaxTaps, Stands(s, m), m # 0 PROVE KeptTap(m)'
      <4>1. c.id[2] = ops[m].d
        BY <3>3, <3>6 DEF Upright, AgreesWith, Agrees
      <4>2. m \in DOMAIN ops /\ ops[m].s = s
        BY <1>1, <3>6, StandsTraced
      <4>3. InForce(m)'
        BY <2>1, <3>3, <4>1, <4>2 DEF InForce
      <4> QED BY <4>3 DEF KeptTap
    <3>7. storage' => Upright(s)'
      BY <1>1, <2>2, <3>4, <3>6, ScreensStay, UprightStays
    <3> QED BY <3>5, <3>7
  <2> QED BY <2>3, <2>4
<1>8. CASE Starts
  <2>1. UNCHANGED <<ops, shown, queue, inForce>>
    BY <1>8, StartsFrame
  <2>2. \A j \in Senders : \A y \in sender'[j].todo : Seen(y)
    <3>1. ASSUME NEW k \in Senders, NEW rows \in SUBSET Unsent, Start(k, rows)
          PROVE  \A j \in Senders : \A y \in sender'[j].todo : Seen(y)
      <4>1. rows \in SUBSET queue
        BY DEF Unsent
      <4>2. Others(k) /\ sender'[k].todo = rows
        BY <3>1, <4>1, StartEffect
      <4> QED BY <4>2 DEF Others, Seen
    <3> QED BY <1>8, <3>1, StartsFrame DEF Seen
  <2> QED BY <1>2, <1>3, <2>1, <2>2
<1>9. CASE Around
  <2>1. UNCHANGED <<ops, shown, queue, inForce>>
    BY <1>9, AroundFrame
  <2>2. \A j \in Senders : \A y \in sender'[j].todo : Seen(y)
    BY <1>9, AroundFrame DEF Others, Seen
  <2> QED BY <1>2, <1>3, <2>1, <2>2
<1> QED BY <1>4, <1>5, <1>6, <1>7, <1>8, <1>9, StepsAre

\* What stands is what is shown, unless a verdict is under way.
LEMMA UprightShows ==
  ASSUME TypeOK, Traced, Shows, storage, NEW s \in Subjects \ (shared \cup mislaid)
  PROVE  ShownIsKeptOf(s)
<1> SUFFICES ASSUME shown[s] # 0, shown[s] \notin Outstanding PROVE KeptTap(shown[s])
  BY DEF ShownIsKeptOf, KeptTap
<1>1. ShowsOn(s) /\ Upright(s) /\ shown[s] \in 0 .. MaxTaps
  BY DEF Shows, TypeOK
<1>2. ~ (s \in Gaps /\ Calling(s))
  BY <1>1 DEF ShowsOn, Calling, CallsOn
<1>3. Stands(s, shown[s]) /\ Early(s)
  BY <1>2 DEF Stands, Early, Calling
<1> QED BY <1>1, <1>3 DEF Upright

----------------------------------------------------------------------------
(* One capture row for a photograph.                                        *)

LEMMA PhotoIs ==
  ASSUME NEW p \in Photos
  PROVE  p \in Subjects /\ p \notin Gaps /\ p \notin Chores /\ p \notin Closings
BY SubjectAssumption DEF Subjects

\* A sender presigns what it works on.
LEMMA MintedBy ==
  ASSUME TypeOK, Listed, NEW k \in Senders, SenderStep(k), NEW p \in Photos
  PROVE  \/ minted'[p] = minted[p] /\ lostGrants'[p] = lostGrants[p]
         \/ Presign(k) /\ Current(k).id[1] = p
         \/ /\ PresignLost(k) \/ (Stalls(k) /\ sender[k].pc = "presign")
            /\ Current(k).id[1] = p
<1>1. CASE Presign(k)
  BY <1>1 DEF Presign, TypeOK, notes
<1>2. CASE PresignLost(k)
  BY <1>2 DEF PresignLost, TypeOK
<1>3. CASE Stalls(k)
  BY <1>3 DEF Stalls, At, TypeOK, books
<1>4. CASE ~ Presign(k) /\ ~ PresignLost(k) /\ ~ Stalls(k)
  BY <1>4 DEF SenderStep, MarkRow, KeepGrant, SettleRow, Read, Marked, Kept, Send, SendFails,
     Settled, Acknowledge, ListDone, RemoveDone, SenderDies, books, notes
<1> QED BY <1>1, <1>2, <1>3, <1>4

----------------------------------------------------------------------------
(* The grant of a photograph stays in its row.                              *)

\* A step that presigns nothing, and forgets no grant.
LEMMA GrantStays ==
  ASSUME NEW p, GrantKept(p), minted'[p] = minted[p], lostGrants'[p] = lostGrants[p],
         storage' => storage,
         \A y \in queue' : y.id[1] = p => \E x \in queue : x.id[1] = p /\ x.grant = y.grant,
         \A k \in Senders : /\ Asks(k, p)' => ~ Granted(p)
                            /\ Keeps(k, p)' => sender'[k].grant # 0
                            /\ Keeps(k, p) => Keeps(k, p)'
  PROVE  GrantKept(p)'
<1>1. Granted(p)' <=> Granted(p)
  BY DEF Granted
<1> QED BY <1>1 DEF GrantKept

LEMMA OthersAskNothingNew ==
  ASSUME NEW p, GrantKept(p), NEW j \in Senders, sender'[j] = sender[j]
  PROVE  /\ Asks(j, p)' <=> Asks(j, p)
         /\ Keeps(j, p)' <=> Keeps(j, p)
         /\ Asks(j, p) => ~ Granted(p)
         /\ Keeps(j, p)' => sender'[j].grant # 0
BY DEF GrantKept, Asks, Keeps, Current

\* A sender that writes a status back leaves the grants of a photograph alone.
LEMMA RestatedGrants ==
  ASSUME TypeOK, Listed, NEW k \in Senders, NEW p, FitsAt(k, p), sender[k].pc \in Holding,
         NEW st, RewrittenAs(k, st)
  PROVE  \A y \in queue' : y.id[1] = p => \E x \in queue : x.id[1] = p /\ x.grant = y.grant
<1> SUFFICES ASSUME NEW y \in queue', y.id[1] = p
             PROVE  \E x \in queue : x.id[1] = p /\ x.grant = y.grant
  OBVIOUS
<1>1. CASE y \in queue
  BY <1>1
<1>2. ASSUME NEW c \in sender[k].copy, Restated(y, c, st)
      PROVE  \E x \in queue : x.id[1] = p /\ x.grant = y.grant
  <2>1. Current(k).id[1] = p
    BY <1>2 DEF Listed, Restated
  <2>2. PICK d \in sender[k].copy, z \in queue : z.id = Current(k).id /\ Same(z, d)
    BY <2>1 DEF FitsAt
  <2>3. d = c
    BY DEF Listed
  <2> QED BY <1>2, <2>2, <2>3 DEF Same, Restated
<1> QED BY <1>1, <1>2 DEF RewrittenAs

\* A sender that does not look after the photograph it works on before or after
\* its step, nor asks for a grant.
Looks(k, p) == Asks(k, p) \/ Keeps(k, p)
LEMMA GrantStaysBy ==
  ASSUME NEW k \in Senders, NEW p, GrantKept(p), Others(k),
         minted'[p] = minted[p], lostGrants'[p] = lostGrants[p], storage' = storage,
         \A y \in queue' : y.id[1] = p => \E x \in queue : x.id[1] = p /\ x.grant = y.grant,
         Asks(k, p)' => ~ Granted(p),
         Keeps(k, p)' => sender'[k].grant # 0,
         Keeps(k, p) => Keeps(k, p)'
  PROVE  GrantKept(p)'
<1>1. \A j \in Senders : /\ Asks(j, p)' => ~ Granted(p)
                         /\ Keeps(j, p)' => sender'[j].grant # 0
                         /\ Keeps(j, p) => Keeps(j, p)'
  BY OthersAskNothingNew DEF Others
<1> QED BY <1>1, GrantStays

\* The sender of a photograph is the only one.
LEMMA SoleSender ==
  ASSUME TypeOK, Listed, Alone, NEW k \in Senders, NEW p \in Photos \ shared, Working(k, p)
  PROVE  \A j \in Senders : Asks(j, p) \/ Keeps(j, p) => j = k
<1> SUFFICES ASSUME NEW j \in Senders, Asks(j, p) \/ Keeps(j, p) PROVE j = k
  OBVIOUS
<1>1. sender[j].pc \in RowPhases /\ Current(j).id[1] = p
  BY DEF Asks, Keeps, RowPhases
<1>2. Working(j, p)
  BY <1>1, WorksOnCurrent
<1> QED BY <1>2, PhotoIs DEF Alone

\* A photograph that has its grant is not granted another.
LEMMA MarkedGrant ==
  ASSUME TypeOK, Listed, Alone, NEW k \in Senders, NEW p \in Photos \ shared, FitsAt(k, p),
         GrantKept(p), storage, sender[k].pc = "marking", Current(k).id[1] = p,
         Current(k).grant = 0
  PROVE  ~ Granted(p)
<1> SUFFICES ASSUME Granted(p) PROVE FALSE
  OBVIOUS
<1>1. Current(k) \in sender[k].todo /\ Working(k, p)
  BY WorksOnCurrent DEF RowPhases
<1>2. \A j \in Senders : ~ Keeps(j, p)
  BY <1>1, SoleSender DEF Keeps
<1>3. PICK z \in queue : z.id = Current(k).id /\ z.grant = Current(k).grant
  BY <1>1 DEF FitsAt, Untried
<1> QED BY <1>2, <1>3 DEF GrantKept

LEMMA GrantPresigned ==
  ASSUME TypeOK, Listed, Alone, NEW k \in Senders, NEW p \in Photos \ shared, GrantKept(p),
         Presign(k), Current(k).id[1] = p
  PROVE  GrantKept(p)'
<1>1. /\ sender[k].pc = "presign" /\ sender'[k].pc = "keep" /\ sender'[k].todo = sender[k].todo
      /\ sender'[k].grant = minted[p] + 1 /\ Others(k)
      /\ minted' = [minted EXCEPT ![p] = minted[p] + 1] /\ lostGrants' = lostGrants
  BY PresignEffect DEF Presign, At, notes
<1>2. minted[p] \in Nat /\ lostGrants[p] \in Nat /\ minted'[p] = minted[p] + 1
      /\ lostGrants'[p] = lostGrants[p]
  BY <1>1 DEF TypeOK
<1>3. minted[p] = lostGrants[p]
  BY <1>1 DEF GrantKept, Asks
<1>4. Keeps(k, p)' /\ ~ Asks(k, p)' /\ sender'[k].grant # 0
  BY <1>1, <1>2 DEF Keeps, Asks, Current
<1>5. \A j \in Senders : j # k => ~ Asks(j, p)' /\ ~ Keeps(j, p)'
  <2>1. Working(k, p)
    BY <1>1, WorksOnCurrent DEF RowPhases
  <2> QED BY <1>1, <2>1, SoleSender, OthersAskNothingNew DEF Others
<1> QED BY <1>2, <1>3, <1>4, <1>5 DEF GrantKept, Granted

LEMMA GrantLost ==
  ASSUME TypeOK, Listed, Alone, NEW k \in Senders, NEW p \in Photos \ shared, GrantKept(p),
         PresignLost(k) \/ (Stalls(k) /\ sender[k].pc = "presign"), Current(k).id[1] = p
  PROVE  GrantKept(p)'
<1>1. sender[k].pc = "presign" /\ sender'[k].pc \in {"settle", "stalled"} /\ Others(k)
  BY GoEffect DEF PresignLost, Stalls, At, Phases, RowPhases
<1>2. /\ minted[p] \in Nat /\ lostGrants[p] \in Nat
      /\ minted'[p] = minted[p] + 1 /\ lostGrants'[p] = lostGrants[p] + 1
  BY DEF PresignLost, Stalls, At, TypeOK
<1>3. minted[p] = lostGrants[p]
  BY <1>1 DEF GrantKept, Asks
<1>4. \A j \in Senders : ~ Asks(j, p)' /\ ~ Keeps(j, p)'
  <2>1. Working(k, p)
    BY <1>1, WorksOnCurrent DEF RowPhases
  <2>2. ~ Asks(k, p)' /\ ~ Keeps(k, p)'
    BY <1>1 DEF Asks, Keeps
  <2> QED BY <1>1, <2>1, <2>2, SoleSender, OthersAskNothingNew DEF Others
<1> QED BY <1>2, <1>3, <1>4 DEF GrantKept, Granted

\* The grant goes from the sender into the row.
LEMMA GrantWritten ==
  ASSUME TypeOK, Listed, NEW k \in Senders, NEW p \in Photos, GrantKept(p), FitsAt(k, p),
         Kept(k)
  PROVE  GrantKept(p)'
<1>1. /\ sender[k].pc = "keeping" /\ sender'[k].pc = "send" /\ Others(k)
      /\ UNCHANGED <<minted, lostGrants, storage>>
  BY GoEffect DEF Kept, At, Phases, RowPhases, books, notes
<1>2. RewrittenWith(k, sender[k].grant)
  BY KeptQueue
<1>3. ~ Asks(k, p)' /\ ~ Keeps(k, p)'
  BY <1>1 DEF Asks, Keeps
<1>4. CASE Current(k).id[1] # p
  <2>1. \A c \in sender[k].copy : c.id[1] # p
    BY <1>1, <1>4 DEF Listed, Holding
  <2>2. \A y \in queue' : y.id[1] = p => y \in queue
    BY <1>2, <2>1 DEF RewrittenWith, Regranted
  <2>3. ~ Keeps(k, p)
    BY <1>4 DEF Keeps
  <2> QED BY <1>1, <1>3, <2>2, <2>3, GrantStaysBy
<1>5. CASE Current(k).id[1] = p
  <2>1. PICK g : g = sender[k].grant
    OBVIOUS
  <2>2. g # 0
    BY <1>1, <1>5, <2>1 DEF GrantKept, Keeps
  <2>3. PICK c \in sender[k].copy, z \in queue : z.id = Current(k).id /\ Same(z, c)
    BY <1>1, <1>5 DEF FitsAt, Holding
  <2>4. ASSUME NEW y \in queue', y.id[1] = p PROVE y.grant # 0
    <3>1. CASE y \in queue /\ Unwritten(k, y)
      <4>1. y.id \in Ids /\ z.id \in Ids /\ z.id[1] = p
        BY <1>5, <2>3, <3>1, RowSubject
      <4>2. y.id = z.id
        BY <2>4, <4>1, OneId
      <4> QED BY <2>3, <3>1, <4>2 DEF Unwritten, Same
    <3>2. CASE ~ (y \in queue /\ Unwritten(k, y))
      BY <1>2, <2>1, <2>2, <3>2 DEF RewrittenWith, Regranted
    <3> QED BY <3>1, <3>2
  <2>5. \A j \in Senders : Asks(j, p)' => ~ Granted(p)
    BY <1>1, <1>3, OthersAskNothingNew DEF Others
  <2>6. \A j \in Senders : Keeps(j, p)' => sender'[j].grant # 0
    BY <1>1, <1>3, OthersAskNothingNew DEF Others
  <2>7. Granted(p)' <=> Granted(p)
    BY <1>1 DEF Granted
  <2> QED BY <1>1, <2>4, <2>5, <2>6, <2>7 DEF GrantKept
<1> QED BY <1>4, <1>5

LEMMA GrantSender ==
  ASSUME TypeOK, Listed, Alone, NEW k \in Senders, SenderStep(k), NEW p \in Photos \ shared,
         GrantKept(p), FitsAt(k, p)
  PROVE  GrantKept(p)'
<1>1. CASE MarkRow(k) \/ KeepGrant(k) \/ SettleRow(k)
  <2>1. PICK to \in Holding : /\ Read(k, sender[k].pc, to)
                              /\ sender[k].pc = "keep" <=> to = "keeping"
                              /\ sender[k].pc \in {"mark", "keep", "settle"}
    BY <1>1 DEF MarkRow, KeepGrant, SettleRow, Read, At, Holding
  <2>2. to \in Phases
    BY DEF Holding, Phases, RowPhases
  <2>3. /\ sender'[k].pc = to /\ sender'[k].todo = sender[k].todo
        /\ sender'[k].grant = sender[k].grant /\ Others(k)
    BY <2>1, <2>2, ReadEffect
  <2>4. UNCHANGED <<queue, minted, lostGrants, storage>>
    BY <2>1 DEF Read, books, notes
  <2>5. ~ Asks(k, p)'
    BY <2>3 DEF Asks, Holding
  <2>6. Keeps(k, p)' <=> Keeps(k, p)
    BY <2>1, <2>3 DEF Keeps, Current, Holding
  <2>7. Keeps(k, p)' => sender'[k].grant # 0
    BY <2>3, <2>6 DEF GrantKept
  <2>8. \A y \in queue' : y.id[1] = p => \E x \in queue : x.id[1] = p /\ x.grant = y.grant
    BY <2>4
  <2> QED BY <2>3, <2>4, <2>5, <2>6, <2>7, <2>8, GrantStaysBy
<1>2. CASE Marked(k)
  <2>1. /\ sender[k].pc = "marking" /\ storage /\ UNCHANGED <<minted, lostGrants, storage>>
        /\ Others(k) /\ sender'[k].todo = sender[k].todo
        /\ sender'[k].grant = Current(k).grant
        /\ sender'[k].pc = "presign" => Current(k).grant = 0
        /\ sender'[k].pc = "keep" => Current(k).grant # 0
        /\ sender'[k].pc # "keeping"
    BY <1>2, MarkedEffect DEF Marked, At, books, notes
  <2>2. Asks(k, p)' => ~ Granted(p)
    BY <2>1, MarkedGrant DEF Asks, Current
  <2>3. Keeps(k, p)' => sender'[k].grant # 0
    BY <2>1 DEF Keeps
  <2>4. ~ Keeps(k, p)
    BY <2>1 DEF Keeps
  <2>5. \A y \in queue' : y.id[1] = p => \E x \in queue : x.id[1] = p /\ x.grant = y.grant
    BY <1>2, <2>1, MarkedQueue, RestatedGrants DEF Holding
  <2> QED BY <2>1, <2>2, <2>3, <2>4, <2>5, GrantStaysBy
<1>3. CASE Presign(k)
  <2>1. CASE Current(k).id[1] = p
    BY <1>3, <2>1, GrantPresigned
  <2>2. CASE Current(k).id[1] # p
    <3>1. /\ sender'[k].pc = "keep" /\ sender'[k].todo = sender[k].todo /\ Others(k)
          /\ UNCHANGED <<queue, storage>>
      BY <1>3, PresignEffect DEF Presign
    <3>2. minted'[p] = minted[p] /\ lostGrants'[p] = lostGrants[p]
      BY <2>2, MintedBy
    <3>3. ~ Asks(k, p)' /\ ~ Keeps(k, p)' /\ ~ Keeps(k, p)
      BY <2>2, <3>1 DEF Asks, Keeps, Current
    <3>4. \A y \in queue' : y.id[1] = p => \E x \in queue : x.id[1] = p /\ x.grant = y.grant
      BY <3>1
    <3> QED BY <3>1, <3>2, <3>3, <3>4, GrantStaysBy
  <2> QED BY <2>1, <2>2
<1>4. CASE PresignLost(k) \/ (Stalls(k) /\ sender[k].pc = "presign")
  <2>1. CASE Current(k).id[1] = p
    BY <1>4, <2>1, GrantLost
  <2>2. CASE Current(k).id[1] # p
    <3>1. /\ sender'[k].pc \in {"settle", "stalled"} /\ Others(k) /\ UNCHANGED <<queue, storage>>
          /\ sender[k].pc = "presign"
      BY <1>4, GoEffect DEF PresignLost, Stalls, At, Phases, RowPhases
    <3>2. minted'[p] = minted[p] /\ lostGrants'[p] = lostGrants[p]
      BY <2>2, MintedBy
    <3>3. ~ Asks(k, p)' /\ ~ Keeps(k, p)' /\ ~ Keeps(k, p)
      BY <3>1 DEF Asks, Keeps
    <3>4. \A y \in queue' : y.id[1] = p => \E x \in queue : x.id[1] = p /\ x.grant = y.grant
      BY <3>1
    <3> QED BY <3>1, <3>2, <3>3, <3>4, GrantStaysBy
  <2> QED BY <2>1, <2>2
<1>5. CASE Kept(k)
  BY <1>5, GrantWritten
<1>6. CASE Send(k) \/ SendFails(k) \/ Acknowledge(k) \/ (Stalls(k) /\ sender[k].pc # "presign")
  <2>1. /\ sender'[k].pc \in {"settle", "purge", "stalled", "unanswered"} /\ Others(k)
        /\ sender[k].pc \in {"send", "presign", "ack"}
    <3>1. CASE Send(k)
      BY <3>1, SendEffect DEF Send, At
    <3>2. CASE SendFails(k)
      BY <3>2, GoEffect DEF SendFails, At, Phases, RowPhases
    <3>3. CASE Acknowledge(k)
      BY <3>3, GoEffect DEF Acknowledge, At, Phases
    <3>4. CASE Stalls(k) /\ sender[k].pc # "presign"
      BY <3>4, GoEffect DEF Stalls, At, Phases, RowPhases
    <3> QED BY <1>6, <3>1, <3>2, <3>3, <3>4
  <2>2. UNCHANGED <<queue, minted, lostGrants, storage>>
    BY <1>6 DEF Send, SendFails, Acknowledge, Stalls, At, books, notes
  <2>3. ~ Asks(k, p)' /\ ~ Keeps(k, p)' /\ ~ Keeps(k, p)
    BY <2>1 DEF Asks, Keeps
  <2>4. \A y \in queue' : y.id[1] = p => \E x \in queue : x.id[1] = p /\ x.grant = y.grant
    BY <2>2
  <2> QED BY <2>1, <2>2, <2>3, <2>4, GrantStaysBy
<1>7. CASE Settled(k)
  <2>1. /\ sender[k].pc = "settling" /\ UNCHANGED <<minted, lostGrants, storage>>
        /\ Others(k) /\ sender'[k].pc \in {"mark", "idle", "ack"}
    BY <1>7, SettledEffect DEF Settled, At, books, notes
  <2>2. PICK st : RewrittenAs(k, st)
    BY <1>7, SettledQueue
  <2>3. ~ Asks(k, p)' /\ ~ Keeps(k, p)' /\ ~ Keeps(k, p)
    BY <2>1 DEF Asks, Keeps
  <2>4. \A y \in queue' : y.id[1] = p => \E x \in queue : x.id[1] = p /\ x.grant = y.grant
    BY <2>1, <2>2, RestatedGrants DEF Holding
  <2> QED BY <2>1, <2>3, <2>4, GrantStaysBy
<1>8. CASE ListDone(k)
  <2>1. /\ sender[k].pc = "purge" /\ UNCHANGED <<minted, lostGrants, storage>>
        /\ Others(k) /\ sender'[k].pc \in {"idle", "purging"}
    BY <1>8, ListDoneEffect DEF ListDone, At, books
  <2>2. ~ Asks(k, p)' /\ ~ Keeps(k, p)' /\ ~ Keeps(k, p)
    BY <2>1 DEF Asks, Keeps
  <2>3. \A y \in queue' : y.id[1] = p => \E x \in queue : x.id[1] = p /\ x.grant = y.grant
    BY <1>8, PurgedQueue DEF Same
  <2> QED BY <2>1, <2>2, <2>3, GrantStaysBy
<1>9. CASE RemoveDone(k)
  <2>1. /\ sender[k].pc = "purging" /\ UNCHANGED <<minted, lostGrants, storage>>
        /\ queue' \subseteq queue
    BY <1>9 DEF RemoveDone, At, books, notes
  <2>2. Others(k) /\ sender'[k].pc \in {"idle", "purging"}
    BY <1>9, <2>1, RemoveDoneEffect DEF IdleAt
  <2>3. ~ Asks(k, p)' /\ ~ Keeps(k, p)' /\ ~ Keeps(k, p)
    BY <2>1, <2>2 DEF Asks, Keeps
  <2>4. \A y \in queue' : y.id[1] = p => \E x \in queue : x.id[1] = p /\ x.grant = y.grant
    BY <2>1
  <2> QED BY <2>1, <2>2, <2>3, <2>4, GrantStaysBy
<1>10. CASE SenderDies(k)
  <2>1. ~ storage' /\ UNCHANGED <<minted, lostGrants>>
    BY <1>10 DEF SenderDies, books, notes
  <2>2. Others(k) /\ sender'[k].pc = "idle"
    BY <1>10, DiesEffect DEF IdleAt
  <2>3. \A j \in Senders : Asks(j, p)' => ~ Granted(p)
    BY <2>2, OthersAskNothingNew DEF Others, Asks
  <2>4. \A j \in Senders : Keeps(j, p)' => sender'[j].grant # 0
    BY <2>2, OthersAskNothingNew DEF Others, Keeps
  <2> QED BY <2>1, <2>3, <2>4 DEF GrantKept, Granted
<1> QED BY <1>1, <1>2, <1>3, <1>4, <1>5, <1>6, <1>7, <1>8, <1>9, <1>10 DEF SenderStep

LEMMA GrantsNext ==
  ASSUME TypeOK, Traced, Roomy, Listed, Alone, Fits, GrantsKept, [Next]_vars
  PROVE  GrantsKept'
<1> SUFFICES ASSUME NEW p \in Photos \ shared' PROVE GrantKept(p)'
  BY DEF GrantsKept
<1>1. p \in Photos \ shared /\ GrantKept(p) /\ (storage' => storage) /\ p \in Subjects \ shared
  BY Grows, PhotoIs DEF GrantsKept
<1>2. ASSUME UNCHANGED <<minted, lostGrants>>, queue' \subseteq queue,
             \A k \in Senders : sender'[k] = sender[k] \/ sender'[k].pc \in {"mark", "purge"},
             \A k \in Senders : sender'[k] # sender[k] => sender[k].pc = "idle"
      PROVE  GrantKept(p)'
  <2>1. ASSUME NEW k \in Senders
        PROVE  /\ Asks(k, p)' => ~ Granted(p)
               /\ Keeps(k, p)' => sender'[k].grant # 0
               /\ Keeps(k, p) => Keeps(k, p)'
    <3>1. CASE sender'[k] = sender[k]
      BY <1>1, <3>1, OthersAskNothingNew
    <3>2. CASE sender'[k] # sender[k]
      BY <1>2, <3>2 DEF Asks, Keeps
    <3> QED BY <3>1, <3>2
  <2> QED BY <1>1, <1>2, <2>1, GrantStays
<1>3. CASE UNCHANGED vars
  BY <1>2, <1>3 DEF vars, phone, books, notes
<1>4. ASSUME NEW s \in Subjects, NEW d \in Decisions(s), Tap(s, d) PROVE GrantKept(p)'
  BY <1>2, <1>4 DEF Tap, books
<1>5. ASSUME NEW n \in DOMAIN ops, CallStep(n) PROVE GrantKept(p)'
  <2>1. UNCHANGED <<sender, minted>>
    BY <1>5, CallFrame
  <2>2. \A k \in Senders : /\ Asks(k, p)' => ~ Granted(p)
                           /\ Keeps(k, p)' => sender'[k].grant # 0
                           /\ Keeps(k, p) => Keeps(k, p)'
    BY <1>1, <2>1, OthersAskNothingNew
  <2>3. CASE ~ (Store(n) /\ ops[n].s = p)
    <3>1. lostGrants'[p] = lostGrants[p]
      BY <1>5, <2>3, CallFrame DEF Store
    <3>2. \A y \in queue' : y.id[1] = p => \E x \in queue : x.id[1] = p /\ x.grant = y.grant
      <4>1. CASE ops[n].s # p
        <5>1. Stays(p)
          BY <1>5, <4>1, CallRows
        <5> QED BY <5>1 DEF Stays, Same
      <4>2. CASE ~ Store(n)
        <5>1. queue' \subseteq queue
          BY <1>5, <4>2 DEF CallStep, Serve, Answer, Refuse, Lose, ListOlder, RemoveOlder,
             StoreFails, PutRefused
        <5> QED BY <5>1
      <4> QED BY <2>3, <4>1, <4>2
    <3> QED BY <1>1, <2>1, <2>2, <3>1, <3>2, GrantStays
  <2>4. CASE Store(n) /\ ops[n].s = p
    <3>1. \A k \in Senders : ~ Working(k, p)
      BY <1>1, <1>5, <2>4, CallsLess DEF Alone, Calling
    <3>2. \A k \in Senders : ~ Asks(k, p)' /\ ~ Keeps(k, p)'
      BY <2>1, <3>1, WorksOnCurrent DEF Asks, Keeps, RowPhases, Current
    <3>3. lostGrants'[p] = minted[p] /\ minted'[p] = minted[p] /\ minted[p] \in Nat
      BY <2>1, <2>4 DEF Store, TypeOK
    <3> QED BY <3>2, <3>3 DEF GrantKept, Granted
  <2> QED BY <2>3, <2>4
<1>6. ASSUME NEW k \in Senders, SenderStep(k) PROVE GrantKept(p)'
  <2>1. FitsAt(k, p)
    BY <1>1 DEF Fits
  <2> QED BY <1>1, <1>6, <2>1, GrantSender
<1>7. CASE Starts
  <2>1. UNCHANGED <<minted, lostGrants, queue>>
    BY <1>7, StartsFrame
  <2>2. ASSUME NEW k \in Senders, NEW rows \in SUBSET Unsent, sender[k].pc = "idle", Start(k, rows)
        PROVE  GrantKept(p)'
    <3>1. rows \in SUBSET queue
      BY DEF Unsent
    <3>2. sender'[k].pc = "mark" /\ Others(k)
      BY <2>2, <3>1, StartEffect
    <3> QED BY <1>2, <2>1, <2>2, <3>2 DEF Others
  <2> QED BY <1>2, <1>7, <2>1, <2>2, StartsFrame
<1>8. CASE Around
  <2>1. UNCHANGED <<minted, lostGrants, queue>>
    BY <1>8, AroundFrame
  <2>2. \/ UNCHANGED sender
        \/ Others("page") /\ sender["page"].pc = "idle" /\ sender'["page"].pc = "purge"
    BY <1>8, AroundFrame
  <2> QED BY <1>2, <2>1, <2>2 DEF Others
<1> QED BY <1>3, <1>4, <1>5, <1>6, <1>7, <1>8, StepsAre

----------------------------------------------------------------------------
(* The theorems.                                                            *)

IInv == /\ TypeOK /\ Traced /\ Roomy /\ Listed /\ Alone /\ Fits
        /\ DoneMeansServed /\ LastWord /\ Gone /\ Told /\ Shows /\ GrantsKept

LEMMA IInvInit == Init => IInv
<1> SUFFICES ASSUME Init PROVE IInv
  OBVIOUS
<1>1. /\ ops = <<>> /\ DOMAIN ops = {} /\ Len(ops) = 0 /\ queue = {} /\ Outstanding = {}
      /\ \A k \in Senders : IdleAt(sender[k]) /\ sender[k] \in Work
      /\ \A s : CallsOn(s) = {}
      /\ \A k \in Senders : \A s : ~ Working(k, s)
  BY IdleIs DEF Init, Outstanding, CallsOn, Working, IdleAt
<1>2. TypeOK
  <2>1. ops \in Seq(Op) /\ Len(ops) <= MaxTaps
    BY <1>1, Bounds
  <2>2. sender \in [Senders -> Work]
    BY <1>1 DEF Init
  <2>3. online \in BOOLEAN /\ woken \in BOOLEAN /\ storage \in BOOLEAN
    BY DEF Init
  <2> QED BY <1>1, <2>1, <2>2, <2>3, Bounds DEF Init, TypeOK
<1>3. Traced
  BY <1>1 DEF Init, Traced, RowsTraced, OpsTraced, ShownTraced, ForceTraced, IdleAt
<1>4. Roomy
  BY <1>1, FS_EmptySet DEF Init, Roomy
<1>5. Listed
  BY <1>1 DEF Listed, IdleAt, RowPhases, Holding
<1>6. Alone
  BY <1>1 DEF Alone, Calling
<1>7. Fits
  BY <1>1 DEF Fits, FitsAt, IdleAt, Holding
<1>8. DoneMeansServed /\ LastWord /\ Gone /\ Told
  BY <1>1 DEF Init, DoneMeansServed, LastWord, LastWordOn, Gone, Told, ToldOn, IdleAt
<1>9. Shows
  <2> SUFFICES ASSUME NEW s \in Subjects PROVE ShowsOn(s) /\ Upright(s)
    BY DEF Shows
  <2>1. \A m : Stands(s, m) => m = 0
    BY <1>1 DEF Init, Stands, Calling
  <2>2. \A m : AgreesWith(s, m)
    BY <1>1 DEF AgreesWith, Unsent, IdleAt
  <2> QED BY <1>1, <2>1, <2>2 DEF ShowsOn, Upright
<1>10. GrantsKept
  BY <1>1 DEF Init, GrantsKept, GrantKept, Granted, Asks, Keeps, IdleAt
<1> QED BY <1>2, <1>3, <1>4, <1>5, <1>6, <1>7, <1>8, <1>9, <1>10 DEF IInv

LEMMA IInvNext == IInv /\ [Next]_vars => IInv'
<1> SUFFICES ASSUME IInv, [Next]_vars PROVE IInv'
  OBVIOUS
<1>1. /\ TypeOK /\ Traced /\ Roomy /\ Listed /\ Alone /\ Fits
      /\ DoneMeansServed /\ LastWord /\ Gone /\ Told /\ Shows /\ GrantsKept
  BY DEF IInv
<1>2. TypeOK'
  BY <1>1, TypeNext
<1>3. Traced'
  BY <1>1, RowsTracedNext, OpsTracedNext, ShownTracedNext, ForceTracedNext DEF Traced
<1>4. Roomy' /\ Listed' /\ Alone'
  BY <1>1, RoomyNext, ListedNext, AloneNext
<1>5. Fits'
  BY <1>1, <1>2, <1>4, FitsNext
<1>6. DoneMeansServed'
  BY <1>1, <1>2, <1>3, ServedNext
<1>7. LastWord'
  BY <1>1, LastWordNext
<1>8. Gone'
  BY <1>1, <1>3, GoneNext
<1>9. Told' /\ Shows'
  BY <1>1, ToldNext, ShowsNext
<1>10. GrantsKept'
  BY <1>1, GrantsNext
<1> QED BY <1>2, <1>3, <1>4, <1>5, <1>6, <1>7, <1>8, <1>9, <1>10 DEF IInv

LEMMA AlwaysIInv == Spec => []IInv
BY IInvInit, IInvNext, PTL DEF Spec

\* Every variable of the queue stays in its set, and there is one row of an id
\* (queue.ts: the object store's key is the operation's id).
THEOREM TypeCorrect == Spec => []TypeOK
<1>1. IInv => TypeOK
  BY DEF IInv
<1> QED BY <1>1, AlwaysIInv, PTL

\* A row the sync page lists as sent was carried out by the server: DONE is
\* written after an answer only, over the row that was sent (sync.ts, drain).
THEOREM RowsDoneWereServed == Spec => []DoneMeansServed
<1>1. IInv => DoneMeansServed
  BY DEF IInv
<1> QED BY <1>1, AlwaysIInv, PTL

\* What a screen shows as decided, reported or kept is what the server was told
\* last, or under way, or held by a row that will be sent (queue.ts, tryEnqueue; the
\* rollback in store.ts), for subjects the phone has not worked on twice at once and
\* of which no row was mislaid.
THEOREM ShownStaysKept == Spec => []ShownIsKept
<1>1. IInv => ShownIsKept
  BY UprightShows DEF IInv, ShownIsKept
<1> QED BY <1>1, AlwaysIInv, PTL

\* A photograph of the queue is presigned once, beside presigns whose answer was
\* lost: its grant is written to its row before its bytes go (sync.ts, replay).
THEOREM PhotosArePresignedOnce == Spec => []OneCapturePerQueuedPhoto
<1>1. IInv => OneCapturePerQueuedPhoto
  <2> SUFFICES ASSUME IInv, NEW p \in Photos \ shared PROVE minted[p] <= 1 + lostGrants[p]
    BY DEF OneCapturePerQueuedPhoto
  <2>1. minted[p] = lostGrants[p] \/ minted[p] = lostGrants[p] + 1
    BY DEF IInv, GrantsKept, GrantKept, Granted
  <2>2. minted[p] \in Nat /\ lostGrants[p] \in Nat
    BY DEF IInv, TypeOK
  <2> QED BY <2>1, <2>2
<1> QED BY <1>1, AlwaysIInv, PTL

LEMMA StoredOverGrows ==
  ASSUME [Next]_vars
  PROVE  storedOver \subseteq storedOver'
<1>1. CASE UNCHANGED vars
  BY <1>1 DEF vars, notes
<1>2. ASSUME NEW n \in DOMAIN ops, CallStep(n) PROVE storedOver \subseteq storedOver'
  BY <1>2 DEF CallStep, Serve, Answer, Refuse, Lose, ListOlder, RemoveOlder, Store, StoreFails, PutRefused,
              notes
<1>3. CASE AutoDrain \/ SendAll \/ (\E x \in queue : RetryRow(x)) \/ OpenSyncPage
  BY <1>3 DEF AutoDrain, SendAll, RetryRow, OpenSyncPage
<1>4. CASE SignalLost \/ SignalBack \/ StorageGone
  BY <1>4 DEF SignalLost, SignalBack, StorageGone, notes
<1> QED BY <1>1, <1>2, <1>3, <1>4, StepsAre, SenderFrame DEF Tap, Starts, Around

\* A decision that a later one was stored over is never replayed: its rows were
\* removed before, and no sender has it on its list (queue.ts, removeByPrefix).
THEOREM StoredOverStaysUnsent == Spec => StoredOverNeverSent
<1>1. IInv /\ IInv' /\ [Next]_vars =>
        \A n \in storedOver : ops[n].s \notin shared' => (n \in applied' => n \in applied)
  <2> SUFFICES ASSUME IInv, IInv', [Next]_vars, NEW n \in storedOver, ops[n].s \notin shared'
               PROVE  n \notin applied'
    OBVIOUS
  <2>1. n \in storedOver' /\ ops'[n].s = ops[n].s
    BY StoredOverGrows, Grows DEF IInv, TypeOK
  <2> QED BY <2>1 DEF IInv, Gone, Forgotten
<1> QED BY <1>1, AlwaysIInv, PTL DEF Spec, StoredOverNeverSent

\* A row that was not sent leaves the queue only to a newer request about its
\* subject: no purge and no write-back of an old copy takes it (queue.ts, update
\* and purgeCompleted).
THEOREM UnsentStays == Spec => UnsentNeverDropped
<1>1. IInv /\ [Next]_vars =>
        \A x \in Unsent : x.id[1] \notin shared' =>
          \/ \E y \in queue' : y.n = x.n
          \/ \E n \in Outstanding : ops[n].s = x.id[1] /\ n > x.n
  <2> SUFFICES ASSUME IInv, [Next]_vars, NEW x \in Unsent, x.id[1] \notin shared'
               PROVE  \/ \E y \in queue' : y.n = x.n
                      \/ \E n \in Outstanding : ops[n].s = x.id[1] /\ n > x.n
    OBVIOUS
  <2>1. PICK s : s = x.id[1]
    OBVIOUS
  <2>2. x \in queue /\ x.status # "DONE" /\ s \in Subjects \ shared'
    BY <2>1, RowSubject DEF IInv, Unsent
  <2>3. CASE Follows(s)
    BY <2>1, <2>2, <2>3 DEF Follows, Kin
  <2>4. ASSUME NEW n \in CallsOn(s) PROVE n > x.n
    <3>1. n \in DOMAIN ops /\ ops[n].s = s /\ ops[n].stage # "over"
      BY DEF CallsOn, Outstanding
    <3>2. x.n \in DOMAIN ops /\ ops[x.n].s = s /\ ops[x.n].stage = "over"
      BY <2>1, <2>2 DEF IInv, Traced, RowsTraced, FromTap
    <3>3. x.n <= n
      BY <2>2, <3>2, Grows DEF IInv, LastWord, LastWordOn
    <3> QED BY <3>1, <3>2, <3>3, OutstandingFinite DEF IInv
  <2>5. Follows(s) \/ \E n \in CallsOn(s) : CallStep(n)
    BY <2>2, RowsNext DEF IInv
  <2> QED BY <2>1, <2>3, <2>4, <2>5 DEF CallsOn
<1> QED BY <1>1, AlwaysIInv, PTL DEF Spec, UnsentNeverDropped

=============================================================================
