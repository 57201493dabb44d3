-------------------------- MODULE VisitFlow_proofs --------------------------
(***************************************************************************)
(* Theorems about VisitFlow, for any shops and shelves and any number of   *)
(* visits, photographs, failures and presses of back.                      *)
(*                                                                         *)
(* A step of the rep or of an answer either moves to another screen, which *)
(* Moved describes once for all of them, or writes a field of the store    *)
(* and a call.  The inductive invariant IInv says what a call that is out  *)
(* has to do with the store it will write into.                            *)
(***************************************************************************)
EXTENDS VisitFlow, SequenceTheorems, TLAPS

-----------------------------------------------------------------------------
(* The invariant.                                                           *)

Way == {p \in [step : Steps, shop : Shops \cup {NoShop}] : p.step # "ROUTE" => p.shop \in Shops}

\* Every screen but the route is of a shop, every call is about a visit the server
\* has, unless it is the check-in that asks for one.
Placed == trail \in Seq(Way)
Outside == {"checkin", "handoff"}
Known(v) == v <= Len(opened)
Asked == /\ \A c \in calls : /\ Known(c.visit)
                             /\ c.kind \notin Outside => c.visit # 0
                             /\ c.kind = "analyse" => c.shelf # NoShelf
         /\ \A a \in store.analysis : Known(a.visit)

\* A photograph is staged with a visit and a shelf to send it with.
Staging == store.photo # {} => store.visit # 0 /\ store.shelf # NoShelf

\* A check-in is out only for the shop whose visit has not begun, and once.
CheckIns ==
  /\ At("CHECKIN") => store.shop = Here.shop
  /\ "checkin" \notin abandoned =>
       /\ \A c \in calls : c.kind = "checkin" =>
            c.shop = store.shop /\ c.visit = 0 /\ store.visit = 0
       /\ \A c, d \in calls : c.kind = "checkin" /\ d.kind = "checkin" => c = d

\* Photographs are of a visit, and the stand-in is never staged or sent.
Real(x) == x.n # 0 /\ x.visit # 0
Shot == /\ \A x \in store.photo : Real(x)
        /\ store.review # {StandIn} => \A x \in store.review : Real(x)
        /\ \A c \in calls : \A x \in c.photo : Real(x)

\* What is out is about the visit in the store.
Lasting == {"intake", "analyse", "after", "tasks", "list", "close"}
OwnCalls ==
  "checkin" \notin abandoned =>
    \A c \in calls :
      /\ c.kind \in Lasting \ abandoned => c.visit = store.visit
      /\ c.kind = "intake" /\ "intake" \notin abandoned => \A x \in c.photo : x.visit = store.visit

\* A run is out only while its screen stands, and reads what is staged.
Runs == "analyse" \notin abandoned =>
          \A c \in calls : c.kind = "analyse" => At("PROCESSING") /\ c.photo \subseteq store.photo

\* Before it is staged a photograph is undecided, and then of the shelf it is sent with.
Matches(x) == x.visit = store.visit /\ x.shelf = store.shelf
Kept ==
  "checkin" \notin abandoned =>
    /\ store.review # {StandIn} =>
         \A x \in store.review : x.n \notin carried => At("CAPTURE") /\ Matches(x)
    /\ \A c \in calls : c.kind = "intake" =>
         \A x \in c.photo : x.n \notin carried => At("CAPTURE") /\ Matches(x)
    /\ At("PROCESSING") => \A x \in store.photo : x.n \notin carried => Matches(x)

\* A close that was served has closed its visit, a visit has one at a time, and a
\* summary with a figure is not being asked for.
Served == \A c \in calls : c.kind = "close" /\ c.stage = "served" => c.visit \in settled
OneClose == \A c, d \in calls : c.kind = "close" /\ d.kind = "close" /\ c.visit = d.visit => c = d
Awaited == "refresh" \notin abandoned =>
  \A x \in store.checkout, c \in calls : c.kind = "close" /\ c.visit = x.visit => x.pending

-----------------------------------------------------------------------------
(* Places, calls and the store.                                             *)

Bounds == /\ MaxVisits \in Nat /\ MaxShots \in Nat /\ MaxSlips \in Nat
          /\ MaxLeft \in Nat /\ MaxPolls \in Nat

LEMMA BoundsHold == Bounds
BY BoundAssumption DEF Bounds

LEMMA HereIs ==
  ASSUME TypeOK, Placed
  PROVE  Here \in Way /\ Len(trail) \in Nat \ {0} /\ Here.step \in Steps
BY DEF TypeOK, Placed, Here, Way

LEMMA PlaceIsWay ==
  ASSUME NEW step \in Steps, NEW s \in Shops \cup {NoShop}, step # "ROUTE" => s \in Shops
  PROVE  Place(step, s) \in Way /\ Place(step, s).step = step
                                /\ (step # "ROUTE" => Place(step, s).shop = s)
BY DEF Place, Way

LEMMA PushIs ==
  ASSUME Placed, NEW p \in Way
  PROVE  Push(p) \in Seq(Way) /\ Push(p) # <<>> /\ Push(p)[Len(Push(p))] = p
BY DEF Push, Placed

LEMMA ReplaceIs ==
  ASSUME TypeOK, Placed, NEW p \in Way
  PROVE  Replace(p) \in Seq(Way) /\ Replace(p) # <<>> /\ Replace(p)[Len(Replace(p))] = p
<1>1. trail \in Seq(Way) /\ Len(trail) \in Nat \ {0}
  BY DEF Placed, TypeOK
<1>2. Replace(p) \in Seq(Way) /\ Len(Replace(p)) = Len(trail)
  BY <1>1, ExceptSeq DEF Replace
<1> QED BY <1>1, <1>2 DEF Replace

LEMMA TowardsIs ==
  ASSUME TypeOK, Placed, NEW step \in Steps, NEW s \in Shops \cup {NoShop},
         step # "ROUTE" => s \in Shops
  PROVE  Towards(step, s) \in Seq(Way) /\ Towards(step, s) # <<>>
                                       /\ Towards(step, s)[Len(Towards(step, s))] = Place(step, s)
<1>1. Place(step, s) \in Way
  BY PlaceIsWay
<1> QED BY <1>1, PushIs, ReplaceIs DEF Towards

LEMMA PoppedIs ==
  ASSUME Placed, Len(trail) > 1
  PROVE  LET t == SubSeq(trail, 1, Len(trail) - 1) IN
         t \in Seq(Way) /\ t # <<>> /\ t[Len(t)] \in Way
<1> DEFINE t == SubSeq(trail, 1, Len(trail) - 1)
<1>1. trail \in Seq(Way) /\ Len(trail) \in Nat
  BY DEF Placed
<1>2. t \in Seq(Way) /\ Len(t) = Len(trail) - 1
  BY <1>1, SubSeqProperties
<1> HIDE DEF t
<1>3. Len(t) \in Nat \ {0}
  BY <1>1, <1>2
<1>4. t # <<>> /\ Len(t) \in 1 .. Len(t)
  BY <1>2, <1>3
<1>5. t[Len(t)] \in Way
  BY <1>2, <1>4, ElementOfSeq
<1> QED BY <1>2, <1>4, <1>5 DEF t

LEMMA ReachableIs ==
  ASSUME NEW t \in Seq(Way), t # <<>>, slips \in 0 .. MaxSlips
  PROVE  LET r == Reachable(t) IN r \in Seq(Way) /\ r # <<>> /\ r[Len(r)] = t[Len(t)]
<1> DEFINE n == 1 + MaxSlips - slips
           r == SubSeq(t, Len(t) - n + 1, Len(t))
<1>1. Len(t) \in Nat \ {0} /\ n \in Nat \ {0}
  BY BoundsHold DEF Bounds
<1>2. CASE Len(t) <= n
  BY <1>2 DEF Reachable
<1>3. CASE ~(Len(t) <= n)
  <2>1. Len(t) - n + 1 \in 1 .. Len(t)
    BY <1>1, <1>3
  <2>2. r \in Seq(Way) /\ Len(r) = n /\ \A i \in 1 .. n : r[i] = t[Len(t) - n + 1 + i - 1]
    BY <1>1, <2>1, SubSeqProperties
  <2>3. n \in 1 .. n /\ Len(t) - n + 1 + n - 1 = Len(t)
    BY <1>1
  <2>4. Reachable(t) = r
    BY <1>3 DEF Reachable
  <2> HIDE DEF r, n
  <2>5. r # <<>> /\ r[n] = t[Len(t)]
    BY <1>1, <2>2, <2>3
  <2> QED BY <2>2, <2>4, <2>5
<1> QED BY <1>2, <1>3

LEMMA AskIs ==
  ASSUME NEW kind \in Kinds, NEW s \in Shops, NEW st \in Visit, NEW photo \in SUBSET Photo
  PROVE  /\ Ask(kind, s, st, photo) \in Call
         /\ Ask(kind, s, st, photo).kind = kind /\ Ask(kind, s, st, photo).shop = s
         /\ Ask(kind, s, st, photo).visit = st.visit /\ Ask(kind, s, st, photo).shelf = st.shelf
         /\ Ask(kind, s, st, photo).photo = photo /\ Ask(kind, s, st, photo).stage = "sent"
         /\ Ask(kind, s, st, photo).live
BY DEF Ask, Call, Visit

LEMMA AskVisit ==
  ASSUME NEW kind, NEW s, NEW st, NEW photo
  PROVE  /\ Ask(kind, s, st, photo).kind = kind /\ Ask(kind, s, st, photo).shop = s
         /\ Ask(kind, s, st, photo).visit = st.visit /\ Ask(kind, s, st, photo).shelf = st.shelf
         /\ Ask(kind, s, st, photo).photo = photo /\ Ask(kind, s, st, photo).stage = "sent"
         /\ Ask(kind, s, st, photo).live
BY DEF Ask

LEMMA FreshIs ==
  ASSUME NEW s \in Shops \cup {NoShop}
  PROVE  /\ Fresh(s) \in Visit
         /\ Fresh(s).shop = s /\ Fresh(s).visit = 0 /\ Fresh(s).shelf = NoShelf
         /\ Fresh(s).review = {} /\ Fresh(s).photo = {} /\ Fresh(s).analysis = {}
         /\ Fresh(s).tasks = 0 /\ Fresh(s).after = 0
         /\ Fresh(s).checkout = {} /\ Fresh(s).stamped = FALSE
BY BoundsHold DEF Bounds, Fresh, Visit

\* Two calls that differ only in whether the screen still stands.
Alike(c, d) == /\ d.kind = c.kind /\ d.shop = c.shop /\ d.visit = c.visit /\ d.shelf = c.shelf
               /\ d.photo = c.photo /\ d.stage = c.stage /\ d.pending = c.pending

LEMMA WakingIs ==
  ASSUME NEW c \in Call, NEW b \in BOOLEAN
  PROVE  /\ [c EXCEPT !.live = b] \in Call /\ Alike(c, [c EXCEPT !.live = b])
         /\ [c EXCEPT !.live = b].live = b
BY DEF Call, Alike

LEMMA UnmountedIs ==
  ASSUME NEW cs, cs \subseteq Call
  PROVE  /\ Unmounted(cs) \subseteq Call
         /\ \A d \in Unmounted(cs) : ~d.live /\ \E c \in cs : Alike(c, d)
         /\ \A c \in cs : c.kind # "handoff" => \E d \in Unmounted(cs) : Alike(c, d)
<1>1. \A c \in cs : /\ [c EXCEPT !.live = FALSE] \in Call /\ Alike(c, [c EXCEPT !.live = FALSE])
                    /\ [c EXCEPT !.live = FALSE].live = FALSE
  BY WakingIs
<1> QED BY <1>1 DEF Unmounted

LEMMA ClosingIs ==
  ASSUME NEW cs, cs \subseteq Call, NEW st \in Visit, NEW s \in Shops
  PROVE  /\ Closing(cs, st, s) \subseteq Call
         /\ \A d \in Closing(cs, st, s) :
              \/ \E c \in cs : Alike(c, d) /\ (c.live => d.live)
              \/ /\ d = Ask("close", s, st, {})
                 /\ \A c \in cs : c.kind = "close" => c.visit # st.visit
         /\ \A c \in cs : \E d \in Closing(cs, st, s) : Alike(c, d) /\ (c.live => d.live)
         /\ \E d \in Closing(cs, st, s) : d.kind = "close" /\ d.live /\ d.visit = st.visit
<1> DEFINE joined == {c \in cs : c.kind = "close" /\ c.visit = st.visit}
           woken == {[c EXCEPT !.live = TRUE] : c \in joined}
           new == Ask("close", s, st, {})
<1>1. \A c \in cs : /\ [c EXCEPT !.live = TRUE] \in Call /\ Alike(c, [c EXCEPT !.live = TRUE])
                    /\ [c EXCEPT !.live = TRUE].live = TRUE
  BY WakingIs
<1>2. new \in Call /\ new.kind = "close" /\ new.live /\ new.visit = st.visit
  <2>1. "close" \in Kinds /\ {} \in SUBSET Photo
    BY DEF Kinds
  <2>2. /\ new \in Call /\ new.kind = "close" /\ new.visit = st.visit
        /\ new.live
    BY <2>1, AskIs
  <2> QED BY <2>2
<1>3. CASE joined = {}
  <2>1. Closing(cs, st, s) = cs \cup {new}
    BY <1>3 DEF Closing
  <2>2. \A c \in cs : Alike(c, c)
    BY DEF Alike
  <2>3. \A c \in cs : c.kind = "close" => c.visit # st.visit
    BY <1>3
  <2> QED BY <1>2, <2>1, <2>2, <2>3
<1>4. CASE joined # {}
  <2>1. Closing(cs, st, s) = (cs \ joined) \cup woken
    BY <1>4 DEF Closing
  <2>2. \A c \in cs : Alike(c, c)
    BY DEF Alike
  <2>3. \A d \in woken : \E c \in joined : d \in Call /\ Alike(c, d) /\ d.live
    BY <1>1
  <2>4. \A c \in joined : \E d \in woken : Alike(c, d) /\ d.live
    BY <1>1
  <2>5. \A c \in joined : c.kind = "close" /\ c.visit = st.visit /\ c \in cs
    OBVIOUS
  <2> HIDE DEF joined, woken
  <2>6. \E d \in woken : d.kind = "close" /\ d.live /\ d.visit = st.visit
    BY <1>4, <2>4, <2>5 DEF Alike
  <2> QED BY <2>1, <2>2, <2>3, <2>4, <2>5, <2>6
<1> QED BY <1>3, <1>4

LEMMA UndecidedIs ==
  ASSUME NEW st, NEW cs, NEW x
  PROVE  x \in Undecided(st, cs) <=>
           \/ x \in st.review
           \/ \E c \in cs : c.kind = "intake" /\ x \in c.photo
           \/ store.review = {StandIn} /\ x \in st.photo
BY DEF Undecided

-----------------------------------------------------------------------------
(* Moving from screen to screen.                                            *)

\* What the effects of the screen p make of the calls cs, with the store as st.
StartedBy(p, st, cs, d) ==
  \/ /\ p.step = "PROCESSING" /\ st.visit # 0 /\ st.shelf # NoShelf /\ st.photo # {}
     /\ d = Ask("analyse", p.shop, st, st.photo)
  \/ /\ p.step = "TASKS" /\ st.visit # 0
     /\ d = Ask("list", p.shop, st, {})
  \/ /\ p.step = "CHECKOUT" /\ st.visit # 0 /\ st.checkout = {}
     /\ d = Ask("close", p.shop, st, {})
     /\ \A c \in cs : c.kind = "close" => c.visit # st.visit

LEMMA StartedIs ==
  ASSUME NEW cs, cs \subseteq Call, NEW st \in Visit, NEW p \in Way
  PROVE  /\ Started(p, st, cs) \subseteq Call
         /\ \A d \in Started(p, st, cs) :
              (\E c \in cs : Alike(c, d) /\ (c.live => d.live)) \/ StartedBy(p, st, cs, d)
         /\ \A c \in cs : \E d \in Started(p, st, cs) : Alike(c, d) /\ (c.live => d.live)
<1>1. \A c \in cs : Alike(c, c)
  BY DEF Alike
<1>2. CASE p.step = "PROCESSING" /\ st.visit # 0 /\ st.shelf # NoShelf /\ st.photo # {}
  <2>1. PICK d : d = Ask("analyse", p.shop, st, st.photo)
    OBVIOUS
  <2>2. Started(p, st, cs) = cs \cup {d}
    BY <1>2, <2>1 DEF Started
  <2>3. p.shop \in Shops /\ st.photo \in SUBSET Photo /\ "analyse" \in Kinds
    BY <1>2 DEF Way, Visit, Kinds
  <2>4. d \in Call
    BY <2>1, <2>3, AskIs
  <2>5. StartedBy(p, st, cs, d)
    BY <1>2, <2>1 DEF StartedBy
  <2> QED BY <1>1, <2>2, <2>4, <2>5
<1>3. CASE p.step = "TASKS" /\ st.visit # 0 /\ st.tasks = 0
  <2>1. PICK d : d = Ask("list", p.shop, st, {})
    OBVIOUS
  <2>2. Started(p, st, cs) = cs \cup {d}
    BY <1>3, <2>1 DEF Started
  <2>3. p.shop \in Shops /\ {} \in SUBSET Photo /\ "list" \in Kinds
    BY <1>3 DEF Way, Kinds
  <2>4. d \in Call
    BY <2>1, <2>3, AskIs
  <2>5. StartedBy(p, st, cs, d)
    BY <1>3, <2>1 DEF StartedBy
  <2> QED BY <1>1, <2>2, <2>4, <2>5
<1>4. CASE p.step = "CHECKOUT" /\ st.visit # 0 /\ st.checkout = {}
  <2>1. Started(p, st, cs) = Closing(cs, st, p.shop)
    BY <1>4 DEF Started
  <2>2. p.shop \in Shops
    BY <1>4 DEF Way
  <2> QED BY <1>4, <2>1, <2>2, ClosingIs DEF StartedBy
<1>5. CASE Started(p, st, cs) = cs
  BY <1>1, <1>5
<1> QED BY <1>2, <1>3, <1>4, <1>5 DEF Started

\* What Move does, of the place p it goes to.
Begins(p, st) == p.step = "CHECKIN" /\ st.shop # p.shop
Arriving(p, st) == IF Begins(p, st) THEN Fresh(p.shop) ELSE st
Moved(p, st, cs, wiped) ==
  /\ p \in Way /\ st \in Visit /\ cs \subseteq calls
  /\ trail' \in Seq(Way) /\ trail' # <<>> /\ Here' = p
  /\ store' = Arriving(p, st)
  /\ calls' = Started(p, Arriving(p, st), Unmounted(cs))
  /\ screen' = FirstScreen(p, Arriving(p, st))
  /\ polls' = 0
  /\ abandoned' = abandoned \cup (IF wiped \/ Begins(p, st) THEN KindsOf(cs) \ {"handoff", "upload"}
                                  ELSE IF At("PROCESSING") THEN KindsOf(cs) \cap {"analyse"}
                                  ELSE {})
  /\ carried' = carried
       \cup (IF At("CAPTURE") THEN {x.n : x \in Undecided(st, cs)} ELSE {})
       \cup (IF p.step = "PROCESSING" /\ st = store THEN {x.n : x \in st.photo} ELSE {})

LEMMA MoveMoves ==
  ASSUME TypeOK, NEW t \in Seq(Way), t # <<>>, NEW p \in Way, t[Len(t)] = p,
         NEW st \in Visit, NEW cs, cs \subseteq calls, NEW wiped, Move(t, st, cs, wiped)
  PROVE  Moved(p, st, cs, wiped)
<1>1. slips \in 0 .. MaxSlips
  BY DEF TypeOK
<1>2. trail' = Reachable(t)
  BY DEF Move
<1>3. trail' \in Seq(Way) /\ trail' # <<>> /\ Here' = p
  BY <1>1, <1>2, ReachableIs DEF Here
<1>4. store' = Arriving(p, st)
  BY DEF Move, Arriving, Begins
<1>5. calls' = Started(p, Arriving(p, st), Unmounted(cs))
  BY DEF Move, Arriving, Begins
<1>6. screen' = FirstScreen(p, Arriving(p, st)) /\ polls' = 0
  BY DEF Move, Arriving, Begins
<1>7. abandoned' = abandoned \cup (IF wiped \/ Begins(p, st)
                                   THEN KindsOf(cs) \ {"handoff", "upload"}
                                   ELSE IF At("PROCESSING") THEN KindsOf(cs) \cap {"analyse"}
                                   ELSE {})
  BY DEF Move, Begins
<1>8. carried' = carried
        \cup (IF At("CAPTURE") THEN {x.n : x \in Undecided(st, cs)} ELSE {})
        \cup (IF p.step = "PROCESSING" /\ st = store THEN {x.n : x \in st.photo} ELSE {})
  BY DEF Move
<1> QED BY <1>3, <1>4, <1>5, <1>6, <1>7, <1>8 DEF Moved

LEMMA MovedIs ==
  ASSUME TypeOK, NEW p, NEW st, NEW cs, NEW wiped, Moved(p, st, cs, wiped)
  PROVE  /\ store' \in Visit /\ calls' \subseteq Call
         /\ \A d \in calls' : (\E c \in cs : Alike(c, d)) \/ StartedBy(p, store', cs, d)
<1>1. /\ p \in Way /\ st \in Visit /\ cs \subseteq Call /\ store' = Arriving(p, st)
      /\ calls' = Started(p, store', Unmounted(cs))
  BY DEF Moved, TypeOK
<1>2. store' \in Visit
  BY <1>1, FreshIs DEF Arriving, Begins, Way
<1>3. /\ Unmounted(cs) \subseteq Call
      /\ \A d \in Unmounted(cs) : \E c \in cs : Alike(c, d)
      /\ \A c \in cs : c.kind # "handoff" => \E d \in Unmounted(cs) : Alike(c, d)
  BY <1>1, UnmountedIs
<1>4. PICK u : u = Unmounted(cs)
  OBVIOUS
<1>5. /\ calls' \subseteq Call
      /\ \A d \in calls' : (\E c \in u : Alike(c, d)) \/ StartedBy(p, store', u, d)
  BY <1>1, <1>2, <1>3, <1>4, StartedIs
<1>6. \A d : StartedBy(p, store', u, d) => StartedBy(p, store', cs, d)
  BY <1>3, <1>4 DEF StartedBy, Alike
<1> QED BY <1>2, <1>3, <1>4, <1>5, <1>6 DEF Alike

-----------------------------------------------------------------------------
(* The shapes of the moves.                                                 *)

\* The store as it is, and no call ends but the pause of the check-in.
GoesOn ==
  /\ \E p, cs : /\ Moved(p, store, cs, FALSE)
                /\ \A c \in calls \ cs : c.kind = "handoff"
  /\ slips' \in 0 .. MaxSlips
  /\ UNCHANGED <<server, shots>>

\* A visit begins, or none.
BeginsAnew ==
  /\ \E p, s : /\ s \in Shops \cup {NoShop} /\ p.step \in {"CHECKIN", "ROUTE"}
               /\ p.step = "CHECKIN" => p.shop = s
               /\ Moved(p, Fresh(s), calls, TRUE)
  /\ UNCHANGED <<server, counters>>

LEMMA GoIs ==
  ASSUME TypeOK, Placed, NEW step \in Steps, step # "ROUTE" => Here.shop \in Shops,
         Go(step) \/ GoInstead(step)
  PROVE  Moved(Place(step, Here.shop), store, calls, FALSE)
<1>1. Here.shop \in Shops \cup {NoShop} /\ store \in Visit
  BY HereIs DEF Way, TypeOK
<1>2. Place(step, Here.shop) \in Way
  BY <1>1, PlaceIsWay
<1>3. CASE Go(step)
  BY <1>1, <1>2, <1>3, TowardsIs, MoveMoves DEF Go
<1>4. CASE GoInstead(step)
  BY <1>1, <1>2, <1>4, ReplaceIs, MoveMoves DEF GoInstead
<1> QED BY <1>3, <1>4

LEMMA GoesOnBy ==
  ASSUME TypeOK, Placed, NEW step \in Steps, step # "ROUTE" => Here.shop \in Shops,
         Go(step) \/ GoInstead(step), slips' \in 0 .. MaxSlips, UNCHANGED <<server, shots>>
  PROVE  GoesOn
<1>1. Moved(Place(step, Here.shop), store, calls, FALSE)
  BY GoIs
<1> QED BY <1>1 DEF GoesOn

LEMMA SlipsIs ==
  ASSUME TypeOK
  PROVE  /\ Slips => slips' \in 0 .. MaxSlips
         /\ slips' = slips => slips' \in 0 .. MaxSlips
BY BoundsHold DEF Bounds, Slips, TypeOK

LEMMA WalkGoesOn ==
  ASSUME TypeOK, Placed,
         \/ GuardBlocks \/ NothingToProcess \/ BackButton \/ CarryOn \/ ConsentGate
         \/ RetakeAfterFailure \/ LeaveQueued \/ ResultButtons \/ TasksButton \/ CompareButton
         \/ (GoTasks /\ store.visit = 0)
  PROVE  GoesOn
<1>1. Here \in Way /\ Here.step \in Steps
  BY HereIs
<1>2. Here.step # "ROUTE" => Here.shop \in Shops
  BY <1>1 DEF Way
<1>3. UNCHANGED counters => slips' \in 0 .. MaxSlips /\ shots' = shots
  BY SlipsIs DEF counters
<1>4. CASE GuardBlocks
  <2>1. Here.step # "ROUTE"
    BY <1>4 DEF GuardBlocks, CanEnter
  <2>2. Fallback(Here.step) \in Steps
    BY <1>1 DEF Fallback, Steps
  <2> QED BY <1>2, <1>3, <1>4, <2>1, <2>2, GoesOnBy DEF GuardBlocks
<1>5. CASE NothingToProcess
  <2>1. PICK step \in {"CHECKIN", "CAPTURE"} : GoInstead(step)
    BY <1>5 DEF NothingToProcess
  <2> QED BY <1>2, <1>3, <1>5, <2>1, GoesOnBy DEF NothingToProcess, At, Steps
<1>6. CASE BackButton
  <2>1. Here.step \in Steps \ {"ROUTE", "PROCESSING"}
    BY <1>1, <1>6 DEF BackButton
  <2>2. BackOf(Here.step) \in Steps
    BY <2>1 DEF BackOf, Steps
  <2> QED BY <1>2, <1>6, <2>1, <2>2, GoesOnBy, SlipsIs DEF BackButton
<1>7. CASE CarryOn
  BY <1>2, <1>3, <1>7, GoesOnBy DEF CarryOn, At, Steps
<1>8. CASE ConsentGate
  BY <1>2, <1>3, <1>8, GoesOnBy DEF ConsentGate, At, Steps
<1>9. CASE RetakeAfterFailure
  BY <1>2, <1>3, <1>9, GoesOnBy DEF RetakeAfterFailure, At, Steps
<1>10. CASE LeaveQueued
  BY <1>2, <1>3, <1>10, GoesOnBy DEF LeaveQueued, At, Steps
<1>11. CASE ResultButtons
  <2>1. PICK step \in {"VERIFY", "CAPTURE"} : Go(step) \/ GoInstead(step)
    BY <1>11 DEF ResultButtons
  <2> QED BY <1>2, <1>3, <1>11, <2>1, GoesOnBy DEF ResultButtons, At, Steps
<1>12. CASE TasksButton
  <2>1. PICK step \in {"CHECKOUT", "COMPARE"} : Go(step)
    BY <1>12 DEF TasksButton
  <2> QED BY <1>2, <1>3, <1>12, <2>1, GoesOnBy DEF TasksButton, At, Steps
<1>13. CASE CompareButton
  BY <1>2, <1>3, <1>13, GoesOnBy DEF CompareButton, At, Steps
<1>14. CASE GoTasks /\ store.visit = 0
  BY <1>2, <1>3, <1>14, GoesOnBy DEF GoTasks, At, Steps
<1> QED BY <1>4, <1>5, <1>6, <1>7, <1>8, <1>9, <1>10, <1>11, <1>12, <1>13, <1>14

LEMMA BackKeyGoesOn ==
  ASSUME TypeOK, Placed, BackKey
  PROVE  GoesOn
<1> DEFINE t == SubSeq(trail, 1, Len(trail) - 1)
<1>1. Len(trail) > 1 /\ Move(t, store, calls, FALSE) /\ UNCHANGED <<server, shots>> /\ Slips
  BY DEF BackKey
<1>2. t \in Seq(Way) /\ t # <<>> /\ t[Len(t)] \in Way
  BY <1>1, PoppedIs
<1> HIDE DEF t
<1>3. Moved(t[Len(t)], store, calls, FALSE)
  BY <1>1, <1>2, MoveMoves DEF TypeOK
<1> QED BY <1>1, <1>3, SlipsIs DEF GoesOn

LEMMA HandOverGoesOn ==
  ASSUME TypeOK, Placed, NEW c \in calls, HandOver(c)
  PROVE  GoesOn
<1>1. c \in Call /\ c.shop \in Shops /\ "CATEGORY" \in Steps
  BY DEF TypeOK, Call, Steps
<1>2. Place("CATEGORY", c.shop) \in Way
  BY <1>1, PlaceIsWay
<1>3. Moved(Place("CATEGORY", c.shop), store, calls \ {c}, FALSE)
  BY <1>2, ReplaceIs, MoveMoves DEF HandOver, TypeOK
<1>4. slips' \in 0 .. MaxSlips /\ UNCHANGED <<server, shots>>
  BY SlipsIs DEF HandOver, counters
<1>5. calls \ {c} \subseteq calls /\ \A d \in calls \ (calls \ {c}) : d.kind = "handoff"
  BY DEF HandOver
<1> QED BY <1>3, <1>4, <1>5 DEF GoesOn

LEMMA NextVisitBegins ==
  ASSUME TypeOK, Placed, (\E s \in Shops : OpenShop(s) \/ NextShop(s)) \/ EndRoute
  PROVE  BeginsAnew
<1>1. ASSUME NEW s \in Shops, OpenShop(s) \/ NextShop(s) PROVE BeginsAnew
  <2>1. PICK p \in Way : p = Place("CHECKIN", s) /\ p.step = "CHECKIN" /\ p.shop = s
    BY PlaceIsWay DEF Steps
  <2>2. Fresh(s) \in Visit
    BY FreshIs
  <2>3. Moved(p, Fresh(s), calls, TRUE)
    BY <1>1, <2>1, <2>2, PushIs, ReplaceIs, MoveMoves DEF OpenShop, NextShop
  <2> QED BY <1>1, <2>1, <2>3 DEF BeginsAnew, OpenShop, NextShop
<1>2. CASE EndRoute
  <2>1. PICK p \in Way : p = Place("ROUTE", NoShop) /\ p.step = "ROUTE"
    BY PlaceIsWay DEF Steps
  <2>2. Fresh(NoShop) \in Visit
    BY FreshIs
  <2>3. Moved(p, Fresh(NoShop), calls, TRUE)
    BY <1>2, <2>1, <2>2, ReplaceIs, MoveMoves DEF EndRoute
  <2> QED BY <1>2, <2>1, <2>3 DEF BeginsAnew, EndRoute
<1> QED BY <1>1, <1>2

LEMMA ChooseShelfMoves ==
  ASSUME TypeOK, Placed, NEW x \in Shelves, ChooseShelf(x)
  PROVE  /\ [store EXCEPT !.shelf = x] \in Visit
         /\ Moved(Place("CAPTURE", Here.shop), [store EXCEPT !.shelf = x], calls, FALSE)
         /\ At("CATEGORY") /\ Place("CAPTURE", Here.shop).step = "CAPTURE"
         /\ UNCHANGED <<server, counters>>
<1>1. At("CATEGORY") /\ UNCHANGED <<server, counters>>
  BY DEF ChooseShelf
<1>2. Here.shop \in Shops
  BY <1>1, HereIs DEF At, Way
<1>3. [store EXCEPT !.shelf = x] \in Visit
  BY DEF TypeOK, Visit
<1>4. Place("CAPTURE", Here.shop) \in Way /\ Place("CAPTURE", Here.shop).step = "CAPTURE"
  BY <1>2, PlaceIsWay DEF Steps
<1>5. Moved(Place("CAPTURE", Here.shop), [store EXCEPT !.shelf = x], calls, FALSE)
  BY <1>3, <1>4, PushIs, MoveMoves DEF ChooseShelf
<1> QED BY <1>1, <1>3, <1>4, <1>5

LEMMA StagedIs ==
  ASSUME store \in Visit
  PROVE  /\ Staged(store) \in Visit
         /\ Staged(store).photo = (IF store.review = {StandIn} THEN store.photo ELSE store.review)
         /\ Staged(store).review = {} /\ Staged(store).analysis = {}
         /\ Staged(store).shop = store.shop /\ Staged(store).visit = store.visit
         /\ Staged(store).shelf = store.shelf /\ Staged(store).tasks = store.tasks
         /\ Staged(store).after = store.after /\ Staged(store).checkout = store.checkout
         /\ Staged(store).stamped = store.stamped
BY DEF Staged, Visit

LEMMA UsePhotoMoves ==
  ASSUME TypeOK, Placed, UsePhoto
  PROVE  /\ Moved(Place("PROCESSING", Here.shop), Staged(store), calls, FALSE)
         /\ At("CAPTURE") /\ store.visit # 0 /\ store.shelf # NoShelf /\ store.review # {}
         /\ Place("PROCESSING", Here.shop).step = "PROCESSING"
         /\ UNCHANGED <<server, counters>>
<1>1. /\ At("CAPTURE") /\ store.visit # 0 /\ store.shelf # NoShelf /\ store.review # {}
      /\ UNCHANGED <<server, counters>>
  BY DEF UsePhoto, CameraOpen, CanEnter
<1>2. Here.shop \in Shops
  BY <1>1, HereIs DEF At, Way
<1>3. Staged(store) \in Visit
  BY StagedIs DEF TypeOK
<1>4. Place("PROCESSING", Here.shop) \in Way /\ Place("PROCESSING", Here.shop).step = "PROCESSING"
  BY <1>2, PlaceIsWay DEF Steps
<1>5. Moved(Place("PROCESSING", Here.shop), Staged(store), calls, FALSE)
  BY <1>3, <1>4, ReplaceIs, MoveMoves DEF UsePhoto
<1> QED BY <1>1, <1>4, <1>5


LEMMA AnalysedMoves ==
  ASSUME TypeOK, Placed, Asked, NEW c \in calls, Analysed(c)
  PROVE  /\ c.kind = "analyse" /\ Sent(c) \in SUBSET Upload
         /\ \E gaps \in {"none", "pending"} :
              Moved(Place("RESULT", c.shop),
                    [store EXCEPT !.analysis = Sent(c), !.gaps = gaps], calls \ {c}, FALSE)
         /\ Place("RESULT", c.shop).step = "RESULT"
         /\ UNCHANGED <<server, counters>>
<1>1. c.kind = "analyse" /\ UNCHANGED <<server, counters>>
  BY DEF Analysed
<1>2. /\ c \in Call /\ c.visit \in Visits /\ c.shelf \in Shelves /\ c.photo \subseteq Photo
      /\ c.shop \in Shops
  BY <1>1, BoundsHold DEF Bounds, TypeOK, Call, Asked, Outside, Visits
<1>3. Sent(c) \in SUBSET Upload
  BY <1>2 DEF Sent, Upload
<1>4. Place("RESULT", c.shop) \in Way /\ Place("RESULT", c.shop).step = "RESULT"
  BY <1>2, PlaceIsWay DEF Steps
<1>5. PICK gaps \in {"none", "pending"} :
        Move(Replace(Place("RESULT", c.shop)),
             [store EXCEPT !.analysis = Sent(c), !.gaps = gaps], calls \ {c}, FALSE)
  BY DEF Analysed
<1>6. [store EXCEPT !.analysis = Sent(c), !.gaps = gaps] \in Visit
  BY <1>3 DEF TypeOK, Visit
<1>7. Moved(Place("RESULT", c.shop),
            [store EXCEPT !.analysis = Sent(c), !.gaps = gaps], calls \ {c}, FALSE)
  BY <1>4, <1>5, <1>6, ReplaceIs, MoveMoves
<1> QED BY <1>1, <1>3, <1>4, <1>7

\* The list the server has of a visit.
Listed(v) == IF v \in tasked THEN v ELSE 0

LEMMA TasksListedMoves ==
  ASSUME TypeOK, Placed, NEW c \in calls, TasksListed(c)
  PROVE  /\ c.kind \in {"tasks", "list"} /\ UNCHANGED <<server, counters>>
         /\ [store EXCEPT !.tasks = Listed(c.visit)] \in Visit
         /\ \/ /\ c.kind = "tasks" /\ Place("TASKS", c.shop).step = "TASKS"
               /\ Moved(Place("TASKS", c.shop), [store EXCEPT !.tasks = Listed(c.visit)],
                        calls \ {c}, FALSE)
            \/ /\ c.kind = "list" /\ calls' = calls \ {c}
               /\ store' = [store EXCEPT !.tasks = Listed(c.visit)]
               /\ UNCHANGED <<trail, screen, polls, abandoned, carried>>
<1>1. c.kind \in {"tasks", "list"} /\ UNCHANGED <<server, counters>>
  BY DEF TasksListed
<1>2. c.shop \in Shops
  BY DEF TypeOK, Call
<1>3. Listed(c.visit) \in 0 .. MaxVisits
  BY BoundsHold DEF Bounds, Listed, TypeOK
<1>4. PICK now : now = [store EXCEPT !.tasks = Listed(c.visit)]
  OBVIOUS
<1>5. now \in Visit
  BY <1>3, <1>4 DEF TypeOK, Visit
<1>6. IF c.kind = "tasks" THEN Move(Push(Place("TASKS", c.shop)), now, calls \ {c}, FALSE)
      ELSE store' = now /\ calls' = calls \ {c} /\ Stay
  BY <1>4 DEF TasksListed, Listed
<1>7. CASE c.kind = "tasks"
  <2>1. Place("TASKS", c.shop) \in Way /\ Place("TASKS", c.shop).step = "TASKS"
    BY <1>2, PlaceIsWay DEF Steps
  <2>2. Moved(Place("TASKS", c.shop), now, calls \ {c}, FALSE)
    BY <1>5, <1>6, <1>7, <2>1, PushIs, MoveMoves
  <2> QED BY <1>1, <1>4, <1>5, <1>7, <2>1, <2>2
<1>8. CASE c.kind = "list"
  BY <1>1, <1>4, <1>5, <1>6, <1>8 DEF Stay
<1> QED BY <1>1, <1>7, <1>8

-----------------------------------------------------------------------------
(* Types.                                                                   *)

Typed == TypeOK /\ Placed /\ Asked

CallOK(c) == /\ Known(c.visit)
             /\ c.kind \notin Outside => c.visit # 0
             /\ c.kind = "analyse" => c.shelf # NoShelf
StoreOK(st) == /\ st \in Visit /\ Known(st.visit) /\ Known(st.tasks) /\ Known(st.after)
               /\ \A a \in st.analysis : Known(a.visit)

LEMMA StoreParts ==
  ASSUME Typed
  PROVE  StoreOK(store) /\ \A c \in calls : CallOK(c) /\ c \in Call
BY DEF Typed, TypeOK, Asked, StoreOK, CallOK, Known, Visit

LEMMA LenOpened ==
  ASSUME TypeOK
  PROVE  /\ Len(opened) \in Nat /\ Len(opened) <= MaxVisits /\ DOMAIN opened = 1 .. Len(opened)
         /\ opened \in Seq(Shops)
BY DEF TypeOK

LEMMA PrimedParts ==
  ASSUME TypeOK, StoreOK(store'), opened' = opened
  PROVE  /\ store' \in Visit
         /\ {store'.visit, store'.tasks, store'.after} \subseteq 0 .. Len(opened')
         /\ \A a \in store'.analysis : Known(a.visit)'
BY LenOpened DEF StoreOK, Known, Visit

LEMMA MovedTyped ==
  ASSUME Typed, NEW p, NEW st, NEW cs, NEW wiped, Moved(p, st, cs, wiped), StoreOK(st),
         slips' \in 0 .. MaxSlips, UNCHANGED <<server, shots>>
  PROVE  Typed'
<1>1. TypeOK /\ p \in Way /\ st \in Visit /\ cs \subseteq calls /\ store' = Arriving(p, st)
  BY DEF Typed, Moved
<1>2. /\ store' \in Visit /\ calls' \subseteq Call
      /\ \A d \in calls' : (\E c \in cs : Alike(c, d)) \/ StartedBy(p, store', cs, d)
  BY <1>1, MovedIs
<1>3. StoreOK(store')
  <2>1. CASE Begins(p, st)
    <3>1. p.shop \in Shops \cup {NoShop}
      BY <1>1 DEF Way
    <3>2. PICK s : s = p.shop
      OBVIOUS
    <3>3. store' = Fresh(s) /\ s \in Shops \cup {NoShop}
      BY <1>1, <2>1, <3>1, <3>2 DEF Arriving
    <3>4. 0 <= Len(opened)
      BY <1>1, LenOpened
    <3> QED BY <3>3, <3>4, FreshIs DEF StoreOK, Known
  <2>2. CASE ~Begins(p, st)
    BY <1>1, <2>2 DEF Arriving
  <2> QED BY <2>1, <2>2
<1>4. UNCHANGED <<opened, settled, tasked, reading>>
  BY DEF server
<1>5. ASSUME NEW d \in calls' PROVE CallOK(d)'
  <2>1. CASE \E c \in cs : Alike(c, d)
    BY <1>1, <1>4, <2>1, StoreParts DEF CallOK, Alike, Known
  <2>2. CASE StartedBy(p, store', cs, d)
    BY <1>3, <1>4, <2>2, AskVisit DEF StartedBy, CallOK, StoreOK, Known
  <2> QED BY <1>2, <2>1, <2>2
<1>6. screen' \in {"idle", "working", "queued", "failed", "closing", "waiting", "asking", "done"}
  BY DEF Moved, FirstScreen
<1>7. polls' \in 0 .. MaxPolls
  BY BoundsHold DEF Bounds, Moved
<1>8. abandoned' \subseteq Kinds \cup {"refresh"}
  <2>1. KindsOf(cs) \subseteq Kinds
    BY <1>1 DEF KindsOf, TypeOK, Call
  <2>2. abandoned' \subseteq abandoned \cup KindsOf(cs)
    BY DEF Moved
  <2> QED BY <1>1, <2>1, <2>2 DEF TypeOK
<1>9. carried' \subseteq 0 .. MaxShots
  <2>1. Undecided(st, cs) \subseteq Photo
    <3>1. st.review \subseteq Photo /\ st.photo \subseteq Photo
      BY <1>1 DEF Visit
    <3>2. \A c \in cs : c.photo \subseteq Photo
      BY <1>1 DEF TypeOK, Call
    <3> QED BY <3>1, <3>2, UndecidedIs
  <2>2. carried' \subseteq carried \cup {x.n : x \in Undecided(st, cs) \cup st.photo}
    BY DEF Moved
  <2>3. \A x \in Photo : x.n \in 0 .. MaxShots
    BY DEF Photo
  <2>4. st.photo \subseteq Photo
    BY <1>1 DEF Visit
  <2> QED BY <1>1, <2>1, <2>2, <2>3, <2>4 DEF TypeOK
<1>10. trail' \in Seq(Way) /\ trail' # <<>>
  BY DEF Moved
<1>11. trail' \in Seq([step : Steps, shop : Shops \cup {NoShop}])
  <2>1. Way \subseteq [step : Steps, shop : Shops \cup {NoShop}]
    BY DEF Way
  <2> QED BY <1>10, <2>1, SeqMonotonic
<1>12. TypeOK'
  BY <1>1, <1>2, <1>3, <1>4, <1>6, <1>7, <1>8, <1>9, <1>10, <1>11, PrimedParts DEF TypeOK
<1>13. Asked'
  BY <1>1, <1>3, <1>4, <1>5, PrimedParts DEF Asked, CallOK
<1> QED BY <1>10, <1>12, <1>13 DEF Typed, Placed

Looks == {"idle", "working", "queued", "failed", "closing", "waiting", "asking", "done"}

LEMMA StaysTyped ==
  ASSUME Typed, UNCHANGED <<trail, opened, carried>>, StoreOK(store'),
         \A d \in calls' : d \in Call /\ CallOK(d),
         screen' \in Looks, polls' \in 0 .. MaxPolls, abandoned' \subseteq Kinds \cup {"refresh"},
         settled' \cup tasked' \cup reading' \subseteq DOMAIN opened,
         shots' \in 0 .. MaxShots, slips' \in 0 .. MaxSlips
  PROVE  Typed'
<1>1. /\ store' \in Visit
      /\ {store'.visit, store'.tasks, store'.after} \subseteq 0 .. Len(opened')
      /\ \A a \in store'.analysis : Known(a.visit)'
  BY PrimedParts DEF Typed
<1>2. \A d \in calls' : CallOK(d)'
  BY DEF CallOK, Known
<1>3. TypeOK'
  BY <1>1 DEF Typed, TypeOK, Looks
<1>4. Asked' /\ Placed'
  BY <1>1, <1>2 DEF Asked, CallOK, Typed, Placed
<1> QED BY <1>3, <1>4 DEF Typed

\* The most common case: the history, the server and the counters are as they were.
Quiet == /\ UNCHANGED <<trail, opened, settled, tasked, reading, carried, shots>>
         /\ screen' \in Looks /\ polls' \in 0 .. MaxPolls
         /\ abandoned' \subseteq Kinds \cup {"refresh"}
         /\ slips' \in 0 .. MaxSlips

LEMMA QuietTyped ==
  ASSUME Typed, Quiet, StoreOK(store'), \A d \in calls' : d \in Call /\ CallOK(d)
  PROVE  Typed'
<1>1. /\ settled' \cup tasked' \cup reading' \subseteq DOMAIN opened
      /\ shots' \in 0 .. MaxShots
  BY DEF Quiet, Typed, TypeOK
<1> QED BY <1>1, StaysTyped DEF Quiet

LEMMA StayIsQuiet ==
  ASSUME Typed, UNCHANGED <<trail, screen, polls, abandoned, carried, server, shots>>,
         Slips \/ slips' = slips
  PROVE  Quiet
BY SlipsIs DEF Quiet, Typed, TypeOK, Looks, server

LEMMA AskOK ==
  ASSUME Typed, NEW kind \in Kinds, NEW s \in Shops, NEW photo \in SUBSET Photo,
         kind \notin Outside => store.visit # 0, kind = "analyse" => store.shelf # NoShelf
  PROVE  Ask(kind, s, store, photo) \in Call /\ CallOK(Ask(kind, s, store, photo))
BY StoreParts, AskIs DEF StoreOK, CallOK

LEMMA StartedOK ==
  ASSUME Typed
  PROVE  \A d \in Started(Here, store, calls) : d \in Call /\ CallOK(d)
<1>1. Here \in Way /\ store \in Visit /\ calls \subseteq Call
  BY HereIs DEF Typed, TypeOK
<1>2. SUFFICES ASSUME NEW d \in Started(Here, store, calls) PROVE d \in Call /\ CallOK(d)
  OBVIOUS
<1>3. d \in Call /\ ((\E c \in calls : Alike(c, d)) \/ StartedBy(Here, store, calls, d))
  BY <1>1, StartedIs
<1>4. CASE \E c \in calls : Alike(c, d)
  BY <1>3, <1>4, StoreParts DEF CallOK, Alike
<1>5. CASE StartedBy(Here, store, calls, d)
  BY <1>3, <1>5, StoreParts, AskVisit DEF StartedBy, CallOK, StoreOK
<1> QED BY <1>3, <1>4, <1>5

LEMMA CallsEndTyped ==
  ASSUME Typed, Quiet, store' = store, calls' \subseteq calls
  PROVE  Typed'
BY StoreParts, QuietTyped

\* The screens.
LEMMA ScreensTyped ==
  ASSUME Typed, \/ Consent \/ StartCheckIn \/ Shoot \/ ShootWithoutCamera \/ Retake
                \/ RetryAnalysis \/ DecideGaps \/ (GoTasks /\ store.visit # 0)
                \/ ShootAfter \/ ShootAfterWithoutCamera \/ AskAgain \/ GiveUp \/ RetryClose
  PROVE  Typed'
<1>0. /\ TypeOK /\ store \in Visit /\ StoreOK(store) /\ \A c \in calls : c \in Call /\ CallOK(c)
      /\ Here \in Way /\ (Here.step # "ROUTE" => Here.shop \in Shops)
  BY StoreParts, HereIs DEF Typed, TypeOK, Way
<1>1. CASE Consent
  <2>1. store' = [store EXCEPT !.consent = ~store.consent] /\ calls' = calls
    BY <1>1 DEF Consent
  <2>2. StoreOK(store')
    BY <1>0, <2>1 DEF StoreOK, Visit
  <2>3. Quiet
    BY <1>1, StayIsQuiet DEF Consent, Stay, counters
  <2> QED BY <1>0, <2>1, <2>2, <2>3, QuietTyped
<1>2. CASE StartCheckIn
  <2>1. Here.shop \in Shops /\ "checkin" \in Kinds /\ "checkin" \in Outside /\ {} \in SUBSET Photo
    BY <1>0, <1>2 DEF StartCheckIn, At, Kinds, Outside
  <2>2. PICK a : a = Ask("checkin", Here.shop, store, {})
    OBVIOUS
  <2>3. a \in Call /\ CallOK(a)
    BY <2>1, <2>2, AskOK
  <2>4. calls' = calls \cup {a} /\ store' = store
    BY <1>2, <2>2 DEF StartCheckIn
  <2>5. abandoned' \subseteq Kinds \cup {"refresh"}
    BY <1>0, <1>2, <2>1 DEF StartCheckIn, TypeOK
  <2>6. Quiet
    BY <1>0, <1>2, <2>5 DEF Quiet, StartCheckIn, counters, server, TypeOK, Looks
  <2> QED BY <1>0, <2>3, <2>4, <2>6, QuietTyped
<1>3. CASE Shoot
  <2>1. PICK x : x = [n |-> shots + 1, visit |-> store.visit, shelf |-> store.shelf]
    OBVIOUS
  <2>2. shots + 1 \in 0 .. MaxShots /\ shots' = shots + 1
    BY <1>0, <1>3, BoundsHold DEF Shoot, TypeOK, Bounds
  <2>3. {x} \in SUBSET Photo
    BY <1>0, <2>1, <2>2 DEF Visit, Photo
  <2>4. Here.shop \in Shops /\ "intake" \in Kinds /\ store.visit # 0
    BY <1>0, <1>3 DEF Shoot, CameraOpen, CanEnter, At, Kinds
  <2>5. PICK a : a = Ask("intake", Here.shop, store, {x})
    OBVIOUS
  <2>6. a \in Call /\ CallOK(a)
    BY <2>3, <2>4, <2>5, AskOK
  <2>7. calls' = calls \cup {a} /\ store' = store
    BY <1>3, <2>1, <2>5 DEF Shoot
  <2>8. /\ UNCHANGED <<trail, opened, carried>> /\ screen' \in Looks /\ polls' \in 0 .. MaxPolls
        /\ abandoned' \subseteq Kinds \cup {"refresh"}
        /\ settled' \cup tasked' \cup reading' \subseteq DOMAIN opened /\ slips' \in 0 .. MaxSlips
    BY <1>0, <1>3 DEF Shoot, Stay, server, TypeOK, Looks
  <2> QED BY <1>0, <2>2, <2>6, <2>7, <2>8, StaysTyped
<1>4. CASE ShootWithoutCamera
  <2>1. store' = [store EXCEPT !.review = {StandIn}] /\ calls' = calls
    BY <1>4 DEF ShootWithoutCamera
  <2>2. StandIn \in Photo
    BY BoundsHold DEF StandIn, Photo, Bounds
  <2>3. StoreOK(store')
    BY <1>0, <2>1, <2>2 DEF StoreOK, Visit
  <2>4. shots' \in 0 .. MaxShots
    BY <1>0, <1>4, BoundsHold DEF ShootWithoutCamera, TypeOK, Bounds
  <2>5. /\ UNCHANGED <<trail, opened, carried>> /\ screen' \in Looks /\ polls' \in 0 .. MaxPolls
        /\ abandoned' \subseteq Kinds \cup {"refresh"}
        /\ settled' \cup tasked' \cup reading' \subseteq DOMAIN opened /\ slips' \in 0 .. MaxSlips
    BY <1>0, <1>4 DEF ShootWithoutCamera, Stay, server, TypeOK, Looks
  <2> QED BY <1>0, <2>1, <2>3, <2>4, <2>5, StaysTyped
<1>5. CASE Retake
  <2>1. store' = [store EXCEPT !.review = {}] /\ calls' = calls
    BY <1>5 DEF Retake
  <2>2. StoreOK(store')
    BY <1>0, <2>1 DEF StoreOK, Visit
  <2>3. Quiet
    BY <1>5, StayIsQuiet DEF Retake, Stay, counters
  <2> QED BY <1>0, <2>1, <2>2, <2>3, QuietTyped
<1>6. CASE RetryAnalysis
  <2>1. store' = store /\ calls' = Started(Here, store, calls)
    BY <1>6 DEF RetryAnalysis
  <2>2. Quiet
    BY <1>0, <1>6 DEF RetryAnalysis, Quiet, server, counters, TypeOK, Looks
  <2> QED BY <1>0, <2>1, <2>2, StartedOK, QuietTyped
<1>7. CASE DecideGaps
  <2>1. store' = [store EXCEPT !.gaps = "decided"] /\ calls' = calls
    BY <1>7 DEF DecideGaps
  <2>2. StoreOK(store')
    BY <1>0, <2>1 DEF StoreOK, Visit
  <2>3. \A a \in store.analysis : a.visit \in DOMAIN opened
    BY <1>0, LenOpened, BoundsHold DEF StoreOK, Visit, Upload, Visits, Known, Bounds
  <2>4. settled' \cup tasked' \cup reading' \subseteq DOMAIN opened
    BY <1>0, <1>7, <2>3 DEF DecideGaps, TypeOK
  <2>5. /\ UNCHANGED <<trail, opened, carried>> /\ screen' \in Looks /\ polls' \in 0 .. MaxPolls
        /\ abandoned' \subseteq Kinds \cup {"refresh"}
        /\ shots' \in 0 .. MaxShots /\ slips' \in 0 .. MaxSlips
    BY <1>0, <1>7 DEF DecideGaps, Stay, counters, TypeOK, Looks
  <2> QED BY <1>0, <2>1, <2>2, <2>4, <2>5, StaysTyped
<1>8. CASE GoTasks /\ store.visit # 0
  <2>1. Here.shop \in Shops /\ "tasks" \in Kinds /\ {} \in SUBSET Photo
    BY <1>0, <1>8 DEF GoTasks, At, Kinds
  <2>2. PICK a : a = Ask("tasks", Here.shop, store, {})
    OBVIOUS
  <2>3. a \in Call /\ CallOK(a)
    BY <1>8, <2>1, <2>2, AskOK
  <2>4. calls' = calls \cup {a} /\ store' = store
    BY <1>8, <2>2 DEF GoTasks
  <2>5. Quiet
    BY <1>8, StayIsQuiet DEF GoTasks, Stay, counters
  <2> QED BY <1>0, <2>3, <2>4, <2>5, QuietTyped
<1>9. CASE ShootAfter
  <2>1. Here.shop \in Shops /\ "after" \in Kinds /\ {} \in SUBSET Photo /\ store.visit # 0
    BY <1>0, <1>9 DEF ShootAfter, At, CanEnter, Kinds
  <2>2. PICK a : a = Ask("after", Here.shop, store, {})
    OBVIOUS
  <2>3. a \in Call /\ CallOK(a)
    BY <2>1, <2>2, AskOK
  <2>4. calls' = calls \cup {a} /\ store' = store
    BY <1>9, <2>2 DEF ShootAfter
  <2>5. Quiet
    BY <1>9, StayIsQuiet DEF ShootAfter, Stay, counters
  <2> QED BY <1>0, <2>3, <2>4, <2>5, QuietTyped
<1>10. CASE ShootAfterWithoutCamera
  <2>1. store' = [store EXCEPT !.after = store.visit] /\ calls' = calls
    BY <1>10 DEF ShootAfterWithoutCamera
  <2>2. StoreOK(store')
    BY <1>0, <2>1 DEF StoreOK, Visit
  <2>3. Quiet
    BY <1>10, StayIsQuiet DEF ShootAfterWithoutCamera, Stay, counters
  <2> QED BY <1>0, <2>1, <2>2, <2>3, QuietTyped
<1>11. CASE AskAgain
  <2>1. store' = store /\ calls' = Closing(calls, store, Here.shop) /\ Here.shop \in Shops
        /\ store.visit # 0
    BY <1>0, <1>11 DEF AskAgain, At
  <2>2. polls' \in 0 .. MaxPolls
    BY <1>0, <1>11, BoundsHold DEF AskAgain, TypeOK, Bounds
  <2>3. Quiet
    BY <1>0, <1>11, <2>2, SlipsIs DEF AskAgain, Quiet, server, counters, TypeOK, Looks
  <2>4. ASSUME NEW d \in calls' PROVE d \in Call /\ CallOK(d)
    <3>1. d \in Call /\ ((\E c \in calls : Alike(c, d)) \/ d = Ask("close", Here.shop, store, {}))
      BY <1>0, <2>1, ClosingIs
    <3> QED BY <1>0, <2>1, <3>1, AskVisit DEF CallOK, StoreOK, Alike
  <2> QED BY <1>0, <2>1, <2>3, <2>4, QuietTyped
<1>12. CASE GiveUp
  <2>1. Quiet
    BY <1>0, <1>12 DEF GiveUp, Quiet, server, counters, TypeOK, Looks
  <2> QED BY <1>12, <2>1, CallsEndTyped DEF GiveUp
<1>13. CASE RetryClose
  <2>1. store' = store /\ calls' = Started(Here, store, calls)
    BY <1>13 DEF RetryClose
  <2>2. screen' \in Looks
    BY <1>13 DEF RetryClose, FirstScreen, Looks
  <2>3. Quiet
    BY <1>0, <1>13, <2>2 DEF RetryClose, Quiet, server, counters, TypeOK
  <2> QED BY <1>0, <2>1, <2>3, StartedOK, QuietTyped
<1> QED BY <1>1, <1>2, <1>3, <1>4, <1>5, <1>6, <1>7, <1>8, <1>9, <1>10, <1>11, <1>12, <1>13

\* The answers.
LEMMA CheckInTyped ==
  ASSUME Typed, NEW c \in calls, CheckedIn(c) \/ CheckInFails(c)
  PROVE  Typed'
<1>0. /\ TypeOK /\ store \in Visit /\ StoreOK(store) /\ \A d \in calls : d \in Call /\ CallOK(d)
      /\ c.shop \in Shops
  BY StoreParts DEF Typed, TypeOK, Call
<1>1. /\ opened \in Seq(Shops) /\ Len(opened) \in Nat /\ DOMAIN opened = 1 .. Len(opened)
      /\ Len(opened) <= MaxVisits /\ MaxVisits \in Nat
  BY <1>0, LenOpened, BoundsHold DEF Bounds
<1>2. ASSUME Len(opened) < MaxVisits, opened' = Append(opened, c.shop)
      PROVE  /\ opened' \in Seq(Shops) /\ Len(opened') = Len(opened) + 1 /\ Len(opened') <= MaxVisits
             /\ DOMAIN opened \subseteq DOMAIN opened'
  BY <1>0, <1>1, <1>2, AppendProperties
<1>3. ASSUME opened' = opened \/ (Len(opened) < MaxVisits /\ opened' = Append(opened, c.shop)),
             store' \in Visit, store'.visit <= Len(opened'), store'.tasks = store.tasks,
             store'.after = store.after, store'.analysis = store.analysis,
             \A d \in calls' : d \in Call /\ CallOK(d),
             UNCHANGED <<settled, tasked, reading>>,
             UNCHANGED <<trail, screen, polls, abandoned, carried, shots>>,
             slips' \in 0 .. MaxSlips
      PROVE  Typed'
  <2>1. /\ opened' \in Seq(Shops) /\ Len(opened') <= MaxVisits /\ Len(opened) <= Len(opened')
        /\ DOMAIN opened \subseteq DOMAIN opened' /\ Len(opened') \in Nat
    BY <1>1, <1>2, <1>3
  <2>2. {store'.visit, store'.tasks, store'.after} \subseteq 0 .. Len(opened')
    BY <1>0, <1>1, <1>3, <2>1 DEF StoreOK, Known, Visit
  <2>3. \A a \in store'.analysis : Known(a.visit)'
    <3>1. \A a \in store.analysis : a.visit \in Nat
      BY <1>0 DEF Visit, Upload, Visits
    <3> QED BY <1>0, <1>1, <1>3, <2>1, <3>1 DEF StoreOK, Known
  <2>4. \A d \in calls' : CallOK(d)'
    <3>1. \A d \in calls' : d.visit \in Nat
      BY <1>3 DEF Call
    <3> QED BY <1>1, <1>3, <2>1, <3>1 DEF CallOK, Known
  <2>5. TypeOK'
    BY <1>0, <1>3, <2>1, <2>2 DEF TypeOK
  <2>6. Asked' /\ Placed'
    BY <1>3, <2>3, <2>4 DEF Asked, CallOK, Typed, Placed
  <2> QED BY <2>5, <2>6 DEF Typed
<1>4. CASE CheckedIn(c)
  <2>1. PICK v : v = Len(opened) + 1
    OBVIOUS
  <2>2. v \in 0 .. MaxVisits /\ opened' = Append(opened, c.shop) /\ Len(opened') = v
    BY <1>1, <1>2, <1>4, <2>1 DEF CheckedIn
  <2>3. /\ store' \in Visit /\ store'.visit = v /\ store'.tasks = store.tasks
        /\ store'.after = store.after /\ store'.analysis = store.analysis
    BY <1>0, <1>4, <2>1, <2>2 DEF CheckedIn, Visit
  <2>4. PICK d : d = [c EXCEPT !.kind = "handoff"]
    OBVIOUS
  <2>5. d \in Call /\ CallOK(d)
    BY <1>0, <2>4 DEF Call, CallOK, Kinds, Outside
  <2>6. calls' = (calls \ {c}) \cup {d}
    BY <1>4, <2>4 DEF CheckedIn
  <2>7. UNCHANGED <<trail, screen, polls, abandoned, carried, settled, tasked, reading, shots>>
    BY <1>4 DEF CheckedIn, Stay, counters
  <2>8. slips' \in 0 .. MaxSlips /\ store'.visit <= Len(opened')
    BY <1>0, <1>4, <2>1, <2>2, <2>3, <1>1, SlipsIs DEF CheckedIn, counters, Known
  <2> QED BY <1>0, <1>3, <1>4, <2>2, <2>3, <2>5, <2>6, <2>7, <2>8 DEF CheckedIn
<1>5. CASE CheckInFails(c)
  <2>1. /\ store' = store /\ calls' \subseteq calls
        /\ UNCHANGED <<trail, screen, polls, abandoned, carried, settled, tasked, reading, shots>>
    BY <1>5 DEF CheckInFails, Stay
  <2>2. opened' = opened \/ (Len(opened) < MaxVisits /\ opened' = Append(opened, c.shop))
    BY <1>5 DEF CheckInFails
  <2>3. slips' \in 0 .. MaxSlips
    BY <1>0, <1>5, SlipsIs DEF CheckInFails
  <2>4. store'.visit <= Len(opened')
    BY <1>0, <1>1, <1>2, <2>1, <2>2 DEF StoreOK, Known, Visit
  <2> QED BY <1>0, <1>3, <2>1, <2>2, <2>3, <2>4
<1> QED BY <1>4, <1>5

LEMMA AnswersTyped ==
  ASSUME Typed, NEW c \in calls,
         \/ Taken(c) \/ IntakeFails(c) \/ AnalysisFails(c) \/ TasksFail(c)
         \/ (TasksListed(c) /\ c.kind = "list")
         \/ TakenAfter(c) \/ AfterUploaded(c) \/ AfterSeen(c) \/ AfterFails(c)
         \/ CloseServed(c) \/ CloseAnswered(c) \/ CloseFails(c)
  PROVE  Typed'
<1>0. /\ TypeOK /\ Placed /\ store \in Visit /\ StoreOK(store)
      /\ (\A d \in calls : d \in Call /\ CallOK(d)) /\ c \in Call /\ CallOK(c)
  BY StoreParts DEF Typed, TypeOK
<1>1. /\ Len(opened) \in Nat /\ DOMAIN opened = 1 .. Len(opened)
      /\ Len(opened) <= MaxVisits /\ MaxVisits \in Nat
  BY <1>0, LenOpened, BoundsHold DEF Bounds
<1>2. ASSUME c.kind \notin Outside PROVE c.visit \in Visits /\ c.visit \in DOMAIN opened
  BY <1>0, <1>1, <1>2 DEF CallOK, Call, Known, Visits
<1>3. CASE Taken(c)
  <2>1. store' = [store EXCEPT !.review = c.photo] /\ calls' \subseteq calls
    BY <1>3 DEF Taken
  <2>2. StoreOK(store')
    BY <1>0, <2>1 DEF StoreOK, Visit, Call
  <2>3. Quiet
    BY <1>3, StayIsQuiet DEF Taken, Stay, counters
  <2> QED BY <1>0, <2>1, <2>2, <2>3, QuietTyped
<1>4. CASE IntakeFails(c)
  BY <1>4, StayIsQuiet, CallsEndTyped DEF IntakeFails, Stay
<1>5. CASE AnalysisFails(c)
  <2>1. Quiet
    BY <1>0, <1>5, SlipsIs DEF AnalysisFails, Quiet, server, TypeOK, Looks
  <2> QED BY <1>5, <2>1, CallsEndTyped DEF AnalysisFails
<1>6. CASE TasksFail(c)
  BY <1>6, StayIsQuiet, CallsEndTyped DEF TasksFail, Stay
<1>7. CASE TasksListed(c) /\ c.kind = "list"
  <2>1. /\ store' = [store EXCEPT !.tasks = Listed(c.visit)] /\ calls' \subseteq calls
        /\ UNCHANGED <<trail, screen, polls, abandoned, carried, server, counters>>
        /\ store' \in Visit
    BY <1>0, <1>7, TasksListedMoves
  <2>2. Known(Listed(c.visit))
    BY <1>0, <1>1 DEF Listed, Known, TypeOK
  <2>3. StoreOK(store')
    BY <1>0, <2>1, <2>2 DEF StoreOK, Visit
  <2>4. Quiet
    BY <2>1, StayIsQuiet DEF counters
  <2> QED BY <1>0, <2>1, <2>3, <2>4, QuietTyped
<1>8. CASE TakenAfter(c)
  <2>1. c.visit \in Visits /\ c.visit \in 0 .. MaxVisits /\ c.kind = "after"
    BY <1>0, <1>2, <1>8 DEF TakenAfter, Outside, Call
  <2>2. store' = [store EXCEPT !.after = c.visit]
    BY <1>8 DEF TakenAfter
  <2>3. StoreOK(store')
    BY <1>0, <2>1, <2>2 DEF StoreOK, Visit, CallOK
  <2>4. PICK d : d = [c EXCEPT !.kind = "upload"]
    OBVIOUS
  <2>5. d \in Call /\ CallOK(d)
    BY <1>0, <2>1, <2>4 DEF Call, CallOK, Kinds, Outside
  <2>6. calls' \subseteq calls \cup {d}
    BY <1>8, <2>4 DEF TakenAfter
  <2>7. Quiet
    BY <1>8, StayIsQuiet DEF TakenAfter, Stay, counters
  <2> QED BY <1>0, <2>3, <2>5, <2>6, <2>7, QuietTyped
<1>9. ASSUME NEW d, d \in {[c EXCEPT !.stage = "served"],
                           [c EXCEPT !.stage = "served", !.pending = c.visit \in reading]}
      PROVE  d \in Call /\ CallOK(d)
  <2>1. (c.visit \in reading) \in BOOLEAN
    OBVIOUS
  <2> QED BY <1>0, <1>9, <2>1 DEF Call, CallOK
<1>10. CASE AfterUploaded(c)
  <2>1. c.visit \in DOMAIN opened
    BY <1>2, <1>10 DEF AfterUploaded, Outside
  <2>2. calls' \subseteq calls \cup {[c EXCEPT !.stage = "served"]} /\ store' = store
    BY <1>10 DEF AfterUploaded
  <2>3. settled' \cup tasked' \cup reading' \subseteq DOMAIN opened
    BY <1>0, <1>10, <2>1 DEF AfterUploaded, TypeOK
  <2>4. /\ UNCHANGED <<trail, opened, carried>> /\ screen' \in Looks /\ polls' \in 0 .. MaxPolls
        /\ abandoned' \subseteq Kinds \cup {"refresh"}
        /\ shots' \in 0 .. MaxShots /\ slips' \in 0 .. MaxSlips
    BY <1>0, <1>10 DEF AfterUploaded, Stay, counters, TypeOK, Looks
  <2> QED BY <1>0, <1>9, <2>2, <2>3, <2>4, StaysTyped
<1>11. CASE AfterSeen(c)
  BY <1>11, StayIsQuiet, CallsEndTyped DEF AfterSeen, Stay, counters
<1>12. CASE AfterFails(c)
  BY <1>12, StayIsQuiet, CallsEndTyped DEF AfterFails, Stay
<1>13. CASE CloseServed(c)
  <2>1. c.visit \in DOMAIN opened
    BY <1>2, <1>13 DEF CloseServed, Outside
  <2>2. /\ calls' \subseteq calls \cup {[c EXCEPT !.stage = "served", !.pending = c.visit \in reading]}
        /\ store' = store
    BY <1>13 DEF CloseServed
  <2>3. settled' \cup tasked' \cup reading' \subseteq DOMAIN opened
    BY <1>0, <1>13, <2>1 DEF CloseServed, TypeOK
  <2>4. /\ UNCHANGED <<trail, opened, carried>> /\ screen' \in Looks /\ polls' \in 0 .. MaxPolls
        /\ abandoned' \subseteq Kinds \cup {"refresh"}
        /\ shots' \in 0 .. MaxShots /\ slips' \in 0 .. MaxSlips
    BY <1>0, <1>13 DEF CloseServed, Stay, counters, TypeOK, Looks
  <2> QED BY <1>0, <1>9, <2>2, <2>3, <2>4, StaysTyped
<1>14. CASE CloseAnswered(c)
  <2>1. PICK x : x = [visit |-> c.visit, pending |-> c.pending]
    OBVIOUS
  <2>2. x \in Summary
    BY <1>0, <1>2, <1>14, <2>1 DEF CloseAnswered, Outside, Summary, Call
  <2>3. store' = [store EXCEPT !.checkout = {x}, !.stamped = TRUE] /\ calls' \subseteq calls
    BY <1>14, <2>1 DEF CloseAnswered
  <2>4. StoreOK(store')
    BY <1>0, <2>2, <2>3 DEF StoreOK, Visit
  <2>5. Quiet
    BY <1>0, <1>14, SlipsIs DEF CloseAnswered, Quiet, server, counters, TypeOK, Looks
  <2> QED BY <1>0, <2>3, <2>4, <2>5, QuietTyped
<1>15. CASE CloseFails(c)
  <2>1. c.visit \in DOMAIN opened
    BY <1>2, <1>15 DEF CloseFails, Outside
  <2>2. calls' \subseteq calls /\ (store' = store \/ store' = [store EXCEPT !.stamped = TRUE])
    BY <1>15 DEF CloseFails
  <2>3. StoreOK(store')
    BY <1>0, <2>2 DEF StoreOK, Visit
  <2>4. settled' \cup tasked' \cup reading' \subseteq DOMAIN opened
    BY <1>0, <1>15, <2>1 DEF CloseFails, TypeOK
  <2>5. screen' \in Looks
    BY <1>0, <1>15 DEF CloseFails, TypeOK, Looks
  <2>6. /\ UNCHANGED <<trail, opened, carried>> /\ polls' \in 0 .. MaxPolls
        /\ abandoned' \subseteq Kinds \cup {"refresh"}
        /\ shots' \in 0 .. MaxShots /\ slips' \in 0 .. MaxSlips
    BY <1>0, <1>15, SlipsIs DEF CloseFails, TypeOK
  <2> QED BY <1>0, <2>2, <2>3, <2>4, <2>5, <2>6, StaysTyped
<1> QED BY <1>3, <1>4, <1>5, <1>6, <1>7, <1>8, <1>10, <1>11, <1>12, <1>13, <1>14, <1>15

LEMMA AfterReadTyped ==
  ASSUME Typed, NEW v \in reading, AfterRead(v)
  PROVE  Typed'
<1>1. settled' \cup tasked' \cup reading' \subseteq DOMAIN opened
  BY DEF Typed, AfterRead, TypeOK
<1>2. /\ UNCHANGED <<trail, opened, carried, store, calls>> /\ screen' \in Looks
      /\ polls' \in 0 .. MaxPolls /\ abandoned' \subseteq Kinds \cup {"refresh"}
      /\ shots' \in 0 .. MaxShots /\ slips' \in 0 .. MaxSlips
  BY DEF Typed, AfterRead, Stay, counters, TypeOK, Looks
<1> QED BY <1>1, <1>2, StoreParts, StaysTyped


\* The steps that move.
LEMMA GoesOnTyped ==
  ASSUME Typed, GoesOn
  PROVE  Typed'
<1>1. PICK p, cs : Moved(p, store, cs, FALSE)
  BY DEF GoesOn
<1>2. StoreOK(store) /\ slips' \in 0 .. MaxSlips /\ UNCHANGED <<server, shots>>
  BY StoreParts DEF GoesOn
<1> QED BY <1>1, <1>2, MovedTyped

LEMMA FreshOK ==
  ASSUME TypeOK, NEW s \in Shops \cup {NoShop}
  PROVE  StoreOK(Fresh(s))
<1>1. Len(opened) \in Nat
  BY LenOpened
<1>2. /\ Fresh(s) \in Visit /\ Fresh(s).visit = 0 /\ Fresh(s).tasks = 0 /\ Fresh(s).after = 0
      /\ Fresh(s).analysis = {}
  BY FreshIs
<1> QED BY <1>1, <1>2 DEF StoreOK, Known

LEMMA MovesTyped ==
  ASSUME Typed, \/ (\E s \in Shops : OpenShop(s) \/ NextShop(s)) \/ EndRoute
                \/ (\E x \in Shelves : ChooseShelf(x)) \/ UsePhoto
                \/ (\E c \in calls : Analysed(c) \/ HandOver(c) \/ TasksListed(c)) \/ BackKey
  PROVE  Typed'
<1>1. TypeOK /\ Placed /\ Asked /\ StoreOK(store) /\ store \in Visit
  BY StoreParts DEF Typed, TypeOK
<1>2. UNCHANGED <<server, counters>> =>
        slips' \in 0 .. MaxSlips /\ UNCHANGED <<server, shots>>
  BY <1>1, SlipsIs DEF counters
<1>3. CASE (\E s \in Shops : OpenShop(s) \/ NextShop(s)) \/ EndRoute
  <2>1. BeginsAnew
    BY <1>1, <1>3, NextVisitBegins
  <2>2. PICK p, s : s \in Shops \cup {NoShop} /\ Moved(p, Fresh(s), calls, TRUE)
    BY <2>1 DEF BeginsAnew
  <2>3. StoreOK(Fresh(s))
    BY <1>1, <2>2, FreshOK
  <2> QED BY <1>2, <2>1, <2>2, <2>3, MovedTyped DEF BeginsAnew
<1>4. ASSUME NEW x \in Shelves, ChooseShelf(x) PROVE Typed'
  <2>1. PICK now : now = [store EXCEPT !.shelf = x]
    OBVIOUS
  <2>2. StoreOK(now)
    BY <1>1, <2>1 DEF StoreOK, Visit
  <2> QED BY <1>1, <1>2, <1>4, <2>1, <2>2, ChooseShelfMoves, MovedTyped
<1>5. CASE UsePhoto
  <2>1. StoreOK(Staged(store))
    BY <1>1, StagedIs DEF StoreOK
  <2> QED BY <1>1, <1>2, <1>5, <2>1, UsePhotoMoves, MovedTyped
<1>6. ASSUME NEW c \in calls, Analysed(c) PROVE Typed'
  <2>1. PICK gaps \in {"none", "pending"} :
          Moved(Place("RESULT", c.shop), [store EXCEPT !.analysis = Sent(c), !.gaps = gaps],
                calls \ {c}, FALSE)
    BY <1>1, <1>6, AnalysedMoves
  <2>2. PICK now : now = [store EXCEPT !.analysis = Sent(c), !.gaps = gaps]
    OBVIOUS
  <2>3. \A a \in Sent(c) : a.visit = c.visit
    BY DEF Sent
  <2>4. Sent(c) \in SUBSET Upload /\ Known(c.visit)
    BY <1>1, <1>6, AnalysedMoves DEF Asked
  <2>5. StoreOK(now)
    <3>1. /\ now \in Visit /\ now.visit = store.visit /\ now.tasks = store.tasks
          /\ now.after = store.after /\ now.analysis = Sent(c)
      BY <1>1, <2>2, <2>4 DEF Visit
    <3> QED BY <1>1, <2>3, <2>4, <3>1 DEF StoreOK
  <2> QED BY <1>1, <1>2, <1>6, <2>1, <2>2, <2>5, AnalysedMoves, MovedTyped
<1>7. ASSUME NEW c \in calls, TasksListed(c) PROVE Typed'
  <2>1. CASE c.kind = "list"
    BY <1>7, <2>1, AnswersTyped
  <2>2. CASE c.kind # "list"
    <3>1. PICK now : now = [store EXCEPT !.tasks = Listed(c.visit)]
      OBVIOUS
    <3>2. Moved(Place("TASKS", c.shop), now, calls \ {c}, FALSE) /\ now \in Visit
          /\ UNCHANGED <<server, counters>>
      BY <1>1, <1>7, <2>2, <3>1, TasksListedMoves
    <3>3. Known(Listed(c.visit))
      BY <1>1, LenOpened DEF Listed, Known, TypeOK
    <3>4. StoreOK(now)
      <4>1. /\ now.visit = store.visit /\ now.tasks = Listed(c.visit)
            /\ now.after = store.after /\ now.analysis = store.analysis
        BY <1>1, <3>1 DEF Visit
      <4> QED BY <1>1, <3>2, <3>3, <4>1 DEF StoreOK
    <3> QED BY <1>1, <1>2, <3>2, <3>4, MovedTyped
  <2> QED BY <2>1, <2>2
<1>8. ASSUME NEW c \in calls, HandOver(c) PROVE Typed'
  BY <1>1, <1>8, HandOverGoesOn, GoesOnTyped
<1>9. CASE BackKey
  BY <1>1, <1>9, BackKeyGoesOn, GoesOnTyped
<1> QED BY <1>3, <1>4, <1>5, <1>6, <1>7, <1>8, <1>9

LEMMA InitTyped ==
  ASSUME Init
  PROVE  Typed
<1>1. store = Fresh(NoShop) /\ NoShop \in Shops \cup {NoShop}
  BY DEF Init
<1>2. /\ store \in Visit /\ store.visit = 0 /\ store.tasks = 0 /\ store.after = 0
      /\ store.analysis = {}
  BY <1>1, FreshIs
<1>3. PICK e : e = [step |-> "ROUTE", shop |-> NoShop]
  OBVIOUS
<1>4. e \in Way /\ e \in [step : Steps, shop : Shops \cup {NoShop}] /\ trail = <<e>>
  BY <1>3 DEF Init, Way, Steps
<1>5. trail \in Seq(Way) /\ trail \in Seq([step : Steps, shop : Shops \cup {NoShop}]) /\ trail # <<>>
  BY <1>4
<1>6. opened = <<>> /\ opened \in Seq(Shops) /\ Len(opened) = 0
  BY DEF Init
<1>7. TypeOK
  BY <1>2, <1>5, <1>6, BoundsHold DEF Init, Bounds, TypeOK
<1>8. Placed /\ Asked
  BY <1>2, <1>5 DEF Init, Placed, Asked
<1> QED BY <1>7, <1>8 DEF Typed

LEMMA NextTyped ==
  ASSUME Typed, [Next]_vars
  PROVE  Typed'
<1>1. TypeOK /\ Placed /\ Asked
  BY DEF Typed
<1>2. CASE UNCHANGED vars
  <2>1. UNCHANGED <<trail, store, calls, screen, polls, server, abandoned, carried, counters>>
    BY <1>2 DEF vars
  <2> QED BY <2>1, StoreParts, StaysTyped DEF Typed, TypeOK, Looks, server, counters
<1>3. CASE \/ GuardBlocks \/ NothingToProcess \/ BackButton \/ CarryOn \/ ConsentGate
           \/ RetakeAfterFailure \/ LeaveQueued \/ ResultButtons \/ TasksButton \/ CompareButton
           \/ (GoTasks /\ store.visit = 0)
  BY <1>1, <1>3, WalkGoesOn, GoesOnTyped
<1>4. CASE \/ Consent \/ StartCheckIn \/ Shoot \/ ShootWithoutCamera \/ Retake
           \/ RetryAnalysis \/ DecideGaps \/ (GoTasks /\ store.visit # 0)
           \/ ShootAfter \/ ShootAfterWithoutCamera \/ AskAgain \/ GiveUp \/ RetryClose
  BY <1>4, ScreensTyped
<1>5. CASE \/ (\E s \in Shops : OpenShop(s) \/ NextShop(s)) \/ EndRoute
           \/ (\E x \in Shelves : ChooseShelf(x)) \/ UsePhoto
           \/ (\E c \in calls : Analysed(c) \/ HandOver(c) \/ TasksListed(c)) \/ BackKey
  BY <1>5, MovesTyped
<1>6. ASSUME NEW c \in calls, CheckedIn(c) \/ CheckInFails(c) PROVE Typed'
  BY <1>6, CheckInTyped
<1>7. ASSUME NEW c \in calls,
             \/ Taken(c) \/ IntakeFails(c) \/ AnalysisFails(c) \/ TasksFail(c)
             \/ TakenAfter(c) \/ AfterUploaded(c) \/ AfterSeen(c) \/ AfterFails(c)
             \/ CloseServed(c) \/ CloseAnswered(c) \/ CloseFails(c)
      PROVE  Typed'
  BY <1>7, AnswersTyped
<1>8. ASSUME NEW v \in reading, AfterRead(v) PROVE Typed'
  BY <1>8, AfterReadTyped
<1> QED BY <1>2, <1>3, <1>4, <1>5, <1>6, <1>7, <1>8 DEF Next, RunStep, CloseStep

\* In every reachable state each variable has its type, for any bounds.
THEOREM TypeCorrect == Spec => []TypeOK
<1>1. Init => Typed
  BY InitTyped
<1>2. Typed /\ [Next]_vars => Typed'
  BY NextTyped
<1>3. Typed => TypeOK
  BY DEF Typed
<1> QED BY <1>1, <1>2, <1>3, PTL DEF Spec
-----------------------------------------------------------------------------
(* What a step does to the visit and to what is out.                        *)

Like(c, d) == /\ d.kind = c.kind /\ d.shop = c.shop /\ d.visit = c.visit /\ d.shelf = c.shelf
              /\ d.photo = c.photo

\* A call of the screen h, with the store as st.
Begun(d, st, h) ==
  /\ d.visit = st.visit /\ d.shelf = st.shelf
  /\ \/ d.kind = "checkin" /\ h.step = "CHECKIN" /\ d.shop = h.shop /\ d.photo = {}
        /\ (st.visit = 0 \/ st.shop # h.shop)
     \/ d.kind \in {"tasks", "list", "after", "close"} /\ d.photo = {}
     \/ d.kind = "analyse" /\ h.step = "PROCESSING" /\ d.photo = st.photo
     \/ /\ d.kind = "intake" /\ h.step = "CAPTURE"
        /\ \A x \in d.photo : Real(x) /\ x.visit = st.visit /\ x.shelf = st.shelf

CallsGrow(st, h) ==
  \A d \in calls' :
    \/ \E c \in calls : Like(c, d)
    \/ d.kind \in {"handoff", "upload"} /\ \E c \in calls : d.photo = c.photo
    \/ Begun(d, st, h)

\* At most one call of a kind and visit.
Sole(cs, k) == \A c, d \in cs : c.kind = k /\ d.kind = k /\ c.visit = d.visit => c = d

\* What a step that neither begins a visit nor checks in writes, with the store
\* as st after it: the fields that come from an answer.
Writes(st) ==
  /\ st.shop = store.shop /\ st.visit = store.visit
  /\ settled \subseteq settled' /\ abandoned \subseteq abandoned'
  /\ \/ st.tasks \in {0, store.tasks}
     \/ \E c \in calls : c.kind \in {"tasks", "list"} /\ st.tasks = c.visit
  /\ \/ st.after \in {store.after, store.visit}
     \/ \E c \in calls : c.kind = "after" /\ st.after = c.visit
  /\ \/ st.analysis = {}
     \/ st.photo = store.photo /\ st.analysis = store.analysis
     \/ st.photo = store.photo /\ \E c \in calls : c.kind = "analyse" /\ st.analysis = Sent(c)
  /\ \/ st.checkout = store.checkout /\ st.stamped = store.stamped
     \/ st.checkout = store.checkout /\ \E c \in calls : c.kind = "close" /\ c.visit \in settled'
     \/ \E c \in calls : /\ c.kind = "close" /\ c.stage = "served"
                         /\ st.checkout = {[visit |-> c.visit, pending |-> c.pending]}

\* A step that stays on its screen.
Stays ==
  /\ UNCHANGED <<trail, carried>>
  /\ store'.shelf = store.shelf /\ store'.photo = store.photo
  /\ \/ store'.review \in {store.review, {}, {StandIn}}
     \/ \E c \in calls : c.kind = "intake" /\ store'.review = c.photo
  /\ CallsGrow(store', Here)
  /\ "checkin" \notin abandoned' /\ Sole(calls, "checkin") => Sole(calls', "checkin")
  /\ opened' = opened \/ \E s \in Shops : opened' = Append(opened, s)
  /\ Writes(store')

\* A step that moves to another screen within the visit.
Onward(p, st) ==
  \/ st.photo = store.photo /\ st.review = store.review /\ st.shelf = store.shelf
     /\ (p.step = "PROCESSING" => st = store)
  \/ /\ At("CATEGORY") /\ p.step = "CAPTURE"
     /\ store.visit # 0 /\ st.shelf \in Shelves
     /\ st.photo = store.photo /\ st.review = store.review
  \/ /\ At("CAPTURE") /\ p.step = "PROCESSING" /\ store.visit # 0 /\ store.shelf # NoShelf
     /\ st.shelf = store.shelf /\ st.review = {}
     /\ st.photo = IF store.review = {StandIn} THEN store.photo ELSE store.review
MovesOn == /\ \E p, st, cs : Moved(p, st, cs, FALSE) /\ Onward(p, st) /\ Writes(st)
           /\ UNCHANGED server

LEMMA LikeIsLike ==
  ASSUME NEW c, NEW d, Alike(c, d)
  PROVE  Like(c, d)
BY DEF Alike, Like

LEMMA LikeItself ==
  ASSUME NEW c
  PROVE  Like(c, c) /\ Alike(c, c)
BY DEF Like, Alike

LEMMA StartedBegins ==
  ASSUME NEW p, NEW st, NEW cs, NEW d, StartedBy(p, st, cs, d)
  PROVE  Begun(d, st, p)
BY AskVisit DEF StartedBy, Begun

LEMMA SoleUnmounted ==
  ASSUME NEW cs, cs \subseteq Call, NEW k, Sole(cs, k)
  PROVE  Sole(Unmounted(cs), k)
<1>1. ASSUME NEW c \in cs, NEW d \in cs, NEW e, NEW f, e = [c EXCEPT !.live = FALSE],
             f = [d EXCEPT !.live = FALSE], e.kind = k, f.kind = k, e.visit = f.visit
      PROVE  e = f
  <2>1. c \in Call /\ d \in Call
    OBVIOUS
  <2>2. Alike(c, e) /\ Alike(d, f)
    BY <1>1, <2>1, WakingIs
  <2>3. c = d
    BY <1>1, <2>2 DEF Alike, Sole
  <2> QED BY <1>1, <2>3
<1> QED BY <1>1 DEF Sole, Unmounted

LEMMA SoleClosing ==
  ASSUME NEW cs, cs \subseteq Call, NEW st \in Visit, NEW s \in Shops, NEW k, Sole(cs, k)
  PROVE  Sole(Closing(cs, st, s), k)
<1> DEFINE joined == {c \in cs : c.kind = "close" /\ c.visit = st.visit}
           woken == {[c EXCEPT !.live = TRUE] : c \in joined}
<1>1. PICK new : new = Ask("close", s, st, {})
  OBVIOUS
<1>2. new.kind = "close" /\ new.visit = st.visit
  BY <1>1, AskVisit
<1>3. CASE joined = {}
  <2>1. Closing(cs, st, s) = cs \cup {new}
    BY <1>1, <1>3 DEF Closing
  <2>2. \A c \in cs : c.kind = "close" => c.visit # st.visit
    BY <1>3
  <2> QED BY <1>2, <2>1, <2>2 DEF Sole
<1>4. CASE joined # {}
  <2>1. Closing(cs, st, s) = (cs \ joined) \cup woken
    BY <1>4 DEF Closing
  <2>2. \A e \in woken : \E c \in joined : e = [c EXCEPT !.live = TRUE] /\ Alike(c, e)
    BY WakingIs
  <2>3. \A c \in cs : c \in joined <=> c.kind = "close" /\ c.visit = st.visit
    OBVIOUS
  <2>4. joined \subseteq cs
    OBVIOUS
  <2> HIDE DEF joined, woken
  <2>5. \A c, d \in cs \ joined : c.kind = k /\ d.kind = k /\ c.visit = d.visit => c = d
    BY DEF Sole
  <2>6. \A e \in woken : e.kind = "close" /\ e.visit = st.visit
    BY <2>2, <2>3, <2>4 DEF Alike
  <2>7. \A c \in cs \ joined, e \in woken : ~(c.kind = e.kind /\ c.visit = e.visit)
    BY <2>3, <2>6
  <2>8. ASSUME NEW e \in woken, NEW f \in woken, e.kind = k PROVE e = f
    <3>1. PICK c \in joined : e = [c EXCEPT !.live = TRUE]
      BY <2>2
    <3>2. PICK d \in joined : f = [d EXCEPT !.live = TRUE]
      BY <2>2
    <3>3. k = "close" /\ c = d
      BY <2>3, <2>4, <2>6, <2>8 DEF Sole
    <3> QED BY <3>1, <3>2, <3>3
  <2> QED BY <2>1, <2>5, <2>7, <2>8 DEF Sole
<1> QED BY <1>3, <1>4

LEMMA SoleStarted ==
  ASSUME NEW cs, cs \subseteq Call, NEW st \in Visit, NEW p \in Way,
         NEW k \in {"checkin", "close"}, Sole(cs, k)
  PROVE  Sole(Started(p, st, cs), k)
<1>1. ASSUME NEW d, d.kind \notin {"checkin", "close"} PROVE Sole(cs \cup {d}, k)
  BY <1>1 DEF Sole
<1>2. CASE p.step = "PROCESSING" /\ st.visit # 0 /\ st.shelf # NoShelf /\ st.photo # {}
  <2>1. PICK d : d = Ask("analyse", p.shop, st, st.photo)
    OBVIOUS
  <2>2. Started(p, st, cs) = cs \cup {d} /\ d.kind = "analyse"
    BY <1>2, <2>1, AskVisit DEF Started
  <2> QED BY <1>1, <2>2
<1>3. CASE p.step = "TASKS" /\ st.visit # 0 /\ st.tasks = 0
  <2>1. PICK d : d = Ask("list", p.shop, st, {})
    OBVIOUS
  <2>2. Started(p, st, cs) = cs \cup {d} /\ d.kind = "list"
    BY <1>3, <2>1, AskVisit DEF Started
  <2> QED BY <1>1, <2>2
<1>4. CASE p.step = "CHECKOUT" /\ st.visit # 0 /\ st.checkout = {}
  <2>1. Started(p, st, cs) = Closing(cs, st, p.shop) /\ p.shop \in Shops
    BY <1>4 DEF Started, Way
  <2> QED BY <2>1, SoleClosing
<1>5. CASE Started(p, st, cs) = cs
  BY <1>5
<1> QED BY <1>2, <1>3, <1>4, <1>5 DEF Started

\* The moves.
LEMMA GoesOnMovesOn ==
  ASSUME GoesOn
  PROVE  MovesOn
<1>1. PICK p, cs : Moved(p, store, cs, FALSE) /\ \A c \in calls \ cs : c.kind = "handoff"
  BY DEF GoesOn
<1>2. Writes(store) /\ Onward(p, store)
  BY <1>1 DEF Moved, Writes, Onward, GoesOn, server
<1> QED BY <1>1, <1>2 DEF MovesOn, GoesOn

LEMMA OthersMoveOn ==
  ASSUME TypeOK, Placed, Asked,
         \/ (\E x \in Shelves : ChooseShelf(x)) \/ UsePhoto
         \/ (\E c \in calls : Analysed(c) \/ (TasksListed(c) /\ c.kind = "tasks"))
  PROVE  MovesOn
<1>1. store \in Visit
  BY DEF TypeOK
<1>2. ASSUME NEW x \in Shelves, ChooseShelf(x) PROVE MovesOn
  <2>1. PICK st : st = [store EXCEPT !.shelf = x]
    OBVIOUS
  <2>2. PICK p : p = Place("CAPTURE", Here.shop)
    OBVIOUS
  <2>3. /\ Moved(p, st, calls, FALSE) /\ At("CATEGORY") /\ p.step = "CAPTURE"
        /\ UNCHANGED server
    BY <1>2, <2>1, <2>2, ChooseShelfMoves
  <2>4. store.visit # 0
    BY <1>2 DEF ChooseShelf, CanEnter
  <2>5. /\ st.shop = store.shop /\ st.visit = store.visit /\ st.tasks = store.tasks
        /\ st.after = store.after /\ st.analysis = store.analysis /\ st.photo = store.photo
        /\ st.checkout = store.checkout /\ st.stamped = store.stamped
        /\ st.review = store.review /\ st.shelf = x
    BY <1>1, <2>1 DEF Visit
  <2>6. settled \subseteq settled' /\ abandoned \subseteq abandoned'
    BY <2>3 DEF Moved, server
  <2>7. Writes(st)
    BY <2>5, <2>6 DEF Writes
  <2>8. Onward(p, st)
    BY <2>3, <2>4, <2>5 DEF Onward
  <2> QED BY <2>3, <2>7, <2>8 DEF MovesOn
<1>3. CASE UsePhoto
  <2>1. PICK p : p = Place("PROCESSING", Here.shop)
    OBVIOUS
  <2>2. /\ Moved(p, Staged(store), calls, FALSE) /\ At("CAPTURE") /\ p.step = "PROCESSING"
        /\ store.visit # 0 /\ store.shelf # NoShelf /\ UNCHANGED server
    BY <1>3, <2>1, UsePhotoMoves
  <2>3. settled \subseteq settled' /\ abandoned \subseteq abandoned'
    BY <2>2 DEF Moved, server
  <2>4. Writes(Staged(store))
    BY <1>1, <2>3, StagedIs DEF Writes
  <2>5. Onward(p, Staged(store))
    BY <1>1, <2>2, StagedIs DEF Onward
  <2> QED BY <2>2, <2>4, <2>5 DEF MovesOn
<1>4. ASSUME NEW c \in calls, Analysed(c) PROVE MovesOn
  <2>1. PICK gaps \in {"none", "pending"} :
          Moved(Place("RESULT", c.shop), [store EXCEPT !.analysis = Sent(c), !.gaps = gaps],
                calls \ {c}, FALSE)
    BY <1>4, AnalysedMoves
  <2>2. PICK st : st = [store EXCEPT !.analysis = Sent(c), !.gaps = gaps]
    OBVIOUS
  <2>3. PICK p : p = Place("RESULT", c.shop)
    OBVIOUS
  <2>4. /\ Moved(p, st, calls \ {c}, FALSE) /\ p.step = "RESULT" /\ c.kind = "analyse"
        /\ UNCHANGED server
    BY <1>4, <2>1, <2>2, <2>3, AnalysedMoves
  <2>5. /\ st.shop = store.shop /\ st.visit = store.visit /\ st.tasks = store.tasks
        /\ st.after = store.after /\ st.analysis = Sent(c) /\ st.photo = store.photo
        /\ st.checkout = store.checkout /\ st.stamped = store.stamped
        /\ st.review = store.review /\ st.shelf = store.shelf
    BY <1>1, <2>2 DEF Visit
  <2>6. settled \subseteq settled' /\ abandoned \subseteq abandoned'
    BY <2>4 DEF Moved, server
  <2>7. Writes(st)
    BY <2>4, <2>5, <2>6 DEF Writes
  <2>8. Onward(p, st)
    BY <2>4, <2>5 DEF Onward
  <2> QED BY <2>4, <2>7, <2>8 DEF MovesOn
<1>5. ASSUME NEW c \in calls, TasksListed(c), c.kind = "tasks" PROVE MovesOn
  <2>1. PICK st : st = [store EXCEPT !.tasks = Listed(c.visit)]
    OBVIOUS
  <2>2. PICK p : p = Place("TASKS", c.shop)
    OBVIOUS
  <2>3. Moved(p, st, calls \ {c}, FALSE) /\ p.step = "TASKS" /\ UNCHANGED server
    BY <1>5, <2>1, <2>2, TasksListedMoves
  <2>4. /\ st.shop = store.shop /\ st.visit = store.visit /\ st.tasks = Listed(c.visit)
        /\ st.after = store.after /\ st.analysis = store.analysis /\ st.photo = store.photo
        /\ st.checkout = store.checkout /\ st.stamped = store.stamped
        /\ st.review = store.review /\ st.shelf = store.shelf
    BY <1>1, <2>1 DEF Visit
  <2>5. settled \subseteq settled' /\ abandoned \subseteq abandoned'
    BY <2>3 DEF Moved, server
  <2>6. Writes(st)
    BY <1>5, <2>4, <2>5 DEF Writes, Listed
  <2>7. Onward(p, st)
    BY <2>3, <2>4 DEF Onward
  <2> QED BY <2>3, <2>6, <2>7 DEF MovesOn
<1> QED BY <1>2, <1>3, <1>4, <1>5

\* The steps that stay.  Most leave what the visit is of alone.
Fields == {"shop", "visit", "shelf", "photo", "review", "tasks", "after", "analysis",
           "checkout", "stamped"}
SameBut(st, f) == \A g \in Fields \ {f} : st[g] = store[g]

LEMMA SameButIs ==
  ASSUME NEW st, NEW f, SameBut(st, f)
  PROVE  /\ f # "shop" => st.shop = store.shop
         /\ f # "visit" => st.visit = store.visit
         /\ f # "shelf" => st.shelf = store.shelf
         /\ f # "photo" => st.photo = store.photo
         /\ f # "review" => st.review = store.review
         /\ f # "tasks" => st.tasks = store.tasks
         /\ f # "after" => st.after = store.after
         /\ f # "analysis" => st.analysis = store.analysis
         /\ f # "checkout" => st.checkout = store.checkout
         /\ f # "stamped" => st.stamped = store.stamped
BY DEF SameBut, Fields

\* A step that leaves the visit alone, or one field of it that is not its own.
Still == /\ UNCHANGED <<trail, carried>>
         /\ abandoned \subseteq abandoned' /\ settled \subseteq settled'
         /\ opened' = opened \/ \E s \in Shops : opened' = Append(opened, s)
         /\ CallsGrow(store', Here)
         /\ "checkin" \notin abandoned' /\ Sole(calls, "checkin") => Sole(calls', "checkin")

LEMMA StillStays ==
  ASSUME Still, SameBut(store', "none")
  PROVE  Stays
<1>1. /\ store'.shop = store.shop /\ store'.visit = store.visit /\ store'.shelf = store.shelf
      /\ store'.photo = store.photo /\ store'.review = store.review
      /\ store'.tasks = store.tasks /\ store'.after = store.after
      /\ store'.analysis = store.analysis /\ store'.checkout = store.checkout
      /\ store'.stamped = store.stamped
  BY SameButIs
<1>2. Writes(store')
  BY <1>1 DEF Writes, Still
<1> QED BY <1>1, <1>2 DEF Stays, Still

LEMMA SubsetGrows ==
  ASSUME calls' \subseteq calls
  PROVE  /\ CallsGrow(store', Here)
         /\ Sole(calls, "checkin") => Sole(calls', "checkin")
         /\ Sole(calls, "close") => Sole(calls', "close")
BY LikeItself DEF CallsGrow, Sole

LEMMA OneMoreGrows ==
  ASSUME NEW d, calls' \subseteq calls \cup {d}, store' = store, Begun(d, store, Here)
  PROVE  /\ CallsGrow(store', Here)
         /\ d.kind # "checkin" => (Sole(calls, "checkin") => Sole(calls', "checkin"))
BY LikeItself DEF CallsGrow, Sole

\* A step that changes at most one field of the visit, and not by an answer.
LEMMA StillIs ==
  ASSUME TypeOK, UNCHANGED <<trail, carried, abandoned, opened, settled>>,
         CallsGrow(store', Here), Sole(calls, "checkin") => Sole(calls', "checkin")
  PROVE  Still
BY DEF Still

LEMMA SubsetIsStill ==
  ASSUME TypeOK, UNCHANGED <<trail, carried, abandoned, opened, settled>>, calls' \subseteq calls
  PROVE  Still
BY SubsetGrows, StillIs

LEMMA ScreensStay ==
  ASSUME Typed,
         \/ Consent \/ StartCheckIn \/ Shoot \/ ShootWithoutCamera \/ Retake \/ RetryAnalysis
         \/ DecideGaps \/ (GoTasks /\ store.visit # 0) \/ ShootAfter \/ ShootAfterWithoutCamera
         \/ AskAgain \/ GiveUp \/ RetryClose
  PROVE  Stays
<1>0. /\ TypeOK /\ store \in Visit /\ calls \subseteq Call /\ Here \in Way
      /\ (Here.step # "ROUTE" => Here.shop \in Shops)
      /\ settled \subseteq settled /\ abandoned \subseteq abandoned
  BY HereIs DEF Typed, TypeOK, Way
<1>1. ASSUME UNCHANGED <<trail, carried, opened, settled, store>>, abandoned \subseteq abandoned',
             NEW d, calls' = calls \cup {d}, Begun(d, store, Here), d.kind # "checkin"
      PROVE  Stays
  <2>1. Still
    BY <1>0, <1>1, OneMoreGrows DEF Still
  <2> QED BY <1>1, <2>1, StillStays DEF SameBut
<1>2. CASE Consent \/ DecideGaps
  <2>1. SameBut(store', "none") /\ calls' = calls
    BY <1>0, <1>2 DEF Consent, DecideGaps, SameBut, Fields, Visit
  <2>2. UNCHANGED <<trail, carried, abandoned, opened, settled>>
    BY <1>2 DEF Consent, DecideGaps, Stay, server
  <2> QED BY <1>0, <2>1, <2>2, SubsetIsStill, StillStays
<1>3. CASE StartCheckIn
  <2>1. PICK d : d = Ask("checkin", Here.shop, store, {})
    OBVIOUS
  <2>2. calls' = calls \cup {d} /\ store' = store /\ Begun(d, store, Here) /\ d.kind = "checkin"
    BY <1>3, <2>1, AskVisit DEF StartCheckIn, Begun, At
  <2>3. abandoned' = abandoned \cup (KindsOf(calls) \cap {"checkin"})
    BY <1>3 DEF StartCheckIn
  <2>4. "checkin" \notin abandoned' => Sole(calls', "checkin")
    BY <2>2, <2>3 DEF KindsOf, Sole
  <2>5. CallsGrow(store', Here)
    BY <2>2, OneMoreGrows
  <2>6. UNCHANGED <<trail, carried, opened, settled>>
    BY <1>3 DEF StartCheckIn, server
  <2>7. Still
    BY <2>3, <2>4, <2>5, <2>6 DEF Still
  <2> QED BY <2>2, <2>7, StillStays DEF SameBut
<1>4. CASE Shoot
  <2>1. PICK x : x = [n |-> shots + 1, visit |-> store.visit, shelf |-> store.shelf]
    OBVIOUS
  <2>2. PICK d : d = Ask("intake", Here.shop, store, {x})
    OBVIOUS
  <2>3. shots + 1 # 0 /\ store.visit # 0 /\ At("CAPTURE")
    BY <1>0, <1>4 DEF Shoot, CameraOpen, CanEnter, TypeOK
  <2>4. Begun(d, store, Here) /\ d.kind = "intake"
    BY <2>1, <2>2, <2>3, AskVisit DEF Begun, At, Real
  <2>5. calls' = calls \cup {d} /\ UNCHANGED <<trail, carried, opened, settled, store, abandoned>>
    BY <1>4, <2>1, <2>2 DEF Shoot, Stay, server
  <2> QED BY <1>1, <2>4, <2>5
<1>5. CASE ShootWithoutCamera \/ Retake
  <2>1. SameBut(store', "review") /\ store'.review \in {{}, {StandIn}} /\ calls' = calls
    BY <1>0, <1>5 DEF ShootWithoutCamera, Retake, SameBut, Fields, Visit
  <2>2. UNCHANGED <<trail, carried, abandoned, opened, settled>>
    BY <1>5 DEF ShootWithoutCamera, Retake, Stay, server
  <2>3. Still
    BY <1>0, <2>1, <2>2, SubsetIsStill
  <2> QED BY <1>0, <2>1, <2>2, <2>3, SameButIs DEF Stays, Writes, Still
<1>6. CASE RetryAnalysis \/ RetryClose
  <2>1. calls' = Started(Here, store, calls) /\ store' = store
    BY <1>6 DEF RetryAnalysis, RetryClose
  <2>2. CallsGrow(store', Here)
    BY <1>0, <2>1, StartedIs, StartedBegins, LikeIsLike DEF CallsGrow
  <2>3. Sole(calls, "checkin") => Sole(calls', "checkin")
    BY <1>0, <2>1, SoleStarted
  <2>4. UNCHANGED <<trail, carried, abandoned, opened, settled>>
    BY <1>6 DEF RetryAnalysis, RetryClose, server
  <2>5. Still
    BY <1>0, <2>2, <2>3, <2>4, StillIs
  <2> QED BY <2>1, <2>5, StillStays DEF SameBut
<1>7. CASE GoTasks /\ store.visit # 0
  <2>1. PICK d : d = Ask("tasks", Here.shop, store, {})
    OBVIOUS
  <2>2. Begun(d, store, Here) /\ d.kind = "tasks"
    BY <2>1, AskVisit DEF Begun
  <2>3. calls' = calls \cup {d} /\ UNCHANGED <<trail, carried, opened, settled, store, abandoned>>
    BY <1>7, <2>1 DEF GoTasks, Stay, server
  <2> QED BY <1>1, <2>2, <2>3
<1>8. CASE ShootAfter
  <2>1. PICK d : d = Ask("after", Here.shop, store, {})
    OBVIOUS
  <2>2. Begun(d, store, Here) /\ d.kind = "after"
    BY <2>1, AskVisit DEF Begun
  <2>3. calls' = calls \cup {d} /\ UNCHANGED <<trail, carried, opened, settled, store, abandoned>>
    BY <1>8, <2>1 DEF ShootAfter, Stay, server
  <2> QED BY <1>1, <2>2, <2>3
<1>9. CASE ShootAfterWithoutCamera
  <2>1. SameBut(store', "after") /\ store'.after = store.visit /\ calls' = calls
    BY <1>0, <1>9 DEF ShootAfterWithoutCamera, SameBut, Fields, Visit
  <2>2. UNCHANGED <<trail, carried, abandoned, opened, settled>>
    BY <1>9 DEF ShootAfterWithoutCamera, Stay, server
  <2>3. Still
    BY <1>0, <2>1, <2>2, SubsetIsStill
  <2> QED BY <1>0, <2>1, <2>2, <2>3, SameButIs DEF Stays, Writes, Still
<1>10. CASE AskAgain
  <2>1. /\ calls' = Closing(calls, store, Here.shop) /\ store' = store /\ Here.shop \in Shops
        /\ UNCHANGED <<trail, carried, opened, settled>> /\ abandoned \subseteq abandoned'
    BY <1>0, <1>10 DEF AskAgain, At, server
  <2>2. PICK new : new = Ask("close", Here.shop, store, {})
    OBVIOUS
  <2>3. \A d \in calls' : (\E c \in calls : Alike(c, d)) \/ d = new
    BY <1>0, <2>1, <2>2, ClosingIs
  <2>4. Begun(new, store, Here)
    BY <2>2, AskVisit DEF Begun
  <2>5. CallsGrow(store', Here)
    BY <2>1, <2>3, <2>4, LikeIsLike DEF CallsGrow
  <2>6. Sole(calls, "checkin") => Sole(calls', "checkin")
    BY <1>0, <2>1, SoleClosing
  <2>7. Still
    BY <2>1, <2>5, <2>6 DEF Still
  <2> QED BY <2>1, <2>7, StillStays DEF SameBut
<1>11. CASE GiveUp
  <2>1. UNCHANGED <<trail, carried, abandoned, opened, settled, calls, store>>
    BY <1>11 DEF GiveUp, server
  <2> QED BY <1>0, <2>1, SubsetIsStill, StillStays DEF SameBut
<1> QED BY <1>2, <1>3, <1>4, <1>5, <1>6, <1>7, <1>8, <1>9, <1>10, <1>11

LEMMA AnswersStay ==
  ASSUME Typed, NEW c \in calls,
         \/ CheckInFails(c) \/ Taken(c) \/ IntakeFails(c) \/ AnalysisFails(c) \/ TasksFail(c)
         \/ (TasksListed(c) /\ c.kind = "list")
         \/ TakenAfter(c) \/ AfterUploaded(c) \/ AfterSeen(c) \/ AfterFails(c)
         \/ CloseServed(c) \/ CloseAnswered(c) \/ CloseFails(c)
  PROVE  Stays
<1>0. /\ TypeOK /\ Placed /\ store \in Visit /\ calls \subseteq Call /\ c \in Call
      /\ settled \subseteq settled /\ abandoned \subseteq abandoned
  BY DEF Typed, TypeOK
<1>1. CASE CheckInFails(c)
  <2>1. /\ UNCHANGED <<trail, carried, abandoned, settled, store>> /\ calls' \subseteq calls
        /\ opened' = opened \/ \E s \in Shops : opened' = Append(opened, s)
    BY <1>0, <1>1 DEF CheckInFails, Stay, Call
  <2>2. Still
    BY <2>1, SubsetGrows DEF Still
  <2> QED BY <2>1, <2>2, StillStays DEF SameBut
<1>2. CASE Taken(c)
  <2>1. SameBut(store', "review") /\ store'.review = c.photo /\ c.kind = "intake"
    BY <1>0, <1>2 DEF Taken, SameBut, Fields, Visit
  <2>2. UNCHANGED <<trail, carried, abandoned, opened, settled>> /\ calls' \subseteq calls
    BY <1>2 DEF Taken, Stay, server
  <2>3. Still
    BY <1>0, <2>2, SubsetIsStill
  <2> QED BY <1>0, <2>1, <2>2, <2>3, SameButIs DEF Stays, Writes, Still
<1>3. CASE IntakeFails(c) \/ AnalysisFails(c) \/ TasksFail(c) \/ AfterSeen(c) \/ AfterFails(c)
  <2>1. UNCHANGED <<trail, carried, abandoned, opened, settled, store>> /\ calls' \subseteq calls
    BY <1>3 DEF IntakeFails, AnalysisFails, TasksFail, AfterSeen, AfterFails, Stay, server
  <2> QED BY <1>0, <2>1, SubsetIsStill, StillStays DEF SameBut
<1>4. CASE TasksListed(c) /\ c.kind = "list"
  <2>1. /\ store' = [store EXCEPT !.tasks = Listed(c.visit)] /\ calls' \subseteq calls
        /\ UNCHANGED <<trail, carried, abandoned, opened, settled>>
    BY <1>0, <1>4, TasksListedMoves DEF server
  <2>2. SameBut(store', "tasks") /\ store'.tasks = Listed(c.visit)
    BY <1>0, <2>1 DEF SameBut, Fields, Visit
  <2>3. Still
    BY <1>0, <2>1, SubsetIsStill
  <2>4. store'.tasks \in {0, c.visit}
    BY <2>2 DEF Listed
  <2> QED BY <1>0, <1>4, <2>1, <2>2, <2>3, <2>4, SameButIs DEF Stays, Writes, Still
<1>5. CASE TakenAfter(c)
  <2>1. SameBut(store', "after") /\ store'.after = c.visit /\ c.kind = "after"
    BY <1>0, <1>5 DEF TakenAfter, SameBut, Fields, Visit
  <2>2. UNCHANGED <<trail, carried, abandoned, opened, settled>>
    BY <1>5 DEF TakenAfter, Stay, server
  <2>3. PICK d : d = [c EXCEPT !.kind = "upload"]
    OBVIOUS
  <2>4. d.kind = "upload" /\ d.photo = c.photo /\ calls' \subseteq calls \cup {d}
    BY <1>0, <1>5, <2>3 DEF TakenAfter, Call
  <2>5. CallsGrow(store', Here) /\ (Sole(calls, "checkin") => Sole(calls', "checkin"))
    BY <2>4, LikeItself DEF CallsGrow, Sole
  <2>6. Still
    BY <1>0, <2>2, <2>5, StillIs
  <2> QED BY <1>0, <2>1, <2>2, <2>6, SameButIs DEF Stays, Writes, Still
<1>6. ASSUME UNCHANGED <<trail, carried, abandoned, opened, store>>, settled \subseteq settled',
             NEW d, Like(c, d), calls' = (calls \ {c}) \cup {d}, c.kind # "checkin"
      PROVE  Stays
  <2>1. CallsGrow(store', Here)
    BY <1>6, LikeItself DEF CallsGrow
  <2>2. Sole(calls, "checkin") => Sole(calls', "checkin")
    BY <1>6 DEF Sole, Like
  <2>3. Still
    BY <1>0, <1>6, <2>1, <2>2 DEF Still
  <2> QED BY <1>6, <2>3, StillStays DEF SameBut
<1>7. CASE AfterUploaded(c)
  <2>1. PICK d : d = [c EXCEPT !.stage = "served"]
    OBVIOUS
  <2>2. Like(c, d)
    BY <1>0, <2>1 DEF Like, Call
  <2>3. /\ UNCHANGED <<trail, carried, abandoned, opened, store, settled>>
        /\ calls' = (calls \ {c}) \cup {d} /\ c.kind # "checkin"
    BY <1>7, <2>1 DEF AfterUploaded, Stay
  <2> QED BY <1>0, <1>6, <2>2, <2>3
<1>8. CASE CloseServed(c)
  <2>1. PICK d : d = [c EXCEPT !.stage = "served", !.pending = c.visit \in reading]
    OBVIOUS
  <2>2. Like(c, d)
    BY <1>0, <2>1 DEF Like, Call
  <2>3. /\ UNCHANGED <<trail, carried, abandoned, opened, store>> /\ settled \subseteq settled'
        /\ calls' = (calls \ {c}) \cup {d} /\ c.kind # "checkin"
    BY <1>8, <2>1 DEF CloseServed, Stay
  <2> QED BY <1>6, <2>2, <2>3
<1>9. CASE CloseAnswered(c)
  <2>1. PICK x : x = [visit |-> c.visit, pending |-> c.pending]
    OBVIOUS
  <2>2. store' = [store EXCEPT !.checkout = {x}, !.stamped = TRUE]
    BY <1>9, <2>1 DEF CloseAnswered
  <2>3. /\ store'.shop = store.shop /\ store'.visit = store.visit /\ store'.shelf = store.shelf
        /\ store'.photo = store.photo /\ store'.review = store.review
        /\ store'.tasks = store.tasks /\ store'.after = store.after
        /\ store'.analysis = store.analysis /\ store'.checkout = {x}
    BY <1>0, <2>2 DEF Visit
  <2>4. /\ UNCHANGED <<trail, carried, abandoned, opened, settled>> /\ calls' \subseteq calls
        /\ c.kind = "close" /\ c.stage = "served"
    BY <1>9 DEF CloseAnswered, server
  <2>5. Still
    BY <1>0, <2>4, SubsetIsStill
  <2>6. Writes(store')
    BY <1>0, <2>1, <2>3, <2>4 DEF Writes
  <2> QED BY <2>3, <2>4, <2>5, <2>6 DEF Stays, Still
<1>10. CASE CloseFails(c)
  <2>1. /\ UNCHANGED <<trail, carried, abandoned, opened>> /\ calls' \subseteq calls
        /\ c.kind = "close" /\ settled \subseteq settled'
        /\ store' = store \/ (store' = [store EXCEPT !.stamped = TRUE] /\ c.visit \in settled')
    BY <1>0, <1>10 DEF CloseFails
  <2>2. Still
    BY <2>1, SubsetGrows DEF Still
  <2>3. CASE store' = store
    BY <2>2, <2>3, StillStays DEF SameBut
  <2>4. CASE store' = [store EXCEPT !.stamped = TRUE] /\ c.visit \in settled'
    <3>1. SameBut(store', "stamped")
      BY <1>0, <2>4 DEF SameBut, Fields, Visit
    <3>2. /\ store'.shop = store.shop /\ store'.visit = store.visit
          /\ store'.shelf = store.shelf /\ store'.photo = store.photo
          /\ store'.review = store.review /\ store'.tasks = store.tasks
          /\ store'.after = store.after /\ store'.analysis = store.analysis
          /\ store'.checkout = store.checkout
      BY <3>1, SameButIs
    <3>3. Writes(store')
      BY <2>1, <2>4, <3>2 DEF Writes
    <3> QED BY <2>2, <3>2, <3>3 DEF Stays, Still
  <2> QED BY <2>1, <2>3, <2>4
<1> QED BY <1>1, <1>2, <1>3, <1>4, <1>5, <1>7, <1>8, <1>9, <1>10

LEMMA AfterReadStays ==
  ASSUME Typed, NEW v \in reading, AfterRead(v)
  PROVE  Stays
<1>1. TypeOK /\ UNCHANGED <<trail, carried, abandoned, opened, settled, store, calls>>
  BY DEF Typed, AfterRead, Stay
<1> QED BY <1>1, SubsetIsStill, StillStays DEF SameBut

\* A visit begins: the store is empty, and what was out is remembered as abandoned.
Forgets ==
  \E p, cs, s : /\ p \in Way /\ s \in Shops \cup {NoShop} /\ cs \subseteq calls
                /\ Here' = p /\ store' = Fresh(s) /\ p.step \in {"CHECKIN", "ROUTE"}
                /\ p.step = "CHECKIN" => p.shop = s
                /\ \A d \in calls' : d \in Call /\ \E c \in cs : Alike(c, d)
                /\ abandoned \cup (KindsOf(cs) \ {"handoff", "upload"}) \subseteq abandoned'
                /\ carried \subseteq carried'
                /\ At("CAPTURE") => \A c \in cs : c.kind = "intake" =>
                                      \A x \in c.photo : x.n \in carried'
                /\ (Sole(calls, "close") => Sole(calls', "close"))
                /\ UNCHANGED server

LEMMA SoleSubset ==
  ASSUME NEW cs, NEW ds, ds \subseteq cs, NEW k, Sole(cs, k)
  PROVE  Sole(ds, k)
BY DEF Sole

LEMMA SoleMoved ==
  ASSUME TypeOK, NEW p, NEW st, NEW cs, NEW wiped, Moved(p, st, cs, wiped),
         NEW k \in {"checkin", "close"}, Sole(calls, k)
  PROVE  Sole(calls', k)
<1>1. /\ p \in Way /\ cs \subseteq calls /\ cs \subseteq Call /\ store' \in Visit
      /\ calls' = Started(p, store', Unmounted(cs))
  BY MovedIs DEF Moved, TypeOK
<1>2. Sole(Unmounted(cs), k) /\ Unmounted(cs) \subseteq Call
  BY <1>1, SoleSubset, SoleUnmounted, UnmountedIs
<1> QED BY <1>1, <1>2, SoleStarted

LEMMA FreshForgets ==
  ASSUME Typed, NEW p, NEW st, NEW cs, NEW wiped, Moved(p, st, cs, wiped), UNCHANGED server,
         NEW s \in Shops \cup {NoShop}, store' = Fresh(s), p.step \in {"CHECKIN", "ROUTE"},
         p.step = "CHECKIN" => p.shop = s, wiped \/ Begins(p, st)
  PROVE  Forgets
<1>1. /\ p \in Way /\ cs \subseteq calls /\ Here' = p
      /\ abandoned' = abandoned \cup (KindsOf(cs) \ {"handoff", "upload"})
      /\ carried \subseteq carried'
      /\ At("CAPTURE") => {x.n : x \in Undecided(st, cs)} \subseteq carried'
  BY DEF Moved
<1>2. store'.visit = 0 /\ calls' \subseteq Call
  BY FreshIs, MovedIs DEF Typed
<1>3. \A d \in calls' : \E c \in cs : Alike(c, d)
  BY <1>2, MovedIs DEF Typed, StartedBy
<1>4. At("CAPTURE") => \A c \in cs : c.kind = "intake" => \A x \in c.photo : x.n \in carried'
  BY <1>1, UndecidedIs
<1>5. Sole(calls, "close") => Sole(calls', "close")
  BY SoleMoved DEF Typed
<1> QED BY <1>1, <1>2, <1>3, <1>4, <1>5 DEF Forgets

LEMMA BeginsAnewForgets ==
  ASSUME Typed, BeginsAnew
  PROVE  Forgets
<1>1. PICK p, s : /\ s \in Shops \cup {NoShop} /\ p.step \in {"CHECKIN", "ROUTE"}
                  /\ p.step = "CHECKIN" => p.shop = s
                  /\ Moved(p, Fresh(s), calls, TRUE)
  BY DEF BeginsAnew
<1>2. ~Begins(p, Fresh(s))
  BY <1>1, FreshIs DEF Begins
<1>3. store' = Fresh(s) /\ UNCHANGED server
  BY <1>1, <1>2 DEF Moved, Arriving, BeginsAnew
<1> QED BY <1>1, <1>3, FreshForgets

LEMMA BeginningForgets ==
  ASSUME Typed, NEW p, NEW st, NEW cs, Moved(p, st, cs, FALSE), Begins(p, st), UNCHANGED server
  PROVE  Forgets
<1>1. p.step = "CHECKIN" /\ p \in Way /\ store' = Fresh(p.shop)
  BY DEF Moved, Arriving, Begins
<1>2. PICK s : s = p.shop
  OBVIOUS
<1>3. s \in Shops \cup {NoShop}
  BY <1>1, <1>2 DEF Way
<1> QED BY <1>1, <1>2, <1>3, FreshForgets

\* A step of the visit that moves, which forgets nothing.
MovesWithin ==
  /\ \E p, st, cs : /\ Moved(p, st, cs, FALSE) /\ ~Begins(p, st) /\ Onward(p, st)
                    /\ Writes(st) /\ store' = st
  /\ UNCHANGED server

\* Every step is of one of four shapes.
LEMMA Shapes ==
  ASSUME Typed, [Next]_vars
  PROVE  \/ Forgets \/ MovesWithin \/ Stays \/ \E c \in calls : CheckedIn(c)
<1>1. TypeOK /\ Placed /\ Asked
  BY DEF Typed
<1>2. CASE UNCHANGED vars
  <2>1. UNCHANGED <<trail, carried, abandoned, opened, settled, store, calls>>
    BY <1>2 DEF vars, server
  <2> QED BY <1>1, <2>1, SubsetIsStill, StillStays DEF SameBut
<1>3. MovesOn => MovesWithin \/ Forgets
  <2>1. SUFFICES ASSUME MovesOn PROVE MovesWithin \/ Forgets
    OBVIOUS
  <2>2. PICK p, st, cs : Moved(p, st, cs, FALSE) /\ Onward(p, st) /\ Writes(st)
    BY <2>1 DEF MovesOn
  <2>3. UNCHANGED server
    BY <2>1 DEF MovesOn
  <2>4. CASE Begins(p, st)
    BY <2>2, <2>3, <2>4, BeginningForgets
  <2>5. CASE ~Begins(p, st)
    <3>1. store' = st
      BY <2>2, <2>5 DEF Moved, Arriving
    <3> QED BY <2>2, <2>3, <2>5, <3>1 DEF MovesWithin
  <2> QED BY <2>4, <2>5
<1>4. CASE \/ GuardBlocks \/ NothingToProcess \/ BackButton \/ CarryOn \/ ConsentGate
           \/ RetakeAfterFailure \/ LeaveQueued \/ ResultButtons \/ TasksButton \/ CompareButton
           \/ (GoTasks /\ store.visit = 0)
  BY <1>1, <1>3, <1>4, WalkGoesOn, GoesOnMovesOn
<1>5. CASE BackKey \/ \E c \in calls : HandOver(c)
  BY <1>1, <1>3, <1>5, BackKeyGoesOn, HandOverGoesOn, GoesOnMovesOn
<1>6. CASE \/ Consent \/ StartCheckIn \/ Shoot \/ ShootWithoutCamera \/ Retake
           \/ RetryAnalysis \/ DecideGaps \/ (GoTasks /\ store.visit # 0)
           \/ ShootAfter \/ ShootAfterWithoutCamera \/ AskAgain \/ GiveUp \/ RetryClose
  BY <1>6, ScreensStay
<1>7. CASE (\E s \in Shops : OpenShop(s) \/ NextShop(s)) \/ EndRoute
  BY <1>1, <1>7, NextVisitBegins, BeginsAnewForgets
<1>8. CASE (\E x \in Shelves : ChooseShelf(x)) \/ UsePhoto \/ \E c \in calls : Analysed(c)
  BY <1>1, <1>3, <1>8, OthersMoveOn
<1>9. ASSUME NEW c \in calls, TasksListed(c)
      PROVE  Forgets \/ MovesWithin \/ Stays
  <2>1. c.kind \in {"tasks", "list"}
    BY <1>9 DEF TasksListed
  <2> QED BY <1>1, <1>3, <1>9, <2>1, OthersMoveOn, AnswersStay
<1>10. ASSUME NEW c \in calls,
             \/ CheckInFails(c) \/ Taken(c) \/ IntakeFails(c) \/ AnalysisFails(c) \/ TasksFail(c)
             \/ TakenAfter(c) \/ AfterUploaded(c) \/ AfterSeen(c) \/ AfterFails(c)
             \/ CloseServed(c) \/ CloseAnswered(c) \/ CloseFails(c)
      PROVE  Stays
  BY <1>10, AnswersStay
<1>11. ASSUME NEW v \in reading, AfterRead(v) PROVE Stays
  BY <1>11, AfterReadStays
<1> QED BY <1>2, <1>4, <1>5, <1>6, <1>7, <1>8, <1>9, <1>10, <1>11 DEF Next, RunStep, CloseStep

-----------------------------------------------------------------------------
(* What is out is of the visit.                                             *)

Own == Staging /\ CheckIns /\ Shot /\ OwnCalls /\ Runs /\ Kept

LEMMA ForgetsOwn ==
  ASSUME Typed, Own, Forgets
  PROVE  Own'
<1>1. PICK p, cs, s :
        /\ p \in Way /\ s \in Shops \cup {NoShop} /\ cs \subseteq calls
        /\ Here' = p /\ store' = Fresh(s) /\ p.step \in {"CHECKIN", "ROUTE"}
        /\ p.step = "CHECKIN" => p.shop = s
        /\ \A d \in calls' : d \in Call /\ \E c \in cs : Alike(c, d)
        /\ abandoned \cup (KindsOf(cs) \ {"handoff", "upload"}) \subseteq abandoned'
        /\ carried \subseteq carried'
        /\ At("CAPTURE") => \A c \in cs : c.kind = "intake" =>
                              \A x \in c.photo : x.n \in carried'
  BY DEF Forgets
<1>2. store'.shop = s /\ store'.visit = 0 /\ store'.review = {} /\ store'.photo = {}
  BY <1>1, FreshIs
<1>3. Staging'
  BY <1>2 DEF Staging
<1>4. \A d \in calls' : d.kind \in {"handoff", "upload"} \/ d.kind \in abandoned'
  BY <1>1 DEF KindsOf, Alike
<1>5. CheckIns'
  BY <1>1, <1>2, <1>4 DEF CheckIns, At
<1>6. Shot'
  BY <1>1, <1>2 DEF Own, Shot, Alike, StandIn
<1>7. OwnCalls'
  BY <1>4 DEF OwnCalls, Lasting
<1>8. Runs'
  BY <1>4 DEF Runs
<1>9. Kept'
  <2>1. SUFFICES ASSUME "checkin" \notin abandoned'
                 PROVE  Kept'
    BY DEF Kept
  <2>2. ASSUME NEW d \in calls', d.kind = "intake", NEW x \in d.photo PROVE x.n \in carried'
    <3>1. PICK c \in cs : c.kind = "intake" /\ x \in c.photo
      BY <1>1, <2>2 DEF Alike
    <3>2. x.n \notin carried => At("CAPTURE")
      BY <1>1, <2>1, <3>1 DEF Own, Kept
    <3> QED BY <1>1, <3>1, <3>2
  <2>3. ~At("PROCESSING")'
    BY <1>1 DEF At
  <2> QED BY <1>2, <2>2, <2>3 DEF Kept
<1> QED BY <1>3, <1>5, <1>6, <1>7, <1>8, <1>9 DEF Own

LEMMA MovesOwn ==
  ASSUME Typed, Own, MovesWithin
  PROVE  Own'
<1>1. PICK p, st, cs : /\ Moved(p, st, cs, FALSE) /\ ~Begins(p, st) /\ Onward(p, st)
                       /\ Writes(st) /\ store' = st
  BY DEF MovesWithin
<1>2. /\ p \in Way /\ cs \subseteq calls /\ cs \subseteq Call /\ Here' = p
      /\ abandoned \subseteq abandoned' /\ carried \subseteq carried'
      /\ At("PROCESSING") => KindsOf(cs) \cap {"analyse"} \subseteq abandoned'
      /\ At("CAPTURE") => {x.n : x \in Undecided(st, cs)} \subseteq carried'
      /\ p.step = "PROCESSING" /\ st = store => {x.n : x \in st.photo} \subseteq carried'
  BY <1>1 DEF Moved, Typed, TypeOK
<1>3. \A d \in calls' : (\E c \in cs : Alike(c, d)) \/ StartedBy(p, st, cs, d)
  BY <1>1, MovedIs DEF Typed
<1>4. st.shop = store.shop /\ st.visit = store.visit
  BY <1>1 DEF Writes
<1>5. \A d \in calls' : (\E c \in cs : Alike(c, d)) \/
        (/\ d.visit = st.visit /\ d.kind \in {"analyse", "list", "close"}
         /\ d.kind = "analyse" => p.step = "PROCESSING" /\ d.photo = st.photo
         /\ d.kind # "analyse" => d.photo = {})
  BY <1>3, AskVisit DEF StartedBy
<1>6. Staging'
  BY <1>1, <1>4, NoneAssumption DEF Own, Staging, Onward
<1>7. CheckIns'
  <2>1. At("CHECKIN")' => store'.shop = Here'.shop
    BY <1>1, <1>2 DEF At, Begins
  <2>2. ASSUME "checkin" \notin abandoned'
        PROVE  \A d \in calls' : d.kind = "checkin" => /\ d.shop = store'.shop /\ d.visit = 0
                                                       /\ store'.visit = 0
    BY <1>1, <1>2, <1>4, <1>5, <2>2 DEF Own, CheckIns, Alike
  <2>3. ASSUME "checkin" \notin abandoned'
        PROVE  \A c, d \in calls' : c.kind = "checkin" /\ d.kind = "checkin" => c = d
    <3>1. Sole(calls, "checkin")
      BY <1>2, <2>3 DEF Own, CheckIns, Sole
    <3>2. Sole(calls', "checkin")
      BY <1>1, <3>1, SoleMoved DEF Typed
    <3> QED BY <2>2, <2>3, <3>2 DEF Sole
  <2> QED BY <2>1, <2>2, <2>3 DEF CheckIns
<1>8. \A x \in st.photo : Real(x)
  BY <1>1 DEF Own, Shot, Onward
<1>9. Shot'
  <2>1. \A d \in calls' : \A x \in d.photo : Real(x)
    BY <1>2, <1>5, <1>8 DEF Own, Shot, Alike
  <2>2. store'.review # {StandIn} => \A x \in store'.review : Real(x)
    BY <1>1 DEF Own, Shot, Onward
  <2> QED BY <1>1, <1>8, <2>1, <2>2 DEF Shot, Real
<1>10. OwnCalls'
  BY <1>1, <1>2, <1>4, <1>5 DEF Own, OwnCalls, Alike
<1>11. Runs'
  <2>1. SUFFICES ASSUME "analyse" \notin abandoned', NEW d \in calls', d.kind = "analyse"
                 PROVE  At("PROCESSING")' /\ d.photo \subseteq store'.photo
    BY DEF Runs
  <2>2. ~\E c \in cs : Alike(c, d)
    <3>1. ASSUME NEW c \in cs, c.kind = "analyse" PROVE FALSE
      BY <1>2, <2>1, <3>1 DEF Own, Runs, KindsOf
    <3> QED BY <2>1, <3>1 DEF Alike
  <2> QED BY <1>1, <1>2, <1>5, <2>1, <2>2 DEF At
<1>12. Kept'
  <2>1. SUFFICES ASSUME "checkin" \notin abandoned'
                 PROVE  Kept'
    BY DEF Kept
  <2>2. /\ store.review # {StandIn} =>
             \A x \in store.review : x.n \notin carried => At("CAPTURE") /\ Matches(x)
        /\ \A c \in calls : c.kind = "intake" =>
             \A x \in c.photo : x.n \notin carried => At("CAPTURE") /\ Matches(x)
    BY <1>2, <2>1 DEF Own, Kept
  <2>3. ASSUME store'.review # {StandIn}, NEW x \in store'.review PROVE x.n \in carried'
    <3>1. x \in store.review /\ store.review = store'.review
      BY <1>1, <2>3 DEF Onward
    <3>2. x \in Undecided(st, cs)
      BY <1>1, <2>3, UndecidedIs
    <3> QED BY <1>2, <2>2, <2>3, <3>1, <3>2
  <2>4. ASSUME NEW d \in calls', d.kind = "intake", NEW x \in d.photo PROVE x.n \in carried'
    <3>1. PICK c \in cs : c.kind = "intake" /\ x \in c.photo
      BY <1>5, <2>4 DEF Alike
    <3>2. x \in Undecided(st, cs)
      BY <3>1, UndecidedIs
    <3> QED BY <1>2, <2>2, <3>1, <3>2
  <2>5. ASSUME At("PROCESSING")', NEW x \in store'.photo, x.n \notin carried'
        PROVE  Matches(x)'
    <3>1. p.step = "PROCESSING" /\ st # store
      BY <1>1, <1>2, <2>5 DEF At
    <3>2. /\ At("CAPTURE") /\ st.shelf = store.shelf
          /\ st.photo = IF store.review = {StandIn} THEN store.photo ELSE store.review
      BY <1>1, <3>1 DEF Onward
    <3>3. store.review # {StandIn}
      <4>1. store.review = {StandIn} => x \in Undecided(st, cs)
        BY <1>1, <2>5, UndecidedIs
      <4> QED BY <1>2, <2>5, <3>2, <4>1
    <3>4. x \in store.review /\ x.n \notin carried
      BY <1>1, <1>2, <2>5, <3>2, <3>3
    <3> QED BY <1>1, <1>4, <2>2, <3>2, <3>3, <3>4 DEF Matches
  <2> QED BY <2>3, <2>4, <2>5 DEF Kept
<1> QED BY <1>6, <1>7, <1>9, <1>10, <1>11, <1>12 DEF Own

LEMMA StaysOwn ==
  ASSUME Typed, Own, Stays
  PROVE  Own'
<1>1. /\ trail' = trail /\ carried' = carried /\ abandoned \subseteq abandoned'
      /\ store'.shop = store.shop /\ store'.visit = store.visit
      /\ store'.shelf = store.shelf /\ store'.photo = store.photo
  BY DEF Stays, Writes
<1>2. Here' = Here
  BY <1>1 DEF Here
<1>3. \A d \in calls' :
         \/ \E c \in calls : Like(c, d)
         \/ d.kind \in {"handoff", "upload"} /\ \E c \in calls : d.photo = c.photo
         \/ Begun(d, store', Here)
  BY DEF Stays, CallsGrow
<1>4. Staging'
  BY <1>1 DEF Own, Staging
<1>5. CheckIns'
  <2>1. At("CHECKIN") => store.shop = Here.shop
    BY DEF Own, CheckIns
  <2>2. At("CHECKIN")' => store'.shop = Here'.shop
    BY <1>1, <1>2, <2>1 DEF At
  <2>3. ASSUME "checkin" \notin abandoned'
        PROVE  \A d \in calls' : d.kind = "checkin" => /\ d.shop = store'.shop /\ d.visit = 0
                                                       /\ store'.visit = 0
    BY <1>1, <1>3, <2>1, <2>3 DEF Own, CheckIns, Like, Begun, At
  <2>4. ASSUME "checkin" \notin abandoned'
        PROVE  \A c, d \in calls' : c.kind = "checkin" /\ d.kind = "checkin" => c = d
    <3>1. Sole(calls, "checkin")
      BY <1>1, <2>4 DEF Own, CheckIns, Sole
    <3>2. Sole(calls', "checkin")
      BY <2>4, <3>1 DEF Stays
    <3> QED BY <2>3, <2>4, <3>2 DEF Sole
  <2> QED BY <2>2, <2>3, <2>4 DEF CheckIns
<1>6. Shot'
  <2>1. \A d \in calls' : \A x \in d.photo : Real(x)
    BY <1>1, <1>3 DEF Own, Shot, Like, Begun
  <2>2. store'.review # {StandIn} => \A x \in store'.review : Real(x)
    BY DEF Own, Shot, Stays
  <2> QED BY <1>1, <2>1, <2>2 DEF Own, Shot, Real
<1>7. OwnCalls'
  <2>1. SUFFICES ASSUME "checkin" \notin abandoned', NEW d \in calls'
                 PROVE  /\ d.kind \in Lasting \ abandoned' => d.visit = store'.visit
                        /\ d.kind = "intake" /\ "intake" \notin abandoned' =>
                             \A x \in d.photo : x.visit = store'.visit
    BY DEF OwnCalls
  <2>2. CASE \E c \in calls : Like(c, d)
    BY <1>1, <2>1, <2>2 DEF Own, OwnCalls, Like
  <2>3. CASE d.kind \in {"handoff", "upload"}
    BY <2>3 DEF Lasting
  <2>4. CASE Begun(d, store', Here)
    BY <2>4 DEF Begun
  <2> QED BY <1>3, <2>2, <2>3, <2>4
<1>8. Runs'
  BY <1>1, <1>2, <1>3 DEF Own, Runs, Like, Begun, At
<1>9. Kept'
  <2>1. SUFFICES ASSUME "checkin" \notin abandoned'
                 PROVE  Kept'
    BY DEF Kept
  <2>2. /\ store.review # {StandIn} =>
             \A x \in store.review : x.n \notin carried => At("CAPTURE") /\ Matches(x)
        /\ \A c \in calls : c.kind = "intake" =>
             \A x \in c.photo : x.n \notin carried => At("CAPTURE") /\ Matches(x)
        /\ At("PROCESSING") => \A x \in store.photo : x.n \notin carried => Matches(x)
    BY <1>1, <2>1 DEF Own, Kept
  <2>3. \A x : Matches(x)' <=> Matches(x)
    BY <1>1 DEF Matches
  <2>4. \A step : At(step)' <=> At(step)
    BY <1>2 DEF At
  <2>5. ASSUME store'.review # {StandIn}, NEW x \in store'.review, x.n \notin carried
        PROVE  At("CAPTURE") /\ Matches(x)
    BY <2>2, <2>5 DEF Stays
  <2>6. ASSUME NEW d \in calls', d.kind = "intake", NEW x \in d.photo, x.n \notin carried
        PROVE  At("CAPTURE") /\ Matches(x)
    BY <1>1, <1>3, <2>2, <2>6 DEF Like, Begun, At, Matches
  <2> QED BY <1>1, <2>2, <2>3, <2>4, <2>5, <2>6 DEF Kept
<1> QED BY <1>4, <1>5, <1>6, <1>7, <1>8, <1>9 DEF Own

LEMMA CheckedInIs ==
  ASSUME Typed, NEW c \in calls, CheckedIn(c)
  PROVE  /\ c.kind = "checkin" /\ opened' = Append(opened, c.shop)
         /\ store'.visit = Len(opened) + 1 /\ store'.visit # 0 /\ ~store'.stamped
         /\ store'.shop = store.shop /\ store'.shelf = store.shelf
         /\ store'.photo = store.photo /\ store'.review = store.review
         /\ store'.tasks = store.tasks /\ store'.after = store.after
         /\ store'.analysis = store.analysis /\ store'.checkout = store.checkout
         /\ UNCHANGED <<trail, screen, abandoned, carried, settled>>
         /\ \E d : calls' = (calls \ {c}) \cup {d} /\ d.kind = "handoff" /\ d.photo = c.photo
<1>1. store \in Visit /\ c \in Call /\ Len(opened) \in Nat
  BY LenOpened DEF Typed, TypeOK
<1>2. PICK d : d = [c EXCEPT !.kind = "handoff"]
  OBVIOUS
<1>3. calls' = (calls \ {c}) \cup {d} /\ d.kind = "handoff" /\ d.photo = c.photo
  BY <1>1, <1>2 DEF CheckedIn, Call
<1> QED BY <1>1, <1>3 DEF CheckedIn, Visit, Stay

LEMMA CheckedInOwn ==
  ASSUME Typed, Own, NEW c \in calls, CheckedIn(c)
  PROVE  Own'
<1>1. /\ c.kind = "checkin" /\ store'.visit # 0
      /\ store'.shop = store.shop /\ store'.shelf = store.shelf
      /\ store'.photo = store.photo /\ store'.review = store.review
      /\ trail' = trail /\ abandoned' = abandoned /\ carried' = carried
  BY CheckedInIs
<1>2. PICK d : calls' = (calls \ {c}) \cup {d} /\ d.kind = "handoff" /\ d.photo = c.photo
  BY CheckedInIs
<1>3. Here' = Here /\ \A step : At(step)' <=> At(step)
  BY <1>1 DEF Here, At
<1>4. Staging'
  BY <1>1 DEF Own, Staging
<1>5. "checkin" \notin abandoned => store.visit = 0
  BY <1>1 DEF Own, CheckIns
<1>6. CheckIns'
  BY <1>1, <1>2, <1>3 DEF Own, CheckIns
<1>7. Shot'
  BY <1>1, <1>2 DEF Own, Shot, Real
<1>8. ASSUME "checkin" \notin abandoned, NEW e \in calls'
      PROVE  e.kind \notin Lasting \ abandoned
             /\ ~(e.kind = "intake" /\ "intake" \notin abandoned)
  <2>1. CASE e \in calls
    <3>1. e.kind \notin Outside => e.visit # 0
      BY <2>1 DEF Typed, Asked
    <3>2. e.kind \in Lasting \ abandoned => e.visit = 0
      BY <1>5, <1>8, <2>1 DEF Own, OwnCalls
    <3> QED BY <3>1, <3>2 DEF Lasting, Outside
  <2>2. CASE e = d
    BY <1>2, <2>2 DEF Lasting
  <2> QED BY <1>2, <2>1, <2>2
<1>9. OwnCalls'
  BY <1>1, <1>8 DEF OwnCalls
<1>10. Runs'
  BY <1>1, <1>2, <1>3 DEF Own, Runs
<1>11. Kept'
  <2>1. SUFFICES ASSUME "checkin" \notin abandoned
                 PROVE  Kept'
    BY <1>1 DEF Kept
  <2>2. \A x : Matches(x) /\ Real(x) => FALSE
    BY <1>5, <2>1 DEF Matches, Real
  <2>3. /\ store.review # {StandIn} => \A x \in store.review : x.n \in carried
        /\ \A e \in calls : e.kind = "intake" => \A x \in e.photo : x.n \in carried
        /\ At("PROCESSING") => \A x \in store.photo : x.n \in carried
    BY <2>1, <2>2 DEF Own, Kept, Shot
  <2> QED BY <1>1, <1>2, <1>3, <2>3 DEF Kept
<1> QED BY <1>4, <1>6, <1>7, <1>9, <1>10, <1>11 DEF Own

LEMMA NextOwn ==
  ASSUME Typed, Own, [Next]_vars
  PROVE  Own'
BY Shapes, ForgetsOwn, MovesOwn, StaysOwn, CheckedInOwn

LEMMA InitOwn ==
  ASSUME Init
  PROVE  Own
<1>1. NoShop \in Shops \cup {NoShop}
  OBVIOUS
<1>2. /\ store.visit = 0 /\ store.review = {} /\ store.photo = {} /\ calls = {}
  BY <1>1, FreshIs DEF Init
<1>3. ~At("CHECKIN")
  BY DEF Init, At, Here
<1> QED BY <1>2, <1>3 DEF Own, Staging, CheckIns, Shot, OwnCalls, Runs, Kept

-----------------------------------------------------------------------------
(* The close requests.                                                      *)

Lone == \A x, y \in store.checkout : x = y
Close == Served /\ OneClose /\ Awaited /\ Lone

\* What the steps but an answer with the summary and a screen that asks again
\* do to the close requests.
CloseFrame ==
  /\ settled \subseteq settled' /\ abandoned \subseteq abandoned'
  /\ store'.checkout \in {store.checkout, {}}
  /\ \A d \in calls' : d.kind = "close" =>
       \/ \E c \in calls : /\ c.kind = "close" /\ c.visit = d.visit
                           /\ d.stage = "served" => c.stage = "served" \/ c.visit \in settled'
       \/ d.stage = "sent" /\ store'.checkout = {}
  /\ Sole(calls, "close") => Sole(calls', "close")

LEMMA FrameClose ==
  ASSUME Close, CloseFrame
  PROVE  Close'
<1>1. Served'
  BY DEF Close, Served, CloseFrame
<1>2. OneClose'
  BY DEF Close, OneClose, CloseFrame, Sole
<1>3. Awaited'
  BY DEF Close, Awaited, CloseFrame
<1>4. Lone'
  BY DEF Close, Lone, CloseFrame
<1> QED BY <1>1, <1>2, <1>3, <1>4 DEF Close

\* No step but these has to do with a close request.
LEMMA OthersFrame ==
  ASSUME Typed, calls' \subseteq calls \cup {d \in Call : d.kind # "close"},
         store'.checkout \in {store.checkout, {}}, settled \subseteq settled',
         abandoned \subseteq abandoned'
  PROVE  CloseFrame
BY DEF CloseFrame, Sole

LEMMA MovedFrame ==
  ASSUME Typed, NEW p, NEW st, NEW cs, NEW wiped, Moved(p, st, cs, wiped), UNCHANGED server,
         st.checkout \in {store.checkout, {}}
  PROVE  CloseFrame
<1>1. TypeOK /\ cs \subseteq calls
  BY DEF Typed, Moved
<1>2. settled \subseteq settled' /\ abandoned \subseteq abandoned'
  BY DEF Moved, server
<1>3. store'.checkout \in {store.checkout, {}}
  <2>1. CASE Begins(p, st)
    <3>1. PICK s : s = p.shop
      OBVIOUS
    <3>2. store' = Fresh(s) /\ s \in Shops \cup {NoShop}
      BY <2>1, <3>1 DEF Moved, Arriving, Way
    <3> QED BY <3>2, FreshIs
  <2>2. CASE ~Begins(p, st)
    BY <2>2 DEF Moved, Arriving
  <2> QED BY <2>1, <2>2
<1>4. \A d \in calls' : d.kind = "close" =>
        \/ \E c \in calls : c.kind = "close" /\ c.visit = d.visit /\ c.stage = d.stage
        \/ d.stage = "sent" /\ store'.checkout = {}
  BY <1>1, MovedIs, AskVisit DEF Alike, StartedBy
<1>5. Sole(calls, "close") => Sole(calls', "close")
  BY <1>1, SoleMoved
<1> QED BY <1>2, <1>3, <1>4, <1>5 DEF CloseFrame

LEMMA StartedFrame ==
  ASSUME Typed, store' = store, calls' = Started(Here, store, calls), settled' = settled,
         abandoned' = abandoned
  PROVE  CloseFrame
<1>1. calls \subseteq Call /\ Here \in Way /\ store \in Visit
  BY HereIs DEF Typed, TypeOK
<1>2. \A d \in calls' : d.kind = "close" =>
        \/ \E c \in calls : c.kind = "close" /\ c.visit = d.visit /\ c.stage = d.stage
        \/ d.stage = "sent" /\ store'.checkout = {}
  <2>1. SUFFICES ASSUME NEW d \in calls', d.kind = "close"
                 PROVE  \/ \E c \in calls : /\ c.kind = "close" /\ c.visit = d.visit
                                              /\ c.stage = d.stage
                        \/ d.stage = "sent" /\ store'.checkout = {}
    OBVIOUS
  <2>2. (\E c \in calls : Alike(c, d)) \/ StartedBy(Here, store, calls, d)
    BY <1>1, <2>1, StartedIs
  <2>3. CASE \E c \in calls : Alike(c, d)
    BY <2>1, <2>3 DEF Alike
  <2>4. CASE StartedBy(Here, store, calls, d)
    BY <2>1, <2>4, AskVisit DEF StartedBy
  <2> QED BY <2>2, <2>3, <2>4
<1>3. Sole(calls, "close") => Sole(calls', "close")
  BY <1>1, SoleStarted
<1> QED BY <1>2, <1>3 DEF CloseFrame

LEMMA ScreensFrame ==
  ASSUME Typed,
         \/ Consent \/ StartCheckIn \/ Shoot \/ ShootWithoutCamera \/ Retake \/ RetryAnalysis
         \/ DecideGaps \/ (GoTasks /\ store.visit # 0) \/ ShootAfter \/ ShootAfterWithoutCamera
         \/ GiveUp \/ RetryClose
  PROVE  CloseFrame
<1>0. TypeOK /\ store \in Visit /\ StoreOK(store) /\ Here \in Way
      /\ (Here.step # "ROUTE" => Here.shop \in Shops) /\ settled \subseteq settled
  BY HereIs, StoreParts DEF Typed, TypeOK, Way
<1>1. CASE Consent \/ ShootWithoutCamera \/ Retake \/ DecideGaps \/ ShootAfterWithoutCamera \/ GiveUp
  <2>1. calls' = calls /\ store'.checkout = store.checkout /\ UNCHANGED <<settled, abandoned>>
    BY <1>0, <1>1 DEF Consent, ShootWithoutCamera, Retake, DecideGaps, ShootAfterWithoutCamera,
                      GiveUp, Stay, server, Visit
  <2> QED BY <2>1, OthersFrame
<1>2. ASSUME NEW d, calls' = calls \cup {d}, d \in Call, d.kind # "close", store' = store,
             settled' = settled, abandoned \subseteq abandoned'
      PROVE  CloseFrame
  BY <1>2, OthersFrame
<1>3. CASE RetryAnalysis \/ RetryClose
  BY <1>3, StartedFrame DEF RetryAnalysis, RetryClose, server
<1>4. CASE StartCheckIn
  <2>1. PICK d : d = Ask("checkin", Here.shop, store, {})
    OBVIOUS
  <2>2. d \in Call /\ d.kind = "checkin"
    BY <1>0, <1>4, <2>1, AskIs DEF StartCheckIn, At, Kinds
  <2> QED BY <1>2, <1>4, <2>1, <2>2 DEF StartCheckIn, server
<1>5. CASE Shoot
  <2>1. PICK x : x = [n |-> shots + 1, visit |-> store.visit, shelf |-> store.shelf]
    OBVIOUS
  <2>2. {x} \in SUBSET Photo /\ Here.shop \in Shops
    BY <1>0, <1>5, <2>1, BoundsHold DEF Shoot, CameraOpen, At, Visit, Photo, TypeOK, Bounds
  <2>3. PICK d : d = Ask("intake", Here.shop, store, {x})
    OBVIOUS
  <2>4. d \in Call /\ d.kind = "intake"
    BY <1>0, <2>2, <2>3, AskIs DEF Kinds
  <2> QED BY <1>2, <1>5, <2>1, <2>3, <2>4 DEF Shoot, Stay, server
<1>6. CASE GoTasks /\ store.visit # 0
  <2>1. PICK d : d = Ask("tasks", Here.shop, store, {})
    OBVIOUS
  <2>2. d \in Call /\ d.kind = "tasks"
    BY <1>0, <1>6, <2>1, AskIs DEF GoTasks, At, Kinds
  <2> QED BY <1>2, <1>6, <2>1, <2>2 DEF GoTasks, Stay, server
<1>7. CASE ShootAfter
  <2>1. PICK d : d = Ask("after", Here.shop, store, {})
    OBVIOUS
  <2>2. d \in Call /\ d.kind = "after"
    BY <1>0, <1>7, <2>1, AskIs DEF ShootAfter, At, Kinds
  <2> QED BY <1>2, <1>7, <2>1, <2>2 DEF ShootAfter, Stay, server
<1> QED BY <1>1, <1>3, <1>4, <1>5, <1>6, <1>7

LEMMA AnswersFrame ==
  ASSUME Typed, NEW c \in calls,
         \/ CheckedIn(c) \/ CheckInFails(c) \/ Taken(c) \/ IntakeFails(c) \/ AnalysisFails(c)
         \/ TasksFail(c) \/ (TasksListed(c) /\ c.kind = "list")
         \/ TakenAfter(c) \/ AfterUploaded(c) \/ AfterSeen(c) \/ AfterFails(c)
         \/ CloseServed(c) \/ CloseFails(c)
  PROVE  CloseFrame
<1>0. TypeOK /\ Placed /\ store \in Visit /\ c \in Call /\ calls \subseteq Call
  BY DEF Typed, TypeOK
<1>1. CASE CheckedIn(c)
  <2>1. PICK d : d = [c EXCEPT !.kind = "handoff"]
    OBVIOUS
  <2>2. d \in Call /\ d.kind = "handoff" /\ calls' \subseteq calls \cup {d}
    BY <1>0, <1>1, <2>1 DEF CheckedIn, Call, Kinds
  <2> QED BY <1>1, <2>2, CheckedInIs, OthersFrame
<1>2. CASE Taken(c) \/ CheckInFails(c) \/ IntakeFails(c) \/ AnalysisFails(c) \/ TasksFail(c)
           \/ AfterSeen(c) \/ AfterFails(c)
  <2>1. calls' \subseteq calls /\ store'.checkout = store.checkout /\ UNCHANGED <<settled, abandoned>>
    BY <1>0, <1>2 DEF Taken, CheckInFails, IntakeFails, AnalysisFails, TasksFail, AfterSeen,
                      AfterFails, Stay, server, Visit
  <2> QED BY <2>1, OthersFrame
<1>3. CASE TasksListed(c) /\ c.kind = "list"
  <2>1. /\ store' = [store EXCEPT !.tasks = Listed(c.visit)] /\ calls' \subseteq calls
        /\ UNCHANGED <<abandoned, settled>>
    BY <1>0, <1>3, TasksListedMoves DEF server
  <2>2. store'.checkout = store.checkout
    BY <1>0, <2>1 DEF Visit
  <2> QED BY <2>1, <2>2, OthersFrame
<1>4. CASE TakenAfter(c)
  <2>1. PICK d : d = [c EXCEPT !.kind = "upload"]
    OBVIOUS
  <2>2. d \in Call /\ d.kind = "upload" /\ calls' \subseteq calls \cup {d}
    BY <1>0, <1>4, <2>1 DEF TakenAfter, Call, Kinds
  <2>3. store'.checkout = store.checkout /\ UNCHANGED <<settled, abandoned>>
    BY <1>0, <1>4 DEF TakenAfter, Stay, server, Visit
  <2> QED BY <2>2, <2>3, OthersFrame
<1>5. CASE AfterUploaded(c)
  <2>1. PICK d : d = [c EXCEPT !.stage = "served"]
    OBVIOUS
  <2>2. d \in Call /\ d.kind = "upload" /\ calls' \subseteq calls \cup {d}
    BY <1>0, <1>5, <2>1 DEF AfterUploaded, Call
  <2>3. store'.checkout = store.checkout /\ UNCHANGED <<settled, abandoned>>
    BY <1>5 DEF AfterUploaded, Stay
  <2> QED BY <2>2, <2>3, OthersFrame
<1>6. CASE CloseServed(c)
  <2>1. PICK d : d = [c EXCEPT !.stage = "served", !.pending = c.visit \in reading]
    OBVIOUS
  <2>2. d.kind = "close" /\ d.visit = c.visit
    BY <1>0, <1>6, <2>1 DEF CloseServed, Call
  <2>3. /\ calls' = (calls \ {c}) \cup {d} /\ c.kind = "close" /\ c.visit \in settled'
        /\ settled \subseteq settled' /\ abandoned' = abandoned /\ store' = store
    BY <1>6, <2>1 DEF CloseServed, Stay
  <2>4. Sole(calls, "close") => Sole(calls', "close")
    BY <2>2, <2>3 DEF Sole
  <2> QED BY <2>2, <2>3, <2>4 DEF CloseFrame
<1>7. CASE CloseFails(c)
  <2>1. /\ calls' \subseteq calls /\ settled \subseteq settled' /\ abandoned' = abandoned
        /\ store'.checkout = store.checkout
    BY <1>0, <1>7 DEF CloseFails, Visit
  <2> QED BY <2>1, OthersFrame
<1> QED BY <1>1, <1>2, <1>3, <1>4, <1>5, <1>6, <1>7

LEMMA CloseAnsweredClose ==
  ASSUME Typed, Close, NEW c \in calls, CloseAnswered(c)
  PROVE  Close'
<1>1. PICK x : x = [visit |-> c.visit, pending |-> c.pending]
  OBVIOUS
<1>2. store' = [store EXCEPT !.checkout = {x}, !.stamped = TRUE] /\ x.visit = c.visit
  BY <1>1 DEF CloseAnswered
<1>3. /\ calls' = calls \ {c} /\ UNCHANGED <<settled, abandoned>> /\ c.kind = "close"
      /\ store'.checkout = {x}
  BY <1>2 DEF CloseAnswered, server, Typed, TypeOK, Visit
<1>4. Served' /\ OneClose'
  BY <1>3 DEF Close, Served, OneClose
<1>5. \A d \in calls' : d.kind = "close" => d.visit # x.visit
  BY <1>2, <1>3 DEF Close, OneClose
<1>6. Awaited' /\ Lone'
  BY <1>3, <1>5 DEF Awaited, Lone
<1> QED BY <1>4, <1>6 DEF Close

LEMMA AskAgainClose ==
  ASSUME Typed, Close, AskAgain
  PROVE  Close'
<1>1. calls \subseteq Call /\ store \in Visit /\ Here.shop \in Shops
  BY HereIs DEF Typed, TypeOK, AskAgain, At, Way
<1>2. /\ calls' = Closing(calls, store, Here.shop) /\ store' = store /\ settled' = settled
      /\ "refresh" \notin abandoned' =>
           "refresh" \notin abandoned
           /\ \A x \in store.checkout : x.visit = store.visit => x.pending
  BY DEF AskAgain, server
<1>3. PICK new : new = Ask("close", Here.shop, store, {})
  OBVIOUS
<1>4. new.stage = "sent" /\ new.visit = store.visit
  BY <1>3, AskVisit
<1>5. \A d \in calls' : (\E c \in calls : Alike(c, d)) \/ d = new
  BY <1>1, <1>2, <1>3, ClosingIs
<1>6. Served'
  BY <1>2, <1>4, <1>5 DEF Close, Served, Alike
<1>7. OneClose'
  <2>1. Sole(calls, "close")
    BY DEF Close, OneClose, Sole
  <2>2. Sole(calls', "close")
    BY <1>1, <1>2, <2>1, SoleClosing
  <2> QED BY <2>2 DEF OneClose, Sole
<1>8. Awaited' /\ Lone'
  BY <1>2, <1>4, <1>5 DEF Close, Awaited, Lone, Alike
<1> QED BY <1>6, <1>7, <1>8 DEF Close

\* Every step is of one of three shapes.
LEMMA CloseShapes ==
  ASSUME Typed, [Next]_vars
  PROVE  CloseFrame \/ AskAgain \/ \E c \in calls : CloseAnswered(c)
<1>1. TypeOK /\ Placed /\ Asked /\ store \in Visit /\ settled \subseteq settled
  BY DEF Typed, TypeOK
<1>2. CASE UNCHANGED vars
  BY <1>1, <1>2, OthersFrame DEF vars, server
<1>3. GoesOn => CloseFrame
  BY MovedFrame DEF GoesOn
<1>4. CASE \/ GuardBlocks \/ NothingToProcess \/ BackButton \/ CarryOn \/ ConsentGate
           \/ RetakeAfterFailure \/ LeaveQueued \/ ResultButtons \/ TasksButton \/ CompareButton
           \/ (GoTasks /\ store.visit = 0)
  BY <1>1, <1>3, <1>4, WalkGoesOn
<1>5. CASE BackKey \/ \E c \in calls : HandOver(c)
  BY <1>1, <1>3, <1>5, BackKeyGoesOn, HandOverGoesOn
<1>6. CASE \/ Consent \/ StartCheckIn \/ Shoot \/ ShootWithoutCamera \/ Retake
           \/ RetryAnalysis \/ DecideGaps \/ (GoTasks /\ store.visit # 0)
           \/ ShootAfter \/ ShootAfterWithoutCamera \/ GiveUp \/ RetryClose
  BY <1>6, ScreensFrame
<1>7. CASE (\E s \in Shops : OpenShop(s) \/ NextShop(s)) \/ EndRoute
  <2>1. BeginsAnew
    BY <1>1, <1>7, NextVisitBegins
  <2>2. PICK p, s : s \in Shops \cup {NoShop} /\ Moved(p, Fresh(s), calls, TRUE)
    BY <2>1 DEF BeginsAnew
  <2> QED BY <2>1, <2>2, FreshIs, MovedFrame DEF BeginsAnew
<1>8. ASSUME NEW x \in Shelves, ChooseShelf(x) PROVE CloseFrame
  <2>1. PICK st : st = [store EXCEPT !.shelf = x]
    OBVIOUS
  <2>2. st.checkout = store.checkout
    BY <1>1, <2>1 DEF Visit
  <2> QED BY <1>1, <1>8, <2>1, <2>2, ChooseShelfMoves, MovedFrame
<1>9. CASE UsePhoto
  BY <1>1, <1>9, UsePhotoMoves, StagedIs, MovedFrame
<1>10. ASSUME NEW c \in calls, Analysed(c) PROVE CloseFrame
  <2>1. PICK gaps \in {"none", "pending"} :
          Moved(Place("RESULT", c.shop), [store EXCEPT !.analysis = Sent(c), !.gaps = gaps],
                calls \ {c}, FALSE)
    BY <1>1, <1>10, AnalysedMoves
  <2>2. PICK st : st = [store EXCEPT !.analysis = Sent(c), !.gaps = gaps]
    OBVIOUS
  <2>3. st.checkout = store.checkout
    BY <1>1, <2>2 DEF Visit
  <2> QED BY <1>1, <1>10, <2>1, <2>2, <2>3, AnalysedMoves, MovedFrame
<1>11. ASSUME NEW c \in calls, TasksListed(c) PROVE CloseFrame
  <2>1. CASE c.kind = "list"
    BY <1>11, <2>1, AnswersFrame
  <2>2. CASE c.kind # "list"
    <3>1. PICK st : st = [store EXCEPT !.tasks = Listed(c.visit)]
      OBVIOUS
    <3>2. st.checkout = store.checkout
      BY <1>1, <3>1 DEF Visit
    <3> QED BY <1>1, <1>11, <2>2, <3>1, <3>2, TasksListedMoves, MovedFrame
  <2> QED BY <2>1, <2>2
<1>12. ASSUME NEW c \in calls,
             \/ CheckedIn(c) \/ CheckInFails(c) \/ Taken(c) \/ IntakeFails(c) \/ AnalysisFails(c)
             \/ TasksFail(c) \/ TakenAfter(c) \/ AfterUploaded(c) \/ AfterSeen(c) \/ AfterFails(c)
             \/ CloseServed(c) \/ CloseFails(c)
      PROVE  CloseFrame
  BY <1>12, AnswersFrame
<1>13. ASSUME NEW v \in reading, AfterRead(v) PROVE CloseFrame
  BY <1>1, <1>13, OthersFrame DEF AfterRead, Stay
<1> QED BY <1>2, <1>4, <1>5, <1>6, <1>7, <1>8, <1>9, <1>10, <1>11, <1>12, <1>13
    DEF Next, RunStep, CloseStep

LEMMA NextClose ==
  ASSUME Typed, Close, [Next]_vars
  PROVE  Close'
BY CloseShapes, FrameClose, AskAgainClose, CloseAnsweredClose

\* What SummaryNeverGoesBack says of one step.
LEMMA SummaryStep ==
  ASSUME Typed, Close, [Next]_vars, NEW x \in store.checkout, NEW y \in store'.checkout,
         "refresh" \notin abandoned, x.visit = y.visit, y.pending
  PROVE  x.pending
<1>1. store.checkout \subseteq Summary
  BY DEF Typed, TypeOK, Visit
<1>2. ASSUME NEW c \in calls, CloseAnswered(c) PROVE x.pending
  <2>1. c.kind = "close" /\ store'.checkout = {[visit |-> c.visit, pending |-> c.pending]}
    BY <1>2 DEF CloseAnswered, Typed, TypeOK, Visit
  <2>2. x.visit = c.visit
    BY <2>1
  <2> QED BY <2>1, <2>2 DEF Close, Awaited
<1>3. CASE store'.checkout = {}
  BY <1>3
<1>4. CASE store'.checkout = store.checkout
  BY <1>4 DEF Close, Lone
<1> QED BY <1>2, <1>3, <1>4, CloseShapes DEF CloseFrame, AskAgain

-----------------------------------------------------------------------------
(* The properties.                                                          *)

\* The visit in the store through each shape of step.
LEMMA OpenedGrows ==
  ASSUME TypeOK, NEW s, s \in Shops, opened' = Append(opened, s)
  PROVE  /\ \A v \in 1 .. Len(opened) : opened'[v] = opened[v]
         /\ opened'[Len(opened) + 1] = s
BY LenOpened, AppendProperties

LEMMA ForgetsEmpties ==
  ASSUME Forgets
  PROVE  /\ store'.visit = 0 /\ store'.review = {} /\ store'.photo = {} /\ store'.analysis = {}
         /\ store'.tasks = 0 /\ store'.after = 0 /\ store'.checkout = {} /\ ~store'.stamped
         /\ abandoned \subseteq abandoned'
         /\ \A d \in calls' : d.kind \in {"handoff", "upload"} \/ d.kind \in abandoned'
<1>1. PICK p, cs, s :
        /\ s \in Shops \cup {NoShop} /\ cs \subseteq calls /\ store' = Fresh(s)
        /\ \A d \in calls' : d \in Call /\ \E c \in cs : Alike(c, d)
        /\ abandoned \cup (KindsOf(cs) \ {"handoff", "upload"}) \subseteq abandoned'
  BY DEF Forgets
<1>2. \A d \in calls' : d.kind \in {"handoff", "upload"} \/ d.kind \in abandoned'
  BY <1>1 DEF KindsOf, Alike
<1> QED BY <1>1, <1>2, FreshIs

LEMMA WithinWrites ==
  ASSUME Typed, MovesWithin \/ Stays
  PROVE  /\ Writes(store')
         /\ opened' = opened \/ \E s \in Shops : opened' = Append(opened, s)
         /\ \/ store'.review \in {store.review, {}, {StandIn}}
            \/ \E c \in calls : c.kind = "intake" /\ store'.review = c.photo
         /\ store'.photo \in {store.photo, store.review}
         /\ store.review = {StandIn} => store'.photo = store.photo
<1>1. CASE Stays
  BY <1>1 DEF Stays
<1>2. CASE MovesWithin
  <2>1. PICK p, st : Onward(p, st) /\ Writes(st) /\ store' = st
    BY <1>2 DEF MovesWithin
  <2> QED BY <1>2, <2>1 DEF MovesWithin, Onward, server
<1> QED BY <1>1, <1>2

LEMMA VisitStep ==
  ASSUME Typed, Own, NothingOfAnotherVisit, [Next]_vars
  PROVE  NothingOfAnotherVisit'
<1>1. SUFFICES ASSUME "checkin" \notin abandoned'
               PROVE  NothingOfAnotherVisit'
  BY DEF NothingOfAnotherVisit
<1>2. CASE Forgets
  BY <1>2, ForgetsEmpties DEF NothingOfAnotherVisit
<1>3. CASE MovesWithin \/ Stays
  <2>1. /\ store'.shop = store.shop /\ store'.visit = store.visit
        /\ abandoned \subseteq abandoned'
    BY <1>3, WithinWrites DEF Writes
  <2>2. "checkin" \notin abandoned
    BY <1>1, <2>1
  <2>3. store'.visit # 0 => opened'[store'.visit] = store'.shop
    <3>1. store.visit # 0 => opened[store.visit] = store.shop
      BY <2>2 DEF NothingOfAnotherVisit
    <3>2. store.visit # 0 => store.visit \in 1 .. Len(opened)
      BY LenOpened, StoreParts DEF Typed, StoreOK, Known, Visit
    <3>3. opened' = opened \/ \A v \in 1 .. Len(opened) : opened'[v] = opened[v]
      BY <1>3, WithinWrites, OpenedGrows DEF Typed
    <3> QED BY <2>1, <3>1, <3>2, <3>3
  <2>4. "intake" \notin abandoned' =>
          \A x \in store'.review \cup store'.photo : x.n # 0 => x.visit = store'.visit
    <3>1. SUFFICES ASSUME "intake" \notin abandoned', NEW x \in store'.review \cup store'.photo,
                          x.n # 0
                   PROVE  x.visit = store.visit
      BY <2>1
    <3>2. \A y \in store.review \cup store.photo : y.n # 0 => y.visit = store.visit
      BY <2>1, <2>2, <3>1 DEF NothingOfAnotherVisit
    <3>3. \A c \in calls : c.kind = "intake" => \A y \in c.photo : y.visit = store.visit
      BY <2>1, <2>2, <3>1 DEF Own, OwnCalls
    <3>4. \A y \in {StandIn} : y.n = 0
      BY DEF StandIn
    <3> QED BY <1>3, <3>1, <3>2, <3>3, <3>4, WithinWrites
  <2>5. "after" \notin abandoned' => store'.after \in {0, store'.visit}
    <3>1. SUFFICES ASSUME "after" \notin abandoned'
                   PROVE  store'.after \in {0, store.visit}
      BY <2>1
    <3>2. store.after \in {0, store.visit}
      BY <2>1, <2>2, <3>1 DEF NothingOfAnotherVisit
    <3>3. \A c \in calls : c.kind = "after" => c.visit = store.visit
      BY <2>1, <2>2, <3>1 DEF Own, OwnCalls, Lasting
    <3> QED BY <1>3, <3>2, <3>3, WithinWrites DEF Writes
  <2>6. abandoned' \cap {"tasks", "list"} = {} => store'.tasks \in {0, store'.visit}
    <3>1. SUFFICES ASSUME abandoned' \cap {"tasks", "list"} = {}
                   PROVE  store'.tasks \in {0, store.visit}
      BY <2>1
    <3>2. abandoned \cap {"tasks", "list"} = {}
      BY <2>1, <3>1
    <3>3. store.tasks \in {0, store.visit}
      BY <2>2, <3>2 DEF NothingOfAnotherVisit
    <3>4. \A c \in calls : c.kind \in {"tasks", "list"} => c.visit = store.visit
      BY <2>2, <3>2 DEF Own, OwnCalls, Lasting
    <3> QED BY <1>3, <3>3, <3>4, WithinWrites DEF Writes
  <2> QED BY <2>3, <2>4, <2>5, <2>6 DEF NothingOfAnotherVisit
<1>4. ASSUME NEW c \in calls, CheckedIn(c) PROVE NothingOfAnotherVisit'
  <2>1. /\ c.kind = "checkin" /\ opened' = Append(opened, c.shop)
        /\ store'.visit = Len(opened) + 1 /\ store'.shop = store.shop
        /\ store'.photo = store.photo /\ store'.review = store.review
        /\ store'.tasks = store.tasks /\ store'.after = store.after /\ abandoned' = abandoned
    BY <1>4, CheckedInIs
  <2>2. c.shop = store.shop /\ store.visit = 0
    BY <1>1, <2>1 DEF Own, CheckIns
  <2>3. opened'[store'.visit] = store'.shop
    BY <2>1, <2>2, OpenedGrows DEF Typed, TypeOK, Call
  <2>4. \A x \in store.review \cup store.photo : x.n = 0 \/ x.visit # 0
    BY DEF Own, Shot, Real, StandIn
  <2>5. "intake" \notin abandoned => \A x \in store.review \cup store.photo : x.n = 0
    BY <1>1, <2>1, <2>2, <2>4 DEF NothingOfAnotherVisit
  <2>6. /\ "after" \notin abandoned => store.after = 0
        /\ abandoned \cap {"tasks", "list"} = {} => store.tasks = 0
    BY <1>1, <2>1, <2>2 DEF NothingOfAnotherVisit
  <2> QED BY <2>1, <2>3, <2>5, <2>6 DEF NothingOfAnotherVisit
<1> QED BY <1>2, <1>3, <1>4, Shapes

LEMMA VerdictStep ==
  ASSUME Typed, Own, AnalysisOfStagedPhoto, [Next]_vars
  PROVE  AnalysisOfStagedPhoto'
<1>1. SUFFICES ASSUME abandoned' \cap {"analyse", "checkin"} = {}
               PROVE  AnalysisOfStagedPhoto'
  BY DEF AnalysisOfStagedPhoto
<1>2. CASE Forgets
  BY <1>2, ForgetsEmpties DEF AnalysisOfStagedPhoto
<1>3. CASE MovesWithin \/ Stays
  <2>1. store'.visit = store.visit /\ abandoned \subseteq abandoned'
    BY <1>3, WithinWrites DEF Writes
  <2>2. "analyse" \notin abandoned /\ "checkin" \notin abandoned
    BY <1>1, <2>1
  <2>3. \A a \in store.analysis : a.photo \in store.photo /\ a.visit = store.visit
    BY <2>2 DEF AnalysisOfStagedPhoto
  <2>4. ASSUME NEW c \in calls, c.kind = "analyse", NEW a \in Sent(c)
        PROVE  a.photo \in store.photo /\ a.visit = store.visit
    BY <2>2, <2>4 DEF Sent, Own, Runs, OwnCalls, Lasting
  <2>5. \/ store'.analysis = {}
        \/ store'.photo = store.photo /\ store'.analysis = store.analysis
        \/ /\ store'.photo = store.photo
           /\ \E c \in calls : c.kind = "analyse" /\ store'.analysis = Sent(c)
    BY <1>3, WithinWrites DEF Writes
  <2> QED BY <2>1, <2>3, <2>4, <2>5 DEF AnalysisOfStagedPhoto
<1>4. ASSUME NEW c \in calls, CheckedIn(c) PROVE AnalysisOfStagedPhoto'
  <2>1. /\ c.kind = "checkin" /\ store'.analysis = store.analysis /\ abandoned' = abandoned
    BY <1>4, CheckedInIs
  <2>2. store.visit = 0
    BY <1>1, <2>1 DEF Own, CheckIns
  <2>3. \A a \in store.analysis : a.visit = 0
    BY <1>1, <2>1, <2>2 DEF AnalysisOfStagedPhoto
  <2>4. \A a \in store.analysis : a.visit # 0
    BY DEF Typed, TypeOK, Visit, Upload, Visits
  <2> QED BY <2>1, <2>3, <2>4 DEF AnalysisOfStagedPhoto
<1> QED BY <1>2, <1>3, <1>4, Shapes

\* The summary in the store is of a closed visit, whichever visit the store holds.
LEMMA SummaryOfClosed ==
  ASSUME Typed, Close, ClosedMeansClosed, [Next]_vars, NEW x \in store'.checkout
  PROVE  x.visit \in settled'
<1>1. \A y \in store.checkout : y.visit \in settled
  BY DEF ClosedMeansClosed
<1>2. CASE Forgets
  BY <1>2, ForgetsEmpties
<1>3. CASE MovesWithin \/ Stays
  <2>1. settled \subseteq settled'
    BY <1>3, WithinWrites DEF Writes
  <2>2. \A c \in calls : c.kind = "close" /\ c.stage = "served" => c.visit \in settled
    BY DEF Close, Served
  <2>3. \/ store'.checkout = store.checkout
        \/ \E c \in calls : /\ c.kind = "close" /\ c.stage = "served"
                            /\ store'.checkout = {[visit |-> c.visit, pending |-> c.pending]}
    BY <1>3, WithinWrites DEF Writes
  <2> QED BY <1>1, <2>1, <2>2, <2>3
<1>4. ASSUME NEW c \in calls, CheckedIn(c) PROVE x.visit \in settled'
  <2>1. store'.checkout = store.checkout /\ settled' = settled
    BY <1>4, CheckedInIs DEF CheckedIn
  <2> QED BY <1>1, <2>1
<1> QED BY <1>2, <1>3, <1>4, Shapes

LEMMA ClosedStep ==
  ASSUME Typed, Own, Close, ClosedMeansClosed, [Next]_vars
  PROVE  ClosedMeansClosed'
<1>1. SUFFICES ASSUME abandoned' \cap {"close", "checkin"} = {}
               PROVE  /\ store'.checkout # {} \/ store'.stamped => store'.visit \in settled'
                      /\ \A x \in store'.checkout : x.visit = store'.visit
  BY SummaryOfClosed DEF ClosedMeansClosed
<1>2. CASE Forgets
  BY <1>2, ForgetsEmpties
<1>3. CASE MovesWithin \/ Stays
  <2>1. /\ store'.visit = store.visit /\ abandoned \subseteq abandoned'
        /\ settled \subseteq settled'
    BY <1>3, WithinWrites DEF Writes
  <2>2. "close" \notin abandoned /\ "checkin" \notin abandoned
    BY <1>1, <2>1
  <2>3. /\ store.checkout # {} \/ store.stamped => store.visit \in settled
        /\ \A x \in store.checkout : x.visit = store.visit
    BY <2>2 DEF ClosedMeansClosed
  <2>4. \A c \in calls : c.kind = "close" => c.visit = store.visit
    BY <2>2 DEF Own, OwnCalls, Lasting
  <2>5. \A c \in calls : c.kind = "close" /\ c.stage = "served" => c.visit \in settled
    BY DEF Close, Served
  <2>6. \/ store'.checkout = store.checkout /\ store'.stamped = store.stamped
        \/ /\ store'.checkout = store.checkout
           /\ \E c \in calls : c.kind = "close" /\ c.visit \in settled'
        \/ \E c \in calls : /\ c.kind = "close" /\ c.stage = "served"
                            /\ store'.checkout = {[visit |-> c.visit, pending |-> c.pending]}
    BY <1>3, WithinWrites DEF Writes
  <2>7. store'.checkout # {} \/ store'.stamped => store'.visit \in settled'
    BY <2>1, <2>3, <2>4, <2>5, <2>6
  <2>8. \A x \in store'.checkout : x.visit = store'.visit
    BY <2>1, <2>3, <2>4, <2>6
  <2> QED BY <2>7, <2>8
<1>4. ASSUME NEW c \in calls, CheckedIn(c)
      PROVE  /\ store'.checkout # {} \/ store'.stamped => store'.visit \in settled'
             /\ \A x \in store'.checkout : x.visit = store'.visit
  <2>1. /\ c.kind = "checkin" /\ store'.checkout = store.checkout /\ ~store'.stamped
        /\ abandoned' = abandoned
    BY <1>4, CheckedInIs
  <2>2. store.visit = 0
    BY <1>1, <2>1 DEF Own, CheckIns
  <2>3. \A x \in store.checkout : x.visit = 0
    BY <1>1, <2>1, <2>2 DEF ClosedMeansClosed
  <2>4. \A x \in store.checkout : x.visit # 0
    BY DEF Typed, TypeOK, Visit, Summary, Visits
  <2> QED BY <2>1, <2>3, <2>4
<1> QED BY <1>2, <1>3, <1>4, Shapes

LEMMA UploadStep ==
  ASSUME Typed, Own, UploadedAsPhotographed, [Next]_vars
  PROVE  UploadedAsPhotographed'
<1>1. SUFFICES ASSUME "checkin" \notin abandoned', NEW d \in calls', NEW x \in d.photo,
                      d.kind = "analyse", x.n \notin carried'
               PROVE  d.visit = x.visit /\ d.shelf = x.shelf
  BY DEF UploadedAsPhotographed
<1>2. Kept'
  BY NextOwn DEF Own
<1>3. ASSUME abandoned \subseteq abandoned', carried \subseteq carried', \E c \in calls : Like(c, d)
      PROVE  d.visit = x.visit /\ d.shelf = x.shelf
  BY <1>1, <1>3 DEF UploadedAsPhotographed, Like
<1>4. ASSUME d.visit = store'.visit, d.shelf = store'.shelf, d.photo = store'.photo,
             At("PROCESSING")'
      PROVE  d.visit = x.visit /\ d.shelf = x.shelf
  BY <1>1, <1>2, <1>4 DEF Kept, Matches
<1>5. CASE Forgets
  <2>1. \E c \in calls : Alike(c, d)
    BY <1>1, <1>5 DEF Forgets
  <2>2. abandoned \subseteq abandoned' /\ carried \subseteq carried'
    BY <1>5 DEF Forgets
  <2> QED BY <1>3, <2>1, <2>2, LikeIsLike
<1>6. CASE MovesWithin
  <2>1. PICK p, st, cs : Moved(p, st, cs, FALSE) /\ store' = st
    BY <1>6 DEF MovesWithin
  <2>2. /\ abandoned \subseteq abandoned' /\ carried \subseteq carried' /\ cs \subseteq calls
        /\ Here' = p
    BY <2>1 DEF Moved
  <2>3. (\E c \in cs : Alike(c, d)) \/ StartedBy(p, st, cs, d)
    BY <1>1, <2>1, MovedIs DEF Typed
  <2>4. CASE \E c \in cs : Alike(c, d)
    BY <1>3, <2>2, <2>4, LikeIsLike
  <2>5. CASE StartedBy(p, st, cs, d)
    BY <1>1, <1>4, <2>1, <2>2, <2>5, AskVisit DEF StartedBy, At
  <2> QED BY <2>3, <2>4, <2>5
<1>7. CASE Stays
  <2>1. /\ carried' = carried /\ abandoned \subseteq abandoned' /\ Here' = Here
        /\ CallsGrow(store', Here)
    BY <1>7 DEF Stays, Writes, Here
  <2>2. CASE \E c \in calls : Like(c, d)
    BY <1>3, <2>1, <2>2
  <2>3. CASE Begun(d, store', Here)
    BY <1>1, <1>4, <2>1, <2>3 DEF Begun, At
  <2> QED BY <1>1, <2>1, <2>2, <2>3 DEF CallsGrow
<1>8. ASSUME NEW c \in calls, CheckedIn(c) PROVE d.visit = x.visit /\ d.shelf = x.shelf
  <2>1. UNCHANGED <<abandoned, carried>> /\ d \in calls
    BY <1>1, <1>8, CheckedInIs
  <2> QED BY <1>1, <2>1 DEF UploadedAsPhotographed
<1> QED BY <1>5, <1>6, <1>7, <1>8, Shapes

\* A screen that waits.
LEMMA StartedServes ==
  ASSUME NEW cs, cs \subseteq Call, NEW st \in Visit, NEW p \in Way,
         st.photo # {} => st.shelf # NoShelf
  PROVE  /\ FirstScreen(p, st) = "working" /\ st.visit # 0 /\ st.photo # {} =>
              \E d \in Started(p, st, cs) : d.kind = "analyse" /\ d.live
         /\ FirstScreen(p, st) = "closing" =>
              \E d \in Started(p, st, cs) : d.kind = "close" /\ d.live
         /\ FirstScreen(p, st) # "asking"
<1>1. ASSUME FirstScreen(p, st) = "working", st.visit # 0, st.photo # {}
      PROVE  \E d \in Started(p, st, cs) : d.kind = "analyse" /\ d.live
  <2>1. p.step = "PROCESSING"
    BY <1>1 DEF FirstScreen
  <2>2. PICK d : d = Ask("analyse", p.shop, st, st.photo)
    OBVIOUS
  <2>3. Started(p, st, cs) = cs \cup {d}
    BY <1>1, <2>1, <2>2 DEF Started
  <2>4. d.kind = "analyse" /\ d.live
    BY <2>2, AskVisit
  <2> QED BY <2>3, <2>4
<1>2. ASSUME FirstScreen(p, st) = "closing"
      PROVE  \E d \in Started(p, st, cs) : d.kind = "close" /\ d.live
  <2>1. p.step = "CHECKOUT" /\ st.visit # 0 /\ st.checkout = {}
    BY <1>2 DEF FirstScreen
  <2>2. Started(p, st, cs) = Closing(cs, st, p.shop) /\ p.shop \in Shops
    BY <2>1 DEF Started, Way
  <2> QED BY <2>2, ClosingIs
<1>3. FirstScreen(p, st) # "asking"
  BY DEF FirstScreen
<1> QED BY <1>1, <1>2, <1>3

LEMMA MovedWaits ==
  ASSUME Typed, Staging', NEW p, NEW st, NEW cs, NEW wiped, Moved(p, st, cs, wiped)
  PROVE  WaitersAreServed'
<1>1. /\ p \in Way /\ cs \subseteq Call /\ store' \in Visit
      /\ calls' = Started(p, store', Unmounted(cs)) /\ screen' = FirstScreen(p, store')
  BY MovedIs DEF Moved, Typed, TypeOK
<1>2. Unmounted(cs) \subseteq Call
  BY <1>1, UnmountedIs
<1>3. store'.photo # {} => store'.shelf # NoShelf
  BY DEF Staging
<1>4. PICK u : u = Unmounted(cs)
  OBVIOUS
<1>5. /\ screen' = "working" /\ store'.visit # 0 /\ store'.photo # {} =>
           \E d \in calls' : d.kind = "analyse" /\ d.live
      /\ screen' = "closing" => \E d \in calls' : d.kind = "close" /\ d.live
      /\ screen' # "asking"
  BY <1>1, <1>2, <1>3, <1>4, StartedServes
<1> QED BY <1>5 DEF WaitersAreServed, CanEnter, Awaiting

LEMMA StillWaits ==
  ASSUME WaitersAreServed, screen' = screen, store'.visit = store.visit,
         store'.photo = store.photo,
         \A c \in calls : c.live /\ c.kind \in {"analyse", "close"} =>
                            \E d \in calls' : d.kind = c.kind /\ d.live
  PROVE  WaitersAreServed'
BY DEF WaitersAreServed, CanEnter, Awaiting

LEMMA ScreensWait ==
  ASSUME Typed, Staging, WaitersAreServed, store'.visit = store.visit, store'.photo = store.photo,
         \/ Consent \/ StartCheckIn \/ Shoot \/ ShootWithoutCamera \/ Retake \/ RetryAnalysis
         \/ DecideGaps \/ (GoTasks /\ store.visit # 0) \/ ShootAfter \/ ShootAfterWithoutCamera
         \/ AskAgain \/ GiveUp \/ RetryClose
  PROVE  WaitersAreServed'
<1>0. /\ store \in Visit /\ calls \subseteq Call /\ Here \in Way
      /\ (Here.step # "ROUTE" => Here.shop \in Shops)
  BY HereIs DEF Typed, TypeOK, Way
<1>1. CASE \/ Consent \/ StartCheckIn \/ Shoot \/ ShootWithoutCamera \/ Retake
           \/ DecideGaps \/ (GoTasks /\ store.visit # 0) \/ ShootAfter \/ ShootAfterWithoutCamera
  <2>1. screen' = screen /\ calls \subseteq calls'
    BY <1>1 DEF Consent, StartCheckIn, Shoot, ShootWithoutCamera, Retake, DecideGaps, GoTasks,
                ShootAfter, ShootAfterWithoutCamera, Stay
  <2> QED BY <2>1, StillWaits
<1>2. CASE RetryAnalysis \/ RetryClose
  <2>1. /\ calls' = Started(Here, store, calls) /\ store' = store
        /\ screen' = FirstScreen(Here, store)
    BY <1>2 DEF RetryAnalysis, RetryClose, FirstScreen, At
  <2>2. /\ screen' = "working" /\ store'.visit # 0 /\ store'.photo # {} =>
             \E d \in calls' : d.kind = "analyse" /\ d.live
        /\ screen' = "closing" => \E d \in calls' : d.kind = "close" /\ d.live
        /\ screen' # "asking"
    BY <1>0, <2>1, StartedServes DEF Staging
  <2> QED BY <2>2 DEF WaitersAreServed, CanEnter, Awaiting
<1>3. CASE AskAgain
  <2>1. /\ calls' = Closing(calls, store, Here.shop) /\ Here.shop \in Shops
        /\ screen' = "asking"
    BY <1>0, <1>3 DEF AskAgain, At
  <2>2. \E d \in calls' : d.kind = "close" /\ d.live
    BY <1>0, <2>1, ClosingIs
  <2> QED BY <2>1, <2>2 DEF WaitersAreServed, Awaiting
<1>4. CASE GiveUp
  BY <1>4 DEF GiveUp, WaitersAreServed
<1> QED BY <1>1, <1>2, <1>3, <1>4

LEMMA AnswersWait ==
  ASSUME Typed, WaitersAreServed, store'.visit = store.visit, store'.photo = store.photo,
         NEW c \in calls,
         \/ CheckInFails(c) \/ Taken(c) \/ IntakeFails(c) \/ AnalysisFails(c) \/ TasksFail(c)
         \/ (TasksListed(c) /\ c.kind = "list")
         \/ TakenAfter(c) \/ AfterUploaded(c) \/ AfterSeen(c) \/ AfterFails(c)
         \/ CloseServed(c) \/ CloseAnswered(c) \/ CloseFails(c)
  PROVE  WaitersAreServed'
<1>0. c \in Call
  BY DEF Typed, TypeOK
<1>1. CASE \/ CheckInFails(c) \/ Taken(c) \/ IntakeFails(c) \/ TasksFail(c)
           \/ (TasksListed(c) /\ c.kind = "list")
           \/ TakenAfter(c) \/ AfterUploaded(c) \/ AfterSeen(c) \/ AfterFails(c)
  <2>1. screen' = screen /\ calls \ {c} \subseteq calls' /\ c.kind \notin {"analyse", "close"}
    BY <1>1 DEF CheckInFails, Taken, IntakeFails, TasksFail, TasksListed, TakenAfter,
                AfterUploaded, AfterSeen, AfterFails, Stay
  <2> QED BY <2>1, StillWaits
<1>2. CASE CloseServed(c)
  <2>1. PICK d : d = [c EXCEPT !.stage = "served", !.pending = c.visit \in reading]
    OBVIOUS
  <2>2. d.kind = c.kind /\ (c.live => d.live)
    BY <1>0, <2>1 DEF Call
  <2>3. screen' = screen /\ calls' = (calls \ {c}) \cup {d}
    BY <1>2, <2>1 DEF CloseServed, Stay
  <2> QED BY <2>2, <2>3, StillWaits
<1>3. CASE (AnalysisFails(c) \/ CloseAnswered(c) \/ CloseFails(c)) /\ ~c.live
  <2>1. screen' = screen /\ calls' = calls \ {c}
    BY <1>3 DEF AnalysisFails, CloseAnswered, CloseFails
  <2> QED BY <1>3, <2>1, StillWaits
<1>4. CASE (AnalysisFails(c) \/ CloseAnswered(c) \/ CloseFails(c)) /\ c.live
  <2>1. screen' \in {"failed", "queued", "waiting", "done"}
    BY <1>4 DEF AnalysisFails, CloseAnswered, CloseFails
  <2> QED BY <2>1 DEF WaitersAreServed
<1> QED BY <1>1, <1>2, <1>3, <1>4

\* A move, whichever it is.
LEMMA GoesSomewhere ==
  ASSUME GoesOn \/ BeginsAnew
  PROVE  \E p, st, cs, wiped : Moved(p, st, cs, wiped)
BY DEF GoesOn, BeginsAnew

LEMMA WaitersStep ==
  ASSUME Typed, Own, WaitersAreServed, [Next]_vars
  PROVE  WaitersAreServed'
<1>1. TypeOK /\ Placed /\ Asked /\ Staging /\ Staging'
  BY NextOwn DEF Typed, Own
<1>2. ASSUME Stays PROVE store'.visit = store.visit /\ store'.photo = store.photo
  BY <1>2 DEF Stays, Writes
<1>3. (\E p, st, cs, wiped : Moved(p, st, cs, wiped)) => WaitersAreServed'
  BY <1>1, MovedWaits
<1>4. CASE UNCHANGED vars
  BY <1>4, StillWaits DEF vars
<1>5. CASE \/ GuardBlocks \/ NothingToProcess \/ BackButton \/ CarryOn \/ ConsentGate
           \/ RetakeAfterFailure \/ LeaveQueued \/ ResultButtons \/ TasksButton \/ CompareButton
           \/ (GoTasks /\ store.visit = 0)
  BY <1>1, <1>3, <1>5, WalkGoesOn, GoesSomewhere
<1>6. CASE BackKey \/ \E c \in calls : HandOver(c)
  BY <1>1, <1>3, <1>6, BackKeyGoesOn, HandOverGoesOn, GoesSomewhere
<1>7. CASE (\E s \in Shops : OpenShop(s) \/ NextShop(s)) \/ EndRoute
  BY <1>1, <1>3, <1>7, NextVisitBegins, GoesSomewhere
<1>8. MovesOn => WaitersAreServed'
  BY <1>3 DEF MovesOn
<1>9. CASE (\E x \in Shelves : ChooseShelf(x)) \/ UsePhoto \/ \E c \in calls : Analysed(c)
  BY <1>1, <1>8, <1>9, OthersMoveOn
<1>10. CASE \/ Consent \/ StartCheckIn \/ Shoot \/ ShootWithoutCamera \/ Retake
            \/ RetryAnalysis \/ DecideGaps \/ (GoTasks /\ store.visit # 0)
            \/ ShootAfter \/ ShootAfterWithoutCamera \/ AskAgain \/ GiveUp \/ RetryClose
  <2>1. Stays
    BY <1>10, ScreensStay
  <2> QED BY <1>1, <1>2, <1>10, <2>1, ScreensWait
<1>11. ASSUME NEW c \in calls,
             \/ CheckInFails(c) \/ Taken(c) \/ IntakeFails(c) \/ AnalysisFails(c) \/ TasksFail(c)
             \/ (TasksListed(c) /\ c.kind = "list")
             \/ TakenAfter(c) \/ AfterUploaded(c) \/ AfterSeen(c) \/ AfterFails(c)
             \/ CloseServed(c) \/ CloseAnswered(c) \/ CloseFails(c)
       PROVE  WaitersAreServed'
  <2>1. Stays
    BY <1>11, AnswersStay
  <2> QED BY <1>2, <1>11, <2>1, AnswersWait
<1>12. ASSUME NEW c \in calls, TasksListed(c) PROVE WaitersAreServed'
  <2>1. c.kind \in {"tasks", "list"}
    BY <1>12 DEF TasksListed
  <2> QED BY <1>1, <1>8, <1>11, <1>12, <2>1, OthersMoveOn
<1>13. ASSUME NEW v \in reading, AfterRead(v) PROVE WaitersAreServed'
  BY <1>13, StillWaits DEF AfterRead, Stay
<1>14. ASSUME NEW c \in calls, CheckedIn(c) PROVE WaitersAreServed'
  <2>1. /\ screen' = screen /\ store'.photo = store.photo /\ store'.visit # 0
        /\ c.kind = "checkin"
    BY <1>14, CheckedInIs
  <2>2. calls \ {c} \subseteq calls'
    BY <1>14 DEF CheckedIn
  <2>3. store.photo # {} => store.visit # 0
    BY <1>1 DEF Staging
  <2>4. \A k \in {"analyse", "close"} : Awaiting(k) => Awaiting(k)'
    BY <2>1, <2>2 DEF Awaiting
  <2> QED BY <2>1, <2>3, <2>4 DEF WaitersAreServed, CanEnter
<1> QED BY <1>4, <1>5, <1>6, <1>7, <1>9, <1>10, <1>11, <1>12, <1>13, <1>14
    DEF Next, RunStep, CloseStep

-----------------------------------------------------------------------------
(* The theorems.                                                            *)

IInv == /\ Typed /\ Own /\ Close
        /\ NothingOfAnotherVisit /\ AnalysisOfStagedPhoto /\ UploadedAsPhotographed
        /\ ClosedMeansClosed /\ WaitersAreServed

LEMMA InitInv == Init => IInv
<1>1. SUFFICES ASSUME Init PROVE IInv
  OBVIOUS
<1>2. Typed /\ Own
  BY <1>1, InitTyped, InitOwn
<1>3. NoShop \in Shops \cup {NoShop}
  OBVIOUS
<1>4. /\ store.visit = 0 /\ store.review = {} /\ store.photo = {} /\ store.analysis = {}
      /\ store.tasks = 0 /\ store.after = 0 /\ store.checkout = {} /\ ~store.stamped
      /\ calls = {} /\ screen = "idle"
  BY <1>1, <1>3, FreshIs DEF Init
<1>5. Close
  BY <1>4 DEF Close, Served, OneClose, Awaited, Lone
<1>6. NothingOfAnotherVisit /\ AnalysisOfStagedPhoto
  BY <1>4 DEF NothingOfAnotherVisit, AnalysisOfStagedPhoto
<1>7. UploadedAsPhotographed /\ ClosedMeansClosed /\ WaitersAreServed
  BY <1>4 DEF UploadedAsPhotographed, ClosedMeansClosed, WaitersAreServed
<1> QED BY <1>2, <1>5, <1>6, <1>7 DEF IInv

LEMMA NextInv == IInv /\ [Next]_vars => IInv'
BY NextTyped, NextOwn, NextClose, VisitStep, VerdictStep, UploadStep, ClosedStep, WaitersStep
   DEF IInv

\* The store never mixes two visits: its visit is of the shop on screen, and the
\* photographs, the tasks and the after photograph in it are the visit's own, but
\* for what the exceptions name.
THEOREM VisitsStayApart == Spec => []NothingOfAnotherVisit
<1>1. IInv => NothingOfAnotherVisit
  BY DEF IInv
<1> QED BY <1>1, InitInv, NextInv, PTL DEF Spec

\* The verdict in the store is of the photograph in the store and of its visit.
THEOREM VerdictsAreOfThePhoto == Spec => []AnalysisOfStagedPhoto
<1>1. IInv => AnalysisOfStagedPhoto
  BY DEF IInv
<1> QED BY <1>1, InitInv, NextInv, PTL DEF Spec

\* A photograph is sent under the visit and the shelf it was taken of.
THEOREM PhotosAreFiledRight == Spec => []UploadedAsPhotographed
<1>1. IInv => UploadedAsPhotographed
  BY DEF IInv
<1> QED BY <1>1, InitInv, NextInv, PTL DEF Spec

\* The summary on the phone is of a visit that is closed, always; and a visit the
\* phone shows as closed is closed and the summary its own, while no close and no
\* check-in was still out when its rep went on to the next shop.
THEOREM ShownClosedIsClosed == Spec => []ClosedMeansClosed
<1>1. IInv => ClosedMeansClosed
  BY DEF IInv
<1> QED BY <1>1, InitInv, NextInv, PTL DEF Spec

\* A screen that waits has a call of its own, or has joined one, to wait for.
THEOREM WaitersHaveACall == Spec => []WaitersAreServed
<1>1. IInv => WaitersAreServed
  BY DEF IInv
<1> QED BY <1>1, InitInv, NextInv, PTL DEF Spec

\* Within a visit a summary with its figure never goes back to one without.
THEOREM SummariesGoForward == Spec => SummaryNeverGoesBack
<1>1. IInv /\ [Next]_vars =>
        [\A x \in store.checkout, y \in store'.checkout :
           "refresh" \notin abandoned /\ x.visit = y.visit /\ y.pending => x.pending]_vars
  BY SummaryStep DEF IInv
<1> QED BY <1>1, InitInv, NextInv, PTL DEF Spec, SummaryNeverGoesBack

=============================================================================
