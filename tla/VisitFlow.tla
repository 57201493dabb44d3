------------------------------ MODULE VisitFlow ------------------------------
(***************************************************************************)
(* One rep's store visits on the phone: the screens of /m and the visit    *)
(* store they share, from the route list through check-in, the shelf       *)
(* photograph, its analysis, the gaps and tasks, the after photograph and  *)
(* the check-out.                                                          *)
(*                                                                         *)
(* A screen that awaits the server, or the browser turning a frame into a  *)
(* photograph, is an outstanding call.  Its continuation runs whether or   *)
(* not the screen is still mounted, and writes into the one visit store    *)
(* of the phone: what a call remembers is what its closure captured when   *)
(* it began, and `live' says whether the screen that made it still stands. *)
(* The rep leaves screens by their buttons, or by the phone's back key,    *)
(* which pops the trail the screens pushed.                                *)
(***************************************************************************)
EXTENDS Naturals, Sequences, FiniteSets

CONSTANTS
  Shops, Shelves,
  NoShop, NoShelf,
  MaxVisits,  \* bound on the visits the server opens
  MaxShots,   \* bound on photographs of the shelf as it was found
  MaxSlips,   \* bound on calls that fail and presses of a back button or key
  MaxLeft,    \* bound on calls out when their screen is left
  MaxPolls    \* how often the check-out screen asks again before it gives up

ASSUME NoneAssumption == NoShop \notin Shops /\ NoShelf \notin Shelves
ASSUME BoundAssumption == 
  /\ {MaxVisits, MaxShots, MaxSlips, MaxLeft, MaxPolls} \subseteq Nat

VARIABLES
  trail,     \* the browser's history; the last entry is the screen shown
  store,     \* the visit store
  calls,     \* what is being awaited
  screen,    \* the local state of the processing and the check-out screens
  polls,
  opened,    \* the shop of each visit the server has
  settled,   \* visits the server has closed, or whose check-out is queued
  tasked,    \* visits with a confirmed gap, and so with tasks
  reading,   \* visits with an after photograph still being analysed
  abandoned, \* kinds of call whose visit or screen went, or that were made again,
             \* while they were out; "refresh" for a summary asked again needlessly
  carried,   \* photographs that left the camera screen undecided, stood in, or
             \* were sent again by a way back to the processing screen
  shots, slips

server == <<opened, settled, tasked, reading>>
counters == <<shots, slips>>
vars == <<trail, store, calls, screen, polls, server, abandoned, carried, counters>>

Visits == 1 .. MaxVisits
Steps == {"ROUTE", "CHECKIN", "CATEGORY", "CAPTURE", "PROCESSING", "RESULT", "VERIFY",
          "TASKS", "COMPARE", "CHECKOUT"}

\* A photograph remembers where it was taken; number 0 stands for the drawn
\* shelf of a phone without a camera.
Photo == [n : 0 .. MaxShots, visit : 0 .. MaxVisits, shelf : Shelves \cup {NoShelf}]
StandIn == [n |-> 0, visit |-> 0, shelf |-> NoShelf]
Upload == [photo : Photo, visit : Visits, shelf : Shelves]
Summary == [visit : Visits, pending : BOOLEAN]
Visit == [shop : Shops \cup {NoShop}, visit : 0 .. MaxVisits, consent : BOOLEAN,
          shelf : Shelves \cup {NoShelf}, review : SUBSET Photo, photo : SUBSET Photo,
          analysis : SUBSET Upload, gaps : {"none", "pending", "decided"},
          tasks : 0 .. MaxVisits, after : 0 .. MaxVisits,
          checkout : SUBSET Summary, stamped : BOOLEAN]

\* beginVisit and resetVisit: every field of the visit.
Fresh(s) == [shop |-> s, visit |-> 0, consent |-> FALSE, shelf |-> NoShelf,
             review |-> {}, photo |-> {}, analysis |-> {}, gaps |-> "none",
             tasks |-> 0, after |-> 0,
             checkout |-> {}, stamped |-> FALSE]

Init == /\ trail = <<[step |-> "ROUTE", shop |-> NoShop]>>
        /\ store = Fresh(NoShop)
        /\ calls = {}
        /\ screen = "idle"
        /\ polls = 0
        /\ opened = <<>>
        /\ settled = {}
        /\ tasked = {}
        /\ reading = {}
        /\ abandoned = {}
        /\ carried = {}
        /\ shots = 0
        /\ slips = 0

-----------------------------------------------------------------------------
(* The flow table.                                                          *)

Here == trail[Len(trail)]
At(step) == Here.step = step

CanEnter(step) ==
  CASE step \in {"CATEGORY", "TASKS", "COMPARE", "CHECKOUT"} -> store.visit # 0
    [] step = "CAPTURE" -> store.visit # 0 /\ store.shelf # NoShelf
    [] step = "PROCESSING" -> store.visit # 0 /\ store.photo # {}
    [] step = "RESULT" -> store.analysis # {}
    [] step = "VERIFY" -> store.analysis # {} /\ store.gaps # "none"
    [] OTHER -> TRUE

Fallback(step) ==
  CASE step = "CATEGORY" -> "CHECKIN"
    [] step = "CAPTURE" -> "CATEGORY"
    [] step \in {"PROCESSING", "RESULT"} -> "CAPTURE"
    [] step = "VERIFY" -> "RESULT"
    [] OTHER -> "ROUTE"

BackOf(step) ==
  CASE step \in {"CHECKIN", "CATEGORY", "CHECKOUT"} -> "ROUTE"
    [] step \in {"CAPTURE", "RESULT"} -> "CATEGORY"
    [] step = "VERIFY" -> "RESULT"
    [] step = "TASKS" -> "VERIFY"
    [] step = "COMPARE" -> "TASKS"

Pushes(step) == step \in {"CHECKIN", "CAPTURE", "VERIFY", "TASKS", "COMPARE", "CHECKOUT"}

\* Where a step lies: every one but the route has a shop in its path.
Place(step, s) == [step |-> step, shop |-> IF step = "ROUTE" THEN NoShop ELSE s]
Push(p) == Append(trail, p)
Replace(p) == [trail EXCEPT ![Len(trail)] = p]
Towards(step, s) == IF Pushes(step) THEN Push(Place(step, s)) ELSE Replace(Place(step, s))

-----------------------------------------------------------------------------
(* Calls, and moving from one screen to the next.                           *)

Kinds == {"checkin", "handoff", "intake", "after", "analyse", "upload", "tasks", "list", "close"}
Call == [kind : Kinds, shop : Shops, visit : 0 .. MaxVisits, shelf : Shelves \cup {NoShelf},
         photo : SUBSET Photo, stage : {"sent", "served"}, pending : BOOLEAN, live : BOOLEAN]

\* What the closure of a screen holds of the visit.
Ask(kind, s, st, photo) ==
  [kind |-> kind, shop |-> s, visit |-> st.visit, shelf |-> st.shelf, photo |-> photo,
   stage |-> "sent", pending |-> FALSE, live |-> TRUE]

Awaiting(kind) == \E c \in calls : c.kind = kind /\ c.live
KindsOf(cs) == {c.kind : c \in cs}
Slips == slips < MaxSlips /\ slips' = slips + 1

\* Mutant: every caller has a request of its own.
ClosingTwice(cs, st, s) == cs \cup {Ask("close", s, st, {})}

\* Mutant: a second caller leaves the first one its answer.
ClosingUnheard(cs, st, s) ==
  IF \E c \in cs : c.kind = "close" /\ c.visit = st.visit THEN cs
  ELSE cs \cup {Ask("close", s, st, {})}

\* closeOutVisit: one request of a visit at a time; a second caller joins it.
Closing(cs, st, s) ==
  LET joined == {c \in cs : c.kind = "close" /\ c.visit = st.visit} IN
  IF joined = {} THEN cs \cup {Ask("close", s, st, {})}
  ELSE (cs \ joined) \cup {[c EXCEPT !.live = TRUE] : c \in joined}

\* The screen goes, its calls stay.  Only the pause before the hand-over to the
\* shelf picker is cancelled with its screen.
Unmounted(cs) == {[c EXCEPT !.live = FALSE] : c \in {x \in cs : x.kind # "handoff" \/ ~x.live}}

\* What the effects of a screen start when it is mounted.
Started(p, st, cs) ==
  CASE p.step = "PROCESSING" /\ st.visit # 0 /\ st.shelf # NoShelf /\ st.photo # {} ->
         cs \cup {Ask("analyse", p.shop, st, st.photo)}
    [] p.step = "TASKS" /\ st.visit # 0 /\ st.tasks = 0 -> cs \cup {Ask("list", p.shop, st, {})}
    [] p.step = "CHECKOUT" /\ st.visit # 0 /\ st.checkout = {} -> Closing(cs, st, p.shop)
    [] OTHER -> cs

FirstScreen(p, st) ==
  CASE p.step = "PROCESSING" -> "working"
    [] p.step = "CHECKOUT" ->
         IF st.visit = 0 THEN "queued" ELSE IF st.checkout = {} THEN "closing"
         ELSE IF \E x \in st.checkout : x.pending THEN "waiting" ELSE "done"
    [] OTHER -> "idle"

\* The photographs that leave the camera screen before the rep has kept them:
\* the one in review, those still in intake, and one a stand-in stands for.
Undecided(st, cs) ==
  st.review \cup (UNION {c.photo : c \in {y \in cs : y.kind = "intake"}})
    \cup (IF store.review = {StandIn} THEN st.photo ELSE {})

\* The entries of the history that the presses left can still reach.
Reachable(t) == LET n == 1 + MaxSlips - slips IN
                IF Len(t) <= n THEN t ELSE SubSeq(t, Len(t) - n + 1, Len(t))

\* The rep, or a continuation, moves to the last place of t with the store as st
\* and the calls cs.  The check-in screen begins a visit of its shop if the store
\* holds another's.
Move(t, st, cs, wiped) ==
  LET p == t[Len(t)]
      begins == p.step = "CHECKIN" /\ st.shop # p.shop
      now == IF begins THEN Fresh(p.shop) ELSE st IN
  /\ Cardinality(Unmounted(cs)) <= MaxLeft
  /\ trail' = Reachable(t)
  /\ store' = now
  /\ calls' = Started(p, now, Unmounted(cs))
  /\ screen' = FirstScreen(p, now)
  /\ polls' = 0
  /\ abandoned' = abandoned \cup (IF wiped \/ begins THEN KindsOf(cs) \ {"handoff", "upload"}
                                  ELSE IF At("PROCESSING") THEN KindsOf(cs) \cap {"analyse"}
                                  ELSE {})
  /\ carried' = carried
       \cup (IF At("CAPTURE") THEN {x.n : x \in Undecided(st, cs)} ELSE {})
       \cup (IF p.step = "PROCESSING" /\ st = store THEN {x.n : x \in st.photo} ELSE {})

Go(step) == Move(Towards(step, Here.shop), store, calls, FALSE)
GoInstead(step) == Move(Replace(Place(step, Here.shop)), store, calls, FALSE)
Stay == UNCHANGED <<trail, screen, polls, abandoned, carried>>

-----------------------------------------------------------------------------
(* Getting about.                                                           *)

\* A screen whose data is missing offers the way out of the flow table.
GuardBlocks ==
  /\ ~CanEnter(Here.step) /\ ~At("PROCESSING")
  /\ GoInstead(Fallback(Here.step))
  /\ UNCHANGED <<server, counters>>

\* The processing screen has a guard of its own, which also knows a reload.
NothingToProcess ==
  /\ At("PROCESSING") /\ (store.visit = 0 \/ store.photo = {})
  /\ GoInstead(IF store.visit = 0 THEN "CHECKIN" ELSE "CAPTURE")
  /\ UNCHANGED <<server, counters>>

\* The header's back button.  The camera screen has one only while nothing is
\* waiting to be kept or taken again.
BackButton ==
  /\ CanEnter(Here.step) /\ Here.step \notin {"ROUTE", "PROCESSING"}
  /\ At("CAPTURE") => store.review = {} /\ store.consent
  /\ Slips
  /\ GoInstead(BackOf(Here.step))
  /\ UNCHANGED <<server, shots>>

\* The phone's back key, on any screen; the way to the sync page and back from a
\* photograph that was queued is the same to the history.
BackKey ==
  /\ Len(trail) > 1 /\ Slips
  /\ Move(SubSeq(trail, 1, Len(trail) - 1), store, calls, FALSE)
  /\ UNCHANGED <<server, shots>>

-----------------------------------------------------------------------------
(* The route and the check-in.                                              *)

\* Opening a shop of the route begins its visit, also when it has one.
OpenShop(s) ==
  /\ At("ROUTE")
  /\ Move(Push(Place("CHECKIN", s)), Fresh(s), calls, TRUE)
  /\ UNCHANGED <<server, counters>>

Consent ==
  /\ At("CHECKIN") /\ ~Awaiting("checkin") /\ ~Awaiting("handoff")
  /\ store' = [store EXCEPT !.consent = ~@]
  /\ Stay /\ UNCHANGED <<calls, server, counters>>

\* An open visit of this shop is carried on with.
CarryOn ==
  /\ At("CHECKIN") /\ store.consent /\ ~Awaiting("checkin") /\ ~Awaiting("handoff")
  /\ store.visit # 0 /\ store.shop = Here.shop
  /\ Go("CATEGORY")
  /\ UNCHANGED <<server, counters>>

StartCheckIn ==
  /\ At("CHECKIN") /\ store.consent /\ ~Awaiting("checkin") /\ ~Awaiting("handoff")
  /\ store.visit = 0 \/ store.shop # Here.shop
  /\ Len(opened) < MaxVisits
  /\ calls' = calls \cup {Ask("checkin", Here.shop, store, {})}
  /\ abandoned' = abandoned \cup (KindsOf(calls) \cap {"checkin"})
  /\ UNCHANGED <<trail, screen, polls, carried, store, server, counters>>

\* The visit the server opened goes into the store, and after a pause in which
\* the receipt is read the flow goes on to the shelves.
CheckedIn(c) ==
  /\ c.kind = "checkin" /\ Len(opened) < MaxVisits
  /\ opened' = Append(opened, c.shop)
  /\ store' = [store EXCEPT !.visit = Len(opened) + 1, !.stamped = FALSE]
  /\ calls' = (calls \ {c}) \cup {[c EXCEPT !.kind = "handoff"]}
  /\ Stay /\ UNCHANGED <<settled, tasked, reading, counters>>

\* Mutant: a check-in without a signal gives the visit a number of its own.
CheckInOffline(c) ==
  /\ c.kind = "checkin" /\ Slips
  /\ calls' = calls \ {c}
  /\ store' = [store EXCEPT !.visit = Len(opened) + 1]
  /\ Stay /\ UNCHANGED <<server, shots>>

\* Refused, or opened and its answer lost.
CheckInFails(c) ==
  /\ c.kind = "checkin" /\ Slips
  /\ calls' = calls \ {c}
  /\ \/ UNCHANGED opened
     \/ Len(opened) < MaxVisits /\ opened' = Append(opened, c.shop)
  /\ Stay /\ UNCHANGED <<store, settled, tasked, reading, shots>>

HandOver(c) ==
  /\ c.kind = "handoff"
  /\ Move(Replace(Place("CATEGORY", c.shop)), store, calls \ {c}, FALSE)
  /\ UNCHANGED <<server, counters>>

-----------------------------------------------------------------------------
(* The shelf and its photograph.                                            *)

\* Choosing a shelf leaves whatever photograph the visit already has.
ChooseShelf(x) ==
  /\ At("CATEGORY") /\ CanEnter("CATEGORY")
  /\ Move(Push(Place("CAPTURE", Here.shop)), [store EXCEPT !.shelf = x], calls, FALSE)
  /\ UNCHANGED <<server, counters>>

CameraOpen == At("CAPTURE") /\ CanEnter("CAPTURE") /\ store.consent

\* Without consent the camera stays shut, and the screen points to check-in.
ConsentGate ==
  /\ At("CAPTURE") /\ CanEnter("CAPTURE") /\ ~store.consent
  /\ Go("CHECKIN")
  /\ UNCHANGED <<server, counters>>

\* A frame of the camera, or a picture from the gallery, which stays open while
\* another is on its way through intake.
Shoot ==
  /\ CameraOpen /\ store.review = {} /\ shots < MaxShots
  /\ shots' = shots + 1
  /\ calls' = calls \cup {Ask("intake", Here.shop, store,
                 {[n |-> shots + 1, visit |-> store.visit, shelf |-> store.shelf]})}
  /\ Stay /\ UNCHANGED <<store, server, slips>>

ShootWithoutCamera ==
  /\ CameraOpen /\ store.review = {} /\ ~Awaiting("intake") /\ shots < MaxShots
  /\ shots' = shots + 1
  /\ store' = [store EXCEPT !.review = {StandIn}]
  /\ Stay /\ UNCHANGED <<calls, server, slips>>

Taken(c) ==
  /\ c.kind = "intake"
  /\ store' = [store EXCEPT !.review = c.photo]
  /\ calls' = calls \ {c}
  /\ Stay /\ UNCHANGED <<server, counters>>

\* A bad picture, or a camera that gave no frame.
IntakeFails(c) ==
  /\ c.kind \in {"intake", "after"} /\ Slips
  /\ calls' = calls \ {c}
  /\ Stay /\ UNCHANGED <<store, server, shots>>

Retake ==
  /\ CameraOpen /\ store.review # {}
  /\ store' = [store EXCEPT !.review = {}]
  /\ Stay /\ UNCHANGED <<calls, server, counters>>

\* Mutant: the verdict stays until the next one comes.
StagedUnderVerdict(st) ==
  [st EXCEPT !.photo = IF st.review = {StandIn} THEN @ ELSE st.review, !.review = {}]

\* Mutant: the photograph that is staged already stays.
StagedFirstStays(st) ==
  [st EXCEPT !.photo = IF @ # {} \/ st.review = {StandIn} THEN @ ELSE st.review,
             !.review = {}, !.analysis = {}, !.gaps = "none"]

\* stageCapture: the old verdict goes with the old photograph.
Staged(st) ==
  [st EXCEPT !.photo = IF st.review = {StandIn} THEN @ ELSE st.review,
             !.review = {}, !.analysis = {}, !.gaps = "none"]

\* The drawn shelf puts no photograph in the place of the one that is there.
UsePhoto ==
  /\ CameraOpen /\ store.review # {}
  /\ Move(Replace(Place("PROCESSING", Here.shop)), Staged(store), calls, FALSE)
  /\ UNCHANGED <<server, counters>>

-----------------------------------------------------------------------------
(* The processing screen: upload, poll, result.                             *)

Sent(c) == {[photo |-> x, visit |-> c.visit, shelf |-> c.shelf] : x \in c.photo}

\* The result goes into the store and the flow to the result screen, wherever
\* the rep is by then.
Analysed(c) ==
  /\ c.kind = "analyse"
  /\ \E gaps \in {"none", "pending"} :
       Move(Replace(Place("RESULT", c.shop)),
            [store EXCEPT !.analysis = Sent(c), !.gaps = gaps], calls \ {c}, FALSE)
  /\ UNCHANGED <<server, counters>>

\* A FAILED job, an error, or no signal: then the photograph is queued, and will
\* be sent as this.
AnalysisFails(c) ==
  /\ c.kind = "analyse" /\ Slips
  /\ calls' = calls \ {c}
  /\ \E outcome \in {"failed", "queued"} :
       screen' = IF c.live THEN outcome ELSE screen
  /\ UNCHANGED <<trail, store, polls, server, abandoned, carried, shots>>

RetryAnalysis ==
  /\ At("PROCESSING") /\ screen = "failed" /\ CanEnter("PROCESSING")
  /\ screen' = "working"
  /\ calls' = Started(Here, store, calls)
  /\ UNCHANGED <<trail, store, polls, server, abandoned, carried, counters>>

RetakeAfterFailure == /\ At("PROCESSING") /\ screen = "failed"
                      /\ GoInstead("CAPTURE")
                      /\ UNCHANGED <<server, counters>>

\* With the photograph kept in the queue, on to another shelf.
LeaveQueued == /\ At("PROCESSING") /\ screen = "queued"
               /\ GoInstead("CATEGORY")
               /\ UNCHANGED <<server, counters>>

-----------------------------------------------------------------------------
(* Gaps and tasks.                                                          *)

ResultButtons == /\ At("RESULT") /\ CanEnter("RESULT")
                 /\ Go("VERIFY") \/ GoInstead("CAPTURE")
                 /\ UNCHANGED <<server, counters>>

\* The verdicts, one by one in OfflineQueue: a confirmed gap makes a task.
DecideGaps ==
  /\ At("VERIFY") /\ CanEnter("VERIFY") /\ store.gaps = "pending"
  /\ store' = [store EXCEPT !.gaps = "decided"]
  /\ tasked' \in {tasked, tasked \cup {a.visit : a \in store.analysis}}
  /\ Stay /\ UNCHANGED <<calls, opened, settled, reading, counters>>

\* The list is fetched first, if there is a visit to ask about.
GoTasks ==
  /\ At("VERIFY") /\ CanEnter("VERIFY") /\ store.gaps = "decided" /\ ~Awaiting("tasks")
  /\ \/ /\ store.visit # 0
        /\ calls' = calls \cup {Ask("tasks", Here.shop, store, {})}
        /\ Stay /\ UNCHANGED store
     \/ store.visit = 0 /\ Go("TASKS")
  /\ UNCHANGED <<server, counters>>

\* The server's list, which may be empty, of the visit it was asked for.
TasksListed(c) ==
  /\ c.kind \in {"tasks", "list"}
  /\ LET now == [store EXCEPT !.tasks = IF c.visit \in tasked THEN c.visit ELSE 0] IN
     IF c.kind = "tasks"
     THEN Move(Push(Place("TASKS", c.shop)), now, calls \ {c}, FALSE)
     ELSE store' = now /\ calls' = calls \ {c} /\ Stay
  /\ UNCHANGED <<server, counters>>

TasksFail(c) ==
  /\ c.kind \in {"tasks", "list"} /\ Slips
  /\ calls' = calls \ {c}
  /\ Stay /\ UNCHANGED <<store, server, shots>>

\* An empty list is a perfect shelf, and goes straight to the check-out; with one
\* task reported the rep may photograph the shelf again.
TasksButton ==
  /\ At("TASKS") /\ CanEnter("TASKS")
  /\ \/ store.tasks = 0 /\ Go("CHECKOUT")
     \/ store.tasks # 0 /\ Go("COMPARE")
  /\ UNCHANGED <<server, counters>>

-----------------------------------------------------------------------------
(* The after photograph.                                                    *)

\* Two pictures of one visit in intake are one call here: they do the same.
ShootAfter ==
  /\ At("COMPARE") /\ CanEnter("COMPARE") /\ store.after = 0
  /\ calls' = calls \cup {Ask("after", Here.shop, store, {})}
  /\ Stay /\ UNCHANGED <<store, server, counters>>

ShootAfterWithoutCamera ==
  /\ At("COMPARE") /\ CanEnter("COMPARE") /\ store.after = 0 /\ ~Awaiting("after")
  /\ store' = [store EXCEPT !.after = store.visit]
  /\ Stay /\ UNCHANGED <<calls, server, counters>>

\* Kept and shown, and its upload begun, without a shelf it is not sent.
TakenAfter(c) ==
  /\ c.kind = "after"
  /\ store' = [store EXCEPT !.after = c.visit]
  /\ calls' = (calls \ {c}) \cup (IF c.shelf = NoShelf THEN {} ELSE {[c EXCEPT !.kind = "upload"]})
  /\ Stay /\ UNCHANGED <<server, counters>>

AfterUploaded(c) ==
  /\ c.kind = "upload" /\ c.stage = "sent"
  /\ reading' = reading \cup {c.visit}
  /\ calls' = (calls \ {c}) \cup {[c EXCEPT !.stage = "served"]}
  /\ Stay /\ UNCHANGED <<store, opened, settled, tasked, counters>>

\* The model reads it, and the screen's poll sees that.
AfterRead(v) ==
  /\ v \in reading
  /\ reading' = reading \ {v}
  /\ Stay /\ UNCHANGED <<store, calls, opened, settled, tasked, counters>>

AfterSeen(c) ==
  /\ c.kind = "upload" /\ c.stage = "served" /\ c.visit \notin reading
  /\ calls' = calls \ {c}
  /\ Stay /\ UNCHANGED <<store, server, counters>>

\* An upload that fails, or a poll that times out, is only reported.
AfterFails(c) ==
  /\ c.kind = "upload" /\ Slips
  /\ calls' = calls \ {c}
  /\ Stay /\ UNCHANGED <<store, server, shots>>

CompareButton ==
  /\ At("COMPARE") /\ CanEnter("COMPARE") /\ store.after # 0 /\ ~Awaiting("upload")
  /\ Go("CHECKOUT")
  /\ UNCHANGED <<server, counters>>

-----------------------------------------------------------------------------
(* The check-out.                                                           *)

CloseServed(c) ==
  /\ c.kind = "close" /\ c.stage = "sent"
  /\ settled' = settled \cup {c.visit}
  /\ calls' = (calls \ {c}) \cup
                {[c EXCEPT !.stage = "served", !.pending = c.visit \in reading]}
  /\ Stay /\ UNCHANGED <<store, opened, tasked, reading, counters>>

\* The summary goes into the store whichever visit it holds by now.
CloseAnswered(c) ==
  /\ c.kind = "close" /\ c.stage = "served"
  /\ store' = [store EXCEPT !.checkout = {[visit |-> c.visit, pending |-> c.pending]},
                            !.stamped = TRUE]
  /\ calls' = calls \ {c}
  /\ screen' = IF ~c.live THEN screen ELSE IF c.pending THEN "waiting" ELSE "done"
  /\ UNCHANGED <<trail, polls, server, abandoned, carried, counters>>

\* Mutant: the visit is stamped as closed before the server agrees.
CloseFailsStamped(c) ==
  /\ c.kind = "close" /\ Slips
  /\ calls' = calls \ {c}
  /\ store' = [store EXCEPT !.stamped = TRUE]
  /\ screen' = IF c.live THEN "failed" ELSE screen
  /\ UNCHANGED <<trail, polls, server, abandoned, carried, shots>>

\* Refused; or out of reach, and then the check-out is queued.
CloseFails(c) ==
  /\ c.kind = "close" /\ Slips
  /\ calls' = calls \ {c}
  /\ \/ /\ screen' = IF ~c.live THEN screen ELSE IF polls = 0 THEN "failed" ELSE "done"
        /\ UNCHANGED <<store, settled>>
     \/ /\ settled' = settled \cup {c.visit}
        /\ store' = [store EXCEPT !.stamped = TRUE]
        /\ screen' = IF ~c.live THEN screen ELSE IF polls = 0 THEN "queued" ELSE "done"
  /\ UNCHANGED <<trail, polls, opened, tasked, reading, abandoned, carried, shots>>

\* While the figure is pending the screen asks again, until its deadline.  It
\* goes by the summary it began with, not by the one in the store.
AskAgain ==
  /\ At("CHECKOUT") /\ screen = "waiting" /\ polls < MaxPolls /\ store.visit # 0
  /\ polls' = polls + 1
  /\ calls' = Closing(calls, store, Here.shop)
  /\ screen' = "asking"
  /\ abandoned' = abandoned \cup (IF \E x \in store.checkout : x.visit = store.visit /\ ~x.pending
                                  THEN {"refresh"} ELSE {})
  /\ UNCHANGED <<trail, store, server, carried, counters>>

GiveUp ==
  /\ At("CHECKOUT") /\ screen = "waiting" /\ polls = MaxPolls
  /\ screen' = "done"
  /\ UNCHANGED <<trail, store, calls, polls, server, abandoned, carried, counters>>

RetryClose ==
  /\ At("CHECKOUT") /\ screen = "failed"
  /\ screen' = FirstScreen(Here, store)
  /\ calls' = Started(Here, store, calls)
  /\ UNCHANGED <<trail, store, polls, server, abandoned, carried, counters>>

\* Mutant: the next shop begins with the tasks of the last one.
NextShopWithTasks(s) ==
  /\ At("CHECKOUT") /\ CanEnter("CHECKOUT") /\ s # Here.shop
  /\ Move(Replace(Place("CHECKIN", s)), [Fresh(s) EXCEPT !.tasks = store.tasks], calls, TRUE)
  /\ UNCHANGED <<server, counters>>

\* On to the next shop, or back to the route; the button does not wait.
NextShop(s) ==
  /\ At("CHECKOUT") /\ CanEnter("CHECKOUT") /\ s # Here.shop
  /\ Move(Replace(Place("CHECKIN", s)), Fresh(s), calls, TRUE)
  /\ UNCHANGED <<server, counters>>

EndRoute ==
  /\ At("CHECKOUT") /\ CanEnter("CHECKOUT")
  /\ Move(Replace(Place("ROUTE", NoShop)), Fresh(NoShop), calls, TRUE)
  /\ UNCHANGED <<server, counters>>

-----------------------------------------------------------------------------

CloseStep(c) == CloseServed(c) \/ CloseAnswered(c) \/ CloseFails(c)
RunStep(c) == Analysed(c) \/ AnalysisFails(c)

Next ==
  \/ GuardBlocks \/ NothingToProcess \/ BackButton \/ BackKey
  \/ \E s \in Shops : OpenShop(s) \/ NextShop(s)
  \/ Consent \/ CarryOn \/ StartCheckIn
  \/ \E x \in Shelves : ChooseShelf(x)
  \/ ConsentGate \/ Shoot \/ ShootWithoutCamera \/ Retake \/ UsePhoto
  \/ RetryAnalysis \/ RetakeAfterFailure \/ LeaveQueued
  \/ ResultButtons \/ DecideGaps \/ GoTasks \/ TasksButton
  \/ ShootAfter \/ ShootAfterWithoutCamera \/ CompareButton
  \/ AskAgain \/ GiveUp \/ RetryClose \/ EndRoute
  \/ \E v \in reading : AfterRead(v)
  \/ \E c \in calls :
       \/ CheckedIn(c) \/ CheckInFails(c) \/ HandOver(c)
       \/ Taken(c) \/ IntakeFails(c) \/ RunStep(c)
       \/ TasksListed(c) \/ TasksFail(c)
       \/ TakenAfter(c) \/ AfterUploaded(c) \/ AfterSeen(c) \/ AfterFails(c)
       \/ CloseStep(c)

Spec == Init /\ [][Next]_vars

-----------------------------------------------------------------------------
(* Properties.                                                              *)

TypeOK ==
  /\ trail \in Seq([step : Steps, shop : Shops \cup {NoShop}]) /\ trail # <<>>
  /\ store \in Visit /\ {store.visit, store.tasks, store.after} \subseteq 0 .. Len(opened)
  /\ calls \subseteq Call
  /\ screen \in {"idle", "working", "queued", "failed", "closing", "waiting", "asking", "done"}
  /\ polls \in 0 .. MaxPolls
  /\ opened \in Seq(Shops) /\ Len(opened) <= MaxVisits
  /\ settled \cup tasked \cup reading \subseteq DOMAIN opened
  /\ abandoned \subseteq Kinds \cup {"refresh"}
  /\ carried \subseteq 0 .. MaxShots
  /\ shots \in 0 .. MaxShots /\ slips \in 0 .. MaxSlips

\* The store never mixes two visits: the visit is of the shop on screen, and its
\* photographs and its tasks are the visit's own.  Only an answer that was out
\* when its visit was put away, or a check-in made again before the first one was
\* answered, can break that, none of the screens' own steps: resetVisit and
\* beginVisit forget everything (store.ts).
NothingOfAnotherVisit ==
  "checkin" \notin abandoned =>
    /\ store.visit # 0 => opened[store.visit] = store.shop
    /\ "intake" \notin abandoned =>
         \A x \in store.review \cup store.photo : x.n # 0 => x.visit = store.visit
    /\ "after" \notin abandoned => store.after \in {0, store.visit}
    /\ abandoned \cap {"tasks", "list"} = {} => store.tasks \in {0, store.visit}

\* The verdict on screen is of the photograph on screen: the old score must not
\* stand over a fresh shot (store.ts, stageCapture).  A rep who leaves the
\* processing screen while its run is out is the one exception.
AnalysisOfStagedPhoto ==
  abandoned \cap {"analyse", "checkin"} = {} =>
    \A a \in store.analysis : a.photo \in store.photo /\ a.visit = store.visit

\* "The previous verdict must not survive a new photo" (store.ts, stageCapture): the
\* verdict in the store is of the photograph in the store, also when the rep left a
\* run behind.
VerdictOfThisShot == \A a \in store.analysis : a.photo \in store.photo

\* "opening a second visit for one shop trip would put two rows in the database"
\* (checkin/page.tsx, start): of the visits of one shop the server has, one at most
\* is still to be closed.
OneVisitPerTrip ==
  \A i, j \in DOMAIN opened \ settled : opened[i] = opened[j] => i = j

\* A photograph is filed under the visit and the shelf it was taken of, unless it
\* left the camera screen before the rep had decided about it, a phone without a
\* camera stood the previous photograph in for it, or the rep went back to the
\* processing screen, which sends what is staged by then.
UploadedAsPhotographed ==
  "checkin" \notin abandoned =>
    \A c \in calls : \A x \in c.photo :
      c.kind = "analyse" /\ x.n \notin carried =>
        c.visit = x.visit /\ c.shelf = x.shelf

\* A summary on the phone is of a visit that is closed, whichever visit the store
\* holds; and a visit the phone shows as closed is closed, or its check-out is
\* queued, and the summary is its own: the manager's figures wait for it (store.ts,
\* closeOutVisit).  The second half leaves out a phone whose rep went on to the next
\* shop with the close, or a check-in, still out: SummaryIsOfTheVisit says what an
\* answer does there.
ClosedMeansClosed ==
  /\ \A x \in store.checkout : x.visit \in settled
  /\ abandoned \cap {"close", "checkin"} = {} =>
       /\ store.checkout # {} \/ store.stamped => store.visit \in settled
       /\ \A x \in store.checkout : x.visit = store.visit

\* "a rep who has already moved on to the next shop can never be handed the
\* previous shop's answer" (store.ts, closingRequest): the summary in the store is
\* of the visit in the store.  With another's in it, closeOutVisit answers the next
\* visit's close from the store and never asks the server.
SummaryIsOfTheVisit == \A x \in store.checkout : x.visit = store.visit

\* Within a visit a summary with its figure is never replaced by an older answer
\* that was still waiting for it: there is one close request of a visit at a
\* time (store.ts, closingRequest).  A screen that asks again though the figure
\* has come by another screen's request gets a newer answer, the one exception.
SummaryNeverGoesBack ==
  [][\A x \in store.checkout, y \in store'.checkout :
       "refresh" \notin abandoned /\ x.visit = y.visit /\ y.pending => x.pending]_vars

\* A screen that waits has something to wait for: the processing screen its run,
\* the check-out screen its close request, whichever other screen of the visit
\* made it (store.ts, closingRequest; processing/page.tsx, run).
WaitersAreServed ==
  /\ screen = "working" /\ CanEnter("PROCESSING") => Awaiting("analyse")
  /\ screen \in {"closing", "asking"} => Awaiting("close")

=============================================================================
