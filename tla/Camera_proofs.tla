--------------------------- MODULE Camera_proofs ---------------------------
(***************************************************************************)
(* Proofs about Camera, for any number of events.                          *)
(***************************************************************************)
EXTENDS Camera, TLAPS

----------------------------------------------------------------------------
(* The inductive invariant.                                                 *)

\* The streams have names of their own: 0 is no stream, and no request is out on
\* a browser without a camera.
Named == /\ 0 \notin live /\ 0 \notin asked
         /\ browser \in NoCamera => asked = {}

\* While the request that counts is out nothing is held and the status says so,
\* which is why a granted stream takes no other's place.
Free == /\ gen \in asked => held = 0 /\ status = "REQUESTING"
        /\ status \in Troubles \/ seen \in Troubles => held = 0

\* A start is planned on an open viewfinder that has nothing yet; one that is
\* gone has left no timer.
Planned == /\ tick = "start" => screen = "open" /\ held = 0
           /\ screen = "away" => tick = "none" /\ timer = "none" /\ ~ late

Owned == TypeOK /\ Named /\ Free /\ Planned /\ NoStrayStream /\ ShutStaysShut

LEMMA OwnedInit == Init => Owned
<1> SUFFICES ASSUME Init PROVE Owned
  OBVIOUS
<1>1. TypeOK
  <2>0. late \in BOOLEAN
    BY Zenon DEF Init
  <2>1. events \in 0 .. MaxEvents
    BY EventsAssumption DEF Init
  <2>2. gen \in Nat /\ held \in 0 .. gen /\ shown \in 0 .. gen /\ asked = {} /\ live = {}
    BY DEF Init
  <2> QED BY <2>0, <2>1, <2>2 DEF Init, TypeOK, CameraStatus
<1> QED BY <1>1 DEF Init, Owned, Named, Free, Planned, NoStrayStream, ShutStaysShut, Troubles

\* A start names its request after a new generation.
LEMMA StartTyped ==
  ASSUME TypeOK, NEW g \in {gen, gen + 1}, Started(g)
  PROVE  /\ status' \in CameraStatus
         /\ gen' \in Nat /\ gen <= gen' /\ asked' \subseteq 0 .. gen'
<1>1. gen \in Nat /\ g \in Nat /\ gen <= g /\ asked \subseteq 0 .. gen
  BY DEF TypeOK
<1>2. CASE browser \in NoCamera
  <2>1. status' = browser /\ gen' = g /\ asked' = asked
    BY <1>2 DEF Started
  <2>2. status' \in CameraStatus
    BY <1>2, <2>1 DEF CameraStatus
  <2> QED BY <1>1, <2>1, <2>2
<1>3. CASE browser \notin NoCamera
  <2>1. status' = "REQUESTING" /\ gen' = g + 1 /\ asked' = asked \cup {g + 1}
    BY <1>3 DEF Started
  <2>2. status' \in CameraStatus
    BY <2>1 DEF CameraStatus
  <2> QED BY <1>1, <2>1, <2>2
<1> QED BY <1>2, <1>3

LEMMA TypeMount == ASSUME Owned, NEW to \in {"open", "shut"}, Mount(to) PROVE TypeOK'
BY EventsAssumption DEF Owned, TypeOK, CameraStatus, NoCamera, Mount, Event

LEMMA OwnedMount == ASSUME Owned, NEW to \in {"open", "shut"}, Mount(to) PROVE Owned'
BY TypeMount
   DEF Owned, TypeOK, Named, Free, Planned, NoStrayStream, ShutStaysShut, Troubles, NoCamera,
       Mount, Event

LEMMA TypeShut == ASSUME Owned, Shut PROVE TypeOK'
BY EventsAssumption DEF Owned, TypeOK, CameraStatus, NoCamera, Shut, Event, Stopped

LEMMA OwnedShut == ASSUME Owned, Shut PROVE Owned'
BY TypeShut
   DEF Owned, TypeOK, Named, Free, Planned, NoStrayStream, ShutStaysShut, Troubles, NoCamera,
       Shut, Event, Stopped

LEMMA TypeUnmount == ASSUME Owned, Unmount PROVE TypeOK'
<1>1. gen' = gen + 1 /\ held' = 0 /\ shown' = 0 /\ live' \subseteq live /\ asked' = asked
  BY DEF Unmount, Stopped
<1>2. gen' \in Nat /\ held' \in 0 .. gen' /\ shown' \in 0 .. gen'
      /\ asked' \subseteq 0 .. gen' /\ live' \subseteq 0 .. gen'
  BY <1>1 DEF Owned, TypeOK
<1>3. late' \in BOOLEAN
  BY DEF Unmount
<1> QED BY <1>2, <1>3 DEF Owned, TypeOK, CameraStatus, Unmount

LEMMA OwnedUnmount == ASSUME Owned, Unmount PROVE Owned'
<1>1. /\ held' = 0 /\ live' = {} /\ gen' = gen + 1 /\ asked' = asked
      /\ screen' = "away" /\ tick' = "none" /\ timer' = "none" /\ ~ late'
      /\ browser' = browser /\ status' = "IDLE" /\ seen' = "IDLE"
  BY DEF Owned, NoStrayStream, Unmount, Stopped
<1>2. gen' \notin asked'
  BY <1>1 DEF Owned, TypeOK
<1> QED BY <1>1, <1>2, TypeUnmount
        DEF Owned, Named, Free, Planned, NoStrayStream, ShutStaysShut, Troubles

LEMMA TypeTick == ASSUME Owned, Tick PROVE TypeOK'
<1>1. UNCHANGED <<screen, browser, seen, shown, timer, late, events>> /\ tick' = "none"
  BY DEF Tick
<1>2. CASE tick = "start"
  <2>1. held' = held /\ live' = live /\ Started(gen)
    BY <1>2 DEF Tick
  <2>2. /\ status' \in CameraStatus
        /\ gen' \in Nat /\ gen <= gen' /\ asked' \subseteq 0 .. gen'
    BY <2>1, StartTyped DEF Owned
  <2>3. held' \in 0 .. gen' /\ shown' \in 0 .. gen' /\ live' \subseteq 0 .. gen'
    BY <1>1, <2>1, <2>2 DEF Owned, TypeOK
  <2> QED BY <1>1, <2>2, <2>3 DEF Owned, TypeOK
<1>3. CASE tick = "stop"
  <2>1. held' = 0 /\ live' \subseteq live /\ gen' = gen + 1 /\ status' = status /\ asked' = asked
    BY <1>3 DEF Tick, Stopped
  <2>2. /\ gen' \in Nat /\ held' \in 0 .. gen' /\ shown' \in 0 .. gen'
        /\ live' \subseteq 0 .. gen' /\ asked' \subseteq 0 .. gen'
    BY <1>1, <2>1 DEF Owned, TypeOK
  <2> QED BY <1>1, <2>1, <2>2 DEF Owned, TypeOK
<1> QED BY <1>2, <1>3 DEF Tick

LEMMA OwnedTick == ASSUME Owned, Tick PROVE Owned'
BY TypeTick
   DEF Owned, TypeOK, Named, Free, Planned, NoStrayStream, ShutStaysShut, Troubles, NoCamera,
       Tick, Stopped, Started

LEMMA TypeRender == ASSUME Owned, Render PROVE TypeOK'
BY EventsAssumption DEF Owned, TypeOK, CameraStatus, NoCamera, Render

LEMMA OwnedRender == ASSUME Owned, Render PROVE Owned'
BY TypeRender
   DEF Owned, TypeOK, Named, Free, Planned, NoStrayStream, ShutStaysShut, Troubles, NoCamera,
       Render

LEMMA TypeRetry == ASSUME Owned, Retry PROVE TypeOK'
<1>1. /\ status' \in CameraStatus
      /\ gen' \in Nat /\ gen <= gen' /\ asked' \subseteq 0 .. gen'
  BY StartTyped DEF Owned, Retry
<1>2. held' \in 0 .. gen' /\ shown' \in 0 .. gen' /\ live' \subseteq 0 .. gen'
  BY <1>1 DEF Owned, TypeOK, Retry
<1>3. events' \in 0 .. MaxEvents
  BY EventsAssumption DEF Owned, TypeOK, Retry, Event
<1>4. UNCHANGED <<screen, browser, seen, tick, timer, late>>
  BY DEF Retry
<1> QED BY <1>1, <1>2, <1>3, <1>4 DEF Owned, TypeOK

LEMMA OwnedRetry == ASSUME Owned, Retry PROVE Owned'
BY TypeRetry
   DEF Owned, TypeOK, Named, Free, Planned, NoStrayStream, ShutStaysShut, Troubles, NoCamera,
       Retry, Event, Started

LEMMA TypeGranted == ASSUME Owned, NEW g \in asked, Granted(g) PROVE TypeOK'
BY EventsAssumption DEF Owned, TypeOK, CameraStatus, NoCamera, Granted, Settled

\* A stream granted to the request that counts finds nothing held; one granted to
\* an older request changes nothing.
LEMMA OwnedGranted == ASSUME Owned, NEW g \in asked, Granted(g) PROVE Owned'
<1>1. /\ seen = status /\ asked' = asked \ {g} /\ g # 0
      /\ UNCHANGED <<screen, browser, seen, tick, timer, gen, late>>
  BY DEF Owned, Named, Granted, Settled
<1>2. CASE g = gen
  <2>1. held = 0 /\ live = {} /\ seen = "REQUESTING"
    BY <1>1, <1>2 DEF Owned, Named, Free, NoStrayStream
  <2>2. CASE held' = g /\ live' = live \cup {g} /\ status' = "READY"
    <3>1. screen = "open" \/ late
      BY <1>2 DEF Owned, ShutStaysShut
    <3>2. tick # "start"
      BY DEF Granted, Settled
    <3> QED BY <1>1, <1>2, <2>1, <2>2, <3>1, <3>2, TypeGranted
            DEF Owned, Named, Free, Planned, NoStrayStream, ShutStaysShut, Troubles
  <2> QED BY <1>2, <2>2 DEF Granted
<1>3. CASE g # gen
  <2>1. UNCHANGED <<held, live, status>>
    BY <1>3 DEF Granted
  <2> QED BY <1>1, <2>1, TypeGranted
          DEF Owned, Named, Free, Planned, NoStrayStream, ShutStaysShut
<1> QED BY <1>2, <1>3

LEMMA TypeRefused == ASSUME Owned, NEW g \in asked, Refused(g) PROVE TypeOK'
BY EventsAssumption DEF Owned, TypeOK, CameraStatus, NoCamera, Refused, Settled

LEMMA OwnedRefused == ASSUME Owned, NEW g \in asked, Refused(g) PROVE Owned'
BY TypeRefused
   DEF Owned, TypeOK, Named, Free, Planned, NoStrayStream, ShutStaysShut, Troubles, NoCamera,
       Refused, Settled

LEMMA TypeDies == ASSUME Owned, NEW s \in live, Dies(s) PROVE TypeOK'
BY EventsAssumption DEF Owned, TypeOK, CameraStatus, NoCamera, Dies, Event, Recover

LEMMA OwnedDies == ASSUME Owned, NEW s \in live, Dies(s) PROVE Owned'
BY TypeDies
   DEF Owned, TypeOK, Named, Free, Planned, NoStrayStream, ShutStaysShut, Troubles, NoCamera,
       Dies, Event, Recover

LEMMA TypePoll == ASSUME Owned, Poll PROVE TypeOK'
BY EventsAssumption DEF Owned, TypeOK, CameraStatus, NoCamera, Poll, Recover

LEMMA OwnedPoll == ASSUME Owned, Poll PROVE Owned'
BY TypePoll
   DEF Owned, TypeOK, Named, Free, Planned, NoStrayStream, ShutStaysShut, Troubles, NoCamera,
       Poll, Recover

LEMMA TypeWake == ASSUME Owned, Wake PROVE TypeOK'
BY EventsAssumption DEF Owned, TypeOK, CameraStatus, NoCamera, Wake, Event, Recover

LEMMA OwnedWake == ASSUME Owned, Wake PROVE Owned'
BY TypeWake
   DEF Owned, TypeOK, Named, Free, Planned, NoStrayStream, ShutStaysShut, Troubles, NoCamera,
       Wake, Event, Recover

LEMMA TypeTimerFires == ASSUME Owned, TimerFires PROVE TypeOK'
<1>1. /\ status' \in CameraStatus
      /\ gen' \in Nat /\ gen <= gen' /\ asked' \subseteq 0 .. gen'
  BY StartTyped DEF Owned, TypeOK, TimerFires
<1>2. held' \in 0 .. gen' /\ shown' \in 0 .. gen' /\ live' \subseteq 0 .. gen'
  BY <1>1 DEF Owned, TypeOK, TimerFires, Stopped
<1>3. late' \in BOOLEAN
  BY DEF TimerFires
<1>4. UNCHANGED <<screen, browser, seen, tick, events>> /\ timer' = "none"
  BY DEF TimerFires
<1> QED BY <1>1, <1>2, <1>3, <1>4 DEF Owned, TypeOK

\* A recovery stops what is held before it asks; on a shut viewfinder it is late.
LEMMA OwnedTimerFires == ASSUME Owned, TimerFires PROVE Owned'
<1>1. held' = 0 /\ live' = {}
  BY DEF Owned, NoStrayStream, TimerFires, Stopped
<1>2. UNCHANGED <<screen, browser, seen, tick>> /\ timer' = "none" /\ tick = "none"
      /\ screen # "away"
  BY DEF Owned, Planned, TimerFires, Settled
<1>3. screen = "shut" => late'
  BY DEF TimerFires
<1>4. /\ 0 \notin asked' /\ (browser \in NoCamera => asked' = {})
      /\ (gen' \in asked' => status' = "REQUESTING")
  <2>1. CASE browser \in NoCamera
    <3>1. asked = {} /\ asked' = asked /\ 0 \notin asked
      BY <2>1 DEF Owned, Named, TimerFires, Started
    <3> QED BY <3>1
  <2>2. CASE browser \notin NoCamera
    <3>1. gen + 2 # 0 /\ gen + 1 + 1 = gen + 2
      BY DEF Owned, TypeOK
    <3>2. asked' = asked \cup {gen + 2} /\ status' = "REQUESTING" /\ browser' = browser
      BY <2>2, <3>1 DEF TimerFires, Started
    <3> QED BY <2>2, <3>1, <3>2 DEF Owned, Named
  <2> QED BY <2>1, <2>2
<1>5. screen' # "open" /\ ~ late' => FALSE
  BY <1>2, <1>3 DEF Owned, TypeOK
<1> QED BY <1>1, <1>2, <1>4, <1>5, TypeTimerFires
        DEF Owned, Named, Free, Planned, NoStrayStream, ShutStaysShut

LEMMA OwnedNext == Owned /\ [Next]_vars => Owned'
<1> SUFFICES ASSUME Owned, [Next]_vars PROVE Owned'
  OBVIOUS
<1>1. CASE UNCHANGED vars
  BY <1>1 DEF vars, hook, Owned, TypeOK, Named, Free, Planned, NoStrayStream, ShutStaysShut
<1>2. CASE \E to \in {"open", "shut"} : Mount(to)
  BY <1>2, OwnedMount
<1>3. CASE Shut \/ Unmount \/ Tick \/ Render \/ Retry
  BY <1>3, OwnedShut, OwnedUnmount, OwnedTick, OwnedRender, OwnedRetry
<1>4. CASE \E g \in asked : Granted(g) \/ Refused(g)
  BY <1>4, OwnedGranted, OwnedRefused
<1>5. CASE \E s \in live : Dies(s)
  BY <1>5, OwnedDies
<1>6. CASE Poll \/ Wake \/ TimerFires
  BY <1>6, OwnedPoll, OwnedWake, OwnedTimerFires
<1> QED BY <1>1, <1>2, <1>3, <1>4, <1>5, <1>6 DEF Next

LEMMA AlwaysOwned == Spec => []Owned
BY OwnedInit, OwnedNext, PTL DEF Spec

----------------------------------------------------------------------------
(* The theorems.                                                            *)

\* However long a viewfinder is opened and shut, the hook and the device stay
\* well-typed and generations only name streams that were asked for.
THEOREM TypeCorrect == Spec => []TypeOK
<1>1. Owned => TypeOK
  BY DEF Owned
<1> QED BY <1>1, AlwaysOwned, PTL

\* The only stream that runs is the one the hook holds, whenever and in whatever
\* order the device answers.
THEOREM StreamsAreHeld == Spec => []NoStrayStream
<1>1. Owned => NoStrayStream
  BY DEF Owned
<1> QED BY <1>1, AlwaysOwned, PTL

\* A viewfinder that is shut or gone has no camera and is not waiting for one,
\* but for a recovery that was waiting when it was shut.
THEOREM ShutViewfindersStayShut == Spec => []ShutStaysShut
<1>1. Owned => ShutStaysShut
  BY DEF Owned
<1> QED BY <1>1, AlwaysOwned, PTL

=============================================================================
