------------------------------- MODULE Camera -------------------------------
(***************************************************************************)
(* The viewfinder of the phone: the useCamera hook on the capture and the  *)
(* compare screens, the device that grants, refuses and takes back the     *)
(* camera, and the recovery pass that reopens it.                          *)
(*                                                                         *)
(* getUserMedia answers long after it was asked, and by then its screen    *)
(* may be gone or another request may have replaced it: every start and    *)
(* stop takes a new generation, and an answer to an older one is let go.   *)
(* What the screen shows, and what the listeners read, is the state of the *)
(* last render, `seen' and `shown'.                                        *)
(***************************************************************************)
EXTENDS Naturals

CONSTANT MaxEvents   \* bound on what the rep and the device do to the viewfinder
ASSUME EventsAssumption == MaxEvents \in Nat

VARIABLES
  screen,   \* no viewfinder; one that is to be shut; one that is to be open
  browser,  \* whether this browser opens a camera at all
  status, held,   \* the hook's state: its status, its stream or 0
  seen, shown,    \* both, as of the last render
  tick,     \* what the next tick is to do about the screen
  timer,    \* a recovery waits for its back-off
  gen,      \* generation; a stream is named after the one it was granted to
  asked,    \* requests the device has not answered
  live,     \* streams whose track runs
  late,     \* a recovery fired on a screen that had shut its viewfinder
  events

hook == <<status, held, seen, shown, tick, timer, gen>>
vars == <<screen, browser, hook, asked, live, late, events>>

Troubles == {"DENIED", "NOT_FOUND", "IN_USE", "ERROR"}
NoCamera == {"INSECURE", "UNSUPPORTED"}
CameraStatus == {"IDLE", "REQUESTING", "READY"} \cup Troubles \cup NoCamera

Init ==
  /\ screen = "away"
  /\ browser \in {"able"} \cup NoCamera
  /\ status = "IDLE" /\ held = 0 /\ seen = "IDLE" /\ shown = 0
  /\ tick = "none" /\ timer = "none" /\ gen = 0
  /\ asked = {} /\ live = {} /\ late = FALSE /\ events = 0

Event == events < MaxEvents /\ events' = events + 1

\* React renders a change, and the next tick comes, long before the device answers
\* or a back-off or an interval ends.
Settled == seen = status /\ shown = held /\ tick = "none"

-----------------------------------------------------------------------------
(* start, stop and recover.                                                 *)

\* stop, but for the generation it takes.
Stopped == live' = live \ {held} /\ held' = 0

\* start: a browser that cannot only says so; the others ask, as generation g + 1.
\* A stream that is held meanwhile stays.
Started(g) ==
  IF browser \in NoCamera
  THEN status' = browser /\ gen' = g /\ UNCHANGED asked
  ELSE status' = "REQUESTING" /\ gen' = g + 1 /\ asked' = asked \cup {g + 1}

\* recover, with these tracks running: unless a request is out, or a recovery
\* waits already, a viewfinder without a live track is to be reopened.
Recover(running) ==
  timer' = IF screen = "open" /\ seen # "REQUESTING" /\ timer = "none" /\ held \notin running
           THEN "set" ELSE timer

-----------------------------------------------------------------------------
(* The screen.                                                              *)

\* A screen with a viewfinder comes up: shut without consent, or on the compare
\* screen when the after photograph is there.
Mount(to) ==
  /\ screen = "away" /\ Event
  /\ screen' = to
  /\ tick' = IF to = "open" THEN "start" ELSE "stop"
  /\ UNCHANGED <<browser, status, held, seen, shown, timer, gen, asked, live, late>>

\* Mutant: the next tick is still the one the open viewfinder had planned.
ShutAfterTick ==
  /\ screen = "open" /\ Event
  /\ screen' = "shut"
  /\ Stopped /\ gen' = gen + 1
  /\ UNCHANGED <<browser, status, seen, shown, tick, timer, asked, late>>

\* The after photograph is taken, or picked: the effect of `active' cleans up and
\* plans to stop.  A recovery that waits goes on waiting.
Shut ==
  /\ screen = "open" /\ Event
  /\ screen' = "shut"
  /\ Stopped /\ gen' = gen + 1
  /\ tick' = "stop"
  /\ UNCHANGED <<browser, status, seen, shown, timer, asked, late>>

Unmount ==
  /\ screen # "away"
  /\ screen' = "away"
  /\ Stopped /\ gen' = gen + 1
  /\ tick' = "none" /\ timer' = "none"
  /\ status' = "IDLE" /\ seen' = "IDLE" /\ shown' = 0 /\ late' = FALSE
  /\ UNCHANGED <<browser, asked, events>>

Tick ==
  /\ tick # "none"
  /\ tick' = "none"
  /\ \/ tick = "start" /\ Started(gen) /\ UNCHANGED <<held, live>>
     \/ tick = "stop" /\ Stopped /\ gen' = gen + 1 /\ UNCHANGED <<status, asked>>
  /\ UNCHANGED <<screen, browser, seen, shown, timer, late, events>>

\* React renders; the listeners and the poll follow the stream and the status.
Render ==
  /\ seen # status \/ shown # held
  /\ seen' = status /\ shown' = held
  /\ UNCHANGED <<screen, browser, status, held, tick, timer, gen, asked, live, late, events>>

\* The rep asks for the camera again, on the screen that has a button for it.
Retry ==
  /\ screen = "open" /\ seen \in Troubles /\ Event
  /\ Started(gen)
  /\ UNCHANGED <<screen, browser, held, seen, shown, tick, timer, live, late>>

-----------------------------------------------------------------------------
(* The device.                                                              *)

\* Mutant: the stream is the hook's, whoever asked for it.
GrantedToAnyone(g) ==
  /\ g \in asked /\ Settled
  /\ asked' = asked \ {g}
  /\ held' = g /\ live' = live \cup {g} /\ status' = "READY"
  /\ UNCHANGED <<screen, browser, seen, shown, tick, timer, gen, late, events>>

\* A stream nobody waits for any more is stopped at once.
Granted(g) ==
  /\ g \in asked /\ Settled
  /\ asked' = asked \ {g}
  /\ \/ g = gen /\ held' = g /\ live' = live \cup {g} /\ status' = "READY"
     \/ g # gen /\ UNCHANGED <<held, live, status>>
  /\ UNCHANGED <<screen, browser, seen, shown, tick, timer, gen, late, events>>

\* Mutant: the status is the browser's name for the error.
RefusedByName(g) ==
  /\ g \in asked /\ Settled
  /\ asked' = asked \ {g}
  /\ \/ g = gen /\ status' = "NotReadableError"
     \/ g # gen /\ UNCHANGED status
  /\ UNCHANGED <<screen, browser, held, seen, shown, tick, timer, gen, live, late, events>>

Refused(g) ==
  /\ g \in asked /\ Settled
  /\ asked' = asked \ {g}
  /\ \/ g = gen /\ status' \in Troubles
     \/ g # gen /\ UNCHANGED status
  /\ UNCHANGED <<screen, browser, held, seen, shown, tick, timer, gen, live, late, events>>

\* A track ends, in the background or under a lock screen: the stream's listener
\* is told, or nobody is.
Dies(s) ==
  /\ s \in live /\ Event
  /\ live' = live \ {s}
  /\ \/ s = shown /\ Recover(live \ {s})
     \/ UNCHANGED timer
  /\ UNCHANGED <<screen, browser, status, held, seen, shown, tick, gen, asked, late>>

-----------------------------------------------------------------------------
(* The recovery pass.                                                       *)

\* Every two seconds while the viewfinder is ready.
Poll ==
  /\ shown # 0 /\ seen = "READY" /\ Settled
  /\ Recover(live)
  /\ UNCHANGED <<screen, browser, status, held, seen, shown, tick, gen, asked, live, late,
                 events>>

\* The page is visible again, or restored.
Wake ==
  /\ screen # "away" /\ Event
  /\ Recover(live)
  /\ UNCHANGED <<screen, browser, status, held, seen, shown, tick, gen, asked, live, late>>

\* Mutant: the timer's handle is kept, and stands against every later recovery.
TimerKept ==
  /\ timer = "set" /\ Settled
  /\ timer' = "spent"
  /\ Stopped /\ Started(gen + 1)
  /\ late' = (late \/ screen = "shut")
  /\ UNCHANGED <<screen, browser, seen, shown, tick, events>>

\* After its back-off a recovery stops and starts, whatever became of the stream
\* and of the screen meanwhile.
TimerFires ==
  /\ timer = "set" /\ Settled
  /\ timer' = "none"
  /\ Stopped /\ Started(gen + 1)
  /\ late' = (late \/ screen = "shut")
  /\ UNCHANGED <<screen, browser, seen, shown, tick, events>>

-----------------------------------------------------------------------------

Next ==
  \/ \E to \in {"open", "shut"} : Mount(to)
  \/ Shut \/ Unmount \/ Tick \/ Render \/ Retry
  \/ \E g \in asked : Granted(g) \/ Refused(g)
  \/ \E s \in live : Dies(s)
  \/ Poll \/ Wake \/ TimerFires

(***************************************************************************)
(* The page's own scheduling: renders, timers and intervals run.  The      *)
(* device need not answer: the permission sheet may stay up for ever.      *)
(***************************************************************************)
Fairness == WF_vars(Tick) /\ WF_vars(Render) /\ WF_vars(Poll) /\ WF_vars(TimerFires)

Spec == Init /\ [][Next]_vars /\ Fairness

-----------------------------------------------------------------------------
(* Properties.                                                              *)

TypeOK ==
  /\ screen \in {"away", "shut", "open"}
  /\ browser \in {"able"} \cup NoCamera
  /\ status \in CameraStatus /\ seen \in CameraStatus
  /\ gen \in Nat /\ held \in 0 .. gen /\ shown \in 0 .. gen
  /\ asked \subseteq 0 .. gen /\ live \subseteq 0 .. gen
  /\ tick \in {"none", "start", "stop"} /\ timer \in {"none", "set"}
  /\ late \in BOOLEAN /\ events \in 0 .. MaxEvents

\* No camera runs that the hook does not hold: its track would stay open for the
\* life of the tab, and the next request would fail as if another app had the
\* camera (useCamera.ts, generation).
NoStrayStream == live \subseteq {held}

\* A viewfinder that is gone or is to be shut, that of a capture screen without
\* consent among them, neither has the camera nor will be given it.  A recovery
\* that was waiting when the viewfinder was shut is the one exception
\* (useCamera.ts, recover).
ShutStaysShut ==
  screen # "open" /\ ~late => held = 0 /\ live = {} /\ gen \notin asked

\* A viewfinder that says it is ready over a dead track does not stay so: it is
\* reopened, or says why not, also when the browser tells nobody that the track
\* has ended (useCamera.ts, the poll).
Black == screen = "open" /\ seen = "READY" /\ held \notin live
DeadViewfinderEnds == Black ~> ~Black

=============================================================================
