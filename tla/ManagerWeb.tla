----------------------------- MODULE ManagerWeb -----------------------------
(***************************************************************************)
(* Sessions and the manager's dashboard: the sign-in screen, the gate over *)
(* each layout, the token the requests of a browser tab share, the area    *)
(* the dashboard is about and what its panes load for it.                  *)
(*                                                                         *)
(* A session is a token the server has given, numbered in that order.  A   *)
(* request carries the token that is stored when it is sent, and what its  *)
(* answer does to the tab happens whatever the tab has turned to by then:  *)
(* a 401 clears the token that is stored.  Components that are gone hear   *)
(* nothing more: a gate and a dashboard are numbered, too.                 *)
(***************************************************************************)
EXTENDS Naturals, Sequences

CONSTANTS
  Reps, Managers,  \* accounts
  Areas, NoArea,   \* areas of the managers; every area together
  Captures, NoCapture,
  HomeArea,        \* a manager's own area
  MaxLogins,       \* bound on the sessions the server gives
  MaxClicks,       \* bound on what the reader of the dashboard clicks
  MaxFaults        \* bound on requests that fail and sessions the server ends

ASSUME AccountAssumption == Reps \cap Managers = {}
ASSUME AreaAssumption == /\ NoArea \notin Areas /\ NoCapture \notin Captures
                         /\ HomeArea \in [Managers -> Areas]
ASSUME BoundAssumption == {MaxLogins, MaxClicks, MaxFaults} \subseteq Nat

VARIABLES
  screen,   \* the layout shown: sign-in and phone share one gate
  token,    \* the session in the tab's storage, or 0
  owner,    \* the account of each session
  valid,    \* sessions the server still takes
  gate,     \* the gate: its number, the session whose user it knows or 0, its state
  shell,    \* the dashboard: its number, whether it has chosen, its area
  panes,    \* what each pane was asked for, what it holds, its state and its run
  calls,    \* requests that are out
  clicks, faults

storage == <<token, owner, valid>>
vars == <<screen, storage, gate, shell, panes, calls, clicks, faults>>

Users == Reps \cup Managers
Panes == {"area", "evidence"}
Nothing == "nothing"
Subject(p) == IF p = "area" THEN Areas \cup {NoArea, Nothing} ELSE Captures \cup {NoCapture, Nothing}

NoToken == 0
FreshGate(n) == [no |-> n, user |-> 0, state |-> "CHECKING"]
FreshPane == [asked |-> Nothing, data |-> Nothing, state |-> "LOADING", run |-> 0]

Init ==
  /\ screen = "login"
  /\ token = NoToken /\ owner = <<>> /\ valid = {}
  /\ gate = FreshGate(0)
  /\ shell = [no |-> 0, chosen |-> FALSE, area |-> NoArea]
  /\ panes = [p \in Panes |-> FreshPane]
  /\ calls = {} /\ clicks = 0 /\ faults = 0

Click == clicks < MaxClicks /\ clicks' = clicks + 1
Fault == faults < MaxFaults /\ faults' = faults + 1

-----------------------------------------------------------------------------
(* Requests.                                                                *)

\* A request of component number `of', with the token t; a pane's load is for a
\* subject, as one run of its pane.
Request(kind, of, t, subject, run) ==
  [kind |-> kind, of |-> of, token |-> t, subject |-> subject, run |-> run]
Me(n, t) == Request("me", n, t, Nothing, 0)

\* getToken: an expired token is cleared as it is read, if the tab's clock knows.
Read(t) == IF t \in valid THEN {t} ELSE {t, NoToken}

\* The dashboard stands while the gate over it is open.
Standing == screen = "web" /\ gate.state = "READY"
IsRep == gate.user # 0 /\ owner[gate.user] \in Reps

-----------------------------------------------------------------------------
(* The panes: useResource.                                                  *)

\* Mutant: a run that is begun does not take the place of the one before.
BegunBeside(pane, x) == [pane EXCEPT !.asked = x, !.state = "LOADING"]

\* New inputs: back to loading, by a new run.
Begun(pane, x) == [pane EXCEPT !.asked = x, !.state = "LOADING", !.run = @ + 1]

\* The request of a pane that has begun so.
LoadOf(p, x, t) == Request(p, shell.no, t, x, Begun(panes[p], x).run)

Load(p, x, t, cs) ==
  /\ panes' = [panes EXCEPT ![p] = Begun(@, x)]
  /\ calls' = cs \cup {LoadOf(p, x, t)}

\* Only the latest run of a dashboard that stands still counts.
Current(c) == Standing /\ c.of = shell.no /\ panes[c.kind].run = c.run

\* Mutant: an answer goes to the first pane, whoever asked.
LoadedIntoFirst(c) ==
  /\ c.kind \in Panes /\ c.token \in valid
  /\ panes' = IF Current(c)
              THEN [panes EXCEPT !["area"].data = c.subject, !["area"].state = "READY"]
              ELSE panes
  /\ calls' = calls \ {c}
  /\ UNCHANGED <<screen, storage, gate, shell, clicks, faults>>

Loaded(c) ==
  /\ c.kind \in Panes /\ c.token \in valid \cup {NoToken}
  /\ c.token = NoToken => c.subject = NoCapture
  /\ panes' = IF Current(c)
              THEN [panes EXCEPT ![c.kind].data = c.subject, ![c.kind].state = "READY"]
              ELSE panes
  /\ calls' = calls \ {c}
  /\ UNCHANGED <<screen, storage, gate, shell, clicks, faults>>

LoadFails(c) ==
  /\ c.kind \in Panes /\ c.subject # NoCapture /\ Fault
  /\ panes' = IF Current(c) THEN [panes EXCEPT ![c.kind].state = "ERROR"] ELSE panes
  /\ calls' = calls \ {c}
  /\ UNCHANGED <<screen, storage, gate, shell, clicks>>

-----------------------------------------------------------------------------
(* The gate.                                                                *)

\* Who may see what: the effect of the gate g over a layout, where the token read
\* is t.  Nobody signed in, and the tab goes to the sign-in screen; a user the
\* gate knows is asked for only once.
Checked(to, g, cs, t) ==
  IF t = NoToken
  THEN /\ screen' = "login"
       /\ gate' = IF to = "web" THEN FreshGate(g.no + 1) ELSE g
       /\ calls' = cs
  ELSE /\ screen' = to
       /\ gate' = g
       /\ calls' = IF g.user # 0 THEN cs ELSE cs \cup {Me(g.no, t)}

\* Going to a layout keeps its gate, if it stands already.
Enter(to, cs, t) ==
  Checked(to, IF (to = "web") = (screen = "web") THEN gate ELSE FreshGate(gate.no + 1), cs, t)

\* Another screen of the phone's app, which the dashboard has a link to.
BrowsePhone ==
  /\ screen # "login" /\ gate.state = "READY" /\ Click
  /\ \E t \in Read(token) : token' = t /\ Enter("phone", calls, t)
  /\ UNCHANGED <<owner, valid, shell, panes, faults>>

\* Another screen of the dashboard: its pane is a new one.
BrowseWeb ==
  /\ Standing /\ ~IsRep /\ shell.chosen /\ Click
  /\ panes' = [panes EXCEPT !["area"] = [Begun(@, shell.area) EXCEPT !.data = Nothing]]
  /\ \E t \in Read(token) :
       token' = t /\ Enter("web", calls \cup {LoadOf("area", shell.area, t)}, t)
  /\ UNCHANGED <<owner, valid, shell, faults>>

\* To the sign-in screen, from wherever.  The phone's gate goes on knowing whom it
\* knew.
SignedOut(cs) ==
  /\ screen' = "login"
  /\ gate' = IF screen = "web" THEN FreshGate(gate.no + 1) ELSE gate
  /\ calls' = cs

Logout ==
  /\ screen # "login" /\ gate.state = "READY" /\ Click
  /\ token' = NoToken
  /\ SignedOut(calls)
  /\ UNCHANGED <<owner, valid, shell, panes, faults>>

\* The gate opens over a dashboard, which asks for its areas.
Opened(g, cs) ==
  /\ gate' = g
  /\ IF screen = "web" /\ gate.state # "READY"
     THEN /\ shell' = [no |-> shell.no + 1, chosen |-> FALSE, area |-> NoArea]
          /\ panes' = [p \in Panes |-> FreshPane]
          /\ calls' = cs \cup {Request("areas", shell.no + 1, token, Nothing, 0)}
     ELSE UNCHANGED <<shell, panes>> /\ calls' = cs

MeAnswered(c) ==
  /\ c.kind = "me" /\ c.token \in valid
  /\ IF c.of = gate.no THEN Opened([gate EXCEPT !.user = c.token, !.state = "READY"], calls \ {c})
     ELSE calls' = calls \ {c} /\ UNCHANGED <<gate, shell, panes>>
  /\ UNCHANGED <<screen, storage, clicks, faults>>

\* No signal opens the gate, too, over a user it does not know; an error does not.
MeFails(c) ==
  /\ c.kind = "me" /\ Fault
  /\ \/ c.of = gate.no /\ Opened([gate EXCEPT !.state = "READY"], calls \ {c})
     \/ /\ calls' = calls \ {c}
        /\ gate' = IF c.of = gate.no THEN [gate EXCEPT !.state = "ERROR"] ELSE gate
        /\ UNCHANGED <<shell, panes>>
  /\ UNCHANGED <<screen, storage, clicks>>

TryAgain ==
  /\ screen # "login" /\ gate.state = "ERROR" /\ Click
  /\ gate' = [gate EXCEPT !.state = "CHECKING"]
  /\ \E t \in Read(token) : token' = t /\ calls' = calls \cup {Me(gate.no, t)}
  /\ UNCHANGED <<screen, owner, valid, shell, panes, faults>>

-----------------------------------------------------------------------------
(* Sessions.                                                                *)

\* The sign-in form takes one press at a time.
Submit(u) ==
  /\ screen = "login" /\ \A c \in calls : c.kind \notin {"login", "whoami"}
  /\ Len(owner) < MaxLogins
  /\ calls' = calls \cup {Request("login", gate.no, NoToken, u, 0)}
  /\ UNCHANGED <<screen, storage, gate, shell, panes, clicks, faults>>

\* The token is stored and then the user asked for.
LoginServed(c) ==
  /\ c.kind = "login"
  /\ LET n == Len(owner) + 1 IN
     /\ owner' = Append(owner, c.subject)
     /\ valid' = valid \cup {n}
     /\ token' = n
     /\ calls' = (calls \ {c}) \cup {Request("whoami", c.of, n, c.subject, 0)}
  /\ UNCHANGED <<screen, gate, shell, panes, clicks, faults>>

\* A rep goes on to the route, the others to the dashboard.
SignedIn(c) ==
  /\ c.kind = "whoami" /\ c.token \in valid
  /\ \E t \in Read(token) :
       /\ token' = t
       /\ Enter(IF c.subject \in Reps THEN "phone" ELSE "web", calls \ {c}, t)
  /\ UNCHANGED <<owner, valid, shell, panes, clicks, faults>>

\* Mutant: the form's own 401 is taken for the end of the session.
LoginRefusedAsExpired(c) ==
  /\ c.kind \in {"login", "whoami"} /\ Fault
  /\ token' = NoToken /\ calls' = calls \ {c}
  /\ UNCHANGED <<screen, owner, valid, gate, shell, panes, clicks>>

\* Wrong credentials, no signal, or no answer to who it is.
LoginFails(c) ==
  /\ c.kind \in {"login", "whoami"} /\ Fault
  /\ calls' = calls \ {c}
  /\ UNCHANGED <<screen, storage, gate, shell, panes, clicks>>

\* The server ends a session: it is over its time, or its account is.
Expire(n) ==
  /\ n \in valid /\ Fault
  /\ valid' = valid \ {n}
  /\ UNCHANGED <<screen, token, owner, gate, shell, panes, calls, clicks>>

\* A 401: whichever token is stored is cleared, and every gate that stands sends
\* the tab to the sign-in screen; then the caller takes its error.
Unauthorized(c) ==
  /\ c.kind # "login" /\ c.token \notin valid /\ c.subject # NoCapture
  /\ token' = NoToken
  /\ screen' = "login"
  /\ gate' = IF screen = "web" THEN FreshGate(gate.no + 1)
             ELSE IF c.kind = "me" /\ c.of = gate.no THEN [gate EXCEPT !.state = "ERROR"]
             ELSE gate
  /\ calls' = calls \ {c}
  /\ UNCHANGED <<owner, valid, shell, panes, clicks, faults>>

-----------------------------------------------------------------------------
(* The dashboard.                                                           *)

\* Once the areas are there, or are not to be had, the dashboard chooses: the
\* manager's own area, or the first of the list, or every area together.  Its
\* panes then ask for it, under a rep's refusal there are none.
Chosen(c, to) ==
  /\ shell' = [shell EXCEPT !.chosen = TRUE, !.area = to]
  /\ IF IsRep THEN calls' = calls \ {c} /\ UNCHANGED <<panes, token>>
     ELSE \E t \in Read(token) : token' = t /\ Load("area", to, t, calls \ {c})

AreasSettled(c) ==
  /\ c.kind = "areas" /\ Standing /\ c.of = shell.no
  /\ \/ /\ c.token \in valid /\ UNCHANGED faults
        /\ \E to \in Areas :
             /\ gate.user # 0 /\ ~IsRep => to = HomeArea[owner[gate.user]]
             /\ Chosen(c, to)
     \/ Fault /\ Chosen(c, NoArea)
  /\ UNCHANGED <<screen, owner, valid, gate, clicks>>

\* Areas for a dashboard that is gone.
AreasUnheard(c) ==
  /\ c.kind = "areas" /\ c.token \in valid /\ ~(Standing /\ c.of = shell.no)
  /\ calls' = calls \ {c}
  /\ UNCHANGED <<screen, storage, gate, shell, panes, clicks, faults>>

ChangeArea(to) ==
  /\ Standing /\ ~IsRep /\ shell.chosen /\ to # shell.area /\ Click
  /\ shell' = [shell EXCEPT !.area = to]
  /\ \E t \in Read(token) : token' = t /\ Load("area", to, t, calls)
  /\ UNCHANGED <<screen, owner, valid, gate, faults>>

\* A photograph of the store's timeline is opened, or the viewer closed: what it
\* then loads is nothing, without a request.
View(x) ==
  /\ Standing /\ ~IsRep /\ shell.chosen /\ x # panes["evidence"].asked /\ Click
  /\ x = NoCapture => panes["evidence"].asked # Nothing
  /\ \E t \in Read(token) :
       /\ token' = IF x = NoCapture THEN token ELSE t
       /\ Load("evidence", x, IF x = NoCapture THEN NoToken ELSE t, calls)
  /\ UNCHANGED <<screen, owner, valid, gate, shell, faults>>

-----------------------------------------------------------------------------

Next ==
  \/ BrowsePhone \/ BrowseWeb \/ Logout \/ TryAgain
  \/ \E u \in Users : Submit(u)
  \/ \E n \in valid : Expire(n)
  \/ \E to \in Areas \cup {NoArea} : ChangeArea(to)
  \/ \E x \in Captures \cup {NoCapture} : View(x)
  \/ \E c \in calls :
       \/ Loaded(c) \/ LoadFails(c)
       \/ MeAnswered(c) \/ MeFails(c)
       \/ LoginServed(c) \/ SignedIn(c) \/ LoginFails(c) \/ Unauthorized(c)
       \/ AreasSettled(c) \/ AreasUnheard(c)

Spec == Init /\ [][Next]_vars

-----------------------------------------------------------------------------
(* Properties.                                                              *)

TypeOK ==
  /\ screen \in {"login", "phone", "web"}
  /\ owner \in Seq(Users) /\ Len(owner) <= MaxLogins
  /\ valid \subseteq DOMAIN owner /\ token \in {NoToken} \cup DOMAIN owner
  /\ gate \in [no : Nat, user : {NoToken} \cup DOMAIN owner, state : {"CHECKING", "READY", "ERROR"}]
  /\ shell \in [no : Nat, chosen : BOOLEAN, area : Areas \cup {NoArea}]
  /\ \A p \in Panes : panes[p] \in [asked : Subject(p), data : Subject(p),
                                   state : {"LOADING", "READY", "ERROR"}, run : Nat]
  /\ DOMAIN panes = Panes
  /\ \A c \in calls : /\ c.kind \in Panes \cup {"login", "whoami", "me", "areas"}
                      /\ c.token \in {NoToken} \cup DOMAIN owner
                      /\ c.kind \in Panes => c.subject \in Subject(c.kind)
                      /\ c.kind \in {"login", "whoami"} => c.subject \in Users
  /\ clicks \in 0 .. MaxClicks /\ faults \in 0 .. MaxFaults

\* A pane that says it is ready shows what the dashboard is about: no figures of
\* the area before under the name of this one, and no photograph of the one
\* closed (useResource.ts, the latest load wins).
ShowsWhatWasAsked ==
  Standing =>
    /\ shell.chosen /\ ~IsRep => panes["area"].asked = shell.area
    /\ \A p \in Panes : panes[p].state = "READY" => panes[p].data = panes[p].asked

\* A session the server still takes is lost to the tab only by signing out of it,
\* by signing in again, or by the answer to a request of another session: never by
\* the requests it made itself, nor by a sign-in that was refused (client.ts,
\* request).
SessionLostOnlyToAnother ==
  [][(token \in valid /\ token' = NoToken) =>
       \/ calls' = calls
       \/ \E c \in calls \ calls' : c.kind # "login" /\ c.token # token]_vars

=============================================================================
