------------------------- MODULE ManagerWeb_proofs -------------------------
(***************************************************************************)
(* Proofs about ManagerWeb, for any accounts, areas, photographs and       *)
(* bounds.                                                                 *)
(***************************************************************************)
EXTENDS ManagerWeb, TLAPS

----------------------------------------------------------------------------
(* The inductive invariant.                                                 *)

\* An answer that still counts for its pane is about what the pane was asked.
Answering ==
  \A c \in calls : c.kind \in Panes =>
    /\ c.of \in Nat /\ c.run \in Nat /\ c.of <= shell.no
    /\ c.of = shell.no => /\ c.run <= panes[c.kind].run
                          /\ c.run = panes[c.kind].run => c.subject = panes[c.kind].asked

\* One sign-in at a time, only on its screen and with a session to give it.
SigningIn(c) == c.kind \in {"login", "whoami"}
OneSignIn == /\ \A c, d \in calls : SigningIn(c) /\ SigningIn(d) => c = d
             /\ \A c \in calls : SigningIn(c) => screen = "login"
             /\ \A c \in calls : c.kind = "login" => Len(owner) < MaxLogins

\* Under the gate of a dashboard there is one session: the tab's token, the user
\* the gate knows and the answers it waits for are all of it.
Asking(c) == c.kind = "me" /\ c.of = gate.no
OneSession ==
  /\ \A c \in calls : c.kind = "me" => c.of \in Nat /\ c.of <= gate.no
  /\ screen = "web" => \E s \in {NoToken} \cup DOMAIN owner :
       /\ token \in {NoToken, s} /\ gate.user \in {NoToken, s}
       /\ \A c \in calls : Asking(c) => c.token \in {NoToken, s}

Consistent == TypeOK /\ Answering /\ OneSignIn /\ OneSession /\ ShowsWhatWasAsked

----------------------------------------------------------------------------
(* Types.                                                                   *)

Sessions == {NoToken} \cup DOMAIN owner
GateState == [no : Nat, user : Sessions, state : {"CHECKING", "READY", "ERROR"}]
PaneState(p) == [asked : Subject(p), data : Subject(p),
                 state : {"LOADING", "READY", "ERROR"}, run : Nat]
CallOK(c) == /\ c.kind \in Panes \cup {"login", "whoami", "me", "areas"}
             /\ c.token \in Sessions
             /\ c.kind \in Panes => c.subject \in Subject(c.kind)
             /\ c.kind \in {"login", "whoami"} => c.subject \in Users

\* What is read of the storage is the token or nothing.
LEMMA ReadToken ==
  ASSUME TypeOK, NEW t \in Read(token)
  PROVE  t \in {token, NoToken} /\ t \in Sessions
BY DEF TypeOK, Read, Sessions

LEMMA MeTyped == ASSUME NEW n, NEW t \in Sessions PROVE CallOK(Me(n, t))
BY DEF CallOK, Me, Request, Panes

LEMMA FreshGateTyped == ASSUME NEW n \in Nat PROVE FreshGate(n) \in GateState
BY DEF FreshGate, GateState, Sessions, NoToken

LEMMA BegunTyped ==
  ASSUME NEW p, NEW x \in Subject(p), NEW pane \in PaneState(p)
  PROVE  Begun(pane, x) \in PaneState(p)
<1>1. PICK q \in PaneState(p) : q = [pane EXCEPT !.asked = x]
  BY DEF PaneState
<1>2. PICK r \in PaneState(p) : r = [q EXCEPT !.state = "LOADING"]
  BY DEF PaneState
<1>3. q.run = pane.run /\ r.run = q.run
  BY <1>1, <1>2 DEF PaneState
<1>4. [r EXCEPT !.run = pane.run + 1] \in PaneState(p)
  BY DEF PaneState
<1> QED BY <1>1, <1>2, <1>3, <1>4 DEF Begun

\* A pane that is loaded, and the request of its load.
LEMMA LoadTyped ==
  ASSUME TypeOK, NEW p \in Panes, NEW x \in Subject(p), NEW t \in Sessions
  PROVE  /\ Begun(panes[p], x) \in PaneState(p)
         /\ CallOK(LoadOf(p, x, t))
<1>1. panes[p] \in PaneState(p)
  BY DEF TypeOK, PaneState
<1>2. Begun(panes[p], x) \in PaneState(p)
  BY <1>1, BegunTyped
<1>3. CallOK(LoadOf(p, x, t))
  <2>1. /\ LoadOf(p, x, t).kind = p /\ LoadOf(p, x, t).subject = x
        /\ LoadOf(p, x, t).token = t
    BY DEF LoadOf, Request
  <2> QED BY <2>1 DEF CallOK, Panes
<1> QED BY <1>2, <1>3

\* A load replaces one pane and adds one request.
LEMMA LoadKeepsTypes ==
  ASSUME TypeOK, NEW p \in Panes, NEW x \in Subject(p), NEW t \in Sessions,
         NEW cs \in SUBSET calls, Load(p, x, t, cs)
  PROVE  /\ DOMAIN panes' = Panes /\ \A q \in Panes : panes'[q] \in PaneState(q)
         /\ \A c \in calls' : CallOK(c)
<1>1. \A q \in Panes : panes[q] \in PaneState(q)
  BY DEF TypeOK, PaneState
<1>2. \A c \in calls : CallOK(c)
  BY DEF TypeOK, CallOK, Sessions
<1>3. panes' = [panes EXCEPT ![p] = Begun(panes[p], x)] /\ calls' = cs \cup {LoadOf(p, x, t)}
  BY DEF Load
<1>4. /\ DOMAIN panes' = Panes /\ panes'[p] = Begun(panes[p], x)
      /\ \A q \in Panes : q # p => panes'[q] = panes[q]
  BY <1>3 DEF TypeOK
<1> QED BY <1>1, <1>2, <1>3, <1>4, LoadTyped

\* Going to a layout asks who is there, at most.
LEMMA EnterKeepsTypes ==
  ASSUME TypeOK, NEW to \in {"phone", "web"}, NEW cs, \A c \in cs : CallOK(c),
         NEW t \in Sessions, Enter(to, cs, t)
  PROVE  /\ screen' \in {"login", "phone", "web"} /\ gate' \in GateState
         /\ \A c \in calls' : CallOK(c)
<1>1. gate \in GateState /\ gate.no + 1 \in Nat
  BY DEF TypeOK, GateState, Sessions
<1>2. PICK g \in {gate, FreshGate(gate.no + 1)} : Checked(to, g, cs, t)
  BY DEF Enter
<1>3. g \in GateState /\ g.no + 1 \in Nat
  BY <1>1, FreshGateTyped DEF GateState
<1>4. screen' \in {"login", to} /\ gate' \in {g, FreshGate(g.no + 1)}
      /\ calls' \subseteq cs \cup {Me(g.no, t)}
  BY <1>2 DEF Checked
<1> QED BY <1>3, <1>4, FreshGateTyped, MeTyped

\* The gate that opens asks for the areas of a new dashboard, at most.
LEMMA OpenedKeepsTypes ==
  ASSUME TypeOK, NEW g \in GateState, NEW cs \in SUBSET calls, Opened(g, cs)
  PROVE  /\ gate' \in GateState
         /\ shell' \in [no : Nat, chosen : BOOLEAN, area : Areas \cup {NoArea}]
         /\ DOMAIN panes' = Panes /\ \A q \in Panes : panes'[q] \in PaneState(q)
         /\ \A c \in calls' : CallOK(c)
<1>1. \A c \in calls : CallOK(c)
  BY DEF TypeOK, CallOK, Sessions
<1>2. CallOK(Request("areas", shell.no + 1, token, Nothing, 0))
  BY DEF CallOK, Request, TypeOK, Sessions, Panes
<1>3. FreshPane \in PaneState("area") /\ FreshPane \in PaneState("evidence")
  BY DEF FreshPane, PaneState, Subject
<1>4. CASE screen = "web" /\ gate.state # "READY"
  <2>1. /\ gate' = g /\ panes' = [p \in Panes |-> FreshPane]
        /\ shell' = [no |-> shell.no + 1, chosen |-> FALSE, area |-> NoArea]
        /\ calls' = cs \cup {Request("areas", shell.no + 1, token, Nothing, 0)}
    BY <1>4 DEF Opened
  <2>2. shell' \in [no : Nat, chosen : BOOLEAN, area : Areas \cup {NoArea}]
    BY <2>1 DEF TypeOK
  <2> QED BY <1>1, <1>2, <1>3, <2>1, <2>2 DEF Panes
<1>5. CASE ~ (screen = "web" /\ gate.state # "READY")
  <2>1. gate' = g /\ calls' = cs /\ UNCHANGED <<shell, panes>>
    BY <1>5 DEF Opened
  <2> QED BY <1>1, <2>1 DEF TypeOK, PaneState
<1> QED BY <1>4, <1>5

\* The parts of the type invariant put together.
LEMMA TypeOfParts ==
  ASSUME TypeOK, UNCHANGED <<owner, valid>>,
         screen' \in {"login", "phone", "web"}, token' \in Sessions, gate' \in GateState,
         shell' \in [no : Nat, chosen : BOOLEAN, area : Areas \cup {NoArea}],
         DOMAIN panes' = Panes, \A q \in Panes : panes'[q] \in PaneState(q),
         \A c \in calls' : CallOK(c),
         clicks' \in 0 .. MaxClicks, faults' \in 0 .. MaxFaults
  PROVE  TypeOK'
BY DEF TypeOK, Sessions, GateState, PaneState, CallOK, Subject

\* The parts a step leaves alone.
LEMMA PartsOfType ==
  ASSUME TypeOK
  PROVE  /\ gate \in GateState /\ token \in Sessions
         /\ \A q \in Panes : panes[q] \in PaneState(q)
         /\ \A c \in calls : CallOK(c)
BY DEF TypeOK, Sessions, GateState, PaneState, CallOK

LEMMA Counted ==
  ASSUME TypeOK
  PROVE  /\ Click => clicks' \in 0 .. MaxClicks
         /\ Fault => faults' \in 0 .. MaxFaults
BY BoundAssumption DEF TypeOK, Click, Fault

\* A call that is answered is no longer out.
LEMMA LessCalls ==
  ASSUME TypeOK, NEW cs \in SUBSET calls
  PROVE  \A c \in cs : CallOK(c)
BY PartsOfType

LEMMA TypeNext == TypeOK /\ OneSignIn /\ [Next]_vars => TypeOK'
<1> SUFFICES ASSUME TypeOK, OneSignIn, [Next]_vars PROVE TypeOK'
  OBVIOUS
<1>0. /\ screen \in {"login", "phone", "web"}
      /\ shell \in [no : Nat, chosen : BOOLEAN, area : Areas \cup {NoArea}]
      /\ DOMAIN panes = Panes /\ clicks \in 0 .. MaxClicks /\ faults \in 0 .. MaxFaults
  BY DEF TypeOK
<1>1. CASE UNCHANGED vars
  BY <1>1 DEF vars, storage, TypeOK, Subject
<1>2. ASSUME BrowsePhone PROVE TypeOK'
  <2>1. PICK t \in Read(token) : token' = t /\ Enter("phone", calls, t)
    BY <1>2 DEF BrowsePhone
  <2>2. UNCHANGED <<owner, valid, shell, panes, faults>> /\ clicks' \in 0 .. MaxClicks
    BY <1>2, Counted DEF BrowsePhone
  <2>3. t \in Sessions /\ \A c \in calls : CallOK(c)
    BY ReadToken, PartsOfType
  <2>4. /\ screen' \in {"login", "phone", "web"} /\ gate' \in GateState
        /\ \A c \in calls' : CallOK(c)
    BY <2>1, <2>3, EnterKeepsTypes
  <2> QED BY <1>0, <2>1, <2>2, <2>3, <2>4, PartsOfType, TypeOfParts
<1>3. ASSUME BrowseWeb PROVE TypeOK'
  <2>1. PICK t \in Read(token) :
          token' = t /\ Enter("web", calls \cup {LoadOf("area", shell.area, t)}, t)
    BY <1>3 DEF BrowseWeb
  <2>2. UNCHANGED <<owner, valid, shell, faults>> /\ clicks' \in 0 .. MaxClicks
    BY <1>3, Counted DEF BrowseWeb
  <2>3. t \in Sessions /\ \A c \in calls : CallOK(c)
    BY ReadToken, PartsOfType
  <2>4. shell.area \in Subject("area") /\ Nothing \in Subject("area") /\ "area" \in Panes
    BY <1>0 DEF Subject, Panes
  <2>5. /\ Begun(panes["area"], shell.area) \in PaneState("area")
        /\ CallOK(LoadOf("area", shell.area, t))
    BY <2>3, <2>4, LoadTyped
  <2>6. PICK b \in PaneState("area") : b = Begun(panes["area"], shell.area)
    BY <2>5
  <2>7. panes' = [panes EXCEPT !["area"] = [b EXCEPT !.data = Nothing]]
    BY <1>3, <2>6 DEF BrowseWeb
  <2>8. [b EXCEPT !.data = Nothing] \in PaneState("area")
    BY <2>4 DEF PaneState
  <2>9. DOMAIN panes' = Panes /\ \A q \in Panes : panes'[q] \in PaneState(q)
    BY <1>0, <2>7, <2>8, PartsOfType
  <2>10. \A c \in calls \cup {LoadOf("area", shell.area, t)} : CallOK(c)
    BY <2>3, <2>5
  <2>11. /\ screen' \in {"login", "phone", "web"} /\ gate' \in GateState
         /\ \A c \in calls' : CallOK(c)
    BY <2>1, <2>3, <2>10, EnterKeepsTypes
  <2> QED BY <1>0, <2>1, <2>2, <2>3, <2>9, <2>11, TypeOfParts
<1>4. ASSUME Logout PROVE TypeOK'
  BY <1>4, BoundAssumption DEF Logout, SignedOut, FreshGate, Click, TypeOK, Subject, NoToken
<1>5. ASSUME TryAgain PROVE TypeOK'
  <2>1. PICK t \in Read(token) : token' = t /\ calls' = calls \cup {Me(gate.no, t)}
    BY <1>5 DEF TryAgain
  <2>2. UNCHANGED <<screen, owner, valid, shell, panes, faults>> /\ clicks' \in 0 .. MaxClicks
    BY <1>5, Counted DEF TryAgain
  <2>3. t \in Sessions
    BY ReadToken
  <2>4. \A c \in calls' : CallOK(c)
    BY <2>1, <2>3, MeTyped, PartsOfType
  <2>5. gate' \in GateState
    BY <1>5, PartsOfType DEF TryAgain, GateState
  <2> QED BY <1>0, <2>1, <2>2, <2>3, <2>4, <2>5, PartsOfType, TypeOfParts
<1>6. ASSUME NEW u \in Users, Submit(u) PROVE TypeOK'
  <2>1. CallOK(Request("login", gate.no, NoToken, u, 0))
    BY DEF CallOK, Request, Sessions, Panes
  <2>2. UNCHANGED <<screen, storage, gate, shell, panes, clicks, faults>>
        /\ calls' = calls \cup {Request("login", gate.no, NoToken, u, 0)}
    BY <1>6 DEF Submit
  <2> QED BY <1>0, <2>1, <2>2, PartsOfType, TypeOfParts DEF storage
<1>7. ASSUME NEW n \in valid, Expire(n) PROVE TypeOK'
  BY <1>7, BoundAssumption DEF Expire, Fault, TypeOK, Subject
<1>8. ASSUME NEW to \in Areas \cup {NoArea}, ChangeArea(to) PROVE TypeOK'
  <2>1. PICK t \in Read(token) : token' = t /\ Load("area", to, t, calls)
    BY <1>8 DEF ChangeArea
  <2>2. UNCHANGED <<screen, owner, valid, gate, faults>> /\ clicks' \in 0 .. MaxClicks
    BY <1>8, Counted DEF ChangeArea
  <2>3. t \in Sessions /\ to \in Subject("area") /\ "area" \in Panes
    BY ReadToken DEF Subject, Panes
  <2>4. /\ DOMAIN panes' = Panes /\ \A q \in Panes : panes'[q] \in PaneState(q)
        /\ \A c \in calls' : CallOK(c)
    BY <2>1, <2>3, LoadKeepsTypes
  <2>5. shell' = [shell EXCEPT !.area = to]
    BY <1>8 DEF ChangeArea
  <2>6. shell' \in [no : Nat, chosen : BOOLEAN, area : Areas \cup {NoArea}]
    BY <1>0, <2>5
  <2> QED BY <1>0, <2>1, <2>2, <2>3, <2>4, <2>6, PartsOfType, TypeOfParts
<1>9. ASSUME NEW x \in Captures \cup {NoCapture}, View(x) PROVE TypeOK'
  <2>1. PICK t \in Read(token) :
          /\ token' = IF x = NoCapture THEN token ELSE t
          /\ Load("evidence", x, IF x = NoCapture THEN NoToken ELSE t, calls)
    BY <1>9 DEF View
  <2>2. UNCHANGED <<screen, owner, valid, gate, shell, faults>> /\ clicks' \in 0 .. MaxClicks
    BY <1>9, Counted DEF View
  <2>3. PICK s \in Sessions : s = IF x = NoCapture THEN NoToken ELSE t
    BY ReadToken DEF Sessions
  <2>4. x \in Subject("evidence") /\ "evidence" \in Panes /\ token' \in Sessions
    BY <2>1, ReadToken, PartsOfType DEF Subject, Panes
  <2>5. Load("evidence", x, s, calls)
    BY <2>1, <2>3
  <2>6. /\ DOMAIN panes' = Panes /\ \A q \in Panes : panes'[q] \in PaneState(q)
        /\ \A c \in calls' : CallOK(c)
    BY <2>4, <2>5, LoadKeepsTypes
  <2> QED BY <1>0, <2>2, <2>4, <2>6, PartsOfType, TypeOfParts
<1>10. ASSUME NEW c \in calls, Loaded(c) PROVE TypeOK'
  BY <1>10, BoundAssumption, SMTT(30) DEF Loaded, Current, storage, TypeOK, Subject, Panes
<1>11. ASSUME NEW c \in calls, LoadFails(c) PROVE TypeOK'
  <2>1. UNCHANGED <<screen, storage, gate, shell, clicks>> /\ calls' = calls \ {c}
        /\ faults' \in 0 .. MaxFaults
    BY <1>11, Counted DEF LoadFails
  <2>2. CASE Current(c)
    <3>1. panes' = [panes EXCEPT ![c.kind].state = "ERROR"] /\ c.kind \in Panes
      BY <1>11, <2>2 DEF LoadFails
    <3>2. DOMAIN panes' = Panes /\ \A q \in Panes : panes'[q] \in PaneState(q)
      BY <1>0, <3>1, PartsOfType DEF PaneState
    <3> QED BY <1>0, <2>1, <3>2, PartsOfType, TypeOfParts DEF storage
  <2>3. CASE ~ Current(c)
    <3>1. panes' = panes
      BY <1>11, <2>3 DEF LoadFails
    <3> QED BY <1>0, <2>1, <3>1, PartsOfType, TypeOfParts DEF storage
  <2> QED BY <2>2, <2>3
<1>12. ASSUME NEW c \in calls, MeAnswered(c) PROVE TypeOK'
  <2>1. UNCHANGED <<screen, storage, clicks, faults>> /\ c.token \in Sessions
    BY <1>12, PartsOfType DEF MeAnswered, CallOK
  <2>2. CASE c.of = gate.no
    <3>1. PICK g \in GateState : g = [gate EXCEPT !.user = c.token, !.state = "READY"]
      BY <2>1, PartsOfType DEF GateState
    <3>2. Opened(g, calls \ {c})
      BY <1>12, <2>2, <3>1 DEF MeAnswered
    <3>3. /\ gate' \in GateState
          /\ shell' \in [no : Nat, chosen : BOOLEAN, area : Areas \cup {NoArea}]
          /\ DOMAIN panes' = Panes /\ \A q \in Panes : panes'[q] \in PaneState(q)
          /\ \A d \in calls' : CallOK(d)
      BY <3>2, OpenedKeepsTypes
    <3> QED BY <1>0, <2>1, <3>3, PartsOfType, TypeOfParts DEF storage
  <2>3. CASE c.of # gate.no
    BY <1>0, <1>12, <2>1, <2>3, PartsOfType, TypeOfParts DEF MeAnswered, storage
  <2> QED BY <2>2, <2>3
<1>13. ASSUME NEW c \in calls, MeFails(c) PROVE TypeOK'
  <2>1. UNCHANGED <<screen, storage, clicks>> /\ faults' \in 0 .. MaxFaults
    BY <1>13, Counted DEF MeFails
  <2>2. CASE c.of = gate.no /\ Opened([gate EXCEPT !.state = "READY"], calls \ {c})
    <3>1. PICK g \in GateState : g = [gate EXCEPT !.state = "READY"]
      BY PartsOfType DEF GateState
    <3>2. Opened(g, calls \ {c})
      BY <2>2, <3>1
    <3>3. /\ gate' \in GateState
          /\ shell' \in [no : Nat, chosen : BOOLEAN, area : Areas \cup {NoArea}]
          /\ DOMAIN panes' = Panes /\ \A q \in Panes : panes'[q] \in PaneState(q)
          /\ \A d \in calls' : CallOK(d)
      BY <3>2, OpenedKeepsTypes
    <3> QED BY <1>0, <2>1, <3>3, PartsOfType, TypeOfParts DEF storage
  <2>3. CASE /\ calls' = calls \ {c}
             /\ gate' = IF c.of = gate.no THEN [gate EXCEPT !.state = "ERROR"] ELSE gate
             /\ UNCHANGED <<shell, panes>>
    <3>1. gate' \in GateState
      BY <2>3, PartsOfType DEF GateState
    <3> QED BY <1>0, <2>1, <2>3, <3>1, PartsOfType, TypeOfParts DEF storage
  <2> QED BY <1>13, <2>2, <2>3 DEF MeFails
<1>14. ASSUME NEW c \in calls, LoginServed(c) PROVE TypeOK'
  <2>1. /\ owner' = Append(owner, c.subject) /\ valid' = valid \cup {Len(owner) + 1}
        /\ token' = Len(owner) + 1
        /\ calls' = (calls \ {c})
             \cup {Request("whoami", c.of, Len(owner) + 1, c.subject, 0)}
        /\ UNCHANGED <<screen, gate, shell, panes, clicks, faults>>
    BY <1>14 DEF LoginServed
  <2>2. c.subject \in Users /\ Len(owner) < MaxLogins
    BY <1>14 DEF LoginServed, TypeOK, OneSignIn
  <2>3. /\ owner \in Seq(Users) /\ DOMAIN owner = 1 .. Len(owner) /\ Len(owner) \in Nat
        /\ MaxLogins \in Nat
    BY BoundAssumption DEF TypeOK
  <2>4. /\ owner' \in Seq(Users) /\ Len(owner') = Len(owner) + 1 /\ Len(owner') <= MaxLogins
        /\ DOMAIN owner' = 1 .. Len(owner) + 1 /\ Sessions \subseteq Sessions'
        /\ Len(owner) + 1 \in DOMAIN owner'
    BY <2>1, <2>2, <2>3 DEF Sessions
  <2>5. valid' \subseteq DOMAIN owner' /\ token' \in Sessions'
    BY <2>1, <2>4 DEF TypeOK, Sessions
  <2>6. gate' \in GateState'
    BY <2>1, <2>4, PartsOfType DEF GateState
  <2>7. \A d \in calls' : CallOK(d)'
    <3>1. \A d \in calls : CallOK(d)'
      BY <2>4, PartsOfType DEF CallOK
    <3>2. PICK r : r = Request("whoami", c.of, Len(owner) + 1, c.subject, 0)
      OBVIOUS
    <3>3. CallOK(r)'
      BY <2>2, <2>4, <3>2 DEF CallOK, Request, Sessions, Panes
    <3> QED BY <2>1, <3>1, <3>2, <3>3
  <2> QED BY <1>0, <2>1, <2>4, <2>5, <2>6, <2>7, PartsOfType
          DEF TypeOK, Sessions, GateState, PaneState, CallOK, Subject
<1>15. ASSUME NEW c \in calls, SignedIn(c) PROVE TypeOK'
  <2>1. PICK t \in Read(token) :
          /\ token' = t
          /\ Enter(IF c.subject \in Reps THEN "phone" ELSE "web", calls \ {c}, t)
    BY <1>15 DEF SignedIn
  <2>2. UNCHANGED <<owner, valid, shell, panes, clicks, faults>>
    BY <1>15 DEF SignedIn
  <2>3. t \in Sessions /\ \A d \in calls \ {c} : CallOK(d)
    BY ReadToken, PartsOfType
  <2>4. PICK to \in {"phone", "web"} : Enter(to, calls \ {c}, t)
    BY <2>1
  <2>5. /\ screen' \in {"login", "phone", "web"} /\ gate' \in GateState
        /\ \A d \in calls' : CallOK(d)
    BY <2>3, <2>4, EnterKeepsTypes
  <2> QED BY <1>0, <2>1, <2>2, <2>3, <2>5, PartsOfType, TypeOfParts
<1>16. ASSUME NEW c \in calls, LoginFails(c) PROVE TypeOK'
  BY <1>16, BoundAssumption DEF LoginFails, Fault, storage, TypeOK, Subject
<1>17. ASSUME NEW c \in calls, Unauthorized(c) PROVE TypeOK'
  BY <1>17, BoundAssumption DEF Unauthorized, FreshGate, TypeOK, Subject, NoToken
<1>18. ASSUME NEW c \in calls, AreasSettled(c) PROVE TypeOK'
  <2>1. PICK to \in Areas \cup {NoArea} : Chosen(c, to) /\ faults' \in 0 .. MaxFaults
    BY <1>0, <1>18, Counted DEF AreasSettled
  <2>2. UNCHANGED <<screen, owner, valid, gate, clicks>>
    BY <1>18 DEF AreasSettled
  <2>3. shell' \in [no : Nat, chosen : BOOLEAN, area : Areas \cup {NoArea}]
    BY <1>0, <2>1 DEF Chosen
  <2>4. CASE IsRep
    <3>1. calls' = calls \ {c} /\ UNCHANGED <<panes, token>>
      BY <2>1, <2>4 DEF Chosen
    <3> QED BY <1>0, <2>1, <2>2, <2>3, <3>1, PartsOfType, TypeOfParts
  <2>5. CASE ~ IsRep
    <3>1. PICK t \in Read(token) : token' = t /\ Load("area", to, t, calls \ {c})
      BY <2>1, <2>5 DEF Chosen
    <3>2. t \in Sessions /\ to \in Subject("area") /\ "area" \in Panes
      BY ReadToken DEF Subject, Panes
    <3>3. /\ DOMAIN panes' = Panes /\ \A q \in Panes : panes'[q] \in PaneState(q)
          /\ \A d \in calls' : CallOK(d)
      BY <3>1, <3>2, LoadKeepsTypes
    <3> QED BY <1>0, <2>1, <2>2, <2>3, <3>1, <3>2, <3>3, PartsOfType, TypeOfParts
  <2> QED BY <2>4, <2>5
<1>19. ASSUME NEW c \in calls, AreasUnheard(c) PROVE TypeOK'
  BY <1>19 DEF AreasUnheard, storage, TypeOK, Subject
<1> QED BY <1>1, <1>2, <1>3, <1>4, <1>5, <1>6, <1>7, <1>8, <1>9, <1>10, <1>11, <1>12, <1>13,
           <1>14, <1>15, <1>16, <1>17, <1>18, <1>19 DEF Next

----------------------------------------------------------------------------
(* Answers, sign-ins and sessions.                                          *)

\* What the arrival of the areas does.
LEMMA AreasChosen ==
  ASSUME TypeOK, NEW c \in calls, AreasSettled(c)
  PROVE  /\ c.kind = "areas" /\ Standing /\ UNCHANGED <<screen, owner, valid, gate, clicks>>
         /\ \E to \in Areas \cup {NoArea} :
              /\ shell' = [shell EXCEPT !.chosen = TRUE, !.area = to]
              /\ \/ IsRep /\ calls' = calls \ {c} /\ UNCHANGED <<panes, token>>
                 \/ ~ IsRep /\ \E t \in Read(token) :
                                 token' = t /\ Load("area", to, t, calls \ {c})
<1>1. /\ c.kind = "areas" /\ Standing /\ UNCHANGED <<screen, owner, valid, gate, clicks>>
  BY DEF AreasSettled
<1>2. PICK to \in Areas \cup {NoArea} : Chosen(c, to)
  BY DEF AreasSettled
<1> QED BY <1>1, <1>2 DEF Chosen

\* What a load does, field by field.
LEMMA LoadEffect ==
  ASSUME TypeOK, NEW p \in Panes, NEW x, NEW t, NEW cs, Load(p, x, t, cs)
  PROVE  /\ panes'[p].asked = x /\ panes'[p].state = "LOADING" /\ panes'[p].run = panes[p].run + 1
         /\ \A q \in Panes : q # p => panes'[q] = panes[q]
         /\ \E r : /\ r.kind = p /\ r.of = shell.no /\ r.run = panes[p].run + 1 /\ r.subject = x
                   /\ calls' = cs \cup {r}
<1>1. panes' = [panes EXCEPT ![p] = Begun(panes[p], x)] /\ calls' = cs \cup {LoadOf(p, x, t)}
  BY DEF Load
<1>2. /\ Begun(panes[p], x).asked = x /\ Begun(panes[p], x).state = "LOADING"
      /\ Begun(panes[p], x).run = panes[p].run + 1
  BY DEF Begun, TypeOK
<1>3. panes'[p] = Begun(panes[p], x) /\ \A q \in Panes : q # p => panes'[q] = panes[q]
  BY <1>1 DEF TypeOK
<1>4. /\ LoadOf(p, x, t).kind = p /\ LoadOf(p, x, t).of = shell.no
      /\ LoadOf(p, x, t).run = panes[p].run + 1 /\ LoadOf(p, x, t).subject = x
  BY <1>2 DEF LoadOf, Request
<1> QED BY <1>1, <1>2, <1>3, <1>4

\* A load takes the place of the one before: only its own answer counts.
LEMMA LoadAnswers ==
  ASSUME TypeOK, Answering, NEW p \in Panes, NEW x, NEW t, NEW cs \in SUBSET calls,
         Load(p, x, t, cs), shell'.no = shell.no
  PROVE  Answering'
<1>1. PICK r : /\ r.kind = p /\ r.of = shell.no /\ r.run = panes[p].run + 1 /\ r.subject = x
               /\ calls' = cs \cup {r}
  BY LoadEffect
<1>2. /\ panes'[p].asked = x /\ panes'[p].run = panes[p].run + 1
      /\ \A q \in Panes : q # p => panes'[q] = panes[q]
  BY LoadEffect
<1>3. shell.no \in Nat /\ \A q \in Panes : panes[q].run \in Nat
  BY DEF TypeOK
<1>4. ASSUME NEW c \in calls', c.kind \in Panes
      PROVE  /\ c.of \in Nat /\ c.run \in Nat /\ c.of <= shell'.no
             /\ c.of = shell'.no => /\ c.run <= panes'[c.kind].run
                                    /\ c.run = panes'[c.kind].run => c.subject = panes'[c.kind].asked
  <2>1. CASE c = r
    BY <1>1, <1>2, <1>3, <2>1
  <2>2. CASE c \in calls
    <3>1. /\ c.of \in Nat /\ c.run \in Nat /\ c.of <= shell.no
          /\ c.of = shell.no => /\ c.run <= panes[c.kind].run
                                /\ c.run = panes[c.kind].run => c.subject = panes[c.kind].asked
      BY <1>4, <2>2 DEF Answering
    <3>2. CASE c.kind = p
      BY <1>2, <1>3, <3>1, <3>2
    <3>3. CASE c.kind # p
      BY <1>2, <1>3, <1>4, <3>1, <3>3
    <3> QED BY <3>2, <3>3
  <2> QED BY <1>1, <2>1, <2>2
<1> QED BY <1>4 DEF Answering

LEMMA AreasAsk ==
  ASSUME TypeOK, NEW c \in calls, AreasSettled(c)
  PROVE  \A d \in calls' : d \in calls \/ d.kind = "area"
<1>1. CASE calls' = calls \ {c}
  BY <1>1
<1>2. ASSUME NEW to, NEW t, Load("area", to, t, calls \ {c})
      PROVE  \A d \in calls' : d \in calls \/ d.kind = "area"
  <2>1. PICK r : r.kind = "area" /\ calls' = (calls \ {c}) \cup {r}
    BY <1>2, LoadEffect DEF Panes
  <2> QED BY <2>1
<1> QED BY <1>1, <1>2, AreasChosen

\* Requests that sign nobody in leave the one sign-in there is.
LEMMA SignInKept ==
  ASSUME OneSignIn, owner' = owner, screen = "login" => screen' = "login",
         \A c \in calls' : SigningIn(c) => c \in calls
  PROVE  OneSignIn'
BY DEF OneSignIn, SigningIn

\* A gate that stays asks with the tab's own token only.
LEMMA SessionKept ==
  ASSUME TypeOK, OneSession, UNCHANGED <<screen, owner, gate>>, token' \in {token, NoToken},
         \A c \in calls' : c.kind = "me" => c \in calls \/ (c.of = gate.no /\ c.token = token)
  PROVE  OneSession'
<1>1. gate.no \in Nat
  BY DEF TypeOK
<1>2. \A c \in calls' : c.kind = "me" => c.of \in Nat /\ c.of <= gate'.no
  BY <1>1 DEF OneSession
<1>3. ASSUME screen' = "web"
      PROVE  \E s \in {NoToken} \cup DOMAIN owner' :
               /\ token' \in {NoToken, s} /\ gate'.user \in {NoToken, s}
               /\ \A c \in calls' : Asking(c)' => c.token \in {NoToken, s}
  <2>1. PICK s \in {NoToken} \cup DOMAIN owner :
               /\ token \in {NoToken, s} /\ gate.user \in {NoToken, s}
               /\ \A c \in calls : Asking(c) => c.token \in {NoToken, s}
    BY <1>3 DEF OneSession
  <2> QED BY <2>1 DEF Asking
<1> QED BY <1>2, <1>3 DEF OneSession, Asking
\* Every step keeps the answers that count apart from those that do not.
LEMMA AnsweringNext == TypeOK /\ Answering /\ [Next]_vars => Answering'
<1> SUFFICES ASSUME TypeOK, Answering, [Next]_vars PROVE Answering'
  OBVIOUS
<1>1. CASE UNCHANGED vars
  BY <1>1 DEF vars, TypeOK, Answering, storage, Panes, NoToken
<1>2. ASSUME BrowsePhone PROVE Answering'
  BY <1>2, SMTT(30) DEF TypeOK, Answering, storage, Panes, NoToken, BrowsePhone, Click, Enter,
     Checked, Read, FreshGate, Me, Request
<1>3. ASSUME BrowseWeb PROVE Answering'
  BY <1>3 DEF TypeOK, Answering, storage, Panes, NoToken, BrowseWeb, Click, Standing, IsRep,
     Begun, LoadOf, Enter, Checked, Read, FreshGate, Me, Request
<1>4. ASSUME Logout PROVE Answering'
  BY <1>4 DEF TypeOK, Answering, storage, Panes, NoToken, Logout, Click, SignedOut,
     FreshGate
<1>5. ASSUME TryAgain PROVE Answering'
  BY <1>5 DEF TypeOK, Answering, storage, Panes, NoToken, TryAgain, Click, Read, Me, Request
<1>6. ASSUME NEW u \in Users, Submit(u) PROVE Answering'
  BY <1>6 DEF TypeOK, Answering, storage, Panes, NoToken, Submit, Request
<1>7. ASSUME NEW n \in valid, Expire(n) PROVE Answering'
  BY <1>7 DEF TypeOK, Answering, storage, Panes, NoToken, Expire, Fault
<1>8. ASSUME NEW to \in Areas \cup {NoArea}, ChangeArea(to) PROVE Answering'
  BY <1>8 DEF TypeOK, Answering, storage, Panes, NoToken, ChangeArea, Click, Load, LoadOf,
     Begun, Read, Request
<1>9. ASSUME NEW x \in Captures \cup {NoCapture}, View(x) PROVE Answering'
  BY <1>9 DEF TypeOK, Answering, storage, Panes, NoToken, View, Click, Load, LoadOf, Begun,
     Read, Request
<1>10. ASSUME NEW c \in calls, Loaded(c) PROVE Answering'
  <2>1. \A p \in Panes : panes'[p].asked = panes[p].asked /\ panes'[p].run = panes[p].run
    BY <1>10 DEF Loaded, TypeOK
  <2>2. UNCHANGED shell /\ calls' = calls \ {c}
    BY <1>10 DEF Loaded
  <2> QED BY <2>1, <2>2 DEF Answering
<1>11. ASSUME NEW c \in calls, LoadFails(c) PROVE Answering'
  BY <1>11 DEF TypeOK, Answering, storage, Panes, NoToken, LoadFails, Fault, Current
<1>12. ASSUME NEW c \in calls, MeAnswered(c) PROVE Answering'
  BY <1>12 DEF TypeOK, Answering, storage, Panes, NoToken, MeAnswered, Opened, FreshPane,
     Request
<1>13. ASSUME NEW c \in calls, MeFails(c) PROVE Answering'
  BY <1>13 DEF TypeOK, Answering, storage, Panes, NoToken, MeFails, Fault, Opened,
     FreshPane, Request
<1>14. ASSUME NEW c \in calls, LoginServed(c) PROVE Answering'
  BY <1>14 DEF TypeOK, Answering, storage, Panes, NoToken, LoginServed, Request
<1>15. ASSUME NEW c \in calls, SignedIn(c) PROVE Answering'
  BY <1>15 DEF TypeOK, Answering, storage, Panes, NoToken, SignedIn, Read, Enter, Checked,
     FreshGate, Me, Request
<1>16. ASSUME NEW c \in calls, LoginFails(c) PROVE Answering'
  BY <1>16 DEF TypeOK, Answering, storage, Panes, NoToken, LoginFails, Fault
<1>17. ASSUME NEW c \in calls, Unauthorized(c) PROVE Answering'
  BY <1>17 DEF TypeOK, Answering, storage, Panes, NoToken, Unauthorized, FreshGate
<1>18. ASSUME NEW c \in calls, AreasSettled(c) PROVE Answering'
  <2>1. PICK to \in Areas \cup {NoArea} :
          /\ shell' = [shell EXCEPT !.chosen = TRUE, !.area = to]
          /\ \/ IsRep /\ calls' = calls \ {c} /\ UNCHANGED <<panes, token>>
             \/ ~ IsRep /\ \E t \in Read(token) :
                             token' = t /\ Load("area", to, t, calls \ {c})
    BY <1>18, AreasChosen
  <2>2. shell'.no = shell.no
    BY <2>1 DEF TypeOK
  <2>3. CASE calls' = calls \ {c} /\ UNCHANGED panes
    BY <2>2, <2>3 DEF Answering
  <2>4. ASSUME NEW t \in Read(token), Load("area", to, t, calls \ {c}) PROVE Answering'
    BY <2>2, <2>4, LoadAnswers DEF Panes
  <2> QED BY <2>1, <2>3, <2>4
<1>19. ASSUME NEW c \in calls, AreasUnheard(c) PROVE Answering'
  BY <1>19 DEF TypeOK, Answering, storage, Panes, NoToken, AreasUnheard
<1> QED
  BY <1>1, <1>2, <1>3, <1>4, <1>5, <1>6, <1>7, <1>8, <1>9, <1>10, <1>11, <1>12, <1>13,
     <1>14, <1>15, <1>16, <1>17, <1>18, <1>19 DEF Next

\* The form takes no second press while one is out.
LEMMA OneSignInNext == TypeOK /\ OneSignIn /\ [Next]_vars => OneSignIn'
<1> SUFFICES ASSUME TypeOK, OneSignIn, [Next]_vars PROVE OneSignIn'
  OBVIOUS
<1>1. CASE UNCHANGED vars
  BY <1>1 DEF vars, OneSignIn, SigningIn, TypeOK, storage, NoToken
<1>2. ASSUME BrowsePhone PROVE OneSignIn'
  BY <1>2 DEF OneSignIn, SigningIn, TypeOK, storage, NoToken, BrowsePhone, Click, Enter,
     Checked, Read, FreshGate, Me, Request
<1>3. ASSUME BrowseWeb PROVE OneSignIn'
  <2>1. PICK t : Enter("web", calls \cup {LoadOf("area", shell.area, t)}, t)
    BY <1>3 DEF BrowseWeb
  <2>2. owner' = owner /\ screen # "login"
    BY <1>3 DEF BrowseWeb, Standing
  <2>3. \E n : calls' \subseteq calls \cup {LoadOf("area", shell.area, t), Me(n, t)}
    BY <2>1 DEF Enter, Checked
  <2>4. LoadOf("area", shell.area, t).kind = "area" /\ \A n : Me(n, t).kind = "me"
    BY DEF LoadOf, Me, Request
  <2> QED BY <2>2, <2>3, <2>4, SignInKept DEF SigningIn
<1>4. ASSUME Logout PROVE OneSignIn'
  BY <1>4 DEF OneSignIn, SigningIn, TypeOK, storage, NoToken, Logout, Click, SignedOut,
     FreshGate
<1>5. ASSUME TryAgain PROVE OneSignIn'
  BY <1>5 DEF OneSignIn, SigningIn, TypeOK, storage, NoToken, TryAgain, Click, Read, Me,
     Request
<1>6. ASSUME NEW u \in Users, Submit(u) PROVE OneSignIn'
  BY <1>6 DEF OneSignIn, SigningIn, TypeOK, storage, NoToken, Submit, Request
<1>7. ASSUME NEW n \in valid, Expire(n) PROVE OneSignIn'
  BY <1>7 DEF OneSignIn, SigningIn, TypeOK, storage, NoToken, Expire, Fault
<1>8. ASSUME NEW to \in Areas \cup {NoArea}, ChangeArea(to) PROVE OneSignIn'
  BY <1>8 DEF OneSignIn, SigningIn, TypeOK, storage, NoToken, ChangeArea, Click, Load,
     LoadOf, Begun, Read, Request
<1>9. ASSUME NEW x \in Captures \cup {NoCapture}, View(x) PROVE OneSignIn'
  BY <1>9 DEF OneSignIn, SigningIn, TypeOK, storage, NoToken, View, Click, Load, LoadOf,
     Begun, Read, Request
<1>10. ASSUME NEW c \in calls, Loaded(c) PROVE OneSignIn'
  BY <1>10 DEF OneSignIn, SigningIn, TypeOK, storage, NoToken, Loaded, Current
<1>11. ASSUME NEW c \in calls, LoadFails(c) PROVE OneSignIn'
  BY <1>11 DEF OneSignIn, SigningIn, TypeOK, storage, NoToken, LoadFails, Fault, Current
<1>12. ASSUME NEW c \in calls, MeAnswered(c) PROVE OneSignIn'
  BY <1>12 DEF OneSignIn, SigningIn, TypeOK, storage, NoToken, MeAnswered, Opened,
     FreshPane, Request
<1>13. ASSUME NEW c \in calls, MeFails(c) PROVE OneSignIn'
  BY <1>13 DEF OneSignIn, SigningIn, TypeOK, storage, NoToken, MeFails, Fault, Opened,
     FreshPane, Request
<1>14. ASSUME NEW c \in calls, LoginServed(c) PROVE OneSignIn'
  BY <1>14 DEF OneSignIn, SigningIn, TypeOK, storage, NoToken, LoginServed, Request
<1>15. ASSUME NEW c \in calls, SignedIn(c) PROVE OneSignIn'
  BY <1>15 DEF OneSignIn, SigningIn, TypeOK, storage, NoToken, SignedIn, Read, Enter,
     Checked, FreshGate, Me, Request
<1>16. ASSUME NEW c \in calls, LoginFails(c) PROVE OneSignIn'
  BY <1>16 DEF OneSignIn, SigningIn, TypeOK, storage, NoToken, LoginFails, Fault
<1>17. ASSUME NEW c \in calls, Unauthorized(c) PROVE OneSignIn'
  BY <1>17 DEF OneSignIn, SigningIn, TypeOK, storage, NoToken, Unauthorized, FreshGate
<1>18. ASSUME NEW c \in calls, AreasSettled(c) PROVE OneSignIn'
  <2>1. screen' = screen /\ owner' = owner
    BY <1>18, AreasChosen
  <2>2. \A d \in calls' : d \in calls \/ d.kind = "area"
    BY <1>18, AreasAsk
  <2> QED BY <2>1, <2>2, SignInKept DEF SigningIn
<1>19. ASSUME NEW c \in calls, AreasUnheard(c) PROVE OneSignIn'
  BY <1>19 DEF OneSignIn, SigningIn, TypeOK, storage, NoToken, AreasUnheard
<1> QED
  BY <1>1, <1>2, <1>3, <1>4, <1>5, <1>6, <1>7, <1>8, <1>9, <1>10, <1>11, <1>12, <1>13,
     <1>14, <1>15, <1>16, <1>17, <1>18, <1>19 DEF Next

\* No step brings a second session under the gate of a dashboard.
LEMMA OneSessionNext == TypeOK /\ OneSignIn /\ OneSession /\ [Next]_vars => OneSession'
<1> SUFFICES ASSUME TypeOK, OneSignIn, OneSession, [Next]_vars PROVE OneSession'
  OBVIOUS
<1>1. CASE UNCHANGED vars
  BY <1>1 DEF vars, OneSession, Asking, OneSignIn, SigningIn, TypeOK, storage, NoToken
<1>2. ASSUME BrowsePhone PROVE OneSession'
  BY <1>2 DEF OneSession, Asking, OneSignIn, SigningIn, TypeOK, storage, NoToken,
     BrowsePhone, Click, Enter, Checked, Read, FreshGate, Me, Request
<1>3. ASSUME BrowseWeb PROVE OneSession'
  <2>1. PICK t \in Read(token) :
          token' = t /\ Enter("web", calls \cup {LoadOf("area", shell.area, t)}, t)
    BY <1>3 DEF BrowseWeb
  <2>2. UNCHANGED owner /\ screen = "web" /\ t \in {token, NoToken}
    BY <1>3, ReadToken DEF BrowseWeb, Standing
  <2>3. CASE t = NoToken
    BY <2>1, <2>2, <2>3
       DEF Enter, Checked, FreshGate, LoadOf, Request, OneSession, TypeOK
  <2>4. CASE t # NoToken
    <3>1. /\ screen' = "web" /\ gate' = gate
          /\ calls' \subseteq calls \cup {LoadOf("area", shell.area, t), Me(gate.no, t)}
      BY <2>1, <2>2, <2>4 DEF Enter, Checked
    <3>2. \A d \in calls' : d.kind = "me" => d \in calls \/ (d.of = gate.no /\ d.token = token)
      BY <2>2, <2>4, <3>1 DEF Me, LoadOf, Request
    <3> QED BY <2>1, <2>2, <3>1, <3>2, SessionKept
  <2> QED BY <2>3, <2>4
<1>4. ASSUME Logout PROVE OneSession'
  BY <1>4 DEF OneSession, Asking, OneSignIn, SigningIn, TypeOK, storage, NoToken, Logout,
     Click, SignedOut, FreshGate
<1>5. ASSUME TryAgain PROVE OneSession'
  BY <1>5 DEF OneSession, Asking, OneSignIn, SigningIn, TypeOK, storage, NoToken, TryAgain,
     Click, Read, Me, Request
<1>6. ASSUME NEW u \in Users, Submit(u) PROVE OneSession'
  BY <1>6 DEF OneSession, Asking, OneSignIn, SigningIn, TypeOK, storage, NoToken, Submit,
     Request
<1>7. ASSUME NEW n \in valid, Expire(n) PROVE OneSession'
  BY <1>7 DEF OneSession, Asking, OneSignIn, SigningIn, TypeOK, storage, NoToken, Expire,
     Fault
<1>8. ASSUME NEW to \in Areas \cup {NoArea}, ChangeArea(to) PROVE OneSession'
  <2>1. PICK t \in Read(token) : token' = t /\ Load("area", to, t, calls)
    BY <1>8 DEF ChangeArea
  <2>2. UNCHANGED <<screen, owner, gate>> /\ token' \in {token, NoToken}
    BY <1>8, <2>1, ReadToken DEF ChangeArea
  <2>3. \A d \in calls' : d \in calls \/ d.kind = "area"
    BY <2>1, LoadEffect DEF Panes
  <2> QED BY <2>2, <2>3, SessionKept
<1>9. ASSUME NEW x \in Captures \cup {NoCapture}, View(x) PROVE OneSession'
  BY <1>9 DEF OneSession, Asking, OneSignIn, SigningIn, TypeOK, storage, NoToken, View,
     Click, Load, LoadOf, Begun, Read, Request
<1>10. ASSUME NEW c \in calls, Loaded(c) PROVE OneSession'
  BY <1>10 DEF OneSession, Asking, OneSignIn, SigningIn, TypeOK, storage, NoToken, Loaded,
     Current
<1>11. ASSUME NEW c \in calls, LoadFails(c) PROVE OneSession'
  BY <1>11 DEF OneSession, Asking, OneSignIn, SigningIn, TypeOK, storage, NoToken,
     LoadFails, Fault, Current
<1>12. ASSUME NEW c \in calls, MeAnswered(c) PROVE OneSession'
  <2>1. UNCHANGED <<screen, token, owner>> /\ gate'.no = gate.no
        /\ gate'.user \in {gate.user, c.token} /\ (gate'.user # gate.user => Asking(c))
    BY <1>12 DEF MeAnswered, Opened, Asking, TypeOK, storage
  <2>2. \A d \in calls' : d.kind = "me" => d \in calls
    BY <1>12 DEF MeAnswered, Opened, Request
  <2>3. ASSUME screen' = "web"
        PROVE  \E s \in {NoToken} \cup DOMAIN owner' :
                 /\ token' \in {NoToken, s} /\ gate'.user \in {NoToken, s}
                 /\ \A d \in calls' : Asking(d)' => d.token \in {NoToken, s}
    <3>1. PICK s \in {NoToken} \cup DOMAIN owner :
                 /\ token \in {NoToken, s} /\ gate.user \in {NoToken, s}
                 /\ \A d \in calls : Asking(d) => d.token \in {NoToken, s}
      BY <2>1, <2>3 DEF OneSession
    <3> QED BY <2>1, <2>2, <3>1 DEF Asking
  <2>4. \A d \in calls' : d.kind = "me" => d.of \in Nat /\ d.of <= gate'.no
    BY <2>1, <2>2 DEF OneSession
  <2> QED BY <2>3, <2>4 DEF OneSession, Asking
<1>13. ASSUME NEW c \in calls, MeFails(c) PROVE OneSession'
  <2>1. UNCHANGED <<screen, token, owner>> /\ gate'.no = gate.no
        /\ gate'.user = gate.user
    BY <1>13 DEF MeFails, Fault, Opened, Asking, TypeOK, storage
  <2>2. \A d \in calls' : d.kind = "me" => d \in calls
    BY <1>13 DEF MeFails, Fault, Opened, Request
  <2>3. ASSUME screen' = "web"
        PROVE  \E s \in {NoToken} \cup DOMAIN owner' :
                 /\ token' \in {NoToken, s} /\ gate'.user \in {NoToken, s}
                 /\ \A d \in calls' : Asking(d)' => d.token \in {NoToken, s}
    <3>1. PICK s \in {NoToken} \cup DOMAIN owner :
                 /\ token \in {NoToken, s} /\ gate.user \in {NoToken, s}
                 /\ \A d \in calls : Asking(d) => d.token \in {NoToken, s}
      BY <2>1, <2>3 DEF OneSession
    <3> QED BY <2>1, <2>2, <3>1 DEF Asking
  <2>4. \A d \in calls' : d.kind = "me" => d.of \in Nat /\ d.of <= gate'.no
    BY <2>1, <2>2 DEF OneSession
  <2> QED BY <2>3, <2>4 DEF OneSession, Asking
<1>14. ASSUME NEW c \in calls, LoginServed(c) PROVE OneSession'
  BY <1>14, SMTT(30) DEF OneSession, Asking, OneSignIn, SigningIn, TypeOK, storage, NoToken,
     LoginServed, Request
<1>15. ASSUME NEW c \in calls, SignedIn(c) PROVE OneSession'
  BY <1>15 DEF OneSession, Asking, OneSignIn, SigningIn, TypeOK, storage, NoToken, SignedIn,
     Read, Enter, Checked, FreshGate, Me, Request
<1>16. ASSUME NEW c \in calls, LoginFails(c) PROVE OneSession'
  BY <1>16 DEF OneSession, Asking, OneSignIn, SigningIn, TypeOK, storage, NoToken,
     LoginFails, Fault
<1>17. ASSUME NEW c \in calls, Unauthorized(c) PROVE OneSession'
  BY <1>17 DEF OneSession, Asking, OneSignIn, SigningIn, TypeOK, storage, NoToken,
     Unauthorized, FreshGate
<1>18. ASSUME NEW c \in calls, AreasSettled(c) PROVE OneSession'
  <2>1. UNCHANGED <<screen, owner, gate>> /\ token' \in {token, NoToken}
    BY <1>18, AreasChosen, ReadToken
  <2>2. \A d \in calls' : d \in calls \/ d.kind = "area"
    BY <1>18, AreasAsk
  <2> QED BY <2>1, <2>2, SessionKept
<1>19. ASSUME NEW c \in calls, AreasUnheard(c) PROVE OneSession'
  BY <1>19 DEF OneSession, Asking, OneSignIn, SigningIn, TypeOK, storage, NoToken,
     AreasUnheard
<1> QED
  BY <1>1, <1>2, <1>3, <1>4, <1>5, <1>6, <1>7, <1>8, <1>9, <1>10, <1>11, <1>12, <1>13,
     <1>14, <1>15, <1>16, <1>17, <1>18, <1>19 DEF Next

\* A pane shows an answer only in place of what it was asked.
LEMMA ShowsWhatWasAskedNext == Consistent /\ [Next]_vars => ShowsWhatWasAsked'
<1> SUFFICES ASSUME Consistent, [Next]_vars PROVE ShowsWhatWasAsked'
  OBVIOUS
<1>1. CASE UNCHANGED vars
  BY <1>1 DEF vars, Consistent, ShowsWhatWasAsked, Answering, OneSession, Asking, TypeOK,
     storage, Panes, Standing, IsRep, NoToken
<1>2. ASSUME BrowsePhone PROVE ShowsWhatWasAsked'
  BY <1>2 DEF Consistent, ShowsWhatWasAsked, Answering, OneSession, Asking, TypeOK, storage,
     Panes, Standing, IsRep, NoToken, BrowsePhone, Click, Enter, Checked, Read, FreshGate,
     Me, Request
<1>3. ASSUME BrowseWeb PROVE ShowsWhatWasAsked'
  BY <1>3 DEF Consistent, ShowsWhatWasAsked, Answering, OneSession, Asking, TypeOK, storage,
     Panes, Standing, IsRep, NoToken, BrowseWeb, Click, Begun, LoadOf, Enter, Checked, Read,
     FreshGate, Me, Request
<1>4. ASSUME Logout PROVE ShowsWhatWasAsked'
  BY <1>4 DEF Consistent, ShowsWhatWasAsked, Answering, OneSession, Asking, TypeOK, storage,
     Panes, Standing, IsRep, NoToken, Logout, Click, SignedOut, FreshGate
<1>5. ASSUME TryAgain PROVE ShowsWhatWasAsked'
  BY <1>5 DEF Consistent, ShowsWhatWasAsked, Answering, OneSession, Asking, TypeOK, storage,
     Panes, Standing, IsRep, NoToken, TryAgain, Click, Read, Me, Request
<1>6. ASSUME NEW u \in Users, Submit(u) PROVE ShowsWhatWasAsked'
  BY <1>6 DEF Consistent, ShowsWhatWasAsked, Answering, OneSession, Asking, TypeOK, storage,
     Panes, Standing, IsRep, NoToken, Submit, Request
<1>7. ASSUME NEW n \in valid, Expire(n) PROVE ShowsWhatWasAsked'
  BY <1>7 DEF Consistent, ShowsWhatWasAsked, Answering, OneSession, Asking, TypeOK, storage,
     Panes, Standing, IsRep, NoToken, Expire, Fault
<1>8. ASSUME NEW to \in Areas \cup {NoArea}, ChangeArea(to) PROVE ShowsWhatWasAsked'
  BY <1>8 DEF Consistent, ShowsWhatWasAsked, Answering, OneSession, Asking, TypeOK, storage,
     Panes, Standing, IsRep, NoToken, ChangeArea, Click, Load, LoadOf, Begun, Read, Request
<1>9. ASSUME NEW x \in Captures \cup {NoCapture}, View(x) PROVE ShowsWhatWasAsked'
  BY <1>9 DEF Consistent, ShowsWhatWasAsked, Answering, OneSession, Asking, TypeOK, storage,
     Panes, Standing, IsRep, NoToken, View, Click, Load, LoadOf, Begun, Read, Request
<1>10. ASSUME NEW c \in calls, Loaded(c) PROVE ShowsWhatWasAsked'
  BY <1>10 DEF Consistent, ShowsWhatWasAsked, Answering, OneSession, Asking, TypeOK,
     storage, Panes, Standing, IsRep, NoToken, Loaded, Current
<1>11. ASSUME NEW c \in calls, LoadFails(c) PROVE ShowsWhatWasAsked'
  BY <1>11 DEF Consistent, ShowsWhatWasAsked, Answering, OneSession, Asking, TypeOK,
     storage, Panes, Standing, IsRep, NoToken, LoadFails, Fault, Current
<1>12. ASSUME NEW c \in calls, MeAnswered(c) PROVE ShowsWhatWasAsked'
  <2>1. /\ UNCHANGED <<screen, token, owner>> /\ c.token # NoToken
        /\ c.of # gate.no => UNCHANGED <<gate, shell, panes>>
    BY <1>12 DEF MeAnswered, storage, Consistent, TypeOK, NoToken
  <2>2. CASE c.of = gate.no /\ screen = "web" /\ gate.state # "READY"
    <3>1. /\ shell' = [no |-> shell.no + 1, chosen |-> FALSE, area |-> NoArea]
          /\ panes' = [p \in Panes |-> FreshPane]
      BY <1>12, <2>2 DEF MeAnswered, Opened
    <3>2. ~ shell'.chosen /\ \A p \in Panes : panes'[p].state = "LOADING"
      BY <3>1 DEF FreshPane
    <3> QED BY <3>2 DEF ShowsWhatWasAsked
  <2>3. CASE c.of = gate.no /\ screen = "web" /\ gate.state = "READY"
    <3>1. UNCHANGED <<shell, panes>> /\ gate'.user = c.token
      BY <1>12, <2>3 DEF MeAnswered, Opened, Consistent, TypeOK
    <3>2. gate.user # 0 => gate.user = c.token
      BY <1>12, <2>1, <2>3 DEF MeAnswered, Consistent, OneSession, Asking, NoToken
    <3>3. IsRep => IsRep'
      BY <2>1, <3>1, <3>2 DEF IsRep, NoToken
    <3> QED BY <2>3, <3>1, <3>3 DEF Consistent, ShowsWhatWasAsked, Standing
  <2>4. CASE screen # "web"
    BY <2>1, <2>4 DEF ShowsWhatWasAsked, Standing
  <2>5. CASE c.of # gate.no
    BY <2>1, <2>5 DEF Consistent, ShowsWhatWasAsked, Standing, IsRep
  <2> QED BY <2>2, <2>3, <2>4, <2>5
<1>13. ASSUME NEW c \in calls, MeFails(c) PROVE ShowsWhatWasAsked'
  BY <1>13 DEF Consistent, ShowsWhatWasAsked, Answering, OneSession, Asking, TypeOK,
     storage, Panes, Standing, IsRep, NoToken, MeFails, Fault, Opened, FreshPane, Request
<1>14. ASSUME NEW c \in calls, LoginServed(c) PROVE ShowsWhatWasAsked'
  BY <1>14 DEF Consistent, ShowsWhatWasAsked, Answering, OneSession, Asking, TypeOK,
     storage, Panes, Standing, IsRep, NoToken, LoginServed, Request
<1>15. ASSUME NEW c \in calls, SignedIn(c) PROVE ShowsWhatWasAsked'
  BY <1>15 DEF Consistent, ShowsWhatWasAsked, Answering, OneSession, Asking, TypeOK,
     storage, Panes, Standing, IsRep, NoToken, SignedIn, Read, Enter, Checked, FreshGate,
     Me, Request
<1>16. ASSUME NEW c \in calls, LoginFails(c) PROVE ShowsWhatWasAsked'
  BY <1>16 DEF Consistent, ShowsWhatWasAsked, Answering, OneSession, Asking, TypeOK,
     storage, Panes, Standing, IsRep, NoToken, LoginFails, Fault
<1>17. ASSUME NEW c \in calls, Unauthorized(c) PROVE ShowsWhatWasAsked'
  BY <1>17 DEF Consistent, ShowsWhatWasAsked, Answering, OneSession, Asking, TypeOK,
     storage, Panes, Standing, IsRep, NoToken, Unauthorized, FreshGate
<1>18. ASSUME NEW c \in calls, AreasSettled(c) PROVE ShowsWhatWasAsked'
  <2>1. PICK to \in Areas \cup {NoArea} :
          /\ shell' = [shell EXCEPT !.chosen = TRUE, !.area = to]
          /\ \/ IsRep /\ calls' = calls \ {c} /\ UNCHANGED <<panes, token>>
             \/ ~ IsRep /\ \E t \in Read(token) :
                             token' = t /\ Load("area", to, t, calls \ {c})
    BY <1>18, AreasChosen DEF Consistent
  <2>2. /\ Standing /\ IsRep' = IsRep /\ shell'.area = to
    BY <1>18, <2>1, AreasChosen DEF Consistent, TypeOK, IsRep
  <2>3. CASE IsRep /\ UNCHANGED panes
    BY <2>2, <2>3 DEF Consistent, ShowsWhatWasAsked
  <2>4. ASSUME ~ IsRep, NEW t \in Read(token), Load("area", to, t, calls \ {c})
        PROVE  ShowsWhatWasAsked'
    <3>1. /\ panes'["area"].asked = to /\ panes'["area"].state = "LOADING"
          /\ \A q \in Panes : q # "area" => panes'[q] = panes[q]
      BY <2>4, LoadEffect DEF Consistent, Panes
    <3> QED BY <2>2, <3>1 DEF Consistent, ShowsWhatWasAsked, Panes
  <2> QED BY <2>1, <2>3, <2>4
<1>19. ASSUME NEW c \in calls, AreasUnheard(c) PROVE ShowsWhatWasAsked'
  BY <1>19 DEF Consistent, ShowsWhatWasAsked, Answering, OneSession, Asking, TypeOK,
     storage, Panes, Standing, IsRep, NoToken, AreasUnheard
<1> QED
  BY <1>1, <1>2, <1>3, <1>4, <1>5, <1>6, <1>7, <1>8, <1>9, <1>10, <1>11, <1>12, <1>13,
     <1>14, <1>15, <1>16, <1>17, <1>18, <1>19 DEF Next

----------------------------------------------------------------------------
(* The invariant is inductive.                                              *)

LEMMA ConsistentInit == Init => Consistent
<1> SUFFICES ASSUME Init PROVE Consistent
  OBVIOUS
<1>1. TypeOK
  <2>1. /\ owner \in Seq(Users) /\ Len(owner) = 0 /\ 0 <= MaxLogins
        /\ 0 \in 0 .. MaxClicks /\ 0 \in 0 .. MaxFaults
    BY BoundAssumption DEF Init
  <2>2. \A p \in Panes : FreshPane \in [asked : Subject(p), data : Subject(p),
                                       state : {"LOADING", "READY", "ERROR"}, run : Nat]
    BY DEF FreshPane, Subject, Panes
  <2> QED BY <2>1, <2>2 DEF Init, TypeOK, FreshGate, NoToken
<1>2. screen # "web" /\ calls = {}
  BY DEF Init
<1> QED BY <1>1, <1>2
        DEF Consistent, Answering, OneSignIn, OneSession, ShowsWhatWasAsked, Standing

LEMMA ConsistentNext == Consistent /\ [Next]_vars => Consistent'
<1> SUFFICES ASSUME Consistent, [Next]_vars PROVE Consistent'
  OBVIOUS
<1>1. TypeOK /\ Answering /\ OneSignIn /\ OneSession
  BY DEF Consistent
<1>2. TypeOK' /\ Answering'
  BY <1>1, TypeNext, AnsweringNext
<1>3. OneSignIn' /\ OneSession'
  BY <1>1, OneSignInNext, OneSessionNext
<1>4. ShowsWhatWasAsked'
  BY ShowsWhatWasAskedNext
<1> QED BY <1>2, <1>3, <1>4 DEF Consistent

LEMMA AlwaysConsistent == Spec => []Consistent
BY ConsistentInit, ConsistentNext, PTL DEF Spec

----------------------------------------------------------------------------
(* The theorems.                                                            *)

\* However sessions come and go, tab, gate, dashboard and panes stay well-typed.
\* That no more sessions are given than there is room for rests on the form's one
\* sign-in at a time.
THEOREM TypeCorrect == Spec => []TypeOK
<1>1. Consistent => TypeOK
  BY DEF Consistent
<1> QED BY <1>1, AlwaysConsistent, PTL

\* A pane that is ready shows what was asked for last, and for the area the
\* dashboard is about, in whatever order the answers come.
THEOREM PanesShowWhatWasAsked == Spec => []ShowsWhatWasAsked
<1>1. Consistent => ShowsWhatWasAsked
  BY DEF Consistent
<1> QED BY <1>1, AlwaysConsistent, PTL

\* Only signing out, or a refusal to a request of another session, takes a session
\* from the tab that the server still takes.
THEOREM SessionsAreLostToOthers == Spec => SessionLostOnlyToAnother
<1> DEFINE Kept == (token \in valid /\ token' = NoToken) =>
                     \/ calls' = calls
                     \/ \E c \in calls \ calls' : c.kind # "login" /\ c.token # token
<1>1. ASSUME TypeOK, [Next]_vars PROVE [Kept]_vars
  <2> SUFFICES ASSUME Next, token \in valid, token' = NoToken
               PROVE  \/ calls' = calls
                      \/ \E c \in calls \ calls' : c.kind # "login" /\ c.token # token
    BY <1>1
  <2>1. token # NoToken /\ Len(owner) + 1 # NoToken
    BY <1>1 DEF TypeOK, NoToken
  <2>2. token' # token /\ \A t \in Read(token) : t = token
    BY <2>1 DEF Read
  <2>3. CASE Logout
    BY <2>3 DEF Logout, SignedOut
  <2>4. CASE \E c \in calls : Unauthorized(c)
    <3>1. PICK c \in calls : Unauthorized(c)
      BY <2>4
    <3>2. c.kind # "login" /\ c.token # token /\ c \notin calls'
      BY <3>1 DEF Unauthorized
    <3> QED BY <3>2
  <2>5. ASSUME BrowsePhone \/ BrowseWeb \/ TryAgain PROVE FALSE
    BY <2>2, <2>5 DEF BrowsePhone, BrowseWeb, TryAgain
  <2>6. ASSUME NEW u \in Users, Submit(u) PROVE FALSE
    BY <2>2, <2>6 DEF Submit, storage
  <2>7. ASSUME NEW n \in valid, Expire(n) PROVE FALSE
    BY <2>2, <2>7 DEF Expire
  <2>8. ASSUME NEW to \in Areas \cup {NoArea}, ChangeArea(to) PROVE FALSE
    BY <2>2, <2>8 DEF ChangeArea
  <2>9. ASSUME NEW x \in Captures \cup {NoCapture}, View(x) PROVE FALSE
    BY <2>2, <2>9 DEF View
  <2>10. ASSUME NEW c \in calls, Loaded(c) \/ LoadFails(c) \/ AreasUnheard(c) PROVE FALSE
    BY <2>2, <2>10 DEF Loaded, LoadFails, AreasUnheard, storage
  <2>11. ASSUME NEW c \in calls, MeAnswered(c) \/ MeFails(c) PROVE FALSE
    BY <2>2, <2>11 DEF MeAnswered, MeFails, storage
  <2>12. ASSUME NEW c \in calls, LoginServed(c) \/ SignedIn(c) \/ LoginFails(c) PROVE FALSE
    BY <2>1, <2>2, <2>12 DEF LoginServed, SignedIn, LoginFails, storage
  <2>13. ASSUME NEW c \in calls, AreasSettled(c) PROVE FALSE
    <3>1. UNCHANGED token \/ \E t \in Read(token) : token' = t
      BY <1>1, <2>13, AreasChosen
    <3> QED BY <2>2, <3>1
  <2> QED BY <2>3, <2>4, <2>5, <2>6, <2>7, <2>8, <2>9, <2>10, <2>11, <2>12, <2>13 DEF Next
<1>2. Spec => [][Kept]_vars
  BY <1>1, TypeCorrect, PTL DEF Spec
<1> QED BY <1>2 DEF SessionLostOnlyToAnother

=============================================================================
