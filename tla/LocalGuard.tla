------------------------------ MODULE LocalGuard ------------------------------
(***************************************************************************)
(* Who may talk to the appliance over HTTP                                 *)
(* (internal/localhttp/security.go, and the routes that                    *)
(* internal/runtime/api.go and assembly.go put behind it).                 *)
(*                                                                         *)
(* Three guards, each with its own bearer and its own counters: one for    *)
(* what is read, one for what changes something, one for what arrives.     *)
(* A guard checks a request in a fixed order; only one that looks like a   *)
(* local request is counted, and only a counted one may show credentials.  *)
(* The handlers behind them are those of Approvals, Artifacts, Workbench   *)
(* and Receivers.                                                          *)
(***************************************************************************)
EXTENDS Naturals, FiniteSets

CONSTANTS
  Request,     \* requests clients send: [path, method, peer, forwarded, host, origin, bearer, csrf]
  Container,   \* ContainerMode: peers of a private network are the bridge's
  Limit,       \* requests of a peer in one window (120)
  Window       \* its length (one minute), in ticks

ASSUME GuardAssumption == Limit \in Nat \ {0} /\ Window \in Nat \ {0} /\ Container \in BOOLEAN

Guard == {"read", "mutation", "ingress"}
Peer == {r.peer : r \in Request}
Changing == {"POST", "PATCH"}
NoRequest == [answer |-> 0]

VARIABLES
  window,   \* [guard -> [peer -> [age, count]]]; age = Window: no window is open
  counted,  \* history: [guard -> [peer -> requests <<age, number>> that passed the counter]]
  last      \* history: the last request, the guard it met and the answer

guardVars == <<window, counted, last>>

Ages == 0 .. Window - 1
GuardInit ==
  /\ window = [g \in Guard |-> [p \in Peer |-> [age |-> Window, count |-> 0]]]
  /\ counted = [g \in Guard |-> [p \in Peer |-> {}]]
  /\ last = NoRequest

\* What the history keeps: the requests of the last Window ticks, numbered in each.
Latest(s) == {x \in s : x[1] = 0}
Attempt(s) == s \cup {<<0, Cardinality(Latest(s)) + 1>>}
Young(s) == {x \in s : x[1] < Window - 1}
Older(s) == {<<x[1] + 1, x[2]>> : x \in Young(s)}

-----------------------------------------------------------------------------
\* An incident and what can be done to it share a path: its method chooses.
GuardOf(r) == CASE r.path = "ingress" -> "ingress"
                [] r.path = "mutation" -> "mutation"
                [] r.path = "incident" -> IF r.method \in Changing THEN "mutation" ELSE "read"
                [] OTHER -> "read"

\* validModeMethod: HookOTLP takes POST only.
MethodFits(r) == CASE GuardOf(r) = "read" -> r.method = "GET"
                   [] GuardOf(r) = "ingress" -> r.method = "POST"
                   [] GuardOf(r) = "mutation" -> r.method \in Changing

PeerAllowed(r) == r.peer = "loopback" \/ (Container /\ r.peer = "bridge")

\* The name is a loopback name and the port the one of the route; a name
\* without a port is canonical but belongs to no route.
HostMatches(r) == r.host = IF GuardOf(r) = "ingress" THEN "ingress port" ELSE "ui port"

\* validOrigin: "own" is an allowed origin that names the very host asked.
OriginFits(r) == CASE GuardOf(r) = "ingress" -> r.origin = "none"
                   [] GuardOf(r) = "mutation" -> r.origin = "own"
                   [] GuardOf(r) = "read" -> r.origin \in {"none", "own"}

\* Wrap up to the counter: the first check that fails gives the answer.
Refusal(r) == IF ~MethodFits(r) THEN 405
              ELSE IF r.forwarded THEN 400
              ELSE IF ~PeerAllowed(r) THEN 403
              ELSE IF ~HostMatches(r) THEN 421
              ELSE IF ~OriginFits(r) THEN 403 ELSE 0

CountedFromZero(w) == IF w.age >= Window THEN [age |-> 0, count |-> 0]
                      ELSE [w EXCEPT !.count = @ + 1]

\* allow: a window begins with the first request after the last one ended, and
\* a request beyond the limit is counted as well.
Counted(w) == IF w.age >= Window THEN [age |-> 0, count |-> 1]
              ELSE [w EXCEPT !.count = @ + 1]

\* Each guard knows its own bearer; a change needs the CSRF token as well.
Credentials(r) == IF r.bearer # GuardOf(r) THEN 401
                  ELSE IF GuardOf(r) = "mutation" /\ ~r.csrf THEN 403 ELSE 200

Wrap(r) == LET g == GuardOf(r)  w == Counted(window[g][r.peer])  within == w.count <= Limit IN
  IF Refusal(r) # 0
  THEN /\ last' = [answer |-> Refusal(r), request |-> r]
       /\ UNCHANGED <<window, counted>>
  ELSE /\ window[g][r.peer].count <= Limit          \* bound: refused ones look alike
       /\ window' = [window EXCEPT ![g][r.peer] = w]
       /\ counted' = IF within THEN [counted EXCEPT ![g][r.peer] = Attempt(@)] ELSE counted
       /\ last' = [answer |-> IF within THEN Credentials(r) ELSE 429, request |-> r]

\* Time passes for every window; what is older than one window is forgotten.
WindowAges ==
  /\ window' = [g \in Guard |-> [p \in Peer |->
       [window[g][p] EXCEPT !.age = IF @ < Window THEN @ + 1 ELSE @]]]
  /\ counted' = [g \in Guard |-> [p \in Peer |-> Older(counted[g][p])]]
  /\ last' = NoRequest

GuardNext == WindowAges \/ \E r \in Request : Wrap(r)

-----------------------------------------------------------------------------
GuardTypeOK ==
  /\ window \in [Guard -> [Peer -> [age : 0 .. Window, count : 0 .. Limit + 1]]]
  /\ counted \in [Guard -> [Peer -> SUBSET (Ages \X (1 .. Limit))]]
  /\ last.answer \in {0, 200, 400, 401, 403, 405, 421, 429}

\* In any stretch as long as a window, wherever it begins, a guard lets one peer
\* show credentials fewer than two limits' worth of times, guessed bearers
\* included; and in the window it counts, no more than the limit.
AttemptsAreBounded == \A g \in Guard, p \in Peer : Cardinality(counted[g][p]) < 2 * Limit

\* Whichever path it took, a changing request that was served carried the
\* bearer and the token of changes, or is evidence that carried no origin.
ChangesAreAuthorized == last.answer = 200 /\ last.request.method \in Changing =>
  IF last.request.path = "ingress" THEN last.request.bearer = "ingress" /\ last.request.origin = "none"
  ELSE last.request.bearer = "mutation" /\ last.request.csrf /\ last.request.origin = "own"

GuardHolds == AttemptsAreBounded /\ ChangesAreAuthorized
=============================================================================
