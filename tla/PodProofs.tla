----------------------------- MODULE PodProofs -----------------------------
(***************************************************************************)
(* What one process owes its requests, for any number of them, of torrents *)
(* and of ways to ask: each counted as it ended, each given the bytes it   *)
(* asked for, none failed by another's client, and the clients they use    *)
(* closed behind the last of them.                                         *)
(***************************************************************************)
EXTENDS PlanProofs

\* What the life of the process says of its requests: none before it serves, and
\* none behind the drain unless that took too long.
Lifecycle ==
    /\ process = "new" => \A r \in Requests : phase[r] = "idle"
    /\ process \in {"new", "serving", "draining"} => closed = {}
    /\ process \in {"closing", "exited"} /\ ~expired => InFlight = {}
    /\ \A r \in Requests : phase[r] = "cut" => expired

\* What the status line says of where the handler is.
StatusOK ==
    \A r \in Requests :
        /\ phase[r] \in {"idle", "list", "waiting", "listed", "unlisted"} => status[r] = 0
        /\ phase[r] = "writing" => status[r] \in {200, 206}
        /\ status[r] = 500 => phase[r] = "done"

\* A missing file list has the store behind it, at first hand or out of the cache.
PullsOK ==
    /\ \A r \in Requests : phase[r] = "unlisted" => asked[r].hash \in broken
    /\ \A h \in DOMAIN Torrents : cache[h] = "error" => h \in broken

AskedOK ==
    /\ asked \in [Requests -> AllAsks]
    /\ \A r \in Requests : asked[r] \in Asks[r]

Attempts == { r \in Requests : phase[r] \in Handling \cup {"cut"} }
Counted  == { r \in Requests : phase[r] = "done" /\ status[r] \in {200, 206, 500} }
Failed   == { r \in Requests : status[r] = 500 }

IInv ==
    /\ TypeOK /\ AskedOK /\ Lifecycle /\ StatusOK /\ PullsOK
    /\ Accounted /\ LeaverCostsNobody

LEMMA AskIs ==
    ASSUME AskedOK, NEW r \in Requests
    PROVE  /\ asked[r] \in AllAsks
           /\ asked[r].hash \in DOMAIN Torrents
           /\ asked[r].range \in Headers
BY PodAssumption DEF AskedOK

LEMMA PlanStatus ==
    ASSUME AskedOK, NEW r \in Requests
    PROVE  Plan(r).range.status \in {200, 206, 416}
<1>1. Plan(r) = Planned(asked[r])
  BY AskIs DEF Plan, Plans
<1>2. \E size : Planned(asked[r]).range = ParseRange(asked[r].range, size)
  BY DEF Planned
<1> QED BY <1>1, <1>2, RangeStatus

\* The window a request is given is parseRange's, for the archive its plan is of.
LEMMA PlanRange ==
    ASSUME AskedOK, NEW r \in Requests
    PROVE  /\ Plan(r).size \in Nat \ {0}
           /\ Exact(asked[r].range, Plan(r).size, Plan(r).range)
           /\ Plan(r).range.begin \in Nat /\ Plan(r).range.end \in Int
<1>1. /\ asked[r] \in AllAsks /\ asked[r].range \in Headers
      /\ Plan(r).size \in Nat \ {0} /\ Plan(r) = Planned(asked[r])
  BY AskIs, PlanSize DEF Plan, Plans
<1>2. Planned(asked[r]).range = ParseRange(asked[r].range, Planned(asked[r]).size)
  BY DEF Planned
<1> DEFINE size == Plan(r).size
           p == ParseRange(asked[r].range, size)
<1> HIDE DEF Plan
<1>3. Plan(r).range = p BY <1>1, <1>2
<1> HIDE DEF size, p
<1>4. Exact(asked[r].range, size, p) BY <1>1, ParseRangeExact DEF size, p
<1>5. p.begin \in 0 .. size - 1 /\ p.end \in p.begin .. size - 1
  BY <1>1, WindowInside DEF size, p
<1> QED BY <1>1, <1>3, <1>4, <1>5 DEF size

\* metrics.go: whatever Write returns, its end is no "error".
LEMMA OutcomeNoError ==
    ASSUME NEW d \in BOOLEAN, NEW e \in {"nil", "write", "fetch", "reset"}
    PROVE  ArchiveOutcome(d, e) \in {"ok", "client_gone", "upstream_error"}
<1>1. CASE e = "nil" BY <1>1, Zenon DEF ArchiveOutcome
<1>2. CASE e # "nil" /\ (d \/ e \in {"write", "reset"})
  BY <1>2, Zenon DEF ArchiveOutcome
<1>3. CASE ~d /\ e = "fetch"
  <2>1. e # "nil" /\ e \notin {"write", "reset"} BY <1>3
  <2> QED BY <1>3, <2>1, Zenon DEF ArchiveOutcome
<1> QED BY <1>1, <1>2, <1>3
-----------------------------------------------------------------------------
(* One lemma for each part of the invariant. *)

\* What a step of the process or of a pull may do to a request's handler.
LEMMA DeliverIs ==
    ASSUME NEW h, NEW p, phase \in [Requests -> Handling \cup {"idle", "done", "cut"}],
           p \in {"listed", "unlisted"}, Deliver(h, p)
    PROVE  /\ phase' \in [Requests -> Handling \cup {"idle", "done", "cut"}]
           /\ \A r \in Requests :
                 \/ phase[r] = "waiting" /\ asked[r].hash = h /\ phase'[r] = p
                 \/ (phase[r] # "waiting" \/ asked[r].hash # h) /\ phase'[r] = phase[r]
BY DEF Deliver, Handling

LEMMA AskedStep == AskedOK /\ [Next]_vars => AskedOK'
<1> SUFFICES ASSUME AskedOK, [Next]_vars PROVE asked' = asked
  BY DEF AskedOK
<1> QED
  BY DEF Next, vars, life, shared, books, Arrive, Step, List, Unlisted, NotFound, Respond,
     Write, Leave, Fetches, Dial, Pull, Evict, Listen, Stop, Deadline, Drained,
     CloseClient, Exit, Stay

\* The shapes a request's own step can have.
LEMMA TypeStep == IInv /\ [Next]_vars => TypeOK'
<1> SUFFICES ASSUME IInv, [Next]_vars PROVE TypeOK'
  OBVIOUS
<1> USE DEF Handling
<1>1. TypeOK /\ AskedOK /\ StatusOK
  BY DEF IInv
<1>a. \A r \in Requests : asked[r].hash \in DOMAIN Torrents
  BY <1>1, AskIs
<1>2. ASSUME NEW r \in Requests, phase[r] \in Handling \cup {"cut"}
      PROVE  active \in Nat \ {0}
  <2>1. r \in Attempts BY <1>2 DEF Attempts
  <2>2. IsFiniteSet(Attempts) BY FS_Subset, PodAssumption DEF Attempts
  <2>3. Cardinality(Attempts) # 0 /\ Cardinality(Attempts) \in Nat
    BY <2>1, <2>2, FS_EmptySet, FS_CardinalityType
  <2>4. active = Cardinality(Attempts)
    BY DEF IInv, Accounted, Attempts
  <2> QED BY <2>3, <2>4
<1>3. ASSUME NEW o, Count(o), o \in Outcomes PROVE total' \in [Outcomes -> Nat]
  BY <1>1, <1>3 DEF Count, TypeOK
<1>4. CASE UNCHANGED vars
  BY <1>1, <1>4 DEF TypeOK, vars, life, shared, books
<1>5. ASSUME NEW r \in Requests, Arrive(r) PROVE TypeOK'
  <2>1. UNCHANGED <<life, shared, total, asked, gone, answer>>
    BY <1>5 DEF Arrive, books
  <2>2. /\ phase' = [phase EXCEPT ![r] = "done"] \/ phase' = [phase EXCEPT ![r] = "list"]
        /\ status' = status \/ status' = [status EXCEPT ![r] = 400]
        /\ active' = active \/ active' = active + 1
    BY <1>5 DEF Arrive, Answer, books
  <2>3. /\ phase' \in [Requests -> Handling \cup {"idle", "done", "cut"}]
        /\ \A q \in Requests : phase'[q] = "waiting" => phase[q] = "waiting"
    <3>1. phase \in [Requests -> Handling \cup {"idle", "done", "cut"}]
      BY <1>1 DEF TypeOK
    <3>2. PICK p \in {"done", "list"} : phase' = [phase EXCEPT ![r] = p]
      BY <2>2
    <3> QED BY <3>1, <3>2
  <2>4. active' \in Nat /\ status' \in [Requests -> {0, 200, 206, 400, 404, 416, 500}]
    <3>1. active \in Nat /\ status \in [Requests -> {0, 200, 206, 400, 404, 416, 500}]
      BY <1>1 DEF TypeOK
    <3>2. active' \in Nat
      BY <2>2, <3>1
    <3> QED BY <2>2, <3>1, <3>2
  <2> QED BY <1>1, <2>1, <2>3, <2>4 DEF TypeOK, life, shared
<1>6. ASSUME NEW r \in Requests, List(r) PROVE TypeOK'
  BY <1>1, <1>6, <1>a DEF TypeOK, List, life, shared, books
<1>r. ASSUME NEW r \in Requests, phase[r] \in Handling, Return(r),
             NEW s \in {200, 206, 400, 404, 416, 500}, Answer(r, s),
             total' \in [Outcomes -> Nat], UNCHANGED <<life, shared, asked, gone, answer>>
      PROVE  TypeOK'
  <2>1. active' \in Nat
    BY <1>2, <1>r DEF Return
  <2>2. /\ phase' \in [Requests -> Handling \cup {"idle", "done", "cut"}]
        /\ \A q \in Requests : phase'[q] = "waiting" => phase[q] = "waiting"
    BY <1>1, <1>r DEF TypeOK, Return
  <2>3. status' \in [Requests -> {0, 200, 206, 400, 404, 416, 500}]
    BY <1>1, <1>r DEF TypeOK, Answer
  <2> QED BY <1>1, <1>r, <2>1, <2>2, <2>3 DEF TypeOK, life, shared
<1>7. ASSUME NEW r \in Requests, Unlisted(r) PROVE TypeOK'
  <2>1. total' \in [Outcomes -> Nat] BY <1>3, <1>7 DEF Unlisted, Outcomes
  <2> QED BY <1>7, <1>r, <2>1 DEF Unlisted
<1>8. ASSUME NEW r \in Requests, NotFound(r) PROVE TypeOK'
  <2>1. total' \in [Outcomes -> Nat] BY <1>1, <1>8 DEF NotFound, TypeOK
  <2> QED BY <1>8, <1>r, <2>1 DEF NotFound
<1>9. ASSUME NEW r \in Requests, Respond(r) PROVE TypeOK'
  <2>1. total' \in [Outcomes -> Nat] BY <1>1, <1>3, <1>9 DEF Respond, Outcomes, TypeOK, books
  <2>2. /\ Plan(r).range.status \in {200, 206, 416}
        /\ Plan(r).range.begin \in Nat /\ Plan(r).range.end \in Int
    BY <1>1, PlanStatus, PlanRange
  <2> HIDE DEF Plan
  <2>3. answer' \in [Requests -> [begin : Nat, end : Int]]
    BY <1>1, <1>9, <2>2 DEF TypeOK, Respond
  <2>4. PICK n \in {200, 206, 416, 500} : status' = [status EXCEPT ![r] = n]
    BY <1>9, <2>2 DEF Respond, Answer
  <2>5. /\ phase' \in [Requests -> Handling \cup {"idle", "done", "cut"}]
        /\ \A q \in Requests : phase'[q] = "waiting" => phase[q] = "waiting"
    <3>1. PICK p \in {"done", "writing"} : phase' = [phase EXCEPT ![r] = p]
      BY <1>9 DEF Respond, Return
    <3>2. phase \in [Requests -> Handling \cup {"idle", "done", "cut"}]
      BY <1>1 DEF TypeOK
    <3> QED BY <3>1, <3>2
  <2>6. active' \in Nat
    BY <1>1, <1>2, <1>9 DEF TypeOK, Respond, Return, books
  <2>7. status' \in [Requests -> {0, 200, 206, 400, 404, 416, 500}]
    BY <1>1, <2>4 DEF TypeOK
  <2>8. UNCHANGED <<life, shared, asked, gone>>
    BY <1>9 DEF Respond
  <2> QED BY <1>1, <2>1, <2>3, <2>5, <2>6, <2>7, <2>8 DEF TypeOK, life, shared
<1>10. ASSUME NEW r \in Requests, Write(r) PROVE TypeOK'
  <2>1. PICK e \in WriteErrors(r) : Count(ArchiveOutcome(gone[r], e))
    BY <1>10 DEF Write
  <2>2. ArchiveOutcome(gone[r], e) \in Outcomes
    BY <1>1, OutcomeNoError DEF TypeOK, WriteErrors, Outcomes
  <2>3. total' \in [Outcomes -> Nat] BY <1>3, <2>1, <2>2
  <2> QED BY <1>1, <1>2, <1>10, <2>3 DEF TypeOK, Write, Return, life, shared, books
<1>11. ASSUME NEW r \in Requests, Leave(r) PROVE TypeOK'
  BY <1>1, <1>11 DEF TypeOK, Leave, life, shared, books
<1>12. ASSUME NEW h \in DOMAIN Torrents, PullFailed(h),
              cache[h] \in {"dialing", "pulling"}
       PROVE  /\ cache' \in [DOMAIN Torrents -> {"none", "dialing", "pulling", "files", "error"}]
              /\ broken' \subseteq DOMAIN Torrents
              /\ phase' \in [Requests -> Handling \cup {"idle", "done", "cut"}]
              /\ \A r \in Requests : phase'[r] = "waiting" =>
                    cache'[asked[r].hash] \in {"dialing", "pulling"}
  BY <1>1, <1>12, <1>a, DeliverIs DEF TypeOK, PullFailed
<1>13. ASSUME NEW h \in DOMAIN Torrents, Dial(h) PROVE TypeOK'
  <2>1. client' \in {"none", "ready", "failed"}
    BY <1>1, <1>13 DEF Dial, TypeOK
  <2>2. CASE client' = "failed"
    BY <1>1, <1>12, <1>13, <2>1, <2>2 DEF TypeOK, Dial, life, shared, books
  <2>3. CASE client' # "failed"
    <3>1. /\ cache' = [cache EXCEPT ![h] = "pulling"] /\ broken' = broken /\ phase' = phase
          /\ UNCHANGED <<life, books, asked, gone, status, answer>>
      BY <1>13, <2>3 DEF Dial
    <3>2. /\ cache' \in [DOMAIN Torrents -> {"none", "dialing", "pulling", "files", "error"}]
          /\ \A r \in Requests : phase'[r] = "waiting" =>
                cache'[asked[r].hash] \in {"dialing", "pulling"}
      BY <1>1, <1>a, <3>1 DEF TypeOK
    <3> QED BY <1>1, <2>1, <3>1, <3>2 DEF TypeOK, life, books
  <2> QED BY <2>2, <2>3
<1>14. ASSUME NEW h \in DOMAIN Torrents, Pull(h) PROVE TypeOK'
  <2>1. CASE PullFailed(h)
    BY <1>1, <1>12, <1>14, <2>1 DEF TypeOK, Pull, life, shared, books
  <2>2. CASE cache' = [cache EXCEPT ![h] = "files"] /\ Deliver(h, "listed") /\ UNCHANGED broken
    BY <1>1, <1>14, <1>a, <2>2, DeliverIs DEF TypeOK, Pull, life, shared, books
  <2> QED BY <1>14, <2>1, <2>2 DEF Pull
<1>15. ASSUME NEW h \in DOMAIN Torrents, Evict(h) PROVE TypeOK'
  BY <1>1, <1>15, <1>a DEF TypeOK, Evict, life, shared, books
<1>16. CASE Listen \/ Stop \/ Drained \/ CloseClient
  <2>1. /\ process' \in {"serving", "draining", "closing"}
        /\ expired' = expired /\ closed' \subseteq {"redis", "store"}
    <3>1. expired' = expired /\ process' \in {"serving", "draining", "closing"}
      BY <1>16 DEF Listen, Stop, Drained, CloseClient
    <3>2. closed' = closed \/ closed' = {"redis"} \/ closed' = {"redis", "store"}
      BY <1>16 DEF Listen, Stop, Drained, CloseClient
    <3>3. closed \subseteq {"redis", "store"}
      BY <1>1 DEF TypeOK
    <3> QED BY <3>1, <3>2, <3>3
  <2>2. Stay
    BY <1>16 DEF Listen, Stop, Drained, CloseClient
  <2> QED BY <1>1, <2>1, <2>2 DEF TypeOK, Stay, shared, books
<1>17. CASE Deadline
  BY <1>1, <1>17 DEF TypeOK, Deadline, life, shared, books
<1>18. CASE Exit
  BY <1>1, <1>18 DEF TypeOK, Exit, life, shared, books
<1> QED
  BY <1>4, <1>5, <1>6, <1>7, <1>8, <1>9, <1>10, <1>11, <1>13, <1>14, <1>15, <1>16, <1>17, <1>18
  DEF Next, Step, Fetches

\* What a step changes of the process: it begins with nobody in a handler, only a
\* request that arrives enters one, and nothing is closed in front of "closing".
LEMMA LifecycleStep == IInv /\ [Next]_vars => Lifecycle'
<1> SUFFICES ASSUME IInv, [Next]_vars PROVE Lifecycle'
  OBVIOUS
<1>1. TypeOK /\ Lifecycle
  BY DEF IInv
<1>2. ASSUME UNCHANGED life,
             \A r \in Requests :
                /\ phase'[r] = phase[r]
                      \/ (phase[r] \in Handling /\ phase'[r] \in Handling \cup {"done"})
                      \/ (process = "serving" /\ phase'[r] # "cut")
      PROVE  Lifecycle'
  BY <1>1, <1>2 DEF Lifecycle, life, InFlight, Handling
<1>3. CASE UNCHANGED vars
  BY <1>2, <1>3 DEF vars
<1>4. ASSUME NEW r \in Requests, Arrive(r) PROVE Lifecycle'
  BY <1>1, <1>2, <1>4 DEF Arrive, TypeOK, Handling
<1>5. ASSUME NEW r \in Requests, Step(r) \/ Write(r) PROVE Lifecycle'
  BY <1>1, <1>2, <1>5
  DEF Step, List, Unlisted, NotFound, Respond, Write, Return, TypeOK, Handling
<1>6. ASSUME NEW r \in Requests, Leave(r) PROVE Lifecycle'
  BY <1>2, <1>6 DEF Leave
<1>7. ASSUME NEW h \in DOMAIN Torrents, NEW p \in {"listed", "unlisted"}, Deliver(h, p),
             UNCHANGED life
      PROVE  Lifecycle'
  BY <1>1, <1>2, <1>7, DeliverIs DEF TypeOK, Handling
<1>8. ASSUME NEW h \in DOMAIN Torrents, Fetches(h) \/ Evict(h) PROVE Lifecycle'
  BY <1>2, <1>7, <1>8 DEF Fetches, Dial, Pull, Evict, PullFailed
<1>9. CASE Listen
  BY <1>1, <1>9 DEF Listen, Stay, Lifecycle, InFlight, Handling
<1>10. CASE Stop \/ Drained \/ CloseClient
  <2>1. /\ process' \in {"draining", "closing"} /\ process # "new"
        /\ process' = "draining" => process = "serving" /\ closed' = closed
        /\ process' = "closing" => process = "closing" \/ InFlight = {} \/ expired
        /\ phase' = phase /\ expired' = expired
    BY <1>10 DEF Stop, Drained, CloseClient, Stay
  <2> QED BY <1>1, <2>1 DEF Lifecycle, InFlight
<1>11. CASE Deadline
  BY <1>1, <1>11 DEF Deadline, Lifecycle, InFlight
<1>12. CASE Exit
  <2>1. /\ process = "closing" /\ process' = "exited" /\ UNCHANGED <<expired, closed>>
        /\ \A r \in Requests : phase'[r] = IF r \in InFlight THEN "cut" ELSE phase[r]
    BY <1>12 DEF Exit
  <2>2. InFlight' = {}
    BY <2>1 DEF InFlight, Handling
  <2> QED BY <1>1, <2>1, <2>2 DEF Lifecycle
<1> QED
  BY <1>3, <1>4, <1>5, <1>6, <1>8, <1>9, <1>10, <1>11, <1>12 DEF Next

\* The status line stands once it is there, and the handler is behind it.
LEMMA StatusStep == IInv /\ [Next]_vars => StatusOK'
<1> SUFFICES ASSUME IInv, [Next]_vars PROVE StatusOK'
  OBVIOUS
<1> USE DEF Handling
<1>1. TypeOK /\ AskedOK /\ StatusOK
  BY DEF IInv
<1>2. ASSUME status' = status, phase' = phase PROVE StatusOK'
  BY <1>1, <1>2 DEF StatusOK
<1>3. ASSUME NEW h \in DOMAIN Torrents, NEW p \in {"listed", "unlisted"}, Deliver(h, p),
             status' = status
      PROVE  StatusOK'
  BY <1>1, <1>3, DeliverIs DEF TypeOK, StatusOK
<1>4. CASE UNCHANGED vars
  BY <1>2, <1>4 DEF vars
<1>5. ASSUME NEW r \in Requests, Arrive(r) PROVE StatusOK'
  BY <1>1, <1>5 DEF StatusOK, TypeOK, Arrive, Answer
<1>6. ASSUME NEW r \in Requests, List(r) PROVE StatusOK'
  BY <1>1, <1>6 DEF StatusOK, TypeOK, List
<1>7. ASSUME NEW r \in Requests, Unlisted(r) \/ NotFound(r) PROVE StatusOK'
  BY <1>1, <1>7 DEF StatusOK, TypeOK, Unlisted, NotFound, Answer, Return
<1>8. ASSUME NEW r \in Requests, Respond(r) PROVE StatusOK'
  <2>1. Plan(r).range.status \in {200, 206, 416} BY <1>1, PlanStatus
  <2> HIDE DEF Plan
  <2> QED BY <1>1, <1>8, <2>1 DEF StatusOK, TypeOK, Respond, Answer, Return
<1>9. ASSUME NEW r \in Requests, Write(r) PROVE StatusOK'
  BY <1>1, <1>9 DEF StatusOK, TypeOK, Write, Return
<1>10. ASSUME NEW r \in Requests, Leave(r) PROVE StatusOK'
  BY <1>2, <1>10 DEF Leave
<1>11. ASSUME NEW h \in DOMAIN Torrents, Fetches(h) \/ Evict(h) PROVE StatusOK'
  BY <1>2, <1>3, <1>11 DEF Fetches, Dial, Pull, Evict, PullFailed
<1>12. CASE Listen \/ Stop \/ Drained \/ CloseClient \/ Deadline
  BY <1>2, <1>12 DEF Listen, Stop, Drained, CloseClient, Deadline, Stay
<1>13. CASE Exit
  <2>1. /\ status' = status
        /\ \A r \in Requests : phase'[r] = phase[r] \/ (r \in InFlight /\ phase'[r] = "cut")
    BY <1>13 DEF Exit
  <2> QED BY <1>1, <2>1 DEF StatusOK, InFlight
<1> QED
  BY <1>4, <1>5, <1>6, <1>7, <1>8, <1>9, <1>10, <1>11, <1>12, <1>13 DEF Next, Step

\* What came of a failed pull is kept beside what the requests and the cache make of
\* it, and it is a pull that failed, not a client that left.
LEMMA PullsStep == IInv /\ [Next]_vars => PullsOK' /\ LeaverCostsNobody'
<1> SUFFICES ASSUME IInv, [Next]_vars PROVE PullsOK' /\ LeaverCostsNobody'
  OBVIOUS
<1> USE DEF Handling
<1>1. TypeOK /\ AskedOK /\ PullsOK /\ LeaverCostsNobody
  BY DEF IInv
<1>a. \A r \in Requests : asked[r].hash \in DOMAIN Torrents
  BY <1>1, AskIs
<1>b. asked' = asked
  BY DEF Next, vars, life, shared, books, Arrive, Step, List, Unlisted, NotFound, Respond,
     Write, Leave, Fetches, Dial, Pull, Evict, Listen, Stop, Deadline, Drained,
     CloseClient, Exit, Stay
<1>c. \A r \in Requests : Plan(r)' = Plan(r)
  BY <1>b DEF Plan
<1> HIDE DEF Plan
<1>2. ASSUME broken \subseteq broken',
             \A r \in Requests :
                /\ phase'[r] = "unlisted" => phase[r] = "unlisted" \/ asked[r].hash \in broken'
                /\ status'[r] = 500 =>
                      status[r] = 500 \/ asked[r].hash \in broken' \/ Plan(r).fails,
             \A h \in DOMAIN Torrents :
                cache'[h] = "error" => cache[h] = "error" \/ h \in broken'
      PROVE  PullsOK' /\ LeaverCostsNobody'
  <2>1. PullsOK'
    BY <1>1, <1>2, <1>b DEF PullsOK
  <2>2. LeaverCostsNobody'
    BY <1>1, <1>2, <1>b, <1>c DEF LeaverCostsNobody
  <2> QED BY <2>1, <2>2
<1>3. CASE UNCHANGED vars
  BY <1>2, <1>3 DEF vars, shared
<1>4. ASSUME NEW r \in Requests, Arrive(r) PROVE PullsOK' /\ LeaverCostsNobody'
  BY <1>1, <1>2, <1>4 DEF TypeOK, Arrive, Answer, shared
<1>5. ASSUME NEW r \in Requests, List(r) PROVE PullsOK' /\ LeaverCostsNobody'
  BY <1>1, <1>2, <1>5, <1>a DEF TypeOK, List, PullsOK
<1>6. ASSUME NEW r \in Requests, Unlisted(r) PROVE PullsOK' /\ LeaverCostsNobody'
  BY <1>1, <1>2, <1>6 DEF TypeOK, Unlisted, Answer, Return, shared, PullsOK
<1>7. ASSUME NEW r \in Requests, NotFound(r) PROVE PullsOK' /\ LeaverCostsNobody'
  BY <1>1, <1>2, <1>7 DEF TypeOK, NotFound, Answer, Return, shared
<1>8. ASSUME NEW r \in Requests, Respond(r) PROVE PullsOK' /\ LeaverCostsNobody'
  <2>1. Plan(r).range.status \in {200, 206, 416} BY <1>1, PlanStatus
  <2> QED BY <1>1, <1>2, <1>8, <2>1 DEF TypeOK, Respond, Answer, Return, shared
<1>9. ASSUME NEW r \in Requests, Write(r) \/ Leave(r) PROVE PullsOK' /\ LeaverCostsNobody'
  BY <1>1, <1>2, <1>9 DEF TypeOK, Write, Leave, Return, shared
<1>10. ASSUME NEW h \in DOMAIN Torrents, PullFailed(h), status' = status
       PROVE  PullsOK' /\ LeaverCostsNobody'
  BY <1>1, <1>2, <1>10, DeliverIs DEF TypeOK, PullFailed
<1>11. ASSUME NEW h \in DOMAIN Torrents, Dial(h) PROVE PullsOK' /\ LeaverCostsNobody'
  BY <1>1, <1>2, <1>10, <1>11 DEF TypeOK, Dial
<1>12. ASSUME NEW h \in DOMAIN Torrents, Pull(h) PROVE PullsOK' /\ LeaverCostsNobody'
  BY <1>1, <1>2, <1>10, <1>12, DeliverIs DEF TypeOK, Pull
<1>13. ASSUME NEW h \in DOMAIN Torrents, Evict(h) PROVE PullsOK' /\ LeaverCostsNobody'
  BY <1>1, <1>2, <1>13 DEF TypeOK, Evict
<1>14. CASE Listen \/ Stop \/ Drained \/ CloseClient \/ Deadline \/ Exit
  <2>1. /\ shared' = shared /\ status' = status
        /\ \A r \in Requests : phase'[r] = phase[r] \/ phase'[r] = "cut"
    BY <1>1, <1>14
    DEF TypeOK, Listen, Stop, Drained, CloseClient, Deadline, Exit, Stay
  <2> QED BY <1>2, <2>1 DEF shared
<1> QED
  BY <1>3, <1>4, <1>5, <1>6, <1>7, <1>8, <1>9, <1>11, <1>12, <1>13, <1>14
  DEF Next, Step, Fetches


\* Exact looks at the window of a part and of a whole archive only.
LEMMA ExactWindow ==
    ASSUME NEW h, NEW size, NEW p, Exact(h, size, p), NEW q, q.status = p.status,
           p.status # 416 => q.begin = p.begin /\ q.end = p.end
    PROVE  Exact(h, size, q)
BY DEF Exact

\* An answer is what parseRange makes of its request, and stays it.
LEMMA RangeStep == IInv /\ RangeAnswered /\ [Next]_vars => RangeAnswered'
<1> SUFFICES ASSUME IInv, RangeAnswered, [Next]_vars PROVE RangeAnswered'
  OBVIOUS
<1>1. TypeOK /\ AskedOK
  BY DEF IInv
<1>b. asked' = asked
  BY DEF Next, vars, life, shared, books, Arrive, Step, List, Unlisted, NotFound, Respond,
     Write, Leave, Fetches, Dial, Pull, Evict, Listen, Stop, Deadline, Drained,
     CloseClient, Exit, Stay
<1>c. \A r \in Requests : Plan(r)' = Plan(r)
  BY <1>b DEF Plan
<1> HIDE DEF Plan
<1> DEFINE GivenBy(s, a, r) == [begin |-> a[r].begin, end |-> a[r].end, status |-> s[r]]
<1>2. ASSUME \A r \in Requests : status'[r] \in {200, 206, 416} =>
                \/ status'[r] = status[r] /\ answer'[r] = answer[r]
                \/ Exact(asked[r].range, Plan(r).size, GivenBy(status', answer', r))
      PROVE  RangeAnswered'
  BY <1>2, <1>b, <1>c DEF RangeAnswered, Given
<1>3. CASE UNCHANGED <<status, answer>>
  BY <1>2, <1>3
<1>4. ASSUME NEW r \in Requests, NEW s \in {400, 404, 500}, Answer(r, s), answer' = answer
      PROVE  RangeAnswered'
  BY <1>1, <1>2, <1>4 DEF Answer, TypeOK
<1>5. ASSUME NEW r \in Requests, Respond(r) PROVE RangeAnswered'
  <2>1. CASE Answer(r, 500) /\ UNCHANGED answer
    BY <1>4, <2>1
  <2>2. CASE ~Plan(r).fails
    <3>1. /\ status' = [status EXCEPT ![r] = Plan(r).range.status]
          /\ answer' \in {answer, [answer EXCEPT ![r] =
                             [begin |-> Plan(r).range.begin, end |-> Plan(r).range.end]]}
          /\ Plan(r).range.status # 416 =>
                answer'[r] = [begin |-> Plan(r).range.begin, end |-> Plan(r).range.end]
      BY <1>1, <1>5, <2>2 DEF Respond, Answer, TypeOK
    <3>2. status'[r] = Plan(r).range.status
          /\ \A q \in Requests : q # r => status'[q] = status[q] /\ answer'[q] = answer[q]
      BY <1>1, <3>1 DEF TypeOK
    <3>3. Exact(asked[r].range, Plan(r).size, GivenBy(status', answer', r))
      <4>1. Exact(asked[r].range, Plan(r).size, Plan(r).range)
        BY <1>1, PlanRange
      <4> DEFINE q == GivenBy(status', answer', r)
      <4>2. q.status = Plan(r).range.status BY <3>2
      <4>3. Plan(r).range.status # 416 =>
               q.begin = Plan(r).range.begin /\ q.end = Plan(r).range.end
        BY <3>1
      <4> HIDE DEF q
      <4> QED BY <4>1, <4>2, <4>3, ExactWindow DEF q
    <3> QED BY <1>2, <3>2, <3>3
  <2> QED BY <1>5, <2>1, <2>2 DEF Respond
<1>6. ASSUME NEW r \in Requests, Arrive(r) \/ Unlisted(r) \/ NotFound(r) PROVE RangeAnswered'
  BY <1>3, <1>4, <1>6 DEF Arrive, Unlisted, NotFound
<1> QED
  BY <1>3, <1>5, <1>6
  DEF Next, vars, Step, List, Write, Leave, Fetches, Dial, Pull, Evict, Listen, Stop,
      Deadline, Drained, CloseClient, Exit, Stay

\* Behind the checks in front of the file list no request has asked what they reject.
Admitted ==
    \A r \in Requests :
        phase[r] \in Handling \/ status[r] \in {200, 206, 404, 416, 500} =>
            ~Rejected(asked[r].values)

\* The status line says whether the selection has met anything.
MissingTold ==
    \A r \in Requests :
        /\ status[r] = 404 => Plan(r).missing
        /\ status[r] \in {200, 206, 416} => ~Plan(r).missing

LEMMA AdmittedStep == IInv /\ Admitted /\ [Next]_vars => Admitted'
<1> SUFFICES ASSUME IInv, Admitted, [Next]_vars PROVE Admitted'
  OBVIOUS
<1> USE DEF Handling
<1>1. TypeOK /\ AskedOK
  BY DEF IInv
<1>b. asked' = asked
  BY DEF Next, vars, life, shared, books, Arrive, Step, List, Unlisted, NotFound, Respond,
     Write, Leave, Fetches, Dial, Pull, Evict, Listen, Stop, Deadline, Drained,
     CloseClient, Exit, Stay
<1> DEFINE Past(p, s, r) == p[r] \in Handling \/ s[r] \in {200, 206, 404, 416, 500}
           Free(r) == ~Rejected(asked[r].values)
<1>2. ASSUME \A r \in Requests : Past(phase', status', r) => Past(phase, status, r) \/ Free(r)
      PROVE  Admitted'
  BY <1>2, <1>b DEF Admitted
<1>c. \A r \in Requests : Past(phase, status, r) => Free(r)
  BY DEF Admitted
<1> HIDE DEF Free
<1>3. CASE UNCHANGED <<phase, status>>
  BY <1>2, <1>3
<1>4. ASSUME NEW r \in Requests, Arrive(r) PROVE Admitted'
  <2>1. CASE phase' = [phase EXCEPT ![r] = "done"] /\ Answer(r, 400)
    BY <1>1, <1>2, <2>1 DEF TypeOK, Answer
  <2>2. CASE Free(r) /\ phase' = [phase EXCEPT ![r] = "list"] /\ status' = status
    BY <1>1, <1>2, <2>2 DEF TypeOK
  <2> QED BY <1>4, <2>1, <2>2 DEF Arrive, Free
<1>5. ASSUME NEW r \in Requests, phase[r] \in Handling,
             \A q \in Requests \ {r} : phase'[q] = phase[q] /\ status'[q] = status[q]
      PROVE  Admitted'
  BY <1>2, <1>5, <1>c
<1>6. ASSUME NEW r \in Requests, Step(r) \/ Write(r) PROVE Admitted'
  BY <1>1, <1>5, <1>6
  DEF TypeOK, Step, List, Unlisted, NotFound, Respond, Write, Return, Answer
<1>7. ASSUME NEW h \in DOMAIN Torrents, NEW p \in {"listed", "unlisted"}, Deliver(h, p),
             status' = status
      PROVE  Admitted'
  BY <1>1, <1>2, <1>7, DeliverIs DEF TypeOK
<1>8. ASSUME NEW h \in DOMAIN Torrents, Fetches(h) PROVE Admitted'
  BY <1>3, <1>7, <1>8 DEF Fetches, Dial, Pull, PullFailed
<1>9. CASE Exit
  <2>1. status' = status /\ \A r \in Requests : phase'[r] \in {phase[r], "cut"}
    BY <1>9 DEF Exit
  <2> QED BY <1>2, <2>1
<1> QED
  BY <1>3, <1>4, <1>6, <1>8, <1>9
  DEF Next, vars, Leave, Evict, Listen, Stop, Deadline, Drained, CloseClient, Stay

LEMMA MissingStep == IInv /\ MissingTold /\ [Next]_vars => MissingTold'
<1> SUFFICES ASSUME IInv, MissingTold, [Next]_vars PROVE MissingTold'
  OBVIOUS
<1>1. TypeOK /\ AskedOK
  BY DEF IInv
<1>b. asked' = asked
  BY DEF Next, vars, life, shared, books, Arrive, Step, List, Unlisted, NotFound, Respond,
     Write, Leave, Fetches, Dial, Pull, Evict, Listen, Stop, Deadline, Drained,
     CloseClient, Exit, Stay
<1>c. \A r \in Requests : Plan(r)' = Plan(r)
  BY <1>b DEF Plan
<1> HIDE DEF Plan
<1> DEFINE Told(s, r) == /\ s[r] = 404 => Plan(r).missing
                         /\ s[r] \in {200, 206, 416} => ~Plan(r).missing
<1>2. ASSUME \A r \in Requests : status'[r] = status[r] \/ Told(status', r)
      PROVE  MissingTold'
  BY <1>2, <1>c DEF MissingTold
<1>3. CASE status' = status
  BY <1>2, <1>3
<1>4. ASSUME NEW r \in Requests, Arrive(r) \/ Unlisted(r) \/ NotFound(r) \/ Respond(r)
      PROVE  MissingTold'
  <2>1. PICK n : (status' = status \/ Answer(r, n)) /\ (n = 404 => Plan(r).missing)
                  /\ (n \in {200, 206, 416} => ~Plan(r).missing)
    <3>1. CASE Arrive(r) \/ Unlisted(r)
      <4>1. status' = status \/ Answer(r, 400) \/ Answer(r, 500)
        BY <3>1 DEF Arrive, Unlisted
      <4> QED BY <4>1
    <3>2. CASE NotFound(r)
      BY <3>2 DEF NotFound
    <3>3. CASE Respond(r)
      <4>1. Plan(r).range.status \in {200, 206, 416}
        BY <1>1, PlanStatus
      <4>2. ~Plan(r).missing /\ \E n \in {500, 416, Plan(r).range.status} : Answer(r, n)
        BY <3>3 DEF Respond
      <4> QED BY <4>1, <4>2
    <3> QED BY <1>4, <3>1, <3>2, <3>3
  <2>2. \A q \in Requests : status'[q] = status[q] \/ (q = r /\ status'[q] = n)
    BY <1>1, <2>1 DEF TypeOK, Answer
  <2> QED BY <1>2, <2>1, <2>2
<1> QED
  BY <1>3, <1>4
  DEF Next, vars, Step, List, Write, Leave, Fetches, Dial, Pull, Evict, Listen, Stop,
      Deadline, Drained, CloseClient, Exit, Stay

-----------------------------------------------------------------------------
(* The books.  A step does one of four things to them. *)

KeepsBooks ==
    /\ UNCHANGED books
    /\ Attempts' = Attempts /\ Counted' = Counted /\ Failed' = Failed

Enters(r) ==
    /\ r \in Requests \ Attempts
    /\ active' = active + 1 /\ UNCHANGED total
    /\ Attempts' = Attempts \cup {r} /\ Counted' = Counted /\ Failed' = Failed

LeavesUncounted(r) ==
    /\ r \in Attempts
    /\ active' = active - 1 /\ UNCHANGED total
    /\ Attempts' = Attempts \ {r} /\ Counted' = Counted /\ Failed' = Failed

LeavesCounted(r, o) ==
    /\ r \in Attempts /\ r \notin Counted /\ r \notin Failed
    /\ active' = active - 1 /\ Count(o)
    /\ Attempts' = Attempts \ {r} /\ Counted' = Counted \cup {r}
    /\ Failed' = IF o = "error" THEN Failed \cup {r} ELSE Failed

LEMMA StepKinds ==
    IInv /\ [Next]_vars =>
        \/ KeepsBooks
        \/ \E r \in Requests : Enters(r) \/ LeavesUncounted(r)
        \/ \E r \in Requests, o \in Outcomes : LeavesCounted(r, o)
<1> DEFINE Goal == \/ KeepsBooks
                   \/ \E r \in Requests : Enters(r) \/ LeavesUncounted(r)
                   \/ \E r \in Requests, o \in Outcomes : LeavesCounted(r, o)
<1> SUFFICES ASSUME IInv, [Next]_vars PROVE Goal
  OBVIOUS
<1> USE DEF Handling, Attempts, Counted, Failed
<1>1. TypeOK /\ AskedOK /\ StatusOK
  BY DEF IInv
<1>2. ASSUME UNCHANGED books, status' = status,
             \A r \in Requests :
                \/ phase'[r] = phase[r]
                \/ phase[r] \in Handling /\ phase'[r] \in Handling \cup {"cut"}
      PROVE  KeepsBooks
  BY <1>2 DEF KeepsBooks
<1>3. CASE UNCHANGED vars
  BY <1>2, <1>3 DEF vars
<1>4. ASSUME NEW r \in Requests, Arrive(r) PROVE Goal
  <2>1. CASE phase' = [phase EXCEPT ![r] = "done"] /\ Answer(r, 400) /\ UNCHANGED books
    <3>1. phase[r] = "idle" /\ status[r] = 0
      BY <1>1, <1>4 DEF Arrive, StatusOK
    <3>2. KeepsBooks
      BY <1>1, <2>1, <3>1 DEF KeepsBooks, Answer, TypeOK
    <3> QED BY <3>2
  <2>2. CASE /\ phase' = [phase EXCEPT ![r] = "list"] /\ active' = active + 1
             /\ UNCHANGED <<status, total>>
    <3>1. phase[r] = "idle"
      BY <1>4 DEF Arrive
    <3>2. Enters(r)
      BY <1>1, <2>2, <3>1 DEF Enters, TypeOK
    <3> QED BY <3>2
  <2> QED BY <1>4, <2>1, <2>2 DEF Arrive
<1>5. ASSUME NEW r \in Requests, List(r) PROVE Goal
  BY <1>1, <1>2, <1>5 DEF TypeOK, List
<1>6. ASSUME NEW r \in Requests, NEW s \in {404, 416}, phase[r] = "listed",
             Answer(r, s), Return(r), total' = total
      PROVE  LeavesUncounted(r)
  <2>1. status[r] = 0 BY <1>1, <1>6 DEF StatusOK
  <2> QED BY <1>1, <1>6, <2>1 DEF LeavesUncounted, Answer, Return, TypeOK
<1>7. ASSUME NEW r \in Requests, phase[r] \in {"listed", "unlisted"},
             Answer(r, 500), Return(r), Count("error")
      PROVE  LeavesCounted(r, "error")
  <2>1. status[r] = 0 BY <1>1, <1>7 DEF StatusOK
  <2> QED BY <1>1, <1>7, <2>1 DEF LeavesCounted, Answer, Return, TypeOK
<1>8. ASSUME NEW r \in Requests, Unlisted(r) PROVE Goal
  BY <1>7, <1>8 DEF Unlisted, Outcomes
<1>9. ASSUME NEW r \in Requests, NotFound(r) PROVE Goal
  BY <1>6, <1>9 DEF NotFound
<1>10. ASSUME NEW r \in Requests, Respond(r) PROVE Goal
  <2>1. CASE Answer(r, 500) /\ Count("error") /\ Return(r)
    BY <1>7, <1>10, <2>1 DEF Respond, Outcomes
  <2>2. CASE Answer(r, 416) /\ Return(r) /\ UNCHANGED total
    BY <1>6, <1>10, <2>2 DEF Respond
  <2>3. CASE /\ Answer(r, Plan(r).range.status) /\ Plan(r).range.status # 416
             /\ phase' = [phase EXCEPT ![r] = "writing"] /\ UNCHANGED books
    <3>1. Plan(r).range.status \in {200, 206}
      BY <1>1, <2>3, PlanStatus
    <3>2. phase[r] = "listed" /\ status[r] = 0
      BY <1>1, <1>10 DEF Respond, StatusOK
    <3> HIDE DEF Plan
    <3>3. KeepsBooks
      BY <1>1, <2>3, <3>1, <3>2 DEF KeepsBooks, Answer, TypeOK
    <3> QED BY <3>3
  <2> QED BY <1>10, <2>1, <2>2, <2>3 DEF Respond
<1>11. ASSUME NEW r \in Requests, Write(r) PROVE Goal
  <2>1. PICK e \in WriteErrors(r) : Count(ArchiveOutcome(gone[r], e))
    BY <1>11 DEF Write
  <2>2. ArchiveOutcome(gone[r], e) \in {"ok", "client_gone", "upstream_error"}
    BY <1>1, OutcomeNoError DEF TypeOK, WriteErrors
  <2>3. PICK o \in Outcomes : Count(o) /\ o # "error"
    BY <2>1, <2>2 DEF Outcomes
  <2>4. phase[r] = "writing" /\ status[r] \in {200, 206} /\ status' = status /\ Return(r)
    BY <1>1, <1>11 DEF Write, StatusOK
  <2>5. LeavesCounted(r, o)
    BY <1>1, <2>3, <2>4 DEF LeavesCounted, Return, TypeOK
  <2> QED BY <2>5
<1>12. ASSUME NEW r \in Requests, Leave(r) PROVE Goal
  BY <1>2, <1>12 DEF Leave
<1>13. ASSUME NEW h \in DOMAIN Torrents, NEW p \in {"listed", "unlisted"}, Deliver(h, p),
              UNCHANGED books, status' = status
       PROVE  KeepsBooks
  BY <1>1, <1>2, <1>13, DeliverIs DEF TypeOK
<1>14. ASSUME NEW h \in DOMAIN Torrents, Fetches(h) \/ Evict(h) PROVE Goal
  BY <1>2, <1>13, <1>14 DEF Fetches, Dial, Pull, Evict, PullFailed
<1>15. CASE Listen \/ Stop \/ Drained \/ CloseClient \/ Deadline
  BY <1>2, <1>15 DEF Listen, Stop, Drained, CloseClient, Deadline, Stay
<1>16. CASE Exit
  <2>1. /\ UNCHANGED books /\ status' = status
        /\ \A r \in Requests : phase'[r] = phase[r] \/ (r \in InFlight /\ phase'[r] = "cut")
    BY <1>16 DEF Exit
  <2> QED BY <1>2, <2>1 DEF InFlight
<1> QED
  BY <1>3, <1>4, <1>5, <1>8, <1>9, <1>10, <1>11, <1>12, <1>14, <1>15, <1>16 DEF Next, Step

LEMMA Finite ==
    /\ IsFiniteSet(Attempts) /\ IsFiniteSet(Counted) /\ IsFiniteSet(Failed)
    /\ Cardinality(Attempts) \in Nat /\ Cardinality(Counted) \in Nat
    /\ Cardinality(Failed) \in Nat
<1>1. Attempts \subseteq Requests /\ Counted \subseteq Requests /\ Failed \subseteq Requests
  BY DEF Attempts, Counted, Failed
<1>2. IsFiniteSet(Attempts) /\ IsFiniteSet(Counted) /\ IsFiniteSet(Failed)
  BY <1>1, FS_Subset, PodAssumption
<1> QED BY <1>2, FS_CardinalityType

LEMMA AccountedStep == IInv /\ [Next]_vars => Accounted'
<1> SUFFICES ASSUME IInv, [Next]_vars PROVE Accounted'
  OBVIOUS
<1> DEFINE Sum(t) == t["ok"] + t["client_gone"] + t["upstream_error"] + t["error"]
           Goal == /\ active' = Cardinality(Attempts')
                   /\ Sum(total') = Cardinality(Counted')
                   /\ total'["error"] = Cardinality(Failed')
<1>1. /\ active \in Nat /\ total \in [Outcomes -> Nat]
      /\ active = Cardinality(Attempts)
      /\ Sum(total) = Cardinality(Counted)
      /\ total["error"] = Cardinality(Failed)
  BY DEF IInv, TypeOK, Accounted, Attempts, Counted, Failed
<1>2. CASE KeepsBooks
  <2>1. Goal BY <1>1, <1>2 DEF KeepsBooks, books
  <2> QED BY <2>1 DEF Accounted, Attempts, Counted, Failed
<1>3. ASSUME NEW r \in Requests, Enters(r) PROVE Goal
  <2>1. Cardinality(Attempts \cup {r}) = Cardinality(Attempts) + 1
    BY <1>3, Finite, FS_AddElement DEF Enters
  <2> QED BY <1>1, <1>3, <2>1 DEF Enters
<1>4. ASSUME NEW r \in Requests, LeavesUncounted(r) PROVE Goal
  <2>1. Cardinality(Attempts \ {r}) = Cardinality(Attempts) - 1
    BY <1>4, Finite, FS_RemoveElement DEF LeavesUncounted
  <2> QED BY <1>1, <1>4, <2>1 DEF LeavesUncounted
<1>5. ASSUME NEW r \in Requests, NEW o \in Outcomes, LeavesCounted(r, o) PROVE Goal
  <2>1. Cardinality(Attempts \ {r}) = Cardinality(Attempts) - 1
    BY <1>5, Finite, FS_RemoveElement DEF LeavesCounted
  <2>2. Cardinality(Counted \cup {r}) = Cardinality(Counted) + 1
    BY <1>5, Finite, FS_AddElement DEF LeavesCounted
  <2>3. Cardinality(Failed \cup {r}) = Cardinality(Failed) + 1
    BY <1>5, Finite, FS_AddElement DEF LeavesCounted
  <2>4. total' = [total EXCEPT ![o] = total[o] + 1]
    BY <1>5 DEF LeavesCounted, Count
  <2>5. Sum(total') = Sum(total) + 1
    BY <1>1, <2>4 DEF Outcomes
  <2>6. total'["error"] = total["error"] + (IF o = "error" THEN 1 ELSE 0)
    BY <1>1, <2>4 DEF Outcomes
  <2>7. active' = Cardinality(Attempts')
    BY <1>1, <1>5, <2>1 DEF LeavesCounted
  <2>8. Sum(total') = Cardinality(Counted')
    BY <1>1, <1>5, <2>2, <2>5 DEF LeavesCounted
  <2>9. total'["error"] = Cardinality(Failed')
    <3>1. CASE o = "error"
      BY <1>1, <1>5, <2>3, <2>6, <3>1 DEF LeavesCounted
    <3>2. CASE o # "error"
      <4>1. Failed' = Failed BY <1>5, <3>2 DEF LeavesCounted
      <4>2. total["error"] \in Nat BY <1>1 DEF Outcomes
      <4>3. total'["error"] = total["error"] BY <2>6, <3>2, <4>2
      <4> QED BY <1>1, <4>1, <4>3
    <3> QED BY <3>1, <3>2
  <2> QED BY <2>7, <2>8, <2>9
<1>6. Goal => Accounted'
  BY DEF Accounted, Attempts, Counted, Failed
<1> QED BY <1>2, <1>3, <1>4, <1>5, <1>6, StepKinds
-----------------------------------------------------------------------------
LEMMA InitIInv == Init => IInv
<1> SUFFICES ASSUME Init PROVE IInv
  OBVIOUS
<1>1. /\ process = "new" /\ expired = FALSE /\ closed = {} /\ client = "none" /\ broken = {}
      /\ \A h \in DOMAIN Torrents : cache[h] = "none"
      /\ cache \in [DOMAIN Torrents -> {"none"}]
      /\ phase = [r \in Requests |-> "idle"] /\ gone = [r \in Requests |-> FALSE]
      /\ status = [r \in Requests |-> 0] /\ answer = [r \in Requests |-> Nothing]
      /\ active = 0 /\ total = [o \in Outcomes |-> 0]
  BY DEF Init
<1>2. AskedOK BY DEF Init, AskedOK
<1>3. TypeOK
  <2>1. answer \in [Requests -> [begin : Nat, end : Int]] BY <1>1 DEF Nothing
  <2>2. /\ cache \in [DOMAIN Torrents -> {"none", "dialing", "pulling", "files", "error"}]
        /\ phase \in [Requests -> Handling \cup {"idle", "done", "cut"}]
        /\ gone \in [Requests -> BOOLEAN]
    BY <1>1
  <2>3. /\ status \in [Requests -> {0, 200, 206, 400, 404, 416, 500}]
        /\ active \in Nat /\ total \in [Outcomes -> Nat]
        /\ \A r \in Requests : phase[r] # "waiting"
    BY <1>1
  <2> QED BY <1>1, <2>1, <2>2, <2>3 DEF TypeOK
<1>4. Lifecycle BY <1>1 DEF Lifecycle
<1>5. StatusOK /\ PullsOK /\ LeaverCostsNobody
  BY <1>1 DEF StatusOK, PullsOK, LeaverCostsNobody
<1>6. Accounted
  <2>1. Attempts = {} /\ Counted = {} /\ Failed = {}
    BY <1>1 DEF Attempts, Counted, Failed, Handling
  <2>2. active = Cardinality(Attempts) BY <1>1, <2>1, FS_EmptySet
  <2>3. total["ok"] + total["client_gone"] + total["upstream_error"] + total["error"]
           = Cardinality(Counted)
    BY <1>1, <2>1, FS_EmptySet DEF Outcomes
  <2>4. total["error"] = Cardinality(Failed) BY <1>1, <2>1, FS_EmptySet DEF Outcomes
  <2> QED BY <2>2, <2>3, <2>4 DEF Accounted, Attempts, Counted, Failed
<1> QED BY <1>2, <1>3, <1>4, <1>5, <1>6 DEF IInv

LEMMA Invariant == Spec => []IInv
<1>1. IInv /\ [Next]_vars => IInv'
  BY TypeStep, AskedStep, LifecycleStep, StatusStep, PullsStep, AccountedStep DEF IInv
<1> QED BY InitIInv, <1>1, PTL DEF Spec

\* Every variable keeps its type; who waits for a file list waits for a pull that is
\* under way, and the gauge never goes below zero.
THEOREM PodTypeCorrect == Spec => []TypeOK
<1>1. IInv => TypeOK BY DEF IInv
<1> QED BY Invariant, <1>1, PTL

\* web.go:153-165, 255-345: however requests overlap and end, the gauge is the number
\* of them in flight, and each archive attempt is counted once, as what it was.
THEOREM AccountsRight == Spec => []Accounted
<1>1. IInv => Accounted BY DEF IInv
<1> QED BY Invariant, <1>1, PTL

\* configure.go:99-103: the clients handlers use outlive the last handler, and the
\* process cuts none, unless the drain took too long.
THEOREM ClosesBehindHandlers == Spec => []DrainedBeforeClosing
<1>1. IInv => DrainedBeforeClosing
  <2> SUFFICES ASSUME IInv PROVE DrainedBeforeClosing
    OBVIOUS
  <2>1. process \in {"new", "serving", "draining", "closing", "exited"} /\ Lifecycle
    BY DEF IInv, TypeOK
  <2> QED BY <2>1 DEF Lifecycle, DrainedBeforeClosing
<1> QED BY Invariant, <1>1, PTL

\* torrent_store.go:107-112: a client that leaves takes nobody with it, however many
\* requests share its pull.
THEOREM LeaverHarmless == Spec => []LeaverCostsNobody
<1>1. IInv => LeaverCostsNobody BY DEF IInv
<1> QED BY Invariant, <1>1, PTL

\* web.go:124-128, 285-337: whatever its Range header and whatever else the process
\* does, the bytes a client is given are the ones it asked for, of an archive whose
\* size its own Size pass has found.
THEOREM RangesAnswered == Spec => []RangeAnswered
<1>1. Init => RangeAnswered
  BY DEF Init, RangeAnswered
<1> QED BY Invariant, <1>1, RangeStep, PTL DEF Spec

\* archive.go:70-71: in every archive that is sent each folder is in front of its
\* files, once, in whatever order the torrent has them; if BEP 3 is kept to.
THEOREM FoldersRight == ASSUME WellNamed PROVE Spec => []FoldersOnce
<1>1. IInv => FoldersOnce
  <2> SUFFICES ASSUME IInv, NEW r \in Requests PROVE Walks[asked[r]]
    BY DEF FoldersOnce
  <2>1. asked[r] \in AllAsks
    BY AskIs DEF IInv
  <2>2. Walked(Planned(asked[r]).entries)
    BY <2>1, PlanWalked
  <2> QED BY <2>1, <2>2 DEF Walks, Plans
<1> QED BY Invariant, <1>1, PTL

\* README.md:9-13: an archive holds exactly the files its request selects, in the
\* torrent's order, and 404 is the answer if and only if that is none.
THEOREM SelectionRight ==
    ASSUME WellNamed, WellAsked
    PROVE  Spec => []SelectedExactly
<1>1. Init => MissingTold
  BY DEF Init, MissingTold
<1>2. IInv /\ MissingTold => SelectedExactly
  <2> SUFFICES ASSUME IInv, MissingTold, NEW r \in Requests
               PROVE  /\ Held[asked[r]] = Promises[asked[r]]
                      /\ status[r] = 404 => Promises[asked[r]] = <<>> /\ Chosens[asked[r]] # {}
                      /\ status[r] \in {200, 206, 416} =>
                            Promises[asked[r]] # <<>> \/ Chosens[asked[r]] = {}
    BY DEF SelectedExactly
  <2>1. asked[r] \in AllAsks
    BY AskIs DEF IInv
  <2>2. Plan(r).missing <=> Promises[asked[r]] = <<>> /\ Chosens[asked[r]] # {}
    BY <2>1, PlanMissing DEF Plan
  <2>3. Held[asked[r]] = Promises[asked[r]]
    BY <2>1, PlanHeld
  <2> HIDE DEF Plan
  <2> QED BY <2>2, <2>3 DEF MissingTold
<1> QED BY Invariant, MissingStep, <1>1, <1>2, PTL DEF Spec

\* web.go:101-105, 319-321: two requests that are answered have one ETag if and only
\* if they ask for the same torrent, path and set of paths.
THEOREM EtagsRight ==
    ASSUME WellAsked, Unmarked
    PROVE  Spec => []EtagTellsApart
<1>1. Init => Admitted
  BY DEF Init, Admitted, Handling
<1>2. IInv /\ Admitted => EtagTellsApart
  <2> SUFFICES ASSUME IInv, Admitted, NEW r \in Requests, NEW s \in Requests,
                      status[r] \in {200, 206}, status[s] \in {200, 206}
               PROVE  Plan(r).etag = Plan(s).etag <=>
                        /\ asked[r].hash = asked[s].hash
                        /\ Names(asked[r].path) = Names(asked[s].path)
                        /\ Chosens[asked[r]] = Chosens[asked[s]]
    BY DEF EtagTellsApart
  <2>1. asked[r] \in AllAsks /\ asked[s] \in AllAsks
    BY AskIs DEF IInv
  <2>2. ~Rejected(asked[r].values) /\ ~Rejected(asked[s].values)
    BY DEF Admitted
  <2>3. Plans[asked[r]].etag = Plans[asked[s]].etag <=> SameAsk(asked[r], asked[s])
    BY <2>1, <2>2, PlanEtag
  <2>4. /\ Chosens[asked[r]] = Chosen(asked[r])
        /\ Chosens[asked[s]] = Chosen(asked[s])
    BY <2>1 DEF Chosens
  <2> QED BY <2>3, <2>4 DEF SameAsk, Plan
<1> QED BY Invariant, AdmittedStep, <1>1, <1>2, PTL DEF Spec
=============================================================================
