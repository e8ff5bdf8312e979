---------------------------- MODULE ServerProofs ----------------------------
(***************************************************************************)
(* What is proved of the parts of the server that keep something safe: the *)
(* sessions of the administrator (AdminSessions), the second factor        *)
(* (MfaFactors), the count of failed logins (LoginLimits), the             *)
(* initialization of the database (SetupInit), what agents say of their    *)
(* machines (AgentIntake), what LiveDataDO stores of ping results          *)
(* (PingResults) and, on the side of the agent, its traffic counters       *)
(* (TrafficState); and, from these, of the properties that MCServer        *)
(* checks.  The constants are those of MCServer: any that satisfy its      *)
(* assumptions.                                                            *)
(***************************************************************************)
EXTENDS MCServer, Sequences, FiniteSetTheorems, WellFoundedInduction, TLAPS

-----------------------------------------------------------------------------
(* The sessions: the inductive invariant *)

\* A version that is not revoked has no age: what it is revoked with later starts at 0.
AgesStart == \A v \in Admin!Versions : v >= version => age[v] = 0

\* A request never comes before the account, and no cookie is of a version to come.
Began == \A p \in Places : adminRequest[p] # Admin!NoRequest => adminRequest[p].v <= version /\ adminRequest[p].began <= version

\* What a request is about to put into the caches.  No time passes during a request: what
\* SQL confirmed is new, and what the memory vouches for is younger than IsolateTtl.
AboutToEnter ==
    \A p \in Places : Admin!Todo(p, "enter") /\ adminRequest[p].v < version => age[adminRequest[p].v] = 0
AboutToPut ==
    \A p \in Places : Admin!Todo(p, "put") /\ adminRequest[p].v < version => age[adminRequest[p].v] <= IsolateTtl

\* The inductive invariant of the sessions.
SessionInv ==
    /\ Admin!TypeOK
    /\ AgesStart
    /\ Began
    /\ AboutToEnter
    /\ AboutToPut
    /\ Admin!WritesAreCurrent
    /\ Admin!ReadsEnd

-----------------------------------------------------------------------------
(* The sessions: proofs *)

\* What follows a step of a request.  The caches are filled only after SQL or the memory
\* has answered, and a handler runs only after SQL has.
LEMMA WorkFollows ==
    ASSUME NEW k \in Admin!Kinds \cup {"login", "recovery"}, NEW i \in 1..Len(Admin!Work(k)), NEW n \in {1, 3},
           n = 3 => Admin!Work(k)[i] = "memory", i + n <= Len(Admin!Work(k))
    PROVE  /\ i + n \in 1..Len(Admin!Work(k))
           /\ Admin!Work(k)[i + n] = "enter" => Admin!Work(k)[i] = "shared"
           /\ Admin!Work(k)[i + n] = "put" => Admin!Work(k)[i] \in {"fresh", "enter"} \/ n = 3
           /\ Admin!Work(k)[i + n] = "write" => Admin!Work(k)[i] = "fresh"
<1>1. CASE k = "read"    BY <1>1 DEF Admin!Work
<1>2. CASE k = "me"      BY <1>2 DEF Admin!Work
<1>3. CASE k = "write"   BY <1>3 DEF Admin!Work
<1>4. CASE k = "username" BY <1>4 DEF Admin!Work
<1>5. CASE k = "password" BY <1>5 DEF Admin!Work
<1>6. CASE k = "logout"   BY <1>6 DEF Admin!Work
<1>7. CASE k = "login"    BY <1>7 DEF Admin!Work
<1>8. CASE k = "recovery" BY <1>8 DEF Admin!Work
<1> QED BY <1>1, <1>2, <1>3, <1>4, <1>5, <1>6, <1>7, <1>8 DEF Admin!Kinds

\* A request that is under way is a place in some work with a cookie of the account.
LEMMA UnderWay ==
    ASSUME NEW r \in Admin!Requests, r # Admin!NoRequest
    PROVE  /\ r.v \in Admin!Versions /\ r.began \in Admin!Versions /\ r.kind \in Admin!Kinds \cup {"login", "recovery"}
           /\ r.at \in 1..Len(Admin!Work(r.kind))
           /\ \A i \in 1..Len(Admin!Work(r.kind)) :
                 [r EXCEPT !.at = i] \in Admin!Requests /\ [r EXCEPT !.at = i] # Admin!NoRequest
<1>1. PICK k \in Admin!Kinds \cup {"login", "recovery"} :
          r \in [v : Admin!Versions, began : Admin!Versions, kind : {k}, at : 1..Len(Admin!Work(k))]
    BY DEF Admin!Requests
<1>2. r.kind = k /\ r.v \in Admin!Versions /\ r.began \in Admin!Versions /\ r.at \in 1..Len(Admin!Work(k))
    BY <1>1
<1>3. ASSUME NEW i \in 1..Len(Admin!Work(k))
      PROVE  [r EXCEPT !.at = i] \in Admin!Requests /\ [r EXCEPT !.at = i] # Admin!NoRequest
  <2>1. [r EXCEPT !.at = i] \in [v : Admin!Versions, began : Admin!Versions, kind : {k}, at : 1..Len(Admin!Work(k))]
    BY <1>1
  <2>2. [r EXCEPT !.at = i].v # 0
    BY <2>1 DEF Admin!Versions
  <2> QED BY <2>1, <2>2 DEF Admin!Requests, Admin!NoRequest
<1> QED BY <1>2, <1>3

\* A request that comes in.
LEMMA ComesIn ==
    ASSUME NEW w \in Admin!Versions, NEW b \in Admin!Versions, NEW k \in Admin!Kinds \cup {"login", "recovery"}
    PROVE  /\ [v |-> w, began |-> b, kind |-> k, at |-> 1] \in Admin!Requests
           /\ [v |-> w, began |-> b, kind |-> k, at |-> 1] # Admin!NoRequest
           /\ Admin!Work(k)[1] \in {"enter", "put"} => k = "login"
           /\ Admin!Work(k)[1] # "enter" /\ Admin!Work(k)[1] # "write"
<1>1. /\ Len(Admin!Work(k)) \in Nat \ {0}
      /\ Admin!Work(k)[1] \in {"enter", "put"} => k = "login"
      /\ Admin!Work(k)[1] # "enter" /\ Admin!Work(k)[1] # "write"
  <2>1. CASE k = "read"     BY <2>1 DEF Admin!Work
  <2>2. CASE k = "me"       BY <2>2 DEF Admin!Work
  <2>3. CASE k = "write"    BY <2>3 DEF Admin!Work
  <2>4. CASE k = "username" BY <2>4 DEF Admin!Work
  <2>5. CASE k = "password" BY <2>5 DEF Admin!Work
  <2>6. CASE k = "logout"   BY <2>6 DEF Admin!Work
  <2>7. CASE k = "login"    BY <2>7 DEF Admin!Work
  <2>8. CASE k = "recovery" BY <2>8 DEF Admin!Work
  <2> QED BY <2>1, <2>2, <2>3, <2>4, <2>5, <2>6, <2>7, <2>8 DEF Admin!Kinds
<1> DEFINE r == [v |-> w, began |-> b, kind |-> k, at |-> 1]
<1>2. r \in [v : Admin!Versions, began : Admin!Versions, kind : {k}, at : 1..Len(Admin!Work(k))]
    BY <1>1
<1>3. r.v # 0
    BY DEF Admin!Versions
<1> QED BY <1>1, <1>2, <1>3 DEF Admin!Requests, Admin!NoRequest

\* The part of the invariant that is about requests.
RequestInv ==
    /\ adminRequest \in [Places -> Admin!Requests]
    /\ AgesStart /\ Began /\ AboutToEnter /\ AboutToPut /\ Admin!WritesAreCurrent

\* What a step of the request at p may do to the requests.
Moves(p) ==
    /\ adminRequest' \in [Places -> Admin!Requests]
    /\ \A q \in Places \ {p} : adminRequest'[q] = adminRequest[q]
    /\ adminRequest'[p] # Admin!NoRequest =>
          /\ adminRequest[p] # Admin!NoRequest
          /\ adminRequest'[p].v = adminRequest[p].v /\ adminRequest'[p].began = adminRequest[p].began
    /\ Admin!Todo(p, "enter")' => Admin!Todo(p, "shared")
    /\ Admin!Todo(p, "put")' => Admin!Todo(p, "fresh") \/ Admin!Todo(p, "enter") \/ Admin!Todo(p, "memory")
    /\ Admin!Todo(p, "write")' => Admin!Todo(p, "fresh")

\* The request goes on.
LEMMA Going ==
    ASSUME NEW p \in Places, adminRequest \in [Places -> Admin!Requests], adminRequest[p] # Admin!NoRequest,
           NEW n \in {1, 3}, n = 3 => Admin!Todo(p, "memory"), Admin!Goes(p, n)
    PROVE  /\ Moves(p)
           /\ Admin!Todo(p, "put")' => Admin!Todo(p, "fresh") \/ Admin!Todo(p, "enter") \/ n = 3
<1> DEFINE r == adminRequest[p]
<1>1. /\ r \in Admin!Requests /\ r.v \in Admin!Versions /\ r.began \in Admin!Versions
      /\ r.kind \in Admin!Kinds \cup {"login", "recovery"} /\ r.at \in 1..Len(Admin!Work(r.kind))
      /\ \A i \in 1..Len(Admin!Work(r.kind)) : [r EXCEPT !.at = i] \in Admin!Requests /\ [r EXCEPT !.at = i] # Admin!NoRequest
    BY UnderWay
<1>2. CASE r.at + n > Len(Admin!Work(r.kind))
  <2>1. adminRequest' = [adminRequest EXCEPT ![p] = Admin!NoRequest]
    BY <1>2 DEF Admin!Goes
  <2>2. adminRequest'[p] = Admin!NoRequest /\ \A q \in Places \ {p} : adminRequest'[q] = adminRequest[q]
    BY <2>1
  <2>3. adminRequest' \in [Places -> Admin!Requests]
    BY <2>1 DEF Admin!Requests
  <2> QED BY <2>2, <2>3 DEF Moves, Admin!Todo
<1>3. CASE ~(r.at + n > Len(Admin!Work(r.kind)))
  <2>1. adminRequest' = [adminRequest EXCEPT ![p] = [r EXCEPT !.at = r.at + n]]
    BY <1>3 DEF Admin!Goes
  <2>2. r.at + n <= Len(Admin!Work(r.kind)) /\ (n = 3 => Admin!Work(r.kind)[r.at] = "memory")
    <3>1. Len(Admin!Work(r.kind)) \in Int
        BY <1>1 DEF Admin!Work, Admin!Kinds
    <3> QED BY <1>1, <1>3, <3>1 DEF Admin!Todo
  <2>3. /\ r.at + n \in 1..Len(Admin!Work(r.kind))
        /\ Admin!Work(r.kind)[r.at + n] = "enter" => Admin!Work(r.kind)[r.at] = "shared"
        /\ Admin!Work(r.kind)[r.at + n] = "put" => Admin!Work(r.kind)[r.at] \in {"fresh", "enter"} \/ n = 3
        /\ Admin!Work(r.kind)[r.at + n] = "write" => Admin!Work(r.kind)[r.at] = "fresh"
    BY <1>1, <2>2, WorkFollows
  <2>4. [r EXCEPT !.at = r.at + n] \in Admin!Requests
    BY <1>1, <2>3
  <2>5. adminRequest' \in [Places -> Admin!Requests] /\ \A q \in Places \ {p} : adminRequest'[q] = adminRequest[q]
    BY <2>1, <2>4
  <2>6. adminRequest'[p] = [r EXCEPT !.at = r.at + n]
    BY <2>1
  <2>7. /\ adminRequest'[p].v = r.v /\ adminRequest'[p].began = r.began
        /\ adminRequest'[p].kind = r.kind /\ adminRequest'[p].at = r.at + n
    <3>1. PICK k \in Admin!Kinds \cup {"login", "recovery"} :
             r \in [v : Admin!Versions, began : Admin!Versions, kind : {k}, at : 1..Len(Admin!Work(k))]
        BY <1>1 DEF Admin!Requests
    <3> QED BY <2>6, <3>1
  <2> QED BY <2>2, <2>3, <2>5, <2>7 DEF Moves, Admin!Todo
<1> QED BY <1>2, <1>3

\* The request is answered.
LEMMA Ending ==
    ASSUME NEW p \in Places, adminRequest \in [Places -> Admin!Requests], Admin!Ends(p)
    PROVE  Moves(p) /\ adminRequest'[p] = Admin!NoRequest
<1>1. adminRequest' = [adminRequest EXCEPT ![p] = Admin!NoRequest]
    BY DEF Admin!Ends
<1>2. adminRequest' \in [Places -> Admin!Requests]
    BY <1>1 DEF Admin!Requests
<1> QED BY <1>1, <1>2 DEF Moves, Admin!Todo

\* A step that leaves the account alone and confirms what it passes on keeps the requests.
LEMMA MoveKeeps ==
    ASSUME Admin!SessionAssumption, version \in Admin!Versions, RequestInv, NEW p \in Places, Moves(p),
           version' = version, age' = age,
           Admin!Todo(p, "shared") /\ Admin!Todo(p, "enter")' => adminRequest[p].v = version,
           Admin!Todo(p, "fresh") /\ adminRequest'[p] # Admin!NoRequest => adminRequest[p].v = version,
           Admin!Todo(p, "memory") /\ Admin!Todo(p, "put")' /\ adminRequest[p].v < version => age[adminRequest[p].v] <= IsolateTtl
    PROVE  RequestInv'
<1>1. \A q \in Places : adminRequest'[q] # Admin!NoRequest =>
          /\ adminRequest[q] # Admin!NoRequest /\ adminRequest'[q].v = adminRequest[q].v /\ adminRequest'[q].began = adminRequest[q].began
          /\ adminRequest[q].v \in Admin!Versions /\ adminRequest[q].began \in Admin!Versions
    BY UnderWay DEF Moves, RequestInv
<1>2. \A q \in Places \ {p} : \A s : Admin!Todo(q, s)' <=> Admin!Todo(q, s)
    BY DEF Moves, Admin!Todo
<1>3. AgesStart' /\ Began'
    BY <1>1 DEF RequestInv, AgesStart, Began
<1>4. AboutToEnter'
  <2> SUFFICES ASSUME NEW q \in Places, Admin!Todo(q, "enter")', adminRequest'[q].v < version
               PROVE  age[adminRequest'[q].v] = 0
    BY DEF AboutToEnter
  <2>1. adminRequest'[q] # Admin!NoRequest
    BY DEF Admin!Todo
  <2>2. CASE q = p
    BY <1>1, <2>1, <2>2 DEF Moves, Admin!Versions
  <2>3. CASE q # p
    BY <1>1, <1>2, <2>1, <2>3 DEF RequestInv, AboutToEnter
  <2> QED BY <2>2, <2>3
<1>5. AboutToPut'
  <2> SUFFICES ASSUME NEW q \in Places, Admin!Todo(q, "put")', adminRequest'[q].v < version
               PROVE  age[adminRequest'[q].v] <= IsolateTtl
    BY DEF AboutToPut
  <2>1. adminRequest'[q] # Admin!NoRequest /\ adminRequest'[q].v = adminRequest[q].v /\ adminRequest[q].v \in Admin!Versions
    BY <1>1 DEF Admin!Todo
  <2>2. CASE q = p
    <3>1. CASE Admin!Todo(p, "fresh")
        BY <2>1, <2>2, <3>1 DEF Admin!Versions
    <3>2. CASE Admin!Todo(p, "enter")
        BY <2>1, <2>2, <3>2 DEF RequestInv, AboutToEnter, Admin!SessionAssumption
    <3>3. CASE Admin!Todo(p, "memory")
        BY <2>1, <2>2, <3>3
    <3> QED BY <2>2, <3>1, <3>2, <3>3 DEF Moves
  <2>3. CASE q # p
    BY <1>2, <2>1, <2>3 DEF RequestInv, AboutToPut
  <2> QED BY <2>2, <2>3
<1>6. Admin!WritesAreCurrent'
  <2> SUFFICES ASSUME NEW q \in Places, Admin!Todo(q, "write")'
               PROVE  adminRequest'[q].v >= adminRequest'[q].began
    BY DEF Admin!WritesAreCurrent
  <2>1. adminRequest'[q] # Admin!NoRequest
    BY DEF Admin!Todo
  <2>2. CASE q = p
    BY <1>1, <2>1, <2>2 DEF Moves, RequestInv, Began, Admin!Versions
  <2>3. CASE q # p
    BY <1>1, <1>2, <2>1, <2>3 DEF RequestInv, Admin!WritesAreCurrent
  <2> QED BY <2>2, <2>3
<1> QED BY <1>3, <1>4, <1>5, <1>6 DEF RequestInv, Moves

\* A request comes in: its first step is neither an entry of the memory nor a handler, and
\* only a login puts its cookie into the edge cache at once.
LEMMA ArrivalKeeps ==
    ASSUME Admin!SessionAssumption, version \in Admin!Versions, RequestInv, NEW p \in Places, NEW w \in Admin!Versions,
           w <= version, NEW k \in Admin!Kinds \cup {"login", "recovery"}, k = "login" => w = version,
           adminRequest' = [adminRequest EXCEPT ![p] = [v |-> w, began |-> version, kind |-> k, at |-> 1]],
           version' = version, age' = age
    PROVE  RequestInv'
<1> DEFINE r == [v |-> w, began |-> version, kind |-> k, at |-> 1]
<1>1. /\ r \in Admin!Requests /\ r # Admin!NoRequest /\ Admin!Work(k)[1] # "enter" /\ Admin!Work(k)[1] # "write"
      /\ Admin!Work(k)[1] = "put" => k = "login"
    BY ComesIn
<1>2. adminRequest' \in [Places -> Admin!Requests] /\ adminRequest'[p] = r /\ \A q \in Places \ {p} : adminRequest'[q] = adminRequest[q]
    BY <1>1 DEF RequestInv
<1>3. /\ ~Admin!Todo(p, "enter")' /\ ~Admin!Todo(p, "write")' /\ (Admin!Todo(p, "put")' => w = version)
      /\ \A q \in Places \ {p} : \A s : Admin!Todo(q, s)' <=> Admin!Todo(q, s)
    BY <1>1, <1>2 DEF Admin!Todo
<1>4. AgesStart' /\ Began'
    BY <1>2 DEF RequestInv, AgesStart, Began, Admin!Versions
<1>5. AboutToEnter' /\ Admin!WritesAreCurrent'
    BY <1>2, <1>3 DEF RequestInv, AboutToEnter, Admin!WritesAreCurrent
<1>6. AboutToPut'
    BY <1>2, <1>3 DEF RequestInv, AboutToPut, Admin!Versions
<1> QED BY <1>2, <1>4, <1>5, <1>6 DEF RequestInv

\* A new version: the one before it is revoked now, and what the caches hold of it runs
\* out in time.
LEMMA RotationKeeps ==
    ASSUME Admin!SessionAssumption, SessionInv, NEW p \in Places, version' = version + 1, version < MaxVersion,
           age' = [age EXCEPT ![version] = 0], edge' = edge, isolate' = isolate,
           adminRequest' \in [Places -> Admin!Requests], \A q \in Places \ {p} : adminRequest'[q] = adminRequest[q],
           adminRequest'[p] # Admin!NoRequest => adminRequest'[p].v <= version /\ adminRequest'[p].began <= version,
           ~Admin!Todo(p, "enter")', ~Admin!Todo(p, "put")', ~Admin!Todo(p, "write")'
    PROVE  SessionInv'
<1>1. Admin!TypeOK /\ RequestInv /\ Admin!ReadsEnd
    BY DEF SessionInv, RequestInv, Admin!TypeOK
<1>2. /\ version \in Nat /\ version \in Admin!Versions /\ version' \in Admin!Versions
      /\ age \in [Admin!Versions -> Admin!Ages] /\ age' \in [Admin!Versions -> Admin!Ages]
      /\ age'[version] = 0 /\ \A v \in Admin!Versions \ {version} : age'[v] = age[v]
  <2>1. version \in Nat /\ version \in Admin!Versions /\ version' \in Admin!Versions
      BY <1>1 DEF Admin!TypeOK, Admin!Versions, Admin!SessionAssumption
  <2>2. age \in [Admin!Versions -> Admin!Ages] /\ 0 \in Admin!Ages
      BY <1>1 DEF Admin!TypeOK, Admin!Ages, Admin!SessionAssumption
  <2> QED BY <2>1, <2>2
<1>3. Admin!TypeOK'
    BY <1>1, <1>2 DEF Admin!TypeOK
<1>4. \A q \in Places : adminRequest'[q] # Admin!NoRequest => adminRequest'[q].v \in Admin!Versions /\ adminRequest'[q].began \in Admin!Versions
    BY UnderWay
<1>5. \A q \in Places \ {p} : \A s : Admin!Todo(q, s)' <=> Admin!Todo(q, s)
    BY DEF Admin!Todo
<1>6. \A q \in Places \ {p} : adminRequest'[q] # Admin!NoRequest => adminRequest'[q].v <= version /\ adminRequest'[q].began <= version
    BY <1>1 DEF RequestInv, Began
<1>7. AgesStart'
    BY <1>1, <1>2 DEF RequestInv, AgesStart, Admin!Versions
<1>8. Began'
  <2> SUFFICES ASSUME NEW q \in Places, adminRequest'[q] # Admin!NoRequest
               PROVE  adminRequest'[q].v <= version' /\ adminRequest'[q].began <= version'
    BY DEF Began
  <2>1. adminRequest'[q].v <= version /\ adminRequest'[q].began <= version
    BY <1>6
  <2> QED BY <1>2, <1>4, <2>1 DEF Admin!Versions
<1>9. ASSUME NEW q \in Places, Admin!Todo(q, "enter")' \/ Admin!Todo(q, "put")', adminRequest'[q].v < version'
      PROVE  /\ q # p /\ adminRequest'[q] = adminRequest[q] /\ adminRequest[q].v \in Admin!Versions
             /\ adminRequest[q].v = version \/ adminRequest[q].v < version
             /\ Admin!Todo(q, "enter")' => Admin!Todo(q, "enter")
             /\ Admin!Todo(q, "put")' => Admin!Todo(q, "put")
    BY <1>2, <1>4, <1>5, <1>9 DEF Admin!Todo, Admin!Versions
<1>10. AboutToEnter'
  <2> SUFFICES ASSUME NEW q \in Places, Admin!Todo(q, "enter")', adminRequest'[q].v < version'
               PROVE  age'[adminRequest'[q].v] = 0
    BY DEF AboutToEnter
  <2> QED BY <1>1, <1>2, <1>9 DEF RequestInv, AboutToEnter
<1>11. AboutToPut'
  <2> SUFFICES ASSUME NEW q \in Places, Admin!Todo(q, "put")', adminRequest'[q].v < version'
               PROVE  age'[adminRequest'[q].v] <= IsolateTtl
    BY DEF AboutToPut
  <2> QED BY <1>1, <1>2, <1>9 DEF RequestInv, AboutToPut, Admin!SessionAssumption
<1>12. Admin!WritesAreCurrent'
    BY <1>1, <1>5 DEF RequestInv, Admin!WritesAreCurrent
<1>13. Admin!ReadsEnd'
  <2> SUFFICES ASSUME NEW q \in Places, NEW v \in Admin!Versions, v < version'
               PROVE  /\ edge[q][v] > 0 => age'[v] + edge[q][v] <= EdgeTtl + IsolateTtl
                      /\ isolate[q][v] > 0 => age'[v] + isolate[q][v] <= IsolateTtl
    BY DEF Admin!ReadsEnd
  <2>1. edge[q][v] \in 0..EdgeTtl /\ isolate[q][v] \in 0..IsolateTtl
    BY <1>1 DEF Admin!TypeOK
  <2>2. CASE v = version
    BY <1>2, <2>1, <2>2 DEF Admin!SessionAssumption
  <2>3. CASE v # version
    BY <1>1, <1>2, <2>3 DEF Admin!ReadsEnd, Admin!Versions
  <2> QED BY <2>2, <2>3
<1> QED BY <1>3, <1>7, <1>8, <1>10, <1>11, <1>12, <1>13 DEF SessionInv

\* The caches stand as they are.
CachesStand == version' = version /\ age' = age /\ edge' = edge /\ isolate' = isolate

LEMMA CachesKept ==
    ASSUME SessionInv, RequestInv', CachesStand
    PROVE  SessionInv'
<1>1. Admin!TypeOK'
    BY DEF SessionInv, Admin!TypeOK, RequestInv, CachesStand
<1>2. Admin!ReadsEnd'
    BY DEF SessionInv, Admin!ReadsEnd, CachesStand
<1> QED BY <1>1, <1>2 DEF SessionInv, RequestInv

\* The invariant gives its parts.
LEMMA SessionParts ==
    ASSUME SessionInv
    PROVE  /\ Admin!TypeOK /\ RequestInv /\ Admin!ReadsEnd /\ version \in Admin!Versions
           /\ adminRequest \in [Places -> Admin!Requests]
BY DEF SessionInv, RequestInv, Admin!TypeOK

\* A request comes in, or somebody logs in.
LEMMA SessionArrives ==
    ASSUME Admin!SessionAssumption, SessionInv, NEW p \in Places, NEW w \in Admin!Versions, NEW k \in Admin!Kinds, Admin!Arrives(p, w, k)
    PROVE  SessionInv'
<1>1. /\ k # "login" /\ k \in Admin!Kinds \cup {"login", "recovery"} /\ w <= version /\ CachesStand
      /\ adminRequest' = [adminRequest EXCEPT ![p] = [v |-> w, began |-> version, kind |-> k, at |-> 1]]
    BY DEF Admin!Arrives, Admin!Kinds, CachesStand
<1>2. version \in Admin!Versions /\ RequestInv /\ version' = version /\ age' = age
    BY <1>1, SessionParts DEF CachesStand
<1>3. RequestInv'
    BY <1>1, <1>2, ArrivalKeeps
<1> QED BY <1>1, <1>3, CachesKept

LEMMA SessionLogsIn ==
    ASSUME Admin!SessionAssumption, SessionInv, NEW p \in Places, Admin!LogsIn(p)
    PROVE  SessionInv'
<1>1. CachesStand /\ version <= version
    BY SessionParts DEF Admin!LogsIn, CachesStand, Admin!Versions
<1>2. RequestInv'
    BY <1>1, SessionParts, ArrivalKeeps DEF Admin!LogsIn
<1> QED BY <1>1, <1>2, CachesKept

\* The steps that only ask: an entry of the edge cache, the memory, SQL.
LEMMA SessionEdge ==
    ASSUME Admin!SessionAssumption, SessionInv, NEW p \in Places, Admin!Edge(p)
    PROVE  SessionInv'
<1>1. CachesStand /\ adminRequest[p] # Admin!NoRequest
    BY DEF Admin!Edge, CachesStand, Admin!Todo
<1>2. Moves(p)
    BY <1>1, SessionParts, Going, Ending DEF Admin!Edge, Admin!Rest
<1>3. ~Admin!Todo(p, "shared") /\ ~Admin!Todo(p, "fresh") /\ ~Admin!Todo(p, "memory")
    BY DEF Admin!Edge, Admin!Todo
<1>4. RequestInv'
    BY <1>1, <1>2, <1>3, SessionParts, MoveKeeps DEF CachesStand
<1> QED BY <1>1, <1>4, CachesKept

LEMMA SessionMemory ==
    ASSUME Admin!SessionAssumption, SessionInv, NEW p \in Places, Admin!Memory(p)
    PROVE  SessionInv'
<1> DEFINE w == adminRequest[p].v
<1>1. CachesStand /\ adminRequest[p] # Admin!NoRequest /\ Admin!Todo(p, "memory") /\ ~Admin!Todo(p, "shared") /\ ~Admin!Todo(p, "fresh")
      /\ ~Admin!Todo(p, "enter")
    BY DEF Admin!Memory, CachesStand, Admin!Todo
<1>2. PICK n \in {1, 3} : Admin!Goes(p, n) /\ (n = 3 => isolate[p][w] > 0)
    BY DEF Admin!Memory
<1>3. Moves(p) /\ (Admin!Todo(p, "put")' => n = 3)
    BY <1>1, <1>2, SessionParts, Going
<1>4. w \in Admin!Versions
    BY <1>1, SessionParts, UnderWay
<1>5. ASSUME isolate[p][w] > 0, w < version PROVE age[w] <= IsolateTtl
  <2>1. age[w] + isolate[p][w] <= IsolateTtl
    BY <1>4, <1>5, SessionParts DEF Admin!ReadsEnd
  <2>2. age[w] \in Int /\ isolate[p][w] \in Int /\ IsolateTtl \in Int
    BY <1>4, SessionParts DEF Admin!TypeOK, Admin!Ages, Admin!SessionAssumption
  <2> QED BY <1>5, <2>1, <2>2
<1>6. RequestInv'
    BY <1>1, <1>2, <1>3, <1>5, SessionParts, MoveKeeps DEF CachesStand
<1> QED BY <1>1, <1>6, CachesKept

LEMMA SessionFresh ==
    ASSUME Admin!SessionAssumption, SessionInv, NEW p \in Places, Admin!Fresh(p)
    PROVE  SessionInv'
<1>1. CachesStand /\ adminRequest[p] # Admin!NoRequest
    BY DEF Admin!Fresh, CachesStand, Admin!Todo
<1>2. Moves(p) /\ (adminRequest[p].v # version => adminRequest'[p] = Admin!NoRequest)
    BY <1>1, SessionParts, Going, Ending DEF Admin!Fresh, Admin!Rest
<1>3. ~Admin!Todo(p, "shared") /\ ~Admin!Todo(p, "memory")
    BY DEF Admin!Fresh, Admin!Todo
<1>4. RequestInv'
    BY <1>1, <1>2, <1>3, SessionParts, MoveKeeps DEF CachesStand
<1> QED BY <1>1, <1>4, CachesKept

LEMMA SessionShared ==
    ASSUME Admin!SessionAssumption, SessionInv, NEW p \in Places, Admin!Shared(p)
    PROVE  SessionInv'
<1>1. CachesStand /\ adminRequest[p] # Admin!NoRequest
    BY DEF Admin!Shared, CachesStand, Admin!Todo
<1>2. Moves(p) /\ (adminRequest[p].v # version => ~Admin!Todo(p, "enter")')
    BY <1>1, SessionParts, Going, Ending DEF Admin!Shared, Admin!Rest, Admin!Todo
<1>3. ~Admin!Todo(p, "fresh") /\ ~Admin!Todo(p, "memory")
    BY DEF Admin!Shared, Admin!Todo
<1>4. RequestInv'
    BY <1>1, <1>2, <1>3, SessionParts, MoveKeeps DEF CachesStand
<1> QED BY <1>1, <1>4, CachesKept

LEMMA SessionWrite ==
    ASSUME Admin!SessionAssumption, SessionInv, NEW p \in Places, Admin!Write(p)
    PROVE  SessionInv'
<1>1. CachesStand /\ adminRequest[p] # Admin!NoRequest
    BY DEF Admin!Write, CachesStand, Admin!Todo
<1>2. Moves(p)
    BY <1>1, SessionParts, Going DEF Admin!Write, Admin!Rest
<1>3. ~Admin!Todo(p, "shared") /\ ~Admin!Todo(p, "fresh") /\ ~Admin!Todo(p, "memory")
    BY DEF Admin!Write, Admin!Todo
<1>4. RequestInv'
    BY <1>1, <1>2, <1>3, SessionParts, MoveKeeps DEF CachesStand
<1> QED BY <1>1, <1>4, CachesKept

\* The steps that write the caches.
LEMMA SessionEnter ==
    ASSUME Admin!SessionAssumption, SessionInv, NEW p \in Places, Admin!Enter(p)
    PROVE  SessionInv'
<1> DEFINE w == adminRequest[p].v
<1>1. /\ version' = version /\ age' = age /\ edge' = edge /\ adminRequest[p] # Admin!NoRequest
      /\ isolate' = [isolate EXCEPT ![p][w] = IsolateTtl]
    BY DEF Admin!Enter, Admin!Todo
<1>2. Moves(p)
    BY <1>1, SessionParts, Going DEF Admin!Enter, Admin!Rest
<1>3. ~Admin!Todo(p, "shared") /\ ~Admin!Todo(p, "fresh") /\ ~Admin!Todo(p, "memory")
    BY DEF Admin!Enter, Admin!Todo
<1>4. RequestInv'
    BY <1>1, <1>2, <1>3, SessionParts, MoveKeeps
<1>5. w \in Admin!Versions /\ (w < version => age[w] = 0)
    BY <1>1, SessionParts, UnderWay DEF Admin!Enter, RequestInv, AboutToEnter
<1>6. /\ isolate' \in [Places -> [Admin!Versions -> 0..IsolateTtl]]
      /\ \A q \in Places, v \in Admin!Versions :
            isolate'[q][v] = IF q = p /\ v = w THEN IsolateTtl ELSE isolate[q][v]
    BY <1>1, <1>5, SessionParts DEF Admin!TypeOK, Admin!SessionAssumption
<1>7. Admin!TypeOK'
    BY <1>1, <1>4, <1>6, SessionParts DEF Admin!TypeOK, RequestInv
<1>8. Admin!ReadsEnd'
  <2> SUFFICES ASSUME NEW q \in Places, NEW v \in Admin!Versions, v < version
               PROVE  /\ edge[q][v] > 0 => age[v] + edge[q][v] <= EdgeTtl + IsolateTtl
                      /\ isolate'[q][v] > 0 => age[v] + isolate'[q][v] <= IsolateTtl
    BY <1>1 DEF Admin!ReadsEnd
  <2>1. CASE q = p /\ v = w
    BY <1>5, <1>6, <2>1, SessionParts DEF Admin!ReadsEnd, Admin!SessionAssumption
  <2>2. CASE ~(q = p /\ v = w)
    BY <1>6, <2>2, SessionParts DEF Admin!ReadsEnd
  <2> QED BY <2>1, <2>2
<1> QED BY <1>4, <1>7, <1>8 DEF SessionInv, RequestInv

LEMMA SessionPut ==
    ASSUME Admin!SessionAssumption, SessionInv, NEW p \in Places, Admin!Put(p)
    PROVE  SessionInv'
<1> DEFINE w == adminRequest[p].v
<1>1. /\ version' = version /\ age' = age /\ isolate' = isolate /\ adminRequest[p] # Admin!NoRequest
      /\ edge' = [edge EXCEPT ![p][w] = EdgeTtl]
    BY DEF Admin!Put, Admin!Todo
<1>2. Moves(p)
    BY <1>1, SessionParts, Going DEF Admin!Put, Admin!Rest
<1>3. ~Admin!Todo(p, "shared") /\ ~Admin!Todo(p, "fresh") /\ ~Admin!Todo(p, "memory")
    BY DEF Admin!Put, Admin!Todo
<1>4. RequestInv'
    BY <1>1, <1>2, <1>3, SessionParts, MoveKeeps
<1>5. w \in Admin!Versions /\ (w < version => age[w] <= IsolateTtl)
    BY <1>1, SessionParts, UnderWay DEF Admin!Put, RequestInv, AboutToPut
<1>6. /\ edge' \in [Places -> [Admin!Versions -> 0..EdgeTtl]]
      /\ \A q \in Places, v \in Admin!Versions :
            edge'[q][v] = IF q = p /\ v = w THEN EdgeTtl ELSE edge[q][v]
    BY <1>1, <1>5, SessionParts DEF Admin!TypeOK, Admin!SessionAssumption
<1>7. Admin!TypeOK'
    BY <1>1, <1>4, <1>6, SessionParts DEF Admin!TypeOK, RequestInv
<1>8. Admin!ReadsEnd'
  <2> SUFFICES ASSUME NEW q \in Places, NEW v \in Admin!Versions, v < version
               PROVE  /\ edge'[q][v] > 0 => age[v] + edge'[q][v] <= EdgeTtl + IsolateTtl
                      /\ isolate[q][v] > 0 => age[v] + isolate[q][v] <= IsolateTtl
    BY <1>1 DEF Admin!ReadsEnd
  <2>1. CASE q = p /\ v = w
    <3>1. age[v] \in Int /\ EdgeTtl \in Int /\ IsolateTtl \in Int
        BY SessionParts DEF Admin!TypeOK, Admin!Ages, Admin!SessionAssumption
    <3> QED BY <1>5, <1>6, <2>1, <3>1, SessionParts DEF Admin!ReadsEnd
  <2>2. CASE ~(q = p /\ v = w)
    BY <1>6, <2>2, SessionParts DEF Admin!ReadsEnd
  <2> QED BY <2>1, <2>2
<1> QED BY <1>4, <1>7, <1>8 DEF SessionInv, RequestInv

\* What only takes entries out of the caches.
LEMMA LessIsKept ==
    ASSUME Admin!SessionAssumption, SessionInv, RequestInv', version' = version, age' = age,
           edge' \in [Places -> [Admin!Versions -> 0..EdgeTtl]],
           isolate' \in [Places -> [Admin!Versions -> 0..IsolateTtl]],
           \A q \in Places, v \in Admin!Versions : edge'[q][v] \in {0, edge[q][v]},
           \A q \in Places, v \in Admin!Versions : isolate'[q][v] \in {0, isolate[q][v]}
    PROVE  SessionInv'
<1>1. Admin!TypeOK'
    BY SessionParts DEF Admin!TypeOK, RequestInv
<1>2. Admin!ReadsEnd'
  <2> SUFFICES ASSUME NEW q \in Places, NEW v \in Admin!Versions, v < version
               PROVE  /\ edge'[q][v] > 0 => age[v] + edge'[q][v] <= EdgeTtl + IsolateTtl
                      /\ isolate'[q][v] > 0 => age[v] + isolate'[q][v] <= IsolateTtl
    BY DEF Admin!ReadsEnd
  <2>1. /\ edge[q][v] > 0 => age[v] + edge[q][v] <= EdgeTtl + IsolateTtl
        /\ isolate[q][v] > 0 => age[v] + isolate[q][v] <= IsolateTtl
    BY SessionParts DEF Admin!ReadsEnd
  <2>2. edge'[q][v] \in {0, edge[q][v]} /\ isolate'[q][v] \in {0, isolate[q][v]}
    OBVIOUS
  <2> QED BY <2>1, <2>2
<1> QED BY <1>1, <1>2 DEF SessionInv, RequestInv

LEMMA SessionPurge ==
    ASSUME Admin!SessionAssumption, SessionInv, NEW p \in Places, Admin!Purge(p)
    PROVE  SessionInv'
<1> DEFINE w == adminRequest[p].v
<1>1. /\ version' = version /\ age' = age /\ isolate' = isolate /\ adminRequest[p] # Admin!NoRequest
      /\ edge' = [edge EXCEPT ![p][w] = 0]
    BY DEF Admin!Purge, Admin!Todo
<1>2. Moves(p)
    BY <1>1, SessionParts, Going DEF Admin!Purge, Admin!Rest
<1>3. ~Admin!Todo(p, "shared") /\ ~Admin!Todo(p, "fresh") /\ ~Admin!Todo(p, "memory")
    BY DEF Admin!Purge, Admin!Todo
<1>4. RequestInv'
    BY <1>1, <1>2, <1>3, SessionParts, MoveKeeps
<1>5. /\ edge' \in [Places -> [Admin!Versions -> 0..EdgeTtl]]
      /\ \A q \in Places, v \in Admin!Versions : edge'[q][v] \in {0, edge[q][v]}
  <2>1. w \in Admin!Versions
    BY <1>1, SessionParts, UnderWay
  <2>2. edge \in [Places -> [Admin!Versions -> 0..EdgeTtl]]
    BY SessionParts DEF Admin!TypeOK
  <2>3. \A q \in Places, v \in Admin!Versions : edge'[q][v] = IF q = p /\ v = w THEN 0 ELSE edge[q][v]
    BY <1>1, <2>1, <2>2
  <2> QED BY <1>1, <2>1, <2>2, <2>3 DEF Admin!SessionAssumption
<1>6. isolate' \in [Places -> [Admin!Versions -> 0..IsolateTtl]]
    BY <1>1, SessionParts DEF Admin!TypeOK
<1> QED BY <1>1, <1>4, <1>5, <1>6, LessIsKept

LEMMA SessionForget ==
    ASSUME Admin!SessionAssumption, SessionInv, NEW p \in Places, Admin!Forget(p)
    PROVE  SessionInv'
<1>1. /\ version' = version /\ age' = age /\ edge' = edge /\ adminRequest[p] # Admin!NoRequest
      /\ isolate' = [isolate EXCEPT ![p] = [v \in Admin!Versions |-> 0]]
    BY DEF Admin!Forget, Admin!Todo
<1>2. Moves(p)
    BY <1>1, SessionParts, Going DEF Admin!Forget, Admin!Rest
<1>3. ~Admin!Todo(p, "shared") /\ ~Admin!Todo(p, "fresh") /\ ~Admin!Todo(p, "memory")
    BY DEF Admin!Forget, Admin!Todo
<1>4. RequestInv'
    BY <1>1, <1>2, <1>3, SessionParts, MoveKeeps
<1>5. /\ isolate' \in [Places -> [Admin!Versions -> 0..IsolateTtl]]
      /\ \A q \in Places, v \in Admin!Versions : isolate'[q][v] \in {0, isolate[q][v]}
    BY <1>1, SessionParts DEF Admin!TypeOK, Admin!SessionAssumption
<1>6. edge' \in [Places -> [Admin!Versions -> 0..EdgeTtl]]
    BY <1>1, SessionParts DEF Admin!TypeOK
<1> QED BY <1>1, <1>4, <1>5, <1>6, LessIsKept

LEMMA SessionEvict ==
    ASSUME Admin!SessionAssumption, SessionInv, NEW p \in Places, Admin!Evict(p)
    PROVE  SessionInv'
<1>1. version' = version /\ age' = age /\ adminRequest' = adminRequest
    BY DEF Admin!Evict
<1>2. RequestInv'
    BY <1>1, SessionParts DEF RequestInv, AgesStart, Began, AboutToEnter, AboutToPut, Admin!WritesAreCurrent, Admin!Todo
<1>3. edge \in [Places -> [Admin!Versions -> 0..EdgeTtl]] /\ isolate \in [Places -> [Admin!Versions -> 0..IsolateTtl]]
    BY SessionParts DEF Admin!TypeOK
<1>4. CASE edge' = [edge EXCEPT ![p] = [v \in Admin!Versions |-> 0]] /\ isolate' = isolate
  <2>1. /\ edge' \in [Places -> [Admin!Versions -> 0..EdgeTtl]]
        /\ \A q \in Places, v \in Admin!Versions : edge'[q][v] \in {0, edge[q][v]}
    BY <1>3, <1>4 DEF Admin!SessionAssumption
  <2> QED BY <1>1, <1>2, <1>3, <1>4, <2>1, LessIsKept
<1>5. CASE isolate' = [isolate EXCEPT ![p] = [v \in Admin!Versions |-> 0]] /\ edge' = edge
  <2>1. /\ isolate' \in [Places -> [Admin!Versions -> 0..IsolateTtl]]
        /\ \A q \in Places, v \in Admin!Versions : isolate'[q][v] \in {0, isolate[q][v]}
    BY <1>3, <1>5 DEF Admin!SessionAssumption
  <2> QED BY <1>1, <1>2, <1>3, <1>5, <2>1, LessIsKept
<1> QED BY <1>4, <1>5 DEF Admin!Evict

\* The steps that give the account a new version.
LEMMA SessionRotate ==
    ASSUME Admin!SessionAssumption, SessionInv, NEW p \in Places, Admin!Rotate(p)
    PROVE  SessionInv'
<1>1. /\ adminRequest[p] # Admin!NoRequest /\ edge' = edge /\ isolate' = isolate
      /\ ~Admin!Todo(p, "shared") /\ ~Admin!Todo(p, "fresh") /\ ~Admin!Todo(p, "memory") /\ ~Admin!Todo(p, "enter")
    BY DEF Admin!Rotate, Admin!Todo
<1>2. CASE version = MaxVersion
  <2>1. CachesStand /\ Moves(p)
    BY <1>1, <1>2, SessionParts, Ending DEF Admin!Rotate, CachesStand
  <2>2. RequestInv'
    BY <1>1, <2>1, SessionParts, MoveKeeps DEF CachesStand
  <2> QED BY <2>1, <2>2, CachesKept
<1>3. CASE version # MaxVersion
  <2>1. version' = version + 1 /\ age' = [age EXCEPT ![version] = 0] /\ Admin!Goes(p, 1)
    BY <1>3 DEF Admin!Rotate, Admin!Rest
  <2>2. Moves(p)
    BY <1>1, <2>1, SessionParts, Going
  <2>3. version < MaxVersion
    BY <1>3, SessionParts DEF Admin!Versions, Admin!SessionAssumption
  <2>4. /\ adminRequest' \in [Places -> Admin!Requests] /\ \A q \in Places \ {p} : adminRequest'[q] = adminRequest[q]
        /\ ~Admin!Todo(p, "enter")' /\ ~Admin!Todo(p, "put")' /\ ~Admin!Todo(p, "write")'
    BY <1>1, <2>2 DEF Moves
  <2>5. adminRequest'[p] # Admin!NoRequest => adminRequest'[p].v <= version /\ adminRequest'[p].began <= version
    BY <1>1, <2>2, SessionParts DEF Moves, RequestInv, Began
  <2> QED BY <1>1, <2>1, <2>3, <2>4, <2>5, RotationKeeps
<1> QED BY <1>2, <1>3

LEMMA SessionRecover ==
    ASSUME Admin!SessionAssumption, SessionInv, NEW p \in Places, Admin!Recover(p)
    PROVE  SessionInv'
<1> DEFINE r == [v |-> version, began |-> version, kind |-> "recovery", at |-> 1]
<1>1. /\ version' = version + 1 /\ age' = [age EXCEPT ![version] = 0] /\ edge' = edge /\ isolate' = isolate
      /\ adminRequest' = [adminRequest EXCEPT ![p] = r] /\ version < MaxVersion
    BY DEF Admin!Recover
<1>2. r \in Admin!Requests
    BY SessionParts, ComesIn
<1>3. /\ adminRequest' \in [Places -> Admin!Requests] /\ \A q \in Places \ {p} : adminRequest'[q] = adminRequest[q]
      /\ adminRequest'[p] = r
    BY <1>1, <1>2, SessionParts
<1>4. ~Admin!Todo(p, "enter")' /\ ~Admin!Todo(p, "put")' /\ ~Admin!Todo(p, "write")'
    BY <1>3 DEF Admin!Todo, Admin!Work
<1>5. adminRequest'[p].v <= version /\ adminRequest'[p].began <= version
    BY <1>3, SessionParts DEF Admin!Versions
<1> QED BY <1>1, <1>3, <1>4, <1>5, RotationKeeps

\* Time passes: what the caches still hold gets shorter by what the age gets longer.
LEMMA SessionTick ==
    ASSUME Admin!SessionAssumption, SessionInv, Admin!Tick
    PROVE  SessionInv'
<1>1. /\ version' = version /\ adminRequest' = adminRequest /\ \A p \in Places : adminRequest[p] = Admin!NoRequest
      /\ age' = [v \in Admin!Versions |-> IF v < version /\ age[v] <= EdgeTtl + IsolateTtl THEN age[v] + 1 ELSE age[v]]
      /\ edge' = [p \in Places |-> [v \in Admin!Versions |-> Admin!Older(edge[p][v])]]
      /\ isolate' = [p \in Places |-> [v \in Admin!Versions |-> Admin!Older(isolate[p][v])]]
    BY DEF Admin!Tick
<1>2. \A p \in Places, v \in Admin!Versions :
          /\ edge[p][v] \in 0..EdgeTtl /\ isolate[p][v] \in 0..IsolateTtl /\ age[v] \in Admin!Ages
    BY SessionParts DEF Admin!TypeOK
<1>3. edge' \in [Places -> [Admin!Versions -> 0..EdgeTtl]]
    BY <1>1, <1>2 DEF Admin!Older, Admin!SessionAssumption
<1>4. isolate' \in [Places -> [Admin!Versions -> 0..IsolateTtl]]
    BY <1>1, <1>2 DEF Admin!Older, Admin!SessionAssumption
<1>5. age' \in [Admin!Versions -> Admin!Ages]
  <2>1. age \in [Admin!Versions -> Admin!Ages]
    BY SessionParts DEF Admin!TypeOK
  <2> QED BY <1>1, <2>1 DEF Admin!Ages, Admin!SessionAssumption
<1>6. Admin!TypeOK'
    BY <1>1, <1>3, <1>4, <1>5, SessionParts DEF Admin!TypeOK
<1>7. AgesStart'
    BY <1>1, SessionParts DEF RequestInv, AgesStart, Admin!Versions
<1>8. Began' /\ AboutToEnter' /\ AboutToPut' /\ Admin!WritesAreCurrent'
    BY <1>1 DEF Began, AboutToEnter, AboutToPut, Admin!WritesAreCurrent, Admin!Todo
<1>9. Admin!ReadsEnd'
  <2> SUFFICES ASSUME NEW q \in Places, NEW v \in Admin!Versions, v < version
               PROVE  /\ edge'[q][v] > 0 => age'[v] + edge'[q][v] <= EdgeTtl + IsolateTtl
                      /\ isolate'[q][v] > 0 => age'[v] + isolate'[q][v] <= IsolateTtl
    BY <1>1 DEF Admin!ReadsEnd
  <2>1. /\ edge[q][v] > 0 => age[v] + edge[q][v] <= EdgeTtl + IsolateTtl
        /\ isolate[q][v] > 0 => age[v] + isolate[q][v] <= IsolateTtl
    BY SessionParts DEF Admin!ReadsEnd
  <2>2. edge'[q][v] = Admin!Older(edge[q][v]) /\ isolate'[q][v] = Admin!Older(isolate[q][v])
    BY <1>1
  <2>3. age[v] \in Int /\ age'[v] <= age[v] + 1 /\ age'[v] \in Int
    BY <1>1, <1>2 DEF Admin!Ages
  <2>4. /\ edge[q][v] \in 0..EdgeTtl /\ isolate[q][v] \in 0..IsolateTtl
        /\ EdgeTtl \in Nat /\ IsolateTtl \in Nat
    BY <1>2 DEF Admin!SessionAssumption
  <2> QED BY <2>1, <2>2, <2>3, <2>4 DEF Admin!Older
<1> QED BY <1>6, <1>7, <1>8, <1>9 DEF SessionInv

-----------------------------------------------------------------------------
(* Theorems *)

\* The sessions keep the inductive invariant, for any number of data centres and versions
\* and any lives of the two caches (validateAdminSession, the edge caches of index.ts).
THEOREM SessionInvariant == Admin!SessionAssumption => (Admin!Spec => []SessionInv)
<1> SUFFICES ASSUME Admin!SessionAssumption PROVE Admin!Spec => []SessionInv
    OBVIOUS
<1>1. Admin!Init => SessionInv
  <2> SUFFICES ASSUME Admin!Init PROVE SessionInv
    OBVIOUS
  <2>1. Admin!TypeOK
    BY DEF Admin!Init, Admin!TypeOK, Admin!Versions, Admin!Ages, Admin!Requests, Admin!SessionAssumption
  <2>2. AgesStart /\ Began /\ AboutToEnter /\ AboutToPut /\ Admin!WritesAreCurrent
    BY DEF Admin!Init, AgesStart, Began, AboutToEnter, AboutToPut, Admin!WritesAreCurrent, Admin!Todo
  <2>3. Admin!ReadsEnd
    BY DEF Admin!Init, Admin!ReadsEnd, Admin!Versions
  <2> QED BY <2>1, <2>2, <2>3 DEF SessionInv
<1>2. SessionInv /\ [Admin!Next]_Admin!vars => SessionInv'
  <2> SUFFICES ASSUME SessionInv, [Admin!Next]_Admin!vars PROVE SessionInv'
    OBVIOUS
  <2>1. ASSUME NEW p \in Places, NEW v \in Admin!Versions, NEW kind \in Admin!Kinds, Admin!Arrives(p, v, kind) PROVE SessionInv'
    BY <2>1, SessionArrives
  <2>2. ASSUME NEW p \in Places, Admin!LogsIn(p) \/ Admin!Edge(p) \/ Admin!Memory(p) \/ Admin!Fresh(p) \/ Admin!Shared(p) \/ Admin!Write(p)
        PROVE  SessionInv'
    BY <2>2, SessionLogsIn, SessionEdge, SessionMemory, SessionFresh, SessionShared, SessionWrite
  <2>3. ASSUME NEW p \in Places, Admin!Enter(p) \/ Admin!Put(p) \/ Admin!Purge(p) \/ Admin!Forget(p) \/ Admin!Evict(p) PROVE SessionInv'
    BY <2>3, SessionEnter, SessionPut, SessionPurge, SessionForget, SessionEvict
  <2>4. ASSUME NEW p \in Places, Admin!Rotate(p) \/ Admin!Recover(p) PROVE SessionInv'
    BY <2>4, SessionRotate, SessionRecover
  <2>5. CASE Admin!Tick
    BY <2>5, SessionTick
  <2>6. CASE UNCHANGED Admin!vars
    <3>1. RequestInv' /\ CachesStand
        BY <2>6, SessionParts DEF Admin!vars, CachesStand, RequestInv, AgesStart, Began, AboutToEnter, AboutToPut,
                           Admin!WritesAreCurrent, Admin!Todo
    <3> QED BY <3>1, CachesKept
  <2> QED BY <2>1, <2>2, <2>3, <2>4, <2>5, <2>6 DEF Admin!Next
<1> QED BY <1>1, <1>2, PTL DEF Admin!Spec

\* No handler does the write of a cookie that was revoked before its request came in
\* (validateAdminSession with fresh).
THEOREM WritesStayCurrent == Admin!SessionAssumption => (Admin!Spec => []Admin!WritesAreCurrent)
<1>1. SessionInv => Admin!WritesAreCurrent
    BY DEF SessionInv
<1> QED BY <1>1, SessionInvariant, PTL

\* A revoked cookie is accepted for reads no longer than the lives of both caches after one
\* another, at every data centre (getAdminSessionEdgeCache, validateAdminSession).
THEOREM RevokedReadsEnd == Admin!SessionAssumption => (Admin!Spec => []Admin!ReadsEnd)
<1>1. SessionInv => Admin!ReadsEnd
    BY DEF SessionInv
<1> QED BY <1>1, SessionInvariant, PTL

-----------------------------------------------------------------------------
(* The second factor: the inductive invariant and the proofs *)

StoredSecrets == [of : Nat, key : Nat]
SignedTokens == [v : Nat, at : Nat, secret : StoredSecrets]
FactorOperations == [version : Nat \ {0}, purpose : {"login", "step-up"}, token : SignedTokens, factor : Mfa!Factors]
Receipt == [op : FactorOperations, at : Nat]

\* A request before SQL is asked for its factor and until its answer; a protected operation;
\* one that enables the second factor.
Submitted ==
    [kind : {"login", "step-up"}, token : SignedTokens, version : Nat \ {0}, factor : Mfa!Factors,
     secret : StoredSecrets, key : Nat, valid : BOOLEAN, todo : {"encrypt", "consume", "answer"}, at : Nat]
Started ==
    [kind : {"codes", "disable", "password"}, version : Nat, factor : [secret : Nat, step : {-1}], todo : {"write"}]
Enabling ==
    [kind : {"enable"}, version : Nat, factor : [secret : Nat, step : Nat], secret : StoredSecrets, todo : {"write"}]

MfaTypes ==
    /\ mfaNow \in Nat /\ key \in Nat /\ made \in Nat
    /\ account \in [version : Nat \ {0}, secret : StoredSecrets, lastStep : Int, codes : Nat]
    /\ browser \in [cookie : SignedTokens, challenge : SignedTokens, stepUp : SignedTokens, setup : SignedTokens]
    /\ mfaRequest \in [Tabs -> {Mfa!Idle} \cup Submitted \cup Started \cup Enabling]
    /\ receipts \subseteq Receipt

\* A factor with a receipt of the current version cannot be accepted again.
Spent(c) ==
    /\ c.op.version <= account.version
    /\ c.op.version = account.version =>
         IF c.op.factor.step >= 0 THEN c.op.factor.step <= account.lastStep
         ELSE c.op.factor.secret # account.codes

\* A step-up of version v that was confirmed at time at.
Confirmed(v, at) == \E c \in receipts : c.op.purpose = "step-up" /\ c.op.version = v /\ c.at = at

AnswersConfirmed ==
    \A t \in Tabs : (mfaRequest[t] \in Submitted /\ mfaRequest[t].todo = "answer" /\ mfaRequest[t].kind = "step-up")
                        => Confirmed(mfaRequest[t].version, mfaRequest[t].at)

MfaInv ==
    /\ MfaTypes
    /\ \A c \in receipts : Spent(c)
    /\ Mfa!FactorConfirmsOneOperation
    /\ AnswersConfirmed
    /\ browser.stepUp.v > 0 => Confirmed(browser.stepUp.v, browser.stepUp.at)
    /\ Mfa!SecretIsNewest

-----------------------------------------------------------------------------
\* Receipts stay confirmations.
LEMMA ConfirmedStays ==
    ASSUME receipts \subseteq receipts', NEW v, NEW at, Confirmed(v, at)
    PROVE  Confirmed(v, at)'
  BY DEF Confirmed

\* A step that leaves the receipts and what SQL compares with alone keeps the factors spent.
LEMMA FactorsStay ==
    ASSUME MfaInv, receipts' = receipts, account'.version = account.version,
           account'.lastStep = account.lastStep, account'.codes = account.codes
    PROVE  (\A c \in receipts : Spent(c))' /\ Mfa!FactorConfirmsOneOperation'
  BY DEF MfaInv, Spent, Mfa!FactorConfirmsOneOperation

\* A step that ends or begins a request, other than with the answer of a step-up.
LEMMA AnswersStay ==
    ASSUME MfaInv, receipts \subseteq receipts', NEW t \in Tabs, NEW r,
           mfaRequest' = [mfaRequest EXCEPT ![t] = r],
           ~(r \in Submitted /\ r.todo = "answer" /\ r.kind = "step-up")
    PROVE  AnswersConfirmed'
<1> SUFFICES ASSUME NEW q \in Tabs, mfaRequest'[q] \in Submitted, mfaRequest'[q].todo = "answer", mfaRequest'[q].kind = "step-up"
             PROVE  Confirmed(mfaRequest[q].version, mfaRequest[q].at)'
    BY DEF AnswersConfirmed
<1>1. mfaRequest \in [Tabs -> {Mfa!Idle} \cup Submitted \cup Started \cup Enabling]
    BY DEF MfaInv, MfaTypes
<1>2. q # t /\ mfaRequest'[q] = mfaRequest[q]
    BY <1>1
<1> QED BY <1>2, ConfirmedStays DEF MfaInv, AnswersConfirmed

\* A step that leaves the requests alone.
LEMMA NoAnswers ==
    ASSUME MfaInv, receipts \subseteq receipts', mfaRequest' = mfaRequest
    PROVE  AnswersConfirmed'
<1> SUFFICES ASSUME NEW q \in Tabs, mfaRequest'[q] \in Submitted, mfaRequest'[q].todo = "answer", mfaRequest'[q].kind = "step-up"
             PROVE  Confirmed(mfaRequest[q].version, mfaRequest[q].at)'
    BY DEF AnswersConfirmed
<1> QED BY ConfirmedStays DEF MfaInv, AnswersConfirmed

\* The step-up token stays confirmed.
LEMMA StepUpStays ==
    ASSUME MfaInv, receipts \subseteq receipts', browser'.stepUp = browser.stepUp
    PROVE  (browser.stepUp.v > 0 => Confirmed(browser.stepUp.v, browser.stepUp.at))'
<1> SUFFICES ASSUME browser'.stepUp.v > 0 PROVE Confirmed(browser.stepUp.v, browser.stepUp.at)'
    OBVIOUS
<1>1. Confirmed(browser.stepUp.v, browser.stepUp.at)
    BY DEF MfaInv
<1> QED BY <1>1, ConfirmedStays

LEMMA MfaPassword ==
    ASSUME Mfa!MfaAssumption, MfaInv, NEW t \in Tabs, Mfa!Password(t)
    PROVE  MfaInv'
<1> USE DEF Mfa!Password
<1>1. MfaTypes'
  <2>1. Mfa!Signed(account.version, mfaNow) \in SignedTokens
      BY DEF MfaInv, MfaTypes, Mfa!Signed, Mfa!NoSecret, SignedTokens, StoredSecrets
  <2> QED BY <2>1 DEF MfaInv, MfaTypes
<1>2. browser'.stepUp = browser.stepUp
    BY DEF MfaInv, MfaTypes
<1> QED BY <1>1, <1>2, FactorsStay, NoAnswers, StepUpStays DEF MfaInv, Mfa!SecretIsNewest

LEMMA MfaSubmit ==
    ASSUME Mfa!MfaAssumption, MfaInv, NEW t \in Tabs, NEW purpose \in {"login", "step-up"}, NEW f \in Mfa!Factors,
           Mfa!Submit(t, purpose, f)
    PROVE  MfaInv'
<1> DEFINE r == [kind |-> purpose, token |-> Mfa!Token(purpose), version |-> account.version, factor |-> f,
                 secret |-> account.secret, key |-> key, valid |-> Mfa!ValidStep(account.secret.of, f),
                 todo |-> IF Mfa!ValidStep(account.secret.of, f) /\ account.secret.key # key THEN "encrypt" ELSE "consume",
                 at |-> 0]
<1>1. mfaRequest' = [mfaRequest EXCEPT ![t] = r]
    BY DEF Mfa!Submit
<1>2. r \in Submitted
  <2>1. Mfa!Token(purpose) \in SignedTokens
      BY DEF MfaInv, MfaTypes, Mfa!Token
  <2>2. Mfa!ValidStep(account.secret.of, f) \in BOOLEAN
      BY DEF Mfa!ValidStep
  <2> QED BY <2>1, <2>2 DEF MfaInv, MfaTypes, Submitted
<1>3. r.todo # "answer"
    OBVIOUS
<1> HIDE DEF r
<1>4. UNCHANGED <<mfaNow, key, account, receipts, made, browser, enrolled>>
    BY DEF Mfa!Submit
<1>5. MfaTypes'
    BY <1>1, <1>2, <1>4 DEF MfaInv, MfaTypes
<1>6. AnswersConfirmed'
    BY <1>1, <1>3, <1>4, AnswersStay
<1> QED BY <1>4, <1>5, <1>6, FactorsStay, StepUpStays DEF MfaInv, Mfa!SecretIsNewest

\* What SQL and the handlers find in a request that is not over.
LEMMA FactorRequest ==
    ASSUME MfaInv, NEW t \in Tabs
    PROVE  /\ Mfa!InRequest(t, "encrypt") => mfaRequest[t] \in Submitted
           /\ Mfa!InRequest(t, "consume") => mfaRequest[t] \in Submitted
           /\ Mfa!InRequest(t, "answer") => mfaRequest[t] \in Submitted
           /\ Mfa!InRequest(t, "write") => mfaRequest[t] \in Started \cup Enabling
<1>1. mfaRequest[t] \in {Mfa!Idle} \cup Submitted \cup Started \cup Enabling
    BY DEF MfaInv, MfaTypes
<1> QED BY <1>1 DEF Mfa!InRequest, Submitted, Started, Enabling

\* A request that ends.
LEMMA MfaEnds ==
    ASSUME MfaInv, NEW t \in Tabs, mfaRequest' = [mfaRequest EXCEPT ![t] = Mfa!Idle],
           UNCHANGED <<mfaNow, key, account, receipts, made, browser, enrolled>>
    PROVE  MfaInv'
<1>1. MfaTypes'
    BY DEF MfaInv, MfaTypes
<1>2. Mfa!Idle \notin Submitted
    BY DEF Mfa!Idle, Submitted
<1>3. AnswersConfirmed'
    BY <1>2, AnswersStay
<1> QED BY <1>1, <1>3, FactorsStay, StepUpStays DEF MfaInv, Mfa!SecretIsNewest

LEMMA MfaEncrypt ==
    ASSUME Mfa!MfaAssumption, MfaInv, NEW t \in Tabs, Mfa!Encrypt(t)
    PROVE  MfaInv'
<1>1. CASE account.secret # mfaRequest[t].secret
    BY <1>1, MfaEnds DEF Mfa!Encrypt
<1>2. CASE account.secret = mfaRequest[t].secret
  <2> DEFINE r == [mfaRequest[t] EXCEPT !.todo = "consume"]
  <2>1. mfaRequest[t] \in Submitted
      BY FactorRequest DEF Mfa!Encrypt
  <2>2. r \in Submitted /\ r.todo = "consume"
      BY <2>1 DEF Submitted
  <2>3. /\ mfaRequest' = [mfaRequest EXCEPT ![t] = r]
        /\ account' = [account EXCEPT !.secret.key = mfaRequest[t].key]
        /\ UNCHANGED <<mfaNow, key, receipts, made, browser, enrolled>>
      BY <1>2 DEF Mfa!Encrypt, MfaInv, MfaTypes
  <2> HIDE DEF r
  <2>4. mfaRequest[t].key \in Nat
      BY <2>1 DEF Submitted
  <2>5. /\ account'.version = account.version /\ account'.lastStep = account.lastStep
        /\ account'.codes = account.codes /\ account'.secret = [account.secret EXCEPT !.key = mfaRequest[t].key]
      BY <2>3 DEF MfaInv, MfaTypes
  <2>6. account'.secret \in StoredSecrets /\ account'.secret.of = account.secret.of
      BY <2>4, <2>5 DEF MfaInv, MfaTypes, StoredSecrets
  <2>7. account' \in [version : Nat \ {0}, secret : StoredSecrets, lastStep : Int, codes : Nat]
      BY <2>3, <2>5, <2>6 DEF MfaInv, MfaTypes
  <2>8. MfaTypes'
      BY <2>2, <2>3, <2>7 DEF MfaInv, MfaTypes
  <2>9. AnswersConfirmed'
      BY <2>2, <2>3, AnswersStay
  <2> QED BY <2>3, <2>5, <2>6, <2>8, <2>9, FactorsStay, StepUpStays DEF MfaInv, Mfa!SecretIsNewest
<1> QED BY <1>1, <1>2

\* A factor that is accepted has no receipt of this version, and has one from now on.
LEMMA ConsumedOnce ==
    ASSUME Mfa!MfaAssumption, MfaInv, NEW t \in Tabs, mfaRequest[t] \in Submitted, mfaRequest[t].version = account.version,
           Mfa!Accepts(mfaRequest[t]), NEW a,
           a = IF mfaRequest[t].factor.step >= 0 THEN [account EXCEPT !.lastStep = mfaRequest[t].factor.step]
               ELSE [account EXCEPT !.codes = 0],
           account' = a, receipts' = receipts \cup {[op |-> Mfa!Operation(mfaRequest[t]), at |-> mfaNow]}
    PROVE  (\A c \in receipts : Spent(c))' /\ Mfa!FactorConfirmsOneOperation'
<1> DEFINE f == mfaRequest[t].factor
           new == [op |-> Mfa!Operation(mfaRequest[t]), at |-> mfaNow]
<1>1. f.secret \in Nat \ {0} /\ f.step \in Int
    BY DEF Mfa!MfaAssumption, Submitted, Mfa!Factors, MfaInv
<1>2. /\ new.op.factor = f /\ new.op.version = account.version
      /\ account \in [version : Nat \ {0}, secret : StoredSecrets, lastStep : Int, codes : Nat]
    BY DEF Mfa!Operation, MfaInv, MfaTypes
<1>3. /\ account'.version = account.version
      /\ f.step >= 0 => account'.lastStep = f.step /\ account'.codes = account.codes /\ f.step > account.lastStep
      /\ ~(f.step >= 0) => account'.codes = 0 /\ account'.lastStep = account.lastStep /\ f.secret = account.codes
    BY <1>2 DEF Mfa!Accepts
<1>4. ASSUME NEW c \in receipts, c.op.version = account.version
      PROVE  c.op.factor # f
    BY <1>1, <1>2, <1>4 DEF MfaInv, Spent, Mfa!Accepts
<1>5. ASSUME NEW c \in receipts
      PROVE  /\ c.op.version \in Nat /\ c.op.factor.secret \in Nat \ {0} /\ c.op.factor.step \in Int
             /\ Spent(c)
    BY DEF MfaInv, MfaTypes, Receipt, FactorOperations, Mfa!Factors
<1>6. ASSUME NEW c \in receipts' PROVE Spent(c)'
  <2>1. CASE c = new
      BY <2>1, <1>1, <1>2, <1>3 DEF Spent
  <2>2. CASE c \in receipts
      BY <2>2, <1>1, <1>2, <1>3, <1>5 DEF Spent
  <2> QED BY <2>1, <2>2
<1>7. Mfa!FactorConfirmsOneOperation'
  <2> SUFFICES ASSUME NEW c \in receipts', NEW d \in receipts', c.op.factor = d.op.factor, c.op.version = d.op.version
               PROVE  c.op = d.op
      BY DEF Mfa!FactorConfirmsOneOperation
  <2> HIDE DEF f
  <2>1. (c \in receipts \/ c = new) /\ (d \in receipts \/ d = new)
      OBVIOUS
  <2>2. c \in receipts /\ d \in receipts => c.op = d.op
      BY DEF MfaInv, Mfa!FactorConfirmsOneOperation
  <2> QED BY <2>1, <2>2, <1>2, <1>4
<1> QED BY <1>6, <1>7

LEMMA MfaConsume ==
    ASSUME Mfa!MfaAssumption, MfaInv, NEW t \in Tabs, Mfa!Consume(t)
    PROVE  MfaInv'
<1>1. mfaRequest[t] \in Submitted /\ UNCHANGED <<mfaNow, key, made, browser, enrolled>>
    BY FactorRequest DEF Mfa!Consume
<1>2. CASE account.version # mfaRequest[t].version \/ ~Mfa!Enabled2fa \/ (Mfa!Recognised(mfaRequest[t]) = {} /\ ~Mfa!Accepts(mfaRequest[t]))
    BY <1>1, <1>2, MfaEnds DEF Mfa!Consume
<1>3. ASSUME ~(account.version # mfaRequest[t].version \/ ~Mfa!Enabled2fa \/ (Mfa!Recognised(mfaRequest[t]) = {} /\ ~Mfa!Accepts(mfaRequest[t]))),
             Mfa!Recognised(mfaRequest[t]) # {}
      PROVE  MfaInv'
  <2> DEFINE c == CHOOSE c \in Mfa!Recognised(mfaRequest[t]) : TRUE
             r == [mfaRequest[t] EXCEPT !.todo = "answer", !.at = c.at]
  <2>1. c \in receipts /\ c.op = Mfa!Operation(mfaRequest[t])
      BY <1>3 DEF Mfa!Recognised
  <2>2. c.at \in Nat
      BY <2>1 DEF MfaInv, MfaTypes, Receipt
  <2> HIDE DEF c
  <2>3. mfaRequest' = [mfaRequest EXCEPT ![t] = r] /\ UNCHANGED <<account, receipts>>
      BY <1>3 DEF Mfa!Consume, c, MfaInv, MfaTypes
  <2>4. r \in Submitted /\ r.version = mfaRequest[t].version /\ r.kind = mfaRequest[t].kind /\ r.at = c.at
      BY <1>1, <2>2 DEF Submitted
  <2> HIDE DEF r
  <2>5. MfaTypes'
      BY <1>1, <2>3, <2>4 DEF MfaInv, MfaTypes
  <2>6. r.kind = "step-up" => Confirmed(r.version, r.at)
      BY <2>1, <2>4 DEF Confirmed, Mfa!Operation
  <2>7. AnswersConfirmed'
    <3> SUFFICES ASSUME NEW q \in Tabs, mfaRequest'[q] \in Submitted, mfaRequest'[q].todo = "answer", mfaRequest'[q].kind = "step-up"
                 PROVE  Confirmed(mfaRequest[q].version, mfaRequest[q].at)'
        BY DEF AnswersConfirmed
    <3>1. mfaRequest \in [Tabs -> {Mfa!Idle} \cup Submitted \cup Started \cup Enabling]
        BY DEF MfaInv, MfaTypes
    <3>2. CASE q = t
      <4>1. mfaRequest'[q] = r
          BY <3>1, <3>2, <2>3
      <4> QED BY <4>1, <2>3, <2>6, ConfirmedStays
    <3>3. CASE q # t
      <4>1. mfaRequest'[q] = mfaRequest[q]
          BY <3>1, <3>3, <2>3
      <4> QED BY <4>1, <2>3, ConfirmedStays DEF MfaInv, AnswersConfirmed
    <3> QED BY <3>2, <3>3
  <2> QED BY <1>1, <2>3, <2>5, <2>7, FactorsStay, StepUpStays DEF MfaInv, Mfa!SecretIsNewest
<1>4. ASSUME ~(account.version # mfaRequest[t].version \/ ~Mfa!Enabled2fa \/ (Mfa!Recognised(mfaRequest[t]) = {} /\ ~Mfa!Accepts(mfaRequest[t]))),
             Mfa!Recognised(mfaRequest[t]) = {}
      PROVE  MfaInv'
  <2> DEFINE r == [mfaRequest[t] EXCEPT !.todo = "answer", !.at = mfaNow]
             a == IF mfaRequest[t].factor.step >= 0 THEN [account EXCEPT !.lastStep = mfaRequest[t].factor.step]
                  ELSE [account EXCEPT !.codes = 0]
             new == [op |-> Mfa!Operation(mfaRequest[t]), at |-> mfaNow]
  <2>1. /\ mfaRequest' = [mfaRequest EXCEPT ![t] = r] /\ account' = a
        /\ receipts' = receipts \cup {new}
      BY <1>4 DEF Mfa!Consume, MfaInv, MfaTypes
  <2>2. r \in Submitted /\ r.version = mfaRequest[t].version /\ r.kind = mfaRequest[t].kind /\ r.at = mfaNow
      BY <1>1 DEF Submitted, MfaInv, MfaTypes
  <2>3. /\ a \in [version : Nat \ {0}, secret : StoredSecrets, lastStep : Int, codes : Nat]
        /\ a.secret = account.secret
      BY <1>1 DEF Mfa!MfaAssumption, MfaInv, MfaTypes, Submitted, Mfa!Factors
  <2>4. new \in Receipt
      BY <1>1 DEF MfaInv, MfaTypes, Receipt, FactorOperations, Mfa!Operation, Submitted
  <2>5. r.kind = "step-up" =>
          \E c \in receipts' : c.op.purpose = "step-up" /\ c.op.version = r.version /\ c.at = r.at
    <3>1. /\ new \in receipts' /\ new.op.version = mfaRequest[t].version /\ new.op.purpose = mfaRequest[t].kind
          /\ new.at = mfaNow
        BY <2>1 DEF Mfa!Operation
    <3> HIDE DEF new, r
    <3> QED BY <3>1, <2>2
  <2> HIDE DEF r, new
  <2>6. (\A c \in receipts : Spent(c))' /\ Mfa!FactorConfirmsOneOperation'
      BY <1>1, <1>4, <2>1, ConsumedOnce DEF new
  <2> HIDE DEF a
  <2>7. MfaTypes'
      BY <1>1, <2>1, <2>2, <2>3, <2>4 DEF MfaInv, MfaTypes
  <2>8. AnswersConfirmed'
    <3> SUFFICES ASSUME NEW q \in Tabs, mfaRequest'[q] \in Submitted, mfaRequest'[q].todo = "answer", mfaRequest'[q].kind = "step-up"
                 PROVE  Confirmed(mfaRequest[q].version, mfaRequest[q].at)'
        BY DEF AnswersConfirmed
    <3>1. mfaRequest \in [Tabs -> {Mfa!Idle} \cup Submitted \cup Started \cup Enabling]
        BY DEF MfaInv, MfaTypes
    <3>2. CASE q = t
      <4>1. mfaRequest'[q] = r
          BY <3>1, <3>2, <2>1
      <4> QED BY <4>1, <2>5 DEF Confirmed
    <3>3. CASE q # t
      <4>1. mfaRequest'[q] = mfaRequest[q]
          BY <3>1, <3>3, <2>1
      <4>2. receipts \subseteq receipts'
          BY <2>1
      <4> QED BY <4>1, <4>2, ConfirmedStays DEF MfaInv, AnswersConfirmed
    <3> QED BY <3>2, <3>3
  <2>9. receipts \subseteq receipts' /\ browser'.stepUp = browser.stepUp
      BY <1>1, <2>1
  <2> QED BY <1>1, <2>1, <2>3, <2>6, <2>7, <2>8, <2>9, StepUpStays DEF MfaInv, Mfa!SecretIsNewest
<1> QED BY <1>2, <1>3, <1>4

LEMMA MfaAnswer ==
    ASSUME Mfa!MfaAssumption, MfaInv, NEW t \in Tabs, Mfa!Answer(t)
    PROVE  MfaInv'
<1>1. /\ mfaRequest[t] \in Submitted /\ mfaRequest[t].todo = "answer"
      /\ mfaRequest' = [mfaRequest EXCEPT ![t] = Mfa!Idle]
      /\ UNCHANGED <<mfaNow, key, account, receipts, made, enrolled>>
    BY FactorRequest DEF Mfa!Answer, Mfa!InRequest
<1>2. CASE mfaRequest[t].kind = "login"
  <2>1. browser' = [browser EXCEPT !.cookie = Mfa!Signed(mfaRequest[t].version, mfaNow)]
      BY <1>2 DEF Mfa!Answer
  <2>2. Mfa!Signed(mfaRequest[t].version, mfaNow) \in SignedTokens
      BY <1>1 DEF MfaInv, MfaTypes, Mfa!Signed, Mfa!NoSecret, SignedTokens, StoredSecrets, Submitted
  <2>3. MfaTypes' /\ browser'.stepUp = browser.stepUp
      BY <1>1, <2>1, <2>2 DEF MfaInv, MfaTypes
  <2>4. Mfa!Idle \notin Submitted
      BY DEF Mfa!Idle, Submitted
  <2>5. AnswersConfirmed'
      BY <1>1, <2>4, AnswersStay
  <2> QED BY <1>1, <2>3, <2>5, FactorsStay, StepUpStays DEF MfaInv, Mfa!SecretIsNewest
<1>3. CASE mfaRequest[t].kind # "login"
  <2>1. mfaRequest[t].kind = "step-up"
      BY <1>1, <1>3 DEF Submitted
  <2>2. browser' = [browser EXCEPT !.stepUp = Mfa!Signed(mfaRequest[t].version, mfaRequest[t].at)]
      BY <1>3 DEF Mfa!Answer
  <2>3. Mfa!Signed(mfaRequest[t].version, mfaRequest[t].at) \in SignedTokens
      BY <1>1 DEF Mfa!Signed, Mfa!NoSecret, SignedTokens, StoredSecrets, Submitted
  <2>4. MfaTypes'
      BY <1>1, <2>2, <2>3 DEF MfaInv, MfaTypes
  <2>5. browser'.stepUp.v = mfaRequest[t].version /\ browser'.stepUp.at = mfaRequest[t].at
      BY <2>2 DEF MfaInv, MfaTypes, Mfa!Signed
  <2>6. Confirmed(mfaRequest[t].version, mfaRequest[t].at)
      BY <1>1, <2>1 DEF MfaInv, AnswersConfirmed
  <2>7. Confirmed(browser.stepUp.v, browser.stepUp.at)'
      BY <1>1, <2>5, <2>6 DEF Confirmed
  <2>8. Mfa!Idle \notin Submitted
      BY DEF Mfa!Idle, Submitted
  <2>9. AnswersConfirmed'
      BY <1>1, <2>8, AnswersStay
  <2> QED BY <1>1, <2>4, <2>7, <2>9, FactorsStay DEF MfaInv, Mfa!SecretIsNewest
<1> QED BY <1>2, <1>3

LEMMA MfaSetup ==
    ASSUME Mfa!MfaAssumption, MfaInv, NEW t \in Tabs, Mfa!Setup(t)
    PROVE  MfaInv'
<1>1. MfaTypes' /\ browser'.stepUp = browser.stepUp
    BY DEF Mfa!Setup, MfaInv, MfaTypes, SignedTokens, StoredSecrets
<1> QED BY <1>1, FactorsStay, NoAnswers, StepUpStays DEF Mfa!Setup, MfaInv, Mfa!SecretIsNewest

LEMMA MfaStart ==
    ASSUME Mfa!MfaAssumption, MfaInv, NEW t \in Tabs, NEW kind \in {"codes", "disable", "password"}, Mfa!Start(t, kind)
    PROVE  MfaInv'
<1> DEFINE r == [kind |-> kind, version |-> account.version, factor |-> Mfa!Code(made + 1), todo |-> "write"]
<1>1. /\ mfaRequest' = [mfaRequest EXCEPT ![t] = r] /\ made' \in Nat
      /\ UNCHANGED <<mfaNow, key, account, receipts, browser, enrolled>>
    BY DEF Mfa!Start, MfaInv, MfaTypes
<1>2. r \in Started /\ r.todo # "answer"
    BY DEF Started, Mfa!Code, MfaInv, MfaTypes
<1> HIDE DEF r
<1>3. MfaTypes'
    BY <1>1, <1>2 DEF MfaInv, MfaTypes
<1>4. AnswersConfirmed'
    BY <1>1, <1>2, AnswersStay
<1> QED BY <1>1, <1>3, <1>4, FactorsStay, StepUpStays DEF MfaInv, Mfa!SecretIsNewest

LEMMA MfaStartEnable ==
    ASSUME Mfa!MfaAssumption, MfaInv, NEW t \in Tabs, NEW step \in 0..MaxTime + 1, Mfa!StartEnable(t, step)
    PROVE  MfaInv'
<1> DEFINE r == [kind |-> "enable", version |-> account.version, factor |-> Mfa!Totp(browser.setup.secret.of, step),
                 secret |-> browser.setup.secret, todo |-> "write"]
<1>1. /\ mfaRequest' = [mfaRequest EXCEPT ![t] = r]
      /\ UNCHANGED <<mfaNow, key, account, receipts, made, browser, enrolled>>
    BY DEF Mfa!StartEnable
<1>2. browser.setup.secret \in StoredSecrets /\ step \in Nat
    BY DEF Mfa!MfaAssumption, MfaInv, MfaTypes, SignedTokens
<1>3. r \in Enabling /\ r.todo # "answer"
    BY <1>2 DEF Enabling, Mfa!Totp, MfaInv, MfaTypes, StoredSecrets
<1> HIDE DEF r
<1>4. MfaTypes'
    BY <1>1, <1>3 DEF MfaInv, MfaTypes
<1>5. AnswersConfirmed'
    BY <1>1, <1>3, AnswersStay
<1> QED BY <1>1, <1>4, <1>5, FactorsStay, StepUpStays DEF MfaInv, Mfa!SecretIsNewest

LEMMA MfaWrite ==
    ASSUME Mfa!MfaAssumption, MfaInv, NEW t \in Tabs, Mfa!Write(t)
    PROVE  MfaInv'
<1> DEFINE r == mfaRequest[t]
           Accounts == [version : Nat \ {0}, secret : StoredSecrets, lastStep : Int, codes : Nat]
<1>1. /\ r \in Started \cup Enabling
      /\ mfaRequest' = [mfaRequest EXCEPT ![t] = Mfa!Idle] /\ enrolled' = account'.secret.of
      /\ UNCHANGED <<mfaNow, key, receipts, made>>
    BY FactorRequest DEF Mfa!Write
<1>2. account \in Accounts /\ Mfa!NoSecret \in StoredSecrets
    BY DEF MfaInv, MfaTypes, Mfa!NoSecret, StoredSecrets
<1>3. account' = account \/ (account' \in Accounts /\ account'.version = account.version + 1)
  <2>1. CASE r.kind = "codes" /\ ~Mfa!Enabled2fa
      BY <2>1 DEF Mfa!Write
  <2>2. CASE ~(r.kind = "codes" /\ ~Mfa!Enabled2fa)
    <3>1. account' = Mfa!Changed(r)
        BY <2>2 DEF Mfa!Write
    <3>2. CASE r \in Enabling
      <4>1. r.kind = "enable" /\ r.secret \in StoredSecrets /\ r.factor.step \in Nat /\ r.factor.secret \in Nat
          BY <3>2 DEF Enabling
      <4> QED BY <1>2, <3>1, <4>1 DEF Mfa!Changed
    <3>3. CASE r \in Started
      <4>1. r.kind \in {"codes", "disable", "password"} /\ r.factor.secret \in Nat
          BY <3>3 DEF Started
      <4>2. CASE r.kind = "codes"
        <5>1. account' = [account EXCEPT !.version = account.version + 1, !.codes = r.factor.secret]
            BY <3>1, <4>2 DEF Mfa!Changed
        <5>2. account.version + 1 \in Nat \ {0}
            BY <1>2
        <5> QED BY <1>2, <4>1, <5>1, <5>2
      <4>3. CASE r.kind = "disable"
          BY <1>2, <3>1, <4>3 DEF Mfa!Changed
      <4>4. CASE r.kind = "password"
          BY <1>2, <3>1, <4>4 DEF Mfa!Changed
      <4> QED BY <4>1, <4>2, <4>3, <4>4
    <3> QED BY <1>1, <3>2, <3>3
  <2> QED BY <2>1, <2>2
<1>4. /\ Mfa!Signed(account'.version, mfaNow) \in SignedTokens /\ Mfa!None \in SignedTokens
      /\ \/ browser' = browser
         \/ browser' = [browser EXCEPT !.cookie = Mfa!Signed(account'.version, mfaNow), !.stepUp = Mfa!None]
  <2>1. account'.version \in Nat /\ mfaNow \in Nat
      BY <1>2, <1>3 DEF MfaInv, MfaTypes
  <2> QED BY <1>2, <2>1 DEF Mfa!Write, Mfa!Signed, Mfa!None, SignedTokens
<1>5. MfaTypes'
    BY <1>1, <1>2, <1>3, <1>4 DEF MfaInv, MfaTypes
<1>6. (\A c \in receipts : Spent(c))' /\ Mfa!FactorConfirmsOneOperation'
  <2>1. CASE account' = account
      BY <2>1, <1>1, FactorsStay
  <2>2. CASE account'.version = account.version + 1
    <3>1. \A c \in receipts : c.op.version \in Nat /\ c.op.version <= account.version
        BY DEF MfaInv, MfaTypes, Receipt, FactorOperations, Spent
    <3> QED BY <2>2, <3>1, <1>1, <1>2 DEF Spent, MfaInv, Mfa!FactorConfirmsOneOperation
  <2> QED BY <2>1, <2>2, <1>3
<1>7. Mfa!Idle \notin Submitted
    BY DEF Mfa!Idle, Submitted
<1>8. AnswersConfirmed'
    BY <1>1, <1>7, AnswersStay
<1>9. (browser.stepUp.v > 0 => Confirmed(browser.stepUp.v, browser.stepUp.at))'
  <2>1. CASE browser' = browser
      BY <2>1, <1>1, StepUpStays
  <2>2. CASE browser' = [browser EXCEPT !.cookie = Mfa!Signed(account'.version, mfaNow), !.stepUp = Mfa!None]
    <3>1. browser'.stepUp.v = 0
        BY <2>2 DEF MfaInv, MfaTypes, Mfa!None, Mfa!Signed
    <3> QED BY <3>1
  <2> QED BY <1>4, <2>1, <2>2
<1> QED BY <1>1, <1>5, <1>6, <1>8, <1>9 DEF MfaInv, Mfa!SecretIsNewest

\* The inductive invariant of the second factor: a factor with a receipt of the current
\* version is spent, and every answer and step-up token goes back to a receipt.
THEOREM MfaInvariant == Mfa!MfaAssumption => (Mfa!Spec => []MfaInv)
<1> SUFFICES ASSUME Mfa!MfaAssumption PROVE Mfa!Spec => []MfaInv
    OBVIOUS
<1>1. Mfa!Init => MfaInv
  <2> SUFFICES ASSUME Mfa!Init PROVE MfaInv
      OBVIOUS
  <2>1. MfaTypes
      BY DEF Mfa!Init, MfaTypes, Mfa!Signed, Mfa!None, Mfa!NoSecret, SignedTokens, StoredSecrets
  <2> QED BY <2>1 DEF Mfa!Init, MfaInv, AnswersConfirmed, Mfa!FactorConfirmsOneOperation, Mfa!SecretIsNewest, Mfa!Idle, Submitted, Mfa!Signed, Mfa!None
<1>2. MfaInv /\ [Mfa!Next]_Mfa!vars => MfaInv'
  <2> SUFFICES ASSUME MfaInv, [Mfa!Next]_Mfa!vars PROVE MfaInv'
      OBVIOUS
  <2>1. CASE UNCHANGED Mfa!vars
      BY <2>1, FactorsStay, NoAnswers, StepUpStays DEF Mfa!vars, MfaInv, MfaTypes, Mfa!SecretIsNewest
  <2>2. CASE Mfa!Deploy \/ Mfa!Tick
    <3>1. MfaTypes'
        BY <2>2 DEF Mfa!Deploy, Mfa!Tick, MfaInv, MfaTypes
    <3> QED BY <2>2, <3>1, FactorsStay, NoAnswers, StepUpStays DEF Mfa!Deploy, Mfa!Tick, MfaInv, Mfa!SecretIsNewest
  <2>3. ASSUME NEW t \in Tabs, Mfa!Lost(t) PROVE MfaInv'
      BY <2>3, MfaEnds DEF Mfa!Lost
  <2> QED BY <2>1, <2>2, <2>3, MfaPassword, MfaEncrypt, MfaConsume, MfaAnswer, MfaSetup, MfaWrite,
             MfaSubmit, MfaStart, MfaStartEnable DEF Mfa!Next
<1> QED BY <1>1, <1>2, PTL DEF Mfa!Spec

\* A one-time code or a recovery code confirms one operation under a session version
\* (cfm_consume_mfa_factor), and the account never gets back a secret that was replaced or
\* switched off (reencryptTotpSecret).
THEOREM FactorsConfirmOnce == Mfa!MfaAssumption => (Mfa!Spec => [](Mfa!FactorConfirmsOneOperation /\ Mfa!SecretIsNewest))
<1>1. MfaInv => Mfa!FactorConfirmsOneOperation /\ Mfa!SecretIsNewest
    BY DEF MfaInv
<1> QED BY <1>1, MfaInvariant, PTL

\* An operation that the middleware lets through was confirmed (requireMfaStepUp).
LEMMA ActsConfirmed ==
    ASSUME MfaInv, Mfa!MayAct, Mfa!Enabled2fa
    PROVE  \E c \in receipts : c.op.purpose = "step-up" /\ c.op.version = account.version /\ mfaNow < c.at + Ttl
<1>1. browser.stepUp.v = account.version /\ mfaNow < browser.stepUp.at + Ttl
    BY DEF Mfa!MayAct, Mfa!Alive
<1>2. account.version > 0
    BY DEF MfaInv, MfaTypes
<1>3. Confirmed(browser.stepUp.v, browser.stepUp.at)
    BY <1>1, <1>2 DEF MfaInv
<1> QED BY <1>1, <1>3 DEF Confirmed

\* A protected operation of an account with a second factor starts only within Ttl of the
\* consumption of a factor for a step-up under the same session version (requireMfaStepUp).
THEOREM ProtectedWasConfirmed == Mfa!MfaAssumption => (Mfa!Spec => Mfa!ProtectedIsConfirmed)
<1> DEFINE Protected == {"codes", "disable", "password", "enable"}
           Begins(t) == mfaRequest[t] = Mfa!Idle /\ Mfa!Enabled2fa /\ mfaRequest'[t].kind \in Protected
           Was == \E c \in receipts : c.op.purpose = "step-up" /\ c.op.version = account.version /\ mfaNow < c.at + Ttl
<1> SUFFICES ASSUME Mfa!MfaAssumption PROVE Mfa!Spec => Mfa!ProtectedIsConfirmed
    OBVIOUS
<1>1. MfaInv /\ [Mfa!Next]_Mfa!vars => [\A t \in Tabs : Begins(t) => Was]_Mfa!vars
  <2> SUFFICES ASSUME MfaInv, Mfa!Next, NEW t \in Tabs, Begins(t)
               PROVE  Was
      OBVIOUS
  <2>1. mfaRequest \in [Tabs -> {Mfa!Idle} \cup Submitted \cup Started \cup Enabling] /\ Mfa!Idle.kind \notin Protected
      BY DEF MfaInv, MfaTypes, Mfa!Idle
  <2>2. mfaRequest' # mfaRequest
      BY <2>1
  <2>3. ASSUME NEW q \in Tabs, mfaRequest' = [mfaRequest EXCEPT ![q] = Mfa!Idle] PROVE FALSE
      BY <2>1, <2>3
  <2>4. ASSUME NEW q \in Tabs, Mfa!Encrypt(q) \/ Mfa!Consume(q) PROVE FALSE
    <3>1. mfaRequest[q] \in Submitted /\ Mfa!Idle \notin Submitted
        BY <2>4, FactorRequest DEF Mfa!Encrypt, Mfa!Consume, Mfa!Idle, Submitted
    <3>2. \A p \in Tabs \ {q} : mfaRequest'[p] = mfaRequest[p]
        BY <2>1, <2>4 DEF Mfa!Encrypt, Mfa!Consume
    <3> QED BY <2>1, <3>1, <3>2
  <2>5. ASSUME NEW q \in Tabs, NEW purpose \in {"login", "step-up"}, NEW f \in Mfa!Factors, Mfa!Submit(q, purpose, f) PROVE FALSE
    <3>1. mfaRequest'[q].kind = purpose /\ \A p \in Tabs \ {q} : mfaRequest'[p] = mfaRequest[p]
        BY <2>1, <2>5 DEF Mfa!Submit
    <3> QED BY <2>1, <3>1
  <2>6. ASSUME NEW q \in Tabs, Mfa!Answer(q) \/ Mfa!Lost(q) \/ Mfa!Write(q) PROVE FALSE
      BY <2>6, <2>3 DEF Mfa!Answer, Mfa!Lost, Mfa!Write
  <2>7. ASSUME NEW q \in Tabs, Mfa!Password(q) \/ Mfa!Setup(q) PROVE FALSE
      BY <2>7, <2>2 DEF Mfa!Password, Mfa!Setup
  <2>8. ASSUME Mfa!Deploy \/ Mfa!Tick PROVE FALSE
      BY <2>8, <2>2 DEF Mfa!Deploy, Mfa!Tick
  <2>9. Mfa!MayAct
    <3>1. ASSUME NEW q \in Tabs, NEW kind, Mfa!Start(q, kind) PROVE Mfa!MayAct
        BY <3>1 DEF Mfa!Start
    <3>2. ASSUME NEW q \in Tabs, NEW step, Mfa!StartEnable(q, step) PROVE Mfa!MayAct
        BY <3>2 DEF Mfa!StartEnable
    <3> QED BY <2>4, <2>5, <2>6, <2>7, <2>8, <3>1, <3>2 DEF Mfa!Next
  <2> QED BY <2>9, ActsConfirmed
<1>2. MfaInv /\ [Mfa!Next]_Mfa!vars => [ \A t \in Tabs :
        mfaRequest[t] = Mfa!Idle /\ Mfa!Enabled2fa /\ mfaRequest'[t].kind \in {"codes", "disable", "password", "enable"}
        => \E c \in receipts :
            c.op.purpose = "step-up" /\ c.op.version = account.version /\ mfaNow < c.at + Ttl]_Mfa!vars
    BY <1>1
<1> QED BY <1>2, MfaInvariant, PTL DEF Mfa!Spec, Mfa!ProtectedIsConfirmed

\* An operation whose receipt lives is recognised when it is sent again, as long as the
\* account keeps its version (cfm_consume_mfa_factor).
THEOREM RetriesRecognised == Mfa!MfaAssumption => (Mfa!Spec => Mfa!RetriesAreRecognised)
<1> SUFFICES ASSUME Mfa!MfaAssumption PROVE Mfa!Spec => Mfa!RetriesAreRecognised
    OBVIOUS
<1>1. MfaInv => [\A t \in Tabs :
        /\ Mfa!InRequest(t, "consume") /\ Mfa!Consume(t) /\ account.version = mfaRequest[t].version /\ Mfa!Enabled2fa
        /\ \E c \in receipts : c.op = Mfa!Operation(mfaRequest[t]) /\ mfaNow < c.at + Ttl
        => mfaRequest'[t] # Mfa!Idle]_Mfa!vars
  <2> SUFFICES ASSUME MfaInv, NEW t \in Tabs, Mfa!Consume(t), account.version = mfaRequest[t].version, Mfa!Enabled2fa,
                      \E c \in receipts : c.op = Mfa!Operation(mfaRequest[t]) /\ mfaNow < c.at + Ttl
               PROVE  mfaRequest'[t] # Mfa!Idle
      OBVIOUS
  <2>1. Mfa!Recognised(mfaRequest[t]) # {}
      BY DEF Mfa!Recognised
  <2>2. mfaRequest' = [mfaRequest EXCEPT ![t] = [mfaRequest[t] EXCEPT !.todo = "answer", !.at = (CHOOSE c \in Mfa!Recognised(mfaRequest[t]) : TRUE).at]]
      BY <2>1 DEF Mfa!Consume, MfaInv, MfaTypes
  <2>3. mfaRequest[t] \in Submitted
      BY FactorRequest DEF Mfa!Consume
  <2>4. mfaRequest'[t].kind = mfaRequest[t].kind
      BY <2>2, <2>3 DEF MfaInv, MfaTypes, Submitted
  <2> QED BY <2>3, <2>4 DEF Submitted, Mfa!Idle
<1> QED BY <1>1, MfaInvariant, PTL DEF Mfa!RetriesAreRecognised

-----------------------------------------------------------------------------
(* The initialization of the database: the inductive invariant and the proofs *)

\* The versions in the database: 0 is none.
Marks == Deployments \cup {0}
Bundles == [at : Setup!Working \cup {"free", "success", "failed"}, ver : Marks, next : Setup!Steps, applied : [Setup!Steps -> Marks]]

SetupTypes ==
    /\ deployed \in Deployments
    /\ db \in [Setup!Steps -> Marks]
    /\ req \in [SetupRequests -> Bundles]
    /\ late \subseteq [step : Setup!Steps, ver : Deployments]
    /\ lost \in 0 .. MaxLost
    /\ \A q \in SetupRequests : req[q].at # "free" => req[q].ver \in Deployments
    /\ \A q \in SetupRequests : req[q].at = "list" => req[q].next = 1

Applying == {"apply", "relist"}

\* What a request, or a query that is executed late, builds on is there.
BuiltOn ==
    /\ \A q \in SetupRequests : req[q].at \in Applying => \A j \in Setup!Steps : j < req[q].next => db[j] # 0
    /\ \A e \in late : \A j \in Setup!Steps : j < e.step => db[j] # 0
    /\ \A q \in SetupRequests, j \in Setup!Steps : req[q].applied[j] # 0 => db[j] # 0

\* A request that no other version worked beside, and what it found and did.
Alone(q) == req[q].at \in Setup!Working \cup {"success"} /\ q \notin mixed

AloneIsTrue ==
    \A q \in SetupRequests : Alone(q) =>
        /\ \A p \in SetupRequests : req[p].at \in Setup!Working => req[p].ver = req[q].ver
        /\ \A e \in late : e.ver = req[q].ver
        /\ req[q].at \in Applying => \A j \in Setup!Steps : j < req[q].next => db[j] = req[q].ver
        /\ \A j \in Setup!Steps : req[q].applied[j] = req[q].ver => db[j] = req[q].ver

SetupInv == SetupTypes /\ Setup!InOrder /\ BuiltOn /\ AloneIsTrue /\ Setup!SuccessIsComplete

-----------------------------------------------------------------------------
\* After: the next migration, or all are done.
LEMMA AfterIs ==
    ASSUME Setup!SetupAssumption, NEW r \in Bundles
    PROVE  /\ Setup!After(r) \in Bundles /\ Setup!After(r).ver = r.ver /\ Setup!After(r).applied = r.applied
           /\ \/ Setup!After(r).at = "success" /\ r.next = MaxMigrations
              \/ Setup!After(r).at = "apply" /\ Setup!After(r).next = r.next + 1
<1>1. r.next \in Nat /\ 1 <= r.next /\ r.next <= MaxMigrations /\ MaxMigrations \in Nat
    BY DEF Setup!SetupAssumption, Bundles, Setup!Steps
<1>2. CASE r.next = MaxMigrations
    BY <1>2 DEF Setup!After, Bundles
<1>3. CASE r.next # MaxMigrations
  <2>1. Setup!After(r) = [r EXCEPT !.next = r.next + 1, !.at = "apply"]
      BY <1>3 DEF Setup!After
  <2>2. r.next + 1 \in Setup!Steps
      BY <1>1, <1>3 DEF Setup!Steps
  <2> QED BY <2>1, <2>2 DEF Bundles, Setup!Working
<1> QED BY <1>2, <1>3

\* A step of a request that is at work: it writes its own version, over what it builds on.
LEMMA RequestMoves ==
    ASSUME Setup!SetupAssumption, SetupInv, NEW q \in SetupRequests, NEW r \in Bundles,
           req[q].at \in Setup!Working, req' = [req EXCEPT ![q] = r],
           r.at \in Applying \cup {"success", "failed"}, r.ver = req[q].ver,
           UNCHANGED <<deployed, mixed>>, lost' \in 0 .. MaxLost,
           db' \in [Setup!Steps -> Marks], Setup!InOrder',
           \A j \in Setup!Steps : db'[j] = db[j] \/ db'[j] = req[q].ver,
           late' \subseteq [step : Setup!Steps, ver : Deployments],
           \A e \in late' : e \in late \/ (e.ver = req[q].ver /\ \A j \in Setup!Steps : j < e.step => db'[j] # 0),
           r.at \in Applying => \A j \in Setup!Steps : j < r.next => db'[j] # 0,
           \A j \in Setup!Steps : r.applied[j] # 0 => db'[j] # 0,
           q \notin mixed =>
             /\ r.at \in Applying => \A j \in Setup!Steps : j < r.next => db'[j] = r.ver
             /\ \A j \in Setup!Steps : r.applied[j] = r.ver => db'[j] = r.ver
             /\ r.at = "success" => \A j \in Setup!Steps : db'[j] = r.ver
    PROVE  SetupInv'
<1>1. /\ req \in [SetupRequests -> Bundles] /\ req[q].ver \in Deployments /\ req[q].ver # 0
      /\ \A p \in SetupRequests : req'[p] = IF p = q THEN r ELSE req[p]
      /\ \A p \in SetupRequests \ {q} : req'[p] = req[p]
  <2>1. req \in [SetupRequests -> Bundles] /\ req[q].at # "free"
      BY DEF SetupInv, SetupTypes, Setup!Working
  <2>2. req[q].ver \in Deployments /\ req[q].ver # 0
      BY <2>1 DEF SetupInv, SetupTypes, Setup!SetupAssumption
  <2> QED BY <2>1, <2>2
<1>2. \A j \in Setup!Steps : db[j] # 0 => db'[j] # 0
    BY <1>1
<1>3. SetupTypes'
    BY <1>1 DEF SetupInv, SetupTypes, Applying
<1>4. BuiltOn'
  <2>1. ASSUME NEW p \in SetupRequests, req'[p].at \in Applying, NEW j \in Setup!Steps, j < req'[p].next PROVE db'[j] # 0
      BY <1>1, <1>2, <2>1 DEF SetupInv, BuiltOn
  <2>2. ASSUME NEW e \in late', NEW j \in Setup!Steps, j < e.step PROVE db'[j] # 0
      BY <1>2, <2>2 DEF SetupInv, BuiltOn
  <2>3. ASSUME NEW p \in SetupRequests, NEW j \in Setup!Steps, req'[p].applied[j] # 0 PROVE db'[j] # 0
      BY <1>1, <1>2, <2>3 DEF SetupInv, BuiltOn
  <2> QED BY <2>1, <2>2, <2>3 DEF BuiltOn
<1>5. ASSUME NEW p \in SetupRequests, p # q, Alone(p)'
      PROVE  /\ Alone(p) /\ req[q].ver = req[p].ver
             /\ \A j \in Setup!Steps : db[j] = req[p].ver => db'[j] = req[p].ver
    BY <1>1, <1>5 DEF SetupInv, AloneIsTrue, Alone
<1>6. Alone(q)' => Alone(q)
    BY <1>1 DEF Alone
<1>7. AloneIsTrue'
  <2> SUFFICES ASSUME NEW p \in SetupRequests, Alone(p)'
               PROVE  /\ \A o \in SetupRequests : req'[o].at \in Setup!Working => req'[o].ver = req'[p].ver
                      /\ \A e \in late' : e.ver = req'[p].ver
                      /\ req'[p].at \in Applying => \A j \in Setup!Steps : j < req'[p].next => db'[j] = req'[p].ver
                      /\ \A j \in Setup!Steps : req'[p].applied[j] = req'[p].ver => db'[j] = req'[p].ver
      BY DEF AloneIsTrue
  <2>1. Alone(p) /\ req'[p].ver = req[p].ver /\ req[q].ver = req[p].ver
      BY <1>1, <1>5, <1>6
  <2>2. \A o \in SetupRequests : req'[o].at \in Setup!Working => req'[o].ver = req'[p].ver
      BY <1>1, <2>1 DEF SetupInv, AloneIsTrue
  <2>3. \A e \in late' : e.ver = req'[p].ver
      BY <2>1 DEF SetupInv, AloneIsTrue
  <2>4. CASE p = q
      BY <2>1, <2>2, <2>3, <2>4, <1>1 DEF Alone
  <2>5. CASE p # q
      BY <2>1, <2>2, <2>3, <2>5, <1>1, <1>5 DEF SetupInv, AloneIsTrue
  <2> QED BY <2>4, <2>5
<1>8. Setup!SuccessIsComplete'
  <2> SUFFICES ASSUME NEW p \in SetupRequests, req'[p].at = "success", p \notin mixed', NEW j \in Setup!Steps
               PROVE  db'[j] = req'[p].ver
      BY DEF Setup!SuccessIsComplete
  <2>1. CASE p = q
      BY <2>1, <1>1
  <2>2. CASE p # q
    <3>1. Alone(p)' /\ req[p].at = "success"
        BY <2>2, <1>1 DEF Alone
    <3> QED BY <2>2, <3>1, <1>1, <1>5 DEF SetupInv, Setup!SuccessIsComplete
  <2> QED BY <2>1, <2>2
<1> QED BY <1>3, <1>4, <1>7, <1>8 DEF SetupInv

\* A migration that is written over what it builds on keeps the order.
LEMMA WrittenInOrder ==
    ASSUME Setup!SetupAssumption, SetupInv, NEW i \in Setup!Steps, NEW v \in Deployments, db' = [db EXCEPT ![i] = v],
           \A j \in Setup!Steps : j < i => db[j] # 0
    PROVE  /\ db' \in [Setup!Steps -> Marks] /\ Setup!InOrder' /\ db'[i] = v
           /\ \A j \in Setup!Steps \ {i} : db'[j] = db[j]
           /\ \A j \in Setup!Steps : db[j] # 0 => db'[j] # 0
<1>1. db \in [Setup!Steps -> Marks] /\ v # 0
    BY DEF SetupInv, SetupTypes, Setup!SetupAssumption
<1>2. db' \in [Setup!Steps -> Marks] /\ db'[i] = v /\ \A j \in Setup!Steps \ {i} : db'[j] = db[j]
    BY <1>1 DEF Marks
<1>3. Setup!InOrder'
  <2> SUFFICES ASSUME NEW k \in Setup!Steps, NEW j \in 1 .. k, db'[k] # 0 PROVE db'[j] # 0
      BY DEF Setup!InOrder
  <2>1. j \in Setup!Steps /\ j \in Nat /\ k \in Nat /\ i \in Nat /\ j <= k
      BY DEF Setup!Steps, Setup!SetupAssumption
  <2>2. CASE k = i
    <3>1. j = i \/ j < i
        BY <2>1, <2>2
    <3> QED BY <3>1, <2>1, <1>1, <1>2
  <2>3. CASE k # i
      BY <2>1, <2>3, <1>1, <1>2 DEF SetupInv, Setup!InOrder
  <2> QED BY <2>2, <2>3
<1> QED BY <1>1, <1>2, <1>3

LEMMA SetupBegin ==
    ASSUME Setup!SetupAssumption, SetupInv, NEW q \in SetupRequests, Setup!Begin(q)
    PROVE  SetupInv'
<1> DEFINE r == [Setup!Free EXCEPT !.at = "list", !.ver = deployed]
<1>1. r \in Bundles /\ r.at = "list" /\ r.ver = deployed /\ r.next = 1 /\ r.applied = Setup!NoneYet /\ deployed # 0
  <2>1. Setup!NoneYet \in [Setup!Steps -> Marks] /\ 1 \in Setup!Steps /\ deployed \in Marks /\ deployed # 0
      BY DEF Setup!NoneYet, Marks, Setup!Steps, Setup!SetupAssumption, SetupInv, SetupTypes
  <2> QED BY <2>1 DEF Setup!Free, Bundles, Setup!Working
<1> HIDE DEF r
<1>2. /\ req[q].at \notin Setup!Working /\ req' = [req EXCEPT ![q] = r]
      /\ UNCHANGED <<deployed, db, late, lost>>
    BY DEF Setup!Begin, r
<1>3. /\ req \in [SetupRequests -> Bundles] /\ \A p \in SetupRequests : req'[p] = IF p = q THEN r ELSE req[p]
      /\ \A p \in SetupRequests \ {q} : req'[p] = req[p]
    BY <1>2 DEF SetupInv, SetupTypes
<1>4. SetupTypes'
    BY <1>1, <1>2, <1>3 DEF SetupInv, SetupTypes
<1>5. Setup!InOrder'
    BY <1>2 DEF SetupInv, Setup!InOrder
<1>6. BuiltOn'
  <2>1. \A j \in Setup!Steps : r.applied[j] = 0
      BY <1>1 DEF Setup!NoneYet
  <2>2. r.at \notin Applying
      BY <1>1 DEF Applying
  <2> QED BY <1>2, <1>3, <2>1, <2>2 DEF SetupInv, BuiltOn
<1>7. ASSUME NEW p \in SetupRequests, p # q, Alone(p)'
      PROVE  Alone(p) /\ req[p].ver = deployed
    BY <1>2, <1>3, <1>7 DEF Alone, Setup!Begin, Setup!Beside, Setup!Working
<1>8. ASSUME Alone(q)'
      PROVE  /\ \A p \in SetupRequests : req[p].at \in Setup!Working => req[p].ver = deployed
             /\ \A e \in late : e.ver = deployed
    BY <1>8 DEF Alone, Setup!Begin, Setup!Beside
<1>9. AloneIsTrue'
  <2> SUFFICES ASSUME NEW p \in SetupRequests, Alone(p)'
               PROVE  /\ \A o \in SetupRequests : req'[o].at \in Setup!Working => req'[o].ver = req'[p].ver
                      /\ \A e \in late' : e.ver = req'[p].ver
                      /\ req'[p].at \in Applying => \A j \in Setup!Steps : j < req'[p].next => db'[j] = req'[p].ver
                      /\ \A j \in Setup!Steps : req'[p].applied[j] = req'[p].ver => db'[j] = req'[p].ver
      BY DEF AloneIsTrue
  <2>1. CASE p = q
      BY <2>1, <1>1, <1>2, <1>3, <1>8 DEF Setup!NoneYet, Applying
  <2>2. CASE p # q
      BY <2>2, <1>1, <1>2, <1>3, <1>7 DEF SetupInv, AloneIsTrue
  <2> QED BY <2>1, <2>2
<1>10. Setup!SuccessIsComplete'
  <2> SUFFICES ASSUME NEW p \in SetupRequests, req'[p].at = "success", p \notin mixed', NEW j \in Setup!Steps
               PROVE  db'[j] = req'[p].ver
      BY DEF Setup!SuccessIsComplete
  <2>1. p # q
      BY <1>1, <1>3
  <2>2. Alone(p)
      BY <2>1, <1>7 DEF Alone
  <2> QED BY <2>1, <2>2, <1>2, <1>3 DEF SetupInv, Setup!SuccessIsComplete, Alone
<1> QED BY <1>4, <1>5, <1>6, <1>9, <1>10 DEF SetupInv

\* What a request that is at work has.
LEMMA AtWork ==
    ASSUME Setup!SetupAssumption, SetupInv, NEW q \in SetupRequests, req[q].at \in Setup!Working
    PROVE  /\ req[q] \in Bundles /\ req[q].next \in Setup!Steps /\ req[q].ver \in Deployments /\ req[q].ver # 0
           /\ req[q].applied \in [Setup!Steps -> Marks]
           /\ db \in [Setup!Steps -> Marks] /\ late \subseteq [step : Setup!Steps, ver : Deployments] /\ lost \in 0 .. MaxLost
           /\ q \notin mixed => Alone(q)
<1>1. SetupTypes /\ req[q].at # "free"
    BY DEF SetupInv, Setup!Working
<1>2. req[q].ver \in Deployments /\ req[q].ver # 0
    BY <1>1 DEF SetupTypes, Setup!SetupAssumption
<1>3. req[q] \in Bundles
    BY <1>1 DEF SetupTypes
<1>4. req[q].next \in Setup!Steps /\ req[q].applied \in [Setup!Steps -> Marks]
    BY <1>3 DEF Bundles
<1>5. q \notin mixed => Alone(q)
    BY DEF Alone
<1> QED BY <1>1, <1>2, <1>3, <1>4, <1>5 DEF SetupTypes

LEMMA SetupList ==
    ASSUME Setup!SetupAssumption, SetupInv, NEW q \in SetupRequests, Setup!List(q)
    PROVE  SetupInv'
<1> DEFINE r == [req[q] EXCEPT !.at = "apply", !.applied = db]
<1>1. req[q].at \in Setup!Working /\ req[q].at = "list"
    BY DEF Setup!List, Setup!Working
<1>2. req' = [req EXCEPT ![q] = r] /\ UNCHANGED <<deployed, db, late, mixed, lost>>
    BY DEF Setup!List, SetupInv, SetupTypes
<1>3. r \in Bundles /\ r.at = "apply" /\ r.ver = req[q].ver /\ r.applied = db /\ r.next = req[q].next
    BY <1>1, AtWork DEF Bundles, Setup!Working
<1> HIDE DEF r
<1>4. /\ db' \in [Setup!Steps -> Marks] /\ Setup!InOrder' /\ lost' \in 0 .. MaxLost
      /\ late' \subseteq [step : Setup!Steps, ver : Deployments]
    BY <1>1, <1>2, AtWork DEF SetupInv, Setup!InOrder
<1>5. \A j \in Setup!Steps : ~(j < r.next)
  <2>1. r.next = 1
      BY <1>1, <1>3 DEF SetupInv, SetupTypes
  <2> QED BY <2>1 DEF Setup!Steps, Setup!SetupAssumption
<1>6. r.at \in Applying /\ r.at # "success"
    BY <1>3 DEF Applying
<1> QED BY <1>1, <1>2, <1>3, <1>4, <1>5, <1>6, RequestMoves

\* The request ends, or looks whether its migration is there after all.
LEMMA RequestFails ==
    ASSUME Setup!SetupAssumption, SetupInv, NEW q \in SetupRequests, req[q].at \in Setup!Working,
           NEW a \in {"failed", "relist"}, a = "relist" => req[q].at \in Applying,
           req' = [req EXCEPT ![q] = [req[q] EXCEPT !.at = a]],
           UNCHANGED <<deployed, mixed>>, lost' \in 0 .. MaxLost,
           db' \in [Setup!Steps -> Marks], Setup!InOrder',
           \A j \in Setup!Steps : db'[j] = db[j] \/ db'[j] = req[q].ver,
           late' \subseteq [step : Setup!Steps, ver : Deployments],
           \A e \in late' : e \in late \/ (e.ver = req[q].ver /\ \A j \in Setup!Steps : j < e.step => db'[j] # 0)
    PROVE  SetupInv'
<1> DEFINE r == [req[q] EXCEPT !.at = a]
<1>1. r \in Bundles /\ r.at = a /\ r.ver = req[q].ver /\ r.next = req[q].next /\ r.applied = req[q].applied
    BY AtWork DEF Bundles, Setup!Working
<1> HIDE DEF r
<1>2. req[q].ver # 0 /\ (q \notin mixed => Alone(q))
    BY AtWork
<1>3. r.at \in Applying => \A j \in Setup!Steps : j < r.next => db'[j] # 0
    BY <1>1, <1>2 DEF SetupInv, BuiltOn, Applying
<1>4. \A j \in Setup!Steps : r.applied[j] # 0 => db'[j] # 0
    BY <1>1, <1>2 DEF SetupInv, BuiltOn
<1>5. q \notin mixed =>
        /\ r.at \in Applying => \A j \in Setup!Steps : j < r.next => db'[j] = r.ver
        /\ \A j \in Setup!Steps : r.applied[j] = r.ver => db'[j] = r.ver
        /\ r.at = "success" => \A j \in Setup!Steps : db'[j] = r.ver
    BY <1>1, <1>2 DEF SetupInv, AloneIsTrue, Applying
<1>6. r.at \in Applying \cup {"success", "failed"}
    BY <1>1 DEF Applying
<1>7. req' = [req EXCEPT ![q] = r]
    BY DEF r
<1> QED BY <1>1, <1>3, <1>4, <1>5, <1>6, <1>7, RequestMoves

\* The request goes on to the next migration, when this one is in the database.
LEMMA GoesOn ==
    ASSUME Setup!SetupAssumption, SetupInv, NEW q \in SetupRequests, req[q].at \in Applying, NEW s \in Bundles,
           req' = [req EXCEPT ![q] = Setup!After(s)], s.ver = req[q].ver, s.next = req[q].next,
           UNCHANGED <<deployed, mixed, late, lost>>, db' \in [Setup!Steps -> Marks], Setup!InOrder',
           \A j \in Setup!Steps : db'[j] = db[j] \/ db'[j] = req[q].ver,
           db'[s.next] # 0, q \notin mixed => db'[s.next] = s.ver,
           \A j \in Setup!Steps : s.applied[j] = req[q].applied[j] \/ j = s.next
    PROVE  SetupInv'
<1> DEFINE r == Setup!After(s)
<1>1. /\ r \in Bundles /\ r.ver = s.ver /\ r.applied = s.applied
      /\ \/ r.at = "success" /\ s.next = MaxMigrations
         \/ r.at = "apply" /\ r.next = s.next + 1
    BY AfterIs
<1> HIDE DEF r
<1>2. /\ req[q].at \in Setup!Working /\ r.at \in Applying \cup {"success", "failed"}
      /\ s.next \in Setup!Steps
    BY <1>1 DEF Applying, Setup!Working, Bundles
<1>3. \A j \in Setup!Steps : db[j] # 0 => db'[j] # 0
    BY <1>2, AtWork
<1>4. \A j \in Setup!Steps : j <= s.next => db'[j] # 0
  <2> SUFFICES ASSUME NEW j \in Setup!Steps, j <= s.next PROVE db'[j] # 0
      OBVIOUS
  <2>1. j = s.next \/ j < s.next
      BY <1>2 DEF Setup!Steps, Setup!SetupAssumption
  <2> QED BY <2>1, <1>3 DEF SetupInv, BuiltOn
<1>5. q \notin mixed => \A j \in Setup!Steps : j <= s.next => db'[j] = r.ver
  <2> SUFFICES ASSUME q \notin mixed, NEW j \in Setup!Steps, j <= s.next PROVE db'[j] = r.ver
      OBVIOUS
  <2>1. j = s.next \/ j < s.next
      BY <1>2 DEF Setup!Steps, Setup!SetupAssumption
  <2>2. Alone(q)
      BY <1>2, AtWork
  <2> QED BY <2>1, <2>2, <1>1 DEF SetupInv, AloneIsTrue
<1>6. r.at \in Applying => \A j \in Setup!Steps : j < r.next => j <= s.next
    BY <1>1, <1>2 DEF Setup!Steps, Setup!SetupAssumption, Applying
<1>7. r.at = "success" => \A j \in Setup!Steps : j <= s.next
    BY <1>1, <1>2 DEF Setup!Steps, Setup!SetupAssumption
<1>8. \A j \in Setup!Steps : r.applied[j] # 0 => db'[j] # 0
    BY <1>1, <1>3 DEF SetupInv, BuiltOn
<1>9. q \notin mixed => \A j \in Setup!Steps : r.applied[j] = r.ver => db'[j] = r.ver
  <2> SUFFICES ASSUME q \notin mixed, NEW j \in Setup!Steps, r.applied[j] = r.ver PROVE db'[j] = r.ver
      OBVIOUS
  <2>1. Alone(q)
      BY <1>2, AtWork
  <2> QED BY <2>1, <1>1 DEF SetupInv, AloneIsTrue
<1>10. lost' \in 0 .. MaxLost /\ late' \subseteq [step : Setup!Steps, ver : Deployments]
    BY <1>2, AtWork
<1>11. req' = [req EXCEPT ![q] = r]
    BY DEF r
<1>12. r.at \in Applying => \A j \in Setup!Steps : j < r.next => db'[j] # 0
    BY <1>4, <1>6
<1>13. q \notin mixed =>
         /\ r.at \in Applying => \A j \in Setup!Steps : j < r.next => db'[j] = r.ver
         /\ \A j \in Setup!Steps : r.applied[j] = r.ver => db'[j] = r.ver
         /\ r.at = "success" => \A j \in Setup!Steps : db'[j] = r.ver
    BY <1>5, <1>6, <1>7, <1>9
<1>14. r.ver = req[q].ver /\ \A e \in late' : e \in late
    BY <1>1
<1> QED BY <1>1, <1>2, <1>8, <1>10, <1>11, <1>12, <1>13, <1>14, RequestMoves

LEMMA SetupSkip ==
    ASSUME Setup!SetupAssumption, SetupInv, NEW q \in SetupRequests, Setup!Skip(q)
    PROVE  SetupInv'
<1>1. /\ req[q].at \in Setup!Working /\ req[q].at \in Applying /\ req[q].applied[req[q].next] = req[q].ver
      /\ req' = [req EXCEPT ![q] = Setup!After(req[q])] /\ UNCHANGED <<deployed, db, late, mixed, lost>>
    BY DEF Setup!Skip, Setup!Skipped, Setup!Working, Applying
<1>2. db' \in [Setup!Steps -> Marks] /\ Setup!InOrder' /\ req[q] \in Bundles /\ req[q].next \in Setup!Steps
    BY <1>1, AtWork DEF SetupInv, Setup!InOrder
<1>3. db'[req[q].next] # 0
    BY <1>1, <1>2, AtWork DEF SetupInv, BuiltOn
<1>4. q \notin mixed => db'[req[q].next] = req[q].ver
    BY <1>1, <1>2, AtWork DEF SetupInv, AloneIsTrue
<1> QED BY <1>1, <1>2, <1>3, <1>4, GoesOn

\* The migration of a request is written.
LEMMA VersionWritten ==
    ASSUME Setup!SetupAssumption, SetupInv, NEW q \in SetupRequests, req[q].at = "apply",
           db' = [db EXCEPT ![req[q].next] = req[q].ver]
    PROVE  /\ db' \in [Setup!Steps -> Marks] /\ Setup!InOrder' /\ db'[req[q].next] = req[q].ver
           /\ \A j \in Setup!Steps : db'[j] = db[j] \/ db'[j] = req[q].ver
           /\ \A j \in Setup!Steps : db[j] # 0 => db'[j] # 0
<1>1. req[q].next \in Setup!Steps /\ req[q].ver \in Deployments
    BY AtWork DEF Setup!Working
<1>2. \A j \in Setup!Steps : j < req[q].next => db[j] # 0
    BY DEF SetupInv, BuiltOn, Applying
<1> QED BY <1>1, <1>2, WrittenInOrder

LEMMA SetupApply ==
    ASSUME Setup!SetupAssumption, SetupInv, NEW q \in SetupRequests, Setup!Apply(q)
    PROVE  SetupInv'
<1> DEFINE s == [req[q] EXCEPT !.applied[req[q].next] = req[q].ver]
<1>1. /\ req[q].at = "apply" /\ req[q].at \in Setup!Working /\ req[q].at \in Applying
      /\ db' = [db EXCEPT ![req[q].next] = req[q].ver] /\ req' = [req EXCEPT ![q] = Setup!After(s)]
      /\ UNCHANGED <<deployed, late, mixed, lost>>
    BY DEF Setup!Apply, Setup!Working, Applying
<1>2. s = [req[q] EXCEPT !.applied = [req[q].applied EXCEPT ![req[q].next] = req[q].ver]]
    OBVIOUS
<1>3. [req[q].applied EXCEPT ![req[q].next] = req[q].ver] \in [Setup!Steps -> Marks]
    BY <1>1, AtWork DEF Marks
<1>4. /\ s \in Bundles /\ s.ver = req[q].ver /\ s.next = req[q].next
      /\ s.applied = [req[q].applied EXCEPT ![req[q].next] = req[q].ver]
    BY <1>1, <1>2, <1>3, AtWork DEF Bundles
<1> HIDE DEF s
<1>5. \A j \in Setup!Steps : s.applied[j] = req[q].applied[j] \/ j = s.next
    BY <1>1, <1>4, AtWork
<1>6. req[q].ver # 0
    BY <1>1, AtWork
<1>7. /\ db' \in [Setup!Steps -> Marks] /\ Setup!InOrder' /\ db'[req[q].next] = req[q].ver
      /\ \A j \in Setup!Steps : db'[j] = db[j] \/ db'[j] = req[q].ver
    BY <1>1, VersionWritten
<1>8. db'[s.next] # 0 /\ db'[s.next] = s.ver
    BY <1>4, <1>6, <1>7
<1> QED BY <1>1, <1>4, <1>5, <1>7, <1>8, GoesOn

LEMMA SetupRelist ==
    ASSUME Setup!SetupAssumption, SetupInv, NEW q \in SetupRequests, Setup!Relist(q)
    PROVE  SetupInv'
<1>1. /\ req[q].at = "relist" /\ req[q].at \in Setup!Working /\ req[q].at \in Applying
      /\ UNCHANGED <<deployed, db, late, mixed, lost>>
      /\ db' \in [Setup!Steps -> Marks] /\ Setup!InOrder'
  <2>1. req[q].at = "relist" /\ req[q].at \in Setup!Working /\ req[q].at \in Applying /\ UNCHANGED <<deployed, db, late, mixed, lost>>
      BY DEF Setup!Relist, Setup!Working, Applying
  <2> QED BY <2>1, AtWork DEF SetupInv, Setup!InOrder
<1>2. CASE db[req[q].next] = req[q].ver
  <2> DEFINE s == [req[q] EXCEPT !.applied[req[q].next] = req[q].ver]
  <2>1. req' = [req EXCEPT ![q] = Setup!After(s)]
      BY <1>2 DEF Setup!Relist
  <2>2. s = [req[q] EXCEPT !.applied = [req[q].applied EXCEPT ![req[q].next] = req[q].ver]]
      OBVIOUS
  <2>3. [req[q].applied EXCEPT ![req[q].next] = req[q].ver] \in [Setup!Steps -> Marks]
      BY <1>1, AtWork DEF Marks
  <2>4. /\ s \in Bundles /\ s.ver = req[q].ver /\ s.next = req[q].next
        /\ s.applied = [req[q].applied EXCEPT ![req[q].next] = req[q].ver]
      BY <1>1, <2>2, <2>3, AtWork DEF Bundles
  <2> HIDE DEF s
  <2>5. \A j \in Setup!Steps : s.applied[j] = req[q].applied[j] \/ j = s.next
      BY <1>1, <2>4, AtWork
  <2>6. req[q].ver # 0
      BY <1>1, AtWork
  <2>7. db'[s.next] # 0 /\ db'[s.next] = s.ver /\ \A j \in Setup!Steps : db'[j] = db[j] \/ db'[j] = req[q].ver
      BY <1>1, <1>2, <2>4, <2>6
  <2> QED BY <1>1, <2>1, <2>4, <2>5, <2>7, GoesOn
<1>3. CASE db[req[q].next] # req[q].ver
  <2>1. req' = [req EXCEPT ![q] = [req[q] EXCEPT !.at = "failed"]]
      BY <1>3 DEF Setup!Relist
  <2>2. lost' \in 0 .. MaxLost /\ late' \subseteq [step : Setup!Steps, ver : Deployments]
      BY <1>1, AtWork
  <2> QED BY <1>1, <2>1, <2>2, RequestFails
<1> QED BY <1>2, <1>3

LEMMA SetupApplyLost ==
    ASSUME Setup!SetupAssumption, SetupInv, NEW q \in SetupRequests, NEW executed \in BOOLEAN, NEW later \in BOOLEAN,
           Setup!ApplyLost(q, executed, later), ~(executed /\ later)
    PROVE  SetupInv'
<1>1. /\ req[q].at = "apply" /\ req[q].at \in Setup!Working /\ req[q].at \in Applying
      /\ req' = [req EXCEPT ![q] = [req[q] EXCEPT !.at = "relist"]]
      /\ UNCHANGED <<deployed, mixed>> /\ lost < MaxLost /\ lost' = lost + 1
      /\ db' = (IF executed THEN [db EXCEPT ![req[q].next] = req[q].ver] ELSE db)
      /\ late' = (IF later THEN late \cup {[step |-> req[q].next, ver |-> req[q].ver]} ELSE late)
    BY DEF Setup!ApplyLost, Setup!Working, Applying, SetupInv, SetupTypes
<1>2. lost' \in 0 .. MaxLost
    BY <1>1, AtWork DEF Setup!SetupAssumption
<1>3. /\ db' \in [Setup!Steps -> Marks] /\ Setup!InOrder'
      /\ \A j \in Setup!Steps : db'[j] = db[j] \/ db'[j] = req[q].ver
      /\ \A j \in Setup!Steps : db[j] # 0 => db'[j] # 0
  <2>1. CASE executed
      BY <2>1, <1>1, VersionWritten
  <2>2. CASE ~executed
      BY <2>2, <1>1, AtWork DEF SetupInv, Setup!InOrder
  <2> QED BY <2>1, <2>2
<1>4. late' \subseteq [step : Setup!Steps, ver : Deployments]
    BY <1>1, AtWork
<1>5. \A e \in late' : e \in late \/ (e.ver = req[q].ver /\ \A j \in Setup!Steps : j < e.step => db'[j] # 0)
  <2> SUFFICES ASSUME NEW e \in late', e \notin late
               PROVE  e.ver = req[q].ver /\ \A j \in Setup!Steps : j < e.step => db'[j] # 0
      OBVIOUS
  <2>1. e.ver = req[q].ver /\ e.step = req[q].next
      BY <1>1
  <2> QED BY <2>1, <1>1, <1>3 DEF SetupInv, BuiltOn
<1> QED BY <1>1, <1>2, <1>3, <1>4, <1>5, RequestFails

LEMMA SetupListLost ==
    ASSUME Setup!SetupAssumption, SetupInv, NEW q \in SetupRequests, Setup!ListLost(q)
    PROVE  SetupInv'
<1>1. /\ req[q].at \in Setup!Working
      /\ req' = [req EXCEPT ![q] = [req[q] EXCEPT !.at = "failed"]]
      /\ UNCHANGED <<deployed, db, late, mixed>> /\ lost < MaxLost /\ lost' = lost + 1
    BY DEF Setup!ListLost, Setup!Working, SetupInv, SetupTypes
<1>2. lost' \in 0 .. MaxLost
    BY <1>1, AtWork DEF Setup!SetupAssumption
<1>3. db' \in [Setup!Steps -> Marks] /\ Setup!InOrder' /\ late' \subseteq [step : Setup!Steps, ver : Deployments]
    BY <1>1, AtWork DEF SetupInv, Setup!InOrder
<1> QED BY <1>1, <1>2, <1>3, RequestFails

LEMMA SetupExecuted ==
    ASSUME Setup!SetupAssumption, SetupInv, NEW e \in late, Setup!Executed(e)
    PROVE  SetupInv'
<1>1. /\ e.step \in Setup!Steps /\ e.ver \in Deployments /\ late' \subseteq late
      /\ db' = [db EXCEPT ![e.step] = e.ver] /\ UNCHANGED <<deployed, req, mixed, lost>>
    BY DEF Setup!Executed, SetupInv, SetupTypes
<1>2. \A j \in Setup!Steps : j < e.step => db[j] # 0
    BY DEF SetupInv, BuiltOn
<1>3. /\ db' \in [Setup!Steps -> Marks] /\ Setup!InOrder' /\ db'[e.step] = e.ver
      /\ \A j \in Setup!Steps \ {e.step} : db'[j] = db[j]
      /\ \A j \in Setup!Steps : db[j] # 0 => db'[j] # 0
    BY <1>1, <1>2, WrittenInOrder
<1>4. SetupTypes' /\ BuiltOn'
    BY <1>1, <1>3 DEF SetupInv, SetupTypes, BuiltOn
<1>5. \A q \in SetupRequests : Alone(q) => \A j \in Setup!Steps : db[j] = req[q].ver => db'[j] = req[q].ver
    BY <1>1, <1>3 DEF SetupInv, AloneIsTrue
<1>6. AloneIsTrue'
    BY <1>1, <1>5 DEF SetupInv, AloneIsTrue, Alone
<1>7. Setup!SuccessIsComplete'
    BY <1>1, <1>5 DEF SetupInv, Setup!SuccessIsComplete, Alone
<1> QED BY <1>3, <1>4, <1>6, <1>7 DEF SetupInv

\* The inductive invariant of the initialization: what a request or a late query builds on
\* is there, and what a request without another version beside it found and did still is.
THEOREM SetupInvariant == Setup!SetupAssumption => (Setup!Spec => []SetupInv)
<1> SUFFICES ASSUME Setup!SetupAssumption PROVE Setup!Spec => []SetupInv
    OBVIOUS
<1>1. Setup!Init => SetupInv
  <2> SUFFICES ASSUME Setup!Init PROVE SetupInv
      OBVIOUS
  <2>1. Setup!NoneYet \in [Setup!Steps -> Marks] /\ 1 \in Setup!Steps /\ deployed \in Deployments
      BY DEF Setup!NoneYet, Marks, Setup!Steps, Setup!SetupAssumption, Setup!Init
  <2>2. Setup!Free \in Bundles /\ Setup!Free.at = "free" /\ Setup!Free.applied = Setup!NoneYet
      BY <2>1 DEF Setup!Free, Bundles, Marks, Setup!Working
  <2>3. /\ req = [q \in SetupRequests |-> Setup!Free] /\ db = Setup!NoneYet /\ late = {} /\ mixed = {} /\ lost = 0
        /\ \A q \in SetupRequests : req[q] = Setup!Free
      BY DEF Setup!Init
  <2>4. SetupTypes
      BY <2>1, <2>2, <2>3 DEF SetupTypes, Setup!SetupAssumption
  <2>5. Setup!InOrder
    <3>1. \A i \in Setup!Steps : db[i] = 0
        BY <2>3 DEF Setup!NoneYet
    <3> QED BY <3>1 DEF Setup!InOrder
  <2>6. BuiltOn
    <3>1. \A j \in Setup!Steps : Setup!Free.applied[j] = 0
        BY <2>2 DEF Setup!NoneYet
    <3> QED BY <2>2, <2>3, <3>1 DEF BuiltOn, Applying
  <2>7. AloneIsTrue /\ Setup!SuccessIsComplete
      BY <2>2, <2>3 DEF AloneIsTrue, Setup!SuccessIsComplete, Alone, Setup!Working
  <2> QED BY <2>4, <2>5, <2>6, <2>7 DEF SetupInv
<1>2. SetupInv /\ [Setup!Next]_Setup!vars => SetupInv'
  <2> SUFFICES ASSUME SetupInv, [Setup!Next]_Setup!vars PROVE SetupInv'
      OBVIOUS
  <2>1. CASE UNCHANGED Setup!vars
      BY <2>1 DEF Setup!vars, SetupInv, SetupTypes, Setup!InOrder, BuiltOn, AloneIsTrue, Alone, Setup!SuccessIsComplete
  <2>2. ASSUME NEW v \in Deployments, Setup!Deploy(v) PROVE SetupInv'
      BY <2>2 DEF Setup!Deploy, SetupInv, SetupTypes, Setup!InOrder, BuiltOn, AloneIsTrue, Alone, Setup!SuccessIsComplete
  <2> QED BY <2>1, <2>2, SetupBegin, SetupList, SetupSkip, SetupApply, SetupRelist, SetupListLost, SetupApplyLost,
             SetupExecuted DEF Setup!Next
<1> QED BY <1>1, <1>2, PTL DEF Setup!Spec

\* Migrations are applied in order and "success" means the whole bundle, whatever requests of
\* administrators overlap, fail or are executed late (applyBundledMigrations).
THEOREM MigrationsAreWhole == Setup!SetupAssumption => (Setup!Spec => [](Setup!InOrder /\ Setup!SuccessIsComplete))
<1>1. SetupInv => Setup!InOrder /\ Setup!SuccessIsComplete
    BY DEF SetupInv
<1> QED BY <1>1, SetupInvariant, PTL

-----------------------------------------------------------------------------
(* The traffic counters: the inductive invariant and the proofs *)

\* Complete generations, and what a name of a file may stand for.
Complete == [rev : Nat \ {0}, period : Nat, day : Nat, total : Nat, raw : Nat, boot : Nat, closed : Nat]
Names == [main : Complete \cup {Traffic!None, Traffic!Torn}, bak : Complete \cup {Traffic!None, Traffic!Torn}, stages : SUBSET (Complete \cup {Traffic!Torn})]

TrafficTypes ==
    /\ machine \in [raw : Nat, sent : Nat, boot : Nat \ {0}, since : Nat]
    /\ clock \in [period : Nat \ {0}, day : Nat]
    /\ machine.raw <= machine.sent /\ machine.since <= clock.period
    /\ mem \in Complete \cup {Traffic!None} /\ saved \subseteq Complete \cup {Traffic!None}
    /\ disk \in Names /\ durable \in Names
    /\ save \in [at : {"idle", "stage", "backup", "synced", "main", "sync"}, prior : Complete \cup {Traffic!None}]

\* What a step of a save finds.
Phases ==
    /\ save.at # "idle" => mem \in Complete \cap saved
    /\ save.at \in {"backup", "synced", "main"} => mem \in disk.stages
    /\ save.at = "sync" => disk.main = mem
    /\ save.at \in {"stage", "backup"} => save.prior \in Traffic!Generations(disk) \cup {Traffic!None}
    /\ save.at = "backup" => save.prior # Traffic!None

AllGenerations == Traffic!Files \cup {mem, Traffic!None}

\* Revisions: the tracker's is the newest, and the directory has one as new as what would
\* survive a loss of power.
Newest ==
    /\ \A g \in Traffic!Files : g.rev <= mem.rev
    /\ \A g \in Traffic!Generations(durable) : \E h \in Traffic!Generations(disk) : g.rev <= h.rev

\* What is saved: generations newer than a saved one, and both files with the name that load
\* reads first, once a save returned.
Saves ==
    /\ \A g, s \in Traffic!Files : s \in saved /\ s.rev <= g.rev => g \in saved
    /\ Traffic!None \in saved => Traffic!Files \subseteq saved
    /\ Traffic!None \notin saved => disk.main \in saved /\ durable.main \in saved

\* The traffic that a generation counted, and all it has not seen, was sent.
Counts(g) ==
    /\ g.period <= clock.period /\ g.day <= clock.day /\ g.boot <= machine.boot
    /\ g.period = 0 => g.boot = 0
    /\ IF g.boot = machine.boot
       THEN /\ g.raw <= machine.raw /\ machine.since <= g.period
            /\ g.closed + g.total + (machine.raw - g.raw) <= machine.sent
       ELSE g.closed + g.total + machine.raw <= machine.sent

\* A newer generation is of no earlier boot, day or period, and two of this boot and day lead
\* to the same total.
Agree(g, h) ==
    /\ g.rev <= h.rev => g.boot <= h.boot /\ g.day <= h.day /\ g.period <= h.period
    /\ g.rev = h.rev => g = h
    /\ ({g.boot, h.boot} = {machine.boot} /\ g.day = h.day)
            => g.closed + g.total + h.raw = h.closed + h.total + g.raw

AllCount == \A g \in AllGenerations : Counts(g)
AllAgree == \A g, h \in AllGenerations : Agree(g, h)

\* The inductive invariant of the traffic counters.
TrafficInv == TrafficTypes /\ Phases /\ Newest /\ Saves /\ AllCount /\ AllAgree

-----------------------------------------------------------------------------
LEMMA Least == ASSUME NEW T, T \subseteq Nat, T # {} PROVE \E x \in T : \A y \in T : x <= y
<1> DEFINE R == OpToRel(<, Nat)
<1>1. IsWellFoundedOn(R, Nat)
   BY NatLessThanWellFounded
<1>2. \A y, x \in Nat : y < x => <<y, x>> \in R
   BY DEF OpToRel
<1> HIDE DEF R
<1>3. PICK x \in T : \A y \in T : ~ (<<y, x>> \in R)
   BY <1>1, WFMin
<1>4. ASSUME NEW y \in T PROVE x <= y
  <2>1. x \in Nat /\ y \in Nat
     OBVIOUS
  <2>2. ~(y < x)
     BY <1>2, <1>3, <2>1
  <2> QED BY <2>1, <2>2
<1> QED BY <1>4

LEMMA Greatest ==
    ASSUME NEW T, T \subseteq Nat, T # {}, NEW n \in Nat, \A x \in T : x <= n
    PROVE  \E x \in T : \A y \in T : y <= x
<1> DEFINE U == {k \in Nat : n - k \in T}
<1>1. \A x \in T : x \in Nat /\ n - x \in U
  <2> SUFFICES ASSUME NEW x \in T PROVE x \in Nat /\ n - x \in U
     OBVIOUS
  <2>1. x \in Nat /\ n - x \in Nat /\ n - (n - x) = x
     OBVIOUS
  <2> QED BY <2>1
<1>2. U \subseteq Nat /\ U # {}
   BY <1>1
<1>3. PICK u \in U : \A v \in U : u <= v
   BY <1>2, Least
<1>4. n - u \in T /\ u \in Nat
   OBVIOUS
<1>5. ASSUME NEW y \in T PROVE y <= n - u
  <2>1. u <= n - y /\ y \in Nat
     BY <1>1, <1>3
  <2> QED BY <2>1, <1>4
<1> QED BY <1>4, <1>5

LEMMA TornIs ==
    ASSUME Traffic!TrafficAssumption
    PROVE  Traffic!None \notin Complete /\ Traffic!Torn \notin Complete /\ Traffic!None.rev = 0
<1>1. Traffic!None.rev = 0 /\ Traffic!Torn.rev = 0
    BY DEF Traffic!None, Traffic!Torn
<1> QED BY <1>1 DEF Complete

\* What load finds are the complete generations under the names it reads.
LEMMA GenerationsAre ==
    ASSUME Traffic!TrafficAssumption, NEW f \in Names
    PROVE  Traffic!Generations(f) = ({f.main, f.bak} \cup f.stages) \cap Complete
BY TornIs DEF Traffic!Generations, Traffic!Candidates, Names

\* readTrafficResetState: of the generations, which are not newer than a bound, the newest.
LEMMA BestIs ==
    ASSUME Traffic!TrafficAssumption, NEW f \in Names, NEW n \in Nat, \A g \in Traffic!Generations(f) : g.rev <= n
    PROVE  /\ Traffic!Generations(f) = {} => Traffic!Best(f) = Traffic!None
           /\ Traffic!Generations(f) # {} => Traffic!Best(f) \in Traffic!Generations(f) /\ \A h \in Traffic!Generations(f) : h.rev <= Traffic!Best(f).rev
<1>1. CASE Traffic!Generations(f) = {}
    BY <1>1 DEF Traffic!Best
<1>2. CASE Traffic!Generations(f) # {}
  <2> DEFINE T == {g.rev : g \in Traffic!Generations(f)}
  <2>1. Traffic!Generations(f) \subseteq Complete
      BY GenerationsAre
  <2>2. T \subseteq Nat /\ T # {} /\ \A x \in T : x <= n
      BY <1>2, <2>1 DEF Complete
  <2>3. \E x \in T : \A y \in T : y <= x
    <3> HIDE DEF T
    <3> QED BY <2>2, Greatest
  <2>4. \E g \in Traffic!Generations(f) : \A h \in Traffic!Generations(f) : h.rev <= g.rev
      BY <2>3
  <2> QED BY <1>2, <2>4 DEF Traffic!Best
<1> QED BY <1>1, <1>2

LEMMA TrafficParts ==
    ASSUME Traffic!TrafficAssumption, TrafficInv
    PROVE  /\ Traffic!Generations(disk) = ({disk.main, disk.bak} \cup disk.stages) \cap Complete
           /\ Traffic!Generations(durable) = ({durable.main, durable.bak} \cup durable.stages) \cap Complete
           /\ Traffic!Files \subseteq Complete /\ AllGenerations \subseteq Complete \cup {Traffic!None}
           /\ mem.rev \in Nat /\ \A g \in AllGenerations : g.rev \in Nat /\ g.rev <= mem.rev
<1>1. /\ Traffic!Generations(disk) = ({disk.main, disk.bak} \cup disk.stages) \cap Complete
      /\ Traffic!Generations(durable) = ({durable.main, durable.bak} \cup durable.stages) \cap Complete
    BY GenerationsAre DEF TrafficInv, TrafficTypes
<1>2. Traffic!Files \subseteq Complete /\ AllGenerations \subseteq Complete \cup {Traffic!None}
    BY <1>1 DEF Traffic!Files, AllGenerations, TrafficInv, TrafficTypes
<1>3. \A g \in Complete \cup {Traffic!None} : g.rev \in Nat
    BY TornIs DEF Complete
<1>4. mem.rev \in Nat /\ Traffic!None.rev = 0
    BY <1>3, TornIs DEF TrafficInv, TrafficTypes
<1>5. \A g \in AllGenerations : g.rev \in Nat /\ g.rev <= mem.rev
    BY <1>2, <1>3, <1>4 DEF AllGenerations, TrafficInv, Newest
<1> QED BY <1>1, <1>2, <1>4, <1>5

\* Generations that go do no harm.
LEMMA FewerAgree ==
    ASSUME TrafficInv, UNCHANGED <<machine, clock>>, AllGenerations' \subseteq AllGenerations
    PROVE  AllCount' /\ AllAgree'
<1>1. AllCount'
  <2> SUFFICES ASSUME NEW g \in AllGenerations' PROVE Counts(g)'
      BY DEF AllCount
  <2>1. Counts(g)
      BY DEF TrafficInv, AllCount
  <2> QED BY <2>1 DEF Counts
<1>2. AllAgree'
  <2> SUFFICES ASSUME NEW g \in AllGenerations', NEW h \in AllGenerations' PROVE Agree(g, h)'
      BY DEF AllAgree
  <2>1. Agree(g, h)
      BY DEF TrafficInv, AllAgree
  <2> QED BY <2>1 DEF Agree
<1> QED BY <1>1, <1>2

\* The steps of a save.
LEMMA TrafficStage ==
    ASSUME Traffic!TrafficAssumption, TrafficInv, Traffic!Stage
    PROVE  TrafficInv'
<1>1. /\ disk' = [disk EXCEPT !.stages = disk.stages \cup {mem}] /\ save.at = "stage"
      /\ save' = [save EXCEPT !.at = IF save.prior = Traffic!None THEN "main" ELSE "backup"]
      /\ UNCHANGED <<machine, clock, mem, durable, saved>>
    BY DEF Traffic!Stage
<1>2. mem \in Complete /\ mem \in saved /\ save.prior \in Traffic!Generations(disk) \cup {Traffic!None}
    BY <1>1 DEF TrafficInv, Phases
<1>3. TrafficTypes'
    BY <1>1, <1>2 DEF TrafficInv, TrafficTypes, Names
<1>4. /\ Traffic!Generations(disk') = Traffic!Generations(disk) \cup {mem}
      /\ disk'.main = disk.main /\ mem \in disk'.stages
  <2>1. disk' \in Names /\ disk'.main = disk.main /\ disk'.bak = disk.bak /\ disk'.stages = disk.stages \cup {mem}
      BY <1>1, <1>3 DEF TrafficInv, TrafficTypes, Names
  <2>2. Traffic!Generations(disk') = ({disk'.main, disk'.bak} \cup disk'.stages) \cap Complete
      BY <2>1, GenerationsAre
  <2> QED BY <1>2, <2>1, <2>2, TrafficParts
<1>5. Traffic!Files' = Traffic!Files \cup {mem} /\ AllGenerations' \subseteq AllGenerations
    BY <1>1, <1>4 DEF Traffic!Files, AllGenerations
<1>6. AllCount' /\ AllAgree'
    BY <1>1, <1>5, FewerAgree
<1>7. Phases'
    BY <1>1, <1>2, <1>4 DEF Phases, TrafficInv, TrafficTypes
<1>8. Newest'
    BY <1>1, <1>4, <1>5, TrafficParts DEF Newest, TrafficInv, AllGenerations
<1>9. Saves'
  <2>1. \A g \in Traffic!Files : mem.rev <= g.rev => g = mem
    <3> SUFFICES ASSUME NEW g \in Traffic!Files, mem.rev <= g.rev PROVE g = mem
        OBVIOUS
    <3>1. g \in AllGenerations /\ mem \in AllGenerations
        BY DEF AllGenerations
    <3>2. g.rev = mem.rev
        BY <3>1, TrafficParts
    <3> QED BY <3>1, <3>2 DEF TrafficInv, AllAgree, Agree
  <2> QED BY <1>1, <1>2, <1>4, <1>5, <2>1 DEF Saves, TrafficInv
<1> QED BY <1>3, <1>6, <1>7, <1>8, <1>9 DEF TrafficInv

\* A step of a save that leaves no generation but some of those before, the staged one too.
LEMMA SaveGoesOn ==
    ASSUME Traffic!TrafficAssumption, TrafficInv, UNCHANGED <<machine, clock, mem, saved>>,
           mem \in Complete, TrafficTypes', Phases',
           Traffic!Generations(disk') \subseteq Traffic!Generations(disk), mem \in Traffic!Generations(disk'),
           durable' = durable \/ durable' = disk,
           disk'.main = disk.main \/ disk'.main \in saved
    PROVE  TrafficInv'
<1>1. Traffic!Files' \subseteq Traffic!Files /\ AllGenerations' \subseteq AllGenerations
    BY DEF Traffic!Files, AllGenerations
<1>2. AllCount' /\ AllAgree'
    BY <1>1, FewerAgree
<1>3. Newest'
    BY <1>1 DEF Newest, Traffic!Files, TrafficInv
<1>4. Saves'
    BY <1>1 DEF Saves, TrafficInv
<1> QED BY <1>2, <1>3, <1>4 DEF TrafficInv

LEMMA TrafficBackup ==
    ASSUME Traffic!TrafficAssumption, TrafficInv, Traffic!Backup
    PROVE  TrafficInv'
<1>1. /\ disk' = [disk EXCEPT !.bak = save.prior] /\ save.at = "backup"
      /\ save' = [save EXCEPT !.at = "synced"]
      /\ UNCHANGED <<machine, clock, mem, durable, saved>>
    BY DEF Traffic!Backup
<1>2. mem \in Complete /\ mem \in saved /\ save.prior \in Traffic!Generations(disk) /\ mem \in disk.stages
    BY <1>1 DEF TrafficInv, Phases
<1>3. TrafficTypes'
    BY <1>1, <1>2 DEF TrafficInv, TrafficTypes, Names
<1>4. /\ Traffic!Generations(disk') \subseteq Traffic!Generations(disk) /\ mem \in Traffic!Generations(disk')
      /\ disk'.main = disk.main /\ mem \in disk'.stages
  <2>1. disk' \in Names /\ disk'.main = disk.main /\ disk'.bak = save.prior /\ disk'.stages = disk.stages
      BY <1>1, <1>3 DEF TrafficInv, TrafficTypes, Names
  <2>2. Traffic!Generations(disk') = ({disk'.main, disk'.bak} \cup disk'.stages) \cap Complete
      BY <2>1, GenerationsAre
  <2> QED BY <1>2, <2>1, <2>2, TrafficParts
<1>5. Phases'
    BY <1>1, <1>2, <1>4 DEF Phases, TrafficInv, TrafficTypes
<1> QED BY <1>1, <1>2, <1>3, <1>4, <1>5, SaveGoesOn

LEMMA TrafficBackupSync ==
    ASSUME Traffic!TrafficAssumption, TrafficInv, Traffic!BackupSync
    PROVE  TrafficInv'
<1>1. /\ durable' = disk /\ save.at = "synced" /\ save' = [save EXCEPT !.at = "main"]
      /\ UNCHANGED <<machine, clock, mem, disk, saved>>
    BY DEF Traffic!BackupSync
<1>2. mem \in Complete /\ mem \in saved /\ mem \in disk.stages
    BY <1>1 DEF TrafficInv, Phases
<1>3. TrafficTypes'
    BY <1>1, <1>2 DEF TrafficInv, TrafficTypes
<1>4. mem \in Traffic!Generations(disk') /\ Traffic!Generations(disk') = Traffic!Generations(disk)
    BY <1>1, <1>2, TrafficParts
<1>5. Phases'
    BY <1>1, <1>2 DEF Phases, TrafficInv, TrafficTypes
<1> QED BY <1>1, <1>2, <1>3, <1>4, <1>5, SaveGoesOn

LEMMA TrafficReplace ==
    ASSUME Traffic!TrafficAssumption, TrafficInv, Traffic!Replace
    PROVE  TrafficInv'
<1>1. /\ disk' = [disk EXCEPT !.main = mem, !.stages = disk.stages \ {mem}] /\ save.at = "main"
      /\ save' = [save EXCEPT !.at = "sync"]
      /\ UNCHANGED <<machine, clock, mem, durable, saved>>
    BY DEF Traffic!Replace
<1>2. mem \in Complete /\ mem \in saved /\ mem \in disk.stages
    BY <1>1 DEF TrafficInv, Phases
<1>3. TrafficTypes'
    BY <1>1, <1>2 DEF TrafficInv, TrafficTypes, Names
<1>4. /\ Traffic!Generations(disk') \subseteq Traffic!Generations(disk) /\ mem \in Traffic!Generations(disk')
      /\ disk'.main = mem
  <2>1. disk' \in Names /\ disk'.main = mem /\ disk'.bak = disk.bak /\ disk'.stages = disk.stages \ {mem}
      BY <1>1, <1>3 DEF TrafficInv, TrafficTypes, Names
  <2>2. Traffic!Generations(disk') = ({disk'.main, disk'.bak} \cup disk'.stages) \cap Complete
      BY <2>1, GenerationsAre
  <2> QED BY <1>2, <2>1, <2>2, TrafficParts
<1>5. Phases'
    BY <1>1, <1>2, <1>4 DEF Phases, TrafficInv, TrafficTypes
<1> QED BY <1>1, <1>2, <1>3, <1>4, <1>5, SaveGoesOn

LEMMA TrafficFinish ==
    ASSUME Traffic!TrafficAssumption, TrafficInv, Traffic!Finish
    PROVE  TrafficInv'
<1>1. /\ durable' = disk /\ saved' = {mem} /\ disk' = [disk EXCEPT !.stages = {}] /\ save' = Traffic!Idle
      /\ save.at = "sync" /\ UNCHANGED <<machine, clock, mem>>
    BY DEF Traffic!Finish
<1>2. mem \in Complete /\ mem # Traffic!None /\ disk.main = mem
    BY <1>1, TornIs DEF TrafficInv, Phases
<1>3. TrafficTypes'
    BY <1>1, <1>2 DEF TrafficInv, TrafficTypes, Names, Traffic!Idle
<1>4. /\ Traffic!Generations(disk') \subseteq Traffic!Generations(disk) /\ mem \in Traffic!Generations(disk')
      /\ disk'.main = mem
  <2>1. disk' \in Names /\ disk'.main = mem /\ disk'.bak = disk.bak /\ disk'.stages = {}
      BY <1>1, <1>2, <1>3 DEF TrafficInv, TrafficTypes, Names
  <2>2. Traffic!Generations(disk') = ({disk'.main, disk'.bak} \cup disk'.stages) \cap Complete
      BY <2>1, GenerationsAre
  <2> QED BY <1>2, <2>1, <2>2, TrafficParts
<1>5. Traffic!Files' = Traffic!Generations(disk) /\ Traffic!Files' \subseteq Traffic!Files /\ AllGenerations' \subseteq AllGenerations
    BY <1>1, <1>4 DEF Traffic!Files, AllGenerations
<1>6. AllCount' /\ AllAgree'
    BY <1>1, <1>5, FewerAgree
<1>7. Phases'
    BY <1>1 DEF Phases, Traffic!Idle
<1>8. Newest'
    BY <1>1, <1>4, <1>5 DEF Newest, TrafficInv, Traffic!Files
<1>9. Saves'
  <2>1. \A g \in Traffic!Files : mem.rev <= g.rev => g = mem
    <3> SUFFICES ASSUME NEW g \in Traffic!Files, mem.rev <= g.rev PROVE g = mem
        OBVIOUS
    <3>1. g \in AllGenerations /\ mem \in AllGenerations
        BY DEF AllGenerations
    <3>2. g.rev = mem.rev
        BY <3>1, TrafficParts
    <3> QED BY <3>1, <3>2 DEF TrafficInv, AllAgree, Agree
  <2> QED BY <1>1, <1>2, <1>4, <1>5, <2>1 DEF Saves
<1> QED BY <1>3, <1>6, <1>7, <1>8, <1>9 DEF TrafficInv

LEMMA TrafficSaveFails ==
    ASSUME Traffic!TrafficAssumption, TrafficInv, Traffic!SaveFails
    PROVE  TrafficInv'
<1>1. save' = Traffic!Idle /\ UNCHANGED <<machine, clock, mem, disk, durable, saved>>
    BY DEF Traffic!SaveFails
<1>2. TrafficTypes' /\ Phases'
    BY <1>1 DEF TrafficInv, TrafficTypes, Phases, Traffic!Idle
<1>3. Traffic!Files' = Traffic!Files /\ AllGenerations' = AllGenerations
    BY <1>1 DEF Traffic!Files, AllGenerations
<1>4. AllCount' /\ AllAgree'
    BY <1>1, <1>3, FewerAgree
<1> QED BY <1>1, <1>2, <1>3, <1>4 DEF TrafficInv, Newest, Saves

\* The machine and the clock.
LEMMA TrafficFlows ==
    ASSUME Traffic!TrafficAssumption, TrafficInv, Traffic!Traffic
    PROVE  TrafficInv'
<1>1. /\ machine' = [machine EXCEPT !.sent = machine.sent + 1, !.raw = machine.raw + 1]
      /\ UNCHANGED <<clock, mem, save, disk, durable, saved>>
    BY DEF Traffic!Traffic
<1>2. /\ machine'.sent = machine.sent + 1 /\ machine'.raw = machine.raw + 1
      /\ machine'.boot = machine.boot /\ machine'.since = machine.since
      /\ machine.sent \in Nat /\ machine.raw \in Nat /\ machine.boot \in Nat
    BY <1>1 DEF TrafficInv, TrafficTypes
<1>3. TrafficTypes' /\ Phases'
  <2>1. machine' \in [raw : Nat, sent : Nat, boot : Nat \ {0}, since : Nat] /\ machine'.raw <= machine'.sent
    <3>1. machine \in [raw : Nat, sent : Nat, boot : Nat \ {0}, since : Nat] /\ machine.raw <= machine.sent
        BY DEF TrafficInv, TrafficTypes
    <3>2. machine.sent + 1 \in Nat /\ machine.raw + 1 \in Nat /\ machine.raw + 1 <= machine.sent + 1
        BY <1>2, <3>1
    <3> QED BY <1>1, <3>1, <3>2
  <2>2. TrafficTypes'
      BY <1>1, <1>2, <2>1 DEF TrafficInv, TrafficTypes
  <2>3. Phases'
      BY <1>1 DEF TrafficInv, Phases
  <2> QED BY <2>2, <2>3
<1>4. Traffic!Files' = Traffic!Files /\ AllGenerations' = AllGenerations
    BY <1>1 DEF Traffic!Files, AllGenerations
<1>5. AllCount'
  <2> SUFFICES ASSUME NEW g \in AllGenerations PROVE Counts(g)'
      BY <1>4 DEF AllCount
  <2>1. g.closed \in Nat /\ g.total \in Nat /\ g.raw \in Nat /\ g.boot \in Nat
      BY TrafficParts DEF Complete, Traffic!None
  <2>2. Counts(g)
      BY DEF TrafficInv, AllCount
  <2> QED BY <1>1, <1>2, <2>1, <2>2 DEF Counts
<1>6. AllAgree'
    BY <1>2, <1>4 DEF TrafficInv, AllAgree, Agree
<1> QED BY <1>1, <1>3, <1>4, <1>5, <1>6 DEF TrafficInv, Newest, Saves

LEMMA TrafficNewPeriod ==
    ASSUME Traffic!TrafficAssumption, TrafficInv, Traffic!NewPeriod
    PROVE  TrafficInv'
<1>1. /\ clock' = [clock EXCEPT !.period = clock.period + 1]
      /\ UNCHANGED <<machine, mem, save, disk, durable, saved>>
    BY DEF Traffic!NewPeriod
<1>2. clock'.period = clock.period + 1 /\ clock'.day = clock.day /\ clock.period \in Nat
    BY <1>1 DEF TrafficInv, TrafficTypes
<1>3. TrafficTypes' /\ Phases'
    BY <1>1 DEF TrafficInv, TrafficTypes, Phases
<1>4. Traffic!Files' = Traffic!Files /\ AllGenerations' = AllGenerations
    BY <1>1 DEF Traffic!Files, AllGenerations
<1>5. AllCount'
  <2> SUFFICES ASSUME NEW g \in AllGenerations PROVE Counts(g)'
      BY <1>4 DEF AllCount
  <2>1. g.period \in Nat
      BY TrafficParts DEF Complete, Traffic!None
  <2>2. Counts(g)
      BY DEF TrafficInv, AllCount
  <2> QED BY <1>1, <1>2, <2>1, <2>2 DEF Counts
<1>6. AllAgree'
    BY <1>1, <1>4 DEF TrafficInv, AllAgree, Agree
<1> QED BY <1>1, <1>3, <1>4, <1>5, <1>6 DEF TrafficInv, Newest, Saves

\* A file that is cut short is no generation.
LEMMA CutShortIs ==
    ASSUME Traffic!TrafficAssumption, NEW f \in Names, NEW d \in Traffic!CutShort(f)
    PROVE  d \in Names /\ Traffic!Generations(d) = Traffic!Generations(f) /\ d.main = f.main
<1>1. CASE d = f
    BY <1>1
<1>2. CASE d = [f EXCEPT !.stages = f.stages \cup {Traffic!Torn}]
  <2>1. d \in Names /\ d.main = f.main /\ d.bak = f.bak /\ d.stages = f.stages \cup {Traffic!Torn}
      BY <1>2 DEF Names
  <2>2. Traffic!Torn \notin Complete
      BY TornIs
  <2> QED BY <2>1, <2>2, GenerationsAre
<1> QED BY <1>1, <1>2 DEF Traffic!CutShort

LEMMA TrafficAgentRestarts ==
    ASSUME Traffic!TrafficAssumption, TrafficInv, Traffic!AgentRestarts
    PROVE  TrafficInv'
<1>1. /\ disk' \in Traffic!CutShort(disk) /\ mem' = Traffic!Best(disk') /\ save' = Traffic!Idle
      /\ UNCHANGED <<machine, clock, durable, saved>>
    BY DEF Traffic!AgentRestarts
<1>2. disk \in Names /\ disk' \in Names /\ Traffic!Generations(disk') = Traffic!Generations(disk) /\ disk'.main = disk.main
  <2>1. disk \in Names
      BY DEF TrafficInv, TrafficTypes
  <2> QED BY <1>1, <2>1, CutShortIs
<1>3. \A g \in Traffic!Generations(disk') : g.rev <= mem.rev
    BY <1>2 DEF TrafficInv, Newest, Traffic!Files
<1>4. mem.rev \in Nat
    BY TrafficParts
<1>5. /\ Traffic!Generations(disk') = {} => mem' = Traffic!None
      /\ Traffic!Generations(disk') # {} => mem' \in Traffic!Generations(disk') /\ \A h \in Traffic!Generations(disk') : h.rev <= mem'.rev
    BY <1>1, <1>2, <1>3, <1>4, BestIs
<1>6. Traffic!Files' = Traffic!Files /\ AllGenerations' \subseteq AllGenerations /\ mem' \in Complete \cup {Traffic!None}
  <2>1. Traffic!Files' = Traffic!Files
      BY <1>1, <1>2 DEF Traffic!Files
  <2> QED BY <2>1, <1>2, <1>5, TrafficParts DEF AllGenerations, Traffic!Files
<1>7. TrafficTypes' /\ Phases'
    BY <1>1, <1>2, <1>6 DEF TrafficInv, TrafficTypes, Phases, Traffic!Idle
<1>8. AllCount' /\ AllAgree'
    BY <1>1, <1>6, FewerAgree
<1>9. Newest'
  <2>1. \A g \in Traffic!Files : g.rev <= mem'.rev
    <3> SUFFICES ASSUME NEW g \in Traffic!Files PROVE g.rev <= mem'.rev
        OBVIOUS
    <3>1. CASE g \in Traffic!Generations(disk)
        BY <3>1, <1>2, <1>5
    <3>2. CASE g \in Traffic!Generations(durable)
      <4>1. PICK h \in Traffic!Generations(disk) : g.rev <= h.rev
          BY <3>2 DEF TrafficInv, Newest
      <4>2. h.rev <= mem'.rev
          BY <1>2, <1>5, <4>1
      <4>3. g.rev \in Nat /\ h.rev \in Nat /\ mem'.rev \in Nat
          BY <1>6, TrafficParts DEF Traffic!Files, AllGenerations
      <4> QED BY <4>1, <4>2, <4>3
    <3> QED BY <3>1, <3>2 DEF Traffic!Files
  <2> QED BY <1>1, <1>2, <1>6, <2>1 DEF TrafficInv, Newest
<1>10. Saves'
    BY <1>1, <1>2, <1>6 DEF TrafficInv, Saves
<1> QED BY <1>7, <1>8, <1>9, <1>10 DEF TrafficInv

\* What a loss of power leaves are names, generations and a main file that were there.
LEMMA SurvivorsAre ==
    ASSUME Traffic!TrafficAssumption, TrafficInv, NEW files \in Traffic!Survivors
    PROVE  /\ files \in Names /\ Traffic!Generations(files) \subseteq Traffic!Files
           /\ files.main \in {disk.main, durable.main}
<1>1. PICK m \in {disk.main, durable.main}, b \in {disk.bak, durable.bak},
           t \in SUBSET (disk.stages \cup durable.stages) : files = [main |-> m, bak |-> b, stages |-> t]
    BY DEF Traffic!Survivors
<1>2. disk \in Names /\ durable \in Names
    BY DEF TrafficInv, TrafficTypes
<1>3. files \in Names /\ files.main = m /\ files.bak = b /\ files.stages = t
    BY <1>1, <1>2 DEF Names
<1>4. Traffic!Generations(files) = ({m, b} \cup t) \cap Complete
    BY <1>3, GenerationsAre
<1> QED BY <1>1, <1>3, <1>4, TrafficParts DEF Traffic!Files

LEMMA TrafficReboot ==
    ASSUME Traffic!TrafficAssumption, TrafficInv, Traffic!Reboot
    PROVE  TrafficInv'
<1>1. PICK files \in Traffic!Survivors : disk' \in Traffic!CutShort(files) /\ durable' = disk' /\ mem' = Traffic!Best(disk')
    BY DEF Traffic!Reboot
<1>2. /\ machine' = [machine EXCEPT !.raw = 0, !.boot = machine.boot + 1, !.since = clock.period]
      /\ save' = Traffic!Idle /\ UNCHANGED <<clock, saved>>
    BY DEF Traffic!Reboot
<1>3. /\ machine' \in [raw : Nat, sent : Nat, boot : Nat \ {0}, since : Nat]
      /\ machine'.raw = 0 /\ machine'.boot = machine.boot + 1 /\ machine'.since = clock.period
      /\ machine'.sent = machine.sent
      /\ machine.boot \in Nat /\ machine.raw \in Nat /\ machine.sent \in Nat /\ clock.period \in Nat
  <2>1. machine \in [raw : Nat, sent : Nat, boot : Nat \ {0}, since : Nat] /\ clock.period \in Nat
      BY DEF TrafficInv, TrafficTypes
  <2>2. machine.boot + 1 \in Nat \ {0} /\ 0 \in Nat
      BY <2>1
  <2> QED BY <1>2, <2>1, <2>2
<1>4. /\ files \in Names /\ Traffic!Generations(files) \subseteq Traffic!Files
      /\ files.main \in {disk.main, durable.main}
    BY SurvivorsAre
<1>5. disk' \in Names /\ Traffic!Generations(disk') \subseteq Traffic!Files /\ disk'.main \in {disk.main, durable.main}
    BY <1>1, <1>4, CutShortIs
<1>6. \A g \in Traffic!Generations(disk') : g.rev <= mem.rev
    BY <1>5 DEF TrafficInv, Newest
<1>7. mem.rev \in Nat
    BY TrafficParts
<1>8. /\ Traffic!Generations(disk') = {} => mem' = Traffic!None
      /\ Traffic!Generations(disk') # {} => mem' \in Traffic!Generations(disk') /\ \A h \in Traffic!Generations(disk') : h.rev <= mem'.rev
    BY <1>1, <1>5, <1>6, <1>7, BestIs
<1>9. Traffic!Files' = Traffic!Generations(disk') /\ Traffic!Files' \subseteq Traffic!Files /\ AllGenerations' \subseteq AllGenerations /\ mem' \in Complete \cup {Traffic!None}
  <2>1. Traffic!Files' = Traffic!Generations(disk')
      BY <1>1 DEF Traffic!Files
  <2> QED BY <2>1, <1>5, <1>8, TrafficParts DEF AllGenerations
<1>10. TrafficTypes' /\ Phases'
  <2>1. TrafficTypes'
      BY <1>1, <1>2, <1>3, <1>5, <1>9 DEF TrafficInv, TrafficTypes, Traffic!Idle
  <2> QED BY <1>2, <2>1 DEF Phases, Traffic!Idle
<1>11. AllCount'
  <2> SUFFICES ASSUME NEW g \in AllGenerations' PROVE Counts(g)'
      BY DEF AllCount
  <2>1. /\ g.closed \in Nat /\ g.total \in Nat /\ g.raw \in Nat /\ g.boot \in Nat
        /\ g.period \in Nat /\ g.day \in Nat
      BY <1>9, TrafficParts DEF Complete, Traffic!None
  <2>2. Counts(g)
      BY <1>9 DEF TrafficInv, AllCount
  <2> QED BY <1>2, <1>3, <2>1, <2>2 DEF Counts
<1>12. AllAgree'
  <2> SUFFICES ASSUME NEW g \in AllGenerations', NEW h \in AllGenerations' PROVE Agree(g, h)'
      BY DEF AllAgree
  <2>1. g.boot \in Nat /\ g.boot <= machine.boot
      BY <1>9, TrafficParts DEF Complete, Traffic!None, TrafficInv, AllCount, Counts
  <2>2. Agree(g, h)
      BY <1>9 DEF TrafficInv, AllAgree
  <2>3. g.boot # machine'.boot
      BY <1>3, <2>1
  <2> QED BY <2>2, <2>3 DEF Agree
<1>13. Newest'
    BY <1>1, <1>8, <1>9 DEF Newest
<1>14. Saves'
    BY <1>1, <1>2, <1>5, <1>9 DEF TrafficInv, Saves
<1> QED BY <1>10, <1>11, <1>12, <1>13, <1>14 DEF TrafficInv

\* A save begins: the new generation is newer than all, and agrees with them.
LEMMA TrafficBeginSave ==
    ASSUME Traffic!TrafficAssumption, TrafficInv, NEW s, s.rev = mem.rev, Traffic!BeginSave(s),
           UNCHANGED <<machine, durable>>, mem' \in Complete, mem'.rev = mem.rev + 1,
           clock' \in [period : Nat \ {0}, day : Nat], clock'.period = clock.period,
           \A g \in AllGenerations \cup {mem'} : Counts(g)',
           \A g \in AllGenerations :
              /\ Agree(g, mem')
              /\ ({g.boot, mem'.boot} = {machine.boot} /\ g.day = mem'.day)
                   => mem'.closed + mem'.total + g.raw = g.closed + g.total + mem'.raw
    PROVE  TrafficInv'
<1>1. /\ save' = [at |-> "stage", prior |-> Traffic!Best(disk)] /\ saved' = saved \cup {mem'}
      /\ disk' = IF Traffic!Generations(disk) = {} THEN [main |-> Traffic!None, bak |-> Traffic!None, stages |-> {}] ELSE disk
    BY DEF Traffic!BeginSave
<1>2. disk \in Names /\ mem.rev \in Nat /\ Traffic!None \notin Complete
    BY TrafficParts, TornIs DEF TrafficInv, TrafficTypes
<1>3. \A g \in Traffic!Generations(disk) : g.rev <= mem.rev
    BY DEF TrafficInv, Newest, Traffic!Files
<1>4. Traffic!Best(disk) \in Traffic!Generations(disk) \cup {Traffic!None}
    BY <1>2, <1>3, BestIs
<1>5. disk' \in Names /\ Traffic!Generations(disk') = Traffic!Generations(disk)
  <2>1. CASE Traffic!Generations(disk) = {}
    <3>1. disk' = [main |-> Traffic!None, bak |-> Traffic!None, stages |-> {}]
        BY <1>1, <2>1
    <3>2. disk' \in Names /\ disk'.main = Traffic!None /\ disk'.bak = Traffic!None /\ disk'.stages = {}
        BY <3>1 DEF Names
    <3>3. Traffic!Generations(disk') = ({disk'.main, disk'.bak} \cup disk'.stages) \cap Complete
        BY <3>2, GenerationsAre
    <3> QED BY <2>1, <3>2, <3>3, <1>2
  <2>2. CASE Traffic!Generations(disk) # {}
      BY <2>2, <1>1, <1>2
  <2> QED BY <2>1, <2>2
<1>6. Traffic!Files' = Traffic!Files /\ AllGenerations' \subseteq AllGenerations \cup {mem'} /\ \A g \in AllGenerations : g.rev < mem'.rev
    BY <1>5, <1>2, TrafficParts DEF Traffic!Files, AllGenerations
<1>7. TrafficTypes'
    BY <1>1, <1>4, <1>5, TrafficParts DEF TrafficInv, TrafficTypes, Traffic!Files
<1>8. Phases'
    BY <1>1, <1>4, <1>5 DEF Phases
<1>9. Newest'
  <2>1. \A g \in Traffic!Files : g \in AllGenerations
      BY DEF AllGenerations
  <2>2. \A g \in Traffic!Files : g.rev \in Nat /\ g.rev <= mem'.rev
      BY <2>1, <1>6, <1>2, TrafficParts
  <2> QED BY <1>5, <1>6, <2>2 DEF Newest, TrafficInv
<1>10. Saves'
  <2>1. mem' \notin Traffic!Files
    <3>1. \A g \in Traffic!Files : g.rev < mem'.rev
        BY <1>6 DEF AllGenerations
    <3> QED BY <3>1, <1>2
  <2>2. Traffic!None \notin saved => Traffic!Generations(disk) # {}
      BY TrafficParts DEF TrafficInv, TrafficTypes, Saves
  <2> QED BY <1>1, <1>2, <1>6, <2>1, <2>2 DEF Saves, TrafficInv
<1>11. AllCount'
    BY <1>6 DEF AllCount
<1>12. AllAgree'
  <2> SUFFICES ASSUME NEW g \in AllGenerations \cup {mem'}, NEW h \in AllGenerations \cup {mem'} PROVE Agree(g, h)'
      BY <1>6 DEF AllAgree
  <2>1. CASE g \in AllGenerations /\ h \in AllGenerations
      BY <2>1 DEF TrafficInv, AllAgree, Agree
  <2>2. CASE g \in AllGenerations /\ h = mem'
    <3>1. Agree(g, h)
        BY <2>2
    <3> QED BY <3>1 DEF Agree
  <2>3. CASE g = mem' /\ h \in AllGenerations
    <3>1. ~(g.rev <= h.rev) /\ g.rev # h.rev
        BY <2>3, <1>6, <1>2, TrafficParts
    <3>2. ({g.boot, h.boot} = {machine'.boot} /\ g.day = h.day)
             => g.closed + g.total + h.raw = h.closed + h.total + g.raw
      <4> SUFFICES ASSUME {g.boot, h.boot} = {machine'.boot}, g.day = h.day
                   PROVE  g.closed + g.total + h.raw = h.closed + h.total + g.raw
          OBVIOUS
      <4>1. {h.boot, mem'.boot} = {machine.boot} /\ h.day = mem'.day
          BY <2>3
      <4>2. mem'.closed + mem'.total + h.raw = h.closed + h.total + mem'.raw
          BY <2>3, <4>1
      <4> QED BY <2>3, <4>2
    <3> QED BY <3>1, <3>2 DEF Agree
  <2>4. CASE g = mem' /\ h = mem'
    <3>1. g.boot \in Nat /\ g.day \in Nat /\ g.period \in Nat
        BY <2>4 DEF Complete
    <3> QED BY <2>4, <3>1 DEF Agree
  <2> QED BY <2>1, <2>2, <2>3, <2>4
<1> QED BY <1>7, <1>8, <1>9, <1>10, <1>11, <1>12 DEF TrafficInv

\* adjustInterfacesSinceBoot: a cycle is begun anew with no more than this boot sent, or the
\* traffic since the last sample is added to what the cycle has counted.
LEMMA AdjustedIs ==
    ASSUME Traffic!TrafficAssumption, TrafficInv
    PROVE  LET s == Traffic!Adjusted(mem) IN
           /\ s \in [rev : Nat, period : Nat, day : Nat, total : Nat, raw : Nat, boot : Nat, closed : Nat]
           /\ s.rev = mem.rev /\ s.period = clock.period /\ s.day = clock.day
           /\ s.boot = machine.boot /\ s.raw = machine.raw
           /\ \/ /\ mem.period = 0 \/ mem.day # clock.day
                 /\ s.closed + s.total <= machine.raw
              \/ /\ mem.period # 0 /\ mem.day = clock.day
                 /\ s.closed + s.total <= mem.closed + mem.total + machine.raw
                 /\ mem.boot = machine.boot =>
                        s.closed + s.total = mem.closed + mem.total + (machine.raw - mem.raw)
<1> DEFINE Records == [rev : Nat, period : Nat, day : Nat, total : Nat, raw : Nat, boot : Nat, closed : Nat]
<1>1. mem \in Records /\ Traffic!None \in Records /\ Traffic!None.closed = 0
    BY DEF TrafficInv, TrafficTypes, Complete, Traffic!None
<1>2. /\ machine \in [raw : Nat, sent : Nat, boot : Nat \ {0}, since : Nat]
      /\ clock \in [period : Nat \ {0}, day : Nat] /\ machine.since <= clock.period
    BY DEF TrafficInv, TrafficTypes
<1>3. Counts(mem)
    BY DEF TrafficInv, AllCount, AllGenerations
<1> DEFINE t == IF mem.period = 0 \/ mem.day # clock.day THEN Traffic!Restarted(mem)
                ELSE IF mem.period # clock.period THEN Traffic!Rotated(mem)
                ELSE [mem EXCEPT !.total = mem.total + Traffic!Delta(mem)]
<1>4. Traffic!Adjusted(mem) = [[t EXCEPT !.raw = machine.raw] EXCEPT !.day = clock.day, !.period = clock.period, !.boot = machine.boot]
    BY DEF Traffic!Adjusted, Traffic!SampleOf
<1>5. CASE mem.period = 0 \/ mem.day # clock.day
  <2>1. t = [Traffic!None EXCEPT !.rev = mem.rev, !.total = IF Traffic!Covers THEN machine.raw ELSE 0]
      BY <1>5 DEF Traffic!Restarted
  <2> DEFINE n == IF Traffic!Covers THEN machine.raw ELSE 0
  <2>2. n \in Nat /\ n <= machine.raw
      BY <1>2
  <2>3. t = [Traffic!None EXCEPT !.rev = mem.rev, !.total = n]
      BY <2>1
  <2> HIDE DEF t, n
  <2>4. t \in Records /\ t.rev = mem.rev /\ t.closed = 0 /\ t.total <= machine.raw
      BY <2>2, <2>3, <1>1
  <2>5. /\ Traffic!Adjusted(mem) \in Records
        /\ Traffic!Adjusted(mem).rev = mem.rev /\ Traffic!Adjusted(mem).period = clock.period /\ Traffic!Adjusted(mem).day = clock.day
        /\ Traffic!Adjusted(mem).boot = machine.boot /\ Traffic!Adjusted(mem).raw = machine.raw
        /\ Traffic!Adjusted(mem).closed = t.closed /\ Traffic!Adjusted(mem).total = t.total
      BY <1>2, <1>4, <2>4
  <2>6. Traffic!Adjusted(mem).closed + Traffic!Adjusted(mem).total <= machine.raw
      BY <1>2, <2>4, <2>5
  <2> QED BY <1>5, <2>5, <2>6
<1>6. CASE mem.period # 0 /\ mem.day = clock.day
  <2>1. /\ Traffic!Delta(mem) \in Nat /\ Traffic!Delta(mem) <= machine.raw
        /\ mem.boot = machine.boot => Traffic!Delta(mem) = machine.raw - mem.raw
      BY <1>1, <1>2, <1>3, <1>6 DEF Traffic!Delta, Traffic!CounterDelta, Traffic!Covers, Counts
  <2>2. t \in Records /\ t.rev = mem.rev /\ t.closed + t.total = mem.closed + mem.total + Traffic!Delta(mem)
    <3>1. CASE mem.period # clock.period
      <4>1. t = [mem EXCEPT !.closed = mem.closed + mem.total, !.total = Traffic!Delta(mem)]
          BY <1>6, <3>1 DEF Traffic!Rotated
      <4>2. mem.closed + mem.total \in Nat
          BY <1>1
      <4> HIDE DEF t
      <4> QED BY <4>1, <4>2, <1>1, <2>1
    <3>2. CASE mem.period = clock.period
      <4>1. t = [mem EXCEPT !.total = mem.total + Traffic!Delta(mem)]
          BY <1>6, <3>2
      <4>2. mem.total + Traffic!Delta(mem) \in Nat
          BY <1>1, <2>1
      <4> HIDE DEF t
      <4>3. t \in Records /\ t.rev = mem.rev /\ t.closed = mem.closed /\ t.total = mem.total + Traffic!Delta(mem)
          BY <4>1, <4>2, <1>1
      <4> QED BY <4>3, <1>1, <2>1
    <3> QED BY <3>1, <3>2
  <2> HIDE DEF t
  <2>3. /\ Traffic!Adjusted(mem) \in Records
        /\ Traffic!Adjusted(mem).rev = mem.rev /\ Traffic!Adjusted(mem).period = clock.period /\ Traffic!Adjusted(mem).day = clock.day
        /\ Traffic!Adjusted(mem).boot = machine.boot /\ Traffic!Adjusted(mem).raw = machine.raw
        /\ Traffic!Adjusted(mem).closed = t.closed /\ Traffic!Adjusted(mem).total = t.total
      BY <1>2, <1>4, <2>2
  <2>4. Traffic!Adjusted(mem).closed + Traffic!Adjusted(mem).total = mem.closed + mem.total + Traffic!Delta(mem)
      BY <2>2, <2>3
  <2>5. Traffic!Adjusted(mem).closed + Traffic!Adjusted(mem).total <= mem.closed + mem.total + machine.raw
      BY <1>1, <1>2, <2>1, <2>4
  <2> QED BY <1>6, <2>1, <2>3, <2>4, <2>5
<1> QED BY <1>5, <1>6

LEMMA TrafficAdjust ==
    ASSUME Traffic!TrafficAssumption, TrafficInv, Traffic!Adjust
    PROVE  TrafficInv'
<1> DEFINE s == Traffic!Adjusted(mem)
<1>1. Traffic!BeginSave(s) /\ UNCHANGED <<machine, clock, durable>> /\ mem' = [s EXCEPT !.rev = s.rev + 1]
    BY DEF Traffic!Adjust, Traffic!BeginSave
<1>2. /\ s \in [rev : Nat, period : Nat, day : Nat, total : Nat, raw : Nat, boot : Nat, closed : Nat]
      /\ s.rev = mem.rev /\ s.period = clock.period /\ s.day = clock.day
      /\ s.boot = machine.boot /\ s.raw = machine.raw
      /\ \/ /\ mem.period = 0 \/ mem.day # clock.day
            /\ s.closed + s.total <= machine.raw
         \/ /\ mem.period # 0 /\ mem.day = clock.day
            /\ s.closed + s.total <= mem.closed + mem.total + machine.raw
            /\ mem.boot = machine.boot =>
                   s.closed + s.total = mem.closed + mem.total + (machine.raw - mem.raw)
    BY AdjustedIs
<1> HIDE DEF s
<1>3. /\ mem' \in Complete /\ mem'.rev = mem.rev + 1 /\ mem'.period = clock.period /\ mem'.day = clock.day
      /\ mem'.boot = machine.boot /\ mem'.raw = machine.raw /\ mem'.closed = s.closed /\ mem'.total = s.total
  <2>1. s.rev + 1 \in Nat \ {0}
      BY <1>2
  <2> QED BY <1>1, <1>2, <2>1 DEF Complete
<1>4. /\ machine.raw \in Nat /\ machine.sent \in Nat /\ machine.boot \in Nat \ {0} /\ machine.since \in Nat
      /\ clock.period \in Nat \ {0} /\ clock.day \in Nat /\ clock \in [period : Nat \ {0}, day : Nat]
      /\ machine.raw <= machine.sent /\ machine.since <= clock.period
    BY DEF TrafficInv, TrafficTypes
<1>5. \A g \in AllGenerations :
        /\ g.closed \in Nat /\ g.total \in Nat /\ g.raw \in Nat /\ g.boot \in Nat
        /\ g.period \in Nat /\ g.day \in Nat /\ g.rev \in Nat
        /\ g.rev <= mem.rev /\ Counts(g) /\ Agree(g, mem)
    BY TrafficParts DEF Complete, Traffic!None, TrafficInv, AllCount, AllAgree, AllGenerations
<1>6. mem \in AllGenerations
    BY DEF AllGenerations
<1>7. \A g \in AllGenerations \cup {mem'} : Counts(g)'
  <2>1. \A g \in AllGenerations : Counts(g)'
      BY <1>1, <1>5 DEF Counts
  <2>2. s.closed + s.total <= machine.sent
      BY <1>2, <1>4, <1>5, <1>6 DEF Counts
  <2>3. s.closed \in Nat /\ s.total \in Nat
      BY <1>2
  <2>4. ASSUME NEW g, g = mem' PROVE Counts(g)'
    <3>1. /\ g.period = clock'.period /\ g.day = clock'.day /\ g.boot = machine'.boot /\ g.raw = machine'.raw
          /\ g.closed = s.closed /\ g.total = s.total
          /\ machine' = machine /\ clock' = clock
        BY <1>1, <1>3, <2>4
    <3> QED BY <1>4, <2>2, <2>3, <3>1 DEF Counts
  <2> QED BY <2>1, <2>4
<1>8. ASSUME NEW g \in AllGenerations
      PROVE  /\ Agree(g, mem')
             /\ ({g.boot, mem'.boot} = {machine.boot} /\ g.day = mem'.day)
                  => mem'.closed + mem'.total + g.raw = g.closed + g.total + mem'.raw
  <2>1. g.boot <= mem'.boot /\ g.day <= mem'.day /\ g.period <= mem'.period
      BY <1>3, <1>5 DEF Counts
  <2>2. g.rev # mem'.rev
      BY <1>3, <1>5, <1>6
  <2>3. ASSUME g.boot = machine.boot, g.day = clock.day
        PROVE  s.closed + s.total + g.raw = g.closed + g.total + machine.raw
    <3>1. mem.boot = machine.boot /\ mem.day = clock.day /\ mem.period # 0
      <4>1. g.boot <= mem.boot /\ g.day <= mem.day
          BY <1>5 DEF Agree
      <4>2. mem.boot <= machine.boot /\ mem.day <= clock.day /\ (mem.period = 0 => mem.boot = 0)
          BY <1>5, <1>6 DEF Counts
      <4> QED BY <2>3, <4>1, <4>2, <1>4, <1>5, <1>6
    <3>2. s.closed + s.total = mem.closed + mem.total + (machine.raw - mem.raw)
        BY <1>2, <3>1
    <3>3. g.closed + g.total + mem.raw = mem.closed + mem.total + g.raw
        BY <2>3, <3>1, <1>5, <1>6 DEF Agree
    <3> QED BY <3>2, <3>3, <1>2, <1>4, <1>5, <1>6
  <2>4. ({g.boot, mem'.boot} = {machine.boot} /\ g.day = mem'.day)
           => /\ mem'.closed + mem'.total + g.raw = g.closed + g.total + mem'.raw
              /\ g.closed + g.total + mem'.raw = mem'.closed + mem'.total + g.raw
      BY <1>3, <2>3
  <2> QED BY <2>1, <2>2, <2>4 DEF Agree
<1> QED BY <1>1, <1>2, <1>3, <1>4, <1>7, <1>8, TrafficBeginSave

\* setPolicyResetDay: the generation is the same but for its revision.
LEMMA TrafficPolicyDay ==
    ASSUME Traffic!TrafficAssumption, TrafficInv, Traffic!PolicyDay
    PROVE  TrafficInv'
<1>1. /\ Traffic!BeginSave(mem) /\ UNCHANGED <<machine, durable>> /\ mem' = [mem EXCEPT !.rev = mem.rev + 1]
      /\ clock' = [clock EXCEPT !.day = clock.day + 1]
    BY DEF Traffic!PolicyDay, Traffic!BeginSave
<1>2. mem \in [rev : Nat, period : Nat, day : Nat, total : Nat, raw : Nat, boot : Nat, closed : Nat]
    BY DEF TrafficInv, TrafficTypes, Complete, Traffic!None
<1>3. /\ mem' \in Complete /\ mem'.rev = mem.rev + 1 /\ mem'.period = mem.period /\ mem'.day = mem.day
      /\ mem'.boot = mem.boot /\ mem'.raw = mem.raw /\ mem'.closed = mem.closed /\ mem'.total = mem.total
  <2>1. mem.rev + 1 \in Nat \ {0}
      BY <1>2
  <2> QED BY <1>1, <1>2, <2>1 DEF Complete
<1>4. /\ clock' \in [period : Nat \ {0}, day : Nat] /\ clock'.period = clock.period /\ clock'.day = clock.day + 1
      /\ clock.day \in Nat
    BY <1>1 DEF TrafficInv, TrafficTypes
<1>5. \A g \in AllGenerations : /\ g.day \in Nat /\ g.rev \in Nat /\ g.rev <= mem.rev /\ Counts(g) /\ Agree(g, mem)
    BY TrafficParts DEF Complete, Traffic!None, TrafficInv, AllCount, AllAgree, AllGenerations
<1>6. mem \in AllGenerations
    BY DEF AllGenerations
<1>7. \A g \in AllGenerations \cup {mem'} : Counts(g)'
  <2>1. \A g \in AllGenerations : Counts(g)'
      BY <1>1, <1>4, <1>5 DEF Counts
  <2>2. ASSUME NEW g, g = mem' PROVE Counts(g)'
    <3>1. /\ g.period = mem.period /\ g.day = mem.day /\ g.boot = mem.boot /\ g.raw = mem.raw
          /\ g.closed = mem.closed /\ g.total = mem.total /\ machine' = machine
        BY <1>1, <1>3, <2>2
    <3> QED BY <1>2, <1>4, <1>5, <1>6, <3>1 DEF Counts
  <2> QED BY <2>1, <2>2
<1>8. ASSUME NEW g \in AllGenerations
      PROVE  /\ Agree(g, mem')
             /\ ({g.boot, mem'.boot} = {machine.boot} /\ g.day = mem'.day)
                  => mem'.closed + mem'.total + g.raw = g.closed + g.total + mem'.raw
  <2>1. g.rev # mem'.rev
      BY <1>3, <1>5, <1>6
  <2> QED BY <1>3, <1>5, <2>1 DEF Agree
<1> QED BY <1>1, <1>3, <1>4, <1>7, <1>8, TrafficBeginSave

\* The inductive invariant holds in every state.
THEOREM TrafficInvariant == Traffic!TrafficAssumption => (Traffic!Spec => []TrafficInv)
<1> SUFFICES ASSUME Traffic!TrafficAssumption PROVE Traffic!Spec => []TrafficInv
    OBVIOUS
<1>1. Traffic!Init => TrafficInv
  <2> SUFFICES ASSUME Traffic!Init PROVE TrafficInv
      OBVIOUS
  <2>1. /\ machine.raw = 0 /\ machine.sent = 0 /\ machine.boot = 1 /\ machine.since = 1
        /\ clock.period \in {1, 2} /\ clock.day = 1 /\ mem = Traffic!None /\ save = Traffic!Idle /\ saved = {Traffic!None}
        /\ disk = [main |-> Traffic!None, bak |-> Traffic!None, stages |-> {}] /\ durable = disk
      BY DEF Traffic!Init
  <2>2. disk \in Names /\ disk.main = Traffic!None /\ disk.bak = Traffic!None /\ disk.stages = {}
      BY <2>1 DEF Names
  <2>3. TrafficTypes /\ Phases
      BY <2>1, <2>2 DEF Traffic!Init, TrafficTypes, Phases, Traffic!Idle
  <2>4. Traffic!Generations(disk) = {} /\ Traffic!Generations(durable) = {}
      BY <2>1, <2>2, GenerationsAre, TornIs
  <2>5. Traffic!Files = {} /\ AllGenerations = {Traffic!None}
      BY <2>1, <2>4 DEF Traffic!Files, AllGenerations
  <2>6. AllCount /\ AllAgree
      BY <2>1, <2>5 DEF AllCount, AllAgree, Counts, Agree, Traffic!None
  <2> QED BY <2>1, <2>3, <2>4, <2>5, <2>6 DEF TrafficInv, Newest, Saves
<1>2. TrafficInv /\ [Traffic!Next]_Traffic!vars => TrafficInv'
  <2> SUFFICES ASSUME TrafficInv, [Traffic!Next]_Traffic!vars PROVE TrafficInv'
      OBVIOUS
  <2>1. CASE UNCHANGED Traffic!vars
    <3>1. UNCHANGED <<machine, clock, mem, save, disk, durable, saved>>
        BY <2>1 DEF Traffic!vars
    <3>2. Traffic!Files' = Traffic!Files /\ AllGenerations' = AllGenerations
        BY <3>1 DEF Traffic!Files, AllGenerations
    <3>3. TrafficTypes' /\ Phases' /\ AllCount' /\ AllAgree'
        BY <3>1, <3>2, FewerAgree DEF TrafficInv, TrafficTypes, Phases
    <3> QED BY <3>1, <3>2, <3>3 DEF TrafficInv, Newest, Saves
  <2> QED BY <2>1, TrafficAdjust, TrafficStage, TrafficBackup, TrafficBackupSync, TrafficReplace, TrafficFinish, TrafficSaveFails, TrafficPolicyDay,
             TrafficFlows, TrafficNewPeriod, TrafficAgentRestarts, TrafficReboot DEF Traffic!Next
<1> QED BY <1>1, <1>2, PTL DEF Traffic!Spec

\* What follows for a loss of power and for the count (writeTrafficResetState, load,
\* adjustInterfacesSinceBoot).
LEMMA TrafficIsWhole ==
    ASSUME Traffic!TrafficAssumption, TrafficInv
    PROVE  Traffic!SavedSurvives /\ Traffic!CountedOnce /\ Traffic!SameTotal
<1>1. Traffic!SavedSurvives
  <2> SUFFICES ASSUME NEW files \in Traffic!Survivors PROVE Traffic!Best(files) \in saved
      BY DEF Traffic!SavedSurvives
  <2>1. files \in Names /\ Traffic!Generations(files) \subseteq Traffic!Files /\ files.main \in {disk.main, durable.main}
      BY SurvivorsAre
  <2>2. mem.rev \in Nat /\ \A g \in Traffic!Generations(files) : g.rev <= mem.rev
      BY <2>1, TrafficParts DEF AllGenerations
  <2>3. /\ Traffic!Generations(files) = {} => Traffic!Best(files) = Traffic!None
        /\ Traffic!Generations(files) # {} => Traffic!Best(files) \in Traffic!Generations(files) /\ \A h \in Traffic!Generations(files) : h.rev <= Traffic!Best(files).rev
      BY <2>1, <2>2, BestIs
  <2>4. CASE Traffic!None \in saved
      BY <2>1, <2>3, <2>4 DEF TrafficInv, Saves
  <2>5. CASE Traffic!None \notin saved
    <3>1. files.main \in saved /\ files.main \in Complete
        BY <2>1, <2>5 DEF TrafficInv, Saves, TrafficTypes
    <3>2. files.main \in Traffic!Generations(files)
        BY <2>1, <3>1, GenerationsAre
    <3>3. Traffic!Best(files) \in Traffic!Files /\ files.main \in Traffic!Files /\ files.main.rev <= Traffic!Best(files).rev
        BY <2>1, <2>3, <3>2
    <3> QED BY <3>1, <3>3 DEF TrafficInv, Saves
  <2> QED BY <2>4, <2>5
<1>2. Traffic!CountedOnce
  <2> SUFFICES ASSUME NEW g \in AllGenerations PROVE g.closed + g.total <= machine.sent
      BY DEF Traffic!CountedOnce, AllGenerations
  <2>1. g.closed \in Nat /\ g.total \in Nat /\ g.raw \in Nat
      BY TrafficParts DEF Complete, Traffic!None
  <2>2. Counts(g) /\ machine.raw \in Nat /\ machine.sent \in Nat
      BY DEF TrafficInv, AllCount, TrafficTypes
  <2> QED BY <2>1, <2>2 DEF Counts
<1>3. Traffic!SameTotal
    BY DEF Traffic!SameTotal, TrafficInv, AllAgree, Agree, AllGenerations
<1> QED BY <1>1, <1>2, <1>3

\* A save that returned survives every loss of power, and traffic is counted once.
THEOREM TrafficSurvives == Traffic!TrafficAssumption => (Traffic!Spec => [](Traffic!SavedSurvives /\ Traffic!CountedOnce /\ Traffic!SameTotal))
<1> SUFFICES ASSUME Traffic!TrafficAssumption PROVE Traffic!Spec => [](Traffic!SavedSurvives /\ Traffic!CountedOnce /\ Traffic!SameTotal)
    OBVIOUS
<1>1. TrafficInv => Traffic!SavedSurvives /\ Traffic!CountedOnce /\ Traffic!SameTotal
    BY TrafficIsWhole
<1> QED BY <1>1, TrafficInvariant, PTL

-----------------------------------------------------------------------------
(* What agents say: the inductive invariant and the proofs *)

Requested == {"basic", "report", "plain", "identity"}
Jobs == [kind : Requested \cup {"ips", "version"}, st : {"read", "upsert", "write", "meta", "live"},
         said : Machines, old : Intake!Fields \cup {Nil}]

\* A request that reads has no copy yet; what it does next depends on its kind.
JobsFit(js) ==
    /\ js \subseteq Jobs
    /\ \A j \in js : (j.st # "read" => j.old \in Intake!Fields) /\ (j.st \in {"read", "upsert"} => j.kind \in Requested)

IntakeTypes ==
    /\ intakeAgent \in Machines
    /\ row \in Intake!Fields \cup {Nil} /\ snap \in Intake!Fields \cup {Nil} /\ live \in Intake!Fields \cup {Nil}
    /\ removed \in BOOLEAN /\ intakeQueue \in BOOLEAN
    /\ changes \in 0 .. MaxChanges
    /\ JobsFit(jobs)

\* The copy that a request is about to store was read before, and is older than the row when
\* the administrator has edited it since.
Earlier(j) == j.old.at <= row.at /\ (j.old.adm # row.adm => j.old.at < row.at)

ReadEarlier ==
    row # Nil =>
        /\ row.at > 0 /\ row.adm <= changes
        /\ snap # Nil => snap.at <= row.at
        /\ \A j \in jobs : j.st = "upsert" => Earlier(j)

\* With nothing in the outbox the copies have the newest edit, and are newer than what a
\* request could store in their place; those of a node that is gone are gone.
Synchronized ==
    ~intakeQueue =>
        IF row = Nil THEN snap = Nil /\ live = Nil /\ removed
        ELSE /\ snap # Nil /\ live # Nil /\ snap.adm = row.adm /\ live.adm = row.adm
             /\ \A j \in jobs : j.st = "upsert" /\ j.old.adm # row.adm => j.old.at < snap.at

\* The inductive invariant of what agents say.
IntakeInv == IntakeTypes /\ ReadEarlier /\ Synchronized

-----------------------------------------------------------------------------
\* The instance of the agents' model counts sets as this module does.
LEMMA SameCardinality == \A S : Intake!Cardinality(S) = Cardinality(S)
    BY DEF Intake!Cardinality, Cardinality

\* Ranks order times as the times themselves, and a new time is after all of them.
LEMMA RanksAre ==
    ASSUME Intake!IntakeAssumption, IntakeInv, row # Nil
    PROVE  /\ Intake!Newest \in Nat /\ Intake!Newest > 0
           /\ \A t \in Nat : Intake!Rank(t) \in Nat /\ Intake!Rank(t) < Intake!Newest
           /\ \A s \in Nat, t \in Intake!Times : s < t => Intake!Rank(s) < Intake!Rank(t)
<1>1. Intake!Times \subseteq Nat /\ row.at \in Nat /\ \A t \in Intake!Times : t <= row.at
  <2>1. \A t \in Intake!Fields : t.at \in Nat
      BY DEF Intake!Fields
  <2>2. row.at \in Nat /\ (snap # Nil => snap.at \in Nat /\ snap.at <= row.at)
      BY <2>1 DEF IntakeInv, IntakeTypes, ReadEarlier
  <2>3. \A j \in jobs : j.st = "upsert" => j.old.at \in Nat /\ j.old.at <= row.at
      BY <2>1 DEF IntakeInv, IntakeTypes, JobsFit, ReadEarlier, Earlier
  <2> QED BY <2>2, <2>3 DEF Intake!Times
<1>2. IsFiniteSet(Intake!Times)
    BY <1>1, FS_BoundedSetOfNaturals
<1>3. \A T \in SUBSET Intake!Times : IsFiniteSet(T) /\ Cardinality(T) \in Nat
    BY <1>2, FS_Subset, FS_CardinalityType
<1>4. Intake!Newest \in Nat /\ Intake!Newest > 0 /\ Intake!Newest = Cardinality(Intake!Times \ {0}) + 1
    BY <1>3, SameCardinality DEF Intake!Newest
<1>5. ASSUME NEW t \in Nat PROVE Intake!Rank(t) \in Nat /\ Intake!Rank(t) < Intake!Newest
  <2> DEFINE T == {s \in Intake!Times : 0 < s /\ s <= t}
  <2>1. T \subseteq Intake!Times \ {0} /\ IsFiniteSet(Intake!Times \ {0})
      BY <1>1, <1>3
  <2>2. Cardinality(T) <= Cardinality(Intake!Times \ {0}) /\ Cardinality(T) \in Nat /\ Cardinality(Intake!Times \ {0}) \in Nat
      BY <2>1, <1>3, FS_Subset
  <2>3. Intake!Rank(t) = Cardinality(T)
      BY SameCardinality DEF Intake!Rank
  <2> HIDE DEF T
  <2> QED BY <2>2, <2>3, <1>4
<1>6. ASSUME NEW s \in Nat, NEW t \in Intake!Times, s < t PROVE Intake!Rank(s) < Intake!Rank(t)
  <2> DEFINE S == {u \in Intake!Times : 0 < u /\ u <= s}
             T == {u \in Intake!Times : 0 < u /\ u <= t}
  <2>0. t \in Nat /\ \A u \in Intake!Times : u \in Nat
      BY <1>1
  <2>1. S \subseteq T /\ t \in T /\ t \notin S /\ IsFiniteSet(T)
    <3>1. ASSUME NEW u \in S PROVE u \in T
      <4>1. u \in Intake!Times /\ 0 < u /\ u <= s /\ u \in Nat
          BY <2>0
      <4>2. u <= t
          BY <4>1, <2>0, <1>6
      <4> QED BY <4>1, <4>2
    <3>2. t \in T /\ t \notin S
        BY <2>0, <1>6
    <3>3. IsFiniteSet(T)
        BY <1>3
    <3> QED BY <3>1, <3>2, <3>3
  <2>2. Cardinality(S) \in Nat /\ Cardinality(T) \in Nat
      BY <1>3
  <2>3. Intake!Rank(s) = Cardinality(S) /\ Intake!Rank(t) = Cardinality(T)
      BY SameCardinality DEF Intake!Rank
  <2> HIDE DEF S, T
  <2>4. Cardinality(S) <= Cardinality(T) /\ Cardinality(S) # Cardinality(T)
      BY <2>1, FS_Subset
  <2> QED BY <2>2, <2>3, <2>4
<1> QED BY <1>4, <1>5, <1>6

\* The jobs change, but none that is about to store a copy.
LEMMA JobsGoOn ==
    ASSUME IntakeInv, UNCHANGED <<row, snap, removed, live, intakeQueue>>, intakeAgent' \in Machines,
           changes' \in 0 .. MaxChanges, changes <= changes', MaxChanges \in Nat,
           JobsFit(jobs'), \A j \in jobs' : j.st = "upsert" => j \in jobs
    PROVE  IntakeInv'
<1>1. IntakeTypes'
    BY DEF IntakeInv, IntakeTypes
<1>2. ReadEarlier'
  <2>1. row # Nil => row.adm \in Nat /\ changes \in Nat /\ changes' \in Nat
      BY DEF IntakeInv, IntakeTypes, Intake!Fields
  <2> QED BY <2>1 DEF IntakeInv, ReadEarlier, Earlier
<1>3. Synchronized'
    BY DEF IntakeInv, Synchronized
<1> QED BY <1>1, <1>2, <1>3 DEF IntakeInv

\* A row that is written: buildChangedClientPatch leaves the administrator's fields alone.
LEMMA PatchedIs ==
    ASSUME Intake!IntakeAssumption, NEW j \in Jobs, j.old \in Intake!Fields, NEW target \in Intake!Fields
    PROVE  Intake!Patched(j, target) \in Intake!Fields /\ Intake!Patched(j, target).adm = target.adm
<1>1. Intake!Said(j).ip \in Addresses \cup {NoAddress} /\ Intake!Said(j).disk \in Intake!Capacities /\ Intake!Said(j).ver \in Intake!Releases
    BY DEF Intake!Said, Intake!PublicIp, Intake!DiskTotal, Intake!IntakeAssumption, Jobs, Intake!Fields
<1>2. Intake!Changed(j) \subseteq {"ip", "disk", "ver"}
    BY DEF Intake!Changed, Intake!About
<1> QED BY <1>1, <1>2 DEF Intake!Patched, Intake!Fields, Intake!Said

\* updateClient: the row is newer than every copy a request holds.
LEMMA StoresKeeps ==
    ASSUME Intake!IntakeAssumption, IntakeInv, row # Nil, NEW r \in Intake!Fields, row.adm <= r.adm, r.adm <= changes',
           NEW js, JobsFit(js), \A j \in js : j.st = "upsert" => j \in jobs,
           Intake!Stores(r, js), UNCHANGED <<intakeAgent, removed, live>>, changes' \in 0 .. MaxChanges
    PROVE  IntakeInv' /\ row' # Nil /\ row'.adm = r.adm
<1>1. row \in Intake!Fields /\ snap \in Intake!Fields \cup {Nil} /\ intakeQueue \in BOOLEAN /\ Nil \notin Intake!Fields
    BY DEF IntakeInv, IntakeTypes, Intake!IntakeAssumption
<1>2. /\ row' = [r EXCEPT !.at = Intake!Newest]
      /\ intakeQueue' = (intakeQueue \/ <<r.ip, r.adm>> # <<row.ip, row.adm>>)
      /\ snap' = IF snap = Nil THEN snap ELSE [snap EXCEPT !.at = Intake!Rank(snap.at)]
      /\ jobs' = Intake!Reranked(js)
    BY DEF Intake!Stores
<1>3. /\ Intake!Newest \in Nat /\ Intake!Newest > 0
      /\ \A t \in Nat : Intake!Rank(t) \in Nat /\ Intake!Rank(t) < Intake!Newest
      /\ \A s \in Nat, t \in Intake!Times : s < t => Intake!Rank(s) < Intake!Rank(t)
    BY RanksAre
<1>4. row' \in Intake!Fields /\ row' # Nil /\ row'.adm = r.adm /\ row'.at = Intake!Newest
    BY <1>1, <1>2, <1>3 DEF Intake!Fields
<1>5. snap # Nil => /\ snap' \in Intake!Fields /\ snap' # Nil /\ snap'.adm = snap.adm /\ snap'.at = Intake!Rank(snap.at)
                    /\ snap.at \in Nat /\ snap.at \in Intake!Times
    BY <1>1, <1>2, <1>3 DEF Intake!Fields, Intake!Times
<1>6. ASSUME NEW j \in jobs'
      PROVE  \E i \in js : /\ j.st = i.st /\ j.kind = i.kind /\ j \in Jobs
                           /\ j.st # "upsert" => j = i
                           /\ j.st = "upsert" => /\ i \in jobs /\ i.old \in Intake!Fields /\ j.old \in Intake!Fields
                                                 /\ j.old.adm = i.old.adm /\ j.old.at = Intake!Rank(i.old.at)
  <2>1. PICK i \in js : j = IF i.st = "upsert" THEN [i EXCEPT !.old = [i.old EXCEPT !.at = Intake!Rank(i.old.at)]] ELSE i
      BY <1>2 DEF Intake!Reranked
  <2>2. i \in Jobs
      BY DEF JobsFit
  <2>3. CASE i.st # "upsert"
      BY <2>1, <2>2, <2>3
  <2>4. CASE i.st = "upsert"
    <3>1. i.old \in Intake!Fields /\ i \in jobs
        BY <2>4 DEF JobsFit
    <3> DEFINE o == [i.old EXCEPT !.at = Intake!Rank(i.old.at)]
    <3>2. o \in Intake!Fields /\ o.adm = i.old.adm /\ o.at = Intake!Rank(i.old.at)
        BY <3>1, <1>3 DEF Intake!Fields
    <3>3. j = [i EXCEPT !.old = o]
        BY <2>1, <2>4
    <3> HIDE DEF o
    <3>4. j \in Jobs /\ j.st = i.st /\ j.kind = i.kind /\ j.old = o
        BY <2>2, <3>2, <3>3 DEF Jobs
    <3> QED BY <2>4, <3>1, <3>2, <3>4
  <2> QED BY <2>3, <2>4
<1>7. JobsFit(jobs')
    BY <1>6 DEF JobsFit
<1>8. IntakeTypes'
    BY <1>1, <1>2, <1>4, <1>5, <1>7 DEF IntakeInv, IntakeTypes
<1>9. ReadEarlier'
  <2>1. \A j \in jobs' : j.st = "upsert" => j.old.at \in Nat /\ j.old.at < row'.at
      BY <1>3, <1>4, <1>6 DEF Intake!Fields
  <2>2. snap' # Nil => snap'.at \in Nat /\ snap'.at < row'.at
      BY <1>2, <1>3, <1>4, <1>5
  <2>3. row'.at \in Nat /\ row'.at > 0
      BY <1>3, <1>4
  <2>4. \A j \in jobs' : j.st = "upsert" => j.old.at <= row'.at /\ (j.old.adm # row'.adm => j.old.at < row'.at)
      BY <2>1, <2>3
  <2>5. snap' # Nil => snap'.at <= row'.at
      BY <2>2, <2>3
  <2>6. row'.adm <= changes'
      BY <1>4
  <2> QED BY <2>3, <2>4, <2>5, <2>6 DEF ReadEarlier, Earlier
<1>10. Synchronized'
  <2> SUFFICES ASSUME ~intakeQueue' PROVE Synchronized'
      BY DEF Synchronized
  <2>1. ~intakeQueue /\ r.adm = row.adm
      BY <1>2
  <2>2. /\ snap # Nil /\ live # Nil /\ snap.adm = row.adm /\ live.adm = row.adm
        /\ \A j \in jobs : j.st = "upsert" /\ j.old.adm # row.adm => j.old.at < snap.at
      BY <2>1 DEF IntakeInv, Synchronized
  <2>3. ASSUME NEW j \in jobs', j.st = "upsert", j.old.adm # row'.adm PROVE j.old.at < snap'.at
    <3>1. PICK i \in jobs : i.st = "upsert" /\ i.old \in Intake!Fields /\ j.old.adm = i.old.adm /\ j.old.at = Intake!Rank(i.old.at)
        BY <1>6, <2>3
    <3>2. i.old.at < snap.at /\ i.old.at \in Nat
        BY <2>1, <2>2, <2>3, <3>1, <1>4 DEF Intake!Fields
    <3> QED BY <1>3, <1>5, <2>2, <3>1, <3>2
  <2> QED BY <1>4, <1>5, <2>1, <2>2, <2>3 DEF Synchronized
<1> QED BY <1>4, <1>8, <1>9, <1>10 DEF IntakeInv

\* What a recognised request does: none of it stores a copy.
LEMMA WorkFits ==
    ASSUME Intake!IntakeAssumption, NEW kind \in Requested, NEW said \in Machines, NEW old \in Intake!Fields
    PROVE  JobsFit(Intake!Work(kind, said, old)) /\ \A j \in Intake!Work(kind, said, old) : j.st # "upsert"
<1> DEFINE o == [old EXCEPT !.at = 0]
<1>1. o \in Intake!Fields
    BY DEF Intake!Fields
<1>2. Intake!Work(kind, said, old) \subseteq
          [kind : {"basic", "ips", "report", "plain"}, st : {"write", "live"}, said : {said}, old : {o}]
    BY DEF Intake!Work, Requested
<1> HIDE DEF o
<1> QED BY <1>1, <1>2 DEF JobsFit, Jobs, Requested

LEMMA FitTogether ==
    ASSUME NEW js, NEW ks, JobsFit(js), JobsFit(ks)
    PROVE  JobsFit(js \cup ks)
BY DEF JobsFit

LEMMA IntakeArrives ==
    ASSUME Intake!IntakeAssumption, IntakeInv, NEW kind \in Requested, Intake!Arrives(kind)
    PROVE  IntakeInv'
<1>1. UNCHANGED <<intakeAgent, row, snap, removed, live, intakeQueue, changes>>
    BY DEF Intake!Arrives
<1>2. JobsFit(jobs) /\ intakeAgent \in Machines /\ snap \in Intake!Fields \cup {Nil} /\ changes \in 0 .. MaxChanges /\ MaxChanges \in Nat
    BY DEF IntakeInv, IntakeTypes, Intake!IntakeAssumption
<1>3. CASE snap # Nil /\ jobs' = jobs \cup Intake!Work(kind, intakeAgent, snap)
  <2>1. snap \in Intake!Fields
      BY <1>2, <1>3
  <2>2. JobsFit(Intake!Work(kind, intakeAgent, snap)) /\ \A j \in Intake!Work(kind, intakeAgent, snap) : j.st # "upsert"
      BY <1>2, <2>1, WorkFits
  <2>3. JobsFit(jobs') /\ \A j \in jobs' : j.st = "upsert" => j \in jobs
      BY <1>2, <1>3, <2>2, FitTogether
  <2> QED BY <1>1, <1>2, <2>3, JobsGoOn
<1>4. CASE jobs' = jobs \cup {[kind |-> kind, st |-> "read", said |-> intakeAgent, old |-> Nil]}
  <2>1. JobsFit(jobs') /\ \A j \in jobs' : j.st = "upsert" => j \in jobs
      BY <1>2, <1>4 DEF JobsFit, Jobs
  <2> QED BY <1>1, <1>2, <2>1, JobsGoOn
<1> QED BY <1>3, <1>4 DEF Intake!Arrives

LEMMA IntakeRead ==
    ASSUME Intake!IntakeAssumption, IntakeInv, NEW j \in jobs, Intake!Read(j)
    PROVE  IntakeInv'
<1>1. UNCHANGED <<intakeAgent, row, snap, removed, live, intakeQueue, changes>> /\ j.st = "read"
    BY DEF Intake!Read
<1>2. /\ JobsFit(jobs) /\ intakeAgent \in Machines /\ row \in Intake!Fields \cup {Nil} /\ snap \in Intake!Fields \cup {Nil}
      /\ changes \in 0 .. MaxChanges /\ MaxChanges \in Nat
    BY DEF IntakeInv, IntakeTypes, Intake!IntakeAssumption
<1>3. CASE row = Nil
  <2>1. jobs' = jobs \ {j}
      BY <1>3 DEF Intake!Read
  <2>2. JobsFit(jobs') /\ \A i \in jobs' : i.st = "upsert" => i \in jobs
      BY <1>2, <2>1 DEF JobsFit
  <2> QED BY <1>1, <1>2, <2>2, JobsGoOn
<1>4. CASE row # Nil
  <2> DEFINE o == Intake!Normalized(j.kind, row)
             k == [j EXCEPT !.st = "upsert", !.old = o]
  <2>1. jobs' = (jobs \ {j}) \cup {k}
      BY <1>4 DEF Intake!Read
  <2>2. o \in Intake!Fields /\ o.adm = row.adm /\ (o.at = row.at \/ o.at = 0)
      BY <1>2, <1>4 DEF Intake!Normalized, Intake!Fields, Intake!Capacities
  <2> HIDE DEF o
  <2>3. k \in Jobs /\ k.st = "upsert" /\ k.old = o /\ k.kind \in Requested
      BY <1>1, <1>2, <2>2 DEF JobsFit, Jobs
  <2> HIDE DEF k
  <2>4. JobsFit(jobs')
      BY <1>2, <2>1, <2>2, <2>3 DEF JobsFit
  <2>5. IntakeTypes'
      BY <1>1, <2>4 DEF IntakeInv, IntakeTypes
  <2>6. row.at \in Nat /\ row.at > 0 /\ o.at \in Nat /\ o.at <= row.at
      BY <1>2, <1>4, <2>2 DEF IntakeInv, ReadEarlier, Intake!Fields
  <2>7. ReadEarlier'
      BY <1>1, <2>1, <2>2, <2>3, <2>6 DEF IntakeInv, ReadEarlier, Earlier
  <2>8. Synchronized'
      BY <1>1, <1>4, <2>1, <2>2, <2>3 DEF IntakeInv, Synchronized
  <2> QED BY <2>5, <2>7, <2>8 DEF IntakeInv
<1> QED BY <1>3, <1>4

\* storeAgentAuthSnapshot: an older copy does not take the place of a newer one.
LEMMA IntakeUpsert ==
    ASSUME Intake!IntakeAssumption, IntakeInv, NEW j \in jobs, Intake!Upsert(j)
    PROVE  IntakeInv'
<1>1. /\ UNCHANGED <<intakeAgent, row, removed, live, intakeQueue, changes>> /\ j.st = "upsert"
      /\ snap' = IF removed THEN snap ELSE Intake!Upserted(j.old)
      /\ jobs' = (jobs \ {j}) \cup (IF removed THEN {} ELSE Intake!Work(j.kind, j.said, j.old))
    BY DEF Intake!Upsert
<1>2. /\ JobsFit(jobs) /\ intakeAgent \in Machines /\ row \in Intake!Fields \cup {Nil} /\ snap \in Intake!Fields \cup {Nil}
      /\ changes \in 0 .. MaxChanges /\ MaxChanges \in Nat /\ removed \in BOOLEAN /\ intakeQueue \in BOOLEAN
      /\ Nil \notin Intake!Fields
    BY DEF IntakeInv, IntakeTypes, Intake!IntakeAssumption
<1>3. j.old \in Intake!Fields /\ j.kind \in Requested /\ j.said \in Machines /\ j.old # Nil
    BY <1>1, <1>2 DEF JobsFit, Jobs
<1>4. JobsFit(Intake!Work(j.kind, j.said, j.old)) /\ \A i \in Intake!Work(j.kind, j.said, j.old) : i.st # "upsert"
    BY <1>3, WorkFits
<1>5. JobsFit(jobs') /\ \A i \in jobs' : i.st = "upsert" => i \in jobs
  <2>1. JobsFit(jobs \ {j})
      BY <1>2 DEF JobsFit
  <2>2. CASE removed
      BY <1>1, <2>1, <2>2
  <2>3. CASE ~removed
      BY <1>1, <1>4, <2>1, <2>3, FitTogether
  <2> QED BY <2>2, <2>3
<1>6. CASE snap' = snap
    BY <1>1, <1>2, <1>5, <1>6, JobsGoOn
<1>7. CASE snap' # snap
  <2>1. snap' = j.old /\ ~removed /\ (snap # Nil => ~(snap.at > j.old.at))
      BY <1>1, <1>7 DEF Intake!Upserted
  <2>2. IntakeTypes'
      BY <1>1, <1>2, <1>3, <1>5, <2>1 DEF IntakeInv, IntakeTypes
  <2>3. ReadEarlier'
      BY <1>1, <1>5, <2>1 DEF IntakeInv, ReadEarlier, Earlier
  <2>4. Synchronized'
    <3> SUFFICES ASSUME ~intakeQueue PROVE Synchronized'
        BY <1>1 DEF Synchronized
    <3>1. row # Nil
        BY <2>1 DEF IntakeInv, Synchronized
    <3>2. /\ snap # Nil /\ live # Nil /\ snap.adm = row.adm /\ live.adm = row.adm
          /\ \A i \in jobs : i.st = "upsert" /\ i.old.adm # row.adm => i.old.at < snap.at
        BY <3>1 DEF IntakeInv, Synchronized
    <3>3. snap.at \in Nat /\ j.old.at \in Nat /\ snap.at <= j.old.at
        BY <1>2, <1>3, <2>1, <3>2 DEF Intake!Fields
    <3>4. j.old.adm = row.adm
        BY <1>1, <3>2, <3>3
    <3>5. ASSUME NEW i \in jobs', i.st = "upsert", i.old.adm # row.adm PROVE i.old.at < snap'.at
      <4>1. i.old.at < snap.at /\ i.old.at \in Nat
          BY <1>2, <1>5, <3>2, <3>5 DEF JobsFit, Intake!Fields
      <4> QED BY <2>1, <3>3, <4>1
    <3> QED BY <1>1, <1>3, <2>1, <3>1, <3>2, <3>4, <3>5 DEF Synchronized
  <2> QED BY <2>2, <2>3, <2>4 DEF IntakeInv
<1> QED BY <1>6, <1>7

LEMMA IntakeWrite ==
    ASSUME Intake!IntakeAssumption, IntakeInv, NEW j \in jobs, Intake!Write(j)
    PROVE  IntakeInv' /\ (row' # Nil => row # Nil /\ row'.adm = row.adm)
<1> DEFINE js == (jobs \ {j}) \cup Intake!AfterWrite(j)
<1>1. UNCHANGED <<intakeAgent, removed, live, changes>> /\ j.st = "write"
    BY DEF Intake!Write
<1>2. /\ JobsFit(jobs) /\ intakeAgent \in Machines /\ row \in Intake!Fields \cup {Nil}
      /\ changes \in 0 .. MaxChanges /\ MaxChanges \in Nat
    BY DEF IntakeInv, IntakeTypes, Intake!IntakeAssumption
<1>3. j \in Jobs /\ j.old \in Intake!Fields
    BY <1>1, <1>2 DEF JobsFit
<1>4. JobsFit(Intake!AfterWrite(j)) /\ \A i \in Intake!AfterWrite(j) : i.st # "upsert"
  <2>1. Intake!AfterWrite(j) \subseteq {[j EXCEPT !.st = "meta"], [j EXCEPT !.st = "live"]}
      BY DEF Intake!AfterWrite
  <2>2. \A i \in {[j EXCEPT !.st = "meta"], [j EXCEPT !.st = "live"]} :
            i \in Jobs /\ i.old = j.old /\ i.st \in {"meta", "live"}
      BY <1>3 DEF Jobs
  <2> QED BY <1>3, <2>1, <2>2 DEF JobsFit
<1>5. JobsFit(js) /\ \A i \in js : i.st = "upsert" => i \in jobs
  <2>1. JobsFit(jobs \ {j})
      BY <1>2 DEF JobsFit
  <2> QED BY <1>4, <2>1, FitTogether
<1>6. CASE jobs' = js /\ UNCHANGED <<row, snap, intakeQueue>>
  <2>1. JobsFit(jobs') /\ \A i \in jobs' : i.st = "upsert" => i \in jobs
      BY <1>5, <1>6
  <2> QED BY <1>1, <1>2, <1>6, <2>1, JobsGoOn
<1>7. CASE row # Nil /\ Intake!Stores(Intake!Written(j), js)
  <2>1. Intake!Written(j) \in Intake!Fields /\ Intake!Written(j).adm = row.adm
      BY <1>2, <1>3, <1>7, PatchedIs DEF Intake!Written
  <2>2. row.adm \in Nat /\ row.adm <= changes
      BY <1>2, <1>7 DEF IntakeInv, ReadEarlier, Intake!Fields
  <2> HIDE DEF js
  <2> QED BY <1>1, <1>2, <1>5, <1>7, <2>1, <2>2, StoresKeeps
<1> QED BY <1>6, <1>7 DEF Intake!Write

LEMMA IntakeShow ==
    ASSUME Intake!IntakeAssumption, IntakeInv, NEW j \in jobs, NEW arrives \in BOOLEAN, Intake!Show(j, arrives)
    PROVE  IntakeInv'
<1>1. /\ UNCHANGED <<intakeAgent, row, snap, removed, intakeQueue, changes>> /\ j.st = "meta"
      /\ live' = IF arrives THEN Intake!Shown(j) ELSE live
      /\ jobs' = (jobs \ {j}) \cup Intake!AfterShow(j)
    BY DEF Intake!Show
<1>2. JobsFit(jobs) /\ live \in Intake!Fields \cup {Nil} /\ Nil \notin Intake!Fields
    BY DEF IntakeInv, IntakeTypes, Intake!IntakeAssumption
<1>3. j \in Jobs /\ j.old \in Intake!Fields
    BY <1>1, <1>2 DEF JobsFit
<1>4. live' \in Intake!Fields \cup {Nil} /\ (live' = Nil <=> live = Nil) /\ (live # Nil => live'.adm = live.adm)
  <2>1. CASE live = Nil \/ ~arrives
      BY <1>1, <1>2, <2>1 DEF Intake!Shown
  <2>2. CASE live # Nil /\ arrives
    <3>1. live' = [Intake!Patched(j, live) EXCEPT !.disk = Intake!Said(j).disk, !.ver = Intake!Said(j).ver]
        BY <1>1, <2>2 DEF Intake!Shown
    <3>2. Intake!Patched(j, live) \in Intake!Fields /\ Intake!Patched(j, live).adm = live.adm
        BY <1>2, <1>3, <2>2, PatchedIs
    <3>3. Intake!Said(j).disk \in Intake!Capacities /\ Intake!Said(j).ver \in Intake!Releases
        BY <1>3 DEF Intake!Said, Intake!DiskTotal, Intake!IntakeAssumption, Jobs, Intake!Fields
    <3>4. live' \in Intake!Fields /\ live'.adm = live.adm
        BY <3>1, <3>2, <3>3 DEF Intake!Fields
    <3> QED BY <1>2, <2>2, <3>4
  <2> QED BY <2>1, <2>2
<1>5. JobsFit(jobs') /\ \A i \in jobs' : i.st = "upsert" => i \in jobs
  <2>1. Intake!AfterShow(j) \subseteq {[j EXCEPT !.st = "live"]}
      BY DEF Intake!AfterShow
  <2>2. [j EXCEPT !.st = "live"] \in Jobs /\ [j EXCEPT !.st = "live"].st = "live" /\ [j EXCEPT !.st = "live"].old = j.old
      BY <1>3 DEF Jobs
  <2> QED BY <1>1, <1>2, <1>3, <2>1, <2>2 DEF JobsFit
<1>6. IntakeTypes'
    BY <1>1, <1>4, <1>5 DEF IntakeInv, IntakeTypes
<1>7. ReadEarlier'
    BY <1>1, <1>5 DEF IntakeInv, ReadEarlier, Earlier
<1>8. Synchronized'
    BY <1>1, <1>4, <1>5 DEF IntakeInv, Synchronized
<1> QED BY <1>6, <1>7, <1>8 DEF IntakeInv

LEMMA IntakeStoreReport ==
    ASSUME Intake!IntakeAssumption, IntakeInv, NEW j \in jobs, Intake!StoreReport(j)
    PROVE  IntakeInv'
<1> DEFINE k == [j EXCEPT !.kind = "version", !.st = "write"]
<1>1. /\ UNCHANGED <<intakeAgent, row, snap, removed, live, intakeQueue, changes>> /\ j.st = "live"
      /\ jobs' \subseteq jobs \cup {k}
    BY DEF Intake!StoreReport
<1>2. JobsFit(jobs) /\ intakeAgent \in Machines /\ changes \in 0 .. MaxChanges /\ MaxChanges \in Nat
    BY DEF IntakeInv, IntakeTypes, Intake!IntakeAssumption
<1>3. k \in Jobs /\ k.st = "write" /\ k.old \in Intake!Fields
    BY <1>1, <1>2 DEF JobsFit, Jobs
<1> HIDE DEF k
<1>4. JobsFit(jobs') /\ \A i \in jobs' : i.st = "upsert" => i \in jobs
    BY <1>1, <1>2, <1>3 DEF JobsFit
<1> QED BY <1>1, <1>2, <1>4, JobsGoOn

LEMMA IntakeAdminEdits ==
    ASSUME Intake!IntakeAssumption, IntakeInv, Intake!AdminEdits
    PROVE  IntakeInv' /\ row # Nil /\ row'.adm >= row.adm
<1>1. /\ changes < MaxChanges /\ row # Nil /\ changes' = changes + 1
      /\ Intake!Stores([row EXCEPT !.adm = changes'], jobs) /\ UNCHANGED <<intakeAgent, removed, live>>
    BY DEF Intake!AdminEdits
<1>2. /\ JobsFit(jobs) /\ row \in Intake!Fields /\ changes \in 0 .. MaxChanges /\ MaxChanges \in Nat
      /\ row.adm <= changes /\ row.adm \in Nat
    BY <1>1 DEF IntakeInv, IntakeTypes, Intake!IntakeAssumption, ReadEarlier, Intake!Fields
<1> DEFINE r == [row EXCEPT !.adm = changes']
<1>3. changes' \in 0 .. MaxChanges /\ row.adm <= changes'
    BY <1>1, <1>2
<1>4. r \in Intake!Fields /\ r.adm = changes'
    BY <1>2, <1>3 DEF Intake!Fields
<1>5. Intake!Stores(r, jobs)
    BY <1>1
<1> HIDE DEF r
<1>6. row.adm <= r.adm /\ r.adm <= changes'
    BY <1>2, <1>3, <1>4
<1>7. IntakeInv' /\ row' # Nil /\ row'.adm = r.adm
    BY <1>1, <1>2, <1>3, <1>4, <1>5, <1>6, StoresKeeps
<1> QED BY <1>1, <1>2, <1>3, <1>4, <1>7

\* The inductive invariant holds in every state.
THEOREM IntakeInvariant == Intake!IntakeAssumption => (Intake!Spec => []IntakeInv)
<1> SUFFICES ASSUME Intake!IntakeAssumption PROVE Intake!Spec => []IntakeInv
    OBVIOUS
<1>1. Intake!Init => IntakeInv
  <2> SUFFICES ASSUME Intake!Init PROVE IntakeInv
      OBVIOUS
  <2>1. row \in Intake!Fields /\ row.at = 1 /\ row.adm = 0 /\ MaxChanges \in Nat
      BY DEF Intake!Init, Intake!Fields, Intake!Capacities, Intake!IntakeAssumption
  <2>2. /\ intakeAgent \in Machines /\ snap = Nil /\ live = Nil /\ removed = FALSE /\ intakeQueue = TRUE
        /\ jobs = {} /\ changes = 0
      BY DEF Intake!Init
  <2>3. IntakeTypes
    <3>1. removed \in BOOLEAN /\ intakeQueue \in BOOLEAN
        BY <2>2
    <3>2. changes \in 0 .. MaxChanges
        BY <2>1, <2>2
    <3>3. JobsFit(jobs)
        BY <2>2 DEF JobsFit
    <3> QED BY <2>1, <2>2, <3>1, <3>2, <3>3 DEF IntakeTypes
  <2> QED BY <2>1, <2>2, <2>3 DEF IntakeInv, ReadEarlier, Synchronized
<1>2. IntakeInv /\ [Intake!Next]_Intake!vars => IntakeInv'
  <2> SUFFICES ASSUME IntakeInv, [Intake!Next]_Intake!vars PROVE IntakeInv'
      OBVIOUS
  <2>1. /\ JobsFit(jobs) /\ intakeAgent \in Machines /\ row \in Intake!Fields \cup {Nil} /\ changes \in 0 .. MaxChanges
        /\ MaxChanges \in Nat /\ intakeQueue \in BOOLEAN
      BY DEF IntakeInv, IntakeTypes, Intake!IntakeAssumption
  <2>2. ASSUME UNCHANGED <<intakeAgent, row, snap, removed, live, intakeQueue, changes>>, jobs' \subseteq jobs PROVE IntakeInv'
    <3>1. JobsFit(jobs') /\ \A i \in jobs' : i.st = "upsert" => i \in jobs
        BY <2>1, <2>2 DEF JobsFit
    <3> QED BY <2>1, <2>2, <3>1, JobsGoOn
  <2>3. CASE UNCHANGED Intake!vars
      BY <2>2, <2>3 DEF Intake!vars
  <2>4. CASE Intake!UploadBasicInfo \/ Intake!Report \/ Intake!Identify
      BY <2>4, IntakeArrives DEF Intake!UploadBasicInfo, Intake!Report, Intake!Identify, Requested
  <2>5. CASE Intake!NegativeExpires
      BY <2>2, <2>5 DEF Intake!NegativeExpires
  <2>6. ASSUME NEW j \in jobs, Intake!Proceed(j) \/ Intake!Show(j, FALSE) PROVE IntakeInv'
      BY <2>6, IntakeRead, IntakeUpsert, IntakeWrite, IntakeShow, IntakeStoreReport DEF Intake!Proceed
  <2>7. ASSUME NEW j \in jobs, Intake!Lose(j) PROVE IntakeInv'
      BY <2>2, <2>7 DEF Intake!Lose
  <2>8. CASE Intake!MachineChanges
    <3>1. /\ intakeAgent' \in Machines /\ changes' = changes + 1 /\ changes < MaxChanges
          /\ UNCHANGED <<row, snap, removed, live, intakeQueue, jobs>>
        BY <2>8 DEF Intake!MachineChanges
    <3>2. changes' \in 0 .. MaxChanges /\ changes <= changes'
        BY <2>1, <3>1
    <3>3. JobsFit(jobs')
        BY <2>1, <3>1
    <3> QED BY <2>1, <3>1, <3>2, <3>3, JobsGoOn
  <2>9. CASE Intake!AdminEdits
      BY <2>9, IntakeAdminEdits
  <2>10. CASE Intake!AdminDeletes
    <3>1. /\ row' = Nil /\ intakeQueue' = TRUE /\ changes' = changes + 1 /\ changes < MaxChanges
          /\ UNCHANGED <<intakeAgent, snap, removed, live, jobs>>
        BY <2>10 DEF Intake!AdminDeletes
    <3>2. changes' \in 0 .. MaxChanges
        BY <2>1, <3>1
    <3>3. JobsFit(jobs')
        BY <2>1, <3>1
    <3> QED BY <3>1, <3>2, <3>3 DEF IntakeInv, IntakeTypes, ReadEarlier, Synchronized
  <2>11. CASE Intake!Synchronize
    <3>1. /\ snap' = row /\ live' = row /\ removed' = (row = Nil) /\ intakeQueue' = FALSE
          /\ UNCHANGED <<intakeAgent, row, jobs, changes>>
        BY <2>11 DEF Intake!Synchronize
    <3>2. IntakeTypes'
        BY <2>1, <3>1 DEF IntakeInv, IntakeTypes
    <3>3. row # Nil => row.at \in Nat
        BY <2>1 DEF Intake!Fields
    <3>4. ReadEarlier'
        BY <3>1, <3>3 DEF IntakeInv, ReadEarlier, Earlier
    <3>5. Synchronized'
      <4>1. CASE row = Nil
          BY <3>1, <4>1 DEF Synchronized
      <4>2. CASE row # Nil
        <5>1. \A j \in jobs : j.st = "upsert" /\ j.old.adm # row.adm => j.old.at < row.at
            BY <4>2 DEF IntakeInv, ReadEarlier, Earlier
        <5> QED BY <3>1, <4>2, <5>1 DEF Synchronized
      <4> QED BY <4>1, <4>2
    <3> QED BY <3>2, <3>4, <3>5 DEF IntakeInv
  <2> QED BY <2>3, <2>4, <2>5, <2>6, <2>7, <2>8, <2>9, <2>10, <2>11 DEF Intake!Next
<1> QED BY <1>1, <1>2, PTL DEF Intake!Spec

\* What the administrator wrote is kept, and a deleted node stays away (updateClient with the
\* changed fields only, storeAgentAuthSnapshot, synchronizePendingClientChanges).
THEOREM AdminIsKept == Intake!IntakeAssumption => (Intake!Spec => [][Intake!AdminKept]_Intake!vars)
<1> SUFFICES ASSUME Intake!IntakeAssumption PROVE Intake!Spec => [][Intake!AdminKept]_Intake!vars
    OBVIOUS
<1>1. IntakeInv /\ IntakeInv' /\ [Intake!Next]_Intake!vars => [Intake!AdminKept]_Intake!vars
  <2> SUFFICES ASSUME IntakeInv, IntakeInv', Intake!Next PROVE Intake!AdminKept
      OBVIOUS
  <2>1. row' # Nil => row # Nil /\ row'.adm >= row.adm
    <3>1. row # Nil => row.adm \in Nat
        BY DEF IntakeInv, IntakeTypes, Intake!Fields
    <3>2. CASE row' = row
        BY <3>1, <3>2
    <3>3. ASSUME NEW j \in jobs, Intake!Write(j) PROVE row' # Nil => row # Nil /\ row'.adm >= row.adm
      <4>1. row' # Nil => row # Nil /\ row'.adm = row.adm
          BY <3>3, IntakeWrite
      <4> QED BY <3>1, <4>1
    <3>4. CASE Intake!AdminEdits
        BY <3>4, IntakeAdminEdits
    <3>5. CASE Intake!AdminDeletes
        BY <3>5 DEF Intake!AdminDeletes
    <3>6. CASE Intake!UploadBasicInfo \/ Intake!Report \/ Intake!Identify \/ Intake!NegativeExpires \/ Intake!MachineChanges \/ Intake!Synchronize
        BY <3>2, <3>6 DEF Intake!UploadBasicInfo, Intake!Report, Intake!Identify, Intake!Arrives, Intake!NegativeExpires, Intake!MachineChanges, Intake!Synchronize
    <3>7. ASSUME NEW j \in jobs, Intake!Read(j) \/ Intake!Upsert(j) \/ Intake!Show(j, TRUE) \/ Intake!Show(j, FALSE) \/ Intake!StoreReport(j) \/ Intake!Lose(j)
          PROVE  row' = row
        BY <3>7 DEF Intake!Read, Intake!Upsert, Intake!Show, Intake!StoreReport, Intake!Lose
    <3> QED BY <3>2, <3>3, <3>4, <3>5, <3>6, <3>7 DEF Intake!Next, Intake!Proceed
  <2>2. ~intakeQueue' => IF row' = Nil THEN snap' = Nil /\ live' = Nil ELSE {snap'.adm, live'.adm} = {row'.adm}
      BY DEF IntakeInv, Synchronized
  <2> QED BY <2>1, <2>2 DEF Intake!AdminKept
<1> QED BY <1>1, IntakeInvariant, PTL DEF Intake!Spec

-----------------------------------------------------------------------------
(* The logins: the inductive invariant and the proofs *)

Hashed == [of : Nat, old : BOOLEAN]
Loading == [todo : {"load"}, user : Users, began : Nat, seen : UNION {[Logins!BucketsOf(u) -> Nat] : u \in Users}]
Verifying == [todo : {"verify", "background"}, user : Users, began : Nat,
              seen : UNION {[Logins!BucketsOf(u) -> Nat] : u \in Users}, hash : Hashed]

LoginTypes ==
    /\ loginNow \in Nat /\ loginFailed \in Nat
    /\ attempt \in [Attempts -> {Logins!Idle} \cup Loading \cup Verifying]
    /\ password \in Hashed

\* An attempt saw nothing that was written after it began.
SeenBefore ==
    \A a \in Attempts : attempt[a] # Logins!Idle =>
        /\ attempt[a].seen \in [Logins!BucketsOf(attempt[a].user) -> Nat]
        /\ attempt[a].began <= loginFailed
        /\ \A b \in Logins!BucketsOf(attempt[a].user) : attempt[a].seen[b] <= attempt[a].began

\* What a bucket knows of its failures: those of its row are the newest, and a bucket without
\* a row has none of the last window.
Keeps(entry, fs) ==
    /\ {entry.failures, entry.first, entry.last, entry.revision} \subseteq Nat
    /\ IsFiniteSet(fs)
    /\ \A f \in fs : f.id \in Nat /\ f.at \in Nat /\ f.id <= loginFailed /\ f.at <= loginNow
    /\ entry.revision <= loginFailed
    /\ entry = Logins!NoRow => \A f \in fs : loginNow - f.at > Window
    /\ entry # Logins!NoRow =>
        /\ entry.first <= entry.last /\ entry.last <= loginNow /\ entry.last - entry.first <= Window
        /\ \A f \in fs : f.at <= entry.last /\ f.id <= entry.revision
        /\ Cardinality({f \in fs : f.at >= entry.first}) <= entry.failures

LoginInv == LoginTypes /\ SeenBefore /\ \A b \in Logins!Buckets : Keeps(loginRows[b], open[b])

-----------------------------------------------------------------------------
\* The instance of the logins' model counts sets as this module does.
LEMMA SameLoginCardinality == \A S : Logins!Cardinality(S) = Cardinality(S)
    BY DEF Logins!Cardinality, Cardinality

\* NoRow has no failures, and its times are 0.
LEMMA NoRowIs ==
    Logins!NoRow.failures = 0 /\ Logins!NoRow.first = 0 /\ Logins!NoRow.last = 0 /\ Logins!NoRow.revision = 0
    BY DEF Logins!NoRow

\* What an attempt is, once it is under way.
LEMMA AttemptIs ==
    ASSUME LoginInv, NEW a \in Attempts, attempt[a] # Logins!Idle
    PROVE  /\ attempt[a].user \in Users /\ Logins!BucketsOf(attempt[a].user) \subseteq Logins!Buckets
           /\ attempt[a].began \in Nat /\ attempt[a].began <= loginFailed
           /\ attempt[a].seen \in [Logins!BucketsOf(attempt[a].user) -> Nat]
           /\ \A b \in Logins!BucketsOf(attempt[a].user) : attempt[a].seen[b] <= attempt[a].began
<1>1. attempt[a] \in Loading \cup Verifying
    BY DEF LoginInv, LoginTypes
<1>2. attempt[a].user \in Users /\ attempt[a].began \in Nat
    BY <1>1 DEF Loading, Verifying
<1> QED BY <1>2 DEF LoginInv, SeenBefore, Logins!Buckets, Logins!BucketsOf

\* A failure more, in a bucket of the attempt.
LEMMA FailureIsKept ==
    ASSUME Logins!LimitAssumption, loginNow \in Nat, loginFailed \in Nat, NEW entry, NEW fs, Keeps(entry, fs)
    PROVE  LET new == [id |-> loginFailed + 1, at |-> loginNow]
               next == Logins!AfterFailure(entry)
               all == fs \cup {new} IN
           /\ {next.failures, next.first, next.last, next.revision} \subseteq Nat
           /\ next.revision = loginFailed + 1 /\ next # Logins!NoRow /\ IsFiniteSet(all)
           /\ \A f \in all : f.id \in Nat /\ f.at \in Nat /\ f.id <= loginFailed + 1 /\ f.at <= loginNow
           /\ next.first <= next.last /\ next.last <= loginNow /\ next.last - next.first <= Window
           /\ \A f \in all : f.at <= next.last /\ f.id <= next.revision
           /\ Cardinality({f \in all : f.at >= next.first}) <= next.failures
<1> DEFINE new == [id |-> loginFailed + 1, at |-> loginNow]
           next == Logins!AfterFailure(entry)
           all == fs \cup {new}
           same == entry # Logins!NoRow /\ loginNow - entry.first <= Window
           old == {f \in fs : f.at >= next.first}
<1>0. Window \in Nat /\ new.id = loginFailed + 1 /\ new.at = loginNow
    BY DEF Logins!LimitAssumption
<1>1. /\ next.failures = (IF same THEN entry.failures + 1 ELSE 1)
      /\ next.first = (IF same THEN entry.first ELSE loginNow)
      /\ next.last = loginNow /\ next.revision = loginFailed + 1
    BY DEF Logins!AfterFailure
<1>2. {next.failures, next.first, next.last, next.revision} \subseteq Nat
    BY <1>1 DEF Keeps
<1>3. next # Logins!NoRow
    BY <1>1, NoRowIs
<1>4. IsFiniteSet(all) /\ IsFiniteSet(fs)
    BY FS_AddElement DEF Keeps
<1>5. \A f \in all : f.id \in Nat /\ f.at \in Nat /\ f.id <= loginFailed + 1 /\ f.at <= loginNow
    BY <1>0 DEF Keeps
<1>6. next.first <= next.last /\ next.last <= loginNow /\ next.last - next.first <= Window
    BY <1>0, <1>1 DEF Keeps
<1>7. \A f \in all : f.at <= next.last /\ f.id <= next.revision
    BY <1>1, <1>5
<1>8. IsFiniteSet(old) /\ Cardinality(old) \in Nat
    BY <1>4, FS_Subset, FS_CardinalityType
<1>9. Cardinality(old) + 1 <= next.failures
  <2>1. CASE same
    <3>1. old = {f \in fs : f.at >= entry.first} /\ next.failures = entry.failures + 1 /\ entry.failures \in Nat
        BY <1>1, <2>1 DEF Keeps
    <3>2. Cardinality({f \in fs : f.at >= entry.first}) <= entry.failures
        BY <2>1 DEF Keeps
    <3> HIDE DEF old, next
    <3> QED BY <3>1, <3>2, <1>8
  <2>2. CASE ~same
    <3>1. \A f \in fs : f.at < loginNow
        BY <2>2, <1>0 DEF Keeps
    <3>2. old = {}
        BY <3>1, <1>1, <2>2 DEF Keeps
    <3>3. Cardinality(old) = 0 /\ next.failures = 1
        BY <3>2, <1>1, <2>2, FS_EmptySet
    <3> QED BY <3>3
  <2> QED BY <2>1, <2>2
<1>10. Cardinality({f \in all : f.at >= next.first}) <= next.failures
  <2>1. {f \in all : f.at >= next.first} \subseteq old \cup {new}
      OBVIOUS
  <2>2. IsFiniteSet(old \cup {new}) /\ Cardinality(old \cup {new}) <= Cardinality(old) + 1
        /\ Cardinality(old \cup {new}) \in Nat
    <3> HIDE DEF old, new
    <3>1. IsFiniteSet(old \cup {new}) /\ (Cardinality(old \cup {new}) = Cardinality(old)
                                           \/ Cardinality(old \cup {new}) = Cardinality(old) + 1)
        BY <1>8, FS_AddElement
    <3> QED BY <3>1, <1>8
  <2>3. /\ Cardinality({f \in all : f.at >= next.first}) <= Cardinality(old \cup {new})
        /\ Cardinality({f \in all : f.at >= next.first}) \in Nat
      BY <2>1, <2>2, FS_Subset, FS_CardinalityType
  <2> HIDE DEF old, next, all, new
  <2> QED BY <2>2, <2>3, <1>8, <1>9, <1>2
<1> QED BY <1>1, <1>2, <1>3, <1>4, <1>5, <1>6, <1>7, <1>10

\* Time and the count of failures go on, and failures may be forgiven.
LEMMA BucketStays ==
    ASSUME Logins!LimitAssumption, LoginInv, NEW b \in Logins!Buckets, loginNow' \in Nat, loginNow' >= loginNow, loginFailed' \in Nat,
           loginFailed' >= loginFailed, loginRows'[b] = loginRows[b], open'[b] \subseteq open[b]
    PROVE  Keeps(loginRows[b], open[b])'
<1> DEFINE entry == loginRows[b]
           fs == open[b]
           gs == open'[b]
<1>1. Keeps(entry, fs) /\ loginNow \in Nat /\ loginFailed \in Nat /\ Window \in Nat
    BY DEF LoginInv, LoginTypes, Logins!LimitAssumption
<1>2. IsFiniteSet(gs)
    BY <1>1, FS_Subset DEF Keeps
<1>3. \A f \in gs : f.id \in Nat /\ f.at \in Nat /\ f.id <= loginFailed' /\ f.at <= loginNow'
    BY <1>1 DEF Keeps
<1>4. entry = Logins!NoRow => \A f \in gs : loginNow' - f.at > Window
    BY <1>1, <1>3 DEF Keeps
<1>5. ASSUME entry # Logins!NoRow PROVE Cardinality({f \in gs : f.at >= entry.first}) <= entry.failures
  <2>1. {f \in gs : f.at >= entry.first} \subseteq {f \in fs : f.at >= entry.first} /\ IsFiniteSet({f \in fs : f.at >= entry.first})
      BY <1>1, FS_Subset DEF Keeps
  <2>2. /\ Cardinality({f \in gs : f.at >= entry.first}) <= Cardinality({f \in fs : f.at >= entry.first})
        /\ Cardinality({f \in gs : f.at >= entry.first}) \in Nat
        /\ Cardinality({f \in fs : f.at >= entry.first}) \in Nat
      BY <2>1, FS_Subset, FS_CardinalityType
  <2>3. Cardinality({f \in fs : f.at >= entry.first}) <= entry.failures /\ entry.failures \in Nat
      BY <1>1, <1>5 DEF Keeps
  <2> HIDE DEF entry, fs, gs
  <2> QED BY <2>2, <2>3
<1>6. /\ {entry.failures, entry.first, entry.last, entry.revision} \subseteq Nat /\ entry.revision <= loginFailed'
      /\ entry # Logins!NoRow =>
          /\ entry.first <= entry.last /\ entry.last <= loginNow' /\ entry.last - entry.first <= Window
          /\ \A f \in gs : f.at <= entry.last /\ f.id <= entry.revision
    BY <1>1 DEF Keeps
<1>7. loginRows'[b] = entry
    OBVIOUS
<1> HIDE DEF entry, gs
<1> QED BY <1>2, <1>3, <1>4, <1>5, <1>6, <1>7 DEF Keeps, gs

\* A row goes: with failures that were forgiven, or that no window holds.
LEMMA BucketGoes ==
    ASSUME Logins!LimitAssumption, LoginInv, NEW b \in Logins!Buckets, loginNow' = loginNow, loginFailed' = loginFailed, loginRows'[b] = Logins!NoRow,
           open'[b] \subseteq open[b], \A f \in open'[b] : loginNow - f.at > Window
    PROVE  Keeps(loginRows[b], open[b])'
<1>1. Keeps(loginRows[b], open[b]) /\ loginNow \in Nat /\ loginFailed \in Nat
    BY DEF LoginInv, LoginTypes
<1>2. IsFiniteSet(open'[b])
    BY <1>1, FS_Subset DEF Keeps
<1> QED BY <1>1, <1>2, NoRowIs DEF Keeps

\* At the beginning nobody has failed.
LEMMA LoginInit == Logins!LimitAssumption /\ Logins!Init => LoginInv
<1> SUFFICES ASSUME Logins!LimitAssumption, Logins!Init PROVE LoginInv
    OBVIOUS
<1>1. LoginTypes /\ SeenBefore
    BY DEF Logins!Init, LoginTypes, SeenBefore, Hashed, Logins!Idle
<1>2. ASSUME NEW b \in Logins!Buckets PROVE Keeps(loginRows[b], open[b])
  <2>1. loginRows[b] = Logins!NoRow /\ open[b] = {} /\ loginFailed = 0 /\ loginNow = 1
      BY DEF Logins!Init
  <2> QED BY <2>1, NoRowIs, FS_EmptySet DEF Keeps
<1> QED BY <1>1, <1>2 DEF LoginInv

\* The buckets of a step that changes attempts only.
LEMMA BucketsStay ==
    ASSUME Logins!LimitAssumption, LoginInv, UNCHANGED <<loginNow, loginRows, loginFailed, open>>
    PROVE  (\A b \in Logins!Buckets : Keeps(loginRows[b], open[b]))'
<1>1. loginNow' \in Nat /\ loginNow' >= loginNow /\ loginFailed' \in Nat /\ loginFailed' >= loginFailed
    BY DEF LoginInv, LoginTypes
<1>2. ASSUME NEW b \in Logins!Buckets PROVE Keeps(loginRows[b], open[b])'
    BY <1>1, BucketStays
<1> QED BY <1>2 DEF Logins!Buckets

\* An attempt begins: it sees rows that are there.
LEMMA LoginBegin ==
    ASSUME Logins!LimitAssumption, LoginInv, NEW a \in Attempts, NEW u \in Users, Logins!Begin(a, u)
    PROVE  LoginInv'
<1> DEFINE new == [todo |-> "load", user |-> u, began |-> loginFailed,
                   seen |-> [b \in Logins!BucketsOf(u) |-> loginRows[b].revision]]
<1>1. (\A b \in Logins!Buckets : Keeps(loginRows[b], open[b]))'
    BY BucketsStay DEF Logins!Begin
<1>2. attempt' = [attempt EXCEPT ![a] = new] /\ UNCHANGED <<loginNow, loginFailed, password>>
    BY DEF Logins!Begin
<1>3. \A b \in Logins!BucketsOf(u) : loginRows[b].revision \in Nat /\ loginRows[b].revision <= loginFailed
    BY DEF LoginInv, Keeps, Logins!BucketsOf, Logins!Buckets
<1>4. new.seen \in [Logins!BucketsOf(u) -> Nat]
    BY <1>3
<1>5. new \in Loading /\ loginFailed \in Nat
    BY <1>4 DEF Loading, LoginInv, LoginTypes
<1>6. LoginTypes'
    BY <1>2, <1>5 DEF LoginInv, LoginTypes
<1>7. SeenBefore'
  <2> SUFFICES ASSUME NEW c \in Attempts, attempt'[c] # Logins!Idle
               PROVE  /\ attempt'[c].seen \in [Logins!BucketsOf(attempt'[c].user) -> Nat]
                      /\ attempt'[c].began <= loginFailed'
                      /\ \A b \in Logins!BucketsOf(attempt'[c].user) : attempt'[c].seen[b] <= attempt'[c].began
      BY DEF SeenBefore, Logins!BucketsOf
  <2>1. CASE c = a
    <3>1. attempt'[c] = new
        BY <2>1, <1>2 DEF LoginInv, LoginTypes
    <3> QED BY <3>1, <1>2, <1>3, <1>4, <1>5
  <2>2. CASE c # a
    <3>1. attempt'[c] = attempt[c]
        BY <2>2, <1>2 DEF LoginInv, LoginTypes
    <3> QED BY <3>1, <1>2 DEF LoginInv, SeenBefore
  <2> QED BY <2>1, <2>2
<1> QED BY <1>1, <1>6, <1>7 DEF LoginInv

\* An attempt goes on, knowing what it knew, or is over.
LEMMA AttemptGoesOn ==
    ASSUME LoginInv, NEW a \in Attempts, loginFailed' \in Nat, loginFailed' >= loginFailed, loginNow' \in Nat, password' \in Hashed,
           NEW next \in {Logins!Idle} \cup Verifying, attempt' = [attempt EXCEPT ![a] = next],
           attempt[a] # Logins!Idle,
           next # Logins!Idle => /\ next.user = attempt[a].user /\ next.seen = attempt[a].seen
                          /\ next.began = attempt[a].began
    PROVE  LoginTypes' /\ SeenBefore'
<1>1. LoginTypes'
    BY DEF LoginInv, LoginTypes
<1>2. SeenBefore'
  <2> SUFFICES ASSUME NEW c \in Attempts, attempt'[c] # Logins!Idle
               PROVE  /\ attempt'[c].seen \in [Logins!BucketsOf(attempt'[c].user) -> Nat]
                      /\ attempt'[c].began <= loginFailed'
                      /\ \A b \in Logins!BucketsOf(attempt'[c].user) : attempt'[c].seen[b] <= attempt'[c].began
      BY DEF SeenBefore, Logins!BucketsOf
  <2>1. /\ attempt[c] # Logins!Idle /\ attempt'[c].user = attempt[c].user /\ attempt'[c].seen = attempt[c].seen
        /\ attempt'[c].began = attempt[c].began
      BY DEF LoginInv, LoginTypes
  <2>2. loginFailed \in Nat /\ attempt[c].began \in Nat /\ attempt[c].began <= loginFailed
      BY <2>1, AttemptIs DEF LoginInv, LoginTypes
  <2>3. /\ attempt[c].seen \in [Logins!BucketsOf(attempt[c].user) -> Nat]
        /\ \A b \in Logins!BucketsOf(attempt[c].user) : attempt[c].seen[b] <= attempt[c].began
      BY <2>1, AttemptIs
  <2> QED BY <2>1, <2>2, <2>3
<1> QED BY <1>1, <1>2

\* The account is loaded, the password is right, a login stops or its new hash is written.
LEMMA LoginLoadUser ==
    ASSUME Logins!LimitAssumption, LoginInv, NEW a \in Attempts, Logins!LoadUser(a)
    PROVE  LoginInv'
<1> DEFINE next == [todo |-> "verify", user |-> attempt[a].user, seen |-> attempt[a].seen,
                    began |-> attempt[a].began, hash |-> password]
<1>1. attempt[a] # Logins!Idle /\ attempt[a] \in Loading
    BY DEF Logins!LoadUser, LoginInv, LoginTypes, Logins!Idle, Verifying
<1>2. attempt' = [attempt EXCEPT ![a] = next] /\ UNCHANGED <<loginNow, loginFailed, password>>
    BY DEF Logins!LoadUser
<1>3. next \in Verifying /\ loginNow' \in Nat /\ loginFailed' \in Nat /\ loginFailed' >= loginFailed /\ password' \in Hashed
    BY <1>1, <1>2 DEF Loading, Verifying, LoginInv, LoginTypes
<1>4. next.user = attempt[a].user /\ next.seen = attempt[a].seen /\ next.began = attempt[a].began
    OBVIOUS
<1>5. LoginTypes' /\ SeenBefore'
    BY <1>1, <1>2, <1>3, <1>4, AttemptGoesOn
<1>6. (\A b \in Logins!Buckets : Keeps(loginRows[b], open[b]))'
    BY BucketsStay DEF Logins!LoadUser
<1> QED BY <1>5, <1>6 DEF LoginInv

LEMMA LoginRight ==
    ASSUME Logins!LimitAssumption, LoginInv, NEW a \in Attempts, Logins!Right(a)
    PROVE  LoginInv'
<1> DEFINE next == [attempt[a] EXCEPT !.todo = "background"]
<1>1. attempt[a] # Logins!Idle /\ attempt[a] \in Verifying
    BY DEF Logins!Right, LoginInv, LoginTypes, Logins!Idle, Loading
<1>2. attempt' = [attempt EXCEPT ![a] = next] /\ UNCHANGED <<loginNow, loginFailed, password>>
    BY DEF Logins!Right
<1>3. next \in Verifying /\ loginNow' \in Nat /\ loginFailed' \in Nat /\ loginFailed' >= loginFailed /\ password' \in Hashed
    BY <1>1, <1>2 DEF Verifying, LoginInv, LoginTypes
<1>4. next.user = attempt[a].user /\ next.seen = attempt[a].seen /\ next.began = attempt[a].began
    BY <1>1 DEF Verifying
<1>5. LoginTypes' /\ SeenBefore'
    BY <1>1, <1>2, <1>3, <1>4, AttemptGoesOn
<1>6. (\A b \in Logins!Buckets : Keeps(loginRows[b], open[b]))'
    BY BucketsStay DEF Logins!Right
<1> QED BY <1>5, <1>6 DEF LoginInv

LEMMA LoginDropped ==
    ASSUME Logins!LimitAssumption, LoginInv, NEW a \in Attempts, Logins!Dropped(a)
    PROVE  LoginInv'
<1>1. attempt[a] # Logins!Idle /\ attempt' = [attempt EXCEPT ![a] = Logins!Idle]
    BY DEF Logins!Dropped, Logins!Idle
<1>2. loginNow' \in Nat /\ loginFailed' \in Nat /\ loginFailed' >= loginFailed /\ password' \in Hashed
    BY DEF Logins!Dropped, LoginInv, LoginTypes
<1>3. LoginTypes' /\ SeenBefore'
    BY <1>1, <1>2, AttemptGoesOn
<1>4. (\A b \in Logins!Buckets : Keeps(loginRows[b], open[b]))'
    BY BucketsStay DEF Logins!Dropped
<1> QED BY <1>3, <1>4 DEF LoginInv

LEMMA LoginPassword ==
    ASSUME Logins!LimitAssumption, LoginInv, Logins!ChangePassword \/ \E a \in Attempts : Logins!Rehash(a)
    PROVE  LoginInv'
<1>1. UNCHANGED <<loginNow, loginRows, attempt, loginFailed, open>>
    BY DEF Logins!ChangePassword, Logins!Rehash
<1>0. password' \in Hashed
  <2>1. password \in Hashed
      BY DEF LoginInv, LoginTypes
  <2>2. password.of \in Nat
      BY <2>1 DEF Hashed
  <2>3. PICK n \in Nat : password' = [of |-> n, old |-> FALSE]
      BY <2>2 DEF Logins!ChangePassword, Logins!Rehash
  <2> QED BY <2>3 DEF Hashed
<1>2. LoginTypes' /\ SeenBefore'
    BY <1>0, <1>1 DEF LoginInv, LoginTypes, SeenBefore
<1>3. (\A b \in Logins!Buckets : Keeps(loginRows[b], open[b]))'
    BY <1>1, BucketsStay
<1> QED BY <1>2, <1>3 DEF LoginInv

\* A wrong password is counted in the rows of its buckets.
LEMMA LoginWrong ==
    ASSUME Logins!LimitAssumption, LoginInv, NEW a \in Attempts, Logins!Wrong(a)
    PROVE  LoginInv'
<1> DEFINE new == [id |-> loginFailed + 1, at |-> loginNow]
           mine == Logins!BucketsOf(attempt[a].user)
<1>0. loginNow \in Nat /\ loginFailed \in Nat /\ loginNow' = loginNow /\ loginFailed' = loginFailed + 1 /\ password' = password
    BY DEF Logins!Wrong, LoginInv, LoginTypes
<1>1. attempt[a] # Logins!Idle /\ attempt' = [attempt EXCEPT ![a] = Logins!Idle]
    BY DEF Logins!Wrong, Logins!Idle
<1>2. loginNow' \in Nat /\ loginFailed' \in Nat /\ loginFailed' >= loginFailed /\ password' \in Hashed
    BY <1>0 DEF LoginInv, LoginTypes
<1>3. LoginTypes' /\ SeenBefore'
    BY <1>1, <1>2, AttemptGoesOn
<1>4. ASSUME NEW b \in Logins!Buckets PROVE Keeps(loginRows[b], open[b])'
  <2>1. CASE b \in mine
    <3>1. loginRows'[b] = Logins!AfterFailure(loginRows[b]) /\ open'[b] = open[b] \cup {new}
        BY <2>1 DEF Logins!Wrong
    <3>2. Keeps(loginRows[b], open[b])
        BY DEF LoginInv
    <3> DEFINE next == Logins!AfterFailure(loginRows[b])
               all == open[b] \cup {new}
    <3>3. /\ {next.failures, next.first, next.last, next.revision} \subseteq Nat
          /\ next.revision = loginFailed + 1 /\ next # Logins!NoRow /\ IsFiniteSet(all)
          /\ \A f \in all : f.id \in Nat /\ f.at \in Nat /\ f.id <= loginFailed + 1 /\ f.at <= loginNow
          /\ next.first <= next.last /\ next.last <= loginNow /\ next.last - next.first <= Window
          /\ \A f \in all : f.at <= next.last /\ f.id <= next.revision
          /\ Cardinality({f \in all : f.at >= next.first}) <= next.failures
        BY <3>2, <1>0, FailureIsKept
    <3> HIDE DEF next, all
    <3>4. loginRows'[b] = next /\ open'[b] = all
        BY <3>1 DEF next, all
    <3> QED BY <3>3, <3>4, <1>0 DEF Keeps
  <2>2. CASE b \notin mine
    <3>1. loginRows'[b] = loginRows[b] /\ open'[b] = open[b]
        BY <2>2 DEF Logins!Wrong
    <3> QED BY <3>1, <1>0, <1>2, BucketStays
  <2> QED BY <2>1, <2>2
<1> QED BY <1>3, <1>4 DEF LoginInv, Logins!Buckets

\* A login takes away the rows it saw, and with them only failures from before it began.
LEMMA LoginClear ==
    ASSUME Logins!LimitAssumption, LoginInv, NEW a \in Attempts, Logins!Clear(a)
    PROVE  LoginInv'
<1>0. loginNow \in Nat /\ loginFailed \in Nat /\ loginNow' = loginNow /\ loginFailed' = loginFailed /\ password' = password
    BY DEF Logins!Clear, LoginInv, LoginTypes
<1>1. attempt[a] # Logins!Idle /\ attempt' = [attempt EXCEPT ![a] = Logins!Idle]
    BY DEF Logins!Clear, Logins!Idle
<1>2. loginNow' \in Nat /\ loginFailed' \in Nat /\ loginFailed' >= loginFailed /\ loginNow' >= loginNow /\ password' \in Hashed
    BY <1>0 DEF LoginInv, LoginTypes
<1>3. LoginTypes' /\ SeenBefore'
    BY <1>1, <1>2, AttemptGoesOn
<1>4. ASSUME NEW b \in Logins!Buckets PROVE Keeps(loginRows[b], open[b])'
  <2>0. open'[b] \in {{}, open[b]}
      BY DEF Logins!Clear
  <2>1. CASE b \in Logins!Cleared(a)
    <3>1. /\ b \in Logins!BucketsOf(attempt[a].user) /\ loginRows[b] # Logins!NoRow /\ loginRows[b].revision = attempt[a].seen[b]
          /\ loginRows'[b] = Logins!NoRow
        BY <2>1 DEF Logins!Cleared, Logins!Clear
    <3>2. loginRows[b].revision <= attempt[a].began /\ attempt[a].began \in Nat /\ loginRows[b].revision \in Nat
        BY <3>1, <1>1, AttemptIs DEF LoginInv, Keeps
    <3>3. \A f \in open[b] : f.id \in Nat /\ f.id <= loginRows[b].revision
        BY <3>1 DEF LoginInv, Keeps
    <3>4. \A f \in open[b] : f.id <= attempt[a].began
        BY <3>2, <3>3
    <3>5. open'[b] = {}
        BY <3>1, <3>4 DEF Logins!Clear
    <3> QED BY <3>1, <3>5, <1>0, BucketGoes
  <2>2. CASE b \notin Logins!Cleared(a)
    <3>1. loginRows'[b] = loginRows[b]
        BY <2>2 DEF Logins!Clear
    <3>2. open'[b] \subseteq open[b]
        BY <2>0
    <3> QED BY <3>1, <3>2, <1>2, BucketStays
  <2> QED BY <2>1, <2>2
<1> QED BY <1>3, <1>4 DEF LoginInv, Logins!Buckets

\* The clean-up takes rows whose failures no window holds.
LEMMA LoginCleanup ==
    ASSUME Logins!LimitAssumption, LoginInv, Logins!Cleanup
    PROVE  LoginInv'
<1>0. loginNow \in Nat /\ loginFailed \in Nat /\ UNCHANGED <<loginNow, attempt, password, loginFailed, open>>
    BY DEF Logins!Cleanup, LoginInv, LoginTypes
<1>1. LoginTypes' /\ SeenBefore'
    BY <1>0 DEF LoginInv, LoginTypes, SeenBefore
<1>2. ASSUME NEW b \in Logins!Buckets PROVE Keeps(loginRows[b], open[b])'
  <2>1. \/ loginRows'[b] = loginRows[b]
        \/ loginRows'[b] = Logins!NoRow /\ loginRows[b] # Logins!NoRow /\ loginRows[b].last < loginNow - CleanupAge
      BY DEF Logins!Cleanup
  <2>2. CASE loginRows'[b] = loginRows[b]
      BY <2>2, <1>0, BucketStays
  <2>3. CASE loginRows'[b] = Logins!NoRow /\ loginRows[b] # Logins!NoRow /\ loginRows[b].last < loginNow - CleanupAge
    <3>1. Keeps(loginRows[b], open[b]) /\ Window \in Nat /\ CleanupAge \in Nat /\ CleanupAge > Window
        BY DEF LoginInv, Logins!LimitAssumption
    <3>2. \A f \in open[b] : f.at \in Nat /\ f.at <= loginRows[b].last /\ loginRows[b].last \in Nat
        BY <3>1, <2>3 DEF Keeps
    <3>3. \A f \in open'[b] : loginNow - f.at > Window
        BY <3>1, <3>2, <2>3, <1>0
    <3> QED BY <3>3, <2>3, <1>0, BucketGoes
  <2> QED BY <2>1, <2>2, <2>3
<1> QED BY <1>1, <1>2 DEF LoginInv, Logins!Buckets

LEMMA LoginTick ==
    ASSUME Logins!LimitAssumption, LoginInv, Logins!Tick
    PROVE  LoginInv'
<1>0. loginNow' \in Nat /\ loginNow' >= loginNow /\ loginFailed' \in Nat /\ loginFailed' >= loginFailed /\ UNCHANGED <<loginRows, attempt, password, loginFailed, open>>
    BY DEF Logins!Tick, LoginInv, LoginTypes
<1>1. LoginTypes' /\ SeenBefore'
    BY <1>0 DEF LoginInv, LoginTypes, SeenBefore
<1>2. ASSUME NEW b \in Logins!Buckets PROVE Keeps(loginRows[b], open[b])'
    BY <1>0, BucketStays
<1> QED BY <1>1, <1>2 DEF LoginInv, Logins!Buckets

\* The inductive invariant of the logins: what a row counts and what its bucket keeps, and
\* that an attempt saw nothing from after it began.
THEOREM LoginInvariant == Logins!LimitAssumption => (Logins!Spec => []LoginInv)
<1> SUFFICES ASSUME Logins!LimitAssumption PROVE Logins!Spec => []LoginInv
    OBVIOUS
<1>1. Logins!Init => LoginInv
    BY LoginInit
<1>2. ASSUME LoginInv, [Logins!Next]_Logins!vars PROVE LoginInv'
  <2>1. CASE UNCHANGED Logins!vars
    <3>1. LoginTypes' /\ SeenBefore'
        BY <1>2, <2>1 DEF LoginInv, LoginTypes, SeenBefore, Logins!vars
    <3>2. (\A b \in Logins!Buckets : Keeps(loginRows[b], open[b]))'
        BY <1>2, <2>1, BucketsStay DEF Logins!vars
    <3> QED BY <3>1, <3>2 DEF LoginInv
  <2>2. ASSUME NEW a \in Attempts, NEW u \in Users, Logins!Begin(a, u) PROVE LoginInv'
      BY <1>2, <2>2, LoginBegin
  <2>3. ASSUME NEW a \in Attempts, Logins!LoadUser(a) \/ Logins!Wrong(a) \/ Logins!Right(a) \/ Logins!Clear(a) \/ Logins!Dropped(a) PROVE LoginInv'
      BY <1>2, <2>3, LoginLoadUser, LoginWrong, LoginRight, LoginClear, LoginDropped
  <2>4. CASE Logins!ChangePassword \/ \E a \in Attempts : Logins!Rehash(a)
      BY <1>2, <2>4, LoginPassword
  <2>5. CASE Logins!Cleanup \/ Logins!Tick
      BY <1>2, <2>5, LoginCleanup, LoginTick
  <2> QED BY <1>2, <2>1, <2>2, <2>3, <2>4, <2>5 DEF Logins!Next
<1> QED BY <1>1, <1>2, PTL DEF Logins!Spec

\* The failures of a window that no login has forgiven are all counted
\* (cfm_record_login_failures, cfm_clear_observed_login_failures).
THEOREM FailuresStayCounted == Logins!LimitAssumption => (Logins!Spec => []Logins!FailuresAreCounted)
<1> SUFFICES ASSUME Logins!LimitAssumption PROVE Logins!Spec => []Logins!FailuresAreCounted
    OBVIOUS
<1>1. ASSUME LoginInv PROVE Logins!FailuresAreCounted
  <2> SUFFICES ASSUME NEW b \in Logins!Buckets, Logins!Recent(b) # {}
               PROVE  loginRows[b] # Logins!NoRow /\ Logins!CountedIn(b) <= loginRows[b].failures
      BY DEF Logins!FailuresAreCounted
  <2>1. Keeps(loginRows[b], open[b]) /\ loginNow \in Nat /\ Window \in Nat
      BY <1>1 DEF LoginInv, LoginTypes, Logins!LimitAssumption
  <2>2. loginRows[b] # Logins!NoRow
      BY <2>1 DEF Keeps, Logins!Recent
  <2> DEFINE all == {f \in open[b] : f.at >= loginRows[b].first}
             some == {f \in Logins!Recent(b) : f.at >= loginRows[b].first}
  <2>3. some \subseteq all /\ IsFiniteSet(all)
      BY <2>1, FS_Subset DEF Keeps, Logins!Recent
  <2>4. Cardinality(all) <= loginRows[b].failures /\ loginRows[b].failures \in Nat
      BY <2>1, <2>2 DEF Keeps
  <2>5. Logins!CountedIn(b) = Cardinality(some)
      BY SameLoginCardinality DEF Logins!CountedIn
  <2> HIDE DEF all, some
  <2>6. Cardinality(some) <= Cardinality(all) /\ Cardinality(some) \in Nat /\ Cardinality(all) \in Nat
      BY <2>3, FS_Subset, FS_CardinalityType
  <2> QED BY <2>2, <2>4, <2>5, <2>6
<1> QED BY <1>1, LoginInvariant, PTL

\* The stronger hash that a login writes never brings back a password that was changed
\* meanwhile (rehashUserPassword).
THEOREM PasswordStaysNewest == Logins!LimitAssumption => (Logins!Spec => []Logins!PasswordIsNewest)
<1> SUFFICES ASSUME Logins!LimitAssumption PROVE Logins!Spec => []Logins!PasswordIsNewest
    OBVIOUS
<1>1. Logins!Init => Logins!PasswordIsNewest
    BY DEF Logins!Init, Logins!PasswordIsNewest
<1>2. ASSUME LoginInv, Logins!PasswordIsNewest, [Logins!Next]_Logins!vars PROVE Logins!PasswordIsNewest'
    BY <1>2 DEF LoginInv, LoginTypes, Hashed, Logins!PasswordIsNewest, Logins!Next, Logins!vars, Logins!Begin, Logins!LoadUser, Logins!Wrong, Logins!Right, Logins!Clear,
                Logins!Rehash, Logins!Dropped, Logins!ChangePassword, Logins!Cleanup, Logins!Tick
<1> QED BY <1>1, <1>2, LoginInvariant, PTL DEF Logins!Spec

-----------------------------------------------------------------------------
(* The ping results: the inductive invariant *)

\* The reports are sent in order: those that are done come before those that are not, and
\* what waits has nothing done after it.
ReportsInOrder ==
    /\ \A r \in done, q \in Ping!Reports : q < r => q \in done
    /\ \A i \in DOMAIN queue :
         /\ \A q \in Ping!Reports : q < queue[i] => q \in done
         /\ \A r \in done : r <= queue[i]
         /\ queue[i] \in HttpReports =>
              queue[i] \notin done /\ \A j \in DOMAIN queue : queue[j] = queue[i] => j = i
    /\ \A i, j \in DOMAIN queue : i < j => queue[i] <= queue[j]

\* The turn of a report has come, and that of no later one.
Reached(r) ==
    /\ \A q \in Ping!Reports : q < r => q \in done
    /\ \A i \in DOMAIN queue : r <= queue[i]

\* A write under way is of a report that is not done, and holds its due tasks, of which one
\* has changed.
BatchIsDue ==
    pc # "idle" => /\ Head(queue) \notin done /\ Ping!Changed(Head(queue))
                   /\ batch = [t \in Ping!Due(Head(queue)) |-> pingValue[Head(queue)][t]]
                   /\ pc = "mark" => Ping!Row \in rows

\* A row is of one report.  The report is done, or the states are those under which the row
\* was chosen, so that the same row would be chosen again.
RowOf(a, r) ==
    /\ a = [time |-> Ping!Time(r), values |-> [t \in DOMAIN a.values |-> pingValue[r][t]]]
    /\ Reached(r)
    /\ r \in done \/ (DOMAIN a.values = Ping!Due(r) /\ Ping!Changed(r))
RowsStand == \A a \in rows : \E r \in Ping!Reports : RowOf(a, r)

\* The last result of a task is shown in the history; no report that is done is due again;
\* the stored value is that of a row, and no row of a report that is done is newer, but for
\* those that failed over HTTP.
LastIsShown(t) ==
    state[t].last # 0 => \E r \in Ping!Reports : /\ state[t].last = Ping!Time(r) /\ Reached(r)
                                            /\ \E a \in rows : Ping!Shows(a, r, t)
ValueIsStored(t) ==
    state[t].at # 0 => \E r \in done : /\ state[t].at = Ping!Time(r) /\ state[t].value = pingValue[r][t]
                                       /\ \E a \in rows : a.time = Ping!Time(r) /\ t \in DOMAIN a.values
NothingNewer(t) ==
    \A r \in done \ failed, a \in rows :
      a.time = Ping!Time(r) /\ t \in DOMAIN a.values => a.time <= state[t].at
StatesStand ==
    \A t \in Tasks : /\ LastIsShown(t) /\ ValueIsStored(t) /\ NothingNewer(t)
                     /\ \A r \in done \ HttpReports : t \notin Ping!Due(r)

PingInv ==
    Ping!TypeOK /\ ReportsInOrder /\ BatchIsDue /\ RowsStand /\ StatesStand /\ Ping!StoredOnce /\ Ping!ShownInHistory

-----------------------------------------------------------------------------
(* The ping results: proofs *)

\* Reports come at times of their own, in their order.
LEMMA TimeFacts ==
    ASSUME Ping!PingAssumption
    PROVE  /\ \A r \in Ping!Reports : r \in Nat /\ Ping!Time(r) \in Nat /\ Ping!Time(r) > 0
           /\ \A r, q \in Ping!Reports : r < q => Ping!Time(r) < Ping!Time(q)
<1>1. ASSUME NEW r \in Nat \ {0}, NEW n \in Nat \ {0}
      PROVE  r * n \in Nat /\ r * n >= n
  <2>1. r * n = (r - 1) * n + n /\ (r - 1) * n >= 0 /\ r * n \in Int
    OBVIOUS
  <2> QED BY <2>1
<1>2. ASSUME NEW r \in Ping!Reports, NEW q \in Ping!Reports, r < q
      PROVE  Ping!Time(r) < Ping!Time(q)
  <2>1. q - r \in Nat \ {0} /\ Spacing \in Nat \ {0} /\ r \in Int /\ q \in Int
    BY <1>2 DEF Ping!PingAssumption, Ping!Reports
  <2>2. (q - r) * Spacing >= Spacing
    BY <1>1, <2>1
  <2>3. q * Spacing = r * Spacing + (q - r) * Spacing
    BY <2>1
  <2>4. r * Spacing \in Int /\ q * Spacing \in Int /\ (q - r) * Spacing \in Int
    BY <2>1
  <2> QED BY <2>1, <2>2, <2>3, <2>4 DEF Ping!Time
<1>3. ASSUME NEW r \in Ping!Reports
      PROVE  r \in Nat /\ Ping!Time(r) \in Nat /\ Ping!Time(r) > 0
  <2>1. r \in Nat \ {0} /\ Spacing \in Nat \ {0}
    BY DEF Ping!PingAssumption, Ping!Reports
  <2> QED BY <1>1, <2>1 DEF Ping!Time
<1> QED BY <1>2, <1>3

\* Times tell reports apart and order them.
LEMMA TimeOrder ==
    ASSUME Ping!PingAssumption, NEW r \in Ping!Reports, NEW q \in Ping!Reports
    PROVE  /\ (Ping!Time(r) = Ping!Time(q)) <=> (r = q)
           /\ (Ping!Time(r) < Ping!Time(q)) <=> (r < q)
           /\ (Ping!Time(r) <= Ping!Time(q)) <=> (r <= q)
BY TimeFacts

\* The report whose turn it is: what is done is not after it, what is before it is done.
LEMMA HeadFacts ==
    ASSUME Ping!PingAssumption, Ping!TypeOK, ReportsInOrder, queue # <<>>
    PROVE  /\ Head(queue) \in Ping!Reports
           /\ \A r \in done : r <= Head(queue)
           /\ \A q \in Ping!Reports : q < Head(queue) => q \in done
           /\ Head(queue) \in HttpReports => Head(queue) \notin done
           /\ \A i \in DOMAIN queue : queue[i] \in Ping!Reports /\ Head(queue) <= queue[i]
<1>1. 1 \in DOMAIN queue /\ Head(queue) = queue[1] /\ queue \in Seq(Ping!Reports)
    BY DEF Ping!TypeOK
<1>2. \A i \in DOMAIN queue : queue[i] \in Ping!Reports /\ (1 < i \/ i = 1)
    BY <1>1
<1>3. \A i \in DOMAIN queue : Head(queue) <= queue[i]
    BY <1>1, <1>2, TimeFacts DEF ReportsInOrder
<1> QED BY <1>1, <1>2, <1>3 DEF ReportsInOrder

\* The states and the report whose turn it is: nothing in them is newer than the report, and
\* a task that is due is behind it.
LEMMA PingStateFacts ==
    ASSUME Ping!PingAssumption, Ping!TypeOK, ReportsInOrder, StatesStand, queue # <<>>, NEW t \in Tasks
    PROVE  /\ state[t].last \in Nat /\ state[t].at \in Nat /\ Interval[t] \in Nat \ {0}
           /\ state[t].last <= Ping!Time(Head(queue)) /\ state[t].at <= Ping!Time(Head(queue))
           /\ t \in Ping!Due(Head(queue)) => state[t].last < Ping!Time(Head(queue))
<1> DEFINE h == Head(queue)
<1>1. h \in Ping!Reports /\ \A r \in done : r \in Ping!Reports /\ r <= h
    BY HeadFacts DEF Ping!TypeOK
<1>2. state[t].last \in Nat /\ state[t].at \in Nat /\ Interval[t] \in Nat \ {0}
    BY DEF Ping!TypeOK, Ping!PingAssumption
<1>3. \A r \in Ping!Reports : Reached(r) => r <= h
  <2>1. 1 \in DOMAIN queue /\ queue[1] = h
    BY DEF Ping!TypeOK
  <2> QED BY <2>1 DEF Reached
<1> HIDE DEF h
<1>4. Ping!Time(h) \in Nat /\ Ping!Time(h) > 0
    BY <1>1, TimeFacts
<1>5. state[t].last <= Ping!Time(h)
    BY <1>1, <1>3, <1>4, TimeOrder DEF StatesStand, LastIsShown
<1>6. state[t].at <= Ping!Time(h)
    BY <1>1, <1>4, TimeOrder DEF StatesStand, ValueIsStored
<1>7. t \in Ping!Due(h) => state[t].last < Ping!Time(h)
    BY <1>2, <1>4 DEF Ping!Due
<1> QED BY <1>2, <1>5, <1>6, <1>7 DEF h

\* A task that is not due for a report: its last result is shown, and near enough.
LEMMA NotDueFacts ==
    ASSUME Ping!PingAssumption, Ping!TypeOK, NEW t \in Tasks, NEW r \in Ping!Reports
    PROVE  t \notin Ping!Due(r) <=> state[t].last # 0 /\ Ping!Time(r) - state[t].last < Interval[t]
<1>1. state[t].last \in Nat /\ Ping!Time(r) \in Nat /\ Interval[t] \in Nat
    BY TimeFacts DEF Ping!TypeOK, Ping!PingAssumption
<1> QED BY <1>1 DEF Ping!Due

\* A report leaves the queue: the rest stays in order, also when the report is done now.
LEMMA PopKeepsOrder ==
    ASSUME Ping!PingAssumption, Ping!TypeOK, ReportsInOrder, queue # <<>>, NEW ok \in BOOLEAN, Ping!Ends(ok)
    PROVE  /\ ReportsInOrder' /\ queue' \in Seq(Ping!Reports) /\ Len(queue') <= MaxQueue
           /\ done \subseteq done' /\ done' \subseteq done \cup {Head(queue)}
           /\ failed \subseteq failed' /\ failed' \subseteq HttpReports /\ done' \subseteq Ping!Reports
           /\ \A i \in DOMAIN queue' : \E j \in DOMAIN queue : queue'[i] = queue[j]
<1> DEFINE h == Head(queue)
<1>1. /\ h \in Ping!Reports /\ h \in Nat /\ queue \in Seq(Ping!Reports) /\ Len(queue) \in Nat
      /\ Len(queue) > 0 /\ h = queue[1] /\ 1 \in DOMAIN queue /\ MaxQueue \in Nat
      /\ \A i \in DOMAIN queue : queue[i] \in Ping!Reports /\ h <= queue[i]
      /\ \A r \in done : r <= h
      /\ \A q \in Ping!Reports : q < h => q \in done
    BY HeadFacts, TimeFacts DEF Ping!TypeOK, Ping!PingAssumption
<1>2. /\ queue' \in Seq(Ping!Reports) /\ Len(queue') = Len(queue) - 1
      /\ \A i \in DOMAIN queue' : i + 1 \in DOMAIN queue /\ i + 1 # 1 /\ queue'[i] = queue[i + 1]
    BY <1>1 DEF Ping!Ends
<1>3. /\ done' \in {done, done \cup {h}} /\ failed' \in {failed, failed \cup {h}}
      /\ failed' = failed \cup {h} => h \in HttpReports \/ failed' = failed
    BY DEF Ping!Ends
<1> HIDE DEF h
<1>4. done' \subseteq Ping!Reports /\ failed' \subseteq HttpReports
    BY <1>1, <1>3 DEF Ping!TypeOK
<1>5. \A r \in done', q \in Ping!Reports : q < r => q \in done'
    BY <1>1, <1>3 DEF ReportsInOrder
<1>6. ASSUME NEW i \in DOMAIN queue'
      PROVE  /\ \A q \in Ping!Reports : q < queue'[i] => q \in done'
             /\ \A r \in done' : r <= queue'[i]
             /\ queue'[i] \in HttpReports =>
                  queue'[i] \notin done' /\ \A j \in DOMAIN queue' : queue'[j] = queue'[i] => j = i
  <2>1. /\ i + 1 \in DOMAIN queue /\ i + 1 # 1 /\ queue'[i] = queue[i + 1] /\ i \in Int
        /\ h <= queue'[i]
    BY <1>1, <1>2
  <2>2. \A q \in Ping!Reports : q < queue'[i] => q \in done'
    BY <1>3, <2>1 DEF ReportsInOrder
  <2>3. \A r \in done' : r <= queue'[i]
    BY <1>3, <2>1 DEF ReportsInOrder
  <2>4. ASSUME queue'[i] \in HttpReports
        PROVE  queue'[i] \notin done' /\ \A j \in DOMAIN queue' : queue'[j] = queue'[i] => j = i
    <3>1. /\ queue'[i] \notin done
          /\ \A j \in DOMAIN queue : queue[j] = queue'[i] => j = i + 1
        BY <2>1, <2>4 DEF ReportsInOrder
    <3>2. queue'[i] # h
        BY <1>1, <2>1, <3>1
    <3>3. \A j \in DOMAIN queue' : j \in Int /\ j + 1 \in DOMAIN queue /\ queue'[j] = queue[j + 1]
        BY <1>2
    <3> QED BY <1>3, <2>1, <3>1, <3>2, <3>3
  <2> QED BY <2>2, <2>3, <2>4
<1>7. \A i, j \in DOMAIN queue' : i < j => queue'[i] <= queue'[j]
  <2>1. \A i \in DOMAIN queue' : i \in Int /\ i + 1 \in DOMAIN queue /\ queue'[i] = queue[i + 1]
    BY <1>2
  <2> QED BY <2>1 DEF ReportsInOrder
<1>8. ReportsInOrder'
    BY <1>5, <1>6, <1>7 DEF ReportsInOrder
<1>9. \A i \in DOMAIN queue' : \E j \in DOMAIN queue : queue'[i] = queue[j]
    BY <1>2
<1>10. Len(queue') <= MaxQueue
    BY <1>1, <1>2 DEF Ping!TypeOK
<1> QED BY <1>2, <1>3, <1>4, <1>8, <1>9, <1>10 DEF h

\* The row of the write under way is of the report whose turn it is, and no other row has
\* its time.
LEMMA TheRow ==
    ASSUME Ping!PingAssumption, PingInv, pc # "idle"
    PROVE  /\ RowOf(Ping!Row, Head(queue)) /\ Ping!Row.time = Ping!Time(Head(queue))
           /\ DOMAIN Ping!Row.values = Ping!Due(Head(queue))
           /\ \A a \in rows : a.time = Ping!Row.time => a = Ping!Row
<1> DEFINE h == Head(queue)
<1>1. Ping!TypeOK /\ ReportsInOrder /\ BatchIsDue /\ RowsStand /\ queue # <<>>
    BY DEF PingInv, Ping!TypeOK
<1>2. /\ h \in Ping!Reports /\ h \notin done /\ Ping!Changed(h) /\ Reached(h)
      /\ batch = [t \in Ping!Due(h) |-> pingValue[h][t]]
      /\ Ping!Row = [time |-> Ping!Time(h), values |-> batch]
    BY <1>1, HeadFacts DEF BatchIsDue, Ping!Row, Reached
<1> HIDE DEF h
<1>3. Ping!Row.time = Ping!Time(h) /\ Ping!Row.values = batch /\ DOMAIN Ping!Row.values = Ping!Due(h)
    BY <1>2
<1>4. RowOf(Ping!Row, h)
  <2>1. batch = [t \in DOMAIN Ping!Row.values |-> pingValue[h][t]]
    BY <1>2, <1>3
  <2> QED BY <1>2, <1>3, <2>1 DEF RowOf
<1>5. ASSUME NEW a \in rows, a.time = Ping!Row.time
      PROVE  a = Ping!Row
  <2>1. PICK r \in Ping!Reports : RowOf(a, r)
    BY <1>1 DEF RowsStand
  <2>2. a.time = Ping!Time(r)
    BY <2>1 DEF RowOf
  <2>3. r = h
    BY <1>2, <1>3, <1>5, <2>2, TimeOrder
  <2>4. DOMAIN a.values = Ping!Due(h) /\ a = [time |-> Ping!Time(h), values |-> [t \in Ping!Due(h) |-> pingValue[h][t]]]
    BY <1>2, <2>1, <2>3 DEF RowOf
  <2> QED BY <1>2, <2>4
<1> QED BY <1>3, <1>4, <1>5 DEF h

\* No row of a report that is not done is there but the one that would be chosen again.
LEMMA RowOfOpen ==
    ASSUME Ping!PingAssumption, RowsStand, NEW a \in rows, NEW h \in Ping!Reports, a.time = Ping!Time(h), h \notin done
    PROVE  DOMAIN a.values = Ping!Due(h) /\ Ping!Changed(h)
<1>1. PICK r \in Ping!Reports : RowOf(a, r)
    BY DEF RowsStand
<1>2. r = h
    BY <1>1, TimeOrder DEF RowOf
<1> QED BY <1>1, <1>2 DEF RowOf

\* What may change around the states: reports are done in order, those over HTTP may fail,
\* the queue goes on, and the row of the write under way may be added.
Around ==
    /\ pingValue' = pingValue
    /\ \/ rows' = rows
       \/ rows' = rows \cup {Ping!Row} /\ pc # "idle"
    /\ done \subseteq done' /\ failed \subseteq failed' /\ failed' \subseteq HttpReports
    /\ done' \subseteq Ping!Reports
    /\ \A i \in DOMAIN queue' : \/ \E j \in DOMAIN queue : queue'[i] = queue[j]
                                \/ queue'[i] \in Ping!Reports \ done

\* Whose turn has come stays so.
LEMMA ReachedStays ==
    ASSUME Ping!PingAssumption, Ping!TypeOK, Around, NEW r \in Ping!Reports, Reached(r)
    PROVE  Reached(r)'
<1>1. ASSUME NEW i \in DOMAIN queue', queue'[i] \in Ping!Reports \ done
      PROVE  r <= queue'[i]
    BY <1>1, TimeFacts DEF Reached
<1> QED BY <1>1 DEF Around, Reached

\* A row goes on showing a report: a new row is later, or has no result of the task.
LEMMA ShowsStays ==
    ASSUME Ping!PingAssumption, PingInv, Around, NEW r \in Ping!Reports, NEW t \in Tasks,
           NEW a \in rows, Ping!Shows(a, r, t),
           r \in done \/ state[t].last = Ping!Time(r)
    PROVE  a \in rows' /\ Ping!Shows(a, r, t)'
<1> DEFINE h == Head(queue)
<1>1. Ping!TypeOK /\ ReportsInOrder /\ BatchIsDue
    BY DEF PingInv
<1>2. ASSUME NEW b \in rows', b \notin rows, b.time <= Ping!Time(r)
      PROVE  t \notin DOMAIN b.values
  <2>1. b = Ping!Row /\ pc # "idle" /\ queue # <<>>
    BY <1>1, <1>2 DEF Around, Ping!TypeOK
  <2>2. h \in Ping!Reports /\ h \notin done /\ b.time = Ping!Time(h) /\ DOMAIN b.values = Ping!Due(h)
        /\ \A q \in Ping!Reports : q < h => q \in done
    BY <1>1, <2>1, HeadFacts, TheRow DEF BatchIsDue
  <2>3. \A q \in done : q <= h /\ q \in Ping!Reports
    BY <1>1, <2>1, HeadFacts DEF Ping!TypeOK
  <2> HIDE DEF h
  <2>4. h <= r
    BY <1>2, <2>2, TimeOrder
  <2>5. r \notin done
    BY <2>2, <2>3, <2>4, TimeFacts
  <2>6. state[t].last = Ping!Time(r) /\ Ping!Time(r) \in Nat /\ Ping!Time(r) > 0 /\ Ping!Time(h) \in Nat
        /\ Ping!Time(h) <= Ping!Time(r)
    BY <2>2, <2>4, <2>5, TimeFacts, TimeOrder
  <2>7. Interval[t] \in Nat /\ Interval[t] > 0
    BY DEF Ping!PingAssumption
  <2> QED BY <2>2, <2>6, <2>7 DEF Ping!Due
<1>3. ASSUME NEW q \in Ping!Reports \ failed', NEW b \in rows',
             b.time = Ping!Time(q), a.time < b.time, b.time <= Ping!Time(r)
      PROVE  t \notin DOMAIN b.values
    BY <1>2, <1>3 DEF Ping!Shows, Around
<1> QED BY <1>3 DEF Ping!Shows, Around

\* What the history shows of earlier reports, it goes on showing.
LEMMA HistoryStays ==
    ASSUME Ping!PingAssumption, PingInv, Around, NEW r \in done \ HttpReports, NEW t \in Tasks
    PROVE  \E q \in Ping!Reports : /\ q <= r /\ Ping!Time(r) - Ping!Time(q) < Interval[t]
                              /\ \E a \in rows' : Ping!Shows(a, q, t)'
<1>1. PICK q \in Ping!Reports, a \in rows : /\ q <= r /\ Ping!Time(r) - Ping!Time(q) < Interval[t]
                                       /\ Ping!Shows(a, q, t)
    BY DEF PingInv, Ping!ShownInHistory
<1>2. q \in done
    BY <1>1, TimeFacts DEF PingInv, ReportsInOrder, Ping!TypeOK
<1> QED BY <1>1, <1>2, ShowsStays

\* The rows stay those of their reports when the states do, or when a report that has not
\* changed anything is passed.
LEMMA RowsStay ==
    ASSUME Ping!PingAssumption, PingInv, Around,
           \/ state' = state
           \/ rows' = rows /\ queue # <<>> /\ (~Ping!Changed(Head(queue)) \/ Head(queue) \in done')
    PROVE  RowsStand' /\ Ping!StoredOnce'
<1> DEFINE h == Head(queue)
<1>1. Ping!TypeOK /\ ReportsInOrder /\ RowsStand /\ Ping!StoredOnce
    BY DEF PingInv
<1>2. ASSUME pc # "idle"
      PROVE  /\ h \in Ping!Reports /\ RowOf(Ping!Row, h) /\ \A a \in rows : a.time = Ping!Row.time => a = Ping!Row
    BY <1>1, <1>2, HeadFacts, TheRow DEF Ping!TypeOK
<1>3. ASSUME NEW a, NEW r \in Ping!Reports, RowOf(a, r)
      PROVE  RowOf(a, r)'
  <2>1. Reached(r)' /\ pingValue' = pingValue /\ done \subseteq done'
    BY <1>1, <1>3, ReachedStays DEF RowOf, Around
  <2>2. CASE state' = state
    <3>1. Ping!Due(r)' = Ping!Due(r) /\ (Ping!Changed(r)' <=> Ping!Changed(r))
        BY <2>1, <2>2 DEF Ping!Due, Ping!Changed
    <3> QED BY <1>3, <2>1, <3>1 DEF RowOf
  <2>3. CASE rows' = rows /\ queue # <<>> /\ (~Ping!Changed(h) \/ h \in done')
    <3>1. h \in Ping!Reports /\ r <= h /\ \A q \in Ping!Reports : q < h => q \in done
      <4>1. 1 \in DOMAIN queue /\ queue[1] = h
        BY <1>1, <2>3 DEF Ping!TypeOK
      <4> QED BY <1>1, <1>3, <2>3, <4>1, HeadFacts DEF RowOf, Reached
    <3> HIDE DEF h
    <3>2. r \in done'
      <4>1. CASE r = h
        BY <1>3, <2>1, <2>3, <4>1 DEF RowOf
      <4>2. CASE r < h
        BY <2>1, <3>1, <4>2
      <4> QED BY <3>1, <4>1, <4>2, TimeFacts
    <3> QED BY <1>3, <2>1, <3>2 DEF RowOf
  <2> QED BY <2>2, <2>3
<1>4. RowsStand'
    BY <1>1, <1>2, <1>3 DEF RowsStand, Around
<1>5. Ping!StoredOnce'
    BY <1>1, <1>2 DEF Ping!StoredOnce, Around
<1> QED BY <1>4, <1>5

\* The states stay true in a step that leaves them alone and lets no report be done but those
\* over HTTP that failed.
LEMMA StatesStay ==
    ASSUME Ping!PingAssumption, PingInv, Around, NEW t \in Tasks, state'[t] = state[t],
           \A r \in done' : r \in done \/ r \in failed'
    PROVE  LastIsShown(t)' /\ ValueIsStored(t)' /\ NothingNewer(t)'
<1> DEFINE h == Head(queue)
<1>1. Ping!TypeOK /\ ReportsInOrder /\ BatchIsDue /\ StatesStand
    BY DEF PingInv
<1>2. LastIsShown(t)'
  <2> SUFFICES ASSUME state[t].last # 0
               PROVE  \E r \in Ping!Reports : /\ state[t].last = Ping!Time(r) /\ Reached(r)'
                                         /\ \E a \in rows' : Ping!Shows(a, r, t)'
    BY DEF LastIsShown
  <2>1. PICK r \in Ping!Reports, a \in rows : state[t].last = Ping!Time(r) /\ Reached(r) /\ Ping!Shows(a, r, t)
    BY <1>1 DEF StatesStand, LastIsShown
  <2> QED BY <1>1, <2>1, ShowsStays, ReachedStays
<1>3. ValueIsStored(t)'
    BY <1>1 DEF StatesStand, ValueIsStored, Around
<1>4. NothingNewer(t)'
  <2> SUFFICES ASSUME NEW r \in done' \ failed', NEW a \in rows', a.time = Ping!Time(r), t \in DOMAIN a.values
               PROVE  a.time <= state[t].at
    BY DEF NothingNewer
  <2>1. r \in done \ failed /\ r \in Ping!Reports
    BY DEF Around
  <2>2. a \in rows
    <3>1. SUFFICES ASSUME a = Ping!Row, pc # "idle" PROVE FALSE
        BY DEF Around
    <3>2. h \in Ping!Reports /\ h \notin done /\ a.time = Ping!Time(h)
        BY <1>1, <3>1, HeadFacts, TheRow DEF BatchIsDue, Ping!TypeOK
    <3> QED BY <2>1, <3>2, TimeOrder
  <2> QED BY <1>1, <2>1, <2>2 DEF StatesStand, NothingNewer
<1> QED BY <1>2, <1>3, <1>4

\* A step that leaves the states alone.
LEMMA UnpassedKeeps ==
    ASSUME Ping!PingAssumption, PingInv, Around, state' = state,
           \A r \in done' : r \in done \/ r \in failed'
    PROVE  RowsStand' /\ StatesStand' /\ Ping!StoredOnce' /\ Ping!ShownInHistory'
<1>1. RowsStand' /\ Ping!StoredOnce'
    BY RowsStay
<1>2. \A r \in done' \ HttpReports : r \in done
    BY DEF Around
<1>3. StatesStand'
  <2>1. \A t \in Tasks, r \in done' \ HttpReports : t \notin Ping!Due(r)'
    BY <1>2 DEF PingInv, StatesStand, Ping!Due
  <2> QED BY <2>1, StatesStay DEF StatesStand
<1>4. Ping!ShownInHistory'
    BY <1>2, HistoryStays DEF Ping!ShownInHistory
<1> QED BY <1>1, <1>3, <1>4

\* The turn of a report passes: if it is done now and will not come again, none of its tasks
\* is due any more, and the history shows it.
LEMMA PassKeepsHistory ==
    ASSUME Ping!PingAssumption, PingInv, Around, Ping!TypeOK', queue # <<>>, NEW n \in Ping!Reports, n = Head(queue),
           done' \subseteq done \cup {n},
           \A t \in Tasks : /\ LastIsShown(t)'
                            /\ state'[t].last = state[t].last \/ state'[t].last = Ping!Time(n),
           n \in done' \ HttpReports =>
             n \in done \/ \A t \in Ping!Due(n) : state'[t].last = Ping!Time(n)
    PROVE  /\ \A t \in Tasks, r \in done' \ HttpReports : t \notin Ping!Due(r)'
           /\ Ping!ShownInHistory'
<1>1. Ping!TypeOK /\ ReportsInOrder /\ StatesStand /\ Ping!Time(n) \in Nat /\ Ping!Time(n) > 0 /\ n \in Nat
    BY TimeFacts DEF PingInv
<1>2. \A t \in Tasks : /\ state[t].last \in Nat /\ state[t].last <= Ping!Time(n)
                       /\ Interval[t] \in Nat \ {0}
                       /\ state'[t].last \in Nat /\ state'[t].last >= state[t].last
                       /\ state'[t].last <= Ping!Time(n)
    BY <1>1, PingStateFacts
<1>3. \A r \in done' : r \in Ping!Reports /\ r <= n /\ Ping!Time(r) \in Nat /\ Ping!Time(r) <= Ping!Time(n)
    BY <1>1, HeadFacts, TimeFacts, TimeOrder DEF Ping!TypeOK
<1>4. ASSUME NEW t \in Tasks, NEW r \in done' \ HttpReports
      PROVE  state'[t].last # 0 /\ Ping!Time(r) - state'[t].last < Interval[t]
  <2>1. CASE state'[t].last = Ping!Time(n)
    BY <1>1, <1>2, <1>3, <2>1
  <2>2. CASE state'[t].last = state[t].last /\ t \notin Ping!Due(r)
    <3>1. state[t].last # 0 /\ Ping!Time(r) - state[t].last < Interval[t]
        BY <1>1, <1>3, <2>2, NotDueFacts
    <3> QED BY <2>2, <3>1
  <2>3. state'[t].last = Ping!Time(n) \/ t \notin Ping!Due(r)
    <3>1. CASE r \in done
        BY <1>1, <3>1 DEF StatesStand
    <3>2. CASE r \notin done
        BY <3>2
    <3> QED BY <3>1, <3>2
  <2> QED BY <2>1, <2>2, <2>3
<1>5. \A t \in Tasks, r \in done' \ HttpReports : t \notin Ping!Due(r)'
  <2> SUFFICES ASSUME NEW t \in Tasks, NEW r \in done' \ HttpReports
               PROVE  t \notin Ping!Due(r)'
    OBVIOUS
  <2>1. state'[t].last # 0 /\ ~(Ping!Time(r) - state'[t].last >= Interval[t])
    BY <1>2, <1>3, <1>4
  <2> QED BY <2>1 DEF Ping!Due
<1>6. Ping!ShownInHistory'
  <2> SUFFICES ASSUME NEW r \in done' \ HttpReports, NEW t \in Tasks
               PROVE  \E q \in Ping!Reports : /\ q <= r /\ Ping!Time(r) - Ping!Time(q) < Interval[t]
                                         /\ \E a \in rows' : Ping!Shows(a, q, t)'
    BY DEF Ping!ShownInHistory
  <2>1. CASE r \in done
    BY <2>1, HistoryStays
  <2>2. CASE r = n
    <3>1. PICK q \in Ping!Reports : state'[t].last = Ping!Time(q) /\ \E a \in rows' : Ping!Shows(a, q, t)'
        BY <1>4 DEF LastIsShown
    <3>2. q <= n
        BY <1>2, <3>1, TimeOrder
    <3> QED BY <1>4, <2>2, <3>1, <3>2
  <2> QED BY <2>1, <2>2
<1> QED BY <1>5, <1>6

\* A report in which nothing has changed is passed, for all of its due tasks or for some.
LEMMA PassedKeeps ==
    ASSUME Ping!PingAssumption, PingInv, Around, Ping!TypeOK', rows' = rows, queue # <<>>,
           NEW n \in Ping!Reports, n = Head(queue), ~Ping!Changed(n),
           NEW tasks \in SUBSET Ping!Due(n), state' = Ping!Passed(tasks, n), done' \subseteq done \cup {n},
           tasks = Ping!Due(n) \/ \A r \in done' : r \in done \/ r \in failed'
    PROVE  RowsStand' /\ StatesStand' /\ Ping!StoredOnce' /\ Ping!ShownInHistory'
<1>1. Ping!TypeOK /\ ReportsInOrder /\ RowsStand /\ StatesStand /\ tasks \subseteq Tasks
    BY DEF PingInv, Ping!Due
<1>2. RowsStand' /\ Ping!StoredOnce'
    BY RowsStay
<1>3. \A t \in Tasks : state[t] \in [last : Nat, value : Int, at : Nat]
    BY <1>1 DEF Ping!TypeOK
<1>4. \A t \in Tasks : /\ state'[t].at = state[t].at /\ state'[t].value = state[t].value
                       /\ t \in tasks => state'[t].last = Ping!Time(n)
                       /\ t \notin tasks => state'[t] = state[t]
    BY <1>3 DEF Ping!Passed
<1>5. /\ Reached(n) /\ \A r \in done : r \in Ping!Reports /\ r <= n
      /\ n \in HttpReports => n \notin done
      /\ \A q \in Ping!Reports : q < n => q \in done
    BY <1>1, HeadFacts DEF Reached, Ping!TypeOK
<1>6. ASSUME NEW t \in tasks
      PROVE  \E a \in rows' : Ping!Shows(a, n, t)'
  <2>1. t \in Tasks /\ t \in Ping!Due(n) /\ n \notin done
    BY <1>1, <1>5 DEF StatesStand
  <2>2. ~Ping!ShouldPersist(pingValue[n][t], state[t], Ping!Time(n)) /\ state[t].at <= Ping!Time(n)
        /\ state[t].at \in Nat
    BY <1>1, <2>1, PingStateFacts DEF Ping!Changed
  <2>3. state[t].at # 0
    BY <2>2 DEF Ping!ShouldPersist
  <2>4. PICK r \in done, a \in rows : /\ state[t].at = Ping!Time(r) /\ state[t].value = pingValue[r][t]
                                      /\ a.time = Ping!Time(r) /\ t \in DOMAIN a.values
    BY <1>1, <2>1, <2>3 DEF StatesStand, ValueIsStored
  <2>5. a.values[t] = state[t].value
    <3>1. PICK q \in Ping!Reports : RowOf(a, q)
        BY <1>1 DEF RowsStand
    <3>2. q = r
        BY <1>5, <2>4, <3>1, TimeOrder DEF RowOf
    <3>3. a.values = [u \in DOMAIN a.values |-> pingValue[r][u]]
        BY <3>1, <3>2 DEF RowOf
    <3> QED BY <2>4, <3>3
  <2>6. ~Ping!ShouldPersist(pingValue[n][t], [last |-> 0, value |-> a.values[t], at |-> a.time], Ping!Time(n))
    BY <2>2, <2>4, <2>5 DEF Ping!ShouldPersist
  <2>7. ASSUME NEW q \in Ping!Reports \ failed, NEW b \in rows,
               b.time = Ping!Time(q), a.time < b.time, b.time <= Ping!Time(n)
        PROVE  t \notin DOMAIN b.values
    <3>1. q # n
        BY <1>1, <2>1, <2>7, RowOfOpen
    <3>2. q \in done
        BY <1>5, <2>7, <3>1, TimeFacts, TimeOrder
    <3>3. b.time \in Nat
        BY <2>7, TimeFacts
    <3> QED BY <1>1, <2>1, <2>2, <2>4, <2>7, <3>2, <3>3 DEF StatesStand, NothingNewer
  <2>8. Ping!Shows(a, n, t)
    BY <2>2, <2>4, <2>6, <2>7 DEF Ping!Shows
  <2>9. Ping!Shows(a, n, t)'
    BY <2>8 DEF Ping!Shows, Around
  <2> QED BY <2>9
<1>7. ASSUME NEW t \in Tasks
      PROVE  LastIsShown(t)' /\ ValueIsStored(t)' /\ NothingNewer(t)'
  <2>1. LastIsShown(t)'
    <3>1. CASE t \in tasks
        BY <1>1, <1>4, <1>5, <1>6, <3>1, ReachedStays DEF LastIsShown
    <3>2. CASE t \notin tasks /\ state[t].last # 0
      <4>1. PICK r \in Ping!Reports, a \in rows : state[t].last = Ping!Time(r) /\ Reached(r) /\ Ping!Shows(a, r, t)
        BY <1>1, <3>2 DEF StatesStand, LastIsShown
      <4>2. Reached(r)' /\ Ping!Shows(a, r, t)'
        BY <1>1, <4>1, ReachedStays, ShowsStays
      <4> QED BY <1>4, <3>2, <4>1, <4>2 DEF LastIsShown
    <3> QED BY <1>4, <3>1, <3>2 DEF LastIsShown
  <2>2. ValueIsStored(t)'
    BY <1>1, <1>4 DEF StatesStand, ValueIsStored, Around
  <2>3. ASSUME NEW r \in done' \ failed', NEW a \in rows, a.time = Ping!Time(r), t \in DOMAIN a.values
        PROVE  a.time <= state[t].at
    <3>1. r \in done
        BY <1>1, <2>3, RowOfOpen
    <3> QED BY <1>1, <2>3, <3>1 DEF StatesStand, NothingNewer, Around
  <2>4. NothingNewer(t)'
    BY <1>4, <2>3 DEF NothingNewer
  <2> QED BY <2>1, <2>2, <2>4
<1>8. /\ \A t \in Tasks, r \in done' \ HttpReports : t \notin Ping!Due(r)'
      /\ Ping!ShownInHistory'
  <2>1. n \in done' \ HttpReports => n \in done \/ \A t \in Ping!Due(n) : state'[t].last = Ping!Time(n)
    BY <1>1, <1>4 DEF Around
  <2>2. \A t \in Tasks : /\ LastIsShown(t)'
                         /\ state'[t].last = state[t].last \/ state'[t].last = Ping!Time(n)
    BY <1>4, <1>7
  <2> QED BY <2>1, <2>2, PassKeepsHistory
<1> QED BY <1>2, <1>7, <1>8 DEF StatesStand

\* A report whose row is stored is accepted: the row shows it.
LEMMA MarkedKeeps ==
    ASSUME Ping!PingAssumption, PingInv, Around, Ping!TypeOK', rows' = rows, queue # <<>>, pc = "mark",
           NEW n \in Ping!Reports, n = Head(queue), done' = done \cup {n}, failed' = failed,
           \A t \in Tasks : IF t \in Ping!Due(n)
                            THEN /\ state'[t].last = Ping!Time(n) /\ state'[t].at = Ping!Time(n)
                                 /\ state'[t].value = pingValue[n][t]
                            ELSE state'[t] = state[t]
    PROVE  RowsStand' /\ StatesStand' /\ Ping!StoredOnce' /\ Ping!ShownInHistory'
<1>1. Ping!TypeOK /\ ReportsInOrder /\ BatchIsDue /\ RowsStand /\ StatesStand
    BY DEF PingInv
<1>2. RowsStand' /\ Ping!StoredOnce'
    BY RowsStay
<1>3. /\ Reached(n) /\ Ping!Time(n) \in Nat /\ Ping!Time(n) > 0 /\ \A q \in Ping!Reports : Ping!Time(q) \in Int
      /\ \A r \in done : r \in Ping!Reports /\ r <= n
  <2>1. /\ \A q \in Ping!Reports : q < n => q \in done
        /\ \A i \in DOMAIN queue : n <= queue[i]
        /\ \A r \in done : r <= n
      BY <1>1, HeadFacts
  <2>2. done \subseteq Ping!Reports
      BY <1>1 DEF Ping!TypeOK
  <2> QED BY <2>1, <2>2, TimeFacts DEF Reached
<1>4. n \notin done /\ \E a \in rows : /\ a.time = Ping!Time(n) /\ DOMAIN a.values = Ping!Due(n)
                                       /\ \A t \in Ping!Due(n) : a.values[t] = pingValue[n][t]
    BY <1>1 DEF BatchIsDue, Ping!Row
<1>5. ASSUME NEW t \in Ping!Due(n)
      PROVE  \E a \in rows' : a.time = Ping!Time(n) /\ t \in DOMAIN a.values /\ Ping!Shows(a, n, t)'
  <2>1. PICK a \in rows : a.time = Ping!Time(n) /\ t \in DOMAIN a.values /\ a.values[t] = pingValue[n][t]
    BY <1>4
  <2>2. pingValue[n][t] \in Int
    <3>1. pingValue[n] \in [Tasks -> Values] /\ Values \subseteq Int /\ t \in Tasks
        BY <1>1 DEF Ping!TypeOK, Ping!PingAssumption, Ping!Due
    <3> QED BY <3>1
  <2>3. ~Ping!ShouldPersist(pingValue[n][t], [last |-> 0, value |-> pingValue[n][t], at |-> Ping!Time(n)], Ping!Time(n))
    BY <1>3, <2>2 DEF Ping!ShouldPersist, Ping!PingAssumption
  <2>4. Ping!Shows(a, n, t)
    BY <1>3, <2>1, <2>3 DEF Ping!Shows
  <2>5. Ping!Shows(a, n, t)'
    BY <2>4 DEF Ping!Shows, Around
  <2> QED BY <2>1, <2>5
<1>6. ASSUME NEW t \in Ping!Due(n)
      PROVE  LastIsShown(t)' /\ ValueIsStored(t)' /\ NothingNewer(t)'
  <2>1. t \in Tasks
    BY DEF Ping!Due
  <2>2. LastIsShown(t)'
    BY <1>1, <1>3, <1>5, <2>1, ReachedStays DEF LastIsShown
  <2>3. ValueIsStored(t)'
    BY <1>5, <2>1 DEF ValueIsStored, Around
  <2>4. ASSUME NEW r \in done'
        PROVE  Ping!Time(r) <= Ping!Time(n)
    BY <1>3, TimeOrder
  <2>5. NothingNewer(t)'
    BY <2>1, <2>4 DEF NothingNewer
  <2> QED BY <2>2, <2>3, <2>5
<1>7. ASSUME NEW t \in Tasks, t \notin Ping!Due(n)
      PROVE  LastIsShown(t)' /\ ValueIsStored(t)' /\ NothingNewer(t)'
  <2>1. state'[t] = state[t]
    BY <1>7
  <2>2. LastIsShown(t)'
    <3> SUFFICES ASSUME state[t].last # 0
                 PROVE  \E r \in Ping!Reports : /\ state[t].last = Ping!Time(r) /\ Reached(r)'
                                           /\ \E a \in rows' : Ping!Shows(a, r, t)'
        BY <2>1 DEF LastIsShown
    <3>1. PICK r \in Ping!Reports, a \in rows : state[t].last = Ping!Time(r) /\ Reached(r) /\ Ping!Shows(a, r, t)
        BY <1>1 DEF StatesStand, LastIsShown
    <3> QED BY <1>1, <3>1, ShowsStays, ReachedStays
  <2>3. ValueIsStored(t)'
    BY <1>1, <2>1 DEF StatesStand, ValueIsStored, Around
  <2>4. ASSUME NEW r \in done' \ failed', NEW a \in rows, a.time = Ping!Time(r), t \in DOMAIN a.values
        PROVE  a.time <= state[t].at
    <3>1. r \in done
        BY <1>1, <1>4, <1>7, <2>4, RowOfOpen
    <3> QED BY <1>1, <2>4, <3>1 DEF StatesStand, NothingNewer
  <2>5. NothingNewer(t)'
    BY <2>1, <2>4 DEF NothingNewer
  <2> QED BY <2>2, <2>3, <2>5
<1>8. /\ \A t \in Tasks, r \in done' \ HttpReports : t \notin Ping!Due(r)'
      /\ Ping!ShownInHistory'
  <2>1. \A t \in Tasks : /\ LastIsShown(t)'
                         /\ state'[t].last = state[t].last \/ state'[t].last = Ping!Time(n)
    BY <1>6, <1>7
  <2>2. n \in done' \ HttpReports => n \in done \/ \A t \in Ping!Due(n) : state'[t].last = Ping!Time(n)
    BY DEF Ping!Due
  <2> QED BY <2>1, <2>2, PassKeepsHistory
<1> QED BY <1>2, <1>6, <1>7, <1>8 DEF StatesStand

\* A report is sent for the first time or again.
LEMMA PingSend ==
    ASSUME Ping!PingAssumption, PingInv, NEW r \in Ping!Reports, Ping!Send(r)
    PROVE  PingInv'
<1> DEFINE n == Len(queue) + 1
<1>1. Ping!TypeOK /\ ReportsInOrder /\ BatchIsDue /\ queue \in Seq(Ping!Reports) /\ r \in Nat
    BY TimeFacts DEF PingInv, Ping!TypeOK
<1>2. /\ queue' \in Seq(Ping!Reports) /\ Len(queue') = n /\ DOMAIN queue' = 1..n /\ n \in Nat \ {0}
      /\ DOMAIN queue = 1..(n - 1) /\ queue'[n] = r
      /\ \A i \in DOMAIN queue : i \in DOMAIN queue' /\ queue'[i] = queue[i] /\ i < n
      /\ \A i \in DOMAIN queue' : i \in DOMAIN queue \/ i = n
      /\ queue # <<>> => Head(queue') = Head(queue)
    BY <1>1 DEF Ping!Send
<1>3. /\ r \notin done /\ \A q \in Ping!Reports : q < r => q \in done
      /\ r \in HttpReports => \A i \in DOMAIN queue : queue[i] # r
      /\ pingValue' = pingValue /\ done' = done /\ batch' = batch /\ pc' = pc /\ state' = state
      /\ rows' = rows /\ failed' = failed /\ Len(queue) < MaxQueue
  <2>1. \A q \in Ping!Reports : q < r => q \in 1..r - 1
    BY <1>1 DEF Ping!PingAssumption, Ping!Reports
  <2> QED BY <1>1, <1>2, <2>1 DEF Ping!Send
<1> HIDE DEF n
<1>4. Ping!TypeOK'
  <2>1. Len(queue') <= MaxQueue
    BY <1>1, <1>3 DEF Ping!Send, Ping!PingAssumption
  <2>2. pc' # "idle" => queue' # <<>>
    BY <1>2
  <2> QED BY <1>1, <1>2, <1>3, <2>1, <2>2 DEF Ping!TypeOK
<1>5. \A q \in done : q \in Ping!Reports /\ q \in Nat /\ q < r
    BY <1>1, <1>3, TimeFacts DEF ReportsInOrder, Ping!TypeOK
<1>6. \A i \in DOMAIN queue : queue[i] \in Ping!Reports /\ queue[i] \in Nat /\ queue[i] <= r
  <2> SUFFICES ASSUME NEW i \in DOMAIN queue
               PROVE  queue[i] \in Ping!Reports /\ queue[i] \in Nat /\ queue[i] <= r
    OBVIOUS
  <2>1. queue[i] \in Ping!Reports
    BY <1>1
  <2>2. queue[i] \in Nat
    BY <2>1, TimeFacts
  <2>3. ~(r < queue[i])
    BY <1>1, <1>3 DEF ReportsInOrder
  <2> QED BY <1>1, <2>1, <2>2, <2>3
<1>7. ReportsInOrder'
  <2>1. ASSUME NEW i \in DOMAIN queue'
        PROVE  /\ \A q \in Ping!Reports : q < queue'[i] => q \in done
               /\ \A q \in done : q <= queue'[i]
               /\ queue'[i] \in HttpReports =>
                    queue'[i] \notin done /\ \A j \in DOMAIN queue' : queue'[j] = queue'[i] => j = i
    <3>1. CASE i = n
      <4>1. queue'[i] = r
        BY <1>2, <3>1
      <4>2. \A q \in done : q <= r
        BY <1>1, <1>5
      <4>3. r \in HttpReports => \A j \in DOMAIN queue' : queue'[j] = r => j = n
        BY <1>2, <1>3
      <4> QED BY <1>3, <3>1, <4>1, <4>2, <4>3
    <3>2. CASE i \in DOMAIN queue
        BY <1>1, <1>2, <1>3, <3>2 DEF ReportsInOrder
    <3> QED BY <1>2, <3>1, <3>2
  <2>2. ASSUME NEW i \in DOMAIN queue', NEW j \in DOMAIN queue', i < j
        PROVE  queue'[i] <= queue'[j]
    <3>1. i \in DOMAIN queue
        BY <1>2, <2>2
    <3>2. CASE j = n
        BY <1>2, <1>6, <3>1, <3>2
    <3>3. CASE j \in DOMAIN queue
        BY <1>1, <1>2, <2>2, <3>1, <3>3 DEF ReportsInOrder
    <3> QED BY <1>2, <3>2, <3>3
  <2> QED BY <1>1, <1>3, <2>1, <2>2 DEF ReportsInOrder
<1>8. BatchIsDue'
  <2> SUFFICES ASSUME pc # "idle"
               PROVE  /\ Head(queue') \notin done /\ Ping!Changed(Head(queue))'
                      /\ batch = [t \in Ping!Due(Head(queue))' |-> pingValue[Head(queue')][t]]
                      /\ pc = "mark" => Ping!Row' \in rows
    BY <1>3 DEF BatchIsDue
  <2>1. Head(queue') = Head(queue)
    BY <1>1, <1>2 DEF Ping!TypeOK
  <2>2. Ping!Row' = Ping!Row /\ Ping!Due(Head(queue))' = Ping!Due(Head(queue)) /\ (Ping!Changed(Head(queue))' <=> Ping!Changed(Head(queue)))
    BY <1>3, <2>1 DEF Ping!Row, Ping!Due, Ping!Changed
  <2> QED BY <1>1, <2>1, <2>2 DEF BatchIsDue
<1>9. Around
  <2>1. \A i \in DOMAIN queue' : \/ \E j \in DOMAIN queue : queue'[i] = queue[j]
                                 \/ queue'[i] \in Ping!Reports \ done
    BY <1>2, <1>3
  <2> QED BY <1>1, <1>3, <2>1 DEF Around, Ping!TypeOK
<1> QED BY <1>3, <1>4, <1>7, <1>8, <1>9, UnpassedKeeps DEF PingInv

\* A write ends without being accepted.
LEMMA PingGivenUp ==
    ASSUME Ping!PingAssumption, PingInv, pc # "idle", Ping!Ends(FALSE), pingValue' = pingValue, state' = state,
           rows' = rows \/ rows' = rows \cup {Ping!Row}
    PROVE  PingInv'
<1>1. Ping!TypeOK /\ ReportsInOrder /\ queue # <<>>
    BY DEF PingInv, Ping!TypeOK
<1>2. /\ ReportsInOrder' /\ queue' \in Seq(Ping!Reports) /\ Len(queue') <= MaxQueue
      /\ done \subseteq done' /\ done' \subseteq done \cup {Head(queue)}
      /\ failed \subseteq failed' /\ failed' \subseteq HttpReports /\ done' \subseteq Ping!Reports
      /\ \A i \in DOMAIN queue' : \E j \in DOMAIN queue : queue'[i] = queue[j]
    BY <1>1, PopKeepsOrder
<1>3. /\ pc' = "idle" /\ batch' = Ping!NoBatch
      /\ \A r \in done' : r \in done \/ r \in failed'
    BY DEF Ping!Ends
<1>4. Around
    BY <1>2 DEF Around
<1>5. Ping!TypeOK'
    BY <1>1, <1>2, <1>3 DEF Ping!TypeOK, Ping!NoBatch
<1>6. BatchIsDue'
    BY <1>3 DEF BatchIsDue
<1> QED BY <1>2, <1>3, <1>4, <1>5, <1>6, UnpassedKeeps DEF PingInv

\* The object restarts.
LEMMA PingRestart ==
    ASSUME Ping!PingAssumption, PingInv, Ping!Restart
    PROVE  PingInv'
<1> DEFINE gone == {r \in HttpReports : \E i \in 1..Len(queue) : queue[i] = r}
<1>1. Ping!TypeOK /\ ReportsInOrder /\ queue \in Seq(Ping!Reports)
    BY DEF PingInv, Ping!TypeOK
<1>2. /\ queue' = <<>> /\ pc' = "idle" /\ batch' = Ping!NoBatch /\ done' = done \cup gone
      /\ failed' = failed \cup gone /\ pingValue' = pingValue /\ state' = state /\ rows' = rows
    BY DEF Ping!Restart
<1>3. \A r \in gone : /\ r \in HttpReports /\ r \in Ping!Reports
                      /\ \A q \in Ping!Reports : q < r => q \in done
    BY <1>1 DEF ReportsInOrder, Ping!PingAssumption
<1> HIDE DEF gone
<1>4. Ping!TypeOK'
    BY <1>1, <1>2, <1>3 DEF Ping!TypeOK, Ping!NoBatch, Ping!PingAssumption
<1>5. ReportsInOrder'
    BY <1>1, <1>2, <1>3 DEF ReportsInOrder
<1>6. BatchIsDue'
    BY <1>2 DEF BatchIsDue
<1>7. Around /\ \A r \in done' : r \in done \/ r \in failed'
    BY <1>1, <1>2, <1>3 DEF Around, Ping!TypeOK
<1> QED BY <1>2, <1>4, <1>5, <1>6, <1>7, UnpassedKeeps DEF PingInv

\* A row is written.
LEMMA PingInsert ==
    ASSUME Ping!PingAssumption, PingInv, Ping!Insert
    PROVE  PingInv'
<1>1. Ping!TypeOK /\ ReportsInOrder /\ BatchIsDue
    BY DEF PingInv
<1>2. Around /\ state' = state /\ done' = done
    BY <1>1 DEF Ping!Insert, Around, Ping!TypeOK
<1>3. Ping!TypeOK' /\ ReportsInOrder'
    BY <1>1 DEF Ping!Insert, Ping!TypeOK, ReportsInOrder
<1>4. BatchIsDue'
  <2>1. /\ Ping!Row' = Ping!Row /\ Ping!Due(Head(queue))' = Ping!Due(Head(queue))
        /\ (Ping!Changed(Head(queue))' <=> Ping!Changed(Head(queue)))
    BY DEF Ping!Insert, Ping!Row, Ping!Due, Ping!Changed
  <2> QED BY <1>1, <2>1 DEF BatchIsDue, Ping!Insert
<1> QED BY <1>2, <1>3, <1>4, UnpassedKeeps DEF PingInv

\* A report without a changed result leaves, with the times of all or some of its due tasks.
LEMMA PingPass ==
    ASSUME Ping!PingAssumption, PingInv, pc = "idle", queue # <<>>, ~Ping!Changed(Head(queue)),
           NEW tasks \in SUBSET Ping!Due(Head(queue)), state' = Ping!Passed(tasks, Head(queue)),
           NEW ok \in BOOLEAN, Ping!Ends(ok), ok => tasks = Ping!Due(Head(queue)),
           pingValue' = pingValue, rows' = rows
    PROVE  PingInv'
<1>1. Ping!TypeOK /\ ReportsInOrder
    BY DEF PingInv
<1>2. /\ ReportsInOrder' /\ queue' \in Seq(Ping!Reports) /\ Len(queue') <= MaxQueue
      /\ done \subseteq done' /\ done' \subseteq done \cup {Head(queue)}
      /\ failed \subseteq failed' /\ failed' \subseteq HttpReports /\ done' \subseteq Ping!Reports
      /\ \A i \in DOMAIN queue' : \E j \in DOMAIN queue : queue'[i] = queue[j]
    BY <1>1, PopKeepsOrder
<1>3. /\ pc' = "idle" /\ batch' = Ping!NoBatch
      /\ ok \/ \A r \in done' : r \in done \/ r \in failed'
    BY DEF Ping!Ends
<1>4. PICK n \in Ping!Reports : n = Head(queue)
    BY <1>1, HeadFacts
<1>5. state' \in [Tasks -> [last : Nat, value : Int, at : Nat]]
  <2>1. Ping!Time(n) \in Nat /\ \A t \in Tasks : state[t] \in [last : Nat, value : Int, at : Nat]
    BY <1>1, TimeFacts DEF Ping!TypeOK
  <2> QED BY <1>4, <2>1 DEF Ping!Passed
<1>6. Ping!TypeOK'
    BY <1>1, <1>2, <1>3, <1>5 DEF Ping!TypeOK, Ping!NoBatch
<1>7. Around
    BY <1>2 DEF Around
<1>8. BatchIsDue'
    BY <1>3 DEF BatchIsDue
<1>9. RowsStand' /\ StatesStand' /\ Ping!StoredOnce' /\ Ping!ShownInHistory'
    BY <1>2, <1>3, <1>4, <1>6, <1>7, PassedKeeps
<1> QED BY <1>2, <1>6, <1>8, <1>9 DEF PingInv

\* Results are chosen, or none has changed.
LEMMA PingFilter ==
    ASSUME Ping!PingAssumption, PingInv, Ping!Filter
    PROVE  PingInv'
<1> DEFINE h == Head(queue)
<1>1. Ping!TypeOK /\ ReportsInOrder /\ StatesStand /\ queue # <<>> /\ pc = "idle" /\ Ping!Due(h) \subseteq Tasks
    BY DEF PingInv, Ping!Filter, Ping!Due
<1>2. CASE Ping!Changed(h)
  <2>1. /\ pc' = "insert" /\ batch' = [t \in Ping!Due(h) |-> pingValue[h][t]] /\ pingValue' = pingValue
        /\ rows' = rows /\ done' = done /\ queue' = queue /\ state' = state /\ failed' = failed
    BY <1>2 DEF Ping!Filter
  <2>2. Ping!TypeOK' /\ ReportsInOrder'
    BY <1>1, <2>1 DEF Ping!TypeOK, ReportsInOrder
  <2>3. Around
    BY <1>1, <2>1 DEF Around, Ping!TypeOK
  <2>4. h \notin done
    BY <1>1, <1>2, HeadFacts DEF StatesStand, Ping!Changed
  <2>5. BatchIsDue'
    <3>1. Ping!Due(h)' = Ping!Due(h) /\ (Ping!Changed(h)' <=> Ping!Changed(h)) /\ h' = h
        BY <2>1 DEF Ping!Due, Ping!Changed
    <3> QED BY <1>2, <2>1, <2>4, <3>1 DEF BatchIsDue
  <2> QED BY <2>1, <2>2, <2>3, <2>5, UnpassedKeeps DEF PingInv
<1>3. CASE ~Ping!Changed(h)
    BY <1>1, <1>3, PingPass DEF Ping!Filter
<1> QED BY <1>2, <1>3

\* The states are written: the report is accepted.
LEMMA PingMark ==
    ASSUME Ping!PingAssumption, PingInv, Ping!Mark
    PROVE  PingInv'
<1>1. Ping!TypeOK /\ ReportsInOrder /\ StatesStand /\ BatchIsDue /\ pc = "mark" /\ queue # <<>>
    BY DEF PingInv, Ping!Mark, Ping!TypeOK
<1>2. PICK n \in Ping!Reports : n = Head(queue)
    BY <1>1, HeadFacts
<1>3. /\ batch = [t \in Ping!Due(n) |-> pingValue[n][t]] /\ Ping!Row.time = Ping!Time(n) /\ Ping!Due(n) \subseteq Tasks
      /\ Ping!Ends(TRUE) /\ pingValue' = pingValue /\ rows' = rows
      /\ state' = [t \in Tasks |-> IF t \in DOMAIN batch THEN Ping!Marked(t) ELSE state[t]]
    BY <1>1, <1>2 DEF BatchIsDue, Ping!Mark, Ping!Row, Ping!Due
<1>4. /\ ReportsInOrder' /\ queue' \in Seq(Ping!Reports) /\ Len(queue') <= MaxQueue
      /\ done' \subseteq Ping!Reports
      /\ \A i \in DOMAIN queue' : \E j \in DOMAIN queue : queue'[i] = queue[j]
    BY <1>1, <1>3, PopKeepsOrder
<1>5. pc' = "idle" /\ batch' = Ping!NoBatch /\ failed' = failed /\ done' = done \cup {n}
    BY <1>2, <1>3 DEF Ping!Ends
<1>6. /\ Ping!Time(n) \in Nat
      /\ \A t \in Tasks : pingValue[n][t] \in Int /\ state[t] \in [last : Nat, value : Int, at : Nat]
  <2>1. Ping!Time(n) \in Nat
    BY TimeFacts
  <2>2. pingValue[n] \in [Tasks -> Values] /\ Values \subseteq Int
    BY <1>1 DEF Ping!TypeOK, Ping!PingAssumption
  <2>3. \A t \in Tasks : state[t] \in [last : Nat, value : Int, at : Nat]
    BY <1>1 DEF Ping!TypeOK
  <2> QED BY <2>1, <2>2, <2>3
<1>7. ASSUME NEW t \in Ping!Due(n)
      PROVE  Ping!Marked(t) = [last |-> Ping!Time(n), value |-> pingValue[n][t], at |-> Ping!Time(n)]
  <2>1. state[t].last < Ping!Time(n) /\ state[t].last \in Nat
    BY <1>1, <1>2, <1>3, PingStateFacts
  <2>2. ~(state[t].last > Ping!Row.time) /\ batch[t] = pingValue[n][t]
    BY <1>3, <1>6, <2>1
  <2> QED BY <1>3, <2>2 DEF Ping!Marked
<1>8. ASSUME NEW t \in Tasks
      PROVE  /\ state'[t] \in [last : Nat, value : Int, at : Nat]
             /\ IF t \in Ping!Due(n)
                THEN /\ state'[t].last = Ping!Time(n) /\ state'[t].at = Ping!Time(n)
                     /\ state'[t].value = pingValue[n][t]
                ELSE state'[t] = state[t]
  <2>1. CASE t \in Ping!Due(n)
    <3>1. state'[t] = [last |-> Ping!Time(n), value |-> pingValue[n][t], at |-> Ping!Time(n)]
        BY <1>3, <1>7, <2>1
    <3> QED BY <1>6, <2>1, <3>1
  <2>2. CASE t \notin Ping!Due(n)
    BY <1>3, <1>6, <2>2
  <2> QED BY <2>1, <2>2
<1>9. state' \in [Tasks -> [last : Nat, value : Int, at : Nat]]
  <2>1. DOMAIN state' = Tasks /\ state' = [t \in Tasks |-> state'[t]]
    BY <1>3
  <2> QED BY <1>8, <2>1
<1>10. Ping!TypeOK'
    BY <1>1, <1>3, <1>4, <1>5, <1>9 DEF Ping!TypeOK, Ping!NoBatch
<1>11. Around
    BY <1>1, <1>3, <1>4, <1>5 DEF Around, Ping!TypeOK
<1>12. BatchIsDue'
    BY <1>5 DEF BatchIsDue
<1>13. RowsStand' /\ StatesStand' /\ Ping!StoredOnce' /\ Ping!ShownInHistory'
    BY <1>1, <1>2, <1>3, <1>5, <1>8, <1>10, <1>11, MarkedKeeps
<1> QED BY <1>4, <1>10, <1>12, <1>13 DEF PingInv

\* The invariant that everything about the history rests on: what waits, what is stored and
\* what the states say belong to the same order of reports.
THEOREM PingInvariant == Ping!PingAssumption => (Ping!Spec => []PingInv)
<1> SUFFICES ASSUME Ping!PingAssumption PROVE Ping!Spec => []PingInv
    OBVIOUS
<1>1. Ping!Init => PingInv
  <2> SUFFICES ASSUME Ping!Init PROVE PingInv
    OBVIOUS
  <2>1. Ping!TypeOK
    BY DEF Ping!Init, Ping!TypeOK, Ping!NoBatch, Ping!Never, Ping!PingAssumption
  <2>2. StatesStand
    BY DEF Ping!Init, StatesStand, LastIsShown, ValueIsStored, NothingNewer, Ping!Never
  <2> QED BY <2>1, <2>2 DEF Ping!Init, PingInv, ReportsInOrder, BatchIsDue, RowsStand, Ping!StoredOnce, Ping!ShownInHistory
<1>2. PingInv /\ [Ping!Next]_Ping!vars => PingInv'
  <2> SUFFICES ASSUME PingInv, [Ping!Next]_Ping!vars PROVE PingInv'
    OBVIOUS
  <2>1. CASE UNCHANGED Ping!vars
    <3>1. Ping!TypeOK /\ ReportsInOrder /\ BatchIsDue
        BY DEF PingInv
    <3>2. Ping!TypeOK' /\ ReportsInOrder'
        BY <2>1, <3>1 DEF Ping!vars, Ping!TypeOK, ReportsInOrder
    <3>3. BatchIsDue'
        BY <2>1, <3>1 DEF Ping!vars, BatchIsDue, Ping!Changed, Ping!Row, Ping!Due
    <3>4. Around /\ state' = state /\ done' = done
        BY <2>1, <3>1 DEF Ping!vars, Around, Ping!TypeOK
    <3> QED BY <3>2, <3>3, <3>4, UnpassedKeeps DEF PingInv
  <2>2. ASSUME NEW r \in Ping!Reports, Ping!Send(r) PROVE PingInv'
    BY <2>2, PingSend
  <2>3. CASE Ping!FilterFails
    BY <2>3, PingPass DEF Ping!FilterFails
  <2>4. CASE Ping!InsertFails
    BY <2>4, PingGivenUp DEF Ping!InsertFails
  <2>5. CASE Ping!MarkFails
    BY <2>5, PingGivenUp DEF Ping!MarkFails
  <2> QED BY <2>1, <2>2, <2>3, <2>4, <2>5, PingFilter, PingInsert, PingMark, PingRestart DEF Ping!Next
<1> QED BY <1>1, <1>2, PTL DEF Ping!Spec

\* A result is stored at most once, however often its report is sent (persistQueuedPingResult).
THEOREM ResultsAreStoredOnce == Ping!PingAssumption => (Ping!Spec => []Ping!StoredOnce)
<1>1. PingInv => Ping!StoredOnce
    BY DEF PingInv
<1> QED BY <1>1, PingInvariant, PTL

\* The history shows what an acknowledged report measured (filterPingResultsByInterval,
\* markPingResultsPersisted).
THEOREM HistoryShowsReports == Ping!PingAssumption => (Ping!Spec => []Ping!ShownInHistory)
<1>1. PingInv => Ping!ShownInHistory
    BY DEF PingInv
<1> QED BY <1>1, PingInvariant, PTL

-----------------------------------------------------------------------------
(* The parts together *)

\* Factors, sessions and passwords end in every behaviour of the second factor beside every
\* behaviour of the sessions and of the logins: however tabs, retries, new keys, caches,
\* rotations and the background work of a login interleave (cfm_consume_mfa_factor,
\* validateAdminSession, rehashUserPassword).
THEOREM CredentialsDoEnd == Admin!Spec /\ Mfa!Spec /\ Logins!Spec => []CredentialsEnd
<1>1. Admin!WritesAreCurrent /\ Admin!ReadsEnd /\ Mfa!FactorConfirmsOneOperation /\ Mfa!SecretIsNewest
        /\ Logins!PasswordIsNewest => CredentialsEnd
    BY DEF CredentialsEnd
<1>2. Admin!Spec => []Admin!WritesAreCurrent
    BY WritesStayCurrent, InstanceAssumption
<1>3. Admin!Spec => []Admin!ReadsEnd
    BY RevokedReadsEnd, InstanceAssumption
<1>4. Mfa!Spec => [](Mfa!FactorConfirmsOneOperation /\ Mfa!SecretIsNewest)
    BY FactorsConfirmOnce, InstanceAssumption
<1>5. Logins!Spec => []Logins!PasswordIsNewest
    BY PasswordStaysNewest, InstanceAssumption
<1> QED BY <1>1, <1>2, <1>3, <1>4, <1>5, PTL

\* No request of a browser or of an agent oversteps, however they interleave and whatever is
\* lost (requireMfaStepUp, cfm_consume_mfa_factor, storeAgentAuthSnapshot).
THEOREM RequestsStayWithin == Mfa!Spec /\ Intake!Spec => NoRequestOversteps
<1>1. Mfa!Spec => Mfa!ProtectedIsConfirmed
    BY ProtectedWasConfirmed, InstanceAssumption
<1>2. Mfa!Spec => Mfa!RetriesAreRecognised
    BY RetriesRecognised, InstanceAssumption
<1>3. Intake!Spec => [][Intake!AdminKept]_Intake!vars
    BY AdminIsKept, InstanceAssumption
<1>4. [Intake!AdminKept]_Intake!vars => [Intake!AdminKept]_intakeVars
    BY DEF Intake!vars, intakeVars
<1> QED BY <1>1, <1>2, <1>3, <1>4, PTL DEF NoRequestOversteps

\* Wherever a request for the setup, an agent or its machine is interrupted, the migrations
\* and the counters stay whole (applyBundledMigrations, writeTrafficResetState).
THEOREM InterruptedStaysWhole == Setup!Spec /\ Traffic!Spec => []InterruptedIsWhole
<1>1. /\ Setup!InOrder /\ Setup!SuccessIsComplete
      /\ Traffic!SavedSurvives /\ Traffic!CountedOnce /\ Traffic!SameTotal
      => InterruptedIsWhole
    BY DEF InterruptedIsWhole
<1>2. Setup!Spec => [](Setup!InOrder /\ Setup!SuccessIsComplete)
    BY MigrationsAreWhole, InstanceAssumption
<1>3. Traffic!Spec => [](Traffic!SavedSurvives /\ Traffic!CountedOnce /\ Traffic!SameTotal)
    BY TrafficSurvives, InstanceAssumption
<1> QED BY <1>1, <1>2, <1>3, PTL

\* The ping history is exact whatever fails and is sent again: results are stored once, and
\* the history shows what was measured (persistQueuedPingResult,
\* filterPingResultsByInterval).
THEOREM HistoryStaysExact == Ping!Spec => []HistoryIsExact
<1>1. Ping!StoredOnce /\ Ping!ShownInHistory => HistoryIsExact
    BY DEF Ping!HistoryIsExact, HistoryIsExact
<1>2. Ping!Spec => []Ping!StoredOnce /\ []Ping!ShownInHistory
    BY ResultsAreStoredOnce, HistoryShowsReports, InstanceAssumption
<1> QED BY <1>1, <1>2, PTL

\* What the run checks of its instance holds for every instance.
THEOREM ServerIsSafe ==
    Spec => []CredentialsEnd /\ NoRequestOversteps /\ []InterruptedIsWhole /\ []HistoryIsExact
<1>1. Init => /\ Setup!Init /\ Traffic!Init /\ Admin!Init /\ Mfa!Init
              /\ Ping!Init /\ Intake!Init /\ Logins!Init
    BY DEF Init
<1>2. [Next]_vars => [Setup!Next]_Setup!vars /\ [Traffic!Next]_Traffic!vars
    BY DEF Next, vars, Setup!vars, Traffic!vars, setupVars, trafficVars, InSetup, InTraffic, InSessions,
           InWindows, InRate, InAdmin, InMfa, InPing, InIntake, InLogins
<1>3. [Next]_vars => [Admin!Next]_Admin!vars /\ [Mfa!Next]_Mfa!vars /\ [Logins!Next]_Logins!vars
    BY DEF Next, vars, Admin!vars, Mfa!vars, Logins!vars, adminVars, mfaVars, loginVars, InSetup, InTraffic,
           InSessions, InWindows, InRate, InAdmin, InMfa, InPing, InIntake, InLogins
<1>4. [Next]_vars => [Ping!Next]_Ping!vars /\ [Intake!Next]_Intake!vars
    BY DEF Next, vars, Ping!vars, Intake!vars, pingVars, intakeVars, InSetup, InTraffic, InSessions,
           InWindows, InRate, InAdmin, InMfa, InPing, InIntake, InLogins
<1>5. Spec => /\ Setup!Spec /\ Traffic!Spec /\ Admin!Spec /\ Mfa!Spec /\ Ping!Spec /\ Intake!Spec /\ Logins!Spec
    BY <1>1, <1>2, <1>3, <1>4, PTL DEF Spec, Setup!Spec, Traffic!Spec, Admin!Spec, Mfa!Spec, Ping!Spec,
                                      Intake!Spec, Logins!Spec
<1> QED BY <1>5, CredentialsDoEnd, RequestsStayWithin, InterruptedStaysWhole, HistoryStaysExact, PTL
=============================================================================
