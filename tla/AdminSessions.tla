---------------------------- MODULE AdminSessions ----------------------------
(***************************************************************************)
(* The session of the administrator.  A cookie carries the session         *)
(* version of the account; changing the user name, the password or the     *)
(* second factor, logging out and the recovery of the account give it a    *)
(* new version and so revoke the cookies of all earlier ones.  Whether a   *)
(* version is the current one is cached at two places: for EdgeTtl in the  *)
(* edge cache of a data centre (worker/src/index.ts and                    *)
(* worker/src/routes/public.ts) and for IsolateTtl in the memory of an     *)
(* isolate (worker/src/auth/admin-session.ts).  Writes ask the database.   *)
(*                                                                         *)
(* A place is a data centre with one isolate.  A request is a list of      *)
(* steps; other requests run between them.  Requests are short: time       *)
(* passes between them only.                                               *)
(***************************************************************************)
EXTENDS Integers, Sequences

CONSTANTS
    Places,         \* data centres
    EdgeTtl,        \* ADMIN_SESSION_EDGE_CACHE_SECONDS, 30 s
    IsolateTtl,     \* ADMIN_SESSION_CACHE_MS, 10 s
    MaxVersion      \* bound: session versions

SessionAssumption ==
    EdgeTtl \in Nat \ {0} /\ IsolateTtl \in Nat \ {0} /\ MaxVersion \in Nat \ {0}

Versions == 1..MaxVersion
Ages == 0..EdgeTtl + IsolateTtl + 1

VARIABLES
    version,    \* SQL: users.session_version
    age,        \* how long ago each version was revoked
    edge,       \* edge caches: how long the entry of a version is still good
    isolate,    \* memory of the isolates: likewise
    request     \* the request at each place

vars == <<version, age, edge, isolate, request>>

\* A request is at the step at of its work; began is the version when it came in.
NoRequest == [v |-> 0, began |-> 0, kind |-> "none", at |-> 0]

-----------------------------------------------------------------------------
(* The requests *)

\* read: a safe method under /api/admin.  me: GET /me, HEAD /me, hasAdminSession.
\* write: the middleware and a handler.  username, password, logout: what they do after
\* one another; the second factor's routes (replaceRotatedAdminSession) do as password.
\* login: completeAdminLogin.  recovery: what follows the new version.
Work(kind) ==
    CASE kind = "read" -> <<"edge", "fresh", "put">>
      [] kind = "me" -> <<"edge", "memory", "shared", "enter", "put">>
      [] kind = "write" -> <<"fresh", "write">>
      [] kind = "username" -> <<"fresh", "purge", "rotate", "forget">>
      [] kind = "password" -> <<"fresh", "rotate", "purge", "forget">>
      [] kind = "logout" -> <<"purge", "memory", "shared", "enter", "rotate", "forget", "purge">>
      [] kind = "login" -> <<"put">>
      [] kind = "recovery" -> <<"forget", "purge">>

Kinds == {"read", "me", "write", "username", "password", "logout"}

\* A request with the cookie of the version v.
Arrives(p, v, kind) ==
    /\ request[p] = NoRequest /\ v <= version
    /\ request' = [request EXCEPT ![p] = [v |-> v, began |-> version, kind |-> kind, at |-> 1]]
    /\ UNCHANGED <<version, age, edge, isolate>>

\* Somebody logs in, with the second factor if there is one: completeAdminLogin.
LogsIn(p) ==
    /\ request[p] = NoRequest
    /\ request' = [request EXCEPT ![p] = [v |-> version, began |-> version, kind |-> "login", at |-> 1]]
    /\ UNCHANGED <<version, age, edge, isolate>>

Todo(p, step) == request[p] # NoRequest /\ Work(request[p].kind)[request[p].at] = step

\* The request goes on n steps, or is done.
Goes(p, n) ==
    request' = [request EXCEPT ![p] = IF request[p].at + n > Len(Work(request[p].kind)) THEN NoRequest
                                      ELSE [request[p] EXCEPT !.at = request[p].at + n]]
Rest(p) == Goes(p, 1)
Ends(p) == request' = [request EXCEPT ![p] = NoRequest]

\* getAdminSessionEdgeCache: an entry answers the request.
Edge(p) ==
    /\ Todo(p, "edge")
    /\ IF edge[p][request[p].v] > 0 THEN Ends(p) ELSE Rest(p)
    /\ UNCHANGED <<version, age, edge, isolate>>

\* validateAdminSession without fresh: the memory saves the question to SQL and its entry.
Memory(p) ==
    /\ Todo(p, "memory")
    /\ Goes(p, IF isolate[p][request[p].v] > 0 THEN 3 ELSE 1)
    /\ UNCHANGED <<version, age, edge, isolate>>

\* readAdminSession: another version than the current one is refused.
Fresh(p) ==
    /\ Todo(p, "fresh")
    /\ IF request[p].v = version THEN Rest(p) ELSE Ends(p)
    /\ UNCHANGED <<version, age, edge, isolate>>

\* The same; the answer goes to the memory a step later.
Shared(p) ==
    /\ Todo(p, "shared")
    /\ IF request[p].v = version THEN Rest(p) ELSE Ends(p)
    /\ UNCHANGED <<version, age, edge, isolate>>

Enter(p) ==
    /\ Todo(p, "enter")
    /\ isolate' = [isolate EXCEPT ![p][request[p].v] = IsolateTtl]
    /\ Rest(p)
    /\ UNCHANGED <<version, age, edge>>

\* putAdminSessionEdgeCache.
Put(p) ==
    /\ Todo(p, "put")
    /\ edge' = [edge EXCEPT ![p][request[p].v] = EdgeTtl]
    /\ Rest(p)
    /\ UNCHANGED <<version, age, isolate>>

\* deleteAdminSessionEdgeCache, which reaches this data centre only.
Purge(p) ==
    /\ Todo(p, "purge")
    /\ edge' = [edge EXCEPT ![p][request[p].v] = 0]
    /\ Rest(p)
    /\ UNCHANGED <<version, age, isolate>>

\* invalidateAdminSessionCache.
Forget(p) ==
    /\ Todo(p, "forget")
    /\ isolate' = [isolate EXCEPT ![p] = [v \in Versions |-> 0]]
    /\ Rest(p)
    /\ UNCHANGED <<version, age, edge>>

\* The functions of SQL that give the account its next session version.
Rotate(p) ==
    /\ Todo(p, "rotate")
    /\ IF version = MaxVersion THEN Ends(p) /\ UNCHANGED <<version, age>>    \* the bound
       ELSE version' = version + 1 /\ age' = [age EXCEPT ![version] = 0] /\ Rest(p)
    /\ UNCHANGED <<edge, isolate>>

\* The handler of a write.
Write(p) ==
    /\ Todo(p, "write")
    /\ Rest(p)
    /\ UNCHANGED <<version, age, edge, isolate>>

\* POST /admin/recovery, with the key of the deployment instead of a cookie.
Recover(p) ==
    /\ request[p] = NoRequest /\ version < MaxVersion
    /\ version' = version + 1
    /\ age' = [age EXCEPT ![version] = 0]
    /\ request' = [request EXCEPT ![p] = [v |-> version, began |-> version, kind |-> "recovery", at |-> 1]]
    /\ UNCHANGED <<edge, isolate>>

-----------------------------------------------------------------------------

\* expiresAt > Date.now().
Older(ttl) == IF ttl > 0 THEN ttl - 1 ELSE 0

Tick ==
    /\ \A p \in Places : request[p] = NoRequest
    /\ age' = [v \in Versions |-> IF v < version /\ age[v] <= EdgeTtl + IsolateTtl THEN age[v] + 1 ELSE age[v]]
    /\ edge' = [p \in Places |-> [v \in Versions |-> Older(edge[p][v])]]
    /\ isolate' = [p \in Places |-> [v \in Versions |-> Older(isolate[p][v])]]
    /\ UNCHANGED <<version, request>>

\* The edge cache may drop an entry, an isolate may be replaced.
Evict(p) ==
    /\ \/ edge' = [edge EXCEPT ![p] = [v \in Versions |-> 0]] /\ UNCHANGED isolate
       \/ isolate' = [isolate EXCEPT ![p] = [v \in Versions |-> 0]] /\ UNCHANGED edge
    /\ UNCHANGED <<version, age, request>>

Init ==
    /\ version = 1
    /\ age = [v \in Versions |-> 0]
    /\ edge = [p \in Places |-> [v \in Versions |-> 0]]
    /\ isolate = edge
    /\ request = [p \in Places |-> NoRequest]

Next ==
    \/ \E p \in Places, v \in Versions, kind \in Kinds : Arrives(p, v, kind)
    \/ \E p \in Places : \/ LogsIn(p) \/ Edge(p) \/ Memory(p) \/ Fresh(p) \/ Shared(p) \/ Enter(p)
                         \/ Put(p) \/ Purge(p) \/ Forget(p) \/ Rotate(p) \/ Write(p) \/ Recover(p)
                         \/ Evict(p)
    \/ Tick

Spec == Init /\ [][Next]_vars

-----------------------------------------------------------------------------
(* Properties *)

\* A place has no request, or one that is somewhere in its work.
Requests ==
    {NoRequest} \cup UNION {[v : Versions, began : Versions, kind : {k}, at : 1..Len(Work(k))] :
                             k \in Kinds \cup {"login", "recovery"}}

\* The variables have their types, and a request has a step to do.
TypeOK ==
    /\ version \in Versions /\ age \in [Versions -> Ages]
    /\ edge \in [Places -> [Versions -> 0..EdgeTtl]]
    /\ isolate \in [Places -> [Versions -> 0..IsolateTtl]]
    /\ request \in [Places -> Requests]

\* A handler never does the write of a cookie that was revoked before its request came
\* in, whatever the caches hold (validateAdminSession with fresh).
WritesAreCurrent == \A p \in Places : Todo(p, "write") => request[p].v >= request[p].began

\* Reads with a revoked cookie end, everywhere, when both caches have run out one after
\* the other.
ReadsEnd ==
    \A p \in Places, v \in Versions :
      v < version => /\ edge[p][v] > 0 => age[v] + edge[p][v] <= EdgeTtl + IsolateTtl
                     /\ isolate[p][v] > 0 => age[v] + isolate[p][v] <= IsolateTtl
=============================================================================
