----------------------------- MODULE EdgeRouting -----------------------------
(***************************************************************************)
(* The edge process and how it learns of changes: the route table of       *)
(* server/edge/routes.ts, its response cache and request path, and the     *)
(* hints that server/ipc.ts carries from the control process.              *)
(*                                                                         *)
(* The deployments table is the truth and a hint only says "read it again":*)
(* hints may be lost, so every connection starts with a hello that makes   *)
(* the edge read all of it.  A client is one thread of the control process *)
(* that writes rows; Eager is the one server.ts opens at start, the others *)
(* dial when they first have something to say.                             *)
(*                                                                         *)
(* Each application has one cacheable path, and keeps its published port.  *)
(***************************************************************************)
EXTENDS Naturals, Sequences, FiniteSets

CONSTANTS
  Names,          \* applications
  Services,       \* published services of a component graph
  NoService,      \* an application without one: requests go to its port
  Clients,        \* dialling sides of the IPC link
  Eager,          \* the client that dials when the control process starts
  Requests,       \* proxied requests under way
  PendingCap,     \* PENDING_QUEUE_CAP
  MaxRetries,     \* PROXY_MAX_RETRIES
  MaxRelease,     \* bound: releases of an application
  MaxWire,        \* bound: unread messages of a connection
  MaxFaults       \* bound: crashes of either process

ASSUME ServiceAssumption == NoService \notin Services
ASSUME EagerAssumption == Eager \in Clients
ASSUME NamesAssumption == Names # {}
ASSUME BoundAssumption ==
  PendingCap \in Nat /\ MaxRetries \in Nat /\ MaxRelease \in Nat /\ MaxFaults \in Nat

VARIABLES
  db,             \* the rows of deployments with their published service
  built,          \* the releases made so far of each application
  live,           \* those whose instances answer
  table,          \* RouteTable.cache
  pool,           \* ServiceEndpointPool: the ready endpoints of each service
  served,         \* what hangs off a route: TCP proxies, by application
  announced,      \* hosts registered with mDNS
  cache,          \* the response cache
  edgeUp,         \* the edge process runs
  link,           \* each client's view of its connection
  pending,        \* its queue while not connected
  wire,           \* bytes written that the edge has not read
  request,        \* requests in the hot path
  faults

controlVars == <<db, built, live>>
linkVars == <<link, pending, wire>>
routeVars == <<table, pool, served, announced>>
edgeVars == <<routeVars, cache, edgeUp, request>>
edgeRoutingVars == <<controlVars, linkVars, edgeVars, faults>>

Service == Services \cup {NoService}

Row == [release : 1..MaxRelease, service : Service, extra : BOOLEAN]
NoRow == [release |-> 0, service |-> NoService, extra |-> FALSE]

(* A cached response and the release it came from.  Overtaken (history):   *)
(* the cache of its application was purged while the response was fetched. *)
Response == [release : 1..MaxRelease, overtaken : BOOLEAN]
NoResponse == [release |-> 0, overtaken |-> FALSE]

Hello == [t |-> "hello"]
RouteChanged(n) == [t |-> "route:changed", name |-> n]
CachePurge(n) == [t |-> "cache:purge", name |-> n]
Messages == {Hello} \cup {RouteChanged(n) : n \in Names} \cup {CachePurge(n) : n \in Names}

(* A request: the route it captured and the release it is sent to.         *)
Idle == [at |-> "idle", name |-> CHOOSE n \in Names : TRUE, route |-> NoRow,
         from |-> 0, overtaken |-> FALSE, tries |-> 0]

EdgeTypeOK ==
  /\ db \in [Names -> Row \cup {NoRow}] /\ table \in [Names -> Row \cup {NoRow}]
  /\ built \in [Names -> 0..MaxRelease]
  /\ live \in [Names -> SUBSET (1..MaxRelease)]
  /\ pool \in [Names -> [Services -> SUBSET (1..MaxRelease)]]
  /\ served \in [Names -> BOOLEAN] /\ announced \subseteq Names
  /\ cache \in [Names -> Response \cup {NoResponse}]
  /\ edgeUp \in BOOLEAN /\ faults \in 0..MaxFaults
  /\ link \in [Clients -> {"undialled", "down", "up", "dead"}]
  /\ pending \in [Clients -> Seq(Messages)] /\ wire \in [Clients -> Seq(Messages)]
  /\ \A c \in Clients : Len(pending[c]) <= PendingCap
  /\ request \in [Requests -> [at : {"idle", "leased", "answering", "retrying"},
                               name : Names, route : Row \cup {NoRow},
                               from : 0..MaxRelease, overtaken : BOOLEAN,
                               tries : 0..MaxRetries]]

Init ==
  /\ db = [n \in Names |-> NoRow] /\ table = db
  /\ built = [n \in Names |-> 0] /\ live = [n \in Names |-> {}]
  /\ pool = [n \in Names |-> [s \in Services |-> {}]]
  /\ served = [n \in Names |-> FALSE] /\ announced = {}
  /\ cache = [n \in Names |-> NoResponse]
  /\ edgeUp = TRUE /\ faults = 0
  /\ link = [c \in Clients |-> IF c = Eager THEN "down" ELSE "undialled"]
  /\ pending = [c \in Clients |-> <<>>] /\ wire = pending
  /\ request = [q \in Requests |-> Idle]

-----------------------------------------------------------------------------
(* The link.                                                               *)

(* EdgeIpcClient.send.  A client that has not noticed that its socket is   *)
(* dead writes into it; a full queue drops the message.  The first send of *)
(* a lazy client starts its dialling.                                      *)
Send(c, m) ==
  /\ link' = [link EXCEPT ![c] = IF @ = "undialled" THEN "down" ELSE @]
  /\ IF link[c] \in {"up", "dead"}
       THEN /\ wire' = IF link[c] = "up" THEN [wire EXCEPT ![c] = Append(@, m)] ELSE wire
            /\ UNCHANGED pending
       ELSE /\ pending' = IF Len(pending[c]) < PendingCap
                            THEN [pending EXCEPT ![c] = Append(@, m)] ELSE pending
            /\ UNCHANGED wire

(* Bounds what a client has under way.                                     *)
CanSend(c) == Len(wire[c]) < MaxWire

(* A variant that would resume where it was, without the hello.            *)
ConnectsSilently(c) ==
  /\ link[c] = "down" /\ edgeUp
  /\ link' = [link EXCEPT ![c] = "up"]
  /\ wire' = [wire EXCEPT ![c] = @ \o pending[c]]
  /\ pending' = [pending EXCEPT ![c] = <<>>]
  /\ UNCHANGED <<controlVars, edgeVars, faults>>

(* A dial succeeds: hello first, then what was waiting.                    *)
Connects(c) ==
  /\ link[c] = "down" /\ edgeUp
  /\ link' = [link EXCEPT ![c] = "up"]
  /\ wire' = [wire EXCEPT ![c] = @ \o <<Hello>> \o pending[c]]
  /\ pending' = [pending EXCEPT ![c] = <<>>]
  /\ UNCHANGED <<controlVars, edgeVars, faults>>

(* A variant that would wait for the next message before it dials again.   *)
NoticesAndWaits(c) ==
  /\ link[c] = "dead"
  /\ link' = [link EXCEPT ![c] = "undialled"]
  /\ UNCHANGED <<pending, wire, controlVars, edgeVars, faults>>

(* close or error of a socket: scheduleReconnect.                          *)
NoticesClose(c) ==
  /\ link[c] = "dead"
  /\ link' = [link EXCEPT ![c] = "down"]
  /\ UNCHANGED <<pending, wire, controlVars, edgeVars, faults>>

-----------------------------------------------------------------------------
(* The control process.                                                    *)

(* A deploy starts the instances of the next release.  One behind the      *)
(* application's port takes the place of the old one, those of a graph run *)
(* beside it.                                                              *)
StartsRelease(n) ==
  /\ built[n] < MaxRelease
  /\ built' = [built EXCEPT ![n] = @ + 1]
  /\ live' = [live EXCEPT ![n] = (IF db[n].service = NoService THEN {} ELSE @)
                                   \cup {built'[n]}]
  /\ UNCHANGED <<db, linkVars, edgeVars, faults>>

(* saveDeployment or replaceReadyEndpoints make it the current one.        *)
PublishesRow(n, row) ==
  /\ row.release = built[n] /\ row.release \in live[n] /\ db[n].release # built[n]
  /\ db' = [db EXCEPT ![n] = row]

(* refreshDeploymentInCache follows in the same turn.                      *)
Publishes(c, n) ==
  /\ CanSend(c)
  /\ \E row \in Row : PublishesRow(n, row)
  /\ Send(c, RouteChanged(n))
  /\ UNCHANGED <<built, live, edgeVars, faults>>

(* The instances of older releases go, whatever the edge still sends them. *)
StopsOld(n) ==
  /\ \E r \in live[n] : r < db[n].release
  /\ live' = [live EXCEPT ![n] = {r \in @ : r >= db[n].release}]
  /\ UNCHANGED <<db, built, linkVars, edgeVars, faults>>

(* deleteDeployment, after the containers were removed.                    *)
Deletes(c, n) ==
  /\ CanSend(c) /\ db[n] # NoRow
  /\ db' = [db EXCEPT ![n] = NoRow]
  /\ live' = [live EXCEPT ![n] = {}]
  /\ Send(c, RouteChanged(n))
  /\ UNCHANGED <<built, edgeVars, faults>>

(* The dashboard's purge, or a row written with nothing the edge reads.    *)
Notifies(c, n) ==
  /\ CanSend(c) /\ db[n] # NoRow
  /\ \E m \in {CachePurge(n), RouteChanged(n)} : Send(c, m)
  /\ UNCHANGED <<controlVars, edgeVars, faults>>

(* The control process ends and is started again: its queues are gone,     *)
(* what it wrote can still be read, and only Eager dials by itself.        *)
Restarted ==
  /\ faults < MaxFaults
  /\ faults' = faults + 1
  /\ link' = [c \in Clients |-> IF c = Eager THEN "down" ELSE "undialled"]
  /\ pending' = [c \in Clients |-> <<>>]
  /\ UNCHANGED wire

ControlCrashes == Restarted /\ UNCHANGED <<controlVars, edgeVars>>

(* The same between the write of a row and its hint.                       *)
ControlCrashesAtPublish(n) ==
  /\ \E row \in Row : PublishesRow(n, row)
  /\ Restarted
  /\ UNCHANGED <<built, live, edgeVars>>

-----------------------------------------------------------------------------
(* The edge process.                                                       *)

(* purgeDeploymentCache of the applications in ns.                         *)
Purges(ns) ==
  /\ cache' = [n \in Names |-> IF n \in ns THEN NoResponse ELSE cache[n]]
  /\ request' = [q \in Requests |->
       IF request[q].at # "idle" /\ request[q].name \in ns
         THEN [request[q] EXCEPT !.overtaken = TRUE] ELSE request[q]]

(* The published endpoints loadPublishedGraphEndpoints finds for service s. *)
Endpoints(row, s) == IF row.service = s THEN {row.release} ELSE {}

(* Variants: routes refreshed without purging, and a pool to which the new *)
(* service is added without emptying the one before.                       *)
RereadsUnpurged(ns) ==
  /\ table' = [n \in Names |-> IF n \in ns THEN db[n] ELSE table[n]]
  /\ pool' = [n \in Names |->
       IF n \in ns THEN [s \in Services |-> Endpoints(db[n], s)] ELSE pool[n]]
  /\ served' = [n \in Names |-> IF n \in ns THEN db[n].extra ELSE served[n]]
  /\ announced' = {n \in Names : IF n \in ns THEN db[n] # NoRow ELSE n \in announced}
  /\ Purges({n \in ns : db[n] = NoRow})

RereadsKeepingPool(ns) ==
  /\ table' = [n \in Names |-> IF n \in ns THEN db[n] ELSE table[n]]
  /\ pool' = [n \in Names |->
       IF n \in ns
         THEN [s \in Services |->
                 IF s = db[n].service THEN Endpoints(db[n], s) ELSE pool[n][s]]
         ELSE pool[n]]
  /\ served' = [n \in Names |-> IF n \in ns THEN db[n].extra ELSE served[n]]
  /\ announced' = {n \in Names : IF n \in ns THEN db[n] # NoRow ELSE n \in announced}
  /\ Purges(ns)

(* RouteTable.apply and remove of the rows of ns: purge what was routed,   *)
(* empty the service a route no longer has, and restart the TCP proxies if *)
(* they changed.                                                           *)
Rereads(ns) ==
  /\ table' = [n \in Names |-> IF n \in ns THEN db[n] ELSE table[n]]
  /\ pool' = [n \in Names |->
       IF n \in ns
         THEN [s \in Services |->
                 IF s \in {table[n].service, db[n].service}
                   THEN Endpoints(db[n], s) ELSE pool[n][s]]
         ELSE pool[n]]
  /\ served' = [n \in Names |->
       IF n \in ns /\ (db[n] = NoRow \/ table[n] = NoRow \/ db[n].extra # table[n].extra)
         THEN db[n].extra ELSE served[n]]
  /\ announced' = {n \in Names : IF n \in ns THEN db[n] # NoRow ELSE n \in announced}
  /\ Purges({n \in ns : table[n] # NoRow \/ db[n] = NoRow})

(* The handlers of the IPC server: reloadAll on a hello, reconcile on      *)
(* route:changed, a purge on cache:purge.                                  *)
Handles(m) ==
  CASE m.t = "hello" -> Rereads(Names)
    [] m.t = "route:changed" -> Rereads({m.name})
    [] m.t = "cache:purge" -> Purges({m.name}) /\ UNCHANGED routeVars

Receives(c) ==
  /\ edgeUp /\ wire[c] # <<>>
  /\ Handles(Head(wire[c]))
  /\ wire' = [wire EXCEPT ![c] = Tail(@)]
  /\ UNCHANGED <<controlVars, edgeUp, link, pending, faults>>

(* The process ends: its memory, its sockets and what was unread are gone. *)
EdgeCrashes ==
  /\ edgeUp /\ faults < MaxFaults
  /\ faults' = faults + 1
  /\ edgeUp' = FALSE
  /\ table' = [n \in Names |-> NoRow]
  /\ pool' = [n \in Names |-> [s \in Services |-> {}]]
  /\ served' = [n \in Names |-> FALSE] /\ announced' = {}
  /\ cache' = [n \in Names |-> NoResponse]
  /\ request' = [q \in Requests |-> Idle]
  /\ link' = [c \in Clients |-> IF link[c] = "up" THEN "dead" ELSE link[c]]
  /\ wire' = [c \in Clients |-> <<>>]
  /\ UNCHANGED <<controlVars, pending>>

(* The supervisor starts it again; it listens and reads all rows in one    *)
(* turn.                                                                   *)
EdgeBoots ==
  /\ ~edgeUp /\ edgeUp' = TRUE
  /\ Rereads(Names)
  /\ UNCHANGED <<controlVars, linkVars, faults>>

-----------------------------------------------------------------------------
(* Requests.  One that finds the response cached, no route or no ready     *)
(* endpoint is answered at once and changes nothing.                       *)

(* proxyToApp takes a backend: an endpoint of the service the captured     *)
(* route names, or the port, which has no release of its own.              *)
Leases(q, n, route, overtaken, tries) ==
  /\ cache[n] = NoResponse
  /\ \E r \in IF route.service = NoService THEN {0} ELSE pool[n][route.service] :
       request' = [request EXCEPT ![q] =
         [at |-> "leased", name |-> n, route |-> route, from |-> r,
          overtaken |-> overtaken, tries |-> tries]]

Arrives(q, n) ==
  /\ edgeUp /\ request[q].at = "idle" /\ table[n] # NoRow
  /\ Leases(q, n, table[n], FALSE, 0)
  /\ UNCHANGED <<controlVars, linkVars, routeVars, cache, edgeUp, faults>>

(* Who answers at the endpoint or at the port, if anybody.                 *)
Answering(q) ==
  LET up == live[request[q].name] IN
    IF request[q].from # 0 THEN {request[q].from} \cap up
    ELSE {r \in up : \A s \in up : s <= r}

Answers(q) ==
  /\ request[q].at = "leased"
  /\ \E r \in Answering(q) :
       request' = [request EXCEPT ![q].at = "answering", ![q].from = r]
  /\ UNCHANGED <<controlVars, linkVars, routeVars, cache, edgeUp, faults>>

(* The backend's 'error' event, also of a stale keep-alive socket.         *)
Fails(q) ==
  /\ request[q].at = "leased"
  /\ LET it == request[q] IN
       request' = [request EXCEPT ![q] =
         IF it.tries < MaxRetries
           THEN [it EXCEPT !.at = "retrying", !.from = 0, !.tries = it.tries + 1]
           ELSE Idle]
  /\ UNCHANGED <<controlVars, linkVars, routeVars, cache, edgeUp, faults>>

(* The retry calls proxyToApp with the route captured at first; it may be  *)
(* answered from the cache, or with the starting page.                     *)
Retries(q) ==
  /\ request[q].at = "retrying"
  /\ LET it == request[q] IN
       \/ Leases(q, it.name, it.route, it.overtaken, it.tries)
       \/ /\ \/ cache[it.name] # NoResponse
             \/ it.route.service # NoService /\ pool[it.name][it.route.service] = {}
          /\ request' = [request EXCEPT ![q] = Idle]
  /\ UNCHANGED <<controlVars, linkVars, routeVars, cache, edgeUp, faults>>

(* 'end' of a cacheable response stores it, whatever happened since.       *)
Stores(q) ==
  /\ request[q].at = "answering"
  /\ cache' = [cache EXCEPT ![request[q].name] =
       [release |-> request[q].from, overtaken |-> request[q].overtaken]]
  /\ request' = [request EXCEPT ![q] = Idle]
  /\ UNCHANGED <<controlVars, linkVars, routeVars, edgeUp, faults>>

(* A response that is not cacheable, too large, or abandoned.              *)
Ends(q) ==
  /\ request[q].at = "answering"
  /\ request' = [request EXCEPT ![q] = Idle]
  /\ UNCHANGED <<controlVars, linkVars, routeVars, cache, edgeUp, faults>>

(* TTL, or MAX_ENTRIES of other responses since.                           *)
Expires(n) ==
  /\ cache[n] # NoResponse
  /\ cache' = [cache EXCEPT ![n] = NoResponse]
  /\ UNCHANGED <<controlVars, linkVars, routeVars, edgeUp, request, faults>>

-----------------------------------------------------------------------------
Next ==
  \/ \E c \in Clients :
       \/ Connects(c) \/ NoticesClose(c) \/ Receives(c)
       \/ \E n \in Names : Publishes(c, n) \/ Deletes(c, n) \/ Notifies(c, n)
  \/ \E n \in Names :
       StartsRelease(n) \/ StopsOld(n) \/ ControlCrashesAtPublish(n) \/ Expires(n)
  \/ ControlCrashes \/ EdgeCrashes \/ EdgeBoots
  \/ \E q \in Requests :
       \/ \E n \in Names : Arrives(q, n)
       \/ Answers(q) \/ Fails(q) \/ Retries(q) \/ Stores(q) \/ Ends(q)

EdgeSpec == Init /\ [][Next]_edgeRoutingVars

(* The supervisor restarts the edge, clients redial every second and       *)
(* sockets deliver.  Nothing is asked of requests, deploys or expiry.      *)
FairEdgeSpec ==
  EdgeSpec /\ WF_edgeRoutingVars(EdgeBoots)
    /\ \A c \in Clients :
         /\ WF_edgeRoutingVars(Connects(c))
         /\ WF_edgeRoutingVars(NoticesClose(c))
         /\ WF_edgeRoutingVars(Receives(c))

-----------------------------------------------------------------------------
(* A message that will make the edge read n's row is in some connection,   *)
(* or a client will connect and say hello.                                 *)
WillReread(n) ==
  \E c \in Clients :
    \/ link[c] \in {"down", "dead"}
    \/ \E i \in DOMAIN wire[c] : wire[c][i] \in {Hello, RouteChanged(n)}

(* A route that differs from its row is about to be read again: no hint    *)
(* that gets lost, in a dead socket, in a full queue or with the control   *)
(* process, leaves the edge behind for good (ipc.ts, routes.ts:72-107).    *)
StaleRouteIsNoticed ==
  edgeUp => \A n \in Names : table[n] # db[n] => WillReread(n)

(* The endpoint pool, the TCP proxies and the announced hosts are those of *)
(* the routes: no request reaches an endpoint of a service that an         *)
(* application gave up, and no removed application keeps a listener        *)
(* (routes.ts:109-184).                                                    *)
RouteOwnsItsEffects ==
  edgeUp =>
    /\ announced = {n \in Names : table[n] # NoRow}
    /\ \A n \in Names :
         /\ served[n] = table[n].extra
         /\ \A s \in Services : pool[n][s] = Endpoints(table[n], s)

(* The edge is of one piece: whatever was read in which order, all that it *)
(* keeps belongs to the routes it has, within the caps of its queues.      *)
RoutesSound == EdgeTypeOK /\ RouteOwnsItsEffects

(* A cached response of an older release than the row's is on its way out, *)
(* unless a purge overtook its fetch (routes.ts:112-119).                  *)
OldResponseIsPurged ==
  \A n \in Names :
    edgeUp /\ cache[n] # NoResponse /\ ~cache[n].overtaken /\ db[n] # NoRow
      => cache[n].release >= db[n].release \/ WillReread(n)

(* Whatever was lost, the edge ends up routing what the rows say.          *)
RoutesConverge ==
  \A n \in Names : <>[](edgeUp /\ table[n] = db[n])
=============================================================================
