------------------------ MODULE EdgeAndCoreProofs ------------------------
(***************************************************************************)
(* The safety of the two processes that run beside Control, each for every *)
(* value of its own constants: the edge, which answers requests by the     *)
(* routes it was told of, and the core container of a suitcase, which      *)
(* keeps the membership file and its lock.  The two specifications share   *)
(* nothing; only their proofs sit together.                                *)
(***************************************************************************)
EXTENDS EdgeRouting, SuitcaseCore, SequenceTheorems, WellFoundedInduction, TLAPS

-----------------------------------------------------------------------------
(* The edge's routes.  The argument has three parts: what the edge keeps   *)
(* belongs to its routes; a route that differs from its row is about to be *)
(* read again, since a hint that is dropped leaves a client that still has *)
(* to connect; and so whatever a request fetched from an older release is  *)
(* purged when the row is read.                                            *)

RowOrNone == Row \cup {NoRow}

RequestState ==
  [at : {"idle", "leased", "answering", "retrying"}, name : Names,
   route : RowOrNone, from : 0..MaxRelease, overtaken : BOOLEAN,
   tries : 0..MaxRetries]

(* The state's type, by the part of the system that keeps it. *)
ControlTypes ==
  /\ db \in [Names -> RowOrNone] /\ built \in [Names -> 0..MaxRelease]
  /\ live \in [Names -> SUBSET (1..MaxRelease)]

LinkTypes ==
  /\ link \in [Clients -> {"undialled", "down", "up", "dead"}]
  /\ pending \in [Clients -> Seq(Messages)] /\ wire \in [Clients -> Seq(Messages)]
  /\ \A c \in Clients : Len(pending[c]) <= PendingCap

RouteTypes ==
  /\ table \in [Names -> RowOrNone]
  /\ pool \in [Names -> [Services -> SUBSET (1..MaxRelease)]]
  /\ served \in [Names -> BOOLEAN] /\ announced \subseteq Names

TrafficTypes ==
  /\ cache \in [Names -> Response \cup {NoResponse}]
  /\ request \in [Requests -> RequestState]

TypesByPart ==
  /\ ControlTypes /\ LinkTypes /\ RouteTypes /\ TrafficTypes
  /\ edgeUp \in BOOLEAN /\ faults \in 0..MaxFaults

LEMMA TypeParts == (EdgeTypeOK <=> TypesByPart) /\ (EdgeTypeOK' <=> TypesByPart')
BY DEF TypesByPart, EdgeTypeOK, ControlTypes, LinkTypes, RouteTypes, TrafficTypes, RowOrNone,
       RequestState

(* A row names a service of the application or none. *)
LEMMA RowFields ==
  ASSUME NEW r \in RowOrNone
  PROVE  /\ r.service \in Services \cup {NoService} /\ r.extra \in BOOLEAN
         /\ r.release \in 0..MaxRelease
         /\ r # NoRow => r.release \in 1..MaxRelease
         /\ \A s \in Services : Endpoints(r, s) \subseteq 1..MaxRelease
<1>1. CASE r = NoRow
  BY <1>1, BoundAssumption, ServiceAssumption DEF NoRow, Endpoints
<1>2. CASE r \in Row
  BY <1>2, BoundAssumption DEF Row, Service, Endpoints
<1> QED BY <1>1, <1>2 DEF RowOrNone

LEMMA IdleFields == Idle \in RequestState /\ Idle.at = "idle"
BY NamesAssumption, BoundAssumption DEF Idle, RequestState, RowOrNone

LEMMA TypesInit == Init => EdgeTypeOK
<1> SUFFICES ASSUME Init PROVE EdgeTypeOK
  OBVIOUS
<1>1. ControlTypes
  BY BoundAssumption DEF Init, ControlTypes, RowOrNone
<1>2. LinkTypes
  BY BoundAssumption DEF Init, LinkTypes
<1>3. RouteTypes
  BY DEF Init, RouteTypes, RowOrNone
<1>4. TrafficTypes
  BY IdleFields DEF Init, TrafficTypes
<1> QED BY <1>1, <1>2, <1>3, <1>4, TypeParts, BoundAssumption DEF Init, TypesByPart

-----------------------------------------------------------------------------
(* The link.  Whatever a client sends is written, queued or dropped.       *)
LEMMA SendTypes ==
  ASSUME LinkTypes, NEW c \in Clients, NEW m \in Messages, Send(c, m)
  PROVE  LinkTypes'
<1> HIDE DEF Messages
<1>a. pending[c] \in Seq(Messages) /\ wire[c] \in Seq(Messages)
  BY DEF LinkTypes
<1>b. /\ Append(pending[c], m) \in Seq(Messages) /\ Append(wire[c], m) \in Seq(Messages)
      /\ Len(Append(pending[c], m)) = Len(pending[c]) + 1 /\ Len(pending[c]) \in Nat
  BY <1>a
<1>1. link' \in [Clients -> {"undialled", "down", "up", "dead"}]
  BY DEF Send, LinkTypes
<1>2. CASE link[c] \in {"up", "dead"}
  BY <1>1, <1>2, <1>b DEF Send, LinkTypes
<1>3. CASE link[c] \notin {"up", "dead"} /\ Len(pending[c]) < PendingCap
  <2>1. pending' = [pending EXCEPT ![c] = Append(@, m)] /\ wire' = wire
    BY <1>3 DEF Send
  <2> QED BY <1>1, <1>3, <2>1, <1>b, BoundAssumption DEF LinkTypes
<1>4. CASE link[c] \notin {"up", "dead"} /\ ~ (Len(pending[c]) < PendingCap)
  BY <1>1, <1>4 DEF Send, LinkTypes
<1> QED BY <1>2, <1>3, <1>4

(* No message that was going to be read, and no connection that was going  *)
(* to be made, is lost by sending another; and what is sent to make the    *)
(* edge read n is on its way, or the client that dropped it will connect.  *)
LEMMA SendReaches ==
  ASSUME LinkTypes, NEW c \in Clients, NEW m \in Messages, Send(c, m), NEW n \in Names
  PROVE  /\ WillReread(n) => WillReread(n)'
         /\ m = RouteChanged(n) => WillReread(n)'
<1> HIDE DEF Messages
<1>a. \A o \in Clients : wire[o] \in Seq(Messages)
  BY DEF LinkTypes
<1>1. /\ link[c] \in {"undialled", "down", "dead"} => link'[c] \in {"down", "dead"}
      /\ \A o \in Clients : link[o] \in {"down", "dead"} => link'[o] \in {"down", "dead"}
  BY DEF Send, LinkTypes
<1>2. CASE link[c] = "up"
  <2>1. wire' = [wire EXCEPT ![c] = Append(@, m)]
    BY <1>2 DEF Send
  <2>2. /\ DOMAIN wire'[c] = 1..Len(wire[c]) + 1 /\ Len(wire[c]) \in Nat
        /\ \A i \in DOMAIN wire[c] : i \in DOMAIN wire'[c] /\ wire'[c][i] = wire[c][i]
        /\ wire'[c][Len(wire[c]) + 1] = m
    BY <2>1, <1>a DEF LinkTypes
  <2>3. \A o \in Clients \ {c} : wire'[o] = wire[o]
    BY <2>1 DEF LinkTypes
  <2>4. WillReread(n) => WillReread(n)'
    BY <1>1, <2>2, <2>3 DEF WillReread
  <2>5. m = RouteChanged(n) => WillReread(n)'
    <3>1. Len(wire[c]) + 1 \in DOMAIN wire'[c]
      BY <2>2
    <3> QED BY <2>2, <3>1 DEF WillReread
  <2> QED BY <2>4, <2>5
<1>3. CASE link[c] # "up"
  <2>1. wire' = wire
    BY <1>3 DEF Send
  <2>2. link'[c] \in {"down", "dead"}
    BY <1>3, <1>1 DEF LinkTypes
  <2> QED BY <2>1, <2>2, <1>1 DEF WillReread
<1> QED BY <1>2, <1>3

(* An element put between two sequences is where the first one ends. *)
Between(s, h, t) == s \o <<h>> \o t

LEMMA BetweenSequences ==
  ASSUME NEW S, NEW h \in S, NEW s \in Seq(S), NEW t \in Seq(S)
  PROVE  /\ Between(s, h, t) \in Seq(S) /\ Len(s) + 1 \in DOMAIN Between(s, h, t)
         /\ Between(s, h, t)[Len(s) + 1] = h
<1> DEFINE u == s \o <<h>>
<1>1. u \in Seq(S) /\ Len(u) = Len(s) + 1 /\ u[Len(s) + 1] = h
        /\ Len(s) \in Nat /\ Len(t) \in Nat
  OBVIOUS
<1> HIDE DEF u
<1>2. /\ u \o t \in Seq(S) /\ Len(u \o t) = Len(u) + Len(t)
      /\ \A i \in 1..Len(u) : (u \o t)[i] = u[i]
  BY <1>1
<1>3. Len(s) + 1 \in 1..Len(u) /\ Len(s) + 1 \in 1..Len(u \o t)
  BY <1>1, <1>2
<1>4. DOMAIN (u \o t) = 1..Len(u \o t)
  BY <1>2
<1>5. Between(s, h, t) = u \o t
  BY DEF u, Between
<1> QED BY <1>1, <1>2, <1>3, <1>4, <1>5

(* A connection starts with the hello; a client that notices its dead      *)
(* socket dials again.                                                     *)
LEMMA ConnectStep ==
  ASSUME LinkTypes, NEW c \in Clients, Connects(c)
  PROVE  LinkTypes' /\ \A n \in Names : WillReread(n)'
<1> HIDE DEF Messages
<1>a. pending[c] \in Seq(Messages) /\ wire[c] \in Seq(Messages) /\ Hello \in Messages
  BY DEF LinkTypes, Messages
<1> DEFINE w == wire[c] \o <<Hello>> \o pending[c]
           k == Len(wire[c]) + 1
<1>1. w \in Seq(Messages) /\ k \in DOMAIN w /\ w[k] = Hello
  <2>1. w = Between(wire[c], Hello, pending[c])
    BY DEF Between
  <2> HIDE DEF w
  <2> QED BY <1>a, <2>1, BetweenSequences
<1>2. wire' = [wire EXCEPT ![c] = w] /\ link' = [link EXCEPT ![c] = "up"]
        /\ pending' = [pending EXCEPT ![c] = <<>>]
  BY DEF Connects, LinkTypes
<1> HIDE DEF w, k
<1>3. LinkTypes'
  BY <1>1, <1>2, BoundAssumption DEF LinkTypes
<1>4. wire'[c] = w
  BY <1>2 DEF LinkTypes
<1> QED BY <1>1, <1>3, <1>4 DEF WillReread

LEMMA NoticeStep ==
  ASSUME LinkTypes, NEW c \in Clients, NoticesClose(c)
  PROVE  LinkTypes' /\ \A n \in Names : WillReread(n)'
BY DEF NoticesClose, LinkTypes, WillReread

(* When the control process starts again, Eager dials. *)
LEMMA RestartStep ==
  ASSUME LinkTypes, faults \in 0..MaxFaults, Restarted
  PROVE  /\ LinkTypes' /\ faults' \in 0..MaxFaults
         /\ \A n \in Names : WillReread(n)'
BY EagerAssumption, BoundAssumption DEF Restarted, LinkTypes, WillReread

-----------------------------------------------------------------------------
(* What the edge keeps beside a route is what the route says, also while   *)
(* it is down and keeps nothing.                                           *)
RoutesOwned ==
  /\ announced = {n \in Names : table[n] # NoRow}
  /\ \A n \in Names :
       /\ served[n] = table[n].extra
       /\ \A s \in Services : pool[n][s] = Endpoints(table[n], s)

(* Reading the rows of ns again leaves those routes as the rows are and    *)
(* their effects with them.                                                *)
LEMMA RereadsRoutes ==
  ASSUME ControlTypes, RouteTypes, RoutesOwned, NEW ns \in SUBSET Names, Rereads(ns)
  PROVE  /\ RouteTypes' /\ RoutesOwned'
         /\ \A n \in Names : table'[n] = IF n \in ns THEN db[n] ELSE table[n]
<1>a. \A n \in Names : db[n] \in RowOrNone /\ table[n] \in RowOrNone
  BY DEF ControlTypes, RouteTypes
<1>1. \A n \in Names : table'[n] = IF n \in ns THEN db[n] ELSE table[n]
  BY DEF Rereads
<1>2. \A n \in Names : served'[n] = table'[n].extra
  <2>1. \A n \in Names : served[n] = table[n].extra
    BY DEF RoutesOwned
  <2>2. NoRow.extra = FALSE
    BY DEF NoRow
  <2> QED BY <1>1, <2>1, <2>2 DEF Rereads
<1>3. \A n \in Names : \A s \in Services : pool'[n][s] = Endpoints(table'[n], s)
  <2> SUFFICES ASSUME NEW n \in Names, NEW s \in Services
               PROVE  pool'[n][s] = Endpoints(table'[n], s)
    OBVIOUS
  <2>1. pool[n][s] = Endpoints(table[n], s)
    BY DEF RoutesOwned
  <2>2. CASE n \notin ns
    BY <1>1, <2>1, <2>2 DEF Rereads
  <2>3. CASE n \in ns /\ s \in {table[n].service, db[n].service}
    BY <1>1, <2>3 DEF Rereads
  <2>4. CASE n \in ns /\ s \notin {table[n].service, db[n].service}
    <3>1. pool'[n][s] = pool[n][s]
      BY <2>4 DEF Rereads
    <3> QED BY <1>1, <2>1, <2>4, <3>1 DEF Endpoints
  <2> QED BY <2>2, <2>3, <2>4
<1>4. announced' = {n \in Names : table'[n] # NoRow}
  BY <1>1 DEF Rereads, RoutesOwned
<1>5. RouteTypes'
  <2>1. table' \in [Names -> RowOrNone] /\ announced' \subseteq Names
    BY <1>a, <1>4 DEF Rereads
  <2>2. served' \in [Names -> BOOLEAN]
    BY <1>a, RowFields DEF Rereads, RouteTypes
  <2>3. \A n \in Names : \A s \in Services :
          Endpoints(db[n], s) \in SUBSET (1..MaxRelease)
    BY <1>a, RowFields
  <2>4. pool' \in [Names -> [Services -> SUBSET (1..MaxRelease)]]
    <3> DEFINE P(n) == IF n \in ns
                         THEN [s \in Services |->
                                 IF s \in {table[n].service, db[n].service}
                                   THEN Endpoints(db[n], s) ELSE pool[n][s]]
                         ELSE pool[n]
    <3>1. \A n \in Names : P(n) \in [Services -> SUBSET (1..MaxRelease)]
      BY <2>3 DEF RouteTypes
    <3>2. pool' = [n \in Names |-> P(n)]
      BY DEF Rereads
    <3> HIDE DEF P
    <3> QED BY <3>1, <3>2
  <2> QED BY <2>1, <2>2, <2>4 DEF RouteTypes
<1> QED BY <1>1, <1>2, <1>3, <1>4, <1>5 DEF RoutesOwned

(* A purge forgets responses and marks the requests it overtakes. *)
LEMMA PurgesTraffic ==
  ASSUME TrafficTypes, NEW ns \in SUBSET Names, Purges(ns)
  PROVE  /\ TrafficTypes'
         /\ \A n \in Names : cache'[n] = IF n \in ns THEN NoResponse ELSE cache[n]
         /\ \A q \in Requests :
              /\ request'[q].at = request[q].at /\ request'[q].name = request[q].name
              /\ request'[q].from = request[q].from
              /\ request[q].overtaken => request'[q].overtaken
              /\ request[q].at # "idle" /\ request[q].name \in ns =>
                   request'[q].overtaken
<1>1. cache' \in [Names -> Response \cup {NoResponse}]
        /\ \A n \in Names : cache'[n] = IF n \in ns THEN NoResponse ELSE cache[n]
  BY DEF Purges, TrafficTypes
<1>2. ASSUME NEW q \in Requests
      PROVE  /\ request'[q] \in RequestState
             /\ request'[q].at = request[q].at /\ request'[q].name = request[q].name
             /\ request'[q].from = request[q].from
             /\ request[q].overtaken => request'[q].overtaken
             /\ request[q].at # "idle" /\ request[q].name \in ns =>
                  request'[q].overtaken
  <2>1. request[q] \in RequestState
    BY DEF TrafficTypes
  <2>2. \/ request'[q] = request[q]
             /\ ~ (request[q].at # "idle" /\ request[q].name \in ns)
        \/ request'[q] = [request[q] EXCEPT !.overtaken = TRUE]
    BY DEF Purges
  <2> QED BY <2>1, <2>2 DEF RequestState
<1>3. request' \in [Requests -> RequestState]
  <2>1. request' = [q \in Requests |-> request'[q]]
    BY DEF Purges
  <2> QED BY <1>2, <2>1
<1> QED BY <1>1, <1>2, <1>3 DEF TrafficTypes

(* Every message makes the edge read rows again, or purge, in one of these *)
(* two ways.                                                               *)
LEMMA HandlesKinds ==
  ASSUME NEW m \in Messages, Handles(m)
  PROVE  \/ \E ns \in SUBSET Names :
              /\ Rereads(ns)
              /\ \A n \in Names : m \in {Hello, RouteChanged(n)} => n \in ns
         \/ /\ \E ns \in SUBSET Names : Purges(ns) /\ UNCHANGED routeVars
            /\ \A n \in Names : m \notin {Hello, RouteChanged(n)}
<1>1. CASE m = Hello
  <2>1. Rereads(Names)
    BY <1>1 DEF Handles, Hello
  <2> QED BY <2>1
<1>2. CASE \E n \in Names : m = RouteChanged(n)
  <2>1. PICK n \in Names : m = RouteChanged(n)
    BY <1>2
  <2>2. Rereads({n})
    BY <2>1 DEF Handles, RouteChanged
  <2>3. \A o \in Names : m \in {Hello, RouteChanged(o)} => o \in {n}
    BY <2>1 DEF Hello, RouteChanged
  <2> QED BY <2>2, <2>3
<1>3. CASE \E n \in Names : m = CachePurge(n)
  <2>1. PICK n \in Names : m = CachePurge(n)
    BY <1>3
  <2>2. Purges({n}) /\ UNCHANGED routeVars
    BY <2>1 DEF Handles, CachePurge
  <2>3. \A o \in Names : m \notin {Hello, RouteChanged(o)}
    BY <2>1 DEF Hello, RouteChanged, CachePurge
  <2> QED BY <2>2, <2>3
<1> QED BY <1>1, <1>2, <1>3 DEF Messages

(* Reading a message takes it from its wire and nothing else: what makes   *)
(* the edge read n again stays on its way, or was this message.            *)
LEMMA ReceiveStep ==
  ASSUME LinkTypes, NEW c \in Clients, Receives(c)
  PROVE  /\ LinkTypes' /\ Head(wire[c]) \in Messages
         /\ \A n \in Names :
              WillReread(n) => WillReread(n)' \/ Head(wire[c]) \in {Hello, RouteChanged(n)}
<1> HIDE DEF Messages
<1>1. /\ wire[c] \in Seq(Messages) /\ wire[c] # <<>>
      /\ wire' = [wire EXCEPT ![c] = Tail(@)] /\ link' = link /\ pending' = pending
  BY DEF Receives, LinkTypes
<1>2. /\ Head(wire[c]) \in Messages /\ Tail(wire[c]) \in Seq(Messages)
      /\ Len(wire[c]) \in Nat /\ Len(Tail(wire[c])) = Len(wire[c]) - 1
      /\ \A i \in 1..Len(Tail(wire[c])) : Tail(wire[c])[i] = wire[c][i + 1]
      /\ Head(wire[c]) = wire[c][1]
  BY <1>1
<1>3. LinkTypes'
  BY <1>1, <1>2 DEF LinkTypes
<1>4. ASSUME NEW n \in Names, WillReread(n)
      PROVE  WillReread(n)' \/ Head(wire[c]) \in {Hello, RouteChanged(n)}
  <2>1. PICK o \in Clients :
          \/ link[o] \in {"down", "dead"}
          \/ \E i \in DOMAIN wire[o] : wire[o][i] \in {Hello, RouteChanged(n)}
    BY <1>4 DEF WillReread
  <2>2. CASE o # c \/ link[o] \in {"down", "dead"}
    <3>1. o # c => wire'[o] = wire[o]
      BY <1>1
    <3> QED BY <1>1, <2>1, <2>2, <3>1 DEF WillReread
  <2>3. CASE o = c /\ link[o] \notin {"down", "dead"}
    <3>1. PICK i \in DOMAIN wire[c] : wire[c][i] \in {Hello, RouteChanged(n)}
      BY <2>1, <2>3
    <3>2. i \in 1..Len(wire[c])
      BY <1>1, <3>1
    <3>3. CASE i = 1
      BY <1>2, <3>1, <3>3
    <3>4. CASE i # 1
      <4>1. i - 1 \in 1..Len(Tail(wire[c])) /\ (i - 1) + 1 = i
        BY <1>2, <3>2, <3>4
      <4>2. wire'[c] = Tail(wire[c])
        BY <1>1 DEF LinkTypes
      <4>3. i - 1 \in DOMAIN wire'[c] /\ wire'[c][i - 1] = wire[c][i]
        BY <1>2, <4>1, <4>2
      <4> QED BY <3>1, <4>3 DEF WillReread
    <3> QED BY <3>3, <3>4
  <2> QED BY <2>2, <2>3
<1> QED BY <1>2, <1>3, <1>4

-----------------------------------------------------------------------------
(* The invariant.  An edge that is down keeps nothing.                     *)
DownIsBlank ==
  ~ edgeUp =>
    /\ \A n \in Names : table[n] = NoRow /\ cache[n] = NoResponse
    /\ \A q \in Requests : request[q].at = "idle"

(* The newest release of an application that has a row answers: a deploy   *)
(* publishes what it started, and what it starts it publishes later.       *)
NewestAnswers ==
  \A n \in Names :
    db[n] # NoRow => built[n] \in live[n] /\ db[n].release <= built[n]

(* What is kept of an application without a route was overtaken.           *)
RemovedIsOvertaken ==
  \A n \in Names : table[n] = NoRow =>
    /\ cache[n] # NoResponse => cache[n].overtaken
    /\ \A q \in Requests :
         request[q].at # "idle" /\ request[q].name = n => request[q].overtaken

(* A request that no purge overtook is answered by the row's release or a  *)
(* newer one, or the purge is on its way.                                  *)
RequestsFresh ==
  \A q \in Requests :
    /\ request[q].at = "answering" => request[q].from # 0
    /\ /\ edgeUp /\ request[q].at \in {"leased", "answering"} /\ request[q].from # 0
       /\ ~ request[q].overtaken /\ db[request[q].name] # NoRow
       => \/ request[q].from >= db[request[q].name].release
          \/ WillReread(request[q].name)

TrafficInv ==
  /\ DownIsBlank /\ RemovedIsOvertaken
  /\ StaleRouteIsNoticed /\ RequestsFresh /\ OldResponseIsPurged

EdgeInv == EdgeTypeOK /\ RoutesOwned /\ NewestAnswers /\ TrafficInv

LEMMA EdgeInvInit == Init => EdgeInv
<1> SUFFICES ASSUME Init PROVE EdgeInv
  OBVIOUS
<1>1. EdgeTypeOK
  BY TypesInit
<1>2. RoutesOwned
  <2>1. \A s \in Services : Endpoints(NoRow, s) = {}
    BY ServiceAssumption DEF Endpoints, NoRow
  <2>2. /\ \A n \in Names : table[n] = NoRow /\ served[n] = table[n].extra
        /\ announced = {}
    BY DEF Init, NoRow
  <2>3. \A n \in Names : \A s \in Services : pool[n][s] = {}
    BY DEF Init
  <2> QED BY <2>1, <2>2, <2>3 DEF RoutesOwned
<1>3. NewestAnswers /\ TrafficInv
  BY IdleFields
     DEF Init, NewestAnswers, TrafficInv, DownIsBlank, RemovedIsOvertaken,
         StaleRouteIsNoticed, RequestsFresh, OldResponseIsPurged
<1> QED BY <1>1, <1>2, <1>3 DEF EdgeInv

(* A step outside the edge keeps the traffic's invariant when the edge     *)
(* will read again the rows it writes.                                     *)
LEMMA OutsideStep ==
  ASSUME TrafficTypes, TrafficInv, UNCHANGED <<table, cache, edgeUp, request>>,
         \A n \in Names : \/ db'[n] = db[n] /\ (WillReread(n) => WillReread(n)')
                          \/ WillReread(n)'
  PROVE  TrafficInv'
<1>1. DownIsBlank' /\ RemovedIsOvertaken'
  BY DEF TrafficInv, DownIsBlank, RemovedIsOvertaken
<1>2. StaleRouteIsNoticed'
  BY DEF TrafficInv, StaleRouteIsNoticed
<1>3. RequestsFresh'
  <2> SUFFICES ASSUME NEW q \in Requests
               PROVE  /\ request'[q].at = "answering" => request'[q].from # 0
                      /\ /\ edgeUp' /\ request'[q].at \in {"leased", "answering"}
                         /\ request'[q].from # 0
                         /\ ~ request'[q].overtaken /\ db'[request'[q].name] # NoRow
                         => \/ request'[q].from >= db'[request'[q].name].release
                            \/ WillReread(request[q].name)'
    BY DEF RequestsFresh
  <2>1. request[q].name \in Names
    BY DEF TrafficTypes, RequestState
  <2> QED BY <2>1 DEF TrafficInv, RequestsFresh
<1>4. OldResponseIsPurged'
  BY DEF TrafficInv, OldResponseIsPurged
<1> QED BY <1>1, <1>2, <1>3, <1>4 DEF TrafficInv

(* The edge's own reading keeps it, since what it reads again it purges.   *)
LEMMA RereadStep ==
  ASSUME EdgeTypeOK, TrafficInv, NEW ns \in SUBSET Names, Rereads(ns), edgeUp',
         UNCHANGED db, edgeUp \/ ns = Names,
         \A n \in Names : WillReread(n) => WillReread(n)' \/ n \in ns
  PROVE  TrafficInv'
<1>a. /\ TrafficTypes /\ ControlTypes
      /\ \A n \in Names : table'[n] = IF n \in ns THEN db[n] ELSE table[n]
      /\ \A q \in Requests : request[q].name \in Names
  BY TypeParts DEF TypesByPart, Rereads, TrafficTypes, RequestState
<1> DEFINE ps == {n \in ns : table[n] # NoRow \/ db[n] = NoRow}
<1>b. /\ \A n \in Names : cache'[n] = IF n \in ps THEN NoResponse ELSE cache[n]
      /\ \A q \in Requests :
           /\ request'[q].at = request[q].at /\ request'[q].name = request[q].name
           /\ request'[q].from = request[q].from
           /\ request[q].overtaken => request'[q].overtaken
           /\ request[q].at # "idle" /\ request[q].name \in ps => request'[q].overtaken
  <2>1. Purges(ps)
    BY DEF Rereads
  <2> HIDE DEF ps
  <2> QED BY <2>1, <1>a, PurgesTraffic DEF ps
<1>1. ASSUME NEW n \in ns \ ps
      PROVE  /\ cache[n] # NoResponse => cache[n].overtaken
             /\ \A q \in Requests :
                  request[q].at # "idle" /\ request[q].name = n => request[q].overtaken
  BY <1>1 DEF TrafficInv, RemovedIsOvertaken
<1> HIDE DEF ps
<1>2. \A n \in Names : n \in ns \/ edgeUp
  OBVIOUS
<1>3. StaleRouteIsNoticed'
  BY <1>a, <1>2 DEF TrafficInv, StaleRouteIsNoticed
<1>4. DownIsBlank'
  BY DEF DownIsBlank
<1>5. RemovedIsOvertaken'
  <2> SUFFICES ASSUME NEW n \in Names, table'[n] = NoRow
               PROVE  /\ cache'[n] # NoResponse => cache'[n].overtaken
                      /\ \A q \in Requests :
                           request'[q].at # "idle" /\ request'[q].name = n =>
                             request'[q].overtaken
    BY DEF RemovedIsOvertaken
  <2>1. n \in ps \/ table[n] = NoRow
    BY <1>a DEF ps
  <2> QED BY <2>1, <1>b DEF TrafficInv, RemovedIsOvertaken
<1>6. RequestsFresh'
  <2> SUFFICES ASSUME NEW q \in Requests
               PROVE  /\ request'[q].at = "answering" => request'[q].from # 0
                      /\ /\ request'[q].at \in {"leased", "answering"}
                         /\ request'[q].from # 0
                         /\ ~ request'[q].overtaken /\ db[request'[q].name] # NoRow
                         => \/ request'[q].from >= db[request'[q].name].release
                            \/ WillReread(request[q].name)'
    BY <1>b DEF RequestsFresh
  <2>1. request[q].name \in ns /\ request[q].at # "idle" => request'[q].overtaken
    BY <1>1, <1>b
  <2>2. request[q].name \notin ns => edgeUp
    BY <1>a, <1>2
  <2> QED BY <2>1, <2>2, <1>a, <1>b DEF TrafficInv, RequestsFresh
<1>7. OldResponseIsPurged'
  <2> SUFFICES ASSUME NEW n \in Names, cache'[n] # NoResponse, ~ cache'[n].overtaken,
                      db[n] # NoRow
               PROVE  cache'[n].release >= db[n].release \/ WillReread(n)'
    BY DEF OldResponseIsPurged
  <2>1. n \notin ns /\ edgeUp /\ cache'[n] = cache[n]
    BY <1>1, <1>2, <1>b
  <2> QED BY <2>1 DEF TrafficInv, OldResponseIsPurged
<1> QED BY <1>3, <1>4, <1>5, <1>6, <1>7 DEF TrafficInv

(* A purge that was asked for keeps it as well.                            *)
LEMMA PurgeStep ==
  ASSUME TrafficTypes, TrafficInv, NEW ns \in SUBSET Names, Purges(ns), edgeUp,
         UNCHANGED <<db, table, edgeUp>>,
         \A n \in Names : WillReread(n) => WillReread(n)'
  PROVE  TrafficInv'
<1>a. /\ \A n \in Names : cache'[n] = IF n \in ns THEN NoResponse ELSE cache[n]
      /\ \A q \in Requests :
           /\ request'[q].at = request[q].at /\ request'[q].name = request[q].name
           /\ request'[q].from = request[q].from
           /\ request[q].overtaken => request'[q].overtaken
           /\ request[q].name \in Names
  BY PurgesTraffic DEF TrafficTypes, RequestState
<1>1. DownIsBlank' /\ RemovedIsOvertaken' /\ StaleRouteIsNoticed'
  BY <1>a DEF TrafficInv, DownIsBlank, RemovedIsOvertaken, StaleRouteIsNoticed
<1>2. RequestsFresh'
  <2> SUFFICES ASSUME NEW q \in Requests
               PROVE  /\ request'[q].at = "answering" => request'[q].from # 0
                      /\ /\ request'[q].at \in {"leased", "answering"}
                         /\ request'[q].from # 0
                         /\ ~ request'[q].overtaken /\ db[request'[q].name] # NoRow
                         => \/ request'[q].from >= db[request'[q].name].release
                            \/ WillReread(request[q].name)'
    BY <1>a DEF RequestsFresh
  <2> QED BY <1>a DEF TrafficInv, RequestsFresh
<1>3. OldResponseIsPurged'
  BY <1>a DEF TrafficInv, OldResponseIsPurged
<1> QED BY <1>1, <1>2, <1>3 DEF TrafficInv

(* A request takes what the routes have or what answers now, and what it   *)
(* stores is as fresh as it is.                                            *)
LEMMA RequestStep ==
  ASSUME EdgeInv, NEW q \in Requests,
         UNCHANGED <<controlVars, linkVars, routeVars, edgeUp, faults>>,
         edgeUp,
         request' \in [Requests -> RequestState],
         \A o \in Requests \ {q} : request'[o] = request[o],
         cache' \in [Names -> Response \cup {NoResponse}],
         \A n \in Names :
           \/ cache'[n] \in {cache[n], NoResponse}
           \/ /\ request[q].at = "answering" /\ request[q].name = n
              /\ cache'[n] = [release |-> request[q].from,
                              overtaken |-> request[q].overtaken],
         \/ request'[q].at \in {"idle"}
         \/ /\ request[q].at # "idle" /\ request'[q].name = request[q].name
            /\ request'[q].overtaken = request[q].overtaken
         \/ table[request'[q].name] # NoRow,
         \/ request'[q].at \notin {"leased", "answering"} \/ request'[q].from = 0
         \/ request'[q].from = table[request'[q].name].release
         \/ db[request'[q].name] # NoRow =>
              request'[q].from >= db[request'[q].name].release
         \/ /\ request[q].at \in {"leased", "answering"}
            /\ request'[q].name = request[q].name
            /\ request'[q].from = request[q].from
            /\ request'[q].overtaken = request[q].overtaken,
         request'[q].at = "answering" => request'[q].from # 0
  PROVE  EdgeInv'
<1>a. /\ TrafficInv /\ RoutesOwned /\ NewestAnswers /\ EdgeTypeOK
      /\ TrafficTypes /\ TrafficTypes'
      /\ db' = db /\ table' = table /\ edgeUp' = edgeUp
      /\ \A o \in Requests : request'[o].name \in Names
  BY TypeParts DEF TypesByPart, EdgeInv, controlVars, routeVars, TrafficTypes, RequestState
<1>b. \A n \in Names : WillReread(n)' <=> WillReread(n)
  BY DEF linkVars, WillReread
<1>1. EdgeTypeOK'
  <2>1. /\ UNCHANGED <<db, built, live>> /\ UNCHANGED <<link, pending, wire>>
        /\ UNCHANGED <<table, pool, served, announced>> /\ UNCHANGED <<edgeUp, faults>>
    BY DEF controlVars, linkVars, routeVars
  <2>2. TypesByPart
    BY <1>a, TypeParts
  <2>3. ControlTypes' /\ LinkTypes' /\ RouteTypes'
    BY <2>1, <2>2 DEF TypesByPart, ControlTypes, LinkTypes, RouteTypes
  <2> QED BY <2>1, <2>2, <2>3, <1>a, TypeParts DEF TypesByPart
<1>2. RoutesOwned' /\ NewestAnswers'
  BY <1>a DEF controlVars, routeVars, RoutesOwned, NewestAnswers
<1>3. DownIsBlank' /\ StaleRouteIsNoticed'
  BY <1>a, <1>b DEF TrafficInv, DownIsBlank, StaleRouteIsNoticed
<1>4. RemovedIsOvertaken'
  <2> SUFFICES ASSUME NEW n \in Names, table[n] = NoRow
               PROVE  /\ cache'[n] # NoResponse => cache'[n].overtaken
                      /\ \A o \in Requests :
                           request'[o].at # "idle" /\ request'[o].name = n =>
                             request'[o].overtaken
    BY <1>a DEF RemovedIsOvertaken
  <2>1. /\ cache[n] # NoResponse => cache[n].overtaken
        /\ \A o \in Requests :
             request[o].at # "idle" /\ request[o].name = n => request[o].overtaken
    BY <1>a DEF TrafficInv, RemovedIsOvertaken
  <2>2. cache'[n] # NoResponse => cache'[n].overtaken
    BY <2>1
  <2>3. ASSUME NEW o \in Requests, request'[o].at # "idle", request'[o].name = n
        PROVE  request'[o].overtaken
    BY <2>1, <2>3
  <2> QED BY <2>2, <2>3
<1>5. RequestsFresh'
  <2> SUFFICES ASSUME NEW o \in Requests
               PROVE  /\ request'[o].at = "answering" => request'[o].from # 0
                      /\ /\ request'[o].at \in {"leased", "answering"}
                         /\ request'[o].from # 0
                         /\ ~ request'[o].overtaken /\ db[request'[o].name] # NoRow
                         => \/ request'[o].from >= db[request'[o].name].release
                            \/ WillReread(request[o].name)'
    BY <1>a DEF RequestsFresh
  <2>1. CASE o # q
    BY <2>1, <1>a, <1>b DEF TrafficInv, RequestsFresh
  <2>2. CASE o = q
    <3> DEFINE n == request'[q].name
    <3>1. table[n] = db[n] \/ WillReread(n)
      BY <1>a DEF TrafficInv, StaleRouteIsNoticed
    <3>2. db[n].release \in Nat
      BY <1>a, TypeParts, RowFields DEF TypesByPart, ControlTypes
    <3>3. /\ request'[q].from = request[q].from /\ n = request[q].name
          /\ request'[q].overtaken = request[q].overtaken
          /\ request[q].at \in {"leased", "answering"}
          /\ request'[q].from # 0 /\ ~ request'[q].overtaken /\ db[n] # NoRow
          => request'[q].from >= db[n].release \/ WillReread(n)
      BY <1>a DEF TrafficInv, RequestsFresh
    <3> QED BY <2>2, <1>a, <1>b, <3>1, <3>2, <3>3
  <2> QED BY <2>1, <2>2
<1>6. OldResponseIsPurged'
  <2> SUFFICES ASSUME NEW n \in Names, cache'[n] # NoResponse, ~ cache'[n].overtaken,
                      db[n] # NoRow
               PROVE  cache'[n].release >= db[n].release \/ WillReread(n)
    BY <1>a, <1>b DEF OldResponseIsPurged
  <2>1. CASE cache'[n] = cache[n]
    BY <2>1, <1>a DEF TrafficInv, OldResponseIsPurged
  <2>2. CASE /\ request[q].at = "answering" /\ request[q].name = n
             /\ cache'[n] = [release |-> request[q].from,
                             overtaken |-> request[q].overtaken]
    BY <2>2, <1>a DEF TrafficInv, RequestsFresh
  <2> QED BY <2>1, <2>2
<1> QED BY <1>1, <1>2, <1>3, <1>4, <1>5, <1>6 DEF EdgeInv, TrafficInv

(* What a request is sent to is the port or the release its route's        *)
(* service has ready, which is that of the current route.                  *)
LEMMA LeasesFrom ==
  ASSUME EdgeInv, NEW q \in Requests, NEW n \in Names, NEW route \in RowOrNone,
         NEW o \in BOOLEAN, NEW k \in 0..MaxRetries, Leases(q, n, route, o, k)
  PROVE  /\ request' \in [Requests -> RequestState]
         /\ \A x \in Requests \ {q} : request'[x] = request[x]
         /\ request'[q].at = "leased" /\ request'[q].name = n
         /\ request'[q].overtaken = o
         /\ request'[q].from = 0 \/ request'[q].from = table[n].release
<1>1. PICK r \in IF route.service = NoService THEN {0} ELSE pool[n][route.service] :
        request' = [request EXCEPT ![q] =
          [at |-> "leased", name |-> n, route |-> route, from |-> r,
           overtaken |-> o, tries |-> k]]
  BY DEF Leases
<1>a. /\ request \in [Requests -> RequestState] /\ table[n] \in RowOrNone
      /\ RoutesOwned
  BY TypeParts DEF EdgeInv, TypesByPart, TrafficTypes, RouteTypes
<1>2. (r = 0 \/ r = table[n].release) /\ r \in 0..MaxRelease
  <2>1. CASE route.service = NoService
    BY <1>1, <2>1, BoundAssumption
  <2>2. CASE route.service # NoService
    <3>1. route.service \in Services
      BY <2>2, RowFields
    <3>2. r \in Endpoints(table[n], route.service)
      BY <1>1, <1>a, <2>2, <3>1 DEF RoutesOwned
    <3> QED BY <3>2, <1>a, RowFields DEF Endpoints
  <2> QED BY <2>1, <2>2
<1> DEFINE it == [at |-> "leased", name |-> n, route |-> route, from |-> r,
                  overtaken |-> o, tries |-> k]
<1>3. it \in RequestState
  BY <1>2 DEF RequestState
<1>4. request' = [request EXCEPT ![q] = it]
  BY <1>1
<1>5. request' \in [Requests -> RequestState] /\ request'[q] = it
        /\ \A x \in Requests \ {q} : request'[x] = request[x]
  <2> HIDE DEF it
  <2> QED BY <1>a, <1>3, <1>4
<1> QED BY <1>2, <1>5

(* The hot path: each of its steps is of that kind. *)
LEMMA HotPath ==
  ASSUME EdgeInv, NEW q \in Requests,
         \/ \E n \in Names : Arrives(q, n)
         \/ Answers(q) \/ Fails(q) \/ Retries(q) \/ Stores(q) \/ Ends(q)
  PROVE  EdgeInv'
<1>a. /\ TypesByPart /\ TrafficInv /\ RoutesOwned /\ NewestAnswers
      /\ request \in [Requests -> RequestState] /\ request[q] \in RequestState
      /\ cache \in [Names -> Response \cup {NoResponse}]
  BY TypeParts DEF EdgeInv, TypesByPart, TrafficTypes
<1>b. /\ request[q].name \in Names /\ request[q].route \in RowOrNone
      /\ request[q].overtaken \in BOOLEAN /\ request[q].tries \in 0..MaxRetries
      /\ request[q].from \in 0..MaxRelease
      /\ request[q].at \in {"idle", "leased", "answering", "retrying"}
  BY <1>a DEF RequestState
<1>c. request[q].at # "idle" => edgeUp
  BY <1>a DEF TrafficInv, DownIsBlank
<1>1. ASSUME NEW n \in Names, Arrives(q, n) PROVE EdgeInv'
  <2>1. /\ edgeUp /\ table[n] # NoRow /\ Leases(q, n, table[n], FALSE, 0) /\ cache' = cache
        /\ UNCHANGED <<controlVars, linkVars, routeVars, edgeUp, faults>>
    BY <1>1 DEF Arrives
  <2>2. table[n] \in RowOrNone /\ 0 \in 0..MaxRetries
    BY <1>a, BoundAssumption DEF TypesByPart, RouteTypes
  <2> QED BY <2>1, <2>2, <1>a, LeasesFrom, RequestStep
<1>2. CASE Answers(q)
  <2>1. /\ request[q].at = "leased" /\ cache' = cache
        /\ UNCHANGED <<controlVars, linkVars, routeVars, edgeUp, faults>>
    BY <1>2 DEF Answers
  <2> DEFINE n == request[q].name
  <2>2. PICK r \in Answering(q) :
          request' = [request EXCEPT ![q].at = "answering", ![q].from = r]
    BY <1>2 DEF Answers
  <2>3. live[n] \in SUBSET (1..MaxRelease) /\ built[n] \in Nat /\ db[n].release \in Nat
    BY <1>a, <1>b, BoundAssumption, RowFields DEF TypesByPart, ControlTypes
  <2>4. r \in live[n] /\ r \in 1..MaxRelease /\ r # 0
    BY <2>2, <2>3, BoundAssumption DEF Answering
  <2>5. \/ request[q].from # 0 /\ r = request[q].from
        \/ db[n] # NoRow => r >= db[n].release
    <3>1. CASE request[q].from # 0
      BY <2>2, <3>1 DEF Answering
    <3>2. CASE request[q].from = 0
      <4>1. db[n] # NoRow => built[n] \in live[n] /\ db[n].release <= built[n]
        BY <1>a, <1>b DEF NewestAnswers
      <4>2. \A x \in live[n] : x <= r
        BY <2>2, <3>2 DEF Answering
      <4> QED BY <4>1, <4>2, <2>3, <2>4
    <3> QED BY <3>1, <3>2
  <2>6. /\ request' \in [Requests -> RequestState]
        /\ \A x \in Requests \ {q} : request'[x] = request[x]
        /\ request'[q].at = "answering" /\ request'[q].name = n
        /\ request'[q].from = r /\ request'[q].overtaken = request[q].overtaken
    <3> DEFINE it == [request[q] EXCEPT !.at = "answering", !.from = r]
    <3>1. r \in 0..MaxRelease
      BY <2>4, BoundAssumption
    <3>2. /\ it \in RequestState /\ it.at = "answering" /\ it.name = n /\ it.from = r
          /\ it.overtaken = request[q].overtaken
      BY <3>1, <1>a DEF RequestState
    <3>3. request' = [request EXCEPT ![q] = it]
      BY <2>2, <1>a
    <3> HIDE DEF it
    <3> QED BY <3>2, <3>3, <1>a
  <2> QED BY <2>1, <2>4, <2>5, <2>6, <1>a, <1>c, RequestStep
<1>3. CASE Fails(q)
  <2>1. /\ request[q].at = "leased" /\ cache' = cache
        /\ UNCHANGED <<controlVars, linkVars, routeVars, edgeUp, faults>>
    BY <1>3 DEF Fails
  <2>2. /\ request' \in [Requests -> RequestState]
        /\ \A x \in Requests \ {q} : request'[x] = request[x]
        /\ \/ request'[q].at = "idle"
           \/ /\ request'[q].at = "retrying" /\ request'[q].name = request[q].name
              /\ request'[q].overtaken = request[q].overtaken
    <3>1. CASE request[q].tries < MaxRetries
      <4> DEFINE it == [request[q] EXCEPT !.at = "retrying", !.from = 0,
                                      !.tries = request[q].tries + 1]
      <4>1. /\ it \in RequestState /\ it.at = "retrying" /\ it.name = request[q].name
            /\ it.overtaken = request[q].overtaken
        <5>1. request[q].tries + 1 \in 0..MaxRetries /\ 0 \in 0..MaxRelease
          BY <3>1, <1>b, BoundAssumption
        <5> QED BY <5>1, <1>a DEF RequestState
      <4>2. request' = [request EXCEPT ![q] = it]
        BY <1>3, <3>1, <1>a DEF Fails
      <4> HIDE DEF it
      <4> QED BY <4>1, <4>2, <1>a
    <3>2. CASE ~ (request[q].tries < MaxRetries)
      <4>1. request' = [request EXCEPT ![q] = Idle]
        BY <1>3, <3>2 DEF Fails
      <4> QED BY <4>1, <1>a, IdleFields
    <3> QED BY <3>1, <3>2
  <2> QED BY <2>1, <2>2, <1>a, <1>c, RequestStep
<1>4. CASE Retries(q)
  <2>1. /\ request[q].at = "retrying" /\ cache' = cache
        /\ UNCHANGED <<controlVars, linkVars, routeVars, edgeUp, faults>>
    BY <1>4 DEF Retries
  <2>2. CASE Leases(q, request[q].name, request[q].route, request[q].overtaken,
                    request[q].tries)
    BY <2>1, <2>2, <1>a, <1>b, <1>c, LeasesFrom, RequestStep
  <2>3. CASE request' = [request EXCEPT ![q] = Idle]
    <3>1. /\ request' \in [Requests -> RequestState] /\ request'[q].at = "idle"
          /\ \A x \in Requests \ {q} : request'[x] = request[x]
      BY <2>3, <1>a, IdleFields
    <3> QED BY <2>1, <3>1, <1>a, <1>c, RequestStep
  <2> QED BY <1>4, <2>2, <2>3 DEF Retries
<1>5. CASE Stores(q) \/ Ends(q)
  <2>1. /\ request[q].at = "answering" /\ request' = [request EXCEPT ![q] = Idle]
        /\ UNCHANGED <<controlVars, linkVars, routeVars, edgeUp, faults>>
    BY <1>5 DEF Stores, Ends
  <2>2. /\ request' \in [Requests -> RequestState] /\ request'[q].at = "idle"
        /\ \A x \in Requests \ {q} : request'[x] = request[x]
    BY <2>1, <1>a, IdleFields
  <2> DEFINE answer == [release |-> request[q].from, overtaken |-> request[q].overtaken]
  <2>3. answer \in Response
    <3>1. request[q].from \in 1..MaxRelease
      BY <2>1, <1>a, <1>b, BoundAssumption DEF TrafficInv, RequestsFresh
    <3> QED BY <3>1, <1>b DEF Response
  <2>4. cache' = [cache EXCEPT ![request[q].name] = answer] \/ cache' = cache
    BY <1>5 DEF Stores, Ends
  <2>5. /\ cache' \in [Names -> Response \cup {NoResponse}]
        /\ \A n \in Names :
             cache'[n] = cache[n] \/ (request[q].name = n /\ cache'[n] = answer)
    <3> HIDE DEF answer
    <3> QED BY <2>3, <2>4, <1>a, <1>b
  <2> QED BY <2>1, <2>2, <2>5, <1>a, <1>c, RequestStep
<1> QED BY <1>1, <1>2, <1>3, <1>4, <1>5

(* A response that expires was nobody's promise. *)
LEMMA ExpireStep == ASSUME EdgeInv, NEW n \in Names, Expires(n) PROVE EdgeInv'
<1>a. TypesByPart /\ TrafficInv /\ RoutesOwned /\ NewestAnswers
  BY TypeParts DEF EdgeInv
<1>b. /\ UNCHANGED <<db, built, live>> /\ UNCHANGED <<link, pending, wire>>
      /\ UNCHANGED <<table, pool, served, announced>>
      /\ UNCHANGED <<edgeUp, request, faults>>
      /\ cache' = [cache EXCEPT ![n] = NoResponse]
  BY DEF Expires, controlVars, linkVars, routeVars
<1>c. /\ \A m \in Names : WillReread(m)' <=> WillReread(m)
      /\ \A m \in Names : cache'[m] \in {cache[m], NoResponse}
      /\ cache' \in [Names -> Response \cup {NoResponse}]
  BY <1>a, <1>b DEF WillReread, TypesByPart, TrafficTypes
<1>1. TypesByPart'
  BY <1>a, <1>b, <1>c
     DEF TypesByPart, ControlTypes, LinkTypes, RouteTypes, TrafficTypes
<1>2. RoutesOwned' /\ NewestAnswers'
  BY <1>a, <1>b DEF RoutesOwned, NewestAnswers
<1>3. DownIsBlank' /\ RemovedIsOvertaken' /\ StaleRouteIsNoticed'
  BY <1>a, <1>b, <1>c
     DEF TrafficInv, DownIsBlank, RemovedIsOvertaken, StaleRouteIsNoticed
<1>4. RequestsFresh'
  <2> SUFFICES ASSUME NEW q \in Requests
               PROVE  /\ request[q].at = "answering" => request[q].from # 0
                      /\ /\ edgeUp /\ request[q].at \in {"leased", "answering"}
                         /\ request[q].from # 0
                         /\ ~ request[q].overtaken /\ db[request[q].name] # NoRow
                         => \/ request[q].from >= db[request[q].name].release
                            \/ WillReread(request[q].name)'
    BY <1>b DEF RequestsFresh
  <2>1. request[q].name \in Names
    BY <1>a DEF TypesByPart, TrafficTypes, RequestState
  <2> QED BY <2>1, <1>a, <1>b, <1>c DEF TrafficInv, RequestsFresh
<1>5. OldResponseIsPurged'
  BY <1>a, <1>b, <1>c DEF TrafficInv, OldResponseIsPurged
<1> QED BY <1>1, <1>2, <1>3, <1>4, <1>5, TypeParts DEF EdgeInv, TrafficInv

(* What the control process and the links do, the edge only hears of. *)
LEMMA OutsideKeeps ==
  ASSUME EdgeInv, UNCHANGED edgeVars, ControlTypes', LinkTypes', NewestAnswers',
         faults' \in 0..MaxFaults,
         \A n \in Names : \/ db'[n] = db[n] /\ (WillReread(n) => WillReread(n)')
                          \/ WillReread(n)'
  PROVE  EdgeInv'
<1>a. TypesByPart /\ TrafficInv /\ RoutesOwned
  BY TypeParts DEF EdgeInv
<1>b. /\ UNCHANGED <<table, pool, served, announced>>
      /\ UNCHANGED <<cache, edgeUp, request>>
  BY DEF edgeVars, routeVars
<1>1. TypesByPart'
  BY <1>a, <1>b DEF TypesByPart, RouteTypes, TrafficTypes
<1>2. RoutesOwned'
  BY <1>a, <1>b DEF RoutesOwned
<1>3. TrafficInv'
  BY <1>a, <1>b, OutsideStep DEF TypesByPart
<1> QED BY <1>1, <1>2, <1>3, TypeParts DEF EdgeInv

LEMMA EdgeInvStep == EdgeInv /\ [Next]_edgeRoutingVars => EdgeInv'
<1> SUFFICES ASSUME EdgeInv, [Next]_edgeRoutingVars PROVE EdgeInv'
  OBVIOUS
<1>a. /\ ControlTypes /\ LinkTypes /\ RouteTypes /\ TrafficTypes /\ RoutesOwned
      /\ edgeUp \in BOOLEAN /\ faults \in 0..MaxFaults
      /\ NewestAnswers /\ TrafficInv /\ EdgeTypeOK
  BY TypeParts DEF EdgeInv, TypesByPart
<1>b. \A n \in Names : /\ db[n] \in RowOrNone /\ db[n].release \in Nat
                       /\ built[n] \in 0..MaxRelease
                       /\ live[n] \in SUBSET (1..MaxRelease)
  BY <1>a, RowFields, BoundAssumption DEF ControlTypes
<1>1. ASSUME NEW c \in Clients, Connects(c) \/ NoticesClose(c) PROVE EdgeInv'
  <2>1. LinkTypes' /\ \A n \in Names : WillReread(n)'
    BY <1>1, <1>a, ConnectStep, NoticeStep
  <2>2. UNCHANGED <<controlVars, edgeVars, faults>>
    BY <1>1 DEF Connects, NoticesClose
  <2>3. ControlTypes' /\ NewestAnswers'
    BY <2>2, <1>a DEF controlVars, ControlTypes, NewestAnswers
  <2> QED BY <2>1, <2>2, <2>3, <1>a, OutsideKeeps
<1>2. ASSUME NEW c \in Clients, Receives(c) PROVE EdgeInv'
  <2> DEFINE m == Head(wire[c])
  <2>1. /\ LinkTypes' /\ m \in Messages
        /\ \A n \in Names : WillReread(n) => WillReread(n)' \/ m \in {Hello, RouteChanged(n)}
    BY <1>2, <1>a, ReceiveStep
  <2>2. /\ Handles(m) /\ edgeUp /\ edgeUp' /\ edgeUp' = edgeUp
        /\ UNCHANGED <<db, built, live>> /\ UNCHANGED faults
    BY <1>2 DEF Receives, controlVars
  <2>3. ControlTypes' /\ NewestAnswers'
    BY <2>2, <1>a DEF ControlTypes, NewestAnswers
  <2> HIDE DEF m
  <2>4. CASE \E ns \in SUBSET Names :
               /\ Rereads(ns)
               /\ \A n \in Names : m \in {Hello, RouteChanged(n)} => n \in ns
    <3>1. PICK ns \in SUBSET Names :
            /\ Rereads(ns)
            /\ \A n \in Names : m \in {Hello, RouteChanged(n)} => n \in ns
      BY <2>4
    <3>2. RouteTypes' /\ RoutesOwned'
      BY <3>1, <1>a, RereadsRoutes
    <3>3. TrafficTypes'
      <4>1. Purges({n \in ns : table[n] # NoRow \/ db[n] = NoRow})
        BY <3>1 DEF Rereads
      <4> QED BY <4>1, <1>a, PurgesTraffic
    <3>4. TrafficInv'
      BY <3>1, <2>1, <2>2, <1>a, RereadStep
    <3> QED BY <2>1, <2>2, <2>3, <3>2, <3>3, <3>4, <1>a, TypeParts
            DEF EdgeInv, TypesByPart
  <2>5. CASE /\ \E ns \in SUBSET Names : Purges(ns) /\ UNCHANGED routeVars
             /\ \A n \in Names : m \notin {Hello, RouteChanged(n)}
    <3>1. PICK ns \in SUBSET Names : Purges(ns) /\ UNCHANGED routeVars
      BY <2>5
    <3>2. UNCHANGED <<table, pool, served, announced>>
      BY <3>1 DEF routeVars
    <3>3. RouteTypes' /\ RoutesOwned'
      BY <3>2, <1>a DEF RouteTypes, RoutesOwned
    <3>4. TrafficTypes'
      BY <3>1, <1>a, PurgesTraffic
    <3>5. TrafficInv'
      BY <3>1, <3>2, <2>1, <2>2, <2>5, <1>a, PurgeStep
    <3> QED BY <2>1, <2>2, <2>3, <3>3, <3>4, <3>5, <1>a, TypeParts
            DEF EdgeInv, TypesByPart
  <2> QED BY <2>1, <2>2, <2>4, <2>5, HandlesKinds
<1>3. ASSUME NEW c \in Clients, NEW n \in Names, Publishes(c, n) PROVE EdgeInv'
  <2>1. PICK row \in Row : PublishesRow(n, row)
    BY <1>3 DEF Publishes
  <2>2. Send(c, RouteChanged(n)) /\ UNCHANGED <<built, live, edgeVars, faults>>
    BY <1>3 DEF Publishes
  <2>3. RouteChanged(n) \in Messages
    BY DEF Messages
  <2>4. LinkTypes' /\ WillReread(n)' /\ \A o \in Names : WillReread(o) => WillReread(o)'
    BY <2>2, <2>3, <1>a, SendTypes, SendReaches
  <2>5. ControlTypes' /\ NewestAnswers' /\ \A o \in Names \ {n} : db'[o] = db[o]
    BY <2>1, <2>2, <1>a, <1>b
       DEF PublishesRow, ControlTypes, RowOrNone, NewestAnswers
  <2> QED BY <2>2, <2>4, <2>5, <1>a, OutsideKeeps
<1>4. ASSUME NEW c \in Clients, NEW n \in Names, Deletes(c, n) PROVE EdgeInv'
  <2>1. /\ Send(c, RouteChanged(n)) /\ UNCHANGED <<built, edgeVars, faults>>
        /\ db' = [db EXCEPT ![n] = NoRow] /\ live' = [live EXCEPT ![n] = {}]
    BY <1>4 DEF Deletes
  <2>2. RouteChanged(n) \in Messages
    BY DEF Messages
  <2>3. LinkTypes' /\ WillReread(n)' /\ \A o \in Names : WillReread(o) => WillReread(o)'
    BY <2>1, <2>2, <1>a, SendTypes, SendReaches
  <2>4. ControlTypes' /\ NewestAnswers' /\ \A o \in Names \ {n} : db'[o] = db[o]
    BY <2>1, <1>a DEF ControlTypes, RowOrNone, NewestAnswers
  <2> QED BY <2>1, <2>3, <2>4, <1>a, OutsideKeeps
<1>5. ASSUME NEW c \in Clients, NEW n \in Names, Notifies(c, n) PROVE EdgeInv'
  <2>1. PICK m \in {CachePurge(n), RouteChanged(n)} : Send(c, m)
    BY <1>5 DEF Notifies
  <2>2. m \in Messages
    BY DEF Messages
  <2>3. LinkTypes' /\ \A o \in Names : WillReread(o) => WillReread(o)'
    BY <2>1, <2>2, <1>a, SendTypes, SendReaches
  <2>4. UNCHANGED <<controlVars, edgeVars, faults>>
    BY <1>5 DEF Notifies
  <2>5. ControlTypes' /\ NewestAnswers' /\ db' = db
    BY <2>4, <1>a DEF controlVars, ControlTypes, NewestAnswers
  <2> QED BY <2>3, <2>4, <2>5, <1>a, OutsideKeeps
<1>6. ASSUME NEW n \in Names, StartsRelease(n) \/ StopsOld(n) PROVE EdgeInv'
  <2>1. UNCHANGED db /\ UNCHANGED linkVars /\ UNCHANGED edgeVars /\ UNCHANGED faults
    BY <1>6 DEF StartsRelease, StopsOld
  <2>2. LinkTypes' /\ \A o \in Names : WillReread(o) => WillReread(o)'
    BY <2>1, <1>a DEF linkVars, LinkTypes, WillReread
  <2>3. ControlTypes' /\ NewestAnswers'
    <3>1. CASE StartsRelease(n)
      <4>1. built[n] + 1 \in 1..MaxRelease /\ built[n] + 1 \in 0..MaxRelease
              /\ built[n] <= built[n] + 1
        BY <3>1, <1>b, BoundAssumption DEF StartsRelease
      <4>2. /\ built' = [built EXCEPT ![n] = built[n] + 1]
            /\ live' = [live EXCEPT ![n] =
                 (IF db[n].service = NoService THEN {} ELSE live[n]) \cup {built[n] + 1}]
        <5>1. built' = [built EXCEPT ![n] = built[n] + 1]
          BY <3>1 DEF StartsRelease
        <5>2. built'[n] = built[n] + 1
          BY <5>1, <1>a DEF ControlTypes
        <5> QED BY <5>1, <5>2, <3>1 DEF StartsRelease
      <4>3. ControlTypes'
        BY <4>1, <4>2, <2>1, <1>a, <1>b DEF ControlTypes
      <4>4. NewestAnswers'
        BY <4>1, <4>2, <2>1, <1>a, <1>b DEF NewestAnswers, ControlTypes
      <4> QED BY <4>3, <4>4
    <3>2. CASE StopsOld(n)
      <4>1. live' = [live EXCEPT ![n] = {r \in live[n] : r >= db[n].release}]
              /\ built' = built
        BY <3>2 DEF StopsOld
      <4>2. PICK r \in live[n] : r < db[n].release
        BY <3>2 DEF StopsOld
      <4>3. ControlTypes'
        BY <4>1, <2>1, <1>a, <1>b DEF ControlTypes
      <4>4. NewestAnswers'
        BY <4>1, <2>1, <1>a, <1>b DEF NewestAnswers, ControlTypes
      <4> QED BY <4>3, <4>4
    <3> QED BY <1>6, <3>1, <3>2
  <2> QED BY <2>1, <2>2, <2>3, <1>a, OutsideKeeps
<1>7. CASE ControlCrashes \/ \E n \in Names : ControlCrashesAtPublish(n)
  <2>1. /\ LinkTypes' /\ faults' \in 0..MaxFaults /\ \A n \in Names : WillReread(n)'
    BY <1>7, <1>a, RestartStep DEF ControlCrashes, ControlCrashesAtPublish
  <2>2. UNCHANGED <<built, live, edgeVars>>
    BY <1>7 DEF ControlCrashes, ControlCrashesAtPublish, controlVars
  <2>3. CASE db' = db
    <3>1. ControlTypes' /\ NewestAnswers'
      BY <2>2, <2>3, <1>a DEF ControlTypes, NewestAnswers
    <3> QED BY <2>1, <2>2, <3>1, OutsideKeeps
  <2>4. CASE \E n \in Names : \E row \in Row : PublishesRow(n, row)
    <3>1. PICK n \in Names, row \in Row : PublishesRow(n, row)
      BY <2>4
    <3>2. ControlTypes' /\ NewestAnswers'
      BY <3>1, <2>2, <1>a, <1>b
         DEF PublishesRow, ControlTypes, RowOrNone, NewestAnswers
    <3> QED BY <2>1, <2>2, <3>2, OutsideKeeps
  <2> QED BY <1>7, <2>3, <2>4 DEF ControlCrashes, ControlCrashesAtPublish, controlVars
<1>8. CASE EdgeCrashes
  <2>0. edgeUp' \in BOOLEAN /\ faults' \in 0..MaxFaults
    <3>1. edgeUp' = FALSE /\ faults < MaxFaults /\ faults' = faults + 1
      BY <1>8 DEF EdgeCrashes
    <3>2. faults' \in 0..MaxFaults
      BY <3>1, <1>a, BoundAssumption
    <3> QED BY <3>1, <3>2
  <2>1. /\ ~ edgeUp'
        /\ UNCHANGED <<db, built, live>> /\ UNCHANGED pending
        /\ table' = [n \in Names |-> NoRow] /\ announced' = {}
        /\ pool' = [n \in Names |-> [s \in Services |-> {}]]
        /\ served' = [n \in Names |-> FALSE]
        /\ cache' = [n \in Names |-> NoResponse]
        /\ request' = [q \in Requests |-> Idle]
        /\ link' = [c \in Clients |-> IF link[c] = "up" THEN "dead" ELSE link[c]]
        /\ wire' = [c \in Clients |-> <<>>]
    BY <1>8 DEF EdgeCrashes, controlVars
  <2>2. ControlTypes' /\ LinkTypes' /\ NewestAnswers'
    BY <2>1, <1>a DEF ControlTypes, LinkTypes, NewestAnswers
  <2>3. RouteTypes' /\ TrafficTypes'
    BY <2>1, IdleFields DEF RouteTypes, TrafficTypes, RowOrNone
  <2>4. RoutesOwned'
    <3>1. \A s \in Services : Endpoints(NoRow, s) = {}
      BY ServiceAssumption DEF Endpoints, NoRow
    <3>2. /\ \A n \in Names : table'[n] = NoRow /\ served'[n] = table'[n].extra
          /\ announced' = {}
      BY <2>1 DEF NoRow
    <3>3. \A n \in Names : \A s \in Services : pool'[n][s] = {}
      BY <2>1
    <3> QED BY <3>1, <3>2, <3>3 DEF RoutesOwned
  <2>5. TrafficInv'
    BY <2>1, IdleFields
       DEF TrafficInv, DownIsBlank, RemovedIsOvertaken, StaleRouteIsNoticed,
           RequestsFresh, OldResponseIsPurged
  <2> QED BY <2>0, <2>2, <2>3, <2>4, <2>5, TypeParts DEF EdgeInv, TypesByPart
<1>9. CASE EdgeBoots
  <2>1. /\ Rereads(Names) /\ edgeUp' = TRUE /\ UNCHANGED faults
        /\ UNCHANGED <<db, built, live>> /\ UNCHANGED <<link, pending, wire>>
    BY <1>9 DEF EdgeBoots, controlVars, linkVars
  <2>2. RouteTypes' /\ RoutesOwned'
    BY <2>1, <1>a, RereadsRoutes
  <2>3. TrafficTypes'
    <3>1. Purges({n \in Names : table[n] # NoRow \/ db[n] = NoRow})
      BY <2>1 DEF Rereads
    <3> QED BY <3>1, <1>a, PurgesTraffic
  <2>4. TrafficInv'
    BY <2>1, <1>a, RereadStep
  <2>5. ControlTypes' /\ LinkTypes' /\ NewestAnswers'
    BY <2>1, <1>a DEF ControlTypes, LinkTypes, NewestAnswers
  <2> QED BY <2>1, <2>2, <2>3, <2>4, <2>5, <1>a, TypeParts DEF EdgeInv, TypesByPart
<1>10. CASE UNCHANGED edgeRoutingVars
  <2>1. UNCHANGED edgeVars /\ UNCHANGED controlVars /\ UNCHANGED linkVars /\ UNCHANGED faults
    BY <1>10 DEF edgeRoutingVars
  <2>2. ControlTypes' /\ NewestAnswers' /\ db' = db
    BY <2>1, <1>a DEF controlVars, ControlTypes, NewestAnswers
  <2>3. LinkTypes' /\ \A n \in Names : WillReread(n) => WillReread(n)'
    BY <2>1, <1>a DEF linkVars, LinkTypes, WillReread
  <2> QED BY <2>1, <2>2, <2>3, <1>a, OutsideKeeps
<1> QED BY <1>1, <1>2, <1>3, <1>4, <1>5, <1>6, <1>7, <1>8, <1>9, <1>10,
           ExpireStep, HotPath DEF Next

LEMMA EdgeInvAlways == EdgeSpec => []EdgeInv
BY EdgeInvInit, EdgeInvStep, PTL DEF EdgeSpec

(* The edge is of one piece: whatever crashed and in whichever order the   *)
(* hints came, its endpoints, listeners and host names are its routes'.    *)
THEOREM RoutesAreSound == EdgeSpec => []RoutesSound
<1>1. EdgeInv => RoutesSound
  BY DEF EdgeInv, RoutesSound, RoutesOwned, RouteOwnsItsEffects
<1> QED BY <1>1, EdgeInvAlways, PTL

(* No lost hint leaves the edge behind: while a route differs from its row *)
(* some client has yet to connect, or the message to read it is on a wire. *)
THEOREM StaleRoutesAreNoticed == EdgeSpec => []StaleRouteIsNoticed
<1>1. EdgeInv => StaleRouteIsNoticed
  BY DEF EdgeInv, TrafficInv
<1> QED BY <1>1, EdgeInvAlways, PTL

(* The cache never keeps, unnoticed, a response older than the row, from a *)
(* request that was under way when the row changed, unless it was purged   *)
(* over that request's head.                                               *)
THEOREM OldResponsesArePurged == EdgeSpec => []OldResponseIsPurged
<1>1. EdgeInv => OldResponseIsPurged
  BY DEF EdgeInv, TrafficInv
<1> QED BY <1>1, EdgeInvAlways, PTL

-----------------------------------------------------------------------------
(* The core container.  What its processes do to the membership file and   *)
(* its lock, for any commands, process numbers and crashes.  Every copy a  *)
(* process holds is one that was true when it was read: writing it back    *)
(* loses what came since and never tears the outbox from its               *)
(* acknowledgement.  The lock keeps its holders apart unless two processes *)
(* find it stale at once.                                                  *)

(* NUMBERS: a set of them has a least one, a bounded one a greatest one.   *)
LEMMA Least ==
  ASSUME NEW T \in SUBSET Nat, T # {}
  PROVE  \E x \in T : \A y \in T : x <= y
<1> DEFINE R == OpToRel(<, Nat)
<1>1. PICK x \in T : \A y \in T : ~ (<<y, x>> \in R)
  BY NatLessThanWellFounded, WFMin
<1>2. \A y, z \in Nat : <<y, z>> \in R <=> y < z
  BY DEF OpToRel
<1> HIDE DEF R
<1>3. \A y \in T : ~ (y < x)
  BY <1>1, <1>2, Zenon
<1> QED BY <1>3

LEMMA Greatest ==
  ASSUME NEW n \in Nat, NEW T \in SUBSET (0..n), T # {}
  PROVE  \E x \in T : \A y \in T : y <= x
<1> DEFINE D == {d \in Nat : \E x \in T : x + d = n}
<1>1. D # {}
  <2>1. PICK x \in T : TRUE
    OBVIOUS
  <2>2. n - x \in D
    BY <2>1
  <2> QED BY <2>2
<1>2. PICK d \in D : \A e \in D : d <= e
  <2> HIDE DEF D
  <2>1. D \in SUBSET Nat
    BY DEF D
  <2> QED BY <1>1, <2>1, Least
<1>3. PICK x \in T : x + d = n
  BY <1>2
<1>4. ASSUME NEW y \in T
      PROVE  y <= x
  <2>1. n - y \in D
    OBVIOUS
  <2>2. d <= n - y
    BY <1>2, <2>1
  <2> QED BY <1>2, <1>3, <2>2
<1> QED BY <1>3, <1>4

-----------------------------------------------------------------------------
(* THE COPIES OF THE FILE                                                  *)

(* A copy of the file speaks of its own events as the log and Home bear    *)
(* out, and stays so while both grow.                                      *)
Continues(M, l) == \E m \in 0..l : M.outbox = {LogEvent(n) : n \in (M.acked + 1) .. m}

CopyOf(M, l, h) ==
  /\ \A e \in M.outbox : e.seq < M.next
  /\ \A e, x \in M.outbox : e.seq = x.seq => e = x
  /\ M.acked =< Len(h)
  /\ \/ \E e \in M.outbox : e.source = "candidate"
     \/ \E i \in DOMAIN h : h[i].source = "candidate"
     \/ Continues(M, l)

CopyInv ==
  /\ CoreTypeOK
  /\ file # Torn => CopyOf(file, log, home)
  /\ \A p \in Procs : CopyOf(proc[p].mem, log, home)

(* The history of h goes on in k. *)
Grows(h, k) == Len(h) =< Len(k) /\ \A i \in DOMAIN h : k[i] = h[i]

LEMMA ConstantFacts ==
  /\ Worker \in Procs /\ Commands \subseteq Procs
  /\ AwayAfter \in Nat \ {0} /\ MaxLog \in Nat /\ MaxCommands \in Nat
  /\ MaxCrashes \in Nat /\ MaxFlips \in Nat
  /\ Pids \subseteq Nat \ {0}
BY CoreAssumption DEF Procs

LEMMA EventFacts ==
  /\ \A n \in Nat \ {0} : LogEvent(n) \in Event /\ LogEvent(n).seq = n
                           /\ LogEvent(n).source = "log"
  /\ \A e \in Event : e.seq \in Nat \ {0}
BY DEF Event, LogEvent

LEMMA CopyGrows ==
  ASSUME NEW l \in Nat, NEW l2 \in Nat, l =< l2,
         NEW h \in Seq(Event), NEW k \in Seq(Event), Grows(h, k),
         NEW M \in Membership, CopyOf(M, l, h)
  PROVE  CopyOf(M, l2, k)
<1>1. M.acked \in Nat /\ M.acked =< Len(k)
  BY DEF CopyOf, Grows, Membership
<1>2. (\E i \in DOMAIN h : h[i].source = "candidate")
        => \E i \in DOMAIN k : k[i].source = "candidate"
  BY DEF Grows
<1>3. Continues(M, l) => Continues(M, l2)
  <2>1. 0..l \subseteq 0..l2
    OBVIOUS
  <2> QED BY <2>1 DEF Continues
<1> QED BY <1>1, <1>2, <1>3 DEF CopyOf

LEMMA PairedCopy ==
  /\ Paired \in Membership
  /\ \A l \in Nat, h \in Seq(Event) : CopyOf(Paired, l, h)
<1>1. Paired \in Membership
  BY DEF Paired, Membership, Modes
<1>2. ASSUME NEW l \in Nat
      PROVE  Continues(Paired, l)
  <2>1. {LogEvent(n) : n \in (0 + 1) .. 0} = {}
    OBVIOUS
  <2> QED BY <2>1 DEF Continues, Paired
<1> QED BY <1>1, <1>2 DEF CopyOf, Paired

(* Queueing the rows of the log behind the acknowledgement.                *)
LEMMA EnqueueCopy ==
  ASSUME CopyInv, file # Torn, ~ Conflicting
  PROVE  Enqueued \in Membership /\ CopyOf(Enqueued, log, home)
<1>1. file \in Membership /\ log \in Nat
  BY DEF CopyInv, CoreTypeOK
<1>2. CopyOf(file, log, home)
  BY DEF CopyInv
<1>3. file.next \in Nat \ {0} /\ file.outbox \in SUBSET Event /\ file.acked \in Nat
        /\ file.mode \in Modes
  BY <1>1 DEF Membership
<1>4. \A e \in NewRows : e \in Event /\ e.seq =< log /\ e = LogEvent(e.seq)
  BY <1>1, <1>3, EventFacts DEF NewRows
<1> DEFINE N == IF log + 1 > file.next THEN log + 1 ELSE file.next
<1>5. Enqueued.outbox = file.outbox \cup NewRows /\ Enqueued.next = N
        /\ Enqueued.acked = file.acked /\ Enqueued.mode = file.mode
  BY <1>1 DEF Enqueued, Membership
<1>6. Enqueued \in Membership
  <2>1. N \in Nat \ {0}
    BY <1>1, <1>3
  <2>2. NewRows \in SUBSET Event
    BY <1>4
  <2>3. Enqueued = [file EXCEPT !.outbox = file.outbox \cup NewRows, !.next = N]
    BY DEF Enqueued
  <2> HIDE DEF N
  <2> QED BY <1>1, <1>3, <2>1, <2>2, <2>3 DEF Membership
<1>7. \A e \in Enqueued.outbox : e.seq < Enqueued.next
  BY <1>1, <1>2, <1>3, <1>4, <1>5, EventFacts DEF CopyOf
<1>8. \A e, x \in Enqueued.outbox : e.seq = x.seq => e = x
  <2> SUFFICES ASSUME NEW e \in file.outbox \cup NewRows, NEW x \in file.outbox \cup NewRows,
                      e.seq = x.seq
               PROVE  e = x
    BY <1>5
  <2>1. CASE e \in file.outbox /\ x \in file.outbox
    BY <1>2, <2>1 DEF CopyOf
  <2>2. CASE e \in NewRows /\ x \in NewRows
    BY <1>4, <2>2, Zenon
  <2>3. CASE e \in NewRows /\ x \in file.outbox
    BY <2>3 DEF Conflicting
  <2>4. CASE e \in file.outbox /\ x \in NewRows
    BY <2>4 DEF Conflicting
  <2> QED BY <2>1, <2>2, <2>3, <2>4
<1>9. Continues(file, log) => Continues(Enqueued, log)
  <2> SUFFICES ASSUME Continues(file, log)
               PROVE  file.outbox \cup NewRows = {LogEvent(n) : n \in (file.acked + 1) .. log}
    BY <1>1, <1>5 DEF Continues
  <2>1. PICK m \in 0..log : file.outbox = {LogEvent(n) : n \in (file.acked + 1) .. m}
    BY DEF Continues
  <2>2. (file.acked + 1) .. m \subseteq (file.acked + 1) .. log
    BY <1>1, <1>3
  <2>3. NewRows = {LogEvent(n) : n \in (file.acked + 1) .. log}
    BY DEF NewRows
  <2>4. \A n \in (file.acked + 1) .. m : LogEvent(n) \in NewRows
    BY <2>2, <2>3
  <2>5. \A e \in file.outbox : e \in NewRows
    BY <2>1, <2>4
  <2>6. file.outbox \cup NewRows = NewRows
    BY <2>5
  <2> QED BY <2>3, <2>6
<1> QED BY <1>2, <1>5, <1>6, <1>7, <1>8, <1>9 DEF CopyOf

(* A candidate takes the number the file offers.                           *)
LEMMA CandidateCopy ==
  ASSUME CopyInv, file # Torn, NEW n \in Nat \ {0},
         NEW c, c = [seq |-> file.next, source |-> "candidate", id |-> n],
         NEW M, M = [file EXCEPT !.next = @ + 1, !.outbox = @ \cup {c}]
  PROVE  M \in Membership /\ CopyOf(M, log, home)
<1>1. file \in Membership
  BY DEF CopyInv, CoreTypeOK
<1>2. CopyOf(file, log, home)
  BY DEF CopyInv
<1>3. file.next \in Nat \ {0} /\ file.outbox \in SUBSET Event /\ file.acked \in Nat
        /\ file.mode \in Modes
  BY <1>1 DEF Membership
<1>4. c \in Event /\ c.seq = file.next /\ c.source = "candidate"
  BY <1>3 DEF Event
<1>5. M.next = file.next + 1 /\ M.outbox = file.outbox \cup {c} /\ M.acked = file.acked
  BY <1>1 DEF Membership
<1>6. M \in Membership
  <2>1. file.next + 1 \in Nat \ {0} /\ file.outbox \cup {c} \in SUBSET Event
    BY <1>3, <1>4
  <2> QED BY <1>1, <1>3, <2>1 DEF Membership
<1>7. \A e \in file.outbox : e.seq \in Nat /\ e.seq < file.next
  BY <1>2, <1>3, EventFacts DEF CopyOf
<1>8. \A e \in M.outbox : e.seq < M.next
  BY <1>3, <1>4, <1>5, <1>7
<1>9. \A e, x \in M.outbox : e.seq = x.seq => e = x
  <2>1. \A e \in file.outbox : e.seq # c.seq
    BY <1>3, <1>4, <1>7
  <2> QED BY <1>2, <1>5, <2>1 DEF CopyOf
<1>10. CopyOf(M, log, home)
  BY <1>2, <1>4, <1>5, <1>8, <1>9 DEF CopyOf
<1> QED BY <1>6, <1>10

-----------------------------------------------------------------------------
(* THE EXCHANGE                                                            *)

(* What Home has once it accepted an outbox: its rows reach the last       *)
(* number of either, those it had are the ones it had, the new ones those  *)
(* of the outbox.                                                          *)
LEMMA IngestFacts ==
  ASSUME NEW M \in Membership, home \in Seq(Event), CopyOf(M, log, home), ~ Refused(M.outbox),
         NEW t, t = AcceptedThrough(M.outbox), NEW k, k = Ingested(M.outbox)
  PROVE  /\ t \in Nat /\ Len(home) =< t
         /\ \A e \in M.outbox : e.seq =< t /\ k[e.seq] = e
         /\ k \in Seq(Event) /\ Len(k) = t /\ Grows(home, k)
<1>1. M.outbox \in SUBSET Event /\ M.next \in Nat
  BY DEF Membership
<1>2. \A e \in M.outbox : e.seq \in Nat \ {0} /\ e.seq < M.next
  BY <1>1, EventFacts DEF CopyOf
<1> DEFINE S == {e.seq : e \in M.outbox} \cup {Len(home)}
<1>3. t \in S /\ \A m \in S : m =< t
  <2>1. S \subseteq 0..(M.next + Len(home)) /\ S # {}
    BY <1>1, <1>2
  <2> HIDE DEF S
  <2>2. M.next + Len(home) \in Nat
    BY <1>1
  <2>3. \E n \in S : \A m \in S : m =< n
    BY <2>1, <2>2, Greatest
  <2>4. t = CHOOSE n \in S : \A m \in S : m =< n
    BY DEF AcceptedThrough, S
  <2> QED BY <2>3, <2>4
<1>4. t \in Nat /\ Len(home) =< t /\ \A e \in M.outbox : e.seq =< t
  BY <1>2, <1>3
<1>5. \A e \in M.outbox : e.seq > Len(home) + 1 => \E x \in M.outbox : x.seq + 1 = e.seq
  BY DEF Refused
(* No number between Home's last and the outbox's last is missing: below   *)
(* the last missing one there would be a gap.                              *)
<1>6. \A n \in (Len(home) + 1) .. t : \E e \in M.outbox : e.seq = n
  <2> DEFINE T == {n \in (Len(home) + 1) .. t : ~ \E e \in M.outbox : e.seq = n}
  <2> SUFFICES ASSUME T # {}
               PROVE  FALSE
    OBVIOUS
  <2>1. PICK n \in T : \A m \in T : m =< n
    <3>1. T \in SUBSET (0..t)
      BY <1>4
    <3> HIDE DEF T
    <3> QED BY <1>4, <3>1, Greatest
  <2>2. n \in Nat /\ n > Len(home) /\ n =< t /\ ~ \E e \in M.outbox : e.seq = n
    BY <1>4
  <2>3. n # t
    BY <1>3, <2>2
  <2>4. n + 1 \notin T
    <3> HIDE DEF T
    <3> QED BY <2>1, <2>2
  <2>5. PICK e \in M.outbox : e.seq = n + 1
    BY <1>4, <2>2, <2>3, <2>4
  <2>6. \E x \in M.outbox : x.seq + 1 = n + 1
    BY <1>5, <2>2, <2>5
  <2> QED BY <1>2, <2>2, <2>6
<1>7. DOMAIN k = 1..t /\ \A n \in 1..t : k[n] = IF n \in DOMAIN home THEN home[n]
                                                ELSE CHOOSE e \in M.outbox : e.seq = n
  BY DEF Ingested
<1>8. \A n \in 1..t : n \notin DOMAIN home => k[n] \in M.outbox /\ k[n].seq = n
  <2> SUFFICES ASSUME NEW n \in 1..t, n \notin DOMAIN home
               PROVE  k[n] \in M.outbox /\ k[n].seq = n
    OBVIOUS
  <2>1. \E e \in M.outbox : e.seq = n
    BY <1>4, <1>6
  <2>2. k[n] = CHOOSE e \in M.outbox : e.seq = n
    BY <1>7
  <2> QED BY <2>1, <2>2
<1>9. \A n \in 1..t : k[n] \in Event
  <2>1. \A n \in DOMAIN home : home[n] \in Event
    OBVIOUS
  <2> QED BY <1>1, <1>7, <1>8, <2>1
<1>10. k \in Seq(Event) /\ Len(k) = t
  <2>1. k = [n \in 1..t |-> k[n]]
    BY DEF Ingested
  <2> QED BY <1>4, <1>7, <1>9, <2>1
<1>11. Grows(home, k)
  BY <1>4, <1>7, <1>10 DEF Grows
<1>12. ASSUME NEW e \in M.outbox
       PROVE  k[e.seq] = e
  <2>1. e.seq \in 1..t
    BY <1>2, <1>4
  <2>2. CASE e.seq \in DOMAIN home
    BY <1>7, <2>1, <2>2 DEF Refused
  <2>3. CASE e.seq \notin DOMAIN home
    BY <1>8, <2>1, <2>3 DEF CopyOf
  <2> QED BY <2>2, <2>3
<1> QED BY <1>4, <1>10, <1>11, <1>12

(* The answer empties the outbox and moves the acknowledgement to the end. *)
LEMMA AnsweredCopy ==
  ASSUME NEW M \in Membership, home \in Seq(Event), log \in Nat,
         CopyOf(M, log, home), ~ Refused(M.outbox),
         NEW t, t = AcceptedThrough(M.outbox), NEW k, k = Ingested(M.outbox)
  PROVE  Answered(M, t) \in Membership /\ CopyOf(Answered(M, t), log, k)
<1> DEFINE A == Answered(M, t)
<1>1. /\ t \in Nat /\ Len(home) =< t
      /\ \A e \in M.outbox : e.seq =< t /\ k[e.seq] = e
      /\ k \in Seq(Event) /\ Len(k) = t /\ Grows(home, k)
  BY IngestFacts
<1>2. M.outbox \in SUBSET Event /\ M.acked \in Nat /\ M.acked =< t
  BY <1>1 DEF CopyOf, Membership
<1>3. \A e \in M.outbox : e.seq \in Nat \ {0}
  BY <1>2, EventFacts
<1>4. {e \in M.outbox : e.seq > t} = {}
  BY <1>1, <1>3
<1>5. A.outbox = {} /\ A.acked = t
  BY <1>1, <1>2, <1>4 DEF Answered, Membership
<1>6. A \in Membership
  <2> DEFINE O == {e \in M.outbox : e.seq > t}
             a == IF t > M.acked THEN t ELSE M.acked
  <2>1. O \in SUBSET Event /\ a \in Nat
    BY <1>1, <1>2
  <2>2. A = [M EXCEPT !.outbox = O, !.acked = a]
    BY DEF Answered
  <2> HIDE DEF A, O, a
  <2> QED BY <2>1, <2>2 DEF Membership
<1> HIDE DEF A
<1>7. Continues(A, log)
  <2>1. {LogEvent(n) : n \in (t + 1) .. 0} = {}
    BY <1>1
  <2> QED BY <1>5, <2>1 DEF Continues
<1> QED BY <1>1, <1>5, <1>6, <1>7 DEF A, CopyOf

-----------------------------------------------------------------------------
(* THE PROCESSES                                                           *)

LEMMA ProcessFacts ==
  /\ Down \in Process /\ Down.mem = Paired
  /\ \A r \in Process : AfterFailure(r) \in Process /\ AfterFailure(r).mem = r.mem
  /\ \A r \in Process : AfterPass(r) \in Process /\ AfterPass(r).mem = r.mem
<1> USE ConstantFacts
<1>1. Down \in Process /\ Down.mem = Paired
  BY PairedCopy DEF Down, Process, Modes
<1>2. ASSUME NEW r \in Process
      PROVE  AfterFailure(r) \in Process /\ AfterFailure(r).mem = r.mem
  <2> DEFINE f == IF r.failures > AwayAfter THEN r.failures ELSE r.failures + 1
             a == IF r.seen # "away" /\ f = AwayAfter THEN "load" ELSE "top"
  <2>1. f \in 0 .. (AwayAfter + 1)
    BY DEF Process
  <2>2. a \in {"load", "top"}
    OBVIOUS
  <2>3. AfterFailure(r) = [r EXCEPT !.failures = f, !.job = "mark", !.at = a]
    BY DEF AfterFailure
  <2> HIDE DEF f, a
  <2> QED BY <2>1, <2>2, <2>3 DEF Process
<1>3. ASSUME NEW r \in Process
      PROVE  AfterPass(r) \in Process /\ AfterPass(r).mem = r.mem
  <2>1. CASE r.seen # "docked"
    <3>1. AfterPass(r) = [r EXCEPT !.job = "dock", !.at = "load"]
      BY <2>1 DEF AfterPass
    <3> QED BY <3>1 DEF Process
  <2>2. CASE r.seen = "docked"
    <3>1. AfterPass(r) = [r EXCEPT !.failures = 0, !.at = "top"]
      BY <2>2 DEF AfterPass
    <3>2. 0 \in 0 .. (AwayAfter + 1)
      OBVIOUS
    <3> QED BY <3>1, <3>2 DEF Process
  <2> QED BY <2>1, <2>2
<1> QED BY <1>1, <1>2, <1>3

LEMMA ThrewFacts ==
  ASSUME proc \in [Procs -> Process], NEW p \in Procs
  PROVE  Threw(p) \in Process /\ (Threw(p).mem = proc[p].mem \/ Threw(p).mem = Paired)
BY ProcessFacts DEF Threw

(* A step of one process, that leaves it with a good copy, and the others  *)
(* and the file as they are.                                               *)
LEMMA OneMoves ==
  ASSUME CopyInv, NEW p \in Procs, NEW r \in Process, proc' = [proc EXCEPT ![p] = r],
         r.mem = proc[p].mem \/ CopyOf(r.mem, log, home) \/ r.mem = Paired,
         lock' \in [by : Pids \cup {0}, named : BOOLEAN],
         count' \in [commands : 0..MaxCommands, crashes : 0..MaxCrashes, flips : 0..MaxFlips],
         file' = file, log' = log, home' = home, reachable' = reachable
  PROVE  CopyInv'
<1>1. CoreTypeOK'
  BY DEF CopyInv, CoreTypeOK
<1>2. CopyOf(r.mem, log, home)
  BY PairedCopy DEF CopyInv, CoreTypeOK
<1>3. \A q \in Procs : CopyOf(proc'[q].mem, log', home')
  <2>1. \A q \in Procs : proc'[q] = IF q = p THEN r ELSE proc[q]
    BY DEF CopyInv, CoreTypeOK
  <2> QED BY <1>2, <2>1 DEF CopyInv
<1>4. file' # Torn => CopyOf(file', log', home')
  BY DEF CopyInv
<1> QED BY <1>1, <1>3, <1>4 DEF CopyInv

(* The steps around the lock, and of processes that come and go.           *)
LEMMA LockStepCopies ==
  ASSUME CopyInv, NEW p \in Procs,
         Open(p) \/ RemoveStale(p) \/ NameOwner(p) \/ Release(p)
  PROVE  CopyInv'
<1>1. proc \in [Procs -> Process] /\ proc[p] \in Process /\ proc[p].pid \in Pids \cup {0}
        /\ lock \in [by : Pids \cup {0}, named : BOOLEAN]
  BY DEF CopyInv, CoreTypeOK, Process
<1>2. Threw(p) \in Process /\ (Threw(p).mem = proc[p].mem \/ Threw(p).mem = Paired)
  BY <1>1, ThrewFacts
<1>3. \A at \in {"name", "stale", "open", "enqueue", "load"} :
        [proc[p] EXCEPT !.at = at] \in Process /\ [proc[p] EXCEPT !.at = at].mem = proc[p].mem
  BY <1>1 DEF Process
<1>4. NoLock \in [by : Pids \cup {0}, named : BOOLEAN]
  BY DEF NoLock
<1>5. /\ lock' \in [by : Pids \cup {0}, named : BOOLEAN]
      /\ count' = count /\ file' = file /\ log' = log /\ home' = home /\ reachable' = reachable
  <2>1. [by |-> proc[p].pid, named |-> FALSE] \in [by : Pids \cup {0}, named : BOOLEAN]
    BY <1>1
  <2>2. [lock EXCEPT !.named = TRUE] \in [by : Pids \cup {0}, named : BOOLEAN]
    BY <1>1
  <2> QED BY <1>1, <1>4, <2>1, <2>2 DEF Open, RemoveStale, NameOwner, Release, world
<1>6. \E r \in Process : /\ proc' = [proc EXCEPT ![p] = r]
                         /\ r.mem = proc[p].mem \/ r.mem = Paired
  <2>1. CASE Open(p)
    <3>1. CASE lock = NoLock
      BY <1>1, <1>3, <2>1, <3>1 DEF Open, Goto
    <3>2. CASE lock # NoLock
      BY <1>1, <1>2, <1>3, <2>1, <3>2 DEF Open
    <3> QED BY <3>1, <3>2
  <2>2. CASE RemoveStale(p)
    BY <1>1, <1>2, <1>3, <2>2 DEF RemoveStale, Goto
  <2>3. CASE NameOwner(p)
    BY <1>1, <1>3, <2>3 DEF NameOwner, Goto
  <2>4. CASE Release(p)
    <3>1. AfterPass(proc[p]) \in Process /\ AfterPass(proc[p]).mem = proc[p].mem
      BY <1>1, ProcessFacts
    <3> QED BY <1>1, <1>2, <2>4, <3>1, ProcessFacts DEF Release
  <2> QED BY <2>1, <2>2, <2>3, <2>4
<1>7. PICK r \in Process : /\ proc' = [proc EXCEPT ![p] = r]
                           /\ r.mem = proc[p].mem \/ r.mem = Paired
  BY <1>6
<1>8. count \in [commands : 0..MaxCommands, crashes : 0..MaxCrashes, flips : 0..MaxFlips]
  BY DEF CopyInv, CoreTypeOK
<1> QED BY <1>5, <1>7, <1>8, OneMoves

(* A step that leaves the lock and the count alone as well.                *)
LEMMA MovesOnly ==
  ASSUME CopyInv, NEW p \in Procs, NEW r \in Process, proc' = [proc EXCEPT ![p] = r],
         r.mem = proc[p].mem \/ CopyOf(r.mem, log, home) \/ r.mem = Paired,
         UNCHANGED <<lock, file, log, home, reachable, count>>
  PROVE  CopyInv'
<1>1. /\ lock \in [by : Pids \cup {0}, named : BOOLEAN]
      /\ count \in [commands : 0..MaxCommands, crashes : 0..MaxCrashes, flips : 0..MaxFlips]
  BY DEF CopyInv, CoreTypeOK
<1> QED BY <1>1, OneMoves

(* A process that goes on with what it holds, and one that goes to save.   *)
LEMMA GoFacts ==
  ASSUME NEW r \in Process
  PROVE  /\ \A at \in {"enqueue", "load", "request", "truncate", "write", "release"} :
              [r EXCEPT !.at = at] \in Process /\ [r EXCEPT !.at = at].mem = r.mem
         /\ [r EXCEPT !.ok = FALSE, !.at = "release"] \in Process
         /\ [r EXCEPT !.ok = FALSE, !.at = "release"].mem = r.mem
BY DEF Process

LEMMA SavesCopy ==
  ASSUME CopyInv, NEW p \in Procs, NEW M \in Membership,
         NEW next \in {"top", "load", "release"}
  PROVE  SaveThen(p, M, next) =>
           \E r \in Process : proc' = [proc EXCEPT ![p] = r] /\ r.mem = M
<1> DEFINE r == [proc[p] EXCEPT !.mem = M, !.next = next, !.at = "truncate"]
<1>1. proc \in [Procs -> Process] /\ proc[p] \in Process
  BY DEF CopyInv, CoreTypeOK
<1>2. r \in Process /\ r.mem = M
  BY <1>1 DEF Process
<1>3. SaveThen(p, M, next) => proc' = [proc EXCEPT ![p] = r]
  BY <1>1 DEF SaveThen
<1> HIDE DEF r
<1> QED BY <1>2, <1>3

LEMMA FileStepCopies ==
  ASSUME CopyInv, NEW p \in Procs,
         Truncate(p) \/ Write(p) \/ Enqueue(p) \/ Load(p) \/ ReportMode(p)
  PROVE  CopyInv'
<1>1. proc \in [Procs -> Process] /\ proc[p] \in Process /\ proc[p].mem \in Membership
        /\ CopyOf(proc[p].mem, log, home)
  BY DEF CopyInv, CoreTypeOK, Process
<1>2. Threw(p) \in Process /\ (Threw(p).mem = proc[p].mem \/ Threw(p).mem = Paired)
  BY <1>1, ThrewFacts
<1>3. \A q \in Procs, r \in Process : proc' = [proc EXCEPT ![q] = r] =>
        \A x \in Procs : proc'[x] = IF x = q THEN r ELSE proc[x]
  BY <1>1
<1>4. Fail(p) => \E r \in Process : proc' = [proc EXCEPT ![p] = r] /\ r.mem = proc[p].mem
  <2> DEFINE r == [proc[p] EXCEPT !.ok = FALSE, !.at = "release"]
  <2>1. r \in Process /\ r.mem = proc[p].mem
    BY <1>1, GoFacts
  <2>2. Fail(p) => proc' = [proc EXCEPT ![p] = r]
    BY <1>1 DEF Fail
  <2> HIDE DEF r
  <2> QED BY <2>1, <2>2
<1>5. file # Torn => file \in Membership /\ CopyOf(file, log, home)
  BY DEF CopyInv, CoreTypeOK
<1>6. CASE Truncate(p)
  <2>1. PICK r \in Process : proc' = [proc EXCEPT ![p] = r] /\ r.mem = proc[p].mem
    BY <1>1, <1>6, GoFacts DEF Truncate, Goto
  <2>2. \A q \in Procs : CopyOf(proc'[q].mem, log, home)
    BY <1>1, <1>3, <2>1 DEF CopyInv
  <2>3. UNCHANGED <<lock, log, home, reachable, count>> /\ file' = Torn
    BY <1>6 DEF Truncate, world
  <2>4. proc' \in [Procs -> Process]
    BY <1>1, <2>1
  <2> QED BY <2>2, <2>3, <2>4 DEF CopyInv, CoreTypeOK
<1>7. CASE Write(p)
  <2> DEFINE r == [proc[p] EXCEPT !.at = proc[p].next,
                                  !.failures = IF proc[p].job = "dock" THEN 0 ELSE @]
  <2>1. proc' = [proc EXCEPT ![p] = r]
    BY <1>1, <1>7 DEF Write
  <2>2. r \in Process /\ r.mem = proc[p].mem
    <3>1. 0 \in 0 .. (AwayAfter + 1)
      BY ConstantFacts
    <3> QED BY <1>1, <3>1 DEF Process
  <2> HIDE DEF r
  <2>3. \A q \in Procs : CopyOf(proc'[q].mem, log, home)
    BY <1>1, <1>3, <2>1, <2>2 DEF CopyInv
  <2>4. UNCHANGED <<lock, log, home, reachable, count>> /\ file' = proc[p].mem
    BY <1>7 DEF Write, world
  <2>5. proc' \in [Procs -> Process]
    BY <1>1, <2>1, <2>2
  <2> QED BY <1>1, <2>3, <2>4, <2>5 DEF CopyInv, CoreTypeOK
<1>8. CASE Enqueue(p)
  <2>1. UNCHANGED <<lock, file, log, home, reachable, count>>
    BY <1>8 DEF Enqueue, world
  <2>2. CASE file = Torn \/ Conflicting
    BY <1>4, <1>8, <2>1, <2>2, MovesOnly DEF Enqueue
  <2>3. CASE ~ (file = Torn \/ Conflicting) /\ NewRows = {}
    BY <1>1, <1>8, <2>1, <2>3, GoFacts, MovesOnly DEF Enqueue, Goto
  <2>4. CASE ~ (file = Torn \/ Conflicting) /\ NewRows # {}
    <3>1. Enqueued \in Membership /\ CopyOf(Enqueued, log, home)
      BY <2>4, EnqueueCopy
    <3>2. SaveThen(p, Enqueued, "load")
      BY <1>8, <2>4 DEF Enqueue
    <3>3. PICK r \in Process : proc' = [proc EXCEPT ![p] = r] /\ r.mem = Enqueued
      BY <1>1, <3>1, <3>2, SavesCopy
    <3> QED BY <2>1, <3>1, <3>3, MovesOnly
  <2> QED BY <2>2, <2>3, <2>4
<1>9. CASE Load(p)
  <2>1. UNCHANGED <<lock, file, log, home, reachable, count>>
    BY <1>9 DEF Load, world
  <2>2. CASE file = Torn
    <3>1. \E r \in Process : /\ proc' = [proc EXCEPT ![p] = r]
                             /\ r.mem = proc[p].mem \/ r.mem = Paired
      BY <1>2, <1>4, <1>9, <2>2, ProcessFacts DEF Load
    <3> QED BY <2>1, <3>1, MovesOnly
  <2>3. CASE file # Torn /\ proc[p].job = "mark"
    <3> DEFINE M == [file EXCEPT !.mode = "away"]
    <3>1. M \in Membership /\ CopyOf(M, log, home)
      BY <1>5, <2>3 DEF Membership, Modes, CopyOf, Continues
    <3>2. SaveThen(p, M, "top")
      BY <1>9, <2>3 DEF Load
    <3> HIDE DEF M
    <3>3. PICK r \in Process : proc' = [proc EXCEPT ![p] = r] /\ r.mem = M
      BY <1>1, <3>1, <3>2, SavesCopy
    <3> QED BY <2>1, <3>1, <3>3, MovesOnly
  <2>4. CASE file # Torn /\ proc[p].job = "candidate"
    <3> DEFINE c == [seq |-> file.next, source |-> "candidate", id |-> proc[p].nth]
               M == [file EXCEPT !.next = @ + 1, !.outbox = @ \cup {c}]
    <3>1. proc[p].nth \in Nat \ {0}
      BY <1>1, ConstantFacts DEF Process
    <3>2. M \in Membership /\ CopyOf(M, log, home)
      BY <2>4, <3>1, CandidateCopy
    <3>3. SaveThen(p, M, "release")
      BY <1>9, <2>4 DEF Load
    <3> HIDE DEF M
    <3>4. PICK r \in Process : proc' = [proc EXCEPT ![p] = r] /\ r.mem = M
      BY <1>1, <3>2, <3>3, SavesCopy
    <3> QED BY <2>1, <3>2, <3>4, MovesOnly
  <2>5. CASE file # Torn /\ proc[p].job \notin {"mark", "candidate"}
    <3> DEFINE r == [proc[p] EXCEPT !.mem = file, !.at = "request"]
    <3>1. proc' = [proc EXCEPT ![p] = r]
      BY <1>1, <1>9, <2>5 DEF Load
    <3>2. r \in Process /\ r.mem = file
      BY <1>1, <1>5, <2>5 DEF Process
    <3> HIDE DEF r
    <3> QED BY <1>5, <2>1, <2>5, <3>1, <3>2, MovesOnly
  <2> QED BY <2>2, <2>3, <2>4, <2>5
<1>10. CASE ReportMode(p)
  <2>1. UNCHANGED <<lock, file, log, home, reachable, count>>
    BY <1>10 DEF ReportMode, world
  <2>2. CASE reachable
    <3> DEFINE mode == IF proc[p].job = "away" THEN "away" ELSE "docked"
               next == IF proc[p].job = "dock" THEN "top" ELSE "release"
               M == [proc[p].mem EXCEPT !.mode = mode]
    <3>1. M \in Membership /\ CopyOf(M, log, home)
      BY <1>1 DEF Membership, Modes, CopyOf, Continues
    <3>2. SaveThen(p, M, next)
      BY <1>10, <2>2 DEF ReportMode
    <3>3. next \in {"top", "load", "release"}
      OBVIOUS
    <3> HIDE DEF M, next
    <3>4. PICK r \in Process : proc' = [proc EXCEPT ![p] = r] /\ r.mem = M
      BY <1>1, <3>1, <3>2, <3>3, SavesCopy
    <3> QED BY <2>1, <3>1, <3>4, MovesOnly
  <2>3. CASE ~ reachable
    <3>1. \E r \in Process : /\ proc' = [proc EXCEPT ![p] = r]
                             /\ r.mem = proc[p].mem \/ r.mem = Paired
      BY <1>2, <1>4, <1>10, <2>3 DEF ReportMode
    <3> QED BY <2>1, <3>1, MovesOnly
  <2> QED BY <2>2, <2>3
<1> QED BY <1>6, <1>7, <1>8, <1>9, <1>10

LEMMA ExchangeCopies ==
  ASSUME CopyInv, NEW p \in Procs, Exchange(p)
  PROVE  CopyInv'
<1> DEFINE M == proc[p].mem
           t == AcceptedThrough(M.outbox)
           k == Ingested(M.outbox)
           A == Answered(M, t)
<1>1. proc \in [Procs -> Process] /\ proc[p] \in Process /\ M \in Membership
        /\ home \in Seq(Event) /\ log \in Nat
  BY DEF CopyInv, CoreTypeOK, Process
<1>2. CopyOf(M, log, home)
  BY DEF CopyInv
<1>3. UNCHANGED <<lock, file, log, reachable, count>>
  BY DEF Exchange
<1>4. CASE reachable /\ ~ Refused(M.outbox)
  <2>1. A \in Membership /\ CopyOf(A, log, k)
    BY <1>1, <1>2, <1>4, AnsweredCopy
  <2>2. k \in Seq(Event) /\ Grows(home, k)
    BY <1>1, <1>2, <1>4, IngestFacts
  <2>3. home' = k /\ SaveThen(p, A, "release")
    BY <1>4 DEF Exchange
  <2> HIDE DEF M, t, k, A
  <2>4. PICK r \in Process : proc' = [proc EXCEPT ![p] = r] /\ r.mem = A
    BY <1>1, <2>1, <2>3, SavesCopy
  <2>5. CoreTypeOK'
    BY <1>1, <1>3, <2>2, <2>3, <2>4 DEF CopyInv, CoreTypeOK
  <2>6. ASSUME NEW q \in Procs
        PROVE  CopyOf(proc'[q].mem, log', home')
    <3>1. CASE q = p
      <4>1. proc'[q] = r
        BY <1>1, <2>4, <3>1
      <4> QED BY <1>3, <2>1, <2>3, <2>4, <4>1
    <3>2. CASE q # p
      <4>1. proc'[q] = proc[q]
        BY <1>1, <2>4, <3>2
      <4>2. proc[q].mem \in Membership /\ CopyOf(proc[q].mem, log, home)
        BY DEF CopyInv, CoreTypeOK, Process
      <4>3. CopyOf(proc[q].mem, log, k)
        BY <1>1, <2>2, <4>2, CopyGrows
      <4> QED BY <1>3, <2>3, <4>1, <4>3
    <3> QED BY <3>1, <3>2
  <2>7. file' # Torn => CopyOf(file', log', home')
    <3> SUFFICES ASSUME file # Torn
                 PROVE  CopyOf(file, log, k)
      BY <1>3, <2>3
    <3>1. file \in Membership /\ CopyOf(file, log, home)
      BY DEF CopyInv, CoreTypeOK
    <3> QED BY <1>1, <2>2, <3>1, CopyGrows
  <2> QED BY <2>5, <2>6, <2>7 DEF CopyInv
<1>5. CASE ~ (reachable /\ ~ Refused(M.outbox))
  <2> DEFINE r == [proc[p] EXCEPT !.ok = FALSE, !.next = "release", !.at = "truncate"]
  <2>1. proc' = [proc EXCEPT ![p] = r] /\ home' = home
    BY <1>1, <1>5 DEF Exchange
  <2>2. r \in Process /\ r.mem = proc[p].mem
    BY <1>1 DEF Process
  <2> HIDE DEF r, M, t, k, A
  <2> QED BY <1>3, <2>1, <2>2, MovesOnly
<1> QED BY <1>4, <1>5

(* The log grows, processes come and go, Home comes within reach.          *)
LEMMA OthersCopies ==
  ASSUME CopyInv,
         \/ \E p \in Procs : Crash(p)
         \/ \E p \in Commands, kind \in CommandKinds : StartCommand(p, kind)
         \/ Turn \/ AppendLocal \/ Restart \/ Flip
  PROVE  CopyInv'
<1> USE ConstantFacts
<1>1. proc \in [Procs -> Process] /\ log \in 0..MaxLog /\ home \in Seq(Event)
        /\ count \in [commands : 0..MaxCommands, crashes : 0..MaxCrashes, flips : 0..MaxFlips]
        /\ lock \in [by : Pids \cup {0}, named : BOOLEAN]
        /\ file \in Membership \cup {Torn}
  BY DEF CopyInv, CoreTypeOK
<1>2. CASE \E p \in Procs : Crash(p)
  <2>1. PICK p \in Procs : Crash(p)
    BY <1>2
  <2>2. count' \in [commands : 0..MaxCommands, crashes : 0..MaxCrashes, flips : 0..MaxFlips]
    BY <1>1, <2>1 DEF Crash
  <2> QED BY <1>1, <2>1, <2>2, ProcessFacts, OneMoves DEF Crash, world
<1>3. CASE \E p \in Commands, kind \in CommandKinds : StartCommand(p, kind)
  <2>1. PICK p \in Commands, kind \in CommandKinds : StartCommand(p, kind)
    BY <1>3
  <2>2. PICK pid \in FreshPids : proc' = [proc EXCEPT ![p] =
         [Down EXCEPT !.pid = pid, !.nth = count.commands + 1,
                      !.job = IF kind = "sync" THEN "pass" ELSE kind, !.at = "open"]]
    BY <2>1 DEF StartCommand
  <2> DEFINE n == count.commands + 1
             job == IF kind = "sync" THEN "pass" ELSE kind
             r == [Down EXCEPT !.pid = pid, !.nth = n, !.job = job, !.at = "open"]
  <2>3. count.commands < MaxCommands /\ count' = [count EXCEPT !.commands = @ + 1]
          /\ file' = file /\ log' = log /\ home' = home /\ reachable' = reachable /\ lock' = lock
    BY <2>1 DEF StartCommand, world
  <2>4. n \in 1 .. (MaxCommands + 1)
    BY <1>1, <2>3
  <2>5. job \in {"pass", "docked", "away", "candidate"} /\ pid \in Pids
    BY CoreAssumption DEF FreshPids
  <2>6. count' \in [commands : 0..MaxCommands, crashes : 0..MaxCrashes, flips : 0..MaxFlips]
    BY <1>1, <2>3
  <2>7. proc' = [proc EXCEPT ![p] = r]
    BY <2>2
  <2> HIDE DEF n, job
  <2>8. r \in Process /\ r.mem = Paired
    BY <2>4, <2>5, ProcessFacts DEF Process
  <2> HIDE DEF r
  <2>9. p \in Procs
    OBVIOUS
  <2> QED BY <1>1, <2>3, <2>6, <2>7, <2>8, <2>9, OneMoves
<1>4. CASE Turn
  <2>1. UNCHANGED <<lock, file, log, home, reachable, count>>
    BY <1>4 DEF Turn, world
  <2>2. CASE file = Torn
    <3>1. proc' = [proc EXCEPT ![Worker] = Down]
      BY <1>4, <2>2 DEF Turn
    <3> QED BY <2>1, <3>1, ProcessFacts, MovesOnly
  <2>3. CASE file # Torn
    <3> DEFINE m == file.mode
               r == [proc[Worker] EXCEPT !.job = "pass", !.seen = m, !.ok = TRUE, !.at = "open"]
    <3>1. proc' = [proc EXCEPT ![Worker] = r]
      BY <1>1, <1>4, <2>3 DEF Turn
    <3>2. file.mode \in Modes
      BY <1>1, <2>3 DEF Membership
    <3>3. proc[Worker] \in Process /\ m \in Modes
      BY <1>1, <3>2
    <3> HIDE DEF m
    <3>4. r \in Process /\ r.mem = proc[Worker].mem
      BY <3>3 DEF Process
    <3> HIDE DEF r
    <3> QED BY <2>1, <3>1, <3>4, MovesOnly
  <2> QED BY <2>2, <2>3
<1>5. CASE AppendLocal
  <2>1. log' \in 0..MaxLog /\ log \in Nat /\ log' \in Nat /\ log =< log'
    BY <1>1, <1>5 DEF AppendLocal
  <2>2. UNCHANGED <<lock, file, home, reachable, proc, count>>
    BY <1>5 DEF AppendLocal
  <2>3. CoreTypeOK'
    BY <2>1, <2>2 DEF CopyInv, CoreTypeOK
  <2>4. ASSUME NEW M \in Membership, CopyOf(M, log, home)
        PROVE  CopyOf(M, log', home)
    <3>1. Grows(home, home)
      BY <1>1 DEF Grows
    <3> QED BY <1>1, <2>1, <2>4, <3>1, CopyGrows
  <2>5. file # Torn => CopyOf(file, log', home)
    BY <1>1, <2>4 DEF CopyInv
  <2>6. \A p \in Procs : CopyOf(proc[p].mem, log', home)
    BY <1>1, <2>4 DEF CopyInv, Process
  <2> QED BY <2>2, <2>3, <2>5, <2>6 DEF CopyInv
<1>6. CASE Restart
  <2>1. UNCHANGED <<lock, file, log, home, reachable, count>>
    BY <1>6 DEF Restart, world
  <2>2. \A pid \in Pids : [Down EXCEPT !.pid = pid, !.at = "top"] \in Process
                          /\ [Down EXCEPT !.pid = pid, !.at = "top"].mem = Paired
    BY ProcessFacts DEF Process
  <2>3. proc' \in [Procs -> Process] /\ \A p \in Procs : proc'[p].mem = Paired
    <3>1. CASE file = Torn
      BY <1>6, <3>1, ProcessFacts DEF Restart
    <3>2. CASE file # Torn
      <4>1. PICK pid \in Pids : proc' = [p \in Procs |->
                       IF p = Worker THEN [Down EXCEPT !.pid = pid, !.at = "top"] ELSE Down]
        BY <1>6, <3>2 DEF Restart
      <4> QED BY <2>2, <4>1, ProcessFacts
    <3> QED BY <3>1, <3>2
  <2>4. CoreTypeOK'
    BY <2>1, <2>3 DEF CopyInv, CoreTypeOK
  <2>5. \A p \in Procs : CopyOf(proc'[p].mem, log', home')
    BY <1>1, <2>1, <2>3, PairedCopy
  <2>6. file' # Torn => CopyOf(file', log', home')
    BY <2>1 DEF CopyInv
  <2> QED BY <2>4, <2>5, <2>6 DEF CopyInv
<1>7. CASE Flip
  <2>1. UNCHANGED <<lock, file, log, home, proc>> /\ reachable' \in BOOLEAN
          /\ count' \in [commands : 0..MaxCommands, crashes : 0..MaxCrashes, flips : 0..MaxFlips]
    BY <1>1, <1>7 DEF Flip, CopyInv, CoreTypeOK
  <2> QED BY <2>1 DEF CopyInv, CoreTypeOK
<1> QED BY <1>2, <1>3, <1>4, <1>5, <1>6, <1>7

LEMMA CopyInvInit == CoreInit => CopyInv
<1> SUFFICES ASSUME CoreInit
             PROVE  CopyInv
  OBVIOUS
<1> USE ConstantFacts
<1>1. PICK pid \in Pids :
        proc = [p \in Procs |-> IF p = Worker THEN [Down EXCEPT !.pid = pid, !.at = "top"] ELSE Down]
  BY DEF CoreInit
<1>2. [Down EXCEPT !.pid = pid, !.at = "top"] \in Process
        /\ [Down EXCEPT !.pid = pid, !.at = "top"].mem = Paired
  BY ProcessFacts DEF Process
<1>3. proc \in [Procs -> Process] /\ \A p \in Procs : proc[p].mem = Paired
  BY <1>1, <1>2, ProcessFacts
<1>4. lock = NoLock /\ file = Paired /\ log = 0 /\ home = <<>> /\ reachable = TRUE
        /\ count = [commands |-> 0, crashes |-> 0, flips |-> 0]
  BY DEF CoreInit
<1>5. CoreTypeOK
  BY <1>3, <1>4, PairedCopy DEF CoreTypeOK, NoLock
<1>6. CopyOf(Paired, log, home)
  <2>1. log \in Nat /\ home \in Seq(Event)
    BY <1>4
  <2> QED BY <2>1, PairedCopy
<1>7. \A p \in Procs : CopyOf(proc[p].mem, log, home)
  BY <1>3, <1>6
<1>8. CopyOf(file, log, home)
  BY <1>4, <1>6
<1> QED BY <1>5, <1>7, <1>8 DEF CopyInv

LEMMA CopyInvStep == CopyInv /\ [CoreNext]_vars => CopyInv'
<1> SUFFICES ASSUME CopyInv, [CoreNext]_vars
             PROVE  CopyInv'
  OBVIOUS
<1>1. ASSUME NEW p \in Procs, Step(p)
      PROVE  CopyInv'
  BY <1>1, LockStepCopies, FileStepCopies, ExchangeCopies DEF Step
<1>2. CASE UNCHANGED vars
  BY <1>2 DEF vars, world, CopyInv, CoreTypeOK
<1> QED BY <1>1, <1>2, OthersCopies DEF CoreNext

LEMMA CopyInvAlways == CoreSpec => []CopyInv
<1> QED BY CopyInvInit, CopyInvStep, PTL DEF CoreSpec

(* Types hold in every run: the file is a membership record or is being    *)
(* rewritten, and Home's history has no hole.                              *)
THEOREM CoreTypeCorrect == CoreSpec => []CoreTypeOK
<1>1. CopyInv => CoreTypeOK
  BY DEF CopyInv
<1> QED BY <1>1, CopyInvAlways, PTL

(* Whatever copies the worker, commands and unlocked changes of mode write *)
(* over each other, and wherever processes die: the file never             *)
(* acknowledges what Home lacks, and where no candidate is in play its     *)
(* outbox goes on from the acknowledgement without a gap.                  *)
THEOREM OutboxGoesOn == CoreSpec => []OutboxFollowsAck
<1>1. CopyInv => OutboxFollowsAck
  <2> SUFFICES ASSUME CopyInv, file # Torn
               PROVE  /\ file.acked =< Len(home)
                      /\ HasCandidate \/ Continues(file, log)
    BY DEF OutboxFollowsAck, Continues
  <2> QED BY DEF CopyInv, CopyOf, HasCandidate
<1> QED BY <1>1, CopyInvAlways, PTL

-----------------------------------------------------------------------------
(* THE LOCK                                                                *)

(* The changes of mode without the lock stay outside of it, and go back to *)
(* the top of the loop once they have saved.                               *)
JobOK(r) ==
  /\ r.at \in {"open", "stale", "name", "enqueue", "release"} => r.job \notin {"dock", "mark"}
  /\ r.at \in {"truncate", "write"} => (r.job \in {"dock", "mark"} <=> r.next = "top")

InLock(r) ==
  /\ r.at \in {"name", "enqueue", "load", "request", "truncate", "write", "release"}
  /\ r.job \notin {"dock", "mark"}

(* Process numbers tell the living apart.                                  *)
PidsApart ==
  /\ \A p \in Procs : proc[p].at = "down" <=> proc[p].pid = 0
  /\ \A p, q \in Procs : proc[p].pid = proc[q].pid /\ proc[p].pid # 0 => p = q

(* Who is in the lock created the lock file; one that was found stale is   *)
(* nobody's.                                                               *)
LockOwned ==
  /\ \A p \in Procs : InLock(proc[p]) => lock.by = proc[p].pid
  /\ \A p \in Procs : proc[p].at = "stale" =>
       lock # NoLock /\ \A q \in Procs : ~ InLock(proc[q])

LockInv ==
  /\ CoreTypeOK
  /\ \A p \in Procs : JobOK(proc[p])
  /\ PidsApart
  /\ LockOwned

(* At most one process has found the lock stale and not yet removed it.    *)
OneRemover ==
  \A p, q \in Procs : proc[p].at = "stale" /\ proc[q].at = "stale" => p = q

(* What a step of p does to the lock: nothing, takes a free one, finds a   *)
(* stale one, removes that, releases its own.                              *)
Outside(r) == ~ InLock(r) /\ r.at # "stale"

LockMove(s, r) ==
  \/ /\ lock'.by = lock.by /\ (lock # NoLock <=> lock' # NoLock)
     /\ InLock(r) => InLock(s)
     /\ r.at # "stale"
  \/ /\ lock = NoLock /\ lock'.by = s.pid /\ lock' # NoLock
     /\ InLock(r) /\ r.pid = s.pid /\ s.at # "down"
  \/ /\ lock' = lock /\ lock # NoLock /\ lock.by \notin Alive
     /\ r.at = "stale"
  \/ /\ s.at = "stale" \/ InLock(s)
     /\ lock' = NoLock /\ Outside(r)

Goes(p, r) ==
  /\ \A q \in Procs : proc'[q] = IF q = p THEN r ELSE proc[q]
  /\ r = Down \/ (r.at # "down" /\ proc[p].at # "down" /\ r.pid = proc[p].pid)
  /\ JobOK(r)
  /\ LockMove(proc[p], r)

Moved(p, r) == Goes(p, r) /\ (InLock(proc[p]) => InLock(r) \/ lock' = NoLock)

LEMMA DownOutside == Down.pid = 0 /\ Down.at = "down" /\ JobOK(Down) /\ Outside(Down)
BY DEF Down, JobOK, Outside, InLock

LEMMA ThrewOutside ==
  ASSUME CoreTypeOK, NEW p \in Procs
  PROVE  /\ Threw(p) = Down \/ (Threw(p).pid = proc[p].pid /\ Threw(p).at \in {"load", "top"})
         /\ JobOK(Threw(p)) /\ Outside(Threw(p))
<1>1. proc[p] \in Process
  BY DEF CoreTypeOK
<1>2. CASE p = Worker
  <2> DEFINE s == proc[p]
             f == IF s.failures > AwayAfter THEN s.failures ELSE s.failures + 1
             a == IF s.seen # "away" /\ f = AwayAfter THEN "load" ELSE "top"
             r == [s EXCEPT !.failures = f, !.job = "mark", !.at = a]
  <2>1. Threw(p) = r
    BY <1>2 DEF Threw, AfterFailure
  <2>2. a \in {"load", "top"}
    OBVIOUS
  <2> HIDE DEF f, a
  <2>3. r.pid = proc[p].pid /\ r.at = a /\ r.job = "mark"
    BY <1>1 DEF Process
  <2> HIDE DEF r
  <2> QED BY <2>1, <2>2, <2>3 DEF JobOK, Outside, InLock
<1>3. CASE p # Worker
  <2>1. Threw(p) = Down
    BY <1>3 DEF Threw
  <2>2. JobOK(Down) /\ Outside(Down)
    BY DownOutside
  <2> QED BY <2>1, <2>2, Zenon
<1> QED BY <1>2, <1>3

(* One step of a process, for the steps that replace its record.           *)
LEMMA LockStepMoves ==
  ASSUME LockInv, NEW p \in Procs,
         Open(p) \/ RemoveStale(p) \/ NameOwner(p) \/ Release(p)
  PROVE  \E r : Moved(p, r)
<1> DEFINE s == proc[p]
<1>1. proc \in [Procs -> Process] /\ s \in Process /\ JobOK(s)
        /\ lock \in [by : Pids \cup {0}, named : BOOLEAN]
  BY DEF LockInv, CoreTypeOK
<1>2. s.at # "down" => s.pid \in Nat \ {0}
  BY <1>1, ConstantFacts DEF LockInv, PidsApart, Process
<1>3. ASSUME NEW r, proc' = [proc EXCEPT ![p] = r]
      PROVE  \A q \in Procs : proc'[q] = IF q = p THEN r ELSE proc[q]
  BY <1>1, <1>3
<1>4. /\ Threw(p) = Down \/ (Threw(p).pid = s.pid /\ Threw(p).at \in {"load", "top"})
      /\ JobOK(Threw(p)) /\ Outside(Threw(p))
  BY ThrewOutside DEF LockInv
<1>5. \A at \in {"name", "open", "stale", "enqueue", "load"} :
        /\ [s EXCEPT !.at = at].pid = s.pid /\ [s EXCEPT !.at = at].at = at
        /\ [s EXCEPT !.at = at].job = s.job
  BY <1>1 DEF Process
<1>6. CASE Open(p)
  <2>1. s.at = "open" /\ s.job \notin {"dock", "mark"}
    BY <1>1, <1>6 DEF Open, Is, JobOK
  <2>2. CASE lock = NoLock
    <3> DEFINE r == [s EXCEPT !.at = "name"]
    <3>1. proc' = [proc EXCEPT ![p] = r] /\ lock' = [by |-> s.pid, named |-> FALSE]
      BY <1>1, <1>6, <2>2 DEF Open, Goto
    <3>2. r.pid = s.pid /\ r.at = "name" /\ r.job = s.job
      BY <1>5
    <3> HIDE DEF r
    <3>3. \A q \in Procs : proc'[q] = IF q = p THEN r ELSE proc[q]
      BY <1>3, <3>1
    <3>4. lock'.by = s.pid /\ lock' # NoLock
      BY <1>2, <2>1, <3>1 DEF NoLock
    <3> QED BY <2>1, <2>2, <3>2, <3>3, <3>4 DEF Moved, Goes, LockMove, InLock, JobOK
  <2>3. CASE lock # NoLock /\ lock.named /\ lock.by \notin Alive
    <3> DEFINE r == [s EXCEPT !.at = "stale"]
    <3>1. proc' = [proc EXCEPT ![p] = r] /\ lock' = lock
      BY <1>1, <1>6, <2>3 DEF Open
    <3>2. r.pid = s.pid /\ r.at = "stale" /\ r.job = s.job
      BY <1>5
    <3> HIDE DEF r
    <3>3. \A q \in Procs : proc'[q] = IF q = p THEN r ELSE proc[q]
      BY <1>3, <3>1
    <3>4. ~ InLock(s)
      BY <2>1 DEF InLock
    <3> QED BY <2>1, <2>3, <3>1, <3>2, <3>3, <3>4 DEF Moved, Goes, LockMove, JobOK
  <2>4. CASE lock # NoLock /\ ~ (lock.named /\ lock.by \notin Alive)
    <3>1. proc' = [proc EXCEPT ![p] = Threw(p)] /\ lock' = lock
      BY <1>1, <1>6, <2>4 DEF Open
    <3>2. \A q \in Procs : proc'[q] = IF q = p THEN Threw(p) ELSE proc[q]
      BY <1>3, <3>1
    <3>3. ~ InLock(s)
      BY <2>1 DEF InLock
    <3> QED BY <1>4, <2>1, <3>1, <3>2, <3>3 DEF Moved, Goes, LockMove, Outside
  <2> QED BY <2>2, <2>3, <2>4
<1>7. CASE RemoveStale(p)
  <2>1. s.at = "stale" /\ s.job \notin {"dock", "mark"} /\ lock' = NoLock
    BY <1>1, <1>7 DEF RemoveStale, Is, JobOK
  <2>2. CASE lock = NoLock
    <3>1. proc' = [proc EXCEPT ![p] = Threw(p)]
      BY <1>7, <2>2 DEF RemoveStale
    <3>2. \A q \in Procs : proc'[q] = IF q = p THEN Threw(p) ELSE proc[q]
      BY <1>3, <3>1
    <3> QED BY <1>4, <2>1, <3>2 DEF Moved, Goes, LockMove
  <2>3. CASE lock # NoLock
    <3> DEFINE r == [s EXCEPT !.at = "open"]
    <3>1. proc' = [proc EXCEPT ![p] = r]
      BY <1>1, <1>7, <2>3 DEF RemoveStale, Goto
    <3>2. r.pid = s.pid /\ r.at = "open" /\ r.job = s.job
      BY <1>5
    <3> HIDE DEF r
    <3>3. \A q \in Procs : proc'[q] = IF q = p THEN r ELSE proc[q]
      BY <1>3, <3>1
    <3> QED BY <2>1, <3>2, <3>3 DEF Moved, Goes, LockMove, Outside, InLock, JobOK
  <2> QED BY <2>2, <2>3
<1>8. CASE NameOwner(p)
  <2>1. s.at = "name" /\ s.job \notin {"dock", "mark"}
    BY <1>1, <1>8 DEF NameOwner, Is, JobOK
  <2> DEFINE at == IF s.job = "pass" THEN "enqueue" ELSE "load"
             r == [s EXCEPT !.at = at]
  <2>2. at \in {"enqueue", "load"}
    OBVIOUS
  <2>3. proc' = [proc EXCEPT ![p] = r]
    BY <1>1, <1>8 DEF NameOwner, Goto
  <2> HIDE DEF at
  <2>4. r.pid = s.pid /\ r.at = at /\ r.job = s.job
    BY <1>5, <2>2
  <2> HIDE DEF r
  <2>5. \A q \in Procs : proc'[q] = IF q = p THEN r ELSE proc[q]
    BY <1>3, <2>3
  <2>6. lock'.by = lock.by /\ (lock # NoLock <=> lock' # NoLock)
    <3>1. CASE lock.by = s.pid
      <4>1. lock' = [lock EXCEPT !.named = TRUE]
        BY <1>8, <3>1 DEF NameOwner
      <4>2. s.pid # 0
        BY <1>2, <2>1
      <4> QED BY <1>1, <3>1, <4>1, <4>2 DEF NoLock
    <3>2. CASE lock.by # s.pid
      BY <1>8, <3>2 DEF NameOwner
    <3> QED BY <3>1, <3>2
  <2> QED BY <2>1, <2>2, <2>4, <2>5, <2>6 DEF Moved, Goes, LockMove, InLock, JobOK
<1>9. CASE Release(p)
  <2>1. s.at = "release" /\ InLock(s) /\ lock' = NoLock
    BY <1>1, <1>9 DEF Release, Is, JobOK, InLock
  <2>2. \E r : /\ proc' = [proc EXCEPT ![p] = r]
               /\ r = Down \/ (r.at # "down" /\ r.pid = s.pid)
               /\ JobOK(r) /\ Outside(r)
    <3>1. CASE ~ s.ok
      <4>1. proc' = [proc EXCEPT ![p] = Threw(p)]
        BY <1>1, <1>9, <3>1 DEF Release
      <4> DEFINE r == Threw(p)
      <4>2. r = Down \/ (r.at # "down" /\ r.pid = s.pid)
        BY <1>4
      <4>3. JobOK(r) /\ Outside(r)
        BY <1>4
      <4> HIDE DEF r
      <4> QED BY <4>1, <4>2, <4>3 DEF r
    <3>2. CASE s.ok /\ p = Worker
      <4>1. proc' = [proc EXCEPT ![p] = AfterPass(s)]
        BY <1>1, <1>9, <3>2 DEF Release
      <4>2. AfterPass(s).pid = s.pid /\ AfterPass(s).at \in {"load", "top"}
              /\ (AfterPass(s).at = "load" => AfterPass(s).job = "dock")
        BY <1>1 DEF AfterPass, Process
      <4>3. JobOK(AfterPass(s)) /\ Outside(AfterPass(s)) /\ AfterPass(s).at # "down"
        BY <4>2 DEF JobOK, Outside, InLock
      <4> QED BY <4>1, <4>2, <4>3
    <3>3. CASE s.ok /\ p # Worker
      <4>1. proc' = [proc EXCEPT ![p] = Down]
        BY <1>1, <1>9, <3>3 DEF Release
      <4>2. JobOK(Down) /\ Outside(Down)
        BY DownOutside
      <4> QED BY <4>1, <4>2, Zenon
    <3> QED BY <3>1, <3>2, <3>3
  <2>3. PICK r : /\ proc' = [proc EXCEPT ![p] = r]
                 /\ r = Down \/ (r.at # "down" /\ r.pid = s.pid)
                 /\ JobOK(r) /\ Outside(r)
    BY <2>2
  <2>4. \A q \in Procs : proc'[q] = IF q = p THEN r ELSE proc[q]
    BY <1>3, <2>3
  <2> QED BY <2>1, <2>3, <2>4 DEF Moved, Goes, LockMove
<1> QED BY <1>6, <1>7, <1>8, <1>9

(* The steps on the file leave the lock alone and their process as far     *)
(* inside or outside of it as it was.                                      *)
LEMMA FileStepMoves ==
  ASSUME LockInv, NEW p \in Procs,
         \/ Truncate(p) \/ Write(p) \/ Enqueue(p) \/ Load(p)
         \/ Exchange(p) \/ ReportMode(p)
  PROVE  \E r : Moved(p, r)
<1> DEFINE s == proc[p]
<1>1. proc \in [Procs -> Process] /\ s \in Process /\ JobOK(s)
  BY DEF LockInv, CoreTypeOK
<1>2. s.job \in {"pass", "docked", "away", "candidate", "dock", "mark"}
        /\ s.next \in {"top", "load", "release"}
  BY <1>1 DEF Process
<1>3. lock' = lock
  BY DEF Truncate, Write, Enqueue, Load, Exchange, ReportMode
<1>4. ASSUME NEW r, proc' = [proc EXCEPT ![p] = r], s.at # "down",
             r = Down \/ (r.at # "down" /\ r.pid = s.pid), JobOK(r), r.at # "stale",
             InLock(r) <=> InLock(s)
      PROVE  \E x : Moved(p, x)
  <2>1. \A q \in Procs : proc'[q] = IF q = p THEN r ELSE proc[q]
    BY <1>1, <1>4
  <2>2. LockMove(s, r)
    BY <1>3, <1>4 DEF LockMove
  <2> QED BY <1>4, <2>1, <2>2 DEF Moved, Goes
<1>5. \A at \in {"load", "request", "truncate", "write", "release", "top"} :
        /\ [s EXCEPT !.at = at].pid = s.pid /\ [s EXCEPT !.at = at].at = at
        /\ [s EXCEPT !.at = at].job = s.job /\ [s EXCEPT !.at = at].next = s.next
  BY <1>1 DEF Process
<1>6. \A M, next :
        LET r == [s EXCEPT !.mem = M, !.next = next, !.at = "truncate"]
        IN r.pid = s.pid /\ r.at = "truncate" /\ r.job = s.job /\ r.next = next
  BY <1>1 DEF Process
<1>7. ASSUME NEW M, NEW next, SaveThen(p, M, next), s.at \in {"enqueue", "load", "request"},
             s.job \in {"dock", "mark"} <=> next = "top"
      PROVE  \E x : Moved(p, x)
  <2> DEFINE r == [s EXCEPT !.mem = M, !.next = next, !.at = "truncate"]
  <2>1. proc' = [proc EXCEPT ![p] = r]
    BY <1>1, <1>7 DEF SaveThen
  <2>2. r.pid = s.pid /\ r.at = "truncate" /\ r.job = s.job /\ r.next = next
    BY <1>6
  <2> HIDE DEF r
  <2>3. JobOK(r) /\ (InLock(r) <=> InLock(s)) /\ r.at # "down" /\ r.at # "stale" /\ s.at # "down"
    BY <1>7, <2>2 DEF JobOK, InLock
  <2> QED BY <1>4, <2>1, <2>2, <2>3
<1>8. ASSUME Fail(p), s.at \in {"enqueue", "load", "request"}, s.job \notin {"dock", "mark"}
      PROVE  \E x : Moved(p, x)
  <2> DEFINE r == [s EXCEPT !.ok = FALSE, !.at = "release"]
  <2>1. proc' = [proc EXCEPT ![p] = r]
    BY <1>1, <1>8 DEF Fail
  <2>2. r.pid = s.pid /\ r.at = "release" /\ r.job = s.job
    BY <1>1 DEF Process
  <2> HIDE DEF r
  <2>3. JobOK(r) /\ (InLock(r) <=> InLock(s)) /\ r.at # "down" /\ r.at # "stale" /\ s.at # "down"
    BY <1>8, <2>2 DEF JobOK, InLock
  <2> QED BY <1>4, <2>1, <2>2, <2>3
<1>9. ASSUME NEW at \in {"load", "request", "write"}, Goto(p, at),
             s.at \in {"enqueue", "load", "truncate"}, s.at = "truncate" <=> at = "write"
      PROVE  \E x : Moved(p, x)
  <2> DEFINE r == [s EXCEPT !.at = at]
  <2>1. proc' = [proc EXCEPT ![p] = r]
    BY <1>1, <1>9 DEF Goto
  <2>2. r.pid = s.pid /\ r.at = at /\ r.job = s.job /\ r.next = s.next
    BY <1>5
  <2> HIDE DEF r
  <2>3. JobOK(r) /\ (InLock(r) <=> InLock(s)) /\ r.at # "down" /\ r.at # "stale" /\ s.at # "down"
    BY <1>1, <1>9, <2>2 DEF JobOK, InLock
  <2> QED BY <1>4, <2>1, <2>2, <2>3
<1>10. ASSUME proc' = [proc EXCEPT ![p] = Threw(p)], s.at # "down", ~ InLock(s)
       PROVE  \E x : Moved(p, x)
  <2> DEFINE r == Threw(p)
  <2>1. /\ r = Down \/ (r.at # "down" /\ r.pid = s.pid)
        /\ JobOK(r) /\ Outside(r)
    BY ThrewOutside DEF LockInv
  <2> HIDE DEF r
  <2>2. r.at # "stale" /\ (InLock(r) <=> InLock(s))
    BY <1>10, <2>1 DEF Outside
  <2> QED BY <1>4, <1>10, <2>1, <2>2 DEF r
<1>11. CASE Truncate(p)
  BY <1>9, <1>11 DEF Truncate, Is
<1>12. CASE Write(p)
  <2> DEFINE r == [s EXCEPT !.at = s.next, !.failures = IF s.job = "dock" THEN 0 ELSE @]
  <2>1. proc' = [proc EXCEPT ![p] = r]
    BY <1>1, <1>12 DEF Write
  <2>2. r.pid = s.pid /\ r.at = s.next /\ r.job = s.job /\ s.at \in {"truncate", "write"}
    BY <1>1, <1>12 DEF Process, Write, Is
  <2> HIDE DEF r
  <2>3. s.job \in {"dock", "mark"} <=> s.next = "top"
    BY <1>1, <2>2 DEF JobOK
  <2>4. JobOK(r) /\ (InLock(r) <=> InLock(s)) /\ r.at # "down" /\ r.at # "stale" /\ s.at # "down"
    BY <1>2, <2>2, <2>3 DEF JobOK, InLock
  <2> QED BY <1>4, <2>1, <2>2, <2>4
<1>13. CASE Enqueue(p)
  <2>1. s.at = "enqueue" /\ s.job \notin {"dock", "mark"}
    BY <1>1, <1>13 DEF Enqueue, Is, JobOK
  <2>2. Fail(p) \/ Goto(p, "load") \/ SaveThen(p, Enqueued, "load")
    BY <1>13 DEF Enqueue
  <2>3. CASE Fail(p)
    BY <1>8, <2>1, <2>3
  <2>4. CASE Goto(p, "load")
    BY <1>9, <2>1, <2>4
  <2>5. CASE SaveThen(p, Enqueued, "load")
    BY <1>7, <2>1, <2>5
  <2> QED BY <2>2, <2>3, <2>4, <2>5
<1>14. CASE Load(p)
  <2>1. s.at = "load"
    BY <1>14 DEF Load, Is
  <2>2. CASE file = Torn /\ s.job \notin {"dock", "mark"}
    <3>1. Fail(p)
      BY <1>14, <2>2 DEF Load
    <3> QED BY <1>8, <2>1, <2>2, <3>1
  <2>3. CASE file = Torn /\ s.job = "dock"
    <3>1. proc' = [proc EXCEPT ![p] = Threw(p)]
      BY <1>14, <2>3 DEF Load
    <3> QED BY <1>10, <2>1, <2>3, <3>1 DEF InLock
  <2>4. CASE file = Torn /\ s.job = "mark"
    <3>1. proc' = [proc EXCEPT ![p] = Down]
      BY <1>14, <2>4 DEF Load
    <3>2. JobOK(Down) /\ Down.at # "stale" /\ (InLock(Down) <=> InLock(s))
      BY <2>4, DownOutside DEF Outside, InLock
    <3> QED BY <1>4, <2>1, <3>1, <3>2
  <2>5. CASE file # Torn /\ s.job = "mark"
    <3>1. SaveThen(p, [file EXCEPT !.mode = "away"], "top")
      BY <1>14, <2>5 DEF Load
    <3> QED BY <1>7, <2>1, <2>5, <3>1
  <2>6. CASE file # Torn /\ s.job = "candidate"
    <3> DEFINE c == [seq |-> file.next, source |-> "candidate", id |-> s.nth]
    <3>1. SaveThen(p, [file EXCEPT !.next = @ + 1, !.outbox = @ \cup {c}], "release")
      BY <1>14, <2>6 DEF Load
    <3> HIDE DEF c
    <3> QED BY <1>7, <2>1, <2>6, <3>1
  <2>7. CASE file # Torn /\ s.job \notin {"mark", "candidate"}
    <3> DEFINE r == [s EXCEPT !.mem = file, !.at = "request"]
    <3>1. proc' = [proc EXCEPT ![p] = r]
      BY <1>1, <1>14, <2>7 DEF Load
    <3>2. r.pid = s.pid /\ r.at = "request" /\ r.job = s.job
      BY <1>1 DEF Process
    <3> HIDE DEF r
    <3>3. JobOK(r) /\ (InLock(r) <=> InLock(s)) /\ r.at # "down" /\ r.at # "stale" /\ s.at # "down"
      BY <2>1, <3>2 DEF JobOK, InLock
    <3> QED BY <1>4, <3>1, <3>2, <3>3
  <2> QED BY <2>2, <2>3, <2>4, <2>5, <2>6, <2>7
<1>15. CASE Exchange(p)
  <2>1. s.at = "request" /\ s.job = "pass"
    BY <1>15 DEF Exchange, Is
  <2>2. CASE reachable /\ ~ Refused(s.mem.outbox)
    <3>1. SaveThen(p, Answered(s.mem, AcceptedThrough(s.mem.outbox)), "release")
      BY <1>15, <2>2 DEF Exchange
    <3> QED BY <1>7, <2>1, <3>1
  <2>3. CASE ~ (reachable /\ ~ Refused(s.mem.outbox))
    <3> DEFINE r == [s EXCEPT !.ok = FALSE, !.next = "release", !.at = "truncate"]
    <3>1. proc' = [proc EXCEPT ![p] = r]
      BY <1>1, <1>15, <2>3 DEF Exchange
    <3>2. r.pid = s.pid /\ r.at = "truncate" /\ r.job = s.job /\ r.next = "release"
      BY <1>1 DEF Process
    <3> HIDE DEF r
    <3>3. JobOK(r) /\ (InLock(r) <=> InLock(s)) /\ r.at # "down" /\ r.at # "stale" /\ s.at # "down"
      BY <2>1, <3>2 DEF JobOK, InLock
    <3> QED BY <1>4, <3>1, <3>2, <3>3
  <2> QED BY <2>2, <2>3
<1>16. CASE ReportMode(p)
  <2>1. s.at = "request" /\ s.job \in {"docked", "away", "dock"}
    BY <1>16 DEF ReportMode, Is
  <2>2. CASE reachable
    <3> DEFINE mode == IF s.job = "away" THEN "away" ELSE "docked"
    <3>1. SaveThen(p, [s.mem EXCEPT !.mode = mode], IF s.job = "dock" THEN "top" ELSE "release")
      BY <1>16, <2>2 DEF ReportMode
    <3> HIDE DEF mode
    <3>2. s.job \in {"dock", "mark"} <=> (IF s.job = "dock" THEN "top" ELSE "release") = "top"
      BY <2>1
    <3> QED BY <1>7, <2>1, <3>1, <3>2
  <2>3. CASE ~ reachable /\ s.job = "dock"
    <3>1. proc' = [proc EXCEPT ![p] = Threw(p)]
      BY <1>16, <2>3 DEF ReportMode
    <3> QED BY <1>10, <2>1, <2>3, <3>1 DEF InLock
  <2>4. CASE ~ reachable /\ s.job # "dock"
    <3>1. Fail(p)
      BY <1>16, <2>4 DEF ReportMode
    <3> QED BY <1>8, <2>1, <2>4, <3>1
  <2> QED BY <2>2, <2>3, <2>4
<1> QED BY <1>11, <1>12, <1>13, <1>14, <1>15, <1>16

(* The lock stays its owner's, whichever process goes on.                  *)
LEMMA GoesOwned ==
  ASSUME LockInv, OneRemover, NEW p \in Procs, NEW r, Goes(p, r)
  PROVE  (\A q \in Procs : JobOK(proc[q]))' /\ PidsApart' /\ LockOwned'
<1> DEFINE s == proc[p]
<1>1. /\ \A q \in Procs : proc'[q] = IF q = p THEN r ELSE proc[q]
      /\ r = Down \/ (r.at # "down" /\ s.at # "down" /\ r.pid = s.pid)
      /\ JobOK(r) /\ LockMove(s, r)
  BY DEF Goes
<1>2. \A q \in Procs : JobOK(proc[q])
  BY DEF LockInv
<1>3. \A q \in Procs : JobOK(proc'[q])
  BY <1>1, <1>2
<1>4. /\ \A q \in Procs : proc[q].at = "down" <=> proc[q].pid = 0
      /\ \A q, x \in Procs : proc[q].pid = proc[x].pid /\ proc[q].pid # 0 => q = x
  BY DEF LockInv, PidsApart
<1>5. Down.pid = 0 /\ Down.at = "down" /\ ~ InLock(Down)
  BY DownOutside DEF Outside
<1>6. PidsApart'
  <2>1. r.at = "down" <=> r.pid = 0
    BY <1>1, <1>4, <1>5
  <2>2. \A q \in Procs : r.pid = proc[q].pid /\ r.pid # 0 => q = p
    BY <1>1, <1>4, <1>5
  <2>3. \A q \in Procs : (proc'[q].at = "down" <=> proc'[q].pid = 0)
    BY <1>1, <1>4, <2>1
  <2>4. \A q, x \in Procs : proc'[q].pid = proc'[x].pid /\ proc'[q].pid # 0 => q = x
    BY <1>1, <1>4, <2>2
  <2> QED BY <2>3, <2>4 DEF PidsApart
<1>7. /\ \A q \in Procs : InLock(proc[q]) => lock.by = proc[q].pid
      /\ \A q \in Procs : proc[q].at = "stale" => lock # NoLock /\ \A x \in Procs : ~ InLock(proc[x])
      /\ \A q, x \in Procs : proc[q].at = "stale" /\ proc[x].at = "stale" => q = x
  BY DEF LockInv, LockOwned, OneRemover
<1>8. \A q \in Procs : InLock(proc[q]) => proc[q].pid # 0
  BY <1>4 DEF InLock
<1>9. CASE /\ lock'.by = lock.by /\ (lock # NoLock <=> lock' # NoLock)
           /\ InLock(r) => InLock(s)
           /\ r.at # "stale"
  <2>1. InLock(r) => r.pid = s.pid
    BY <1>1, <1>5
  <2>2. \A q \in Procs : InLock(proc'[q]) => lock'.by = proc'[q].pid
    BY <1>1, <1>7, <1>9, <2>1
  <2>3. \A q \in Procs : proc'[q].at = "stale" =>
          lock' # NoLock /\ \A x \in Procs : ~ InLock(proc'[x])
    BY <1>1, <1>7, <1>9
  <2> QED BY <1>3, <1>6, <2>2, <2>3 DEF LockOwned
<1>10. CASE /\ lock = NoLock /\ lock'.by = s.pid /\ lock' # NoLock
            /\ InLock(r) /\ r.pid = s.pid /\ s.at # "down"
  <2>1. \A q \in Procs : ~ InLock(proc[q]) /\ proc[q].at # "stale"
    <3>1. lock.by = 0
      BY <1>10 DEF NoLock
    <3> QED BY <1>7, <1>8, <1>10, <3>1
  <2>2. r.at # "stale"
    BY <1>10 DEF InLock
  <2>3. \A q \in Procs : InLock(proc'[q]) => lock'.by = proc'[q].pid
    BY <1>1, <1>10, <2>1
  <2>4. \A q \in Procs : proc'[q].at # "stale"
    BY <1>1, <2>1, <2>2
  <2> QED BY <1>3, <1>6, <2>3, <2>4 DEF LockOwned
<1>11. CASE /\ lock' = lock /\ lock # NoLock /\ lock.by \notin Alive
            /\ r.at = "stale"
  <2>1. \A q \in Procs : ~ InLock(proc[q])
    BY <1>7, <1>8, <1>11 DEF Alive
  <2>2. ~ InLock(r)
    BY <1>11 DEF InLock
  <2>3. \A q \in Procs : ~ InLock(proc'[q])
    BY <1>1, <2>1, <2>2
  <2> QED BY <1>3, <1>6, <1>11, <2>3 DEF LockOwned
<1>12. CASE (s.at = "stale" \/ InLock(s)) /\ lock' = NoLock /\ Outside(r)
  <2>1. \A q \in Procs \ {p} : ~ InLock(proc[q]) /\ proc[q].at # "stale"
    <3>1. CASE s.at = "stale"
      BY <1>7, <3>1
    <3>2. CASE InLock(s)
      BY <1>4, <1>7, <1>8, <3>2
    <3> QED BY <1>12, <3>1, <3>2
  <2>2. \A q \in Procs : ~ InLock(proc'[q]) /\ proc'[q].at # "stale"
    BY <1>1, <1>12, <2>1 DEF Outside
  <2> QED BY <1>3, <1>6, <2>2 DEF LockOwned
<1> QED BY <1>1, <1>9, <1>10, <1>11, <1>12 DEF LockMove

LEMMA LockInvStep == LockInv /\ CopyInv' /\ OneRemover /\ [CoreNext]_vars => LockInv'
<1> SUFFICES ASSUME LockInv, CopyInv', OneRemover, [CoreNext]_vars
             PROVE  LockInv'
  OBVIOUS
<1> USE ConstantFacts
<1>1. proc \in [Procs -> Process] /\ CoreTypeOK'
  BY DEF LockInv, CoreTypeOK, CopyInv
<1>2. ASSUME NEW p \in Procs, NEW r, Goes(p, r)
      PROVE  LockInv'
  BY <1>1, <1>2, GoesOwned DEF LockInv
<1>3. ASSUME NEW p \in Procs, Step(p)
      PROVE  LockInv'
  BY <1>2, <1>3, LockStepMoves, FileStepMoves DEF Step, Moved
<1>4. ASSUME NEW p \in Procs, NEW r, proc' = [proc EXCEPT ![p] = r], lock' = lock,
             r = Down \/ (r.at # "down" /\ proc[p].at # "down" /\ r.pid = proc[p].pid),
             JobOK(r), Outside(r)
      PROVE  LockInv'
  <2>1. \A q \in Procs : proc'[q] = IF q = p THEN r ELSE proc[q]
    BY <1>1, <1>4
  <2>2. Goes(p, r)
    BY <1>4, <2>1 DEF Goes, LockMove, Outside
  <2> QED BY <1>2, <2>2
<1>5. ASSUME NEW p \in Procs, Crash(p)
      PROVE  LockInv'
  BY <1>4, <1>5, DownOutside DEF Crash
<1>6. ASSUME NEW p \in Commands, NEW kind \in CommandKinds, StartCommand(p, kind)
      PROVE  LockInv'
  <2>1. PICK pid \in FreshPids : proc' = [proc EXCEPT ![p] =
         [Down EXCEPT !.pid = pid, !.nth = count.commands + 1,
                      !.job = IF kind = "sync" THEN "pass" ELSE kind, !.at = "open"]]
    BY <1>6 DEF StartCommand
  <2> DEFINE job == IF kind = "sync" THEN "pass" ELSE kind
             r == [Down EXCEPT !.pid = pid, !.nth = count.commands + 1, !.job = job, !.at = "open"]
  <2>2. lock' = lock /\ proc[p].at = "down"
    BY <1>6 DEF StartCommand, Is
  <2>3. job \notin {"dock", "mark"}
    BY CoreAssumption
  <2>4. pid \in Nat \ {0} /\ \A q \in Procs : proc[q].pid # pid
    BY DEF FreshPids, Alive
  <2>5. \A q \in Procs : proc'[q] = IF q = p THEN r ELSE proc[q]
    BY <1>1, <2>1
  <2> HIDE DEF job
  <2>6. r.pid = pid /\ r.at = "open" /\ r.job = job
    BY DEF Down
  <2> HIDE DEF r
  <2>7. JobOK(r) /\ Outside(r)
    BY <2>3, <2>6 DEF JobOK, Outside, InLock
  <2>8. (\A q \in Procs : JobOK(proc[q]))'
    BY <2>5, <2>7 DEF LockInv
  <2>9. PidsApart'
    <3>1. /\ \A q \in Procs : proc[q].at = "down" <=> proc[q].pid = 0
          /\ \A q, x \in Procs : proc[q].pid = proc[x].pid /\ proc[q].pid # 0 => q = x
      BY DEF LockInv, PidsApart
    <3>2. \A q \in Procs : (proc'[q].at = "down" <=> proc'[q].pid = 0)
      BY <2>4, <2>5, <2>6, <3>1
    <3>3. \A q, x \in Procs : proc'[q].pid = proc'[x].pid /\ proc'[q].pid # 0 => q = x
      BY <2>4, <2>5, <2>6, <3>1
    <3> QED BY <3>2, <3>3 DEF PidsApart
  <2>10. LockOwned'
    <3>1. \A q \in Procs : /\ InLock(proc'[q]) => proc'[q] = proc[q] /\ InLock(proc[q])
                           /\ proc'[q].at = "stale" => proc'[q] = proc[q]
      BY <2>5, <2>7 DEF Outside
    <3> QED BY <2>2, <3>1 DEF LockInv, LockOwned
  <2> QED BY <1>1, <2>8, <2>9, <2>10 DEF LockInv
<1>7. CASE Turn
  <2> DEFINE r == [proc[Worker] EXCEPT !.job = "pass", !.seen = file.mode, !.ok = TRUE, !.at = "open"]
  <2>1. proc[Worker] \in Process /\ proc[Worker].at = "top" /\ lock' = lock
    BY <1>1, <1>7 DEF Turn, Is
  <2>2. CASE file = Torn
    <3>1. proc' = [proc EXCEPT ![Worker] = Down]
      BY <1>7, <2>2 DEF Turn
    <3> QED BY <1>4, <2>1, <3>1, DownOutside
  <2>3. CASE file # Torn
    <3>1. proc' = [proc EXCEPT ![Worker] = r]
      BY <1>1, <1>7, <2>3 DEF Turn
    <3>2. r.pid = proc[Worker].pid /\ r.at = "open" /\ r.job = "pass"
      BY <2>1 DEF Process
    <3> HIDE DEF r
    <3>3. JobOK(r) /\ Outside(r)
      BY <3>2 DEF JobOK, Outside, InLock
    <3> QED BY <1>4, <2>1, <3>1, <3>2, <3>3
  <2> QED BY <2>2, <2>3
<1>8. CASE Restart
  <2>1. \A q \in Procs : \/ proc'[q] = Down
                         \/ /\ q = Worker
                            /\ \E pid \in Pids : proc'[q] = [Down EXCEPT !.pid = pid, !.at = "top"]
    <3>1. CASE file = Torn
      BY <1>8, <3>1 DEF Restart
    <3>2. CASE file # Torn
      <4>1. PICK pid \in Pids : proc' = [p \in Procs |->
                       IF p = Worker THEN [Down EXCEPT !.pid = pid, !.at = "top"] ELSE Down]
        BY <1>8, <3>2 DEF Restart
      <4> QED BY <4>1
    <3> QED BY <3>1, <3>2
  <2>2. \A pid \in Pids : /\ [Down EXCEPT !.pid = pid, !.at = "top"].pid = pid
                          /\ [Down EXCEPT !.pid = pid, !.at = "top"].at = "top"
    BY DEF Down
  <2>3. \A q \in Procs : \/ proc'[q].pid = 0 /\ proc'[q].at = "down"
                         \/ q = Worker /\ proc'[q].pid \in Nat \ {0} /\ proc'[q].at = "top"
    <3> SUFFICES ASSUME NEW q \in Procs
                 PROVE  \/ proc'[q].pid = 0 /\ proc'[q].at = "down"
                        \/ q = Worker /\ proc'[q].pid \in Nat \ {0} /\ proc'[q].at = "top"
      OBVIOUS
    <3>1. CASE proc'[q] = Down
      BY <3>1, DownOutside
    <3>2. ASSUME q = Worker, NEW pid \in Pids,
                 proc'[q] = [Down EXCEPT !.pid = pid, !.at = "top"]
          PROVE  q = Worker /\ proc'[q].pid \in Nat \ {0} /\ proc'[q].at = "top"
      <4>1. proc'[q].pid = pid /\ proc'[q].at = "top"
        BY <2>2, <3>2, Zenon
      <4> QED BY <3>2, <4>1
    <3> QED BY <2>1, <3>1, <3>2
  <2>4. (\A q \in Procs : JobOK(proc[q]))'
    BY <2>3 DEF JobOK
  <2>5. PidsApart'
    BY <2>3 DEF PidsApart
  <2>6. LockOwned'
    BY <2>3 DEF LockOwned, InLock
  <2> QED BY <1>1, <2>4, <2>5, <2>6 DEF LockInv
<1>9. CASE AppendLocal \/ Flip \/ UNCHANGED vars
  <2>1. proc' = proc /\ lock' = lock
    BY <1>9 DEF AppendLocal, Flip, vars
  <2> QED BY <1>1, <2>1 DEF LockInv, PidsApart, LockOwned
<1> QED BY <1>3, <1>5, <1>6, <1>7, <1>8, <1>9 DEF CoreNext

LEMMA LockInvInit == CoreInit => LockInv
<1> SUFFICES ASSUME CoreInit
             PROVE  LockInv
  OBVIOUS
<1> USE ConstantFacts
<1>1. PICK pid \in Pids :
        proc = [p \in Procs |-> IF p = Worker THEN [Down EXCEPT !.pid = pid, !.at = "top"] ELSE Down]
  BY DEF CoreInit
<1>2. [Down EXCEPT !.pid = pid, !.at = "top"].pid = pid
        /\ [Down EXCEPT !.pid = pid, !.at = "top"].at = "top"
  BY DEF Down
<1>3. \A q \in Procs : \/ proc[q].pid = 0 /\ proc[q].at = "down"
                       \/ q = Worker /\ proc[q].pid \in Nat \ {0} /\ proc[q].at = "top"
  BY <1>1, <1>2, DownOutside
<1>4. \A q \in Procs : JobOK(proc[q])
  BY <1>3 DEF JobOK
<1>5. PidsApart
  BY <1>3 DEF PidsApart
<1>6. LockOwned
  BY <1>3 DEF LockOwned, InLock
<1> QED BY <1>4, <1>5, <1>6, CopyInvInit DEF LockInv, CopyInv

LEMMA LockInvMeans == LockInv => CoreSound
<1> SUFFICES ASSUME LockInv, NEW p \in Procs, NEW q \in Procs, Locked(p), Locked(q)
             PROVE  p = q
  BY DEF CoreSound, LockExcludes, LockInv
<1>1. InLock(proc[p]) /\ InLock(proc[q])
  BY DEF Locked, InLock
<1>2. proc[p].pid # 0 /\ lock.by = proc[p].pid /\ lock.by = proc[q].pid
  BY <1>1 DEF LockInv, LockOwned, PidsApart, InLock
<1> QED BY <1>2 DEF LockInv, PidsApart

(* withSuitcaseMembershipLock keeps its holders apart, through crashes,     *)
(* restarts, repeated process numbers and torn files, in every run in      *)
(* which no two processes find the same lock stale and remove it one after *)
(* the other: that race is the only way for two to get in.                 *)
THEOREM LockKeepsApart == CoreSpec /\ []OneRemover => []CoreSound
<1>1. CopyInv /\ LockInv /\ OneRemover /\ [CoreNext]_vars => CopyInv' /\ LockInv'
  BY CopyInvStep, LockInvStep
<1> QED BY <1>1, CopyInvInit, LockInvInit, LockInvMeans, PTL DEF CoreSpec

-----------------------------------------------------------------------------
(* WITHOUT DEATHS                                                          *)

(* Where nobody dies and no step falls into a write: the file can be read, *)
(* the worker runs, whoever created the lock is still in it.               *)
CalmInv ==
  /\ file # Torn
  /\ proc[Worker].at # "down"
  /\ \A p \in Procs : proc[p].at # "stale"
  /\ lock # NoLock => \E p \in Procs : InLock(proc[p])

LEMMA MembershipIsWhole == \A M \in Membership : M # Torn
<1> SUFFICES ASSUME Torn \in Membership
             PROVE  FALSE
  OBVIOUS
<1>1. DOMAIN Torn = {"torn"}
  BY DEF Torn
<1>2. "next" \in DOMAIN Torn
  BY DEF Membership
<1> QED BY <1>1, <1>2

LEMMA WorkerGoesOn ==
  ASSUME CoreTypeOK, file # Torn, Step(Worker)
  PROVE  proc'[Worker].at # "down"
<1> USE ConstantFacts
<1> DEFINE s == proc[Worker]
<1>1. proc \in [Procs -> Process] /\ s \in Process /\ s.next \in {"top", "load", "release"}
  BY DEF CoreTypeOK, Process
<1>2. \A r : proc' = [proc EXCEPT ![Worker] = r] => proc'[Worker] = r
  BY <1>1
<1>3. \A at : Goto(Worker, at) => proc'[Worker].at = at
  BY <1>1 DEF Goto, Process
<1>4. \A M, next : SaveThen(Worker, M, next) => proc'[Worker].at = "truncate"
  BY <1>1 DEF SaveThen, Process
<1>5. Fail(Worker) => proc'[Worker].at = "release"
  BY <1>1 DEF Fail, Process
<1>6. Threw(Worker).at \in {"load", "top"}
  BY <1>1 DEF Threw, AfterFailure, Process
<1>7. AfterPass(s).at \in {"load", "top"}
  BY <1>1 DEF AfterPass, Process
<1>8. proc' = [proc EXCEPT ![Worker] = Threw(Worker)] => proc'[Worker].at # "down"
  BY <1>2, <1>6
<1>9. CASE Open(Worker)
  <2>1. CASE lock = NoLock
    BY <1>3, <1>9, <2>1 DEF Open
  <2>2. CASE lock # NoLock /\ lock.named /\ lock.by \notin Alive
    BY <1>1, <1>9, <2>2 DEF Open, Process
  <2>3. CASE lock # NoLock /\ ~ (lock.named /\ lock.by \notin Alive)
    BY <1>8, <1>9, <2>3 DEF Open
  <2> QED BY <2>1, <2>2, <2>3
<1>10. CASE RemoveStale(Worker)
  BY <1>3, <1>8, <1>10 DEF RemoveStale
<1>11. CASE NameOwner(Worker)
  BY <1>3, <1>11 DEF NameOwner
<1>12. CASE Release(Worker)
  <2>1. CASE ~ s.ok
    BY <1>1, <1>8, <1>12, <2>1 DEF Release
  <2>2. CASE s.ok
    <3>1. proc' = [proc EXCEPT ![Worker] = AfterPass(s)]
      BY <1>1, <1>12, <2>2 DEF Release
    <3> QED BY <1>2, <1>7, <3>1
  <2> QED BY <2>1, <2>2
<1>13. CASE Truncate(Worker)
  BY <1>3, <1>13 DEF Truncate
<1>14. CASE Write(Worker)
  <2>1. proc'[Worker].at = s.next
    BY <1>1, <1>14 DEF Write, Process
  <2> QED BY <1>1, <2>1
<1>15. CASE Enqueue(Worker)
  BY <1>3, <1>4, <1>5, <1>15 DEF Enqueue
<1>16. CASE Load(Worker)
  <2>1. CASE s.job \in {"mark", "candidate"}
    BY <1>4, <1>16, <2>1 DEF Load
  <2>2. CASE s.job \notin {"mark", "candidate"}
    BY <1>1, <1>16, <2>2 DEF Load, Process
  <2> QED BY <2>1, <2>2
<1>17. CASE Exchange(Worker)
  <2>1. CASE reachable /\ ~ Refused(s.mem.outbox)
    BY <1>4, <1>17, <2>1 DEF Exchange
  <2>2. CASE ~ (reachable /\ ~ Refused(s.mem.outbox))
    BY <1>1, <1>17, <2>2 DEF Exchange, Process
  <2> QED BY <2>1, <2>2
<1>18. CASE ReportMode(Worker)
  BY <1>4, <1>5, <1>8, <1>18 DEF ReportMode
<1> QED BY <1>9, <1>10, <1>11, <1>12, <1>13, <1>14, <1>15, <1>16, <1>17, <1>18 DEF Step

LEMMA CalmStep ==
  ASSUME MaxCrashes = 0, SaveWindow = FALSE, LockInv, CalmInv, [CoreNext]_vars
  PROVE  CalmInv'
<1> USE ConstantFacts
<1>1. proc \in [Procs -> Process]
  BY DEF LockInv, CoreTypeOK
<1>2. lock # NoLock => lock.by \in Alive
  BY DEF CalmInv, LockInv, LockOwned, PidsApart, InLock, Alive
<1>3. ASSUME NEW p \in Procs, Step(p)
      PROVE  CalmInv'
  <2>1. PICK r : Moved(p, r)
    BY <1>3, LockStepMoves, FileStepMoves DEF Step
  <2>2. \A q \in Procs : proc'[q] = IF q = p THEN r ELSE proc[q]
    BY <2>1 DEF Moved, Goes
  <2>3. file' # Torn
    <3>1. CASE Write(p)
      <4>1. file' = proc[p].mem
        BY <3>1 DEF Write
      <4> QED BY <1>1, <4>1, MembershipIsWhole DEF Process
    <3>2. CASE ~ Write(p)
      <4>1. file' = file
        BY <1>3, <3>2 DEF Step, Open, RemoveStale, NameOwner, Release, Truncate, Enqueue, Load,
                          Exchange, ReportMode
      <4> QED BY <4>1 DEF CalmInv
    <3> QED BY <3>1, <3>2
  <2>4. proc'[Worker].at # "down"
    <3>1. CASE p = Worker
      BY <1>3, <3>1, WorkerGoesOn DEF LockInv, CalmInv
    <3>2. CASE p # Worker
      BY <2>2, <3>2 DEF CalmInv
    <3> QED BY <3>1, <3>2
  <2>5. LockMove(proc[p], r) /\ (InLock(proc[p]) => InLock(r) \/ lock' = NoLock)
    BY <2>1 DEF Moved, Goes
  <2>6. r.at # "stale"
    BY <1>2, <2>5 DEF LockMove, InLock, Outside
  <2>7. \A q \in Procs : proc'[q].at # "stale"
    BY <2>2, <2>6 DEF CalmInv
  <2>8. lock' # NoLock => \E q \in Procs : InLock(proc'[q])
    <3> SUFFICES ASSUME lock' # NoLock
                 PROVE  \E q \in Procs : InLock(proc'[q])
      OBVIOUS
    <3>1. CASE InLock(r)
      BY <2>2, <3>1
    <3>2. CASE ~ InLock(r)
      <4>1. lock # NoLock /\ ~ InLock(proc[p])
        BY <2>5, <3>2 DEF LockMove
      <4>2. PICK q \in Procs : InLock(proc[q])
        BY <4>1 DEF CalmInv
      <4> QED BY <2>2, <4>1, <4>2
    <3> QED BY <3>1, <3>2
  <2> QED BY <2>3, <2>4, <2>7, <2>8 DEF CalmInv
<1>4. ASSUME NEW p \in Procs, Crash(p)
      PROVE  CalmInv'
  <2>1. count.crashes \in Nat /\ count.crashes < 0
    BY <1>4 DEF Crash, LockInv, CoreTypeOK
  <2> QED BY <2>1
<1>5. ASSUME NEW p \in Commands, NEW kind \in CommandKinds, StartCommand(p, kind)
      PROVE  CalmInv'
  <2>1. PICK pid \in FreshPids : proc' = [proc EXCEPT ![p] =
         [Down EXCEPT !.pid = pid, !.nth = count.commands + 1,
                      !.job = IF kind = "sync" THEN "pass" ELSE kind, !.at = "open"]]
    BY <1>5 DEF StartCommand
  <2>2. lock' = lock /\ file' = file /\ proc[p].at = "down"
    BY <1>5 DEF StartCommand, Is
  <2>3. (\A q \in Procs \ {p} : proc'[q] = proc[q]) /\ proc'[p].at = "open"
    BY <1>1, <2>1 DEF Down
  <2>4. ~ InLock(proc[p])
    BY <2>2 DEF InLock
  <2>5. p # Worker
    BY CoreAssumption DEF Worker
  <2> QED BY <2>2, <2>3, <2>4, <2>5 DEF CalmInv
<1>6. CASE Turn
  <2>1. proc' = [proc EXCEPT ![Worker] =
          [@ EXCEPT !.job = "pass", !.seen = file.mode, !.ok = TRUE, !.at = "open"]]
    BY <1>6 DEF Turn, CalmInv
  <2>2. lock' = lock /\ file' = file /\ proc[Worker].at = "top"
    BY <1>6 DEF Turn, Is
  <2>3. (\A q \in Procs \ {Worker} : proc'[q] = proc[q]) /\ proc'[Worker].at = "open"
    BY <1>1, <2>1 DEF Process
  <2>4. ~ InLock(proc[Worker])
    BY <2>2 DEF InLock
  <2> QED BY <2>2, <2>3, <2>4 DEF CalmInv
<1>7. CASE Restart
  BY <1>7 DEF Restart, Is, CalmInv
<1>8. CASE AppendLocal \/ Flip \/ UNCHANGED vars
  <2>1. proc' = proc /\ lock' = lock /\ file' = file
    BY <1>8 DEF AppendLocal, Flip, vars
  <2> QED BY <2>1 DEF CalmInv
<1> QED BY <1>3, <1>4, <1>5, <1>6, <1>7, <1>8 DEF CoreNext

LEMMA CalmInit == CoreInit => CalmInv
<1> SUFFICES ASSUME CoreInit
             PROVE  CalmInv
  OBVIOUS
<1>1. PICK pid \in Pids :
        proc = [p \in Procs |-> IF p = Worker THEN [Down EXCEPT !.pid = pid, !.at = "top"] ELSE Down]
  BY DEF CoreInit
<1>2. \A p \in Procs : proc[p].at = IF p = Worker THEN "top" ELSE "down"
  BY <1>1 DEF Down
<1>3. file # Torn /\ lock = NoLock
  BY PairedCopy, MembershipIsWhole DEF CoreInit
<1> QED BY <1>2, <1>3, ConstantFacts DEF CalmInv

(* The worker, commands and changes of mode never meet inside the lock as  *)
(* long as every process lives to release it and the file is never read    *)
(* half written: a lock is found stale only after a death.                 *)
THEOREM CalmLockKeepsApart ==
  MaxCrashes = 0 /\ SaveWindow = FALSE => (CoreSpec => []CoreSound)
<1> SUFFICES ASSUME MaxCrashes = 0, SaveWindow = FALSE
             PROVE  CoreSpec => []CoreSound
  OBVIOUS
<1>1. CalmInv => OneRemover
  BY DEF CalmInv, OneRemover
<1>2. LockInv /\ CalmInv /\ [CoreNext]_vars => CalmInv'
  BY CalmStep
<1>3. CopyInv /\ LockInv /\ CalmInv /\ [CoreNext]_vars => CopyInv' /\ LockInv' /\ CalmInv'
  BY <1>1, <1>2, CopyInvStep, LockInvStep
<1> QED BY <1>3, CopyInvInit, LockInvInit, CalmInit, LockInvMeans, PTL DEF CoreSpec

=============================================================================
