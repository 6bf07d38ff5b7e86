--------------------------- MODULE FleetSyncProofs ---------------------------
(***************************************************************************)
(* Proofs about FleetSync, for every number of suitcases, events, losses   *)
(* and crashes, every batch limit and every interleaving.                  *)
(***************************************************************************)
EXTENDS FleetSync, FiniteSetTheorems, WellFoundedInduction, TLAPS

(* The events of origin o in E are numbered 1, 2, ... without a gap. *)
SeqsOf(E, o) == {e.seq : e \in {x \in E : x.origin = o}}
Numbered(E, o) == \E n \in Nat : SeqsOf(E, o) = 1..n

(* The inductive invariant: beyond the types, each log is gapless and has   *)
(* one event per number; Home's rows are gapless and stem from the logs;   *)
(* what is in an outbox or on the wire stems from the log of its sender;   *)
(* and no acknowledgement, taken or on its way, exceeds what Home holds.   *)
LogInv ==
  \A s \in Suitcases :
    /\ IsFiniteSet(db[s])
    /\ \A e \in db[s] : e.origin = s
    /\ \A e, f \in db[s] : e.seq = f.seq => e = f
    /\ Numbered(db[s], s)

RowsInv ==
  /\ \A o \in Sites : Numbered(RangeOf(rows), o)
  /\ \A s \in Suitcases : \A e \in RangeOf(rows) : e.origin = s => e \in db[s]

FileInv == \A s \in Suitcases : outbox[s] \subseteq db[s] /\ acked[s] =< HomeLast(s)

NetInv ==
  /\ \A s \in Suitcases :
       /\ wire[s].type = "request" => wire[s].site = s /\ wire[s].events \subseteq db[s]
       /\ wire[s].type = "response" =>
            /\ wire[s].accepted =< HomeLast(s)
            /\ IsFiniteSet(wire[s].events)
            /\ IsFiniteSet(wire[s].skipped)
            /\ IsFiniteSet(wire[s].controls)
  /\ \A q \in stale : q.events \subseteq db[q.site]

FleetInv == FleetTypeOK /\ LogInv /\ RowsInv /\ FileInv /\ NetInv

-----------------------------------------------------------------------------
(* Sequences and sets of events.                                           *)

(* LastSeq of a gapless origin is the length of its numbering. *)
LEMMA LastSeqIs ==
  ASSUME NEW E, NEW o, NEW n \in Nat, SeqsOf(E, o) = 1..n
  PROVE  LastSeq(E, o) = n
<1> DEFINE seqs == SeqsOf(E, o)
<1>1. CASE n = 0
  BY <1>1 DEF LastSeq, SeqsOf
<1>2. CASE n > 0
  <2>1. n \in seqs /\ \A m \in seqs : m =< n
    BY <1>2
  <2>2. \A k \in seqs : (\A m \in seqs : m =< k) => k = n
    BY <2>1
  <2>3. (CHOOSE k \in seqs : \A m \in seqs : m =< k) = n
    BY <2>1, <2>2
  <2>4. LastSeq(E, o) = IF seqs = {} THEN 0 ELSE CHOOSE k \in seqs : \A m \in seqs : m =< k
    BY DEF LastSeq, SeqsOf
  <2> HIDE DEF seqs
  <2> QED
    BY <2>1, <2>3, <2>4
<1> QED
  BY <1>1, <1>2

(* LastSeq of a set of events is a natural number. *)
LEMMA LastSeqNat ==
  ASSUME NEW E, NEW o, Numbered(E, o)
  PROVE  LastSeq(E, o) \in Nat /\ SeqsOf(E, o) = 1 .. LastSeq(E, o)
BY LastSeqIs DEF Numbered

(* A gapless origin that gets the next numbers stays gapless. *)
LEMMA NumberedExtends ==
  ASSUME NEW E, NEW F, NEW o, Numbered(E, o), NEW k \in Nat,
         SeqsOf(F, o) = (LastSeq(E, o) + 1) .. (LastSeq(E, o) + k)
  PROVE  Numbered(E \cup F, o) /\ LastSeq(E \cup F, o) = LastSeq(E, o) + k
<1> DEFINE n == LastSeq(E, o)
<1>1. n \in Nat /\ SeqsOf(E, o) = 1..n
  BY LastSeqNat
<1>2. SeqsOf(E \cup F, o) = SeqsOf(E, o) \cup SeqsOf(F, o)
  BY DEF SeqsOf
<1> HIDE DEF n
<1>3. (1..n) \cup ((n + 1) .. (n + k)) = 1 .. (n + k)
  BY <1>1
<1>4. SeqsOf(E \cup F, o) = 1 .. (n + k)
  BY <1>1, <1>2, <1>3 DEF n
<1> QED
  BY <1>1, <1>4, LastSeqIs DEF Numbered, n

(* Events of other origins do not matter. *)
LEMMA OtherOrigins ==
  ASSUME NEW E, NEW F, NEW o, \A e \in F : e.origin # o
  PROVE  /\ SeqsOf(E \cup F, o) = SeqsOf(E, o)
         /\ LastSeq(E \cup F, o) = LastSeq(E, o)
         /\ Numbered(E, o) => Numbered(E \cup F, o)
<1>1. {x \in E \cup F : x.origin = o} = {x \in E : x.origin = o}
  OBVIOUS
<1>2. SeqsOf(E \cup F, o) = SeqsOf(E, o)
  BY <1>1 DEF SeqsOf
<1> DEFINE Top(seqs) == IF seqs = {} THEN 0 ELSE CHOOSE k \in seqs : \A m \in seqs : m =< k
<1>3. LastSeq(E \cup F, o) = Top(SeqsOf(E \cup F, o)) /\ LastSeq(E, o) = Top(SeqsOf(E, o))
  BY DEF LastSeq, SeqsOf
<1> HIDE DEF Top
<1> QED
  BY <1>2, <1>3 DEF Numbered

(* Appending one row adds it to the rows. *)
LEMMA RangeAppend ==
  ASSUME NEW S, NEW q \in Seq(S), NEW e \in S
  PROVE  Append(q, e) \in Seq(S) /\ RangeOf(Append(q, e)) = RangeOf(q) \cup {e}
<1>1. Append(q, e) \in Seq(S) /\ DOMAIN Append(q, e) = 1 .. (Len(q) + 1)
  OBVIOUS
<1>2. \A i \in 1 .. (Len(q) + 1) : Append(q, e)[i] = IF i = Len(q) + 1 THEN e ELSE q[i]
  OBVIOUS
<1>3. DOMAIN q = 1 .. Len(q) /\ Len(q) \in Nat
  OBVIOUS
<1> QED
  BY <1>1, <1>2, <1>3 DEF RangeOf

(* The rows of a concatenation are those of both parts. *)
LEMMA RangeConcat ==
  ASSUME NEW S, NEW q \in Seq(S), NEW r \in Seq(S)
  PROVE  q \o r \in Seq(S) /\ RangeOf(q \o r) = RangeOf(q) \cup RangeOf(r)
<1>1. q \o r \in Seq(S) /\ DOMAIN (q \o r) = 1 .. (Len(q) + Len(r))
  OBVIOUS
<1>2. \A i \in 1 .. (Len(q) + Len(r)) :
        (q \o r)[i] = IF i =< Len(q) THEN q[i] ELSE r[i - Len(q)]
  OBVIOUS
<1>3. /\ DOMAIN q = 1 .. Len(q) /\ Len(q) \in Nat
      /\ DOMAIN r = 1 .. Len(r) /\ Len(r) \in Nat
  OBVIOUS
<1>4. RangeOf(q) \subseteq RangeOf(q \o r)
  BY <1>1, <1>2, <1>3 DEF RangeOf
<1>5. RangeOf(r) \subseteq RangeOf(q \o r)
  <2> SUFFICES ASSUME NEW i \in 1 .. Len(r)
               PROVE  r[i] \in RangeOf(q \o r)
    BY <1>3 DEF RangeOf
  <2>1. Len(q) + i \in 1 .. (Len(q) + Len(r)) /\ (q \o r)[Len(q) + i] = r[i]
    BY <1>2, <1>3
  <2> QED
    BY <1>1, <2>1 DEF RangeOf
<1>6. RangeOf(q \o r) \subseteq RangeOf(q) \cup RangeOf(r)
  <2> SUFFICES ASSUME NEW i \in 1 .. (Len(q) + Len(r))
               PROVE  (q \o r)[i] \in RangeOf(q) \cup RangeOf(r)
    BY <1>1 DEF RangeOf
  <2> QED
    BY <1>2, <1>3 DEF RangeOf
<1> QED
  BY <1>1, <1>4, <1>5, <1>6

(* The elements of a sequence over S are in S. *)
LEMMA RangeInSet ==
  ASSUME NEW S, NEW q \in Seq(S)
  PROVE  RangeOf(q) \subseteq S
BY DEF RangeOf

(* A sequence has finitely many rows. *)
LEMMA RangeFinite ==
  ASSUME NEW S, NEW q \in Seq(S)
  PROVE  IsFiniteSet(RangeOf(q))
<1>1. DOMAIN q = 1 .. Len(q) /\ Len(q) \in Nat
  OBVIOUS
<1>2. IsFiniteSet(1 .. Len(q))
  BY <1>1, FS_Interval
<1>3. q \in Surjection(1 .. Len(q), RangeOf(q))
  BY <1>1 DEF RangeOf, Surjection
<1> QED
  BY <1>2, <1>3, FS_Surjection

(* A listing of a finite set of events is a sequence of just these. *)
LEMMA ListingIsSeq ==
  ASSUME NEW S, NEW E, E \subseteq S, IsFiniteSet(E), NEW q \in Listings(E)
  PROVE  q \in Seq(S) /\ RangeOf(q) = E /\ DOMAIN q = 1 .. Cardinality(E)
<1>1. Cardinality(E) \in Nat
  BY FS_CardinalityType
<1>2. q \in [1 .. Cardinality(E) -> E] /\ \A e \in E : \E i \in DOMAIN q : q[i] = e
  BY DEF Listings
<1>3. q \in Seq(S)
  BY <1>1, <1>2
<1> QED
  BY <1>2, <1>3 DEF RangeOf
-----------------------------------------------------------------------------
(* Events, and what the invariant says of the logs.                        *)

(* What a site writes is an event. *)
LEMMA NewEventTyped ==
  ASSUME NEW o \in Sites, NEW n \in Nat \ {0}, NEW kind \in Kinds
  PROVE  /\ NewEvent(o, n, kind) \in Event
         /\ NewEvent(o, n, kind).origin = o
         /\ NewEvent(o, n, kind).seq = n
BY DEF NewEvent, Event, Policies

(* The fields of an event have their types. *)
LEMMA EventFields ==
  ASSUME NEW e \in Event
  PROVE  e.origin \in Sites /\ e.seq \in Nat \ {0} /\ e.kind \in Kinds /\ e.policy \in Policies
BY DEF Event

(* What the types say of the wire. *)
LEMMA WireTyped ==
  ASSUME FleetTypeOK, NEW s \in Suitcases
  PROVE  /\ wire[s].type = "request" => wire[s] \in Request
         /\ wire[s].type = "response" => wire[s] \in Response
         /\ wire[s] = Failure => wire[s].type = "error"
<1>1. wire[s] \in {NoMessage, Failure} \cup Request \cup Response
  BY DEF FleetTypeOK
<1>2. NoMessage.type = "none" /\ Failure.type = "error"
  BY DEF NoMessage, Failure
<1>3. \A q \in Request : q.type = "request"
  BY DEF Request
<1>4. \A a \in Response : a.type = "response"
  BY DEF Response
<1> QED
  BY <1>1, <1>2, <1>3, <1>4

(* Home's count of a suitcase, and the number its next event gets. *)
LEMMA HomeLastNat ==
  ASSUME RowsInv, NEW o \in Sites
  PROVE  HomeLast(o) \in Nat /\ SeqsOf(RangeOf(rows), o) = 1 .. HomeLast(o)
BY LastSeqNat DEF RowsInv, HomeLast

(* The last number of a local log is a natural number. *)
LEMMA LogLastNat ==
  ASSUME LogInv, NEW s \in Suitcases
  PROVE  /\ LastSeq(db[s], s) \in Nat
         /\ SeqsOf(db[s], s) = 1 .. LastSeq(db[s], s)
         /\ \A e \in db[s] : e.seq \in 1 .. LastSeq(db[s], s)
<1>1. LastSeq(db[s], s) \in Nat /\ SeqsOf(db[s], s) = 1 .. LastSeq(db[s], s)
  BY LastSeqNat DEF LogInv
<1>2. \A e \in db[s] : e.seq \in SeqsOf(db[s], s)
  BY DEF LogInv, SeqsOf
<1> QED
  BY <1>1, <1>2

(* The properties follow from the invariant. *)
LEMMA PrefixFromInv ==
  ASSUME FleetInv
  PROVE  HomeHoldsPrefix /\ AckedIsDurable
<1> SUFFICES ASSUME NEW s \in Suitcases
             PROVE  /\ {e \in RangeOf(rows) : e.origin = s}
                         = {e \in db[s] : e.seq =< HomeLast(s)}
                    /\ \A e \in db[s] : e.seq =< acked[s] => e \in RangeOf(rows)
  BY DEF HomeHoldsPrefix, AckedIsDurable
<1>1. s \in Sites
  BY DEF Sites
<1>2. HomeLast(s) \in Nat /\ SeqsOf(RangeOf(rows), s) = 1 .. HomeLast(s)
  BY <1>1, HomeLastNat DEF FleetInv
<1>3. ASSUME NEW e \in RangeOf(rows), e.origin = s
      PROVE  e \in db[s] /\ e.seq =< HomeLast(s)
  <2>1. e \in db[s]
    BY <1>3 DEF FleetInv, RowsInv
  <2>2. e.seq \in SeqsOf(RangeOf(rows), s)
    BY <1>3 DEF SeqsOf
  <2> QED
    BY <1>2, <2>1, <2>2
<1>4. ASSUME NEW e \in db[s], e.seq =< HomeLast(s)
      PROVE  e \in RangeOf(rows) /\ e.origin = s
  <2>1. e.seq \in Nat \ {0} /\ e.origin = s
    BY EventFields DEF FleetInv, FleetTypeOK, LogInv
  <2>2. PICK f \in RangeOf(rows) : f.origin = s /\ f.seq = e.seq
    BY <1>2, <1>4, <2>1 DEF SeqsOf
  <2>3. f = e
    BY <2>2 DEF FleetInv, RowsInv, LogInv
  <2> QED
    BY <2>1, <2>2, <2>3
<1>5. ASSUME NEW e \in db[s], e.seq =< acked[s]
      PROVE  e.seq =< HomeLast(s)
  <2>1. e.seq \in Nat /\ acked[s] \in Nat /\ acked[s] =< HomeLast(s)
    BY EventFields DEF FleetInv, FleetTypeOK, FileInv
  <2> QED
    BY <1>2, <1>5, <2>1
<1> QED
  BY <1>3, <1>4, <1>5
-----------------------------------------------------------------------------
(* The initial states.                                                     *)

(* The invariant holds at the start. *)
LEMMA InitInv == FleetInit => FleetInv
<1> SUFFICES ASSUME FleetInit PROVE FleetInv
  OBVIOUS
<1> USE FleetAssumption
<1>1. RangeOf(<<>>) = {}
  BY DEF RangeOf
<1>2. \A o : SeqsOf({}, o) = 1..0 /\ Numbered({}, o)
  BY DEF SeqsOf, Numbered
<1>3. \A o : LastSeq({}, o) = 0
  BY <1>2, LastSeqIs
<1>4. FleetTypeOK
  BY DEF FleetInit, FleetTypeOK, Policies, Idle, Pass
<1>5. LogInv
  BY <1>2, FS_EmptySet DEF FleetInit, LogInv
<1>6. RowsInv
  BY <1>1, <1>2 DEF FleetInit, RowsInv
<1>7. FileInv
  <2>1. \A s \in Suitcases : HomeLast(s) = 0
    BY <1>1, <1>3 DEF FleetInit, HomeLast
  <2> QED
    BY <2>1 DEF FleetInit, FileInv
<1>8. NetInv
  BY DEF FleetInit, NetInv, NoMessage
<1> QED
  BY <1>4, <1>5, <1>6, <1>7, <1>8 DEF FleetInv

-----------------------------------------------------------------------------
(* Home.                                                                   *)

(* A step that leaves logs and rows alone keeps what the invariant says of them. *)
LEMMA LogsUnchanged ==
  ASSUME LogInv, RowsInv, UNCHANGED <<db, rows>>
  PROVE  LogInv' /\ RowsInv' /\ \A s \in Suitcases : HomeLast(s)' = HomeLast(s)
BY DEF LogInv, RowsInv, HomeLast

(* Home appends an event of its own, last or, in one instant, last but one. *)
LEMMA HomeAppendRange ==
  ASSUME rows \in Seq(Event), NEW e \in Event, HomeAppend(e)
  PROVE  rows' \in Seq(Event) /\ RangeOf(rows)' = RangeOf(rows) \cup {e}
<1>1. CASE rows' = Append(rows, e)
  BY <1>1, RangeAppend
<1>2. CASE /\ rows # <<>>
           /\ rows' = Append(SubSeq(rows, 1, Len(rows) - 1), e) \o <<rows[Len(rows)]>>
  <2> DEFINE front == SubSeq(rows, 1, Len(rows) - 1)
             last == rows[Len(rows)]
  <2>1. Len(rows) \in Nat \ {0} /\ last \in Event /\ DOMAIN rows = 1 .. Len(rows)
    BY <1>2
  <2>2. front \in Seq(Event) /\ DOMAIN front = 1 .. (Len(rows) - 1)
        /\ \A i \in 1 .. (Len(rows) - 1) : front[i] = rows[i]
    BY <2>1
  <2>3. RangeOf(rows) = RangeOf(front) \cup {last}
    <3>1. RangeOf(rows) = {rows[i] : i \in 1 .. Len(rows)}
      BY <2>1 DEF RangeOf
    <3>2. RangeOf(front) = {rows[i] : i \in 1 .. (Len(rows) - 1)}
      BY <2>2 DEF RangeOf
    <3>3. 1 .. Len(rows) = 1 .. (Len(rows) - 1) \cup {Len(rows)}
      BY <2>1
    <3> QED
      BY <3>1, <3>2, <3>3
  <2>4. RangeOf(<<last>>) = {last} /\ <<last>> \in Seq(Event)
    BY <2>1 DEF RangeOf
  <2>5. Append(front, e) \in Seq(Event) /\ RangeOf(Append(front, e)) = RangeOf(front) \cup {e}
    <3>1. \A q \in Seq(Event) :
            Append(q, e) \in Seq(Event) /\ RangeOf(Append(q, e)) = RangeOf(q) \cup {e}
      BY RangeAppend
    <3>2. front \in Seq(Event)
      BY <2>2
    <3> HIDE DEF front
    <3> QED
      BY <3>1, <3>2
  <2>6. \A q, r \in Seq(Event) :
          q \o r \in Seq(Event) /\ RangeOf(q \o r) = RangeOf(q) \cup RangeOf(r)
    BY RangeConcat
  <2>7. /\ Append(front, e) \o <<last>> \in Seq(Event)
        /\ RangeOf(Append(front, e) \o <<last>>)
             = RangeOf(Append(front, e)) \cup RangeOf(<<last>>)
    <3> DEFINE most == Append(front, e)
               one == <<last>>
    <3>1. most \in Seq(Event) /\ one \in Seq(Event)
      BY <2>4, <2>5
    <3> HIDE DEF most, one
    <3>2. most \o one \in Seq(Event) /\ RangeOf(most \o one) = RangeOf(most) \cup RangeOf(one)
      BY <2>6, <3>1
    <3> QED
      BY <3>2 DEF most, one
  <2> HIDE DEF front, last
  <2> QED
    BY <1>2, <2>3, <2>4, <2>5, <2>7 DEF front, last
<1> QED
  BY <1>1, <1>2 DEF HomeAppend

(* A row of Home itself keeps the prefixes of all suitcases. *)
LEMMA HomeAppendInv ==
  ASSUME FleetInv, NEW e \in Event, e.origin = Home, e.seq = HomeNext, HomeAppend(e),
         UNCHANGED <<db, outbox, acked, wire, stale>>
  PROVE  /\ rows' \in Seq(Event)
         /\ LogInv' /\ RowsInv' /\ FileInv' /\ NetInv'
         /\ \A s \in Suitcases : HomeLast(s)' = HomeLast(s)
<1>1. rows' \in Seq(Event) /\ RangeOf(rows)' = RangeOf(rows) \cup {e}
  BY HomeAppendRange DEF FleetInv, FleetTypeOK
<1>2. \A s \in Suitcases : s # Home /\ s \in Sites
  BY FleetAssumption DEF Sites
<1>3. \A o \in Sites \ {Home} :
        Numbered(RangeOf(rows)', o) /\ LastSeq(RangeOf(rows)', o) = LastSeq(RangeOf(rows), o)
  <2> SUFFICES ASSUME NEW o \in Sites \ {Home}
               PROVE  Numbered(RangeOf(rows)', o) /\ LastSeq(RangeOf(rows)', o) = LastSeq(RangeOf(rows), o)
    OBVIOUS
  <2>1. Numbered(RangeOf(rows), o)
    BY DEF FleetInv, RowsInv
  <2>2. \A x \in {e} : x.origin # o
    OBVIOUS
  <2>3. Numbered(RangeOf(rows) \cup {e}, o) /\ LastSeq(RangeOf(rows) \cup {e}, o) = LastSeq(RangeOf(rows), o)
    BY <2>1, <2>2, OtherOrigins
  <2> QED
    BY <1>1, <2>3
<1>4. Numbered(RangeOf(rows)', Home)
  <2>1. Home \in Sites /\ HomeLast(Home) \in Nat
    BY HomeLastNat DEF Sites, FleetInv
  <2>2. SeqsOf({e}, Home) = (HomeLast(Home) + 1) .. (HomeLast(Home) + 1)
    BY <2>1 DEF SeqsOf, HomeNext
  <2>3. Numbered(RangeOf(rows), Home)
    BY <2>1 DEF FleetInv, RowsInv
  <2>4. SeqsOf({e}, Home) = (LastSeq(RangeOf(rows), Home) + 1) .. (LastSeq(RangeOf(rows), Home) + 1)
    BY <2>2 DEF HomeLast
  <2>5. Numbered(RangeOf(rows) \cup {e}, Home)
    BY <2>3, <2>4, NumberedExtends
  <2> QED
    BY <1>1, <2>5
<1>5. \A s \in Suitcases : HomeLast(s)' = HomeLast(s)
  BY <1>2, <1>3 DEF HomeLast
<1>6. RowsInv'
  BY <1>1, <1>2, <1>3, <1>4 DEF FleetInv, RowsInv
<1>7. LogInv' /\ FileInv' /\ NetInv'
  BY <1>5 DEF FleetInv, LogInv, FileInv, NetInv
<1> QED
  BY <1>1, <1>5, <1>6, <1>7

(* Home writes an event. *)
LEMMA HomeWritesInv ==
  ASSUME FleetInv, NEW kind \in HomeKinds, HomeWrites(kind)
  PROVE  FleetInv'
<1> DEFINE e == NewEvent(Home, HomeNext, kind)
<1>1. Home \in Sites /\ HomeNext \in Nat \ {0} /\ kind \in Kinds
  BY HomeLastNat, FleetAssumption DEF HomeNext, Sites, FleetInv, Kinds
<1>2. e \in Event /\ e.origin = Home /\ e.seq = HomeNext
  BY <1>1, NewEventTyped
<1>3. HomeAppend(e) /\ UNCHANGED <<db, outbox, acked, wire, stale>>
  BY DEF HomeWrites, siteVars, fileVars, netVars
<1> HIDE DEF e
<1>4. rows' \in Seq(Event) /\ LogInv' /\ RowsInv' /\ FileInv' /\ NetInv'
  BY <1>2, <1>3, HomeAppendInv
<1>5. FleetTypeOK'
  BY <1>4 DEF FleetInv, FleetTypeOK, HomeWrites, siteVars, fileVars, netVars
<1> QED
  BY <1>4, <1>5 DEF FleetInv

(* Home asks for a fleet mutation. *)
LEMMA HomeRequestsInv ==
  ASSUME FleetInv, NEW targets \in SUBSET Suitcases, HomeRequests(targets)
  PROVE  FleetInv'
<1> DEFINE e == [NewEvent(Home, HomeNext, "request") EXCEPT !.to = targets]
<1>1. Home \in Sites /\ HomeNext \in Nat \ {0}
  BY HomeLastNat DEF HomeNext, Sites, FleetInv
<1>2. e \in Event /\ e.origin = Home /\ e.seq = HomeNext
  BY <1>1 DEF NewEvent, Event, Kinds, Policies
<1>3. HomeAppend(e) /\ UNCHANGED <<db, outbox, acked, wire, stale>>
  BY DEF HomeRequests, siteVars, fileVars, netVars
<1> HIDE DEF e
<1>4. rows' \in Seq(Event) /\ LogInv' /\ RowsInv' /\ FileInv' /\ NetInv'
  BY <1>2, <1>3, HomeAppendInv
<1>5. FleetTypeOK'
  BY <1>4 DEF FleetInv, FleetTypeOK, HomeRequests, siteVars, fileVars, netVars
<1> QED
  BY <1>4, <1>5 DEF FleetInv

(* Home changes the policy of a suitcase. *)
LEMMA HomeSetsPolicyInv ==
  ASSUME FleetInv, NEW s \in Suitcases, NEW p \in PolicyChanges, HomeSetsPolicy(s, p)
  PROVE  FleetInv'
<1> DEFINE e == [NewEvent(Home, HomeNext, "policy") EXCEPT !.to = {s}, !.policy = p]
<1>1. Home \in Sites /\ HomeNext \in Nat \ {0} /\ p \in Policies
  BY HomeLastNat, FleetAssumption DEF HomeNext, Sites, FleetInv, Policies
<1>2. e \in Event /\ e.origin = Home /\ e.seq = HomeNext
  BY <1>1 DEF NewEvent, Event, Kinds, Policies
<1>3. HomeAppend(e) /\ UNCHANGED <<db, outbox, acked, wire, stale>>
  BY DEF HomeSetsPolicy, siteVars, fileVars, netVars
<1> HIDE DEF e
<1>4. rows' \in Seq(Event) /\ LogInv' /\ RowsInv' /\ FileInv' /\ NetInv'
  BY <1>2, <1>3, HomeAppendInv
<1>5. FleetTypeOK'
  BY <1>1, <1>4 DEF FleetInv, FleetTypeOK, HomeSetsPolicy, siteVars, fileVars, netVars
<1> QED
  BY <1>4, <1>5 DEF FleetInv

(* Home takes over the fresh events of a request that stems from a log. *)
LEMMA IngestInv ==
  ASSUME FleetInv, NEW q \in Request, q.events \subseteq db[q.site], Accepts(q), Ingest(q),
         UNCHANGED db
  PROVE  /\ rows' \in Seq(Event)
         /\ LogInv' /\ RowsInv'
         /\ \A s \in Suitcases : HomeLast(s)' \in Nat /\ HomeLast(s)' >= HomeLast(s)
         /\ \A s \in Suitcases \ {q.site} : HomeLast(s)' = HomeLast(s)
<1> DEFINE o == q.site
           F == Fresh(q)
<1>1. o \in Suitcases /\ o \in Sites /\ o # Home
  BY FleetAssumption DEF Request, Sites
<1>2. F \subseteq db[o] /\ F \subseteq Event /\ IsFiniteSet(F) /\ Cardinality(F) \in Nat
  <2>1. F \subseteq db[o]
    BY DEF Fresh, Ready
  <2>2. db[o] \subseteq Event /\ IsFiniteSet(db[o])
    BY <1>1 DEF FleetInv, FleetTypeOK, LogInv
  <2> QED
    BY <2>1, <2>2, FS_Subset, FS_CardinalityType
<1>3. \A e \in F : e.origin = o
  BY <1>1, <1>2 DEF FleetInv, LogInv
<1>4. SeqsOf(F, o) = (LastSeq(RangeOf(rows), o) + 1) .. (LastSeq(RangeOf(rows), o) + Cardinality(F))
  <2>1. SeqsOf(F, o) = {e.seq : e \in F}
    BY <1>3 DEF SeqsOf
  <2> QED
    BY <2>1 DEF Accepts, Contiguous, HomeLast
<1>5. rows' \in Seq(Event) /\ RangeOf(rows)' = RangeOf(rows) \cup F
  <2>1. PICK news \in Listings(F) : rows' = rows \o news
    BY DEF Ingest, OrderedListings
  <2>2. news \in Seq(Event) /\ RangeOf(news) = F
    BY <1>2, <2>1, ListingIsSeq
  <2>3. rows \in Seq(Event)
    BY DEF FleetInv, FleetTypeOK
  <2> QED
    BY <2>1, <2>2, <2>3, RangeConcat
<1> HIDE DEF o, F
<1>6. Numbered(RangeOf(rows)', o) /\ LastSeq(RangeOf(rows)', o) = LastSeq(RangeOf(rows), o) + Cardinality(F)
  <2>1. Numbered(RangeOf(rows), o)
    BY <1>1 DEF FleetInv, RowsInv
  <2> QED
    BY <1>2, <1>4, <1>5, <2>1, NumberedExtends
<1>7. \A x \in Sites \ {o} :
        Numbered(RangeOf(rows)', x) /\ LastSeq(RangeOf(rows)', x) = LastSeq(RangeOf(rows), x)
  <2> SUFFICES ASSUME NEW x \in Sites \ {o}
               PROVE  /\ Numbered(RangeOf(rows)', x)
                      /\ LastSeq(RangeOf(rows)', x) = LastSeq(RangeOf(rows), x)
    OBVIOUS
  <2>1. \A e \in F : e.origin # x
    BY <1>3
  <2>2. Numbered(RangeOf(rows), x)
    BY DEF FleetInv, RowsInv
  <2>3. /\ LastSeq(RangeOf(rows) \cup F, x) = LastSeq(RangeOf(rows), x)
        /\ Numbered(RangeOf(rows) \cup F, x)
    BY <2>1, <2>2, OtherOrigins
  <2> QED
    BY <1>5, <2>3
<1>8. \A s \in Suitcases : s \in Sites /\ HomeLast(s) \in Nat
  BY HomeLastNat DEF Sites, FleetInv
<1>9. \A s \in Suitcases \ {o} : HomeLast(s)' = HomeLast(s)
  BY <1>7, <1>8 DEF HomeLast
<1>10. HomeLast(o)' = HomeLast(o) + Cardinality(F)
  BY <1>6 DEF HomeLast
<1>11. RowsInv'
  BY <1>1, <1>2, <1>3, <1>5, <1>6, <1>7 DEF FleetInv, RowsInv
<1>12. LogInv'
  BY DEF FleetInv, LogInv
<1>13. \A s \in Suitcases : HomeLast(s)' \in Nat /\ HomeLast(s)' >= HomeLast(s)
  BY <1>1, <1>2, <1>8, <1>9, <1>10
<1> QED
  BY <1>5, <1>9, <1>11, <1>12, <1>13 DEF o
(* What Home answers is typed, finite and acknowledges what it holds. *)
LEMMA AnswerTyped ==
  ASSUME NEW rs \in Seq(Event), NEW q \in Request, LastSeq(RangeOf(rs), q.site) \in Nat
  PROVE  /\ Answer(q, rs) \in Response
         /\ Answer(q, rs).accepted = LastSeq(RangeOf(rs), q.site)
         /\ IsFiniteSet(Answer(q, rs).events) /\ IsFiniteSet(Answer(q, rs).skipped)
         /\ IsFiniteSet(Answer(q, rs).controls)
         /\ Answer(q, rs).events \cup Answer(q, rs).skipped \subseteq RangeOf(rs)
<1>1. Decided(q, rs) \subseteq DOMAIN rs
  BY DEF Decided, Live, Pending
<1>2. Sent(q, rs) \subseteq RangeOf(rs) /\ Skipped(q, rs) \subseteq RangeOf(rs)
  BY <1>1 DEF Sent, Skipped, RangeOf
<1>3. Controls(q, rs) \subseteq RangeOf(rs)
  BY DEF Controls, OpenRequests, RangeOf
<1>4. RangeOf(rs) \subseteq Event /\ IsFiniteSet(RangeOf(rs))
  BY RangeInSet, RangeFinite
<1>5. IsFiniteSet(Sent(q, rs)) /\ IsFiniteSet(Skipped(q, rs)) /\ IsFiniteSet(Controls(q, rs))
  BY <1>2, <1>3, <1>4, FS_Subset
<1>6. Missing(q) \subseteq Event
  BY DEF Missing, Request
<1>7. More(q, rs) \in BOOLEAN
  BY DEF More
<1> QED
  BY <1>2, <1>3, <1>4, <1>5, <1>6, <1>7 DEF Answer, Response

(* An exchange moves Home's copy of one suitcase forward, and no other. *)
LEMMA HomeExchangeInv ==
  ASSUME FleetInv, NEW s \in Suitcases, HomeExchange(s)
  PROVE  /\ FleetInv'
         /\ HomeLast(s)' \in Nat /\ HomeLast(s)' >= HomeLast(s)
         /\ \A x \in Suitcases \ {s} : HomeLast(x)' = HomeLast(x)
<1> DEFINE q == wire[s]
<1>1. q \in Request /\ q.site = s /\ q.events \subseteq db[s]
  BY WireTyped DEF HomeExchange, FleetInv, NetInv
<1>2. UNCHANGED <<db, outbox, acked, stale>>
  BY DEF HomeExchange, siteVars, fileVars
<1>3. CASE Accepts(q)
  <2>1. /\ Ingest(q)
        /\ wire' = [wire EXCEPT ![s] = Answer(q, rows')]
        /\ excluded' = [excluded EXCEPT ![s] = @ \cup {e \in Skipped(q, rows') : Withheld(e, s)}]
    BY <1>3 DEF HomeExchange
  <2>2. /\ rows' \in Seq(Event)
        /\ LogInv' /\ RowsInv'
        /\ \A x \in Suitcases : HomeLast(x)' \in Nat /\ HomeLast(x)' >= HomeLast(x)
        /\ \A x \in Suitcases \ {s} : HomeLast(x)' = HomeLast(x)
    BY <1>1, <1>2, <1>3, <2>1, IngestInv
  <2>3. LastSeq(RangeOf(rows'), s) = HomeLast(s)' /\ HomeLast(s)' \in Nat
    BY <2>2 DEF HomeLast
  <2> DEFINE a == Answer(q, rows')
  <2>4. /\ a \in Response /\ a.accepted = HomeLast(s)'
        /\ IsFiniteSet(a.events) /\ IsFiniteSet(a.skipped) /\ IsFiniteSet(a.controls)
        /\ a.skipped \subseteq Event
    <3>1. a \in Response /\ a.accepted = LastSeq(RangeOf(rows'), q.site)
          /\ IsFiniteSet(a.events) /\ IsFiniteSet(a.skipped) /\ IsFiniteSet(a.controls)
      BY <1>1, <2>2, <2>3, AnswerTyped
    <3> QED
      BY <1>1, <2>3, <3>1 DEF Response
  <2>5. Skipped(q, rows') = a.skipped
    BY DEF Answer
  <2> HIDE DEF a, q
  <2>6. FleetTypeOK'
    BY <2>1, <2>2, <2>4, <2>5 DEF a, FleetInv, FleetTypeOK, HomeExchange, siteVars, fileVars
  <2>7. \A x \in Suitcases : HomeLast(x) \in Nat
    BY HomeLastNat DEF FleetInv, Sites
  <2>8. FileInv'
    BY <1>2, <2>2, <2>7 DEF FleetInv, FileInv, FleetTypeOK
  <2>9. NetInv'
    <3>1. wire' = [wire EXCEPT ![s] = a] /\ a.type = "response"
      BY <2>1, <2>4 DEF a, Response
    <3>2. \A x \in Suitcases : wire[x].type = "response" => wire[x].accepted \in Nat
      BY WireTyped DEF FleetInv, Response
    <3>3. wire \in [Suitcases -> {NoMessage, Failure} \cup Request \cup Response]
      BY DEF FleetInv, FleetTypeOK
    <3> QED
      BY <1>2, <2>2, <2>4, <2>7, <3>1, <3>2, <3>3 DEF FleetInv, NetInv
  <2> QED
    BY <2>2, <2>6, <2>8, <2>9 DEF FleetInv
<1>4. CASE ~ Accepts(q)
  <2>1. wire' = [wire EXCEPT ![s] = Failure] /\ UNCHANGED <<rows, excluded>>
    BY <1>4 DEF HomeExchange
  <2>2. LogInv' /\ RowsInv' /\ \A x \in Suitcases : HomeLast(x)' = HomeLast(x)
    BY <1>2, <2>1, LogsUnchanged DEF FleetInv
  <2>3. FleetTypeOK'
    BY <2>1 DEF FleetInv, FleetTypeOK, HomeExchange, siteVars, fileVars
  <2>4. FileInv' /\ NetInv'
    BY <1>2, <2>1, <2>2 DEF FleetInv, FleetTypeOK, FileInv, NetInv, Failure
  <2>5. HomeLast(s) \in Nat
    BY HomeLastNat DEF FleetInv, Sites
  <2> QED
    BY <2>2, <2>3, <2>4, <2>5 DEF FleetInv
<1> QED
  BY <1>3, <1>4

(* The same of a request whose client is gone. *)
LEMMA LateExchangeInv ==
  ASSUME FleetInv, NEW q \in stale, LateExchange(q)
  PROVE  /\ FleetInv'
         /\ q.site \in Suitcases
         /\ HomeLast(q.site)' \in Nat /\ HomeLast(q.site)' >= HomeLast(q.site)
         /\ \A x \in Suitcases \ {q.site} : HomeLast(x)' = HomeLast(x)
<1>1. q \in Request /\ q.events \subseteq db[q.site]
  BY DEF FleetInv, FleetTypeOK, NetInv
<1>2. UNCHANGED <<db, outbox, acked, wire>> /\ stale' = stale \ {q}
  BY DEF LateExchange, siteVars, fileVars
<1>3. \A x \in Suitcases : HomeLast(x) \in Nat
  BY HomeLastNat DEF FleetInv, Sites
<1>4. /\ rows' \in Seq(Event)
      /\ LogInv' /\ RowsInv'
      /\ \A x \in Suitcases : HomeLast(x)' \in Nat /\ HomeLast(x)' >= HomeLast(x)
      /\ \A x \in Suitcases \ {q.site} : HomeLast(x)' = HomeLast(x)
  <2>1. CASE Accepts(q)
    BY <1>1, <1>2, <2>1, IngestInv DEF LateExchange
  <2>2. CASE ~ Accepts(q)
    <3>1. rows' = rows
      BY <2>2 DEF LateExchange
    <3>2. LogInv' /\ RowsInv' /\ \A x \in Suitcases : HomeLast(x)' = HomeLast(x)
      BY <1>2, <3>1, LogsUnchanged DEF FleetInv
    <3> QED
      BY <1>3, <3>1, <3>2 DEF FleetInv, FleetTypeOK
  <2> QED
    BY <2>1, <2>2
<1>5. FleetTypeOK'
  BY <1>2, <1>4 DEF FleetInv, FleetTypeOK, LateExchange, siteVars, fileVars
<1>6. FileInv'
  BY <1>2, <1>3, <1>4 DEF FleetInv, FileInv, FleetTypeOK
<1>7. NetInv'
  <2>1. \A x \in Suitcases : wire[x].type = "response" => wire[x].accepted \in Nat
    BY WireTyped DEF FleetInv, Response
  <2> QED
    BY <1>2, <1>3, <1>4, <2>1 DEF FleetInv, NetInv
<1>8. q.site \in Suitcases
  BY <1>1 DEF Request
<1> QED
  BY <1>4, <1>5, <1>6, <1>7, <1>8 DEF FleetInv
-----------------------------------------------------------------------------
(* A suitcase.                                                             *)

(* The log of a suitcase gets the events F, which carry the next numbers. *)
LEMMA LogGrows ==
  ASSUME FleetInv, NEW s \in Suitcases, NEW F \in SUBSET Event, IsFiniteSet(F),
         \A e \in F : e.origin = s,
         \A e, f \in F : e.seq = f.seq => e = f,
         NEW k \in Nat, SeqsOf(F, s) = (LastSeq(db[s], s) + 1) .. (LastSeq(db[s], s) + k),
         db' = [db EXCEPT ![s] = @ \cup F], UNCHANGED rows
  PROVE  /\ db' \in [Suitcases -> SUBSET Event]
         /\ \A x \in Suitcases : db[x] \subseteq db'[x]
         /\ LogInv' /\ RowsInv'
         /\ \A x \in Suitcases : HomeLast(x)' = HomeLast(x)
         /\ LastSeq(db'[s], s) = LastSeq(db[s], s) + k
         /\ \A x \in Suitcases \ {s} : db'[x] = db[x]
<1>1. db \in [Suitcases -> SUBSET Event]
  BY DEF FleetInv, FleetTypeOK
<1>2. db'[s] = db[s] \cup F /\ \A x \in Suitcases \ {s} : db'[x] = db[x]
  BY <1>1
<1>3. Numbered(db[s] \cup F, s) /\ LastSeq(db[s] \cup F, s) = LastSeq(db[s], s) + k
  <2>1. Numbered(db[s], s)
    BY DEF FleetInv, LogInv
  <2> QED
    BY <2>1, NumberedExtends
<1>4. ASSUME NEW e \in db[s] \cup F, NEW f \in db[s] \cup F, e.seq = f.seq
      PROVE  e = f
  <2>1. \A x \in db[s] : x.seq =< LastSeq(db[s], s)
    BY LogLastNat DEF FleetInv
  <2>2. \A x \in F : x.seq \in SeqsOf(F, s)
    BY DEF SeqsOf
  <2>3. LastSeq(db[s], s) \in Nat
    BY LogLastNat DEF FleetInv
  <2>4. \A x \in F : x.seq > LastSeq(db[s], s)
    BY <2>2, <2>3
  <2>5. \A x \in db[s] \cup F : x.seq \in Nat
    BY <1>1, EventFields
  <2> QED
    BY <1>4, <2>1, <2>3, <2>4, <2>5 DEF FleetInv, LogInv
<1>5. IsFiniteSet(db[s] \cup F)
  BY FS_Union DEF FleetInv, LogInv
<1>6. LogInv'
  BY <1>2, <1>3, <1>4, <1>5 DEF FleetInv, LogInv
<1>7. RowsInv'
  BY <1>2 DEF FleetInv, RowsInv
<1> QED
  BY <1>1, <1>2, <1>3, <1>6, <1>7 DEF HomeLast

(* What Enqueue copies stems from the log. *)
LEMMA EnqueueInv ==
  ASSUME FleetInv, NEW s \in Suitcases, db' \in [Suitcases -> SUBSET Event],
         \A x \in Suitcases : db[x] \subseteq db'[x],
         \A x \in Suitcases : HomeLast(x)' = HomeLast(x),
         Enqueue(s, db'[s]), UNCHANGED <<acked, wire, stale>>
  PROVE  /\ FileInv' /\ NetInv'
         /\ outbox' \in [Suitcases -> SUBSET Event]
         /\ queuedArtifacts' \in [Suitcases -> SUBSET Event]
<1> DEFINE batch == {e \in db'[s] : acked[s] < e.seq /\ e.seq =< acked[s] + BatchLimit}
<1>1. outbox' = [outbox EXCEPT ![s] = @ \cup batch]
      /\ queuedArtifacts' = [queuedArtifacts EXCEPT ![s] = @ \cup {e \in batch : e.kind = "data"}]
  BY DEF Enqueue
<1>2. batch \subseteq db'[s] /\ batch \subseteq Event
  OBVIOUS
<1> HIDE DEF batch
<1>3. outbox' \in [Suitcases -> SUBSET Event] /\ queuedArtifacts' \in [Suitcases -> SUBSET Event]
  BY <1>1, <1>2 DEF FleetInv, FleetTypeOK
<1>4. FileInv'
  BY <1>1, <1>2 DEF FleetInv, FleetTypeOK, FileInv
<1>5. NetInv'
  <2>1. \A q \in stale : q.site \in Suitcases
    BY DEF FleetInv, FleetTypeOK, Request
  <2> QED
    BY <2>1 DEF FleetInv, NetInv
<1> QED
  BY <1>3, <1>4, <1>5

(* One event with the next number. *)
LEMMA OneMore ==
  ASSUME FleetInv, NEW s \in Suitcases, NEW kind \in Kinds
  PROVE  LET e == NewEvent(s, LocalNext(s), kind)
         IN /\ {e} \in SUBSET Event /\ IsFiniteSet({e})
            /\ \A x \in {e} : x.origin = s
            /\ SeqsOf({e}, s) = (LastSeq(db[s], s) + 1) .. (LastSeq(db[s], s) + 1)
<1> DEFINE e == NewEvent(s, LocalNext(s), kind)
<1>1. LastSeq(db[s], s) \in Nat /\ LocalNext(s) = LastSeq(db[s], s) + 1 /\ s \in Sites
  BY LogLastNat DEF FleetInv, LocalNext, Sites
<1>2. e \in Event /\ e.origin = s /\ e.seq = LastSeq(db[s], s) + 1
  BY <1>1, NewEventTyped
<1> HIDE DEF e
<1>3. SeqsOf({e}, s) = (LastSeq(db[s], s) + 1) .. (LastSeq(db[s], s) + 1)
  BY <1>1, <1>2 DEF SeqsOf
<1>4. IsFiniteSet({e})
  BY FS_Singleton
<1> QED
  BY <1>2, <1>3, <1>4 DEF e

(* A suitcase writes an event to its own log. *)
LEMMA LocalWritesInv ==
  ASSUME FleetInv, NEW s \in Suitcases, LocalWrites(s)
  PROVE  FleetInv' /\ LastSeq(db'[s], s) = LastSeq(db[s], s) + 1
                   /\ \A x \in Suitcases \ {s} : db'[x] = db[x]
<1> DEFINE F == {NewEvent(s, LocalNext(s), "plain")}
<1>1. /\ F \in SUBSET Event /\ IsFiniteSet(F) /\ \A e \in F : e.origin = s
      /\ SeqsOf(F, s) = (LastSeq(db[s], s) + 1) .. (LastSeq(db[s], s) + 1)
  BY OneMore DEF Kinds
<1>2. \A e, f \in F : e.seq = f.seq => e = f
  OBVIOUS
<1>3. /\ db' = [db EXCEPT ![s] = @ \cup F]
      /\ UNCHANGED <<rows, outbox, acked, wire, stale, queuedArtifacts>>
  BY DEF LocalWrites, homeVars, fileVars, netVars
<1> HIDE DEF F
<1>4. /\ db' \in [Suitcases -> SUBSET Event]
      /\ \A x \in Suitcases : db[x] \subseteq db'[x]
      /\ LogInv' /\ RowsInv'
      /\ \A x \in Suitcases : HomeLast(x)' = HomeLast(x)
      /\ LastSeq(db'[s], s) = LastSeq(db[s], s) + 1
      /\ \A x \in Suitcases \ {s} : db'[x] = db[x]
  BY <1>1, <1>2, <1>3, LogGrows
<1>5. FleetTypeOK'
  BY <1>4 DEF FleetInv, FleetTypeOK, LocalWrites, homeVars, fileVars, netVars
<1>6. FileInv'
  BY <1>3, <1>4 DEF FleetInv, FileInv
<1>7. NetInv'
  <2>1. \A q \in stale : q.site \in Suitcases
    BY DEF FleetInv, FleetTypeOK, Request
  <2> QED
    BY <1>3, <1>4, <2>1 DEF FleetInv, NetInv
<1> QED
  BY <1>4, <1>5, <1>6, <1>7 DEF FleetInv

(* A pass begins with at most one captured event. *)
LEMMA BeginPassInv ==
  ASSUME FleetInv, NEW s \in Suitcases, NEW manual \in BOOLEAN, BeginPass(s, manual)
  PROVE  /\ FleetInv'
         /\ LastSeq(db'[s], s) \in Nat /\ LastSeq(db'[s], s) >= LastSeq(db[s], s)
         /\ \A x \in Suitcases \ {s} : db'[x] = db[x]
<1>1. PICK captured \in {{}, {NewEvent(s, LocalNext(s), "data")}} :
        db' = [db EXCEPT ![s] = @ \cup captured] /\ Enqueue(s, db'[s])
  BY DEF BeginPass
<1>2. LastSeq(db[s], s) \in Nat
  BY LogLastNat DEF FleetInv
<1>3. PICK k \in {0, 1} :
        /\ captured \in SUBSET Event /\ IsFiniteSet(captured) /\ \A e \in captured : e.origin = s
        /\ SeqsOf(captured, s) = (LastSeq(db[s], s) + 1) .. (LastSeq(db[s], s) + k)
  <2>1. CASE captured = {}
    <3>1. SeqsOf({}, s) = (LastSeq(db[s], s) + 1) .. (LastSeq(db[s], s) + 0)
      BY <1>2 DEF SeqsOf
    <3> QED
      BY <2>1, <3>1, FS_EmptySet
  <2>2. CASE captured = {NewEvent(s, LocalNext(s), "data")}
    BY <2>2, OneMore DEF Kinds
  <2> QED
    BY <2>1, <2>2
<1>4. \A e, f \in captured : e.seq = f.seq => e = f
  BY <1>1
<1>5. UNCHANGED <<rows, acked, wire, stale>>
  BY DEF BeginPass, homeVars, netVars
<1>6. /\ db' \in [Suitcases -> SUBSET Event]
      /\ \A x \in Suitcases : db[x] \subseteq db'[x]
      /\ LogInv' /\ RowsInv'
      /\ \A x \in Suitcases : HomeLast(x)' = HomeLast(x)
      /\ LastSeq(db'[s], s) = LastSeq(db[s], s) + k
      /\ \A x \in Suitcases \ {s} : db'[x] = db[x]
  <2>1. k \in Nat /\ db' = [db EXCEPT ![s] = @ \cup captured] /\ UNCHANGED rows
    BY <1>1, <1>3, <1>5
  <2>2. /\ captured \in SUBSET Event /\ IsFiniteSet(captured)
        /\ \A e \in captured : e.origin = s
        /\ \A e, f \in captured : e.seq = f.seq => e = f
        /\ SeqsOf(captured, s) = (LastSeq(db[s], s) + 1) .. (LastSeq(db[s], s) + k)
    BY <1>3, <1>4
  <2> QED
    BY <2>1, <2>2, LogGrows
<1>7. /\ FileInv' /\ NetInv'
      /\ outbox' \in [Suitcases -> SUBSET Event]
      /\ queuedArtifacts' \in [Suitcases -> SUBSET Event]
  BY <1>1, <1>5, <1>6, EnqueueInv
<1>8. pass' \in [Suitcases -> Pass]
  <2>1. [Idle EXCEPT !.at = "ready", !.manual = manual] \in Pass
    BY DEF Idle, Pass
  <2> QED
    BY <2>1 DEF BeginPass, FleetInv, FleetTypeOK
<1>9. FleetTypeOK'
  BY <1>6, <1>7, <1>8 DEF FleetInv, FleetTypeOK, BeginPass, homeVars, netVars
<1> QED
  BY <1>2, <1>6, <1>7, <1>9 DEF FleetInv

(* A suitcase sends a batch: what it sends comes from its log. *)
LEMMA SendExchangeInv ==
  ASSUME FleetInv, NEW s \in Suitcases, SendExchange(s)
  PROVE  FleetInv'
<1> DEFINE q == [type |-> "request", site |-> s, events |-> Batch(s), cursors |-> cursor[s],
                 manual |-> pass[s].manual]
<1>1. Batch(s) \subseteq db[s] /\ Batch(s) \subseteq Event
  BY DEF Batch, FleetInv, FleetTypeOK, FileInv
<1>2. q \in Request /\ q.type = "request" /\ q.site = s /\ q.events = Batch(s)
  BY <1>1 DEF Request, FleetInv, FleetTypeOK, Pass
<1>3. wire' = [wire EXCEPT ![s] = q] /\ pass' = [pass EXCEPT ![s].at = "waiting"]
  BY DEF SendExchange
<1>4. UNCHANGED <<homeVars, siteVars, fileVars, stale, faults>>
  BY DEF SendExchange
<1> HIDE DEF q
<1>5. LogInv' /\ RowsInv' /\ \A x \in Suitcases : HomeLast(x)' = HomeLast(x)
  BY <1>4, LogsUnchanged DEF FleetInv, homeVars, siteVars
<1>6. pass' \in [Suitcases -> Pass]
  <2>1. pass \in [Suitcases -> Pass] /\ pass[s] \in Pass
    BY DEF FleetInv, FleetTypeOK
  <2>2. [pass[s] EXCEPT !.at = "waiting"] \in Pass
    BY <2>1 DEF Pass
  <2> QED
    BY <1>3, <2>1, <2>2
<1>7. wire' \in [Suitcases -> {NoMessage, Failure} \cup Request \cup Response]
  BY <1>2, <1>3 DEF FleetInv, FleetTypeOK
<1>8. FleetTypeOK'
  BY <1>4, <1>6, <1>7 DEF FleetInv, FleetTypeOK, homeVars, siteVars, fileVars
<1>9. FileInv'
  BY <1>4, <1>5 DEF FleetInv, FileInv, siteVars, fileVars
<1>10. NetInv'
  <2>1. wire \in [Suitcases -> {NoMessage, Failure} \cup Request \cup Response]
    BY DEF FleetInv, FleetTypeOK
  <2> QED
    BY <1>1, <1>2, <1>3, <1>4, <1>5, <2>1 DEF FleetInv, NetInv, siteVars
<1> QED
  BY <1>5, <1>8, <1>9, <1>10 DEF FleetInv

(* Actions that leave the logs, the outbox and the wire alone. *)
LEMMA QuietInv ==
  ASSUME FleetInv, UNCHANGED <<db, rows, acked, stale>>,
         \A x \in Suitcases : outbox'[x] \subseteq outbox[x],
         \A x \in Suitcases : wire'[x] = wire[x] \/ wire'[x] = NoMessage
  PROVE  LogInv' /\ RowsInv' /\ FileInv' /\ NetInv'
<1>1. LogInv' /\ RowsInv' /\ \A x \in Suitcases : HomeLast(x)' = HomeLast(x)
  BY LogsUnchanged DEF FleetInv
<1>2. FileInv'
  BY <1>1 DEF FleetInv, FileInv
<1>3. NetInv'
  BY <1>1 DEF FleetInv, NetInv, NoMessage
<1> QED
  BY <1>1, <1>2, <1>3

(* The numbers of finitely many events are finitely many. *)
LEMMA SeqsFinite ==
  ASSUME NEW E, IsFiniteSet(E)
  PROVE  IsFiniteSet({e.seq : e \in E})
<1> DEFINE f == [e \in E |-> e.seq]
<1>1. f \in Surjection(E, {e.seq : e \in E})
  BY DEF Surjection
<1> QED
  BY <1>1, FS_Surjection

(* The cursor moves within Nat. *)
LEMMA ReachNat ==
  ASSUME FleetInv, NEW s \in Suitcases, wire[s].type = "response", NEW o \in Sites
  PROVE  Reach(s, wire[s], o) \in Nat
<1> DEFINE a == wire[s]
           E == {x \in a.events \cup a.skipped : x.origin = o}
           N == {n \in Told(a, o) : n > cursor[s][o] /\ (cursor[s][o] + 1) .. n \subseteq Told(a, o)}
<1>1. IsFiniteSet(a.events) /\ IsFiniteSet(a.skipped)
  BY DEF FleetInv, NetInv
<1>2. IsFiniteSet(E)
  <2>1. IsFiniteSet(a.events \cup a.skipped)
    BY <1>1, FS_Union
  <2> QED
    BY <2>1, FS_Subset
<1>3. IsFiniteSet(Told(a, o))
  BY <1>2, SeqsFinite DEF Told
<1>4. IsFiniteSet(N)
  <2>1. N \subseteq Told(a, o)
    OBVIOUS
  <2> QED
    BY <1>3, <2>1, FS_Subset
<1>5. Cardinality(N) \in Nat
  BY <1>4, FS_CardinalityType
<1>6. cursor[s][o] \in Nat
  BY DEF FleetInv, FleetTypeOK
<1>7. Reach(s, a, o) = cursor[s][o] + Cardinality(N)
  BY DEF Reach
<1> HIDE DEF N, a
<1>8. Reach(s, a, o) \in Nat
  BY <1>5, <1>6, <1>7
<1> QED
  BY <1>8 DEF a

(* Where a pass stands after an exchange is well typed. *)
LEMMA AfterExchangeTyped ==
  ASSUME FleetInv, NEW s \in Suitcases, NEW a \in Response
  PROVE  AfterExchange(s, a) \in Pass
<1>1. pass[s] \in Pass
  BY DEF FleetInv, FleetTypeOK
<1>2. a.missing \in SUBSET Event
  BY DEF Response
<1> QED
  BY <1>1, <1>2 DEF AfterExchange, Pass

(* The suitcase takes an answer over; its acknowledgement moves forward,   *)
(* to what Home holds at most.                                             *)
LEMMA ReceiveAnswerInv ==
  ASSUME FleetInv, NEW s \in Suitcases, ReceiveAnswer(s)
  PROVE  /\ FleetInv'
         /\ UNCHANGED <<rows, db>>
         /\ acked'[s] \in acked[s] .. HomeLast(s)
         /\ acked' = [acked EXCEPT ![s] = acked'[s]]
<1> DEFINE a == wire[s]
<1>1. a \in Response /\ a.type = "response"
  BY WireTyped DEF ReceiveAnswer, FleetInv
<1>2. UNCHANGED <<homeVars, siteVars, projected, stale, faults>>
  BY DEF ReceiveAnswer
<1>3. acked' = [acked EXCEPT ![s] = IF a.accepted > @ THEN a.accepted ELSE @]
  BY DEF ReceiveAnswer
<1>4. HomeLast(s) \in Nat
  BY HomeLastNat DEF FleetInv, Sites
<1>5. /\ acked[s] \in Nat /\ acked[s] =< HomeLast(s)
      /\ a.accepted \in Nat /\ a.accepted =< HomeLast(s)
  BY <1>1 DEF FleetInv, FleetTypeOK, FileInv, NetInv, Response
<1>6. /\ acked'[s] \in acked[s] .. HomeLast(s)
      /\ acked' = [acked EXCEPT ![s] = acked'[s]]
      /\ acked' \in [Suitcases -> Nat]
  BY <1>3, <1>4, <1>5 DEF FleetInv, FleetTypeOK
<1>7. LogInv' /\ RowsInv' /\ \A x \in Suitcases : HomeLast(x)' = HomeLast(x)
  BY <1>2, LogsUnchanged DEF FleetInv, homeVars, siteVars
<1>8. outbox' = [outbox EXCEPT ![s] = {e \in @ : e.seq > a.accepted}]
  BY DEF ReceiveAnswer
<1>9. wire' = [wire EXCEPT ![s] = NoMessage]
  BY DEF ReceiveAnswer
<1>10. FileInv'
  <2>1. outbox' \in [Suitcases -> SUBSET Event] /\ \A x \in Suitcases : outbox'[x] \subseteq outbox[x]
    BY <1>8 DEF FleetInv, FleetTypeOK
  <2>2. \A x \in Suitcases \ {s} : acked'[x] = acked[x]
    BY <1>6 DEF FleetInv, FleetTypeOK
  <2>3. acked'[s] =< HomeLast(s)
    BY <1>4, <1>5, <1>6
  <2> QED
    BY <1>2, <1>7, <2>1, <2>2, <2>3 DEF FleetInv, FileInv, siteVars
<1>11. NetInv'
  <2>1. wire \in [Suitcases -> {NoMessage, Failure} \cup Request \cup Response]
    BY DEF FleetInv, FleetTypeOK
  <2> QED
    BY <1>2, <1>7, <1>9, <2>1 DEF FleetInv, NetInv, NoMessage, siteVars
<1>12. PICK P : 
         /\ cursor' = [cursor EXCEPT ![s] = [o \in Sites |-> IF o \in P THEN Reach(s, a, o) ELSE @[o]]]
         /\ \E news \in OrderedListings({e \in a.events :
                          /\ e.origin \in P
                          /\ cursor[s][e.origin] < e.seq
                          /\ e.seq =< Reach(s, a, e.origin)} \ RangeOf(inbox[s])) :
            \E controls \in OrderedListings(IF Accepted(s, a)
                               THEN a.controls \ (RangeOf(inbox[s]) \cup RangeOf(news)) ELSE {}) :
              inbox' = [inbox EXCEPT ![s] = @ \o news \o controls]
  BY DEF ReceiveAnswer
<1>13. cursor' \in [Suitcases -> [Sites -> Nat]]
  <2>1. \A o \in Sites : Reach(s, a, o) \in Nat
    BY <1>1, ReachNat
  <2>2. cursor \in [Suitcases -> [Sites -> Nat]]
    BY DEF FleetInv, FleetTypeOK
  <2>3. [o \in Sites |-> IF o \in P THEN Reach(s, a, o) ELSE cursor[s][o]] \in [Sites -> Nat]
    BY <2>1, <2>2
  <2>4. cursor' = [cursor EXCEPT ![s] = [o \in Sites |-> IF o \in P THEN Reach(s, a, o) ELSE cursor[s][o]]]
    BY <1>12
  <2> QED
    BY <2>2, <2>3, <2>4
<1>14. inbox' \in [Suitcases -> Seq(Event)]
  <2> DEFINE D == {e \in a.events :
                          /\ e.origin \in P
                          /\ cursor[s][e.origin] < e.seq
                          /\ e.seq =< Reach(s, a, e.origin)} \ RangeOf(inbox[s])
             C(n) == IF Accepted(s, a) THEN a.controls \ (RangeOf(inbox[s]) \cup RangeOf(n)) ELSE {}
  <2>1. PICK news \in OrderedListings(D) : \E controls \in OrderedListings(C(news)) :
          inbox' = [inbox EXCEPT ![s] = @ \o news \o controls]
    BY <1>12
  <2>2. PICK controls \in OrderedListings(C(news)) : inbox' = [inbox EXCEPT ![s] = @ \o news \o controls]
    BY <2>1
  <2>3. /\ a.events \subseteq Event /\ IsFiniteSet(a.events)
        /\ a.controls \subseteq Event /\ IsFiniteSet(a.controls)
    BY <1>1 DEF Response, FleetInv, NetInv
  <2>4. D \subseteq Event /\ IsFiniteSet(D) /\ news \in Listings(D)
    <3>1. D \subseteq a.events
      OBVIOUS
    <3>2. news \in Listings(D)
      BY DEF OrderedListings
    <3> HIDE DEF D
    <3> QED
      BY <2>3, <3>1, <3>2, FS_Subset
  <2>5. C(news) \subseteq Event /\ IsFiniteSet(C(news)) /\ controls \in Listings(C(news))
    <3>1. C(news) \subseteq a.controls
      OBVIOUS
    <3>2. controls \in Listings(C(news))
      BY DEF OrderedListings
    <3> HIDE DEF C
    <3> QED
      BY <2>3, <3>1, <3>2, FS_Subset
  <2> HIDE DEF D, C
  <2>6. news \in Seq(Event)
    BY <2>4, ListingIsSeq
  <2>7. controls \in Seq(Event)
    BY <2>5, ListingIsSeq
  <2>8. inbox \in [Suitcases -> Seq(Event)]
    BY DEF FleetInv, FleetTypeOK
  <2> QED
    BY <2>2, <2>6, <2>7, <2>8
<1>15. pass' \in [Suitcases -> Pass]
  <2>1. AfterExchange(s, a) \in Pass
    BY <1>1, AfterExchangeTyped
  <2>2. Idle \in Pass
    BY DEF Idle, Pass
  <2>3. pass' = [pass EXCEPT ![s] = IF Accepted(s, a) THEN AfterExchange(s, a) ELSE Idle]
    BY DEF ReceiveAnswer
  <2> QED
    BY <2>1, <2>2, <2>3 DEF FleetInv, FleetTypeOK
<1>16. outbox' \in [Suitcases -> SUBSET Event] /\ queuedArtifacts' \in [Suitcases -> SUBSET Event]
  <2>1. outbox' \in [Suitcases -> SUBSET Event]
    BY <1>8 DEF FleetInv, FleetTypeOK
  <2>2. queuedArtifacts' = [queuedArtifacts EXCEPT ![s] =
          IF Accepted(s, a) /\ AfterExchange(s, a).at = "projecting" THEN @ \cap outbox'[s] ELSE @]
    BY DEF ReceiveAnswer
  <2> QED
    BY <2>1, <2>2 DEF FleetInv, FleetTypeOK
<1> HIDE DEF a
<1>17. FleetTypeOK'
  BY <1>2, <1>6, <1>9, <1>13, <1>14, <1>15, <1>16
     DEF FleetInv, FleetTypeOK, homeVars, siteVars
<1> QED
  BY <1>2, <1>6, <1>7, <1>10, <1>11, <1>17 DEF FleetInv, homeVars, siteVars

(* An exchange fails. *)
LEMMA ReceiveFailureInv ==
  ASSUME FleetInv, NEW s \in Suitcases, ReceiveFailure(s)
  PROVE  FleetInv'
<1>1. /\ wire' = [wire EXCEPT ![s] = NoMessage] /\ pass' = [pass EXCEPT ![s] = Idle]
      /\ UNCHANGED <<homeVars, siteVars, fileVars, stale, faults>>
  BY DEF ReceiveFailure
<1>2. wire \in [Suitcases -> {NoMessage, Failure} \cup Request \cup Response]
  BY DEF FleetInv, FleetTypeOK
<1>3. LogInv' /\ RowsInv' /\ FileInv' /\ NetInv'
  BY <1>1, <1>2, QuietInv DEF homeVars, siteVars, fileVars
<1>4. Idle \in Pass
  BY DEF Idle, Pass
<1>5. FleetTypeOK'
  BY <1>1, <1>4 DEF FleetInv, FleetTypeOK, homeVars, siteVars, fileVars
<1> QED
  BY <1>3, <1>5 DEF FleetInv

(* Home stores content it was missing. *)
LEMMA UploadStoreInv ==
  ASSUME FleetInv, NEW s \in Suitcases, UploadStore(s)
  PROVE  FleetInv'
<1>1. UNCHANGED <<rows, homePolicy, excluded, siteVars, fileVars, netVars>>
  BY DEF UploadStore
<1>2. LogInv' /\ RowsInv' /\ FileInv' /\ NetInv'
  BY <1>1, QuietInv DEF siteVars, fileVars, netVars
<1>3. pass[s] \in Pass /\ Idle \in Pass
  BY DEF FleetInv, FleetTypeOK, Idle, Pass
<1>4. \A e \in pass[s].missing : e \in Event
  BY <1>3 DEF Pass
<1>5. artifacts' \subseteq Event /\ pass' \in [Suitcases -> Pass]
  BY <1>3, <1>4 DEF UploadStore, FleetInv, FleetTypeOK
<1>6. FleetTypeOK'
  BY <1>1, <1>5 DEF FleetInv, FleetTypeOK, siteVars, fileVars, netVars
<1> QED
  BY <1>2, <1>6 DEF FleetInv

(* The suitcase forgets content Home has stored. *)
LEMMA UploadForgetInv ==
  ASSUME FleetInv, NEW s \in Suitcases, UploadForget(s)
  PROVE  FleetInv'
<1>1. UNCHANGED <<homeVars, siteVars, outbox, inbox, cursor, acked, projected, netVars>>
  BY DEF UploadForget
<1>2. LogInv' /\ RowsInv' /\ FileInv' /\ NetInv'
  BY <1>1, QuietInv DEF homeVars, siteVars, netVars
<1>3. PICK e \in pass[s].missing \cap artifacts :
        /\ queuedArtifacts' = [queuedArtifacts EXCEPT ![s] = @ \ {e}]
        /\ pass' = [pass EXCEPT ![s].missing = @ \ {e},
                                ![s].at = IF pass[s].missing = {e} THEN "ready" ELSE @]
  BY DEF UploadForget
<1>4. pass \in [Suitcases -> Pass] /\ pass[s] \in Pass
  BY DEF FleetInv, FleetTypeOK
<1>5. pass' \in [Suitcases -> Pass]
  <2> DEFINE p == [pass[s] EXCEPT !.missing = @ \ {e},
                                  !.at = IF pass[s].missing = {e} THEN "ready" ELSE @]
  <2>1. p \in Pass
    BY <1>4 DEF Pass
  <2>2. pass' = [pass EXCEPT ![s] = p]
    BY <1>3, <1>4 DEF Pass
  <2> HIDE DEF p
  <2> QED
    BY <1>4, <2>1, <2>2
<1>6. queuedArtifacts' \in [Suitcases -> SUBSET Event]
  BY <1>3 DEF FleetInv, FleetTypeOK
<1>7. FleetTypeOK'
  BY <1>1, <1>5, <1>6 DEF FleetInv, FleetTypeOK, homeVars, siteVars, netVars
<1> QED
  BY <1>2, <1>7 DEF FleetInv

(* What the inbox holds are events. *)
LEMMA InboxEvent ==
  ASSUME FleetInv, NEW s \in Suitcases, NEW i \in DOMAIN inbox[s]
  PROVE  inbox[s][i] \in Event
BY DEF FleetInv, FleetTypeOK

(* A pass that moves on stays well typed. *)
LEMMA PassTo ==
  ASSUME FleetInv, NEW s \in Suitcases, NEW at \in {"ready", "projecting", "marking"},
         pass' = [pass EXCEPT ![s].at = at]
  PROVE  pass' \in [Suitcases -> Pass]
<1>1. pass \in [Suitcases -> Pass] /\ pass[s] \in Pass
  BY DEF FleetInv, FleetTypeOK
<1>2. [pass[s] EXCEPT !.at = at] \in Pass
  BY <1>1 DEF Pass
<1> QED
  BY <1>1, <1>2

(* The projector applies an event. *)
LEMMA ProjectInv ==
  ASSUME FleetInv, NEW s \in Suitcases, Project(s)
  PROVE  FleetInv'
<1>1. UNCHANGED <<homeVars, db, fileVars, netVars>> /\ pass' = [pass EXCEPT ![s].at = "marking"]
  BY DEF Project
<1>2. LogInv' /\ RowsInv' /\ FileInv' /\ NetInv'
  BY <1>1, QuietInv DEF homeVars, fileVars, netVars
<1>3. PICK i \in DOMAIN inbox[s] :
        LET e == inbox[s][i]
        IN IF e \in RangeOf(applied[s])
           THEN UNCHANGED <<applied, policy>>
           ELSE /\ applied' = [applied EXCEPT ![s] = Append(@, e)]
                /\ policy' = [policy EXCEPT ![s] =
                     IF e.kind = "policy" /\ s \in e.to THEN e.policy ELSE @]
  BY DEF Project
<1>4. inbox[s][i] \in Event /\ inbox[s][i].policy \in Policies
  BY InboxEvent, EventFields
<1>5. applied \in [Suitcases -> Seq(Event)] /\ policy \in [Suitcases -> Policies]
  BY DEF FleetInv, FleetTypeOK
<1>6. applied' \in [Suitcases -> Seq(Event)] /\ policy' \in [Suitcases -> Policies]
  <2>1. CASE UNCHANGED <<applied, policy>>
    BY <1>5, <2>1
  <2>2. CASE /\ applied' = [applied EXCEPT ![s] = Append(@, inbox[s][i])]
             /\ policy' = [policy EXCEPT ![s] =
                  IF inbox[s][i].kind = "policy" /\ s \in inbox[s][i].to
                  THEN inbox[s][i].policy ELSE @]
    <3>1. Append(applied[s], inbox[s][i]) \in Seq(Event)
      BY <1>4, <1>5
    <3> QED
      BY <1>4, <1>5, <2>2, <3>1
  <2> QED
    BY <1>3, <2>1, <2>2
<1>7. pass' \in [Suitcases -> Pass]
  BY <1>1, PassTo
<1>8. FleetTypeOK'
  BY <1>1, <1>6, <1>7 DEF FleetInv, FleetTypeOK, homeVars, fileVars, netVars
<1> QED
  BY <1>2, <1>8 DEF FleetInv

(* The membership file notes a projected event. *)
LEMMA MarkProjectedInv ==
  ASSUME FleetInv, NEW s \in Suitcases, MarkProjected(s)
  PROVE  FleetInv'
<1>1. /\ UNCHANGED <<homeVars, siteVars, outbox, inbox, cursor, acked, queuedArtifacts, netVars>>
      /\ pass' = [pass EXCEPT ![s].at = "projecting"]
  BY DEF MarkProjected
<1>2. LogInv' /\ RowsInv' /\ FileInv' /\ NetInv'
  BY <1>1, QuietInv DEF homeVars, siteVars, netVars
<1>3. PICK i \in DOMAIN inbox[s] : projected' = [projected EXCEPT ![s] = @ \cup {inbox[s][i]}]
  BY DEF MarkProjected
<1>4. inbox[s][i] \in Event
  BY InboxEvent
<1>5. projected' \in [Suitcases -> SUBSET Event]
  BY <1>3, <1>4 DEF FleetInv, FleetTypeOK
<1>6. pass' \in [Suitcases -> Pass]
  BY <1>1, PassTo
<1>7. FleetTypeOK'
  BY <1>1, <1>5, <1>6 DEF FleetInv, FleetTypeOK, homeVars, siteVars, netVars
<1> QED
  BY <1>2, <1>7 DEF FleetInv

(* A pass ends. *)
LEMMA FinishPassInv ==
  ASSUME FleetInv, NEW s \in Suitcases, FinishPass(s)
  PROVE  FleetInv'
<1>1. UNCHANGED <<homeVars, siteVars, fileVars, netVars>> /\ pass' = [pass EXCEPT ![s] = Idle]
  BY DEF FinishPass
<1>2. LogInv' /\ RowsInv' /\ FileInv' /\ NetInv'
  BY <1>1, QuietInv DEF homeVars, siteVars, fileVars, netVars
<1>3. Idle \in Pass
  BY DEF Idle, Pass
<1>4. FleetTypeOK'
  BY <1>1, <1>3 DEF FleetInv, FleetTypeOK, homeVars, siteVars, fileVars, netVars
<1> QED
  BY <1>2, <1>4 DEF FleetInv

(* An interrupted exchange may leave its request under way. *)
LEMMA InterruptedInv ==
  ASSUME FleetInv, NEW s \in Suitcases, Interrupted(s)
  PROVE  FleetInv'
<1>1. /\ UNCHANGED <<homeVars, siteVars, fileVars>>
      /\ pass' = [pass EXCEPT ![s] = Idle] /\ wire' = [wire EXCEPT ![s] = NoMessage]
      /\ faults < MaxFaults /\ faults' = faults + 1
  BY DEF Interrupted
<1>2. wire \in [Suitcases -> {NoMessage, Failure} \cup Request \cup Response]
  BY DEF FleetInv, FleetTypeOK
<1>3. \A q \in stale' : q \in stale \/ (q = wire[s] /\ wire[s].type = "request")
  BY DEF Interrupted
<1>4. stale' \subseteq Request
  BY <1>3, WireTyped DEF FleetInv, FleetTypeOK
<1>5. \A q \in stale' : q.events \subseteq db[q.site]
  BY <1>3 DEF FleetInv, NetInv
<1>6. LogInv' /\ RowsInv' /\ \A x \in Suitcases : HomeLast(x)' = HomeLast(x)
  BY <1>1, LogsUnchanged DEF FleetInv, homeVars, siteVars
<1>7. FileInv' /\ NetInv'
  BY <1>1, <1>2, <1>5, <1>6 DEF FleetInv, FileInv, NetInv, NoMessage, siteVars, fileVars
<1>8. Idle \in Pass
  BY DEF Idle, Pass
<1>9. faults' \in 0..MaxFaults
  BY <1>1, FleetAssumption DEF FleetInv, FleetTypeOK
<1>10. FleetTypeOK'
  BY <1>1, <1>4, <1>8, <1>9 DEF FleetInv, FleetTypeOK, homeVars, siteVars, fileVars
<1> QED
  BY <1>6, <1>7, <1>10 DEF FleetInv

(* The suitcase answers requests with the next numbers of its log. *)
LEMMA AcknowledgeInv ==
  ASSUME FleetInv, NEW s \in Suitcases, Acknowledge(s)
  PROVE  /\ FleetInv'
         /\ LastSeq(db'[s], s) \in Nat /\ LastSeq(db'[s], s) >= LastSeq(db[s], s)
         /\ \A x \in Suitcases \ {s} : db'[x] = db[x]
<1>1. PICK requests \in OrderedListings(Unanswered(s)) :
        db' = [db EXCEPT ![s] = @ \cup Answers(s, requests)] /\ Enqueue(s, db'[s])
  BY DEF Acknowledge
<1> DEFINE n == LastSeq(db[s], s)
           F == Answers(s, requests)
           k == Cardinality(Unanswered(s))
           answer(i) == [NewEvent(s, n + i, "ack") EXCEPT !.re = requests[i].seq]
<1>2. n \in Nat /\ s \in Sites
  BY LogLastNat DEF FleetInv, Sites
<1>3. Unanswered(s) \subseteq Event /\ IsFiniteSet(Unanswered(s)) /\ k \in Nat
  <2>1. Unanswered(s) \subseteq RangeOf(applied[s])
    BY DEF Unanswered
  <2>2. applied[s] \in Seq(Event)
    BY DEF FleetInv, FleetTypeOK
  <2> QED
    BY <2>1, <2>2, RangeInSet, RangeFinite, FS_Subset, FS_CardinalityType
<1>4. requests \in Seq(Event) /\ DOMAIN requests = 1..k
  <2>1. requests \in Listings(Unanswered(s))
    BY DEF OrderedListings
  <2> QED
    BY <1>3, <2>1, ListingIsSeq
<1> HIDE DEF n, k
<1>5. \A i \in 1..k : answer(i) \in Event /\ answer(i).origin = s /\ answer(i).seq = n + i
  <2> SUFFICES ASSUME NEW i \in 1..k
               PROVE  answer(i) \in Event /\ answer(i).origin = s /\ answer(i).seq = n + i
    OBVIOUS
  <2>1. requests[i] \in Event
    <3>1. RangeOf(requests) \subseteq Event
      BY <1>4, RangeInSet
    <3>2. requests[i] \in RangeOf(requests)
      BY <1>4 DEF RangeOf
    <3> QED
      BY <3>1, <3>2
  <2>2. requests[i].seq \in Nat
    BY <2>1, EventFields
  <2>3. n + i \in Nat \ {0}
    BY <1>2, <1>3
  <2> QED
    BY <1>2, <2>2, <2>3 DEF NewEvent, Event, Kinds, Policies
<1>6. F = {answer(i) : i \in 1..k}
  BY <1>4 DEF Answers, n
<1> HIDE DEF F, answer
<1>7. F \in SUBSET Event /\ \A e \in F : e.origin = s
  BY <1>5, <1>6
<1>8. \A e, f \in F : e.seq = f.seq => e = f
  BY <1>2, <1>3, <1>5, <1>6
<1>9. IsFiniteSet(F)
  <2>1. [i \in 1..k |-> answer(i)] \in Surjection(1..k, F)
    BY <1>6 DEF Surjection
  <2>2. IsFiniteSet(1..k)
    BY <1>3, FS_Interval
  <2> QED
    BY <2>1, <2>2, FS_Surjection
<1>10. SeqsOf(F, s) = (n + 1) .. (n + k)
  <2>1. SeqsOf(F, s) = {e.seq : e \in F}
    BY <1>7 DEF SeqsOf
  <2>2. SeqsOf(F, s) = {n + i : i \in 1..k}
    BY <1>5, <1>6, <2>1
  <2>3. \A m \in (n + 1) .. (n + k) : m - n \in 1..k /\ m = n + (m - n)
    BY <1>2, <1>3
  <2>4. \A i \in 1..k : n + i \in (n + 1) .. (n + k)
    BY <1>2, <1>3
  <2> QED
    BY <2>2, <2>3, <2>4
<1>11. UNCHANGED <<rows, acked, wire, stale>>
  BY DEF Acknowledge, homeVars, netVars
<1>12. /\ db' \in [Suitcases -> SUBSET Event]
       /\ \A x \in Suitcases : db[x] \subseteq db'[x]
       /\ LogInv' /\ RowsInv'
       /\ \A x \in Suitcases : HomeLast(x)' = HomeLast(x)
       /\ LastSeq(db'[s], s) = n + k
       /\ \A x \in Suitcases \ {s} : db'[x] = db[x]
  <2>1. db' = [db EXCEPT ![s] = @ \cup F]
    BY <1>1 DEF F
  <2>2. SeqsOf(F, s) = (LastSeq(db[s], s) + 1) .. (LastSeq(db[s], s) + k)
    BY <1>10 DEF n
  <2>3. k \in Nat /\ F \in SUBSET Event /\ IsFiniteSet(F) /\ \A e \in F : e.origin = s
    BY <1>3, <1>7, <1>9
  <2> QED
    BY <1>8, <1>11, <2>1, <2>2, <2>3, LogGrows DEF n
<1>13. /\ FileInv' /\ NetInv'
       /\ outbox' \in [Suitcases -> SUBSET Event]
       /\ queuedArtifacts' \in [Suitcases -> SUBSET Event]
  BY <1>1, <1>11, <1>12, EnqueueInv
<1>14. pass' \in [Suitcases -> Pass]
  <2>1. [Idle EXCEPT !.at = "ready", !.round = 2] \in Pass
    BY DEF Idle, Pass
  <2> QED
    BY <2>1 DEF Acknowledge, FleetInv, FleetTypeOK
<1>15. FleetTypeOK'
  BY <1>12, <1>13, <1>14 DEF FleetInv, FleetTypeOK, Acknowledge, homeVars, netVars
<1>16. LastSeq(db'[s], s) \in Nat /\ LastSeq(db'[s], s) >= LastSeq(db[s], s)
  BY <1>2, <1>3, <1>12 DEF n
<1> QED
  BY <1>12, <1>13, <1>15, <1>16 DEF FleetInv

-----------------------------------------------------------------------------
(* The invariant holds.                                                    *)

(* Every step keeps the invariant: one case for each action. *)
LEMMA StepInv == FleetInv /\ [FleetNext]_vars => FleetInv'
<1> SUFFICES ASSUME FleetInv, [FleetNext]_vars PROVE FleetInv'
  OBVIOUS
<1>1. CASE HomeActs
  <2>1. ASSUME NEW kind \in HomeKinds, HomeWrites(kind) PROVE FleetInv'
    BY <2>1, HomeWritesInv
  <2>2. ASSUME NEW targets \in SUBSET Suitcases \ {{}}, HomeRequests(targets) PROVE FleetInv'
    BY <2>2, HomeRequestsInv
  <2>3. ASSUME NEW s \in Suitcases, NEW p \in PolicyChanges, HomeSetsPolicy(s, p) PROVE FleetInv'
    BY <2>3, HomeSetsPolicyInv
  <2>4. ASSUME NEW q \in stale, LateExchange(q) PROVE FleetInv'
    BY <2>4, LateExchangeInv
  <2> QED
    BY <1>1, <2>1, <2>2, <2>3, <2>4 DEF HomeActs
<1>2. ASSUME NEW s \in Suitcases, SuitcaseActs(s) PROVE FleetInv'
  <2>1. CASE LocalWrites(s)
    BY <2>1, LocalWritesInv
  <2>2. ASSUME NEW manual \in BOOLEAN, BeginPass(s, manual) PROVE FleetInv'
    BY <2>2, BeginPassInv
  <2>3. CASE PassStep(s)
    BY <2>3, SendExchangeInv, HomeExchangeInv, ReceiveAnswerInv, ReceiveFailureInv,
       UploadStoreInv, UploadForgetInv, ProjectInv, MarkProjectedInv, AcknowledgeInv,
       FinishPassInv DEF PassStep
  <2>4. CASE Interrupted(s)
    BY <2>4, InterruptedInv
  <2> QED
    BY <1>2, <2>1, <2>2, <2>3, <2>4 DEF SuitcaseActs
<1>3. CASE UNCHANGED vars
  <2>1. UNCHANGED <<homeVars, siteVars, fileVars, pass, netVars>>
    BY <1>3 DEF vars
  <2>2. LogInv' /\ RowsInv' /\ FileInv' /\ NetInv'
    BY <2>1, QuietInv DEF homeVars, siteVars, fileVars, netVars
  <2>3. FleetTypeOK'
    BY <2>1 DEF FleetInv, FleetTypeOK, homeVars, siteVars, fileVars, netVars
  <2> QED
    BY <2>2, <2>3 DEF FleetInv
<1> QED
  BY <1>1, <1>2, <1>3 DEF FleetNext

(* The invariant holds in every behaviour: the logs, the outboxes, the     *)
(* requests under way and Home's rows stay in the relation the handlers    *)
(* rely on.                                                                *)
THEOREM FleetInvariant == FleetSpec => []FleetInv
BY InitInv, StepInv, PTL DEF FleetSpec

(* Type correctness of the exchange, for every fleet (multisite.ts,         *)
(* suitcase-transport.ts, suitcase-sync-client.ts).                        *)
THEOREM FleetTypeCorrect == FleetSpec => []FleetTypeOK
<1>1. FleetInv => FleetTypeOK
  BY DEF FleetInv
<1> QED
  BY <1>1, FleetInvariant, PTL

(* However requests are lost, repeated or late and wherever a suitcase     *)
(* crashes, Home holds exactly a prefix of its log (ingestEvents).         *)
THEOREM HomeHoldsAPrefix == FleetSpec => []HomeHoldsPrefix
<1>1. FleetInv => HomeHoldsPrefix
  BY PrefixFromInv
<1> QED
  BY <1>1, FleetInvariant, PTL

(* What a suitcase has dropped from its outbox is at Home                   *)
(* (acceptIncomingEvents, acknowledgedLocalSequence).                      *)
THEOREM AcknowledgedIsDurable == FleetSpec => []AckedIsDurable
<1>1. FleetInv => AckedIsDurable
  BY PrefixFromInv
<1> QED
  BY <1>1, FleetInvariant, PTL

-----------------------------------------------------------------------------
(* The exchange implements the abstract uplink.                            *)

Written == [s \in Suitcases |-> LastSeq(db[s], s)]
Durable == [s \in Suitcases |-> HomeLast(s)]

(* Home is never ahead of the log of a suitcase. *)
LEMMA HomeBehindLog ==
  ASSUME NEW R, NEW D, NEW o, Numbered(R, o), Numbered(D, o),
         \A e \in R : e.origin = o => e \in D
  PROVE  LastSeq(R, o) \in Nat /\ LastSeq(D, o) \in Nat /\ LastSeq(R, o) =< LastSeq(D, o)
<1>1. /\ LastSeq(R, o) \in Nat /\ SeqsOf(R, o) = 1 .. LastSeq(R, o)
      /\ LastSeq(D, o) \in Nat /\ SeqsOf(D, o) = 1 .. LastSeq(D, o)
  BY LastSeqNat
<1>2. SeqsOf(R, o) \subseteq SeqsOf(D, o)
  BY DEF SeqsOf
<1>3. CASE LastSeq(R, o) = 0
  BY <1>1, <1>3
<1>4. CASE LastSeq(R, o) # 0
  <2>1. LastSeq(R, o) \in SeqsOf(R, o)
    BY <1>1, <1>4
  <2>2. LastSeq(R, o) \in 1 .. LastSeq(D, o)
    BY <1>1, <1>2, <2>1
  <2> QED
    BY <1>1, <2>2
<1> QED
  BY <1>3, <1>4

(* Where logs, rows and acknowledgements stay, so do the marks of the uplink. *)
LEMMA MarksSame ==
  ASSUME UNCHANGED <<db, rows, acked>>
  PROVE  UNCHANGED <<Written, Durable, acked>>
BY DEF Written, Durable, HomeLast

(* A write of a suitcase moves its first mark. *)
LEMMA WriteMapped ==
  ASSUME NEW s \in Suitcases, LastSeq(db'[s], s) \in Nat, LastSeq(db[s], s) \in Nat,
         LastSeq(db'[s], s) >= LastSeq(db[s], s),
         \A x \in Suitcases \ {s} : db'[x] = db[x], UNCHANGED <<rows, acked>>
  PROVE  Uplink!Write(s) \/ UNCHANGED <<Written, Durable, acked>>
<1>1. Durable' = Durable /\ acked' = acked
  BY DEF Durable, HomeLast
<1>2. Written' = [Written EXCEPT ![s] = Written'[s]]
  BY DEF Written
<1>3. Written[s] = LastSeq(db[s], s) /\ Written'[s] = LastSeq(db'[s], s)
  BY DEF Written
<1>4. CASE Written'[s] = Written[s]
  BY <1>1, <1>2, <1>4 DEF Written
<1>5. CASE Written'[s] # Written[s]
  <2>1. Written'[s] \in Nat /\ Written'[s] > Written[s]
    BY <1>3, <1>5
  <2> QED
    BY <1>1, <1>2, <2>1 DEF Uplink!Write, Written, Durable
<1> QED
  BY <1>4, <1>5

(* An exchange moves Home's mark of one suitcase, within its log. *)
LEMMA AcceptMapped ==
  ASSUME NEW s \in Suitcases, HomeLast(s) \in Nat, HomeLast(s)' \in Nat,
         HomeLast(s)' >= HomeLast(s), LastSeq(db[s], s) \in Nat, HomeLast(s)' =< LastSeq(db[s], s),
         \A x \in Suitcases \ {s} : HomeLast(x)' = HomeLast(x), UNCHANGED <<db, acked>>
  PROVE  Uplink!Accept(s) \/ UNCHANGED <<Written, Durable, acked>>
<1>1. Written' = Written /\ acked' = acked
  BY DEF Written
<1>2. Durable' = [Durable EXCEPT ![s] = HomeLast(s)']
  BY DEF Durable
<1>3. CASE HomeLast(s)' = HomeLast(s)
  BY <1>1, <1>2, <1>3 DEF Durable
<1>4. CASE HomeLast(s)' # HomeLast(s)
  <2>1. HomeLast(s)' \in (HomeLast(s) + 1) .. LastSeq(db[s], s)
    BY <1>4
  <2>2. HomeLast(s)' \in (Durable[s] + 1) .. Written[s]
    BY <2>1 DEF Durable, Written
  <2> QED
    BY <1>1, <1>2, <2>2 DEF Uplink!Accept, Written, Durable
<1> QED
  BY <1>3, <1>4

(* An answer moves the third mark, within Home's copy. *)
LEMMA ReleaseMapped ==
  ASSUME FleetInv, NEW s \in Suitcases, ReceiveAnswer(s)
  PROVE  Uplink!Release(s) \/ UNCHANGED <<Written, Durable, acked>>
<1>1. /\ UNCHANGED <<rows, db>>
      /\ acked'[s] \in acked[s] .. HomeLast(s)
      /\ acked' = [acked EXCEPT ![s] = acked'[s]]
  BY ReceiveAnswerInv
<1>2. acked \in [Suitcases -> Nat]
  BY DEF FleetInv, FleetTypeOK
<1>3. Written' = Written /\ Durable' = Durable
  BY <1>1 DEF Written, Durable, HomeLast
<1>4. CASE acked'[s] = acked[s]
  BY <1>1, <1>2, <1>3, <1>4
<1>5. CASE acked'[s] # acked[s]
  <2>1. HomeLast(s) \in Nat
    BY HomeLastNat DEF FleetInv, Sites
  <2>2. acked'[s] \in (acked[s] + 1) .. Durable[s]
    BY <1>1, <1>2, <1>5, <2>1 DEF Durable
  <2> QED
    BY <1>1, <1>3, <2>2 DEF Uplink!Release, Written, Durable
<1> QED
  BY <1>4, <1>5

(* Initial states map to initial states of the uplink. *)
LEMMA InitMapped == FleetInit => Uplink!UplinkInit
<1> SUFFICES ASSUME FleetInit PROVE Uplink!UplinkInit
  OBVIOUS
<1>1. \A o : LastSeq({}, o) = 0
  BY LastSeqIs DEF SeqsOf
<1>2. RangeOf(rows) = {}
  BY DEF FleetInit, RangeOf
<1>3. \A s \in Suitcases : LastSeq(db[s], s) = 0 /\ HomeLast(s) = 0
  BY <1>1, <1>2 DEF FleetInit, HomeLast
<1> QED
  BY <1>3 DEF FleetInit, Uplink!UplinkInit

(* Every step maps to a step of the uplink or to none. *)
LEMMA StepMapped == FleetInv /\ FleetInv' /\ [FleetNext]_vars
                      => [Uplink!UplinkNext]_(Uplink!marks)
<1> SUFFICES ASSUME FleetInv, FleetInv', [FleetNext]_vars
             PROVE  (\E s \in Suitcases :
                       Uplink!Write(s) \/ Uplink!Accept(s) \/ Uplink!Release(s))
                    \/ UNCHANGED <<Written, Durable, acked>>
  BY DEF Uplink!UplinkNext, Uplink!marks, Written, Durable
<1>1. \A s \in Suitcases : HomeLast(s) \in Nat /\ LastSeq(db[s], s) \in Nat
  BY HomeLastNat, LogLastNat DEF FleetInv, Sites
<1>2. ASSUME NEW s \in Suitcases PROVE HomeLast(s)' =< LastSeq(db'[s], s)
  <2>1. Numbered(RangeOf(rows'), s) /\ Numbered(db'[s], s)
    BY DEF FleetInv, LogInv, RowsInv, Sites
  <2>2. \A e \in RangeOf(rows') : e.origin = s => e \in db'[s]
    BY DEF FleetInv, RowsInv
  <2> QED
    BY <2>1, <2>2, HomeBehindLog DEF HomeLast
<1>3. CASE HomeActs
  <2>1. ASSUME NEW e \in Event, e.origin = Home, e.seq = HomeNext, HomeAppend(e),
               UNCHANGED <<db, outbox, acked, wire, stale>>
        PROVE  UNCHANGED <<Written, Durable, acked>>
    <3>1. \A s \in Suitcases : HomeLast(s)' = HomeLast(s)
      BY <2>1, HomeAppendInv
    <3> QED
      BY <2>1, <3>1 DEF Written, Durable
  <2>2. ASSUME NEW q \in stale, LateExchange(q)
        PROVE  \E s \in Suitcases : Uplink!Accept(s) \/ UNCHANGED <<Written, Durable, acked>>
    <3>1. /\ q.site \in Suitcases
          /\ HomeLast(q.site)' \in Nat /\ HomeLast(q.site)' >= HomeLast(q.site)
          /\ \A x \in Suitcases \ {q.site} : HomeLast(x)' = HomeLast(x)
      BY <2>2, LateExchangeInv
    <3>2. UNCHANGED <<db, acked>>
      BY <2>2 DEF LateExchange, siteVars, fileVars
    <3>3. HomeLast(q.site)' =< LastSeq(db[q.site], q.site)
      BY <1>2, <3>1, <3>2
    <3> QED
      BY <1>1, <3>1, <3>2, <3>3, AcceptMapped
  <2>3. Home \in Sites /\ HomeNext \in Nat \ {0}
    BY HomeLastNat DEF HomeNext, Sites, FleetInv
  <2>4. ASSUME NEW kind \in HomeKinds, HomeWrites(kind)
        PROVE  UNCHANGED <<Written, Durable, acked>>
    <3> DEFINE e == NewEvent(Home, HomeNext, kind)
    <3>1. e \in Event /\ e.origin = Home /\ e.seq = HomeNext
      <4>1. kind \in Kinds
        BY FleetAssumption DEF Kinds
      <4> QED
        BY <2>3, <4>1, NewEventTyped
    <3>2. HomeAppend(e) /\ UNCHANGED <<db, outbox, acked, wire, stale>>
      BY <2>4 DEF HomeWrites, siteVars, fileVars, netVars
    <3> HIDE DEF e
    <3> QED
      BY <2>1, <3>1, <3>2
  <2>5. ASSUME NEW targets \in SUBSET Suitcases, HomeRequests(targets)
        PROVE  UNCHANGED <<Written, Durable, acked>>
    <3> DEFINE e == [NewEvent(Home, HomeNext, "request") EXCEPT !.to = targets]
    <3>1. e \in Event /\ e.origin = Home /\ e.seq = HomeNext
      BY <2>3 DEF NewEvent, Event, Kinds, Policies
    <3>2. HomeAppend(e) /\ UNCHANGED <<db, outbox, acked, wire, stale>>
      BY <2>5 DEF HomeRequests, siteVars, fileVars, netVars
    <3> HIDE DEF e
    <3> QED
      BY <2>1, <3>1, <3>2
  <2>6. ASSUME NEW s \in Suitcases, NEW p \in PolicyChanges, HomeSetsPolicy(s, p)
        PROVE  UNCHANGED <<Written, Durable, acked>>
    <3> DEFINE e == [NewEvent(Home, HomeNext, "policy") EXCEPT !.to = {s}, !.policy = p]
    <3>1. e \in Event /\ e.origin = Home /\ e.seq = HomeNext
      BY <2>3, FleetAssumption DEF NewEvent, Event, Kinds, Policies
    <3>2. HomeAppend(e) /\ UNCHANGED <<db, outbox, acked, wire, stale>>
      BY <2>6 DEF HomeSetsPolicy, siteVars, fileVars, netVars
    <3> HIDE DEF e
    <3> QED
      BY <2>1, <3>1, <3>2
  <2> QED
    BY <1>3, <2>2, <2>4, <2>5, <2>6 DEF HomeActs
<1>4. ASSUME NEW s \in Suitcases, SuitcaseActs(s)
      PROVE  Uplink!Write(s) \/ Uplink!Accept(s) \/ Uplink!Release(s)
               \/ UNCHANGED <<Written, Durable, acked>>
  <2>1. ASSUME LastSeq(db'[s], s) \in Nat, LastSeq(db'[s], s) >= LastSeq(db[s], s),
               \A x \in Suitcases \ {s} : db'[x] = db[x], UNCHANGED <<rows, acked>>
        PROVE  Uplink!Write(s) \/ UNCHANGED <<Written, Durable, acked>>
    BY <1>1, <2>1, WriteMapped
  <2>2. CASE LocalWrites(s)
    <3>1. LastSeq(db'[s], s) = LastSeq(db[s], s) + 1 /\ \A x \in Suitcases \ {s} : db'[x] = db[x]
      BY <2>2, LocalWritesInv
    <3>2. UNCHANGED <<rows, acked>>
      BY <2>2 DEF LocalWrites, homeVars, fileVars
    <3> QED
      BY <1>1, <2>1, <3>1, <3>2
  <2>3. ASSUME NEW manual \in BOOLEAN, BeginPass(s, manual)
        PROVE  Uplink!Write(s) \/ UNCHANGED <<Written, Durable, acked>>
    <3>1. UNCHANGED <<rows, acked>>
      BY <2>3 DEF BeginPass, homeVars
    <3> QED
      BY <2>1, <2>3, <3>1, BeginPassInv
  <2>4. CASE Acknowledge(s)
    <3>1. UNCHANGED <<rows, acked>>
      BY <2>4 DEF Acknowledge, homeVars
    <3> QED
      BY <2>1, <2>4, <3>1, AcknowledgeInv
  <2>5. CASE HomeExchange(s)
    <3>1. UNCHANGED <<db, acked>>
      BY <2>5 DEF HomeExchange, siteVars, fileVars
    <3>2. HomeLast(s)' =< LastSeq(db[s], s)
      BY <1>2, <3>1
    <3> QED
      BY <1>1, <2>5, <3>1, <3>2, HomeExchangeInv, AcceptMapped
  <2>6. CASE ReceiveAnswer(s)
    BY <2>6, ReleaseMapped
  <2>7. CASE \/ SendExchange(s) \/ ReceiveFailure(s) \/ UploadStore(s) \/ UploadForget(s)
             \/ Project(s) \/ MarkProjected(s) \/ FinishPass(s) \/ Interrupted(s)
    <3>1. UNCHANGED <<db, rows, acked>>
      BY <2>7 DEF SendExchange, ReceiveFailure, UploadStore, UploadForget, Project,
         MarkProjected, FinishPass, Interrupted, homeVars, siteVars, fileVars
    <3> QED
      BY <3>1, MarksSame
  <2> QED
    BY <1>4, <2>2, <2>3, <2>4, <2>5, <2>6, <2>7 DEF SuitcaseActs, PassStep
<1>5. CASE UNCHANGED vars
  BY <1>5, MarksSame DEF vars, homeVars, siteVars, fileVars
<1> QED
  BY <1>3, <1>4, <1>5 DEF FleetNext

(* The exchange, with its losses, repetitions and crashes, does what        *)
(* EventUplink promises: Home's copy and the acknowledgement only move      *)
(* forward, each behind what it depends on.                                *)
THEOREM UplinkImplemented == FleetSpec => ImplementsUplink
<1>1. FleetSpec => Uplink!UplinkInit /\ [][Uplink!UplinkNext]_(Uplink!marks)
  BY InitMapped, StepMapped, FleetInvariant, PTL DEF FleetSpec
<1> QED
  BY <1>1 DEF ImplementsUplink, Uplink!UplinkSpec

-----------------------------------------------------------------------------
(* What a suitcase is promised of an exchange: cursors lose nothing, what  *)
(* takes effect follows the logs, the content Home asks for is there, and  *)
(* answers never look broken.  The invariants build on FleetInv, which     *)
(* says where events in transit come from.                                 *)

(* The first inductive invariant, on cursors, inboxes and projections.     *)

(* Rows are told apart by origin and number, and only Home writes policies *)
(* and requests.                                                           *)
ControlKinds == {"policy", "request"}

OneOfEach ==
  /\ \A e, f \in RangeOf(rows) : e.origin = f.origin /\ e.seq = f.seq => e = f
  /\ \A e \in RangeOf(rows) : e.kind \in ControlKinds => e.origin = Home
  /\ \A s \in Suitcases : \A e \in db[s] : e.kind \notin ControlKinds

(* A cursor is not beyond Home's rows, and passes only what the suitcase   *)
(* has or is not meant to have; only data is excluded.                     *)
Passed(s, e) == e.origin # s /\ e.seq =< cursor[s][e.origin] /\ Addressed(e, s)

CursorOK(s) ==
  /\ \A o \in Sites : cursor[s][o] =< HomeLast(o)
  /\ \A e \in RangeOf(rows) : Passed(s, e) => e \in RangeOf(inbox[s]) \cup excluded[s]
  /\ \A e \in excluded[s] : e.kind = "data"

(* An answer carries rows; what it skips is not for the suitcase; its      *)
(* controls are requests for it.                                           *)
AnswerOK(s) ==
  wire[s].type = "response" =>
    /\ wire[s].events \cup wire[s].skipped \cup wire[s].controls \subseteq RangeOf(rows)
    /\ \A e \in wire[s].skipped : ~ Addressed(e, s) \/ e \in excluded[s]
    /\ \A e \in wire[s].controls : e.kind = "request" /\ s \in e.to

(* The inbox has rows, each once, and each origin in order but for         *)
(* requests, which alone run ahead of the cursor.                          *)
Before(e, f) == e # f /\ (e.origin = f.origin => e.seq < f.seq \/ e.kind = "request")
InOrder(q) == \A i, j \in DOMAIN q : i < j => Before(q[i], q[j])

InboxOK(s) ==
  /\ RangeOf(inbox[s]) \subseteq RangeOf(rows)
  /\ \A e \in RangeOf(inbox[s]) : e.seq =< cursor[s][e.origin] \/ e.kind = "request"
  /\ InOrder(inbox[s])

(* What has taken effect is the beginning of the inbox, and what is noted  *)
(* is that or all of it but the last.                                      *)
Noted(s, k) ==
  /\ projected[s] = {inbox[s][i] : i \in 1..k}
  /\ k =< Len(applied[s]) /\ Len(applied[s]) =< k + 1
  /\ pass[s].at = "marking" => Len(applied[s]) = k + 1

ProjectionOK(s) ==
  /\ Len(applied[s]) =< Len(inbox[s])
  /\ \A i \in 1..Len(applied[s]) : applied[s][i] = inbox[s][i]
  /\ \E k \in Nat : Noted(s, k)

(* A policy in force is the one of the latest event about it.              *)
PoliciesFor(E, s) == {e \in E : e.kind = "policy" /\ s \in e.to}

LastSets(E, s, p) ==
  \/ PoliciesFor(E, s) = {} /\ p = InitialPolicy
  \/ \E e \in PoliciesFor(E, s) :
       e.policy = p /\ \A f \in PoliciesFor(E, s) : f.seq =< e.seq

PolicyOK(s) ==
  /\ LastSets(RangeOf(rows), s, homePolicy[s])
  /\ LastSets(RangeOf(applied[s]), s, policy[s])

DeliveryInv ==
  OneOfEach /\ \A s \in Suitcases :
    CursorOK(s) /\ AnswerOK(s) /\ InboxOK(s) /\ ProjectionOK(s) /\ PolicyOK(s)

-----------------------------------------------------------------------------
(* Numbers: how far a cursor moves.                                        *)

(* A set of numbers has a least one. *)
LEMMA LeastNumber ==
  ASSUME NEW T \in SUBSET Nat, T # {}
  PROVE  \E x \in T : \A y \in T : x <= y
<1> DEFINE R == OpToRel(<, Nat)
<1>1. \E x \in T : \A y \in T : ~ (<<y, x>> \in R)
  BY NatLessThanWellFounded, WFMin
<1>2. \A x, y \in Nat : <<y, x>> \in R <=> y < x
  BY DEF OpToRel
<1> HIDE DEF R
<1>3. PICK x \in T : \A y \in T : ~ (<<y, x>> \in R)
  BY <1>1
<1>4. \A y \in T : ~ (y < x)
  BY <1>2, <1>3, Zenon
<1>5. \A y \in T : x <= y
  BY <1>4, SMT
<1> QED
  BY <1>5

(* The numbers of T that follow c without a gap, counted from c, end where *)
(* the first gap is.                                                       *)
LEMMA CountReaches ==
  ASSUME NEW c \in Nat, NEW T \in SUBSET Nat, IsFiniteSet(T),
         NEW N, N = {n \in T : n > c /\ (c + 1) .. n \subseteq T}
  PROVE  /\ c + Cardinality(N) \in Nat /\ c + Cardinality(N) >= c
         /\ (c + 1) .. (c + Cardinality(N)) \subseteq T
         /\ \A n \in N : n =< c + Cardinality(N)
<1> DEFINE G == {k \in Nat : k > c /\ k \notin T}
<1>1. G # {}
  <2> SUFFICES ASSUME G = {}
               PROVE  FALSE
    OBVIOUS
  <2> DEFINE I == (c + 1) .. (c + 1 + Cardinality(T))
  <2>1. Cardinality(T) \in Nat
    BY FS_CardinalityType
  <2>2. I \subseteq T
    <3>1. \A k \in I : k \in Nat /\ k > c
      BY <2>1
    <3> QED
      BY <3>1
  <2>3. IsFiniteSet(I) /\ Cardinality(I) = Cardinality(T) + 1
    <3>1. c + 1 \in Int /\ c + 1 + Cardinality(T) \in Int
      BY <2>1
    <3>2. Cardinality(I) = IF c + 1 > c + 1 + Cardinality(T) THEN 0
                           ELSE (c + 1 + Cardinality(T)) - (c + 1) + 1
      BY <3>1, FS_Interval
    <3> HIDE DEF I
    <3>3. Cardinality(I) = Cardinality(T) + 1
      BY <2>1, <3>2
    <3>4. IsFiniteSet(I)
      BY <3>1, FS_Interval DEF I
    <3> QED
      BY <3>3, <3>4
  <2> HIDE DEF I
  <2>4. Cardinality(I) =< Cardinality(T)
    BY <2>2, FS_Subset
  <2> QED
    BY <2>1, <2>3, <2>4
<1>2. PICK g \in G : \A k \in G : g =< k
  <2> HIDE DEF G
  <2>1. G \in SUBSET Nat
    BY DEF G
  <2> QED
    BY <1>1, <2>1, LeastNumber
<1> DEFINE m == g - 1
<1>3. m \in Nat /\ m >= c /\ g = m + 1
  BY <1>2
<1>4. (c + 1) .. m \subseteq T
  <2> SUFFICES ASSUME NEW k \in (c + 1) .. m, k \notin T
               PROVE  FALSE
    OBVIOUS
  <2>1. k \in G /\ k < g
    BY <1>3
  <2> QED
    BY <1>2, <1>3, <2>1
<1>5. N = (c + 1) .. m
  <2>1. ASSUME NEW n \in N
        PROVE  n \in (c + 1) .. m
    <3>1. n \in Nat /\ n > c /\ (c + 1) .. n \subseteq T /\ g \notin T /\ g > c
      BY <1>2
    <3>2. n < g
      BY <1>3, <3>1
    <3> QED
      BY <1>3, <3>1, <3>2
  <2>2. ASSUME NEW n \in (c + 1) .. m
        PROVE  n \in N
    BY <1>3, <1>4
  <2> QED
    BY <2>1, <2>2
<1>6. Cardinality(N) = m - c
  <2>1. Cardinality((c + 1) .. m) = IF c + 1 > m THEN 0 ELSE m - (c + 1) + 1
    BY <1>3, FS_Interval
  <2>2. Cardinality(N) = Cardinality((c + 1) .. m)
    BY <1>5, Zenon
  <2> HIDE DEF m
  <2> QED
    BY <1>3, <2>1, <2>2
<1>7. c + Cardinality(N) = m
  BY <1>3, <1>6
<1> HIDE DEF m
<1>8. \A n \in N : n =< m
  BY <1>3, <1>5
<1>9. m \in Nat /\ m >= c /\ (c + 1) .. m \subseteq T
  BY <1>3, <1>4
<1> QED
  BY <1>7, <1>8, <1>9, Zenon

(* A cursor moves to where the first gap of an answer is. *)
LEMMA ReachFacts ==
  ASSUME FleetInv, NEW s \in Suitcases, wire[s].type = "response", NEW o \in Sites
  PROVE  /\ cursor[s][o] \in Nat /\ Reach(s, wire[s], o) \in Nat
         /\ Reach(s, wire[s], o) >= cursor[s][o]
         /\ (cursor[s][o] + 1) .. Reach(s, wire[s], o) \subseteq Told(wire[s], o)
         /\ \A n \in Told(wire[s], o) :
              n > cursor[s][o] /\ (cursor[s][o] + 1) .. n \subseteq Told(wire[s], o) =>
                n =< Reach(s, wire[s], o)
<1> DEFINE a == wire[s]
           c == cursor[s][o]
           T == Told(a, o)
           N == {n \in T : n > c /\ (c + 1) .. n \subseteq T}
           E == {x \in a.events \cup a.skipped : x.origin = o}
<1>1. c \in Nat
  BY DEF FleetInv, FleetTypeOK
<1>2. IsFiniteSet(E) /\ E \subseteq Event
  <2>1. IsFiniteSet(a.events) /\ IsFiniteSet(a.skipped)
    BY DEF FleetInv, NetInv
  <2>2. a \in Response
    BY WireTyped DEF FleetInv
  <2>3. IsFiniteSet(a.events \cup a.skipped) /\ a.events \cup a.skipped \subseteq Event
    BY <2>1, <2>2, FS_Union DEF Response
  <2> QED
    BY <2>3, FS_Subset
<1>3. T \in SUBSET Nat /\ IsFiniteSet(T)
  <2>1. T = {e.seq : e \in E}
    BY DEF Told
  <2>2. \A e \in E : e.seq \in Nat
    BY <1>2, EventFields
  <2> QED
    BY <1>2, <2>1, <2>2, SeqsFinite
<1>4. Reach(s, a, o) = c + Cardinality(N)
  BY DEF Reach
<1> HIDE DEF c, T, E
<1>5. /\ c + Cardinality(N) \in Nat /\ c + Cardinality(N) >= c
      /\ (c + 1) .. (c + Cardinality(N)) \subseteq T
      /\ \A n \in N : n =< c + Cardinality(N)
  BY <1>1, <1>3, CountReaches
<1>6. \A n \in T : n > c /\ (c + 1) .. n \subseteq T => n \in N
  OBVIOUS
<1> HIDE DEF N
<1> QED
  BY <1>1, <1>4, <1>5, <1>6 DEF c, T

-----------------------------------------------------------------------------
(* Sequences of events in order.                                           *)

LEMMA InOrderConcat ==
  ASSUME NEW q \in Seq(Event), NEW r \in Seq(Event), InOrder(q), InOrder(r),
         \A e \in RangeOf(q), f \in RangeOf(r) : Before(e, f)
  PROVE  InOrder(q \o r)
<1>1. /\ Len(q) \in Nat /\ Len(r) \in Nat /\ DOMAIN q = 1 .. Len(q) /\ DOMAIN r = 1 .. Len(r)
      /\ DOMAIN (q \o r) = 1 .. (Len(q) + Len(r))
      /\ \A i \in 1 .. (Len(q) + Len(r)) :
           (q \o r)[i] = IF i =< Len(q) THEN q[i] ELSE r[i - Len(q)]
  OBVIOUS
<1>2. SUFFICES ASSUME NEW i \in 1 .. (Len(q) + Len(r)), NEW j \in 1 .. (Len(q) + Len(r)), i < j
               PROVE  Before((q \o r)[i], (q \o r)[j])
  BY <1>1 DEF InOrder
<1>3. CASE j =< Len(q)
  <2>1. i \in DOMAIN q /\ j \in DOMAIN q /\ (q \o r)[i] = q[i] /\ (q \o r)[j] = q[j]
    BY <1>1, <1>2, <1>3
  <2>2. Before(q[i], q[j])
    BY <1>2, <2>1 DEF InOrder
  <2> QED
    BY <2>1, <2>2
<1>4. CASE i =< Len(q) /\ j > Len(q)
  <2>1. i \in DOMAIN q /\ j - Len(q) \in DOMAIN r
        /\ (q \o r)[i] = q[i] /\ (q \o r)[j] = r[j - Len(q)]
    BY <1>1, <1>2, <1>4
  <2>2. q[i] \in RangeOf(q) /\ r[j - Len(q)] \in RangeOf(r)
    BY <2>1 DEF RangeOf
  <2> QED
    BY <2>1, <2>2
<1>5. CASE i > Len(q)
  <2>1. i - Len(q) \in DOMAIN r /\ j - Len(q) \in DOMAIN r /\ i - Len(q) < j - Len(q)
        /\ (q \o r)[i] = r[i - Len(q)] /\ (q \o r)[j] = r[j - Len(q)]
    BY <1>1, <1>2, <1>5
  <2>2. Before(r[i - Len(q)], r[j - Len(q)])
    BY <2>1 DEF InOrder
  <2> QED
    BY <2>1, <2>2
<1> QED
  BY <1>1, <1>2, <1>3, <1>4, <1>5

(* What is taken over is in order. *)
LEMMA ListedInOrder ==
  ASSUME NEW E, E \subseteq Event, IsFiniteSet(E), NEW q \in OrderedListings(E)
  PROVE  q \in Seq(Event) /\ RangeOf(q) = E /\ InOrder(q)
<1>1. q \in Listings(E)
  BY DEF OrderedListings
<1>2. q \in Seq(Event) /\ RangeOf(q) = E
  BY <1>1, ListingIsSeq
<1>3. ASSUME NEW i \in DOMAIN q, NEW j \in DOMAIN q, i < j
      PROVE  Before(q[i], q[j])
  <2>1. q[i].origin = q[j].origin => q[i].seq < q[j].seq
    BY <1>3 DEF OrderedListings
  <2>2. q[i] \in Event
    BY <1>2, <1>3
  <2>3. q[i].seq \in Nat
    BY <2>2, EventFields
  <2> QED
    BY <2>1, <2>3 DEF Before
<1> QED
  BY <1>2, <1>3 DEF InOrder

-----------------------------------------------------------------------------
(* Steps that leave rows, cursors and inboxes alone.                       *)

deliveryVars == <<rows, homePolicy, excluded, applied, policy, inbox, cursor, projected>>

LEMMA QuietDelivery ==
  ASSUME DeliveryInv, UNCHANGED deliveryVars,
         \A s \in Suitcases :
           /\ wire'[s] = wire[s] \/ wire'[s].type # "response"
           /\ pass'[s].at = "marking" => pass[s].at = "marking"
           /\ \A e \in db'[s] : e.kind \notin ControlKinds
  PROVE  DeliveryInv'
<1>1. OneOfEach'
  BY DEF DeliveryInv, OneOfEach, deliveryVars
<1> SUFFICES ASSUME NEW s \in Suitcases
             PROVE  (CursorOK(s) /\ AnswerOK(s) /\ InboxOK(s) /\ ProjectionOK(s) /\ PolicyOK(s))'
  BY <1>1 DEF DeliveryInv
<1>2. CursorOK(s) /\ AnswerOK(s) /\ InboxOK(s) /\ ProjectionOK(s) /\ PolicyOK(s)
  BY DEF DeliveryInv
<1>3. CursorOK(s)'
  BY <1>2 DEF CursorOK, Passed, HomeLast, deliveryVars
<1>4. AnswerOK(s)'
  BY <1>2 DEF AnswerOK, deliveryVars
<1>5. InboxOK(s)'
  BY <1>2 DEF InboxOK, deliveryVars
<1>6. ProjectionOK(s)'
  BY <1>2 DEF ProjectionOK, Noted, deliveryVars
<1>7. PolicyOK(s)'
  BY <1>2 DEF PolicyOK, deliveryVars
<1> QED
  BY <1>3, <1>4, <1>5, <1>6, <1>7

(* What a suitcase writes itself is neither a policy nor a request. *)
LEMMA OwnKinds ==
  ASSUME NEW o, NEW n, NEW re
  PROVE  /\ NewEvent(o, n, "plain").kind \notin ControlKinds
         /\ NewEvent(o, n, "data").kind \notin ControlKinds
         /\ [NewEvent(o, n, "ack") EXCEPT !.re = re].kind \notin ControlKinds
BY DEF NewEvent, ControlKinds

(* Steps in which a suitcase writes its own log. *)
LEMMA LogStepDelivery ==
  ASSUME FleetInv, DeliveryInv, NEW s \in Suitcases,
         \/ LocalWrites(s) \/ Acknowledge(s) \/ \E manual \in BOOLEAN : BeginPass(s, manual)
  PROVE  DeliveryInv'
<1>1. db \in [Suitcases -> SUBSET Event] /\ pass \in [Suitcases -> Pass]
  BY DEF FleetInv, FleetTypeOK
<1>2. \E F : db' = [db EXCEPT ![s] = @ \cup F] /\ \A e \in F : e.kind \notin ControlKinds
  <2>1. CASE LocalWrites(s)
    <3> DEFINE F == {NewEvent(s, LocalNext(s), "plain")}
    <3>1. \A e \in F : e.kind \notin ControlKinds
      BY OwnKinds
    <3>2. db' = [db EXCEPT ![s] = @ \cup F]
      BY <2>1 DEF LocalWrites
    <3> HIDE DEF F
    <3> QED
      BY <3>1, <3>2
  <2>2. CASE Acknowledge(s)
    <3>1. PICK requests \in OrderedListings(Unanswered(s)) :
            db' = [db EXCEPT ![s] = @ \cup Answers(s, requests)]
      BY <2>2 DEF Acknowledge
    <3>2. \A e \in Answers(s, requests) : e.kind \notin ControlKinds
      BY OwnKinds DEF Answers
    <3> QED
      BY <3>1, <3>2
  <2>3. ASSUME NEW manual \in BOOLEAN, BeginPass(s, manual)
        PROVE  \E F : db' = [db EXCEPT ![s] = @ \cup F] /\ \A e \in F : e.kind \notin ControlKinds
    <3>1. PICK captured \in {{}, {NewEvent(s, LocalNext(s), "data")}} :
            db' = [db EXCEPT ![s] = @ \cup captured]
      BY <2>3 DEF BeginPass
    <3>2. \A e \in captured : e.kind \notin ControlKinds
      BY <3>1, OwnKinds
    <3> QED
      BY <3>1, <3>2
  <2> QED
    BY <2>1, <2>2, <2>3
<1>3. \A x \in Suitcases : \A e \in db'[x] : e.kind \notin ControlKinds
  BY <1>1, <1>2 DEF DeliveryInv, OneOfEach
<1>4. UNCHANGED <<deliveryVars, wire>>
  BY DEF LocalWrites, Acknowledge, BeginPass, deliveryVars, homeVars, fileVars, netVars
<1>5. \A x \in Suitcases : pass'[x].at = "marking" => pass[x].at = "marking"
  <2>1. pass' = pass \/ \E it : pass' = [pass EXCEPT ![s] = it] /\ it.at = "ready"
    <3>1. ASSUME NEW manual \in BOOLEAN
          PROVE  [Idle EXCEPT !.at = "ready", !.manual = manual].at = "ready"
      BY DEF Idle
    <3>2. [Idle EXCEPT !.at = "ready", !.round = 2].at = "ready"
      BY DEF Idle
    <3> QED
      BY <3>1, <3>2 DEF LocalWrites, Acknowledge, BeginPass
  <2> QED
    BY <1>1, <2>1
<1> QED
  BY <1>3, <1>4, <1>5, QuietDelivery

(* Steps of a pass that take nothing over. *)
LEMMA PassStepDelivery ==
  ASSUME FleetInv, DeliveryInv, NEW s \in Suitcases,
         \/ SendExchange(s) \/ ReceiveFailure(s) \/ UploadStore(s) \/ UploadForget(s)
         \/ FinishPass(s) \/ Interrupted(s)
  PROVE  DeliveryInv'
<1>1. /\ wire \in [Suitcases -> {NoMessage, Failure} \cup Request \cup Response]
      /\ pass \in [Suitcases -> Pass] /\ pass[s] \in Pass
  BY DEF FleetInv, FleetTypeOK
<1>2. UNCHANGED <<deliveryVars, db>>
  BY DEF SendExchange, ReceiveFailure, UploadStore, UploadForget, FinishPass, Interrupted,
         deliveryVars, homeVars, siteVars, fileVars
<1>3. \A x \in Suitcases : wire'[x] = wire[x] \/ wire'[x].type # "response"
  <2>1. wire' = wire \/ \E it : wire' = [wire EXCEPT ![s] = it] /\ it.type # "response"
    <3>1. NoMessage.type # "response"
      BY DEF NoMessage
    <3> QED
      BY <3>1 DEF SendExchange, ReceiveFailure, UploadStore, UploadForget, FinishPass,
                  Interrupted, netVars
  <2> QED
    BY <1>1, <2>1
<1>4. \A x \in Suitcases : pass'[x].at = "marking" => pass[x].at = "marking"
  <2>1. pass' = pass \/ \E it : pass' = [pass EXCEPT ![s] = it] /\ it.at # "marking"
    <3>1. Idle.at # "marking"
      BY DEF Idle
    <3>2. ASSUME SendExchange(s)
          PROVE  \E it : pass' = [pass EXCEPT ![s] = it] /\ it.at # "marking"
      <4>1. [pass[s] EXCEPT !.at = "waiting"].at # "marking"
        BY <1>1 DEF Pass
      <4> QED
        BY <3>2, <4>1 DEF SendExchange
    <3>3. ASSUME UploadForget(s)
          PROVE  \E it : pass' = [pass EXCEPT ![s] = it] /\ it.at # "marking"
      <4>1. PICK e : pass' = [pass EXCEPT ![s].missing = @ \ {e},
                                          ![s].at = IF pass[s].missing = {e} THEN "ready" ELSE @]
        BY <3>3 DEF UploadForget
      <4> DEFINE it == [pass[s] EXCEPT !.missing = @ \ {e},
                                       !.at = IF pass[s].missing = {e} THEN "ready" ELSE @]
      <4>2. it.at # "marking"
        BY <1>1, <3>3 DEF Pass, UploadForget
      <4>3. pass' = [pass EXCEPT ![s] = it]
        BY <1>1, <4>1
      <4> QED
        BY <4>2, <4>3
    <3> QED
      BY <3>1, <3>2, <3>3 DEF SendExchange, ReceiveFailure, UploadStore, FinishPass, Interrupted
  <2> QED
    BY <1>1, <2>1
<1> QED
  BY <1>2, <1>3, <1>4, QuietDelivery DEF DeliveryInv, OneOfEach

(* The note of what has taken effect. *)
LEMMA MarkProjectedDelivery ==
  ASSUME FleetInv, DeliveryInv, NEW s \in Suitcases, MarkProjected(s)
  PROVE  DeliveryInv'
<1>1. /\ projected \in [Suitcases -> SUBSET Event] /\ inbox \in [Suitcases -> Seq(Event)]
      /\ pass \in [Suitcases -> Pass] /\ pass[s] \in Pass /\ applied[s] \in Seq(Event)
  BY DEF FleetInv, FleetTypeOK
<1>2. PICK k \in Nat : Noted(s, k)
  BY DEF DeliveryInv, ProjectionOK
<1>3. Len(applied[s]) = k + 1 /\ projected[s] = {inbox[s][i] : i \in 1..k}
  BY <1>2 DEF MarkProjected, Noted
<1>4. /\ Len(inbox[s]) \in Nat /\ DOMAIN inbox[s] = 1 .. Len(inbox[s])
      /\ k + 1 \in 1 .. Len(inbox[s])
  BY <1>1, <1>3 DEF DeliveryInv, ProjectionOK
<1>5. Unprojected(s) = (k + 1) .. Len(inbox[s])
  <2>1. \A i, j \in 1 .. Len(inbox[s]) : i # j => inbox[s][i] # inbox[s][j]
    BY <1>4 DEF DeliveryInv, InboxOK, InOrder, Before
  <2>2. \A i \in 1 .. Len(inbox[s]) : inbox[s][i] \in projected[s] <=> i \in 1..k
    BY <1>3, <1>4, <2>1
  <2> QED
    BY <1>2, <1>4, <2>2 DEF Unprojected
<1>6. PICK i \in DOMAIN inbox[s] : /\ NextToProject(s, i)
                                   /\ projected' = [projected EXCEPT ![s] = @ \cup {inbox[s][i]}]
  BY DEF MarkProjected
<1>7. i = k + 1
  BY <1>4, <1>5, <1>6 DEF NextToProject
<1>8. /\ UNCHANGED <<rows, homePolicy, excluded, applied, policy, inbox, cursor, db, wire>>
      /\ pass' = [pass EXCEPT ![s].at = "projecting"]
  BY DEF MarkProjected, homeVars, siteVars, netVars
<1>9. \A x \in Suitcases : pass'[x].at = "marking" => pass[x].at = "marking" /\ x # s
  BY <1>1, <1>8 DEF Pass
<1>10. OneOfEach'
  BY <1>8 DEF DeliveryInv, OneOfEach
<1>11. Noted(s, k + 1)'
  <2>1. projected'[s] = {inbox[s][j] : j \in 1..(k + 1)}
    BY <1>1, <1>3, <1>6, <1>7
  <2> QED
    BY <1>3, <1>8, <1>9, <2>1 DEF Noted
<1>12. ASSUME NEW x \in Suitcases
       PROVE  (CursorOK(x) /\ AnswerOK(x) /\ InboxOK(x) /\ ProjectionOK(x) /\ PolicyOK(x))'
  <2>1. CursorOK(x) /\ AnswerOK(x) /\ InboxOK(x) /\ ProjectionOK(x) /\ PolicyOK(x)
    BY DEF DeliveryInv
  <2>2. CursorOK(x)' /\ AnswerOK(x)' /\ InboxOK(x)' /\ PolicyOK(x)'
    BY <1>8, <2>1 DEF CursorOK, Passed, HomeLast, AnswerOK, InboxOK, PolicyOK
  <2>3. ProjectionOK(x)'
    <3>1. \E n \in Nat : Noted(x, n)'
      <4>1. CASE x = s
        BY <1>11, <4>1
      <4>2. CASE x # s
        <5>1. projected'[x] = projected[x]
          BY <1>1, <1>6, <4>2
        <5> QED
          BY <1>8, <1>9, <2>1, <5>1 DEF ProjectionOK, Noted
      <4> QED
        BY <4>1, <4>2
    <3> QED
      BY <1>8, <2>1, <3>1 DEF ProjectionOK
  <2> QED
    BY <2>2, <2>3
<1> QED
  BY <1>10, <1>12 DEF DeliveryInv

(* An event takes effect: it is the first of the inbox that has none yet,  *)
(* and a policy among what came before is an older one.                    *)
LEMMA ProjectDelivery ==
  ASSUME FleetInv, DeliveryInv, NEW s \in Suitcases, Project(s)
  PROVE  DeliveryInv'
<1>1. /\ applied \in [Suitcases -> Seq(Event)] /\ inbox \in [Suitcases -> Seq(Event)]
      /\ policy \in [Suitcases -> Policies] /\ pass \in [Suitcases -> Pass] /\ pass[s] \in Pass
      /\ applied[s] \in Seq(Event) /\ inbox[s] \in Seq(Event) /\ RangeOf(rows) \subseteq Event
  BY RangeInSet DEF FleetInv, FleetTypeOK
<1>2. PICK k \in Nat : Noted(s, k)
  BY DEF DeliveryInv, ProjectionOK
<1> DEFINE A == applied[s]
           B == inbox[s]
<1>3. /\ Len(A) \in Nat /\ Len(B) \in Nat /\ DOMAIN A = 1 .. Len(A) /\ DOMAIN B = 1 .. Len(B)
      /\ Len(A) =< Len(B) /\ k =< Len(A) /\ Len(A) =< k + 1
      /\ projected[s] = {B[i] : i \in 1..k}
      /\ \A i \in 1 .. Len(A) : A[i] = B[i]
  BY <1>1, <1>2 DEF DeliveryInv, ProjectionOK, Noted
<1>4. \A i, j \in 1 .. Len(B) : i < j => Before(B[i], B[j])
  BY <1>3 DEF DeliveryInv, InboxOK, InOrder
<1>5. \A i, j \in 1 .. Len(B) : i # j => B[i] # B[j]
  BY <1>3, <1>4 DEF Before
<1>6. Unprojected(s) = (k + 1) .. Len(B)
  <2>1. \A i \in 1 .. Len(B) : B[i] \in projected[s] <=> i \in 1..k
    BY <1>3, <1>5
  <2> QED
    BY <1>2, <1>3, <2>1 DEF Unprojected
<1>7. PICK i \in DOMAIN B :
        /\ NextToProject(s, i)
        /\ IF B[i] \in RangeOf(A)
           THEN UNCHANGED <<applied, policy>>
           ELSE /\ applied' = [applied EXCEPT ![s] = Append(@, B[i])]
                /\ policy' = [policy EXCEPT ![s] =
                     IF B[i].kind = "policy" /\ s \in B[i].to THEN B[i].policy ELSE @]
  BY DEF Project
<1>8. i = k + 1 /\ k + 1 \in 1 .. Len(B)
  <2>1. i \in (k + 1) .. Len(B) /\ \A j \in (k + 1) .. Len(B) : i =< j
    BY <1>6, <1>7 DEF NextToProject
  <2>2. k + 1 \in (k + 1) .. Len(B)
    BY <1>2, <1>3, <2>1
  <2> QED
    BY <1>2, <1>3, <2>1, <2>2
<1>9. B[i] \in RangeOf(A) <=> Len(A) = k + 1
  <2>1. ASSUME NEW j \in 1 .. Len(A), A[j] = B[i]
        PROVE  Len(A) = k + 1
    <3>1. j \in 1 .. Len(B) /\ i \in 1 .. Len(B) /\ B[j] = B[i]
      BY <1>3, <1>7, <2>1
    <3>2. j = i
      BY <1>5, <3>1
    <3> QED
      BY <1>2, <1>3, <1>8, <3>2
  <2>2. ASSUME Len(A) = k + 1
        PROVE  B[i] \in RangeOf(A)
    <3>1. k + 1 \in 1 .. Len(A) /\ A[k + 1] = B[i]
      BY <1>2, <1>3, <1>8, <2>2
    <3> QED
      BY <1>3, <3>1 DEF RangeOf
  <2> QED
    BY <1>3, <2>1, <2>2 DEF RangeOf
<1>10. /\ UNCHANGED <<rows, homePolicy, excluded, inbox, cursor, projected, db, wire>>
       /\ pass' = [pass EXCEPT ![s].at = "marking"]
  BY DEF Project, homeVars, fileVars, netVars
<1>11. \A x \in Suitcases \ {s} : /\ applied'[x] = applied[x] /\ policy'[x] = policy[x]
                                  /\ pass'[x] = pass[x]
  BY <1>1, <1>7, <1>10
<1>12. /\ Len(applied'[s]) = k + 1
       /\ \A j \in 1 .. (k + 1) : applied'[s][j] = B[j]
  <2>1. CASE B[i] \in RangeOf(A)
    <3>1. applied' = applied /\ Len(A) = k + 1
      BY <1>7, <1>9, <2>1
    <3> QED
      BY <1>3, <3>1
  <2>2. CASE B[i] \notin RangeOf(A)
    <3>1. applied'[s] = Append(A, B[i]) /\ Len(A) = k /\ B[i] \in Event
      BY <1>1, <1>2, <1>3, <1>7, <1>9, <2>2
    <3>2. /\ Len(Append(A, B[i])) = Len(A) + 1 /\ Append(A, B[i])[Len(A) + 1] = B[i]
          /\ \A j \in 1 .. Len(A) : Append(A, B[i])[j] = A[j]
      BY <1>1, <3>1
    <3> HIDE DEF A, B
    <3> QED
      BY <1>2, <1>3, <1>8, <3>1, <3>2
  <2> QED
    BY <2>1, <2>2
<1>13. ProjectionOK(s)'
  <2>1. Noted(s, k)'
    BY <1>2, <1>3, <1>10, <1>12 DEF Noted
  <2>2. Len(applied'[s]) =< Len(inbox'[s])
    BY <1>2, <1>3, <1>8, <1>10, <1>12
  <2>3. \A j \in 1 .. Len(applied'[s]) : applied'[s][j] = inbox'[s][j]
    BY <1>10, <1>12
  <2> QED
    BY <1>2, <2>1, <2>2, <2>3 DEF ProjectionOK
<1>14. PolicyOK(s)'
  <2>1. LastSets(RangeOf(A), s, policy[s]) /\ LastSets(RangeOf(rows), s, homePolicy[s])
    BY DEF DeliveryInv, PolicyOK
  <2>2. CASE B[i] \in RangeOf(A)
    BY <1>7, <1>10, <2>1, <2>2 DEF PolicyOK
  <2>3. CASE B[i] \notin RangeOf(A)
    <3> DEFINE e == B[i]
    <3>0. e \in Event /\ Len(A) = k
      <4>1. i \in DOMAIN B /\ B \in Seq(Event)
        BY <1>1, <1>7
      <4>2. Len(A) # k + 1
        BY <1>9, <2>3
      <4>3. e \in Event
        BY <4>1
      <4>4. k \in Nat /\ Len(A) \in Nat /\ k =< Len(A) /\ Len(A) =< k + 1
        BY <1>2, <1>3
      <4> HIDE DEF e, A, B
      <4> QED
        BY <4>2, <4>3, <4>4
    <3>1. e \in Event /\ applied'[s] = Append(A, e) /\ Len(A) = k
      BY <1>1, <1>7, <2>3, <3>0
    <3>2. RangeOf(applied'[s]) = RangeOf(A) \cup {e}
      BY <1>1, <3>1, RangeAppend
    <3>3. CASE e.kind = "policy" /\ s \in e.to
      <4>1. policy'[s] = e.policy
        BY <1>1, <1>7, <2>3, <3>3
      <4>2. ASSUME NEW f \in PoliciesFor(RangeOf(A), s)
            PROVE  f.seq =< e.seq
        <5>1. PICK j \in 1 .. Len(A) : f = B[j]
          BY <1>3 DEF PoliciesFor, RangeOf
        <5>2. j < i /\ Before(f, e)
          BY <1>2, <1>3, <1>4, <1>8, <3>1, <5>1
        <5>6. RangeOf(B) \subseteq RangeOf(rows)
          BY DEF DeliveryInv, InboxOK
        <5>7. j \in DOMAIN B
          BY <1>3, <5>1
        <5>3. f \in RangeOf(rows) /\ e \in RangeOf(rows)
          BY <1>7, <5>1, <5>6, <5>7 DEF RangeOf
        <5>4. f.kind = "policy" /\ f.origin = e.origin
          BY <3>3, <5>3 DEF PoliciesFor, DeliveryInv, OneOfEach, ControlKinds
        <5>5. f.seq \in Nat /\ e.seq \in Nat
          BY <1>1, <5>3, EventFields
        <5> QED
          BY <5>2, <5>4, <5>5 DEF Before
      <4>3. e.seq \in Nat
        BY <3>1, EventFields
      <4>4. e \in PoliciesFor(RangeOf(A) \cup {e}, s)
        BY <3>3 DEF PoliciesFor
      <4>5. \A f \in PoliciesFor(RangeOf(A) \cup {e}, s) : f = e \/ f \in PoliciesFor(RangeOf(A), s)
        BY DEF PoliciesFor
      <4> HIDE DEF e, A, B
      <4>6. \A f \in PoliciesFor(RangeOf(A) \cup {e}, s) : f.seq =< e.seq
        BY <4>2, <4>3, <4>5
      <4>7. LastSets(RangeOf(A) \cup {e}, s, e.policy)
        BY <4>4, <4>6 DEF LastSets
      <4> QED
        BY <1>10, <2>1, <3>2, <4>1, <4>7 DEF PolicyOK
    <3>4. CASE ~ (e.kind = "policy" /\ s \in e.to)
      <4>1. policy'[s] = policy[s]
        BY <1>1, <1>7, <2>3, <3>4
      <4>2. PoliciesFor(RangeOf(A) \cup {e}, s) = PoliciesFor(RangeOf(A), s)
        BY <3>4 DEF PoliciesFor
      <4>3. LastSets(RangeOf(A) \cup {e}, s, policy[s])
        BY <2>1, <4>2 DEF LastSets
      <4> QED
        BY <1>10, <2>1, <3>2, <4>1, <4>3 DEF PolicyOK
    <3> QED
      BY <3>3, <3>4
  <2> QED
    BY <2>2, <2>3
<1>15. ASSUME NEW x \in Suitcases
       PROVE  (CursorOK(x) /\ AnswerOK(x) /\ InboxOK(x) /\ ProjectionOK(x) /\ PolicyOK(x))'
  <2>1. CursorOK(x) /\ AnswerOK(x) /\ InboxOK(x) /\ ProjectionOK(x) /\ PolicyOK(x)
    BY DEF DeliveryInv
  <2>2. CursorOK(x)' /\ AnswerOK(x)' /\ InboxOK(x)'
    BY <1>10, <2>1 DEF CursorOK, Passed, HomeLast, AnswerOK, InboxOK
  <2>3. CASE x # s
    <3>1. /\ applied'[x] = applied[x] /\ policy'[x] = policy[x] /\ pass'[x] = pass[x]
      BY <1>11, <2>3
    <3>2. ProjectionOK(x)'
      BY <1>10, <2>1, <3>1 DEF ProjectionOK, Noted
    <3>3. PolicyOK(x)'
      BY <1>10, <2>1, <3>1 DEF PolicyOK
    <3> QED
      BY <2>2, <3>2, <3>3
  <2> QED
    BY <1>13, <1>14, <2>2, <2>3
<1>16. OneOfEach'
  BY <1>10 DEF DeliveryInv, OneOfEach
<1> QED
  BY <1>15, <1>16 DEF DeliveryInv

-----------------------------------------------------------------------------
(* Home gets the events F, each beyond what it had of its origin.          *)
Grown(F) ==
  /\ RangeOf(rows)' = RangeOf(rows) \cup F
  /\ F \subseteq Event
  /\ \A e \in F : e.seq > HomeLast(e.origin)
  /\ \A e, f \in F : e.origin = f.origin /\ e.seq = f.seq => e = f
  /\ \A e \in F : e.kind \in ControlKinds => e.origin = Home
  /\ \A o \in Sites : HomeLast(o)' \in Nat /\ HomeLast(o)' >= HomeLast(o)

(* What Home has is not beyond its last numbers. *)
LEMMA RowBounds ==
  ASSUME FleetInv
  PROVE  /\ RangeOf(rows) \subseteq Event
         /\ \A o \in Sites : HomeLast(o) \in Nat
         /\ \A e \in RangeOf(rows) : e.origin \in Sites /\ e.seq \in Nat /\ e.seq =< HomeLast(e.origin)
<1>1. RangeOf(rows) \subseteq Event
  BY RangeInSet DEF FleetInv, FleetTypeOK
<1>2. \A o \in Sites : HomeLast(o) \in Nat /\ SeqsOf(RangeOf(rows), o) = 1 .. HomeLast(o)
  BY HomeLastNat DEF FleetInv
<1>3. ASSUME NEW e \in RangeOf(rows)
      PROVE  e.origin \in Sites /\ e.seq \in Nat /\ e.seq =< HomeLast(e.origin)
  <2>1. e.origin \in Sites /\ e.seq \in Nat
    BY <1>1, EventFields
  <2>2. e.seq \in SeqsOf(RangeOf(rows), e.origin)
    BY DEF SeqsOf
  <2> QED
    BY <1>2, <2>1, <2>2
<1> QED
  BY <1>1, <1>2, <1>3

(* Growing rows disturb nothing: no cursor has passed what is new, and no  *)
(* policy but one of Home is.                                              *)
LEMMA GrownDelivery ==
  ASSUME FleetInv, DeliveryInv, NEW F, Grown(F),
         UNCHANGED <<db, applied, policy, inbox, cursor, projected, pass>>,
         \A s \in Suitcases : /\ excluded[s] \subseteq excluded'[s]
                              /\ \A e \in excluded'[s] : e.kind = "data"
  PROVE  /\ OneOfEach'
         /\ \A s \in Suitcases :
              /\ CursorOK(s)' /\ InboxOK(s)' /\ ProjectionOK(s)'
              /\ wire'[s] = wire[s] => AnswerOK(s)'
              /\ homePolicy'[s] = homePolicy[s] /\ PoliciesFor(F, s) = {} => PolicyOK(s)'
<1>1. /\ RangeOf(rows) \subseteq Event
      /\ \A o \in Sites : HomeLast(o) \in Nat
      /\ \A e \in RangeOf(rows) : e.origin \in Sites /\ e.seq \in Nat /\ e.seq =< HomeLast(e.origin)
  BY RowBounds
<1>2. \A e \in F : e.origin \in Sites /\ e.seq \in Nat /\ e.seq > HomeLast(e.origin)
  BY EventFields DEF Grown
<1>3. OneOfEach'
  <2>1. ASSUME NEW e \in RangeOf(rows)', NEW f \in RangeOf(rows)',
               e.origin = f.origin, e.seq = f.seq
        PROVE  e = f
    <3>1. e \in RangeOf(rows) \/ e \in F
      BY DEF Grown
    <3>2. f \in RangeOf(rows) \/ f \in F
      BY DEF Grown
    <3>3. ~ (e \in RangeOf(rows) /\ f \in F) /\ ~ (e \in F /\ f \in RangeOf(rows))
      BY <1>1, <1>2, <2>1
    <3> QED
      BY <2>1, <3>1, <3>2, <3>3 DEF Grown, DeliveryInv, OneOfEach
  <2>2. \A e \in RangeOf(rows)' : e.kind \in ControlKinds => e.origin = Home
    BY DEF Grown, DeliveryInv, OneOfEach
  <2> QED
    BY <2>1, <2>2 DEF DeliveryInv, OneOfEach
<1> SUFFICES ASSUME NEW s \in Suitcases
             PROVE  /\ CursorOK(s)' /\ InboxOK(s)' /\ ProjectionOK(s)'
                    /\ wire'[s] = wire[s] => AnswerOK(s)'
                    /\ homePolicy'[s] = homePolicy[s] /\ PoliciesFor(F, s) = {} => PolicyOK(s)'
  BY <1>3
<1>4. CursorOK(s) /\ AnswerOK(s) /\ InboxOK(s) /\ ProjectionOK(s) /\ PolicyOK(s)
  BY DEF DeliveryInv
<1>5. CursorOK(s)'
  <2>0. \A o \in Sites : cursor[s][o] \in Nat
    BY DEF FleetInv, FleetTypeOK
  <2>1. \A o \in Sites : cursor'[s][o] =< HomeLast(o)'
    BY <1>1, <1>4, <2>0 DEF CursorOK, Grown
  <2>2. ASSUME NEW e \in RangeOf(rows)', Passed(s, e)'
        PROVE  e \in RangeOf(inbox'[s]) \cup excluded'[s]
    <3>1. Passed(s, e)
      BY <2>2 DEF Passed, Addressed
    <3>2. e \notin F
      <4>1. ASSUME e \in F
            PROVE  FALSE
        <5>1. e.seq =< cursor[s][e.origin] /\ cursor[s][e.origin] =< HomeLast(e.origin)
          BY <1>2, <1>4, <3>1, <4>1 DEF Passed, CursorOK
        <5> QED
          BY <1>1, <1>2, <2>0, <4>1, <5>1
      <4> QED
        BY <4>1
    <3>3. e \in RangeOf(rows)
      BY <3>2 DEF Grown
    <3> QED
      BY <1>4, <3>1, <3>3 DEF CursorOK
  <2> QED
    BY <2>1, <2>2 DEF CursorOK
<1>6. RangeOf(rows) \subseteq RangeOf(rows)'
  BY DEF Grown
<1>7. InboxOK(s)'
  BY <1>4, <1>6 DEF InboxOK
<1>8. ProjectionOK(s)'
  BY <1>4 DEF ProjectionOK, Noted
<1>9. ASSUME wire'[s] = wire[s]
      PROVE  AnswerOK(s)'
  BY <1>4, <1>6, <1>9 DEF AnswerOK, Addressed
<1>10. ASSUME homePolicy'[s] = homePolicy[s], PoliciesFor(F, s) = {}
       PROVE  PolicyOK(s)'
  <2>1. PoliciesFor(RangeOf(rows)', s) = PoliciesFor(RangeOf(rows), s)
    BY <1>10 DEF Grown, PoliciesFor
  <2>2. LastSets(RangeOf(rows)', s, homePolicy[s])
    BY <1>4, <2>1 DEF PolicyOK, LastSets
  <2> QED
    BY <1>4, <1>10, <2>2 DEF PolicyOK
<1> QED
  BY <1>5, <1>7, <1>8, <1>9, <1>10

(* Home writes an event of its own.                                        *)
LEMMA HomeAppendGrows ==
  ASSUME FleetInv, NEW e \in Event, e.origin = Home, e.seq = HomeNext, HomeAppend(e),
         UNCHANGED <<db, outbox, acked, wire, stale>>
  PROVE  Grown({e}) /\ \A f \in RangeOf(rows) : f.origin = Home => f.seq < e.seq
<1>1. rows' \in Seq(Event) /\ RangeOf(rows)' = RangeOf(rows) \cup {e}
  BY HomeAppendRange DEF FleetInv, FleetTypeOK
<1>2. \A s \in Suitcases : HomeLast(s)' = HomeLast(s)
  BY HomeAppendInv
<1>3. Home \in Sites /\ \A o \in Sites : o = Home \/ o \in Suitcases
  BY DEF Sites
<1>4. \A o \in Sites : HomeLast(o) \in Nat
  BY RowBounds
<1>5. HomeLast(Home)' = HomeLast(Home) + 1
  <2> DEFINE F == {e}
             E == RangeOf(rows)
             k == 1
  <2>1. Numbered(E, Home)
    BY <1>3 DEF FleetInv, RowsInv
  <2>2. SeqsOf(F, Home) = (LastSeq(E, Home) + 1) .. (LastSeq(E, Home) + k)
    BY <1>3, <1>4 DEF SeqsOf, HomeNext, HomeLast
  <2>4. k \in Nat
    OBVIOUS
  <2> HIDE DEF E, F, k
  <2>5. LastSeq(E \cup F, Home) = LastSeq(E, Home) + k
    BY <2>1, <2>2, <2>4, NumberedExtends
  <2>3. LastSeq(RangeOf(rows) \cup {e}, Home) = LastSeq(RangeOf(rows), Home) + 1
    BY <2>5 DEF E, F, k
  <2> QED
    BY <1>1, <2>3 DEF HomeLast
<1>6. \A o \in Sites : HomeLast(o)' \in Nat /\ HomeLast(o)' >= HomeLast(o)
  BY <1>2, <1>3, <1>4, <1>5
<1>7. e.seq > HomeLast(e.origin)
  BY <1>3, <1>4 DEF HomeNext
<1>8. \A f \in RangeOf(rows) : f.origin = Home => f.seq < e.seq
  BY <1>3, <1>4, RowBounds DEF HomeNext
<1> QED
  BY <1>1, <1>6, <1>7, <1>8 DEF Grown

(* Home writes an event or asks for a mutation. *)
LEMMA HomeWritesDelivery ==
  ASSUME FleetInv, DeliveryInv,
         \/ \E kind \in HomeKinds : HomeWrites(kind)
         \/ \E targets \in SUBSET Suitcases : HomeRequests(targets)
  PROVE  DeliveryInv'
<1>1. Home \in Sites /\ HomeNext \in Nat \ {0}
  BY HomeLastNat DEF HomeNext, Sites, FleetInv
<1>2. PICK e \in Event : e.origin = Home /\ e.seq = HomeNext /\ e.kind # "policy" /\ HomeAppend(e)
  <2>1. ASSUME NEW kind \in HomeKinds, HomeWrites(kind)
        PROVE  \E e \in Event : e.origin = Home /\ e.seq = HomeNext /\ e.kind # "policy" /\ HomeAppend(e)
    <3> DEFINE e == NewEvent(Home, HomeNext, kind)
    <3>1. kind \in Kinds /\ kind # "policy"
      BY FleetAssumption DEF Kinds
    <3>2. e \in Event /\ e.origin = Home /\ e.seq = HomeNext
      BY <1>1, <3>1, NewEventTyped
    <3>3. e.kind # "policy" /\ HomeAppend(e)
      BY <2>1, <3>1 DEF NewEvent, HomeWrites
    <3> HIDE DEF e
    <3> QED
      BY <3>2, <3>3
  <2>2. ASSUME NEW targets \in SUBSET Suitcases, HomeRequests(targets)
        PROVE  \E e \in Event : e.origin = Home /\ e.seq = HomeNext /\ e.kind # "policy" /\ HomeAppend(e)
    <3> DEFINE e == [NewEvent(Home, HomeNext, "request") EXCEPT !.to = targets]
    <3>1. e \in Event /\ e.origin = Home /\ e.seq = HomeNext /\ e.kind # "policy"
      BY <1>1 DEF NewEvent, Event, Kinds, Policies
    <3>2. HomeAppend(e)
      BY <2>2 DEF HomeRequests
    <3> HIDE DEF e
    <3> QED
      BY <3>1, <3>2
  <2> QED
    BY <2>1, <2>2
<1>3. UNCHANGED <<homePolicy, excluded, siteVars, fileVars, pass, netVars>>
  BY DEF HomeWrites, HomeRequests
<1>4. Grown({e})
  BY <1>2, <1>3, HomeAppendGrows DEF siteVars, fileVars, netVars
<1>5. \A s \in Suitcases : PoliciesFor({e}, s) = {}
  BY <1>2 DEF PoliciesFor
<1>6. \A s \in Suitcases : \A x \in excluded[s] : x.kind = "data"
  BY DEF DeliveryInv, CursorOK
<1>7. /\ OneOfEach'
      /\ \A s \in Suitcases :
           /\ CursorOK(s)' /\ InboxOK(s)' /\ ProjectionOK(s)'
           /\ wire'[s] = wire[s] => AnswerOK(s)'
           /\ homePolicy'[s] = homePolicy[s] /\ PoliciesFor({e}, s) = {} => PolicyOK(s)'
  <2>1. UNCHANGED <<db, applied, policy, inbox, cursor, projected, pass>>
    BY <1>3 DEF siteVars, fileVars
  <2>2. \A s \in Suitcases : /\ excluded[s] \subseteq excluded'[s]
                             /\ \A x \in excluded'[s] : x.kind = "data"
    BY <1>3, <1>6
  <2> QED
    BY <1>4, <2>1, <2>2, GrownDelivery
<1> QED
  BY <1>3, <1>5, <1>7 DEF DeliveryInv, netVars

(* The policy in force is the one just written. *)
LEMMA HomeSetsPolicyDelivery ==
  ASSUME FleetInv, DeliveryInv, NEW s \in Suitcases, NEW p \in PolicyChanges,
         HomeSetsPolicy(s, p)
  PROVE  DeliveryInv'
<1> DEFINE e == [NewEvent(Home, HomeNext, "policy") EXCEPT !.to = {s}, !.policy = p]
<1>1. Home \in Sites /\ HomeNext \in Nat \ {0} /\ p \in Policies
  BY HomeLastNat, FleetAssumption DEF HomeNext, Sites, FleetInv, Policies
<1>2. /\ e \in Event /\ e.origin = Home /\ e.seq = HomeNext
      /\ e.kind = "policy" /\ e.to = {s} /\ e.policy = p
  BY <1>1 DEF NewEvent, Event, Kinds, Policies
<1>3. /\ HomeAppend(e) /\ homePolicy' = [homePolicy EXCEPT ![s] = p]
      /\ UNCHANGED <<excluded, siteVars, fileVars, pass, netVars>>
  BY DEF HomeSetsPolicy
<1> HIDE DEF e
<1>4. Grown({e}) /\ \A f \in RangeOf(rows) : f.origin = Home => f.seq < e.seq
  BY <1>2, <1>3, HomeAppendGrows DEF siteVars, fileVars, netVars
<1>5. \A x \in Suitcases \ {s} : PoliciesFor({e}, x) = {} /\ homePolicy'[x] = homePolicy[x]
  BY <1>2, <1>3 DEF PoliciesFor, FleetInv, FleetTypeOK
<1>6. \A x \in Suitcases : \A y \in excluded[x] : y.kind = "data"
  BY DEF DeliveryInv, CursorOK
<1>7. /\ OneOfEach'
      /\ \A x \in Suitcases :
           /\ CursorOK(x)' /\ InboxOK(x)' /\ ProjectionOK(x)'
           /\ wire'[x] = wire[x] => AnswerOK(x)'
           /\ homePolicy'[x] = homePolicy[x] /\ PoliciesFor({e}, x) = {} => PolicyOK(x)'
  <2>1. UNCHANGED <<db, applied, policy, inbox, cursor, projected, pass>>
    BY <1>3 DEF siteVars, fileVars
  <2>2. \A x \in Suitcases : /\ excluded[x] \subseteq excluded'[x]
                             /\ \A y \in excluded'[x] : y.kind = "data"
    BY <1>3, <1>6
  <2> QED
    BY <1>4, <2>1, <2>2, GrownDelivery
<1>8. PolicyOK(s)'
  <2>1. homePolicy'[s] = p
    BY <1>3 DEF FleetInv, FleetTypeOK
  <2>2. e \in PoliciesFor(RangeOf(rows)', s)
    BY <1>2, <1>4 DEF Grown, PoliciesFor
  <2>3. ASSUME NEW f \in PoliciesFor(RangeOf(rows)', s)
        PROVE  f.seq =< e.seq
    <3>1. f \in RangeOf(rows) \/ f = e
      BY <1>4 DEF Grown, PoliciesFor
    <3>2. f \in RangeOf(rows) => f.origin = Home
      BY DEF PoliciesFor, DeliveryInv, OneOfEach, ControlKinds
    <3>3. e.seq \in Nat /\ (f \in RangeOf(rows) => f.seq \in Nat)
      BY <1>1, <1>2, RowBounds
    <3> QED
      BY <1>4, <3>1, <3>2, <3>3
  <2>4. LastSets(RangeOf(rows)', s, homePolicy'[s])
    BY <1>2, <2>1, <2>2, <2>3 DEF LastSets
  <2>5. LastSets(RangeOf(applied[s]), s, policy[s])
    BY DEF DeliveryInv, PolicyOK
  <2> QED
    BY <1>3, <2>4, <2>5 DEF PolicyOK, siteVars
<1> QED
  BY <1>3, <1>5, <1>7, <1>8 DEF DeliveryInv, netVars

(* Home takes over a part of the log of one suitcase.                      *)
LEMMA IngestGrows ==
  ASSUME FleetInv, DeliveryInv, NEW q \in Request, q.events \subseteq db[q.site],
         Accepts(q), Ingest(q), UNCHANGED db
  PROVE  /\ Grown(Fresh(q)) /\ rows' \in Seq(Event)
         /\ \A e \in Fresh(q) : e.kind \notin ControlKinds
<1> DEFINE o == q.site
           F == Fresh(q)
<1>1. o \in Suitcases /\ o \in Sites /\ o # Home
  BY FleetAssumption DEF Request, Sites
<1>2. F \subseteq db[o] /\ F \subseteq Event /\ IsFiniteSet(F)
  <2>1. F \subseteq db[o]
    BY DEF Fresh, Ready
  <2>2. db[o] \subseteq Event /\ IsFiniteSet(db[o])
    BY <1>1 DEF FleetInv, FleetTypeOK, LogInv
  <2> QED
    BY <2>1, <2>2, FS_Subset
<1>3. \A e \in F : e.origin = o /\ e.kind \notin ControlKinds
  BY <1>1, <1>2 DEF FleetInv, LogInv, DeliveryInv, OneOfEach
<1>4. \A e, f \in F : e.seq = f.seq => e = f
  BY <1>1, <1>2 DEF FleetInv, LogInv
<1>5. \A e \in F : e.seq > HomeLast(o)
  BY DEF Fresh
<1>6. rows' \in Seq(Event) /\ RangeOf(rows)' = RangeOf(rows) \cup F
  <2>1. PICK news \in Listings(F) : rows' = rows \o news
    BY DEF Ingest, OrderedListings
  <2>2. news \in Seq(Event) /\ RangeOf(news) = F
    BY <1>2, <2>1, ListingIsSeq
  <2>3. rows \in Seq(Event)
    BY DEF FleetInv, FleetTypeOK
  <2> QED
    BY <2>1, <2>2, <2>3, RangeConcat
<1>7. \A x \in Suitcases : HomeLast(x)' \in Nat /\ HomeLast(x)' >= HomeLast(x)
  BY IngestInv
<1> HIDE DEF o, F
<1>8. HomeLast(Home)' = HomeLast(Home)
  <2>1. \A e \in F : e.origin # Home
    BY <1>1, <1>3
  <2>2. LastSeq(RangeOf(rows) \cup F, Home) = LastSeq(RangeOf(rows), Home)
    BY <2>1, OtherOrigins
  <2> QED
    BY <1>6, <2>2 DEF HomeLast
<1>9. \A x \in Sites : HomeLast(x) \in Nat
  BY RowBounds
<1>10. \A x \in Sites : HomeLast(x)' \in Nat /\ HomeLast(x)' >= HomeLast(x)
  BY <1>7, <1>8, <1>9 DEF Sites
<1>11. Grown(F)
  BY <1>2, <1>3, <1>4, <1>5, <1>6, <1>10 DEF Grown
<1> QED
  BY <1>3, <1>6, <1>11 DEF F

(* A request whose client is gone grows the rows at most. *)
LEMMA LateExchangeDelivery ==
  ASSUME FleetInv, DeliveryInv, NEW q \in stale, LateExchange(q)
  PROVE  DeliveryInv'
<1>1. q \in Request /\ q.events \subseteq db[q.site]
  BY DEF FleetInv, FleetTypeOK, NetInv
<1>2. UNCHANGED <<homePolicy, excluded, db, applied, policy, inbox, cursor, projected, pass, wire>>
  BY DEF LateExchange, siteVars, fileVars
<1>3. CASE Accepts(q)
  <2>1. Grown(Fresh(q)) /\ \A e \in Fresh(q) : e.kind \notin ControlKinds
    BY <1>1, <1>2, <1>3, IngestGrows DEF LateExchange
  <2>2. \A s \in Suitcases : PoliciesFor(Fresh(q), s) = {}
    BY <2>1 DEF PoliciesFor, ControlKinds
  <2>3. \A s \in Suitcases : /\ excluded[s] \subseteq excluded'[s]
                             /\ \A e \in excluded'[s] : e.kind = "data"
    BY <1>2 DEF DeliveryInv, CursorOK
  <2> DEFINE F == Fresh(q)
  <2> HIDE DEF F
  <2>4. Grown(F) /\ \A s \in Suitcases : PoliciesFor(F, s) = {}
    BY <2>1, <2>2 DEF F
  <2>5. /\ OneOfEach'
        /\ \A s \in Suitcases :
             /\ CursorOK(s)' /\ InboxOK(s)' /\ ProjectionOK(s)'
             /\ wire'[s] = wire[s] => AnswerOK(s)'
             /\ homePolicy'[s] = homePolicy[s] /\ PoliciesFor(F, s) = {} => PolicyOK(s)'
    BY <1>2, <2>3, <2>4, GrownDelivery
  <2> QED
    BY <1>2, <2>4, <2>5 DEF DeliveryInv
<1>4. CASE ~ Accepts(q)
  <2>1. UNCHANGED deliveryVars
    BY <1>2, <1>4 DEF LateExchange, deliveryVars
  <2>2. \A s \in Suitcases : \A e \in db'[s] : e.kind \notin ControlKinds
    BY <1>2 DEF DeliveryInv, OneOfEach
  <2> QED
    BY <1>2, <2>1, <2>2, QuietDelivery
<1> QED
  BY <1>3, <1>4

(* What Home answers: rows, of which it skips what is not for the suitcase *)
(* or withheld from it, and the requests for it.                           *)
LEMMA AnswerMeans ==
  ASSUME NEW q \in Request, NEW rs \in Seq(Event)
  PROVE  /\ Sent(q, rs) \cup Skipped(q, rs) \cup Controls(q, rs) \subseteq RangeOf(rs)
         /\ \A e \in Skipped(q, rs) : ~ Addressed(e, q.site) \/ Withheld(e, q.site)
         /\ \A e \in Controls(q, rs) : e.kind = "request" /\ q.site \in e.to
<1>1. Decided(q, rs) \subseteq DOMAIN rs
  BY DEF Decided, Live, Pending
<1>2. Sent(q, rs) \subseteq RangeOf(rs) /\ Skipped(q, rs) \subseteq RangeOf(rs)
  BY <1>1 DEF Sent, Skipped, RangeOf
<1>3. Controls(q, rs) \subseteq RangeOf(rs)
  BY DEF Controls, OpenRequests, RangeOf
<1>4. \A e \in Skipped(q, rs) : ~ Addressed(e, q.site) \/ Withheld(e, q.site)
  BY DEF Skipped, Sent
<1>5. \A e \in Controls(q, rs) : e.kind = "request" /\ q.site \in e.to
  BY DEF Controls, OpenRequests
<1> QED
  BY <1>2, <1>3, <1>4, <1>5

(* An exchange grows the rows, and its answer says what it may. *)
LEMMA HomeExchangeDelivery ==
  ASSUME FleetInv, DeliveryInv, NEW s \in Suitcases, HomeExchange(s)
  PROVE  DeliveryInv'
<1> DEFINE q == wire[s]
           a == Answer(q, rows')
<1>1. q \in Request /\ q.site = s /\ q.events \subseteq db[s]
  BY WireTyped DEF HomeExchange, FleetInv, NetInv
<1>2. UNCHANGED <<homePolicy, db, applied, policy, inbox, cursor, projected, pass>>
  BY DEF HomeExchange, siteVars, fileVars
<1>3. /\ wire \in [Suitcases -> {NoMessage, Failure} \cup Request \cup Response]
      /\ excluded \in [Suitcases -> SUBSET Event]
  BY DEF FleetInv, FleetTypeOK
<1>4. CASE Accepts(q)
  <2>1. /\ Ingest(q) /\ wire' = [wire EXCEPT ![s] = a]
        /\ excluded' = [excluded EXCEPT ![s] = @ \cup {e \in Skipped(q, rows') : Withheld(e, s)}]
    BY <1>4 DEF HomeExchange
  <2>2. /\ Grown(Fresh(q)) /\ rows' \in Seq(Event)
        /\ \A e \in Fresh(q) : e.kind \notin ControlKinds
    BY <1>1, <1>2, <1>4, <2>1, IngestGrows
  <2> DEFINE F == Fresh(q)
  <2>3. Grown(F) /\ \A x \in Suitcases : PoliciesFor(F, x) = {}
    BY <2>2 DEF PoliciesFor, ControlKinds
  <2>4. /\ a.events \cup a.skipped \cup a.controls \subseteq RangeOf(rows')
        /\ \A e \in a.skipped : ~ Addressed(e, s) \/ Withheld(e, s)
        /\ \A e \in a.controls : e.kind = "request" /\ s \in e.to
        /\ Skipped(q, rows') = a.skipped
    <3>1. /\ Sent(q, rows') \cup Skipped(q, rows') \cup Controls(q, rows') \subseteq RangeOf(rows')
          /\ \A e \in Skipped(q, rows') : ~ Addressed(e, s) \/ Withheld(e, s)
          /\ \A e \in Controls(q, rows') : e.kind = "request" /\ s \in e.to
      BY <1>1, <2>2, AnswerMeans
    <3> QED
      BY <3>1 DEF Answer
  <2> HIDE DEF F, a, q
  <2>5. /\ excluded'[s] = excluded[s] \cup {e \in a.skipped : Withheld(e, s)}
        /\ \A x \in Suitcases \ {s} : excluded'[x] = excluded[x] /\ wire'[x] = wire[x]
        /\ wire'[s] = a
    BY <1>3, <2>1, <2>4
  <2>6. \A x \in Suitcases : /\ excluded[x] \subseteq excluded'[x]
                             /\ \A e \in excluded'[x] : e.kind = "data"
    <3>1. \A x \in Suitcases : \A e \in excluded[x] : e.kind = "data"
      BY DEF DeliveryInv, CursorOK
    <3>2. \A e \in excluded'[s] : e.kind = "data"
      BY <2>5, <3>1 DEF Withheld
    <3> QED
      BY <2>5, <3>1, <3>2
  <2>7. /\ OneOfEach'
        /\ \A x \in Suitcases :
             /\ CursorOK(x)' /\ InboxOK(x)' /\ ProjectionOK(x)'
             /\ wire'[x] = wire[x] => AnswerOK(x)'
             /\ homePolicy'[x] = homePolicy[x] /\ PoliciesFor(F, x) = {} => PolicyOK(x)'
    BY <1>2, <2>3, <2>6, GrownDelivery
  <2>8. AnswerOK(s)'
    <3>1. \A e \in a.skipped : ~ Addressed(e, s) \/ e \in excluded'[s]
      BY <2>4, <2>5
    <3> QED
      BY <2>4, <2>5, <3>1 DEF AnswerOK, Addressed
  <2> QED
    BY <1>2, <2>3, <2>5, <2>7, <2>8 DEF DeliveryInv
<1>5. CASE ~ Accepts(q)
  <2>1. wire' = [wire EXCEPT ![s] = Failure] /\ UNCHANGED <<rows, excluded>>
    BY <1>5 DEF HomeExchange
  <2>2. UNCHANGED deliveryVars
    BY <1>2, <2>1 DEF deliveryVars
  <2>3. \A x \in Suitcases : \A e \in db'[x] : e.kind \notin ControlKinds
    BY <1>2 DEF DeliveryInv, OneOfEach
  <2>4. \A x \in Suitcases : wire'[x] = wire[x] \/ wire'[x].type # "response"
    BY <1>3, <2>1 DEF Failure
  <2> QED
    BY <1>2, <2>2, <2>3, <2>4, QuietDelivery
<1> QED
  BY <1>4, <1>5

-----------------------------------------------------------------------------
(* A suitcase takes an answer over.                                        *)

(* What an answer brings of the origins P. *)
Brought(s, P) ==
  {e \in wire[s].events :
     /\ e.origin \in P
     /\ cursor[s][e.origin] < e.seq
     /\ e.seq =< Reach(s, wire[s], e.origin)} \ RangeOf(inbox[s])

Taken(s, P, news, controls) ==
  /\ cursor'[s] = [o \in Sites |-> IF o \in P THEN Reach(s, wire[s], o) ELSE cursor[s][o]]
  /\ inbox'[s] = inbox[s] \o news \o controls
  /\ news \in Seq(Event) /\ InOrder(news) /\ RangeOf(news) = Brought(s, P)
  /\ controls \in Seq(Event) /\ InOrder(controls)
  /\ RangeOf(controls) \subseteq wire[s].controls \ (RangeOf(inbox[s]) \cup RangeOf(news))
  /\ RangeOf(controls) # {} => P = Sites

(* The step, taken apart. *)
LEMMA ReceiveEffects ==
  ASSUME FleetInv, NEW s \in Suitcases, ReceiveAnswer(s)
  PROVE  /\ wire[s].type = "response" /\ wire'[s].type = "none" /\ pass'[s].at # "marking"
         /\ UNCHANGED <<rows, homePolicy, excluded, db, applied, policy, projected>>
         /\ \A x \in Suitcases \ {s} : /\ inbox'[x] = inbox[x] /\ cursor'[x] = cursor[x]
                                       /\ wire'[x] = wire[x] /\ pass'[x] = pass[x]
         /\ \E P \in SUBSET Sites, news, controls \in Seq(Event) : Taken(s, P, news, controls)
<1> DEFINE a == wire[s]
<1>1. /\ wire \in [Suitcases -> {NoMessage, Failure} \cup Request \cup Response]
      /\ inbox \in [Suitcases -> Seq(Event)] /\ cursor \in [Suitcases -> [Sites -> Nat]]
      /\ pass \in [Suitcases -> Pass]
  BY DEF FleetInv, FleetTypeOK
<1>2. a.type = "response" /\ wire' = [wire EXCEPT ![s] = NoMessage]
  BY DEF ReceiveAnswer
<1>3. a \in Response /\ IsFiniteSet(a.events) /\ IsFiniteSet(a.controls)
  BY <1>2, WireTyped DEF FleetInv, NetInv
<1>4. UNCHANGED <<rows, homePolicy, excluded, db, applied, policy, projected>>
  BY DEF ReceiveAnswer, homeVars, siteVars
<1>5. pass'[s].at # "marking" /\ \A x \in Suitcases \ {s} : pass'[x] = pass[x]
  <2>1. pass' = [pass EXCEPT ![s] = IF Accepted(s, a) THEN AfterExchange(s, a) ELSE Idle]
    BY DEF ReceiveAnswer
  <2>2. AfterExchange(s, a).at # "marking"
    <3>1. \A m : \A at \in {"uploading", "ready", "projecting"} :
            /\ [pass[s] EXCEPT !.at = at].at = at
            /\ [pass[s] EXCEPT !.at = at, !.missing = m].at = at
      BY <1>1 DEF Pass
    <3> QED
      BY <3>1 DEF AfterExchange
  <2>3. Idle.at # "marking"
    BY DEF Idle
  <2> QED
    BY <1>1, <2>1, <2>2, <2>3
<1>6. PICK P \in Processed(s, a) :
        /\ cursor' = [cursor EXCEPT ![s] = [o \in Sites |-> IF o \in P THEN Reach(s, a, o) ELSE @[o]]]
        /\ \E news \in OrderedListings(Brought(s, P)) :
           \E controls \in OrderedListings(IF Accepted(s, a)
                              THEN a.controls \ (RangeOf(inbox[s]) \cup RangeOf(news))
                              ELSE {}) :
             inbox' = [inbox EXCEPT ![s] = @ \o news \o controls]
  BY DEF ReceiveAnswer, Brought
<1>7. PICK news \in OrderedListings(Brought(s, P)) :
        \E controls \in OrderedListings(IF Accepted(s, a)
                           THEN a.controls \ (RangeOf(inbox[s]) \cup RangeOf(news))
                           ELSE {}) :
          inbox' = [inbox EXCEPT ![s] = @ \o news \o controls]
  BY <1>6
<1> DEFINE K == IF Accepted(s, a) THEN a.controls \ (RangeOf(inbox[s]) \cup RangeOf(news)) ELSE {}
<1>8. PICK controls \in OrderedListings(K) : inbox' = [inbox EXCEPT ![s] = @ \o news \o controls]
  BY <1>7
<1>9. P \subseteq Sites /\ (Accepted(s, a) => P = Sites)
  <2>1. CASE MovedBackwards(s, a)
    BY <1>6, <2>1 DEF Processed, Accepted
  <2>2. CASE ~ MovedBackwards(s, a)
    <3> DEFINE broken == {o \in Sites : ~ Complete(s, a, o)}
    <3>1. Processed(s, a) = IF broken = {} THEN {Sites}
                            ELSE {Q \cup {o} : Q \in SUBSET (Sites \ broken), o \in broken}
      BY <2>2 DEF Processed
    <3>2. Accepted(s, a) => broken = {}
      BY DEF Accepted
    <3>3. broken \subseteq Sites
      OBVIOUS
    <3> HIDE DEF broken
    <3> QED
      BY <1>6, <3>1, <3>2, <3>3
  <2> QED
    BY <2>1, <2>2
<1>10. news \in Seq(Event) /\ InOrder(news) /\ RangeOf(news) = Brought(s, P)
  <2>1. Brought(s, P) \subseteq a.events
    BY DEF Brought
  <2>2. Brought(s, P) \subseteq Event /\ IsFiniteSet(Brought(s, P))
    BY <1>3, <2>1, FS_Subset DEF Response
  <2> QED
    BY <2>2, <1>7, ListedInOrder
<1>11. controls \in Seq(Event) /\ InOrder(controls) /\ RangeOf(controls) = K
  <2>1. K \subseteq a.controls
    OBVIOUS
  <2>2. K \subseteq Event /\ IsFiniteSet(K)
    BY <1>3, <2>1, FS_Subset DEF Response
  <2> HIDE DEF K
  <2> QED
    BY <2>2, <1>8, ListedInOrder
<1>12. Taken(s, P, news, controls)
  <2>1. cursor'[s] = [o \in Sites |-> IF o \in P THEN Reach(s, a, o) ELSE cursor[s][o]]
    BY <1>1, <1>6
  <2>2. inbox'[s] = inbox[s] \o news \o controls
    BY <1>1, <1>8
  <2>3. RangeOf(controls) \subseteq a.controls \ (RangeOf(inbox[s]) \cup RangeOf(news))
        /\ (RangeOf(controls) # {} => P = Sites)
    BY <1>9, <1>11
  <2> QED
    BY <1>10, <1>11, <2>1, <2>2, <2>3 DEF Taken
<1>13. \A x \in Suitcases \ {s} : /\ inbox'[x] = inbox[x] /\ cursor'[x] = cursor[x]
                                  /\ wire'[x] = wire[x]
  BY <1>1, <1>2, <1>6, <1>8
<1>14. wire'[s].type = "none"
  BY <1>1, <1>2 DEF NoMessage
<1> QED
  BY <1>2, <1>4, <1>5, <1>9, <1>10, <1>11, <1>12, <1>13, <1>14

(* Cursors move to where Home is at most, and past nothing but what the    *)
(* answer brings or excuses.                                               *)
LEMMA TakenCovers ==
  ASSUME FleetInv, DeliveryInv, NEW s \in Suitcases, wire[s].type = "response",
         NEW P \in SUBSET Sites, NEW news, NEW controls, Taken(s, P, news, controls)
  PROVE  /\ \A o \in Sites : /\ cursor[s][o] \in Nat /\ cursor'[s][o] \in Nat
                             /\ cursor[s][o] =< cursor'[s][o] /\ cursor'[s][o] =< HomeLast(o)
         /\ \A e \in RangeOf(rows) :
              e.origin # s /\ e.seq =< cursor'[s][e.origin] /\ Addressed(e, s) =>
                e \in RangeOf(inbox[s]) \cup RangeOf(news) \cup excluded[s]
         /\ \A e \in RangeOf(news) :
              /\ e \in RangeOf(rows) /\ e \notin RangeOf(inbox[s])
              /\ cursor[s][e.origin] < e.seq /\ e.seq =< cursor'[s][e.origin]
<1> DEFINE a == wire[s]
<1>1. /\ \A o \in Sites : cursor[s][o] =< HomeLast(o)
      /\ \A e \in RangeOf(rows) : Passed(s, e) => e \in RangeOf(inbox[s]) \cup excluded[s]
  BY DEF DeliveryInv, CursorOK
<1>2. /\ a.events \cup a.skipped \subseteq RangeOf(rows)
      /\ \A e \in a.skipped : ~ Addressed(e, s) \/ e \in excluded[s]
  BY DEF DeliveryInv, AnswerOK
<1>3. /\ RangeOf(rows) \subseteq Event
      /\ \A o \in Sites : HomeLast(o) \in Nat
      /\ \A e \in RangeOf(rows) : e.origin \in Sites /\ e.seq \in Nat /\ e.seq =< HomeLast(e.origin)
  BY RowBounds
<1>4. \A o \in Sites :
        /\ cursor[s][o] \in Nat /\ Reach(s, a, o) \in Nat /\ Reach(s, a, o) >= cursor[s][o]
        /\ (cursor[s][o] + 1) .. Reach(s, a, o) \subseteq Told(a, o)
  BY ReachFacts
<1>5. \A o \in Sites : cursor'[s][o] = IF o \in P THEN Reach(s, a, o) ELSE cursor[s][o]
  BY DEF Taken
<1>6. \A o \in Sites : \A n \in Told(a, o) :
        \E e \in a.events \cup a.skipped : e.origin = o /\ e.seq = n
  BY DEF Told
<1>7. \A e, f \in RangeOf(rows) : e.origin = f.origin /\ e.seq = f.seq => e = f
  BY DEF DeliveryInv, OneOfEach
<1>8. RangeOf(news) = Brought(s, P)
  BY DEF Taken
<1>9. ASSUME NEW o \in Sites
      PROVE  /\ cursor[s][o] \in Nat /\ cursor'[s][o] \in Nat
             /\ cursor[s][o] =< cursor'[s][o] /\ cursor'[s][o] =< HomeLast(o)
  <2> DEFINE c == cursor[s][o]
             r == Reach(s, a, o)
  <2>1. c \in Nat /\ r \in Nat /\ r >= c /\ (c + 1) .. r \subseteq Told(a, o)
    BY <1>4
  <2>2. r =< HomeLast(o)
    <3>1. CASE r = c
      BY <1>1, <3>1
    <3>2. CASE r # c
      <4>1. r \in Told(a, o)
        <5> HIDE DEF c, r
        <5>1. r \in (c + 1) .. r
          BY <2>1, <3>2
        <5> QED
          BY <2>1, <5>1
      <4>2. PICK e \in a.events \cup a.skipped : e.origin = o /\ e.seq = r
        BY <1>6, <4>1
      <4>3. e.seq =< HomeLast(e.origin)
        BY <1>2, <1>3, <4>2
      <4> QED
        BY <4>2, <4>3
    <3> QED
      BY <3>1, <3>2
  <2>3. cursor'[s][o] = r \/ cursor'[s][o] = c
    BY <1>5
  <2>4. c =< HomeLast(o)
    BY <1>1
  <2> HIDE DEF c, r
  <2>5. cursor'[s][o] \in Nat /\ c =< cursor'[s][o] /\ cursor'[s][o] =< HomeLast(o)
    BY <2>1, <2>2, <2>3, <2>4
  <2> QED
    BY <2>1, <2>5 DEF c
<1>10. ASSUME NEW e \in RangeOf(rows), e.origin # s, e.seq =< cursor'[s][e.origin], Addressed(e, s),
              ~ (e.seq =< cursor[s][e.origin])
       PROVE  e \in RangeOf(inbox[s]) \cup RangeOf(news) \cup excluded[s]
  <2> DEFINE o == e.origin
             c == cursor[s][o]
             r == Reach(s, a, o)
  <2>1. o \in Sites /\ e.seq \in Nat
    BY <1>3
  <2>2. c \in Nat /\ r \in Nat /\ (c + 1) .. r \subseteq Told(a, o)
    BY <1>4, <2>1
  <2>3. o \in P /\ e.seq =< r
    BY <1>5, <1>10, <2>1
  <2>4. ~ (e.seq =< c)
    BY <1>10
  <2>5. e.seq \in Told(a, o)
    <3> HIDE DEF o, c, r
    <3>1. e.seq \in (c + 1) .. r
      BY <2>1, <2>2, <2>3, <2>4
    <3> QED
      BY <2>2, <3>1
  <2>6. PICK x \in a.events \cup a.skipped : x.origin = o /\ x.seq = e.seq
    BY <1>6, <2>1, <2>5
  <2>7. x = e
    BY <1>2, <1>7, <2>6
  <2>8. CASE e \in a.skipped
    BY <1>2, <1>10, <2>8
  <2>9. CASE e \in a.events
    <3>1. cursor[s][o] < e.seq
      BY <2>1, <2>2, <2>4
    <3>2. e \in Brought(s, P) \/ e \in RangeOf(inbox[s])
      BY <2>3, <2>9, <3>1 DEF Brought
    <3> QED
      BY <1>8, <3>2
  <2> QED
    BY <2>6, <2>7, <2>8, <2>9
<1>11. \A e \in RangeOf(rows) :
         e.origin # s /\ e.seq =< cursor'[s][e.origin] /\ Addressed(e, s) =>
           e \in RangeOf(inbox[s]) \cup RangeOf(news) \cup excluded[s]
  BY <1>1, <1>10 DEF Passed
<1>12. ASSUME NEW e \in RangeOf(news)
       PROVE  /\ e \in RangeOf(rows) /\ e \notin RangeOf(inbox[s])
              /\ cursor[s][e.origin] < e.seq /\ e.seq =< cursor'[s][e.origin]
  <2>1. /\ e \in a.events /\ e.origin \in P /\ e \notin RangeOf(inbox[s])
        /\ cursor[s][e.origin] < e.seq /\ e.seq =< Reach(s, a, e.origin)
    BY <1>8 DEF Brought
  <2> QED
    BY <1>2, <1>5, <2>1
<1> QED
  BY <1>9, <1>11, <1>12

(* What is taken over keeps the inbox in order: the answer's events are    *)
(* beyond the cursors, and its requests alone may be new behind them.      *)
LEMMA TakenInOrder ==
  ASSUME FleetInv, DeliveryInv, NEW s \in Suitcases, wire[s].type = "response",
         NEW P \in SUBSET Sites, NEW news, NEW controls, Taken(s, P, news, controls)
  PROVE  /\ InOrder(inbox'[s])
         /\ RangeOf(inbox'[s]) = RangeOf(inbox[s]) \cup RangeOf(news) \cup RangeOf(controls)
         /\ \A e \in RangeOf(controls) : e.kind = "request" /\ e \in RangeOf(rows)
<1>1. /\ news \in Seq(Event) /\ InOrder(news) /\ controls \in Seq(Event) /\ InOrder(controls)
      /\ RangeOf(controls) \subseteq wire[s].controls \ (RangeOf(inbox[s]) \cup RangeOf(news))
      /\ inbox'[s] = inbox[s] \o news \o controls
  BY DEF Taken
<1>2. inbox[s] \in Seq(Event) /\ InOrder(inbox[s])
  BY DEF FleetInv, FleetTypeOK, DeliveryInv, InboxOK
<1>3. /\ \A o \in Sites : /\ cursor[s][o] \in Nat /\ cursor'[s][o] \in Nat
                          /\ cursor[s][o] =< cursor'[s][o] /\ cursor'[s][o] =< HomeLast(o)
      /\ \A e \in RangeOf(rows) :
           e.origin # s /\ e.seq =< cursor'[s][e.origin] /\ Addressed(e, s) =>
             e \in RangeOf(inbox[s]) \cup RangeOf(news) \cup excluded[s]
      /\ \A e \in RangeOf(news) :
           /\ e \in RangeOf(rows) /\ e \notin RangeOf(inbox[s])
           /\ cursor[s][e.origin] < e.seq /\ e.seq =< cursor'[s][e.origin]
  BY TakenCovers
<1>4. /\ RangeOf(rows) \subseteq Event
      /\ \A e \in RangeOf(rows) : e.origin \in Sites /\ e.seq \in Nat
  BY RowBounds
<1>5. /\ RangeOf(inbox[s]) \subseteq RangeOf(rows)
      /\ \A e \in RangeOf(inbox[s]) : e.seq =< cursor[s][e.origin] \/ e.kind = "request"
  BY DEF DeliveryInv, InboxOK
<1>6. \A e \in RangeOf(controls) : e.kind = "request" /\ s \in e.to /\ e \in RangeOf(rows)
  BY <1>1 DEF DeliveryInv, AnswerOK
<1>7. ASSUME NEW e \in RangeOf(inbox[s]), NEW f \in RangeOf(news)
      PROVE  Before(e, f)
  <2>1. e # f
    BY <1>3
  <2>2. e.seq \in Nat /\ f.seq \in Nat /\ f.origin \in Sites
    BY <1>3, <1>4, <1>5
  <2>3. ASSUME e.origin = f.origin, e.kind # "request"
        PROVE  e.seq < f.seq
    <3>1. e.seq =< cursor[s][f.origin]
      BY <1>5, <2>3
    <3>2. cursor[s][f.origin] \in Nat /\ cursor[s][f.origin] < f.seq
      BY <1>3, <2>2
    <3> QED
      BY <2>2, <3>1, <3>2
  <2> QED
    BY <2>1, <2>3 DEF Before
<1> DEFINE q == inbox[s] \o news
<1>8. q \in Seq(Event) /\ InOrder(q) /\ RangeOf(q) = RangeOf(inbox[s]) \cup RangeOf(news)
  BY <1>1, <1>2, <1>7, InOrderConcat, RangeConcat
<1>9. ASSUME NEW e \in RangeOf(q), NEW f \in RangeOf(controls)
      PROVE  Before(e, f)
  <2>1. e # f
    BY <1>1, <1>8
  <2>2. e \in RangeOf(rows) /\ f \in RangeOf(rows)
    BY <1>3, <1>5, <1>6, <1>8
  <2>3. ASSUME e.origin = f.origin, e.kind # "request"
        PROVE  e.seq < f.seq
    <3>1. f.origin = Home /\ Home # s /\ Home \in Sites
      BY <1>6, FleetAssumption DEF DeliveryInv, OneOfEach, ControlKinds, Sites
    <3>2. Addressed(f, s)
      BY <1>6 DEF Addressed
    <3>3. ~ (f.seq =< cursor'[s][Home])
      <4>1. ASSUME f.seq =< cursor'[s][Home]
            PROVE  FALSE
        <5>1. f \in RangeOf(inbox[s]) \cup RangeOf(news) \cup excluded[s]
          BY <1>3, <2>2, <3>1, <3>2, <4>1
        <5>2. f \in excluded[s]
          BY <1>1, <5>1
        <5>3. f.kind = "data"
          BY <5>2 DEF DeliveryInv, CursorOK
        <5> QED
          BY <1>6, <5>3
      <4> QED
        BY <4>1
    <3>4. e.seq =< cursor'[s][Home]
      <4>1. CASE e \in RangeOf(inbox[s])
        <5>1. e.seq =< cursor[s][Home] /\ e.seq \in Nat
          BY <1>4, <1>5, <2>2, <2>3, <3>1, <4>1
        <5>2. cursor[s][Home] \in Nat /\ cursor'[s][Home] \in Nat /\ cursor[s][Home] =< cursor'[s][Home]
          BY <1>3, <3>1
        <5> QED
          BY <5>1, <5>2
      <4>2. CASE e \in RangeOf(news)
        BY <1>3, <2>3, <3>1, <4>2
      <4> QED
        BY <1>8, <4>1, <4>2
    <3>5. e.seq \in Nat /\ f.seq \in Nat /\ cursor'[s][Home] \in Nat
      BY <1>3, <1>4, <2>2, <3>1
    <3> QED
      BY <3>3, <3>4, <3>5
  <2> QED
    BY <2>1, <2>3 DEF Before
<1> HIDE DEF q
<1>10. InOrder(q \o controls) /\ RangeOf(q \o controls) = RangeOf(q) \cup RangeOf(controls)
  BY <1>1, <1>8, <1>9, InOrderConcat, RangeConcat
<1>11. inbox'[s] = q \o controls
  BY <1>1 DEF q
<1> QED
  BY <1>6, <1>8, <1>10, <1>11

(* A suitcase that takes an answer over keeps what it is promised.         *)
LEMMA ReceiveAnswerDelivery ==
  ASSUME FleetInv, DeliveryInv, NEW s \in Suitcases, ReceiveAnswer(s)
  PROVE  DeliveryInv'
<1>1. /\ wire[s].type = "response" /\ wire'[s].type = "none" /\ pass'[s].at # "marking"
      /\ UNCHANGED <<rows, homePolicy, excluded, db, applied, policy, projected>>
      /\ \A x \in Suitcases \ {s} : /\ inbox'[x] = inbox[x] /\ cursor'[x] = cursor[x]
                                    /\ wire'[x] = wire[x] /\ pass'[x] = pass[x]
  BY ReceiveEffects
<1>2. PICK P \in SUBSET Sites, news, controls \in Seq(Event) : Taken(s, P, news, controls)
  BY ReceiveEffects
<1>3. /\ \A o \in Sites : /\ cursor[s][o] \in Nat /\ cursor'[s][o] \in Nat
                          /\ cursor[s][o] =< cursor'[s][o] /\ cursor'[s][o] =< HomeLast(o)
      /\ \A e \in RangeOf(rows) :
           e.origin # s /\ e.seq =< cursor'[s][e.origin] /\ Addressed(e, s) =>
             e \in RangeOf(inbox[s]) \cup RangeOf(news) \cup excluded[s]
      /\ \A e \in RangeOf(news) : e \in RangeOf(rows) /\ e.seq =< cursor'[s][e.origin]
  BY <1>1, <1>2, TakenCovers
<1>4. /\ InOrder(inbox'[s])
      /\ RangeOf(inbox'[s]) = RangeOf(inbox[s]) \cup RangeOf(news) \cup RangeOf(controls)
      /\ \A e \in RangeOf(controls) : e.kind = "request" /\ e \in RangeOf(rows)
  BY <1>1, <1>2, TakenInOrder
<1>5. /\ RangeOf(inbox[s]) \subseteq RangeOf(rows)
      /\ \A e \in RangeOf(inbox[s]) : e.seq =< cursor[s][e.origin] \/ e.kind = "request"
      /\ \A e \in excluded[s] : e.kind = "data"
  BY DEF DeliveryInv, InboxOK, CursorOK
<1>6. CursorOK(s)'
  <2>1. \A e \in RangeOf(rows) : e.origin # s /\ e.seq =< cursor'[s][e.origin] /\ Addressed(e, s) =>
          e \in RangeOf(inbox'[s]) \cup excluded[s]
    BY <1>3, <1>4
  <2>2. \A o \in Sites : cursor'[s][o] =< HomeLast(o)
    BY <1>3
  <2> QED
    BY <1>1, <1>5, <2>1, <2>2 DEF CursorOK, Passed, HomeLast, Addressed
<1>7. AnswerOK(s)'
  BY <1>1 DEF AnswerOK
<1>8. InboxOK(s)'
  <2>1. RangeOf(inbox'[s]) \subseteq RangeOf(rows)
    BY <1>3, <1>4, <1>5
  <2>2. ASSUME NEW e \in RangeOf(inbox'[s])
        PROVE  e.seq =< cursor'[s][e.origin] \/ e.kind = "request"
    <3>1. CASE e \in RangeOf(inbox[s]) /\ e.kind # "request"
      <4>1. e.seq \in Nat /\ e.origin \in Sites
        BY <1>5, <3>1, RowBounds
      <4>2. e.seq =< cursor[s][e.origin]
        BY <1>5, <3>1
      <4>3. /\ cursor[s][e.origin] \in Nat /\ cursor'[s][e.origin] \in Nat
            /\ cursor[s][e.origin] =< cursor'[s][e.origin]
        BY <1>3, <4>1
      <4> QED
        BY <4>1, <4>2, <4>3
    <3> QED
      BY <1>3, <1>4, <3>1
  <2> QED
    BY <1>1, <1>4, <2>1, <2>2 DEF InboxOK
<1>9. ProjectionOK(s)'
  <2>1. PICK k \in Nat : Noted(s, k)
    BY DEF DeliveryInv, ProjectionOK
  <2> DEFINE r == news \o controls
             B == inbox[s]
             A == applied[s]
  <2>2. B \in Seq(Event) /\ r \in Seq(Event) /\ A \in Seq(Event) /\ inbox'[s] = B \o r
    <3>1. B \in Seq(Event) /\ A \in Seq(Event)
      BY DEF FleetInv, FleetTypeOK
    <3>2. news \in Seq(Event) /\ controls \in Seq(Event) /\ inbox'[s] = B \o news \o controls
      BY <1>2 DEF Taken
    <3>3. r \in Seq(Event)
      BY <3>2
    <3> HIDE DEF B
    <3>4. (B \o news) \o controls = B \o (news \o controls)
      BY <3>1, <3>2
    <3> QED
      BY <3>1, <3>2, <3>3, <3>4
  <2>3. /\ Len(A) =< Len(B) /\ \A i \in 1..Len(A) : A[i] = B[i]
        /\ projected[s] = {B[i] : i \in 1..k} /\ k =< Len(A) /\ Len(A) =< k + 1
    BY <2>1 DEF DeliveryInv, ProjectionOK, Noted
  <2> HIDE DEF A, B, r
  <2>4. Len(A) \in Nat /\ Len(B) \in Nat /\ Len(B \o r) >= Len(B)
        /\ \A i \in 1..Len(B) : (B \o r)[i] = B[i]
    BY <2>2
  <2>5. \A i \in 1..Len(A) : i \in 1..Len(B)
    BY <2>3, <2>4
  <2>6. \A i \in 1..k : i \in 1..Len(B)
    BY <2>3, <2>4
  <2>7. {(B \o r)[i] : i \in 1..k} = {B[i] : i \in 1..k}
    BY <2>4, <2>6
  <2>8. Len(A) =< Len(B \o r) /\ Len(B \o r) \in Nat
    BY <2>2, <2>3, <2>4
  <2>9. \A i \in 1..Len(A) : A[i] = (B \o r)[i]
    BY <2>3, <2>4, <2>5
  <2>10. applied'[s] = A /\ projected'[s] = projected[s]
    BY <1>1 DEF A
  <2>11. Noted(s, k)'
    BY <1>1, <2>2, <2>3, <2>7, <2>10 DEF Noted
  <2> QED
    BY <2>2, <2>8, <2>9, <2>10, <2>11 DEF ProjectionOK
<1>10. ASSUME NEW x \in Suitcases
       PROVE  (CursorOK(x) /\ AnswerOK(x) /\ InboxOK(x) /\ ProjectionOK(x) /\ PolicyOK(x))'
  <2>1. CursorOK(x) /\ AnswerOK(x) /\ InboxOK(x) /\ ProjectionOK(x) /\ PolicyOK(x)
    BY DEF DeliveryInv
  <2>2. PolicyOK(x)'
    BY <1>1, <2>1 DEF PolicyOK
  <2>3. CASE x # s
    <3>1. /\ inbox'[x] = inbox[x] /\ cursor'[x] = cursor[x] /\ wire'[x] = wire[x]
          /\ pass'[x] = pass[x]
      BY <1>1, <2>3
    <3>2. CursorOK(x)' /\ AnswerOK(x)' /\ InboxOK(x)'
      BY <1>1, <2>1, <3>1 DEF CursorOK, Passed, HomeLast, AnswerOK, InboxOK, Addressed
    <3>3. ProjectionOK(x)'
      <4>1. PICK k \in Nat : Noted(x, k)
        BY <2>1 DEF ProjectionOK
      <4>2. Noted(x, k)'
        BY <1>1, <3>1, <4>1 DEF Noted
      <4> QED
        BY <1>1, <2>1, <3>1, <4>2 DEF ProjectionOK
    <3> QED
      BY <2>2, <3>2, <3>3
  <2> QED
    BY <1>6, <1>7, <1>8, <1>9, <2>2, <2>3
<1>11. OneOfEach'
  BY <1>1 DEF DeliveryInv, OneOfEach
<1> QED
  BY <1>10, <1>11 DEF DeliveryInv

-----------------------------------------------------------------------------
(* The invariant holds initially and is kept by every step.                *)

LEMMA DeliveryInit == FleetInit => DeliveryInv
<1> SUFFICES ASSUME FleetInit
             PROVE  DeliveryInv
  OBVIOUS
<1>1. rows = <<>> /\ RangeOf(rows) = {}
  BY DEF FleetInit, RangeOf
<1>2. \A o \in Sites : HomeLast(o) = 0
  BY <1>1 DEF HomeLast, LastSeq
<1>3. OneOfEach
  BY <1>1 DEF FleetInit, OneOfEach
<1>4. ASSUME NEW s \in Suitcases
      PROVE  CursorOK(s) /\ AnswerOK(s) /\ InboxOK(s) /\ ProjectionOK(s) /\ PolicyOK(s)
  <2>1. /\ inbox[s] = <<>> /\ applied[s] = <<>> /\ projected[s] = {} /\ excluded[s] = {}
        /\ policy[s] = InitialPolicy /\ homePolicy[s] = InitialPolicy
        /\ pass[s] = Idle /\ wire[s] = NoMessage
        /\ \A o \in Sites : cursor[s][o] = 0
    BY DEF FleetInit
  <2>2. CursorOK(s)
    BY <1>1, <1>2, <2>1 DEF CursorOK
  <2>3. AnswerOK(s)
    BY <2>1 DEF AnswerOK, NoMessage
  <2>4. DOMAIN inbox[s] = {} /\ RangeOf(inbox[s]) = {} /\ RangeOf(applied[s]) = {}
    BY <2>1 DEF RangeOf
  <2>5. InboxOK(s)
    BY <2>4 DEF InboxOK, InOrder
  <2>6. ProjectionOK(s)
    <3>1. Len(applied[s]) = 0 /\ Len(inbox[s]) = 0 /\ pass[s].at # "marking"
      BY <2>1 DEF Idle
    <3>2. Noted(s, 0)
      <4>1. {inbox[s][i] : i \in 1..0} = {}
        OBVIOUS
      <4> QED
        BY <2>1, <3>1, <4>1 DEF Noted
    <3> QED
      BY <3>1, <3>2 DEF ProjectionOK
  <2>7. PolicyOK(s)
    BY <1>1, <2>1, <2>4 DEF PolicyOK, LastSets, PoliciesFor
  <2> QED
    BY <2>2, <2>3, <2>5, <2>6, <2>7
<1> QED
  BY <1>3, <1>4 DEF DeliveryInv

(* Every step of the fleet. *)
LEMMA DeliveryStep == FleetInv /\ DeliveryInv /\ [FleetNext]_vars => DeliveryInv'
<1> SUFFICES ASSUME FleetInv, DeliveryInv, [FleetNext]_vars
             PROVE  DeliveryInv'
  OBVIOUS
<1>1. CASE UNCHANGED vars
  <2>1. UNCHANGED <<deliveryVars, wire, pass, db>>
    BY <1>1 DEF vars, homeVars, siteVars, fileVars, netVars, deliveryVars
  <2> QED
    BY <2>1, QuietDelivery DEF DeliveryInv, OneOfEach
<1>2. CASE HomeActs
  BY <1>2, HomeWritesDelivery, HomeSetsPolicyDelivery, LateExchangeDelivery DEF HomeActs
<1>3. ASSUME NEW s \in Suitcases, SuitcaseActs(s)
      PROVE  DeliveryInv'
  BY <1>3, LogStepDelivery, PassStepDelivery, HomeExchangeDelivery, ReceiveAnswerDelivery,
     ProjectDelivery, MarkProjectedDelivery DEF SuitcaseActs, PassStep
<1> QED
  BY <1>1, <1>2, <1>3 DEF FleetNext

(* Cursors, answers, inboxes, projections and policies stay as DeliveryInv *)
(* has them, in every state of every fleet (syncSuitcaseNow).              *)
THEOREM DeliveryInvariant == FleetSpec => [](FleetInv /\ DeliveryInv)
<1>1. FleetInit => FleetInv /\ DeliveryInv
  BY InitInv, DeliveryInit
<1>2. (FleetInv /\ DeliveryInv) /\ [FleetNext]_vars => (FleetInv /\ DeliveryInv)'
  BY StepInv, DeliveryStep
<1> QED
  BY <1>1, <1>2, PTL DEF FleetSpec

(* Cursors lose nothing: crashes, lost answers, deferred events and the    *)
(* control lane never let a cursor pass an event the suitcase needs        *)
(* (outgoingEvents, acceptIncomingEvents).                                 *)
THEOREM CursorsLoseNothing == FleetSpec => []CursorLosesNothing
<1>1. DeliveryInv => CursorLosesNothing
  BY DEF DeliveryInv, CursorOK, Passed, CursorLosesNothing
<1> QED
  BY <1>1, DeliveryInvariant, PTL

(* What takes effect on a suitcase follows the logs: each event once, each *)
(* origin in order but for requests, and of the policies the latest        *)
(* (projectSuitcaseFleetEvent, the projection loop of syncSuitcaseNow).    *)
THEOREM ProjectionsFollowLogs == FleetSpec => []ProjectionFollowsLogs
<1>1. FleetInv /\ DeliveryInv => ProjectedOnceInOrder
  <2> SUFFICES ASSUME FleetInv, DeliveryInv, NEW s \in Suitcases,
                      NEW i \in DOMAIN applied[s], NEW j \in DOMAIN applied[s], i < j
               PROVE  Before(applied[s][i], applied[s][j])
    BY DEF ProjectedOnceInOrder, Before
  <2>1. applied[s] \in Seq(Event) /\ inbox[s] \in Seq(Event)
    BY DEF FleetInv, FleetTypeOK
  <2>2. /\ Len(applied[s]) =< Len(inbox[s])
        /\ \A n \in 1..Len(applied[s]) : applied[s][n] = inbox[s][n]
    BY DEF DeliveryInv, ProjectionOK
  <2>3. /\ i \in 1..Len(applied[s]) /\ j \in 1..Len(applied[s])
        /\ i \in DOMAIN inbox[s] /\ j \in DOMAIN inbox[s]
    BY <2>1, <2>2
  <2>4. Before(inbox[s][i], inbox[s][j])
    BY <2>3 DEF DeliveryInv, InboxOK, InOrder
  <2> QED
    BY <2>2, <2>3, <2>4
<1>2. FleetInv /\ DeliveryInv => PolicyConverges
  <2> SUFFICES ASSUME FleetInv, DeliveryInv, NEW s \in Suitcases,
                      PoliciesFor(RangeOf(rows), s) \subseteq RangeOf(applied[s])
               PROVE  policy[s] = homePolicy[s]
    BY DEF PolicyConverges, PoliciesFor
  <2>1. RangeOf(applied[s]) \subseteq RangeOf(rows)
    <3>1. applied[s] \in Seq(Event) /\ inbox[s] \in Seq(Event)
      BY DEF FleetInv, FleetTypeOK
    <3>2. /\ Len(applied[s]) =< Len(inbox[s])
          /\ \A n \in 1..Len(applied[s]) : applied[s][n] = inbox[s][n]
      BY DEF DeliveryInv, ProjectionOK
    <3>3. \A n \in DOMAIN applied[s] : n \in DOMAIN inbox[s] /\ applied[s][n] = inbox[s][n]
      BY <3>1, <3>2
    <3>4. RangeOf(inbox[s]) \subseteq RangeOf(rows)
      BY DEF DeliveryInv, InboxOK
    <3> QED
      BY <3>3, <3>4 DEF RangeOf
  <2>2. PoliciesFor(RangeOf(applied[s]), s) = PoliciesFor(RangeOf(rows), s)
    BY <2>1 DEF PoliciesFor
  <2>3. LastSets(RangeOf(rows), s, homePolicy[s]) /\ LastSets(RangeOf(rows), s, policy[s])
    BY <2>2 DEF DeliveryInv, PolicyOK, LastSets
  <2>4. ASSUME NEW e \in PoliciesFor(RangeOf(rows), s), NEW f \in PoliciesFor(RangeOf(rows), s),
               f.seq =< e.seq, e.seq =< f.seq
        PROVE  e = f
    <3>1. e \in RangeOf(rows) /\ f \in RangeOf(rows) /\ e.kind = "policy" /\ f.kind = "policy"
      BY DEF PoliciesFor
    <3>2. e.origin = f.origin
      BY <3>1 DEF DeliveryInv, OneOfEach, ControlKinds
    <3>3. e.seq \in Nat /\ f.seq \in Nat
      BY <3>1, RowBounds
    <3>4. e.seq = f.seq
      BY <2>4, <3>3
    <3> QED
      BY <3>1, <3>2, <3>4 DEF DeliveryInv, OneOfEach
  <2> QED
    BY <2>3, <2>4 DEF LastSets
<1> QED
  BY <1>1, <1>2, DeliveryInvariant, PTL DEF ProjectionFollowsLogs

-----------------------------------------------------------------------------
(* The second inductive invariant: the content of what is in the outbox,   *)
(* in a request or asked for in an answer is queued or at Home, and        *)
(* nothing is on the wire but for a pass that waits.                       *)

Held(s) == queuedArtifacts[s] \cup artifacts
DataIn(E) == {e \in E : e.kind = "data"}

ContentOK(s) ==
  /\ wire[s].type # "none" => pass[s].at = "waiting"
  /\ DataIn(outbox[s]) \subseteq Held(s)
  /\ wire[s].type = "request" => DataIn(wire[s].events) \subseteq Held(s)
  /\ wire[s].type = "response" => wire[s].missing \subseteq Held(s)
  /\ pass[s].at = "uploading" => pass[s].missing \subseteq Held(s)

ContentInv == \A s \in Suitcases : ContentOK(s)

(* More content, or less in the outbox, does no harm.                      *)
LEMMA ContentKept ==
  ASSUME NEW s \in Suitcases, ContentOK(s), wire'[s] = wire[s], pass'[s] = pass[s],
         Held(s) \subseteq Held(s)', DataIn(outbox'[s]) \subseteq Held(s)'
  PROVE  ContentOK(s)'
BY DEF ContentOK

(* What a step of one suitcase leaves to the others.                       *)
LEMMA OthersKeepContent ==
  ASSUME ContentInv, NEW s \in Suitcases, artifacts \subseteq artifacts', ContentOK(s)',
         \A x \in Suitcases \ {s} :
           /\ outbox'[x] = outbox[x] /\ queuedArtifacts'[x] = queuedArtifacts[x]
           /\ wire'[x] = wire[x] /\ pass'[x] = pass[x]
  PROVE  ContentInv'
<1>1. ASSUME NEW x \in Suitcases \ {s}
      PROVE  ContentOK(x)'
  <2>1. Held(x) \subseteq Held(x)'
    BY DEF Held
  <2>2. ContentOK(x) /\ DataIn(outbox'[x]) \subseteq Held(x)'
    BY <2>1 DEF ContentInv, ContentOK
  <2> QED
    BY <2>1, <2>2, ContentKept
<1> QED
  BY <1>1 DEF ContentInv

(* Copying the log into the outbox queues the content with the events.     *)
LEMMA EnqueueContent ==
  ASSUME FleetInv, ContentInv, NEW s \in Suitcases, NEW log, Enqueue(s, log),
         UNCHANGED <<artifacts, wire>>,
         pass'[s] = pass[s] \/ (wire[s].type = "none" /\ pass'[s].at = "ready"),
         \A x \in Suitcases \ {s} : pass'[x] = pass[x]
  PROVE  ContentInv'
<1>1. outbox \in [Suitcases -> SUBSET Event] /\ queuedArtifacts \in [Suitcases -> SUBSET Event]
  BY DEF FleetInv, FleetTypeOK
<1> DEFINE batch == {e \in log : acked[s] < e.seq /\ e.seq =< acked[s] + BatchLimit}
<1>2. /\ outbox' = [outbox EXCEPT ![s] = @ \cup batch]
      /\ queuedArtifacts' = [queuedArtifacts EXCEPT ![s] = @ \cup DataIn(batch)]
  BY DEF Enqueue, DataIn
<1> HIDE DEF batch
<1>3. ContentOK(s)
  BY DEF ContentInv
<1>4. Held(s)' = Held(s) \cup DataIn(batch) /\ outbox'[s] = outbox[s] \cup batch
  BY <1>1, <1>2 DEF Held
<1>5. DataIn(outbox'[s]) \subseteq Held(s)'
  BY <1>3, <1>4 DEF ContentOK, DataIn
<1>6. ContentOK(s)'
  <2>1. CASE pass'[s] = pass[s]
    BY <1>3, <1>4, <1>5, <2>1, ContentKept
  <2>2. CASE wire[s].type = "none" /\ pass'[s].at = "ready"
    BY <1>5, <2>2 DEF ContentOK
  <2> QED
    BY <2>1, <2>2
<1>7. \A x \in Suitcases \ {s} :
        /\ outbox'[x] = outbox[x] /\ queuedArtifacts'[x] = queuedArtifacts[x]
        /\ wire'[x] = wire[x] /\ pass'[x] = pass[x]
  BY <1>1, <1>2
<1> QED
  BY <1>6, <1>7, OthersKeepContent

(* Passes begin, and answer requests, with nothing on the wire. *)
LEMMA LogStepContent ==
  ASSUME FleetInv, ContentInv, NEW s \in Suitcases,
         \/ Acknowledge(s) \/ \E manual \in BOOLEAN : BeginPass(s, manual)
  PROVE  ContentInv'
<1>1. pass \in [Suitcases -> Pass]
  BY DEF FleetInv, FleetTypeOK
<1>2. Enqueue(s, db'[s]) /\ UNCHANGED <<artifacts, wire>>
  <2>2. CASE Acknowledge(s)
    BY <2>2 DEF Acknowledge, homeVars, netVars
  <2>3. ASSUME NEW manual \in BOOLEAN, BeginPass(s, manual)
        PROVE  Enqueue(s, db'[s]) /\ UNCHANGED <<artifacts, wire>>
    BY <2>3 DEF BeginPass, homeVars, netVars
  <2> QED
    BY <2>2, <2>3
<1>3. \E it : pass' = [pass EXCEPT ![s] = it] /\ it.at = "ready" /\ pass[s].at # "waiting"
  <2>1. ASSUME NEW manual \in BOOLEAN
        PROVE  [Idle EXCEPT !.at = "ready", !.manual = manual].at = "ready"
    BY DEF Idle
  <2>2. [Idle EXCEPT !.at = "ready", !.round = 2].at = "ready"
    BY DEF Idle
  <2>4. CASE Acknowledge(s)
    <3> DEFINE it == [Idle EXCEPT !.at = "ready", !.round = 2]
    <3>1. pass' = [pass EXCEPT ![s] = it] /\ pass[s].at # "waiting"
      BY <2>4 DEF Acknowledge
    <3>2. it.at = "ready"
      BY <2>2
    <3> HIDE DEF it
    <3> QED
      BY <3>1, <3>2
  <2>5. ASSUME NEW manual \in BOOLEAN, BeginPass(s, manual)
        PROVE  \E it : /\ pass' = [pass EXCEPT ![s] = it] /\ it.at = "ready"
                       /\ pass[s].at # "waiting"
    <3> DEFINE it == [Idle EXCEPT !.at = "ready", !.manual = manual]
    <3>1. pass' = [pass EXCEPT ![s] = it] /\ pass[s].at # "waiting"
      BY <2>5 DEF BeginPass
    <3>2. it.at = "ready"
      BY <2>1
    <3> HIDE DEF it
    <3> QED
      BY <3>1, <3>2
  <2> QED
    BY <2>4, <2>5
<1>4. pass'[s] = pass[s] \/ (wire[s].type = "none" /\ pass'[s].at = "ready")
  BY <1>1, <1>3 DEF ContentInv, ContentOK
<1>5. \A x \in Suitcases \ {s} : pass'[x] = pass[x]
  BY <1>1, <1>3
<1> DEFINE log == db'[s]
<1> HIDE DEF log
<1>6. Enqueue(s, log)
  BY <1>2 DEF log
<1> QED
  BY <1>2, <1>4, <1>5, <1>6, EnqueueContent

(* A request carries what the outbox has. *)
LEMMA SendExchangeContent ==
  ASSUME FleetInv, ContentInv, NEW s \in Suitcases, SendExchange(s)
  PROVE  ContentInv'
<1>1. /\ wire \in [Suitcases -> {NoMessage, Failure} \cup Request \cup Response]
      /\ pass \in [Suitcases -> Pass]
  BY DEF FleetInv, FleetTypeOK
<1> DEFINE q == [type |-> "request", site |-> s, events |-> Batch(s), cursors |-> cursor[s],
                 manual |-> pass[s].manual]
<1>2. /\ wire' = [wire EXCEPT ![s] = q] /\ pass' = [pass EXCEPT ![s].at = "waiting"]
      /\ UNCHANGED <<artifacts, outbox, queuedArtifacts>>
  BY DEF SendExchange, homeVars, fileVars
<1>3. q.type = "request" /\ q.events = Batch(s)
  OBVIOUS
<1> HIDE DEF q
<1>4. /\ wire'[s] = q /\ pass'[s].at = "waiting"
      /\ \A x \in Suitcases \ {s} : wire'[x] = wire[x] /\ pass'[x] = pass[x]
  BY <1>1, <1>2 DEF Pass
<1>5. DataIn(Batch(s)) \subseteq DataIn(outbox[s])
  BY DEF DataIn, Batch
<1>6. ContentOK(s)'
  BY <1>2, <1>3, <1>4, <1>5 DEF ContentInv, ContentOK, Held
<1> QED
  BY <1>2, <1>4, <1>6, OthersKeepContent

(* An answer asks for what the request carried. *)
LEMMA HomeExchangeContent ==
  ASSUME FleetInv, ContentInv, NEW s \in Suitcases, HomeExchange(s)
  PROVE  ContentInv'
<1>1. wire \in [Suitcases -> {NoMessage, Failure} \cup Request \cup Response]
  BY DEF FleetInv, FleetTypeOK
<1>2. UNCHANGED <<artifacts, outbox, queuedArtifacts, pass>> /\ wire[s].type = "request"
  BY DEF HomeExchange, fileVars
<1>3. PICK a : /\ wire' = [wire EXCEPT ![s] = a]
               /\ a = Failure \/ a = Answer(wire[s], rows')
  BY DEF HomeExchange
<1>4. a.type = "error" \/ (a.type = "response" /\ a.missing = Missing(wire[s]))
  BY <1>3 DEF Failure, Answer
<1>5. ContentOK(s)
  BY DEF ContentInv
<1>6. Missing(wire[s]) \subseteq Held(s)
  BY <1>2, <1>5 DEF Missing, ContentOK, DataIn
<1>7. wire'[s] = a /\ \A x \in Suitcases \ {s} : wire'[x] = wire[x]
  BY <1>1, <1>3
<1>8. ContentOK(s)'
  BY <1>2, <1>4, <1>5, <1>6, <1>7 DEF ContentOK, Held
<1> QED
  BY <1>2, <1>7, <1>8, OthersKeepContent

(* Pruning the queue spares what the outbox still references.              *)
LEMMA ReceiveAnswerContent ==
  ASSUME FleetInv, ContentInv, NEW s \in Suitcases, ReceiveAnswer(s)
  PROVE  ContentInv'
<1> DEFINE a == wire[s]
           p == AfterExchange(s, a)
<1>1. /\ outbox \in [Suitcases -> SUBSET Event] /\ queuedArtifacts \in [Suitcases -> SUBSET Event]
      /\ wire \in [Suitcases -> {NoMessage, Failure} \cup Request \cup Response]
      /\ pass \in [Suitcases -> Pass]
  BY DEF FleetInv, FleetTypeOK
<1>2. /\ a.type = "response"
      /\ outbox' = [outbox EXCEPT ![s] = {e \in @ : e.seq > a.accepted}]
      /\ pass' = [pass EXCEPT ![s] = IF Accepted(s, a) THEN p ELSE Idle]
      /\ queuedArtifacts' = [queuedArtifacts EXCEPT ![s] =
           IF Accepted(s, a) /\ p.at = "projecting" THEN @ \cap outbox'[s] ELSE @]
      /\ wire' = [wire EXCEPT ![s] = NoMessage]
      /\ UNCHANGED artifacts
  BY DEF ReceiveAnswer, homeVars
<1>3. p.at = "uploading" => p.missing = a.missing
  BY <1>1 DEF AfterExchange, Pass
<1>4. /\ outbox'[s] \subseteq outbox[s]
      /\ \/ pass'[s].at # "uploading" /\ queuedArtifacts'[s] = queuedArtifacts[s] \cap outbox'[s]
         \/ /\ queuedArtifacts'[s] = queuedArtifacts[s]
            /\ pass'[s].at = "uploading" => pass'[s].missing = a.missing
  <2> HIDE DEF p, a
  <2>1. outbox'[s] \subseteq outbox[s]
    BY <1>1, <1>2
  <2>2. pass'[s] = IF Accepted(s, a) THEN p ELSE Idle
    BY <1>1, <1>2
  <2>3. queuedArtifacts'[s] = IF Accepted(s, a) /\ p.at = "projecting"
                              THEN queuedArtifacts[s] \cap outbox'[s] ELSE queuedArtifacts[s]
    BY <1>1, <1>2
  <2>4. Idle.at = "idle"
    BY DEF Idle
  <2> QED
    BY <1>3, <2>1, <2>2, <2>3, <2>4
<1>5. wire'[s].type = "none"
  BY <1>1, <1>2 DEF NoMessage
<1>6. ContentOK(s)
  BY DEF ContentInv
<1>7. DataIn(outbox'[s]) \subseteq Held(s)'
  BY <1>2, <1>4, <1>6 DEF ContentOK, DataIn, Held
<1>8. pass'[s].at = "uploading" => pass'[s].missing \subseteq Held(s)'
  BY <1>2, <1>4, <1>6 DEF ContentOK, Held
<1>9. ContentOK(s)'
  BY <1>5, <1>7, <1>8 DEF ContentOK
<1>10. \A x \in Suitcases \ {s} :
         /\ outbox'[x] = outbox[x] /\ queuedArtifacts'[x] = queuedArtifacts[x]
         /\ wire'[x] = wire[x] /\ pass'[x] = pass[x]
  BY <1>1, <1>2
<1> QED
  BY <1>2, <1>9, <1>10, OthersKeepContent

(* An upload ends with the content at Home before the queue forgets it.    *)
LEMMA UploadContent ==
  ASSUME FleetInv, ContentInv, NEW s \in Suitcases, UploadStore(s) \/ UploadForget(s)
  PROVE  ContentInv'
<1>1. /\ queuedArtifacts \in [Suitcases -> SUBSET Event] /\ pass \in [Suitcases -> Pass]
  BY DEF FleetInv, FleetTypeOK
<1>2. ContentOK(s) /\ pass[s].at = "uploading" /\ UNCHANGED <<outbox, wire>>
  BY DEF ContentInv, UploadStore, UploadForget, fileVars, netVars
<1>3. wire[s].type = "none"
  BY <1>2 DEF ContentOK
<1>4. CASE UploadStore(s)
  <2>1. UNCHANGED queuedArtifacts /\ artifacts \subseteq artifacts'
    BY <1>4 DEF UploadStore, fileVars
  <2>2. pass' = pass \/ pass' = [pass EXCEPT ![s] = Idle]
    BY <1>4 DEF UploadStore
  <2>3. pass'[s] = pass[s] \/ pass'[s].at = "idle"
    BY <1>1, <2>2 DEF Idle
  <2>4. ContentOK(s)'
    BY <1>2, <1>3, <2>1, <2>3 DEF ContentOK, Held
  <2>5. \A x \in Suitcases \ {s} : pass'[x] = pass[x]
    BY <1>1, <2>2
  <2> QED
    BY <1>2, <2>1, <2>4, <2>5, OthersKeepContent
<1>5. CASE UploadForget(s)
  <2>1. PICK e \in pass[s].missing \cap artifacts :
          /\ queuedArtifacts' = [queuedArtifacts EXCEPT ![s] = @ \ {e}]
          /\ pass' = [pass EXCEPT ![s].missing = @ \ {e},
                                   ![s].at = IF pass[s].missing = {e} THEN "ready" ELSE @]
    BY <1>5 DEF UploadForget
  <2>2. UNCHANGED artifacts
    BY <1>5 DEF UploadForget, homeVars
  <2>3. Held(s)' = Held(s)
    BY <1>1, <2>1, <2>2 DEF Held
  <2>4. pass'[s].missing \subseteq pass[s].missing
    BY <1>1, <2>1 DEF Pass
  <2>5. ContentOK(s)'
    BY <1>2, <1>3, <2>3, <2>4 DEF ContentOK
  <2>6. \A x \in Suitcases \ {s} : pass'[x] = pass[x] /\ queuedArtifacts'[x] = queuedArtifacts[x]
    BY <1>1, <2>1
  <2> QED
    BY <1>2, <2>2, <2>5, <2>6, OthersKeepContent
<1> QED
  BY <1>4, <1>5

(* Steps that touch neither outbox nor content.                            *)
LEMMA QuietContent ==
  ASSUME FleetInv, ContentInv, NEW s \in Suitcases,
         \/ ReceiveFailure(s) \/ Project(s) \/ MarkProjected(s) \/ FinishPass(s) \/ Interrupted(s)
  PROVE  ContentInv'
<1>1. /\ wire \in [Suitcases -> {NoMessage, Failure} \cup Request \cup Response]
      /\ pass \in [Suitcases -> Pass]
  BY DEF FleetInv, FleetTypeOK
<1>2. ContentOK(s) /\ UNCHANGED <<artifacts, outbox, queuedArtifacts>>
  BY DEF ContentInv, ReceiveFailure, Project, MarkProjected, FinishPass, Interrupted, homeVars, fileVars
<1>3. CASE ReceiveFailure(s) \/ Interrupted(s)
  <2>1. wire' = [wire EXCEPT ![s] = NoMessage] /\ pass' = [pass EXCEPT ![s] = Idle]
    BY <1>3 DEF ReceiveFailure, Interrupted
  <2>2. wire'[s].type = "none" /\ pass'[s].at = "idle"
    BY <1>1, <2>1 DEF NoMessage, Idle
  <2>3. ContentOK(s)'
    BY <1>2, <2>2 DEF ContentOK, Held
  <2>4. \A x \in Suitcases \ {s} : wire'[x] = wire[x] /\ pass'[x] = pass[x]
    BY <1>1, <2>1
  <2> QED
    BY <1>2, <2>3, <2>4, OthersKeepContent
<1>4. CASE Project(s) \/ MarkProjected(s) \/ FinishPass(s)
  <2>1. /\ UNCHANGED wire /\ pass[s].at # "waiting"
        /\ \A x \in Suitcases \ {s} : pass'[x] = pass[x]
        /\ pass'[s].at \in {"marking", "projecting", "idle"}
    BY <1>1, <1>4 DEF Project, MarkProjected, FinishPass, netVars, Pass, Idle
  <2>2. ContentOK(s)'
    BY <1>2, <2>1 DEF ContentOK, Held
  <2> QED
    BY <1>2, <2>1, <2>2, OthersKeepContent
<1> QED
  BY <1>3, <1>4

(* Nothing needs content. *)
LEMMA ContentInit == FleetInit => ContentInv
<1> SUFFICES ASSUME FleetInit, NEW s \in Suitcases
             PROVE  ContentOK(s)
  BY DEF ContentInv
<1>1. outbox[s] = {} /\ pass[s] = Idle /\ wire[s] = NoMessage
  BY DEF FleetInit
<1> QED
  BY <1>1 DEF ContentOK, NoMessage, Idle, DataIn

(* Every step of the fleet. *)
LEMMA ContentStep == FleetInv /\ ContentInv /\ [FleetNext]_vars => ContentInv'
<1> SUFFICES ASSUME FleetInv, ContentInv, [FleetNext]_vars
             PROVE  ContentInv'
  OBVIOUS
<1>1. CASE UNCHANGED vars \/ HomeActs
  <2>1. UNCHANGED <<artifacts, outbox, queuedArtifacts, wire, pass>>
    BY <1>1 DEF vars, homeVars, fileVars, netVars, HomeActs, HomeWrites, HomeRequests,
       HomeSetsPolicy, LateExchange
  <2> QED
    BY <2>1 DEF ContentInv, ContentOK, Held
<1>2. ASSUME NEW s \in Suitcases, SuitcaseActs(s)
      PROVE  ContentInv'
  <2>1. CASE LocalWrites(s)
    <3>1. UNCHANGED <<artifacts, outbox, queuedArtifacts, wire, pass>>
      BY <2>1 DEF LocalWrites, homeVars, fileVars, netVars
    <3> QED
      BY <3>1 DEF ContentInv, ContentOK, Held
  <2> QED
    BY <1>2, <2>1, LogStepContent, SendExchangeContent, HomeExchangeContent,
       ReceiveAnswerContent, UploadContent, QuietContent DEF SuitcaseActs, PassStep
<1> QED
  BY <1>1, <1>2 DEF FleetNext

(* Home asks only for content the suitcase still has queued, or already    *)
(* has it: neither the pruning of the queue nor a pass cut short makes     *)
(* "Coordinator requested unavailable artifact" happen.                    *)
THEOREM RequestedContentIsThere == FleetSpec => []ArtifactsAvailable
<1>1. FleetInit => FleetInv /\ ContentInv
  BY InitInv, ContentInit
<1>2. (FleetInv /\ ContentInv) /\ [FleetNext]_vars => (FleetInv /\ ContentInv)'
  BY StepInv, ContentStep
<1>3. ContentInv => ArtifactsAvailable
  BY DEF ContentInv, ContentOK, ArtifactsAvailable, Held
<1> QED
  BY <1>1, <1>2, <1>3, PTL DEF FleetSpec

-----------------------------------------------------------------------------
(* The third inductive invariant, where no two rows of Home carry the same *)
(* instant: rows are in order, an outbox continues its acknowledgement     *)
(* without a gap, and an answer continues both acknowledgement and cursors.*)

Ascending(q) ==
  \A i, j \in DOMAIN q : i < j /\ q[i].origin = q[j].origin => q[i].seq < q[j].seq

OutboxOK(s) ==
  \A e \in outbox[s] :
    /\ acked[s] < e.seq
    /\ \A f \in db[s] : acked[s] < f.seq /\ f.seq =< e.seq => f \in outbox[s]

Continues(a, cursors) ==
  \A o \in Sites : \A n \in Told(a, o) : cursors[o] < n /\ (cursors[o] + 1) .. n \subseteq Told(a, o)

WireOK(s) ==
  /\ wire[s].type = "request" => wire[s].cursors = cursor[s]
  /\ wire[s].type = "response" => acked[s] =< wire[s].accepted /\ Continues(wire[s], cursor[s])

AcceptInv == Ascending(rows) /\ \A s \in Suitcases : OutboxOK(s) /\ WireOK(s)

(* Rows that are beyond those before them keep the order.                  *)
LEMMA AscendingConcat ==
  ASSUME NEW q \in Seq(Event), NEW r \in Seq(Event), Ascending(q), Ascending(r),
         \A e \in RangeOf(q), f \in RangeOf(r) : e.origin = f.origin => e.seq < f.seq
  PROVE  Ascending(q \o r)
<1>1. /\ Len(q) \in Nat /\ Len(r) \in Nat /\ DOMAIN q = 1 .. Len(q) /\ DOMAIN r = 1 .. Len(r)
      /\ DOMAIN (q \o r) = 1 .. (Len(q) + Len(r))
      /\ \A i \in 1 .. (Len(q) + Len(r)) :
           (q \o r)[i] = IF i =< Len(q) THEN q[i] ELSE r[i - Len(q)]
  OBVIOUS
<1>2. SUFFICES ASSUME NEW i \in 1 .. (Len(q) + Len(r)), NEW j \in 1 .. (Len(q) + Len(r)), i < j,
                      (q \o r)[i].origin = (q \o r)[j].origin
               PROVE  (q \o r)[i].seq < (q \o r)[j].seq
  BY <1>1 DEF Ascending
<1>3. CASE j =< Len(q)
  <2>1. i \in DOMAIN q /\ j \in DOMAIN q /\ (q \o r)[i] = q[i] /\ (q \o r)[j] = q[j]
    BY <1>1, <1>2, <1>3
  <2>2. q[i].seq < q[j].seq
    BY <1>2, <2>1 DEF Ascending
  <2> QED
    BY <2>1, <2>2
<1>4. CASE i =< Len(q) /\ j > Len(q)
  <2>1. i \in DOMAIN q /\ j - Len(q) \in DOMAIN r
        /\ (q \o r)[i] = q[i] /\ (q \o r)[j] = r[j - Len(q)]
    BY <1>1, <1>2, <1>4
  <2>2. q[i] \in RangeOf(q) /\ r[j - Len(q)] \in RangeOf(r)
    BY <2>1 DEF RangeOf
  <2>3. q[i].seq < r[j - Len(q)].seq
    BY <1>2, <2>1, <2>2
  <2> QED
    BY <2>1, <2>3
<1>5. CASE i > Len(q)
  <2>1. i - Len(q) \in DOMAIN r /\ j - Len(q) \in DOMAIN r /\ i - Len(q) < j - Len(q)
        /\ (q \o r)[i] = r[i - Len(q)] /\ (q \o r)[j] = r[j - Len(q)]
    BY <1>1, <1>2, <1>5
  <2>2. r[i - Len(q)].seq < r[j - Len(q)].seq
    BY <1>2, <2>1 DEF Ascending
  <2> QED
    BY <2>1, <2>2
<1> QED
  BY <1>1, <1>2, <1>3, <1>4, <1>5

(* An event that Home writes comes last.                                   *)
LEMMA HomeAppendAscends ==
  ASSUME FleetInv, Ascending(rows), ~ SameInstant, NEW e \in Event, e.origin = Home,
         e.seq = HomeNext, HomeAppend(e)
  PROVE  Ascending(rows')
<1>1. rows \in Seq(Event) /\ rows' = Append(rows, e)
  BY DEF FleetInv, FleetTypeOK, HomeAppend
<1> DEFINE r == <<e>>
<1>2. rows' = rows \o r
  BY <1>1
<1>3. r \in Seq(Event) /\ RangeOf(r) = {e} /\ Ascending(r)
  BY DEF RangeOf, Ascending
<1>4. \A f \in RangeOf(rows) : f.origin = e.origin => f.seq < e.seq
  <2>1. Home \in Sites
    BY DEF Sites
  <2> QED
    BY <2>1, RowBounds DEF HomeNext
<1> HIDE DEF r
<1>5. \A f \in RangeOf(rows), x \in RangeOf(r) : f.origin = x.origin => f.seq < x.seq
  BY <1>3, <1>4
<1>6. Ascending(rows \o r)
  BY <1>1, <1>3, <1>5, AscendingConcat
<1> QED
  BY <1>2, <1>6

(* What Home takes over of a log comes last, in the order of the log.      *)
LEMMA IngestAscends ==
  ASSUME FleetInv, Ascending(rows), ~ SameInstant, NEW q \in Request,
         q.events \subseteq db[q.site], Ingest(q)
  PROVE  Ascending(rows')
<1> DEFINE o == q.site
           F == Fresh(q)
<1>1. o \in Suitcases /\ o \in Sites
  BY DEF Request, Sites
<1>2. F \subseteq db[o] /\ F \subseteq Event /\ IsFiniteSet(F)
  <2>1. F \subseteq db[o]
    BY DEF Fresh, Ready
  <2>2. db[o] \subseteq Event /\ IsFiniteSet(db[o])
    BY <1>1 DEF FleetInv, FleetTypeOK, LogInv
  <2> QED
    BY <2>1, <2>2, FS_Subset
<1>3. \A e \in F : e.origin = o /\ e.seq > HomeLast(o) /\ e.seq \in Nat
  BY <1>1, <1>2, EventFields DEF FleetInv, LogInv, Fresh
<1>4. PICK news \in OrderedListings(F) : rows' = rows \o news
  BY DEF Ingest
<1> HIDE DEF o, F
<1>5. news \in Seq(Event) /\ RangeOf(news) = F
  BY <1>2, <1>4, ListedInOrder
<1>6. Ascending(news)
  BY DEF OrderedListings, Ascending
<1>7. \A e \in RangeOf(rows), f \in RangeOf(news) : e.origin = f.origin => e.seq < f.seq
  <2> SUFFICES ASSUME NEW e \in RangeOf(rows), NEW f \in RangeOf(news), e.origin = f.origin
               PROVE  e.seq < f.seq
    OBVIOUS
  <2>1. f.origin = o /\ f.seq > HomeLast(o) /\ f.seq \in Nat
    BY <1>3, <1>5
  <2>2. e.seq \in Nat /\ e.seq =< HomeLast(o) /\ HomeLast(o) \in Nat
    BY <1>1, <2>1, RowBounds
  <2> QED
    BY <2>1, <2>2
<1>8. rows \in Seq(Event)
  BY DEF FleetInv, FleetTypeOK
<1> QED
  BY <1>4, <1>5, <1>6, <1>7, <1>8, AscendingConcat

(* Fewer live rows are ahead of an earlier row.                            *)
LEMMA AheadGrows ==
  ASSUME NEW q, NEW rs \in Seq(Event), NEW i \in DOMAIN rs, NEW j \in DOMAIN rs, j =< i
  PROVE  Ahead(q, rs, j) \in Nat /\ Ahead(q, rs, i) \in Nat /\ Ahead(q, rs, j) =< Ahead(q, rs, i)
<1> DEFINE I == {k \in Live(q, rs) : k < i}
           J == {k \in Live(q, rs) : k < j}
<1>1. Len(rs) \in Nat /\ DOMAIN rs = 1 .. Len(rs) /\ Live(q, rs) \subseteq DOMAIN rs
  BY DEF Live, Pending
<1>2. I \subseteq 1 .. Len(rs) /\ J \subseteq I
  BY <1>1
<1>3. IsFiniteSet(1 .. Len(rs))
  BY <1>1, FS_Interval
<1>4. Ahead(q, rs, i) = Cardinality(I) /\ Ahead(q, rs, j) = Cardinality(J)
  BY DEF Ahead
<1> HIDE DEF I, J
<1>5. IsFiniteSet(I) /\ IsFiniteSet(J) /\ Cardinality(J) =< Cardinality(I)
  BY <1>2, <1>3, FS_Subset
<1>6. Cardinality(I) \in Nat /\ Cardinality(J) \in Nat
  BY <1>5, FS_CardinalityType
<1> QED
  BY <1>4, <1>5, <1>6

(* The heart of outgoingEvents: where rows are in order, what is decided   *)
(* of an origin continues its cursor without a gap, for whatever is        *)
(* deferred, skipped or cut off takes everything behind it along.          *)
LEMMA AnswerContinues ==
  ASSUME NEW q \in Request, NEW rs \in Seq(Event), Ascending(rs),
         \A o \in Sites : Numbered(RangeOf(rs), o)
  PROVE  Continues(Answer(q, rs), q.cursors)
<1> DEFINE a == Answer(q, rs)
<1>1. a.events \cup a.skipped = {rs[i] : i \in Decided(q, rs)}
  BY DEF Answer, Sent, Skipped
<1>2. /\ Decided(q, rs) \subseteq Live(q, rs) /\ Live(q, rs) \subseteq Pending(q, rs)
      /\ Pending(q, rs) \subseteq DOMAIN rs
  BY DEF Decided, Live, Pending
<1>3. \A o \in Sites : q.cursors[o] \in Nat
  BY DEF Request
<1>4. \A o : Told(a, o) = {e.seq : e \in {x \in a.events \cup a.skipped : x.origin = o}}
  BY DEF Told
<1>5. \A o : Told(a, o) = {rs[i].seq : i \in {k \in Decided(q, rs) : rs[k].origin = o}}
  BY <1>1, <1>4
<1> HIDE DEF a
<1>6. SUFFICES ASSUME NEW o \in Sites, NEW n \in Told(a, o)
               PROVE  q.cursors[o] < n /\ (q.cursors[o] + 1) .. n \subseteq Told(a, o)
  BY DEF Continues, a
<1>7. PICK i \in Decided(q, rs) : rs[i].origin = o /\ rs[i].seq = n
  BY <1>5
<1>8. /\ i \in DOMAIN rs /\ o # q.site /\ n > q.cursors[o] /\ n \in Nat
      /\ ~ Deferred(rs[i], q.site, q.manual) /\ DeferredBefore(q, rs, i) = {}
      /\ Ahead(q, rs, i) < BatchLimit
  <2>1. i \in DOMAIN rs /\ o # q.site /\ n > q.cursors[o]
    BY <1>2, <1>7 DEF Pending
  <2>2. n \in Nat
    BY <1>7, <2>1, EventFields
  <2>3. ~ Deferred(rs[i], q.site, q.manual) /\ DeferredBefore(q, rs, i) = {}
    BY <1>2, <1>7 DEF Live
  <2>4. Ahead(q, rs, i) < BatchLimit
    BY DEF Decided
  <2> QED
    BY <2>1, <2>2, <2>3, <2>4
<1>9. ASSUME NEW m \in (q.cursors[o] + 1) .. n
      PROVE  m \in Told(a, o)
  <2>0. m \in Nat /\ m > q.cursors[o] /\ m =< n
    BY <1>3, <1>8
  <2>1. PICK j \in DOMAIN rs : rs[j].origin = o /\ rs[j].seq = m
    <3>1. PICK k \in Nat : SeqsOf(RangeOf(rs), o) = 1 .. k
      BY DEF Numbered
    <3>2. n \in SeqsOf(RangeOf(rs), o)
      BY <1>7, <1>8 DEF SeqsOf, RangeOf
    <3>3. m \in SeqsOf(RangeOf(rs), o)
      BY <1>3, <1>8, <2>0, <3>1, <3>2
    <3> QED
      BY <3>3 DEF SeqsOf, RangeOf
  <2>2. i \in Nat /\ j \in Nat /\ j =< i
    <3>1. i \in Nat /\ j \in Nat
      BY <1>8
    <3>2. ~ (i < j)
      <4>1. i < j => rs[i].seq < rs[j].seq
        BY <1>7, <1>8, <2>1 DEF Ascending
      <4> QED
        BY <1>7, <1>8, <2>0, <2>1, <4>1
    <3> QED
      BY <3>1, <3>2
  <2>3. j \in Pending(q, rs)
    BY <1>8, <2>0, <2>1 DEF Pending
  <2>4. DeferredBefore(q, rs, j) = {}
    <3>1. \A k \in DeferredBefore(q, rs, j) : k \in Nat /\ k < j
      BY <1>2 DEF DeferredBefore
    <3>2. DeferredBefore(q, rs, j) \subseteq DeferredBefore(q, rs, i)
      BY <1>7, <2>1, <2>2, <3>1 DEF DeferredBefore
    <3> QED
      BY <1>8, <3>2
  <2>5. ~ Deferred(rs[j], q.site, q.manual)
    <3>1. CASE j = i
      BY <1>8, <3>1
    <3>2. CASE j # i
      <4>1. j < i
        BY <2>2, <3>2
      <4> QED
        BY <1>7, <1>8, <2>1, <2>3, <4>1 DEF DeferredBefore
    <3> QED
      BY <3>1, <3>2
  <2>6. Ahead(q, rs, j) < BatchLimit
    <3>1. Ahead(q, rs, j) \in Nat /\ Ahead(q, rs, i) \in Nat /\ Ahead(q, rs, j) =< Ahead(q, rs, i)
      BY <1>8, <2>2, AheadGrows
    <3> QED
      BY <1>8, <3>1, FleetAssumption
  <2>7. j \in Decided(q, rs)
    BY <2>3, <2>4, <2>5, <2>6 DEF Decided, Live
  <2> QED
    BY <1>5, <2>1, <2>7
<1> QED
  BY <1>8, <1>9

(* A suitcase finds no fault with an answer that continues what it has.    *)
LEMMA ContinuationAccepted ==
  ASSUME FleetInv, NEW s \in Suitcases, wire[s].type = "response", OutboxOK(s), WireOK(s)
  PROVE  Accepted(s, wire[s])
<1> DEFINE a == wire[s]
<1>1. /\ acked[s] \in Nat /\ a.accepted \in Nat /\ acked[s] =< a.accepted
      /\ Continues(a, cursor[s])
  BY WireTyped DEF FleetInv, FleetTypeOK, Response, WireOK
<1>2. ASSUME NEW o \in Sites
      PROVE  Complete(s, a, o)
  <2> SUFFICES ASSUME NEW e \in a.events \cup a.skipped, e.origin = o
               PROVE  e.seq =< Reach(s, a, o)
    BY DEF Complete
  <2> DEFINE n == e.seq
  <2>1. n \in Told(a, o)
    BY DEF Told
  <2>2. cursor[s][o] < n /\ (cursor[s][o] + 1) .. n \subseteq Told(a, o)
    BY <1>1, <2>1 DEF Continues
  <2>3. cursor[s][o] \in Nat /\ n \in Nat
    <3>1. a \in Response
      BY WireTyped DEF FleetInv
    <3>2. e \in Event
      BY <3>1 DEF Response
    <3> QED
      BY <3>2, EventFields DEF FleetInv, FleetTypeOK
  <2> HIDE DEF n
  <2>4. n > cursor[s][o]
    BY <2>2, <2>3
  <2>5. n =< Reach(s, a, o)
    BY <2>1, <2>2, <2>4, ReachFacts
  <2> QED
    BY <2>5 DEF n
<1>3. ~ MovedBackwards(s, a)
  <2>1. SUFFICES ASSUME Batch(s) # {}
                 PROVE  \E e \in Batch(s) : ~ (a.accepted + 1 < e.seq)
    BY DEF MovedBackwards
  <2>2. PICK e \in outbox[s] : TRUE
    BY <2>1 DEF Batch
  <2>3. /\ outbox[s] \subseteq db[s] /\ \A f \in db[s] : f.seq \in 1 .. LastSeq(db[s], s)
        /\ SeqsOf(db[s], s) = 1 .. LastSeq(db[s], s) /\ LastSeq(db[s], s) \in Nat
    BY LogLastNat DEF FleetInv, FileInv
  <2>4. e.seq \in Nat /\ acked[s] < e.seq /\ e.seq =< LastSeq(db[s], s)
    BY <2>2, <2>3 DEF OutboxOK
  <2>5. acked[s] + 1 \in 1 .. LastSeq(db[s], s) /\ acked[s] + 1 =< e.seq
    BY <1>1, <2>3, <2>4
  <2>6. PICK f \in db[s] : f.seq = acked[s] + 1
    BY <2>3, <2>5 DEF SeqsOf
  <2>7. f \in outbox[s]
    <3>1. acked[s] < f.seq /\ f.seq =< e.seq
      BY <1>1, <2>5, <2>6
    <3> QED
      BY <2>2, <3>1 DEF OutboxOK
  <2>8. {x \in outbox[s] : x.seq < f.seq} = {}
    <3> SUFFICES ASSUME NEW x \in outbox[s], x.seq < f.seq
                 PROVE  FALSE
      OBVIOUS
    <3>1. acked[s] < x.seq /\ x.seq \in Nat
      BY <2>3 DEF OutboxOK
    <3> QED
      BY <1>1, <2>6, <3>1
  <2>9. f \in Batch(s)
    <3>1. Cardinality({x \in outbox[s] : x.seq < f.seq}) = 0
      BY <2>8, FS_EmptySet
    <3>2. 0 < BatchLimit
      BY FleetAssumption
    <3> QED
      BY <2>7, <3>1, <3>2 DEF Batch
  <2>10. ~ (a.accepted + 1 < f.seq)
    BY <1>1, <2>6
  <2> QED
    BY <2>9, <2>10
<1> QED
  BY <1>2, <1>3 DEF Accepted

(* Steps that leave the logs, the outboxes and the cursors alone.          *)
LEMMA QuietAccept ==
  ASSUME FleetInv, AcceptInv, UNCHANGED <<db, outbox, acked, cursor>>, Ascending(rows'),
         \A s \in Suitcases :
           \/ wire'[s] = wire[s]
           \/ wire'[s].type \notin {"request", "response"}
           \/ WireOK(s)'
  PROVE  AcceptInv'
<1>1. ASSUME NEW s \in Suitcases
      PROVE  OutboxOK(s)' /\ WireOK(s)'
  <2>1. OutboxOK(s) /\ WireOK(s)
    BY DEF AcceptInv
  <2>2. OutboxOK(s)'
    BY <2>1 DEF OutboxOK
  <2>3. CASE wire'[s] = wire[s]
    BY <2>1, <2>2, <2>3 DEF WireOK, Continues
  <2>4. CASE wire'[s].type \notin {"request", "response"}
    BY <2>2, <2>4 DEF WireOK
  <2> QED
    BY <2>2, <2>3, <2>4
<1> QED
  BY <1>1 DEF AcceptInv

(* Home writes, or takes over what arrives late. *)
LEMMA HomeActsAccept ==
  ASSUME FleetInv, AcceptInv, ~ SameInstant, HomeActs
  PROVE  AcceptInv'
<1>1. UNCHANGED <<db, outbox, acked, cursor, wire>>
  BY DEF HomeActs, HomeWrites, HomeRequests, HomeSetsPolicy, LateExchange, siteVars, fileVars, netVars
<1>2. Ascending(rows) /\ Home \in Sites /\ HomeNext \in Nat \ {0}
  BY HomeLastNat DEF AcceptInv, HomeNext, Sites, FleetInv
<1>3. ASSUME NEW e \in Event, e.origin = Home, e.seq = HomeNext, HomeAppend(e)
      PROVE  Ascending(rows')
  BY <1>2, <1>3, HomeAppendAscends
<1>4. ASSUME NEW kind \in HomeKinds, HomeWrites(kind)
      PROVE  Ascending(rows')
  <2> DEFINE e == NewEvent(Home, HomeNext, kind)
  <2>1. kind \in Kinds
    BY <1>4, FleetAssumption DEF Kinds
  <2>2. e \in Event /\ e.origin = Home /\ e.seq = HomeNext
    BY <1>2, <2>1, NewEventTyped
  <2>3. HomeAppend(e)
    BY <1>4 DEF HomeWrites
  <2> HIDE DEF e
  <2> QED
    BY <1>3, <2>2, <2>3
<1>5. ASSUME NEW targets \in SUBSET Suitcases, HomeRequests(targets)
      PROVE  Ascending(rows')
  <2> DEFINE e == [NewEvent(Home, HomeNext, "request") EXCEPT !.to = targets]
  <2>1. e \in Event /\ e.origin = Home /\ e.seq = HomeNext
    BY <1>2 DEF NewEvent, Event, Kinds, Policies
  <2>2. HomeAppend(e)
    BY <1>5 DEF HomeRequests
  <2> HIDE DEF e
  <2> QED
    BY <1>3, <2>1, <2>2
<1>6. ASSUME NEW s \in Suitcases, NEW p \in PolicyChanges, HomeSetsPolicy(s, p)
      PROVE  Ascending(rows')
  <2> DEFINE e == [NewEvent(Home, HomeNext, "policy") EXCEPT !.to = {s}, !.policy = p]
  <2>1. p \in Policies
    BY FleetAssumption DEF Policies
  <2>2. e \in Event /\ e.origin = Home /\ e.seq = HomeNext
    BY <1>2, <2>1 DEF NewEvent, Event, Kinds, Policies
  <2>3. HomeAppend(e)
    BY <1>6 DEF HomeSetsPolicy
  <2> HIDE DEF e
  <2> QED
    BY <1>3, <2>2, <2>3
<1>7. ASSUME NEW q \in stale, LateExchange(q)
      PROVE  Ascending(rows')
  <2>1. q \in Request /\ q.events \subseteq db[q.site]
    BY DEF FleetInv, FleetTypeOK, NetInv
  <2>2. Ingest(q) \/ rows' = rows
    BY <1>7 DEF LateExchange
  <2> QED
    BY <1>2, <2>1, <2>2, IngestAscends
<1>8. Ascending(rows')
  BY <1>4, <1>5, <1>6, <1>7 DEF HomeActs
<1> QED
  BY <1>1, <1>8, QuietAccept

(* Home answers. *)
LEMMA HomeExchangeAccept ==
  ASSUME FleetInv, AcceptInv, ~ SameInstant, NEW s \in Suitcases, HomeExchange(s)
  PROVE  AcceptInv'
<1> DEFINE q == wire[s]
           a == Answer(q, rows')
<1>1. q \in Request /\ q.site = s /\ q.events \subseteq db[s] /\ q.type = "request"
  BY WireTyped DEF HomeExchange, FleetInv, NetInv
<1>2. UNCHANGED <<db, outbox, acked, cursor>>
  BY DEF HomeExchange, siteVars, fileVars
<1>3. wire \in [Suitcases -> {NoMessage, Failure} \cup Request \cup Response]
  BY DEF FleetInv, FleetTypeOK
<1>4. CASE Accepts(q)
  <2>1. Ingest(q) /\ wire' = [wire EXCEPT ![s] = a]
    BY <1>4 DEF HomeExchange
  <2>2. Ascending(rows')
    BY <1>1, <2>1, IngestAscends DEF AcceptInv
  <2>3. FleetInv' /\ HomeLast(s)' \in Nat /\ HomeLast(s)' >= HomeLast(s)
    BY HomeExchangeInv
  <2>4. rows' \in Seq(Event) /\ \A o \in Sites : Numbered(RangeOf(rows'), o)
    BY <2>3 DEF FleetInv, FleetTypeOK, RowsInv
  <2>5. Continues(a, q.cursors)
    BY <1>1, <2>2, <2>4, AnswerContinues
  <2>6. a.type = "response" /\ a.accepted = HomeLast(s)'
    BY <1>1 DEF Answer, HomeLast
  <2>7. q.cursors = cursor[s]
    BY <1>1 DEF AcceptInv, WireOK
  <2>8. acked[s] \in Nat /\ acked[s] =< HomeLast(s) /\ HomeLast(s) \in Nat
    BY RowBounds DEF FleetInv, FleetTypeOK, FileInv, Sites
  <2> HIDE DEF a, q
  <2>9. wire'[s] = a /\ \A x \in Suitcases \ {s} : wire'[x] = wire[x]
    BY <1>3, <2>1
  <2>10. acked'[s] =< a.accepted /\ Continues(a, cursor'[s])
    BY <1>2, <2>3, <2>5, <2>6, <2>7, <2>8
  <2>11. WireOK(s)'
    BY <2>6, <2>9, <2>10 DEF WireOK, Continues
  <2> QED
    BY <1>2, <2>2, <2>9, <2>11, QuietAccept
<1>5. CASE ~ Accepts(q)
  <2>1. wire' = [wire EXCEPT ![s] = Failure] /\ UNCHANGED rows
    BY <1>5 DEF HomeExchange
  <2>2. \A x \in Suitcases : wire'[x] = wire[x] \/ wire'[x].type \notin {"request", "response"}
    BY <1>3, <2>1 DEF Failure
  <2> QED
    BY <1>2, <2>1, <2>2, QuietAccept DEF AcceptInv
<1> QED
  BY <1>4, <1>5

(* A request carries the cursors of its suitcase. *)
LEMMA SendExchangeAccept ==
  ASSUME FleetInv, AcceptInv, NEW s \in Suitcases, SendExchange(s)
  PROVE  AcceptInv'
<1>1. wire \in [Suitcases -> {NoMessage, Failure} \cup Request \cup Response]
  BY DEF FleetInv, FleetTypeOK
<1> DEFINE q == [type |-> "request", site |-> s, events |-> Batch(s), cursors |-> cursor[s],
                 manual |-> pass[s].manual]
<1>2. wire' = [wire EXCEPT ![s] = q] /\ UNCHANGED <<rows, db, outbox, acked, cursor>>
  BY DEF SendExchange, homeVars, siteVars, fileVars
<1>3. q.type = "request" /\ q.cursors = cursor[s]
  OBVIOUS
<1> HIDE DEF q
<1>4. wire'[s] = q /\ \A x \in Suitcases \ {s} : wire'[x] = wire[x]
  BY <1>1, <1>2
<1>5. WireOK(s)'
  BY <1>2, <1>3, <1>4 DEF WireOK
<1> QED
  BY <1>2, <1>4, <1>5, QuietAccept DEF AcceptInv

(* The outbox keeps continuing the acknowledgement when the log grows and  *)
(* is copied.                                                              *)
LEMMA LogStepAccept ==
  ASSUME FleetInv, FleetInv', AcceptInv, NEW s \in Suitcases,
         \/ LocalWrites(s) \/ Acknowledge(s) \/ \E manual \in BOOLEAN : BeginPass(s, manual)
  PROVE  AcceptInv'
<1>1. /\ db \in [Suitcases -> SUBSET Event] /\ outbox \in [Suitcases -> SUBSET Event]
      /\ acked[s] \in Nat /\ outbox[s] \subseteq db[s] /\ db'[s] \subseteq Event
  BY DEF FleetInv, FleetTypeOK, FileInv
<1>2. /\ LastSeq(db[s], s) \in Nat /\ \A e \in db[s] : e.seq \in 1 .. LastSeq(db[s], s)
  BY LogLastNat DEF FleetInv
<1>3. UNCHANGED <<rows, acked, cursor, wire>>
  BY DEF LocalWrites, Acknowledge, BeginPass, homeVars, fileVars, netVars
<1> DEFINE batch == {e \in db'[s] : acked[s] < e.seq /\ e.seq =< acked[s] + BatchLimit}
<1>4. UNCHANGED outbox \/ outbox' = [outbox EXCEPT ![s] = @ \cup batch]
  <2>1. CASE LocalWrites(s)
    BY <2>1 DEF LocalWrites, fileVars
  <2>2. CASE Acknowledge(s)
    BY <2>2 DEF Acknowledge, Enqueue
  <2>3. ASSUME NEW manual \in BOOLEAN, BeginPass(s, manual)
        PROVE  outbox' = [outbox EXCEPT ![s] = @ \cup batch]
    BY <2>3 DEF BeginPass, Enqueue
  <2> QED
    BY <2>1, <2>2, <2>3
<1>5. \E F : /\ db' = [db EXCEPT ![s] = @ \cup F]
             /\ \A e \in F : e.seq > LastSeq(db[s], s)
  <2>1. NewEvent(s, LocalNext(s), "plain").seq = LocalNext(s)
        /\ NewEvent(s, LocalNext(s), "data").seq = LocalNext(s) /\ LocalNext(s) > LastSeq(db[s], s)
    BY <1>2 DEF NewEvent, LocalNext
  <2>2. CASE LocalWrites(s)
    <3> DEFINE F == {NewEvent(s, LocalNext(s), "plain")}
    <3>1. db' = [db EXCEPT ![s] = @ \cup F] /\ \A e \in F : e.seq > LastSeq(db[s], s)
      BY <2>1, <2>2 DEF LocalWrites
    <3> HIDE DEF F
    <3> QED
      BY <3>1
  <2>3. CASE Acknowledge(s)
    <3>1. PICK requests \in OrderedListings(Unanswered(s)) :
            db' = [db EXCEPT ![s] = @ \cup Answers(s, requests)]
      BY <2>3 DEF Acknowledge
    <3>2. DOMAIN requests = 1 .. Cardinality(Unanswered(s))
      BY DEF OrderedListings, Listings
    <3>3. ASSUME NEW e \in Answers(s, requests)
          PROVE  e.seq > LastSeq(db[s], s)
      <4>1. PICK i \in DOMAIN requests :
              e = [NewEvent(s, LastSeq(db[s], s) + i, "ack") EXCEPT !.re = requests[i].seq]
        BY DEF Answers
      <4>2. e.seq = LastSeq(db[s], s) + i
        BY <4>1 DEF NewEvent
      <4>3. i \in Int /\ i >= 1
        BY <3>2
      <4> QED
        BY <1>2, <4>2, <4>3
    <3> QED
      BY <3>1, <3>3
  <2>4. ASSUME NEW manual \in BOOLEAN, BeginPass(s, manual)
        PROVE  \E F : /\ db' = [db EXCEPT ![s] = @ \cup F]
                      /\ \A e \in F : e.seq > LastSeq(db[s], s)
    <3>1. PICK captured \in {{}, {NewEvent(s, LocalNext(s), "data")}} :
            db' = [db EXCEPT ![s] = @ \cup captured]
      BY <2>4 DEF BeginPass
    <3>2. \A e \in captured : e.seq > LastSeq(db[s], s)
      BY <2>1, <3>1
    <3> QED
      BY <3>1, <3>2
  <2> QED
    BY <2>2, <2>3, <2>4
<1>6. PICK F : db' = [db EXCEPT ![s] = @ \cup F] /\ \A e \in F : e.seq > LastSeq(db[s], s)
  BY <1>5
<1>7. OutboxOK(s)'
  <2> SUFFICES ASSUME NEW e \in outbox'[s]
               PROVE  /\ acked[s] < e.seq
                      /\ \A f \in db'[s] : acked[s] < f.seq /\ f.seq =< e.seq => f \in outbox'[s]
    BY <1>3 DEF OutboxOK
  <2>1. db'[s] = db[s] \cup F /\ (outbox'[s] = outbox[s] \/ outbox'[s] = outbox[s] \cup batch)
    BY <1>1, <1>4, <1>6
  <2>2. \A f \in db'[s] : f.seq \in Nat
    BY <1>1, EventFields
  <2>3. CASE e \in outbox[s]
    <3>1. /\ acked[s] < e.seq
          /\ \A f \in db[s] : acked[s] < f.seq /\ f.seq =< e.seq => f \in outbox[s]
      BY <2>3 DEF AcceptInv, OutboxOK
    <3>2. \A f \in F : ~ (f.seq =< e.seq)
      BY <1>1, <1>2, <1>6, <2>1, <2>2, <2>3
    <3> QED
      BY <2>1, <3>1, <3>2
  <2>4. CASE e \notin outbox[s]
    <3>1. e \in db'[s] /\ acked[s] < e.seq /\ e.seq =< acked[s] + BatchLimit
          /\ outbox'[s] = outbox[s] \cup batch
      BY <2>1, <2>4
    <3>2. ASSUME NEW f \in db'[s], acked[s] < f.seq, f.seq =< e.seq
          PROVE  f \in batch
      BY <1>1, <2>2, <3>1, <3>2, FleetAssumption
    <3> HIDE DEF batch
    <3> QED
      BY <3>1, <3>2
  <2> QED
    BY <2>3, <2>4
<1>8. ASSUME NEW x \in Suitcases
      PROVE  OutboxOK(x)' /\ WireOK(x)'
  <2>1. OutboxOK(x) /\ WireOK(x)
    BY DEF AcceptInv
  <2>2. WireOK(x)'
    BY <1>3, <2>1 DEF WireOK, Continues
  <2>3. CASE x # s
    <3>1. db'[x] = db[x] /\ outbox'[x] = outbox[x]
      BY <1>1, <1>4, <1>6, <2>3
    <3> QED
      BY <1>3, <2>1, <2>2, <3>1 DEF OutboxOK
  <2> QED
    BY <1>7, <2>2, <2>3
<1> QED
  BY <1>3, <1>8 DEF AcceptInv

(* The outbox is cut where the acknowledgement moves to. *)
LEMMA ReceiveAnswerAccept ==
  ASSUME FleetInv, AcceptInv, NEW s \in Suitcases, ReceiveAnswer(s)
  PROVE  AcceptInv'
<1> DEFINE a == wire[s]
<1>1. /\ outbox \in [Suitcases -> SUBSET Event] /\ acked \in [Suitcases -> Nat]
      /\ cursor \in [Suitcases -> [Sites -> Nat]]
      /\ wire \in [Suitcases -> {NoMessage, Failure} \cup Request \cup Response]
  BY DEF FleetInv, FleetTypeOK
<1>2. /\ a.type = "response"
      /\ outbox' = [outbox EXCEPT ![s] = {e \in @ : e.seq > a.accepted}]
      /\ acked' = [acked EXCEPT ![s] = IF a.accepted > @ THEN a.accepted ELSE @]
      /\ wire' = [wire EXCEPT ![s] = NoMessage]
      /\ UNCHANGED <<rows, db>>
      /\ \E it : cursor' = [cursor EXCEPT ![s] = it]
  BY DEF ReceiveAnswer, homeVars, siteVars
<1>3. a.accepted \in Nat /\ acked[s] =< a.accepted /\ OutboxOK(s)
  BY <1>2, WireTyped DEF FleetInv, Response, AcceptInv, WireOK
<1>4. outbox'[s] = {e \in outbox[s] : e.seq > a.accepted} /\ acked'[s] = a.accepted
  <2>1. outbox'[s] = {e \in outbox[s] : e.seq > a.accepted}
    BY <1>1, <1>2
  <2> DEFINE n == a.accepted
  <2>2. n \in Nat /\ acked[s] \in Nat /\ acked[s] =< n
    BY <1>1, <1>3
  <2>3. acked'[s] = IF n > acked[s] THEN n ELSE acked[s]
    BY <1>1, <1>2
  <2> HIDE DEF n
  <2>4. acked'[s] = n
    BY <2>2, <2>3
  <2> QED
    BY <2>1, <2>4 DEF n
<1>5. OutboxOK(s)'
  <2> SUFFICES ASSUME NEW e \in outbox'[s]
               PROVE  /\ a.accepted < e.seq
                      /\ \A f \in db[s] : a.accepted < f.seq /\ f.seq =< e.seq => f \in outbox'[s]
    BY <1>2, <1>4 DEF OutboxOK
  <2>1. e \in outbox[s] /\ e.seq > a.accepted
    BY <1>4
  <2>2. \A f \in db[s] : f.seq \in Nat
    BY EventFields DEF FleetInv, FleetTypeOK
  <2>3. e.seq \in Nat
    BY <1>1, <2>1, EventFields
  <2>4. ASSUME NEW f \in db[s], a.accepted < f.seq, f.seq =< e.seq
        PROVE  f \in outbox'[s]
    <3>1. acked[s] < f.seq /\ f.seq > a.accepted
      BY <1>1, <1>3, <2>2, <2>4
    <3>2. f \in outbox[s]
      BY <1>3, <2>1, <2>4, <3>1 DEF OutboxOK
    <3> QED
      BY <1>4, <3>1, <3>2
  <2> QED
    BY <1>3, <2>1, <2>3, <2>4
<1>6. WireOK(s)'
  BY <1>1, <1>2 DEF WireOK, NoMessage
<1>7. ASSUME NEW x \in Suitcases, x # s
      PROVE  OutboxOK(x)' /\ WireOK(x)'
  <2>1. OutboxOK(x) /\ WireOK(x)
    BY DEF AcceptInv
  <2>2. /\ outbox'[x] = outbox[x] /\ acked'[x] = acked[x] /\ cursor'[x] = cursor[x]
        /\ wire'[x] = wire[x] /\ db'[x] = db[x]
    BY <1>1, <1>2, <1>7
  <2> QED
    BY <2>1, <2>2 DEF OutboxOK, WireOK, Continues
<1>8. Ascending(rows')
  BY <1>2 DEF AcceptInv
<1> QED
  BY <1>5, <1>6, <1>7, <1>8 DEF AcceptInv

(* Nothing is written or on its way. *)
LEMMA AcceptInit == FleetInit => AcceptInv
<1> SUFFICES ASSUME FleetInit
             PROVE  AcceptInv
  OBVIOUS
<1>1. Ascending(rows)
  BY DEF FleetInit, Ascending
<1>2. ASSUME NEW s \in Suitcases
      PROVE  OutboxOK(s) /\ WireOK(s)
  <2>1. outbox[s] = {} /\ wire[s] = NoMessage
    BY DEF FleetInit
  <2> QED
    BY <2>1 DEF OutboxOK, WireOK, NoMessage
<1> QED
  BY <1>1, <1>2 DEF AcceptInv

(* Every step of the fleet. *)
LEMMA AcceptStep == FleetInv /\ FleetInv' /\ AcceptInv /\ ~ SameInstant /\ [FleetNext]_vars => AcceptInv'
<1> SUFFICES ASSUME FleetInv, FleetInv', AcceptInv, ~ SameInstant, [FleetNext]_vars
             PROVE  AcceptInv'
  OBVIOUS
<1>1. CASE UNCHANGED vars
  <2>1. UNCHANGED <<rows, db, outbox, acked, cursor, wire>>
    BY <1>1 DEF vars, homeVars, siteVars, fileVars, netVars
  <2> QED
    BY <2>1, QuietAccept DEF AcceptInv
<1>2. ASSUME NEW s \in Suitcases,
             \/ ReceiveFailure(s) \/ UploadStore(s) \/ UploadForget(s) \/ Project(s)
             \/ MarkProjected(s) \/ FinishPass(s) \/ Interrupted(s)
      PROVE  AcceptInv'
  <2>1. UNCHANGED <<rows, db, outbox, acked, cursor>>
    BY <1>2 DEF ReceiveFailure, UploadStore, UploadForget, Project, MarkProjected, FinishPass,
       Interrupted, homeVars, siteVars, fileVars
  <2>2. UNCHANGED wire \/ wire' = [wire EXCEPT ![s] = NoMessage]
    BY <1>2 DEF ReceiveFailure, UploadStore, UploadForget, Project, MarkProjected, FinishPass,
       Interrupted, netVars
  <2>3. wire \in [Suitcases -> {NoMessage, Failure} \cup Request \cup Response]
    BY DEF FleetInv, FleetTypeOK
  <2>4. \A x \in Suitcases : wire'[x] = wire[x] \/ wire'[x].type \notin {"request", "response"}
    BY <2>2, <2>3 DEF NoMessage
  <2> QED
    BY <2>1, <2>4, QuietAccept DEF AcceptInv
<1>3. ASSUME NEW s \in Suitcases, SuitcaseActs(s)
      PROVE  AcceptInv'
  BY <1>2, <1>3, LogStepAccept, SendExchangeAccept, HomeExchangeAccept, ReceiveAnswerAccept
     DEF SuitcaseActs, PassStep
<1> QED
  BY <1>1, <1>3, HomeActsAccept DEF FleetNext

(* Where the rows of Home differ in their created_at, a suitcase never     *)
(* finds a hole in what Home sends nor an acknowledgement that moved       *)
(* backwards, whatever is deferred, skipped, lost or cut off by the batch  *)
(* limit (outgoingEvents, acceptIncomingEvents).                           *)
THEOREM AnswersAccepted == SameInstant = FALSE => (FleetSpec => []AnswersAreAccepted)
<1> SUFFICES ASSUME ~ SameInstant
             PROVE  FleetSpec => []AnswersAreAccepted
  OBVIOUS
<1>1. FleetInit => FleetInv /\ AcceptInv
  BY InitInv, AcceptInit
<1>2. (FleetInv /\ AcceptInv) /\ [FleetNext]_vars => (FleetInv /\ AcceptInv)'
  BY StepInv, AcceptStep
<1>3. FleetInv /\ AcceptInv => AnswersAreAccepted
  BY ContinuationAccepted DEF AcceptInv, AnswersAreAccepted
<1> QED
  BY <1>1, <1>2, <1>3, PTL DEF FleetSpec
=============================================================================
