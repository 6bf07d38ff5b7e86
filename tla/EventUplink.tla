----------------------------- MODULE EventUplink -----------------------------
(***************************************************************************)
(* What a suitcase is promised about its own events, whatever the network  *)
(* and its restarts do: of the events it has written, Home holds a prefix, *)
(* and the suitcase lets go of a prefix of what Home holds.  Each of the   *)
(* three marks only moves forward.  FleetSync implements it.               *)
(***************************************************************************)
EXTENDS Naturals

CONSTANT Suitcases

VARIABLES
  written,     \* events a suitcase has written
  durable,     \* of these, held by Home
  released     \* of these, gone from the outbox

marks == <<written, durable, released>>

UplinkInit ==
  /\ written = [s \in Suitcases |-> 0]
  /\ durable = [s \in Suitcases |-> 0]
  /\ released = [s \in Suitcases |-> 0]

(* A suitcase writes some events. *)
Write(s) ==
  /\ written'[s] \in Nat
  /\ written'[s] > written[s]
  /\ written' = [written EXCEPT ![s] = written'[s]]
  /\ UNCHANGED <<durable, released>>

(* Home accepts the next events of a suitcase. *)
Accept(s) ==
  /\ \E n \in (durable[s] + 1) .. written[s] : durable' = [durable EXCEPT ![s] = n]
  /\ UNCHANGED <<written, released>>

(* The suitcase lets go of events Home holds. *)
Release(s) ==
  /\ \E n \in (released[s] + 1) .. durable[s] : released' = [released EXCEPT ![s] = n]
  /\ UNCHANGED <<written, durable>>

UplinkNext == \E s \in Suitcases : Write(s) \/ Accept(s) \/ Release(s)

UplinkSpec == UplinkInit /\ [][UplinkNext]_marks

(* What is written is accepted, what is accepted is released. *)
FairUplinkSpec ==
  /\ UplinkSpec
  /\ \A s \in Suitcases : WF_marks(Accept(s)) /\ WF_marks(Release(s))
=============================================================================
