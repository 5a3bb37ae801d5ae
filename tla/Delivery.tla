------------------------------ MODULE Delivery ------------------------------
(***************************************************************************)
(* What a reader with a durable position promises of an ordered source:    *)
(* the position only moves forward, and only past entries that were        *)
(* settled (accepted, refused for good, or dropped by a rule), that lie    *)
(* before the point it began at, or that the source itself has discarded.  *)
(* Whatever lies above the position is read again after a restart, so no   *)
(* entry is lost between the source and the collector. A reader may choose *)
(* where to begin only until its first commit.                             *)
(***************************************************************************)
EXTENDS Integers

CONSTANT Newest    \* bound: the newest entry the source reaches

VARIABLES began, committed, settled, expired
deliveryVars == <<began, committed, settled, expired>>

Entries == 1 .. Newest

DeliveryInit ==
  /\ began \in 0 .. Newest /\ committed = 0
  /\ settled \subseteq Entries /\ expired = 0

Begin ==
  /\ committed = 0 /\ began' \in began .. Newest
  /\ UNCHANGED <<committed, settled, expired>>

Settle ==
  /\ settled \subseteq settled' /\ settled' \subseteq Entries
  /\ UNCHANGED <<began, committed, expired>>

Expire ==
  /\ expired' \in expired .. Newest
  /\ UNCHANGED <<began, committed, settled>>

Commit ==
  /\ committed' \in committed .. Newest
  /\ \A e \in Entries : began < e /\ expired < e /\ e <= committed' => e \in settled
  /\ UNCHANGED <<began, settled, expired>>

DeliveryNext == Begin \/ Settle \/ Expire \/ Commit

DeliverySpec == DeliveryInit /\ [][DeliveryNext]_deliveryVars
=============================================================================
