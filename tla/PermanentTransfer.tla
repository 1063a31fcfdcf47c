------------------------- MODULE PermanentTransfer -------------------------
(***************************************************************************)
(* Transfer of permanent archives.  A manifest claims its archives, is     *)
(* handed over and acknowledged by two people, or is cancelled on a        *)
(* request that somebody else reviews.  All operations lock the manifest   *)
(* and then its archives.  Which cancelled manifest a new one replaces is  *)
(* left out.                                                               *)
(* Source: services/retention-governance.service.ts and the triggers of    *)
(* db/migrations/0020_permanent_transfer_lifecycle.sql                     *)
(***************************************************************************)
EXTENDS ArsipRecord

VARIABLE manifes        \* Manifests -> the manifest, its items, events and requests

\* isi: the archives, each with the decision its item rests on (0: no item).
\* serah, terima: who recorded handover and acknowledgement.  batal: the
\* latest cancellation request, by pemohon.
Manifes == [ada : BOOLEAN, isi : [Arsip -> Nat],
            serah : Penilai \cup {NoUser}, terima : Penilai \cup {NoUser},
            batal : {"none", "pending", "approved", "rejected"},
            pemohon : Penilai \cup {NoUser}]

NoManifes == [ada |-> FALSE, isi |-> [a \in Arsip |-> 0], serah |-> NoUser,
              terima |-> NoUser, batal |-> "none", pemohon |-> NoUser]

ManifestInit == manifes = [m \in Manifests |-> NoManifes]

Items(m) == {a \in Arsip : manifes[m].isi[a] # 0}

\* assertCurrentPermanentArchiveContext, for the decision d of an item.
PermanentContext(a, d) ==
    /\ arsip[a].keputusan # 0
    /\ arsip[a].keputusan = d
    /\ keputusan[a].hasil = "permanen"
    /\ Verified(a)
    /\ DispositionEligible(a)
    /\ EffectiveDisposition(a) = "permanen"

\* lockAndAssertManifestItems
ItemsCurrent(m) ==
    \A a \in Items(m) :
      /\ ~arsip[a].hold
      /\ arsip[a].status = "proposed_serah"
      /\ arsip[a].batch = m
      /\ PermanentContext(a, manifes[m].isi[a])

\* What a cancellation asks of the items.
ItemsReserved(m) ==
    /\ Items(m) # {}
    /\ \A a \in Items(m) : arsip[a].status = "proposed_serah" /\ arsip[a].batch = m

\* createPermanentTransferManifest
CreateManifest(m, S) ==
    /\ ~manifes[m].ada
    /\ S # {}
    /\ \A a \in S : Tersedia(a) /\ PermanentContext(a, arsip[a].keputusan)
    /\ manifes' = [manifes EXCEPT ![m] =
         [NoManifes EXCEPT !.ada = TRUE,
            !.isi = [a \in Arsip |-> IF a \in S THEN arsip[a].keputusan ELSE 0]]]
    /\ arsip' = [a \in Arsip |->
         IF a \in S THEN [arsip[a] EXCEPT !.status = "proposed_serah", !.batch = m]
         ELSE arsip[a]]
    /\ UNCHANGED <<fase, peristiwa, kasus, keputusan>>

\* A request for cancellation that is pending or approved blocks the events.
NotCancelling(m) == manifes[m].batal \notin {"pending", "approved"}

\* recordPermanentTransferEvent, handover.
Handover(m, u) ==
    /\ manifes[m].ada
    /\ NotCancelling(m)
    /\ manifes[m].serah = NoUser
    /\ ItemsCurrent(m)
    /\ manifes' = [manifes EXCEPT ![m].serah = u]
    /\ UNCHANGED recordVars

\* recordPermanentTransferEvent, acknowledgement, with the trigger
\* finalize_permanent_transfer_acknowledgement.
Acknowledge(m, u) ==
    /\ NotCancelling(m)
    /\ manifes[m].serah \notin {NoUser, u}
    /\ manifes[m].terima = NoUser
    /\ ItemsCurrent(m)
    /\ manifes' = [manifes EXCEPT ![m].terima = u]
    /\ arsip' = [a \in Arsip |->
         IF a \in Items(m) THEN [arsip[a] EXCEPT !.status = "executed"] ELSE arsip[a]]
    /\ UNCHANGED <<fase, peristiwa, kasus, keputusan>>

\* requestPermanentTransferCancellation, under a hold too.
RequestCancellation(m, u) ==
    /\ manifes[m].ada
    /\ manifes[m].serah = NoUser
    /\ NotCancelling(m)
    /\ ItemsReserved(m)
    /\ manifes' = [manifes EXCEPT ![m].batal = "pending", ![m].pemohon = u]
    /\ UNCHANGED recordVars

\* reviewPermanentTransferCancellation is asked of a pending request on a
\* manifest without events.
Reviewable(m) == manifes[m].batal = "pending" /\ manifes[m].serah = NoUser

\* reviewPermanentTransferCancellation, with the trigger
\* release_permanent_transfer_reservations.
ReviewCancellation(m, u, verdict) ==
    /\ Reviewable(m)
    /\ manifes[m].pemohon # u
    /\ ItemsReserved(m)
    /\ manifes' = [manifes EXCEPT ![m].batal = verdict]
    /\ arsip' = [a \in Arsip |->
         IF verdict = "approved" /\ a \in Items(m)
         THEN [arsip[a] EXCEPT !.status = "active", !.batch = NoClaim]
         ELSE arsip[a]]
    /\ UNCHANGED <<fase, peristiwa, kasus, keputusan>>

ManifestStep(m) ==
    \/ \E S \in SUBSET Arsip : CreateManifest(m, S)
    \/ \E u \in Penilai :
         \/ Handover(m, u) \/ Acknowledge(m, u) \/ RequestCancellation(m, u)
         \/ \E verdict \in {"approved", "rejected"} : ReviewCancellation(m, u, verdict)

=============================================================================
