------------------------- MODULE ArchiveDisposition -------------------------
(***************************************************************************)
(* The composition of the archive record, retention governance, disposal   *)
(* batches and transfer manifests.  They meet in the arsip row: each of    *)
(* them locks it, so every operation is one step, and operations of        *)
(* different services interleave in every order.                           *)
(***************************************************************************)
EXTENDS RetentionAppraisal, Penyusutan, PermanentTransfer, FiniteSets

vars == <<arsip, fase, peristiwa, kasus, keputusan, batch, manifes>>

Init == RecordInit /\ BatchInit /\ ManifestInit

Next ==
    \/ \E a \in Arsip : RecordStep(a) /\ UNCHANGED <<batch, manifes>>
    \/ \E a \in Arsip, u \in Penilai : AppraisalStep(a, u) /\ UNCHANGED <<batch, manifes>>
    \/ \E b \in Batches : BatchStep(b) /\ UNCHANGED manifes
    \/ \E m \in Manifests : ManifestStep(m) /\ UNCHANGED batch

Spec == Init /\ [][Next]_vars

-----------------------------------------------------------------------------

\* Types of the variables.
TypeOK ==
    /\ arsip \in [Arsip -> ArsipRow]
    /\ fase \in [Arsip -> Fase]
    /\ peristiwa \in [Arsip -> Peristiwa]
    /\ kasus \in [Arsip -> Kasus]
    /\ keputusan \in [Arsip -> Keputusan]
    /\ batch \in [Batches -> Batch]
    /\ manifes \in [Manifests -> Manifes]

\* The status of an archive in batch b, as the progress of b has it.
BatchStatus(b) ==
    CASE batch[b].status \in {"draft", "proposed", "reviewed"} -> DisposalStatus(batch[b].jenis)
      [] batch[b].status = "approved" -> "approved"
      [] batch[b].status = "executed" -> "executed"
      [] batch[b].status = "none" -> "none"

\* b still has, or has destroyed, its archives.
BatchHolds(b) == batch[b].status = "executed" => batch[b].jenis = "pemusnahan"

ManifestHolds(m) == manifes[m].batal # "approved"

\* An archive says it is claimed by a batch or a manifest exactly when that
\* one lists it and has not given it back, and its status says how far that
\* one has come: whatever the order of claims, removals, cancellations and
\* executions, no two of them have the same archive and none is left claimed
\* by nobody.
SatuKlaim ==
    /\ \A a \in Arsip : arsip[a].batch = NoClaim <=> arsip[a].status = "active"
    /\ \A a \in Arsip, b \in Batches :
         /\ arsip[a].batch = b => a \in batch[b].isi /\ BatchHolds(b)
         /\ a \in batch[b].isi /\ BatchHolds(b) =>
              arsip[a].batch = b /\ arsip[a].status = BatchStatus(b)
    /\ \A a \in Arsip, m \in Manifests :
         /\ arsip[a].batch = m => a \in Items(m) /\ ManifestHolds(m)
         /\ a \in Items(m) /\ ManifestHolds(m) =>
              /\ arsip[a].batch = m
              /\ arsip[a].status =
                   IF manifes[m].terima = NoUser THEN "proposed_serah" ELSE "executed"

\* The decision in force was taken on the rule and the event in force, and
\* that event is the latest one, verified by somebody who did not record it:
\* corrections, new rules and new appraisals in any order never leave a
\* decision in force that was taken about something else.
KeputusanSegar ==
    \A a \in Arsip :
      /\ arsip[a].peristiwa # 0 => PemicuSah(a)
      /\ arsip[a].keputusan # 0 => KeputusanBerlaku(a) /\ arsip[a].peristiwa # 0

\* An archive is gone only with a right to it that still stands: the outcome
\* in force is the one it met, its time was over, no appraisal was under way
\* and no hold was on it, and four people or two took part.
DisposisiSah ==
    \A a \in Arsip : arsip[a].status = "executed" =>
      /\ ~arsip[a].hold
      /\ Verified(a)
      /\ CalculationEligible(a) => fase[a] = "kadaluarsa"
      /\ ~ActiveAppraisal(a)
      /\ IF arsip[a].batch \in Batches
         THEN /\ EffectiveDisposition(a) = "musnah"
              /\ Cardinality(batch[arsip[a].batch].pelaku) >= 4
         ELSE /\ EffectiveDisposition(a) = "permanen"
              /\ manifes[arsip[a].batch].serah # manifes[arsip[a].batch].terima

\* A legal hold freezes: while it is on an archive its rule, event and
\* decision stay, no batch or manifest that has it gets any further, and it
\* only leaves its claim to be free again.
HoldFreezesStep ==
    \A a \in Arsip : arsip[a].hold /\ arsip'[a].hold =>
      /\ arsip'[a].aturan = arsip[a].aturan
      /\ arsip'[a].peristiwa = arsip[a].peristiwa
      /\ arsip'[a].keputusan = arsip[a].keputusan
      /\ \/ arsip'[a].status = arsip[a].status /\ arsip'[a].batch = arsip[a].batch
         \/ arsip'[a].status = "active" /\ arsip'[a].inaktif = arsip[a].inaktif
      /\ \A b \in Batches : arsip[a].batch = b => batch'[b].status \in {batch[b].status, "none"}
      /\ \A m \in Manifests : arsip[a].batch = m =>
           manifes'[m].serah = manifes[m].serah /\ manifes'[m].terima = manifes[m].terima
HoldFreezes == [][HoldFreezesStep]_vars

\* What was checked of an archive when it was claimed stays true while it is
\* claimed: a batch under way and a manifest not yet acknowledged can go on as
\* soon as no legal hold is on their archives, since nothing else that rules,
\* events, appraisals and the calendar do can stop them.
HoldSajaMenahan ==
    /\ \A b \in Batches :
         /\ batch[b].status \in {"draft", "proposed", "reviewed", "approved"} =>
              \A a \in batch[b].isi :
                /\ arsip[a].peristiwa # 0 /\ arsip[a].aturan # 0
                /\ NotBlocked(a, batch[b].jenis)
         /\ batch[b].status \in {"proposed", "reviewed", "approved"} => batch[b].isi # {}
    /\ \A m \in Manifests :
         manifes[m].terima = NoUser /\ ManifestHolds(m) =>
           \A a \in Items(m) : PermanentContext(a, manifes[m].isi[a])

\* The batches and manifests implement the life of an archive as
\* ArchiveLifecycle has it.
Nasib(r) ==
    CASE r.status = "active" -> "free"
      [] r.status = "executed" -> "disposed"
      [] r.status \notin {"active", "executed"} -> "claimed"

Life == INSTANCE ArchiveLifecycle WITH
          Claims <- Batches \cup Manifests,
          nasib <- [a \in Arsip |-> Nasib(arsip[a])],
          klaim <- [a \in Arsip |-> arsip[a].batch],
          hold <- [a \in Arsip |-> arsip[a].hold]

\* No interleaving of the services does anything else to an archive than
\* claim it as a whole, give it back, or dispose of everything claimed
\* together, and never under a hold.
LifecycleRefined == Life!LifeSpec

=============================================================================
