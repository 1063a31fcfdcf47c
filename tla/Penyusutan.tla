----------------------------- MODULE Penyusutan -----------------------------
(***************************************************************************)
(* Disposal batches: archives are gathered in a draft, and the batch goes  *)
(* through proposal, review, approval and execution, each by somebody new  *)
(* from the review on.  Every transition locks the batch and its archives  *)
(* and checks again that each of them may still be disposed of.            *)
(* Source: services/penyusutan.service.ts, penyusutan-authority.ts         *)
(***************************************************************************)
EXTENDS ArsipRecord

CONSTANT Pelaksana  \* users who work on disposal batches

VARIABLE batch      \* Batches -> the penyusutan_arsip row and its items

\* "penyerahan" batches can no longer be changed.
Jenis == {"pemindahan", "pemusnahan", "alih_media"}
\* pelaku: createdBy, proposedBy, reviewedBy and approvedBy, executedBy.
Batch == [status : {"none", "draft", "proposed", "reviewed", "approved", "executed"},
          jenis : Jenis, isi : SUBSET Arsip, pelaku : SUBSET Pelaksana]

NoBatch == [status |-> "none", jenis |-> "pemusnahan", isi |-> {}, pelaku |-> {}]

BatchInit == batch = [b \in Batches |-> NoBatch]

\* STATUS_FLOW
StatusFlow(status) ==
    CASE status = "draft" -> "proposed"
      [] status = "proposed" -> "reviewed"
      [] status = "reviewed" -> "approved"
      [] status = "approved" -> "executed"

\* Mutant: no entry for a new medium.
DisposalStatusOld(jenis) ==
    CASE jenis = "pemindahan" -> "proposed_pindah"
      [] jenis = "pemusnahan" -> "proposed_musnah"
      [] jenis = "alih_media" -> "alih_media"

\* JENIS_TO_DISPOSAL_STATUS
DisposalStatus(jenis) ==
    CASE jenis = "pemindahan" -> "proposed_pindah"
      [] jenis = "pemusnahan" -> "proposed_musnah"
      [] jenis = "alih_media" -> "proposed_alih_media"

\* getDispositionBlockReason is null
NotBlocked(a, jenis) ==
    /\ jenis = "pemindahan" =>
         /\ ~arsip[a].inaktif
         /\ Verified(a)
         /\ CalculationEligible(a)
         /\ fase[a] \in {"inaktif", "kadaluarsa"}
    /\ jenis = "pemusnahan" =>
         /\ Verified(a)
         /\ EffectiveDisposition(a) = "musnah"
         /\ DispositionEligible(a)

\* assertArsipEligible
ArsipEligible(a, jenis) ==
    /\ arsip[a].status = "active"
    /\ arsip[a].batch = NoClaim
    /\ ~arsip[a].hold
    /\ arsip[a].peristiwa # 0
    /\ arsip[a].aturan # 0
    /\ NotBlocked(a, jenis)

\* Mutant: a hold placed after the archives were chosen is not looked at.
BatchEligibleUnheld(b) ==
    /\ batch[b].isi # {}
    /\ \A a \in batch[b].isi :
         /\ arsip[a].peristiwa # 0
         /\ arsip[a].aturan # 0
         /\ NotBlocked(a, batch[b].jenis)

\* assertBatchRetentionEligible
BatchEligible(b) ==
    /\ batch[b].isi # {}
    /\ \A a \in batch[b].isi :
         /\ ~arsip[a].hold
         /\ arsip[a].peristiwa # 0
         /\ arsip[a].aturan # 0
         /\ NotBlocked(a, batch[b].jenis)

\* The archives S enter b.
Claim(S, b, jenis) ==
    arsip' = [a \in Arsip |->
      IF a \in S THEN [arsip[a] EXCEPT !.status = DisposalStatus(jenis), !.batch = b]
      ELSE arsip[a]]

\* create; assertArchiveIdList wants an archive.
Create(b, u, jenis, S) ==
    /\ batch[b].status = "none"
    /\ S # {}
    /\ \A a \in S : ArsipEligible(a, jenis)
    /\ batch' = [batch EXCEPT ![b] =
         [status |-> "draft", jenis |-> jenis, isi |-> S, pelaku |-> {u}]]
    /\ Claim(S, b, jenis)
    /\ UNCHANGED <<fase, peristiwa, kasus, keputusan>>

\* addItems; penyusutan_items has an archive once in a batch.
AddItems(b, S) ==
    /\ batch[b].status = "draft"
    /\ S # {} /\ S \cap batch[b].isi = {}
    /\ \A a \in S : ArsipEligible(a, batch[b].jenis)
    /\ batch' = [batch EXCEPT ![b].isi = @ \cup S]
    /\ Claim(S, b, batch[b].jenis)
    /\ UNCHANGED <<fase, peristiwa, kasus, keputusan>>

Lepas(r) == [r EXCEPT !.status = "active", !.batch = NoClaim]

\* Mutant: archives taken off a batch stay claimed by it.
TetapDiklaim(S, b) == UNCHANGED arsip

\* The archives of S that b has, given back.
Released(S, b) ==
    arsip' = [a \in Arsip |->
      IF a \in S /\ arsip[a].batch = b THEN Lepas(arsip[a]) ELSE arsip[a]]

\* removeItems
RemoveItems(b, S) ==
    /\ batch[b].status = "draft"
    /\ S # {}
    /\ batch' = [batch EXCEPT ![b].isi = @ \ S]
    /\ Released(S, b)
    /\ UNCHANGED <<fase, peristiwa, kasus, keputusan>>

\* deleteBatch
DeleteBatch(b) ==
    /\ batch[b].status = "draft"
    /\ batch' = [batch EXCEPT ![b] = NoBatch]
    /\ Released(batch[b].isi, b)
    /\ UNCHANGED <<fase, peristiwa, kasus, keputusan>>

\* What execution does to an archive: a move or a new medium ends the claim.
Executed(r, jenis) ==
    CASE jenis = "pemindahan" -> [Lepas(r) EXCEPT !.inaktif = TRUE]
      [] jenis = "alih_media" -> Lepas(r)
      [] jenis = "pemusnahan" -> [r EXCEPT !.status = "executed"]

\* What a transition to status next does to an archive.
Effect(r, jenis, next) ==
    CASE next = "executed" -> Executed(r, jenis)
      [] next = "approved" -> [r EXCEPT !.status = "approved"]
      [] next \in {"proposed", "reviewed"} -> r

\* updateStatus.  Evidence of a destruction that fails its integrity check
\* leaves everything as it was.
UpdateStatus(b, u) ==
    /\ batch[b].status \in {"draft", "proposed", "reviewed", "approved"}
    /\ batch[b].status # "draft" => u \notin batch[b].pelaku
    /\ BatchEligible(b)
    /\ LET next == StatusFlow(batch[b].status)
       IN  /\ batch' = [batch EXCEPT ![b].status = next, ![b].pelaku = @ \cup {u}]
           /\ arsip' = [a \in Arsip |->
                IF a \in batch[b].isi THEN Effect(arsip[a], batch[b].jenis, next)
                ELSE arsip[a]]
    /\ UNCHANGED <<fase, peristiwa, kasus, keputusan>>

BatchStep(b) ==
    \/ \E u \in Pelaksana, jenis \in Jenis, S \in SUBSET Arsip : Create(b, u, jenis, S)
    \/ \E S \in SUBSET Arsip : AddItems(b, S) \/ RemoveItems(b, S)
    \/ DeleteBatch(b)
    \/ \E u \in Pelaksana : UpdateStatus(b, u)

=============================================================================
