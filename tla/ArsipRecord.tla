---------------------------- MODULE ArsipRecord ----------------------------
(***************************************************************************)
(* The record of an archive: its legal hold, the rule snapshot it is kept  *)
(* under, the claim of a disposal batch or transfer manifest on it, and    *)
(* the evaluation of its retention that every disposal asks for.           *)
(* Each operation runs under the row lock of the archive and is one step.  *)
(* Source: services/arsip.service.ts, archive-rule-assignment.service.ts   *)
(***************************************************************************)
EXTENDS Naturals

CONSTANTS
    Arsip,          \* archives
    Batches,        \* penyusutan_arsip rows
    Manifests,      \* permanent_transfer_manifests rows
    NoClaim,        \* disposal_batch_id IS NULL
    Penilai,        \* users who work in retention governance
    NoUser,         \* no user
    Aturan,         \* Arsip -> the kinds of rules the catalogue has for it
    MaxRevisi,      \* bound on the rule snapshots and retention events of an archive
    Usulan,         \* Arsip -> the outcomes proposed for it
    MaxKeputusan    \* bound on the appraisal decisions on an archive

ASSUME ArsipAssumption ==
    /\ Batches \cap Manifests = {}
    /\ NoClaim \notin Batches \cup Manifests
    /\ NoUser \notin Penilai
    /\ Aturan \in [Arsip -> SUBSET {"musnah", "permanen", "dinilai_kembali", "manual"}]
    /\ MaxRevisi \in [Arsip -> Nat]
    /\ Usulan \in [Arsip -> SUBSET {"musnah", "permanen", "dinilai_kembali"}]
    /\ MaxKeputusan \in Nat

VARIABLES
    arsip,          \* Arsip -> the arsip row
    fase,           \* Arsip -> where its retention stands today
    peristiwa,      \* Arsip -> its latest retention event
    kasus,          \* Arsip -> its latest appraisal case
    keputusan       \* Arsip -> its latest approved appraisal decision

recordVars == <<arsip, fase, peristiwa, kasus, keputusan>>

\* A rule: the outcome its item prescribes, with durations, or "manual".
Kode == {"musnah", "permanen", "dinilai_kembali", "manual"}
\* "inaktif" stands for inaktif and akan_kadaluarsa.
Fase == {"aktif", "inaktif", "kadaluarsa"}
Hasil == {"musnah", "permanen", "dinilai_kembali"}

Status == {"active", "proposed_pindah", "proposed_musnah", "proposed_alih_media",
           "proposed_serah", "approved", "executed"}

\* aturan, peristiwa, keputusan: the current rule snapshot (0: provenance not
\* verified), the current verified event and decision (0: NULL).
ArsipRow == [hold : BOOLEAN, status : Status,
             batch : Batches \cup Manifests \cup {NoClaim},
             inaktif : BOOLEAN, aturan : Nat, kode : Kode,
             peristiwa : Nat, keputusan : Nat]
Peristiwa == [revisi : Nat, aktor : Penilai \cup {NoUser},
              verdict : {"none", "verified", "rejected"},
              verifikator : Penilai \cup {NoUser}]
\* aturan, peristiwa: what the submission snapshot froze.  Nothing is kept of
\* a closed case but its decision.
Kasus == [status : {"none", "open", "in_review", "approved", "rejected"},
          penilai : Penilai \cup {NoUser}, usulan : Hasil, bukti : BOOLEAN,
          aturan : Nat, peristiwa : Nat]
Keputusan == [nomor : Nat, hasil : Hasil, aturan : Nat, peristiwa : Nat]

NoPeristiwa == [revisi |-> 0, aktor |-> NoUser, verdict |-> "none", verifikator |-> NoUser]
NoKasus == [status |-> "none", penilai |-> NoUser, usulan |-> "musnah", bukti |-> FALSE,
            aturan |-> 0, peristiwa |-> 0]
NoKeputusan == [nomor |-> 0, hasil |-> "musnah", aturan |-> 0, peristiwa |-> 0]

\* A registered archive, with a verified rule snapshot or an old one without.
Terdaftar(aturan, kode) ==
    [hold |-> FALSE, status |-> "active", batch |-> NoClaim, inaktif |-> FALSE,
     aturan |-> aturan, kode |-> kode, peristiwa |-> 0, keputusan |-> 0]

RecordInit ==
    /\ arsip \in [Arsip -> {Terdaftar(n, k) : n \in {0, 1}, k \in Kode}]
    /\ \A a \in Arsip : arsip[a].kode \in Aturan[a]
    /\ fase = [a \in Arsip |-> "aktif"]
    /\ peristiwa = [a \in Arsip |-> NoPeristiwa]
    /\ kasus = [a \in Arsip |-> NoKasus]
    /\ keputusan = [a \in Arsip |-> NoKeputusan]

(***************************************************************************)
(* evaluateCanonicalRetention.                                             *)
(***************************************************************************)

\* The current event is the latest revision, verified by someone else.
PemicuSah(a) ==
    /\ arsip[a].peristiwa # 0
    /\ arsip[a].peristiwa = peristiwa[a].revisi
    /\ peristiwa[a].verdict = "verified"
    /\ peristiwa[a].verifikator # peristiwa[a].aktor

\* The current decision is the approved one on the current rule and event.
KeputusanBerlaku(a) ==
    /\ arsip[a].keputusan = keputusan[a].nomor
    /\ keputusan[a].aturan = arsip[a].aturan
    /\ keputusan[a].peristiwa = arsip[a].peristiwa

Verified(a) ==
    /\ arsip[a].aturan # 0
    /\ PemicuSah(a)
    /\ arsip[a].keputusan # 0 => KeputusanBerlaku(a)

CalculationEligible(a) == arsip[a].kode # "manual"

RequiresHumanAppraisal(a) == arsip[a].kode \in {"dinilai_kembali", "manual"}

EffectiveDisposition(a) ==
    CASE arsip[a].keputusan # 0 -> keputusan[a].hasil
      [] arsip[a].keputusan = 0 /\ RequiresHumanAppraisal(a) -> "none"
      [] arsip[a].keputusan = 0 /\ ~RequiresHumanAppraisal(a) -> arsip[a].kode

ActiveAppraisal(a) == kasus[a].status \in {"open", "in_review"}

\* Mutant: an appraisal under way is not looked at.
EligibleMidAppraisal(a) ==
    /\ EffectiveDisposition(a) \in {"musnah", "permanen"}
    /\ CalculationEligible(a) => fase[a] = "kadaluarsa"

DispositionEligible(a) ==
    /\ EffectiveDisposition(a) \in {"musnah", "permanen"}
    /\ CalculationEligible(a) => fase[a] = "kadaluarsa"
    /\ ~ActiveAppraisal(a)

(***************************************************************************)
(* Operations on the record alone.                                         *)
(***************************************************************************)

\* The bound: one more rule snapshot or retention event.
MasihRevisi(a) == arsip[a].aturan + peristiwa[a].revisi < MaxRevisi[a]

\* Mutant: the legal hold is not looked at.
TidakDiklaim(a) == arsip[a].status = "active" /\ arsip[a].batch = NoClaim

\* Mutant: only a completed disposal keeps rule, event and decision as they are.
BelumSelesai(a) == ~arsip[a].hold /\ arsip[a].status # "executed"

\* The check of every operation that would change what a disposal rests on:
\* no legal hold, and no batch or manifest has the archive.
Tersedia(a) ==
    /\ ~arsip[a].hold
    /\ arsip[a].status = "active"
    /\ arsip[a].batch = NoClaim

PlaceLegalHold(a) ==
    /\ ~arsip[a].hold
    /\ arsip[a].status # "executed"
    /\ arsip' = [arsip EXCEPT ![a].hold = TRUE]
    /\ UNCHANGED <<fase, peristiwa, kasus, keputusan>>

ReleaseLegalHold(a) ==
    /\ arsip[a].hold
    /\ arsip' = [arsip EXCEPT ![a].hold = FALSE]
    /\ UNCHANGED <<fase, peristiwa, kasus, keputusan>>

\* Mutant: a new rule leaves the decision that was taken on the old one.
RevisiSaja(r, kode) == [r EXCEPT !.aturan = @ + 1, !.kode = kode]

\* appendRevision: a new snapshot, and no decision any more.
AppendRevision(r, kode) ==
    [r EXCEPT !.aturan = @ + 1, !.kode = kode, !.keputusan = 0]

\* reconcileRules; the new durations put the retention anywhere.
ReconcileRules(a, kode, f) ==
    /\ Tersedia(a)
    /\ ~ActiveAppraisal(a)
    /\ MasihRevisi(a)
    /\ arsip' = [arsip EXCEPT ![a] = AppendRevision(@, kode)]
    /\ fase' = [fase EXCEPT ![a] = IF arsip[a].peristiwa = 0 THEN @ ELSE f]
    /\ UNCHANGED <<peristiwa, kasus, keputusan>>

\* Time passes: getArchiveStatus of a calculable retention moves on.
Berjalan(a, f) ==
    /\ arsip[a].peristiwa # 0
    /\ \/ fase[a] = "aktif" /\ f \in {"inaktif", "kadaluarsa"}
       \/ fase[a] = "inaktif" /\ f = "kadaluarsa"
    /\ fase' = [fase EXCEPT ![a] = f]
    /\ UNCHANGED <<arsip, peristiwa, kasus, keputusan>>

RecordStep(a) ==
    \/ PlaceLegalHold(a) \/ ReleaseLegalHold(a)
    \/ \E kode \in Aturan[a], f \in Fase : ReconcileRules(a, kode, f)
    \/ \E f \in Fase : Berjalan(a, f)

=============================================================================
