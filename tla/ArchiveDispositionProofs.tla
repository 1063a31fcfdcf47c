---------------------- MODULE ArchiveDispositionProofs ----------------------
(***************************************************************************)
(* Proofs about the disposal of archives, for any archives, batches,       *)
(* manifests, people and rules.                                            *)
(***************************************************************************)
EXTENDS ArchiveDisposition, FiniteSetTheorems, TLAPS

\* The parts of the invariants that speak of one archive, batch or manifest.
Bebas(a) == arsip[a].batch = NoClaim <=> arsip[a].status = "active"

DiBatch(a, b) ==
    /\ arsip[a].batch = b => a \in batch[b].isi /\ BatchHolds(b)
    /\ a \in batch[b].isi /\ BatchHolds(b) =>
         arsip[a].batch = b /\ arsip[a].status = BatchStatus(b)

DiManifes(a, m) ==
    /\ arsip[a].batch = m => a \in Items(m) /\ ManifestHolds(m)
    /\ a \in Items(m) /\ ManifestHolds(m) =>
         /\ arsip[a].batch = m
         /\ arsip[a].status = IF manifes[m].terima = NoUser THEN "proposed_serah" ELSE "executed"

LEMMA SatuKlaimParts ==
    SatuKlaim <=> /\ \A a \in Arsip : Bebas(a)
                  /\ \A a \in Arsip, b \in Batches : DiBatch(a, b)
                  /\ \A a \in Arsip, m \in Manifests : DiManifes(a, m)
BY DEF SatuKlaim, Bebas, DiBatch, DiManifes

Segar(a) ==
    /\ arsip[a].peristiwa # 0 => PemicuSah(a)
    /\ arsip[a].keputusan # 0 => KeputusanBerlaku(a) /\ arsip[a].peristiwa # 0

\* A disposal that stands, without the people who took part in it.
Sah(a) ==
    arsip[a].status = "executed" =>
      /\ ~arsip[a].hold
      /\ Verified(a)
      /\ CalculationEligible(a) => fase[a] = "kadaluarsa"
      /\ ~ActiveAppraisal(a)
      /\ EffectiveDisposition(a) = IF arsip[a].batch \in Batches THEN "musnah" ELSE "permanen"

\* How many people it took to bring a batch where it is.
Pelaku(b) ==
    /\ IsFiniteSet(batch[b].pelaku)
    /\ batch[b].status \in {"draft", "proposed"} => Cardinality(batch[b].pelaku) >= 1
    /\ batch[b].status = "reviewed" => Cardinality(batch[b].pelaku) >= 2
    /\ batch[b].status = "approved" => Cardinality(batch[b].pelaku) >= 3
    /\ batch[b].status = "executed" => Cardinality(batch[b].pelaku) >= 4

DuaOrang(m) ==
    /\ ~manifes[m].ada => manifes[m] = NoManifes
    /\ manifes[m].terima # NoUser =>
         manifes[m].serah # NoUser /\ manifes[m].serah # manifes[m].terima

\* Who claims and who took part, over batches and manifests.
KlaimInv ==
    /\ SatuKlaim
    /\ \A b \in Batches : Pelaku(b)
    /\ \A m \in Manifests : DuaOrang(m)

\* The inductive invariant.
DispInv ==
    /\ TypeOK
    /\ KlaimInv
    /\ \A a \in Arsip : Segar(a) /\ Sah(a)

(***************************************************************************)
(* Types of rows.                                                          *)
(***************************************************************************)

Pengklaim == Batches \cup Manifests \cup {NoClaim}

\* What a row says of retention, and of its claim.
SamaRetensi(r, s) ==
    /\ s.hold = r.hold /\ s.aturan = r.aturan /\ s.kode = r.kode
    /\ s.peristiwa = r.peristiwa /\ s.keputusan = r.keputusan
SamaKlaim(r, s) ==
    s.status = r.status /\ s.batch = r.batch /\ s.inaktif = r.inaktif

LEMMA ArsipTypes ==
    ASSUME NEW r \in ArsipRow
    PROVE  /\ r.hold \in BOOLEAN /\ r.status \in Status /\ r.batch \in Pengklaim
           /\ r.inaktif \in BOOLEAN /\ r.aturan \in Nat /\ r.kode \in Kode
           /\ r.peristiwa \in Nat /\ r.keputusan \in Nat
BY DEF ArsipRow, Pengklaim

(***************************************************************************)
(* Steps of the archive record and of retention governance.                *)
(***************************************************************************)

RetensiOK ==
    /\ arsip \in [Arsip -> ArsipRow]
    /\ fase \in [Arsip -> Fase]
    /\ peristiwa \in [Arsip -> Peristiwa]
    /\ kasus \in [Arsip -> Kasus]
    /\ keputusan \in [Arsip -> Keputusan]

SamaDi(x) ==
    /\ arsip'[x] = arsip[x] /\ fase'[x] = fase[x] /\ peristiwa'[x] = peristiwa[x]
    /\ kasus'[x] = kasus[x] /\ keputusan'[x] = keputusan[x]

\* A step on archive a that is no claim.
RetensiStep(a) ==
    /\ RetensiOK'
    /\ SamaKlaim(arsip[a], arsip'[a])
    /\ \A x \in Arsip : x # a => SamaDi(x)
    /\ Segar(a)' /\ Sah(a)'
    /\ arsip[a].hold /\ arsip'[a].hold => SamaRetensi(arsip[a], arsip'[a])
    /\ arsip'[a].hold # arsip[a].hold => arsip[a].status # "executed"

LEMMA SamaSegar ==
    ASSUME NEW x, SamaDi(x), Segar(x), Sah(x)
    PROVE  Segar(x)' /\ Sah(x)'
BY DEF SamaDi, Segar, Sah, PemicuSah, KeputusanBerlaku, Verified, CalculationEligible,
       ActiveAppraisal, EffectiveDisposition, RequiresHumanAppraisal

\* An archive that is claimed by nobody is not gone.
LEMMA TersediaAda ==
    ASSUME NEW a, Tersedia(a)
    PROVE  arsip[a].status = "active" /\ ~arsip[a].hold
BY DEF Tersedia

LEMMA PlaceLegalHoldStep ==
    ASSUME RetensiOK, NEW a \in Arsip, Segar(a), Sah(a), PlaceLegalHold(a)
    PROVE  RetensiStep(a)
<1>. DEFINE r == [arsip[a] EXCEPT !.hold = TRUE]
<1>1. /\ r \in ArsipRow /\ SamaKlaim(arsip[a], r) /\ r.hold = TRUE
      /\ r.peristiwa = arsip[a].peristiwa /\ r.keputusan = arsip[a].keputusan
      /\ r.aturan = arsip[a].aturan
  BY DEF RetensiOK, ArsipRow, SamaKlaim
<1>2. arsip' = [arsip EXCEPT ![a] = r]
  BY DEF PlaceLegalHold
<1>. HIDE DEF r
<1>3. RetensiOK' /\ arsip'[a] = r /\ \A x \in Arsip : x # a => SamaDi(x)
  BY <1>1, <1>2 DEF RetensiOK, PlaceLegalHold, SamaDi
<1>4. Segar(a)'
  BY <1>1, <1>3 DEF Segar, PemicuSah, KeputusanBerlaku, PlaceLegalHold
<1>5. arsip[a].status # "executed" /\ ~arsip[a].hold /\ r.status = arsip[a].status
  BY <1>1 DEF PlaceLegalHold, SamaKlaim
<1>. QED
  BY <1>1, <1>3, <1>4, <1>5 DEF RetensiStep, Sah

LEMMA ReleaseLegalHoldStep ==
    ASSUME RetensiOK, NEW a \in Arsip, Segar(a), Sah(a), ReleaseLegalHold(a)
    PROVE  RetensiStep(a)
<1>. DEFINE r == [arsip[a] EXCEPT !.hold = FALSE]
<1>1. /\ r \in ArsipRow /\ SamaKlaim(arsip[a], r) /\ r.hold = FALSE
      /\ r.peristiwa = arsip[a].peristiwa /\ r.keputusan = arsip[a].keputusan
      /\ r.aturan = arsip[a].aturan
  BY DEF RetensiOK, ArsipRow, SamaKlaim
<1>2. arsip' = [arsip EXCEPT ![a] = r]
  BY DEF ReleaseLegalHold
<1>. HIDE DEF r
<1>3. RetensiOK' /\ arsip'[a] = r /\ \A x \in Arsip : x # a => SamaDi(x)
  BY <1>1, <1>2 DEF RetensiOK, ReleaseLegalHold, SamaDi
<1>4. Segar(a)'
  BY <1>1, <1>3 DEF Segar, PemicuSah, KeputusanBerlaku, ReleaseLegalHold
<1>5. arsip[a].status # "executed" /\ arsip[a].hold /\ r.status = arsip[a].status
  BY <1>1 DEF ReleaseLegalHold, SamaKlaim, Sah
<1>. QED
  BY <1>1, <1>3, <1>4, <1>5 DEF RetensiStep, Sah

LEMMA ReconcileRulesStep ==
    ASSUME RetensiOK, NEW a \in Arsip, NEW kode \in Kode, NEW f \in Fase, Segar(a), Sah(a),
           ReconcileRules(a, kode, f)
    PROVE  RetensiStep(a)
<1>. DEFINE r == AppendRevision(arsip[a], kode)
<1>0. arsip[a] \in ArsipRow /\ arsip[a].aturan + 1 \in Nat
  <2>1. arsip[a] \in ArsipRow
    BY DEF RetensiOK
  <2>. QED
    BY <2>1, ArsipTypes
<1>1. /\ r \in ArsipRow /\ SamaKlaim(arsip[a], r) /\ r.hold = arsip[a].hold
      /\ r.peristiwa = arsip[a].peristiwa /\ r.keputusan = 0
  BY <1>0 DEF ArsipRow, SamaKlaim, AppendRevision
<1>2. arsip' = [arsip EXCEPT ![a] = r]
  BY DEF ReconcileRules
<1>. HIDE DEF r
<1>3. RetensiOK' /\ arsip'[a] = r /\ \A x \in Arsip : x # a => SamaDi(x)
  BY <1>1, <1>2 DEF RetensiOK, ReconcileRules, SamaDi
<1>4. Segar(a)'
  BY <1>1, <1>3 DEF Segar, PemicuSah, KeputusanBerlaku, ReconcileRules
<1>5. arsip[a].status = "active" /\ ~arsip[a].hold /\ r.status = arsip[a].status
  BY <1>1, TersediaAda DEF ReconcileRules, SamaKlaim
<1>. QED
  BY <1>1, <1>3, <1>4, <1>5 DEF RetensiStep, Sah

LEMMA BerjalanStep ==
    ASSUME RetensiOK, NEW a \in Arsip, NEW f \in Fase, Segar(a), Sah(a), Berjalan(a, f)
    PROVE  RetensiStep(a)
<1>1. RetensiOK' /\ arsip' = arsip /\ \A x \in Arsip : x # a => SamaDi(x)
  BY DEF RetensiOK, Berjalan, SamaDi
<1>2. Segar(a)' /\ fase[a] # "kadaluarsa"
  BY DEF Segar, PemicuSah, KeputusanBerlaku, Berjalan
<1>3. Sah(a)'
  BY <1>1, <1>2 DEF Berjalan, Sah, Verified, PemicuSah, KeputusanBerlaku, CalculationEligible,
     ActiveAppraisal, EffectiveDisposition, RequiresHumanAppraisal
<1>. QED
  BY <1>1, <1>2, <1>3 DEF RetensiStep, SamaKlaim, SamaRetensi

LEMMA RecordRetensi ==
    ASSUME RetensiOK, NEW a \in Arsip, Segar(a), Sah(a), RecordStep(a)
    PROVE  RetensiStep(a)
<1>1. Aturan[a] \subseteq Kode
  BY ArsipAssumption DEF Kode
<1>. QED
  BY <1>1, PlaceLegalHoldStep, ReleaseLegalHoldStep, ReconcileRulesStep, BerjalanStep
     DEF RecordStep

LEMMA CreateRetentionEventStep ==
    ASSUME RetensiOK, NEW a \in Arsip, NEW u \in Penilai, Segar(a), Sah(a),
           CreateRetentionEvent(a, u)
    PROVE  RetensiStep(a)
<1>. DEFINE r == Invalidated(arsip[a])
            e == [NoPeristiwa EXCEPT !.revisi = peristiwa[a].revisi + 1, !.aktor = u]
<1>1. /\ r \in ArsipRow /\ SamaKlaim(arsip[a], r) /\ r.hold = arsip[a].hold
      /\ r.peristiwa = 0 /\ r.keputusan = 0
  BY DEF RetensiOK, ArsipRow, SamaKlaim, Invalidated
<1>2. arsip' = [arsip EXCEPT ![a] = r] /\ peristiwa' = [peristiwa EXCEPT ![a] = e]
  BY DEF CreateRetentionEvent
<1>3. e \in Peristiwa
  <2>1. peristiwa[a].revisi + 1 \in Nat
    BY DEF RetensiOK, Peristiwa
  <2>. QED
    BY <2>1 DEF Peristiwa, NoPeristiwa
<1>. HIDE DEF r, e
<1>4. RetensiOK' /\ arsip'[a] = r /\ \A x \in Arsip : x # a => SamaDi(x)
  BY <1>1, <1>2, <1>3 DEF RetensiOK, CreateRetentionEvent, SamaDi, Fase
<1>5. Segar(a)'
  BY <1>1, <1>4 DEF Segar
<1>6. arsip[a].status = "active" /\ ~arsip[a].hold /\ r.status = arsip[a].status
  BY <1>1, TersediaAda DEF CreateRetentionEvent, SamaKlaim
<1>. QED
  BY <1>1, <1>4, <1>5, <1>6 DEF RetensiStep, Sah

LEMMA VerifyRetentionEventStep ==
    ASSUME RetensiOK, NEW a \in Arsip, NEW u \in Penilai, Segar(a), Sah(a),
           NEW verdict \in {"verified", "rejected"}, NEW f \in Fase,
           VerifyRetentionEvent(a, u, verdict, f)
    PROVE  RetensiStep(a)
<1>. DEFINE e == [peristiwa[a] EXCEPT !.verdict = verdict, !.verifikator = u]
            r == IF verdict = "verified"
                 THEN [arsip[a] EXCEPT !.peristiwa = peristiwa[a].revisi, !.keputusan = 0]
                 ELSE arsip[a]
<1>1. peristiwa[a] \in Peristiwa /\ peristiwa[a].revisi \in Nat /\ arsip[a] \in ArsipRow
  BY DEF RetensiOK, Peristiwa
<1>2. /\ e \in Peristiwa /\ e.verdict = verdict /\ e.verifikator = u
      /\ e.revisi = peristiwa[a].revisi /\ e.aktor = peristiwa[a].aktor
  BY <1>1 DEF Peristiwa
<1>3. /\ r \in ArsipRow /\ SamaKlaim(arsip[a], r) /\ r.hold = arsip[a].hold
      /\ verdict = "verified" => r.peristiwa = peristiwa[a].revisi /\ r.keputusan = 0
      /\ verdict # "verified" => r = arsip[a]
  BY <1>1 DEF ArsipRow, SamaKlaim
<1>4. /\ arsip' = [arsip EXCEPT ![a] = r] /\ peristiwa' = [peristiwa EXCEPT ![a] = e]
      /\ peristiwa[a].verdict = "none" /\ peristiwa[a].aktor # u
  BY DEF VerifyRetentionEvent, RetensiOK
<1>5. /\ fase' \in [Arsip -> Fase] /\ \A x \in Arsip : x # a => fase'[x] = fase[x]
      /\ UNCHANGED <<kasus, keputusan>>
  BY DEF VerifyRetentionEvent, RetensiOK
<1>. HIDE DEF e, r
<1>6. RetensiOK' /\ arsip'[a] = r /\ peristiwa'[a] = e /\ \A x \in Arsip : x # a => SamaDi(x)
  BY <1>2, <1>3, <1>4, <1>5 DEF RetensiOK, SamaDi
<1>7. Segar(a)'
  <2>1. CASE verdict = "verified"
    BY <1>2, <1>3, <1>4, <1>6, <2>1 DEF Segar, PemicuSah
  <2>2. CASE verdict # "verified"
    <3>1. arsip[a].peristiwa = 0 /\ arsip[a].keputusan = 0
      BY <1>4 DEF Segar, PemicuSah
    <3>. QED
      BY <1>3, <1>6, <2>2, <3>1 DEF Segar
  <2>. QED
    BY <2>1, <2>2
<1>8. arsip[a].status = "active" /\ ~arsip[a].hold /\ r.status = arsip[a].status
  BY <1>3, TersediaAda DEF VerifyRetentionEvent, SamaKlaim
<1>. QED
  BY <1>3, <1>6, <1>7, <1>8 DEF RetensiStep, Sah

\* The case of an archive changes, and no archive that is gone gets into an
\* appraisal.
LEMMA KasusStep ==
    ASSUME RetensiOK, NEW a \in Arsip, Segar(a), Sah(a), NEW k \in Kasus,
           kasus' = [kasus EXCEPT ![a] = k], UNCHANGED <<arsip, fase, peristiwa, keputusan>>,
           arsip[a].status = "executed" /\ k.status \in {"open", "in_review"} => ActiveAppraisal(a)
    PROVE  RetensiStep(a)
<1>1. RetensiOK' /\ kasus'[a] = k /\ \A x \in Arsip : x # a => SamaDi(x)
  BY DEF RetensiOK, SamaDi
<1>2. Segar(a)'
  BY DEF Segar, PemicuSah, KeputusanBerlaku
<1>3. Sah(a)'
  BY <1>1 DEF Sah, Verified, PemicuSah, KeputusanBerlaku, CalculationEligible,
     ActiveAppraisal, EffectiveDisposition, RequiresHumanAppraisal
<1>. QED
  BY <1>1, <1>2, <1>3 DEF RetensiStep, SamaKlaim, SamaRetensi

LEMMA NoKasusType == NoKasus \in Kasus
BY DEF NoKasus, Kasus, Hasil

LEMMA CreateAppraisalStep ==
    ASSUME RetensiOK, NEW a \in Arsip, NEW u \in Penilai, NEW usulan \in Hasil, Segar(a), Sah(a),
           CreateAppraisal(a, u, usulan)
    PROVE  RetensiStep(a)
<1>. DEFINE k == [NoKasus EXCEPT !.status = "open", !.penilai = u, !.usulan = usulan]
<1>1. k \in Kasus
  BY NoKasusType DEF Kasus, NoKasus
<1>2. arsip[a].status # "executed"
  BY TersediaAda DEF CreateAppraisal
<1>. QED
  BY <1>1, <1>2, KasusStep DEF CreateAppraisal

LEMMA AddAppraisalEvidenceStep ==
    ASSUME RetensiOK, NEW a \in Arsip, NEW u \in Penilai, Segar(a), Sah(a),
           AddAppraisalEvidence(a, u)
    PROVE  RetensiStep(a)
<1>. DEFINE k == [kasus[a] EXCEPT !.bukti = TRUE]
<1>1. k \in Kasus /\ k.status = kasus[a].status
  BY DEF RetensiOK, Kasus
<1>2. kasus' = [kasus EXCEPT ![a] = k]
  BY DEF AddAppraisalEvidence
<1>. HIDE DEF k
<1>. QED
  BY <1>1, <1>2, KasusStep DEF AddAppraisalEvidence, ActiveAppraisal

LEMMA SubmitAppraisalStep ==
    ASSUME RetensiOK, NEW a \in Arsip, NEW u \in Penilai, Segar(a), Sah(a),
           SubmitAppraisal(a, u)
    PROVE  RetensiStep(a)
<1>. DEFINE k == [kasus[a] EXCEPT !.status = "in_review", !.aturan = arsip[a].aturan,
                                  !.peristiwa = arsip[a].peristiwa]
<1>1. arsip[a].aturan \in Nat /\ arsip[a].peristiwa \in Nat
  BY DEF RetensiOK, ArsipRow
<1>2. k \in Kasus
  BY <1>1 DEF RetensiOK, Kasus
<1>3. kasus' = [kasus EXCEPT ![a] = k] /\ arsip[a].status # "executed"
  BY TersediaAda DEF SubmitAppraisal
<1>. HIDE DEF k
<1>. QED
  BY <1>2, <1>3, KasusStep DEF SubmitAppraisal

LEMMA RejectAppraisalStep ==
    ASSUME RetensiOK, NEW a \in Arsip, NEW u \in Penilai, Segar(a), Sah(a),
           RejectAppraisal(a, u)
    PROVE  RetensiStep(a)
<1>. DEFINE k == [NoKasus EXCEPT !.status = "rejected"]
<1>1. k \in Kasus /\ k.status = "rejected"
  BY NoKasusType DEF Kasus, NoKasus
<1>2. kasus' = [kasus EXCEPT ![a] = k]
  BY DEF RejectAppraisal
<1>. HIDE DEF k
<1>. QED
  BY <1>1, <1>2, KasusStep DEF RejectAppraisal

LEMMA ApproveAppraisalStep ==
    ASSUME RetensiOK, NEW a \in Arsip, NEW u \in Penilai, Segar(a), Sah(a),
           ApproveAppraisal(a, u)
    PROVE  RetensiStep(a)
<1>. DEFINE r == [arsip[a] EXCEPT !.keputusan = keputusan[a].nomor + 1]
            d == [nomor |-> keputusan[a].nomor + 1, hasil |-> kasus[a].usulan,
                  aturan |-> kasus[a].aturan, peristiwa |-> kasus[a].peristiwa]
            k == [NoKasus EXCEPT !.status = "approved"]
<1>1. /\ keputusan[a].nomor \in Nat /\ kasus[a] \in Kasus /\ arsip[a] \in ArsipRow
      /\ kasus[a].usulan \in Hasil /\ kasus[a].aturan \in Nat /\ kasus[a].peristiwa \in Nat
  BY DEF RetensiOK, Keputusan, Kasus
<1>2. d \in Keputusan /\ d.nomor # 0
  BY <1>1 DEF Keputusan
<1>3. k \in Kasus
  BY NoKasusType DEF Kasus, NoKasus
<1>4. /\ r \in ArsipRow /\ SamaKlaim(arsip[a], r) /\ r.hold = arsip[a].hold
      /\ r.peristiwa = arsip[a].peristiwa /\ r.aturan = arsip[a].aturan
      /\ r.keputusan = d.nomor
  BY <1>1 DEF ArsipRow, SamaKlaim
<1>5. /\ d.aturan = arsip[a].aturan /\ d.peristiwa = arsip[a].peristiwa /\ PemicuSah(a)
      /\ arsip[a].status = "active" /\ ~arsip[a].hold
  BY TersediaAda DEF ApproveAppraisal, SubmissionCurrent
<1>6. /\ arsip' = [arsip EXCEPT ![a] = r] /\ keputusan' = [keputusan EXCEPT ![a] = d]
      /\ kasus' = [kasus EXCEPT ![a] = k] /\ UNCHANGED <<fase, peristiwa>>
  BY DEF ApproveAppraisal
<1>. HIDE DEF r, d, k
<1>7. /\ RetensiOK' /\ arsip'[a] = r /\ keputusan'[a] = d
      /\ \A x \in Arsip : x # a => SamaDi(x)
  BY <1>2, <1>3, <1>4, <1>6 DEF RetensiOK, SamaDi
<1>8. Segar(a)'
  BY <1>4, <1>5, <1>6, <1>7 DEF Segar, PemicuSah, KeputusanBerlaku
<1>9. r.status = "active" /\ ~r.hold
  BY <1>4, <1>5 DEF SamaKlaim
<1>. QED
  BY <1>4, <1>5, <1>7, <1>8, <1>9 DEF RetensiStep, Sah

LEMMA AppraisalRetensi ==
    ASSUME RetensiOK, NEW a \in Arsip, NEW u \in Penilai, Segar(a), Sah(a), AppraisalStep(a, u)
    PROVE  RetensiStep(a)
<1>1. Usulan[a] \subseteq Hasil
  BY ArsipAssumption DEF Hasil
<1>. QED
  BY <1>1, CreateRetentionEventStep, VerifyRetentionEventStep, CreateAppraisalStep,
     AddAppraisalEvidenceStep, SubmitAppraisalStep, ApproveAppraisalStep, RejectAppraisalStep
     DEF AppraisalStep

(***************************************************************************)
(* Steps of batches and manifests.                                         *)
(***************************************************************************)

\* Retention lets archive a be disposed of with this outcome.
BolehHabis(a, hasil) ==
    /\ ~arsip[a].hold
    /\ Verified(a)
    /\ CalculationEligible(a) => fase[a] = "kadaluarsa"
    /\ ~ActiveAppraisal(a)
    /\ EffectiveDisposition(a) = hasil

TetapRetensi == UNCHANGED <<fase, peristiwa, kasus, keputusan>>

\* A claim step keeps what is known of archive a and disposes of it only with
\* a right to it.
KlaimSah(a) ==
    /\ SamaRetensi(arsip[a], arsip'[a])
    /\ arsip'[a].status = "executed" =>
         \/ arsip'[a] = arsip[a]
         \/ BolehHabis(a, IF arsip'[a].batch \in Batches THEN "musnah" ELSE "permanen")

LEMMA KlaimSahStep ==
    ASSUME NEW a, TetapRetensi, KlaimSah(a), Segar(a), Sah(a)
    PROVE  Segar(a)' /\ Sah(a)'
<1>1. Segar(a)'
  BY DEF TetapRetensi, KlaimSah, SamaRetensi, Segar, PemicuSah, KeputusanBerlaku
<1>2. CASE arsip'[a].status # "executed"
  BY <1>1, <1>2 DEF Sah
<1>3. CASE arsip'[a] = arsip[a]
  BY <1>3, SamaSegar DEF TetapRetensi, SamaDi
<1>4. CASE BolehHabis(a, IF arsip'[a].batch \in Batches THEN "musnah" ELSE "permanen")
  <2>1. /\ ~arsip'[a].hold /\ Verified(a)'
        /\ (CalculationEligible(a) => fase[a] = "kadaluarsa")' /\ ~ActiveAppraisal(a)'
    BY <1>4 DEF BolehHabis, TetapRetensi, KlaimSah, SamaRetensi, Verified, PemicuSah,
       KeputusanBerlaku, CalculationEligible, ActiveAppraisal
  <2>2. EffectiveDisposition(a)' = EffectiveDisposition(a)
    BY DEF TetapRetensi, KlaimSah, SamaRetensi, EffectiveDisposition, RequiresHumanAppraisal
  <2>. QED
    BY <1>1, <1>4, <2>1, <2>2 DEF Sah, BolehHabis
<1>. QED
  BY <1>2, <1>3, <1>4 DEF KlaimSah

\* What batch b may do to the claim on archive a: leave it, have it, or give
\* it back.
BatchKlaim(a, b) ==
    \/ /\ arsip'[a] = arsip[a] /\ arsip[a].batch # b
       /\ ~(a \in batch'[b].isi /\ BatchHolds(b)')
    \/ /\ a \in batch'[b].isi /\ BatchHolds(b)'
       /\ arsip'[a].batch = b /\ arsip'[a].status = BatchStatus(b)'
       /\ arsip[a].batch \in {b, NoClaim}
    \/ /\ arsip[a].batch = b /\ arsip'[a].batch = NoClaim /\ arsip'[a].status = "active"
       /\ ~(a \in batch'[b].isi /\ BatchHolds(b)')

LEMMA BatchStatusAda ==
    ASSUME NEW b, batch[b].jenis \in Jenis,
           batch[b].status \in {"none", "draft", "proposed", "reviewed", "approved", "executed"}
    PROVE  /\ BatchStatus(b) # "active"
           /\ BatchStatus(b) = "executed" => batch[b].status = "executed"
BY DEF BatchStatus, DisposalStatus, Jenis

LEMMA BatchSatuKlaim ==
    ASSUME SatuKlaim, batch' \in [Batches -> Batch], NEW b \in Batches, manifes' = manifes,
           \A x \in Batches : x # b => batch'[x] = batch[x],
           \A a \in Arsip : BatchKlaim(a, b)
    PROVE  SatuKlaim'
<1>1. batch'[b].jenis \in Jenis /\ BatchStatus(b)' # "active"
  <2>1. /\ batch'[b].jenis \in Jenis
        /\ batch'[b].status \in {"none", "draft", "proposed", "reviewed", "approved", "executed"}
    BY DEF Batch
  <2>. QED
    BY <2>1 DEF BatchStatus, DisposalStatus, Jenis
<1>2. b # NoClaim /\ b \notin Manifests /\ NoClaim \notin Batches /\ NoClaim \notin Manifests
  BY ArsipAssumption
<1>3. ASSUME NEW a \in Arsip PROVE Bebas(a)'
  BY <1>1, <1>2, <1>3, SatuKlaimParts DEF BatchKlaim, Bebas
<1>4. ASSUME NEW a \in Arsip, NEW x \in Batches PROVE DiBatch(a, x)'
  <2>1. CASE x = b
    BY <1>2, <2>1 DEF BatchKlaim, DiBatch
  <2>2. CASE x # b
    <3>1. /\ batch'[x] = batch[x] /\ (BatchHolds(x)' <=> BatchHolds(x))
          /\ BatchStatus(x)' = BatchStatus(x) /\ DiBatch(a, x)
      BY <2>2, SatuKlaimParts DEF BatchHolds, BatchStatus
    <3>. QED
      BY <1>2, <2>2, <3>1 DEF BatchKlaim, DiBatch
  <2>. QED
    BY <2>1, <2>2
<1>5. ASSUME NEW a \in Arsip, NEW m \in Manifests PROVE DiManifes(a, m)'
  <2>1. DiManifes(a, m) /\ Items(m)' = Items(m) /\ (ManifestHolds(m)' <=> ManifestHolds(m))
    BY SatuKlaimParts DEF Items, ManifestHolds
  <2>. QED
    BY <1>2, <2>1 DEF BatchKlaim, DiManifes
<1>. QED
  <2>1. (\A a \in Arsip : Bebas(a))' /\ (\A a \in Arsip, x \in Batches : DiBatch(a, x))'
        /\ (\A a \in Arsip, m \in Manifests : DiManifes(a, m))'
    BY <1>3, <1>4, <1>5
  <2>. QED
    BY <2>1 DEF SatuKlaim, Bebas, DiBatch, DiManifes

\* What a manifest m may do to the claim on archive a.
ManifesKlaim(a, m) ==
    \/ /\ arsip'[a] = arsip[a] /\ arsip[a].batch # m
       /\ ~(a \in Items(m)' /\ ManifestHolds(m)')
    \/ /\ a \in Items(m)' /\ ManifestHolds(m)'
       /\ arsip'[a].batch = m
       /\ arsip'[a].status = IF manifes'[m].terima = NoUser THEN "proposed_serah" ELSE "executed"
       /\ arsip[a].batch \in {m, NoClaim}
    \/ /\ arsip[a].batch = m /\ arsip'[a].batch = NoClaim /\ arsip'[a].status = "active"
       /\ ~(a \in Items(m)' /\ ManifestHolds(m)')

LEMMA ManifesSatuKlaim ==
    ASSUME SatuKlaim, NEW m \in Manifests, batch' = batch,
           \A x \in Manifests : x # m => manifes'[x] = manifes[x],
           \A a \in Arsip : ManifesKlaim(a, m)
    PROVE  SatuKlaim'
<1>2. m # NoClaim /\ m \notin Batches /\ NoClaim \notin Batches /\ NoClaim \notin Manifests
  BY ArsipAssumption
<1>3. ASSUME NEW a \in Arsip PROVE Bebas(a)'
  BY <1>2, <1>3, SatuKlaimParts DEF ManifesKlaim, Bebas
<1>4. ASSUME NEW a \in Arsip, NEW x \in Manifests PROVE DiManifes(a, x)'
  <2>1. CASE x = m
    BY <1>2, <2>1 DEF ManifesKlaim, DiManifes
  <2>2. CASE x # m
    <3>1. /\ manifes'[x] = manifes[x] /\ Items(x)' = Items(x)
          /\ (ManifestHolds(x)' <=> ManifestHolds(x)) /\ DiManifes(a, x)
      BY <2>2, SatuKlaimParts DEF Items, ManifestHolds
    <3>. QED
      BY <1>2, <2>2, <3>1 DEF ManifesKlaim, DiManifes
  <2>. QED
    BY <2>1, <2>2
<1>5. ASSUME NEW a \in Arsip, NEW b \in Batches PROVE DiBatch(a, b)'
  <2>1. DiBatch(a, b) /\ (BatchHolds(b)' <=> BatchHolds(b)) /\ BatchStatus(b)' = BatchStatus(b)
    BY SatuKlaimParts DEF BatchHolds, BatchStatus
  <2>. QED
    BY <1>2, <2>1 DEF ManifesKlaim, DiBatch
<1>. QED
  <2>1. (\A a \in Arsip : Bebas(a))' /\ (\A a \in Arsip, b \in Batches : DiBatch(a, b))'
        /\ (\A a \in Arsip, x \in Manifests : DiManifes(a, x))'
    BY <1>3, <1>4, <1>5
  <2>. QED
    BY <2>1 DEF SatuKlaim, Bebas, DiBatch, DiManifes

\* A step of ArchiveLifecycle, archive by archive.
LEMMA LifeMoved ==
    ASSUME NEW S, NEW n, NEW c,
           \A a \in Arsip : arsip'[a].hold = arsip[a].hold,
           \A a \in Arsip : a \in S => Nasib(arsip'[a]) = n /\ arsip'[a].batch = c,
           \A a \in Arsip : a \notin S =>
             Nasib(arsip'[a]) = Nasib(arsip[a]) /\ arsip'[a].batch = arsip[a].batch
    PROVE  Life!Moved(S, n, c)
BY DEF Life!Moved

\* What the types and KlaimInv say of a batch and an archive.
LEMMA BatchFakta ==
    ASSUME TypeOK, KlaimInv, NEW b \in Batches
    PROVE  /\ batch[b] \in Batch /\ batch[b].jenis \in Jenis /\ Pelaku(b)
           /\ batch[b].isi \in SUBSET Arsip /\ batch[b].pelaku \in SUBSET Pelaksana
           /\ batch[b].status = "none" => batch[b].isi = {}
           /\ \A a \in Arsip : a \notin batch[b].isi => arsip[a].batch # b
           /\ batch[b].status # "executed" => \A a \in batch[b].isi :
                arsip[a].batch = b /\ arsip[a].status = BatchStatus(b)
<1>1. batch[b] \in Batch /\ \A a \in Arsip : DiBatch(a, b) /\ arsip[a] \in ArsipRow
  BY SatuKlaimParts DEF TypeOK, KlaimInv
<1>2. batch[b].jenis \in Jenis /\ batch[b].isi \in SUBSET Arsip /\ batch[b].pelaku \in SUBSET Pelaksana
  BY <1>1 DEF Batch
<1>3. ASSUME batch[b].status = "none", NEW a \in batch[b].isi PROVE FALSE
  <2>1. a \in Arsip /\ BatchHolds(b) /\ BatchStatus(b) = "none"
    BY <1>2, <1>3 DEF BatchHolds, BatchStatus
  <2>2. arsip[a].status = "none" /\ arsip[a].status \in Status
    BY <1>1, <1>3, <2>1, ArsipTypes DEF DiBatch
  <2>. QED
    BY <2>2 DEF Status
<1>. QED
  BY <1>1, <1>2, <1>3 DEF KlaimInv, DiBatch, BatchHolds

\* What batch b does to an archive under hold, and to itself.
BatchBeku(a, b) ==
    arsip[a].hold =>
      /\ \/ arsip'[a].status = arsip[a].status /\ arsip'[a].batch = arsip[a].batch
         \/ arsip'[a].status = "active" /\ arsip'[a].inaktif = arsip[a].inaktif
      /\ arsip[a].batch = b => batch'[b].status \in {batch[b].status, "none"}

LifeStep == [Life!LifeNext]_(Life!lifeVars)

\* What holds of every step of batch b.
BatchOK(b) ==
    /\ batch' \in [Batches -> Batch] /\ arsip' \in [Arsip -> ArsipRow]
    /\ TetapRetensi
    /\ \A x \in Batches : x # b => batch'[x] = batch[x]
    /\ Pelaku(b)'
    /\ \A a \in Arsip : BatchKlaim(a, b) /\ KlaimSah(a) /\ BatchBeku(a, b)
    /\ LifeStep

\* Archives enter batch b, which is a draft.
LEMMA Masuk ==
    ASSUME TypeOK, KlaimInv, NEW b \in Batches, NEW S \in SUBSET Arsip, NEW jenis \in Jenis,
           \A a \in S : ArsipEligible(a, jenis),
           Claim(S, b, jenis), TetapRetensi,
           NEW k \in Batch, batch' = [batch EXCEPT ![b] = k],
           k.status = "draft", k.jenis = jenis, k.isi = batch[b].isi \cup S,
           batch[b].status \in {"none", "draft"},
           batch[b].isi # {} => batch[b].status = "draft" /\ batch[b].jenis = jenis,
           Pelaku(b)'
    PROVE  BatchOK(b)
<1>3. /\ batch' \in [Batches -> Batch] /\ batch'[b] = k
      /\ \A x \in Batches : x # b => batch'[x] = batch[x]
  BY DEF TypeOK
<1>4. BatchHolds(b)' /\ BatchStatus(b)' = DisposalStatus(jenis)
  BY <1>3 DEF BatchHolds, BatchStatus
<1>5. DisposalStatus(jenis) \in Status \ {"active", "executed"}
  BY DEF DisposalStatus, Jenis, Status
<1>6. ASSUME NEW a \in S
      PROVE  /\ arsip'[a] \in ArsipRow /\ SamaRetensi(arsip[a], arsip'[a])
             /\ arsip'[a].status = DisposalStatus(jenis) /\ arsip'[a].batch = b
             /\ arsip[a].batch = NoClaim /\ arsip[a].status = "active" /\ ~arsip[a].hold
  <2>1. arsip[a] \in ArsipRow /\ b \in Pengklaim
    BY DEF TypeOK, Pengklaim
  <2>2. arsip'[a] = [arsip[a] EXCEPT !.status = DisposalStatus(jenis), !.batch = b]
    BY DEF Claim
  <2>3. LET s == [arsip[a] EXCEPT !.status = DisposalStatus(jenis), !.batch = b] IN
          /\ s \in ArsipRow /\ SamaRetensi(arsip[a], s)
          /\ s.status = DisposalStatus(jenis) /\ s.batch = b
    BY <1>5, <2>1 DEF ArsipRow, SamaRetensi, Pengklaim
  <2>. QED
    BY <2>2, <2>3 DEF ArsipEligible
<1>7. ASSUME NEW a \in Arsip, a \notin S PROVE arsip'[a] = arsip[a] /\ arsip[a] \in ArsipRow
  BY <1>7 DEF Claim, TypeOK
<1>8. ASSUME NEW a \in Arsip PROVE BatchKlaim(a, b)
  <2>1. CASE a \in S
    BY <1>3, <1>4, <1>6, <2>1 DEF BatchKlaim
  <2>2. CASE a \notin S /\ a \in batch[b].isi
    <3>1. arsip[a].batch = b /\ arsip[a].status = DisposalStatus(jenis)
      BY <2>2, BatchFakta DEF BatchStatus
    <3>. QED
      BY <1>3, <1>4, <1>7, <2>2, <3>1 DEF BatchKlaim
  <2>3. CASE a \notin S /\ a \notin batch[b].isi
    BY <1>3, <1>7, <2>3, BatchFakta DEF BatchKlaim
  <2>. QED
    BY <2>1, <2>2, <2>3
<1>9. ASSUME NEW a \in Arsip PROVE KlaimSah(a) /\ BatchBeku(a, b)
  <2>1. CASE a \in S
    BY <1>5, <1>6, <2>1 DEF KlaimSah, BatchBeku
  <2>2. CASE a \notin S
    <3>1. arsip[a].batch = b => batch'[b].status = batch[b].status
      BY <1>3, <2>2, BatchFakta
    <3>. QED
      BY <1>7, <2>2, <3>1 DEF KlaimSah, SamaRetensi, BatchBeku
  <2>. QED
    BY <2>1, <2>2
<1>10. arsip' \in [Arsip -> ArsipRow]
  <2>1. \A a \in Arsip : arsip'[a] \in ArsipRow
    BY <1>6, <1>7
  <2>. QED
    BY <2>1 DEF Claim
<1>11. Life!Claim(b, S)
  <2>1. Life!Moved(S, "claimed", b)
    BY <1>5, <1>6, <1>7, LifeMoved DEF Nasib, SamaRetensi
  <2>. QED
    BY <1>6, <2>1 DEF Life!Claim, Nasib
<1>12. LifeStep
  BY <1>11 DEF LifeStep, Life!LifeNext
<1>. QED
  BY <1>3, <1>8, <1>9, <1>10, <1>12 DEF BatchOK

LEMMA SatuOrang ==
    ASSUME NEW x
    PROVE  IsFiniteSet({x}) /\ Cardinality({x}) = 1
BY FS_Singleton

LEMMA CreateStep ==
    ASSUME TypeOK, KlaimInv, NEW b \in Batches, NEW u \in Pelaksana, NEW jenis \in Jenis,
           NEW S \in SUBSET Arsip, Create(b, u, jenis, S)
    PROVE  BatchOK(b)
<1>. DEFINE k == [status |-> "draft", jenis |-> jenis, isi |-> S, pelaku |-> {u}]
<1>0. batch' = [batch EXCEPT ![b] = k] /\ batch[b].isi = {} /\ batch[b].isi \cup S = S
  BY BatchFakta DEF Create
<1>1. /\ k \in Batch /\ k.status = "draft" /\ k.jenis = jenis
      /\ k.isi = batch[b].isi \cup S /\ k.pelaku = {u}
  BY <1>0 DEF Batch
<1>. HIDE DEF k
<1>2. batch'[b].pelaku = {u} /\ batch'[b].status = "draft"
  BY <1>0, <1>1 DEF TypeOK
<1>3. Pelaku(b)'
  BY <1>2, SatuOrang DEF Pelaku
<1>. QED
  BY <1>0, <1>1, <1>3, Masuk DEF Create, TetapRetensi

LEMMA AddItemsStep ==
    ASSUME TypeOK, KlaimInv, NEW b \in Batches, NEW S \in SUBSET Arsip, AddItems(b, S)
    PROVE  BatchOK(b)
<1>. DEFINE k == [batch[b] EXCEPT !.isi = batch[b].isi \cup S]
<1>1. batch[b] \in Batch /\ batch[b].status = "draft" /\ Pelaku(b)
  BY BatchFakta DEF AddItems
<1>2. /\ k \in Batch /\ k.status = "draft" /\ k.jenis = batch[b].jenis
      /\ k.isi = batch[b].isi \cup S /\ k.pelaku = batch[b].pelaku
  BY <1>1 DEF Batch
<1>3. batch' = [batch EXCEPT ![b] = k]
  BY DEF AddItems
<1>. HIDE DEF k
<1>4. batch'[b].pelaku = batch[b].pelaku /\ batch'[b].status = "draft"
  BY <1>2, <1>3 DEF TypeOK
<1>5. Pelaku(b)'
  BY <1>1, <1>4 DEF Pelaku
<1>. QED
  BY <1>1, <1>2, <1>3, <1>5, Masuk, BatchFakta DEF AddItems, TetapRetensi

\* Batch b, a draft, keeps the archives K and gives back the others of S.
LEMMA Dilepas ==
    ASSUME TypeOK, KlaimInv, NEW b \in Batches, NEW S, batch[b].status = "draft",
           Released(S, b), TetapRetensi, NEW k \in Batch, batch' = [batch EXCEPT ![b] = k],
           k.isi = batch[b].isi \ S, k.status \in {"draft", "none"}, Pelaku(b)',
           k.status = "none" => k.isi = {},
           k.isi # {} => k.jenis = batch[b].jenis
    PROVE  BatchOK(b)
<1>1. /\ batch' \in [Batches -> Batch] /\ batch'[b] = k
      /\ \A x \in Batches : x # b => batch'[x] = batch[x]
  BY DEF TypeOK
<1>2. BatchHolds(b)' /\ (k.isi # {} => BatchStatus(b)' = DisposalStatus(batch[b].jenis))
  BY <1>1 DEF BatchHolds, BatchStatus
<1>3. /\ DisposalStatus(batch[b].jenis) \in Status \ {"active", "executed"}
      /\ BatchStatus(b) = DisposalStatus(batch[b].jenis)
  <2>1. batch[b].jenis \in Jenis
    BY BatchFakta
  <2>. QED
    BY <2>1 DEF BatchStatus, DisposalStatus, Jenis, Status
<1>0. PICK L : L = {a \in Arsip : a \in S /\ arsip[a].batch = b}
  OBVIOUS
<1>4. ASSUME NEW a \in Arsip, a \in L
      PROVE  /\ arsip'[a] \in ArsipRow /\ SamaRetensi(arsip[a], arsip'[a])
             /\ arsip'[a].status = "active" /\ arsip'[a].batch = NoClaim
             /\ arsip'[a].inaktif = arsip[a].inaktif
             /\ arsip[a].batch = b /\ arsip[a].status = DisposalStatus(batch[b].jenis)
  <2>1. arsip[a] \in ArsipRow /\ NoClaim \in Pengklaim /\ "active" \in Status
    BY DEF TypeOK, Pengklaim, Status
  <2>2. arsip'[a] = [arsip[a] EXCEPT !.status = "active", !.batch = NoClaim]
    BY <1>0, <1>4 DEF Released, Lepas
  <2>3. arsip[a].batch = b /\ a \in batch[b].isi
    BY <1>0, <1>4, BatchFakta
  <2>4. LET s == [arsip[a] EXCEPT !.status = "active", !.batch = NoClaim] IN
          /\ s \in ArsipRow /\ SamaRetensi(arsip[a], s)
          /\ s.status = "active" /\ s.batch = NoClaim /\ s.inaktif = arsip[a].inaktif
    BY <2>1 DEF ArsipRow, SamaRetensi, Pengklaim
  <2>. QED
    BY <1>3, <2>2, <2>3, <2>4, BatchFakta
<1>5. ASSUME NEW a \in Arsip, a \notin L PROVE arsip'[a] = arsip[a] /\ arsip[a] \in ArsipRow
  BY <1>0, <1>5 DEF Released, TypeOK
<1>6. ASSUME NEW a \in Arsip PROVE BatchKlaim(a, b)
  <2>1. CASE a \in L
    BY <1>0, <1>1, <1>4, <2>1 DEF BatchKlaim
  <2>2. CASE a \notin L /\ a \in k.isi
    <3>1. arsip[a].batch = b /\ arsip[a].status = BatchStatus(b)
      BY <1>0, <2>2, BatchFakta
    <3>. QED
      BY <1>1, <1>2, <1>3, <1>5, <2>2, <3>1 DEF BatchKlaim
  <2>3. CASE a \notin L /\ a \notin k.isi
    <3>1. arsip[a].batch # b
      BY <1>0, <2>3, BatchFakta
    <3>. QED
      BY <1>1, <1>5, <2>3, <3>1 DEF BatchKlaim
  <2>. QED
    BY <2>1, <2>2, <2>3
<1>7. ASSUME NEW a \in Arsip PROVE KlaimSah(a) /\ BatchBeku(a, b)
  <2>1. CASE a \in L
    BY <1>1, <1>4, <2>1 DEF KlaimSah, BatchBeku
  <2>2. CASE a \notin L
    BY <1>1, <1>5, <2>2 DEF KlaimSah, SamaRetensi, BatchBeku
  <2>. QED
    BY <2>1, <2>2
<1>8. arsip' \in [Arsip -> ArsipRow]
  <2>1. \A a \in Arsip : arsip'[a] \in ArsipRow
    BY <1>4, <1>5
  <2>. QED
    BY <2>1 DEF Released
<1>9. Life!GiveBack(b, L)
  <2>1. Life!Moved(L, "free", NoClaim)
    <3>1. \A a \in Arsip : arsip'[a].hold = arsip[a].hold
      BY <1>4, <1>5 DEF SamaRetensi
    <3>2. \A a \in Arsip : a \in L => Nasib(arsip'[a]) = "free" /\ arsip'[a].batch = NoClaim
      BY <1>4 DEF Nasib
    <3>. QED
      BY <1>5, <3>1, <3>2, LifeMoved
  <2>2. L \subseteq Life!Claimed(b)
    BY <1>0, <1>3, <1>4 DEF Life!Claimed, Nasib
  <2>. QED
    BY <2>1, <2>2 DEF Life!GiveBack
<1>10. LifeStep
  <2>1. L \in SUBSET Arsip /\ b \in Batches \cup Manifests
    BY <1>0
  <2>. QED
    BY <1>9, <2>1 DEF LifeStep, Life!LifeNext
<1>. QED
  BY <1>1, <1>6, <1>7, <1>8, <1>10 DEF BatchOK

LEMMA RemoveItemsStep ==
    ASSUME TypeOK, KlaimInv, NEW b \in Batches, NEW S \in SUBSET Arsip, RemoveItems(b, S)
    PROVE  BatchOK(b)
<1>. DEFINE k == [batch[b] EXCEPT !.isi = batch[b].isi \ S]
<1>1. batch[b] \in Batch /\ batch[b].status = "draft" /\ Pelaku(b)
  BY BatchFakta DEF RemoveItems
<1>2. /\ k \in Batch /\ k.isi = batch[b].isi \ S /\ k.status = "draft"
      /\ k.jenis = batch[b].jenis /\ k.pelaku = batch[b].pelaku
  BY <1>1 DEF Batch
<1>3. batch' = [batch EXCEPT ![b] = k]
  BY DEF RemoveItems
<1>. HIDE DEF k
<1>4. batch'[b] = k
  BY <1>3 DEF TypeOK
<1>5. Pelaku(b)'
  BY <1>1, <1>2, <1>4 DEF Pelaku
<1>. QED
  BY <1>1, <1>2, <1>3, <1>5, Dilepas DEF RemoveItems, TetapRetensi

LEMMA DeleteBatchStep ==
    ASSUME TypeOK, KlaimInv, NEW b \in Batches, DeleteBatch(b)
    PROVE  BatchOK(b)
<1>1. /\ NoBatch \in Batch /\ NoBatch.isi = {} /\ NoBatch.status = "none"
      /\ NoBatch.isi = batch[b].isi \ batch[b].isi
  BY DEF NoBatch, Batch, Jenis
<1>2. batch'[b] = NoBatch
  BY DEF DeleteBatch, TypeOK
<1>3. Pelaku(b)'
  BY <1>2, FS_EmptySet DEF NoBatch, Pelaku
<1>. QED
  BY <1>1, <1>3, Dilepas DEF DeleteBatch, TetapRetensi

\* The next status of a batch, with who brought it there.
LEMMA PelakuLanjut ==
    ASSUME NEW b \in Batches, NEW u, NEW k, Pelaku(b), batch'[b] = k,
           batch[b].status \in {"draft", "proposed", "reviewed", "approved"},
           batch[b].status # "draft" => u \notin batch[b].pelaku,
           k.status = StatusFlow(batch[b].status), k.pelaku = batch[b].pelaku \cup {u}
    PROVE  Pelaku(b)'
<1>. DEFINE P == batch[b].pelaku
<1>1. IsFiniteSet(P) /\ Cardinality(P) \in Nat
  BY FS_CardinalityType DEF Pelaku
<1>2. /\ IsFiniteSet(P \cup {u})
      /\ Cardinality(P \cup {u}) = IF u \in P THEN Cardinality(P) ELSE Cardinality(P) + 1
  BY <1>1, FS_AddElement
<1>3. Cardinality(P) >= 1
  BY <1>1 DEF Pelaku
<1>4. /\ batch[b].status = "draft" => k.status = "proposed" /\ Cardinality(P \cup {u}) >= 1
      /\ batch[b].status = "proposed" => k.status = "reviewed" /\ Cardinality(P \cup {u}) >= 2
      /\ batch[b].status = "reviewed" => k.status = "approved" /\ Cardinality(P \cup {u}) >= 3
      /\ batch[b].status = "approved" => k.status = "executed" /\ Cardinality(P \cup {u}) >= 4
  BY <1>1, <1>2, <1>3 DEF Pelaku, StatusFlow
<1>. HIDE DEF P
<1>5. k.pelaku = P \cup {u}
  BY DEF P
<1>. QED
  BY <1>2, <1>4, <1>5 DEF Pelaku

\* What a transition does to an archive of the batch.
LEMMA EffectFakta ==
    ASSUME NEW r \in ArsipRow, NEW jenis \in Jenis,
           NEW next \in {"proposed", "reviewed", "approved", "executed"}
    PROVE  /\ Effect(r, jenis, next) \in ArsipRow /\ SamaRetensi(r, Effect(r, jenis, next))
           /\ Effect(r, jenis, next).batch =
                IF next = "executed" /\ jenis # "pemusnahan" THEN NoClaim ELSE r.batch
           /\ Effect(r, jenis, next).status =
                IF next = "executed" /\ jenis # "pemusnahan" THEN "active"
                ELSE IF next \in {"approved", "executed"} THEN next ELSE r.status
<1>1. CASE next \in {"proposed", "reviewed"}
  BY <1>1 DEF Effect, SamaRetensi
<1>2. CASE next = "approved"
  <2>1. Effect(r, jenis, next) = [r EXCEPT !.status = "approved"]
    BY <1>2 DEF Effect
  <2>. QED
    BY <1>2, <2>1 DEF SamaRetensi, ArsipRow, Status
<1>3. CASE next = "executed" /\ jenis = "pemusnahan"
  <2>1. Effect(r, jenis, next) = [r EXCEPT !.status = "executed"]
    BY <1>3 DEF Effect, Executed
  <2>. QED
    BY <1>3, <2>1 DEF SamaRetensi, ArsipRow, Status
<1>4. CASE next = "executed" /\ jenis = "alih_media"
  <2>1. Effect(r, jenis, next) = [r EXCEPT !.status = "active", !.batch = NoClaim]
    BY <1>4 DEF Effect, Executed, Lepas
  <2>. QED
    BY <1>4, <2>1 DEF SamaRetensi, ArsipRow, Status
<1>5. CASE next = "executed" /\ jenis = "pemindahan"
  <2>1. Effect(r, jenis, next) =
          [[r EXCEPT !.status = "active", !.batch = NoClaim] EXCEPT !.inaktif = TRUE]
    BY <1>5 DEF Effect, Executed, Lepas
  <2>. QED
    BY <1>5, <2>1 DEF SamaRetensi, ArsipRow, Status
<1>. QED
  BY <1>1, <1>2, <1>3, <1>4, <1>5 DEF Jenis

LEMMA UpdateStatusStep ==
    ASSUME TypeOK, KlaimInv, NEW b \in Batches, NEW u \in Pelaksana, UpdateStatus(b, u)
    PROVE  BatchOK(b)
<1>. DEFINE next == StatusFlow(batch[b].status)
            jenis == batch[b].jenis
            isi == batch[b].isi
            k == [batch[b] EXCEPT !.status = next, !.pelaku = batch[b].pelaku \cup {u}]
<1>1. /\ batch[b] \in Batch /\ Pelaku(b) /\ jenis \in Jenis /\ isi \subseteq Arsip
      /\ next \in {"proposed", "reviewed", "approved", "executed"}
      /\ next \in {"proposed", "reviewed"} <=> batch[b].status \in {"draft", "proposed"}
      /\ next = "approved" <=> batch[b].status = "reviewed"
      /\ batch[b].status # "executed"
  BY BatchFakta DEF UpdateStatus, StatusFlow
<1>2. /\ k \in Batch /\ k.isi = isi /\ k.jenis = jenis /\ k.status = next
      /\ k.pelaku = batch[b].pelaku \cup {u}
  BY <1>1 DEF Batch
<1>3. batch' = [batch EXCEPT ![b] = k]
  BY DEF UpdateStatus
<1>4. arsip' = [a \in Arsip |-> IF a \in isi THEN Effect(arsip[a], jenis, next) ELSE arsip[a]]
  BY DEF UpdateStatus
<1>5. /\ \A a \in isi : ~arsip[a].hold /\ NotBlocked(a, jenis)
      /\ TetapRetensi
  BY DEF UpdateStatus, BatchEligible, TetapRetensi
<1>6. Pelaku(b)'
  <2>1. batch'[b] = k
    BY <1>2, <1>3 DEF TypeOK
  <2>. HIDE DEF k
  <2>. QED
    BY <1>1, <1>2, <2>1, PelakuLanjut DEF UpdateStatus
<1>7. /\ DisposalStatus(jenis) \in Status \ {"active", "approved", "executed"}
      /\ \A a \in isi : /\ arsip[a].batch = b
                        /\ arsip[a].status = IF next = "executed" THEN "approved" ELSE DisposalStatus(jenis)
      /\ \A a \in Arsip : a \notin isi => arsip[a].batch # b
  <2>1. DisposalStatus(jenis) \in Status \ {"active", "approved", "executed"}
    BY <1>1 DEF DisposalStatus, Jenis, Status
  <2>2. BatchStatus(b) = IF next = "executed" THEN "approved" ELSE DisposalStatus(jenis)
    BY <1>1 DEF BatchStatus, UpdateStatus
  <2>. QED
    BY <1>1, <2>1, <2>2, BatchFakta
<1>. HIDE DEF k, next, jenis, isi
<1>8. /\ batch' \in [Batches -> Batch] /\ batch'[b] = k
      /\ \A x \in Batches : x # b => batch'[x] = batch[x]
  BY <1>2, <1>3 DEF TypeOK
<1>. DEFINE pergi == next = "executed" /\ jenis # "pemusnahan"
<1>9. ASSUME NEW a \in isi
      PROVE  /\ arsip'[a] \in ArsipRow /\ SamaRetensi(arsip[a], arsip'[a])
             /\ arsip'[a].batch = IF pergi THEN NoClaim ELSE b
             /\ arsip'[a].status = IF pergi THEN "active"
                                   ELSE IF next \in {"approved", "executed"} THEN next
                                   ELSE DisposalStatus(jenis)
  <2>1. arsip[a] \in ArsipRow /\ arsip'[a] = Effect(arsip[a], jenis, next)
    BY <1>1, <1>4 DEF TypeOK
  <2>2. /\ arsip'[a] \in ArsipRow /\ SamaRetensi(arsip[a], arsip'[a])
        /\ arsip'[a].batch = IF pergi THEN NoClaim ELSE arsip[a].batch
        /\ arsip'[a].status = IF pergi THEN "active"
                              ELSE IF next \in {"approved", "executed"} THEN next
                              ELSE arsip[a].status
    <3>1. PICK r, j, n : r = arsip[a] /\ j = jenis /\ n = next
      OBVIOUS
    <3>2. r \in ArsipRow /\ j \in Jenis /\ n \in {"proposed", "reviewed", "approved", "executed"}
      BY <1>1, <2>1, <3>1
    <3>3. Effect(r, j, n) \in ArsipRow
      BY ONLY <3>2, EffectFakta
    <3>5. SamaRetensi(r, Effect(r, j, n))
      BY ONLY <3>2, EffectFakta
    <3>6. Effect(r, j, n).batch = IF n = "executed" /\ j # "pemusnahan" THEN NoClaim ELSE r.batch
      BY ONLY <3>2, EffectFakta
    <3>7. Effect(r, j, n).status =
               IF n = "executed" /\ j # "pemusnahan" THEN "active"
               ELSE IF n \in {"approved", "executed"} THEN n ELSE r.status
      BY ONLY <3>2, EffectFakta
    <3>4. arsip'[a] = Effect(r, j, n)
      BY <2>1, <3>1
    <3>. QED
      BY <3>1, <3>3, <3>4, <3>5, <3>6, <3>7 DEF SamaRetensi
  <2>. QED
    BY <1>1, <1>7, <2>1, <2>2
<1>10. ASSUME NEW a \in Arsip, a \notin isi PROVE arsip'[a] = arsip[a] /\ arsip[a] \in ArsipRow
  BY <1>4, <1>10 DEF TypeOK
<1>11. ASSUME NEW a \in isi PROVE BatchKlaim(a, b)
  <2>1. BatchHolds(b)' <=> ~pergi
    BY <1>2, <1>8 DEF BatchHolds
  <2>2. next \in {"approved", "executed"} => BatchStatus(b)' = next
    BY <1>2, <1>8 DEF BatchStatus
  <2>3. next \in {"proposed", "reviewed"} => BatchStatus(b)' = DisposalStatus(jenis)
    BY <1>2, <1>8 DEF BatchStatus
  <2>. QED
    BY <1>1, <1>2, <1>7, <1>8, <1>9, <2>1, <2>2, <2>3 DEF BatchKlaim
<1>12. ASSUME NEW a \in isi PROVE KlaimSah(a) /\ BatchBeku(a, b)
  <2>1. CASE arsip'[a].status # "executed"
    BY <1>5, <1>9, <2>1 DEF KlaimSah, BatchBeku
  <2>2. CASE arsip'[a].status = "executed"
    <3>1. jenis = "pemusnahan" /\ arsip'[a].batch = b
      BY <1>7, <1>9, <2>2
    <3>2. BolehHabis(a, "musnah")
      BY <1>5, <3>1 DEF BolehHabis, NotBlocked, DispositionEligible
    <3>. QED
      BY <1>5, <1>9, <3>1, <3>2 DEF KlaimSah, BatchBeku
  <2>. QED
    BY <2>1, <2>2
<1>13. ASSUME NEW a \in Arsip PROVE BatchKlaim(a, b) /\ KlaimSah(a) /\ BatchBeku(a, b)
  <2>1. CASE a \in isi
    BY <1>11, <1>12, <2>1
  <2>2. CASE a \notin isi
    BY <1>2, <1>7, <1>8, <1>10, <2>2 DEF BatchKlaim, KlaimSah, SamaRetensi, BatchBeku
  <2>. QED
    BY <2>1, <2>2
<1>14. arsip' \in [Arsip -> ArsipRow]
  <2>1. \A a \in Arsip : arsip'[a] \in ArsipRow
    BY <1>9, <1>10
  <2>. QED
    BY <1>4, <2>1
<1>15. LifeStep
  <2>1. \A a \in Arsip : arsip'[a].hold = arsip[a].hold
    BY <1>9, <1>10 DEF SamaRetensi
  <2>2. CASE next # "executed"
    <3>1. \A a \in Arsip : Nasib(arsip'[a]) = Nasib(arsip[a]) /\ arsip'[a].batch = arsip[a].batch
      BY <1>1, <1>7, <1>9, <1>10, <2>2 DEF Nasib
    <3>. QED
      BY <2>1, <3>1 DEF LifeStep, Life!lifeVars
  <2>3. CASE next = "executed"
    <3>0. PICK S : S = isi
      OBVIOUS
    <3>1. S = Life!Claimed(b)
      BY <1>1, <1>7, <2>3, <3>0 DEF Life!Claimed, Nasib
    <3>2. CASE pergi
      <4>1. Life!Moved(S, "free", NoClaim)
        <5>1. \A a \in Arsip : a \in S => Nasib(arsip'[a]) = "free" /\ arsip'[a].batch = NoClaim
          BY <1>9, <3>0, <3>2 DEF Nasib
        <5>2. \A a \in Arsip : a \notin S =>
                Nasib(arsip'[a]) = Nasib(arsip[a]) /\ arsip'[a].batch = arsip[a].batch
          BY <1>10, <3>0
        <5>. QED
          BY <2>1, <5>1, <5>2, LifeMoved
      <4>2. S \in SUBSET Arsip /\ Life!GiveBack(b, S)
        BY <1>1, <3>0, <3>1, <4>1 DEF Life!GiveBack
      <4>. QED
        BY <4>2 DEF LifeStep, Life!LifeNext
    <3>3. CASE ~pergi
      <4>1. Life!Moved(S, "disposed", b)
        <5>1. \A a \in Arsip : a \in S => Nasib(arsip'[a]) = "disposed" /\ arsip'[a].batch = b
          BY <1>9, <2>3, <3>0, <3>3 DEF Nasib
        <5>2. \A a \in Arsip : a \notin S =>
                Nasib(arsip'[a]) = Nasib(arsip[a]) /\ arsip'[a].batch = arsip[a].batch
          BY <1>10, <3>0
        <5>. QED
          BY <2>1, <5>1, <5>2, LifeMoved
      <4>2. Life!Dispose(b)
        BY <1>1, <1>5, <3>0, <3>1, <4>1 DEF Life!Dispose, Life!Moved
      <4>. QED
        BY <4>2 DEF LifeStep, Life!LifeNext
    <3>. QED
      BY <3>2, <3>3
  <2>. QED
    BY <2>2, <2>3
<1>. QED
  BY <1>5, <1>6, <1>8, <1>13, <1>14, <1>15 DEF BatchOK

LEMMA BatchStepOK ==
    ASSUME TypeOK, KlaimInv, NEW b \in Batches, BatchStep(b)
    PROVE  BatchOK(b)
BY CreateStep, AddItemsStep, RemoveItemsStep, DeleteBatchStep, UpdateStatusStep DEF BatchStep

LEMMA NoManifesFakta ==
    /\ NoManifes \in Manifes /\ NoManifes.ada = FALSE /\ NoManifes.serah = NoUser
    /\ NoManifes.terima = NoUser /\ NoManifes.batal = "none"
BY DEF NoManifes, Manifes

\* What the types and KlaimInv say of a manifest and an archive.
LEMMA ManifesFakta ==
    ASSUME TypeOK, KlaimInv, NEW m \in Manifests
    PROVE  /\ manifes[m] \in Manifes /\ DuaOrang(m) /\ Items(m) \subseteq Arsip
           /\ ~manifes[m].ada => Items(m) = {} /\ \A a \in Arsip : arsip[a].batch # m
           /\ \A a \in Arsip : a \notin Items(m) => arsip[a].batch # m
<1>1. manifes[m] \in Manifes /\ \A a \in Arsip : DiManifes(a, m)
  BY SatuKlaimParts DEF TypeOK, KlaimInv
<1>2. DuaOrang(m) /\ Items(m) \subseteq Arsip
  BY DEF KlaimInv, Items
<1>3. ~manifes[m].ada => Items(m) = {}
  BY <1>2 DEF DuaOrang, Items, NoManifes
<1>. QED
  BY <1>1, <1>2, <1>3 DEF DiManifes

\* What manifest m does to an archive under hold, and to itself.
ManifesBeku(a, m) ==
    arsip[a].hold =>
      /\ \/ arsip'[a].status = arsip[a].status /\ arsip'[a].batch = arsip[a].batch
         \/ arsip'[a].status = "active" /\ arsip'[a].inaktif = arsip[a].inaktif
      /\ arsip[a].batch = m =>
           manifes'[m].serah = manifes[m].serah /\ manifes'[m].terima = manifes[m].terima

\* What holds of every step of manifest m.
ManifesOK(m) ==
    /\ manifes' \in [Manifests -> Manifes] /\ arsip' \in [Arsip -> ArsipRow]
    /\ TetapRetensi
    /\ \A x \in Manifests : x # m => manifes'[x] = manifes[x]
    /\ DuaOrang(m)'
    /\ \A a \in Arsip : ManifesKlaim(a, m) /\ KlaimSah(a) /\ ManifesBeku(a, m)
    /\ LifeStep

\* A step that writes only the row k of manifest m: events and requests that
\* move no archive.
LEMMA CatatanManifes ==
    ASSUME TypeOK, KlaimInv, NEW m \in Manifests, manifes[m].ada, NEW k \in Manifes,
           manifes' = [manifes EXCEPT ![m] = k], UNCHANGED recordVars,
           k.ada, k.isi = manifes[m].isi, k.terima = manifes[m].terima,
           k.batal = "approved" <=> manifes[m].batal = "approved",
           k.terima # NoUser => k.serah = manifes[m].serah,
           k.serah # manifes[m].serah => \A a \in Items(m) : ~arsip[a].hold
    PROVE  ManifesOK(m)
<1>1. /\ manifes' \in [Manifests -> Manifes] /\ manifes'[m] = k
      /\ \A x \in Manifests : x # m => manifes'[x] = manifes[x]
  BY DEF TypeOK
<1>2. Items(m)' = Items(m) /\ (ManifestHolds(m)' <=> ManifestHolds(m))
  BY <1>1 DEF Items, ManifestHolds
<1>3. arsip' = arsip /\ arsip \in [Arsip -> ArsipRow] /\ TetapRetensi
  BY DEF recordVars, TypeOK, TetapRetensi
<1>4. DuaOrang(m)'
  BY <1>1, ManifesFakta DEF DuaOrang
<1>5. ASSUME NEW a \in Arsip PROVE ManifesKlaim(a, m) /\ KlaimSah(a) /\ ManifesBeku(a, m)
  <2>1. DiManifes(a, m)
    BY SatuKlaimParts DEF KlaimInv
  <2>2. ManifesKlaim(a, m)
    BY <1>1, <1>2, <1>3, <2>1 DEF DiManifes, ManifesKlaim
  <2>3. ManifesBeku(a, m)
    BY <1>1, <1>3, <2>1 DEF DiManifes, ManifesBeku
  <2>. QED
    BY <1>3, <2>2, <2>3 DEF KlaimSah, SamaRetensi
<1>6. LifeStep
  BY <1>3 DEF LifeStep, Life!lifeVars
<1>. QED
  BY <1>1, <1>3, <1>4, <1>5, <1>6 DEF ManifesOK

LEMMA HandoverStep ==
    ASSUME TypeOK, KlaimInv, NEW m \in Manifests, NEW u \in Penilai, Handover(m, u)
    PROVE  ManifesOK(m)
<1>. DEFINE k == [manifes[m] EXCEPT !.serah = u]
<1>1. manifes[m] \in Manifes /\ DuaOrang(m)
  BY ManifesFakta
<1>2. /\ k \in Manifes /\ k.ada = manifes[m].ada /\ k.isi = manifes[m].isi
      /\ k.terima = manifes[m].terima /\ k.batal = manifes[m].batal
  BY <1>1 DEF Manifes
<1>3. manifes' = [manifes EXCEPT ![m] = k]
  BY DEF Handover
<1>. HIDE DEF k
<1>4. manifes[m].terima = NoUser /\ \A a \in Items(m) : ~arsip[a].hold
  BY <1>1 DEF Handover, DuaOrang, ItemsCurrent
<1>. QED
  BY <1>2, <1>3, <1>4, CatatanManifes DEF Handover

LEMMA RequestCancellationStep ==
    ASSUME TypeOK, KlaimInv, NEW m \in Manifests, NEW u \in Penilai, RequestCancellation(m, u)
    PROVE  ManifesOK(m)
<1>. DEFINE k == [manifes[m] EXCEPT !.batal = "pending", !.pemohon = u]
<1>1. manifes[m] \in Manifes
  BY ManifesFakta
<1>2. /\ k \in Manifes /\ k.ada = manifes[m].ada /\ k.isi = manifes[m].isi
      /\ k.terima = manifes[m].terima /\ k.batal = "pending" /\ k.serah = manifes[m].serah
  BY <1>1 DEF Manifes
<1>3. manifes' = [manifes EXCEPT ![m] = k]
  BY DEF RequestCancellation
<1>. HIDE DEF k
<1>4. manifes[m].batal # "approved"
  BY DEF RequestCancellation, NotCancelling
<1>. QED
  BY <1>2, <1>3, <1>4, CatatanManifes DEF RequestCancellation

LEMMA ReviewCancellationStep ==
    ASSUME TypeOK, KlaimInv, NEW m \in Manifests, NEW u \in Penilai,
           NEW verdict \in {"approved", "rejected"}, ReviewCancellation(m, u, verdict)
    PROVE  ManifesOK(m)
<1>0. manifes[m] \in Manifes /\ DuaOrang(m) /\ manifes[m].batal = "pending"
  BY ManifesFakta DEF ReviewCancellation, Reviewable
<1>1. manifes[m] \in Manifes /\ DuaOrang(m) /\ manifes[m].ada
  BY <1>0, NoManifesFakta DEF DuaOrang
<1>. DEFINE k == [manifes[m] EXCEPT !.batal = verdict]
<1>2. /\ k \in Manifes /\ k.ada = manifes[m].ada /\ k.isi = manifes[m].isi
      /\ k.terima = manifes[m].terima /\ k.batal = verdict /\ k.serah = manifes[m].serah
  BY <1>1 DEF Manifes
<1>3. manifes' = [manifes EXCEPT ![m] = k]
  BY DEF ReviewCancellation
<1>. HIDE DEF k
<1>4. CASE verdict = "rejected"
  <2>1. arsip' = arsip
    BY <1>4 DEF ReviewCancellation, TypeOK
  <2>2. UNCHANGED recordVars
    BY <2>1 DEF ReviewCancellation, recordVars
  <2>. QED
    BY <1>1, <1>2, <1>3, <1>4, <2>2, CatatanManifes DEF ReviewCancellation, Reviewable
<1>5. CASE verdict = "approved"
  <2>1. /\ manifes' \in [Manifests -> Manifes] /\ manifes'[m] = k
        /\ \A x \in Manifests : x # m => manifes'[x] = manifes[x]
    BY <1>2, <1>3 DEF TypeOK
  <2>2. PICK S : S = Items(m)
    OBVIOUS
  <2>3. ~ManifestHolds(m)' /\ S \in SUBSET Arsip
    BY <1>2, <1>5, <2>1, <2>2, ManifesFakta DEF ManifestHolds
  <2>4. DuaOrang(m)'
    BY <1>1, <1>2, <2>1 DEF DuaOrang
  <2>5. ASSUME NEW a \in Arsip, a \in S
        PROVE  /\ arsip'[a] \in ArsipRow /\ SamaRetensi(arsip[a], arsip'[a])
               /\ arsip'[a].status = "active" /\ arsip'[a].batch = NoClaim
               /\ arsip'[a].inaktif = arsip[a].inaktif
               /\ arsip[a].batch = m /\ arsip[a].status = "proposed_serah"
    <3>1. arsip[a] \in ArsipRow
      BY DEF TypeOK
    <3>2. arsip'[a] = [arsip[a] EXCEPT !.status = "active", !.batch = NoClaim]
      BY <1>5, <2>2, <2>5 DEF ReviewCancellation
    <3>3. arsip[a].batch = m /\ arsip[a].status = "proposed_serah"
      BY <2>2, <2>5 DEF ReviewCancellation, ItemsReserved
    <3>. QED
      BY <3>1, <3>2, <3>3 DEF ArsipRow, SamaRetensi, Status
  <2>6. ASSUME NEW a \in Arsip, a \notin S
        PROVE  arsip'[a] = arsip[a] /\ arsip[a] \in ArsipRow /\ arsip[a].batch # m
    BY <2>2, <2>6, ManifesFakta DEF ReviewCancellation, TypeOK
  <2>7. ASSUME NEW a \in Arsip PROVE ManifesKlaim(a, m) /\ KlaimSah(a) /\ ManifesBeku(a, m)
    <3>1. CASE a \in S
      BY <1>2, <2>1, <2>3, <2>5, <3>1 DEF ManifesKlaim, KlaimSah, ManifesBeku
    <3>2. CASE a \notin S
      BY <2>3, <2>6, <3>2 DEF ManifesKlaim, KlaimSah, SamaRetensi, ManifesBeku
    <3>. QED
      BY <3>1, <3>2
  <2>8. arsip' \in [Arsip -> ArsipRow]
    <3>1. \A a \in Arsip : arsip'[a] \in ArsipRow
      BY <2>5, <2>6
    <3>. QED
      BY <3>1 DEF ReviewCancellation
  <2>9. Life!GiveBack(m, S)
    <3>1. \A a \in Arsip : arsip'[a].hold = arsip[a].hold
      BY <2>5, <2>6 DEF SamaRetensi
    <3>2. \A a \in Arsip : a \in S => Nasib(arsip'[a]) = "free" /\ arsip'[a].batch = NoClaim
      BY <2>5 DEF Nasib
    <3>3. Life!Moved(S, "free", NoClaim)
      BY <2>6, <3>1, <3>2, LifeMoved
    <3>4. S \subseteq Life!Claimed(m)
      BY <2>3, <2>5 DEF Life!Claimed, Nasib
    <3>. QED
      BY <3>3, <3>4 DEF Life!GiveBack
  <2>10. LifeStep
    BY <2>3, <2>9 DEF LifeStep, Life!LifeNext
  <2>. QED
    BY <2>1, <2>4, <2>7, <2>8, <2>10 DEF ManifesOK, ReviewCancellation, TetapRetensi
<1>. QED
  BY <1>4, <1>5

LEMMA CreateManifestStep ==
    ASSUME TypeOK, KlaimInv, NEW m \in Manifests, NEW S \in SUBSET Arsip, CreateManifest(m, S)
    PROVE  ManifesOK(m)
<1>. DEFINE isi == [a \in Arsip |-> IF a \in S THEN arsip[a].keputusan ELSE 0]
            k == [NoManifes EXCEPT !.ada = TRUE, !.isi = isi]
<1>1. isi \in [Arsip -> Nat] /\ \A a \in Arsip : isi[a] # 0 <=> a \in S
  <2>1. \A a \in Arsip : arsip[a].keputusan \in Nat
    BY DEF TypeOK, ArsipRow
  <2>. QED
    BY <2>1 DEF CreateManifest, PermanentContext
<1>. HIDE DEF isi
<1>2. /\ k \in Manifes /\ k.ada = TRUE /\ k.isi = isi
      /\ k.terima = NoUser /\ k.batal = "none" /\ k.serah = NoUser
  BY <1>1 DEF Manifes, NoManifes
<1>3. manifes' = [manifes EXCEPT ![m] = k]
  BY DEF CreateManifest, isi
<1>. HIDE DEF k
<1>4. /\ manifes' \in [Manifests -> Manifes] /\ manifes'[m] = k
      /\ \A x \in Manifests : x # m => manifes'[x] = manifes[x]
  BY <1>2, <1>3 DEF TypeOK
<1>5. Items(m)' = S /\ ManifestHolds(m)' /\ DuaOrang(m)'
  BY <1>1, <1>2, <1>4 DEF Items, ManifestHolds, DuaOrang
<1>6. ASSUME NEW a \in Arsip, a \in S
      PROVE  /\ arsip'[a] \in ArsipRow /\ SamaRetensi(arsip[a], arsip'[a])
             /\ arsip'[a].status = "proposed_serah" /\ arsip'[a].batch = m
             /\ arsip[a].batch = NoClaim /\ arsip[a].status = "active" /\ ~arsip[a].hold
  <2>1. arsip[a] \in ArsipRow
    BY DEF TypeOK
  <2>2. arsip'[a] = [arsip[a] EXCEPT !.status = "proposed_serah", !.batch = m]
    BY <1>6 DEF CreateManifest
  <2>3. arsip[a].batch = NoClaim /\ arsip[a].status = "active" /\ ~arsip[a].hold
    BY <1>6 DEF CreateManifest, Tersedia
  <2>. QED
    BY <2>1, <2>2, <2>3 DEF ArsipRow, SamaRetensi, Status
<1>7. ASSUME NEW a \in Arsip, a \notin S
      PROVE  arsip'[a] = arsip[a] /\ arsip[a] \in ArsipRow /\ arsip[a].batch # m
  BY <1>7, ManifesFakta DEF CreateManifest, TypeOK
<1>8. ASSUME NEW a \in Arsip PROVE ManifesKlaim(a, m) /\ KlaimSah(a) /\ ManifesBeku(a, m)
  <2>1. CASE a \in S
    BY <1>2, <1>4, <1>5, <1>6, <2>1 DEF ManifesKlaim, KlaimSah, ManifesBeku
  <2>2. CASE a \notin S
    BY <1>5, <1>7, <2>2 DEF ManifesKlaim, KlaimSah, SamaRetensi, ManifesBeku
  <2>. QED
    BY <2>1, <2>2
<1>9. arsip' \in [Arsip -> ArsipRow]
  <2>1. \A a \in Arsip : arsip'[a] \in ArsipRow
    BY <1>6, <1>7
  <2>. QED
    BY <2>1 DEF CreateManifest
<1>10. Life!Claim(m, S)
  <2>1. \A a \in Arsip : arsip'[a].hold = arsip[a].hold
    BY <1>6, <1>7 DEF SamaRetensi
  <2>2. \A a \in Arsip : a \in S => Nasib(arsip'[a]) = "claimed" /\ arsip'[a].batch = m
    BY <1>6 DEF Nasib
  <2>3. Life!Moved(S, "claimed", m)
    BY <1>7, <2>1, <2>2, LifeMoved
  <2>. QED
    BY <1>6, <2>3 DEF Life!Claim, Nasib
<1>11. LifeStep
  BY <1>10 DEF LifeStep, Life!LifeNext
<1>. QED
  BY <1>4, <1>5, <1>8, <1>9, <1>11 DEF ManifesOK, CreateManifest, TetapRetensi

LEMMA AcknowledgeStep ==
    ASSUME TypeOK, KlaimInv, NEW m \in Manifests, NEW u \in Penilai, Acknowledge(m, u)
    PROVE  ManifesOK(m)
<1>. DEFINE k == [manifes[m] EXCEPT !.terima = u]
<1>1. manifes[m] \in Manifes /\ DuaOrang(m) /\ manifes[m].ada /\ u # NoUser
  BY ManifesFakta, ArsipAssumption DEF Acknowledge, DuaOrang, NoManifes
<1>2. /\ k \in Manifes /\ k.ada = manifes[m].ada /\ k.isi = manifes[m].isi
      /\ k.terima = u /\ k.batal = manifes[m].batal /\ k.serah = manifes[m].serah
  BY <1>1 DEF Manifes
<1>3. manifes' = [manifes EXCEPT ![m] = k]
  BY DEF Acknowledge
<1>. HIDE DEF k
<1>4. /\ manifes' \in [Manifests -> Manifes] /\ manifes'[m] = k
      /\ \A x \in Manifests : x # m => manifes'[x] = manifes[x]
  BY <1>2, <1>3 DEF TypeOK
<1>5. PICK S : S = Items(m)
  OBVIOUS
<1>6. Items(m)' = S /\ ManifestHolds(m)' /\ DuaOrang(m)' /\ S \in SUBSET Arsip
  <2>1. DuaOrang(m)'
    BY <1>1, <1>2, <1>4 DEF DuaOrang, Acknowledge
  <2>2. Items(m)' = Items(m) /\ ManifestHolds(m)'
    BY <1>2, <1>4 DEF Items, ManifestHolds, Acknowledge, NotCancelling
  <2>. QED
    BY <1>5, <2>1, <2>2, ManifesFakta
<1>7. ASSUME NEW a \in Arsip, a \in S
      PROVE  /\ arsip'[a] \in ArsipRow /\ SamaRetensi(arsip[a], arsip'[a])
             /\ arsip'[a].status = "executed" /\ arsip'[a].batch = m
             /\ arsip[a].batch = m /\ arsip[a].status = "proposed_serah" /\ ~arsip[a].hold
             /\ BolehHabis(a, "permanen")
  <2>1. arsip[a] \in ArsipRow
    BY DEF TypeOK
  <2>2. arsip'[a] = [arsip[a] EXCEPT !.status = "executed"]
    BY <1>5, <1>7 DEF Acknowledge
  <2>3. /\ arsip[a].batch = m /\ arsip[a].status = "proposed_serah" /\ ~arsip[a].hold
        /\ PermanentContext(a, manifes[m].isi[a])
    BY <1>5, <1>7 DEF Acknowledge, ItemsCurrent
  <2>4. BolehHabis(a, "permanen")
    BY <2>3 DEF PermanentContext, DispositionEligible, BolehHabis
  <2>. QED
    BY <2>1, <2>2, <2>3, <2>4 DEF ArsipRow, SamaRetensi, Status
<1>8. ASSUME NEW a \in Arsip, a \notin S
      PROVE  arsip'[a] = arsip[a] /\ arsip[a] \in ArsipRow /\ arsip[a].batch # m
  BY <1>5, <1>8, ManifesFakta DEF Acknowledge, TypeOK
<1>9. ASSUME NEW a \in Arsip PROVE ManifesKlaim(a, m) /\ KlaimSah(a) /\ ManifesBeku(a, m)
  <2>1. CASE a \in S
    <3>1. m \notin Batches
      BY ArsipAssumption
    <3>. QED
      BY <1>1, <1>2, <1>4, <1>6, <1>7, <2>1, <3>1 DEF ManifesKlaim, KlaimSah, ManifesBeku
  <2>2. CASE a \notin S
    BY <1>6, <1>8, <2>2 DEF ManifesKlaim, KlaimSah, SamaRetensi, ManifesBeku
  <2>. QED
    BY <2>1, <2>2
<1>10. arsip' \in [Arsip -> ArsipRow]
  <2>1. \A a \in Arsip : arsip'[a] \in ArsipRow
    BY <1>7, <1>8
  <2>. QED
    BY <2>1 DEF Acknowledge
<1>11. Life!Dispose(m)
  <2>1. \A a \in Arsip : arsip'[a].hold = arsip[a].hold
    BY <1>7, <1>8 DEF SamaRetensi
  <2>2. \A a \in Arsip : a \in S => Nasib(arsip'[a]) = "disposed" /\ arsip'[a].batch = m
    BY <1>7 DEF Nasib
  <2>3. Life!Moved(S, "disposed", m)
    BY <1>8, <2>1, <2>2, LifeMoved
  <2>4. S = Life!Claimed(m)
    BY <1>6, <1>7, <1>8 DEF Life!Claimed, Nasib
  <2>. QED
    BY <1>6, <1>7, <2>3, <2>4 DEF Life!Dispose, Life!Moved
<1>12. LifeStep
  BY <1>11 DEF LifeStep, Life!LifeNext
<1>. QED
  BY <1>4, <1>6, <1>9, <1>10, <1>12 DEF ManifesOK, Acknowledge, TetapRetensi

LEMMA ManifestStepOK ==
    ASSUME TypeOK, KlaimInv, NEW m \in Manifests, ManifestStep(m)
    PROVE  ManifesOK(m)
BY CreateManifestStep, HandoverStep, AcknowledgeStep, RequestCancellationStep,
   ReviewCancellationStep DEF ManifestStep

(***************************************************************************)
(* All steps.                                                              *)
(***************************************************************************)

\* What every step of the system does.
Langkah == DispInv' /\ HoldFreezesStep /\ LifeStep

LEMMA RetensiKlaim ==
    ASSUME TypeOK, KlaimInv, NEW a \in Arsip, RetensiStep(a), UNCHANGED <<batch, manifes>>
    PROVE  KlaimInv'
<1>1. \A x \in Arsip : arsip'[x].status = arsip[x].status /\ arsip'[x].batch = arsip[x].batch
  BY DEF RetensiStep, SamaKlaim, SamaDi
<1>2. /\ \A b \in Batches : BatchStatus(b)' = BatchStatus(b) /\ (BatchHolds(b)' <=> BatchHolds(b))
      /\ \A m \in Manifests : Items(m)' = Items(m) /\ (ManifestHolds(m)' <=> ManifestHolds(m))
  BY DEF BatchStatus, BatchHolds, Items, ManifestHolds
<1>3. SatuKlaim'
  <2>1. /\ \A x \in Arsip : Bebas(x)'
        /\ \A x \in Arsip, b \in Batches : DiBatch(x, b)'
        /\ \A x \in Arsip, m \in Manifests : DiManifes(x, m)'
    BY <1>1, <1>2, SatuKlaimParts DEF KlaimInv, Bebas, DiBatch, DiManifes
  <2>. QED
    BY <2>1 DEF SatuKlaim, Bebas, DiBatch, DiManifes
<1>. QED
  BY <1>3 DEF KlaimInv, Pelaku, DuaOrang

LEMMA RetensiLangkah ==
    ASSUME DispInv, NEW a \in Arsip, RetensiStep(a), UNCHANGED <<batch, manifes>>
    PROVE  Langkah
<1>1. TypeOK' /\ KlaimInv'
  BY RetensiKlaim DEF DispInv, TypeOK, RetensiStep, RetensiOK
<1>2. ASSUME NEW x \in Arsip PROVE Segar(x)' /\ Sah(x)'
  BY SamaSegar DEF RetensiStep, DispInv
<1>3. HoldFreezesStep
  <2>1. ASSUME NEW x \in Arsip, arsip[x].hold, arsip'[x].hold
        PROVE  SamaRetensi(arsip[x], arsip'[x]) /\ SamaKlaim(arsip[x], arsip'[x])
    BY <2>1 DEF RetensiStep, SamaDi, SamaRetensi, SamaKlaim
  <2>. QED
    BY <2>1 DEF HoldFreezesStep, SamaRetensi, SamaKlaim
<1>4. LifeStep
  <2>1. \A x \in Arsip : /\ Nasib(arsip'[x]) = Nasib(arsip[x]) /\ arsip'[x].batch = arsip[x].batch
                         /\ x # a => arsip'[x].hold = arsip[x].hold
    BY DEF RetensiStep, SamaKlaim, SamaDi, Nasib
  <2>2. CASE arsip'[a].hold = arsip[a].hold
    BY <2>1, <2>2 DEF LifeStep, Life!lifeVars
  <2>3. CASE arsip'[a].hold # arsip[a].hold
    <3>1. PICK h : h = arsip'[a].hold
      OBVIOUS
    <3>2. h \in BOOLEAN
      BY <1>1, <3>1 DEF TypeOK, ArsipRow
    <3>3. Nasib(arsip[a]) # "disposed"
      BY <2>3 DEF RetensiStep, Nasib
    <3>4. Life!SetHold(a, h)
      BY <2>1, <3>1, <3>3 DEF Life!SetHold
    <3>. QED
      BY <3>2, <3>4 DEF LifeStep, Life!LifeNext
  <2>. QED
    BY <2>2, <2>3
<1>. QED
  BY <1>1, <1>2, <1>3, <1>4 DEF Langkah, DispInv

LEMMA BatchLangkah ==
    ASSUME DispInv, NEW b \in Batches, BatchOK(b), manifes' = manifes
    PROVE  Langkah
<1>1. TypeOK'
  BY DEF DispInv, TypeOK, BatchOK, TetapRetensi
<1>2. KlaimInv'
  <2>1. SatuKlaim'
    BY BatchSatuKlaim DEF DispInv, KlaimInv, BatchOK
  <2>2. \A x \in Batches : Pelaku(x)'
    BY DEF DispInv, KlaimInv, BatchOK, Pelaku
  <2>3. \A m \in Manifests : DuaOrang(m)'
    BY DEF DispInv, KlaimInv, DuaOrang
  <2>. QED
    BY <2>1, <2>2, <2>3 DEF KlaimInv
<1>3. ASSUME NEW x \in Arsip PROVE Segar(x)' /\ Sah(x)'
  BY KlaimSahStep DEF DispInv, BatchOK
<1>4. HoldFreezesStep
  BY ArsipAssumption DEF HoldFreezesStep, BatchOK, KlaimSah, SamaRetensi, BatchBeku
<1>. QED
  BY <1>1, <1>2, <1>3, <1>4 DEF Langkah, DispInv, BatchOK

LEMMA ManifesLangkah ==
    ASSUME DispInv, NEW m \in Manifests, ManifesOK(m), batch' = batch
    PROVE  Langkah
<1>1. TypeOK'
  BY DEF DispInv, TypeOK, ManifesOK, TetapRetensi
<1>2. KlaimInv'
  <2>1. SatuKlaim'
    BY ManifesSatuKlaim DEF DispInv, KlaimInv, ManifesOK
  <2>2. \A x \in Batches : Pelaku(x)'
    BY DEF DispInv, KlaimInv, Pelaku
  <2>3. \A x \in Manifests : DuaOrang(x)'
    BY DEF DispInv, KlaimInv, ManifesOK, DuaOrang
  <2>. QED
    BY <2>1, <2>2, <2>3 DEF KlaimInv
<1>3. ASSUME NEW x \in Arsip PROVE Segar(x)' /\ Sah(x)'
  BY KlaimSahStep DEF DispInv, ManifesOK
<1>4. HoldFreezesStep
  BY DEF HoldFreezesStep, ManifesOK, KlaimSah, SamaRetensi, ManifesBeku
<1>. QED
  BY <1>1, <1>2, <1>3, <1>4 DEF Langkah, DispInv, ManifesOK

LEMMA DiamLangkah ==
    ASSUME DispInv, UNCHANGED vars
    PROVE  Langkah
<1>. USE DEF vars
<1>1. TypeOK' /\ \A a \in Arsip : SamaDi(a)
  BY DEF DispInv, TypeOK, SamaDi
<1>2. KlaimInv'
  <2>1. SatuKlaim'
    <3>1. SatuKlaim
      BY DEF DispInv, KlaimInv
    <3>2. /\ \A b \in Batches : BatchStatus(b)' = BatchStatus(b) /\ (BatchHolds(b)' <=> BatchHolds(b))
          /\ \A m \in Manifests : Items(m)' = Items(m) /\ (ManifestHolds(m)' <=> ManifestHolds(m))
          /\ arsip' = arsip /\ manifes' = manifes /\ batch' = batch
      BY DEF BatchStatus, BatchHolds, Items, ManifestHolds
    <3>. QED
      BY <3>1, <3>2 DEF SatuKlaim
  <2>. QED
    BY <2>1 DEF DispInv, KlaimInv, Pelaku, DuaOrang
<1>3. ASSUME NEW x \in Arsip PROVE Segar(x)' /\ Sah(x)'
  BY <1>1, SamaSegar DEF DispInv
<1>4. HoldFreezesStep /\ LifeStep
  BY DEF HoldFreezesStep, LifeStep, Life!lifeVars
<1>. QED
  BY <1>1, <1>2, <1>3, <1>4 DEF Langkah, DispInv

LEMMA NextLangkah ==
    ASSUME DispInv, [Next]_vars
    PROVE  Langkah
<1>0. RetensiOK /\ TypeOK /\ KlaimInv /\ \A a \in Arsip : Segar(a) /\ Sah(a)
  BY DEF DispInv, TypeOK, RetensiOK
<1>1. ASSUME NEW a \in Arsip, RecordStep(a), UNCHANGED <<batch, manifes>> PROVE Langkah
  BY <1>0, <1>1, RecordRetensi, RetensiLangkah
<1>2. ASSUME NEW a \in Arsip, NEW u \in Penilai, AppraisalStep(a, u), UNCHANGED <<batch, manifes>>
      PROVE  Langkah
  BY <1>0, <1>2, AppraisalRetensi, RetensiLangkah
<1>3. ASSUME NEW b \in Batches, BatchStep(b), UNCHANGED manifes PROVE Langkah
  BY <1>0, <1>3, BatchStepOK, BatchLangkah
<1>4. ASSUME NEW m \in Manifests, ManifestStep(m), UNCHANGED batch PROVE Langkah
  BY <1>0, <1>4, ManifestStepOK, ManifesLangkah
<1>5. CASE UNCHANGED vars
  BY <1>5, DiamLangkah
<1>. QED
  BY <1>1, <1>2, <1>3, <1>4, <1>5 DEF Next

LEMMA InitInv ==
    ASSUME Init
    PROVE  DispInv /\ Life!LifeInit
<1>1. ASSUME NEW a \in Arsip
      PROVE  /\ arsip[a] \in ArsipRow /\ arsip[a].status = "active" /\ arsip[a].batch = NoClaim
             /\ arsip[a].hold = FALSE /\ arsip[a].peristiwa = 0 /\ arsip[a].keputusan = 0
  <2>1. PICK n \in {0, 1}, k \in Kode : arsip[a] = Terdaftar(n, k)
    BY DEF Init, RecordInit
  <2>. QED
    BY <2>1 DEF Terdaftar, ArsipRow, Status
<1>2. /\ NoPeristiwa \in Peristiwa /\ NoKasus \in Kasus /\ NoKeputusan \in Keputusan
      /\ NoBatch \in Batch /\ NoManifes \in Manifes
  BY NoKasusType, NoManifesFakta
     DEF NoPeristiwa, Peristiwa, NoKeputusan, Keputusan, Hasil, NoBatch, Batch, Jenis
<1>3. TypeOK
  <2>1. arsip \in [Arsip -> ArsipRow]
    <3>. DEFINE R == {Terdaftar(n, k) : n \in {0, 1}, k \in Kode}
    <3>2. arsip \in [Arsip -> R]
      BY DEF Init, RecordInit
    <3>. HIDE DEF R
    <3>. QED
      BY <1>1, <3>2
  <2>. QED
    BY <1>2, <2>1 DEF TypeOK, Init, RecordInit, BatchInit, ManifestInit, Fase
<1>4. /\ \A b \in Batches : batch[b] = NoBatch /\ batch[b].isi = {}
      /\ \A m \in Manifests : manifes[m] = NoManifes /\ Items(m) = {}
  BY DEF Init, BatchInit, ManifestInit, NoBatch, NoManifes, Items
<1>5. SatuKlaim
  BY <1>1, <1>4, ArsipAssumption DEF SatuKlaim
<1>6. \A b \in Batches : Pelaku(b)
  BY <1>4, FS_EmptySet DEF Pelaku, NoBatch
<1>7. \A m \in Manifests : DuaOrang(m)
  BY <1>4, NoManifesFakta DEF DuaOrang
<1>8. DispInv
  BY <1>1, <1>3, <1>5, <1>6, <1>7 DEF DispInv, KlaimInv, Segar, Sah
<1>9. Life!LifeInit
  BY <1>1 DEF Life!LifeInit, Nasib
<1>. QED
  BY <1>8, <1>9

\* Claims, decisions and rights to a disposition fit together in every
\* reachable state.
THEOREM SpecDispInv == Spec => []DispInv
<1>1. Init => DispInv
  BY InitInv
<1>2. DispInv /\ [Next]_vars => DispInv'
  BY NextLangkah DEF Langkah
<1>. QED
  BY <1>1, <1>2, PTL DEF Spec

\* Every row keeps its type, in every behaviour.
THEOREM SpecTypeOK == Spec => []TypeOK
<1>1. DispInv => TypeOK
  BY DEF DispInv
<1>. QED
  BY <1>1, SpecDispInv, PTL

\* No archive is ever in two batches or manifests, or claimed by one that does
\* not list it, and its status is the one of whoever claims it.
THEOREM SpecSatuKlaim == Spec => []SatuKlaim
<1>1. DispInv => SatuKlaim
  BY DEF DispInv, KlaimInv
<1>. QED
  BY <1>1, SpecDispInv, PTL

\* No decision or event in force is out of date.
THEOREM SpecKeputusanSegar == Spec => []KeputusanSegar
<1>1. DispInv => KeputusanSegar
  BY DEF DispInv, Segar, KeputusanSegar
<1>. QED
  BY <1>1, SpecDispInv, PTL

\* An archive is gone only with a right to it that still stands, and by the
\* hands of enough people.
THEOREM SpecDisposisiSah == Spec => []DisposisiSah
<1>1. ASSUME DispInv, NEW a \in Arsip, arsip[a].status = "executed", arsip[a].batch \in Batches
      PROVE  Cardinality(batch[arsip[a].batch].pelaku) >= 4
  <2>1. PICK b \in Batches : b = arsip[a].batch
    BY <1>1
  <2>2. /\ DiBatch(a, b) /\ Pelaku(b) /\ batch[b].jenis \in Jenis
        /\ batch[b].status \in {"none", "draft", "proposed", "reviewed", "approved", "executed"}
    BY <1>1, SatuKlaimParts, BatchFakta DEF DispInv, KlaimInv, Batch
  <2>3. BatchStatus(b) = "executed"
    BY <1>1, <2>1, <2>2 DEF DiBatch
  <2>. QED
    BY <2>1, <2>2, <2>3, BatchStatusAda DEF Pelaku
<1>2. ASSUME DispInv, NEW a \in Arsip, arsip[a].status = "executed", arsip[a].batch \notin Batches
      PROVE  manifes[arsip[a].batch].serah # manifes[arsip[a].batch].terima
  <2>1. Bebas(a) /\ arsip[a].batch \in Batches \cup Manifests \cup {NoClaim}
    BY <1>2, SatuKlaimParts DEF DispInv, KlaimInv, TypeOK, ArsipRow
  <2>2. PICK m \in Manifests : m = arsip[a].batch
    BY <1>2, <2>1 DEF Bebas
  <2>3. DiManifes(a, m) /\ DuaOrang(m)
    BY <1>2, SatuKlaimParts DEF DispInv, KlaimInv
  <2>. QED
    BY <1>2, <2>2, <2>3 DEF DiManifes, DuaOrang
<1>3. DispInv => DisposisiSah
  BY <1>1, <1>2 DEF DispInv, Sah, DisposisiSah
<1>. QED
  BY <1>3, SpecDispInv, PTL

\* While an archive is under legal hold nothing it rests on changes, nothing
\* that claims it gets further, and it can only be given back.
THEOREM SpecHoldFreezes == Spec => HoldFreezes
<1>1. DispInv /\ [Next]_vars => [HoldFreezesStep]_vars
  BY NextLangkah DEF Langkah
<1>. QED
  BY <1>1, SpecDispInv, PTL DEF Spec, HoldFreezes

\* The services together implement the life of an archive.
THEOREM SpecLifecycleRefined == Spec => LifecycleRefined
<1>1. Init => Life!LifeInit
  BY InitInv
<1>2. DispInv /\ [Next]_vars => [Life!LifeNext]_(Life!lifeVars)
  BY NextLangkah DEF Langkah, LifeStep
<1>. QED
  BY <1>1, <1>2, SpecDispInv, PTL DEF Spec, LifecycleRefined, Life!LifeSpec

(***************************************************************************)
(* What was checked of an archive lasts while it is claimed.               *)
(***************************************************************************)

Berlangsung == {"draft", "proposed", "reviewed", "approved"}

\* The parts of HoldSajaMenahan that speak of one archive, batch or manifest.
Layak(a, b) ==
    batch[b].status \in Berlangsung /\ a \in batch[b].isi =>
      /\ arsip[a].peristiwa # 0 /\ arsip[a].aturan # 0
      /\ NotBlocked(a, batch[b].jenis)

Berisi(b) == batch[b].status \in Berlangsung \ {"draft"} => batch[b].isi # {}

Bersandar(a, m) ==
    manifes[m].terima = NoUser /\ ManifestHolds(m) /\ a \in Items(m) =>
      PermanentContext(a, manifes[m].isi[a])

LayakInv ==
    /\ \A a \in Arsip, b \in Batches : Layak(a, b)
    /\ \A b \in Batches : Berisi(b)
    /\ \A a \in Arsip, m \in Manifests : Bersandar(a, m)

\* All that the checks look at, but the hold: the calendar only moves on, and
\* an appraisal under way may end.
Awet(a) ==
    /\ arsip'[a].aturan = arsip[a].aturan /\ arsip'[a].kode = arsip[a].kode
    /\ arsip'[a].peristiwa = arsip[a].peristiwa /\ arsip'[a].keputusan = arsip[a].keputusan
    /\ arsip'[a].inaktif = arsip[a].inaktif
    /\ peristiwa'[a] = peristiwa[a] /\ keputusan'[a] = keputusan[a]
    /\ fase'[a] = fase[a] \/ fase[a] = "aktif" \/ fase'[a] = "kadaluarsa"
    /\ ActiveAppraisal(a)' => ActiveAppraisal(a)

LEMMA AwetCukup ==
    ASSUME NEW a, Awet(a)
    PROVE  /\ \A jenis \in Jenis : NotBlocked(a, jenis) => NotBlocked(a, jenis)'
           /\ \A d : PermanentContext(a, d) => PermanentContext(a, d)'
<1>1. /\ Verified(a)' <=> Verified(a)
      /\ EffectiveDisposition(a)' = EffectiveDisposition(a)
      /\ CalculationEligible(a)' <=> CalculationEligible(a)
  BY DEF Awet, Verified, PemicuSah, KeputusanBerlaku, EffectiveDisposition,
     RequiresHumanAppraisal, CalculationEligible
<1>2. DispositionEligible(a) => DispositionEligible(a)'
  BY <1>1 DEF Awet, DispositionEligible
<1>. QED
  BY <1>1, <1>2 DEF Awet, NotBlocked, PermanentContext

\* A step on archive a that is no claim, seen from any archive that is claimed.
LEMMA RecordAwet ==
    ASSUME RetensiOK, NEW a \in Arsip, RecordStep(a),
           NEW x \in Arsip, arsip[x].status # "active"
    PROVE  Awet(x)
<1>1. arsip[x] \in ArsipRow /\ arsip \in [Arsip -> ArsipRow] /\ fase \in [Arsip -> Fase]
  BY DEF RetensiOK
<1>2. ASSUME NEW h \in BOOLEAN, arsip' = [arsip EXCEPT ![a].hold = h],
             UNCHANGED <<fase, peristiwa, kasus, keputusan>>
      PROVE  Awet(x)
  <2>1. /\ arsip'[x].aturan = arsip[x].aturan /\ arsip'[x].kode = arsip[x].kode
        /\ arsip'[x].peristiwa = arsip[x].peristiwa /\ arsip'[x].keputusan = arsip[x].keputusan
        /\ arsip'[x].inaktif = arsip[x].inaktif
    BY <1>1, <1>2 DEF ArsipRow
  <2>. QED
    BY <1>2, <2>1 DEF Awet, ActiveAppraisal
<1>3. CASE PlaceLegalHold(a) \/ ReleaseLegalHold(a)
  BY <1>2, <1>3 DEF PlaceLegalHold, ReleaseLegalHold
<1>4. ASSUME NEW kode \in Aturan[a], NEW f \in Fase, ReconcileRules(a, kode, f) PROVE Awet(x)
  <2>1. x # a
    BY <1>4 DEF ReconcileRules, Tersedia
  <2>. QED
    BY <1>1, <1>4, <2>1 DEF ReconcileRules, Awet, ActiveAppraisal
<1>5. ASSUME NEW f \in Fase, Berjalan(a, f) PROVE Awet(x)
  BY <1>1, <1>5 DEF Berjalan, Awet, ActiveAppraisal
<1>. QED
  BY <1>3, <1>4, <1>5 DEF RecordStep

LEMMA AppraisalAwet ==
    ASSUME RetensiOK, NEW a \in Arsip, NEW u \in Penilai, AppraisalStep(a, u),
           NEW x \in Arsip, arsip[x].status # "active"
    PROVE  Awet(x)
<1>1. /\ arsip \in [Arsip -> ArsipRow] /\ fase \in [Arsip -> Fase]
      /\ peristiwa \in [Arsip -> Peristiwa] /\ kasus \in [Arsip -> Kasus]
      /\ keputusan \in [Arsip -> Keputusan]
  BY DEF RetensiOK
<1>2. ASSUME x # a PROVE Awet(x)
  <2>1. /\ arsip'[x] = arsip[x] /\ fase'[x] = fase[x] /\ peristiwa'[x] = peristiwa[x]
        /\ keputusan'[x] = keputusan[x] /\ kasus'[x] = kasus[x]
    BY <1>1, <1>2 DEF AppraisalStep, CreateRetentionEvent, VerifyRetentionEvent, CreateAppraisal,
       AddAppraisalEvidence, SubmitAppraisal, ApproveAppraisal, RejectAppraisal
  <2>. QED
    BY <2>1 DEF Awet, ActiveAppraisal
<1>3. ASSUME x = a PROVE Awet(x)
  <2>1. AddAppraisalEvidence(a, u) \/ RejectAppraisal(a, u)
    BY <1>3 DEF AppraisalStep, CreateRetentionEvent, VerifyRetentionEvent, CreateAppraisal,
       SubmitAppraisal, ApproveAppraisal, Tersedia
  <2>2. UNCHANGED <<arsip, fase, peristiwa, keputusan>>
    BY <2>1 DEF AddAppraisalEvidence, RejectAppraisal
  <2>3. ActiveAppraisal(a)
    BY <2>1 DEF AddAppraisalEvidence, RejectAppraisal, ActiveAppraisal
  <2>. QED
    BY <1>3, <2>2, <2>3 DEF Awet
<1>. QED
  BY <1>2, <1>3

\* Archives that a batch or a manifest has are not active.
LEMMA Diklaim ==
    ASSUME TypeOK, KlaimInv, NEW a \in Arsip
    PROVE  /\ \A b \in Batches : batch[b].status \in Berlangsung /\ a \in batch[b].isi =>
                arsip[a].batch = b /\ arsip[a].status # "active"
           /\ \A m \in Manifests : ManifestHolds(m) /\ a \in Items(m) =>
                arsip[a].batch = m /\ arsip[a].status # "active"
<1>1. ASSUME NEW b \in Batches, batch[b].status \in Berlangsung, a \in batch[b].isi
      PROVE  arsip[a].batch = b /\ arsip[a].status # "active"
  <2>1. DiBatch(a, b) /\ BatchHolds(b) /\ Bebas(a) /\ b # NoClaim
    BY <1>1, SatuKlaimParts, ArsipAssumption DEF KlaimInv, BatchHolds, Berlangsung
  <2>. QED
    BY <1>1, <2>1 DEF DiBatch, Bebas
<1>2. ASSUME NEW m \in Manifests, ManifestHolds(m), a \in Items(m)
      PROVE  arsip[a].batch = m /\ arsip[a].status # "active"
  <2>1. DiManifes(a, m) /\ Bebas(a) /\ m # NoClaim
    BY SatuKlaimParts, ArsipAssumption DEF KlaimInv
  <2>. QED
    BY <1>2, <2>1 DEF DiManifes, Bebas
<1>. QED
  BY <1>1, <1>2

\* Batches and manifests that a step leaves alone, with archives that last.
LEMMA BatchAwet ==
    ASSUME NEW b \in Batches, batch[b].jenis \in Jenis, batch'[b] = batch[b],
           NEW a \in Arsip, Layak(a, b),
           batch[b].status \in Berlangsung /\ a \in batch[b].isi => Awet(a)
    PROVE  Layak(a, b)'
BY AwetCukup DEF Layak, Awet

LEMMA ManifesAwet ==
    ASSUME NEW m \in Manifests, NEW a \in Arsip, Bersandar(a, m), manifes'[m].isi = manifes[m].isi,
           manifes'[m].terima = NoUser => manifes[m].terima = NoUser,
           ManifestHolds(m)' => ManifestHolds(m),
           ManifestHolds(m) /\ a \in Items(m) => Awet(a)
    PROVE  Bersandar(a, m)'
<1>1. Items(m)' = Items(m)
  BY DEF Items
<1>. QED
  BY <1>1, AwetCukup DEF Bersandar

\* What a claim step does not write of an archive.
LEMMA KlaimAwet ==
    ASSUME NEW a, TetapRetensi, SamaRetensi(arsip[a], arsip'[a]), arsip'[a].inaktif = arsip[a].inaktif
    PROVE  Awet(a)
BY DEF TetapRetensi, SamaRetensi, Awet, ActiveAppraisal

\* Batch b itself goes on with archives that were checked in this step, or
\* that it had before.
LEMMA BatchSendiri ==
    ASSUME TypeOK, KlaimInv, NEW b \in Batches, BatchStep(b),
           \A a \in Arsip : Layak(a, b), Berisi(b)
    PROVE  (\A a \in Arsip : Layak(a, b)') /\ Berisi(b)'
<1>1. /\ batch \in [Batches -> Batch] /\ arsip \in [Arsip -> ArsipRow]
      /\ batch[b].jenis \in Jenis /\ batch[b].isi \subseteq Arsip /\ TetapRetensi
      /\ batch[b].status = "none" => batch[b].isi = {}
      /\ \A a \in Arsip : SamaRetensi(arsip[a], arsip'[a])
  BY BatchFakta, BatchStepOK DEF TypeOK, BatchOK, KlaimSah
<1>2. ASSUME NEW a \in Arsip, NEW S \in SUBSET Arsip, NEW jenis \in Jenis, Claim(S, b, jenis)
      PROVE  Awet(a)
  <2>1. arsip'[a].inaktif = arsip[a].inaktif
    BY <1>1, <1>2 DEF Claim, ArsipRow
  <2>. QED
    BY <1>1, <2>1, KlaimAwet
<1>3. ASSUME NEW a \in Arsip, NEW jenis \in Jenis, ArsipEligible(a, jenis), Awet(a)
      PROVE  arsip'[a].peristiwa # 0 /\ arsip'[a].aturan # 0 /\ NotBlocked(a, jenis)'
  BY <1>3, AwetCukup DEF ArsipEligible, Awet
<1>4. ASSUME NEW u \in Pelaksana, NEW jenis \in Jenis, NEW S \in SUBSET Arsip, Create(b, u, jenis, S)
      PROVE  (\A a \in Arsip : Layak(a, b)') /\ Berisi(b)'
  <2>1. batch'[b].status = "draft" /\ batch'[b].jenis = jenis /\ batch'[b].isi = S
    BY <1>1, <1>4 DEF Create
  <2>2. \A a \in S : Awet(a) /\ ArsipEligible(a, jenis)
    BY <1>2, <1>4 DEF Create
  <2>. QED
    BY <1>3, <2>1, <2>2 DEF Layak, Berisi
<1>5. ASSUME NEW S \in SUBSET Arsip, AddItems(b, S)
      PROVE  (\A a \in Arsip : Layak(a, b)') /\ Berisi(b)'
  <2>1. /\ batch[b].status = "draft" /\ batch'[b].status = "draft"
        /\ batch'[b].jenis = batch[b].jenis /\ batch'[b].isi = batch[b].isi \cup S
    BY <1>1, <1>5 DEF AddItems, Batch
  <2>2. \A a \in Arsip : Awet(a)
    BY <1>1, <1>2, <1>5 DEF AddItems
  <2>3. \A a \in S : ArsipEligible(a, batch[b].jenis)
    BY <1>5 DEF AddItems
  <2>4. ASSUME NEW a \in Arsip, a \in batch[b].isi
        PROVE  arsip'[a].peristiwa # 0 /\ arsip'[a].aturan # 0 /\ NotBlocked(a, batch[b].jenis)'
    BY <1>1, <2>1, <2>2, <2>4, AwetCukup DEF Layak, Berlangsung, Awet
  <2>. QED
    BY <1>1, <1>3, <2>1, <2>2, <2>3, <2>4 DEF Layak, Berisi
<1>6. ASSUME NEW S, NEW k, Released(S, b), batch'[b] = k, k.jenis = batch[b].jenis,
             k.isi \subseteq batch[b].isi, k.status = "draft", batch[b].status = "draft"
      PROVE  (\A a \in Arsip : Layak(a, b)') /\ Berisi(b)'
  <2>1. \A a \in Arsip : arsip'[a].inaktif = arsip[a].inaktif
    BY <1>1, <1>6 DEF Released, Lepas, ArsipRow
  <2>2. \A a \in Arsip : Awet(a)
    BY <1>1, <2>1, KlaimAwet
  <2>. QED
    BY <1>1, <1>6, <2>2, AwetCukup DEF Layak, Berisi, Berlangsung, Awet
<1>7. ASSUME NEW S \in SUBSET Arsip, RemoveItems(b, S)
      PROVE  (\A a \in Arsip : Layak(a, b)') /\ Berisi(b)'
  <2>1. /\ Released(S, b) /\ batch[b].status = "draft" /\ batch'[b].status = "draft"
        /\ batch'[b].jenis = batch[b].jenis /\ batch'[b].isi \subseteq batch[b].isi
    BY <1>1, <1>7 DEF RemoveItems, Batch
  <2>. QED
    BY <1>6, <2>1
<1>8. CASE DeleteBatch(b)
  <2>1. batch'[b].status = "none"
    BY <1>1, <1>8 DEF DeleteBatch, NoBatch
  <2>. QED
    BY <2>1 DEF Layak, Berisi, Berlangsung
<1>9. ASSUME NEW u \in Pelaksana, UpdateStatus(b, u)
      PROVE  (\A a \in Arsip : Layak(a, b)') /\ Berisi(b)'
  <2>. DEFINE next == StatusFlow(batch[b].status)
  <2>1. /\ batch'[b].status = next /\ batch'[b].isi = batch[b].isi
        /\ batch'[b].jenis = batch[b].jenis /\ batch[b].isi # {}
    BY <1>1, <1>9 DEF UpdateStatus, Batch, BatchEligible
  <2>2. \A a \in batch[b].isi : /\ arsip[a].peristiwa # 0 /\ arsip[a].aturan # 0
                                /\ NotBlocked(a, batch[b].jenis)
                                /\ arsip'[a] = Effect(arsip[a], batch[b].jenis, next)
    BY <1>1, <1>9 DEF UpdateStatus, BatchEligible
  <2>3. next \in {"proposed", "reviewed", "approved", "executed"}
    BY <1>9 DEF UpdateStatus, StatusFlow
  <2>. HIDE DEF next
  <2>4. CASE next = "executed"
    BY <2>1, <2>4 DEF Layak, Berisi, Berlangsung
  <2>5. CASE next # "executed"
    <3>1. \A a \in batch[b].isi : arsip'[a].inaktif = arsip[a].inaktif
      BY <1>1, <2>2, <2>3, <2>5 DEF Effect, ArsipRow
    <3>2. \A a \in batch[b].isi : Awet(a)
      BY <1>1, <3>1, KlaimAwet
    <3>. QED
      BY <1>1, <2>1, <2>2, <3>2, AwetCukup DEF Layak, Berisi, Awet
  <2>. QED
    BY <2>4, <2>5
<1>. QED
  BY <1>4, <1>5, <1>7, <1>8, <1>9 DEF BatchStep

LEMMA BatchLayak ==
    ASSUME TypeOK, KlaimInv, LayakInv, NEW b \in Batches, BatchStep(b), manifes' = manifes
    PROVE  LayakInv'
<1>1. BatchOK(b)
  BY BatchStepOK
<1>2. ASSUME NEW a \in Arsip, arsip[a].batch \notin {b, NoClaim} PROVE Awet(a)
  <2>1. arsip'[a] = arsip[a] /\ TetapRetensi
    BY <1>1, <1>2 DEF BatchOK, BatchKlaim
  <2>. QED
    BY <2>1, KlaimAwet DEF SamaRetensi
<1>3. ASSUME NEW a \in Arsip, NEW x \in Batches PROVE Layak(a, x)' /\ Berisi(x)'
  <2>1. CASE x = b
    BY <2>1, BatchSendiri DEF LayakInv
  <2>2. CASE x # b
    <3>1. batch'[x] = batch[x] /\ batch[x].jenis \in Jenis /\ x # NoClaim
      BY <1>1, <2>2, BatchFakta, ArsipAssumption DEF BatchOK
    <3>2. batch[x].status \in Berlangsung /\ a \in batch[x].isi => Awet(a)
      BY <1>2, <2>2, <3>1, Diklaim
    <3>. QED
      BY <3>1, <3>2, BatchAwet DEF LayakInv, Berisi
  <2>. QED
    BY <2>1, <2>2
<1>4. ASSUME NEW a \in Arsip, NEW m \in Manifests PROVE Bersandar(a, m)'
  <2>1. m # b /\ m # NoClaim
    BY ArsipAssumption
  <2>2. ManifestHolds(m) /\ a \in Items(m) => Awet(a)
    BY <1>2, <2>1, Diklaim
  <2>3. ManifestHolds(m)' <=> ManifestHolds(m)
    BY DEF ManifestHolds
  <2>. QED
    BY <2>2, <2>3, ManifesAwet DEF LayakInv
<1>5. \A x \in Batches : Berisi(x)'
  <2>1. CASE Arsip # {}
    BY <1>3, <2>1
  <2>2. CASE Arsip = {}
    <3>1. \A x \in Batches : batch[x].isi = {}
      BY <2>2, BatchFakta
    <3>2. \A x \in Batches : x # b => batch'[x] = batch[x]
      BY <1>1 DEF BatchOK
    <3>3. Berisi(b)'
      BY <2>2, BatchSendiri DEF LayakInv
    <3>. QED
      BY <3>2, <3>3 DEF LayakInv, Berisi
  <2>. QED
    BY <2>1, <2>2
<1>. QED
  BY <1>3, <1>4, <1>5 DEF LayakInv

LEMMA ManifesLayak ==
    ASSUME TypeOK, KlaimInv, LayakInv, NEW m \in Manifests, ManifestStep(m), batch' = batch
    PROVE  LayakInv'
<1>1. ManifesOK(m)
  BY ManifestStepOK
<1>2. /\ arsip \in [Arsip -> ArsipRow] /\ manifes \in [Manifests -> Manifes] /\ TetapRetensi
      /\ \A a \in Arsip : SamaRetensi(arsip[a], arsip'[a])
  BY <1>1 DEF TypeOK, ManifesOK, KlaimSah
<1>3. ASSUME NEW a \in Arsip PROVE Awet(a)
  <2>1. arsip'[a].inaktif = arsip[a].inaktif
    <3>1. ASSUME NEW S \in SUBSET Arsip, CreateManifest(m, S)
          PROVE  arsip'[a].inaktif = arsip[a].inaktif
      BY <1>2, <3>1 DEF CreateManifest, ArsipRow
    <3>2. ASSUME NEW u \in Penilai, Handover(m, u) \/ RequestCancellation(m, u)
          PROVE  arsip'[a].inaktif = arsip[a].inaktif
      BY <3>2 DEF Handover, RequestCancellation, recordVars
    <3>3. ASSUME NEW u \in Penilai, Acknowledge(m, u)
          PROVE  arsip'[a].inaktif = arsip[a].inaktif
      BY <1>2, <3>3 DEF Acknowledge, ArsipRow
    <3>4. ASSUME NEW u \in Penilai, NEW verdict \in {"approved", "rejected"},
                 ReviewCancellation(m, u, verdict)
          PROVE  arsip'[a].inaktif = arsip[a].inaktif
      BY <1>2, <3>4 DEF ReviewCancellation, ArsipRow
    <3>. QED
      BY <3>1, <3>2, <3>3, <3>4 DEF ManifestStep
  <2>. QED
    BY <1>2, <2>1, KlaimAwet
<1>4. ASSUME NEW a \in Arsip, NEW x \in Batches PROVE Layak(a, x)'
  BY <1>3, BatchFakta, BatchAwet DEF LayakInv
<1>5. ASSUME NEW a \in Arsip, NEW x \in Manifests, x # m PROVE Bersandar(a, x)'
  <2>1. manifes'[x] = manifes[x]
    BY <1>1, <1>5 DEF ManifesOK
  <2>. QED
    BY <1>3, <2>1, ManifesAwet DEF LayakInv, ManifestHolds
<1>6. ASSUME NEW a \in Arsip PROVE Bersandar(a, m)'
  <2>1. ASSUME NEW S \in SUBSET Arsip, CreateManifest(m, S) PROVE Bersandar(a, m)'
    <3>1. \A d \in Arsip : manifes'[m].isi[d] = IF d \in S THEN arsip[d].keputusan ELSE 0
      BY <1>2, <2>1 DEF CreateManifest, NoManifes
    <3>2. a \in Items(m)' => a \in S
      BY <3>1 DEF Items
    <3>3. a \in S => PermanentContext(a, arsip[a].keputusan)
      BY <2>1 DEF CreateManifest
    <3>. QED
      BY <1>3, <3>1, <3>2, <3>3, AwetCukup DEF Bersandar
  <2>2. ASSUME NEW k \in Manifes, manifes' = [manifes EXCEPT ![m] = k],
               k.isi = manifes[m].isi, k.terima = NoUser => manifes[m].terima = NoUser,
               k.batal = "approved" \/ manifes[m].batal # "approved"
        PROVE  Bersandar(a, m)'
    <3>1. manifes'[m] = k
      BY <1>2, <2>2
    <3>. QED
      BY <1>3, <2>2, <3>1, ManifesAwet DEF LayakInv, ManifestHolds
  <2>3. manifes[m] \in Manifes
    BY <1>2
  <2>4. ASSUME NEW u \in Penilai, Handover(m, u) PROVE Bersandar(a, m)'
    <3>. DEFINE k == [manifes[m] EXCEPT !.serah = u]
    <3>1. /\ k \in Manifes /\ k.isi = manifes[m].isi /\ k.terima = manifes[m].terima
          /\ k.batal = manifes[m].batal
      BY <2>3 DEF Manifes
    <3>2. manifes' = [manifes EXCEPT ![m] = k]
      BY <2>4 DEF Handover
    <3>. HIDE DEF k
    <3>. QED
      BY <2>2, <3>1, <3>2
  <2>5. ASSUME NEW u \in Penilai, RequestCancellation(m, u) PROVE Bersandar(a, m)'
    <3>. DEFINE k == [manifes[m] EXCEPT !.batal = "pending", !.pemohon = u]
    <3>1. /\ k \in Manifes /\ k.isi = manifes[m].isi /\ k.terima = manifes[m].terima
      BY <2>3 DEF Manifes
    <3>2. manifes' = [manifes EXCEPT ![m] = k] /\ manifes[m].batal # "approved"
      BY <1>2, <2>5 DEF RequestCancellation, NotCancelling
    <3>. HIDE DEF k
    <3>. QED
      BY <2>2, <3>1, <3>2
  <2>6. ASSUME NEW u \in Penilai, Acknowledge(m, u) PROVE Bersandar(a, m)'
    <3>. DEFINE k == [manifes[m] EXCEPT !.terima = u]
    <3>1. /\ k \in Manifes /\ k.isi = manifes[m].isi /\ k.terima = u /\ u # NoUser
          /\ k.batal = manifes[m].batal
      BY <2>3, ArsipAssumption DEF Manifes
    <3>2. manifes' = [manifes EXCEPT ![m] = k]
      BY <2>6 DEF Acknowledge
    <3>. HIDE DEF k
    <3>. QED
      BY <2>2, <3>1, <3>2
  <2>7. ASSUME NEW u \in Penilai, NEW verdict \in {"approved", "rejected"},
               ReviewCancellation(m, u, verdict)
        PROVE  Bersandar(a, m)'
    <3>. DEFINE k == [manifes[m] EXCEPT !.batal = verdict]
    <3>1. /\ k \in Manifes /\ k.isi = manifes[m].isi /\ k.terima = manifes[m].terima
      BY <2>3 DEF Manifes
    <3>2. manifes' = [manifes EXCEPT ![m] = k] /\ manifes[m].batal # "approved"
      BY <2>7 DEF ReviewCancellation, Reviewable
    <3>. HIDE DEF k
    <3>. QED
      BY <2>2, <3>1, <3>2
  <2>. QED
    BY <2>1, <2>4, <2>5, <2>6, <2>7 DEF ManifestStep
<1>. QED
  BY <1>4, <1>5, <1>6 DEF LayakInv, Berisi

LEMMA LayakStep ==
    ASSUME DispInv, LayakInv, [Next]_vars
    PROVE  LayakInv'
<1>0. RetensiOK /\ TypeOK /\ KlaimInv
  BY DEF DispInv, TypeOK, RetensiOK
<1>1. ASSUME UNCHANGED <<batch, manifes>>,
             \A x \in Arsip : arsip[x].status # "active" => Awet(x)
      PROVE  LayakInv'
  <2>1. ASSUME NEW a \in Arsip, NEW b \in Batches PROVE Layak(a, b)'
    BY <1>0, <1>1, BatchFakta, Diklaim, BatchAwet DEF LayakInv
  <2>2. ASSUME NEW a \in Arsip, NEW m \in Manifests PROVE Bersandar(a, m)'
    BY <1>0, <1>1, Diklaim, ManifesAwet DEF LayakInv, ManifestHolds
  <2>. QED
    BY <1>1, <2>1, <2>2 DEF LayakInv, Berisi
<1>2. CASE \E a \in Arsip : RecordStep(a) /\ UNCHANGED <<batch, manifes>>
  BY <1>0, <1>1, <1>2, RecordAwet
<1>3. CASE \E a \in Arsip, u \in Penilai : AppraisalStep(a, u) /\ UNCHANGED <<batch, manifes>>
  BY <1>0, <1>1, <1>3, AppraisalAwet
<1>4. CASE UNCHANGED vars
  BY <1>1, <1>4 DEF vars, Awet, ActiveAppraisal
<1>. QED
  BY <1>0, <1>2, <1>3, <1>4, BatchLayak, ManifesLayak DEF Next

\* Once an archive was found fit for a batch or a manifest, nothing but a
\* legal hold can stop its disposal while it is claimed.
THEOREM SpecHoldSajaMenahan == Spec => []HoldSajaMenahan
<1>1. Init => DispInv /\ LayakInv
  <2>1. ASSUME Init PROVE LayakInv
    <3>1. /\ \A b \in Batches : batch[b].status = "none"
          /\ \A m \in Manifests : Items(m) = {}
      BY <2>1 DEF Init, BatchInit, ManifestInit, NoBatch, NoManifes, Items
    <3>. QED
      BY <3>1 DEF LayakInv, Layak, Berisi, Bersandar, Berlangsung
  <2>. QED
    BY <2>1, InitInv
<1>2. DispInv /\ LayakInv /\ [Next]_vars => DispInv' /\ LayakInv'
  BY NextLangkah, LayakStep DEF Langkah
<1>3. ASSUME DispInv, LayakInv PROVE HoldSajaMenahan
  <2>1. \A b \in Batches : batch[b].isi \subseteq Arsip
    BY <1>3, BatchFakta DEF DispInv
  <2>2. \A m \in Manifests : Items(m) \subseteq Arsip
    BY DEF Items
  <2>. QED
    BY <1>3, <2>1, <2>2 DEF LayakInv, Layak, Berisi, Bersandar, Berlangsung, HoldSajaMenahan
<1>. QED
  BY <1>1, <1>2, <1>3, PTL DEF Spec

=============================================================================
